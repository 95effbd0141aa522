-------------------------- MODULE JobDecisionsProofs --------------------------
(***************************************************************************)
(* The invariants of JobDecisions, for every registry that meets the       *)
(* assumptions of ProjectTailoring, all pages, signals, answers, facts and *)
(* readings.  What the scores and the requirements compute is established  *)
(* in DecisionProofs; what is proved here is that nothing that happens to  *)
(* a job between its page and its packets undoes it.                       *)
(***************************************************************************)
EXTENDS JobDecisions, DecisionProofs

-----------------------------------------------------------------------------
\* The inductive invariant.

Steps == {"idle", "copy", "compile", "install", "exchange", "save", "complete"}

IsDecision(d) ==
  d = [status |-> d.status, review |-> d.review, family |-> d.family,
       removed |-> d.removed, inserted |-> d.inserted, order |-> d.order]

IsPacket(p) ==
  p = [at |-> p.at, decision |-> p.decision, valid |-> p.valid,
       tex |-> p.tex, pdf |-> p.pdf]

FilesAgree(p) == Substitutes(p) => p.tex = "tailored" /\ p.pdf = "tailored"

\* A packet in the making: its order is good from the start, only a substitution
\* reaches the candidate, and the two files agree once they are both there.
Sound(p) ==
  /\ IsPacket(p) /\ IsDecision(p.decision)
  /\ p.at \in Steps \ {"idle"}
  /\ ProjectsAreDistinct(p.decision.order)
  /\ p.at = "copy" => p.valid
  /\ p.at \in {"compile", "install", "exchange"} => Substitutes(p)
  /\ p.at = "exchange" => p.tex = "tailored"
  /\ p.at \in {"save", "complete"} => FilesAgree(p)

WorkIsSound ==
  /\ work = [t \in Threads |-> work[t]]
  /\ \A t \in Threads : work[t] = Idle \/ Sound(work[t])

DeliveredIsSound ==
  /\ delivered = [t \in Threads |-> delivered[t]]
  /\ \A t \in Threads :
       delivered[t] /= NoPacket =>
         ProjectsAreDistinct(delivered[t].decision.order) /\ FilesAgree(delivered[t])

QueuedIsSound ==
  resolution /= Nothing =>
    /\ resolution.family \in Families
    /\ ReviewedOrderIsValid(resolution.family, resolution.order)

Types == {"classification", "tailoring"}
ReviewsAreSound ==
  /\ reviews = [type \in Types |-> reviews[type]]
  /\ \A type \in Types :
       reviews[type] = [status |-> reviews[type].status, family |-> reviews[type].family]

Asked == reviews["tailoring"].status /= "none"
DoubtIsAsked ==
  /\ At("queue2", "complete") /\ NeedsReview(work["queue2"].decision) => Asked
  /\ delivered["queue2"] /= NoPacket /\ NeedsReview(delivered["queue2"].decision) => Asked

IInv ==
  /\ WorkIsSound /\ DeliveredIsSound /\ QueuedIsSound
  /\ ReviewsAreSound /\ DoubtIsAsked /\ ClearMatchIsOfFamily

-----------------------------------------------------------------------------
\* Lemmas about packets and reviews.

\* Every decision that a profile leads to is a record of the same fields, and its
\* order is valid.
LEMMA TailoringIsSound ==
  ASSUME NEW choice \in Tailoring
  PROVE  LET d == choice[2] IN
         /\ IsDecision(d) /\ ProjectsAreDistinct(d.order)
         /\ ValidOrder(d.family, d.order, d.removed, d.inserted)
<1>1. PICK p \in {p \in Profiles : p.family \in Families}, m \in Mentions, o \in Readings :
        \E d \in Decisions(p, ReadingOf(m, o, p.family)) : choice = <<p, d>>
  BY DEF Tailoring
<1>2. PICK d \in Decisions(p, ReadingOf(m, o, p.family)) : choice = <<p, d>>
  BY <1>1
<1>3. p.family \in Families
  OBVIOUS
<1>4. ProjectsAreDistinct(d.order) /\ ValidOrder(d.family, d.order, d.removed, d.inserted)
  BY <1>3, DecisionsAreValid
<1>5. IsDecision(d)
  <2>1. CASE \E status, review : d = KeepMaster(p, status, review)
    BY <2>1 DEF KeepMaster, IsDecision
  <2>2. CASE \E r \in Options(p.family) : d = Tailored(p, r)
    BY <2>2 DEF Tailored, IsDecision
  <2> QED
    BY <1>3, <2>1, <2>2, DecisionsKeepOrSwap
<1> QED
  BY <1>2, <1>4, <1>5

\* The fallback keeps the order of a decision and is a substitution no more.
LEMMA FallbackKeepsOrder ==
  ASSUME NEW d, IsDecision(d)
  PROVE  /\ IsDecision(Fallback(d)) /\ Fallback(d).order = d.order
         /\ Fallback(d).status = "fallback_to_master"
BY DEF IsDecision, Fallback

\* One thread goes on to a sound packet or to none: the other stays as it was.
LEMMA BecomesSound ==
  ASSUME WorkIsSound, NEW t \in Threads, NEW p, p = Idle \/ Sound(p), Becomes(t, p)
  PROVE  /\ WorkIsSound' /\ work'[t] = p
         /\ \A u \in Threads \ {t} : work'[u] = work[u]
<1>1. /\ work' = [u \in Threads |-> IF u = t THEN p ELSE work[u]]
  BY DEF Becomes, WorkIsSound
<1>2. \A u \in Threads : work'[u] = Idle \/ Sound(work'[u])
  BY <1>1 DEF WorkIsSound
<1>3. work' = [u \in Threads |-> work'[u]]
  BY <1>1
<1>4. WorkIsSound'
  BY <1>2, <1>3 DEF WorkIsSound, Sound, Threads, Idle, Steps, IsPacket, IsDecision, FilesAgree, Substitutes, ProjectsAreDistinct, Project, Listed
<1> QED
  BY <1>1, <1>4

\* So does a thread that fails.
LEMMA FailIsSound ==
  ASSUME WorkIsSound, NEW t \in Threads, Fail(t)
  PROVE  /\ WorkIsSound' /\ work'[t] = Idle
         /\ \A u \in Threads \ {t} : work'[u] = work[u]
BY BecomesSound DEF Fail

\* And one that gives the candidate up: what it delivers is no substitution.
LEMMA GiveUpIsSound ==
  ASSUME WorkIsSound, NEW t \in Threads, Sound(work[t]), NEW tex, NEW pdf,
         GiveUp(t, tex, pdf)
  PROVE  /\ WorkIsSound' /\ work'[t].at \in {"save", "idle"}
         /\ \A u \in Threads \ {t} : work'[u] = work[u]
<1> DEFINE p == work[t]
           q == Moved([p EXCEPT !.decision = Fallback(@)], "save", tex, pdf)
<1>1. CASE t = "queue2"
  <2>1. q = [at |-> "save", decision |-> Fallback(p.decision), valid |-> p.valid,
             tex |-> tex, pdf |-> pdf]
    BY DEF Moved, Sound, IsPacket
  <2>2. Becomes(t, q)
    BY <1>1 DEF GiveUp
  <2> HIDE DEF q
  <2>3. IsPacket(q) /\ q.at = "save" /\ q.decision = Fallback(p.decision)
    BY <2>1 DEF IsPacket
  <2>4. Sound(q)
    BY <2>3, FallbackKeepsOrder DEF Sound, Steps, FilesAgree, Substitutes
  <2> QED
    BY <2>2, <2>3, <2>4, BecomesSound
<1>2. CASE t /= "queue2"
  BY <1>2, FailIsSound DEF GiveUp, Idle
<1> QED
  BY <1>1, <1>2

\* _ensure_pending_review leaves no review of its type unopened, and closes none.
LEMMA EnsuredOpens ==
  ASSUME ReviewsAreSound, NEW type \in Types, NEW family, reviews' = Ensured(type, family)
  PROVE  /\ ReviewsAreSound' /\ reviews'[type].status = "pending"
         /\ Asked => Asked'
<1>1. CASE reviews[type].status = "pending"
  BY <1>1 DEF Ensured, ReviewsAreSound, Asked
<1>2. CASE reviews[type].status /= "pending"
  <2>1. reviews' = [x \in Types |-> IF x = type THEN [status |-> "pending", family |-> family]
                                    ELSE reviews[x]]
    BY <1>2 DEF Ensured, ReviewsAreSound
  <2> QED
    BY <2>1 DEF ReviewsAreSound, Asked, Types
<1> QED
  BY <1>1, <1>2

\* A decision that a person has to look at opens a review when it is saved.
LEMMA SavedIsAsked ==
  ASSUME ReviewsAreSound, NEW d, DecisionIsSaved(d)
  PROVE  /\ ReviewsAreSound' /\ (Asked => Asked')
         /\ NeedsReview(d) => Asked'
<1>1. CASE NeedsReview(d)
  BY <1>1, EnsuredOpens DEF DecisionIsSaved, Types, Asked
<1>2. CASE ~NeedsReview(d)
  BY <1>2 DEF DecisionIsSaved, ReviewsAreSound, Asked
<1> QED
  BY <1>1, <1>2

-----------------------------------------------------------------------------
\* The steps.  Those of a packet, first.

\* What a packet needs to move on to a step.
Ready(p, at, tex, pdf) ==
  /\ Sound(p) /\ at \in Steps \ {"idle", "copy"}
  /\ at \in {"compile", "install", "exchange"} => Substitutes(p)
  /\ at = "exchange" => tex = "tailored"
  /\ at \in {"save", "complete"} /\ Substitutes(p) => tex = "tailored" /\ pdf = "tailored"

\* A thread moves its packet on.
LEMMA MovedIsSound ==
  ASSUME WorkIsSound, NEW t \in Threads, NEW at, NEW tex, NEW pdf,
         Ready(work[t], at, tex, pdf), Becomes(t, Moved(work[t], at, tex, pdf))
  PROVE  /\ WorkIsSound'
         /\ work'[t].at = at /\ work'[t].decision = work[t].decision
         /\ \A u \in Threads \ {t} : work'[u] = work[u]
<1> DEFINE q == Moved(work[t], at, tex, pdf)
<1>1. /\ q.at = at /\ q.decision = work[t].decision /\ q.valid = work[t].valid
      /\ q.tex = tex /\ q.pdf = pdf /\ IsPacket(q)
  BY DEF Moved, IsPacket
<1> HIDE DEF q
<1>2. Sound(q)
  BY <1>1 DEF Ready, Sound, Substitutes, FilesAgree
<1>3. Becomes(t, q)
  BY DEF q
<1> QED
  BY <1>1, <1>2, <1>3, BecomesSound

\* A thread that is at a step has a sound packet.
LEMMA AtIsSound ==
  ASSUME WorkIsSound, NEW t \in Threads, NEW step \in Steps \ {"idle"}, At(t, step)
  PROVE  Sound(work[t])
BY DEF WorkIsSound, At, Idle, Steps

\* A step of a thread to anywhere but "complete".
LEMMA ElsewhereKeeps ==
  ASSUME IInv, NEW t \in Threads, WorkIsSound', work'[t].at /= "complete",
         \A u \in Threads \ {t} : work'[u] = work[u],
         UNCHANGED <<desk, standing, reviews, resolution, delivered>>
  PROVE  IInv'
<1>1. DoubtIsAsked'
  BY DEF IInv, DoubtIsAsked, At, Asked, Threads
<1> QED
  BY <1>1 DEF IInv, DeliveredIsSound, QueuedIsSound, ReviewsAreSound, ClearMatchIsOfFamily

\* The steps of a packet.
LEMMA PrepareKeeps ==
  ASSUME IInv, NEW t \in Threads, Prepare(t)
  PROVE  IInv'
<1>0. WorkIsSound
  BY DEF IInv
<1>1. CASE CopyMaster(t)
  <2>1. Sound(work[t])
    BY <1>0, <1>1, AtIsSound DEF CopyMaster, Steps
  <2>2. WorkIsSound' /\ work'[t].at /= "complete" /\ \A u \in Threads \ {t} : work'[u] = work[u]
    <3>1. CASE Substitutes(work[t]) /\ ~Fail(t)
      <4>1. Becomes(t, Moved(work[t], "compile", "master", "master"))
        BY <1>1, <3>1 DEF CopyMaster
      <4>2. Ready(work[t], "compile", "master", "master")
        BY <2>1, <3>1 DEF Ready, Steps
      <4>3. work'[t].at = "compile" /\ WorkIsSound' /\ \A u \in Threads \ {t} : work'[u] = work[u]
        BY <1>0, <4>1, <4>2, MovedIsSound
      <4> QED
        BY <4>3
    <3>2. CASE ~Substitutes(work[t]) /\ ~Fail(t)
      <4>1. Becomes(t, Moved(work[t], "save", "master", "master"))
        BY <1>1, <3>2 DEF CopyMaster
      <4>2. Ready(work[t], "save", "master", "master")
        BY <2>1, <3>2 DEF Ready, Steps
      <4>3. work'[t].at = "save" /\ WorkIsSound' /\ \A u \in Threads \ {t} : work'[u] = work[u]
        BY <1>0, <4>1, <4>2, MovedIsSound
      <4> QED
        BY <4>3
    <3>3. CASE Fail(t)
      BY <1>0, <3>3, FailIsSound DEF Idle
    <3> QED
      BY <3>1, <3>2, <3>3
  <2> QED
    BY <1>1, <2>2, ElsewhereKeeps DEF CopyMaster
<1>2. CASE Compile(t)
  <2>1. Sound(work[t]) /\ Substitutes(work[t])
    BY <1>0, <1>2, AtIsSound DEF Compile, Steps, Sound, At
  <2>2. WorkIsSound' /\ work'[t].at /= "complete" /\ \A u \in Threads \ {t} : work'[u] = work[u]
    <3>1. CASE Becomes(t, Moved(work[t], "install", "master", "master"))
      <4>1. Ready(work[t], "install", "master", "master")
        BY <2>1 DEF Ready, Steps
      <4>2. work'[t].at = "install" /\ WorkIsSound' /\ \A u \in Threads \ {t} : work'[u] = work[u]
        BY <1>0, <3>1, <4>1, MovedIsSound
      <4> QED
        BY <4>2
    <3>2. CASE GiveUp(t, "master", "master")
      BY <1>0, <2>1, <3>2, GiveUpIsSound
    <3> QED
      BY <1>2, <3>1, <3>2 DEF Compile
  <2> QED
    BY <1>2, <2>2, ElsewhereKeeps DEF Compile
<1>3. CASE InstallTex(t)
  <2>1. Sound(work[t]) /\ Substitutes(work[t])
    BY <1>0, <1>3, AtIsSound DEF InstallTex, Steps, Sound, At
  <2>2. WorkIsSound' /\ work'[t].at /= "complete" /\ \A u \in Threads \ {t} : work'[u] = work[u]
    <3>1. CASE Becomes(t, Moved(work[t], "exchange", "tailored", "master"))
      <4>1. Ready(work[t], "exchange", "tailored", "master")
        BY <2>1 DEF Ready, Steps
      <4>2. work'[t].at = "exchange" /\ WorkIsSound' /\ \A u \in Threads \ {t} : work'[u] = work[u]
        BY <1>0, <3>1, <4>1, MovedIsSound
      <4> QED
        BY <4>2
    <3>2. CASE GiveUp(t, "broken", "master")
      BY <1>0, <2>1, <3>2, GiveUpIsSound
    <3> QED
      BY <1>3, <3>1, <3>2 DEF InstallTex
  <2> QED
    BY <1>3, <2>2, ElsewhereKeeps DEF InstallTex
<1>4. CASE InstallPdf(t)
  <2>1. Sound(work[t])
    BY <1>0, <1>4, AtIsSound DEF InstallPdf, Steps
  <2>2. WorkIsSound' /\ work'[t].at /= "complete" /\ \A u \in Threads \ {t} : work'[u] = work[u]
    <3>1. CASE Becomes(t, Moved(work[t], "save", "tailored", "tailored"))
      <4>1. Ready(work[t], "save", "tailored", "tailored")
        BY <2>1 DEF Ready, Steps
      <4>2. work'[t].at = "save" /\ WorkIsSound' /\ \A u \in Threads \ {t} : work'[u] = work[u]
        BY <1>0, <3>1, <4>1, MovedIsSound
      <4> QED
        BY <4>2
    <3>2. CASE GiveUp(t, "tailored", "broken")
      BY <1>0, <2>1, <3>2, GiveUpIsSound
    <3> QED
      BY <1>4, <3>1, <3>2 DEF InstallPdf
  <2> QED
    BY <1>4, <2>2, ElsewhereKeeps DEF InstallPdf
<1>5. CASE SaveDecision(t)
  <2>1. Sound(work[t]) /\ FilesAgree(work[t])
    BY <1>0, <1>5, AtIsSound DEF SaveDecision, Steps, Sound, At
  <2>2. Becomes(t, Moved(work[t], "complete", work[t].tex, work[t].pdf))
    BY <1>5 DEF SaveDecision
  <2>3. /\ WorkIsSound' /\ work'[t].decision = work[t].decision
        /\ \A u \in Threads \ {t} : work'[u] = work[u]
    <3>1. Ready(work[t], "complete", work[t].tex, work[t].pdf)
      BY <2>1 DEF Ready, Steps, FilesAgree
    <3> QED
      BY <1>0, <2>2, <3>1, MovedIsSound
  <2>4. CASE t = "queue2"
    <3>1. /\ ReviewsAreSound' /\ (Asked => Asked')
          /\ NeedsReview(work[t].decision) => Asked'
      BY <1>5, <2>4, SavedIsAsked DEF SaveDecision, IInv
    <3>2. NeedsReview(work'["queue2"].decision) => Asked'
      BY <2>3, <2>4, <3>1
    <3>3. UNCHANGED <<desk, resolution, delivered>>
      BY <1>5 DEF SaveDecision
    <3>4. DoubtIsAsked'
      BY <3>1, <3>2, <3>3 DEF IInv, DoubtIsAsked
    <3>5. DeliveredIsSound' /\ QueuedIsSound' /\ ClearMatchIsOfFamily'
      BY <3>3 DEF IInv, DeliveredIsSound, QueuedIsSound, ClearMatchIsOfFamily
    <3> QED
      BY <2>3, <3>1, <3>4, <3>5 DEF IInv
  <2>5. CASE t /= "queue2"
    <3>1. DoubtIsAsked'
      BY <1>5, <2>3, <2>5 DEF SaveDecision, IInv, DoubtIsAsked, At, Asked, Threads
    <3> QED
      BY <1>5, <2>3, <2>5, <3>1
      DEF SaveDecision, IInv, DeliveredIsSound, QueuedIsSound, ReviewsAreSound,
          ClearMatchIsOfFamily
  <2> QED
    BY <2>4, <2>5
<1>6. CASE Complete(t)
  <2>1. Sound(work[t]) /\ FilesAgree(work[t])
    BY <1>0, <1>6, AtIsSound DEF Complete, Steps, Sound, At
  <2>2. WorkIsSound' /\ work'[t] = Idle /\ \A u \in Threads \ {t} : work'[u] = work[u]
    BY <1>0, <1>6, FailIsSound DEF Complete, Fail
  <2>3. CASE UNCHANGED delivered
    BY <1>6, <2>2, <2>3, ElsewhereKeeps DEF Complete, Idle
  <2>4. CASE ~UNCHANGED delivered
    <3> DEFINE q == Moved(work[t], "ready", work[t].tex, work[t].pdf)
    <3>1. /\ q.decision = work[t].decision
          /\ ProjectsAreDistinct(q.decision.order) /\ FilesAgree(q)
      BY <2>1 DEF Moved, Sound, FilesAgree, Substitutes
    <3>2. delivered' = [delivered EXCEPT ![t] = q]
      BY <1>6, <2>4 DEF Complete
    <3> HIDE DEF q
    <3>3. delivered' = [u \in Threads |-> IF u = t THEN q ELSE delivered[u]]
      BY <3>2 DEF IInv, DeliveredIsSound
    <3>4. DeliveredIsSound'
      BY <3>1, <3>3 DEF IInv, DeliveredIsSound
    <3>5. DoubtIsAsked'
      BY <1>6, <2>2, <3>1, <3>3 DEF Complete, IInv, DoubtIsAsked, At, Asked, Idle, Threads
    <3> QED
      BY <1>6, <2>2, <3>4, <3>5
      DEF Complete, IInv, QueuedIsSound, ReviewsAreSound, ClearMatchIsOfFamily
  <2> QED
    BY <2>3, <2>4
<1> QED
  BY <1>1, <1>2, <1>3, <1>4, <1>5, <1>6 DEF Prepare

\* Saving a score opens a review or none.
LEMMA SaveKeeps ==
  ASSUME IInv, NEW new, Save(new), ClearMatchIsOfFamily'
  PROVE  IInv'
<1>1. ReviewsAreSound' /\ (Asked => Asked')
  <2>1. CASE UNCHANGED reviews
    BY <2>1 DEF IInv, ReviewsAreSound, Asked
  <2>2. CASE reviews' = Ensured("classification", new.classified)
    BY <2>2, EnsuredOpens DEF IInv, Types
  <2> QED
    BY <2>1, <2>2 DEF Save
<1> QED
  BY <1>1 DEF Save, IInv, WorkIsSound, DeliveredIsSound, QueuedIsSound, DoubtIsAsked, At

\* The steps of an analysis but the last leave everything but the desk alone.
LEMMA AnalyseKeeps ==
  ASSUME IInv, Analyse
  PROVE  IInv'
<1>1. ASSUME UNCHANGED <<reviews, resolution, work, delivered>>, ClearMatchIsOfFamily'
      PROVE  IInv'
  BY <1>1 DEF IInv, WorkIsSound, DeliveredIsSound, QueuedIsSound, ReviewsAreSound,
              DoubtIsAsked, At, Asked
<1>2. CASE \E page \in Pages : ExtractPage(page)
  BY <1>1, <1>2 DEF ExtractPage, ClearMatchIsOfFamily
<1>3. CASE \E signals \in Signals, answer \in Answers : ClassifyJob(signals, answer)
  BY <1>1, <1>3 DEF ClassifyJob, ClearMatchIsOfFamily
<1>4. CASE \E facts \in Facts, client \in Clients : ScoreFacts(facts, client)
  <2>1. PICK facts \in Facts, client \in Clients : ScoreFacts(facts, client)
    BY <1>4
  <2>2. /\ desk'.class = desk.class
        /\ desk'.outcome.selection = ScoreJob(facts, desk.class, client).selection
    BY <2>1 DEF ScoreFacts
  <2>3. desk.class.decision = "clear_match" =>
          Selection(desk.class).confidence = "high"
            /\ Selection(desk.class).family = desk.class.family
    BY DEF Selection
  <2>4. desk.class.decision = "clear_match" =>
          ScoreJob(facts, desk.class, client).selection.family = desk.class.family
    BY <2>3 DEF ScoreJob, HybridFamily
  <2> QED
    BY <1>1, <2>1, <2>2, <2>4 DEF ScoreFacts, ClearMatchIsOfFamily
<1>5. CASE \E mentions \in Mentions, enabled \in BOOLEAN, provider \in BOOLEAN,
              response \in Responses : CheckRequirements(mentions, enabled, provider, response)
  BY <1>1, <1>5 DEF CheckRequirements, ClearMatchIsOfFamily
<1>6. CASE SetAside \/ Report
  BY <1>1, <1>6 DEF SetAside, Report, Free, ClearMatchIsOfFamily
<1>7. CASE SaveScore
  <2>1. /\ desk' = Free
        /\ Save(ProfileOf(desk.class, desk.outcome))
    BY <1>7 DEF SaveScore
  <2> QED
    BY <2>1, SaveKeeps DEF Free, ClearMatchIsOfFamily
<1> QED
  BY <1>2, <1>3, <1>4, <1>5, <1>6, <1>7 DEF Analyse

\* Reviews: what is queued is valid, and none is unopened again.
LEMMA ReviewKeeps ==
  ASSUME IInv, Review
  PROVE  IInv'
<1>1. ASSUME UNCHANGED <<desk, work, delivered>>, QueuedIsSound', ReviewsAreSound',
             Asked => Asked'
      PROVE  IInv'
  BY <1>1 DEF IInv, WorkIsSound, DeliveredIsSound, DoubtIsAsked, At, ClearMatchIsOfFamily
<1>2. CASE Reanalyse
  <2>1. PICK choice \in Tailoring : DecisionIsSaved(choice[2])
    BY <1>2 DEF Reanalyse
  <2>2. ReviewsAreSound' /\ (Asked => Asked')
    BY <2>1, SavedIsAsked DEF IInv
  <2> QED
    BY <1>1, <1>2, <2>2 DEF Reanalyse, IInv, QueuedIsSound
<1>3. CASE \E type \in DOMAIN reviews : OpenReview(type)
  <2>1. PICK type \in Types : OpenReview(type)
    BY <1>3 DEF IInv, ReviewsAreSound
  <2>2. ReviewsAreSound' /\ (Asked => Asked')
    BY <2>1, EnsuredOpens DEF OpenReview, IInv
  <2> QED
    BY <1>1, <2>1, <2>2 DEF OpenReview, IInv, QueuedIsSound
<1>4. CASE \E type \in DOMAIN reviews, action \in Actions,
              named \in Families \cup {"none", "out_of_scope", "other"} :
              Resolve(type, action, named)
  <2>1. PICK type \in Types, action \in Actions,
             named \in Families \cup {"none", "out_of_scope", "other"} :
             Resolve(type, action, named)
    BY <1>4 DEF IInv, ReviewsAreSound
  <2>2. QueuedIsSound'
    <3>1. PICK original : resolution' \in Resolutions(action, original, named)
      BY <2>1 DEF Resolve
    <3> QED
      BY <3>1, ResolutionsAreValid DEF QueuedIsSound
  <2>3. reviews' = [x \in Types |-> IF x = type
                                    THEN [status |-> "resolved", family |-> reviews[x].family]
                                    ELSE reviews[x]]
    BY <2>1 DEF Resolve, IInv, ReviewsAreSound
  <2>4. ReviewsAreSound' /\ (Asked => Asked')
    BY <2>3 DEF IInv, ReviewsAreSound, Asked, Types
  <2> QED
    BY <1>1, <2>1, <2>2, <2>4 DEF Resolve
<1> QED
  BY <1>2, <1>3, <1>4 DEF Review

\* A packet starts with a valid decision, or the work is as it was.
LEMMA StartPacketKeeps ==
  ASSUME IInv, StartPacket
  PROVE  IInv'
<1>1. PICK choice \in Tailoring :
        Becomes("queue2", Packet(choice[2], ValidOrder(choice[2].family, choice[2].order,
                                              choice[2].removed, choice[2].inserted)))
  BY DEF StartPacket
<1> DEFINE d == choice[2]
           q == Packet(d, ValidOrder(d.family, d.order, d.removed, d.inserted))
<1>2. IsDecision(d) /\ ProjectsAreDistinct(d.order)
      /\ ValidOrder(d.family, d.order, d.removed, d.inserted)
  BY TailoringIsSound
<1>3. /\ q.at = "copy" /\ q.decision = d /\ IsPacket(q)
      /\ q.valid = ValidOrder(d.family, d.order, d.removed, d.inserted)
  BY DEF Packet, IsPacket
<1>4. Sound(q)
  <2> HIDE DEF q, d
  <2> QED
    BY <1>2, <1>3 DEF Sound, Steps
<1>5. WorkIsSound' /\ work'["queue2"] = q /\ \A u \in Threads \ {"queue2"} : work'[u] = work[u]
  <2>1. Becomes("queue2", q)
    BY <1>1
  <2> HIDE DEF q
  <2> QED
    BY <1>4, <2>1, BecomesSound DEF IInv, Threads
<1> QED
  BY <1>3, <1>5, ElsewhereKeeps DEF StartPacket, Threads

\* So does a regeneration.
LEMMA StartRegenerationKeeps ==
  ASSUME IInv, StartRegeneration
  PROVE  IInv'
<1> DEFINE order == resolution.order
           d == [status |-> IF Listed(order) = Base[resolution.family]
                            THEN "master_unchanged" ELSE "tailored",
                 review |-> FALSE, family |-> resolution.family,
                 removed  |-> PickFrom(Base[resolution.family] \ Listed(order)),
                 inserted |-> PickFrom(Listed(order) \ Base[resolution.family]),
                 order |-> order]
           q == Packet(d, ReviewedOrderIsValid(resolution.family, order))
<1>1. /\ resolution /= Nothing /\ resolution' = Nothing
      /\ UNCHANGED <<desk, reviews, delivered>>
      /\ UNCHANGED work \/ Becomes("regeneration", q)
  BY DEF StartRegeneration
<1>2. QueuedIsSound'
  BY <1>1 DEF QueuedIsSound
<1>3. ReviewedOrderIsValid(resolution.family, order) /\ ProjectsAreDistinct(order)
  BY <1>1 DEF IInv, QueuedIsSound, ReviewedOrderIsValid
<1>4. IsDecision(d) /\ d.order = order
  BY DEF IsDecision
<1>5. /\ q.at = "copy" /\ q.decision = d /\ IsPacket(q)
      /\ q.valid = ReviewedOrderIsValid(resolution.family, order)
  <2> HIDE DEF d
  <2> QED
    BY DEF Packet, IsPacket
<1> HIDE DEF d, q
<1>6. Sound(q)
  BY <1>3, <1>4, <1>5 DEF Sound, Steps
<1>7. CASE UNCHANGED work
  BY <1>1, <1>2, <1>7
  DEF IInv, WorkIsSound, DeliveredIsSound, ReviewsAreSound, DoubtIsAsked, At, Asked,
      ClearMatchIsOfFamily
<1>8. CASE Becomes("regeneration", q)
  <2>1. WorkIsSound' /\ \A u \in Threads \ {"regeneration"} : work'[u] = work[u]
    BY <1>6, <1>8, BecomesSound DEF IInv, Threads
  <2>2. work'["queue2"] = work["queue2"]
    BY <2>1 DEF Threads
  <2>3. DoubtIsAsked'
    BY <1>1, <2>2 DEF IInv, DoubtIsAsked, At, Asked
  <2> QED
    BY <1>1, <1>2, <2>1, <2>3
    DEF IInv, DeliveredIsSound, ReviewsAreSound, ClearMatchIsOfFamily
<1> QED
  BY <1>1, <1>7, <1>8

-----------------------------------------------------------------------------
\* The theorems.

\* The invariant is inductive.
LEMMA InitIsSound == Init => IInv
<1> SUFFICES ASSUME Init PROVE IInv
  OBVIOUS
<1>1. WorkIsSound /\ DeliveredIsSound
  BY DEF Init, WorkIsSound, DeliveredIsSound
<1>2. ReviewsAreSound
  BY DEF Init, ReviewsAreSound, Types, NoReview
<1>3. QueuedIsSound /\ ClearMatchIsOfFamily
  BY DEF Init, QueuedIsSound, ClearMatchIsOfFamily, Free
<1>4. DoubtIsAsked
  BY DEF Init, DoubtIsAsked, At, Idle, Threads
<1> QED
  BY <1>1, <1>2, <1>3, <1>4 DEF IInv

\* Every step keeps it.
LEMMA NextKeeps == IInv /\ [Next]_vars => IInv'
<1> SUFFICES ASSUME IInv, [Next]_vars PROVE IInv'
  OBVIOUS
<1>1. CASE UNCHANGED vars
  BY <1>1 DEF vars, IInv, WorkIsSound, DeliveredIsSound, QueuedIsSound, ReviewsAreSound,
              DoubtIsAsked, At, Asked, ClearMatchIsOfFamily
<1>2. CASE Rescore
  <2>1. PICK new \in Profiles : Save(new)
    BY <1>2 DEF Rescore
  <2> QED
    BY <1>2, <2>1, SaveKeeps DEF Rescore, IInv, ClearMatchIsOfFamily
<1> QED
  BY <1>1, <1>2, AnalyseKeeps, ReviewKeeps, StartPacketKeeps, StartRegenerationKeeps,
     PrepareKeeps DEF Next

\* So it always holds.
LEMMA AlwaysSound == Spec => []IInv
BY InitIsSound, NextKeeps, PTL DEF Spec

-----------------------------------------------------------------------------
\* The quality of an extraction, for pages whose lengths and noise are any naturals.

LEMMA PartsGrow ==
  ASSUME NEW n \in Nat, NEW j \in 0..100, NEW k \in 0..100, j <= k
  PROVE  (n * j) \div 100 \in Nat /\ (n * k) \div 100 \in Nat
         /\ (n * j) \div 100 <= (n * k) \div 100 /\ (n * k) \div 100 <= n
<1>1. n * j \in Nat /\ n * k \in Nat
  OBVIOUS
<1>2. k - j \in Nat /\ n * (k - j) \in Nat /\ n * k = n * j + n * (k - j)
  OBVIOUS
<1>3. 100 - k \in Nat /\ n * (100 - k) \in Nat /\ n * 100 = n * k + n * (100 - k)
  OBVIOUS
<1> DEFINE a == n * j
           b == n * k
<1>4. a \in Nat /\ b \in Nat /\ a <= b /\ b <= 100 * n
  BY <1>1, <1>2, <1>3
<1> HIDE DEF a, b
<1>5. a \div 100 \in Nat /\ b \div 100 \in Nat /\ a \div 100 <= b \div 100 /\ b \div 100 <= n
  BY <1>4
<1> QED BY <1>5 DEF a, b

\* More of the text kept is more text, and never more than the page shows.
LEMMA TextGrows ==
  ASSUME NEW page \in Pages, NEW other \in Pages, Richer(page, other)
  PROVE  /\ Clean(page) \in Nat /\ Clean(other) \in Nat /\ Clean(page) <= Clean(other)
         /\ Raw(page) \in Nat /\ Raw(other) = Raw(page) /\ Clean(other) <= Raw(page)
<1>1. JdText(other) = JdText(page)
  BY DEF Richer, JdText
<1>2. JdText(page).length \in Nat
  BY PagesAssumption DEF JdText
<1>3. page.kept \in 0..100 /\ other.kept \in 0..100 /\ page.kept <= other.kept
      /\ page.visible \in Nat /\ other.visible = page.visible
  BY PagesAssumption DEF Richer
<1> DEFINE n == JdText(page).length
<1>4. Clean(page) = (n * page.kept) \div 100 /\ Clean(other) = (n * other.kept) \div 100
  BY <1>1 DEF Clean
<1>5. Raw(page) = (IF page.visible >= n THEN page.visible ELSE n) /\ Raw(other) = Raw(page)
  BY <1>1, <1>3 DEF Raw
<1> HIDE DEF n
<1>6. n \in Nat
  BY <1>2 DEF n
<1>7. /\ Clean(page) \in Nat /\ Clean(other) \in Nat /\ Clean(page) <= Clean(other)
      /\ Clean(other) <= n
  <2> DEFINE j == page.kept
             k == other.kept
  <2>1. j \in 0..100 /\ k \in 0..100 /\ j <= k
    BY <1>3
  <2>2. Clean(page) = (n * j) \div 100 /\ Clean(other) = (n * k) \div 100
    BY <1>4
  <2> HIDE DEF j, k
  <2>3. (n * j) \div 100 \in Nat /\ (n * k) \div 100 \in Nat
        /\ (n * j) \div 100 <= (n * k) \div 100 /\ (n * k) \div 100 <= n
    BY ONLY <1>6, <2>1, PartsGrow
  <2> QED BY <2>2, <2>3
<1> QED BY <1>3, <1>5, <1>6, <1>7

\* The points of a page, term by term.
LengthPoints(n) == IF n >= 1200 THEN 35 ELSE IF n >= 500 THEN 25 ELSE IF n >= 220 THEN 12 ELSE 0
NoisePoints(n)  == IF n <= 10 THEN 10 ELSE IF n > 30 THEN -10 ELSE 0
PagePoints(page) ==
  LengthPoints(Clean(page)) + (IF page.duties THEN 20 ELSE 0) + (IF page.skills THEN 20 ELSE 0)
    + (IF HasClues(page) THEN 15 ELSE 0) + NoisePoints(page.noise)

LEMMA ScoreIs ==
  ASSUME NEW page \in Pages, Clean(page) \in Nat
  PROVE  /\ QualityScore(page) = IF PagePoints(page) < 0 THEN 0 ELSE PagePoints(page)
         /\ PagePoints(page) \in -10..100 /\ QualityScore(page) \in 0..100
<1> DEFINE n == Clean(page)
<1>1. (CASE n >= 1200 -> 35 [] n \in 500..1199 -> 25 [] n \in 220..499 -> 12 [] OTHER -> 0)
        = LengthPoints(n)
  BY DEF LengthPoints
<1>2. page.noise \in Nat
  BY PagesAssumption
<1>3. LengthPoints(n) \in 0..35 /\ NoisePoints(page.noise) \in -10..10
  BY <1>2 DEF LengthPoints, NoisePoints
<1> HIDE DEF n
<1>4. PagePoints(page) \in -10..100
  BY <1>3 DEF PagePoints, n
<1>5. QualityScore(page) = IF PagePoints(page) < 0 THEN 0 ELSE PagePoints(page)
  BY <1>1 DEF QualityScore, PagePoints, NoisePoints, n
<1> QED BY <1>4, <1>5

LEMMA ScoreGrows ==
  ASSUME NEW page \in Pages, NEW other \in Pages, Richer(page, other)
  PROVE  QualityScore(page) <= QualityScore(other)
<1>1. Clean(page) \in Nat /\ Clean(other) \in Nat /\ Clean(page) <= Clean(other)
  BY TextGrows
<1>2. page.noise \in Nat /\ other.noise \in Nat /\ other.noise <= page.noise
  BY PagesAssumption DEF Richer
<1>3. /\ LengthPoints(Clean(page)) \in Int /\ LengthPoints(Clean(other)) \in Int
      /\ LengthPoints(Clean(page)) <= LengthPoints(Clean(other))
  BY <1>1 DEF LengthPoints
<1>4. /\ NoisePoints(page.noise) \in Int /\ NoisePoints(other.noise) \in Int
      /\ NoisePoints(page.noise) <= NoisePoints(other.noise)
  BY <1>2 DEF NoisePoints
<1>5. /\ page.duties => other.duties
      /\ page.skills => other.skills
      /\ HasClues(page) => HasClues(other)
  BY DEF Richer
<1>6. PagePoints(page) <= PagePoints(other)
  BY <1>3, <1>4, <1>5 DEF PagePoints
<1> QED BY <1>1, <1>6, ScoreIs

\* The band as a grade, with the conditions of the code one after the other.
LEMMA GradeIs ==
  ASSUME NEW page \in Pages, Clean(page) \in Nat, Raw(page) \in Nat, Clean(page) <= Raw(page)
  PROVE  Grade[Band(page)] =
           IF Clean(page) < 80 \/ (Clean(page) < 220 /\ ~(page.duties \/ page.skills)) THEN 0
           ELSE IF QualityScore(page) >= 75 /\ page.duties /\ page.skills THEN 3
           ELSE IF QualityScore(page) >= 55 /\ (page.duties \/ page.skills) THEN 2 ELSE 1
<1> DEFINE n == Clean(page)
           q == QualityScore(page)
<1>1. n \in Nat /\ q \in 0..100 /\ (Raw(page) < 80 => n < 80)
  BY ScoreIs
<1>2. Band(page) =
        IF n < 80 \/ (n < 220 /\ ~(page.duties \/ page.skills)) THEN "failed"
        ELSE IF q >= 75 /\ page.duties /\ page.skills THEN "good"
        ELSE IF q >= 55 /\ (page.duties \/ page.skills) THEN "usable_with_warnings"
        ELSE "manual_review"
  BY <1>1 DEF Band
<1> HIDE DEF n, q
<1> QED BY <1>2 DEF Grade, n, q

LEMMA RicherIsBetter ==
  ASSUME NEW page \in Pages, NEW other \in Pages, Richer(page, other)
  PROVE  Grade[Band(page)] <= Grade[Band(other)]
<1>1. /\ Clean(page) \in Nat /\ Clean(other) \in Nat /\ Clean(page) <= Clean(other)
      /\ Raw(page) \in Nat /\ Raw(other) = Raw(page) /\ Clean(other) <= Raw(page)
  BY TextGrows
<1>2. /\ QualityScore(page) \in 0..100 /\ QualityScore(other) \in 0..100
      /\ QualityScore(page) <= QualityScore(other)
  BY <1>1, ScoreIs, ScoreGrows
<1>3. (page.duties => other.duties) /\ (page.skills => other.skills)
  BY DEF Richer
<1> QED BY <1>1, <1>2, <1>3, GradeIs

\* What the first analysis holds was computed from inputs of the model.
Read   == desk.at = "extracted" => desk.page \in Pages /\ desk.result.band = Band(desk.page)
Rated  == desk.at = "scored" =>
            /\ desk.facts \in Facts
            /\ \E client \in Clients : desk.outcome = ScoreJob(desk.facts, desk.class, client)
Fusing == desk.at = "checked" =>
            \E mentions \in Mentions, enabled \in BOOLEAN, provider \in BOOLEAN,
               response \in Responses :
              desk.analysis = Extract(mentions, enabled, provider, response)

DeskIsRead == Read /\ Rated /\ Fusing

LEMMA DeskIsAlwaysRead == Spec => []DeskIsRead
<1>1. Init => DeskIsRead
  BY DEF Init, Free, DeskIsRead, Read, Rated, Fusing
<1>2. ASSUME DeskIsRead, [Next]_vars PROVE DeskIsRead'
  <2>1. CASE UNCHANGED desk
    BY <1>2, <2>1 DEF DeskIsRead, Read, Rated, Fusing
  <2>2. CASE Analyse
    <3>1. CASE \E page \in Pages : ExtractPage(page)
      BY <3>1 DEF ExtractPage, DeskIsRead, Read, Rated, Fusing, RunIntake
    <3>2. CASE \E signals \in Signals, answer \in Answers : ClassifyJob(signals, answer)
      BY <3>2 DEF ClassifyJob, DeskIsRead, Read, Rated, Fusing
    <3>3. CASE \E facts \in Facts, client \in Clients : ScoreFacts(facts, client)
      BY <3>3 DEF ScoreFacts, DeskIsRead, Read, Rated, Fusing
    <3>4. CASE \E mentions \in Mentions, enabled \in BOOLEAN, provider \in BOOLEAN,
                  response \in Responses :
                 CheckRequirements(mentions, enabled, provider, response)
      BY <3>4 DEF CheckRequirements, DeskIsRead, Read, Rated, Fusing
    <3>5. CASE SetAside \/ SaveScore \/ Report
      BY <3>5 DEF SetAside, SaveScore, Report, Free, DeskIsRead, Read, Rated, Fusing
    <3> QED BY <2>2, <3>1, <3>2, <3>3, <3>4, <3>5 DEF Analyse
  <2>3. CASE Review
    BY <2>1, <2>3 DEF Review, Reanalyse, OpenReview, Resolve
  <2>4. CASE Rescore \/ StartPacket \/ StartRegeneration
    BY <2>1, <2>4 DEF Rescore, StartPacket, StartRegeneration
  <2>5. CASE \E t \in Threads : Prepare(t)
    BY <2>1, <2>5 DEF Prepare, CopyMaster, Compile, InstallTex, InstallPdf, SaveDecision,
                      Complete
  <2> QED BY <1>2, <2>1, <2>2, <2>3, <2>4, <2>5 DEF Next, vars
<1> QED BY <1>1, <1>2, PTL DEF Spec

\* best_substitution, resolve_review and _validate_blocks together: no packet is
\* ever delivered that shows a project twice.
THEOREM DeliveredProjectsAreDistinct == Spec => []NoProjectTwice
<1>1. IInv => NoProjectTwice
  BY DEF IInv, DeliveredIsSound, NoProjectTwice
<1> QED
  BY <1>1, AlwaysSound, PTL

\* What Queue 2 decides and what a user may queue passes every validation that
\* comes later, so that no attempt fails for what was decided.
THEOREM DecidedIsAccepted == Spec => []AcceptedIsValid
<1>1. IInv => AcceptedIsValid
  BY DEF IInv, WorkIsSound, Sound, At, Idle, AcceptedIsValid
<1> QED
  BY <1>1, AlwaysSound, PTL

\* A packet that says it is tailored has both files of the candidate, whatever
\* copies failed in whatever order in the two workers.
THEOREM DeliveredFilesAgree == Spec => []TailoredFilesAgree
<1>1. IInv => TailoredFilesAgree
  BY DEF IInv, DeliveredIsSound, FilesAgree, TailoredFilesAgree
<1> QED
  BY <1>1, AlwaysSound, PTL

\* A packet of Queue 2 that rests on a doubtful decision was put to a person,
\* however many reviews were opened and resolved meanwhile.
THEOREM DoubtfulPacketsAreReviewed == Spec => []DoubtIsReviewed
<1>1. IInv => DoubtIsReviewed
  BY DEF IInv, DoubtIsAsked, NeedsReview, Asked, DoubtIsReviewed
<1> QED
  BY <1>1, AlwaysSound, PTL

\* No answer of the scoring model, valid or not, takes a job from the family of a
\* clear match.
THEOREM ClearMatchesStand == Spec => []ClearMatchIsOfFamily
<1>1. IInv => ClearMatchIsOfFamily
  BY DEF IInv
<1> QED
  BY <1>1, AlwaysSound, PTL

\* The same page with more of what is looked for, more of its text kept and less noise
\* never gets a worse band, whichever of the thresholds lie between the two.
THEOREM RicherPagesRankHigher == Spec => []QualityIsMonotone
<1>1. DeskIsRead => QualityIsMonotone
  BY RicherIsBetter DEF DeskIsRead, Read, QualityIsMonotone
<1> QED
  BY <1>1, DeskIsAlwaysRead, PTL

\* Whatever the scoring model answers, and however good the blocks of the bank are, a
\* job with a hard blocker never scores what is promoted without being asked for.
THEOREM BlockedJobsStayBelow == Spec => []BlockedIsNotPromoted
<1>1. DeskIsRead => BlockedIsNotPromoted
  <2> SUFFICES ASSUME Rated, desk.at = "scored", desk.facts.blocked
               PROVE  /\ desk.outcome.score < 82
                      /\ desk.outcome.recommendation \notin {"Apply", "Strong apply"}
    BY DEF DeskIsRead, BlockedIsNotPromoted
  <2>1. PICK client \in Clients : desk.outcome = ScoreJob(desk.facts, desk.class, client)
    BY DEF Rated
  <2>2. IsJob(desk.facts) /\ IsAnswer(client.answer)
    BY InputsAssumption DEF Rated
  <2>3. /\ desk.outcome.score \in 0..100
        /\ desk.outcome.score <= 71
        /\ desk.outcome.recommendation \notin {"Apply", "Strong apply"}
    <3>1. \A job, class : IsJob(job) =>
            LET outcome == ScoreJob(job, class, client) IN
            /\ outcome.score \in 0..100
            /\ job.blocked => /\ outcome.score <= 71
                              /\ outcome.recommendation \notin {"Apply", "Strong apply"}
      BY <2>2, BlockersHold
    <3> QED BY <2>1, <2>2, <3>1
  <2>4. \A n \in 0..100 : n <= 71 => n < 82
    OBVIOUS
  <2> QED BY <2>3, <2>4
<1> QED
  BY <1>1, DeskIsAlwaysRead, PTL

\* Whatever is found in a posting and whatever a model says it asks for, the fused
\* requirements keep those of the rules and add none without its own grounds.
THEOREM FusedRulesStand == Spec => []FusionKeepsRules
<1>1. DeskIsRead => FusionKeepsRules
  <2> SUFFICES ASSUME Fusing, desk.at = "checked" PROVE FusionKeepsRules
    BY DEF DeskIsRead, FusionKeepsRules
  <2>1. PICK mentions \in Mentions, enabled \in BOOLEAN, provider \in BOOLEAN,
             response \in Responses :
          desk.analysis = Extract(mentions, enabled, provider, response)
    BY DEF Fusing
  <2>2. mentions \in Seq(MentionShape) /\ response.items \in Seq(ItemShape)
    BY InputsAssumption
  <2> QED BY <2>1, <2>2, RulesStand DEF FusionKeepsRules
<1> QED
  BY <1>1, DeskIsAlwaysRead, PTL
=============================================================================
