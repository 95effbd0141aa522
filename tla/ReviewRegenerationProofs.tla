---------------------- MODULE ReviewRegenerationProofs ----------------------
(***************************************************************************)
(* Theorems about ReviewRegeneration, for any workers, clients and bounds, *)
(* with leases that run out at any time: its types, the agreement of the   *)
(* two statuses of a resolution, one reviewed packet of a resolution, the  *)
(* link of a complete one, and the preservation of ready packets; and, of  *)
(* one worker, that the queue implements RegenerationLifecycle.            *)
(***************************************************************************)
EXTENDS ReviewRegeneration, FiniteSetTheorems, WellFoundedInduction, TLAPS

PacketRows     == [status : PacketStates, key : Nat]
ReviewRows     == [type : Types, status : ReviewStates, packet : Nat]
ResolutionRows == [review : Nat, status : JobStates, packet : Nat]
JobRows        == [status : JobStates, attempts : Nat,
                   lease : {"none", "live", "expired"}, source : Nat]
WorkerStates   == [at : Steps, job : Nat, packet : Nat, retry : BOOLEAN,
                   requeue : SUBSET Nat, giveUp : SUBSET Nat]
ClientStates   == [opens : Types \cup {"none"}, packet : Nat]

RowsAreTyped ==
  /\ exists \in BOOLEAN
  /\ packets \in Seq(PacketRows)
  /\ reviews \in Seq(ReviewRows)
  /\ resolutions \in Seq(ResolutionRows)
  /\ jobs \in Seq(JobRows)
  /\ tailored \in 0..Len(packets)
  /\ Len(jobs) = Len(resolutions)
  /\ ~exists => packets = <<>> /\ reviews = <<>> /\ resolutions = <<>>

\* The foreign keys, which TypeOK states with the types.
KeysAreBacked ==
  /\ \A p \in DOMAIN packets : packets[p].key <= Len(resolutions)
  /\ \A i \in DOMAIN reviews : reviews[i].packet <= Len(packets)
  /\ \A i \in DOMAIN resolutions : /\ resolutions[i].review \in DOMAIN reviews
                                   /\ resolutions[i].packet <= Len(packets)
  /\ \A i \in DOMAIN jobs : jobs[i].source <= Len(packets)

\* Two ready packets of a resolution are one: OneReviewedPacket without counting.
OneReady == \A i \in DOMAIN resolutions : \A p, q \in ReadyWith(i) : p = q

Tables == RowsAreTyped /\ KeysAreBacked /\ StatusesAgree /\ OneReady /\ CompleteIsLinked

\* What the tables owe a worker in state s: the rows it has read are still there,
\* the packet it builds carries its key, and the packet it links is ready.
Fits(s) ==
  /\ s \in WorkerStates
  /\ exists =>
       /\ s.job <= Len(jobs) /\ s.packet <= Len(packets)
       /\ s.requeue \cup s.giveUp \subseteq DOMAIN jobs
       /\ s.at \notin {"idle", "recover", "select"} => s.job \in DOMAIN jobs
       /\ s.at \in {"render", "deliver"} =>
            s.packet \in DOMAIN packets /\ packets[s.packet].key = s.job
       /\ s.at = "finish" => s.packet \in ReadyWith(s.job)

\* And a client that found no pending review.
Asks(s) ==
  /\ s \in ClientStates
  /\ s = Silent \/ s.opens \in Types
  /\ exists => s.packet <= Len(packets)

\* The inductive invariant.
IInv ==
  /\ Tables
  /\ worker \in [Workers -> WorkerStates] /\ \A w \in Workers : Fits(worker[w])
  /\ client \in [Clients -> ClientStates] /\ \A c \in Clients : Asks(client[c])

\* What every step keeps while the job is there: no row goes away, a packet its
\* key, and a ready packet all it has.
Keeps ==
  exists' =>
    /\ exists /\ Len(jobs) <= Len(jobs') /\ Len(packets) <= Len(packets')
    /\ \A p \in DOMAIN packets : packets'[p].key = packets[p].key
    /\ \A p \in Ready : packets'[p] = packets[p]

-----------------------------------------------------------------------------
\* Sequences of rows.

LEMMA RowIsSet ==
  ASSUME NEW S, NEW q \in Seq(S), NEW i, NEW e \in S
  PROVE  LET new == [q EXCEPT ![i] = e] IN
         /\ new \in Seq(S) /\ Len(new) = Len(q) /\ DOMAIN new = DOMAIN q
         /\ i \in DOMAIN q => new[i] = e
         /\ \A k \in DOMAIN q : k /= i => new[k] = q[k]
<1> DEFINE new == [q EXCEPT ![i] = e]
<1>1. DOMAIN q = 1..Len(q) /\ Len(q) \in Nat /\ \A k \in DOMAIN q : q[k] \in S
  OBVIOUS
<1>a. new \in [1..Len(q) -> S]
  BY <1>1
<1>2. new \in Seq(S) /\ Len(new) = Len(q)
  BY <1>1, <1>a
<1> QED BY <1>1, <1>2

LEMMA RowIsAdded ==
  ASSUME NEW S, NEW q \in Seq(S), NEW e \in S
  PROVE  LET new == Append(q, e) IN
         /\ new \in Seq(S) /\ Len(new) = Len(q) + 1 /\ Len(q) \in Nat
         /\ DOMAIN new = DOMAIN q \cup {Len(q) + 1} /\ DOMAIN q = 1..Len(q)
         /\ new[Len(q) + 1] = e
         /\ \A k \in DOMAIN q : new[k] = q[k]
OBVIOUS

LEMMA RowsAreMapped ==
  ASSUME NEW S, NEW q \in Seq(S), NEW r, r = [i \in DOMAIN q |-> r[i]],
         \A i \in DOMAIN q : r[i] \in S
  PROVE  r \in Seq(S) /\ Len(r) = Len(q) /\ DOMAIN r = DOMAIN q
<1>1. r \in [1..Len(q) -> S] /\ Len(q) \in Nat
  OBVIOUS
<1> QED BY <1>1

LEMMA RowsAreNarrowed ==
  ASSUME NEW S, NEW R, NEW q \in Seq(S), \A i \in DOMAIN q : q[i] \in R
  PROVE  q \in Seq(R)
<1>1. q \in [1..Len(q) -> R] /\ Len(q) \in Nat
  OBVIOUS
<1> QED BY <1>1

\* get_latest_ready_packet_for_job finds a ready packet when there is one.
LEMMA LatestIsReady ==
  ASSUME RowsAreTyped
  PROVE  LatestReady \in Nat /\ LatestReady <= Len(packets)
<1>1. Len(packets) \in Nat /\ Ready \subseteq 1..Len(packets)
  BY DEF RowsAreTyped, Ready
<1>2. ASSUME Ready /= {} PROVE \E p \in Ready : \A q \in Ready : q <= p
  <2> DEFINE Ages == {Len(packets) - p : p \in Ready}
  <2>1. Ages \subseteq Nat /\ Ages /= {}
    <3>1. \A p \in Ready : Len(packets) - p \in Nat
      BY <1>1
    <3>2. Ages \subseteq Nat
      BY <3>1
    <3>3. PICK p \in Ready : TRUE
      BY <1>2
    <3>4. Len(packets) - p \in Ages
      OBVIOUS
    <3> QED BY <3>2, <3>4
  <2> HIDE DEF Ages
  <2>2. PICK a \in Ages : \A b \in Ages : a <= b
    <3>1. PICK a \in Ages : \A b \in Ages : <<b, a>> \notin OpToRel(<, Nat)
      BY <2>1, NatLessThanWellFounded, WFMin
    <3>2. \A b \in Ages : ~(b < a)
      BY <2>1, <3>1 DEF OpToRel
    <3> QED BY <2>1, <3>2
  <2>3. PICK p \in Ready : a = Len(packets) - p
    BY <2>2 DEF Ages
  <2>4. \A q \in Ready : Len(packets) - p <= Len(packets) - q
    BY <2>2, <2>3 DEF Ages
  <2>5. \A q \in Ready : q <= p
    BY <1>1, <2>4
  <2> QED BY <2>5
<1>3. Ready /= {} => LatestReady \in Ready
  BY <1>2 DEF LatestReady
<1>4. CASE Ready = {}
  <2>1. LatestReady = 0
    BY <1>4, Zenon DEF LatestReady
  <2> QED BY <1>1, <2>1
<1>5. CASE Ready /= {}
  <2>1. LatestReady \in Ready
    BY <1>3, <1>5
  <2> QED BY <1>1, <2>1
<1> QED BY <1>4, <1>5

-----------------------------------------------------------------------------
\* Steps in general.

LEMMA FitsIsKept ==
  ASSUME Tables, Tables', Keeps, NEW s, Fits(s)
  PROVE  Fits(s)'
<1>1. s \in WorkerStates
  BY DEF Fits
<1>2. ASSUME exists'
      PROVE  /\ exists /\ Len(jobs) <= Len(jobs') /\ Len(packets) <= Len(packets')
             /\ DOMAIN jobs \subseteq DOMAIN jobs' /\ DOMAIN packets \subseteq DOMAIN packets'
             /\ Len(jobs) \in Nat /\ Len(jobs') \in Nat
             /\ Len(packets) \in Nat /\ Len(packets') \in Nat
  BY <1>2 DEF Keeps, Tables, RowsAreTyped
<1>3. ASSUME exists', NEW p, NEW i, p \in ReadyWith(i)
      PROVE  (p \in ReadyWith(i))'
  BY <1>2, <1>3 DEF Keeps, ReadyWith, Ready
<1> QED BY <1>1, <1>2, <1>3 DEF Fits, Keeps, WorkerStates

LEMMA AsksIsKept ==
  ASSUME Tables, Tables', Keeps, NEW s, Asks(s)
  PROVE  Asks(s)'
BY DEF Asks, Keeps, Tables, RowsAreTyped, ClientStates

\* A step that changes the tables, or not, and moves one worker.
LEMMA WorkerMoves ==
  ASSUME IInv, Tables', Keeps, UNCHANGED client, NEW w \in Workers, NEW s, Fits(s)',
         Become(w, s)
  PROVE  IInv'
<1>1. s \in WorkerStates
  BY DEF Fits, WorkerStates
<1>2. worker' \in [Workers -> WorkerStates] /\ worker'[w] = s
  BY <1>1 DEF Become, IInv
<1>3. ASSUME NEW u \in Workers PROVE Fits(worker[u])'
  <2>1. CASE u = w
    BY <1>2, <2>1 DEF Fits, ReadyWith, Ready
  <2>2. CASE u /= w
    <3>1. worker'[u] = worker[u]
      BY <2>2 DEF Become, IInv
    <3>2. \A r : Fits(r) => Fits(r)'
      BY FitsIsKept DEF IInv
    <3> QED BY <3>1, <3>2 DEF IInv, Fits, ReadyWith, Ready
  <2> QED BY <2>1, <2>2
<1>4. \A c \in Clients : Asks(client[c])'
  <2>1. \A r : Asks(r) => Asks(r)'
    BY AsksIsKept DEF IInv
  <2> QED BY <2>1 DEF IInv, Asks
<1> QED BY <1>2, <1>3, <1>4 DEF IInv

\* A step that moves no worker.
LEMMA WorkersStay ==
  ASSUME IInv, Tables', Keeps, UNCHANGED worker,
         client' \in [Clients -> ClientStates],
         \A c \in Clients : client'[c] = client[c] \/ client'[c] = Silent
                              \/ Asks(client'[c])
  PROVE  IInv'
<1>1. \A w \in Workers : Fits(worker[w])'
  <2>1. \A r : Fits(r) => Fits(r)'
    BY FitsIsKept DEF IInv
  <2> QED BY <2>1 DEF IInv, Fits, ReadyWith, Ready
<1>2. \A c \in Clients : Asks(client[c])'
  <2>1. \A r : Asks(r) => Asks(r)'
    BY AsksIsKept DEF IInv
  <2>2. Asks(Silent)
    BY DEF Asks, Silent, ClientStates, IInv, Tables, RowsAreTyped
  <2> QED BY <2>1, <2>2 DEF IInv, Asks
<1> QED BY <1>1, <1>2 DEF IInv

LEMMA NothingChanges ==
  ASSUME Tables, UNCHANGED <<exists, queue2Vars, reviewVars>>
  PROVE  Tables' /\ Keeps /\ (\A s : Fits(s) => Fits(s)')
<1>1. Tables'
  BY DEF Tables, RowsAreTyped, KeysAreBacked, StatusesAgree, OneReady, CompleteIsLinked,
         ReadyWith, Ready, queue2Vars, reviewVars
<1>2. Keeps
  BY DEF Keeps, queue2Vars, reviewVars, Tables, RowsAreTyped
<1> QED BY <1>1, <1>2, FitsIsKept

-----------------------------------------------------------------------------
\* What a step does to the tables.

\* Packets are added or get another status, nothing else.
LEMMA PacketsChange ==
  ASSUME Tables, exists, UNCHANGED <<exists, reviewVars>>,
         packets' \in Seq(PacketRows), Len(packets) <= Len(packets'),
         tailored' \in 0..Len(packets'),
         \A p \in DOMAIN packets : packets'[p].key = packets[p].key,
         \A p \in Ready : packets'[p] = packets[p],
         \A p \in DOMAIN packets' : packets'[p].key <= Len(resolutions),
         OneReady'
  PROVE  Tables' /\ Keeps
<1>1. /\ Len(packets) \in Nat /\ Len(packets') \in Nat /\ Len(resolutions) \in Nat
      /\ DOMAIN packets \subseteq DOMAIN packets'
      /\ DOMAIN reviews = 1..Len(reviews) /\ Len(reviews) \in Nat
  BY DEF Tables, RowsAreTyped
<1>2. RowsAreTyped'
  BY DEF Tables, RowsAreTyped, reviewVars
<1>3. KeysAreBacked'
  <2>1. /\ \A i \in DOMAIN reviews : reviews[i].packet \in Nat
        /\ \A i \in DOMAIN resolutions : resolutions[i].packet \in Nat
        /\ \A i \in DOMAIN jobs : jobs[i].source \in Nat
    <3>1. /\ \A i \in DOMAIN reviews : reviews[i] \in ReviewRows
          /\ \A i \in DOMAIN resolutions : resolutions[i] \in ResolutionRows
          /\ \A i \in DOMAIN jobs : jobs[i] \in JobRows
      BY DEF Tables, RowsAreTyped
    <3> QED BY <3>1 DEF ReviewRows, ResolutionRows, JobRows
  <2> QED BY <1>1, <2>1 DEF Tables, KeysAreBacked, reviewVars
<1>4. CompleteIsLinked'
  BY <1>1 DEF Tables, CompleteIsLinked, ReadyWith, Ready, reviewVars
<1>5. StatusesAgree'
  BY DEF Tables, StatusesAgree, reviewVars
<1>6. Keeps
  BY <1>1 DEF Keeps, reviewVars, Tables, RowsAreTyped
<1> QED BY <1>2, <1>3, <1>4, <1>5, <1>6 DEF Tables

\* Reviews are added or get another status, nothing else.
LEMMA ReviewsChange ==
  ASSUME Tables, exists, UNCHANGED <<exists, packets, resolutions, jobs>>,
         tailored' \in 0..Len(packets),
         reviews' \in Seq(ReviewRows), Len(reviews) <= Len(reviews'),
         \A i \in DOMAIN reviews' : reviews'[i].packet <= Len(packets)
  PROVE  Tables' /\ Keeps
<1>1. /\ DOMAIN reviews \subseteq DOMAIN reviews'
      /\ Len(jobs) \in Nat /\ Len(packets) \in Nat
  BY DEF Tables, RowsAreTyped
<1>2. RowsAreTyped'
  BY DEF Tables, RowsAreTyped
<1>3. KeysAreBacked'
  BY <1>1 DEF Tables, KeysAreBacked
<1>4. StatusesAgree' /\ OneReady' /\ CompleteIsLinked'
  BY DEF Tables, StatusesAgree, OneReady, CompleteIsLinked, ReadyWith, Ready
<1>5. Keeps
  BY <1>1 DEF Keeps
<1> QED BY <1>2, <1>3, <1>4, <1>5 DEF Tables

\* Regeneration jobs, their resolutions and reviews get another status.
LEMMA StatusesChange ==
  ASSUME Tables, exists, UNCHANGED <<exists, queue2Vars>>,
         jobs' \in Seq(JobRows), Len(jobs') = Len(jobs),
         \A i \in DOMAIN jobs : jobs'[i].source = jobs[i].source,
         resolutions' \in Seq(ResolutionRows), Len(resolutions') = Len(resolutions),
         \A i \in DOMAIN resolutions :
           /\ resolutions'[i].review = resolutions[i].review
           /\ resolutions'[i].packet <= Len(packets)
           /\ resolutions'[i].status = "complete" =>
                resolutions'[i].packet \in ReadyWith(i),
         StatusesAgree',
         reviews' \in Seq(ReviewRows), Len(reviews') = Len(reviews),
         \A i \in DOMAIN reviews : reviews'[i].packet = reviews[i].packet
  PROVE  Tables' /\ Keeps
<1>1. /\ DOMAIN jobs' = DOMAIN jobs /\ DOMAIN resolutions' = DOMAIN resolutions
      /\ DOMAIN reviews' = DOMAIN reviews
      /\ Len(jobs) \in Nat /\ Len(packets) \in Nat
  BY DEF Tables, RowsAreTyped
<1>2. RowsAreTyped'
  BY DEF Tables, RowsAreTyped, queue2Vars
<1>3. KeysAreBacked'
  BY <1>1 DEF Tables, KeysAreBacked, queue2Vars
<1>4. OneReady' /\ CompleteIsLinked'
  BY <1>1 DEF Tables, OneReady, CompleteIsLinked, ReadyWith, Ready, queue2Vars
<1>5. Keeps
  BY <1>1 DEF Keeps, queue2Vars
<1> QED BY <1>2, <1>3, <1>4, <1>5 DEF Tables

\* A status of one review, which every other column and review survives.
LEMMA ReviewIsSet ==
  ASSUME Tables, NEW i \in DOMAIN reviews, NEW status \in ReviewStates,
         reviews' = [reviews EXCEPT ![i].status = status]
  PROVE  /\ reviews' \in Seq(ReviewRows) /\ Len(reviews') = Len(reviews)
         /\ \A k \in DOMAIN reviews : reviews'[k].packet = reviews[k].packet
<1>1. reviews \in Seq(ReviewRows) /\ reviews[i] \in ReviewRows
  BY DEF Tables, RowsAreTyped
<1> DEFINE row == [reviews[i] EXCEPT !.status = status]
<1>2. row \in ReviewRows /\ row.packet = reviews[i].packet
  BY <1>1 DEF ReviewRows
<1>3. reviews' = [reviews EXCEPT ![i] = row]
  OBVIOUS
<1> HIDE DEF row
<1> QED BY <1>1, <1>2, <1>3, RowIsSet

\* A review that is opened names a packet, or none.
LEMMA ReviewIsOpened ==
  ASSUME Tables, exists, NEW type \in Types, NEW packet \in 0..Len(packets),
         OpenReview(type, packet), tailored' \in 0..Len(packets),
         UNCHANGED <<exists, packets, resolutions, jobs>>
  PROVE  Tables' /\ Keeps
<1> DEFINE row == [type |-> type, status |-> "pending", packet |-> packet]
<1>1. reviews \in Seq(ReviewRows) /\ Len(packets) \in Nat
  BY DEF Tables, RowsAreTyped
<1>2. row \in ReviewRows /\ row.packet = packet /\ reviews' = Append(reviews, row)
  BY <1>1 DEF ReviewRows, ReviewStates, OpenReview
<1> HIDE DEF row
<1>3. /\ reviews' \in Seq(ReviewRows) /\ Len(reviews') = Len(reviews) + 1
      /\ Len(reviews) \in Nat /\ DOMAIN reviews' = DOMAIN reviews \cup {Len(reviews) + 1}
      /\ reviews'[Len(reviews) + 1] = row
      /\ \A k \in DOMAIN reviews : reviews'[k] = reviews[k]
  BY <1>1, <1>2, RowIsAdded
<1>4. \A i \in DOMAIN reviews' : reviews'[i].packet <= Len(packets)
  BY <1>1, <1>2, <1>3 DEF Tables, KeysAreBacked
<1> QED BY <1>3, <1>4, ReviewsChange

-----------------------------------------------------------------------------
\* The steps of a worker that read.

LEMMA RestIsTyped ==
  /\ Rest \in WorkerStates /\ Rest.at = "idle" /\ Rest.job = 0 /\ Rest.packet = 0
  /\ Rest.requeue = {} /\ Rest.giveUp = {}
BY DEF Rest, WorkerStates, Steps

LEMMA RestFits == Fits(Rest)' /\ (Tables => Fits(Rest))
BY DEF Fits, Rest, WorkerStates, Steps, Tables, RowsAreTyped

LEMMA OnlyWorkerMoves ==
  ASSUME IInv, UNCHANGED <<exists, queue2Vars, reviewVars, client>>,
         NEW w \in Workers, NEW s, Fits(s), Become(w, s)
  PROVE  IInv'
<1>1. Tables' /\ Keeps /\ Fits(s)'
  BY NothingChanges DEF IInv
<1>2. UNCHANGED client
  OBVIOUS
<1> QED BY <1>1, <1>2, WorkerMoves

LEMMA DropsKeep ==
  ASSUME IInv, UNCHANGED <<exists, queue2Vars, reviewVars, client>>,
         NEW w \in Workers, Drop(w)
  PROVE  IInv'
BY RestFits, OnlyWorkerMoves DEF Drop, IInv

\* recover_stale_regeneration_jobs and claim_next_regeneration_job, their SELECTs.
LEMMA QueueReadsKeep ==
  ASSUME IInv, NEW w \in Workers, RecoverRead(w) \/ ClaimSelect(w)
  PROVE  IInv'
<1>0. PICK s \in WorkerStates : s = worker[w] /\ Fits(s)
  BY DEF IInv
<1>a. Len(jobs) \in Nat /\ DOMAIN jobs = 1..Len(jobs)
  BY DEF IInv, Tables, RowsAreTyped
<1>1. UNCHANGED <<exists, queue2Vars, reviewVars, client>>
  BY DEF RecoverRead, ClaimSelect
<1>2. ASSUME RecoverRead(w), Stale = {}
      PROVE  IInv'
  <2>1. Become(w, [s EXCEPT !.at = "select"])
    BY <1>0, <1>2 DEF RecoverRead, Goto, Become
  <2>2. Fits([s EXCEPT !.at = "select"])
    BY <1>0 DEF Fits, WorkerStates, Steps
  <2> QED BY <1>1, <2>1, <2>2, OnlyWorkerMoves
<1>3. ASSUME RecoverRead(w), Stale /= {}
      PROVE  IInv'
  <2>1. PICK requeue \in SUBSET DOMAIN jobs, giveUp \in SUBSET DOMAIN jobs :
          Become(w, [Rest EXCEPT !.at = "recover", !.requeue = requeue,
                                 !.giveUp = giveUp])
    <3>1. Stale \subseteq DOMAIN jobs
      BY DEF Stale
    <3> QED BY <1>3, <3>1 DEF RecoverRead
  <2> DEFINE new == [Rest EXCEPT !.at = "recover", !.requeue = requeue, !.giveUp = giveUp]
  <2>2. /\ new \in WorkerStates /\ new.at = "recover" /\ new.job = 0 /\ new.packet = 0
        /\ new.requeue = requeue /\ new.giveUp = giveUp
    <3>1. requeue \in SUBSET Nat /\ giveUp \in SUBSET Nat
      BY <1>a
    <3> QED BY <3>1, RestIsTyped DEF WorkerStates, Steps
  <2> HIDE DEF new
  <2>3. Fits(new)
    BY <1>a, <2>2 DEF Fits, IInv, Tables, RowsAreTyped
  <2> QED BY <1>1, <2>1, <2>3, OnlyWorkerMoves DEF new
<1>4. ASSUME ClaimSelect(w), Claimable = {}
      PROVE  IInv'
  BY <1>1, <1>4, DropsKeep DEF ClaimSelect
<1>5. ASSUME ClaimSelect(w), Claimable /= {}
      PROVE  IInv'
  <2>1. PICK i \in DOMAIN jobs : Become(w, [Rest EXCEPT !.at = "claim", !.job = i])
    BY <1>5 DEF ClaimSelect, Claimable
  <2> DEFINE new == [Rest EXCEPT !.at = "claim", !.job = i]
  <2>2. /\ new \in WorkerStates /\ new.at = "claim" /\ new.job = i /\ new.packet = 0
        /\ new.requeue = {} /\ new.giveUp = {}
    <3>1. i \in Nat
      BY <1>a
    <3> QED BY <3>1, RestIsTyped DEF WorkerStates, Steps
  <2> HIDE DEF new
  <2>3. Fits(new)
    BY <1>a, <2>2 DEF Fits, IInv, Tables, RowsAreTyped
  <2> QED BY <1>1, <2>1, <2>3, OnlyWorkerMoves DEF new
<1> QED BY <1>2, <1>3, <1>4, <1>5

\* A worker at a job goes on to a step that asks for no more than the job.
LEMMA AtJobFits ==
  ASSUME NEW s, Fits(s), s.at \notin {"idle", "recover", "select"},
         NEW step \in {"inspect", "create", "insert", "fail", "failing"},
         NEW retry \in BOOLEAN
  PROVE  /\ Fits([s EXCEPT !.at = step])
         /\ Fits([s EXCEPT !.at = step, !.retry = retry])
BY DEF Fits, WorkerStates, Steps

\* It is to link a packet of its resolution that is ready.
LEMMA LinkFits ==
  ASSUME Tables, NEW s, Fits(s), s.at \notin {"idle", "recover", "select"},
         NEW p \in ReadyWith(s.job)
  PROVE  Fits([s EXCEPT !.at = "finish", !.packet = p])
<1>1. p \in Nat /\ p <= Len(packets)
  BY DEF ReadyWith, Ready, Tables, RowsAreTyped
<1> QED BY <1>1 DEF Fits, WorkerStates, Steps

LEMMA ReadsKeep ==
  ASSUME IInv, NEW w \in Workers,
         Inspect(w) \/ CreatePacketRead(w) \/ Render(w) \/ FailRead(w)
  PROVE  IInv'
<1>0. PICK s \in WorkerStates : s = worker[w] /\ Fits(s)
  BY DEF IInv
<1>1. /\ UNCHANGED <<exists, queue2Vars, reviewVars, client>>
      /\ s.at \in {"inspect", "create", "render", "fail"}
      /\ s.at \in {"create", "render", "fail"} \/ exists \/ Drop(w)
  BY <1>0 DEF Inspect, CreatePacketRead, Render, FailRead, At
<1>2. CASE Drop(w)
  BY <1>1, <1>2, DropsKeep
<1>3. ASSUME NEW step \in {"create", "insert"}, Goto(w, step)
      PROVE  IInv'
  <2>1. Become(w, [s EXCEPT !.at = step])
    BY <1>0, <1>3 DEF Goto, Become
  <2> QED BY <1>0, <1>1, <2>1, AtJobFits, OnlyWorkerMoves
<1>4. ASSUME NEW step \in {"fail", "failing"}, NEW retry \in BOOLEAN,
             worker' = [worker EXCEPT ![w].at = step, ![w].retry = retry]
      PROVE  IInv'
  <2>1. Become(w, [s EXCEPT !.at = step, !.retry = retry])
    BY <1>0, <1>4 DEF Become
  <2> QED BY <1>0, <1>1, <2>1, AtJobFits, OnlyWorkerMoves
<1>5. ASSUME NEW p \in ReadyWith(s.job),
             worker' = [worker EXCEPT ![w].at = "finish", ![w].packet = p]
      PROVE  IInv'
  <2>1. Become(w, [s EXCEPT !.at = "finish", !.packet = p])
    BY <1>0, <1>5 DEF Become
  <2>2. Fits([s EXCEPT !.at = "finish", !.packet = p])
    BY <1>0, <1>1, LinkFits DEF IInv
  <2> QED BY <1>1, <2>1, <2>2, OnlyWorkerMoves
<1>6. CASE Inspect(w) /\ exists
  <2>1. s.job \in DOMAIN resolutions
    BY <1>0, <1>6 DEF Inspect, At, Fits, IInv, Tables, RowsAreTyped
  <2>2. CASE resolutions[s.job].status = "complete"
    <3>1. resolutions[s.job].packet \in ReadyWith(s.job)
      BY <2>1, <2>2 DEF IInv, Tables, CompleteIsLinked
    <3>2. worker' = [worker EXCEPT ![w].at = "finish",
                                   ![w].packet = resolutions[s.job].packet]
      BY <1>0, <1>6, <2>2 DEF Inspect, JobOf
    <3> QED BY <1>5, <3>1, <3>2
  <2>3. CASE resolutions[s.job].status /= "complete"
    <3>1. \/ \E p \in ReadyWith(s.job) :
               worker' = [worker EXCEPT ![w].at = "finish", ![w].packet = p]
          \/ \E retryable \in BOOLEAN : Refuse(w, retryable)
          \/ Goto(w, "create")
      BY <1>0, <1>6, <2>3 DEF Inspect, JobOf
    <3> QED BY <1>3, <1>4, <1>5, <3>1 DEF Refuse
  <2> QED BY <2>2, <2>3
<1>7. CASE CreatePacketRead(w)
  <2>1. \/ Goto(w, "insert")
        \/ \E p \in ReadyWith(s.job) :
             worker' = [worker EXCEPT ![w].at = "finish", ![w].packet = p]
    BY <1>0, <1>7 DEF CreatePacketRead, JobOf
  <2> QED BY <1>3, <1>5, <2>1
<1>8. CASE Render(w)
  <2>1. CASE Goto(w, "deliver")
    <3>1. Become(w, [s EXCEPT !.at = "deliver"])
      BY <1>0, <2>1 DEF Goto, Become
    <3>2. Fits([s EXCEPT !.at = "deliver"])
      BY <1>0, <1>8 DEF Fits, Render, At, WorkerStates, Steps
    <3> QED BY <1>1, <3>1, <3>2, OnlyWorkerMoves
  <2> QED BY <1>4, <1>8, <2>1 DEF Render, Refuse
<1>9. CASE FailRead(w)
  <2>1. CASE exists
    <3>1. PICK retry \in BOOLEAN :
            worker' = [worker EXCEPT ![w].at = "failing", ![w].retry = retry]
      BY <1>9, <2>1 DEF FailRead
    <3> QED BY <1>4, <3>1
  <2> QED BY <1>2, <1>9, <2>1 DEF FailRead
<1> QED BY <1>1, <1>2, <1>6, <1>7, <1>8, <1>9 DEF Inspect

-----------------------------------------------------------------------------
\* The steps of a worker that write.  Every one keeps the invariant and Keeps.

LEMMA WriteMoves ==
  ASSUME IInv, Tables', Keeps, UNCHANGED client, NEW w \in Workers, NEW s, Fits(s),
         Become(w, s)
  PROVE  IInv'
BY FitsIsKept, WorkerMoves DEF IInv

\* Both statuses of the rows are written in one transaction.
LEMMA SettleKeeps ==
  ASSUME Tables, exists, UNCHANGED <<exists, queue2Vars>>, NEW rows, NEW status,
         \A i \in rows : status[i] \in {"queued", "failed"}, Settle(rows, status),
         reviews' \in Seq(ReviewRows), Len(reviews') = Len(reviews),
         \A i \in DOMAIN reviews : reviews'[i].packet = reviews[i].packet
  PROVE  Tables' /\ Keeps
<1>1. /\ jobs \in Seq(JobRows) /\ resolutions \in Seq(ResolutionRows)
      /\ DOMAIN jobs = DOMAIN resolutions
      /\ \A i \in DOMAIN jobs : jobs[i] \in JobRows /\ resolutions[i] \in ResolutionRows
  BY DEF Tables, RowsAreTyped
<1>2. \A i \in DOMAIN jobs :
        /\ jobs'[i] = IF i \in rows THEN [jobs[i] EXCEPT !.status = status[i],
                                                         !.lease = "none"]
                      ELSE jobs[i]
        /\ resolutions'[i] = IF i \in rows
                             THEN [resolutions[i] EXCEPT !.status = status[i]]
                             ELSE resolutions[i]
  BY <1>1 DEF Settle
<1>3. ASSUME NEW i \in DOMAIN jobs
      PROVE  /\ jobs'[i] \in JobRows /\ jobs'[i].source = jobs[i].source
             /\ jobs'[i].status = IF i \in rows THEN status[i] ELSE jobs[i].status
             /\ resolutions'[i] \in ResolutionRows
             /\ resolutions'[i].review = resolutions[i].review
             /\ resolutions'[i].packet = resolutions[i].packet
             /\ resolutions'[i].status = IF i \in rows THEN status[i]
                                         ELSE resolutions[i].status
  <2>1. jobs[i] \in JobRows /\ resolutions[i] \in ResolutionRows
    BY <1>1
  <2>2. CASE i \in rows
    <3>1. status[i] \in JobStates
      BY <2>2 DEF JobStates
    <3>2. jobs'[i] = [jobs[i] EXCEPT !.status = status[i], !.lease = "none"]
          /\ resolutions'[i] = [resolutions[i] EXCEPT !.status = status[i]]
      BY <1>2, <2>2
    <3> QED BY <2>1, <2>2, <3>1, <3>2 DEF JobRows, ResolutionRows
  <2>3. CASE i \notin rows
    BY <1>2, <2>1, <2>3
  <2> QED BY <2>2, <2>3
<1>4. jobs' \in Seq(JobRows) /\ Len(jobs') = Len(jobs) /\ DOMAIN jobs' = DOMAIN jobs
  <2>1. jobs' = [i \in DOMAIN jobs |-> jobs'[i]]
    BY DEF Settle
  <2> QED BY <1>1, <1>3, <2>1, RowsAreMapped
<1>5. resolutions' \in Seq(ResolutionRows) /\ Len(resolutions') = Len(resolutions)
  <2>1. resolutions' = [i \in DOMAIN resolutions |-> resolutions'[i]]
    BY DEF Settle
  <2> QED BY <1>1, <1>3, <2>1, RowsAreMapped
<1>6. StatusesAgree'
  BY <1>3, <1>4 DEF Tables, StatusesAgree
<1>7. ASSUME NEW i \in DOMAIN resolutions
      PROVE  /\ resolutions'[i].packet <= Len(packets)
             /\ resolutions'[i].status = "complete" => resolutions'[i].packet \in ReadyWith(i)
  BY <1>1, <1>3 DEF Tables, KeysAreBacked, CompleteIsLinked
<1> QED BY <1>1, <1>3, <1>4, <1>5, <1>6, <1>7, StatusesChange

\* A row of each table is written in one transaction.
LEMMA RowsAreWritten ==
  ASSUME Tables, exists, UNCHANGED <<exists, queue2Vars>>, NEW i \in DOMAIN jobs,
         NEW job \in JobRows, NEW resolution \in ResolutionRows,
         jobs' = [jobs EXCEPT ![i] = job],
         resolutions' = [resolutions EXCEPT ![i] = resolution],
         job.source = jobs[i].source, job.status = resolution.status,
         resolution.review = resolutions[i].review,
         resolution.packet <= Len(packets),
         resolution.status = "complete" => resolution.packet \in ReadyWith(i),
         reviews' \in Seq(ReviewRows), Len(reviews') = Len(reviews),
         \A k \in DOMAIN reviews : reviews'[k].packet = reviews[k].packet
  PROVE  Tables' /\ Keeps
<1>1. /\ jobs \in Seq(JobRows) /\ resolutions \in Seq(ResolutionRows)
      /\ DOMAIN jobs = DOMAIN resolutions
  BY DEF Tables, RowsAreTyped
<1>2. /\ jobs' \in Seq(JobRows) /\ Len(jobs') = Len(jobs) /\ DOMAIN jobs' = DOMAIN jobs
      /\ jobs'[i] = job /\ \A k \in DOMAIN jobs : k /= i => jobs'[k] = jobs[k]
  BY <1>1, RowIsSet
<1>3. /\ resolutions' \in Seq(ResolutionRows) /\ Len(resolutions') = Len(resolutions)
      /\ resolutions'[i] = resolution
      /\ \A k \in DOMAIN resolutions : k /= i => resolutions'[k] = resolutions[k]
  BY <1>1, RowIsSet
<1>4. StatusesAgree'
  BY <1>1, <1>2, <1>3 DEF Tables, StatusesAgree
<1>5. ASSUME NEW k \in DOMAIN resolutions
      PROVE  /\ resolutions'[k].review = resolutions[k].review
             /\ resolutions'[k].packet <= Len(packets)
             /\ resolutions'[k].status = "complete" => resolutions'[k].packet \in ReadyWith(k)
             /\ jobs'[k].source = jobs[k].source
  BY <1>1, <1>2, <1>3 DEF Tables, KeysAreBacked, CompleteIsLinked
<1> QED BY <1>1, <1>2, <1>3, <1>4, <1>5, StatusesChange

LEMMA ReviewsStay ==
  ASSUME Tables, UNCHANGED reviews
  PROVE  /\ reviews' \in Seq(ReviewRows) /\ Len(reviews') = Len(reviews)
         /\ \A i \in DOMAIN reviews : reviews'[i].packet = reviews[i].packet
BY DEF Tables, RowsAreTyped

\* recover_stale_regeneration_jobs.
LEMMA RecoverKeeps ==
  ASSUME IInv, NEW w \in Workers, RecoverWrite(w)
  PROVE  IInv' /\ Keeps
<1>0. PICK s \in WorkerStates : s = worker[w] /\ Fits(s)
  BY DEF IInv
<1>1. CASE ~exists
  <2>1. Drop(w) /\ UNCHANGED <<exists, queue2Vars, reviewVars, client>>
    BY <1>1 DEF RecoverWrite, reviewVars
  <2> QED BY <2>1, DropsKeep, NothingChanges DEF IInv
<1>2. CASE exists
  <2> DEFINE rows == s.requeue \cup s.giveUp
             status == [i \in rows |-> IF i \in s.requeue THEN "queued" ELSE "failed"]
  <2>1. /\ Settle(rows, status) /\ Become(w, [Rest EXCEPT !.at = "select"])
        /\ UNCHANGED <<exists, queue2Vars, reviews, client>>
    BY <1>0, <1>2 DEF RecoverWrite
  <2>2. \A i \in rows : status[i] \in {"queued", "failed"}
    OBVIOUS
  <2> HIDE DEF rows, status
  <2>3. Tables' /\ Keeps
    BY <1>2, <2>1, <2>2, ReviewsStay, SettleKeeps DEF IInv
  <2>4. Fits([Rest EXCEPT !.at = "select"])
    BY RestIsTyped DEF Fits, WorkerStates, Steps, IInv, Tables, RowsAreTyped
  <2> QED BY <2>1, <2>3, <2>4, WriteMoves
<1> QED BY <1>1, <1>2

\* claim_next_regeneration_job.
LEMMA ClaimKeeps ==
  ASSUME IInv, NEW w \in Workers, ClaimWrite(w)
  PROVE  IInv' /\ Keeps
<1>0. PICK s \in WorkerStates : s = worker[w] /\ Fits(s) /\ s.at = "claim"
  BY DEF IInv, ClaimWrite, At
<1>1. UNCHANGED <<exists, queue2Vars, reviews, client>>
  BY DEF ClaimWrite
<1>2. CASE Drop(w) /\ UNCHANGED <<jobs, resolutions>>
  BY <1>1, <1>2, DropsKeep, NothingChanges DEF IInv, reviewVars
<1>3. CASE exists /\ Goto(w, "inspect")
  <2>1. Become(w, [s EXCEPT !.at = "inspect"]) /\ Fits([s EXCEPT !.at = "inspect"])
    BY <1>0, <1>3, AtJobFits DEF Goto, Become
  <2>2. CASE UNCHANGED <<jobs, resolutions>>
    BY <1>1, <2>1, <2>2, OnlyWorkerMoves, NothingChanges DEF IInv, reviewVars
  <2>3. CASE ~UNCHANGED <<jobs, resolutions>>
    <3>1. PICK i \in DOMAIN jobs : i = s.job
      BY <1>0, <1>3 DEF Fits
    <3> DEFINE job == [jobs[i] EXCEPT !.status = "processing", !.lease = "live",
                                      !.attempts = jobs[i].attempts + 1]
               resolution == [resolutions[i] EXCEPT !.status = "processing"]
    <3>2. /\ jobs' = [jobs EXCEPT ![i] = job]
          /\ resolutions' = [resolutions EXCEPT ![i] = resolution]
      BY <1>0, <2>3, <3>1 DEF ClaimWrite, JobOf
    <3>3. jobs[i] \in JobRows /\ resolutions[i] \in ResolutionRows /\ i \in DOMAIN resolutions
      BY DEF IInv, Tables, RowsAreTyped
    <3>4. /\ job \in JobRows /\ job.source = jobs[i].source /\ job.status = "processing"
          /\ resolution \in ResolutionRows /\ resolution.status = "processing"
          /\ resolution.review = resolutions[i].review
          /\ resolution.packet = resolutions[i].packet
      <4>1. jobs[i].attempts + 1 \in Nat
        BY <3>3 DEF JobRows
      <4>2. job \in JobRows /\ job.source = jobs[i].source /\ job.status = "processing"
        BY <3>3, <4>1 DEF JobRows, JobStates
      <4>3. /\ resolution \in ResolutionRows /\ resolution.status = "processing"
            /\ resolution.review = resolutions[i].review
            /\ resolution.packet = resolutions[i].packet
        BY <3>3 DEF ResolutionRows, JobStates
      <4> QED BY <4>2, <4>3
    <3>5. resolution.packet <= Len(packets)
      BY <3>3, <3>4 DEF IInv, Tables, KeysAreBacked
    <3> HIDE DEF job, resolution
    <3>6. Tables' /\ Keeps
      <4>1. /\ reviews' \in Seq(ReviewRows) /\ Len(reviews') = Len(reviews)
            /\ \A k \in DOMAIN reviews : reviews'[k].packet = reviews[k].packet
        BY <1>1, ReviewsStay DEF IInv
      <4> QED BY <1>1, <1>3, <3>2, <3>4, <3>5, <4>1, RowsAreWritten DEF IInv
    <3> QED BY <1>1, <2>1, <3>6, WriteMoves
  <2> QED BY <2>2, <2>3
<1> QED BY <1>2, <1>3 DEF ClaimWrite

\* create_review_packet_attempt.
LEMMA CreatePacketKeeps ==
  ASSUME IInv, NEW w \in Workers, CreatePacketWrite(w)
  PROVE  IInv' /\ Keeps
<1>0. PICK s \in WorkerStates : s = worker[w] /\ Fits(s) /\ s.at = "insert"
  BY DEF IInv, CreatePacketWrite, At
<1>1. CASE ~exists
  <2>1. Drop(w) /\ UNCHANGED <<exists, queue2Vars, reviewVars, client>>
    BY <1>1 DEF CreatePacketWrite, queue2Vars
  <2> QED BY <2>1, DropsKeep, NothingChanges DEF IInv
<1>2. CASE exists
  <2>a. PICK n \in Nat : n = Len(packets) + 1
    BY DEF IInv, Tables, RowsAreTyped
  <2> DEFINE row == [status |-> "generating", key |-> s.job]
             new == [s EXCEPT !.at = "render", !.packet = n]
  <2>1. /\ packets' = Append(packets, row) /\ Become(w, new)
        /\ UNCHANGED <<exists, tailored, reviewVars, client>>
    BY <1>0, <1>2, <2>a DEF CreatePacketWrite, JobOf, Become
  <2>2. /\ row \in PacketRows /\ row.key = s.job /\ row.status = "generating"
        /\ s.job <= Len(resolutions) /\ s.job \in Nat
    BY <1>0, <1>2 DEF Fits, PacketRows, PacketStates, WorkerStates, IInv, Tables,
                      RowsAreTyped
  <2> HIDE DEF row
  <2>3. /\ packets' \in Seq(PacketRows) /\ Len(packets') = Len(packets) + 1
        /\ Len(packets) \in Nat /\ DOMAIN packets' = DOMAIN packets \cup {Len(packets) + 1}
        /\ packets'[Len(packets) + 1] = row
        /\ \A p \in DOMAIN packets : packets'[p] = packets[p]
    BY <2>1, <2>2, RowIsAdded DEF IInv, Tables, RowsAreTyped
  <2>4. Ready' = Ready /\ \A p \in Ready : p \in DOMAIN packets
    BY <2>2, <2>3 DEF Ready
  <2>5. OneReady'
    BY <2>1, <2>3, <2>4 DEF IInv, Tables, OneReady, ReadyWith, reviewVars
  <2>6. \A p \in DOMAIN packets' : packets'[p].key <= Len(resolutions)
    BY <2>2, <2>3 DEF IInv, Tables, KeysAreBacked
  <2>7. tailored' \in 0..Len(packets')
    BY <2>1, <2>3 DEF IInv, Tables, RowsAreTyped
  <2>8. Tables' /\ Keeps
    BY <1>2, <2>1, <2>3, <2>4, <2>5, <2>6, <2>7, PacketsChange DEF IInv
  <2>9. Fits(new)'
    <3>1. /\ new \in WorkerStates /\ new.at = "render" /\ new.packet = n
          /\ new.job = s.job /\ new.requeue = s.requeue /\ new.giveUp = s.giveUp
      BY DEF WorkerStates, Steps
    <3> HIDE DEF new
    <3>2. UNCHANGED jobs
      BY <2>1 DEF reviewVars
    <3>3. s.job \in DOMAIN jobs /\ s.requeue \cup s.giveUp \subseteq DOMAIN jobs
          /\ s.job <= Len(jobs)
      BY <1>0, <1>2 DEF Fits
    <3> QED BY <2>2, <2>3, <2>a, <3>1, <3>2, <3>3 DEF Fits
  <2> QED BY <2>1, <2>8, <2>9, WorkerMoves
<1> QED BY <1>1, <1>2

\* complete_review_packet_attempt: the unique index refuses a second ready packet.
LEMMA DeliverKeeps ==
  ASSUME IInv, NEW w \in Workers, Deliver(w)
  PROVE  IInv' /\ Keeps
<1>0. PICK s \in WorkerStates : s = worker[w] /\ Fits(s) /\ s.at = "deliver"
  BY DEF IInv, Deliver, At
<1>1. CASE Drop(w) /\ UNCHANGED packets
  BY <1>1, DropsKeep, NothingChanges DEF IInv, Deliver, queue2Vars
<1>2. CASE ~(Drop(w) /\ UNCHANGED packets)
  <2>1. /\ exists /\ ReadyWith(s.job) = {}
        /\ packets' = [packets EXCEPT ![s.packet].status = "ready"]
        /\ Goto(w, "finish")
        /\ UNCHANGED <<exists, tailored, reviewVars, client>>
    BY <1>0, <1>2 DEF Deliver, JobOf
  <2>2. /\ s.packet \in DOMAIN packets /\ packets[s.packet].key = s.job
        /\ s.job \in DOMAIN jobs
    BY <1>0, <2>1 DEF Fits
  <2> DEFINE row == [packets[s.packet] EXCEPT !.status = "ready"]
             new == [s EXCEPT !.at = "finish"]
  <2>3. packets \in Seq(PacketRows) /\ packets[s.packet] \in PacketRows
    BY <2>2 DEF IInv, Tables, RowsAreTyped
  <2>4. row \in PacketRows /\ row.status = "ready" /\ row.key = s.job
    BY <2>2, <2>3 DEF PacketRows, PacketStates
  <2>5. packets' = [packets EXCEPT ![s.packet] = row]
    BY <2>1
  <2> HIDE DEF row
  <2>6. /\ packets' \in Seq(PacketRows) /\ Len(packets') = Len(packets)
        /\ Len(packets) \in Nat /\ DOMAIN packets' = DOMAIN packets
        /\ packets'[s.packet] = row
        /\ \A p \in DOMAIN packets : p /= s.packet => packets'[p] = packets[p]
    <3>1. Len(packets) \in Nat
      BY <2>3
    <3> QED BY <2>2, <2>3, <2>4, <2>5, <3>1, RowIsSet
  <2>7. s.packet \notin Ready /\ Ready' = Ready \cup {s.packet}
    BY <2>1, <2>2, <2>4, <2>6 DEF Ready, ReadyWith
  <2>8. OneReady'
    <3> SUFFICES ASSUME NEW i \in DOMAIN resolutions',
                        NEW p \in ReadyWith(i)', NEW q \in ReadyWith(i)'
                 PROVE  p = q
      BY DEF OneReady
    <3>1. CASE i = s.job
      BY <2>1, <2>4, <2>6, <2>7, <3>1 DEF ReadyWith, Ready
    <3>2. CASE i /= s.job
      <4>1. p \in ReadyWith(i) /\ q \in ReadyWith(i)
        BY <2>4, <2>6, <2>7, <3>2 DEF ReadyWith, Ready
      <4> QED BY <2>1, <4>1 DEF IInv, Tables, OneReady, reviewVars
    <3> QED BY <3>1, <3>2
  <2>9. \A p \in DOMAIN packets' : packets'[p].key <= Len(resolutions)
    BY <2>2, <2>4, <2>6 DEF IInv, Tables, KeysAreBacked
  <2>10. tailored' \in 0..Len(packets')
    BY <2>1, <2>6 DEF IInv, Tables, RowsAreTyped
  <2>11. Tables' /\ Keeps
    <3>1. /\ \A p \in DOMAIN packets : packets'[p].key = packets[p].key
          /\ \A p \in Ready : packets'[p] = packets[p]
      BY <2>2, <2>4, <2>6, <2>7 DEF Ready
    <3> QED BY <2>1, <2>6, <2>8, <2>9, <2>10, <3>1, PacketsChange DEF IInv
  <2>12. Become(w, new)
    BY <1>0, <2>1 DEF Goto, Become
  <2>13. Fits(new)'
    <3>1. /\ new \in WorkerStates /\ new.at = "finish" /\ new.packet = s.packet
          /\ new.job = s.job /\ new.requeue = s.requeue /\ new.giveUp = s.giveUp
      BY DEF WorkerStates, Steps
    <3> HIDE DEF new
    <3>2. UNCHANGED jobs /\ UNCHANGED exists
      BY <2>1 DEF reviewVars
    <3>3. s.job \in DOMAIN jobs /\ s.requeue \cup s.giveUp \subseteq DOMAIN jobs
          /\ s.job <= Len(jobs) /\ s.packet <= Len(packets)
      BY <1>0, <2>1 DEF Fits
    <3>4. s.packet \in ReadyWith(s.job)'
      BY <2>2, <2>4, <2>6, <2>7 DEF ReadyWith, Ready
    <3> QED BY <2>6, <3>1, <3>2, <3>3, <3>4 DEF Fits, ReadyWith, Ready
  <2> QED BY <2>1, <2>11, <2>12, <2>13, WorkerMoves
<1> QED BY <1>1, <1>2

\* complete_regeneration_job links a packet of the resolution that is ready.
LEMMA FinishKeeps ==
  ASSUME IInv, NEW w \in Workers, Finish(w)
  PROVE  IInv' /\ Keeps
<1>0. PICK s \in WorkerStates : s = worker[w] /\ Fits(s) /\ s.at = "finish"
  BY DEF IInv, Finish, At
<1>1. Drop(w) /\ UNCHANGED <<exists, queue2Vars, client>>
  BY DEF Finish
<1>2. CASE ~exists
  BY <1>1, <1>2, DropsKeep, NothingChanges DEF IInv, Finish
<1>3. CASE exists
  <2>1. PICK i \in DOMAIN jobs : i = s.job
    BY <1>0, <1>3 DEF Fits
  <2> DEFINE job == [jobs[i] EXCEPT !.status = "complete", !.lease = "none"]
             resolution == [resolutions[i] EXCEPT !.status = "complete",
                                                  !.packet = s.packet]
  <2>2. /\ jobs' = [jobs EXCEPT ![i] = job]
        /\ resolutions' = [resolutions EXCEPT ![i] = resolution]
        /\ reviews' = [reviews EXCEPT ![resolutions[i].review].status = "approved"]
    BY <1>0, <1>3, <2>1 DEF Finish, JobOf
  <2>3. /\ jobs[i] \in JobRows /\ resolutions[i] \in ResolutionRows
        /\ i \in DOMAIN resolutions /\ resolutions[i].review \in DOMAIN reviews
    <3>1. /\ jobs[i] \in JobRows /\ resolutions[i] \in ResolutionRows
          /\ i \in DOMAIN resolutions
      BY DEF IInv, Tables, RowsAreTyped
    <3> QED BY <3>1 DEF IInv, Tables, KeysAreBacked
  <2>4. s.packet \in Nat /\ s.packet <= Len(packets) /\ s.packet \in ReadyWith(i)
    BY <1>0, <1>3, <2>1 DEF Fits, WorkerStates
  <2>5. job \in JobRows /\ job.source = jobs[i].source /\ job.status = "complete"
    BY <2>3 DEF JobRows, JobStates
  <2>6. /\ resolution \in ResolutionRows /\ resolution.status = "complete"
        /\ resolution.review = resolutions[i].review /\ resolution.packet = s.packet
    BY <2>3, <2>4 DEF ResolutionRows, JobStates
  <2>7. /\ reviews' \in Seq(ReviewRows) /\ Len(reviews') = Len(reviews)
        /\ \A k \in DOMAIN reviews : reviews'[k].packet = reviews[k].packet
    BY <2>2, <2>3, ReviewIsSet DEF IInv, ReviewStates
  <2> HIDE DEF job, resolution
  <2>8. Tables' /\ Keeps
    BY <1>1, <1>3, <2>2, <2>4, <2>5, <2>6, <2>7, RowsAreWritten DEF IInv
  <2> QED BY <1>1, <2>8, RestFits, WriteMoves DEF Drop, IInv
<1> QED BY <1>2, <1>3

\* fail_regeneration_job.
LEMMA FailKeeps ==
  ASSUME IInv, NEW w \in Workers, FailWrite(w)
  PROVE  IInv' /\ Keeps
<1>0. PICK s \in WorkerStates : s = worker[w] /\ Fits(s) /\ s.at = "failing"
  BY DEF IInv, FailWrite, At
<1>1. Drop(w) /\ UNCHANGED <<exists, queue2Vars, client>>
  BY DEF FailWrite
<1>2. CASE ~exists
  BY <1>1, <1>2, DropsKeep, NothingChanges DEF IInv, FailWrite
<1>3. CASE exists
  <2>1. PICK i \in DOMAIN jobs, next \in {"queued", "failed"} :
          /\ i = s.job /\ next = IF s.retry THEN "queued" ELSE "failed"
    BY <1>0, <1>3 DEF Fits
  <2>2. /\ Settle({i}, [k \in {i} |-> next])
        /\ \/ UNCHANGED reviews
           \/ reviews' = [reviews EXCEPT ![resolutions[i].review].status =
                                           "regeneration_failed"]
    BY <1>0, <1>3, <2>1 DEF FailWrite, JobOf
  <2>3. resolutions[i].review \in DOMAIN reviews
    BY DEF IInv, Tables, RowsAreTyped, KeysAreBacked
  <2>4. /\ reviews' \in Seq(ReviewRows) /\ Len(reviews') = Len(reviews)
        /\ \A k \in DOMAIN reviews : reviews'[k].packet = reviews[k].packet
    BY <2>2, <2>3, ReviewIsSet, ReviewsStay DEF IInv, ReviewStates
  <2>5. \A k \in {i} : [m \in {i} |-> next][k] \in {"queued", "failed"}
    BY <2>1
  <2>6. Tables' /\ Keeps
    BY <1>1, <1>3, <2>2, <2>4, <2>5, SettleKeeps DEF IInv
  <2> QED BY <1>1, <2>6, RestFits, WriteMoves DEF Drop, IInv
<1> QED BY <1>2, <1>3

-----------------------------------------------------------------------------
\* The steps of the queues, the users and the clock.

\* They move no worker and no client but one.
LEMMA TablesMove ==
  ASSUME IInv, Tables', Keeps, UNCHANGED <<worker, client>>
  PROVE  IInv'
BY WorkersStay DEF IInv

LEMMA ClientMoves ==
  ASSUME IInv, Tables', Keeps, UNCHANGED worker, NEW c \in Clients, NEW s, Asks(s),
         client' = [client EXCEPT ![c] = s]
  PROVE  IInv'
<1>1. s \in ClientStates
  BY DEF Asks
<1>2. client' \in [Clients -> ClientStates]
  BY <1>1 DEF IInv
<1>3. \A d \in Clients : client'[d] = client[d] \/ client'[d] = s
  BY DEF IInv
<1> QED BY <1>2, <1>3, WorkersStay

LEMMA SilenceFits == Tables => Asks(Silent)
BY DEF Asks, Silent, ClientStates, Tables, RowsAreTyped

\* _ensure_pending_review, after a first write.
LEMMA EnsureKeeps ==
  ASSUME Tables, exists, NEW type \in Types, NEW packet \in 0..Len(packets),
         EnsurePending(type, packet) \/ UNCHANGED reviews, tailored' \in 0..Len(packets),
         UNCHANGED <<exists, packets, resolutions, jobs>>
  PROVE  Tables' /\ Keeps
<1>1. CASE OpenReview(type, packet)
  BY <1>1, ReviewIsOpened
<1>2. CASE UNCHANGED reviews
  <2>1. \A i \in DOMAIN reviews' : reviews'[i].packet <= Len(packets)
    BY <1>2 DEF Tables, KeysAreBacked
  <2>2. Len(reviews) \in Nat /\ reviews' \in Seq(ReviewRows)
    BY <1>2 DEF Tables, RowsAreTyped
  <2> QED BY <1>2, <2>1, <2>2, ReviewsChange
<1> QED BY <1>1, <1>2 DEF EnsurePending

LEMMA ReviewStepsKeep ==
  ASSUME IInv, ScoreIsSaved \/ \E p \in DOMAIN packets : DecisionIsSaved(p)
  PROVE  IInv' /\ Keeps
<1>1. UNCHANGED <<worker, client>>
  BY DEF ScoreIsSaved, DecisionIsSaved
<1>2. DOMAIN packets = 1..Len(packets) /\ Len(packets) \in Nat
      /\ tailored \in 0..Len(packets)
  BY DEF IInv, Tables, RowsAreTyped
<1>3. CASE ScoreIsSaved
  BY <1>1, <1>2, <1>3, EnsureKeeps, TablesMove
     DEF ScoreIsSaved, queue2Vars, Types, IInv
<1>4. ASSUME NEW p \in DOMAIN packets, DecisionIsSaved(p)
      PROVE  Tables' /\ Keeps
  <2>1. p \in 0..Len(packets) /\ tailored' \in 0..Len(packets)
    BY <1>2, <1>4 DEF DecisionIsSaved
  <2> QED BY <1>4, <2>1, EnsureKeeps DEF DecisionIsSaved, Types, IInv
<1> QED BY <1>1, <1>3, <1>4, TablesMove

\* create_packet_attempt, complete_packet_attempt and fail_packet_attempt are about
\* packets of no resolution.
LEMMA PacketStartKeeps ==
  ASSUME IInv, PacketStarts
  PROVE  IInv' /\ Keeps
<1> DEFINE row == [status |-> "generating", key |-> 0]
<1>1. /\ exists /\ packets' = Append(packets, row)
      /\ UNCHANGED <<exists, tailored, reviewVars, worker, client>>
  BY DEF PacketStarts
<1>2. row \in PacketRows /\ row.key = 0 /\ row.status = "generating"
  BY DEF PacketRows, PacketStates
<1> HIDE DEF row
<1>3. /\ packets' \in Seq(PacketRows) /\ Len(packets') = Len(packets) + 1
      /\ Len(packets) \in Nat /\ DOMAIN packets' = DOMAIN packets \cup {Len(packets) + 1}
      /\ packets'[Len(packets) + 1] = row
      /\ \A p \in DOMAIN packets : packets'[p] = packets[p]
  BY <1>1, <1>2, RowIsAdded DEF IInv, Tables, RowsAreTyped
<1>4. Ready' = Ready /\ \A p \in Ready : p \in DOMAIN packets
  BY <1>2, <1>3 DEF Ready
<1>5. OneReady'
  BY <1>1, <1>3, <1>4 DEF IInv, Tables, OneReady, ReadyWith, reviewVars
<1>6. \A p \in DOMAIN packets' : packets'[p].key <= Len(resolutions)
  <2>1. Len(resolutions) \in Nat
    BY DEF IInv, Tables, RowsAreTyped
  <2> QED BY <1>2, <1>3, <2>1 DEF IInv, Tables, KeysAreBacked
<1>7. tailored' \in 0..Len(packets')
  BY <1>1, <1>3 DEF IInv, Tables, RowsAreTyped
<1>8. Tables' /\ Keeps
  BY <1>1, <1>3, <1>4, <1>5, <1>6, <1>7, PacketsChange DEF IInv
<1> QED BY <1>1, <1>8, TablesMove

LEMMA PacketEndKeeps ==
  ASSUME IInv, NEW p \in DOMAIN packets, NEW status \in {"ready", "failed"},
         PacketEnds(p, status)
  PROVE  IInv' /\ Keeps
<1> DEFINE row == [packets[p] EXCEPT !.status = status]
<1>1. /\ exists /\ packets[p].key = 0 /\ packets[p].status = "generating"
      /\ packets' = [packets EXCEPT ![p] = row]
      /\ UNCHANGED <<exists, tailored, reviewVars, worker, client>>
  BY DEF PacketEnds, InGeneration
<1>2. packets \in Seq(PacketRows) /\ packets[p] \in PacketRows /\ Len(packets) \in Nat
  BY DEF IInv, Tables, RowsAreTyped
<1>3. row \in PacketRows /\ row.key = 0
  BY <1>1, <1>2 DEF PacketRows, PacketStates
<1> HIDE DEF row
<1>4. /\ packets' \in Seq(PacketRows) /\ Len(packets') = Len(packets)
      /\ DOMAIN packets' = DOMAIN packets
      /\ packets'[p] = row /\ \A q \in DOMAIN packets : q /= p => packets'[q] = packets[q]
  BY <1>1, <1>2, <1>3, RowIsSet
<1>5. p \notin Ready /\ Ready \subseteq DOMAIN packets
  BY <1>1 DEF Ready
<1>6. \A i \in DOMAIN resolutions : ReadyWith(i)' \subseteq ReadyWith(i)
  <2>1. \A i \in DOMAIN resolutions : i /= 0
    BY DEF IInv, Tables, RowsAreTyped
  <2> QED BY <1>3, <1>4, <2>1 DEF ReadyWith, Ready
<1>7. OneReady'
  BY <1>1, <1>6 DEF IInv, Tables, OneReady, reviewVars
<1>8. \A q \in DOMAIN packets' : packets'[q].key <= Len(resolutions)
  <2>1. Len(resolutions) \in Nat
    BY DEF IInv, Tables, RowsAreTyped
  <2> QED BY <1>3, <1>4, <2>1 DEF IInv, Tables, KeysAreBacked
<1>9. /\ \A q \in DOMAIN packets : packets'[q].key = packets[q].key
      /\ \A q \in Ready : packets'[q] = packets[q]
  BY <1>1, <1>3, <1>4, <1>5
<1>10. Tables' /\ Keeps
  <2>1. tailored' \in 0..Len(packets')
    BY <1>1, <1>4 DEF IInv, Tables, RowsAreTyped
  <2> QED BY <1>1, <1>2, <1>4, <1>7, <1>8, <1>9, <2>1, PacketsChange DEF IInv
<1> QED BY <1>1, <1>10, TablesMove

\* create_manual_review: the packet it names is the one of the latest decision.
LEMMA ClientKeeps ==
  ASSUME IInv, NEW c \in Clients, ClientStep(c)
  PROVE  IInv' /\ Keeps
<1>1. ASSUME NEW type \in Types, CreateRead(c, type)
      PROVE  IInv' /\ Keeps
  <2>1. PICK packet \in 0..Len(packets) :
          client' = [client EXCEPT ![c] = [opens |-> type, packet |-> packet]]
    <3>1. tailored \in 0..Len(packets) /\ 0 \in 0..Len(packets)
      BY DEF IInv, Tables, RowsAreTyped
    <3> QED BY <1>1, <3>1 DEF CreateRead
  <2>2. Asks([opens |-> type, packet |-> packet])
    <3>1. Len(packets) \in Nat
      BY DEF IInv, Tables, RowsAreTyped
    <3> QED BY <2>1, <3>1 DEF Asks, ClientStates
  <2>3. UNCHANGED <<exists, queue2Vars, reviewVars, worker>>
    BY <1>1 DEF CreateRead
  <2>4. Tables' /\ Keeps
    BY <2>3, NothingChanges DEF IInv
  <2> QED BY <2>1, <2>2, <2>3, <2>4, ClientMoves
<1>2. ASSUME CreateWrite(c)
      PROVE  IInv' /\ Keeps
  <2>1. PICK s : s = client[c] /\ Asks(s) /\ s /= Silent
    BY <1>2 DEF IInv, CreateWrite
  <2>2. /\ UNCHANGED <<exists, queue2Vars, resolutions, jobs, worker>>
        /\ client' = [client EXCEPT ![c] = Silent]
    BY <1>2 DEF CreateWrite
  <2>3. CASE exists
    <3>1. s.opens \in Types /\ s.packet \in 0..Len(packets)
      BY <2>1, <2>3 DEF Asks, ClientStates, IInv, Tables, RowsAreTyped
    <3>2. OpenReview(s.opens, s.packet)
      BY <1>2, <2>1, <2>3 DEF CreateWrite
    <3>3. tailored' \in 0..Len(packets)
      BY <2>2 DEF IInv, Tables, RowsAreTyped, queue2Vars
    <3>4. Tables' /\ Keeps
      BY <2>2, <2>3, <3>1, <3>2, <3>3, ReviewIsOpened DEF IInv, queue2Vars
    <3> QED BY <2>2, <3>4, SilenceFits, ClientMoves DEF IInv
  <2>4. CASE ~exists
    <3>1. Tables' /\ Keeps
      BY <1>2, <2>2, <2>4, NothingChanges DEF IInv, CreateWrite, reviewVars
    <3> QED BY <2>2, <3>1, SilenceFits, ClientMoves DEF IInv
  <2> QED BY <2>3, <2>4
<1> QED BY <1>1, <1>2 DEF ClientStep

\* resolve_review: a new resolution has its job, and no packet carries its key.
LEMMA ResolveKeeps ==
  ASSUME IInv, NEW i \in DOMAIN reviews, NEW outcome \in Outcomes, Resolve(i, outcome)
  PROVE  IInv' /\ Keeps
<1>1. PICK source \in 0..Len(packets), status \in {"not_required", "queued"},
           verdict \in ReviewStates :
        /\ resolutions' = Append(resolutions, [review |-> i, status |-> status, packet |-> 0])
        /\ jobs' = Append(jobs, [status |-> status, attempts |-> 0, lease |-> "none",
                                 source |-> source])
        /\ reviews' = [reviews EXCEPT ![i].status = verdict]
  <2>1. reviews[i] \in ReviewRows /\ reviews[i].packet <= Len(packets)
    BY DEF IInv, Tables, RowsAreTyped, KeysAreBacked
  <2>2. LatestReady \in 0..Len(packets) /\ Len(packets) \in Nat
    BY LatestIsReady DEF IInv, Tables, RowsAreTyped
  <2>3. (IF reviews[i].packet /= 0 THEN reviews[i].packet ELSE LatestReady)
          \in 0..Len(packets)
    BY <2>1, <2>2 DEF ReviewRows
  <2>4. outcome[1] \in ReviewStates /\ outcome[2] \in {"not_required", "queued"}
    BY DEF Outcomes, ReviewStates
  <2> QED BY <2>3, <2>4 DEF Resolve
<1>2. exists /\ UNCHANGED <<exists, queue2Vars, worker, client>>
  BY DEF Resolve
<1> DEFINE resolution == [review |-> i, status |-> status, packet |-> 0]
           job == [status |-> status, attempts |-> 0, lease |-> "none", source |-> source]
<1>3. /\ jobs \in Seq(JobRows) /\ resolutions \in Seq(ResolutionRows)
      /\ reviews \in Seq(ReviewRows) /\ Len(packets) \in Nat /\ i \in Nat
      /\ Len(jobs) = Len(resolutions)
  BY DEF IInv, Tables, RowsAreTyped
<1>4. /\ job \in JobRows /\ job.source = source /\ job.status = status
      /\ resolution \in ResolutionRows /\ resolution.review = i
      /\ resolution.packet = 0 /\ resolution.status = status
  BY <1>3 DEF JobRows, ResolutionRows, JobStates
<1> HIDE DEF job, resolution
<1>5. /\ jobs' \in Seq(JobRows) /\ Len(jobs') = Len(jobs) + 1 /\ Len(jobs) \in Nat
      /\ DOMAIN jobs' = DOMAIN jobs \cup {Len(jobs) + 1} /\ DOMAIN jobs = 1..Len(jobs)
      /\ jobs'[Len(jobs) + 1] = job /\ \A k \in DOMAIN jobs : jobs'[k] = jobs[k]
  BY <1>1, <1>3, <1>4, RowIsAdded DEF job
<1>6. /\ resolutions' \in Seq(ResolutionRows) /\ Len(resolutions') = Len(jobs) + 1
      /\ DOMAIN resolutions' = DOMAIN jobs' /\ DOMAIN resolutions = DOMAIN jobs
      /\ resolutions'[Len(jobs) + 1] = resolution
      /\ \A k \in DOMAIN jobs : resolutions'[k] = resolutions[k]
  <2>1. resolutions' = Append(resolutions, resolution)
    BY <1>1 DEF resolution
  <2>2. /\ resolutions' \in Seq(ResolutionRows) /\ Len(resolutions') = Len(resolutions) + 1
        /\ DOMAIN resolutions' = DOMAIN resolutions \cup {Len(resolutions) + 1}
        /\ DOMAIN resolutions = 1..Len(resolutions)
        /\ resolutions'[Len(resolutions) + 1] = resolution
        /\ \A k \in DOMAIN resolutions : resolutions'[k] = resolutions[k]
    BY <1>3, <1>4, <2>1, RowIsAdded
  <2> QED BY <1>3, <1>5, <2>2
<1>7. /\ reviews' \in Seq(ReviewRows) /\ Len(reviews') = Len(reviews)
      /\ DOMAIN reviews' = DOMAIN reviews
      /\ \A k \in DOMAIN reviews : reviews'[k].packet = reviews[k].packet
  <2>1. /\ reviews' \in Seq(ReviewRows) /\ Len(reviews') = Len(reviews)
        /\ \A k \in DOMAIN reviews : reviews'[k].packet = reviews[k].packet
    BY <1>1, ReviewIsSet DEF IInv
  <2> QED BY <1>3, <2>1
<1>8. RowsAreTyped'
  BY <1>2, <1>3, <1>5, <1>6, <1>7 DEF IInv, Tables, RowsAreTyped, queue2Vars
<1>9. KeysAreBacked'
  <2>1. \A p \in DOMAIN packets : packets[p].key <= Len(jobs) + 1
    <3>1. \A p \in DOMAIN packets : packets[p].key \in Nat
      <4>1. \A p \in DOMAIN packets : packets[p] \in PacketRows
        BY DEF IInv, Tables, RowsAreTyped
      <4> QED BY <4>1 DEF PacketRows
    <3> QED BY <1>3, <1>5, <3>1 DEF IInv, Tables, KeysAreBacked
  <2>2. \A k \in DOMAIN reviews' : reviews'[k].packet <= Len(packets)
    BY <1>7 DEF IInv, Tables, KeysAreBacked
  <2>3. \A k \in DOMAIN resolutions' :
          resolutions'[k].review \in DOMAIN reviews /\ resolutions'[k].packet <= Len(packets)
    BY <1>3, <1>4, <1>5, <1>6 DEF IInv, Tables, KeysAreBacked
  <2>4. \A k \in DOMAIN jobs' : jobs'[k].source <= Len(packets)
    BY <1>1, <1>3, <1>4, <1>5 DEF IInv, Tables, KeysAreBacked
  <2> QED BY <1>2, <1>6, <1>7, <2>1, <2>2, <2>3, <2>4 DEF KeysAreBacked, queue2Vars
<1>10. StatusesAgree'
  BY <1>4, <1>5, <1>6 DEF IInv, Tables, StatusesAgree
<1>11. \A k : ReadyWith(k)' = ReadyWith(k)
  BY <1>2 DEF ReadyWith, Ready, queue2Vars
<1>12. OneReady'
  <2>1. ReadyWith(Len(jobs) + 1) = {}
    BY <1>3, <1>5 DEF ReadyWith, Ready, IInv, Tables, KeysAreBacked
  <2>2. \A k \in DOMAIN resolutions' : \A p, q \in ReadyWith(k) : p = q
    BY <1>5, <1>6, <2>1 DEF IInv, Tables, OneReady
  <2> QED BY <1>11, <2>2 DEF OneReady
<1>13. CompleteIsLinked'
  <2>1. \A k \in DOMAIN resolutions' : resolutions'[k].status = "complete" =>
          resolutions'[k].packet \in ReadyWith(k)
    BY <1>1, <1>4, <1>5, <1>6 DEF IInv, Tables, CompleteIsLinked
  <2> QED BY <1>11, <2>1 DEF CompleteIsLinked
<1>14. Tables'
  BY <1>8, <1>9, <1>10, <1>12, <1>13 DEF Tables
<1>15. Keeps
  BY <1>2, <1>3, <1>5 DEF Keeps, queue2Vars
<1> QED BY <1>2, <1>14, <1>15, TablesMove

\* A lease runs out; no status changes.
LEMMA ExpireKeeps ==
  ASSUME IInv, NEW i \in DOMAIN jobs, ExpireLease(i)
  PROVE  IInv' /\ Keeps
<1> DEFINE job == [jobs[i] EXCEPT !.lease = "expired"]
<1>1. /\ jobs' = [jobs EXCEPT ![i] = job]
      /\ UNCHANGED <<exists, queue2Vars, reviews, resolutions, worker, client>>
  BY DEF ExpireLease
<1>2. /\ jobs \in Seq(JobRows) /\ jobs[i] \in JobRows /\ i \in DOMAIN resolutions
      /\ DOMAIN jobs = DOMAIN resolutions /\ resolutions \in Seq(ResolutionRows)
      /\ exists
  BY DEF IInv, Tables, RowsAreTyped
<1>3. job \in JobRows /\ job.source = jobs[i].source /\ job.status = jobs[i].status
  BY <1>2 DEF JobRows
<1> HIDE DEF job
<1>4. /\ jobs' \in Seq(JobRows) /\ Len(jobs') = Len(jobs) /\ DOMAIN jobs' = DOMAIN jobs
      /\ jobs'[i] = job /\ \A k \in DOMAIN jobs : k /= i => jobs'[k] = jobs[k]
  BY <1>1, <1>2, <1>3, RowIsSet
<1>5. StatusesAgree'
  BY <1>1, <1>3, <1>4 DEF IInv, Tables, StatusesAgree
<1>6. \A k \in DOMAIN jobs : jobs'[k].source = jobs[k].source
  BY <1>3, <1>4
<1>7. \A k \in DOMAIN resolutions :
        /\ resolutions'[k].review = resolutions[k].review
        /\ resolutions'[k].packet <= Len(packets)
        /\ resolutions'[k].status = "complete" => resolutions'[k].packet \in ReadyWith(k)
  BY <1>1 DEF IInv, Tables, KeysAreBacked, CompleteIsLinked
<1>8. Tables' /\ Keeps
  BY <1>1, <1>2, <1>4, <1>5, <1>6, <1>7, ReviewsStay, StatusesChange DEF IInv
<1> QED BY <1>1, <1>8, TablesMove

LEMMA DeleteKeeps ==
  ASSUME IInv, Delete
  PROVE  IInv' /\ Keeps
<1>1. /\ ~exists' /\ exists' \in BOOLEAN /\ packets' = <<>> /\ reviews' = <<>>
      /\ resolutions' = <<>> /\ jobs' = <<>> /\ tailored' = 0
      /\ UNCHANGED <<worker, client>>
  BY DEF Delete
<1>2. Tables'
  BY <1>1 DEF Tables, RowsAreTyped, KeysAreBacked, StatusesAgree, OneReady, CompleteIsLinked
<1>3. Keeps
  BY <1>1 DEF Keeps
<1> QED BY <1>1, <1>2, <1>3, TablesMove

-----------------------------------------------------------------------------
LEMMA InitHolds == Init => IInv
<1> SUFFICES ASSUME Init PROVE IInv
  OBVIOUS
<1>1. Tables
  BY DEF Init, Tables, RowsAreTyped, KeysAreBacked, StatusesAgree, OneReady, CompleteIsLinked
<1>2. \A w \in Workers : worker[w] = Rest
  BY DEF Init
<1>3. \A c \in Clients : client[c] = Silent
  BY DEF Init
<1>4. worker \in [Workers -> WorkerStates]
  BY RestIsTyped DEF Init
<1>5. client \in [Clients -> ClientStates]
  BY <1>1, SilenceFits DEF Init, Asks
<1> QED BY <1>1, <1>2, <1>3, <1>4, <1>5, RestFits, SilenceFits DEF IInv

LEMMA NextKeeps == IInv /\ [Next]_vars => IInv' /\ Keeps
<1> SUFFICES ASSUME IInv, [Next]_vars PROVE IInv' /\ Keeps
  OBVIOUS
<1>1. ASSUME NEW w \in Workers, WorkerStep(w) PROVE IInv' /\ Keeps
  <2>1. CASE RecoverRead(w) \/ ClaimSelect(w)
    <3>1. UNCHANGED <<exists, queue2Vars, reviewVars>>
      BY <2>1 DEF RecoverRead, ClaimSelect
    <3> QED BY <2>1, <3>1, QueueReadsKeep, NothingChanges DEF IInv
  <2>2. CASE Inspect(w) \/ CreatePacketRead(w) \/ Render(w) \/ FailRead(w)
    <3>1. UNCHANGED <<exists, queue2Vars, reviewVars>>
      BY <2>2 DEF Inspect, CreatePacketRead, Render, FailRead
    <3> QED BY <2>2, <3>1, ReadsKeep, NothingChanges DEF IInv
  <2> QED BY <1>1, <2>1, <2>2, RecoverKeeps, ClaimKeeps, CreatePacketKeeps,
             DeliverKeeps, FinishKeeps, FailKeeps DEF WorkerStep
<1>2. ASSUME NEW w \in Workers, Crash(w) PROVE IInv' /\ Keeps
  BY <1>2, DropsKeep, NothingChanges DEF Crash, IInv
<1>3. CASE Queue2Step \/ ScoreIsSaved
  BY <1>3, ReviewStepsKeep, PacketStartKeeps, PacketEndKeeps DEF Queue2Step
<1>4. CASE UNCHANGED vars
  <2>1. Tables' /\ Keeps
    BY <1>4, NothingChanges DEF vars, IInv
  <2> QED BY <1>4, <2>1, TablesMove DEF vars
<1> QED BY <1>1, <1>2, <1>3, <1>4, ClientKeeps, ResolveKeeps, ExpireKeeps, DeleteKeeps
        DEF Next

LEMMA Invariance == Spec => []IInv
BY InitHolds, NextKeeps, PTL DEF Spec

-----------------------------------------------------------------------------
\* Every row keeps its type and refers to rows that exist, whatever workers have
\* read before it is deleted, settled or added to.
THEOREM TypesHold == Spec => []TypeOK
<1>1. IInv => TypeOK
  <2> SUFFICES ASSUME IInv PROVE TypeOK
    OBVIOUS
  <2>1. RowsAreTyped /\ KeysAreBacked /\ Len(packets) \in Nat /\ Len(resolutions) \in Nat
        /\ Len(jobs) \in Nat
    BY DEF IInv, Tables, RowsAreTyped
  <2>2. packets \in Seq([status : PacketStates, key : 0..Len(resolutions)])
    <3>1. \A p \in DOMAIN packets :
            packets[p] \in [status : PacketStates, key : 0..Len(resolutions)]
      <4>1. \A p \in DOMAIN packets : packets[p] \in PacketRows
        BY <2>1 DEF RowsAreTyped
      <4> QED BY <2>1, <4>1 DEF PacketRows, KeysAreBacked
    <3>2. packets \in Seq(PacketRows)
      BY <2>1 DEF RowsAreTyped
    <3> QED BY <3>1, <3>2, RowsAreNarrowed
  <2>3. reviews \in Seq([type : Types, status : ReviewStates, packet : 0..Len(packets)])
    <3>1. \A i \in DOMAIN reviews :
            reviews[i] \in [type : Types, status : ReviewStates, packet : 0..Len(packets)]
      <4>1. \A i \in DOMAIN reviews : reviews[i] \in ReviewRows
        BY <2>1 DEF RowsAreTyped
      <4> QED BY <2>1, <4>1 DEF ReviewRows, KeysAreBacked
    <3>2. reviews \in Seq(ReviewRows)
      BY <2>1 DEF RowsAreTyped
    <3> QED BY <3>1, <3>2, RowsAreNarrowed
  <2>4. resolutions \in Seq([review : DOMAIN reviews, status : JobStates,
                             packet : 0..Len(packets)])
    <3>1. \A i \in DOMAIN resolutions :
            resolutions[i] \in [review : DOMAIN reviews, status : JobStates,
                                packet : 0..Len(packets)]
      <4>1. \A i \in DOMAIN resolutions : resolutions[i] \in ResolutionRows
        BY <2>1 DEF RowsAreTyped
      <4> QED BY <2>1, <4>1 DEF ResolutionRows, KeysAreBacked
    <3>2. resolutions \in Seq(ResolutionRows)
      BY <2>1 DEF RowsAreTyped
    <3> QED BY <3>1, <3>2, RowsAreNarrowed
  <2>5. jobs \in Seq([status : JobStates, attempts : Nat,
                      lease : {"none", "live", "expired"}, source : 0..Len(packets)])
    <3>1. \A i \in DOMAIN jobs :
            jobs[i] \in [status : JobStates, attempts : Nat,
                         lease : {"none", "live", "expired"}, source : 0..Len(packets)]
      <4>1. \A i \in DOMAIN jobs : jobs[i] \in JobRows
        BY <2>1 DEF RowsAreTyped
      <4> QED BY <2>1, <4>1 DEF JobRows, KeysAreBacked
    <3>2. jobs \in Seq(JobRows)
      BY <2>1 DEF RowsAreTyped
    <3> QED BY <3>1, <3>2, RowsAreNarrowed
  <2>6. worker \in [Workers -> WorkerStates] /\ client \in [Clients -> ClientStates]
    BY DEF IInv
  <2>7. ASSUME exists, NEW w \in Workers
        PROVE  /\ JobOf(w) \in 0..Len(jobs) /\ worker[w].packet \in 0..Len(packets)
               /\ worker[w].requeue \cup worker[w].giveUp \subseteq DOMAIN jobs
    <3>1. worker[w] \in WorkerStates /\ Fits(worker[w])
      BY DEF IInv
    <3> QED BY <2>1, <2>7, <3>1 DEF Fits, WorkerStates, JobOf
  <2> QED BY <2>1, <2>2, <2>3, <2>4, <2>5, <2>6, <2>7
          DEF TypeOK, RowsAreTyped, WorkerStates, ClientStates
<1> QED BY <1>1, Invariance, PTL

\* A resolution and its regeneration job show one status, although two workers may
\* claim, fail, complete and recover them on what they read before.
THEOREM ResolutionsShowTheirJobs == Spec => []StatusesAgree
<1>1. IInv => StatusesAgree
  BY DEF IInv, Tables
<1> QED BY <1>1, Invariance, PTL

\* Counting a set that has one element at most.
LEMMA ReadyIsCounted ==
  ASSUME NEW S, \A p, q \in S : p = q
  PROVE  Cardinality(S) = IF S = {} THEN 0 ELSE 1
<1>1. CASE S = {}
  BY <1>1, FS_EmptySet
<1>2. CASE S /= {}
  <2>1. PICK p \in S : S = {p}
    BY <1>2
  <2> QED BY <1>2, <2>1, FS_Singleton
<1> QED BY <1>1, <1>2

\* However many workers regenerate the packet of a resolution, and however often
\* after crashes, one of their packets at most becomes ready.
THEOREM OneRegenerationWins == Spec => []OneReviewedPacket
<1>1. IInv => OneReviewedPacket
  <2> SUFFICES ASSUME IInv, NEW i \in DOMAIN resolutions
               PROVE  Cardinality(ReadyWith(i)) <= 1
    BY DEF OneReviewedPacket
  <2>1. \A p, q \in ReadyWith(i) : p = q
    BY DEF IInv, Tables, OneReady
  <2>2. Cardinality(ReadyWith(i)) = IF ReadyWith(i) = {} THEN 0 ELSE 1
    BY <2>1, ReadyIsCounted
  <2> QED BY <2>2
<1> QED BY <1>1, Invariance, PTL

\* A resolution that says complete is linked to a ready packet that was generated
\* for it.
THEOREM CompletionIsBacked == Spec => []CompleteIsLinked
<1>1. IInv => CompleteIsLinked
  BY DEF IInv, Tables
<1> QED BY <1>1, Invariance, PTL

\* While the job exists no step changes a packet that is ready.
THEOREM ReadyPacketsStand == Spec => ReadyIsPreserved
<1>1. IInv /\ [Next]_vars =>
        [exists' => \A p \in Ready : packets'[p] = packets[p]]_vars
  BY NextKeeps DEF Keeps
<1> QED BY <1>1, Invariance, PTL DEF Spec, ReadyIsPreserved

-----------------------------------------------------------------------------
\* One worker, however it crashes and whenever its leases run out: a second one
\* may settle a row that the first has read but not written.
OneWorker == \A v, w \in Workers : v = w

\* The rows that a worker in state s is to settle are still being processed.
Undisturbed(s) ==
  exists =>
    /\ \A i \in s.requeue \cup s.giveUp : jobs[i].status = "processing"
    /\ s.at \notin {"idle", "recover", "select", "claim"} =>
         jobs[s.job].status = "processing"

Alone == \A w \in Workers : Undisturbed(worker[w])

Final ==
  exists' => \A i \in DOMAIN jobs : jobs[i].status = "complete" => jobs'[i].status = "complete"

\* No status changes but by the worker's own hand.
StatusesStay == exists' => exists /\ \A i \in DOMAIN jobs : jobs'[i].status = jobs[i].status

LEMMA UndisturbedIsKept ==
  ASSUME IInv, StatusesStay, NEW s, Fits(s), Undisturbed(s)
  PROVE  Undisturbed(s)'
BY DEF StatusesStay, Fits, Undisturbed

LEMMA LoneWorkerStays ==
  ASSUME IInv, Alone, UNCHANGED worker, StatusesStay
  PROVE  Alone' /\ Final
<1>1. \A s : Fits(s) /\ Undisturbed(s) => Undisturbed(s)'
  BY UndisturbedIsKept
<1>2. Alone'
  BY <1>1 DEF IInv, Alone, Undisturbed
<1> QED BY <1>2 DEF StatusesStay, Final

LEMMA LoneWorkerMoves ==
  ASSUME OneWorker, IInv, NEW w \in Workers, NEW s, Become(w, s), Undisturbed(s)'
  PROVE  Alone'
<1>1. worker'[w] = s /\ \A v \in Workers : v = w
  BY DEF OneWorker, Become, IInv
<1> QED BY <1>1 DEF Alone, Undisturbed

LEMMA DroppedIsAlone ==
  ASSUME OneWorker, IInv, NEW w \in Workers, Drop(w)
  PROVE  Alone'
BY LoneWorkerMoves DEF Drop, Rest, Undisturbed

\* recover_stale_regeneration_jobs and claim_next_regeneration_job.
LEMMA LoneQueueSteps ==
  ASSUME OneWorker, IInv, Alone, NEW w \in Workers,
         RecoverRead(w) \/ RecoverWrite(w) \/ ClaimSelect(w) \/ ClaimWrite(w)
  PROVE  Alone' /\ Final
<1>0. PICK s \in WorkerStates : s = worker[w] /\ Fits(s) /\ Undisturbed(s)
  BY DEF IInv, Alone
<1>a. /\ s.job \in Nat /\ DOMAIN jobs = 1..Len(jobs) /\ Len(jobs) \in Nat
      /\ \A i \in DOMAIN jobs : jobs[i] \in JobRows
  BY DEF WorkerStates, IInv, Tables, RowsAreTyped
<1>1. CASE RecoverRead(w)
  <2>1. UNCHANGED <<exists, jobs>>
    BY <1>1 DEF RecoverRead, reviewVars
  <2>2. CASE Stale = {}
    <3>1. Become(w, [s EXCEPT !.at = "select"])
      BY <1>0, <1>1, <2>2 DEF RecoverRead, Goto, Become
    <3>2. Undisturbed([s EXCEPT !.at = "select"])'
      BY <1>0, <2>1 DEF Undisturbed, WorkerStates
    <3> QED BY <2>1, <3>1, <3>2, LoneWorkerMoves DEF Final
  <2>3. CASE Stale /= {}
    <3>1. PICK requeue \in SUBSET Stale, giveUp \in SUBSET Stale :
            Become(w, [Rest EXCEPT !.at = "recover", !.requeue = requeue,
                                   !.giveUp = giveUp])
      BY <1>1, <2>3 DEF RecoverRead
    <3>2. Undisturbed([Rest EXCEPT !.at = "recover", !.requeue = requeue,
                                   !.giveUp = giveUp])'
      BY <2>1, <3>1 DEF Undisturbed, Rest, Stale
    <3> QED BY <2>1, <3>1, <3>2, LoneWorkerMoves DEF Final
  <2> QED BY <2>2, <2>3
<1>2. CASE RecoverWrite(w)
  <2>1. CASE exists
    <3> DEFINE rows == s.requeue \cup s.giveUp
               status == [i \in rows |-> IF i \in s.requeue THEN "queued" ELSE "failed"]
    <3>a. Settle(rows, status) /\ Become(w, [Rest EXCEPT !.at = "select"])
      BY <1>0, <1>2, <2>1 DEF RecoverWrite
    <3> HIDE DEF rows, status
    <3>1. \A i \in DOMAIN jobs : i \notin rows => jobs'[i] = jobs[i]
      BY <3>a DEF Settle
    <3>2. Undisturbed([Rest EXCEPT !.at = "select"])'
      BY DEF Undisturbed, Rest
    <3>3. \A i \in rows : jobs[i].status = "processing"
      BY <1>0, <2>1 DEF Undisturbed, rows
    <3> QED BY <3>a, <3>1, <3>2, <3>3, LoneWorkerMoves DEF Final
  <2>2. CASE ~exists
    <3>1. Drop(w) /\ UNCHANGED <<exists, jobs>>
      BY <1>2, <2>2 DEF RecoverWrite
    <3> QED BY <2>2, <3>1, DroppedIsAlone DEF Final
  <2> QED BY <2>1, <2>2
<1>3. CASE ClaimSelect(w)
  <2>1. UNCHANGED <<exists, jobs>>
    <3>1. UNCHANGED <<exists, queue2Vars, reviewVars, client>>
      BY <1>3 DEF ClaimSelect
    <3> QED BY <3>1 DEF reviewVars
  <2>2. CASE Claimable = {}
    BY <1>3, <2>1, <2>2, DroppedIsAlone DEF ClaimSelect, Final
  <2>3. CASE Claimable /= {}
    <3>1. PICK i \in Claimable : Become(w, [Rest EXCEPT !.at = "claim", !.job = i])
      BY <1>3, <2>3 DEF ClaimSelect
    <3>2. Undisturbed([Rest EXCEPT !.at = "claim", !.job = i])'
      BY DEF Undisturbed, Rest
    <3> QED BY <2>1, <3>1, <3>2, LoneWorkerMoves DEF Final
  <2> QED BY <2>2, <2>3
<1>4. CASE ClaimWrite(w)
  <2>0. UNCHANGED exists /\ s.at = "claim"
    BY <1>0, <1>4 DEF ClaimWrite, At
  <2>1. CASE Drop(w) /\ UNCHANGED jobs
    BY <2>0, <2>1, DroppedIsAlone DEF Final
  <2>2. CASE exists /\ Goto(w, "inspect") /\ ~UNCHANGED jobs
    <3>1. s.job \in DOMAIN jobs
      BY <1>0, <2>0, <2>2 DEF Fits
    <3>2. /\ jobs[s.job].status = "queued"
          /\ jobs' = [jobs EXCEPT ![s.job].status = "processing", ![s.job].lease = "live",
                                  ![s.job].attempts = jobs[s.job].attempts + 1]
      BY <1>0, <1>4, <2>2 DEF ClaimWrite, JobOf
    <3>3. /\ jobs'[s.job].status = "processing"
          /\ \A i \in DOMAIN jobs : i /= s.job => jobs'[i] = jobs[i]
      BY <1>a, <3>1, <3>2 DEF JobRows
    <3>4. Become(w, [s EXCEPT !.at = "inspect"])
      BY <1>0, <2>2 DEF Goto, Become
    <3>5. /\ Undisturbed([s EXCEPT !.at = "inspect"])'
      <4>1. \A i \in s.requeue \cup s.giveUp : i \in DOMAIN jobs /\ jobs[i].status = "processing"
        BY <1>0, <2>2 DEF Fits, Undisturbed
      <4> QED BY <3>2, <3>3, <4>1 DEF Undisturbed, WorkerStates
    <3> QED BY <3>2, <3>3, <3>4, <3>5, LoneWorkerMoves DEF Final
  <2>3. CASE exists /\ Goto(w, "inspect") /\ UNCHANGED jobs
    <3>1. jobs[s.job].status = "processing"
      <4>1. jobs[s.job].status = "queued" => jobs' /= jobs
        <5>1. s.job \in DOMAIN jobs
          BY <1>0, <2>0, <2>3 DEF Fits
        <5>2. jobs[s.job].status = "queued" =>
                jobs' = [jobs EXCEPT ![s.job].status = "processing", ![s.job].lease = "live",
                                     ![s.job].attempts = jobs[s.job].attempts + 1]
              \/ Drop(w)
          BY <1>0, <1>4, <2>3 DEF ClaimWrite, JobOf
        <5>3. ~Drop(w)
          BY <2>3 DEF Goto, Drop, Become, Rest, IInv
        <5> QED BY <1>a, <5>1, <5>2, <5>3 DEF JobRows
      <4> QED BY <1>0, <1>4, <2>3, <4>1 DEF ClaimWrite, JobOf, Goto, Drop, Become, Rest, IInv
    <3>2. Become(w, [s EXCEPT !.at = "inspect"])
      BY <1>0, <2>3 DEF Goto, Become
    <3>3. Undisturbed([s EXCEPT !.at = "inspect"])'
      BY <1>0, <2>3, <3>1 DEF Undisturbed, WorkerStates
    <3> QED BY <2>3, <3>2, <3>3, LoneWorkerMoves DEF Final
  <2> QED BY <1>4, <2>1, <2>2, <2>3 DEF ClaimWrite
<1> QED BY <1>1, <1>2, <1>3, <1>4

\* _process up to the two writes that settle the job: the job is not touched.
LEMMA LoneWorkSteps ==
  ASSUME OneWorker, IInv, Alone, NEW w \in Workers,
         \/ Inspect(w) \/ CreatePacketRead(w) \/ CreatePacketWrite(w)
         \/ Render(w) \/ Deliver(w) \/ FailRead(w)
  PROVE  Alone' /\ Final
<1>0. PICK s \in WorkerStates : s = worker[w] /\ Fits(s) /\ Undisturbed(s)
  BY DEF IInv, Alone
<1>1. UNCHANGED <<exists, jobs>> /\ s.at \notin {"idle", "recover", "select", "claim"}
  BY <1>0 DEF Inspect, CreatePacketRead, CreatePacketWrite, Render, Deliver, FailRead,
              At, reviewVars
<1>2. Final
  BY <1>1 DEF Final
<1>3. CASE Drop(w)
  BY <1>2, <1>3, DroppedIsAlone
<1>4. ASSUME NEW at, NEW packet, NEW retry,
             Become(w, [s EXCEPT !.at = at, !.packet = packet, !.retry = retry])
      PROVE  Alone'
  <2>1. Undisturbed([s EXCEPT !.at = at, !.packet = packet, !.retry = retry])'
    BY <1>0, <1>1 DEF Undisturbed, WorkerStates
  <2> QED BY <1>4, <2>1, LoneWorkerMoves
<1>5. ASSUME NEW at, Goto(w, at) PROVE Alone'
  <2>1. Become(w, [s EXCEPT !.at = at, !.packet = s.packet, !.retry = s.retry])
    BY <1>0, <1>5 DEF Goto, Become, WorkerStates
  <2> QED BY <1>4, <2>1
<1>6. ASSUME NEW at, NEW packet,
             worker' = [worker EXCEPT ![w].at = at, ![w].packet = packet]
      PROVE  Alone'
  <2>1. Become(w, [s EXCEPT !.at = at, !.packet = packet, !.retry = s.retry])
    BY <1>0, <1>6 DEF Become, WorkerStates
  <2> QED BY <1>4, <2>1
<1>7. ASSUME NEW at, NEW retry,
             worker' = [worker EXCEPT ![w].at = at, ![w].retry = retry]
      PROVE  Alone'
  <2>1. Become(w, [s EXCEPT !.at = at, !.packet = s.packet, !.retry = retry])
    BY <1>0, <1>7 DEF Become, WorkerStates
  <2> QED BY <1>4, <2>1
<1>8. CASE Inspect(w)
  BY <1>2, <1>3, <1>5, <1>6, <1>7, <1>8 DEF Inspect, Refuse
<1>9. CASE CreatePacketRead(w) \/ CreatePacketWrite(w)
  BY <1>2, <1>3, <1>5, <1>6, <1>9 DEF CreatePacketRead, CreatePacketWrite
<1>10. CASE Render(w) \/ Deliver(w)
  BY <1>2, <1>3, <1>5, <1>7, <1>10 DEF Render, Deliver, Refuse
<1>11. CASE FailRead(w)
  BY <1>2, <1>3, <1>7, <1>11 DEF FailRead
<1> QED BY <1>2, <1>8, <1>9, <1>10, <1>11

\* complete_regeneration_job and fail_regeneration_job write by id, whatever the
\* status is by then: it is still 'processing'.
LEMMA LoneSettlingSteps ==
  ASSUME OneWorker, IInv, Alone, NEW w \in Workers, Finish(w) \/ FailWrite(w)
  PROVE  Alone' /\ Final
<1>0. PICK s \in WorkerStates : s = worker[w] /\ Fits(s) /\ Undisturbed(s)
  BY DEF IInv, Alone
<1>1. Drop(w) /\ UNCHANGED exists /\ s.at \in {"finish", "failing"}
  BY <1>0 DEF Finish, FailWrite, At
<1>2. ASSUME exists
      PROVE  \A i \in DOMAIN jobs : i /= s.job => jobs'[i] = jobs[i]
  <2>1. CASE Finish(w)
    BY <1>0, <1>2, <2>1 DEF Finish, JobOf
  <2>2. CASE FailWrite(w)
    <3>1. PICK status : Settle({s.job}, status)
      BY <1>0, <1>2, <2>2 DEF FailWrite, JobOf
    <3> QED BY <3>1 DEF Settle
  <2> QED BY <2>1, <2>2
<1>3. exists => jobs[s.job].status = "processing"
  BY <1>0, <1>1 DEF Undisturbed
<1> QED BY <1>1, <1>2, <1>3, DroppedIsAlone DEF Final

LEMMA LoneStep == OneWorker /\ IInv /\ Alone /\ [Next]_vars => Alone' /\ Final
<1> SUFFICES ASSUME OneWorker, IInv, Alone, [Next]_vars PROVE Alone' /\ Final
  OBVIOUS
<1>1. ASSUME NEW w \in Workers, WorkerStep(w) PROVE Alone' /\ Final
  BY <1>1, LoneQueueSteps, LoneWorkSteps, LoneSettlingSteps DEF WorkerStep
<1>2. ASSUME NEW w \in Workers, Crash(w) PROVE Alone' /\ Final
  BY <1>2, DroppedIsAlone DEF Crash, Final, reviewVars
<1>3. ASSUME NEW i \in DOMAIN reviews, NEW outcome \in Outcomes, Resolve(i, outcome)
      PROVE  Alone' /\ Final
  <2>1. StatusesStay /\ UNCHANGED worker
    BY <1>3 DEF Resolve, StatusesStay, IInv, Tables, RowsAreTyped
  <2> QED BY <2>1, LoneWorkerStays
<1>4. ASSUME NEW i \in DOMAIN jobs, ExpireLease(i) PROVE Alone' /\ Final
  <2>1. jobs \in Seq(JobRows) /\ jobs[i] \in JobRows
    BY DEF IInv, Tables, RowsAreTyped
  <2>2. StatusesStay /\ UNCHANGED worker
    BY <1>4, <2>1 DEF ExpireLease, StatusesStay, JobRows
  <2> QED BY <2>2, LoneWorkerStays
<1>5. ASSUME UNCHANGED <<exists, jobs, worker>> PROVE Alone' /\ Final
  BY <1>5, LoneWorkerStays DEF StatusesStay
<1>6. CASE Queue2Step \/ ScoreIsSaved \/ (\E c \in Clients : ClientStep(c)) \/ UNCHANGED vars
  BY <1>5, <1>6 DEF Queue2Step, PacketStarts, DecisionIsSaved, PacketEnds, ScoreIsSaved,
                    ClientStep, CreateRead, CreateWrite, reviewVars, vars
<1>7. CASE Delete
  BY <1>7, LoneWorkerStays DEF Delete, StatusesStay
<1> QED BY <1>1, <1>2, <1>3, <1>4, <1>6, <1>7 DEF Next

-----------------------------------------------------------------------------
\* The lifecycle.  A step is seen in the requests whose row it writes, or whose
\* packet it makes ready.

LEMMA DeliveredIs ==
  ASSUME IInv, NEW i \in DOMAIN jobs
  PROVE  Request(i).delivered = IF ReadyWith(i) = {} THEN 0 ELSE 1
<1>1. i \in DOMAIN resolutions
  BY DEF IInv, Tables, RowsAreTyped
<1>2. \A p, q \in ReadyWith(i) : p = q
  BY <1>1 DEF IInv, Tables, OneReady
<1>3. Cardinality(ReadyWith(i)) = IF ReadyWith(i) = {} THEN 0 ELSE 1
  BY <1>2, ReadyIsCounted
<1> QED BY <1>3 DEF Request

\* A request that no step writes, and whose packets stay as they are.
Undisputed(i) ==
  /\ jobs'[i].status = jobs[i].status
  /\ resolutions'[i].packet = resolutions[i].packet
  /\ ReadyWith(i)' = ReadyWith(i)

LEMMA RequestsStay ==
  ASSUME DOMAIN jobs' = DOMAIN jobs, \A i \in DOMAIN jobs : Undisputed(i)
  PROVE  UNCHANGED Requests
<1>1. \A i \in DOMAIN jobs : Request(i)' = Request(i)
  BY DEF Undisputed, Request
<1> QED BY <1>1 DEF Requests

LEMMA OneRequestMoves ==
  ASSUME NEW k \in DOMAIN jobs, DOMAIN jobs' = DOMAIN jobs,
         \A i \in DOMAIN jobs \ {k} : Undisputed(i)
  PROVE  Requests' = [Requests EXCEPT ![k] = Request(k)']
<1>1. \A i \in DOMAIN jobs \ {k} : Request(i)' = Request(i)
  BY DEF Undisputed, Request
<1> QED BY <1>1 DEF Requests

LEMMA PacketsStay ==
  ASSUME UNCHANGED packets
  PROVE  \A key : ReadyWith(key)' = ReadyWith(key)
BY DEF ReadyWith, Ready

\* A packet that begins, or one of Queue 2 that ends, is none of a resolution.
LEMMA UnreadyIsAdded ==
  ASSUME IInv, NEW e, e.status /= "ready", packets' = Append(packets, e)
  PROVE  \A key : ReadyWith(key)' = ReadyWith(key)
<1>1. packets \in Seq(PacketRows)
  BY DEF IInv, Tables, RowsAreTyped
<1>2. /\ Len(packets) \in Nat /\ DOMAIN packets = 1..Len(packets)
      /\ DOMAIN packets' = DOMAIN packets \cup {Len(packets) + 1}
      /\ packets'[Len(packets) + 1] = e
      /\ \A p \in DOMAIN packets : packets'[p] = packets[p]
  BY <1>1
<1>3. Ready' = Ready /\ \A p \in Ready : packets'[p] = packets[p]
  BY <1>2 DEF Ready
<1> QED BY <1>3 DEF ReadyWith

LEMMA Queue2Stays ==
  ASSUME IInv, NEW p \in DOMAIN packets, packets[p].key = 0, NEW status \in PacketStates,
         packets' = [packets EXCEPT ![p].status = status]
  PROVE  \A i \in DOMAIN jobs : ReadyWith(i)' = ReadyWith(i)
<1> DEFINE row == [packets[p] EXCEPT !.status = status]
<1>1. packets \in Seq(PacketRows) /\ packets[p] \in PacketRows /\ jobs \in Seq(JobRows)
  BY DEF IInv, Tables, RowsAreTyped
<1>2. row \in PacketRows /\ row.key = 0
  BY <1>1 DEF PacketRows
<1> HIDE DEF row
<1>3. /\ packets' = [packets EXCEPT ![p] = row] /\ DOMAIN packets' = DOMAIN packets
      /\ packets'[p] = row /\ \A q \in DOMAIN packets : q /= p => packets'[q] = packets[q]
  BY <1>1, <1>2, RowIsSet DEF row
<1>4. \A i \in DOMAIN jobs : i /= 0
  BY <1>1
<1> QED BY <1>2, <1>3, <1>4 DEF ReadyWith, Ready

LEMMA InitialRequests == Init => Lifecycle!Init
BY DEF Init, Lifecycle!Init, Requests

LEMMA TablesAre ==
  ASSUME IInv
  PROVE  /\ jobs \in Seq(JobRows) /\ resolutions \in Seq(ResolutionRows)
         /\ packets \in Seq(PacketRows) /\ DOMAIN jobs = DOMAIN resolutions
         /\ DOMAIN jobs = 1..Len(jobs) /\ Len(jobs) \in Nat /\ Len(resolutions) = Len(jobs)
         /\ \A i \in DOMAIN jobs : jobs[i] \in JobRows /\ resolutions[i] \in ResolutionRows
BY DEF IInv, Tables, RowsAreTyped

-----------------------------------------------------------------------------
\* The steps that move a request.

\* fail_regeneration_job and the recovery settle rows that are processing.
LEMMA SettleInterrupts ==
  ASSUME IInv, UNCHANGED packets, NEW rows \in SUBSET DOMAIN jobs,
         NEW status \in [rows -> {"queued", "failed"}], Settle(rows, status),
         \A i \in rows : jobs[i].status = "processing"
  PROVE  Lifecycle!Interrupt
<1>1. DOMAIN jobs = DOMAIN resolutions
      /\ \A i \in DOMAIN jobs : jobs[i] \in JobRows /\ resolutions[i] \in ResolutionRows
  BY TablesAre
<1>2. DOMAIN jobs' = DOMAIN jobs
  BY DEF Settle
<1>3. \A i \in DOMAIN jobs :
        /\ jobs'[i].status = IF i \in rows THEN status[i] ELSE jobs[i].status
        /\ resolutions'[i].packet = resolutions[i].packet
  BY <1>1 DEF Settle, JobRows, ResolutionRows
<1>4. \A i \in DOMAIN jobs : ReadyWith(i)' = ReadyWith(i)
  BY PacketsStay
<1>5. \A i \in DOMAIN jobs :
        Request(i)' = IF i \in rows THEN [Request(i) EXCEPT !.status = status[i]]
                      ELSE Request(i)
  BY <1>3, <1>4 DEF Request
<1>6. Requests' = [i \in DOMAIN Requests |->
                     IF i \in rows THEN [Requests[i] EXCEPT !.status = status[i]]
                     ELSE Requests[i]]
  BY <1>2, <1>5 DEF Requests
<1>7. rows \in SUBSET Lifecycle!Underway
  BY DEF Lifecycle!Underway, Requests, Request
<1> QED BY <1>6, <1>7 DEF Lifecycle!Interrupt

LEMMA RecoverImplements ==
  ASSUME IInv, NEW w \in Workers, Undisturbed(worker[w]), RecoverWrite(w)
  PROVE  Lifecycle!Next \/ UNCHANGED Requests
<1>0. PICK s \in WorkerStates : s = worker[w] /\ Fits(s) /\ Undisturbed(s)
  BY DEF IInv
<1>1. UNCHANGED packets
  BY DEF RecoverWrite, queue2Vars
<1>2. CASE exists
  <2> DEFINE rows   == s.requeue \cup s.giveUp
             status == [i \in rows |-> IF i \in s.requeue THEN "queued" ELSE "failed"]
  <2>1. Settle(rows, status)
    BY <1>0, <1>2 DEF RecoverWrite
  <2>2. rows \in SUBSET DOMAIN jobs /\ \A i \in rows : jobs[i].status = "processing"
    BY <1>0, <1>2 DEF Fits, Undisturbed
  <2>3. status \in [rows -> {"queued", "failed"}]
    OBVIOUS
  <2> HIDE DEF rows, status
  <2> QED BY <1>1, <2>1, <2>2, <2>3, SettleInterrupts DEF Lifecycle!Next
<1>3. CASE ~exists
  <2>1. UNCHANGED <<resolutions, jobs>>
    BY <1>3 DEF RecoverWrite
  <2> QED BY <1>1, <2>1, PacketsStay, RequestsStay DEF Undisputed
<1> QED BY <1>2, <1>3

LEMMA FailImplements ==
  ASSUME IInv, NEW w \in Workers, Undisturbed(worker[w]), FailWrite(w)
  PROVE  Lifecycle!Next \/ UNCHANGED Requests
<1>0. PICK s \in WorkerStates : s = worker[w] /\ Fits(s) /\ Undisturbed(s)
  BY DEF IInv
<1>1. UNCHANGED packets /\ s.at = "failing"
  BY <1>0 DEF FailWrite, queue2Vars, At
<1>2. CASE exists
  <2> DEFINE status == [k \in {s.job} |-> IF s.retry THEN "queued" ELSE "failed"]
  <2>1. Settle({s.job}, status)
    BY <1>0, <1>2 DEF FailWrite, JobOf
  <2>2. s.job \in DOMAIN jobs /\ jobs[s.job].status = "processing"
    BY <1>0, <1>1, <1>2 DEF Fits, Undisturbed
  <2>3. status \in [{s.job} -> {"queued", "failed"}]
    OBVIOUS
  <2> HIDE DEF status
  <2>4. {s.job} \in SUBSET DOMAIN jobs /\ \A i \in {s.job} : jobs[i].status = "processing"
    BY <2>2
  <2> QED BY <1>1, <2>1, <2>3, <2>4, SettleInterrupts DEF Lifecycle!Next
<1>3. CASE ~exists
  <2>1. UNCHANGED <<resolutions, jobs>>
    BY <1>3 DEF FailWrite, reviewVars
  <2> QED BY <1>1, <2>1, PacketsStay, RequestsStay DEF Undisputed
<1> QED BY <1>2, <1>3

\* claim_next_regeneration_job: one that finds the row processing changes nothing.
LEMMA ClaimImplements ==
  ASSUME IInv, NEW w \in Workers, ClaimWrite(w)
  PROVE  Lifecycle!Next \/ UNCHANGED Requests
<1>0. PICK s \in WorkerStates : s = worker[w] /\ Fits(s)
  BY DEF IInv
<1>1. UNCHANGED packets /\ s.at = "claim"
  BY <1>0 DEF ClaimWrite, queue2Vars, At
<1>2. CASE UNCHANGED <<jobs, resolutions>>
  BY <1>1, <1>2, PacketsStay, RequestsStay DEF Undisputed
<1>3. CASE ~UNCHANGED <<jobs, resolutions>>
  <2>1. /\ exists /\ jobs[s.job].status = "queued"
        /\ jobs' = [jobs EXCEPT ![s.job].status = "processing", ![s.job].lease = "live",
                                ![s.job].attempts = jobs[s.job].attempts + 1]
        /\ resolutions' = [resolutions EXCEPT ![s.job].status = "processing"]
    BY <1>0, <1>3 DEF ClaimWrite, JobOf
  <2>2. s.job \in DOMAIN jobs
    BY <1>0, <1>1, <2>1 DEF Fits
  <2>3. /\ DOMAIN jobs' = DOMAIN jobs /\ jobs'[s.job].status = "processing"
        /\ \A i \in DOMAIN jobs \ {s.job} : jobs'[i] = jobs[i]
        /\ \A i \in DOMAIN jobs : resolutions'[i].packet = resolutions[i].packet
    <3>1. jobs[s.job] \in JobRows /\ DOMAIN jobs = DOMAIN resolutions
          /\ \A i \in DOMAIN jobs : resolutions[i] \in ResolutionRows
      BY <2>2, TablesAre
    <3> QED BY <2>1, <2>2, <3>1 DEF JobRows, ResolutionRows
  <2>4. \A i \in DOMAIN jobs : ReadyWith(i)' = ReadyWith(i)
    BY <1>1, PacketsStay
  <2>5. Requests' = [Requests EXCEPT ![s.job] = Request(s.job)']
    BY <2>2, <2>3, <2>4, OneRequestMoves DEF Undisputed
  <2>6. Request(s.job)' = [Request(s.job) EXCEPT !.status = "processing"]
    BY <2>2, <2>3, <2>4 DEF Request
  <2>7. Requests' = [Requests EXCEPT ![s.job].status = "processing"]
    BY <2>2, <2>5, <2>6 DEF Requests
  <2>8. s.job \in DOMAIN Requests /\ Requests[s.job].status = "queued"
    BY <2>1, <2>2 DEF Requests, Request
  <2> QED BY <2>7, <2>8 DEF Lifecycle!Next, Lifecycle!Begin
<1> QED BY <1>2, <1>3

\* complete_review_packet_attempt delivers for a row that is processing, and a
\* resolution that is not complete has no link that could become one to this packet.
Unlinked == \A i \in DOMAIN resolutions :
              resolutions[i].status /= "complete" => resolutions[i].packet = 0

LEMMA DeliverImplements ==
  ASSUME IInv, Unlinked, NEW w \in Workers, Undisturbed(worker[w]), Deliver(w)
  PROVE  Lifecycle!Next \/ UNCHANGED Requests
<1>0. PICK s \in WorkerStates :
        s = worker[w] /\ Fits(s) /\ Undisturbed(s) /\ s.at = "deliver"
  BY DEF IInv, Deliver, At
<1>1. UNCHANGED <<jobs, resolutions>>
  BY DEF Deliver, reviewVars
<1>2. CASE UNCHANGED packets
  BY <1>1, <1>2, PacketsStay, RequestsStay DEF Undisputed
<1>3. CASE ~UNCHANGED packets
  <2>1. /\ exists /\ ReadyWith(s.job) = {}
        /\ packets' = [packets EXCEPT ![s.packet].status = "ready"]
    BY <1>0, <1>3 DEF Deliver, JobOf
  <2>2. /\ s.packet \in DOMAIN packets /\ packets[s.packet].key = s.job
        /\ s.job \in DOMAIN jobs /\ jobs[s.job].status = "processing"
    BY <1>0, <2>1 DEF Fits, Undisturbed
  <2>3. packets \in Seq(PacketRows) /\ packets[s.packet] \in PacketRows
    BY <2>2, TablesAre
  <2> DEFINE row == [packets[s.packet] EXCEPT !.status = "ready"]
  <2>4. row \in PacketRows /\ row.status = "ready" /\ row.key = s.job
    BY <2>2, <2>3 DEF PacketRows, PacketStates
  <2>5. packets' = [packets EXCEPT ![s.packet] = row]
    BY <2>1
  <2> HIDE DEF row
  <2>6. /\ DOMAIN packets' = DOMAIN packets /\ packets'[s.packet] = row
        /\ \A p \in DOMAIN packets : p /= s.packet => packets'[p] = packets[p]
    BY <2>2, <2>3, <2>4, <2>5, RowIsSet
  <2>7. ReadyWith(s.job)' = {s.packet}
    BY <2>1, <2>2, <2>4, <2>6 DEF ReadyWith, Ready
  <2>8. \A i \in DOMAIN jobs \ {s.job} : ReadyWith(i)' = ReadyWith(i)
    BY <2>2, <2>4, <2>6 DEF ReadyWith, Ready
  <2>9. Requests' = [Requests EXCEPT ![s.job] = Request(s.job)']
    BY <1>1, <2>2, <2>8, OneRequestMoves DEF Undisputed
  <2>10. resolutions[s.job].packet /= s.packet
    <3>1. s.job \in DOMAIN resolutions /\ resolutions[s.job].status = "processing"
      BY <2>2, TablesAre DEF IInv, Tables, StatusesAgree
    <3>2. s.packet /= 0
      BY <2>2, <2>3
    <3> QED BY <3>1, <3>2 DEF Unlinked
  <2>11. Request(s.job).delivered = 0 /\ Request(s.job).link = "none"
    BY <2>1, <2>2, DeliveredIs DEF Request
  <2>12. Cardinality({s.packet}) = 1
    BY FS_Singleton
  <2>13. Request(s.job)' = [status |-> jobs[s.job].status, delivered |-> 1, link |-> "none"]
    <3>1. resolutions'[s.job].packet \notin ReadyWith(s.job)'
      BY <1>1, <2>7, <2>10
    <3>2. jobs'[s.job].status = jobs[s.job].status /\ Cardinality(ReadyWith(s.job)') = 1
      BY <1>1, <2>7, <2>12
    <3> QED BY <3>1, <3>2 DEF Request
  <2>14. Request(s.job)' = [Request(s.job) EXCEPT !.delivered = 1]
    <3>1. Request(s.job) = [status |-> jobs[s.job].status, delivered |-> 0, link |-> "none"]
      BY <2>1, <2>11 DEF Request
    <3> QED BY <2>13, <3>1
  <2>15. Requests' = [Requests EXCEPT ![s.job].delivered = 1]
    BY <2>2, <2>9, <2>14 DEF Requests
  <2>16. /\ s.job \in DOMAIN Requests /\ Requests[s.job].status = "processing"
         /\ Requests[s.job].delivered = 0
    BY <2>2, <2>11 DEF Requests, Request
  <2> QED BY <2>15, <2>16 DEF Lifecycle!Next, Lifecycle!Deliver
<1> QED BY <1>2, <1>3

\* complete_regeneration_job links the packet that is ready.
LEMMA FinishImplements ==
  ASSUME IInv, NEW w \in Workers, Undisturbed(worker[w]), Finish(w)
  PROVE  Lifecycle!Next \/ UNCHANGED Requests
<1>0. PICK s \in WorkerStates :
        s = worker[w] /\ Fits(s) /\ Undisturbed(s) /\ s.at = "finish"
  BY DEF IInv, Finish, At
<1>1. UNCHANGED packets
  BY DEF Finish, queue2Vars
<1>2. CASE ~exists
  <2>1. UNCHANGED <<resolutions, jobs>>
    BY <1>2 DEF Finish, reviewVars
  <2> QED BY <1>1, <2>1, PacketsStay, RequestsStay DEF Undisputed
<1>3. CASE exists
  <2>1. /\ jobs' = [jobs EXCEPT ![s.job].status = "complete", ![s.job].lease = "none"]
        /\ resolutions' = [resolutions EXCEPT ![s.job].status = "complete",
                                              ![s.job].packet = s.packet]
    BY <1>0, <1>3 DEF Finish, JobOf
  <2>2. /\ s.job \in DOMAIN jobs /\ jobs[s.job].status = "processing"
        /\ s.packet \in ReadyWith(s.job)
    BY <1>0, <1>3 DEF Fits, Undisturbed
  <2>3. /\ DOMAIN jobs' = DOMAIN jobs /\ jobs'[s.job].status = "complete"
        /\ resolutions'[s.job].packet = s.packet
        /\ \A i \in DOMAIN jobs \ {s.job} :
             jobs'[i] = jobs[i] /\ resolutions'[i] = resolutions[i]
    <3>1. /\ jobs[s.job] \in JobRows /\ resolutions[s.job] \in ResolutionRows
          /\ DOMAIN jobs = DOMAIN resolutions
      BY <2>2, TablesAre
    <3> QED BY <2>1, <2>2, <3>1 DEF JobRows, ResolutionRows
  <2>4. \A i \in DOMAIN jobs : ReadyWith(i)' = ReadyWith(i)
    BY <1>1, PacketsStay
  <2>5. Requests' = [Requests EXCEPT ![s.job] = Request(s.job)']
    BY <2>2, <2>3, <2>4, OneRequestMoves DEF Undisputed
  <2>6. Request(s.job).delivered = 1
    BY <2>2, DeliveredIs
  <2>7. Request(s.job)' = [status |-> "complete", delivered |-> 1, link |-> "delivered"]
    <3>1. resolutions'[s.job].packet \in ReadyWith(s.job)'
      BY <2>2, <2>3, <2>4
    <3>2. Cardinality(ReadyWith(s.job)') = 1
      BY <2>2, <2>4, <2>6 DEF Request
    <3> QED BY <2>3, <3>1, <3>2 DEF Request
  <2>8. /\ s.job \in DOMAIN Requests /\ Requests[s.job].status = "processing"
        /\ Requests[s.job].delivered = 1
    BY <2>2, <2>6 DEF Requests, Request
  <2> QED BY <2>5, <2>7, <2>8 DEF Lifecycle!Next, Lifecycle!Complete
<1> QED BY <1>2, <1>3

\* resolve_review: no packet carries the key of a resolution that is not there yet.
LEMMA ResolveImplements ==
  ASSUME IInv, NEW i \in DOMAIN reviews, NEW outcome \in Outcomes, Resolve(i, outcome)
  PROVE  Lifecycle!Next
<1>1. /\ jobs \in Seq(JobRows) /\ resolutions \in Seq(ResolutionRows)
      /\ DOMAIN jobs = 1..Len(jobs) /\ Len(jobs) \in Nat /\ Len(resolutions) = Len(jobs)
  BY TablesAre
<1>0. PICK new \in Nat : new = Len(jobs) + 1
  BY <1>1
<1>2. PICK source : jobs' = Append(jobs, [status |-> outcome[2], attempts |-> 0,
                                          lease |-> "none", source |-> source])
  BY DEF Resolve
<1>3. /\ resolutions' = Append(resolutions,
                          [review |-> i, status |-> outcome[2], packet |-> 0])
      /\ UNCHANGED packets
  BY DEF Resolve, queue2Vars
<1>4. /\ DOMAIN jobs' = DOMAIN jobs \cup {new} /\ jobs'[new].status = outcome[2]
      /\ resolutions'[new].packet = 0
      /\ \A k \in DOMAIN jobs : jobs'[k] = jobs[k] /\ resolutions'[k] = resolutions[k]
  BY <1>0, <1>1, <1>2, <1>3
<1>5. \A key : ReadyWith(key)' = ReadyWith(key)
  BY <1>3, PacketsStay
<1>6. ReadyWith(new) = {}
  <2>1. \A p \in DOMAIN packets : packets[p].key <= Len(jobs) /\ packets[p].key \in Nat
    <3>1. \A p \in DOMAIN packets : packets[p] \in PacketRows
      BY TablesAre
    <3> QED BY <1>1, <3>1 DEF IInv, Tables, KeysAreBacked, PacketRows
  <2> QED BY <1>0, <1>1, <2>1 DEF ReadyWith, Ready
<1>7. \A k \in DOMAIN jobs : Request(k)' = Request(k)
  BY <1>4, <1>5 DEF Request
<1>8. Request(new)' = [status |-> outcome[2], delivered |-> 0, link |-> "none"]
  <2>1. ReadyWith(new)' = {} /\ Cardinality({}) = 0
    BY <1>5, <1>6, FS_EmptySet
  <2> QED BY <1>4, <2>1 DEF Request
<1>9. /\ Requests \in Seq({Request(k) : k \in DOMAIN jobs}) /\ Len(Requests) = Len(jobs)
  BY <1>1 DEF Requests
<1>10. Requests' = [k \in 1..new |-> IF k = new THEN Request(new)' ELSE Requests[k]]
  <2>1. DOMAIN jobs' = 1..new /\ \A k \in 1..new : k = new \/ k \in DOMAIN jobs
    BY <1>0, <1>1, <1>4
  <2>2. \A k \in 1..new : Request(k)' = IF k = new THEN Request(new)' ELSE Requests[k]
    BY <1>7, <2>1 DEF Requests
  <2> QED BY <2>1, <2>2 DEF Requests
<1>11. Requests' = Append(Requests, Request(new)')
  BY <1>0, <1>1, <1>9, <1>10
<1>12. outcome[2] \in {"not_required", "queued"}
  BY DEF Outcomes
<1> QED BY <1>8, <1>11, <1>12 DEF Lifecycle!Next, Lifecycle!Ask

\* The requests end with the job.
LEMMA DeleteImplements ==
  ASSUME Delete
  PROVE  Lifecycle!Next
<1>1. jobs' = <<>> /\ DOMAIN <<>> = {}
  BY DEF Delete
<1>2. Requests' = <<>>
  BY <1>1 DEF Requests
<1> QED BY <1>2 DEF Lifecycle!Next, Lifecycle!Remove

-----------------------------------------------------------------------------
\* The steps that move none.

LEMMA RowsStay ==
  ASSUME UNCHANGED <<jobs, resolutions>>,
         \A i \in DOMAIN jobs : ReadyWith(i)' = ReadyWith(i)
  PROVE  UNCHANGED Requests
BY RequestsStay DEF Undisputed

LEMMA WorkerReadsStay ==
  ASSUME NEW w \in Workers,
         \/ RecoverRead(w) \/ ClaimSelect(w) \/ Inspect(w) \/ CreatePacketRead(w)
         \/ Render(w) \/ FailRead(w) \/ Crash(w)
  PROVE  UNCHANGED Requests
<1>1. UNCHANGED <<packets, jobs, resolutions>>
  BY DEF RecoverRead, ClaimSelect, Inspect, CreatePacketRead, Render, FailRead, Crash,
         queue2Vars, reviewVars
<1> QED BY <1>1, PacketsStay, RowsStay

LEMMA PacketIsBegun ==
  ASSUME IInv, NEW w \in Workers, CreatePacketWrite(w)
  PROVE  UNCHANGED Requests
<1>1. UNCHANGED <<jobs, resolutions>>
  BY DEF CreatePacketWrite, reviewVars
<1>2. CASE UNCHANGED packets
  BY <1>1, <1>2, PacketsStay, RowsStay
<1>3. CASE ~UNCHANGED packets
  <2> DEFINE row == [status |-> "generating", key |-> JobOf(w)]
  <2>1. packets' = Append(packets, row) /\ row.status /= "ready"
    BY <1>3 DEF CreatePacketWrite
  <2> HIDE DEF row
  <2>2. \A key : ReadyWith(key)' = ReadyWith(key)
    BY <2>1, UnreadyIsAdded
  <2> QED BY <1>1, <2>2, RowsStay
<1> QED BY <1>2, <1>3

LEMMA OthersStay ==
  ASSUME IInv, \/ Queue2Step \/ ScoreIsSaved \/ (\E c \in Clients : ClientStep(c))
               \/ UNCHANGED vars
  PROVE  UNCHANGED Requests
<1>1. UNCHANGED <<jobs, resolutions>>
  BY DEF Queue2Step, PacketStarts, DecisionIsSaved, PacketEnds, ScoreIsSaved,
         ClientStep, CreateRead, CreateWrite, reviewVars, vars
<1>2. CASE UNCHANGED packets
  BY <1>1, <1>2, PacketsStay, RowsStay
<1>3. CASE PacketStarts
  <2> DEFINE row == [status |-> "generating", key |-> 0]
  <2>1. packets' = Append(packets, row) /\ row.status /= "ready"
    BY <1>3 DEF PacketStarts
  <2> HIDE DEF row
  <2>2. \A key : ReadyWith(key)' = ReadyWith(key)
    BY <2>1, UnreadyIsAdded
  <2> QED BY <1>1, <2>2, RowsStay
<1>4. ASSUME NEW p \in DOMAIN packets, NEW status \in {"ready", "failed"},
             PacketEnds(p, status)
      PROVE  UNCHANGED Requests
  <2>1. /\ packets[p].key = 0 /\ status \in PacketStates
        /\ packets' = [packets EXCEPT ![p].status = status]
    BY <1>4 DEF PacketEnds, InGeneration, PacketStates
  <2>2. \A i \in DOMAIN jobs : ReadyWith(i)' = ReadyWith(i)
    BY <2>1, Queue2Stays
  <2> QED BY <1>1, <2>2, RowsStay
<1>5. UNCHANGED packets \/ PacketStarts
      \/ \E p \in DOMAIN packets : \E status \in {"ready", "failed"} : PacketEnds(p, status)
  BY DEF Queue2Step, DecisionIsSaved, ScoreIsSaved, ClientStep, CreateRead, CreateWrite,
         queue2Vars, vars
<1> QED BY <1>2, <1>3, <1>4, <1>5

LEMMA ExpiryStays ==
  ASSUME IInv, NEW i \in DOMAIN jobs, ExpireLease(i)
  PROVE  UNCHANGED Requests
<1>1. jobs \in Seq(JobRows) /\ jobs[i] \in JobRows
  BY TablesAre
<1>2. /\ jobs' = [jobs EXCEPT ![i].lease = "expired"]
      /\ UNCHANGED <<resolutions, packets>>
  BY DEF ExpireLease, queue2Vars
<1>3. DOMAIN jobs' = DOMAIN jobs /\ \A k \in DOMAIN jobs : jobs'[k].status = jobs[k].status
  BY <1>1, <1>2 DEF JobRows
<1> QED BY <1>2, <1>3, PacketsStay, RequestsStay DEF Undisputed

-----------------------------------------------------------------------------
\* Links are written with the completion, which is final, and with nothing else.
LEMMA LinksMove ==
  ASSUME IInv, [Next]_vars, NEW i \in DOMAIN resolutions'
  PROVE  \/ resolutions'[i].packet = 0
         \/ resolutions'[i].status = "complete"
         \/ /\ i \in DOMAIN resolutions
            /\ resolutions'[i].packet = resolutions[i].packet
<1> DEFINE Moved == \/ resolutions'[i].packet = 0
                    \/ resolutions'[i].status = "complete"
                    \/ /\ i \in DOMAIN resolutions
                       /\ resolutions'[i].packet = resolutions[i].packet
<1>0. /\ resolutions \in Seq(ResolutionRows) /\ DOMAIN resolutions = 1..Len(resolutions)
      /\ Len(resolutions) \in Nat
      /\ \A k \in DOMAIN resolutions : resolutions[k] \in ResolutionRows
  BY DEF IInv, Tables, RowsAreTyped
<1>1. CASE UNCHANGED resolutions
  BY <1>1
<1>2. ASSUME NEW rows, NEW status, Settle(rows, status) PROVE Moved
  BY <1>0, <1>2 DEF Settle, ResolutionRows
<1>3. ASSUME NEW w \in Workers, WorkerStep(w) PROVE Moved
  <2>1. CASE RecoverWrite(w)
    BY <1>1, <1>2, <2>1 DEF RecoverWrite
  <2>2. CASE FailWrite(w)
    BY <1>1, <1>2, <2>2 DEF FailWrite, reviewVars
  <2>3. CASE ClaimWrite(w)
    <3>1. UNCHANGED resolutions
          \/ \E k : resolutions' = [resolutions EXCEPT ![k].status = "processing"]
      BY <2>3 DEF ClaimWrite
    <3> QED BY <1>0, <1>1, <3>1 DEF ResolutionRows
  <2>4. CASE Finish(w)
    BY <1>0, <1>1, <2>4 DEF Finish, ResolutionRows, reviewVars
  <2> QED BY <1>1, <1>3, <2>1, <2>2, <2>3, <2>4
          DEF WorkerStep, RecoverRead, ClaimSelect, Inspect, CreatePacketRead,
              CreatePacketWrite, Render, Deliver, FailRead, reviewVars
<1>4. ASSUME NEW k \in DOMAIN reviews, NEW outcome \in Outcomes, Resolve(k, outcome)
      PROVE  Moved
  <2>1. resolutions' = Append(resolutions,
                          [review |-> k, status |-> outcome[2], packet |-> 0])
    BY <1>4 DEF Resolve
  <2> QED BY <1>0, <2>1
<1>5. CASE Delete
  BY <1>5 DEF Delete
<1>6. CASE \/ (\E w \in Workers : Crash(w)) \/ (\E c \in Clients : ClientStep(c))
           \/ (\E k \in DOMAIN jobs : ExpireLease(k))
           \/ Queue2Step \/ ScoreIsSaved \/ UNCHANGED vars
  BY <1>1, <1>6 DEF Crash, ClientStep, CreateRead, CreateWrite, ExpireLease, Queue2Step,
                    PacketStarts, DecisionIsSaved, PacketEnds, ScoreIsSaved, reviewVars, vars
<1> QED BY <1>3, <1>4, <1>5, <1>6 DEF Next

LEMMA LinksStay == OneWorker /\ IInv /\ Alone /\ Unlinked /\ [Next]_vars => Unlinked'
<1> SUFFICES ASSUME OneWorker, IInv, Alone, Unlinked, [Next]_vars,
                    NEW i \in DOMAIN resolutions', resolutions'[i].status /= "complete"
             PROVE  resolutions'[i].packet = 0
  BY DEF Unlinked
<1>1. Final /\ IInv' /\ Keeps
  BY LoneStep, NextKeeps
<1>2. CASE i \in DOMAIN resolutions /\ resolutions'[i].packet = resolutions[i].packet
  <2>1. exists'
    BY <1>1 DEF IInv, Tables, RowsAreTyped
  <2>2. i \in DOMAIN jobs /\ i \in DOMAIN jobs' /\ jobs'[i].status /= "complete"
    BY <1>1, <1>2 DEF IInv, Tables, RowsAreTyped, StatusesAgree
  <2>3. resolutions[i].status /= "complete"
    BY <1>1, <2>1, <2>2 DEF Final, IInv, Tables, StatusesAgree
  <2> QED BY <1>2, <2>3 DEF Unlinked
<1> QED BY <1>2, LinksMove

LEMMA StepImplements ==
  ASSUME OneWorker, IInv, Alone, Unlinked, [Next]_vars
  PROVE  [Lifecycle!Next]_Requests
<1>1. ASSUME NEW w \in Workers, WorkerStep(w) \/ Crash(w)
      PROVE  Lifecycle!Next \/ UNCHANGED Requests
  <2>1. Undisturbed(worker[w])
    BY DEF Alone
  <2> QED BY <1>1, <2>1, RecoverImplements, FailImplements, ClaimImplements,
             DeliverImplements, FinishImplements, WorkerReadsStay, PacketIsBegun
          DEF WorkerStep
<1> QED BY <1>1, ResolveImplements, DeleteImplements, OthersStay, ExpiryStays DEF Next

\* review_regeneration_jobs and review_resolutions together, with one worker that may
\* crash anywhere, any users, Queue 2 beside them and leases of any length: what a
\* user sees of a regeneration is queued, delivered once, linked to what was
\* delivered, and never taken back once it is complete or failed.
THEOREM Refinement ==
  ASSUME OneWorker
  PROVE  Spec => ImplementsRegeneration
<1>1. Init => Alone /\ Unlinked /\ Lifecycle!Init
  BY InitialRequests DEF Init, Alone, Undisturbed, Rest, Unlinked
<1>2. IInv /\ Alone /\ Unlinked /\ [Next]_vars => Alone' /\ Unlinked'
  BY LoneStep, LinksStay
<1>3. IInv /\ Alone /\ Unlinked /\ [Next]_vars => [Lifecycle!Next]_Requests
  BY StepImplements
<1> QED BY <1>1, <1>2, <1>3, Invariance, PTL
        DEF Spec, ImplementsRegeneration, Lifecycle!Spec
=============================================================================
