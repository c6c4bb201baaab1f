----------------------- MODULE CompanyCollectionProofs -----------------------
(***************************************************************************)
(* Proofs about the parts of MCCompanyCollection.                          *)
(*                                                                         *)
(* CompanyCollection, for any companies, filings, source runs, shells and  *)
(* faults: READY is never said of a publication made from other snapshots. *)
(* A build reads the intake twice, first what its marker will pin and then *)
(* what it publishes, and a collect may rewrite it between.  The two can   *)
(* name different snapshots of a filing only in one direction: once the    *)
(* run has a snapshot of its own, a source run's other one is refused for  *)
(* ever.  A marker of the one and a publication of the other therefore     *)
(* never meet an intake that agrees with the marker.                       *)
(*                                                                         *)
(* FilingDiscovery, for any filings, corrections, sizes of the root        *)
(* payload and numbers of years: a plan made over the network misses no    *)
(* filing of its years.  The filings are numbered in their order, and the  *)
(* file with the older ones, fetched last, reaches at least to where the   *)
(* root payload began.                                                     *)
(*                                                                         *)
(* CompanyIdentity and ReportedViews, for any filings and any number of    *)
(* them: one company id means one thing, and a later filing keeps what was *)
(* answered.  Both rest on the mapping being a fold: the table of the      *)
(* first elements is the beginning of the whole table, so what holds of a  *)
(* pair of rows when the second is placed holds for ever, and the table of *)
(* a longer corpus goes on where the shorter one's ends.                   *)
(***************************************************************************)
EXTENDS MCCompanyCollection, FiniteSetTheorems, SequenceTheorems, WellFoundedInduction, TLAPS

Releases == UNION {[1 .. Filings[c] -> {"own", "other"}] : c \in Companies}

IdleJobs == [op : {"none"}, todo : {{}}]
PrepareJobs == [op : {"prepare"}, todo : SUBSET Companies, rows : [Companies -> {"PREPARED", "FAILED"}]]
CollectJobs == [op : {"collect"}, todo : SUBSET Companies, given : BOOLEAN,
                outcomes : Seq(Outcomes), fresh : BOOLEAN]
BuildJobs == [op : {"build"}, todo : SUBSET Companies, of : {None} \cup Releases,
              attested : [Companies -> Seq(Outcomes)]]

TypeOK ==
  /\ own \in [Companies -> SUBSET Nat]
  /\ intake \in [Companies -> Seq(Outcomes)]
  /\ publication \in [Companies -> [stage : 0 .. Stages, of : {None} \cup Releases]]
  /\ marker \in [Companies -> {None} \cup Seq(Outcomes)]
  /\ job \in [Procs -> IdleJobs \cup PrepareJobs \cup CollectJobs \cup BuildJobs]

\* An intake names the source run's snapshot, of other content than an own one.
Foreign(c, outcomes, i) == outcomes[i] = "SOURCE" /\ Source[c][i] = "other"

\* The run has a snapshot of its own, and the intake does not name another one.
Settled(c, i) == i \in own[c] /\ ~(i \in DOMAIN intake[c] /\ Foreign(c, intake[c], i))

\* Outcomes that no intake can have any more.
Overtaken(c, outcomes) == \E i \in DOMAIN outcomes : Foreign(c, outcomes, i) /\ Settled(c, i)

OwnSnapshotsAreThere ==
  \A c \in Companies : \A i \in DOMAIN intake[c] : intake[c][i] \in {"INGESTED", "OWN"} => i \in own[c]

Exclusive ==
  \A p, q \in Procs :
    p # q /\ job[p].op = job[q].op /\ job[p].op \in {"collect", "build"} =>
      job[p].todo \cap job[q].todo = {}

\* The intake is as far as the collect has come.
CollectIsAhead ==
  \A p \in Procs :
    job[p].op = "collect" /\ job[p].todo # {} =>
      /\ job[p].outcomes # << >> => intake[Company(p)] = job[p].outcomes
      /\ job[p].fresh => Filing(p) \in own[Company(p)]

AttestedStaysSettled ==
  \A p \in Procs :
    job[p].op = "build" =>
      \A c \in job[p].todo : \A i \in DOMAIN job[p].attested[c] :
        job[p].attested[c][i] \in {"INGESTED", "OWN"} => Settled(c, i)

\* What is published, and of what it was to be.
Agree(c, outcomes, of) == of = Snapshots(c, outcomes) \/ Overtaken(c, outcomes)

BuildIsOfAttested ==
  \A p \in Procs :
    job[p].op = "build" /\ job[p].todo # {} /\ job[p].of # None /\ marker[Company(p)] = None =>
      /\ publication[Company(p)].of \in {None, job[p].of}
      /\ Agree(Company(p), job[p].attested[Company(p)], job[p].of)

PublicationsAreOfSomething ==
  \A c \in Companies : publication[c].stage > 0 => publication[c].of # None

MarkerIsOfPublication ==
  \A c \in Companies : marker[c] # None =>
    publication[c].stage = Stages /\ Agree(c, marker[c], publication[c].of)

IInv ==
  /\ TypeOK /\ OwnSnapshotsAreThere /\ Exclusive /\ CollectIsAhead
  /\ AttestedStaysSettled /\ BuildIsOfAttested
  /\ PublicationsAreOfSomething /\ MarkerIsOfPublication

-----------------------------------------------------------------------------
(* The next company of a command is one it has still to do.                *)
LEMMA CompanyIsToDo ==
  ASSUME NEW p \in Procs, job[p].todo \subseteq Companies, job[p].todo # {}
  PROVE  Company(p) \in job[p].todo
<1> DEFINE P == {i \in DOMAIN Cohort : Cohort[i] \in job[p].todo}
<1>1. DOMAIN Cohort \subseteq Nat /\ \A i \in DOMAIN Cohort : \A j \in 1 .. i - 1 : j \in DOMAIN Cohort
  BY CohortAssumption, LenProperties
<1>2. P # {} /\ P \subseteq Nat
  BY <1>1 DEF Companies
<1>3. PICK i \in P : \A j \in P : ~(<<j, i>> \in OpToRel(<, Nat))
  BY <1>2, NatLessThanWellFounded, WFMin
<1>4. i \in P /\ \A j \in P : ~(j < i)
  BY <1>2, <1>3 DEF OpToRel
<1>5. \A j \in 1 .. i - 1 : Cohort[j] \notin job[p].todo
  <2> SUFFICES ASSUME NEW j \in 1 .. i - 1, Cohort[j] \in job[p].todo PROVE FALSE
    OBVIOUS
  <2>1. i \in Nat /\ i \in DOMAIN Cohort
    BY <1>2, <1>4
  <2>2. j \in DOMAIN Cohort /\ j < i
    BY <1>1, <2>1
  <2>3. j \in P
    BY <2>2
  <2> QED BY <1>4, <2>2, <2>3
<1>6. \E k \in DOMAIN Cohort : /\ Cohort[k] \in job[p].todo
                               /\ \A j \in 1 .. k - 1 : Cohort[j] \notin job[p].todo
  BY <1>4, <1>5
<1> QED BY <1>6 DEF Company

LEMMA KindsOfJobs ==
  ASSUME TypeOK, NEW p \in Procs
  PROVE  /\ job[p].todo \subseteq Companies
         /\ job[p].op \in {"none", "prepare", "collect", "build"}
         /\ job[p].op = "prepare" => job[p] \in PrepareJobs
         /\ job[p].op = "collect" => job[p] \in CollectJobs
         /\ job[p].op = "build" => job[p] \in BuildJobs
BY DEF TypeOK, IdleJobs, PrepareJobs, CollectJobs, BuildJobs

(* What two complete intakes name differently, one of them can't name any  *)
(* more.                                                                   *)
LEMMA DifferentSnapshots ==
  ASSUME TypeOK, NEW c \in Companies, NEW A \in Seq(Outcomes),
         Complete(c, A), Complete(c, intake[c]), OwnSnapshotsAreThere,
         \A i \in DOMAIN A : A[i] \in {"INGESTED", "OWN"} => Settled(c, i)
  PROVE  Agree(c, A, Snapshots(c, intake[c]))
<1> SUFFICES ASSUME ~Overtaken(c, A) PROVE Snapshots(c, intake[c]) = Snapshots(c, A)
  BY DEF Agree
<1>1. /\ DOMAIN A = 1 .. Filings[c] /\ DOMAIN intake[c] = 1 .. Filings[c]
      /\ \A i \in 1 .. Filings[c] : A[i] \in Outcomes \ {"FAILED"} /\ intake[c][i] \in Outcomes \ {"FAILED"}
  BY LenProperties, ElementOfSeq DEF Complete, TypeOK
<1>2. ASSUME NEW i \in 1 .. Filings[c]
      PROVE  Foreign(c, A, i) <=> Foreign(c, intake[c], i)
  <2>1. CASE A[i] = "SOURCE"
    <3>1. ASSUME Foreign(c, A, i) PROVE intake[c][i] = "SOURCE"
      BY <1>1, <3>1 DEF Overtaken, Settled, OwnSnapshotsAreThere, Outcomes, Foreign
    <3> QED BY <2>1, <3>1 DEF Foreign
  <2>2. CASE A[i] # "SOURCE"
    <3>1. Settled(c, i)
      BY <1>1, <2>2 DEF Outcomes
    <3> QED BY <1>1, <2>2, <3>1 DEF Settled, Foreign
  <2> QED BY <2>1, <2>2
<1> QED BY <1>2 DEF Snapshots, Foreign

(* A step that leaves settled filings settled, and the jobs of the others  *)
(* and the publications alone, keeps what was agreed.                      *)
LEMMA AgreementStays ==
  ASSUME \A c \in Companies, i \in Nat : Settled(c, i) => Settled(c, i)'
  PROVE  \A c \in Companies, A \in Seq(Outcomes) : \A of : Agree(c, A, of) => Agree(c, A, of)'
<1> SUFFICES ASSUME NEW c \in Companies, NEW A \in Seq(Outcomes), Overtaken(c, A)
             PROVE  \E i \in DOMAIN A : Foreign(c, A, i) /\ Settled(c, i)'
  BY DEF Agree, Overtaken, Snapshots, Foreign
<1>1. DOMAIN A \subseteq Nat
  BY LenProperties
<1> QED BY <1>1 DEF Overtaken

-----------------------------------------------------------------------------
(* Steps that touch no artifact the proof is about.                        *)

Artifacts == <<own, intake, publication, marker>>
OthersGoOn(p) == \A q \in Procs : q # p => job'[q] = job[q]

\* The command ends, or forgets the company it was at.
GoesOn(p) ==
  \/ job'[p].op \in {"none", "prepare"}
  \/ /\ job'[p].op = job[p].op /\ job'[p].todo \subseteq job[p].todo
     /\ job[p].op = "collect" => job'[p].outcomes = << >> /\ ~job'[p].fresh
     /\ job[p].op = "build" => job'[p].of = None /\ job'[p].attested = job[p].attested

LEMMA JobStep ==
  ASSUME IInv, NEW p \in Procs, UNCHANGED Artifacts, OthersGoOn(p), GoesOn(p),
         job' \in [Procs -> IdleJobs \cup PrepareJobs \cup CollectJobs \cup BuildJobs]
  PROVE  IInv'
<1> USE DEF IInv, Artifacts
<1>1. TypeOK'
  BY DEF TypeOK
<1>2. \A q \in Procs : q # p => Company(q)' = Company(q) /\ Filing(q)' = Filing(q)
  BY DEF OthersGoOn, Company, Filing
<1>3. OwnSnapshotsAreThere' /\ PublicationsAreOfSomething'
  BY DEF OwnSnapshotsAreThere, PublicationsAreOfSomething
<1>4. Exclusive'
  BY DEF Exclusive, OthersGoOn, GoesOn
<1>5. CollectIsAhead'
  <2> SUFFICES ASSUME NEW q \in Procs, job'[q].op = "collect", job'[q].todo # {}
               PROVE  /\ job'[q].outcomes # << >> => intake[Company(q)'] = job'[q].outcomes
                      /\ job'[q].fresh => Filing(q)' \in own[Company(q)']
    BY DEF CollectIsAhead
  <2>1. CASE q = p
    BY <2>1 DEF GoesOn
  <2>2. CASE q # p
    BY <1>2, <2>2 DEF CollectIsAhead, OthersGoOn
  <2> QED BY <2>1, <2>2
<1>6. \A c, i : Settled(c, i)' <=> Settled(c, i)
  BY DEF Settled, Foreign
<1>7. \A c, A, of : Agree(c, A, of)' <=> Agree(c, A, of)
  BY <1>6 DEF Agree, Overtaken, Snapshots, Foreign
<1>8. AttestedStaysSettled'
  BY <1>6 DEF AttestedStaysSettled, OthersGoOn, GoesOn
<1>9. BuildIsOfAttested'
  <2> SUFFICES ASSUME NEW q \in Procs, job'[q].op = "build", job'[q].todo # {}, job'[q].of # None,
                      marker[Company(q)'] = None
               PROVE  /\ publication[Company(q)'].of \in {None, job'[q].of}
                      /\ Agree(Company(q)', job'[q].attested[Company(q)'], job'[q].of)
    BY <1>7 DEF BuildIsOfAttested
  <2>1. q # p
    BY DEF GoesOn
  <2> QED BY <1>2, <2>1 DEF BuildIsOfAttested, OthersGoOn
<1>10. MarkerIsOfPublication'
  BY <1>7 DEF MarkerIsOfPublication
<1> QED BY <1>1, <1>3, <1>4, <1>5, <1>8, <1>9, <1>10

LEMMA NextCompanyGoesOn ==
  ASSUME TypeOK, NEW p \in Procs, NextCompany(p), job[p].op \in {"prepare", "collect", "build"}
  PROVE  /\ OthersGoOn(p) /\ GoesOn(p)
         /\ job' \in [Procs -> IdleJobs \cup PrepareJobs \cup CollectJobs \cup BuildJobs]
<1> DEFINE left == job[p].todo \ {Company(p)}
           new == CASE job[p].op = "collect" ->
                        [job[p] EXCEPT !.todo = left, !.outcomes = << >>, !.fresh = FALSE]
                    [] job[p].op = "build" -> [job[p] EXCEPT !.todo = left, !.of = None]
                    [] OTHER -> [job[p] EXCEPT !.todo = left]
<1>1. job' = [job EXCEPT ![p] = new]
  BY DEF NextCompany
<1>2. job'[p] = new /\ \A q \in Procs : q # p => job'[q] = job[q]
  BY <1>1 DEF TypeOK
<1>6. << >> \in Seq(Outcomes)
  OBVIOUS
<1>3. CASE job[p].op = "collect"
  <2>1. /\ job[p] \in CollectJobs
        /\ new = [job[p] EXCEPT !.todo = left, !.outcomes = << >>, !.fresh = FALSE]
    BY <1>1, <1>3, KindsOfJobs
  <2>2. new \in CollectJobs /\ new.todo \subseteq job[p].todo /\ new.outcomes = << >> /\ ~new.fresh
    BY <1>6, <2>1 DEF CollectJobs
  <2> QED BY <1>1, <1>2, <1>3, <2>2 DEF OthersGoOn, GoesOn, CollectJobs, TypeOK
<1>4. CASE job[p].op = "build"
  <2>1. /\ job[p] \in BuildJobs
        /\ new = [job[p] EXCEPT !.todo = left, !.of = None]
    BY <1>1, <1>4, KindsOfJobs
  <2>2. /\ new \in BuildJobs /\ new.todo \subseteq job[p].todo /\ new.of = None
        /\ new.attested = job[p].attested
    BY <2>1 DEF BuildJobs
  <2> QED BY <1>1, <1>2, <1>4, <2>2 DEF OthersGoOn, GoesOn, BuildJobs, TypeOK
<1>5. CASE job[p].op = "prepare"
  <2>1. job[p] \in PrepareJobs /\ new = [job[p] EXCEPT !.todo = left]
    BY <1>1, <1>5, KindsOfJobs
  <2>2. new \in PrepareJobs
    BY <2>1 DEF PrepareJobs
  <2> QED BY <1>1, <1>2, <1>5, <2>2 DEF OthersGoOn, GoesOn, PrepareJobs, TypeOK
<1> QED BY <1>3, <1>4, <1>5

\* Commands start and end, are prepared, and leave a company.
Quiet(p) ==
  \/ End(p) \/ Crash(p) \/ StartPrepare(p) \/ WritePlan(p) \/ WriteIdentity(p)
  \/ CompanyPrepared(p) \/ PrepareFails(p) \/ EndPrepare(p)
  \/ CompanyCollected(p) \/ IngestRaises(p)
  \/ SkipBuild(p) \/ CompanyBuilt(p) \/ ReleaseRefused(p) \/ BuildFails(p)

LEMMA QuietStep ==
  ASSUME IInv, NEW p \in Procs, Quiet(p)
  PROVE  IInv'
<1> USE DEF IInv
<1>1. UNCHANGED Artifacts
  BY DEF Quiet, Artifacts, perCompany, End, Crash, StartPrepare, WritePlan, WriteIdentity,
         CompanyPrepared, PrepareFails, EndPrepare, CompanyCollected, IngestRaises, CollectAttempt,
         SkipBuild, CompanyBuilt, ReleaseRefused, BuildFails, BuildAttempt
<1>2. CASE WritePlan(p) \/ WriteIdentity(p)
  <2>1. job' = job
    BY <1>2 DEF WritePlan, WriteIdentity
  <2>2. job'[p].op = "prepare"
    BY <1>2 DEF WritePlan, WriteIdentity
  <2> QED BY <1>1, <2>1, <2>2, JobStep DEF OthersGoOn, GoesOn, TypeOK
<1>3. CASE End(p) \/ Crash(p) \/ EndPrepare(p)
  <2>1. job' = [job EXCEPT ![p] = NoJob]
    BY <1>3 DEF End, Crash, EndPrepare
  <2>2. NoJob \in IdleJobs /\ NoJob.op = "none"
    BY DEF NoJob, IdleJobs
  <2> QED BY <1>1, <2>1, <2>2, JobStep DEF OthersGoOn, GoesOn, TypeOK
<1>4. CASE StartPrepare(p)
  <2> DEFINE new == [op |-> "prepare", todo |-> Companies, rows |-> [c \in Companies |-> "FAILED"]]
  <2>1. job' = [job EXCEPT ![p] = new] /\ new \in PrepareJobs /\ new.op = "prepare"
    BY <1>4 DEF StartPrepare, PrepareJobs
  <2> QED BY <1>1, <2>1, JobStep DEF OthersGoOn, GoesOn, TypeOK
<1>5. CASE CompanyPrepared(p)
  <2>1. job[p] \in PrepareJobs /\ Company(p) \in Companies
    BY <1>5, KindsOfJobs, CompanyIsToDo DEF CompanyPrepared
  <2>2. PICK new \in PrepareJobs : job' = [job EXCEPT ![p] = new] /\ new.op = "prepare"
    <3>1. [job[p] EXCEPT !.rows[Company(p)] = "PREPARED", !.todo = @ \ {Company(p)}] \in PrepareJobs
      BY <2>1 DEF PrepareJobs
    <3>2. [job[p] EXCEPT !.rows[Company(p)] = "PREPARED", !.todo = @ \ {Company(p)}].op = "prepare"
      BY <3>1 DEF PrepareJobs
    <3>3. job' = [job EXCEPT ![p] = [job[p] EXCEPT !.rows[Company(p)] = "PREPARED", !.todo = @ \ {Company(p)}]]
      BY <1>5 DEF CompanyPrepared, TypeOK
    <3> QED BY <3>1, <3>2, <3>3
  <2> QED BY <1>1, <2>2, JobStep DEF OthersGoOn, GoesOn, TypeOK
<1>6. CASE \/ PrepareFails(p) \/ CompanyCollected(p) \/ IngestRaises(p)
           \/ SkipBuild(p) \/ CompanyBuilt(p) \/ ReleaseRefused(p) \/ BuildFails(p)
  <2>1. NextCompany(p) /\ job[p].op \in {"prepare", "collect", "build"}
    BY <1>6 DEF PrepareFails, CompanyCollected, IngestRaises, Ingesting, CollectAttempt, SkipBuild,
                CompanyBuilt, ReleaseRefused, BuildFails, Building, BuildAttempt
  <2> QED BY <1>1, <2>1, NextCompanyGoesOn, JobStep
<1> QED BY <1>2, <1>3, <1>4, <1>5, <1>6 DEF Quiet

-----------------------------------------------------------------------------
(* Collects and builds begin.                                              *)

LEMMA StartCollectStep ==
  ASSUME IInv, NEW p \in Procs, NEW S \in Scopes, NEW given \in BOOLEAN, StartCollect(p, S, given)
  PROVE  IInv'
<1> USE DEF IInv
<1> DEFINE new == [op |-> "collect", todo |-> Prepared(S), given |-> given, outcomes |-> << >>, fresh |-> FALSE]
<1>1. new \in CollectJobs /\ Prepared(S) \subseteq S /\ S \subseteq Companies
  <2>1. << >> \in Seq(Outcomes)
    OBVIOUS
  <2> QED BY <2>1 DEF CollectJobs, Scopes, Prepared
<1>2. /\ job' = [job EXCEPT ![p] = new] /\ job'[p] = new /\ OthersGoOn(p)
      /\ UNCHANGED Artifacts
  BY DEF StartCollect, perCompany, Artifacts, OthersGoOn, TypeOK
<1>3. TypeOK'
  BY <1>1, <1>2 DEF TypeOK, Artifacts
<1>4. Exclusive'
  <2>1. \A q \in Procs : q # p /\ job[q].op = "collect" => job[q].todo \cap S = {}
    BY DEF StartCollect, Busy
  <2> QED BY <1>1, <1>2, <2>1 DEF Exclusive, OthersGoOn
<1>5. \A q \in Procs : q # p => Company(q)' = Company(q) /\ Filing(q)' = Filing(q)
  BY <1>2 DEF OthersGoOn, Company, Filing
<1>6. CollectIsAhead'
  BY <1>2, <1>5 DEF CollectIsAhead, OthersGoOn, Artifacts
<1>7. \A c, i : Settled(c, i)' <=> Settled(c, i)
  BY <1>2 DEF Settled, Foreign, Artifacts
<1>8. \A c, A, of : Agree(c, A, of)' <=> Agree(c, A, of)
  BY <1>7 DEF Agree, Overtaken, Snapshots, Foreign
<1>9. AttestedStaysSettled'
  BY <1>2, <1>7 DEF AttestedStaysSettled, OthersGoOn
<1>10. BuildIsOfAttested'
  <2> SUFFICES ASSUME NEW q \in Procs, job'[q].op = "build", job'[q].todo # {}, job'[q].of # None,
                      marker'[Company(q)'] = None
               PROVE  /\ publication'[Company(q)'].of \in {None, job'[q].of}
                      /\ Agree(Company(q)', job'[q].attested[Company(q)'], job'[q].of)
    BY <1>8 DEF BuildIsOfAttested
  <2>1. q # p
    BY <1>2
  <2> QED BY <1>2, <1>5, <2>1 DEF BuildIsOfAttested, OthersGoOn, Artifacts
<1>11. OwnSnapshotsAreThere' /\ PublicationsAreOfSomething' /\ MarkerIsOfPublication'
  BY <1>2, <1>8 DEF OwnSnapshotsAreThere, PublicationsAreOfSomething, MarkerIsOfPublication, Artifacts
<1> QED BY <1>3, <1>4, <1>6, <1>9, <1>10, <1>11

LEMMA StartBuildStep ==
  ASSUME IInv, NEW p \in Procs, NEW S \in Scopes, StartBuild(p, S)
  PROVE  IInv'
<1> USE DEF IInv
<1> DEFINE attested == [c \in Companies |-> IF c \in S THEN intake[c] ELSE << >>]
           new == [op |-> "build", todo |-> Prepared(S), of |-> None, attested |-> attested]
<1>1. new \in BuildJobs /\ Prepared(S) \subseteq S /\ S \subseteq Companies
  <2>1. << >> \in Seq(Outcomes)
    OBVIOUS
  <2>2. attested \in [Companies -> Seq(Outcomes)]
    BY <2>1 DEF TypeOK
  <2> QED BY <2>2 DEF BuildJobs, Scopes, Prepared
<1>2. /\ job' = [job EXCEPT ![p] = new] /\ job'[p] = new /\ OthersGoOn(p)
      /\ UNCHANGED Artifacts
  BY DEF StartBuild, perCompany, Artifacts, OthersGoOn, TypeOK
<1>3. TypeOK'
  BY <1>1, <1>2 DEF TypeOK, Artifacts
<1>4. Exclusive'
  <2>1. \A q \in Procs : q # p /\ job[q].op = "build" => job[q].todo \cap S = {}
    BY DEF StartBuild, Busy
  <2> QED BY <1>1, <1>2, <2>1 DEF Exclusive, OthersGoOn
<1>5. \A q \in Procs : q # p => Company(q)' = Company(q) /\ Filing(q)' = Filing(q)
  BY <1>2 DEF OthersGoOn, Company, Filing
<1>6. CollectIsAhead'
  BY <1>2, <1>5 DEF CollectIsAhead, OthersGoOn, Artifacts
<1>7. \A c, i : Settled(c, i)' <=> Settled(c, i)
  BY <1>2 DEF Settled, Foreign, Artifacts
<1>8. \A c, A, of : Agree(c, A, of)' <=> Agree(c, A, of)
  BY <1>7 DEF Agree, Overtaken, Snapshots, Foreign
<1>9. AttestedStaysSettled'
  <2>1. ASSUME NEW c \in Prepared(S), NEW i \in DOMAIN attested[c], attested[c][i] \in {"INGESTED", "OWN"}
        PROVE  Settled(c, i)
    <3>1. attested[c] = intake[c] /\ c \in Companies
      BY <1>1
    <3>2. i \in own[c] /\ ~Foreign(c, intake[c], i)
      BY <2>1, <3>1 DEF OwnSnapshotsAreThere, Foreign
    <3> QED BY <3>2 DEF Settled
  <2>2. /\ job'[p].todo = Prepared(S) /\ job'[p].attested = attested
        /\ \A q \in Procs : q # p => job'[q] = job[q]
    BY <1>2 DEF OthersGoOn
  <2> HIDE DEF attested, new
  <2> QED BY <1>7, <2>1, <2>2 DEF AttestedStaysSettled
<1>10. BuildIsOfAttested'
  <2> SUFFICES ASSUME NEW q \in Procs, job'[q].op = "build", job'[q].todo # {}, job'[q].of # None,
                      marker'[Company(q)'] = None
               PROVE  /\ publication'[Company(q)'].of \in {None, job'[q].of}
                      /\ Agree(Company(q)', job'[q].attested[Company(q)'], job'[q].of)
    BY <1>8 DEF BuildIsOfAttested
  <2>1. q # p
    BY <1>2
  <2> QED BY <1>2, <1>5, <2>1 DEF BuildIsOfAttested, OthersGoOn, Artifacts
<1>11. OwnSnapshotsAreThere' /\ PublicationsAreOfSomething' /\ MarkerIsOfPublication'
  BY <1>2, <1>8 DEF OwnSnapshotsAreThere, PublicationsAreOfSomething, MarkerIsOfPublication, Artifacts
<1> QED BY <1>3, <1>4, <1>6, <1>9, <1>10, <1>11

-----------------------------------------------------------------------------
(* A collect at its company.                                               *)

LEMMA IngestingCompany ==
  ASSUME TypeOK, NEW p \in Procs, Ingesting(p)
  PROVE  /\ job[p] \in CollectJobs /\ Company(p) \in job[p].todo /\ Company(p) \in Companies
         /\ Filing(p) \in Nat /\ Filing(p) \in 1 .. Filings[Company(p)]
         /\ job[p].outcomes \in Seq(Outcomes) /\ Len(job[p].outcomes) \in Nat
<1>1. job[p] \in CollectJobs /\ Company(p) \in job[p].todo /\ job[p].todo \subseteq Companies
  BY KindsOfJobs, CompanyIsToDo DEF Ingesting
<1>2. job[p].outcomes \in Seq(Outcomes) /\ Len(job[p].outcomes) \in Nat
  BY <1>1, LenProperties DEF CollectJobs
<1>3. Filings[Company(p)] \in Nat
  BY <1>1, CohortAssumption
<1> QED BY <1>1, <1>2, <1>3 DEF Filing, Ingesting

\* Builds go on beside a collect that leaves settled filings settled.
LEMMA BesideBuilds ==
  ASSUME IInv, NEW p \in Procs, OthersGoOn(p), job[p].op = "collect", job'[p].op = "collect",
         UNCHANGED <<publication, marker>>,
         \A c \in Companies, i \in Nat : Settled(c, i) => Settled(c, i)'
  PROVE  AttestedStaysSettled' /\ BuildIsOfAttested' /\ MarkerIsOfPublication'
<1> USE DEF IInv
<1>1. \A c \in Companies, A \in Seq(Outcomes) : \A of : Agree(c, A, of) => Agree(c, A, of)'
  BY AgreementStays
<1>2. ASSUME NEW q \in Procs, job'[q].op = "build"
      PROVE  /\ job'[q] = job[q] /\ job[q].op = "build" /\ job[q].todo \subseteq Companies
             /\ job[q].attested \in [Companies -> Seq(Outcomes)]
             /\ Company(q)' = Company(q)
  <2>1. job'[q] = job[q] /\ job[q].op = "build"
    BY <1>2 DEF OthersGoOn
  <2> QED BY <2>1, KindsOfJobs DEF BuildJobs, Company
<1>3. AttestedStaysSettled'
  <2> SUFFICES ASSUME NEW q \in Procs, job'[q].op = "build", NEW c \in job'[q].todo,
                      NEW i \in DOMAIN job'[q].attested[c], job'[q].attested[c][i] \in {"INGESTED", "OWN"}
               PROVE  Settled(c, i)'
    BY DEF AttestedStaysSettled
  <2>1. Settled(c, i) /\ c \in Companies /\ job[q].attested[c] \in Seq(Outcomes)
    BY <1>2 DEF AttestedStaysSettled
  <2>2. i \in Nat
    BY <1>2, <2>1, LenProperties
  <2> QED BY <2>1, <2>2
<1>4. BuildIsOfAttested'
  <2> SUFFICES ASSUME NEW q \in Procs, job'[q].op = "build", job'[q].todo # {}, job'[q].of # None,
                      marker[Company(q)'] = None
               PROVE  /\ publication[Company(q)'].of \in {None, job'[q].of}
                      /\ Agree(Company(q), job[q].attested[Company(q)], job[q].of)'
    BY DEF BuildIsOfAttested
  <2>1. Company(q) \in Companies
    BY <1>2, CompanyIsToDo
  <2>2. /\ publication[Company(q)].of \in {None, job[q].of}
        /\ Agree(Company(q), job[q].attested[Company(q)], job[q].of)
    BY <1>2 DEF BuildIsOfAttested
  <2>3. job[q].attested[Company(q)] \in Seq(Outcomes)
    BY <1>2, <2>1
  <2> QED BY <1>1, <1>2, <2>1, <2>2, <2>3
<1>5. MarkerIsOfPublication'
  BY <1>1 DEF MarkerIsOfPublication, TypeOK
<1> QED BY <1>3, <1>4, <1>5

LEMMA ExtractStep ==
  ASSUME IInv, NEW p \in Procs, Extract(p)
  PROVE  IInv'
<1> USE DEF IInv
<1> DEFINE c == Company(p)
           n == Filing(p)
<1>1. /\ job[p] \in CollectJobs /\ c \in Companies /\ n \in Nat /\ job[p].op = "collect"
  BY IngestingCompany DEF Extract, Ingesting
<1>2. /\ own' = [own EXCEPT ![c] = @ \cup {n}] /\ job' = [job EXCEPT ![p] = [job[p] EXCEPT !.fresh = TRUE]]
      /\ UNCHANGED <<intake, publication, marker>>
  BY DEF Extract
<1>3. /\ [job[p] EXCEPT !.fresh = TRUE] \in CollectJobs
      /\ job'[p] = [job[p] EXCEPT !.fresh = TRUE] /\ OthersGoOn(p)
      /\ job'[p].op = "collect" /\ job'[p].todo = job[p].todo /\ job'[p].outcomes = job[p].outcomes
  BY <1>1, <1>2 DEF CollectJobs, OthersGoOn, TypeOK
<1>4. TypeOK'
  BY <1>1, <1>2, <1>3 DEF TypeOK
<1>5. \A d \in Companies : own[d] \subseteq own'[d] /\ (d = c => n \in own'[d])
  BY <1>1, <1>2 DEF TypeOK
<1>6. OwnSnapshotsAreThere' /\ PublicationsAreOfSomething'
  BY <1>2, <1>5 DEF OwnSnapshotsAreThere, PublicationsAreOfSomething
<1>7. Exclusive'
  <2>1. \A q \in Procs : job'[q].op = job[q].op /\ job'[q].todo = job[q].todo
    BY <1>1, <1>3 DEF OthersGoOn
  <2> QED BY <2>1 DEF Exclusive
<1>8. CollectIsAhead'
  <2> SUFFICES ASSUME NEW q \in Procs, job'[q].op = "collect", job'[q].todo # {}
               PROVE  /\ job'[q].outcomes # << >> => intake'[Company(q)'] = job'[q].outcomes
                      /\ job'[q].fresh => Filing(q)' \in own'[Company(q)']
    BY DEF CollectIsAhead
  <2>1. /\ job'[q].todo = job[q].todo /\ job'[q].outcomes = job[q].outcomes /\ job[q].op = "collect"
        /\ q # p => job'[q] = job[q]
    BY <1>1, <1>3 DEF OthersGoOn
  <2>2. Company(q)' = Company(q) /\ Filing(q)' = Filing(q)
    BY <2>1 DEF Company, Filing
  <2>3. Company(q) \in Companies
    BY <2>1, KindsOfJobs, CompanyIsToDo
  <2>4. CASE q = p
    BY <1>2, <1>5, <2>1, <2>2, <2>3, <2>4 DEF CollectIsAhead
  <2>5. CASE q # p
    BY <1>2, <1>5, <2>1, <2>2, <2>3, <2>5 DEF CollectIsAhead
  <2> QED BY <2>4, <2>5
<1>9. \A d \in Companies, i \in Nat : Settled(d, i) => Settled(d, i)'
  BY <1>2, <1>5 DEF Settled, Foreign
<1> QED BY <1>1, <1>2, <1>3, <1>4, <1>6, <1>7, <1>8, <1>9, BesideBuilds

(* An outcome is recorded: of an own snapshot that is there, or of the     *)
(* source run's where there is no other one.                               *)
LEMMA RecordStep ==
  ASSUME IInv, NEW p \in Procs, NEW outcome \in Outcomes, Ingesting(p), Record(p, outcome),
         outcome \in {"INGESTED", "OWN"} => Filing(p) \in own[Company(p)],
         outcome = "SOURCE" /\ Source[Company(p)][Filing(p)] = "other" => Filing(p) \notin own[Company(p)]
  PROVE  IInv'
<1> USE DEF IInv
<1> DEFINE c == Company(p)
           before == job[p].outcomes
           after == Append(job[p].outcomes, outcome)
           n == Len(before)
<1>1. /\ job[p] \in CollectJobs /\ c \in Companies /\ c \in job[p].todo /\ job[p].op = "collect"
      /\ before \in Seq(Outcomes) /\ n \in Nat /\ Filing(p) = n + 1
  BY IngestingCompany DEF Ingesting, Filing
<1>2. /\ after \in Seq(Outcomes) /\ after # << >> /\ DOMAIN after = 1 .. n + 1 /\ DOMAIN before = 1 .. n
      /\ after[n + 1] = outcome /\ \A i \in 1 .. n : after[i] = before[i]
  BY <1>1, AppendProperties, LenProperties
<1>3. /\ intake' = [intake EXCEPT ![c] = after]
      /\ job' = [job EXCEPT ![p] = [job[p] EXCEPT !.outcomes = after, !.fresh = FALSE]]
      /\ UNCHANGED <<own, publication, marker>>
  BY DEF Record
<1>4. /\ [job[p] EXCEPT !.outcomes = after, !.fresh = FALSE] \in CollectJobs
      /\ job'[p] = [job[p] EXCEPT !.outcomes = after, !.fresh = FALSE] /\ OthersGoOn(p)
      /\ job'[p].op = "collect" /\ job'[p].todo = job[p].todo /\ job'[p].outcomes = after
      /\ ~job'[p].fresh
  BY <1>1, <1>2, <1>3 DEF CollectJobs, OthersGoOn, TypeOK
<1>5. TypeOK'
  BY <1>1, <1>2, <1>3, <1>4 DEF TypeOK
<1>6. intake'[c] = after /\ \A d \in Companies : d # c => intake'[d] = intake[d]
  BY <1>1, <1>3 DEF TypeOK
<1>7. ASSUME NEW i \in 1 .. n
      PROVE  i \in DOMAIN intake[c] /\ after[i] = intake[c][i]
  <2>1. before # << >>
    BY <1>1
  <2>2. intake[c] = before
    BY <1>1, <2>1 DEF CollectIsAhead
  <2> QED BY <1>2, <2>2
<1>8. OwnSnapshotsAreThere'
  <2> SUFFICES ASSUME NEW d \in Companies, NEW i \in DOMAIN intake'[d], intake'[d][i] \in {"INGESTED", "OWN"}
               PROVE  i \in own[d]
    BY <1>3 DEF OwnSnapshotsAreThere
  <2>1. CASE d # c
    BY <1>6, <2>1 DEF OwnSnapshotsAreThere
  <2>2. CASE d = c /\ i \in 1 .. n
    BY <1>1, <1>6, <1>7, <2>2 DEF OwnSnapshotsAreThere
  <2>3. CASE d = c /\ i = n + 1
    BY <1>1, <1>2, <1>6, <2>3
  <2> QED BY <1>1, <1>2, <1>6, <2>1, <2>2, <2>3, SMTT(30)
<1>9. Exclusive' /\ PublicationsAreOfSomething'
  BY <1>3, <1>4 DEF Exclusive, OthersGoOn, PublicationsAreOfSomething
<1>10. CollectIsAhead'
  <2> SUFFICES ASSUME NEW q \in Procs, job'[q].op = "collect", job'[q].todo # {}
               PROVE  /\ job'[q].outcomes # << >> => intake'[Company(q)'] = job'[q].outcomes
                      /\ job'[q].fresh => Filing(q)' \in own'[Company(q)']
    BY DEF CollectIsAhead
  <2>1. CASE q = p
    <3>1. Company(p)' = c
      BY <1>4 DEF Company
    <3> QED BY <1>4, <1>6, <2>1, <3>1
  <2>2. CASE q # p
    <3>1. job'[q] = job[q] /\ Company(q)' = Company(q) /\ Filing(q)' = Filing(q)
      BY <1>4, <2>2 DEF OthersGoOn, Company, Filing
    <3>2. Company(q) \in job[q].todo /\ Company(q) \in Companies
      BY <3>1, KindsOfJobs, CompanyIsToDo
    <3>3. Company(q) # c
      BY <1>1, <2>2, <3>1, <3>2 DEF Exclusive
    <3> QED BY <1>3, <1>6, <3>1, <3>2, <3>3 DEF CollectIsAhead
  <2> QED BY <2>1, <2>2
<1>11. ASSUME NEW d \in Companies, NEW i \in Nat, Settled(d, i) PROVE Settled(d, i)'
  <2>1. i \in own'[d]
    BY <1>3, <1>11 DEF Settled
  <2>2. ASSUME i \in DOMAIN intake'[d] PROVE ~Foreign(d, intake'[d], i)
    <3>1. CASE d # c
      BY <1>6, <1>11, <2>2, <3>1 DEF Settled, Foreign
    <3>2. CASE d = c /\ i \in 1 .. n
      BY <1>6, <1>7, <1>11, <3>2 DEF Settled, Foreign
    <3>3. CASE d = c /\ i = n + 1
      BY <1>1, <1>2, <1>6, <1>11, <3>3 DEF Settled, Foreign
    <3> QED BY <1>1, <1>2, <1>6, <2>2, <3>1, <3>2, <3>3
  <2> QED BY <2>1, <2>2 DEF Settled, Foreign
<1> QED BY <1>1, <1>3, <1>4, <1>5, <1>8, <1>9, <1>10, <1>11, BesideBuilds

LEMMA RecordingStep ==
  ASSUME IInv, NEW p \in Procs, RecordFiling(p) \/ FilingFails(p)
  PROVE  IInv'
<1>1. CASE FilingFails(p)
  BY <1>1, RecordStep DEF FilingFails, Outcomes
<1>2. CASE RecordFiling(p)
  <2>1. Ingesting(p) /\ Record(p, Outcome(p)) /\ (job[p].fresh \/ InSource(p) \/ InOwn(p))
    BY <1>2 DEF RecordFiling
  <2>2. job[p].op = "collect" /\ job[p].todo # {} /\ job[p].fresh \in BOOLEAN
    BY <2>1, IngestingCompany DEF Ingesting, CollectJobs, IInv
  <2>3. job[p].fresh => Filing(p) \in own[Company(p)]
    BY <2>2 DEF IInv, CollectIsAhead
  <2>4. /\ Outcome(p) \in Outcomes
        /\ Outcome(p) \in {"INGESTED", "OWN"} => Filing(p) \in own[Company(p)]
        /\ Outcome(p) = "SOURCE" /\ Source[Company(p)][Filing(p)] = "other" => Filing(p) \notin own[Company(p)]
    <3>1. CASE job[p].fresh
      BY <2>3, <3>1 DEF Outcome, Outcomes
    <3>2. CASE ~job[p].fresh /\ InSource(p) /\ InOwn(p) /\ Source[Company(p)][Filing(p)] = "other"
      BY <3>2 DEF Outcome, Outcomes
    <3>3. CASE ~job[p].fresh /\ InSource(p) /\ ~(InOwn(p) /\ Source[Company(p)][Filing(p)] = "other")
      <4>1. Outcome(p) = "SOURCE"
        BY <3>3 DEF Outcome
      <4> QED BY <3>3, <4>1 DEF Outcomes, InOwn
    <3>4. CASE ~job[p].fresh /\ ~InSource(p)
      <4>1. Outcome(p) = "OWN" /\ InOwn(p)
        BY <2>1, <3>4 DEF Outcome
      <4> QED BY <4>1 DEF Outcomes, InOwn
    <3> QED BY <2>2, <3>1, <3>2, <3>3, <3>4
  <2> QED BY <2>1, <2>4, RecordStep
<1> QED BY <1>1, <1>2

-----------------------------------------------------------------------------
(* A build at its company.                                                 *)

LEMMA BuildingCompany ==
  ASSUME TypeOK, NEW p \in Procs, Building(p)
  PROVE  /\ job[p] \in BuildJobs /\ Company(p) \in job[p].todo /\ Company(p) \in Companies
         /\ job[p].attested[Company(p)] \in Seq(Outcomes)
         /\ Complete(Company(p), job[p].attested[Company(p)])
<1>1. job[p] \in BuildJobs /\ Company(p) \in job[p].todo /\ job[p].todo \subseteq Companies
  BY KindsOfJobs, CompanyIsToDo DEF Building
<1> QED BY <1>1 DEF Building, BuildJobs

LEMMA SnapshotsAreARelease ==
  ASSUME NEW c \in Companies, NEW outcomes
  PROVE  Snapshots(c, outcomes) \in Releases
<1>1. Snapshots(c, outcomes) \in [1 .. Filings[c] -> {"own", "other"}]
  BY DEF Snapshots
<1> QED BY <1>1 DEF Releases

LEMMA LoadReleaseStep ==
  ASSUME IInv, NEW p \in Procs, LoadRelease(p)
  PROVE  IInv'
<1> USE DEF IInv
<1> DEFINE c == Company(p)
           A == job[p].attested[c]
           of == Snapshots(c, intake[c])
<1>1. /\ job[p] \in BuildJobs /\ job[p].op = "build" /\ c \in job[p].todo /\ c \in Companies
      /\ A \in Seq(Outcomes) /\ Complete(c, A) /\ Complete(c, intake[c])
      /\ publication[c].of \in {None, of}
  BY BuildingCompany DEF LoadRelease, Building, Loadable
<1>2. job' = [job EXCEPT ![p] = [job[p] EXCEPT !.of = of]] /\ UNCHANGED Artifacts
  BY DEF LoadRelease, perCompany, Artifacts
<1>3. of \in Releases
  BY <1>1, SnapshotsAreARelease
<1>4. /\ [job[p] EXCEPT !.of = of] \in BuildJobs
      /\ job'[p] = [job[p] EXCEPT !.of = of] /\ OthersGoOn(p)
      /\ job'[p].op = "build" /\ job'[p].todo = job[p].todo
      /\ job'[p].attested = job[p].attested /\ job'[p].of = of
  BY <1>1, <1>2, <1>3 DEF BuildJobs, OthersGoOn, TypeOK
<1>5. TypeOK'
  BY <1>2, <1>4 DEF TypeOK, Artifacts
<1>6. \A q \in Procs : Company(q)' = Company(q) /\ (q # p => Filing(q)' = Filing(q))
  BY <1>4 DEF OthersGoOn, Company, Filing
<1>7. \A d, i : Settled(d, i)' <=> Settled(d, i)
  BY <1>2 DEF Settled, Foreign, Artifacts
<1>8. \A d, B, o : Agree(d, B, o)' <=> Agree(d, B, o)
  BY <1>7 DEF Agree, Overtaken, Snapshots, Foreign
<1>9. Agree(c, A, of)
  <2>1. \A i \in DOMAIN A : A[i] \in {"INGESTED", "OWN"} => Settled(c, i)
    BY <1>1 DEF AttestedStaysSettled
  <2> QED BY <1>1, <2>1, DifferentSnapshots
<1>10. BuildIsOfAttested'
  <2> SUFFICES ASSUME NEW q \in Procs, job'[q].op = "build", job'[q].todo # {}, job'[q].of # None,
                      marker'[Company(q)'] = None
               PROVE  /\ publication'[Company(q)'].of \in {None, job'[q].of}
                      /\ Agree(Company(q)', job'[q].attested[Company(q)'], job'[q].of)
    BY <1>8 DEF BuildIsOfAttested
  <2>1. CASE q = p
    BY <1>1, <1>2, <1>4, <1>6, <1>9, <2>1 DEF Artifacts
  <2>2. CASE q # p
    BY <1>2, <1>4, <1>6, <2>2 DEF BuildIsOfAttested, OthersGoOn, Artifacts
  <2> QED BY <2>1, <2>2
<1>11. OwnSnapshotsAreThere' /\ PublicationsAreOfSomething' /\ MarkerIsOfPublication'
  BY <1>2, <1>8 DEF OwnSnapshotsAreThere, PublicationsAreOfSomething, MarkerIsOfPublication, Artifacts
<1>12. Exclusive' /\ AttestedStaysSettled'
  <2>1. \A q \in Procs : /\ job'[q].op = job[q].op /\ job'[q].todo = job[q].todo
                         /\ job[q].op = "build" => job'[q].attested = job[q].attested
    BY <1>1, <1>4 DEF OthersGoOn
  <2> QED BY <1>7, <2>1 DEF Exclusive, AttestedStaysSettled
<1>13. CollectIsAhead'
  BY <1>1, <1>2, <1>4, <1>6 DEF CollectIsAhead, OthersGoOn, Artifacts
<1> QED BY <1>5, <1>10, <1>11, <1>12, <1>13

(* Only one build is at a company.                                         *)
LEMMA OtherBuilds ==
  ASSUME IInv, NEW p \in Procs, Building(p), NEW q \in Procs, q # p, job[q].op = "build", job[q].todo # {}
  PROVE  Company(q) # Company(p) /\ Company(q) \in Companies
<1>1. Company(q) \in job[q].todo /\ Company(q) \in Companies
  BY KindsOfJobs, CompanyIsToDo DEF IInv
<1>2. Company(p) \in job[p].todo /\ job[p].op = "build"
  BY BuildingCompany DEF IInv, Building
<1> QED BY <1>1, <1>2 DEF IInv, Exclusive

LEMMA PublishingStep ==
  ASSUME IInv, NEW p \in Procs, Publish(p) \/ Attest(p)
  PROVE  IInv'
<1> USE DEF IInv
<1> DEFINE c == Company(p)
           A == job[p].attested[c]
<1>1. /\ Building(p) /\ job[p] \in BuildJobs /\ job[p].op = "build" /\ job[p].todo # {} /\ c \in Companies
      /\ A \in Seq(Outcomes) /\ job[p].of # None /\ marker[c] = None
  BY BuildingCompany DEF Publish, Attest, Building
<1>2. UNCHANGED <<own, intake, job>>
  BY DEF Publish, Attest
<1>3. publication[c].of \in {None, job[p].of} /\ Agree(c, A, job[p].of)
  BY <1>1 DEF BuildIsOfAttested
<1>4. \A d, i : Settled(d, i)' <=> Settled(d, i)
  BY <1>2 DEF Settled, Foreign
<1>5. \A d, B, o : Agree(d, B, o)' <=> Agree(d, B, o)
  BY <1>4 DEF Agree, Overtaken, Snapshots, Foreign
<1>6. \A q \in Procs : Company(q)' = Company(q) /\ Filing(q)' = Filing(q)
  BY <1>2 DEF Company, Filing
<1>7. /\ OwnSnapshotsAreThere' /\ Exclusive' /\ CollectIsAhead' /\ AttestedStaysSettled'
  BY <1>2, <1>4, <1>6 DEF OwnSnapshotsAreThere, Exclusive, CollectIsAhead, AttestedStaysSettled
<1>8. CASE Publish(p)
  <2>1. /\ publication' = [publication EXCEPT ![c] = [stage |-> publication[c].stage + 1, of |-> job[p].of]]
        /\ marker' = marker /\ publication[c].stage < Stages
    BY <1>8 DEF Publish
  <2>2. publication[c].stage + 1 \in 0 .. Stages /\ job[p].of \in Releases
    <3>1. publication[c].stage \in 0 .. Stages /\ Stages \in Nat
      BY <1>1 DEF TypeOK, Stages
    <3> QED BY <1>1, <2>1, <3>1 DEF BuildJobs
  <2>3. /\ publication'[c].of = job[p].of
        /\ \A d \in Companies : d # c => publication'[d] = publication[d]
        /\ publication' \in [Companies -> [stage : 0 .. Stages, of : {None} \cup Releases]]
    BY <1>1, <2>1, <2>2 DEF TypeOK
  <2>4. TypeOK'
    BY <1>2, <2>1, <2>3 DEF TypeOK
  <2>5. PublicationsAreOfSomething' /\ MarkerIsOfPublication'
    BY <1>1, <1>5, <2>1, <2>3 DEF PublicationsAreOfSomething, MarkerIsOfPublication
  <2>6. BuildIsOfAttested'
    <3> SUFFICES ASSUME NEW q \in Procs, job[q].op = "build", job[q].todo # {}, job[q].of # None,
                        marker[Company(q)] = None
                 PROVE  /\ publication'[Company(q)].of \in {None, job[q].of}
                        /\ Agree(Company(q), job[q].attested[Company(q)], job[q].of)
      BY <1>2, <1>5, <1>6, <2>1 DEF BuildIsOfAttested
    <3>1. CASE q = p
      BY <1>3, <2>3, <3>1
    <3>2. CASE q # p
      BY <1>1, <2>3, <3>2, OtherBuilds DEF BuildIsOfAttested
    <3> QED BY <3>1, <3>2
  <2> QED BY <1>7, <2>4, <2>5, <2>6
<1>9. CASE Attest(p)
  <2>1. /\ marker' = [marker EXCEPT ![c] = A] /\ publication' = publication
        /\ publication[c].stage = Stages
    BY <1>9 DEF Attest, PublicationValidates
  <2>2. publication[c].of = job[p].of
    BY <1>1, <1>3, <2>1 DEF PublicationsAreOfSomething, Stages
  <2>3. marker'[c] = A /\ \A d \in Companies : d # c => marker'[d] = marker[d]
    BY <1>1, <2>1 DEF TypeOK
  <2>4. TypeOK'
    BY <1>1, <1>2, <2>1 DEF TypeOK
  <2>5. PublicationsAreOfSomething' /\ MarkerIsOfPublication'
    BY <1>3, <1>5, <2>1, <2>2, <2>3 DEF PublicationsAreOfSomething, MarkerIsOfPublication
  <2>6. BuildIsOfAttested'
    <3> SUFFICES ASSUME NEW q \in Procs, job[q].op = "build", job[q].todo # {}, job[q].of # None,
                        marker'[Company(q)] = None
                 PROVE  /\ publication[Company(q)].of \in {None, job[q].of}
                        /\ Agree(Company(q), job[q].attested[Company(q)], job[q].of)
      BY <1>2, <1>5, <1>6, <2>1 DEF BuildIsOfAttested
    <3>1. CASE q = p
      BY <1>3, <3>1
    <3>2. CASE q # p
      BY <1>1, <2>3, <3>2, OtherBuilds DEF BuildIsOfAttested
    <3> QED BY <3>1, <3>2
  <2> QED BY <1>7, <2>4, <2>5, <2>6
<1> QED BY <1>8, <1>9

-----------------------------------------------------------------------------
LEMMA InitIInv == Init => IInv
<1> SUFFICES ASSUME Init PROVE IInv
  OBVIOUS
<1>1. << >> \in Seq(Outcomes) /\ NoJob \in IdleJobs /\ NoJob.op = "none"
  BY DEF NoJob, IdleJobs
<1>2. TypeOK
  BY <1>1 DEF Init, TypeOK, Stages
<1>3. OwnSnapshotsAreThere /\ PublicationsAreOfSomething /\ MarkerIsOfPublication
  BY DEF Init, OwnSnapshotsAreThere, PublicationsAreOfSomething, MarkerIsOfPublication
<1>4. Exclusive /\ CollectIsAhead /\ AttestedStaysSettled /\ BuildIsOfAttested
  BY <1>1 DEF Init, Exclusive, CollectIsAhead, AttestedStaysSettled, BuildIsOfAttested
<1> QED BY <1>2, <1>3, <1>4 DEF IInv

LEMMA NextIInv == IInv /\ [Next]_vars => IInv'
<1> SUFFICES ASSUME IInv, [Next]_vars PROVE IInv'
  OBVIOUS
<1>1. CASE UNCHANGED vars
  <2>1. UNCHANGED Artifacts /\ job' = job
    BY <1>1 DEF vars, perCompany, Artifacts
  <2>2. \A q : Company(q)' = Company(q) /\ Filing(q)' = Filing(q)
    BY <2>1 DEF Company, Filing
  <2>3. \A d, i : Settled(d, i)' <=> Settled(d, i)
    BY <2>1 DEF Settled, Foreign, Artifacts
  <2>4. \A d, B, o : Agree(d, B, o)' <=> Agree(d, B, o)
    BY <2>3 DEF Agree, Overtaken, Snapshots, Foreign
  <2> QED BY <2>1, <2>2, <2>3, <2>4
          DEF IInv, Artifacts, TypeOK, OwnSnapshotsAreThere, Exclusive, CollectIsAhead,
              AttestedStaysSettled, BuildIsOfAttested, PublicationsAreOfSomething, MarkerIsOfPublication
<1>2. ASSUME NEW p \in Procs, StartPrepare(p) \/ Step(p) \/ Trouble(p)
      PROVE  IInv'
  BY <1>2, QuietStep, ExtractStep, RecordingStep, LoadReleaseStep, PublishingStep
     DEF Step, Trouble, Quiet
<1>3. ASSUME NEW p \in Procs, NEW S \in Scopes, NEW given \in BOOLEAN,
             StartCollect(p, S, given) \/ StartBuild(p, S)
      PROVE  IInv'
  BY <1>3, StartCollectStep, StartBuildStep
<1> QED BY <1>1, <1>2, <1>3 DEF Next

(* The inductive invariant: what a run has a snapshot of is settled for    *)
(* ever, and what an unfinished build has published agrees with what its   *)
(* marker will pin, but for filings settled since.                         *)
THEOREM BuildsAgree == Spec => []IInv
BY InitIInv, NextIInv, PTL DEF Spec

(* A company that the status calls READY has a whole publication, of the   *)
(* snapshots that its intake names now.                                    *)
THEOREM ReadyIsBuilt == Spec => []ReadyIsWhatWasBuilt
<1>1. IInv => ReadyIsWhatWasBuilt
  <2> SUFFICES ASSUME IInv, NEW c \in Companies, Ready(c)
               PROVE  publication[c].stage = Stages /\ publication[c].of = Snapshots(c, intake[c])
    BY DEF ReadyIsWhatWasBuilt
  <2>1. marker[c] # None /\ marker[c] = intake[c] /\ Complete(c, intake[c])
    BY DEF Ready, Action, Attested
  <2>2. ~Overtaken(c, intake[c])
    BY DEF Overtaken, Settled
  <2> QED BY <2>1, <2>2 DEF IInv, MarkerIsOfPublication, Agree
<1> QED BY <1>1, BuildsAgree, PTL

-----------------------------------------------------------------------------
(* The discovery of a company's filings (FilingDiscovery).                 *)

\* FilingDiscovery has its own names of the library's operators.
LEMMA OneCardinality ==
  ASSUME NEW S
  PROVE  D!Cardinality(S) = Cardinality(S)
BY DEF D!Cardinality, Cardinality

LEMMA LeastNumber ==
  ASSUME NEW T \in SUBSET Nat, T # {}
  PROVE  \E m \in T : \A n \in T : m <= n
<1>1. PICK m \in T : \A n \in T : ~(<<n, m>> \in OpToRel(<, Nat))
  BY NatLessThanWellFounded, WFMin
<1>2. \A n \in T : ~(n < m)
  BY <1>1 DEF OpToRel
<1>3. \A n \in T : m <= n
  BY <1>2
<1>4. QED
  BY <1>3

LEMMA LargestNumber ==
  ASSUME NEW S \in SUBSET Nat, IsFiniteSet(S), S # {}
  PROVE  \E m \in S : \A n \in S : n <= m
<1> DEFINE Without(A) == A \in SUBSET Nat /\ IsFiniteSet(A) /\ A # {} /\ ~(\E m \in A : \A n \in A : n <= m)
           T == {k \in Nat : \E A \in SUBSET Nat : Without(A) /\ Cardinality(A) = k}
<1> SUFFICES ASSUME Without(S) PROVE FALSE
  OBVIOUS
<1>1. T # {}
  BY FS_CardinalityType
<1>2. PICK k \in T : \A l \in T : k <= l
  BY <1>1, LeastNumber
<1>3. PICK A \in SUBSET Nat : Without(A) /\ Cardinality(A) = k
  BY <1>2
<1>4. PICK x \in A : TRUE
  BY <1>3
<1>5. IsFiniteSet(A \ {x}) /\ Cardinality(A \ {x}) = k - 1
  BY <1>3, <1>4, FS_RemoveElement
<1>6. CASE A \ {x} = {}
  BY <1>3, <1>4, <1>6
<1>7. CASE A \ {x} # {}
  <2>1. k - 1 \in Nat
    BY <1>5, FS_CardinalityType
  <2>2. ~Without(A \ {x})
    <3>1. k - 1 \notin T
      BY <1>2, <2>1
    <3>2. A \ {x} \in SUBSET Nat
      BY <1>3
    <3> HIDE DEF Without
    <3>3. QED
      BY <1>5, <2>1, <3>1, <3>2
  <2>3. PICK m \in A \ {x} : \A n \in A \ {x} : n <= m
    BY <1>5, <1>7, <2>2
  <2>4. \A n \in A : n <= (IF x <= m THEN m ELSE x)
    BY <1>4, <2>3
  <2>5. QED
    BY <1>3, <1>4, <2>3, <2>4
<1>8. QED
  BY <1>6, <1>7

\* A set of k members above which there are none but themselves.
IsTop(A, k, S) == A \in SUBSET S /\ Cardinality(A) = k /\ \A x \in A, y \in S \ A : y < x

LEMMA TopExists ==
  ASSUME NEW S \in SUBSET Nat, IsFiniteSet(S), NEW k \in Nat, k <= Cardinality(S)
  PROVE  \E A \in SUBSET S : IsTop(A, k, S)
<1> DEFINE T == {j \in Nat : j <= Cardinality(S) /\ ~(\E A \in SUBSET S : IsTop(A, j, S))}
<1> SUFFICES ASSUME T # {} PROVE FALSE
  OBVIOUS
<1>1. PICK j \in T : \A i \in T : j <= i
  BY LeastNumber
<1>2. CASE j = 0
  <2>1. IsTop({}, 0, S)
    BY FS_EmptySet DEF IsTop
  <2>2. QED
    BY <1>1, <1>2, <2>1
<1>3. CASE j # 0
  <2>1. j - 1 \in Nat /\ j - 1 \notin T /\ Cardinality(S) \in Nat
    BY <1>1, <1>3, FS_CardinalityType
  <2>2. PICK A \in SUBSET S : IsTop(A, j - 1, S)
    BY <1>1, <2>1
  <2>3. IsFiniteSet(A) /\ Cardinality(A) = j - 1 /\ \A x \in A, y \in S \ A : y < x
    BY <2>2, FS_Subset DEF IsTop
  <2>4. IsFiniteSet(S \ A) /\ S \ A # {} /\ S \ A \in SUBSET Nat
    <3>1. A # S
      BY <1>1, <2>1, <2>3
    <3>2. QED
      BY <3>1, FS_Subset
  <2>5. PICK m \in S \ A : \A n \in S \ A : n <= m
    BY <2>4, LargestNumber
  <2>6. Cardinality(A \cup {m}) = j
    <3>1. Cardinality(A \cup {m}) = Cardinality(A) + 1
      BY <2>3, <2>5, FS_AddElement
    <3>2. QED
      BY <1>1, <2>3, <3>1
  <2>7. \A x \in A \cup {m}, y \in S \ (A \cup {m}) : y < x
    BY <2>3, <2>5
  <2>8. IsTop(A \cup {m}, j, S)
    BY <2>5, <2>6, <2>7 DEF IsTop
  <2>9. QED
    BY <1>1, <2>5, <2>8
<1>4. QED
  BY <1>2, <1>3

\* A report is left out exactly if more than the years asked for ended with it
\* or later (select_trailing_fiscal_filings).
LEMMA TrailingYears ==
  ASSUME NEW ends \in SUBSET Nat, IsFiniteSet(ends), Years <= Cardinality(ends), NEW report \in Nat
  PROVE  LET before == ends \ D!NewestYears(ends)
         IN  before = {} \/ report > D!Max(before)
               <=> Cardinality({x \in ends : x >= report}) <= Years
<1> DEFINE top == D!NewestYears(ends)
           before == ends \ top
           later == {x \in ends : x >= report}
<1>1. IsTop(top, Years, ends)
  <2>1. PICK A \in SUBSET ends : IsTop(A, Years, ends)
    BY TopExists, DiscoveryAssumption
  <2>2. A \in D!kSubset(Years, ends) /\ \A x \in A, y \in ends \ A : y < x
    BY <2>1, OneCardinality DEF IsTop, D!kSubset
  <2>3. top \in D!kSubset(Years, ends) /\ \A x \in top, y \in ends \ top : y < x
    BY <2>2 DEF D!NewestYears
  <2>4. QED
    BY <2>3, OneCardinality DEF IsTop, D!kSubset
<1> HIDE DEF top
<1>2. /\ top \in SUBSET ends /\ IsFiniteSet(top) /\ Cardinality(top) = Years
      /\ \A x \in top, y \in before : y < x
  BY <1>1, FS_Subset DEF IsTop
<1>3. IsFiniteSet(later) /\ Cardinality(later) \in Nat /\ Years \in Nat
  BY FS_Subset, FS_CardinalityType, DiscoveryAssumption
<1>4. CASE before = {}
  <2>1. later \in SUBSET top
    BY <1>2, <1>4
  <2>2. Cardinality(later) <= Years
    BY <1>2, <2>1, FS_Subset
  <2>3. QED
    BY <1>4, <2>2 DEF top
<1>5. CASE before # {}
  <2>1. IsFiniteSet(before) /\ before \in SUBSET Nat
    BY FS_Subset
  <2>2. PICK m \in before : \A y \in before : y <= m
    BY <1>5, <2>1, LargestNumber
  <2>3. D!Max(before) \in before /\ \A y \in before : D!Max(before) >= y
    <3>1. \A y \in before : m >= y
      BY <2>1, <2>2
    <3>2. QED
      BY <2>2, <3>1 DEF D!Max
  <2> DEFINE max == D!Max(before)
  <2> HIDE DEF max, before, later
  <2>4. max \in before /\ max \in Nat /\ \A y \in before : y <= max
    BY <2>1, <2>3 DEF max
  <2>5. CASE report > max
    <3>1. later \in SUBSET top
      <4>1. \A x \in before : ~(x >= report)
        BY <2>1, <2>4, <2>5
      <4>2. QED
        BY <4>1 DEF later, before
    <3>2. Cardinality(later) <= Years
      BY <1>2, <3>1, FS_Subset
    <3>3. QED
      BY <2>5, <3>2 DEF max, before, later, top
  <2>6. CASE report <= max
    <3>1. top \cup {max} \in SUBSET later
      BY <1>2, <2>4, <2>6 DEF later, before
    <3>2. Cardinality(top \cup {max}) = Years + 1
      <4>1. max \notin top
        BY <2>4 DEF before
      <4>2. QED
        BY <1>2, <4>1, FS_AddElement
    <3>3. Years + 1 <= Cardinality(later)
      BY <1>3, <3>1, <3>2, FS_Subset
    <3>4. ~(Cardinality(later) <= Years) /\ ~(report > max)
      BY <1>3, <2>4, <2>6, <3>3
    <3>5. QED
      BY <1>5, <3>4 DEF max, before, later, top
  <2>7. QED
    BY <2>4, <2>5, <2>6
<1>6. QED
  BY <1>4, <1>5

Numbers(payloads) == {r.n : r \in D!Rows(payloads)}
RowsOK(payloads) == \A r \in D!Rows(payloads) : r.n \in Nat \ {0} /\ r.report \in Nat

Discovering ==
  discovery # D!Idle =>
    /\ discovery = [pc |-> discovery.pc, online |-> discovery.online, day |-> discovery.day,
                     began |-> discovery.began, got |-> discovery.got]
    /\ discovery.pc \in {"root", "older", "select"} /\ discovery.online \in BOOLEAN
    /\ discovery.day \in AsOfs /\ discovery.began \in 0 .. Len(sec)
    /\ discovery.pc # "select" => discovery.online

\* Over the network: what has been fetched is all that was there when the root
\* payload was, but for what the other file, by now longer, will show.
Fetched ==
  discovery # D!Idle /\ discovery.online =>
    /\ RowsOK(discovery.got)
    /\ discovery.pc = "root" => discovery.got = {}
    /\ discovery.pc = "older" => \E l \in discovery.began .. Len(sec) :
                                  \A n \in 1 .. l : n + Newest > l => n \in Numbers(discovery.got)
    /\ discovery.pc = "select" => 1 .. discovery.began \subseteq Numbers(discovery.got)

DiscoveryInv == sec \in Seq(Submittable) /\ Discovering /\ Fetched /\ D!PlanIsComplete

-----------------------------------------------------------------------------
LEMMA DiscoveryInit ==
  D!Init => DiscoveryInv
<1> SUFFICES ASSUME D!Init PROVE DiscoveryInv
  OBVIOUS
<1>1. sec \in Seq(Submittable)
  <2>1. PICK n \in 1 .. (Newest + 1) : sec \in [1 .. n -> Submittable]
    BY DEF D!Init
  <2>2. n \in Nat
    BY <2>1, DiscoveryAssumption
  <2>3. QED
    BY <2>1, <2>2
<1>2. discovery = D!Idle /\ ~found.online
  BY DEF D!Init, D!NoPlan
<1>3. QED
  BY <1>1, <1>2 DEF DiscoveryInv, Discovering, Fetched, D!PlanIsComplete

LEMMA PlanStands ==
  ASSUME D!PlanIsComplete, UNCHANGED found
  PROVE  D!PlanIsComplete'
BY DEF D!PlanIsComplete, D!Rows, D!YearEnds, D!Agree

\* SEC's steps: filings are added and corrected, never taken away.
LEMMA ServingKeeps ==
  ASSUME DiscoveryInv, D!Submit \/ D!Correct
  PROVE  DiscoveryInv'
<1>1. UNCHANGED <<discovery, found>>
  BY DEF D!Submit, D!Correct
<1>2. sec' \in Seq(Submittable) /\ Len(sec) <= Len(sec')
  <2>1. CASE D!Submit
    BY <2>1 DEF D!Submit, DiscoveryInv
  <2>2. CASE D!Correct
    BY <2>2 DEF D!Correct, DiscoveryInv
  <2>3. QED
    BY <2>1, <2>2
<1>3. Len(sec) \in Nat /\ Len(sec') \in Nat
  BY <1>2 DEF DiscoveryInv
<1>4. Discovering'
  BY <1>1, <1>2, <1>3 DEF DiscoveryInv, Discovering
<1>5. Fetched'
  BY <1>1, <1>2, <1>3 DEF DiscoveryInv, Discovering, Fetched, RowsOK, Numbers, D!Rows
<1>6. D!PlanIsComplete'
  BY <1>1, PlanStands DEF DiscoveryInv
<1>7. QED
  BY <1>2, <1>4, <1>5, <1>6 DEF DiscoveryInv

LEMMA DiscoverKeeps ==
  ASSUME DiscoveryInv, NEW online \in BOOLEAN, NEW day \in AsOfs, D!Discover(online, day)
  PROVE  DiscoveryInv'
<1>1. /\ UNCHANGED <<sec, found>>
      /\ discovery' = [pc |-> IF online THEN "root" ELSE "select", online |-> online, day |-> day,
                       began |-> Len(sec), got |-> IF online THEN {} ELSE stored]
  BY DEF D!Discover
<1>2. Len(sec) \in Nat /\ sec' \in Seq(Submittable)
  BY <1>1 DEF DiscoveryInv
<1>3. Discovering'
  BY <1>1, <1>2 DEF Discovering
<1>4. Fetched'
  BY <1>1 DEF Fetched, RowsOK, D!Rows
<1>5. D!PlanIsComplete'
  BY <1>1, PlanStands DEF DiscoveryInv
<1>6. QED
  BY <1>2, <1>3, <1>4, <1>5 DEF DiscoveryInv

\* The rows of both payloads, as numbers.
LEMMA PayloadRows ==
  ASSUME sec \in Seq(Submittable)
  PROVE  /\ \A n \in DOMAIN sec : D!Row(n).n \in Nat \ {0} /\ D!Row(n).n = n /\ D!Row(n).report \in Nat
         /\ D!RootPayload.rows = {D!Row(n) : n \in DOMAIN sec \ D!Older}
         /\ D!RootPayload.files = (D!Older # {})
         /\ D!OlderPayload.rows = {D!Row(n) : n \in D!Older}
         /\ D!Older \subseteq DOMAIN sec
<1>1. \A n \in DOMAIN sec : n \in Nat \ {0} /\ sec[n] \in Submittable
  OBVIOUS
<1>2. \A n \in DOMAIN sec : D!Row(n).n = n /\ D!Row(n).report = sec[n].report
  BY DEF D!Row
<1>3. QED
  BY <1>1, <1>2, DiscoveryAssumption DEF D!RootPayload, D!OlderPayload, D!Older

LEMMA FetchRootKeeps ==
  ASSUME DiscoveryInv, D!FetchRoot
  PROVE  DiscoveryInv'
<1> DEFINE next == IF D!RootPayload.files THEN "older" ELSE "select"
<1>1. /\ UNCHANGED <<sec, found>> /\ discovery # D!Idle /\ discovery.pc = "root"
      /\ discovery' = [discovery EXCEPT !.pc = next, !.got = @ \cup {D!RootPayload}]
  BY DEF D!FetchRoot, D!Keep, D!Idle
<1>2. /\ discovery.got = {} /\ discovery.online = TRUE /\ discovery.began \in 0 .. Len(sec)
      /\ Len(sec) \in Nat /\ sec \in Seq(Submittable) /\ discovery.day \in AsOfs
  BY <1>1 DEF DiscoveryInv, Discovering, Fetched
<1>3. discovery' = [pc |-> next, online |-> TRUE, day |-> discovery.day,
                    began |-> discovery.began, got |-> {D!RootPayload}]
  BY <1>1, <1>2 DEF DiscoveryInv, Discovering
<1>4. /\ discovery'.pc = next /\ discovery'.online = TRUE /\ discovery'.day = discovery.day
      /\ discovery'.began = discovery.began /\ discovery'.got = {D!RootPayload}
  BY <1>3
<1>5. Discovering'
  BY <1>1, <1>2, <1>3, <1>4 DEF Discovering
<1>6. D!Rows({D!RootPayload}) = {D!Row(n) : n \in DOMAIN sec \ D!Older}
  BY <1>2, PayloadRows DEF D!Rows
<1>7. RowsOK({D!RootPayload})
  BY <1>2, <1>6, PayloadRows DEF RowsOK
<1>8. \A n \in DOMAIN sec \ D!Older : n \in Numbers({D!RootPayload})
  BY <1>2, <1>6, PayloadRows DEF Numbers
<1>9. Fetched'
  <2>1. CASE D!Older # {}
    <3>1. \A n \in 1 .. Len(sec) : n + Newest > Len(sec) => n \in DOMAIN sec \ D!Older
      BY <1>2, DiscoveryAssumption DEF D!Older
    <3>2. next = "older"
      BY <1>2, <2>1, PayloadRows
    <3>3. QED
      BY <1>1, <1>2, <1>4, <1>7, <1>8, <3>1, <3>2 DEF Fetched, RowsOK, Numbers, D!Rows
  <2>2. CASE D!Older = {}
    <3>1. next = "select"
      BY <1>2, <2>2, PayloadRows
    <3>2. 1 .. discovery.began \subseteq DOMAIN sec
      BY <1>2
    <3>3. QED
      BY <1>2, <1>4, <1>7, <1>8, <2>2, <3>1, <3>2 DEF Fetched, RowsOK, Numbers, D!Rows
  <2>3. QED
    BY <2>1, <2>2
<1>10. D!PlanIsComplete'
  BY <1>1, PlanStands DEF DiscoveryInv
<1>11. QED
  BY <1>1, <1>2, <1>5, <1>9, <1>10 DEF DiscoveryInv

LEMMA FetchOlderKeeps ==
  ASSUME DiscoveryInv, D!FetchOlder
  PROVE  DiscoveryInv'
<1>1. /\ UNCHANGED <<sec, found>> /\ discovery # D!Idle /\ discovery.pc = "older"
      /\ discovery' = [discovery EXCEPT !.pc = "select", !.got = @ \cup {D!OlderPayload}]
  BY DEF D!FetchOlder, D!Keep, D!Idle
<1>2. /\ discovery.online = TRUE /\ discovery.began \in 0 .. Len(sec) /\ RowsOK(discovery.got)
      /\ Len(sec) \in Nat /\ sec \in Seq(Submittable) /\ discovery.day \in AsOfs
  BY <1>1 DEF DiscoveryInv, Discovering, Fetched
<1>3. PICK l \in discovery.began .. Len(sec) :
        \A n \in 1 .. l : n + Newest > l => n \in Numbers(discovery.got)
  BY <1>1, <1>2 DEF DiscoveryInv, Fetched
<1>4. discovery' = [pc |-> "select", online |-> TRUE, day |-> discovery.day,
                    began |-> discovery.began, got |-> discovery.got \cup {D!OlderPayload}]
  BY <1>1, <1>2 DEF DiscoveryInv, Discovering
<1>5. /\ discovery'.pc = "select" /\ discovery'.online = TRUE /\ discovery'.day = discovery.day
      /\ discovery'.began = discovery.began /\ discovery'.got = discovery.got \cup {D!OlderPayload}
  BY <1>4
<1>6. Discovering'
  BY <1>1, <1>2, <1>4, <1>5 DEF Discovering
<1>7. D!Rows(discovery'.got) = D!Rows(discovery.got) \cup {D!Row(n) : n \in D!Older}
  <2>1. D!OlderPayload.rows = {D!Row(n) : n \in D!Older}
    BY <1>2, PayloadRows
  <2>2. D!Rows(discovery.got \cup {D!OlderPayload}) = D!Rows(discovery.got) \cup D!OlderPayload.rows
    BY DEF D!Rows
  <2>3. QED
    BY <1>5, <2>1, <2>2
<1>8. RowsOK(discovery'.got)
  <2>1. \A n \in D!Older : D!Row(n).n \in Nat \ {0} /\ D!Row(n).report \in Nat
    BY <1>2, PayloadRows
  <2>2. \A r \in D!Rows(discovery.got) : r.n \in Nat \ {0} /\ r.report \in Nat
    BY <1>2 DEF RowsOK
  <2>3. QED
    BY <1>7, <2>1, <2>2 DEF RowsOK
<1>9. ASSUME NEW n \in 1 .. discovery.began
      PROVE  n \in Numbers(discovery'.got)
  <2>1. n \in 1 .. l /\ n \in DOMAIN sec
    BY <1>2, <1>3
  <2>2. CASE n + Newest > l
    <3>1. n \in Numbers(discovery.got)
      BY <1>3, <2>1, <2>2
    <3>2. QED
      BY <1>7, <3>1 DEF Numbers
  <2>3. CASE ~(n + Newest > l)
    <3>1. n \in D!Older
      BY <1>2, <1>3, <2>1, <2>3, DiscoveryAssumption DEF D!Older
    <3>2. D!Row(n) \in D!Rows(discovery'.got) /\ D!Row(n).n = n
      BY <1>2, <1>7, <2>1, <3>1, PayloadRows
    <3>3. QED
      BY <3>2 DEF Numbers
  <2>4. QED
    BY <2>2, <2>3
<1>10. Fetched'
  BY <1>5, <1>8, <1>9 DEF Fetched, RowsOK, Numbers, D!Rows
<1>11. D!PlanIsComplete'
  BY <1>1, PlanStands DEF DiscoveryInv
<1>12. QED
  BY <1>1, <1>2, <1>6, <1>10, <1>11 DEF DiscoveryInv

\* As many rows as numbers, so finitely many ends.
LEMMA EndsAreFinite ==
  ASSUME NEW rows, NEW day \in Nat, D!Agree(rows),
         \A r \in rows : r.n \in 1 .. day /\ r.report \in Nat
  PROVE  D!YearEnds(rows) \in SUBSET Nat /\ IsFiniteSet(D!YearEnds(rows))
<1> DEFINE annual == {s \in rows : s.form = "10-K" /\ s.report # 0}
           number == [r \in rows |-> r.n]
           end == [s \in annual |-> s.report]
<1>1. number \in Injection(rows, 1 .. day)
  BY DEF Injection, IsInjective, D!Agree
<1>2. IsFiniteSet(rows)
  BY <1>1, FS_Interval, FS_Injection
<1>3. IsFiniteSet(annual)
  BY <1>2, FS_Subset
<1>4. D!YearEnds(rows) = {s.report : s \in annual}
  BY DEF D!YearEnds
<1>5. end \in Surjection(annual, D!YearEnds(rows))
  BY <1>4 DEF Surjection
<1>6. QED
  BY <1>3, <1>4, <1>5, FS_Surjection

LEMMA WritePlanKeeps ==
  ASSUME DiscoveryInv, D!WritePlan
  PROVE  DiscoveryInv'
<1> DEFINE rows == {r \in D!Rows(discovery.got) : r.n <= discovery.day}
           ends == D!YearEnds(rows)
           before == ends \ D!NewestYears(ends)
<1>1. sec' = sec /\ discovery' = D!Idle /\ discovery # D!Idle /\ discovery.pc = "select"
  BY DEF D!WritePlan, D!Idle
<1>2. CASE found' = found
  BY <1>1, <1>2, PlanStands DEF DiscoveryInv, Discovering, Fetched
<1>3. CASE found' # found
  <2>1. /\ found' = [online |-> discovery.online, day |-> discovery.day, began |-> discovery.began,
                     from |-> discovery.got, filings |-> D!Trailing(rows)]
        /\ D!Agree(D!Rows(discovery.got)) /\ D!Cardinality(ends) >= Years
    BY <1>3 DEF D!WritePlan
  <2>2. /\ found'.online = discovery.online /\ found'.day = discovery.day
        /\ found'.began = discovery.began /\ found'.from = discovery.got
        /\ found'.filings = D!Trailing(rows)
    BY <2>1
  <2>3. ASSUME discovery.online, discovery.day <= discovery.began
        PROVE  /\ {r.n : r \in rows} = 1 .. discovery.day /\ D!Agree(rows)
               /\ \A r \in rows : r \in D!Trailing(rows) <=>
                    r.report = 0 \/ D!Cardinality({x \in ends : x >= r.report}) <= Years
    <3>1. /\ RowsOK(discovery.got) /\ 1 .. discovery.began \subseteq Numbers(discovery.got)
          /\ discovery.day \in Nat /\ discovery.began \in Nat
      BY <1>1, <2>3, DiscoveryAssumption DEF DiscoveryInv, Discovering, Fetched
    <3>2. \A r \in rows : r.n \in 1 .. discovery.day /\ r.report \in Nat
      BY <3>1 DEF RowsOK
    <3>3. {r.n : r \in rows} = 1 .. discovery.day
      <4>1. ASSUME NEW n \in 1 .. discovery.day
            PROVE  \E r \in rows : r.n = n
        <5>1. n \in 1 .. discovery.began /\ n <= discovery.day
          BY <2>3, <3>1
        <5>2. PICK r \in D!Rows(discovery.got) : r.n = n
          BY <3>1, <5>1 DEF Numbers
        <5>3. QED
          BY <5>1, <5>2
      <4>2. QED
        BY <3>2, <4>1
    <3>4. D!Agree(rows)
      BY <2>1 DEF D!Agree
    <3> HIDE DEF rows
    <3>5. ends \in SUBSET Nat /\ IsFiniteSet(ends) /\ Years <= Cardinality(ends)
      <4>1. ends \in SUBSET Nat /\ IsFiniteSet(ends)
        BY <3>1, <3>2, <3>4, EndsAreFinite
      <4>2. QED
        BY <2>1, <4>1, OneCardinality, FS_CardinalityType, DiscoveryAssumption
    <3>6. D!Trailing(rows) = {r \in rows : before = {} \/ r.report = 0 \/ r.report > D!Max(before)}
      BY DEF D!Trailing
    <3> HIDE DEF ends
    <3>7. ASSUME NEW r \in rows
          PROVE  r \in D!Trailing(rows) <=>
                   r.report = 0 \/ D!Cardinality({x \in ends : x >= r.report}) <= Years
      <4>1. before = {} \/ r.report > D!Max(before)
              <=> Cardinality({x \in ends : x >= r.report}) <= Years
        BY <3>2, <3>5, TrailingYears
      <4>2. QED
        BY <3>6, <4>1, OneCardinality
    <3>8. QED
      BY <3>3, <3>4, <3>7
  <2>4. D!PlanIsComplete'
    BY <2>2, <2>3 DEF D!PlanIsComplete, D!Rows, D!YearEnds, D!Agree
  <2>5. QED
    BY <1>1, <2>4 DEF DiscoveryInv, Discovering, Fetched
<1>4. QED
  BY <1>2, <1>3

LEMMA DiscoveryNext ==
  DiscoveryInv /\ [D!Next]_D!vars => DiscoveryInv'
<1> SUFFICES ASSUME DiscoveryInv, [D!Next]_D!vars PROVE DiscoveryInv'
  OBVIOUS
<1>1. CASE D!Interrupted
  <2>1. UNCHANGED <<sec, found>> /\ discovery' = D!Idle
    BY <1>1 DEF D!Interrupted
  <2>2. QED
    BY <2>1, PlanStands DEF DiscoveryInv, Discovering, Fetched
<1>2. CASE UNCHANGED D!vars
  <2>1. UNCHANGED <<sec, found, discovery>>
    BY <1>2 DEF D!vars
  <2>2. QED
    BY <2>1, PlanStands DEF DiscoveryInv, Discovering, Fetched, RowsOK, Numbers, D!Rows
<1>3. QED
  BY <1>1, <1>2, ServingKeeps, DiscoverKeeps, FetchRootKeeps, FetchOlderKeeps, WritePlanKeeps DEF D!Next

\* What a discovery fetches, for any filings and corrections meanwhile
\* (CompanySubmissionsCollector.collect).
THEOREM DiscoveryStaysComplete ==
  MCSpec => [](part = "discovery" => DiscoveryInv)
<1>1. MCInit => (part = "discovery" => DiscoveryInv)
  BY DiscoveryInit DEF MCInit
<1>2. (part = "discovery" => DiscoveryInv) /\ [MCNext]_mcvars => (part = "discovery" => DiscoveryInv)'
  <2>1. ASSUME [MCNext]_mcvars
        PROVE  /\ part' = part
               /\ part = "discovery" => [D!Next]_D!vars
    <3>1. CASE MCNext
      BY <3>1 DEF MCNext
    <3>2. CASE UNCHANGED mcvars
      BY <3>2 DEF mcvars, discoveryVars, D!vars
    <3>3. QED
      BY <2>1, <3>1, <3>2
  <2>2. QED
    BY <2>1, DiscoveryNext
<1>3. QED
  BY <1>1, <1>2, PTL DEF MCSpec

\* A plan made over the network misses no filing of its years, takes none in two
\* versions, and leaves one out only for more years than were asked for
\* (discover_history, select_trailing_fiscal_filings).
THEOREM PlansAreComplete ==
  MCSpec => []PlanIsComplete
<1>1. (part = "discovery" => DiscoveryInv) => PlanIsComplete
  BY DEF PlanIsComplete, DiscoveryInv
<1>2. QED
  BY <1>1, DiscoveryStaysComplete, PTL

-----------------------------------------------------------------------------
(* The identity of a company's elements (CompanyIdentity, ReportedViews). *)
Raws == [filing : Nat, row : Nat]
Element == [raw : Raws, row : V!Row, ambiguous : BOOLEAN]
Relations == {"SAME", "RENAMED", "UNCERTAIN"} \cup {r.doc.relation : r \in V!Row}
Methods == {"DOCUMENTED", "EXACT", "NAMESPACE", "CUSTOM", "CHANGED", "TEXT", "AMBIGUOUS", "BASELINE"}
Events ==
  {"NEW", "SEGMENT_RECAST", "UNKNOWN_CHANGE", "MEMBER_RENAME", "ROLE_RESTRUCTURE", "none"}
  \cup Relations
Mapped ==
  [raw : Raws, row : V!Row, ambiguous : BOOLEAN, id : [raw : Raws, recast : BOOLEAN],
   relation : Relations, method : Methods, break : BOOLEAN, event : Events, review : BOOLEAN]

LEMMA NewestFound ==
  ASSUME NEW n \in Nat, NEW S \in SUBSET (1 .. n)
  PROVE  /\ V!NewestOf(S) \in 0 .. n
         /\ S = {} <=> V!NewestOf(S) = 0
         /\ S # {} => V!NewestOf(S) \in S /\ \A x \in S : x <= V!NewestOf(S)
<1>1. CASE S = {}
  BY <1>1 DEF V!NewestOf
<1>2. CASE S # {}
  <2> DEFINE Below == {n - x : x \in S}
  <2>0. Below \in SUBSET Nat /\ Below # {}
    <3>1. \A x \in S : x \in Nat /\ x <= n /\ n - x \in Nat
      OBVIOUS
    <3>2. QED
      BY <1>2, <3>1
  <2>1. PICK m \in Below : \A y \in Below : m <= y
    <3> HIDE DEF Below
    <3>1. QED
      BY <2>0, LeastNumber
  <2>2. PICK w \in S : m = n - w
    BY <2>1
  <2>3. \A y \in S : w >= y
    BY <2>1, <2>2
  <2>4. V!NewestOf(S) = V!Max(S)
    BY <1>2 DEF V!NewestOf
  <2>5. V!Max(S) \in S /\ \A y \in S : V!Max(S) >= y
    BY <2>3 DEF V!Max
  <2>6. QED
    <3>1. V!NewestOf(S) \in S /\ V!NewestOf(S) # 0
      BY <2>4, <2>5
    <3>2. \A x \in S : x <= V!NewestOf(S)
      <4>1. \A x \in S : x \in Int
        OBVIOUS
      <4>2. QED
        BY <2>4, <2>5, <3>1, <4>1
    <3>3. V!NewestOf(S) \in 0 .. n
      <4>1. S \subseteq 0 .. n
        OBVIOUS
      <4>2. QED
        BY <3>1, <4>1
    <3>4. QED
      BY <1>2, <3>1, <3>2, <3>3
<1>3. QED
  BY <1>1, <1>2

\* The rows of e's kind that are evidence of each sort for it.
Kin(t, e) == {i \in 1 .. Len(t) : t[i].row.kind = e.row.kind}
StandardMatch(x, y) == V!ExactStandard(x, y) \/ V!NamespaceContinuity(x, y)

LEMMA DecisionFields ==
  ASSUME NEW prior, NEW relation, NEW method,
         NEW d, d = V!Decision(prior, relation, method)
  PROVE  /\ d.prior = prior /\ d.relation = relation /\ d.method = method
         /\ d.confirmed \in BOOLEAN /\ d.break \in BOOLEAN
         /\ method \in {"TEXT", "CHANGED"} => ~d.confirmed
         /\ method # "DOCUMENTED" => ~d.break
BY DEF V!Decision

\* The newest prior row that may share its id with an element nobody documents.
Continued(t, e, p) ==
  \/ /\ StandardMatch(e.row, t[p].row)
     /\ \A i \in Kin(t, e) : i > p => ~StandardMatch(e.row, t[i].row)
  \/ /\ V!CustomContinuity(e, t[p])
     /\ \A i \in Kin(t, e) : i > p => ~V!OwnAlike(t[i], e)

LEMMA CandidateFound ==
  ASSUME NEW t \in Seq(Mapped), NEW e \in Element, NEW d, d = V!BestCandidate(t, e)
  PROVE  /\ d.prior \in {0} \cup Kin(t, e)
         /\ d.confirmed \in BOOLEAN /\ d.break \in BOOLEAN
         /\ d.relation \in Relations /\ d.method \in Methods
         /\ d.break => e.row.doc # V!NoDoc
         /\ d.prior # 0 /\ d.confirmed /\ e.row.doc = V!NoDoc => Continued(t, e, d.prior)
<1> DEFINE K == V!OfKind(t, e.row.kind)
           documented == V!Documented(K, e)
           standard == V!Standard(K, e)
           custom == V!Custom(K, e)
           text == V!SameText(K, e)
<1>1. Len(t) \in Nat /\ DOMAIN t = 1 .. Len(t)
  OBVIOUS
<1>2. DOMAIN K = Kin(t, e) /\ (\A i \in Kin(t, e) : K[i] = t[i]) /\ Kin(t, e) \in SUBSET (1 .. Len(t))
  BY <1>1 DEF V!OfKind, Kin
<1> HIDE DEF K
<1>3. /\ documented \in {0} \cup Kin(t, e)
      /\ documented # 0 => e.row.doc # V!NoDoc
  <2>1. documented = V!NewestOf({i \in Kin(t, e) : e.row.doc # V!NoDoc /\ K[i].row.name = e.row.doc.prior})
    BY <1>2 DEF V!Documented
  <2>2. QED
    BY <1>1, <1>2, <2>1, NewestFound
<1>4. /\ standard \in {0} \cup Kin(t, e)
      /\ standard # 0 => StandardMatch(e.row, t[standard].row)
      /\ \A i \in Kin(t, e) : i > standard => ~StandardMatch(e.row, t[i].row)
  <2> DEFINE S == {i \in Kin(t, e) : StandardMatch(e.row, t[i].row)}
  <2>1. S = {i \in DOMAIN K : V!ExactStandard(e.row, K[i].row) \/ V!NamespaceContinuity(e.row, K[i].row)}
    BY <1>2 DEF StandardMatch
  <2>2. standard = V!NewestOf(S)
    BY <2>1 DEF V!Standard
  <2>3. /\ V!NewestOf(S) \in 0 .. Len(t)
        /\ S = {} <=> V!NewestOf(S) = 0
        /\ S # {} => V!NewestOf(S) \in S /\ \A x \in S : x <= V!NewestOf(S)
    BY <1>1, <1>2, NewestFound
  <2> HIDE DEF standard
  <2>4. standard = 0 \/ standard \in S
    BY <2>2, <2>3
  <2>5. \A i \in S : ~(i > standard)
    <3>1. \A i \in S : i \in Int /\ i <= standard
      BY <1>1, <1>2, <2>2, <2>3
    <3>2. standard \in Int
      BY <1>1, <2>2, <2>3
    <3>3. QED
      BY <3>1, <3>2
  <2>6. QED
    BY <2>4, <2>5
<1>5. /\ custom \in {0} \cup Kin(t, e)
      /\ \A i \in Kin(t, e) : i > custom /\ ~e.row.standard => ~V!OwnAlike(t[i], e)
  <2> DEFINE S == {i \in Kin(t, e) : ~e.row.standard /\ ~t[i].row.standard /\ t[i].row.name = e.row.name}
  <2>1. S = {i \in DOMAIN K : ~e.row.standard /\ ~K[i].row.standard /\ K[i].row.name = e.row.name}
    BY <1>2
  <2>2. custom = V!NewestOf(S)
    BY <2>1 DEF V!Custom
  <2>3. /\ V!NewestOf(S) \in 0 .. Len(t)
        /\ S = {} <=> V!NewestOf(S) = 0
        /\ S # {} => V!NewestOf(S) \in S /\ \A x \in S : x <= V!NewestOf(S)
    BY <1>1, <1>2, NewestFound
  <2> HIDE DEF custom
  <2>4. custom = 0 \/ custom \in S
    BY <2>2, <2>3
  <2>5. \A i \in S : ~(i > custom)
    <3>1. \A i \in S : i \in Int /\ i <= custom
      BY <1>1, <1>2, <2>2, <2>3
    <3>2. custom \in Int
      BY <1>1, <2>2, <2>3
    <3>3. QED
      BY <3>1, <3>2
  <2>6. ASSUME NEW i \in Kin(t, e), i > custom, ~e.row.standard PROVE ~V!OwnAlike(t[i], e)
    BY <2>5, <2>6 DEF V!OwnAlike
  <2>7. QED
    BY <2>4, <2>6
<1>6. text \in {0} \cup Kin(t, e)
  <2>1. text = V!NewestOf({i \in Kin(t, e) : V!Text(K[i].row) = V!Text(e.row)})
    BY <1>2 DEF V!SameText
  <2>2. QED
    BY <1>1, <1>2, <2>1, NewestFound
<1>7. e.row.doc.relation \in Relations
  BY DEF Element, Relations
<1> HIDE DEF documented, standard, custom, text
<1>8. CASE documented # 0
  <2>1. d = V!Decision(documented, e.row.doc.relation, "DOCUMENTED")
    BY <1>8 DEF V!BestCandidate, documented, K
  <2>2. QED
    <3>1. /\ d.prior = documented /\ d.relation = e.row.doc.relation /\ d.method = "DOCUMENTED"
          /\ d.confirmed \in BOOLEAN /\ d.break \in BOOLEAN
      BY <2>1, DecisionFields
    <3>2. d.relation \in Relations /\ d.method \in Methods
      BY <1>7, <3>1 DEF Relations, Methods
    <3>3. QED
      BY <1>3, <1>8, <3>1, <3>2
<1>9. CASE documented = 0 /\ standard # 0
  <2>1. PICK method \in {"EXACT", "NAMESPACE"} : d = V!Decision(standard, "SAME", method)
    BY <1>9 DEF V!BestCandidate, documented, standard, K
  <2>2. Continued(t, e, standard)
    BY <1>4, <1>9 DEF Continued
  <2>3. QED
    <3>1. /\ d.prior = standard /\ d.relation = "SAME" /\ d.method = method
          /\ d.confirmed \in BOOLEAN /\ d.break \in BOOLEAN
          /\ ~d.break
      BY <2>1, DecisionFields
    <3>2. d.relation \in Relations /\ d.method \in Methods
      BY <1>7, <3>1 DEF Relations, Methods
    <3>3. QED
      BY <1>4, <1>9, <2>2, <3>1, <3>2
<1>10. CASE documented = 0 /\ standard = 0 /\ custom # 0 /\ V!CustomContinuity(e, t[custom])
  <2>0. K[custom] = t[custom]
    BY <1>2, <1>5, <1>10
  <2>1. PICK relation \in {"SAME", "RENAMED"} : d = V!Decision(custom, relation, "CUSTOM")
    BY <1>10, <2>0 DEF V!BestCandidate, documented, standard, custom, K
  <2>2. ~e.row.standard
    BY <1>10 DEF V!CustomContinuity
  <2>3. Continued(t, e, custom)
    BY <1>5, <1>10, <2>2 DEF Continued
  <2>4. QED
    <3>1. /\ d.prior = custom /\ d.relation = relation /\ d.method = "CUSTOM"
          /\ d.confirmed \in BOOLEAN /\ d.break \in BOOLEAN
          /\ ~d.break
      BY <2>1, DecisionFields
    <3>2. d.relation \in Relations /\ d.method \in Methods
      BY <1>7, <3>1 DEF Relations, Methods
    <3>3. QED
      BY <1>5, <1>10, <2>3, <3>1, <3>2
<1>11. CASE documented = 0 /\ standard = 0 /\ custom # 0 /\ ~V!CustomContinuity(e, t[custom])
  <2>0. K[custom] = t[custom]
    BY <1>2, <1>5, <1>11
  <2>1. d = V!Decision(custom, "UNCERTAIN", "CHANGED")
    BY <1>11, <2>0 DEF V!BestCandidate, documented, standard, custom, K
  <2>2. QED
    <3>1. /\ d.prior = custom /\ d.relation = "UNCERTAIN" /\ d.method = "CHANGED"
          /\ d.confirmed \in BOOLEAN /\ d.break \in BOOLEAN
          /\ ~d.confirmed /\ ~d.break
      BY <2>1, DecisionFields
    <3>2. d.relation \in Relations /\ d.method \in Methods
      BY <1>7, <3>1 DEF Relations, Methods
    <3>3. QED
      BY <1>5, <1>11, <3>1, <3>2
<1>12. CASE documented = 0 /\ standard = 0 /\ custom = 0 /\ text # 0
  <2>1. d = V!Decision(text, "UNCERTAIN", "TEXT")
    BY <1>12 DEF V!BestCandidate, documented, standard, custom, text, K
  <2>2. QED
    <3>1. /\ d.prior = text /\ d.relation = "UNCERTAIN" /\ d.method = "TEXT"
          /\ d.confirmed \in BOOLEAN /\ d.break \in BOOLEAN
          /\ ~d.confirmed /\ ~d.break
      BY <2>1, DecisionFields
    <3>2. d.relation \in Relations /\ d.method \in Methods
      BY <1>7, <3>1 DEF Relations, Methods
    <3>3. QED
      BY <1>6, <1>12, <3>1, <3>2
<1>13. CASE documented = 0 /\ standard = 0 /\ custom = 0 /\ text = 0
  <2>1. PICK relation \in {"UNCERTAIN", "SAME"}, method \in {"AMBIGUOUS", "BASELINE"} :
          d = V!Decision(0, relation, method)
    BY <1>13 DEF V!BestCandidate, documented, standard, custom, text, K
  <2>2. QED
    <3>1. /\ d.prior = 0 /\ d.relation = relation /\ d.method = method
          /\ d.confirmed \in BOOLEAN /\ d.break \in BOOLEAN
          /\ ~d.break
      BY <2>1, DecisionFields
    <3>2. d.relation \in Relations /\ d.method \in Methods
      BY <1>7, <3>1 DEF Relations, Methods
    <3>3. QED
      BY <3>1, <3>2
<1>14. QED
  BY <1>8, <1>9, <1>10, <1>11, <1>12, <1>13

\* A row takes the id of an earlier one or gets one of its own.
LEMMA MapAppends ==
  ASSUME NEW t \in Seq(Mapped), NEW e \in Element
  PROVE  \E m \in Mapped :
           /\ V!Map(t, e) = Append(t, m)
           /\ m.raw = e.raw /\ m.row = e.row /\ m.ambiguous = e.ambiguous
           /\ \/ m.id.raw = e.raw
              \/ \E p \in Kin(t, e) :
                   /\ m.id = t[p].id /\ ~m.review /\ ~m.break
                   /\ e.row.doc = V!NoDoc => Continued(t, e, p)
<1> DEFINE d == V!BestCandidate(t, e)
           id == V!CanonicalId(t, e, d)
           event == V!Event(t, e, d)
           review == IF d.prior = 0 THEN e.ambiguous ELSE ~d.confirmed
           m == [raw |-> e.raw, row |-> e.row, ambiguous |-> e.ambiguous, id |-> id,
                 relation |-> d.relation, method |-> d.method, break |-> d.break, event |-> event,
                 review |-> review]
<1>1. V!Map(t, e) = Append(t, m)
  BY DEF V!Map
<1>2. /\ d.prior \in {0} \cup Kin(t, e)
      /\ d.confirmed \in BOOLEAN /\ d.break \in BOOLEAN
      /\ d.relation \in Relations /\ d.method \in Methods
      /\ d.prior # 0 /\ d.confirmed /\ e.row.doc = V!NoDoc => Continued(t, e, d.prior)
  BY CandidateFound
<1> HIDE DEF d
<1>3. Kin(t, e) \in SUBSET (1 .. Len(t)) /\ \A i \in Kin(t, e) : i # 0 /\ t[i] \in Mapped
  BY DEF Kin
<1>4. e.raw \in Raws /\ e.row \in V!Row /\ e.ambiguous \in BOOLEAN
  BY DEF Element
<1>5. review \in BOOLEAN
  BY <1>2, <1>4
<1>6. event \in Events
  BY <1>2 DEF V!Event, Events
<1>7. \/ id = [raw |-> e.raw, recast |-> d.break]
      \/ d.prior # 0 /\ d.confirmed /\ ~d.break /\ id = t[d.prior].id
  BY DEF V!CanonicalId
<1>8. id \in [raw : Raws, recast : BOOLEAN]
  BY <1>2, <1>3, <1>4, <1>7 DEF Mapped
<1> HIDE DEF id, event
<1>9. m \in Mapped
  BY <1>2, <1>4, <1>5, <1>6, <1>8 DEF Mapped
<1>10. CASE id = [raw |-> e.raw, recast |-> d.break]
  <2>1. m.id.raw = e.raw
    BY <1>10
  <2>2. QED
    BY <1>1, <1>9, <2>1
<1>11. CASE d.prior # 0 /\ d.confirmed /\ ~d.break /\ id = t[d.prior].id
  <2>1. d.prior \in Kin(t, e) /\ ~m.review /\ ~m.break /\ m.id = t[d.prior].id
    BY <1>2, <1>11
  <2>2. e.row.doc = V!NoDoc => Continued(t, e, d.prior)
    BY <1>2, <1>11
  <2> HIDE DEF review
  <2>3. m.raw = e.raw /\ m.row = e.row /\ m.ambiguous = e.ambiguous
    OBVIOUS
  <2> HIDE DEF m
  <2>4. QED
    BY <1>1, <1>9, <2>1, <2>2, <2>3
<1>12. QED
  BY <1>7, <1>10, <1>11

-----------------------------------------------------------------------------
\* What the ids of a table are evidence of, stated of any table.
SameClass(t, n, id) == \A k \in 1 .. n : t[k].id = id => t[k].row.doc = V!NoDoc
Evident(t, i, j) ==
  /\ ~t[j].review /\ ~t[j].break
  /\ SameClass(t, j, t[j].id) => V!SharedForReason(t[i], t[j])
  /\ t[j].row.doc = V!NoDoc /\ ~t[j].row.standard =>
       \A k \in (i + 1) .. (j - 1) :
         V!OwnAlike(t[k], t[j]) /\ (\A l \in (k + 1) .. (j - 1) : ~V!OwnAlike(t[l], t[j]))
           => t[k].id = t[j].id
Evidenced(t) == \A i, j \in 1 .. Len(t) : i < j /\ t[i].id = t[j].id => Evident(t, i, j)

\* Rows differ, and an id is named after one of the rows up to its own.
IdsAreRaws(t) ==
  /\ \A i, j \in 1 .. Len(t) : t[i].raw = t[j].raw => i = j
  /\ \A i \in 1 .. Len(t) : \E k \in 1 .. i : t[i].id.raw = t[k].raw

MappedRight(t) == t \in Seq(Mapped) /\ IdsAreRaws(t) /\ Evidenced(t)

\* Sharing for a reason composes, as far as the newest match goes.
LEMMA FamilyOwner ==
  ASSUME NEW x \in [owner : STRING, version : STRING], NEW y \in [owner : STRING, version : STRING],
         V!NamespaceFamily(x) = V!NamespaceFamily(y)
  PROVE  x.owner = y.owner
BY DEF V!NamespaceFamily

LEMMA MatchShares ==
  ASSUME NEW r \in Mapped, NEW m \in Mapped, m.row.kind = r.row.kind,
         StandardMatch(m.row, r.row) \/ V!CustomContinuity(m, r)
  PROVE  V!SharedForReason(r, m)
<1>1. m.row.ns \in [owner : STRING, version : STRING] /\ r.row.ns \in [owner : STRING, version : STRING]
  BY DEF Mapped, V!Row
<1>0. m.row.standard \in BOOLEAN /\ r.row.standard \in BOOLEAN
  BY DEF Mapped, V!Row
<1>2. CASE StandardMatch(m.row, r.row)
  BY <1>2 DEF StandardMatch, V!ExactStandard, V!NamespaceContinuity, V!SharedForReason, V!Compatible
<1>3. CASE V!CustomContinuity(m, r)
  <2>1. m.row.ns.owner = r.row.ns.owner
    BY <1>1, <1>3, FamilyOwner DEF V!CustomContinuity
  <2>2. QED
    BY <1>0, <1>3, <2>1 DEF V!CustomContinuity, V!SharedForReason, V!Compatible
<1>4. QED
  BY <1>2, <1>3

LEMMA SharingComposes ==
  ASSUME NEW q \in Mapped, NEW r \in Mapped, NEW m \in Mapped,
         V!SharedForReason(q, r), V!SharedForReason(r, m)
  PROVE  V!SharedForReason(q, m)
<1>1. q.row.kind = m.row.kind /\ q.row.standard = m.row.standard /\ q.row.name = m.row.name
      /\ V!Compatible(q.row, m.row)
  BY DEF V!SharedForReason, V!Compatible
<1>2. CASE r.row.standard
  BY <1>1, <1>2 DEF V!SharedForReason
<1>3. CASE ~r.row.standard
  BY <1>1, <1>3 DEF V!SharedForReason
<1>4. QED
  BY <1>2, <1>3

\* What shares for a reason with a match is a match or a row of the same name.
LEMMA LaterWouldMatch ==
  ASSUME NEW r \in Mapped, NEW q \in Mapped, NEW m \in Mapped,
         V!SharedForReason(r, q)
  PROVE  /\ StandardMatch(m.row, r.row) => StandardMatch(m.row, q.row)
         /\ V!CustomContinuity(m, r) /\ m.row.kind = r.row.kind => V!OwnAlike(q, m)
<1>1. ASSUME StandardMatch(m.row, r.row) PROVE StandardMatch(m.row, q.row)
  <2>1. /\ m.row.standard /\ r.row.standard /\ q.row.standard = r.row.standard
        /\ m.row.name = q.row.name /\ V!Compatible(m.row, q.row)
        /\ r.row.ns = q.row.ns \/ (V!AnnualFasb(r.row.ns) /\ V!AnnualFasb(q.row.ns))
        /\ m.row.ns = r.row.ns \/ (V!AnnualFasb(m.row.ns) /\ V!AnnualFasb(r.row.ns))
    BY <1>1 DEF StandardMatch, V!ExactStandard, V!NamespaceContinuity, V!SharedForReason, V!Compatible
  <2>2. QED
    BY <2>1 DEF StandardMatch, V!ExactStandard, V!NamespaceContinuity
<1>2. ASSUME V!CustomContinuity(m, r), m.row.kind = r.row.kind PROVE V!OwnAlike(q, m)
  BY <1>2 DEF V!CustomContinuity, V!OwnAlike, V!SharedForReason, Mapped, V!Row
<1>3. QED
  BY <1>1, <1>2

\* The evidence between two rows does not change with what is appended.
LEMMA EvidentStays ==
  ASSUME NEW t \in Seq(Mapped), NEW m \in Mapped, NEW u, u = Append(t, m),
         NEW i \in 1 .. Len(t), NEW j \in 1 .. Len(t), Evident(t, i, j)
  PROVE  Evident(u, i, j)
<1>1. Len(t) \in Nat /\ \A k \in 1 .. Len(t) : u[k] = t[k]
  OBVIOUS
<1>2. \A k \in 1 .. j : u[k] = t[k]
  BY <1>1
<1>3. \A k \in (i + 1) .. (j - 1) : u[k] = t[k] /\ \A l \in (k + 1) .. (j - 1) : u[l] = t[l]
  BY <1>1
<1>4. u[i] = t[i] /\ u[j] = t[j]
  BY <1>1
<1>5. SameClass(u, j, t[j].id) => SameClass(t, j, t[j].id)
  BY <1>2 DEF SameClass
<1>6. QED
  BY <1>3, <1>4, <1>5 DEF Evident

\* The heart: a row that continues another one fits all that share its id.
LEMMA ContinuedIsEvident ==
  ASSUME NEW t \in Seq(Mapped), Evidenced(t),
         NEW e \in Element, NEW m \in Mapped, m.row = e.row, m.ambiguous = e.ambiguous, m.raw = e.raw,
         NEW p \in Kin(t, e), m.id = t[p].id, ~m.review, ~m.break,
         e.row.doc = V!NoDoc => Continued(t, e, p),
         NEW u, u = Append(t, m), NEW i \in 1 .. Len(t), t[i].id = m.id
  PROVE  Evident(u, i, Len(t) + 1)
<1> DEFINE n == Len(t)
<1>1. n \in Nat /\ u[n + 1] = m /\ (\A k \in 1 .. n : u[k] = t[k] /\ t[k] \in Mapped)
  OBVIOUS
<1>2. p \in 1 .. n /\ t[p].row.kind = m.row.kind
  BY DEF Kin
<1>3. \A k \in 1 .. n : t[k].row.kind = m.row.kind => k \in Kin(t, e)
  BY DEF Kin
<1>4. \A r \in {t[k] : k \in 1 .. n} : /\ V!CustomContinuity(e, r) <=> V!CustomContinuity(m, r)
                                       /\ V!OwnAlike(r, e) <=> V!OwnAlike(r, m)
  BY DEF V!CustomContinuity, V!OwnAlike
<1> HIDE DEF n
<1>5. ASSUME SameClass(u, n + 1, m.id) PROVE V!SharedForReason(t[i], m)
  <2>0. n + 1 \in 1 .. (n + 1) /\ \A k \in 1 .. n : k \in 1 .. (n + 1)
    BY <1>1
  <2>1. \A k \in 1 .. n : t[k].id = m.id => t[k].row.doc = V!NoDoc
    BY <1>1, <1>5, <2>0 DEF SameClass
  <2>2. m.row.doc = V!NoDoc
    BY <1>1, <1>5, <2>0 DEF SameClass
  <2>3. Continued(t, e, p)
    BY <2>2
  <2>4. StandardMatch(m.row, t[p].row) \/ V!CustomContinuity(m, t[p])
    BY <1>2, <1>4, <2>3 DEF Continued
  <2>5. V!SharedForReason(t[p], m)
    BY <1>1, <1>2, <2>4, MatchShares
  <2>6. \A j \in 1 .. n, k \in 1 .. n : j < k /\ t[j].id = m.id /\ t[k].id = m.id => V!SharedForReason(t[j], t[k])
    <3>1. SUFFICES ASSUME NEW j \in 1 .. n, NEW k \in 1 .. n, j < k, t[j].id = m.id, t[k].id = m.id
                   PROVE  V!SharedForReason(t[j], t[k])
      OBVIOUS
    <3>2. Evident(t, j, k)
      BY <3>1 DEF Evidenced, n
    <3>3. SameClass(t, k, t[k].id)
      BY <1>1, <2>1, <3>1 DEF SameClass
    <3>4. QED
      BY <3>2, <3>3 DEF Evident
  <2>7. CASE i = p
    BY <2>5, <2>7
  <2>8. CASE i < p
    <3>1. V!SharedForReason(t[i], t[p])
      BY <1>2, <2>6, <2>8, n = Len(t) DEF n
    <3>2. QED
      BY <1>1, <1>2, <2>5, <3>1, SharingComposes DEF n
  <2>9. CASE i > p
    <3>1. V!SharedForReason(t[p], t[i])
      BY <1>2, <2>6, <2>9 DEF n
    <3>2. t[i].row.kind = m.row.kind
      BY <1>2, <3>1 DEF V!SharedForReason
    <3>3. i \in Kin(t, e)
      BY <1>3, <3>2 DEF n
    <3>4. /\ StandardMatch(m.row, t[p].row) => StandardMatch(m.row, t[i].row)
          /\ V!CustomContinuity(m, t[p]) => V!OwnAlike(t[i], m)
      BY <1>1, <1>2, <3>1, LaterWouldMatch DEF n
    <3>5. V!CustomContinuity(e, t[p]) <=> V!CustomContinuity(m, t[p])
      BY <1>2, <1>4
    <3>6. V!OwnAlike(t[i], e) <=> V!OwnAlike(t[i], m)
      BY <1>4 DEF n
    <3>7. QED
      BY <2>3, <2>9, <3>3, <3>4, <3>5, <3>6 DEF Continued
  <2>10. QED
    BY <1>2, <2>7, <2>8, <2>9 DEF n
<1>6. ASSUME m.row.doc = V!NoDoc, ~m.row.standard,
             NEW k \in (i + 1) .. n, V!OwnAlike(t[k], m), \A l \in (k + 1) .. n : ~V!OwnAlike(t[l], m)
      PROVE  t[k].id = m.id
  <2>1. V!CustomContinuity(m, t[p]) /\ \A l \in Kin(t, e) : l > p => ~V!OwnAlike(t[l], m)
    <3>1. Continued(t, e, p)
      BY <1>6
    <3>2. ~StandardMatch(e.row, t[p].row)
      BY <1>6 DEF StandardMatch, V!ExactStandard, V!NamespaceContinuity
    <3>3. \A l \in Kin(t, e) : t[l] \in {t[x] : x \in 1 .. n}
      BY DEF Kin, n
    <3>4. QED
      BY <1>4, <3>1, <3>2, <3>3 DEF Continued
  <2>2. V!OwnAlike(t[p], m)
    BY <1>2, <2>1 DEF V!CustomContinuity, V!OwnAlike
  <2>3. k \in 1 .. n /\ k \in Kin(t, e)
    BY <1>3, <1>6 DEF V!OwnAlike, n
  <2>4. ~(k > p)
    BY <1>6, <2>1, <2>3
  <2>5. ~(p > k)
    BY <1>2, <1>6, <2>2, <2>3
  <2>6. k = p
    BY <1>2, <2>3, <2>4, <2>5
  <2>7. QED
    BY <2>6
<1>7. i \in 1 .. n /\ u[i] = t[i] /\ (n + 1) - 1 = n
  BY <1>1 DEF n
<1>8. \A k \in (i + 1) .. n : u[k] = t[k] /\ \A l \in (k + 1) .. n : u[l] = t[l]
  <2>1. \A k \in (i + 1) .. n : k \in 1 .. n
    BY <1>1, <1>7
  <2>2. \A k \in 1 .. n : \A l \in (k + 1) .. n : l \in 1 .. n
    BY <1>1
  <2>3. QED
    BY <1>1, <2>1, <2>2
<1>9. SameClass(u, n + 1, m.id) => V!SharedForReason(u[i], m)
  BY <1>5, <1>7
<1>10. m.row.doc = V!NoDoc /\ ~m.row.standard =>
         \A k \in (i + 1) .. ((n + 1) - 1) :
           V!OwnAlike(u[k], m) /\ (\A l \in (k + 1) .. ((n + 1) - 1) : ~V!OwnAlike(u[l], m)) => u[k].id = m.id
  BY <1>6, <1>7, <1>8
<1>11. QED
  BY <1>1, <1>9, <1>10 DEF Evident, n

LEMMA MapKeeps ==
  ASSUME NEW t, MappedRight(t), NEW e \in Element, \A i \in 1 .. Len(t) : t[i].raw # e.raw
  PROVE  /\ MappedRight(V!Map(t, e))
         /\ Len(V!Map(t, e)) = Len(t) + 1
         /\ \A i \in 1 .. Len(t) : V!Map(t, e)[i] = t[i]
         /\ V!Map(t, e)[Len(t) + 1].raw = e.raw /\ V!Map(t, e)[Len(t) + 1].row = e.row
<1>0. t \in Seq(Mapped) /\ IdsAreRaws(t) /\ Evidenced(t)
  BY DEF MappedRight
<1>1. PICK m \in Mapped :
        /\ V!Map(t, e) = Append(t, m)
        /\ m.raw = e.raw /\ m.row = e.row /\ m.ambiguous = e.ambiguous
        /\ \/ m.id.raw = e.raw
           \/ \E p \in Kin(t, e) :
                /\ m.id = t[p].id /\ ~m.review /\ ~m.break
                /\ e.row.doc = V!NoDoc => Continued(t, e, p)
  BY <1>0, MapAppends
<1> DEFINE n == Len(t)
           u == Append(t, m)
<1>2. /\ n \in Nat /\ Len(u) = n + 1 /\ u \in Seq(Mapped)
      /\ u[n + 1] = m /\ \A i \in 1 .. n : u[i] = t[i]
      /\ \A i \in 1 .. (n + 1) : i \in 1 .. n \/ i = n + 1
  BY <1>0
<1>3. IdsAreRaws(u)
  <2>1. \A i, j \in 1 .. (n + 1) : u[i].raw = u[j].raw => i = j
    BY <1>0, <1>1, <1>2 DEF IdsAreRaws
  <2>2. ASSUME NEW i \in 1 .. n PROVE \E k \in 1 .. i : u[i].id.raw = u[k].raw
    <3>1. PICK k \in 1 .. i : t[i].id.raw = t[k].raw
      BY <1>0 DEF IdsAreRaws
    <3>2. QED
      BY <1>2, <3>1
  <2>3. \E k \in 1 .. (n + 1) : u[n + 1].id.raw = u[k].raw
    <3>1. CASE m.id.raw = e.raw
      <4>1. n + 1 \in 1 .. (n + 1)
        BY <1>2
      <4>2. QED
        BY <1>1, <1>2, <3>1, <4>1
    <3>2. CASE \E p \in Kin(t, e) : m.id = t[p].id
      <4>1. PICK p \in 1 .. n : m.id = t[p].id
        BY <3>2 DEF Kin
      <4>2. PICK k \in 1 .. p : t[p].id.raw = t[k].raw
        BY <1>0 DEF IdsAreRaws
      <4>3. k \in 1 .. n /\ k \in 1 .. (n + 1)
        BY <1>2
      <4>4. QED
        BY <1>2, <4>1, <4>2, <4>3
    <3>3. QED
      BY <1>1, <3>1, <3>2
  <2> HIDE DEF u, n
  <2>4. QED
    BY <1>2, <2>1, <2>2, <2>3 DEF IdsAreRaws
<1>4. Evidenced(u)
  <2>1. SUFFICES ASSUME NEW i \in 1 .. (n + 1), NEW j \in 1 .. (n + 1), i < j, u[i].id = u[j].id
                 PROVE  Evident(u, i, j)
    BY <1>2 DEF Evidenced
  <2>2. CASE j \in 1 .. n
    <3>1. i \in 1 .. n
      BY <1>2, <2>1, <2>2
    <3>2. Evident(t, i, j)
      BY <1>0, <1>2, <2>1, <2>2, <3>1 DEF Evidenced
    <3>3. QED
      BY <1>0, <2>2, <3>1, <3>2, EvidentStays
  <2>3. CASE j = n + 1
    <3>1. i \in 1 .. n /\ t[i].id = m.id
      BY <1>2, <2>1, <2>3
    <3>2. ~(m.id.raw = e.raw)
      <4>1. PICK k \in 1 .. i : t[i].id.raw = t[k].raw
        BY <1>0, <3>1 DEF IdsAreRaws
      <4>2. k \in 1 .. n
        BY <1>2, <3>1
      <4>3. QED
        BY <3>1, <4>1, <4>2
    <3>3. PICK p \in Kin(t, e) : /\ m.id = t[p].id /\ ~m.review /\ ~m.break
                                 /\ e.row.doc = V!NoDoc => Continued(t, e, p)
      BY <1>1, <3>2
    <3>4. QED
      BY <1>0, <1>1, <2>3, <3>1, <3>3, ContinuedIsEvident
  <2>4. QED
    BY <1>2, <2>1, <2>2, <2>3
<1>5. QED
  BY <1>1, <1>2, <1>3, <1>4 DEF MappedRight

-----------------------------------------------------------------------------
(* The folds of the library, one step at a time.                           *)

LEMMA MaxFound ==
  ASSUME NEW n \in Nat, NEW S \in SUBSET (1 .. n), S # {}
  PROVE  V!Max(S) \in S /\ \A x \in S : x <= V!Max(S)
<1>1. V!NewestOf(S) = V!Max(S)
  BY DEF V!NewestOf
<1>2. QED
  BY <1>1, NewestFound

IsFold(f, es, k) ==
  f = [S \in SUBSET (1 .. k) |->
         IF S = {} THEN << >> ELSE V!Map(f[S \ {V!Max(S)}], es[V!Max(S)])]

LEMMA FoldOne ==
  ASSUME NEW es, NEW k \in Nat, NEW f, IsFold(f, es, k)
  PROVE  \E g : IsFold(g, es, k + 1)
<1> DEFINE g == [S \in SUBSET (1 .. (k + 1)) |->
                   IF k + 1 \in S THEN V!Map(f[S \ {k + 1}], es[k + 1]) ELSE f[S]]
           Value(h, S) == IF S = {} THEN << >> ELSE V!Map(h[S \ {V!Max(S)}], es[V!Max(S)])
<1>1. \A S \in SUBSET (1 .. k) : f[S] = Value(f, S) /\ g[S] = f[S] /\ S \in SUBSET (1 .. (k + 1))
  <2>1. \A S \in SUBSET (1 .. k) : k + 1 \notin S /\ S \in SUBSET (1 .. (k + 1))
    OBVIOUS
  <2>2. \A S \in SUBSET (1 .. k) : f[S] = Value(f, S)
    BY DEF IsFold
  <2> HIDE DEF Value
  <2>3. QED
    BY <2>1, <2>2
<1>2. ASSUME NEW S \in SUBSET (1 .. (k + 1)) PROVE g[S] = Value(g, S)
  <2>1. CASE k + 1 \in S
    <3>1. V!Max(S) = k + 1
      <4>1. k + 1 \in Nat /\ S # {}
        BY <2>1
      <4>2. V!Max(S) \in S /\ k + 1 <= V!Max(S)
        BY <2>1, <4>1, MaxFound
      <4>3. V!Max(S) \in 1 .. (k + 1)
        BY <4>2
      <4>4. QED
        BY <4>1, <4>2, <4>3
    <3>2. S \ {k + 1} \in SUBSET (1 .. k)
      OBVIOUS
    <3>3. g[S \ {k + 1}] = f[S \ {k + 1}]
      BY <1>1, <3>2
    <3>4. g[S] = V!Map(f[S \ {k + 1}], es[k + 1])
      BY <2>1
    <3> HIDE DEF g
    <3>5. QED
      BY <2>1, <3>1, <3>3, <3>4
  <2>2. CASE k + 1 \notin S
    <3>1. S \in SUBSET (1 .. k)
      BY <2>2
    <3>2. S \ {V!Max(S)} \in SUBSET (1 .. k)
      BY <3>1
    <3>3. g[S \ {V!Max(S)}] = f[S \ {V!Max(S)}]
      BY <1>1, <3>2
    <3>4. g[S] = Value(f, S)
      BY <1>1, <3>1
    <3> HIDE DEF g
    <3>5. QED
      BY <3>3, <3>4
  <2>3. QED
    BY <2>1, <2>2
<1>3. g = [S \in SUBSET (1 .. (k + 1)) |-> Value(g, S)]
  <2>1. g = [S \in SUBSET (1 .. (k + 1)) |-> g[S]]
    OBVIOUS
  <2> HIDE DEF g, Value
  <2>2. QED
    BY <1>2, <2>1
<1>4. IsFold(g, es, k + 1)
  BY <1>3 DEF IsFold
<1> HIDE DEF g
<1>5. QED
  BY <1>4

LEMMA FoldExists ==
  ASSUME NEW es, NEW n \in Nat
  PROVE  \E f : IsFold(f, es, n)
<1> DEFINE Bad == {k \in Nat : ~\E f : IsFold(f, es, k)}
<1> SUFFICES ASSUME Bad # {} PROVE FALSE
  OBVIOUS
<1>1. PICK k \in Bad : \A l \in Bad : k <= l
  BY LeastNumber
<1>2. CASE k = 0
  <2> DEFINE f == [S \in SUBSET (1 .. 0) |-> << >>]
  <2>1. \A S \in SUBSET (1 .. 0) : S = {}
    OBVIOUS
  <2>2. IsFold(f, es, 0)
    BY <2>1 DEF IsFold
  <2> HIDE DEF f
  <2>3. QED
    BY <1>1, <1>2, <2>2
<1>3. CASE k # 0
  <2>1. k - 1 \in Nat /\ k - 1 \notin Bad /\ (k - 1) + 1 = k
    BY <1>1, <1>3
  <2>2. PICK f : IsFold(f, es, k - 1)
    BY <2>1
  <2>3. \E g : IsFold(g, es, (k - 1) + 1)
    BY <2>1, <2>2, FoldOne
  <2>4. QED
    BY <1>1, <2>1, <2>3
<1>4. QED
  BY <1>2, <1>3

\* The tables of a canonicalizer, one after each element.
Run(T, es) ==
  /\ T[0] = << >>
  /\ \A k \in 1 .. Len(es) : T[k] = V!Map(T[k - 1], es[k])

LEMMA FoldSteps ==
  ASSUME NEW es \in Seq(Element)
  PROVE  \E T : Run(T, es) /\ T[Len(es)] = V!FoldLeft(V!Map, << >>, es)
<1> DEFINE n == Len(es)
           it == CHOOSE f : IsFold(f, es, n)
           T == [k \in 0 .. n |-> it[1 .. k]]
<1>1. n \in Nat /\ DOMAIN es = 1 .. n
  OBVIOUS
<1>2. IsFold(it, es, n)
  BY <1>1, FoldExists
<1>3. V!FoldLeft(V!Map, << >>, es) = it[1 .. n]
  BY <1>1 DEF V!FoldLeft, V!MapThenFoldSet, IsFold
<1> HIDE DEF it
<1>4. T[0] = << >>
  <2>1. 1 .. 0 = {} /\ {} \in SUBSET (1 .. n)
    OBVIOUS
  <2>2. it[{}] = << >>
    BY <1>2, <2>1 DEF IsFold
  <2>3. QED
    BY <1>1, <2>1, <2>2
<1>5. ASSUME NEW k \in 1 .. n PROVE T[k] = V!Map(T[k - 1], es[k])
  <2>1. V!Max(1 .. k) = k
    <3>1. k \in 1 .. k /\ k \in Nat
      OBVIOUS
    <3>2. V!Max(1 .. k) \in 1 .. k /\ k <= V!Max(1 .. k)
      BY <3>1, MaxFound
    <3>3. QED
      BY <3>1, <3>2
  <2>2. (1 .. k) \ {k} = 1 .. (k - 1) /\ 1 .. k # {} /\ 1 .. k \in SUBSET (1 .. n)
    <3>1. k \in Int /\ 1 <= k /\ k <= n /\ n \in Int
      BY <1>1
    <3> HIDE DEF n
    <3>2. \A x \in Int : x \in (1 .. k) \ {k} <=> x \in 1 .. (k - 1)
      BY <3>1
    <3>3. (1 .. k) \ {k} = 1 .. (k - 1)
      BY <3>2
    <3>4. k \in 1 .. k /\ \A x \in 1 .. k : x \in 1 .. n
      BY <3>1
    <3>5. QED
      BY <3>3, <3>4
  <2>3. it[1 .. k] = V!Map(it[1 .. (k - 1)], es[k])
    BY <1>2, <2>1, <2>2 DEF IsFold
  <2>4. k \in 0 .. n /\ k - 1 \in 0 .. n
    OBVIOUS
  <2>5. QED
    BY <2>3, <2>4
<1>6. T[n] = it[1 .. n]
  BY <1>1
<1> HIDE DEF T
<1>7. QED
  BY <1>3, <1>4, <1>5, <1>6 DEF Run

Different(es) == \A i, j \in 1 .. Len(es) : es[i].raw = es[j].raw => i = j

\* A table is right at every step, and a row stays as it was placed.
LEMMA RunIsRight ==
  ASSUME NEW es \in Seq(Element), Different(es), NEW T, Run(T, es)
  PROVE  \A k \in 0 .. Len(es) :
           /\ MappedRight(T[k]) /\ Len(T[k]) = k
           /\ \A i \in 1 .. k : /\ T[k][i] = T[i][i]
                                /\ T[k][i].raw = es[i].raw /\ T[k][i].row = es[i].row
<1> DEFINE Right(k) == /\ MappedRight(T[k]) /\ Len(T[k]) = k
                       /\ \A i \in 1 .. k : /\ T[k][i] = T[i][i]
                                            /\ T[k][i].raw = es[i].raw /\ T[k][i].row = es[i].row
           Bad == {k \in 0 .. Len(es) : ~Right(k)}
<1>0. Len(es) \in Nat /\ Bad \in SUBSET Nat
  OBVIOUS
<1> SUFFICES ASSUME Bad # {} PROVE FALSE
  OBVIOUS
<1>1. PICK k \in Bad : \A l \in Bad : k <= l
  BY <1>0, LeastNumber
<1>2. CASE k = 0
  <2>1. T[0] = << >> /\ << >> \in Seq(Mapped) /\ Len(<< >>) = 0 /\ 1 .. 0 = {}
    BY DEF Run
  <2>2. Right(0)
    BY <2>1 DEF MappedRight, IdsAreRaws, Evidenced
  <2>3. QED
    BY <1>1, <1>2, <2>2
<1>3. CASE k # 0
  <2>1. k \in 1 .. Len(es) /\ k - 1 \in 0 .. Len(es) /\ k - 1 \notin Bad /\ k \in Nat
    BY <1>0, <1>1, <1>3
  <2>2. Right(k - 1)
    BY <2>1
  <2>3. T[k] = V!Map(T[k - 1], es[k])
    BY <2>1 DEF Run
  <2>4. es[k] \in Element
    BY <2>1
  <2>5. \A i \in 1 .. (k - 1) : T[k - 1][i].raw # es[k].raw
    <3>1. \A i \in 1 .. (k - 1) : i \in 1 .. Len(es) /\ i # k
      BY <2>1
    <3>2. QED
      BY <2>1, <2>2, <3>1 DEF Different
  <2>6. /\ MappedRight(T[k]) /\ Len(T[k]) = (k - 1) + 1
        /\ \A i \in 1 .. (k - 1) : T[k][i] = T[k - 1][i]
        /\ T[k][(k - 1) + 1].raw = es[k].raw /\ T[k][(k - 1) + 1].row = es[k].row
    <3> DEFINE t == T[k - 1]
    <3>1. MappedRight(t) /\ Len(t) = k - 1
      BY <2>2
    <3>2. \A i \in 1 .. Len(t) : t[i].raw # es[k].raw
      BY <2>5, <3>1
    <3>3. T[k] = V!Map(t, es[k])
      BY <2>3
    <3> HIDE DEF t
    <3>4. /\ MappedRight(T[k]) /\ Len(T[k]) = Len(t) + 1
          /\ \A i \in 1 .. Len(t) : T[k][i] = t[i]
          /\ T[k][Len(t) + 1].raw = es[k].raw /\ T[k][Len(t) + 1].row = es[k].row
      <4> DEFINE e == es[k]
      <4>1. e \in Element /\ \A i \in 1 .. Len(t) : t[i].raw # e.raw
        BY <2>4, <3>2
      <4> HIDE DEF e
      <4>2. /\ MappedRight(V!Map(t, e)) /\ Len(V!Map(t, e)) = Len(t) + 1
            /\ \A i \in 1 .. Len(t) : V!Map(t, e)[i] = t[i]
            /\ V!Map(t, e)[Len(t) + 1].raw = e.raw /\ V!Map(t, e)[Len(t) + 1].row = e.row
        BY <3>1, <4>1, MapKeeps
      <4>3. QED
        BY <3>3, <4>2 DEF e
    <3>5. QED
      BY <3>1, <3>4 DEF t
  <2>7. (k - 1) + 1 = k /\ \A i \in 1 .. k : i \in 1 .. (k - 1) \/ i = k
    BY <2>1
  <2>8. Right(k)
    BY <2>2, <2>6, <2>7
  <2>9. QED
    BY <1>1, <2>8
<1>4. QED
  BY <1>2, <1>3

-----------------------------------------------------------------------------
(* The elements of a corpus.                                               *)

FiledFiling ==
  [id : Nat, form : {f.form : f \in Filed}, periods : {f.periods : f \in Filed}, rows : Seq(V!Row)]
CorpusOK(c) ==
  /\ c \in Seq(FiledFiling)
  /\ \A n \in 1 .. Len(c) : c[n].id \in 1 .. Len(c)
  /\ \A n, k \in 1 .. Len(c) : c[n].id = c[k].id => n = k

Els(c, n) ==
  [i \in DOMAIN c[n].rows |->
     [raw |-> V!Raw(c[n], i), row |-> c[n].rows[i], ambiguous |-> V!Ambiguous(c, n, i)]]
Parts(c) == [n \in DOMAIN c |-> Els(c, n)]
Elements(c) == V!FlattenSeq(Parts(c))

LEMMA ElsAreElements ==
  ASSUME NEW c \in Seq(FiledFiling), NEW n \in 1 .. Len(c)
  PROVE  /\ Els(c, n) \in Seq(Element) /\ Len(Els(c, n)) = Len(c[n].rows)
         /\ \A i \in 1 .. Len(c[n].rows) :
              Els(c, n)[i].raw = [filing |-> c[n].id, row |-> i] /\ Els(c, n)[i].row = c[n].rows[i]
<1>1. c[n] \in FiledFiling
  OBVIOUS
<1>2. c[n].rows \in Seq(V!Row) /\ c[n].id \in Nat
  BY <1>1 DEF FiledFiling
<1> DEFINE rows == c[n].rows
<1>3. Len(rows) \in Nat /\ DOMAIN rows = 1 .. Len(rows) /\ \A i \in 1 .. Len(rows) : rows[i] \in V!Row
  BY <1>2
<1>4. \A i \in 1 .. Len(rows) : V!Ambiguous(c, n, i) \in BOOLEAN
  BY DEF V!Ambiguous
<1>5. \A i \in 1 .. Len(rows) : V!Raw(c[n], i) \in Raws /\ V!Raw(c[n], i) = [filing |-> c[n].id, row |-> i]
  BY <1>2 DEF V!Raw, Raws
<1>6. Els(c, n) = [i \in 1 .. Len(rows) |->
                     [raw |-> V!Raw(c[n], i), row |-> rows[i], ambiguous |-> V!Ambiguous(c, n, i)]]
  BY <1>3 DEF Els
<1>7. ASSUME NEW i \in 1 .. Len(rows)
      PROVE  /\ Els(c, n)[i] \in Element
             /\ Els(c, n)[i].raw = V!Raw(c[n], i) /\ Els(c, n)[i].row = rows[i]
  <2>1. PICK r : r = V!Raw(c[n], i)
    OBVIOUS
  <2>2. PICK w : w = rows[i]
    OBVIOUS
  <2>3. PICK y : y = V!Ambiguous(c, n, i)
    OBVIOUS
  <2>4. r \in Raws /\ w \in V!Row /\ y \in BOOLEAN
    BY <1>3, <1>4, <1>5, <2>1, <2>2, <2>3
  <2>5. Els(c, n)[i] = [raw |-> r, row |-> w, ambiguous |-> y]
    BY <1>6, <2>1, <2>2, <2>3
  <2>6. [raw |-> r, row |-> w, ambiguous |-> y] \in Element
    BY <2>4 DEF Element
  <2>7. QED
    BY <2>1, <2>2, <2>5, <2>6
<1>8. Els(c, n) \in Seq(Element) /\ Len(Els(c, n)) = Len(rows)
  <2> DEFINE Value(i) == [raw |-> V!Raw(c[n], i), row |-> rows[i], ambiguous |-> V!Ambiguous(c, n, i)]
  <2>1. Els(c, n) = [i \in 1 .. Len(rows) |-> Value(i)]
    BY <1>6
  <2>2. PICK f : f = Els(c, n)
    OBVIOUS
  <2> HIDE DEF Value
  <2>3. f = [i \in 1 .. Len(rows) |-> f[i]] /\ \A i \in 1 .. Len(rows) : f[i] \in Element
    BY <1>7, <2>1, <2>2
  <2>4. f \in Seq(Element) /\ Len(f) = Len(rows)
    <3>1. PICK m \in Nat : m = Len(rows)
      BY <1>3
    <3>2. f \in [1 .. m -> Element]
      BY <2>3, <3>1
    <3> HIDE DEF rows
    <3>3. f \in Seq(Element) /\ Len(f) = m
      BY <3>2
    <3>4. QED
      BY <3>1, <3>3
  <2>5. QED
    BY <2>2, <2>4
<1>9. \A i \in 1 .. Len(rows) :
        Els(c, n)[i].raw = [filing |-> c[n].id, row |-> i] /\ Els(c, n)[i].row = rows[i]
  <2>1. SUFFICES ASSUME NEW i \in 1 .. Len(rows)
                 PROVE  /\ Els(c, n)[i].raw = [filing |-> c[n].id, row |-> i]
                        /\ Els(c, n)[i].row = rows[i]
    OBVIOUS
  <2>2. Els(c, n)[i].raw = V!Raw(c[n], i) /\ Els(c, n)[i].row = rows[i]
    BY <1>7
  <2>3. V!Raw(c[n], i) = [filing |-> c[n].id, row |-> i]
    BY DEF V!Raw
  <2>4. QED
    BY <2>2, <2>3
<1>10. QED
  BY <1>8, <1>9

IsFlat(f, s, k) == f = [i \in 1 .. k |-> IF i = 1 THEN s[i] ELSE f[i - 1] \o s[i]]

LEMMA FlatExists ==
  ASSUME NEW s, NEW n \in Nat
  PROVE  \E f : IsFlat(f, s, n)
<1> DEFINE Bad == {k \in Nat : ~\E f : IsFlat(f, s, k)}
<1> SUFFICES ASSUME Bad # {} PROVE FALSE
  OBVIOUS
<1>1. PICK k \in Bad : \A l \in Bad : k <= l
  BY LeastNumber
<1>2. CASE k = 0
  <2> DEFINE f == [i \in 1 .. 0 |-> s[i]]
  <2>1. IsFlat(f, s, 0)
    BY DEF IsFlat
  <2> HIDE DEF f
  <2>2. QED
    BY <1>1, <1>2, <2>1
<1>3. CASE k # 0
  <2>1. k - 1 \in Nat /\ k - 1 \notin Bad /\ k \in Nat
    BY <1>1, <1>3
  <2>2. PICK f : IsFlat(f, s, k - 1)
    BY <2>1
  <2> DEFINE Value(h, i) == IF i = 1 THEN s[i] ELSE h[i - 1] \o s[i]
             g == [i \in 1 .. k |-> IF i = k THEN Value(f, i) ELSE f[i]]
  <2>3. ASSUME NEW i \in 1 .. k PROVE g[i] = Value(g, i)
    <3>1. CASE i = 1
      <4>1. k # 1 => f[1] = s[1]
        <5>1. ASSUME k # 1 PROVE 1 \in 1 .. (k - 1)
          BY <1>3, <2>1, <5>1
        <5>2. QED
          BY <2>2, <5>1 DEF IsFlat
      <4>2. QED
        BY <3>1, <4>1
    <3>2. CASE i # 1
      <4>1. i - 1 \in 1 .. k /\ i - 1 # k /\ g[i - 1] = f[i - 1]
        BY <2>1, <3>2
      <4>2. i # k => f[i] = f[i - 1] \o s[i]
        <5>1. ASSUME i # k PROVE i \in 1 .. (k - 1)
          BY <2>1, <5>1
        <5>2. QED
          BY <2>2, <3>2, <5>1 DEF IsFlat
      <4>3. g[i] = f[i - 1] \o s[i]
        BY <3>2, <4>2
      <4> HIDE DEF g
      <4>4. QED
        BY <3>2, <4>1, <4>3
    <3>3. QED
      BY <3>1, <3>2
  <2>4. g = [i \in 1 .. k |-> g[i]]
    OBVIOUS
  <2>5. IsFlat(g, s, k)
    <3> HIDE DEF g
    <3>1. QED
      BY <2>3, <2>4 DEF IsFlat
  <2> HIDE DEF g
  <2>6. QED
    BY <1>1, <2>5
<1>4. QED
  BY <1>2, <1>3

\* The elements of the filings up to each one.
Joined(F, c) == F[1] = Els(c, 1) /\ \A k \in 2 .. Len(c) : F[k] = F[k - 1] \o Els(c, k)

LEMMA ElementsJoin ==
  ASSUME NEW c \in Seq(FiledFiling)
  PROVE  /\ c = << >> => Elements(c) = << >>
         /\ c # << >> => \E F : Joined(F, c) /\ Elements(c) = F[Len(c)]
<1> DEFINE s == Parts(c)
           n == Len(c)
<1>1. n \in Nat /\ DOMAIN c = 1 .. n /\ (c = << >> <=> n = 0)
  OBVIOUS
<1>2. Len(s) = n /\ \A k \in 1 .. n : s[k] = Els(c, k)
  <2>1. s = [k \in 1 .. n |-> Els(c, k)]
    BY <1>1 DEF Parts
  <2> HIDE DEF s
  <2>2. QED
    BY <1>1, <2>1
<1>3. CASE n = 0
  <2>1. s = << >>
    <3>1. s = [k \in 1 .. 0 |-> Els(c, k)]
      BY <1>1, <1>3 DEF Parts
    <3>2. QED
      BY <3>1
  <2>2. V!FlattenSeq(s) = s
    BY <1>2, <1>3 DEF V!FlattenSeq
  <2>3. QED
    BY <1>1, <1>3, <2>1, <2>2 DEF Elements
<1>4. CASE n # 0
  <2> DEFINE F == CHOOSE f : IsFlat(f, s, n)
  <2>1. IsFlat(F, s, n)
    BY <1>1, FlatExists
  <2>2. V!FlattenSeq(s) = F[n]
    <3> HIDE DEF s
    <3>1. QED
      BY <1>2, <1>4 DEF V!FlattenSeq, IsFlat
  <2> HIDE DEF F, s
  <2>3. F[1] = s[1] /\ \A k \in 2 .. n : F[k] = F[k - 1] \o s[k]
    <3>1. 1 \in 1 .. n /\ \A k \in 2 .. n : k \in 1 .. n /\ k # 1
      BY <1>1, <1>4
    <3>2. QED
      BY <2>1, <3>1 DEF IsFlat
  <2>4. Joined(F, c)
    <3>1. 1 \in 1 .. n /\ \A k \in 2 .. n : k \in 1 .. n
      BY <1>1, <1>4
    <3>2. QED
      BY <1>2, <2>3, <3>1 DEF Joined
  <2>5. QED
    BY <1>1, <1>4, <2>2, <2>4 DEF Elements, s
<1>5. QED
  BY <1>3, <1>4

\* The sequence holds every element of the first k filings, each of them once.
Holds(es, c, k) ==
  /\ es \in Seq(Element) /\ Different(es)
  /\ \A p \in 1 .. Len(es) : \E n \in 1 .. k : \E i \in 1 .. Len(c[n].rows) : es[p] = Els(c, n)[i]
  /\ \A n \in 1 .. k : \A i \in 1 .. Len(c[n].rows) : \E p \in 1 .. Len(es) : es[p] = Els(c, n)[i]

LEMMA JoinedHolds ==
  ASSUME NEW c, CorpusOK(c), NEW F, Joined(F, c)
  PROVE  \A k \in 1 .. Len(c) : Holds(F[k], c, k)
<1> DEFINE Bad == {k \in 1 .. Len(c) : ~Holds(F[k], c, k)}
<1>0. c \in Seq(FiledFiling) /\ Len(c) \in Nat /\ Bad \in SUBSET Nat
  BY DEF CorpusOK
<1> SUFFICES ASSUME Bad # {} PROVE FALSE
  OBVIOUS
<1>1. PICK k \in Bad : \A l \in Bad : k <= l
  BY <1>0, LeastNumber
<1> DEFINE fs == Els(c, k)
<1>2. k \in 1 .. Len(c) /\ k \in Nat
  BY <1>1
<1>3. /\ fs \in Seq(Element) /\ Len(fs) = Len(c[k].rows) /\ Len(fs) \in Nat
      /\ \A i \in 1 .. Len(fs) : fs[i] \in Element /\ fs[i].raw = [filing |-> c[k].id, row |-> i]
  BY <1>0, <1>2, ElsAreElements
<1>4. Different(fs)
  <2>1. SUFFICES ASSUME NEW i \in 1 .. Len(fs), NEW j \in 1 .. Len(fs), fs[i].raw = fs[j].raw
                 PROVE  i = j
    BY DEF Different
  <2>2. [filing |-> c[k].id, row |-> i] = [filing |-> c[k].id, row |-> j]
    <3> HIDE DEF fs
    <3>1. QED
      BY <1>3, <2>1
  <2>3. QED
    BY <2>2
<1>5. CASE k = 1
  <2>1. F[1] = fs
    BY <1>5 DEF Joined
  <2>2. Holds(F[1], c, 1)
    <3> HIDE DEF fs
    <3>1. \A p \in 1 .. Len(fs) : \E n \in 1 .. 1 : \E i \in 1 .. Len(c[n].rows) : fs[p] = Els(c, n)[i]
      BY <1>3, <1>5 DEF fs
    <3>2. \A n \in 1 .. 1 : \A i \in 1 .. Len(c[n].rows) : \E p \in 1 .. Len(fs) : fs[p] = Els(c, n)[i]
      BY <1>3, <1>5 DEF fs
    <3>3. QED
      BY <1>3, <1>4, <2>1, <3>1, <3>2 DEF Holds
  <2>3. QED
    BY <1>1, <1>5, <2>2
<1>6. CASE k # 1
  <2> DEFINE es == F[k - 1]
             gs == es \o fs
  <2>1. k - 1 \in 1 .. Len(c) /\ k - 1 \notin Bad /\ k \in 2 .. Len(c)
    BY <1>0, <1>1, <1>2, <1>6
  <2>2. Holds(es, c, k - 1)
    BY <2>1
  <2>3. F[k] = gs
    BY <2>1 DEF Joined
  <2> HIDE DEF fs, es
  <2>4. /\ es \in Seq(Element) /\ Len(es) \in Nat /\ gs \in Seq(Element) /\ Len(gs) = Len(es) + Len(fs)
        /\ \A p \in 1 .. Len(es) : gs[p] = es[p] /\ es[p] \in Element
        /\ \A i \in 1 .. Len(fs) : gs[Len(es) + i] = fs[i]
        /\ \A p \in 1 .. Len(gs) : p \in 1 .. Len(es) \/ \E i \in 1 .. Len(fs) : p = Len(es) + i
    <3>1. es \in Seq(Element)
      BY <2>2 DEF Holds
    <3>2. Len(gs) = Len(es) + Len(fs) /\ Len(es) \in Nat /\ gs \in Seq(Element)
      BY <1>3, <3>1
    <3>3. \A p \in 1 .. Len(gs) : p \in 1 .. Len(es) \/ (p - Len(es) \in 1 .. Len(fs) /\ p = Len(es) + (p - Len(es)))
      BY <1>3, <3>2
    <3>4. \A p \in 1 .. Len(es) : gs[p] = es[p] /\ es[p] \in Element
      BY <1>3, <3>1
    <3>5. \A i \in 1 .. Len(fs) : gs[Len(es) + i] = fs[i]
      BY <1>3, <3>1, <3>2
    <3> HIDE DEF gs
    <3>6. QED
      BY <3>1, <3>2, <3>3, <3>4, <3>5
  <2> HIDE DEF gs
  <2>5. \A p \in 1 .. Len(es) : es[p].raw.filing # c[k].id
    <3>1. SUFFICES ASSUME NEW p \in 1 .. Len(es) PROVE es[p].raw.filing # c[k].id
      OBVIOUS
    <3>2a. PICK n \in 1 .. (k - 1) : \E i \in 1 .. Len(c[n].rows) : es[p] = Els(c, n)[i]
      BY <2>2 DEF Holds
    <3>2. PICK i \in 1 .. Len(c[n].rows) : es[p] = Els(c, n)[i]
      BY <3>2a
    <3>3. n \in 1 .. Len(c) /\ n # k
      BY <1>0, <1>2
    <3>4. es[p].raw = [filing |-> c[n].id, row |-> i]
      BY <1>0, <3>2, <3>3, ElsAreElements
    <3>5. c[n].id # c[k].id
      BY <1>2, <3>3 DEF CorpusOK
    <3>6. QED
      BY <3>4, <3>5
  <2>6. Different(gs)
    <3>1. SUFFICES ASSUME NEW p \in 1 .. Len(gs), NEW q \in 1 .. Len(gs), gs[p].raw = gs[q].raw
                   PROVE  p = q
      BY DEF Different
    <3>2. CASE p \in 1 .. Len(es) /\ q \in 1 .. Len(es)
      <4>1. es[p].raw = es[q].raw
        BY <2>4, <3>1, <3>2
      <4>2. QED
        BY <2>2, <3>2, <4>1 DEF Holds, Different
    <3>3. ASSUME NEW i \in 1 .. Len(fs), p = Len(es) + i PROVE q \notin 1 .. Len(es)
      <4>1. gs[p].raw.filing = c[k].id
        <5>1. gs[p].raw = [filing |-> c[k].id, row |-> i]
          BY <1>3, <2>4, <3>3
        <5>2. QED
          BY <5>1
      <4>2. QED
        BY <2>4, <2>5, <3>1, <4>1
    <3>4. ASSUME NEW i \in 1 .. Len(fs), q = Len(es) + i PROVE p \notin 1 .. Len(es)
      <4>1. gs[q].raw.filing = c[k].id
        <5>1. gs[q].raw = [filing |-> c[k].id, row |-> i]
          BY <1>3, <2>4, <3>4
        <5>2. QED
          BY <5>1
      <4>2. QED
        BY <2>4, <2>5, <3>1, <4>1
    <3>5. ASSUME NEW i \in 1 .. Len(fs), p = Len(es) + i, NEW j \in 1 .. Len(fs), q = Len(es) + j
          PROVE  p = q
      <4>1. fs[i].raw = fs[j].raw
        BY <2>4, <3>1, <3>5
      <4>2. QED
        BY <1>4, <3>5, <4>1 DEF Different
    <3>6. QED
      BY <2>4, <3>2, <3>3, <3>4, <3>5
  <2>7. ASSUME NEW p \in 1 .. Len(gs)
        PROVE  \E n \in 1 .. k : \E i \in 1 .. Len(c[n].rows) : gs[p] = Els(c, n)[i]
    <3>1. CASE p \in 1 .. Len(es)
      <4>1. PICK n \in 1 .. (k - 1) : \E i \in 1 .. Len(c[n].rows) : es[p] = Els(c, n)[i]
        BY <2>2, <3>1 DEF Holds
      <4>2. n \in 1 .. k
        BY <1>2
      <4>3. QED
        BY <2>4, <3>1, <4>1, <4>2
    <3>2. ASSUME NEW i \in 1 .. Len(fs), p = Len(es) + i
          PROVE  \E n \in 1 .. k : \E j \in 1 .. Len(c[n].rows) : gs[p] = Els(c, n)[j]
      <4>1. k \in 1 .. k /\ i \in 1 .. Len(c[k].rows) /\ gs[p] = Els(c, k)[i]
        BY <1>2, <1>3, <2>4, <3>2 DEF fs
      <4>2. QED
        BY <4>1
    <3>3. QED
      BY <2>4, <3>1, <3>2
  <2>8. ASSUME NEW n \in 1 .. k, NEW i \in 1 .. Len(c[n].rows)
        PROVE  \E p \in 1 .. Len(gs) : gs[p] = Els(c, n)[i]
    <3>1. CASE n = k
      <4>1. i \in 1 .. Len(fs) /\ Len(es) + i \in 1 .. Len(gs)
        BY <1>3, <2>4, <3>1
      <4>2. QED
        BY <2>4, <3>1, <4>1 DEF fs
    <3>2. CASE n # k
      <4>1. n \in 1 .. (k - 1)
        BY <1>2, <3>2
      <4>2. PICK p \in 1 .. Len(es) : es[p] = Els(c, n)[i]
        BY <2>2, <4>1 DEF Holds
      <4>3. p \in 1 .. Len(gs)
        BY <1>3, <2>4
      <4>4. QED
        BY <2>4, <4>2, <4>3
    <3>3. QED
      BY <3>1, <3>2
  <2>9. Holds(F[k], c, k)
    BY <2>3, <2>4, <2>6, <2>7, <2>8 DEF Holds
  <2>10. QED
    BY <1>1, <2>9
<1>7. QED
  BY <1>5, <1>6

LEMMA ElementsHold ==
  ASSUME NEW c, CorpusOK(c)
  PROVE  Holds(Elements(c), c, Len(c))
<1>1. c \in Seq(FiledFiling) /\ Len(c) \in Nat
  BY DEF CorpusOK
<1>2. CASE c = << >>
  <2>1. Elements(c) = << >> /\ Len(c) = 0
    BY <1>1, <1>2, ElementsJoin
  <2>2. << >> \in Seq(Element) /\ Len(<< >>) = 0
    OBVIOUS
  <2>3. QED
    BY <2>1, <2>2 DEF Holds, Different
<1>3. CASE c # << >>
  <2>1. PICK F : Joined(F, c) /\ Elements(c) = F[Len(c)]
    BY <1>1, <1>3, ElementsJoin
  <2>2. Len(c) \in 1 .. Len(c)
    BY <1>1, <1>3
  <2>3. QED
    BY <2>1, <2>2, JoinedHolds
<1>4. QED
  BY <1>2, <1>3

LEMMA TableOf ==
  ASSUME NEW c
  PROVE  V!MappingTable(c) = V!FoldLeft(V!Map, << >>, Elements(c))
BY DEF V!MappingTable, Elements, Parts, Els

\* The table has one row for each element of the corpus, in their order.
LEMMA TableIsRight ==
  ASSUME NEW c, CorpusOK(c)
  PROVE  /\ MappedRight(V!MappingTable(c)) /\ Len(V!MappingTable(c)) = Len(Elements(c))
         /\ \A p \in 1 .. Len(Elements(c)) : /\ V!MappingTable(c)[p].raw = Elements(c)[p].raw
                                             /\ V!MappingTable(c)[p].row = Elements(c)[p].row
<1> DEFINE es == Elements(c)
<1>1. es \in Seq(Element) /\ Different(es)
  BY ElementsHold DEF Holds
<1>2. V!MappingTable(c) = V!FoldLeft(V!Map, << >>, es)
  BY TableOf
<1> HIDE DEF es
<1>3. PICK T : Run(T, es) /\ T[Len(es)] = V!FoldLeft(V!Map, << >>, es)
  BY <1>1, FoldSteps
<1>4. Len(es) \in 0 .. Len(es)
  BY <1>1
<1>5. /\ MappedRight(T[Len(es)]) /\ Len(T[Len(es)]) = Len(es)
      /\ \A p \in 1 .. Len(es) : T[Len(es)][p].raw = es[p].raw /\ T[Len(es)][p].row = es[p].row
  BY <1>1, <1>3, <1>4, RunIsRight
<1>6. QED
  BY <1>2, <1>3, <1>5 DEF es

LEMMA NamedFiling ==
  ASSUME NEW f \in Filed, CorpusOK(corpus)
  PROVE  V!Named(f) \in FiledFiling /\ V!Named(f).id = Len(corpus) + 1
<1>1. Len(corpus) + 1 \in Nat
  BY DEF CorpusOK
<1>2. f.rows \in Seq(V!Row)
  BY FiledAssumption
<1>3. QED
  BY <1>1, <1>2 DEF V!Named, FiledFiling

\* A new filing, at either end, keeps the ids of a corpus apart.
LEMMA CorpusGrows ==
  ASSUME NEW c, CorpusOK(c), NEW f \in FiledFiling, f.id = Len(c) + 1
  PROVE  CorpusOK(Append(c, f)) /\ CorpusOK(<<f>> \o c)
<1> DEFINE n == Len(c)
<1>1. c \in Seq(FiledFiling) /\ n \in Nat
  BY DEF CorpusOK
<1>2. /\ \A k \in 1 .. n : c[k].id \in 1 .. n
      /\ \A k, l \in 1 .. n : c[k].id = c[l].id => k = l
  BY DEF CorpusOK
<1>3. ASSUME NEW w \in Seq(FiledFiling), Len(w) = n + 1, NEW new \in 1 .. (n + 1),
             w[new] = f, NEW shift \in {0, 1},
             \A k \in 1 .. (n + 1) : k # new => k - shift \in 1 .. n /\ w[k] = c[k - shift]
      PROVE  CorpusOK(w)
  <2>1. ASSUME NEW k \in 1 .. (n + 1) PROVE w[k].id \in 1 .. (n + 1) /\ (k # new => w[k].id # n + 1)
    <3>1. CASE k = new
      BY <1>1, <1>3, <3>1
    <3>2. CASE k # new
      <4>1. PICK l \in 1 .. n : w[k] = c[l]
        BY <1>3, <3>2
      <4>2. c[l].id \in 1 .. n
        BY <1>2
      <4>3. QED
        BY <1>1, <4>1, <4>2
    <3>3. QED
      BY <3>1, <3>2
  <2>2. ASSUME NEW k \in 1 .. (n + 1), NEW l \in 1 .. (n + 1), w[k].id = w[l].id PROVE k = l
    <3>1. CASE k = new \/ l = new
      <4>1. w[new].id = n + 1
        BY <1>3
      <4>2. QED
        BY <2>1, <2>2, <3>1, <4>1
    <3>2. CASE k # new /\ l # new
      <4>1. /\ k - shift \in 1 .. n /\ w[k] = c[k - shift]
            /\ l - shift \in 1 .. n /\ w[l] = c[l - shift]
        BY <1>3, <3>2
      <4>2. k - shift = l - shift
        BY <1>2, <2>2, <4>1
      <4>3. QED
        BY <1>3, <4>2
    <3>3. QED
      BY <3>1, <3>2
  <2>3. QED
    BY <1>3, <2>1, <2>2 DEF CorpusOK
<1>4. CorpusOK(Append(c, f))
  <2> DEFINE w == Append(c, f)
  <2>1. /\ w \in Seq(FiledFiling) /\ Len(w) = n + 1 /\ w[n + 1] = f
        /\ \A k \in 1 .. n : w[k] = c[k]
    BY <1>1
  <2> HIDE DEF w
  <2>2. \A k \in 1 .. (n + 1) : k # n + 1 => k - 0 \in 1 .. n /\ w[k] = c[k - 0]
    BY <1>1, <2>1
  <2>3. n + 1 \in 1 .. (n + 1) /\ 0 \in {0, 1}
    BY <1>1
  <2>4. CorpusOK(w)
    BY <1>3, <2>1, <2>2, <2>3
  <2>5. QED
    BY <2>4 DEF w
<1>5. CorpusOK(<<f>> \o c)
  <2> DEFINE w == <<f>> \o c
  <2>1. /\ w \in Seq(FiledFiling) /\ Len(w) = n + 1 /\ w[1] = f
        /\ \A k \in 1 .. n : w[k + 1] = c[k]
    BY <1>1
  <2> HIDE DEF w
  <2>2. \A k \in 1 .. (n + 1) : k # 1 => k - 1 \in 1 .. n /\ w[k] = c[k - 1]
    <3>1. SUFFICES ASSUME NEW k \in 1 .. (n + 1), k # 1 PROVE k - 1 \in 1 .. n /\ w[k] = c[k - 1]
      OBVIOUS
    <3>2. k - 1 \in 1 .. n /\ (k - 1) + 1 = k
      BY <1>1, <3>1
    <3>3. w[(k - 1) + 1] = c[k - 1]
      BY <2>1, <3>2
    <3>4. QED
      BY <3>2, <3>3
  <2>3. 1 \in 1 .. (n + 1) /\ 1 \in {0, 1}
    BY <1>1
  <2>4. CorpusOK(w)
    BY <1>3, <2>1, <2>2, <2>3
  <2>5. QED
    BY <2>4 DEF w
<1>6. QED
  BY <1>4, <1>5

-----------------------------------------------------------------------------
(* The mapping is always the one of the corpus, whose filings differ.      *)
IdentityInv == CorpusOK(corpus) /\ table = V!MappingTable(corpus)

\* In every reachable state the mapping is the one of the corpus, whose filings have
\* ids of their own (CompanyCanonicalizer.build over what was filed).
THEOREM IdentityInvHolds == MCSpec => []IdentityInv
<1>1. MCInit => IdentityInv
  <2> SUFFICES ASSUME MCInit PROVE IdentityInv
    OBVIOUS
  <2>1. corpus = << >> /\ table = << >>
    BY DEF MCInit, V!Init
  <2>2. CorpusOK(<< >>)
    BY DEF CorpusOK
  <2>3. Elements(<< >>) = << >>
    <3>1. << >> \in Seq(FiledFiling)
      OBVIOUS
    <3>2. QED
      BY <3>1, ElementsJoin
  <2>4. Len(V!MappingTable(<< >>)) = 0 /\ V!MappingTable(<< >>) \in Seq(Mapped)
    BY <2>2, <2>3, TableIsRight DEF MappedRight
  <2>5. V!MappingTable(<< >>) = << >>
    BY <2>4
  <2>6. QED
    BY <2>1, <2>2, <2>5 DEF IdentityInv
<1>2. IdentityInv /\ [MCNext]_mcvars => IdentityInv'
  <2> SUFFICES ASSUME IdentityInv, [MCNext]_mcvars PROVE IdentityInv'
    OBVIOUS
  <2>1. CASE UNCHANGED identityVars
    BY <2>1 DEF IdentityInv, identityVars, CorpusOK, FiledFiling
  <2>2. CASE V!Next
    <3>1. PICK f \in Filed : V!FileNext(f) \/ V!FileLate(f)
      BY <2>2 DEF V!Next
    <3>2. /\ corpus' = Append(corpus, V!Named(f)) \/ corpus' = <<V!Named(f)>> \o corpus
          /\ table' = V!MappingTable(corpus')
      BY <3>1 DEF V!FileNext, V!FileLate
    <3>3. CorpusOK(corpus')
      BY <3>2, NamedFiling, CorpusGrows DEF IdentityInv
    <3>4. QED
      BY <3>2, <3>3 DEF IdentityInv, CorpusOK, FiledFiling
  <2>3. QED
    BY <2>1, <2>2 DEF MCNext, mcvars, identityVars
<1>3. QED
  BY <1>1, <1>2, PTL DEF MCSpec

\* One company id means one thing, in any corpus: what _best_candidate joins is joined
\* for a reason that still holds between the first and the last of its rows.
THEOREM IdentitiesAreEvidenced == MCSpec => []IdentityIsEvidenced
<1>1. IdentityInv => IdentityIsEvidenced
  <2> SUFFICES ASSUME IdentityInv PROVE IdentityIsEvidenced
    OBVIOUS
  <2>1. table \in Seq(Mapped) /\ Evidenced(table)
    BY TableIsRight DEF IdentityInv, MappedRight
  <2>2. DOMAIN table = 1 .. Len(table)
    BY <2>1
  <2>3. QED
    BY <2>1, <2>2 DEF IdentityIsEvidenced, V!IdentityIsEvidenced, Evidenced, Evident, SameClass,
                       V!Undocumented
<1>2. QED
  BY <1>1, IdentityInvHolds, PTL

-----------------------------------------------------------------------------
(* One more filing at the end: the run of the canonicalizer goes on.       *)
LEMMA SameRun ==
  ASSUME NEW es \in Seq(Element), NEW more \in Seq(Element), NEW T, NEW U,
         Run(T, es), Run(U, es \o more)
  PROVE  U[Len(es)] = T[Len(es)]
<1> DEFINE gs == es \o more
           Bad == {k \in 0 .. Len(es) : U[k] # T[k]}
<1>1. Len(es) \in Nat /\ Len(more) \in Nat /\ Len(gs) = Len(es) + Len(more)
      /\ \A k \in 1 .. Len(es) : gs[k] = es[k]
  OBVIOUS
<1>2. SUFFICES Bad = {}
  BY <1>1
<1>3. SUFFICES ASSUME Bad # {} PROVE FALSE
  OBVIOUS
<1>4. PICK k \in Bad : \A l \in Bad : k <= l
  <2>1. Bad \in SUBSET Nat
    BY <1>1
  <2>2. QED
    BY <1>3, <2>1, LeastNumber
<1>5. U[0] = T[0]
  BY DEF Run
<1>6. k \in 1 .. Len(es) /\ k - 1 \in 0 .. Len(es) /\ k - 1 \notin Bad /\ k \in 1 .. Len(gs)
  BY <1>1, <1>4, <1>5
<1>7. U[k - 1] = T[k - 1]
  BY <1>6
<1>8. U[k] = V!Map(U[k - 1], gs[k]) /\ T[k] = V!Map(T[k - 1], es[k])
  <2> HIDE DEF gs, Bad
  <2>1. T[k] = V!Map(T[k - 1], es[k])
    BY <1>6 DEF Run
  <2>2. U[k] = V!Map(U[k - 1], gs[k])
    BY <1>6 DEF Run, gs
  <2>3. QED
    BY <2>1, <2>2
<1>9. gs[k] = es[k]
  BY <1>1, <1>6
<1>10. U[k] = T[k]
  <2> HIDE DEF gs, Bad
  <2>1. QED
    BY <1>7, <1>8, <1>9
<1>11. QED
  BY <1>4, <1>10

LEMMA LongerTable ==
  ASSUME NEW es \in Seq(Element), NEW more \in Seq(Element), Different(es \o more)
  PROVE  LET old == V!FoldLeft(V!Map, << >>, es)
             new == V!FoldLeft(V!Map, << >>, es \o more)
         IN  \A i \in 1 .. Len(es) : new[i] = old[i]
<1> DEFINE old == V!FoldLeft(V!Map, << >>, es)
           gs == es \o more
           new == V!FoldLeft(V!Map, << >>, gs)
<1>1. /\ Len(es) \in Nat /\ gs \in Seq(Element) /\ Len(gs) = Len(es) + Len(more) /\ Len(more) \in Nat
      /\ \A k \in 1 .. Len(es) : gs[k] = es[k]
  OBVIOUS
<1>2. Different(es)
  BY <1>1 DEF Different
<1> HIDE DEF gs
<1>3. PICK T : Run(T, es) /\ T[Len(es)] = old
  BY FoldSteps
<1>4. PICK U : Run(U, gs) /\ U[Len(gs)] = new
  BY <1>1, FoldSteps
<1>5. U[Len(es)] = T[Len(es)]
  BY <1>3, <1>4, SameRun DEF gs
<1>6. Different(gs)
  BY DEF gs
<1> HIDE DEF old, new
<1>7. Len(es) \in 0 .. Len(gs) /\ Len(gs) \in 0 .. Len(gs)
  BY <1>1
<1>8. /\ \A i \in 1 .. Len(es) : U[Len(es)][i] = U[i][i]
      /\ \A i \in 1 .. Len(gs) : U[Len(gs)][i] = U[i][i]
  BY <1>1, <1>4, <1>6, <1>7, RunIsRight
<1>9. \A i \in 1 .. Len(es) : i \in 1 .. Len(gs)
  BY <1>1
<1>10. \A i \in 1 .. Len(es) : new[i] = old[i]
  BY <1>3, <1>4, <1>5, <1>8, <1>9
<1>11. QED
  BY <1>10 DEF old, new, gs

LEMMA SameEls ==
  ASSUME NEW c \in Seq(FiledFiling), NEW f \in FiledFiling, NEW n \in 1 .. Len(c)
  PROVE  Els(Append(c, f), n) = Els(c, n)
<1> DEFINE w == Append(c, f)
<1>1. w[n] = c[n]
  OBVIOUS
<1> HIDE DEF w
<1>2. \A i : V!Ambiguous(w, n, i) = V!Ambiguous(c, n, i)
  BY <1>1 DEF V!Ambiguous
<1>3. Els(w, n) = Els(c, n)
  BY <1>1, <1>2 DEF Els
<1>4. QED
  BY <1>3 DEF w

LEMMA SameJoined ==
  ASSUME NEW c \in Seq(FiledFiling), NEW f \in FiledFiling, c # << >>,
         NEW F, Joined(F, c), NEW G, Joined(G, Append(c, f))
  PROVE  G[Len(c)] = F[Len(c)]
<1> DEFINE w == Append(c, f)
           n == Len(c)
           Bad == {k \in 1 .. n : G[k] # F[k]}
<1>1. n \in Nat /\ n # 0 /\ Len(w) = n + 1
  OBVIOUS
<1>2. SUFFICES Bad = {}
  BY <1>1
<1>3. SUFFICES ASSUME Bad # {} PROVE FALSE
  OBVIOUS
<1>4. PICK k \in Bad : \A l \in Bad : k <= l
  <2>1. Bad \in SUBSET Nat
    BY <1>1
  <2>2. QED
    BY <1>3, <2>1, LeastNumber
<1>5. Els(w, k) = Els(c, k)
  BY <1>4, SameEls
<1> HIDE DEF w
<1>6. CASE k = 1
  BY <1>4, <1>5, <1>6 DEF Joined, w
<1>7. CASE k # 1
  <2>1. k \in 2 .. n /\ k \in 2 .. Len(w) /\ k - 1 \in 1 .. n /\ k - 1 \notin Bad
    BY <1>1, <1>4, <1>7
  <2>2. F[k] = F[k - 1] \o Els(c, k) /\ G[k] = G[k - 1] \o Els(w, k)
    <3>1. F[k] = F[k - 1] \o Els(c, k)
      BY <2>1 DEF Joined
    <3>2. G[k] = G[k - 1] \o Els(w, k)
      BY <2>1 DEF Joined, w
    <3>3. QED
      BY <3>1, <3>2
  <2>3. G[k - 1] = F[k - 1]
    BY <2>1
  <2>4. QED
    BY <1>4, <1>5, <2>2, <2>3
<1>8. QED
  BY <1>6, <1>7

LEMMA LongerElements ==
  ASSUME NEW c \in Seq(FiledFiling), c # << >>, NEW f \in FiledFiling
  PROVE  Elements(Append(c, f)) = Elements(c) \o Els(Append(c, f), Len(c) + 1)
<1> DEFINE w == Append(c, f)
           n == Len(c)
<1>1. n \in Nat /\ n # 0 /\ Len(w) = n + 1 /\ w \in Seq(FiledFiling) /\ w # << >>
  OBVIOUS
<1>2. PICK F : Joined(F, c) /\ Elements(c) = F[n]
  BY ElementsJoin
<1> HIDE DEF w
<1>3. PICK G : Joined(G, w) /\ Elements(w) = G[n + 1]
  BY <1>1, ElementsJoin
<1>4. G[n] = F[n]
  BY <1>2, <1>3, SameJoined DEF w
<1>5. G[n + 1] = G[(n + 1) - 1] \o Els(w, n + 1)
  <2>1. n + 1 \in 2 .. Len(w)
    BY <1>1
  <2>2. QED
    BY <1>3, <2>1 DEF Joined
<1>6. (n + 1) - 1 = n
  BY <1>1
<1>7. Elements(w) = Elements(c) \o Els(w, n + 1)
  BY <1>2, <1>3, <1>4, <1>5, <1>6
<1>8. QED
  BY <1>7 DEF w

\* What a filing that comes last does to the table.
LEMMA AppendedTable ==
  ASSUME NEW c, CorpusOK(c), c # << >>, NEW f \in FiledFiling, f.id = Len(c) + 1,
         NEW old, old = V!MappingTable(c), NEW new, new = V!MappingTable(Append(c, f))
  PROVE  /\ MappedRight(old) /\ MappedRight(new) /\ Len(old) <= Len(new)
         /\ \A i \in 1 .. Len(old) : new[i] = old[i] /\ old[i].raw.filing \in 1 .. Len(c)
         /\ \A i \in (Len(old) + 1) .. Len(new) : new[i].raw.filing = Len(c) + 1
<1> DEFINE w == Append(c, f)
           n == Len(c)
           es == Elements(c)
           fs == Els(w, n + 1)
<1>1. c \in Seq(FiledFiling) /\ n \in Nat /\ Len(w) = n + 1 /\ w[n + 1] = f /\ n + 1 \in 1 .. Len(w)
  BY DEF CorpusOK
<1>2. CorpusOK(w) /\ w \in Seq(FiledFiling)
  BY CorpusGrows DEF CorpusOK
<1>3. Elements(w) = es \o fs
  BY <1>1, LongerElements
<1>4. Holds(es, c, n) /\ Holds(Elements(w), w, n + 1)
  BY <1>1, <1>2, ElementsHold
<1> HIDE DEF w, es
<1>5. /\ fs \in Seq(Element) /\ Len(fs) \in Nat
      /\ \A i \in 1 .. Len(fs) : fs[i].raw = [filing |-> n + 1, row |-> i]
  <2>1. PICK k \in 1 .. Len(w) : k = n + 1
    BY <1>1
  <2>2. /\ Els(w, k) \in Seq(Element) /\ Len(Els(w, k)) = Len(w[k].rows)
        /\ \A i \in 1 .. Len(w[k].rows) : Els(w, k)[i].raw = [filing |-> w[k].id, row |-> i]
    BY <1>2, ElsAreElements
  <2>3. fs = Els(w, k) /\ w[k].id = n + 1
    BY <1>1, <2>1
  <2> HIDE DEF fs
  <2>4. QED
    BY <2>2, <2>3
<1> HIDE DEF fs
<1>6. es \in Seq(Element) /\ Len(es) \in Nat /\ Different(es \o fs)
  BY <1>3, <1>4 DEF Holds
<1>7. /\ MappedRight(old) /\ Len(old) = Len(es)
      /\ \A p \in 1 .. Len(es) : old[p].raw = es[p].raw
  BY TableIsRight DEF es
<1>8. /\ MappedRight(new) /\ Len(new) = Len(es \o fs)
      /\ \A p \in 1 .. Len(es \o fs) : new[p].raw = (es \o fs)[p].raw
  BY <1>2, <1>3, TableIsRight DEF w
<1>9. Len(es \o fs) = Len(es) + Len(fs)
      /\ \A i \in 1 .. Len(fs) : (es \o fs)[Len(es) + i] = fs[i]
  BY <1>5, <1>6
<1>10. \A i \in 1 .. Len(es) : new[i] = old[i]
  <2>1. old = V!FoldLeft(V!Map, << >>, es) /\ new = V!FoldLeft(V!Map, << >>, es \o fs)
    <3>1. old = V!FoldLeft(V!Map, << >>, es)
      BY TableOf DEF es
    <3>2. new = V!FoldLeft(V!Map, << >>, Elements(w))
      BY TableOf DEF w
    <3>3. QED
      BY <1>3, <3>1, <3>2
  <2>2. QED
    BY <1>5, <1>6, <2>1, LongerTable
<1>11. ASSUME NEW i \in 1 .. Len(es) PROVE old[i].raw.filing \in 1 .. n
  <2>1. PICK k \in 1 .. n : \E j \in 1 .. Len(c[k].rows) : es[i] = Els(c, k)[j]
    BY <1>4 DEF Holds
  <2>2. PICK j \in 1 .. Len(c[k].rows) : es[i] = Els(c, k)[j]
    BY <2>1
  <2>3. es[i].raw = [filing |-> c[k].id, row |-> j]
    BY <1>1, <2>2, ElsAreElements
  <2>4. c[k].id \in 1 .. n
    BY DEF CorpusOK
  <2>5. old[i].raw.filing = c[k].id
    BY <1>7, <2>3
  <2>6. QED
    BY <2>4, <2>5
<1>12. ASSUME NEW i \in (Len(es) + 1) .. Len(new) PROVE new[i].raw.filing = n + 1
  <2>1. i - Len(es) \in 1 .. Len(fs) /\ i = Len(es) + (i - Len(es)) /\ i \in 1 .. Len(es \o fs)
    BY <1>5, <1>6, <1>8, <1>9
  <2>2. new[i].raw = [filing |-> n + 1, row |-> i - Len(es)]
    BY <1>5, <1>8, <1>9, <2>1
  <2>3. QED
    BY <2>2
<1>13. Len(es) <= Len(new)
  BY <1>5, <1>6, <1>8, <1>9
<1>14. QED
  BY <1>7, <1>8, <1>10, <1>11, <1>12, <1>13

\* ReportedViews has its own name of Cardinality.
LEMMA CountOfPlaces ==
  ASSUME NEW n \in Nat
  PROVE  V!Cardinality(1 .. n) = n
<1>1. V!Cardinality(1 .. n) = Cardinality(1 .. n)
  BY DEF V!Cardinality, Cardinality
<1>2. 1 \in Int /\ n \in Int /\ (1 > n => n = 0)
  OBVIOUS
<1>3. Cardinality(1 .. n) = IF 1 > n THEN 0 ELSE n - 1 + 1
  BY <1>2, FS_Interval
<1>4. QED
  BY <1>1, <1>2, <1>3

LEMMA PrefixStays ==
  ASSUME NEW c, CorpusOK(c), c # << >>, NEW f \in FiledFiling, f.id = Len(c) + 1,
         NEW old, old = V!MappingTable(c), NEW new, new = V!MappingTable(Append(c, f))
  PROVE  V!PrefixUnchanged(old, new)
<1> DEFINE n == Len(old)
           kept == {p \in DOMAIN new : \E i \in DOMAIN old : old[i].raw.filing = new[p].raw.filing}
<1>1. /\ MappedRight(old) /\ MappedRight(new) /\ n <= Len(new)
      /\ \A i \in 1 .. n : new[i] = old[i] /\ old[i].raw.filing \in 1 .. Len(c)
      /\ \A i \in (n + 1) .. Len(new) : new[i].raw.filing = Len(c) + 1
  BY AppendedTable
<1>2. /\ n \in Nat /\ Len(new) \in Nat /\ Len(c) \in Nat
      /\ DOMAIN old = 1 .. n /\ DOMAIN new = 1 .. Len(new)
  BY <1>1 DEF MappedRight, CorpusOK
<1>3. kept = 1 .. n
  <2>1. ASSUME NEW p \in 1 .. n PROVE p \in kept
    BY <1>1, <1>2
  <2>2. ASSUME NEW p \in kept PROVE p \in 1 .. n
    <3>1. p \in 1 .. Len(new) /\ (p \notin 1 .. n => p \in (n + 1) .. Len(new))
      BY <1>2
    <3>2. PICK i \in 1 .. n : old[i].raw.filing = new[p].raw.filing
      BY <1>2
    <3>3. old[i].raw.filing \in 1 .. Len(c) /\ Len(c) + 1 \notin 1 .. Len(c)
      BY <1>1, <1>2
    <3>4. QED
      BY <1>1, <3>1, <3>2, <3>3
  <2>3. QED
    BY <2>1, <2>2
<1> HIDE DEF kept
<1>4. V!Cardinality(kept) = n
  BY <1>2, <1>3, CountOfPlaces
<1>5. ASSUME NEW p \in kept PROVE new[p] = old[V!Cardinality({q \in kept : q <= p})]
  <2>1. p \in 1 .. n /\ p \in Nat
    BY <1>2, <1>3
  <2>2. {q \in kept : q <= p} = 1 .. p
    BY <1>2, <1>3, <2>1
  <2>3. V!Cardinality({q \in kept : q <= p}) = p
    BY <2>1, <2>2, CountOfPlaces
  <2>4. QED
    BY <1>1, <2>1, <2>3
<1>6. QED
  BY <1>4, <1>5 DEF V!PrefixUnchanged, kept

-----------------------------------------------------------------------------
(* The facts of a corpus and their identities.                             *)
IsFact(f, n, x) ==
  /\ x.at = n /\ x.row \in V!RowsOfKind(f, "concept") /\ x.member \in {0} \cup V!RowsOfKind(f, "member")
  /\ x.period \in f.periods /\ x.unit \in f.rows[x.row].units
  /\ x = [at |-> x.at, row |-> x.row, member |-> x.member, period |-> x.period, unit |-> x.unit]

LEMMA FactsOf ==
  ASSUME NEW c \in Seq(FiledFiling), NEW x
  PROVE  x \in V!Facts(c) <=> \E n \in 1 .. Len(c) : IsFact(c[n], n, x)
<1> DEFINE Group(n, i) ==
             [at : {n}, row : {i}, member : {0} \cup V!RowsOfKind(c[n], "member"),
              period : c[n].periods, unit : c[n].rows[i].units]
<1>1. DOMAIN c = 1 .. Len(c)
  OBVIOUS
<1>2. x \in V!Facts(c)
        <=> \E n \in 1 .. Len(c) : \E i \in V!RowsOfKind(c[n], "concept") : x \in Group(n, i)
  BY <1>1 DEF V!Facts
<1>3. ASSUME NEW n \in 1 .. Len(c)
      PROVE  (\E i \in V!RowsOfKind(c[n], "concept") : x \in Group(n, i)) <=> IsFact(c[n], n, x)
  <2>1. ASSUME NEW i \in V!RowsOfKind(c[n], "concept"), x \in Group(n, i) PROVE IsFact(c[n], n, x)
    <3>1. x.at = n /\ x.row = i
      BY <2>1
    <3>2. /\ x.member \in {0} \cup V!RowsOfKind(c[n], "member")
          /\ x.period \in c[n].periods /\ x.unit \in c[n].rows[i].units
      BY <2>1
    <3>3. x = [at |-> x.at, row |-> x.row, member |-> x.member, period |-> x.period, unit |-> x.unit]
      BY <2>1
    <3>4. QED
      BY <3>1, <3>2, <3>3 DEF IsFact
  <2>2. ASSUME IsFact(c[n], n, x)
        PROVE  x.row \in V!RowsOfKind(c[n], "concept") /\ x \in Group(n, x.row)
    <3>1. PICK r, m, p, u : r = x.row /\ m = x.member /\ p = x.period /\ u = x.unit
      OBVIOUS
    <3>2. /\ x = [at |-> n, row |-> r, member |-> m, period |-> p, unit |-> u]
          /\ r \in V!RowsOfKind(c[n], "concept") /\ m \in {0} \cup V!RowsOfKind(c[n], "member")
          /\ p \in c[n].periods /\ u \in c[n].rows[r].units
      BY <2>2, <3>1 DEF IsFact
    <3>3. x \in Group(n, r)
      BY <3>2
    <3>4. QED
      BY <3>1, <3>2, <3>3
  <2>3. QED
    BY <2>1, <2>2
<1> HIDE DEF Group
<1>4. QED
  BY <1>2, <1>3


LEMMA OneMapping ==
  ASSUME NEW t, MappedRight(t), NEW p \in 1 .. Len(t), NEW raw, t[p].raw = raw
  PROVE  V!MappingOf(t, raw) = t[p]
<1> DEFINE Rows == {t[i] : i \in DOMAIN t}
<1>1. DOMAIN t = 1 .. Len(t)
  BY DEF MappedRight
<1>2. t[p] \in Rows
  BY <1>1
<1>3. \A m \in Rows : m.raw = raw => m = t[p]
  BY <1>1 DEF MappedRight, IdsAreRaws
<1> HIDE DEF Rows
<1>4. (CHOOSE m \in Rows : m.raw = raw) = t[p]
  BY <1>2, <1>3
<1>5. QED
  BY <1>4 DEF V!MappingOf, Rows

LEMMA MappingStays ==
  ASSUME NEW c, CorpusOK(c), c # << >>, NEW f \in FiledFiling, f.id = Len(c) + 1,
         NEW old, old = V!MappingTable(c), NEW new, new = V!MappingTable(Append(c, f)),
         NEW n \in 1 .. Len(c), NEW i \in 1 .. Len(c[n].rows)
  PROVE  /\ Append(c, f)[n] = c[n]
         /\ V!MappingOf(new, V!Raw(c[n], i)) = V!MappingOf(old, V!Raw(c[n], i))
<1>1. c \in Seq(FiledFiling) /\ Len(c) \in Nat
  BY DEF CorpusOK
<1>2. Holds(Elements(c), c, Len(c))
  BY ElementsHold
<1>3. n \in 1 .. Len(c) /\ i \in 1 .. Len(c[n].rows)
  OBVIOUS
<1>4. PICK p \in 1 .. Len(Elements(c)) : Elements(c)[p] = Els(c, n)[i]
  BY <1>2, <1>3 DEF Holds
<1>5. Els(c, n)[i].raw = [filing |-> c[n].id, row |-> i]
  BY <1>1, ElsAreElements
<1>6. V!Raw(c[n], i) = [filing |-> c[n].id, row |-> i]
  BY DEF V!Raw
<1>7. /\ Len(old) = Len(Elements(c)) /\ old[p].raw = Elements(c)[p].raw
  BY <1>4, TableIsRight
<1>8. /\ MappedRight(old) /\ MappedRight(new) /\ Len(old) <= Len(new)
      /\ \A k \in 1 .. Len(old) : new[k] = old[k]
  BY AppendedTable
<1>9. p \in 1 .. Len(old) /\ p \in 1 .. Len(new)
  <2>1. Len(old) \in Nat /\ Len(new) \in Nat
    BY <1>8 DEF MappedRight
  <2>2. QED
    BY <1>4, <1>7, <1>8, <2>1
<1> DEFINE raw == V!Raw(c[n], i)
<1>10. old[p].raw = raw /\ new[p].raw = raw
  BY <1>4, <1>5, <1>6, <1>7, <1>8, <1>9
<1> HIDE DEF raw
<1>11. V!MappingOf(old, raw) = old[p] /\ V!MappingOf(new, raw) = new[p]
  BY <1>8, <1>9, <1>10, OneMapping
<1>12. Append(c, f)[n] = c[n]
  BY <1>1
<1>13. QED
  BY <1>8, <1>9, <1>11, <1>12 DEF raw

LEMMA IdentityStays ==
  ASSUME NEW c, CorpusOK(c), c # << >>, NEW f \in FiledFiling, f.id = Len(c) + 1,
         NEW old, old = V!MappingTable(c), NEW new, new = V!MappingTable(Append(c, f)),
         NEW x \in V!Facts(c)
  PROVE  V!ReportedIdentity(Append(c, f), new, x) = V!ReportedIdentity(c, old, x)
<1> DEFINE w == Append(c, f)
<1>1. c \in Seq(FiledFiling)
  BY DEF CorpusOK
<1>2. PICK n \in 1 .. Len(c) : IsFact(c[n], n, x)
  BY <1>1, FactsOf
<1>3. /\ x.at = n /\ x.row \in 1 .. Len(c[n].rows)
      /\ x.member # 0 => x.member \in 1 .. Len(c[n].rows)
  <2>1. c[n] \in FiledFiling
    BY <1>1
  <2>1a. c[n].rows \in Seq(V!Row)
    BY <2>1 DEF FiledFiling
  <2>2. DOMAIN c[n].rows = 1 .. Len(c[n].rows)
    BY <2>1a
  <2>3. QED
    BY <1>2, <2>2 DEF IsFact, V!RowsOfKind
<1>4. w[n] = c[n]
  BY <1>1
<1> HIDE DEF w
<1>5. V!ConceptMapping(w, new, x) = V!ConceptMapping(c, old, x)
  BY <1>3, <1>4, MappingStays DEF V!ConceptMapping
<1>6. x.member # 0 => V!MemberMapping(w, new, x) = V!MemberMapping(c, old, x)
  BY <1>3, <1>4, MappingStays DEF V!MemberMapping
<1>7. V!ReportedIdentity(w, new, x) = V!ReportedIdentity(c, old, x)
  BY <1>5, <1>6 DEF V!ReportedIdentity
<1>8. QED
  BY <1>7 DEF w

\* Versions of one figure differ in their place.
LEMMA VersionsApart ==
  ASSUME NEW c, CorpusOK(c), NEW t, NEW x,
         NEW y \in V!Versions(c, t, x), NEW z \in V!Versions(c, t, x),
         y.at = z.at, y.row = z.row, y.member = z.member
  PROVE  y = z
<1>1. c \in Seq(FiledFiling)
  BY DEF CorpusOK
<1>2. /\ y \in V!Facts(c) /\ z \in V!Facts(c)
      /\ V!ReportedIdentity(c, t, y) = V!ReportedIdentity(c, t, z)
  BY DEF V!Versions
<1>3. PICK n \in 1 .. Len(c) : IsFact(c[n], n, y)
  BY <1>1, <1>2, FactsOf
<1>4. PICK m \in 1 .. Len(c) : IsFact(c[m], m, z)
  BY <1>1, <1>2, FactsOf
<1>5. y.unit = z.unit /\ y.period = z.period
  <2>1. \A v : /\ V!ReportedIdentity(c, t, v).unit = v.unit
               /\ V!ReportedIdentity(c, t, v).period = v.period
    BY DEF V!ReportedIdentity
  <2>2. QED
    BY <1>2, <2>1
<1>6. QED
  BY <1>3, <1>4, <1>5 DEF IsFact

LEMMA FactPlaces ==
  ASSUME NEW c, CorpusOK(c), NEW x \in V!Facts(c)
  PROVE  /\ x.at \in 1 .. Len(c) /\ x.at \in Nat
         /\ x.row \in 1 .. Len(c[x.at].rows) /\ x.row \in Nat
         /\ x.member \in 0 .. Len(c[x.at].rows) /\ x.member \in Nat
         /\ Len(c[x.at].rows) \in Nat
<1>1. c \in Seq(FiledFiling) /\ Len(c) \in Nat
  BY DEF CorpusOK
<1>2. PICK n \in 1 .. Len(c) : IsFact(c[n], n, x)
  BY <1>1, FactsOf
<1>3. c[n].rows \in Seq(V!Row)
  <2>1. c[n] \in FiledFiling
    BY <1>1
  <2>2. QED
    BY <2>1 DEF FiledFiling
<1>4. DOMAIN c[n].rows = 1 .. Len(c[n].rows) /\ Len(c[n].rows) \in Nat
  BY <1>3
<1>5. /\ x.at = n /\ x.row \in 1 .. Len(c[n].rows)
      /\ x.member = 0 \/ x.member \in 1 .. Len(c[n].rows)
  BY <1>2, <1>4 DEF IsFact, V!RowsOfKind
<1>6. QED
  BY <1>1, <1>4, <1>5

-----------------------------------------------------------------------------
(* The first and the last of a set of facts.                               *)

\* A set whose members are ordered by three numbers, one after the other, has a least one.
NotAfter(u, v, w, z, y) ==
  \/ u[z] < u[y]
  \/ u[z] = u[y] /\ v[z] < v[y]
  \/ u[z] = u[y] /\ v[z] = v[y] /\ w[z] <= w[y]

LEMMA LeastOfThree ==
  ASSUME NEW S, S # {}, NEW u \in [S -> Nat], NEW v \in [S -> Nat], NEW w \in [S -> Nat]
  PROVE  \E z \in S : \A y \in S : NotAfter(u, v, w, z, y)
<1> DEFINE A == {u[y] : y \in S}
<1>1. PICK k \in A : \A l \in A : k <= l
  <2>1. A \in SUBSET Nat /\ A # {}
    OBVIOUS
  <2> HIDE DEF A
  <2>2. QED
    BY <2>1, LeastNumber
<1> DEFINE B == {v[y] : y \in {s \in S : u[s] = k}}
<1>2. PICK l \in B : \A m \in B : l <= m
  <2>1. B \in SUBSET Nat /\ B # {}
    OBVIOUS
  <2> HIDE DEF B
  <2>2. QED
    BY <2>1, LeastNumber
<1> DEFINE C == {w[y] : y \in {s \in S : u[s] = k /\ v[s] = l}}
<1>3. PICK m \in C : \A j \in C : m <= j
  <2>1. C \in SUBSET Nat /\ C # {}
    BY <1>2
  <2> HIDE DEF C
  <2>2. QED
    BY <2>1, LeastNumber
<1>4. PICK z \in S : u[z] = k /\ v[z] = l /\ w[z] = m
  BY <1>3
<1>5. ASSUME NEW y \in S
      PROVE  NotAfter(u, v, w, z, y)
  <2>1. u[y] \in Nat /\ v[y] \in Nat /\ w[y] \in Nat /\ u[z] \in Nat /\ v[z] \in Nat /\ w[z] \in Nat
    OBVIOUS
  <2>2. u[z] <= u[y]
    BY <1>1, <1>4
  <2>3. u[y] = u[z] => v[z] <= v[y]
    BY <1>2, <1>4
  <2>4. u[y] = u[z] /\ v[y] = v[z] => w[z] <= w[y]
    BY <1>3, <1>4
  <2>5. QED
    BY <2>1, <2>2, <2>3, <2>4 DEF NotAfter
<1>6. QED
  BY <1>5

LEMMA FirstIs ==
  ASSUME NEW S, NEW z \in S, \A y \in S \ {z} : V!FiledBefore(z, y) /\ ~V!FiledBefore(y, z)
  PROVE  V!FirstFiled(S) = z
<1>1. \A x \in S : (\A y \in S \ {x} : ~V!FiledBefore(y, x)) => x = z
  OBVIOUS
<1>2. \A y \in S \ {z} : ~V!FiledBefore(y, z)
  OBVIOUS
<1>3. QED
  BY <1>1, <1>2 DEF V!FirstFiled

LEMMA LastIs ==
  ASSUME NEW S, NEW z \in S, \A y \in S \ {z} : V!FiledBefore(y, z) /\ ~V!FiledBefore(z, y)
  PROVE  V!LastFiled(S) = z
<1>1. \A x \in S : (\A y \in S \ {x} : ~V!FiledBefore(x, y)) => x = z
  OBVIOUS
<1>2. \A y \in S \ {z} : ~V!FiledBefore(z, y)
  OBVIOUS
<1>3. QED
  BY <1>1, <1>2 DEF V!LastFiled

\* A figure has a first report, and a filing's reports of it have a last one.
LEMMA FirstReport ==
  ASSUME NEW c, CorpusOK(c), NEW t, NEW x \in V!Facts(c)
  PROVE  \E z \in V!Versions(c, t, x) :
           \A y \in V!Versions(c, t, x) \ {z} : V!FiledBefore(z, y) /\ ~V!FiledBefore(y, z)
<1> DEFINE S == V!Versions(c, t, x)
<1>1. x \in S /\ \A y \in S : y \in V!Facts(c)
  BY DEF V!Versions
<1>2. \A y, z \in S : y.at = z.at /\ y.row = z.row /\ y.member = z.member => y = z
  BY VersionsApart
<1> HIDE DEF S
<1>3. \A y \in S : y.at \in Nat /\ y.row \in Nat /\ y.member \in Nat
  BY <1>1, FactPlaces
<1> DEFINE u == [y \in S |-> y.at]
           v == [y \in S |-> y.row]
           w == [y \in S |-> y.member]
<1>4. PICK z \in S : \A y \in S : NotAfter(u, v, w, z, y)
  <2>1. u \in [S -> Nat] /\ v \in [S -> Nat] /\ w \in [S -> Nat] /\ S # {}
    BY <1>1, <1>3
  <2> HIDE DEF u, v, w
  <2>2. QED
    BY <2>1, LeastOfThree
<1>5. ASSUME NEW y \in S \ {z} PROVE V!FiledBefore(z, y) /\ ~V!FiledBefore(y, z)
  <2>1. \/ z.at < y.at
        \/ z.at = y.at /\ z.row < y.row
        \/ z.at = y.at /\ z.row = y.row /\ z.member <= y.member
    BY <1>4 DEF NotAfter
  <2>2. ~(z.at = y.at /\ z.row = y.row /\ z.member = y.member)
    BY <1>2
  <2>3. /\ z.at \in Nat /\ z.row \in Nat /\ z.member \in Nat
        /\ y.at \in Nat /\ y.row \in Nat /\ y.member \in Nat
    BY <1>3
  <2>4. QED
    BY <2>1, <2>2, <2>3 DEF V!FiledBefore
<1>6. QED
  BY <1>5 DEF S

LEMMA LastOfFiling ==
  ASSUME NEW c, CorpusOK(c), NEW t, NEW x, NEW n \in 1 .. Len(c),
         NEW S, S = {y \in V!Versions(c, t, x) : y.at = n}, S # {}
  PROVE  \E z \in S : \A y \in S \ {z} : V!FiledBefore(y, z) /\ ~V!FiledBefore(z, y)
<1> DEFINE R == Len(c[n].rows)
<1>1. \A y \in S : y \in V!Facts(c) /\ y.at = n
  BY DEF V!Versions
<1>2. \A y, z \in S : y.at = z.at /\ y.row = z.row /\ y.member = z.member => y = z
  BY VersionsApart
<1>3. \A y \in S : y.row \in 1 .. R /\ y.member \in 0 .. R /\ R \in Nat
  BY <1>1, FactPlaces
<1> HIDE DEF R
<1> DEFINE u == [y \in S |-> 0]
           v == [y \in S |-> R - y.row]
           w == [y \in S |-> R - y.member]
<1>4. PICK z \in S : \A y \in S : NotAfter(u, v, w, z, y)
  <2>1. u \in [S -> Nat] /\ v \in [S -> Nat] /\ w \in [S -> Nat]
    <3>1. \A y \in S : R - y.row \in Nat /\ R - y.member \in Nat
      BY <1>3
    <3>2. QED
      BY <3>1
  <2> HIDE DEF u, v, w
  <2>2. QED
    BY <2>1, LeastOfThree
<1>5. ASSUME NEW y \in S \ {z} PROVE V!FiledBefore(y, z) /\ ~V!FiledBefore(z, y)
  <2>1. R - z.row < R - y.row \/ (R - z.row = R - y.row /\ R - z.member <= R - y.member)
    <3>1. /\ u[z] = 0 /\ u[y] = 0 /\ v[z] = R - z.row /\ v[y] = R - y.row
          /\ w[z] = R - z.member /\ w[y] = R - y.member
      OBVIOUS
    <3> HIDE DEF u, v, w
    <3>2. QED
      BY <1>4, <3>1 DEF NotAfter
  <2>2. ~(z.at = y.at /\ z.row = y.row /\ z.member = y.member)
    BY <1>2
  <2>3. /\ z.at = n /\ y.at = n /\ n \in Nat /\ R \in Nat
        /\ z.row \in Nat /\ z.member \in Nat /\ y.row \in Nat /\ y.member \in Nat
    BY <1>1, <1>3
  <2>4. y.row < z.row \/ (y.row = z.row /\ y.member < z.member)
    BY <2>1, <2>2, <2>3
  <2>5. QED
    BY <2>3, <2>4 DEF V!FiledBefore
<1>6. QED
  BY <1>5


LEMMA VersionsGrow ==
  ASSUME NEW c, CorpusOK(c), c # << >>, NEW f \in FiledFiling, f.id = Len(c) + 1,
         NEW old, old = V!MappingTable(c), NEW new, new = V!MappingTable(Append(c, f)),
         NEW x \in V!Facts(c)
  PROVE  LET V1 == V!Versions(c, old, x)
             V2 == V!Versions(Append(c, f), new, x)
         IN  /\ x \in V!Facts(Append(c, f))
             /\ V1 = {y \in V2 : y.at # Len(c) + 1}
<1> DEFINE w == Append(c, f)
           V1 == V!Versions(c, old, x)
           V2 == V!Versions(w, new, x)
<1>1. c \in Seq(FiledFiling) /\ Len(c) \in Nat
  BY DEF CorpusOK
<1>2. w \in Seq(FiledFiling) /\ Len(w) = Len(c) + 1 /\ \A n \in 1 .. Len(c) : w[n] = c[n]
  BY <1>1
<1> HIDE DEF w
<1>3. ASSUME NEW y \in V!Facts(c) PROVE y \in V!Facts(w) /\ y.at # Len(c) + 1
  <2>1. PICK n \in 1 .. Len(c) : IsFact(c[n], n, y)
    BY <1>1, FactsOf
  <2>2. n \in 1 .. Len(w) /\ IsFact(w[n], n, y)
    BY <1>1, <1>2, <2>1
  <2>3. y.at = n /\ n # Len(c) + 1
    BY <1>1, <2>1 DEF IsFact
  <2>4. QED
    BY <1>2, <2>2, <2>3, FactsOf
<1>4. ASSUME NEW y \in V!Facts(w), y.at # Len(c) + 1 PROVE y \in V!Facts(c)
  <2>1. PICK n \in 1 .. Len(w) : IsFact(w[n], n, y)
    BY <1>2, FactsOf
  <2>2. y.at = n
    BY <2>1 DEF IsFact
  <2>3. n \in 1 .. Len(c)
    BY <1>1, <1>2, <1>4, <2>2
  <2>4. IsFact(c[n], n, y)
    BY <1>2, <2>1, <2>3
  <2>5. QED
    BY <1>1, <2>3, <2>4, FactsOf
<1>5. \A y \in V!Facts(c) : V!ReportedIdentity(w, new, y) = V!ReportedIdentity(c, old, y)
  BY IdentityStays DEF w
<1>6. \A y \in V1 : y \in V2 /\ y.at # Len(c) + 1
  BY <1>3, <1>5 DEF V!Versions
<1>7. \A y \in V2 : y.at # Len(c) + 1 => y \in V1
  BY <1>4, <1>5 DEF V!Versions
<1>8. V1 = {y \in V2 : y.at # Len(c) + 1}
  <2> HIDE DEF V1, V2
  <2>1. QED
    BY <1>6, <1>7
<1>9. QED
  BY <1>3, <1>8 DEF w

LEMMA ReportsKept ==
  ASSUME NEW c, CorpusOK(c), c # << >>, NEW f \in FiledFiling, f.id = Len(c) + 1,
         NEW old, old = V!MappingTable(c), NEW new, new = V!MappingTable(Append(c, f)),
         NEW x \in V!Facts(c)
  PROVE  /\ V!AsFiled(Append(c, f), new, x) = V!AsFiled(c, old, x)
         /\ LET latest == V!LatestReported(Append(c, f), new, x)
            IN  latest = V!LatestReported(c, old, x) \/ latest.at = Len(c) + 1
<1> DEFINE w == Append(c, f)
           n == Len(c) + 1
           V1 == V!Versions(c, old, x)
           V2 == V!Versions(w, new, x)
           S == {y \in V2 : y.at = n}
<1>1. V1 = {y \in V2 : y.at # n} /\ x \in V!Facts(w)
  BY VersionsGrow
<1>2. CorpusOK(w)
  BY CorpusGrows
<1>3. Len(w) = n /\ Len(c) \in Nat /\ n \in 1 .. Len(w)
  BY DEF CorpusOK
<1>4. \A y \in V1 : y.at \in 1 .. Len(c) /\ y.at \in Nat
  <2>1. \A y \in V1 : y \in V!Facts(c)
    BY DEF V!Versions
  <2> HIDE DEF V1
  <2>2. QED
    BY <2>1, FactPlaces
<1>5. PICK z \in V1 : \A y \in V1 \ {z} : V!FiledBefore(z, y) /\ ~V!FiledBefore(y, z)
  BY FirstReport
<1> HIDE DEF w, V1, V2
<1>6. V!FirstFiled(V1) = z
  BY <1>5, FirstIs
<1>7. z \in V2 /\ \A y \in V2 \ {z} : V!FiledBefore(z, y) /\ ~V!FiledBefore(y, z)
  <2>1. z \in V2
    BY <1>1, <1>5
  <2>2. ASSUME NEW y \in V2 \ {z} PROVE V!FiledBefore(z, y) /\ ~V!FiledBefore(y, z)
    <3>1. CASE y \in V1
      BY <1>5, <2>2, <3>1
    <3>2. CASE y \notin V1
      <4>1. y.at = n
        BY <1>1, <2>2, <3>2
      <4>2. z.at \in 1 .. Len(c) /\ z.at \in Nat
        BY <1>4, <1>5
      <4>3. z.at < y.at /\ ~(y.at < z.at) /\ y.at # z.at
        BY <1>3, <4>1, <4>2
      <4>4. QED
        BY <4>3 DEF V!FiledBefore
    <3>3. QED
      BY <3>1, <3>2
  <2>3. QED
    BY <2>1, <2>2
<1>8. V!FirstFiled(V2) = z
  BY <1>7, FirstIs
<1>9. CASE S = {}
  <2>1. V2 = V1
    BY <1>1, <1>9
  <2>2. QED
    BY <1>6, <1>8, <2>1 DEF V!AsFiled, V!LatestReported, V1, V2, w
<1>10. CASE S # {}
  <2>1. \E v \in S : \A y \in S \ {v} : V!FiledBefore(y, v) /\ ~V!FiledBefore(v, y)
    <3>1. PICK m \in 1 .. Len(w) : m = n
      BY <1>3
    <3>2. S = {y \in V!Versions(w, new, x) : y.at = m}
      BY <3>1 DEF V2
    <3> HIDE DEF S
    <3>3. QED
      BY <1>2, <1>10, <3>2, LastOfFiling
  <2>2. PICK v \in S : \A y \in S \ {v} : V!FiledBefore(y, v) /\ ~V!FiledBefore(v, y)
    BY <2>1
  <2>3. v \in V2 /\ v.at = n
    OBVIOUS
  <2>4. ASSUME NEW y \in V2 \ {v} PROVE V!FiledBefore(y, v) /\ ~V!FiledBefore(v, y)
    <3>1. CASE y \in S
      BY <2>2, <2>4, <3>1
    <3>2. CASE y \notin S
      <4>1. y.at \in 1 .. Len(c) /\ y.at \in Nat
        BY <1>1, <1>4, <2>4, <3>2
      <4>2. y.at < v.at /\ ~(v.at < y.at) /\ v.at # y.at
        BY <1>3, <2>3, <4>1
      <4>3. QED
        BY <4>2 DEF V!FiledBefore
    <3>3. QED
      BY <3>1, <3>2
  <2>5. V!LastFiled(V2) = v
    BY <2>3, <2>4, LastIs
  <2>6. QED
    BY <1>6, <1>8, <2>3, <2>5 DEF V!AsFiled, V!LatestReported, V1, V2, w
<1>11. QED
  BY <1>9, <1>10

\* A filing after all others lets the history be taken over and changes no answer but
\* LATEST_REPORTED's, which can only move to it (prepare_history_append).
THEOREM ReportsAreKept == MCSpec => AppendKeepsReports
<1> DEFINE Kept ==
      Len(corpus) > 0 /\ SubSeq(corpus', 1, Len(corpus)) = corpus =>
       /\ reuse' = "reused"
       /\ \A x \in V!Facts(corpus) :
            /\ V!AsFiled(corpus', table', x) = V!AsFiled(corpus, table, x)
            /\ LET latest == V!LatestReported(corpus', table', x)
               IN  latest = V!LatestReported(corpus, table, x) \/ latest.at = Len(corpus')
<1>1. IdentityInv /\ [MCNext]_mcvars => [Kept]_(V!vars)
  <2> SUFFICES ASSUME IdentityInv, [MCNext]_mcvars PROVE [Kept]_(V!vars)
    OBVIOUS
  <2>1. CASE UNCHANGED identityVars
    BY <2>1 DEF identityVars, V!vars
  <2>2. CASE V!Next
    <3>1. PICK f \in Filed : V!FileNext(f) \/ V!FileLate(f)
      BY <2>2 DEF V!Next
    <3> DEFINE g == V!Named(f)
               n == Len(corpus)
    <3>2. /\ CorpusOK(corpus) /\ table = V!MappingTable(corpus)
          /\ corpus \in Seq(FiledFiling) /\ n \in Nat
      BY DEF IdentityInv, CorpusOK
    <3>3. g \in FiledFiling /\ g.id = n + 1
      BY <3>2, NamedFiling
    <3> SUFFICES ASSUME n > 0, SubSeq(corpus', 1, n) = corpus PROVE Kept
      OBVIOUS
    <3> HIDE DEF g
    <3>4. CASE V!FileNext(f)
      <4>1. /\ corpus' = Append(corpus, g) /\ table' = V!MappingTable(corpus') /\ corpus # << >>
            /\ V!PrefixUnchanged(table, table') => reuse' = "reused"
        BY <3>2, <3>4 DEF V!FileNext, g
      <4>2. V!PrefixUnchanged(table, table')
        BY <3>2, <3>3, <4>1, PrefixStays
      <4>3. Len(corpus') = n + 1
        BY <3>2, <4>1
      <4>4. ASSUME NEW x \in V!Facts(corpus)
            PROVE  /\ V!AsFiled(corpus', table', x) = V!AsFiled(corpus, table, x)
                   /\ LET latest == V!LatestReported(corpus', table', x)
                      IN  latest = V!LatestReported(corpus, table, x) \/ latest.at = Len(corpus')
        BY <3>2, <3>3, <4>1, <4>3, ReportsKept
      <4>5. QED
        BY <4>1, <4>2, <4>4
    <3>5. CASE V!FileLate(f)
      <4>1. corpus' = <<g>> \o corpus
        BY <3>5 DEF V!FileLate, g
      <4>2. corpus'[1] = g /\ SubSeq(corpus', 1, n)[1] = corpus'[1]
        BY <3>2, <3>3, <4>1
      <4>3. corpus[1].id = n + 1
        BY <3>3, <4>2
      <4>4. corpus[1].id \in 1 .. n
        BY <3>2 DEF CorpusOK
      <4>5. QED
        BY <3>2, <4>3, <4>4
    <3>6. QED
      BY <3>1, <3>4, <3>5
  <2>3. QED
    BY <2>1, <2>2 DEF MCNext, mcvars, identityVars, V!vars
<1>2. QED
  BY <1>1, IdentityInvHolds, PTL DEF MCSpec, AppendKeepsReports, V!AppendKeepsReports
=============================================================================
