------------------------- MODULE CompanyCollection -------------------------
(***************************************************************************)
(* The company universe of collection_operations: prepare, collect and     *)
(* build are commands that people repeat until every company of a run is   *)
(* READY.  Nothing records how far they came.  What there is to do next is *)
(* derived from the artifacts they left, and each may die anywhere.  Two   *)
(* commands may run beside each other, on one company at most one collect  *)
(* and one build.                                                          *)
(*                                                                         *)
(* A filing is its position in the company's plan.  A snapshot of a filing *)
(* is abstracted to whose it is: made by this run, or found in the source  *)
(* run that a collect is given, there with the same content or another.    *)
(***************************************************************************)
EXTENDS Naturals, Sequences

CONSTANTS
  Cohort,     \* the configured companies, in order
  Filings,    \* per company: the number of planned filings
  Source,     \* per company and filing: "none", "same" or "other" in the source run
  Procs,      \* the operators' shells
  Guides,     \* whether the operators keep to the derived next action
  None,
  MaxFaults   \* bound: crashes and failing operations, by guided

Companies == {Cohort[i] : i \in DOMAIN Cohort}

ASSUME CohortAssumption ==
  /\ Cohort \in Seq(Companies)
  /\ \A i, j \in DOMAIN Cohort : Cohort[i] = Cohort[j] => i = j
  /\ Filings \in [Companies -> Nat \ {0}]
  /\ \A c \in Companies : Source[c] \in [1 .. Filings[c] -> {"none", "same", "other"}]

VARIABLES
  manifest,   \* collection_manifest.json: the plan_status of each company, or None
  plan,       \* "none", "plan" (plan.json) or "identified" (plan_identity.json too)
  own,        \* the filings with a snapshot in the run's own intake directory
  intake,     \* history_intake.json: the outcomes in plan order, << >> without one
  publication,\* how many stages are published, and of which snapshots
  marker,     \* build_manifest.json: the intake it pins, or None
  collected,  \* the result of the latest collect attempt
  built,      \* the result of the latest build attempt
  job,        \* the command of each shell, with the companies it has still to do
  guided, faults

perCompany == <<plan, own, intake, publication, marker, collected, built>>
vars == <<manifest, perCompany, job, guided, faults>>

NoJob == [op |-> "none", todo |-> {}]
Stages == 3   \* the operational roots, the reported panels, the quarter panels
Results == {"none", "ok", "failed"}
Outcomes == {"INGESTED", "OWN", "SOURCE", "FAILED"}   \* REUSED has a source_run

Init ==
  /\ manifest = None
  /\ plan = [c \in Companies |-> "none"]
  /\ own = [c \in Companies |-> {}]
  /\ intake = [c \in Companies |-> << >>]
  /\ publication = [c \in Companies |-> [stage |-> 0, of |-> None]]
  /\ marker = [c \in Companies |-> None]
  /\ collected = [c \in Companies |-> "none"]
  /\ built = [c \in Companies |-> "none"]
  /\ job = [p \in Procs |-> NoJob]
  /\ guided \in Guides
  /\ faults = 0

-----------------------------------------------------------------------------
(* The derived status.                                                     *)

Complete(c, outcomes) ==
  /\ Len(outcomes) = Filings[c]
  /\ \A i \in DOMAIN outcomes : outcomes[i] # "FAILED"

(* The content of the snapshots an intake names: the release fingerprint.  *)
Snapshots(c, outcomes) ==
  [i \in 1 .. Filings[c] |->
     IF outcomes[i] = "SOURCE" /\ Source[c][i] = "other" THEN "other" ELSE "own"]

(* _validate_build_attestation                                             *)
Attested(c) == Complete(c, intake[c]) /\ marker[c] = intake[c]

(* _company_status: the next action, by the artifacts that are left.       *)
Action(c) ==
  CASE manifest[c] = "FAILED" -> "PREPARE"
    [] marker[c] # None -> IF Attested(c) THEN "NONE" ELSE "BUILD"
    [] built[c] = "failed" -> "BUILD"
    [] Complete(c, intake[c]) -> "BUILD_OPTIONAL"
    [] collected[c] = "failed" \/ (\E i \in DOMAIN intake[c] : intake[c][i] = "FAILED") -> "RETRY"
    [] OTHER -> "COLLECT"

(* _attest_run, before every command: a prepared company's plan is there,  *)
(* with the identity that was written for it.                              *)
RunAttested ==
  /\ manifest # None
  /\ \A c \in Companies : manifest[c] = "PREPARED" => plan[c] = "identified"

Ready(c) == RunAttested /\ Action(c) = "NONE"

-----------------------------------------------------------------------------
(* Commands.                                                               *)

Busy(op, c) == \E p \in Procs : job[p].op = op /\ c \in job[p].todo

(* The companies are done in the order of the configuration.               *)
Company(p) ==
  Cohort[CHOOSE i \in DOMAIN Cohort :
           /\ Cohort[i] \in job[p].todo
           /\ \A j \in 1 .. i - 1 : Cohort[j] \notin job[p].todo]
Prepared(S) == {c \in S : manifest[c] = "PREPARED"}

Fault == faults < MaxFaults[guided] /\ faults' = faults + 1

(* The next company's turn, with the local state of the loop reset.        *)
NextCompany(p) ==
  LET left == job[p].todo \ {Company(p)}
  IN job' = [job EXCEPT ![p] =
               CASE job[p].op = "collect" ->
                      [job[p] EXCEPT !.todo = left, !.outcomes = << >>, !.fresh = FALSE]
                 [] job[p].op = "build" -> [job[p] EXCEPT !.todo = left, !.of = None]
                 [] OTHER -> [job[p] EXCEPT !.todo = left]]

(* The command ends, after the status has been written for its readers.    *)
End(p) ==
  /\ job[p].op \in {"collect", "build"} /\ job[p].todo = {}
  /\ job' = [job EXCEPT ![p] = NoJob]
  /\ UNCHANGED <<manifest, perCompany, guided, faults>>

Crash(p) ==
  /\ job[p] # NoJob
  /\ Fault
  /\ job' = [job EXCEPT ![p] = NoJob]
  /\ UNCHANGED <<manifest, perCompany, guided>>

-----------------------------------------------------------------------------
(* prepare_universe                                                        *)

StartPrepare(p) ==
  /\ job[p] = NoJob
  /\ \A q \in Procs : job[q].op # "prepare"
  /\ manifest # None => RunAttested
  /\ guided /\ manifest # None => \E c \in Companies : manifest[c] = "FAILED"
  /\ job' = [job EXCEPT ![p] = [op |-> "prepare", todo |-> Companies,
                                rows |-> [c \in Companies |-> "FAILED"]]]
  /\ UNCHANGED <<manifest, perCompany, guided, faults>>

(* A caller's plan is copied, or discovery writes one.                     *)
WritePlan(p) ==
  /\ job[p].op = "prepare" /\ job[p].todo # {}
  /\ plan[Company(p)] = "none"
  /\ plan' = [plan EXCEPT ![Company(p)] = "plan"]
  /\ UNCHANGED <<manifest, own, intake, publication, marker, collected, built,
                 job, guided, faults>>

WriteIdentity(p) ==
  /\ job[p].op = "prepare" /\ job[p].todo # {}
  /\ plan[Company(p)] = "plan"
  /\ plan' = [plan EXCEPT ![Company(p)] = "identified"]
  /\ UNCHANGED <<manifest, own, intake, publication, marker, collected, built,
                 job, guided, faults>>

CompanyPrepared(p) ==
  /\ job[p].op = "prepare" /\ job[p].todo # {}
  /\ plan[Company(p)] = "identified"
  /\ job' = [job EXCEPT ![p].rows[Company(p)] = "PREPARED", ![p].todo = @ \ {Company(p)}]
  /\ UNCHANGED <<manifest, perCompany, guided, faults>>

(* Discovery, validation or a different plan supplied by the caller fails  *)
(* the company, even one that has been prepared before.                    *)
PrepareFails(p) ==
  /\ job[p].op = "prepare" /\ job[p].todo # {}
  /\ Fault
  /\ NextCompany(p)
  /\ UNCHANGED <<manifest, perCompany, guided>>

EndPrepare(p) ==
  /\ job[p].op = "prepare" /\ job[p].todo = {}
  /\ manifest' = job[p].rows
  /\ job' = [job EXCEPT ![p] = NoJob]
  /\ UNCHANGED <<perCompany, guided, faults>>

-----------------------------------------------------------------------------
(* collect_universe with history.ingest_history                            *)

(* Operators who keep to the next action repeat the same command, source   *)
(* run included.                                                           *)
StartCollect(p, S, given) ==
  /\ job[p] = NoJob /\ RunAttested
  /\ \A c \in S : ~Busy("collect", c)
  /\ guided => given /\ \A c \in S : Action(c) \in {"COLLECT", "RETRY"}
  /\ job' = [job EXCEPT ![p] = [op |-> "collect", todo |-> Prepared(S), given |-> given,
                                outcomes |-> << >>, fresh |-> FALSE]]
  /\ UNCHANGED <<manifest, perCompany, guided, faults>>

Filing(p) == Len(job[p].outcomes) + 1
Ingesting(p) ==
  /\ job[p].op = "collect" /\ job[p].todo # {}
  /\ Filing(p) <= Filings[Company(p)]
InSource(p) == job[p].given /\ Source[Company(p)][Filing(p)] # "none"
InOwn(p) == Filing(p) \in own[Company(p)] /\ ~job[p].fresh

(* No snapshot anywhere: the filing is fetched and its snapshot renamed    *)
(* into place.                                                             *)
Extract(p) ==
  /\ Ingesting(p)
  /\ ~InSource(p) /\ Filing(p) \notin own[Company(p)]
  /\ own' = [own EXCEPT ![Company(p)] = @ \cup {Filing(p)}]
  /\ job' = [job EXCEPT ![p].fresh = TRUE]
  /\ UNCHANGED <<manifest, plan, intake, publication, marker, collected, built,
                 guided, faults>>

(* The outcome is added and the intake, as far as this command has come,   *)
(* replaces the one that was there.                                        *)
Record(p, outcome) ==
  /\ job' = [job EXCEPT ![p].outcomes = Append(@, outcome), ![p].fresh = FALSE]
  /\ intake' = [intake EXCEPT ![Company(p)] = Append(job[p].outcomes, outcome)]
  /\ UNCHANGED <<manifest, plan, own, publication, marker, collected, built, guided>>

\* Mutant: the first of several snapshots is taken without comparing them.
OutcomeOfFirst(p) ==
  IF job[p].fresh THEN "INGESTED" ELSE IF InSource(p) THEN "SOURCE" ELSE "OWN"

Outcome(p) ==
  IF job[p].fresh THEN "INGESTED"
  ELSE IF ~InSource(p) THEN "OWN"
  ELSE IF InOwn(p) /\ Source[Company(p)][Filing(p)] = "other" THEN "FAILED"
  ELSE "SOURCE"

RecordFiling(p) ==
  /\ Ingesting(p)
  /\ job[p].fresh \/ InSource(p) \/ InOwn(p)
  /\ Record(p, Outcome(p))
  /\ UNCHANGED faults

(* The filing fails, before or after its snapshot is in place.             *)
FilingFails(p) ==
  /\ Ingesting(p)
  /\ Fault
  /\ Record(p, "FAILED")

CollectAttempt(p, result) ==
  /\ collected' = [collected EXCEPT ![Company(p)] = result]
  /\ NextCompany(p)
  /\ UNCHANGED <<manifest, plan, own, intake, publication, marker, built, guided>>

(* RAW_COMPLETE or RAW_PARTIAL.                                            *)
CompanyCollected(p) ==
  /\ job[p].op = "collect" /\ job[p].todo # {} /\ ~Ingesting(p)
  /\ CollectAttempt(p, "ok")
  /\ UNCHANGED faults

(* RAW_FAILED: the intake itself cannot be read or written.                *)
IngestRaises(p) ==
  /\ Ingesting(p)
  /\ Fault
  /\ CollectAttempt(p, "failed")

-----------------------------------------------------------------------------
(* build_universe with history.build_history                               *)

(* Every marker in the scope is checked before the first build: an invalid *)
(* one refuses the whole command.                                          *)
StartBuild(p, S) ==
  /\ job[p] = NoJob /\ RunAttested
  /\ \A c \in S : ~Busy("build", c)
  /\ guided => \A c \in S : Action(c) \in {"BUILD", "BUILD_OPTIONAL"}
  /\ \A c \in S : manifest[c] = "PREPARED" /\ marker[c] # None => Attested(c)
  /\ job' = [job EXCEPT ![p] = [op |-> "build", todo |-> Prepared(S), of |-> None,
                                attested |-> [c \in Companies |->
                                               IF c \in S THEN intake[c] ELSE << >>]]]
  /\ UNCHANGED <<manifest, perCompany, guided, faults>>

Building(p) ==
  /\ job[p].op = "build" /\ job[p].todo # {}
  /\ Complete(Company(p), job[p].attested[Company(p)])

SkipBuild(p) ==
  /\ job[p].op = "build" /\ job[p].todo # {} /\ ~Building(p)
  /\ NextCompany(p)
  /\ UNCHANGED <<manifest, perCompany, guided, faults>>

BuildAttempt(p, result) ==
  /\ built' = [built EXCEPT ![Company(p)] = result]
  /\ NextCompany(p)
  /\ UNCHANGED <<manifest, plan, own, intake, publication, marker, collected, guided>>

(* A marker is there: the attempt of this command, or of the last one.     *)
CompanyBuilt(p) ==
  /\ Building(p) /\ marker[Company(p)] # None
  /\ BuildAttempt(p, "ok")
  /\ UNCHANGED faults

\* Mutant: a publication that has been begun is in the way.
LoadableNew(c) == Complete(c, intake[c]) /\ publication[c].of = None

(* "all planned filings must be ingested", and what has been published is  *)
(* of the same snapshots.                                                  *)
Loadable(c) ==
  /\ Complete(c, intake[c])
  /\ publication[c].of \in {None, Snapshots(c, intake[c])}

(* build_history reads the intake again and loads the snapshots it names.  *)
LoadRelease(p) ==
  /\ Building(p) /\ marker[Company(p)] = None /\ job[p].of = None
  /\ Loadable(Company(p))
  /\ job' = [job EXCEPT ![p].of = Snapshots(Company(p), intake[Company(p)])]
  /\ UNCHANGED <<manifest, perCompany, guided, faults>>

ReleaseRefused(p) ==
  /\ Building(p) /\ marker[Company(p)] = None /\ job[p].of = None
  /\ ~Loadable(Company(p))
  /\ BuildAttempt(p, "failed")
  /\ UNCHANGED faults

(* The next stage is staged, verified and renamed; those that are there    *)
(* are verified and kept.                                                  *)
Publish(p) ==
  /\ Building(p) /\ marker[Company(p)] = None /\ job[p].of # None
  /\ publication[Company(p)].stage < Stages
  /\ publication' = [publication EXCEPT ![Company(p)] =
                       [stage |-> @.stage + 1, of |-> job[p].of]]
  /\ UNCHANGED <<manifest, plan, own, intake, marker, collected, built, job,
                 guided, faults>>

(* The reader that makes the attestation takes a whole publication only.   *)
PublicationValidates(c) == publication[c].stage = Stages

(* The marker pins the intake that was read before the first build.        *)
Attest(p) ==
  /\ Building(p) /\ marker[Company(p)] = None /\ job[p].of # None
  /\ PublicationValidates(Company(p))
  /\ marker' = [marker EXCEPT ![Company(p)] = job[p].attested[Company(p)]]
  /\ UNCHANGED <<manifest, plan, own, intake, publication, collected, built, job,
                 guided, faults>>

BuildFails(p) ==
  /\ Building(p) /\ marker[Company(p)] = None
  /\ Fault
  /\ BuildAttempt(p, "failed")

-----------------------------------------------------------------------------
Step(p) ==
  \/ WritePlan(p) \/ WriteIdentity(p) \/ CompanyPrepared(p) \/ EndPrepare(p)
  \/ Extract(p) \/ RecordFiling(p) \/ CompanyCollected(p)
  \/ SkipBuild(p) \/ CompanyBuilt(p) \/ LoadRelease(p) \/ ReleaseRefused(p)
  \/ Publish(p) \/ Attest(p)
  \/ End(p)

Trouble(p) ==
  PrepareFails(p) \/ FilingFails(p) \/ IngestRaises(p) \/ BuildFails(p) \/ Crash(p)

Scopes == SUBSET Companies \ {{}}
Next ==
  \E p \in Procs :
    \/ StartPrepare(p)
    \/ \E S \in Scopes, given \in BOOLEAN : StartCollect(p, S, given)
    \/ \E S \in Scopes : StartBuild(p, S)
    \/ Step(p) \/ Trouble(p)

Spec == Init /\ [][Next]_vars

(* Operators who keep to the next action do start it, company by company,  *)
(* and commands that do not die come to their end.                         *)
Fairness ==
  /\ \A p \in Procs : WF_vars(Step(p))
  /\ WF_vars(\E p \in Procs : guided /\ StartPrepare(p))
  /\ \A c \in Companies :
       /\ WF_vars(\E p \in Procs : guided /\ StartCollect(p, {c}, TRUE))
       /\ WF_vars(\E p \in Procs : guided /\ StartBuild(p, {c}))
LiveSpec == Spec /\ Fairness

-----------------------------------------------------------------------------
(* Correctness.                                                            *)

(* A company that the status calls READY has a whole publication, and it   *)
(* is of the snapshots that its intake names now, although the build reads *)
(* the intake twice and a collect may rewrite it between (marker's         *)
(* intake_sha256, the one snapshot per accession of ingest_history).       *)
ReadyIsWhatWasBuilt ==
  \A c \in Companies :
    Ready(c) =>
      /\ publication[c].stage = Stages
      /\ publication[c].of = Snapshots(c, intake[c])

(* Wherever a command fails or dies, keeping to the next action makes      *)
(* every company READY, and it stays so: what a dead command has left is   *)
(* continued or adopted, never in the way.                                 *)
AdviceConverges == guided => \A c \in Companies : <>[]Ready(c)
=============================================================================
