----------------------------- MODULE MCHeavyRun -----------------------------
(***************************************************************************)
(* Three parts of the operations tools, side by side: a behaviour runs one *)
(* of them and leaves the others away.                                     *)
(*                                                                         *)
(* Runs (HeavyRun): two processes, which either run tools of the           *)
(* collection against each other or recover to one output root as          *)
(* commands, and a reader.  Stages (FinancialStages): the chain with its   *)
(* metadata pinned or published, edited at its two ends and its middle.    *)
(* Company (CompanyRecovery): one company of each kind.  The parameters    *)
(* stay constants here, so that HeavyRunProofs speaks of any value.        *)
(***************************************************************************)
EXTENDS HeavyRun, TLC

CONSTANTS
  p1, p2, k1,
  StageOrders, Touchable, MaxPapers,  \* of FinancialStages
  Plans                               \* of CompanyRecovery

Told(tool, lent) == [tool |-> tool, lent |-> lent]
Pair(a, b) == (p1 :> a) @@ (p2 :> b)

\* Two commands meet exchanged sources and readers; the tools meet each other.
Commands == [told |-> Pair(Told("command", FALSE), Told("command", FALSE)),
             exchanges |-> 2, opens |-> 2, kills |-> 1]
Supervised(a, b) == [told |-> Pair(a, b), exchanges |-> 0, opens |-> 0, kills |-> 2]

MCOrders ==
  {Commands,
   Supervised(Told("recovery", TRUE), Told("recovery", FALSE)),
   Supervised(Told("recovery", TRUE), Told("build", FALSE)),
   Supervised(Told("recovery", FALSE), Told("build", FALSE)),
   Supervised(Told("build", FALSE), Told("build", FALSE)),
   Supervised(Told("financial", FALSE), Told("financial", FALSE))}

-----------------------------------------------------------------------------
MCStageOrders == {[mode |-> "EXISTING", edits |-> 2, stops |-> 0],
                  [mode |-> "PUBLISH", edits |-> 1, stops |-> 1]}

MCTouchable == {"history", "annual_analysis", "identity"}

Plan(name, n, b, c) == [name |-> name, natives |-> n, batches |-> b, changes |-> c]
MCPlans == {Plan("JNJ", 1, 1, 1), Plan("JNJ", 2, 0, 0), Plan("first", 1, 1, 0), Plan("later", 0, 1, 1)}

\* The metadata has an explicit mode.
ASSUME StageOrdersAssumption == \A o \in StageOrders : o.mode \in {"EXISTING", "PUBLISH"}

VARIABLES
  part,
  mode, at, from, receipt, doc, verdict, tried, preflighted, work, touched, accepted, full,
  edits, stops,
  plan, intake, roots, built, natives, batches, summaries, opsReceipt, recovered,
  native, batch, recovery, lock, evidence, stage, changes

stagesVars == <<mode, at, from, receipt, doc, verdict, tried, preflighted, work, touched,
                accepted, full, edits, stops>>
companyVars == <<plan, intake, roots, built, natives, batches, summaries, opsReceipt, recovered,
                 native, batch, recovery, lock, evidence, stage, changes>>
runsVars == <<source, exchanges, opens, root, tx, reader, order, sup, wrk, holders, disk, marker,
              kills>>

F == INSTANCE FinancialStages WITH Orders <- StageOrders
C == INSTANCE CompanyRecovery WITH marker <- built, accepted <- evidence

\* The variables of a part that is not run.
NoRuns ==
  /\ source = 0 /\ exchanges = 0 /\ opens = 0 /\ root = 0 /\ tx = 0 /\ reader = 0
  /\ order = 0 /\ sup = 0 /\ wrk = 0 /\ holders = 0 /\ disk = 0 /\ marker = 0 /\ kills = 0
NoStages ==
  /\ mode = 0 /\ at = 0 /\ from = 0 /\ receipt = 0 /\ doc = 0 /\ verdict = 0 /\ tried = 0
  /\ preflighted = 0 /\ work = 0 /\ touched = 0 /\ accepted = 0 /\ full = 0 /\ edits = 0
  /\ stops = 0
NoCompany ==
  /\ plan = 0 /\ intake = 0 /\ roots = 0 /\ built = 0 /\ natives = 0 /\ batches = 0
  /\ summaries = 0 /\ opsReceipt = 0 /\ recovered = 0 /\ native = 0 /\ batch = 0
  /\ recovery = 0 /\ lock = 0 /\ evidence = 0 /\ stage = 0 /\ changes = 0

MCInit ==
  \/ part = "runs" /\ Init /\ NoStages /\ NoCompany
  \/ part = "stages" /\ F!Init /\ NoRuns /\ NoCompany
  \/ part = "company" /\ C!Init /\ NoRuns /\ NoStages

MCNext ==
  /\ UNCHANGED part
  /\ \/ part = "runs" /\ Next /\ UNCHANGED <<stagesVars, companyVars>>
     \/ part = "stages" /\ F!Next /\ UNCHANGED <<runsVars, companyVars>>
     \/ part = "company" /\ C!Next /\ UNCHANGED <<runsVars, stagesVars>>

\* HeavyRun's fairness, in the part that runs it.
MCFairness ==
  \A p \in Procs : /\ WF_vars(part = "runs" /\ Supervise(p))
                   /\ WF_vars(part = "runs" /\ KernelKills(p))
                   /\ WF_vars(part = "runs" /\ InstallGuard(p))

mcvars == <<part, runsVars, stagesVars, companyVars>>
MCSpec == MCInit /\ [][MCNext]_mcvars /\ MCFairness

-----------------------------------------------------------------------------
\* Nothing under the output root is read before its receipt is linked, whoever
\* opened it when; the receipt stands for the attested stage and for quarters
\* derived from the attested observations, whenever the sources were exchanged,
\* and that is what is read (_check_recovery_access,
\* HistoryPublicationReader._records, _RecoveryPins, recover_reported_history).
ReadsAreCompleted ==
  part = "runs" =>
    /\ \A k \in Readers : reader[k].pc = "read" =>
         /\ root.receipt # NoOne
         /\ Len(reader[k].got) = Staged
         /\ \A i \in DOMAIN reader[k].got : reader[k].got[i] = "attested"
    /\ root.receipt # NoOne => /\ root.reported = [i \in StageFiles |-> "attested"]
                               /\ root.panels = root.reported
                               /\ root.from = "attested"

\* At most one worker does heavy work, a worker the kernel is about to kill not
\* counted: also when a lender ends, or a supervisor dies, while it works
\* (heavy_lock, _borrowed_c_lease, install_parent_death_guard).
Heavy(p) == wrk[p] \in {"working", "producing", "worked", "marked"}
OneHeavyWorker ==
  part = "runs" => Cardinality({p \in Procs : Heavy(p) /\ ~(sup[p].pc = "dead")}) <= 1

\* A stage was made from what the receipts of its parents attest, unless
\* something was edited beside its worker; and when the run over all companies
\* begins, so was everything it stands on, whatever lay at the roots between
\* (_parent_receipts, _validate_first5_acceptance).
ApprovedLineage == part = "stages" => F!ApprovedLineage

\* A company that a recovery made READY has its marker from that recovery, and
\* every other output root a batch build or a recovery ever left for it is one
\* its receipt names: also one that left no record, was begun while the papers
\* went round, or waited for the lock (_validate_collection_target).
EveryFailureIsDeclared == part = "company" => C!EveryFailureIsDeclared

\* A run that began ends, and no worker outlives it: not even one whose
\* supervisor was killed (supervise_owned_process, install_parent_death_guard).
RunsEnd ==
  \A p \in Procs : (part = "runs" /\ sup[p].pc # "idle")
                     ~> (part = "runs" /\ sup[p].pc \in {"ended", "dead"} /\ ~Live(p))
=============================================================================
