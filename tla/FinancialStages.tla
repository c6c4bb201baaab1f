--------------------------- MODULE FinancialStages ---------------------------
(***************************************************************************)
(* The chain of financial stages (universe50_financial_ops): a preflight   *)
(* pins the evidence from outside; each stage is requested, approved by an *)
(* operator's GO and run once, on outputs its parents' receipts attest;    *)
(* the acceptance of a first run over five companies opens the run over    *)
(* all of them.  Meanwhile an operator puts other outputs in place of what *)
(* was made, removes them, or puts them back.                              *)
(*                                                                         *)
(* HeavyRun models the supervisor and the lock: here one worker works at a *)
(* time.  A stage runs once, so what it made is called "own"; what an      *)
(* operator may put in its place belongs to "other" runs over the same     *)
(* histories.                                                              *)
(***************************************************************************)
EXTENDS Naturals, FiniteSets

CONSTANTS
  Orders,     \* how the metadata comes, "EXISTING" or "PUBLISH"; bounds: the
              \* edits of the operator and the stages that stop short
  Touchable,  \* bound: the roots an operator edits one by one
  MaxPapers   \* bound: the stages requested and not yet run

Analyses == {"annual_analysis", "quarterly_analysis"}
Chain == {"identity", "annual_metrics", "annual_dataset_v2", "quarterly_metrics",
          "combined_dataset_v3"}
Stages == {"metadata", "quality"} \cup Analyses \cup Chain
External == {"collection", "package_view", "history"}

Dependencies ==
  [s \in Stages |->
    CASE s = "identity" -> {"quality"} \cup Analyses
      [] s = "annual_metrics" -> {"identity"}
      [] s = "annual_dataset_v2" -> {"annual_metrics"}
      [] s = "quarterly_metrics" -> {"annual_metrics", "quarterly_analysis", "identity"}
      [] s = "combined_dataset_v3" -> {"annual_dataset_v2", "quarterly_metrics"}
      [] OTHER -> {}]

\* What the producer of a stage reads.
Reads ==
  [s \in Stages |->
    CASE s = "metadata" -> {"collection"}
      [] s \in Analyses -> {"history"}
      [] s = "quality" -> External
      [] s = "identity" -> {"collection", "history", "metadata"} \cup Dependencies[s]
      [] s = "annual_metrics" -> {"identity", "annual_analysis"}
      [] s = "annual_dataset_v2" -> {"annual_metrics", "identity"}
      [] OTHER -> Dependencies[s]]

VARIABLES
  mode,
  at,        \* what lies at each root: "none", "own" or "other"
  from,      \* what a stage's own output was made from
  receipt,   \* the outputs a stage's receipt attests, or "none"
  doc,       \* a stage's papers: "none", "requested" or "go"
  verdict,   \* its summary: "none", "PASS" or "FAIL"
  tried,     \* the stages whose log exists
  preflighted,
  work,      \* the stage that runs, how far it is and the digests of its config
  touched,   \* history: the stages beside whose worker something was edited
  accepted,  \* the manifests the first-five acceptance names, or None
  full,      \* whether the run over all companies has begun
  edits, stops

vars == <<mode, at, from, receipt, doc, verdict, tried, preflighted, work, touched,
          accepted, full, edits, stops>>

None == [stage |-> "none"]
Published == IF mode = "PUBLISH" THEN Stages ELSE Stages \ {"metadata"}

\* The outputs are distinct roots, and the metadata has an explicit mode.
Init ==
  /\ \E o \in Orders : mode = o.mode /\ edits = o.edits /\ stops = o.stops
  /\ at = [x \in Stages \cup External |-> IF x \in Published THEN "none" ELSE "own"]
  /\ from = [s \in Stages |-> [x \in Reads[s] |-> "none"]]
  /\ receipt = [s \in Stages |-> "none"]
  /\ doc = [s \in Stages |-> "none"]
  /\ verdict = [s \in Stages |-> "none"]
  /\ tried = {} /\ preflighted = FALSE /\ work = None /\ touched = {}
  /\ accepted = None /\ full = FALSE

-----------------------------------------------------------------------------
\* The papers

\* The READY marker of every company names the configured history.
HistoryBound == at["history"] = "own"

ExternalHolds ==
  at["collection"] = "own" /\ at["package_view"] = "own" /\ HistoryBound

\* Existing metadata is pinned by the config, and looked at here and by the
\* identity only.
MetadataPinned == mode = "EXISTING" => at["metadata"] = "own"

Preflight ==
  /\ ~preflighted
  /\ \A s \in Published : at[s] = "none"
  /\ ExternalHolds /\ MetadataPinned
  /\ preflighted' = TRUE
  /\ UNCHANGED <<mode, at, from, receipt, doc, verdict, tried, work, touched, accepted, full, edits, stops>>

Parents(s) ==
  Dependencies[s] \cup (IF mode = "PUBLISH" /\ s # "metadata" THEN {"metadata"} ELSE {})

\* Mutant: a receipt is taken at its word.
Receipted(s) == receipt[s] # "none"

\* Every file of the roots is the one the receipt attests, and there is no other.
OutputVerified(s) == receipt[s] # "none" /\ at[s] = receipt[s]

ParentsVerified(s) == \A p \in Parents(s) : OutputVerified(p)

Valid == preflighted /\ ExternalHolds

Unattempted(s) == verdict[s] = "none" /\ receipt[s] = "none" /\ at[s] = "none"

RequestStage(s) ==
  /\ s \in Published /\ doc[s] = "none"
  /\ Cardinality({t \in Stages \ tried : doc[t] # "none"}) < MaxPapers
  /\ Valid /\ Unattempted(s) /\ ParentsVerified(s)
  /\ doc' = [doc EXCEPT ![s] = "requested"]
  /\ UNCHANGED <<mode, at, from, receipt, verdict, tried, preflighted, work, touched, accepted, full, edits, stops>>

\* The operator copies the request into a GO.
Approve(s) ==
  /\ doc[s] = "requested"
  /\ doc' = [doc EXCEPT ![s] = "go"]
  /\ UNCHANGED <<mode, at, from, receipt, verdict, tried, preflighted, work, touched, accepted, full, edits, stops>>

\* Request and GO must be what would be written now.
GoValid(s) == Valid /\ doc[s] = "go" /\ ParentsVerified(s)

-----------------------------------------------------------------------------
\* A run of a stage

\* The log is created exclusively, which is the one thing a killed supervisor
\* is sure to leave.
RunStage(s) ==
  /\ work = None /\ GoValid(s) /\ Unattempted(s)
  /\ IF s \in tried
     THEN verdict' = [verdict EXCEPT ![s] = "FAIL"] /\ UNCHANGED <<tried, work>>
     ELSE /\ tried' = tried \cup {s}
          /\ work' = [stage |-> s, step |-> "started"]
          /\ UNCHANGED verdict
  /\ UNCHANGED <<mode, at, from, receipt, doc, preflighted, touched, accepted, full, edits, stops>>

AtStep(step) == work # None /\ work.step = step

\* The worker validates the GO again.
Admit ==
  /\ AtStep("started") /\ GoValid(work.stage)
  /\ work' = [work EXCEPT !.step = "admitted"]
  /\ UNCHANGED <<mode, at, from, receipt, doc, verdict, tried, preflighted, touched, accepted, full, edits, stops>>

\* The producer's config takes the digests of the outputs as they are; those of
\* the evidence come from the operations config.
Digest(x) == IF x \in Published THEN at[x] ELSE "own"

WriteConfig ==
  /\ AtStep("admitted")
  /\ \A x \in Reads[work.stage] : at[x] # "none"
  /\ work.stage = "identity" => MetadataPinned
  /\ work' = [stage |-> work.stage, step |-> "configured",
              digests |-> [x \in Reads[work.stage] |-> Digest(x)]]
  /\ UNCHANGED <<mode, at, from, receipt, doc, verdict, tried, preflighted, touched, accepted, full, edits, stops>>

\* An output of another run is made from its own kind, over the same evidence.
Of(s, x) == IF at[s] = "own" THEN from[s][x] ELSE IF x \in External THEN "own" ELSE "other"

\* An analysis is prepared from whatever history lies there; every other
\* producer compares the digests of its config.
Compares(s) == IF s \in Analyses THEN {} ELSE Reads[s]

\* The publications a producer opens, which compare what they name.
Opened(s) ==
  CASE s = "annual_metrics" -> {"identity"}
    [] s \in {"annual_dataset_v2", "quarterly_metrics"} -> {"identity", "annual_metrics"}
    [] s = "combined_dataset_v3" -> {"identity", "annual_metrics", "annual_dataset_v2"}
    [] OTHER -> {}

Names(p) == IF p = "annual_metrics" THEN {"identity"} ELSE Reads[p]

Opens(p) == \A x \in Names(p) : at[x] = Of(p, x)

\* The sources of the identity were made from the collection's history, the
\* quarters have their analysis attested by the identity, and the halves of the
\* combined dataset share their annual metrics.
Bound(s) ==
  CASE s = "identity" -> \A p \in Dependencies[s] : Of(p, "history") = "own"
    [] s = "quarterly_metrics" -> at["quarterly_analysis"] = Of("identity", "quarterly_analysis")
    [] s = "combined_dataset_v3" -> Of("quarterly_metrics", "annual_metrics")
                                      = Of("annual_dataset_v2", "annual_metrics")
    [] OTHER -> TRUE

Produce ==
  LET s == work.stage IN
  /\ AtStep("configured") /\ at[s] = "none"
  /\ \A x \in Reads[s] : at[x] # "none"
  /\ \A x \in Compares(s) : at[x] = work.digests[x]
  /\ \A p \in Opened(s) : at[p] # "none" /\ Opens(p)
  /\ Bound(s)
  /\ at' = [at EXCEPT ![s] = "own"]
  /\ from' = [from EXCEPT ![s] = [x \in Reads[s] |-> at[x]]]
  /\ work' = [stage |-> s, step |-> "produced"]
  /\ UNCHANGED <<mode, receipt, doc, verdict, tried, preflighted, touched, accepted, full, edits, stops>>

\* The outputs are hashed where they lie.
WriteReceipt ==
  /\ AtStep("produced") /\ at[work.stage] # "none"
  /\ receipt' = [receipt EXCEPT ![work.stage] = at[work.stage]]
  /\ work' = [work EXCEPT !.step = "attested"]
  /\ UNCHANGED <<mode, at, from, doc, verdict, tried, preflighted, touched, accepted, full, edits, stops>>

EndStage ==
  /\ AtStep("attested")
  /\ verdict' = [verdict EXCEPT ![work.stage] = "PASS"]
  /\ work' = None
  /\ UNCHANGED <<mode, at, from, receipt, doc, tried, preflighted, touched, accepted, full, edits, stops>>

\* Refused, failed, over a limit or killed: with a summary or, the supervisor
\* dying too, without one.  A receipt that was written stays.
StopStage ==
  /\ work # None /\ stops > 0
  /\ stops' = stops - 1
  /\ \/ verdict' = [verdict EXCEPT ![work.stage] = "FAIL"]
     \/ UNCHANGED verdict
  /\ work' = None
  /\ UNCHANGED <<mode, at, from, receipt, doc, tried, preflighted, touched, accepted, full, edits>>

-----------------------------------------------------------------------------
\* The first five accepted

Manifests == [x \in Stages |-> at[x]]

\* The acceptance is written by hand once every stage has its receipt.
Accept ==
  /\ accepted = None /\ \A s \in Published : receipt[s] # "none"
  /\ accepted' = Manifests
  /\ UNCHANGED <<mode, at, from, receipt, doc, verdict, tried, preflighted, work, touched, full, edits, stops>>

AcceptanceHolds ==
  /\ accepted # None
  /\ \A s \in Published : OutputVerified(s)
  /\ accepted = Manifests

\* The run over all companies looks at the five's evidence as at its own.
FullPreflight ==
  /\ ~full /\ ExternalHolds /\ MetadataPinned /\ AcceptanceHolds
  /\ full' = TRUE
  /\ UNCHANGED <<mode, at, from, receipt, doc, verdict, tried, preflighted, work, touched, accepted, edits, stops>>

-----------------------------------------------------------------------------
\* The operator

Made == {x \in Stages \cup External : x \in Published => from[x] # [y \in Reads[x] |-> "none"]}

\* One root, or all that has been made, is replaced, removed or put back.
Edit ==
  /\ edits > 0
  /\ \E X \in {{x} : x \in Made \cap Touchable} \cup {Made}, v \in {"none", "own", "other"} :
       /\ \E x \in X : at[x] # v
       /\ at' = [x \in DOMAIN at |-> IF x \in X /\ x \notin External THEN v
                                     ELSE IF X = {x} THEN v ELSE at[x]]
  /\ edits' = edits - 1
  /\ touched' = IF work # None /\ work.step \in {"admitted", "configured", "produced"}
                THEN touched \cup {work.stage} ELSE touched
  /\ UNCHANGED <<mode, from, receipt, doc, verdict, tried, preflighted, work, accepted, full, stops>>

Next ==
  \/ Preflight \/ Edit \/ Accept \/ FullPreflight
  \/ \E s \in Stages : RequestStage(s) \/ Approve(s) \/ RunStage(s)
  \/ Admit \/ WriteConfig \/ Produce \/ WriteReceipt \/ EndStage \/ StopStage

Spec == Init /\ [][Next]_vars

-----------------------------------------------------------------------------
\* A stage was made from what the receipts of its parents attest, unless
\* something was edited beside its worker; and when the run over all companies
\* begins, so was everything it stands on, whatever lay at the roots between
\* (_parent_receipts, _validate_first5_acceptance).
ApprovedLineage ==
  /\ \A s \in Stages : receipt[s] # "none" /\ s \notin touched =>
       /\ receipt[s] = "own"
       /\ \A p \in Parents(s) \cap Reads[s] : from[s][p] = receipt[p]
  /\ AcceptanceHolds /\ touched = {} =>
       \A s \in Published : \A x \in Reads[s] : from[s][x] = "own"
=============================================================================
