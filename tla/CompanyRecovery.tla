--------------------------- MODULE CompanyRecovery ---------------------------
(***************************************************************************)
(* How one company of the batch comes to its history: its raw filings are *)
(* adopted from accepted runs, the collection's own build or the batch     *)
(* build (universe50_t3v2_ops) is run, and what has failed is recovered    *)
(* under a new output root (universe50_history_recovery_ops).  A recovery  *)
(* must name every failed attempt before it and the output roots they left;*)
(* its preflight, request, GO, supervisor and worker each look again.      *)
(*                                                                         *)
(* The batch build and the recovery hold the heavy lock (HeavyRun); the    *)
(* collection's build does not.  All three may die anywhere.  The evidence *)
(* of the first five is FinancialStages' acceptance.                       *)
(***************************************************************************)
EXTENDS Sequences, SequencesExt, FiniteSets, Naturals

CONSTANT
  Plans   \* the company, "JNJ", "first" or "later"; bounds: the attempts of the
          \* collection's build and of the batch build, and the changes to the
          \* accepted evidence and to the stages

Programs == <<"r1", "r2">>   \* the accepted first recovery, and the program of now

VARIABLES
  plan,        \* which company it is, and the bounds
  intake,      \* how far the raw filings are adopted: "none", "intake" or "receipt"
  roots,       \* the output roots that exist
  marker,      \* the root the build marker names, or NoRoot
  natives,     \* the collection's build attempts: [root, failed]
  batches,     \* the batch build's summaries: [root, status]
  summaries,   \* how each recovery ended, by program
  opsReceipt, recovered,   \* the receipts: of the batch build, of the recovery
  native, batch, recovery, \* the three tools
  lock,        \* who has the heavy lock
  accepted,    \* the first five: whether the document stands, and its evidence
  stage,       \* the reported stage the first recovery left, its copy, the reports
  changes

vars == <<plan, intake, roots, marker, natives, batches, summaries, opsReceipt, recovered,
          native, batch, recovery, lock, accepted, stage, changes>>

NoRoot == <<"none", 0>>
Native(o) == <<"native", o>>     \* output_root/ticker
Batch == <<"batch", 0>>          \* ticker-t3v2-run: one per collection
Recovery(v) == <<"recovery", v>> \* ticker-history-recovery-version
OfTools == {Batch} \cup {Recovery(v) : v \in ToSet(Programs)}

Idle == [at |-> "idle"]
NoReceipt == [declared |-> {}]
NoStage == [source |-> 0, clean |-> 0, copied |-> 0, audited |-> 0, attested |-> 0]

Init ==
  /\ plan \in Plans
  /\ intake = "none" /\ roots = {} /\ marker = NoRoot
  /\ natives = <<>> /\ batches = <<>> /\ summaries = [v \in ToSet(Programs) |-> "none"]
  /\ opsReceipt = FALSE /\ recovered = NoReceipt
  /\ native = Idle /\ batch = Idle /\ recovery = Idle /\ lock = "free"
  /\ accepted = [document |-> TRUE, evidence |-> TRUE]
  /\ stage = NoStage /\ changes = 0

\* _company_status, of a company whose filings are all there.
State ==
  CASE intake = "none" -> "PREPARED"
    [] marker # NoRoot -> "READY"
    [] natives # <<>> /\ Last(natives).failed -> "BUILD_FAILED"
    [] OTHER -> "RAW_COMPLETE"

-----------------------------------------------------------------------------
\* The raw filings

\* Every accepted snapshot is pinned and validated, and the intake names them
\* as reused; the receipt of the adoption follows.
AdoptAcceptedRaw ==
  /\ intake # "receipt"
  /\ intake' = IF intake = "none" THEN "intake" ELSE "receipt"
  /\ UNCHANGED <<plan, roots, marker, natives, batches, summaries, opsReceipt, recovered,
                 native, batch, recovery, lock, accepted, stage, changes>>

-----------------------------------------------------------------------------
\* The collection's build

\* With a marker it is an attempt that reuses it, or refused.
StartNative(o) ==
  /\ native = Idle /\ intake # "none" /\ marker = NoRoot /\ Len(natives) < plan.natives
  /\ native' = [at |-> "started", root |-> Native(o)]
  /\ UNCHANGED <<plan, intake, roots, marker, natives, batches, summaries, opsReceipt,
                 recovered, batch, recovery, lock, accepted, stage, changes>>

\* An output root that is there is continued.
NativeWorks ==
  /\ native.at = "started"
  /\ roots' = roots \cup {native.root}
  /\ native' = [native EXCEPT !.at = "built"]
  /\ UNCHANGED <<plan, intake, marker, natives, batches, summaries, opsReceipt, recovered,
                 batch, recovery, lock, accepted, stage, changes>>

\* The build fails, or a marker has appeared in the meantime, or it is the first.
NativeEnds ==
  /\ native.at = "built"
  /\ \/ /\ marker = NoRoot /\ marker' = native.root
        /\ natives' = Append(natives, [root |-> native.root, failed |-> FALSE])
     \/ /\ natives' = Append(natives, [root |-> native.root, failed |-> TRUE])
        /\ UNCHANGED marker
  /\ native' = Idle
  /\ UNCHANGED <<plan, intake, roots, batches, summaries, opsReceipt, recovered, batch,
                 recovery, lock, accepted, stage, changes>>

\* Killed: no attempt is recorded.
NativeDies ==
  /\ native # Idle
  /\ native' = Idle
  /\ UNCHANGED <<plan, intake, roots, marker, natives, batches, summaries, opsReceipt,
                 recovered, batch, recovery, lock, accepted, stage, changes>>

-----------------------------------------------------------------------------
\* The batch build

\* A later company needs the document of the first five; its evidence is not
\* looked at.
BulkGate == plan.name = "later" => accepted.document

\* What is there must be whole: the marker, the receipt and the root of this run.
StartBatch ==
  /\ batch = Idle /\ Len(batches) < plan.batches
  /\ BulkGate
  /\ marker = NoRoot /\ ~opsReceipt /\ Batch \notin roots
  /\ State = "RAW_COMPLETE"
  /\ batch' = [at |-> "checked"]
  /\ UNCHANGED <<plan, intake, roots, marker, natives, batches, summaries, opsReceipt,
                 recovered, native, recovery, lock, accepted, stage, changes>>

BatchLocks ==
  /\ batch.at = "checked"
  /\ IF lock = "free" THEN lock' = "batch" /\ batch' = [at |-> "locked"]
                      ELSE batch' = Idle /\ UNCHANGED lock
  /\ UNCHANGED <<plan, intake, roots, marker, natives, batches, summaries, opsReceipt,
                 recovered, native, recovery, accepted, stage, changes>>

\* The worker looks again, under the lock.
WorkerMayBuild == Batch \notin roots /\ marker = NoRoot /\ ~opsReceipt

BatchWorks ==
  /\ batch.at = "locked" /\ BulkGate /\ WorkerMayBuild
  /\ roots' = roots \cup {Batch}
  /\ batch' = [at |-> "built"]
  /\ UNCHANGED <<plan, intake, marker, natives, batches, summaries, opsReceipt, recovered,
                 native, recovery, lock, accepted, stage, changes>>

BatchMarks ==
  /\ batch.at = "built" /\ marker = NoRoot
  /\ marker' = Batch
  /\ batch' = [at |-> "marked"]
  /\ UNCHANGED <<plan, intake, roots, natives, batches, summaries, opsReceipt, recovered,
                 native, recovery, lock, accepted, stage, changes>>

BatchReceipts ==
  /\ batch.at = "marked"
  /\ opsReceipt' = TRUE
  /\ batches' = Append(batches, [root |-> Batch, status |-> "PASS"])
  /\ batch' = Idle /\ lock' = "free"
  /\ UNCHANGED <<plan, intake, roots, marker, natives, summaries, recovered, native,
                 recovery, accepted, stage, changes>>

\* A failure, a limit, an exception of the supervisor, or its death: the last
\* leaves no summary.
BatchFails ==
  /\ batch.at \in {"locked", "built", "marked"}
  /\ \/ \E s \in {"FAIL", "SUPERVISOR_INTERRUPTED"} :
          batches' = Append(batches, [root |-> Batch, status |-> s])
     \/ UNCHANGED batches
  /\ batch' = Idle /\ lock' = "free"
  /\ UNCHANGED <<plan, intake, roots, marker, natives, summaries, opsReceipt, recovered,
                 native, recovery, accepted, stage, changes>>

-----------------------------------------------------------------------------
\* What a recovery declares

NativeRoots == [i \in DOMAIN natives |-> natives[i].root]

\* Declared: the failed attempts of the collection's build, the batch build's
\* summaries, and whether the first recovery's timeout is among them.
Declaration(n, b, r) == [natives |-> n, batches |-> b, first |-> r]

\* The program of the batch build says SUPERVISOR_INTERRUPTED, which is not
\* among the statuses that may be declared.
Declarable == {"FAIL", "TIMEOUT", "RSS_LIMIT", "INTERRUPTED"}

\* Only JNJ has approved failures; once its first recovery is one of the
\* attempts, a program after it declares the batch failures with it.
DeclarationShape(v, d) ==
  LET any == d.natives > 0 \/ d.batches > 0 \/ d.first IN
  /\ any => plan.name = "JNJ"
  /\ plan.name = "JNJ" /\ v # "r1" /\ d.batches > 0 => d.first
  /\ v = "r1" => ~d.first

\* The roots the declared attempts left, one for each attempt.
FailureRoots(d) ==
  [i \in 1..d.natives |-> natives[i].root] \o [i \in 1..d.batches |-> batches[i].root]
    \o (IF d.first THEN <<Recovery("r1")>> ELSE <<>>)

\* Of the first recovery only a timeout is accepted, with all its papers.
FirstTimedOut == summaries["r1"] = "TIMEOUT"

AttemptsAccounted(d) ==
  /\ d.natives = Len(natives) /\ \A i \in DOMAIN natives : natives[i].failed
  /\ d.batches = Len(batches) /\ \A i \in DOMAIN batches : batches[i].status \in Declarable
  /\ d.first => FirstTimedOut

\* Every failed attempt left its own root, which is there.
RootsAbandoned(d) ==
  /\ ToSet(FailureRoots(d)) \subseteq roots
  /\ IsInjective(FailureRoots(d))

\* Mutant: partial outputs of earlier tools are not looked for.
AnyPartial(d) == TRUE

\* No output root of a batch build or a recovery, whatever is recorded of it.
NoOrphan(d) == roots \cap OfTools \subseteq ToSet(FailureRoots(d))

Unmarked(v) ==
  /\ State = (IF natives # <<>> THEN "BUILD_FAILED" ELSE "RAW_COMPLETE")
  /\ marker = NoRoot /\ ~opsReceipt /\ recovered = NoReceipt
  /\ Recovery(v) \notin roots

-----------------------------------------------------------------------------
\* The reported stage of the first recovery, made use of again

\* Somebody copies the stage the first recovery left, audits the copy, and
\* attests the audit; the reports name what they are about by its digest.
CopyStage ==
  /\ stage.source # 0 /\ FirstTimedOut /\ recovery = Idle
  /\ stage' = [stage EXCEPT !.clean = stage.source, !.copied = stage.source]
  /\ stage' # stage
  /\ UNCHANGED <<plan, intake, roots, marker, natives, batches, summaries, opsReceipt,
                 recovered, native, batch, recovery, lock, accepted, changes>>

Audit ==
  /\ stage.copied # 0 /\ recovery = Idle
  /\ stage' = [stage EXCEPT !.audited = stage.copied]
  /\ stage' # stage
  /\ UNCHANGED <<plan, intake, roots, marker, natives, batches, summaries, opsReceipt,
                 recovered, native, batch, recovery, lock, accepted, changes>>

Attest ==
  /\ stage.audited # 0 /\ recovery = Idle
  /\ stage' = [stage EXCEPT !.attested = stage.audited]
  /\ stage' # stage
  /\ UNCHANGED <<plan, intake, roots, marker, natives, batches, summaries, opsReceipt,
                 recovered, native, batch, recovery, lock, accepted, changes>>

\* Source, copy and reports are about one another, byte for byte.
ReuseBound(v, d) ==
  /\ v = "r2" /\ d.first
  /\ stage.source # 0 /\ stage.source = stage.copied /\ stage.clean = stage.copied
  /\ stage.audited = stage.copied /\ stage.attested = stage.audited

\* The failed root, the copy or the evidence of the first five changes.
Change ==
  /\ changes < plan.changes
  /\ changes' = changes + 1
  /\ \/ /\ stage.source # 0 /\ stage' = [stage EXCEPT !.source = @ + 1] /\ UNCHANGED accepted
     \/ /\ stage.clean # 0 /\ stage' = [stage EXCEPT !.clean = @ + 1] /\ UNCHANGED accepted
     \/ /\ \E f \in {"document", "evidence"} : accepted' = [accepted EXCEPT ![f] = ~@]
        /\ UNCHANGED stage
  /\ UNCHANGED <<plan, intake, roots, marker, natives, batches, summaries, opsReceipt,
                 recovered, native, batch, recovery, lock>>

-----------------------------------------------------------------------------
\* The recovery

\* A later company needs the first five verified to the last file.
FinanciallyAccepted == plan.name = "later" => accepted.document /\ accepted.evidence

\* Every document of a recovery is a function of its config and of this, so a
\* document is the one that would be written now exactly if this holds.
Snapshot(c) ==
  /\ intake # "none"
  /\ AttemptsAccounted(c.declared) /\ RootsAbandoned(c.declared) /\ NoOrphan(c.declared)
  /\ Unmarked(c.version)
  /\ FinanciallyAccepted
  /\ c.reuse => ReuseBound(c.version, c.declared)

Attempted(v) == summaries[v] # "none"

\* A program's execution root is fresh; its output root is new.
Preflight ==
  /\ recovery = Idle
  /\ \E v \in ToSet(Programs), n \in 0..Len(natives), b \in 0..Len(batches), r, reuse \in BOOLEAN :
       LET c == [version |-> v, declared |-> Declaration(n, b, r), reuse |-> reuse] IN
       /\ ~Attempted(v) /\ (v = "r2" => Attempted("r1") \/ ~r)
       /\ DeclarationShape(v, c.declared) /\ Snapshot(c)
       /\ recovery' = [at |-> "preflight", config |-> c]
  /\ UNCHANGED <<plan, intake, roots, marker, natives, batches, summaries, opsReceipt,
                 recovered, native, batch, lock, accepted, stage, changes>>

Document == [preflight |-> "requested", requested |-> "go"]

\* The request, and the GO that the lead writes for it.
Approve ==
  /\ recovery.at \in DOMAIN Document /\ Snapshot(recovery.config)
  /\ recovery' = [recovery EXCEPT !.at = Document[@]]
  /\ UNCHANGED <<plan, intake, roots, marker, natives, batches, summaries, opsReceipt,
                 recovered, native, batch, lock, accepted, stage, changes>>

RunRecovery ==
  /\ recovery.at = "go" /\ Snapshot(recovery.config) /\ lock = "free"
  /\ lock' = "recovery"
  /\ recovery' = [recovery EXCEPT !.at = "locked"]
  /\ UNCHANGED <<plan, intake, roots, marker, natives, batches, summaries, opsReceipt,
                 recovered, native, batch, accepted, stage, changes>>

\* The worker's own look at everything, under the lock, is what the receipt says.
Admit ==
  /\ recovery.at = "locked" /\ Snapshot(recovery.config)
  /\ recovery' = [recovery EXCEPT !.at = "admitted"]
  /\ UNCHANGED <<plan, intake, roots, marker, natives, batches, summaries, opsReceipt,
                 recovered, native, batch, lock, accepted, stage, changes>>

\* A history is built, or derived from the clean stage, whose attestation is
\* pinned (RecoveryTransaction).
Recover ==
  LET c == recovery.config IN
  /\ recovery.at = "admitted" /\ Recovery(c.version) \notin roots
  /\ c.reuse => stage.clean = stage.attested
  /\ roots' = roots \cup {Recovery(c.version)}
  /\ stage' = IF c.version = "r1" THEN [stage EXCEPT !.source = 1] ELSE stage
  /\ recovery' = [at |-> "built", config |-> c, of |-> IF c.reuse THEN stage.clean ELSE 0]
  /\ UNCHANGED <<plan, intake, marker, natives, batches, summaries, opsReceipt, recovered,
                 native, batch, lock, accepted, changes>>

MarkRecovered ==
  /\ recovery.at = "built" /\ marker = NoRoot
  /\ marker' = Recovery(recovery.config.version)
  /\ recovery' = [recovery EXCEPT !.at = "marked"]
  /\ UNCHANGED <<plan, intake, roots, natives, batches, summaries, opsReceipt, recovered,
                 native, batch, lock, accepted, stage, changes>>

WriteReceipt ==
  LET c == recovery.config IN
  /\ recovery.at = "marked" /\ State = "READY"
  /\ recovered' = [declared |-> ToSet(FailureRoots(c.declared)), root |-> Recovery(c.version),
                   reused |-> IF c.reuse THEN recovery.of ELSE 0, attempts |-> c.declared]
  /\ summaries' = [summaries EXCEPT ![c.version] = "PASS"]
  /\ recovery' = Idle /\ lock' = "free"
  /\ UNCHANGED <<plan, intake, roots, marker, natives, batches, opsReceipt, native, batch,
                 accepted, stage, changes>>

\* Refused, over a limit, or killed with its supervisor: the last without a
\* summary, and its execution root is used up all the same.
RecoveryEnds ==
  /\ recovery.at \in {"locked", "admitted", "built", "marked"}
  /\ \E s \in {"FAIL", "TIMEOUT", "gone"} :
       summaries' = [summaries EXCEPT ![recovery.config.version] = s]
  /\ recovery' = Idle /\ lock' = "free"
  /\ UNCHANGED <<plan, intake, roots, marker, natives, batches, opsReceipt, recovered,
                 native, batch, accepted, stage, changes>>

\* A config whose documents no longer hold is given up for another.
GiveUp ==
  /\ recovery.at \in {"preflight", "requested", "go"} /\ ~Snapshot(recovery.config)
  /\ summaries' = [summaries EXCEPT ![recovery.config.version] = "gone"]
  /\ recovery' = Idle
  /\ UNCHANGED <<plan, intake, roots, marker, natives, batches, opsReceipt, recovered,
                 native, batch, lock, accepted, stage, changes>>

Next ==
  \/ AdoptAcceptedRaw \/ Change
  \/ \E o \in 1..2 : StartNative(o)
  \/ NativeWorks \/ NativeEnds \/ NativeDies
  \/ StartBatch \/ BatchLocks \/ BatchWorks \/ BatchMarks \/ BatchReceipts \/ BatchFails
  \/ CopyStage \/ Audit \/ Attest
  \/ Preflight \/ Approve \/ RunRecovery \/ Admit \/ Recover \/ MarkRecovered \/ WriteReceipt
  \/ RecoveryEnds \/ GiveUp

Spec == Init /\ [][Next]_vars

-----------------------------------------------------------------------------
\* A company that a recovery made READY has its marker from that recovery, and
\* every other output root a batch build or a recovery has ever left for it is
\* one its receipt names: also one that left no record, was begun while the
\* papers went round, or waited for the lock (_validate_collection_target).
EveryFailureIsDeclared ==
  recovered # NoReceipt =>
    /\ marker = recovered.root
    /\ roots \cap OfTools = {recovered.root} \cup (recovered.declared \cap OfTools)
    /\ \A i \in 1..recovered.attempts.natives : natives[i].root \in recovered.declared
=============================================================================
