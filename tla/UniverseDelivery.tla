--------------------------- MODULE UniverseDelivery ---------------------------
(***************************************************************************)
(* publish_universe_delivery of universe_delivery.py: the collection, the  *)
(* company master, the reviewed Q4, the two prepared analyses and the      *)
(* accuracy assessment are read one after the other, joined to one         *)
(* readiness report, and renamed into place.                               *)
(*                                                                         *)
(* Everything read belongs to others, who may replace it between the       *)
(* reads.  The reports' wording, their tables and lists are left out.      *)
(*                                                                         *)
(* The assessment is believed only as far as it can be tied to the         *)
(* governed source bindings, to the plans and to the Layer 1 snapshots of  *)
(* the collection.  A source of it is [filing, id, fact, transform, text,  *)
(* concept, context], and one of a supported lexical repair has a type, an *)
(* element, a sign and a scale besides; a digest is the version of what it *)
(* is taken of.                                                            *)
(***************************************************************************)
EXTENDS Integers, FiniteSets, FiniteSetsExt

CONSTANTS
  Companies,     \* the configured companies
  OnDisk,        \* what may be found on disk when the command is started
  Assessments(_),\* the assessments that may be made of a collection
  Changes(_),    \* what the files may be replaced by, given what they are
  MaxEdits       \* bound: replacements

VARIABLES
  given,         \* the collection, bindings and publications on disk
  assessment,    \* the assessment's file, or NoFile
  job,           \* the command: what it has read so far
  delivery,      \* the directory at the destination, or NoFile
  edits

vars == <<given, assessment, job, delivery, edits>>

None == "none"
Transforms == {"durday", "durmonth", "duryear", "durweek"}

-----------------------------------------------------------------------------
(* What the collection says                                                *)

\* The filings of the prepared plans.
Planned(held) == UNION {held.plans[c] : c \in DOMAIN held.plans}

\* The snapshots that the intakes name, for the companies that have an intake.
Snapshots(held) ==
  [f \in UNION {held.plans[c] : c \in held.ingested} |-> held.snapshots[f]]

\* The digests of the histories whose build markers name one.
Histories(held) == [c \in held.built |-> held.histories[c]]

FactOf(snapshot, fact) == {row \in snapshot.facts : row.fact = fact}

-----------------------------------------------------------------------------
(* _validate_accuracy_pass, part by part                                   *)

ChecksHold(a, held) ==
  LET planned == Planned(held)
      snapshots == Snapshots(held)
  IN /\ a.packages = [expected |-> held.selected, verified |-> held.selected, missing |-> 0]
     /\ Cardinality(a.checks) = held.selected
     /\ {check.filing : check \in a.checks} = planned /\ Cardinality(planned) = held.selected
     /\ DOMAIN snapshots = planned
     /\ \A check \in a.checks :
          LET snapshot == snapshots[check.filing]
          IN /\ check.mismatches = 0 /\ snapshot.parser = "v5"
             /\ check.package = snapshot.package /\ check.snapshot = snapshot.version

GatesHold(a, held) ==
  /\ Cardinality(DOMAIN Histories(held)) = held.requested /\ a.histories = Histories(held)
  /\ a.gates
  /\ DOMAIN a.examined = Transforms
  /\ MapThenSumSet(LAMBDA check : check.count, a.checks)
       = MapThenSumSet(LAMBDA t : a.examined[t], Transforms)

\* The values it names are as expected, the known regression is among them,
\* nothing else changed, and somebody independent verified the same commit.
ReplayHolds(a) == a.regression /\ a.foreign = 0 /\ a.verified = a.commit

\* _validate_source_binding_reference
BindingReferenced(a, held) ==
  /\ a.binding = held.bound.id
  /\ held.bound.collection = a.scope.collection
  /\ held.bound.filings = held.selected

\* _validate_accuracy_source_index
IndexHolds(a, held) ==
  /\ DOMAIN a.index.primary = Planned(held)
  /\ \A source \in a.index.facts :
       /\ source.filing \in Planned(held) /\ source.transform \in Transforms
       /\ \A other \in a.index.facts :
            other.filing = source.filing /\ other.id = source.id => other = source
  /\ \A t \in Transforms :
       a.examined[t] = Cardinality({source \in a.index.facts : source.transform = t})
  /\ \A check \in a.checks : check.primary = a.index.primary[check.filing]

\* _validate_trusted_duration_bindings
DurationsBound(index, bound) ==
  /\ \A b, c \in bound.durations : b.filing = c.filing /\ b.id = c.id => b = c
  /\ {<<s.filing, s.id>> : s \in index.facts} = {<<b.filing, b.id>> : b \in bound.durations}
  /\ index.facts \subseteq bound.durations
  /\ \A source \in index.facts : index.primary[source.filing] = bound.primary[source.filing]

\* _validate_fact_level_evidence
RecordsHold(a, held) ==
  /\ \A record \in a.records :
       /\ record.expected = record.actual
       /\ record.source \in a.index.facts
       /\ \A other \in a.records \ {record} :
            /\ other.source # record.source
            /\ <<other.source.filing, other.source.fact>> # <<record.source.filing, record.source.fact>>
       /\ LET rows == FactOf(Snapshots(held)[record.source.filing], record.source.fact)
          IN /\ Cardinality(rows) = 1
             /\ \A row \in rows :
                  /\ row.context = record.source.context /\ row.concept = record.source.concept
                  /\ row.value = record.actual /\ row.text = record.actual
                  /\ row.numeric = None /\ ~row.nil
  /\ {record.source : record \in a.records} = a.index.facts
  /\ \A check \in a.checks :
       check.count = Cardinality({record \in a.records : record.source.filing = check.filing})

-----------------------------------------------------------------------------
(* The supported lexical repairs                                           *)

Zero(sign) == IF sign = "-" THEN "-0" ELSE "0"

Plain(family, transform, text, type, value, class) ==
  [family |-> family, transform |-> transform, text |-> text, type |-> type,
   element |-> "nonNumeric", sign |-> None, scale |-> None, value |-> value, class |-> class]

\* The rule, the concept and the context of a record are its source's.
Supported(policy) ==
  \/ policy \in
       {Plain("exchange", "exchnameen", "Nasdaq", "exchange code", "NASDAQ", "metadata"),
        Plain("state", "stateprovnameen", "Idaho", "state", "ID", "metadata"),
        Plain("words", "durwordsen", "three-year", "duration", "P3Y", "duration"),
        Plain("words", "durwordsen", "five-year", "duration", "P5Y", "duration")}
  \/ \E type \in {"monetary", "shares"}, sign \in {None, "-"}, scale \in {None, "3"} :
       policy = [family |-> "nil zero", transform |-> "numwordsen", text |-> "nil", type |-> type,
                 element |-> "nonFraction", sign |-> sign, scale |-> scale, value |-> Zero(sign),
                 class |-> type]

Policy(record) ==
  [family |-> record.family, transform |-> record.source.transform,
   text |-> record.source.text, type |-> record.source.type,
   element |-> record.source.element, sign |-> record.source.sign,
   scale |-> record.source.scale, value |-> record.actual, class |-> record.class]

\* A reported zero is stored as a number with its sign; any other value as text.
Stored(row, record) ==
  IF record.class \in {"monetary", "shares"}
  THEN record.actual \in {"0", "-0"} /\ row.numeric = record.actual /\ row.text = None
  ELSE row.text = record.actual /\ row.numeric = None

\* The correction sources are the governed ones, field by field.
CorrectionsBound(index, bound) == index = bound.corrections

\* _validate_approved_transform_corrections
CorrectionsHold(a, held) ==
  /\ \A source \in a.corrections.index : source.filing \in Planned(held)
  /\ CorrectionsBound(a.corrections.index, held.bound)
  /\ \A record \in a.corrections.records :
       /\ record.source \in a.corrections.index
       /\ record.expected = record.actual
       /\ Supported(Policy(record))
       /\ \A other \in a.corrections.records \ {record} : other.source # record.source
       /\ LET rows == FactOf(Snapshots(held)[record.source.filing], record.source.fact)
          IN /\ Cardinality(rows) = 1
             /\ \A row \in rows :
                  /\ row.context = record.source.context /\ row.concept = record.source.concept
                  /\ row.value = record.actual /\ ~row.nil /\ Stored(row, record)
  /\ {record.source : record \in a.corrections.records} = a.corrections.index

-----------------------------------------------------------------------------
\* Every evidence file is as the assessment declares it.
EvidenceCurrent(a, held) == a.pins = held.evidence

\* What is declared as evidence is read, and all of it agrees.
PassHolds(a, held) ==
  /\ ChecksHold(a, held) /\ GatesHold(a, held) /\ BindingReferenced(a, held)
  /\ IndexHolds(a, held) /\ DurationsBound(a.index, held.bound)
  /\ RecordsHold(a, held) /\ CorrectionsHold(a, held) /\ ReplayHolds(a)

\* _attest_accuracy: an assessment that is not a PASS is taken as it is, with
\* its reason; a PASS only when all of it can be tied to the collection.
Attested(a, held) ==
  /\ a.scope = [collection |-> held.collection, requested |-> held.requested,
                selected |-> held.selected]
  /\ EvidenceCurrent(a, held)
  /\ a.state = "PASS" => PassHolds(a, held)

-----------------------------------------------------------------------------
(* The command                                                             *)

NoFile == [state |-> "absent"]
Idle == [step |-> "idle"]

\* A file lists what is bound, and a table the facts of a snapshot.
Listed(g) ==
  /\ IsFiniteSet(g.bound.durations) /\ IsFiniteSet(g.bound.corrections)
  /\ \A f \in Planned(g) : IsFiniteSet(g.snapshots[f].facts)

Init ==
  /\ given \in OnDisk
  /\ assessment = NoFile
  /\ job = Idle
  /\ delivery = NoFile
  /\ edits = 0

-----------------------------------------------------------------------------
(* The parts of the join                                                   *)

Present(publication) == publication.state # "absent"

\* SourceBindingsReader.verify_all: every filing of the collection is bound, to
\* its snapshot as it is.
BindingsVerify(g) ==
  /\ DOMAIN g.bound.of = Planned(g)
  /\ \A f \in DOMAIN g.bound.of : g.bound.of[f] = g.snapshots[f].version

ScopeHolds(g) == DOMAIN g.collected = Companies /\ g.requested = Cardinality(Companies)

\* The plans are the ones the collection manifest names.
SourcesHold(g) == \A c \in DOMAIN g.plans : g.planDigests[c] = g.plans[c]

\* Every configured company is in the company master, under its ticker.
MasterHolds(g) == Companies \subseteq g.master

\* _validate_q4_scope
ReviewedHolds(q4) == Present(q4) => q4.companies \subseteq Companies

\* Every dataset has the bytes and the rows its analysis declares.
Whole(analysis) == analysis.intact

\* Prepared of the history that is at its place, and whole.
AnalysisHolds(g, analysis) ==
  Present(analysis) =>
    /\ Whole(analysis)
    /\ analysis.digest = g.digests[analysis.history]
    /\ analysis.companies # {} /\ analysis.companies \subseteq Companies

\* Mutant: the annual analysis is its own affair.
QuarterlyLinked(q4, quarterly, annual) ==
  Present(quarterly) =>
    /\ Present(q4) /\ quarterly.reviewed = q4.id
    /\ q4.companies \subseteq quarterly.companies
    /\ quarterly.dates = q4.dates /\ quarterly.history = q4.history

\* _validate_c_analysis_links
Linked(q4, quarterly, annual) ==
  /\ Present(quarterly) => Present(q4) /\ quarterly.reviewed = q4.id
  /\ Present(annual) => annual.reviewed = None
  /\ \A analysis \in {quarterly, annual} : Present(analysis) /\ Present(q4) =>
       /\ q4.companies \subseteq analysis.companies
       /\ analysis.dates = q4.dates /\ analysis.history = q4.history

-----------------------------------------------------------------------------
(* _readiness_model                                                        *)

RawDone == {"RAW_COMPLETE", "READY"}
Failures == {"RAW_FAILED", "BUILD_FAILED"}
Scope(publication) == IF Present(publication) THEN publication.companies ELSE {}

CompanyState(read, c) ==
  LET reviewed == c \in Scope(read.q4)
      prepared == c \in Scope(read.quarterly) /\ c \in Scope(read.annual)
  IN CASE read.collected[c] \notin RawDone ->
            IF read.collected[c] \in Failures THEN "RAW_FAILED" ELSE "RAW_PENDING"
       [] read.collected[c] \in RawDone /\ c \notin read.classified -> "INDUSTRY_NOT_CLASSIFIED"
       [] read.collected[c] \in RawDone /\ c \in read.classified /\ reviewed ->
            IF prepared THEN "ANALYSIS_PREPARED" ELSE "ANALYSIS_PENDING"
       [] OTHER -> "RAW_METADATA_READY"

\* The reviewed Q4 has the expected cells, in both views, all of them derived.
ReviewedReady(q4) == Present(q4) /\ q4.complete

Overall(read) ==
  IF \E c \in Companies : CompanyState(read, c) = "RAW_FAILED" THEN "FAILED"
  ELSE IF read.accuracy = "BLOCKED" THEN "BLOCKED"
  ELSE IF /\ \A c \in Companies : read.collected[c] = "READY" /\ c \in read.classified
          /\ ReviewedReady(read.q4) /\ Present(read.quarterly) /\ Present(read.annual)
          /\ read.accuracy \in {"PASS", "NOT_PROVIDED"}
       THEN "READY" ELSE "PARTIAL"

\* The delivered model: what was read, its state as a whole and each company's.
Delivered(read) ==
  [state |-> "published", read |-> read, overall |-> Overall(read),
   rows |-> [c \in Companies |-> CompanyState(read, c)]]

-----------------------------------------------------------------------------
(* The command                                                             *)

\* The collection, the bindings and the assessment of it.
Start ==
  /\ job = Idle /\ ~Present(delivery)
  /\ ScopeHolds(given) /\ SourcesHold(given)
  /\ Present(assessment) =>
       Attested(assessment, given) /\ (assessment.state = "PASS" => BindingsVerify(given))
  /\ job' = [step |-> "attested", collected |-> given.collected, assessment |-> assessment,
             of |-> given,
             accuracy |-> IF Present(assessment) THEN assessment.state ELSE "NOT_PROVIDED"]
  /\ UNCHANGED <<given, assessment, delivery, edits>>

Join ==
  /\ job.step = "attested"
  /\ IF /\ MasterHolds(given) /\ ReviewedHolds(given.q4)
        /\ AnalysisHolds(given, given.quarterly) /\ AnalysisHolds(given, given.annual)
        /\ Linked(given.q4, given.quarterly, given.annual)
     THEN job' = [k \in DOMAIN job \cup {"classified", "q4", "quarterly", "annual"} |->
                    CASE k = "step" -> "joined"
                      [] k \in {"classified", "q4", "quarterly", "annual"} -> given[k]
                      [] OTHER -> job[k]]
     ELSE job' = Idle
  /\ UNCHANGED <<given, assessment, delivery, edits>>

\* _publish: staged, opened by the reader, renamed, and opened again.
Publish ==
  /\ job.step = "joined"
  /\ delivery' = Delivered(job)
  /\ job' = Idle
  /\ UNCHANGED <<given, assessment, edits>>

-----------------------------------------------------------------------------
(* Everybody else                                                          *)

Assess ==
  /\ assessment = NoFile /\ job = Idle /\ ~Present(delivery)
  /\ \E a \in Assessments(given) : assessment' = a
  /\ UNCHANGED <<given, job, delivery, edits>>

Replace ==
  /\ edits < MaxEdits /\ ~Present(delivery)
  /\ \E g \in Changes(given) : Listed(g) /\ given' = g
  /\ edits' = edits + 1
  /\ UNCHANGED <<assessment, job, delivery>>

Next == Start \/ Join \/ Publish \/ Assess \/ Replace

Spec == Init /\ [][Next]_vars

-----------------------------------------------------------------------------
\* The text of a source and the value it is repaired to.
IsNormalOf(source, value) ==
  <<source.text, value>> \in
    {<<"Nasdaq", "NASDAQ">>, <<"Idaho", "ID">>, <<"three-year", "P3Y">>, <<"five-year", "P5Y">>,
     <<"nil", IF source.sign = "-" THEN "-0" ELSE "0">>}

ExactlyBound(a, held) ==
  LET bound == held.bound
      Said(records, source) == {record.actual : record \in {r \in records : r.source = source}}
      Found(source) == {row.value : row \in FactOf(held.snapshots[source.filing], source.fact)}
  IN /\ Cardinality(a.records) = Cardinality(bound.durations)
     /\ Cardinality(a.corrections.records) = Cardinality(bound.corrections)
     /\ \A b \in bound.durations :
          Said(a.records, b) = Found(b) /\ Cardinality(Found(b)) = 1
     /\ \A b \in bound.corrections :
          \E value \in Found(b) :
            IsNormalOf(b, value) /\ Said(a.corrections.records, b) = {value} /\ Found(b) = {value}
     /\ \A f \in Planned(held) :
          /\ held.snapshots[f].parser = "v5" /\ bound.of[f] = held.snapshots[f].version
          /\ \E check \in a.checks :
               /\ check.filing = f /\ check.snapshot = held.snapshots[f].version
               /\ check.count = Cardinality({b \in bound.durations : b.filing = f})

\* What an accepted PASS says is so: of the collection it was read against,
\* every governed duration and every governed repair has exactly one record,
\* with the value that the only fact of its filing's v5 snapshot has, and there
\* is no other record (_attest_accuracy).
AcceptedAccuracyIsExact ==
  \A read \in {job} \cup (IF Present(delivery) THEN {delivery.read} ELSE {}) :
    read # Idle /\ read.accuracy = "PASS" => ExactlyBound(read.assessment, read.of)

\* A delivery that calls itself READY has no company that is not, and for the
\* companies of the reviewed Q4 both analyses were prepared of the Q4's own
\* history at its own as-of, the quarterly one with this very Q4 and the annual
\* one without (_validate_c_analysis_links, _readiness_model).
ReadyIsJoined ==
  Present(delivery) /\ delivery.overall = "READY" =>
    LET read == delivery.read
    IN /\ \A c \in Companies :
            delivery.rows[c] = IF c \in read.q4.companies THEN "ANALYSIS_PREPARED"
                               ELSE "RAW_METADATA_READY"
       /\ \A analysis \in {read.quarterly, read.annual} :
            analysis.history = read.q4.history /\ analysis.dates = read.q4.dates
       /\ read.quarterly.reviewed = read.q4.id /\ read.annual.reviewed = None
===============================================================================
