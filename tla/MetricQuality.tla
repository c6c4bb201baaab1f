---------------------------- MODULE MetricQuality ----------------------------
(***************************************************************************)
(* The governed bindings between cached Inline XBRL and Layer 1 tables     *)
(* (source_bindings.py): every source of a few SEC transforms in the       *)
(* primary document of a planned filing is bound to the Raw Fact that was  *)
(* made of it.  A candidate index claims the sources, publishers read the  *)
(* packages, the tables and the index one after another while files are    *)
(* fetched and ingested again, and a reader verifies what they published.  *)
(*                                                                         *)
(* On top of them the generic metric quality of metric_quality.py: one     *)
(* narrow PASS over a v2 binding publication and the accepted histories of *)
(* its companies, each pinned by an operator's config.  Consumers replay   *)
(* the whole proof except the scan of the documents.  The config names no  *)
(* history selection, storage reuse or prospective selection.              *)
(*                                                                         *)
(* A digest is the content it is taken of.  A package is its primary       *)
(* document and the rest of its bytes; a primary document is the set of    *)
(* its transformed elements.                                               *)
(***************************************************************************)
EXTENDS Naturals, SequencesExt

CONSTANTS
  Companies,
  Order,          \* the filings, in the order every command takes them
  Planned,        \* the filings of each company's plan, fixed for a run
  FirstPackage,   \* what the cache holds of each filing at first
  Packages,       \* what a package of a filing can be: [primary, rest]
  Readings,       \* what Layer 1 can make of a package: [parser, order, wrong, lost]
  Budgets,        \* bound: the commands beside each other, by the number of files
                  \* fetched, ingested, edited or removed in a behavior
  Destinations,
  None

Jobs == UNION {b.jobs : b \in Budgets}
Filings == UNION {Planned[c] : c \in Companies}

ASSUME PlansAssumption ==
  /\ \A c, d \in Companies : c # d => Planned[c] \cap Planned[d] = {}
  /\ \A c \in Companies : Planned[c] # {}
  /\ ToSet(Order) = Filings /\ IsInjective(Order)

VARIABLES
  pkg,       \* the cached package of each filing
  raw,       \* the snapshot the intake names for it: a reading and the package read
  intake,    \* history_intake.json: complete, and a revision
  index,     \* the two candidate index files, or None
  bindings,  \* the publication at each destination, or None
  job,
  budget,
  edits

files == <<pkg, raw, intake, index>>

Idle == [op |-> "idle"]

-----------------------------------------------------------------------------
(* What the files say                                                      *)

Durations == {"durday", "durmonth", "duryear", "durweek"}
Repairs == {"exchnameen", "stateprovnameen", "durwordsen", "numwordsen"}

\* The elements that must be bound.  An element has an id, a transform and
\* its lexical text; only listed texts of a repaired transform count.
Governed(primary) ==
  {el \in primary : el.transform \in Durations \/ (el.transform \in Repairs /\ el.listed)}

\* The Raw Facts of a snapshot.  The stable id holds the row's ordinal, which
\* is the reading's, and a fact is right if its normalized value is.
Facts(s) ==
  {[id |-> <<el.id, s.order>>, el |-> el, right |-> el.id \notin s.wrong] :
     el \in {el \in s.of.primary : el.id \notin s.lost}}

Loads(cs) == \A c \in cs : intake[c].complete
Scope(cs) == UNION {Planned[c] : c \in cs}

Known == {"v5", "v6"}
Parsers == [v1 |-> {"v5"}, v2 |-> Known, index |-> Known]

Claim(f, el, fact) == [filing |-> f, el |-> el, fact |-> fact.id, primary |-> pkg[f].primary]
ClaimsOf(claims, f) == {q \in claims : q.filing = f}
Unique(claims) == \A q, r \in claims : q.filing = r.filing /\ q.el.id = r.el.id => q = r

\* The index fits the scope: its documents, and every claim in one of them.
Indexed(candidate, fs) ==
  /\ DOMAIN candidate.documents = fs
  /\ Unique(candidate.claims)
  /\ \A q \in candidate.claims : q.filing \in fs

\* A claim resolves to the Fact of its element, and a repair's also names
\* the primary document.
Resolves(claim, el, primary, facts) ==
  /\ claim.el = el
  /\ \E fact \in facts : fact.id = claim.fact /\ fact.el = el
  /\ el.transform \in Repairs => claim.primary = primary

Row(f, el, fact, package, primary) ==
  [filing |-> f, el |-> el, fact |-> fact.id, package |-> package, primary |-> primary,
   right |-> fact.right]

-----------------------------------------------------------------------------
(* A publication is verified                                               *)

DocumentsCurrent(pub, fs, parsers) ==
  /\ {d.filing : d \in pub.documents} = fs
  /\ \A d \in pub.documents :
       /\ d.package = pkg[d.filing] /\ d.primary = pkg[d.filing].primary
       /\ d.snapshot = raw[d.filing]
       /\ raw[d.filing].of = d.package /\ d.parser = raw[d.filing].parser /\ d.parser \in parsers

RowBound(pub, row) ==
  \E d \in pub.documents :
    /\ d.filing = row.filing /\ d.package = row.package /\ d.primary = row.primary
    /\ \E fact \in Facts(d.snapshot) :
         fact.id = row.fact /\ fact.el = row.el /\ fact.right = row.right

\* One row for a source, one for a fact.
OneEach(rows) ==
  \A r, s \in rows : r.filing = s.filing /\ (r.el.id = s.el.id \/ r.fact = s.fact) => r = s

VerifiesV1(pub) ==
  /\ index # None /\ index = pub.index
  /\ Loads(Companies)
  /\ DocumentsCurrent(pub, Filings, Parsers.v1)
  /\ OneEach(pub.rows) /\ \A row \in pub.rows : RowBound(pub, row)

Claimed(row, candidate) ==
  \E q \in candidate.claims :
    /\ q.filing = row.filing /\ q.el = row.el /\ q.fact = row.fact
    /\ row.el.transform \in Repairs => q.primary = row.primary

\* The rows are the claims of the index the publication names.
RowsAreClaims(pub, candidate) ==
  /\ \A row \in pub.rows : Claimed(row, candidate)
  /\ {<<r.filing, r.el.id>> : r \in pub.rows} = {<<q.filing, q.el.id>> : q \in candidate.claims}

VerifiesV2(pub) ==
  /\ index # None /\ index = pub.index
  /\ Loads(pub.scope)
  /\ Indexed(index, Scope(pub.scope))
  /\ DocumentsCurrent(pub, Scope(pub.scope), Parsers.v2)
  /\ \A d \in pub.documents : index.documents[d.filing] = d.primary
  /\ OneEach(pub.rows) /\ \A row \in pub.rows : RowBound(pub, row)
  /\ RowsAreClaims(pub, index)

Verifies(pub) == IF pub.version = "v1" THEN VerifiesV1(pub) ELSE VerifiesV2(pub)

Bound(pub) == {<<r.filing, r.el>> : r \in pub.rows}
Sources(fs) == UNION {{<<f, el>> : el \in Governed(pkg[f].primary)} : f \in fs}

\* The producer's own scan of the primary documents.
Complete(pub) ==
  /\ Loads(pub.scope)
  /\ {d.filing : d \in pub.documents} = Scope(pub.scope)
  /\ \A d \in pub.documents : d.package = pkg[d.filing] /\ d.primary = pkg[d.filing].primary
  /\ OneEach(pub.rows)
  /\ Bound(pub) = Sources(Scope(pub.scope))

-----------------------------------------------------------------------------
(* The commands                                                            *)

Refuse(j) ==
  /\ job' = [job EXCEPT ![j] = Idle]
  /\ UNCHANGED <<files, bindings, edits, budget>>

Work(op, cs, dest, claims) ==
  [op |-> op, step |-> "scan", scope |-> cs, dest |-> dest, index |-> claims,
   left |-> SelectSeq(Order, LAMBDA f : f \in Scope(cs)), head |-> None, documents |-> {}, rows |-> {}]

\* write_source_indexes_v2 and the two publishers, up to their first filing
Start(j, op, cs, dest) ==
  /\ j \in budget.jobs /\ job[j] = Idle /\ Loads(cs)
  /\ \/ op = "index" /\ index = None
     \/ /\ op \in {"v1", "v2"} /\ index # None /\ bindings[dest] = None
        /\ op = "v1" => cs = Companies
        /\ Indexed(index, Scope(cs))
  /\ job' = [job EXCEPT ![j] = Work(op, cs, dest, IF op = "index" THEN None ELSE index)]
  /\ UNCHANGED <<files, bindings, edits, budget>>

\* The package is hashed and its snapshot's manifest compared.
Hash(j) ==
  /\ job[j] # Idle /\ job[j].step = "scan" /\ job[j].head = None /\ job[j].left # <<>>
  /\ LET f == Head(job[j].left) IN
     IF raw[f].of = pkg[f] /\ raw[f].parser \in Parsers[job[j].op]
     THEN /\ job' = [job EXCEPT ![j].head = [filing |-> f, package |-> pkg[f], parser |-> raw[f].parser]]
          /\ UNCHANGED <<files, bindings, edits, budget>>
     ELSE Refuse(j)

\* Every governed source has a claim and every claim a source it resolves.
AllResolve(claims, primary, facts) ==
  /\ {q.el.id : q \in claims} = {el.id : el \in Governed(primary)}
  /\ \A el \in Governed(primary) :
       \E q \in claims : q.el.id = el.id /\ Resolves(q, el, primary, facts)

RowsOf(w, f, primary, facts) ==
  {Row(f, p[1], p[2], w.head.package, primary) :
     p \in {p \in Governed(primary) \X facts :
              /\ p[2].el = p[1]
              /\ w.op = "index" \/ p[1].id \in {q.el.id : q \in ClaimsOf(w.index.claims, f)}}}
Document(w, f, primary) ==
  [filing |-> f, package |-> w.head.package, primary |-> primary, snapshot |-> raw[f],
   parser |-> w.head.parser]

\* Then the primary document and the tables are read, and bound.
Bind(j) ==
  LET w == job[j]
      f == w.head.filing
      primary == pkg[f].primary
      facts == Facts(raw[f])
      bound == [w EXCEPT !.head = None, !.left = Tail(@),
                         !.documents = @ \cup {Document(w, f, primary)},
                         !.rows = @ \cup RowsOf(w, f, primary, facts)]
  IN /\ w # Idle /\ w.step = "scan" /\ w.head # None
     /\ IF IF w.op = "index"
           THEN \A el \in Governed(primary) : \E fact \in facts : fact.el = el
           ELSE /\ w.index.documents[f] = primary
                /\ AllResolve(ClaimsOf(w.index.claims, f), primary, facts)
        THEN job' = [job EXCEPT ![j] = bound] /\ UNCHANGED <<files, bindings, edits, budget>>
        ELSE Refuse(j)

Scanned(j, op) == job[j] # Idle /\ job[j].op = op /\ job[j].step = "scan" /\ job[j].left = <<>> /\ job[j].head = None

WriteIndex(j) ==
  /\ Scanned(j, "index")
  /\ index = None
  /\ index' = [documents |-> [f \in Scope(job[j].scope) |->
                                (CHOOSE d \in job[j].documents : d.filing = f).primary],
               claims |-> {[filing |-> r.filing, el |-> r.el, fact |-> r.fact, primary |-> r.primary] :
                             r \in job[j].rows}]
  /\ job' = [job EXCEPT ![j] = Idle]
  /\ UNCHANGED <<pkg, raw, intake, bindings, edits, budget>>

\* The manifest pins the index as it is now, whatever claims were loaded.
Publication(w) ==
  [version |-> w.op, scope |-> w.scope, documents |-> w.documents, rows |-> w.rows, index |-> index]

\* A directory is not renamed over one that is there.
RenameTo(j, pub) ==
  IF bindings[job[j].dest] = None
  THEN /\ bindings' = [bindings EXCEPT ![job[j].dest] = pub]
       /\ job' = [job EXCEPT ![j] = Idle]
       /\ UNCHANGED <<files, edits, budget>>
  ELSE Refuse(j)

PublishV1(j) ==
  /\ Scanned(j, "v1")
  /\ IF index = None THEN Refuse(j) ELSE RenameTo(j, Publication(job[j]))

\* The staged v2 publication passes its own reader and the producer's scan.
StageV2(j) ==
  /\ Scanned(j, "v2")
  /\ IF Verifies(Publication(job[j]))
     THEN /\ job' = [job EXCEPT ![j] = [op |-> "v2", step |-> "staged", dest |-> job[j].dest,
                                        pub |-> Publication(job[j])]]
          /\ UNCHANGED <<files, bindings, edits, budget>>
     ELSE Refuse(j)
ScanV2(j) ==
  /\ job[j] # Idle /\ job[j].step = "staged"
  /\ IF Complete(job[j].pub)
     THEN job' = [job EXCEPT ![j].step = "scanned"] /\ UNCHANGED <<files, bindings, edits, budget>>
     ELSE Refuse(j)
PublishV2(j) == job[j] # Idle /\ job[j].step = "scanned" /\ RenameTo(j, job[j].pub)

\* A command that dies leaves a staging directory nobody reads.
Die(j) == job[j] # Idle /\ Refuse(j)

-----------------------------------------------------------------------------
(* Everybody else                                                          *)

Edit == edits < budget.edits /\ edits' = edits + 1 /\ UNCHANGED budget

Refetch(f, package) ==
  /\ Edit /\ package # pkg[f]
  /\ pkg' = [pkg EXCEPT ![f] = package]
  /\ UNCHANGED <<raw, intake, index, bindings, job>>

Owner(f) == CHOOSE c \in Companies : f \in Planned[c]

Snapshot(package, reading) ==
  [of |-> package, parser |-> reading.parser, order |-> reading.order, wrong |-> reading.wrong,
   lost |-> reading.lost]

\* A collect names another run's snapshot of the filing.
Reingest(f, reading) ==
  /\ Edit /\ Snapshot(pkg[f], reading) # raw[f]
  /\ raw' = [raw EXCEPT ![f] = Snapshot(pkg[f], reading)]
  /\ intake' = [intake EXCEPT ![Owner(f)] = [complete |-> TRUE, revision |-> @.revision + 1]]
  /\ UNCHANGED <<pkg, index, bindings, job>>

\* A candidate index is anyone's: it may leave a claim out.
Omit(q) ==
  /\ Edit
  /\ index' = [index EXCEPT !.claims = @ \ {q}]
  /\ UNCHANGED <<pkg, raw, intake, bindings, job>>
Discard ==
  /\ Edit
  /\ index' = None
  /\ UNCHANGED <<pkg, raw, intake, bindings, job>>

Withdraw(dest) ==
  /\ Edit /\ bindings[dest] # None
  /\ bindings' = [bindings EXCEPT ![dest] = None]
  /\ UNCHANGED <<files, job>>

-----------------------------------------------------------------------------
BindingsInit ==
  /\ pkg = FirstPackage
  /\ raw \in [Filings -> {Snapshot(FirstPackage[f], r) : f \in Filings, r \in Readings}]
  /\ \A f \in Filings : raw[f].of = pkg[f] /\ raw[f].lost = {} /\ raw[f].wrong = {}
  /\ \A f \in Filings : raw[f].parser \in Known
  /\ intake = [c \in Companies |-> [complete |-> TRUE, revision |-> 0]]
  /\ index = None
  /\ bindings = [d \in Destinations |-> None]
  /\ job = [j \in Jobs |-> Idle]
  /\ budget \in Budgets /\ edits = 0

BindingsNext ==
  \/ \E j \in Jobs :
       \/ \E cs \in SUBSET Companies \ {{}} :
            \/ Start(j, "index", cs, None)
            \/ \E op \in {"v1", "v2"}, d \in Destinations : Start(j, op, cs, d)
       \/ Hash(j) \/ Bind(j) \/ WriteIndex(j) \/ PublishV1(j) \/ StageV2(j) \/ ScanV2(j) \/ PublishV2(j) \/ Die(j)
  \/ \E f \in Filings :
       \/ \E package \in Packages : Refetch(f, package)
       \/ \E reading \in Readings : Reingest(f, reading)
  \/ index # None /\ (Discard \/ \E q \in index.claims : Omit(q))
  \/ \E d \in Destinations : Withdraw(d)

-----------------------------------------------------------------------------
(* A publication that verifies binds every governed source of the primary  *)
(* documents it names, and nothing else, to a Fact that is in the tables:  *)
(* what the reader cannot see missing, because it parses no document, the  *)
(* producers have not left out, whatever was fetched, ingested or edited   *)
(* while they read.                                                        *)
VerifiedBindingsAreExact ==
  \A d \in Destinations :
    bindings[d] # None /\ Verifies(bindings[d]) =>
      /\ Bound(bindings[d]) = Sources(Scope(bindings[d].scope))
      /\ \A row \in bindings[d].rows : \E fact \in Facts(raw[row.filing]) : fact.id = row.fact /\ fact.el = row.el

-----------------------------------------------------------------------------
(* The metric quality publication                                         *)

VARIABLES
  history,   \* the accepted history of each company with its READY marker: the
             \* intake it was built of and the snapshots it read, or None
  config,    \* the config file: a scope, and per company the intake and history
  quality    \* the publication, or None

qualityVars == <<history, config, quality>>
vars == <<files, bindings, job, budget, edits, qualityVars>>

-----------------------------------------------------------------------------
(* What the sources say                                                    *)

\* read_universe_status: the marker pins the intake, and the history the
\* snapshots, as they are.
Snapshots(c) == [f \in Planned[c] |-> raw[f]]
IsReady(c) ==
  /\ intake[c].complete /\ history[c] # None
  /\ history[c].intake = intake[c] /\ history[c].of = Snapshots(c)

Provenance(c) == [intake |-> intake[c], history |-> history[c]]
Provided(cfg) == \A c \in cfg.scope : cfg.provenance[c].intake = intake[c]
Accepted(cfg) == \A c \in cfg.scope : cfg.provenance[c].history = history[c] /\ IsReady(c)

\* Mutant: the corrections are taken to be right.
ConformsInDurations(pub) == \A row \in pub.rows : row.el.transform \in Durations => row.right

\* Every source has the normalized value its transform and text stand for.
Conforms(pub) == \A row \in pub.rows : row.right

Report(pub) == [state |-> IF Conforms(pub) THEN "PASS" ELSE "FAIL", documents |-> pub.documents, rows |-> pub.rows]

-----------------------------------------------------------------------------
(* prepare_generic_metric_quality, after the index and the bindings        *)

\* _preflight_quality_inputs, and the same checks before the bindings
StartQuality(j, dest) ==
  /\ j \in budget.jobs /\ job[j] = Idle /\ config # None /\ quality = None
  /\ Provided(config) /\ Accepted(config)
  /\ bindings[dest] # None /\ bindings[dest].version = "v2"
  /\ job' = [job EXCEPT ![j] = [op |-> "quality", step |-> "opened", config |-> config,
                                dest |-> dest, pub |-> bindings[dest]]]
  /\ UNCHANGED <<files, bindings, edits, budget, qualityVars>>

Stop(j) == Refuse(j) /\ UNCHANGED qualityVars
Continue(j, step) ==
  /\ job' = [job EXCEPT ![j].step = step]
  /\ UNCHANGED <<files, bindings, edits, budget, qualityVars>>

VerifyBindings(j) ==
  /\ job[j] # Idle /\ job[j].step = "opened"
  /\ IF VerifiesV2(job[j].pub) THEN Continue(j, "verified") ELSE Stop(j)

\* The scan of the documents, the scope, and the conformance report
AssessBindings(j) ==
  /\ job[j] # Idle /\ job[j].step = "verified"
  /\ IF /\ Complete(job[j].pub)
        /\ job[j].pub.scope = job[j].config.scope
        /\ Conforms(job[j].pub)
     THEN Continue(j, "assessed")
     ELSE Stop(j)

\* The pins that are taken while the manifest is written, of files checked
\* before: the config, the bindings' own files, the index they name.
PublishQuality(j) ==
  /\ job[j] # Idle /\ job[j].step = "assessed"
  /\ IF quality = None /\ config # None /\ bindings[job[j].dest] # None
     THEN /\ quality' = [scope |-> job[j].config.scope, provenance |-> job[j].config.provenance,
                         pinned |-> config, binding |-> job[j].pub.rows, dest |-> job[j].dest,
                         files |-> bindings[job[j].dest], index |-> job[j].pub.index,
                         report |-> Report(job[j].pub)]
          /\ job' = [job EXCEPT ![j] = Idle]
          /\ UNCHANGED <<files, bindings, edits, budget, history, config>>
     ELSE Stop(j)

-----------------------------------------------------------------------------
(* GenericMetricQualityReader.verify_sources, as the identity calls it     *)

\* _verify_evidence_files: every named file has the bytes it had.
EvidenceCurrent(q) ==
  /\ config = q.pinned /\ index = q.index
  /\ bindings[q.dest] = q.files
  /\ \A c \in q.scope : history[c] = q.provenance[c].history

\* The constructor's checks of the proof itself: every company of the scope was
\* READY when it was made, with the history of the intake that is pinned,
ScopeIsProven(q) ==
  /\ DOMAIN q.provenance = q.scope
  /\ \A c \in q.scope : /\ q.provenance[c].history # None
                        /\ q.provenance[c].history.intake = q.provenance[c].intake
\* every filing is one of theirs, once, read by a known parser,
FilingsAreProven(q) ==
  /\ q.report.documents # {}
  /\ \A d \in q.report.documents : d.filing \in Scope(q.scope) /\ d.parser \in Known
  /\ \A d, e \in q.report.documents : d.filing = e.filing => d = e
\* and the report of exactly these filings says PASS.
ReportIsPass(q) ==
  /\ q.report.state = "PASS"
  /\ \A row \in q.report.rows : \E d \in q.report.documents : d.filing = row.filing

QualityVerifies(q) ==
  /\ ScopeIsProven(q) /\ FilingsAreProven(q) /\ ReportIsPass(q)
  /\ EvidenceCurrent(q)
  /\ config.scope = q.scope /\ config.provenance = q.provenance
  /\ Provided(config) /\ Accepted(config)
  /\ bindings[q.dest].rows = q.binding /\ bindings[q.dest].scope = q.scope
  /\ VerifiesV2(bindings[q.dest])
  /\ Report(bindings[q.dest]) = q.report

-----------------------------------------------------------------------------
(* Everybody else                                                          *)

\* build_universe publishes the history of a complete company once.
BuildHistory(c) ==
  /\ history[c] = None /\ intake[c].complete
  /\ history' = [history EXCEPT ![c] = [intake |-> intake[c], of |-> Snapshots(c)]]
  /\ UNCHANGED <<files, bindings, job, edits, budget, config, quality>>

\* An operator writes down a scope and the digests that are on the disk.
WriteConfig(cs) ==
  /\ \A c \in cs : history[c] # None
  /\ config # None => Edit
  /\ config = None => UNCHANGED <<edits, budget>>
  /\ config' = [scope |-> cs, provenance |-> [c \in cs |-> Provenance(c)]]
  /\ UNCHANGED <<files, bindings, job, history, quality>>

Init ==
  /\ BindingsInit
  /\ history = [c \in Companies |-> None]
  /\ config = None
  /\ quality = None

Next ==
  \/ BindingsNext /\ UNCHANGED qualityVars
  \/ \E j \in Jobs :
       \/ \E d \in Destinations : StartQuality(j, d)
       \/ VerifyBindings(j) \/ AssessBindings(j) \/ PublishQuality(j)
  \/ \E c \in Companies : BuildHistory(c)
  \/ \E cs \in SUBSET Companies \ {{}} : WriteConfig(cs)

Spec == Init /\ [][Next]_vars

-----------------------------------------------------------------------------
(* A quality publication that verifies is what it claims, of the files as  *)
(* they are: for every planned filing of its companies, every governed     *)
(* source of the cached document has one Raw Fact, rightly normalized, in  *)
(* the very snapshot the company's accepted history was built of.          *)
AcceptedQualityIsComplete ==
  quality # None /\ QualityVerifies(quality) =>
    \A c \in quality.scope : \A f \in Planned[c] :
      /\ history[c].of[f] = raw[f] /\ raw[f].of = pkg[f]
      /\ \A el \in Governed(pkg[f].primary) :
           \E fact \in Facts(raw[f]) : fact.el = el /\ fact.right

\* Bindings that verify bind every governed source, and a quality publication
\* that verifies is what it claims of the histories' own snapshots.
QualityIsProven == VerifiedBindingsAreExact /\ AcceptedQualityIsComplete
===============================================================================
