-------------------------- MODULE MetricPublication --------------------------
(***************************************************************************)
(* One company's quarterly metrics, from what its filings report to what a *)
(* screen answers: the prepared cells the history holds (analytics/        *)
(* history_quarters.py), the publication (metrics/quarterly_screening.py), *)
(* the consumer's reader that opens it (screening/quarterly.py), and the   *)
(* views of the newest quarter (screening/service.py, explorer.py).        *)
(*                                                                         *)
(* Filings are the environment: before a publication they may differ from  *)
(* the regular ones in up to MaxEdits places.                              *)
(***************************************************************************)
EXTENDS QuarterMetrics

CONSTANTS Regular,     \* the facts of a company whose every quarter is in order
          Edits(_),    \* what can be different in a set of facts
          MaxEdits,
          Conditions   \* sets of [metric, above] predicates

VARIABLES facts,       \* what the filings report
          edits,
          published,   \* the publication at the destination: rows and inventory
          opened,      \* what the reader makes of it
          answer       \* the last screen's answer
vars == <<facts, edits, published, opened, answer>>

Nothing == [catalog |-> None, rows |-> {}, inventory |-> <<>>]
Unasked == [aggregate |-> None, seen |-> {}]

-----------------------------------------------------------------------------
(* What the consumer's reader demands of published rows                    *)
(* It shares no rule with the producer: it never computes a value, and     *)
(* checks instead the periods, filings, dates and scopes every available   *)
(* row declares of its inputs.                                             *)

\* Reported sources, looked at one by one.
TypedSource(source) == source.typed

SourceOk(source, metric) ==
  /\ source.metric = metric
  /\ source.filed <= Cutoff
  /\ source.report <= source.filed
  /\ source.end - 1 <= source.filed
  /\ TypedSource(source) \/ (metric = "debt" /\ DirectDebt(source))

Eligible(sources) == \A source \in sources : source.sound

SourcesOf(row) == Range(row.inputs)

ReportedOk(row) ==
  LET source == row.inputs[1]
  IN /\ Len(row.inputs) = 1
     /\ SourceOk(source, row.metric)
     /\ Eligible({source})
     /\ <<source.start, source.end, source.filed, source.report, source.basis, source.value>>
          = <<row.start, row.end, row.filed, row.report, row.basis, row.value>>

DerivedQuarterOk(row) ==
  LET later == row.inputs[1]
      earlier == row.inputs[2]
      quarter == QuarterName[row.fq]
  IN /\ Len(row.inputs) = 2
     /\ \A source \in SourcesOf(row) : SourceOk(source, row.metric)
     /\ Eligible(SourcesOf(row))
     /\ later.basis = earlier.basis /\ row.basis = later.basis
     /\ quarter \in DOMAIN Subtracted
     /\ <<later.class, earlier.class>> = Subtracted[quarter]
     /\ later.start = earlier.start
     /\ row.start = earlier.end /\ row.end = later.end
     /\ QuarterLong(row.end - row.start)
     /\ row.filed = Latest({later, earlier}) /\ row.report = later.report

PreparedOk(row) ==
  IF row.kind = "REPORTED" THEN ReportedOk(row) ELSE DerivedQuarterOk(row)

-----------------------------------------------------------------------------
\* Rows computed of two rows

NonNegative(v) == v >= 0
Positive(v) == v > 0

\* The signs a contract promises of its two inputs.
Constrained(d, first, second) ==
  CASE d.kind = "SAME_PERIOD_NET_DEBT" -> NonNegative(first) /\ NonNegative(second)
    [] d.kind = "SAME_PERIOD_DIFFERENCE" -> NonNegative(second)
    [] Growth(d) -> NonNegative(first) /\ Positive(second)
    [] OTHER -> Positive(second)

\* Every reported fact at the end of the period, of a metric's metric too.
Endpoints(row) ==
  LET Of(r) == IF r.kind = "REPORTED" THEN {r.inputs[1]}
               ELSE {source \in SourcesOf(r) : source.end = r.end}
  IN IF row.kind = "DERIVED_METRIC" THEN UNION {Of(r) : r \in SourcesOf(row)} ELSE Of(row)

OneEndpoint(rows) ==
  LET sources == UNION {Endpoints(r) : r \in rows}
  IN sources # {} /\ \A a, b \in sources : a.filing = b.filing /\ a.end = b.end

Bound(row) ==
  LET leaves == {row} \cup IF row.kind = "DERIVED_METRIC" THEN SourcesOf(row) ELSE {}
  IN {r.concept : r \in leaves} \cup UNION {{s.concept : s \in SourcesOf(r)} : r \in leaves}

Predecessor(row) == IF row.fq > 1 THEN <<row.fy, row.fq - 1>> ELSE <<row.fy - 1, 4>>
Coordinate(row) == <<row.fy, row.fq>>

GrowthOk(d, current, prior) ==
  /\ current.metric = prior.metric
  /\ Bound(current) = Bound(prior)
  /\ IF d.kind = "ADJACENT_FISCAL_QUARTER_GROWTH"
     THEN Coordinate(prior) = Predecessor(current) /\ prior.end = current.start
     ELSE Coordinate(prior) = <<current.fy - 1, current.fq>> /\ prior.end <= current.start

GenericOk(d, row) ==
  LET current == row.inputs[1]
      second == row.inputs[2]
  IN /\ Len(row.inputs) = 2 /\ current # second
     /\ current.metric = d.first /\ second.metric = d.second
     /\ Ok(current) /\ Ok(second)
     /\ \A r \in SourcesOf(row) :
          /\ r.kind = "DERIVED_METRIC" => d.metric = "fcf_margin"
          /\ r.class = "QTD_3M" => QuarterLong(r.end - r.start)
          /\ r.basis = row.basis
     /\ Constrained(d, current.value, second.value)
     /\ SamePeriod(current, row)
     /\ IF Growth(d) THEN GrowthOk(d, current, second)
        ELSE SamePeriod(second, row) /\ OneEndpoint({current, second})
     /\ d.kind = "SAME_PERIOD_NET_DEBT" => DirectDebt(current.inputs[1])
     /\ row.filed = Latest({current, second}) /\ row.report = current.report

-----------------------------------------------------------------------------
\* Four-quarter sums and their margins

Consecutive(four) ==
  \A i \in 1 .. 3 : /\ four[i].end = four[i + 1].start
                    /\ Coordinate(four[i]) = Predecessor(four[i + 1])
                    /\ Bound(four[i]) = Bound(four[i + 1])

EndsWith(row, four) ==
  /\ row.start = four[1].start /\ row.end = four[4].end
  /\ Coordinate(row) = Coordinate(four[4]) /\ row.report = four[4].report

BasisOk(catalog, row) ==
  /\ row.basis # None \/ catalog = "ARITHMETIC"
  /\ \A r \in SourcesOf(row) : r.basis = row.basis

SumOk(catalog, m, row) ==
  /\ Len(row.inputs) = 4
  /\ \A r \in SourcesOf(row) :
       /\ Ok(r) /\ r.metric = m /\ r.class = "QTD_3M" /\ QuarterLong(r.end - r.start)
       /\ r.kind = "DERIVED_METRIC" => m = "fcf"
  /\ BasisOk(catalog, row) /\ Consecutive(row.inputs) /\ EndsWith(row, row.inputs)
  /\ row.filed = Latest(SourcesOf(row))

MarginOk(catalog, row) ==
  LET above == SubSeq(row.inputs, 1, 4)
      below == SubSeq(row.inputs, 5, 8)
  IN /\ Len(row.inputs) = 8
     /\ \A i \in 1 .. 4 : above[i].metric = "fcf" /\ below[i].metric = "revenue"
     /\ \A r \in SourcesOf(row) : Ok(r) /\ r.class = "QTD_3M" /\ QuarterLong(r.end - r.start)
     /\ BasisOk(catalog, row)
     /\ Consecutive(above) /\ Consecutive(below) /\ EndsWith(row, above)
     /\ \A i \in 1 .. 4 : /\ SamePeriod(above[i], below[i])
                          /\ OneEndpoint({above[i], below[i]})
     /\ row.filed = Latest(SourcesOf(row))

-----------------------------------------------------------------------------
Computed(d, row) == row.metric = d.metric => GenericOk(d, row)

\* An input is verified like a row of its own.
Inputs(row) == IF row.kind = "DERIVED_METRIC" THEN SourcesOf(row) ELSE {}
Closure(rows) ==
  LET once == rows \cup UNION {Inputs(r) : r \in rows}
      twice == once \cup UNION {Inputs(r) : r \in once}
  IN twice \cup UNION {Inputs(r) : r \in twice}

RowOk(catalog, row) ==
  /\ row.filed <= Cutoff
  /\ row.bucket = Bucket(row.end)
  /\ CASE row.metric \in Durations \cup Instants -> PreparedOk(row)
       [] row.metric = "ttm_fcf_margin" -> MarginOk(catalog, row)
       [] row.metric \in {TtmOf[m] : m \in TtmInputs} ->
            \E m \in TtmInputs : TtmOf[m] = row.metric /\ SumOk(catalog, m, row)
       [] OTHER -> \A d \in Generics \cup Margins : Computed(d, row)

\* The range a source of each class must keep, wider than the classes upstream.
Governed == [QTD_3M |-> 75 .. 105, YTD_6M |-> 150 .. 210, YTD_9M |-> 225 .. 315, FY |-> 350 .. 378]

\* Each filing is described one way throughout, each fact has one content, no
\* bucket without a filing has a source, and every metric has its buckets.
Facts(rows) ==
  UNION {SourcesOf(r) : r \in {r \in Closure(rows) : r.metric \in Durations \cup Instants}}

OneContent(rows) ==
  \A a, b \in Facts(rows) :
    a.fact = b.fact => a.value = b.value /\ a.start = b.start /\ a.end = b.end

Coherent(inventory, rows) ==
  LET reported == Facts(rows) IN
  /\ \A a, b \in reported : a.filing = b.filing => a.filed = b.filed /\ a.report = b.report
  /\ \A a \in reported : a.class \in DOMAIN Governed => a.end - a.start \in Governed[a.class]
  /\ \A r \in rows : r.bucket \in Spine /\ (inventory[r.bucket].status = "NO_FILING_AS_OF_CUTOFF"
                                             => r.inputs = <<>>)
  /\ \A m \in {r.metric : r \in rows}, b \in Spine :
       Cardinality({r \in rows : r.metric = m /\ r.bucket = b}) = 1

ReaderAccepts(publication) ==
  /\ \A r \in {r \in Closure(publication.rows) : Ok(r)} : RowOk(publication.catalog, r)
  /\ OneContent(publication.rows)
  /\ Coherent(publication.inventory, publication.rows)

-----------------------------------------------------------------------------
\* The prepared cells

Column(f) == <<f.metric, f.fy, f.fq, f.class>>

\* A column whose facts disagree on the actual period has no cell.
Selected(all) == {f \in all : \A g \in all : Column(g) = Column(f) => g.start = f.start /\ g.end = f.end}

Cell(f, kind, class, quarter, start, value, sources) ==
  [metric |-> f.metric, kind |-> kind, class |-> class, fy |-> f.fy, fq |-> quarter,
   start |-> start, end |-> f.end, value |-> value, basis |-> f.basis, concept |-> f.concept,
   filed |-> f.filed, report |-> f.report, sources |-> sources]

Reported(f) == Cell(f, "REPORTED", f.class, f.fq, f.start, f.value, <<f>>)

QuarterOf == [YTD_6M |-> 2, YTD_9M |-> 3, FY |-> 4]
PartnerOf == [YTD_6M |-> "QTD_3M", YTD_9M |-> "YTD_6M", FY |-> "YTD_9M"]

SameRow(f, g) == f.metric = g.metric /\ f.fy = g.fy /\ f.concept = g.concept

\* The amounts that may be subtracted, and the only one of each class.
Additive(all) == {f \in Selected(all) : f.sound /\ f.metric \in Durations}
Group(additive, f, class) ==
  {g \in additive : SameRow(f, g) /\ g.class = class /\ (class = "QTD_3M" => g.fq = 1)}

Derivable(later, earlier) ==
  /\ later.start = earlier.start /\ later.basis = earlier.basis
  /\ QuarterLong(later.end - earlier.end)

Derived(additive, later) ==
  LET partners == Group(additive, later, PartnerOf[later.class])
  IN {Cell(later, "DERIVED_QUARTER", "QTD_3M", QuarterOf[later.class], earlier.end,
           later.value - earlier.value, <<later, earlier>>) :
        earlier \in {g \in partners : /\ Group(additive, later, later.class) = {later}
                                      /\ partners = {g}
                                      /\ Derivable(later, g)}}

\* A reported cell is never displaced by a derived one of its column.
Cells(all) ==
  LET taken == {Column(f) : f \in all}
      additive == Additive(all)
      differences == UNION {Derived(additive, f) : f \in {f \in additive : f.class \in DOMAIN QuarterOf}}
  IN {Reported(f) : f \in Selected(all)}
     \cup {c \in differences : <<c.metric, c.fy, c.fq, "QTD_3M">> \notin taken}

-----------------------------------------------------------------------------
\* What a latest view shows

Inventory(cells) ==
  [b \in Spine |-> [bucket |-> b, status |-> BucketStatus(cells, b), periods |-> Periods(cells, b)]]

\* The newest bucket any filing has a period in, with the period if it is one.
Lasting(entry) == IF \A p \in entry.periods : p.instant THEN entry.periods
                  ELSE {p \in entry.periods : ~p.instant}
HasFiling(entry) == entry.status # "NO_FILING_AS_OF_CUTOFF"
Anchor(inventory) == inventory[Max({b \in Spine : HasFiling(inventory[b])})]
HasAnchor(inventory) == \E b \in Spine : HasFiling(inventory[b])

AtAnchor(row, anchor) ==
  \A p \in Lasting(anchor) :
    /\ row.bucket = anchor.bucket
    /\ row.end = p.end /\ row.fy = p.fy /\ row.fq = p.fq
    /\ row.class = "QTD_3M" => row.start = p.start

\* A value that cannot be used at the period is projected to a hold.
AtLatest(row, anchor) ==
  IF anchor.status = "PERIOD_AVAILABLE" /\ AtAnchor(row, anchor) THEN row
  ELSE [row EXCEPT !.kind = Unavailable, !.value = 0]

Shown(publication, m, b) == {r \in publication.rows : r.metric = m /\ r.bucket = b}

\* The explorer's row and the comparison's, the series' last entry, and the
\* observation a predicate is judged by.
Explored(publication, m) ==
  LET anchor == Anchor(publication.inventory)
  IN IF anchor.status # "PERIOD_AVAILABLE" THEN {}
     ELSE {AtLatest(r, anchor) : r \in Shown(publication, m, anchor.bucket)}

Series(publication, m) ==
  LET anchor == Anchor(publication.inventory)
      upTo == {r \in publication.rows : r.metric = m /\ r.bucket <= anchor.bucket}
      last == {r \in upTo : \A s \in upTo : s.bucket <= r.bucket}
  IN {IF r.bucket = anchor.bucket THEN AtLatest(r, anchor) ELSE r : r \in last}

Judged(publication, m) ==
  LET anchor == Anchor(publication.inventory)
  IN IF ~HasAnchor(publication.inventory) \/ anchor.status = "PERIOD_CONFLICT" THEN {}
     ELSE {AtLatest(r, anchor) : r \in Shown(publication, m, anchor.bucket)}

Result(publication, predicate) ==
  LET values == {r.value : r \in {r \in Judged(publication, predicate.metric) : Ok(r)}}
  IN IF values = {} THEN "UNDETERMINED"
     ELSE IF \A v \in values : v > predicate.above THEN "PASS" ELSE "FAIL"

\* One failure decides; a pass needs them all.
Aggregate(results) ==
  IF "FAIL" \in results THEN "FAIL" ELSE IF results = {"PASS"} THEN "PASS" ELSE "UNDETERMINED"

-----------------------------------------------------------------------------
Init ==
  /\ facts = Regular /\ edits = 0
  /\ published = Nothing /\ opened = None /\ answer = Unasked

Refile ==
  /\ published = Nothing /\ edits < MaxEdits
  /\ \E other \in Edits(facts) : facts' = other
  /\ edits' = edits + 1
  /\ UNCHANGED <<published, opened, answer>>

Publish ==
  /\ published = Nothing
  /\ \E catalog \in {"STRICT", "ARITHMETIC"} :
       LET cells == Cells(facts)
       IN published' = [catalog |-> catalog, rows |-> Build(cells, catalog),
                        inventory |-> Inventory(cells)]
  /\ UNCHANGED <<facts, edits, opened, answer>>

\* The consumer's reader opens the bundle; one it refuses stays where it is.
Open ==
  /\ published # Nothing /\ opened = None
  /\ opened' = IF ReaderAccepts(published) THEN "VERIFIED" ELSE "REFUSED"
  /\ UNCHANGED <<facts, edits, published, answer>>

Evaluate ==
  /\ opened = "VERIFIED"
  /\ \E condition \in Conditions :
       answer' = [aggregate |-> Aggregate({Result(published, p) : p \in condition}),
                  seen |-> UNION {Judged(published, p.metric) : p \in condition}]
  /\ UNCHANGED <<facts, edits, published, opened>>

Next == Refile \/ Publish \/ Open \/ Evaluate

Spec == Init /\ [][Next]_vars

-----------------------------------------------------------------------------
\* The producer and the reader were written apart and share no rule: whatever
\* the filings report, the consumer's reader verifies what the producer has
\* published and checked only for its files (quarterly_screening.py:519).
ReaderAcceptsProducer == opened # "REFUSED"

\* The reported facts a money row comes down to, each with its sign.
Parts(row) ==
  CASE row.kind = "REPORTED" -> {<<1, row.inputs[1]>>}
    [] row.kind = "DERIVED_QUARTER" -> {<<1, row.inputs[1]>>, <<-1, row.inputs[2]>>}
    [] OTHER -> {}
FcfParts(row) ==
  Parts(row.inputs[1]) \cup {<<-p[1], p[2]>> : p \in Parts(row.inputs[2])}
Leaves(row) ==
  CASE row.metric = "fcf" -> FcfParts(row)
    [] row.metric = "ttm_revenue" -> UNION {Parts(r) : r \in Range(row.inputs)}
    [] row.metric = "ttm_fcf" -> UNION {FcfParts(r) : r \in Range(row.inputs)}
    [] OTHER -> Parts(row)

\* A duration counts its first day in and its last day out; the leaves of one
\* metric cover a period exactly when what is left is the period's own.
SignedSum(parts, Of(_)) == FoldSet(LAMBDA p, total : total + p[1] * Of(p[2]), 0, parts)
Edge(start, end, day) == (IF start = day THEN 1 ELSE 0) - (IF end = day THEN 1 ELSE 0)
Tile(row, sign, parts) ==
  \A day \in UNION {{p[2].start, p[2].end} : p \in parts} \cup {row.start, row.end} :
    LET EdgeOf(source) == Edge(source.start, source.end, day)
    IN SignedSum(parts, EdgeOf) = sign * Edge(row.start, row.end, day)

\* An amount is the sum of reported facts that cover its period once, day by
\* day: no quarter of a four-quarter sum is counted twice, left out, or taken
\* from overlapping cumulative amounts, whichever facts the filings lack.
SumsTileTheirPeriod ==
  \A row \in {r \in published.rows : Ok(r) /\ r.metric \in Durations \cup {"fcf", "ttm_revenue", "ttm_fcf"}} :
    LET leaves == Leaves(row)
        ValueOf(source) == source.value
    IN /\ row.value = SignedSum(leaves, ValueOf)
       /\ \A m \in {p[2].metric : p \in leaves} :
            Tile(row, IF m = "capex" /\ row.metric # m THEN -1 ELSE 1,
                 {p \in leaves : p[2].metric = m})

\* The explorer, the comparison, the series and a screen's predicate show the
\* same value as a company's latest, or all show none: four readings of the
\* inventory (explorer.py:96, service.py:362, 388, 457, 1133).
ValuesOf(rs) == {r.value : r \in {r \in rs : Ok(r)}}
LatestViewsAgree ==
  published # Nothing /\ HasAnchor(published.inventory) =>
    \A m \in {r.metric : r \in published.rows} :
      /\ ValuesOf(Explored(published, m)) = ValuesOf(Judged(published, m))
      /\ ValuesOf(Series(published, m)) = ValuesOf(Judged(published, m))

\* A company passes a condition of several metrics on values of one fiscal
\* quarter that ends on one day, and no filing has a newer quarter: a metric
\* that has only an older value keeps the company undetermined.
PassesOnOneNewestQuarter ==
  answer.aggregate = "PASS" =>
    /\ Cardinality({<<r.fy, r.fq, r.end>> : r \in answer.seen}) = 1
    /\ \A r \in answer.seen, c \in Direct(Cells(facts)) : c.bucket \in Spine => c.bucket <= r.bucket
=============================================================================
