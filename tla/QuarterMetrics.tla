--------------------------- MODULE QuarterMetrics ---------------------------
(***************************************************************************)
(* The quarterly metrics one company is published with                     *)
(* (metrics/quarterly_screening.py): the prepared cell that is available,  *)
(* the one a calendar quarter shows, and the ratios, differences, growth   *)
(* rates, four-quarter sums and margins computed from them.  No state:     *)
(* MetricPublication publishes what Build returns.                         *)
(*                                                                         *)
(* A raw source is a fact of one filing, a cell the prepared value with    *)
(* its one source (REPORTED) or the two it is the difference of            *)
(* (DERIVED_QUARTER).  Days are counted from day 0; ends are exclusive.    *)
(***************************************************************************)
EXTENDS Integers, FiniteSets, Sequences, FiniteSetsExt

CONSTANTS Cutoff,        \* the day financial_as_of names
          CalendarDays,  \* a calendar quarter has as many days
          Spine          \* the calendar quarters a publication shows

ASSUME SpineAssumption == Spine \subseteq Int /\ IsFiniteSet(Spine)

None == "none"
Unavailable == "UNAVAILABLE"

Instants == {"debt", "cash"}
Durations == {"revenue", "cfo", "capex"}
Basis(m) == IF m \in Instants THEN "INSTANT" ELSE "QTD_3M"

\* One definition of each input contract: the ids, the two inputs, the kind.
Generic(m, kind, first, second) ==
  [metric |-> m, kind |-> kind, first |-> first, second |-> second]
Generics == {Generic("revenue_qoq", "ADJACENT_FISCAL_QUARTER_GROWTH", "revenue", "revenue"),
             Generic("revenue_yoy", "SAME_FISCAL_QUARTER_YOY_GROWTH", "revenue", "revenue"),
             Generic("fcf", "SAME_PERIOD_DIFFERENCE", "cfo", "capex"),
             Generic("net_debt", "SAME_PERIOD_NET_DEBT", "debt", "cash")}
Margins == {Generic("fcf_margin", "SAME_PERIOD_RATIO", "fcf", "revenue")}
Growth(d) == d.kind \in {"ADJACENT_FISCAL_QUARTER_GROWTH", "SAME_FISCAL_QUARTER_YOY_GROWTH"}
TtmInputs == {"revenue", "fcf"}
TtmOf == [revenue |-> "ttm_revenue", fcf |-> "ttm_fcf"]

Bucket(end) == (end - 1) \div CalendarDays
QuarterLong(days) == days \in 75 .. 105
Latest(rows) == Max({r.filed : r \in rows})

-----------------------------------------------------------------------------
\* Which prepared cell is available

DirectDebt(source) == source.metric = "debt" /\ source.combined

\* An elected fact keeps a complete, dated and typed source.
Anchored(source) ==
  /\ source.sound
  /\ source.typed \/ DirectDebt(source)
  /\ source.end <= source.filed /\ source.report <= source.filed /\ source.filed <= Cutoff

SameScope(a, b) == a.basis = b.basis /\ a.concept = b.concept

\* The classes whose difference is the quarter.
Subtracted == [Q2 |-> <<"YTD_6M", "QTD_3M">>, Q3 |-> <<"YTD_9M", "YTD_6M">>,
               Q4 |-> <<"FY", "YTD_9M">>]
QuarterName == <<"Q1", "Q2", "Q3", "Q4">>

Difference(c) ==
  LET later == c.sources[1]
      earlier == c.sources[2]
      quarter == QuarterName[c.fq]
  IN /\ quarter \in DOMAIN Subtracted
     /\ <<later.class, earlier.class>> = Subtracted[quarter]
     /\ later.start = earlier.start /\ earlier.end = c.start /\ later.end = c.end
     /\ SameScope(later, earlier) /\ SameScope(later, c)
     /\ c.filed = Latest({later, earlier}) /\ c.report = later.report
     /\ c.value = later.value - earlier.value

Attested(c) ==
  LET source == c.sources[1]
  IN source.start = c.start /\ source.end = c.end /\ source.value = c.value
     /\ source.class = c.class /\ source.basis = c.basis

Available(c) ==
  /\ c.class = "INSTANT" \/ QuarterLong(c.end - c.start)
  /\ \A source \in Range(c.sources) : Anchored(source)
  /\ CASE c.kind = "REPORTED" -> Attested(c)
       [] c.kind = "DERIVED_QUARTER" -> c.class = "QTD_3M" /\ Difference(c)
       [] OTHER -> FALSE

Row(m, b, kind, at, filed, value, inputs) ==
  [metric |-> m, bucket |-> b, kind |-> kind, class |-> at.class, fy |-> at.fy, fq |-> at.fq,
   start |-> at.start, end |-> at.end, filed |-> filed, report |-> at.report,
   basis |-> at.basis, concept |-> at.concept, value |-> value, inputs |-> inputs]

Held(m, b) ==
  [metric |-> m, bucket |-> b, kind |-> Unavailable, class |-> None, fy |-> 0, fq |-> 0,
   start |-> 0, end |-> 0, filed |-> 0, report |-> 0,
   basis |-> None, concept |-> None, value |-> 0, inputs |-> <<>>]

Ok(row) == row.kind # Unavailable

\* A cell without a value keeps its period, and with it its place.
Prepared(c) ==
  Row(c.metric, Bucket(c.end), IF Available(c) THEN c.kind ELSE Unavailable,
      c, c.filed, IF Available(c) THEN c.value ELSE 0, c.sources)

Direct(cells) == {Prepared(c) : c \in {c \in cells : c.class = Basis(c.metric)}}

\* A quarter with several candidates of one metric shows none of them.
Picked(direct, m, b) ==
  LET choices == {r \in direct : r.metric = m /\ r.bucket = b}
  IN IF Cardinality(choices) = 1 THEN CHOOSE r \in choices : TRUE ELSE Held(m, b)

\* The fiscal coordinate two available rows claim belongs to neither.
ByFiscal(rows, m, year, quarter) ==
  LET found == {r \in rows : r.metric = m /\ Ok(r) /\ r.fy = year /\ r.fq = quarter}
  IN IF Cardinality(found) = 1 THEN CHOOSE r \in found : TRUE ELSE Held(m, 0)

At(rows, m, b) == CHOOSE r \in rows : r.metric = m /\ r.bucket = b

-----------------------------------------------------------------------------
\* What is computed from the picked rows

\* The source at the end of the period: of a difference, the later one, and
\* of the free cash flow the one of its first term.
Endpoint(row) ==
  CASE row.kind = "DERIVED_METRIC" -> row.inputs[1].inputs[1]
    [] OTHER -> row.inputs[1]

\* Mutant: two filings may report the two terms.
OnePeriodEnd(a, b) == Endpoint(a).end = Endpoint(b).end /\ Endpoint(a).basis = Endpoint(b).basis

OneFiling(a, b) ==
  LET first == Endpoint(a)
      second == Endpoint(b)
  IN first.filing = second.filing /\ first.end = second.end /\ first.basis = second.basis

SamePeriod(a, b) ==
  /\ a.start = b.start /\ a.end = b.end /\ a.class = b.class
  /\ a.fy = b.fy /\ a.fq = b.fq

Compatible(d, current, second) ==
  /\ Ok(current) /\ Ok(second)
  /\ current.basis = second.basis
  /\ CASE d.kind = "ADJACENT_FISCAL_QUARTER_GROWTH" ->
            current.concept = second.concept /\ second.end = current.start
       [] d.kind = "SAME_FISCAL_QUARTER_YOY_GROWTH" ->
            current.concept = second.concept /\ second.end <= current.start
       [] OTHER -> SamePeriod(current, second) /\ OneFiling(current, second)

\* The rules on signs, by kind.
Computable(d, first, second) ==
  CASE d.kind = "SAME_PERIOD_NET_DEBT" -> first >= 0 /\ second >= 0
    [] d.kind = "SAME_PERIOD_DIFFERENCE" -> second >= 0
    [] Growth(d) -> second > 0 /\ first >= 0
    [] OTHER -> second > 0

Percent(first, second) == (100 * first) \div second

Value(d, first, second) ==
  CASE d.kind \in {"SAME_PERIOD_NET_DEBT", "SAME_PERIOD_DIFFERENCE"} -> first - second
    [] Growth(d) -> Percent(first - second, second)
    [] OTHER -> Percent(first, second)

\* The second input: the same bucket's, or the fiscal predecessor's.
Second(d, rows, indexed, current, b) ==
  CASE d.kind = "ADJACENT_FISCAL_QUARTER_GROWTH" ->
         IF current.fq > 1 THEN ByFiscal(indexed, d.second, current.fy, current.fq - 1)
         ELSE ByFiscal(indexed, d.second, current.fy - 1, 4)
    [] d.kind = "SAME_FISCAL_QUARTER_YOY_GROWTH" ->
         ByFiscal(indexed, d.second, current.fy - 1, current.fq)
    [] OTHER -> At(rows, d.second, b)

GenericRow(d, rows, indexed, b) ==
  LET current == At(rows, d.first, b)
      second == Second(d, rows, indexed, current, b)
  IN IF /\ Compatible(d, current, second)
        /\ d.kind = "SAME_PERIOD_NET_DEBT" => DirectDebt(current.inputs[1])
        /\ Computable(d, current.value, second.value)
     THEN Row(d.metric, b, "DERIVED_METRIC", current, Latest({current, second}),
              Value(d, current.value, second.value), <<current, second>>)
     ELSE Held(d.metric, b)

\* The concepts a sum binds together; of the free cash flow, those of its terms.
Binding(row) ==
  IF row.metric = "fcf" THEN <<row.inputs[1].concept, row.inputs[2].concept>>
  ELSE <<row.concept>>

\* Fiscal quarters counted from year zero, and the four that end in one.
Ordinal(row) == 4 * row.fy + row.fq - 1
Four(indexed, m, last) ==
  [i \in 1 .. 4 |-> LET n == Ordinal(last) - 4 + i
                    IN ByFiscal(indexed, m, n \div 4, (n % 4) + 1)]

\* Under the strict catalog a sum needs a declared basis; under the
\* arithmetic one none of them may declare one instead.
BasisAllows(catalog, rows) ==
  LET bases == {r.basis : r \in rows}
  IN Cardinality(bases) = 1 /\ (bases # {None} \/ catalog = "ARITHMETIC")

\* Mutant: only the last boundaries are compared.
ContiguousTail(four) == \A i \in 2 .. 3 : four[i].end = four[i + 1].start

Contiguous(four) == \A i \in 1 .. 3 : four[i].end = four[i + 1].start

Summable(catalog, four) ==
  /\ \A i \in 1 .. 4 : Ok(four[i])
  /\ Contiguous(four)
  /\ Cardinality({Binding(four[i]) : i \in 1 .. 4}) = 1
  /\ BasisAllows(catalog, Range(four))
  /\ Cardinality({four[i].concept : i \in 1 .. 4}) = 1

Total(four) == four[1].value + four[2].value + four[3].value + four[4].value

Summed(m, b, four, value, inputs) ==
  Row(m, b, "DERIVED_METRIC",
      [four[4] EXCEPT !.start = four[1].start, !.class = "TTM", !.basis = four[1].basis],
      Latest(Range(inputs)), value, inputs)

TtmRow(catalog, m, rows, indexed, b) ==
  LET last == At(rows, m, b)
      four == Four(indexed, m, last)
  IN IF Ok(last) /\ Summable(catalog, four)
     THEN Summed(TtmOf[m], b, four, Total(four), four)
     ELSE Held(TtmOf[m], b)

\* A margin of sums: both sums, quarter by quarter over one period and filing.
TtmMarginRow(catalog, rows, indexed, b) ==
  LET above == Four(indexed, "fcf", At(rows, "fcf", b))
      below == Four(indexed, "revenue", At(rows, "revenue", b))
      ratio == CHOOSE d \in Margins : TRUE
  IN IF /\ Ok(At(rows, "fcf", b)) /\ Ok(At(rows, "revenue", b))
        /\ Summable(catalog, above) /\ Summable(catalog, below)
        /\ \A i \in 1 .. 4 : Compatible(ratio, above[i], below[i])
        /\ Total(below) > 0
     THEN Summed("ttm_fcf_margin", b, above, Percent(Total(above), Total(below)), above \o below)
     ELSE Held("ttm_fcf_margin", b)

\* Build: the reported rows of every bucket any of them falls in, then what is
\* computed from them in the definitions' order; only the spine is published.
Buckets(direct) == Spine \cup {r.bucket : r \in direct}

Build(cells, catalog) ==
  LET direct == Direct(cells)
      all == Buckets(direct)
      picked == {Picked(direct, m, b) : m \in Durations \cup Instants, b \in all}
      generic == {GenericRow(d, picked, direct, b) : d \in Generics, b \in all}
      first == picked \cup generic
      margins == {GenericRow(d, first, direct, b) : d \in Margins, b \in all}
      rows == first \cup margins
      indexed == direct \cup generic \cup margins
      sums == {TtmRow(catalog, m, rows, indexed, b) : m \in TtmInputs, b \in Spine}
              \cup {TtmMarginRow(catalog, rows, indexed, b) : b \in Spine}
  IN {r \in rows \cup sums : r.bucket \in Spine}

\* The period a bucket holds: the candidates' only one, if there is one.
Periods(cells, b) ==
  {[fy |-> r.fy, fq |-> r.fq, start |-> r.start, end |-> r.end, instant |-> r.class = "INSTANT"] :
     r \in {r \in Direct(cells) : r.bucket = b}}

BucketStatus(cells, b) ==
  LET periods == Periods(cells, b)
      lasting == {p \in periods : ~p.instant}
      pool == IF lasting = {} THEN periods ELSE lasting
  IN IF periods = {} THEN "NO_FILING_AS_OF_CUTOFF"
     ELSE IF Cardinality(pool) = 1 THEN "PERIOD_AVAILABLE" ELSE "PERIOD_CONFLICT"
=============================================================================
