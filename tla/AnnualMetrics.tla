---------------------------- MODULE AnnualMetrics ----------------------------
(***************************************************************************)
(* The annual metrics one company is published with: the fact a core row   *)
(* shows in a fiscal year (analysis.py), and the reported and computed     *)
(* rows made of them (metrics/screening.py).  No state: AnnualPublication  *)
(* publishes what Build returns.                                           *)
(*                                                                         *)
(* A fact is the prepared cell of one history row in one fiscal column;    *)
(* `types' are the primary statements its own filing presents it in.  An   *)
(* arc is a calculation relationship of a filing.  Days are integers.      *)
(***************************************************************************)
EXTENDS Integers, FiniteSets, FiniteSetsExt

NoDay == -1   \* an instant has no start, an unresolved cell no dates
NoText == "none"

Durations == {"revenue", "gross_profit", "cfo", "capex"}
Instants == {"assets", "liabilities", "equity", "debt", "cash"}
Class(m) == IF m \in Instants THEN "INSTANT" ELSE "FY"

\* The rows that must come from a primary statement, and which.
PrimaryStatement == [revenue |-> "IS", gross_profit |-> "IS", cfo |-> "CF", assets |-> "BS"]
Typed(m) == m \in DOMAIN PrimaryStatement

-----------------------------------------------------------------------------
\* Fiscal columns

Panel(facts, class, y) == {f \in facts : f.fy = y /\ f.class = class}

\* The column's actual period, unless its facts disagree on it.
ActualPeriod(facts, class, y) ==
  LET bounds == {<<f.start, f.end>> : f \in Panel(facts, class, y)}
  IN IF Cardinality(bounds) = 1 THEN bounds ELSE {}

FiscalEnds(facts, y) == {p[2] : p \in ActualPeriod(facts, "FY", y)}

\* A balance column is kept only when it stands exactly at the year's end.
ColumnKept(facts, class, y) ==
  \/ class = "FY"
  \/ \E p \in ActualPeriod(facts, class, y) : p[2] \in FiscalEnds(facts, y)

PreparedYears(facts, span) ==
  {y \in span : Panel(facts, "FY", y) # {}}

-----------------------------------------------------------------------------
\* The fact a core row shows

\* A cell its facts conflict in keeps its concept and loses everything else,
\* its dimensions included.
Candidates(facts, m, y) ==
  {f \in Panel(facts, Class(m), y) : f.row = m /\ (~f.dims \/ ~f.resolved)}

Start(f) == IF f.resolved THEN f.start ELSE NoDay
End(f) == IF f.resolved THEN f.end ELSE NoDay

InScope(f, actual) ==
  /\ f.resolved /\ f.usd
  /\ f.class = "INSTANT" \/ f.start < f.end
  /\ <<f.start, f.end>> \in actual

\* One candidate out of scope, or two of different filings, hold the row.
OneScope(candidates, actual) ==
  /\ \A f \in candidates : InScope(f, actual)
  /\ \A f, g \in candidates : f.filing = g.filing

Eligible(f, type) == f.resolved /\ f.standard /\ f.gaap /\ type \in f.types

\* What an income statement's calculation adds up to the parent.
Addends(facts, arc, parent) ==
  {f \in facts : /\ f.filing = parent.filing /\ f.concept = arc.child /\ f.fy = parent.fy
                 /\ f.class = parent.class /\ f.resolved /\ ~f.dims /\ f.usd
                 /\ f.start = parent.start /\ f.end = parent.end
                 /\ "IS" \in f.types}

\* The reported total of revenue: the parent of a calculation whose weights
\* are one, some of whose children compete for the row and some do not.
ReportedTotal(facts, arcs, eligible, parent) ==
  LET own == {a \in arcs : a.filing = parent.filing /\ a.parent = parent.concept /\ a.role = "IS"}
      children == {a.child : a \in own}
      competing == {f.concept : f \in eligible \ {parent}}
  IN /\ parent.concept = "Revenues"
     /\ Cardinality(own) >= 2
     /\ \A a \in own : a.weight = 1
     /\ children \cap competing # {}
     /\ Cardinality(children) >= 2 /\ children \ competing # {}
     /\ \A a \in own : Cardinality(Addends(facts, a, parent)) = 1
     /\ parent.value = MapThenSumSet(LAMBDA a : (CHOOSE f \in Addends(facts, a, parent) : TRUE).value, own)

\* The chosen fact of a row, if there is one.
Chosen(facts, arcs, m, y) ==
  LET candidates == Candidates(facts, m, y)
      eligible == {f \in candidates : Eligible(f, PrimaryStatement[m])}
      totals == {f \in eligible : ReportedTotal(facts, arcs, eligible, f)}
  IN IF ~Typed(m) THEN (IF Cardinality(candidates) = 1 THEN candidates ELSE {})
     ELSE IF ~OneScope(candidates, ActualPeriod(facts, Class(m), y)) THEN {}
     ELSE IF Cardinality(eligible) = 1 THEN eligible
     ELSE IF m = "revenue" /\ totals # {} THEN {CHOOSE f \in totals : TRUE}
     ELSE {}

-----------------------------------------------------------------------------
\* Rows

Row(m, class, y, ok, start, end, value, leaves, basis) ==
  [metric |-> m, class |-> class, fy |-> y, ok |-> ok, start |-> start, end |-> end,
   value |-> IF ok THEN value ELSE 0, leaves |-> leaves, basis |-> basis, blocked |-> FALSE]

Undated(m, class, y) == Row(m, class, y, FALSE, NoDay, NoDay, 0, {}, NoText)

Common(days) == IF Cardinality(days) = 1 THEN CHOOSE d \in days : TRUE ELSE NoDay

Usable(f) ==
  /\ f.resolved /\ ~f.blocked /\ f.standard /\ f.usd
  /\ f.class = "FY" => f.start # NoDay /\ f.end # NoDay
  /\ f.class = "INSTANT" => f.start = NoDay /\ f.end # NoDay

\* A held row keeps the dates its candidates share.
ReportedRow(facts, arcs, m, y) ==
  LET candidates == Candidates(facts, m, y)
      chosen == Chosen(facts, arcs, m, y)
      f == CHOOSE f \in chosen : TRUE
  IN IF ~ColumnKept(facts, Class(m), y) THEN Undated(m, Class(m), y)
     ELSE IF chosen = {}
     THEN Row(m, Class(m), y, FALSE, Common({Start(c) : c \in candidates}),
              Common({End(c) : c \in candidates}), 0, {}, NoText)
     ELSE [Row(m, Class(m), y, Usable(f), Start(f), End(f), f.value, {f}, f.basis)
             EXCEPT !.blocked = f.blocked]

At(rows, m, y) == {r \in rows : r.metric = m /\ r.fy = y}
The(rows, m, y) == CHOOSE r \in At(rows, m, y) : TRUE

Filings(row) == {f.filing : f \in row.leaves}
Presented(row, types) == \E f \in row.leaves : f.types \cap types # {}

Joined(first, second) ==
  /\ first.class = second.class /\ first.start = second.start /\ first.end = second.end
  /\ Filings(first) = Filings(second)

SameBasis(first, second) == first.basis = second.basis

Combined(m, first, second, ok, value) ==
  Row(m, first.class, first.fy, ok, Common({first.start, second.start}), Common({first.end, second.end}),
      value, first.leaves \cup second.leaves, IF SameBasis(first, second) THEN first.basis ELSE NoText)

Percent(top, bottom) == (100 * top) \div bottom

\* Ratios of one statement's or two statements' rows of one period.
Pairs ==
  {[metric |-> "gross_margin", first |-> "gross_profit", second |-> "revenue", above |-> {"IS"}, below |-> {"IS"}],
   [metric |-> "fcf_margin", first |-> "fcf", second |-> "revenue", above |-> {"CF"}, below |-> {"IS"}],
   [metric |-> "liabilities_to_equity", first |-> "liabilities", second |-> "equity", above |-> {"BS"}, below |-> {"BS", "EQ"}],
   [metric |-> "liabilities_to_assets", first |-> "liabilities", second |-> "assets", above |-> {"BS"}, below |-> {"BS"}]}

Ratio(d, first, second) ==
  LET joined == /\ first.ok /\ second.ok /\ Joined(first, second) /\ SameBasis(first, second)
                /\ Presented(first, d.above) /\ Presented(second, d.below)
      \* A loss has a margin, a negative liability no ratio.
      signed == second.value > 0 /\ (first.class = "INSTANT" => first.value >= 0)
  IN Combined(d.metric, first, second, joined /\ signed,
              IF joined /\ signed THEN Percent(first.value, second.value) ELSE 0)

FreeCashFlow(cfo, capex) ==
  Combined("fcf", cfo, capex,
           /\ cfo.ok /\ capex.ok /\ Joined(cfo, capex) /\ SameBasis(cfo, capex)
           /\ Presented(cfo, {"CF"}) /\ Presented(capex, {"CF"}) /\ capex.value >= 0,
           cfo.value - capex.value)

\* The combined debt of a note may stand for the balance sheet's.
NoteAllowed(debt) ==
  /\ Cardinality(debt.leaves) = 1
  /\ \A f \in debt.leaves : f.concept = "CombinedDebt" /\ f.standard /\ f.start = NoDay

NetDebt(debt, cash) ==
  Combined("net_debt", debt, cash,
           /\ debt.ok /\ cash.ok /\ Joined(debt, cash) /\ SameBasis(debt, cash)
           /\ Presented(cash, {"BS"})
           /\ Presented(debt, {"BS"}) \/ NoteAllowed(debt)
           /\ debt.value >= 0 /\ cash.value >= 0,
           debt.value - cash.value)

\* Growth over the year before: one concept, two years about as long, about a
\* year apart; the filings may differ.
FiscalYearLong(r) == r.end - r.start \in 350 .. 378
YearApart(days) == days \in 330 .. 400
SameConcept(a, b) == {f.concept : f \in a.leaves} = {f.concept : f \in b.leaves}

Growth(current, prior) ==
  LET comparable == /\ current.ok /\ prior.ok /\ SameConcept(current, prior) /\ SameBasis(current, prior)
                    /\ FiscalYearLong(current) /\ FiscalYearLong(prior)
                    /\ YearApart(current.end - prior.end)
                    /\ current.value >= 0 /\ prior.value > 0
  IN [Combined("revenue_yoy", current, prior, comparable,
               IF comparable THEN Percent(current.value - prior.value, prior.value) ELSE 0)
        EXCEPT !.start = current.start, !.end = current.end]

\* The year before the first prepared one is missing, not zero.
GrowthRow(rows, y) ==
  LET current == The(rows, "revenue", y)
  IN IF At(rows, "revenue", y - 1) = {}
     THEN [current EXCEPT !.metric = "revenue_yoy", !.ok = FALSE, !.value = 0, !.blocked = FALSE]
     ELSE Growth(current, The(rows, "revenue", y - 1))

Build(facts, arcs, years) ==
  LET reported == {ReportedRow(facts, arcs, m, y) : m \in Durations \cup Instants, y \in years}
      flows == {FreeCashFlow(The(reported, "cfo", y), The(reported, "capex", y)) : y \in years}
      rows == reported \cup flows
  IN rows
     \cup {Ratio(d, The(rows, d.first, y), The(rows, d.second, y)) : d \in Pairs, y \in years}
     \cup {NetDebt(The(rows, "debt", y), The(rows, "cash", y)) : y \in years}
     \cup {GrowthRow(rows, y) : y \in years}

\* Only the years to display are published, after all input years are used.
Displayed(rows, years) == {r \in rows : r.fy \in years}
=============================================================================
