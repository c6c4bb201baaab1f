-------------------------- MODULE AnnualPublication --------------------------
(***************************************************************************)
(* One company's annual metrics from its filings to its latest views: the  *)
(* publication (metrics/screening.py), the newest fiscal year a consumer   *)
(* resolves in it, and what the explorer's list, profile, series and       *)
(* comparison and a screen show of that year (screening/explorer.py,       *)
(* screening/service.py).                                                  *)
(*                                                                         *)
(* Filings are the environment: before a publication they may differ from  *)
(* the regular ones in up to MaxChanges places.                            *)
(***************************************************************************)
EXTENDS AnnualMetrics

CONSTANTS Regular,      \* [facts, arcs] of a company whose every year is in order
          Changes(_),   \* what can be different in them
          MaxChanges,
          Span,         \* the fiscal years the analysis is asked for
          Windows,      \* year windows a config may declare: [input, display]
          Screens       \* sets of [metric, above] predicates

VARIABLES reports,      \* what the filings report
          changes,
          published,    \* the published rows
          answer        \* the last screen's answer
vars == <<reports, changes, published, answer>>

Nothing == {}
Unasked == [aggregate |-> "UNASKED", seen |-> {}]

-----------------------------------------------------------------------------
\* The newest prepared year

Conflicting == "PERIOD_CONFLICT"
Years(rows) == {r.fy : r \in rows}
Dates(rows, y) == {r.end : r \in {r \in rows : r.fy = y /\ r.end # NoDay}}
FiscalDates(rows, y) == {r.end : r \in {r \in rows : r.fy = y /\ r.class = "FY" /\ r.end # NoDay}}

\* The year's last fiscal end, or without one its last balance date.
YearEnd(rows, y) ==
  LET fiscal == FiscalDates(rows, y)
      days == IF fiscal # {} THEN fiscal ELSE Dates(rows, y)
  IN IF days = {} THEN NoDay ELSE Max(days)

NewestYear(rows) ==
  LET last == Max(Years(rows))
      end == [y \in Years(rows) |-> YearEnd(rows, y)]
  IN IF end[last] = NoDay THEN last
     ELSE CHOOSE y \in Years(rows) :
            \A z \in Years(rows) : end[z] < end[y] \/ (end[z] = end[y] /\ z <= y)

Starts(rows, y) ==
  LET end == YearEnd(rows, y)
  IN {r.start : r \in {r \in rows : r.fy = y /\ r.class = "FY" /\ r.end = end /\ r.start # NoDay}}

\* Years that report two fiscal ends or starts have no period.
Anchor(rows) ==
  LET y == NewestYear(rows)
      split == Cardinality(FiscalDates(rows, y)) > 1 \/ Cardinality(Starts(rows, y)) > 1
  IN [fy |-> y, conflict |-> split,
      start |-> IF split THEN NoDay ELSE Common(Starts(rows, y)),
      end |-> IF split THEN NoDay ELSE YearEnd(rows, y)]

AtAnchor(r, anchor) ==
  /\ ~anchor.conflict
  /\ anchor.end # NoDay /\ r.fy = anchor.fy /\ r.end = anchor.end
  /\ r.class = "FY" => anchor.start # NoDay /\ r.start = anchor.start

Hold(r) == [r EXCEPT !.ok = FALSE, !.value = 0]

\* A value that cannot be used at the period, or is blocked, becomes a hold.
AtLatest(r, anchor) == IF AtAnchor(r, anchor) /\ ~r.blocked THEN r ELSE Hold(r)

-----------------------------------------------------------------------------
\* What a latest view shows: at most one row of a metric

\* The list's cells, the profile's summary and the comparison's values.
Explored(rows) ==
  LET anchor == Anchor(rows)
  IN IF anchor.conflict THEN {} ELSE {AtLatest(r, anchor) : r \in Displayed(rows, {anchor.fy})}

\* Mutant: the series shows the newest year as it was published.
SeriesUnanchored(rows) ==
  {IF r.blocked THEN Hold(r) ELSE r : r \in rows}

\* The profile's series: every prepared year, the newest as at its period.
ProfileSeries(rows) ==
  LET anchor == Anchor(rows)
      entry(r) == IF r.fy = anchor.fy THEN AtLatest(r, anchor) ELSE IF r.blocked THEN Hold(r) ELSE r
  IN {entry(r) : r \in {r \in rows : r.fy = anchor.fy => ~anchor.conflict}}

\* A metric's series ends with the newest year.
MetricSeries(rows) ==
  LET anchor == Anchor(rows)
      entry(r) == IF r.fy = anchor.fy THEN AtLatest(r, anchor) ELSE IF r.blocked THEN Hold(r) ELSE r
  IN {entry(r) : r \in {r \in rows : r.fy <= anchor.fy}}

\* The observations a screen of the latest fiscal year judges.
Judged(rows) ==
  LET anchor == Anchor(rows)
  IN IF rows = {} \/ anchor.conflict THEN {}
     ELSE {AtLatest(r, anchor) : r \in Displayed(rows, {anchor.fy})}

Result(judged, predicate) ==
  LET usable == {r \in judged : r.metric = predicate.metric /\ r.ok /\ ~r.blocked}
  IN IF usable = {} THEN "UNDETERMINED"
     ELSE IF \A r \in usable : r.value > predicate.above THEN "PASS" ELSE "FAIL"

Aggregate(results) ==
  IF "FAIL" \in results THEN "FAIL" ELSE IF results = {"PASS"} THEN "PASS" ELSE "UNDETERMINED"

-----------------------------------------------------------------------------
Init == reports = Regular /\ changes = 0 /\ published = Nothing /\ answer = Unasked

\* A period is given in days.
Dated(filed) == \A f \in filed.facts : f.resolved => f.start \in Int /\ f.end \in Int

Refile ==
  /\ published = Nothing /\ changes < MaxChanges
  /\ \E other \in Changes(reports) : Dated(other) /\ reports' = other
  /\ changes' = changes + 1
  /\ UNCHANGED <<published, answer>>

\* A declared window must take in exactly the prepared years and show the
\* latest of them; without one they are all shown.
DeclaredWindow(w, prepared) ==
  /\ w.input = prepared
  /\ w.display \subseteq w.input
  /\ \A y \in w.display, z \in w.input \ w.display : z < y

Publish ==
  /\ published = Nothing
  /\ \E w \in Windows \cup {[input |-> {}, display |-> {}]} :
       LET prepared == PreparedYears(reports.facts, Span)
           shown == IF w.input = {} THEN prepared ELSE w.display
       IN /\ w.input # {} => DeclaredWindow(w, prepared)
          /\ prepared # {}
          /\ published' = Displayed(Build(reports.facts, reports.arcs, prepared), shown)
  /\ UNCHANGED <<reports, changes, answer>>

Screen ==
  /\ published # Nothing /\ answer = Unasked
  /\ \E predicates \in Screens :
       LET judged == Judged(published)
       IN answer' = [aggregate |-> Aggregate({Result(judged, p) : p \in predicates}),
                     seen |-> {r \in judged : \E p \in predicates : p.metric = r.metric}]
  /\ UNCHANGED <<reports, changes, published>>

Next == Refile \/ Publish \/ Screen
-----------------------------------------------------------------------------
\* An available ratio or difference rests on facts of one filing, one fiscal
\* period or balance date and one basis, each undimensioned, standard and in
\* dollars, and its typed rows on the filing's primary statement; growth rests
\* on one concept in two years about a year apart.  Every balance of a year
\* stands at the end of the period its statements report (metrics/screening.py,
\* analysis.py).
LeafSound(f) == ~f.dims /\ f.standard /\ f.usd /\ f.resolved /\ ~f.blocked
RestsOnOneScope ==
  LET balances == {r \in published : r.ok /\ r.class = "INSTANT"} IN
  \A r \in published : r.ok =>
    /\ \A f \in r.leaves : LeafSound(f) /\ (Typed(f.row) => PrimaryStatement[f.row] \in f.types)
    /\ IF r.metric = "revenue_yoy"
       THEN \A f, g \in r.leaves :
              f # g => f.concept = g.concept /\ f.basis = g.basis /\ f.end - g.end \notin -329 .. 329
       ELSE \A f, g \in r.leaves :
              f.filing = g.filing /\ f.start = g.start /\ f.end = g.end /\ f.basis = g.basis
    /\ Typed(r.metric) => \A s \in balances : s.fy = r.fy => s.end = r.end

\* Published revenue is never an addend of another fact that qualifies for the
\* row: where a filing's income statement adds the chosen fact up to a total
\* that may be shown, the total is what is shown (analysis.py,
\* _reported_revenue_total).
TotalsAreNotParts ==
  \A r \in published : r.metric = "revenue" /\ r.ok =>
    \A f \in r.leaves, a \in {a \in reports.arcs : a.role = "IS"}, g \in reports.facts :
      ~(/\ a.filing = f.filing /\ a.child = f.concept /\ a.parent = g.concept
        /\ g.filing = f.filing /\ g.fy = f.fy /\ g.row = "revenue" /\ ~g.dims /\ Eligible(g, "IS"))

\* The list, both series, the comparison and a screen show the same values of
\* the newest year, or all of them none (screening/explorer.py,
\* screening/service.py).
Values(rows) == {<<r.metric, r.value>> : r \in {r \in rows : r.ok}}
LatestViewsAgree ==
  published # Nothing =>
    /\ Values(Explored(published)) = Values(Judged(published))
    /\ \A series \in {ProfileSeries(published), MetricSeries(published)} :
         Values(Displayed(series, {Anchor(published).fy})) = Values(Judged(published))

\* A company passes on values of one fiscal year: the one period no displayed
\* year ends after, and not when the last of the years shows no date at all
\* (screening/explorer.py, latest_company_period).
PassesOnOneNewestYear ==
  answer.aggregate = "PASS" =>
    \A r \in answer.seen :
      /\ r.ok
      /\ \A s \in answer.seen : s.fy = r.fy /\ s.end = r.end /\ (s.class = r.class => s.start = r.start)
      /\ \A s \in published : (s.class = "FY" /\ s.end # NoDay) => s.end <= r.end
      /\ LET last == Max(Years(published)) IN last > r.fy => Dates(published, last) # {}
=============================================================================
