------------------------------ MODULE MCRules ------------------------------
(***************************************************************************)
(* Rules that turn evidence into results, checked side by side: a          *)
(* behaviour exercises one of them and leaves the others where they start. *)
(*                                                                         *)
(* Quarterly metrics: two fiscal years of thirteen-week quarters, the      *)
(* filing of a quarter named by its place; the cash flow and the balance   *)
(* sheet of the second.  Fourth quarters: a line of two years and one of   *)
(* the second.  Reviewed fourth quarters: two products of a history that   *)
(* may be restated, unsound, complete by itself or of another snapshot,    *)
(* evidence and decisions that fit or do not.  Annual metrics, the         *)
(* delivery of a universe (RuleCases).                                     *)
(***************************************************************************)
EXTENDS MetricPublication

Weeks13 == 91
Year(j) == 1 + (j \div 4)
Quarter(j) == (j % 4) + 1

Fact(metric, class, from, to, value) ==
  [fact |-> <<metric, class, to>>, metric |-> metric, class |-> class, filing |-> to,
   fy |-> Year(to), fq |-> Quarter(to), start |-> Weeks13 * from, end |-> Weeks13 * (to + 1),
   value |-> value, basis |-> "usgaap", concept |-> metric, sound |-> TRUE, typed |-> TRUE,
   combined |-> FALSE, filed |-> Weeks13 * (to + 1) + 30, report |-> Weeks13 * (to + 1)]

Amount == [revenue |-> 30, cfo |-> 9, capex |-> 4]
Cumulative(m, class, from, to) ==
  Fact(m, class, from, to, Amount[m] * (to + 1 - from) + (to * (to + 1) - from * (from - 1)) \div 2)

Income(y) ==
  {Cumulative("revenue", "QTD_3M", j, j) : j \in 4 * y .. 4 * y + 2}
  \cup {Cumulative("revenue", "YTD_9M", 4 * y, 4 * y + 2), Cumulative("revenue", "FY", 4 * y, 4 * y + 3)}
CashFlow(y) ==
  UNION {{Cumulative(m, "QTD_3M", 4 * y, 4 * y), Cumulative(m, "YTD_6M", 4 * y, 4 * y + 1),
          Cumulative(m, "YTD_9M", 4 * y, 4 * y + 2), Cumulative(m, "FY", 4 * y, 4 * y + 3)} :
           m \in {"cfo", "capex"}}
Balance(j) ==
  {[Fact(m, "INSTANT", j + 1, j, IF m = "debt" THEN 50 ELSE 20) EXCEPT !.combined = m = "debt"] :
     m \in Instants}

RegularFacts == Income(0) \cup Income(1) \cup CashFlow(1) \cup Balance(6) \cup Balance(7)

-----------------------------------------------------------------------------
Replaced(all, f, g) == (all \ {f}) \cup {g}

\* One fact is missing, tagged, scoped or attested otherwise, taken from an
\* amendment, has another sign, or covers a week less.
FactEdits(all, f) ==
  {all \ {f}}
  \cup {Replaced(all, f, g) :
          g \in {[f EXCEPT !.basis = "other"], [f EXCEPT !.concept = "other"],
                 [f EXCEPT !.sound = FALSE], [f EXCEPT !.typed = FALSE],
                 [f EXCEPT !.combined = ~f.combined],
                 [f EXCEPT !.filing = f.filing + 10, !.filed = f.filed + 60],
                 [f EXCEPT !.value = -f.value], [f EXCEPT !.value = 0],
                 [f EXCEPT !.start = IF f.class = "INSTANT" THEN f.start ELSE f.start + 7]}}

\* Every fact moves a boundary, or a filing carries the wrong year or quarter.
Moved(all, From(_)) ==
  {[f EXCEPT !.start = IF From(f.start) THEN f.start + 7 ELSE f.start,
             !.end = IF From(f.end) THEN f.end + 7 ELSE f.end,
             !.filed = IF From(f.end) THEN f.filed + 7 ELSE f.filed,
             !.report = IF From(f.end) THEN f.report + 7 ELSE f.report] : f \in all}
Boundaries(all) == {f.end : f \in all}
Relabelled(all, j, years, quarters) ==
  {IF f.filing # j THEN f
   ELSE [f EXCEPT !.fy = f.fy + years, !.fq = ((f.fq + quarters - 1) % 4) + 1] : f \in all}

FirstEdits(all) ==
  UNION {FactEdits(all, f) : f \in all} \cup {{[f EXCEPT !.basis = None] : f \in all}}
  \cup {LET After(day) == day >= b IN Moved(all, After) : b \in Boundaries(all)}
  \cup {LET Only(day) == day = b IN Moved(all, Only) : b \in Boundaries(all)}
  \cup {Relabelled(all, j, y, q) : j \in 0 .. 7, y \in {-1, 1}, q \in {0, 1}}

\* With any of them: a quarter of the second year is only a difference, the
\* boundary between two of its quarters moves, or a filing is labelled a year
\* early or late.
SecondEdits(all) ==
  {{f \in all : ~(f.metric = "revenue" /\ f.class = "QTD_3M" /\ f.filing = j)} : j \in 4 .. 6}
  \cup {LET Only(day) == day = b IN Moved(all, Only) : b \in {Weeks13 * 6, Weeks13 * 7}}
  \cup {Relabelled(all, j, IF j = 3 THEN 1 ELSE -1, 0) : j \in {3, 6, 7}}

RegularEdits(all) == IF all = RegularFacts THEN FirstEdits(all) ELSE SecondEdits(all)

Screened == {{[metric |-> "fcf", above |-> 0], [metric |-> "revenue", above |-> 0]},
             {[metric |-> "ttm_fcf", above |-> 0], [metric |-> "net_debt", above |-> 0],
              [metric |-> "revenue_yoy", above |-> 0]}}
Spine5 == 3 .. 7

-----------------------------------------------------------------------------
InRelease(concept, class, from, to, value) ==
  [concept |-> concept, class |-> class, from |-> from, to |-> to, value |-> value,
   dims |-> "none", basis |-> "none", unit |-> "usd", kind |-> "amount", roles |-> {"income", "cash"}]
YearAndNineMonths(concept, y) ==
  {InRelease(concept, "FY", 4 * y, 4 * y + 4, 40 + y), InRelease(concept, "YTD_9M", 4 * y, 4 * y + 3, 29 + y)}
FirstRelease ==
  YearAndNineMonths("sales", 0) \cup YearAndNineMonths("sales", 1) \cup YearAndNineMonths("buyback", 1)
  \cup {InRelease("sales", "QTD_3M", 4, 5, 10)}

\* One fact is missing, scoped, presented, dated or measured otherwise, or
\* another one is reported beside it.
OneReported(all, f) ==
  {all \ {f}}
  \cup {Replaced(all, f, g) :
          g \in {[f EXCEPT !.dims = "member"], [f EXCEPT !.basis = "recast"], [f EXCEPT !.unit = "eur"],
                 [f EXCEPT !.roles = {}], [f EXCEPT !.roles = {"income"}], [f EXCEPT !.from = f.from + 1],
                 [f EXCEPT !.from = f.from - 1], [f EXCEPT !.to = f.to + 1], [f EXCEPT !.to = f.to - 1],
                 [f EXCEPT !.value = 1]}
                \cup {[f EXCEPT !.kind = k] : k \in {"count", "ratio", "balance"}}}
  \cup {all \cup {g} :
          g \in {[f EXCEPT !.to = f.to - 1, !.value = 20], [f EXCEPT !.from = f.from - 1],
                 [f EXCEPT !.concept = "custom"]}}

\* The second year is in another basis or dimensioned, starts
\* earlier, for itself or besides, or is reported in part.
SecondYear(all) ==
  LET In(f) == f.from >= 3
      Recast(f) == [f EXCEPT !.basis = "recast"]
      Early(f) == [f EXCEPT !.from = f.from - 1]
      With(G(_)) == {IF In(f) THEN G(f) ELSE f : f \in all}
      Member(f) == [f EXCEPT !.dims = "member"]
  IN {With(Recast), With(Member), With(Early), {IF f.concept = "sales" THEN Recast(f) ELSE f : f \in all},
      all \cup {Early(f) : f \in {g \in all : In(g)}},
      {f \in all : ~(In(f) /\ f.class = "FY")}, {f \in all : ~(In(f) /\ f.class = "YTD_9M")}}

NextReleases(all) ==
  IF all = FirstRelease THEN UNION {OneReported(all, f) : f \in all} ELSE SecondYear(all)

CONSTANTS Standard, CashOnly, Declared, MaxReleases,  \* of FourthQuarter
          FirstFacts, Following(_)                    \* its Regular and Variants

VARIABLES reported, releases, mechanical, registry, policy
fourthVars == <<reported, releases, mechanical, registry, policy>>

Q == INSTANCE FourthQuarter WITH facts <- reported, Regular <- FirstFacts, Variants <- Following

ASSUME FirstFactsAssumption == Q!OnePerPlace(FirstFacts)

-----------------------------------------------------------------------------
PairCells(fy, sound) == [fy |-> fy, ytd |-> 30, sound |-> sound]
ParentHistory(fy, sound, q4, observed) ==
  [cells |-> [a |-> PairCells(fy, TRUE), b |-> PairCells(40, sound)], q4 |-> [a |-> -1, b |-> q4], snapshot |-> observed]
FirstHistory == ParentHistory(40, TRUE, -1, 1)
Restated == ParentHistory(44, TRUE, -1, 1)
ParentHistories ==
  {FirstHistory, Restated, ParentHistory(40, TRUE, 12, 1), ParentHistory(40, FALSE, -1, 1),
   ParentHistory(40, TRUE, -1, 2)}

PairsOf(h, products) ==
  [history |-> h, cells |-> h.cells, snapshot |-> h.snapshot, pairs |-> products,
   values |-> [p \in {"a", "b"} |-> h.cells[p].fy - h.cells[p].ytd]]
FirstPairs == PairsOf(FirstHistory, {"a", "b"})
AllEvidence ==
  {PairsOf(h, {"a", "b"}) : h \in ParentHistories}
  \cup {PairsOf(FirstHistory, {"a"}), [FirstPairs EXCEPT !.values.a = 9],
        [FirstPairs EXCEPT !.cells = Restated.cells, !.values.a = 14]}

Decisions(e, products) ==
  [evidence |-> e, history |-> e.history, approvals |-> [p \in products |-> e.values[p]]]
DecidedBoth == {Decisions(e, products) : e \in AllEvidence, products \in {{"a"}, {"a", "b"}}}
AllDecisions == DecidedBoth \cup {[Decisions(FirstPairs, {"a"}) EXCEPT !.approvals.a = 9]}
FirstDocuments == {[history |-> l.history, evidence |-> l.evidence, ledger |-> l] : l \in DecidedBoth}

CONSTANTS ReviewedHistories, Evidences, Ledgers, Sightings, ReviewedStarts, MaxExchanges  \* of ReviewedFourthQuarter

VARIABLES parent, pairs, decided, observed, reviewing, companion, consumer, exchanged
reviewedVars == <<parent, pairs, decided, observed, reviewing, companion, consumer, exchanged>>

R == INSTANCE ReviewedFourthQuarter
       WITH Histories <- ReviewedHistories, Starts <- ReviewedStarts,
            MaxEdits <- MaxExchanges, history <- parent, evidence <- pairs, ledger <- decided,
            snapshot <- observed, job <- reviewing, edits <- exchanged

-----------------------------------------------------------------------------
Cases == INSTANCE RuleCases

CompanyYears == Cases!Company
YearsAfter(all) == Cases!CompanyChanges(all)
YearWindows == {[input |-> 1 .. 3, display |-> 2 .. 3]}
YearScreens == {{[metric |-> "fcf", above |-> 0], [metric |-> "liabilities_to_assets", above |-> 0]},
                {[metric |-> "revenue_yoy", above |-> 0], [metric |-> "net_debt", above |-> 0]}}
Span3 == 1 .. 3

CONSTANTS FirstReports, ReportsAfter(_),          \* of AnnualPublication: its Regular and Changes
          MaxChanges, Span, Windows, Screens

VARIABLES reports, changes, annual, verdict
annualVars == <<reports, changes, annual, verdict>>

Annual == INSTANCE AnnualPublication
            WITH Regular <- FirstReports, Changes <- ReportsAfter, published <- annual, answer <- verdict

ASSUME SpanAssumption == Span \subseteq Int /\ IsFiniteSet(Span)
ASSUME FirstReportsAssumption == Annual!Dated(FirstReports)

-----------------------------------------------------------------------------
UniverseInputs == Cases!Inputs
UniverseAssessments(g) == Cases!Assessments(g)
UniverseChanges(g) == Cases!Changes(g)

CONSTANTS Universe, FirstInputs, MayAssess(_), InputsAfter(_), MaxReplaced  \* of UniverseDelivery

VARIABLES given, assessment, job, delivery, replaced
deliveryVars == <<given, assessment, job, delivery, replaced>>

Delivery == INSTANCE UniverseDelivery
              WITH Companies <- Universe, Assessments <- MayAssess, OnDisk <- FirstInputs, Changes <- InputsAfter, MaxEdits <- MaxReplaced, edits <- replaced

ASSUME FirstInputsAssumption == \A g \in FirstInputs : Delivery!Listed(g)

-----------------------------------------------------------------------------
VARIABLE part

\* The variables of a part that is not run.
Away == "away"

quarterVars == <<facts, edits, published, opened, answer>>

QuartersAway == facts = {} /\ edits = 0 /\ published = Nothing /\ opened = None /\ answer = Unasked
DeliveryAway ==
  given = Away /\ assessment = Away /\ job = Away /\ delivery = Away /\ replaced = Away
FourthAway ==
  reported = Away /\ releases = Away /\ mechanical = Away /\ registry = Away /\ policy = Away
ReviewedAway ==
  /\ parent = Away /\ pairs = Away /\ decided = Away /\ observed = Away
  /\ reviewing = Away /\ companion = Away /\ consumer = Away /\ exchanged = Away
AnnualAway == reports = Away /\ changes = Away /\ annual = Away /\ verdict = Away

MCInit ==
  \/ part = "quarters" /\ Init /\ FourthAway /\ ReviewedAway /\ DeliveryAway /\ AnnualAway
  \/ part = "fourth" /\ Q!Init /\ QuartersAway /\ ReviewedAway /\ DeliveryAway /\ AnnualAway
  \/ part = "reviewed" /\ R!Init /\ QuartersAway /\ FourthAway /\ DeliveryAway /\ AnnualAway
  \/ part = "annual" /\ Annual!Init /\ QuartersAway /\ FourthAway /\ ReviewedAway /\ DeliveryAway
  \/ part = "delivery" /\ Delivery!Init /\ QuartersAway /\ FourthAway /\ ReviewedAway /\ AnnualAway

MCNext ==
  /\ \/ part = "quarters" /\ Next /\ UNCHANGED <<fourthVars, reviewedVars, deliveryVars, annualVars>>
     \/ part = "fourth" /\ Q!Next /\ UNCHANGED <<quarterVars, reviewedVars, deliveryVars, annualVars>>
     \/ part = "reviewed" /\ R!Next /\ UNCHANGED <<quarterVars, fourthVars, deliveryVars, annualVars>>
     \/ part = "annual" /\ Annual!Next /\ UNCHANGED <<quarterVars, fourthVars, reviewedVars, deliveryVars>>
     \/ part = "delivery" /\ Delivery!Next /\ UNCHANGED <<quarterVars, fourthVars, reviewedVars, annualVars>>
  /\ UNCHANGED part

mcvars == <<part, quarterVars, fourthVars, reviewedVars, deliveryVars, annualVars>>
MCSpec == MCInit /\ [][MCNext]_mcvars

\* A computed quarter or sum tiles its period (MetricPublication), a computed
\* annual value rests on one scope and is no part of another
\* (AnnualPublication).
ComputedOverOneScope ==
  /\ part = "quarters" => SumsTileTheirPeriod
  /\ part = "annual" => Annual!RestsOnOneScope /\ Annual!TotalsAreNotParts

\* The views of the latest quarter agree, and a company passes a screen on
\* values of one newest quarter (MetricPublication); so with the newest fiscal
\* year (AnnualPublication).
ViewsAgree ==
  /\ part = "quarters" => LatestViewsAgree /\ PassesOnOneNewestQuarter
  /\ part = "annual" => Annual!LatestViewsAgree /\ Annual!PassesOnOneNewestYear

\* A fourth quarter means one thing in the mechanical companion and in the
\* policy, is approved where it must be, and is accounted for where there is
\* none (FourthQuarter).
FourthQuartersAgree == part = "fourth" => Q!FourthQuartersAgree

\* A reviewed fourth quarter is the exact residual of the history it names,
\* approved, and an analysis shows it beside that history only (ReviewedFourthQuarter).
ReviewedIsExact == part = "reviewed" => R!ReviewedIsExact

\* What an accepted PASS says of the durations and repairs is so, and a delivery
\* that calls itself READY joins publications that belong together
\* (UniverseDelivery).
DeliveryIsHonest == part = "delivery" => Delivery!AcceptedAccuracyIsExact /\ Delivery!ReadyIsJoined
=============================================================================
