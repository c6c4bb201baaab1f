------------------------------ MODULE RuleCases ------------------------------
(***************************************************************************)
(* What two of the rules are exercised on.                                 *)
(*                                                                         *)
(* Annual metrics: three fiscal years of one company, each reported by its *)
(* own filing: the flows and balances the metrics are made of, a segment,  *)
(* and in the second year a revenue total with two addends, one of which   *)
(* competes with it for the revenue row.                                   *)
(*                                                                         *)
(* The delivery of a universe: two companies with a filing each.  Either   *)
(* the first filing has two governed durations and the second a repaired   *)
(* zero and a duration nobody bound, and the assessment may say anything   *)
(* of them; or a reviewed Q4 and two analyses were prepared, together or   *)
(* not.                                                                    *)
(***************************************************************************)
EXTENDS AnnualMetrics, TLC

YearLong == 364

Fact(row, concept, class, y, value, types) ==
  [row |-> row, concept |-> concept, class |-> class, fy |-> y,
   start |-> IF class = "FY" THEN YearLong * (y - 1) ELSE NoDay, end |-> YearLong * y, filing |-> y,
   value |-> value, usd |-> TRUE, dims |-> FALSE, resolved |-> TRUE, standard |-> TRUE,
   gaap |-> TRUE, types |-> types, basis |-> NoText, blocked |-> FALSE]

Simple(y) ==
  {Fact("revenue", "Revenues", "FY", y, 90 + 10 * y, {"IS"}),
   [Fact("revenue", "Revenues", "FY", y, 40, {"IS"}) EXCEPT !.dims = TRUE],
   Fact("gross_profit", "GrossProfit", "FY", y, 40, {"IS"}),
   Fact("cfo", "OperatingCash", "FY", y, 20, {"CF"}), Fact("capex", "Acquisitions", "FY", y, 5, {"CF"}),
   Fact("assets", "Assets", "INSTANT", y, 200, {"BS"}),
   Fact("liabilities", "Liabilities", "INSTANT", y, 120, {"BS"}),
   Fact("equity", "Equity", "INSTANT", y, 80, {"BS", "EQ"}),
   Fact("debt", "CombinedDebt", "INSTANT", y, 50, {}), Fact("cash", "Cash", "INSTANT", y, 30, {"BS"})}

\* The second year's revenue is split: contracts compete for the row, leases
\* do not.
Split == {Fact("revenue", "Contracts", "FY", 2, 70, {"IS"}), Fact("lease", "Leases", "FY", 2, 40, {"IS"})}
Arc(child) == [filing |-> 2, parent |-> "Revenues", child |-> child, role |-> "IS", weight |-> 1]

Company == [facts |-> UNION {Simple(y) : y \in 1 .. 3} \cup Split, arcs |-> {Arc("Contracts"), Arc("Leases")}]

-----------------------------------------------------------------------------
WithFacts(r, facts) == [r EXCEPT !.facts = facts]
Swapped(r, f, g) == WithFacts(r, (r.facts \ {f}) \cup {g})

\* One fact is missing, in conflict, tagged, presented, measured or dated
\* otherwise, restated by the next filing, blocked, or has another value.
OneFact(r, f) ==
  {WithFacts(r, r.facts \ {f})}
  \cup {Swapped(r, f, g) :
          g \in {[f EXCEPT !.resolved = FALSE], [f EXCEPT !.usd = FALSE], [f EXCEPT !.standard = FALSE],
                 [f EXCEPT !.gaap = FALSE], [f EXCEPT !.types = {}], [f EXCEPT !.types = {"IS", "CF", "BS"}],
                 [f EXCEPT !.basis = "other"], [f EXCEPT !.blocked = TRUE], [f EXCEPT !.dims = ~f.dims],
                 [f EXCEPT !.concept = "Other"], [f EXCEPT !.filing = f.filing + 1],
                 [f EXCEPT !.value = -f.value], [f EXCEPT !.value = 0],
                 [f EXCEPT !.end = f.end + 7],
                 [f EXCEPT !.start = IF f.class = "FY" THEN f.start - 7 ELSE NoDay]}}

OneArc(r, a) ==
  {[r EXCEPT !.arcs = r.arcs \ {a}], [r EXCEPT !.arcs = (r.arcs \ {a}) \cup {[a EXCEPT !.weight = -1]}],
   [r EXCEPT !.arcs = (r.arcs \ {a}) \cup {[a EXCEPT !.role = "NOTE"]}]}

\* A whole year ends later or its balance sheet does, is labelled as the year
\* after, reports nothing but its segment, or conflicts throughout; every fact
\* declares a basis.
OneYear(r, y) ==
  {WithFacts(r, {IF f.fy = y THEN [f EXCEPT !.end = f.end + d] ELSE f : f \in r.facts}) : d \in {7, 28}}
  \cup {WithFacts(r, {IF f.fy = y /\ f.class = "INSTANT" THEN [f EXCEPT !.end = f.end + 7] ELSE f : f \in r.facts}),
        WithFacts(r, {IF f.fy = y THEN [f EXCEPT !.fy = y + 1] ELSE f : f \in r.facts}),
        WithFacts(r, {f \in r.facts : f.fy = y => f.dims}),
        WithFacts(r, {IF f.fy = y THEN [f EXCEPT !.resolved = FALSE] ELSE f : f \in r.facts}),
        WithFacts(r, {[f EXCEPT !.basis = "declared"] : f \in r.facts})}

FirstChanges(r) ==
  UNION {OneFact(r, f) : f \in r.facts} \cup UNION {OneArc(r, a) : a \in r.arcs}
  \cup UNION {OneYear(r, y) : y \in 1 .. 3}

\* With any of them: the last year changes as a whole or conflicts.
SecondChanges(r) == OneYear(r, 3)

CompanyChanges(r) == IF r = Company THEN FirstChanges(r) ELSE SecondChanges(r)

-----------------------------------------------------------------------------
(* The delivery                                                            *)

Companies == {"c1", "c2"}
None == "none"
NoFile == [state |-> "absent"]

Source(filing, id, fact, transform, text) ==
  [filing |-> filing, id |-> id, fact |-> fact, transform |-> transform, text |-> text,
   concept |-> "concept", context |-> "context"]
Month == Source("f1", "s1", "F1", "durmonth", "1")
Year == Source("f1", "s2", "F2", "duryear", "2")
Ungoverned == Source("f2", "s3", "F4", "durday", "4")
Mended(id, fact, sign) ==
  [filing |-> "f2", id |-> id, fact |-> fact, transform |-> "numwordsen", text |-> "nil", type |-> "monetary",
   element |-> "nonFraction", sign |-> sign, scale |-> None, concept |-> "concept", context |-> "context"]
NilZero == Mended("k1", "F3", "-")

Stored(fact, value, text, numeric) ==
  [fact |-> fact, context |-> "context", concept |-> "concept", value |-> value, text |-> text,
   numeric |-> numeric, nil |-> FALSE]
Text(fact, value) == Stored(fact, value, value, None)

Snapshot(facts) == [version |-> 1, parser |-> "v5", package |-> 1, facts |-> facts]
EvidenceFiles == {"sources", "records", "corrections", "binding"}

World ==
  [plans |-> [c \in Companies |-> IF c = "c1" THEN {"f1"} ELSE {"f2"}],
   planDigests |-> [c \in Companies |-> IF c = "c1" THEN {"f1"} ELSE {"f2"}],
   ingested |-> Companies, built |-> Companies, histories |-> [c \in Companies |-> 1],
   requested |-> 2, selected |-> 2, collection |-> 1, collected |-> [c \in Companies |-> "READY"],
   snapshots |-> "f1" :> Snapshot({Text("F1", "P1M"), Text("F2", "P2Y")})
              @@ "f2" :> Snapshot({Stored("F3", "-0", None, "-0"), Text("F4", "P4D")}),
   evidence |-> [e \in EvidenceFiles |-> 1],
   bound |-> [id |-> 1, collection |-> 1, filings |-> 2, of |-> [f \in {"f1", "f2"} |-> 1],
              primary |-> [f \in {"f1", "f2"} |-> 1], durations |-> {Month, Year}, corrections |-> {NilZero}],
   master |-> Companies, classified |-> Companies, digests |-> [h \in {1, 2} |-> 1],
   q4 |-> NoFile, quarterly |-> NoFile, annual |-> NoFile]

Analysis(companies, history, dates, reviewed) ==
  [state |-> "prepared", companies |-> companies, history |-> history, dates |-> dates, reviewed |-> reviewed,
   digest |-> 1, intact |-> TRUE]
Analyses(reviews) ==
  {NoFile} \cup {Analysis(cs, 1, 1, r) : cs \in {{"c1"}, {"c2"}, Companies}, r \in reviews}
    \cup {Analysis(Companies, h, t, r) : h \in {1, 2}, t \in {1, 2}, r \in reviews}
Reviewed(cs, id) == [state |-> "prepared", id |-> id, companies |-> cs, history |-> 1, dates |-> 1, complete |-> TRUE]

Inputs ==
  {World} \cup
  {[World EXCEPT !.q4 = q4, !.quarterly = quarterly, !.annual = yearly, !.collected["c2"] = state, !.classified = cs] :
     q4 \in {Reviewed({"c1"}, "q1"), Reviewed(Companies, "q1")}, quarterly \in Analyses({"q1", "q2"}), yearly \in Analyses({None, "q1"}),
     state \in {"READY", "RAW_COMPLETE", "BUILD_FAILED"}, cs \in {Companies, {"c1"}}}

Made(g, sources, wrong, mended, zero, state) ==
  LET Rows(s) == {row \in g.snapshots[s.filing].facts : row.fact = s.fact}
      Value(s) == IF s \in wrong \/ Rows(s) = {} THEN "other" ELSE (CHOOSE row \in Rows(s) : TRUE).value
      Said(s, v) == [source |-> s, expected |-> v, actual |-> v]
      Fixed(s) == [source |-> s, expected |-> zero, actual |-> zero, family |-> "nil zero", class |-> "monetary"]
      In(f) == {s \in sources : s.filing = f}
  IN [state |-> state, pins |-> g.evidence, packages |-> [expected |-> 2, verified |-> 2, missing |-> 0],
      scope |-> [collection |-> g.collection, requested |-> 2, selected |-> 2],
      checks |-> {[filing |-> f, mismatches |-> 0, package |-> g.snapshots[f].package, snapshot |-> g.snapshots[f].version,
                   primary |-> g.bound.primary[f], count |-> Cardinality(In(f))] : f \in {"f1", "f2"}},
      histories |-> g.histories, gates |-> TRUE, regression |-> TRUE, foreign |-> 0, verified |-> 1, commit |-> 1,
      examined |-> [t \in {"durday", "durmonth", "duryear", "durweek"} |-> Cardinality({s \in sources : s.transform = t})],
      binding |-> g.bound.id, index |-> [primary |-> g.bound.primary, facts |-> sources],
      records |-> {Said(s, Value(s)) : s \in sources},
      corrections |-> [index |-> mended, records |-> {Fixed(s) : s \in mended}]]

Assessments(g) ==
  IF g.q4 # NoFile THEN {Made(g, {}, {}, {}, "0", state) : state \in {"BLOCKED", "PENDING"}}
  ELSE {Made(g, sources, wrong, mended, zero, "PASS") :
          sources \in SUBSET {Month, Year, Ungoverned, [Month EXCEPT !.text = "3"]}, wrong \in {{}, {Month}},
          mended \in SUBSET {NilZero, Mended("k2", "F3", None)}, zero \in {"0", "-0"}}

Changes(g) ==
  IF g.q4 # NoFile
  THEN {[g EXCEPT !.q4.id = "q2"], [g EXCEPT !.digests[1] = 2], [g EXCEPT !.collected["c1"] = "RAW_COMPLETE"],
        [g EXCEPT !.annual = NoFile]}
  ELSE {[g EXCEPT !.collection = 2], [g EXCEPT !.bound.id = 2, !.bound.durations = {Month}],
        [g EXCEPT !.bound.id = 2, !.bound.of = [f \in {"f1", "f2"} |-> g.snapshots[f].version]],
        [g EXCEPT !.evidence["records"] = 2], [g EXCEPT !.histories["c1"] = 2], [g EXCEPT !.built = {"c1"}]}
       \cup {[g EXCEPT !.snapshots["f1"] = [version |-> 2, parser |-> parser, package |-> 1, facts |-> facts]] :
               parser \in {"v5", "v6"}, facts \in {{Text("F1", "P2M"), Text("F2", "P2Y")}, {Text("F2", "P2Y")},
                                                   g.snapshots["f1"].facts \cup {Text("F1", "P2M")}}}
       \cup {[g EXCEPT !.snapshots["f2"] = [@ EXCEPT !.version = 2, !.facts = {row}]] :
               row \in {Stored("F3", "-0", None, "0"), Stored("F3", "0", None, "0"), Stored("F3", "-0", "-0", "-0")}}
==============================================================================
