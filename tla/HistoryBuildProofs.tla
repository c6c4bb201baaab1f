------------------------- MODULE HistoryBuildProofs -------------------------
(***************************************************************************)
(* For every corpus, any number of outputs and any interruptions: what a   *)
(* build takes over from an earlier output is what it would have produced, *)
(* and a receipt names who made what it stands for.                        *)
(*                                                                         *)
(* Roots and reported panels carry no condition.  The cells of the quarter *)
(* panels do: DeltaIsFull needs a regular calendar.  A quarter derived     *)
(* before must not be one that the new filing tells or makes ambiguous,    *)
(* and an old amount must not wait for a new one to be subtracted from it. *)
(***************************************************************************)
EXTENDS HistoryBuild, TLAPS

-----------------------------------------------------------------------------
\* What the producers compute from.

LEMMA Periods ==
  /\ DOMAIN Partner = {"YTD_6M", "YTD_9M", "FY"}
  /\ DOMAIN DerivedQuarter = {"YTD_6M", "YTD_9M", "FY"}
  /\ Partner["YTD_6M"] = "QTD_3M" /\ Partner["YTD_9M"] = "YTD_6M" /\ Partner["FY"] = "YTD_9M"
  /\ DerivedQuarter["YTD_6M"] = 2 /\ DerivedQuarter["YTD_9M"] = 3 /\ DerivedQuarter["FY"] = 4
  /\ \A c \in {"YTD_6M", "YTD_9M", "FY"} : DerivedQuarter[c] \in 2 .. 4
BY DEF Partner, DerivedQuarter

\* What is known of an observation of a release.
Shaped(o, filings, release) ==
  /\ o = [line |-> o.line, column |-> o.column, start |-> o.start, end |-> o.end,
          src |-> o.src, map |-> Mapping(filings, release)]
  /\ o.src \in release
  /\ o.column = <<filings[o.src].year, filings[o.src].quarter, o.column[3]>>
  /\ Regular(filings, release) /\ o.column[3] \in DOMAIN DerivedQuarter =>
       o.column[2] = DerivedQuarter[o.column[3]]

LEMMA ObservationsAreShaped ==
  ASSUME NEW filings, NEW release, NEW o \in Observations(filings, release)
  PROVE  Shaped(o, filings, release)
<1> DEFINE M == Mapping(filings, release)
<1>1. PICK i \in release : o \in Observed(filings[i], i, M)
  BY DEF Observations
<1>2. PICK x \in Current(filings[i]) :
        o = [line |-> x.line, column |-> <<filings[i].year, filings[i].quarter, Class(filings[i], x)>>,
             start |-> x.start, end |-> x.end, src |-> i, map |-> M]
  BY <1>1 DEF Observed
<1>3. /\ o.column = <<filings[i].year, filings[i].quarter, Class(filings[i], x)>>
      /\ o.src = i /\ o.map = M
      /\ o = [line |-> o.line, column |-> o.column, start |-> o.start, end |-> o.end,
              src |-> o.src, map |-> M]
  BY <1>2
<1>4. o.column[2] = filings[i].quarter /\ o.column[3] = Class(filings[i], x)
  BY <1>3
<1>5. Regular(filings, release) /\ o.column[3] \in DOMAIN DerivedQuarter =>
        o.column[2] = DerivedQuarter[o.column[3]]
  BY <1>2, <1>4 DEF Regular
<1> QED BY <1>1, <1>3, <1>4, <1>5 DEF Shaped

\* One later filing that maps nothing differently adds its own observations.
LEMMA ObservationsAppend ==
  ASSUME NEW filings, NEW old, NEW n,
         Mapping(filings, old \cup {n}) = Mapping(filings, old)
  PROVE  Observations(filings, old \cup {n})
           = Observations(filings, old) \cup Observed(filings[n], n, Mapping(filings, old \cup {n}))
BY DEF Observations

\* The columns a filing tells, whatever the mapping is.
LEMMA ColumnsOfObserved ==
  ASSUME NEW f, NEW n, NEW m
  PROVE  Columns(Observed(f, n, m)) = Columns(Observed(f, n, {}))
<1>1. \A o \in Current(f) :
        /\ [line |-> o.line, column |-> <<f.year, f.quarter, Class(f, o)>>,
            start |-> o.start, end |-> o.end, src |-> n, map |-> m].column
             = <<f.year, f.quarter, Class(f, o)>>
        /\ [line |-> o.line, column |-> <<f.year, f.quarter, Class(f, o)>>,
            start |-> o.start, end |-> o.end, src |-> n, map |-> {}].column
             = <<f.year, f.quarter, Class(f, o)>>
  OBVIOUS
<1>2. Columns(Observed(f, n, m)) = {<<f.year, f.quarter, Class(f, o)>> : o \in Current(f)}
  BY <1>1 DEF Columns, Observed
<1>3. Columns(Observed(f, n, {})) = {<<f.year, f.quarter, Class(f, o)>> : o \in Current(f)}
  BY <1>1 DEF Columns, Observed
<1> QED BY <1>2, <1>3

\* A reported cell is one observation's, or says that its place has none.
LEMMA ReportedCell ==
  ASSUME NEW t1, NEW view, NEW asof, NEW c \in Reported(t1, view, asof)
  PROVE  /\ \E o \in Selected(t1, view) : c = Resolve(o, Selected(t1, view), asof)
         /\ c.status \in {"REPORTED", "UNAVAILABLE"}
         /\ c.column \in Columns(t1)
         /\ c.status = "REPORTED" =>
              \E o \in Selected(t1, view) :
                 /\ c = [line |-> o.line, column |-> o.column, status |-> "REPORTED",
                         start |-> o.start, end |-> o.end, srcs |-> {o.src}, map |-> o.map,
                         asof |-> asof]
                 /\ \A p \in Selected(t1, view) :
                      p.line = o.line /\ p.column = o.column => SamePeriod(o, p)
<1> DEFINE chosen == Selected(t1, view)
<1>1. PICK o \in chosen : c = Resolve(o, chosen, asof)
  BY DEF Reported
<1>2. o \in t1 BY DEF Selected
<1> DEFINE conflict == \E p \in chosen : p.line = o.line /\ p.column = o.column /\ ~SamePeriod(o, p)
<1>3. CASE conflict
  <2>1. c = [line |-> o.line, column |-> o.column, status |-> "UNAVAILABLE",
             start |-> 0, end |-> 0, srcs |-> {}, map |-> {}, asof |-> 0]
    BY <1>1, <1>3 DEF Resolve
  <2>2. c.status = "UNAVAILABLE" /\ c.column = o.column BY <2>1
  <2> QED BY <1>1, <1>2, <2>2 DEF Columns
<1>4. CASE ~conflict
  <2>1. c = [line |-> o.line, column |-> o.column, status |-> "REPORTED",
             start |-> o.start, end |-> o.end, srcs |-> {o.src}, map |-> o.map, asof |-> asof]
    BY <1>1, <1>4 DEF Resolve
  <2>2. c.status = "REPORTED" /\ c.column = o.column BY <2>1
  <2> QED BY <1>1, <1>2, <1>4, <2>1, <2>2 DEF Columns
<1> QED BY <1>3, <1>4

\* A place has one value at most.
LEMMA OnePerPlace ==
  ASSUME NEW filings, NEW release \in SUBSET Nat, NEW view, NEW asof,
         NEW c \in Reported(Observations(filings, release), view, asof),
         NEW d \in Reported(Observations(filings, release), view, asof),
         c.status = "REPORTED", d.status = "REPORTED",
         c.line = d.line, c.column = d.column
  PROVE  c = d
<1> DEFINE t1 == Observations(filings, release)
           chosen == Selected(t1, view)
           cell(o) == [line |-> o.line, column |-> o.column, status |-> "REPORTED",
                       start |-> o.start, end |-> o.end, srcs |-> {o.src}, map |-> o.map,
                       asof |-> asof]
<1>1. PICK o \in chosen :
        /\ c = cell(o)
        /\ \A q \in chosen : q.line = o.line /\ q.column = o.column => SamePeriod(o, q)
  BY ReportedCell
<1>2. PICK p \in chosen : d = cell(p)
  BY ReportedCell
<1>3. c.line = o.line /\ c.column = o.column /\ d.line = p.line /\ d.column = p.column
  BY <1>1, <1>2
<1>4. SamePeriod(o, p) /\ SamePeriod(p, o)
  BY <1>1, <1>3 DEF SamePeriod
<1>5. o \in t1 /\ p \in t1
  BY DEF Selected
<1>6. Shaped(o, filings, release) /\ Shaped(p, filings, release)
  BY <1>5, ObservationsAreShaped
<1>7. o.src \in Nat /\ p.src \in Nat
  BY <1>6 DEF Shaped
<1>8. o.src = p.src
  <2>1. CASE view = "AS_FILED"
    <3>1. o.src <= p.src /\ p.src <= o.src BY <1>4, <1>5, <2>1 DEF Selected
    <3> QED BY <3>1, <1>7
  <2>2. CASE view # "AS_FILED"
    <3>1. o.src <= p.src /\ p.src <= o.src BY <1>4, <1>5, <2>2 DEF Selected
    <3> QED BY <3>1, <1>7
  <2> QED BY <2>1, <2>2
<1>9. o = p
  BY <1>4, <1>6, <1>8 DEF Shaped, SamePeriod
<1> QED BY <1>1, <1>2, <1>9

-----------------------------------------------------------------------------
\* What the quarters are derived from.

\* The later amount and the earlier one, of themselves.
Subtracts(later, earlier) ==
  /\ later.column[3] \in DOMAIN Partner
  /\ SameScope(later, earlier)
  /\ earlier.column[1] = later.column[1]
  /\ earlier.column[3] = Partner[later.column[3]]
  /\ later.column[3] = "YTD_6M" => earlier.column[2] = 1
  /\ Subtractable(later, earlier)

\* The cells of a regular release.
Ordered(cells) ==
  \A c \in cells :
    /\ c.column = <<c.column[1], c.column[2], c.column[3]>>
    /\ c.column[3] \in DOMAIN DerivedQuarter => c.column[2] = DerivedQuarter[c.column[3]]
Single(cells) ==
  \A c, d \in cells : c.line = d.line /\ c.column = d.column => c = d

LEMMA ReportedIsOrdered ==
  ASSUME NEW filings, NEW release \in SUBSET Nat, NEW view, NEW asof, Regular(filings, release)
  PROVE  LET cells == Reported(Observations(filings, release), view, asof)
         IN Ordered(cells) /\ Single(AdditiveOf(cells))
<1> DEFINE t1 == Observations(filings, release)
           cells == Reported(t1, view, asof)
<1>1. Single(AdditiveOf(cells))
  BY OnePerPlace DEF Single, AdditiveOf, ApprovedAdditive
<1>2. ASSUME NEW c \in cells
      PROVE  /\ c.column = <<c.column[1], c.column[2], c.column[3]>>
             /\ c.column[3] \in DOMAIN DerivedQuarter => c.column[2] = DerivedQuarter[c.column[3]]
  <2>1. PICK o \in t1 : c.column = o.column
    BY ReportedCell DEF Columns
  <2>2. Shaped(o, filings, release)
    BY ObservationsAreShaped
  <2> QED BY <2>1, <2>2 DEF Shaped
<1> QED BY <1>1, <1>2 DEF Ordered

\* In a regular release the one candidate of each side needs no counting.
LEMMA PairsSubtract ==
  ASSUME NEW A, Ordered(A), Single(A)
  PROVE  Pairs(A) = {p \in A \X A : Subtracts(p[1], p[2])}
<1>1. ASSUME NEW p \in A \X A, p \in Pairs(A)
      PROVE  Subtracts(p[1], p[2])
  <2>1. /\ p[1].column[3] \in DOMAIN Partner /\ Partners(p[1], A) = {p[2]}
        /\ Subtractable(p[1], p[2])
    BY <1>1 DEF Pairs
  <2>2. p[2] \in Partners(p[1], A) BY <2>1
  <2> QED BY <2>1, <2>2 DEF Partners, Subtracts
<1>2. ASSUME NEW p \in A \X A, Subtracts(p[1], p[2])
      PROVE  p \in Pairs(A)
  <2> DEFINE later == p[1]
             earlier == p[2]
  <2>1. later \in A /\ earlier \in A OBVIOUS
  <2>2. later.column[3] \in {"YTD_6M", "YTD_9M", "FY"}
    BY <1>2, Periods DEF Subtracts
  <2>3. ASSUME NEW d \in Choices(later, A) PROVE d = later
    <3>1. d \in A /\ d.line = later.line /\ d.column[1] = later.column[1] /\ d.column[3] = later.column[3]
      BY DEF Choices, SameScope
    <3>2. d.column[2] = later.column[2]
      BY <2>1, <2>2, <3>1, Periods DEF Ordered
    <3>3. d.column = later.column
      BY <2>1, <3>1, <3>2 DEF Ordered
    <3> QED BY <2>1, <3>1, <3>3 DEF Single
  <2>4. later \in Choices(later, A)
    BY <2>1 DEF Choices, SameScope
  <2>5. earlier \in Partners(later, A)
    BY <1>2, <2>1 DEF Partners, Subtracts
  <2>6. ASSUME NEW d \in Partners(later, A) PROVE d = earlier
    <3>1. /\ d \in A /\ d.line = earlier.line /\ d.column[1] = earlier.column[1]
          /\ d.column[3] = earlier.column[3] /\ d.column[3] = Partner[later.column[3]]
      BY <2>5 DEF Partners, SameScope
    <3>2. d.column[2] = earlier.column[2]
      <4>1. CASE later.column[3] = "YTD_6M" BY <4>1, <2>5 DEF Partners
      <4>2. CASE later.column[3] = "YTD_9M" BY <4>2, <2>1, <3>1, Periods DEF Ordered
      <4>3. CASE later.column[3] = "FY" BY <4>3, <2>1, <3>1, Periods DEF Ordered
      <4> QED BY <2>2, <4>1, <4>2, <4>3
    <3>3. d.column = earlier.column
      BY <2>1, <3>1, <3>2 DEF Ordered
    <3> QED BY <2>1, <3>1, <3>3 DEF Single
  <2>7. Choices(later, A) = {later} BY <2>3, <2>4
  <2>8. Partners(later, A) = {earlier} BY <2>5, <2>6
  <2> QED BY <1>2, <2>7, <2>8 DEF Pairs, Subtracts
<1>3. Pairs(A) \subseteq A \X A BY DEF Pairs
<1> QED BY <1>1, <1>2, <1>3

\* So what is derived from some of the cells is derived from all of them.
LEMMA DerivedFrom ==
  ASSUME NEW A, NEW taken, Ordered(A), Single(A), HasQuarters({p[2] : p \in taken})
  PROVE  \A d : d \in Derived(A, taken) <=>
           /\ Place(d) \notin taken
           /\ \E later, earlier \in A : Subtracts(later, earlier) /\ d = Derive(later, earlier)
<1>1. Derived(A, taken) = {d \in {Derive(p[1], p[2]) : p \in Pairs(A)} : Place(d) \notin taken}
  BY DEF Derived
<1>2. Pairs(A) = {p \in A \X A : Subtracts(p[1], p[2])}
  BY PairsSubtract
<1>3. ASSUME NEW later \in A, NEW earlier \in A, Subtracts(later, earlier)
      PROVE  Derive(later, earlier) \in {Derive(p[1], p[2]) : p \in Pairs(A)}
  <2>1. <<later, earlier>> \in Pairs(A)
    BY <1>2, <1>3
  <2>2. <<later, earlier>>[1] = later /\ <<later, earlier>>[2] = earlier OBVIOUS
  <2> QED BY <2>1, <2>2
<1>4. ASSUME NEW d \in {Derive(p[1], p[2]) : p \in Pairs(A)}
      PROVE  \E later, earlier \in A : Subtracts(later, earlier) /\ d = Derive(later, earlier)
  BY <1>2, <1>4
<1> QED BY <1>1, <1>3, <1>4

-----------------------------------------------------------------------------
\* The cell delta.

LEMMA PlacesAndColumns ==
  ASSUME NEW cells
  PROVE  /\ {p[2] : p \in Places(cells)} = Columns(cells)
         /\ \A c \in cells : Place(c) \in Places(cells)
<1>1. \A c \in cells : Place(c)[2] = c.column BY DEF Place
<1> QED BY <1>1 DEF Places, Columns

LEMMA TableColumns ==
  ASSUME NEW filings, NEW release, NEW cells
  PROVE  LET held == Columns(cells)
             listed == held \cup IF HasQuarters(held) THEN Expected(filings, release) ELSE {}
             table == ColumnTable(filings, release, cells)
         IN /\ \A r \in table : r.column \in listed
            /\ \A c \in listed : \E r \in table : r.column = c
<1> DEFINE held == Columns(cells)
           listed == held \cup IF HasQuarters(held) THEN Expected(filings, release) ELSE {}
           bounds(c) == {<<x.start, x.end>> : x \in {y \in cells : y.column = c}}
           annual(c) == /\ c \notin held /\ c[2] = 4
                        /\ \E i \in release : filings[i].year = c[1] /\ filings[i].form = "10-K"
           row(c) == [column |-> c, bounds |-> bounds(c), annual |-> annual(c)]
<1>1. ColumnTable(filings, release, cells) = {row(c) : c \in listed}
  BY DEF ColumnTable
<1>2. \A c : row(c).column = c
  OBVIOUS
<1> HIDE DEF row, listed
<1>3. /\ \A r \in ColumnTable(filings, release, cells) : r.column \in listed
      /\ \A c \in listed : \E r \in ColumnTable(filings, release, cells) : r.column = c
  BY <1>1, <1>2
<1> QED BY <1>3 DEF listed

LEMMA DeriveFields ==
  ASSUME NEW later, NEW earlier
  PROVE  LET d == Derive(later, earlier)
         IN /\ d.status = "DERIVED"
            /\ d.column = <<later.column[1], DerivedQuarter[later.column[3]], "QTD_3M">>
            /\ Place(d) = <<later.line, d.column>>
BY DEF Derive, Place

\* What a full build publishes keeps its direct cells apart from the others.
LEMMA FullParts ==
  ASSUME NEW cells, \A c \in cells : c.status \in {"REPORTED", "UNAVAILABLE"}
  PROVE  /\ Direct(Full(cells)) = cells
         /\ PriorDerived(Full(cells)) = Derived(AdditiveOf(cells), Places(cells))
<1>1. ASSUME NEW d \in Derived(AdditiveOf(cells), Places(cells)) PROVE d.status = "DERIVED"
  BY DeriveFields DEF Derived
<1> QED BY <1>1 DEF Direct, PriorDerived, Full

LEMMA SinglePart ==
  ASSUME NEW cells, NEW part \in SUBSET cells, Ordered(cells), Single(AdditiveOf(cells))
  PROVE  /\ Ordered(AdditiveOf(part)) /\ Single(AdditiveOf(part))
         /\ AdditiveOf(part) \subseteq AdditiveOf(cells) /\ AdditiveOf(part) \subseteq part
BY DEF Ordered, Single, AdditiveOf

\* Reusing the cells of the previous publication and deriving only what the
\* new filing's cells allow gives what the full producer gives.
LEMMA DeltaIsFull ==
  ASSUME NEW filings, NEW old \in SUBSET Nat, NEW n \in Nat, \A i \in old : i < n,
         NEW view, NEW asof, NEW before, NEW now, NEW keys,
         Regular(filings, old \cup {n}),
         Mapping(filings, old \cup {n}) = Mapping(filings, old),
         before.cells = Reported(Observations(filings, old), view, asof),
         before.table = ColumnTable(filings, old, before.cells),
         now.cells = Reported(Observations(filings, old \cup {n}), view, asof),
         now.table = ColumnTable(filings, old \cup {n}, now.cells),
         keys = Columns(Observed(filings[n], n, {})),
         FastInputProven(Columns(Observations(filings, old)), keys, filings[n]),
         DeltaProven(before, now, Full(before.cells), keys)
  PROVE  Delta(before, now, Full(before.cells), keys) = Full(now.cells)
<1> DEFINE all == old \cup {n}
           B == before.cells
           C == now.cells
           suffix == Suffix(before, now)
           year == filings[n].year
           quarter == filings[n].quarter
<1>1. /\ \A c \in B : c.status \in {"REPORTED", "UNAVAILABLE"} /\ c.column \in Columns(Observations(filings, old))
      /\ \A c \in C : c.status \in {"REPORTED", "UNAVAILABLE"} /\ c.column \in Columns(Observations(filings, all))
  BY ReportedCell
<1>2. Ordered(C) /\ Single(AdditiveOf(C))
  BY ReportedIsOrdered
<1>3. C = B \cup suffix /\ B \cap suffix = {} /\ suffix \subseteq C
  BY DEF DeltaProven, Suffix
<1>4. \A c \in suffix : c.column \in keys
  BY DEF DeltaProven, Suffix
<1>5. \A c \in B : c.column \notin keys
  BY <1>1 DEF FastInputProven
<1>6. ASSUME NEW k \in keys PROVE k[1] = year /\ k[2] = quarter
  <2>1. PICK o \in Observed(filings[n], n, {}) : k = o.column BY DEF Columns
  <2>2. PICK x \in Current(filings[n]) : o.column = <<year, quarter, Class(filings[n], x)>>
    BY DEF Observed
  <2> QED BY <2>1, <2>2
<1>7. ASSUME NEW c \in B
      PROVE  \E i \in old : c.column[1] = filings[i].year /\ c.column[2] = filings[i].quarter
  <2>1. PICK o \in Observations(filings, old) : c.column = o.column
    BY <1>1 DEF Columns
  <2>2. PICK i \in old : o \in Observed(filings[i], i, Mapping(filings, old))
    BY DEF Observations
  <2>3. PICK x \in Current(filings[i]) : o.column = <<filings[i].year, filings[i].quarter, Class(filings[i], x)>>
    BY <2>2 DEF Observed
  <2> QED BY <2>1, <2>3
\* No earlier report is about the quarter of the new one, or a later quarter.
<1>8. ASSUME NEW c \in B
      PROVE  /\ c.column[1] \in Nat /\ c.column[2] \in 1 .. 4 /\ year \in Nat /\ quarter \in 1 .. 4
             /\ c.column[1] < year \/ (c.column[1] = year /\ c.column[2] < quarter)
  <2>1. PICK i \in old : c.column[1] = filings[i].year /\ c.column[2] = filings[i].quarter
    BY <1>7
  <2>2. i \in all /\ n \in all /\ i < n /\ filings[n].form = "10-Q"
    BY DEF FastInputProven
  <2> QED BY <2>1, <2>2 DEF Regular
<1>9. /\ \A c \in AdditiveOf(C) : c \in C
      /\ AdditiveOf(C) = AdditiveOf(B) \cup AdditiveOf(suffix)
      /\ AdditiveOf(B) \subseteq B /\ AdditiveOf(suffix) \subseteq suffix
  BY <1>3 DEF AdditiveOf
<1> DEFINE D == Derived(AdditiveOf(C), Places(C))
           D0 == Derived(AdditiveOf(B), Places(B))
           source == suffix \cup {c \in B : c.column \in PartnerColumns(keys)}
           F == Derived(AdditiveOf(source), Places(C))
<1>10. Delta(before, now, Full(B), keys) = C \cup D0 \cup F
  <2>1. Direct(Full(B)) = B /\ PriorDerived(Full(B)) = D0
    BY <1>1, FullParts
  <2>2. Fresh(before, now, Full(B), keys) = F
    BY <1>3, <2>1 DEF Fresh
  <2> QED BY <1>3, <2>1, <2>2 DEF Delta, MergedDerived
<1>11. D = D0 \cup F
  <2>1. CASE ~HasQuarters(Columns(C))
    <3>1. ~HasQuarters(Columns(B))
      BY <1>3, <2>1 DEF HasQuarters, Columns
    <3>2. D = {} /\ F = {} /\ D0 = {}
      BY <2>1, <3>1, PlacesAndColumns DEF Derived
    <3> QED BY <3>2
  <2>2. CASE HasQuarters(Columns(C))
    <3> HIDE DEF D, D0, F, source
    <3>1. \A d : d \in D <=>
            /\ Place(d) \notin Places(C)
            /\ \E later, earlier \in AdditiveOf(C) : Subtracts(later, earlier) /\ d = Derive(later, earlier)
      <4>1. Ordered(AdditiveOf(C)) /\ Single(AdditiveOf(C)) BY <1>2, SinglePart
      <4>2. HasQuarters({p[2] : p \in Places(C)}) BY <2>2, PlacesAndColumns
      <4> QED BY <4>1, <4>2, DerivedFrom DEF D
    <3>2. \A d : d \in F <=>
            /\ Place(d) \notin Places(C)
            /\ \E later, earlier \in AdditiveOf(source) : Subtracts(later, earlier) /\ d = Derive(later, earlier)
      <4>1. source \subseteq C BY <1>3 DEF source
      <4>2. Ordered(AdditiveOf(source)) /\ Single(AdditiveOf(source)) BY <1>2, <4>1, SinglePart
      <4>3. HasQuarters({p[2] : p \in Places(C)}) BY <2>2, PlacesAndColumns
      <4> QED BY <4>2, <4>3, DerivedFrom DEF F
    <3>3. HasQuarters(Columns(B)) =>
          \A d : d \in D0 <=>
            /\ Place(d) \notin Places(B)
            /\ \E later, earlier \in AdditiveOf(B) : Subtracts(later, earlier) /\ d = Derive(later, earlier)
      <4>1. Ordered(AdditiveOf(B)) /\ Single(AdditiveOf(B)) BY <1>2, <1>3, SinglePart
      <4> QED BY <4>1, DerivedFrom, PlacesAndColumns DEF D0
    <3>4. ~HasQuarters(Columns(B)) => D0 = {}
      BY PlacesAndColumns DEF D0, Derived
    <3>5. AdditiveOf(source) \subseteq AdditiveOf(C)
      BY <1>3 DEF AdditiveOf, source
    <3>6. F \subseteq D BY <3>1, <3>2, <3>5
    \* An old quarter stands before the new filing's.
    <3>7. D0 \subseteq D
      <4> SUFFICES ASSUME NEW d \in D0 PROVE d \in D OBVIOUS
      <4>1. HasQuarters(Columns(B)) BY <3>4
      <4>2. PICK later, earlier \in AdditiveOf(B) : Subtracts(later, earlier) /\ d = Derive(later, earlier)
        BY <3>3, <4>1
      <4>3. Place(d) \notin Places(B) BY <3>3, <4>1
      <4>4. later \in B /\ later \in C BY <1>3, <1>9
      <4>5. later.column[3] \in DOMAIN DerivedQuarter BY <4>2, Periods DEF Subtracts
      <4>6. d.column[1] = later.column[1] /\ d.column[2] = later.column[2]
        <5>1. d.column = <<later.column[1], DerivedQuarter[later.column[3]], "QTD_3M">>
          BY <4>2, DeriveFields
        <5>2. later.column[2] = DerivedQuarter[later.column[3]]
          BY <1>2, <4>4, <4>5 DEF Ordered
        <5> QED BY <5>1, <5>2
      <4>7. ASSUME NEW c \in suffix, Place(c) = Place(d) PROVE FALSE
        <5>1. c.column = d.column BY <4>7 DEF Place
        <5>2. c.column[1] = year /\ c.column[2] = quarter BY <1>4, <1>6
        <5>3. later.column[1] = year /\ later.column[2] = quarter BY <4>6, <5>1, <5>2
        <5> QED BY <1>8, <4>4, <5>3
      <4>8. Place(d) \notin Places(C) BY <1>3, <4>3, <4>7 DEF Places
      <4> QED BY <1>9, <3>1, <4>2, <4>8
    <3>8. D \subseteq D0 \cup F
      <4> SUFFICES ASSUME NEW d \in D PROVE d \in D0 \cup F OBVIOUS
      <4>1. PICK later, earlier \in AdditiveOf(C) : Subtracts(later, earlier) /\ d = Derive(later, earlier)
        BY <3>1
      <4>2. Place(d) \notin Places(C) BY <3>1
      <4>3. later \in C /\ earlier \in C BY <1>9
      <4>4. /\ later.column[3] \in {"YTD_6M", "YTD_9M", "FY"}
            /\ later.column[2] = DerivedQuarter[later.column[3]]
            /\ earlier.column = <<later.column[1], DerivedQuarter[later.column[3]] - 1, Partner[later.column[3]]>>
        <5>1. later.column[3] \in {"YTD_6M", "YTD_9M", "FY"} BY <4>1, Periods DEF Subtracts
        <5>2. later.column[2] = DerivedQuarter[later.column[3]] BY <1>2, <4>3, <5>1, Periods DEF Ordered
        <5>3. earlier.column[2] = DerivedQuarter[later.column[3]] - 1
          <6>1. CASE later.column[3] = "YTD_6M" BY <4>1, <6>1, Periods DEF Subtracts
          <6>2. CASE later.column[3] = "YTD_9M"
            <7>1. earlier.column[3] = "YTD_6M" BY <4>1, <6>2, Periods DEF Subtracts
            <7>2. earlier.column[2] = DerivedQuarter["YTD_6M"] BY <1>2, <4>3, <7>1, Periods DEF Ordered
            <7> QED BY <6>2, <7>2, Periods
          <6>3. CASE later.column[3] = "FY"
            <7>1. earlier.column[3] = "YTD_9M" BY <4>1, <6>3, Periods DEF Subtracts
            <7>2. earlier.column[2] = DerivedQuarter["YTD_9M"] BY <1>2, <4>3, <7>1, Periods DEF Ordered
            <7> QED BY <6>3, <7>2, Periods
          <6> QED BY <5>1, <6>1, <6>2, <6>3
        <5> QED BY <1>2, <4>1, <4>3, <5>1, <5>2, <5>3 DEF Subtracts, Ordered
      <4>5. CASE later \in AdditiveOf(suffix) /\ earlier \in AdditiveOf(suffix)
        BY <3>2, <4>1, <4>2, <4>5, <1>9 DEF source, AdditiveOf
      <4>6. CASE later \in AdditiveOf(suffix) /\ earlier \in AdditiveOf(B)
        <5>1. later.column \in keys BY <1>4, <1>9, <4>6
        <5>2. earlier.column \in PartnerColumns(keys)
          BY <4>4, <5>1, Periods DEF PartnerColumns
        <5>3. later \in AdditiveOf(source) /\ earlier \in AdditiveOf(source)
          BY <4>6, <5>2 DEF AdditiveOf, source
        <5> QED BY <3>2, <4>1, <4>2, <5>3
      \* No old amount is later than a new one.
      <4>7. CASE later \in AdditiveOf(B) /\ earlier \in AdditiveOf(suffix)
        <5>1. earlier.column[1] = year /\ earlier.column[2] = quarter BY <1>4, <1>6, <1>9, <4>7
        <5>2. later \in B BY <1>9, <4>7
        <5>3. later.column[1] = year /\ quarter = later.column[2] - 1 BY <4>4, <5>1
        <5> QED BY <1>8, <5>2, <5>3
      <4>8. CASE later \in AdditiveOf(B) /\ earlier \in AdditiveOf(B)
        <5>1. Place(d) \notin Places(B) BY <1>3, <4>2 DEF Places
        <5>2. CASE HasQuarters(Columns(B)) BY <3>3, <4>1, <4>8, <5>1, <5>2
        \* The first table of quarters would have to be all new.
        <5>3. CASE ~HasQuarters(Columns(B))
          <6>1. later \in B BY <1>9, <4>8
          <6>2. PICK i \in old : later.column[1] = filings[i].year /\ later.column[2] = filings[i].quarter
            BY <1>7, <6>1
          <6>3. filings[i].quarter \in 2 .. 4
            BY <4>4, <6>2, Periods
          <6>4. ASSUME NEW q \in {1, 2}
                PROVE  <<filings[i].year, q, "QTD_3M">> \in AddedColumns(before, now)
            <7> DEFINE column == <<filings[i].year, q, "QTD_3M">>
            <7>1. column \in Expected(filings, all) BY <6>3 DEF Expected
            <7>2. PICK r \in now.table : r.column = column
              BY <2>2, <7>1, TableColumns
            <7>3. column[3] = "QTD_3M" OBVIOUS
            <7>4. column \notin Columns(B) BY <5>3, <7>3 DEF HasQuarters
            <7>5. ASSUME NEW s \in before.table PROVE s.column \in Columns(B)
              BY <5>3, TableColumns
            <7>6. r \notin before.table BY <7>2, <7>4, <7>5
            <7> QED BY <7>2, <7>6 DEF AddedColumns
          <6>5. \A q \in {1, 2} : <<filings[i].year, q, "QTD_3M">> \in keys
            BY <6>4 DEF DeltaProven
          <6>6. \A q \in {1, 2} : q = quarter BY <6>5, <1>6
          <6> QED BY <6>6
        <5> QED BY <5>2, <5>3
      <4> QED BY <1>9, <4>1, <4>5, <4>6, <4>7, <4>8
    <3> QED BY <3>6, <3>7, <3>8
  <2> QED BY <2>1, <2>2
<1>12. Full(C) = C \cup D BY DEF Full
<1> QED BY <1>10, <1>11, <1>12

-----------------------------------------------------------------------------
\* The tables of the period classes that a filing does not tell are those of
\* the release before it.
LEMMA CopiedIsReported ==
  ASSUME NEW filings, NEW old, NEW n, NEW view, NEW asof, NEW copied,
         Mapping(filings, old \cup {n}) = Mapping(filings, old),
         \A k \in Columns(Observed(filings[n], n, {})) : k[3] \notin copied
  PROVE  \A c : c.column[3] \in copied =>
           (c \in Reported(Observations(filings, old \cup {n}), view, asof)
              <=> c \in Reported(Observations(filings, old), view, asof))
<1> DEFINE T == Observations(filings, old \cup {n})
           T0 == Observations(filings, old)
           added == Observed(filings[n], n, Mapping(filings, old \cup {n}))
           all == Reported(T, view, asof)
           before == Reported(T0, view, asof)
<1>1. T = T0 \cup added
  BY ObservationsAppend
<1>2. \A o \in added : o.column[3] \notin copied
  <2>1. Columns(added) = Columns(Observed(filings[n], n, {}))
    BY ColumnsOfObserved
  <2> QED BY <2>1 DEF Columns
<1> HIDE DEF T, T0, added
<1>3. \A o : o.column[3] \in copied => (o \in Selected(T, view) <=> o \in Selected(T0, view))
  BY <1>1, <1>2 DEF Selected, SamePeriod
<1>4. ASSUME NEW o, o.column[3] \in copied
      PROVE  Resolve(o, Selected(T, view), asof) = Resolve(o, Selected(T0, view), asof)
  <2>1. (\E p \in Selected(T, view) : p.line = o.line /\ p.column = o.column /\ ~SamePeriod(o, p))
        <=> (\E p \in Selected(T0, view) : p.line = o.line /\ p.column = o.column /\ ~SamePeriod(o, p))
    BY <1>3, <1>4
  <2> QED BY <2>1 DEF Resolve
<1>5. \A o, chosen : Resolve(o, chosen, asof).column = o.column
  BY DEF Resolve
<1>6. \A c \in all : c.column[3] \in copied => c \in before
  BY <1>3, <1>4, <1>5 DEF Reported
<1>7. \A c \in before : c.column[3] \in copied => c \in all
  BY <1>3, <1>4, <1>5 DEF Reported
<1> QED BY <1>6, <1>7 DEF T, T0

-----------------------------------------------------------------------------
\* What stands at an output root, and what a running build relies on.

RootCells(w) == Reported(Observations(Filings, w.release), corpus.view, w.asof)
ReportedPanels(w) == [built |-> TRUE, cells |-> RootCells(w),
                      table |-> ColumnTable(Filings, w.release, RootCells(w))]

RootFields == {"release", "asof", "roots", "t1", "reported", "panels", "by", "receipt"}
JobFields == {"pc", "o", "prev", "append", "isolated"}

RootHolds(w) ==
  /\ w = [x \in RootFields |-> w[x]]
  /\ \/ w.release = {} /\ w.asof = 0 /\ w.roots = 0
     \/ w.release # {} /\ \E i \in Intakes : w.release = i.release /\ w.asof = i.asof
  /\ w.roots \in 0 .. 4
  /\ w.roots > 0 => w.t1 = Observations(Filings, w.release)
  /\ w.reported = NoPanels \/ (w.roots = 4 /\ w.reported = ReportedPanels(w))
  /\ \/ w.panels = NoPanels
     \/ /\ w.panels = [built |-> TRUE, cells |-> w.panels.cells, table |-> {}]
        /\ w.reported = ReportedPanels(w)
        /\ RegularCorpora => w.panels.cells = Full(RootCells(w))
  /\ w.receipt = 0 \/ (w.panels # NoPanels /\ w.by = {w.receipt})

\* The append that was proven when it began is still proven, and what it made
\* so far was made by the code on disk.
Appending(j) ==
  /\ j.prev \in Outputs \ {j.o}
  /\ out[j.prev].panels # NoPanels
  /\ ExactSuffix(j.prev, out[j.o].release)
  /\ Mapping(Filings, out[j.o].release) = Mapping(Filings, out[j.prev].release)
  /\ IF out[j.o].roots = 0 THEN Evidence(j.prev) ELSE out[j.o].by = {code}

JobHolds ==
  \/ job = Idle
  \/ /\ job = [x \in JobFields |-> job[x]]
     /\ job.o \in Outputs /\ out[job.o].release # {} /\ job.append \in BOOLEAN
     /\ job.append => Appending(job)
     /\ \/ job.pc = "roots" /\ out[job.o].reported = NoPanels
        \/ job.pc = "quarters" /\ out[job.o].reported # NoPanels /\ out[job.o].panels = NoPanels
        \/ job.pc = "receipt" /\ out[job.o].panels # NoPanels /\ job.append

BuildInv ==
  /\ corpus \in Corpora
  /\ out = [o \in Outputs |-> out[o]]
  /\ \A o \in Outputs : RootHolds(out[o])
  /\ JobHolds

-----------------------------------------------------------------------------
\* Each step writes at one output root.

LEMMA PanelsStand ==
  ASSUME NEW w, RootHolds(w)
  PROVE  /\ w.reported.built <=> w.reported # NoPanels
         /\ w.panels.built <=> w.panels # NoPanels
         /\ w.reported # NoPanels => w.roots = 4 /\ w.reported = ReportedPanels(w)
         /\ w.panels # NoPanels => w.reported # NoPanels
         /\ w.reported = NoPanels => w.receipt = 0
         /\ w.roots \in 0 .. 4
<1>1. ReportedPanels(w).built = TRUE /\ NoPanels.built = FALSE
  BY DEF ReportedPanels, NoPanels
<1>2. ReportedPanels(w) # NoPanels
  BY <1>1
<1>3. w.reported = NoPanels \/ (w.roots = 4 /\ w.reported = ReportedPanels(w))
  BY DEF RootHolds
<1>4. \/ w.panels = NoPanels
      \/ w.panels = [built |-> TRUE, cells |-> w.panels.cells, table |-> {}] /\ w.reported = ReportedPanels(w)
  BY DEF RootHolds
<1>5. w.receipt = 0 \/ w.panels # NoPanels
  BY DEF RootHolds
<1>6. w.roots \in 0 .. 4
  BY DEF RootHolds
<1>7. w.panels # NoPanels => w.panels.built = TRUE
  BY <1>4
<1> QED BY <1>1, <1>2, <1>3, <1>4, <1>5, <1>6, <1>7

LEMMA OneRootWritten ==
  ASSUME BuildInv, NEW o \in Outputs, NEW w, RootHolds(w),
         out' = [out EXCEPT ![o] = w], corpus' = corpus
  PROVE  /\ corpus' \in Corpora /\ (out = [p \in Outputs |-> out[p]])'
         /\ \A p \in Outputs : RootHolds(out[p])'
         /\ out'[o] = w /\ \A p \in Outputs \ {o} : out'[p] = out[p]
<1>1. DOMAIN out = Outputs BY DEF BuildInv
<1>2. out'[o] = w /\ \A p \in Outputs \ {o} : out'[p] = out[p]
  BY <1>1
<1>3. \A p \in Outputs : RootHolds(out'[p])
  BY <1>2 DEF BuildInv
<1>4. ASSUME NEW p \in Outputs PROVE RootHolds(out[p])'
  <2>1. RootHolds(out'[p]) BY <1>3
  <2>2. /\ RootCells(out[p])' = RootCells(out'[p])
        /\ ReportedPanels(out[p])' = ReportedPanels(out'[p])
        /\ Observations(Filings, out[p].release)' = Observations(Filings, out'[p].release)
    BY DEF RootCells, ReportedPanels, Filings
  <2> QED BY <2>1, <2>2 DEF RootHolds
<1>5. (out = [p \in Outputs |-> out[p]])'
  BY <1>1
<1> QED BY <1>2, <1>4, <1>5 DEF BuildInv

LEMMA NothingWritten ==
  ASSUME BuildInv, out' = out, corpus' = corpus
  PROVE  /\ corpus' \in Corpora /\ (out = [p \in Outputs |-> out[p]])'
         /\ \A p \in Outputs : RootHolds(out[p])'
BY DEF BuildInv, RootHolds, RootCells, ReportedPanels, Filings

-----------------------------------------------------------------------------
\* The actions.

LEMMA InitHolds == Init => BuildInv
<1> SUFFICES ASSUME Init PROVE BuildInv OBVIOUS
<1>1. \A o \in Outputs : out[o] = NewRoot
  BY DEF Init
<1>2. RootHolds(NewRoot)
  BY DEF RootHolds, NewRoot, RootFields
<1>3. out = [o \in Outputs |-> out[o]]
  BY DEF Init
<1> QED BY <1>1, <1>2, <1>3 DEF Init, BuildInv, JobHolds

\* Beginning at a root leaves what stands there, and its intake.
LEMMA BeginHolds ==
  ASSUME BuildInv, NEW o \in Outputs, NEW release, NEW asof, NEW j,
         Begin(o, release, asof, j), release # {},
         \/ out[o].release = release /\ out[o].asof = asof
         \/ /\ out[o].release \in {{}, release} /\ out[o].asof \in {0, asof}
            /\ \E i \in Intakes : release = i.release /\ asof = i.asof
  PROVE  /\ corpus' \in Corpora /\ (out = [p \in Outputs |-> out[p]])'
         /\ \A p \in Outputs : RootHolds(out[p])'
         /\ out'[o].release = release
         /\ out'[o].roots = out[o].roots /\ out'[o].by = out[o].by
         /\ out'[o].reported = out[o].reported /\ out'[o].panels = out[o].panels
         /\ \A p \in Outputs \ {o} : out'[p] = out[p]
         /\ UNCHANGED <<corpus, code, approved>> /\ job' = j
<1> DEFINE v == out[o]
           w == [v EXCEPT !.release = release, !.asof = asof]
<1>1. RootHolds(v) BY DEF BuildInv
<1>2. /\ w = [x \in RootFields |-> w[x]]
      /\ w.release = release /\ w.asof = asof /\ w.roots = v.roots /\ w.t1 = v.t1
      /\ w.reported = v.reported /\ w.panels = v.panels /\ w.by = v.by /\ w.receipt = v.receipt
  BY <1>1 DEF RootHolds, RootFields
<1>3. out' = [out EXCEPT ![o] = w]
  BY DEF Begin, BuildInv
<1> HIDE DEF w
<1>4. RootHolds(w)
  <2>1. CASE v.release = release /\ v.asof = asof
    BY <1>1, <1>2, <2>1 DEF RootHolds, ReportedPanels, RootCells
  <2>2. CASE /\ v.release \in {{}, release} /\ v.asof \in {0, asof}
             /\ \E i \in Intakes : release = i.release /\ asof = i.asof
    <3>1. CASE v.release = {}
      <4>1. v.roots = 0 BY <1>1, <3>1 DEF RootHolds
      <4>2. v.reported = NoPanels /\ v.panels = NoPanels /\ v.receipt = 0
        BY <1>1, <4>1, PanelsStand
      <4> QED BY <1>2, <2>2, <4>1, <4>2 DEF RootHolds
    <3>2. CASE v.release # {}
      <4>1. v.asof # 0 BY <1>1, <3>2, BuildAssumption DEF RootHolds
      <4>2. v.release = release /\ v.asof = asof BY <2>2, <3>2, <4>1
      <4> QED BY <1>1, <1>2, <4>2 DEF RootHolds, ReportedPanels, RootCells
    <3> QED BY <3>1, <3>2
  <2> QED BY <2>1, <2>2
<1>5. corpus' = corpus /\ UNCHANGED <<corpus, code, approved>> /\ job' = j BY DEF Begin
<1> QED BY <1>2, <1>3, <1>4, <1>5, OneRootWritten

LEMMA StartAppendHolds ==
  ASSUME BuildInv, NEW o \in Outputs, NEW i \in Intakes, NEW prev \in Outputs,
         StartAppend(o, i.release, i.asof, prev)
  PROVE  BuildInv'
<1> DEFINE j == [Idle EXCEPT !.pc = "roots", !.o = o, !.prev = prev, !.append = TRUE]
<1>1. Begin(o, i.release, i.asof, j)
  BY DEF StartAppend
<1>2. /\ i.release # {} /\ out[o].release \in {{}, i.release} /\ out[o].asof \in {0, i.asof}
      /\ prev # o /\ out[o].roots = 0 /\ AppendProven(prev, i.release)
  BY DEF StartAppend, Start
<1>3. /\ corpus' \in Corpora /\ (out = [p \in Outputs |-> out[p]])'
      /\ \A p \in Outputs : RootHolds(out[p])'
      /\ out'[o].release = i.release /\ out'[o].roots = 0 /\ out'[o].reported = out[o].reported
      /\ \A p \in Outputs \ {o} : out'[p] = out[p]
      /\ UNCHANGED <<corpus, code, approved>> /\ job' = j
  BY <1>1, <1>2, BeginHolds
<1>4. RootHolds(out[o]) /\ RootHolds(out[prev])
  BY DEF BuildInv
<1>5. out'[o].reported = NoPanels
  BY <1>2, <1>3, <1>4, PanelsStand
<1>6. /\ j.pc = "roots" /\ j.o = o /\ j.prev = prev /\ j.append = TRUE
      /\ j = [x \in JobFields |-> j[x]]
  BY DEF Idle, JobFields
<1> HIDE DEF j
<1>7. out[prev].panels # NoPanels
  BY <1>2, <1>4, PanelsStand DEF AppendProven
<1>8. Appending(j)'
  BY <1>2, <1>3, <1>6, <1>7 DEF Appending, AppendProven, ExactSuffix, Evidence, Filings
<1>9. JobHolds'
  BY <1>2, <1>3, <1>5, <1>6, <1>8 DEF JobHolds
<1> QED BY <1>3, <1>9 DEF BuildInv

\* A build that reuses nothing begins at a root without reported panels, or
\* with all but its quarters.
LEMMA StartAloneHolds ==
  ASSUME BuildInv, NEW o \in Outputs,
         \/ \E i \in Intakes : StartFull(o, i.release, i.asof)
         \/ StartResume(o)
  PROVE  BuildInv'
<1>1. RootHolds(out[o])
  BY DEF BuildInv
<1>2. ASSUME NEW i \in Intakes, StartFull(o, i.release, i.asof)
      PROVE  BuildInv'
  <2> DEFINE j == [Idle EXCEPT !.pc = "roots", !.o = o]
  <2>1. Begin(o, i.release, i.asof, j)
    BY <1>2 DEF StartFull
  <2>2. /\ i.release # {} /\ out[o].release \in {{}, i.release} /\ out[o].asof \in {0, i.asof}
        /\ out[o].reported = NoPanels
    BY <1>1, <1>2, PanelsStand DEF StartFull, Start
  <2>3. /\ corpus' \in Corpora /\ (out = [p \in Outputs |-> out[p]])'
        /\ \A p \in Outputs : RootHolds(out[p])'
        /\ out'[o].release # {} /\ out'[o].reported = NoPanels /\ job' = j
    BY <2>1, <2>2, BeginHolds
  <2>4. j.pc = "roots" /\ j.o = o /\ j.append = FALSE /\ j = [x \in JobFields |-> j[x]]
    BY DEF Idle, JobFields
  <2> HIDE DEF j
  <2>5. JobHolds' BY <2>3, <2>4 DEF JobHolds
  <2> QED BY <2>3, <2>5 DEF BuildInv
<1>3. ASSUME StartResume(o)
      PROVE  BuildInv'
  <2> DEFINE j == [Idle EXCEPT !.pc = "quarters", !.o = o]
  <2>1. Begin(o, out[o].release, out[o].asof, j)
    BY <1>3 DEF StartResume
  <2>2. out[o].reported # NoPanels /\ out[o].panels = NoPanels
    BY <1>1, <1>3, PanelsStand DEF StartResume
  <2>3. out[o].release # {}
    BY <1>1, <2>2, PanelsStand DEF RootHolds
  <2>4. /\ corpus' \in Corpora /\ (out = [p \in Outputs |-> out[p]])'
        /\ \A p \in Outputs : RootHolds(out[p])'
        /\ out'[o].release # {} /\ out'[o].reported # NoPanels /\ out'[o].panels = NoPanels
        /\ job' = j
    BY <2>1, <2>2, <2>3, BeginHolds
  <2>5. j.pc = "quarters" /\ j.o = o /\ j.append = FALSE /\ j = [x \in JobFields |-> j[x]]
    BY DEF Idle, JobFields
  <2> HIDE DEF j
  <2>6. JobHolds' BY <2>4, <2>5 DEF JobHolds
  <2> QED BY <2>4, <2>6 DEF BuildInv
<1> QED BY <1>2, <1>3

\* The later filing of an append, and the release before it.
LEMMA OneFilingLater ==
  ASSUME BuildInv, job # Idle, job.append
  PROVE  LET v == out[job.o]
             u == out[job.prev]
             n == NewFiling(job.prev, v.release)
         IN /\ v.release = u.release \cup {n} /\ n \in v.release /\ \A i \in u.release : i < n
            /\ u.release \subseteq Nat /\ n \in Nat
            /\ Mapping(Filings, u.release \cup {n}) = Mapping(Filings, u.release)
            /\ u.panels # NoPanels /\ u.reported = ReportedPanels(u) /\ u.roots = 4
            /\ u.t1 = Observations(Filings, u.release)
            /\ job.prev \in Outputs \ {job.o} /\ RootHolds(u)
<1> DEFINE v == out[job.o]
           u == out[job.prev]
<1>1. /\ job.o \in Outputs /\ v.release # {} /\ Appending(job)
  BY DEF BuildInv, JobHolds
<1>2. RootHolds(v) /\ RootHolds(u) /\ job.prev \in Outputs \ {job.o}
  BY <1>1 DEF BuildInv, Appending
<1>3. u.panels # NoPanels /\ ExactSuffix(job.prev, v.release) /\ Mapping(Filings, v.release) = Mapping(Filings, u.release)
  BY <1>1 DEF Appending
<1>4. u.reported = ReportedPanels(u) /\ u.roots = 4
  BY <1>2, <1>3, PanelsStand
<1>5. u.t1 = Observations(Filings, u.release)
  <2>1. u.roots > 0 => u.t1 = Observations(Filings, u.release) BY <1>2 DEF RootHolds
  <2>2. u.roots > 0 BY <1>4
  <2> QED BY <2>1, <2>2
<1>6. v.release \subseteq Nat
  BY <1>1, <1>2, BuildAssumption DEF RootHolds
<1>7. PICK n \in v.release : v.release = u.release \cup {n} /\ \A i \in u.release : i < n
  BY <1>3 DEF ExactSuffix
<1>8. n \in Nat /\ n \notin u.release /\ u.release \subseteq Nat
  BY <1>6, <1>7
<1>9. n = NewFiling(job.prev, v.release)
  BY <1>7, <1>8 DEF NewFiling
<1> QED BY <1>2, <1>3, <1>4, <1>5, <1>7, <1>8, <1>9

LEMMA PublishT1Holds ==
  ASSUME BuildInv, PublishT1
  PROVE  BuildInv'
<1> DEFINE v == out[job.o]
           by == IF job.append /\ <<job.prev, code>> \notin approved
                 THEN out[job.prev].by \cup {code} ELSE {code}
           n == NewFiling(job.prev, v.release)
           t1 == IF job.append THEN out[job.prev].t1 \cup Observed(Filings[n], n, Mapping(Filings, v.release))
                               ELSE Observations(Filings, v.release)
           w == [v EXCEPT !.roots = 1, !.by = by, !.t1 = t1]
<1>1. job.pc = "roots" /\ v.roots = 0 /\ job # Idle
  BY DEF PublishT1, Idle
<1>2. /\ job = [x \in JobFields |-> job[x]] /\ job.o \in Outputs /\ v.release # {} /\ job.append \in BOOLEAN
      /\ job.append => Appending(job)
      /\ v.reported = NoPanels
  BY <1>1 DEF BuildInv, JobHolds
<1>3. RootHolds(v) BY <1>2 DEF BuildInv
<1>4. v.panels = NoPanels /\ v.receipt = 0
  BY <1>2, <1>3, PanelsStand
<1>5. t1 = Observations(Filings, v.release)
  <2>1. ASSUME job.append PROVE t1 = Observations(Filings, v.release)
    <3>1. /\ v.release = out[job.prev].release \cup {n}
          /\ Mapping(Filings, out[job.prev].release \cup {n}) = Mapping(Filings, out[job.prev].release)
          /\ out[job.prev].t1 = Observations(Filings, out[job.prev].release)
      BY <1>1, <2>1, OneFilingLater
    <3> QED BY <2>1, <3>1, ObservationsAppend
  <2> QED BY <1>2, <2>1
<1>6. job.append => by = {code}
  <2>1. ASSUME job.append, <<job.prev, code>> \notin approved PROVE by = {code}
    <3>1. Evidence(job.prev) /\ job.prev \in Outputs
      BY <1>1, <1>2, <2>1 DEF Appending
    <3>2. out[job.prev].receipt # 0 /\ out[job.prev].receipt = code
      BY <2>1, <3>1 DEF Evidence
    <3>3. out[job.prev].by = {code}
      BY <3>1, <3>2 DEF BuildInv, RootHolds
    <3> QED BY <3>3
  <2> QED BY <2>1
<1> HIDE DEF by, t1
<1>7. /\ w = [x \in RootFields |-> w[x]]
      /\ w.release = v.release /\ w.asof = v.asof /\ w.roots = 1 /\ w.t1 = t1
      /\ w.reported = v.reported /\ w.panels = v.panels /\ w.by = by /\ w.receipt = v.receipt
  BY <1>3 DEF RootHolds, RootFields
<1>8. out' = [out EXCEPT ![job.o] = w]
  BY <1>2 DEF PublishT1, BuildInv, by, t1
<1> HIDE DEF w
<1>9. RootHolds(w)
  <2>1. \/ w.release = {} /\ w.asof = 0 /\ w.roots = 0
        \/ w.release # {} /\ \E i \in Intakes : w.release = i.release /\ w.asof = i.asof
    BY <1>2, <1>3, <1>7 DEF RootHolds
  <2>2. w.t1 = Observations(Filings, w.release) /\ w.roots \in 0 .. 4
    BY <1>5, <1>7
  <2> QED BY <1>2, <1>4, <1>7, <2>1, <2>2 DEF RootHolds
<1>10. UNCHANGED <<corpus, job, code, approved>>
  BY DEF PublishT1
<1>11. /\ corpus' \in Corpora /\ (out = [p \in Outputs |-> out[p]])'
       /\ \A p \in Outputs : RootHolds(out[p])'
       /\ out'[job.o] = w /\ \A p \in Outputs \ {job.o} : out'[p] = out[p]
  BY <1>2, <1>8, <1>9, <1>10, OneRootWritten
<1>12. job.append => Appending(job)'
  <2>1. ASSUME job.append PROVE Appending(job)'
    <3>1. out'[job.o].release = v.release /\ out'[job.o].roots # 0 /\ out'[job.o].by = {code}
      BY <1>6, <1>7, <1>11, <2>1
    <3> QED BY <1>2, <1>10, <1>11, <2>1, <3>1 DEF Appending, ExactSuffix, Filings
  <2> QED BY <2>1
<1>13. JobHolds'
  BY <1>1, <1>2, <1>7, <1>10, <1>11, <1>12 DEF JobHolds
<1> QED BY <1>11, <1>13 DEF BuildInv

LEMMA PublishRootHolds ==
  ASSUME BuildInv, PublishRoot
  PROVE  BuildInv'
<1> DEFINE v == out[job.o]
           w == [v EXCEPT !.roots = @ + 1, !.by = @ \cup {code}]
<1>1. job.pc = "roots" /\ v.roots \in 1 .. 3 /\ job # Idle
  BY DEF PublishRoot, Idle
<1>2. /\ job = [x \in JobFields |-> job[x]] /\ job.o \in Outputs /\ v.release # {} /\ job.append \in BOOLEAN
      /\ job.append => Appending(job)
      /\ v.reported = NoPanels
  BY <1>1 DEF BuildInv, JobHolds
<1>3. RootHolds(v) BY <1>2 DEF BuildInv
<1>4. v.panels = NoPanels /\ v.receipt = 0
  BY <1>2, <1>3, PanelsStand
<1>5. /\ w = [x \in RootFields |-> w[x]]
      /\ w.release = v.release /\ w.asof = v.asof /\ w.roots = v.roots + 1 /\ w.t1 = v.t1
      /\ w.reported = v.reported /\ w.panels = v.panels /\ w.by = v.by \cup {code} /\ w.receipt = v.receipt
  BY <1>3 DEF RootHolds, RootFields
<1>6. out' = [out EXCEPT ![job.o] = w]
  BY <1>2 DEF PublishRoot, BuildInv
<1> HIDE DEF w
<1>7. RootHolds(w)
  <2>1. \/ w.release = {} /\ w.asof = 0 /\ w.roots = 0
        \/ w.release # {} /\ \E i \in Intakes : w.release = i.release /\ w.asof = i.asof
    BY <1>2, <1>3, <1>5 DEF RootHolds
  <2>2. v.roots > 0 => v.t1 = Observations(Filings, v.release)
    BY <1>3 DEF RootHolds
  <2>3. w.t1 = Observations(Filings, w.release) /\ w.roots \in 0 .. 4
    BY <1>1, <1>5, <2>2
  <2> QED BY <1>2, <1>4, <1>5, <2>1, <2>3 DEF RootHolds
<1>8. /\ UNCHANGED <<corpus, code, approved>>
      /\ job' = [x \in JobFields |-> job'[x]]
      /\ job'.pc = job.pc /\ job'.o = job.o /\ job'.prev = job.prev /\ job'.append = job.append
  BY <1>2 DEF PublishRoot, MergeGraph, JobFields
<1>9. /\ corpus' \in Corpora /\ (out = [p \in Outputs |-> out[p]])'
      /\ \A p \in Outputs : RootHolds(out[p])'
      /\ out'[job.o] = w /\ \A p \in Outputs \ {job.o} : out'[p] = out[p]
  BY <1>2, <1>6, <1>7, <1>8, OneRootWritten
<1>10. ASSUME job.append PROVE Appending(job)'
  <2>1. v.by = {code}
    BY <1>1, <1>2, <1>10 DEF Appending
  <2>2. out'[job.o].release = v.release /\ out'[job.o].roots # 0 /\ out'[job.o].by = {code}
    BY <1>1, <1>5, <1>9, <2>1
  <2> QED BY <1>2, <1>8, <1>9, <1>10, <2>2 DEF Appending, ExactSuffix, Filings
<1>11. JobHolds'
  BY <1>1, <1>2, <1>5, <1>8, <1>9, <1>10 DEF JobHolds
<1> QED BY <1>9, <1>11 DEF BuildInv

\* The copied tables are those that would have been produced.
LEMMA CopiedTablesHold ==
  ASSUME BuildInv, job.pc = "roots", out[job.o].roots = 4
  PROVE  ReportedCells(job) = RootCells(out[job.o])
<1> DEFINE v == out[job.o]
           u == out[job.prev]
           n == NewFiling(job.prev, v.release)
           all == Reported(v.t1, corpus.view, v.asof)
           before == u.reported.cells
           copied == {k[3] : k \in Columns(before)}
                       \ (Dirty(job) \cup IF PolicyChanged(job) THEN {k[3] : k \in Columns(before)} ELSE {})
<1>1. job # Idle BY DEF Idle
<1>2. job.o \in Outputs /\ RootHolds(v) /\ job.append \in BOOLEAN
  BY <1>1 DEF BuildInv, JobHolds
<1>3. v.t1 = Observations(Filings, v.release)
  <2>1. v.roots > 0 => v.t1 = Observations(Filings, v.release) BY <1>2 DEF RootHolds
  <2> QED BY <2>1
<1>4. all = RootCells(v)
  BY <1>3 DEF RootCells
<1>5. CASE ~job.append
  BY <1>4, <1>5 DEF ReportedCells
<1>6. CASE job.append
  <2>1. /\ v.release = u.release \cup {n}
        /\ Mapping(Filings, u.release \cup {n}) = Mapping(Filings, u.release)
        /\ u.reported = ReportedPanels(u)
    BY <1>1, <1>6, OneFilingLater
  <2>2. before = Reported(Observations(Filings, u.release), corpus.view, u.asof)
    BY <2>1 DEF ReportedPanels, RootCells
  <2>3. ReportedCells(job) = {c \in all : c.column[3] \notin copied} \cup {c \in before : c.column[3] \in copied}
    BY <1>6 DEF ReportedCells
  <2>4. CASE PolicyChanged(job)
    <3>1. copied = {} BY <2>4
    <3> HIDE DEF copied
    <3> QED BY <1>4, <2>3, <3>1
  <2>5. CASE ~PolicyChanged(job)
    <3>1. u.asof = v.asof BY <2>5 DEF PolicyChanged
    <3>2. NewKeys(job) = Columns(Observed(Filings[n], n, {}))
      BY DEF NewKeys
    <3>3. \A k \in Columns(Observed(Filings[n], n, {})) : k[3] \notin copied
      BY <3>2 DEF Dirty
    <3> HIDE DEF copied
    <3>4. /\ all = Reported(Observations(Filings, u.release \cup {n}), corpus.view, u.asof)
          /\ Mapping(Filings, u.release \cup {n}) = Mapping(Filings, u.release)
      BY <1>3, <2>1, <3>1
    <3> HIDE DEF all, before, n, u, v
    <3>5. \A c : c \in all <=> (c \in all /\ c.column[3] \notin copied) \/ (c \in before /\ c.column[3] \in copied)
      BY <2>2, <3>3, <3>4, CopiedIsReported
    <3>6. ReportedCells(job) = all
      BY <2>3, <3>5
    <3> QED BY <1>4, <3>6 DEF v
  <2> QED BY <2>4, <2>5
<1> QED BY <1>2, <1>5, <1>6

LEMMA PublishReportedHolds ==
  ASSUME BuildInv, PublishReported
  PROVE  BuildInv'
<1> DEFINE v == out[job.o]
           panels == [built |-> TRUE, cells |-> ReportedCells(job),
                      table |-> ColumnTable(Filings, v.release, ReportedCells(job))]
           w == [v EXCEPT !.by = @ \cup {code}, !.reported = panels]
<1>1. job.pc = "roots" /\ v.roots = 4 /\ job # Idle
  BY DEF PublishReported, Idle
<1>2. /\ job = [x \in JobFields |-> job[x]] /\ job.o \in Outputs /\ v.release # {} /\ job.append \in BOOLEAN
      /\ job.append => Appending(job)
      /\ v.reported = NoPanels
  BY <1>1 DEF BuildInv, JobHolds
<1>3. RootHolds(v) BY <1>2 DEF BuildInv
<1>4. v.panels = NoPanels /\ v.receipt = 0
  BY <1>2, <1>3, PanelsStand
<1>5. panels = ReportedPanels(v)
  BY <1>1, CopiedTablesHold DEF ReportedPanels
<1>6. out' = [out EXCEPT ![job.o] = w]
  BY <1>2 DEF PublishReported, BuildInv
<1> HIDE DEF panels
<1>7. /\ w = [x \in RootFields |-> w[x]]
      /\ w.release = v.release /\ w.asof = v.asof /\ w.roots = v.roots /\ w.t1 = v.t1
      /\ w.reported = panels /\ w.panels = v.panels /\ w.by = v.by \cup {code} /\ w.receipt = v.receipt
  BY <1>3 DEF RootHolds, RootFields
<1> HIDE DEF w
<1>8. RootHolds(w)
  <2>1. \/ w.release = {} /\ w.asof = 0 /\ w.roots = 0
        \/ w.release # {} /\ \E i \in Intakes : w.release = i.release /\ w.asof = i.asof
    BY <1>2, <1>3, <1>7 DEF RootHolds
  <2>2. w.roots > 0 => w.t1 = Observations(Filings, w.release)
    BY <1>3, <1>7 DEF RootHolds
  <2>3. w.reported = ReportedPanels(w)
    BY <1>5, <1>7 DEF ReportedPanels, RootCells
  <2> QED BY <1>1, <1>4, <1>7, <2>1, <2>2, <2>3 DEF RootHolds
<1>9. /\ UNCHANGED <<corpus, code, approved>>
      /\ job' = [x \in JobFields |-> job'[x]]
      /\ job'.pc = "quarters" /\ job'.o = job.o /\ job'.prev = job.prev /\ job'.append = job.append
  BY <1>2 DEF PublishReported, JobFields
<1>10. /\ corpus' \in Corpora /\ (out = [p \in Outputs |-> out[p]])'
       /\ \A p \in Outputs : RootHolds(out[p])'
       /\ out'[job.o] = w /\ \A p \in Outputs \ {job.o} : out'[p] = out[p]
  BY <1>2, <1>6, <1>8, <1>9, OneRootWritten
<1>11. ASSUME job.append PROVE Appending(job)'
  <2>1. v.by = {code}
    BY <1>1, <1>2, <1>11 DEF Appending
  <2>2. out'[job.o].release = v.release /\ out'[job.o].roots # 0 /\ out'[job.o].by = {code}
    BY <1>1, <1>7, <1>10, <2>1
  <2> QED BY <1>2, <1>9, <1>10, <1>11, <2>2 DEF Appending, ExactSuffix, Filings
<1>12. w.reported # NoPanels /\ w.panels = NoPanels
  <2>1. panels.built = TRUE /\ NoPanels.built = FALSE BY DEF panels, NoPanels
  <2> QED BY <1>4, <1>7, <2>1
<1>13. JobHolds'
  BY <1>2, <1>7, <1>9, <1>10, <1>11, <1>12 DEF JobHolds
<1> QED BY <1>10, <1>13 DEF BuildInv

\* What the delta publishes is what the full producer would have.
LEMMA QuartersAreFull ==
  ASSUME BuildInv, job # Idle, RegularCorpora, UsesDelta(job),
         out[job.o].reported = ReportedPanels(out[job.o])
  PROVE  Delta(out[job.prev].reported, out[job.o].reported, out[job.prev].panels.cells, NewKeys(job))
           = Full(RootCells(out[job.o]))
<1> DEFINE v == out[job.o]
           u == out[job.prev]
           n == NewFiling(job.prev, v.release)
           keys == NewKeys(job)
<1>1. /\ job.append /\ ~PolicyChanged(job)
      /\ FastInputProven(Keys(u.t1), keys, Filings[n])
      /\ DeltaProven(u.reported, v.reported, u.panels.cells, keys)
  BY DEF UsesDelta, Capable
<1>2. /\ v.release = u.release \cup {n} /\ \A i \in u.release : i < n
      /\ u.release \subseteq Nat /\ n \in Nat
      /\ Mapping(Filings, u.release \cup {n}) = Mapping(Filings, u.release)
      /\ u.panels # NoPanels /\ u.reported = ReportedPanels(u)
      /\ u.t1 = Observations(Filings, u.release) /\ RootHolds(u)
  BY <1>1, OneFilingLater
<1>3. u.asof = v.asof BY <1>1 DEF PolicyChanged
<1>4. u.panels.cells = Full(RootCells(u))
  BY <1>2 DEF RootHolds
<1>5. Regular(Filings, u.release \cup {n})
  <2>1. job.o \in Outputs /\ v.release # {} /\ corpus \in Corpora BY DEF BuildInv, JobHolds
  <2>2. RootHolds(v) BY <2>1 DEF BuildInv
  <2>3. PICK i \in Intakes : v.release = i.release BY <2>1, <2>2 DEF RootHolds
  <2> QED BY <1>2, <2>1, <2>3 DEF RegularCorpora, Filings
<1>6. /\ u.reported.cells = Reported(Observations(Filings, u.release), corpus.view, u.asof)
      /\ u.reported.table = ColumnTable(Filings, u.release, u.reported.cells)
  BY <1>2 DEF ReportedPanels, RootCells
<1>7. /\ v.reported.cells = Reported(Observations(Filings, u.release \cup {n}), corpus.view, u.asof)
      /\ v.reported.table = ColumnTable(Filings, u.release \cup {n}, v.reported.cells)
      /\ v.reported.cells = RootCells(v)
  BY <1>2, <1>3 DEF ReportedPanels, RootCells
<1>8. keys = Columns(Observed(Filings[n], n, {}))
  BY DEF NewKeys
<1>9. FastInputProven(Columns(Observations(Filings, u.release)), keys, Filings[n])
  BY <1>1, <1>2 DEF Keys
<1>10. u.panels.cells = Full(u.reported.cells)
  BY <1>4, <1>6 DEF RootCells
<1>11. DeltaProven(u.reported, v.reported, Full(u.reported.cells), keys)
  BY <1>1, <1>10
<1> HIDE DEF u, v, n, keys
<1>12. Delta(u.reported, v.reported, Full(u.reported.cells), keys) = Full(v.reported.cells)
  BY <1>2, <1>5, <1>6, <1>7, <1>8, <1>9, <1>11, DeltaIsFull
<1>13. Delta(u.reported, v.reported, u.panels.cells, keys) = Full(RootCells(v))
  BY <1>7, <1>10, <1>12
<1> QED BY <1>13 DEF u, v, keys

LEMMA PublishQuartersHolds ==
  ASSUME BuildInv, PublishQuarters
  PROVE  BuildInv'
<1> DEFINE v == out[job.o]
           cells == IF UsesDelta(job)
                    THEN Delta(out[job.prev].reported, v.reported, out[job.prev].panels.cells, NewKeys(job))
                    ELSE Full(v.reported.cells)
           panels == [built |-> TRUE, cells |-> cells, table |-> {}]
           w == [v EXCEPT !.by = @ \cup {code}, !.panels = panels]
<1>1. job.pc = "quarters" /\ job # Idle
  BY DEF PublishQuarters, Idle
<1>2. /\ job = [x \in JobFields |-> job[x]] /\ job.o \in Outputs /\ v.release # {} /\ job.append \in BOOLEAN
      /\ job.append => Appending(job)
      /\ v.reported # NoPanels /\ v.panels = NoPanels
  BY <1>1 DEF BuildInv, JobHolds
<1>3. RootHolds(v) BY <1>2 DEF BuildInv
<1>4. v.reported = ReportedPanels(v) /\ v.roots = 4
  BY <1>2, <1>3, PanelsStand
<1>5. v.receipt = 0
  BY <1>2, <1>3 DEF RootHolds
<1>6. RegularCorpora => cells = Full(RootCells(v))
  <2>1. v.reported.cells = RootCells(v) BY <1>4 DEF ReportedPanels
  <2>2. ASSUME RegularCorpora, UsesDelta(job) PROVE cells = Full(RootCells(v))
    BY <1>1, <1>4, <2>2, QuartersAreFull
  <2> QED BY <2>1, <2>2
<1> HIDE DEF cells
<1>7. panels.built = TRUE /\ panels.cells = cells /\ panels # NoPanels
      /\ panels = [built |-> TRUE, cells |-> panels.cells, table |-> {}]
  <2>1. panels.built = TRUE /\ NoPanels.built = FALSE BY DEF NoPanels
  <2> QED BY <2>1
<1>8. out' = [out EXCEPT ![job.o] = w]
  BY <1>2 DEF PublishQuarters, BuildInv, cells
<1> HIDE DEF panels
<1>9. /\ w = [x \in RootFields |-> w[x]]
      /\ w.release = v.release /\ w.asof = v.asof /\ w.roots = v.roots /\ w.t1 = v.t1
      /\ w.reported = v.reported /\ w.panels = panels /\ w.by = v.by \cup {code} /\ w.receipt = v.receipt
  BY <1>3 DEF RootHolds, RootFields
<1> HIDE DEF w
<1>10. RootHolds(w)
  <2>1. \/ w.release = {} /\ w.asof = 0 /\ w.roots = 0
        \/ w.release # {} /\ \E i \in Intakes : w.release = i.release /\ w.asof = i.asof
    BY <1>2, <1>3, <1>9 DEF RootHolds
  <2>2. w.roots > 0 => w.t1 = Observations(Filings, w.release)
    BY <1>3, <1>9 DEF RootHolds
  <2>3. w.reported = ReportedPanels(w) /\ RootCells(w) = RootCells(v)
    BY <1>4, <1>9 DEF ReportedPanels, RootCells
  <2>4. RegularCorpora => w.panels.cells = Full(RootCells(w))
    BY <1>6, <1>7, <1>9, <2>3
  <2>5. w.panels = [built |-> TRUE, cells |-> w.panels.cells, table |-> {}]
    BY <1>7, <1>9
  <2> QED BY <1>4, <1>5, <1>9, <2>1, <2>2, <2>3, <2>4, <2>5 DEF RootHolds
<1>11. UNCHANGED <<corpus, code, approved>>
  BY DEF PublishQuarters
<1>12. /\ corpus' \in Corpora /\ (out = [p \in Outputs |-> out[p]])'
       /\ \A p \in Outputs : RootHolds(out[p])'
       /\ out'[job.o] = w /\ \A p \in Outputs \ {job.o} : out'[p] = out[p]
  BY <1>2, <1>8, <1>10, <1>11, OneRootWritten
<1>13. CASE ~job.append
  <2>1. job' = Idle BY <1>13 DEF PublishQuarters
  <2> QED BY <1>12, <2>1 DEF BuildInv, JobHolds
<1>14. CASE job.append
  <2>1. /\ job' = [x \in JobFields |-> job'[x]]
        /\ job'.pc = "receipt" /\ job'.o = job.o /\ job'.prev = job.prev /\ job'.append = job.append
    BY <1>2, <1>14 DEF PublishQuarters, JobFields
  <2>2. v.by = {code}
    BY <1>2, <1>4, <1>14 DEF Appending
  <2>3. out'[job.o].release = v.release /\ out'[job.o].roots # 0 /\ out'[job.o].by = {code}
    BY <1>4, <1>9, <1>12, <2>2
  <2>4. Appending(job)'
    BY <1>2, <1>11, <1>12, <1>14, <2>1, <2>3 DEF Appending, ExactSuffix, Filings
  <2>5. JobHolds'
    BY <1>2, <1>7, <1>9, <1>12, <1>14, <2>1, <2>4 DEF JobHolds
  <2> QED BY <1>12, <2>5 DEF BuildInv
<1> QED BY <1>2, <1>13, <1>14

LEMMA WriteReceiptHolds ==
  ASSUME BuildInv, WriteReceipt
  PROVE  BuildInv'
<1> DEFINE v == out[job.o]
           w == [v EXCEPT !.receipt = code]
<1>1. job.pc = "receipt" /\ job # Idle
  BY DEF WriteReceipt, Idle
<1>2. job.o \in Outputs /\ v.panels # NoPanels /\ job.append /\ Appending(job)
  BY <1>1 DEF BuildInv, JobHolds
<1>3. RootHolds(v) BY <1>2 DEF BuildInv
<1>4. v.roots = 4 BY <1>2, <1>3, PanelsStand
<1>5. v.by = {code} BY <1>2, <1>4 DEF Appending
<1>6. /\ w = [x \in RootFields |-> w[x]]
      /\ w.release = v.release /\ w.asof = v.asof /\ w.roots = v.roots /\ w.t1 = v.t1
      /\ w.reported = v.reported /\ w.panels = v.panels /\ w.by = v.by /\ w.receipt = code
  BY <1>3 DEF RootHolds, RootFields
<1>7. out' = [out EXCEPT ![job.o] = w]
  BY <1>2 DEF WriteReceipt, BuildInv
<1> HIDE DEF w
<1>8. RootHolds(w)
  <2>1. ReportedPanels(w) = ReportedPanels(v) /\ RootCells(w) = RootCells(v)
    BY <1>6 DEF ReportedPanels, RootCells
  <2> QED BY <1>2, <1>3, <1>5, <1>6, <2>1 DEF RootHolds
<1>9. job' = Idle /\ corpus' = corpus BY DEF WriteReceipt
<1>10. /\ corpus' \in Corpora /\ (out = [p \in Outputs |-> out[p]])'
       /\ \A p \in Outputs : RootHolds(out[p])'
  BY <1>2, <1>7, <1>8, <1>9, OneRootWritten
<1> QED BY <1>9, <1>10 DEF BuildInv, JobHolds

\* An interruption, an upgrade and an approval write nothing.
LEMMA RestHolds ==
  ASSUME BuildInv, Crash \/ Upgrade \/ (\E o \in Outputs : Approve(o)) \/ UNCHANGED vars
  PROVE  BuildInv'
<1>1. out' = out /\ corpus' = corpus
  BY DEF Crash, Upgrade, Approve, vars
<1>2. corpus' \in Corpora /\ (out = [p \in Outputs |-> out[p]])' /\ \A p \in Outputs : RootHolds(out[p])'
  BY <1>1, NothingWritten
<1>3. JobHolds'
  <2>1. CASE Crash \/ Upgrade \/ \E o \in Outputs : Approve(o)
    <3>1. job' = Idle BY <2>1 DEF Crash, Upgrade, Approve
    <3> QED BY <3>1 DEF JobHolds
  <2>2. CASE UNCHANGED vars
    <3>1. JobHolds BY DEF BuildInv
    <3> QED BY <2>2, <3>1 DEF JobHolds, Appending, ExactSuffix, Evidence, Filings, vars
  <2> QED BY <2>1, <2>2
<1> QED BY <1>2, <1>3 DEF BuildInv

LEMMA BuildStep == BuildInv /\ [Next]_vars => BuildInv'
<1> SUFFICES ASSUME BuildInv, [Next]_vars PROVE BuildInv' OBVIOUS
<1>1. ASSUME NEW o \in Outputs, NEW i \in Intakes, NEW prev \in Outputs,
             StartAppend(o, i.release, i.asof, prev)
      PROVE  BuildInv'
  BY <1>1, StartAppendHolds
<1>2. ASSUME NEW o \in Outputs, NEW i \in Intakes, StartFull(o, i.release, i.asof)
      PROVE  BuildInv'
  BY <1>2, StartAloneHolds
<1>3. ASSUME NEW o \in Outputs, StartResume(o)
      PROVE  BuildInv'
  BY <1>3, StartAloneHolds
<1>4. CASE Step
  BY <1>4, PublishT1Holds, PublishRootHolds, PublishReportedHolds, PublishQuartersHolds,
     WriteReceiptHolds DEF Step
<1>5. CASE Crash \/ Upgrade \/ (\E o \in Outputs : Approve(o)) \/ UNCHANGED vars
  BY <1>5, RestHolds
<1> QED BY <1>1, <1>2, <1>3, <1>4, <1>5 DEF Next, Command

-----------------------------------------------------------------------------
\* Every output is what its own release gives: its roots and reported panels
\* for any corpus, its quarters in a regular calendar; and a running append
\* still rests on what it proved when it began (history.build_history).
THEOREM BuildsStayHonest == Spec => []BuildInv
<1>1. Init => BuildInv BY InitHolds
<1>2. BuildInv /\ [Next]_vars => BuildInv' BY BuildStep
<1> QED BY <1>1, <1>2, PTL DEF Spec

LEMMA OneProducerFollows == BuildInv => OneProducer
<1> SUFFICES ASSUME BuildInv, NEW o \in Outputs, out[o].receipt # 0
             PROVE  out[o].panels.built /\ out[o].by = {out[o].receipt}
  BY DEF OneProducer
<1>1. RootHolds(out[o]) BY DEF BuildInv
<1>2. out[o].panels # NoPanels /\ out[o].by = {out[o].receipt} BY <1>1 DEF RootHolds
<1> QED BY <1>1, <1>2, PanelsStand

\* A receipt names the one producer of all that stands under it, for any
\* corpus (history_reuse.py, _verify_reuse_evidence).
THEOREM ReceiptsNameOneProducer == Spec => []OneProducer
BY BuildsStayHonest, OneProducerFollows, PTL

\* In a regular calendar the append and the cell delta change no value
\* (analytics/history_quarters.py, _spill_reported_delta).
THEOREM ReusedIsAlwaysRebuilt ==
  ASSUME RegularCorpora PROVE Spec => []ReusedIsRebuilt
<1>1. BuildInv => ReusedIsRebuilt
  <2> SUFFICES ASSUME BuildInv PROVE ReusedIsRebuilt OBVIOUS
  <2>1. ASSUME NEW o \in Outputs, out[o].panels.built
        PROVE  out[o].panels.cells = Recomputed(o)
    <3>1. RootHolds(out[o]) BY DEF BuildInv
    <3>2. out[o].panels # NoPanels BY <2>1, <3>1, PanelsStand
    <3>3. out[o].panels.cells = Full(RootCells(out[o])) BY <3>1, <3>2 DEF RootHolds
    <3> QED BY <3>3 DEF Recomputed, RootCells
  <2> QED BY <2>1, OneProducerFollows DEF ReusedIsRebuilt
<1> QED BY <1>1, BuildsStayHonest, PTL
=============================================================================
