---------------------------- MODULE HistoryBuild ----------------------------
(***************************************************************************)
(* history.build_history for one company and one view: the roots T1..T4,   *)
(* the reported panels and the panels with quarters, each published at an  *)
(* output root by an atomic rename, then the receipt the next append needs *)
(* (history.py, history_reuse.py, analytics/history_quarters.py).          *)
(*                                                                         *)
(* A build may reuse an earlier output: its T1, T2 and T4 rows when the    *)
(* release is the earlier one and one later filing, the tables of the      *)
(* period classes that filing does not touch, and the cells of the quarter *)
(* panels when the delta is proven.  It may be interrupted anywhere and    *)
(* run again at the same output root; the code may be upgraded between     *)
(* builds.                                                                 *)
(***************************************************************************)
EXTENDS Integers, FiniteSets, Sequences

CONSTANTS
  Additive,     \* the lines the allowlist lets the producer subtract
  Corpora,      \* [view, filings]: what may be built from, filings in filed order
  Outputs,      \* output roots, 1 .. some number
  Intakes,      \* [release, asof]: the filings, by number, and the plan's as-of date
  MaxApproved,  \* approvals explored
  MaxFaults,    \* interruptions explored
  MaxCode       \* code versions explored

ASSUME BuildAssumption ==
  /\ Outputs \subseteq Nat \ {0}
  /\ \A i \in Intakes : i.release \subseteq Nat \ {0} /\ i.asof \in Nat \ {0}
  /\ MaxFaults \in Nat /\ MaxApproved \in Nat /\ MaxCode \in Nat \ {0}

VARIABLES
  corpus,       \* the filings there are, and the view the history is built for
  out,          \* what stands at each output root
  job,          \* the running build
  code,         \* the producer code on disk
  approved,     \* <<output, code>>: migration evidence ROOT approved
  faults

vars == <<corpus, out, job, code, approved, faults>>

-----------------------------------------------------------------------------
(* What the history of one company is computed from, and the two ways its  *)
(* quarters are derived: from every reported cell (the full producer), or  *)
(* by reusing the cells of the previous publication and computing only     *)
(* what one later 10-Q adds (the cell delta).                              *)
(*                                                                         *)
(* A filing is [form, year, quarter, facts, remap]; a fact [line, start,   *)
(* end] counts days from the start of the fiscal year, a quarter having    *)
(* QuarterDays of them.  remap says that canonicalization with this filing *)
(* in the release maps earlier lines differently.                          *)

QuarterDays == 91

Within(low, high) == low .. high

Durations == [QTD_3M |-> Within(75, 105), YTD_6M |-> Within(160, 205),
              YTD_9M |-> Within(250, 300), FY |-> Within(350, 378)]

\* The class of a duration; a year counts as one only in a 10-K whose
\* boundaries are an anniversary apart, in a 10-Q it is a trailing year.
Class(f, o) ==
  LET days == o.end - o.start
      kinds == {c \in DOMAIN Durations : days \in Durations[c]}
  IN CASE kinds = {} -> "OTHER_DURATION"
       [] "FY" \in kinds /\ days \notin Within(358, 372) -> "OTHER_DURATION"
       [] "FY" \in kinds /\ f.form # "10-K" -> "TTM"
       [] OTHER -> CHOOSE c \in kinds : TRUE

\* Only the facts that end where the filing's focus ends are current.
Current(f) == {o \in f.facts : o.end = f.quarter * QuarterDays}

\* What T1 holds of filing i, under the canonical mapping of its release.
Observed(f, i, mapping) ==
  {[line |-> o.line, column |-> <<f.year, f.quarter, Class(f, o)>>,
    start |-> o.start, end |-> o.end, src |-> i, map |-> mapping] : o \in Current(f)}

Columns(cells) == {c.column : c \in cells}

Mapping(filings, release) == {i \in release : filings[i].remap}

Observations(filings, release) ==
  UNION {Observed(filings[i], i, Mapping(filings, release)) : i \in release}

-----------------------------------------------------------------------------
\* Reported panels

SamePeriod(o, p) == /\ o.line = p.line /\ o.column = p.column
                    /\ o.start = p.start /\ o.end = p.end

\* One observation of each identity: the first filed, or the last.
Selected(t1, view) ==
  {o \in t1 : \A p \in t1 : SamePeriod(o, p) =>
                 IF view = "AS_FILED" THEN o.src <= p.src ELSE p.src <= o.src}

\* A cell whose candidates disagree on the actual period has no value.
Resolve(o, chosen, asof) ==
  IF \E p \in chosen : p.line = o.line /\ p.column = o.column /\ ~SamePeriod(o, p)
  THEN [line |-> o.line, column |-> o.column, status |-> "UNAVAILABLE",
        start |-> 0, end |-> 0, srcs |-> {}, map |-> {}, asof |-> 0]
  ELSE [line |-> o.line, column |-> o.column, status |-> "REPORTED",
        start |-> o.start, end |-> o.end, srcs |-> {o.src}, map |-> o.map, asof |-> asof]

Reported(t1, view, asof) ==
  LET chosen == Selected(t1, view)
  IN {Resolve(o, chosen, asof) : o \in chosen}

\* The quarters a release should have: all of them in a year with a 10-K, up
\* to the latest 10-Q in another.
Expected(filings, release) ==
  UNION {{<<filings[i].year, q, "QTD_3M">> : q \in 1 .. filings[i].quarter} : i \in release}

HasQuarters(columns) == \E c \in columns : c[3] = "QTD_3M"

\* The column metadata the delta compares: the periods its cells really
\* cover, none for a quarter that is only expected, and whether a 10-K makes
\* a missing fourth quarter "not materialized" rather than "missing".
ColumnTable(filings, release, cells) ==
  LET held == Columns(cells)
      listed == held \cup IF HasQuarters(held) THEN Expected(filings, release) ELSE {}
  IN {[column |-> c,
       bounds |-> {<<x.start, x.end>> : x \in {y \in cells : y.column = c}},
       annual |-> /\ c \notin held /\ c[2] = 4
                  /\ \E i \in release : filings[i].year = c[1] /\ filings[i].form = "10-K"]
        : c \in listed}

-----------------------------------------------------------------------------
\* Derived quarters

Partner == [YTD_6M |-> "QTD_3M", YTD_9M |-> "YTD_6M", FY |-> "YTD_9M"]
DerivedQuarter == [YTD_6M |-> 2, YTD_9M |-> 3, FY |-> 4]

ApprovedAdditive(c) == c.status = "REPORTED" /\ c.line \in Additive

\* The reviewed difference of two amounts of one scope that start together
\* and end a quarter apart.
Subtractable(later, earlier) ==
  /\ ApprovedAdditive(later) /\ ApprovedAdditive(earlier)
  /\ later.map = earlier.map /\ later.asof = earlier.asof
  /\ later.start = earlier.start
  /\ later.end - earlier.end \in Within(75, 105)

Derive(later, earlier) ==
  [line |-> later.line,
   column |-> <<later.column[1], DerivedQuarter[later.column[3]], "QTD_3M">>,
   status |-> "DERIVED", start |-> earlier.end, end |-> later.end,
   srcs |-> later.srcs \cup earlier.srcs, map |-> later.map, asof |-> later.asof]

SameScope(c, d) == c.line = d.line /\ c.map = d.map /\ c.asof = d.asof

\* The cells of c's group: one fiscal year, class and scope.
Choices(c, additive) ==
  {d \in additive : SameScope(c, d) /\ d.column[1] = c.column[1] /\ d.column[3] = c.column[3]}

Partners(c, additive) ==
  {d \in additive : /\ SameScope(c, d) /\ d.column[1] = c.column[1]
                    /\ d.column[3] = Partner[c.column[3]]
                    /\ c.column[3] = "YTD_6M" => d.column[2] = 1}

Place(c) == <<c.line, c.column>>

\* A quarter is derived only from the one candidate of each side.
Pairs(additive) ==
  {p \in additive \X additive :
     /\ p[1].column[3] \in DOMAIN Partner
     /\ Choices(p[1], additive) = {p[1]}
     /\ Partners(p[1], additive) = {p[2]}
     /\ Subtractable(p[1], p[2])}

\* Never where a direct value stands, and only into a table of quarters.
Derived(additive, taken) ==
  IF HasQuarters({p[2] : p \in taken})
  THEN {d \in {Derive(p[1], p[2]) : p \in Pairs(additive)} : Place(d) \notin taken}
  ELSE {}

AdditiveOf(cells) == {c \in cells : ApprovedAdditive(c)}
Places(cells) == {Place(c) : c \in cells}

Full(reported) == reported \cup Derived(AdditiveOf(reported), Places(reported))

-----------------------------------------------------------------------------
\* The cell delta.  before and now are the reported publications, each a
\* record of its cells and its column table; final is the previous
\* publication with its quarters.

\* A late filing of an earlier period would insert a column before an old one.
Later(key, old) ==
  \A k \in old : k[3] = key[3] => k[1] < key[1] \/ (k[1] = key[1] /\ k[2] < key[2])

FastInputProven(old, new, f) ==
  /\ new # {} /\ new \cap old = {}
  /\ \A key \in new : Later(key, old)
  /\ f.form = "10-Q"

Direct(cells) == {c \in cells : c.status # "DERIVED"}
PriorDerived(cells) == {c \in cells : c.status = "DERIVED"}

AddedColumns(before, now) == {r.column : r \in now.table \ before.table}
Suffix(before, now) == {c \in now.cells : c.column \in AddedColumns(before, now)}

\* The old amounts a new year-to-date amount can be subtracted from.
PartnerColumns(keys) ==
  {<<k[1], DerivedQuarter[k[3]] - 1, Partner[k[3]]>> : k \in {j \in keys : j[3] \in DOMAIN Partner}}

\* What the suffix allows to derive.
Fresh(before, now, final, keys) ==
  LET suffix == Suffix(before, now)
      kept == Direct(final)
  IN Derived(AdditiveOf(suffix \cup {c \in kept : c.column \in PartnerColumns(keys)}),
             Places(kept \cup suffix))

\* Where the amount stands that a derived quarter was subtracted from.
LaterPlace(d) ==
  <<d.line, <<d.column[1], d.column[2], <<"", "YTD_6M", "YTD_9M", "FY">>[d.column[2]]>>>>

\* Only a publication of reported and derived cells is reused.
Reusable(final) == \A c \in final : c.status \in {"REPORTED", "DERIVED"}

\* What is compared before anything is reused; the full producer runs when
\* one of these does not hold.
DeltaProven(before, now, final, keys) ==
  LET fresh == Fresh(before, now, final, keys)
      prior == PriorDerived(final)
  IN /\ before.table \subseteq now.table
     /\ AddedColumns(before, now) \subseteq keys
     /\ now.cells \ Suffix(before, now) = before.cells
     /\ Reusable(final)
     /\ Places(fresh) \cap Places(prior) = {}
     /\ \A d \in prior \cup fresh : LaterPlace(d) \in Places(now.cells)

\* Old derived quarters as they are, and those the suffix adds.
MergedDerived(before, now, final, keys) == PriorDerived(final) \cup Fresh(before, now, final, keys)

Delta(before, now, final, keys) ==
  Direct(final) \cup Suffix(before, now) \cup MergedDerived(before, now, final, keys)

-----------------------------------------------------------------------------
(* The build                                                               *)

Idle == [pc |-> "idle", o |-> 0, prev |-> 0, append |-> FALSE, isolated |-> FALSE]
NoPanels == [built |-> FALSE, cells |-> {}, table |-> {}]

\* release and asof are the intake's; by is the code its roots and panels come
\* from, what approved evidence vouches for not counted.
NewRoot == [release |-> {}, asof |-> 0, roots |-> 0, t1 |-> {}, reported |-> NoPanels,
            panels |-> NoPanels, by |-> {}, receipt |-> 0]

Filings == corpus.filings

Init ==
  /\ corpus \in Corpora
  /\ out = [o \in Outputs |-> NewRoot]
  /\ job = Idle
  /\ code = 1
  /\ approved = {}
  /\ faults = 0

-----------------------------------------------------------------------------
\* What an append must prove before anything is written

Keys(t1) == Columns(t1)

NewFiling(prev, release) == CHOOSE i \in release : i \notin out[prev].release

ExactSuffix(prev, release) ==
  /\ out[prev].release \subseteq release
  /\ \E n \in release : /\ release = out[prev].release \cup {n}
                        /\ \A i \in out[prev].release : i < n

\* The receipt of the previous output, when there is one, must name this
\* code; only without one does migration evidence count.
Evidence(prev) ==
  IF out[prev].receipt # 0 THEN out[prev].receipt = code ELSE <<prev, code>> \in approved

AppendProven(prev, release) ==
  /\ out[prev].panels.built
  /\ ExactSuffix(prev, release)
  /\ Mapping(Filings, release) = Mapping(Filings, out[prev].release)
  /\ Evidence(prev)

NewKeys(j) ==
  Columns(Observed(Filings[NewFiling(j.prev, out[j.o].release)],
                   NewFiling(j.prev, out[j.o].release), {}))

\* The period classes the new filing touches; a year-to-date amount or any
\* quarterly or annual report also changes the table of quarters.
Dirty(j) == {k[3] : k \in NewKeys(j)} \cup {"QTD_3M"}

\* Mutant: tables are copied whatever as-of date they were selected at.
PolicyIgnored(j) == FALSE

PolicyChanged(j) == out[j.prev].asof # out[j.o].asof

-----------------------------------------------------------------------------
\* The build

\* Output roots are taken in order, and one root is only ever given one intake:
\* another is refused before anything is written, and so is a command that
\* requires reuse when the append below cannot be.
Start(o, release, asof) ==
  /\ job = Idle
  /\ release # {}
  /\ out[o].release \in {{}, release} /\ out[o].asof \in {0, asof}
  /\ \A p \in Outputs : p < o => out[p].release # {}

Begin(o, release, asof, j) ==
  /\ job' = j
  /\ out' = [out EXCEPT ![o].release = release, ![o].asof = asof]
  /\ UNCHANGED <<corpus, code, approved, faults>>

\* The previous history is worth reusing and nothing stands at this root yet.
StartAppend(o, release, asof, prev) ==
  /\ Start(o, release, asof)
  /\ prev # o
  /\ out[o].roots = 0
  /\ AppendProven(prev, release)
  /\ Begin(o, release, asof,
           [Idle EXCEPT !.pc = "roots", !.o = o, !.prev = prev, !.append = TRUE])

\* Without a previous history, or when its proof fails: the roots that
\* already stand are kept, the others are produced.
StartFull(o, release, asof) ==
  /\ Start(o, release, asof)
  /\ ~out[o].reported.built
  /\ Begin(o, release, asof, [Idle EXCEPT !.pc = "roots", !.o = o])

\* Mutant: the quarters are left to the process that published the reported panels.
ResumeRefused(o) ==
  /\ job = Idle
  /\ out[o].reported.built /\ out[o].panels.built
  /\ Begin(o, out[o].release, out[o].asof, [Idle EXCEPT !.pc = "quarters", !.o = o])

\* The reported panels stand: only the quarters are left to publish.
StartResume(o) ==
  /\ job = Idle
  /\ out[o].reported.built /\ ~out[o].panels.built
  /\ Begin(o, out[o].release, out[o].asof, [Idle EXCEPT !.pc = "quarters", !.o = o])

PublishT1 ==
  /\ job.pc = "roots" /\ out[job.o].roots = 0
  /\ LET release == out[job.o].release
         n == NewFiling(job.prev, release)
     IN out' = [out EXCEPT
          ![job.o].roots = 1,
          ![job.o].by = IF job.append /\ <<job.prev, code>> \notin approved
                        THEN out[job.prev].by \cup {code} ELSE {code},
          ![job.o].t1 = IF job.append
                        THEN out[job.prev].t1 \cup Observed(Filings[n], n, Mapping(Filings, release))
                        ELSE Observations(Filings, release)]
  /\ UNCHANGED <<corpus, job, code, approved, faults>>

\* An append merges the new filing's graph into the earlier one, unless it
\* touches the earlier filings: then the graph is produced again in full.  Of
\* the graph only this is kept.
MergeGraph == \E merged \in BOOLEAN : job' = [job EXCEPT !.isolated = job.append /\ merged]

\* T2, T3 and T4.
PublishRoot ==
  /\ job.pc = "roots" /\ out[job.o].roots \in 1 .. 3
  /\ out' = [out EXCEPT ![job.o].roots = @ + 1, ![job.o].by = @ \cup {code}]
  /\ IF out[job.o].roots = 2 THEN MergeGraph ELSE UNCHANGED job
  /\ UNCHANGED <<corpus, code, approved, faults>>

\* Tables of untouched classes are copied from the previous reported panels.
ReportedCells(j) ==
  LET all == Reported(out[j.o].t1, corpus.view, out[j.o].asof)
      before == out[j.prev].reported.cells
      copied == {k[3] : k \in Columns(before)}
                  \ (Dirty(j) \cup IF PolicyChanged(j) THEN {k[3] : k \in Columns(before)} ELSE {})
  IN IF j.append
     THEN {c \in all : c.column[3] \notin copied} \cup {c \in before : c.column[3] \in copied}
     ELSE all

PublishReported ==
  /\ job.pc = "roots" /\ out[job.o].roots = 4
  /\ LET cells == ReportedCells(job)
     IN out' = [out EXCEPT ![job.o].by = @ \cup {code},
          ![job.o].reported = [built |-> TRUE, cells |-> cells,
                               table |-> ColumnTable(Filings, out[job.o].release, cells)]]
  /\ job' = [job EXCEPT !.pc = "quarters"]
  /\ UNCHANGED <<corpus, code, approved, faults>>

\* The capability: this process appended, under the same policy, one later
\* 10-Q whose graph is isolated.
Capable(j) ==
  /\ j.append /\ j.isolated
  /\ ~PolicyChanged(j)
  /\ FastInputProven(Keys(out[j.prev].t1), NewKeys(j),
                     Filings[NewFiling(j.prev, out[j.o].release)])

UsesDelta(j) ==
  /\ Capable(j)
  /\ DeltaProven(out[j.prev].reported, out[j.o].reported, out[j.prev].panels.cells, NewKeys(j))

PublishQuarters ==
  /\ job.pc = "quarters"
  /\ LET now == out[job.o].reported
         cells == IF UsesDelta(job)
                  THEN Delta(out[job.prev].reported, now, out[job.prev].panels.cells, NewKeys(job))
                  ELSE Full(now.cells)
     IN out' = [out EXCEPT ![job.o].by = @ \cup {code},
                  ![job.o].panels = [built |-> TRUE, cells |-> cells, table |-> {}]]
  /\ job' = IF job.append THEN [job EXCEPT !.pc = "receipt"] ELSE Idle
  /\ UNCHANGED <<corpus, code, approved, faults>>

WriteReceipt ==
  /\ job.pc = "receipt"
  /\ out' = [out EXCEPT ![job.o].receipt = code]
  /\ job' = Idle
  /\ UNCHANGED <<corpus, code, approved, faults>>

\* An interruption before the first root leaves nothing behind.
Crash ==
  /\ job # Idle /\ out[job.o].roots > 0 /\ faults < MaxFaults
  /\ job' = Idle
  /\ faults' = faults + 1
  /\ UNCHANGED <<corpus, out, code, approved>>

\* Between builds: a new version of the package, and ROOT's approval that an
\* output is compatible with the version on disk.
Upgrade ==
  /\ job = Idle /\ code < MaxCode
  /\ code' = code + 1
  /\ UNCHANGED <<corpus, out, job, approved, faults>>

Approve(o) ==
  /\ job = Idle /\ out[o].panels.built
  /\ Cardinality(approved) < MaxApproved
  /\ approved' = approved \cup {<<o, code>>}
  /\ UNCHANGED <<corpus, out, job, code, faults>>

Rerun(o) == StartResume(o) \/ StartFull(o, out[o].release, out[o].asof)

Command ==
  \E o \in Outputs :
    \/ StartResume(o)
    \/ \E i \in Intakes : \/ \E prev \in Outputs : StartAppend(o, i.release, i.asof, prev)
                          \/ StartFull(o, i.release, i.asof)

Step == PublishT1 \/ PublishRoot \/ PublishReported \/ PublishQuarters \/ WriteReceipt

Next == Command \/ Step \/ Crash \/ Upgrade \/ \E o \in Outputs : Approve(o)

Spec == Init /\ [][Next]_vars

\* A running build goes on, and interrupted builds are taken up again.
Fairness == WF_vars(Step) /\ SF_vars(\E o \in Outputs : Rerun(o))

LiveSpec == Spec /\ Fairness

-----------------------------------------------------------------------------
\* What a recomputation of an output's own release gives.
Recomputed(o) ==
  Full(Reported(Observations(Filings, out[o].release), corpus.view, out[o].asof))

\* A receipt vouches for one producer: nothing under it was made by other
\* code, but for what ROOT approved (history_reuse.py, history.py).
OneProducer ==
  \A o \in Outputs : out[o].receipt # 0 => out[o].panels.built /\ out[o].by = {out[o].receipt}

\* The append and the cell delta change no value: whatever was reused, the
\* panels are those a full build of the same release publishes
\* (analytics/history_quarters.py), and a receipt names who made them.
ReusedIsRebuilt ==
  /\ \A o \in Outputs : out[o].panels.built => out[o].panels.cells = Recomputed(o)
  /\ OneProducer

\* The calendar the cell delta counts on, beyond what it compares.  An amount
\* to date is told by the report that ends with it, and every 10-Q is about a
\* later quarter than the reports filed before it.
Regular(filings, release) ==
  /\ \A i \in release :
       LET f == filings[i]
       IN /\ f.year \in Nat /\ f.quarter \in 1 .. 4
          /\ \A o \in Current(f) : Class(f, o) \in DOMAIN DerivedQuarter =>
               f.quarter = DerivedQuarter[Class(f, o)]
  /\ \A i, j \in release :
       LET f == filings[i]
           g == filings[j]
       IN i < j /\ g.form = "10-Q" =>
            f.year < g.year \/ (f.year = g.year /\ f.quarter < g.quarter)

RegularCorpora ==
  \A c \in Corpora, i \in Intakes : Regular(c.filings, i.release)

\* A build that was started is finished in the end, wherever it was
\* interrupted, by running its command again.
Resumable == []<>(\A o \in Outputs : out[o].release # {} => out[o].panels.built)
=============================================================================
