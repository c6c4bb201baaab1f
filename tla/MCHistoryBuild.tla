--------------------------- MODULE MCHistoryBuild ---------------------------
(***************************************************************************)
(* A small instance of HistoryBuild: one fiscal year of one line, filed as *)
(* a first quarter, a second, a third and a fourth document that is the    *)
(* annual report or a second quarter's amendment.                          *)
(***************************************************************************)
EXTENDS HistoryBuild

Amount(first, last) ==
  [line |-> "sales", start |-> (first - 1) * QuarterDays, end |-> last * QuarterDays]

Filing(form, quarter, facts, remap) ==
  [form |-> form, year |-> 1, quarter |-> quarter, facts |-> facts, remap |-> remap]

Quarter(q) == Amount(q, q)
ToDate(q) == Amount(1, q)
\* An amount over the same quarters whose start is dated three days later.
Shifted(q) == [ToDate(q) EXCEPT !.start = 3]

\* The second report tells only the year to date, the third is regular; the
\* fourth is the annual report, or a second-quarter amendment that dates the
\* half-year otherwise and tells the quarter at last.
First == Filing("10-Q", 1, {Quarter(1)}, FALSE)
Second == Filing("10-Q", 2, {ToDate(2), Quarter(1)}, FALSE)
Third == Filing("10-Q", 3, {Quarter(3), ToDate(3)}, FALSE)
Annual == Filing("10-K", 4, {ToDate(4)}, TRUE)
Amendment == Filing("10-Q/A", 2, {Quarter(2), Shifted(2)}, FALSE)

MCCorpora == {[view |-> "LATEST_REPORTED", filings |-> <<First, Second, Third, Annual>>],
              [view |-> "AS_FILED", filings |-> <<First, Second, Third, Amendment>>]}

Intake(release, asof) == [release |-> release, asof |-> asof]
MCIntakes == {Intake({1, 2}, 1), Intake({1, 2, 3}, 1),
              Intake({1, 2, 3}, 2), Intake({1, 2, 3, 4}, 1)}

ASSUME MCRegular ==
  \A c \in MCCorpora, i \in MCIntakes : Regular(c.filings, i.release)

\* The half-year is filed after the nine months, and neither report tells a
\* quarter: the new amount makes an old one subtractable.
NineMonths == Filing("10-Q", 3, {ToDate(3)}, FALSE)
LateHalf == Filing("10-Q", 2, {ToDate(2)}, FALSE)
LateCorpora == {[view |-> "LATEST_REPORTED", filings |-> <<First, NineMonths, LateHalf, Annual>>]}
=============================================================================
