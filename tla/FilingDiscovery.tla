--------------------------- MODULE FilingDiscovery ---------------------------
(***************************************************************************)
(* How a company's plan of filings is made (discover_history of history,   *)
(* filing/company_discovery, filing/trailing_corpus): the submissions of   *)
(* one company are fetched from SEC, a root payload with the newest        *)
(* filings and a file with the older ones, while companies file and SEC    *)
(* corrects what it serves.  Payloads are kept by their content; a         *)
(* discovery without the network reads all that were ever kept.  The plan  *)
(* names the filings of the trailing fiscal years and is never replaced.   *)
(*                                                                         *)
(* A filing's number is its place in the order of filing and its day.  A   *)
(* report date is a number, 0 if SEC gives none.  The checkpoint that a    *)
(* discovery writes (DiscoveryStateStore) is read by nobody and left out.  *)
(***************************************************************************)
EXTENDS Naturals, Sequences, FiniteSetsExt

CONSTANTS
  Reports,     \* what can be filed: [form, report]
  Newest,      \* how many filings the root payload shows
  Years,       \* the fiscal years that are asked for
  AsOfs,       \* the days that may be asked for
  MaxFiled,    \* bound on the filings
  MaxFixes,    \* bound on the corrections
  MaxCommands  \* bound on the commands; nothing happens once there is a plan

VARIABLES
  sec,         \* the filings as SEC has them
  fixes,       \* corrections made
  commands,    \* commands begun
  stored,      \* the payloads kept in the workspace
  discovery,   \* the command that runs, if any
  plan         \* the plan of the workspace, if any

vars == <<sec, fixes, commands, stored, discovery, plan>>

NoPlan == [online |-> FALSE, filings |-> {}]
Idle == [pc |-> "idle"]

Row(n) == [n |-> n, form |-> sec[n].form, report |-> sec[n].report]

Init ==
  /\ sec \in UNION {[1..n -> Reports] : n \in 1..(Newest + 1)}
  /\ fixes = 0 /\ commands = 0 /\ stored = {} /\ discovery = Idle /\ plan = NoPlan

-----------------------------------------------------------------------------
(* SEC.                                                                    *)

\* A filing is accepted; the oldest of the root payload moves to the other file.
Submit ==
  /\ Len(sec) < MaxFiled /\ plan = NoPlan
  /\ \E r \in Reports : sec' = Append(sec, r)
  /\ UNCHANGED <<fixes, commands, stored, discovery, plan>>

Correct ==
  /\ fixes < MaxFixes /\ plan = NoPlan /\ fixes' = fixes + 1
  /\ \E n \in DOMAIN sec, r \in Reports : sec[n].form = r.form /\ sec' = [sec EXCEPT ![n] = r]
  /\ UNCHANGED <<commands, stored, discovery, plan>>

Older == {n \in DOMAIN sec : n + Newest <= Len(sec)}
RootPayload ==
  [is |-> "root", rows |-> {Row(n) : n \in DOMAIN sec \ Older}, files |-> Older # {}]
OlderPayload == [is |-> "older", rows |-> {Row(n) : n \in Older}]

-----------------------------------------------------------------------------
(* discover_history: one command at a time.                                *)

Discover(online, day) ==
  /\ discovery = Idle /\ plan = NoPlan
  /\ commands < MaxCommands /\ commands' = commands + 1
  /\ discovery' = [pc |-> IF online THEN "root" ELSE "select", online |-> online, day |-> day,
                   began |-> Len(sec), got |-> IF online THEN {} ELSE stored]
  /\ UNCHANGED <<sec, fixes, stored, plan>>

\* CompanySubmissionsCollector.collect: a payload is kept as it comes.
Keep(payload, next) ==
  /\ stored' = stored \cup {payload}
  /\ discovery' = [discovery EXCEPT !.pc = next, !.got = @ \cup {payload}]
  /\ UNCHANGED <<sec, fixes, commands, plan>>

FetchRoot ==
  /\ discovery.pc = "root"
  /\ Keep(RootPayload, IF RootPayload.files THEN "older" ELSE "select")

\* Mutant: the older filings do not change and are fetched once.
FetchOlderOnce ==
  /\ discovery.pc = "older"
  /\ LET kept == {p \in stored : p.is = "older"}
     IN  IF kept = {} THEN Keep(OlderPayload, "select") ELSE Keep(CHOOSE p \in kept : TRUE, "select")

FetchOlder ==
  /\ discovery.pc = "older"
  /\ Keep(OlderPayload, "select")

\* A request fails for good, or the process dies; what was kept stays.
Interrupted ==
  /\ discovery.pc \in {"root", "older"}
  /\ discovery' = Idle
  /\ UNCHANGED <<sec, fixes, commands, stored, plan>>

\* CompanySubmissionsAccessionProvider: payloads that disagree about a filing
\* are refused.
Rows(payloads) == UNION {p.rows : p \in payloads}
Agree(rows) == \A r, s \in rows : r.n = s.n => r = s

\* The ends of the fiscal years: the report dates of the 10-Ks, never of their
\* amendments.
YearEnds(rows) == {r.report : r \in {s \in rows : s.form = "10-K" /\ s.report # 0}}

NewestYears(ends) == CHOOSE S \in kSubset(Years, ends) : \A x \in S, y \in ends \ S : y < x

\* select_trailing_fiscal_filings: all that is reported for a time after the
\* year before the oldest of the years, by whatever form and whenever filed.
Trailing(rows) ==
  LET ends == YearEnds(rows)
      before == ends \ NewestYears(ends)
  IN  {r \in rows : before = {} \/ r.report = 0 \/ r.report > Max(before)}

WritePlan ==
  /\ discovery.pc = "select"
  /\ discovery' = Idle
  /\ LET rows == {r \in Rows(discovery.got) : r.n <= discovery.day}
         made == [online |-> discovery.online, day |-> discovery.day, began |-> discovery.began,
                  from |-> discovery.got, filings |-> Trailing(rows)]
     IN  plan' = IF /\ plan = NoPlan
                    /\ Agree(Rows(discovery.got))
                    /\ Cardinality(YearEnds(rows)) >= Years
                 THEN made ELSE plan
  /\ UNCHANGED <<sec, fixes, commands, stored>>

Next ==
  \/ Submit \/ Correct
  \/ \E online \in BOOLEAN, day \in AsOfs : Discover(online, day)
  \/ FetchRoot \/ FetchOlder \/ Interrupted \/ WritePlan

Spec == Init /\ [][Next]_vars

-----------------------------------------------------------------------------
(* A plan made over the network names every filing of its years: whatever  *)
(* is filed, corrected and moved between the two files while they are      *)
(* fetched, none that was filed before is missed, none is taken in two     *)
(* versions, and a filing is left out only if more than the years asked    *)
(* for ended on its report date or after.  Code: collect fetches the root  *)
(* payload before the files it names, iter_filings refuses a conflict.     *)
PlanIsComplete ==
  plan.online /\ plan.day <= plan.began =>
    LET rows == {r \in Rows(plan.from) : r.n <= plan.day}
        ended(r) == {x \in YearEnds(rows) : x >= r.report}
    IN  /\ {r.n : r \in rows} = 1..plan.day
        /\ Agree(rows)
        /\ \A r \in rows :
             r \in plan.filings <=> r.report = 0 \/ Cardinality(ended(r)) <= Years
==============================================================================
