----------------------- MODULE MCCompanyCollection -----------------------
(***************************************************************************)
(* From a company's filings to their history.  A behaviour runs one part   *)
(* and leaves the others where they start.                                 *)
(*                                                                         *)
(* Discovery (FilingDiscovery): the filings of one company are found.      *)
(* Collection (CompanyCollection): two companies and two shells.           *)
(* Identity (ReportedViews): one company's filings arrive.                 *)
(***************************************************************************)
EXTENDS CompanyCollection, TLC

CONSTANTS
  a, b, p1, p2,
  Submittable, Newest, Years, AsOfs, MaxFiled, MaxFixes, MaxCommands, \* of FilingDiscovery
  Filed, MaxFilings, CoreNames                                        \* of ReportedViews

VARIABLES part, corpus, table, reuse, sec, fixes, commands, stored, discovery, found

\* Company a has two filings, one of them in the source run with other content.
TwoCompanies == <<a, b>>
TwoAndOne == (a :> 2) @@ (b :> 1)
OneInSource == (a :> <<"other", "none">>) @@ (b :> <<"none">>)

\* Two faults for operators who keep to the next action, none for the others.
TwoIfGuided == (TRUE :> 2) @@ (FALSE :> 0)

-----------------------------------------------------------------------------
(* Elements as filed: a concept of a taxonomy, one of the issuer and a     *)
(* member of the issuer, what can be different the next time, and filings  *)
(* of them.                                                                *)

Ns(owner, version) == [owner |-> owner, version |-> version]
Role(owner, version, path) == [owner |-> owner, version |-> version, path |-> path]
Link(role) == [is |-> "financial", role |-> role, to |-> "total"]
Undocumented == [relation |-> "", prior |-> ""]

Revenue == [kind |-> "concept", standard |-> TRUE, ns |-> Ns("fasb", "2023"), name |-> "Revenue",
            label |-> "Sales", sem |-> "flow", units |-> {"usd"}, doc |-> Undocumented,
            edges |-> {Link(Role("issuer", "2023", "income"))}]
Widgets == [Revenue EXCEPT !.standard = FALSE, !.ns = Ns("issuer", "2023"), !.name = "Widgets",
                           !.label = "Widgets"]
NextYear(row) == [row EXCEPT !.ns.version = "2024", !.edges = {Link(Role("issuer", "2024", "income"))}]
Gadgets == [Widgets EXCEPT !.name = "Gadgets", !.label = "Gadgets"]
Member == [Widgets EXCEPT !.kind = "member", !.name = "Europe", !.label = "Europe", !.sem = "domain",
                          !.units = {}]
Change(row, relation, prior) == [row EXCEPT !.doc = [relation |-> relation, prior |-> prior]]

Report(form, periods, rows) == [form |-> form, periods |-> periods, rows |-> rows]
OfQuarter(rows) == Report("10-Q", {"q1"}, rows)

Changed ==
  {[Widgets EXCEPT !.edges = {[Link(Role("issuer", "2023", "income")) EXCEPT !.to = "other"]}],
   [Widgets EXCEPT !.edges = @ \cup {[Link(Role("", "", "")) EXCEPT !.is = "unsupported"]}],
   [Widgets EXCEPT !.label = ""],
   [Widgets EXCEPT !.label = "Sales"],
   [Widgets EXCEPT !.sem = "none"],
   [Widgets EXCEPT !.ns.owner = "bought"],
   [Revenue EXCEPT !.sem = "balance"],
   [Revenue EXCEPT !.ns = Ns("dei", "2023")],
   NextYear(Widgets), NextYear(Revenue),
   Change(Widgets, "RECAST", "Widgets"), Change(Widgets, "MERGED", "Revenue"),
   Gadgets, Change(Gadgets, "RENAMED", "Widgets")}

FiledCases ==
  {OfQuarter(<<Widgets>>), OfQuarter(<<Revenue>>)}
    \cup {OfQuarter(<<row>>) : row \in Changed}
    \cup {Report(form, {"q1"}, <<Revenue>>) : form \in {"10-Q/A", "10-K"}}
    \cup {Report("10-Q", {"q1", "q2"}, <<Revenue>>), Report("10-Q", {"q2"}, <<Widgets>>),
          OfQuarter(<<[Revenue EXCEPT !.units = {"usd", "eur"}]>>),
          OfQuarter(<<Widgets, NextYear(Widgets)>>), OfQuarter(<<Widgets, Gadgets>>),
          OfQuarter(<<Revenue, Member>>), OfQuarter(<<NextYear(Member), Widgets>>),
          OfQuarter(<<Revenue, NextYear(Revenue)>>)}

V == INSTANCE ReportedViews

ASSUME FiledAssumption == \A f \in Filed : f.rows \in Seq(V!Row)

-----------------------------------------------------------------------------
(* The instance has a root payload of one filing, another file of up to    *)
(* three, and one fiscal year asked for; the theorems keep the parameters. *)

Submitted(form, report) == [form |-> form, report |-> report]
MCSubmittable ==
  {Submitted("10-K", 2), Submitted("10-K", 4), Submitted("10-Q", 3), Submitted("10-K/A", 2)}

D == INSTANCE FilingDiscovery WITH Reports <- Submittable, plan <- found

\* Days are numbered by the filings; a report date is a number.
ASSUME DiscoveryAssumption ==
  /\ Newest \in Nat /\ Years \in Nat /\ AsOfs \subseteq Nat
  /\ \A r \in Submittable : r.report \in Nat

-----------------------------------------------------------------------------
collectionVars == <<manifest, plan, own, intake, publication, marker, collected, built, job,
                    guided, faults>>
identityVars == <<corpus, table, reuse>>

discoveryVars == <<sec, fixes, commands, stored, discovery, found>>
NothingSubmitted ==
  /\ sec = <<>> /\ fixes = 0 /\ commands = 0 /\ stored = {}
  /\ discovery = D!Idle /\ found = D!NoPlan

MCInit ==
  /\ Init /\ V!Init
  /\ \/ part = "collection" /\ NothingSubmitted
     \/ part = "identity" /\ ~guided /\ NothingSubmitted
     \/ part = "discovery" /\ ~guided /\ D!Init

MCNext ==
  /\ UNCHANGED part
  /\ \/ part = "collection" /\ Next /\ UNCHANGED <<identityVars, discoveryVars>>
     \/ part = "identity" /\ V!Next /\ UNCHANGED <<collectionVars, discoveryVars>>
     \/ part = "discovery" /\ D!Next /\ UNCHANGED <<collectionVars, identityVars>>

mcvars == <<part, collectionVars, identityVars, discoveryVars>>
MCSpec == MCInit /\ [][MCNext]_mcvars /\ Fairness

\* A plan made over the network names every filing of its years (FilingDiscovery).
PlanIsComplete == part = "discovery" => D!PlanIsComplete

\* The properties of ReportedViews.
IdentityIsEvidenced == V!IdentityIsEvidenced
AppendKeepsReports == V!AppendKeepsReports
AsFiledIsFirstReported == V!AsFiledIsFirstReported
=============================================================================
