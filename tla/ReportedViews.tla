---------------------------- MODULE ReportedViews ----------------------------
(***************************************************************************)
(* What a company's history answers for a period (longitudinal): the       *)
(* facts of its filings under the company ids of CompanyIdentity, as filed *)
(* first or last.                                                          *)
(*                                                                         *)
(* History:  versioned_observation_panel keeps every reported fact with    *)
(*   its ids, reported_selection answers AS_FILED or LATEST_REPORTED.      *)
(* C3-M1:  series makes candidates of the facts, selection chooses within  *)
(*   a filing, as_filed_publication settles what is left, with             *)
(*   core_selection for the common concepts.                               *)
(* Reuse:  history_reuse takes over a history for one more filing if the   *)
(*   mapping of the earlier filings is unchanged.                          *)
(*                                                                         *)
(* A filing of the corpus is [id, form, periods, rows]: it reports each of *)
(* its concepts for each of its periods, in the concept's units, once      *)
(* without a dimension and once for each of its members.  A period stands  *)
(* for the boundaries and the class; axes are always confirmed.            *)
(***************************************************************************)
EXTENDS CompanyIdentity

CONSTANTS
  Filed,        \* what can be filed: filings without an id
  MaxFilings,   \* bound on the filings of the corpus
  CoreNames     \* the local names of the common concepts

VARIABLES
  corpus,   \* the filings, in filing order
  table,    \* the mapping rows published for them
  reuse     \* how the last history was made: "full", "reused" or "refused"

vars == <<corpus, table, reuse>>

Init == corpus = << >> /\ table = << >> /\ reuse = "full"

Named(f) == [id |-> Len(corpus) + 1, form |-> f.form, periods |-> f.periods, rows |-> f.rows]

\* prepare_history_append recomputes the whole mapping: its rows for the filings
\* that the previous history has must be that history's, in the same order.
PrefixUnchanged(old, new) ==
  LET kept == {p \in DOMAIN new : \E i \in DOMAIN old : old[i].raw.filing = new[p].raw.filing}
  IN  /\ Cardinality(kept) = Len(old)
      /\ \A p \in kept : new[p] = old[Cardinality({q \in kept : q <= p})]

\* A filing that is later than all others.
FileNext(f) ==
  /\ Len(corpus) < MaxFilings
  /\ corpus' = Append(corpus, Named(f))
  /\ table' = MappingTable(corpus')
  /\ reuse' = IF corpus = << >> THEN "full"
              ELSE IF PrefixUnchanged(table, table') THEN "reused" ELSE "refused"

\* A filing that is older than the corpus: the inputs are no suffix append.
FileLate(f) ==
  /\ corpus # << >> /\ Len(corpus) < MaxFilings
  /\ corpus' = <<Named(f)>> \o corpus
  /\ table' = MappingTable(corpus')
  /\ reuse' = "refused"

Next == \E f \in Filed : FileNext(f) \/ FileLate(f)

Spec == Init /\ [][Next]_vars

-----------------------------------------------------------------------------
(* The history's views.                                                    *)

RowsOfKind(f, kind) == {i \in DOMAIN f.rows : f.rows[i].kind = kind}

\* A reported fact: the place of its filing, its concept's row and its member's.
Facts(c) ==
  UNION {UNION {[at : {n}, row : {i}, member : {0} \cup RowsOfKind(c[n], "member"),
                 period : c[n].periods, unit : c[n].rows[i].units]
                : i \in RowsOfKind(c[n], "concept")}
         : n \in DOMAIN c}

ConceptMapping(c, t, x) == MappingOf(t, Raw(c[x.at], x.row))
MemberMapping(c, t, x) == MappingOf(t, Raw(c[x.at], x.member))

\* ReportedObservationIdentity: the year of a published taxonomy does not matter,
\* the namespace of an own element does.
ReportedIdentity(c, t, x) ==
  LET m == ConceptMapping(c, t, x)
  IN  [name |-> m.row.name, unit |-> x.unit, period |-> x.period,
       ns |-> IF m.row.standard THEN [m.row.ns EXCEPT !.version = ""] ELSE m.row.ns,
       concept |-> m.id,
       dimension |-> IF x.member = 0 THEN << >> ELSE <<MemberMapping(c, t, x).id>>]

\* By the filing date and the accession, then by the fact's id.
FiledBefore(x, y) ==
  \/ x.at < y.at
  \/ x.at = y.at /\ x.row < y.row
  \/ x.at = y.at /\ x.row = y.row /\ x.member < y.member
FirstFiled(S) == CHOOSE x \in S : \A y \in S \ {x} : ~FiledBefore(y, x)
LastFiled(S) == CHOOSE x \in S : \A y \in S \ {x} : ~FiledBefore(x, y)

Versions(c, t, x) ==
  {y \in Facts(c) : ReportedIdentity(c, t, y) = ReportedIdentity(c, t, x)}

AsFiled(c, t, x) == FirstFiled(Versions(c, t, x))
LatestReported(c, t, x) == LastFiled(Versions(c, t, x))

-----------------------------------------------------------------------------
(* C3-M1.                                                                  *)

\* A mapping that needs a review, or that is no plain continuation, joins
\* nothing: the element is known by itself.
SeriesConcept(m) ==
  IF m.review \/ m.relation \notin {"SAME", "RENAMED", "RECAST"} THEN <<"review", m.raw>>
  ELSE <<"company", m.id>>

Candidate(c, t, x) ==
  LET concept == SeriesConcept(ConceptMapping(c, t, x))
      dimension == IF x.member = 0 THEN << >> ELSE SeriesConcept(MemberMapping(c, t, x))
  IN  [fact |-> x, form |-> c[x.at].form, period |-> x.period,
       concept |-> concept, dimension |-> dimension,
       review |-> "review" \in {concept[1]} \cup (IF x.member = 0 THEN {} ELSE {dimension[1]})]

\* CompanySeriesMaterializer: the CURRENT candidates, those of 10-Ks and 10-Qs.
Candidates(c, t) == {Candidate(c, t, x) : x \in Facts(c)}

\* The first-filed rule of AsOfSeriesSelector sees one filing at a time: its
\* families are told apart by the unit's id, which is the filing's own.
Selected(c, t) ==
  LET all == Candidates(c, t)
      family(k) == {j \in all : /\ j.fact.at = k.fact.at /\ j.fact.unit = k.fact.unit
                                /\ j.concept = k.concept /\ j.dimension = k.dimension
                                /\ j.period = k.period}
  IN  {k \in all : k.fact = FirstFiled({j.fact : j \in family(k)})}

\* An analytical fact is known by its concept, its dimensions and its period.
SameAnalyticalFact(a, b) ==
  a.concept = b.concept /\ a.dimension = b.dimension /\ a.period = b.period

\* Only a mapping that records the period type tells a common concept.
CoreConcepts(t) ==
  {<<"company", m.id>> :
     m \in {k \in {t[i] : i \in DOMAIN t} :
              /\ k.row.kind = "concept" /\ k.row.standard /\ k.row.ns.owner = "fasb"
              /\ k.row.name \in CoreNames
              /\ k.method \in {"BASELINE", "EXACT", "DOCUMENTED"}}}

\* CoreQuarterlyFactSelector: no amendments, 10-Qs before others, and then the
\* filing that was filed last.
CoreSelection(S) ==
  LET eligible == {k \in S : k.form # "10-Q/A"}
      direct == {k \in eligible : k.form = "10-Q"}
      pool == IF direct # {} THEN direct ELSE eligible
  IN  {k \in pool : \A j \in pool : j.fact.at <= k.fact.at}

\* What is published for a group of candidates: one of them, or nothing.
Published(t, S) ==
  LET winners == IF Cardinality(S) = 1 THEN S
                 ELSE IF \E k \in S : k.concept \in CoreConcepts(t) THEN CoreSelection(S)
                 ELSE {}
  IN  IF Cardinality(winners) = 1 THEN {k \in winners : ~k.review} ELSE {}

-----------------------------------------------------------------------------
(* Correctness.                                                            *)

Entries == {table[i] : i \in DOMAIN table}
Undocumented(m) == m.row.doc = NoDoc

(* One company id means one thing: as long as no row with the id documents *)
(* a change, its rows have the same name, the same complete meaning, and   *)
(* if they are an issuer's own the same owner, explicit label and network, *)
(* each unambiguous in its filing.  A row under review shares the id of no *)
(* earlier row, nor does a row that breaks its continuity; an issuer's own *)
(* row without a document has the id of the last row of its name, so no    *)
(* changed meaning is jumped over.  Code: _best_candidate and              *)
(* _map_entity_rows, whose result every history and metric is keyed by.    *)
SharedForReason(a, b) ==
  /\ a.row.kind = b.row.kind /\ a.row.standard = b.row.standard
  /\ a.row.name = b.row.name /\ Compatible(a.row, b.row)
  /\ \/ a.row.standard /\ (a.row.ns = b.row.ns \/ (AnnualFasb(a.row.ns) /\ AnnualFasb(b.row.ns)))
     \/ /\ ~a.row.standard /\ a.row.ns.owner = b.row.ns.owner
        /\ a.row.label = b.row.label /\ a.row.label # ""
        /\ Signature(a.row) = Signature(b.row) /\ Signature(a.row) # {}
        /\ ~a.ambiguous /\ ~b.ambiguous
OwnAlike(a, b) == a.row.kind = b.row.kind /\ ~a.row.standard /\ a.row.name = b.row.name
IdentityIsEvidenced ==
  \A i, j \in DOMAIN table : i < j /\ table[i].id = table[j].id =>
    LET first == table[i]
        second == table[j]
    IN  /\ ~second.review /\ ~second.break
        /\ (\A k \in 1 .. j : table[k].id = second.id => Undocumented(table[k]))
             => SharedForReason(first, second)
        /\ Undocumented(second) /\ ~second.row.standard =>
             \A k \in (i + 1) .. (j - 1) :
               OwnAlike(table[k], second) /\ (\A l \in (k + 1) .. (j - 1) : ~OwnAlike(table[l], second))
                 => table[k].id = second.id

(* A filing that comes after all others changes nothing that was answered: *)
(* the history can be taken over, the ids of earlier elements stay, the    *)
(* first report of a figure stays the answer AS_FILED, and LATEST_REPORTED *)
(* moves to the new filing or not at all.  Code: prepare_history_append    *)
(* refuses the reuse if the recomputed mapping differs, so an evidence     *)
(* that looked ahead would cost every company its reuse.                   *)
AppendKeepsReports ==
  [][Len(corpus) > 0 /\ SubSeq(corpus', 1, Len(corpus)) = corpus =>
       /\ reuse' = "reused"
       /\ \A x \in Facts(corpus) :
            /\ AsFiled(corpus', table', x) = AsFiled(corpus, table, x)
            /\ LET latest == LatestReported(corpus', table', x)
               IN  latest = LatestReported(corpus, table, x) \/ latest.at = Len(corpus')]_vars

(* "A later comparative value cannot overwrite the first directly reported *)
(* AS_FILED observation" (in the C3-M1 notes).  Code: the collisions of    *)
(* _resolve_as_filed_identity_collisions.                                  *)
AsFiledIsFirstReported ==
  LET selected == Selected(corpus, table)
  IN  \A k \in selected :
        LET group == {j \in selected : SameAnalyticalFact(j, k)}
        IN  \A y \in Published(table, group), j \in group :
              j.form # "10-Q/A" => y.fact.at <= j.fact.at
==============================================================================
