-------------------------- MODULE CompanyIdentity ---------------------------
(***************************************************************************)
(* Which elements of a company's filings are one and the same thing        *)
(* (longitudinal/canonical.py): CompanyCanonicalizer gives every concept,  *)
(* axis and member of every filing a company id.  It goes through the      *)
(* filings in the order they were filed and compares an element with those *)
(* placed before; equal names or labels alone never join two.              *)
(*                                                                         *)
(* A corpus is a sequence of filings [id, form, periods, rows].  A row is  *)
(* an element as filed:                                                    *)
(*   kind            concept, axis or member                               *)
(*   standard        of a published taxonomy, else the issuer's own        *)
(*   ns              [owner, version], version "" when the URI has none    *)
(*   name, label     the label "" when the filing gives none               *)
(*   sem             period type, data type, balance and abstractness;     *)
(*                   "none" when the period or the data type is missing    *)
(*   edges           its relationships [is, role, to]: a resource, a       *)
(*                   complete relationship of a known kind, or another     *)
(*   doc             a documented change [relation, prior] that lists      *)
(*                   every earlier row of its kind with the name prior     *)
(* Rows of a filing are in the order of their raw ids, which are hashes.   *)
(***************************************************************************)
EXTENDS Naturals, Sequences, FiniteSetsExt, SequencesExt

Row ==
  [kind : {"concept", "axis", "member"}, standard : BOOLEAN,
   ns : [owner : STRING, version : STRING], name : STRING, label : STRING, sem : STRING,
   units : SUBSET STRING, doc : [relation : STRING, prior : STRING],
   edges : SUBSET [is : STRING, role : [owner : STRING, version : STRING, path : STRING],
                   to : STRING]]

NoDoc == [relation |-> "", prior |-> ""]

Breaks == {"RECAST", "SPLIT", "MERGED"}

\* The place of a row: its raw id.
Raw(f, i) == [filing |-> f.id, row |-> i]

-----------------------------------------------------------------------------
(* What two rows have in common.                                           *)

Compatible(a, b) == a.sem # "none" /\ a.sem = b.sem

\* A year at the end of the namespace is not part of its owner's identity.
NamespaceFamily(ns) == IF ns.version = "" THEN ns ELSE [ns EXCEPT !.version = "{version}"]

AnnualFasb(ns) == ns.owner = "fasb" /\ ns.version # ""

\* casefold and single blanks are left out: a text is its folded form.
Text(a) == IF a.label # "" THEN a.label ELSE a.name

\* The namespace of the filing's issuer in a role is taken without its year.
IssuerRole(role, ns) ==
  IF role.owner = ns.owner /\ role.version = ns.version
    THEN [role EXCEPT !.version = NamespaceFamily(ns).version] ELSE role

\* Relationships of an unknown kind, or incomplete ones, make the row unusable
\* as evidence; labels and references do not count.
Signature(a) ==
  LET qualified == {e \in a.edges : e.is # "resource"}
  IN  IF \E e \in qualified : e.is # "financial" THEN {}
      ELSE {<<IssuerRole(e.role, a.ns), e.to>> : e \in qualified}

RoleSignature(a) == {e.role : e \in a.edges}

ExactStandard(a, b) ==
  a.standard /\ b.standard /\ a.ns = b.ns /\ a.name = b.name /\ Compatible(a, b)

NamespaceContinuity(a, b) ==
  /\ a.standard /\ b.standard
  /\ AnnualFasb(a.ns) /\ AnnualFasb(b.ns) /\ a.ns # b.ns
  /\ a.name = b.name /\ Compatible(a, b)

\* Two rows of one filing, with the issuer's name twice in it, prove nothing.
CustomContinuity(a, b) ==
  /\ ~a.row.standard /\ ~b.row.standard
  /\ ~a.ambiguous /\ ~b.ambiguous
  /\ a.raw.filing # b.raw.filing
  /\ NamespaceFamily(a.row.ns) = NamespaceFamily(b.row.ns)
  /\ a.row.name = b.row.name
  /\ a.row.label # "" /\ a.row.label = b.row.label
  /\ Compatible(a.row, b.row)
  /\ Signature(a.row) # {} /\ Signature(a.row) = Signature(b.row)

-----------------------------------------------------------------------------
(* The mapping of one row, given the table of those before it.             *)

Decision(prior, relation, method) ==
  [prior |-> prior, relation |-> relation, method |-> method,
   confirmed |-> method \notin {"TEXT", "CHANGED"},
   break |-> method = "DOCUMENTED" /\ relation \in Breaks]

NewestOf(S) == IF S = {} THEN 0 ELSE Max(S)

\* Where each kind of evidence finds its newest prior row of the table, 0 if none.
Documented(table, e) ==
  NewestOf({i \in DOMAIN table : e.row.doc # NoDoc /\ table[i].row.name = e.row.doc.prior})
Standard(table, e) ==
  NewestOf({i \in DOMAIN table : \/ ExactStandard(e.row, table[i].row)
                                 \/ NamespaceContinuity(e.row, table[i].row)})
\* Mutant: a changed meaning is jumped over to reconnect to an older one.
CustomReconnected(table, e) ==
  LET supported == {i \in DOMAIN table : CustomContinuity(e, table[i])}
      named == {i \in DOMAIN table : /\ ~e.row.standard /\ ~table[i].row.standard
                                     /\ table[i].row.name = e.row.name}
  IN  IF supported # {} THEN Max(supported) ELSE NewestOf(named)
Custom(table, e) ==
  NewestOf({i \in DOMAIN table : /\ ~e.row.standard /\ ~table[i].row.standard
                                 /\ table[i].row.name = e.row.name})
SameText(table, e) == NewestOf({i \in DOMAIN table : Text(table[i].row) = Text(e.row)})

\* The entries that cannot be compared are hidden: another kind of element.
OfKind(table, kind) ==
  [i \in {j \in DOMAIN table : table[j].row.kind = kind} |-> table[i]]

BestCandidate(all, e) ==
  LET table == OfKind(all, e.row.kind)
      documented == Documented(table, e)
      standard == Standard(table, e)
      custom == Custom(table, e)
      text == SameText(table, e)
  IN  IF documented # 0 THEN Decision(documented, e.row.doc.relation, "DOCUMENTED")
      ELSE IF standard # 0
        THEN Decision(standard, "SAME",
                      IF ExactStandard(e.row, table[standard].row) THEN "EXACT" ELSE "NAMESPACE")
      ELSE IF custom # 0
        THEN IF CustomContinuity(e, table[custom])
               THEN Decision(custom, IF e.row.ns = table[custom].row.ns THEN "SAME" ELSE "RENAMED",
                             "CUSTOM")
               ELSE Decision(custom, "UNCERTAIN", "CHANGED")
      ELSE IF text # 0 THEN Decision(text, "UNCERTAIN", "TEXT")
      ELSE Decision(0, IF e.ambiguous THEN "UNCERTAIN" ELSE "SAME",
                    IF e.ambiguous THEN "AMBIGUOUS" ELSE "BASELINE")

\* A changed role is told of a row that stays the same and names its prior row.
RoleRestructured(prior, e) ==
  /\ RoleSignature(prior.row) # {} /\ RoleSignature(e.row) # {}
  /\ RoleSignature(prior.row) # RoleSignature(e.row)

Event(table, e, d) ==
  IF d.prior = 0 THEN "NEW"
  ELSE IF d.break
    THEN IF d.relation # "RECAST" THEN d.relation
         ELSE IF e.row.kind = "member" THEN "SEGMENT_RECAST" ELSE "UNKNOWN_CHANGE"
  ELSE IF d.relation = "RENAMED" /\ e.row.kind = "member" THEN "MEMBER_RENAME"
  ELSE IF d.relation = "SAME" /\ d.method # "DOCUMENTED" /\ RoleRestructured(table[d.prior], e)
    THEN "ROLE_RESTRUCTURE"
  ELSE IF d.relation = "UNCERTAIN" THEN "UNKNOWN_CHANGE" ELSE "none"

\* The company id: the prior row's, or a new one named after the row itself.
CanonicalId(table, e, d) ==
  IF d.prior # 0 /\ d.confirmed /\ ~d.break THEN table[d.prior].id
  ELSE [raw |-> e.raw, recast |-> d.break]

Map(table, e) ==
  LET d == BestCandidate(table, e)
  IN  Append(table,
        [raw |-> e.raw, row |-> e.row, ambiguous |-> e.ambiguous,
         id |-> CanonicalId(table, e, d), relation |-> d.relation, method |-> d.method,
         break |-> d.break, event |-> Event(table, e, d),
         review |-> IF d.prior = 0 THEN e.ambiguous ELSE ~d.confirmed])

\* Mutant: the names of all filings are counted together.
AmbiguousAnywhere(corpus, n, i) ==
  LET own == corpus[n].rows[i]
  IN  /\ ~own.standard
      /\ \E k \in DOMAIN corpus : \E j \in DOMAIN corpus[k].rows :
           LET row == corpus[k].rows[j]
           IN  ~row.standard /\ row.kind = own.kind /\ row.name = own.name /\ row.ns # own.ns

\* A filing has the local name of an own element more than once.
Ambiguous(corpus, n, i) ==
  LET rows == corpus[n].rows
  IN  /\ ~rows[i].standard
      /\ \E j \in DOMAIN rows \ {i} :
           ~rows[j].standard /\ rows[j].kind = rows[i].kind /\ rows[j].name = rows[i].name

\* CompanyCanonicalizer.build: the mapping rows, in the order they were placed.
MappingTable(corpus) ==
  LET elements(n) ==
        [i \in DOMAIN corpus[n].rows |->
           [raw |-> Raw(corpus[n], i), row |-> corpus[n].rows[i],
            ambiguous |-> Ambiguous(corpus, n, i)]]
  IN  FoldLeft(Map, << >>, FlattenSeq([n \in DOMAIN corpus |-> elements(n)]))

MappingOf(table, raw) == CHOOSE m \in {table[i] : i \in DOMAIN table} : m.raw = raw
=============================================================================
