--------------------------- MODULE FourthQuarter ---------------------------
(***************************************************************************)
(* The fourth quarter as the year less its nine months, twice over one     *)
(* Layer 2 release: mechanically for every structurally compatible pair    *)
(* (longitudinal/mechanical_q4.py), and by policy for the concepts and     *)
(* scopes a registry approves (quarterly_policy.py, q4_policy_registry.py).*)
(* The companions are immutable and name the release they were made of.    *)
(*                                                                         *)
(* A fact is an AS_FILED, REPORTED one with its period and full scope; its *)
(* kind says what the raw concept and unit are: an amount (monetary, one   *)
(* currency), a count (a simple unit), a ratio (a denominator), a balance  *)
(* (not a duration) or a text (no number).  Its roles are the primary      *)
(* statements that present it.                                             *)
(***************************************************************************)
EXTENDS Integers, FiniteSets

CONSTANTS Standard,    \* the concepts of the reviewed allowlist
          CashOnly,    \* those of them that count in the cash flow statement only
          Declared,    \* the concepts a caller of the first policy declares
          Regular,     \* the facts of the first release
          Variants(_), \* the facts of a release that may follow one
          MaxReleases  \* bound: releases that follow

VARIABLES facts, releases, mechanical, registry, policy
vars == <<facts, releases, mechanical, registry, policy>>

None == [of |-> "none"]

\* Of a concept, its dimensions and a period there is one fact at most, the one
\* that selection chose, and a period ends after it begins.
SamePlace(f, g) ==
  f.class = g.class /\ f.concept = g.concept /\ f.dims = g.dims /\ f.from = g.from /\ f.to = g.to
OnePerPlace(F) == (\A f \in F : f.from < f.to) /\ \A f, g \in F : SamePlace(f, g) => f = g

Scope(f) == <<f.concept, f.dims, f.basis, f.unit>>
Years(F) == {f \in F : f.class = "FY"}
NineMonths(F) == {f \in F : f.class = "YTD_9M"}
Input(F) == Years(F) \cup NineMonths(F)

SameStart(fy, ytd) == fy.from = ytd.from
Compatible(fy, ytd) == SameStart(fy, ytd) /\ ytd.to < fy.to

\* The pair's residual: from the end of the nine months to the end of the year.
Residual(fy, ytd) ==
  [fy |-> fy, ytd |-> ytd, from |-> ytd.to, to |-> fy.to, value |-> fy.value - ytd.value]

Out(f, other, reason) == [fact |-> f, other |-> other, reason |-> reason]
NoOther == [class |-> "none"]

-----------------------------------------------------------------------------
(* The mechanical companion *)

Structural == [text |-> "Q4_REPORTED_NUMERIC_RAW_FACT_REQUIRED", balance |-> "Q4_DURATION_CONCEPT_REQUIRED",
               ratio |-> "Q4_SIMPLE_UNIT_REQUIRED"]
Eligible(F) == {f \in Input(F) : f.kind \notin DOMAIN Structural}

MechanicalPairs(F) ==
  {p \in Years(Eligible(F)) \X NineMonths(Eligible(F)) :
     Scope(p[1]) = Scope(p[2]) /\ Compatible(p[1], p[2])}

\* Pairs of one scope for one end of the year exclude each other.
Rivals(p, q) == p # q /\ Scope(p[1]) = Scope(q[1]) /\ p[1].to = q[1].to
Ambiguous(P) == {p \in P : \E q \in P : Rivals(p, q)}

MechanicalCandidates(F) ==
  {Residual(p[1], p[2]) : p \in MechanicalPairs(F) \ Ambiguous(MechanicalPairs(F))}
MechanicalExclusions(F) ==
  {Out(f, NoOther, Structural[f.kind]) : f \in Input(F) \ Eligible(F)}
  \cup {Out(f, NoOther, "Q4_AMBIGUOUS_COMPATIBLE_INPUT_PAIR") :
          f \in UNION {{p[1], p[2]} : p \in Ambiguous(MechanicalPairs(F))}}

-----------------------------------------------------------------------------
(* The policy, given the concepts declared *)

Considered(F) == {f \in Input(F) : f.kind # "text"}
Reviewed(f) == f.kind = "amount"
Rows(F, scope) == {f \in Considered(F) : Scope(f) = scope}

\* Why a whole scope has no fourth quarter, or None.
Refusal(rows, declared) ==
  CASE \E f \in rows : f.concept \notin declared -> "Q4_SEMANTIC_DECLARATION_REQUIRED"
    [] \E f \in rows : ~Reviewed(f) -> "Q4_REVIEWED_MONETARY_ADDITIVE_SEMANTICS_REQUIRED"
    [] Years(rows) = {} \/ NineMonths(rows) = {} -> "Q4_COMPATIBLE_FY_AND_YTD9M_REQUIRED"
    [] OTHER -> "none"

PairReason(fy, ytd) ==
  IF SameStart(fy, ytd) THEN "Q4_PERIOD_BOUNDARIES_INCOMPATIBLE" ELSE "Q4_FISCAL_START_MISMATCH"

Matched(rows) == {p \in Years(rows) \X NineMonths(rows) : Compatible(p[1], p[2])}
ScopeExclusions(rows, declared) ==
  IF Refusal(rows, declared) # "none"
  THEN {Out(f, NoOther, Refusal(rows, declared)) : f \in rows}
  ELSE {Out(p[1], p[2], PairReason(p[1], p[2])) : p \in (Years(rows) \X NineMonths(rows)) \ Matched(rows)}
       \cup (IF Matched(rows) # {} THEN {}
             ELSE {Out(f, NoOther, "Q4_COMPATIBLE_FY_AND_YTD9M_REQUIRED") : f \in NineMonths(rows)})

Scopes(F) == {Scope(f) : f \in Considered(F)}
PolicyCandidates(F, declared) ==
  UNION {LET rows == Rows(F, s)
         IN IF Refusal(rows, declared) # "none" THEN {} ELSE {Residual(p[1], p[2]) : p \in Matched(rows)} :
           s \in Scopes(F)}
PolicyExclusions(F, declared) == UNION {ScopeExclusions(Rows(F, s), declared) : s \in Scopes(F)}

\* A line's predecessor is the fact before it, quarters and years apart; it
\* need not be the period that ended when this one began.
Before(f, g) == f.from < g.from \/ (f.from = g.from /\ f.to < g.to)
Line(F, f) == {g \in F : g.kind # "text" /\ Scope(g) = Scope(f) /\ g.class = f.class}
Predecessor(F, f) ==
  LET earlier == {g \in Line(F, f) : Before(g, f)}
  IN IF earlier = {} THEN NoOther ELSE CHOOSE g \in earlier : \A h \in earlier : h = g \/ Before(h, g)
Linkage(F) ==
  {<<f, Predecessor(F, f)>> : f \in {g \in F : g.class \in {"QTD_3M", "FY"} /\ g.kind # "text"}}

-----------------------------------------------------------------------------
(* The registry: whole scopes with the facts that are evidence for them *)

PrimaryRole(f) == (IF f.concept \in CashOnly THEN f.roles \cap {"cash"} ELSE f.roles \cap {"cash", "income"}) # {}
Evidence(F) == {f \in Input(F) : f.dims = "none" /\ f.concept \in Standard /\ PrimaryRole(f)}
Approvals(F) ==
  {[concept |-> s[1], scope |-> s, approved |-> {f \in Evidence(F) : Scope(f) = s}] : s \in {Scope(f) : f \in Evidence(F)}}

\* The second policy reads declarations by concept and refuses two of one.
Distinct(approvals) == \A a, b \in approvals : a.concept = b.concept => a = b
ConceptsOf(approvals) == {a.concept : a \in approvals}
\* Mutant: the scope is approved, whatever facts were its evidence.
ScopeOnly(c, approvals) == \E a \in approvals : a.scope = Scope(c.fy)
Permitted(c, approvals) ==
  \E a \in approvals : a.scope = Scope(c.fy) /\ {c.fy, c.ytd} \subseteq a.approved

PermittedCandidates(F, approvals) ==
  {c \in PolicyCandidates(F, ConceptsOf(approvals)) : Permitted(c, approvals)}
PermittedExclusions(F, approvals) ==
  PolicyExclusions(F, ConceptsOf(approvals))
  \cup {Out(f, NoOther, "Q4_V2_EXACT_SCOPE_POLICY_REQUIRED") :
          f \in UNION {{c.fy, c.ytd} : c \in {d \in PolicyCandidates(F, ConceptsOf(approvals)) : ~Permitted(d, approvals)}}}

-----------------------------------------------------------------------------
Init ==
  /\ facts = Regular /\ releases = 0
  /\ mechanical = None /\ registry = None /\ policy = None

Release ==
  /\ releases < MaxReleases
  /\ \E F \in Variants(facts) : OnePerPlace(F) /\ facts' = F
  /\ releases' = releases + 1
  /\ UNCHANGED <<mechanical, registry, policy>>

\* A companion is published under a run version of its own, or is the one that
\* is there.
PublishMechanical ==
  /\ mechanical' = [of |-> facts, candidates |-> MechanicalCandidates(facts),
                    exclusions |-> MechanicalExclusions(facts)]
  /\ UNCHANGED <<facts, releases, registry, policy>>

PublishRegistry ==
  /\ registry' = [of |-> facts, approvals |-> Approvals(facts)]
  /\ UNCHANGED <<facts, releases, mechanical, policy>>

RegistryOpens == registry # None /\ registry.of = facts

PublishPolicy ==
  /\ policy' = [of |-> facts, version |-> 1, candidates |-> PolicyCandidates(facts, Declared),
                exclusions |-> PolicyExclusions(facts, Declared), linkage |-> Linkage(facts)]
  /\ UNCHANGED <<facts, releases, mechanical, registry>>

PublishPolicyV2 ==
  /\ RegistryOpens
  /\ Distinct(registry.approvals)
  /\ policy' = [of |-> facts, version |-> 2, registry |-> registry,
                candidates |-> PermittedCandidates(facts, registry.approvals),
                exclusions |-> PermittedExclusions(facts, registry.approvals), linkage |-> Linkage(facts)]
  /\ UNCHANGED <<facts, releases, mechanical, registry>>

Next == Release \/ PublishMechanical \/ PublishRegistry \/ PublishPolicy \/ PublishPolicyV2

-----------------------------------------------------------------------------
(* What opens for the current release *)

MechanicalOpens == mechanical # None /\ mechanical.of = facts
PolicyOpens ==
  /\ policy # None /\ policy.of = facts
  /\ policy.version = 2 => RegistryOpens /\ policy.registry = registry

\* The mechanical companion offers one residual of a scope and an end of the
\* year; the policy offers that one, or another pair competes for that end and
\* the mechanical companion offers none.
SameTarget(c, d) == Scope(c.fy) = Scope(d.fy) /\ c.to = d.to
CompanionsAgree ==
  MechanicalOpens =>
    /\ \A c, d \in mechanical.candidates : SameTarget(c, d) => c = d
    /\ PolicyOpens =>
         \A c \in policy.candidates :
           \/ c \in mechanical.candidates
           \/ /\ \E o \in mechanical.exclusions :
                   o.fact = c.fy /\ o.reason = "Q4_AMBIGUOUS_COMPATIBLE_INPUT_PAIR"
              /\ \A m \in mechanical.candidates : ~SameTarget(m, c)

\* What the second policy offers rests on two undimensioned amounts of a
\* standard concept that a primary statement presents, both measured in the one
\* scope that is approved for the concept.
ResidualsAreApproved ==
  PolicyOpens /\ policy.version = 2 =>
    \A c \in policy.candidates :
      /\ c.fy.kind = "amount" /\ c.ytd.kind = "amount"
      /\ {c.fy, c.ytd} \subseteq Evidence(facts)
      /\ c.from > c.fy.from /\ c.from < c.to
      /\ \A f \in Evidence(facts) : f.concept = c.fy.concept => Scope(f) = Scope(c.fy)

\* No year or nine months disappear: each is part of a residual or is excluded,
\* on its own or as the other side of a pair.
EveryInputHasAnOutcome ==
  PolicyOpens =>
    \A f \in Considered(facts) :
      \/ \E c \in policy.candidates : f \in {c.fy, c.ytd}
      \/ \E o \in policy.exclusions : f \in {o.fact, o.other}

\* A fourth quarter means one thing in both companions, is approved where it
\* must be, and is accounted for where there is none (longitudinal).
FourthQuartersAgree == CompanionsAgree /\ ResidualsAreApproved /\ EveryInputHasAnOutcome
=============================================================================
