---------------------------- MODULE RulesProofs ----------------------------
(***************************************************************************)
(* Proofs about the rules that MCRules checks on small cases.  The fourth  *)
(* quarters: the two companions of a release (FourthQuarter), for any      *)
(* facts of any releases, and the reviewed one (ReviewedFourthQuarter),    *)
(* for any histories, evidence and decisions.  The delivery of a universe, *)
(* for any files on disk.  The latest views of the quarterly and annual    *)
(* metrics, for any facts of any filings.                                  *)
(***************************************************************************)
EXTENDS MCRules, FiniteSetTheorems, WellFoundedInduction, TLAPS

-----------------------------------------------------------------------------
(* What the two derivations are, for every set of facts                    *)

\* A residual of the policy is that of a pair the mechanical derivation
\* considers: both sides are amounts of one scope.
LEMMA PolicyPairIsMechanical ==
  ASSUME NEW F, NEW declared, NEW c \in Q!PolicyCandidates(F, declared)
  PROVE  /\ c = Q!Residual(c.fy, c.ytd)
         /\ <<c.fy, c.ytd>> \in Q!MechanicalPairs(F)
         /\ c.fy.kind = "amount" /\ c.ytd.kind = "amount"
<1>1. PICK s \in Q!Scopes(F) :
        /\ Q!Refusal(Q!Rows(F, s), declared) = "none"
        /\ \E p \in Q!Matched(Q!Rows(F, s)) : c = Q!Residual(p[1], p[2])
  BY DEF Q!PolicyCandidates
<1> DEFINE rows == Q!Rows(F, s)
<1>2. PICK p \in Q!Matched(rows) : c = Q!Residual(p[1], p[2])
  BY <1>1
<1>3. /\ p = <<p[1], p[2]>> /\ p[1] \in Q!Years(rows) /\ p[2] \in Q!NineMonths(rows)
      /\ Q!Compatible(p[1], p[2])
  BY DEF Q!Matched
<1>4. c.fy = p[1] /\ c.ytd = p[2]
  BY <1>2 DEF Q!Residual
<1>5. \A f \in rows : f.kind = "amount"
  BY <1>1 DEF Q!Refusal, Q!Reviewed
<1>6. \A f \in rows : f \in Q!Input(F) /\ Q!Scope(f) = s
  BY DEF Q!Rows, Q!Considered
<1>7. /\ p[1] \in rows /\ p[1].class = "FY" /\ p[2] \in rows /\ p[2].class = "YTD_9M"
  BY <1>3 DEF Q!Years, Q!NineMonths
<1>8. p[1].kind \notin DOMAIN Q!Structural /\ p[2].kind \notin DOMAIN Q!Structural
  BY <1>5, <1>7 DEF Q!Structural
<1>9. p[1] \in Q!Years(Q!Eligible(F)) /\ p[2] \in Q!NineMonths(Q!Eligible(F))
  BY <1>6, <1>7, <1>8 DEF Q!Eligible, Q!Years, Q!NineMonths
<1>10. <<p[1], p[2]>> \in Q!MechanicalPairs(F)
  <2>1. <<p[1], p[2]>>[1] = p[1] /\ <<p[1], p[2]>>[2] = p[2]
    OBVIOUS
  <2> QED BY <1>3, <1>6, <1>7, <1>9, <2>1 DEF Q!MechanicalPairs
<1> QED BY <1>2, <1>4, <1>5, <1>7, <1>10

\* A mechanical candidate is the residual of its two facts, a pair that has no
\* rival.
LEMMA MechanicalIsUnrivalled ==
  ASSUME NEW F, NEW c \in Q!MechanicalCandidates(F)
  PROVE  /\ c = Q!Residual(c.fy, c.ytd)
         /\ <<c.fy, c.ytd>> \in Q!MechanicalPairs(F) \ Q!Ambiguous(Q!MechanicalPairs(F))
<1>1. PICK p \in Q!MechanicalPairs(F) \ Q!Ambiguous(Q!MechanicalPairs(F)) : c = Q!Residual(p[1], p[2])
  BY DEF Q!MechanicalCandidates
<1>2. p = <<p[1], p[2]>>
  BY DEF Q!MechanicalPairs
<1>3. c.fy = p[1] /\ c.ytd = p[2]
  BY <1>1 DEF Q!Residual
<1> QED BY <1>1, <1>2, <1>3

\* Residuals of one target come of rivals, or are the same.
LEMMA SameTargetIsRival ==
  ASSUME NEW c, NEW d, c = Q!Residual(c.fy, c.ytd), d = Q!Residual(d.fy, d.ytd),
         Q!SameTarget(c, d), c # d
  PROVE  Q!Rivals(<<c.fy, c.ytd>>, <<d.fy, d.ytd>>)
<1>1. c.to = c.fy.to /\ d.to = d.fy.to
  BY DEF Q!Residual
<1>2. <<c.fy, c.ytd>> # <<d.fy, d.ytd>>
  <2> SUFFICES ASSUME <<c.fy, c.ytd>> = <<d.fy, d.ytd>> PROVE FALSE
    OBVIOUS
  <2>1. c.fy = d.fy /\ c.ytd = d.ytd
    OBVIOUS
  <2> QED BY <2>1
<1>3. <<c.fy, c.ytd>>[1] = c.fy /\ <<d.fy, d.ytd>>[1] = d.fy
  OBVIOUS
<1> QED BY <1>1, <1>2, <1>3 DEF Q!Rivals, Q!SameTarget

\* One mechanical residual of a scope and an end of the year.
LEMMA MechanicalIsOne ==
  ASSUME NEW F, NEW c \in Q!MechanicalCandidates(F), NEW d \in Q!MechanicalCandidates(F), Q!SameTarget(c, d)
  PROVE  c = d
<1> SUFFICES ASSUME c # d PROVE FALSE
  OBVIOUS
<1>1. Q!Rivals(<<c.fy, c.ytd>>, <<d.fy, d.ytd>>)
  BY MechanicalIsUnrivalled, SameTargetIsRival
<1> QED BY <1>1, MechanicalIsUnrivalled DEF Q!Ambiguous

\* The policy's residual is the mechanical one, or another pair competes for its
\* target, which the mechanical companion says, offering none.
LEMMA PolicyAgrees ==
  ASSUME NEW F, NEW declared, NEW c \in Q!PolicyCandidates(F, declared)
  PROVE  \/ c \in Q!MechanicalCandidates(F)
         \/ /\ \E o \in Q!MechanicalExclusions(F) :
                 o.fact = c.fy /\ o.reason = "Q4_AMBIGUOUS_COMPATIBLE_INPUT_PAIR"
            /\ \A m \in Q!MechanicalCandidates(F) : ~Q!SameTarget(m, c)
<1> DEFINE pair == <<c.fy, c.ytd>>
           P == Q!MechanicalPairs(F)
<1>1. c = Q!Residual(c.fy, c.ytd) /\ pair \in P
  BY PolicyPairIsMechanical
<1>2. pair[1] = c.fy /\ pair[2] = c.ytd
  OBVIOUS
<1>3. CASE pair \notin Q!Ambiguous(P)
  BY <1>1, <1>2, <1>3 DEF Q!MechanicalCandidates
<1>4. CASE pair \in Q!Ambiguous(P)
  <2> DEFINE o == Q!Out(c.fy, Q!NoOther, "Q4_AMBIGUOUS_COMPATIBLE_INPUT_PAIR")
  <2>1. c.fy \in UNION {{p[1], p[2]} : p \in Q!Ambiguous(P)}
    BY <1>2, <1>4
  <2>2. o \in Q!MechanicalExclusions(F)
    BY <2>1 DEF Q!MechanicalExclusions
  <2>3. o.fact = c.fy /\ o.reason = "Q4_AMBIGUOUS_COMPATIBLE_INPUT_PAIR"
    BY DEF Q!Out
  <2>4. ASSUME NEW m \in Q!MechanicalCandidates(F), Q!SameTarget(m, c) PROVE FALSE
    <3>1. m = Q!Residual(m.fy, m.ytd) /\ <<m.fy, m.ytd>> \in P \ Q!Ambiguous(P)
      BY MechanicalIsUnrivalled
    <3>2. m # c
      BY <1>4, <3>1
    <3>3. Q!Rivals(<<m.fy, m.ytd>>, pair)
      BY <1>1, <2>4, <3>1, <3>2, SameTargetIsRival
    <3> QED BY <1>1, <3>1, <3>3 DEF Q!Ambiguous
  <2> QED BY <2>2, <2>3, <2>4
<1> QED BY <1>3, <1>4

\* The first policy leaves no considered fact without an outcome.
OutcomeIn(f, candidates, exclusions) ==
  \/ \E c \in candidates : f \in {c.fy, c.ytd}
  \/ \E o \in exclusions : f \in {o.fact, o.other}

LEMMA EveryFactHasAnOutcome ==
  ASSUME NEW F, NEW declared, NEW f \in Q!Considered(F)
  PROVE  OutcomeIn(f, Q!PolicyCandidates(F, declared), Q!PolicyExclusions(F, declared))
<1> DEFINE s == Q!Scope(f)
           rows == Q!Rows(F, s)
           Pairs == Q!Years(rows) \X Q!NineMonths(rows)
<1>1. s \in Q!Scopes(F) /\ f \in rows
  BY DEF Q!Scopes, Q!Rows
<1>2. Q!ScopeExclusions(rows, declared) \subseteq Q!PolicyExclusions(F, declared)
  BY <1>1 DEF Q!PolicyExclusions
<1>3. CASE Q!Refusal(rows, declared) # "none"
  <2> DEFINE o == Q!Out(f, Q!NoOther, Q!Refusal(rows, declared))
  <2>1. o \in Q!ScopeExclusions(rows, declared) /\ o.fact = f
    BY <1>1, <1>3 DEF Q!ScopeExclusions, Q!Out
  <2> QED BY <1>2, <2>1 DEF OutcomeIn
<1>4. CASE Q!Refusal(rows, declared) = "none"
  <2>1. Q!Years(rows) # {} /\ Q!NineMonths(rows) # {}
    BY <1>4 DEF Q!Refusal
  <2>2. f \in Q!Years(rows) \cup Q!NineMonths(rows)
    BY <1>1 DEF Q!Considered, Q!Input, Q!Years, Q!NineMonths
  <2>3. PICK p \in Pairs : f \in {p[1], p[2]}
    <3>1. CASE f \in Q!Years(rows)
      <4>1. PICK g \in Q!NineMonths(rows) : TRUE
        BY <2>1
      <4>2. <<f, g>> \in Pairs /\ <<f, g>>[1] = f
        BY <3>1
      <4> QED BY <4>2
    <3>2. CASE f \in Q!NineMonths(rows)
      <4>1. PICK g \in Q!Years(rows) : TRUE
        BY <2>1
      <4>2. <<g, f>> \in Pairs /\ <<g, f>>[2] = f
        BY <3>2
      <4> QED BY <4>2
    <3> QED BY <2>2, <3>1, <3>2
  <2>4. CASE p \in Q!Matched(rows)
    <3>1. Q!Residual(p[1], p[2]) \in Q!PolicyCandidates(F, declared)
      BY <1>1, <1>4, <2>4 DEF Q!PolicyCandidates
    <3>2. Q!Residual(p[1], p[2]).fy = p[1] /\ Q!Residual(p[1], p[2]).ytd = p[2]
      BY DEF Q!Residual
    <3> QED BY <2>3, <3>1, <3>2 DEF OutcomeIn
  <2>5. CASE p \notin Q!Matched(rows)
    <3> DEFINE o == Q!Out(p[1], p[2], Q!PairReason(p[1], p[2]))
    <3>1. o \in Q!ScopeExclusions(rows, declared)
      BY <1>4, <2>5 DEF Q!ScopeExclusions
    <3>2. o.fact = p[1] /\ o.other = p[2]
      BY DEF Q!Out
    <3> QED BY <1>2, <2>3, <3>1, <3>2 DEF OutcomeIn
  <2> QED BY <2>4, <2>5
<1> QED BY <1>3, <1>4

\* Nor does the second, which excludes what it does not permit.
LEMMA PermittedHasAnOutcome ==
  ASSUME NEW F, NEW approvals, NEW f \in Q!Considered(F)
  PROVE  OutcomeIn(f, Q!PermittedCandidates(F, approvals), Q!PermittedExclusions(F, approvals))
<1> DEFINE C == Q!PolicyCandidates(F, Q!ConceptsOf(approvals))
           X == Q!PolicyExclusions(F, Q!ConceptsOf(approvals))
<1>1. OutcomeIn(f, C, X)
  BY EveryFactHasAnOutcome
<1>2. CASE \E o \in X : f \in {o.fact, o.other}
  BY <1>2 DEF OutcomeIn, Q!PermittedExclusions
<1>3. CASE \E c \in C : f \in {c.fy, c.ytd}
  <2>1. PICK c \in C : f \in {c.fy, c.ytd}
    BY <1>3
  <2>2. CASE Q!Permitted(c, approvals)
    BY <2>1, <2>2 DEF OutcomeIn, Q!PermittedCandidates
  <2>3. CASE ~Q!Permitted(c, approvals)
    <3> DEFINE o == Q!Out(f, Q!NoOther, "Q4_V2_EXACT_SCOPE_POLICY_REQUIRED")
    <3>1. o \in Q!PermittedExclusions(F, approvals) /\ o.fact = f
      BY <2>1, <2>3 DEF Q!PermittedExclusions, Q!Out
    <3> QED BY <3>1 DEF OutcomeIn
  <2> QED BY <2>2, <2>3
<1> QED BY <1>1, <1>2, <1>3 DEF OutcomeIn

\* What the second policy offers under the registry of its release.
ApprovedResidual(c, F) ==
  /\ c.fy.kind = "amount" /\ c.ytd.kind = "amount"
  /\ {c.fy, c.ytd} \subseteq Q!Evidence(F)
  /\ c.from > c.fy.from /\ c.from < c.to
  /\ \A f \in Q!Evidence(F) : f.concept = c.fy.concept => Q!Scope(f) = Q!Scope(c.fy)

LEMMA PermittedIsApproved ==
  ASSUME NEW F, Q!OnePerPlace(F), Q!Distinct(Q!Approvals(F)),
         NEW c \in Q!PermittedCandidates(F, Q!Approvals(F))
  PROVE  ApprovedResidual(c, F)
<1> DEFINE A == Q!Approvals(F)
<1>1. c \in Q!PolicyCandidates(F, Q!ConceptsOf(A)) /\ Q!Permitted(c, A)
  BY DEF Q!PermittedCandidates
<1>2. /\ c = Q!Residual(c.fy, c.ytd) /\ <<c.fy, c.ytd>> \in Q!MechanicalPairs(F)
      /\ c.fy.kind = "amount" /\ c.ytd.kind = "amount"
  BY <1>1, PolicyPairIsMechanical
<1>3. PICK a \in A : a.scope = Q!Scope(c.fy) /\ {c.fy, c.ytd} \subseteq a.approved
  BY <1>1 DEF Q!Permitted
<1>4. ASSUME NEW b \in A
      PROVE  \E g \in Q!Evidence(F) : /\ b.scope = Q!Scope(g) /\ b.concept = Q!Scope(g)[1]
                                      /\ b.approved = {f \in Q!Evidence(F) : Q!Scope(f) = b.scope}
  BY DEF Q!Approvals
<1>5. {c.fy, c.ytd} \subseteq Q!Evidence(F)
  BY <1>3, <1>4
<1>6. Q!Compatible(c.fy, c.ytd)
  BY <1>2 DEF Q!MechanicalPairs
<1>7. c.from = c.ytd.to /\ c.to = c.fy.to
  BY <1>2 DEF Q!Residual
<1>8. c.ytd.from < c.ytd.to
  BY <1>5 DEF Q!OnePerPlace, Q!Evidence, Q!Input, Q!Years, Q!NineMonths
<1>9. c.from > c.fy.from /\ c.from < c.to
  BY <1>6, <1>7, <1>8 DEF Q!Compatible, Q!SameStart
<1>10. ASSUME NEW f \in Q!Evidence(F), f.concept = c.fy.concept PROVE Q!Scope(f) = Q!Scope(c.fy)
  <2> DEFINE b == [concept |-> Q!Scope(f)[1], scope |-> Q!Scope(f),
                   approved |-> {g \in Q!Evidence(F) : Q!Scope(g) = Q!Scope(f)}]
  <2>1. b \in A
    BY DEF Q!Approvals
  <2>2. b.concept = f.concept /\ a.concept = c.fy.concept
    BY <1>3, <1>4 DEF Q!Scope
  <2>3. a = b
    BY <1>10, <2>1, <2>2 DEF Q!Distinct
  <2> QED BY <1>3, <2>3
<1> QED BY <1>2, <1>5, <1>9, <1>10 DEF ApprovedResidual

-----------------------------------------------------------------------------
(* Fourth quarters by difference, over any releases                        *)

\* Every document is what its derivation makes of the release it names.
MechanicalInv ==
  mechanical # Q!None =>
    /\ mechanical.candidates = Q!MechanicalCandidates(mechanical.of)
    /\ mechanical.exclusions = Q!MechanicalExclusions(mechanical.of)
RegistryInv == registry # Q!None => registry.approvals = Q!Approvals(registry.of)
FirstPolicyInv ==
  /\ policy.version = 1
  /\ policy.candidates = Q!PolicyCandidates(policy.of, Declared)
  /\ policy.exclusions = Q!PolicyExclusions(policy.of, Declared)
SecondPolicyInv ==
  /\ policy.version = 2
  /\ Q!Distinct(Q!Approvals(policy.of))
  /\ policy.candidates = Q!PermittedCandidates(policy.of, Q!Approvals(policy.of))
  /\ policy.exclusions = Q!PermittedExclusions(policy.of, Q!Approvals(policy.of))
PolicyInv == policy # Q!None => FirstPolicyInv \/ SecondPolicyInv
FourthInv == Q!OnePerPlace(reported) /\ MechanicalInv /\ RegistryInv /\ PolicyInv

\* The policy's documents agree with what the invariant says of them.
LEMMA FourthQuartersFollow ==
  ASSUME FourthInv PROVE Q!FourthQuartersAgree
<1>1. Q!CompanionsAgree
  <2> SUFFICES ASSUME mechanical # Q!None, mechanical.of = reported PROVE Q!CompanionsAgree
    BY DEF Q!CompanionsAgree, Q!MechanicalOpens
  <2>1. /\ mechanical.candidates = Q!MechanicalCandidates(reported)
        /\ mechanical.exclusions = Q!MechanicalExclusions(reported)
    BY DEF FourthInv, MechanicalInv
  <2>2. \A c, d \in mechanical.candidates : Q!SameTarget(c, d) => c = d
    BY <2>1, MechanicalIsOne
  <2>3. ASSUME Q!PolicyOpens, NEW c \in policy.candidates
        PROVE  \E declared : c \in Q!PolicyCandidates(reported, declared)
    <3>1. policy # Q!None /\ policy.of = reported
      BY <2>3 DEF Q!PolicyOpens
    <3> QED BY <2>3, <3>1
            DEF FourthInv, PolicyInv, FirstPolicyInv, SecondPolicyInv, Q!PermittedCandidates
  <2>4. ASSUME Q!PolicyOpens, NEW c \in policy.candidates
        PROVE  \/ c \in mechanical.candidates
               \/ /\ \E o \in mechanical.exclusions :
                       o.fact = c.fy /\ o.reason = "Q4_AMBIGUOUS_COMPATIBLE_INPUT_PAIR"
                  /\ \A m \in mechanical.candidates : ~Q!SameTarget(m, c)
    <3>1. PICK declared : c \in Q!PolicyCandidates(reported, declared)
      BY <2>3, <2>4
    <3> QED BY <2>1, <3>1, PolicyAgrees
  <2> QED BY <2>2, <2>4 DEF Q!CompanionsAgree
<1>2. Q!ResidualsAreApproved
  <2> SUFFICES ASSUME Q!PolicyOpens, policy.version = 2, NEW c \in policy.candidates
               PROVE  ApprovedResidual(c, reported)
    BY DEF Q!ResidualsAreApproved, ApprovedResidual
  <2>1. policy # Q!None /\ policy.of = reported
    BY DEF Q!PolicyOpens
  <2>2. SecondPolicyInv
    BY <2>1 DEF FourthInv, PolicyInv, FirstPolicyInv
  <2> QED BY <2>1, <2>2, PermittedIsApproved DEF FourthInv, SecondPolicyInv
<1>3. Q!EveryInputHasAnOutcome
  <2> SUFFICES ASSUME Q!PolicyOpens, NEW f \in Q!Considered(reported)
               PROVE  OutcomeIn(f, policy.candidates, policy.exclusions)
    BY DEF Q!EveryInputHasAnOutcome, OutcomeIn
  <2>1. policy # Q!None /\ policy.of = reported
    BY DEF Q!PolicyOpens
  <2>2. CASE FirstPolicyInv
    BY <2>1, <2>2, EveryFactHasAnOutcome DEF FirstPolicyInv
  <2>3. CASE SecondPolicyInv
    BY <2>1, <2>3, PermittedHasAnOutcome DEF SecondPolicyInv
  <2> QED BY <2>1, <2>2, <2>3 DEF FourthInv, PolicyInv
<1> QED BY <1>1, <1>2, <1>3 DEF Q!FourthQuartersAgree

LEMMA FourthInvInit == Q!Init => FourthInv
BY FirstFactsAssumption DEF Q!Init, FourthInv, MechanicalInv, RegistryInv, PolicyInv

\* One step per action: each writes one document, of the release as it is.
LEMMA FourthInvNext ==
  ASSUME FourthInv, Q!Next PROVE FourthInv'
<1>1. CASE Q!Release
  <2>1. Q!OnePerPlace(reported)'
    BY <1>1 DEF Q!Release
  <2>2. UNCHANGED <<mechanical, registry, policy>>
    BY <1>1 DEF Q!Release
  <2> QED BY <2>1, <2>2
          DEF FourthInv, MechanicalInv, RegistryInv, PolicyInv, FirstPolicyInv, SecondPolicyInv
<1>2. CASE Q!PublishMechanical
  <2>1. /\ mechanical'.of = reported
        /\ mechanical'.candidates = Q!MechanicalCandidates(reported)
        /\ mechanical'.exclusions = Q!MechanicalExclusions(reported)
    BY <1>2 DEF Q!PublishMechanical
  <2>2. UNCHANGED <<reported, registry, policy>>
    BY <1>2 DEF Q!PublishMechanical
  <2> QED BY <2>1, <2>2
          DEF FourthInv, MechanicalInv, RegistryInv, PolicyInv, FirstPolicyInv, SecondPolicyInv
<1>3. CASE Q!PublishRegistry
  <2>1. registry'.of = reported /\ registry'.approvals = Q!Approvals(reported)
    BY <1>3 DEF Q!PublishRegistry
  <2>2. UNCHANGED <<reported, mechanical, policy>>
    BY <1>3 DEF Q!PublishRegistry
  <2> QED BY <2>1, <2>2
          DEF FourthInv, MechanicalInv, RegistryInv, PolicyInv, FirstPolicyInv, SecondPolicyInv
<1>4. CASE Q!PublishPolicy
  <2>1. /\ policy'.of = reported /\ policy'.version = 1
        /\ policy'.candidates = Q!PolicyCandidates(reported, Declared)
        /\ policy'.exclusions = Q!PolicyExclusions(reported, Declared)
    BY <1>4 DEF Q!PublishPolicy
  <2>2. UNCHANGED <<reported, mechanical, registry>>
    BY <1>4 DEF Q!PublishPolicy
  <2>3. FirstPolicyInv'
    BY <2>1 DEF FirstPolicyInv
  <2> QED BY <2>2, <2>3 DEF FourthInv, MechanicalInv, RegistryInv, PolicyInv
<1>5. CASE Q!PublishPolicyV2
  <2>1. registry.approvals = Q!Approvals(reported)
    BY <1>5 DEF Q!PublishPolicyV2, Q!RegistryOpens, FourthInv, RegistryInv
  <2>2. /\ Q!Distinct(Q!Approvals(reported))
        /\ policy'.of = reported /\ policy'.version = 2
        /\ policy'.candidates = Q!PermittedCandidates(reported, Q!Approvals(reported))
        /\ policy'.exclusions = Q!PermittedExclusions(reported, Q!Approvals(reported))
    BY <1>5, <2>1 DEF Q!PublishPolicyV2
  <2>3. UNCHANGED <<reported, mechanical, registry>>
    BY <1>5 DEF Q!PublishPolicyV2
  <2>4. SecondPolicyInv'
    BY <2>2 DEF SecondPolicyInv
  <2> QED BY <2>3, <2>4 DEF FourthInv, MechanicalInv, RegistryInv, PolicyInv
<1> QED BY <1>1, <1>2, <1>3, <1>4, <1>5 DEF Q!Next

\* A behaviour stays in its part.
FourthPart == part = "fourth" => FourthInv

\* The mechanical companion and the policy agree, what the second policy offers
\* is approved, and no input disappears: for any facts, any releases that follow
\* and any declarations (mechanical_q4.py, quarterly_policy.py, q4_policy_registry.py).
THEOREM FourthQuartersAlwaysAgree == MCSpec => []FourthQuartersAgree
<1>1. MCInit => FourthPart
  BY FourthInvInit DEF MCInit, FourthPart
<1>2. FourthPart /\ [MCNext]_mcvars => FourthPart'
  <2> SUFFICES ASSUME FourthPart, [MCNext]_mcvars, part' = "fourth" PROVE FourthInv'
    BY DEF FourthPart
  <2>1. CASE UNCHANGED mcvars
    BY <2>1 DEF mcvars, fourthVars, FourthPart, FourthInv, MechanicalInv, RegistryInv, PolicyInv,
                FirstPolicyInv, SecondPolicyInv
  <2>2. CASE MCNext
    <3>1. part = "fourth" /\ Q!Next
      BY <2>2 DEF MCNext
    <3> QED BY <3>1, FourthInvNext DEF FourthPart
  <2> QED BY <2>1, <2>2
<1>3. FourthPart => FourthQuartersAgree
  BY FourthQuartersFollow DEF FourthPart, FourthQuartersAgree
<1> QED BY <1>1, <1>2, <1>3, PTL DEF MCSpec

-----------------------------------------------------------------------------
(* The reviewed fourth quarter, over any exchanges of its documents        *)

Shows(derived, h) == \A product \in DOMAIN derived : R!Exact(product, derived[product], h)

\* While a command runs, a document that was not exchanged is the one it read.
HashedInv ==
  /\ reviewing = [step |-> "hashed", parent |-> reviewing.parent, sha |-> reviewing.sha,
                  exchanged |-> reviewing.exchanged]
  /\ "history" \notin reviewing.exchanged => reviewing.parent = parent
  /\ "evidence" \notin reviewing.exchanged => reviewing.sha = pairs
ReadInv ==
  /\ reviewing = [step |-> "read", evidence |-> reviewing.evidence, ledger |-> reviewing.ledger,
                  exchanged |-> reviewing.exchanged]
  /\ reviewing.evidence.history = reviewing.ledger.history
  /\ "history" \notin reviewing.exchanged => reviewing.evidence.history = parent
  /\ "evidence" \notin reviewing.exchanged => reviewing.evidence = pairs
  /\ "ledger" \notin reviewing.exchanged => reviewing.ledger = decided

\* The values are those of the history that lies there; or it was exchanged, and
\* a document that was not names the history they are of.
Grounded(derived, h, e, l, X) ==
  \/ "again" \in X
  \/ Shows(derived, h)
  \/ /\ "history" \in X
     /\ "evidence" \notin X => Shows(derived, e.history)
     /\ "ledger" \notin X => Shows(derived, l.history)
ApprovedBy(derived, l, X) == "ledger" \notin X => DOMAIN derived = DOMAIN l.approvals
GeneratedInv ==
  /\ reviewing = [step |-> "generated", derived |-> reviewing.derived, snapshot |-> reviewing.snapshot,
                  exchanged |-> reviewing.exchanged]
  /\ "history" \notin reviewing.exchanged =>
       /\ "evidence" \notin reviewing.exchanged => pairs.history = parent
       /\ "ledger" \notin reviewing.exchanged => decided.history = parent
  /\ Grounded(reviewing.derived, parent, pairs, decided, reviewing.exchanged)
  /\ ApprovedBy(reviewing.derived, decided, reviewing.exchanged)
PinnedInv(c) ==
  /\ c = [step |-> "staged", derived |-> c.derived, snapshot |-> c.snapshot, exchanged |-> c.exchanged,
          history |-> c.history, evidence |-> c.evidence, ledger |-> c.ledger]
  /\ Grounded(c.derived, c.history, c.evidence, c.ledger, c.exchanged)
  /\ ApprovedBy(c.derived, c.ledger, c.exchanged)

JobInv == reviewing = R!Absent \/ HashedInv \/ ReadInv \/ GeneratedInv \/ PinnedInv(reviewing)
\* One companion is published, and nothing is made after it.
CompanionInv ==
  companion # R!Absent =>
    /\ reviewing = R!Absent
    /\ PinnedInv(companion)
    /\ R!Linked(companion, companion.evidence, companion.ledger)
ConsumerInv ==
  \/ consumer = R!Absent
  \/ companion # R!Absent /\ consumer = [step |-> "open", history |-> companion.history]
  \/ companion # R!Absent /\ consumer.step = "prepared" /\ R!PreparedAddsUp
ReviewedInv == JobInv /\ CompanionInv /\ ConsumerInv

\* A companion that names one history throughout shows its residuals, unless its
\* documents were exchanged past recognition.
LEMMA LinkedShowsItsHistory ==
  ASSUME NEW c, PinnedInv(c), R!Linked(c, c.evidence, c.ledger),
         c.exchanged \cap {"again"} = {}, ~({"history", "evidence", "ledger"} \subseteq c.exchanged)
  PROVE  Shows(c.derived, c.history)
<1>1. c.evidence.history = c.history /\ c.ledger.history = c.history
  BY DEF R!Linked
<1>2. "again" \notin c.exchanged
  OBVIOUS
<1>3. "history" \notin c.exchanged \/ "evidence" \notin c.exchanged \/ "ledger" \notin c.exchanged
  OBVIOUS
<1> QED BY <1>1, <1>2, <1>3 DEF PinnedInv, Grounded

LEMMA ReviewedFollows ==
  ASSUME ReviewedInv PROVE R!ReviewedIsExact
<1>1. R!CompanionIsExact
  <2> SUFFICES ASSUME companion # R!Absent, ~R!Misled PROVE R!CompanionIsExact
    BY DEF R!CompanionIsExact
  <2>1. Shows(companion.derived, companion.history)
    BY LinkedShowsItsHistory DEF ReviewedInv, CompanionInv, R!Misled
  <2>2. "ledger" \notin companion.exchanged => DOMAIN companion.derived = DOMAIN companion.ledger.approvals
    BY DEF ReviewedInv, CompanionInv, PinnedInv, ApprovedBy
  <2> QED BY <2>1, <2>2 DEF R!CompanionIsExact, Shows
<1>2. R!PreparedAddsUp
  BY DEF ReviewedInv, ConsumerInv, R!PreparedAddsUp, R!Absent
<1> QED BY <1>1, <1>2 DEF R!ReviewedIsExact

LEMMA ReviewedInvInit == R!Init => ReviewedInv
BY DEF R!Init, ReviewedInv, JobInv, CompanionInv, ConsumerInv, R!Absent

\* A step of the command that makes the companion leaves the companion that is
\* there and its consumer alone.
LEMMA NothingPublished ==
  ASSUME ReviewedInv, reviewing # R!Absent PROVE companion = R!Absent /\ consumer = R!Absent
BY DEF ReviewedInv, CompanionInv, ConsumerInv

\* A document is exchanged: what a command knows, it knows of the others.
LEMMA ExchangeKeeps ==
  ASSUME ReviewedInv, R!Exchange PROVE ReviewedInv'
<1>1. UNCHANGED <<companion, consumer>>
  BY DEF R!Exchange
<1>2. PICK file \in {"history", "evidence", "ledger", "snapshot"} :
        /\ reviewing' = R!Noted(file)
        /\ file # "history" => parent' = parent
        /\ file # "evidence" => pairs' = pairs
        /\ file # "ledger" => decided' = decided
  BY DEF R!Exchange
<1> DEFINE X == reviewing.exchanged
           Noted == X \cup {IF file \in X THEN "again" ELSE file}
<1>3. file \in Noted /\ X \subseteq Noted /\ (file \in X => "again" \in Noted)
  OBVIOUS
<1>4. CASE reviewing = R!Absent
  <2>1. reviewing' = reviewing
    BY <1>2, <1>4 DEF R!Noted
  <2> QED BY <1>1, <1>4, <2>1
          DEF ReviewedInv, JobInv, CompanionInv, ConsumerInv, R!PreparedAddsUp, R!Misled
<1>5. CASE reviewing # R!Absent
  <2>1. reviewing' = [reviewing EXCEPT !.exchanged = Noted]
    BY <1>2, <1>5 DEF R!Noted
  <2>2. CompanionInv' /\ ConsumerInv'
    BY <1>1, <1>5, NothingPublished DEF CompanionInv, ConsumerInv
  <2>3. CASE HashedInv
    <3>1. reviewing' = [step |-> "hashed", parent |-> reviewing.parent, sha |-> reviewing.sha, exchanged |-> Noted]
      BY <2>1, <2>3 DEF HashedInv
    <3>2. HashedInv'
      BY <1>2, <1>3, <2>3, <3>1 DEF HashedInv
    <3> QED BY <2>2, <3>2 DEF ReviewedInv, JobInv
  <2>4. CASE ReadInv
    <3>1. reviewing' = [step |-> "read", evidence |-> reviewing.evidence, ledger |-> reviewing.ledger,
                        exchanged |-> Noted]
      BY <2>1, <2>4 DEF ReadInv
    <3>2. ReadInv'
      BY <1>2, <1>3, <2>4, <3>1 DEF ReadInv
    <3> QED BY <2>2, <3>2 DEF ReviewedInv, JobInv
  <2>5. CASE GeneratedInv
    <3>1. reviewing' = [step |-> "generated", derived |-> reviewing.derived, snapshot |-> reviewing.snapshot,
                        exchanged |-> Noted]
      BY <2>1, <2>5 DEF GeneratedInv
    <3>2. reviewing'.derived = reviewing.derived /\ reviewing'.exchanged = Noted
      BY <3>1
    <3>3. /\ "history" \notin X /\ "evidence" \notin X => pairs.history = parent
          /\ "history" \notin X /\ "ledger" \notin X => decided.history = parent
          /\ Grounded(reviewing.derived, parent, pairs, decided, X)
          /\ ApprovedBy(reviewing.derived, decided, X)
      BY <2>5 DEF GeneratedInv
    <3>4. /\ "history" \notin Noted /\ "evidence" \notin Noted => pairs'.history = parent'
          /\ "history" \notin Noted /\ "ledger" \notin Noted => decided'.history = parent'
      BY <1>2, <1>3, <3>3
    <3>5. ApprovedBy(reviewing.derived, decided', Noted)
      BY <1>2, <1>3, <3>3 DEF ApprovedBy
    <3>6. Grounded(reviewing.derived, parent', pairs', decided', Noted)
      BY <1>2, <1>3, <3>3 DEF Grounded
    <3>7. GeneratedInv'
      BY <3>1, <3>2, <3>4, <3>5, <3>6 DEF GeneratedInv
    <3> QED BY <2>2, <3>7 DEF ReviewedInv, JobInv
  <2>6. CASE PinnedInv(reviewing)
    <3>1. reviewing' = [step |-> "staged", derived |-> reviewing.derived, snapshot |-> reviewing.snapshot,
                        exchanged |-> Noted, history |-> reviewing.history, evidence |-> reviewing.evidence,
                        ledger |-> reviewing.ledger]
      BY <2>1, <2>6 DEF PinnedInv
    <3>2. PinnedInv(reviewing')
      BY <1>3, <2>6, <3>1 DEF PinnedInv, Grounded, ApprovedBy
    <3> QED BY <2>2, <3>2 DEF ReviewedInv, JobInv
  <2> QED BY <1>5, <2>3, <2>4, <2>5, <2>6 DEF ReviewedInv, JobInv
<1> QED BY <1>4, <1>5

LEMMA HashInputsKeeps ==
  ASSUME ReviewedInv, R!HashInputs PROVE ReviewedInv'
<1>1. reviewing' = [step |-> "hashed", parent |-> parent, sha |-> pairs, exchanged |-> {}]
  BY DEF R!HashInputs
<1>2. companion = R!Absent /\ UNCHANGED <<parent, pairs, companion, consumer>>
  BY DEF R!HashInputs, R!files
<1>3. HashedInv'
  BY <1>1, <1>2 DEF HashedInv
<1> QED BY <1>2, <1>3 DEF ReviewedInv, JobInv, CompanionInv, ConsumerInv

LEMMA ReadInputsKeeps ==
  ASSUME ReviewedInv, R!ReadInputs PROVE ReviewedInv'
<1>1. HashedInv /\ reviewing # R!Absent
  BY DEF R!ReadInputs, ReviewedInv, JobInv, R!Absent, HashedInv, ReadInv, GeneratedInv, PinnedInv
<1>2. UNCHANGED <<parent, pairs, decided, companion, consumer>>
  BY DEF R!ReadInputs, R!files
<1>3. CompanionInv' /\ ConsumerInv'
  BY <1>1, <1>2, NothingPublished DEF CompanionInv, ConsumerInv
<1>4. CASE R!Bound(pairs, decided)
  <2>1. reviewing' = [step |-> "read", evidence |-> pairs, ledger |-> decided, exchanged |-> reviewing.exchanged]
    BY <1>4 DEF R!ReadInputs
  <2>2. pairs.history = reviewing.parent /\ decided.history = reviewing.parent
    BY <1>4 DEF R!Bound
  <2>3. ReadInv'
    BY <1>1, <1>2, <2>1, <2>2 DEF ReadInv, HashedInv
  <2> QED BY <1>3, <2>3 DEF ReviewedInv, JobInv
<1>5. CASE ~R!Bound(pairs, decided)
  BY <1>3, <1>5 DEF ReviewedInv, JobInv, R!ReadInputs
<1> QED BY <1>4, <1>5

LEMMA GenerateKeeps ==
  ASSUME ReviewedInv, R!Generate PROVE ReviewedInv'
<1>1. ReadInv /\ reviewing # R!Absent
  BY DEF R!Generate, ReviewedInv, JobInv, R!Absent, HashedInv, ReadInv, GeneratedInv, PinnedInv
<1>2. UNCHANGED <<parent, pairs, decided, companion, consumer>>
  BY DEF R!Generate, R!files
<1>3. CompanionInv' /\ ConsumerInv'
  BY <1>1, <1>2, NothingPublished DEF CompanionInv, ConsumerInv
<1> DEFINE Passes == /\ \A product \in reviewing.evidence.pairs : R!Attested(reviewing.evidence, product)
                     /\ R!Approvable(reviewing.evidence, reviewing.ledger)
<1>4. CASE Passes
  <2>1. reviewing' = [step |-> "generated", derived |-> R!Derived(reviewing.ledger), snapshot |-> observed,
                      exchanged |-> reviewing.exchanged]
    BY <1>4 DEF R!Generate
  <2>2. Shows(R!Derived(reviewing.ledger), parent)
    BY <1>4 DEF Shows, R!Exact, R!Derived, R!Approvable, R!Problem, R!Materialized
  <2>3. DOMAIN R!Derived(reviewing.ledger) = DOMAIN reviewing.ledger.approvals
    BY DEF R!Derived
  <2>4. GeneratedInv'
    BY <1>1, <1>2, <2>1, <2>2, <2>3 DEF GeneratedInv, Grounded, ApprovedBy, ReadInv, Shows
  <2> QED BY <1>3, <2>4 DEF ReviewedInv, JobInv
<1>5. CASE ~Passes
  BY <1>3, <1>5 DEF ReviewedInv, JobInv, R!Generate
<1> QED BY <1>4, <1>5

LEMMA WriteManifestKeeps ==
  ASSUME ReviewedInv, R!WriteManifest PROVE ReviewedInv'
<1>1. GeneratedInv /\ reviewing # R!Absent
  BY DEF R!WriteManifest, ReviewedInv, JobInv, R!Absent, HashedInv, ReadInv, GeneratedInv, PinnedInv
<1>2. UNCHANGED <<parent, pairs, decided, companion, consumer>>
  BY DEF R!WriteManifest, R!files
<1>3. CompanionInv' /\ ConsumerInv'
  BY <1>1, <1>2, NothingPublished DEF CompanionInv, ConsumerInv
<1>4. reviewing' = [step |-> "staged", derived |-> reviewing.derived, snapshot |-> reviewing.snapshot,
                    exchanged |-> reviewing.exchanged, history |-> parent, evidence |-> pairs, ledger |-> decided]
  BY DEF R!WriteManifest
<1>5. PinnedInv(reviewing')
  BY <1>1, <1>4 DEF PinnedInv, GeneratedInv
<1> QED BY <1>3, <1>5 DEF ReviewedInv, JobInv

LEMMA PublishKeeps ==
  ASSUME ReviewedInv, R!Publish PROVE ReviewedInv'
<1>1. PinnedInv(reviewing) /\ reviewing # R!Absent
  BY DEF R!Publish, ReviewedInv, JobInv, R!Absent, HashedInv, ReadInv, GeneratedInv, PinnedInv
<1>2. companion = R!Absent /\ consumer = R!Absent
  BY <1>1, NothingPublished
<1>3. reviewing' = R!Absent /\ consumer' = consumer
  BY DEF R!Publish
<1>4. CASE R!Verifies(reviewing)
  <2>1. companion' = reviewing
    BY <1>4 DEF R!Publish
  <2>2. R!Linked(reviewing, reviewing.evidence, reviewing.ledger)
    BY <1>4 DEF R!Verifies
  <2> QED BY <1>1, <1>2, <1>3, <2>1, <2>2 DEF ReviewedInv, JobInv, CompanionInv, ConsumerInv
<1>5. CASE ~R!Verifies(reviewing)
  BY <1>2, <1>3, <1>5 DEF R!Publish, ReviewedInv, JobInv, CompanionInv, ConsumerInv
<1> QED BY <1>4, <1>5

LEMMA OpenConsumerKeeps ==
  ASSUME ReviewedInv, R!OpenConsumer PROVE ReviewedInv'
<1>1. /\ companion # R!Absent /\ UNCHANGED <<parent, pairs, decided, reviewing, companion>>
      /\ consumer' = [step |-> "open", history |-> parent]
  BY DEF R!OpenConsumer, R!files
<1>2. companion.history = parent
  BY DEF R!OpenConsumer, R!Verifies
<1> QED BY <1>1, <1>2 DEF ReviewedInv, JobInv, HashedInv, ReadInv, GeneratedInv, CompanionInv, ConsumerInv

LEMMA PrepareKeeps ==
  ASSUME ReviewedInv, R!Prepare PROVE ReviewedInv'
<1>1. UNCHANGED <<parent, pairs, decided, reviewing, companion>>
  BY DEF R!Prepare, R!files
<1>2. JobInv' /\ CompanionInv'
  BY <1>1 DEF ReviewedInv, JobInv, HashedInv, ReadInv, GeneratedInv, CompanionInv
<1>3. companion # R!Absent /\ consumer = [step |-> "open", history |-> companion.history]
  BY DEF R!Prepare, ReviewedInv, ConsumerInv, R!Absent
<1>4. CASE parent = consumer.history
  <2>1. consumer' = [step |-> "prepared", history |-> parent,
                     q4 |-> [product \in DOMAIN parent.q4 |-> R!Applied(product)]]
    BY <1>4 DEF R!Prepare
  <2>2. parent = companion.history
    BY <1>3, <1>4
  <2>3. ASSUME ~R!Misled, NEW product \in DOMAIN parent.q4
        PROVE  R!Applied(product) = parent.q4[product] \/ R!Exact(product, R!Applied(product), parent)
    <3>1. Shows(companion.derived, companion.history)
      BY <1>3, <2>3, LinkedShowsItsHistory DEF ReviewedInv, CompanionInv, R!Misled
    <3> QED BY <2>2, <3>1 DEF R!Applied, Shows
  <2>4. R!PreparedAddsUp'
    BY <1>1, <2>1, <2>3 DEF R!PreparedAddsUp, R!Misled
  <2> QED BY <1>1, <1>2, <1>3, <2>1, <2>4 DEF ReviewedInv, ConsumerInv
<1>5. CASE parent # consumer.history
  BY <1>2, <1>5 DEF R!Prepare, ReviewedInv, ConsumerInv
<1> QED BY <1>4, <1>5

ReviewedPart == part = "reviewed" => ReviewedInv

\* A companion that verifies is the exact residual of the history it names and
\* approved by its ledger, and what an analysis shows beside that history adds
\* up: for any histories, evidence and decisions and however often files are
\* exchanged (reviewed_q4.py, analysis._apply_reviewed_q4).
THEOREM ReviewedIsAlwaysExact == MCSpec => []ReviewedIsExact
<1>1. MCInit => ReviewedPart
  BY ReviewedInvInit DEF MCInit, ReviewedPart
<1>2. ReviewedPart /\ [MCNext]_mcvars => ReviewedPart'
  <2> SUFFICES ASSUME ReviewedPart, [MCNext]_mcvars, part' = "reviewed" PROVE ReviewedInv'
    BY DEF ReviewedPart
  <2>1. CASE UNCHANGED mcvars
    BY <2>1 DEF mcvars, reviewedVars, ReviewedPart, ReviewedInv, JobInv, HashedInv, ReadInv, GeneratedInv,
                CompanionInv, ConsumerInv, R!PreparedAddsUp, R!Misled
  <2>2. CASE MCNext
    <3>1. part = "reviewed" /\ R!Next
      BY <2>2 DEF MCNext
    <3> QED BY <3>1, ExchangeKeeps, HashInputsKeeps, ReadInputsKeeps, GenerateKeeps, WriteManifestKeeps,
               PublishKeeps, OpenConsumerKeeps, PrepareKeeps DEF R!Next, ReviewedPart
  <2> QED BY <2>1, <2>2
<1>3. ReviewedPart => ReviewedIsExact
  BY ReviewedFollows DEF ReviewedPart, ReviewedIsExact
<1> QED BY <1>1, <1>2, <1>3, PTL DEF MCSpec

-----------------------------------------------------------------------------
(* The delivery of a universe                                              *)

\* An instance has its own names for what is finite and for how much it is.
LEMMA DeliveryCounts ==
  \A S : Delivery!Cardinality(S) = Cardinality(S) /\ Delivery!IsFiniteSet(S) = IsFiniteSet(S)
BY DEF Delivery!Cardinality, Cardinality, Delivery!IsFiniteSet, IsFiniteSet

\* Records of distinct sources are as many as the sources.
LEMMA OneRecordEach ==
  ASSUME NEW S, NEW T, IsFiniteSet(T), {r.source : r \in S} = T,
         \A r, s \in S : r.source = s.source => r = s
  PROVE  Cardinality(S) = Cardinality(T)
<1> DEFINE SourceIn == [r \in S |-> r.source]
<1>1. SourceIn \in Injection(S, T)
  BY DEF Injection, IsInjective
<1>2. SourceIn \in Surjection(S, T)
  <2>1. SourceIn \in [S -> T]
    OBVIOUS
  <2>2. ASSUME NEW t \in T PROVE \E r \in S : SourceIn[r] = t
    <3>1. PICK r \in S : t = r.source
      OBVIOUS
    <3> QED BY <3>1
  <2> QED BY <2>1, <2>2 DEF Surjection
<1> QED BY <1>1, <1>2, FS_Injection

\* One fact of one value: what is found is that value.
LEMMA OneFactFound ==
  ASSUME NEW rows, IsFiniteSet(rows), Cardinality(rows) = 1, NEW v, \A row \in rows : row.value = v
  PROVE  {row.value : row \in rows} = {v}
<1>1. PICK x : rows = {x}
  BY FS_Singleton
<1> QED BY <1>1

\* Every supported repair gives the normalized value of its source.
LEMMA PolicyNormalizes ==
  ASSUME NEW record, Delivery!Supported(Delivery!Policy(record))
  PROVE  Delivery!IsNormalOf(record.source, record.actual)
<1> DEFINE text == record.source.text
           said == Delivery!Policy(record)
<1>1. said.text = text /\ said.value = record.actual /\ said.sign = record.source.sign
  BY DEF Delivery!Policy
<1>2. Delivery!Supported(said)
  OBVIOUS
<1> HIDE DEF said
<1>3. \/ said.text = "Nasdaq" /\ said.value = "NASDAQ"
      \/ said.text = "Idaho" /\ said.value = "ID"
      \/ said.text = "three-year" /\ said.value = "P3Y"
      \/ said.text = "five-year" /\ said.value = "P5Y"
      \/ said.text = "nil" /\ said.value = Delivery!Zero(said.sign)
  <2>1. \/ said \in {Delivery!Plain("exchange", "exchnameen", "Nasdaq", "exchange code", "NASDAQ", "metadata"),
                    Delivery!Plain("state", "stateprovnameen", "Idaho", "state", "ID", "metadata"),
                    Delivery!Plain("words", "durwordsen", "three-year", "duration", "P3Y", "duration"),
                    Delivery!Plain("words", "durwordsen", "five-year", "duration", "P5Y", "duration")}
        \/ \E type \in {"monetary", "shares"}, sign \in {Delivery!None, "-"}, scale \in {Delivery!None, "3"} :
             said = [family |-> "nil zero", transform |-> "numwordsen", text |-> "nil", type |-> type,
                     element |-> "nonFraction", sign |-> sign, scale |-> scale, value |-> Delivery!Zero(sign),
                     class |-> type]
    BY <1>2 DEF Delivery!Supported
  <2>2. CASE said = Delivery!Plain("exchange", "exchnameen", "Nasdaq", "exchange code", "NASDAQ", "metadata")
    BY <2>2 DEF Delivery!Plain
  <2>3. CASE said = Delivery!Plain("state", "stateprovnameen", "Idaho", "state", "ID", "metadata")
    BY <2>3 DEF Delivery!Plain
  <2>4. CASE said = Delivery!Plain("words", "durwordsen", "three-year", "duration", "P3Y", "duration")
    BY <2>4 DEF Delivery!Plain
  <2>5. CASE said = Delivery!Plain("words", "durwordsen", "five-year", "duration", "P5Y", "duration")
    BY <2>5 DEF Delivery!Plain
  <2>6. CASE \E type \in {"monetary", "shares"}, sign \in {Delivery!None, "-"}, scale \in {Delivery!None, "3"} :
               said = [family |-> "nil zero", transform |-> "numwordsen", text |-> "nil", type |-> type,
                       element |-> "nonFraction", sign |-> sign, scale |-> scale, value |-> Delivery!Zero(sign),
                       class |-> type]
    <3>1. PICK type \in {"monetary", "shares"}, sign \in {Delivery!None, "-"}, scale \in {Delivery!None, "3"} :
                 said = [family |-> "nil zero", transform |-> "numwordsen", text |-> "nil", type |-> type,
                         element |-> "nonFraction", sign |-> sign, scale |-> scale, value |-> Delivery!Zero(sign),
                         class |-> type]
      BY <2>6
    <3> QED BY <3>1
  <2> QED BY <2>1, <2>2, <2>3, <2>4, <2>5, <2>6
<1> QED BY <1>1, <1>3 DEF Delivery!IsNormalOf, Delivery!Zero

\* What passes against a collection is exactly what is governed there.
LEMMA PassIsExact ==
  ASSUME NEW a, NEW g, Delivery!Listed(g), Delivery!PassHolds(a, g), Delivery!BindingsVerify(g)
  PROVE  Delivery!ExactlyBound(a, g)
<1> DEFINE durations == g.bound.durations
           corrections == g.bound.corrections
           Named(records, source) == {record.actual : record \in {r \in records : r.source = source}}
           Stands(source) == Delivery!FactOf(g.snapshots[source.filing], source.fact)
           Values(source) == {row.value : row \in Stands(source)}
<1>1. /\ Delivery!ChecksHold(a, g) /\ Delivery!IndexHolds(a, g) /\ Delivery!DurationsBound(a.index, g.bound)
      /\ Delivery!RecordsHold(a, g) /\ Delivery!CorrectionsHold(a, g)
  BY DEF Delivery!PassHolds
<1>2. IsFiniteSet(durations) /\ IsFiniteSet(corrections)
  BY DeliveryCounts DEF Delivery!Listed
<1>3. \A f \in Delivery!Planned(g) :
        Delivery!Snapshots(g)[f] = g.snapshots[f] /\ IsFiniteSet(g.snapshots[f].facts)
  BY <1>1, DeliveryCounts DEF Delivery!ChecksHold, Delivery!Snapshots, Delivery!Listed
<1>4. a.index.facts = durations
  <2>1. ASSUME NEW b \in durations PROVE b \in a.index.facts
    <3>1. <<b.filing, b.id>> \in {<<s.filing, s.id>> : s \in a.index.facts}
      BY <1>1 DEF Delivery!DurationsBound
    <3>2. PICK s \in a.index.facts : <<b.filing, b.id>> = <<s.filing, s.id>>
      BY <3>1
    <3>3. s \in durations /\ s.filing = b.filing /\ s.id = b.id
      BY <1>1, <3>2 DEF Delivery!DurationsBound
    <3>4. s = b
      BY <1>1, <3>3 DEF Delivery!DurationsBound
    <3> QED BY <3>4
  <2> QED BY <1>1, <2>1 DEF Delivery!DurationsBound
<1>5. /\ \A r, s \in a.records : r.source = s.source => r = s
      /\ {r.source : r \in a.records} = durations
  BY <1>1, <1>4 DEF Delivery!RecordsHold
<1>6. /\ \A r, s \in a.corrections.records : r.source = s.source => r = s
      /\ {r.source : r \in a.corrections.records} = corrections
      /\ \A b \in corrections : b.filing \in Delivery!Planned(g)
  BY <1>1 DEF Delivery!CorrectionsHold, Delivery!CorrectionsBound
<1>7. \A source : source.filing \in Delivery!Planned(g) => IsFiniteSet(Stands(source))
  <2> SUFFICES ASSUME NEW source, source.filing \in Delivery!Planned(g) PROVE IsFiniteSet(Stands(source))
    OBVIOUS
  <2>1. Stands(source) \in SUBSET g.snapshots[source.filing].facts
    BY DEF Delivery!FactOf
  <2> QED BY <1>3, <2>1, FS_Subset
<1>8. ASSUME NEW b \in durations
      PROVE  Named(a.records, b) = Values(b) /\ Delivery!Cardinality(Values(b)) = 1
  <2>1. PICK r \in a.records : r.source = b
    BY <1>5
  <2>2. Named(a.records, b) = {r.actual}
    BY <1>5, <2>1
  <2>3. b.filing \in Delivery!Planned(g)
    BY <1>1, <1>4 DEF Delivery!IndexHolds
  <2>4. Delivery!FactOf(Delivery!Snapshots(g)[b.filing], b.fact) = Stands(b)
    BY <1>3, <2>3
  <2>5. Cardinality(Stands(b)) = 1 /\ \A row \in Stands(b) : row.value = r.actual
    BY <1>1, <2>1, <2>4, DeliveryCounts DEF Delivery!RecordsHold
  <2>6. Values(b) = {r.actual}
    BY <1>7, <2>3, <2>5, OneFactFound
  <2>7. Cardinality({r.actual}) = 1
    BY FS_Singleton
  <2> QED BY <2>2, <2>6, <2>7, DeliveryCounts
<1>9. ASSUME NEW b \in corrections
      PROVE  \E value \in Values(b) :
               /\ Delivery!IsNormalOf(b, value)
               /\ Named(a.corrections.records, b) = {value} /\ Values(b) = {value}
  <2>1. PICK r \in a.corrections.records : r.source = b
    BY <1>6
  <2>2. Named(a.corrections.records, b) = {r.actual}
    BY <1>6, <2>1
  <2>3. Delivery!IsNormalOf(b, r.actual)
    BY <1>1, <2>1, PolicyNormalizes DEF Delivery!CorrectionsHold
  <2>4. Delivery!FactOf(Delivery!Snapshots(g)[b.filing], b.fact) = Stands(b)
    BY <1>3, <1>6
  <2>5. Cardinality(Stands(b)) = 1 /\ \A row \in Stands(b) : row.value = r.actual
    BY <1>1, <2>1, <2>4, DeliveryCounts DEF Delivery!CorrectionsHold
  <2>6. Values(b) = {r.actual}
    BY <1>6, <1>7, <2>5, OneFactFound
  <2> QED BY <2>2, <2>3, <2>6
<1>10. ASSUME NEW f \in Delivery!Planned(g)
       PROVE  /\ g.snapshots[f].parser = "v5" /\ g.bound.of[f] = g.snapshots[f].version
              /\ \E check \in a.checks :
                   /\ check.filing = f /\ check.snapshot = g.snapshots[f].version
                   /\ check.count = Delivery!Cardinality({b \in durations : b.filing = f})
  <2> DEFINE S == {r \in a.records : r.source.filing = f}
             T == {b \in durations : b.filing = f}
  <2>1. PICK check \in a.checks : check.filing = f
    BY <1>1 DEF Delivery!ChecksHold
  <2>2. check.snapshot = g.snapshots[f].version /\ g.snapshots[f].parser = "v5"
    BY <1>1, <1>3, <2>1 DEF Delivery!ChecksHold
  <2>3. check.count = Delivery!Cardinality(S)
    BY <1>1, <2>1 DEF Delivery!RecordsHold
  <2>4. IsFiniteSet(T)
    BY <1>2, FS_Subset
  <2>5. {r.source : r \in S} = T
    BY <1>5
  <2>6. Cardinality(S) = Cardinality(T)
    BY <1>5, <2>4, <2>5, OneRecordEach
  <2>7. g.bound.of[f] = g.snapshots[f].version
    BY DEF Delivery!BindingsVerify
  <2> QED BY <2>1, <2>2, <2>3, <2>6, <2>7, DeliveryCounts
<1>11. /\ Delivery!Cardinality(a.records) = Delivery!Cardinality(durations)
       /\ Delivery!Cardinality(a.corrections.records) = Delivery!Cardinality(corrections)
  BY <1>2, <1>5, <1>6, OneRecordEach, DeliveryCounts
<1> QED BY <1>8, <1>9, <1>10, <1>11 DEF Delivery!ExactlyBound

-----------------------------------------------------------------------------
\* What the command has read holds together as far as it has read.
AttestedInv(read) ==
  read.accuracy = "PASS" =>
    /\ Delivery!PassHolds(read.assessment, read.of)
    /\ Delivery!BindingsVerify(read.of) /\ Delivery!Listed(read.of)
JoinedInv(read) == AttestedInv(read) /\ Delivery!Linked(read.q4, read.quarterly, read.annual)
DeliveryJobInv ==
  \/ job = Delivery!Idle
  \/ /\ job.step = "attested" /\ {"step", "accuracy", "assessment", "of"} \subseteq DOMAIN job
     /\ AttestedInv(job)
  \/ job.step = "joined" /\ JoinedInv(job)
DeliveredInv ==
  Delivery!Present(delivery) => JoinedInv(delivery.read) /\ delivery = Delivery!Delivered(delivery.read)
DeliveryInv == Delivery!Listed(given) /\ DeliveryJobInv /\ DeliveredInv

LEMMA DeliveryFollows ==
  ASSUME DeliveryInv PROVE Delivery!AcceptedAccuracyIsExact /\ Delivery!ReadyIsJoined
<1>1. Delivery!AcceptedAccuracyIsExact
  <2> SUFFICES ASSUME NEW read, read = job \/ (Delivery!Present(delivery) /\ read = delivery.read),
                      read # Delivery!Idle, read.accuracy = "PASS"
               PROVE  Delivery!ExactlyBound(read.assessment, read.of)
    BY DEF Delivery!AcceptedAccuracyIsExact
  <2>1. AttestedInv(read)
    BY DEF DeliveryInv, DeliveryJobInv, DeliveredInv, JoinedInv
  <2> QED BY <2>1, PassIsExact DEF AttestedInv
<1>2. Delivery!ReadyIsJoined
  <2> SUFFICES ASSUME Delivery!Present(delivery), delivery.overall = "READY" PROVE Delivery!ReadyIsJoined
    BY DEF Delivery!ReadyIsJoined
  <2> DEFINE read == delivery.read
  <2>1. delivery = Delivery!Delivered(read) /\ Delivery!Linked(read.q4, read.quarterly, read.annual)
    BY DEF DeliveryInv, DeliveredInv, JoinedInv
  <2>2. delivery.overall = Delivery!Overall(read)
    BY <2>1 DEF Delivery!Delivered
  <2>3. /\ \A c \in Universe : read.collected[c] = "READY" /\ c \in read.classified
        /\ Delivery!Present(read.q4) /\ Delivery!Present(read.quarterly) /\ Delivery!Present(read.annual)
    BY <2>2 DEF Delivery!Overall, Delivery!ReviewedReady
  <2>4. /\ \A analysis \in {read.quarterly, read.annual} :
             /\ read.q4.companies \subseteq analysis.companies
             /\ analysis.history = read.q4.history /\ analysis.dates = read.q4.dates
        /\ read.quarterly.reviewed = read.q4.id /\ read.annual.reviewed = Delivery!None
    BY <2>1, <2>3 DEF Delivery!Linked
  <2>5. ASSUME NEW c \in Universe
        PROVE  delivery.rows[c] = IF c \in read.q4.companies THEN "ANALYSIS_PREPARED" ELSE "RAW_METADATA_READY"
    <3>1. delivery.rows[c] = Delivery!CompanyState(read, c)
      BY <2>1 DEF Delivery!Delivered
    <3>2. /\ read.collected[c] \in Delivery!RawDone /\ c \in read.classified
          /\ Delivery!Scope(read.q4) = read.q4.companies
          /\ Delivery!Scope(read.quarterly) = read.quarterly.companies
          /\ Delivery!Scope(read.annual) = read.annual.companies
      BY <2>3 DEF Delivery!RawDone, Delivery!Scope
    <3>3. CASE c \in read.q4.companies
      <4>1. c \in read.quarterly.companies /\ c \in read.annual.companies
        BY <2>4, <3>3
      <4> QED BY <3>1, <3>2, <3>3, <4>1 DEF Delivery!CompanyState
    <3>4. CASE c \notin read.q4.companies
      BY <3>1, <3>2, <3>4 DEF Delivery!CompanyState
    <3> QED BY <3>3, <3>4
  <2> QED BY <2>4, <2>5 DEF Delivery!ReadyIsJoined
<1> QED BY <1>1, <1>2

LEMMA DeliveryInvInit == Delivery!Init => DeliveryInv
BY FirstInputsAssumption
   DEF Delivery!Init, DeliveryInv, DeliveryJobInv, DeliveredInv, Delivery!Present, Delivery!NoFile

LEMMA DeliveryInvNext ==
  ASSUME DeliveryInv, Delivery!Next PROVE DeliveryInv'
<1>1. CASE Delivery!Start
  <2>1. UNCHANGED <<given, assessment, delivery>>
    BY <1>1 DEF Delivery!Start
  <2>2. job' = [step |-> "attested", collected |-> given.collected, assessment |-> assessment, of |-> given,
                accuracy |-> IF Delivery!Present(assessment) THEN assessment.state ELSE "NOT_PROVIDED"]
    BY <1>1 DEF Delivery!Start
  <2>3. ASSUME Delivery!Present(assessment), assessment.state = "PASS"
        PROVE  Delivery!PassHolds(assessment, given) /\ Delivery!BindingsVerify(given)
    BY <1>1, <2>3 DEF Delivery!Start, Delivery!Attested
  <2>4. AttestedInv(job')
    BY <2>2, <2>3 DEF AttestedInv, DeliveryInv
  <2>5. DeliveryJobInv'
    BY <2>2, <2>4 DEF DeliveryJobInv, AttestedInv
  <2> QED BY <2>1, <2>5 DEF DeliveryInv, DeliveredInv, JoinedInv, AttestedInv
<1>2. CASE Delivery!Join
  <2>1. UNCHANGED <<given, assessment, delivery>>
    BY <1>2 DEF Delivery!Join
  <2> DEFINE Holds == /\ Delivery!MasterHolds(given) /\ Delivery!ReviewedHolds(given.q4)
                      /\ Delivery!AnalysisHolds(given, given.quarterly) /\ Delivery!AnalysisHolds(given, given.annual)
                      /\ Delivery!Linked(given.q4, given.quarterly, given.annual)
  <2>2. CASE ~Holds
    <3>1. job' = Delivery!Idle
      BY <1>2, <2>2 DEF Delivery!Join
    <3> QED BY <2>1, <3>1 DEF DeliveryInv, DeliveryJobInv, DeliveredInv, JoinedInv, AttestedInv
  <2>3. CASE Holds
    <3> DEFINE Names == {"classified", "q4", "quarterly", "annual"}
    <3>1. job' = [k \in DOMAIN job \cup Names |->
                    CASE k = "step" -> "joined" [] k \in Names -> given[k] [] OTHER -> job[k]]
      BY <1>2, <2>3 DEF Delivery!Join
    <3>2. /\ job.step = "attested" /\ {"step", "accuracy", "assessment", "of"} \subseteq DOMAIN job
          /\ AttestedInv(job)
      BY <1>2 DEF Delivery!Join, DeliveryInv, DeliveryJobInv, Delivery!Idle
    <3>3. job'.q4 = given.q4 /\ job'.quarterly = given.quarterly /\ job'.annual = given.annual
      BY <3>1
    <3>4. job'.accuracy = job.accuracy /\ job'.assessment = job.assessment /\ job'.of = job.of
      BY <3>1, <3>2
    <3>5. JoinedInv(job')
      BY <2>3, <3>2, <3>3, <3>4 DEF JoinedInv, AttestedInv
    <3>6. job'.step = "joined"
      BY <3>1, <3>2
    <3>7. DeliveryJobInv'
      BY <3>5, <3>6 DEF DeliveryJobInv, JoinedInv, AttestedInv
    <3> QED BY <2>1, <3>7 DEF DeliveryInv, DeliveredInv, JoinedInv, AttestedInv
  <2> QED BY <2>2, <2>3
<1>3. CASE Delivery!Publish
  <2>1. delivery' = Delivery!Delivered(job) /\ job' = Delivery!Idle /\ UNCHANGED given
    BY <1>3 DEF Delivery!Publish
  <2>2. JoinedInv(job)
    BY <1>3 DEF Delivery!Publish, DeliveryInv, DeliveryJobInv, Delivery!Idle
  <2>3. delivery'.read = job
    BY <2>1 DEF Delivery!Delivered
  <2>4. DeliveredInv'
    BY <2>1, <2>2, <2>3 DEF DeliveredInv, JoinedInv, AttestedInv
  <2> QED BY <2>1, <2>4 DEF DeliveryInv, DeliveryJobInv
<1>4. CASE Delivery!Assess
  BY <1>4 DEF Delivery!Assess, DeliveryInv, DeliveryJobInv, DeliveredInv, JoinedInv, AttestedInv
<1>5. CASE Delivery!Replace
  <2>1. Delivery!Listed(given') /\ UNCHANGED <<assessment, job, delivery>>
    BY <1>5 DEF Delivery!Replace
  <2> QED BY <2>1 DEF DeliveryInv, DeliveryJobInv, DeliveredInv, JoinedInv, AttestedInv, Delivery!Listed
<1> QED BY <1>1, <1>2, <1>3, <1>4, <1>5 DEF Delivery!Next

DeliveryPart == part = "delivery" => DeliveryInv

\* An accepted PASS says exactly what is governed, and READY joins publications
\* that belong together: for any companies, any files on disk and whatever they
\* are replaced by between the reads (universe_delivery.py).
THEOREM DeliveryIsAlwaysHonest == MCSpec => []DeliveryIsHonest
<1>1. MCInit => DeliveryPart
  BY DeliveryInvInit DEF MCInit, DeliveryPart
<1>2. DeliveryPart /\ [MCNext]_mcvars => DeliveryPart'
  <2> SUFFICES ASSUME DeliveryPart, [MCNext]_mcvars, part' = "delivery" PROVE DeliveryInv'
    BY DEF DeliveryPart
  <2>1. CASE UNCHANGED mcvars
    BY <2>1 DEF mcvars, deliveryVars, DeliveryPart, DeliveryInv, DeliveryJobInv, DeliveredInv, JoinedInv,
                AttestedInv
  <2>2. CASE MCNext
    <3>1. part = "delivery" /\ Delivery!Next
      BY <2>2 DEF MCNext
    <3> QED BY <3>1, DeliveryInvNext DEF DeliveryPart
  <2> QED BY <2>1, <2>2
<1>3. DeliveryPart => DeliveryIsHonest
  BY DeliveryFollows DEF DeliveryPart, DeliveryIsHonest
<1> QED BY <1>1, <1>2, <1>3, PTL DEF MCSpec

-----------------------------------------------------------------------------
(* The latest views of quarterly metrics                                   *)

\* A finite set of integers has a greatest element.
LEMMA GreatestExists ==
  ASSUME NEW S \in SUBSET Int, IsFiniteSet(S), S # {}
  PROVE  \E x \in S : \A y \in S : x >= y
<1> DEFINE Above(x) == {y \in S : y > x}
           T == {Cardinality(Above(x)) : x \in S}
<1>1. \A x \in S : IsFiniteSet(Above(x)) /\ Cardinality(Above(x)) \in Nat
  BY FS_Subset, FS_CardinalityType
<1>2. T \subseteq Nat /\ T # {}
  BY <1>1
<1>3. PICK n \in T : \A k \in T : ~(<<k, n>> \in OpToRel(<, Nat))
  BY <1>2, NatLessThanWellFounded, WFMin
<1>4. PICK x \in S : n = Cardinality(Above(x))
  OBVIOUS
<1>5. SUFFICES ASSUME NEW y \in S, ~(x >= y) PROVE FALSE
  OBVIOUS
<1>6. y > x /\ Above(y) \in SUBSET Above(x)
  <2>1. x \in Int /\ y \in Int /\ y > x
    BY <1>5
  <2>2. \A z \in Int : z > y => z > x
    BY <2>1
  <2>3. \A z \in S : z > y => z > x
    BY <2>2
  <2> QED BY <2>1, <2>3
<1>7. Above(y) # Above(x)
  <2>1. y \in Above(x) /\ y \notin Above(y)
    BY <1>6
  <2> QED BY <2>1
<1>8. Cardinality(Above(y)) <= Cardinality(Above(x)) /\ Cardinality(Above(y)) # Cardinality(Above(x))
  BY <1>1, <1>6, <1>7, FS_Subset
<1>9. Cardinality(Above(y)) \in Nat /\ n \in Nat /\ Cardinality(Above(y)) \in T
  BY <1>1, <1>2
<1>10. Cardinality(Above(y)) < n
  <2> HIDE DEF Above
  <2> QED BY <1>1, <1>4, <1>8
<1> HIDE DEF T
<1>11. <<Cardinality(Above(y)), n>> \in OpToRel(<, Nat)
  BY <1>9, <1>10 DEF OpToRel
<1> QED BY <1>3, <1>9, <1>11

LEMMA MaxIsGreatest ==
  ASSUME NEW S \in SUBSET Int, IsFiniteSet(S), S # {}
  PROVE  Max(S) \in S /\ \A y \in S : Max(S) >= y
<1>1. \E x \in S : \A y \in S : x >= y
  BY GreatestExists
<1> QED BY <1>1 DEF Max

\* A row of metric m in bucket b.
QuarterRow(r, m, b) ==
  /\ r.metric = m /\ r.bucket = b
  /\ r = [metric |-> m, bucket |-> b, kind |-> r.kind, class |-> r.class, fy |-> r.fy, fq |-> r.fq,
          start |-> r.start, end |-> r.end, filed |-> r.filed, report |-> r.report,
          basis |-> r.basis, concept |-> r.concept, value |-> r.value, inputs |-> r.inputs]

LEMMA RowIsPlaced ==
  \A m, b, kind, at, filed, value, inputs : QuarterRow(Row(m, b, kind, at, filed, value, inputs), m, b)
BY DEF Row, QuarterRow

LEMMA HeldIsPlaced == \A m, b : QuarterRow(Held(m, b), m, b)
BY DEF Held, QuarterRow

LEMMA PickedIsPlaced ==
  ASSUME NEW cells, NEW m, NEW b
  PROVE  QuarterRow(Picked(Direct(cells), m, b), m, b)
<1> DEFINE direct == Direct(cells)
           choices == {r \in direct : r.metric = m /\ r.bucket = b}
<1>1. CASE Cardinality(choices) = 1
  <2>1. choices # {}
    BY <1>1, FS_EmptySet
  <2>2. Picked(direct, m, b) \in choices
    BY <1>1, <2>1 DEF Picked
  <2>3. PICK c \in cells : Picked(direct, m, b) = Prepared(c)
    BY <2>2 DEF Direct
  <2>4. QuarterRow(Prepared(c), Prepared(c).metric, Prepared(c).bucket)
    <3>1. Prepared(c).metric = c.metric /\ Prepared(c).bucket = Bucket(c.end)
      BY DEF Prepared, Row
    <3> QED BY <3>1, RowIsPlaced DEF Prepared
  <2> QED BY <2>2, <2>3, <2>4
<1>2. CASE Cardinality(choices) # 1
  BY <1>2, HeldIsPlaced DEF Picked
<1> QED BY <1>1, <1>2

LEMMA GenericIsPlaced ==
  ASSUME NEW d, NEW rows, NEW indexed, NEW b PROVE QuarterRow(GenericRow(d, rows, indexed, b), d.metric, b)
BY RowIsPlaced, HeldIsPlaced DEF GenericRow

LEMMA SumIsPlaced ==
  ASSUME NEW catalog, NEW m, NEW rows, NEW indexed, NEW b
  PROVE  QuarterRow(TtmRow(catalog, m, rows, indexed, b), TtmOf[m], b)
BY RowIsPlaced, HeldIsPlaced DEF TtmRow, Summed

LEMMA SumMarginIsPlaced ==
  ASSUME NEW catalog, NEW rows, NEW indexed, NEW b
  PROVE  QuarterRow(TtmMarginRow(catalog, rows, indexed, b), "ttm_fcf_margin", b)
BY RowIsPlaced, HeldIsPlaced DEF TtmMarginRow, Summed

\* Rows of some metrics, each one a function of the bucket.
Family(rows, names) ==
  /\ \A r \in rows : r.metric \in names /\ QuarterRow(r, r.metric, r.bucket)
  /\ \A r, s \in rows : r.metric = s.metric /\ r.bucket = s.bucket => r = s
  /\ \A r \in rows, b \in Spine : \E s \in rows : s.metric = r.metric /\ s.bucket = b

LEMMA FamiliesJoin ==
  ASSUME NEW S, NEW A, NEW T, NEW B, Family(S, A), Family(T, B), A \cap B = {}
  PROVE  Family(S \cup T, A \cup B)
BY DEF Family

Reporteds == {"revenue", "cfo", "capex", "debt", "cash"}
Combineds == {"revenue_qoq", "revenue_yoy", "fcf", "net_debt"}
Sums == {"ttm_revenue", "ttm_fcf"}

\* The reported rows.
LEMMA PickedAreAFamily ==
  ASSUME NEW cells, NEW all, Spine \subseteq all
  PROVE  Family({Picked(Direct(cells), m, b) : m \in Durations \cup Instants, b \in all}, Reporteds)
<1> DEFINE made == {Picked(Direct(cells), m, b) : m \in Durations \cup Instants, b \in all}
<1>1. Durations \cup Instants \subseteq Reporteds
  BY DEF Durations, Instants, Reporteds
<1>2. \A m \in Durations \cup Instants, b \in all : QuarterRow(Picked(Direct(cells), m, b), m, b)
  BY PickedIsPlaced
<1>3. ASSUME NEW r \in made
      PROVE  \E m \in Durations \cup Instants, b \in all : r = Picked(Direct(cells), m, b) /\ QuarterRow(r, m, b)
  BY <1>2
<1>4. ASSUME NEW r \in made PROVE r.metric \in Reporteds /\ QuarterRow(r, r.metric, r.bucket)
  BY <1>1, <1>3 DEF QuarterRow
<1>5. ASSUME NEW r \in made, NEW s \in made, r.metric = s.metric, r.bucket = s.bucket PROVE r = s
  BY <1>1, <1>3, <1>5 DEF QuarterRow
<1>6. ASSUME NEW r \in made, NEW c \in Spine PROVE \E s \in made : s.metric = r.metric /\ s.bucket = c
  <2>1. PICK m \in Durations \cup Instants : r.metric = m
    BY <1>3 DEF QuarterRow
  <2>2. Picked(Direct(cells), m, c) \in made
    OBVIOUS
  <2>3. QuarterRow(Picked(Direct(cells), m, c), m, c)
    BY PickedIsPlaced
  <2> HIDE DEF made
  <2> QED BY <2>1, <2>2, <2>3 DEF QuarterRow
<1>7. Family(made, Reporteds)
  <2> HIDE DEF made
  <2> QED BY <1>4, <1>5, <1>6 DEF Family
<1> QED BY <1>7

\* The ratios, differences and growth rates.
LEMMA GenericsAreAFamily ==
  ASSUME NEW rows, NEW indexed, NEW all, Spine \subseteq all
  PROVE  Family({GenericRow(d, rows, indexed, b) : d \in Generics, b \in all}, Combineds)
<1> DEFINE made == {GenericRow(d, rows, indexed, b) : d \in Generics, b \in all}
<1>1. \A c, d \in Generics : d.metric \in Combineds /\ (c.metric = d.metric => c = d)
  BY DEF Generics, Generic, Combineds
<1>2. \A d \in Generics, b \in all : QuarterRow(GenericRow(d, rows, indexed, b), d.metric, b)
  BY GenericIsPlaced
<1>3. ASSUME NEW r \in made
      PROVE  \E d \in Generics, b \in all : r = GenericRow(d, rows, indexed, b) /\ QuarterRow(r, d.metric, b)
  BY <1>2
<1>4. ASSUME NEW r \in made PROVE r.metric \in Combineds /\ QuarterRow(r, r.metric, r.bucket)
  BY <1>1, <1>3 DEF QuarterRow
<1>5. ASSUME NEW r \in made, NEW s \in made, r.metric = s.metric, r.bucket = s.bucket PROVE r = s
  BY <1>1, <1>3, <1>5 DEF QuarterRow
<1>6. ASSUME NEW r \in made, NEW c \in Spine PROVE \E s \in made : s.metric = r.metric /\ s.bucket = c
  <2>1. PICK d \in Generics : r.metric = d.metric
    BY <1>3 DEF QuarterRow
  <2>2. GenericRow(d, rows, indexed, c) \in made
    OBVIOUS
  <2>3. QuarterRow(GenericRow(d, rows, indexed, c), d.metric, c)
    BY GenericIsPlaced
  <2> HIDE DEF made
  <2> QED BY <2>1, <2>2, <2>3 DEF QuarterRow
<1>7. Family(made, Combineds)
  <2> HIDE DEF made
  <2> QED BY <1>4, <1>5, <1>6 DEF Family
<1> QED BY <1>7

\* The margins.
LEMMA MarginsAreAFamily ==
  ASSUME NEW rows, NEW indexed, NEW all, Spine \subseteq all
  PROVE  Family({GenericRow(d, rows, indexed, b) : d \in Margins, b \in all}, {"fcf_margin"})
<1> DEFINE made == {GenericRow(d, rows, indexed, b) : d \in Margins, b \in all}
<1>1. \A c, d \in Margins : d.metric = "fcf_margin" /\ c = d
  BY DEF Margins, Generic
<1>2. \A d \in Margins, b \in all : QuarterRow(GenericRow(d, rows, indexed, b), d.metric, b)
  BY GenericIsPlaced
<1>3. ASSUME NEW r \in made
      PROVE  \E d \in Margins, b \in all : r = GenericRow(d, rows, indexed, b) /\ QuarterRow(r, d.metric, b)
  BY <1>2
<1>4. ASSUME NEW r \in made PROVE r.metric \in {"fcf_margin"} /\ QuarterRow(r, r.metric, r.bucket)
  BY <1>1, <1>3 DEF QuarterRow
<1>5. ASSUME NEW r \in made, NEW s \in made, r.metric = s.metric, r.bucket = s.bucket PROVE r = s
  BY <1>1, <1>3, <1>5 DEF QuarterRow
<1>6. ASSUME NEW r \in made, NEW c \in Spine PROVE \E s \in made : s.metric = r.metric /\ s.bucket = c
  <2>1. PICK d \in Margins : r.metric = d.metric
    BY <1>3 DEF QuarterRow
  <2>2. GenericRow(d, rows, indexed, c) \in made
    OBVIOUS
  <2>3. QuarterRow(GenericRow(d, rows, indexed, c), d.metric, c)
    BY GenericIsPlaced
  <2> HIDE DEF made
  <2> QED BY <2>1, <2>2, <2>3 DEF QuarterRow
<1>7. Family(made, {"fcf_margin"})
  <2> HIDE DEF made
  <2> QED BY <1>4, <1>5, <1>6 DEF Family
<1> QED BY <1>7

\* The sums of four quarters.
LEMMA SumsAreAFamily ==
  ASSUME NEW catalog, NEW rows, NEW indexed
  PROVE  Family({TtmRow(catalog, m, rows, indexed, b) : m \in TtmInputs, b \in Spine}, Sums)
<1> DEFINE made == {TtmRow(catalog, m, rows, indexed, b) : m \in TtmInputs, b \in Spine}
<1>1. \A m, n \in TtmInputs : TtmOf[m] \in Sums /\ (TtmOf[m] = TtmOf[n] => m = n)
  BY DEF TtmInputs, TtmOf, Sums
<1>2. \A m \in TtmInputs, b \in Spine : QuarterRow(TtmRow(catalog, m, rows, indexed, b), TtmOf[m], b)
  BY SumIsPlaced
<1>3. ASSUME NEW r \in made
      PROVE  \E m \in TtmInputs, b \in Spine : r = TtmRow(catalog, m, rows, indexed, b) /\ QuarterRow(r, TtmOf[m], b)
  BY <1>2
<1>4. ASSUME NEW r \in made PROVE r.metric \in Sums /\ QuarterRow(r, r.metric, r.bucket)
  BY <1>1, <1>3 DEF QuarterRow
<1>5. ASSUME NEW r \in made, NEW s \in made, r.metric = s.metric, r.bucket = s.bucket PROVE r = s
  BY <1>1, <1>3, <1>5 DEF QuarterRow
<1>6. ASSUME NEW r \in made, NEW c \in Spine PROVE \E s \in made : s.metric = r.metric /\ s.bucket = c
  <2>1. PICK m \in TtmInputs : r.metric = TtmOf[m]
    BY <1>3 DEF QuarterRow
  <2>2. TtmRow(catalog, m, rows, indexed, c) \in made
    OBVIOUS
  <2>3. QuarterRow(TtmRow(catalog, m, rows, indexed, c), TtmOf[m], c)
    BY SumIsPlaced
  <2> HIDE DEF made
  <2> QED BY <2>1, <2>2, <2>3 DEF QuarterRow
<1>7. Family(made, Sums)
  <2> HIDE DEF made
  <2> QED BY <1>4, <1>5, <1>6 DEF Family
<1> QED BY <1>7

\* The margins of the sums.
LEMMA SumMarginsAreAFamily ==
  ASSUME NEW catalog, NEW rows, NEW indexed
  PROVE  Family({TtmMarginRow(catalog, rows, indexed, b) : b \in Spine}, {"ttm_fcf_margin"})
<1> DEFINE made == {TtmMarginRow(catalog, rows, indexed, b) : b \in Spine}
<1>1. "ttm_fcf_margin" \in {"ttm_fcf_margin"}
  OBVIOUS
<1>2. \A b \in Spine : QuarterRow(TtmMarginRow(catalog, rows, indexed, b), "ttm_fcf_margin", b)
  BY SumMarginIsPlaced
<1>3. ASSUME NEW r \in made
      PROVE  \E b \in Spine : r = TtmMarginRow(catalog, rows, indexed, b) /\ QuarterRow(r, "ttm_fcf_margin", b)
  BY <1>2
<1>4. ASSUME NEW r \in made PROVE r.metric \in {"ttm_fcf_margin"} /\ QuarterRow(r, r.metric, r.bucket)
  BY <1>1, <1>3 DEF QuarterRow
<1>5. ASSUME NEW r \in made, NEW s \in made, r.metric = s.metric, r.bucket = s.bucket PROVE r = s
  BY <1>1, <1>3, <1>5 DEF QuarterRow
<1>6. ASSUME NEW r \in made, NEW c \in Spine PROVE \E s \in made : s.metric = r.metric /\ s.bucket = c
  <2>1. r.metric = "ttm_fcf_margin"
    BY <1>3 DEF QuarterRow
  <2>2. TtmMarginRow(catalog, rows, indexed, c) \in made
    OBVIOUS
  <2>3. QuarterRow(TtmMarginRow(catalog, rows, indexed, c), "ttm_fcf_margin", c)
    BY SumMarginIsPlaced
  <2> HIDE DEF made
  <2> QED BY <2>1, <2>2, <2>3 DEF QuarterRow
<1>7. Family(made, {"ttm_fcf_margin"})
  <2> HIDE DEF made
  <2> QED BY <1>4, <1>5, <1>6 DEF Family
<1> QED BY <1>7

\* Every metric that is published has exactly one row in every bucket of the spine.
FullSpine(rows) ==
  /\ \A r \in rows : r.bucket \in Spine /\ QuarterRow(r, r.metric, r.bucket)
  /\ \A r, s \in rows : r.metric = s.metric /\ r.bucket = s.bucket => r = s
  /\ \A r \in rows, b \in Spine : \E s \in rows : s.metric = r.metric /\ s.bucket = b

LEMMA BuildIsFull ==
  ASSUME NEW cells, NEW catalog PROVE FullSpine(Build(cells, catalog))
<1> DEFINE direct == Direct(cells)
           all == Buckets(direct)
           picked == {Picked(direct, m, b) : m \in Durations \cup Instants, b \in all}
           generic == {GenericRow(d, picked, direct, b) : d \in Generics, b \in all}
           first == picked \cup generic
           margins == {GenericRow(d, first, direct, b) : d \in Margins, b \in all}
           rows == first \cup margins
           indexed == direct \cup generic \cup margins
           sums == {TtmRow(catalog, m, rows, indexed, b) : m \in TtmInputs, b \in Spine}
           ratios == {TtmMarginRow(catalog, rows, indexed, b) : b \in Spine}
           built == rows \cup (sums \cup ratios)
<1>1. Build(cells, catalog) = {r \in built : r.bucket \in Spine}
  BY DEF Build
<1>2. Spine \subseteq all
  BY DEF Buckets
<1> HIDE DEF all
<1>3. Family(picked, Reporteds)
  BY <1>2, PickedAreAFamily
<1> HIDE DEF direct, picked
<1>4. Family(generic, Combineds)
  BY <1>2, GenericsAreAFamily
<1> HIDE DEF generic
<1>5. Family(margins, {"fcf_margin"})
  <2> HIDE DEF first
  <2> QED BY <1>2, MarginsAreAFamily
<1> HIDE DEF margins, indexed
<1>6. Family(sums, Sums) /\ Family(ratios, {"ttm_fcf_margin"})
  <2> HIDE DEF rows
  <2> QED BY SumsAreAFamily, SumMarginsAreAFamily
<1> HIDE DEF sums, ratios
<1>7. Family(first, Reporteds \cup Combineds)
  BY <1>3, <1>4, FamiliesJoin DEF Reporteds, Combineds
<1> HIDE DEF first
<1>8. Family(rows, Reporteds \cup Combineds \cup {"fcf_margin"})
  BY <1>5, <1>7, FamiliesJoin DEF Reporteds, Combineds
<1>9. Family(sums \cup ratios, Sums \cup {"ttm_fcf_margin"})
  BY <1>6, FamiliesJoin DEF Sums
<1> HIDE DEF rows
<1>10. (Reporteds \cup Combineds \cup {"fcf_margin"}) \cap (Sums \cup {"ttm_fcf_margin"}) = {}
  BY DEF Reporteds, Combineds, Sums
<1>11. Family(built, (Reporteds \cup Combineds \cup {"fcf_margin"}) \cup (Sums \cup {"ttm_fcf_margin"}))
  BY <1>8, <1>9, <1>10, FamiliesJoin
<1> HIDE DEF built
<1> QED BY <1>1, <1>11 DEF Family, FullSpine
\* The anchor is the newest bucket of the spine with a period in it.
LEMMA AnchorIsNewest ==
  ASSUME NEW cells, HasAnchor(Inventory(cells))
  PROVE  LET anchor == Anchor(Inventory(cells))
         IN /\ anchor.bucket \in Spine
            /\ anchor.status \in {"PERIOD_AVAILABLE", "PERIOD_CONFLICT"}
            /\ anchor.status = "PERIOD_AVAILABLE" => \E p : p \in Lasting(anchor)
            /\ \A c \in Spine : Periods(cells, c) # {} => anchor.bucket >= c
<1> DEFINE inventory == Inventory(cells)
           filed == {b \in Spine : HasFiling(inventory[b])}
           last == Max(filed)
           periods == Periods(cells, last)
           lasting == {p \in periods : ~p.instant}
           pool == IF lasting = {} THEN periods ELSE lasting
<1>1. \A b \in Spine :
        inventory[b] = [bucket |-> b, status |-> BucketStatus(cells, b), periods |-> Periods(cells, b)]
  BY DEF Inventory
<1>2. filed \in SUBSET Int /\ IsFiniteSet(filed) /\ filed # {}
  BY SpineAssumption, FS_Subset DEF HasAnchor
<1>3. last \in filed /\ \A y \in filed : last >= y
  BY <1>2, MaxIsGreatest
<1>4. Anchor(inventory) = inventory[last]
  BY DEF Anchor
<1> HIDE DEF inventory, last
<1>5. /\ last \in Spine
      /\ Anchor(inventory) = [bucket |-> last, status |-> BucketStatus(cells, last), periods |-> periods]
  BY <1>1, <1>3, <1>4
<1>6. BucketStatus(cells, last) # "NO_FILING_AS_OF_CUTOFF"
  <2>1. last \in Spine /\ HasFiling(inventory[last])
    BY <1>3
  <2>2. inventory[last].status = BucketStatus(cells, last)
    BY <1>4, <1>5
  <2> QED BY <2>1, <2>2 DEF HasFiling
<1>7. /\ BucketStatus(cells, last) \in {"PERIOD_AVAILABLE", "PERIOD_CONFLICT"}
      /\ BucketStatus(cells, last) = "PERIOD_AVAILABLE" => Cardinality(pool) = 1
  BY <1>6 DEF BucketStatus
<1>8. Cardinality(pool) = 1 => \E p : p \in Lasting(Anchor(inventory))
  <2>1. Cardinality(pool) = 1 => pool # {}
    BY FS_EmptySet
  <2>2. Anchor(inventory).periods = periods
    BY <1>5
  <2>3. Lasting(Anchor(inventory)) = IF \A p \in periods : p.instant THEN periods ELSE lasting
    BY <2>2 DEF Lasting
  <2> HIDE DEF periods
  <2> QED BY <2>1, <2>3
<1>9. ASSUME NEW c \in Spine, Periods(cells, c) # {} PROVE last >= c
  <2>1. BucketStatus(cells, c) # "NO_FILING_AS_OF_CUTOFF"
    <3> DEFINE P == Periods(cells, c)
    <3> HIDE DEF P
    <3> QED BY <1>9 DEF BucketStatus, P
  <2>2. inventory[c].status = BucketStatus(cells, c)
    <3>1. inventory[c] = [bucket |-> c, status |-> BucketStatus(cells, c), periods |-> Periods(cells, c)]
      BY <1>1
    <3> HIDE DEF inventory
    <3> QED BY <3>1
  <2>3. HasFiling(inventory[c])
    BY <2>1, <2>2 DEF HasFiling
  <2>4. c \in filed
    BY <2>3
  <2> QED BY <1>3, <2>4
<1>10. Anchor(inventory).bucket = last /\ Anchor(inventory).status = BucketStatus(cells, last)
  BY <1>5
<1> HIDE DEF pool, periods, filed
<1> QED BY <1>5, <1>7, <1>8, <1>9, <1>10 DEF inventory

\* A company's publication is what is built of its facts.
Fresh(publication, cells) ==
  \E catalog \in {"STRICT", "ARITHMETIC"} :
    publication = [catalog |-> catalog, rows |-> Build(cells, catalog), inventory |-> Inventory(cells)]

LEMMA FreshIsFull ==
  ASSUME NEW publication, NEW cells, Fresh(publication, cells)
  PROVE  FullSpine(publication.rows) /\ publication.inventory = Inventory(cells)
<1>1. PICK catalog : publication = [catalog |-> catalog, rows |-> Build(cells, catalog), inventory |-> Inventory(cells)]
  BY DEF Fresh
<1> QED BY <1>1, BuildIsFull

\* A row at the anchor is shown as it is, any other as a hold.
LEMMA AtLatestShows ==
  ASSUME NEW r, NEW anchor, QuarterRow(r, r.metric, r.bucket)
  PROVE  /\ Ok(AtLatest(r, anchor)) =>
              AtLatest(r, anchor) = r /\ anchor.status = "PERIOD_AVAILABLE" /\ AtAnchor(r, anchor)
         /\ AtLatest(r, anchor).metric = r.metric /\ AtLatest(r, anchor).bucket = r.bucket
<1> DEFINE held == [r EXCEPT !.kind = Unavailable, !.value = 0]
<1>1. {"metric", "bucket", "kind", "value"} \subseteq DOMAIN r
  <2> DEFINE whole == [metric |-> r.metric, bucket |-> r.bucket, kind |-> r.kind, class |-> r.class, fy |-> r.fy,
                       fq |-> r.fq, start |-> r.start, end |-> r.end, filed |-> r.filed, report |-> r.report,
                       basis |-> r.basis, concept |-> r.concept, value |-> r.value, inputs |-> r.inputs]
  <2>1. r = whole
    BY DEF QuarterRow
  <2>2. {"metric", "bucket", "kind", "value"} \subseteq DOMAIN whole
    OBVIOUS
  <2> HIDE DEF whole
  <2> QED BY <2>1, <2>2
<1>2. held.metric = r.metric /\ held.bucket = r.bucket /\ held.kind = Unavailable
  BY <1>1
<1>3. ~Ok(held)
  BY <1>2 DEF Ok
<1>4. CASE anchor.status = "PERIOD_AVAILABLE" /\ AtAnchor(r, anchor)
  <2>1. AtLatest(r, anchor) = r
    BY <1>4 DEF AtLatest
  <2> QED BY <1>4, <2>1
<1>5. CASE ~(anchor.status = "PERIOD_AVAILABLE" /\ AtAnchor(r, anchor))
  <2>1. AtLatest(r, anchor) = held
    BY <1>5 DEF AtLatest
  <2> HIDE DEF held
  <2> QED BY <1>2, <1>3, <2>1
<1> QED BY <1>4, <1>5

LEMMA QuarterViewsAgree ==
  ASSUME NEW publication, NEW cells, Fresh(publication, cells), HasAnchor(publication.inventory),
         NEW row \in publication.rows
  PROVE  /\ ValuesOf(Explored(publication, row.metric)) = ValuesOf(Judged(publication, row.metric))
         /\ ValuesOf(Series(publication, row.metric)) = ValuesOf(Judged(publication, row.metric))
<1> DEFINE m == row.metric
           anchor == Anchor(publication.inventory)
           shown == Shown(publication, m, anchor.bucket)
<1>1. FullSpine(publication.rows) /\ publication.inventory = Inventory(cells)
  BY FreshIsFull
<1>2. /\ anchor.bucket \in Spine
      /\ anchor.status \in {"PERIOD_AVAILABLE", "PERIOD_CONFLICT"}
  BY <1>1, AnchorIsNewest
<1>3. Spine \subseteq Int
  BY SpineAssumption
<1> HIDE DEF m, anchor
<1>4. \A r \in shown : r \in publication.rows /\ QuarterRow(r, r.metric, r.bucket)
  BY <1>1 DEF Shown, FullSpine
<1>5. {AtLatest(r, anchor) : r \in shown} =
        IF anchor.status = "PERIOD_AVAILABLE" THEN Explored(publication, m)
        ELSE {AtLatest(r, anchor) : r \in shown}
  BY DEF Explored, anchor
<1>6. anchor.status = "PERIOD_CONFLICT" => ValuesOf({AtLatest(r, anchor) : r \in shown}) = {}
  <2> SUFFICES ASSUME anchor.status = "PERIOD_CONFLICT", NEW r \in shown PROVE ~Ok(AtLatest(r, anchor))
    BY DEF ValuesOf
  <2> QED BY <1>4, AtLatestShows
<1>7. ValuesOf({}) = {}
  BY DEF ValuesOf
<1>8. Judged(publication, m) =
        IF anchor.status = "PERIOD_AVAILABLE" THEN {AtLatest(r, anchor) : r \in shown} ELSE {}
  BY <1>2 DEF Judged, anchor
<1>9. ValuesOf(Judged(publication, m)) = ValuesOf({AtLatest(r, anchor) : r \in shown})
  BY <1>2, <1>6, <1>7, <1>8
<1>10. Series(publication, m) = {AtLatest(r, anchor) : r \in shown}
  <2> DEFINE upTo == {r \in publication.rows : r.metric = m /\ r.bucket <= anchor.bucket}
             last == {r \in upTo : \A s \in upTo : s.bucket <= r.bucket}
  <2>1. PICK t \in publication.rows : t.metric = m /\ t.bucket = anchor.bucket
    BY <1>1, <1>2 DEF FullSpine, m
  <2>2. t \in upTo
    <3>1. anchor.bucket \in Int
      BY <1>2, <1>3
    <3> QED BY <2>1, <3>1
  <2>3. \A r \in publication.rows : r.bucket \in Int
    BY <1>1, <1>3 DEF FullSpine
  <2>4. last = shown
    <3>1. ASSUME NEW r \in last PROVE r \in shown
      <4>1. r \in publication.rows /\ r.metric = m /\ r.bucket <= anchor.bucket /\ t.bucket <= r.bucket
        BY <2>2
      <4>2. r.bucket = anchor.bucket
        BY <1>2, <1>3, <2>1, <2>3, <4>1
      <4> QED BY <4>1, <4>2 DEF Shown
    <3>2. ASSUME NEW r \in shown PROVE r \in last
      <4>1. r \in publication.rows /\ r.metric = m /\ r.bucket = anchor.bucket /\ anchor.bucket \in Int
        BY <1>2, <1>3 DEF Shown
      <4>2. r \in upTo
        BY <4>1
      <4> QED BY <4>1, <4>2
    <3> QED BY <3>1, <3>2
  <2>5. \A r \in shown : r.bucket = anchor.bucket
    BY DEF Shown
  <2>6. Series(publication, m) = {IF r.bucket = anchor.bucket THEN AtLatest(r, anchor) ELSE r : r \in last}
    BY DEF Series, anchor
  <2> HIDE DEF last, shown
  <2> QED BY <2>4, <2>5, <2>6
<1>11. ValuesOf(Explored(publication, m)) = ValuesOf(Judged(publication, m))
  <2>1. anchor.status # "PERIOD_AVAILABLE" => Explored(publication, m) = {}
    BY DEF Explored, anchor
  <2> QED BY <1>2, <1>5, <1>7, <1>8, <2>1
<1> QED BY <1>9, <1>10, <1>11 DEF m

\* What passes passes on values of the anchor's period.
LEMMA QuarterPassIsOne ==
  ASSUME NEW publication, NEW cells, Fresh(publication, cells), NEW condition,
         NEW seen, seen = UNION {Judged(publication, p.metric) : p \in condition},
         Aggregate({Result(publication, p) : p \in condition}) = "PASS"
  PROVE  /\ Cardinality({<<r.fy, r.fq, r.end>> : r \in seen}) = 1
         /\ \A r \in seen, c \in Direct(cells) : c.bucket \in Spine => c.bucket <= r.bucket
<1> DEFINE anchor == Anchor(publication.inventory)
<1>1. FullSpine(publication.rows) /\ publication.inventory = Inventory(cells)
  BY FreshIsFull
<1> DEFINE results == {Result(publication, p) : p \in condition}
<1>2. results = {"PASS"}
  <2>1. Aggregate(results) = "PASS"
    OBVIOUS
  <2> HIDE DEF results
  <2> QED BY <2>1 DEF Aggregate
<1>3. /\ \A p \in condition : Result(publication, p) = "PASS"
      /\ \E first : first \in condition
  BY <1>2
<1> HIDE DEF results
<1>4. ASSUME NEW p \in condition
      PROVE  \E r \in Judged(publication, p.metric) : Ok(r)
  <2> DEFINE values == {r.value : r \in {r \in Judged(publication, p.metric) : Ok(r)}}
  <2>1. values # {}
    <3> HIDE DEF values
    <3> QED BY <1>3 DEF Result, values
  <2> QED BY <2>1
<1>5. HasAnchor(publication.inventory) /\ anchor.status # "PERIOD_CONFLICT"
  BY <1>3, <1>4 DEF Judged
<1>6. /\ anchor.bucket \in Spine
      /\ \E p : p \in Lasting(anchor)
      /\ \A c \in Spine : Periods(cells, c) # {} => anchor.bucket >= c
  BY <1>1, <1>5, AnchorIsNewest
<1>7. PICK q : q \in Lasting(anchor)
  BY <1>6
<1> HIDE DEF anchor
<1>8. ASSUME NEW p \in condition, NEW r \in Judged(publication, p.metric)
      PROVE  r.fy = q.fy /\ r.fq = q.fq /\ r.end = q.end /\ r.bucket = anchor.bucket
  <2> DEFINE shown == Shown(publication, p.metric, anchor.bucket)
  <2>1. Judged(publication, p.metric) = {AtLatest(s, anchor) : s \in shown}
    BY <1>5 DEF Judged, anchor
  <2>2. \A s \in shown : /\ s \in publication.rows /\ s.metric = p.metric /\ s.bucket = anchor.bucket
                         /\ QuarterRow(s, s.metric, s.bucket)
    BY <1>1 DEF Shown, FullSpine
  <2> HIDE DEF shown
  <2>3. PICK s \in shown : r = AtLatest(s, anchor)
    BY <2>1
  <2>4. PICK t \in shown : Ok(AtLatest(t, anchor))
    BY <1>4, <2>1
  <2>5. s = t
    BY <1>1, <2>2 DEF FullSpine
  <2>6. r = s /\ AtAnchor(s, anchor) /\ s.bucket = anchor.bucket
    BY <2>2, <2>3, <2>4, <2>5, AtLatestShows
  <2> QED BY <1>7, <2>6 DEF AtAnchor
<1>9. \A r \in seen : r.fy = q.fy /\ r.fq = q.fq /\ r.end = q.end /\ r.bucket = anchor.bucket
  BY <1>8
<1>10. \E r : r \in seen
  BY <1>3, <1>4
<1>11. {<<r.fy, r.fq, r.end>> : r \in seen} = {<<q.fy, q.fq, q.end>>}
  BY <1>9, <1>10
<1>12. ASSUME NEW r \in seen, NEW c \in Direct(cells), c.bucket \in Spine PROVE c.bucket <= r.bucket
  <2>1. Periods(cells, c.bucket) # {}
    BY DEF Periods
  <2>2. anchor.bucket >= c.bucket
    BY <1>6, <1>12, <2>1
  <2>3. anchor.bucket \in Int /\ c.bucket \in Int
    BY <1>6, <1>12, SpineAssumption
  <2> QED BY <1>9, <2>2, <2>3
<1> QED BY <1>11, <1>12, FS_Singleton

\* Once published, the facts stay; a screen answers from the publication.
QuarterInv ==
  /\ published = Nothing => opened # "VERIFIED"
  /\ published # Nothing => Fresh(published, Cells(facts))
  /\ \/ answer = Unasked
     \/ /\ published # Nothing
        /\ \E condition \in Conditions :
             answer = [aggregate |-> Aggregate({Result(published, p) : p \in condition}),
                       seen |-> UNION {Judged(published, p.metric) : p \in condition}]

LEMMA QuarterFollows ==
  ASSUME QuarterInv PROVE LatestViewsAgree /\ PassesOnOneNewestQuarter
<1>1. LatestViewsAgree
  BY QuarterViewsAgree DEF QuarterInv, LatestViewsAgree
<1>2. PassesOnOneNewestQuarter
  <2> SUFFICES ASSUME answer.aggregate = "PASS" PROVE PassesOnOneNewestQuarter
    BY DEF PassesOnOneNewestQuarter
  <2>1. answer # Unasked
    BY DEF Unasked, None
  <2>2. Fresh(published, Cells(facts))
    BY <2>1 DEF QuarterInv
  <2>3. PICK condition \in Conditions :
          answer = [aggregate |-> Aggregate({Result(published, p) : p \in condition}),
                    seen |-> UNION {Judged(published, p.metric) : p \in condition}]
    BY <2>1 DEF QuarterInv
  <2>4. /\ Aggregate({Result(published, p) : p \in condition}) = "PASS"
        /\ answer.seen = UNION {Judged(published, p.metric) : p \in condition}
    BY <2>3
  <2>5. /\ Cardinality({<<r.fy, r.fq, r.end>> : r \in answer.seen}) = 1
        /\ \A r \in answer.seen, c \in Direct(Cells(facts)) : c.bucket \in Spine => c.bucket <= r.bucket
    BY <2>2, <2>4, QuarterPassIsOne
  <2> QED BY <2>5 DEF PassesOnOneNewestQuarter
<1> QED BY <1>1, <1>2

LEMMA QuarterInvInit == Init => QuarterInv
BY DEF Init, QuarterInv, None

LEMMA QuarterInvNext ==
  ASSUME QuarterInv, Next PROVE QuarterInv'
<1>1. CASE Refile
  BY <1>1 DEF Refile, QuarterInv, Fresh
<1>2. CASE Publish
  <2>1. PICK catalog \in {"STRICT", "ARITHMETIC"} :
          published' = [catalog |-> catalog, rows |-> Build(Cells(facts), catalog),
                        inventory |-> Inventory(Cells(facts))]
    BY <1>2 DEF Publish
  <2>2. published = Nothing /\ UNCHANGED <<facts, opened, answer>>
    BY <1>2 DEF Publish
  <2>3. Fresh(published', Cells(facts'))
    BY <2>1, <2>2 DEF Fresh
  <2>4. published' # Nothing
    BY <2>1 DEF Nothing, None
  <2> QED BY <2>2, <2>3, <2>4 DEF QuarterInv
<1>3. CASE Open
  BY <1>3 DEF Open, QuarterInv
<1>4. CASE Evaluate
  <2>1. published # Nothing
    BY <1>4 DEF Evaluate, QuarterInv
  <2>2. UNCHANGED <<facts, published, opened>>
    BY <1>4 DEF Evaluate
  <2>3. \E condition \in Conditions :
          answer' = [aggregate |-> Aggregate({Result(published, p) : p \in condition}),
                     seen |-> UNION {Judged(published, p.metric) : p \in condition}]
    BY <1>4 DEF Evaluate
  <2> QED BY <2>1, <2>2, <2>3 DEF QuarterInv
<1> QED BY <1>1, <1>2, <1>3, <1>4 DEF Next

-----------------------------------------------------------------------------
(* The latest views of annual metrics                                      *)

\* An instance has its own names of the library's operators.
LEMMA AnnualCounts ==
  \A S : Annual!Cardinality(S) = Cardinality(S) /\ Annual!Max(S) = Max(S)
BY DEF Annual!Cardinality, Cardinality, Annual!Max, Max

\* A row of metric m in fiscal year y; an available balance has no start.
AnnualRow(r, m, y) ==
  /\ {"metric", "class", "fy", "ok", "start", "end", "value", "leaves", "basis", "blocked"} \subseteq DOMAIN r
  /\ r.metric = m /\ r.fy = y /\ r.class \in {"FY", "INSTANT"}
  /\ r.start \in Int /\ r.end \in Int
  /\ r.ok /\ r.class = "INSTANT" => r.start = Annual!NoDay

LEMMA NoDayIsInt == Annual!NoDay \in Int
BY DEF Annual!NoDay

LEMMA CommonDay ==
  ASSUME NEW days \in SUBSET Int PROVE Annual!Common(days) \in Int
<1>1. Cardinality(days) = 1 => days # {}
  BY FS_EmptySet
<1>2. days # {} => (CHOOSE d \in days : TRUE) \in days
  OBVIOUS
<1>3. Annual!Cardinality(days) = Cardinality(days)
  BY AnnualCounts
<1> QED BY <1>1, <1>2, <1>3, NoDayIsInt DEF Annual!Common

LEMMA CommonOfOne == \A d : Annual!Common({d}) = d
<1>1. \A d : Cardinality({d}) = 1
  BY FS_Singleton
<1> QED BY <1>1, AnnualCounts DEF Annual!Common

LEMMA RowIsAnnual ==
  ASSUME NEW m, NEW class \in {"FY", "INSTANT"}, NEW y, NEW ok, NEW from \in Int, NEW to \in Int,
         NEW value, NEW leaves, NEW basis,
         ok /\ class = "INSTANT" => from = Annual!NoDay
  PROVE  AnnualRow(Annual!Row(m, class, y, ok, from, to, value, leaves, basis), m, y)
BY DEF AnnualRow, Annual!Row

LEMMA ClassIsKnown == \A m : Annual!Class(m) \in {"FY", "INSTANT"}
BY DEF Annual!Class

\* The chosen fact is one of the candidates.
LEMMA ChosenIsCandidate ==
  ASSUME NEW filed, NEW arcs, NEW m, NEW y
  PROVE  Annual!Chosen(filed, arcs, m, y) \subseteq Annual!Candidates(filed, m, y)
<1> DEFINE candidates == Annual!Candidates(filed, m, y)
           eligible == {f \in candidates : Annual!Eligible(f, Annual!PrimaryStatement[m])}
           totals == {f \in eligible : Annual!ReportedTotal(filed, arcs, eligible, f)}
<1>1. \/ Annual!Chosen(filed, arcs, m, y) \in {candidates, eligible, {}}
      \/ totals # {} /\ Annual!Chosen(filed, arcs, m, y) = {CHOOSE f \in totals : TRUE}
  BY DEF Annual!Chosen
<1>2. totals # {} => (CHOOSE f \in totals : TRUE) \in totals
  OBVIOUS
<1>3. totals \subseteq candidates /\ eligible \subseteq candidates
  OBVIOUS
<1> HIDE DEF candidates, eligible, totals
<1> QED BY <1>1, <1>2, <1>3 DEF candidates

LEMMA ReportedIsAnnual ==
  ASSUME NEW filed, NEW arcs, NEW m, NEW y,
         \A f \in filed : f.resolved => f.start \in Int /\ f.end \in Int
  PROVE  AnnualRow(Annual!ReportedRow(filed, arcs, m, y), m, y)
<1> DEFINE candidates == Annual!Candidates(filed, m, y)
           chosen == Annual!Chosen(filed, arcs, m, y)
           f == CHOOSE f \in chosen : TRUE
           starts == {Annual!Start(c) : c \in candidates}
           ends == {Annual!End(c) : c \in candidates}
           class == Annual!Class(m)
           row == Annual!ReportedRow(filed, arcs, m, y)
<1>1. /\ \A c \in candidates : c \in filed /\ c.class = class
      /\ class \in {"FY", "INSTANT"}
  BY ClassIsKnown DEF Annual!Candidates, Annual!Panel
<1>2. \A c \in candidates : Annual!Start(c) \in Int /\ Annual!End(c) \in Int
  BY <1>1 DEF Annual!Start, Annual!End, Annual!NoDay
<1>3. Annual!Common(starts) \in Int /\ Annual!Common(ends) \in Int
  BY <1>2, CommonDay
<1>4. chosen \subseteq candidates
  BY ChosenIsCandidate
<1>5. CASE ~Annual!ColumnKept(filed, class, y)
  <2>1. row = Annual!Undated(m, class, y)
    BY <1>5 DEF Annual!ReportedRow
  <2>2. AnnualRow(Annual!Undated(m, class, y), m, y)
    <3> HIDE DEF class
    <3> QED BY <1>1, RowIsAnnual, NoDayIsInt DEF Annual!Undated
  <2> QED BY <2>1, <2>2
<1>6. CASE Annual!ColumnKept(filed, class, y) /\ chosen = {}
  <2>1. row = Annual!Row(m, class, y, FALSE, Annual!Common(starts), Annual!Common(ends), 0, {}, Annual!NoText)
    BY <1>6 DEF Annual!ReportedRow
  <2>2. AnnualRow(Annual!Row(m, class, y, FALSE, Annual!Common(starts), Annual!Common(ends), 0, {}, Annual!NoText), m, y)
    <3> HIDE DEF class, starts, ends
    <3> QED BY <1>1, <1>3, RowIsAnnual
  <2> QED BY <2>1, <2>2
<1>7. CASE Annual!ColumnKept(filed, class, y) /\ chosen # {}
  <2>1. row = [Annual!Row(m, class, y, Annual!Usable(f), Annual!Start(f), Annual!End(f), f.value, {f}, f.basis)
                 EXCEPT !.blocked = f.blocked]
    BY <1>7 DEF Annual!ReportedRow
  <2>2. f \in chosen
    BY <1>7
  <2> HIDE DEF f
  <2>3. f \in candidates /\ f.class = class /\ Annual!Start(f) \in Int /\ Annual!End(f) \in Int
    BY <1>1, <1>2, <1>4, <2>2
  <2>4. Annual!Usable(f) /\ class = "INSTANT" => Annual!Start(f) = Annual!NoDay
    BY <2>3 DEF Annual!Usable, Annual!Start
  <2> DEFINE shown == Annual!Row(m, class, y, Annual!Usable(f), Annual!Start(f), Annual!End(f), f.value, {f}, f.basis)
  <2>5. AnnualRow(shown, m, y)
    <3> HIDE DEF class
    <3> QED BY <1>1, <2>3, <2>4, RowIsAnnual
  <2>6. AnnualRow([shown EXCEPT !.blocked = f.blocked], m, y)
    <3> HIDE DEF shown
    <3> QED BY <2>5 DEF AnnualRow
  <2> QED BY <2>1, <2>6
<1> QED BY <1>5, <1>6, <1>7

\* What is computed of two rows of the year is a row of the year.
LEMMA CombinedIsAnnual ==
  ASSUME NEW m, NEW n, NEW first, NEW second, NEW k, NEW y, NEW z, NEW ok, NEW value,
         AnnualRow(first, n, y), AnnualRow(second, k, z),
         ok => first.ok /\ Annual!Joined(first, second)
  PROVE  AnnualRow(Annual!Combined(m, first, second, ok, value), m, y)
<1> DEFINE from == Annual!Common({first.start, second.start})
           to == Annual!Common({first.end, second.end})
<1>1. from \in Int /\ to \in Int
  BY CommonDay DEF AnnualRow
<1>2. ok /\ first.class = "INSTANT" => from = Annual!NoDay
  <2> SUFFICES ASSUME ok, first.class = "INSTANT" PROVE from = Annual!NoDay
    OBVIOUS
  <2>1. first.start = Annual!NoDay /\ second.start = first.start
    BY DEF AnnualRow, Annual!Joined
  <2>2. {first.start, second.start} = {Annual!NoDay}
    BY <2>1
  <2> QED BY <2>2, CommonOfOne
<1>3. first.class \in {"FY", "INSTANT"} /\ first.fy = y
  BY DEF AnnualRow
<1> HIDE DEF from, to
<1>4. \A b : AnnualRow(Annual!Row(m, first.class, first.fy, ok, from, to, value, first.leaves \cup second.leaves, b), m, y)
  BY <1>1, <1>2, <1>3, RowIsAnnual
<1> QED BY <1>4 DEF Annual!Combined, from, to

LEMMA GrowthIsAnnual ==
  ASSUME NEW current, NEW prior, NEW n, NEW k, NEW y, NEW z, AnnualRow(current, n, y), AnnualRow(prior, k, z),
         current.class = "FY"
  PROVE  AnnualRow(Annual!Growth(current, prior), "revenue_yoy", y)
<1>1. \A from, to \in Int : \A ok, value, leaves, basis :
        LET row == Annual!Row("revenue_yoy", "FY", y, ok, from, to, value, leaves, basis)
        IN AnnualRow([row EXCEPT !.start = current.start, !.end = current.end], "revenue_yoy", y)
  BY DEF Annual!Row, AnnualRow
<1>2. /\ Annual!Common({current.start, prior.start}) \in Int
      /\ Annual!Common({current.end, prior.end}) \in Int
  BY CommonDay DEF AnnualRow
<1>3. current.fy = y
  BY DEF AnnualRow
<1> QED BY <1>1, <1>2, <1>3 DEF Annual!Growth, Annual!Combined

\* Rows of some metrics, one each in every one of the years.
YearFamily(rows, names, years) ==
  /\ \A r \in rows : r.metric \in names /\ r.fy \in years /\ AnnualRow(r, r.metric, r.fy)
  /\ \A r, s \in rows : r.metric = s.metric /\ r.fy = s.fy => r = s
  /\ \A m \in names, y \in years : \E r \in rows : r.metric = m /\ r.fy = y

LEMMA YearFamiliesJoin ==
  ASSUME NEW S, NEW A, NEW T, NEW B, NEW years,
         YearFamily(S, A, years), YearFamily(T, B, years), A \cap B = {}
  PROVE  YearFamily(S \cup T, A \cup B, years)
BY DEF YearFamily

LEMMA TheIsOfTheYear ==
  ASSUME NEW rows, NEW names, NEW years, YearFamily(rows, names, years), NEW m \in names, NEW y \in years
  PROVE  Annual!The(rows, m, y) \in rows /\ AnnualRow(Annual!The(rows, m, y), m, y)
<1>1. \E r \in rows : r.metric = m /\ r.fy = y
  BY DEF YearFamily
<1>2. Annual!The(rows, m, y) \in Annual!At(rows, m, y)
  BY <1>1 DEF Annual!The, Annual!At
<1> QED BY <1>2 DEF Annual!At, YearFamily

AnnualReporteds == Annual!Durations \cup Annual!Instants
AnnualRatios == {"gross_margin", "fcf_margin", "liabilities_to_equity", "liabilities_to_assets"}
AnnualNames == AnnualReporteds \cup {"fcf"} \cup (AnnualRatios \cup ({"net_debt"} \cup {"revenue_yoy"}))

\* The reported rows.
LEMMA ReportedsAreAYearFamily ==
  ASSUME NEW filed, NEW arcs, NEW years, \A f \in filed : f.resolved => f.start \in Int /\ f.end \in Int
  PROVE  YearFamily({Annual!ReportedRow(filed, arcs, m, y) : m \in AnnualReporteds, y \in years},
                    AnnualReporteds, years)
<1> DEFINE made == {Annual!ReportedRow(filed, arcs, m, y) : m \in AnnualReporteds, y \in years}
<1>1. \A m, y : AnnualRow(Annual!ReportedRow(filed, arcs, m, y), m, y)
  BY ReportedIsAnnual
<1>2. ASSUME NEW r \in made
      PROVE  \E m \in AnnualReporteds, y \in years : r = Annual!ReportedRow(filed, arcs, m, y) /\ AnnualRow(r, m, y)
  BY <1>1
<1>3. ASSUME NEW m \in AnnualReporteds, NEW y \in years PROVE \E r \in made : AnnualRow(r, m, y)
  BY <1>1
<1>4. YearFamily(made, AnnualReporteds, years)
  <2> HIDE DEF made
  <2> QED BY <1>2, <1>3 DEF YearFamily, AnnualRow
<1> QED BY <1>4

\* One metric that is computed in every year.
LEMMA FlowsAreAYearFamily ==
  ASSUME NEW rows, NEW names, NEW years, YearFamily(rows, names, years), {"cfo", "capex"} \subseteq names
  PROVE  YearFamily({Annual!FreeCashFlow(Annual!The(rows, "cfo", y), Annual!The(rows, "capex", y)) : y \in years},
                    {"fcf"}, years)
<1> DEFINE Of(y) == Annual!FreeCashFlow(Annual!The(rows, "cfo", y), Annual!The(rows, "capex", y))
           made == {Of(y) : y \in years}
<1>1. ASSUME NEW y \in years PROVE AnnualRow(Of(y), "fcf", y)
  <2>1. /\ AnnualRow(Annual!The(rows, "cfo", y), "cfo", y)
        /\ AnnualRow(Annual!The(rows, "capex", y), "capex", y)
    BY TheIsOfTheYear
  <2> QED BY <2>1, CombinedIsAnnual DEF Annual!FreeCashFlow
<1> HIDE DEF Of
<1>2. YearFamily(made, {"fcf"}, years)
  <2>1. ASSUME NEW r \in made PROVE \E y \in years : r = Of(y) /\ AnnualRow(r, "fcf", y)
    BY <1>1
  <2>2. ASSUME NEW y \in years PROVE \E r \in made : AnnualRow(r, "fcf", y)
    BY <1>1
  <2> HIDE DEF made
  <2> QED BY <2>1, <2>2 DEF YearFamily, AnnualRow
<1> QED BY <1>2 DEF Of

LEMMA NetDebtsAreAYearFamily ==
  ASSUME NEW rows, NEW names, NEW years, YearFamily(rows, names, years), {"debt", "cash"} \subseteq names
  PROVE  YearFamily({Annual!NetDebt(Annual!The(rows, "debt", y), Annual!The(rows, "cash", y)) : y \in years},
                    {"net_debt"}, years)
<1> DEFINE Of(y) == Annual!NetDebt(Annual!The(rows, "debt", y), Annual!The(rows, "cash", y))
           made == {Of(y) : y \in years}
<1>1. ASSUME NEW y \in years PROVE AnnualRow(Of(y), "net_debt", y)
  <2>1. /\ AnnualRow(Annual!The(rows, "debt", y), "debt", y)
        /\ AnnualRow(Annual!The(rows, "cash", y), "cash", y)
    BY TheIsOfTheYear
  <2> QED BY <2>1, CombinedIsAnnual DEF Annual!NetDebt
<1> HIDE DEF Of
<1>2. YearFamily(made, {"net_debt"}, years)
  <2>1. ASSUME NEW r \in made PROVE \E y \in years : r = Of(y) /\ AnnualRow(r, "net_debt", y)
    BY <1>1
  <2>2. ASSUME NEW y \in years PROVE \E r \in made : AnnualRow(r, "net_debt", y)
    BY <1>1
  <2> HIDE DEF made
  <2> QED BY <2>1, <2>2 DEF YearFamily, AnnualRow
<1> QED BY <1>2 DEF Of

LEMMA GrowthsAreAYearFamily ==
  ASSUME NEW rows, NEW names, NEW years, YearFamily(rows, names, years), "revenue" \in names,
         \A r \in rows : r.metric = "revenue" => r.class = "FY"
  PROVE  YearFamily({Annual!GrowthRow(rows, y) : y \in years}, {"revenue_yoy"}, years)
<1> DEFINE made == {Annual!GrowthRow(rows, y) : y \in years}
<1>1. ASSUME NEW y \in years PROVE AnnualRow(Annual!GrowthRow(rows, y), "revenue_yoy", y)
  <2> DEFINE current == Annual!The(rows, "revenue", y)
             prior == Annual!The(rows, "revenue", y - 1)
  <2>1. current \in rows /\ AnnualRow(current, "revenue", y)
    BY TheIsOfTheYear
  <2>2. current.class = "FY"
    BY <2>1 DEF AnnualRow
  <2>3. CASE Annual!At(rows, "revenue", y - 1) = {}
    <3>1. Annual!GrowthRow(rows, y)
            = [current EXCEPT !.metric = "revenue_yoy", !.ok = FALSE, !.value = 0, !.blocked = FALSE]
      BY <2>3 DEF Annual!GrowthRow
    <3> HIDE DEF current
    <3> QED BY <2>1, <3>1 DEF AnnualRow
  <2>4. CASE Annual!At(rows, "revenue", y - 1) # {}
    <3>1. Annual!GrowthRow(rows, y) = Annual!Growth(current, prior)
      BY <2>4 DEF Annual!GrowthRow
    <3>2. prior \in Annual!At(rows, "revenue", y - 1)
      BY <2>4 DEF Annual!The
    <3>3. AnnualRow(prior, prior.metric, prior.fy)
      BY <3>2 DEF Annual!At, YearFamily
    <3> HIDE DEF current, prior
    <3> QED BY <2>1, <2>2, <3>1, <3>3, GrowthIsAnnual
  <2> QED BY <2>3, <2>4
<1>2. YearFamily(made, {"revenue_yoy"}, years)
  <2>1. ASSUME NEW r \in made
        PROVE  \E y \in years : r = Annual!GrowthRow(rows, y) /\ AnnualRow(r, "revenue_yoy", y)
    BY <1>1
  <2>2. ASSUME NEW y \in years PROVE \E r \in made : AnnualRow(r, "revenue_yoy", y)
    BY <1>1
  <2> HIDE DEF made
  <2> QED BY <2>1, <2>2 DEF YearFamily, AnnualRow
<1> QED BY <1>2

LEMMA RatiosAreAYearFamily ==
  ASSUME NEW rows, NEW names, NEW years, YearFamily(rows, names, years),
         {"gross_profit", "revenue", "fcf", "liabilities", "equity", "assets"} \subseteq names
  PROVE  YearFamily({Annual!Ratio(d, Annual!The(rows, d.first, y), Annual!The(rows, d.second, y)) :
                       d \in Annual!Pairs, y \in years}, AnnualRatios, years)
<1> DEFINE Of(d, y) == Annual!Ratio(d, Annual!The(rows, d.first, y), Annual!The(rows, d.second, y))
           made == {Of(d, y) : d \in Annual!Pairs, y \in years}
<1>1. /\ \A d \in Annual!Pairs : d.metric \in AnnualRatios /\ d.first \in names /\ d.second \in names
      /\ \A c, d \in Annual!Pairs : c.metric = d.metric => c = d
      /\ \A m \in AnnualRatios : \E d \in Annual!Pairs : d.metric = m
  BY DEF Annual!Pairs, AnnualRatios
<1>2. ASSUME NEW d \in Annual!Pairs, NEW y \in years PROVE AnnualRow(Of(d, y), d.metric, y)
  <2>1. /\ AnnualRow(Annual!The(rows, d.first, y), d.first, y)
        /\ AnnualRow(Annual!The(rows, d.second, y), d.second, y)
    BY <1>1, TheIsOfTheYear
  <2> QED BY <2>1, CombinedIsAnnual DEF Annual!Ratio
<1> HIDE DEF Of
<1>3. YearFamily(made, AnnualRatios, years)
  <2>1. ASSUME NEW r \in made
        PROVE  \E d \in Annual!Pairs, y \in years : r = Of(d, y) /\ AnnualRow(r, d.metric, y)
    BY <1>2
  <2>2. ASSUME NEW m \in AnnualRatios, NEW y \in years PROVE \E r \in made : AnnualRow(r, m, y)
    <3>1. PICK d \in Annual!Pairs : d.metric = m
      BY <1>1
    <3>2. Of(d, y) \in made
      OBVIOUS
    <3> HIDE DEF made
    <3> QED BY <1>2, <3>1, <3>2
  <2> HIDE DEF made
  <2>3. \A r \in made : r.metric \in AnnualRatios /\ r.fy \in years /\ AnnualRow(r, r.metric, r.fy)
    BY <1>1, <2>1 DEF AnnualRow
  <2>4. ASSUME NEW r \in made, NEW s \in made, r.metric = s.metric, r.fy = s.fy PROVE r = s
    BY <1>1, <2>1, <2>4 DEF AnnualRow
  <2>5. \A m \in AnnualRatios, y \in years : \E r \in made : r.metric = m /\ r.fy = y
    BY <2>2 DEF AnnualRow
  <2> QED BY <2>3, <2>4, <2>5 DEF YearFamily
<1> QED BY <1>3 DEF Of

\* What is built has one row of every metric in every year.
LEMMA AnnualBuildIsFull ==
  ASSUME NEW filed, NEW arcs, NEW years, \A f \in filed : f.resolved => f.start \in Int /\ f.end \in Int
  PROVE  YearFamily(Annual!Build(filed, arcs, years), AnnualNames, years)
<1> DEFINE stated == {Annual!ReportedRow(filed, arcs, m, y) : m \in AnnualReporteds, y \in years}
           flows == {Annual!FreeCashFlow(Annual!The(stated, "cfo", y), Annual!The(stated, "capex", y)) : y \in years}
           rows == stated \cup flows
           ratios == {Annual!Ratio(d, Annual!The(rows, d.first, y), Annual!The(rows, d.second, y)) :
                        d \in Annual!Pairs, y \in years}
           debts == {Annual!NetDebt(Annual!The(rows, "debt", y), Annual!The(rows, "cash", y)) : y \in years}
           growths == {Annual!GrowthRow(rows, y) : y \in years}
<1>1. Annual!Build(filed, arcs, years) = rows \cup (ratios \cup (debts \cup growths))
  BY DEF Annual!Build, AnnualReporteds
<1>2. YearFamily(stated, AnnualReporteds, years)
  BY ReportedsAreAYearFamily
<1>3. \A r \in stated : r.metric = "revenue" => r.class = "FY"
  <2> SUFFICES ASSUME NEW m \in AnnualReporteds, NEW y \in years,
                      Annual!ReportedRow(filed, arcs, m, y).metric = "revenue"
               PROVE  Annual!ReportedRow(filed, arcs, m, y).class = "FY"
    OBVIOUS
  <2>1. Annual!ReportedRow(filed, arcs, m, y).metric = m
    BY ReportedIsAnnual DEF AnnualRow
  <2>2. Annual!Class(m) = "FY"
    BY <2>1 DEF Annual!Class, Annual!Instants
  <2> QED BY <2>2 DEF Annual!ReportedRow, Annual!Undated, Annual!Row
<1> HIDE DEF stated
<1>4. YearFamily(flows, {"fcf"}, years)
  BY <1>2, FlowsAreAYearFamily DEF AnnualReporteds, Annual!Durations
<1>5. YearFamily(rows, AnnualReporteds \cup {"fcf"}, years)
  <2>1. AnnualReporteds \cap {"fcf"} = {}
    BY DEF AnnualReporteds, Annual!Durations, Annual!Instants
  <2> HIDE DEF flows
  <2> QED BY <1>2, <1>4, <2>1, YearFamiliesJoin
<1>6. \A r \in rows : r.metric = "revenue" => r.class = "FY"
  <2>1. \A r \in flows : r.metric = "fcf"
    <3> HIDE DEF flows
    <3> QED BY <1>4 DEF YearFamily
  <2> QED BY <1>3, <2>1
<1> HIDE DEF flows, rows
<1>7. {"gross_profit", "revenue", "fcf", "liabilities", "equity", "assets", "debt", "cash"}
        \subseteq AnnualReporteds \cup {"fcf"}
  BY DEF AnnualReporteds, Annual!Durations, Annual!Instants
<1> DEFINE bases == AnnualReporteds \cup {"fcf"}
<1> HIDE DEF bases
<1>8. YearFamily(ratios, AnnualRatios, years)
  BY <1>5, <1>7, RatiosAreAYearFamily DEF bases
<1>9. YearFamily(debts, {"net_debt"}, years) /\ YearFamily(growths, {"revenue_yoy"}, years)
  BY <1>5, <1>6, <1>7, NetDebtsAreAYearFamily, GrowthsAreAYearFamily DEF bases
<1> HIDE DEF ratios, debts, growths
<1>10. YearFamily(debts \cup growths, {"net_debt"} \cup {"revenue_yoy"}, years)
  BY <1>9, YearFamiliesJoin
<1>11. YearFamily(ratios \cup (debts \cup growths), AnnualRatios \cup ({"net_debt"} \cup {"revenue_yoy"}), years)
  <2>1. AnnualRatios \cap ({"net_debt"} \cup {"revenue_yoy"}) = {}
    BY DEF AnnualRatios
  <2> QED BY <1>8, <1>10, <2>1, YearFamiliesJoin
<1>12. YearFamily(rows \cup (ratios \cup (debts \cup growths)), AnnualNames, years)
  <2>1. bases \cap (AnnualRatios \cup ({"net_debt"} \cup {"revenue_yoy"})) = {}
    BY DEF bases, AnnualReporteds, Annual!Durations, Annual!Instants, AnnualRatios
  <2>2. YearFamily(rows, bases, years) /\ AnnualNames = bases \cup (AnnualRatios \cup ({"net_debt"} \cup {"revenue_yoy"}))
    BY <1>5 DEF bases, AnnualNames
  <2> HIDE DEF bases
  <2> QED BY <1>11, <2>1, <2>2, YearFamiliesJoin
<1> QED BY <1>1, <1>12

\* Published rows: of each metric at most one in a year of the analysis.
AnnualRows(rows) ==
  /\ \A r \in rows : r.metric \in AnnualNames /\ r.fy \in Span /\ AnnualRow(r, r.metric, r.fy)
  /\ \A r, s \in rows : r.metric = s.metric /\ r.fy = s.fy => r = s

LEMMA NamesAreFinite == IsFiniteSet(AnnualNames)
<1> DEFINE A == {"revenue", "gross_profit", "cfo"}
           B == {"capex", "assets", "liabilities"}
           C == {"equity", "debt", "cash"}
           D == {"fcf", "gross_margin", "fcf_margin"}
           E == {"liabilities_to_equity", "liabilities_to_assets", "net_debt"}
<1>1. \A x, y, z : IsFiniteSet({x, y, z})
  <2> TAKE x, y, z
  <2>1. IsFiniteSet({x}) /\ IsFiniteSet({x} \cup {y}) /\ IsFiniteSet(({x} \cup {y}) \cup {z})
    BY FS_Singleton, FS_AddElement
  <2>2. {x, y, z} = ({x} \cup {y}) \cup {z}
    OBVIOUS
  <2> QED BY <2>1, <2>2
<1>2. IsFiniteSet(A) /\ IsFiniteSet(B) /\ IsFiniteSet(C) /\ IsFiniteSet(D) /\ IsFiniteSet(E)
  BY <1>1
<1>3. AnnualNames = ((A \cup B) \cup (C \cup D)) \cup (E \cup {"revenue_yoy"})
  BY DEF AnnualNames, AnnualReporteds, Annual!Durations, Annual!Instants, AnnualRatios
<1> HIDE DEF A, B, C, D, E
<1>4. IsFiniteSet(A \cup B) /\ IsFiniteSet(C \cup D) /\ IsFiniteSet(E \cup {"revenue_yoy"})
  BY <1>2, FS_Union, FS_AddElement
<1> QED BY <1>3, <1>4, FS_Union

LEMMA RowsAreFinite ==
  ASSUME NEW rows, AnnualRows(rows)
  PROVE  IsFiniteSet(rows) /\ IsFiniteSet(Annual!Years(rows)) /\ Annual!Years(rows) \subseteq Span
<1> DEFINE PlaceOf == [r \in rows |-> <<r.metric, r.fy>>]
<1>1. PlaceOf \in Injection(rows, AnnualNames \X Span)
  BY DEF AnnualRows, Injection, IsInjective
<1>2. IsFiniteSet(AnnualNames \X Span)
  BY NamesAreFinite, SpanAssumption, FS_Product
<1>3. Annual!Years(rows) \in SUBSET Span
  BY DEF AnnualRows, Annual!Years
<1> QED BY <1>1, <1>2, <1>3, SpanAssumption, FS_Injection, FS_Subset

\* The dates of rows are finitely many days.
LEMMA DatesAreFinite ==
  ASSUME NEW rows, IsFiniteSet(rows), \A r \in rows : r.end \in Int
  PROVE  IsFiniteSet({r.end : r \in rows}) /\ {r.end : r \in rows} \subseteq Int
<1> DEFINE ends == {r.end : r \in rows}
           EndOf == [r \in rows |-> r.end]
<1>1. EndOf \in Surjection(rows, ends)
  BY DEF Surjection
<1>2. IsFiniteSet(ends)
  <2> HIDE DEF ends, EndOf
  <2> QED BY <1>1, FS_Surjection
<1> QED BY <1>2

\* A year ends on the last day that one of its fiscal rows shows.
LEMMA YearEndIsLast ==
  ASSUME NEW rows, AnnualRows(rows), NEW y
  PROVE  /\ Annual!YearEnd(rows, y) \in Int
         /\ \A r \in rows : r.fy = y /\ r.class = "FY" /\ r.end # Annual!NoDay => r.end <= Annual!YearEnd(rows, y)
         /\ Annual!Dates(rows, y) = {} => Annual!YearEnd(rows, y) = Annual!NoDay
<1> DEFINE ended == {r \in rows : r.fy = y /\ r.end # Annual!NoDay}
           fiscally == {r \in rows : r.fy = y /\ r.class = "FY" /\ r.end # Annual!NoDay}
           fiscal == Annual!FiscalDates(rows, y)
           dates == Annual!Dates(rows, y)
           days == IF fiscal # {} THEN fiscal ELSE dates
<1>1. /\ IsFiniteSet(ended) /\ IsFiniteSet(fiscally)
      /\ \A r \in ended \cup fiscally : r.end \in Int
  BY RowsAreFinite, FS_Subset DEF AnnualRows, AnnualRow
<1>2. fiscal = {r.end : r \in fiscally} /\ dates = {r.end : r \in ended}
  BY DEF Annual!FiscalDates, Annual!Dates
<1>3. /\ IsFiniteSet(fiscal) /\ fiscal \subseteq Int
      /\ IsFiniteSet(dates) /\ dates \subseteq Int
  <2> HIDE DEF ended, fiscally, fiscal, dates
  <2> QED BY <1>1, <1>2, DatesAreFinite
<1>4. fiscal \subseteq dates
  BY <1>2
<1>5. Annual!YearEnd(rows, y) = IF days = {} THEN Annual!NoDay ELSE Max(days)
  BY AnnualCounts DEF Annual!YearEnd
<1>6. \A r \in fiscally : r.end \in fiscal
  BY <1>2
<1>7. days \in SUBSET Int /\ IsFiniteSet(days)
  BY <1>3
<1> HIDE DEF fiscal, dates
<1>8. days # {} => Max(days) \in Int /\ \A d \in days : d \in Int /\ d <= Max(days)
  <2> HIDE DEF days
  <2> QED BY <1>7, MaxIsGreatest
<1>9. Annual!YearEnd(rows, y) \in Int
  BY <1>5, <1>8, NoDayIsInt
<1>10. ASSUME NEW r \in rows, r.fy = y, r.class = "FY", r.end # Annual!NoDay
       PROVE  r.end <= Annual!YearEnd(rows, y)
  <2>1. r.end \in fiscal
    BY <1>6, <1>10
  <2> QED BY <1>5, <1>8, <2>1
<1>11. dates = {} => Annual!YearEnd(rows, y) = Annual!NoDay
  BY <1>4, <1>5
<1> QED BY <1>9, <1>10, <1>11 DEF dates

\* The newest year is one of the years, none ends after it, and it is the last
\* one if that one has no date.
LEMMA NewestYearIsNewest ==
  ASSUME NEW rows, AnnualRows(rows), rows # {}
  PROVE  LET y == Annual!NewestYear(rows)
             last == Max(Annual!Years(rows))
         IN /\ y \in Annual!Years(rows)
            /\ Annual!YearEnd(rows, last) = Annual!NoDay => y = last
            /\ Annual!YearEnd(rows, last) # Annual!NoDay =>
                 \A z \in Annual!Years(rows) : Annual!YearEnd(rows, z) <= Annual!YearEnd(rows, y)
<1> DEFINE years == Annual!Years(rows)
           last == Max(years)
           E(y) == Annual!YearEnd(rows, y)
           ends == {E(y) : y \in years}
           end == [y \in years |-> Annual!YearEnd(rows, y)]
           Newest(y) == \A z \in years : end[z] < end[y] \/ (end[z] = end[y] /\ z <= y)
<1>1. years \in SUBSET Int /\ IsFiniteSet(years) /\ years # {}
  BY RowsAreFinite, SpanAssumption DEF Annual!Years
<1>2. \A y : E(y) \in Int
  BY YearEndIsLast
<1>3. \A y \in years : end[y] = E(y)
  OBVIOUS
<1>4. Annual!NewestYear(rows)
        = LET final == Annual!Max(years)
          IN IF end[final] = Annual!NoDay THEN final ELSE CHOOSE y \in years : Newest(y)
  BY DEF Annual!NewestYear
<1> HIDE DEF E, years, end
<1>5. last \in years
  BY <1>1, MaxIsGreatest
<1>6. \E y \in years : Newest(y)
  <2> DEFINE EndOf == [y \in years |-> E(y)]
  <2>1. EndOf \in Surjection(years, ends)
    BY DEF Surjection
  <2>2. IsFiniteSet(ends)
    <3> HIDE DEF ends, EndOf
    <3> QED BY <1>1, <2>1, FS_Surjection
  <2>3. ends \in SUBSET Int /\ ends # {}
    BY <1>1, <1>2
  <2>4. PICK e \in ends : \A f \in ends : e >= f
    <3> HIDE DEF ends
    <3> QED BY <2>2, <2>3, GreatestExists
  <2> DEFINE these == {y \in years : E(y) = e}
  <2>5. these \in SUBSET Int /\ IsFiniteSet(these) /\ these # {}
    BY <1>1, <2>4, FS_Subset
  <2>6. PICK y \in these : \A z \in these : y >= z
    <3> HIDE DEF these
    <3> QED BY <2>5, GreatestExists
  <2>7. ASSUME NEW z \in years PROVE E(z) < E(y) \/ (E(z) = E(y) /\ z <= y)
    <3>1. E(z) \in ends /\ E(z) \in Int /\ E(y) = e /\ e \in Int
      BY <1>2, <2>6
    <3>2. e >= E(z)
      BY <2>4, <3>1
    <3>3. CASE E(z) = e
      <4>1. z \in these /\ y \in Int /\ z \in Int
        BY <1>1, <2>6, <3>3
      <4> QED BY <2>6, <3>1, <3>3, <4>1
    <3>4. CASE E(z) # e
      BY <3>1, <3>2, <3>4
    <3> QED BY <3>3, <3>4
  <2>8. y \in years
    BY <2>6
  <2> QED BY <2>7, <2>8, <1>3
<1>7. Annual!NewestYear(rows) = IF E(last) = Annual!NoDay THEN last ELSE CHOOSE y \in years : Newest(y)
  <2>1. Annual!Max(years) = last /\ end[last] = E(last)
    BY <1>5, <1>3, AnnualCounts
  <2> HIDE DEF Newest
  <2> QED BY <1>4, <2>1
<1>8. (CHOOSE y \in years : Newest(y)) \in years /\ Newest(CHOOSE y \in years : Newest(y))
  <2> HIDE DEF Newest
  <2> QED BY <1>6
<1> DEFINE y == Annual!NewestYear(rows)
<1>9. /\ y \in years
      /\ E(last) = Annual!NoDay => y = last
      /\ E(last) # Annual!NoDay => Newest(y)
  BY <1>5, <1>7, <1>8
<1> HIDE DEF y
<1>10. ASSUME Newest(y), NEW z \in years PROVE E(z) <= E(y)
  BY <1>2, <1>9, <1>10, <1>3
<1>11. y \in years /\ (E(last) = Annual!NoDay => y = last) /\ (E(last) # Annual!NoDay => \A z \in years : E(z) <= E(y))
  <2> HIDE DEF Newest
  <2> QED BY <1>9, <1>10
<1> QED BY <1>11 DEF E, years, y

\* A row at the anchor is shown as it is, any other as a hold of its place.
LEMMA AnnualAtLatestShows ==
  ASSUME NEW r, NEW anchor, AnnualRow(r, r.metric, r.fy)
  PROVE  /\ Annual!AtLatest(r, anchor).ok =>
              Annual!AtLatest(r, anchor) = r /\ Annual!AtAnchor(r, anchor) /\ ~r.blocked
         /\ Annual!AtLatest(r, anchor).metric = r.metric /\ Annual!AtLatest(r, anchor).fy = r.fy
         /\ Annual!Hold(r).metric = r.metric /\ Annual!Hold(r).fy = r.fy
<1> DEFINE held == [r EXCEPT !.ok = FALSE, !.value = 0]
<1>1. held.metric = r.metric /\ held.fy = r.fy /\ held.ok = FALSE
  BY DEF AnnualRow
<1>2. Annual!Hold(r) = held
  BY DEF Annual!Hold
<1> HIDE DEF held
<1>3. CASE Annual!AtAnchor(r, anchor) /\ ~r.blocked
  BY <1>1, <1>2, <1>3 DEF Annual!AtLatest
<1>4. CASE ~(Annual!AtAnchor(r, anchor) /\ ~r.blocked)
  BY <1>1, <1>2, <1>4 DEF Annual!AtLatest
<1> QED BY <1>3, <1>4

LEMMA AnnualViewsAgree ==
  ASSUME NEW rows, AnnualRows(rows), rows # {}
  PROVE  /\ Annual!Values(Annual!Explored(rows)) = Annual!Values(Annual!Judged(rows))
         /\ \A series \in {Annual!ProfileSeries(rows), Annual!MetricSeries(rows)} :
              Annual!Values(Annual!Displayed(series, {Annual!Anchor(rows).fy})) = Annual!Values(Annual!Judged(rows))
<1> DEFINE anchor == Annual!Anchor(rows)
           year == {r \in rows : r.fy = anchor.fy}
           latest == {Annual!AtLatest(r, anchor) : r \in year}
<1>1. Annual!Judged(rows) = IF anchor.conflict THEN {} ELSE latest
  BY DEF Annual!Judged, Annual!Displayed
<1>2. Annual!Explored(rows) = IF anchor.conflict THEN {} ELSE latest
  BY DEF Annual!Explored, Annual!Displayed
<1> DEFINE entry(r) == IF r.fy = anchor.fy THEN Annual!AtLatest(r, anchor)
                       ELSE IF r.blocked THEN Annual!Hold(r) ELSE r
<1>3. /\ Annual!ProfileSeries(rows) = {entry(r) : r \in {r \in rows : r.fy = anchor.fy => ~anchor.conflict}}
      /\ Annual!MetricSeries(rows) = {entry(r) : r \in {r \in rows : r.fy <= anchor.fy}}
  BY DEF Annual!ProfileSeries, Annual!MetricSeries
<1> HIDE DEF anchor
<1>4. \A r \in rows : /\ r.fy \in Int /\ AnnualRow(r, r.metric, r.fy)
                      /\ entry(r).fy = r.fy
                      /\ Annual!AtLatest(r, anchor).fy = r.fy
  BY AnnualAtLatestShows, SpanAssumption DEF AnnualRows
<1>5. anchor.conflict => Annual!Values(latest) = {}
  <2> SUFFICES ASSUME anchor.conflict, NEW r \in year PROVE ~Annual!AtLatest(r, anchor).ok
    BY DEF Annual!Values
  <2> QED BY <1>4, AnnualAtLatestShows DEF Annual!AtAnchor
<1>6. Annual!Values({}) = {}
  BY DEF Annual!Values
<1>7. Annual!Displayed(Annual!ProfileSeries(rows), {anchor.fy}) = IF anchor.conflict THEN {} ELSE latest
  <2> DEFINE kept == {r \in rows : r.fy = anchor.fy => ~anchor.conflict}
  <2>1. \A r \in kept : entry(r).fy = anchor.fy <=> r \in year
    BY <1>4
  <2>2. \A r \in year : entry(r) = Annual!AtLatest(r, anchor) /\ entry(r).fy = anchor.fy
    BY <1>4
  <2>3. \A r \in year : r \in kept <=> ~anchor.conflict
    OBVIOUS
  <2>4. {s \in {entry(r) : r \in kept} : s.fy \in {anchor.fy}} = IF anchor.conflict THEN {} ELSE latest
    <3> HIDE DEF year, kept, entry
    <3> QED BY <2>1, <2>2, <2>3
  <2> QED BY <1>3, <2>4 DEF Annual!Displayed
<1>8. Annual!Displayed(Annual!MetricSeries(rows), {anchor.fy}) = latest
  <2> DEFINE kept == {r \in rows : r.fy <= anchor.fy}
  <2>1. \A r \in kept : entry(r).fy = anchor.fy <=> r \in year
    BY <1>4
  <2>2. \A r \in year : entry(r) = Annual!AtLatest(r, anchor) /\ entry(r).fy = anchor.fy
    BY <1>4
  <2>3. \A r \in year : r \in kept
    BY <1>4
  <2>4. {s \in {entry(r) : r \in kept} : s.fy \in {anchor.fy}} = latest
    <3> HIDE DEF year, kept, entry
    <3> QED BY <2>1, <2>2, <2>3
  <2> QED BY <1>3, <2>4 DEF Annual!Displayed
<1> HIDE DEF latest
<1> QED BY <1>1, <1>2, <1>5, <1>6, <1>7, <1>8 DEF anchor

\* What a screen has seen when a company passes.
PassedYear(rows, seen) ==
  \A r \in seen :
    /\ r.ok
    /\ \A s \in seen : s.fy = r.fy /\ s.end = r.end /\ (s.class = r.class => s.start = r.start)
    /\ \A s \in rows : (s.class = "FY" /\ s.end # Annual!NoDay) => s.end <= r.end
    /\ LET last == Annual!Max(Annual!Years(rows)) IN last > r.fy => Annual!Dates(rows, last) # {}

LEMMA AnnualPassIsOne ==
  ASSUME NEW rows, AnnualRows(rows), rows # {}, NEW predicates,
         Annual!Aggregate({Annual!Result(Annual!Judged(rows), p) : p \in predicates}) = "PASS",
         NEW seen, seen = {r \in Annual!Judged(rows) : \E p \in predicates : p.metric = r.metric}
  PROVE  PassedYear(rows, seen)
<1> DEFINE anchor == Annual!Anchor(rows)
           results == {Annual!Result(Annual!Judged(rows), p) : p \in predicates}
           judged == Annual!Judged(rows)
           y == Annual!NewestYear(rows)
           last == Max(Annual!Years(rows))
<1>1. results = {"PASS"}
  <2>1. Annual!Aggregate(results) = "PASS"
    OBVIOUS
  <2> HIDE DEF results
  <2> QED BY <2>1 DEF Annual!Aggregate
<1>2. \A p \in predicates : Annual!Result(judged, p) = "PASS"
  BY <1>1
<1> HIDE DEF results
<1>3. judged \subseteq {Annual!AtLatest(r, anchor) : r \in {r \in rows : r.fy = anchor.fy}}
  BY DEF Annual!Judged, Annual!Displayed
<1>4. /\ anchor.fy = y /\ anchor.conflict \in BOOLEAN
      /\ ~anchor.conflict => anchor.end = Annual!YearEnd(rows, y)
  BY DEF Annual!Anchor
<1>5. /\ y \in Annual!Years(rows)
      /\ Annual!YearEnd(rows, last) = Annual!NoDay => y = last
      /\ Annual!YearEnd(rows, last) # Annual!NoDay =>
           \A z \in Annual!Years(rows) : Annual!YearEnd(rows, z) <= Annual!YearEnd(rows, y)
  BY NewestYearIsNewest
<1> HIDE DEF anchor, judged, y, last
<1>6. ASSUME NEW p \in predicates PROVE \E t \in judged : t.metric = p.metric /\ t.ok
  <2> DEFINE usable == {t \in judged : t.metric = p.metric /\ t.ok /\ ~t.blocked}
  <2>1. usable # {}
    <3> HIDE DEF usable
    <3> QED BY <1>2 DEF Annual!Result, usable
  <2> QED BY <2>1
<1>7. ASSUME NEW r \in seen
      PROVE  r \in rows /\ r.ok /\ AnnualRow(r, r.metric, r.fy) /\ Annual!AtAnchor(r, anchor)
  <2>1. r \in judged /\ \E p \in predicates : p.metric = r.metric
    BY DEF judged
  <2>2. PICK t \in judged : t.metric = r.metric /\ t.ok
    BY <1>6, <2>1
  <2>3. PICK u \in rows : r = Annual!AtLatest(u, anchor) /\ u.fy = anchor.fy
    BY <1>3, <2>1
  <2>4. PICK v \in rows : t = Annual!AtLatest(v, anchor) /\ v.fy = anchor.fy
    BY <1>3, <2>2
  <2>5. AnnualRow(u, u.metric, u.fy) /\ AnnualRow(v, v.metric, v.fy)
    BY DEF AnnualRows
  <2>6. r.metric = u.metric /\ t.metric = v.metric
    BY <2>3, <2>4, <2>5, AnnualAtLatestShows
  <2>7. u = v
    BY <2>2, <2>3, <2>4, <2>6 DEF AnnualRows
  <2>8. r.ok
    BY <2>2, <2>3, <2>4, <2>7
  <2> QED BY <2>3, <2>5, <2>8, AnnualAtLatestShows
<1>8. ASSUME NEW r \in seen
      PROVE  /\ r.fy = y /\ r.end = Annual!YearEnd(rows, y) /\ r.end # Annual!NoDay
             /\ r.class \in {"FY", "INSTANT"}
             /\ r.start = IF r.class = "FY" THEN anchor.start ELSE Annual!NoDay
  BY <1>4, <1>7 DEF Annual!AtAnchor, AnnualRow
<1>9. ASSUME NEW r \in seen, NEW s \in rows, s.class = "FY", s.end # Annual!NoDay PROVE s.end <= r.end
  <2>1. s.end <= Annual!YearEnd(rows, s.fy) /\ Annual!YearEnd(rows, s.fy) \in Int /\ Annual!YearEnd(rows, y) \in Int
    BY <1>9, YearEndIsLast
  <2>2. s.end \in Int /\ s.fy \in Annual!Years(rows)
    BY DEF AnnualRows, AnnualRow, Annual!Years
  <2>3. Annual!YearEnd(rows, last) # Annual!NoDay
    BY <1>5, <1>8
  <2>4. Annual!YearEnd(rows, s.fy) <= Annual!YearEnd(rows, y)
    BY <1>5, <2>2, <2>3
  <2> QED BY <1>8, <2>1, <2>2, <2>4
<1>10. ASSUME NEW r \in seen, last > r.fy PROVE Annual!Dates(rows, last) # {}
  <2> SUFFICES ASSUME Annual!Dates(rows, last) = {} PROVE FALSE
    OBVIOUS
  <2>1. y = last
    BY <1>5, YearEndIsLast
  <2>2. r.fy = last /\ last \in Int
    BY <1>5, <1>8, <2>1, RowsAreFinite, SpanAssumption
  <2> QED BY <1>10, <2>2
<1>11. Annual!Max(Annual!Years(rows)) = last
  BY AnnualCounts DEF last
<1> QED BY <1>7, <1>8, <1>9, <1>10, <1>11 DEF PassedYear

AnnualInv ==
  /\ Annual!Dated(reports)
  /\ AnnualRows(annual)
  /\ \/ verdict = Annual!Unasked
     \/ /\ annual # Annual!Nothing
        /\ \E predicates \in Screens :
             verdict = [aggregate |-> Annual!Aggregate({Annual!Result(Annual!Judged(annual), p) : p \in predicates}),
                        seen |-> {r \in Annual!Judged(annual) : \E p \in predicates : p.metric = r.metric}]

LEMMA AnnualFollows ==
  ASSUME AnnualInv PROVE Annual!LatestViewsAgree /\ Annual!PassesOnOneNewestYear
<1>1. Annual!LatestViewsAgree
  BY AnnualViewsAgree DEF AnnualInv, Annual!LatestViewsAgree, Annual!Nothing
<1>2. Annual!PassesOnOneNewestYear
  <2> SUFFICES ASSUME verdict.aggregate = "PASS" PROVE Annual!PassesOnOneNewestYear
    BY DEF Annual!PassesOnOneNewestYear
  <2>1. verdict # Annual!Unasked
    BY DEF Annual!Unasked
  <2>2. annual # {} /\ AnnualRows(annual)
    BY <2>1 DEF AnnualInv, Annual!Nothing
  <2>3. PICK predicates \in Screens :
          verdict = [aggregate |-> Annual!Aggregate({Annual!Result(Annual!Judged(annual), p) : p \in predicates}),
                     seen |-> {r \in Annual!Judged(annual) : \E p \in predicates : p.metric = r.metric}]
    BY <2>1 DEF AnnualInv
  <2>4. /\ Annual!Aggregate({Annual!Result(Annual!Judged(annual), p) : p \in predicates}) = "PASS"
        /\ verdict.seen = {r \in Annual!Judged(annual) : \E p \in predicates : p.metric = r.metric}
    BY <2>3
  <2>5. PassedYear(annual, verdict.seen)
    BY <2>2, <2>4, AnnualPassIsOne
  <2> QED BY <2>5 DEF PassedYear, Annual!PassesOnOneNewestYear
<1> QED BY <1>1, <1>2

LEMMA AnnualInvInit == Annual!Init => AnnualInv
BY FirstReportsAssumption DEF Annual!Init, AnnualInv, AnnualRows, Annual!Nothing

LEMMA AnnualInvNext ==
  ASSUME AnnualInv, Annual!Next PROVE AnnualInv'
<1>1. CASE Annual!Refile
  <2>1. Annual!Dated(reports') /\ UNCHANGED <<annual, verdict>>
    BY <1>1 DEF Annual!Refile
  <2> QED BY <2>1 DEF AnnualInv, AnnualRows, Annual!Dated
<1>2. CASE Annual!Publish
  <2> DEFINE prepared == Annual!PreparedYears(reports.facts, Span)
             built == Annual!Build(reports.facts, reports.arcs, prepared)
  <2>1. annual = Annual!Nothing /\ UNCHANGED <<reports, verdict>>
    BY <1>2 DEF Annual!Publish
  <2>2. annual' \subseteq built
    BY <1>2 DEF Annual!Publish, Annual!Displayed
  <2>3. YearFamily(built, AnnualNames, prepared)
    BY AnnualBuildIsFull DEF AnnualInv, Annual!Dated
  <2>4. prepared \subseteq Span
    BY DEF Annual!PreparedYears
  <2>5. AnnualRows(annual')
    <3> HIDE DEF built, prepared
    <3> QED BY <2>2, <2>3, <2>4 DEF YearFamily, AnnualRows
  <2>6. verdict = Annual!Unasked
    BY <2>1 DEF AnnualInv
  <2> QED BY <2>1, <2>5, <2>6 DEF AnnualInv, AnnualRows, Annual!Dated
<1>3. CASE Annual!Screen
  <2>1. annual # Annual!Nothing /\ UNCHANGED <<reports, annual>>
    BY <1>3 DEF Annual!Screen
  <2>2. \E predicates \in Screens :
          verdict' = [aggregate |-> Annual!Aggregate({Annual!Result(Annual!Judged(annual), p) : p \in predicates}),
                      seen |-> {r \in Annual!Judged(annual) : \E p \in predicates : p.metric = r.metric}]
    BY <1>3 DEF Annual!Screen
  <2> QED BY <2>1, <2>2 DEF AnnualInv, AnnualRows, Annual!Dated
<1> QED BY <1>1, <1>2, <1>3 DEF Annual!Next

-----------------------------------------------------------------------------
QuarterPart == part = "quarters" => QuarterInv
AnnualPart == part = "annual" => AnnualInv

\* The explorer, the comparison, the series and a screen show the same latest
\* values, and a company passes on values of one newest quarter or fiscal year:
\* for any facts of any filings and any spine or span (screening/explorer.py,
\* screening/service.py).
THEOREM ViewsAlwaysAgree == MCSpec => []ViewsAgree
<1>1. MCInit => QuarterPart /\ AnnualPart
  BY QuarterInvInit, AnnualInvInit DEF MCInit, QuarterPart, AnnualPart
<1>2. QuarterPart /\ AnnualPart /\ [MCNext]_mcvars => QuarterPart' /\ AnnualPart'
  <2> SUFFICES ASSUME QuarterPart, AnnualPart, [MCNext]_mcvars PROVE QuarterPart' /\ AnnualPart'
    OBVIOUS
  <2>1. part' = part
    BY DEF MCNext, mcvars
  <2>2. CASE part = "quarters"
    <3>1. CASE UNCHANGED mcvars
      BY <3>1, <2>2 DEF mcvars, quarterVars, QuarterPart, QuarterInv, Fresh, AnnualPart
    <3>2. CASE MCNext
      BY <2>1, <2>2, <3>2, QuarterInvNext DEF MCNext, QuarterPart, AnnualPart
    <3> QED BY <3>1, <3>2
  <2>3. CASE part = "annual"
    <3>1. CASE UNCHANGED mcvars
      BY <3>1, <2>3 DEF mcvars, annualVars, AnnualPart, AnnualInv, AnnualRows, Annual!Dated, QuarterPart
    <3>2. CASE MCNext
      BY <2>1, <2>3, <3>2, AnnualInvNext DEF MCNext, QuarterPart, AnnualPart
    <3> QED BY <3>1, <3>2
  <2>4. CASE part \notin {"quarters", "annual"}
    BY <2>1, <2>4 DEF QuarterPart, AnnualPart
  <2> QED BY <2>2, <2>3, <2>4
<1>3. QuarterPart /\ AnnualPart => ViewsAgree
  BY QuarterFollows, AnnualFollows DEF QuarterPart, AnnualPart, ViewsAgree
<1> QED BY <1>1, <1>2, <1>3, PTL DEF MCSpec
=============================================================================
