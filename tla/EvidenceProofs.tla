--------------------------- MODULE EvidenceProofs ---------------------------
(***************************************************************************)
(* What the protocols that carry evidence over keep, for every value of    *)
(* their constants.                                                        *)
(*                                                                         *)
(* Metric quality: any companies, plans, packages and readings, any number *)
(* of commands beside each other.  Prospective selection: any analyses,    *)
(* any number of archives, replacements and upgrades.  Company metadata:   *)
(* any snapshots and lists of tickers.  Descriptions: any companies, plans *)
(* and texts.  Page: pages of any tokens, of any length.                   *)
(***************************************************************************)
EXTENDS MCEvidence, FiniteSetTheorems, SequenceTheorems, NaturalsInduction, WellFoundedInduction, TLAPS

-----------------------------------------------------------------------------
(* Numbers, and functions over them that go on from one value to the next. *)

LEMMA LeastNumber ==
  ASSUME NEW T \in SUBSET Nat, T # {}
  PROVE  \E m \in T : \A n \in T : m <= n
<1>1. PICK m \in T : \A n \in T : ~(<<n, m>> \in OpToRel(<, Nat))
  BY NatLessThanWellFounded, WFMin
<1>2. \A n \in T : ~(n < m)
  BY <1>1 DEF OpToRel
<1> QED
  BY <1>2

\* What may stand at the n-th place is in S[n].
Iteration(g, last, first, step) ==
  g = [n \in 0 .. last |-> IF n = 0 THEN first ELSE step[n][g[n - 1]]]

LEMMA IterationMeans ==
  ASSUME NEW last \in Nat, NEW first, NEW step, NEW g, Iteration(g, last, first, step)
  PROVE  /\ g = [n \in 0 .. last |-> g[n]]
         /\ g[0] = first /\ \A n \in 1 .. last : g[n] = step[n][g[n - 1]]
<1>1. g = [n \in 0 .. last |-> IF n = 0 THEN first ELSE step[n][g[n - 1]]]
  BY DEF Iteration
<1>2. 0 \in 0 .. last /\ \A n \in 1 .. last : n \in 0 .. last /\ n # 0
  OBVIOUS
<1> QED
  BY <1>1, <1>2

LEMMA IterationsExist ==
  ASSUME NEW last \in Nat, NEW S, NEW first \in S[0], NEW step,
         \A n \in 1 .. last : step[n] \in [S[n - 1] -> S[n]]
  PROVE  \E g : Iteration(g, last, first, step)
<1> DEFINE Bad == {k \in Nat : k <= last /\ ~\E g : Iteration(g, k, first, step)}
<1> SUFFICES ASSUME Bad # {} PROVE FALSE
  BY DEF Iteration
<1>1. PICK k \in Bad : \A l \in Bad : k <= l
  BY LeastNumber
<1>2. CASE k = 0
  <2>1. Iteration([n \in 0 .. 0 |-> first], 0, first, step)
    BY DEF Iteration
  <2> QED
    BY <1>2, <2>1
<1>3. CASE k # 0
  <2>1. k - 1 \in Nat /\ k - 1 <= last /\ k - 1 \notin Bad
    BY <1>1, <1>3
  <2>2. PICK g : Iteration(g, k - 1, first, step)
    BY <2>1
  <2> DEFINE h == [n \in 0 .. k |-> IF n = k THEN step[k][g[k - 1]] ELSE g[n]]
  <2>3. \A n \in 0 .. k : h[n] = IF n = 0 THEN first ELSE step[n][h[n - 1]]
    <3> TAKE n \in 0 .. k
    <3>1. CASE n = k
      BY <1>3, <3>1, <2>1
    <3>2. CASE n # k
      <4>1. n \in 0 .. k - 1 /\ (n # 0 => n - 1 \in 0 .. k - 1 /\ n - 1 # k)
        BY <3>2
      <4>2. g[n] = IF n = 0 THEN first ELSE step[n][g[n - 1]]
        BY <2>2, <4>1 DEF Iteration
      <4> QED
        BY <4>1, <4>2, <3>2
    <3> QED
      BY <3>1, <3>2
  <2>4. h = [n \in 0 .. k |-> h[n]]
    OBVIOUS
  <2> HIDE DEF h
  <2>5. h = [n \in 0 .. k |-> IF n = 0 THEN first ELSE step[n][h[n - 1]]]
    BY <2>3, <2>4
  <2> QED
    BY <2>5 DEF Iteration
<1> QED
  BY <1>2, <1>3

LEMMA IterationsStay ==
  ASSUME NEW last \in Nat, NEW S, NEW first \in S[0], NEW g,
         g[0] = first, \A n \in 1 .. last : g[n - 1] \in S[n - 1] => g[n] \in S[n]
  PROVE  \A n \in 0 .. last : g[n] \in S[n]
<1> DEFINE Bad == {n \in 0 .. last : g[n] \notin S[n]}
<1>0. Bad \in SUBSET Nat
  OBVIOUS
<1> SUFFICES ASSUME Bad # {} PROVE FALSE
  OBVIOUS
<1>1. PICK k \in Bad : \A l \in Bad : k <= l
  BY <1>0, LeastNumber
<1>2. k # 0 /\ k \in 1 .. last /\ k - 1 \in 0 .. last
  BY <1>1
<1>3. g[k - 1] \in S[k - 1]
  BY <1>1, <1>2
<1> QED
  BY <1>1, <1>2, <1>3

-----------------------------------------------------------------------------
(* Metric quality.  A reader parses no document.  What carries the proof   *)
(* is therefore what the producers keep through every read: their rows are *)
(* exactly the governed elements of the primary documents they recorded.   *)
(* A reader compares those documents with the cache.                       *)

\* The governed sources of the recorded documents.
SourcesOf(documents) ==
  UNION {{<<d.filing, el>> : el \in Governed(d.primary)} : d \in documents}
RowSources(rows) == {<<r.filing, r.el>> : r \in rows}
Exact(rows, documents) == RowSources(rows) = SourcesOf(documents)

ExactPublication(pub) ==
  /\ pub.version \in {"v1", "v2"}
  /\ pub.version = "v1" => pub.scope = Companies
  /\ Exact(pub.rows, pub.documents)

\* What a command has in hand, by its step.
Scanning(w) ==
  /\ w = [op |-> w.op, step |-> "scan", scope |-> w.scope, dest |-> w.dest, index |-> w.index,
          left |-> w.left, head |-> w.head, documents |-> w.documents, rows |-> w.rows]
  /\ w.op \in {"index", "v1", "v2"}
  /\ w.op = "v1" => w.scope = Companies
  /\ w.op # "index" => w.dest \in Destinations
  /\ Exact(w.rows, w.documents)
Staged(w) ==
  /\ w = [op |-> "v2", step |-> w.step, dest |-> w.dest, pub |-> w.pub]
  /\ w.step \in {"staged", "scanned"} /\ w.dest \in Destinations
  /\ ExactPublication(w.pub)
Assessing(w) ==
  /\ w = [op |-> "quality", step |-> w.step, config |-> w.config, dest |-> w.dest, pub |-> w.pub]
  /\ w.step \in {"opened", "verified", "assessed"} /\ w.dest \in Destinations

HandsAreExact ==
  /\ DOMAIN job = Jobs
  /\ \A j \in Jobs : job[j] = Idle \/ Scanning(job[j]) \/ Staged(job[j]) \/ Assessing(job[j])
PublishedIsExact ==
  /\ DOMAIN bindings = Destinations
  /\ \A d \in Destinations : bindings[d] = None \/ ExactPublication(bindings[d])
QualityNamesBindings ==
  quality = None \/ (quality.dest \in Destinations /\ quality.files # None)

QualityInv == HandsAreExact /\ PublishedIsExact /\ QualityNamesBindings
-----------------------------------------------------------------------------
\* One filing's rows are its governed sources, if each has a Fact and a claim.
LEMMA RowsAreExact ==
  ASSUME NEW w, NEW f, NEW primary, NEW facts,
         \A el \in Governed(primary) :
           /\ \E fact \in facts : fact.el = el
           /\ w.op = "index" \/ el.id \in {q.el.id : q \in ClaimsOf(w.index.claims, f)}
  PROVE  RowSources(RowsOf(w, f, primary, facts)) = {<<f, el>> : el \in Governed(primary)}
<1>1. \A r \in RowsOf(w, f, primary, facts) : r.filing = f /\ r.el \in Governed(primary)
  BY DEF RowsOf, Row
<1>2. ASSUME NEW el \in Governed(primary)
      PROVE  \E r \in RowsOf(w, f, primary, facts) : r.filing = f /\ r.el = el
  <2>1. PICK fact \in facts : fact.el = el
    OBVIOUS
  <2>2. Row(f, el, fact, w.head.package, primary) \in RowsOf(w, f, primary, facts)
    <3> DEFINE p == <<el, fact>>
    <3>1. /\ p \in Governed(primary) \X facts /\ p[1] = el /\ p[2] = fact
          /\ w.op = "index" \/ p[1].id \in {q.el.id : q \in ClaimsOf(w.index.claims, f)}
      OBVIOUS
    <3> HIDE DEF p
    <3> QED
      BY <2>1, <3>1 DEF RowsOf
  <2> QED
    BY <2>2 DEF Row
<1> QED
  BY <1>1, <1>2 DEF RowSources

LEMMA ExactTogether ==
  ASSUME NEW rows, NEW documents, NEW more, NEW d,
         Exact(rows, documents), RowSources(more) = {<<d.filing, el>> : el \in Governed(d.primary)}
  PROVE  Exact(rows \cup more, documents \cup {d})
<1>1. RowSources(rows \cup more) = RowSources(rows) \cup RowSources(more)
  BY DEF RowSources
<1>2. SourcesOf(documents \cup {d}) = SourcesOf(documents) \cup {<<d.filing, el>> : el \in Governed(d.primary)}
  BY DEF SourcesOf
<1> QED
  BY <1>1, <1>2 DEF Exact
-----------------------------------------------------------------------------
(* Every step keeps what is in the hands of the commands exact.            *)

LEMMA InitInv == Init => QualityInv
BY DEF Init, BindingsInit, QualityInv, HandsAreExact, PublishedIsExact, QualityNamesBindings

\* What keeps the invariant, whatever else a step does: the job of one command
\* is replaced by an allowed one.
Allowed(w) == w = Idle \/ Scanning(w) \/ Staged(w) \/ Assessing(w)

LEMMA HandsKept ==
  ASSUME QualityInv, NEW j \in Jobs, NEW w, Allowed(w), job' = [job EXCEPT ![j] = w]
  PROVE  HandsAreExact'
BY DEF QualityInv, HandsAreExact, Allowed

LEMMA RefuseStep ==
  ASSUME QualityInv, NEW j \in Jobs, Refuse(j), UNCHANGED qualityVars
  PROVE  QualityInv'
<1>1. HandsAreExact'
  BY HandsKept DEF Refuse, Allowed
<1> QED
  BY <1>1 DEF Refuse, QualityInv, PublishedIsExact, QualityNamesBindings, qualityVars

LEMMA StartStep ==
  ASSUME QualityInv, NEW j \in Jobs, UNCHANGED qualityVars,
         NEW op, NEW cs \in SUBSET Companies, NEW dest, Start(j, op, cs, dest),
         op # "index" => dest \in Destinations
  PROVE  QualityInv'
<1> DEFINE w == Work(op, cs, dest, IF op = "index" THEN None ELSE index)
<1>1. op \in {"index", "v1", "v2"} /\ (op = "v1" => cs = Companies)
  BY DEF Start
<1>2. Exact({}, {})
  BY DEF Exact, RowSources, SourcesOf
<1>3. Scanning(w)
  <2> DEFINE claims == IF op = "index" THEN None ELSE index
             left == SelectSeq(Order, LAMBDA f : f \in Scope(cs))
             empty == {}
  <2>1. w = [op |-> op, step |-> "scan", scope |-> cs, dest |-> dest, index |-> claims,
             left |-> left, head |-> None, documents |-> empty, rows |-> empty]
    BY DEF Work
  <2>2. Exact(empty, empty)
    BY <1>2
  <2> HIDE DEF claims, left, empty, w
  <2> QED
    BY <1>1, <2>1, <2>2 DEF Scanning
<1>4. HandsAreExact'
  BY <1>3, HandsKept DEF Start, Allowed
<1> QED
  BY <1>4 DEF Start, QualityInv, PublishedIsExact, QualityNamesBindings, qualityVars

\* The fields of a command that scans.
LEMMA ScanFields ==
  ASSUME QualityInv, NEW j \in Jobs, job[j] # Idle, job[j].step = "scan"
  PROVE  Scanning(job[j])
BY DEF QualityInv, HandsAreExact, Staged, Assessing

LEMMA HashStep ==
  ASSUME QualityInv, NEW j \in Jobs, UNCHANGED qualityVars, Hash(j)
  PROVE  QualityInv'
<1> DEFINE head == [filing |-> Head(job[j].left), package |-> pkg[Head(job[j].left)],
                    parser |-> raw[Head(job[j].left)].parser]
<1>1. CASE Refuse(j)
  BY <1>1, RefuseStep
<1>2. CASE /\ job' = [job EXCEPT ![j].head = head]
           /\ UNCHANGED <<files, bindings, edits, budget>>
  <2>1. Scanning(job[j])
    BY ScanFields DEF Hash
  <2>2. Scanning([job[j] EXCEPT !.head = head])
    <3> HIDE DEF head
    <3> QED
      BY <2>1 DEF Scanning
  <2>3. HandsAreExact'
    BY <1>2, <2>2, HandsKept DEF Allowed
  <2> QED
    BY <1>2, <2>3 DEF QualityInv, PublishedIsExact, QualityNamesBindings, qualityVars
<1> QED
  BY <1>1, <1>2 DEF Hash

LEMMA BindStep ==
  ASSUME QualityInv, NEW j \in Jobs, UNCHANGED qualityVars, Bind(j)
  PROVE  QualityInv'
<1> DEFINE w == job[j]
           f == w.head.filing
           primary == pkg[f].primary
           facts == Facts(raw[f])
           more == RowsOf(w, f, primary, facts)
           document == Document(w, f, primary)
           bound == [w EXCEPT !.head = None, !.left = Tail(@),
                              !.documents = @ \cup {document}, !.rows = @ \cup more]
<1>1. CASE Refuse(j)
  BY <1>1, RefuseStep
<1>2. CASE /\ IF w.op = "index"
              THEN \A el \in Governed(primary) : \E fact \in facts : fact.el = el
              ELSE AllResolve(ClaimsOf(w.index.claims, f), primary, facts)
           /\ job' = [job EXCEPT ![j] = bound]
           /\ UNCHANGED <<files, bindings, edits, budget>>
  <2>1. Scanning(w)
    BY ScanFields DEF Bind
  <2>3. \A el \in Governed(primary) :
          /\ \E fact \in facts : fact.el = el
          /\ w.op = "index" \/ el.id \in {q.el.id : q \in ClaimsOf(w.index.claims, f)}
    BY <1>2 DEF AllResolve, Resolves
  <2>4. RowSources(more) = {<<f, el>> : el \in Governed(primary)}
    <3> HIDE DEF w, f, primary, facts
    <3> QED
      BY <2>3, RowsAreExact
  <2>5. document.filing = f /\ document.primary = primary
    BY DEF Document
  <2> HIDE DEF document, more, f, primary, facts
  <2>6. Exact(w.rows \cup more, w.documents \cup {document})
    BY <2>1, <2>4, <2>5, ExactTogether DEF Scanning
  <2> HIDE DEF w
  <2>7. bound = [op |-> w.op, step |-> "scan", scope |-> w.scope, dest |-> w.dest, index |-> w.index,
                 left |-> Tail(w.left), head |-> None, documents |-> w.documents \cup {document},
                 rows |-> w.rows \cup more]
    <3> DEFINE before == [op |-> w.op, step |-> "scan", scope |-> w.scope, dest |-> w.dest,
                          index |-> w.index, left |-> w.left, head |-> w.head,
                          documents |-> w.documents, rows |-> w.rows]
    <3>1. bound = [before EXCEPT !.head = None, !.left = Tail(@),
                                 !.documents = @ \cup {document}, !.rows = @ \cup more]
      BY <2>1 DEF Scanning
    <3> HIDE DEF bound
    <3> QED
      BY <3>1
  <2>8. Scanning(bound)
    <3> HIDE DEF bound
    <3> QED
      BY <2>1, <2>6, <2>7 DEF Scanning
  <2>9. HandsAreExact'
    <3> HIDE DEF bound
    <3> QED
      BY <1>2, <2>8, HandsKept DEF Allowed, w
  <2> QED
    BY <1>2, <2>9 DEF QualityInv, PublishedIsExact, QualityNamesBindings, qualityVars
<1> QED
  BY <1>1, <1>2 DEF Bind

\* What a scan that is over publishes.
LEMMA ScannedPublication ==
  ASSUME QualityInv, NEW j \in Jobs, NEW op \in {"v1", "v2"}, Scanned(j, op)
  PROVE  ExactPublication(Publication(job[j])) /\ job[j].dest \in Destinations
<1>1. Scanning(job[j])
  BY ScanFields DEF Scanned
<1> QED
  BY <1>1 DEF Scanning, Scanned, ExactPublication, Publication

LEMMA WriteIndexStep ==
  ASSUME QualityInv, NEW j \in Jobs, UNCHANGED qualityVars, WriteIndex(j)
  PROVE  QualityInv'
<1>1. HandsAreExact'
  BY HandsKept DEF WriteIndex, Allowed
<1> QED
  BY <1>1 DEF WriteIndex, QualityInv, PublishedIsExact, QualityNamesBindings, qualityVars

LEMMA RenameStep ==
  ASSUME QualityInv, NEW j \in Jobs, UNCHANGED qualityVars, NEW pub, RenameTo(j, pub),
         ExactPublication(pub), job[j].dest \in Destinations
  PROVE  QualityInv'
<1>1. CASE Refuse(j)
  BY <1>1, RefuseStep
<1>2. CASE /\ bindings' = [bindings EXCEPT ![job[j].dest] = pub]
           /\ job' = [job EXCEPT ![j] = Idle]
           /\ UNCHANGED <<files, edits, budget>>
  <2>1. HandsAreExact'
    BY <1>2, HandsKept DEF Allowed
  <2>2. PublishedIsExact'
    <3> DEFINE dest == job[j].dest
    <3> HIDE DEF dest
    <3>1. DOMAIN bindings = Destinations /\ \A d \in Destinations : bindings[d] = None \/ ExactPublication(bindings[d])
      BY DEF QualityInv, PublishedIsExact
    <3>2. bindings' = [bindings EXCEPT ![dest] = pub] /\ dest \in Destinations
      BY <1>2 DEF dest
    <3>3. \A d \in Destinations : bindings'[d] = pub \/ bindings'[d] = bindings[d]
      BY <3>1, <3>2
    <3>4. ASSUME NEW any, ExactPublication(any)
          PROVE  ExactPublication(any)'
      BY <3>4 DEF ExactPublication, Exact, RowSources, SourcesOf, Governed
    <3>5. DOMAIN bindings' = Destinations
      BY <3>1, <3>2
    <3> QED
      BY <3>1, <3>3, <3>4, <3>5 DEF PublishedIsExact
  <2> QED
    BY <1>2, <2>1, <2>2 DEF QualityInv, QualityNamesBindings, qualityVars
<1> QED
  BY <1>1, <1>2 DEF RenameTo

LEMMA PublishV1Step ==
  ASSUME QualityInv, NEW j \in Jobs, UNCHANGED qualityVars, PublishV1(j)
  PROVE  QualityInv'
<1>1. ExactPublication(Publication(job[j])) /\ job[j].dest \in Destinations
  BY ScannedPublication DEF PublishV1
<1>2. Refuse(j) \/ RenameTo(j, Publication(job[j]))
  BY DEF PublishV1
<1> QED
  BY <1>1, <1>2, RefuseStep, RenameStep

LEMMA StageV2Step ==
  ASSUME QualityInv, NEW j \in Jobs, UNCHANGED qualityVars, StageV2(j)
  PROVE  QualityInv'
<1> DEFINE pub == Publication(job[j])
           staged == [op |-> "v2", step |-> "staged", dest |-> job[j].dest, pub |-> pub]
<1>1. ExactPublication(pub) /\ job[j].dest \in Destinations
  BY ScannedPublication DEF StageV2
<1>2. Staged(staged)
  BY <1>1 DEF Staged
<1>3. CASE Refuse(j)
  BY <1>3, RefuseStep
<1>4. CASE job' = [job EXCEPT ![j] = staged] /\ UNCHANGED <<files, bindings, edits, budget>>
  <2>1. HandsAreExact'
    BY <1>2, <1>4, HandsKept DEF Allowed
  <2> QED
    BY <1>4, <2>1 DEF QualityInv, PublishedIsExact, QualityNamesBindings, qualityVars
<1> QED
  BY <1>3, <1>4 DEF StageV2

LEMMA StagedFields ==
  ASSUME QualityInv, NEW j \in Jobs, job[j] # Idle, job[j].step \in {"staged", "scanned"}
  PROVE  Staged(job[j])
BY DEF QualityInv, HandsAreExact, Scanning, Assessing

LEMMA ScanV2Step ==
  ASSUME QualityInv, NEW j \in Jobs, UNCHANGED qualityVars, ScanV2(j)
  PROVE  QualityInv'
<1> DEFINE scanned == [job[j] EXCEPT !.step = "scanned"]
<1>1. CASE Refuse(j)
  BY <1>1, RefuseStep
<1>2. CASE job' = [job EXCEPT ![j] = scanned] /\ UNCHANGED <<files, bindings, edits, budget>>
  <2>1. Staged(job[j])
    BY StagedFields DEF ScanV2
  <2>2. Staged(scanned)
    BY <2>1 DEF Staged
  <2>3. HandsAreExact'
    BY <1>2, <2>2, HandsKept DEF Allowed
  <2> QED
    BY <1>2, <2>3 DEF QualityInv, PublishedIsExact, QualityNamesBindings, qualityVars
<1> QED
  BY <1>1, <1>2 DEF ScanV2

LEMMA PublishV2Step ==
  ASSUME QualityInv, NEW j \in Jobs, UNCHANGED qualityVars, PublishV2(j)
  PROVE  QualityInv'
<1>1. Staged(job[j])
  BY StagedFields DEF PublishV2
<1>2. RenameTo(j, job[j].pub)
  BY DEF PublishV2
<1> QED
  BY <1>1, <1>2, RenameStep DEF Staged

LEMMA AssessingFields ==
  ASSUME QualityInv, NEW j \in Jobs, job[j] # Idle, job[j].step \in {"opened", "verified", "assessed"}
  PROVE  Assessing(job[j])
BY DEF QualityInv, HandsAreExact, Scanning, Staged

LEMMA StartQualityStep ==
  ASSUME QualityInv, NEW j \in Jobs, NEW dest \in Destinations, StartQuality(j, dest)
  PROVE  QualityInv'
<1> DEFINE w == [op |-> "quality", step |-> "opened", config |-> config, dest |-> dest,
                 pub |-> bindings[dest]]
<1>1. Assessing(w)
  BY DEF Assessing
<1>2. HandsAreExact'
  BY <1>1, HandsKept DEF StartQuality, Allowed
<1> QED
  BY <1>2 DEF StartQuality, QualityInv, PublishedIsExact, QualityNamesBindings, qualityVars

LEMMA ContinueStep ==
  ASSUME QualityInv, NEW j \in Jobs, NEW next \in {"verified", "assessed"}, Continue(j, next),
         job[j] # Idle, job[j].step \in {"opened", "verified", "assessed"}
  PROVE  QualityInv'
<1> DEFINE w == [job[j] EXCEPT !.step = next]
<1>1. Assessing(job[j])
  BY AssessingFields
<1>2. Assessing(w)
  BY <1>1 DEF Assessing
<1>3. job' = [job EXCEPT ![j] = w]
  BY DEF Continue
<1>4. HandsAreExact'
  BY <1>2, <1>3, HandsKept DEF Allowed
<1> QED
  BY <1>4 DEF Continue, QualityInv, PublishedIsExact, QualityNamesBindings, qualityVars

LEMMA StopStep ==
  ASSUME QualityInv, NEW j \in Jobs, Stop(j)
  PROVE  QualityInv'
BY RefuseStep DEF Stop

LEMMA PublishQualityStep ==
  ASSUME QualityInv, NEW j \in Jobs, PublishQuality(j)
  PROVE  QualityInv'
<1>1. CASE Stop(j)
  BY <1>1, StopStep
<1>2. CASE ~Stop(j)
  <2>1. Assessing(job[j])
    BY AssessingFields DEF PublishQuality
  <2>2. /\ quality'.dest = job[j].dest /\ quality'.files = bindings[job[j].dest]
        /\ bindings[job[j].dest] # None
        /\ job' = [job EXCEPT ![j] = Idle]
        /\ UNCHANGED <<files, bindings>>
    BY <1>2 DEF PublishQuality
  <2>3. HandsAreExact'
    BY <2>2, HandsKept DEF Allowed
  <2> QED
    BY <2>1, <2>2, <2>3 DEF QualityInv, PublishedIsExact, QualityNamesBindings, Assessing
<1> QED
  BY <1>1, <1>2

\* The files change, but not what is in anyone's hands.
LEMMA Elsewhere ==
  ASSUME QualityInv, UNCHANGED <<job, bindings, quality>>
  PROVE  QualityInv'
BY DEF QualityInv, HandsAreExact, PublishedIsExact, QualityNamesBindings

LEMMA WithdrawStep ==
  ASSUME QualityInv, NEW dest \in Destinations, Withdraw(dest), UNCHANGED qualityVars
  PROVE  QualityInv'
<1>1. /\ DOMAIN bindings' = Destinations
      /\ \A d \in Destinations : bindings'[d] = None \/ bindings'[d] = bindings[d]
  BY DEF Withdraw, QualityInv, PublishedIsExact
<1> QED
  BY <1>1 DEF Withdraw, QualityInv, HandsAreExact, PublishedIsExact, QualityNamesBindings, qualityVars

LEMMA NextInv ==
  ASSUME QualityInv, [Next]_vars
  PROVE  QualityInv'
<1>1. CASE BindingsNext /\ UNCHANGED qualityVars
  <2>1. CASE \E j \in Jobs : \E cs \in SUBSET Companies \ {{}} : Start(j, "index", cs, None)
    BY <1>1, <2>1, StartStep
  <2>2. CASE \E j \in Jobs : \E cs \in SUBSET Companies \ {{}} :
               \E op \in {"v1", "v2"}, d \in Destinations : Start(j, op, cs, d)
    BY <1>1, <2>2, StartStep
  <2>3. CASE \E j \in Jobs : Hash(j)
    BY <1>1, <2>3, HashStep
  <2>4. CASE \E j \in Jobs : Bind(j)
    BY <1>1, <2>4, BindStep
  <2>5. CASE \E j \in Jobs : WriteIndex(j)
    BY <1>1, <2>5, WriteIndexStep
  <2>6. CASE \E j \in Jobs : PublishV1(j)
    BY <1>1, <2>6, PublishV1Step
  <2>7. CASE \E j \in Jobs : StageV2(j)
    BY <1>1, <2>7, StageV2Step
  <2>8. CASE \E j \in Jobs : ScanV2(j)
    BY <1>1, <2>8, ScanV2Step
  <2>9. CASE \E j \in Jobs : PublishV2(j)
    BY <1>1, <2>9, PublishV2Step
  <2>10. CASE \E j \in Jobs : Die(j)
    BY <1>1, <2>10, RefuseStep DEF Die
  <2>11. CASE \E f \in Filings : \/ \E package \in Packages : Refetch(f, package)
                                 \/ \E reading \in Readings : Reingest(f, reading)
    BY <1>1, <2>11, Elsewhere DEF Refetch, Reingest, qualityVars
  <2>12. CASE Discard \/ \E q \in index.claims : Omit(q)
    BY <1>1, <2>12, Elsewhere DEF Discard, Omit, qualityVars
  <2>13. CASE \E d \in Destinations : Withdraw(d)
    BY <1>1, <2>13, WithdrawStep
  <2> QED
    BY <1>1, <2>1, <2>2, <2>3, <2>4, <2>5, <2>6, <2>7, <2>8, <2>9, <2>10, <2>11, <2>12, <2>13
       DEF BindingsNext
<1>2. CASE \E j \in Jobs : \E d \in Destinations : StartQuality(j, d)
  BY <1>2, StartQualityStep
<1>3. CASE \E j \in Jobs : VerifyBindings(j)
  BY <1>3, ContinueStep, StopStep DEF VerifyBindings
<1>4. CASE \E j \in Jobs : AssessBindings(j)
  BY <1>4, ContinueStep, StopStep DEF AssessBindings
<1>5. CASE \E j \in Jobs : PublishQuality(j)
  BY <1>5, PublishQualityStep
<1>6. CASE \E c \in Companies : BuildHistory(c)
  BY <1>6, Elsewhere DEF BuildHistory
<1>7. CASE \E cs \in SUBSET Companies \ {{}} : WriteConfig(cs)
  BY <1>7, Elsewhere DEF WriteConfig
<1>8. CASE UNCHANGED vars
  BY <1>8, Elsewhere DEF vars, qualityVars
<1> QED
  BY <1>1, <1>2, <1>3, <1>4, <1>5, <1>6, <1>7, <1>8 DEF Next

-----------------------------------------------------------------------------
(* What a reader may conclude                                              *)

\* The documents of a publication are the cached ones of its filings.
LEMMA CurrentDocumentsAreSources ==
  ASSUME NEW pub, NEW fs, NEW parsers, ExactPublication(pub), DocumentsCurrent(pub, fs, parsers)
  PROVE  Bound(pub) = Sources(fs)
<1>1. SourcesOf(pub.documents) = Sources(fs)
  BY DEF DocumentsCurrent, SourcesOf, Sources
<1> QED
  BY <1>1 DEF Bound, RowSources, Exact, ExactPublication

LEMMA VerifiedIsExact ==
  ASSUME NEW pub, ExactPublication(pub), Verifies(pub)
  PROVE  /\ Bound(pub) = Sources(Scope(pub.scope))
         /\ \A row \in pub.rows : \E fact \in Facts(raw[row.filing]) : fact.id = row.fact /\ fact.el = row.el
<1>1. \E parsers : DocumentsCurrent(pub, Scope(pub.scope), parsers)
  BY DEF Verifies, VerifiesV1, VerifiesV2, ExactPublication, Scope, Filings
<1>2. \A row \in pub.rows : RowBound(pub, row)
  BY DEF Verifies, VerifiesV1, VerifiesV2
<1>3. \A row \in pub.rows : \E fact \in Facts(raw[row.filing]) : fact.id = row.fact /\ fact.el = row.el
  BY <1>1, <1>2 DEF RowBound, DocumentsCurrent
<1> QED
  BY <1>1, <1>3, CurrentDocumentsAreSources

LEMMA InvIsExact == QualityInv => VerifiedBindingsAreExact
BY VerifiedIsExact DEF QualityInv, PublishedIsExact, VerifiedBindingsAreExact

LEMMA InvIsComplete == QualityInv => AcceptedQualityIsComplete
<1> SUFFICES ASSUME QualityInv, quality # None, QualityVerifies(quality),
                    NEW c \in quality.scope, NEW f \in Planned[c]
             PROVE  /\ history[c].of[f] = raw[f] /\ raw[f].of = pkg[f]
                    /\ \A el \in Governed(pkg[f].primary) :
                         \E fact \in Facts(raw[f]) : fact.el = el /\ fact.right
  BY DEF AcceptedQualityIsComplete
<1> DEFINE pub == bindings[quality.dest]
<1>1. ExactPublication(pub) /\ VerifiesV2(pub) /\ pub.scope = quality.scope
  BY DEF QualityInv, QualityNamesBindings, PublishedIsExact, QualityVerifies, EvidenceCurrent
<1>2. history[c].of[f] = raw[f]
  <2>1. config.scope = quality.scope /\ Accepted(config)
    BY DEF QualityVerifies
  <2>2. IsReady(c)
    BY <2>1 DEF Accepted
  <2> QED
    BY <2>2 DEF IsReady, Snapshots
<1>3. f \in Scope(pub.scope)
  BY <1>1 DEF Scope
<1>4. DocumentsCurrent(pub, Scope(pub.scope), Parsers.v2) /\ \A row \in pub.rows : RowBound(pub, row)
  BY <1>1 DEF VerifiesV2
<1>5. raw[f].of = pkg[f]
  BY <1>3, <1>4 DEF DocumentsCurrent
<1>6. Bound(pub) = Sources(Scope(pub.scope))
  BY <1>1, <1>4, CurrentDocumentsAreSources
<1>7. Conforms(pub)
  BY DEF QualityVerifies, ReportIsPass, Report
<1>8. ASSUME NEW el \in Governed(pkg[f].primary)
      PROVE  \E fact \in Facts(raw[f]) : fact.el = el /\ fact.right
  <2>1. PICK row \in pub.rows : row.filing = f /\ row.el = el
    <3>1. <<f, el>> \in Sources(Scope(pub.scope))
      BY <1>3, <1>8 DEF Sources
    <3> QED
      BY <1>6, <3>1 DEF Bound
  <2>2. PICK d \in pub.documents :
          /\ d.filing = f
          /\ \E fact \in Facts(d.snapshot) : fact.el = el /\ fact.right = row.right
    BY <1>4, <2>1 DEF RowBound
  <2>3. d.snapshot = raw[f]
    BY <1>4, <2>2 DEF DocumentsCurrent
  <2>4. row.right
    BY <1>7, <2>1 DEF Conforms
  <2> QED
    BY <2>2, <2>3, <2>4
<1> QED
  BY <1>2, <1>5, <1>8

-----------------------------------------------------------------------------
\* What the commands have in hand and what they have published covers every
\* governed element of the documents they read.
THEOREM ProducersKeepEverySource == Spec => []QualityInv
<1>1. Init => QualityInv
  BY InitInv
<1>2. QualityInv /\ [Next]_vars => QualityInv'
  BY NextInv
<1> QED
  BY <1>1, <1>2, PTL DEF Spec

\* Bindings that verify bind every governed source, and a quality publication
\* that verifies is complete and right, for every value of the constants.
THEOREM QualityIsAlwaysProven == Spec => []QualityIsProven
<1>1. QualityInv => QualityIsProven
  BY InvIsExact, InvIsComplete DEF QualityIsProven
<1> QED
  BY <1>1, ProducersKeepEverySource, PTL

-----------------------------------------------------------------------------
(* The queue of an origin.                                                 *)

Numbers == 1 .. Archives

\* A distribution of declarations among some archives.
Distribution(m, pairs) ==
  /\ m = [d \in DOMAIN m |-> m[d]] /\ DOMAIN m \subseteq Numbers
  /\ \A d \in DOMAIN m : m[d] \in Numbers /\ <<m[d], d>> \in pairs
  /\ \A d, e \in DOMAIN m : m[d] = m[e] => d = e

Owners(m, pairs, seen) ==
  {m[d] : d \in {x \in DOMAIN m : \E a \in seen : <<a, x>> \in pairs}}

QueueHolds(q, m, pairs, origin) ==
  /\ q[0] = {origin}
  /\ \A n \in 1 .. Archives : q[n] = q[n - 1] \cup Owners(m, pairs, q[n - 1])
  /\ DOMAIN q = 0 .. Archives
  /\ \A n \in 0 .. Archives : q[n] \in SUBSET Numbers

IsQueue(q, m, pairs, origin) ==
  q = [n \in 0 .. Archives |->
         IF n = 0 THEN {origin}
         ELSE q[n - 1] \cup {m[d] : d \in {x \in DOMAIN m : \E a \in q[n - 1] : <<a, x>> \in pairs}}]

LEMMA QueueStep ==
  ASSUME NEW pairs, NEW m, NEW origin, NEW q, Archives \in Nat
  PROVE  IsQueue(q, m, pairs, origin) <=>
           /\ q = [n \in 0 .. Archives |-> q[n]] /\ q[0] = {origin}
           /\ \A n \in 1 .. Archives : q[n] = q[n - 1] \cup Owners(m, pairs, q[n - 1])
<1> DEFINE After(n) == q[n - 1] \cup Owners(m, pairs, q[n - 1])
<1>1. IsQueue(q, m, pairs, origin) <=> q = [n \in 0 .. Archives |-> IF n = 0 THEN {origin} ELSE After(n)]
  BY DEF IsQueue, Owners
<1> HIDE DEF After
<1>2. ASSUME q = [n \in 0 .. Archives |-> IF n = 0 THEN {origin} ELSE After(n)]
      PROVE  q = [n \in 0 .. Archives |-> q[n]] /\ q[0] = {origin} /\ \A n \in 1 .. Archives : q[n] = After(n)
  BY <1>2
<1>3. ASSUME q = [n \in 0 .. Archives |-> q[n]] /\ q[0] = {origin} /\ \A n \in 1 .. Archives : q[n] = After(n)
      PROVE  q = [n \in 0 .. Archives |-> IF n = 0 THEN {origin} ELSE After(n)]
  <2>1. \A n \in 0 .. Archives : q[n] = IF n = 0 THEN {origin} ELSE After(n)
    BY <1>3
  <2> QED
    BY <2>1, <1>3
<1> QED
  BY <1>1, <1>2, <1>3 DEF After

LEMMA QueueGrows ==
  ASSUME NEW pairs, NEW m, Distribution(m, pairs), NEW origin \in Numbers, Archives \in Nat
  PROVE  QueueHolds(P!Queue(pairs, m, origin), m, pairs, origin)
<1> DEFINE S == [n \in 0 .. Archives |-> SUBSET Numbers]
           step == [n \in 1 .. Archives |-> [s \in SUBSET Numbers |-> s \cup Owners(m, pairs, s)]]
           Step(s) == s \cup Owners(m, pairs, s)
           q == CHOOSE f : IsQueue(f, m, pairs, origin)
<1>1. \A s \in SUBSET Numbers : s \cup Owners(m, pairs, s) \in SUBSET Numbers
  <2>1. \A d \in DOMAIN m : m[d] \in Numbers
    BY DEF Distribution
  <2> QED
    BY <2>1 DEF Owners
<1>2. /\ \A n \in 1 .. Archives : step[n] \in [S[n - 1] -> S[n]]
      /\ \A n \in 1 .. Archives : \A s \in S[n - 1] : step[n][s] = Step(s)
      /\ \A n \in 0 .. Archives : S[n] = SUBSET Numbers
  BY <1>1
<1>3. {origin} \in S[0]
  OBVIOUS
<1> HIDE DEF S, step
<1>4. PICK g : Iteration(g, Archives, {origin}, step)
  BY <1>2, <1>3, IterationsExist
<1>5. /\ g = [n \in 0 .. Archives |-> g[n]]
      /\ g[0] = {origin} /\ \A n \in 1 .. Archives : g[n] = step[n][g[n - 1]]
  BY <1>4, IterationMeans
<1>6. \A n \in 0 .. Archives : g[n] \in S[n]
  <2>1. ASSUME NEW n \in 1 .. Archives, g[n - 1] \in S[n - 1] PROVE g[n] \in S[n]
    <3>1. step[n] \in [S[n - 1] -> S[n]] /\ g[n] = step[n][g[n - 1]]
      BY <1>2, <1>5
    <3> QED BY <2>1, <3>1
  <2> QED BY <1>3, <1>5, <2>1, IterationsStay
<1>7. \A n \in 1 .. Archives : g[n] = Step(g[n - 1])
  <2> TAKE n \in 1 .. Archives
  <2>1. PICK k : k = n - 1
    OBVIOUS
  <2>2. k \in 0 .. Archives /\ g[k] \in S[k]
    BY <1>6, <2>1
  <2>3. g[n] = step[n][g[k]] /\ \A s \in S[k] : step[n][s] = Step(s)
    BY <1>2, <1>5, <2>1
  <2> HIDE DEF Step
  <2> QED
    BY <2>1, <2>2, <2>3
<1>8. IsQueue(g, m, pairs, origin)
  BY <1>5, <1>7, QueueStep
<1>9. IsQueue(q, m, pairs, origin)
  BY <1>8
<1> HIDE DEF q
<1>10. /\ q = [n \in 0 .. Archives |-> q[n]] /\ q[0] = {origin}
       /\ \A n \in 1 .. Archives : q[n] = q[n - 1] \cup Owners(m, pairs, q[n - 1])
  BY <1>9, QueueStep
<1>11. \A n \in 0 .. Archives : q[n] \in S[n]
  <2>1. \A n \in 1 .. Archives : q[n - 1] \in S[n - 1] => q[n] \in S[n]
    <3> TAKE n \in 1 .. Archives
    <3>1. n - 1 \in 0 .. Archives /\ n \in 0 .. Archives
      OBVIOUS
    <3> QED
      BY <1>1, <1>2, <1>10, <3>1
  <2> QED BY <1>3, <1>10, <2>1, IterationsStay
<1>12. q = P!Queue(pairs, m, origin)
  BY DEF P!Queue, q, IsQueue
<1> QED
  BY <1>2, <1>10, <1>11, <1>12 DEF QueueHolds

\* b got into the queue before a.
Before(q, b, a) == \E k \in 0 .. Archives : b \in q[k] /\ a \notin q[k]

LEMMA QueueIsMonotone ==
  ASSUME NEW q, NEW m, NEW pairs, NEW origin, QueueHolds(q, m, pairs, origin), Archives \in Nat,
         NEW k \in 0 .. Archives, NEW l \in 0 .. Archives, k <= l
  PROVE  q[k] \subseteq q[l]
<1> DEFINE S == [n \in 0 .. Archives |-> IF n < k THEN SUBSET Numbers ELSE {s \in SUBSET Numbers : q[k] \subseteq s}]
<1>1. /\ \A n \in 1 .. Archives : q[n - 1] \subseteq q[n] /\ n - 1 \in 0 .. Archives
      /\ \A n \in 0 .. Archives : q[n] \in SUBSET Numbers
  BY DEF QueueHolds
<1>2. q[0] \in S[0]
  BY <1>1
<1>3. ASSUME NEW n \in 1 .. Archives, q[n - 1] \in S[n - 1] PROVE q[n] \in S[n]
  <2>1. CASE n < k
    BY <1>1, <2>1
  <2>2. CASE n = k
    BY <1>1, <2>2
  <2>3. CASE n > k
    <3>1. ~(n - 1 < k) /\ ~(n < k) /\ n \in 0 .. Archives /\ n - 1 \in 0 .. Archives
      BY <2>3
    <3>2. q[k] \subseteq q[n - 1]
      BY <1>3, <3>1
    <3> QED
      BY <1>1, <3>1, <3>2
  <2> QED
    BY <2>1, <2>2, <2>3
<1>4. \A n \in 0 .. Archives : q[n] \in S[n]
  <2> HIDE DEF S
  <2> QED BY <1>2, <1>3, IterationsStay
<1>5. q[l] \in S[l]
  BY <1>4
<1>6. l \in 0 .. Archives /\ ~(l < k)
  OBVIOUS
<1>7. S[l] = {s \in SUBSET Numbers : q[k] \subseteq s}
  BY <1>6
<1> QED
  BY <1>5, <1>7

LEMMA BeforeIsAnOrder ==
  ASSUME NEW q, NEW m, NEW pairs, NEW origin, QueueHolds(q, m, pairs, origin), Archives \in Nat,
         NEW a, NEW b, NEW c, Before(q, b, a)
  PROVE  /\ a # b /\ ~Before(q, a, b)
         /\ Before(q, c, b) => Before(q, c, a)
<1>1. PICK k \in 0 .. Archives : b \in q[k] /\ a \notin q[k]
  BY DEF Before
<1>2. ASSUME NEW l \in 0 .. Archives, a \in q[l], b \notin q[l] PROVE FALSE
  <2>1. k <= l \/ l <= k
    BY <1>1
  <2> QED
    BY <1>1, <1>2, <2>1, QueueIsMonotone
<1>3. ASSUME NEW l \in 0 .. Archives, c \in q[l], b \notin q[l] PROVE Before(q, c, a)
  <2>1. ~(k <= l)
    BY <1>1, <1>3, QueueIsMonotone
  <2>2. l <= k
    BY <1>1, <2>1
  <2>3. c \in q[k]
    BY <1>1, <1>3, <2>2, QueueIsMonotone
  <2> QED
    BY <1>1, <2>3 DEF Before
<1> QED
  BY <1>1, <1>2, <1>3 DEF Before

\* A queue of as many rounds as archives has met everybody it will meet.
LEMMA QueueIsClosed ==
  ASSUME NEW q, NEW m, NEW pairs, NEW origin, QueueHolds(q, m, pairs, origin), Archives \in Nat
  PROVE  Owners(m, pairs, q[Archives]) \subseteq q[Archives]
<1> DEFINE Steady(n) == Owners(m, pairs, q[n]) \subseteq q[n]
           S == [n \in 0 .. Archives |->
                   {s \in SUBSET Numbers : Cardinality(s) > n \/ \E k \in 0 .. Archives : k < n /\ Steady(k)}]
<1>1. /\ \A n \in 1 .. Archives : q[n] = q[n - 1] \cup Owners(m, pairs, q[n - 1]) /\ n - 1 \in 0 .. Archives
      /\ \A n \in 0 .. Archives : q[n] \in SUBSET Numbers
      /\ q[0] = {origin} /\ 0 \in 0 .. Archives /\ Archives \in 0 .. Archives
  BY DEF QueueHolds
<1>2. IsFiniteSet(Numbers) /\ Cardinality(Numbers) = Archives
  BY FS_Interval DEF Numbers
<1>3. \A s \in SUBSET Numbers : IsFiniteSet(s) /\ Cardinality(s) \in Nat /\ Cardinality(s) <= Archives
  BY <1>2, FS_Subset, FS_CardinalityType
<1>4. q[0] \in S[0]
  <2>1. Cardinality(q[0]) = 1 /\ q[0] \in SUBSET Numbers
    BY <1>1, FS_Singleton
  <2> QED
    BY <1>1, <2>1
<1>5. ASSUME NEW n \in 1 .. Archives, q[n - 1] \in S[n - 1] PROVE q[n] \in S[n]
  <2>1. CASE \E k \in 0 .. Archives : k < n /\ Steady(k)
    BY <1>1, <2>1
  <2>2. CASE ~\E k \in 0 .. Archives : k < n /\ Steady(k)
    <3>1. ~Steady(n - 1) /\ Cardinality(q[n - 1]) > n - 1
      <4>1. n - 1 \in 0 .. Archives /\ n - 1 < n /\ \A k \in 0 .. Archives : k < n - 1 => k < n
        OBVIOUS
      <4> QED BY <1>5, <2>2, <4>1
    <3>2. PICK x : x \in Owners(m, pairs, q[n - 1]) /\ x \notin q[n - 1]
      BY <3>1
    <3>3. q[n - 1] \in SUBSET Numbers /\ q[n] \in SUBSET Numbers /\ n \in 0 .. Archives
      BY <1>1
    <3>4. q[n - 1] \subseteq q[n] /\ q[n - 1] # q[n]
      BY <1>1, <3>2
    <3>5. Cardinality(q[n - 1]) < Cardinality(q[n])
      BY <1>3, <3>3, <3>4, FS_Subset
    <3>6. Cardinality(q[n]) \in Nat /\ Cardinality(q[n - 1]) \in Nat
      BY <1>3, <3>3
    <3>7. Cardinality(q[n]) > n
      BY <3>1, <3>5, <3>6
    <3> HIDE DEF Steady
    <3> QED
      BY <3>3, <3>7
  <2> QED
    BY <2>1, <2>2
<1>6. q[Archives] \in S[Archives]
  <2> HIDE DEF S
  <2> QED BY <1>1, <1>4, <1>5, IterationsStay
<1>7. PICK k \in 0 .. Archives : k < Archives /\ Steady(k)
  <2>1. Cardinality(q[Archives]) \in Nat /\ Cardinality(q[Archives]) <= Archives
    BY <1>1, <1>3
  <2> HIDE DEF Steady
  <2> QED BY <1>1, <1>6, <2>1
<1> DEFINE R == [n \in 0 .. Archives |-> IF n < k THEN SUBSET Numbers ELSE {q[k]}]
<1>8. q[0] \in R[0]
  BY <1>1
<1>9. ASSUME NEW n \in 1 .. Archives, q[n - 1] \in R[n - 1] PROVE q[n] \in R[n]
  <2>1. n \in 0 .. Archives /\ n - 1 \in 0 .. Archives
    OBVIOUS
  <2>2. CASE n < k
    BY <1>1, <2>1, <2>2
  <2>3. CASE n = k
    BY <2>1, <2>3
  <2>4. CASE n > k
    <3>1. q[n - 1] = q[k]
      BY <1>9, <2>1, <2>4
    <3> QED
      BY <1>1, <1>7, <2>1, <2>4, <3>1
  <2> QED
    BY <2>2, <2>3, <2>4
<1>10. q[Archives] \in R[Archives]
  <2> HIDE DEF R
  <2> QED BY <1>1, <1>8, <1>9, IterationsStay
<1>11. q[Archives] = q[k]
  BY <1>1, <1>7, <1>10
<1> QED
  BY <1>7, <1>11

\* Who is met beside the origin owns something.
LEMMA QueueIsOfOwners ==
  ASSUME NEW q, NEW m, NEW pairs, NEW origin, QueueHolds(q, m, pairs, origin), Archives \in Nat,
         NEW n \in 0 .. Archives, NEW a \in q[n], a # origin
  PROVE  \E d \in DOMAIN m : /\ m[d] = a
                             /\ \E b \in Numbers : <<b, d>> \in pairs /\ Before(q, b, a)
<1> DEFINE Bad == {k \in 0 .. Archives : a \in q[k]}
<1>1. n \in Bad /\ Bad \in SUBSET Nat
  OBVIOUS
<1>2. PICK k \in Bad : \A l \in Bad : k <= l
  BY <1>1, LeastNumber
<1>3. k # 0
  BY <1>2 DEF QueueHolds
<1>4. k \in 1 .. Archives /\ k - 1 \in 0 .. Archives /\ ~(k <= k - 1)
  BY <1>2, <1>3
<1>5. a \notin q[k - 1]
  BY <1>2, <1>4
<1>6. a \in Owners(m, pairs, q[k - 1])
  BY <1>2, <1>4, <1>5 DEF QueueHolds
<1>7. PICK d \in DOMAIN m : m[d] = a /\ \E b \in q[k - 1] : <<b, d>> \in pairs
  BY <1>6 DEF Owners
<1>8. PICK b \in q[k - 1] : <<b, d>> \in pairs
  BY <1>7
<1>9. b \in Numbers /\ Before(q, b, a)
  BY <1>4, <1>5 DEF QueueHolds, Before
<1> QED
  BY <1>7, <1>8, <1>9

-----------------------------------------------------------------------------
(* Where a distribution to everybody exists, everybody finds something.    *)

Owning(m) == {m[d] : d \in DOMAIN m}

LEMMA SomethingIsFound ==
  ASSUME NEW pairs, P!OneToOne(pairs), NEW m, Distribution(m, pairs), NEW origin \in Numbers,
         origin \notin Owning(m), Archives \in Nat
  PROVE  P!Found(pairs, m, origin) # {}
<1> DEFINE q == P!Queue(pairs, m, origin)
           Q == q[Archives]
<1> SUFFICES ASSUME P!Found(pairs, m, origin) = {} PROVE FALSE
  OBVIOUS
<1>1. QueueHolds(q, m, pairs, origin)
  BY QueueGrows
<1> HIDE DEF q
<1>2. Q \in SUBSET Numbers /\ Owners(m, pairs, Q) \subseteq Q
  <2>1. Q \in SUBSET Numbers
    BY <1>1 DEF QueueHolds
  <2>2. Owners(m, pairs, q[Archives]) \subseteq q[Archives]
    BY <1>1, QueueIsClosed
  <2> QED
    BY <2>1, <2>2
<1>3. origin \in Q
  <2>1. q[0] = {origin} /\ 0 \in 0 .. Archives /\ Archives \in 0 .. Archives /\ 0 <= Archives
    BY <1>1 DEF QueueHolds
  <2> QED
    BY <1>1, <2>1, QueueIsMonotone
<1>4. PICK f \in [Numbers -> Numbers] :
        /\ \A i \in Numbers : <<i, f[i]>> \in pairs
        /\ \A i, j \in Numbers : f[i] = f[j] => i = j
  BY DEF P!OneToOne, Numbers
<1>5. ASSUME NEW a \in Q PROVE f[a] \in DOMAIN m /\ m[f[a]] \in Q \ {origin}
  <2>1. a \in Numbers /\ <<a, f[a]>> \in pairs
    BY <1>2, <1>4
  <2>2. f[a] \in DOMAIN m
    <3>1. <<a, f[a]>>[1] = a /\ <<a, f[a]>>[2] = f[a]
      OBVIOUS
    <3> QED
      BY <2>1, <3>1 DEF P!Found, q
  <2>3. m[f[a]] \in Owners(m, pairs, Q)
    BY <2>1, <2>2 DEF Owners
  <2> QED
    BY <1>2, <2>2, <2>3 DEF Owning
<1>6. IsFiniteSet(Q) /\ Cardinality(Q) \in Nat /\ Cardinality(Q) > 0
  <2>1. IsFiniteSet(Numbers)
    BY FS_Interval DEF Numbers
  <2> QED
    BY <1>2, <1>3, <2>1, FS_Subset, FS_CardinalityType, FS_EmptySet
<1>7. IsFiniteSet(Q \ {origin}) /\ Cardinality(Q \ {origin}) = Cardinality(Q) - 1
  BY <1>3, <1>6, FS_RemoveElement
<1> DEFINE g == [a \in Q |-> m[f[a]]]
<1>8. g \in [Q -> Q \ {origin}]
  BY <1>5
<1>9. \A a, b \in Q : g[a] = g[b] => a = b
  <2> TAKE a, b \in Q
  <2> HAVE g[a] = g[b]
  <2>1. f[a] = f[b]
    BY <1>5 DEF Distribution
  <2> QED
    BY <1>2, <1>4, <2>1
<1>10. Cardinality(Q \ {origin}) < Cardinality(Q)
  BY <1>6, <1>7
<1> HIDE DEF g, Q
<1>11. \E a, b \in Q : a # b /\ g[a] = g[b]
  BY <1>6, <1>7, <1>8, <1>10, FS_PigeonHole
<1> QED
  BY <1>9, <1>11

-----------------------------------------------------------------------------
(* What is found is passed on to the origin.                               *)

Distributions == UNION {[given -> Numbers] : given \in SUBSET Numbers}

\* The owner on the way holds one thing too many, the one it has to pass on.
Without(m, owner, origin) == IF owner = origin THEN {} ELSE {P!Held(m, owner)}

OnTheWay(A, o, m, pairs, origin, q) ==
  /\ A \in Distributions /\ o \in Numbers /\ o \in q[Archives]
  /\ \A d \in DOMAIN A : <<A[d], d>> \in pairs
  /\ o # origin => P!Held(m, o) \in DOMAIN A /\ A[P!Held(m, o)] = o
  /\ \A d, e \in DOMAIN A \ Without(m, o, origin) : A[d] = A[e] => d = e
  /\ {A[d] : d \in DOMAIN A \ Without(m, o, origin)} =
       Owning(m) \cup (IF o = origin THEN {origin} ELSE {})
  /\ \A d \in DOMAIN m : d \in DOMAIN A /\ (A[d] # m[d] => Before(q, o, m[d]))

LEMMA HeldIs ==
  ASSUME NEW pairs, NEW m, Distribution(m, pairs), NEW d \in DOMAIN m
  PROVE  P!Held(m, m[d]) = d
<1>1. P!Held(m, m[d]) \in DOMAIN m /\ m[P!Held(m, m[d])] = m[d]
  BY DEF P!Held
<1> QED
  BY <1>1 DEF Distribution

LEMMA WayBegins ==
  ASSUME NEW pairs \in SUBSET (Numbers \X Numbers), NEW m, Distribution(m, pairs), NEW origin \in Numbers,
         origin \notin Owning(m), Archives \in Nat, NEW q, QueueHolds(q, m, pairs, origin),
         NEW p \in pairs, p[1] \in q[Archives], p[2] \notin DOMAIN m
  PROVE  OnTheWay(P!Given(m, p[2], p[1]), p[1], m, pairs, origin, q)
<1> DEFINE d0 == p[2]
           a0 == p[1]
           A == P!Given(m, d0, a0)
<1>1. a0 \in Numbers /\ d0 \in Numbers /\ <<a0, d0>> \in pairs /\ d0 \notin DOMAIN m /\ a0 \in q[Archives]
  OBVIOUS
<1>2. /\ DOMAIN m \subseteq Numbers
      /\ \A d \in DOMAIN m : m[d] \in Numbers /\ <<m[d], d>> \in pairs
      /\ \A d, e \in DOMAIN m : m[d] = m[e] => d = e
  BY DEF Distribution
<1> HIDE DEF d0, a0
<1>3. /\ A = [x \in DOMAIN m \cup {d0} |-> A[x]]
      /\ DOMAIN A = DOMAIN m \cup {d0} /\ A[d0] = a0 /\ \A d \in DOMAIN m : A[d] = m[d]
  BY <1>1 DEF P!Given
<1> HIDE DEF A
<1>4. A \in [DOMAIN m \cup {d0} -> Numbers] /\ DOMAIN m \cup {d0} \in SUBSET Numbers
  BY <1>1, <1>2, <1>3
<1>5. A \in Distributions
  BY <1>4 DEF Distributions
<1>6. \A d \in DOMAIN A : <<A[d], d>> \in pairs
  BY <1>1, <1>2, <1>3
<1>7. a0 # origin => P!Held(m, a0) \in DOMAIN m /\ m[P!Held(m, a0)] = a0
  <2> HAVE a0 # origin
  <2>1. Archives \in 0 .. Archives
    OBVIOUS
  <2>2. PICK d \in DOMAIN m : m[d] = a0
    BY <1>1, <2>1, QueueIsOfOwners
  <2>3. P!Held(m, a0) = d
    BY <2>2, HeldIs
  <2> QED
    BY <2>2, <2>3
<1> DEFINE rest == DOMAIN A \ Without(m, a0, origin)
<1>8. /\ a0 = origin => rest = DOMAIN m \cup {d0}
      /\ a0 # origin => rest = (DOMAIN m \ {P!Held(m, a0)}) \cup {d0}
  BY <1>1, <1>3, <1>7 DEF Without
<1>9. \A d \in rest : d = d0 \/ (d \in DOMAIN m /\ m[d] # a0 /\ d # d0)
  <2> TAKE d \in rest
  <2>1. CASE a0 = origin
    BY <1>1, <1>8, <2>1 DEF Owning
  <2>2. CASE a0 # origin
    BY <1>1, <1>2, <1>7, <1>8, <2>2
  <2> QED BY <2>1, <2>2
<1>10. \A d, e \in rest : A[d] = A[e] => d = e
  BY <1>2, <1>3, <1>9
<1>11. {A[d] : d \in rest} = Owning(m) \cup (IF a0 = origin THEN {origin} ELSE {})
  <2>1. CASE a0 = origin
    <3>1. {A[d] : d \in rest} = {m[d] : d \in DOMAIN m} \cup {origin}
      BY <1>3, <1>8, <2>1
    <3> QED BY <2>1, <3>1 DEF Owning
  <2>2. CASE a0 # origin
    <3>1. {A[d] : d \in rest} \subseteq Owning(m)
      <4> SUFFICES ASSUME NEW d \in rest PROVE A[d] \in Owning(m)
        OBVIOUS
      <4>1. CASE d = d0
        BY <1>3, <1>7, <2>2, <4>1 DEF Owning
      <4>2. CASE d # d0
        BY <1>3, <1>9, <4>2 DEF Owning
      <4> QED BY <4>1, <4>2
    <3>2. Owning(m) \subseteq {A[d] : d \in rest}
      <4> SUFFICES ASSUME NEW d \in DOMAIN m PROVE m[d] \in {A[x] : x \in rest}
        BY DEF Owning
      <4>1. CASE d = P!Held(m, a0)
        BY <1>3, <1>7, <1>8, <2>2, <4>1
      <4>2. CASE d # P!Held(m, a0)
        BY <1>3, <1>8, <2>2, <4>2
      <4> QED BY <4>1, <4>2
    <3> QED BY <2>2, <3>1, <3>2
  <2> QED BY <2>1, <2>2
<1>12. \A d \in DOMAIN m : d \in DOMAIN A /\ (A[d] # m[d] => Before(q, a0, m[d]))
  BY <1>3
<1>13. a0 # origin => P!Held(m, a0) \in DOMAIN A /\ A[P!Held(m, a0)] = a0
  BY <1>3, <1>7
<1> HIDE DEF rest
<1>14. OnTheWay(A, a0, m, pairs, origin, q)
  BY <1>1, <1>5, <1>6, <1>10, <1>11, <1>12, <1>13 DEF OnTheWay, rest
<1> QED
  BY <1>14 DEF A, a0, d0

LEMMA ParentIs ==
  ASSUME NEW pairs, NEW m, Distribution(m, pairs), NEW origin \in Numbers, Archives \in Nat,
         NEW q, QueueHolds(q, m, pairs, origin), NEW n \in 0 .. Archives, NEW o \in q[n], o # origin
  PROVE  /\ P!Held(m, o) \in DOMAIN m /\ m[P!Held(m, o)] = o
         /\ P!Parent(pairs, m, q, o) \in Numbers
         /\ <<P!Parent(pairs, m, q, o), P!Held(m, o)>> \in pairs
         /\ Before(q, P!Parent(pairs, m, q, o), o)
<1>1. PICK d \in DOMAIN m : /\ m[d] = o
                            /\ \E b \in Numbers : <<b, d>> \in pairs /\ Before(q, b, o)
  BY QueueIsOfOwners
<1>2. P!Held(m, o) = d
  BY <1>1, HeldIs
<1>3. DOMAIN q = 0 .. Archives
  BY DEF QueueHolds
<1>4. \E a \in 1 .. Archives :
        <<a, P!Held(m, o)>> \in pairs /\ \E k \in DOMAIN q : a \in q[k] /\ o \notin q[k]
  BY <1>1, <1>2, <1>3 DEF Before, Numbers
<1>5. /\ P!Parent(pairs, m, q, o) \in 1 .. Archives
      /\ <<P!Parent(pairs, m, q, o), P!Held(m, o)>> \in pairs
      /\ \E k \in DOMAIN q : P!Parent(pairs, m, q, o) \in q[k] /\ o \notin q[k]
  BY <1>4 DEF P!Parent
<1> QED
  BY <1>1, <1>2, <1>3, <1>5 DEF Before, Numbers

LEMMA BeforeIsQueued ==
  ASSUME NEW q, NEW m, NEW pairs, NEW origin, QueueHolds(q, m, pairs, origin), Archives \in Nat,
         NEW l \in 0 .. Archives, NEW a \in q[l], NEW b, Before(q, b, a)
  PROVE  l # 0 /\ b \in q[l - 1]
<1>1. PICK k \in 0 .. Archives : b \in q[k] /\ a \notin q[k]
  BY DEF Before
<1>2. ~(l <= k)
  BY <1>1, QueueIsMonotone
<1>3. l - 1 \in 0 .. Archives /\ k <= l - 1 /\ l # 0
  BY <1>2
<1>4. q[k] \subseteq q[l - 1]
  BY <1>3, QueueIsMonotone
<1> QED
  BY <1>1, <1>3, <1>4

LEMMA WayGoesOn ==
  ASSUME NEW pairs \in SUBSET (Numbers \X Numbers), NEW m, Distribution(m, pairs), NEW origin \in Numbers,
         origin \notin Owning(m), Archives \in Nat, NEW q, QueueHolds(q, m, pairs, origin),
         NEW A, NEW o, OnTheWay(A, o, m, pairs, origin, q), o # origin
  PROVE  LET b == P!Parent(pairs, m, q, o)
         IN OnTheWay(P!Given(A, P!Held(m, o), b), b, m, pairs, origin, q) /\ Before(q, b, o)
<1> DEFINE b == P!Parent(pairs, m, q, o)
           h == P!Held(m, o)
           B == P!Given(A, h, b)
<1>0. Archives \in 0 .. Archives /\ o \in q[Archives]
  BY DEF OnTheWay
<1>1. /\ h \in DOMAIN m /\ m[h] = o /\ b \in Numbers /\ <<b, h>> \in pairs /\ Before(q, b, o)
  BY <1>0, ParentIs
<1>2. /\ DOMAIN m \subseteq Numbers
      /\ \A d, e \in DOMAIN m : m[d] = m[e] => d = e
  BY DEF Distribution
<1>3. b # o /\ ~Before(q, o, b)
  BY <1>1, BeforeIsAnOrder
<1>4. b \in q[Archives]
  <2>1. Archives # 0 /\ b \in q[Archives - 1] /\ Archives - 1 \in 0 .. Archives
    BY <1>0, <1>1, BeforeIsQueued
  <2>2. q[Archives - 1] \subseteq q[Archives]
    BY <1>0, <2>1, QueueIsMonotone
  <2> QED
    BY <2>1, <2>2
<1>5. b # origin => P!Held(m, b) \in DOMAIN m /\ m[P!Held(m, b)] = b /\ P!Held(m, b) # h
  <2> HAVE b # origin
  <2>0. ASSUME NEW x \in q[Archives], x # origin PROVE P!Held(m, x) \in DOMAIN m /\ m[P!Held(m, x)] = x
    <3>1. PICK d \in DOMAIN m : m[d] = x
      BY <1>0, <2>0, QueueIsOfOwners
    <3>2. P!Held(m, x) = d
      BY <3>1, HeldIs
    <3> QED
      BY <3>1, <3>2
  <2>1. P!Held(m, b) \in DOMAIN m /\ m[P!Held(m, b)] = b
    BY <1>4, <2>0
  <2> QED
    BY <1>1, <1>3, <2>1
<1>6. /\ A \in Distributions
      /\ \A d \in DOMAIN A : <<A[d], d>> \in pairs
      /\ h \in DOMAIN A
      /\ \A d, e \in DOMAIN A \ {h} : A[d] = A[e] => d = e
      /\ {A[d] : d \in DOMAIN A \ {h}} = Owning(m)
      /\ \A d \in DOMAIN m : d \in DOMAIN A /\ (A[d] # m[d] => Before(q, o, m[d]))
  <2>1. Without(m, o, origin) = {h}
    BY DEF Without
  <2> QED
    BY <2>1 DEF OnTheWay
<1> HIDE DEF b, h
<1>7. /\ DOMAIN A \in SUBSET Numbers /\ A \in [DOMAIN A -> Numbers]
  <2>1. PICK given \in SUBSET Numbers : A \in [given -> Numbers]
    BY <1>6 DEF Distributions
  <2>2. DOMAIN A = given
    BY <2>1
  <2> QED
    BY <2>1, <2>2
<1>8. /\ DOMAIN B = DOMAIN A /\ B[h] = b /\ \A d \in DOMAIN A : d # h => B[d] = A[d]
      /\ B \in [DOMAIN A -> Numbers]
  <2>1. DOMAIN A \cup {h} = DOMAIN A
    BY <1>6
  <2>2. B = [x \in DOMAIN A |-> IF x = h THEN b ELSE A[x]]
    BY <2>1 DEF P!Given
  <2> QED
    BY <1>1, <1>6, <1>7, <2>2
<1>9. B \in Distributions
  BY <1>7, <1>8 DEF Distributions
<1> HIDE DEF B
<1>10. \A d \in DOMAIN B : <<B[d], d>> \in pairs
  BY <1>1, <1>6, <1>8
\* What the parent holds has not been passed on before.
<1>11. b # origin => P!Held(m, b) \in DOMAIN A /\ A[P!Held(m, b)] = b
  BY <1>3, <1>5, <1>6
<1>12. b = origin => \A d \in DOMAIN A \ {h} : A[d] # b
  BY <1>6
<1> DEFINE rest == DOMAIN B \ Without(m, b, origin)
<1>13. /\ b = origin => rest = DOMAIN A
       /\ b # origin => rest = DOMAIN A \ {P!Held(m, b)}
       /\ h \in rest
  BY <1>5, <1>6, <1>8 DEF Without
<1>14. \A d \in rest : d = h \/ (d \in DOMAIN A \ {h} /\ B[d] = A[d] /\ A[d] # b)
  <2> TAKE d \in rest
  <2>1. CASE d = h
    BY <2>1
  <2>2. CASE d # h /\ b = origin
    BY <1>8, <1>12, <1>13, <2>2
  <2>3. CASE d # h /\ b # origin
    <3>1. d \in DOMAIN A \ {h} /\ P!Held(m, b) \in DOMAIN A \ {h} /\ d # P!Held(m, b)
      BY <1>5, <1>11, <1>13, <2>3
    <3> QED
      BY <1>6, <1>8, <1>11, <2>3, <3>1
  <2> QED BY <2>1, <2>2, <2>3
<1>15. \A d, e \in rest : B[d] = B[e] => d = e
  BY <1>6, <1>8, <1>14
<1>16. {B[d] : d \in rest} = Owning(m) \cup (IF b = origin THEN {origin} ELSE {})
  <2>1. \A d \in rest : B[d] = b \/ B[d] \in Owning(m)
    BY <1>6, <1>8, <1>14
  <2>2. b # origin => b \in Owning(m)
    BY <1>5 DEF Owning
  <2>3. ASSUME NEW x \in Owning(m) PROVE \E d \in rest : B[d] = x
    <3>1. PICK d \in DOMAIN A \ {h} : A[d] = x
      BY <1>6, <2>3
    <3>2. CASE b # origin /\ d = P!Held(m, b)
      BY <1>8, <1>11, <1>13, <3>1, <3>2
    <3>3. CASE ~(b # origin /\ d = P!Held(m, b))
      BY <1>8, <1>13, <3>1, <3>3
    <3> QED BY <3>2, <3>3
  <2>4. \E d \in rest : B[d] = b
    BY <1>8, <1>13
  <2> HIDE DEF rest
  <2> QED
    BY <2>1, <2>2, <2>3, <2>4
<1>17. ASSUME NEW d \in DOMAIN m PROVE d \in DOMAIN B /\ (B[d] # m[d] => Before(q, b, m[d]))
  <2>1. CASE d = h
    BY <1>1, <1>6, <1>8, <2>1
  <2>2. CASE d # h
    <3>1. d \in DOMAIN A /\ (A[d] # m[d] => Before(q, o, m[d])) /\ B[d] = A[d] /\ d \in DOMAIN B
      BY <1>6, <1>8, <2>2
    <3>2. Before(q, o, m[d]) => Before(q, b, m[d])
      BY <1>1, BeforeIsAnOrder
    <3> QED BY <3>1, <3>2
  <2> QED BY <2>1, <2>2
<1>18. b # origin => P!Held(m, b) \in DOMAIN B /\ B[P!Held(m, b)] = b
  BY <1>5, <1>8, <1>11
<1> HIDE DEF rest
<1>19. OnTheWay(B, b, m, pairs, origin, q)
  BY <1>1, <1>4, <1>9, <1>10, <1>15, <1>16, <1>17, <1>18 DEF OnTheWay, rest
<1> QED
  BY <1>1, <1>19 DEF B, b, h

WayRecord == [owner : Numbers, assigned : Distributions]

LEMMA MovedTakes ==
  ASSUME NEW pairs \in SUBSET (Numbers \X Numbers), NEW m, Distribution(m, pairs), NEW origin \in Numbers,
         origin \notin Owning(m), Archives \in Nat, P!Found(pairs, m, origin) # {}
  PROVE  /\ Distribution(P!Moved(pairs, m, origin), pairs)
         /\ P!Moved(pairs, m, origin) \in Distributions
         /\ Owning(P!Moved(pairs, m, origin)) = Owning(m) \cup {origin}
<1> DEFINE found == CHOOSE p \in P!Found(pairs, m, origin) : TRUE
           q == P!Queue(pairs, m, origin)
           first == [owner |-> found[1], assigned |-> P!Given(m, found[2], found[1])]
           After(w) == IF w.owner = origin THEN w
                       ELSE [owner |-> P!Parent(pairs, m, q, w.owner),
                             assigned |-> P!Given(w.assigned, P!Held(m, w.owner), P!Parent(pairs, m, q, w.owner))]
           Follows(f) == f = [n \in 0 .. Archives |-> IF n = 0 THEN first ELSE After(f[n - 1])]
           way == CHOOSE f : Follows(f)
           S == [n \in 0 .. Archives |->
                   {w \in WayRecord : /\ OnTheWay(w.assigned, w.owner, m, pairs, origin, q)
                                      /\ w.owner = origin \/ w.owner \in q[Archives - n]}]
           step == [n \in 1 .. Archives |-> [w \in S[n - 1] |-> After(w)]]
<1>1. QueueHolds(q, m, pairs, origin)
  BY QueueGrows
<1>2. P!Moved(pairs, m, origin) = way[Archives].assigned
  BY Zenon DEF P!Moved
<1>3. found \in pairs /\ found[1] \in q[Archives] /\ found[2] \notin DOMAIN m
  <2>1. found \in P!Found(pairs, m, origin)
    OBVIOUS
  <2> QED
    BY <2>1 DEF P!Found
<1> HIDE DEF found, q
<1>4. OnTheWay(P!Given(m, found[2], found[1]), found[1], m, pairs, origin, q)
  BY <1>1, <1>3, WayBegins
<1>5. first \in S[0]
  <2>1. first \in WayRecord
    BY <1>4 DEF OnTheWay, WayRecord
  <2> QED
    BY <1>3, <1>4, <2>1
<1>6. ASSUME NEW n \in 1 .. Archives, NEW w \in S[n - 1] PROVE After(w) \in S[n]
  <2>0. n - 1 \in 0 .. Archives /\ n \in 0 .. Archives /\ Archives - (n - 1) \in 0 .. Archives
    OBVIOUS
  <2>1. /\ w \in WayRecord /\ OnTheWay(w.assigned, w.owner, m, pairs, origin, q)
        /\ w.owner = origin \/ w.owner \in q[Archives - (n - 1)]
    BY <2>0
  <2>2. CASE w.owner = origin
    BY <2>0, <2>1, <2>2
  <2>3. CASE w.owner # origin
    <3> DEFINE b == P!Parent(pairs, m, q, w.owner)
               B == P!Given(w.assigned, P!Held(m, w.owner), b)
    <3>1. OnTheWay(B, b, m, pairs, origin, q) /\ Before(q, b, w.owner)
      BY <1>1, <2>1, <2>3, WayGoesOn
    <3>2. After(w) = [owner |-> b, assigned |-> B]
      BY <2>3
    <3> HIDE DEF b, B
    <3>3. b \in q[(Archives - (n - 1)) - 1]
      BY <1>1, <2>0, <2>1, <2>3, <3>1, BeforeIsQueued
    <3>4. (Archives - (n - 1)) - 1 = Archives - n
      OBVIOUS
    <3>5. [owner |-> b, assigned |-> B] \in WayRecord
      BY <3>1 DEF OnTheWay, WayRecord
    <3>6. [owner |-> b, assigned |-> B] \in S[n]
      BY <2>0, <3>1, <3>3, <3>4, <3>5
    <3> QED
      BY <3>2, <3>6
  <2> QED BY <2>2, <2>3
<1>7. /\ \A n \in 1 .. Archives : step[n] \in [S[n - 1] -> S[n]]
      /\ \A n \in 1 .. Archives : \A w \in S[n - 1] : step[n][w] = After(w)
  BY <1>6
<1>8. \A w \in S[Archives] : OnTheWay(w.assigned, origin, m, pairs, origin, q)
  <2> TAKE w \in S[Archives]
  <2>1. Archives \in 0 .. Archives /\ Archives - Archives = 0
    OBVIOUS
  <2>2. OnTheWay(w.assigned, w.owner, m, pairs, origin, q) /\ (w.owner = origin \/ w.owner \in q[0])
    BY <2>1
  <2>3. w.owner = origin
    BY <1>1, <2>2 DEF QueueHolds
  <2> QED BY <2>2, <2>3
<1> HIDE DEF S, step, first, After
<1>9. PICK g : Iteration(g, Archives, first, step)
  BY <1>5, <1>7, IterationsExist
<1>10. /\ g = [n \in 0 .. Archives |-> g[n]] /\ g[0] = first
       /\ \A n \in 1 .. Archives : g[n] = step[n][g[n - 1]]
  BY <1>9, IterationMeans
<1>11. \A n \in 0 .. Archives : g[n] \in S[n]
  <2>1. ASSUME NEW n \in 1 .. Archives, g[n - 1] \in S[n - 1] PROVE g[n] \in S[n]
    <3>1. step[n][g[n - 1]] = After(g[n - 1]) /\ After(g[n - 1]) \in S[n]
      BY <1>6, <1>7, <2>1
    <3> QED BY <1>10, <3>1
  <2> QED BY <1>5, <1>10, <2>1, IterationsStay
<1>12. \A n \in 0 .. Archives : g[n] = IF n = 0 THEN first ELSE After(g[n - 1])
  <2> TAKE n \in 0 .. Archives
  <2>1. CASE n = 0
    BY <1>10, <2>1
  <2>2. CASE n # 0
    <3>1. n \in 1 .. Archives /\ n - 1 \in 0 .. Archives
      BY <2>2
    <3>2. g[n - 1] \in S[n - 1]
      BY <1>11, <3>1
    <3> QED BY <1>7, <1>10, <2>2, <3>1, <3>2
  <2> QED BY <2>1, <2>2
<1>13. Follows(g)
  BY <1>10, <1>12
<1>14. Follows(way)
  BY <1>13
<1> HIDE DEF way
<1>15. way[0] = first /\ \A n \in 1 .. Archives : way[n] = After(way[n - 1])
  <2>1. way = [n \in 0 .. Archives |-> IF n = 0 THEN first ELSE After(way[n - 1])]
    BY <1>14
  <2>2. 0 \in 0 .. Archives /\ \A n \in 1 .. Archives : n \in 0 .. Archives /\ n # 0
    OBVIOUS
  <2> QED BY <2>1, <2>2
<1>16. way[Archives] \in S[Archives]
  <2>1. ASSUME NEW n \in 1 .. Archives, way[n - 1] \in S[n - 1] PROVE way[n] \in S[n]
    BY <1>6, <1>15, <2>1
  <2>2. Archives \in 0 .. Archives
    OBVIOUS
  <2> QED BY <1>5, <1>15, <2>1, <2>2, IterationsStay
<1> DEFINE A == P!Moved(pairs, m, origin)
<1>17. OnTheWay(A, origin, m, pairs, origin, q)
  BY <1>2, <1>8, <1>16
<1> HIDE DEF A
<1>18. /\ A \in Distributions /\ \A d \in DOMAIN A : <<A[d], d>> \in pairs
       /\ \A d, e \in DOMAIN A : A[d] = A[e] => d = e
       /\ Owning(A) = Owning(m) \cup {origin}
  BY <1>17 DEF OnTheWay, Without, Owning
<1>19. DOMAIN A \in SUBSET Numbers /\ A \in [DOMAIN A -> Numbers]
  <2>1. PICK given \in SUBSET Numbers : A \in [given -> Numbers]
    BY <1>18 DEF Distributions
  <2>2. DOMAIN A = given
    BY <2>1
  <2> QED
    BY <2>1, <2>2
<1>20. Distribution(A, pairs)
  BY <1>18, <1>19 DEF Distribution
<1> QED
  BY <1>18, <1>20 DEF A

-----------------------------------------------------------------------------
(* All of them in turn.                                                    *)

LEMMA NobodyHasAnything ==
  ASSUME NEW pairs PROVE <<>> \in Distributions /\ Distribution(<<>>, pairs) /\ Owning(<<>>) = {}
<1>1. <<>> = [x \in {} |-> 0] /\ DOMAIN <<>> = {}
  OBVIOUS
<1>2. <<>> \in [{} -> Numbers] /\ {} \in SUBSET Numbers
  BY <1>1
<1> QED
  BY <1>1, <1>2 DEF Distributions, Distribution, Owning

\* After n archives, no other than the first n own anything.
LEMMA AssignedIs ==
  ASSUME NEW pairs \in SUBSET (Numbers \X Numbers), Archives \in Nat
  PROVE  /\ P!Assigned(pairs)[0] = <<>>
         /\ \A n \in 1 .. Archives :
              P!Assigned(pairs)[n] = IF P!Found(pairs, P!Assigned(pairs)[n - 1], n) = {}
                                       THEN P!Assigned(pairs)[n - 1]
                                       ELSE P!Moved(pairs, P!Assigned(pairs)[n - 1], n)
         /\ \A n \in 0 .. Archives : /\ Distribution(P!Assigned(pairs)[n], pairs)
                                     /\ Owning(P!Assigned(pairs)[n]) \subseteq 1 .. n
<1> DEFINE After(w, n) == IF P!Found(pairs, w, n) = {} THEN w ELSE P!Moved(pairs, w, n)
           Follows(f) == f = [n \in 0 .. Archives |-> IF n = 0 THEN <<>> ELSE After(f[n - 1], n)]
           S == [n \in 0 .. Archives |->
                   {w \in Distributions : Distribution(w, pairs) /\ Owning(w) \subseteq 1 .. n}]
           step == [n \in 1 .. Archives |-> [w \in S[n - 1] |-> After(w, n)]]
<1>1. P!Assigned(pairs) = CHOOSE f : Follows(f)
  BY DEF P!Assigned
<1>2. <<>> \in S[0]
  BY NobodyHasAnything
<1>3. ASSUME NEW n \in 1 .. Archives, NEW w \in S[n - 1] PROVE After(w, n) \in S[n]
  <2>0. n - 1 \in 0 .. Archives /\ n \in 0 .. Archives /\ n \in Numbers /\ n \notin 1 .. n - 1
        /\ 1 .. n - 1 \subseteq 1 .. n /\ n \in 1 .. n
    BY DEF Numbers
  <2>1. w \in Distributions /\ Distribution(w, pairs) /\ Owning(w) \subseteq 1 .. n - 1
    BY <2>0
  <2>2. CASE P!Found(pairs, w, n) = {}
    BY <2>0, <2>1, <2>2
  <2>3. CASE P!Found(pairs, w, n) # {}
    <3>1. n \notin Owning(w)
      BY <2>0, <2>1
    <3>2. /\ Distribution(P!Moved(pairs, w, n), pairs) /\ P!Moved(pairs, w, n) \in Distributions
          /\ Owning(P!Moved(pairs, w, n)) = Owning(w) \cup {n}
      BY <2>0, <2>1, <2>3, <3>1, MovedTakes
    <3>3. Owning(P!Moved(pairs, w, n)) \subseteq 1 .. n
      BY <2>0, <2>1, <3>2
    <3> QED
      BY <2>0, <2>3, <3>2, <3>3
  <2> QED BY <2>2, <2>3
<1>4. /\ \A n \in 1 .. Archives : step[n] \in [S[n - 1] -> S[n]]
      /\ \A n \in 1 .. Archives : \A w \in S[n - 1] : step[n][w] = After(w, n)
  BY <1>3
<1>5. \A n \in 0 .. Archives : \A w \in S[n] : Distribution(w, pairs) /\ Owning(w) \subseteq 1 .. n
  OBVIOUS
<1> HIDE DEF S, step, After
<1>6. PICK g : Iteration(g, Archives, <<>>, step)
  BY <1>2, <1>4, IterationsExist
<1>7. /\ g = [n \in 0 .. Archives |-> g[n]] /\ g[0] = <<>>
      /\ \A n \in 1 .. Archives : g[n] = step[n][g[n - 1]]
  BY <1>6, IterationMeans
<1>8. \A n \in 0 .. Archives : g[n] \in S[n]
  <2>1. ASSUME NEW n \in 1 .. Archives, g[n - 1] \in S[n - 1] PROVE g[n] \in S[n]
    <3>1. step[n][g[n - 1]] = After(g[n - 1], n) /\ After(g[n - 1], n) \in S[n]
      BY <1>3, <1>4, <2>1
    <3> QED BY <1>7, <3>1
  <2> QED BY <1>2, <1>7, <2>1, IterationsStay
<1>9. \A n \in 0 .. Archives : g[n] = IF n = 0 THEN <<>> ELSE After(g[n - 1], n)
  <2> TAKE n \in 0 .. Archives
  <2>1. CASE n = 0
    BY <1>7, <2>1
  <2>2. CASE n # 0
    <3>1. n \in 1 .. Archives /\ n - 1 \in 0 .. Archives
      BY <2>2
    <3>2. g[n - 1] \in S[n - 1]
      BY <1>8, <3>1
    <3> QED BY <1>4, <1>7, <2>2, <3>1, <3>2
  <2> QED BY <2>1, <2>2
<1>10. Follows(g)
  BY <1>7, <1>9
<1>11. PICK f : f = P!Assigned(pairs) /\ Follows(f)
  BY <1>1, <1>10
<1>12. f[0] = <<>> /\ \A n \in 1 .. Archives : f[n] = After(f[n - 1], n)
  <2>1. f = [n \in 0 .. Archives |-> IF n = 0 THEN <<>> ELSE After(f[n - 1], n)]
    BY <1>11
  <2>2. 0 \in 0 .. Archives /\ \A n \in 1 .. Archives : n \in 0 .. Archives /\ n # 0
    OBVIOUS
  <2> QED BY <2>1, <2>2
<1>13. \A n \in 0 .. Archives : f[n] \in S[n]
  <2>1. ASSUME NEW n \in 1 .. Archives, f[n - 1] \in S[n - 1] PROVE f[n] \in S[n]
    BY <1>3, <1>12, <2>1
  <2> QED BY <1>2, <1>12, <2>1, IterationsStay
<1>14. \A n \in 0 .. Archives : Distribution(f[n], pairs) /\ Owning(f[n]) \subseteq 1 .. n
  BY <1>5, <1>13
<1> QED
  BY <1>11, <1>12, <1>14 DEF After

LEMMA CoversIsOneToOne ==
  ASSUME NEW pairs \in SUBSET (Numbers \X Numbers), Archives \in Nat
  PROVE  P!Covers(pairs) <=> P!OneToOne(pairs)
<1> DEFINE f == P!Assigned(pairs)
<1>1. /\ f[0] = <<>>
      /\ \A n \in 1 .. Archives : P!Found(pairs, f[n - 1], n) # {} => f[n] = P!Moved(pairs, f[n - 1], n)
      /\ \A n \in 0 .. Archives : Distribution(f[n], pairs) /\ Owning(f[n]) \subseteq 1 .. n
  BY AssignedIs
<1>2. P!Covers(pairs) <=> \A n \in 1 .. Archives : P!Found(pairs, f[n - 1], n) # {}
  BY DEF P!Covers
<1> HIDE DEF f
<1>3. ASSUME P!OneToOne(pairs), NEW n \in 1 .. Archives PROVE P!Found(pairs, f[n - 1], n) # {}
  <2>1. n - 1 \in 0 .. Archives /\ n \in Numbers /\ n \notin 1 .. n - 1
    BY DEF Numbers
  <2>2. Distribution(f[n - 1], pairs) /\ n \notin Owning(f[n - 1])
    BY <1>1, <2>1
  <2> QED
    BY <1>3, <2>1, <2>2, SomethingIsFound
<1>4. ASSUME \A n \in 1 .. Archives : P!Found(pairs, f[n - 1], n) # {} PROVE P!OneToOne(pairs)
  <2> DEFINE S == [n \in 0 .. Archives |-> {w \in {f[k] : k \in 0 .. Archives} : Owning(w) = 1 .. n}]
  <2>1. f[0] \in S[0]
    <3>1. Owning(f[0]) = {} /\ 1 .. 0 = {}
      BY <1>1, NobodyHasAnything
    <3>2. 0 \in 0 .. Archives
      OBVIOUS
    <3> QED BY <3>1, <3>2
  <2>2. ASSUME NEW n \in 1 .. Archives, f[n - 1] \in S[n - 1] PROVE f[n] \in S[n]
    <3>1. n - 1 \in 0 .. Archives /\ n \in 0 .. Archives /\ n \in Numbers /\ n \notin 1 .. n - 1
          /\ (1 .. n - 1) \cup {n} = 1 .. n
      BY DEF Numbers
    <3>2. Owning(f[n - 1]) = 1 .. n - 1
      BY <2>2, <3>1
    <3>3. Distribution(f[n - 1], pairs) /\ n \notin Owning(f[n - 1]) /\ P!Found(pairs, f[n - 1], n) # {}
      BY <1>1, <1>4, <3>1, <3>2
    <3>4. Owning(P!Moved(pairs, f[n - 1], n)) = Owning(f[n - 1]) \cup {n}
      BY <3>1, <3>3, MovedTakes
    <3>5. Owning(f[n]) = 1 .. n
      BY <1>1, <3>1, <3>2, <3>3, <3>4
    <3> QED BY <3>1, <3>5
  <2>3. f[Archives] \in S[Archives]
    <3>1. Archives \in 0 .. Archives
      OBVIOUS
    <3> HIDE DEF S
    <3> QED BY <2>1, <2>2, <3>1, IterationsStay
  <2>4. Owning(f[Archives]) = Numbers /\ Distribution(f[Archives], pairs)
    <3>1. Archives \in 0 .. Archives
      OBVIOUS
    <3> QED BY <1>1, <2>3, <3>1 DEF Numbers
  <2> DEFINE m == f[Archives]
             g == [a \in Numbers |-> P!Held(m, a)]
  <2> HIDE DEF m
  <2>5. ASSUME NEW a \in Numbers PROVE P!Held(m, a) \in DOMAIN m /\ m[P!Held(m, a)] = a
    <3>1. \E d \in DOMAIN m : m[d] = a
      BY <2>4 DEF Owning, m
    <3> QED BY <3>1 DEF P!Held
  <2>6. DOMAIN m \subseteq Numbers /\ \A d \in DOMAIN m : <<m[d], d>> \in pairs
    BY <2>4 DEF Distribution, m
  <2>7. g \in [Numbers -> Numbers] /\ \A a \in Numbers : <<a, g[a]>> \in pairs
    BY <2>5, <2>6
  <2>8. \A a, b \in Numbers : g[a] = g[b] => a = b
    BY <2>5
  <2> HIDE DEF g
  <2> QED
    BY <2>7, <2>8 DEF P!OneToOne, Numbers
<1> QED
  BY <1>2, <1>3, <1>4

-----------------------------------------------------------------------------
(* Selections.  What is known of the files, of the command, of what is    *)
(* visible.                                                                *)

DiskIsKnown(fs, count) ==
  /\ count \in Nat
  /\ fs = [l \in P!Leaves |-> fs[l]]
  /\ \A t \in Targets : fs[t].version \in Nat /\ fs[t].version <= count
  /\ fs["submissions"].says.pairs \in SUBSET (Numbers \X Numbers)

CommandOf(kind, pc, producer, got, staged) ==
  [kind |-> kind, pc |-> pc, producer |-> producer, got |-> got, staged |-> staged]

RowsMade(version) == P!Parquet(P!Reselected(P!RowsOf(version), P!Event))

\* The policy names what was read, and sources the program had since it was started.
PolicyIsRead(got, producer, sources) ==
  /\ \A t \in Targets : got["policy"].says.of[t] = got[t].version
  /\ got["policy"].says.of["raw"] = got["raw"].version
  /\ got["policy"].says.code \in Nat
  /\ producer <= got["policy"].says.code /\ got["policy"].says.code <= sources

StagedIsLater(j, fs) ==
  \A t \in DOMAIN j.staged :
    /\ j.staged[t].rows = RowsMade(j.staged[t].version)
    /\ j.staged[t].version \in Nat
    /\ j.got[t].version <= j.staged[t].version /\ j.staged[t].version <= fs[t].version

Proven == {"stage", "recheck", "commit"}

CommandIsKnown(j, fs, sources, chosen) ==
  /\ j = CommandOf(j.kind, j.pc, j.producer, j.got, j.staged)
  /\ j.pc \in {"idle", "pin", "incomplete", "refused", "replay"} \cup Proven
  /\ DOMAIN j.staged \subseteq Targets
  /\ j.pc # "idle" => j.producer \in Nat /\ j.producer <= sources
  /\ j.pc \in {"pin", "replay"} => DOMAIN j.staged = {}
  /\ j.pc = "pin" => DOMAIN j.got = {}
  /\ j.pc = "replay" => DOMAIN j.got = P!Pinned \cup P!Plans \cup {"submissions"}
  /\ j.pc = "incomplete" => ~P!OneToOne(j.got["submissions"].says.pairs)
  /\ j.pc \in {"replay"} \cup Proven => P!OneToOne(j.got["submissions"].says.pairs)
  /\ j.pc \in Proven =>
       /\ DOMAIN j.got = P!Leaves
       /\ \A t \in Targets : j.got[t].version \in Nat /\ j.got[t].version <= fs[t].version
       /\ PolicyIsRead(j.got, j.producer, sources)
       /\ j.kind = "batch" => chosen.controls = P!Versions(j.got)
       /\ StagedIsLater(j, fs)
  /\ j.pc = "commit" =>
       /\ j.got["policy"].says.code = j.producer
       /\ \A t \in DOMAIN j.staged : j.staged[t].version = j.got[t].version

VisibleIsKnown(shelves, chosen) ==
  /\ shelves = [t \in Targets |-> shelves[t]]
  /\ \A t \in Targets : shelves[t].version # -1 =>
       /\ shelves[t].version = shelves[t].policy.of[t]
       /\ shelves[t].raw = shelves[t].policy.of["raw"]
       /\ shelves[t].producer = shelves[t].policy.code
       /\ shelves[t].rows = RowsMade(shelves[t].version)
       /\ chosen.controls # <<>> /\ chosen.controls[t] = shelves[t].version

SelectionInv ==
  /\ DiskIsKnown(disk, replaced) /\ code \in Nat
  /\ CommandIsKnown(command, disk, code, selection)
  /\ VisibleIsKnown(visible, selection)

LEMMA LeavesAre ==
  /\ Targets \subseteq P!Leaves /\ Targets \subseteq P!Pinned
  /\ {"policy", "history", "submissions", "raw"} \subseteq P!Leaves
  /\ "submissions" \notin P!Pinned \cup {"raw"} /\ "policy" \in P!Pinned
  /\ P!Leaves = P!Pinned \cup P!Plans \cup {"submissions", "raw"}
  /\ P!Leaves = (P!Pinned \cup P!Plans \cup {"submissions"}) \cup (P!Pinned \cup {"raw"})
  /\ "submissions" \notin Targets /\ "policy" \notin Targets /\ "raw" \notin Targets
  /\ \A t \in Targets : t \notin P!Plans
  BY SelectionAssumption DEF P!Leaves, P!Pinned, P!Plans

LEMMA NoCommand ==
  ASSUME NEW fs, NEW sources, NEW chosen
  PROVE  CommandIsKnown(P!NoJob, fs, sources, chosen)
<1>1. /\ P!NoJob.pc = "idle" /\ P!NoJob.staged = <<>>
      /\ P!NoJob = CommandOf(P!NoJob.kind, P!NoJob.pc, P!NoJob.producer, P!NoJob.got, P!NoJob.staged)
  BY DEF P!NoJob, CommandOf
<1>2. DOMAIN <<>> = {}
  OBVIOUS
<1>3. DOMAIN P!NoJob.staged \subseteq Targets
  BY <1>1, <1>2
<1> QED
  BY <1>1, <1>3 DEF CommandIsKnown, Proven

LEMMA SelectionsStart == P!Init => SelectionInv
<1> SUFFICES ASSUME P!Init PROVE SelectionInv
  OBVIOUS
<1>1. DiskIsKnown(disk, replaced)
  <2> DEFINE Says(l) == CASE l \in P!Plans -> "eligible"
                           [] l = "submissions" -> [more |-> FALSE, pairs |-> P!Diagonal]
                           [] l = "policy" -> P!Approval([x \in Targets \cup {"raw"} |-> 0], 1)
                           [] OTHER -> P!NoKind
  <2>1. disk = [l \in P!Leaves |-> [version |-> 0, says |-> Says(l)]] /\ replaced = 0
    BY DEF P!Init
  <2>2. Says("submissions") = [more |-> FALSE, pairs |-> P!Diagonal]
    BY DEF P!Plans
  <2>3. P!Diagonal \in SUBSET (Numbers \X Numbers)
    BY DEF P!Diagonal, Numbers
  <2> HIDE DEF Says
  <2>4. \A l \in P!Leaves : disk[l].version = 0 /\ disk[l].says = Says(l)
    BY <2>1
  <2>5. disk["submissions"].says.pairs = P!Diagonal
    <3>1. "submissions" \in P!Leaves
      BY LeavesAre
    <3>2. disk["submissions"].says = Says("submissions")
      BY <2>4, <3>1
    <3> QED
      BY <2>2, <3>2
  <2>6. \A t \in Targets : disk[t].version = 0
    <3>1. Targets \subseteq P!Leaves
      BY LeavesAre
    <3> QED
      BY <2>4, <3>1
  <2>7. disk = [l \in P!Leaves |-> disk[l]]
    BY <2>1
  <2> QED
    BY <2>1, <2>3, <2>5, <2>6, <2>7 DEF DiskIsKnown
<1>2. code \in Nat /\ command = P!NoJob
  BY DEF P!Init
<1>3. CommandIsKnown(command, disk, code, selection)
  BY <1>2, NoCommand
<1>4. VisibleIsKnown(visible, selection)
  <2>1. visible = [t \in Targets |-> P!Nowhere] /\ P!Nowhere.version = -1
    BY DEF P!Init, P!Nowhere
  <2> QED
    BY <2>1 DEF VisibleIsKnown
<1> QED
  BY <1>1, <1>2, <1>3, <1>4 DEF SelectionInv

LEMMA CommandReads ==
  ASSUME NEW j, j = CommandOf(j.kind, j.pc, j.producer, j.got, j.staged), NEW a, NEW b
  PROVE  [j EXCEPT !.got = a, !.pc = b] = CommandOf(j.kind, b, j.producer, a, j.staged)
<1>1. PICK kind, pc, producer, got, staged :
        kind = j.kind /\ pc = j.pc /\ producer = j.producer /\ got = j.got /\ staged = j.staged
  OBVIOUS
<1>2. j = CommandOf(kind, pc, producer, got, staged)
  BY <1>1
<1>3. [j EXCEPT !.got = a, !.pc = b] = [[j EXCEPT !.got = a] EXCEPT !.pc = b]
  BY Zenon
<1>4. [j EXCEPT !.got = a] = CommandOf(kind, pc, producer, a, staged)
  BY <1>2 DEF CommandOf
<1>5. [CommandOf(kind, pc, producer, a, staged) EXCEPT !.pc = b] = CommandOf(kind, b, producer, a, staged)
  BY DEF CommandOf
<1>6. [j EXCEPT !.got = a, !.pc = b] = CommandOf(kind, b, producer, a, staged)
  BY <1>3, <1>4, <1>5, Zenon
<1> QED
  BY <1>1, <1>6, Zenon

LEMMA CommandStages ==
  ASSUME NEW j, j = CommandOf(j.kind, j.pc, j.producer, j.got, j.staged), NEW a, NEW b
  PROVE  [j EXCEPT !.staged = a, !.pc = b] = CommandOf(j.kind, b, j.producer, j.got, a)
<1>1. PICK kind, pc, producer, got, staged :
        kind = j.kind /\ pc = j.pc /\ producer = j.producer /\ got = j.got /\ staged = j.staged
  OBVIOUS
<1>2. j = CommandOf(kind, pc, producer, got, staged)
  BY <1>1
<1>3. [j EXCEPT !.staged = a, !.pc = b] = [[j EXCEPT !.staged = a] EXCEPT !.pc = b]
  BY Zenon
<1>4. [j EXCEPT !.staged = a] = CommandOf(kind, pc, producer, got, a)
  BY <1>2 DEF CommandOf
<1>5. [CommandOf(kind, pc, producer, got, a) EXCEPT !.pc = b] = CommandOf(kind, b, producer, got, a)
  BY DEF CommandOf
<1>6. [j EXCEPT !.staged = a, !.pc = b] = CommandOf(kind, b, producer, got, a)
  BY <1>3, <1>4, <1>5, Zenon
<1> QED
  BY <1>1, <1>6, Zenon

LEMMA CommandMoves ==
  ASSUME NEW j, j = CommandOf(j.kind, j.pc, j.producer, j.got, j.staged), NEW a
  PROVE  [j EXCEPT !.pc = a] = CommandOf(j.kind, a, j.producer, j.got, j.staged)
  BY DEF CommandOf

LEMMA CommandLeaves ==
  ASSUME NEW j, j = CommandOf(j.kind, j.pc, j.producer, j.got, j.staged), NEW a
  PROVE  [j EXCEPT !.staged = a] = CommandOf(j.kind, j.pc, j.producer, j.got, a)
  BY DEF CommandOf

\* Files, sources and selections that only move on take nothing away.
LEMMA CommandStays ==
  ASSUME NEW j, NEW fs, NEW sources \in Nat, NEW chosen, CommandIsKnown(j, fs, sources, chosen),
         NEW fs2, NEW sources2 \in Nat, NEW chosen2, sources <= sources2,
         \A t \in Targets : /\ fs[t].version \in Nat /\ fs2[t].version \in Nat
                            /\ fs[t].version <= fs2[t].version,
         j.kind = "batch" /\ j.pc \in Proven => chosen2.controls = chosen.controls
  PROVE  CommandIsKnown(j, fs2, sources2, chosen2)
<1>1. j.pc # "idle" => j.producer \in Nat /\ j.producer <= sources2
  BY DEF CommandIsKnown
<1>2. ASSUME j.pc \in Proven
      PROVE  /\ \A t \in Targets : j.got[t].version \in Nat /\ j.got[t].version <= fs2[t].version
             /\ PolicyIsRead(j.got, j.producer, sources2)
             /\ j.kind = "batch" => chosen2.controls = P!Versions(j.got)
             /\ StagedIsLater(j, fs2)
  <2>1. /\ \A t \in Targets : j.got[t].version \in Nat /\ j.got[t].version <= fs[t].version
        /\ PolicyIsRead(j.got, j.producer, sources)
        /\ j.kind = "batch" => chosen.controls = P!Versions(j.got)
        /\ StagedIsLater(j, fs) /\ DOMAIN j.staged \subseteq Targets
    BY <1>2 DEF CommandIsKnown
  <2>2. PolicyIsRead(j.got, j.producer, sources2)
    BY <2>1 DEF PolicyIsRead
  <2>3. StagedIsLater(j, fs2)
    BY <2>1 DEF StagedIsLater
  <2> QED
    BY <1>2, <2>1, <2>2, <2>3
<1> QED
  BY <1>1, <1>2 DEF CommandIsKnown

LEMMA VisibleStays ==
  ASSUME NEW shelves, NEW chosen, VisibleIsKnown(shelves, chosen), NEW chosen2,
         chosen.controls # <<>> => chosen2 = chosen
  PROVE  VisibleIsKnown(shelves, chosen2)
  BY DEF VisibleIsKnown

-----------------------------------------------------------------------------
(* The command's steps.                                                    *)

LEMMA StartCommandStep ==
  ASSUME NEW kind, SelectionInv, P!Start(kind) PROVE SelectionInv'
<1>1. /\ command' = [P!NoJob EXCEPT !.kind = kind, !.pc = "pin", !.producer = code]
      /\ UNCHANGED <<disk, code, replaced, selection, visible>>
  BY DEF P!Start, P!OnDisk
<1>2. command' = CommandOf(kind, "pin", code, <<>>, <<>>)
  <2> DEFINE n == P!NoJob
  <2>1. n = CommandOf(P!NoKind, "idle", 0, <<>>, <<>>)
    BY DEF P!NoJob, CommandOf
  <2> HIDE DEF n
  <2>2. [n EXCEPT !.kind = kind, !.pc = "pin", !.producer = code] =
          [[[n EXCEPT !.kind = kind] EXCEPT !.pc = "pin"] EXCEPT !.producer = code]
    BY Zenon
  <2>3. [CommandOf(P!NoKind, "idle", 0, <<>>, <<>>) EXCEPT !.kind = kind] = CommandOf(kind, "idle", 0, <<>>, <<>>)
    BY DEF CommandOf
  <2>4. [CommandOf(kind, "idle", 0, <<>>, <<>>) EXCEPT !.pc = "pin"] = CommandOf(kind, "pin", 0, <<>>, <<>>)
    BY DEF CommandOf
  <2>5. [CommandOf(kind, "pin", 0, <<>>, <<>>) EXCEPT !.producer = code] = CommandOf(kind, "pin", code, <<>>, <<>>)
    BY DEF CommandOf
  <2> QED
    BY <1>1, <2>1, <2>2, <2>3, <2>4, <2>5, Zenon DEF n
<1>3. PICK j : j = CommandOf(kind, "pin", code, <<>>, <<>>)
  OBVIOUS
<1>4. /\ j.kind = kind /\ j.pc = "pin" /\ j.producer = code /\ j.got = <<>> /\ j.staged = <<>>
      /\ j = CommandOf(j.kind, j.pc, j.producer, j.got, j.staged)
  BY <1>3 DEF CommandOf
<1>5. DOMAIN j.staged = {} /\ DOMAIN j.got = {}
  BY <1>4
<1>6. CommandIsKnown(j, disk, code, selection)
  <2>1. code \in Nat /\ code <= code
    BY DEF SelectionInv
  <2> QED
    BY <1>4, <1>5, <2>1 DEF CommandIsKnown, Proven
<1>7. CommandIsKnown(command, disk, code, selection)'
  BY <1>1, <1>2, <1>3, <1>6
<1> QED
  BY <1>1, <1>7 DEF SelectionInv

LEMMA PinStep == SelectionInv /\ P!Pin => SelectionInv'
<1> SUFFICES ASSUME SelectionInv, P!Pin PROVE SelectionInv'
  OBVIOUS
<1> DEFINE got == P!Reads(P!Pinned \cup P!Plans \cup {"submissions"})
           pc == IF ~P!Covers(got["submissions"].says.pairs) THEN "incomplete"
                 ELSE IF /\ \A l \in P!Pinned : got[l].version = selecting[l]
                         /\ \A l \in P!Plans : got[l].says = "eligible"
                         /\ ~got["submissions"].says.more
                      THEN "replay" ELSE "refused"
<1>1. /\ command.pc = "pin" /\ command' = [command EXCEPT !.got = got, !.pc = pc]
      /\ UNCHANGED <<disk, code, replaced, selection, visible>>
  BY DEF P!Pin, P!OnDisk
<1>2. /\ command = CommandOf(command.kind, command.pc, command.producer, command.got, command.staged)
      /\ command.producer \in Nat /\ command.producer <= code
      /\ DOMAIN command.staged = {} /\ DOMAIN command.got = {}
  BY <1>1 DEF SelectionInv, CommandIsKnown
<1>3. /\ DOMAIN got = P!Pinned \cup P!Plans \cup {"submissions"}
      /\ got["submissions"] = disk["submissions"]
  BY <1>2 DEF P!Reads
<1>4. got["submissions"].says.pairs \in SUBSET (Numbers \X Numbers)
  BY <1>3 DEF SelectionInv, DiskIsKnown
<1>5. /\ pc \in {"incomplete", "replay", "refused"}
      /\ pc = "incomplete" => ~P!OneToOne(got["submissions"].says.pairs)
      /\ pc = "replay" => P!OneToOne(got["submissions"].says.pairs)
  BY <1>4, CoversIsOneToOne, SelectionAssumption
<1> HIDE DEF got, pc
<1>6. PICK j : j = CommandOf(command.kind, pc, command.producer, got, command.staged)
  OBVIOUS
<1>7. command' = j
  <2>1. command = CommandOf(command.kind, command.pc, command.producer, command.got, command.staged)
    BY <1>2
  <2>2. [command EXCEPT !.got = got, !.pc = pc] =
          CommandOf(command.kind, pc, command.producer, got, command.staged)
    BY <2>1, CommandReads
  <2> QED
    BY <1>1, <1>6, <2>2, Zenon
<1>8. /\ j.kind = command.kind /\ j.pc = pc /\ j.producer = command.producer /\ j.got = got
      /\ j.staged = command.staged /\ j = CommandOf(j.kind, j.pc, j.producer, j.got, j.staged)
  BY <1>6 DEF CommandOf
<1>9. CommandIsKnown(j, disk, code, selection)
  BY <1>2, <1>3, <1>5, <1>8 DEF CommandIsKnown, Proven
<1>10. CommandIsKnown(command, disk, code, selection)'
  BY <1>1, <1>7, <1>9
<1> QED
  BY <1>1, <1>10 DEF SelectionInv

LEMMA ReplayStep == SelectionInv /\ P!Replay => SelectionInv'
<1> SUFFICES ASSUME SelectionInv, P!Replay PROVE SelectionInv'
  OBVIOUS
<1> DEFINE got == P!Reads(P!Pinned \cup {"raw"})
           Holds == /\ \A l \in Targets \cup {"history"} : got[l].version = selecting[l]
                    /\ P!Approves(got, code)
                    /\ command.kind = "batch" => selection.controls = P!Versions(got)
           pc == IF Holds THEN IF command.kind = "batch" THEN "stage" ELSE "recheck" ELSE "refused"
<1>1. /\ command.pc = "replay" /\ command' = [command EXCEPT !.got = got, !.pc = pc]
      /\ UNCHANGED <<disk, code, replaced, selection, visible>>
  BY DEF P!Replay, P!OnDisk
<1>2. /\ command = CommandOf(command.kind, command.pc, command.producer, command.got, command.staged)
      /\ command.producer \in Nat /\ command.producer <= code /\ code \in Nat
      /\ DOMAIN command.staged = {} /\ DOMAIN command.got = P!Pinned \cup P!Plans \cup {"submissions"}
      /\ P!OneToOne(command.got["submissions"].says.pairs)
  BY <1>1 DEF SelectionInv, CommandIsKnown
<1>3. /\ DOMAIN got = P!Leaves
      /\ \A l \in P!Pinned \cup {"raw"} : got[l] = disk[l]
      /\ got["submissions"] = command.got["submissions"]
  <2>1. got = [l \in (P!Pinned \cup P!Plans \cup {"submissions"}) \cup (P!Pinned \cup {"raw"}) |->
                 IF l \in P!Pinned \cup {"raw"} THEN disk[l] ELSE command.got[l]]
    BY <1>2 DEF P!Reads
  <2> QED
    BY <2>1, LeavesAre
<1>4. \A t \in Targets : got[t].version \in Nat /\ got[t].version <= disk[t].version
  <2>1. \A t \in Targets : got[t] = disk[t] /\ disk[t].version \in Nat
    BY <1>3, LeavesAre DEF SelectionInv, DiskIsKnown
  <2> QED
    BY <2>1
<1>5. /\ pc \in {"stage", "recheck", "refused"}
      /\ pc # "refused" => P!Approves(got, code) /\ (command.kind = "batch" => selection.controls = P!Versions(got))
  OBVIOUS
<1> HIDE DEF got, pc, Holds
<1>6. ASSUME P!Approves(got, code) PROVE PolicyIsRead(got, command.producer, code)
  <2> DEFINE chosen == [l \in Targets \cup {"raw"} |-> got[l]]
  <2>1. got["policy"].says = [of |-> P!Versions(chosen), code |-> code]
    BY <1>6 DEF P!Approves, P!Approval
  <2>2. P!Versions(chosen) = [l \in Targets \cup {"raw"} |-> got[l].version]
    BY DEF P!Versions
  <2> HIDE DEF chosen
  <2>3. /\ \A t \in Targets : got["policy"].says.of[t] = got[t].version
        /\ got["policy"].says.of["raw"] = got["raw"].version
        /\ got["policy"].says.code = code
    BY <2>1, <2>2
  <2>4. code \in Nat /\ command.producer <= code /\ code <= code
    BY <1>2
  <2> QED
    BY <2>3, <2>4 DEF PolicyIsRead
<1>7. PICK j : j = CommandOf(command.kind, pc, command.producer, got, command.staged)
  OBVIOUS
<1>8. command' = j
  <2>1. command = CommandOf(command.kind, command.pc, command.producer, command.got, command.staged)
    BY <1>2
  <2>2. [command EXCEPT !.got = got, !.pc = pc] =
          CommandOf(command.kind, pc, command.producer, got, command.staged)
    BY <2>1, CommandReads
  <2> QED
    BY <1>1, <1>7, <2>2, Zenon
<1>9. /\ j.kind = command.kind /\ j.pc = pc /\ j.producer = command.producer /\ j.got = got
      /\ j.staged = command.staged /\ j = CommandOf(j.kind, j.pc, j.producer, j.got, j.staged)
  BY <1>7 DEF CommandOf
<1>10. StagedIsLater(j, disk)
  BY <1>2, <1>9 DEF StagedIsLater
<1>11. CommandIsKnown(j, disk, code, selection)
  BY <1>2, <1>3, <1>4, <1>5, <1>6, <1>9, <1>10 DEF CommandIsKnown, Proven
<1>12. CommandIsKnown(command, disk, code, selection)'
  BY <1>1, <1>8, <1>11
<1> QED
  BY <1>1, <1>12 DEF SelectionInv

LEMMA StageTargetStep ==
  ASSUME NEW t \in Targets, SelectionInv, P!StageTarget(t) PROVE SelectionInv'
<1> DEFINE row == [version |-> disk[t].version, rows |-> RowsMade(disk[t].version)]
           staged == [x \in DOMAIN command.staged \cup {t} |-> IF x = t THEN row ELSE command.staged[x]]
           pc == IF DOMAIN staged = Targets THEN "recheck" ELSE "stage"
<1>1. /\ command.pc = "stage" /\ command' = [command EXCEPT !.staged = staged, !.pc = pc]
      /\ UNCHANGED <<disk, code, replaced, selection, visible>>
  BY DEF P!StageTarget, P!OnDisk, RowsMade
<1>2. /\ command = CommandOf(command.kind, command.pc, command.producer, command.got, command.staged)
      /\ CommandIsKnown(command, disk, code, selection) /\ code \in Nat
      /\ DOMAIN command.staged \subseteq Targets /\ StagedIsLater(command, disk)
      /\ command.got[t].version \in Nat /\ command.got[t].version <= disk[t].version
      /\ disk[t].version \in Nat
  BY <1>1 DEF SelectionInv, CommandIsKnown, Proven, DiskIsKnown
<1>3. /\ DOMAIN staged = DOMAIN command.staged \cup {t} /\ pc \in {"stage", "recheck"}
      /\ \A x \in DOMAIN staged : staged[x] = IF x = t THEN row ELSE command.staged[x]
      /\ row.version = disk[t].version /\ row.rows = RowsMade(row.version)
  OBVIOUS
<1> HIDE DEF staged, pc, row
<1>4. PICK j : j = CommandOf(command.kind, pc, command.producer, command.got, staged)
  OBVIOUS
<1>5. command' = j
  <2>1. command = CommandOf(command.kind, command.pc, command.producer, command.got, command.staged)
    BY <1>2
  <2>2. [command EXCEPT !.staged = staged, !.pc = pc] =
          CommandOf(command.kind, pc, command.producer, command.got, staged)
    BY <2>1, CommandStages
  <2> QED
    BY <1>1, <1>4, <2>2, Zenon
<1>6. /\ j.kind = command.kind /\ j.pc = pc /\ j.producer = command.producer /\ j.got = command.got
      /\ j.staged = staged /\ j = CommandOf(j.kind, j.pc, j.producer, j.got, j.staged)
  BY <1>4 DEF CommandOf
<1>7. StagedIsLater(j, disk)
  <2> SUFFICES ASSUME NEW x \in DOMAIN staged
               PROVE  /\ staged[x].rows = RowsMade(staged[x].version) /\ staged[x].version \in Nat
                      /\ command.got[x].version <= staged[x].version /\ staged[x].version <= disk[x].version
    BY <1>6 DEF StagedIsLater
  <2>1. CASE x = t
    BY <1>2, <1>3, <2>1
  <2>2. CASE x # t
    BY <1>2, <1>3, <2>2 DEF StagedIsLater
  <2> QED BY <2>1, <2>2
<1>8. CommandIsKnown(j, disk, code, selection)
  BY <1>1, <1>2, <1>3, <1>6, <1>7 DEF CommandIsKnown, Proven
<1>9. CommandIsKnown(command, disk, code, selection)'
  BY <1>1, <1>5, <1>8
<1> QED
  BY <1>1, <1>9 DEF SelectionInv

\* A command that only goes on to something it does not have to prove.
LEMMA RecheckStep == SelectionInv /\ P!Recheck => SelectionInv'
<1> SUFFICES ASSUME SelectionInv, P!Recheck PROVE SelectionInv'
  OBVIOUS
<1> DEFINE pc == IF P!StillHolds(command.got, command.producer) THEN "commit" ELSE "refused"
<1>1. /\ command.pc = "recheck" /\ command' = [command EXCEPT !.pc = pc]
      /\ UNCHANGED <<disk, code, replaced, selection, visible>>
  BY DEF P!Recheck, P!Goto, P!OnDisk
<1>2. /\ command = CommandOf(command.kind, command.pc, command.producer, command.got, command.staged)
      /\ CommandIsKnown(command, disk, code, selection) /\ code \in Nat
      /\ DOMAIN command.staged \subseteq Targets /\ StagedIsLater(command, disk)
      /\ PolicyIsRead(command.got, command.producer, code)
      /\ \A t \in Targets : command.got[t].version \in Nat /\ disk[t].version \in Nat
      /\ DOMAIN command.got = P!Leaves /\ command.producer \in Nat
  BY <1>1 DEF SelectionInv, CommandIsKnown, Proven, DiskIsKnown
<1>3. ASSUME P!StillHolds(command.got, command.producer)
      PROVE  /\ command.got["policy"].says.code = command.producer
             /\ \A t \in DOMAIN command.staged : command.staged[t].version = command.got[t].version
  <2>1. code = command.producer /\ \A l \in P!Leaves : disk[l].version = command.got[l].version
    BY <1>2, <1>3 DEF P!StillHolds
  <2>2. command.got["policy"].says.code = command.producer
    BY <1>2, <2>1 DEF PolicyIsRead
  <2>3. ASSUME NEW t \in DOMAIN command.staged PROVE command.staged[t].version = command.got[t].version
    <3>1. t \in Targets /\ disk[t].version = command.got[t].version
      BY <1>2, <2>1, LeavesAre
    <3>2. /\ command.got[t].version <= command.staged[t].version
          /\ command.staged[t].version <= disk[t].version /\ command.staged[t].version \in Nat
      BY <1>2 DEF StagedIsLater
    <3> QED BY <1>2, <3>1, <3>2
  <2> QED BY <2>2, <2>3
<1>4. pc \in {"commit", "refused"} /\ (pc = "commit" => P!StillHolds(command.got, command.producer))
  OBVIOUS
<1> HIDE DEF pc
<1>5. PICK j : j = CommandOf(command.kind, pc, command.producer, command.got, command.staged)
  OBVIOUS
<1>6. command' = j
  <2>1. command = CommandOf(command.kind, command.pc, command.producer, command.got, command.staged)
    BY <1>2
  <2>2. [command EXCEPT !.pc = pc] = CommandOf(command.kind, pc, command.producer, command.got, command.staged)
    BY <2>1, CommandMoves
  <2> QED
    BY <1>1, <1>5, <2>2, Zenon
<1>7. /\ j.kind = command.kind /\ j.pc = pc /\ j.producer = command.producer /\ j.got = command.got
      /\ j.staged = command.staged /\ j = CommandOf(j.kind, j.pc, j.producer, j.got, j.staged)
  BY <1>5 DEF CommandOf
<1>8. StagedIsLater(j, disk)
  BY <1>2, <1>7 DEF StagedIsLater
<1>9. CommandIsKnown(j, disk, code, selection)
  BY <1>1, <1>2, <1>3, <1>4, <1>7, <1>8 DEF CommandIsKnown, Proven
<1>10. CommandIsKnown(command, disk, code, selection)'
  BY <1>1, <1>6, <1>9
<1> QED
  BY <1>1, <1>10 DEF SelectionInv

\* The same for a command that is refused.
LEMMA RefusedStep ==
  ASSUME SelectionInv, command.pc # "idle", NEW fs, NEW chosen
  PROVE  CommandIsKnown([command EXCEPT !.pc = "refused"], fs, code, chosen)
<1>1. /\ command = CommandOf(command.kind, command.pc, command.producer, command.got, command.staged)
      /\ command.producer \in Nat /\ command.producer <= code /\ DOMAIN command.staged \subseteq Targets
  BY DEF SelectionInv, CommandIsKnown
<1>2. PICK j : j = CommandOf(command.kind, "refused", command.producer, command.got, command.staged)
  OBVIOUS
<1>3. [command EXCEPT !.pc = "refused"] = j
  <2>1. [command EXCEPT !.pc = "refused"] =
          CommandOf(command.kind, "refused", command.producer, command.got, command.staged)
    BY <1>1, CommandMoves
  <2> QED
    BY <1>2, <2>1, Zenon
<1>4. /\ j.pc = "refused" /\ j.producer = command.producer /\ j.staged = command.staged
      /\ j = CommandOf(j.kind, j.pc, j.producer, j.got, j.staged)
  BY <1>2 DEF CommandOf
<1>5. CommandIsKnown(j, fs, code, chosen)
  BY <1>1, <1>4 DEF CommandIsKnown, Proven
<1> QED
  BY <1>3, <1>5

LEMMA WriteSelectionStep == SelectionInv /\ P!WriteSelection => SelectionInv'
<1> SUFFICES ASSUME SelectionInv, P!WriteSelection PROVE SelectionInv'
  OBVIOUS
<1>1. /\ command.pc = "commit" /\ UNCHANGED <<disk, code, replaced, visible>>
  BY DEF P!WriteSelection, P!OnDisk
<1>2. CASE selection.controls = <<>>
  <2>1. command' = P!NoJob
    BY <1>2 DEF P!WriteSelection
  <2>2. CommandIsKnown(command, disk, code, selection)'
    BY <2>1, NoCommand
  <2>3. VisibleIsKnown(visible, selection')
    BY <1>2, VisibleStays DEF SelectionInv
  <2> QED
    BY <1>1, <2>2, <2>3 DEF SelectionInv
<1>3. CASE selection.controls # <<>>
  <2>1. command' = [command EXCEPT !.pc = "refused"] /\ UNCHANGED selection
    BY <1>3 DEF P!WriteSelection, P!Goto
  <2>2. CommandIsKnown([command EXCEPT !.pc = "refused"], disk, code, selection)
    BY <1>1, RefusedStep
  <2>3. CommandIsKnown(command, disk, code, selection)'
    BY <1>1, <2>1, <2>2
  <2> QED
    BY <1>1, <2>1, <2>3 DEF SelectionInv
<1> QED
  BY <1>2, <1>3

LEMMA CommitTargetStep ==
  ASSUME NEW t \in Targets, SelectionInv, P!CommitTarget(t) PROVE SelectionInv'
<1>1. /\ command.pc = "commit" /\ command.kind = "batch" /\ t \in DOMAIN command.staged
      /\ UNCHANGED <<disk, code, replaced, selection>>
  BY DEF P!CommitTarget, P!OnDisk
<1>2. CASE visible[t].version # -1
  <2>1. command' = [command EXCEPT !.pc = "refused"] /\ UNCHANGED visible
    BY <1>2 DEF P!CommitTarget, P!Goto
  <2>2. CommandIsKnown([command EXCEPT !.pc = "refused"], disk, code, selection)
    BY <1>1, RefusedStep
  <2>3. CommandIsKnown(command, disk, code, selection)'
    BY <1>1, <2>1, <2>2
  <2> QED
    BY <1>1, <2>1, <2>3 DEF SelectionInv
<1>3. CASE visible[t].version = -1
  <2> DEFINE new == [version |-> command.staged[t].version, rows |-> command.staged[t].rows,
                     policy |-> command.got["policy"].says,
                     raw |-> command.got["raw"].version, producer |-> command.producer]
             left == DOMAIN command.staged \ {t}
             rest == [x \in left |-> command.staged[x]]
  <2>1. /\ visible' = [visible EXCEPT ![t] = new]
        /\ command' = IF left = {} THEN P!NoJob ELSE [command EXCEPT !.staged = rest]
    BY <1>3 DEF P!CommitTarget
  <2>2. /\ command = CommandOf(command.kind, command.pc, command.producer, command.got, command.staged)
        /\ CommandIsKnown(command, disk, code, selection) /\ code \in Nat
        /\ DOMAIN command.staged \subseteq Targets /\ StagedIsLater(command, disk)
        /\ PolicyIsRead(command.got, command.producer, code)
        /\ command.got["policy"].says.code = command.producer
        /\ \A x \in DOMAIN command.staged : command.staged[x].version = command.got[x].version
        /\ selection.controls = P!Versions(command.got) /\ DOMAIN command.got = P!Leaves
        /\ VisibleIsKnown(visible, selection)
    BY <1>1 DEF SelectionInv, CommandIsKnown, Proven
  <2>3. /\ new.version = new.policy.of[t] /\ new.raw = new.policy.of["raw"]
        /\ new.producer = new.policy.code /\ new.rows = RowsMade(new.version)
        /\ new.version = command.got[t].version
    <3>1. /\ command.staged[t].version = command.got[t].version
          /\ command.staged[t].rows = RowsMade(command.staged[t].version)
          /\ command.got["policy"].says.of[t] = command.got[t].version
          /\ command.got["policy"].says.of["raw"] = command.got["raw"].version
          /\ command.got["policy"].says.code = command.producer
      BY <1>1, <2>2 DEF StagedIsLater, PolicyIsRead
    <3> QED
      BY <3>1
  <2>4. selection.controls # <<>> /\ selection.controls[t] = command.got[t].version
    <3>1. selection.controls = [l \in P!Leaves |-> command.got[l].version]
      BY <2>2 DEF P!Versions
    <3>2. t \in P!Leaves
      BY LeavesAre
    <3>3. DOMAIN selection.controls # {}
      BY <3>1, <3>2
    <3>4. DOMAIN <<>> = {}
      OBVIOUS
    <3> QED
      BY <3>1, <3>2, <3>3, <3>4
  <2>5. /\ visible = [x \in Targets |-> visible[x]]
        /\ \A x \in Targets : visible[x].version # -1 =>
             /\ visible[x].version = visible[x].policy.of[x]
             /\ visible[x].raw = visible[x].policy.of["raw"]
             /\ visible[x].producer = visible[x].policy.code
             /\ visible[x].rows = RowsMade(visible[x].version)
             /\ selection.controls # <<>> /\ selection.controls[x] = visible[x].version
    BY <2>2 DEF VisibleIsKnown
  <2> HIDE DEF new
  <2>6. /\ visible' = [x \in Targets |-> visible'[x]]
        /\ \A x \in Targets : visible'[x] = IF x = t THEN new ELSE visible[x]
    BY <2>1, <2>5
  <2>7. VisibleIsKnown(visible', selection)
    <3>1. \A x \in Targets : visible'[x].version # -1 =>
            /\ visible'[x].version = visible'[x].policy.of[x]
            /\ visible'[x].raw = visible'[x].policy.of["raw"]
            /\ visible'[x].producer = visible'[x].policy.code
            /\ visible'[x].rows = RowsMade(visible'[x].version)
            /\ selection.controls # <<>> /\ selection.controls[x] = visible'[x].version
      <4> TAKE x \in Targets
      <4>1. CASE x = t
        BY <2>3, <2>4, <2>6, <4>1
      <4>2. CASE x # t
        BY <2>5, <2>6, <4>2
      <4> QED BY <4>1, <4>2
    <3> QED
      BY <2>6, <3>1 DEF VisibleIsKnown
  <2>8. CommandIsKnown(command', disk, code, selection)
    <3>1. CASE left = {}
      BY <2>1, <3>1, NoCommand
    <3>2. CASE left # {}
      <4>1. DOMAIN rest = left /\ \A x \in left : rest[x] = command.staged[x] /\ x \in DOMAIN command.staged
        OBVIOUS
      <4>2. command' = [command EXCEPT !.staged = rest]
        BY <2>1, <3>2
      <4>3. left \subseteq DOMAIN command.staged
        OBVIOUS
      <4> HIDE DEF rest, left
      <4>4. PICK j : j = CommandOf(command.kind, command.pc, command.producer, command.got, rest)
        OBVIOUS
      <4>5. command' = j
        <5>1. [command EXCEPT !.staged = rest] =
                CommandOf(command.kind, command.pc, command.producer, command.got, rest)
          BY <2>2, CommandLeaves
        <5> QED
          BY <4>2, <4>4, <5>1, Zenon
      <4>6. /\ j.kind = command.kind /\ j.pc = command.pc /\ j.producer = command.producer /\ j.got = command.got
            /\ j.staged = rest /\ j = CommandOf(j.kind, j.pc, j.producer, j.got, j.staged)
        BY <4>4 DEF CommandOf
      <4>7. StagedIsLater(j, disk)
        BY <2>2, <4>1, <4>6 DEF StagedIsLater
      <4>8. \A x \in DOMAIN j.staged : j.staged[x].version = j.got[x].version
        BY <2>2, <4>1, <4>6
      <4>9. DOMAIN j.staged \subseteq Targets
        BY <2>2, <4>1, <4>3, <4>6
      <4>10. CommandIsKnown(j, disk, code, selection)
        BY <1>1, <2>2, <4>6, <4>7, <4>8, <4>9 DEF CommandIsKnown, Proven
      <4> QED
        BY <4>5, <4>10
    <3> QED BY <3>1, <3>2
  <2>9. CommandIsKnown(command, disk, code, selection)'
    BY <1>1, <2>8
  <2> QED
    BY <1>1, <2>7, <2>9 DEF SelectionInv
<1> QED
  BY <1>2, <1>3

-----------------------------------------------------------------------------
(* Everybody else.                                                         *)

LEMMA ReplaceStep ==
  ASSUME NEW l \in P!Leaves, SelectionInv, P!Replace(l) PROVE SelectionInv'
<1>1. /\ IF l = "submissions" THEN replaced = 0 ELSE replaced < MaxReplaced
      /\ replaced' = IF l = "submissions" THEN MaxReplaced ELSE replaced + 1
      /\ UNCHANGED <<code, selecting, selection, visible, command>>
  BY DEF P!Replace
<1>2. PICK says \in P!Rewritten(l) : disk' = [disk EXCEPT ![l] = [version |-> replaced + 1, says |-> says]]
  BY DEF P!Replace
<1>3. /\ replaced \in Nat /\ disk = [x \in P!Leaves |-> disk[x]]
      /\ \A t \in Targets : disk[t].version \in Nat /\ disk[t].version <= replaced
      /\ disk["submissions"].says.pairs \in SUBSET (Numbers \X Numbers)
      /\ code \in Nat /\ CommandIsKnown(command, disk, code, selection)
      /\ VisibleIsKnown(visible, selection)
  BY DEF SelectionInv, DiskIsKnown
<1>4. /\ disk' = [x \in P!Leaves |-> disk'[x]]
      /\ \A x \in P!Leaves : disk'[x] = IF x = l THEN [version |-> replaced + 1, says |-> says] ELSE disk[x]
  BY <1>2, <1>3
<1>5. replaced' \in Nat /\ replaced <= replaced' /\ (l # "submissions" => replaced' = replaced + 1)
  <2>1. MaxReplaced \in Nat
    BY SelectionAssumption
  <2> QED
    BY <1>1, <1>3, <2>1
<1>6. \A t \in Targets : /\ disk'[t].version \in Nat /\ disk'[t].version <= replaced'
                         /\ disk[t].version <= disk'[t].version
  <2> TAKE t \in Targets
  <2>1. t \in P!Leaves /\ t # "submissions"
    BY LeavesAre
  <2>2. CASE t = l
    <3>1. disk'[t].version = replaced + 1 /\ replaced' = replaced + 1
      BY <1>4, <1>5, <2>1, <2>2
    <3> QED BY <1>3, <3>1
  <2>3. CASE t # l
    <3>1. disk'[t] = disk[t]
      BY <1>4, <2>1, <2>3
    <3> QED BY <1>3, <1>5, <3>1
  <2> QED BY <2>2, <2>3
<1>7. disk'["submissions"].says.pairs \in SUBSET (Numbers \X Numbers)
  <2>0. "submissions" \in P!Leaves
    BY LeavesAre
  <2>1. CASE l = "submissions"
    <3>1. says \in [more : {FALSE}, pairs : Relations] \cup [more : {TRUE}, pairs : {P!Diagonal}]
      BY <1>2, <2>1 DEF P!Rewritten, P!Plans
    <3>2. P!Diagonal \in SUBSET (Numbers \X Numbers) /\ Relations \subseteq SUBSET (Numbers \X Numbers)
      BY SelectionAssumption DEF P!Diagonal, Numbers
    <3>3. disk'["submissions"].says = says
      BY <1>4, <2>0, <2>1
    <3> QED BY <3>1, <3>2, <3>3
  <2>2. CASE l # "submissions"
    BY <1>3, <1>4, <2>0, <2>2
  <2> QED BY <2>1, <2>2
<1>8. DiskIsKnown(disk, replaced)'
  BY <1>4, <1>5, <1>6, <1>7 DEF DiskIsKnown
<1>9. CommandIsKnown(command, disk', code, selection)
  <2>1. \A t \in Targets : /\ disk[t].version \in Nat /\ disk'[t].version \in Nat
                            /\ disk[t].version <= disk'[t].version
    BY <1>3, <1>6
  <2>2. code \in Nat /\ code <= code
    BY <1>3
  <2> QED
    BY <1>3, <2>1, <2>2, CommandStays
<1>10. CommandIsKnown(command, disk, code, selection)'
  BY <1>1, <1>9
<1> QED
  BY <1>1, <1>3, <1>8, <1>10 DEF SelectionInv

LEMMA UpgradeStep == SelectionInv /\ P!Upgrade => SelectionInv'
<1> SUFFICES ASSUME SelectionInv, P!Upgrade PROVE SelectionInv'
  OBVIOUS
<1>1. code' = code + 1 /\ UNCHANGED <<disk, selection, visible, command, replaced>>
  BY DEF P!Upgrade
<1>2. code \in Nat /\ code' \in Nat /\ code <= code'
  BY <1>1 DEF SelectionInv
<1>3. \A t \in Targets : disk[t].version \in Nat /\ disk[t].version <= disk[t].version
  BY DEF SelectionInv, DiskIsKnown
<1>4. CommandIsKnown(command, disk, code, selection)
  BY DEF SelectionInv
<1>5. CommandIsKnown(command, disk, code', selection)
  BY <1>2, <1>3, <1>4, CommandStays
<1>6. CommandIsKnown(command, disk, code, selection)'
  BY <1>1, <1>5
<1> QED
  BY <1>1, <1>2, <1>6 DEF SelectionInv

LEMMA SelectionsStay ==
  SelectionInv /\ UNCHANGED <<disk, code, selection, visible, command, replaced>> => SelectionInv'
  BY DEF SelectionInv

LEMMA SelectionsKeep == SelectionInv /\ P!Next => SelectionInv'
<1> SUFFICES ASSUME SelectionInv, P!Next PROVE SelectionInv'
  OBVIOUS
<1>1. CASE \E kind \in {"selection", "batch"} : P!Start(kind)
  BY <1>1, StartCommandStep
<1>2. CASE P!Pin \/ P!Replay \/ P!Recheck \/ P!WriteSelection
  BY <1>2, PinStep, ReplayStep, RecheckStep, WriteSelectionStep
<1>3. CASE P!End
  <2>1. command' = P!NoJob /\ UNCHANGED <<disk, code, replaced, selection, visible>>
    BY <1>3 DEF P!End, P!OnDisk
  <2>2. CommandIsKnown(command, disk, code, selection)'
    BY <2>1, NoCommand
  <2> QED
    BY <2>1, <2>2 DEF SelectionInv
<1>4. CASE \E t \in Targets : P!StageTarget(t) \/ P!CommitTarget(t)
  BY <1>4, StageTargetStep, CommitTargetStep
<1>5. CASE \E l \in P!Leaves : P!Replace(l)
  BY <1>5, ReplaceStep
<1>6. CASE P!Configure
  BY <1>6, SelectionsStay DEF P!Configure
<1>7. CASE P!Upgrade
  BY <1>7, UpgradeStep
<1> QED
  BY <1>1, <1>2, <1>3, <1>4, <1>5, <1>6, <1>7 DEF P!Next

-----------------------------------------------------------------------------
(* The rows of a version, as they become visible.                          *)

NewCell(name, version) == [name |-> name, version |-> version, event |-> P!Event]

LEMMA CellsDiffer ==
  ASSUME NEW v
  PROVE  /\ P!Cell("a", v) # P!Cell("b", v) /\ P!Cell("a", v) # P!NoCell /\ P!Cell("b", v) # P!NoCell
         /\ P!Cell("p", v) # P!Cell("a", v) /\ P!Cell("p", v) # P!Cell("b", v) /\ P!Cell("p", v) # P!NoCell
         /\ [P!Cell("a", v) EXCEPT !.event = P!Event] = NewCell("a", v)
         /\ [P!Cell("b", v) EXCEPT !.event = P!Event] = NewCell("b", v)
         /\ NewCell("a", v) # P!NoCell
         /\ NewCell("a", v) # NewCell("b", v)
<1>1. /\ P!Cell("a", v).name = "a" /\ P!Cell("b", v).name = "b" /\ P!Cell("p", v).name = "p"
      /\ P!NoCell.name = "none" /\ NewCell("a", v).name = "a" /\ NewCell("b", v).name = "b"
  BY DEF P!Cell, P!NoCell, P!NoKind, NewCell
<1>2. /\ [P!Cell("a", v) EXCEPT !.event = P!Event] = NewCell("a", v)
      /\ [P!Cell("b", v) EXCEPT !.event = P!Event] = NewCell("b", v)
  BY DEF P!Cell, NewCell
<1> QED
  BY <1>1, <1>2

CellRow(v) == [name |-> "cells", cell_id |-> P!Cell("a", v)]
CoreRow(v) == [name |-> "core_cells", cell_id |-> P!Cell("b", v), anchor |-> P!Cell("a", v)]
EmptyRow == [name |-> "core_cells", cell_id |-> P!NoCell, anchor |-> P!NoCell]
PeriodRow(v) == [name |-> "periods", cell_id |-> P!Cell("p", v)]
TraceRow(v) == [name |-> "trace", cell_id |-> P!Cell("b", v), lineage |-> P!Cell("a", v)]

LEMMA RowsAre == \A v : P!RowsOf(v) = {CellRow(v), CoreRow(v), EmptyRow, PeriodRow(v), TraceRow(v)}
  BY DEF P!RowsOf, CellRow, CoreRow, EmptyRow, PeriodRow, TraceRow

LEMMA PreparedAre ==
  ASSUME NEW v PROVE P!Prepared(P!RowsOf(v)) = {P!Cell("a", v), P!Cell("b", v)}
<1> DEFINE rows == P!RowsOf(v)
           chosen == {r \in rows : r.name \in {"cells", "core_cells"}}
<1>1. /\ CellRow(v).name = "cells" /\ CoreRow(v).name = "core_cells" /\ EmptyRow.name = "core_cells"
      /\ PeriodRow(v).name = "periods" /\ TraceRow(v).name = "trace"
      /\ CellRow(v).cell_id = P!Cell("a", v) /\ CoreRow(v).cell_id = P!Cell("b", v) /\ EmptyRow.cell_id = P!NoCell
  BY DEF CellRow, CoreRow, EmptyRow, PeriodRow, TraceRow
<1>2. rows = {CellRow(v), CoreRow(v), EmptyRow, PeriodRow(v), TraceRow(v)}
  BY RowsAre
<1>3. chosen = {CellRow(v), CoreRow(v), EmptyRow}
  BY <1>1, <1>2
<1>4. {row.cell_id : row \in chosen} = {P!Cell("a", v), P!Cell("b", v), P!NoCell}
  BY <1>1, <1>3
<1>5. P!Prepared(rows) = {row.cell_id : row \in chosen} \ {P!NoCell}
  BY DEF P!Prepared
<1> QED
  BY <1>4, <1>5, CellsDiffer

\* A cell as a cell of the event.
Eventful(cell) == [cell EXCEPT !.event = P!Event]

LEMMA CellsOfTheEvent ==
  ASSUME NEW v
  PROVE  Eventful(P!Cell("a", v)) = NewCell("a", v) /\ Eventful(P!Cell("b", v)) = NewCell("b", v)
  BY CellsDiffer DEF Eventful

\* Renamed or not, by what its cell is.
LEMMA RenamedMine ==
  ASSUME NEW v, NEW row, "cell_id" \in DOMAIN row, "was" \notin DOMAIN row,
         row.cell_id \in {P!Cell("a", v), P!Cell("b", v)},
         NEW new, new = P!Renamed(P!RowsOf(v), row, P!Event)
  PROVE  /\ DOMAIN new = DOMAIN row \cup {"was"}
         /\ new.was = row.cell_id
         /\ new.cell_id = Eventful(row.cell_id)
<1> DEFINE old == P!Prepared(P!RowsOf(v))
           cols == DOMAIN row \cup (IF row.cell_id \in old THEN {"was"} ELSE {})
           At(x) == IF x = "was" THEN row.cell_id
                    ELSE IF x \in {"cell_id", "anchor"} /\ row[x] \in old THEN Eventful(row[x]) ELSE row[x]
<1>1. new = [x \in cols |-> At(x)]
  BY DEF P!Renamed, Eventful
<1>2. row.cell_id \in old
  BY PreparedAre
<1>3. cols = DOMAIN row \cup {"was"} /\ "was" \in cols /\ "cell_id" \in cols
  BY <1>2
<1>4. At("was") = row.cell_id /\ At("cell_id") = Eventful(row.cell_id)
  BY <1>2
<1> HIDE DEF At, cols
<1> QED
  BY <1>1, <1>3, <1>4

LEMMA RenamedOther ==
  ASSUME NEW v, NEW row, "cell_id" \in DOMAIN row, "was" \notin DOMAIN row,
         row.cell_id \notin {P!Cell("a", v), P!Cell("b", v)},
         NEW new, new = P!Renamed(P!RowsOf(v), row, P!Event)
  PROVE  DOMAIN new = DOMAIN row /\ new.cell_id = row.cell_id
<1> DEFINE old == P!Prepared(P!RowsOf(v))
           cols == DOMAIN row \cup (IF row.cell_id \in old THEN {"was"} ELSE {})
           At(x) == IF x = "was" THEN row.cell_id
                    ELSE IF x \in {"cell_id", "anchor"} /\ row[x] \in old THEN Eventful(row[x]) ELSE row[x]
<1>1. new = [x \in cols |-> At(x)]
  BY DEF P!Renamed, Eventful
<1>2. row.cell_id \notin old
  BY PreparedAre
<1>3. cols = DOMAIN row /\ "cell_id" \in cols
  BY <1>2
<1>4. At("cell_id") = row.cell_id
  BY <1>2
<1> HIDE DEF At, cols
<1> QED
  BY <1>1, <1>3, <1>4

LEMMA RenamedLink ==
  ASSUME NEW v, NEW row, "cell_id" \in DOMAIN row, "was" \notin DOMAIN row, "anchor" \in DOMAIN row,
         row.anchor \in {P!Cell("a", v), P!Cell("b", v)},
         NEW new, new = P!Renamed(P!RowsOf(v), row, P!Event)
  PROVE  new.anchor = Eventful(row.anchor)
<1> DEFINE old == P!Prepared(P!RowsOf(v))
           cols == DOMAIN row \cup (IF row.cell_id \in old THEN {"was"} ELSE {})
           At(x) == IF x = "was" THEN row.cell_id
                    ELSE IF x \in {"cell_id", "anchor"} /\ row[x] \in old THEN Eventful(row[x]) ELSE row[x]
<1>1. new = [x \in cols |-> At(x)]
  BY DEF P!Renamed, Eventful
<1>2. row.anchor \in old
  BY PreparedAre
<1>3. "anchor" \in cols
  OBVIOUS
<1>4. At("anchor") = Eventful(row.anchor)
  BY <1>2
<1> HIDE DEF At, cols
<1> QED
  BY <1>1, <1>3, <1>4

LEMMA RenamedRest ==
  ASSUME NEW v, NEW row, "cell_id" \in DOMAIN row, "was" \notin DOMAIN row,
         NEW new, new = P!Renamed(P!RowsOf(v), row, P!Event),
         NEW k \in DOMAIN row \ {"cell_id", "anchor"}
  PROVE  new[k] = row[k]
<1> DEFINE old == P!Prepared(P!RowsOf(v))
           cols == DOMAIN row \cup (IF row.cell_id \in old THEN {"was"} ELSE {})
           At(x) == IF x = "was" THEN row.cell_id
                    ELSE IF x \in {"cell_id", "anchor"} /\ row[x] \in old THEN Eventful(row[x]) ELSE row[x]
<1>1. new = [x \in cols |-> At(x)]
  BY DEF P!Renamed, Eventful
<1>2. k \in cols
  OBVIOUS
<1>3. At(k) = row[k]
  OBVIOUS
<1> HIDE DEF At, cols
<1> QED
  BY <1>1, <1>2, <1>3

LEMMA RenamedAnchor ==
  ASSUME NEW v, NEW row, "cell_id" \in DOMAIN row, "was" \notin DOMAIN row, "anchor" \in DOMAIN row,
         row.anchor \notin {P!Cell("a", v), P!Cell("b", v)},
         NEW new, new = P!Renamed(P!RowsOf(v), row, P!Event)
  PROVE  new.anchor = row.anchor
<1> DEFINE old == P!Prepared(P!RowsOf(v))
           cols == DOMAIN row \cup (IF row.cell_id \in old THEN {"was"} ELSE {})
           At(x) == IF x = "was" THEN row.cell_id
                    ELSE IF x \in {"cell_id", "anchor"} /\ row[x] \in old THEN Eventful(row[x]) ELSE row[x]
<1>1. new = [x \in cols |-> At(x)]
  BY DEF P!Renamed, Eventful
<1>2. "anchor" \in cols
  OBVIOUS
<1>3. At("anchor") = row["anchor"]
  BY PreparedAre
<1> HIDE DEF At, cols
<1> QED
  BY <1>1, <1>2, <1>3

\* The rows of an analysis as they are reselected.
ReselectedShape(rows, v, r1, r2, r3, r4, r5) ==
  /\ rows = {r1, r2, r3, r4, r5}
  /\ DOMAIN r1 = {"name", "cell_id", "was"}
  /\ r1.name = "cells" /\ r1.cell_id = NewCell("a", v) /\ r1.was = P!Cell("a", v)
  /\ DOMAIN r2 = {"name", "cell_id", "anchor", "was"}
  /\ r2.name = "core_cells" /\ r2.cell_id = NewCell("b", v) /\ r2.anchor = NewCell("a", v)
  /\ r2.was = P!Cell("b", v)
  /\ DOMAIN r3 = {"name", "cell_id", "anchor"}
  /\ r3.name = "core_cells" /\ r3.cell_id = P!NoCell /\ r3.anchor = P!NoCell
  /\ DOMAIN r4 = {"name", "cell_id"} /\ r4.name = "periods" /\ r4.cell_id = P!Cell("p", v)
  /\ DOMAIN r5 = {"name", "cell_id", "lineage", "was"}
  /\ r5.name = "trace" /\ r5.cell_id = NewCell("b", v) /\ r5.lineage = P!Cell("a", v)
  /\ r5.was = P!Cell("b", v)

LEMMA RowsRenamed ==
  ASSUME NEW v
  PROVE  \E r1, r2, r3, r4, r5 : ReselectedShape(P!Reselected(P!RowsOf(v), P!Event), v, r1, r2, r3, r4, r5)
<1> DEFINE New(row) == P!Renamed(P!RowsOf(v), row, P!Event)
<1>1. P!Reselected(P!RowsOf(v), P!Event) =
        {New(CellRow(v)), New(CoreRow(v)), New(EmptyRow), New(PeriodRow(v)), New(TraceRow(v))}
  <2>1. P!Reselected(P!RowsOf(v), P!Event) = {New(row) : row \in P!RowsOf(v)}
    BY DEF P!Reselected
  <2> HIDE DEF New
  <2> QED
    BY <2>1, RowsAre
<1>2. /\ DOMAIN CellRow(v) = {"name", "cell_id"} /\ CellRow(v).name = "cells"
      /\ CellRow(v).cell_id = P!Cell("a", v)
      /\ DOMAIN CoreRow(v) = {"name", "cell_id", "anchor"} /\ CoreRow(v).name = "core_cells"
      /\ CoreRow(v).cell_id = P!Cell("b", v) /\ CoreRow(v).anchor = P!Cell("a", v)
      /\ DOMAIN EmptyRow = {"name", "cell_id", "anchor"} /\ EmptyRow.name = "core_cells"
      /\ EmptyRow.cell_id = P!NoCell /\ EmptyRow.anchor = P!NoCell
      /\ DOMAIN PeriodRow(v) = {"name", "cell_id"} /\ PeriodRow(v).name = "periods"
      /\ PeriodRow(v).cell_id = P!Cell("p", v)
      /\ DOMAIN TraceRow(v) = {"name", "cell_id", "lineage"} /\ TraceRow(v).name = "trace"
      /\ TraceRow(v).cell_id = P!Cell("b", v) /\ TraceRow(v).lineage = P!Cell("a", v)
  BY DEF CellRow, CoreRow, EmptyRow, PeriodRow, TraceRow
<1>3. PICK r1 : r1 = New(CellRow(v))
  OBVIOUS
<1>4. PICK r2 : r2 = New(CoreRow(v))
  OBVIOUS
<1>5. PICK r3 : r3 = New(EmptyRow)
  OBVIOUS
<1>6. PICK r4 : r4 = New(PeriodRow(v))
  OBVIOUS
<1>7. PICK r5 : r5 = New(TraceRow(v))
  OBVIOUS
<1>8. /\ DOMAIN r1 = {"name", "cell_id", "was"}
      /\ r1.name = "cells" /\ r1.cell_id = NewCell("a", v) /\ r1.was = P!Cell("a", v)
  <2>1. "cell_id" \in DOMAIN CellRow(v) /\ "was" \notin DOMAIN CellRow(v)
        /\ "name" \in DOMAIN CellRow(v) \ {"cell_id", "anchor"}
    BY <1>2
  <2>3. r1 = P!Renamed(P!RowsOf(v), CellRow(v), P!Event)
    BY <1>3
  <2>4. CellRow(v).cell_id \in {P!Cell("a", v), P!Cell("b", v)}
    BY <1>2, <2>1
  <2>5. \A k \in DOMAIN CellRow(v) \ {"cell_id", "anchor"} : r1[k] = CellRow(v)[k]
    BY <2>1, <2>3, RenamedRest
  <2>6. /\ DOMAIN r1 = DOMAIN CellRow(v) \cup {"was"} /\ r1.was = CellRow(v).cell_id /\ r1.cell_id = Eventful(CellRow(v).cell_id)
    BY <2>1, <2>3, <2>4, RenamedMine
  <2>2. /\ DOMAIN r1 = DOMAIN CellRow(v) \cup {"was"} /\ r1.was = CellRow(v).cell_id
        /\ r1.cell_id = Eventful(CellRow(v).cell_id) /\ r1.name = CellRow(v).name
    BY <2>1, <2>5, <2>6
  <2> QED
    BY <1>2, <2>2, CellsOfTheEvent
<1>9. /\ DOMAIN r2 = {"name", "cell_id", "anchor", "was"}
      /\ r2.name = "core_cells" /\ r2.cell_id = NewCell("b", v) /\ r2.anchor = NewCell("a", v)
      /\ r2.was = P!Cell("b", v)
  <2>1. "cell_id" \in DOMAIN CoreRow(v) /\ "was" \notin DOMAIN CoreRow(v)
        /\ "name" \in DOMAIN CoreRow(v) \ {"cell_id", "anchor"} /\ "anchor" \in DOMAIN CoreRow(v)
    BY <1>2
  <2>3. r2 = P!Renamed(P!RowsOf(v), CoreRow(v), P!Event)
    BY <1>4
  <2>4. CoreRow(v).cell_id \in {P!Cell("a", v), P!Cell("b", v)} /\ CoreRow(v).anchor \in {P!Cell("a", v), P!Cell("b", v)}
    BY <1>2
  <2>5. \A k \in DOMAIN CoreRow(v) \ {"cell_id", "anchor"} : r2[k] = CoreRow(v)[k]
    BY <2>1, <2>3, RenamedRest
  <2>6. /\ DOMAIN r2 = DOMAIN CoreRow(v) \cup {"was"} /\ r2.was = CoreRow(v).cell_id
        /\ r2.cell_id = Eventful(CoreRow(v).cell_id)
    BY <2>1, <2>3, <2>4, RenamedMine
  <2>7. r2.anchor = Eventful(CoreRow(v).anchor)
    BY <2>1, <2>3, <2>4, RenamedLink
  <2>2. /\ DOMAIN r2 = DOMAIN CoreRow(v) \cup {"was"} /\ r2.was = CoreRow(v).cell_id
        /\ r2.cell_id = Eventful(CoreRow(v).cell_id) /\ r2.name = CoreRow(v).name
        /\ r2.anchor = Eventful(CoreRow(v).anchor)
    BY <2>1, <2>5, <2>6, <2>7
  <2> QED
    BY <1>2, <2>2, CellsOfTheEvent
<1>10. /\ DOMAIN r3 = {"name", "cell_id", "anchor"}
       /\ r3.name = "core_cells" /\ r3.cell_id = P!NoCell /\ r3.anchor = P!NoCell
  <2>1. "cell_id" \in DOMAIN EmptyRow /\ "was" \notin DOMAIN EmptyRow
        /\ "name" \in DOMAIN EmptyRow \ {"cell_id", "anchor"} /\ "anchor" \in DOMAIN EmptyRow
        /\ P!NoCell \notin {P!Cell("a", v), P!Cell("b", v)}
    BY <1>2, CellsDiffer
  <2>3. r3 = P!Renamed(P!RowsOf(v), EmptyRow, P!Event)
    BY <1>5
  <2>4. EmptyRow.cell_id \notin {P!Cell("a", v), P!Cell("b", v)}
    BY <1>2, <2>1
  <2>5. \A k \in DOMAIN EmptyRow \ {"cell_id", "anchor"} : r3[k] = EmptyRow[k]
    BY <2>1, <2>3, RenamedRest
  <2>6. DOMAIN r3 = DOMAIN EmptyRow /\ r3.cell_id = EmptyRow.cell_id
    BY <2>1, <2>3, <2>4, RenamedOther
  <2>7. r3.anchor = EmptyRow.anchor
    BY <1>2, <2>1, <2>3, RenamedAnchor
  <2>2. /\ DOMAIN r3 = DOMAIN EmptyRow /\ r3.cell_id = EmptyRow.cell_id /\ r3.name = EmptyRow.name
        /\ r3.anchor = EmptyRow.anchor
    BY <2>1, <2>5, <2>6, <2>7
  <2> QED
    BY <1>2, <2>2
<1>11. DOMAIN r4 = {"name", "cell_id"} /\ r4.name = "periods" /\ r4.cell_id = P!Cell("p", v)
  <2>1. "cell_id" \in DOMAIN PeriodRow(v) /\ "was" \notin DOMAIN PeriodRow(v)
        /\ "name" \in DOMAIN PeriodRow(v) \ {"cell_id", "anchor"}
        /\ P!Cell("p", v) \notin {P!Cell("a", v), P!Cell("b", v)}
    BY <1>2, CellsDiffer
  <2>3. r4 = P!Renamed(P!RowsOf(v), PeriodRow(v), P!Event)
    BY <1>6
  <2>4. PeriodRow(v).cell_id \notin {P!Cell("a", v), P!Cell("b", v)}
    BY <1>2, <2>1
  <2>5. \A k \in DOMAIN PeriodRow(v) \ {"cell_id", "anchor"} : r4[k] = PeriodRow(v)[k]
    BY <2>1, <2>3, RenamedRest
  <2>6. DOMAIN r4 = DOMAIN PeriodRow(v) /\ r4.cell_id = PeriodRow(v).cell_id
    BY <2>1, <2>3, <2>4, RenamedOther
  <2>2. DOMAIN r4 = DOMAIN PeriodRow(v) /\ r4.cell_id = PeriodRow(v).cell_id /\ r4.name = PeriodRow(v).name
    BY <2>1, <2>5, <2>6
  <2> QED
    BY <1>2, <2>2
<1>12. /\ DOMAIN r5 = {"name", "cell_id", "lineage", "was"}
       /\ r5.name = "trace" /\ r5.cell_id = NewCell("b", v) /\ r5.lineage = P!Cell("a", v)
       /\ r5.was = P!Cell("b", v)
  <2>1. "cell_id" \in DOMAIN TraceRow(v) /\ "was" \notin DOMAIN TraceRow(v)
        /\ {"name", "lineage"} \subseteq DOMAIN TraceRow(v) \ {"cell_id", "anchor"}
    BY <1>2
  <2>3. r5 = P!Renamed(P!RowsOf(v), TraceRow(v), P!Event)
    BY <1>7
  <2>4. TraceRow(v).cell_id \in {P!Cell("a", v), P!Cell("b", v)}
    BY <1>2, <2>1
  <2>5. \A k \in DOMAIN TraceRow(v) \ {"cell_id", "anchor"} : r5[k] = TraceRow(v)[k]
    BY <2>1, <2>3, RenamedRest
  <2>6. /\ DOMAIN r5 = DOMAIN TraceRow(v) \cup {"was"} /\ r5.was = TraceRow(v).cell_id /\ r5.cell_id = Eventful(TraceRow(v).cell_id)
    BY <2>1, <2>3, <2>4, RenamedMine
  <2>2. /\ DOMAIN r5 = DOMAIN TraceRow(v) \cup {"was"} /\ r5.was = TraceRow(v).cell_id
        /\ r5.cell_id = Eventful(TraceRow(v).cell_id) /\ r5.name = TraceRow(v).name
        /\ r5.lineage = TraceRow(v).lineage
    BY <2>1, <2>5, <2>6
  <2> QED
    BY <1>2, <2>2, CellsOfTheEvent
<1>13. P!Reselected(P!RowsOf(v), P!Event) = {r1, r2, r3, r4, r5}
  BY <1>1, <1>3, <1>4, <1>5, <1>6, <1>7
<1> HIDE DEF New
<1>14. ReselectedShape(P!Reselected(P!RowsOf(v), P!Event), v, r1, r2, r3, r4, r5)
  BY <1>8, <1>9, <1>10, <1>11, <1>12, <1>13, Zenon DEF ReselectedShape
<1> QED
  BY <1>14

\* The columns of a dataset.
Columns(rows, name) == UNION {DOMAIN r : r \in {x \in rows : x.name = name}}

LEMMA PaddedIs ==
  ASSUME NEW rows, NEW row \in rows, NEW columns,
         columns = Columns(rows, row.name)
  PROVE  /\ DOMAIN P!Padded(rows, row) = columns
         /\ \A k \in DOMAIN row : P!Padded(rows, row)[k] = row[k]
         /\ \A k \in columns \ DOMAIN row : P!Padded(rows, row)[k] = P!NoCell
<1>1. P!Padded(rows, row) = [k \in columns |-> IF k \in DOMAIN row THEN row[k] ELSE P!NoCell]
  BY DEF P!Padded, Columns
<1>2. DOMAIN row \subseteq columns
  BY DEF Columns
<1> QED
  BY <1>1, <1>2

\* And as they are stored.
MadeShape(rows, v, r1, r2, r3, r4, r5) ==
  /\ rows = {r1, r2, r3, r4, r5}
  /\ DOMAIN r1 = {"name", "cell_id", "was"}
  /\ r1.name = "cells" /\ r1.cell_id = NewCell("a", v) /\ r1.was = P!Cell("a", v)
  /\ DOMAIN r2 = {"name", "cell_id", "anchor", "was"}
  /\ r2.name = "core_cells" /\ r2.cell_id = NewCell("b", v) /\ r2.anchor = NewCell("a", v)
  /\ r2.was = P!Cell("b", v)
  /\ DOMAIN r3 = {"name", "cell_id", "anchor", "was"}
  /\ r3.name = "core_cells" /\ r3.cell_id = P!NoCell /\ r3.anchor = P!NoCell /\ r3.was = P!NoCell
  /\ DOMAIN r4 = {"name", "cell_id"} /\ r4.name = "periods" /\ r4.cell_id = P!Cell("p", v)
  /\ DOMAIN r5 = {"name", "cell_id", "lineage", "was"}
  /\ r5.name = "trace" /\ r5.cell_id = NewCell("b", v) /\ r5.lineage = P!Cell("a", v)
  /\ r5.was = P!Cell("b", v)

LEMMA RowsMadeAre ==
  ASSUME NEW v
  PROVE  \E r1, r2, r3, r4, r5 : MadeShape(RowsMade(v), v, r1, r2, r3, r4, r5)
<1> DEFINE rows == P!Reselected(P!RowsOf(v), P!Event)
<1>0. PICK o1, o2, o3, o4, o5 : ReselectedShape(rows, v, o1, o2, o3, o4, o5)
  BY RowsRenamed
<1>1. /\ rows = {o1, o2, o3, o4, o5}
      /\ DOMAIN o1 = {"name", "cell_id", "was"}
      /\ o1.name = "cells" /\ o1.cell_id = NewCell("a", v) /\ o1.was = P!Cell("a", v)
      /\ DOMAIN o2 = {"name", "cell_id", "anchor", "was"}
      /\ o2.name = "core_cells" /\ o2.cell_id = NewCell("b", v) /\ o2.anchor = NewCell("a", v)
      /\ o2.was = P!Cell("b", v)
      /\ DOMAIN o3 = {"name", "cell_id", "anchor"}
      /\ o3.name = "core_cells" /\ o3.cell_id = P!NoCell /\ o3.anchor = P!NoCell
      /\ DOMAIN o4 = {"name", "cell_id"} /\ o4.name = "periods" /\ o4.cell_id = P!Cell("p", v)
      /\ DOMAIN o5 = {"name", "cell_id", "lineage", "was"}
      /\ o5.name = "trace" /\ o5.cell_id = NewCell("b", v) /\ o5.lineage = P!Cell("a", v)
      /\ o5.was = P!Cell("b", v)
  BY <1>0 DEF ReselectedShape
<1> HIDE DEF rows
<1>2. /\ {x \in rows : x.name = "cells"} = {o1} /\ {x \in rows : x.name = "core_cells"} = {o2, o3}
      /\ {x \in rows : x.name = "periods"} = {o4} /\ {x \in rows : x.name = "trace"} = {o5}
  BY <1>1
<1>3. /\ DOMAIN o1 = UNION {DOMAIN r : r \in {o1}} /\ DOMAIN o4 = UNION {DOMAIN r : r \in {o4}}
      /\ DOMAIN o5 = UNION {DOMAIN r : r \in {o5}}
      /\ DOMAIN o2 = UNION {DOMAIN r : r \in {o2, o3}}
  BY <1>1
<1>4. RowsMade(v) = {P!Padded(rows, o1), P!Padded(rows, o2), P!Padded(rows, o3), P!Padded(rows, o4), P!Padded(rows, o5)}
  BY <1>1 DEF RowsMade, P!Parquet, rows
<1>5. PICK r1, r2, r3, r4, r5 : /\ r1 = P!Padded(rows, o1) /\ r2 = P!Padded(rows, o2) /\ r3 = P!Padded(rows, o3)
                                /\ r4 = P!Padded(rows, o4) /\ r5 = P!Padded(rows, o5)
  OBVIOUS
<1>6. DOMAIN r1 = DOMAIN o1 /\ \A k \in DOMAIN o1 : r1[k] = o1[k]
  <2>1. o1 \in rows /\ DOMAIN o1 = Columns(rows, o1.name)
    BY <1>1, <1>2, <1>3 DEF Columns
  <2> QED BY <1>5, <2>1, PaddedIs
<1>7. DOMAIN r2 = DOMAIN o2 /\ \A k \in DOMAIN o2 : r2[k] = o2[k]
  <2>1. o2 \in rows /\ DOMAIN o2 = Columns(rows, o2.name)
    BY <1>1, <1>2, <1>3 DEF Columns
  <2> QED BY <1>5, <2>1, PaddedIs
<1>8. /\ DOMAIN r3 = DOMAIN o2 /\ \A k \in DOMAIN o3 : r3[k] = o3[k]
      /\ \A k \in DOMAIN o2 \ DOMAIN o3 : r3[k] = P!NoCell
  <2>1. o3 \in rows /\ DOMAIN o2 = Columns(rows, o3.name)
    BY <1>1, <1>2, <1>3 DEF Columns
  <2> QED BY <1>5, <2>1, PaddedIs
<1>9. DOMAIN r4 = DOMAIN o4 /\ \A k \in DOMAIN o4 : r4[k] = o4[k]
  <2>1. o4 \in rows /\ DOMAIN o4 = Columns(rows, o4.name)
    BY <1>1, <1>2, <1>3 DEF Columns
  <2> QED BY <1>5, <2>1, PaddedIs
<1>10. DOMAIN r5 = DOMAIN o5 /\ \A k \in DOMAIN o5 : r5[k] = o5[k]
  <2>1. o5 \in rows /\ DOMAIN o5 = Columns(rows, o5.name)
    BY <1>1, <1>2, <1>3 DEF Columns
  <2> QED BY <1>5, <2>1, PaddedIs
<1>11. /\ DOMAIN r1 = {"name", "cell_id", "was"}
       /\ r1.name = "cells" /\ r1.cell_id = NewCell("a", v) /\ r1.was = P!Cell("a", v)
  BY <1>1, <1>6
<1>12. /\ DOMAIN r2 = {"name", "cell_id", "anchor", "was"}
       /\ r2.name = "core_cells" /\ r2.cell_id = NewCell("b", v) /\ r2.anchor = NewCell("a", v)
       /\ r2.was = P!Cell("b", v)
  BY <1>1, <1>7
<1>13. /\ DOMAIN r3 = {"name", "cell_id", "anchor", "was"}
       /\ r3.name = "core_cells" /\ r3.cell_id = P!NoCell /\ r3.anchor = P!NoCell /\ r3.was = P!NoCell
  BY <1>1, <1>8
<1>14. DOMAIN r4 = {"name", "cell_id"} /\ r4.name = "periods" /\ r4.cell_id = P!Cell("p", v)
  BY <1>1, <1>9
<1>15. /\ DOMAIN r5 = {"name", "cell_id", "lineage", "was"}
       /\ r5.name = "trace" /\ r5.cell_id = NewCell("b", v) /\ r5.lineage = P!Cell("a", v)
       /\ r5.was = P!Cell("b", v)
  BY <1>1, <1>10
<1>16. RowsMade(v) = {r1, r2, r3, r4, r5}
  BY <1>4, <1>5
<1>17. MadeShape(RowsMade(v), v, r1, r2, r3, r4, r5)
  BY <1>11, <1>12, <1>13, <1>14, <1>15, <1>16, Zenon DEF MadeShape
<1> QED
  BY <1>17

LEMMA KnownIsApproved == SelectionInv => P!VisibleIsApproved
<1> SUFFICES ASSUME SelectionInv, NEW t \in Targets, visible[t].version # -1
             PROVE  /\ visible[t].version = visible[t].policy.of[t]
                    /\ visible[t].raw = visible[t].policy.of["raw"]
                    /\ visible[t].producer = visible[t].policy.code
                    /\ (disk[t].version = visible[t].policy.of[t]) => P!Verifies(t)
  BY DEF P!VisibleIsApproved
<1>1. /\ visible[t].version = visible[t].policy.of[t]
      /\ visible[t].raw = visible[t].policy.of["raw"]
      /\ visible[t].producer = visible[t].policy.code
      /\ visible[t].rows = RowsMade(visible[t].version)
      /\ selection.controls # <<>> /\ selection.controls[t] = visible[t].version
  BY DEF SelectionInv, VisibleIsKnown
<1>2. disk[t].version = visible[t].policy.of[t] => P!Verifies(t)
  BY <1>1 DEF P!Verifies, RowsMade
<1> QED
  BY <1>1, <1>2

LEMMA LinksAreKept == SelectionInv => P!LinksSurvive
<1> DEFINE Was(row) == IF "was" \in DOMAIN row /\ row.was # P!NoCell THEN row.was ELSE row.cell_id
<1> SUFFICES ASSUME SelectionInv, NEW t \in Targets, visible[t].version # -1
             PROVE  LET rows == visible[t].rows
                        origin == P!RowsOf(visible[t].version)
                    IN /\ {Was(row) : row \in rows} = {row.cell_id : row \in origin}
                       /\ \A row \in rows :
                            /\ "anchor" \in DOMAIN row /\ row.anchor # P!NoCell =>
                                 \E cell \in rows : /\ cell.name = "cells" /\ cell.cell_id = row.anchor
                                                    /\ \E old \in origin : /\ old.name = row.name /\ old.cell_id = Was(row)
                                                                           /\ old.anchor = Was(cell)
                            /\ "lineage" \in DOMAIN row => row.lineage \in {old.cell_id : old \in origin}
  BY DEF P!LinksSurvive
<1>1. PICK v : v = visible[t].version
  OBVIOUS
<1>2. visible[t].rows = RowsMade(v)
  BY <1>1 DEF SelectionInv, VisibleIsKnown
<1>0. PICK r1, r2, r3, r4, r5 : MadeShape(RowsMade(v), v, r1, r2, r3, r4, r5)
  BY RowsMadeAre
<1>3. /\ RowsMade(v) = {r1, r2, r3, r4, r5}
      /\ DOMAIN r1 = {"name", "cell_id", "was"}
      /\ r1.name = "cells" /\ r1.cell_id = NewCell("a", v) /\ r1.was = P!Cell("a", v)
      /\ DOMAIN r2 = {"name", "cell_id", "anchor", "was"}
      /\ r2.name = "core_cells" /\ r2.cell_id = NewCell("b", v) /\ r2.anchor = NewCell("a", v)
      /\ r2.was = P!Cell("b", v)
      /\ DOMAIN r3 = {"name", "cell_id", "anchor", "was"}
      /\ r3.name = "core_cells" /\ r3.cell_id = P!NoCell /\ r3.anchor = P!NoCell /\ r3.was = P!NoCell
      /\ DOMAIN r4 = {"name", "cell_id"} /\ r4.name = "periods" /\ r4.cell_id = P!Cell("p", v)
      /\ DOMAIN r5 = {"name", "cell_id", "lineage", "was"}
      /\ r5.name = "trace" /\ r5.cell_id = NewCell("b", v) /\ r5.lineage = P!Cell("a", v)
      /\ r5.was = P!Cell("b", v)
  BY <1>0 DEF MadeShape
<1>4. /\ Was(r1) = P!Cell("a", v) /\ Was(r2) = P!Cell("b", v) /\ Was(r3) = P!NoCell
      /\ Was(r4) = P!Cell("p", v) /\ Was(r5) = P!Cell("b", v)
  BY <1>3, CellsDiffer
<1>5. /\ P!RowsOf(v) = {CellRow(v), CoreRow(v), EmptyRow, PeriodRow(v), TraceRow(v)}
      /\ CellRow(v).cell_id = P!Cell("a", v)
      /\ CoreRow(v).cell_id = P!Cell("b", v) /\ CoreRow(v).anchor = P!Cell("a", v) /\ CoreRow(v).name = "core_cells"
      /\ EmptyRow.cell_id = P!NoCell /\ PeriodRow(v).cell_id = P!Cell("p", v) /\ TraceRow(v).cell_id = P!Cell("b", v)
  BY RowsAre DEF CellRow, CoreRow, EmptyRow, PeriodRow, TraceRow
<1> HIDE DEF Was
<1>6. {Was(row) : row \in RowsMade(v)} = {P!Cell("a", v), P!Cell("b", v), P!NoCell, P!Cell("p", v)}
  BY <1>3, <1>4
<1>7. {row.cell_id : row \in P!RowsOf(v)} = {P!Cell("a", v), P!Cell("b", v), P!NoCell, P!Cell("p", v)}
  BY <1>5
<1>8. ASSUME NEW row \in RowsMade(v), "anchor" \in DOMAIN row, row.anchor # P!NoCell
      PROVE  \E cell \in RowsMade(v) :
               /\ cell.name = "cells" /\ cell.cell_id = row.anchor
               /\ \E old \in P!RowsOf(v) : /\ old.name = row.name /\ old.cell_id = Was(row) /\ old.anchor = Was(cell)
  <2>1. row = r2
    BY <1>3, <1>8
  <2>2. r1 \in RowsMade(v) /\ CoreRow(v) \in P!RowsOf(v)
    BY <1>3, <1>5
  <2>3. /\ r1.name = "cells" /\ r1.cell_id = row.anchor
        /\ CoreRow(v).name = row.name /\ CoreRow(v).cell_id = Was(row) /\ CoreRow(v).anchor = Was(r1)
    BY <1>3, <1>4, <1>5, <2>1
  <2> QED
    BY <2>2, <2>3
<1>9. ASSUME NEW row \in RowsMade(v), "lineage" \in DOMAIN row
      PROVE  row.lineage \in {old.cell_id : old \in P!RowsOf(v)}
  <2>1. row = r5
    BY <1>3, <1>9
  <2> QED
    BY <1>3, <1>7, <2>1
<1>10. {Was(row) : row \in RowsMade(v)} = {row.cell_id : row \in P!RowsOf(v)}
  BY <1>6, <1>7
<1> QED
  BY <1>1, <1>2, <1>8, <1>9, <1>10, Zenon

LEMMA KnownIsComplete == SelectionInv => P!CompletenessIsExact
<1> SUFFICES ASSUME SelectionInv PROVE P!CompletenessIsExact
  OBVIOUS
<1>1. CommandIsKnown(command, disk, code, selection)
  BY DEF SelectionInv
<1>2. command.pc = "incomplete" => ~P!OneToOne(command.got["submissions"].says.pairs)
  BY <1>1 DEF CommandIsKnown
<1>3. command.pc \in {"replay", "stage", "recheck", "commit"} => P!OneToOne(command.got["submissions"].says.pairs)
  BY <1>1 DEF CommandIsKnown, Proven
<1> QED
  BY <1>2, <1>3 DEF P!CompletenessIsExact

-----------------------------------------------------------------------------
(* Company metadata.  What a build is made of.                             *)

CompaniesOf(chosen, inv, cutoff, all) == {M!CompanyRow(chosen, inv, cutoff, c) : c \in all}
IndustriesOf(chosen, all) == {M!Industry(chosen, c) : c \in all}
CikRowsOf(all) == {M!CikRow(c) : c \in all}
TickerRowsOf(chosen, inv, cutoff, all) ==
  UNION {{M!TickerRow(c, t) : t \in M!Tickers(chosen, inv, cutoff, c)} : c \in all}
InputsOf(chosen) == {chosen[c] : c \in DOMAIN chosen}

\* A build p, made from the snapshots chosen of those seen for all the candidates.
MadeOf(p, seen, chosen, inv, cutoff, all) ==
  /\ ~M!Refused(seen, chosen, inv, cutoff)
  /\ p.cutoff = cutoff
  /\ p.companies = CompaniesOf(chosen, inv, cutoff, all)
  /\ p.identifiers = CikRowsOf(all) \cup TickerRowsOf(chosen, inv, cutoff, all)
  /\ p.industries = IndustriesOf(chosen, all)
  /\ p.inputs = InputsOf(chosen)

LEMMA BuildIsMade ==
  ASSUME NEW S, NEW inv, NEW cutoff, M!Build(S, inv, cutoff) # None
  PROVE  \E seen, chosen, all :
           /\ seen = M!Observed(S, cutoff) /\ chosen = M!Selected(seen)
           /\ all = M!Candidates(chosen, inv, cutoff)
           /\ MadeOf(M!Build(S, inv, cutoff), seen, chosen, inv, cutoff, all)
<1>1. PICK seen : seen = M!Observed(S, cutoff)
  OBVIOUS
<1>2. PICK chosen : chosen = M!Selected(seen)
  OBVIOUS
<1>3. PICK all : all = M!Candidates(chosen, inv, cutoff)
  OBVIOUS
<1>4. M!Build(S, inv, cutoff) =
        IF M!Refused(seen, chosen, inv, cutoff) THEN None
        ELSE [cutoff |-> cutoff,
              companies |-> CompaniesOf(chosen, inv, cutoff, all),
              identifiers |-> CikRowsOf(all) \cup TickerRowsOf(chosen, inv, cutoff, all),
              industries |-> IndustriesOf(chosen, all),
              inputs |-> InputsOf(chosen),
              inventory |-> IF M!InUse(inv, cutoff) THEN inv.bytes ELSE None]
  BY <1>1, <1>2, <1>3 DEF M!Build, CompaniesOf, IndustriesOf, CikRowsOf, TickerRowsOf, InputsOf
<1>5. MadeOf(M!Build(S, inv, cutoff), seen, chosen, inv, cutoff, all)
  BY <1>4 DEF MadeOf
<1> QED
  BY <1>1, <1>2, <1>3, <1>5

-----------------------------------------------------------------------------
\* The one row of a company.
OneRow(rows, c, row) == row \in rows /\ row.cik = c /\ \A r \in rows : r.cik = c => r = row

LEMMA OneRowIsOne ==
  ASSUME NEW rows, NEW c, NEW row, OneRow(rows, c, row)
  PROVE  M!One(rows, c) /\ M!RowOf(rows, c) = row
<1>1. {r \in rows : r.cik = c} = {row}
  BY DEF OneRow
<1>2. Cardinality({row}) = 1
  BY FS_Singleton
<1>3. M!Cardinality({row}) = Cardinality({row})
  BY DEF M!Cardinality, Cardinality
<1>4. M!One(rows, c)
  BY <1>1, <1>2, <1>3 DEF M!One
<1>5. M!RowOf(rows, c) = row
  BY DEF OneRow, M!RowOf
<1> QED
  BY <1>4, <1>5

LEMMA CompanyRowIs ==
  ASSUME NEW chosen, NEW inv, NEW cutoff, NEW c
  PROVE  /\ M!CompanyRow(chosen, inv, cutoff, c).cik = c
         /\ c \in DOMAIN chosen =>
              /\ M!CompanyRow(chosen, inv, cutoff, c).status = "ROOT_OBSERVED"
              /\ M!CompanyRow(chosen, inv, cutoff, c).forms = Payload[chosen[c].bytes].forms
         /\ c \notin DOMAIN chosen => M!CompanyRow(chosen, inv, cutoff, c).status = "CANDIDATE_ONLY"
  BY DEF M!CompanyRow

LEMMA IndustryIs ==
  ASSUME NEW chosen, NEW c
  PROVE  /\ M!Industry(chosen, c).cik = c
         /\ c \in DOMAIN chosen /\ Payload[chosen[c].bytes].sic # None =>
              /\ M!Industry(chosen, c).status = "CLASSIFIED"
              /\ M!Industry(chosen, c).sic = Payload[chosen[c].bytes].sic[1]
         /\ c \notin DOMAIN chosen \/ Payload[chosen[c].bytes].sic = None =>
              /\ M!Industry(chosen, c).status = "NOT_CLASSIFIED"
              /\ M!Industry(chosen, c).sic = None
  BY DEF M!Industry

\* The key of a published row.
KeyOf(row) == M!Key([ticker |-> <<row.value>>, exchange |-> row.exchange])

LEMMA IdentifiersAre ==
  ASSUME NEW c, NEW t
  PROVE  /\ M!CikRow(c).cik = c /\ M!CikRow(c).type = "CIK" /\ M!CikRow(c).value = c
         /\ M!CikRow(c).exchange = None
         /\ M!TickerRow(c, t).cik = c /\ M!TickerRow(c, t).type = "TICKER"
         /\ KeyOf(M!TickerRow(c, t)) = M!Key(t)
<1>1. M!TickerRow(c, t).value = t.ticker[1] /\ M!TickerRow(c, t).exchange = t.exchange
  BY DEF M!TickerRow
<1>2. <<t.ticker[1]>>[1] = t.ticker[1]
  OBVIOUS
<1>3. KeyOf(M!TickerRow(c, t)) = M!Key(t)
  BY <1>1, <1>2 DEF M!Key, KeyOf
<1> QED
  BY <1>3 DEF M!CikRow, M!TickerRow

LEMMA RowsOfABuild ==
  ASSUME NEW p, NEW seen, NEW chosen, NEW inv, NEW cutoff, NEW all, MadeOf(p, seen, chosen, inv, cutoff, all)
  PROVE  /\ {r.cik : r \in p.companies} = all
         /\ \A c \in all : OneRow(p.companies, c, M!CompanyRow(chosen, inv, cutoff, c))
         /\ \A c \in all : OneRow(p.industries, c, M!Industry(chosen, c))
<1> DEFINE Company(c) == M!CompanyRow(chosen, inv, cutoff, c)
           Line(c) == M!Industry(chosen, c)
<1>1. /\ p.companies = {Company(c) : c \in all} /\ p.industries = {Line(c) : c \in all}
  BY DEF MadeOf, CompaniesOf, IndustriesOf
<1>2. \A c : Company(c).cik = c /\ Line(c).cik = c
  BY CompanyRowIs, IndustryIs
<1> HIDE DEF Company, Line
<1>3. {r.cik : r \in p.companies} = all
  BY <1>1, <1>2
<1>4. \A c \in all : OneRow(p.companies, c, Company(c)) /\ OneRow(p.industries, c, Line(c))
  BY <1>1, <1>2 DEF OneRow
<1> QED
  BY <1>3, <1>4 DEF Company, Line

-----------------------------------------------------------------------------
\* The reader's rules.

LEMMA IdentifiersOfABuild ==
  ASSUME NEW p, NEW seen, NEW chosen, NEW inv, NEW cutoff, NEW all, MadeOf(p, seen, chosen, inv, cutoff, all),
         NEW r \in p.identifiers
  PROVE  \/ r.type = "CIK" /\ r.cik \in all /\ r = M!CikRow(r.cik)
         \/ /\ r.type = "TICKER" /\ r.cik \in all
            /\ \E t \in M!Tickers(chosen, inv, cutoff, r.cik) :
                 /\ r = M!TickerRow(r.cik, t)
                 /\ KeyOf(r) = M!Key(t)
<1>1. CASE r \in CikRowsOf(all)
  <2>1. PICK c \in all : r = M!CikRow(c)
    BY <1>1 DEF CikRowsOf
  <2>2. r.cik = c /\ r.type = "CIK"
    BY <2>1, IdentifiersAre
  <2> QED
    BY <2>1, <2>2
<1>2. CASE r \in TickerRowsOf(chosen, inv, cutoff, all)
  <2>1. PICK c \in all : r \in {M!TickerRow(c, t) : t \in M!Tickers(chosen, inv, cutoff, c)}
    BY <1>2 DEF TickerRowsOf
  <2>2. PICK t \in M!Tickers(chosen, inv, cutoff, c) : r = M!TickerRow(c, t)
    BY <2>1
  <2>3. r.cik = c /\ r.type = "TICKER"
    BY <2>2, IdentifiersAre
  <2>4. KeyOf(r) = M!Key(t)
    BY <2>2, IdentifiersAre
  <2> QED
    BY <2>1, <2>2, <2>3, <2>4
<1> QED
  BY <1>1, <1>2 DEF MadeOf

LEMMA CikRowsOfABuild ==
  ASSUME NEW p, NEW seen, NEW chosen, NEW inv, NEW cutoff, NEW all, MadeOf(p, seen, chosen, inv, cutoff, all),
         NEW c \in all
  PROVE  OneRow({r \in p.identifiers : r.type = "CIK"}, c, M!CikRow(c))
<1>1. M!CikRow(c) \in p.identifiers
  BY DEF MadeOf, CikRowsOf
<1>2. M!CikRow(c).type = "CIK" /\ M!CikRow(c).cik = c
  BY IdentifiersAre
<1>3. ASSUME NEW r \in p.identifiers, r.type = "CIK", r.cik = c PROVE r = M!CikRow(c)
  BY <1>3, IdentifiersOfABuild
<1> QED
  BY <1>1, <1>2, <1>3 DEF OneRow

\* The same ticker of two companies is refused.
LEMMA TickersAreOwned ==
  ASSUME NEW seen, NEW chosen, NEW inv, NEW cutoff,
         ~M!Refused(seen, chosen, inv, cutoff),
         NEW all, all = M!Candidates(chosen, inv, cutoff),
         NEW c \in all, NEW d \in all,
         NEW t \in M!Tickers(chosen, inv, cutoff, c), NEW u \in M!Tickers(chosen, inv, cutoff, d),
         M!Key(t) = M!Key(u)
  PROVE  c = d
<1> DEFINE owned == [x \in all |-> M!Tickers(chosen, inv, cutoff, x)]
<1>1. ~M!SharedTicker(owned)
  BY DEF M!Refused
<1>2. c \in DOMAIN owned /\ d \in DOMAIN owned /\ t \in owned[c] /\ u \in owned[d]
  OBVIOUS
<1> HIDE DEF owned
<1> QED
  BY <1>1, <1>2 DEF M!SharedTicker

LEMMA MadeIsReadable ==
  ASSUME NEW p, NEW S, NEW seen, NEW chosen, NEW inv, NEW cutoff, NEW all,
         S \subseteq Observations, seen = M!Observed(S, cutoff), chosen = M!Selected(seen),
         all = M!Candidates(chosen, inv, cutoff), MadeOf(p, seen, chosen, inv, cutoff, all),
         \A c \in DOMAIN chosen : chosen[c] \in Observations
  PROVE  M!ReaderAccepts(p)
<1> DEFINE tickers == {r \in p.identifiers : r.type = "TICKER"}
<1>1. \A c \in all : M!One(p.companies, c) /\ M!One(p.industries, c)
  BY RowsOfABuild, OneRowIsOne
<1>2. \A r \in p.identifiers : r.cik \in all
  BY IdentifiersOfABuild
<1>3. \A r \in p.industries : r.cik \in all
  <2> SUFFICES ASSUME NEW c \in all PROVE M!Industry(chosen, c).cik \in all
    BY DEF MadeOf, IndustriesOf
  <2> QED
    BY IndustryIs
<1>4. \A c \in all : M!One({r \in p.identifiers : r.type = "CIK"}, c)
  BY CikRowsOfABuild, OneRowIsOne
<1>5. ASSUME NEW r \in p.identifiers \ tickers PROVE r.value = r.cik /\ r.exchange = None
  <2>1. PICK c : c = r.cik
    OBVIOUS
  <2>2. r = M!CikRow(c)
    BY <2>1, IdentifiersOfABuild
  <2> QED
    BY <2>1, <2>2, IdentifiersAre
<1>6. ASSUME NEW r \in tickers, NEW s \in tickers,
             KeyOf(r)
               = KeyOf(s)
      PROVE  r.cik = s.cik
  <2>1. r.cik \in all /\ s.cik \in all
    BY IdentifiersOfABuild
  <2>2. PICK t \in M!Tickers(chosen, inv, cutoff, r.cik) :
          KeyOf(r) = M!Key(t)
    BY IdentifiersOfABuild
  <2>3. PICK u \in M!Tickers(chosen, inv, cutoff, s.cik) :
          KeyOf(s) = M!Key(u)
    BY IdentifiersOfABuild
  <2>4. M!Key(t) = M!Key(u)
    BY <1>6, <2>2, <2>3
  <2>5. ~M!Refused(seen, chosen, inv, cutoff)
    BY DEF MadeOf
  <2> QED
    BY <2>1, <2>4, <2>5, TickersAreOwned
<1>7. ASSUME NEW r \in p.industries PROVE (r.status = "CLASSIFIED") <=> (r.sic # None)
  <2>1. PICK c \in all : r = M!Industry(chosen, c)
    BY DEF MadeOf, IndustriesOf
  <2>2. c \in DOMAIN chosen /\ Payload[chosen[c].bytes].sic # None => Payload[chosen[c].bytes].sic[1] # None
    BY MetadataAssumption
  <2> QED
    BY <2>1, <2>2, IndustryIs
<1>8. {r.cik : r \in p.companies} = all
  BY RowsOfABuild
<1> QED
  BY <1>1, <1>2, <1>3, <1>4, <1>5, <1>6, <1>7, <1>8 DEF M!ReaderAccepts, KeyOf

-----------------------------------------------------------------------------
\* The snapshots seen are no later than some moment.
SeenBy(S, last) == last \in Nat /\ \A s \in S : s \in Observations /\ s.at <= last

LEMMA NewestIsThere ==
  ASSUME NEW R, NEW last, SeenBy(R, last), R # {}
  PROVE  M!Select(R) \in R
<1> DEFINE ages == {last - s.at : s \in R}
           paths == {s.path : s \in M!Latest(R)}
<1>1. \A s \in R : s.at \in Nat /\ s.path \in Nat /\ s.at <= last
  BY MetadataAssumption DEF SeenBy
<1>2. ages \in SUBSET Nat /\ ages # {}
  BY <1>1 DEF SeenBy
<1>3. PICK age \in ages : \A n \in ages : age <= n
  BY <1>2, LeastNumber
<1>4. PICK s \in R : age = last - s.at
  BY <1>3
<1>5. \A r \in R : r.at <= s.at
  <2> TAKE r \in R
  <2>1. last - s.at <= last - r.at
    BY <1>3, <1>4
  <2> QED
    BY <1>1, <2>1 DEF SeenBy
<1>6. s \in M!Latest(R)
  BY <1>5 DEF M!Latest
<1>7. M!Latest(R) \subseteq R
  BY DEF M!Latest
<1>8. paths \in SUBSET Nat /\ paths # {}
  BY <1>1, <1>6, <1>7
<1>9. PICK way \in paths : \A n \in paths : way <= n
  BY <1>8, LeastNumber
<1>10. \E t \in M!Latest(R) : \A r \in M!Latest(R) : t.path <= r.path
  BY <1>9
<1> QED
  BY <1>7, <1>10 DEF M!Select

LEMMA ChosenIsSeen ==
  ASSUME NEW S, NEW last, SeenBy(S, last), NEW cutoff, NEW seen, seen = M!Observed(S, cutoff),
         NEW chosen, chosen = M!Selected(seen), NEW c \in DOMAIN chosen
  PROVE  /\ chosen[c] \in S /\ M!AsOf(chosen[c].at, cutoff)
         /\ M!CikOf(chosen[c]) = c
<1> DEFINE rooted == {r \in seen : Payload[r.bytes].root}
<1>1. seen \subseteq S /\ \A s \in seen : M!AsOf(s.at, cutoff)
  BY DEF M!Observed, M!Considered
<1>2. chosen = [x \in {M!CikOf(s) : s \in rooted} |-> M!Select(M!Roots(seen, x))]
  BY DEF M!Selected
<1>3. PICK s \in rooted : c = M!CikOf(s)
  BY <1>2
<1>4. s \in M!Roots(seen, c)
  BY <1>3 DEF M!Roots
<1>5. M!Roots(seen, c) \subseteq seen /\ \A r \in M!Roots(seen, c) : M!CikOf(r) = c
  BY DEF M!Roots
<1>6. SeenBy(M!Roots(seen, c), last)
  BY <1>1, <1>5 DEF SeenBy
<1>7. M!Select(M!Roots(seen, c)) \in M!Roots(seen, c)
  BY <1>4, <1>6, NewestIsThere
<1>8. chosen[c] = M!Select(M!Roots(seen, c))
  BY <1>2
<1> QED
  BY <1>1, <1>5, <1>7, <1>8

-----------------------------------------------------------------------------
\* What a universe admits.

LEMMA NoReasons ==
  ASSUME NEW p, NEW u, NEW c, M!Reasons(p, u, c) = {},
         NEW row, row = M!RowOf(p.companies, c), NEW sic, sic = M!RowOf(p.industries, c).sic
  PROVE  /\ row.status = "ROOT_OBSERVED"
         /\ u.exchanges # {} => M!ExchangesOf(p, c) \cap u.exchanges # {}
         /\ u.forms \subseteq row.forms
         /\ u.sics # {} => sic # None /\ sic \in u.sics
<1> DEFINE Because(condition, reason) == IF condition THEN {reason} ELSE {}
<1>1. /\ Because(row.status # "ROOT_OBSERVED", "ROOT_METADATA_UNAVAILABLE") = {}
      /\ Because(u.exchanges # {} /\ M!ExchangesOf(p, c) = {}, "EXCHANGE_UNAVAILABLE") = {}
      /\ Because(u.exchanges # {} /\ M!ExchangesOf(p, c) # {} /\ M!ExchangesOf(p, c) \cap u.exchanges = {},
                 "EXCHANGE_EXCLUDED") = {}
      /\ Because(u.forms # {} /\ row.forms = {}, "FORM_INVENTORY_UNAVAILABLE") = {}
      /\ Because(row.forms # {} /\ ~(u.forms \subseteq row.forms), "FORM_EXCLUDED") = {}
      /\ Because(u.sics # {} /\ sic = None, "INDUSTRY_NOT_CLASSIFIED") = {}
      /\ Because(u.sics # {} /\ sic # None /\ sic \notin u.sics, "INDUSTRY_EXCLUDED") = {}
  <2>1. M!Reasons(p, u, c) =
          Because(row.status # "ROOT_OBSERVED", "ROOT_METADATA_UNAVAILABLE")
          \cup Because(u.ciks # {} /\ c \notin u.ciks, "CIK_EXCLUDED")
          \cup Because(u.exchanges # {} /\ M!ExchangesOf(p, c) = {}, "EXCHANGE_UNAVAILABLE")
          \cup Because(u.exchanges # {} /\ M!ExchangesOf(p, c) # {} /\ M!ExchangesOf(p, c) \cap u.exchanges = {},
                       "EXCHANGE_EXCLUDED")
          \cup Because(u.forms # {} /\ row.forms = {}, "FORM_INVENTORY_UNAVAILABLE")
          \cup Because(row.forms # {} /\ ~(u.forms \subseteq row.forms), "FORM_EXCLUDED")
          \cup Because(u.sics # {} /\ sic = None, "INDUSTRY_NOT_CLASSIFIED")
          \cup Because(u.sics # {} /\ sic # None /\ sic \notin u.sics, "INDUSTRY_EXCLUDED")
    BY DEF M!Reasons
  <2> HIDE DEF Because
  <2> QED
    BY <2>1
<1>2. \A condition, reason : Because(condition, reason) = {} => ~condition
  OBVIOUS
<1>3. row.status = "ROOT_OBSERVED"
  BY <1>1
<1>4. u.exchanges # {} => M!ExchangesOf(p, c) \cap u.exchanges # {}
  BY <1>1
<1>5. u.forms \subseteq row.forms
  BY <1>1
<1>6. u.sics # {} => sic # None /\ sic \in u.sics
  BY <1>1
<1> QED
  BY <1>3, <1>4, <1>5, <1>6

LEMMA AdmittedIsKnown ==
  ASSUME NEW p, NEW S, NEW last, SeenBy(S, last), NEW seen, NEW chosen, NEW inv, NEW cutoff, NEW all,
         seen = M!Observed(S, cutoff), chosen = M!Selected(seen),
         all = M!Candidates(chosen, inv, cutoff), MadeOf(p, seen, chosen, inv, cutoff, all),
         NEW u, NEW c \in M!Eligible(p, u)
  PROVE  /\ c \notin M!Unavailable(p, u)
         /\ \E s \in p.inputs :
              /\ M!CikOf(s) = c /\ M!AsOf(s.at, p.cutoff)
              /\ u.forms \subseteq Payload[s.bytes].forms
              /\ u.sics # {} => Payload[s.bytes].sic # None /\ Payload[s.bytes].sic[1] \in u.sics
         /\ u.exchanges = {} \/ \E r \in p.identifiers : r.cik = c /\ r.exchange \in u.exchanges
<1>1. c \in M!Ids(p) /\ M!Reasons(p, u, c) = {}
  BY DEF M!Eligible
<1>2. c \in all
  BY <1>1, RowsOfABuild DEF M!Ids
<1>3. PICK row : row = M!CompanyRow(chosen, inv, cutoff, c)
  OBVIOUS
<1>4. PICK line : line = M!Industry(chosen, c)
  OBVIOUS
<1>5. OneRow(p.companies, c, row) /\ OneRow(p.industries, c, line)
  BY <1>2, <1>3, <1>4, RowsOfABuild
<1>6. M!RowOf(p.companies, c) = row /\ M!RowOf(p.industries, c) = line
  BY <1>5, OneRowIsOne
<1>7. /\ row.status = "ROOT_OBSERVED"
      /\ u.exchanges # {} => M!ExchangesOf(p, c) \cap u.exchanges # {}
      /\ u.forms \subseteq row.forms
      /\ u.sics # {} => line.sic # None /\ line.sic \in u.sics
  BY <1>1, <1>6, NoReasons
<1>8. c \in DOMAIN chosen /\ row.forms = Payload[chosen[c].bytes].forms
  BY <1>3, <1>7, CompanyRowIs
<1>9. PICK s : s = chosen[c]
  OBVIOUS
<1>10. s \in p.inputs
  BY <1>8, <1>9 DEF MadeOf, InputsOf
<1>11. M!CikOf(s) = c /\ M!AsOf(s.at, p.cutoff)
  BY <1>8, <1>9, ChosenIsSeen DEF MadeOf
<1>12. u.sics # {} => Payload[s.bytes].sic # None /\ Payload[s.bytes].sic[1] \in u.sics
  BY <1>4, <1>7, <1>8, <1>9, IndustryIs
<1>13. u.forms \subseteq Payload[s.bytes].forms
  BY <1>7, <1>8, <1>9
<1>14. c \notin M!Unavailable(p, u)
  BY <1>1 DEF M!Unavailable
<1>15. u.exchanges # {} => \E r \in p.identifiers : r.cik = c /\ r.exchange \in u.exchanges
  BY <1>7 DEF M!ExchangesOf
<1> QED
  BY <1>10, <1>11, <1>12, <1>13, <1>14, <1>15

LEMMA PeersAreKnown ==
  ASSUME NEW p, NEW seen, NEW chosen, NEW inv, NEW cutoff, NEW all,
         MadeOf(p, seen, chosen, inv, cutoff, all), NEW c \in M!Ids(p), NEW e \in M!Peers(p, c)
  PROVE  c \in M!Peers(p, e) /\ M!RowOf(p.companies, e).status = "ROOT_OBSERVED"
<1>1. M!Ids(p) = all
  BY RowsOfABuild DEF M!Ids
<1>2. /\ e \in all /\ e # c /\ M!RowOf(p.industries, c).sic # None
      /\ M!RowOf(p.industries, e).sic = M!RowOf(p.industries, c).sic
  BY <1>1 DEF M!Peers
<1>3. c \in M!Peers(p, e)
  BY <1>1, <1>2 DEF M!Peers
<1>4. PICK row : row = M!CompanyRow(chosen, inv, cutoff, e)
  OBVIOUS
<1>5. PICK line : line = M!Industry(chosen, e)
  OBVIOUS
<1>6. OneRow(p.companies, e, row) /\ OneRow(p.industries, e, line)
  BY <1>2, <1>4, <1>5, RowsOfABuild
<1>7. M!RowOf(p.companies, e) = row /\ M!RowOf(p.industries, e) = line
  BY <1>6, OneRowIsOne
<1>8. e \in DOMAIN chosen
  BY <1>2, <1>5, <1>7, IndustryIs
<1> QED
  BY <1>3, <1>4, <1>7, <1>8, CompanyRowIs

-----------------------------------------------------------------------------
\* What is observed later does not change a build.
LEMMA LaterChangesNothing ==
  ASSUME NEW S, NEW s, NEW inv, NEW cutoff, cutoff # None, ~(s.at <= cutoff)
  PROVE  M!Build(S \cup {s}, inv, cutoff) = M!Build(S, inv, cutoff)
<1> DEFINE Made(seen) ==
      LET chosen == M!Selected(seen)
          all == M!Candidates(chosen, inv, cutoff)
      IN IF M!Refused(seen, chosen, inv, cutoff) THEN None
         ELSE [cutoff |-> cutoff,
               companies |-> {M!CompanyRow(chosen, inv, cutoff, c) : c \in all},
               identifiers |-> {M!CikRow(c) : c \in all}
                 \cup UNION {{M!TickerRow(c, t) : t \in M!Tickers(chosen, inv, cutoff, c)} : c \in all},
               industries |-> {M!Industry(chosen, c) : c \in all},
               inputs |-> {chosen[c] : c \in DOMAIN chosen},
               inventory |-> IF M!InUse(inv, cutoff) THEN inv.bytes ELSE None]
<1>1. M!Observed(S \cup {s}, cutoff) = M!Observed(S, cutoff)
  BY DEF M!Observed, M!Considered, M!AsOf
<1>2. /\ M!Build(S, inv, cutoff) = Made(M!Observed(S, cutoff))
      /\ M!Build(S \cup {s}, inv, cutoff) = Made(M!Observed(S \cup {s}, cutoff))
  BY Zenon DEF M!Build
<1> HIDE DEF Made
<1> QED
  BY <1>1, <1>2

\* A publication was made of snapshots seen, and would be made again.
PublicationIsKnown(pub, S, inv, moment) ==
  /\ pub = [build |-> pub.build, intact |-> pub.intact] /\ pub.intact \in BOOLEAN
  /\ pub.build # None
  /\ \E made \in SUBSET Observations, last \in Nat, cutoff \in Nat \cup {None} :
       /\ SeenBy(made, last)
       /\ pub.build = M!Build(made, inv, cutoff) /\ pub.build.cutoff = cutoff
       /\ cutoff # None => cutoff < moment /\ pub.build = M!Build(S, inv, cutoff)

ShelvesAreKnown(shelves, S, inv, moment) ==
  /\ shelves = [d \in Destinations |-> shelves[d]]
  /\ \A d \in Destinations : shelves[d] # None => PublicationIsKnown(shelves[d], S, inv, moment)

MetadataInv ==
  /\ SeenBy(cached, now)
  /\ ShelvesAreKnown(published, cached, inventory, now)

LEMMA MetadataStarts == M!Init => MetadataInv
<1> SUFFICES ASSUME M!Init PROVE MetadataInv
  OBVIOUS
<1>1. SeenBy(cached, now)
  BY DEF M!Init, SeenBy
<1>2. ShelvesAreKnown(published, cached, inventory, now)
  BY DEF M!Init, ShelvesAreKnown
<1> QED
  BY <1>1, <1>2 DEF MetadataInv

LEMMA MetadataStays == MetadataInv /\ UNCHANGED metadataVars => MetadataInv'
  BY DEF MetadataInv, metadataVars, SeenBy, ShelvesAreKnown, PublicationIsKnown

LEMMA ObserveStep ==
  ASSUME MetadataInv, NEW s \in Observations, M!Observe(s)
  PROVE  MetadataInv'
<1>1. /\ s.at = now /\ cached' = cached \cup {s} /\ now' = now
      /\ published' = published /\ inventory' = inventory
  BY DEF M!Observe
<1>2. SeenBy(cached', now')
  BY <1>1, MetadataAssumption DEF MetadataInv, SeenBy
<1>3. ASSUME NEW pub, PublicationIsKnown(pub, cached, inventory, now)
      PROVE  PublicationIsKnown(pub, cached \cup {s}, inventory, now)
  <2>1. PICK made \in SUBSET Observations, last \in Nat, cutoff \in Nat \cup {None} :
          /\ SeenBy(made, last)
          /\ pub.build = M!Build(made, inventory, cutoff) /\ pub.build.cutoff = cutoff
          /\ cutoff # None => cutoff < now /\ pub.build = M!Build(cached, inventory, cutoff)
    BY <1>3 DEF PublicationIsKnown
  <2>2. cutoff # None => pub.build = M!Build(cached \cup {s}, inventory, cutoff)
    <3> SUFFICES ASSUME cutoff # None PROVE M!Build(cached \cup {s}, inventory, cutoff) = M!Build(cached, inventory, cutoff)
      BY <2>1
    <3>1. ~(s.at <= cutoff)
      BY <1>1, <2>1, MetadataAssumption
    <3> QED
      BY <3>1, LaterChangesNothing
  <2> QED
    BY <1>3, <2>1, <2>2 DEF PublicationIsKnown
<1>4. ShelvesAreKnown(published, cached \cup {s}, inventory, now)
  BY <1>3 DEF MetadataInv, ShelvesAreKnown
<1>5. ShelvesAreKnown(published', cached', inventory', now')
  BY <1>1, <1>4
<1> QED
  BY <1>2, <1>5 DEF MetadataInv

LEMMA PassStep ==
  ASSUME MetadataInv, M!Pass
  PROVE  MetadataInv'
<1>1. /\ now' = now + 1 /\ cached' = cached /\ published' = published /\ inventory' = inventory
      /\ now \in Nat
  BY DEF M!Pass, MetadataInv, SeenBy
<1>2. SeenBy(cached', now')
  BY <1>1, MetadataAssumption DEF MetadataInv, SeenBy
<1>3. ASSUME NEW pub, PublicationIsKnown(pub, cached, inventory, now)
      PROVE  PublicationIsKnown(pub, cached, inventory, now + 1)
  <2>1. PICK made \in SUBSET Observations, last \in Nat, cutoff \in Nat \cup {None} :
          /\ SeenBy(made, last)
          /\ pub.build = M!Build(made, inventory, cutoff) /\ pub.build.cutoff = cutoff
          /\ cutoff # None => cutoff < now /\ pub.build = M!Build(cached, inventory, cutoff)
    BY <1>3 DEF PublicationIsKnown
  <2>2. cutoff # None => cutoff < now + 1
    BY <1>1, <2>1
  <2> QED
    BY <1>3, <2>1, <2>2 DEF PublicationIsKnown
<1>4. ShelvesAreKnown(published, cached, inventory, now + 1)
  BY <1>3 DEF MetadataInv, ShelvesAreKnown
<1>5. ShelvesAreKnown(published', cached', inventory', now')
  BY <1>1, <1>4
<1> QED
  BY <1>2, <1>5 DEF MetadataInv

LEMMA ShelfStep ==
  ASSUME NEW shelves, NEW S, NEW inv, NEW moment, ShelvesAreKnown(shelves, S, inv, moment),
         NEW d \in Destinations, NEW pub, PublicationIsKnown(pub, S, inv, moment)
  PROVE  ShelvesAreKnown([shelves EXCEPT ![d] = pub], S, inv, moment)
  BY DEF ShelvesAreKnown

LEMMA FlagSet ==
  \A b, kept, flag : [[build |-> b, intact |-> kept] EXCEPT !.intact = flag] = [build |-> b, intact |-> flag]
  OBVIOUS

LEMMA DamageStep ==
  ASSUME MetadataInv, NEW d \in Destinations, M!Damage(d)
  PROVE  MetadataInv'
<1>1. PICK pub : pub = published[d]
  OBVIOUS
<1>2. PublicationIsKnown(pub, cached, inventory, now)
  BY <1>1 DEF M!Damage, MetadataInv, ShelvesAreKnown
<1>3. PICK b : b = pub.build
  OBVIOUS
<1>4. PICK kept : pub = [build |-> b, intact |-> kept]
  BY <1>2, <1>3 DEF PublicationIsKnown
<1>5. [pub EXCEPT !.intact = FALSE] = [build |-> b, intact |-> FALSE]
  <2>1. [pub EXCEPT !.intact = FALSE] = [[build |-> b, intact |-> kept] EXCEPT !.intact = FALSE]
    BY <1>4, Zenon
  <2>2. [[build |-> b, intact |-> kept] EXCEPT !.intact = FALSE] = [build |-> b, intact |-> FALSE]
    BY FlagSet
  <2> QED
    BY <2>1, <2>2, Zenon
<1>6. PICK new : new = [build |-> b, intact |-> FALSE]
  OBVIOUS
<1>7. new = [build |-> new.build, intact |-> new.intact] /\ new.intact = FALSE /\ new.build = pub.build
  BY <1>3, <1>6
<1>8. PublicationIsKnown(new, cached, inventory, now)
  BY <1>2, <1>7 DEF PublicationIsKnown
<1>9. published' = [published EXCEPT ![d] = new]
  <2>1. published' = [published EXCEPT ![d] = [published[d] EXCEPT !.intact = FALSE]]
    BY DEF M!Damage
  <2> QED
    BY <1>1, <1>5, <1>6, <2>1
<1>10. ShelvesAreKnown(published', cached, inventory, now)
  BY <1>8, <1>9, ShelfStep DEF MetadataInv
<1> QED
  BY <1>10 DEF M!Damage, MetadataInv

LEMMA PublishStep ==
  ASSUME MetadataInv, NEW d \in Destinations, NEW cutoff \in {None} \cup {s.at : s \in Observations},
         M!Publish(d, cutoff)
  PROVE  MetadataInv'
<1>1. PICK b : b = M!Build(cached, inventory, cutoff)
  OBVIOUS
<1>2. /\ cutoff # None => cutoff < now
      /\ b # None /\ published' = [published EXCEPT ![d] = [build |-> b, intact |-> TRUE]]
      /\ cached' = cached /\ inventory' = inventory /\ now' = now
  BY <1>1 DEF M!Publish
<1>3. cutoff \in Nat \cup {None}
  BY MetadataAssumption
<1>4. b.cutoff = cutoff
  BY <1>1, <1>2, BuildIsMade DEF MadeOf
<1>5. PICK new : new = [build |-> b, intact |-> TRUE]
  OBVIOUS
<1>6. new = [build |-> new.build, intact |-> new.intact] /\ new.intact = TRUE /\ new.build = b
  BY <1>5
<1>7. SeenBy(cached, now) /\ now \in Nat /\ cached \in SUBSET Observations
  BY DEF MetadataInv, SeenBy
<1>8. PublicationIsKnown(new, cached, inventory, now)
  BY <1>1, <1>2, <1>3, <1>4, <1>6, <1>7 DEF PublicationIsKnown
<1>9. ShelvesAreKnown(published', cached, inventory, now)
  BY <1>2, <1>5, <1>8, ShelfStep DEF MetadataInv
<1> QED
  BY <1>2, <1>9 DEF MetadataInv

LEMMA MetadataKeeps == MetadataInv /\ M!Next => MetadataInv'
  BY ObserveStep, PassStep, DamageStep, PublishStep DEF M!Next

-----------------------------------------------------------------------------
LEMMA KnownIsHonest == MetadataInv => M!MetadataIsHonest
<1> SUFFICES ASSUME MetadataInv PROVE M!MetadataIsHonest
  OBVIOUS
<1>1. M!BuildsAreReadable
  <2> SUFFICES ASSUME NEW cutoff, M!Build(cached, inventory, cutoff) # None
               PROVE  M!ReaderAccepts(M!Build(cached, inventory, cutoff))
    BY DEF M!BuildsAreReadable
  <2>1. PICK p : p = M!Build(cached, inventory, cutoff)
    OBVIOUS
  <2>2. PICK seen, chosen, all :
          /\ seen = M!Observed(cached, cutoff) /\ chosen = M!Selected(seen)
          /\ all = M!Candidates(chosen, inventory, cutoff)
          /\ MadeOf(p, seen, chosen, inventory, cutoff, all)
    BY <2>1, BuildIsMade
  <2>3. SeenBy(cached, now) /\ cached \subseteq Observations
    BY DEF MetadataInv, SeenBy
  <2>4. \A c \in DOMAIN chosen : chosen[c] \in Observations
    BY <2>2, <2>3, ChosenIsSeen
  <2>5. M!ReaderAccepts(p)
    BY <2>2, <2>3, <2>4, MadeIsReadable
  <2> QED
    BY <2>1, <2>5
<1>2. M!Reproducible
  <2> SUFFICES ASSUME NEW d \in Destinations, published[d] # None, published[d].intact,
                      published[d].build.cutoff # None
               PROVE  M!Outcome(d, M!Build(cached, inventory, published[d].build.cutoff)) = "REUSED"
    BY DEF M!Reproducible
  <2>1. published[d].build = M!Build(cached, inventory, published[d].build.cutoff)
    BY DEF MetadataInv, ShelvesAreKnown, PublicationIsKnown
  <2> QED
    BY <2>1 DEF M!Outcome
<1>3. M!EligibleIsKnown
  <2> SUFFICES ASSUME NEW d \in Destinations, NEW u \in Universes, published[d] # None,
                      NEW p, p = published[d].build
               PROVE
         /\ \A c \in M!Eligible(p, u) :
              /\ c \notin M!Unavailable(p, u)
              /\ \E s \in p.inputs :
                   /\ M!CikOf(s) = c /\ M!AsOf(s.at, p.cutoff)
                   /\ u.forms \subseteq Payload[s.bytes].forms
                   /\ u.sics # {} => Payload[s.bytes].sic # None /\ Payload[s.bytes].sic[1] \in u.sics
              /\ u.exchanges = {} \/ \E r \in p.identifiers : r.cik = c /\ r.exchange \in u.exchanges
         /\ \A c \in M!Ids(p) : \A e \in M!Peers(p, c) :
              c \in M!Peers(p, e) /\ M!RowOf(p.companies, e).status = "ROOT_OBSERVED"
    BY DEF M!EligibleIsKnown
  <2>1. PICK made \in SUBSET Observations, last \in Nat, cutoff \in Nat \cup {None} :
          SeenBy(made, last) /\ p = M!Build(made, inventory, cutoff) /\ p # None
    BY DEF MetadataInv, ShelvesAreKnown, PublicationIsKnown
  <2>2. PICK seen, chosen, all :
          /\ seen = M!Observed(made, cutoff) /\ chosen = M!Selected(seen)
          /\ all = M!Candidates(chosen, inventory, cutoff)
          /\ MadeOf(p, seen, chosen, inventory, cutoff, all)
    BY <2>1, BuildIsMade
  <2> QED
    BY <2>1, <2>2, AdmittedIsKnown, PeersAreKnown
<1> QED
  BY <1>1, <1>2, <1>3 DEF M!MetadataIsHonest

-----------------------------------------------------------------------------
(* Descriptions.  A reader that was verified holds the pinned records.     *)

HoldsThePinned(r) ==
  /\ r.records = r.pin.records
  /\ D!EmbeddedPlan(r.pin, r.records)
  /\ D!RecordsValid(r.records, r.pin.plan.mode)

ReaderIsChecked ==
  /\ reader = D!NoReader \/ reader = [pc |-> reader.pc, pin |-> reader.pin, records |-> reader.records]
  /\ reader.pc = "open" => HoldsThePinned(reader)

DescriptionInv == ReaderIsChecked /\ D!ShownIsPinnedAndCurrent

LEMMA DescriptionsStart == D!Init => DescriptionInv
  BY DEF D!Init, DescriptionInv, ReaderIsChecked, D!ShownIsPinnedAndCurrent, D!NoReader

LEMMA DescriptionsStay == DescriptionInv /\ UNCHANGED descriptionVars => DescriptionInv'
  BY DEF DescriptionInv, ReaderIsChecked, HoldsThePinned, D!ShownIsPinnedAndCurrent, D!NoReader,
         D!EmbeddedPlan, D!RecordsValid, D!Covered, D!Approved, D!Scope, D!Usable, D!InWindow, descriptionVars

\* Steps that leave the reader and the projection alone.
LEMMA ReaderKept == DescriptionInv /\ UNCHANGED <<reader, shown>> => DescriptionInv'
  BY DEF DescriptionInv, ReaderIsChecked, HoldsThePinned, D!ShownIsPinnedAndCurrent, D!NoReader,
         D!EmbeddedPlan, D!RecordsValid, D!Covered, D!Approved, D!Scope, D!Usable, D!InWindow

LEMMA ShownKept == DescriptionInv /\ UNCHANGED shown => D!ShownIsPinnedAndCurrent'
  BY DEF DescriptionInv, D!ShownIsPinnedAndCurrent, D!Approved, D!Scope, D!InWindow

LEMMA OpenReaderStep == DescriptionInv /\ D!OpenReader => DescriptionInv'
<1> SUFFICES ASSUME DescriptionInv, D!OpenReader PROVE DescriptionInv'
  OBVIOUS
<1>1. reader' = [pc |-> "read", pin |-> pin, records |-> shelf.records] /\ UNCHANGED shown
  BY DEF D!OpenReader
<1>2. ReaderIsChecked'
  BY <1>1 DEF ReaderIsChecked
<1> QED
  BY <1>1, <1>2, ShownKept DEF DescriptionInv

LEMMA VerifyOpenedStep == DescriptionInv /\ D!VerifyOpened => DescriptionInv'
<1> SUFFICES ASSUME DescriptionInv, D!VerifyOpened PROVE DescriptionInv'
  OBVIOUS
<1>1. /\ reader = [pc |-> "read", pin |-> reader.pin, records |-> reader.records]
      /\ UNCHANGED shown
  BY DEF D!VerifyOpened, DescriptionInv, ReaderIsChecked, D!NoReader
<1>2. CASE D!Verifies(reader.pin, reader.records)
  <2>1. reader' = [pc |-> "open", pin |-> reader.pin, records |-> reader.records]
    BY <1>1, <1>2 DEF D!VerifyOpened
  <2>2. HoldsThePinned(reader)
    BY <1>2 DEF HoldsThePinned, D!Verifies, D!CachedIsCurrent
  <2>3. HoldsThePinned(reader')
    BY <2>1, <2>2 DEF HoldsThePinned
  <2>4. ReaderIsChecked'
    BY <2>1, <2>3 DEF ReaderIsChecked, HoldsThePinned, D!EmbeddedPlan, D!RecordsValid, D!Covered,
                      D!Approved, D!Scope, D!Usable
  <2> QED
    BY <1>1, <2>4, ShownKept DEF DescriptionInv
<1>3. CASE ~D!Verifies(reader.pin, reader.records)
  <2>1. reader' = D!NoReader
    BY <1>3 DEF D!VerifyOpened
  <2>2. ReaderIsChecked'
    BY <2>1 DEF ReaderIsChecked, D!NoReader
  <2> QED
    BY <1>1, <2>2, ShownKept DEF DescriptionInv
<1> QED
  BY <1>2, <1>3

LEMMA ShowStep ==
  ASSUME NEW c, DescriptionInv, D!Show(c)
  PROVE  DescriptionInv'
<1>1. /\ HoldsThePinned(reader) /\ c \in DOMAIN reader.records
      /\ shown' = [company |-> c, day |-> day, pin |-> reader.pin,
                   text |-> IF reader.records[c].entry.status = "AVAILABLE" /\ D!Current(reader.records[c], day)
                              THEN reader.records[c].text ELSE None]
      /\ UNCHANGED reader
  BY DEF D!Show, DescriptionInv, ReaderIsChecked
<1>2. ReaderIsChecked'
  BY <1>1 DEF DescriptionInv, ReaderIsChecked, HoldsThePinned, D!NoReader, D!EmbeddedPlan,
              D!RecordsValid, D!Covered, D!Approved, D!Scope, D!Usable
<1>3. ASSUME shown'.text # None PROVE
        LET entry == shown'.pin.plan.entries[shown'.company]
        IN /\ shown'.text = shown'.pin.records[shown'.company].text
           /\ entry.status = "AVAILABLE" /\ D!Approved(entry, shown'.pin.plan.mode)
           /\ D!InWindow(entry, shown'.day)
  <2>1. /\ reader.records[c].entry.status = "AVAILABLE" /\ D!Current(reader.records[c], day)
        /\ shown'.text = reader.records[c].text
        /\ shown'.company = c /\ shown'.day = day /\ shown'.pin = reader.pin
    BY <1>1, <1>3
  <2>2. /\ reader.records = reader.pin.records
        /\ reader.records[c].entry = reader.pin.plan.entries[c]
        /\ D!Approved(reader.records[c].entry, reader.pin.plan.mode)
    BY <1>1, <2>1 DEF HoldsThePinned, D!EmbeddedPlan, D!RecordsValid
  <2> QED
    BY <2>1, <2>2 DEF D!Current
<1> QED
  BY <1>2, <1>3 DEF DescriptionInv, D!ShownIsPinnedAndCurrent, D!Approved, D!Scope, D!InWindow

LEMMA DescriptionsKeep == DescriptionInv /\ D!Next => DescriptionInv'
<1> SUFFICES ASSUME DescriptionInv, D!Next PROVE DescriptionInv'
  OBVIOUS
<1>1. CASE D!NextDay \/ D!Edit \/ D!EditShelf
  BY <1>1, ReaderKept DEF D!NextDay, D!Edit, D!EditShelf
<1>2. CASE D!LoadPlan \/ D!ReviewPlan \/ D!Record \/ D!Seal
  BY <1>2, ReaderKept DEF D!LoadPlan, D!ReviewPlan, D!Record, D!Seal
<1>3. CASE D!OpenReader \/ D!VerifyOpened
  BY <1>3, OpenReaderStep, VerifyOpenedStep
<1>4. CASE \E c \in D!ToSet(Described) : D!Show(c)
  BY <1>4, ShowStep
<1> QED
  BY <1>1, <1>2, <1>3, <1>4 DEF D!Next

-----------------------------------------------------------------------------
(* Pages.  How deep a token lies inside an element.                        *)

\* T is S with one more.
GrowsBy(S, n, T) == IsFiniteSet(S) /\ n \notin S /\ T = S \cup {n}

\* It has one more in K, or as many.
Counted(S, n, T, K) ==
  /\ Cardinality(S \cap K) \in Nat
  /\ Cardinality(T \cap K) = Cardinality(S \cap K) + (IF n \in K THEN 1 ELSE 0)

LEMMA SetGrows ==
  ASSUME NEW S, NEW n, NEW T, GrowsBy(S, n, T), NEW K
  PROVE  Counted(S, n, T, K)
<1> DEFINE before == S \cap K
           later == T \cap K
<1>1. IsFiniteSet(before)
  <2>1. IsFiniteSet(S) /\ before \subseteq S
    BY DEF GrowsBy
  <2> QED
    BY <2>1, FS_Subset
<1>2. Cardinality(before) \in Nat
  BY <1>1, FS_CardinalityType
<1>3. later = IF n \in K THEN before \cup {n} ELSE before
  BY DEF GrowsBy
<1>4. n \notin before
  BY DEF GrowsBy
<1>5. Cardinality(later) = Cardinality(before) + (IF n \in K THEN 1 ELSE 0)
  <2> HIDE DEF before, later
  <2>1. CASE n \in K
    <3>1. Cardinality(before \cup {n}) = Cardinality(before) + 1
      BY <1>1, <1>4, FS_AddElement
    <3> QED
      BY <1>3, <2>1, <3>1
  <2>2. CASE n \notin K
    BY <1>2, <1>3, <2>2
  <2> QED
    BY <2>1, <2>2
<1> QED
  BY <1>2, <1>5 DEF Counted

LEMMA SameCardinality == \A S : D!Cardinality(S) = Cardinality(S)
  BY Zenon DEF D!Cardinality, Cardinality

LEMMA DepthStep ==
  ASSUME NEW p, NEW a \in Nat, NEW n \in Nat, a <= n
  PROVE  /\ D!Depth(p, a, n) \in Int /\ D!Depth(p, a, n - 1) \in Int
         /\ D!Depth(p, a, n) = D!Depth(p, a, n - 1) + (IF p[n].kind = "open" THEN 1 ELSE 0)
                                                   - (IF p[n].kind = "close" THEN 1 ELSE 0)
<1>1. PICK S : S = a .. n - 1
  OBVIOUS
<1>2. PICK T : T = a .. n
  OBVIOUS
<1>3. IsFiniteSet(S)
  BY <1>1, FS_Interval
<1>x. PICK x : x = n
  OBVIOUS
<1>4. GrowsBy(S, x, T) /\ x \in T /\ S \subseteq T
  <2>1. n \notin S /\ T = S \cup {n}
    BY <1>1, <1>2
  <2> QED
    BY <1>3, <1>x, <2>1 DEF GrowsBy
<1>5. PICK Opens : Opens = {i \in T : p[i].kind = "open"}
  OBVIOUS
<1>6. PICK Closes : Closes = {i \in T : p[i].kind = "close"}
  OBVIOUS
<1>7. Counted(S, x, T, Opens)
  BY <1>4, SetGrows
<1>8. Counted(S, x, T, Closes)
  BY <1>4, SetGrows
<1>9. /\ T \cap Opens = {i \in T : p[i].kind = "open"} /\ T \cap Closes = {i \in T : p[i].kind = "close"}
      /\ S \cap Opens = {i \in S : p[i].kind = "open"} /\ S \cap Closes = {i \in S : p[i].kind = "close"}
  BY <1>4, <1>5, <1>6
<1>10. (x \in Opens <=> p[n].kind = "open") /\ (x \in Closes <=> p[n].kind = "close")
  BY <1>4, <1>5, <1>6, <1>x
<1>11. /\ D!Depth(p, a, n) = Cardinality(T \cap Opens) - Cardinality(T \cap Closes)
       /\ D!Depth(p, a, n - 1) = Cardinality(S \cap Opens) - Cardinality(S \cap Closes)
  BY <1>1, <1>2, <1>9, SameCardinality, Zenon DEF D!Depth
<1> QED
  BY <1>7, <1>8, <1>10, <1>11 DEF Counted

LEMMA DepthStart ==
  ASSUME NEW p, NEW a \in Nat, p[a].kind = "open"
  PROVE  D!Depth(p, a, a) = 1
<1>1. {i \in a .. a : p[i].kind = "open"} = {a} /\ {i \in a .. a : p[i].kind = "close"} = {}
  OBVIOUS
<1>2. Cardinality({a}) = 1 /\ Cardinality({}) = 0
  BY FS_Singleton, FS_EmptySet
<1>3. D!Depth(p, a, a) = Cardinality({a}) - Cardinality({})
  BY <1>1, SameCardinality, Zenon DEF D!Depth
<1> QED
  BY <1>2, <1>3

-----------------------------------------------------------------------------
(* The parser's stack.                                                     *)

Tags == {t.tag : t \in Tokens}
Skipped(st) == {k \in 1 .. Len(st) : st[k] \in D!Ignored}

LEMMA SkippedGrows ==
  ASSUME NEW st \in Seq(Tags), NEW tag \in Tags
  PROVE  /\ Append(st, tag) \in Seq(Tags) /\ Len(Append(st, tag)) = Len(st) + 1
         /\ \A k \in 1 .. Len(st) : Append(st, tag)[k] = st[k]
         /\ Append(st, tag)[Len(st) + 1] = tag
         /\ Cardinality(Skipped(st)) \in Nat
         /\ Cardinality(Skipped(Append(st, tag))) =
              Cardinality(Skipped(st)) + (IF tag \in D!Ignored THEN 1 ELSE 0)
<1> DEFINE new == Append(st, tag)
           h == Len(st)
           K == Skipped(new)
<1>1. /\ new \in Seq(Tags) /\ Len(new) = h + 1 /\ h \in Nat
      /\ \A k \in 1 .. h : new[k] = st[k]
      /\ new[h + 1] = tag
  OBVIOUS
<1>2. PICK S : S = 1 .. h
  OBVIOUS
<1>3. PICK T : T = 1 .. h + 1
  OBVIOUS
<1>5. PICK n : n = h + 1
  OBVIOUS
<1>6. GrowsBy(S, n, T)
  <2>1. IsFiniteSet(1 .. h)
    <3>1. 1 \in Int /\ h \in Int
      BY <1>1
    <3> HIDE DEF h
    <3> QED
      BY <3>1, FS_Interval
  <2>2. n \notin S /\ T = S \cup {n}
    BY <1>1, <1>2, <1>3, <1>5
  <2> QED
    BY <1>2, <2>1, <2>2 DEF GrowsBy
<1>7. Skipped(st) = S \cap K /\ Skipped(new) = T \cap K /\ (n \in K <=> tag \in D!Ignored)
  <2> HIDE DEF new
  <2>1. \A k \in 1 .. h : k \in 1 .. h + 1
    BY <1>1
  <2>2. \A k \in 1 .. h : k \in K <=> st[k] \in D!Ignored
    BY <1>1, <2>1 DEF Skipped
  <2>3. h + 1 \in 1 .. h + 1
    BY <1>1
  <2> QED
    BY <1>1, <1>2, <1>3, <1>5, <2>1, <2>2, <2>3 DEF Skipped
<1> HIDE DEF new, K
<1>8. Counted(S, n, T, K)
  BY <1>6, SetGrows
<1>4. /\ Cardinality(Skipped(st)) \in Nat
      /\ Cardinality(Skipped(new)) = Cardinality(Skipped(st)) + (IF tag \in D!Ignored THEN 1 ELSE 0)
  BY <1>7, <1>8 DEF Counted
<1> QED
  BY <1>1, <1>4 DEF new

LEMMA SkippedShrinks ==
  ASSUME NEW st \in Seq(Tags), st # <<>>
  PROVE  /\ D!Front(st) \in Seq(Tags) /\ Len(D!Front(st)) = Len(st) - 1 /\ Len(st) \in Nat \ {0}
         /\ \A k \in 1 .. Len(st) - 1 : D!Front(st)[k] = st[k]
         /\ D!Last(st) = st[Len(st)] /\ D!Last(st) \in Tags
         /\ Cardinality(Skipped(st)) \in Nat /\ Cardinality(Skipped(D!Front(st))) \in Nat
         /\ Cardinality(Skipped(D!Front(st))) =
              Cardinality(Skipped(st)) - (IF D!Last(st) \in D!Ignored THEN 1 ELSE 0)
<1> DEFINE old == D!Front(st)
           tag == D!Last(st)
<1>1. /\ old \in Seq(Tags) /\ Len(old) = Len(st) - 1 /\ Len(st) \in Nat \ {0}
      /\ \A k \in 1 .. Len(st) - 1 : old[k] = st[k]
      /\ tag = st[Len(st)] /\ tag \in Tags
  <2>1. Len(st) \in Nat \ {0}
    OBVIOUS
  <2>2. old = SubSeq(st, 1, Len(st) - 1) /\ tag = st[Len(st)]
    BY DEF D!Front, D!Last
  <2>3. /\ SubSeq(st, 1, Len(st) - 1) \in Seq(Tags)
        /\ Len(SubSeq(st, 1, Len(st) - 1)) = Len(st) - 1
        /\ \A k \in 1 .. Len(st) - 1 : SubSeq(st, 1, Len(st) - 1)[k] = st[k]
    <3> DEFINE h == Len(st) - 1
    <3>1. h \in Nat /\ \A i \in 1 .. h : st[i] \in Tags
      BY <2>1
    <3> HIDE DEF h
    <3>2. /\ SubSeq(st, 1, h) \in Seq(Tags)
          /\ Len(SubSeq(st, 1, h)) = IF 1 <= h THEN h - 1 + 1 ELSE 0
          /\ \A i \in 1 .. h - 1 + 1 : SubSeq(st, 1, h)[i] = st[1 + i - 1]
      BY <3>1, SubSeqProperties
    <3>3. Len(SubSeq(st, 1, h)) = h
      BY <3>1, <3>2
    <3>4. ASSUME NEW i \in 1 .. h PROVE SubSeq(st, 1, h)[i] = st[i]
      <4>1. i \in 1 .. h - 1 + 1 /\ 1 + i - 1 = i
        BY <3>1
      <4> QED
        BY <3>2, <4>1
    <3> QED
      BY <3>2, <3>3, <3>4 DEF h
  <2>4. st[Len(st)] \in Tags
    BY <2>1
  <2> HIDE DEF old, tag
  <2> QED
    BY <2>1, <2>2, <2>3, <2>4
<1> HIDE DEF old, tag
<1>2. /\ Len(Append(old, tag)) = Len(st) /\ \A k \in 1 .. Len(st) : Append(old, tag)[k] = st[k]
      /\ Append(old, tag) \in Seq(Tags)
  BY <1>1
<1>3. Skipped(Append(old, tag)) = Skipped(st)
  BY <1>2 DEF Skipped
<1>4. /\ Cardinality(Skipped(old)) \in Nat
      /\ Cardinality(Skipped(st)) = Cardinality(Skipped(old)) + (IF tag \in D!Ignored THEN 1 ELSE 0)
  BY <1>1, <1>3, SkippedGrows
<1>5. /\ Cardinality(Skipped(st)) \in Nat
      /\ Cardinality(Skipped(old)) = Cardinality(Skipped(st)) - (IF tag \in D!Ignored THEN 1 ELSE 0)
  BY <1>4
<1> QED
  BY <1>1, <1>4, <1>5 DEF old, tag

LEMMA SkippedIsEmpty ==
  ASSUME NEW st \in Seq(Tags)
  PROVE  /\ Cardinality(Skipped(st)) \in Nat
         /\ Cardinality(Skipped(st)) = 0 <=> Skipped(st) = {}
<1>1. IsFiniteSet(1 .. Len(st))
  BY FS_Interval
<1>2. IsFiniteSet(Skipped(st))
  BY <1>1, FS_Subset DEF Skipped
<1> QED
  BY <1>2, FS_EmptySet, FS_CardinalityType

KindOf(p, i) == p[i].kind
TagOf(p, i) == p[i].tag

Moved(p, a, m, n) ==
  /\ D!Depth(p, a, n) \in Int /\ D!Depth(p, a, m) \in Int
  /\ KindOf(p, n) = "open" => D!Depth(p, a, n) = D!Depth(p, a, m) + 1
  /\ KindOf(p, n) = "close" => D!Depth(p, a, n) = D!Depth(p, a, m) - 1
  /\ KindOf(p, n) \notin {"open", "close"} => D!Depth(p, a, n) = D!Depth(p, a, m)

LEMMA DepthNext ==
  ASSUME NEW p, NEW m \in Nat, NEW n \in Nat, m < n, n <= m + 1, NEW a \in Nat, a <= m
  PROVE  Moved(p, a, m, n)
<1>1. n \in Nat /\ a <= n /\ n - 1 = m
  OBVIOUS
<1>2. /\ D!Depth(p, a, n) \in Int /\ D!Depth(p, a, m) \in Int
      /\ D!Depth(p, a, n) = D!Depth(p, a, m) + (IF KindOf(p, n) = "open" THEN 1 ELSE 0)
                                             - (IF KindOf(p, n) = "close" THEN 1 ELSE 0)
  BY <1>1, DepthStep DEF KindOf
<1> QED
  BY <1>2 DEF KindOf, Moved

LEMMA DepthsNext ==
  ASSUME NEW p, NEW m \in Nat, NEW n \in Nat, m < n, n <= m + 1, NEW h \in Nat, NEW pos,
         \A k \in 1 .. h : pos[k] \in Nat /\ pos[k] <= m
  PROVE  \A k \in 1 .. h : Moved(p, pos[k], m, n)
<1> TAKE k \in 1 .. h
<1>1. pos[k] \in Nat /\ pos[k] <= m
  OBVIOUS
<1> QED
  BY <1>1, DepthNext

-----------------------------------------------------------------------------
\* What a page is known to be after n of its tokens: where the h open elements
\* on the stack were opened, and that nothing else is open.
Deep(p, a, n) == \A j \in a .. n : D!Depth(p, a, j) > 0

Placed(p, st, h, n, pos) ==
  /\ pos \in [1 .. h -> 1 .. n]
  /\ \A k \in 1 .. h : KindOf(p, pos[k]) = "open" /\ TagOf(p, pos[k]) = st[k]
  /\ \A j, k \in 1 .. h : j < k => pos[j] < pos[k]
  /\ \A k \in 1 .. h : D!Depth(p, pos[k], n) <= h - k + 1
  /\ \A a \in 1 .. n : KindOf(p, a) = "open" /\ Deep(p, a, n) => \E k \in 1 .. h : pos[k] = a

LEMMA PlacedPush ==
  ASSUME NEW p, NEW m \in Nat, NEW n \in Nat, m < n, n <= m + 1, KindOf(p, n) = "open",
         NEW st, NEW h \in Nat, NEW pos, Placed(p, st, h, m, pos), NEW more, NEW new,
         more[h + 1] = TagOf(p, n), \A k \in 1 .. h : more[k] = st[k],
         new = [k \in 1 .. h + 1 |-> IF k \in 1 .. h THEN pos[k] ELSE n]
  PROVE  Placed(p, more, h + 1, n, new)
<1>1. \A k \in 1 .. h : pos[k] \in 1 .. m /\ pos[k] \in Nat /\ pos[k] <= m
  BY DEF Placed
<1>d. \A k \in 1 .. h : Moved(p, pos[k], m, n)
  BY <1>1, DepthsNext
<1>2. /\ \A j, k \in 1 .. h : j < k => pos[j] < pos[k]
      /\ \A k \in 1 .. h : KindOf(p, pos[k]) = "open" /\ TagOf(p, pos[k]) = st[k]
  BY DEF Placed
<1>21. \A k \in 1 .. h : pos[k] \in 1 .. n /\ pos[k] < n
  BY <1>1
<1>3. /\ new \in [1 .. h + 1 -> 1 .. n] /\ new[h + 1] = n /\ \A k \in 1 .. h : new[k] = pos[k]
      /\ \A k \in 1 .. h + 1 : k = h + 1 \/ k \in 1 .. h
  BY <1>2, <1>21
<1>4. \A k \in 1 .. h + 1 : KindOf(p, new[k]) = "open" /\ TagOf(p, new[k]) = more[k]
  BY <1>2, <1>21, <1>3
<1>5. \A j, k \in 1 .. h + 1 : j < k => new[j] < new[k]
  BY <1>2, <1>21, <1>3
<1>6. ASSUME NEW k \in 1 .. h + 1 PROVE D!Depth(p, new[k], n) <= h + 1 - k + 1
  <2>1. CASE k = h + 1
    <3>1. n \in Nat /\ D!Depth(p, n, n) = 1
      BY DepthStart DEF KindOf
    <3> QED
      BY <1>3, <2>1, <3>1
  <2>2. CASE k \in 1 .. h
    <3>1. D!Depth(p, pos[k], m) <= h - k + 1
      BY <2>2 DEF Placed
    <3>2. pos[k] \in Nat /\ pos[k] <= m
      BY <1>1, <2>2
    <3>3. Moved(p, pos[k], m, n)
      BY <1>1, <2>2, <1>d
    <3> QED
      BY <1>3, <2>2, <3>1, <3>3 DEF Moved
  <2> QED
    BY <1>3, <2>1, <2>2
<1>7. ASSUME NEW a \in 1 .. n, KindOf(p, a) = "open", Deep(p, a, n) PROVE \E k \in 1 .. h + 1 : new[k] = a
  <2>1. CASE a = n
    BY <1>3, <2>1
  <2>2. CASE a # n
    <3>1. a \in 1 .. m /\ Deep(p, a, m)
      BY <1>7, <2>2 DEF Deep
    <3>2. PICK k \in 1 .. h : pos[k] = a
      BY <1>7, <3>1 DEF Placed
    <3> QED
      BY <1>3, <3>2
  <2> QED
    BY <2>1, <2>2
<1>8. new \in [1 .. h + 1 -> 1 .. n]
  BY <1>3
<1> QED
  BY <1>4, <1>5, <1>6, <1>7, <1>8 DEF Placed

\* A token that opens nothing and closes nothing on the stack.
LEMMA PlacedStays ==
  ASSUME NEW p, NEW m \in Nat, NEW n \in Nat, m < n, n <= m + 1, KindOf(p, n) \in {"close", "void", "data"},
         NEW st, NEW h \in Nat, NEW pos, Placed(p, st, h, m, pos)
  PROVE  Placed(p, st, h, n, pos)
<1>0. pos \in [1 .. h -> 1 .. m]
  BY DEF Placed
<1>1. \A k \in 1 .. h : pos[k] \in Nat /\ pos[k] <= m
  BY <1>0
<1>d. \A k \in 1 .. h : Moved(p, pos[k], m, n)
  BY <1>1, DepthsNext
<1>2. ASSUME NEW k \in 1 .. h PROVE D!Depth(p, pos[k], n) <= h - k + 1
  <2>1. D!Depth(p, pos[k], m) <= h - k + 1
    BY DEF Placed
  <2>2. Moved(p, pos[k], m, n)
    BY <1>d
  <2> QED
    BY <2>1, <2>2 DEF Moved
<1>3. ASSUME NEW a \in 1 .. n, KindOf(p, a) = "open", Deep(p, a, n) PROVE \E k \in 1 .. h : pos[k] = a
  <2>1. a \in 1 .. m /\ Deep(p, a, m)
    BY <1>3 DEF Deep
  <2> QED
    BY <1>3, <2>1 DEF Placed
<1>4. pos \in [1 .. h -> 1 .. n]
  BY <1>0
<1> QED
  BY <1>2, <1>3, <1>4 DEF Placed

LEMMA PlacedPop ==
  ASSUME NEW p, NEW m \in Nat, NEW n \in Nat, m < n, n <= m + 1, KindOf(p, n) = "close",
         NEW st, NEW h \in Nat \ {0}, NEW pos, Placed(p, st, h, m, pos), NEW less, NEW new,
         \A k \in 1 .. h - 1 : less[k] = st[k], new = [k \in 1 .. h - 1 |-> pos[k]]
  PROVE  Placed(p, less, h - 1, n, new)
<1>1. /\ \A k \in 1 .. h : pos[k] \in Nat /\ pos[k] <= m /\ pos[k] \in 1 .. n
      /\ \A k \in 1 .. h - 1 : k \in 1 .. h
  BY DEF Placed
<1>2. /\ \A j, k \in 1 .. h : j < k => pos[j] < pos[k]
      /\ \A k \in 1 .. h : KindOf(p, pos[k]) = "open" /\ TagOf(p, pos[k]) = st[k]
  BY DEF Placed
<1>3. new \in [1 .. h - 1 -> 1 .. n] /\ \A k \in 1 .. h - 1 : new[k] = pos[k]
  BY <1>1
<1>d. \A k \in 1 .. h : Moved(p, pos[k], m, n)
  BY <1>1, DepthsNext
<1>4. ASSUME NEW k \in 1 .. h
      PROVE  /\ D!Depth(p, pos[k], n) = D!Depth(p, pos[k], m) - 1
             /\ D!Depth(p, pos[k], m) \in Int
             /\ D!Depth(p, pos[k], m) <= h - k + 1
  <2>1. Moved(p, pos[k], m, n)
    BY <1>d
  <2>2. D!Depth(p, pos[k], m) <= h - k + 1
    BY DEF Placed
  <2> QED
    BY <2>1, <2>2 DEF Moved
<1>5. ASSUME NEW k \in 1 .. h - 1 PROVE D!Depth(p, new[k], n) <= h - 1 - k + 1
  <2>1. k \in 1 .. h
    BY <1>1
  <2>2. PICK depth : depth = D!Depth(p, pos[k], m)
    OBVIOUS
  <2>3. D!Depth(p, pos[k], n) = depth - 1 /\ depth \in Int /\ depth <= h - k + 1
    BY <1>4, <2>1, <2>2
  <2>4. new[k] = pos[k]
    BY <1>3
  <2> QED
    BY <2>1, <2>3, <2>4
<1>6. ASSUME NEW a \in 1 .. n, KindOf(p, a) = "open", Deep(p, a, n) PROVE \E k \in 1 .. h - 1 : new[k] = a
  <2>1. a \in 1 .. m /\ Deep(p, a, m)
    BY <1>6 DEF Deep
  <2>2. PICK k \in 1 .. h : pos[k] = a
    BY <1>6, <2>1 DEF Placed
  <2>3. D!Depth(p, pos[k], n) > 0
    BY <1>6, <2>2 DEF Deep
  <2>4. k # h
    BY <1>4, <2>3
  <2> QED
    BY <1>3, <2>2, <2>4
<1>7. /\ \A k \in 1 .. h - 1 : KindOf(p, new[k]) = "open" /\ TagOf(p, new[k]) = less[k]
      /\ \A j, k \in 1 .. h - 1 : j < k => new[j] < new[k]
  BY <1>1, <1>2, <1>3
<1> QED
  BY <1>3, <1>5, <1>6, <1>7 DEF Placed

-----------------------------------------------------------------------------
(* The target.  From where it was opened everything is balanced or still   *)
(* on the stack.                                                           *)

Balanced(p, i, n) == \E j \in i .. n : D!Element(p, i, j)

Framed(p, h, t, n, pos) ==
  /\ t \in 1 .. h
  /\ \A k \in t .. h : D!Depth(p, pos[k], n) = h - k + 1 /\ Deep(p, pos[k], n)
  /\ \A i \in pos[t] .. n : KindOf(p, i) = "open" => (\E k \in 1 .. h : pos[k] = i) \/ Balanced(p, i, n)

LEMMA DeepNext ==
  ASSUME NEW p, NEW a, NEW m \in Nat, NEW n \in Nat, m < n, n <= m + 1,
         Deep(p, a, m), D!Depth(p, a, n) > 0
  PROVE  Deep(p, a, n)
<1> SUFFICES ASSUME NEW j \in a .. n PROVE D!Depth(p, a, j) > 0
  BY DEF Deep
<1>1. CASE j = n
  BY <1>1
<1>2. CASE j # n
  <2>1. j \in a .. m
    BY <1>2
  <2> QED
    BY <2>1 DEF Deep
<1> QED
  BY <1>1, <1>2

LEMMA BalancedNext ==
  ASSUME NEW p, NEW i, NEW m \in Nat, NEW n \in Nat, m < n, Balanced(p, i, m)
  PROVE  Balanced(p, i, n)
  BY DEF Balanced

LEMMA ElementEnds ==
  ASSUME NEW p, NEW a \in Nat, NEW m \in Nat, NEW n \in Nat, m < n, n <= m + 1, a <= m,
         KindOf(p, a) = "open", KindOf(p, n) = "close", TagOf(p, a) = TagOf(p, n),
         D!Depth(p, a, n) = 0, Deep(p, a, m)
  PROVE  D!Element(p, a, n) /\ Balanced(p, a, n)
<1>1. \A i : i \in a .. n - 1 => i \in a .. m
  OBVIOUS
<1>2. D!Element(p, a, n)
  BY <1>1 DEF D!Element, KindOf, TagOf, Deep
<1>3. n \in a .. n
  OBVIOUS
<1> QED
  BY <1>2, <1>3 DEF Balanced

LEMMA FramedBegins ==
  ASSUME NEW p, NEW n \in Nat \ {0}, KindOf(p, n) = "open", NEW h \in Nat, NEW pos, pos[h + 1] = n
  PROVE  Framed(p, h + 1, h + 1, n, pos)
<1>1. D!Depth(p, n, n) = 1
  BY DepthStart DEF KindOf
<1>2. Deep(p, n, n)
  BY <1>1 DEF Deep
<1>3. \A k \in h + 1 .. h + 1 : k = h + 1
  OBVIOUS
<1>4. \A i \in pos[h + 1] .. n : pos[h + 1] = i /\ h + 1 \in 1 .. h + 1
  OBVIOUS
<1> QED
  BY <1>1, <1>2, <1>3, <1>4 DEF Framed

LEMMA FramedPush ==
  ASSUME NEW p, NEW m \in Nat, NEW n \in Nat, m < n, n <= m + 1, KindOf(p, n) = "open",
         NEW st, NEW h \in Nat, NEW pos, Placed(p, st, h, m, pos), NEW t, Framed(p, h, t, m, pos),
         NEW new, new = [k \in 1 .. h + 1 |-> IF k \in 1 .. h THEN pos[k] ELSE n]
  PROVE  Framed(p, h + 1, t, n, new)
<1>1. \A k \in 1 .. h : pos[k] \in Nat /\ pos[k] <= m /\ pos[k] \in 1 .. m
  BY DEF Placed
<1>2. \A k \in 1 .. h : Moved(p, pos[k], m, n)
  BY <1>1, DepthsNext
<1>3. /\ t \in 1 .. h /\ t \in 1 .. h + 1 /\ new[h + 1] = n /\ \A k \in 1 .. h : new[k] = pos[k]
      /\ \A k \in 1 .. h : k \in 1 .. h + 1
  BY DEF Framed
<1>4. ASSUME NEW k \in t .. h + 1
      PROVE  D!Depth(p, new[k], n) = h + 1 - k + 1 /\ Deep(p, new[k], n)
  <2>1. CASE k = h + 1
    <3>1. D!Depth(p, n, n) = 1
      BY DepthStart DEF KindOf
    <3>2. Deep(p, n, n)
      BY <3>1 DEF Deep
    <3> QED
      BY <1>3, <2>1, <3>1, <3>2
  <2>2. CASE k # h + 1
    <3>1. k \in t .. h /\ k \in 1 .. h
      BY <1>3, <2>2
    <3>2. D!Depth(p, pos[k], m) = h - k + 1 /\ Deep(p, pos[k], m)
      BY <3>1 DEF Framed
    <3>3. D!Depth(p, pos[k], n) = h + 1 - k + 1
      BY <1>2, <3>1, <3>2 DEF Moved
    <3>4. D!Depth(p, pos[k], n) > 0
      BY <3>1, <3>3
    <3>5. Deep(p, pos[k], n)
      BY <3>2, <3>4, DeepNext
    <3> QED
      BY <1>3, <3>1, <3>3, <3>5
  <2> QED
    BY <2>1, <2>2
<1>5. ASSUME NEW i \in new[t] .. n, KindOf(p, i) = "open"
      PROVE  (\E k \in 1 .. h + 1 : new[k] = i) \/ Balanced(p, i, n)
  <2>1. CASE i = n
    BY <1>3, <2>1
  <2>2. CASE i # n
    <3>1. i \in pos[t] .. m
      BY <1>1, <1>3, <2>2
    <3>2. (\E k \in 1 .. h : pos[k] = i) \/ Balanced(p, i, m)
      BY <1>5, <3>1 DEF Framed
    <3> QED
      BY <1>3, <3>2, BalancedNext
  <2> QED
    BY <2>1, <2>2
<1> DEFINE g == h + 1
<1>6. t \in 1 .. g /\ (\A k \in t .. g : D!Depth(p, new[k], n) = g - k + 1 /\ Deep(p, new[k], n))
  <2>1. t \in 1 .. g
    BY <1>3
  <2>2. ASSUME NEW k \in t .. g PROVE D!Depth(p, new[k], n) = g - k + 1 /\ Deep(p, new[k], n)
    <3>1. k \in t .. h + 1
      BY <2>2
    <3>2. D!Depth(p, new[k], n) = h + 1 - k + 1 /\ Deep(p, new[k], n)
      BY <1>4, <3>1
    <3> QED
      BY <3>2
  <2> QED
    BY <2>1, <2>2
<1>7. \A i \in new[t] .. n : KindOf(p, i) = "open" => (\E k \in 1 .. g : new[k] = i) \/ Balanced(p, i, n)
  BY <1>5
<1> HIDE DEF g
<1>8. Framed(p, g, t, n, new)
  BY <1>6, <1>7 DEF Framed
<1> QED
  BY <1>8 DEF g

LEMMA FramedStays ==
  ASSUME NEW p, NEW m \in Nat, NEW n \in Nat, m < n, n <= m + 1, KindOf(p, n) \in {"void", "data"},
         NEW st, NEW h \in Nat, NEW pos, Placed(p, st, h, m, pos), NEW t, Framed(p, h, t, m, pos)
  PROVE  Framed(p, h, t, n, pos)
<1>1. \A k \in 1 .. h : pos[k] \in Nat /\ pos[k] <= m /\ pos[k] \in 1 .. m
  BY DEF Placed
<1>2. \A k \in 1 .. h : Moved(p, pos[k], m, n)
  BY <1>1, DepthsNext
<1>3. t \in 1 .. h
  BY DEF Framed
<1>4. ASSUME NEW k \in t .. h
      PROVE  D!Depth(p, pos[k], n) = h - k + 1 /\ Deep(p, pos[k], n)
  <2>1. k \in 1 .. h
    BY <1>3
  <2>2. D!Depth(p, pos[k], m) = h - k + 1 /\ Deep(p, pos[k], m)
    BY DEF Framed
  <2>3. D!Depth(p, pos[k], n) = h - k + 1
    BY <1>2, <2>1, <2>2 DEF Moved
  <2>4. D!Depth(p, pos[k], n) > 0
    BY <2>1, <2>3
  <2> QED
    BY <2>2, <2>3, <2>4, DeepNext
<1>5. ASSUME NEW i \in pos[t] .. n, KindOf(p, i) = "open"
      PROVE  (\E k \in 1 .. h : pos[k] = i) \/ Balanced(p, i, n)
  <2>1. i # n
    BY <1>5
  <2>2. i \in pos[t] .. m
    BY <1>1, <1>3, <2>1
  <2>3. (\E k \in 1 .. h : pos[k] = i) \/ Balanced(p, i, m)
    BY <1>5, <2>2 DEF Framed
  <2> QED
    BY <2>3, BalancedNext
<1> QED
  BY <1>3, <1>4, <1>5 DEF Framed

\* The last open element is closed, within the target or as the target.
LEMMA TopEnds ==
  ASSUME NEW p, NEW m \in Nat, NEW n \in Nat, m < n, n <= m + 1, KindOf(p, n) = "close",
         NEW st, NEW h \in Nat, NEW pos, Placed(p, st, h, m, pos), NEW t, Framed(p, h, t, m, pos),
         st[h] = TagOf(p, n)
  PROVE  D!Element(p, pos[h], n) /\ Balanced(p, pos[h], n)
<1>1. h \in 1 .. h /\ h \in t .. h
  BY DEF Framed
<1>2. pos[h] \in Nat /\ pos[h] <= m /\ KindOf(p, pos[h]) = "open" /\ TagOf(p, pos[h]) = st[h]
  BY <1>1 DEF Placed
<1>3. D!Depth(p, pos[h], m) = h - h + 1 /\ Deep(p, pos[h], m)
  BY <1>1 DEF Framed
<1>4. Moved(p, pos[h], m, n)
  BY <1>2, DepthNext
<1>5. D!Depth(p, pos[h], n) = 0
  BY <1>3, <1>4 DEF Moved
<1> QED
  BY <1>2, <1>3, <1>5, ElementEnds

LEMMA FramedPop ==
  ASSUME NEW p, NEW m \in Nat, NEW n \in Nat, m < n, n <= m + 1, KindOf(p, n) = "close",
         NEW st, NEW h \in Nat, NEW pos, Placed(p, st, h, m, pos), NEW t, Framed(p, h, t, m, pos),
         st[h] = TagOf(p, n), t # h, NEW new, new = [k \in 1 .. h - 1 |-> pos[k]]
  PROVE  Framed(p, h - 1, t, n, new)
<1>1. \A k \in 1 .. h : pos[k] \in Nat /\ pos[k] <= m /\ pos[k] \in 1 .. m
  BY DEF Placed
<1>2. \A k \in 1 .. h : Moved(p, pos[k], m, n)
  BY <1>1, DepthsNext
<1>3. /\ t \in 1 .. h - 1 /\ h - 1 \in Nat /\ \A k \in 1 .. h - 1 : new[k] = pos[k]
      /\ \A k \in 1 .. h : k = h \/ k \in 1 .. h - 1
  BY DEF Framed
<1>4. ASSUME NEW k \in t .. h - 1
      PROVE  D!Depth(p, new[k], n) = h - 1 - k + 1 /\ Deep(p, new[k], n)
  <2>1. k \in 1 .. h /\ k \in t .. h /\ k \in 1 .. h - 1
    BY <1>3
  <2>2. D!Depth(p, pos[k], m) = h - k + 1 /\ Deep(p, pos[k], m)
    BY <2>1 DEF Framed
  <2>3. D!Depth(p, pos[k], n) = h - 1 - k + 1
    BY <1>2, <2>1, <2>2 DEF Moved
  <2>4. D!Depth(p, pos[k], n) > 0
    BY <2>1, <2>3
  <2>5. Deep(p, pos[k], n)
    BY <2>2, <2>4, DeepNext
  <2> QED
    BY <1>3, <2>1, <2>3, <2>5
<1>5. ASSUME NEW i \in new[t] .. n, KindOf(p, i) = "open"
      PROVE  (\E k \in 1 .. h - 1 : new[k] = i) \/ Balanced(p, i, n)
  <2>1. i # n
    BY <1>5
  <2>2. i \in pos[t] .. m
    BY <1>1, <1>3, <2>1
  <2>3. (\E k \in 1 .. h : pos[k] = i) \/ Balanced(p, i, m)
    BY <1>5, <2>2 DEF Framed
  <2>4. CASE Balanced(p, i, m)
    BY <2>4, BalancedNext
  <2>5. CASE \E k \in 1 .. h : pos[k] = i
    <3>1. Balanced(p, pos[h], n)
      BY TopEnds
    <3> QED
      BY <1>3, <2>5, <3>1
  <2> QED
    BY <2>3, <2>4, <2>5
<1> QED
  BY <1>3, <1>4, <1>5 DEF Framed

-----------------------------------------------------------------------------
(* The text.  What is in it is inside no skipped element, now or later.    *)

InText(text, i) == \E k \in 1 .. Len(text) : text[k] = i
Ordered(text) == \A j, k \in 1 .. Len(text) : j < k => text[j] < text[k]
Never(p, i) == \A a \in 1 .. i : KindOf(p, a) = "open" /\ TagOf(p, a) \in D!Ignored => ~Deep(p, a, i)
Content(p, text, a, n) ==
  /\ Ordered(text)
  /\ \A i : InText(text, i) => i \in a .. n /\ KindOf(p, i) = "data" /\ Never(p, i)

Covered(st, h, pos, i) == \E k \in 1 .. h : st[k] \in D!Ignored /\ pos[k] <= i
Screened(p, a, n, i) == \E x \in a .. i, y \in i .. n : TagOf(p, x) \in D!Ignored /\ D!Element(p, x, y)
Shown(p, st, h, t, text, n, pos) ==
  /\ Content(p, text, pos[t], n)
  /\ \A i \in pos[t] .. n : KindOf(p, i) = "data" =>
       InText(text, i) \/ Covered(st, h, pos, i) \/ Screened(p, pos[t], n, i)
  /\ (\E k \in 1 .. t - 1 : st[k] \in D!Ignored) => text = <<>>

Finished(p, text, n) ==
  text = <<>> \/ \E a \in 1 .. n : \E b \in a .. n :
    /\ p[a].match /\ D!Element(p, a, b)
    /\ \A i \in a .. b : KindOf(p, i) = "open" => Balanced(p, i, b)
    /\ Content(p, text, a, b)
    /\ \A i \in a .. b : KindOf(p, i) = "data" => InText(text, i) \/ Screened(p, a, b, i)

LEMMA TextTakes ==
  ASSUME NEW text \in Seq(Nat), NEW n \in Nat, Ordered(text), \A i : InText(text, i) => i < n
  PROVE  /\ Append(text, n) \in Seq(Nat) /\ Ordered(Append(text, n))
         /\ \A i : InText(Append(text, n), i) <=> InText(text, i) \/ i = n
<1> DEFINE l == Len(text)
           more == Append(text, n)
<1>1. /\ more \in Seq(Nat) /\ Len(more) = l + 1 /\ l \in Nat /\ more[l + 1] = n
      /\ \A k \in 1 .. l : more[k] = text[k]
  OBVIOUS
<1>2. \A k \in 1 .. l : text[k] < n
  BY DEF InText
<1>3. \A j, k \in 1 .. l : j < k => text[j] < text[k]
  BY DEF Ordered
<1> HIDE DEF more
<1>4. \A k \in 1 .. l + 1 : k = l + 1 \/ k \in 1 .. l
  BY <1>1
<1>5. \A j, k \in 1 .. l + 1 : j < k => more[j] < more[k]
  <2> TAKE j, k \in 1 .. l + 1
  <2> HAVE j < k
  <2>1. j \in 1 .. l
    BY <1>1, <1>4
  <2> QED
    BY <1>1, <1>2, <1>3, <1>4, <2>1
<1>6. \A i : InText(more, i) <=> InText(text, i) \/ i = n
  <2>1. \A i : InText(more, i) <=> \E k \in 1 .. l + 1 : more[k] = i
    BY <1>1 DEF InText
  <2>2. \A i : InText(text, i) <=> \E k \in 1 .. l : text[k] = i
    BY DEF InText
  <2>3. l + 1 \in 1 .. l + 1 /\ \A k \in 1 .. l : k \in 1 .. l + 1
    BY <1>1
  <2> HIDE DEF l
  <2> QED
    BY <1>1, <1>4, <2>1, <2>2, <2>3
<1>7. Ordered(more)
  BY <1>1, <1>5 DEF Ordered
<1> QED
  BY <1>1, <1>6, <1>7 DEF more

LEMMA NoText == Ordered(<<>>) /\ \A i : ~InText(<<>>, i)
  BY DEF Ordered, InText

LEMMA ScreenedNext ==
  ASSUME NEW p, NEW a, NEW i, NEW m \in Nat, NEW n \in Nat, m < n, Screened(p, a, m, i)
  PROVE  Screened(p, a, n, i)
  BY DEF Screened

LEMMA ContentNext ==
  ASSUME NEW p, NEW text, NEW a, NEW m \in Nat, NEW n \in Nat, m < n, Content(p, text, a, m)
  PROVE  Content(p, text, a, n)
  BY DEF Content

LEMMA ShownBegins ==
  ASSUME NEW p, NEW n \in Nat, KindOf(p, n) = "open", NEW st, NEW h, NEW t, NEW pos, pos[t] = n
  PROVE  Shown(p, st, h, t, <<>>, n, pos)
<1>1. Content(p, <<>>, pos[t], n)
  BY NoText DEF Content
<1>2. \A i \in pos[t] .. n : KindOf(p, i) # "data"
  OBVIOUS
<1> QED
  BY <1>1, <1>2 DEF Shown

LEMMA ShownPush ==
  ASSUME NEW p, NEW m \in Nat, NEW n \in Nat, m < n, n <= m + 1, KindOf(p, n) = "open",
         NEW st, NEW h \in Nat, NEW pos, Placed(p, st, h, m, pos), NEW t \in 1 .. h, NEW text,
         Shown(p, st, h, t, text, m, pos), NEW more, \A k \in 1 .. h : more[k] = st[k],
         NEW new, new = [k \in 1 .. h + 1 |-> IF k \in 1 .. h THEN pos[k] ELSE n]
  PROVE  Shown(p, more, h + 1, t, text, n, new)
<1> DEFINE g == h + 1
<1>1. /\ \A k \in 1 .. h : new[k] = pos[k] /\ pos[k] \in Nat /\ k \in 1 .. g
      /\ g \in Nat
  BY DEF Placed
<1> HIDE DEF g
<1>2. Content(p, text, new[t], n)
  BY <1>1, ContentNext DEF Shown
<1>3. ASSUME NEW i \in new[t] .. n, KindOf(p, i) = "data"
      PROVE  InText(text, i) \/ Covered(more, g, new, i) \/ Screened(p, new[t], n, i)
  <2>1. i # n
    BY <1>3
  <2>2. i \in pos[t] .. m
    BY <1>1, <2>1
  <2>3. InText(text, i) \/ Covered(st, h, pos, i) \/ Screened(p, pos[t], m, i)
    BY <1>3, <2>2 DEF Shown
  <2>4. CASE Covered(st, h, pos, i)
    BY <1>1, <2>4 DEF Covered
  <2>5. CASE Screened(p, pos[t], m, i)
    BY <1>1, <2>5, ScreenedNext
  <2> QED
    BY <2>3, <2>4, <2>5
<1>4. (\E k \in 1 .. t - 1 : more[k] \in D!Ignored) => text = <<>>
  <2>1. \A k \in 1 .. t - 1 : k \in 1 .. h
    OBVIOUS
  <2> QED
    BY <2>1 DEF Shown
<1>5. Shown(p, more, g, t, text, n, new)
  BY <1>2, <1>3, <1>4 DEF Shown
<1> QED
  BY <1>5 DEF g

\* No text comes, or under something skipped.
LEMMA ShownKeeps ==
  ASSUME NEW p, NEW m \in Nat, NEW n \in Nat, m < n, n <= m + 1,
         NEW st, NEW h \in Nat, NEW pos, Placed(p, st, h, m, pos), NEW t \in 1 .. h, NEW text,
         Shown(p, st, h, t, text, m, pos),
         KindOf(p, n) = "data" => \E k \in 1 .. h : st[k] \in D!Ignored
  PROVE  Shown(p, st, h, t, text, n, pos)
<1>1. \A k \in 1 .. h : pos[k] \in Nat /\ pos[k] <= m
  BY DEF Placed
<1>2. Content(p, text, pos[t], n)
  BY ContentNext DEF Shown
<1>3. ASSUME NEW i \in pos[t] .. n, KindOf(p, i) = "data"
      PROVE  InText(text, i) \/ Covered(st, h, pos, i) \/ Screened(p, pos[t], n, i)
  <2>1. CASE i = n
    <3>1. PICK k \in 1 .. h : st[k] \in D!Ignored
      BY <1>3, <2>1
    <3>2. pos[k] <= n
      BY <1>1
    <3> QED
      BY <2>1, <3>1, <3>2 DEF Covered
  <2>2. CASE i # n
    <3>1. i \in pos[t] .. m
      BY <1>1, <2>2
    <3>2. InText(text, i) \/ Covered(st, h, pos, i) \/ Screened(p, pos[t], m, i)
      BY <1>3, <3>1 DEF Shown
    <3> QED
      BY <3>2, ScreenedNext
  <2> QED
    BY <2>1, <2>2
<1>4. (\E k \in 1 .. t - 1 : st[k] \in D!Ignored) => text = <<>>
  BY DEF Shown
<1> QED
  BY <1>2, <1>3, <1>4 DEF Shown

LEMMA ShownTakes ==
  ASSUME NEW p, NEW m \in Nat, NEW n \in Nat, m < n, n <= m + 1, KindOf(p, n) = "data",
         NEW st, NEW h \in Nat, NEW pos, Placed(p, st, h, m, pos), NEW t \in 1 .. h,
         NEW text \in Seq(Nat), Shown(p, st, h, t, text, m, pos),
         \A k \in 1 .. h : st[k] \notin D!Ignored
  PROVE  Shown(p, st, h, t, Append(text, n), n, pos) /\ Append(text, n) \in Seq(Nat)
<1>1. \A k \in 1 .. h : pos[k] \in Nat /\ pos[k] <= m
  BY DEF Placed
<1>2. Content(p, text, pos[t], m)
  BY DEF Shown
<1>3. Ordered(text) /\ \A i : InText(text, i) => i \in pos[t] .. m /\ KindOf(p, i) = "data" /\ Never(p, i)
  BY <1>2 DEF Content
<1>4. \A i : InText(text, i) => i < n
  BY <1>1, <1>3
<1>5. /\ Append(text, n) \in Seq(Nat) /\ Ordered(Append(text, n))
      /\ \A i : InText(Append(text, n), i) <=> InText(text, i) \/ i = n
  BY <1>3, <1>4, TextTakes
<1>6. Never(p, n)
  <2> SUFFICES ASSUME NEW a \in 1 .. n, KindOf(p, a) = "open", TagOf(p, a) \in D!Ignored, Deep(p, a, n)
               PROVE  FALSE
    BY DEF Never
  <2>1. a \in 1 .. m /\ Deep(p, a, m)
    BY DEF Deep
  <2>2. PICK k \in 1 .. h : pos[k] = a
    BY <2>1 DEF Placed
  <2>3. TagOf(p, pos[k]) = st[k]
    BY DEF Placed
  <2> QED
    BY <2>2, <2>3
<1>7. Content(p, Append(text, n), pos[t], n)
  <2>1. ASSUME NEW i, InText(Append(text, n), i)
        PROVE  i \in pos[t] .. n /\ KindOf(p, i) = "data" /\ Never(p, i)
    <3>1. CASE i = n
      BY <1>1, <1>6, <3>1
    <3>2. CASE InText(text, i)
      BY <1>1, <1>3, <3>2
    <3> QED
      BY <1>5, <2>1, <3>1, <3>2
  <2> QED
    BY <1>5, <2>1 DEF Content
<1>8. ASSUME NEW i \in pos[t] .. n, KindOf(p, i) = "data"
      PROVE  InText(Append(text, n), i) \/ Covered(st, h, pos, i) \/ Screened(p, pos[t], n, i)
  <2>1. CASE i = n
    BY <1>5, <2>1
  <2>2. CASE i # n
    <3>1. i \in pos[t] .. m
      BY <1>1, <2>2
    <3>2. InText(text, i) \/ Covered(st, h, pos, i) \/ Screened(p, pos[t], m, i)
      BY <1>8, <3>1 DEF Shown
    <3> QED
      BY <1>5, <3>2, ScreenedNext
  <2> QED
    BY <2>1, <2>2
<1>9. \A k \in 1 .. t - 1 : st[k] \notin D!Ignored
  OBVIOUS
<1> HIDE DEF Content
<1>10. Shown(p, st, h, t, Append(text, n), n, pos)
  <2> DEFINE more == Append(text, n)
  <2>1. Content(p, more, pos[t], n) /\ \A i \in pos[t] .. n : KindOf(p, i) = "data" =>
          InText(more, i) \/ Covered(st, h, pos, i) \/ Screened(p, pos[t], n, i)
    BY <1>7, <1>8
  <2> HIDE DEF more
  <2>2. Shown(p, st, h, t, more, n, pos)
    BY <1>9, <2>1 DEF Shown
  <2> QED
    BY <2>2 DEF more
<1> QED
  BY <1>5, <1>10

LEMMA ShownPops ==
  ASSUME NEW p, NEW m \in Nat, NEW n \in Nat, m < n, n <= m + 1, KindOf(p, n) = "close",
         NEW st, NEW h \in Nat, NEW pos, Placed(p, st, h, m, pos), NEW t, Framed(p, h, t, m, pos),
         NEW text, Shown(p, st, h, t, text, m, pos),
         st[h] = TagOf(p, n), t # h, NEW new, new = [k \in 1 .. h - 1 |-> pos[k]],
         NEW less, \A k \in 1 .. h - 1 : less[k] = st[k]
  PROVE  Shown(p, less, h - 1, t, text, n, new)
<1> DEFINE g == h - 1
<1>1. /\ \A k \in 1 .. h : pos[k] \in Nat /\ pos[k] <= m
      /\ \A j, k \in 1 .. h : j < k => pos[j] < pos[k]
  BY DEF Placed
<1>2. /\ t \in 1 .. g /\ t \in 1 .. h /\ h \in 1 .. h /\ t < h
      /\ \A k \in 1 .. g : new[k] = pos[k] /\ less[k] = st[k]
      /\ \A k \in 1 .. h : k = h \/ k \in 1 .. g
      /\ \A k \in 1 .. t - 1 : k \in 1 .. g
  BY DEF Framed
<1>3. D!Element(p, pos[h], n) /\ TagOf(p, pos[h]) = st[h] /\ pos[t] < pos[h]
  <2>1. TagOf(p, pos[h]) = st[h]
    BY <1>2 DEF Placed
  <2> QED
    BY <1>1, <1>2, <2>1, TopEnds
<1> HIDE DEF g
<1>4. Content(p, text, new[t], n)
  BY <1>2, ContentNext DEF Shown
<1>5. ASSUME NEW i \in new[t] .. n, KindOf(p, i) = "data"
      PROVE  InText(text, i) \/ Covered(less, g, new, i) \/ Screened(p, new[t], n, i)
  <2>1. i # n
    BY <1>5
  <2>2. i \in pos[t] .. m
    BY <1>1, <1>2, <2>1
  <2>3. InText(text, i) \/ Covered(st, h, pos, i) \/ Screened(p, pos[t], m, i)
    BY <1>5, <2>2 DEF Shown
  <2>4. CASE Covered(st, h, pos, i)
    <3>1. PICK k \in 1 .. h : st[k] \in D!Ignored /\ pos[k] <= i
      BY <2>4 DEF Covered
    <3>2. CASE k = h
      <4>1. pos[h] \in new[t] .. i /\ n \in i .. n
        BY <1>1, <1>2, <1>3, <2>2, <3>1, <3>2
      <4> QED
        BY <1>3, <3>1, <3>2, <4>1 DEF Screened
    <3>3. CASE k \in 1 .. g
      BY <1>2, <3>1, <3>3 DEF Covered
    <3> QED
      BY <1>2, <3>2, <3>3
  <2>5. CASE Screened(p, pos[t], m, i)
    BY <1>2, <2>5, ScreenedNext
  <2> QED
    BY <2>3, <2>4, <2>5
<1>6. (\E k \in 1 .. t - 1 : less[k] \in D!Ignored) => text = <<>>
  BY <1>2 DEF Shown
<1>7. Shown(p, less, g, t, text, n, new)
  BY <1>4, <1>5, <1>6 DEF Shown
<1> QED
  BY <1>7 DEF g

\* The target itself is closed.
LEMMA TargetEnds ==
  ASSUME NEW p, NEW m \in Nat, NEW n \in Nat, m < n, n <= m + 1, KindOf(p, n) = "close",
         NEW st, NEW h \in Nat, NEW pos, Placed(p, st, h, m, pos), Framed(p, h, h, m, pos),
         NEW text, Shown(p, st, h, h, text, m, pos), p[pos[h]].match, st[h] = TagOf(p, n)
  PROVE  Finished(p, text, n)
<1> DEFINE a == pos[h]
<1>1. /\ h \in 1 .. h /\ \A k \in 1 .. h : k = h \/ k \in 1 .. h - 1
      /\ \A i \in a .. m : KindOf(p, i) = "open" => (\E k \in 1 .. h : pos[k] = i) \/ Balanced(p, i, m)
  BY DEF Framed
<1>2. /\ \A k \in 1 .. h : pos[k] \in Nat /\ pos[k] <= m /\ pos[k] \in 1 .. n
      /\ \A j, k \in 1 .. h : j < k => pos[j] < pos[k]
      /\ TagOf(p, a) = st[h]
  BY <1>1 DEF Placed
<1>3. D!Element(p, a, n) /\ Balanced(p, a, n)
  BY TopEnds
<1>4. /\ Content(p, text, a, n)
      /\ \A i \in a .. m : KindOf(p, i) = "data" =>
           InText(text, i) \/ Covered(st, h, pos, i) \/ Screened(p, a, m, i)
      /\ (\E k \in 1 .. h - 1 : st[k] \in D!Ignored) => text = <<>>
  BY ContentNext DEF Shown
<1>5. a \in 1 .. n /\ n \in a .. n /\ a \in Nat /\ p[a].match /\ \A k \in 1 .. h : pos[k] >= a => k = h
  BY <1>1, <1>2
<1> HIDE DEF a
<1>6. ASSUME NEW i \in a .. n, KindOf(p, i) = "open" PROVE Balanced(p, i, n)
  <2>1. i # n
    BY <1>6
  <2>2. i \in a .. m
    BY <1>5, <2>1
  <2>3. (\E k \in 1 .. h : pos[k] = i) \/ Balanced(p, i, m)
    BY <1>1, <1>6, <2>2
  <2>4. CASE \E k \in 1 .. h : pos[k] = i
    <3>1. i = a
      <4>1. PICK k \in 1 .. h : pos[k] = i
        BY <2>4
      <4>2. pos[k] >= a
        BY <1>5, <4>1
      <4> QED
        BY <1>5, <4>1, <4>2 DEF a
    <3> QED
      BY <1>3, <3>1
  <2>5. CASE Balanced(p, i, m)
    BY <2>5, BalancedNext
  <2> QED
    BY <2>3, <2>4, <2>5
<1>7. ASSUME NEW i \in a .. n, KindOf(p, i) = "data", text # <<>>
      PROVE  InText(text, i) \/ Screened(p, a, n, i)
  <2>1. i # n
    BY <1>7
  <2>2. i \in a .. m
    BY <1>5, <2>1
  <2>3. InText(text, i) \/ Covered(st, h, pos, i) \/ Screened(p, a, m, i)
    BY <1>4, <1>7, <2>2
  <2>4. CASE Covered(st, h, pos, i)
    <3>1. PICK k \in 1 .. h : st[k] \in D!Ignored /\ pos[k] <= i
      BY <2>4 DEF Covered
    <3>2. k = h
      BY <1>1, <1>4, <1>7, <3>1
    <3>3. a \in a .. i /\ n \in i .. n /\ TagOf(p, a) \in D!Ignored
      BY <1>2, <1>5, <2>2, <3>1, <3>2
    <3> QED
      BY <1>3, <3>3 DEF Screened
  <2> QED
    BY <2>3, <2>4, ScreenedNext
<1> QED
  BY <1>3, <1>4, <1>5, <1>6, <1>7 DEF Finished

LEMMA FinishedNext ==
  ASSUME NEW p, NEW text, NEW m \in Nat, NEW n \in Nat, m < n, Finished(p, text, m)
  PROVE  Finished(p, text, n)
<1>1. \A a \in 1 .. m : \A b \in a .. m : a \in 1 .. n /\ b \in a .. n
  OBVIOUS
<1> QED
  BY <1>1, Zenon DEF Finished

-----------------------------------------------------------------------------
(* The parser, token by token.                                             *)

Formed(s) ==
  /\ s = [stack |-> s.stack, target |-> s.target, ignore |-> s.ignore, matches |-> s.matches,
          malformed |-> s.malformed, text |-> s.text]
  /\ s.stack \in Seq(Tags) /\ s.target \in 0 .. Len(s.stack)
  /\ s.ignore = Cardinality(Skipped(s.stack))
  /\ s.matches \in Nat /\ s.malformed \in BOOLEAN /\ s.text \in Seq(Nat)

Single(p, s, n) ==
  /\ s.matches = 0 => s.target = 0 /\ s.text = <<>> /\ \A i \in 1 .. n : ~p[i].match
  /\ s.matches = 1 => \A i, j \in 1 .. n : p[i].match /\ p[j].match => i = j

AtTarget(p, s, n, pos) ==
  IF s.target = 0 THEN Finished(p, s.text, n)
  ELSE /\ Framed(p, Len(s.stack), s.target, n, pos) /\ p[pos[s.target]].match
       /\ Shown(p, s.stack, Len(s.stack), s.target, s.text, n, pos)

Reads(p, n, s) ==
  /\ Formed(s) /\ Single(p, s, n)
  /\ \E pos : /\ Placed(p, s.stack, Len(s.stack), n, pos)
              /\ s.matches = 1 /\ ~s.malformed => AtTarget(p, s, n, pos)

\* A parser's state by its fields.
State(stack, target, ignore, matches, malformed, text) ==
  [stack |-> stack, target |-> target, ignore |-> ignore, matches |-> matches,
   malformed |-> malformed, text |-> text]

LEMMA StateExcept ==
  ASSUME NEW stack, NEW target, NEW ignore, NEW matches, NEW malformed, NEW text, NEW new
  PROVE  LET s == State(stack, target, ignore, matches, malformed, text)
         IN /\ s.stack = stack /\ s.target = target /\ s.ignore = ignore /\ s.matches = matches
            /\ s.malformed = malformed /\ s.text = text
            /\ [s EXCEPT !.stack = new] = State(new, target, ignore, matches, malformed, text)
            /\ [s EXCEPT !.target = new] = State(stack, new, ignore, matches, malformed, text)
            /\ [s EXCEPT !.ignore = new] = State(stack, target, new, matches, malformed, text)
            /\ [s EXCEPT !.matches = new] = State(stack, target, ignore, new, malformed, text)
            /\ [s EXCEPT !.malformed = new] = State(stack, target, ignore, matches, new, text)
            /\ [s EXCEPT !.text = new] = State(stack, target, ignore, matches, malformed, new)
  BY DEF State

LEMMA Opening ==
  ASSUME NEW stack, NEW target, NEW ignore, NEW matches, NEW malformed, NEW text, NEW t
  PROVE  D!Opened(State(stack, target, ignore, matches, malformed, text), t) =
           State(Append(stack, t.tag), IF t.match /\ target = 0 THEN Len(stack) + 1 ELSE target,
                 IF t.tag \in D!Ignored THEN ignore + 1 ELSE ignore,
                 IF t.match THEN matches + 1 ELSE matches, malformed, text)
<1> DEFINE a == Append(stack, t.tag)
           b == IF t.match THEN matches + 1 ELSE matches
           c == IF t.match /\ target = 0 THEN Len(stack) + 1 ELSE target
           d == IF t.tag \in D!Ignored THEN ignore + 1 ELSE ignore
           s == State(stack, target, ignore, matches, malformed, text)
<1>1. D!Opened(s, t) = [s EXCEPT !.stack = a, !.matches = b, !.target = c, !.ignore = d]
  <2>1. s.stack = stack /\ s.target = target /\ s.ignore = ignore /\ s.matches = matches
    BY StateExcept
  <2> HIDE DEF s
  <2> QED
    BY <2>1, Zenon DEF D!Opened
<1> HIDE DEF a, b, c, d
<1>2. [s EXCEPT !.stack = a, !.matches = b, !.target = c, !.ignore = d] =
        [[[[s EXCEPT !.stack = a] EXCEPT !.matches = b] EXCEPT !.target = c] EXCEPT !.ignore = d]
  BY Zenon
<1>3. [s EXCEPT !.stack = a] = State(a, target, ignore, matches, malformed, text)
  BY StateExcept
<1>4. [State(a, target, ignore, matches, malformed, text) EXCEPT !.matches = b] =
        State(a, target, ignore, b, malformed, text)
  BY StateExcept
<1>5. [State(a, target, ignore, b, malformed, text) EXCEPT !.target = c] = State(a, c, ignore, b, malformed, text)
  BY StateExcept
<1>6. [State(a, c, ignore, b, malformed, text) EXCEPT !.ignore = d] = State(a, c, d, b, malformed, text)
  BY StateExcept
<1> HIDE DEF s
<1>7. D!Opened(s, t) = State(a, c, d, b, malformed, text)
  BY <1>1, <1>2, <1>3, <1>4, <1>5, <1>6, Zenon
<1> QED
  BY <1>7 DEF s, a, b, c, d

LEMMA Closing ==
  ASSUME NEW stack, NEW target, NEW ignore, NEW matches, NEW malformed, NEW text, NEW tag
  PROVE  D!Closed(State(stack, target, ignore, matches, malformed, text), tag) =
           State(D!Front(stack), IF target = Len(stack) THEN 0 ELSE target,
                 IF tag \in D!Ignored /\ ignore > 0 THEN ignore - 1 ELSE ignore,
                 matches, malformed, text)
<1> DEFINE a == D!Front(stack)
           c == IF target = Len(stack) THEN 0 ELSE target
           d == IF tag \in D!Ignored /\ ignore > 0 THEN ignore - 1 ELSE ignore
           s == State(stack, target, ignore, matches, malformed, text)
<1>1. D!Closed(s, tag) = [s EXCEPT !.ignore = d, !.target = c, !.stack = a]
  <2>1. s.stack = stack /\ s.target = target /\ s.ignore = ignore
    BY StateExcept
  <2> HIDE DEF s
  <2> QED
    BY <2>1, Zenon DEF D!Closed
<1> HIDE DEF a, c, d
<1>2. [s EXCEPT !.ignore = d, !.target = c, !.stack = a] =
        [[[s EXCEPT !.ignore = d] EXCEPT !.target = c] EXCEPT !.stack = a]
  BY Zenon
<1>3. [s EXCEPT !.ignore = d] = State(stack, target, d, matches, malformed, text)
  BY StateExcept
<1>4. [State(stack, target, d, matches, malformed, text) EXCEPT !.target = c] =
        State(stack, c, d, matches, malformed, text)
  BY StateExcept
<1>5. [State(stack, c, d, matches, malformed, text) EXCEPT !.stack = a] = State(a, c, d, matches, malformed, text)
  BY StateExcept
<1> HIDE DEF s
<1>6. D!Closed(s, tag) = State(a, c, d, matches, malformed, text)
  BY <1>1, <1>2, <1>3, <1>4, <1>5, Zenon
<1> QED
  BY <1>6 DEF s, a, c, d

LEMMA SingleNext ==
  ASSUME NEW p, NEW m \in Nat, NEW n \in Nat, m < n, n <= m + 1, NEW s, s.matches \in Nat, Single(p, s, m),
         NEW s2, s2.matches = IF p[n].match THEN s.matches + 1 ELSE s.matches,
         s2.text = s.text \/ s.target # 0, s2.matches = 0 => s2.target = s.target
  PROVE  Single(p, s2, n)
<1>1. \A i \in 1 .. n : i = n \/ i \in 1 .. m
  OBVIOUS
<1>2. CASE p[n].match
  <2>1. s2.matches = s.matches + 1 /\ s2.matches # 0
    BY <1>2
  <2>2. ASSUME s2.matches = 1, NEW i \in 1 .. n, NEW j \in 1 .. n, p[i].match, p[j].match PROVE i = j
    <3>1. \A k \in 1 .. m : ~p[k].match
      BY <2>1, <2>2 DEF Single
    <3> QED
      BY <1>1, <2>2, <3>1
  <2> QED
    BY <2>1, <2>2 DEF Single
<1>3. CASE ~p[n].match
  <2>1. s2.matches = s.matches
    BY <1>3
  <2>2. ASSUME s2.matches = 0 PROVE s2.target = 0 /\ s2.text = <<>> /\ \A i \in 1 .. n : ~p[i].match
    BY <1>1, <1>3, <2>1, <2>2 DEF Single
  <2>3. ASSUME s2.matches = 1, NEW i \in 1 .. n, NEW j \in 1 .. n, p[i].match, p[j].match PROVE i = j
    <3>1. i \in 1 .. m /\ j \in 1 .. m
      BY <1>1, <1>3, <2>3
    <3> QED
      BY <2>1, <2>3, <3>1 DEF Single
  <2> QED
    BY <2>2, <2>3 DEF Single
<1> QED
  BY <1>2, <1>3

LEMMA OpenStep ==
  ASSUME NEW p, NEW m \in Nat, NEW n \in Nat, m < n, n <= m + 1, NEW s, Reads(p, m, s),
         KindOf(p, n) = "open", TagOf(p, n) \in Tags, p[n].match \in BOOLEAN
  PROVE  Reads(p, n, D!Opened(s, p[n]))
<1> DEFINE h == Len(s.stack)
           more == Append(s.stack, TagOf(p, n))
           s2 == D!Opened(s, p[n])
<1>1. /\ s.stack \in Seq(Tags) /\ h \in Nat /\ s.target \in 0 .. h /\ s.ignore = Cardinality(Skipped(s.stack))
      /\ s.matches \in Nat /\ s.malformed \in BOOLEAN /\ s.text \in Seq(Nat) /\ Single(p, s, m)
  BY DEF Reads, Formed
<1>2. /\ more \in Seq(Tags) /\ Len(more) = h + 1 /\ more[h + 1] = TagOf(p, n)
      /\ \A k \in 1 .. h : more[k] = s.stack[k]
      /\ Cardinality(Skipped(s.stack)) \in Nat
      /\ Cardinality(Skipped(more)) = Cardinality(Skipped(s.stack)) + (IF TagOf(p, n) \in D!Ignored THEN 1 ELSE 0)
  BY <1>1, SkippedGrows
<1>3. s2 = [stack |-> more, target |-> IF p[n].match /\ s.target = 0 THEN h + 1 ELSE s.target,
            ignore |-> IF TagOf(p, n) \in D!Ignored THEN s.ignore + 1 ELSE s.ignore,
            matches |-> IF p[n].match THEN s.matches + 1 ELSE s.matches,
            malformed |-> s.malformed, text |-> s.text]
  <2>1. s = State(s.stack, s.target, s.ignore, s.matches, s.malformed, s.text)
    BY DEF Reads, Formed, State
  <2>2. D!Opened(State(s.stack, s.target, s.ignore, s.matches, s.malformed, s.text), p[n]) =
          State(Append(s.stack, p[n].tag), IF p[n].match /\ s.target = 0 THEN Len(s.stack) + 1 ELSE s.target,
                IF p[n].tag \in D!Ignored THEN s.ignore + 1 ELSE s.ignore,
                IF p[n].match THEN s.matches + 1 ELSE s.matches, s.malformed, s.text)
    BY Opening
  <2> QED
    BY <2>1, <2>2, Zenon DEF TagOf, State
<1> HIDE DEF s2, more, h
<1>4. /\ s2.stack = more /\ s2.malformed = s.malformed /\ s2.text = s.text
      /\ s2.target = IF p[n].match /\ s.target = 0 THEN h + 1 ELSE s.target
      /\ s2.ignore = IF TagOf(p, n) \in D!Ignored THEN s.ignore + 1 ELSE s.ignore
      /\ s2.matches = IF p[n].match THEN s.matches + 1 ELSE s.matches
      /\ s2 = [stack |-> s2.stack, target |-> s2.target, ignore |-> s2.ignore, matches |-> s2.matches,
               malformed |-> s2.malformed, text |-> s2.text]
  BY <1>3
<1>5. Formed(s2)
  <2>1. s2.stack \in Seq(Tags) /\ s2.target \in 0 .. Len(s2.stack)
    BY <1>1, <1>2, <1>4
  <2>2. s2.ignore = Cardinality(Skipped(s2.stack))
    BY <1>1, <1>2, <1>4
  <2>3. s2.matches \in Nat /\ s2.malformed \in BOOLEAN /\ s2.text \in Seq(Nat)
    BY <1>1, <1>4
  <2> QED
    BY <1>4, <2>1, <2>2, <2>3 DEF Formed
<1>6. Single(p, s2, n)
  <2>1. s2.matches = 0 => s2.target = s.target
    BY <1>1, <1>4
  <2> QED
    BY <1>1, <1>4, <2>1, SingleNext
<1>7. PICK pos : /\ Placed(p, s.stack, h, m, pos)
                 /\ s.matches = 1 /\ ~s.malformed => AtTarget(p, s, m, pos)
  BY DEF Reads, h
<1>n. PICK new : new = [k \in 1 .. h + 1 |-> IF k \in 1 .. h THEN pos[k] ELSE n]
  OBVIOUS
<1>8. new[h + 1] = n /\ \A k \in 1 .. h : new[k] = pos[k]
  BY <1>1, <1>n
<1>9. Placed(p, more, h + 1, n, new)
  <2>1. h \in Nat
    BY <1>1
  <2>2. Placed(p, s.stack, h, m, pos)
    BY <1>7
  <2>3. more[h + 1] = TagOf(p, n) /\ \A k \in 1 .. h : more[k] = s.stack[k]
    BY <1>2
  <2> QED
    BY <2>1, <2>2, <2>3, <1>n, PlacedPush
<1>10. ASSUME s2.matches = 1, ~s2.malformed PROVE AtTarget(p, s2, n, new)
  <2>1. CASE p[n].match
    <3>1. s.matches = 0
      BY <1>1, <1>4, <1>10, <2>1
    <3>2. s.target = 0 /\ s.text = <<>>
      BY <1>1, <3>1 DEF Single
    <3>3. s2.target = h + 1 /\ s2.text = <<>> /\ h + 1 # 0
      BY <1>1, <1>4, <2>1, <3>2
    <3>4. n \in Nat \ {0}
      OBVIOUS
    <3>5. Framed(p, h + 1, h + 1, n, new)
      BY <1>1, <1>8, <3>4, FramedBegins
    <3>6. Shown(p, more, h + 1, h + 1, <<>>, n, new)
      BY <1>8, ShownBegins
    <3> QED
      BY <1>2, <1>4, <1>8, <2>1, <3>3, <3>5, <3>6 DEF AtTarget
  <2>2. CASE ~p[n].match
    <3>1. s2.target = s.target /\ AtTarget(p, s, m, pos)
      BY <1>4, <1>7, <1>10, <2>2
    <3>2. CASE s.target = 0
      BY <1>4, <3>1, <3>2, FinishedNext DEF AtTarget
    <3>3. CASE s.target # 0
      <4>1. /\ Framed(p, h, s.target, m, pos) /\ p[pos[s.target]].match
            /\ Shown(p, s.stack, h, s.target, s.text, m, pos) /\ s.target \in 1 .. h
        BY <1>1, <3>1, <3>3 DEF AtTarget, h
      <4>2. Framed(p, h + 1, s.target, n, new)
        BY <1>1, <1>7, <4>1, <1>n, FramedPush
      <4>3. Shown(p, more, h + 1, s.target, s.text, n, new)
        <5>1. h \in Nat /\ Placed(p, s.stack, h, m, pos) /\ \A k \in 1 .. h : more[k] = s.stack[k]
          BY <1>1, <1>2, <1>7
        <5> QED
          BY <4>1, <5>1, <1>n, ShownPush
      <4>4. p[new[s.target]].match
        BY <1>8, <4>1
      <4> QED
        BY <1>2, <1>4, <3>1, <3>3, <4>2, <4>3, <4>4 DEF AtTarget
    <3> QED
      BY <3>2, <3>3
  <2> QED
    BY <2>1, <2>2
<1>11. Placed(p, s2.stack, Len(s2.stack), n, new)
  BY <1>2, <1>4, <1>9
<1>12. Reads(p, n, s2)
  BY <1>5, <1>6, <1>10, <1>11 DEF Reads
<1> QED
  BY <1>12 DEF s2

\* A token that leaves the stack and the target alone.
LEMMA VoidStep ==
  ASSUME NEW p, NEW m \in Nat, NEW n \in Nat, m < n, n <= m + 1, NEW s, Reads(p, m, s),
         KindOf(p, n) = "void", TagOf(p, n) \in Tags, p[n].match \in BOOLEAN
  PROVE  Reads(p, n, D!Closed(D!Opened(s, p[n]), TagOf(p, n)))
<1> DEFINE h == Len(s.stack)
           more == Append(s.stack, TagOf(p, n))
           s1 == D!Opened(s, p[n])
           s2 == D!Closed(s1, TagOf(p, n))
<1>1. /\ s.stack \in Seq(Tags) /\ h \in Nat /\ s.target \in 0 .. h /\ s.ignore = Cardinality(Skipped(s.stack))
      /\ s.matches \in Nat /\ s.malformed \in BOOLEAN /\ s.text \in Seq(Nat) /\ Single(p, s, m)
  BY DEF Reads, Formed
<1>2. /\ more \in Seq(Tags) /\ Len(more) = h + 1
      /\ \A k \in 1 .. h : more[k] = s.stack[k]
      /\ s.ignore \in Nat
  BY <1>1, SkippedGrows
<1>3. s1 = [stack |-> more, target |-> IF p[n].match /\ s.target = 0 THEN h + 1 ELSE s.target,
            ignore |-> IF TagOf(p, n) \in D!Ignored THEN s.ignore + 1 ELSE s.ignore,
            matches |-> IF p[n].match THEN s.matches + 1 ELSE s.matches,
            malformed |-> s.malformed, text |-> s.text]
  <2>1. s = State(s.stack, s.target, s.ignore, s.matches, s.malformed, s.text)
    BY DEF Reads, Formed, State
  <2>2. D!Opened(State(s.stack, s.target, s.ignore, s.matches, s.malformed, s.text), p[n]) =
          State(Append(s.stack, p[n].tag), IF p[n].match /\ s.target = 0 THEN Len(s.stack) + 1 ELSE s.target,
                IF p[n].tag \in D!Ignored THEN s.ignore + 1 ELSE s.ignore,
                IF p[n].match THEN s.matches + 1 ELSE s.matches, s.malformed, s.text)
    BY Opening
  <2> QED
    BY <2>1, <2>2, Zenon DEF TagOf, State
<1>4. D!Front(more) = s.stack
  <2> HIDE DEF more
  <2>1. more # <<>>
    BY <1>1, <1>2
  <2>2. /\ D!Front(more) \in Seq(Tags) /\ Len(D!Front(more)) = Len(more) - 1
        /\ \A k \in 1 .. Len(more) - 1 : D!Front(more)[k] = more[k]
    BY <1>2, <2>1, SkippedShrinks
  <2>3. Len(D!Front(more)) = h /\ \A k \in 1 .. h : D!Front(more)[k] = s.stack[k]
    BY <1>1, <1>2, <2>2
  <2> QED
    BY <1>1, <2>2, <2>3, SeqEqual
<1> HIDE DEF s1, more, h
<1>5. s2 = [stack |-> D!Front(s1.stack), target |-> IF s1.target = Len(s1.stack) THEN 0 ELSE s1.target,
            ignore |-> IF TagOf(p, n) \in D!Ignored /\ s1.ignore > 0 THEN s1.ignore - 1 ELSE s1.ignore,
            matches |-> s1.matches, malformed |-> s1.malformed, text |-> s1.text]
  <2>1. s1 = State(s1.stack, s1.target, s1.ignore, s1.matches, s1.malformed, s1.text)
    BY <1>3 DEF State
  <2>2. D!Closed(State(s1.stack, s1.target, s1.ignore, s1.matches, s1.malformed, s1.text), TagOf(p, n)) =
          State(D!Front(s1.stack), IF s1.target = Len(s1.stack) THEN 0 ELSE s1.target,
                IF TagOf(p, n) \in D!Ignored /\ s1.ignore > 0 THEN s1.ignore - 1 ELSE s1.ignore,
                s1.matches, s1.malformed, s1.text)
    BY Closing
  <2> QED
    BY <2>1, <2>2, Zenon DEF State
<1>6. /\ s1.stack = more /\ s1.malformed = s.malformed /\ s1.text = s.text
      /\ s1.target = IF p[n].match /\ s.target = 0 THEN h + 1 ELSE s.target
      /\ s1.ignore = IF TagOf(p, n) \in D!Ignored THEN s.ignore + 1 ELSE s.ignore
      /\ s1.matches = IF p[n].match THEN s.matches + 1 ELSE s.matches
  BY <1>3
<1> HIDE DEF s2
<1>7. /\ s2.stack = D!Front(s1.stack) /\ s2.malformed = s1.malformed /\ s2.text = s1.text
      /\ s2.target = IF s1.target = Len(s1.stack) THEN 0 ELSE s1.target
      /\ s2.ignore = IF TagOf(p, n) \in D!Ignored /\ s1.ignore > 0 THEN s1.ignore - 1 ELSE s1.ignore
      /\ s2.matches = s1.matches
      /\ s2 = [stack |-> s2.stack, target |-> s2.target, ignore |-> s2.ignore, matches |-> s2.matches,
               malformed |-> s2.malformed, text |-> s2.text]
  BY <1>5
<1>8. /\ s2.stack = s.stack /\ s2.malformed = s.malformed /\ s2.text = s.text
      /\ s2.matches = IF p[n].match THEN s.matches + 1 ELSE s.matches
  BY <1>4, <1>6, <1>7
<1>9. s2.target = s.target
  BY <1>1, <1>2, <1>6, <1>7
<1>10. s2.ignore = s.ignore
  BY <1>2, <1>6, <1>7
<1>11. Formed(s2)
  BY <1>1, <1>7, <1>8, <1>9, <1>10 DEF Formed, h
<1>12. Single(p, s2, n)
  BY <1>1, <1>8, <1>9, SingleNext
<1>13. PICK pos : /\ Placed(p, s.stack, h, m, pos)
                  /\ s.matches = 1 /\ ~s.malformed => AtTarget(p, s, m, pos)
  BY DEF Reads, h
<1>14. Placed(p, s.stack, h, n, pos)
  BY <1>1, <1>13, PlacedStays
<1>15. ASSUME s2.matches = 1, ~s2.malformed PROVE AtTarget(p, s2, n, pos)
  <2>1. CASE p[n].match
    <3>1. s.matches = 0
      BY <1>1, <1>8, <1>15, <2>1
    <3>2. s2.target = 0 /\ s2.text = <<>>
      BY <1>1, <1>8, <1>9, <3>1 DEF Single
    <3> QED
      BY <3>2 DEF AtTarget, Finished
  <2>2. CASE ~p[n].match
    <3>1. AtTarget(p, s, m, pos)
      BY <1>8, <1>13, <1>15, <2>2
    <3>2. CASE s.target = 0
      BY <1>8, <1>9, <3>1, <3>2, FinishedNext DEF AtTarget
    <3>3. CASE s.target # 0
      <4>1. /\ Framed(p, h, s.target, m, pos) /\ p[pos[s.target]].match
            /\ Shown(p, s.stack, h, s.target, s.text, m, pos) /\ s.target \in 1 .. h
        BY <1>1, <3>1, <3>3 DEF AtTarget, h
      <4>2. Framed(p, h, s.target, n, pos)
        BY <1>1, <1>13, <4>1, FramedStays
      <4>3. Shown(p, s.stack, h, s.target, s.text, n, pos)
        BY <1>1, <1>13, <4>1, ShownKeeps
      <4> QED
        BY <1>8, <1>9, <3>3, <4>1, <4>2, <4>3 DEF AtTarget, h
    <3> QED
      BY <3>2, <3>3
  <2> QED
    BY <2>1, <2>2
<1>16. Reads(p, n, s2)
  BY <1>8, <1>11, <1>12, <1>14, <1>15 DEF Reads, h
<1> QED
  BY <1>16 DEF s2, s1

\* An end tag that closes the innermost open element.
LEMMA CloseStep ==
  ASSUME NEW p, NEW m \in Nat, NEW n \in Nat, m < n, n <= m + 1, NEW s, Reads(p, m, s),
         KindOf(p, n) = "close", ~p[n].match, D!Closes(s, TagOf(p, n))
  PROVE  Reads(p, n, D!Closed(s, TagOf(p, n)))
<1> DEFINE h == Len(s.stack)
           g == h - 1
           s2 == D!Closed(s, TagOf(p, n))
<1>1. /\ s.stack \in Seq(Tags) /\ h \in Nat /\ s.target \in 0 .. h /\ s.ignore = Cardinality(Skipped(s.stack))
      /\ s.matches \in Nat /\ s.malformed \in BOOLEAN /\ s.text \in Seq(Nat) /\ Single(p, s, m)
  BY DEF Reads, Formed
<1>2. s.stack # <<>> /\ D!Last(s.stack) = TagOf(p, n)
  BY DEF D!Closes
<1>3. /\ D!Front(s.stack) \in Seq(Tags) /\ Len(D!Front(s.stack)) = g /\ h \in Nat \ {0} /\ g \in Nat
      /\ \A k \in 1 .. g : D!Front(s.stack)[k] = s.stack[k]
      /\ s.stack[h] = TagOf(p, n)
      /\ Cardinality(Skipped(s.stack)) \in Nat /\ Cardinality(Skipped(D!Front(s.stack))) \in Nat
      /\ Cardinality(Skipped(D!Front(s.stack))) =
           Cardinality(Skipped(s.stack)) - (IF TagOf(p, n) \in D!Ignored THEN 1 ELSE 0)
  <2>1. PICK st : st = s.stack
    OBVIOUS
  <2>2. /\ D!Front(st) \in Seq(Tags) /\ Len(D!Front(st)) = Len(st) - 1 /\ Len(st) \in Nat \ {0}
        /\ \A k \in 1 .. Len(st) - 1 : D!Front(st)[k] = st[k]
        /\ D!Last(st) = st[Len(st)]
        /\ Cardinality(Skipped(st)) \in Nat /\ Cardinality(Skipped(D!Front(st))) \in Nat
        /\ Cardinality(Skipped(D!Front(st))) =
             Cardinality(Skipped(st)) - (IF D!Last(st) \in D!Ignored THEN 1 ELSE 0)
    BY <1>1, <1>2, <2>1, SkippedShrinks
  <2>3. g \in Nat
    BY <2>1, <2>2
  <2> QED
    BY <1>2, <2>1, <2>2, <2>3
<1>4. s2 = [stack |-> D!Front(s.stack), target |-> IF s.target = h THEN 0 ELSE s.target,
            ignore |-> IF TagOf(p, n) \in D!Ignored /\ s.ignore > 0 THEN s.ignore - 1 ELSE s.ignore,
            matches |-> s.matches, malformed |-> s.malformed, text |-> s.text]
  <2>1. s = State(s.stack, s.target, s.ignore, s.matches, s.malformed, s.text)
    BY DEF Reads, Formed, State
  <2>2. D!Closed(State(s.stack, s.target, s.ignore, s.matches, s.malformed, s.text), TagOf(p, n)) =
          State(D!Front(s.stack), IF s.target = Len(s.stack) THEN 0 ELSE s.target,
                IF TagOf(p, n) \in D!Ignored /\ s.ignore > 0 THEN s.ignore - 1 ELSE s.ignore,
                s.matches, s.malformed, s.text)
    BY Closing
  <2> QED
    BY <2>1, <2>2, Zenon DEF State
<1> HIDE DEF s2, h
<1>5. /\ s2.stack = D!Front(s.stack) /\ s2.malformed = s.malformed /\ s2.text = s.text
      /\ s2.target = IF s.target = h THEN 0 ELSE s.target
      /\ s2.ignore = IF TagOf(p, n) \in D!Ignored /\ s.ignore > 0 THEN s.ignore - 1 ELSE s.ignore
      /\ s2.matches = s.matches
      /\ s2 = [stack |-> s2.stack, target |-> s2.target, ignore |-> s2.ignore, matches |-> s2.matches,
               malformed |-> s2.malformed, text |-> s2.text]
  BY <1>4
<1>6. s2.target \in 0 .. g
  BY <1>1, <1>3, <1>5
<1>7. s2.ignore = Cardinality(Skipped(s2.stack))
  BY <1>1, <1>3, <1>5
<1>8. Formed(s2)
  BY <1>1, <1>3, <1>5, <1>6, <1>7 DEF Formed
<1>9. Single(p, s2, n)
  <2>1. s2.matches = IF p[n].match THEN s.matches + 1 ELSE s.matches
    BY <1>5
  <2>2. s2.matches = 0 => s2.target = s.target
    BY <1>1, <1>5 DEF Single
  <2> QED
    BY <1>1, <1>5, <2>1, <2>2, SingleNext
<1>10. PICK pos : /\ Placed(p, s.stack, h, m, pos)
                  /\ s.matches = 1 /\ ~s.malformed => AtTarget(p, s, m, pos)
  BY DEF Reads, h
<1>11. PICK new : new = [k \in 1 .. h - 1 |-> pos[k]]
  OBVIOUS
<1>12. \A k \in 1 .. h - 1 : new[k] = pos[k] /\ s2.stack[k] = s.stack[k]
  BY <1>3, <1>5, <1>11
<1>13. Placed(p, s2.stack, h - 1, n, new)
  <2>1. \A k \in 1 .. h - 1 : s2.stack[k] = s.stack[k]
    BY <1>12
  <2>2. h \in Nat \ {0} /\ Placed(p, s.stack, h, m, pos)
    BY <1>3, <1>10
  <2> QED
    BY <2>1, <2>2, <1>11, PlacedPop
<1>14. Len(s2.stack) = h - 1
  BY <1>3, <1>5
<1>15. ASSUME s2.matches = 1, ~s2.malformed PROVE AtTarget(p, s2, n, new)
  <2>1. AtTarget(p, s, m, pos)
    BY <1>5, <1>10, <1>15
  <2>2. CASE s.target = 0
    <3>1. s2.target = 0 /\ s2.text = s.text
      BY <1>5, <2>2
    <3>2. Finished(p, s.text, m)
      BY <2>1, <2>2 DEF AtTarget
    <3> QED
      BY <3>1, <3>2, FinishedNext DEF AtTarget
  <2>3. CASE s.target # 0
    <3>1. /\ Framed(p, h, s.target, m, pos) /\ p[pos[s.target]].match
          /\ Shown(p, s.stack, h, s.target, s.text, m, pos) /\ s.target \in 1 .. h
      BY <1>1, <2>1, <2>3 DEF AtTarget, h
    <3>2. CASE s.target = h
      <4>1. s2.target = 0 /\ s2.text = s.text
        BY <1>5, <3>2
      <4>2. Framed(p, h, h, m, pos) /\ p[pos[h]].match /\ Shown(p, s.stack, h, h, s.text, m, pos)
        BY <3>1, <3>2
      <4>3. /\ h \in Nat /\ Placed(p, s.stack, h, m, pos) /\ s.stack[h] = TagOf(p, n)
            /\ m \in Nat /\ n \in Nat /\ m < n /\ n <= m + 1 /\ KindOf(p, n) = "close"
        BY <1>3, <1>10
      <4>4. Finished(p, s.text, n)
        BY ONLY <4>2, <4>3, TargetEnds
      <4> QED
        BY <4>1, <4>4 DEF AtTarget
    <3>3. CASE s.target # h
      <4>1. s2.target = s.target /\ s2.text = s.text /\ s2.target # 0
        BY <1>5, <2>3, <3>3
      <4>2. Framed(p, h - 1, s.target, n, new)
        BY <1>1, <1>3, <1>10, <1>11, <3>1, <3>3, FramedPop
      <4>3. \A k \in 1 .. h - 1 : s2.stack[k] = s.stack[k]
        BY <1>12
      <4>t. /\ h \in Nat /\ Placed(p, s.stack, h, m, pos) /\ s.stack[h] = TagOf(p, n)
            /\ m \in Nat /\ n \in Nat /\ m < n /\ n <= m + 1 /\ KindOf(p, n) = "close"
        BY <1>3, <1>10
      <4>4. Shown(p, s2.stack, h - 1, s.target, s.text, n, new)
        BY ONLY <1>11, <3>1, <3>3, <4>3, <4>t, ShownPops
      <4>5. p[new[s.target]].match
        <5>1. s.target \in 1 .. h - 1
          BY <1>3, <3>1, <3>3
        <5>2. new[s.target] = pos[s.target]
          BY <1>12, <5>1
        <5> QED
          BY <3>1, <5>2
      <4> QED
        BY <1>14, <4>1, <4>2, <4>4, <4>5 DEF AtTarget
    <3> QED
      BY <3>2, <3>3
  <2> QED
    BY <2>2, <2>3
<1>16. Placed(p, s2.stack, Len(s2.stack), n, new)
  BY <1>13, <1>14
<1>17. Reads(p, n, s2)
  BY <1>8, <1>9, <1>15, <1>16 DEF Reads
<1> QED
  BY <1>17 DEF s2

\* One that closes nothing.
LEMMA SkipStep ==
  ASSUME NEW p, NEW m \in Nat, NEW n \in Nat, m < n, n <= m + 1, NEW s, Reads(p, m, s),
         KindOf(p, n) = "close", ~p[n].match
  PROVE  Reads(p, n, [s EXCEPT !.malformed = @ \/ s.target # 0])
<1> DEFINE h == Len(s.stack)
           s2 == [s EXCEPT !.malformed = @ \/ s.target # 0]
<1>1. /\ s.stack \in Seq(Tags) /\ h \in Nat /\ s.target \in 0 .. h /\ s.ignore = Cardinality(Skipped(s.stack))
      /\ s.matches \in Nat /\ s.malformed \in BOOLEAN /\ s.text \in Seq(Nat) /\ Single(p, s, m)
  BY DEF Reads, Formed
<1>2. s2 = State(s.stack, s.target, s.ignore, s.matches, s.malformed \/ s.target # 0, s.text)
  <2>1. s = State(s.stack, s.target, s.ignore, s.matches, s.malformed, s.text)
    BY DEF Reads, Formed, State
  <2>2. s2 = [s EXCEPT !.malformed = s.malformed \/ s.target # 0]
    BY <2>1 DEF State
  <2> HIDE DEF s2
  <2>3. \A b : [State(s.stack, s.target, s.ignore, s.matches, s.malformed, s.text) EXCEPT !.malformed = b] =
          State(s.stack, s.target, s.ignore, s.matches, b, s.text)
    BY StateExcept
  <2> QED
    BY <2>1, <2>2, <2>3, Zenon
<1> HIDE DEF s2, h
<1>3. /\ s2.stack = s.stack /\ s2.malformed = (s.malformed \/ s.target # 0) /\ s2.text = s.text
      /\ s2.target = s.target /\ s2.ignore = s.ignore /\ s2.matches = s.matches
      /\ s2 = [stack |-> s2.stack, target |-> s2.target, ignore |-> s2.ignore, matches |-> s2.matches,
               malformed |-> s2.malformed, text |-> s2.text]
  BY <1>2 DEF State
<1>4. Formed(s2)
  <2>1. s2.malformed \in BOOLEAN
    BY <1>3
  <2> QED
    BY <1>1, <1>3, <2>1 DEF Formed, h
<1>5. Single(p, s2, n)
  BY <1>1, <1>3, SingleNext
<1>6. PICK pos : /\ Placed(p, s.stack, h, m, pos)
                 /\ s.matches = 1 /\ ~s.malformed => AtTarget(p, s, m, pos)
  BY DEF Reads, h
<1>7. Placed(p, s.stack, h, n, pos)
  BY <1>1, <1>6, PlacedStays
<1>8. ASSUME s2.matches = 1, ~s2.malformed PROVE AtTarget(p, s2, n, pos)
  <2>1. s.target = 0 /\ ~s.malformed /\ s.matches = 1
    BY <1>1, <1>3, <1>8
  <2>2. Finished(p, s.text, m)
    BY <1>6, <2>1 DEF AtTarget
  <2> QED
    BY <1>3, <2>1, <2>2, FinishedNext DEF AtTarget
<1>9. Reads(p, n, s2)
  BY <1>3, <1>4, <1>5, <1>7, <1>8 DEF Reads, h
<1> QED
  BY <1>9 DEF s2

LEMMA DataStep ==
  ASSUME NEW p, NEW m \in Nat, NEW n \in Nat, m < n, n <= m + 1, NEW s, Reads(p, m, s),
         KindOf(p, n) = "data", ~p[n].match
  PROVE  Reads(p, n, IF s.target # 0 /\ s.ignore = 0 THEN [s EXCEPT !.text = Append(@, n)] ELSE s)
<1> DEFINE h == Len(s.stack)
           takes == s.target # 0 /\ s.ignore = 0
           text == IF takes THEN Append(s.text, n) ELSE s.text
           s2 == IF takes THEN [s EXCEPT !.text = Append(@, n)] ELSE s
<1>1. /\ s.stack \in Seq(Tags) /\ h \in Nat /\ s.target \in 0 .. h /\ s.ignore = Cardinality(Skipped(s.stack))
      /\ s.matches \in Nat /\ s.malformed \in BOOLEAN /\ s.text \in Seq(Nat) /\ Single(p, s, m)
  BY DEF Reads, Formed
<1>2. s2 = State(s.stack, s.target, s.ignore, s.matches, s.malformed, text)
  <2>1. s = State(s.stack, s.target, s.ignore, s.matches, s.malformed, s.text)
    BY DEF Reads, Formed, State
  <2>2. takes => s2 = [s EXCEPT !.text = Append(s.text, n)]
    BY <2>1 DEF State
  <2>3. ~takes => s2 = s
    OBVIOUS
  <2>4. (takes => text = Append(s.text, n)) /\ (~takes => text = s.text)
    OBVIOUS
  <2> HIDE DEF s2, takes, text
  <2>5. \A b : [State(s.stack, s.target, s.ignore, s.matches, s.malformed, s.text) EXCEPT !.text = b] =
          State(s.stack, s.target, s.ignore, s.matches, s.malformed, b)
    BY StateExcept
  <2> QED
    BY <2>1, <2>2, <2>3, <2>4, <2>5, Zenon
<1> HIDE DEF s2, h
<1>3. /\ s2.stack = s.stack /\ s2.malformed = s.malformed /\ s2.text = text
      /\ s2.target = s.target /\ s2.ignore = s.ignore /\ s2.matches = s.matches
      /\ s2 = [stack |-> s2.stack, target |-> s2.target, ignore |-> s2.ignore, matches |-> s2.matches,
               malformed |-> s2.malformed, text |-> s2.text]
  BY <1>2 DEF State
<1>4. text \in Seq(Nat) /\ (text = s.text \/ s.target # 0) /\ (s.target = 0 => text = s.text)
  BY <1>1
<1>5. takes <=> s.target # 0 /\ \A k \in 1 .. h : s.stack[k] \notin D!Ignored
  <2>1. Cardinality(Skipped(s.stack)) = 0 <=> Skipped(s.stack) = {}
    BY <1>1, SkippedIsEmpty
  <2>2. Skipped(s.stack) = {} <=> \A k \in 1 .. h : s.stack[k] \notin D!Ignored
    BY DEF Skipped, h
  <2> QED
    BY <1>1, <2>1, <2>2
<1>6. (takes => text = Append(s.text, n)) /\ (~takes => text = s.text)
  OBVIOUS
<1> HIDE DEF takes, text
<1>7. Formed(s2)
  BY <1>1, <1>3, <1>4 DEF Formed, h
<1>8. Single(p, s2, n)
  BY <1>1, <1>3, <1>4, SingleNext
<1>9. PICK pos : /\ Placed(p, s.stack, h, m, pos)
                 /\ s.matches = 1 /\ ~s.malformed => AtTarget(p, s, m, pos)
  BY DEF Reads, h
<1>10. Placed(p, s.stack, h, n, pos)
  BY <1>1, <1>9, PlacedStays
<1>11. ASSUME s2.matches = 1, ~s2.malformed PROVE AtTarget(p, s2, n, pos)
  <2>1. AtTarget(p, s, m, pos)
    BY <1>3, <1>9, <1>11
  <2>2. CASE s.target = 0
    <3>1. Finished(p, s.text, m)
      BY <2>1, <2>2 DEF AtTarget
    <3> QED
      BY <1>3, <1>4, <2>2, <3>1, FinishedNext DEF AtTarget
  <2>3. CASE s.target # 0
    <3>1. /\ Framed(p, h, s.target, m, pos) /\ p[pos[s.target]].match
          /\ Shown(p, s.stack, h, s.target, s.text, m, pos) /\ s.target \in 1 .. h
      BY <1>1, <2>1, <2>3 DEF AtTarget, h
    <3>2. Framed(p, h, s.target, n, pos)
      BY <1>1, <1>9, <3>1, FramedStays
    <3>3. Shown(p, s.stack, h, s.target, text, n, pos)
      <4>1. CASE takes
        <5>1. \A k \in 1 .. h : s.stack[k] \notin D!Ignored
          BY <1>5, <4>1
        <5>2. Shown(p, s.stack, h, s.target, Append(s.text, n), n, pos)
          BY <1>1, <1>9, <3>1, <5>1, ShownTakes
        <5> QED
          BY <1>6, <4>1, <5>2
      <4>2. CASE ~takes
        <5>1. \E k \in 1 .. h : s.stack[k] \in D!Ignored
          BY <1>5, <2>3, <4>2
        <5>2. Shown(p, s.stack, h, s.target, s.text, n, pos)
          BY <1>1, <1>9, <3>1, <5>1, ShownKeeps
        <5> QED
          BY <1>6, <4>2, <5>2
      <4> QED
        BY <4>1, <4>2
    <3> QED
      BY <1>3, <2>3, <3>1, <3>2, <3>3 DEF AtTarget, h
  <2> QED
    BY <2>2, <2>3
<1>12. Reads(p, n, s2)
  BY <1>3, <1>7, <1>8, <1>10, <1>11 DEF Reads, h
<1> QED
  BY <1>12 DEF s2, takes

LEMMA FedStep ==
  ASSUME NEW p, NEW m \in Nat, NEW n \in Nat, m < n, n <= m + 1, NEW s, Reads(p, m, s), p[n] \in Tokens
  PROVE  Reads(p, n, D!Fed(p, s, n))
<1>1. /\ KindOf(p, n) \in {"open", "close", "void", "data"} /\ TagOf(p, n) \in Tags
      /\ p[n].match \in BOOLEAN /\ (p[n].match => KindOf(p, n) \in {"open", "void"})
  BY TokensAssumption DEF KindOf, TagOf, Tags
<1>2. CASE KindOf(p, n) = "open"
  <2>1. D!Fed(p, s, n) = D!Opened(s, p[n])
    BY <1>2 DEF D!Fed, KindOf
  <2> QED
    BY <1>1, <1>2, <2>1, OpenStep
<1>3. CASE KindOf(p, n) = "void"
  <2>1. D!Fed(p, s, n) = D!Closed(D!Opened(s, p[n]), TagOf(p, n))
    BY <1>3 DEF D!Fed, KindOf, TagOf
  <2> QED
    BY <1>1, <1>3, <2>1, VoidStep
<1>4. CASE KindOf(p, n) = "close"
  <2>1. ~p[n].match
    BY <1>1, <1>4
  <2>2. CASE D!Closes(s, TagOf(p, n))
    <3>1. D!Fed(p, s, n) = D!Closed(s, TagOf(p, n))
      BY <1>4, <2>2 DEF D!Fed, KindOf, TagOf
    <3> QED
      BY <1>4, <2>1, <2>2, <3>1, CloseStep
  <2>3. CASE ~D!Closes(s, TagOf(p, n))
    <3>1. D!Fed(p, s, n) = [s EXCEPT !.malformed = @ \/ s.target # 0]
      BY <1>4, <2>3 DEF D!Fed, KindOf, TagOf
    <3> QED
      BY <1>4, <2>1, <3>1, SkipStep
  <2> QED
    BY <2>2, <2>3
<1>5. CASE KindOf(p, n) = "data"
  <2>1. D!Fed(p, s, n) = IF s.target # 0 /\ s.ignore = 0 THEN [s EXCEPT !.text = Append(@, n)] ELSE s
    BY <1>5 DEF D!Fed, KindOf
  <2>2. ~p[n].match
    BY <1>1, <1>5
  <2> QED
    BY <1>5, <2>1, <2>2, DataStep
<1> QED
  BY <1>1, <1>2, <1>3, <1>4, <1>5

-----------------------------------------------------------------------------
(* The whole page.                                                         *)

ParserStates ==
  [stack : Seq(Tags), target : Nat, ignore : Nat, matches : Nat, malformed : BOOLEAN, text : Seq(Nat)]

LEMMA FormedIsState ==
  ASSUME NEW s, Formed(s) PROVE s \in ParserStates
<1>1. s.ignore \in Nat /\ s.target \in Nat
  BY SkippedIsEmpty DEF Formed
<1> QED
  BY <1>1 DEF Formed, ParserStates

LEMMA FreshReads ==
  ASSUME NEW p PROVE Reads(p, 0, D!Fresh)
<1>1. /\ D!Fresh.stack = <<>> /\ D!Fresh.target = 0 /\ D!Fresh.ignore = 0 /\ D!Fresh.matches = 0
      /\ D!Fresh.malformed = FALSE /\ D!Fresh.text = <<>>
      /\ D!Fresh = [stack |-> <<>>, target |-> 0, ignore |-> 0, matches |-> 0, malformed |-> FALSE, text |-> <<>>]
  BY DEF D!Fresh
<1>2. <<>> \in Seq(Tags) /\ <<>> \in Seq(Nat) /\ Len(<<>>) = 0
  OBVIOUS
<1>3. Skipped(<<>>) = {}
  BY <1>2 DEF Skipped
<1>4. Cardinality(Skipped(<<>>)) = 0
  BY <1>3, FS_EmptySet
<1>5. Formed(D!Fresh)
  <2>1. D!Fresh = [stack |-> D!Fresh.stack, target |-> D!Fresh.target, ignore |-> D!Fresh.ignore,
                   matches |-> D!Fresh.matches, malformed |-> D!Fresh.malformed, text |-> D!Fresh.text]
    BY <1>1
  <2>2. D!Fresh.stack \in Seq(Tags) /\ D!Fresh.text \in Seq(Nat) /\ D!Fresh.target \in 0 .. Len(D!Fresh.stack)
    BY <1>1, <1>2
  <2>3. D!Fresh.ignore = Cardinality(Skipped(D!Fresh.stack))
    BY <1>1, <1>4
  <2>4. D!Fresh.matches \in Nat /\ D!Fresh.malformed \in BOOLEAN
    BY <1>1
  <2> QED
    BY <2>1, <2>2, <2>3, <2>4 DEF Formed
<1>6. Single(p, D!Fresh, 0)
  BY <1>1 DEF Single
<1>7. PICK pos : pos = [k \in 1 .. 0 |-> 1]
  OBVIOUS
<1>8. Placed(p, <<>>, 0, 0, pos)
  BY <1>7 DEF Placed
<1>9. Placed(p, D!Fresh.stack, Len(D!Fresh.stack), 0, pos)
  BY <1>1, <1>2, <1>8
<1> QED
  BY <1>1, <1>5, <1>6, <1>9 DEF Reads

\* The parser knows what it should of a page of any length.
LEMMA ParsesRead ==
  ASSUME NEW p \in Seq(Tokens)
  PROVE  Reads(p, Len(p), D!Parse(p))
<1> DEFINE l == Len(p)
           S == [n \in 0 .. l |-> {s \in ParserStates : Reads(p, n, s)}]
           step == [n \in 1 .. l |-> [s \in S[n - 1] |-> D!Fed(p, s, n)]]
           Follows(f) == f = [n \in 0 .. l |-> IF n = 0 THEN D!Fresh ELSE D!Fed(p, f[n - 1], n)]
<1>0. l \in Nat /\ \A n \in 1 .. l : p[n] \in Tokens /\ n - 1 \in 0 .. l /\ n \in 0 .. l
  OBVIOUS
<1> HIDE DEF l
<1>1. ASSUME NEW n \in 1 .. l, NEW s \in S[n - 1] PROVE D!Fed(p, s, n) \in S[n]
  <2>1. Reads(p, n - 1, s)
    BY <1>0
  <2>2. n - 1 \in Nat /\ n \in Nat /\ n - 1 < n /\ n <= (n - 1) + 1 /\ p[n] \in Tokens
    BY <1>0
  <2>3. Reads(p, n, D!Fed(p, s, n))
    BY <2>1, <2>2, FedStep
  <2>4. D!Fed(p, s, n) \in ParserStates
    BY <2>3, FormedIsState DEF Reads
  <2> QED
    BY <1>0, <2>3, <2>4
<1>2. D!Fresh \in S[0]
  <2>1. Reads(p, 0, D!Fresh) /\ D!Fresh \in ParserStates
    BY FreshReads, FormedIsState DEF Reads
  <2> QED
    BY <1>0, <2>1
<1>3. \A n \in 1 .. l : step[n] \in [S[n - 1] -> S[n]]
  BY <1>1
<1>s. \A n \in 1 .. l : \A s \in S[n - 1] : step[n][s] = D!Fed(p, s, n)
  OBVIOUS
<1>t. \A s \in S[l] : Reads(p, l, s)
  BY <1>0
<1> HIDE DEF S, step
<1>4. PICK g : Iteration(g, l, D!Fresh, step)
  BY <1>0, <1>2, <1>3, IterationsExist
<1>5. /\ g = [n \in 0 .. l |-> g[n]] /\ g[0] = D!Fresh
      /\ \A n \in 1 .. l : g[n] = step[n][g[n - 1]]
  BY <1>0, <1>4, IterationMeans
<1>6. \A n \in 0 .. l : g[n] \in S[n]
  <2>1. ASSUME NEW n \in 1 .. l, g[n - 1] \in S[n - 1] PROVE g[n] \in S[n]
    <3>1. step[n][g[n - 1]] = D!Fed(p, g[n - 1], n)
      BY <1>s, <2>1
    <3>2. D!Fed(p, g[n - 1], n) \in S[n]
      BY <1>1, <2>1
    <3> QED
      BY <1>5, <3>1, <3>2
  <2> QED
    BY <1>0, <1>2, <1>5, <2>1, IterationsStay
<1>7. \A n \in 0 .. l : g[n] = IF n = 0 THEN D!Fresh ELSE D!Fed(p, g[n - 1], n)
  <2> TAKE n \in 0 .. l
  <2>1. CASE n = 0
    BY <1>5, <2>1
  <2>2. CASE n # 0
    <3>1. n \in 1 .. l /\ n - 1 \in 0 .. l
      BY <1>0, <2>2
    <3> QED
      BY <1>5, <1>6, <1>s, <2>2, <3>1
  <2> QED
    BY <2>1, <2>2
<1>8. Follows(g)
  BY <1>5, <1>7
<1>9. D!Parses(p) = CHOOSE f : Follows(f)
  BY DEF D!Parses, l
<1>10. Follows(D!Parses(p))
  BY <1>8, <1>9
<1>11. PICK f : f = D!Parses(p)
  OBVIOUS
<1>12. f[0] = D!Fresh /\ \A n \in 1 .. l : f[n] = D!Fed(p, f[n - 1], n)
  <2>1. f = [n \in 0 .. l |-> IF n = 0 THEN D!Fresh ELSE D!Fed(p, f[n - 1], n)]
    BY <1>10, <1>11
  <2>2. 0 \in 0 .. l /\ \A n \in 1 .. l : n \in 0 .. l /\ n # 0
    BY <1>0
  <2> QED
    BY <2>1, <2>2
<1>13. \A n \in 0 .. l : f[n] \in S[n]
  <2>1. \A n \in 1 .. l : f[n - 1] \in S[n - 1] => f[n] \in S[n]
    BY <1>1, <1>12
  <2> QED
    BY <1>0, <1>2, <1>12, <2>1, IterationsStay
<1>14. f[l] \in S[l]
  BY <1>0, <1>13
<1>15. D!Parse(p) = f[l]
  BY <1>11 DEF D!Parse, l
<1> QED
  BY <1>14, <1>15, <1>t DEF l

LEMMA SelectionIsExact ==
  ASSUME NEW p \in Seq(Tokens)
  PROVE  D!SelectedTextIsExact(p)
<1> DEFINE s == D!Parse(p)
           text == D!Selection(p)
           l == Len(p)
<1> SUFFICES ASSUME text # <<>>
             PROVE  \E a \in DOMAIN p, b \in DOMAIN p :
                      /\ p[a].match
                      /\ \A i \in DOMAIN p : p[i].match => i = a
                      /\ D!WellNested(p, a, b)
                      /\ D!Range(text) = {i \in a .. b : p[i].kind = "data" /\ ~D!Hidden(p, i)}
                      /\ \A j, k \in DOMAIN text : j < k => text[j] < text[k]
  BY DEF D!SelectedTextIsExact
<1>1. ~s.malformed /\ s.target = 0 /\ s.matches = 1 /\ text = s.text
  BY DEF D!Selection
<1>2. Reads(p, l, s)
  BY ParsesRead
<1>3. Formed(s) /\ Single(p, s, l) /\ Finished(p, s.text, l)
  BY <1>1, <1>2 DEF Reads, AtTarget
<1>4. DOMAIN p = 1 .. l /\ l \in Nat /\ \A i \in 1 .. l : p[i] \in Tokens
  OBVIOUS
<1>5. text \in Seq(Nat) /\ DOMAIN text = 1 .. Len(text)
  BY <1>1, <1>3 DEF Formed
<1>6. PICK a \in 1 .. l : \E b \in a .. l :
        /\ p[a].match /\ D!Element(p, a, b)
        /\ \A i \in a .. b : KindOf(p, i) = "open" => Balanced(p, i, b)
        /\ Content(p, text, a, b)
        /\ \A i \in a .. b : KindOf(p, i) = "data" => InText(text, i) \/ Screened(p, a, b, i)
  BY <1>1, <1>3 DEF Finished
<1>7. PICK b \in a .. l :
        /\ p[a].match /\ D!Element(p, a, b)
        /\ \A i \in a .. b : KindOf(p, i) = "open" => Balanced(p, i, b)
        /\ Content(p, text, a, b)
        /\ \A i \in a .. b : KindOf(p, i) = "data" => InText(text, i) \/ Screened(p, a, b, i)
  BY <1>6
<1>8. a \in DOMAIN p /\ b \in DOMAIN p /\ a \in 1 .. l
  BY <1>4
<1> HIDE DEF text, s, l
<1>9. \A i \in DOMAIN p : p[i].match => i = a
  BY <1>1, <1>3, <1>4, <1>7, <1>8 DEF Single
<1>10. D!WellNested(p, a, b)
  BY <1>7 DEF D!WellNested, Balanced, KindOf
<1>11. ASSUME NEW i \in a .. b, Screened(p, a, b, i) PROVE D!Hidden(p, i)
  <2>1. PICK x \in a .. i, y \in i .. b : TagOf(p, x) \in D!Ignored /\ D!Element(p, x, y)
    BY <1>11 DEF Screened
  <2>2. x \in 1 .. i /\ y \in i .. l
    BY <1>4, <1>8, <2>1
  <2> QED
    BY <2>1, <2>2 DEF D!Hidden, TagOf, l
<1>12. ASSUME NEW i \in a .. b, KindOf(p, i) = "data", Never(p, i), D!Hidden(p, i) PROVE FALSE
  <2>1. PICK x \in 1 .. i, y \in i .. l : TagOf(p, x) \in D!Ignored /\ D!Element(p, x, y)
    BY <1>12 DEF D!Hidden, TagOf, l
  <2>2. KindOf(p, x) = "open" /\ KindOf(p, y) = "close" /\ \A j \in x .. (y - 1) : D!Depth(p, x, j) > 0
    BY <2>1 DEF D!Element, KindOf
  <2>3. i # y
    BY <1>12, <2>2
  <2>4. \A j \in x .. i : j \in x .. (y - 1)
    BY <1>4, <1>8, <2>1, <2>3
  <2>5. Deep(p, x, i)
    BY <2>2, <2>4 DEF Deep
  <2> QED
    BY <1>12, <2>1, <2>2, <2>5 DEF Never
<1>13. \A i : InText(text, i) <=> i \in a .. b /\ KindOf(p, i) = "data" /\ ~D!Hidden(p, i)
  <2> TAKE i
  <2>1. InText(text, i) => i \in a .. b /\ KindOf(p, i) = "data" /\ Never(p, i)
    BY <1>7 DEF Content
  <2>2. i \in a .. b /\ KindOf(p, i) = "data" => InText(text, i) \/ Screened(p, a, b, i)
    BY <1>7
  <2> QED
    BY <1>11, <1>12, <2>1, <2>2
<1>14. D!Range(text) = {i \in a .. b : p[i].kind = "data" /\ ~D!Hidden(p, i)}
  <2>1. D!Range(text) = {text[k] : k \in 1 .. Len(text)}
    BY <1>5 DEF D!Range
  <2>2. \A i : i \in D!Range(text) <=> InText(text, i)
    BY <2>1 DEF InText
  <2> QED
    BY <1>13, <2>2 DEF KindOf
<1>15. \A j, k \in DOMAIN text : j < k => text[j] < text[k]
  BY <1>5, <1>7 DEF Content, Ordered
<1> QED
  BY <1>7, <1>8, <1>9, <1>10, <1>14, <1>15 DEF text

-----------------------------------------------------------------------------
(* All parts together.                                                     *)

MCInv ==
  /\ part \in {"quality", "prospective", "metadata", "descriptions", "page"}
  /\ IF part = "quality" THEN QualityInv ELSE NoQuality
  /\ part = "prospective" => SelectionInv
  /\ part = "metadata" => MetadataInv
  /\ part = "descriptions" => DescriptionInv
  /\ part = "page" => page \in Seq(Tokens)

LEMMA MCStarts == MCInit => MCInv
<1> SUFFICES ASSUME MCInit PROVE MCInv
  OBVIOUS
<1>1. CASE part = "quality"
  BY <1>1, InitInv DEF MCInit, MCInv
<1>2. CASE part = "prospective"
  BY <1>2, SelectionsStart DEF MCInit, MCInv
<1>3. CASE part = "metadata"
  BY <1>3, MetadataStarts DEF MCInit, MCInv
<1>4. CASE part = "descriptions"
  BY <1>4, DescriptionsStart DEF MCInit, MCInv
<1>5. CASE part = "page"
  <2>1. page = <<>> /\ <<>> \in Seq(Tokens)
    BY DEF MCInit, Away
  <2> QED
    BY <1>5, <2>1 DEF MCInit, MCInv
<1> QED
  BY <1>1, <1>2, <1>3, <1>4, <1>5 DEF MCInit

LEMMA NextTokenStep == page \in Seq(Tokens) /\ NextToken => page' \in Seq(Tokens)
  BY DEF NextToken

LEMMA NoQualityStays == NoQuality /\ UNCHANGED vars => NoQuality'
<1> SUFFICES ASSUME NoQuality, UNCHANGED vars PROVE NoQuality'
  OBVIOUS
<1>1. /\ pkg' = pkg /\ raw' = raw /\ intake' = intake /\ index' = index /\ bindings' = bindings
      /\ job' = job /\ budget' = budget /\ edits' = edits
      /\ history' = history /\ config' = config /\ quality' = quality
  BY DEF vars, qualityVars, files
<1> QED
  BY <1>1, Zenon DEF NoQuality, Away

LEMMA MCKeeps ==
  MCInv /\ [MCNext]_<<part, vars, selectionVars, metadataVars, descriptionVars, page>> => MCInv'
<1> DEFINE all == <<part, vars, selectionVars, metadataVars, descriptionVars, page>>
<1> SUFFICES ASSUME MCInv, [MCNext]_all PROVE MCInv'
  OBVIOUS
<1>1. part' = part
  BY DEF MCNext
<1>2. CASE part = "quality"
  <2>1. QualityInv /\ [Next]_vars
    BY <1>2 DEF MCInv, MCNext
  <2>2. QualityInv'
    BY <2>1, NextInv
  <2> QED
    BY <1>1, <1>2, <2>2 DEF MCInv
<1>3. CASE part # "quality"
  <2>1. NoQuality /\ UNCHANGED vars
    BY <1>3 DEF MCInv, MCNext
  <2>2. NoQuality'
    BY <2>1, NoQualityStays
  <2>3. part = "prospective" => SelectionInv'
    <3> SUFFICES ASSUME part = "prospective" PROVE SelectionInv'
      OBVIOUS
    <3>1. SelectionInv /\ (P!Next \/ UNCHANGED selectionVars)
      BY DEF MCInv, MCNext
    <3>2. CASE P!Next
      BY <3>1, <3>2, SelectionsKeep
    <3>3. CASE UNCHANGED selectionVars
      BY <3>1, <3>3, SelectionsStay DEF selectionVars
    <3> QED
      BY <3>1, <3>2, <3>3
  <2>4. part = "metadata" => MetadataInv'
    <3> SUFFICES ASSUME part = "metadata" PROVE MetadataInv'
      OBVIOUS
    <3>1. MetadataInv /\ (M!Next \/ UNCHANGED metadataVars)
      BY DEF MCInv, MCNext
    <3> QED
      BY <3>1, MetadataKeeps, MetadataStays
  <2>5. part = "descriptions" => DescriptionInv'
    <3> SUFFICES ASSUME part = "descriptions" PROVE DescriptionInv'
      OBVIOUS
    <3>1. DescriptionInv /\ (D!Next \/ UNCHANGED descriptionVars)
      BY DEF MCInv, MCNext
    <3> QED
      BY <3>1, DescriptionsKeep, DescriptionsStay
  <2>6. part = "page" => page' \in Seq(Tokens)
    <3> SUFFICES ASSUME part = "page" PROVE page' \in Seq(Tokens)
      OBVIOUS
    <3>1. page \in Seq(Tokens) /\ (NextToken \/ page' = page)
      BY DEF MCInv, MCNext
    <3> QED
      BY <3>1, NextTokenStep
  <2> QED
    BY <1>1, <1>3, <2>2, <2>3, <2>4, <2>5, <2>6 DEF MCInv
<1> QED
  BY <1>2, <1>3

\* In every behaviour of any part, whatever is known of it stays known.
THEOREM EvidenceIsKnown == MCSpec => []MCInv
<1>1. MCInit => MCInv
  BY MCStarts
<1>2. MCInv /\ [MCNext]_<<part, vars, selectionVars, metadataVars, descriptionVars, page>> => MCInv'
  BY MCKeeps
<1> QED
  BY <1>1, <1>2, PTL DEF MCSpec

\* What a batch makes visible is the analysis ROOT approved, for the raw
\* inventory and by the sources it approved, and it verifies as long as origin
\* and selection stay; every link of it leads where its origin's link led; and
\* submissions are refused as incomplete exactly when the archives cannot be
\* told apart as the declared ones, whichever way the search takes
\* (prospective_selection.py).
THEOREM SelectionsAreApproved == MCSpec => []VisibleIsApproved
<1>1. MCInv => VisibleIsApproved
  BY KnownIsApproved, LinksAreKept, KnownIsComplete DEF MCInv, VisibleIsApproved
<1> QED
  BY <1>1, EvidenceIsKnown, PTL

\* What is built of company metadata can be read, can be made again as of its
\* cutoff and admits no company for what is not known; a description that is
\* shown is the pinned one under a current right; and the text selected from a
\* page of any length is exactly its one visible target (company_metadata.py,
\* company_descriptions.py).
THEOREM CompaniesAreHonest == MCSpec => []CompanyDataIsHonest
<1>1. MCInv => CompanyDataIsHonest
  <2>1. DescriptionInv => D!ShownIsPinnedAndCurrent
    BY DEF DescriptionInv
  <2> QED
    BY <2>1, KnownIsHonest, SelectionIsExact DEF MCInv, CompanyDataIsHonest
<1> QED
  BY <1>1, EvidenceIsKnown, PTL
===============================================================================
