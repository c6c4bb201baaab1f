----------------------- MODULE ReviewedFourthQuarter -----------------------
(***************************************************************************)
(* The reviewed fourth quarter of analytics/reviewed_q4.py: source pairs   *)
(* copied out of one history publication (the evidence), a ledger of       *)
(* decisions that names the evidence, and a companion of the derived       *)
(* values, which an analysis then shows beside the history's own cells     *)
(* (analysis._apply_reviewed_q4).  The files lie at paths and may be       *)
(* exchanged while a command reads them; a digest is the content.          *)
(*                                                                         *)
(* A history holds per product the cells of the year and the nine months,  *)
(* whether the pair is structurally sound (_structural_problem), and the   *)
(* fourth quarter it has itself, if any.  Decisions are made before the    *)
(* ledger's cutoff and the cutoff lies in the past.                        *)
(***************************************************************************)
EXTENDS Integers

CONSTANTS Histories, Evidences, Ledgers,  \* what may lie at the three paths
          Sightings,                      \* versions of the source snapshot
          Starts,                         \* [history, evidence, ledger] of the beginning
          MaxEdits                        \* bound: exchanged files

VARIABLES history, evidence, ledger, snapshot, job, companion, consumer, edits
vars == <<history, evidence, ledger, snapshot, job, companion, consumer, edits>>
files == <<history, evidence, ledger, snapshot>>

NoValue == -1
Absent == [step |-> "none"]
Residual(cells) == cells.fy - cells.ytd

Init ==
  /\ \E s \in Starts : history = s.history /\ evidence = s.evidence /\ ledger = s.ledger
  /\ snapshot = history.snapshot
  /\ job = Absent /\ companion = Absent /\ consumer = Absent /\ edits = 0

\* A file is exchanged; a running command notes which, for the properties.
Noted(file) ==
  IF job = Absent THEN job
  ELSE [job EXCEPT !.exchanged = @ \cup {IF file \in @ THEN "again" ELSE file}]
Exchange ==
  /\ edits < MaxEdits /\ edits' = edits + 1
  /\ \/ history' \in Histories /\ job' = Noted("history") /\ UNCHANGED <<evidence, ledger, snapshot>>
     \/ evidence' \in Evidences /\ job' = Noted("evidence") /\ UNCHANGED <<history, ledger, snapshot>>
     \/ ledger' \in Ledgers /\ job' = Noted("ledger") /\ UNCHANGED <<history, evidence, snapshot>>
     \/ snapshot' \in Sightings /\ job' = Noted("snapshot") /\ UNCHANGED <<history, evidence, ledger>>
  /\ UNCHANGED <<companion, consumer>>

-----------------------------------------------------------------------------
(* generate_reviewed_q4 *)

\* The digests of the history and the evidence are taken first,
HashInputs ==
  /\ job = Absent /\ companion = Absent
  /\ job' = [step |-> "hashed", parent |-> history, sha |-> evidence, exchanged |-> {}]
  /\ UNCHANGED <<files, companion, consumer, edits>>

\* then the documents are read and must name them.
Bound(e, l) ==
  /\ e.history = job.parent
  /\ l.evidence = job.sha
  /\ l.history = job.parent
ReadInputs ==
  /\ job.step = "hashed"
  /\ job' = IF Bound(evidence, ledger)
            THEN [step |-> "read", evidence |-> evidence, ledger |-> ledger, exchanged |-> job.exchanged]
            ELSE Absent
  /\ UNCHANGED <<files, companion, consumer, edits>>

\* A pair is the history's cells, of the snapshot both come from, and its value
\* is their residual.
CellsMatch(e, product) == e.cells[product] = history.cells[product]
SourcesMatch(e) == snapshot = e.snapshot /\ snapshot = history.snapshot
Attested(e, product) ==
  /\ CellsMatch(e, product) /\ SourcesMatch(e)
  /\ history.cells[product].sound => e.values[product] = Residual(history.cells[product])

\* The history has a fourth quarter of its own.
Materialized(product) == history.q4[product] # NoValue
Problem(product) == ~history.cells[product].sound \/ Materialized(product)

\* An approval names a pair that has no problem and the pair's exact residual.
Approvable(e, l) ==
  \A product \in DOMAIN l.approvals :
    /\ product \in e.pairs
    /\ ~Problem(product)
    /\ l.approvals[product] = Residual(history.cells[product])

Derived(l) == [product \in DOMAIN l.approvals |-> Residual(history.cells[product])]
Generate ==
  /\ job.step = "read"
  /\ job' = IF (\A product \in job.evidence.pairs : Attested(job.evidence, product))
                 /\ Approvable(job.evidence, job.ledger)
            THEN [step |-> "generated", derived |-> Derived(job.ledger), snapshot |-> snapshot,
                  exchanged |-> job.exchanged]
            ELSE Absent
  /\ UNCHANGED <<files, companion, consumer, edits>>

-----------------------------------------------------------------------------
(* publish_reviewed_q4 and its reader *)

\* The manifest pins the files as they are when it is written.
WriteManifest ==
  /\ job.step = "generated"
  /\ job' = [step |-> "staged", derived |-> job.derived, snapshot |-> job.snapshot, exchanged |-> job.exchanged,
             history |-> history, evidence |-> evidence, ledger |-> ledger]
  /\ UNCHANGED <<files, companion, consumer, edits>>

\* Mutant: the documents are those the manifest pins, whatever they name.
PinnedOnly(c, e, l) == c.evidence = e /\ c.ledger = l
\* _verify_manifest_inputs
Linked(c, e, l) ==
  /\ e.history = c.history /\ l.history = c.history
  /\ l.evidence = c.evidence
  /\ c.snapshot = e.snapshot
Verifies(c) ==
  /\ c.history = history /\ c.evidence = evidence /\ c.ledger = ledger
  /\ Linked(c, evidence, ledger)
  /\ c.snapshot = snapshot

Publish ==
  /\ job.step = "staged"
  /\ companion' = IF Verifies(job) THEN job ELSE companion
  /\ job' = Absent
  /\ UNCHANGED <<files, consumer, edits>>

-----------------------------------------------------------------------------
(* prepare_analysis over the history, with the companion *)

OpenConsumer ==
  /\ consumer = Absent /\ companion # Absent
  /\ Verifies(companion)
  /\ consumer' = [step |-> "open", history |-> history]
  /\ UNCHANGED <<files, job, companion, edits>>

\* The history's cells are read under the manifest that was opened; a cell of
\* its own is never replaced.
Applied(product) ==
  IF history.q4[product] # NoValue THEN history.q4[product]
  ELSE IF product \in DOMAIN companion.derived THEN companion.derived[product]
  ELSE NoValue
Prepare ==
  /\ consumer.step = "open"
  /\ consumer' = IF history = consumer.history
                 THEN [step |-> "prepared", history |-> history,
                       q4 |-> [product \in DOMAIN history.q4 |-> Applied(product)]]
                 ELSE Absent
  /\ UNCHANGED <<files, job, companion, edits>>

Next ==
  \/ Exchange
  \/ HashInputs \/ ReadInputs \/ Generate \/ WriteManifest \/ Publish
  \/ OpenConsumer \/ Prepare

-----------------------------------------------------------------------------
Exact(product, value, h) ==
  h.cells[product].sound /\ h.q4[product] = NoValue /\ value = Residual(h.cells[product])

\* While the companion was made all three documents were exchanged, or one of
\* them more than once, so that it may have come back.
Misled == companion.exchanged \cap {"again"} # {} \/ {"history", "evidence", "ledger"} \subseteq companion.exchanged

\* What verifies is the exact residual of cells of the history it names, where
\* the history has no value, and the ledger it names approves it, unless that
\* ledger was exchanged while the companion was made.  Nothing less than the
\* exchanges of Misled gets other values through.
CompanionIsExact ==
  companion # Absent /\ Verifies(companion) /\ ~Misled =>
    /\ \A product \in DOMAIN companion.derived : Exact(product, companion.derived[product], companion.history)
    /\ "ledger" \notin companion.exchanged =>
         \A product \in DOMAIN companion.derived : product \in DOMAIN companion.ledger.approvals

\* An analysis shows the history's own fourth quarters and, besides, only values
\* that with the nine months it shows make up the year it shows.
PreparedAddsUp ==
  consumer.step = "prepared" /\ ~Misled =>
    \A product \in DOMAIN consumer.q4 :
      \/ consumer.q4[product] = consumer.history.q4[product]
      \/ Exact(product, consumer.q4[product], consumer.history)

\* The companion is exact and what is prepared adds up (publish_reviewed_q4,
\* ReviewedQ4Reader.verify_all, _apply_reviewed_q4).
ReviewedIsExact == CompanionIsExact /\ PreparedAddsUp
=============================================================================
