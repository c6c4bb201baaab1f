------------------------- MODULE RecoveryTransaction -------------------------
(***************************************************************************)
(* history.recover_reported_history: an attested stage is copied into a    *)
(* new output root, the quarters are derived from the copy, and a receipt  *)
(* is linked last.  Until that link a marker in the root keeps every       *)
(* reader but the transaction's own out (_check_recovery_access); nothing  *)
(* is ever deleted, so a transaction that failed or died leaves a root     *)
(* that stays unreadable.                                                  *)
(*                                                                         *)
(* The stage and the operational roots belong to others and may be         *)
(* replaced while the transaction runs.  The parent of the output root is  *)
(* the transaction's alone: the caller must say so                         *)
(* (trusted_exclusive_parent), though several processes may be told to     *)
(* recover to one root.                                                    *)
(***************************************************************************)
EXTENDS Integers, FiniteSets, Sequences

CONSTANTS
  Procs,        \* processes that may be told to recover
  Readers,      \* processes that read the publications under the output root
  Staged        \* how many files the attested stage has

ASSUME RecoveryAssumption == Staged \in Nat \ {0}

VARIABLES
  source,       \* the files of the stage, by number, and the observations (t1), file 0
  exchanges,    \* bound: replacements of a source file still explored
  opens,        \* bound: readers still opened
  root,         \* what stands at the output root
  tx,           \* the transactions
  reader

recoveryVars == <<source, exchanges, opens, root, tx, reader>>

StageFiles == 1 .. Staged
Observations == 0
Sources == {Observations} \cup StageFiles

NoOne == "no one"
ASSUME NobodyAssumption == NoOne \notin Procs

\* controls are the transactions whose marker directory is in the root; reported
\* and panels are <<>> until published; from are the observations the panels
\* were derived with.
NoRoot == [owner |-> NoOne, controls |-> {}, copied |-> <<>>, reported |-> <<>>,
           panels |-> <<>>, from |-> "attested", partial |-> {}, receipt |-> NoOne]
NoTx == [pc |-> "idle", pins |-> [f \in {} |-> 0]]
NoRead == [pc |-> "idle", of |-> "reported", got |-> <<>>]

RecoveryInit(exchanged, opened) ==
  /\ source = [f \in Sources |-> [content |-> "attested", stamp |-> 0]]
  /\ exchanges = exchanged
  /\ opens = opened
  /\ root = NoRoot
  /\ tx = [p \in Procs |-> NoTx]
  /\ reader = [k \in Readers |-> NoRead]

-----------------------------------------------------------------------------
\* The sources

Attested(f) == source[f].content = "attested"

\* Every recorded file is still the one that was recorded: its identity, size
\* and times, not only its bytes.
PinsHold(pins) == \A f \in DOMAIN pins : source[f].stamp = pins[f]

Pinned(pins, files) ==
  [f \in DOMAIN pins \cup files |-> IF f \in DOMAIN pins THEN pins[f] ELSE source[f].stamp]

\* Someone else replaces a source file by other content, or puts it back.
Exchange(f) ==
  /\ exchanges > 0
  /\ exchanges' = exchanges - 1
  /\ \E c \in {"attested", "other"} :
       source' = [source EXCEPT ![f] = [content |-> c, stamp |-> @.stamp + 1]]
  /\ UNCHANGED <<opens, root, tx, reader>>

-----------------------------------------------------------------------------
\* The transaction

At(p, pc) == tx[p].pc = pc
Goto(p, pc) == tx' = [tx EXCEPT ![p].pc = pc]
Elsewhere == UNCHANGED <<source, exchanges, opens, reader>>

\* A check failed: the process ends with an error and leaves everything as it is.
GiveUp(p) == Goto(p, "failed") /\ UNCHANGED root

\* The stage's files are recorded before its reader opens it.
PinStage(p) ==
  /\ At(p, "start")
  /\ IF root.owner = NoOne
     THEN /\ tx' = [tx EXCEPT ![p] = [pc |-> "verify", pins |-> Pinned(@.pins, StageFiles)]]
          /\ UNCHANGED root
     ELSE GiveUp(p)
  /\ Elsewhere

\* Every staged file is decoded and hashed against the pinned manifest.
VerifyStage(p) ==
  /\ At(p, "verify")
  /\ IF (\A f \in StageFiles : Attested(f)) /\ PinsHold(tx[p].pins)
     THEN Goto(p, "observe") /\ UNCHANGED root
     ELSE GiveUp(p)
  /\ Elsewhere

\* The operational roots are recorded, read by their own readers, and compared.
VerifyObservations(p) ==
  /\ At(p, "observe")
  /\ IF Attested(Observations) /\ PinsHold(tx[p].pins)
     THEN /\ tx' = [tx EXCEPT ![p] = [pc |-> "reserve",
                                      pins |-> Pinned(@.pins, {Observations})]]
          /\ UNCHANGED root
     ELSE GiveUp(p)
  /\ Elsewhere

\* mkdir is the reservation; that it did not exist before confers nothing.
Reserves(p) == root.owner = NoOne

Reserve(p) ==
  /\ At(p, "reserve")
  /\ IF PinsHold(tx[p].pins) /\ Reserves(p)
     THEN Goto(p, "mark") /\ root' = [root EXCEPT !.owner = p]
     ELSE GiveUp(p)
  /\ Elsewhere

\* The marker, the attestation and the report, before anything a reader could open.
MarkPending(p) ==
  /\ At(p, "mark")
  /\ Goto(p, "copy")
  /\ root' = [root EXCEPT !.controls = @ \cup {p}]
  /\ Elsewhere

\* The bytes as they are while they are copied; create_file refuses a file
\* that exists.
CopyPayload(p) ==
  /\ At(p, "copy")
  /\ LET f == Len(root.copied) + 1
     IN IF f \in StageFiles /\ PinsHold(tx[p].pins)
        THEN /\ Goto(p, "copied")
             /\ root' = [root EXCEPT !.copied = Append(@, source[f].content)]
        ELSE GiveUp(p)
  /\ Elsewhere

\* The digest of what was copied, then the identities again.
CheckCopy(p) ==
  /\ At(p, "copied")
  /\ IF root.copied[Len(root.copied)] = "attested" /\ PinsHold(tx[p].pins)
     THEN /\ Goto(p, IF Len(root.copied) = Staged THEN "publish" ELSE "copy")
          /\ UNCHANGED root
     ELSE GiveUp(p)
  /\ Elsewhere

\* The copy is verified as a publication and renamed, never onto something.
PublishReported(p) ==
  /\ At(p, "publish")
  /\ IF /\ \A i \in DOMAIN root.copied : root.copied[i] = "attested"
        /\ PinsHold(tx[p].pins) /\ root.reported = <<>>
     THEN Goto(p, "derive") /\ root' = [root EXCEPT !.reported = root.copied]
     ELSE GiveUp(p)
  /\ Elsewhere

\* publish_quarter_history reads the observations at their own root.
DeriveQuarters(p) ==
  /\ At(p, "derive")
  /\ IF PinsHold(tx[p].pins)
     THEN Goto(p, "quarters") /\ root' = [root EXCEPT !.from = source[Observations].content]
     ELSE GiveUp(p)
  /\ Elsewhere

PublishQuarters(p) ==
  /\ At(p, "quarters")
  /\ IF PinsHold(tx[p].pins) /\ root.panels = <<>>
     THEN Goto(p, "seal") /\ root' = [root EXCEPT !.panels = root.reported]
     ELSE GiveUp(p)
  /\ Elsewhere

\* The consumer publication is verified and the receipt written beside its name.
WriteReceipt(p) ==
  /\ At(p, "seal")
  /\ IF PinsHold(tx[p].pins)
     THEN Goto(p, "commit") /\ root' = [root EXCEPT !.partial = @ \cup {p}]
     ELSE GiveUp(p)
  /\ Elsewhere

\* What the marker, the receipt and the two manifests must agree on.
GateHolds(receipt) == root.controls = {receipt}

\* The gate is evaluated on the unlinked receipt, then the link makes it final.
LinkReceipt(p) ==
  /\ At(p, "commit")
  /\ IF GateHolds(p) /\ root.receipt = NoOne
     THEN Goto(p, "recovered") /\ root' = [root EXCEPT !.receipt = p]
     ELSE GiveUp(p)
  /\ Elsewhere

RecoveryStep(p) ==
  \/ PinStage(p) \/ VerifyStage(p) \/ VerifyObservations(p) \/ Reserve(p) \/ MarkPending(p)
  \/ CopyPayload(p) \/ CheckCopy(p) \/ PublishReported(p)
  \/ DeriveQuarters(p) \/ PublishQuarters(p) \/ WriteReceipt(p) \/ LinkReceipt(p)

-----------------------------------------------------------------------------
\* Everybody else

\* Without a marker, a receipt or a partial receipt the root is an ordinary one.
Accessible ==
  \/ root.controls = {} /\ root.partial = {} /\ root.receipt = NoOne
  \/ root.receipt # NoOne /\ GateHolds(root.receipt)

Published(target) == IF target = "reported" THEN root.reported ELSE root.panels

Read(k, pc) == reader' = [reader EXCEPT ![k].pc = pc]
OnlyRead == UNCHANGED <<source, exchanges, opens, root, tx>>

\* A reader is opened: the access check, then, later, the manifest.
OpenPublication(k, target) ==
  /\ reader[k].pc = "idle" /\ opens > 0 /\ Accessible
  /\ reader' = [reader EXCEPT ![k] = [pc |-> "checked", of |-> target, got |-> <<>>]]
  /\ opens' = opens - 1
  /\ UNCHANGED <<source, exchanges, root, tx>>

ReadManifest(k) ==
  /\ reader[k].pc = "checked"
  /\ Read(k, IF Published(reader[k].of) = <<>> THEN "idle" ELSE "open")
  /\ OnlyRead

\* Mutant: who opened the publication may read on.
MayReadOn(k) == TRUE

\* Records are read only after another access check.
MayReadRecords(k) == Accessible

ReadRecords(k) ==
  /\ reader[k].pc = "open"
  /\ reader' = IF MayReadRecords(k)
               THEN [reader EXCEPT ![k].pc = "read", ![k].got = Published(reader[k].of)]
               ELSE [reader EXCEPT ![k].pc = "idle"]
  /\ OnlyRead

Close(k) ==
  /\ reader[k].pc = "read"
  /\ reader' = [reader EXCEPT ![k] = NoRead]
  /\ OnlyRead

ReaderStep(k) ==
  \/ \E target \in {"reported", "panels"} : OpenPublication(k, target)
  \/ ReadManifest(k) \/ ReadRecords(k) \/ Close(k)
=============================================================================
