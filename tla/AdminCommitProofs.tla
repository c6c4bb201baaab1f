-------------------------- MODULE AdminCommitProofs --------------------------
(***************************************************************************)
(* Proofs about AdminCommit for any number of runs, resumes, operators,    *)
(* edits and faults, under the two assumptions the code leaves to people:  *)
(* nobody edits a settings file while a commit is pending, and nobody runs *)
(* recover while the process that owns the intent lives.  First the        *)
(* inductive invariant, with a lemma <Part>Step for each conjunct and in   *)
(* it one step per action; then the properties it implies, the last of     *)
(* which is that the protocol implements AtomicAdmin.                      *)
(***************************************************************************)
EXTENDS AdminCommit, TLAPS

Disciplined == ~EditWhilePending /\ ~FollowAdvice

\* The first k-1 commit files hold c's replacements, the others c's old bytes.
Shape(c, k) ==
  \A i \in 1..4 : file[CommitFiles[i]] =
    IF i < k THEN new[c][CommitFiles[i]] ELSE snap[c][CommitFiles[i]]

Virgin(c) == \A f \in Files : file[f] # c

WholePhases == Committing \ {"write"}
NotYet      == {"idle", "snapshot", "produce", "assert", "open"}

\* Phases and the intent: the lock, who may recover, and what a recovery claims.
LockInv ==
  /\ CommitOwnsIntent
  /\ \A c \in Committers :
       /\ pc[c] \in WholePhases => whole
       /\ pc[c] \in NotYet \cup {"done"} => intent # c
  /\ \A o \in Operators : pc[o] \in {"idle", "undo", "validate", "restore", "clear"}
  /\ \A o \in Operators : pc[o] # "idle" =>
       /\ intent \in Committers /\ pc[intent] \in {"stopped", "crashed"}
       /\ \A q \in Operators : pc[q] # "idle" => q = o
  /\ \A p \in Procs : pc[p] \in {"validate", "restore", "clear"} =>
       whole /\ claimed[p] = intent
  /\ whole => intent # NoIntent

\* What a committer prepared, and whose bytes a file or a snapshot can hold.
OriginInv ==
  /\ \A c \in Committers, f \in Files : snap[c][f] # c
  /\ \A c \in Committers : pc[c] \in {"assert", "open"} \/ intent = c =>
       /\ \A f \in CommitSet : new[c][f] \in {snap[c][f], c}
       /\ c \in Runs => new[c][Pointer] = c /\ new[c][History] = c
       /\ c \in Resumes => new[c]["companies.csv"] = c
  /\ \A c \in Committers, f \in Files :
       file[f] = c => f \in CommitSet /\ (pc[c] = "done" \/ intent = c)
  /\ \A r \in Committers : manifest[r] = "STOPPED" => pc[r] = "stopped" /\ intent # r

\* How far the pending commit, or its rollback, has got.
ProgressInv ==
  /\ intent # NoIntent => Virgin(intent) \/ (whole /\ \E k \in 1..5 : Shape(intent, k))
  /\ \A c \in Committers :
       /\ pc[c] = "write" => Virgin(c)
       /\ pc[c] = "check" => at[c] \in 1..4
            /\ IF at[c] = 1 THEN Virgin(c) ELSE Shape(c, at[c])
       /\ pc[c] = "replace" => at[c] \in 1..4 /\ Shape(c, at[c])
       /\ pc[c] \in {"record", "unlink"} => Shape(c, 5)
  /\ \A p \in Procs :
       /\ pc[p] = "restore" => at[p] \in 1..4 /\ \E k \in 1..(at[p] + 1) : Shape(intent, k)
       /\ pc[p] = "clear" => Shape(intent, 1)

\* A rollback, or a file left as it was, never revives unpublished bytes.
BackupsPublished ==
  Recoverable => \A f \in CommitSet, d \in Committers :
                   snap[intent][f] = d => pc[d] = "done"

IInv == TypeOK /\ LockInv /\ OriginInv /\ ProgressInv /\ BackupsPublished
-----------------------------------------------------------------------------
\* The two tuples of file names, as the steps below use them.
LEMMA FileFacts ==
  /\ CommitSet \subseteq Files
  /\ \A i \in 1..4 : CommitFiles[i] \in CommitSet
  /\ \A f \in CommitSet : \E i \in 1..4 : f = CommitFiles[i]
  /\ \A i, j \in 1..4 : CommitFiles[i] = CommitFiles[j] => i = j
  /\ \A i \in 1..6 : SnapshotFiles[i] \in Files
  /\ Pointer = CommitFiles[4] /\ History = CommitFiles[3]
  /\ "companies.csv" = CommitFiles[1] /\ "target_status.json" = CommitFiles[2]
<1>1. \A i \in 1..4 : i = 1 \/ i = 2 \/ i = 3 \/ i = 4
  OBVIOUS
<1>2. \A i \in 1..6 : i = 1 \/ i = 2 \/ i = 3 \/ i = 4 \/ i = 5 \/ i = 6
  OBVIOUS
<1>3. 1 \in 1..4 /\ 2 \in 1..4 /\ 3 \in 1..4 /\ 4 \in 1..4
  OBVIOUS
<1>4. 1 \in 1..6 /\ 2 \in 1..6 /\ 3 \in 1..6 /\ 4 \in 1..6 /\ 5 \in 1..6 /\ 6 \in 1..6
  OBVIOUS
<1>5. CommitSet = {CommitFiles[1], CommitFiles[2], CommitFiles[3], CommitFiles[4]}
  BY <1>1, <1>3 DEF CommitSet
<1>6. Files = {SnapshotFiles[1], SnapshotFiles[2], SnapshotFiles[3], SnapshotFiles[4],
               SnapshotFiles[5], SnapshotFiles[6]}
  BY <1>2, <1>4 DEF Files
<1>7. QED
  BY <1>1, <1>2, <1>5, <1>6 DEF CommitFiles, SnapshotFiles, Pointer, History

\* The names of the actions' steps, for the case splits below.
LEMMA NextCases ==
  ASSUME Next
  PROVE  \/ \E c \in Committers : CommitterStep(c)
         \/ \E o \in Operators : StartRecover(o)
         \/ \E p \in Procs : RecoveryStep(p)
         \/ \E p \in Procs : Crash(p)
         \/ \E f \in Files, e \in Edits : EditSetting(f, e)
BY DEF Next

LEMMA TypeInit == ASSUME Init PROVE TypeOK
<1>1. file \in [Files -> Content] /\ faults \in 0..MaxFaults
  BY AdminCommitAssumption DEF Init, Content
<1>2. snap \in [Committers -> [Files -> Content]]
  BY <1>1 DEF Init
<1>3. new \in [Committers -> [CommitSet -> Content]]
  BY <1>1, FileFacts DEF Init
<1>4. /\ pc \in [Procs -> Phases] /\ at \in [Procs -> 1..6]
      /\ claimed \in [Procs -> Committers \cup {NoIntent}]
      /\ intent \in Committers \cup {NoIntent}
  BY DEF Init, Phases
<1>7. whole \in BOOLEAN
  BY DEF Init
<1>5. manifest \in [Committers -> {"NONE", "PUBLISHED", "STOPPED",
                                   "COMMIT_FINALIZATION_REQUIRED"}]
  BY DEF Init
<1>6. QED
  BY <1>1, <1>2, <1>3, <1>4, <1>5, <1>7 DEF TypeOK

\* Where the control moves leave the phases and the file indices.
LEMMA GoToType ==
  ASSUME TypeOK, NEW p \in Procs, NEW phase \in Phases, GoTo(p, phase)
  PROVE  /\ pc' \in [Procs -> Phases] /\ at' \in [Procs -> 1..6]
         /\ pc'[p] = phase /\ \A q \in Procs : q # p => pc'[q] = pc[q]
         /\ at' = at
BY DEF TypeOK, GoTo

LEMMA GoToFileType ==
  ASSUME TypeOK, NEW p \in Procs, NEW phase \in Phases, NEW i \in 1..6,
         GoToFile(p, phase, i)
  PROVE  /\ pc' \in [Procs -> Phases] /\ at' \in [Procs -> 1..6]
         /\ pc'[p] = phase /\ \A q \in Procs : q # p => pc'[q] = pc[q]
         /\ at'[p] = i /\ \A q \in Procs : q # p => at'[q] = at[q]
BY DEF TypeOK, GoToFile

LEMMA LeaveType ==
  ASSUME TypeOK, NEW p \in Procs, LeaveRecovery(p)
  PROVE  /\ pc' \in [Procs -> Phases] /\ at' \in [Procs -> 1..6]
         /\ pc'[p] = (IF p \in Operators THEN "idle" ELSE "stopping")
         /\ \A q \in Procs : q # p => pc'[q] = pc[q]
         /\ at' = at
BY GoToType DEF LeaveRecovery, Phases

\* One control step of process p from phase `from` into one of the phases `into`.
Moves(p, from, into) ==
  /\ pc[p] = from /\ pc'[p] \in into
  /\ pc' \in [Procs -> Phases] /\ at' \in [Procs -> 1..6]
  /\ \A q \in Procs : q # p => pc'[q] = pc[q] /\ at'[q] = at[q]

LEMMA CommitterMoves ==
  ASSUME TypeOK, ProgressInv, NEW c \in Committers
  PROVE  /\ Begin(c) => Moves(c, "idle", {"snapshot", "stopped"})
         /\ ReadSetting(c) => Moves(c, "snapshot", {"snapshot", "produce"})
         /\ Prepare(c) => Moves(c, "produce", {"assert"})
         /\ PrepareResume(c) => Moves(c, "produce", {"assert"})
         /\ PrepareFails(c) => Moves(c, "produce", {"stopping"})
         /\ AssertUnchanged(c) => Moves(c, "assert", {"stopping", "assert", "open"})
         /\ OpenIntent(c) => Moves(c, "open", {"write", "stopping"})
         /\ WriteIntent(c) => Moves(c, "write", {"check"}) /\ at'[c] = 1
         /\ WriteIntentFails(c) => Moves(c, "write", {"stopping"})
         /\ CheckPending(c) => Moves(c, "check", {"replace", "undo"}) /\ at' = at
         /\ ReplaceFile(c) => Moves(c, "replace", {"check", "record"})
         /\ ReplaceFails(c) => Moves(c, "replace", {"undo"})
         /\ RecordSuccess(c) => Moves(c, "record", {"unlink"})
         /\ RecordFails(c) => Moves(c, "record", {"stopping"})
         /\ Finish(c) => Moves(c, "unlink", {"stopping", "done"})
         /\ Stop(c) => Moves(c, "stopping", {"stopped"})
<1> c \in Procs BY DEF Procs
<1> USE DEF Moves, Phases
<1>1. Begin(c) => Moves(c, "idle", {"snapshot", "stopped"})
  BY GoToType, GoToFileType DEF Begin
<1>2. ReadSetting(c) => Moves(c, "snapshot", {"snapshot", "produce"})
  <2>1. at[c] \in 1..6 BY DEF TypeOK
  <2>2. at[c] < 6 => at[c] + 1 \in 1..6 BY <2>1
  <2>3. QED BY <2>2, GoToFileType DEF ReadSetting
<1>3. Prepare(c) => Moves(c, "produce", {"assert"})
  BY GoToFileType DEF Prepare
<1>4. PrepareResume(c) => Moves(c, "produce", {"assert"})
  BY GoToFileType DEF PrepareResume
<1>5. PrepareFails(c) => Moves(c, "produce", {"stopping"})
  BY GoToType DEF PrepareFails
<1>6. AssertUnchanged(c) => Moves(c, "assert", {"stopping", "assert", "open"})
  <2>1. at[c] \in 1..6 BY DEF TypeOK
  <2>2. at[c] < 6 => at[c] + 1 \in 1..6 BY <2>1
  <2>3. QED BY <2>2, GoToFileType, GoToType DEF AssertUnchanged
<1>7. OpenIntent(c) => Moves(c, "open", {"write", "stopping"})
  BY GoToType DEF OpenIntent
<1>8. WriteIntent(c) => Moves(c, "write", {"check"}) /\ at'[c] = 1
  BY GoToFileType DEF WriteIntent
<1>9. WriteIntentFails(c) => Moves(c, "write", {"stopping"})
  BY GoToType DEF WriteIntentFails
<1>10. CheckPending(c) => Moves(c, "check", {"replace", "undo"}) /\ at' = at
  BY GoToType DEF CheckPending
<1>11. ReplaceFile(c) => Moves(c, "replace", {"check", "record"})
  <2>1. at[c] \in 1..6 BY DEF TypeOK
  <2>2. at[c] < 4 => at[c] + 1 \in 1..6 BY <2>1
  <2>3. QED BY <2>2, GoToFileType, GoToType DEF ReplaceFile
<1>12. ReplaceFails(c) => Moves(c, "replace", {"undo"})
  BY GoToType DEF ReplaceFails
<1>13. RecordSuccess(c) => Moves(c, "record", {"unlink"})
  BY GoToType DEF RecordSuccess
<1>14. RecordFails(c) => Moves(c, "record", {"stopping"})
  BY GoToType DEF RecordFails
<1>15. Finish(c) => Moves(c, "unlink", {"stopping", "done"})
  BY GoToType DEF Finish
<1>16. Stop(c) => Moves(c, "stopping", {"stopped"})
  BY GoToType DEF Stop
<1>17. QED
  BY <1>1, <1>2, <1>3, <1>4, <1>5, <1>6, <1>7, <1>8, <1>9, <1>10, <1>11, <1>12,
     <1>13, <1>14, <1>15, <1>16

\* Who is who among the processes.
LEMMA ProcFacts ==
  /\ Procs = Committers \cup Operators
  /\ \A c \in Committers : c \notin Operators /\ c # NoIntent /\ c \notin Edits
                            /\ c # Initial /\ c # Absent
  /\ MaxFaults \in Nat
  /\ \A c \in Committers : c \in Runs \/ c \in Resumes
BY AdminCommitAssumption DEF Procs, Committers

LEMMA RecoveryMoves ==
  ASSUME TypeOK, ProgressInv, NEW p \in Procs
  PROVE  LET out == IF p \in Operators THEN "idle" ELSE "stopping"
         IN  /\ ReadIntent(p) => Moves(p, "undo", {"validate", out})
             /\ Validate(p) => Moves(p, "validate", {"restore", out})
             /\ RestoreFile(p) => Moves(p, "restore", {"restore", "clear"})
             /\ RestoreFails(p) => Moves(p, "restore", {out})
             /\ ClearIntent(p) => Moves(p, "clear", {out})
<1> DEFINE out == IF p \in Operators THEN "idle" ELSE "stopping"
<1> USE DEF Moves, Phases
<1>1. ReadIntent(p) => Moves(p, "undo", {"validate", out})
  BY GoToType, LeaveType DEF ReadIntent
<1>2. Validate(p) => Moves(p, "validate", {"restore", out})
  BY GoToFileType, LeaveType DEF Validate
<1>3. RestoreFile(p) => Moves(p, "restore", {"restore", "clear"})
  <2>1. at[p] \in 1..6 BY DEF TypeOK
  <2>2. at[p] > 1 => at[p] - 1 \in 1..6 BY <2>1
  <2>3. QED BY <2>2, GoToFileType, GoToType DEF RestoreFile
<1>4. RestoreFails(p) => Moves(p, "restore", {out})
  BY LeaveType DEF RestoreFails
<1>5. ClearIntent(p) => Moves(p, "clear", {out})
  BY LeaveType DEF ClearIntent
<1>6. QED
  BY <1>1, <1>2, <1>3, <1>4, <1>5

LEMMA OtherMoves ==
  ASSUME TypeOK
  PROVE  /\ \A o \in Operators : StartRecover(o) => Moves(o, "idle", {"undo"})
         /\ \A p \in Procs : Crash(p) =>
              /\ pc[p] \notin Gone \cup {"idle"}
              /\ Moves(p, pc[p], {IF p \in Operators THEN "idle" ELSE "crashed"})
BY GoToType DEF Moves, Phases, Procs, StartRecover, Crash

\* A directory between the old bytes and the replacements is one recover accepts.
LEMMA ShapeRecoverable ==
  ASSUME intent \in Committers, whole, NEW k \in 1..5, Shape(intent, k)
  PROVE  Recoverable
<1>1. \A i \in 1..4 : file[CommitFiles[i]] \in
        {snap[intent][CommitFiles[i]], new[intent][CommitFiles[i]]}
  BY DEF Shape
<1>2. QED
  BY <1>1, FileFacts, ProcFacts DEF Recoverable

\* Every step keeps TypeOK: one case per action.
LEMMA TypeStep ==
  ASSUME TypeOK, LockInv, ProgressInv, [Next]_vars PROVE TypeOK'
<1> USE ProcFacts
<1>1. ASSUME NEW c \in Committers, CommitterStep(c) PROVE TypeOK'
  <2>1. CASE Begin(c)
    <3>1. Moves(c, "idle", {"snapshot", "stopped"})
      BY <2>1, CommitterMoves
    <3>2. QED BY <2>1, <3>1 DEF Begin, Moves, TypeOK, Fault
  <2>2. CASE ReadSetting(c)
    <3>1. SnapshotFiles[at[c]] \in Files BY FileFacts DEF TypeOK
    <3>2. snap' \in [Committers -> [Files -> Content]]
      BY <2>2, <3>1 DEF TypeOK, ReadSetting
    <3>3. QED BY <2>2, <3>2, CommitterMoves DEF TypeOK, Moves, ReadSetting
  <2>3. CASE Prepare(c)
    <3>1. new' \in [Committers -> [CommitSet -> Content]]
      BY <2>3, FileFacts DEF TypeOK, Prepare, Content
    <3>2. QED BY <2>3, <3>1, CommitterMoves DEF TypeOK, Moves, Prepare
  <2>4. CASE PrepareResume(c)
    <3>1. new' \in [Committers -> [CommitSet -> Content]]
      BY <2>4, FileFacts DEF TypeOK, PrepareResume, Content
    <3>2. QED BY <2>4, <3>1, CommitterMoves DEF TypeOK, Moves, PrepareResume
  <2>5. CASE PrepareFails(c)
    <3>1. Moves(c, "produce", {"stopping"})
      BY <2>5, CommitterMoves
    <3>2. QED BY <2>5, <3>1 DEF PrepareFails, Moves, TypeOK, Fault
  <2>6. CASE AssertUnchanged(c)
    <3>1. Moves(c, "assert", {"stopping", "assert", "open"})
      BY <2>6, CommitterMoves
    <3>2. QED BY <2>6, <3>1 DEF AssertUnchanged, Moves, TypeOK, Fault
  <2>7. CASE OpenIntent(c)
    <3>1. Moves(c, "open", {"write", "stopping"})
      BY <2>7, CommitterMoves
    <3>2. QED BY <2>7, <3>1 DEF OpenIntent, Moves, TypeOK, Fault
  <2>8. CASE WriteIntent(c)
    <3>1. Moves(c, "write", {"check"}) /\ at'[c] = 1
      BY <2>8, CommitterMoves
    <3>2. QED BY <2>8, <3>1 DEF WriteIntent, Moves, TypeOK, Fault
  <2>9. CASE WriteIntentFails(c)
    <3>1. Moves(c, "write", {"stopping"})
      BY <2>9, CommitterMoves
    <3>2. QED BY <2>9, <3>1 DEF WriteIntentFails, Moves, TypeOK, Fault
  <2>10. CASE CheckPending(c)
    <3>1. Moves(c, "check", {"replace", "undo"}) /\ at' = at
      BY <2>10, CommitterMoves
    <3>2. QED BY <2>10, <3>1 DEF CheckPending, Moves, TypeOK, Fault
  <2>11. CASE ReplaceFile(c)
    <3>1. CommitFiles[at[c]] \in CommitSet
      BY <2>11, FileFacts DEF ReplaceFile, ProgressInv
    <3>2. file' \in [Files -> Content]
      BY <2>11, <3>1, FileFacts DEF TypeOK, ReplaceFile
    <3>3. QED BY <2>11, <3>2, CommitterMoves DEF TypeOK, Moves, ReplaceFile
  <2>12. CASE ReplaceFails(c)
    <3>1. Moves(c, "replace", {"undo"})
      BY <2>12, CommitterMoves
    <3>2. QED BY <2>12, <3>1 DEF ReplaceFails, Moves, TypeOK, Fault
  <2>13. CASE RecordSuccess(c)
    <3>1. Moves(c, "record", {"unlink"})
      BY <2>13, CommitterMoves
    <3>2. QED BY <2>13, <3>1 DEF RecordSuccess, Moves, TypeOK, Fault
  <2>14. CASE RecordFails(c)
    <3>1. Moves(c, "record", {"stopping"})
      BY <2>14, CommitterMoves
    <3>2. QED BY <2>14, <3>1 DEF RecordFails, Moves, TypeOK, Fault
  <2>15. CASE Finish(c)
    <3>1. Moves(c, "unlink", {"stopping", "done"})
      BY <2>15, CommitterMoves
    <3>2. QED BY <2>15, <3>1 DEF Finish, Moves, TypeOK, Fault
  <2>16. CASE Stop(c)
    <3>1. Moves(c, "stopping", {"stopped"})
      BY <2>16, CommitterMoves
    <3>2. QED BY <2>16, <3>1 DEF Stop, Moves, TypeOK, Fault
  <2>17. QED
    BY <1>1, <2>1, <2>2, <2>3, <2>4, <2>5, <2>6, <2>7, <2>8, <2>9, <2>10, <2>11, <2>12, <2>13, <2>14, <2>15, <2>16 DEF CommitterStep
<1>2. ASSUME NEW p \in Procs, RecoveryStep(p) PROVE TypeOK'
  <2>1. CASE ReadIntent(p)
    <3>1. Moves(p, "undo", {"validate", IF p \in Operators THEN "idle" ELSE "stopping"})
      BY <2>1, RecoveryMoves
    <3>2. QED BY <2>1, <3>1 DEF ReadIntent, Moves, TypeOK, Fault
  <2>2. CASE Validate(p)
    <3>1. Moves(p, "validate", {"restore", IF p \in Operators THEN "idle" ELSE "stopping"})
      BY <2>2, RecoveryMoves
    <3>2. QED BY <2>2, <3>1 DEF Validate, Moves, TypeOK, Fault
  <2>3. CASE RestoreFile(p)
    <3>1. CommitFiles[at[p]] \in CommitSet /\ claimed[p] \in Committers
      BY <2>3, FileFacts DEF RestoreFile, ProgressInv, LockInv, TypeOK
    <3>2. file' \in [Files -> Content]
      BY <2>3, <3>1, FileFacts DEF TypeOK, RestoreFile
    <3>3. QED BY <2>3, <3>2, RecoveryMoves DEF TypeOK, Moves, RestoreFile
  <2>4. CASE RestoreFails(p)
    <3>1. Moves(p, "restore", {IF p \in Operators THEN "idle" ELSE "stopping"})
      BY <2>4, RecoveryMoves
    <3>2. QED BY <2>4, <3>1 DEF RestoreFails, Moves, TypeOK, Fault
  <2>5. CASE ClearIntent(p)
    <3>1. Moves(p, "clear", {IF p \in Operators THEN "idle" ELSE "stopping"})
      BY <2>5, RecoveryMoves
    <3>2. QED BY <2>5, <3>1 DEF ClearIntent, Moves, TypeOK, Fault
  <2>6. QED
    BY <1>2, <2>1, <2>2, <2>3, <2>4, <2>5 DEF RecoveryStep
<1>3. ASSUME NEW o \in Operators, StartRecover(o) PROVE TypeOK'
  BY <1>3, OtherMoves DEF StartRecover, Moves, TypeOK, Fault
<1>4. ASSUME NEW p \in Procs, Crash(p) PROVE TypeOK'
  BY <1>4, OtherMoves DEF Crash, Moves, TypeOK, Fault
<1>5. ASSUME NEW f \in Files, NEW e \in Edits, EditSetting(f, e) PROVE TypeOK'
  <2>1. file' \in [Files -> Content]
    BY <1>5 DEF TypeOK, EditSetting, Content
  <2>2. QED BY <1>5, <2>1 DEF TypeOK, EditSetting
<1>6. CASE UNCHANGED vars
  BY <1>6 DEF vars, Moves, TypeOK, Fault
<1>7. QED
  BY <1>1, <1>2, <1>3, <1>4, <1>5, <1>6, NextCases

\* Every step keeps LockInv: one case per action.
LEMMA LockStep ==
  ASSUME Disciplined, TypeOK, LockInv, ProgressInv, [Next]_vars PROVE LockInv'
<1> USE ProcFacts
<1>1. ASSUME NEW c \in Committers, CommitterStep(c) PROVE LockInv'
  <2>1. CASE Begin(c)
    <3>1. Moves(c, "idle", {"snapshot", "stopped"})
      BY <2>1, CommitterMoves
    <3>2. QED BY <2>1, <3>1 DEF Begin, Moves, TypeOK, LockInv, CommitOwnsIntent, Committing, WholePhases, NotYet
  <2>2. CASE ReadSetting(c)
    <3>1. Moves(c, "snapshot", {"snapshot", "produce"})
      BY <2>2, CommitterMoves
    <3>2. QED BY <2>2, <3>1, ZenonT(60) DEF ReadSetting, Moves, TypeOK, LockInv, CommitOwnsIntent, Committing, WholePhases, NotYet
  <2>3. CASE Prepare(c)
    <3>1. Moves(c, "produce", {"assert"})
      BY <2>3, CommitterMoves
    <3>2. QED BY <2>3, <3>1, ZenonT(60) DEF Prepare, Moves, TypeOK, LockInv, CommitOwnsIntent, Committing, WholePhases, NotYet
  <2>4. CASE PrepareResume(c)
    <3>1. Moves(c, "produce", {"assert"})
      BY <2>4, CommitterMoves
    <3>2. QED BY <2>4, <3>1, ZenonT(60) DEF PrepareResume, Moves, TypeOK, LockInv, CommitOwnsIntent, Committing, WholePhases, NotYet
  <2>5. CASE PrepareFails(c)
    <3>1. Moves(c, "produce", {"stopping"})
      BY <2>5, CommitterMoves
    <3>2. QED BY <2>5, <3>1 DEF PrepareFails, Moves, TypeOK, LockInv, CommitOwnsIntent, Committing, WholePhases, NotYet
  <2>6. CASE AssertUnchanged(c)
    <3>1. Moves(c, "assert", {"stopping", "assert", "open"})
      BY <2>6, CommitterMoves
    <3>2. QED BY <2>6, <3>1 DEF AssertUnchanged, Moves, TypeOK, LockInv, CommitOwnsIntent, Committing, WholePhases, NotYet
  <2>7. CASE OpenIntent(c)
    <3>1. Moves(c, "open", {"write", "stopping"})
      BY <2>7, CommitterMoves
    <3>2. CASE intent = NoIntent
      <4>1. intent' = c /\ ~whole' /\ pc'[c] = "write"
        BY <2>7, <3>1, <3>2 DEF OpenIntent, GoTo, Moves, TypeOK
      <4>2. ~whole /\ UNCHANGED claimed
        BY <2>7, <3>2 DEF OpenIntent, LockInv
      <4>3. QED
        BY <3>1, <3>2, <4>1, <4>2 DEF Moves, TypeOK, LockInv, CommitOwnsIntent,
           Committing, WholePhases, NotYet
    <3>3. CASE intent # NoIntent
      <4>1. UNCHANGED <<intent, whole, claimed>> /\ pc'[c] = "stopping"
        BY <2>7, <3>1, <3>3 DEF OpenIntent, GoTo, Moves, TypeOK
      <4>2. QED
        BY <3>1, <4>1 DEF Moves, TypeOK, LockInv, CommitOwnsIntent,
           Committing, WholePhases, NotYet
    <3>4. QED BY <3>2, <3>3
  <2>8. CASE WriteIntent(c)
    <3>1. Moves(c, "write", {"check"}) /\ at'[c] = 1
      BY <2>8, CommitterMoves
    <3>2. QED BY <2>8, <3>1 DEF WriteIntent, Moves, TypeOK, LockInv, CommitOwnsIntent, Committing, WholePhases, NotYet
  <2>9. CASE WriteIntentFails(c)
    <3>1. Moves(c, "write", {"stopping"})
      BY <2>9, CommitterMoves
    <3>2. QED BY <2>9, <3>1 DEF WriteIntentFails, Moves, TypeOK, LockInv, CommitOwnsIntent, Committing, WholePhases, NotYet
  <2>10. CASE CheckPending(c)
    <3>1. Moves(c, "check", {"replace", "undo"}) /\ at' = at
      BY <2>10, CommitterMoves
    <3>2. QED BY <2>10, <3>1 DEF CheckPending, Moves, TypeOK, LockInv, CommitOwnsIntent, Committing, WholePhases, NotYet
  <2>11. CASE ReplaceFile(c)
    <3>1. Moves(c, "replace", {"check", "record"})
      BY <2>11, CommitterMoves
    <3>2. QED BY <2>11, <3>1 DEF ReplaceFile, Moves, TypeOK, LockInv, CommitOwnsIntent, Committing, WholePhases, NotYet
  <2>12. CASE ReplaceFails(c)
    <3>1. Moves(c, "replace", {"undo"})
      BY <2>12, CommitterMoves
    <3>2. QED BY <2>12, <3>1 DEF ReplaceFails, Moves, TypeOK, LockInv, CommitOwnsIntent, Committing, WholePhases, NotYet
  <2>13. CASE RecordSuccess(c)
    <3>1. Moves(c, "record", {"unlink"})
      BY <2>13, CommitterMoves
    <3>2. QED BY <2>13, <3>1 DEF RecordSuccess, Moves, TypeOK, LockInv, CommitOwnsIntent, Committing, WholePhases, NotYet
  <2>14. CASE RecordFails(c)
    <3>1. Moves(c, "record", {"stopping"})
      BY <2>14, CommitterMoves
    <3>2. QED BY <2>14, <3>1 DEF RecordFails, Moves, TypeOK, LockInv, CommitOwnsIntent, Committing, WholePhases, NotYet
  <2>15. CASE Finish(c)
    <3>1. Moves(c, "unlink", {"stopping", "done"})
      BY <2>15, CommitterMoves
    <3>2. intent' = NoIntent /\ ~whole' /\ UNCHANGED claimed /\ intent = c
      BY <2>15, <3>1 DEF Finish, Moves, LockInv, CommitOwnsIntent, Committing
    <3>3. \A d \in Committers : pc[d] \in Committing => d = c
      BY <3>2 DEF LockInv, CommitOwnsIntent
    <3>4. \A o \in Operators : pc[o] = "idle"
      BY <3>1, <3>2 DEF Moves, LockInv
    <3>5. pc'[c] \in {"stopping", "done"} /\ \A q \in Procs : q # c => pc'[q] = pc[q]
      BY <3>1 DEF Moves
    <3>6. QED
      BY <3>2, <3>3, <3>4, <3>5 DEF LockInv, CommitOwnsIntent, Committing, WholePhases, NotYet
  <2>16. CASE Stop(c)
    <3>1. Moves(c, "stopping", {"stopped"})
      BY <2>16, CommitterMoves
    <3>2. QED BY <2>16, <3>1 DEF Stop, Moves, TypeOK, LockInv, CommitOwnsIntent, Committing, WholePhases, NotYet
  <2>17. QED
    BY <1>1, <2>1, <2>2, <2>3, <2>4, <2>5, <2>6, <2>7, <2>8, <2>9, <2>10, <2>11, <2>12, <2>13, <2>14, <2>15, <2>16 DEF CommitterStep
<1>2. ASSUME NEW p \in Procs, RecoveryStep(p) PROVE LockInv'
  <2>1. CASE ReadIntent(p)
    <3>1. Moves(p, "undo", {"validate", IF p \in Operators THEN "idle" ELSE "stopping"})
      BY <2>1, RecoveryMoves
    <3>2. UNCHANGED <<intent, whole>>
      BY <2>1 DEF ReadIntent
    <3>3. \/ whole /\ claimed' = [claimed EXCEPT ![p] = intent]
          \/ claimed' = claimed /\ pc'[p] = IF p \in Operators THEN "idle" ELSE "stopping"
      BY <2>1, LeaveType DEF ReadIntent
    <3>4. pc'[p] = "validate" => whole /\ claimed'[p] = intent
      BY <3>3 DEF TypeOK
    <3>5. \A q \in Procs : q # p => claimed'[q] = claimed[q]
      BY <3>3 DEF TypeOK
    <3>6. /\ pc[p] = "undo"
          /\ pc'[p] \in {"validate", IF p \in Operators THEN "idle" ELSE "stopping"}
          /\ \A q \in Procs : q # p => pc'[q] = pc[q]
      BY <3>1 DEF Moves
    <3>7. \A q \in Procs : pc'[q] \in {"validate", "restore", "clear"} =>
            whole' /\ claimed'[q] = intent'
      BY <3>2, <3>4, <3>5, <3>6 DEF LockInv
    <3>8. \A o \in Operators : pc'[o] # "idle" => pc[o] # "idle"
      BY <3>6
    <3>9. QED
      BY <3>2, <3>6, <3>7, <3>8 DEF LockInv, CommitOwnsIntent, Committing, WholePhases, NotYet
  <2>2. CASE Validate(p)
    <3>1. Moves(p, "validate", {"restore", IF p \in Operators THEN "idle" ELSE "stopping"})
      BY <2>2, RecoveryMoves
    <3>2. QED BY <2>2, <3>1 DEF Validate, Moves, TypeOK, LockInv, CommitOwnsIntent, Committing, WholePhases, NotYet
  <2>3. CASE RestoreFile(p)
    <3>1. Moves(p, "restore", {"restore", "clear"})
      BY <2>3, RecoveryMoves
    <3>2. QED BY <2>3, <3>1, ZenonT(60) DEF RestoreFile, Moves, TypeOK, LockInv, CommitOwnsIntent, Committing, WholePhases, NotYet
  <2>4. CASE RestoreFails(p)
    <3>1. Moves(p, "restore", {IF p \in Operators THEN "idle" ELSE "stopping"})
      BY <2>4, RecoveryMoves
    <3>2. QED BY <2>4, <3>1 DEF RestoreFails, Moves, TypeOK, LockInv, CommitOwnsIntent, Committing, WholePhases, NotYet
  <2>5. CASE ClearIntent(p)
    <3>1. Moves(p, "clear", {IF p \in Operators THEN "idle" ELSE "stopping"})
      BY <2>5, RecoveryMoves
    <3>2. intent' = NoIntent /\ ~whole' /\ UNCHANGED claimed
      BY <2>5 DEF ClearIntent
    <3>3. \A c \in Committers : pc[c] \in Committing => c = p
      BY <3>1 DEF Moves, LockInv, CommitOwnsIntent, Committing
    <3>4. \A o \in Operators : pc[o] # "idle" => o = p
      BY <3>1 DEF Moves, LockInv, CommitOwnsIntent, Committing
    <3>5. QED
      BY <3>1, <3>2, <3>3, <3>4, SMTT(30) DEF Moves, TypeOK, LockInv, CommitOwnsIntent,
         Committing, WholePhases, NotYet
  <2>6. QED
    BY <1>2, <2>1, <2>2, <2>3, <2>4, <2>5 DEF RecoveryStep
<1>3. ASSUME NEW o \in Operators, StartRecover(o) PROVE LockInv'
  <2>1. Moves(o, "idle", {"undo"})
    BY <1>3, OtherMoves
  <2>2. intent \in Committers /\ pc[intent] \in Gone /\ \A q \in Operators : pc[q] = "idle"
    BY <1>3, Zenon DEF StartRecover, MayRecover, Disciplined
  <2>3. UNCHANGED <<intent, whole, claimed>>
    BY <1>3 DEF StartRecover
  <2>4. QED
    BY <2>1, <2>2, <2>3 DEF Gone, Moves, TypeOK, LockInv, CommitOwnsIntent,
       Committing, WholePhases, NotYet
<1>4. ASSUME NEW p \in Procs, Crash(p) PROVE LockInv'
  <2>1. UNCHANGED <<intent, whole, claimed>>
    BY <1>4 DEF Crash
  <2>2. /\ pc[p] \notin Gone \cup {"idle"}
        /\ Moves(p, pc[p], {IF p \in Operators THEN "idle" ELSE "crashed"})
    BY <1>4, OtherMoves
  <2>3. CASE p \in Operators
    BY <2>1, <2>2, <2>3, ZenonT(60) DEF Gone, Moves, TypeOK, LockInv, CommitOwnsIntent,
       Committing, WholePhases, NotYet
  <2>4. CASE p \notin Operators
    BY <2>1, <2>2, <2>4 DEF Gone, Moves, TypeOK, LockInv, CommitOwnsIntent,
       Committing, WholePhases, NotYet
  <2>5. QED BY <2>3, <2>4
<1>5. ASSUME NEW f \in Files, NEW e \in Edits, EditSetting(f, e) PROVE LockInv'
  BY <1>5 DEF EditSetting, Moves, TypeOK, LockInv, CommitOwnsIntent, Committing, WholePhases, NotYet
<1>6. CASE UNCHANGED vars
  BY <1>6 DEF vars, Moves, TypeOK, LockInv, CommitOwnsIntent, Committing, WholePhases, NotYet
<1>7. QED
  BY <1>1, <1>2, <1>3, <1>4, <1>5, <1>6, NextCases

\* Every step keeps OriginInv: one case per action.
LEMMA OriginStep ==
  ASSUME Disciplined, TypeOK, LockInv, OriginInv, ProgressInv, BackupsPublished, [Next]_vars PROVE OriginInv'
<1> USE ProcFacts
<1>1. ASSUME NEW c \in Committers, CommitterStep(c) PROVE OriginInv'
  <2>1. CASE Begin(c)
    <3>1. Moves(c, "idle", {"snapshot", "stopped"})
      BY <2>1, CommitterMoves
    <3>2. QED BY <2>1, <3>1 DEF Begin, Moves, TypeOK, OriginInv
  <2>2. CASE ReadSetting(c)
    <3>1. Moves(c, "snapshot", {"snapshot", "produce"})
      BY <2>2, CommitterMoves
    <3>2. SnapshotFiles[at[c]] \in Files BY FileFacts DEF TypeOK
    <3>3. intent # c BY <3>1 DEF Moves, LockInv, NotYet
    <3>4. file[SnapshotFiles[at[c]]] # c
      BY <3>1, <3>2, <3>3 DEF Moves, OriginInv
    <3>5. /\ UNCHANGED <<file, intent, whole, new, manifest>>
          /\ \A d \in Committers, f \in Files :
               snap'[d][f] = IF d = c /\ f = SnapshotFiles[at[c]] THEN file[f] ELSE snap[d][f]
      BY <2>2, <3>2 DEF ReadSetting, TypeOK
    <3>6. \A d \in Committers : d # c => snap'[d] = snap[d]
      BY <2>2 DEF ReadSetting, TypeOK
    <3>7. QED
      BY <3>1, <3>3, <3>4, <3>5, <3>6 DEF Moves, OriginInv
  <2>3. CASE Prepare(c)
    <3>1. Moves(c, "produce", {"assert"})
      BY <2>3, CommitterMoves
    <3>2. UNCHANGED <<file, intent, whole, snap, manifest>> /\ c \in Runs
      BY <2>3 DEF Prepare
    <3>3. \A d \in Committers : d # c => new'[d] = new[d]
      BY <2>3 DEF Prepare, TypeOK
    <3>4. /\ \A f \in CommitSet : new'[c][f] \in {snap[c][f], c}
          /\ new'[c][Pointer] = c /\ new'[c][History] = c
      BY <2>3, FileFacts DEF Prepare, TypeOK, Pointer, History
    <3>5. c \notin Resumes
      BY <3>2, AdminCommitAssumption
    <3>6. QED
      BY <3>1, <3>2, <3>3, <3>4, <3>5 DEF Moves, OriginInv
  <2>4. CASE PrepareResume(c)
    <3>1. Moves(c, "produce", {"assert"})
      BY <2>4, CommitterMoves
    <3>2. UNCHANGED <<file, intent, whole, snap, manifest>> /\ c \in Resumes
      BY <2>4 DEF PrepareResume
    <3>3. \A d \in Committers : d # c => new'[d] = new[d]
      BY <2>4 DEF PrepareResume, TypeOK
    <3>4. /\ \A f \in CommitSet : new'[c][f] \in {snap[c][f], c}
          /\ new'[c]["companies.csv"] = c
      BY <2>4, FileFacts DEF PrepareResume, TypeOK, Pointer, History
    <3>5. c \notin Runs
      BY <3>2, AdminCommitAssumption
    <3>6. QED
      BY <3>1, <3>2, <3>3, <3>4, <3>5 DEF Moves, OriginInv
  <2>5. CASE PrepareFails(c)
    <3>1. Moves(c, "produce", {"stopping"})
      BY <2>5, CommitterMoves
    <3>2. QED BY <2>5, <3>1 DEF PrepareFails, Moves, TypeOK, OriginInv
  <2>6. CASE AssertUnchanged(c)
    <3>1. Moves(c, "assert", {"stopping", "assert", "open"})
      BY <2>6, CommitterMoves
    <3>2. QED BY <2>6, <3>1 DEF AssertUnchanged, Moves, TypeOK, OriginInv
  <2>7. CASE OpenIntent(c)
    <3>1. Moves(c, "open", {"write", "stopping"})
      BY <2>7, CommitterMoves
    <3>2. UNCHANGED <<file, snap, new, manifest>>
      BY <2>7 DEF OpenIntent
    <3>3. CASE intent = NoIntent
      <4>1. intent' = c /\ intent # c BY <2>7, <3>3 DEF OpenIntent
      <4>2. \A d \in Committers, f \in Files : file[f] = d => f \in CommitSet /\ pc[d] = "done"
        BY <3>3 DEF OriginInv
      <4>3. QED BY <3>1, <3>2, <4>1, <4>2 DEF Moves, OriginInv
    <3>4. CASE intent # NoIntent
      <4>1. UNCHANGED <<intent, whole>> BY <2>7, <3>4 DEF OpenIntent
      <4>2. QED BY <3>1, <3>2, <4>1 DEF Moves, OriginInv
    <3>5. QED BY <3>3, <3>4
  <2>8. CASE WriteIntent(c)
    <3>1. Moves(c, "write", {"check"})
      BY <2>8, CommitterMoves
    <3>2. UNCHANGED <<file, intent, snap, new, manifest>> /\ whole'
      BY <2>8 DEF WriteIntent
    <3>3. QED BY <3>1, <3>2 DEF Moves, OriginInv
  <2>9. CASE WriteIntentFails(c)
    <3>1. Moves(c, "write", {"stopping"})
      BY <2>9, CommitterMoves
    <3>2. UNCHANGED <<file, intent, snap, new, manifest>>
      BY <2>9 DEF WriteIntentFails
    <3>3. QED BY <3>1, <3>2 DEF Moves, OriginInv
  <2>10. CASE CheckPending(c)
    <3>1. Moves(c, "check", {"replace", "undo"}) /\ at' = at
      BY <2>10, CommitterMoves
    <3>2. QED BY <2>10, <3>1 DEF CheckPending, Moves, TypeOK, OriginInv
  <2>11. CASE ReplaceFile(c)
    <3>1. Moves(c, "replace", {"check", "record"}) /\ intent = c /\ whole
      BY <2>11, CommitterMoves DEF Moves, LockInv, CommitOwnsIntent, Committing, WholePhases
    <3>2. at[c] \in 1..4 /\ CommitFiles[at[c]] \in CommitSet /\ CommitFiles[at[c]] \in Files
      BY <3>1, FileFacts DEF Moves, ProgressInv
    <3>3. file[CommitFiles[at[c]]] = snap[c][CommitFiles[at[c]]]
      BY <3>1, <3>2 DEF Moves, ProgressInv, Shape
    <3>4. new[c][CommitFiles[at[c]]] \in {snap[c][CommitFiles[at[c]]], c}
      BY <3>1, <3>2 DEF OriginInv
    <3>5. \A f \in Files : file'[f] \in {file[f], c} /\ (file'[f] # file[f] => f \in CommitSet)
      BY <2>11, <3>2, <3>3, <3>4 DEF ReplaceFile, TypeOK
    <3>6. UNCHANGED <<intent, whole, snap, new, manifest>>
      BY <2>11 DEF ReplaceFile
    <3>7. QED BY <3>1, <3>5, <3>6 DEF Moves, OriginInv
  <2>12. CASE ReplaceFails(c)
    <3>1. Moves(c, "replace", {"undo"})
      BY <2>12, CommitterMoves
    <3>2. QED BY <2>12, <3>1 DEF ReplaceFails, Moves, TypeOK, OriginInv
  <2>13. CASE RecordSuccess(c)
    <3>1. Moves(c, "record", {"unlink"})
      BY <2>13, CommitterMoves
    <3>2. UNCHANGED <<file, intent, whole, snap, new>>
      BY <2>13 DEF RecordSuccess
    <3>3. \A d \in Committers : manifest'[d] = IF d = c THEN "PUBLISHED" ELSE manifest[d]
      BY <2>13 DEF RecordSuccess, TypeOK
    <3>4. QED BY <3>1, <3>2, <3>3 DEF Moves, OriginInv
  <2>14. CASE RecordFails(c)
    <3>1. Moves(c, "record", {"stopping"})
      BY <2>14, CommitterMoves
    <3>2. QED BY <2>14, <3>1 DEF RecordFails, Moves, TypeOK, OriginInv
  <2>15. CASE Finish(c)
    <3>1. Moves(c, "unlink", {"stopping", "done"}) /\ intent = c
      BY <2>15, CommitterMoves DEF Moves, LockInv, CommitOwnsIntent, Committing
    <3>2. intent' = NoIntent /\ UNCHANGED <<file, snap, new, manifest>> /\ pc'[c] = "done"
      BY <2>15, <3>1 DEF Finish, GoTo, TypeOK
    <3>3. QED BY <3>1, <3>2 DEF Moves, OriginInv
  <2>16. CASE Stop(c)
    <3>1. Moves(c, "stopping", {"stopped"})
      BY <2>16, CommitterMoves
    <3>2. QED BY <2>16, <3>1 DEF Stop, Moves, TypeOK, OriginInv
  <2>17. QED
    BY <1>1, <2>1, <2>2, <2>3, <2>4, <2>5, <2>6, <2>7, <2>8, <2>9, <2>10, <2>11, <2>12, <2>13, <2>14, <2>15, <2>16 DEF CommitterStep
<1>2. ASSUME NEW p \in Procs, RecoveryStep(p) PROVE OriginInv'
  <2>1. CASE ReadIntent(p)
    <3>1. Moves(p, "undo", {"validate", IF p \in Operators THEN "idle" ELSE "stopping"})
      BY <2>1, RecoveryMoves
    <3>2. QED BY <2>1, <3>1 DEF ReadIntent, Moves, TypeOK, OriginInv
  <2>2. CASE Validate(p)
    <3>1. Moves(p, "validate", {"restore", IF p \in Operators THEN "idle" ELSE "stopping"})
      BY <2>2, RecoveryMoves
    <3>2. QED BY <2>2, <3>1 DEF Validate, Moves, TypeOK, OriginInv
  <2>3. CASE RestoreFile(p)
    <3>1. Moves(p, "restore", {"restore", "clear"}) /\ claimed[p] = intent
      BY <2>3, RecoveryMoves DEF Moves, LockInv
    <3>2. at[p] \in 1..4 /\ CommitFiles[at[p]] \in CommitSet /\ CommitFiles[at[p]] \in Files
      BY <3>1, FileFacts DEF Moves, ProgressInv
    <3>a. intent \in Committers /\ whole
      BY <3>1 DEF Moves, LockInv, TypeOK
    <3>b. PICK k \in 1..(at[p] + 1) : Shape(intent, k)
      BY <3>1 DEF Moves, ProgressInv
    <3>c. k \in 1..5 BY <3>2, <3>b
    <3>3. Recoverable
      BY <3>a, <3>b, <3>c, ShapeRecoverable
    <3>4. \A f \in CommitSet, d \in Committers : snap[intent][f] = d => pc[d] = "done"
      BY <3>3 DEF BackupsPublished
    <3>5. UNCHANGED <<intent, whole, snap, new, manifest>>
      BY <2>3 DEF RestoreFile
    <3>6. \A f \in Files : file'[f] = file[f] \/ (f \in CommitSet /\ file'[f] = snap[intent][f])
      BY <2>3, <3>1, <3>2 DEF RestoreFile, TypeOK
    <3>7. QED BY <3>1, <3>4, <3>5, <3>6 DEF Moves, OriginInv
  <2>4. CASE RestoreFails(p)
    <3>1. Moves(p, "restore", {IF p \in Operators THEN "idle" ELSE "stopping"})
      BY <2>4, RecoveryMoves
    <3>2. QED BY <2>4, <3>1 DEF RestoreFails, Moves, TypeOK, OriginInv
  <2>5. CASE ClearIntent(p)
    <3>1. Moves(p, "clear", {IF p \in Operators THEN "idle" ELSE "stopping"})
      BY <2>5, RecoveryMoves
    <3>2. intent' = NoIntent /\ UNCHANGED <<file, snap, new, manifest>>
      BY <2>5 DEF ClearIntent
    <3>3. intent \in Committers /\ Shape(intent, 1)
      BY <3>1 DEF Moves, ProgressInv, LockInv, TypeOK
    <3>4. \A f \in CommitSet : file[f] = snap[intent][f]
      BY <3>3, FileFacts DEF Shape
    <3>5. \A f \in Files : file[f] # intent
      BY <3>3, <3>4, FileFacts DEF OriginInv
    <3>6. QED BY <3>1, <3>2, <3>5 DEF Moves, OriginInv
  <2>6. QED
    BY <1>2, <2>1, <2>2, <2>3, <2>4, <2>5 DEF RecoveryStep
<1>3. ASSUME NEW o \in Operators, StartRecover(o) PROVE OriginInv'
  <2>1. Moves(o, "idle", {"undo"})
    BY <1>3, OtherMoves
  <2>2. UNCHANGED <<file, intent, whole, snap, new, manifest>>
    BY <1>3 DEF StartRecover
  <2>3. QED BY <2>1, <2>2 DEF Moves, OriginInv
<1>4. ASSUME NEW p \in Procs, Crash(p) PROVE OriginInv'
  <2>1. pc[p] \notin Gone \cup {"idle"} /\ UNCHANGED <<file, intent, whole, snap, new, manifest>>
    BY <1>4, OtherMoves DEF Crash
  <2>2. pc'[p] \in {"idle", "crashed"} /\ \A q \in Procs : q # p => pc'[q] = pc[q]
    BY <1>4, OtherMoves DEF Moves
  <2>3. QED BY <2>1, <2>2 DEF Gone, OriginInv
<1>5. ASSUME NEW f \in Files, NEW e \in Edits, EditSetting(f, e) PROVE OriginInv'
  <2>1. UNCHANGED <<intent, whole, pc, snap, new, manifest>> /\ intent = NoIntent
    BY <1>5 DEF EditSetting, Disciplined
  <2>2. \A g \in Files : file'[g] \in {file[g], e}
    BY <1>5 DEF EditSetting, TypeOK
  <2>3. QED BY <2>1, <2>2 DEF OriginInv
<1>6. CASE UNCHANGED vars
  BY <1>6 DEF vars, Moves, TypeOK, OriginInv
<1>7. QED
  BY <1>1, <1>2, <1>3, <1>4, <1>5, <1>6, NextCases

\* Phases that say something about the files.
FilePhases == {"write", "check", "replace", "record", "unlink", "restore", "clear"}

\* A step that touches no file and takes its process into none of those phases.
LEMMA ProgressKept ==
  ASSUME TypeOK, ProgressInv, UNCHANGED <<file, intent, whole, snap, new>>,
         NEW p \in Procs, pc'[p] \notin FilePhases,
         \A q \in Procs : q # p => pc'[q] = pc[q] /\ at'[q] = at[q]
  PROVE  ProgressInv'
<1>1. \A c \in Committers, k \in 1..5 : Shape(c, k) <=> Shape(c, k)'
  BY DEF Shape
<1>2. \A c \in Committers : Virgin(c) <=> Virgin(c)'
  BY DEF Virgin
<1>3. intent' # NoIntent => Virgin(intent)' \/ (whole' /\ \E k \in 1..5 : Shape(intent, k)')
  BY <1>1, <1>2 DEF ProgressInv, TypeOK
<1>4. ASSUME NEW c \in Committers
      PROVE  /\ pc'[c] = "write" => Virgin(c)'
             /\ pc'[c] = "check" => at'[c] \in 1..4
                  /\ IF at'[c] = 1 THEN Virgin(c)' ELSE Shape(c, at[c])'
             /\ pc'[c] = "replace" => at'[c] \in 1..4 /\ Shape(c, at[c])'
             /\ pc'[c] \in {"record", "unlink"} => Shape(c, 5)'
  <2>1. CASE c = p BY <2>1 DEF FilePhases
  <2>2. CASE c # p
    <3>1. pc'[c] = pc[c] /\ at'[c] = at[c] BY <2>2, ProcFacts
    <3>2. QED BY <3>1 DEF ProgressInv, Shape, Virgin
  <2>3. QED BY <2>1, <2>2
<1>5. ASSUME NEW q \in Procs
      PROVE  /\ pc'[q] = "restore" =>
                  at'[q] \in 1..4 /\ \E k \in 1..(at'[q] + 1) : Shape(intent, k)'
             /\ pc'[q] = "clear" => Shape(intent, 1)'
  <2>1. CASE q = p BY <2>1 DEF FilePhases
  <2>2. CASE q # p
    <3>1. pc'[q] = pc[q] /\ at'[q] = at[q] BY <2>2
    <3>2. QED BY <3>1 DEF ProgressInv, Shape
  <2>3. QED BY <2>1, <2>2
<1>6. QED
  BY <1>3, <1>4, <1>5 DEF ProgressInv

\* While a process works on the pending commit it alone does so.
LEMMA OnlyOwner ==
  ASSUME TypeOK, LockInv, NEW p \in Procs, pc[p] \in Committing
  PROVE  /\ intent \in Committers
         /\ \A q \in Procs : q # p => pc[q] \notin Committing
         /\ p \in Committers => intent = p
<1>1. \A c \in Committers : pc[c] \in Committing => intent = c
  BY DEF LockInv, CommitOwnsIntent
<1>2. \A o \in Operators : pc[o] \in Committing =>
        /\ intent \in Committers /\ pc[intent] \in {"stopped", "crashed"}
        /\ \A q \in Operators : pc[q] \in Committing => q = o
  BY DEF LockInv, Committing
<1>3. QED
  BY <1>1, <1>2, ProcFacts DEF Committing

\* A step after which no process but p says anything about the files.
LEMMA ProgressAlone ==
  ASSUME NEW p \in Procs, \A q \in Procs : q # p => pc'[q] \notin FilePhases,
         intent' # NoIntent =>
           Virgin(intent)' \/ (whole' /\ \E k \in 1..5 : Shape(intent, k)'),
         p \in Committers =>
           /\ pc'[p] = "write" => Virgin(p)'
           /\ pc'[p] = "check" => at'[p] \in 1..4
                /\ IF at'[p] = 1 THEN Virgin(p)' ELSE Shape(p, at[p])'
           /\ pc'[p] = "replace" => at'[p] \in 1..4 /\ Shape(p, at[p])'
           /\ pc'[p] \in {"record", "unlink"} => Shape(p, 5)',
         pc'[p] = "restore" =>
           at'[p] \in 1..4 /\ \E k \in 1..(at'[p] + 1) : Shape(intent, k)',
         pc'[p] = "clear" => Shape(intent, 1)'
  PROVE  ProgressInv'
<1>1. ASSUME NEW c \in Committers
      PROVE  /\ pc'[c] = "write" => Virgin(c)'
             /\ pc'[c] = "check" => at'[c] \in 1..4
                  /\ IF at'[c] = 1 THEN Virgin(c)' ELSE Shape(c, at[c])'
             /\ pc'[c] = "replace" => at'[c] \in 1..4 /\ Shape(c, at[c])'
             /\ pc'[c] \in {"record", "unlink"} => Shape(c, 5)'
  <2>1. CASE c = p BY <2>1
  <2>2. CASE c # p
    <3>1. pc'[c] \notin FilePhases BY <2>2, ProcFacts
    <3>2. QED BY <3>1 DEF FilePhases
  <2>3. QED BY <2>1, <2>2
<1>2. ASSUME NEW q \in Procs
      PROVE  /\ pc'[q] = "restore" =>
                  at'[q] \in 1..4 /\ \E k \in 1..(at'[q] + 1) : Shape(intent, k)'
             /\ pc'[q] = "clear" => Shape(intent, 1)'
  <2>1. CASE q = p BY <2>1
  <2>2. CASE q # p
    <3>1. pc'[q] \notin FilePhases BY <2>2
    <3>2. QED BY <3>1 DEF FilePhases
  <2>3. QED BY <2>1, <2>2
<1>3. QED
  BY <1>1, <1>2 DEF ProgressInv

\* A committer that has no intent changes its private copies only.
LEMMA ProgressPrivate ==
  ASSUME TypeOK, LockInv, ProgressInv, UNCHANGED <<file, intent, whole>>,
         NEW p \in Committers, pc'[p] \notin FilePhases, intent # p,
         \A q \in Procs : q # p => pc'[q] = pc[q] /\ at'[q] = at[q],
         \A d \in Committers : d # p => snap'[d] = snap[d] /\ new'[d] = new[d]
  PROVE  ProgressInv'
<1>1. \A c \in Committers, k \in 1..5 : c # p => (Shape(c, k) <=> Shape(c, k)')
  BY DEF Shape
<1>2. \A c \in Committers : Virgin(c) <=> Virgin(c)'
  BY DEF Virgin
<1>3. intent' # NoIntent => Virgin(intent)' \/ (whole' /\ \E k \in 1..5 : Shape(intent, k)')
  BY <1>1, <1>2 DEF ProgressInv, TypeOK
<1>4. ASSUME NEW c \in Committers
      PROVE  /\ pc'[c] = "write" => Virgin(c)'
             /\ pc'[c] = "check" => at'[c] \in 1..4
                  /\ IF at'[c] = 1 THEN Virgin(c)' ELSE Shape(c, at[c])'
             /\ pc'[c] = "replace" => at'[c] \in 1..4 /\ Shape(c, at[c])'
             /\ pc'[c] \in {"record", "unlink"} => Shape(c, 5)'
  <2>1. CASE c = p BY <2>1 DEF FilePhases
  <2>2. CASE c # p
    <3>1. pc'[c] = pc[c] /\ at'[c] = at[c] /\ snap'[c] = snap[c] /\ new'[c] = new[c]
      BY <2>2, ProcFacts
    <3>2. QED BY <3>1 DEF ProgressInv, Shape, Virgin
  <2>3. QED BY <2>1, <2>2
<1>5. ASSUME NEW q \in Procs
      PROVE  /\ pc'[q] = "restore" =>
                  at'[q] \in 1..4 /\ \E k \in 1..(at'[q] + 1) : Shape(intent, k)'
             /\ pc'[q] = "clear" => Shape(intent, 1)'
  <2>1. CASE q = p BY <2>1 DEF FilePhases
  <2>2. CASE q # p
    <3>1. pc'[q] = pc[q] /\ at'[q] = at[q] BY <2>2
    <3>2. CASE intent = NoIntent
      BY <3>1, <3>2, OnlyOwner, ProcFacts DEF Committing
    <3>3. CASE intent # NoIntent
      <4>1. snap'[intent'] = snap[intent] /\ new'[intent'] = new[intent]
        BY <3>3 DEF TypeOK
      <4>2. QED BY <3>1, <4>1 DEF ProgressInv, Shape
    <3>4. QED BY <3>2, <3>3
  <2>3. QED BY <2>1, <2>2
<1>6. QED
  BY <1>3, <1>4, <1>5 DEF ProgressInv

\* Every step keeps ProgressInv: one case per action.
LEMMA ProgressStep ==
  ASSUME Disciplined, TypeOK, LockInv, OriginInv, ProgressInv, [Next]_vars PROVE ProgressInv'
<1> USE ProcFacts
<1>1. ASSUME NEW c \in Committers, CommitterStep(c) PROVE ProgressInv'
  <2>1. CASE Begin(c)
    <3>1. Moves(c, "idle", {"snapshot", "stopped"})
      BY <2>1, CommitterMoves
    <3>2. UNCHANGED <<file, intent, whole, snap, new>>
      BY <2>1 DEF Begin
    <3>3. QED BY <3>1, <3>2, ProgressKept DEF Moves, FilePhases
  <2>2. CASE ReadSetting(c)
    <3>1. Moves(c, "snapshot", {"snapshot", "produce"})
      BY <2>2, CommitterMoves
    <3>2. UNCHANGED <<file, intent, whole>> /\ intent # c
      BY <2>2, <3>1 DEF ReadSetting, Moves, LockInv, NotYet
    <3>3. \A d \in Committers : d # c => snap'[d] = snap[d] /\ new'[d] = new[d]
      BY <2>2 DEF ReadSetting, TypeOK
    <3>4. QED BY <3>1, <3>2, <3>3, ProgressPrivate DEF Moves, FilePhases
  <2>3. CASE Prepare(c)
    <3>1. Moves(c, "produce", {"assert"})
      BY <2>3, CommitterMoves
    <3>2. UNCHANGED <<file, intent, whole>> /\ intent # c
      BY <2>3, <3>1 DEF Prepare, Moves, LockInv, NotYet
    <3>3. \A d \in Committers : d # c => snap'[d] = snap[d] /\ new'[d] = new[d]
      BY <2>3 DEF Prepare, TypeOK
    <3>4. QED BY <3>1, <3>2, <3>3, ProgressPrivate DEF Moves, FilePhases
  <2>4. CASE PrepareResume(c)
    <3>1. Moves(c, "produce", {"assert"})
      BY <2>4, CommitterMoves
    <3>2. UNCHANGED <<file, intent, whole>> /\ intent # c
      BY <2>4, <3>1 DEF PrepareResume, Moves, LockInv, NotYet
    <3>3. \A d \in Committers : d # c => snap'[d] = snap[d] /\ new'[d] = new[d]
      BY <2>4 DEF PrepareResume, TypeOK
    <3>4. QED BY <3>1, <3>2, <3>3, ProgressPrivate DEF Moves, FilePhases
  <2>5. CASE PrepareFails(c)
    <3>1. Moves(c, "produce", {"stopping"})
      BY <2>5, CommitterMoves
    <3>2. UNCHANGED <<file, intent, whole, snap, new>>
      BY <2>5 DEF PrepareFails
    <3>3. QED BY <3>1, <3>2, ProgressKept DEF Moves, FilePhases
  <2>6. CASE AssertUnchanged(c)
    <3>1. Moves(c, "assert", {"stopping", "assert", "open"})
      BY <2>6, CommitterMoves
    <3>2. UNCHANGED <<file, intent, whole, snap, new>>
      BY <2>6 DEF AssertUnchanged
    <3>3. QED BY <3>1, <3>2, ProgressKept DEF Moves, FilePhases
  <2>7. CASE OpenIntent(c)
    <3>1. Moves(c, "open", {"write", "stopping"})
      BY <2>7, CommitterMoves
    <3>2. CASE intent = NoIntent
      <4>1. intent' = c /\ UNCHANGED file /\ pc'[c] = "write"
        BY <2>7, <3>1, <3>2 DEF OpenIntent, GoTo, TypeOK
      <4>2. \A q \in Procs : pc[q] \notin FilePhases
        BY <3>2, OnlyOwner DEF FilePhases, Committing
      <4>3. Virgin(c)'
        BY <3>1, <3>2, <4>1 DEF Moves, OriginInv, Virgin
      <4>4. QED BY <3>1, <4>1, <4>2, <4>3, ProgressAlone DEF Moves
    <3>3. CASE intent # NoIntent
      <4>1. UNCHANGED <<file, intent, whole, snap, new>> /\ pc'[c] = "stopping"
        BY <2>7, <3>1, <3>3 DEF OpenIntent, GoTo, TypeOK
      <4>2. QED BY <3>1, <4>1, ProgressKept DEF Moves, FilePhases
    <3>4. QED BY <3>2, <3>3
  <2>8. CASE WriteIntent(c)
    <3>1. Moves(c, "write", {"check"}) /\ at'[c] = 1
      BY <2>8, CommitterMoves
    <3>2. intent = c /\ \A q \in Procs : q # c => pc'[q] \notin FilePhases
      BY <3>1, OnlyOwner DEF Moves, FilePhases, Committing
    <3>3. UNCHANGED <<file, intent>> /\ Virgin(c)
      BY <2>8 DEF WriteIntent, ProgressInv
    <3>4. Virgin(c)'
      BY <3>3 DEF Virgin
    <3>5. QED BY <3>1, <3>2, <3>3, <3>4, ProgressAlone DEF Moves
  <2>9. CASE WriteIntentFails(c)
    <3>1. Moves(c, "write", {"stopping"})
      BY <2>9, CommitterMoves
    <3>2. intent = c /\ \A q \in Procs : q # c => pc'[q] \notin FilePhases
      BY <3>1, OnlyOwner DEF Moves, FilePhases, Committing
    <3>3. UNCHANGED <<file, intent>> /\ Virgin(c)
      BY <2>9 DEF WriteIntentFails, ProgressInv
    <3>4. Virgin(c)'
      BY <3>3 DEF Virgin
    <3>5. QED BY <3>1, <3>2, <3>3, <3>4, ProgressAlone DEF Moves
  <2>10. CASE CheckPending(c)
    <3>1. Moves(c, "check", {"replace", "undo"}) /\ at' = at
      BY <2>10, CommitterMoves
    <3>2. intent = c /\ \A q \in Procs : q # c => pc'[q] \notin FilePhases
      BY <3>1, OnlyOwner DEF Moves, FilePhases, Committing
    <3>3. UNCHANGED <<file, intent, whole, snap, new>>
      BY <2>10 DEF CheckPending
    <3>4. CASE pc'[c] = "undo"
      BY <3>1, <3>3, <3>4, ProgressKept DEF Moves, FilePhases
    <3>5. CASE pc'[c] = "replace"
      <4>1. \A i \in at[c]..4 : file[CommitFiles[i]] = snap[c][CommitFiles[i]]
        BY <2>10, <3>5 DEF CheckPending, GoTo, TypeOK
      <4>2. at[c] \in 1..4 /\ whole
        BY <3>1 DEF Moves, ProgressInv, LockInv, WholePhases, Committing
      <4>3. Shape(c, at[c])
        <5>1. CASE at[c] = 1 BY <4>1, <5>1 DEF Shape
        <5>2. CASE at[c] # 1 BY <3>1, <5>2 DEF Moves, ProgressInv
        <5>3. QED BY <5>1, <5>2
      <4>4. Shape(c, at[c])' /\ at[c] \in 1..5
        BY <3>1, <3>3, <4>2, <4>3 DEF Shape
      <4>5. \E k \in 1..5 : Shape(c, k)'
        BY <3>1, <4>4
      <4>6. QED BY <3>1, <3>2, <3>3, <3>5, <4>2, <4>4, <4>5, ProgressAlone
    <3>6. QED BY <3>1, <3>4, <3>5 DEF Moves
  <2>11. CASE ReplaceFile(c)
    <3>1. Moves(c, "replace", {"check", "record"})
      BY <2>11, CommitterMoves
    <3>2. intent = c /\ \A q \in Procs : q # c => pc'[q] \notin FilePhases
      BY <3>1, OnlyOwner DEF Moves, FilePhases, Committing
    <3>3. at[c] \in 1..4 /\ Shape(c, at[c]) /\ whole
      BY <3>1 DEF Moves, ProgressInv, LockInv, WholePhases, Committing
    <3>4. UNCHANGED <<intent, whole, snap, new>>
      BY <2>11 DEF ReplaceFile
    <3>5. \A i \in 1..4 : file'[CommitFiles[i]] =
            IF i = at[c] THEN new[c][CommitFiles[i]] ELSE file[CommitFiles[i]]
      BY <2>11, <3>3, FileFacts DEF ReplaceFile, TypeOK
    <3>6. \A i \in 1..4 : file'[CommitFiles[i]] =
            IF i < at[c] + 1 THEN new[c][CommitFiles[i]] ELSE snap[c][CommitFiles[i]]
      BY <3>3, <3>5 DEF Shape
    <3>7. \A k \in 1..5 : k = at[c] + 1 => Shape(c, k)'
      BY <3>4, <3>6 DEF Shape
    <3>8. \/ at[c] < 4 /\ pc'[c] = "check" /\ at'[c] = at[c] + 1
          \/ at[c] = 4 /\ pc'[c] = "record"
      BY <2>11, <3>3 DEF ReplaceFile, GoTo, GoToFile, TypeOK
    <3>9. at[c] + 1 \in 1..5 /\ (at[c] < 4 => at[c] + 1 \in 1..4 /\ at[c] + 1 # 1)
      BY <3>3
    <3>10. \E k \in 1..5 : Shape(c, k)'
      BY <3>7, <3>9
    <3>11. pc'[c] = "check" => at'[c] \in 1..4 /\ at'[c] # 1 /\ Shape(c, at[c])'
      BY <3>7, <3>8, <3>9
    <3>12. pc'[c] = "record" => Shape(c, 5)'
      BY <3>7, <3>8
    <3>13. QED
      BY <3>1, <3>2, <3>3, <3>4, <3>10, <3>11, <3>12, ProgressAlone DEF Moves
  <2>12. CASE ReplaceFails(c)
    <3>1. Moves(c, "replace", {"undo"})
      BY <2>12, CommitterMoves
    <3>2. UNCHANGED <<file, intent, whole, snap, new>>
      BY <2>12 DEF ReplaceFails
    <3>3. QED BY <3>1, <3>2, ProgressKept DEF Moves, FilePhases
  <2>13. CASE RecordSuccess(c)
    <3>1. Moves(c, "record", {"unlink"})
      BY <2>13, CommitterMoves
    <3>2. intent = c /\ \A q \in Procs : q # c => pc'[q] \notin FilePhases
      BY <3>1, OnlyOwner DEF Moves, FilePhases, Committing
    <3>3. UNCHANGED <<file, intent, whole, snap, new>> /\ Shape(c, 5) /\ whole
      BY <2>13, <3>1 DEF RecordSuccess, Moves, ProgressInv, LockInv, WholePhases, Committing
    <3>4. Shape(c, 5)'
      BY <3>3 DEF Shape
    <3>5. \E k \in 1..5 : Shape(c, k)'
      BY <3>4
    <3>6. QED BY <3>1, <3>2, <3>3, <3>4, <3>5, ProgressAlone DEF Moves
  <2>14. CASE RecordFails(c)
    <3>1. Moves(c, "record", {"stopping"})
      BY <2>14, CommitterMoves
    <3>2. UNCHANGED <<file, intent, whole, snap, new>>
      BY <2>14 DEF RecordFails
    <3>3. QED BY <3>1, <3>2, ProgressKept DEF Moves, FilePhases
  <2>15. CASE Finish(c)
    <3>1. Moves(c, "unlink", {"stopping", "done"})
      BY <2>15, CommitterMoves
    <3>2. intent = c /\ \A q \in Procs : q # c => pc'[q] \notin FilePhases
      BY <3>1, OnlyOwner DEF Moves, FilePhases, Committing
    <3>3. intent' = NoIntent
      BY <2>15 DEF Finish
    <3>4. QED BY <3>1, <3>2, <3>3, ProgressAlone DEF Moves
  <2>16. CASE Stop(c)
    <3>1. Moves(c, "stopping", {"stopped"})
      BY <2>16, CommitterMoves
    <3>2. UNCHANGED <<file, intent, whole, snap, new>>
      BY <2>16 DEF Stop
    <3>3. QED BY <3>1, <3>2, ProgressKept DEF Moves, FilePhases
  <2>17. QED
    BY <1>1, <2>1, <2>2, <2>3, <2>4, <2>5, <2>6, <2>7, <2>8, <2>9, <2>10, <2>11, <2>12, <2>13, <2>14, <2>15, <2>16 DEF CommitterStep
<1>2. ASSUME NEW p \in Procs, RecoveryStep(p) PROVE ProgressInv'
  <2>1. CASE ReadIntent(p)
    <3>1. Moves(p, "undo", {"validate", IF p \in Operators THEN "idle" ELSE "stopping"})
      BY <2>1, RecoveryMoves
    <3>2. UNCHANGED <<file, intent, whole, snap, new>>
      BY <2>1 DEF ReadIntent
    <3>3. QED BY <3>1, <3>2, ProgressKept DEF Moves, FilePhases
  <2>2. CASE Validate(p)
    <3>1. Moves(p, "validate", {"restore", IF p \in Operators THEN "idle" ELSE "stopping"})
      BY <2>2, RecoveryMoves
    <3>2. intent \in Committers /\ \A q \in Procs : q # p => pc'[q] \notin FilePhases
      BY <3>1, OnlyOwner DEF Moves, FilePhases, Committing
    <3>3. UNCHANGED <<file, intent, whole, snap, new>> /\ whole /\ claimed[p] = intent
      BY <2>2, <3>1 DEF Validate, Moves, LockInv
    <3>4. CASE pc'[p] # "restore"
      BY <3>1, <3>3, <3>4, ProgressKept DEF Moves, FilePhases
    <3>5. CASE pc'[p] = "restore"
      <4>1. /\ \A f \in CommitSet : file[f] \in {snap[intent][f], new[intent][f]}
            /\ at'[p] = 4
        BY <2>2, <3>3, <3>5, LeaveType DEF Validate, GoToFile, TypeOK
      <4>2. \E k \in 1..5 : Shape(intent, k)
        <5>1. CASE Virgin(intent)
          <6>1. \A f \in CommitSet : file[f] = snap[intent][f]
            BY <3>2, <4>1, <5>1, FileFacts DEF OriginInv, Virgin
          <6>2. Shape(intent, 1)
            BY <6>1, FileFacts DEF Shape
          <6>3. QED BY <6>2
        <5>2. CASE ~Virgin(intent)
          BY <3>2, <5>2, ProcFacts DEF ProgressInv
        <5>3. QED BY <5>1, <5>2
      <4>3. \E k \in 1..5 : Shape(intent, k)'
        BY <3>3, <4>2 DEF Shape
      <4>4. \E k \in 1..(at'[p] + 1) : Shape(intent, k)'
        BY <4>1, <4>3
      <4>5. QED BY <3>2, <3>3, <3>5, <4>1, <4>3, <4>4, ProgressAlone
    <3>6. QED BY <3>4, <3>5
  <2>3. CASE RestoreFile(p)
    <3>1. Moves(p, "restore", {"restore", "clear"})
      BY <2>3, RecoveryMoves
    <3>2. intent \in Committers /\ \A q \in Procs : q # p => pc'[q] \notin FilePhases
      BY <3>1, OnlyOwner DEF Moves, FilePhases, Committing
    <3>3. UNCHANGED <<intent, whole, snap, new>> /\ whole /\ claimed[p] = intent
      BY <2>3, <3>1 DEF RestoreFile, Moves, LockInv
    <3>4. at[p] \in 1..4 /\ \E k \in 1..(at[p] + 1) : Shape(intent, k)
      BY <3>1 DEF Moves, ProgressInv
    <3>5. PICK k \in 1..(at[p] + 1) : Shape(intent, k)
      BY <3>4
    <3>6. \A i \in 1..4 : file'[CommitFiles[i]] =
            IF i = at[p] THEN snap[intent][CommitFiles[i]] ELSE file[CommitFiles[i]]
      BY <2>3, <3>3, <3>4, FileFacts DEF RestoreFile, TypeOK
    <3>7. PICK j \in 1..at[p] : \A i \in 1..4 : file'[CommitFiles[i]] =
            IF i < j THEN new[intent][CommitFiles[i]] ELSE snap[intent][CommitFiles[i]]
      <4>1. CASE k = at[p] + 1
        <5>1. at[p] \in 1..at[p] BY <3>4
        <5>2. \A i \in 1..4 : file'[CommitFiles[i]] =
                IF i < at[p] THEN new[intent][CommitFiles[i]] ELSE snap[intent][CommitFiles[i]]
          BY <3>4, <3>5, <3>6, <4>1 DEF Shape
        <5>3. QED BY <5>1, <5>2
      <4>2. CASE k # at[p] + 1
        <5>1. k \in 1..at[p] BY <3>4, <3>5, <4>2
        <5>2. \A i \in 1..4 : file'[CommitFiles[i]] =
                IF i < k THEN new[intent][CommitFiles[i]] ELSE snap[intent][CommitFiles[i]]
          BY <3>4, <3>5, <3>6, <5>1 DEF Shape
        <5>3. QED BY <5>1, <5>2
      <4>3. QED BY <4>1, <4>2
    <3>8. Shape(intent, j)' /\ j \in 1..5
      BY <3>3, <3>4, <3>7 DEF Shape
    <3>9. \/ at[p] > 1 /\ pc'[p] = "restore" /\ at'[p] = at[p] - 1
          \/ at[p] = 1 /\ pc'[p] = "clear"
      BY <2>3, <3>4 DEF RestoreFile, GoTo, GoToFile, TypeOK
    <3>10. pc'[p] = "restore" => at'[p] \in 1..4 /\ \E n \in 1..(at'[p] + 1) : Shape(intent, n)'
      BY <3>4, <3>7, <3>8, <3>9
    <3>11. pc'[p] = "clear" => Shape(intent, 1)'
      <4>1. ASSUME pc'[p] = "clear" PROVE j = 1
        BY <3>4, <3>7, <3>9, <4>1
      <4>2. QED BY <3>8, <4>1
    <3>12. \E n \in 1..5 : Shape(intent, n)'
      BY <3>8
    <3>13. QED
      BY <3>1, <3>2, <3>3, <3>10, <3>11, <3>12, ProgressAlone DEF Moves
  <2>4. CASE RestoreFails(p)
    <3>1. Moves(p, "restore", {IF p \in Operators THEN "idle" ELSE "stopping"})
      BY <2>4, RecoveryMoves
    <3>2. UNCHANGED <<file, intent, whole, snap, new>>
      BY <2>4 DEF RestoreFails
    <3>3. QED BY <3>1, <3>2, ProgressKept DEF Moves, FilePhases
  <2>5. CASE ClearIntent(p)
    <3>1. Moves(p, "clear", {IF p \in Operators THEN "idle" ELSE "stopping"})
      BY <2>5, RecoveryMoves
    <3>2. intent' = NoIntent /\ \A q \in Procs : q # p => pc'[q] \notin FilePhases
      BY <2>5, <3>1, OnlyOwner DEF ClearIntent, Moves, FilePhases, Committing
    <3>3. QED BY <3>1, <3>2, ProgressAlone DEF Moves
  <2>6. QED
    BY <1>2, <2>1, <2>2, <2>3, <2>4, <2>5 DEF RecoveryStep
<1>3. ASSUME NEW o \in Operators, StartRecover(o) PROVE ProgressInv'
  <2>1. Moves(o, "idle", {"undo"}) /\ o \in Procs
    BY <1>3, OtherMoves
  <2>2. UNCHANGED <<file, intent, whole, snap, new>>
    BY <1>3 DEF StartRecover
  <2>3. QED BY <2>1, <2>2, ProgressKept DEF Moves, FilePhases
<1>4. ASSUME NEW p \in Procs, Crash(p) PROVE ProgressInv'
  <2>1. Moves(p, pc[p], {IF p \in Operators THEN "idle" ELSE "crashed"})
    BY <1>4, OtherMoves
  <2>2. UNCHANGED <<file, intent, whole, snap, new>>
    BY <1>4 DEF Crash
  <2>3. QED BY <2>1, <2>2, ProgressKept DEF Moves, FilePhases
<1>5. ASSUME NEW f \in Files, NEW e \in Edits, EditSetting(f, e) PROVE ProgressInv'
  <2>1. UNCHANGED <<intent, pc>> /\ intent = NoIntent
    BY <1>5 DEF EditSetting, Disciplined
  <2>2. \A q \in Procs : pc[q] \notin FilePhases
    BY <2>1, OnlyOwner DEF FilePhases, Committing
  <2>3. QED
    BY <2>1, <2>2 DEF ProgressInv, FilePhases
<1>6. CASE UNCHANGED vars
  <2>1. UNCHANGED <<file, intent, whole, pc, at, snap, new>>
    BY <1>6 DEF vars
  <2>2. QED
    BY <2>1 DEF ProgressInv, Shape, Virgin
<1>7. QED
  BY <1>1, <1>2, <1>3, <1>4, <1>5, <1>6, NextCases

\* A step that changes neither the pending commit's backups nor, towards
\* Recoverable, what recover sees, and that un-finishes nobody.
LEMMA BackupKept ==
  ASSUME TypeOK, BackupsPublished, UNCHANGED intent, Recoverable' => Recoverable,
         intent \in Committers => snap'[intent] = snap[intent],
         \A d \in Committers : pc[d] = "done" => pc'[d] = "done"
  PROVE  BackupsPublished'
<1>1. Recoverable => intent \in Committers
  BY DEF Recoverable, TypeOK
<1>2. QED
  BY <1>1 DEF BackupsPublished

\* The intent has just become readable: its backups are the live files.
LEMMA BackupFresh ==
  ASSUME OriginInv, NEW c \in Committers, intent = c, Virgin(c),
         UNCHANGED <<file, intent, snap, new>>,
         \A d \in Committers : pc[d] = "done" => pc'[d] = "done"
  PROVE  BackupsPublished'
<1>1. SUFFICES ASSUME Recoverable', NEW f \in CommitSet, NEW d \in Committers,
                      snap[c][f] = d
               PROVE  pc[d] = "done"
  BY DEF BackupsPublished
<1>2. file[f] \in {snap[c][f], new[c][f]} /\ file[f] # c /\ new[c][f] \in {snap[c][f], c}
  BY <1>1, FileFacts DEF Recoverable, Virgin, OriginInv
<1>3. file[f] = d /\ d # c
  BY <1>1, <1>2
<1>4. QED
  BY <1>3, FileFacts DEF OriginInv

\* Every step keeps BackupsPublished: one case per action.
LEMMA BackupStep ==
  ASSUME Disciplined, TypeOK, LockInv, OriginInv, ProgressInv, BackupsPublished, [Next]_vars PROVE BackupsPublished'
<1> USE ProcFacts
<1>1. ASSUME NEW c \in Committers, CommitterStep(c) PROVE BackupsPublished'
  <2>1. CASE Begin(c)
    <3>1. Moves(c, "idle", {"snapshot", "stopped"})
      BY <2>1, CommitterMoves
    <3>2. UNCHANGED <<file, intent, whole, snap, new>>
      BY <2>1 DEF Begin
    <3>3. QED BY <3>1, <3>2, BackupKept DEF Moves, Recoverable
  <2>2. CASE ReadSetting(c)
    <3>1. Moves(c, "snapshot", {"snapshot", "produce"})
      BY <2>2, CommitterMoves
    <3>2. UNCHANGED <<file, intent, whole>> /\ intent # c
      BY <2>2, <3>1 DEF ReadSetting, Moves, LockInv, NotYet
    <3>3. \A d \in Committers : d # c => snap'[d] = snap[d] /\ new'[d] = new[d]
      BY <2>2 DEF ReadSetting, TypeOK
    <3>4. intent \in Committers => snap'[intent] = snap[intent] /\ new'[intent] = new[intent]
      BY <3>2, <3>3
    <3>5. Recoverable' => Recoverable
      BY <3>2, <3>4 DEF Recoverable, TypeOK
    <3>6. QED BY <3>1, <3>2, <3>4, <3>5, BackupKept DEF Moves
  <2>3. CASE Prepare(c)
    <3>1. Moves(c, "produce", {"assert"})
      BY <2>3, CommitterMoves
    <3>2. UNCHANGED <<file, intent, whole>> /\ intent # c
      BY <2>3, <3>1 DEF Prepare, Moves, LockInv, NotYet
    <3>3. \A d \in Committers : d # c => snap'[d] = snap[d] /\ new'[d] = new[d]
      BY <2>3 DEF Prepare, TypeOK
    <3>4. intent \in Committers => snap'[intent] = snap[intent] /\ new'[intent] = new[intent]
      BY <3>2, <3>3
    <3>5. Recoverable' => Recoverable
      BY <3>2, <3>4 DEF Recoverable, TypeOK
    <3>6. QED BY <3>1, <3>2, <3>4, <3>5, BackupKept DEF Moves
  <2>4. CASE PrepareResume(c)
    <3>1. Moves(c, "produce", {"assert"})
      BY <2>4, CommitterMoves
    <3>2. UNCHANGED <<file, intent, whole>> /\ intent # c
      BY <2>4, <3>1 DEF PrepareResume, Moves, LockInv, NotYet
    <3>3. \A d \in Committers : d # c => snap'[d] = snap[d] /\ new'[d] = new[d]
      BY <2>4 DEF PrepareResume, TypeOK
    <3>4. intent \in Committers => snap'[intent] = snap[intent] /\ new'[intent] = new[intent]
      BY <3>2, <3>3
    <3>5. Recoverable' => Recoverable
      BY <3>2, <3>4 DEF Recoverable, TypeOK
    <3>6. QED BY <3>1, <3>2, <3>4, <3>5, BackupKept DEF Moves
  <2>5. CASE PrepareFails(c)
    <3>1. Moves(c, "produce", {"stopping"})
      BY <2>5, CommitterMoves
    <3>2. UNCHANGED <<file, intent, whole, snap, new>>
      BY <2>5 DEF PrepareFails
    <3>3. QED BY <3>1, <3>2, BackupKept DEF Moves, Recoverable
  <2>6. CASE AssertUnchanged(c)
    <3>1. Moves(c, "assert", {"stopping", "assert", "open"})
      BY <2>6, CommitterMoves
    <3>2. UNCHANGED <<file, intent, whole, snap, new>>
      BY <2>6 DEF AssertUnchanged
    <3>3. QED BY <3>1, <3>2, BackupKept DEF Moves, Recoverable
  <2>7. CASE OpenIntent(c)
    <3>1. Moves(c, "open", {"write", "stopping"})
      BY <2>7, CommitterMoves
    <3>2. CASE intent = NoIntent
      <4>1. ~whole' BY <2>7, <3>2 DEF OpenIntent
      <4>2. QED BY <4>1 DEF BackupsPublished, Recoverable
    <3>3. CASE intent # NoIntent
      <4>1. UNCHANGED <<file, intent, whole, snap, new>>
        BY <2>7, <3>3 DEF OpenIntent
      <4>2. QED BY <3>1, <4>1, BackupKept DEF Moves, Recoverable
    <3>4. QED BY <3>2, <3>3
  <2>8. CASE WriteIntent(c)
    <3>1. Moves(c, "write", {"check"}) /\ at'[c] = 1
      BY <2>8, CommitterMoves
    <3>2. intent = c /\ Virgin(c)
      BY <3>1 DEF Moves, LockInv, CommitOwnsIntent, Committing, ProgressInv
    <3>3. UNCHANGED <<file, intent, snap, new>>
      BY <2>8 DEF WriteIntent
    <3>4. QED BY <3>1, <3>2, <3>3, BackupFresh DEF Moves
  <2>9. CASE WriteIntentFails(c)
    <3>1. Moves(c, "write", {"stopping"})
      BY <2>9, CommitterMoves
    <3>2. intent = c /\ Virgin(c)
      BY <3>1 DEF Moves, LockInv, CommitOwnsIntent, Committing, ProgressInv
    <3>3. UNCHANGED <<file, intent, snap, new>>
      BY <2>9 DEF WriteIntentFails
    <3>4. QED BY <3>1, <3>2, <3>3, BackupFresh DEF Moves
  <2>10. CASE CheckPending(c)
    <3>1. Moves(c, "check", {"replace", "undo"}) /\ at' = at
      BY <2>10, CommitterMoves
    <3>2. UNCHANGED <<file, intent, whole, snap, new>>
      BY <2>10 DEF CheckPending
    <3>3. QED BY <3>1, <3>2, BackupKept DEF Moves, Recoverable
  <2>11. CASE ReplaceFile(c)
    <3>1. Moves(c, "replace", {"check", "record"})
      BY <2>11, CommitterMoves
    <3>2. intent \in Committers /\ whole /\ \E k \in 1..5 : Shape(intent, k)
      BY <3>1 DEF Moves, ProgressInv, LockInv, CommitOwnsIntent, WholePhases, Committing
    <3>3. Recoverable BY <3>2, ShapeRecoverable
    <3>4. UNCHANGED <<intent, snap>> BY <2>11 DEF ReplaceFile
    <3>5. QED BY <3>1, <3>3, <3>4, BackupKept DEF Moves
  <2>12. CASE ReplaceFails(c)
    <3>1. Moves(c, "replace", {"undo"})
      BY <2>12, CommitterMoves
    <3>2. UNCHANGED <<file, intent, whole, snap, new>>
      BY <2>12 DEF ReplaceFails
    <3>3. QED BY <3>1, <3>2, BackupKept DEF Moves, Recoverable
  <2>13. CASE RecordSuccess(c)
    <3>1. Moves(c, "record", {"unlink"})
      BY <2>13, CommitterMoves
    <3>2. UNCHANGED <<file, intent, whole, snap, new>>
      BY <2>13 DEF RecordSuccess
    <3>3. QED BY <3>1, <3>2, BackupKept DEF Moves, Recoverable
  <2>14. CASE RecordFails(c)
    <3>1. Moves(c, "record", {"stopping"})
      BY <2>14, CommitterMoves
    <3>2. UNCHANGED <<file, intent, whole, snap, new>>
      BY <2>14 DEF RecordFails
    <3>3. QED BY <3>1, <3>2, BackupKept DEF Moves, Recoverable
  <2>15. CASE Finish(c)
    <3>1. intent' = NoIntent BY <2>15 DEF Finish
    <3>2. QED BY <3>1 DEF BackupsPublished, Recoverable
  <2>16. CASE Stop(c)
    <3>1. Moves(c, "stopping", {"stopped"})
      BY <2>16, CommitterMoves
    <3>2. UNCHANGED <<file, intent, whole, snap, new>>
      BY <2>16 DEF Stop
    <3>3. QED BY <3>1, <3>2, BackupKept DEF Moves, Recoverable
  <2>17. QED
    BY <1>1, <2>1, <2>2, <2>3, <2>4, <2>5, <2>6, <2>7, <2>8, <2>9, <2>10, <2>11, <2>12, <2>13, <2>14, <2>15, <2>16 DEF CommitterStep
<1>2. ASSUME NEW p \in Procs, RecoveryStep(p) PROVE BackupsPublished'
  <2>1. CASE ReadIntent(p)
    <3>1. Moves(p, "undo", {"validate", IF p \in Operators THEN "idle" ELSE "stopping"})
      BY <2>1, RecoveryMoves
    <3>2. UNCHANGED <<file, intent, whole, snap, new>>
      BY <2>1 DEF ReadIntent
    <3>3. QED BY <3>1, <3>2, BackupKept DEF Moves, Recoverable
  <2>2. CASE Validate(p)
    <3>1. Moves(p, "validate", {"restore", IF p \in Operators THEN "idle" ELSE "stopping"})
      BY <2>2, RecoveryMoves
    <3>2. UNCHANGED <<file, intent, whole, snap, new>>
      BY <2>2 DEF Validate
    <3>3. QED BY <3>1, <3>2, BackupKept DEF Moves, Recoverable
  <2>3. CASE RestoreFile(p)
    <3>1. Moves(p, "restore", {"restore", "clear"})
      BY <2>3, RecoveryMoves
    <3>2. intent \in Committers /\ whole /\ \E k \in 1..5 : Shape(intent, k)
      BY <3>1, OnlyOwner DEF Moves, ProgressInv, LockInv, Committing
    <3>3. Recoverable BY <3>2, ShapeRecoverable
    <3>4. UNCHANGED <<intent, snap>> BY <2>3 DEF RestoreFile
    <3>5. QED BY <3>1, <3>3, <3>4, BackupKept DEF Moves
  <2>4. CASE RestoreFails(p)
    <3>1. Moves(p, "restore", {IF p \in Operators THEN "idle" ELSE "stopping"})
      BY <2>4, RecoveryMoves
    <3>2. UNCHANGED <<file, intent, whole, snap, new>>
      BY <2>4 DEF RestoreFails
    <3>3. QED BY <3>1, <3>2, BackupKept DEF Moves, Recoverable
  <2>5. CASE ClearIntent(p)
    <3>1. intent' = NoIntent BY <2>5 DEF ClearIntent
    <3>2. QED BY <3>1 DEF BackupsPublished, Recoverable
  <2>6. QED
    BY <1>2, <2>1, <2>2, <2>3, <2>4, <2>5 DEF RecoveryStep
<1>3. ASSUME NEW o \in Operators, StartRecover(o) PROVE BackupsPublished'
  <2>1. Moves(o, "idle", {"undo"})
    BY <1>3, OtherMoves
  <2>2. UNCHANGED <<file, intent, whole, snap, new>>
    BY <1>3 DEF StartRecover
  <2>3. QED BY <2>1, <2>2, BackupKept DEF Moves, Recoverable
<1>4. ASSUME NEW p \in Procs, Crash(p) PROVE BackupsPublished'
  <2>1. pc[p] \notin Gone /\ Moves(p, pc[p], {IF p \in Operators THEN "idle" ELSE "crashed"})
    BY <1>4, OtherMoves
  <2>2. UNCHANGED <<file, intent, whole, snap, new>>
    BY <1>4 DEF Crash
  <2>3. QED BY <2>1, <2>2, BackupKept DEF Moves, Recoverable, Gone
<1>5. ASSUME NEW f \in Files, NEW e \in Edits, EditSetting(f, e) PROVE BackupsPublished'
  <2>1. intent' = NoIntent
    BY <1>5 DEF EditSetting, Disciplined
  <2>2. QED BY <2>1 DEF BackupsPublished, Recoverable
<1>6. CASE UNCHANGED vars
  <2>1. UNCHANGED <<file, intent, whole, pc, snap, new>>
    BY <1>6 DEF vars
  <2>2. QED BY <2>1 DEF BackupsPublished, Recoverable
<1>7. QED
  BY <1>1, <1>2, <1>3, <1>4, <1>5, <1>6, NextCases
-----------------------------------------------------------------------------
\* The invariant holds at the start and every step keeps it.
LEMMA InitIInv == ASSUME Init PROVE IInv
<1>1. intent = NoIntent /\ whole = FALSE /\ file \in [Files -> {Initial, Absent}]
  BY DEF Init
<1>2. \A p \in Procs : pc[p] = "idle"
  BY DEF Init
<1>3. LockInv
  BY <1>1, <1>2, ProcFacts DEF LockInv, CommitOwnsIntent, Committing, WholePhases
<1>4. \A f \in Files, c \in Committers : file[f] # c /\ snap[c][f] = file[f]
  BY <1>1, ProcFacts DEF Init
<1>5. OriginInv
  <2>1. \A c \in Committers : ~(pc[c] \in {"assert", "open"} \/ intent = c)
    BY <1>1, <1>2, ProcFacts
  <2>2. \A c \in Committers : manifest[c] # "STOPPED"
    BY DEF Init
  <2>3. QED BY <1>4, <2>1, <2>2 DEF OriginInv
<1>6. ProgressInv
  BY <1>1, <1>2, ProcFacts DEF ProgressInv
<1>7. BackupsPublished
  BY <1>1 DEF BackupsPublished, Recoverable
<1>8. QED
  BY <1>3, <1>5, <1>6, <1>7, TypeInit DEF IInv

(* The inductive invariant: whatever crashes, fails and interleaves, the    *)
(* pending commit has one owner and a known shape, and a rollback restores  *)
(* only published bytes.                                                    *)
THEOREM Invariance == ASSUME Disciplined PROVE Spec => []IInv
<1>1. Init => IInv
  BY InitIInv
<1>2. IInv /\ [Next]_vars => IInv'
  BY TypeStep, LockStep, OriginStep, ProgressStep, BackupStep DEF IInv
<1>3. QED
  BY <1>1, <1>2, PTL DEF Spec

-----------------------------------------------------------------------------
(* The types of the state, and with them that a process only ever touches   *)
(* files it knows: TypeOK of the runs, for every number of processes.       *)
THEOREM TypeCorrect == ASSUME Disciplined PROVE Spec => []TypeOK
<1>1. IInv => TypeOK
  BY DEF IInv
<1>2. QED
  BY <1>1, Invariance, PTL

(* Two commits, or a commit and its rollback, never overlap, although the   *)
(* unlinks in run_continuous_refresh and recover_admin name no owner.       *)
THEOREM IntentIsALock == ASSUME Disciplined PROVE Spec => []CommitOwnsIntent
<1>1. IInv => CommitOwnsIntent
  BY DEF IInv, LockInv
<1>2. QED
  BY <1>1, Invariance, PTL

(* A pointer that names a new bundle is never ahead of the registration of  *)
(* that bundle, in any intermediate or crashed directory.                   *)
THEOREM PointerLast == ASSUME Disciplined PROVE Spec => []PointerImpliesRegistration
<1>1. ASSUME IInv, intent \in Runs, whole, Carried(intent, Pointer)
      PROVE  \A f \in CommitSet : Carried(intent, f)
  <2>1. intent \in Committers
    BY <1>1 DEF Committers
  <2>2. file[Pointer] = intent /\ snap[intent][Pointer] # intent
    BY <1>1, <2>1, FileFacts DEF IInv, OriginInv, Carried
  <2>3. PICK k \in 1..5 : Shape(intent, k)
    BY <1>1, <2>1, <2>2, FileFacts, ProcFacts DEF IInv, ProgressInv, Virgin
  <2>4. k = 5
    <3>1. 4 \in 1..4 OBVIOUS
    <3>2. ~(4 < k) => file[CommitFiles[4]] = snap[intent][CommitFiles[4]]
      BY <2>3, <3>1 DEF Shape
    <3>3. 4 < k BY <2>2, <3>2, FileFacts
    <3>4. QED BY <2>3, <3>3
  <2>5. \A i \in 1..4 : file[CommitFiles[i]] = new[intent][CommitFiles[i]]
    BY <2>3, <2>4 DEF Shape
  <2>6. QED
    BY <2>5, FileFacts DEF Carried
<1>2. IInv => PointerImpliesRegistration
  BY <1>1 DEF PointerImpliesRegistration
<1>3. QED
  BY <1>2, Invariance, PTL

(* A run whose manifest says STOPPED has left nothing of itself in the      *)
(* settings: the claim its impact text makes to the operator.               *)
THEOREM StoppedIsHarmless == ASSUME Disciplined PROVE Spec => []StoppedLeavesPrior
<1>1. ASSUME IInv, NEW r \in Runs, manifest[r] = "STOPPED", NEW f \in Files, file[f] = r
      PROVE  FALSE
  <2>1. r \in Committers
    BY DEF Committers
  <2>2. pc[r] = "stopped" /\ intent # r
    BY <1>1, <2>1 DEF IInv, OriginInv
  <2>3. pc[r] = "done" \/ intent = r
    BY <1>1, <2>1 DEF IInv, OriginInv
  <2>4. QED BY <2>2, <2>3
<1>2. IInv => StoppedLeavesPrior
  BY <1>1 DEF StoppedLeavesPrior
<1>3. QED
  BY <1>2, Invariance, PTL
-----------------------------------------------------------------------------
\* The one register: what a reader that discounts a pending commit sees.

\* While a commit or its rollback is between its old and new bytes, the old ones.
LEMMA StableShape ==
  ASSUME intent \in Committers, NEW k \in 1..5, Shape(intent, k), whole
  PROVE  \A f \in Files :
           Stable(f) = IF f \in CommitSet THEN snap[intent][f] ELSE file[f]
<1>1. \A f \in CommitSet : file[f] = new[intent][f] \/ file[f] = snap[intent][f]
  BY FileFacts DEF Shape
<1>2. QED
  BY <1>1, ProcFacts DEF Stable

\* Before its first replacement, the files themselves.
LEMMA StableVirgin ==
  ASSUME OriginInv, intent \in Committers, Virgin(intent)
  PROVE  \A f \in Files : Stable(f) = file[f]
<1>1. ASSUME NEW f \in CommitSet, file[f] = new[intent][f]
      PROVE  file[f] = snap[intent][f]
  BY <1>1, FileFacts DEF OriginInv, Virgin
<1>2. QED
  BY <1>1 DEF Stable

\* The abstract state does not change.
Still == /\ UNCHANGED snap
         /\ \A f \in Files : Stable(f)' = Stable(f)
         /\ \A c \in Committers : pc[c] = "done" <=> pc'[c] = "done"

\* A step that leaves the files, the intent and its owner's copies alone.
LEMMA StillKept ==
  ASSUME TypeOK, UNCHANGED <<file, intent, whole, snap>>,
         intent \in Committers => new'[intent] = new[intent],
         \A c \in Committers : pc[c] = "done" <=> pc'[c] = "done"
  PROVE  Still
<1>1. intent # NoIntent => intent \in Committers
  BY DEF TypeOK
<1>2. \A f \in Files : Stable(f)' = Stable(f)
  BY <1>1 DEF Stable
<1>3. QED
  BY <1>2 DEF Still

\* The end of a successful commit is the publication of all it replaced.
LEMMA FinishPublishes ==
  ASSUME IInv, NEW c \in Committers, Finish(c)
  PROVE  /\ intent = c /\ pc[c] = "unlink" /\ pc' = [pc EXCEPT ![c] = "done"]
         /\ \A f \in CommitSet : Stable(f) = snap[c][f] /\ file[f] = new[c][f]
         /\ \A f \in Files : Stable(f)' = file[f]
<1>1. pc[c] = "unlink" /\ intent = c /\ whole /\ Shape(c, 5)
  BY DEF Finish, IInv, LockInv, CommitOwnsIntent, Committing, WholePhases, ProgressInv
<1>2. \A f \in CommitSet : file[f] = new[c][f]
  <2>1. \A i \in 1..4 : file[CommitFiles[i]] = new[c][CommitFiles[i]]
    BY <1>1 DEF Shape
  <2>2. QED BY <2>1, FileFacts
<1>3. \A f \in CommitSet : Stable(f) = snap[c][f]
  <2>1. 5 \in 1..5 OBVIOUS
  <2>2. QED BY <1>1, <2>1, StableShape, FileFacts
<1>4. intent' = NoIntent /\ UNCHANGED file /\ pc' = [pc EXCEPT ![c] = "done"]
  BY <1>1, ProcFacts DEF Finish, GoTo
<1>5. \A f \in Files : Stable(f)' = file[f]
  BY <1>4 DEF Stable
<1>6. QED
  BY <1>1, <1>2, <1>3, <1>4, <1>5

\* A look at a file, the end of a commit, an edit, or a step that is invisible
\* in the register.
StepKind ==
  \/ Still
  \/ \E c \in Committers : ReadSetting(c)
  \/ \E c \in Committers : Finish(c)
  \/ \E f \in Files, e \in Edits : EditSetting(f, e)

LEMMA StepKinds ==
  ASSUME Disciplined, IInv, [Next]_vars PROVE StepKind
<1> USE ProcFacts
<1>1. ASSUME NEW c \in Committers, CommitterStep(c) PROVE StepKind
  <2>1. CASE Begin(c)
    <3>1. Moves(c, "idle", {"snapshot", "stopped"})
      BY <2>1, CommitterMoves DEF IInv
    <3>2. UNCHANGED <<file, intent, whole, snap, new>>
      BY <2>1 DEF Begin
    <3>3. Still
      BY <3>1, <3>2, StillKept, ProcFacts DEF Moves, IInv
    <3>4. QED BY <3>3 DEF StepKind
  <2>2. CASE ReadSetting(c)
    BY <2>2 DEF StepKind
  <2>3. CASE Prepare(c)
    <3>1. Moves(c, "produce", {"assert"})
      BY <2>3, CommitterMoves DEF IInv
    <3>2. UNCHANGED <<file, intent, whole, snap>> /\ intent # c
      BY <2>3, <3>1 DEF Prepare, Moves, IInv, LockInv, NotYet
    <3>3. \A d \in Committers : d # c => new'[d] = new[d]
      BY <2>3 DEF Prepare, IInv, TypeOK
    <3>4. Still
      BY <3>1, <3>2, <3>3, StillKept, ProcFacts DEF Moves, IInv
    <3>5. QED BY <3>4 DEF StepKind
  <2>4. CASE PrepareResume(c)
    <3>1. Moves(c, "produce", {"assert"})
      BY <2>4, CommitterMoves DEF IInv
    <3>2. UNCHANGED <<file, intent, whole, snap>> /\ intent # c
      BY <2>4, <3>1 DEF PrepareResume, Moves, IInv, LockInv, NotYet
    <3>3. \A d \in Committers : d # c => new'[d] = new[d]
      BY <2>4 DEF PrepareResume, IInv, TypeOK
    <3>4. Still
      BY <3>1, <3>2, <3>3, StillKept, ProcFacts DEF Moves, IInv
    <3>5. QED BY <3>4 DEF StepKind
  <2>5. CASE PrepareFails(c)
    <3>1. Moves(c, "produce", {"stopping"})
      BY <2>5, CommitterMoves DEF IInv
    <3>2. UNCHANGED <<file, intent, whole, snap, new>>
      BY <2>5 DEF PrepareFails
    <3>3. Still
      BY <3>1, <3>2, StillKept, ProcFacts DEF Moves, IInv
    <3>4. QED BY <3>3 DEF StepKind
  <2>6. CASE AssertUnchanged(c)
    <3>1. Moves(c, "assert", {"stopping", "assert", "open"})
      BY <2>6, CommitterMoves DEF IInv
    <3>2. UNCHANGED <<file, intent, whole, snap, new>>
      BY <2>6 DEF AssertUnchanged
    <3>3. Still
      BY <3>1, <3>2, StillKept, ProcFacts DEF Moves, IInv
    <3>4. QED BY <3>3 DEF StepKind
  <2>7. CASE OpenIntent(c)
    <3>1. Moves(c, "open", {"write", "stopping"})
      BY <2>7, CommitterMoves DEF IInv
    <3>2. CASE intent = NoIntent
      <4>1. ~whole' /\ UNCHANGED <<file, snap>> BY <2>7, <3>2 DEF OpenIntent
      <4>2. \A f \in Files : Stable(f)' = Stable(f)
        BY <3>2, <4>1 DEF Stable
      <4>3. QED BY <3>1, <4>1, <4>2, ProcFacts DEF Still, StepKind, Moves
    <3>3. CASE intent # NoIntent
      <4>1. UNCHANGED <<file, intent, whole, snap, new>>
        BY <2>7, <3>3 DEF OpenIntent
      <4>2. Still BY <3>1, <4>1, StillKept, ProcFacts DEF Moves, IInv
      <4>3. QED BY <4>2 DEF StepKind
    <3>4. QED BY <3>2, <3>3
  <2>8. CASE WriteIntent(c)
    <3>1. Moves(c, "write", {"check"}) /\ at'[c] = 1
      BY <2>8, CommitterMoves DEF IInv
    <3>2. intent = c /\ Virgin(c) /\ OriginInv
      BY <3>1 DEF Moves, IInv, LockInv, CommitOwnsIntent, Committing, ProgressInv
    <3>3. UNCHANGED <<file, intent, snap, new>>
      BY <2>8 DEF WriteIntent
    <3>4. \A f \in Files : Stable(f) = file[f]
      BY <3>2, StableVirgin
    <3>5. ASSUME NEW f \in CommitSet, file[f] = new[c][f] PROVE file[f] = snap[c][f]
      BY <3>2, <3>5, FileFacts DEF OriginInv, Virgin
    <3>6. \A f \in Files : Stable(f)' = file[f]
      BY <3>2, <3>3, <3>5 DEF Stable
    <3>7. QED BY <3>1, <3>3, <3>4, <3>6, ProcFacts DEF Still, StepKind, Moves
  <2>9. CASE WriteIntentFails(c)
    <3>1. Moves(c, "write", {"stopping"})
      BY <2>9, CommitterMoves DEF IInv
    <3>2. intent = c /\ Virgin(c) /\ OriginInv
      BY <3>1 DEF Moves, IInv, LockInv, CommitOwnsIntent, Committing, ProgressInv
    <3>3. UNCHANGED <<file, intent, snap, new>>
      BY <2>9 DEF WriteIntentFails
    <3>4. \A f \in Files : Stable(f) = file[f]
      BY <3>2, StableVirgin
    <3>5. ASSUME NEW f \in CommitSet, file[f] = new[c][f] PROVE file[f] = snap[c][f]
      BY <3>2, <3>5, FileFacts DEF OriginInv, Virgin
    <3>6. \A f \in Files : Stable(f)' = file[f]
      BY <3>2, <3>3, <3>5 DEF Stable
    <3>7. QED BY <3>1, <3>3, <3>4, <3>6, ProcFacts DEF Still, StepKind, Moves
  <2>10. CASE CheckPending(c)
    <3>1. Moves(c, "check", {"replace", "undo"}) /\ at' = at
      BY <2>10, CommitterMoves DEF IInv
    <3>2. UNCHANGED <<file, intent, whole, snap, new>>
      BY <2>10 DEF CheckPending
    <3>3. Still
      BY <3>1, <3>2, StillKept, ProcFacts DEF Moves, IInv
    <3>4. QED BY <3>3 DEF StepKind
  <2>11. CASE ReplaceFile(c)
    <3>1. Moves(c, "replace", {"check", "record"})
      BY <2>11, CommitterMoves DEF IInv
    <3>2. intent = c /\ whole /\ at[c] \in 1..4 /\ at[c] \in 1..5 /\ Shape(c, at[c])
      BY <3>1 DEF Moves, IInv, ProgressInv, LockInv, CommitOwnsIntent, WholePhases, Committing
    <3>3. CommitFiles[at[c]] \in CommitSet /\ CommitFiles[at[c]] \in Files
      BY <3>2, FileFacts
    <3>4. /\ UNCHANGED <<intent, whole, snap, new>>
          /\ \A f \in Files : file'[f] = IF f = CommitFiles[at[c]] THEN new[c][f] ELSE file[f]
      BY <2>11, <3>3 DEF ReplaceFile, IInv, TypeOK
    <3>5. \A f \in CommitSet : file[f] = new[c][f] \/ file[f] = snap[c][f]
      BY <3>2, FileFacts DEF Shape
    <3>6. \A f \in Files : Stable(f) = IF f \in CommitSet THEN snap[c][f] ELSE file[f]
      BY <3>2, StableShape
    <3>7. \A f \in Files : Stable(f)' = IF f \in CommitSet THEN snap[c][f] ELSE file[f]
      BY <3>2, <3>3, <3>4, <3>5, FileFacts DEF Stable
    <3>8. QED BY <3>1, <3>4, <3>6, <3>7, ProcFacts DEF Still, StepKind, Moves
  <2>12. CASE ReplaceFails(c)
    <3>1. Moves(c, "replace", {"undo"})
      BY <2>12, CommitterMoves DEF IInv
    <3>2. UNCHANGED <<file, intent, whole, snap, new>>
      BY <2>12 DEF ReplaceFails
    <3>3. Still
      BY <3>1, <3>2, StillKept, ProcFacts DEF Moves, IInv
    <3>4. QED BY <3>3 DEF StepKind
  <2>13. CASE RecordSuccess(c)
    <3>1. Moves(c, "record", {"unlink"})
      BY <2>13, CommitterMoves DEF IInv
    <3>2. UNCHANGED <<file, intent, whole, snap, new>>
      BY <2>13 DEF RecordSuccess
    <3>3. Still
      BY <3>1, <3>2, StillKept, ProcFacts DEF Moves, IInv
    <3>4. QED BY <3>3 DEF StepKind
  <2>14. CASE RecordFails(c)
    <3>1. Moves(c, "record", {"stopping"})
      BY <2>14, CommitterMoves DEF IInv
    <3>2. UNCHANGED <<file, intent, whole, snap, new>>
      BY <2>14 DEF RecordFails
    <3>3. Still
      BY <3>1, <3>2, StillKept, ProcFacts DEF Moves, IInv
    <3>4. QED BY <3>3 DEF StepKind
  <2>15. CASE Finish(c)
    BY <2>15 DEF StepKind
  <2>16. CASE Stop(c)
    <3>1. Moves(c, "stopping", {"stopped"})
      BY <2>16, CommitterMoves DEF IInv
    <3>2. UNCHANGED <<file, intent, whole, snap, new>>
      BY <2>16 DEF Stop
    <3>3. Still
      BY <3>1, <3>2, StillKept, ProcFacts DEF Moves, IInv
    <3>4. QED BY <3>3 DEF StepKind
  <2>17. QED
    BY <1>1, <2>1, <2>2, <2>3, <2>4, <2>5, <2>6, <2>7, <2>8, <2>9, <2>10, <2>11, <2>12, <2>13, <2>14, <2>15, <2>16 DEF CommitterStep
<1>2. ASSUME NEW p \in Procs, RecoveryStep(p) PROVE StepKind
  <2>1. CASE ReadIntent(p)
    <3>1. Moves(p, "undo", {"validate", IF p \in Operators THEN "idle" ELSE "stopping"})
      BY <2>1, RecoveryMoves DEF IInv
    <3>2. UNCHANGED <<file, intent, whole, snap, new>>
      BY <2>1 DEF ReadIntent
    <3>3. Still
      BY <3>1, <3>2, StillKept, ProcFacts DEF Moves, IInv
    <3>4. QED BY <3>3 DEF StepKind
  <2>2. CASE Validate(p)
    <3>1. Moves(p, "validate", {"restore", IF p \in Operators THEN "idle" ELSE "stopping"})
      BY <2>2, RecoveryMoves DEF IInv
    <3>2. UNCHANGED <<file, intent, whole, snap, new>>
      BY <2>2 DEF Validate
    <3>3. Still
      BY <3>1, <3>2, StillKept, ProcFacts DEF Moves, IInv
    <3>4. QED BY <3>3 DEF StepKind
  <2>3. CASE RestoreFile(p)
    <3>1. Moves(p, "restore", {"restore", "clear"})
      BY <2>3, RecoveryMoves DEF IInv
    <3>2. intent \in Committers /\ whole /\ claimed[p] = intent
      BY <3>1, OnlyOwner DEF Moves, IInv, LockInv, Committing
    <3>a. PICK k \in 1..(at[p] + 1) : Shape(intent, k) /\ at[p] \in 1..4
      BY <3>1 DEF Moves, IInv, ProgressInv
    <3>b. k \in 1..5 BY <3>a
    <3>3. CommitFiles[at[p]] \in CommitSet /\ CommitFiles[at[p]] \in Files
      BY <3>a, FileFacts
    <3>4. /\ UNCHANGED <<intent, whole, snap, new>>
          /\ \A f \in Files :
               file'[f] = IF f = CommitFiles[at[p]] THEN snap[intent][f] ELSE file[f]
      BY <2>3, <3>2, <3>3 DEF RestoreFile, IInv, TypeOK
    <3>5. \A f \in CommitSet : file[f] = new[intent][f] \/ file[f] = snap[intent][f]
      BY <3>a, <3>b, FileFacts DEF Shape
    <3>6. \A f \in Files : Stable(f) = IF f \in CommitSet THEN snap[intent][f] ELSE file[f]
      BY <3>2, <3>a, <3>b, StableShape
    <3>7. \A f \in Files : Stable(f)' = IF f \in CommitSet THEN snap[intent][f] ELSE file[f]
      BY <3>2, <3>3, <3>4, <3>5, FileFacts DEF Stable
    <3>8. QED BY <3>1, <3>4, <3>6, <3>7, ProcFacts DEF Still, StepKind, Moves
  <2>4. CASE RestoreFails(p)
    <3>1. Moves(p, "restore", {IF p \in Operators THEN "idle" ELSE "stopping"})
      BY <2>4, RecoveryMoves DEF IInv
    <3>2. UNCHANGED <<file, intent, whole, snap, new>>
      BY <2>4 DEF RestoreFails
    <3>3. Still
      BY <3>1, <3>2, StillKept, ProcFacts DEF Moves, IInv
    <3>4. QED BY <3>3 DEF StepKind
  <2>5. CASE ClearIntent(p)
    <3>1. Moves(p, "clear", {IF p \in Operators THEN "idle" ELSE "stopping"})
      BY <2>5, RecoveryMoves DEF IInv
    <3>2. intent \in Committers /\ whole /\ Shape(intent, 1)
      BY <3>1, OnlyOwner DEF Moves, IInv, ProgressInv, LockInv, Committing
    <3>3. intent' = NoIntent /\ UNCHANGED <<file, snap>>
      BY <2>5 DEF ClearIntent
    <3>4. \A f \in CommitSet : file[f] = snap[intent][f]
      BY <3>2, FileFacts DEF Shape
    <3>5. \A f \in Files : Stable(f) = file[f]
      BY <3>4 DEF Stable
    <3>6. \A f \in Files : Stable(f)' = file[f]
      BY <3>3 DEF Stable
    <3>7. QED BY <3>1, <3>3, <3>5, <3>6, ProcFacts DEF Still, StepKind, Moves
  <2>6. QED
    BY <1>2, <2>1, <2>2, <2>3, <2>4, <2>5 DEF RecoveryStep
<1>3. ASSUME NEW o \in Operators, StartRecover(o) PROVE StepKind
  <2>1. Moves(o, "idle", {"undo"}) /\ o \in Procs
    BY <1>3, OtherMoves DEF IInv
  <2>2. UNCHANGED <<file, intent, whole, snap, new>>
    BY <1>3 DEF StartRecover
  <2>3. Still BY <2>1, <2>2, StillKept, ProcFacts DEF Moves, IInv
  <2>4. QED BY <2>3 DEF StepKind
<1>4. ASSUME NEW p \in Procs, Crash(p) PROVE StepKind
  <2>1. /\ pc[p] \notin Gone
        /\ Moves(p, pc[p], {IF p \in Operators THEN "idle" ELSE "crashed"})
    BY <1>4, OtherMoves DEF IInv
  <2>2. UNCHANGED <<file, intent, whole, snap, new>>
    BY <1>4 DEF Crash
  <2>3. Still BY <2>1, <2>2, StillKept, ProcFacts DEF Moves, IInv, Gone
  <2>4. QED BY <2>3 DEF StepKind
<1>5. ASSUME NEW f \in Files, NEW e \in Edits, EditSetting(f, e) PROVE StepKind
  <2>1. \E g \in Files, v \in Edits : EditSetting(g, v)
    BY <1>5, Zenon
  <2>2. QED BY <2>1 DEF StepKind
<1>6. CASE UNCHANGED vars
  <2>1. UNCHANGED <<file, intent, whole, pc, snap, new>>
    BY <1>6 DEF vars
  <2>2. Still BY <2>1, StillKept DEF IInv
  <2>3. QED BY <2>2 DEF StepKind
<1>7. QED
  BY <1>1, <1>2, <1>3, <1>4, <1>5, <1>6, NextCases

(* Every behaviour of the commit protocol, with crashes, failing operations *)
(* and recoveries, is one of a single atomic register: this covers every    *)
(* number of runs, where the runs admin_quiet and admin_resume cover two.   *)
THEOREM CommitIsAtomic == ASSUME Disciplined PROVE Spec => AtomicRegistration
<1>1. ASSUME Init PROVE Atomic!Init
  <2>1. intent = NoIntent /\ file \in [Files -> {Initial, Absent}]
    BY <1>1 DEF Init
  <2>2. [f \in Files |-> Stable(f)] \in [Files -> {Initial, Absent}]
    BY <2>1 DEF Stable
  <2>3. {c \in Committers : pc[c] = "done"} = {}
    BY <1>1, ProcFacts DEF Init
  <2>4. snap = [c \in Committers |-> [f \in Files |-> Stable(f)]]
    BY <1>1, <2>1 DEF Init, Stable
  <2>5. QED BY <2>2, <2>3, <2>4 DEF Atomic!Init
<1>2. ASSUME IInv, NEW c \in Committers, Finish(c) PROVE Atomic!Next
  <2>1. /\ intent = c /\ pc[c] = "unlink" /\ pc' = [pc EXCEPT ![c] = "done"]
        /\ \A f \in CommitSet : Stable(f) = snap[c][f] /\ file[f] = new[c][f]
        /\ \A f \in Files : Stable(f)' = file[f]
    BY <1>2, FinishPublishes
  <2>2. \A f \in CommitSet : new[c][f] = snap[c][f] \/ new[c][f] = c
    BY <1>2, <2>1 DEF IInv, OriginInv
  <2>3. {d \in Committers : pc'[d] = "done"} = {d \in Committers : pc[d] = "done"} \cup {c}
    BY <1>2, <2>1 DEF IInv, TypeOK, Procs
  <2> DEFINE S == {f \in CommitSet : new[c][f] = c}
  <2>4. S \in SUBSET CommitSet OBVIOUS
  <2>5. S # {} /\ (c \in Runs => {History, Pointer} \subseteq S)
    BY <1>2, <2>1, FileFacts, ProcFacts DEF IInv, OriginInv
  <2>6. \A f \in Files : Stable(f)' = IF f \in S THEN c ELSE Stable(f)
    <3>1. \A f \in Files : f \notin CommitSet => Stable(f) = file[f]
      BY DEF Stable
    <3>2. QED BY <2>1, <2>2, <3>1
  <2>7. [f \in Files |-> Stable(f)]' =
          [f \in Files |-> IF f \in S THEN c ELSE [g \in Files |-> Stable(g)][f]]
    BY <2>6
  <2>8. \A f \in CommitSet : [g \in Files |-> Stable(g)][f] = snap[c][f]
    BY <2>1, FileFacts
  <2>9. UNCHANGED snap
    BY <1>2 DEF Finish
  <2>10. Atomic!Publish(c)
    BY <2>1, <2>3, <2>4, <2>5, <2>7, <2>8, <2>9 DEF Atomic!Publish
  <2>11. QED BY <2>10 DEF Atomic!Next
<1>3. ASSUME Disciplined, IInv, NEW f \in Files, NEW e \in Edits, EditSetting(f, e)
      PROVE  Atomic!Next
  <2>1. intent = NoIntent /\ UNCHANGED <<intent, pc>> /\ file' = [file EXCEPT ![f] = e]
    BY <1>3 DEF EditSetting, Disciplined
  <2>2. \A g \in Files : Stable(g) = file[g] /\ Stable(g)' = IF g = f THEN e ELSE file[g]
    BY <1>3, <2>1 DEF Stable, IInv, TypeOK
  <2>3. [g \in Files |-> Stable(g)]' = [[g \in Files |-> Stable(g)] EXCEPT ![f] = e]
    BY <2>2
  <2>4. Atomic!Edit(f, e)
    BY <1>3, <2>1, <2>3 DEF Atomic!Edit, EditSetting
  <2>5. QED BY <2>4 DEF Atomic!Next
<1>4. ASSUME Still PROVE UNCHANGED Atomic!atomicVars
  <2>1. [f \in Files |-> Stable(f)]' = [f \in Files |-> Stable(f)]
    BY <1>4 DEF Still
  <2>2. {c \in Committers : pc[c] = "done"}' = {c \in Committers : pc[c] = "done"}
    BY <1>4 DEF Still
  <2>3. QED BY <1>4, <2>1, <2>2 DEF Atomic!atomicVars, Still
<1>5. ASSUME IInv, NEW c \in Committers, ReadSetting(c) PROVE Atomic!Next
  <2> DEFINE f == SnapshotFiles[at[c]]
  <2>1. f \in Files /\ file[f] \in Committers \cup Edits \cup {Initial, Absent}
    BY <1>5, FileFacts, ProcFacts DEF IInv, TypeOK, Content
  <2>2. snap' = [snap EXCEPT ![c][f] = file[f]] /\ UNCHANGED <<file, intent, whole, new>>
    BY <1>5 DEF ReadSetting
  <2>3. Moves(c, "snapshot", {"snapshot", "produce"}) /\ intent # c
    BY <1>5, CommitterMoves DEF IInv, Moves, LockInv, NotYet
  <2>4. \A g \in Files : Stable(g)' = Stable(g)
    <3>1. intent # NoIntent => snap'[intent] = snap[intent]
      BY <1>5, <2>2, <2>3 DEF IInv, TypeOK
    <3>2. QED BY <2>2, <3>1 DEF Stable
  <2>5. {d \in Committers : pc[d] = "done"}' = {d \in Committers : pc[d] = "done"}
    BY <2>3, ProcFacts DEF Moves
  <2>6. [g \in Files |-> Stable(g)]' = [g \in Files |-> Stable(g)]
    BY <2>4
  <2>7. c \notin {d \in Committers : pc[d] = "done"}
    BY <2>3 DEF Moves
  <2>8. Atomic!Look(c)
    BY <2>1, <2>2, <2>5, <2>6, <2>7 DEF Atomic!Look
  <2>9. QED BY <2>8 DEF Atomic!Next
<1>6. IInv /\ [Next]_vars => [Atomic!Next]_(Atomic!atomicVars)
  BY StepKinds, <1>2, <1>3, <1>4, <1>5 DEF StepKind
<1>7. QED
  BY <1>1, <1>6, Invariance, PTL DEF Spec, AtomicRegistration, Atomic!Spec

(* A commit that has replaced anything can be rolled back: nobody else's     *)
(* bytes ever lie between its old and its new ones.                         *)
THEOREM PartialIsRecoverable ==
  ASSUME Disciplined PROVE Spec => []PartialCommitIsRecoverable
<1>1. ASSUME IInv, intent # NoIntent, whole, NEW f \in Files, file[f] = intent
      PROVE  Recoverable
  <2>1. intent \in Committers
    BY <1>1 DEF IInv, TypeOK
  <2>2. PICK k \in 1..5 : Shape(intent, k)
    BY <1>1 DEF IInv, ProgressInv, Virgin
  <2>3. QED
    BY <1>1, <2>1, <2>2, ShapeRecoverable
<1>2. IInv => PartialCommitIsRecoverable
  BY <1>1 DEF PartialCommitIsRecoverable
<1>3. QED
  BY <1>2, Invariance, PTL

\* Who writes settings files.
LEMMA Writers ==
  ASSUME [Next]_vars
  PROVE  \/ UNCHANGED file
         \/ \E c \in Committers : ReplaceFile(c)
         \/ \E p \in Procs : RestoreFile(p)
         \/ \E f \in Files, e \in Edits : EditSetting(f, e)
<1>1. ASSUME NEW c \in Committers, CommitterStep(c)
      PROVE  UNCHANGED file \/ ReplaceFile(c)
  <2>1. Begin(c) \/ ReadSetting(c) \/ Prepare(c) \/ PrepareResume(c) => UNCHANGED file
    BY DEF Begin, ReadSetting, Prepare, PrepareResume
  <2>2. PrepareFails(c) \/ AssertUnchanged(c) \/ OpenIntent(c) \/ WriteIntent(c)
          => UNCHANGED file
    BY DEF PrepareFails, AssertUnchanged, OpenIntent, WriteIntent
  <2>3. WriteIntentFails(c) \/ CheckPending(c) \/ ReplaceFails(c) \/ RecordSuccess(c)
          => UNCHANGED file
    BY DEF WriteIntentFails, CheckPending, ReplaceFails, RecordSuccess
  <2>4. RecordFails(c) \/ Finish(c) \/ Stop(c) => UNCHANGED file
    BY DEF RecordFails, Finish, Stop
  <2>5. QED BY <1>1, <2>1, <2>2, <2>3, <2>4 DEF CommitterStep
<1>2. ASSUME NEW p \in Procs, RecoveryStep(p)
      PROVE  UNCHANGED file \/ RestoreFile(p)
  BY <1>2 DEF RecoveryStep, ReadIntent, Validate, RestoreFails, ClearIntent
<1>3. ASSUME NEW o \in Operators, StartRecover(o) PROVE UNCHANGED file
  BY <1>3 DEF StartRecover
<1>4. ASSUME NEW p \in Procs, Crash(p) PROVE UNCHANGED file
  BY <1>4 DEF Crash
<1>5. UNCHANGED vars => UNCHANGED file
  BY DEF vars
<1>6. QED
  BY <1>1, <1>2, <1>3, <1>4, <1>5, NextCases

(* What an administrator wrote is replaced only by a commit that was based  *)
(* on it, and brought back by no rollback of another commit.                *)
THEOREM EditsAreKept == ASSUME Disciplined PROVE Spec => EditsNotOverwritten
<1>1. ASSUME IInv, [Next]_vars, NEW f \in Files,
             file[f] \in Edits, file'[f] \notin Edits \cup {file[f]}
      PROVE  \E c \in Committers : intent = c /\ snap[c][f] = file[f]
  <2>1. CASE \E c \in Committers : ReplaceFile(c)
    <3>1. PICK c \in Committers : ReplaceFile(c) BY <2>1
    <3>2. intent = c /\ at[c] \in 1..4 /\ Shape(c, at[c])
      BY <1>1, <3>1 DEF ReplaceFile, IInv, ProgressInv, LockInv, CommitOwnsIntent, Committing
    <3>3. f = CommitFiles[at[c]]
      BY <1>1, <3>1, <3>2, FileFacts DEF ReplaceFile, IInv, TypeOK
    <3>4. QED BY <3>2, <3>3 DEF Shape
  <2>2. CASE \E p \in Procs : RestoreFile(p)
    <3>1. PICK p \in Procs : RestoreFile(p) BY <2>2
    <3>2. at[p] \in 1..4 /\ \E k \in 1..(at[p] + 1) : Shape(intent, k)
      BY <1>1, <3>1 DEF RestoreFile, IInv, ProgressInv
    <3>3. PICK k \in 1..5 : Shape(intent, k)
      BY <3>2
    <3>4. intent \in Committers
      BY <1>1, <3>1, OnlyOwner DEF RestoreFile, IInv, Committing
    <3>5. f = CommitFiles[at[p]] /\ f \in CommitSet
      BY <1>1, <3>1, <3>2, FileFacts DEF RestoreFile, IInv, TypeOK
    <3>6. file[f] = snap[intent][f] \/ file[f] = new[intent][f]
      BY <3>2, <3>3, <3>5 DEF Shape
    <3>7. new[intent][f] \in {snap[intent][f], intent} /\ file[f] # intent
      BY <1>1, <3>4, <3>5, ProcFacts DEF IInv, OriginInv
    <3>8. QED BY <3>4, <3>6, <3>7
  <2>3. CASE \E g \in Files, e \in Edits : EditSetting(g, e)
    BY <1>1, <2>3 DEF EditSetting, IInv, TypeOK
  <2>4. QED BY <1>1, <2>1, <2>2, <2>3, Writers
<1>2. IInv /\ [Next]_vars =>
        [\A f \in Files :
           file[f] \in Edits /\ file'[f] \notin Edits \cup {file[f]} =>
             \E c \in Committers : intent = c /\ snap[c][f] = file[f]]_vars
  BY <1>1
<1>3. QED
  BY <1>2, Invariance, PTL DEF Spec, EditsNotOverwritten
=============================================================================
