----------------------------- MODULE AdminCommit -----------------------------
(***************************************************************************)
(* The administrator commit of sec_xbrl.continuous_refresh.                *)
(*                                                                         *)
(* A directory of settings files is the registration every reader of the   *)
(* platform starts from.  A refresh run copies it, prepares a complete     *)
(* consumer publication privately (possibly for hours) and then replaces   *)
(* four of the files, the pointer to the publication last.  The file       *)
(* system has no multi-file transaction, so the run first creates an       *)
(* intent file, exclusively, that names the bytes before and after; a      *)
(* normal exception, or the recover command after a crash, rolls back.     *)
(*                                                                         *)
(* Committers are the processes of `run` (Runs) and `resume-reviewed`      *)
(* (Resumes); Operators are invocations of `recover`.  An action is one    *)
(* file-system operation of one process, so every interleaving and a crash *)
(* between any two operations are behaviours.  The bytes of a file are     *)
(* abstracted to who produced them: Initial, Absent (no such file), an     *)
(* administrator's edit, or the committer whose output they are.           *)
(***************************************************************************)
EXTENDS Naturals, Sequences

CONSTANTS
  Runs,              \* invocations of run_continuous_refresh, each a new workspace
  Resumes,           \* invocations of resume_reviewed_publication
  Operators,         \* invocations of recover_admin from the command line
  Edits,             \* contents an administrator, or another command, writes
  Editable,          \* the files those edits go to
  Initial, Absent,   \* the bytes before any commit; no file
  NoIntent,          \* no intent file
  EditWhilePending,  \* may a file be edited while an intent is pending?
  FollowAdvice,      \* does the operator recover as soon as a run says so?
  MaxFaults          \* bound on crashes and failing file operations

CommitFiles ==
  <<"companies.csv", "target_status.json", "u4_decision_history.json",
    "analysis_current.json">>
SnapshotFiles ==
  <<"companies.csv", "decisions.csv", "analysis_profiles.json",
    "target_status.json", "u4_decision_history.json", "analysis_current.json">>
CommitSet == {CommitFiles[i] : i \in 1..4}
Files     == {SnapshotFiles[i] : i \in 1..6}
History   == "u4_decision_history.json"
Pointer   == "analysis_current.json"

Committers == Runs \cup Resumes
Procs      == Committers \cup Operators
Content    == Committers \cup Edits \cup {Initial, Absent}

ASSUME AdminCommitAssumption ==
  /\ Runs \cap Resumes = {} /\ Committers \cap Operators = {}
  /\ Committers \cap (Edits \cup {Initial, Absent, NoIntent}) = {}
  /\ Initial # Absent /\ Edits \cap {Initial, Absent} = {}
  /\ Editable \subseteq Files
  /\ EditWhilePending \in BOOLEAN /\ FollowAdvice \in BOOLEAN
  /\ MaxFaults \in Nat

VARIABLES
  file,      \* the bytes of each settings file
  intent,    \* the committer whose intent file exists, or NoIntent
  whole,     \* has the intent file been written and flushed completely?
  pc,        \* the phase of each process
  at,        \* the index of the file a process works on
  snap,      \* the bytes each committer read at its start; its backups
  new,       \* the replacement bytes each committer prepared
  claimed,   \* the intent a recovery in progress has read
  manifest,  \* the durable outcome each committer recorded
  faults     \* crashes and failing file operations so far

vars == <<file, intent, whole, pc, at, snap, new, claimed, manifest, faults>>

Phases ==
  {"idle", "snapshot", "produce", "assert", "open", "write", "check", "replace",
   "record", "unlink", "done", "undo", "validate", "restore", "clear",
   "stopping", "stopped", "crashed"}
Gone == {"done", "stopped", "crashed"}

TypeOK ==
  /\ file \in [Files -> Content]
  /\ intent \in Committers \cup {NoIntent}
  /\ whole \in BOOLEAN
  /\ pc \in [Procs -> Phases]
  /\ at \in [Procs -> 1..6]
  /\ snap \in [Committers -> [Files -> Content]]
  /\ new \in [Committers -> [CommitSet -> Content]]
  /\ claimed \in [Procs -> Committers \cup {NoIntent}]
  /\ manifest \in [Committers -> {"NONE", "PUBLISHED", "STOPPED", "COMMIT_FINALIZATION_REQUIRED"}]
  /\ faults \in 0..MaxFaults

\* init_admin wrote the settings; history and pointer exist after a first publication.
Init ==
  /\ \E published \in BOOLEAN :
       file = [f \in Files |->
                 IF f \in {History, Pointer} /\ ~published THEN Absent ELSE Initial]
  /\ intent = NoIntent /\ whole = FALSE
  /\ pc = [p \in Procs |-> "idle"] /\ at = [p \in Procs |-> 1]
  /\ snap = [c \in Committers |-> file]
  /\ new = [c \in Committers |-> [f \in CommitSet |-> file[f]]]
  /\ claimed = [p \in Procs |-> NoIntent]
  /\ manifest = [c \in Committers |-> "NONE"]
  /\ faults = 0

\* Control moves of process p: to a phase, or to a phase at the file with index i.
GoTo(p, phase) ==
  /\ pc' = [pc EXCEPT ![p] = phase]
  /\ UNCHANGED at
GoToFile(p, phase, i) ==
  /\ pc' = [pc EXCEPT ![p] = phase]
  /\ at' = [at EXCEPT ![p] = i]

Fault == faults < MaxFaults /\ faults' = faults + 1

\* recover_admin raised or returned: the command ends, the run takes its except path.
LeaveRecovery(p) ==
  GoTo(p, IF p \in Operators THEN "idle" ELSE "stopping")
-----------------------------------------------------------------------------
\* A committer, from its start to the exclusive creation of its intent.

Begin(c) ==
  /\ pc[c] = "idle"
  /\ IF intent = NoIntent THEN GoToFile(c, "snapshot", 1) ELSE GoTo(c, "stopped")
  /\ UNCHANGED <<file, intent, whole, snap, new, claimed, manifest, faults>>

ReadSetting(c) ==
  LET i == at[c]
      f == SnapshotFiles[i]
  IN
  /\ pc[c] = "snapshot"
  /\ snap' = [snap EXCEPT ![c][f] = file[f]]
  /\ IF i < 6 THEN GoToFile(c, "snapshot", i + 1) ELSE GoToFile(c, "produce", 1)
  /\ UNCHANGED <<file, intent, whole, new, claimed, manifest, faults>>

\* The private producers ran and verified; what the run would write is decided.
Prepare(r) ==
  /\ r \in Runs /\ pc[r] = "produce"
  /\ \E companies \in {snap[r]["companies.csv"], r},
        status \in {snap[r]["target_status.json"], r} :
       new' = [new EXCEPT ![r] =
                 [f \in CommitSet |-> CASE f = "companies.csv" -> companies
                                        [] f = "target_status.json" -> status
                                        [] OTHER -> r]]
  /\ GoToFile(r, "assert", 1)
  /\ UNCHANGED <<file, intent, whole, snap, claimed, manifest, faults>>

\* The reviewed publication replaces the one the stopped run found registered.
PrepareResume(s) ==
  /\ s \in Resumes /\ pc[s] = "produce"
  /\ snap[s]["target_status.json"] # Absent /\ snap[s][Pointer] # Absent
  /\ new' = [new EXCEPT ![s] =
               [f \in CommitSet |->
                  IF f = Pointer \/ (f = History /\ snap[s][f] # Absent)
                  THEN snap[s][f] ELSE s]]
  /\ GoToFile(s, "assert", 1)
  /\ UNCHANGED <<file, intent, whole, snap, claimed, manifest, faults>>

\* A producer, a review gate, verification or a stale stopped run raises.
PrepareFails(c) ==
  /\ pc[c] = "produce"
  /\ GoTo(c, "stopping")
  /\ UNCHANGED <<file, intent, whole, snap, new, claimed, manifest, faults>>

AssertUnchanged(c) ==
  LET i == at[c]
      f == SnapshotFiles[i]
  IN
  /\ pc[c] = "assert"
  /\ IF file[f] # snap[c][f] THEN GoTo(c, "stopping")
     ELSE IF i < 6 THEN GoToFile(c, "assert", i + 1)
     ELSE GoToFile(c, "open", 1)
  /\ UNCHANGED <<file, intent, whole, snap, new, claimed, manifest, faults>>

\* Mutant: the intent is opened with "wb", so a second committer takes it over.
OpenIntentShared(c) ==
  /\ pc[c] = "open"
  /\ intent' = c /\ whole' = FALSE
  /\ GoTo(c, "write")
  /\ UNCHANGED <<file, snap, new, claimed, manifest, faults>>

OpenIntent(c) ==
  /\ pc[c] = "open"
  /\ IF intent = NoIntent
     THEN intent' = c /\ whole' = FALSE /\ GoTo(c, "write")
     ELSE UNCHANGED <<intent, whole>> /\ GoTo(c, "stopping")
  /\ UNCHANGED <<file, snap, new, claimed, manifest, faults>>

WriteIntent(c) ==
  /\ pc[c] = "write"
  /\ whole' = TRUE
  /\ GoToFile(c, "check", 1)
  /\ UNCHANGED <<file, intent, snap, new, claimed, manifest, faults>>

\* write, flush or fsync raises: no rollback covers this block.
WriteIntentFails(c) ==
  /\ pc[c] = "write" /\ Fault
  /\ whole' \in BOOLEAN
  /\ GoTo(c, "stopping")
  /\ UNCHANGED <<file, intent, snap, new, claimed, manifest>>
-----------------------------------------------------------------------------
\* The replacement loop, its success record, and the end of the command.

\* Mutant: the loop trusts the check made before the intent.
CheckPendingOmitted(c) ==
  /\ pc[c] = "check"
  /\ GoTo(c, "replace")
  /\ UNCHANGED <<file, intent, whole, snap, new, claimed, manifest, faults>>

\* The reads of this loop are one step: an edit between two of them is an edit
\* before or after it.
CheckPending(c) ==
  /\ pc[c] = "check"
  /\ IF \A i \in at[c]..4 : file[CommitFiles[i]] = snap[c][CommitFiles[i]]
     THEN GoTo(c, "replace") ELSE GoTo(c, "undo")
  /\ UNCHANGED <<file, intent, whole, snap, new, claimed, manifest, faults>>

ReplaceFile(c) ==
  LET i == at[c]
      f == CommitFiles[i]
  IN
  /\ pc[c] = "replace"
  /\ file' = [file EXCEPT ![f] = new[c][f]]
  /\ IF i < 4 THEN GoToFile(c, "check", i + 1) ELSE GoTo(c, "record")
  /\ UNCHANGED <<intent, whole, snap, new, claimed, manifest, faults>>

ReplaceFails(c) ==
  /\ pc[c] = "replace" /\ Fault
  /\ GoTo(c, "undo")
  /\ UNCHANGED <<file, intent, whole, snap, new, claimed, manifest>>

RecordSuccess(c) ==
  /\ pc[c] = "record"
  /\ manifest' = [manifest EXCEPT ![c] = "PUBLISHED"]
  /\ GoTo(c, "unlink")
  /\ UNCHANGED <<file, intent, whole, snap, new, claimed, faults>>

RecordFails(c) ==
  /\ pc[c] = "record" /\ Fault
  /\ GoTo(c, "stopping")
  /\ UNCHANGED <<file, intent, whole, snap, new, claimed, manifest>>

\* The unlink names no owner: it removes whatever intent is there, or raises.
Finish(c) ==
  /\ pc[c] = "unlink"
  /\ intent' = NoIntent /\ whole' = FALSE
  /\ GoTo(c, IF intent = NoIntent THEN "stopping" ELSE "done")
  /\ UNCHANGED <<file, snap, new, claimed, manifest, faults>>

\* Mutant: the except path does not look for a pending intent.
StopBlindly(c) ==
  /\ pc[c] = "stopping"
  /\ manifest' = [manifest EXCEPT ![c] = "STOPPED"]
  /\ GoTo(c, "stopped")
  /\ UNCHANGED <<file, intent, whole, snap, new, claimed, faults>>

\* The except path of a run; a resume has no manifest and only raises.
Stop(c) ==
  /\ pc[c] = "stopping"
  /\ manifest' =
       IF c \in Runs
       THEN [manifest EXCEPT ![c] =
               IF intent = NoIntent THEN "STOPPED" ELSE "COMMIT_FINALIZATION_REQUIRED"]
       ELSE manifest
  /\ GoTo(c, "stopped")
  /\ UNCHANGED <<file, intent, whole, snap, new, claimed, faults>>
-----------------------------------------------------------------------------
\* recover_admin, run in a failing committer or from the command line.

\* A careful operator recovers an intent whose process is gone, one command at
\* a time.  With FollowAdvice, the next_action of a stopped run is enough.
MayRecover ==
  IF FollowAdvice
  THEN \E r \in Runs : manifest[r] = "COMMIT_FINALIZATION_REQUIRED"
  ELSE /\ intent \in Committers /\ pc[intent] \in Gone
       /\ \A o \in Operators : pc[o] = "idle"

StartRecover(o) ==
  /\ o \in Operators /\ pc[o] = "idle"
  /\ intent # NoIntent /\ MayRecover
  /\ GoTo(o, "undo")
  /\ UNCHANGED <<file, intent, whole, snap, new, claimed, manifest, faults>>

ReadIntent(p) ==
  /\ pc[p] = "undo"
  /\ IF intent # NoIntent /\ whole
     THEN claimed' = [claimed EXCEPT ![p] = intent] /\ GoTo(p, "validate")
     ELSE UNCHANGED claimed /\ LeaveRecovery(p)
  /\ UNCHANGED <<file, intent, whole, snap, new, manifest, faults>>

Validate(p) ==
  LET c == claimed[p]
  IN
  /\ pc[p] = "validate"
  /\ IF \A f \in CommitSet : file[f] \in {snap[c][f], new[c][f]}
     THEN GoToFile(p, "restore", 4) ELSE LeaveRecovery(p)
  /\ UNCHANGED <<file, intent, whole, snap, new, claimed, manifest, faults>>

\* Mutant: the rollback goes through the files in the order of the commit.
RestoreFileForward(p) ==
  LET i == at[p]
      f == CommitFiles[5 - i]
  IN
  /\ pc[p] = "restore"
  /\ file' = [file EXCEPT ![f] = snap[claimed[p]][f]]
  /\ IF i > 1 THEN GoToFile(p, "restore", i - 1) ELSE GoTo(p, "clear")
  /\ UNCHANGED <<intent, whole, snap, new, claimed, manifest, faults>>

RestoreFile(p) ==
  LET i == at[p]
      f == CommitFiles[i]
  IN
  /\ pc[p] = "restore"
  /\ file' = [file EXCEPT ![f] = snap[claimed[p]][f]]
  /\ IF i > 1 THEN GoToFile(p, "restore", i - 1) ELSE GoTo(p, "clear")
  /\ UNCHANGED <<intent, whole, snap, new, claimed, manifest, faults>>

RestoreFails(p) ==
  /\ pc[p] = "restore" /\ Fault
  /\ LeaveRecovery(p)
  /\ UNCHANGED <<file, intent, whole, snap, new, claimed, manifest>>

\* Mutant: the restored directory keeps its intent.
ClearIntentForgotten(p) ==
  /\ pc[p] = "clear"
  /\ LeaveRecovery(p)
  /\ UNCHANGED <<file, intent, whole, snap, new, claimed, manifest, faults>>

ClearIntent(p) ==
  /\ pc[p] = "clear"
  /\ intent' = NoIntent /\ whole' = FALSE
  /\ LeaveRecovery(p)
  /\ UNCHANGED <<file, snap, new, claimed, manifest, faults>>
-----------------------------------------------------------------------------
\* The environment.

\* A process dies; what it wrote stays.  A recover command can be run again.
Crash(p) ==
  /\ pc[p] \notin Gone \cup {"idle"} /\ Fault
  /\ GoTo(p, IF p \in Operators THEN "idle" ELSE "crashed")
  /\ UNCHANGED <<file, intent, whole, snap, new, claimed, manifest>>

\* An administrator, or a command that does not look at the intent, rewrites a file.
EditSetting(f, e) ==
  /\ f \in Editable
  /\ EditWhilePending \/ intent = NoIntent
  /\ file' = [file EXCEPT ![f] = e]
  /\ UNCHANGED <<intent, whole, pc, at, snap, new, claimed, manifest, faults>>

CommitterStep(c) ==
  \/ Begin(c) \/ ReadSetting(c) \/ Prepare(c) \/ PrepareResume(c) \/ PrepareFails(c)
  \/ AssertUnchanged(c) \/ OpenIntent(c) \/ WriteIntent(c) \/ WriteIntentFails(c)
  \/ CheckPending(c) \/ ReplaceFile(c) \/ ReplaceFails(c)
  \/ RecordSuccess(c) \/ RecordFails(c) \/ Finish(c) \/ Stop(c)

RecoveryStep(p) ==
  ReadIntent(p) \/ Validate(p) \/ RestoreFile(p) \/ RestoreFails(p) \/ ClearIntent(p)

Next ==
  \/ \E c \in Committers : CommitterStep(c)
  \/ \E o \in Operators : StartRecover(o)
  \/ \E p \in Procs : RecoveryStep(p) \/ Crash(p)
  \/ \E f \in Files, e \in Edits : EditSetting(f, e)

Spec == Init /\ [][Next]_vars
-----------------------------------------------------------------------------
(* Properties.  Carried(c, f) says that file f holds the replacement bytes  *)
(* of committer c.                                                          *)

Carried(c, f) == file[f] = new[c][f]

\* What a recovery, or a reader that trusts only resolved commits, sees in file f.
Stable(f) ==
  IF intent # NoIntent /\ whole /\ f \in CommitSet /\ file[f] = new[intent][f]
  THEN snap[intent][f] ELSE file[f]

Committing == {"write", "check", "replace", "record", "unlink",
               "undo", "validate", "restore", "clear"}

(* The intent is a lock: a committer between the creation of its intent and *)
(* the end of its command or rollback owns the intent that is on disk, so   *)
(* no two commits, or a commit and a rollback of it, ever overlap.  Code:   *)
(* the "xb" creation in _commit_admin and the unlinks that name no owner.   *)
CommitOwnsIntent ==
  \A c \in Committers : pc[c] \in Committing => intent = c

(* A reader that follows a pointer to a new bundle finds the whole          *)
(* registration of that bundle, while the commit runs, after it crashed and *)
(* at every step of its rollback.  Code: COMMIT_FILES ends with the pointer *)
(* and recover_admin restores in reverse.                                   *)
PointerImpliesRegistration ==
  intent \in Runs /\ whole /\ Carried(intent, Pointer) =>
    \A f \in CommitSet : Carried(intent, f)

(* A run whose manifest says STOPPED left nothing of itself in the settings:*)
(* "No completed U4 publication was registered; the prior consumer remains  *)
(* authoritative."  Code: the except path of run_continuous_refresh.        *)
StoppedLeavesPrior ==
  \A r \in Runs : manifest[r] = "STOPPED" => \A f \in Files : file[f] # r

\* recover_admin accepts the pending intent: it parses, and every file holds the
\* bytes before or after.
Recoverable ==
  /\ intent # NoIntent /\ whole
  /\ \A f \in CommitSet : file[f] \in {snap[intent][f], new[intent][f]}

(* "a concurrent administrator edit fails without being overwritten": a     *)
(* step that is not an edit replaces only bytes its commit was based on.    *)
(* Code: the recheck before each replacement in _commit_admin.              *)
EditsNotOverwritten ==
  [][\A f \in Files :
       file[f] \in Edits /\ file'[f] \notin Edits \cup {file[f]} =>
         \E c \in Committers : intent = c /\ snap[c][f] = file[f]]_vars

(* Once a commit has replaced anything, recover accepts its intent: what it *)
(* had not yet replaced still is what it was based on, so the registration  *)
(* of another run never lies between its files.  Code: the recheck of       *)
(* _commit_admin and the validation of recover_admin.                       *)
PartialCommitIsRecoverable ==
  intent # NoIntent /\ whole /\ (\E f \in Files : file[f] = intent) => Recoverable

(* The settings files implement one atomic register with compare-and-swap,  *)
(* when a reader counts a commit from the removal of its intent on: a commit*)
(* takes effect all at once, and only if the register still is its snapshot,*)
(* so no publication made since is lost, though nothing is locked meanwhile.*)
(* Code: _assert_settings_unchanged, _commit_admin and recover_admin.       *)
Atomic == INSTANCE AtomicAdmin WITH
  registration <- [f \in Files |-> Stable(f)],
  published <- {c \in Committers : pc[c] = "done"},
  seen <- snap,
  Publishers <- Committers, FullRuns <- Runs,
  Replaceable <- CommitSet, PointerFiles <- {History, Pointer},
  AdminFiles <- Files, AdminEdits <- Edits, Before <- {Initial, Absent}
AtomicRegistration == Atomic!Spec

(* Processes that are not dead take their next step; the operator keeps     *)
(* running recover while a commit is pending and its process is gone.       *)
Fairness ==
  /\ \A c \in Committers : WF_vars(CommitterStep(c))
  /\ \A p \in Procs : WF_vars(RecoveryStep(p))
  /\ \A o \in Operators : WF_vars(StartRecover(o))
FairSpec == Spec /\ Fairness

(* Every pending commit that recover would accept is resolved, by its own   *)
(* end, its own rollback or the operator's, whatever crashes on the way.    *)
(* Code: _commit_admin's except block and the explicit recover command.     *)
PendingCommitResolves == Recoverable ~> (intent = NoIntent)
=============================================================================
