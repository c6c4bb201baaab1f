------------------------- MODULE ProspectiveSelection -------------------------
(***************************************************************************)
(* prospective_selection.py: an approved analysis is carried to a later    *)
(* cutoff without recalculating anything.  A selection is published after  *)
(* a proof over the files it rests on; a batch replays that proof, stages  *)
(* its targets from the origin analyses, reads every file again, and only  *)
(* then renames the targets into place, one after the other.               *)
(*                                                                         *)
(* A file is a version with what it says.  Files and the program's own     *)
(* sources may be replaced at any time, by something that was never there  *)
(* before; a file that is exchanged and put back in time is not explored.  *)
(***************************************************************************)
EXTENDS Integers

CONSTANTS
  Targets,      \* the analyses carried over; each has its origin analysis as a file
  Archives,     \* how many archives the submissions root declares
  Relations,    \* which archives the snapshots may fit to which declarations
  MaxEdits,     \* bound: replacements of a file
  MaxUpgrades   \* bound: changes of the program's sources

VARIABLES
  disk,         \* the files
  code,         \* the version of the program's sources
  config,       \* the versions the configuration pins
  selection,    \* the published selection: the controls of its proof
  visible,      \* the targets at their destinations
  job,          \* the one running command
  edits

vars == <<disk, code, config, selection, visible, job, edits>>

NoKind == "none"
Plans == {"origin plan", "current plan"}
Pinned == Targets \cup {"policy", "history"}
Leaves == Pinned \cup Plans \cup {"submissions", "raw"}

\* Each archive fits the declaration of its own number of filings and dates only.
Diagonal == {<<i, i>> : i \in 1 .. Archives}

NoJob == [kind |-> NoKind, pc |-> "idle", producer |-> 0, got |-> <<>>, staged |-> <<>>]

\* A policy is ROOT's approval of exact versions, for the policy sources then on disk.
Approval(versions, sources) == [of |-> versions, code |-> sources]

\* Nothing at a destination, or no selection.
Nowhere == [version |-> -1]
NoSelection == [controls |-> <<>>]

Init ==
  /\ disk = [l \in Leaves |->
               [version |-> 0,
                says |-> CASE l \in Plans -> "eligible"
                           [] l = "submissions" -> [more |-> FALSE, pairs |-> Diagonal]
                           [] l = "policy" -> Approval([x \in Targets \cup {"raw"} |-> 0], 1)
                           [] OTHER -> NoKind]]
  /\ code = 1
  /\ config = [l \in Pinned |-> 0]
  /\ selection = NoSelection
  /\ visible = [t \in Targets |-> Nowhere]
  /\ job = NoJob
  /\ edits = 0

Versions(files) == [l \in DOMAIN files |-> files[l].version]

-----------------------------------------------------------------------------
\* The rows of an analysis: datasets of cells, of the core cells anchored to
\* them, of periods, and traces, which carry the lineage of their value.

Cell(name, version) == [name |-> name, version |-> version, event |-> NoKind]
NoCell == Cell(NoKind, -1)
RowsOf(version) ==
  {[name |-> "cells", cell_id |-> Cell("a", version)],
   [name |-> "core_cells", cell_id |-> Cell("b", version), anchor |-> Cell("a", version)],
   [name |-> "core_cells", cell_id |-> NoCell, anchor |-> NoCell],
   [name |-> "periods", cell_id |-> Cell("p", version)],
   [name |-> "trace", cell_id |-> Cell("b", version), lineage |-> Cell("a", version)]}

Prepared(rows) == {row.cell_id : row \in {r \in rows : r.name \in {"cells", "core_cells"}}} \ {NoCell}

\* The prepared cells get identities of the event wherever they are meant as
\* cells of this analysis, and remember which cell they were.
Renamed(rows, row, event) ==
  [k \in DOMAIN row \cup (IF row.cell_id \in Prepared(rows) THEN {"was"} ELSE {}) |->
     IF k = "was" THEN row.cell_id
     ELSE IF k \in {"cell_id", "anchor"} /\ row[k] \in Prepared(rows) THEN [row[k] EXCEPT !.event = event]
     ELSE row[k]]
Reselected(rows, event) == {Renamed(rows, row, event) : row \in rows}

\* A dataset is stored with the columns of all its rows, empty where one has none.
Padded(rows, row) ==
  LET columns == UNION {DOMAIN r : r \in {x \in rows : x.name = row.name}}
  IN [k \in columns |-> IF k \in DOMAIN row THEN row[k] ELSE NoCell]
Parquet(rows) == {Padded(rows, row) : row \in rows}

Event == "event"

-----------------------------------------------------------------------------
\* _check_submissions_completeness: one archive after the other gets one of the
\* declarations that it fits, where others may have to take another one.

Given(assigned, d, archive) ==
  [x \in DOMAIN assigned \cup {d} |-> IF x = d THEN archive ELSE assigned[x]]

\* queue: who is reached from the origin, as the owner of what somebody before
\* it could take, by the number of owners on the way.
Queue(pairs, assigned, origin) ==
  LET queue[n \in 0 .. Archives] ==
        IF n = 0 THEN {origin}
        ELSE queue[n - 1] \cup
               {assigned[d] : d \in {x \in DOMAIN assigned : \E a \in queue[n - 1] : <<a, x>> \in pairs}}
  IN queue

\* free: who in the queue could take which declaration that nobody has.
Found(pairs, assigned, origin) ==
  {p \in pairs : p[1] \in Queue(pairs, assigned, origin)[Archives] /\ p[2] \notin DOMAIN assigned}

\* parents: what an owner holds, and who reached it by that.
Held(assigned, owner) == CHOOSE d \in DOMAIN assigned : assigned[d] = owner
Parent(pairs, assigned, queue, owner) ==
  CHOOSE a \in 1 .. Archives :
    <<a, Held(assigned, owner)>> \in pairs /\ \E n \in DOMAIN queue : a \in queue[n] /\ owner \notin queue[n]

\* What is free goes to who found it, what that one held to its parent, and so
\* on back to the origin.
Moved(pairs, assigned, origin) ==
  LET found == CHOOSE p \in Found(pairs, assigned, origin) : TRUE
      queue == Queue(pairs, assigned, origin)
      way[n \in 0 .. Archives] ==
        IF n = 0 THEN [owner |-> found[1], assigned |-> Given(assigned, found[2], found[1])]
        ELSE LET owner == way[n - 1].owner
                 parent == Parent(pairs, assigned, queue, owner)
             IN IF owner = origin THEN way[n - 1]
                ELSE [owner |-> parent,
                      assigned |-> Given(way[n - 1].assigned, Held(assigned, owner), parent)]
  IN way[Archives].assigned

Assigned(pairs) ==
  LET assigned[n \in 0 .. Archives] ==
        IF n = 0 THEN <<>>
        ELSE IF Found(pairs, assigned[n - 1], n) = {} THEN assigned[n - 1]
             ELSE Moved(pairs, assigned[n - 1], n)
  IN assigned

\* No archive is left without a declaration.
Covers(pairs) ==
  \A origin \in 1 .. Archives : Found(pairs, Assigned(pairs)[origin - 1], origin) # {}

-----------------------------------------------------------------------------
\* The proof

Goto(pc) == job' = [job EXCEPT !.pc = pc]
OnDisk == UNCHANGED <<disk, code, config, edits>>
Reads(leaves) == [l \in DOMAIN job.got \cup leaves |->
                    IF l \in leaves THEN disk[l] ELSE job.got[l]]

\* publish_prospective_selection, or a batch over the published selection.
Start(kind) ==
  /\ job.pc = "idle"
  /\ kind = "batch" => selection.controls # <<>>
  /\ job' = [NoJob EXCEPT !.kind = kind, !.pc = "pin", !.producer = code]
  /\ OnDisk /\ UNCHANGED <<selection, visible>>

\* The pinned files are those of the configuration, the two plans choose the
\* same filings, and the submissions snapshots are complete and choose them too.
Pin ==
  /\ job.pc = "pin"
  /\ LET got == Reads(Pinned \cup Plans \cup {"submissions"})
     IN job' = [job EXCEPT
          !.got = got,
          !.pc = IF ~Covers(got["submissions"].says.pairs) THEN "incomplete"
                 ELSE IF /\ \A l \in Pinned : got[l].version = config[l]
                         /\ \A l \in Plans : got[l].says = "eligible"
                         /\ ~got["submissions"].says.more
                      THEN "replay" ELSE "refused"]
  /\ OnDisk /\ UNCHANGED <<selection, visible>>

\* The accepted history and the analyses, and a policy that approves exactly
\* them, the raw inventory and the policy sources on disk.
Approves(got, sources) ==
  got["policy"].says = Approval(Versions([l \in Targets \cup {"raw"} |-> got[l]]), sources)

Replay ==
  /\ job.pc = "replay"
  /\ LET got == Reads(Pinned \cup {"raw"})
     IN job' = [job EXCEPT
          !.got = got,
          !.pc = IF /\ \A l \in Targets \cup {"history"} : got[l].version = config[l]
                    /\ Approves(got, code)
                    /\ job.kind = "batch" => selection.controls = Versions(got)
                 THEN IF job.kind = "batch" THEN "stage" ELSE "recheck"
                 ELSE "refused"]
  /\ OnDisk /\ UNCHANGED <<selection, visible>>

\* The rows as the origin's reader finds them now; the proof is not consulted.
StageTarget(t) ==
  /\ job.pc = "stage" /\ t \notin DOMAIN job.staged
  /\ LET staged == [x \in DOMAIN job.staged \cup {t} |->
                      IF x = t THEN [version |-> disk[t].version,
                                     rows |-> Parquet(Reselected(RowsOf(disk[t].version), Event))]
                      ELSE job.staged[x]]
     IN job' = [job EXCEPT !.staged = staged,
                           !.pc = IF DOMAIN staged = Targets THEN "recheck" ELSE "stage"]
  /\ OnDisk /\ UNCHANGED <<selection, visible>>

\* Mutant: a proof that was just replayed is believed.
BelievesTheProof(got, producer) == TRUE

\* Every control has the bytes it was read with, and the program is the same.
StillHolds(got, producer) ==
  /\ \A l \in DOMAIN got : disk[l].version = got[l].version
  /\ code = producer

Recheck ==
  /\ job.pc = "recheck"
  /\ Goto(IF StillHolds(job.got, job.producer) THEN "commit" ELSE "refused")
  /\ OnDisk /\ UNCHANGED <<selection, visible>>

WriteSelection ==
  /\ job.pc = "commit" /\ job.kind = "selection"
  /\ IF selection.controls = <<>>
     THEN selection' = [controls |-> Versions(job.got)] /\ job' = NoJob
     ELSE Goto("refused") /\ UNCHANGED selection
  /\ OnDisk /\ UNCHANGED visible

\* The next target is renamed, unless something stands there.
CommitTarget(t) ==
  /\ job.pc = "commit" /\ job.kind = "batch" /\ t \in DOMAIN job.staged
  /\ IF visible[t].version = -1
     THEN /\ visible' = [visible EXCEPT ![t] =
                           [version |-> job.staged[t].version, rows |-> job.staged[t].rows,
                            policy |-> job.got["policy"].says,
                            raw |-> job.got["raw"].version, producer |-> job.producer]]
          /\ LET left == DOMAIN job.staged \ {t}
             IN job' = IF left = {} THEN NoJob
                       ELSE [job EXCEPT !.staged = [x \in left |-> job.staged[x]]]
     ELSE Goto("refused") /\ UNCHANGED visible
  /\ OnDisk /\ UNCHANGED selection

\* The command ends, or dies where it is; staged targets stay hidden for ever.
End ==
  /\ job.pc # "idle"
  /\ job' = NoJob
  /\ OnDisk /\ UNCHANGED <<selection, visible>>

-----------------------------------------------------------------------------
\* Everybody else

Rewritten(l) ==
  CASE l \in Plans -> {"eligible", "other"}
    [] l = "submissions" -> [more : {FALSE}, pairs : Relations] \cup [more : {TRUE}, pairs : {Diagonal}]
    [] l = "policy" -> {Approval(Versions([x \in Targets \cup {"raw"} |-> disk[x]]), code)}
    [] OTHER -> {NoKind}

\* Bound: other submissions are explored alone.
Replace(l) ==
  /\ IF l = "submissions" THEN edits = 0 ELSE edits < MaxEdits
  /\ edits' = IF l = "submissions" THEN MaxEdits ELSE edits + 1
  /\ \E says \in Rewritten(l) :
       disk' = [disk EXCEPT ![l] = [version |-> edits + 1, says |-> says]]
  /\ UNCHANGED <<code, config, selection, visible, job>>

\* A configuration for what is there now.
Configure ==
  /\ config # Versions([l \in Pinned |-> disk[l]])
  /\ config' = Versions([l \in Pinned |-> disk[l]])
  /\ UNCHANGED <<disk, code, selection, visible, job, edits>>

Upgrade ==
  /\ code <= MaxUpgrades
  /\ code' = code + 1
  /\ UNCHANGED <<disk, config, selection, visible, job, edits>>

Next ==
  \/ \E kind \in {"selection", "batch"} : Start(kind)
  \/ Pin \/ Replay \/ Recheck \/ WriteSelection \/ End
  \/ \E t \in Targets : StageTarget(t) \/ CommitTarget(t)
  \/ \E l \in Leaves : Replace(l)
  \/ Configure \/ Upgrade

Spec == Init /\ [][Next]_vars

-----------------------------------------------------------------------------
\* verify_reselected_analysis: the approved event replayed over the origin.
Verifies(t) ==
  /\ selection.controls # <<>> /\ selection.controls[t] = visible[t].version
  /\ disk[t].version = visible[t].version
  /\ visible[t].rows = Parquet(Reselected(RowsOf(disk[t].version), Event))

\* What becomes visible is the analysis ROOT approved, for the raw inventory
\* and by the policy sources it approved, although it is staged without another
\* look at the proof and the files and the program may be replaced meanwhile;
\* and it verifies as long as its origin and the selection stay
\* (prepare_reselected_analysis_batch).
VisibleIsApproved ==
  \A t \in Targets : visible[t].version # -1 =>
    LET approved == visible[t].policy
    IN /\ visible[t].version = approved.of[t]
       /\ visible[t].raw = approved.of["raw"]
       /\ visible[t].producer = approved.code
       /\ (disk[t].version = approved.of[t]) => Verifies(t)

\* Every link of a visible analysis leads to a cell of the same analysis, the
\* one that its origin's link led to, and every lineage still names the
\* origin's cell (_reselected_records).
LinksSurvive ==
  \A t \in Targets : visible[t].version # -1 =>
    LET rows == visible[t].rows
        origin == RowsOf(visible[t].version)
        Was(row) == IF "was" \in DOMAIN row /\ row.was # NoCell THEN row.was ELSE row.cell_id
    IN /\ {Was(row) : row \in rows} = {row.cell_id : row \in origin}
       /\ \A row \in rows :
            /\ "anchor" \in DOMAIN row /\ row.anchor # NoCell =>
                 \E cell \in rows : /\ cell.name = "cells" /\ cell.cell_id = row.anchor
                                    /\ \E old \in origin : /\ old.name = row.name /\ old.cell_id = Was(row)
                                                           /\ old.anchor = Was(cell)
            /\ "lineage" \in DOMAIN row => row.lineage \in {old.cell_id : old \in origin}

\* A company's submissions are incomplete exactly when its archives cannot be
\* told apart as the declared ones, one each, in any way
\* (_check_submissions_completeness).
OneToOne(pairs) ==
  \E f \in [1 .. Archives -> 1 .. Archives] :
    /\ \A i \in 1 .. Archives : <<i, f[i]>> \in pairs
    /\ \A i, j \in 1 .. Archives : f[i] = f[j] => i = j
CompletenessIsExact ==
  /\ job.pc = "incomplete" => ~OneToOne(job.got["submissions"].says.pairs)
  /\ job.pc \in {"replay", "stage", "recheck", "commit"} =>
       OneToOne(job.got["submissions"].says.pairs)
===============================================================================
