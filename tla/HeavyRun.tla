------------------------------ MODULE HeavyRun ------------------------------
(***************************************************************************)
(* The supervised runs of the operations tools: the history recovery of    *)
(* one company (universe50_history_recovery_ops), its history build        *)
(* (universe50_t3v2_ops) and a financial stage (universe50_financial_ops). *)
(* A supervisor takes the heavy lock of the collection, or is lent it by   *)
(* the process that started it, and runs one worker under a time and a     *)
(* memory limit; the worker checks that the lock is held, does the work    *)
(* and writes the receipt.                                                 *)
(*                                                                         *)
(* A lock is held while any process has the open file description it was   *)
(* taken on, so holders are processes.  A supervisor may be killed; the    *)
(* kernel then kills a worker that has installed its parent-death guard,   *)
(* some time later.  A recovery worker's work is a RecoveryTransaction,    *)
(* which may also be started without supervisor, as a command.             *)
(***************************************************************************)
EXTENDS RecoveryTransaction

CONSTANT
  Orders        \* what the processes may be told to do, and what else happens

Tools == {"recovery", "build", "financial"}
ASSUME HeavyAssumption ==
  \A o \in Orders :
    /\ o.exchanges \in Nat /\ o.opens \in Nat /\ o.kills \in Nat
    /\ \A p \in Procs : /\ o.told[p].tool \in Tools \cup {"command"}
                        /\ o.told[p].lent => o.told[p].tool = "recovery"

VARIABLES
  order,        \* what each process was told to do: [Procs -> [tool, lent]]
  sup,          \* the supervisors
  wrk,          \* their workers
  holders,      \* who has the open file the heavy lock is on
  disk,         \* per tool: its log, summary, output and receipt
  marker,       \* whose build the company's build marker attests
  kills         \* bound: deaths of a supervisor or a worker still explored

opsVars == <<order, sup, wrk, holders, disk, marker, kills>>
vars == <<recoveryVars, opsVars>>

Tool(p) == order[p].tool
Supervisor(p) == [role |-> "supervisor", of |-> p]
Worker(p) == [role |-> "worker", of |-> p]
Lender == [role |-> "lender", of |-> NoOne]

Nothing == [log |-> FALSE, summary |-> "none", output |-> "none", receipt |-> FALSE]

Init ==
  /\ \E o \in Orders : /\ RecoveryInit(o.exchanges, o.opens)
                        /\ order = o.told
                        /\ kills = o.kills
  /\ sup = [p \in Procs |-> [pc |-> "idle", verdict |-> "none"]]
  /\ wrk = [p \in Procs |-> "none"]
  /\ holders = IF \E p \in Procs : order[p].lent THEN {Lender} ELSE {}
  /\ disk = [t \in Tools |-> Nothing]
  /\ \E m \in {NoOne, "earlier"} :
       /\ marker = m
       /\ m = "earlier" <=> \E p \in Procs : Tool(p) = "financial"

-----------------------------------------------------------------------------
\* What a run asks of the disk

RecoveryOutput == IF root.owner = NoOne THEN "none" ELSE "there"

\* The company has no marker and no receipt, and no output but declared
\* earlier failures; the build looks at its own output only.  The financial
\* stages want a company that is READY.
Fresh(t) ==
  CASE t = "recovery" ->
         /\ marker = NoOne /\ ~disk["recovery"].receipt /\ RecoveryOutput = "none"
         /\ ~disk["build"].receipt /\ disk["build"].output = "none"
         /\ disk["build"].summary = "none"
    [] t = "build" -> /\ marker = NoOne /\ ~disk["build"].receipt
                      /\ disk["build"].output = "none"
    [] t = "financial" -> marker # NoOne

\* What only the supervisor asks: no earlier attempt has left a summary.
NeverAttempted(t) ==
  /\ t \in {"recovery", "financial"} => disk[t].summary = "none" /\ ~disk[t].receipt
  /\ t = "financial" => disk[t].output = "none"

\* The build names its log and summary after the moment, the others after the stage.
OneAttempt(t) == t \in {"recovery", "financial"}

\* A summary is never overwritten; to find one ends the supervisor with an error.
Summarised(t, verdict) ==
  IF disk[t].summary # "none" /\ OneAttempt(t) THEN disk
  ELSE [disk EXCEPT ![t].summary = verdict]

-----------------------------------------------------------------------------
\* The supervisor

SupAt(p, pc) == sup[p].pc = pc /\ Tool(p) \in Tools
SupGoto(p, pc) == sup' = [sup EXCEPT ![p].pc = pc]

\* A lent lock is believed when the parent holds it on the very descriptor it
\* passed down; the process has that descriptor from its start.
Begin(p) ==
  /\ SupAt(p, "idle")
  /\ order[p].lent => Lender \in holders
  /\ Fresh(Tool(p)) /\ NeverAttempted(Tool(p))
  /\ SupGoto(p, "checked")
  /\ holders' = IF order[p].lent THEN holders \cup {Supervisor(p)} ELSE holders
  /\ UNCHANGED <<recoveryVars, order, wrk, disk, marker, kills>>

\* Mutant: the lock does not exclude others who take it.
Shared == Lender \notin holders

Free == holders = {}

TakeLock(p) ==
  /\ SupAt(p, "checked")
  /\ \/ order[p].lent /\ SupGoto(p, "locked") /\ UNCHANGED <<holders, disk>>
     \/ /\ ~order[p].lent /\ Free
        /\ SupGoto(p, "locked") /\ holders' = holders \cup {Supervisor(p)} /\ UNCHANGED disk
     \/ /\ ~order[p].lent /\ ~Free
        /\ SupGoto(p, "ended")
        /\ disk' = IF OneAttempt(Tool(p)) THEN Summarised(Tool(p), "INTERRUPTED") ELSE disk
        /\ UNCHANGED holders
  /\ UNCHANGED <<recoveryVars, order, wrk, marker, kills>>

LogOpens(t) == OneAttempt(t) => ~disk[t].log

\* The log is created exclusively; a lent lock is passed on to the worker.
StartWorker(p) ==
  /\ SupAt(p, "locked")
  /\ IF LogOpens(Tool(p))
     THEN /\ SupGoto(p, "supervising")
          /\ wrk' = [wrk EXCEPT ![p] = "starting"]
          /\ disk' = [disk EXCEPT ![Tool(p)].log = TRUE]
          /\ holders' = IF order[p].lent THEN holders \cup {Worker(p)} ELSE holders
     ELSE /\ SupGoto(p, "ended")
          /\ disk' = Summarised(Tool(p), "INTERRUPTED")
          /\ holders' = holders \ {Supervisor(p)}
          /\ UNCHANGED wrk
  /\ UNCHANGED <<recoveryVars, order, marker, kills>>

Gone == {"none", "done", "failed", "dead"}
Live(p) == wrk[p] \notin Gone

\* The worker has ended, or the limits end it; either way it is waited for.
\* The recovery and the financial tool leave the lock before they write the
\* summary, the build after.
Settle(p, verdict) ==
  /\ sup' = [sup EXCEPT ![p] = [pc |-> "reaped", verdict |-> verdict]]
  /\ holders' = (IF OneAttempt(Tool(p)) THEN holders \ {Supervisor(p)} ELSE holders)
                \ {Worker(p)}
  /\ UNCHANGED <<recoveryVars, order, disk, marker, kills>>

Reap(p) ==
  /\ SupAt(p, "supervising") /\ ~Live(p)
  /\ Settle(p, IF wrk[p] = "done" THEN "PASS" ELSE "FAIL")
  /\ UNCHANGED wrk

\* RSS_LIMIT or TIMEOUT: the process group is terminated and reaped.
Stop(p) ==
  /\ SupAt(p, "supervising") /\ Live(p)
  /\ wrk' = [wrk EXCEPT ![p] = "dead"]
  /\ Settle(p, "STOPPED")

Summarise(p) ==
  /\ SupAt(p, "reaped")
  /\ SupGoto(p, "ended")
  /\ disk' = Summarised(Tool(p), sup[p].verdict)
  /\ holders' = holders \ {Supervisor(p)}
  /\ UNCHANGED <<recoveryVars, order, wrk, marker, kills>>

\* An exception in the supervisor: the worker does not outlive it.
Interrupt(p) ==
  /\ SupAt(p, "supervising") /\ kills > 0
  /\ kills' = kills - 1
  /\ SupGoto(p, "ended")
  /\ wrk' = [wrk EXCEPT ![p] = IF Live(p) THEN "dead" ELSE @]
  /\ disk' = Summarised(Tool(p), "INTERRUPTED")
  /\ holders' = holders \ {Supervisor(p), Worker(p)}
  /\ UNCHANGED <<recoveryVars, order, marker>>

\* Mutant: no parent-death guard.
NoGuard(p) == FALSE

Guarded(p) == Live(p) /\ wrk[p] # "starting"

\* The kernel owes the worker's death to whoever installed the guard.
Doomed(p) == sup[p].pc = "dead" /\ Guarded(p)

\* SIGKILL: nothing is written, and the lock goes with the last descriptor.
KillSupervisor(p) ==
  /\ sup[p].pc \in {"checked", "locked", "supervising", "reaped"} /\ kills > 0
  /\ kills' = kills - 1
  /\ SupGoto(p, "dead")
  /\ holders' = holders \ {Supervisor(p)}
  /\ UNCHANGED <<recoveryVars, order, wrk, disk, marker>>

KernelKills(p) ==
  /\ Doomed(p)
  /\ wrk' = [wrk EXCEPT ![p] = "dead"]
  /\ holders' = holders \ {Worker(p)}
  /\ UNCHANGED <<recoveryVars, order, sup, disk, marker, kills>>

KillWorker(p) ==
  /\ Live(p) /\ kills > 0
  /\ kills' = kills - 1
  /\ wrk' = [wrk EXCEPT ![p] = "dead"]
  /\ holders' = holders \ {Worker(p)}
  /\ UNCHANGED <<recoveryVars, order, sup, disk, marker>>

LenderEnds ==
  /\ Lender \in holders
  /\ holders' = holders \ {Lender}
  /\ UNCHANGED <<recoveryVars, order, sup, wrk, disk, marker, kills>>

-----------------------------------------------------------------------------
\* The worker

WorkGoto(p, pc) == wrk' = [wrk EXCEPT ![p] = pc]
Fails(p) == WorkGoto(p, "failed") /\ UNCHANGED tx

\* The first thing a worker does; a parent that has died by then is noticed.
InstallGuard(p) ==
  /\ wrk[p] = "starting"
  /\ WorkGoto(p, IF sup[p].pc = "dead" THEN "failed" ELSE "guarded")
  /\ holders' = IF sup[p].pc = "dead" THEN holders \ {Worker(p)} ELSE holders
  /\ UNCHANGED <<recoveryVars, order, sup, disk, marker, kills>>

Held == holders # {}

\* The GO is validated again, the one-shot capability read, the lock found
\* held, and the disk looked at again, now under the lock.
Admit(p) ==
  /\ wrk[p] = "guarded"
  /\ IF sup[p].pc # "dead" /\ Held /\ Fresh(Tool(p))
     THEN /\ WorkGoto(p, "working")
          /\ tx' = IF Tool(p) = "recovery" THEN [tx EXCEPT ![p].pc = "start"] ELSE tx
     ELSE Fails(p)
  /\ UNCHANGED <<source, exchanges, opens, root, reader, order, sup, holders, disk, marker, kills>>

RecoveryWork(p) ==
  /\ wrk[p] = "working" /\ Tool(p) = "recovery"
  /\ RecoveryStep(p)
  /\ UNCHANGED opsVars

RecoveryWorked(p) ==
  /\ wrk[p] = "working" /\ tx[p].pc \in {"recovered", "failed"}
  /\ WorkGoto(p, IF tx[p].pc = "recovered" THEN "worked" ELSE "failed")
  /\ UNCHANGED <<recoveryVars, order, sup, holders, disk, marker, kills>>

\* build_history, or the producer of the stage: an output that appears in parts.
Work(p) ==
  /\ wrk[p] = "working" /\ Tool(p) # "recovery"
  /\ \/ /\ disk[Tool(p)].output = "none"
        /\ disk' = [disk EXCEPT ![Tool(p)].output = "partial"]
        /\ WorkGoto(p, "producing")
     \/ disk[Tool(p)].output # "none" /\ WorkGoto(p, "failed") /\ UNCHANGED disk
  /\ UNCHANGED <<recoveryVars, order, sup, holders, marker, kills>>

Produce(p) ==
  /\ wrk[p] = "producing"
  /\ disk' = [disk EXCEPT ![Tool(p)].output = "complete"]
  /\ WorkGoto(p, IF Tool(p) = "financial" THEN "marked" ELSE "worked")
  /\ UNCHANGED <<recoveryVars, order, sup, holders, marker, kills>>

\* One that stands with other content is an error.
MayMark(p) == marker \in {NoOne, Tool(p)}

WriteMarker(p) ==
  /\ wrk[p] = "worked"
  /\ IF MayMark(p)
     THEN WorkGoto(p, "marked") /\ marker' = Tool(p)
     ELSE WorkGoto(p, "failed") /\ UNCHANGED marker
  /\ UNCHANGED <<recoveryVars, order, sup, holders, disk, kills>>

\* The status must say READY, which is what the marker makes it say.
WriteRunReceipt(p) ==
  /\ wrk[p] = "marked"
  /\ IF disk[Tool(p)].receipt
     THEN WorkGoto(p, "failed") /\ UNCHANGED disk
     ELSE WorkGoto(p, "done") /\ disk' = [disk EXCEPT ![Tool(p)].receipt = TRUE]
  /\ UNCHANGED <<recoveryVars, order, sup, holders, marker, kills>>

WorkerStep(p) ==
  \/ InstallGuard(p) \/ Admit(p) \/ RecoveryWork(p) \/ RecoveryWorked(p)
  \/ Work(p) \/ Produce(p) \/ WriteMarker(p) \/ WriteRunReceipt(p)

-----------------------------------------------------------------------------
\* The command, without supervisor

StartCommand(p) ==
  /\ Tool(p) = "command" /\ At(p, "idle")
  /\ Goto(p, "start")
  /\ UNCHANGED <<source, exchanges, opens, root, reader, opsVars>>

CommandWork(p) ==
  /\ Tool(p) = "command" /\ RecoveryStep(p)
  /\ UNCHANGED opsVars

CommandDies(p) ==
  /\ Tool(p) = "command" /\ tx[p].pc \notin {"idle", "failed", "recovered", "dead"}
  /\ kills > 0
  /\ kills' = kills - 1
  /\ Goto(p, "dead")
  /\ UNCHANGED <<source, exchanges, opens, root, reader, order, sup, wrk, holders, disk, marker>>

Supervise(p) ==
  \/ TakeLock(p) \/ StartWorker(p) \/ Reap(p) \/ Stop(p) \/ Summarise(p)

Next ==
  \/ \E p \in Procs :
       \/ Begin(p) \/ Supervise(p) \/ Interrupt(p) \/ KillSupervisor(p)
       \/ KernelKills(p) \/ KillWorker(p) \/ WorkerStep(p)
       \/ StartCommand(p) \/ CommandWork(p) \/ CommandDies(p)
  \/ LenderEnds
  \/ \E f \in Sources : Exchange(f) /\ UNCHANGED opsVars
  \/ \E k \in Readers : ReaderStep(k) /\ UNCHANGED opsVars

\* The supervisor is a running process and its limits are clock time; the kernel
\* delivers the signal it owes; a worker that was started reaches its guard.
Fairness ==
  \A p \in Procs : /\ WF_vars(Supervise(p))
                   /\ WF_vars(KernelKills(p))
                   /\ WF_vars(InstallGuard(p))

Spec == Init /\ [][Next]_vars /\ Fairness
=============================================================================
