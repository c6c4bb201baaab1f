---------------------------- MODULE HeavyRunProofs ----------------------------
(***************************************************************************)
(* Proofs about the three parts of MCHeavyRun, whose theorems are of its   *)
(* specification for every value of the parameters.                        *)
(*                                                                         *)
(* HeavyRun with RecoveryTransaction: who holds the heavy lock, so that at *)
(* most one worker does heavy work; and what lies under the output root of *)
(* a recovery, so that a reader sees it whole or not at all.               *)
(* FinancialStages: a worker beside which nothing was edited stands on     *)
(* what the receipts of its parents attest.  CompanyRecovery: what a       *)
(* recovery is admitted to under the lock is still so when its receipt     *)
(* names it.                                                               *)
(***************************************************************************)
EXTENDS MCHeavyRun, FiniteSetTheorems, TLAPS

SupervisorStates == {"idle", "checked", "locked", "supervising", "reaped", "ended", "dead"}
WorkerStates == {"starting", "guarded", "working", "producing", "worked", "marked"} \cup Gone
Verdicts == {"none", "PASS", "FAIL", "STOPPED", "INTERRUPTED"}
Disks == [log : BOOLEAN, summary : Verdicts, output : {"none", "partial", "complete"}, receipt : BOOLEAN]

OpsTypeOK ==
  /\ \E o \in Orders : order = o.told
  /\ sup \in [Procs -> [pc : SupervisorStates, verdict : Verdicts]]
  /\ wrk \in [Procs -> WorkerStates]
  /\ disk \in [Tools -> Disks]

Lent(p) == order[p].lent
Holds(p) == Supervisor(p) \in holders

\* No worker lives without a supervisor, but that of one that was killed.
WorkersAreSupervised ==
  \A p \in Procs :
    /\ sup[p].pc \in {"idle", "checked", "locked"} => wrk[p] = "none"
    /\ Live(p) => sup[p].pc \in {"supervising", "dead"}
    /\ Tool(p) \notin Tools => sup[p].pc = "idle"

\* Who supervises holds the lock; who took it, and was not lent it, holds it
\* alone among the supervisors and has no lender.
LockIsHeld ==
  \A p \in Procs :
    /\ sup[p].pc \in {"locked", "supervising"} \/ (sup[p].pc = "checked" /\ Lent(p)) => Holds(p)
    /\ Holds(p) /\ ~Lent(p) => /\ Lender \notin holders
                               /\ \A q \in Procs : Holds(q) => q = p

\* Of the tools that are attempted once, the log says that it was, and by one.
AttemptedOnce ==
  \A p \in Procs : OneAttempt(Tool(p)) /\ wrk[p] # "none" =>
    /\ disk[Tool(p)].log
    /\ \A q \in Procs : Tool(q) = Tool(p) /\ wrk[q] # "none" => q = p

LeaseInv == OpsTypeOK /\ WorkersAreSupervised /\ LockIsHeld /\ AttemptedOnce

-----------------------------------------------------------------------------
LEMMA HoldersDiffer ==
  /\ \A p, q : Supervisor(p) = Supervisor(q) => p = q
  /\ \A p, q : Supervisor(p) # Worker(q)
  /\ \A p : Supervisor(p) # Lender
  /\ \A p : Worker(p) # Lender
<1>1. \A p : Supervisor(p).of = p /\ Supervisor(p).role = "supervisor"
  BY DEF Supervisor
<1>2. \A p : Worker(p).role = "worker"
  BY DEF Worker
<1>3. Lender.role = "lender"
  BY DEF Lender
<1>4. QED
  BY <1>1, <1>2, <1>3

LEMMA ToolsAreTold ==
  ASSUME OpsTypeOK, NEW p \in Procs
  PROVE  Tool(p) \in Tools \cup {"command"} /\ (Lent(p) => Tool(p) = "recovery")
BY HeavyAssumption DEF OpsTypeOK, Tool, Lent

\* The lock excludes others of its takers, the log those who were lent it.
LEMMA LeaseGivesOneWorker ==
  ASSUME LeaseInv, NEW p \in Procs, NEW q \in Procs,
         Heavy(p), sup[p].pc # "dead", Heavy(q), sup[q].pc # "dead"
  PROVE  p = q
<1>1. Live(p) /\ Live(q) /\ wrk[p] # "none" /\ wrk[q] # "none"
  BY DEF Heavy, Live, Gone
<1>2. Holds(p) /\ Holds(q)
  BY <1>1 DEF LeaseInv, WorkersAreSupervised, LockIsHeld
<1>3. CASE ~Lent(p) \/ ~Lent(q)
  BY <1>2, <1>3 DEF LeaseInv, LockIsHeld
<1>4. CASE Lent(p) /\ Lent(q)
  <2>1. Tool(p) = "recovery" /\ Tool(q) = "recovery"
    BY <1>4, ToolsAreTold DEF LeaseInv
  <2>2. QED
    BY <1>1, <2>1 DEF LeaseInv, AttemptedOnce, OneAttempt
<1>5. QED
  BY <1>3, <1>4

-----------------------------------------------------------------------------
LEMMA InitIsLeased ==
  Init => LeaseInv
<1> SUFFICES ASSUME Init PROVE LeaseInv
  OBVIOUS
<1> USE DEF Init
<1>1. OpsTypeOK
  BY DEF OpsTypeOK, SupervisorStates, WorkerStates, Gone, Verdicts, Disks, Nothing
<1>2. WorkersAreSupervised
  BY DEF WorkersAreSupervised, Live, Gone
<1>3. \A p \in Procs : ~Holds(p)
  BY HoldersDiffer DEF Holds
<1>4. LockIsHeld
  BY <1>3 DEF LockIsHeld
<1>5. AttemptedOnce
  BY DEF AttemptedOnce
<1>6. QED
  BY <1>1, <1>2, <1>4, <1>5 DEF LeaseInv

\* What a worker does to itself.
LEMMA WorkerMovesStayLeased ==
  ASSUME LeaseInv, NEW p \in Procs, NEW w \in WorkerStates \ {"none"},
         wrk[p] # "none", Live(p) \/ w \in Gone,
         wrk' = [wrk EXCEPT ![p] = w],
         UNCHANGED <<order, sup>>,
         holders' \in {holders, holders \ {Worker(p)}},
         disk' \in [Tools -> Disks], \A t \in Tools : disk'[t].log = disk[t].log
  PROVE  LeaseInv'
<1> USE DEF LeaseInv
<1>1. \A q \in Procs : wrk'[q] = IF q = p THEN w ELSE wrk[q]
  BY DEF OpsTypeOK
<1>2. OpsTypeOK'
  BY DEF OpsTypeOK
<1>3. \A q \in Procs : /\ Tool(q)' = Tool(q) /\ Lent(q)' = Lent(q)
                       /\ Holds(q)' <=> Holds(q)
  BY HoldersDiffer DEF Tool, Lent, Holds
<1>4. Lender \in holders' <=> Lender \in holders
  BY HoldersDiffer
<1>5. WorkersAreSupervised'
  BY <1>1, <1>3 DEF WorkersAreSupervised, Live, Gone
<1>6. LockIsHeld'
  BY <1>3, <1>4 DEF LockIsHeld
<1>7. \A q \in Procs : OneAttempt(Tool(q)) => Tool(q) \in Tools
  BY DEF OneAttempt, Tools
<1>8. AttemptedOnce'
  BY <1>1, <1>3, <1>7 DEF AttemptedOnce, OneAttempt
<1>9. QED
  BY <1>2, <1>5, <1>6, <1>8

\* What a supervisor does that has no worker afterwards.
LEMMA SupervisorEndsStayLeased ==
  ASSUME LeaseInv, NEW p \in Procs, NEW w \in {wrk[p], "dead"}, NEW s,
         s \in [pc : {"reaped", "ended"}, verdict : Verdicts],
         Tool(p) \in Tools, w \in Gone, wrk[p] = "none" => w = "none",
         sup' = [sup EXCEPT ![p] = s],
         wrk' = [wrk EXCEPT ![p] = w],
         UNCHANGED order,
         holders' \subseteq holders, holders \ {Supervisor(p), Worker(p)} \subseteq holders',
         disk' \in [Tools -> Disks], \A t \in Tools : disk'[t].log = disk[t].log
  PROVE  LeaseInv'
<1> USE DEF LeaseInv
<1>1. \A q \in Procs : /\ wrk'[q] = IF q = p THEN w ELSE wrk[q]
                       /\ sup'[q] = IF q = p THEN s ELSE sup[q]
  BY DEF OpsTypeOK
<1>2. OpsTypeOK'
  BY DEF OpsTypeOK, SupervisorStates, WorkerStates, Gone
<1>3. \A q \in Procs : /\ Tool(q)' = Tool(q) /\ Lent(q)' = Lent(q)
                       /\ Holds(q)' => Holds(q)
                       /\ Holds(q) /\ q # p => Holds(q)'
  BY HoldersDiffer DEF Tool, Lent, Holds
<1>4. WorkersAreSupervised'
  BY <1>1, <1>3 DEF WorkersAreSupervised, Live
<1>5. LockIsHeld'
  BY <1>1, <1>3 DEF LockIsHeld
<1>6. \A q \in Procs : OneAttempt(Tool(q)) => Tool(q) \in Tools
  BY DEF OneAttempt, Tools
<1>7. AttemptedOnce'
  BY <1>1, <1>3, <1>6 DEF AttemptedOnce, OneAttempt
<1>8. QED
  BY <1>2, <1>4, <1>5, <1>7

-----------------------------------------------------------------------------
(* The supervisor                                                          *)

LEMMA SummarisedIsADisk ==
  ASSUME OpsTypeOK, NEW t \in Tools, NEW v \in Verdicts
  PROVE  Summarised(t, v) \in [Tools -> Disks] /\ \A u \in Tools : Summarised(t, v)[u].log = disk[u].log
BY DEF OpsTypeOK, Disks, Summarised

LEMMA OnlyTheStateMoves ==
  ASSUME OpsTypeOK, NEW p \in Procs, NEW pc
  PROVE  [sup EXCEPT ![p].pc = pc] = [sup EXCEPT ![p] = [pc |-> pc, verdict |-> sup[p].verdict]]
<1>1. sup[p] \in [pc : SupervisorStates, verdict : Verdicts]
  BY DEF OpsTypeOK
<1>2. [sup[p] EXCEPT !.pc = pc] = [pc |-> pc, verdict |-> sup[p].verdict]
  BY <1>1
<1>3. QED
  BY <1>2

LEMMA BeginStaysLeased ==
  ASSUME LeaseInv, NEW p \in Procs, Begin(p)
  PROVE  LeaseInv'
<1> USE DEF LeaseInv
<1>1. /\ sup[p].pc = "idle" /\ Tool(p) \in Tools
      /\ UNCHANGED <<order, wrk, disk>>
      /\ \A q \in Procs : sup'[q] = IF q = p THEN [sup[p] EXCEPT !.pc = "checked"] ELSE sup[q]
      /\ sup' \in [Procs -> [pc : SupervisorStates, verdict : Verdicts]]
  BY DEF Begin, SupAt, SupGoto, OpsTypeOK, SupervisorStates
<1>2. \A q \in Procs : sup'[q].pc = IF q = p THEN "checked" ELSE sup[q].pc
  BY <1>1 DEF OpsTypeOK
<1>3. OpsTypeOK'
  BY <1>1 DEF OpsTypeOK
<1>4. \A q \in Procs : Tool(q)' = Tool(q) /\ Lent(q)' = Lent(q)
  BY <1>1 DEF Tool, Lent
<1>5. WorkersAreSupervised'
  BY <1>1, <1>2, <1>4 DEF WorkersAreSupervised, Live
<1>6. /\ Lender \in holders' <=> Lender \in holders
      /\ \A q \in Procs : Holds(q)' <=> Holds(q) \/ (q = p /\ Lent(p))
      /\ Lent(p) => Lender \in holders
  BY HoldersDiffer DEF Begin, Lent, Holds
<1>7. LockIsHeld'
  BY <1>2, <1>4, <1>6 DEF LockIsHeld
<1>8. AttemptedOnce'
  BY <1>1, <1>4 DEF AttemptedOnce
<1>9. QED
  BY <1>3, <1>5, <1>7, <1>8

LEMMA TakeLockStaysLeased ==
  ASSUME LeaseInv, NEW p \in Procs, TakeLock(p)
  PROVE  LeaseInv'
<1> USE DEF LeaseInv
<1>1. Tool(p) \in Tools /\ sup[p].pc = "checked" /\ wrk[p] = "none" /\ sup[p].verdict \in Verdicts
  BY DEF TakeLock, SupAt, OpsTypeOK, WorkersAreSupervised
<1>2. CASE sup' = [sup EXCEPT ![p].pc = "locked"]
  <2>1. /\ UNCHANGED <<order, wrk, disk>>
        /\ \/ Lent(p) /\ UNCHANGED holders
           \/ ~Lent(p) /\ holders = {} /\ holders' = {Supervisor(p)}
    <3>1. "locked" # "ended"
      OBVIOUS
    <3>2. ~(sup' = [sup EXCEPT ![p].pc = "ended"])
      BY <1>2, <3>1 DEF OpsTypeOK
    <3>3. QED
      BY <3>2 DEF TakeLock, SupGoto, Lent, Free
  <2>2. \A q \in Procs : sup'[q].pc = IF q = p THEN "locked" ELSE sup[q].pc
    BY <1>2 DEF OpsTypeOK
  <2>3. OpsTypeOK'
    BY <1>2, <2>1 DEF OpsTypeOK, SupervisorStates
  <2>4. \A q \in Procs : Tool(q)' = Tool(q) /\ Lent(q)' = Lent(q)
    BY <2>1 DEF Tool, Lent
  <2>5. WorkersAreSupervised'
    BY <1>1, <2>1, <2>2, <2>4 DEF WorkersAreSupervised, Live, Gone
  <2>6. LockIsHeld'
    BY <1>1, <2>1, <2>2, <2>4, HoldersDiffer DEF LockIsHeld, Holds
  <2>7. AttemptedOnce'
    BY <2>1, <2>4 DEF AttemptedOnce
  <2>8. QED
    BY <2>3, <2>5, <2>6, <2>7
<1>3. CASE ~(sup' = [sup EXCEPT ![p].pc = "locked"])
  <2>1. /\ sup' = [sup EXCEPT ![p].pc = "ended"] /\ UNCHANGED <<order, wrk, holders>>
        /\ disk' \in {disk, Summarised(Tool(p), "INTERRUPTED")}
    BY <1>3 DEF TakeLock, SupGoto
  <2>2. sup' = [sup EXCEPT ![p] = [pc |-> "ended", verdict |-> sup[p].verdict]]
    BY <2>1, OnlyTheStateMoves
  <2>3. disk' \in [Tools -> Disks] /\ \A t \in Tools : disk'[t].log = disk[t].log
    BY <1>1, <2>1, SummarisedIsADisk DEF OpsTypeOK, Verdicts
  <2>4. wrk' = [wrk EXCEPT ![p] = "none"]
    BY <1>1, <2>1 DEF OpsTypeOK
  <2>5. QED
    BY <1>1, <2>1, <2>2, <2>3, <2>4, SupervisorEndsStayLeased DEF Gone
<1>4. QED
  BY <1>2, <1>3

LEMMA StartWorkerStaysLeased ==
  ASSUME LeaseInv, NEW p \in Procs, StartWorker(p)
  PROVE  LeaseInv'
<1> USE DEF LeaseInv
<1>1. /\ Tool(p) \in Tools /\ sup[p].pc = "locked" /\ wrk[p] = "none" /\ sup[p].verdict \in Verdicts
      /\ Holds(p)
  BY DEF StartWorker, SupAt, OpsTypeOK, WorkersAreSupervised, LockIsHeld
<1>2. CASE LogOpens(Tool(p))
  <2>1. /\ sup' = [sup EXCEPT ![p].pc = "supervising"]
        /\ wrk' = [wrk EXCEPT ![p] = "starting"]
        /\ disk' = [disk EXCEPT ![Tool(p)].log = TRUE]
        /\ holders' \in {holders, holders \cup {Worker(p)}}
        /\ UNCHANGED order
    BY <1>2 DEF StartWorker, SupGoto
  <2>2. \A q \in Procs : /\ sup'[q].pc = IF q = p THEN "supervising" ELSE sup[q].pc
                         /\ wrk'[q] = IF q = p THEN "starting" ELSE wrk[q]
    BY <2>1 DEF OpsTypeOK
  <2>3. OpsTypeOK'
    <3>1. disk' \in [Tools -> Disks]
      BY <2>1, <1>1 DEF OpsTypeOK, Disks
    <3>2. sup' \in [Procs -> [pc : SupervisorStates, verdict : Verdicts]]
      BY <2>1 DEF OpsTypeOK, SupervisorStates
    <3>3. wrk' \in [Procs -> WorkerStates]
      BY <2>1 DEF OpsTypeOK, WorkerStates
    <3>4. QED
      BY <2>1, <3>1, <3>2, <3>3 DEF OpsTypeOK
  <2>4. \A q \in Procs : Tool(q)' = Tool(q) /\ Lent(q)' = Lent(q)
    BY <2>1 DEF Tool, Lent
  <2>5. WorkersAreSupervised'
    BY <1>1, <2>2, <2>4 DEF WorkersAreSupervised, Live, Gone
  <2>6. (Lender \in holders' <=> Lender \in holders) /\ \A q \in Procs : Holds(q)' <=> Holds(q)
    BY <2>1, HoldersDiffer DEF Holds
  <2>7. LockIsHeld'
    BY <1>1, <2>2, <2>4, <2>6 DEF LockIsHeld
  <2>8. \A t \in Tools : disk'[t].log <=> disk[t].log \/ t = Tool(p)
    BY <1>1, <2>1 DEF OpsTypeOK, Disks
  <2>9. \A q \in Procs : OneAttempt(Tool(q)) /\ wrk[q] # "none" => Tool(q) # Tool(p)
    BY <1>2 DEF LogOpens, AttemptedOnce
  <2>10. \A t : OneAttempt(t) => t \in Tools
    BY DEF OneAttempt, Tools
  <2>11. AttemptedOnce'
    BY <1>1, <2>2, <2>4, <2>8, <2>9, <2>10 DEF AttemptedOnce, OneAttempt
  <2>12. QED
    BY <2>3, <2>5, <2>7, <2>11
<1>3. CASE ~LogOpens(Tool(p))
  <2>1. /\ sup' = [sup EXCEPT ![p].pc = "ended"] /\ UNCHANGED <<order, wrk>>
        /\ holders' = holders \ {Supervisor(p)}
        /\ disk' = Summarised(Tool(p), "INTERRUPTED")
    BY <1>3 DEF StartWorker, SupGoto
  <2>2. sup' = [sup EXCEPT ![p] = [pc |-> "ended", verdict |-> sup[p].verdict]]
    BY <2>1, OnlyTheStateMoves
  <2>3. disk' \in [Tools -> Disks] /\ \A t \in Tools : disk'[t].log = disk[t].log
    BY <1>1, <2>1, SummarisedIsADisk DEF OpsTypeOK, Verdicts
  <2>4. wrk' = [wrk EXCEPT ![p] = "none"]
    BY <1>1, <2>1 DEF OpsTypeOK
  <2>5. QED
    BY <1>1, <2>1, <2>2, <2>3, <2>4, SupervisorEndsStayLeased DEF Gone
<1>4. QED
  BY <1>2, <1>3

\* The worker that a supervisor reaps, stops or takes with it is gone.
LEMMA EndingStaysLeased ==
  ASSUME LeaseInv, NEW p \in Procs, Reap(p) \/ Stop(p) \/ Summarise(p) \/ Interrupt(p)
  PROVE  LeaseInv'
<1> USE DEF LeaseInv
<1>1. Tool(p) \in Tools /\ sup[p].pc \in {"supervising", "reaped"} /\ sup[p].verdict \in Verdicts
  BY DEF Reap, Stop, Summarise, Interrupt, SupAt, OpsTypeOK
<1>2. wrk = [wrk EXCEPT ![p] = wrk[p]] /\ disk \in [Tools -> Disks]
  BY DEF OpsTypeOK
<1>3. CASE Reap(p)
  <2>1. PICK v \in {"PASS", "FAIL"} : Settle(p, v)
    BY <1>3 DEF Reap
  <2>2. wrk[p] \in Gone /\ UNCHANGED <<wrk, order, disk>>
    BY <1>3 DEF Reap, Live, Settle
  <2>3. [pc |-> "reaped", verdict |-> v] \in [pc : {"reaped", "ended"}, verdict : Verdicts]
    BY DEF Verdicts
  <2>4. QED
    BY <1>1, <1>2, <2>1, <2>2, <2>3, SupervisorEndsStayLeased DEF Settle
<1>4. CASE Stop(p)
  <2>1. Settle(p, "STOPPED") /\ wrk' = [wrk EXCEPT ![p] = "dead"] /\ Live(p)
    BY <1>4 DEF Stop
  <2>2. [pc |-> "reaped", verdict |-> "STOPPED"] \in [pc : {"reaped", "ended"}, verdict : Verdicts]
    BY DEF Verdicts
  <2>3. QED
    BY <1>1, <1>2, <2>1, <2>2, SupervisorEndsStayLeased DEF Settle, Live, Gone
<1>5. CASE Summarise(p)
  <2>1. wrk[p] \in Gone
    BY <1>5 DEF Summarise, SupAt, WorkersAreSupervised, Live
  <2>2. sup' = [sup EXCEPT ![p] = [pc |-> "ended", verdict |-> sup[p].verdict]]
    BY <1>5, OnlyTheStateMoves DEF Summarise, SupGoto
  <2>3. disk' \in [Tools -> Disks] /\ \A t \in Tools : disk'[t].log = disk[t].log
    BY <1>1, <1>5, SummarisedIsADisk DEF Summarise, Verdicts
  <2>4. QED
    BY <1>1, <1>2, <1>5, <2>1, <2>2, <2>3, SupervisorEndsStayLeased DEF Summarise
<1>6. CASE Interrupt(p)
  <2>1. PICK w \in {wrk[p], "dead"} : /\ wrk' = [wrk EXCEPT ![p] = w]
                                      /\ w \in Gone /\ (wrk[p] = "none" => w = "none")
    BY <1>2, <1>6 DEF Interrupt, Live, Gone
  <2>2. sup' = [sup EXCEPT ![p] = [pc |-> "ended", verdict |-> sup[p].verdict]]
    BY <1>6, OnlyTheStateMoves DEF Interrupt, SupGoto
  <2>3. disk' \in [Tools -> Disks] /\ \A t \in Tools : disk'[t].log = disk[t].log
    BY <1>1, <1>6, SummarisedIsADisk DEF Interrupt, Verdicts
  <2>4. UNCHANGED order /\ holders' = holders \ {Supervisor(p), Worker(p)}
    BY <1>6 DEF Interrupt
  <2>5. [pc |-> "ended", verdict |-> sup[p].verdict] \in [pc : {"reaped", "ended"}, verdict : Verdicts]
    BY <1>1
  <2>6. QED
    BY <1>1, <2>1, <2>2, <2>3, <2>4, <2>5, SupervisorEndsStayLeased
<1>7. QED
  BY <1>3, <1>4, <1>5, <1>6

LEMMA KillSupervisorStaysLeased ==
  ASSUME LeaseInv, NEW p \in Procs, KillSupervisor(p)
  PROVE  LeaseInv'
<1> USE DEF LeaseInv
<1>1. /\ sup[p].pc # "idle" /\ UNCHANGED <<order, wrk, disk>>
      /\ sup' = [sup EXCEPT ![p].pc = "dead"] /\ holders' = holders \ {Supervisor(p)}
  BY DEF KillSupervisor, SupGoto
<1>2. \A q \in Procs : sup'[q].pc = IF q = p THEN "dead" ELSE sup[q].pc
  BY <1>1 DEF OpsTypeOK
<1>3. OpsTypeOK'
  BY <1>1 DEF OpsTypeOK, SupervisorStates
<1>4. \A q \in Procs : Tool(q)' = Tool(q) /\ Lent(q)' = Lent(q)
  BY <1>1 DEF Tool, Lent
<1>5. WorkersAreSupervised'
  BY <1>1, <1>2, <1>4 DEF WorkersAreSupervised, Live
<1>6. \A q \in Procs : Holds(q)' <=> Holds(q) /\ q # p
  BY <1>1, HoldersDiffer DEF Holds
<1>7. LockIsHeld'
  BY <1>1, <1>2, <1>4, <1>6 DEF LockIsHeld
<1>8. AttemptedOnce'
  BY <1>1, <1>4 DEF AttemptedOnce
<1>9. QED
  BY <1>3, <1>5, <1>7, <1>8

LEMMA LenderEndsStaysLeased ==
  ASSUME LeaseInv, LenderEnds
  PROVE  LeaseInv'
<1> USE DEF LeaseInv
<1>1. UNCHANGED <<order, sup, wrk, disk>> /\ holders' = holders \ {Lender}
  BY DEF LenderEnds
<1>2. \A q \in Procs : Tool(q)' = Tool(q) /\ Lent(q)' = Lent(q) /\ (Holds(q)' <=> Holds(q))
  BY <1>1, HoldersDiffer DEF Tool, Lent, Holds
<1>3. OpsTypeOK' /\ WorkersAreSupervised' /\ AttemptedOnce'
  BY <1>1, <1>2 DEF OpsTypeOK, WorkersAreSupervised, Live, AttemptedOnce
<1>4. LockIsHeld'
  BY <1>1, <1>2 DEF LockIsHeld
<1>5. QED
  BY <1>3, <1>4

-----------------------------------------------------------------------------
(* The worker                                                              *)

LEMMA WorkerStaysLeased ==
  ASSUME LeaseInv, NEW p \in Procs, KernelKills(p) \/ KillWorker(p) \/ WorkerStep(p)
  PROVE  LeaseInv'
<1> USE DEF LeaseInv
<1>1. disk \in [Tools -> Disks] /\ Tool(p) \in Tools \cup {"command"}
  BY ToolsAreTold DEF OpsTypeOK
<1>2. ASSUME wrk[p] \notin Gone
      PROVE  Tool(p) \in Tools /\ wrk[p] # "none" /\ Live(p)
  BY <1>1, <1>2 DEF WorkersAreSupervised, Live, Gone
<1>3. ASSUME wrk[p] \notin Gone, NEW w \in WorkerStates \ {"none"}, wrk' = [wrk EXCEPT ![p] = w],
             UNCHANGED <<order, sup>>, holders' \in {holders, holders \ {Worker(p)}},
             disk' \in [Tools -> Disks], \A t \in Tools : disk'[t].log = disk[t].log
      PROVE  LeaseInv'
  BY <1>2, <1>3, WorkerMovesStayLeased
<1> USE DEF WorkGoto, Fails, WorkerStates, Gone
<1>4. CASE KernelKills(p) \/ KillWorker(p)
  BY <1>1, <1>3, <1>4 DEF KernelKills, Doomed, Guarded, KillWorker, Live
<1>5. CASE InstallGuard(p)
  BY <1>1, <1>3, <1>5 DEF InstallGuard
<1>6. CASE Admit(p)
  BY <1>1, <1>3, <1>6 DEF Admit
<1>7. CASE RecoveryWork(p)
  BY <1>7 DEF RecoveryWork, opsVars, OpsTypeOK, WorkersAreSupervised, LockIsHeld, AttemptedOnce,
              Holds, Lent, Tool, Live
<1>8. CASE RecoveryWorked(p)
  BY <1>1, <1>3, <1>8 DEF RecoveryWorked
<1>9. CASE Work(p)
  <2>1. Tool(p) \in Tools
    BY <1>2, <1>9 DEF Work
  <2>2. disk' \in [Tools -> Disks] /\ \A t \in Tools : disk'[t].log = disk[t].log
    BY <1>1, <1>9, <2>1 DEF Work, Disks
  <2>3. QED
    BY <1>3, <1>9, <2>2 DEF Work
<1>10. CASE Produce(p)
  <2>1. Tool(p) \in Tools
    BY <1>2, <1>10 DEF Produce
  <2>2. disk' \in [Tools -> Disks] /\ \A t \in Tools : disk'[t].log = disk[t].log
    BY <1>1, <1>10, <2>1 DEF Produce, Disks
  <2>3. QED
    BY <1>3, <1>10, <2>2 DEF Produce
<1>11. CASE WriteMarker(p)
  BY <1>1, <1>3, <1>11 DEF WriteMarker
<1>12. CASE WriteRunReceipt(p)
  <2>1. Tool(p) \in Tools
    BY <1>2, <1>12 DEF WriteRunReceipt
  <2>2. disk' \in [Tools -> Disks] /\ \A t \in Tools : disk'[t].log = disk[t].log
    <3>1. UNCHANGED disk \/ disk' = [disk EXCEPT ![Tool(p)].receipt = TRUE]
      BY <1>12 DEF WriteRunReceipt
    <3>2. CASE disk' = [disk EXCEPT ![Tool(p)].receipt = TRUE]
      BY <1>1, <2>1, <3>2 DEF Disks
    <3>3. QED
      BY <1>1, <3>1, <3>2
  <2>3. QED
    BY <1>3, <1>12, <2>2 DEF WriteRunReceipt
<1>13. QED
  BY <1>4, <1>5, <1>6, <1>7, <1>8, <1>9, <1>10, <1>11, <1>12 DEF WorkerStep

LEMMA NextStaysLeased ==
  ASSUME LeaseInv, Next
  PROVE  LeaseInv'
<1>1. ASSUME UNCHANGED opsVars
      PROVE  LeaseInv'
  BY <1>1 DEF opsVars, LeaseInv, OpsTypeOK, WorkersAreSupervised, LockIsHeld, AttemptedOnce,
              Holds, Lent, Tool, Live
<1>2. ASSUME NEW p \in Procs,
             \/ Begin(p) \/ Supervise(p) \/ Interrupt(p) \/ KillSupervisor(p)
             \/ KernelKills(p) \/ KillWorker(p) \/ WorkerStep(p)
      PROVE  LeaseInv'
  BY <1>2, BeginStaysLeased, TakeLockStaysLeased, StartWorkerStaysLeased, EndingStaysLeased,
     KillSupervisorStaysLeased, WorkerStaysLeased DEF Supervise
<1>3. ASSUME NEW p \in Procs, StartCommand(p) \/ CommandWork(p)
      PROVE  LeaseInv'
  BY <1>1, <1>3 DEF StartCommand, CommandWork
<1>4. ASSUME NEW p \in Procs, CommandDies(p)
      PROVE  LeaseInv'
  BY <1>4 DEF CommandDies, LeaseInv, OpsTypeOK, WorkersAreSupervised, LockIsHeld, AttemptedOnce,
              Holds, Lent, Tool, Live
<1>5. QED
  BY <1>1, <1>2, <1>3, <1>4, LenderEndsStaysLeased DEF Next

-----------------------------------------------------------------------------
(* The recovery transaction                                                *)

WithPanels  == {"seal", "commit", "recovered"}
WithQuarters == {"quarters"} \cup WithPanels
WithReported == {"derive"} \cup WithQuarters
Marked      == {"copy", "copied", "publish"} \cup WithReported
Owning      == {"mark"} \cup Marked
Observed    == {"reserve"} \cup Owning
TxStates    == {"idle", "start", "verify", "observe", "failed", "dead"} \cup Observed

Contents == {"attested", "other"}
Files == Seq(Contents)
Pins == UNION {[files -> Nat] : files \in SUBSET Sources}
Roots == [owner : Procs \cup {NoOne}, controls : SUBSET Procs, copied : Files,
          reported : Files, panels : Files, from : Contents, partial : SUBSET Procs,
          receipt : Procs \cup {NoOne}]

RecoveryTypeOK ==
  /\ source \in [Sources -> [content : Contents, stamp : Nat]]
  /\ root \in Roots
  /\ tx \in [Procs -> [pc : TxStates, pins : Pins]]
  /\ reader \in [Readers -> [pc : {"idle", "checked", "open", "read"}, of : {"reported", "panels"},
                             got : Files]]

Complete == [i \in StageFiles |-> "attested"]

\* What a transaction knows of the sources it has recorded: whoever replaces
\* one gives it another stamp.
KnowsSources(p) ==
  /\ \A f \in DOMAIN tx[p].pins : tx[p].pins[f] <= source[f].stamp
  /\ tx[p].pc \in Observed =>
       /\ Observations \in DOMAIN tx[p].pins
       /\ tx[p].pins[Observations] = source[Observations].stamp => Attested(Observations)

\* How far the root of the transaction that reserved it has got.
KnowsRoot(p) ==
  /\ tx[p].pc \in Owning => root.owner = p
  /\ tx[p].pc \in Marked => p \in root.controls
  /\ tx[p].pc = "mark" => root.copied = <<>>
  /\ tx[p].pc = "copy" => /\ Len(root.copied) < Staged
                          /\ \A i \in DOMAIN root.copied : root.copied[i] = "attested"
  /\ tx[p].pc = "copied" => /\ Len(root.copied) \in 1 .. Staged
                            /\ \A i \in 1 .. (Len(root.copied) - 1) : root.copied[i] = "attested"
  /\ tx[p].pc = "publish" => Len(root.copied) = Staged
  /\ tx[p].pc \in WithReported => root.reported = Complete
  /\ tx[p].pc \in WithQuarters => root.from = "attested"
  /\ tx[p].pc \in WithPanels => root.panels = Complete

\* Nothing is published in a root without a marker; a receipt is the last thing.
RootIsMarked ==
  /\ root.owner = NoOne => root.copied = <<>>
  /\ root.reported # <<>> \/ root.panels # <<>> => root.controls # {}
  /\ root.receipt # NoOne => root.receipt \in Procs /\ tx[root.receipt].pc = "recovered"

SawTheReceipt(k) ==
  /\ reader[k].pc = "open" => Published(reader[k].of) # <<>>
  /\ reader[k].pc = "read" => root.receipt # NoOne /\ reader[k].got = Complete

\* A worker's transaction begins once, when it is admitted.
BeginsOnce ==
  \A p \in Procs : Tool(p) = "recovery" /\ wrk[p] \in {"none", "starting", "guarded"} =>
    tx[p].pc = "idle"

RootInv ==
  /\ RecoveryTypeOK
  /\ \A p \in Procs : KnowsSources(p) /\ KnowsRoot(p)
  /\ RootIsMarked
  /\ \A k \in Readers : SawTheReceipt(k)

-----------------------------------------------------------------------------
LEMMA AttestedIsComplete ==
  ASSUME NEW s \in Files, Len(s) = Staged, \A i \in DOMAIN s : s[i] = "attested"
  PROVE  s = Complete
<1>1. s \in [1 .. Staged -> Contents]
  BY DEF Files
<1>2. \A i \in 1 .. Staged : s[i] = "attested"
  BY <1>1
<1>3. QED
  BY <1>1, <1>2 DEF Complete, StageFiles

LEMMA CompleteIsSomething ==
  Complete \in Files /\ Complete # <<>> /\ Len(Complete) = Staged
<1>1. Complete \in Files /\ Len(Complete) = Staged
  BY RecoveryAssumption DEF Complete, Files, StageFiles, Contents
<1>2. QED
  BY <1>1, RecoveryAssumption

LEMMA ReceiptStandsForAll ==
  ASSUME RootInv, root.receipt # NoOne
  PROVE  root.reported = Complete /\ root.panels = Complete /\ root.from = "attested"
<1>1. root.receipt \in Procs /\ tx[root.receipt].pc = "recovered"
  BY DEF RootInv, RootIsMarked
<1>2. QED
  BY <1>1 DEF RootInv, KnowsRoot, WithReported, WithQuarters, WithPanels

LEMMA InitIsRecoverable ==
  Init => RootInv /\ BeginsOnce
<1> SUFFICES ASSUME Init PROVE RootInv /\ BeginsOnce
  OBVIOUS
<1>1. /\ source = [f \in Sources |-> [content |-> "attested", stamp |-> 0]]
      /\ root = NoRoot /\ tx = [p \in Procs |-> NoTx] /\ reader = [k \in Readers |-> NoRead]
  BY DEF Init, RecoveryInit
<1>2. <<>> \in Files
  BY DEF Files
<1>3. \A p \in Procs : tx[p].pc = "idle" /\ tx[p].pins = [f \in {} |-> 0]
  BY <1>1 DEF NoTx
<1>4. NoTx \in [pc : TxStates, pins : Pins]
  <2>1. [f \in {} |-> 0] \in [{} -> Nat]
    OBVIOUS
  <2>2. {} \in SUBSET Sources
    OBVIOUS
  <2>3. [f \in {} |-> 0] \in Pins
    BY <2>1, <2>2 DEF Pins
  <2>4. QED
    BY <2>3 DEF NoTx, TxStates
<1>5. RecoveryTypeOK
  BY <1>1, <1>2, <1>4 DEF RecoveryTypeOK, Roots, NoRoot, NoRead, Contents
<1>6. \A p \in Procs : KnowsSources(p) /\ KnowsRoot(p)
  BY <1>3 DEF KnowsSources, KnowsRoot, Observed, Owning, Marked, WithReported, WithQuarters, WithPanels
<1>7. RootIsMarked /\ \A k \in Readers : SawTheReceipt(k)
  BY <1>1 DEF RootIsMarked, SawTheReceipt, NoRoot, NoRead
<1>8. QED
  BY <1>3, <1>5, <1>6, <1>7 DEF RootInv, BeginsOnce

-----------------------------------------------------------------------------
(* A step of a transaction                                                 *)

\* What is in a root is never taken out.
RootGrows ==
  /\ root.controls \subseteq root'.controls
  /\ root.reported # <<>> => root'.reported # <<>>
  /\ root.panels # <<>> => root'.panels # <<>>
  /\ root.receipt # NoOne => root'.receipt = root.receipt

\* Only who reserved the root writes in it, or who reserves it now.
MayWrite(p) == tx[p].pc \in Owning \/ root.owner = NoOne

LEMMA SameRootSameKnowledge ==
  ASSUME NEW p, KnowsRoot(p), tx'[p] = tx[p], root' = root
  PROVE  KnowsRoot(p)'
BY DEF KnowsRoot

LEMMA WithoutARootNothingIsKnown ==
  ASSUME NEW p, tx'[p].pc \notin Owning
  PROVE  KnowsRoot(p)'
BY DEF KnowsRoot, Owning, Marked, WithReported, WithQuarters, WithPanels

LEMMA TransactionMoves ==
  ASSUME RootInv, NEW p \in Procs, NEW t \in [pc : TxStates, pins : Pins],
         tx[p].pc # "recovered", tx' = [tx EXCEPT ![p] = t], UNCHANGED <<source, reader>>,
         root' \in Roots, root' = root \/ MayWrite(p), RootGrows,
         KnowsSources(p)', KnowsRoot(p)',
         root'.owner = NoOne => root' = root,
         root'.reported # <<>> \/ root'.panels # <<>> => root'.controls # {},
         root'.receipt \in {root.receipt, NoOne} \/ (root'.receipt = p /\ t.pc = "recovered")
  PROVE  RootInv'
<1> USE DEF RootInv
<1>1. \A q \in Procs : tx'[q] = IF q = p THEN t ELSE tx[q]
  BY DEF RecoveryTypeOK
<1>2. RecoveryTypeOK'
  BY DEF RecoveryTypeOK
<1>3. ASSUME NEW q \in Procs, q # p
      PROVE  KnowsSources(q)' /\ KnowsRoot(q)'
  <2>1. tx'[q] = tx[q] /\ KnowsSources(q) /\ KnowsRoot(q)
    BY <1>1, <1>3
  <2>2. KnowsSources(q)'
    BY <2>1 DEF KnowsSources, Attested
  <2>3. tx[q].pc \in Owning => root.owner = q
    BY <2>1 DEF KnowsRoot
  <2>4. tx[p].pc \in Owning => root.owner = p
    BY DEF KnowsRoot
  <2>5. tx[q].pc \in Owning => root' = root
    BY <1>3, <2>3, <2>4, NobodyAssumption DEF MayWrite
  <2>6. CASE tx[q].pc \in Owning
    BY <2>1, <2>2, <2>5, <2>6, SameRootSameKnowledge
  <2>7. CASE tx[q].pc \notin Owning
    BY <2>1, <2>2, <2>7, WithoutARootNothingIsKnown
  <2>8. QED
    BY <2>6, <2>7
<1>4. \A q \in Procs : KnowsSources(q)' /\ KnowsRoot(q)'
  BY <1>3
<1>5. RootIsMarked'
  <2>1. root'.owner = NoOne => root'.copied = <<>>
    BY DEF RootIsMarked
  <2>2. ASSUME root'.receipt # NoOne
        PROVE  root'.receipt \in Procs /\ tx'[root'.receipt].pc = "recovered"
    BY <1>1, <2>2 DEF RootIsMarked
  <2>3. QED
    BY <2>1, <2>2 DEF RootIsMarked
<1>6. \A k \in Readers : SawTheReceipt(k)'
  BY DEF SawTheReceipt, RootGrows, Published
<1>7. QED
  BY <1>2, <1>4, <1>5, <1>6

LEMMA PinnedArePins ==
  ASSUME RecoveryTypeOK, NEW p \in Procs, NEW files \in SUBSET Sources
  PROVE  LET pins == tx[p].pins
             now == Pinned(pins, files) IN
         /\ now \in Pins /\ DOMAIN now = DOMAIN pins \cup files
         /\ \A f \in DOMAIN now : now[f] = IF f \in DOMAIN pins THEN pins[f] ELSE source[f].stamp
<1> DEFINE pins == tx[p].pins
           now == Pinned(pins, files)
<1>0. pins \in Pins
  BY DEF RecoveryTypeOK
<1>1. PICK before \in SUBSET Sources : pins \in [before -> Nat]
  BY <1>0 DEF Pins
<1>2. \A f \in Sources : source[f].stamp \in Nat
  BY DEF RecoveryTypeOK
<1>3. now = [f \in before \cup files |-> IF f \in before THEN pins[f] ELSE source[f].stamp]
  BY <1>1 DEF Pinned
<1>4. now \in [before \cup files -> Nat]
  BY <1>1, <1>2, <1>3
<1>5. before \cup files \in SUBSET Sources
  OBVIOUS
<1>6. now \in Pins
  BY <1>4, <1>5 DEF Pins
<1>7. QED
  BY <1>1, <1>3, <1>6

\* A step that leaves the root as it is.
LEMMA LookingMoves ==
  ASSUME RootInv, NEW p \in Procs, NEW t \in [pc : TxStates, pins : Pins],
         tx[p].pc # "recovered", tx' = [tx EXCEPT ![p] = t], UNCHANGED <<source, reader, root>>,
         KnowsSources(p)', KnowsRoot(p)'
  PROVE  RootInv'
<1>1. root \in Roots
  BY DEF RootInv, RecoveryTypeOK
<1>2. RootGrows
  BY DEF RootGrows
<1>3. root.reported # <<>> \/ root.panels # <<>> => root.controls # {}
  BY DEF RootInv, RootIsMarked
<1>4. QED
  BY <1>1, <1>2, <1>3, TransactionMoves

LEMMA OnlyTheStepMoves ==
  ASSUME RecoveryTypeOK, NEW p \in Procs, NEW pc \in TxStates
  PROVE  LET t == [pc |-> pc, pins |-> tx[p].pins] IN
         t \in [pc : TxStates, pins : Pins] /\ [tx EXCEPT ![p].pc = pc] = [tx EXCEPT ![p] = t]
<1>1. tx[p] \in [pc : TxStates, pins : Pins]
  BY DEF RecoveryTypeOK
<1>2. [tx[p] EXCEPT !.pc = pc] = [pc |-> pc, pins |-> tx[p].pins]
  BY <1>1
<1>3. QED
  BY <1>1, <1>2

LEMMA GivingUpMoves ==
  ASSUME RootInv, NEW p \in Procs, NEW pc \in {"start", "failed", "dead"}, tx[p].pc # "recovered",
         Goto(p, pc), UNCHANGED <<source, reader, root>>
  PROVE  RootInv'
<1>1. pc \in TxStates /\ pc \notin Observed /\ pc \notin Owning
  BY DEF TxStates, Observed, Owning, Marked, WithReported, WithQuarters, WithPanels
<1> DEFINE t == [pc |-> pc, pins |-> tx[p].pins]
<1>2. t \in [pc : TxStates, pins : Pins] /\ tx' = [tx EXCEPT ![p] = t]
  BY <1>1, OnlyTheStepMoves DEF RootInv, Goto
<1>3. tx'[p].pc = pc /\ tx'[p].pins = tx[p].pins
  BY <1>2 DEF RootInv, RecoveryTypeOK
<1>4. KnowsSources(p)'
  BY <1>1, <1>3 DEF RootInv, KnowsSources
<1>5. KnowsRoot(p)'
  BY <1>1, <1>3 DEF KnowsRoot, Owning, Marked, WithReported, WithQuarters, WithPanels
<1>6. QED
  BY <1>2, <1>4, <1>5, LookingMoves

\* A step that keeps what it has recorded of the sources.
LEMMA GoingOnMoves ==
  ASSUME RootInv, NEW p \in Procs, NEW pc \in TxStates, Goto(p, pc), UNCHANGED <<source, reader>>,
         tx[p].pc # "recovered", pc \in Observed => tx[p].pc \in Observed,
         root' \in Roots, root' = root \/ MayWrite(p), RootGrows,
         tx'[p].pc = pc => KnowsRoot(p)',
         root'.owner = NoOne => root' = root,
         root'.reported # <<>> \/ root'.panels # <<>> => root'.controls # {},
         root'.receipt \in {root.receipt, NoOne} \/ (root'.receipt = p /\ pc = "recovered")
  PROVE  RootInv'
<1> DEFINE t == [pc |-> pc, pins |-> tx[p].pins]
<1>1. t \in [pc : TxStates, pins : Pins] /\ tx' = [tx EXCEPT ![p] = t] /\ t.pc = pc
  BY OnlyTheStepMoves DEF RootInv, Goto
<1>2. tx'[p].pc = pc /\ tx'[p].pins = tx[p].pins
  BY <1>1 DEF RootInv, RecoveryTypeOK
<1>3. KnowsSources(p)'
  BY <1>2 DEF RootInv, KnowsSources, Attested
<1>4. KnowsRoot(p)'
  BY <1>2
<1> HIDE DEF t
<1>5. QED
  BY <1>1, <1>3, <1>4, TransactionMoves

\* Such a step that leaves the root as it is.
LEMMA GoingOnLookingMoves ==
  ASSUME RootInv, NEW p \in Procs, NEW pc \in TxStates, Goto(p, pc), UNCHANGED <<source, reader, root>>,
         tx[p].pc # "recovered", pc \in Observed => tx[p].pc \in Observed,
         tx'[p].pc = pc => KnowsRoot(p)'
  PROVE  RootInv'
<1>1. root \in Roots
  BY DEF RootInv, RecoveryTypeOK
<1>2. RootGrows
  BY DEF RootGrows
<1>3. root.reported # <<>> \/ root.panels # <<>> => root.controls # {}
  BY DEF RootInv, RootIsMarked
<1>4. QED
  BY <1>1, <1>2, <1>3, GoingOnMoves

LEMMA PinStageMoves ==
  ASSUME RootInv, NEW p \in Procs, PinStage(p)
  PROVE  RootInv'
<1>1. tx[p].pc = "start" /\ UNCHANGED <<source, reader, root>>
  BY DEF PinStage, At, Elsewhere, GiveUp
<1>2. CASE root.owner # NoOne
  BY <1>1, <1>2, GivingUpMoves DEF PinStage, GiveUp
<1>3. CASE root.owner = NoOne
  <2> DEFINE pins == Pinned(tx[p].pins, StageFiles)
             t == [pc |-> "verify", pins |-> pins]
  <2>1. tx' = [tx EXCEPT ![p] = t]
    BY <1>3 DEF PinStage
  <2>2. StageFiles \in SUBSET Sources
    BY DEF Sources
  <2>3. /\ pins \in Pins
        /\ \A f \in DOMAIN pins : pins[f] = IF f \in DOMAIN tx[p].pins THEN tx[p].pins[f] ELSE source[f].stamp
        /\ DOMAIN pins = DOMAIN tx[p].pins \cup StageFiles
    BY <2>2, PinnedArePins DEF RootInv
  <2> HIDE DEF pins
  <2>4. t \in [pc : TxStates, pins : Pins]
    BY <2>3 DEF TxStates
  <2>5. tx'[p] = t
    BY <2>1 DEF RootInv, RecoveryTypeOK
  <2>6. \A f \in StageFiles : source[f].stamp \in Nat
    BY <2>2 DEF RootInv, RecoveryTypeOK
  <2>7. KnowsSources(p)'
    BY <1>1, <2>3, <2>5, <2>6
    DEF RootInv, KnowsSources, Observed, Owning, Marked, WithReported, WithQuarters, WithPanels
  <2>8. KnowsRoot(p)'
    <3>1. tx'[p].pc \notin Owning
      BY <2>5 DEF Owning, Marked, WithReported, WithQuarters, WithPanels
    <3>2. QED
      BY <3>1, WithoutARootNothingIsKnown
  <2> HIDE DEF t
  <2>9. QED
    BY <1>1, <2>1, <2>4, <2>7, <2>8, LookingMoves
<1>4. QED
  BY <1>2, <1>3

LEMMA VerifyStageMoves ==
  ASSUME RootInv, NEW p \in Procs, VerifyStage(p)
  PROVE  RootInv'
<1>1. tx[p].pc = "verify" /\ UNCHANGED <<source, reader, root>>
  BY DEF VerifyStage, At, Elsewhere, GiveUp
<1>2. CASE Goto(p, "failed")
  BY <1>1, <1>2, GivingUpMoves
<1>3. CASE Goto(p, "observe")
  <2>1. "observe" \in TxStates /\ "observe" \notin Observed /\ "observe" \notin Owning
    BY DEF TxStates, Observed, Owning, Marked, WithReported, WithQuarters, WithPanels
  <2>2. QED
    BY <1>1, <1>3, <2>1, GoingOnLookingMoves, WithoutARootNothingIsKnown
<1>4. QED
  BY <1>2, <1>3 DEF VerifyStage, GiveUp

LEMMA VerifyObservationsMoves ==
  ASSUME RootInv, NEW p \in Procs, VerifyObservations(p)
  PROVE  RootInv'
<1>1. tx[p].pc = "observe" /\ UNCHANGED <<source, reader, root>>
  BY DEF VerifyObservations, At, Elsewhere, GiveUp
<1>2. CASE Goto(p, "failed")
  BY <1>1, <1>2, GivingUpMoves
<1>3. CASE ~Goto(p, "failed")
  <2> DEFINE pins == Pinned(tx[p].pins, {Observations})
             t == [pc |-> "reserve", pins |-> pins]
  <2>1. tx' = [tx EXCEPT ![p] = t] /\ Attested(Observations)
    BY <1>3 DEF VerifyObservations, GiveUp
  <2>2. {Observations} \in SUBSET Sources
    BY DEF Sources
  <2>3. /\ pins \in Pins
        /\ \A f \in DOMAIN pins : pins[f] = IF f \in DOMAIN tx[p].pins THEN tx[p].pins[f] ELSE source[f].stamp
        /\ DOMAIN pins = DOMAIN tx[p].pins \cup {Observations}
    BY <2>2, PinnedArePins DEF RootInv
  <2> HIDE DEF pins
  <2>4. t \in [pc : TxStates, pins : Pins]
    BY <2>3 DEF TxStates, Observed
  <2>5. tx'[p] = t
    BY <2>1 DEF RootInv, RecoveryTypeOK
  <2>6. source[Observations].stamp \in Nat
    BY <2>2 DEF RootInv, RecoveryTypeOK
  <2>7. KnowsSources(p)'
    BY <1>1, <2>1, <2>3, <2>5, <2>6 DEF RootInv, KnowsSources, Attested
  <2>8. KnowsRoot(p)'
    <3>1. tx'[p].pc \notin Owning
      BY <2>5 DEF Owning, Marked, WithReported, WithQuarters, WithPanels
    <3>2. QED
      BY <3>1, WithoutARootNothingIsKnown
  <2> HIDE DEF t
  <2>9. QED
    BY <1>1, <2>1, <2>4, <2>7, <2>8, LookingMoves
<1>4. QED
  BY <1>2, <1>3

LEMMA ReserveMoves ==
  ASSUME RootInv, NEW p \in Procs, Reserve(p)
  PROVE  RootInv'
<1>1. tx[p].pc = "reserve" /\ UNCHANGED <<source, reader>>
  BY DEF Reserve, At, Elsewhere
<1>2. CASE GiveUp(p)
  BY <1>1, <1>2, GivingUpMoves DEF GiveUp
<1>3. CASE ~GiveUp(p)
  <2>1. root.owner = NoOne /\ Goto(p, "mark") /\ root' = [root EXCEPT !.owner = p]
    BY <1>3 DEF Reserve, Reserves
  <2>2. root' \in Roots /\ root'.owner = p /\ root'.copied = <<>>
    BY <2>1 DEF RootInv, RecoveryTypeOK, Roots, RootIsMarked
  <2>3. tx'[p].pc = "mark" => KnowsRoot(p)'
    BY <2>2 DEF KnowsRoot, Marked, WithReported, WithQuarters, WithPanels
  <2>4. RootGrows /\ root'.receipt = root.receipt
    BY <2>1 DEF RootGrows, RootInv, RecoveryTypeOK, Roots
  <2>5. root'.reported # <<>> \/ root'.panels # <<>> => root'.controls # {}
    BY <2>1 DEF RootInv, RecoveryTypeOK, Roots, RootIsMarked
  <2>6. "mark" \in TxStates /\ tx[p].pc \in Observed
    BY <1>1 DEF TxStates, Observed, Owning
  <2>7. QED
    BY <1>1, <2>1, <2>2, <2>3, <2>4, <2>5, <2>6, NobodyAssumption, GoingOnMoves DEF MayWrite
<1>4. QED
  BY <1>2, <1>3

\* A step of the transaction that has reserved the root, under its marker.
LEMMA WritingMoves ==
  ASSUME RootInv, NEW p \in Procs, NEW pc \in TxStates, Goto(p, pc), UNCHANGED <<source, reader>>,
         tx[p].pc \in Owning \ {"recovered"}, root' \in Roots, RootGrows,
         root'.owner = root.owner, p \in root'.controls,
         tx'[p].pc = pc => KnowsRoot(p)',
         root'.receipt \in {root.receipt, NoOne} \/ (root'.receipt = p /\ pc = "recovered")
  PROVE  RootInv'
<1>1. root'.owner # NoOne
  BY NobodyAssumption DEF RootInv, KnowsRoot
<1>2. MayWrite(p) /\ tx[p].pc \in Observed
  BY DEF MayWrite, Observed
<1>3. QED
  BY <1>1, <1>2, GoingOnMoves

LEMMA MarkPendingMoves ==
  ASSUME RootInv, NEW p \in Procs, MarkPending(p)
  PROVE  RootInv'
<1>1. /\ tx[p].pc = "mark" /\ UNCHANGED <<source, reader>> /\ Goto(p, "copy")
      /\ root' = [root EXCEPT !.controls = @ \cup {p}]
  BY DEF MarkPending, At, Elsewhere
<1>2. root.owner = p /\ root.copied = <<>> /\ root \in Roots
  BY <1>1 DEF RootInv, KnowsRoot, Owning, RecoveryTypeOK
<1>3. root' \in Roots /\ root'.owner = p /\ root'.copied = <<>> /\ p \in root'.controls
      /\ root'.receipt = root.receipt /\ RootGrows
  BY <1>1, <1>2 DEF Roots, RootGrows
<1>4. tx'[p].pc = "copy" => KnowsRoot(p)'
  BY <1>3, RecoveryAssumption DEF KnowsRoot, WithReported, WithQuarters, WithPanels
<1>5. "copy" \in TxStates /\ tx[p].pc \in Owning \ {"recovered"}
  BY <1>1 DEF TxStates, Observed, Owning, Marked
<1>6. QED
  BY <1>1, <1>2, <1>3, <1>4, <1>5, WritingMoves

\* What stands when the owner has marked its root.
LEMMA MarkedStands ==
  ASSUME RootInv, NEW p \in Procs, tx[p].pc \in Marked
  PROVE  /\ root \in Roots /\ root.owner = p /\ p \in root.controls
         /\ tx[p].pc \in Owning /\ tx[p].pc \in Observed
         /\ KnowsRoot(p) /\ KnowsSources(p)
BY DEF RootInv, KnowsRoot, Owning, Observed, RecoveryTypeOK

LEMMA CopyPayloadMoves ==
  ASSUME RootInv, NEW p \in Procs, CopyPayload(p)
  PROVE  RootInv'
<1>1. tx[p].pc = "copy" /\ UNCHANGED <<source, reader>>
  BY DEF CopyPayload, At, Elsewhere
<1>2. CASE GiveUp(p)
  BY <1>1, <1>2, GivingUpMoves DEF GiveUp
<1>3. CASE ~GiveUp(p)
  <2> DEFINE f == Len(root.copied) + 1
  <2>1. /\ f \in StageFiles /\ Goto(p, "copied")
        /\ root' = [root EXCEPT !.copied = Append(@, source[f].content)]
    BY <1>3 DEF CopyPayload
  <2>2. root \in Roots /\ root.owner = p /\ p \in root.controls /\ KnowsRoot(p)
    BY <1>1, MarkedStands DEF Marked
  <2>3. source[f].content \in Contents /\ root.copied \in Seq(Contents)
    BY <2>1, <2>2 DEF RootInv, RecoveryTypeOK, Sources, Roots, Files
  <2>4. /\ root'.copied = Append(root.copied, source[f].content)
        /\ root'.owner = p /\ p \in root'.controls /\ root'.receipt = root.receipt
        /\ RootGrows
    BY <2>1, <2>2 DEF Roots, RootGrows
  <2>5. root'.copied \in Files
    BY <2>3, <2>4 DEF Files
  <2>6. root' \in Roots
    BY <2>1, <2>2, <2>4, <2>5 DEF Roots
  <2>7. \A i \in 1 .. Len(root.copied) : root.copied[i] = "attested"
    BY <1>1, <2>2, <2>3 DEF KnowsRoot
  <2>8. Len(root'.copied) = f /\ \A i \in 1 .. (f - 1) : root'.copied[i] = "attested"
    BY <2>3, <2>4, <2>7
  <2>9. f \in 1 .. Staged
    BY <2>1 DEF StageFiles
  <2>10. tx'[p].pc = "copied" => KnowsRoot(p)'
    BY <2>4, <2>8, <2>9 DEF KnowsRoot, WithReported, WithQuarters, WithPanels
  <2>11. "copied" \in TxStates /\ tx[p].pc \in Owning \ {"recovered"}
    BY <1>1 DEF TxStates, Observed, Owning, Marked
  <2> HIDE DEF f
  <2>12. QED
    BY <1>1, <2>1, <2>2, <2>4, <2>6, <2>10, <2>11, WritingMoves
<1>4. QED
  BY <1>2, <1>3

LEMMA CheckCopyMoves ==
  ASSUME RootInv, NEW p \in Procs, CheckCopy(p)
  PROVE  RootInv'
<1>1. tx[p].pc = "copied" /\ UNCHANGED <<source, reader, root>>
  BY DEF CheckCopy, At, Elsewhere, GiveUp
<1>2. CASE GiveUp(p)
  BY <1>1, <1>2, GivingUpMoves DEF GiveUp
<1>3. CASE ~GiveUp(p)
  <2> DEFINE n == Len(root.copied)
             pc == IF n = Staged THEN "publish" ELSE "copy"
  <2>1. root.copied[n] = "attested" /\ Goto(p, pc)
    BY <1>3 DEF CheckCopy
  <2>2. root \in Roots /\ root.owner = p /\ p \in root.controls /\ tx[p].pc \in Observed /\ KnowsRoot(p)
    BY <1>1, MarkedStands DEF Marked
  <2>3. n \in 1 .. Staged /\ \A i \in 1 .. (n - 1) : root.copied[i] = "attested"
    BY <1>1, <2>2 DEF KnowsRoot
  <2>4. root.copied \in Seq(Contents)
    BY <2>2 DEF Roots, Files
  <2>5. \A i \in DOMAIN root.copied : root.copied[i] = "attested"
    BY <2>1, <2>3, <2>4
  <2>6. n < Staged \/ n = Staged
    BY <2>3, RecoveryAssumption
  <2>7. tx'[p].pc = pc => KnowsRoot(p)'
    BY <1>1, <2>2, <2>5, <2>6 DEF KnowsRoot, WithReported, WithQuarters, WithPanels
  <2>8. pc \in TxStates
    BY DEF TxStates, Observed, Owning, Marked
  <2> HIDE DEF pc
  <2>9. QED
    BY <1>1, <2>1, <2>2, <2>7, <2>8, GoingOnLookingMoves
<1>4. QED
  BY <1>2, <1>3

LEMMA PublishReportedMoves ==
  ASSUME RootInv, NEW p \in Procs, PublishReported(p)
  PROVE  RootInv'
<1>1. tx[p].pc = "publish" /\ UNCHANGED <<source, reader>>
  BY DEF PublishReported, At, Elsewhere
<1>2. CASE GiveUp(p)
  BY <1>1, <1>2, GivingUpMoves DEF GiveUp
<1>3. CASE ~GiveUp(p)
  <2>1. /\ \A i \in DOMAIN root.copied : root.copied[i] = "attested"
        /\ root.reported = <<>> /\ Goto(p, "derive")
        /\ root' = [root EXCEPT !.reported = root.copied]
    BY <1>3 DEF PublishReported
  <2>2. root \in Roots /\ root.owner = p /\ p \in root.controls /\ KnowsRoot(p)
    BY <1>1, MarkedStands DEF Marked
  <2>3. root.copied \in Files /\ Len(root.copied) = Staged
    BY <1>1, <2>2 DEF Roots, KnowsRoot
  <2>4. root.copied = Complete
    BY <2>1, <2>3, AttestedIsComplete
  <2>5. /\ root' \in Roots /\ root'.reported = Complete
        /\ root'.owner = p /\ p \in root'.controls /\ root'.receipt = root.receipt
        /\ RootGrows
    BY <2>1, <2>2, <2>4 DEF Roots, RootGrows
  <2>6. tx'[p].pc = "derive" => KnowsRoot(p)'
    BY <2>5 DEF KnowsRoot, WithQuarters, WithPanels
  <2>7. "derive" \in TxStates /\ tx[p].pc \in Owning \ {"recovered"}
    BY <1>1 DEF TxStates, Observed, Owning, Marked, WithReported
  <2>8. QED
    BY <1>1, <2>1, <2>2, <2>5, <2>6, <2>7, WritingMoves
<1>4. QED
  BY <1>2, <1>3

LEMMA DeriveQuartersMoves ==
  ASSUME RootInv, NEW p \in Procs, DeriveQuarters(p)
  PROVE  RootInv'
<1>1. tx[p].pc = "derive" /\ UNCHANGED <<source, reader>>
  BY DEF DeriveQuarters, At, Elsewhere
<1>2. CASE GiveUp(p)
  BY <1>1, <1>2, GivingUpMoves DEF GiveUp
<1>3. CASE ~GiveUp(p)
  <2>1. /\ PinsHold(tx[p].pins) /\ Goto(p, "quarters")
        /\ root' = [root EXCEPT !.from = source[Observations].content]
    BY <1>3 DEF DeriveQuarters
  <2>2. /\ root \in Roots /\ root.owner = p /\ p \in root.controls /\ KnowsRoot(p)
        /\ tx[p].pc \in Observed /\ KnowsSources(p)
    BY <1>1, MarkedStands DEF Marked, WithReported
  <2>3. source[Observations].content = "attested"
    BY <2>1, <2>2 DEF PinsHold, KnowsSources, Attested
  <2>4. root.reported = Complete
    BY <1>1, <2>2 DEF KnowsRoot, WithReported
  <2>5. /\ root' \in Roots /\ root'.reported = Complete /\ root'.from = "attested"
        /\ root'.owner = p /\ p \in root'.controls /\ root'.receipt = root.receipt
        /\ RootGrows
    BY <2>1, <2>2, <2>3, <2>4 DEF Roots, RootGrows, Contents
  <2>6. tx'[p].pc = "quarters" => KnowsRoot(p)'
    BY <2>5 DEF KnowsRoot, WithPanels
  <2>7. "quarters" \in TxStates /\ tx[p].pc \in Owning \ {"recovered"}
    BY <1>1 DEF TxStates, Observed, Owning, Marked, WithReported, WithQuarters
  <2>8. QED
    BY <1>1, <2>1, <2>2, <2>5, <2>6, <2>7, WritingMoves
<1>4. QED
  BY <1>2, <1>3

LEMMA PublishQuartersMoves ==
  ASSUME RootInv, NEW p \in Procs, PublishQuarters(p)
  PROVE  RootInv'
<1>1. tx[p].pc = "quarters" /\ UNCHANGED <<source, reader>>
  BY DEF PublishQuarters, At, Elsewhere
<1>2. CASE GiveUp(p)
  BY <1>1, <1>2, GivingUpMoves DEF GiveUp
<1>3. CASE ~GiveUp(p)
  <2>1. root.panels = <<>> /\ Goto(p, "seal") /\ root' = [root EXCEPT !.panels = root.reported]
    BY <1>3 DEF PublishQuarters
  <2>2. root \in Roots /\ root.owner = p /\ p \in root.controls /\ KnowsRoot(p)
    BY <1>1, MarkedStands DEF Marked, WithReported, WithQuarters
  <2>3. root.reported = Complete /\ root.from = "attested"
    BY <1>1, <2>2 DEF KnowsRoot, WithReported, WithQuarters
  <2>4. /\ root' \in Roots /\ root'.reported = Complete /\ root'.from = "attested"
        /\ root'.panels = Complete
        /\ root'.owner = p /\ p \in root'.controls /\ root'.receipt = root.receipt
        /\ RootGrows
    BY <2>1, <2>2, <2>3, CompleteIsSomething DEF Roots, RootGrows
  <2>5. tx'[p].pc = "seal" => KnowsRoot(p)'
    BY <2>4 DEF KnowsRoot
  <2>6. "seal" \in TxStates /\ tx[p].pc \in Owning \ {"recovered"}
    BY <1>1 DEF TxStates, Observed, Owning, Marked, WithReported, WithQuarters, WithPanels
  <2>7. QED
    BY <1>1, <2>1, <2>2, <2>4, <2>5, <2>6, WritingMoves
<1>4. QED
  BY <1>2, <1>3

LEMMA WriteReceiptMoves ==
  ASSUME RootInv, NEW p \in Procs, WriteReceipt(p)
  PROVE  RootInv'
<1>1. tx[p].pc = "seal" /\ UNCHANGED <<source, reader>>
  BY DEF WriteReceipt, At, Elsewhere
<1>2. CASE GiveUp(p)
  BY <1>1, <1>2, GivingUpMoves DEF GiveUp
<1>3. CASE ~GiveUp(p)
  <2>1. Goto(p, "commit") /\ root' = [root EXCEPT !.partial = @ \cup {p}]
    BY <1>3 DEF WriteReceipt
  <2>2. root \in Roots /\ root.owner = p /\ p \in root.controls /\ KnowsRoot(p)
    BY <1>1, MarkedStands DEF Marked, WithReported, WithQuarters, WithPanels
  <2>3. root.reported = Complete /\ root.from = "attested" /\ root.panels = Complete
    BY <1>1, <2>2 DEF KnowsRoot, WithReported, WithQuarters, WithPanels
  <2>4. /\ root' \in Roots /\ root'.reported = Complete /\ root'.from = "attested"
        /\ root'.panels = Complete
        /\ root'.owner = p /\ p \in root'.controls /\ root'.receipt = root.receipt
        /\ RootGrows
    BY <2>1, <2>2, <2>3 DEF Roots, RootGrows
  <2>5. tx'[p].pc = "commit" => KnowsRoot(p)'
    BY <2>4 DEF KnowsRoot
  <2>6. "commit" \in TxStates /\ tx[p].pc \in Owning \ {"recovered"}
    BY <1>1 DEF TxStates, Observed, Owning, Marked, WithReported, WithQuarters, WithPanels
  <2>7. QED
    BY <1>1, <2>1, <2>2, <2>4, <2>5, <2>6, WritingMoves
<1>4. QED
  BY <1>2, <1>3

LEMMA LinkReceiptMoves ==
  ASSUME RootInv, NEW p \in Procs, LinkReceipt(p)
  PROVE  RootInv'
<1>1. tx[p].pc = "commit" /\ UNCHANGED <<source, reader>>
  BY DEF LinkReceipt, At, Elsewhere
<1>2. CASE GiveUp(p)
  BY <1>1, <1>2, GivingUpMoves DEF GiveUp
<1>3. CASE ~GiveUp(p)
  <2>1. root.receipt = NoOne /\ Goto(p, "recovered") /\ root' = [root EXCEPT !.receipt = p]
    BY <1>3 DEF LinkReceipt
  <2>2. root \in Roots /\ root.owner = p /\ p \in root.controls /\ KnowsRoot(p)
    BY <1>1, MarkedStands DEF Marked, WithReported, WithQuarters, WithPanels
  <2>3. root.reported = Complete /\ root.from = "attested" /\ root.panels = Complete
    BY <1>1, <2>2 DEF KnowsRoot, WithReported, WithQuarters, WithPanels
  <2>4. /\ root' \in Roots /\ root'.reported = Complete /\ root'.from = "attested"
        /\ root'.panels = Complete
        /\ root'.owner = p /\ p \in root'.controls /\ root'.receipt = p
        /\ RootGrows
    BY <2>1, <2>2, <2>3 DEF Roots, RootGrows
  <2>5. tx'[p].pc = "recovered" => KnowsRoot(p)'
    BY <2>4 DEF KnowsRoot
  <2>6. "recovered" \in TxStates /\ tx[p].pc \in Owning \ {"recovered"}
    BY <1>1 DEF TxStates, Observed, Owning, Marked, WithReported, WithQuarters, WithPanels
  <2>7. QED
    BY <1>1, <2>1, <2>2, <2>4, <2>5, <2>6, WritingMoves
<1>4. QED
  BY <1>2, <1>3

LEMMA RecoveryStepMoves ==
  ASSUME RootInv, NEW p \in Procs, RecoveryStep(p)
  PROVE  RootInv'
BY PinStageMoves, VerifyStageMoves, VerifyObservationsMoves, ReserveMoves, MarkPendingMoves,
   CopyPayloadMoves, CheckCopyMoves, PublishReportedMoves, DeriveQuartersMoves,
   PublishQuartersMoves, WriteReceiptMoves, LinkReceiptMoves DEF RecoveryStep

-----------------------------------------------------------------------------
(* Everybody else                                                          *)

LEMMA StandingStill ==
  ASSUME RootInv, UNCHANGED <<source, root, tx, reader>>
  PROVE  RootInv'
BY DEF RootInv, RecoveryTypeOK, KnowsSources, KnowsRoot, RootIsMarked, SawTheReceipt, Published,
       Attested

LEMMA ExchangeKeepsRoot ==
  ASSUME RootInv, NEW f \in Sources, Exchange(f)
  PROVE  RootInv'
<1>1. PICK c \in Contents : source' = [source EXCEPT ![f] = [content |-> c, stamp |-> @.stamp + 1]]
  BY DEF Exchange, Contents
<1>2. UNCHANGED <<root, tx, reader>>
  BY DEF Exchange
<1>3. /\ source \in [Sources -> [content : Contents, stamp : Nat]]
      /\ \A g \in Sources : source[g].stamp \in Nat
  BY DEF RootInv, RecoveryTypeOK
<1>4. \A g \in Sources : source'[g] = IF g = f THEN [content |-> c, stamp |-> source[f].stamp + 1]
                                               ELSE source[g]
  BY <1>1, <1>3
<1>5. source' \in [Sources -> [content : Contents, stamp : Nat]]
  BY <1>1, <1>3
<1>6. ASSUME NEW p \in Procs
      PROVE  KnowsSources(p)' /\ KnowsRoot(p)'
  <2>1. KnowsSources(p) /\ KnowsRoot(p) /\ tx'[p] = tx[p]
    BY <1>2 DEF RootInv
  <2>2. tx[p].pins \in Pins
    BY DEF RootInv, RecoveryTypeOK
  <2>3. PICK files \in SUBSET Sources : tx[p].pins \in [files -> Nat]
    BY <2>2 DEF Pins
  <2>4. \A g \in DOMAIN tx[p].pins : g \in Sources /\ tx[p].pins[g] \in Nat
    BY <2>3
  <2>5. \A g \in DOMAIN tx[p].pins :
          /\ tx[p].pins[g] <= source'[g].stamp
          /\ tx[p].pins[g] = source'[g].stamp => source'[g] = source[g]
    BY <1>3, <1>4, <2>1, <2>4 DEF KnowsSources
  <2>6. KnowsSources(p)'
    BY <2>1, <2>5 DEF KnowsSources, Attested
  <2>7. QED
    BY <1>2, <2>1, <2>6, SameRootSameKnowledge
<1>7. RootIsMarked' /\ \A k \in Readers : SawTheReceipt(k)'
  BY <1>2 DEF RootInv, RootIsMarked, SawTheReceipt, Published
<1>8. RecoveryTypeOK'
  BY <1>2, <1>5 DEF RootInv, RecoveryTypeOK
<1>9. QED
  BY <1>6, <1>7, <1>8 DEF RootInv

\* A reader's step gives it a state it may have.
ReaderStates == [pc : {"idle", "checked", "open", "read"}, of : {"reported", "panels"}, got : Files]
MayBe(r) ==
  /\ r \in ReaderStates
  /\ r.pc = "open" => Published(r.of) # <<>>
  /\ r.pc = "read" => root.receipt # NoOne /\ r.got = Complete

LEMMA ReaderStepIsAState ==
  ASSUME RootInv, NEW k \in Readers, ReaderStep(k)
  PROVE  \E r : MayBe(r) /\ reader' = [reader EXCEPT ![k] = r]
<1>1. reader \in [Readers -> ReaderStates] /\ reader[k] \in ReaderStates
  BY DEF RootInv, RecoveryTypeOK, ReaderStates
<1> DEFINE now(pc, got) == [pc |-> pc, of |-> reader[k].of, got |-> got]
<1>2. \A pc, got : [now(pc, reader[k].got) EXCEPT !.got = got] = now(pc, got)
  OBVIOUS
<1>3. \A pc : [reader[k] EXCEPT !.pc = pc] = now(pc, reader[k].got)
  BY <1>1 DEF ReaderStates
<1>4. CASE \E target \in {"reported", "panels"} : OpenPublication(k, target)
  <2>1. PICK target \in {"reported", "panels"} : OpenPublication(k, target)
    BY <1>4
  <2> DEFINE r == [pc |-> "checked", of |-> target, got |-> <<>>]
  <2>2. reader' = [reader EXCEPT ![k] = r]
    BY <2>1 DEF OpenPublication
  <2>3. MayBe(r)
    BY DEF MayBe, ReaderStates, Files
  <2>4. QED
    BY <2>2, <2>3
<1>5. CASE ReadManifest(k)
  <2>1. PICK pc \in {"idle", "open"} : /\ reader' = [reader EXCEPT ![k].pc = pc]
                                       /\ pc = "open" => Published(reader[k].of) # <<>>
    BY <1>5 DEF ReadManifest, Read
  <2>2. reader' = [reader EXCEPT ![k] = now(pc, reader[k].got)]
    BY <1>3, <2>1
  <2>3. MayBe(now(pc, reader[k].got))
    BY <1>1, <2>1 DEF MayBe, ReaderStates
  <2>4. QED
    BY <2>2, <2>3
<1>6. CASE ReadRecords(k) /\ Accessible
  <2>1. Published(reader[k].of) # <<>> /\ reader[k].of \in {"reported", "panels"}
    BY <1>1, <1>6 DEF ReadRecords, RootInv, SawTheReceipt, ReaderStates
  <2>2. root.controls # {}
    BY <2>1 DEF Published, RootInv, RootIsMarked
  <2>3. root.receipt # NoOne
    BY <1>6, <2>2 DEF Accessible
  <2>4. Published(reader[k].of) = Complete
    BY <2>1, <2>3, ReceiptStandsForAll DEF Published
  <2>5. reader' = [reader EXCEPT ![k].pc = "read", ![k].got = Complete]
    BY <1>6, <2>4 DEF ReadRecords, MayReadRecords
  <2>6. reader' = [reader EXCEPT ![k] = now("read", Complete)]
    <3>1. reader' = [[reader EXCEPT ![k] = now("read", reader[k].got)] EXCEPT ![k].got = Complete]
      BY <1>3, <2>5
    <3>2. QED
      BY <1>1, <1>2, <3>1
  <2>7. MayBe(now("read", Complete))
    BY <1>1, <2>3, CompleteIsSomething DEF MayBe, ReaderStates
  <2>8. QED
    BY <2>6, <2>7
<1>7. CASE ReadRecords(k) /\ ~Accessible
  <2>1. reader' = [reader EXCEPT ![k].pc = "idle"]
    BY <1>7 DEF ReadRecords, MayReadRecords
  <2>2. reader' = [reader EXCEPT ![k] = now("idle", reader[k].got)]
    BY <1>3, <2>1
  <2>3. MayBe(now("idle", reader[k].got))
    BY <1>1 DEF MayBe, ReaderStates
  <2>4. QED
    BY <2>2, <2>3
<1>8. CASE Close(k)
  <2>1. reader' = [reader EXCEPT ![k] = NoRead]
    BY <1>8 DEF Close
  <2>2. MayBe(NoRead)
    BY DEF MayBe, NoRead, ReaderStates, Files
  <2>3. QED
    BY <2>1, <2>2
<1>9. QED
  BY <1>4, <1>5, <1>6, <1>7, <1>8 DEF ReaderStep

LEMMA ReadersSeeItComplete ==
  ASSUME RootInv, NEW k \in Readers, ReaderStep(k)
  PROVE  RootInv'
<1>1. UNCHANGED <<source, root, tx>>
  BY DEF ReaderStep, OpenPublication, ReadManifest, ReadRecords, Close, OnlyRead
<1>2. reader \in [Readers -> ReaderStates]
  BY DEF RootInv, RecoveryTypeOK, ReaderStates
<1>3. PICK r : MayBe(r) /\ reader' = [reader EXCEPT ![k] = r]
  BY ReaderStepIsAState
<1>4. \A j \in Readers : reader'[j] = IF j = k THEN r ELSE reader[j]
  BY <1>2, <1>3
<1>5. \A j \in Readers : SawTheReceipt(j)'
  BY <1>1, <1>3, <1>4 DEF RootInv, SawTheReceipt, Published, MayBe
<1>6. RecoveryTypeOK'
  BY <1>1, <1>2, <1>3 DEF RootInv, RecoveryTypeOK, ReaderStates, MayBe
<1>7. \A p \in Procs : KnowsSources(p)' /\ KnowsRoot(p)'
  BY <1>1 DEF RootInv, KnowsSources, KnowsRoot, Attested
<1>8. RootIsMarked'
  BY <1>1 DEF RootInv, RootIsMarked
<1>9. QED
  BY <1>5, <1>6, <1>7, <1>8 DEF RootInv

\* A step of the tools leaves the sources, the root and the readers alone, and
\* of a transaction it only says that it begins or dies.
LEMMA NextKeepsRoot ==
  ASSUME LeaseInv, RootInv, BeginsOnce, Next
  PROVE  RootInv'
<1>1. ASSUME NEW p \in Procs,
             \/ Begin(p) \/ TakeLock(p) \/ StartWorker(p) \/ Reap(p) \/ Stop(p) \/ Summarise(p)
             \/ Interrupt(p) \/ KillSupervisor(p) \/ KernelKills(p) \/ KillWorker(p)
             \/ InstallGuard(p) \/ RecoveryWorked(p) \/ Work(p) \/ Produce(p)
             \/ WriteMarker(p) \/ WriteRunReceipt(p)
      PROVE  UNCHANGED <<source, root, tx, reader>>
  BY <1>1 DEF Begin, TakeLock, StartWorker, Reap, Stop, Settle, Summarise, Interrupt, KillSupervisor,
     KernelKills, KillWorker, InstallGuard, RecoveryWorked, Work, Produce, WriteMarker,
     WriteRunReceipt, recoveryVars
<1>2. ASSUME NEW p \in Procs, Admit(p)
      PROVE  RootInv'
  <2>1. UNCHANGED <<source, root, reader>> /\ wrk[p] = "guarded"
    BY <1>2 DEF Admit
  <2>2. CASE UNCHANGED tx
    BY <2>1, <2>2, StandingStill
  <2>3. CASE tx' # tx
    <3>1. Tool(p) = "recovery" /\ Goto(p, "start")
      BY <1>2, <2>3 DEF Admit, Fails, Goto
    <3>2. tx[p].pc = "idle"
      BY <2>1, <3>1 DEF BeginsOnce
    <3>3. QED
      BY <2>1, <3>1, <3>2, GivingUpMoves
  <2>4. QED
    BY <2>2, <2>3
<1>3. ASSUME NEW p \in Procs, RecoveryWork(p) \/ CommandWork(p)
      PROVE  RootInv'
  BY <1>3, RecoveryStepMoves DEF RecoveryWork, CommandWork
<1>4. ASSUME NEW p \in Procs, StartCommand(p) \/ CommandDies(p)
      PROVE  RootInv'
  BY <1>4, GivingUpMoves DEF StartCommand, CommandDies, At
<1>5. ASSUME LenderEnds
      PROVE  RootInv'
  BY <1>5, StandingStill DEF LenderEnds, recoveryVars
<1>6. QED
  BY <1>1, <1>2, <1>3, <1>4, <1>5, StandingStill, ExchangeKeepsRoot, ReadersSeeItComplete
  DEF Next, Supervise, WorkerStep

\* Whose transaction a step of the tools or of a transaction moves.
LEMMA RecoveryStepMovesItself ==
  ASSUME RecoveryTypeOK, NEW p \in Procs, RecoveryStep(p)
  PROVE  \A q \in Procs \ {p} : tx'[q] = tx[q]
<1>1. \E t : tx' = [tx EXCEPT ![p] = t]
  BY DEF RecoveryStep, PinStage, VerifyStage, VerifyObservations, Reserve, MarkPending, CopyPayload,
     CheckCopy, PublishReported, DeriveQuarters, PublishQuarters, WriteReceipt, LinkReceipt,
     GiveUp, Goto
<1>2. QED
  BY <1>1 DEF RecoveryTypeOK

LEMMA NextBeginsOnce ==
  ASSUME LeaseInv, RootInv, BeginsOnce, Next
  PROVE  BeginsOnce'
<1> DEFINE Waiting == {"none", "starting", "guarded"}
<1>1. RecoveryTypeOK /\ OpsTypeOK /\ WorkersAreSupervised
  BY DEF RootInv, LeaseInv
<1>2. ASSUME UNCHANGED <<order, tx>>, \A q \in Procs : wrk'[q] \in Waiting => wrk[q] \in Waiting
      PROVE  BeginsOnce'
  BY <1>2 DEF BeginsOnce, Tool
<1>3. ASSUME NEW p \in Procs, UNCHANGED <<order, tx>>,
             NEW w, wrk' = [wrk EXCEPT ![p] = w], w \in Waiting => wrk[p] \in Waiting
      PROVE  BeginsOnce'
  BY <1>1, <1>2, <1>3 DEF OpsTypeOK
<1>4. ASSUME NEW p \in Procs, \A q \in Procs \ {p} : tx'[q] = tx[q], UNCHANGED order,
             \A q \in Procs \ {p} : wrk'[q] = wrk[q],
             wrk'[p] \notin Waiting \/ Tool(p) # "recovery"
      PROVE  BeginsOnce'
  BY <1>4 DEF BeginsOnce, Tool
<1>5. ASSUME NEW p \in Procs,
             \/ Begin(p) \/ TakeLock(p) \/ Reap(p) \/ Summarise(p) \/ KillSupervisor(p)
      PROVE  BeginsOnce'
  BY <1>2, <1>5 DEF Begin, TakeLock, Reap, Settle, Summarise, KillSupervisor, recoveryVars
<1>6. ASSUME NEW p \in Procs, StartWorker(p)
      PROVE  BeginsOnce'
  <2>1. UNCHANGED <<order, tx>> /\ wrk[p] = "none"
    BY <1>1, <1>6 DEF StartWorker, SupAt, recoveryVars, WorkersAreSupervised
  <2>2. QED
    BY <1>2, <1>3, <1>6, <2>1 DEF StartWorker
<1>7. ASSUME NEW p \in Procs, Stop(p) \/ Interrupt(p) \/ KernelKills(p) \/ KillWorker(p)
      PROVE  BeginsOnce'
  <2>1. UNCHANGED <<order, tx>>
    BY <1>7 DEF Stop, Settle, Interrupt, KernelKills, KillWorker, recoveryVars
  <2>2. wrk' = [wrk EXCEPT ![p] = "dead"] \/ wrk' = [wrk EXCEPT ![p] = wrk[p]]
    BY <1>7 DEF Stop, Interrupt, KernelKills, KillWorker
  <2>3. QED
    BY <1>3, <2>1, <2>2
<1>8. ASSUME NEW p \in Procs, InstallGuard(p)
      PROVE  BeginsOnce'
  BY <1>3, <1>8 DEF InstallGuard, WorkGoto, recoveryVars
<1>9. ASSUME NEW p \in Procs, Admit(p)
      PROVE  BeginsOnce'
  <2>1. UNCHANGED order /\ \E w \in {"working", "failed"} : wrk' = [wrk EXCEPT ![p] = w]
    BY <1>9 DEF Admit, WorkGoto, Fails
  <2>2. wrk'[p] \notin Waiting /\ \A q \in Procs \ {p} : wrk'[q] = wrk[q]
    BY <1>1, <2>1 DEF OpsTypeOK
  <2>3. \A q \in Procs \ {p} : tx'[q] = tx[q]
    BY <1>1, <1>9 DEF Admit, Fails, RecoveryTypeOK
  <2>4. QED
    BY <1>4, <2>1, <2>2, <2>3
<1>10. ASSUME NEW p \in Procs, RecoveryWork(p)
       PROVE  BeginsOnce'
  <2>1. UNCHANGED <<order, wrk>> /\ wrk[p] = "working"
    BY <1>10 DEF RecoveryWork, opsVars
  <2>2. \A q \in Procs \ {p} : tx'[q] = tx[q]
    BY <1>1, <1>10, RecoveryStepMovesItself DEF RecoveryWork
  <2>3. QED
    BY <1>4, <2>1, <2>2
<1>11. ASSUME NEW p \in Procs,
              RecoveryWorked(p) \/ Work(p) \/ Produce(p) \/ WriteMarker(p) \/ WriteRunReceipt(p)
       PROVE  BeginsOnce'
  <2>1. UNCHANGED <<order, tx>>
    BY <1>11 DEF RecoveryWorked, Work, Produce, WriteMarker, WriteRunReceipt, recoveryVars
  <2>2. \E w \in {"worked", "failed", "producing", "marked", "done"} : wrk' = [wrk EXCEPT ![p] = w]
    BY <1>11 DEF RecoveryWorked, Work, Produce, WriteMarker, WriteRunReceipt, WorkGoto
  <2>3. QED
    BY <1>3, <2>1, <2>2
<1>12. ASSUME NEW p \in Procs, StartCommand(p) \/ CommandWork(p) \/ CommandDies(p)
       PROVE  BeginsOnce'
  <2>1. UNCHANGED <<order, wrk>> /\ Tool(p) # "recovery"
    BY <1>12 DEF StartCommand, CommandWork, CommandDies, opsVars
  <2>2. CASE CommandWork(p)
    BY <1>1, <1>4, <2>1, <2>2, RecoveryStepMovesItself DEF CommandWork
  <2>3. CASE StartCommand(p) \/ CommandDies(p)
    <3>1. \A q \in Procs \ {p} : tx'[q] = tx[q]
      BY <1>1, <2>3 DEF StartCommand, CommandDies, Goto, RecoveryTypeOK
    <3>2. QED
      BY <1>4, <2>1, <3>1
  <2>4. QED
    BY <1>12, <2>2, <2>3
<1>13. ASSUME LenderEnds
       PROVE  BeginsOnce'
  BY <1>2, <1>13 DEF LenderEnds, recoveryVars
<1>14. ASSUME UNCHANGED opsVars, UNCHANGED tx
       PROVE  BeginsOnce'
  BY <1>2, <1>14 DEF opsVars
<1>15. ASSUME NEW f \in Sources, Exchange(f), UNCHANGED opsVars
       PROVE  BeginsOnce'
  BY <1>14, <1>15 DEF Exchange
<1>16. ASSUME NEW k \in Readers, ReaderStep(k), UNCHANGED opsVars
       PROVE  BeginsOnce'
  BY <1>14, <1>16 DEF ReaderStep, OpenPublication, ReadManifest, ReadRecords, Close, OnlyRead
<1>17. QED
  BY <1>5, <1>6, <1>7, <1>8, <1>9, <1>10, <1>11, <1>12, <1>13, <1>15, <1>16
  DEF Next, Supervise, WorkerStep

-----------------------------------------------------------------------------
RunsInv == LeaseInv /\ RootInv /\ BeginsOnce

LEMMA NextKeepsRuns ==
  RunsInv /\ [Next]_vars => RunsInv'
<1> SUFFICES ASSUME RunsInv, [Next]_vars PROVE RunsInv'
  OBVIOUS
<1>1. CASE Next
  BY <1>1, NextStaysLeased, NextKeepsRoot, NextBeginsOnce DEF RunsInv
<1>2. CASE UNCHANGED vars
  <2>1. LeaseInv'
    BY <1>2 DEF RunsInv, vars, opsVars, LeaseInv, OpsTypeOK, WorkersAreSupervised, LockIsHeld,
                AttemptedOnce, Holds, Lent, Tool, Live
  <2>2. RootInv'
    BY <1>2, StandingStill DEF RunsInv, vars, recoveryVars
  <2>3. BeginsOnce'
    BY <1>2 DEF RunsInv, vars, opsVars, recoveryVars, BeginsOnce, Tool
  <2>4. QED
    BY <2>1, <2>2, <2>3 DEF RunsInv
<1>3. QED
  BY <1>1, <1>2

\* The supervised runs keep the lease, the root and the transactions in order,
\* for any processes, orders, exchanges, readers and kills (heavy_lock,
\* supervise_owned_process, recover_reported_history).
THEOREM RunsStayInOrder ==
  MCSpec => [](part = "runs" => RunsInv)
<1>1. MCInit => (part = "runs" => RunsInv)
  BY InitIsLeased, InitIsRecoverable DEF MCInit, RunsInv
<1>2. (part = "runs" => RunsInv) /\ [MCNext]_mcvars => (part = "runs" => RunsInv)'
  <2>1. ASSUME [MCNext]_mcvars
        PROVE  /\ part' = part
               /\ part = "runs" => [Next]_vars
    <3>1. CASE MCNext
      BY <3>1 DEF MCNext
    <3>2. CASE UNCHANGED mcvars
      BY <3>2 DEF mcvars, runsVars, vars, recoveryVars, opsVars
    <3>3. QED
      BY <2>1, <3>1, <3>2
  <2>2. QED
    BY <2>1, NextKeepsRuns
<1>3. QED
  BY <1>1, <1>2, PTL DEF MCSpec

\* Two workers never do heavy work beside each other: the lock excludes those
\* who took it, the log that is created exclusively those who were lent it
\* (heavy_lock, _borrowed_c_lease, install_parent_death_guard).
THEOREM HeavyWorkIsExclusive ==
  MCSpec => []OneHeavyWorker
<1>1. (part = "runs" => RunsInv) => OneHeavyWorker
  <2> SUFFICES ASSUME part = "runs", RunsInv PROVE OneHeavyWorker
    BY DEF OneHeavyWorker
  <2> DEFINE workers == {p \in Procs : Heavy(p) /\ ~(sup[p].pc = "dead")}
  <2>1. \A p, q \in workers : p = q
    BY LeaseGivesOneWorker DEF RunsInv
  <2>2. workers = {} \/ \E p : workers = {p}
    BY <2>1
  <2>3. Cardinality(workers) \in {0, 1}
    BY <2>2, FS_EmptySet, FS_Singleton
  <2> HIDE DEF workers
  <2>4. Cardinality(workers) <= 1
    BY <2>3
  <2>5. QED
    BY <2>4 DEF OneHeavyWorker, workers
<1>2. QED
  BY <1>1, RunsStayInOrder, PTL

\* A reader of a recovered root has seen its receipt, and every file it was
\* given is the attested one (_check_recovery_access, recover_reported_history).
THEOREM RecoveredIsReadWhole ==
  MCSpec => []ReadsAreCompleted
<1>1. (part = "runs" => RunsInv) => ReadsAreCompleted
  <2> SUFFICES ASSUME part = "runs", RootInv PROVE ReadsAreCompleted
    BY DEF ReadsAreCompleted, RunsInv
  <2>1. \A i \in DOMAIN Complete : Complete[i] = "attested"
    BY DEF Complete
  <2>2. ASSUME NEW k \in Readers, reader[k].pc = "read"
        PROVE  /\ root.receipt # NoOne
               /\ Len(reader[k].got) = Staged
               /\ \A i \in DOMAIN reader[k].got : reader[k].got[i] = "attested"
    <3>1. root.receipt # NoOne /\ reader[k].got = Complete
      BY <2>2 DEF RootInv, SawTheReceipt
    <3>2. QED
      BY <3>1, <2>1, CompleteIsSomething
  <2>3. ASSUME root.receipt # NoOne
        PROVE  /\ root.reported = [i \in StageFiles |-> "attested"]
               /\ root.panels = root.reported
               /\ root.from = "attested"
    BY <2>3, ReceiptStandsForAll DEF Complete
  <2>4. QED
    BY <2>2, <2>3 DEF ReadsAreCompleted
<1>2. QED
  BY <1>1, RunsStayInOrder, PTL

-----------------------------------------------------------------------------
(* The financial stages                                                    *)

OutputRuns == {"none", "own", "other"}
WorkerSteps == {"started", "admitted", "configured", "produced", "attested"}

StagesTypeOK ==
  /\ mode \in {"EXISTING", "PUBLISH"}
  /\ at \in [F!Stages \cup F!External -> OutputRuns]
  /\ from = [s \in F!Stages |-> from[s]]
  /\ receipt \in [F!Stages -> OutputRuns]
  /\ work # F!None =>
       /\ work.stage \in F!Stages /\ work.step \in WorkerSteps
       /\ work.step # "configured" => work = [stage |-> work.stage, step |-> work.step]

Working(steps) == work # F!None /\ work.step \in steps

\* A stage is begun once, and attested at the end.
RunsOnce ==
  /\ \A s \in F!Stages : receipt[s] # "none" => s \in tried
  /\ work # F!None => work.stage \in tried
  /\ Working(WorkerSteps \ {"attested"}) => receipt[work.stage] = "none"

\* What a worker stands on while nothing is edited beside it.
StandsOnItsParents ==
  /\ Working({"admitted", "configured", "produced"}) /\ work.stage \notin touched =>
       /\ F!ExternalHolds
       /\ \A p \in F!Parents(work.stage) : F!OutputVerified(p)
  /\ Working({"configured"}) /\ work.stage = "identity" /\ mode = "EXISTING" =>
       work.digests["metadata"] = "own"

\* What a stage was made from, of its parents.
MadeOf(s) ==
  \A p \in F!Parents(s) : receipt[p] # "none" /\ (p \in F!Reads[s] => from[s][p] = receipt[p])
MadeOfOwn(s) == \A x \in F!Reads[s] : from[s][x] = "own"

MadeAsAttested ==
  /\ \A s \in F!Stages : receipt[s] # "none" =>
       /\ s \notin touched => receipt[s] = "own" /\ MadeOf(s)
       /\ touched = {} => MadeOfOwn(s)
  /\ Working({"produced"}) =>
       /\ work.stage \notin touched => at[work.stage] = "own" /\ MadeOf(work.stage)
       /\ touched = {} => MadeOfOwn(work.stage)

StagesInv == StagesTypeOK /\ RunsOnce /\ StandsOnItsParents /\ MadeAsAttested

-----------------------------------------------------------------------------
LEMMA ParentsAreStages ==
  \A s \in F!Stages : F!Parents(s) \subseteq F!Stages \ {s}
<1> SUFFICES ASSUME NEW s \in F!Stages PROVE F!Parents(s) \subseteq F!Stages \ {s}
  OBVIOUS
<1>1. F!Dependencies[s] \subseteq F!Stages \ {s}
  BY DEF F!Dependencies, F!Stages, F!Chain, F!Analyses
<1>2. "metadata" \in F!Stages
  BY DEF F!Stages
<1>3. QED
  BY <1>1, <1>2 DEF F!Parents

LEMMA StagesAreNotExternal ==
  F!Stages \cap F!External = {}
BY DEF F!Stages, F!External, F!Chain, F!Analyses

\* What a producer reads is evidence from outside, a parent's output, or one of
\* three things that it compares.
LEMMA WhatIsRead ==
  ASSUME NEW s \in F!Stages, NEW x \in F!Reads[s]
  PROVE  \/ x \in F!External
         \/ x \in F!Dependencies[s]
         \/ s = "identity" /\ x = "metadata"
         \/ s = "annual_metrics" /\ x = "annual_analysis"
         \/ s = "annual_dataset_v2" /\ x = "identity"
BY DEF F!Reads, F!Dependencies, F!Stages, F!External, F!Chain, F!Analyses

LEMMA StagesInit ==
  F!Init => StagesInv
<1> SUFFICES ASSUME F!Init PROVE StagesInv
  OBVIOUS
<1> USE DEF F!Init
<1>1. mode \in {"EXISTING", "PUBLISH"}
  BY StageOrdersAssumption
<1>2. StagesTypeOK
  BY <1>1 DEF StagesTypeOK, OutputRuns
<1>3. RunsOnce /\ StandsOnItsParents /\ MadeAsAttested
  BY DEF RunsOnce, StandsOnItsParents, MadeAsAttested, Working
<1>4. QED
  BY <1>2, <1>3 DEF StagesInv

\* A step that leaves what was made, and its worker, as they are.
LEMMA StagesStandStill ==
  ASSUME StagesInv, UNCHANGED <<mode, at, from, receipt, tried, work, touched>>
  PROVE  StagesInv'
BY DEF StagesInv, StagesTypeOK, RunsOnce, StandsOnItsParents, MadeAsAttested, Working, MadeOf,
       MadeOfOwn, F!ExternalHolds, F!HistoryBound, F!OutputVerified, F!Parents

\* A step of the worker that makes nothing.
LEMMA WorkGoesOn ==
  ASSUME StagesInv, UNCHANGED <<mode, at, from, receipt, touched>>,
         tried \subseteq tried',
         work' # F!None =>
           /\ work'.stage \in F!Stages \cap tried' /\ work'.step \in WorkerSteps \ {"produced"}
           /\ work'.step # "configured" => work' = [stage |-> work'.stage, step |-> work'.step]
           /\ work'.step # "attested" => receipt[work'.stage] = "none",
         (Working({"admitted", "configured"}) /\ work.stage \notin touched)' =>
           /\ F!ExternalHolds
           /\ \A p \in F!Parents(work'.stage) : F!OutputVerified(p),
         (Working({"configured"}) /\ work.stage = "identity" /\ mode = "EXISTING")' =>
           work'.digests["metadata"] = "own"
  PROVE  StagesInv'
<1>1. StagesTypeOK'
  BY DEF StagesInv, StagesTypeOK, WorkerSteps
<1>2. RunsOnce'
  BY DEF StagesInv, RunsOnce, Working
<1>3. ~(Working({"produced"})')
  BY DEF Working
<1>4. StandsOnItsParents'
  BY <1>3 DEF StandsOnItsParents, Working, F!ExternalHolds, F!HistoryBound, F!OutputVerified, F!Parents
<1>5. MadeAsAttested'
  BY <1>3 DEF StagesInv, MadeAsAttested, MadeOf, MadeOfOwn, F!Parents
<1>6. QED
  BY <1>1, <1>2, <1>4, <1>5 DEF StagesInv

LEMMA RunStageKeeps ==
  ASSUME StagesInv, NEW s \in F!Stages, F!RunStage(s)
  PROVE  StagesInv'
<1>1. UNCHANGED <<mode, at, from, receipt, touched>> /\ work = F!None /\ receipt[s] = "none"
  BY DEF F!RunStage, F!Unattempted
<1>2. CASE s \in tried
  BY <1>1, <1>2, StagesStandStill DEF F!RunStage
<1>3. CASE s \notin tried
  <2>1. work' = [stage |-> s, step |-> "started"] /\ tried' = tried \cup {s}
    BY <1>3 DEF F!RunStage
  <2>2. work'.stage = s /\ work'.step = "started"
    BY <2>1
  <2>3. ~(Working({"admitted", "configured"})') /\ ~(Working({"configured"})')
    BY <2>2 DEF Working
  <2>4. QED
    BY <1>1, <2>1, <2>2, <2>3, WorkGoesOn DEF WorkerSteps
<1>4. QED
  BY <1>2, <1>3

LEMMA AdmitKeeps ==
  ASSUME StagesInv, F!Admit
  PROVE  StagesInv'
<1>1. /\ UNCHANGED <<mode, at, from, receipt, tried, touched>> /\ work # F!None
      /\ work.step = "started" /\ work' = [work EXCEPT !.step = "admitted"]
      /\ F!GoValid(work.stage)
  BY DEF F!Admit, F!AtStep
<1>2. work = [stage |-> work.stage, step |-> "started"] /\ work.stage \in F!Stages \cap tried
      /\ receipt[work.stage] = "none"
  BY <1>1 DEF StagesInv, StagesTypeOK, RunsOnce, Working, WorkerSteps
<1>3. work' = [stage |-> work.stage, step |-> "admitted"]
  BY <1>1, <1>2
<1>4. work'.stage = work.stage /\ work'.step = "admitted"
  BY <1>3
<1>5. F!ExternalHolds /\ \A p \in F!Parents(work.stage) : F!OutputVerified(p)
  BY <1>1 DEF F!GoValid, F!Valid, F!ParentsVerified
<1>6. ~(Working({"configured"})')
  BY <1>4 DEF Working
<1>7. QED
  BY <1>1, <1>2, <1>3, <1>4, <1>5, <1>6, WorkGoesOn DEF WorkerSteps

LEMMA WriteConfigKeeps ==
  ASSUME StagesInv, F!WriteConfig
  PROVE  StagesInv'
<1>1. /\ UNCHANGED <<mode, at, from, receipt, tried, touched>> /\ work # F!None
      /\ work.step = "admitted"
      /\ work' = [stage |-> work.stage, step |-> "configured",
                  digests |-> [x \in F!Reads[work.stage] |-> F!Digest(x)]]
  BY DEF F!WriteConfig, F!AtStep
<1>2. work.stage \in F!Stages \cap tried /\ receipt[work.stage] = "none"
  BY <1>1 DEF StagesInv, StagesTypeOK, RunsOnce, Working, WorkerSteps
<1>3. /\ work'.stage = work.stage /\ work'.step = "configured"
      /\ work'.digests = [x \in F!Reads[work.stage] |-> F!Digest(x)]
  BY <1>1
<1>4. work.stage \notin touched =>
        F!ExternalHolds /\ \A p \in F!Parents(work.stage) : F!OutputVerified(p)
  BY <1>1 DEF StagesInv, StandsOnItsParents, Working
<1>5. work.stage = "identity" /\ mode = "EXISTING" => work'.digests["metadata"] = "own"
  <2>1. "metadata" \in F!Reads["identity"]
    BY DEF F!Reads, F!Stages, F!Chain
  <2>2. mode = "EXISTING" => F!Digest("metadata") = "own"
    BY DEF F!Digest, F!Published
  <2>3. QED
    BY <1>3, <2>1, <2>2
<1>6. QED
  BY <1>1, <1>2, <1>3, <1>4, <1>5, WorkGoesOn DEF WorkerSteps

\* What the worker of a stage finds, when nothing was ever edited beside one.
LEMMA OwnIsRead ==
  ASSUME StagesInv, touched = {}, F!Produce
  PROVE  \A x \in F!Reads[work.stage] : at[x] = "own"
<1> DEFINE s == work.stage
<1>1. /\ Working({"configured"}) /\ s \in F!Stages
      /\ \A x \in F!Compares(s) : at[x] = work.digests[x]
      /\ \A p \in F!Opened(s) : F!Opens(p)
  BY DEF F!Produce, F!AtStep, Working, StagesInv, StagesTypeOK
<1>2. F!ExternalHolds /\ \A p \in F!Parents(s) : F!OutputVerified(p)
  BY <1>1 DEF StagesInv, StandsOnItsParents, Working
<1>3. \A p \in F!Stages : receipt[p] # "none" => receipt[p] = "own" /\ MadeOfOwn(p)
  BY DEF StagesInv, MadeAsAttested
<1>4. \A p \in F!Parents(s) : at[p] = "own" /\ MadeOfOwn(p)
  BY <1>1, <1>2, <1>3, ParentsAreStages DEF F!OutputVerified
<1>5. F!Dependencies[s] \subseteq F!Parents(s)
  BY DEF F!Parents
<1>6. ASSUME NEW p \in F!Opened(s) \cap F!Parents(s), NEW x \in F!Names(p) \cap F!Reads[p]
      PROVE  at[x] = "own"
  <2>1. at[x] = F!Of(p, x)
    BY <1>1, <1>6 DEF F!Opens
  <2>2. F!Of(p, x) = from[p][x]
    BY <1>4, <1>6 DEF F!Of
  <2>3. QED
    BY <1>4, <1>6, <2>1, <2>2 DEF MadeOfOwn
<1>7. ASSUME s = "identity"
      PROVE  at["metadata"] = "own"
  <2>1. CASE mode = "EXISTING"
    <3>1. "metadata" \in F!Compares(s)
      BY <1>7 DEF F!Compares, F!Analyses, F!Reads, F!Stages, F!Chain
    <3>2. QED
      BY <1>1, <1>7, <2>1, <3>1 DEF StagesInv, StandsOnItsParents
  <2>2. CASE mode = "PUBLISH"
    BY <1>4, <1>7, <2>2 DEF F!Parents
  <2>3. QED
    BY <2>1, <2>2 DEF StagesInv, StagesTypeOK
<1>8. ASSUME s = "annual_metrics"
      PROVE  at["annual_analysis"] = "own"
  <2>1. "identity" \in F!Opened(s) \cap F!Parents(s)
    BY <1>5, <1>8 DEF F!Opened, F!Dependencies, F!Stages, F!Chain, F!Analyses
  <2>2. "annual_analysis" \in F!Names("identity") \cap F!Reads["identity"]
    BY DEF F!Names, F!Reads, F!Dependencies, F!Stages, F!Chain, F!Analyses
  <2>3. QED
    BY <1>6, <2>1, <2>2
<1>9. ASSUME s = "annual_dataset_v2"
      PROVE  at["identity"] = "own"
  <2>1. "annual_metrics" \in F!Opened(s) \cap F!Parents(s)
    BY <1>5, <1>9 DEF F!Opened, F!Dependencies, F!Stages, F!Chain, F!Analyses
  <2>2. "identity" \in F!Names("annual_metrics") \cap F!Reads["annual_metrics"]
    BY DEF F!Names, F!Reads, F!Dependencies, F!Stages, F!Chain, F!Analyses
  <2>3. QED
    BY <1>6, <2>1, <2>2
<1>10. ASSUME NEW x \in F!Reads[s]
       PROVE  at[x] = "own"
  <2>1. CASE x \in F!External
    BY <1>2, <2>1 DEF F!ExternalHolds, F!HistoryBound, F!External
  <2>2. CASE x \in F!Dependencies[s]
    BY <1>4, <1>5, <2>2
  <2>3. QED
    BY <1>1, <1>7, <1>8, <1>9, <2>1, <2>2, WhatIsRead
<1>11. QED
  BY <1>10

LEMMA ProduceKeeps ==
  ASSUME StagesInv, F!Produce
  PROVE  StagesInv'
<1> DEFINE s == work.stage
<1>1. /\ UNCHANGED <<mode, receipt, tried, touched>> /\ work # F!None /\ work.step = "configured"
      /\ at' = [at EXCEPT ![s] = "own"]
      /\ from' = [from EXCEPT ![s] = [x \in F!Reads[s] |-> at[x]]]
      /\ work' = [stage |-> s, step |-> "produced"]
  BY DEF F!Produce, F!AtStep
<1>2. s \in F!Stages \cap tried /\ receipt[s] = "none"
  BY <1>1 DEF StagesInv, StagesTypeOK, RunsOnce, Working, WorkerSteps
<1>3. work'.stage = s /\ work'.step = "produced"
  BY <1>1
<1>4. /\ at'[s] = "own" /\ \A x \in (F!Stages \cup F!External) \ {s} : at'[x] = at[x]
      /\ from'[s] = [x \in F!Reads[s] |-> at[x]] /\ \A t \in F!Stages \ {s} : from'[t] = from[t]
      /\ from' = [t \in F!Stages |-> from'[t]]
  BY <1>1, <1>2 DEF StagesInv, StagesTypeOK
<1>5. StagesTypeOK'
  BY <1>1, <1>2, <1>3, <1>4 DEF StagesInv, StagesTypeOK, WorkerSteps, OutputRuns
<1>6. RunsOnce'
  BY <1>1, <1>2, <1>3 DEF StagesInv, RunsOnce, Working
<1>7. s \notin touched => F!ExternalHolds /\ \A p \in F!Parents(s) : F!OutputVerified(p)
  BY <1>1 DEF StagesInv, StandsOnItsParents, Working
<1>8. /\ \A x \in F!External : at'[x] = at[x]
      /\ \A p \in F!Parents(s) : at'[p] = at[p]
  BY <1>2, <1>4, ParentsAreStages, StagesAreNotExternal
<1>9. StandsOnItsParents'
  <2>1. F!ExternalHolds => F!ExternalHolds'
    BY <1>8 DEF F!ExternalHolds, F!HistoryBound, F!External
  <2>2. (\A p \in F!Parents(s) : F!OutputVerified(p)) => \A p \in F!Parents(s)' : F!OutputVerified(p)'
    BY <1>1, <1>3, <1>8 DEF F!OutputVerified, F!Parents
  <2>3. QED
    BY <1>1, <1>3, <1>7, <2>1, <2>2 DEF StandsOnItsParents, Working, F!Parents
<1>10. ASSUME s \notin touched
       PROVE  MadeOf(s)'
  <2>1. \A p \in F!Parents(s) : receipt[p] # "none" /\ at[p] = receipt[p]
    BY <1>7, <1>10 DEF F!OutputVerified
  <2>2. QED
    BY <1>1, <1>4, <2>1 DEF MadeOf, F!Parents
<1>11. ASSUME touched = {}
       PROVE  MadeOfOwn(s)'
  <2>1. \A x \in F!Reads[s] : from'[s][x] = at[x]
    BY <1>4
  <2>2. \A x \in F!Reads[s] : from'[s][x] = "own"
    BY <1>11, <2>1, OwnIsRead
  <2>3. QED
    BY <1>3, <2>2 DEF MadeOfOwn
<1>12. ASSUME NEW t \in F!Stages, receipt[t] # "none"
       PROVE  /\ t \notin touched => receipt'[t] = "own" /\ MadeOf(t)'
              /\ touched = {} => MadeOfOwn(t)'
  <2>1. from'[t] = from[t]
    BY <1>2, <1>4, <1>12
  <2>2. QED
    BY <1>1, <1>12, <2>1 DEF StagesInv, MadeAsAttested, MadeOf, MadeOfOwn, F!Parents
<1>13. MadeAsAttested'
  BY <1>1, <1>3, <1>4, <1>10, <1>11, <1>12 DEF MadeAsAttested
<1>14. QED
  BY <1>5, <1>6, <1>9, <1>13 DEF StagesInv

LEMMA WriteReceiptKeeps ==
  ASSUME StagesInv, F!WriteReceipt
  PROVE  StagesInv'
<1> DEFINE s == work.stage
<1>1. /\ UNCHANGED <<mode, at, from, tried, touched>> /\ work # F!None /\ work.step = "produced"
      /\ receipt' = [receipt EXCEPT ![s] = at[s]] /\ at[s] # "none"
      /\ work' = [work EXCEPT !.step = "attested"]
  BY DEF F!WriteReceipt, F!AtStep
<1>2. /\ s \in F!Stages \cap tried /\ receipt[s] = "none"
      /\ work = [stage |-> s, step |-> "produced"]
  BY <1>1 DEF StagesInv, StagesTypeOK, RunsOnce, Working, WorkerSteps
<1>3. work' = [stage |-> s, step |-> "attested"] /\ work'.stage = s /\ work'.step = "attested"
  <2>1. work' = [stage |-> s, step |-> "attested"]
    BY <1>1, <1>2
  <2>2. QED
    BY <2>1
<1>4. /\ receipt'[s] = at[s] /\ \A t \in F!Stages \ {s} : receipt'[t] = receipt[t]
      /\ receipt' \in [F!Stages -> OutputRuns]
  BY <1>1, <1>2 DEF StagesInv, StagesTypeOK
<1>5. StagesTypeOK'
  BY <1>1, <1>2, <1>3, <1>4 DEF StagesInv, StagesTypeOK, WorkerSteps
<1>6. RunsOnce'
  BY <1>1, <1>2, <1>3, <1>4 DEF StagesInv, RunsOnce, Working
<1>7. StandsOnItsParents'
  BY <1>3 DEF StandsOnItsParents, Working
<1>8. ASSUME NEW t \in F!Stages, MadeOf(t)
      PROVE  MadeOf(t)'
  <2>1. \A p \in F!Parents(t) : receipt'[p] = receipt[p]
    BY <1>2, <1>4, <1>8, ParentsAreStages DEF MadeOf
  <2>2. QED
    BY <1>1, <1>8, <2>1 DEF MadeOf, F!Parents
<1>9. /\ s \notin touched => at[s] = "own" /\ MadeOf(s)
      /\ touched = {} => MadeOfOwn(s)
  BY <1>1 DEF StagesInv, MadeAsAttested, Working
<1>10. ASSUME NEW t \in F!Stages, receipt'[t] # "none"
       PROVE  /\ t \notin touched => receipt'[t] = "own" /\ MadeOf(t)'
              /\ touched = {} => MadeOfOwn(t)'
  <2>1. CASE t = s
    BY <1>1, <1>2, <1>4, <1>8, <1>9, <2>1 DEF MadeOfOwn
  <2>2. CASE t # s
    BY <1>1, <1>4, <1>8, <1>10, <2>2 DEF StagesInv, MadeAsAttested, MadeOfOwn
  <2>3. QED
    BY <2>1, <2>2
<1>11. MadeAsAttested'
  BY <1>1, <1>3, <1>10 DEF MadeAsAttested, Working
<1>12. QED
  BY <1>5, <1>6, <1>7, <1>11 DEF StagesInv

LEMMA EndingKeeps ==
  ASSUME StagesInv, F!EndStage \/ F!StopStage
  PROVE  StagesInv'
<1>1. UNCHANGED <<mode, at, from, receipt, tried, touched>> /\ work' = F!None
  BY DEF F!EndStage, F!StopStage
<1>2. ~(Working({"admitted", "configured"})') /\ ~(Working({"configured"})')
  BY <1>1 DEF Working
<1>3. QED
  BY <1>1, <1>2, WorkGoesOn

LEMMA EditKeeps ==
  ASSUME StagesInv, F!Edit
  PROVE  StagesInv'
<1>1. UNCHANGED <<mode, from, receipt, tried, work>>
  BY DEF F!Edit
<1>2. /\ touched \subseteq touched'
      /\ Working({"admitted", "configured", "produced"}) => work.stage \in touched'
  BY DEF F!Edit, Working
<1>3. at' \in [F!Stages \cup F!External -> OutputRuns]
  <2>1. PICK X \in {{x} : x \in F!Made \cap Touchable} \cup {F!Made}, v \in OutputRuns :
          at' = [x \in DOMAIN at |-> IF x \in X /\ x \notin F!External THEN v
                                     ELSE IF X = {x} THEN v ELSE at[x]]
    BY Zenon DEF F!Edit, OutputRuns
  <2>2. QED
    BY <2>1 DEF StagesInv, StagesTypeOK
<1>4. StagesTypeOK'
  BY <1>1, <1>3 DEF StagesInv, StagesTypeOK
<1>5. RunsOnce'
  BY <1>1 DEF StagesInv, RunsOnce, Working
<1>6. StandsOnItsParents'
  BY <1>1, <1>2 DEF StagesInv, StandsOnItsParents, Working
<1>7. MadeAsAttested'
  <2>1. ASSUME NEW s \in F!Stages, receipt[s] # "none"
        PROVE  /\ s \notin touched' => receipt'[s] = "own" /\ MadeOf(s)'
               /\ touched' = {} => MadeOfOwn(s)'
    BY <1>1, <1>2, <2>1 DEF StagesInv, MadeAsAttested, MadeOf, MadeOfOwn, F!Parents
  <2>2. QED
    BY <1>1, <1>2, <2>1 DEF MadeAsAttested, Working
<1>8. QED
  BY <1>4, <1>5, <1>6, <1>7 DEF StagesInv

LEMMA StagesNext ==
  StagesInv /\ [F!Next]_F!vars => StagesInv'
<1> SUFFICES ASSUME StagesInv, [F!Next]_F!vars PROVE StagesInv'
  OBVIOUS
<1>1. CASE F!Preflight \/ F!Accept \/ F!FullPreflight
  BY <1>1, StagesStandStill DEF F!Preflight, F!Accept, F!FullPreflight
<1>2. ASSUME NEW s \in F!Stages, F!RequestStage(s) \/ F!Approve(s)
      PROVE  StagesInv'
  BY <1>2, StagesStandStill DEF F!RequestStage, F!Approve
<1>3. CASE UNCHANGED F!vars
  BY <1>3, StagesStandStill DEF F!vars
<1>4. QED
  BY <1>1, <1>2, <1>3, RunStageKeeps, AdmitKeeps, WriteConfigKeeps, ProduceKeeps, WriteReceiptKeeps,
     EndingKeeps, EditKeeps DEF F!Next

\* The stages keep their lineage, for any orders, edits and stops, whatever may
\* be edited and however many papers are out (universe50_financial_ops).
THEOREM StagesStayInOrder ==
  MCSpec => [](part = "stages" => StagesInv)
<1>1. MCInit => (part = "stages" => StagesInv)
  BY StagesInit DEF MCInit
<1>2. (part = "stages" => StagesInv) /\ [MCNext]_mcvars => (part = "stages" => StagesInv)'
  <2>1. ASSUME [MCNext]_mcvars
        PROVE  /\ part' = part
               /\ part = "stages" => [F!Next]_F!vars
    <3>1. CASE MCNext
      BY <3>1 DEF MCNext
    <3>2. CASE UNCHANGED mcvars
      BY <3>2 DEF mcvars, stagesVars, F!vars
    <3>3. QED
      BY <2>1, <3>1, <3>2
  <2>2. QED
    BY <2>1, StagesNext
<1>3. QED
  BY <1>1, <1>2, PTL DEF MCSpec

\* A receipt stands for what its parents' receipts stand for, unless something
\* was edited beside the worker of that stage; if never beside any, all that the
\* acceptance names was made from the stages' own outputs (_parent_receipts,
\* _validate_first5_acceptance).
THEOREM LineageIsApproved ==
  MCSpec => []ApprovedLineage
<1>1. (part = "stages" => StagesInv) => ApprovedLineage
  <2> SUFFICES ASSUME part = "stages", StagesInv PROVE F!ApprovedLineage
    BY DEF ApprovedLineage
  <2>1. \A s \in F!Stages : receipt[s] # "none" /\ s \notin touched =>
          /\ receipt[s] = "own"
          /\ \A p \in F!Parents(s) \cap F!Reads[s] : from[s][p] = receipt[p]
    BY DEF StagesInv, MadeAsAttested, MadeOf
  <2>2. ASSUME F!AcceptanceHolds, touched = {}, NEW s \in F!Published, NEW x \in F!Reads[s]
        PROVE  from[s][x] = "own"
    <3>1. s \in F!Stages /\ receipt[s] # "none"
      BY <2>2 DEF F!AcceptanceHolds, F!OutputVerified, F!Published
    <3>2. QED
      BY <2>2, <3>1 DEF StagesInv, MadeAsAttested, MadeOfOwn
  <2>3. QED
    BY <2>1, <2>2 DEF F!ApprovedLineage
<1>2. QED
  BY <1>1, StagesStayInOrder, PTL

-----------------------------------------------------------------------------
(* The recovery of a company                                               *)

NativeRoots == {C!Native(o) : o \in 1..2}
NativeAttempts == [root : NativeRoots, failed : BOOLEAN]
BatchAttempts == [root : {C!Batch}, status : {"PASS", "FAIL", "SUPERVISOR_INTERRUPTED"}]
Declarations == [natives : Nat, batches : Nat, first : BOOLEAN]
BeforeTheLock == {"preflight", "requested", "go"}
UnderTheLock == {"locked", "admitted", "built", "marked"}

CompanyTypeOK ==
  /\ natives \in Seq(NativeAttempts)
  /\ batches \in Seq(BatchAttempts)
  /\ native = C!Idle \/ native \in [at : {"started", "built"}, root : NativeRoots]
  /\ batch.at \in {"idle", "checked", "locked", "built", "marked"}
  /\ recovery.at \in {"idle"} \cup BeforeTheLock \cup UnderTheLock
  /\ recovery.at = "idle" => recovery = C!Idle
  /\ recovery.at # "idle" =>
       /\ {"at", "config"} \subseteq DOMAIN recovery
       /\ recovery = [f \in DOMAIN recovery |-> recovery[f]]
       /\ recovery.config.version \in {"r1", "r2"}
       /\ recovery.config.declared \in Declarations

\* The batch build and the recovery work under the lock, one at a time.
LockIsTaken ==
  /\ batch.at \in {"locked", "built", "marked"} => lock = "batch"
  /\ recovery.at \in UnderTheLock => lock = "recovery"

\* The roots of the tools that the attempts declared left.
Left(d) == C!ToSet(C!FailureRoots(d)) \cap C!OfTools
Counted(d) == d.natives <= Len(natives) /\ d.batches <= Len(batches)
Recovering(steps, v, d) ==
  recovery.at \in steps /\ recovery.config.version = v /\ recovery.config.declared = d

\* What a recovery under the lock found it still finds, its own root aside.
RecoveryStands ==
  \A v \in {"r1", "r2"}, d \in Declarations :
    /\ Recovering({"admitted"}, v, d) => Counted(d) /\ roots \cap C!OfTools = Left(d)
    /\ Recovering({"built", "marked"}, v, d) =>
         Counted(d) /\ roots \cap C!OfTools = {C!Recovery(v)} \cup Left(d)
    /\ Recovering({"marked"}, v, d) => built = C!Recovery(v)

\* Nothing is built, and no recovery begun, where there is a receipt.
ReceiptStands ==
  recovered # C!NoReceipt =>
    /\ recovery.at = "idle" /\ built # C!NoRoot /\ built = recovered.root
    /\ roots \cap C!OfTools = {recovered.root} \cup (recovered.declared \cap C!OfTools)
    /\ recovered.attempts.natives \in Nat /\ recovered.attempts.natives <= Len(natives)
    /\ \A i \in 1..recovered.attempts.natives : natives[i].root \in recovered.declared

CompanyInv == CompanyTypeOK /\ LockIsTaken /\ RecoveryStands /\ ReceiptStands

-----------------------------------------------------------------------------
LEMMA RootsDiffer ==
  /\ NativeRoots \cap C!OfTools = {}
  /\ \A v \in {"r1", "r2"} : C!Recovery(v) # C!NoRoot /\ C!Recovery(v) \in C!OfTools
  /\ C!Batch # C!NoRoot
  /\ \A r \in NativeRoots : r # C!NoRoot
<1>1. C!ToSet(C!Programs) = {"r1", "r2"}
  BY DEF C!ToSet, C!Programs
<1>2. QED
  BY <1>1 DEF NativeRoots, C!OfTools, C!Native, C!Recovery, C!Batch, C!NoRoot

\* The attempts are only ever added to.
Grows == 
  /\ Len(natives) <= Len(natives') /\ \A i \in 1..Len(natives) : natives'[i] = natives[i]
  /\ Len(batches) <= Len(batches') /\ \A i \in 1..Len(batches) : batches'[i] = batches[i]

LEMMA DeclaredStays ==
  ASSUME CompanyTypeOK, Grows, CompanyTypeOK'
  PROVE  \A d \in Declarations : Counted(d) => Counted(d)' /\ Left(d)' = Left(d)
<1> SUFFICES ASSUME NEW d \in Declarations, Counted(d)
             PROVE  Counted(d)' /\ Left(d)' = Left(d)
  OBVIOUS
<1>1. /\ d.natives \in Nat /\ d.batches \in Nat
      /\ Len(natives) \in Nat /\ Len(batches) \in Nat /\ Len(natives') \in Nat /\ Len(batches') \in Nat
  BY DEF Declarations, CompanyTypeOK
<1>2. Counted(d)'
  BY <1>1 DEF Counted, Grows
<1>3. [i \in 1..d.natives |-> natives'[i].root] = [i \in 1..d.natives |-> natives[i].root]
  BY <1>1 DEF Counted, Grows
<1>4. [i \in 1..d.batches |-> batches'[i].root] = [i \in 1..d.batches |-> batches[i].root]
  BY <1>1 DEF Counted, Grows
<1>5. C!FailureRoots(d)' = C!FailureRoots(d)
  BY <1>3, <1>4 DEF C!FailureRoots
<1>6. QED
  BY <1>2, <1>5 DEF Left

\* Every declared attempt of the collection's build is among the roots.
LEMMA NativesAreDeclared ==
  ASSUME CompanyTypeOK, NEW d \in Declarations, Counted(d), NEW i \in 1..d.natives
  PROVE  natives[i].root \in C!ToSet(C!FailureRoots(d))
<1> DEFINE a == [j \in 1..d.natives |-> natives[j].root]
           b == [j \in 1..d.batches |-> batches[j].root]
           c == IF d.first THEN <<C!Recovery("r1")>> ELSE <<>>
           Some == NativeRoots \cup C!OfTools
<1>1. /\ d.natives \in Nat /\ d.batches \in Nat /\ Len(natives) \in Nat /\ Len(batches) \in Nat
      /\ \A j \in 1..Len(natives) : natives[j].root \in Some
      /\ \A j \in 1..Len(batches) : batches[j].root \in Some
  <2>1. \A j \in 1..Len(natives) : natives[j] \in NativeAttempts
    BY DEF CompanyTypeOK
  <2>2. \A j \in 1..Len(batches) : batches[j] \in BatchAttempts
    BY DEF CompanyTypeOK
  <2>3. C!Batch \in Some
    BY DEF C!OfTools
  <2>4. \A r \in NativeAttempts : r.root \in Some
    BY DEF NativeAttempts
  <2>5. \A r \in BatchAttempts : r.root \in Some
    BY <2>3 DEF BatchAttempts
  <2>6. QED
    BY <2>1, <2>2, <2>4, <2>5 DEF Declarations, CompanyTypeOK
<1>2. a \in Seq(Some) /\ Len(a) = d.natives /\ a[i] = natives[i].root
  BY <1>1 DEF Counted
<1>3. b \in Seq(Some) /\ Len(b) = d.batches
  BY <1>1 DEF Counted
<1>4. c \in Seq(Some) /\ Len(c) \in Nat
  <2>1. C!Recovery("r1") \in Some
    BY RootsDiffer
  <2> HIDE DEF Some
  <2>2. QED
    BY <2>1
<1>5. C!FailureRoots(d) = a \o b \o c
  BY DEF C!FailureRoots
<1> HIDE DEF a, b, c, Some
<1>6. a \o b \in Seq(Some) /\ Len(a \o b) = Len(a) + Len(b) /\ (a \o b)[i] = a[i]
  <2>1. a \o b \in Seq(Some) /\ Len(a \o b) = Len(a) + Len(b)
    BY <1>2, <1>3
  <2>2. QED
    BY <1>1, <1>2, <1>3, <2>1
<1>7. /\ a \o b \o c \in Seq(Some) /\ Len(a \o b \o c) = Len(a \o b) + Len(c)
      /\ (a \o b \o c)[i] = (a \o b)[i]
  <2> DEFINE ab == a \o b
  <2>1. /\ ab \in Seq(Some) /\ Len(ab) \in Nat /\ i \in 1..Len(ab)
    BY <1>1, <1>2, <1>3, <1>6
  <2> HIDE DEF ab
  <2>2. ab \o c \in Seq(Some) /\ Len(ab \o c) = Len(ab) + Len(c)
    BY <1>4, <2>1
  <2>3. (ab \o c)[i] = ab[i]
    BY <1>4, <2>1, <2>2
  <2>4. QED
    BY <2>2, <2>3 DEF ab
<1>8. i \in DOMAIN (a \o b \o c)
  BY <1>1, <1>2, <1>3, <1>4, <1>6, <1>7
<1>9. QED
  BY <1>2, <1>5, <1>6, <1>7, <1>8 DEF C!ToSet

LEMMA CompanyInit ==
  C!Init => CompanyInv
<1> SUFFICES ASSUME C!Init PROVE CompanyInv
  OBVIOUS
<1> USE DEF C!Init
<1>1. CompanyTypeOK
  BY DEF CompanyTypeOK, C!Idle
<1>2. LockIsTaken /\ RecoveryStands /\ ReceiptStands
  BY DEF LockIsTaken, RecoveryStands, ReceiptStands, Recovering, UnderTheLock, C!Idle
<1>3. QED
  BY <1>1, <1>2 DEF CompanyInv

\* A step that neither makes a root of the tools, nor a receipt, nor brings a
\* recovery further than to the lock.
LEMMA CompanyGoesOn ==
  ASSUME CompanyInv, CompanyTypeOK', LockIsTaken', Grows, recovered' = recovered,
         roots' \cap C!OfTools = roots \cap C!OfTools,
         built # C!NoRoot => built' = built,
         recovery' = recovery \/ recovery'.at \in {"idle", "locked"} \cup BeforeTheLock,
         recovered # C!NoReceipt => recovery' = recovery
  PROVE  CompanyInv'
<1>1. RecoveryStands'
  <2> SUFFICES ASSUME NEW v \in {"r1", "r2"}, NEW d \in Declarations
               PROVE  /\ Recovering({"admitted"}, v, d)' => Counted(d)' /\ (roots \cap C!OfTools)' = Left(d)'
                      /\ Recovering({"built", "marked"}, v, d)' =>
                           Counted(d)' /\ (roots \cap C!OfTools)' = {C!Recovery(v)} \cup Left(d)'
                      /\ Recovering({"marked"}, v, d)' => built' = C!Recovery(v)
    BY DEF RecoveryStands, C!OfTools, C!ToSet, C!Batch, C!Recovery, C!Programs
  <2>1. (roots \cap C!OfTools)' = roots \cap C!OfTools
    BY DEF C!OfTools, C!ToSet, C!Batch, C!Recovery, C!Programs
  <2>2. CASE recovery' = recovery
    <3>1. \A steps : Recovering(steps, v, d)' <=> Recovering(steps, v, d)
      BY <2>2 DEF Recovering
    <3>2. Counted(d) => Counted(d)' /\ Left(d)' = Left(d)
      BY DeclaredStays DEF CompanyInv
    <3>3. QED
      BY <2>1, <3>1, <3>2, RootsDiffer DEF CompanyInv, RecoveryStands
  <2>3. CASE recovery'.at \in {"idle", "locked"} \cup BeforeTheLock
    BY <2>3 DEF Recovering, BeforeTheLock
  <2>4. QED
    BY <2>2, <2>3
<1>2. ReceiptStands'
  <2> SUFFICES ASSUME recovered # C!NoReceipt
               PROVE  ReceiptStands'
    BY DEF ReceiptStands
  <2>1. /\ recovered.attempts.natives \in Nat /\ recovered.attempts.natives <= Len(natives)
        /\ \A i \in 1..recovered.attempts.natives : natives[i].root \in recovered.declared
    BY DEF CompanyInv, ReceiptStands
  <2>2. Len(natives) \in Nat /\ Len(natives') \in Nat
    BY DEF CompanyInv, CompanyTypeOK
  <2>3. /\ recovered.attempts.natives <= Len(natives')
        /\ \A i \in 1..recovered.attempts.natives : natives'[i].root \in recovered.declared
    <3>1. Len(natives) <= Len(natives') /\ \A i \in 1..Len(natives) : natives'[i] = natives[i]
      BY DEF Grows
    <3>2. recovered.attempts.natives <= Len(natives')
      BY <2>1, <2>2, <3>1
    <3>3. \A i \in 1..recovered.attempts.natives : i \in 1..Len(natives)
      BY <2>1, <2>2
    <3>4. QED
      BY <2>1, <3>1, <3>2, <3>3
  <2>4. (roots \cap C!OfTools)' = {recovered.root} \cup (recovered.declared \cap C!OfTools)
    BY DEF CompanyInv, ReceiptStands, C!OfTools, C!ToSet, C!Batch, C!Recovery, C!Programs
  <2>5. (recovered.declared \cap C!OfTools)' = recovered.declared \cap C!OfTools
    BY DEF C!OfTools, C!ToSet, C!Batch, C!Recovery, C!Programs
  <2>6. QED
    BY <2>1, <2>3, <2>4, <2>5 DEF CompanyInv, ReceiptStands
<1>3. QED
  BY <1>1, <1>2 DEF CompanyInv

\* The steps of the collection's build and of the people.
LEMMA NativeStepsKeep ==
  ASSUME CompanyInv,
         \/ C!AdoptAcceptedRaw \/ C!Change \/ \E o \in 1..2 : C!StartNative(o)
         \/ C!NativeWorks \/ C!NativeEnds \/ C!NativeDies
         \/ C!CopyStage \/ C!Audit \/ C!Attest
  PROVE  CompanyInv'
<1> USE DEF CompanyInv
<1>1. CASE C!AdoptAcceptedRaw \/ C!Change \/ C!CopyStage \/ C!Audit \/ C!Attest
  <2>1. UNCHANGED <<roots, built, natives, batches, recovered, native, batch, recovery, lock>>
    BY <1>1 DEF C!AdoptAcceptedRaw, C!Change, C!CopyStage, C!Audit, C!Attest
  <2>2. CompanyTypeOK' /\ LockIsTaken' /\ Grows
    BY <2>1 DEF CompanyTypeOK, LockIsTaken, Grows
  <2>3. QED
    BY <2>1, <2>2, CompanyGoesOn
<1>2. CASE (\E o \in 1..2 : C!StartNative(o)) \/ C!NativeWorks \/ C!NativeDies
  <2>1. UNCHANGED <<built, natives, batches, recovered, batch, recovery, lock>>
    BY <1>2 DEF C!StartNative, C!NativeWorks, C!NativeDies
  <2>2. native' = C!Idle \/ native' \in [at : {"started", "built"}, root : NativeRoots]
    <3>1. ASSUME NEW o \in 1..2, C!StartNative(o)
          PROVE  native' \in [at : {"started", "built"}, root : NativeRoots]
      BY <3>1 DEF C!StartNative, NativeRoots
    <3>2. CASE C!NativeWorks
      BY <3>2 DEF C!NativeWorks, CompanyTypeOK, C!Idle
    <3>3. CASE C!NativeDies
      BY <3>3 DEF C!NativeDies
    <3>4. QED
      BY <1>2, <3>1, <3>2, <3>3
  <2>3. roots' \cap C!OfTools = roots \cap C!OfTools
    <3>1. ASSUME NEW o \in 1..2, C!StartNative(o)
          PROVE  roots' = roots
      BY <3>1 DEF C!StartNative
    <3>2. CASE C!NativeWorks
      <4>1. native.root \in NativeRoots /\ roots' = roots \cup {native.root}
        BY <3>2 DEF C!NativeWorks, CompanyTypeOK, C!Idle
      <4>2. QED
        BY <4>1, RootsDiffer
    <3>3. CASE C!NativeDies
      BY <3>3 DEF C!NativeDies
    <3>4. QED
      BY <1>2, <3>1, <3>2, <3>3
  <2>4. CompanyTypeOK' /\ LockIsTaken' /\ Grows
    BY <2>1, <2>2 DEF CompanyTypeOK, LockIsTaken, Grows
  <2>5. QED
    BY <2>1, <2>3, <2>4, CompanyGoesOn
<1>3. CASE C!NativeEnds
  <2>1. /\ UNCHANGED <<roots, batches, recovered, batch, recovery, lock>> /\ native' = C!Idle
        /\ built # C!NoRoot => built' = built
    BY <1>3 DEF C!NativeEnds
  <2>2. PICK f \in BOOLEAN : natives' = Append(natives, [root |-> native.root, failed |-> f])
    BY <1>3 DEF C!NativeEnds
  <2>3. native.root \in NativeRoots
    BY <1>3 DEF C!NativeEnds, CompanyTypeOK, C!Idle
  <2>4. [root |-> native.root, failed |-> f] \in NativeAttempts
    BY <2>3 DEF NativeAttempts
  <2>5. /\ natives' \in Seq(NativeAttempts) /\ Len(natives) <= Len(natives')
        /\ \A i \in 1..Len(natives) : natives'[i] = natives[i]
    BY <2>2, <2>4 DEF CompanyTypeOK
  <2>6. CompanyTypeOK' /\ LockIsTaken' /\ Grows
    BY <2>1, <2>5 DEF CompanyTypeOK, LockIsTaken, Grows
  <2>7. QED
    BY <2>1, <2>6, CompanyGoesOn
<1>4. QED
  BY <1>1, <1>2, <1>3

\* The steps of the batch build.
LEMMA BatchStepsKeep ==
  ASSUME CompanyInv,
         \/ C!StartBatch \/ C!BatchLocks \/ C!BatchWorks \/ C!BatchMarks
         \/ C!BatchReceipts \/ C!BatchFails
  PROVE  CompanyInv'
<1> USE DEF CompanyInv
<1>1. CASE C!StartBatch \/ C!BatchLocks
  <2>1. UNCHANGED <<roots, built, natives, batches, recovered, native, recovery>>
    BY <1>1 DEF C!StartBatch, C!BatchLocks
  <2>2. CompanyTypeOK' /\ Grows
    BY <1>1, <2>1 DEF CompanyTypeOK, Grows, C!StartBatch, C!BatchLocks, C!Idle
  <2>3. LockIsTaken'
    BY <1>1, <2>1 DEF LockIsTaken, UnderTheLock, C!StartBatch, C!BatchLocks, C!Idle
  <2>4. QED
    BY <2>1, <2>2, <2>3, CompanyGoesOn
<1>2. CASE C!BatchWorks
  <2>1. /\ UNCHANGED <<built, natives, batches, recovered, native, recovery, lock>>
        /\ batch.at = "locked" /\ built = C!NoRoot /\ batch' = [at |-> "built"]
    BY <1>2 DEF C!BatchWorks, C!WorkerMayBuild
  <2>2. CompanyTypeOK' /\ LockIsTaken'
    BY <2>1 DEF CompanyTypeOK, LockIsTaken, UnderTheLock
  <2>3. recovered = C!NoReceipt
    BY <2>1 DEF ReceiptStands
  <2>4. recovery.at \notin UnderTheLock
    BY <2>1 DEF LockIsTaken
  <2>5. RecoveryStands' /\ ReceiptStands'
    BY <2>1, <2>3, <2>4 DEF RecoveryStands, ReceiptStands, Recovering, UnderTheLock
  <2>6. QED
    BY <2>2, <2>5
<1>3. CASE C!BatchMarks
  <2>1. /\ UNCHANGED <<roots, natives, batches, recovered, native, recovery, lock>>
        /\ batch.at = "built" /\ built = C!NoRoot /\ batch' = [at |-> "marked"]
    BY <1>3 DEF C!BatchMarks
  <2>2. CompanyTypeOK' /\ LockIsTaken' /\ Grows
    BY <2>1 DEF CompanyTypeOK, LockIsTaken, Grows
  <2>3. QED
    BY <2>1, <2>2, CompanyGoesOn
<1>4. CASE C!BatchReceipts \/ C!BatchFails
  <2>1. /\ UNCHANGED <<roots, built, natives, recovered, native, recovery>>
        /\ batch.at \in {"locked", "built", "marked"} /\ batch' = C!Idle /\ lock' = "free"
    BY <1>4 DEF C!BatchReceipts, C!BatchFails
  <2>2. \/ batches' = batches
        \/ \E s \in {"PASS", "FAIL", "SUPERVISOR_INTERRUPTED"} :
             batches' = Append(batches, [root |-> C!Batch, status |-> s])
    BY <1>4 DEF C!BatchReceipts, C!BatchFails
  <2>3. /\ batches' \in Seq(BatchAttempts) /\ Len(batches) <= Len(batches')
        /\ \A i \in 1..Len(batches) : batches'[i] = batches[i]
    <3>1. CASE batches' = batches
      BY <3>1 DEF CompanyTypeOK
    <3>2. ASSUME NEW s \in {"PASS", "FAIL", "SUPERVISOR_INTERRUPTED"},
                 batches' = Append(batches, [root |-> C!Batch, status |-> s])
          PROVE  /\ batches' \in Seq(BatchAttempts) /\ Len(batches) <= Len(batches')
                 /\ \A i \in 1..Len(batches) : batches'[i] = batches[i]
      <4>1. [root |-> C!Batch, status |-> s] \in BatchAttempts
        BY DEF BatchAttempts
      <4>2. QED
        BY <3>2, <4>1 DEF CompanyTypeOK
    <3>3. QED
      BY <2>2, <3>1, <3>2
  <2>4. recovery.at \notin UnderTheLock
    BY <2>1 DEF LockIsTaken
  <2>5. CompanyTypeOK' /\ LockIsTaken' /\ Grows
    BY <2>1, <2>3, <2>4 DEF CompanyTypeOK, LockIsTaken, Grows, C!Idle
  <2>6. QED
    BY <2>1, <2>5, CompanyGoesOn
<1>5. QED
  BY <1>1, <1>2, <1>3, <1>4

\* The papers of a recovery, its lock and its ends.
LEMMA PapersKeep ==
  ASSUME CompanyInv,
         C!Preflight \/ C!Approve \/ C!RunRecovery \/ C!RecoveryEnds \/ C!GiveUp
  PROVE  CompanyInv'
<1> USE DEF CompanyInv
<1>1. UNCHANGED <<roots, built, natives, batches, recovered, native, batch>>
  BY DEF C!Preflight, C!Approve, C!RunRecovery, C!RecoveryEnds, C!GiveUp
<1>2. Grows
  BY <1>1 DEF CompanyTypeOK, Grows
<1>3. CASE C!Preflight
  <2>1. PICK c : /\ recovery' = [at |-> "preflight", config |-> c]
                 /\ c.version \in {"r1", "r2"} /\ c.declared \in Declarations
                 /\ C!Snapshot(c)
    <3>1. PICK v \in C!ToSet(C!Programs), n \in 0..Len(natives), b \in 0..Len(batches),
               r \in BOOLEAN, reuse \in BOOLEAN :
            LET c == [version |-> v, declared |-> C!Declaration(n, b, r), reuse |-> reuse] IN
            C!Snapshot(c) /\ recovery' = [at |-> "preflight", config |-> c]
      BY <1>3 DEF C!Preflight
    <3>2. v \in {"r1", "r2"}
      BY <3>1 DEF C!ToSet, C!Programs
    <3>3. C!Declaration(n, b, r) \in Declarations
      BY DEF C!Declaration, Declarations, CompanyTypeOK
    <3>4. QED
      BY <3>1, <3>2, <3>3
  <2>2. recovered = C!NoReceipt /\ lock' = lock
    BY <1>3, <2>1 DEF C!Preflight, C!Snapshot, C!Unmarked
  <2>3. recovery'.at = "preflight"
    BY <2>1
  <2>4. CompanyTypeOK' /\ LockIsTaken'
    BY <1>1, <2>1, <2>2 DEF CompanyTypeOK, LockIsTaken, BeforeTheLock, UnderTheLock
  <2>5. QED
    BY <1>1, <1>2, <2>2, <2>3, <2>4, CompanyGoesOn DEF BeforeTheLock
<1>4. CASE C!Approve \/ C!RunRecovery
  <2>1. PICK s \in {"requested", "go", "locked"} :
          /\ recovery' = [recovery EXCEPT !.at = s]
          /\ s = "locked" => lock = "free" /\ lock' = "recovery"
          /\ s # "locked" => lock' = lock
    BY <1>4 DEF C!Approve, C!RunRecovery, C!Document
  <2>2. recovery.at \in BeforeTheLock /\ recovered = C!NoReceipt
    BY <1>4 DEF C!Approve, C!RunRecovery, C!Snapshot, C!Unmarked, C!Document, BeforeTheLock
  <2>3. /\ recovery'.at = s /\ recovery'.config = recovery.config
        /\ DOMAIN recovery' = DOMAIN recovery /\ recovery' = [f \in DOMAIN recovery' |-> recovery'[f]]
    BY <2>1, <2>2 DEF CompanyTypeOK, BeforeTheLock
  <2>4. CompanyTypeOK'
    BY <1>1, <2>2, <2>3 DEF CompanyTypeOK, BeforeTheLock, UnderTheLock
  <2>5. LockIsTaken'
    BY <1>1, <2>1, <2>2, <2>3 DEF LockIsTaken, UnderTheLock
  <2>6. QED
    BY <1>1, <1>2, <2>2, <2>3, <2>4, <2>5, CompanyGoesOn DEF BeforeTheLock
<1>5. CASE C!RecoveryEnds \/ C!GiveUp
  <2>1. recovery' = C!Idle /\ recovery.at # "idle"
    BY <1>5 DEF C!RecoveryEnds, C!GiveUp
  <2>2. recovered = C!NoReceipt
    BY <2>1 DEF ReceiptStands
  <2>3. /\ C!RecoveryEnds => lock' = "free" /\ recovery.at \in UnderTheLock
        /\ C!GiveUp => lock' = lock
    BY DEF C!RecoveryEnds, C!GiveUp, UnderTheLock
  <2>4. CompanyTypeOK' /\ LockIsTaken'
    BY <1>1, <1>5, <2>1, <2>3 DEF CompanyTypeOK, LockIsTaken, UnderTheLock, C!Idle
  <2>5. QED
    BY <1>1, <1>2, <2>1, <2>2, <2>4, CompanyGoesOn DEF C!Idle
<1>6. QED
  BY <1>3, <1>4, <1>5

\* The worker's own look at everything.
LEMMA AdmissionKeeps ==
  ASSUME CompanyInv, C!Admit
  PROVE  CompanyInv'
<1> USE DEF CompanyInv
<1>1. /\ UNCHANGED <<roots, built, natives, batches, recovered, native, batch, lock>>
      /\ recovery.at = "locked" /\ recovery' = [recovery EXCEPT !.at = "admitted"]
      /\ C!Snapshot(recovery.config)
  BY DEF C!Admit
<1>2. /\ recovery'.at = "admitted" /\ recovery'.config = recovery.config
      /\ DOMAIN recovery' = DOMAIN recovery
  BY <1>1 DEF CompanyTypeOK
<1>3. CompanyTypeOK'
  <2>1. recovery' = [f \in DOMAIN recovery' |-> recovery'[f]]
    BY <1>1
  <2>2. QED
    BY <1>1, <1>2, <2>1 DEF CompanyTypeOK, UnderTheLock
<1>4. LockIsTaken'
  BY <1>1, <1>2 DEF LockIsTaken, UnderTheLock
<1>5. ReceiptStands'
  BY <1>1 DEF ReceiptStands
<1>6. RecoveryStands'
  <2> SUFFICES ASSUME NEW v \in {"r1", "r2"}, NEW d \in Declarations, recovery.config.declared = d
               PROVE  Counted(d) /\ roots \cap C!OfTools = Left(d)
    BY <1>1, <1>2 DEF RecoveryStands, Recovering, Counted, Left, C!FailureRoots
  <2>1. Counted(d)
    BY <1>1 DEF C!Snapshot, C!AttemptsAccounted, Counted, CompanyTypeOK
  <2>2. roots \cap C!OfTools = Left(d)
    BY <1>1 DEF C!Snapshot, C!RootsAbandoned, C!NoOrphan, Left
  <2>3. QED
    BY <2>1, <2>2
<1>7. QED
  BY <1>3, <1>4, <1>5, <1>6

\* The new output root.
LEMMA RecoverKeeps ==
  ASSUME CompanyInv, C!Recover
  PROVE  CompanyInv'
<1> USE DEF CompanyInv
<1>1. /\ UNCHANGED <<built, natives, batches, recovered, native, batch, lock>>
      /\ recovery.at = "admitted"
      /\ roots' = roots \cup {C!Recovery(recovery.config.version)}
      /\ \E x : recovery' = [at |-> "built", config |-> recovery.config, of |-> x]
  BY DEF C!Recover
<1>2. /\ recovery'.at = "built" /\ recovery'.config = recovery.config
      /\ {"at", "config"} \subseteq DOMAIN recovery'
      /\ recovery' = [f \in DOMAIN recovery' |-> recovery'[f]]
  BY <1>1
<1>3. CompanyTypeOK'
  BY <1>1, <1>2 DEF CompanyTypeOK, UnderTheLock
<1>4. LockIsTaken'
  BY <1>1, <1>2 DEF LockIsTaken, UnderTheLock
<1>5. ReceiptStands'
  BY <1>1 DEF ReceiptStands
<1>6. RecoveryStands'
  <2> SUFFICES ASSUME NEW v \in {"r1", "r2"}, NEW d \in Declarations,
                      recovery.config.version = v, recovery.config.declared = d
               PROVE  Counted(d) /\ roots' \cap C!OfTools = {C!Recovery(v)} \cup Left(d)
    BY <1>1, <1>2 DEF RecoveryStands, Recovering, Counted, Left, C!FailureRoots
  <2>1. Counted(d) /\ roots \cap C!OfTools = Left(d)
    BY <1>1 DEF RecoveryStands, Recovering
  <2>2. C!Recovery(v) \in C!OfTools /\ roots' = roots \cup {C!Recovery(v)}
    BY <1>1, RootsDiffer
  <2>3. QED
    BY <2>1, <2>2
<1>7. QED
  BY <1>3, <1>4, <1>5, <1>6

LEMMA MarkingKeeps ==
  ASSUME CompanyInv, C!MarkRecovered
  PROVE  CompanyInv'
<1> USE DEF CompanyInv
<1>1. /\ UNCHANGED <<roots, natives, batches, recovered, native, batch, lock>>
      /\ recovery.at = "built" /\ recovery' = [recovery EXCEPT !.at = "marked"]
      /\ built' = C!Recovery(recovery.config.version)
  BY DEF C!MarkRecovered
<1>2. /\ recovery'.at = "marked" /\ recovery'.config = recovery.config
      /\ DOMAIN recovery' = DOMAIN recovery
  BY <1>1 DEF CompanyTypeOK
<1>3. CompanyTypeOK'
  <2>1. recovery' = [f \in DOMAIN recovery' |-> recovery'[f]]
    BY <1>1
  <2>2. QED
    BY <1>1, <1>2, <2>1 DEF CompanyTypeOK, UnderTheLock
<1>4. LockIsTaken'
  BY <1>1, <1>2 DEF LockIsTaken, UnderTheLock
<1>5. ReceiptStands'
  BY <1>1 DEF ReceiptStands
<1>6. RecoveryStands'
  <2> SUFFICES ASSUME NEW v \in {"r1", "r2"}, NEW d \in Declarations,
                      recovery.config.version = v, recovery.config.declared = d
               PROVE  /\ Counted(d) /\ roots \cap C!OfTools = {C!Recovery(v)} \cup Left(d)
                      /\ built' = C!Recovery(v)
    BY <1>1, <1>2 DEF RecoveryStands, Recovering, Counted, Left, C!FailureRoots
  <2>1. QED
    BY <1>1 DEF RecoveryStands, Recovering
<1>7. QED
  BY <1>3, <1>4, <1>5, <1>6

\* The receipt names what the worker was admitted to, which still is so.
LEMMA ReceiptKeeps ==
  ASSUME CompanyInv, C!WriteReceipt
  PROVE  CompanyInv'
<1> USE DEF CompanyInv
<1> DEFINE v == recovery.config.version
           d == recovery.config.declared
<1>1. /\ UNCHANGED <<roots, built, natives, batches, native, batch>>
      /\ recovery.at = "marked" /\ recovery' = C!Idle /\ lock' = "free"
      /\ recovered'.declared = C!ToSet(C!FailureRoots(d)) /\ recovered'.root = C!Recovery(v)
      /\ recovered'.attempts = d
  BY DEF C!WriteReceipt
<1>2. v \in {"r1", "r2"} /\ d \in Declarations
  BY <1>1 DEF CompanyTypeOK
<1>3. /\ Counted(d) /\ roots \cap C!OfTools = {C!Recovery(v)} \cup Left(d)
      /\ built = C!Recovery(v)
  BY <1>1, <1>2 DEF RecoveryStands, Recovering
<1>4. \A i \in 1..d.natives : natives[i].root \in C!ToSet(C!FailureRoots(d))
  BY <1>2, <1>3, NativesAreDeclared
<1>5. CompanyTypeOK' /\ LockIsTaken'
  BY <1>1 DEF CompanyTypeOK, LockIsTaken, UnderTheLock, C!Idle
<1>6. RecoveryStands'
  BY <1>1 DEF RecoveryStands, Recovering, C!Idle
<1>7. ReceiptStands'
  <2>1. recovery'.at = "idle" /\ built' # C!NoRoot /\ built' = recovered'.root
    BY <1>1, <1>2, <1>3, RootsDiffer DEF C!Idle
  <2>2. roots' \cap C!OfTools = {recovered'.root} \cup (recovered'.declared \cap C!OfTools)
    BY <1>1, <1>3 DEF Left
  <2>3. d.natives \in Nat /\ d.natives <= Len(natives)
    BY <1>2, <1>3 DEF Declarations, Counted
  <2>4. QED
    BY <1>1, <1>4, <2>1, <2>2, <2>3 DEF ReceiptStands
<1>8. QED
  BY <1>5, <1>6, <1>7

LEMMA CompanyNext ==
  CompanyInv /\ [C!Next]_C!vars => CompanyInv'
<1> SUFFICES ASSUME CompanyInv, [C!Next]_C!vars PROVE CompanyInv'
  OBVIOUS
<1>1. CASE UNCHANGED C!vars
  <2>1. UNCHANGED <<roots, built, natives, batches, recovered, native, batch, recovery, lock>>
    BY <1>1 DEF C!vars
  <2>2. CompanyTypeOK' /\ LockIsTaken' /\ Grows
    BY <2>1 DEF CompanyInv, CompanyTypeOK, LockIsTaken, Grows
  <2>3. QED
    BY <2>1, <2>2, CompanyGoesOn
<1>2. QED
  BY <1>1, NativeStepsKeep, BatchStepsKeep, PapersKeep, AdmissionKeeps, RecoverKeeps, MarkingKeeps,
     ReceiptKeeps DEF C!Next

\* The way of a company to its history keeps its order, for any plan: whatever
\* is built, tried again, recovered or killed beside it (universe50_t3v2_ops,
\* universe50_history_recovery_ops).
THEOREM CompanyStaysInOrder ==
  MCSpec => [](part = "company" => CompanyInv)
<1>1. MCInit => (part = "company" => CompanyInv)
  BY CompanyInit DEF MCInit
<1>2. (part = "company" => CompanyInv) /\ [MCNext]_mcvars => (part = "company" => CompanyInv)'
  <2>1. ASSUME [MCNext]_mcvars
        PROVE  /\ part' = part
               /\ part = "company" => [C!Next]_C!vars
    <3>1. CASE MCNext
      BY <3>1 DEF MCNext
    <3>2. CASE UNCHANGED mcvars
      BY <3>2 DEF mcvars, companyVars, C!vars
    <3>3. QED
      BY <2>1, <3>1, <3>2
  <2>2. QED
    BY <2>1, CompanyNext
<1>3. QED
  BY <1>1, <1>2, PTL DEF MCSpec

\* A recovery that made its company READY has named every output root that a
\* tool ever left for it, also one left after its papers were approved
\* (_validate_collection_target).
THEOREM RecoveryDeclaresFailures ==
  MCSpec => []EveryFailureIsDeclared
<1>1. (part = "company" => CompanyInv) => EveryFailureIsDeclared
  BY DEF EveryFailureIsDeclared, C!EveryFailureIsDeclared, CompanyInv, ReceiptStands
<1>2. QED
  BY <1>1, CompanyStaysInOrder, PTL
=============================================================================
