----------------------------- MODULE MCDashboard -----------------------------
(***************************************************************************)
(* Two parts of the dashboard side by side: a behaviour runs one of them   *)
(* and leaves the other where it starts.                                   *)
(*                                                                         *)
(* Journal (DecisionJournal): two request threads decide on two companies. *)
(* Bridge (LoopbackBridge): a request of each kind a worker changes.       *)
(***************************************************************************)
EXTENDS DecisionJournal, LoopbackBridge

CONSTANTS g1, s1, h1, c1, interest

VARIABLE part

KindOfRequest == [r \in {g1, s1, h1} |-> IF r = g1 THEN "guarded" ELSE IF r = s1 THEN "shared" ELSE "history"]

MCInit ==
  /\ Init /\ BridgeInit
  /\ \/ part = "journal" /\ worker = "off"
     \/ part = "bridge"

\* Companies and states are interchangeable: the first event is c1's.
FirstEvent == events' # <<>> => events'[1].cik = c1 /\ events'[1].state = interest

MCNext ==
  /\ UNCHANGED part
  /\ \/ part = "journal" /\ Next /\ FirstEvent /\ UNCHANGED bridgeVars
     \/ part = "bridge" /\ BridgeNext /\ UNCHANGED vars

mcvars == <<part, vars, bridgeVars>>
MCSpec ==
  /\ MCInit /\ [][MCNext]_mcvars
  /\ \A r \in Requests :
       /\ WF_bridgeVars(part = "bridge" /\ WorkerTimeout(r))
       /\ WF_bridgeVars(part = "bridge" /\ RelayTimeout(r))
=============================================================================
