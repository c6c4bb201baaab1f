--------------------------- MODULE LoopbackBridge ---------------------------
(***************************************************************************)
(* The bridge between a browser on Windows and the screening server in     *)
(* WSL (examples/screening/windows-loopback-bridge.cjs): one Node process  *)
(* that holds the HTTP responses, and two child processes it talks to in   *)
(* lines of JSON.  The relay (screening/bridge.py) passes requests to the  *)
(* backend, one at a time; the history worker (journal_history.py) serves  *)
(* the lifecycle records itself and says whether a guarded request may go  *)
(* to the relay.  Children die, lines arrive late, timers fire first.      *)
(*                                                                         *)
(* A request is its id.  Lines in a pipe are a set: which of the waiting   *)
(* lines is taken next is left open, so a result holds for every order.    *)
(***************************************************************************)
EXTENDS Naturals, Sequences, FiniteSets

CONSTANTS Requests,
          KindOf      \* of each request: "guarded", "shared", "history" or "plain"

OfKind(kind) == {r \in Requests : KindOf[r] = kind}

Guarded == OfKind("guarded")   \* runs, results and conditions of a journal record
Shared == OfKind("shared")     \* the lists and decisions a configured worker takes over
History == OfKind("history")   \* /api/history: only the worker knows them; the
                               \* other requests are for the backend, unguarded

VARIABLES
  stage,     \* where the bridge holds each request
  answers,   \* what was written to each response
  worker,    \* the history worker: "off" (not configured), "up" or "down"
  dead,      \* the bridge's flag: the worker has failed
  toWorker,  \* requests in the worker's stdin
  fromWorker,\* lines in the worker's stdout
  relay,     \* the relay process: "up" or "down"
  reaped,    \* the bridge has seen the relay's exit
  toRelay,   \* requests in the relay's stdin
  fromRelay, \* lines in the relay's stdout
  serving,   \* the request the relay is passing on, if any
  backend,   \* requests the backend has received and not yet executed
  ran,       \* how often each request was executed, by worker or backend
  allowed,   \* the guarded requests the worker let pass
  bridge     \* the Node process: "up", "stopping" or "down"

workerVars == <<worker, dead, toWorker, fromWorker, allowed>>
relayVars == <<relay, reaped, toRelay, fromRelay, serving, backend>>
bridgeVars == <<stage, answers, workerVars, relayVars, ran, bridge>>

Stages == {"new", "worker", "relay", "closed"}
Statuses == {"done", "refused", "unknown"}
Lines == [id : Requests, status : Statuses \cup {"allowed"}]

Pending(s) == {r \in Requests : stage[r] = s}

BridgeInit ==
  /\ worker \in {"off", "up"}
  /\ stage = [r \in Requests |-> "new"]
  /\ answers = [r \in Requests |-> << >>]
  /\ ran = [r \in Requests |-> 0]
  /\ dead = FALSE /\ reaped = FALSE
  /\ relay = "up" /\ bridge = "up"
  /\ toWorker = {} /\ fromWorker = {} /\ allowed = {}
  /\ toRelay = {} /\ fromRelay = {} /\ serving = {} /\ backend = {}

(* writeJson: the responses of R end with the same status, and the bridge  *)
(* forgets them: their timers are cleared and their entries deleted.       *)
WriteJson(R, status) ==
  /\ stage' = [r \in Requests |-> IF r \in R THEN "closed" ELSE stage[r]]
  /\ answers' = [r \in Requests |->
                   IF r \in R THEN Append(answers[r], status) ELSE answers[r]]

-----------------------------------------------------------------------------
(* A request arrives.                                                      *)

(* Host, method, path, origin, content type or size is not acceptable.     *)
Gate(r) ==
  /\ stage[r] = "new" /\ bridge # "down"
  /\ WriteJson({r}, "refused")
  /\ UNCHANGED <<workerVars, relayVars, ran, bridge>>

(* The worker is asked first, or alone.                                    *)
NeedsWorker(r) == r \in History \/ (worker # "off" /\ r \in Shared \cup Guarded)

(* The lifecycle is not configured: /api/history answers 503.              *)
Unconfigured(r) ==
  /\ stage[r] = "new" /\ bridge # "down"
  /\ worker = "off" /\ r \in History
  /\ WriteJson({r}, "refused")
  /\ UNCHANGED <<workerVars, relayVars, ran, bridge>>

AskWorker(r) ==
  /\ stage[r] = "new" /\ bridge # "down"
  /\ worker # "off" /\ NeedsWorker(r)
  /\ IF dead
       THEN /\ WriteJson({r}, "unknown")
            /\ UNCHANGED toWorker
       ELSE /\ stage' = [stage EXCEPT ![r] = "worker"]
            /\ toWorker' = toWorker \cup {r}
            /\ UNCHANGED answers
  /\ UNCHANGED <<worker, dead, fromWorker, allowed, relayVars, ran, bridge>>

(* The line goes to the relay's stdin.  If the relay has died and its exit *)
(* has not been handled, the failed write answers 502 and then, since      *)
(* nothing listens for errors of relay.stdin, ends the bridge; after the   *)
(* exit the stream is destroyed and the write only fails.                  *)
SendToRelay(r) ==
  \/ /\ relay = "up" \/ ~reaped
     /\ stage' = [stage EXCEPT ![r] = "relay"]
     /\ toRelay' = toRelay \cup {r}
     /\ UNCHANGED answers
  \/ /\ relay = "down" /\ reaped
     /\ WriteJson({r}, "unknown")
     /\ UNCHANGED toRelay

AskRelay(r) ==
  /\ stage[r] = "new" /\ bridge # "down"
  /\ ~NeedsWorker(r)
  /\ SendToRelay(r)
  /\ UNCHANGED <<workerVars, relay, reaped, fromRelay, serving, backend, ran, bridge>>

-----------------------------------------------------------------------------
(* The history worker.                                                     *)

(* One pass of run_worker: a guarded request is looked up, anything else   *)
(* is executed or refused as a whole.  The worker can die with the request *)
(* executed and the line not printed.                                      *)
WorkerRun(r) ==
  /\ worker = "up" /\ r \in toWorker
  /\ toWorker' = toWorker \ {r}
  /\ \/ /\ fromWorker' = fromWorker \cup {[id |-> r, status |-> "refused"]}
        /\ UNCHANGED <<worker, allowed, ran>>
     \/ /\ r \in Guarded
        /\ fromWorker' = fromWorker \cup {[id |-> r, status |-> "allowed"]}
        /\ allowed' = allowed \cup {r}
        /\ UNCHANGED <<worker, ran>>
     \/ /\ r \notin Guarded
        /\ ran' = [ran EXCEPT ![r] = @ + 1]
        /\ \/ /\ fromWorker' = fromWorker \cup {[id |-> r, status |-> "done"]}
              /\ UNCHANGED worker
           \/ /\ worker' = "down"
              /\ UNCHANGED fromWorker
        /\ UNCHANGED allowed
  /\ UNCHANGED <<stage, answers, dead, relayVars, bridge>>

WorkerDies ==
  /\ worker = "up"
  /\ worker' = "down"
  /\ toWorker' = {}
  /\ UNCHANGED <<stage, answers, dead, fromWorker, allowed, relayVars, ran, bridge>>

(* failAll: the worker's exit, or a failed write to it, rejects whatever   *)
(* waits for it, and it is not started again.                              *)
WorkerFails ==
  /\ worker = "down" /\ ~dead /\ bridge # "down"
  /\ dead' = TRUE
  /\ WriteJson(Pending("worker"), "unknown")
  /\ UNCHANGED <<worker, toWorker, fromWorker, allowed, relayVars, ran, bridge>>

\* Mutant: only a refusal ends the request; what the worker executed goes on to
\* the backend, which executes it again.
WorkerLineGoesOn(line) ==
  /\ line \in fromWorker /\ bridge # "down"
  /\ fromWorker' = fromWorker \ {line}
  /\ \/ /\ stage[line.id] = "worker"
        /\ IF line.status # "refused"
             THEN SendToRelay(line.id)
             ELSE /\ WriteJson({line.id}, line.status)
                  /\ UNCHANGED toRelay
     \/ /\ stage[line.id] # "worker"
        /\ UNCHANGED <<stage, answers, toRelay>>
  /\ UNCHANGED <<worker, dead, toWorker, allowed, relay, reaped, fromRelay,
                 serving, backend, ran, bridge>>

(* A line of the worker: an answer, or the leave for a guarded request to  *)
(* go on to the relay.  A line for an entry that is gone is dropped.       *)
WorkerLine(line) ==
  /\ line \in fromWorker /\ bridge # "down"
  /\ fromWorker' = fromWorker \ {line}
  /\ \/ /\ stage[line.id] = "worker"
        /\ IF line.status = "allowed"
             THEN SendToRelay(line.id)
             ELSE /\ WriteJson({line.id}, line.status)
                  /\ UNCHANGED toRelay
     \/ /\ stage[line.id] # "worker"
        /\ UNCHANGED <<stage, answers, toRelay>>
  /\ UNCHANGED <<worker, dead, toWorker, allowed, relay, reaped, fromRelay,
                 serving, backend, ran, bridge>>

WorkerTimeout(r) ==
  /\ stage[r] = "worker" /\ bridge # "down"
  /\ WriteJson({r}, "unknown")
  /\ UNCHANGED <<workerVars, relayVars, ran, bridge>>

-----------------------------------------------------------------------------
(* The relay and the backend.                                              *)

RelayServe(r) ==
  /\ relay = "up" /\ serving = {} /\ r \in toRelay
  /\ serving' = {r}
  /\ toRelay' = toRelay \ {r}
  /\ backend' = backend \cup {r}
  /\ UNCHANGED <<stage, answers, workerVars, relay, reaped, fromRelay, ran, bridge>>

BackendRun(r) ==
  /\ r \in backend
  /\ backend' = backend \ {r}
  /\ ran' = [ran EXCEPT ![r] = @ + 1]
  /\ UNCHANGED <<stage, answers, workerVars, relay, reaped, toRelay, fromRelay,
                 serving, bridge>>

(* The backend is not there, or goes away with the request.                *)
BackendDrops(r) ==
  /\ r \in backend
  /\ backend' = backend \ {r}
  /\ UNCHANGED <<stage, answers, workerVars, relay, reaped, toRelay, fromRelay,
                 serving, ran, bridge>>

(* relay_request returns the backend's response.                           *)
RelayDone ==
  /\ relay = "up" /\ serving # {}
  /\ \A r \in serving : ran[r] > 0
  /\ fromRelay' = fromRelay \cup {[id |-> r, status |-> "done"] : r \in serving}
  /\ serving' = {}
  /\ UNCHANGED <<stage, answers, workerVars, relay, reaped, toRelay, backend, ran, bridge>>

(* It raises instead: refused connection, 30 s without an answer, a        *)
(* response that is too long.  The backend may still execute the request.  *)
RelayGivesUp ==
  /\ relay = "up" /\ serving # {}
  /\ fromRelay' = fromRelay \cup {[id |-> r, status |-> "unknown"] : r \in serving}
  /\ serving' = {}
  /\ UNCHANGED <<stage, answers, workerVars, relay, reaped, toRelay, backend, ran, bridge>>

RelayLine(line) ==
  /\ line \in fromRelay /\ bridge # "down"
  /\ fromRelay' = fromRelay \ {line}
  /\ IF stage[line.id] = "relay"
       THEN WriteJson({line.id}, line.status)
       ELSE UNCHANGED <<stage, answers>>
  /\ UNCHANGED <<workerVars, relay, reaped, toRelay, serving, backend, ran, bridge>>

\* Mutant: the timer is kept only while the relay runs.
RelayTimeoutOfLiving(r) ==
  /\ stage[r] = "relay" /\ bridge # "down" /\ relay = "up"
  /\ WriteJson({r}, "unknown")
  /\ UNCHANGED <<workerVars, relayVars, ran, bridge>>

RelayTimeout(r) ==
  /\ stage[r] = "relay" /\ bridge # "down"
  /\ WriteJson({r}, "unknown")
  /\ UNCHANGED <<workerVars, relayVars, ran, bridge>>

(* The requests in its stdin are lost; those written from now on fail.     *)
RelayDies ==
  /\ relay = "up"
  /\ relay' = "down"
  /\ toRelay' = {} /\ serving' = {}
  /\ UNCHANGED <<stage, answers, workerVars, reaped, fromRelay, backend, ran, bridge>>

RelayExit ==
  /\ relay = "down" /\ ~reaped /\ bridge # "down"
  /\ reaped' = TRUE
  /\ toRelay' = {}
  /\ IF bridge = "up"
       THEN WriteJson(Pending("relay"), "unknown")
       ELSE UNCHANGED <<stage, answers>>
  /\ UNCHANGED <<workerVars, relay, fromRelay, serving, backend, ran, bridge>>

(* The error of the failed write reaches no handler: the response of the   *)
(* one request may still be sent, every other connection is cut.           *)
RelayWriteFails(r) ==
  /\ relay = "down" /\ ~reaped /\ bridge # "down"
  /\ r \in toRelay
  /\ toRelay' = {}
  /\ bridge' = "down"
  /\ \E R \in SUBSET ({r} \cap Pending("relay")) :
       answers' = [q \in Requests |->
                     IF q \in R THEN Append(answers[q], "unknown") ELSE answers[q]]
  /\ stage' = [q \in Requests |-> "closed"]
  /\ UNCHANGED <<workerVars, relay, reaped, fromRelay, serving, backend, ran>>

-----------------------------------------------------------------------------
(* SIGINT or SIGTERM: whatever is pending gets 503.  The children are      *)
(* killed; when they go, and whether they finish first, is left open.      *)
Stop ==
  /\ bridge = "up"
  /\ bridge' = "stopping"
  /\ WriteJson(Pending("relay") \cup Pending("worker"), "unknown")
  /\ dead' = (worker # "off")
  /\ UNCHANGED <<worker, toWorker, fromWorker, allowed, relayVars, ran>>

BridgeNext ==
  \/ \E r \in Requests :
       \/ Gate(r) \/ Unconfigured(r) \/ AskWorker(r) \/ AskRelay(r)
       \/ WorkerRun(r) \/ WorkerTimeout(r)
       \/ RelayServe(r) \/ BackendRun(r) \/ BackendDrops(r)
       \/ RelayTimeout(r) \/ RelayWriteFails(r)
  \/ \E line \in fromWorker : WorkerLine(line)
  \/ \E line \in fromRelay : RelayLine(line)
  \/ WorkerDies \/ WorkerFails
  \/ RelayDone \/ RelayGivesUp \/ RelayDies \/ RelayExit
  \/ Stop

BridgeSpec == BridgeInit /\ [][BridgeNext]_bridgeVars

(* Node's timers fire while its event loop turns; nothing else is assumed  *)
(* to happen, not even that a child ever answers.                          *)
LiveBridge ==
  /\ BridgeSpec
  /\ \A r \in Requests : WF_bridgeVars(WorkerTimeout(r)) /\ WF_bridgeVars(RelayTimeout(r))

-----------------------------------------------------------------------------
(* Correctness.                                                            *)

(* The bridge with its children implements the abstract call: nothing is   *)
(* executed twice or answered twice, and what an answer claims about the   *)
(* execution is true for ever, however late the lines and the timers.      *)
Call == INSTANCE AtMostOnceCall
CallPromise == Call!Spec

(* A request that the bridge holds for a child is answered, or its         *)
(* connection is cut with the bridge's own end, even if the children and   *)
(* the backend hang or die (REQUEST_TIMEOUT_MS, completePending, failAll). *)
EveryRequestAnswered ==
  \A r \in Requests : stage[r] \in {"worker", "relay"} ~> stage[r] = "closed"
=============================================================================
