--------------------------- MODULE AtMostOnceCall ---------------------------
(***************************************************************************)
(* What the dashboard's bridge owes a browser, whatever it does inside: a  *)
(* request is executed at most once and answered at most once.  An answer  *)
(* "done" says that it was executed, an answer "refused" that it never     *)
(* will be; "unknown" (502, 503 and 504) says neither: the request may     *)
(* have been executed, or may be later.                                    *)
(***************************************************************************)
EXTENDS Naturals, Sequences

CONSTANT Requests

VARIABLES ran,       \* how often each request was executed
          answers    \* the answers each request got, in order

vars == <<ran, answers>>

Init ==
  /\ ran = [r \in Requests |-> 0]
  /\ answers = [r \in Requests |-> << >>]

Run(r) ==
  /\ ran[r] = 0
  /\ answers[r] # <<"refused">>
  /\ ran' = [ran EXCEPT ![r] = 1]
  /\ UNCHANGED answers

(* Every unanswered request of R gets the same answer: one request         *)
(* usually, all that are pending when a child process ends.                *)
Answer(R, status) ==
  /\ R # {}
  /\ \A r \in R :
       /\ answers[r] = << >>
       /\ status = "done" => ran[r] = 1
       /\ status = "refused" => ran[r] = 0
  /\ answers' = [r \in Requests |-> IF r \in R THEN <<status>> ELSE answers[r]]
  /\ UNCHANGED ran

Next ==
  \/ \E r \in Requests : Run(r)
  \/ \E R \in SUBSET Requests, status \in {"done", "refused", "unknown"} :
       Answer(R, status)

Spec == Init /\ [][Next]_vars
=============================================================================
