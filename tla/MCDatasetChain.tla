---------------------------- MODULE MCDatasetChain ----------------------------
(***************************************************************************)
(* The whole chain with edits in between: one command at a time over a     *)
(* generic identity, two beside each other over a legacy one.              *)
(***************************************************************************)
EXTENDS DatasetChain, TLC

CONSTANTS p1, p2

Made == {"identity", "metrics"}
MCBudgets ==
  {[kind |-> "GENERIC", beside |-> 1, edits |-> 2, starts |-> 6, movable |-> Made \cup {"metadata"}],
   [kind |-> "LEGACY", beside |-> 2, edits |-> 2, starts |-> 6, movable |-> Made],
   [kind |-> "LEGACY", beside |-> 1, edits |-> 2, starts |-> 6, movable |-> {"metadata"}]}
Symmetry == Permutations({p1, p2})
===============================================================================
