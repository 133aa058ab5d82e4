----------------------------- MODULE MCCaseIndex -----------------------------
(***************************************************************************)
(* Assignments and what follows them, in one of two worlds: three          *)
(* operators press the buttons of their pages while the mail is assigned   *)
(* by anybody at any time (WorkTracking), or two writers assign, forward   *)
(* and index it step by step (CaseIndex).  An operator's click leaves the  *)
(* assignee of the item and the index alone, so the second world does      *)
(* without it.  Two writers show every overlap of two changes, one fault a *)
(* follower that is left behind, and no bound keeps it from being repaired.*)
(***************************************************************************)
EXTENDS CaseIndex, TLC

VARIABLE world

MCInit == RoutingInit /\ world \in {"work", "routing"}
MCNext ==
  \/ world = "work" /\ Next /\ UNCHANGED <<caseVars, world>>
  \/ world = "routing" /\ RoutingNext /\ UNCHANGED world
MCSpec == MCInit /\ [][MCNext]_<<routingVars, world>>

Symmetry == Permutations(Users) \cup Permutations(Writers)
=============================================================================
