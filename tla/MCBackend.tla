------------------------------- MODULE MCBackend -------------------------------
(***************************************************************************)
(* HandlerDeployments for TLC.  Subscription slots are interchangeable, and *)
(* so are keys: no action and no invariant tells two of them apart.        *)
(***************************************************************************)
EXTENDS HandlerDeployments, TLC

SlotSymmetry == Permutations(Subs) \cup Permutations(Keys)
=============================================================================
