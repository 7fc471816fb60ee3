---------------------------- MODULE MCNssSysctl ----------------------------
(***************************************************************************)
(* NssSysctl for TLC.  Every property of the run speaks of the time before *)
(* the first late answer, so the search stops there.                       *)
(***************************************************************************)
EXTENDS NssSysctl, TLC

Writers == Permutations(Caller)
NoneLate == late = 0
=============================================================================
