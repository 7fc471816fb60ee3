--------------------------- MODULE AccelDecision ---------------------------
(***************************************************************************)
(* What the DEFAULT classifier promises about one connection, whatever     *)
(* locks, packets and classifier instances are behind it: a decision to    *)
(* accelerate or not, a denial only for a cause and together with the      *)
(* request to remove the rule (if there is anybody to ask), and a request  *)
(* that is never forgotten.                                                *)
(*                                                                         *)
(* When packets are processed one at a time the decision is final.  When   *)
(* they race, each of the packets that found no decision may make one.     *)
(***************************************************************************)
CONSTANT Racing   \* packets of the connection are processed concurrently

VARIABLES
  decision,  \* "undecided", "accel" or "no"
  torn,      \* removing the rule is over with: asked for, or nobody to ask
  cause      \* there is a reason to deny

TypeOK ==
  /\ decision \in {"undecided", "accel", "no"}
  /\ torn \in BOOLEAN
  /\ cause \in BOOLEAN

Init ==
  /\ decision = "undecided"
  /\ torn = FALSE
  /\ cause \in BOOLEAN

(* A denied mark, a foreign callback or the deny-all mode turns up.        *)
Blame ==
  /\ cause' = TRUE
  /\ UNCHANGED <<decision, torn>>

Open == Racing \/ decision = "undecided"

Accept ==
  /\ Open
  /\ decision' = "accel"
  /\ UNCHANGED <<torn, cause>>

Deny ==
  /\ Open
  /\ cause
  /\ decision' = "no"
  /\ torn' = TRUE
  /\ UNCHANGED cause

Next == Blame \/ Accept \/ Deny

vars == <<decision, torn, cause>>
Spec == Init /\ [][Next]_vars
=============================================================================
