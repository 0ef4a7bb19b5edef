-------------------------- MODULE MCControlPlane --------------------------
(* Instances of ControlPlane for TLC: slots and instances are symmetric,   *)
(* and a behaviour has its requests in service as they come, or one at a   *)
(* time, chosen at the start.                                              *)
EXTENDS ControlPlane, TLC

VARIABLE alone          \* none starts before the others have answered

mixVars == <<vars, alone>>
MixInit == Init /\ alone \in BOOLEAN
MixNext == UNCHANGED alone /\ IF alone THEN SerialNext ELSE Next
MixSpec == MixInit /\ [][MixNext]_mixVars

(* What the user asked for last stands until the agent has done it: when   *)
(* no two requests overlap, a queued deletion, stop or start is overwritten *)
(* by no other request and by no report of the agent.                      *)
IntentSticks == [][alone => KeepsIntent]_mixVars

Symmetry == Permutations(Instances) \cup Permutations(UserSlots)
=============================================================================
