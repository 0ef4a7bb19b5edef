---------------------------- MODULE MCHostAgent ----------------------------
(* Instances of HostAgent for TLC.                                         *)
EXTENDS HostAgent, TLC

Symmetry == Permutations(Instances)

(* A bound of the WebSocket run: users deploy and delete, no more.         *)
OnlyDeployAndDelete ==
    \A s \in UserSlots :
       \/ call'[s].op \in {"idle", "insert"}
       \/ call'[s].op = "set" /\ call'[s].to = "pending_delete"
=============================================================================
