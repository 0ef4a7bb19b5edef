-------------------------- MODULE RemovalContract --------------------------
(***************************************************************************)
(* What the control plane promises about removal, without its handlers: a  *)
(* game server appears once, stays until a user asked to remove it or its  *)
(* host, and never comes back.                                             *)
(***************************************************************************)
CONSTANT Instances

VARIABLES
    phase,        \* instance -> "none", "live" or "removed"
    asked,        \* instances whose removal a user asked for
    hostAsked     \* a user asked for the removal of the host

contractVars == <<phase, asked, hostAsked>>

Init ==
    /\ phase = [i \in Instances |-> "none"]
    /\ asked = {}
    /\ hostAsked = FALSE

Appear(i) ==
    /\ phase[i] = "none"
    /\ phase' = [phase EXCEPT ![i] = "live"]
    /\ UNCHANGED <<asked, hostAsked>>

AskRemoval(i) ==
    /\ phase[i] = "live"
    /\ asked' = asked \cup {i}
    /\ UNCHANGED <<phase, hostAsked>>

AskHost ==
    /\ hostAsked' = TRUE
    /\ UNCHANGED <<phase, asked>>

(* Rows go together when their host goes.                                  *)
Remove(gone) ==
    /\ gone \in SUBSET Instances
    /\ \A i \in gone : phase[i] = "live" /\ (hostAsked \/ i \in asked)
    /\ phase' = [i \in Instances |->
                    IF i \in gone THEN "removed" ELSE phase[i]]
    /\ UNCHANGED <<asked, hostAsked>>

Next ==
    \/ \E i \in Instances : Appear(i) \/ AskRemoval(i)
    \/ AskHost
    \/ \E gone \in SUBSET Instances : Remove(gone)

Spec == Init /\ [][Next]_contractVars
=============================================================================
