----------------------------- MODULE MCDelivery -----------------------------
(***************************************************************************)
(* What must come in the end, for TLC: secrets and reboots, terminals,     *)
(* updates, notices, the firewall of one host, and its page.  They share   *)
(* no variable, so a behaviour works one of them, chosen at the start, and *)
(* leaves the others in their first state.                                 *)
(***************************************************************************)
EXTENDS HostHeartbeat, TerminalRelay, SelfUpdate, HostPresence, HostFirewall,
        LiveViews

VARIABLE concern        \* the one that is at work

deliveryVars == <<concern, heartbeatVars, terminalVars, updateVars,
                  presenceVars, firewallVars, liveVars>>
Concerns == {"secrets", "reboots", "terminal", "update", "presence",
             "firewall", "page"}

(* Secrets and reboots travel in the same heartbeats; a behaviour of this  *)
(* instance has only the ones or the others.                               *)
Beating == concern \in {"secrets", "reboots"}
NoReboots == ~rebootFlag'
NoSecrets == secretsSet' = <<0, 1>>

DeliveryInit ==
    /\ concern \in Concerns
    /\ HeartbeatInit /\ TerminalInit /\ PresenceInit
    /\ UpdateInit /\ (concern # "update" => wsEnabled)
    /\ FirewallInit /\ (concern # "firewall" => backend = "nft")
    /\ LiveInit /\ (concern # "page" => view = "list" /\ row = "settled")

At(c, action) == concern = c /\ action

DeliveryNext ==
    /\ UNCHANGED concern
    /\ IF Beating THEN HeartbeatNext ELSE UNCHANGED heartbeatVars
    /\ concern = "secrets" => NoReboots
    /\ concern = "reboots" => NoSecrets
    /\ IF concern = "terminal" THEN TerminalNext ELSE UNCHANGED terminalVars
    /\ IF concern = "update" THEN UpdateNext ELSE UNCHANGED updateVars
    /\ IF concern = "presence" THEN PresenceNext ELSE UNCHANGED presenceVars
    /\ IF concern = "firewall" THEN FirewallNext ELSE UNCHANGED firewallVars
    /\ IF concern = "page" THEN LiveNext ELSE UNCHANGED liveVars

(* The fairness of the modules, each where it is at work.             *)
DeliveryFairness ==
    /\ WF_heartbeatVars(Beating /\ ReportRoot)
    /\ WF_heartbeatVars(Beating /\ StartAgent)
    /\ \A b \in BeatSlots :
          /\ WF_heartbeatVars(Beating /\ BeatRead(b))
          /\ WF_heartbeatVars(Beating /\ BeatCommit(b, TRUE))
    /\ SF_heartbeatVars(Beating /\ ApplyAnswer(TRUE))
    /\ SF_heartbeatVars(Beating /\ AckServed)
    /\ WF_heartbeatVars(Beating /\ \E ok \in BOOLEAN : AckReturns(ok))
    /\ WF_heartbeatVars(Beating /\ MachineReboots)
    /\ \A u \in Updates : WF_updateVars(At("update", UpdateStep(u)))
    /\ WF_updateVars(At("update", CheckPasses \/ CheckFails))
    /\ WF_updateVars(At("update", RollbackStep))
    /\ WF_presenceVars(At("presence", Tick))
    /\ WF_presenceVars(At("presence", CronScan))
    /\ WF_presenceVars(At("presence", CronNotice))
    /\ WF_firewallVars(At("firewall", ReconcileNft(TRUE, TRUE)))
    /\ WF_firewallVars(At("firewall", ReconcileFirewalld(TRUE, TRUE)))
    /\ SF_liveVars(At("page", HostBeats))
    /\ WF_liveVars(At("page", StreamConnects))
    /\ \A a \in Asks : /\ WF_liveVars(At("page", Serve(a)))
                       /\ WF_liveVars(At("page", Apply(a)))

DeliverySpec ==
    DeliveryInit /\ [][DeliveryNext]_deliveryVars /\ DeliveryFairness

DeliveryTypeOK ==
    /\ HeartbeatTypeOK /\ TerminalTypeOK /\ UpdateTypeOK /\ PresenceTypeOK
    /\ FirewallTypeOK /\ LiveTypeOK
=============================================================================
