----------------------------- MODULE MCServices -----------------------------
(***************************************************************************)
(* Safety of the services beside the life of a server, for TLC.  The       *)
(* services share no variable, so a behaviour works one of them, chosen at *)
(* the start, and leaves the others in their first state.                  *)
(***************************************************************************)
EXTENDS BackupRuns, BackupSchedule, BackupPanel, HostEnrollment,
        AddHostWizard, PortAllocation, PortMappings, SteamSetup, InstallLog,
        HostReports, Accounts, Billing

VARIABLE service        \* the one that is at work

servicesVars ==
    <<service, backupVars, scheduleVars, panelVars, enrollVars, wizardVars,
      portVars, mappingVars, steamVars, logVars, reportVars, accountVars,
      billingVars>>

Services == {"backups", "polls", "schedule", "panel", "enrollment", "wizard",
             "ports", "mappings", "steam", "log", "reports", "accounts", "billing"}

(* The user has one destination, of kind sftp, and may add another; the    *)
(* panel has none, the one or both.                                        *)
BackupsFirst ==
    destination = [d \in Dests |-> IF d \in Remote \ S3 THEN "on" ELSE "none"]
PanelFirst ==
    LET d == CHOOSE e \in PanelDests : TRUE
    IN destRow[d] = "on" \/ destRow = [e \in PanelDests |-> "none"]

(* Two bounds on the backups: every kind of job and every edit, in one slot *)
(* of the schedule and with one poll at a time ("backups"), or one policy,  *)
(* which nobody edits, and its scheduled backups over the slots with polls  *)
(* that overlap ("polls").                                                  *)
OnePoll ==
    /\ slot' = 0
    /\ \A q, r \in Pollers : q # r => NoPoll \in {poll'[q], poll'[r]}
ScheduledOnly ==
    /\ edits' = 0
    /\ \A i \in DOMAIN chain' : chain'[i].do = "backup" /\ chain'[i].scheduled

(* Of several first states a service that rests has one.                   *)
RestsAtFirst ==
    /\ service # "schedule" => schedule.mode = "hourly"
    /\ service # "panel" => \A e \in PanelDests : destRow[e] = "none"
    /\ service # "steam" => loader /\ creds
    /\ service # "log" => overWs

ServicesInit ==
    /\ service \in Services
    /\ BackupInit /\ BackupsFirst /\ PanelInit /\ PanelFirst
    /\ ScheduleInit /\ EnrollInit /\ WizardInit /\ PortInit
    /\ MappingsInit /\ SteamInit /\ InstallLogInit /\ HostReportsInit
    /\ AccountsInit /\ BillingInit
    /\ RestsAtFirst

ServicesNext ==
    /\ UNCHANGED service
    /\ IF service \in {"backups", "polls"}
       THEN BackupNext /\ (IF service = "polls" THEN ScheduledOnly ELSE OnePoll)
       ELSE UNCHANGED backupVars
    /\ IF service = "schedule" THEN Minute ELSE UNCHANGED scheduleVars
    /\ IF service = "panel" THEN PanelNext ELSE UNCHANGED panelVars
    /\ IF service = "enrollment" THEN EnrollNext ELSE UNCHANGED enrollVars
    /\ IF service = "wizard" THEN WizardNext ELSE UNCHANGED wizardVars
    /\ IF service = "ports" THEN PortNext ELSE UNCHANGED portVars
    /\ IF service = "mappings" THEN MappingsNext ELSE UNCHANGED mappingVars
    /\ IF service = "steam" THEN SteamNext ELSE UNCHANGED steamVars
    /\ IF service = "log" THEN InstallLogNext ELSE UNCHANGED logVars
    /\ IF service = "reports" THEN HostReportsNext ELSE UNCHANGED reportVars
    /\ IF service = "accounts" THEN AccountsNext ELSE UNCHANGED accountVars
    /\ IF service = "billing" THEN BillingNext ELSE UNCHANGED billingVars

ServicesSpec == ServicesInit /\ [][ServicesNext]_servicesVars

ServicesTypeOK ==
    /\ BackupTypeOK /\ PanelTypeOK /\ EnrollTypeOK /\ WizardTypeOK
    /\ PortTypeOK /\ MappingsTypeOK /\ SteamTypeOK /\ InstallLogTypeOK
    /\ HostReportsTypeOK /\ AccountsTypeOK /\ BillingTypeOK
=============================================================================
