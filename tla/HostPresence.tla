---------------------------- MODULE HostPresence ----------------------------
(***************************************************************************)
(* Whether an enrolled host is there, and what its owner is told: the age  *)
(* of last_seen_at, the cron job that looks for stale hosts, and the       *)
(* host_offline and host_online notices with their cooldown.               *)
(*                                                                         *)
(* Time passes in ticks.  The cron job reads the hosts in one query and    *)
(* handles them later, when a heartbeat may have come.                     *)
(***************************************************************************)
EXTENDS Naturals

CONSTANTS
    MaxAge,         \* HOST_HEARTBEAT_MAX_AGE_MS, in ticks
    Cooldown        \* alert_cooldown_sec, in ticks

ASSUME PresenceAssumption == MaxAge \in Nat \ {0} /\ Cooldown \in Nat

VARIABLES
    beating,        \* the agent sends heartbeats
    age,            \* now - last_seen_at, MaxAge and more as MaxAge
    quietFor,       \* event -> ticks until its cooldown is over
    noticed,        \* host_offline notices since last_seen_at, 2 and more as 2
    lastNotice,     \* the newest notice
    cron            \* a host the job has read as stale, and whether there
                    \* is a notice since the heartbeat it read

presenceVars == <<beating, age, quietFor, noticed, lastNotice, cron>>

Events == {"host_offline", "host_online"}
NotStale == [stale |-> FALSE, already |-> FALSE]

PresenceTypeOK ==
    /\ beating \in BOOLEAN /\ age \in 0..MaxAge
    /\ quietFor \in [Events -> 0..Cooldown]
    /\ noticed \in 0..2 /\ lastNotice \in {"none"} \cup Events
    /\ cron \in [stale : BOOLEAN, already : BOOLEAN]

PresenceInit ==
    /\ beating = TRUE /\ age = 0 /\ quietFor = [e \in Events |-> 0]
    /\ noticed = 0 /\ lastNotice = "none" /\ cron = NotStale

-----------------------------------------------------------------------------
Fresh == age < MaxAge

(* recordUserNotification: nothing within the cooldown of its kind, else a *)
(* row, an event for the dashboard, and mail or webhook.                   *)
Recorded(event) == quietFor[event] = 0

Record(event) ==
    IF Recorded(event)
    THEN /\ quietFor' = [quietFor EXCEPT ![event] = Cooldown]
         /\ lastNotice' = event
    ELSE UNCHANGED <<quietFor, lastNotice>>

(* The end of processAgentHeartbeat, with last_seen_at set.                *)
Beat ==
    /\ beating /\ age' = 0 /\ noticed' = 0
    /\ IF Fresh THEN UNCHANGED <<quietFor, lastNotice>>
       ELSE Record("host_online")
    /\ cron' = IF cron.stale
               THEN [cron EXCEPT !.already = @ \/ noticed > 0] ELSE cron
    /\ UNCHANGED beating

(* The agent stops and starts.                                             *)
Switch ==
    /\ beating' = ~beating
    /\ UNCHANGED <<age, quietFor, noticed, lastNotice, cron>>

Tick ==
    /\ age' = IF Fresh THEN age + 1 ELSE age
    /\ quietFor' = [e \in Events |-> IF quietFor[e] = 0 THEN 0
                                     ELSE quietFor[e] - 1]
    /\ (quietFor # quietFor' \/ Fresh)
    /\ UNCHANGED <<beating, noticed, lastNotice, cron>>

-----------------------------------------------------------------------------
(***************************************************************************)
(* GET /api/cron/host-offline-notifications, one at a time.                *)
(***************************************************************************)

(* The hosts with an old heartbeat.                                        *)
CronScan ==
    /\ cron = NotStale /\ ~Fresh /\ cron' = [NotStale EXCEPT !.stale = TRUE]
    /\ UNCHANGED <<beating, age, quietFor, noticed, lastNotice>>

(* Mutant: only the cooldown keeps the notices apart.                      *)
CronNoticeAgain ==
    /\ cron.stale /\ cron' = NotStale
    /\ Record("host_offline")
    /\ noticed' = IF Recorded("host_offline") /\ noticed < 2
                  THEN noticed + 1 ELSE noticed
    /\ UNCHANGED <<beating, age>>

(* Mutant: the notice of an earlier outage counts as well.                 *)
CronNoticeUnlessTold ==
    /\ cron.stale /\ cron' = NotStale
    /\ IF lastNotice = "host_offline"
       THEN UNCHANGED <<quietFor, noticed, lastNotice>>
       ELSE /\ Record("host_offline")
            /\ noticed' = IF Recorded("host_offline") /\ noticed < 2
                          THEN noticed + 1 ELSE noticed
    /\ UNCHANGED <<beating, age>>

(* No notice since the heartbeat of the scan: tell the owner, although the *)
(* host may be back.                                                       *)
CronNotice ==
    /\ cron.stale /\ cron' = NotStale
    /\ IF cron.already \/ noticed > 0
       THEN UNCHANGED <<quietFor, noticed, lastNotice>>
       ELSE /\ Record("host_offline")
            /\ noticed' = IF Recorded("host_offline") THEN noticed + 1
                          ELSE noticed
    /\ UNCHANGED <<beating, age>>

PresenceNext == Beat \/ Switch \/ Tick \/ CronScan \/ CronNotice

(* Time passes and the job is called again and again.                      *)
PresenceFairness ==
    /\ WF_presenceVars(Tick) /\ WF_presenceVars(CronScan)
    /\ WF_presenceVars(CronNotice)

PresenceSpec == PresenceInit /\ [][PresenceNext]_presenceVars /\ PresenceFairness

-----------------------------------------------------------------------------
(***************************************************************************)
(* Properties.                                                             *)
(***************************************************************************)

(* "Skips hosts that already have a host_offline notification for this     *)
(* downtime episode": one notice at most between two heartbeats, also when *)
(* the job works on a heartbeat that is no longer the last.                *)
OneNoticePerOutage == noticed <= 1

(* A host that stays away is reported, although the cooldown of an earlier *)
(* outage may swallow the first attempts.                                  *)
OutageIsNoticed == ~beating ~> (beating \/ noticed > 0)
=============================================================================
