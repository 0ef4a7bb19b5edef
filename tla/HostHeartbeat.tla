---------------------------- MODULE HostHeartbeat ----------------------------
(***************************************************************************)
(* What a heartbeat carries back to an enrolled host: Steam credentials, a *)
(* root password and a reboot request, each queued by the dashboard in the *)
(* host's row and taken from it by processAgentHeartbeat.                  *)
(*                                                                         *)
(* Heartbeats over the WebSocket are served concurrently, each in two      *)
(* steps: one SELECT outside the transaction, then a transaction that      *)
(* locks the host's row before it reads the secrets.  The agent handles an *)
(* answer without waiting for the reboot of an earlier one.                *)
(***************************************************************************)
EXTENDS Naturals, Sequences

CONSTANTS
    BeatSlots,      \* heartbeats that are served concurrently
    MaxSteam,       \* bound: credentials the user ever sets
    MaxRoot,        \* bound: root passwords, with the installer's
    MaxAnswers,     \* bound: heartbeats between the server and the agent
    MaxAgentRestarts \* bound: restarts and lost connections of the agent

ASSUME HeartbeatAssumption ==
    MaxSteam \in Nat /\ MaxRoot \in Nat \ {0} /\ MaxAnswers \in Nat \ {0}
    /\ MaxAgentRestarts \in Nat

VARIABLES
    steamPending,   \* hosts.steam_secrets_pending, 0 when null
    rootPending,    \* hosts.linux_root_password_pending_enc
    rootStored,     \* hosts.linux_root_password_enc
    rebootFlag,     \* hosts.reboot_requested_at is set
    beat,           \* slot -> heartbeat in service
    answers,        \* answers on their way to the agent
    steamEnv,       \* credentials in steamline-agent.env
    rootOnHost,     \* the password root has on the machine
    agentUp,        \* the agent runs (after install-agent.sh has reported)
    agentRestarts,  \* ... and how often it was restarted or cut off
    acking,         \* acknowledgements of a reboot posted and not yet served
    acked,          \* ... served, their answers on the way to the agent
    lateAcks,       \* ... posted by an agent that has ended since
    shutdown,       \* the machine will reboot
    secretsSet,     \* <<Steam, root>> secrets set so far
    steamSent,      \* history: credentials that an answer carried
    rebootAsked,    \* history: a reboot was requested and has not happened
    rebootLost,     \* history: its acknowledgement was, and starts no shutdown
    mishap          \* history: an answer, a decryption or a command failed

heartbeatVars == <<steamPending, rootPending, rootStored, rebootFlag, beat,
                   answers, steamEnv, rootOnHost, agentUp, agentRestarts,
                   acking, acked, lateAcks, shutdown,
                   secretsSet, steamSent, rebootAsked, rebootLost, mishap>>
hostColumns == <<steamPending, rootPending, rootStored, rebootFlag>>
rebootState == <<acking, acked, lateAcks, shutdown>>
machineState == <<steamEnv, rootOnHost, agentUp, agentRestarts, rebootState>>
heartbeatHistory == <<secretsSet, steamSent, rebootAsked, rebootLost>>

Steams == 0..MaxSteam
Roots == 0..MaxRoot
NoBeat == [at |-> "idle", reboot |-> FALSE]
Answers == [reboot : BOOLEAN, steam : Steams, root : Roots]
MaxAcking == 2

HeartbeatTypeOK ==
    /\ steamPending \in Steams /\ rootPending \in Roots
    /\ rootStored \in Roots /\ rebootFlag \in BOOLEAN
    /\ beat \in [BeatSlots -> [at : {"idle", "read", "orphan"},
                               reboot : BOOLEAN]]
    /\ answers \in Seq(Answers)
    /\ steamEnv \in Steams /\ rootOnHost \in Roots
    /\ agentUp \in BOOLEAN /\ agentRestarts \in 0..MaxAgentRestarts
    /\ {acking, acked, lateAcks} \subseteq 0..MaxAcking /\ shutdown \in BOOLEAN
    /\ secretsSet \in Steams \X Roots
    /\ steamSent \subseteq Steams
    /\ {rebootAsked, rebootLost, mishap} \subseteq BOOLEAN

(* install-agent.sh has enrolled the host, and given root its password 1.  *)
HeartbeatInit ==
    /\ steamPending = 0 /\ rootPending = 0 /\ rootStored = 0
    /\ rebootFlag = FALSE /\ beat = [b \in BeatSlots |-> NoBeat]
    /\ answers = <<>> /\ steamEnv = 0 /\ rootOnHost = 1 /\ agentUp = FALSE
    /\ agentRestarts = 0 /\ acking = 0 /\ acked = 0 /\ lateAcks = 0
    /\ shutdown = FALSE /\ secretsSet = <<0, 1>> /\ steamSent = {}
    /\ rebootAsked = FALSE /\ rebootLost = FALSE /\ mishap = FALSE

-----------------------------------------------------------------------------
(***************************************************************************)
(* The dashboard.                                                          *)
(***************************************************************************)

(* POST /api/hosts/:id/steam-credentials.                                  *)
SetSteam ==
    /\ secretsSet[1] < MaxSteam
    /\ secretsSet' = [secretsSet EXCEPT ![1] = @ + 1]
    /\ steamPending' = secretsSet[1] + 1
    /\ UNCHANGED <<rootPending, rootStored, rebootFlag, beat, answers,
                   machineState, steamSent, rebootAsked, rebootLost, mishap>>

(* POST .../linux-root-password, rotate or set.                            *)
SetRoot ==
    /\ secretsSet[2] < MaxRoot
    /\ secretsSet' = [secretsSet EXCEPT ![2] = @ + 1]
    /\ rootPending' = secretsSet[2] + 1
    /\ UNCHANGED <<steamPending, rootStored, rebootFlag, beat, answers,
                   machineState, steamSent, rebootAsked, rebootLost, mishap>>

(* ... and reveal: what the user is shown.                                 *)
Revealed == IF rootPending # 0 THEN rootPending ELSE rootStored

(* POST .../request-reboot.                                                *)
RequestReboot ==
    /\ rebootFlag' = TRUE /\ rebootAsked' = TRUE /\ rebootLost' = FALSE
    /\ UNCHANGED <<steamPending, rootPending, rootStored, beat, answers,
                   machineState, secretsSet, steamSent, mishap>>

(* The installer's report of the password it chose, before the agent first *)
(* starts: a password the user queued before it is dropped.                *)
ReportRoot ==
    /\ ~agentUp /\ rootStored = 0
    /\ rootStored' = rootOnHost /\ rootPending' = 0
    /\ UNCHANGED <<steamPending, rebootFlag, beat, answers, machineState,
                   heartbeatHistory, mishap>>

-----------------------------------------------------------------------------
(***************************************************************************)
(* processAgentHeartbeat.                                                  *)
(***************************************************************************)
StartAgent ==
    /\ ~agentUp /\ rootStored # 0 /\ agentUp' = TRUE
    /\ UNCHANGED <<hostColumns, beat, answers, steamEnv, rootOnHost,
                   agentRestarts, rebootState, heartbeatHistory, mishap>>

BeatRead(b) ==
    /\ agentUp /\ beat[b] = NoBeat /\ Len(answers) < MaxAnswers
    /\ beat' = [beat EXCEPT ![b] = [at |-> "read", reboot |-> rebootFlag]]
    /\ UNCHANGED <<hostColumns, answers, machineState, heartbeatHistory,
                   mishap>>

(* Mutant: the delivered root password is not stored.                      *)
BeatCommitUnstored(b, readable) ==
    /\ beat[b] # NoBeat
    /\ steamPending' = 0 /\ rootPending' = 0
    /\ answers' = IF beat[b].at = "read"
                  THEN Append(answers, [reboot |-> beat[b].reboot,
                                        steam |-> steamPending,
                                        root |-> rootPending])
                  ELSE answers
    /\ mishap' = (mishap \/ beat[b].at = "orphan")
    /\ beat' = [beat EXCEPT ![b] = NoBeat]
    /\ UNCHANGED <<rootStored, rebootFlag, machineState, heartbeatHistory>>

(* Mutant: a secret leaves the row only when its answer may have arrived.  *)
BeatCommitKeep(b, readable) ==
    /\ beat[b] # NoBeat
    /\ steamPending' = IF \E c \in BeatSlots \ {b} : beat[c] # NoBeat
                       THEN steamPending ELSE 0
    /\ answers' = Append(answers, [reboot |-> beat[b].reboot,
                                   steam |-> steamPending, root |-> 0])
    /\ steamSent' = steamSent \cup ({steamPending} \ {0})
    /\ beat' = [beat EXCEPT ![b] = NoBeat]
    /\ UNCHANGED <<rootPending, rootStored, rebootFlag, machineState,
                   secretsSet, rebootAsked, rebootLost, mishap>>

(* Mutant: a reboot request leaves the row with the answer that carries it. *)
BeatCommitClears(b, readable) ==
    /\ beat[b] # NoBeat
    /\ rebootFlag' = (rebootFlag /\ ~beat[b].reboot)
    /\ answers' = IF beat[b].at = "read"
                  THEN Append(answers, [reboot |-> beat[b].reboot, steam |-> 0,
                                        root |-> 0])
                  ELSE answers
    /\ beat' = [beat EXCEPT ![b] = NoBeat]
    /\ UNCHANGED <<steamPending, rootPending, rootStored, machineState,
                   heartbeatHistory, mishap>>

(* The transaction: both secrets leave the row, whether or not the Steam   *)
(* ones can be decrypted; a root password that cannot stays queued.        *)
BeatCommit(b, readable) ==
    /\ beat[b] # NoBeat
    /\ steamPending' = 0
    /\ rootPending' = IF readable THEN 0 ELSE rootPending
    /\ rootStored' = IF readable /\ rootPending # 0 THEN rootPending
                     ELSE rootStored
    /\ LET a == [reboot |-> beat[b].reboot,
                 steam |-> IF readable THEN steamPending ELSE 0,
                 root |-> IF readable THEN rootPending ELSE 0]
       IN /\ answers' = IF beat[b].at = "read" THEN Append(answers, a)
                        ELSE answers
          /\ steamSent' = steamSent \cup ({a.steam} \ {0})
          /\ mishap' = (mishap \/ ~readable
                          \/ (beat[b].at = "orphan" /\ a.steam + a.root > 0))
    /\ beat' = [beat EXCEPT ![b] = NoBeat]
    /\ UNCHANGED <<rebootFlag, machineState, secretsSet, rebootAsked, rebootLost>>

-----------------------------------------------------------------------------
(***************************************************************************)
(* The agent: applyHeartbeatSideEffects.                                   *)
(***************************************************************************)

(* The secrets are written at once (or fail with a line in the log); for a *)
(* reboot the acknowledgement is posted and awaited.                       *)
ApplyAnswer(ok) ==
    /\ agentUp /\ answers # <<>>
    /\ LET a == Head(answers) IN
       /\ a.reboot => acking + acked < MaxAcking
       /\ acking' = IF a.reboot THEN acking + 1 ELSE acking
       /\ steamEnv' = IF ok /\ a.steam # 0 THEN a.steam ELSE steamEnv
       /\ rootOnHost' = IF ok /\ a.root # 0 THEN a.root ELSE rootOnHost
       /\ mishap' = (mishap \/ (~ok /\ a.steam + a.root > 0))
    /\ answers' = Tail(answers)
    /\ UNCHANGED <<hostColumns, beat, agentUp, agentRestarts, acked, lateAcks,
                   shutdown, heartbeatHistory>>

(* POST reboot-ack clears the flag, a newer request's too ...              *)
AckServed ==
    /\ acking > 0 /\ acking' = acking - 1 /\ acked' = acked + 1
    /\ rebootFlag' = FALSE
    /\ UNCHANGED <<steamPending, rootPending, rootStored, beat, answers,
                   steamEnv, rootOnHost, agentUp, agentRestarts, lateAcks,
                   shutdown, heartbeatHistory, mishap>>

(* ... or fails: the next heartbeat asks again.                            *)
AckFails ==
    /\ acking > 0 /\ acking' = acking - 1
    /\ UNCHANGED <<hostColumns, beat, answers, steamEnv, rootOnHost, agentUp,
                   agentRestarts, acked, lateAcks, shutdown, heartbeatHistory,
                   mishap>>

(* Its answer comes and the agent starts shutdown; or the answer is lost   *)
(* or shutdown fails, and nobody asks this host to reboot any more.        *)
AckReturns(ok) ==
    /\ acked > 0 /\ acked' = acked - 1
    /\ shutdown' = (shutdown \/ ok)
    /\ rebootLost' = (rebootLost \/ ~ok)
    /\ UNCHANGED <<hostColumns, beat, answers, steamEnv, rootOnHost, agentUp,
                   agentRestarts, acking, lateAcks, secretsSet, steamSent,
                   rebootAsked, mishap>>

(* An acknowledgement is served whose agent does not wait for it any more. *)
LateAckServed ==
    /\ lateAcks > 0 /\ lateAcks' = lateAcks - 1
    /\ rebootFlag' = FALSE /\ rebootLost' = (rebootLost \/ rebootFlag)
    /\ UNCHANGED <<steamPending, rootPending, rootStored, beat, answers,
                   steamEnv, rootOnHost, agentUp, agentRestarts, acking, acked,
                   shutdown, secretsSet, steamSent, rebootAsked, mishap>>

(* Answers on their way to a machine that reboots, or to an agent that     *)
(* dies or loses its connection, are lost with what they carry.            *)
LoseAnswers ==
    /\ answers' = <<>> /\ acking' = 0 /\ acked' = 0
    /\ lateAcks' \in {n \in 0..MaxAcking : lateAcks <= n /\ n <= lateAcks + acking}
    /\ beat' = [b \in BeatSlots |-> IF beat[b] = NoBeat THEN NoBeat
                                    ELSE [beat[b] EXCEPT !.at = "orphan"]]
    /\ mishap' = (mishap \/ \E k \in DOMAIN answers :
                               answers[k].steam + answers[k].root > 0)

MachineReboots ==
    /\ shutdown /\ shutdown' = FALSE /\ rebootAsked' = FALSE
    /\ LoseAnswers
    /\ UNCHANGED <<hostColumns, steamEnv, rootOnHost, agentUp, agentRestarts,
                   secretsSet, steamSent, rebootLost>>

AgentRestarts ==
    /\ agentUp /\ agentRestarts < MaxAgentRestarts
    /\ agentRestarts' = agentRestarts + 1
    /\ LoseAnswers
    /\ rebootLost' = (rebootLost \/ acked > 0)
    /\ UNCHANGED <<hostColumns, steamEnv, rootOnHost, agentUp, shutdown,
                   secretsSet, steamSent, rebootAsked>>

HeartbeatNext ==
    \/ SetSteam \/ SetRoot \/ RequestReboot \/ ReportRoot \/ StartAgent
    \/ \E b \in BeatSlots : BeatRead(b)
                            \/ \E ok \in BOOLEAN : BeatCommit(b, ok)
    \/ \E ok \in BOOLEAN : ApplyAnswer(ok) \/ AckReturns(ok)
    \/ AckServed \/ AckFails \/ LateAckServed
    \/ MachineReboots \/ AgentRestarts

(* The agent beats on a timer, the server answers, the agent handles what  *)
(* it gets, an acknowledgement that is tried again and again is served,    *)
(* its request ends, and a machine told to shut down does.                 *)
HeartbeatFairness ==
    /\ WF_heartbeatVars(ReportRoot) /\ WF_heartbeatVars(StartAgent)
    /\ \A b \in BeatSlots : /\ WF_heartbeatVars(BeatRead(b))
                            /\ WF_heartbeatVars(BeatCommit(b, TRUE))
    /\ SF_heartbeatVars(ApplyAnswer(TRUE))
    /\ SF_heartbeatVars(AckServed)
    /\ WF_heartbeatVars(\E ok \in BOOLEAN : AckReturns(ok))
    /\ WF_heartbeatVars(MachineReboots)

HeartbeatSpec ==
    HeartbeatInit /\ [][HeartbeatNext]_heartbeatVars /\ HeartbeatFairness

-----------------------------------------------------------------------------
(***************************************************************************)
(* Properties.                                                             *)
(***************************************************************************)

(* "delivered once on the next authenticated agent heartbeat, then         *)
(* cleared": however heartbeats overlap, credentials are in one answer.    *)
SteamOnce ==
    [][\A b \in BeatSlots :
          beat[b] # NoBeat /\ beat'[b] = NoBeat /\ answers' # answers
             => answers'[Len(answers')].steam \notin steamSent
       ]_heartbeatVars

(* The answers that carry a root password, and whether r is the one root   *)
(* will have when all of them are applied.                                 *)
Carrying == {k \in DOMAIN answers : answers[k].root # 0}
WillHave(r) ==
    \/ Carrying = {} /\ r = rootOnHost
    \/ \E k \in Carrying : r = answers[k].root /\ \A j \in Carrying : j <= k

(* The password the dashboard reveals is queued, on its way, or the one    *)
(* root has - unless an answer was lost or a command failed.               *)
RevealTellsTruth ==
    mishap \/ rootPending # 0 \/ rootStored = 0 \/ WillHave(Revealed)

(* A reboot that was asked for comes, whatever heartbeats, answers, failed *)
(* acknowledgements, further requests and restarts of the agent do - but   *)
(* where the server has cleared the request and the agent did not hear of  *)
(* it, or could not start shutdown: then it comes with the next request.   *)
RebootHappens == rebootAsked ~> (~rebootAsked \/ rebootLost)
=============================================================================
