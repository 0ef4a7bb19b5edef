-------------------------- MODULE Delivery_proofs --------------------------
(***************************************************************************)
(* For any number of heartbeats in service, restarts of the agent and      *)
(* secrets set: Steam credentials are delivered once, and the dashboard    *)
(* reveals the root password that root has or will have.  For any age and  *)
(* cooldown: an outage is noticed once.  For any number of versions,       *)
(* updates and deaths of the agent: what a rollback restores.  For any     *)
(* number of tabs and shells: a shell follows its tab.  And what           *)
(* MCDelivery checks keeps its types.                                      *)
(***************************************************************************)
EXTENDS MCDelivery, FiniteSetTheorems, TLAPS

(* The credentials in the row are the newest that were set, and have been  *)
(* in no answer: the transaction that takes them clears them.              *)
SteamInv ==
    /\ beat \in [BeatSlots -> [at : {"idle", "read", "orphan"},
                               reboot : BOOLEAN]]
    /\ answers \in Seq(Answers)
    /\ rootPending \in Roots /\ rebootFlag \in BOOLEAN
    /\ steamPending \in Steams /\ steamPending \notin steamSent
    /\ secretsSet \in Steams \X Roots
    /\ steamPending <= secretsSet[1]
    /\ \A c \in steamSent : c \in Nat /\ 0 < c /\ c <= secretsSet[1]

(* What SteamOnce asks of a step.                                          *)
SteamStep ==
    \A b \in BeatSlots :
        beat[b] # NoBeat /\ beat'[b] = NoBeat /\ answers' # answers
           => answers'[Len(answers')].steam \notin steamSent

LEMMA SteamBegins == HeartbeatInit => SteamInv
  <1> SUFFICES ASSUME HeartbeatInit PROVE SteamInv
    OBVIOUS
  <1>1. secretsSet \in Steams \X Roots /\ rootPending \in Roots
    BY HeartbeatAssumption DEF HeartbeatInit, Steams, Roots
  <1>2. steamPending \in Steams /\ steamPending <= secretsSet[1]
    BY HeartbeatAssumption DEF HeartbeatInit, Steams
  <1>3. beat \in [BeatSlots -> [at : {"idle", "read", "orphan"},
                                reboot : BOOLEAN]]
    BY DEF HeartbeatInit, NoBeat
  <1>4. answers \in Seq(Answers)
    BY DEF HeartbeatInit
  <1> QED BY <1>1, <1>2, <1>3, <1>4 DEF HeartbeatInit, SteamInv

(* The transaction of a heartbeat.                                         *)
LEMMA CommitDeliversOnce ==
    ASSUME SteamInv, NEW b \in BeatSlots, NEW readable \in BOOLEAN,
           BeatCommit(b, readable)
    PROVE  SteamInv' /\ SteamStep
  <1> DEFINE a == [reboot |-> beat[b].reboot,
                   steam |-> IF readable THEN steamPending ELSE 0,
                   root |-> IF readable THEN rootPending ELSE 0]
  <1>1. a \in Answers
    BY HeartbeatAssumption DEF SteamInv, Answers, Steams, Roots
  <1>2. a.steam = 0 \/ a.steam = steamPending
    OBVIOUS
  <1>3. /\ answers' = answers \/ answers' = Append(answers, a)
        /\ steamSent' = steamSent \cup ({a.steam} \ {0})
        /\ steamPending' = 0
        /\ rootPending' = IF readable THEN 0 ELSE rootPending
        /\ beat' = [beat EXCEPT ![b] = NoBeat]
        /\ secretsSet' = secretsSet /\ rebootFlag' = rebootFlag
    BY DEF BeatCommit
  <1> HIDE DEF a
  <1>4. answers' \in Seq(Answers)
    BY <1>1, <1>3 DEF SteamInv
  <1>5. \A c \in steamSent' : c \in Nat /\ 0 < c /\ c <= secretsSet'[1]
    BY <1>2, <1>3, HeartbeatAssumption DEF SteamInv, Steams, Roots
  <1>6. SteamInv'
    BY <1>3, <1>4, <1>5, HeartbeatAssumption DEF SteamInv, Steams, Roots, NoBeat
  <1>7. answers' # answers => answers'[Len(answers')] = a
    BY <1>1, <1>3 DEF SteamInv
  <1>8. a.steam \notin steamSent
    BY <1>2 DEF SteamInv
  <1> QED BY <1>6, <1>7, <1>8 DEF SteamStep

(* An agent that goes leaves its heartbeats in service, without a reader.  *)
LEMMA LossKeepsSteam ==
    ASSUME SteamInv, LoseAnswers,
           UNCHANGED <<hostColumns, secretsSet, steamSent>>
    PROVE  SteamInv' /\ SteamStep
  <1>1. \A b \in BeatSlots : beat[b] # NoBeat => beat'[b] # NoBeat
    BY DEF SteamInv, LoseAnswers, NoBeat
  <1>2. beat' \in [BeatSlots -> [at : {"idle", "read", "orphan"},
                                 reboot : BOOLEAN]]
    BY DEF SteamInv, LoseAnswers, NoBeat
  <1> QED BY <1>1, <1>2 DEF SteamInv, LoseAnswers, SteamStep, hostColumns

LEMMA SteamContinues ==
    SteamInv /\ [HeartbeatNext]_heartbeatVars => SteamInv' /\ SteamStep
  <1> SUFFICES ASSUME SteamInv, [HeartbeatNext]_heartbeatVars
               PROVE  SteamInv' /\ SteamStep
    OBVIOUS
  <1>1. ASSUME UNCHANGED <<beat, answers, secretsSet, steamSent>>,
               UNCHANGED <<steamPending, rootPending>>,
               rebootFlag' \in BOOLEAN
        PROVE  SteamInv' /\ SteamStep
    BY <1>1 DEF SteamInv, SteamStep
  <1>2. CASE UNCHANGED heartbeatVars
    BY <1>1, <1>2 DEF heartbeatVars, SteamInv
  <1>3. CASE SetSteam
    BY <1>3, HeartbeatAssumption DEF SetSteam, SteamInv, SteamStep, Steams, Roots
  <1>4. CASE SetRoot
    BY <1>4, HeartbeatAssumption DEF SetRoot, SteamInv, SteamStep, Steams, Roots
  <1>5. CASE RequestReboot \/ StartAgent \/ AckFails \/ AckServed \/ LateAckServed
    BY <1>1, <1>5 DEF RequestReboot, StartAgent, AckFails, AckServed,
                      LateAckServed, hostColumns, heartbeatHistory, SteamInv
  <1>6. CASE ReportRoot
    BY <1>6, HeartbeatAssumption
    DEF ReportRoot, SteamInv, SteamStep, heartbeatHistory, Roots
  <1>7. ASSUME NEW b \in BeatSlots, BeatRead(b) PROVE SteamInv' /\ SteamStep
    BY <1>7 DEF BeatRead, SteamInv, SteamStep, hostColumns, heartbeatHistory
  <1>8. ASSUME NEW b \in BeatSlots, NEW ok \in BOOLEAN, BeatCommit(b, ok)
        PROVE  SteamInv' /\ SteamStep
    BY <1>8, CommitDeliversOnce
  <1>9. ASSUME NEW ok \in BOOLEAN, ApplyAnswer(ok) PROVE SteamInv' /\ SteamStep
    BY <1>9 DEF ApplyAnswer, SteamInv, SteamStep, hostColumns, heartbeatHistory
  <1>10. ASSUME NEW ok \in BOOLEAN, AckReturns(ok) PROVE SteamInv' /\ SteamStep
    BY <1>1, <1>10 DEF AckReturns, hostColumns, SteamInv
  <1>11. CASE MachineReboots
    BY <1>11, LossKeepsSteam DEF MachineReboots
  <1>12. CASE AgentRestarts
    BY <1>12, LossKeepsSteam DEF AgentRestarts, heartbeatHistory
  <1> QED
    BY <1>2, <1>3, <1>4, <1>5, <1>6, <1>7, <1>8, <1>9, <1>10, <1>11, <1>12
    DEF HeartbeatNext

(* However many heartbeats are served at once, an answer never carries     *)
(* credentials that an earlier one carried.                                *)
THEOREM SteamIsDeliveredOnce == HeartbeatSpec => SteamOnce
  <1>1. SteamStep => \A b \in BeatSlots :
           beat[b] # NoBeat /\ beat'[b] = NoBeat /\ answers' # answers
              => answers'[Len(answers')].steam \notin steamSent
    BY DEF SteamStep
  <1> QED
    BY SteamBegins, SteamContinues, <1>1, PTL DEF HeartbeatSpec, SteamOnce

-----------------------------------------------------------------------------
(***************************************************************************)
(* The root password.                                                      *)
(***************************************************************************)

(* What makes RevealTellsTruth inductive.  The installer reports before    *)
(* the agent starts, so no answer is under way while nothing is stored;    *)
(* and what is stored is the last password that was sent, whether or not   *)
(* a newer one is queued.                                                  *)
RootInv ==
    /\ rootStored \in Roots /\ rootOnHost \in Roots
    /\ rootStored = 0 => ~agentUp
    /\ ~agentUp => answers = <<>> /\ \A b \in BeatSlots : beat[b] = NoBeat
    /\ \A b \in BeatSlots : beat[b].at = "idle" => beat[b] = NoBeat
    /\ mishap \/ rootStored = 0 \/ WillHave(rootStored)

LEMMA RootBegins == HeartbeatInit => RootInv
  BY HeartbeatAssumption DEF HeartbeatInit, RootInv, Roots

LEMMA CommitKeepsRoot ==
    ASSUME SteamInv, RootInv, NEW b \in BeatSlots, NEW readable \in BOOLEAN,
           BeatCommit(b, readable)
    PROVE  RootInv'
  <1> DEFINE a == [reboot |-> beat[b].reboot,
                   steam |-> IF readable THEN steamPending ELSE 0,
                   root |-> IF readable THEN rootPending ELSE 0]
  <1>1. /\ a \in Answers /\ a.steam \in Nat
        /\ a.root = IF readable THEN rootPending ELSE 0
    BY HeartbeatAssumption DEF SteamInv, Answers, Steams, Roots
  <1>2. /\ beat[b] # NoBeat
        /\ rootStored' = IF readable /\ rootPending # 0 THEN rootPending
                         ELSE rootStored
        /\ answers' = IF beat[b].at = "read" THEN Append(answers, a) ELSE answers
        /\ mishap' = (mishap \/ ~readable
                         \/ (beat[b].at = "orphan" /\ a.steam + a.root > 0))
        /\ beat' = [beat EXCEPT ![b] = NoBeat]
        /\ UNCHANGED <<rootOnHost, agentUp>>
    BY DEF BeatCommit, machineState
  <1> HIDE DEF a
  <1>3. agentUp /\ rootStored # 0 /\ rootStored \in Roots /\ rootOnHost \in Roots
    BY <1>2 DEF RootInv
  <1>4. rootPending \in Roots /\ answers \in Seq(Answers)
    BY DEF SteamInv
  <1>5. beat[b].at # "read" => beat[b].at = "orphan"
    BY <1>2 DEF SteamInv, RootInv
  <1>6. rootStored' \in Roots /\ rootStored' # 0
    BY <1>2, <1>3, <1>4
  <1>7. ASSUME ~mishap' PROVE WillHave(rootStored)'
    <2>1. readable /\ ~mishap /\ WillHave(rootStored)
      BY <1>2, <1>3, <1>7 DEF RootInv
    <2>2. CASE rootPending = 0
      <3>1. rootStored' = rootStored /\ a.root = 0
        BY <1>1, <1>2, <2>2
      <3>2. /\ DOMAIN answers \subseteq DOMAIN answers'
            /\ \A k \in DOMAIN answers : answers'[k] = answers[k]
            /\ \A k \in DOMAIN answers' \ DOMAIN answers : answers'[k] = a
        BY <1>1, <1>2, <1>4
      <3>3. Carrying' = Carrying BY <3>1, <3>2 DEF Carrying
      <3> QED BY <1>2, <2>1, <3>1, <3>2, <3>3 DEF WillHave, Carrying
    <2>3. CASE rootPending # 0
      <3>1. rootPending \in Nat BY <1>4, HeartbeatAssumption DEF Roots
      <3>2. a.root = rootPending /\ a.steam + a.root > 0
        BY <1>1, <2>1, <2>3, <3>1
      <3>3. answers' = Append(answers, a) /\ rootStored' = rootPending
        BY <1>2, <1>5, <1>7, <2>1, <2>3, <3>2
      <3>4. /\ Len(answers) + 1 \in DOMAIN answers'
            /\ answers'[Len(answers) + 1] = a
            /\ \A k \in DOMAIN answers' : k <= Len(answers) + 1
        BY <1>1, <1>4, <3>3
      <3> DEFINE last == Len(answers) + 1
      <3> HIDE DEF last
      <3>5. last \in Carrying' /\ \A j \in Carrying' : j <= last
        BY <2>3, <3>2, <3>4 DEF Carrying, last
      <3>6. rootStored' = answers'[last].root
        BY <3>2, <3>3, <3>4 DEF last
      <3> QED BY <3>5, <3>6 DEF WillHave
    <2> QED BY <2>2, <2>3
  <1>8. \A c \in BeatSlots : beat'[c] = NoBeat \/ beat'[c] = beat[c]
    BY <1>2 DEF SteamInv
  <1> QED BY <1>2, <1>3, <1>6, <1>7, <1>8 DEF RootInv

LEMMA ApplyKeepsRoot ==
    ASSUME SteamInv, RootInv, NEW ok \in BOOLEAN, ApplyAnswer(ok)
    PROVE  RootInv'
  <1> DEFINE a == Head(answers)
  <1>1. /\ agentUp /\ answers # <<>> /\ answers' = Tail(answers)
        /\ rootOnHost' = IF ok /\ a.root # 0 THEN a.root ELSE rootOnHost
        /\ mishap' = (mishap \/ (~ok /\ a.steam + a.root > 0))
        /\ UNCHANGED <<hostColumns, beat, agentUp>>
    BY DEF ApplyAnswer
  <1>2. /\ a = answers[1] /\ a \in Answers /\ 1 \in DOMAIN answers
        /\ \A k \in DOMAIN answers' :
              /\ k + 1 \in DOMAIN answers /\ answers'[k] = answers[k + 1]
              /\ k \in Nat
        /\ \A k \in DOMAIN answers :
              /\ k \in Nat /\ 1 <= k
              /\ k # 1 => k - 1 \in DOMAIN answers' /\ answers'[k - 1] = answers[k]
    BY <1>1 DEF SteamInv
  <1> HIDE DEF a
  <1>3. a.steam \in Nat /\ a.root \in Nat /\ a.root \in Roots
    BY <1>2, HeartbeatAssumption DEF Answers, Steams, Roots
  <1>4. rootStored' = rootStored /\ rootStored # 0 /\ rootOnHost' \in Roots
    BY <1>1, <1>3 DEF RootInv, hostColumns
  <1>5. ASSUME ~mishap' PROVE WillHave(rootStored)'
    <2>1. ~mishap /\ WillHave(rootStored) BY <1>1, <1>4, <1>5 DEF RootInv
    <2>2. rootOnHost' = IF a.root # 0 THEN a.root ELSE rootOnHost
      <3>1. a.root # 0 => a.steam + a.root > 0 BY <1>3
      <3> QED BY <1>1, <1>5, <3>1
    <2>3. \A k \in Carrying' : k + 1 \in Carrying
      BY <1>2 DEF Carrying
    <2>4. \A k \in Carrying : k # 1 => k - 1 \in Carrying'
      BY <1>2 DEF Carrying
    <2>5. CASE Carrying = {}
      <3>1. a.root = 0 BY <1>2, <2>5 DEF Carrying
      <3> QED BY <1>4, <2>1, <2>2, <2>3, <2>5, <3>1 DEF WillHave
    <2>6. CASE Carrying # {}
      <3>1. PICK k \in Carrying : /\ rootStored = answers[k].root
                                  /\ \A j \in Carrying : j <= k
        BY <2>1, <2>6 DEF WillHave
      <3>2. k \in DOMAIN answers /\ k \in Nat BY <1>2, <3>1 DEF Carrying
      <3>3. CASE k = 1
        <4>1. Carrying' = {}
          <5> SUFFICES ASSUME NEW j \in Carrying' PROVE FALSE
            OBVIOUS
          <5>1. j + 1 <= 1 /\ j \in DOMAIN answers'
            BY <2>3, <3>1, <3>3 DEF Carrying
          <5>2. j + 1 \in DOMAIN answers /\ j \in Nat BY <1>2, <5>1
          <5>3. j - 1 + 1 = j BY <5>2
          <5>4. j = 0 BY <5>1, <5>2
          <5> QED BY <1>1, <5>1, <5>4 DEF SteamInv
        <4>2. rootOnHost' = answers[1].root
          BY <1>2, <1>4, <2>2, <3>1, <3>3
        <4> QED BY <1>4, <3>1, <3>3, <4>1, <4>2 DEF WillHave
      <3>4. CASE k # 1
        <4>1. k - 1 \in Carrying' /\ answers'[k - 1] = answers[k]
          BY <1>2, <2>4, <3>1, <3>2, <3>4
        <4>2. \A j \in Carrying' : j <= k - 1
          <5> SUFFICES ASSUME NEW j \in Carrying' PROVE j <= k - 1
            OBVIOUS
          <5>1. j + 1 <= k BY <2>3, <3>1
          <5>2. j \in Nat BY <1>2 DEF Carrying
          <5> QED BY <3>2, <5>1, <5>2
        <4> DEFINE i == k - 1
        <4>3. i \in Carrying' /\ rootStored' = answers'[i].root
          BY <1>4, <3>1, <4>1
        <4> HIDE DEF i
        <4>4. \A j \in Carrying' : j <= i BY <4>2 DEF i
        <4> QED BY <4>3, <4>4 DEF WillHave
      <3> QED BY <3>3, <3>4
    <2> QED BY <2>5, <2>6
  <1> QED BY <1>1, <1>4, <1>5 DEF RootInv

LEMMA LossKeepsRoot ==
    ASSUME SteamInv, RootInv, LoseAnswers,
           UNCHANGED <<hostColumns, rootOnHost, agentUp>>
    PROVE  RootInv'
  <1>1. answers' = <<>> /\ Carrying' = {}
    BY DEF LoseAnswers, Carrying
  <1>2. \A b \in BeatSlots :
           /\ beat[b] = NoBeat => beat'[b] = NoBeat
           /\ beat[b] # NoBeat => beat'[b].at = "orphan"
    BY DEF LoseAnswers, SteamInv
  <1>3. ASSUME ~mishap', rootStored # 0 PROVE rootStored = rootOnHost
    <2>1. ~mishap /\ WillHave(rootStored)
      BY <1>3 DEF LoseAnswers, RootInv
    <2>2. ASSUME NEW k \in DOMAIN answers PROVE answers[k].root = 0
      <3>1. answers[k] \in Answers BY DEF SteamInv
      <3>2. answers[k].steam \in Nat /\ answers[k].root \in Nat
        BY <3>1, HeartbeatAssumption DEF Answers, Steams, Roots
      <3>3. ~(answers[k].steam + answers[k].root > 0)
        BY <1>3 DEF LoseAnswers
      <3> QED BY <3>2, <3>3
    <2>3. Carrying = {}
      BY <2>2 DEF Carrying
    <2> QED BY <2>1, <2>3 DEF WillHave
  <1> QED BY <1>1, <1>2, <1>3 DEF RootInv, WillHave, hostColumns

LEMMA RootContinues ==
    SteamInv /\ RootInv /\ [HeartbeatNext]_heartbeatVars => RootInv'
  <1> SUFFICES ASSUME SteamInv, RootInv, [HeartbeatNext]_heartbeatVars
               PROVE  RootInv'
    OBVIOUS
  <1>1. ASSUME UNCHANGED <<rootStored, rootOnHost, answers>>,
               agentUp' = agentUp \/ (agentUp' /\ rootStored # 0),
               mishap => mishap',
               \/ beat' = beat
               \/ /\ agentUp /\ agentUp' = agentUp
                  /\ \A b \in BeatSlots :
                        beat'[b] = beat[b] \/ beat'[b].at = "read"
        PROVE  RootInv'
    BY <1>1 DEF RootInv, WillHave, Carrying
  <1>2. CASE UNCHANGED heartbeatVars
    BY <1>1, <1>2 DEF heartbeatVars
  <1>3. CASE SetSteam \/ SetRoot \/ RequestReboot \/ StartAgent
    BY <1>1, <1>3 DEF SetSteam, SetRoot, RequestReboot, StartAgent,
                      hostColumns, machineState
  <1>4. CASE ReportRoot
    <2>1. /\ ~agentUp /\ answers = <<>> /\ rootStored' = rootOnHost
          /\ UNCHANGED <<answers, beat, rootOnHost, agentUp>>
      BY <1>4 DEF ReportRoot, RootInv, machineState
    <2>2. Carrying' = {} BY <2>1 DEF Carrying
    <2> QED BY <2>1, <2>2 DEF RootInv, WillHave
  <1>5. ASSUME NEW b \in BeatSlots, BeatRead(b) PROVE RootInv'
    <2>1. \A c \in BeatSlots : beat'[c] = beat[c] \/ beat'[c].at = "read"
      BY <1>5 DEF BeatRead, SteamInv
    <2> QED BY <1>1, <1>5, <2>1 DEF BeatRead, hostColumns, machineState
  <1>6. ASSUME NEW b \in BeatSlots, NEW ok \in BOOLEAN, BeatCommit(b, ok)
        PROVE  RootInv'
    BY <1>6, CommitKeepsRoot
  <1>7. ASSUME NEW ok \in BOOLEAN, ApplyAnswer(ok) PROVE RootInv'
    BY <1>7, ApplyKeepsRoot
  <1>8. ASSUME AckServed \/ AckFails \/ LateAckServed
                  \/ \E ok \in BOOLEAN : AckReturns(ok)
        PROVE  RootInv'
    BY <1>1, <1>8 DEF AckServed, AckFails, LateAckServed, AckReturns, hostColumns
  <1>9. CASE MachineReboots \/ AgentRestarts
    BY <1>9, LossKeepsRoot DEF MachineReboots, AgentRestarts
  <1> QED
    BY <1>2, <1>3, <1>4, <1>5, <1>6, <1>7, <1>8, <1>9 DEF HeartbeatNext

(* As long as no answer was lost and no command failed, the password the   *)
(* dashboard reveals is queued, on its way behind every other, or the one  *)
(* root has - however heartbeats and changes of it overlap.                *)
THEOREM RevealIsTrue == HeartbeatSpec => []RevealTellsTruth
  <1>1. RootInv => RevealTellsTruth
    BY DEF RootInv, RevealTellsTruth, Revealed
  <1> QED
    BY SteamBegins, SteamContinues, RootBegins, RootContinues, <1>1, PTL
    DEF HeartbeatSpec

-----------------------------------------------------------------------------
(***************************************************************************)
(* The notices of a host that stays away.                                  *)
(***************************************************************************)

(* With the type of every variable; a notice is only recorded while none   *)
(* was since the last heartbeat.                                           *)
PresenceInv == PresenceTypeOK /\ OneNoticePerOutage

LEMMA PresenceContinues ==
    PresenceInv /\ [PresenceNext]_presenceVars => PresenceInv'
  <1> SUFFICES ASSUME PresenceInv, [PresenceNext]_presenceVars
               PROVE  PresenceInv'
    OBVIOUS
  <1> USE PresenceAssumption DEF PresenceInv, PresenceTypeOK, OneNoticePerOutage
  <1>1. ASSUME NEW event \in Events, Record(event)
        PROVE  /\ quietFor' \in [Events -> 0..Cooldown]
               /\ lastNotice' \in {"none"} \cup Events
    BY <1>1 DEF Record
  <1>2. CASE Beat
    BY <1>1, <1>2 DEF Beat, Events
  <1>3. CASE Switch
    BY <1>3 DEF Switch
  <1>4. CASE Tick
    <2>1. quietFor' \in [Events -> 0..Cooldown] BY <1>4 DEF Tick
    <2>2. age' \in 0..MaxAge BY <1>4 DEF Tick, Fresh
    <2> QED BY <1>4, <2>1, <2>2 DEF Tick
  <1>5. CASE CronScan
    BY <1>5 DEF CronScan, NotStale
  <1>6. CASE CronNotice
    BY <1>1, <1>6 DEF CronNotice, NotStale, Events
  <1>7. CASE UNCHANGED presenceVars
    BY <1>7 DEF presenceVars
  <1> QED BY <1>2, <1>3, <1>4, <1>5, <1>6, <1>7 DEF PresenceNext

(* Between two heartbeats of a host its owner gets one host_offline notice *)
(* at most, however long the host stays away, however short the cooldown   *)
(* is, and also when the job works on a heartbeat that is not the last.    *)
THEOREM OutageIsNoticedOnce == PresenceSpec => []OneNoticePerOutage
  <1>1. PresenceInit => PresenceInv
    BY PresenceAssumption
    DEF PresenceInit, PresenceInv, PresenceTypeOK, OneNoticePerOutage, NotStale
  <1>2. PresenceInv => OneNoticePerOutage BY DEF PresenceInv
  <1> QED BY PresenceContinues, <1>1, <1>2, PTL DEF PresenceSpec

-----------------------------------------------------------------------------
(***************************************************************************)
(* Self-update.                                                            *)
(***************************************************************************)
Processes == [ver : Nat, expect : Nat, previous : Nat,
              at : {"run", "check", "restore", "respawn", "gone"}]
UpdateRecords == [at : {"none", "wanted", "loaded", "saved", "installed"},
                  want : Nat]
Active(u) == update[u] # NoUpdate

(* Updates that do not overlap: one at a time, none while a new process    *)
(* checks itself or rolls back.  The bundle is what runs, until it is      *)
(* replaced and again once the new process runs, or what a restart that    *)
(* threw has left there, or lost; the copy is one of these versions from   *)
(* the time it is made until the new process has taken over.               *)
UpdateInv ==
    /\ published \in Nat /\ bundle \in Nat /\ backup \in Nat /\ left \in Nat
    /\ agent \in Processes /\ update \in [Updates -> UpdateRecords]
    /\ \A u \in Updates : update[u].at = "none" => update[u] = NoUpdate
    /\ ~crossed =>
          /\ \A u, v \in Updates : Active(u) /\ Active(v) => u = v
          /\ agent.at # "run" => \A u \in Updates : update[u] = NoUpdate
          /\ agent.at \in {"run", "check"} =>
                \/ bundle \in {0, agent.ver, left}
                \/ \E u \in Updates : update[u].at = "installed"
          /\ \A u \in Updates : update[u].at \in {"saved", "installed"}
                => backup # 0 /\ backup \in {agent.ver, left}
          /\ agent.at \in {"check", "restore"}
                => backup # 0 /\ backup \in {agent.previous, left}

LEMMA UpdateBegins == UpdateInit => UpdateInv
  BY UpdateAssumption
  DEF UpdateInit, UpdateInv, Processes, UpdateRecords, Process, NoUpdate, Active

(* The steps of one update.                                                *)
LEMMA UpdateStepKeeps ==
    ASSUME UpdateInv, NEW u \in Updates, Begin(u) \/ UpdateStep(u)
    PROVE  UpdateInv'
  <1> USE DEF UpdateInv, Active
  <1>0. NoUpdate \in UpdateRecords /\ NoUpdate.at = "none"
    BY DEF NoUpdate, UpdateRecords
  <1>1. CASE Begin(u)
    <2> DEFINE r == [at |-> "wanted", want |-> published]
    <2>1. r \in UpdateRecords /\ r.at = "wanted" /\ r # NoUpdate
      BY DEF UpdateRecords, NoUpdate
    <2>2. /\ update' = [update EXCEPT ![u] = r]
          /\ UNCHANGED <<published, bundle, backup, agent, left>>
          /\ crossed' = (crossed \/ agent.at # "run"
                           \/ \E v \in Updates : update[v] # NoUpdate)
      BY <1>1 DEF Begin
    <2> HIDE DEF r
    <2>3. update' \in [Updates -> UpdateRecords]
      BY <2>1, <2>2
    <2>4. \A v \in Updates : v # u => update'[v] = update[v]
      BY <2>2
    <2>5. update'[u] = r
      BY <2>2
    <2> QED BY <1>0, <2>1, <2>2, <2>3, <2>4, <2>5
  <1>2. ASSUME NEW ok \in BOOLEAN, Download(u, ok) PROVE UpdateInv'
    <2>1. PICK r \in UpdateRecords : /\ update' = [update EXCEPT ![u] = r]
                                     /\ r = NoUpdate \/ r.at = "loaded"
      <3>1. update[u] \in UpdateRecords
        OBVIOUS
      <3>2. /\ [update[u] EXCEPT !.at = "loaded"] \in UpdateRecords
            /\ [update[u] EXCEPT !.at = "loaded"].at = "loaded"
        BY <3>1 DEF UpdateRecords
      <3>3. CASE ok /\ published - update[u].want < 2
        BY <1>2, <3>2, <3>3 DEF Download
      <3>4. CASE ~(ok /\ published - update[u].want < 2)
        BY <1>0, <1>2, <3>4 DEF Download
      <3> QED BY <3>3, <3>4
    <2>2. UNCHANGED <<published, bundle, backup, agent, crossed, left>>
      BY <1>2 DEF Download
    <2>3. Active(u) /\ update[u].at = "wanted"
      BY <1>0, <1>2 DEF Download
    <2> QED BY <1>0, <2>1, <2>2, <2>3
  <1>3. ASSUME NEW ok \in BOOLEAN, Save(u, ok) PROVE UpdateInv'
    <2>1. PICK r \in UpdateRecords :
             /\ update' = [update EXCEPT ![u] = r]
             /\ \/ r = NoUpdate /\ backup' \in {backup, 0}
                \/ r.at = "saved" /\ backup' = bundle /\ bundle # 0
      <3>1. update[u] \in UpdateRecords
        OBVIOUS
      <3>2. /\ [update[u] EXCEPT !.at = "saved"] \in UpdateRecords
            /\ [update[u] EXCEPT !.at = "saved"].at = "saved"
        BY <3>1 DEF UpdateRecords
      <3>3. CASE ok /\ bundle # 0 BY <1>3, <3>2, <3>3 DEF Save, Copied
      <3>4. CASE ~(ok /\ bundle # 0) BY <1>0, <1>3, <3>4 DEF Save, Copied
      <3> QED BY <3>3, <3>4
    <2>2. UNCHANGED <<published, bundle, agent, crossed, left>>
      BY <1>3 DEF Save
    <2>3. Active(u) /\ update[u].at = "loaded"
      BY <1>0, <1>3 DEF Save
    <2> QED BY <1>0, <2>1, <2>2, <2>3
  <1>4. ASSUME NEW ok \in BOOLEAN, Install(u, ok) PROVE UpdateInv'
    <2>1. PICK r \in UpdateRecords :
             /\ update' = [update EXCEPT ![u] = r]
             /\ \/ r = NoUpdate /\ bundle' \in {backup, bundle, 0}
                \/ r.at = "installed" /\ bundle' = update[u].want
      <3>1. update[u] \in UpdateRecords
        OBVIOUS
      <3>2. /\ [update[u] EXCEPT !.at = "installed"] \in UpdateRecords
            /\ [update[u] EXCEPT !.at = "installed"].at = "installed"
        BY <3>1 DEF UpdateRecords
      <3>3. CASE ok BY <1>4, <3>2, <3>3 DEF Install
      <3>4. CASE ~ok BY <1>0, <1>4, <3>4 DEF Install, Copied
      <3> QED BY <3>3, <3>4
    <2>2. UNCHANGED <<published, backup, agent, crossed, left>>
      BY <1>4 DEF Install
    <2>3. Active(u) /\ update[u].at = "saved" /\ update[u].want \in Nat
      BY <1>0, <1>4 DEF Install, UpdateRecords
    <2> QED BY <1>0, <2>1, <2>2, <2>3
  <1>5. CASE Restart(u)
    <2>1. Active(u) /\ update[u].at = "installed" /\ update[u].want \in Nat
      BY <1>0, <1>5 DEF Restart, UpdateRecords
    <2>2. /\ UNCHANGED <<published, bundle, backup, crossed, left>>
          /\ update' = [v \in Updates |-> NoUpdate]
          /\ \/ agent' = Gone
             \/ agent' = Process(bundle, update[u].want, agent.ver, "check")
      BY <1>5 DEF Restart, Replace, Started
    <2>3. CASE agent' = Gone
      <3>1. agent' \in Processes /\ agent'.at = "gone"
        BY <2>3 DEF Gone, Process, Processes
      <3> QED BY <1>0, <2>2, <3>1
    <2>4. CASE agent' = Process(bundle, update[u].want, agent.ver, "check")
      <3>1. /\ agent' \in Processes /\ agent'.at = "check"
            /\ agent'.ver = bundle /\ agent'.previous = agent.ver
        BY <2>1, <2>4 DEF Process, Processes
      <3> QED BY <1>0, <2>1, <2>2, <3>1
    <2> QED BY <2>2, <2>3, <2>4
  <1>6. CASE RestartFails(u)
    <2>1. agent' \in Processes /\ agent'.at = "gone"
      BY <1>6 DEF RestartFails, Replace, Gone, Process, Processes
    <2>2. /\ UNCHANGED <<published, backup, crossed, left>>
          /\ update' = [v \in Updates |-> NoUpdate] /\ bundle' \in Nat
      BY <1>6 DEF RestartFails, Replace, Copied
    <2> QED BY <1>0, <2>1, <2>2
  <1>7. CASE RestartThrows(u)
    <2>1. Active(u) /\ update[u].at = "installed"
      BY <1>0, <1>7 DEF RestartThrows
    <2>2. /\ UNCHANGED <<published, bundle, backup, agent, crossed>>
          /\ update' = [update EXCEPT ![u] = NoUpdate] /\ left' = bundle
      BY <1>7 DEF RestartThrows
    <2> QED BY <1>0, <2>1, <2>2
  <1> QED BY <1>1, <1>2, <1>3, <1>4, <1>5, <1>6, <1>7 DEF UpdateStep

LEMMA UpdateContinues == UpdateInv /\ [UpdateNext]_updateVars => UpdateInv'
  <1> SUFFICES ASSUME UpdateInv, [UpdateNext]_updateVars PROVE UpdateInv'
    OBVIOUS
  <1> USE DEF UpdateInv, Active
  <1>0. NoUpdate \in UpdateRecords /\ NoUpdate.at = "none"
    BY DEF NoUpdate, UpdateRecords
  <1>1. CASE UNCHANGED updateVars
    BY <1>1 DEF updateVars
  <1>2. CASE Publish
    BY <1>2 DEF Publish
  <1>3. CASE CheckPasses
    BY <1>3 DEF CheckPasses, Processes
  <1>4. CASE CheckFails
    BY <1>4 DEF CheckFails, Processes
  <1>5. ASSUME agent' = Gone, update' = [u \in Updates |-> NoUpdate],
               bundle' \in {bundle, backup, 0}, backup' \in {backup, 0},
               UNCHANGED <<published, crossed, left>>
        PROVE  UpdateInv'
    <2>1. agent' \in Processes /\ agent'.at = "gone"
      BY <1>5 DEF Gone, Process, Processes
    <2> QED BY <1>0, <1>5, <2>1
  <1>6. CASE Die
    BY <1>5, <1>6 DEF Die, Replace
  <1>7. CASE StartByHand
    <2>1. agent.at = "gone"
      BY <1>7 DEF StartByHand, Alive, Gone, Process
    <2>2. bundle' \in Nat
      BY <1>7 DEF StartByHand
    <2>3. /\ agent' \in Processes /\ agent'.at = "run" /\ agent'.ver = bundle'
      BY <1>7, <2>2 DEF StartByHand, Process, Processes
    <2> QED BY <1>0, <1>7, <2>1, <2>2, <2>3 DEF StartByHand
  <1>8. ASSUME NEW ok \in BOOLEAN, Restore(ok) PROVE UpdateInv'
    <2>1. CASE ok /\ backup # 0
      <3>1. agent' \in Processes /\ agent'.at = "respawn"
        BY <1>8, <2>1 DEF Restore, Processes
      <3> QED BY <1>0, <1>8, <2>1, <3>1 DEF Restore, Copied
    <2>2. CASE ~(ok /\ backup # 0)
      BY <1>5, <1>8, <2>2 DEF Restore, Replace, Copied
    <2> QED BY <2>1, <2>2
  <1>9. ASSUME NEW ok \in BOOLEAN, Respawn(ok) PROVE UpdateInv'
    <2>1. CASE ok /\ bundle # 0
      <3>1. /\ agent' \in Processes /\ agent'.at = "run"
            /\ agent'.ver = bundle
        BY <1>9, <2>1 DEF Respawn, Replace, Started, Process, Processes
      <3> QED BY <1>0, <1>9, <2>1, <3>1 DEF Respawn, Replace
    <2>2. CASE ~(ok /\ bundle # 0)
      BY <1>5, <1>9, <2>2 DEF Respawn, Replace, Started
    <2> QED BY <2>1, <2>2
  <1> QED
    BY UpdateStepKeeps, <1>1, <1>2, <1>3, <1>4, <1>6, <1>7, <1>8, <1>9
    DEF UpdateNext, RollbackStep

(* Whatever is published, killed, started by hand or fails half-way, a     *)
(* restart that throws or loses the bundle included: as long as no two     *)
(* updates overlap, what a rollback puts back is there, and is the version *)
(* that ran or the one a restart that threw had left in its place.         *)
THEOREM RollbackIsRight == UpdateSpec => []RollbackRestores
  <1>1. UpdateInv => RollbackRestores
    BY DEF UpdateInv, RollbackRestores
  <1> QED BY UpdateBegins, UpdateContinues, <1>1, PTL DEF UpdateSpec

-----------------------------------------------------------------------------
(***************************************************************************)
(* The sessions of the remote terminal.                                    *)
(***************************************************************************)
TabStages == {"none", "asked", "auditing", "refused", "live", "ended"}
AuditStages == {"none", "open", "closing", "ended", "left"}
Early == {"none", "asked", "auditing", "refused"}   \* never registered yet

(* What makes SlotsMatchAudits inductive: only a tab whose upgrade has     *)
(* ended in a session has one, and the server hears the close of a tab     *)
(* after the browser has closed it.                                        *)
SessionInv ==
    /\ tab \in [Tabs -> TabStages]
    /\ audit \in [Tabs -> AuditStages]
    /\ \A t \in Tabs :
          /\ t \in relay => tab[t] = "live"
          /\ t \in tabOpen => t \notin heard
          /\ tab[t] \in {"none", "asked"} => t \notin heard
    /\ SlotsMatchAudits

LEMMA SessionsBegin == TerminalInit => SessionInv
  BY DEF TerminalInit, SessionInv, SlotsMatchAudits, TabStages, AuditStages

(* The steps of a tab's upgrade handler and of its browser.                *)
LEMMA TabKeepsSessions ==
    ASSUME SessionInv, NEW s \in Tabs,
           \/ OpenTab(s) \/ CloseTab(s) \/ Admit(s) \/ AuditFails(s)
           \/ Register(s) \/ AgentOffline(s) \/ RowEnds(s) \/ RowStays(s)
           \/ HearClose(s)
    PROVE  SessionInv'
  <1> USE DEF SessionInv, SlotsMatchAudits, TabStages, AuditStages
  <1>1. CASE OpenTab(s) BY <1>1 DEF OpenTab
  <1>2. CASE CloseTab(s) BY <1>2 DEF CloseTab
  <1>3. CASE Admit(s) BY <1>3 DEF Admit
  <1>4. CASE AuditFails(s) BY <1>4 DEF AuditFails
  <1>5. CASE Register(s) BY <1>5 DEF Register
  <1>6. CASE AgentOffline(s) BY <1>6 DEF AgentOffline
  <1>7. CASE HearClose(s) BY <1>7 DEF HearClose, EndRow
  <1>8. CASE RowEnds(s) BY <1>8 DEF RowEnds
  <1>9. CASE RowStays(s) BY <1>9 DEF RowStays
  <1> QED BY <1>1, <1>2, <1>3, <1>4, <1>5, <1>6, <1>7, <1>8, <1>9

(* The shells, the hour and the agent's socket: only HearDrop, which       *)
(* closes every session, and a restart, which forgets them, touch one.     *)
LEMMA SessionsContinue == SessionInv /\ [TerminalNext]_terminalVars => SessionInv'
  <1> SUFFICES ASSUME SessionInv, [TerminalNext]_terminalVars PROVE SessionInv'
    OBVIOUS
  <1>1. ASSUME UNCHANGED tabVars PROVE SessionInv'
    BY <1>1 DEF tabVars, SessionInv, SlotsMatchAudits
  <1>2. CASE UNCHANGED terminalVars
    BY <1>1, <1>2 DEF terminalVars, tabVars
  <1>3. ASSUME NEW t \in Tabs,
               \/ \E starts \in BOOLEAN : OpenShell(t, starts)
               \/ CloseShell(t) \/ ShellWorks(t) \/ ShellExits(t)
               \/ IdleTimeout(t)
        PROVE  SessionInv'
    BY <1>1, <1>3 DEF OpenShell, CloseShell, ShellWorks, ShellExits, IdleTimeout
  <1>4. CASE AgentConnects \/ LinkDrops \/ AgentEnds
    BY <1>1, <1>4 DEF AgentConnects, LinkDrops, AgentEnds
  <1>5. CASE HourPasses
    BY <1>5 DEF HourPasses, SessionInv, SlotsMatchAudits
  <1>6. CASE HearDrop
    BY <1>6 DEF HearDrop, SessionInv, SlotsMatchAudits, AuditStages
  <1>7. CASE ServerRestarts
    <2>1. /\ tab' \in [Tabs -> TabStages] /\ relay' = {}
          /\ \A t \in Tabs : tab'[t] \in {"none", "asked"} => tab[t] = "none"
      BY <1>7 DEF ServerRestarts, TabStages
    <2>2. audit' \in [Tabs -> AuditStages] /\ \A t \in Tabs : audit'[t] # "open"
      BY <1>7 DEF ServerRestarts, SessionInv, AuditStages
    <2>3. \A t \in Tabs : /\ t \in tabOpen' => t \in tabOpen /\ tab[t] = "none"
                          /\ t \in heard' => t \in heard \/ tab[t] # "none"
      BY <1>7 DEF ServerRestarts
    <2> QED BY <2>1, <2>2, <2>3 DEF SessionInv, SlotsMatchAudits
  <1> QED
    BY TabKeepsSessions, <1>2, <1>3, <1>4, <1>5, <1>6, <1>7 DEF TerminalNext

(* In every run, with row ends that come late or never and with restarts   *)
(* of the server: a session is counted against the limit of its host       *)
(* exactly as long as its audit row is open and its end has not been sent, *)
(* and only for a tab that is there, is about to be heard of, or closed    *)
(* while its row was written.                                              *)
THEOREM SlotsStayMatched == TerminalSpec => []SlotsMatchAudits
  <1>1. SessionInv => SlotsMatchAudits BY DEF SessionInv
  <1> QED BY SessionsBegin, SessionsContinue, <1>1, PTL DEF TerminalSpec

-----------------------------------------------------------------------------
(***************************************************************************)
(* The shells of closed tabs, over the agent's first socket.               *)
(***************************************************************************)

Controls == [action : {"open", "close"}, session : Tabs]

(* Among the messages c the one that ends the shell of t comes after place *)
(* i.                                                                      *)
CloseAfter(c, i, t) ==
    \E k \in DOMAIN c :
        i < k /\ c[k] = [action |-> "close", session |-> t]

(* A tab whose close event ended, or will end, its session.                *)
Closed == heard \ deaf

(* What makes ShellFollowsTab inductive.  Before the first connection      *)
(* there is nothing to follow; while it lasts the server and the agent     *)
(* have the same socket, a tab that was not registered has no shell and no *)
(* message, and behind every "open" of a closed tab there is a "close".    *)
FirstLinkInv ==
    /\ tab \in [Tabs -> TabStages]
    /\ shell \in [Tabs -> {"none", "quiet", "busy"}]
    /\ links \in Nat
    /\ controls \in Seq(Controls)
    /\ links = 0 => /\ agentLink = 0 /\ agentSocket = 0 /\ controls = <<>>
                    /\ \A t \in Tabs : shell[t] = "none"
    /\ links = 1 /\ agentLink = 1 =>
          /\ agentSocket = 1
          /\ \A t \in Tabs : tab[t] \in Early =>
                /\ shell[t] = "none"
                /\ \A k \in DOMAIN controls : controls[k].session # t
          /\ \A t \in Shells \cap Closed : CloseAfter(controls, 0, t)
          /\ \A i \in DOMAIN controls :
                controls[i].action = "open" /\ controls[i].session \in Closed
                   => CloseAfter(controls, i, controls[i].session)

LEMMA FirstLinkBegins == TerminalInit => FirstLinkInv
  BY DEF TerminalInit, FirstLinkInv, Shells, Closed, CloseAfter, TabStages

(* A message that is sent is behind those that are there.                  *)
LEMMA SendAppends ==
    ASSUME FirstLinkInv, NEW t \in Tabs, NEW action \in {"open", "close"},
           Send(action, t), links = 1, agentLink = 1
    PROVE  /\ controls' = Append(controls, [action |-> action, session |-> t])
           /\ Len(controls') = Len(controls) + 1
           /\ controls'[Len(controls')] = [action |-> action, session |-> t]
           /\ \A k \in DOMAIN controls :
                 k \in DOMAIN controls' /\ controls'[k] = controls[k]
           /\ DOMAIN controls' = DOMAIN controls \cup {Len(controls')}
           /\ \A k \in DOMAIN controls : k < Len(controls')
  BY DEF FirstLinkInv, Send

LEMMA SendTypes ==
    ASSUME FirstLinkInv, NEW t \in Tabs, NEW action \in {"open", "close"},
           Send(action, t)
    PROVE  /\ controls' \in Seq(Controls)
           /\ agentLink = 0 => controls' = controls
  <1> DEFINE m == [action |-> action, session |-> t]
  <1>1. m \in Controls
    BY DEF Controls
  <1>2. controls' = Append(controls, m) \/ controls' = controls
    BY DEF Send
  <1>3. agentLink = 0 => controls' = controls
    BY DEF Send
  <1> HIDE DEF m
  <1> QED BY <1>1, <1>2, <1>3 DEF FirstLinkInv

(* A tab that is opened, closed, admitted or given up.                     *)
LEMMA TabKeepsLink ==
    ASSUME FirstLinkInv, NEW s \in Tabs,
           \/ OpenTab(s) \/ CloseTab(s) \/ Admit(s) \/ AuditFails(s)
           \/ AgentOffline(s) \/ RowEnds(s) \/ RowStays(s)
    PROVE  FirstLinkInv'
  <1>1. /\ UNCHANGED <<shell, linkVars, controls, deaf>>
        /\ tab' \in [Tabs -> TabStages]
        /\ \A t \in Tabs : tab'[t] \in Early =>
              tab[t] \in Early
        /\ heard' \subseteq heard \cup {s}
        /\ s \in heard' => s \in heard \/ tab[s] \in Early
    BY DEF FirstLinkInv, OpenTab, CloseTab, Admit, AuditFails, AgentOffline,
           RowEnds, RowStays, TabStages, Early
  <1>2. links = 1 /\ agentLink = 1 =>
           \A t \in Closed' : t \in Closed \/ (/\ shell[t] = "none"
              /\ \A k \in DOMAIN controls : controls[k].session # t)
    BY <1>1 DEF FirstLinkInv, Closed
  <1> QED BY <1>1, <1>2 DEF FirstLinkInv, linkVars, Shells, CloseAfter

LEMMA RegisterKeepsLink ==
    ASSUME FirstLinkInv, NEW s \in Tabs, Register(s) PROVE FirstLinkInv'
  <1>1. /\ UNCHANGED <<shell, linkVars, heard>> /\ Send("open", s)
        /\ tab' = [tab EXCEPT ![s] = "live"] /\ tab[s] = "auditing"
        /\ agentSocket # 0 /\ deaf \subseteq deaf' /\ (s \in heard => s \in deaf')
        /\ \A t \in Tabs \ {s} : tab'[t] = tab[t]
        /\ tab' \in [Tabs -> TabStages] /\ tab'[s] \notin Early
    BY DEF Register, FirstLinkInv, TabStages, Early
  <1>2. controls' \in Seq(Controls)
    BY <1>1, SendTypes
  <1>3. links # 0 BY <1>1 DEF FirstLinkInv
  <1>4. ASSUME links = 1, agentLink = 1
        PROVE  /\ \A t \in Tabs : tab'[t] \in Early =>
                     /\ shell[t] = "none"
                     /\ \A k \in DOMAIN controls' : controls'[k].session # t
               /\ \A t \in (Shells \cap Closed)' : CloseAfter(controls', 0, t)
               /\ \A i \in DOMAIN controls' :
                     /\ controls'[i].action = "open"
                     /\ controls'[i].session \in Closed'
                     => CloseAfter(controls', i, controls'[i].session)
    <2>1. /\ controls'[Len(controls')] = [action |-> "open", session |-> s]
          /\ \A k \in DOMAIN controls :
                k \in DOMAIN controls' /\ controls'[k] = controls[k]
          /\ DOMAIN controls' = DOMAIN controls \cup {Len(controls')}
      BY <1>1, <1>4, SendAppends
    <2>2. Closed' \subseteq Closed /\ s \notin Closed'
      BY <1>1 DEF Closed
    <2> DEFINE last == Len(controls')
    <2>0. /\ DOMAIN controls' = DOMAIN controls \cup {last}
          /\ controls'[last].session = s
      <3>1. [action |-> "open", session |-> s].session = s
        OBVIOUS
      <3> QED BY <2>1, <3>1
    <2> HIDE DEF last
    <2>3. \A i, t : CloseAfter(controls, i, t) => CloseAfter(controls', i, t)
      BY <2>1 DEF CloseAfter
    <2>4. \A t \in (Shells \cap Closed)' : CloseAfter(controls', 0, t)
      BY <1>1, <1>4, <2>2, <2>3 DEF FirstLinkInv, Shells
    <2>5. \A t \in Tabs : tab'[t] \in Early =>
             /\ shell[t] = "none"
             /\ \A k \in DOMAIN controls' : controls'[k].session # t
      <3> SUFFICES ASSUME NEW t \in Tabs,
                          tab'[t] \in Early
                   PROVE  /\ shell[t] = "none"
                          /\ \A k \in DOMAIN controls' : controls'[k].session # t
        OBVIOUS
      <3>1. t # s /\ tab[t] \in Early
        BY <1>1 DEF FirstLinkInv
      <3>2. /\ shell[t] = "none"
            /\ \A k \in DOMAIN controls : controls[k].session # t
        BY <1>4, <3>1 DEF FirstLinkInv
      <3> QED BY <2>0, <2>1, <3>1, <3>2
    <2>6. ASSUME NEW i \in DOMAIN controls', controls'[i].action = "open",
                 controls'[i].session \in Closed'
          PROVE  CloseAfter(controls', i, controls'[i].session)
      <3>1. i \in DOMAIN controls BY <2>0, <2>2, <2>6
      <3> QED BY <1>4, <2>1, <2>2, <2>3, <2>6, <3>1 DEF FirstLinkInv
    <2> QED BY <2>4, <2>5, <2>6
  <1> QED BY <1>1, <1>2, <1>3, <1>4 DEF FirstLinkInv, linkVars

LEMMA HearCloseKeepsLink ==
    ASSUME FirstLinkInv, NEW s \in Tabs, HearClose(s) PROVE FirstLinkInv'
  <1>1. /\ UNCHANGED <<shell, linkVars, deaf>> /\ heard' = heard \cup {s}
        /\ tab' \in [Tabs -> TabStages]
        /\ \A t \in Tabs : tab'[t] \in Early =>
              tab[t] \in Early
    BY DEF FirstLinkInv, HearClose, TabStages, Early
  <1>2. CASE tab[s] # "live"
    <2>1. controls' = controls /\ tab[s] \in Early
      BY <1>2 DEF HearClose, Early
    <2>2. links = 1 /\ agentLink = 1 =>
             \A t \in Closed' : t \in Closed \/ (/\ shell[t] = "none"
                /\ \A k \in DOMAIN controls : controls[k].session # t)
      BY <1>1, <2>1 DEF FirstLinkInv, Closed
    <2> QED
      BY <1>1, <2>1, <2>2 DEF FirstLinkInv, linkVars, Shells, CloseAfter
  <1>3. CASE tab[s] = "live"
    <2>1. Send("close", s) /\ tab' = [tab EXCEPT ![s] = "ended"]
      BY <1>3 DEF HearClose
    <2>2. /\ controls' \in Seq(Controls)
          /\ agentLink = 0 => controls' = controls
      BY <2>1, SendTypes
    <2>3. ASSUME links = 1, agentLink = 1
          PROVE  /\ \A t \in Tabs : tab'[t] \in Early =>
                       /\ shell[t] = "none"
                       /\ \A k \in DOMAIN controls' : controls'[k].session # t
                 /\ \A t \in (Shells \cap Closed)' : CloseAfter(controls', 0, t)
                 /\ \A i \in DOMAIN controls' :
                       /\ controls'[i].action = "open"
                       /\ controls'[i].session \in Closed'
                       => CloseAfter(controls', i, controls'[i].session)
      <3>1. /\ controls'[Len(controls')] = [action |-> "close", session |-> s]
            /\ \A k \in DOMAIN controls :
                  /\ k \in DOMAIN controls' /\ controls'[k] = controls[k]
                  /\ k < Len(controls')
            /\ DOMAIN controls' = DOMAIN controls \cup {Len(controls')}
            /\ Len(controls') = Len(controls) + 1
        BY <2>1, <2>3, SendAppends
      <3>2. \A i, t : CloseAfter(controls, i, t) => CloseAfter(controls', i, t)
        BY <3>1 DEF CloseAfter
      <3>3. 0 < Len(controls') BY <3>1 DEF FirstLinkInv
      <3>4. /\ CloseAfter(controls', 0, s)
            /\ \A i \in DOMAIN controls : CloseAfter(controls', i, s)
        BY <3>1, <3>3 DEF CloseAfter
      <3>5. Closed' \subseteq Closed \cup {s} BY <1>1 DEF Closed
      <3>6. \A t \in (Shells \cap Closed)' : CloseAfter(controls', 0, t)
        BY <1>1, <2>3, <3>2, <3>4, <3>5 DEF FirstLinkInv, Shells
      <3>7. \A t \in Tabs : tab'[t] \in Early =>
               /\ shell[t] = "none"
               /\ \A k \in DOMAIN controls' : controls'[k].session # t
        <4>1. tab'[s] \notin Early
          BY <1>3, <2>1 DEF FirstLinkInv, Early
        <4> QED BY <1>1, <2>1, <2>3, <3>1, <4>1 DEF FirstLinkInv
      <3>8. ASSUME NEW i \in DOMAIN controls', controls'[i].action = "open",
                   controls'[i].session \in Closed'
            PROVE  CloseAfter(controls', i, controls'[i].session)
        <4>1. i \in DOMAIN controls /\ controls'[i] = controls[i]
          BY <3>1, <3>8
        <4>2. CASE controls[i].session = s BY <3>4, <4>1, <4>2
        <4>3. CASE controls[i].session # s
          BY <2>3, <3>2, <3>5, <3>8, <4>1, <4>3 DEF FirstLinkInv
        <4> QED BY <4>2, <4>3
      <3> QED BY <3>6, <3>7, <3>8
    <2> QED BY <1>1, <2>2, <2>3 DEF FirstLinkInv, linkVars
  <1> QED BY <1>2, <1>3

(* The agent takes the first message: what was behind it stays in order.   *)
LEMMA ShellKeepsLink ==
    ASSUME FirstLinkInv, NEW s \in Tabs,
           (\E starts \in BOOLEAN : OpenShell(s, starts)) \/ CloseShell(s)
    PROVE  FirstLinkInv'
  <1>1. /\ controls # <<>> /\ controls' = Tail(controls)
        /\ controls[1] \in {[action |-> "open", session |-> s],
                            [action |-> "close", session |-> s]}
        /\ \/ shell' = [shell EXCEPT ![s] = "none"]
           \/ /\ controls[1].action = "open"
              /\ shell' = shell \/ shell' = [shell EXCEPT ![s] = "quiet"]
        /\ UNCHANGED <<tabVars, linkVars>>
    <2>1. controls # <<>> => Head(controls) = controls[1]
      BY DEF FirstLinkInv
    <2>2. ASSUME NEW starts \in BOOLEAN, OpenShell(s, starts)
          PROVE  /\ controls # <<>> /\ controls' = Tail(controls)
                 /\ Head(controls) = [action |-> "open", session |-> s]
                 /\ shell' = shell \/ shell' = [shell EXCEPT ![s] = "quiet"]
                 /\ controls[1].action = "open"
                 /\ UNCHANGED <<tabVars, linkVars>>
      <3>1. [action |-> "open", session |-> s].action = "open"
        OBVIOUS
      <3> QED BY <2>1, <2>2, <3>1 DEF OpenShell
    <2>3. ASSUME CloseShell(s)
          PROVE  /\ controls # <<>> /\ controls' = Tail(controls)
                 /\ Head(controls) = [action |-> "close", session |-> s]
                 /\ shell' = [shell EXCEPT ![s] = "none"]
                 /\ UNCHANGED <<tabVars, linkVars>>
      BY <2>3 DEF CloseShell
    <2>4. CASE \E starts \in BOOLEAN : OpenShell(s, starts)
      BY <2>1, <2>2, <2>4, Zenon
    <2>5. CASE CloseShell(s)
      BY <2>1, <2>3, <2>5, Zenon
    <2> QED BY <2>4, <2>5
  <1>2. /\ controls' \in Seq(Controls)
        /\ Len(controls') = Len(controls) - 1
        /\ \A k \in DOMAIN controls' :
              k + 1 \in DOMAIN controls /\ controls'[k] = controls[k + 1]
        /\ \A k \in DOMAIN controls :
              k # 1 => k - 1 \in DOMAIN controls' /\ controls'[k - 1] = controls[k]
        /\ 1 \in DOMAIN controls
    BY <1>1 DEF FirstLinkInv
  <1>3. shell' \in [Tabs -> {"none", "quiet", "busy"}]
    BY <1>1 DEF FirstLinkInv
  <1>4. links # 0 BY <1>1 DEF FirstLinkInv
  <1>5. ASSUME links = 1, agentLink = 1
        PROVE  /\ \A t \in Tabs : tab'[t] \in Early =>
                     /\ shell'[t] = "none"
                     /\ \A k \in DOMAIN controls' : controls'[k].session # t
               /\ \A t \in (Shells \cap Closed)' : CloseAfter(controls', 0, t)
               /\ \A i \in DOMAIN controls' :
                     /\ controls'[i].action = "open"
                     /\ controls'[i].session \in Closed'
                     => CloseAfter(controls', i, controls'[i].session)
    <2>1. tab' = tab /\ Closed' = Closed BY <1>1 DEF tabVars, Closed
    <2>2. \A k \in DOMAIN controls : k \in Nat /\ 1 <= k
      BY DEF FirstLinkInv
    <2>3. \A i \in Nat : \A t : CloseAfter(controls, i + 1, t) => CloseAfter(controls', i, t)
      BY <1>2, <2>2 DEF CloseAfter
    <2>4. \A t \in Tabs : /\ CloseAfter(controls, 0, t)
                          /\ controls[1] # [action |-> "close", session |-> t]
                         => CloseAfter(controls, 1, t)
      BY <2>2 DEF CloseAfter
    <2>5. \A t \in Tabs : tab'[t] \in Early =>
             /\ shell'[t] = "none"
             /\ \A k \in DOMAIN controls' : controls'[k].session # t
      BY <1>1, <1>2, <1>5, <2>1 DEF FirstLinkInv
    <2>6. ASSUME NEW t \in (Shells \cap Closed)' PROVE CloseAfter(controls', 0, t)
      <3>1. t \in Tabs /\ t \in Closed /\ shell'[t] # "none"
        BY <2>1, <2>6 DEF Shells
      <3>2. CASE t \in Shells /\ controls[1] # [action |-> "close", session |-> t]
        <4>1. CloseAfter(controls, 1, t) BY <1>5, <2>4, <3>1, <3>2 DEF FirstLinkInv
        <4> QED BY <2>3, <4>1
      <3>3. CASE ~(t \in Shells /\ controls[1] # [action |-> "close", session |-> t])
        <4>1. t = s /\ controls[1].action = "open" /\ controls[1].session = s
          BY <1>1, <3>1, <3>3 DEF FirstLinkInv, Shells
        <4>2. CloseAfter(controls, 1, t) BY <1>2, <1>5, <3>1, <4>1 DEF FirstLinkInv
        <4> QED BY <2>3, <4>2
      <3> QED BY <3>2, <3>3
    <2>7. ASSUME NEW i \in DOMAIN controls', controls'[i].action = "open",
                 controls'[i].session \in Closed'
          PROVE  CloseAfter(controls', i, controls'[i].session)
      <3>1. CloseAfter(controls, i + 1, controls'[i].session)
        BY <1>2, <1>5, <2>1, <2>7 DEF FirstLinkInv
      <3>2. i \in Nat BY <1>2
      <3> QED BY <2>3, <3>1, <3>2
    <2> QED BY <2>5, <2>6, <2>7
  <1> QED
    BY <1>1, <1>2, <1>3, <1>4, <1>5 DEF FirstLinkInv, linkVars, tabVars

LEMMA FirstLinkContinues ==
    FirstLinkInv /\ [TerminalNext]_terminalVars => FirstLinkInv'
  <1> SUFFICES ASSUME FirstLinkInv, [TerminalNext]_terminalVars
               PROVE  FirstLinkInv'
    OBVIOUS
  <1>1. CASE UNCHANGED <<tab, heard, deaf, shell, linkVars, controls>>
    BY <1>1 DEF FirstLinkInv, linkVars, Shells, Closed, CloseAfter
  <1>2. CASE UNCHANGED terminalVars \/ HourPasses
    BY <1>1, <1>2 DEF terminalVars, linkVars, HourPasses
  <1>3. ASSUME NEW t \in Tabs, ShellWorks(t) \/ ShellExits(t) \/ IdleTimeout(t)
        PROVE  FirstLinkInv'
    <2>1. /\ UNCHANGED <<tabVars, linkVars, controls>>
          /\ shell' \in [Tabs -> {"none", "quiet", "busy"}]
          /\ \A s \in Tabs : shell[s] = "none" => shell'[s] = "none"
      BY <1>3 DEF FirstLinkInv, ShellWorks, ShellExits, IdleTimeout
    <2> QED BY <2>1 DEF FirstLinkInv, tabVars, linkVars, Shells, Closed, CloseAfter
  <1>4. CASE AgentConnects
    BY <1>4 DEF FirstLinkInv, AgentConnects, tabVars, Shells, Closed, CloseAfter
  <1>5. CASE LinkDrops \/ AgentEnds
    <2>1. /\ agentLink # 0 /\ agentLink' = 0 /\ controls' = <<>>
          /\ UNCHANGED <<tab, links>>
          /\ shell' = shell \/ shell' = [t \in Tabs |-> "none"]
      BY <1>5 DEF LinkDrops, AgentEnds, tabVars
    <2>2. links # 0 BY <2>1 DEF FirstLinkInv
    <2>3. shell' \in [Tabs -> {"none", "quiet", "busy"}]
      BY <2>1 DEF FirstLinkInv
    <2>4. controls' \in Seq(Controls) BY <2>1
    <2> QED BY <2>1, <2>2, <2>3, <2>4 DEF FirstLinkInv
  <1>6. CASE HearDrop
    BY <1>6 DEF FirstLinkInv, HearDrop
  <1>7. CASE ServerRestarts
    <2>1. /\ agentLink' = 0 /\ agentSocket' = 0 /\ controls' = <<>>
          /\ UNCHANGED <<shell, links>>
      BY <1>7 DEF ServerRestarts
    <2>2. tab' \in [Tabs -> TabStages]
      BY <1>7 DEF ServerRestarts, TabStages
    <2> QED BY <2>1, <2>2 DEF FirstLinkInv
  <1> QED
    BY <1>2, <1>3, <1>4, <1>5, <1>6, <1>7, TabKeepsLink, RegisterKeepsLink,
       HearCloseKeepsLink, ShellKeepsLink
    DEF TerminalNext

(* Whatever order tabs come and go in, and however many there are: as long *)
(* as the agent has its first socket, a closed tab whose shell is still    *)
(* there has its "close" on the way.                                       *)
THEOREM ShellsFollowTheirTabs == TerminalSpec => []ShellFollowsTab
  <1>1. FirstLinkInv => ShellFollowsTab
    BY DEF FirstLinkInv, ShellFollowsTab, Shells, Closed, CloseAfter
  <1> QED BY FirstLinkBegins, FirstLinkContinues, <1>1, PTL DEF TerminalSpec

-----------------------------------------------------------------------------
(***************************************************************************)
(* Types.  One lemma per module; where a value passes through a variable   *)
(* that may be empty, the invariant says when it is not.                   *)
(***************************************************************************)
HeartbeatTypes == HeartbeatTypeOK /\ acking + acked <= MaxAcking

LEMMA HeartbeatTypesContinue ==
    HeartbeatTypes /\ [HeartbeatNext]_heartbeatVars => HeartbeatTypes'
  <1> SUFFICES ASSUME HeartbeatTypes, [HeartbeatNext]_heartbeatVars
               PROVE  HeartbeatTypes'
    OBVIOUS
  <1> USE HeartbeatAssumption
      DEF HeartbeatTypes, HeartbeatTypeOK, Steams, Roots, hostColumns,
          machineState, rebootState, heartbeatHistory
  <1>1. CASE SetSteam BY <1>1 DEF SetSteam
  <1>2. CASE SetRoot BY <1>2 DEF SetRoot
  <1>3. CASE RequestReboot BY <1>3 DEF RequestReboot
  <1>4. CASE ReportRoot BY <1>4 DEF ReportRoot
  <1>5. CASE StartAgent BY <1>5 DEF StartAgent
  <1>6. ASSUME NEW b \in BeatSlots, BeatRead(b) PROVE HeartbeatTypes'
    BY <1>6 DEF BeatRead
  <1>7. ASSUME NEW b \in BeatSlots, NEW ok \in BOOLEAN, BeatCommit(b, ok)
        PROVE  HeartbeatTypes'
    <2> DEFINE a == [reboot |-> beat[b].reboot,
                     steam |-> IF ok THEN steamPending ELSE 0,
                     root |-> IF ok THEN rootPending ELSE 0]
    <2>1. a \in Answers /\ a.steam \in Steams
      BY DEF Answers
    <2>2. /\ steamPending' = 0
          /\ rootPending' = IF ok THEN 0 ELSE rootPending
          /\ rootStored' = IF ok /\ rootPending # 0 THEN rootPending
                           ELSE rootStored
          /\ answers' = IF beat[b].at = "read" THEN Append(answers, a)
                        ELSE answers
          /\ steamSent' = steamSent \cup ({a.steam} \ {0})
          /\ mishap' \in BOOLEAN /\ beat' = [beat EXCEPT ![b] = NoBeat]
          /\ UNCHANGED <<rebootFlag, steamEnv, rootOnHost, agentUp,
                         agentRestarts, rebootState, secretsSet,
                         rebootAsked, rebootLost>>
      BY <1>7 DEF BeatCommit
    <2> HIDE DEF a
    <2>3. NoBeat \in [at : {"idle", "read", "orphan"}, reboot : BOOLEAN]
      BY DEF NoBeat
    <2>4. beat' \in [BeatSlots -> [at : {"idle", "read", "orphan"},
                                   reboot : BOOLEAN]]
      BY <2>2, <2>3
    <2>5. answers' \in Seq(Answers)
      BY <2>1, <2>2
    <2>6. /\ steamPending' \in Steams /\ rootPending' \in Roots
          /\ rootStored' \in Roots
      BY <2>2
    <2>7. steamSent' \subseteq Steams
      BY <2>1, <2>2
    <2> QED BY <2>2, <2>4, <2>5, <2>6, <2>7
  <1>8. ASSUME NEW ok \in BOOLEAN, ApplyAnswer(ok) PROVE HeartbeatTypes'
    <2>1. Head(answers) \in Answers /\ Tail(answers) \in Seq(Answers)
      BY <1>8 DEF ApplyAnswer
    <2>2. Head(answers).steam \in Steams /\ Head(answers).root \in Roots
      BY <2>1 DEF Answers
    <2>3. acking' \in 0..MaxAcking /\ acking' + acked <= MaxAcking
      BY <1>8 DEF ApplyAnswer, MaxAcking
    <2> QED BY <1>8, <2>1, <2>2, <2>3 DEF ApplyAnswer
  <1>9. CASE AckServed \/ AckFails \/ LateAckServed
                \/ \E ok \in BOOLEAN : AckReturns(ok)
    <2>1. /\ acking' \in 0..MaxAcking /\ acked' \in 0..MaxAcking
          /\ lateAcks' \in 0..MaxAcking /\ acking' + acked' <= MaxAcking
      <3>1. CASE AckServed \/ AckFails
        BY <1>9, <3>1 DEF AckServed, AckFails, MaxAcking
      <3>2. CASE LateAckServed \/ \E ok \in BOOLEAN : AckReturns(ok)
        BY <1>9, <3>2 DEF LateAckServed, AckReturns, MaxAcking
      <3> QED BY <1>9, <3>1, <3>2
    <2>2. shutdown' \in BOOLEAN /\ rebootFlag' \in BOOLEAN /\ rebootLost' \in BOOLEAN
      BY <1>9 DEF AckServed, AckFails, LateAckServed, AckReturns
    <2>3. UNCHANGED <<steamPending, rootPending, rootStored, beat, answers,
                      steamEnv, rootOnHost, agentUp, agentRestarts,
                      secretsSet, steamSent, rebootAsked, mishap>>
      BY <1>9 DEF AckServed, AckFails, LateAckServed, AckReturns
    <2> QED BY <2>1, <2>2, <2>3
  <1>11. ASSUME LoseAnswers
         PROVE  /\ answers' \in Seq(Answers) /\ acking' \in 0..MaxAcking
                /\ acked' \in 0..MaxAcking /\ lateAcks' \in 0..MaxAcking
                /\ acking' + acked' <= MaxAcking
                /\ beat' \in [BeatSlots -> [at : {"idle", "read", "orphan"},
                                            reboot : BOOLEAN]]
                /\ mishap' \in BOOLEAN
    <2>1. /\ answers' = <<>> /\ acking' = 0 /\ acked' = 0
          /\ mishap' \in BOOLEAN /\ lateAcks' \in 0..MaxAcking
      BY <1>11 DEF LoseAnswers
    <2>2. ASSUME NEW b \in BeatSlots
          PROVE  (IF beat[b] = NoBeat THEN NoBeat
                  ELSE [beat[b] EXCEPT !.at = "orphan"])
                    \in [at : {"idle", "read", "orphan"}, reboot : BOOLEAN]
      BY DEF NoBeat
    <2>3. beat' \in [BeatSlots -> [at : {"idle", "read", "orphan"},
                                   reboot : BOOLEAN]]
      BY <1>11, <2>2 DEF LoseAnswers
    <2> QED BY <2>1, <2>3 DEF MaxAcking
  <1>12. CASE MachineReboots BY <1>11, <1>12 DEF MachineReboots
  <1>13. CASE AgentRestarts BY <1>11, <1>13 DEF AgentRestarts
  <1>14. CASE UNCHANGED heartbeatVars BY <1>14 DEF heartbeatVars
  <1> QED BY <1>1, <1>2, <1>3, <1>4, <1>5, <1>6, <1>7, <1>8, <1>9,
             <1>12, <1>13, <1>14 DEF HeartbeatNext

(* The limits on shells, opens and connections are kept.                   *)
TerminalSorts ==
    /\ tab \in [Tabs -> TabStages]
    /\ tabOpen \subseteq Tabs /\ heard \subseteq Tabs /\ deaf \subseteq Tabs
    /\ relay \subseteq Tabs /\ audit \in [Tabs -> AuditStages]
    /\ opens \in 0..MaxOpens /\ shell \in [Tabs -> {"none", "quiet", "busy"}]
    /\ agentSocket \in 0..MaxLinks /\ agentLink \in 0..MaxLinks
    /\ links \in 0..MaxLinks
    /\ controls \in Seq([action : {"open", "close"}, session : Tabs])

(* A shell more is opened when there are fewer than the limit.             *)
LEMMA ShellsAreLimited ==
    ASSUME TerminalTypeOK, [TerminalNext]_terminalVars
    PROVE  Cardinality(Shells') <= MaxSessions
  <1> USE TerminalAssumption
  <1>1. /\ Shells \subseteq Tabs /\ IsFiniteSet(Shells)
        /\ Cardinality(Shells) \in Nat /\ Cardinality(Shells) <= MaxSessions
    <2>1. Shells \subseteq Tabs BY DEF Shells
    <2> QED BY <2>1, FS_Subset, FS_CardinalityType DEF TerminalTypeOK
  <1>2. ASSUME Shells' \subseteq Shells PROVE Cardinality(Shells') <= MaxSessions
    <2>1. Cardinality(Shells') \in Nat /\ Cardinality(Shells') <= Cardinality(Shells)
      BY <1>1, <1>2, FS_Subset, FS_CardinalityType
    <2> QED BY <1>1, <2>1
  <1>3. ASSUME NEW t \in Tabs, NEW starts \in BOOLEAN, OpenShell(t, starts)
        PROVE  Cardinality(Shells') <= MaxSessions
    <2>1. CASE starts /\ Cardinality(Shells) < MaxSessions
      <3>1. Shells' = Shells \cup {t}
        BY <1>3, <2>1 DEF OpenShell, Shells, TerminalTypeOK
      <3>2. \/ Cardinality(Shells') = Cardinality(Shells)
            \/ Cardinality(Shells') = Cardinality(Shells) + 1
        BY <1>1, <3>1, FS_AddElement
      <3> QED BY <1>1, <2>1, <3>2
    <2>2. CASE ~(starts /\ Cardinality(Shells) < MaxSessions)
      BY <1>2, <1>3, <2>2 DEF OpenShell, Shells
    <2> QED BY <2>1, <2>2
  <1>4. ASSUME shell' = shell PROVE Shells' \subseteq Shells
    BY <1>4 DEF Shells
  <1>5. ASSUME NEW t \in Tabs,
               CloseShell(t) \/ ShellWorks(t) \/ ShellExits(t) \/ IdleTimeout(t)
        PROVE  Shells' \subseteq Shells
    BY <1>5 DEF Shells, CloseShell, ShellWorks, ShellExits, IdleTimeout,
                TerminalTypeOK
  <1>6. ASSUME NEW t \in Tabs,
               \/ OpenTab(t) \/ CloseTab(t) \/ Admit(t) \/ AuditFails(t)
               \/ Register(t) \/ AgentOffline(t) \/ RowEnds(t) \/ RowStays(t)
               \/ HearClose(t)
        PROVE  shell' = shell
    BY <1>6 DEF OpenTab, CloseTab, Admit, AuditFails, Register, AgentOffline,
                RowEnds, RowStays, HearClose
  <1>7. ASSUME \/ HourPasses \/ AgentConnects \/ LinkDrops \/ HearDrop
               \/ ServerRestarts \/ UNCHANGED terminalVars
        PROVE  shell' = shell
    BY <1>7 DEF HourPasses, AgentConnects, LinkDrops, HearDrop, ServerRestarts,
                terminalVars
  <1>8. CASE AgentEnds
    <2>1. Shells' \subseteq Shells BY <1>8 DEF AgentEnds, Shells
    <2> QED BY <1>2, <2>1
  <1> QED
    BY <1>2, <1>3, <1>4, <1>5, <1>6, <1>7, <1>8 DEF TerminalNext

LEMMA TerminalTypesContinue ==
    TerminalTypeOK /\ [TerminalNext]_terminalVars => TerminalTypeOK'
  <1> SUFFICES ASSUME TerminalTypeOK, [TerminalNext]_terminalVars
               PROVE  TerminalSorts'
    BY ShellsAreLimited DEF TerminalTypeOK, TerminalSorts, TabStages, AuditStages
  <1>0. TerminalSorts
    BY DEF TerminalTypeOK, TerminalSorts, TabStages, AuditStages
  <1> DEFINE Messages == [action : {"open", "close"}, session : Tabs]
  <1> USE <1>0, TerminalAssumption DEF TerminalSorts, tabVars, linkVars
  <1>1. ASSUME NEW t \in Tabs, NEW act \in {"open", "close"}, Send(act, t)
        PROVE  controls' \in Seq(Messages)
    <2> PICK m : m = [action |-> act, session |-> t]
      OBVIOUS
    <2>1. m \in Messages
      OBVIOUS
    <2>2. controls' = controls \/ controls' = Append(controls, m)
      BY <1>1 DEF Send
    <2>3. controls \in Seq(Messages)
      OBVIOUS
    <2> HIDE DEF Messages
    <2> QED BY <2>1, <2>2, <2>3
  <1>2. ASSUME NEW t \in Tabs,
               \/ OpenTab(t) \/ CloseTab(t) \/ AuditFails(t) \/ AgentOffline(t)
               \/ RowEnds(t) \/ RowStays(t)
        PROVE  TerminalSorts'
    BY <1>2 DEF OpenTab, CloseTab, AuditFails, AgentOffline, RowEnds, RowStays,
                TabStages, AuditStages
  <1>3. ASSUME NEW t \in Tabs, Admit(t) PROVE TerminalSorts'
    <2>1. opens' = opens \/ (opens < MaxOpens /\ opens' = opens + 1)
      BY <1>3 DEF Admit, AllowOpen
    <2>2. /\ tab' \in [Tabs -> TabStages]
          /\ tabOpen' \subseteq Tabs /\ heard' \subseteq Tabs
      BY <1>3 DEF Admit, TabStages
    <2>3. UNCHANGED <<deaf, relay, audit, shell, linkVars, controls>>
      BY <1>3 DEF Admit
    <2> QED BY <2>1, <2>2, <2>3
  <1>4. ASSUME NEW t \in Tabs, Register(t) PROVE TerminalSorts'
    <2>1. controls' \in Seq(Messages)
      BY <1>1, <1>4 DEF Register
    <2> QED BY <1>4, <2>1 DEF Register, TabStages, AuditStages
  <1>5. ASSUME NEW t \in Tabs, HearClose(t) PROVE TerminalSorts'
    <2>1. controls' \in Seq(Messages)
      BY <1>1, <1>5 DEF HearClose
    <2> QED BY <1>5, <2>1 DEF HearClose, EndRow, TabStages, AuditStages
  <1>6. ASSUME NEW t \in Tabs,
               (\E starts \in BOOLEAN : OpenShell(t, starts)) \/ CloseShell(t)
        PROVE  TerminalSorts'
    <2>1. controls' \in Seq(Messages)
      <3>1. controls # <<>> /\ controls' = Tail(controls)
        BY <1>6 DEF OpenShell, CloseShell
      <3> QED BY <3>1
    <2>2. shell' \in [Tabs -> {"none", "quiet", "busy"}]
      BY <1>6 DEF OpenShell, CloseShell
    <2>3. UNCHANGED <<tabVars, linkVars>>
      BY <1>6 DEF OpenShell, CloseShell
    <2> QED BY <2>1, <2>2, <2>3
  <1>7. ASSUME NEW t \in Tabs,
               ShellWorks(t) \/ ShellExits(t) \/ IdleTimeout(t)
        PROVE  TerminalSorts'
    BY <1>7 DEF ShellWorks, ShellExits, IdleTimeout
  <1>8. CASE HourPasses \/ AgentConnects
    BY <1>8 DEF HourPasses, AgentConnects
  <1>9. CASE LinkDrops \/ AgentEnds \/ HearDrop
    <2>1. CASE LinkDrops BY <2>1 DEF LinkDrops
    <2>2. CASE AgentEnds BY <2>2 DEF AgentEnds
    <2>3. CASE HearDrop
      <3>1. audit' \in [Tabs -> AuditStages]
        BY <2>3 DEF HearDrop, AuditStages
      <3> QED BY <2>3, <3>1 DEF HearDrop
    <2> QED BY <1>9, <2>1, <2>2, <2>3
  <1>10. CASE UNCHANGED terminalVars BY <1>10 DEF terminalVars
  <1>11. CASE ServerRestarts
    <2>1. tab' \in [Tabs -> TabStages] /\ audit' \in [Tabs -> AuditStages]
      BY <1>11 DEF ServerRestarts, TabStages, AuditStages
    <2> QED BY <1>11, <2>1 DEF ServerRestarts
  <1> QED BY <1>2, <1>3, <1>4, <1>5, <1>6, <1>7, <1>8, <1>9, <1>10, <1>11
          DEF TerminalNext

(* An update ends with the process that runs it.                           *)
UpdateTypes ==
    /\ UpdateTypeOK
    /\ agent = Gone => \A u \in Updates : update[u] = NoUpdate

LEMMA UpdateTypesContinue == UpdateTypes /\ [UpdateNext]_updateVars => UpdateTypes'
  <1> SUFFICES ASSUME UpdateTypes, [UpdateNext]_updateVars PROVE UpdateTypes'
    OBVIOUS
  <1> DEFINE Running == [ver : Versions, expect : {0} \cup Versions,
                         previous : {0} \cup Versions,
                         at : {"run", "check", "restore", "respawn"}]
             Underway == [at : {"wanted", "loaded", "saved", "installed"},
                          want : Versions]
  <1> USE UpdateAssumption DEF UpdateTypes, UpdateTypeOK
  <1>1. /\ Gone.at = "gone" /\ NoUpdate.at = "none" /\ NoUpdate.want = 0
        /\ \A r \in Running : r.at # "gone" /\ r # Gone
        /\ \A r \in Underway : r.at # "none" /\ r # NoUpdate
    BY DEF Gone, Process, NoUpdate
  <1>2. ASSUME NEW v \in Versions, NEW e \in {0} \cup Versions,
               NEW q \in {0} \cup Versions,
               NEW at \in {"run", "check", "restore", "respawn"}
        PROVE  Process(v, e, q, at) \in Running /\ Process(v, e, q, at).at = at
    BY DEF Process
  <1> HIDE DEF Running, Underway
  <1>3. \A u \in Updates : update[u] = NoUpdate \/ update[u] \in Underway
    BY DEF Underway
  <1>4. CASE Publish BY <1>4 DEF Publish, Versions
  <1>5. ASSUME NEW u \in Updates, Begin(u) PROVE UpdateTypes'
    <2> DEFINE r == [at |-> "wanted", want |-> published]
    <2>1. r \in Underway /\ r.at = "wanted"
      BY DEF Underway
    <2> HIDE DEF r
    <2>2. /\ update' = [update EXCEPT ![u] = r] /\ agent # Gone
          /\ UNCHANGED <<published, bundle, backup, agent, wsEnabled, deaths,
                         left>>
          /\ crossed' \in BOOLEAN
      BY <1>5 DEF Begin, Alive, r
    <2> QED BY <2>1, <2>2 DEF Underway
  <1>6. ASSUME NEW u \in Updates, NEW step \in {"loaded", "saved", "installed"},
               update[u].at # "none"
        PROVE  /\ [update[u] EXCEPT !.at = step] \in Underway
               /\ [update[u] EXCEPT !.at = step].at = step
               /\ update[u].want \in Versions /\ agent # Gone
               /\ agent \in Running
    <2>1. update[u] \in Underway /\ agent # Gone
      BY <1>1, <1>3, <1>6
    <2>2. agent \in Running
      BY <2>1 DEF Running
    <2> QED BY <2>1, <2>2 DEF Underway
  <1>7. ASSUME NEW u \in Updates, NEW ok \in BOOLEAN, Download(u, ok)
        PROVE  UpdateTypes'
    <2>1. PICK r \in {NoUpdate} \cup Underway :
             /\ update' = [update EXCEPT ![u] = r]
             /\ r.at \in {"none", "loaded"}
      BY <1>1, <1>6, <1>7 DEF Download
    <2>2. agent # Gone /\ UNCHANGED <<published, bundle, backup, agent, wsEnabled,
                                     deaths, crossed, left>>
      BY <1>6, <1>7 DEF Download
    <2> QED BY <2>1, <2>2 DEF Underway
  <1>8. ASSUME NEW u \in Updates, NEW ok \in BOOLEAN, Save(u, ok)
        PROVE  UpdateTypes'
    <2>1. PICK r \in {NoUpdate} \cup Underway : update' = [update EXCEPT ![u] = r]
      BY <1>6, <1>8 DEF Save
    <2>2. /\ agent # Gone /\ backup' \in {0} \cup Versions
          /\ UNCHANGED <<published, bundle, agent, wsEnabled, deaths, crossed,
                         left>>
      BY <1>6, <1>8 DEF Save, Copied
    <2> QED BY <2>1, <2>2 DEF Underway
  <1>9. ASSUME NEW u \in Updates, NEW ok \in BOOLEAN, Install(u, ok)
        PROVE  UpdateTypes'
    <2>0. update[u].at # "none"
      BY <1>9 DEF Install
    <2>1. PICK r \in {NoUpdate} \cup Underway : update' = [update EXCEPT ![u] = r]
      BY <1>6, <1>9, <2>0 DEF Install
    <2>2. agent # Gone /\ update[u].want \in Versions
      BY <1>6, <2>0
    <2>3. bundle' \in {0} \cup Versions
      BY <1>9, <2>2 DEF Install, Copied
    <2>4. UNCHANGED <<published, backup, agent, wsEnabled, deaths, crossed, left>>
      BY <1>9 DEF Install
    <2> QED BY <2>1, <2>2, <2>3, <2>4 DEF Underway
  <1>10. ASSUME NEW process \in {Gone} \cup Running, Replace(process),
                UNCHANGED <<published, wsEnabled, crossed, left>>,
                bundle' \in {0} \cup Versions, backup' \in {0} \cup Versions,
                deaths' \in 0..MaxDeaths
         PROVE  UpdateTypes'
    <2>1. agent' = process /\ update' = [u \in Updates |-> NoUpdate]
      BY <1>10 DEF Replace
    <2> QED BY <1>1, <1>10, <2>1 DEF Running
  <1>11. ASSUME NEW u \in Updates,
                Restart(u) \/ RestartFails(u) \/ RestartThrows(u)
         PROVE  UpdateTypes'
    <2>0. update[u].at = "installed"
      BY <1>11 DEF Restart, RestartFails, RestartThrows
    <2>1. agent \in Running /\ agent # Gone /\ update[u].want \in Versions
      BY <1>6, <2>0
    <2>2. CASE Restart(u)
      <3> DEFINE p == Started(Process(bundle, update[u].want, agent.ver, "check"))
      <3>1. agent.ver \in Versions
        BY <2>1 DEF Running
      <3>2. bundle # 0 => Process(bundle, update[u].want, agent.ver, "check")
                             \in Running
        BY <1>2, <2>1, <3>1
      <3>3. p \in {Gone} \cup Running
        BY <3>2 DEF Started
      <3>4. /\ Replace(p)
            /\ UNCHANGED <<published, bundle, backup, wsEnabled, deaths, crossed,
                           left>>
        BY <2>2 DEF Restart
      <3> HIDE DEF p
      <3> QED BY <1>10, <3>3, <3>4
    <2>3. CASE RestartFails(u)
      BY <1>10, <2>3 DEF RestartFails, Copied
    <2>4. CASE RestartThrows(u)
      <3>1. /\ left' = bundle /\ update' = [update EXCEPT ![u] = NoUpdate]
            /\ UNCHANGED <<published, bundle, backup, agent, wsEnabled, deaths,
                           crossed>>
        BY <2>4 DEF RestartThrows
      <3> QED BY <1>1, <2>1, <3>1
    <2> QED BY <1>11, <2>2, <2>3, <2>4
  <1>12. ASSUME NEW at \in {"run", "restore", "respawn"}, agent.at # "gone"
         PROVE  /\ [agent EXCEPT !.at = at] \in Running
                /\ [agent EXCEPT !.at = at].at = at
                /\ [agent EXCEPT !.at = at] # Gone
    <2>1. agent \in Running
      BY <1>1, <1>12 DEF Running
    <2>2. /\ [agent EXCEPT !.at = at] \in Running
          /\ [agent EXCEPT !.at = at].at = at
      BY <2>1 DEF Running
    <2> QED BY <1>1, <2>2
  <1>13. CASE CheckPasses \/ CheckFails
    <2>1. PICK r \in Running :
             /\ agent' = r /\ r # Gone /\ r.at \in {"run", "restore"}
      BY <1>12, <1>13 DEF CheckPasses, CheckFails
    <2>2. UNCHANGED <<published, bundle, backup, update, wsEnabled, deaths,
                      crossed, left>>
      BY <1>13 DEF CheckPasses, CheckFails
    <2> QED BY <2>1, <2>2 DEF Running
  <1>14. ASSUME NEW ok \in BOOLEAN, Restore(ok) PROVE UpdateTypes'
    <2>1. /\ agent.at = "restore" /\ bundle' \in {0} \cup Versions
          /\ UNCHANGED <<published, backup, wsEnabled, deaths, crossed, left>>
      BY <1>14 DEF Restore, Copied
    <2>2. CASE ok /\ backup # 0
      <3>1. PICK r \in Running :
               /\ agent' = r /\ r # Gone /\ r.at = "respawn"
        BY <1>12, <1>14, <2>1, <2>2 DEF Restore
      <3>2. update' = update
        BY <1>14, <2>2 DEF Restore
      <3> QED BY <2>1, <3>1, <3>2 DEF Running
    <2>3. CASE ~(ok /\ backup # 0)
      BY <1>10, <1>14, <2>1, <2>3 DEF Restore
    <2> QED BY <2>2, <2>3
  <1>15. ASSUME NEW ok \in BOOLEAN, Respawn(ok) PROVE UpdateTypes'
    <2> DEFINE p == IF ok THEN Started(Process(bundle, 0, 0, "run")) ELSE Gone
    <2>1. bundle # 0 => Process(bundle, 0, 0, "run") \in Running
      BY <1>2
    <2>2. p \in {Gone} \cup Running
      BY <2>1 DEF Started
    <2>3. /\ Replace(p)
          /\ UNCHANGED <<published, bundle, backup, wsEnabled, deaths, crossed,
                         left>>
      BY <1>15 DEF Respawn
    <2> HIDE DEF p
    <2> QED BY <1>10, <2>2, <2>3
  <1>16. CASE Die
    <2>1. bundle' \in {bundle, 0} /\ backup' \in {backup, 0}
      BY <1>16 DEF Die
    <2> QED BY <1>10, <1>16, <2>1 DEF Die
  <1>17. CASE StartByHand
    <2>1. bundle' \in Versions /\ agent' = Process(bundle', 0, 0, "run")
      BY <1>17 DEF StartByHand
    <2>2. agent' \in Running /\ agent'.at = "run"
      BY <1>2, <2>1
    <2>3. UNCHANGED <<published, backup, update, wsEnabled, deaths, crossed, left>>
      BY <1>17 DEF StartByHand
    <2> QED BY <1>1, <2>1, <2>2, <2>3 DEF Running
  <1>18. CASE UNCHANGED updateVars
    BY <1>18 DEF updateVars
  <1> QED BY <1>4, <1>5, <1>7, <1>8, <1>9, <1>11, <1>13, <1>14, <1>15, <1>16,
             <1>17, <1>18 DEF UpdateNext, UpdateStep, RollbackStep

(* The firewall: what is let in and forwarded is always some servers'.     *)
LEMMA FirewallTypesContinue ==
    FirewallTypeOK /\ [FirewallNext]_firewallVars => FirewallTypeOK'
  <1> SUFFICES ASSUME FirewallTypeOK, [FirewallNext]_firewallVars
               PROVE  FirewallTypeOK'
    OBVIOUS
  <1> USE FirewallAssumption DEF FirewallTypeOK, routerVars, Change
  <1>1. ASSUME NEW p \in Ports, NEW a \in BOOLEAN, NEW b \in BOOLEAN,
               Launch(p, a, b)
        PROVE  FirewallTypeOK'
    <2>1. /\ changes' \in 0..MaxChanges /\ listed' \subseteq Ports
          /\ UNCHANGED <<backend, table, record>>
      BY <1>1 DEF Launch
    <2>2. /\ allowed' \subseteq Ports /\ ruleFiles' \subseteq Ports
          /\ skipped' \in BOOLEAN
      BY <1>1 DEF Launch
    <2>3. forwards' \subseteq Ports /\ mapFiles' \subseteq Ports
      BY <1>1 DEF Launch
    <2> QED BY <2>1, <2>2, <2>3
  <1>2. ASSUME NEW p \in Ports, NEW a \in BOOLEAN, NEW b \in BOOLEAN,
               Stop(p, a, b)
        PROVE  FirewallTypeOK'
    <2>1. /\ changes' \in 0..MaxChanges /\ listed' \subseteq Ports
          /\ UNCHANGED <<backend, table, record>>
      BY <1>2 DEF Stop
    <2>2. /\ allowed' \subseteq Ports /\ ruleFiles' \subseteq Ports
          /\ skipped' \in BOOLEAN
      BY <1>2 DEF Stop
    <2>3. forwards' \subseteq Ports /\ mapFiles' \subseteq Ports
      BY <1>2 DEF Stop
    <2> QED BY <2>1, <2>2, <2>3
  <1>3. ASSUME NEW p \in Ports, LeaseEnds(p) PROVE FirewallTypeOK'
    BY <1>3 DEF LeaseEnds
  <1>4. ASSUME NEW fetched \in BOOLEAN, NEW works \in BOOLEAN,
               ReconcileNft(fetched, works)
        PROVE  FirewallTypeOK'
    BY <1>4 DEF ReconcileNft, Want
  <1>5. ASSUME NEW fetched \in BOOLEAN, NEW works \in BOOLEAN,
               ReconcileFirewalld(fetched, works)
        PROVE  FirewallTypeOK'
    BY <1>5 DEF ReconcileFirewalld, Want
  <1>6. CASE CreateTable \/ Flushed \/ TableGone
    BY <1>6 DEF CreateTable, Flushed, TableGone
  <1>7. CASE UNCHANGED firewallVars BY <1>7 DEF firewallVars
  <1> QED BY <1>1, <1>2, <1>3, <1>4, <1>5, <1>6, <1>7 DEF FirewallNext

(* The live page: it never shows a row that is gone.                       *)
LEMMA LiveTypesContinue == LiveTypeOK /\ [LiveNext]_liveVars => LiveTypeOK'
  <1> SUFFICES ASSUME LiveTypeOK, [LiveNext]_liveVars PROVE LiveTypeOK'
    OBVIOUS
  <1> USE LiveViewsAssumption DEF LiveTypeOK, Drop
  <1>1. Ticks \/ UNCHANGED ask
           => ask' \in [Asks -> RowStatuses \cup {"none", "sent"}]
    BY DEF Ticks
  <1>2. CASE RowChanges BY <1>2 DEF RowChanges
  <1>3. CASE HostTurns BY <1>3 DEF HostTurns
  <1>4. CASE PublishNews
    <2>1. Ticks \/ UNCHANGED ask
      BY <1>4 DEF PublishNews, Publishes
    <2>2. drops' \in 0..MaxDrops /\ news' = FALSE
      BY <1>4 DEF PublishNews
    <2>3. UNCHANGED <<view, row, rowChanges, online, sse, shown>>
      BY <1>4 DEF PublishNews
    <2> QED BY <1>1, <2>1, <2>2, <2>3
  <1>5. CASE HostBeats BY <1>1, <1>5 DEF HostBeats, Publishes
  <1>6. CASE StreamConnects \/ StreamDrops
    <2>1. drops' \in 0..MaxDrops
      BY <1>6 DEF StreamConnects, StreamDrops
    <2>2. sse' \in BOOLEAN
      BY <1>6 DEF StreamConnects, StreamDrops
    <2>3. UNCHANGED <<view, row, rowChanges, news, online, ask, shown>>
      BY <1>6 DEF StreamConnects, StreamDrops
    <2> QED BY <2>1, <2>2, <2>3
  <1>7. CASE Poll BY <1>1, <1>7 DEF Poll
  <1>8. ASSUME NEW a \in Asks, Serve(a) \/ AskFails(a) PROVE LiveTypeOK'
    BY <1>8 DEF Serve, AskFails
  <1>9. ASSUME NEW a \in Asks, Apply(a) PROVE LiveTypeOK'
    BY <1>9 DEF Apply, Keeps, Leaves, Views
  <1>10. CASE UNCHANGED liveVars BY <1>10 DEF liveVars
  <1> QED BY <1>2, <1>3, <1>4, <1>5, <1>6, <1>7, <1>8, <1>9, <1>10
          DEF LiveNext

DeliveryTypes ==
    /\ HeartbeatTypes /\ TerminalTypeOK /\ UpdateTypes /\ PresenceInv
    /\ FirewallTypeOK /\ LiveTypeOK

LEMMA DeliveryTypesBegin == DeliveryInit => DeliveryTypes
  <1> SUFFICES ASSUME DeliveryInit PROVE DeliveryTypes
    OBVIOUS
  <1>1. HeartbeatTypes
    <2>1. /\ 0 \in Steams /\ 0 \in Roots /\ 1 \in Roots /\ 0 \in 0..MaxAcking
          /\ 0 \in 0..MaxAgentRestarts
          /\ NoBeat \in [at : {"idle", "read", "orphan"}, reboot : BOOLEAN]
      BY HeartbeatAssumption DEF Steams, Roots, MaxAcking, NoBeat
    <2>2. /\ beat = [b \in BeatSlots |-> NoBeat] /\ answers = <<>>
          /\ steamPending = 0 /\ rootPending = 0 /\ rootStored = 0
          /\ rebootFlag = FALSE /\ steamEnv = 0 /\ rootOnHost = 1
          /\ agentUp = FALSE /\ agentRestarts = 0 /\ acking = 0
          /\ shutdown = FALSE /\ secretsSet = <<0, 1>> /\ steamSent = {}
          /\ acked = 0 /\ lateAcks = 0 /\ rebootLost = FALSE
          /\ rebootAsked = FALSE /\ mishap = FALSE
      BY DEF DeliveryInit, HeartbeatInit
    <2>3. beat \in [BeatSlots -> [at : {"idle", "read", "orphan"},
                                  reboot : BOOLEAN]]
      BY <2>1, <2>2
    <2>4. secretsSet \in Steams \X Roots /\ answers \in Seq(Answers)
      BY <2>1, <2>2
    <2>5. {acking, acked, lateAcks} \subseteq 0..MaxAcking
      BY <2>1, <2>2
    <2>6. acking + acked <= MaxAcking
      BY <2>2 DEF MaxAcking
    <2>7. {rebootAsked, rebootLost, mishap} \subseteq BOOLEAN
      BY <2>2
    <2>8. HeartbeatTypeOK
      BY <2>1, <2>2, <2>3, <2>4, <2>5, <2>7 DEF HeartbeatTypeOK
    <2> QED BY <2>6, <2>8 DEF HeartbeatTypes
  <1>2. TerminalTypeOK
    <2>1. TerminalInit
      BY DEF DeliveryInit
    <2>2. Shells = {}
      BY <2>1 DEF TerminalInit, Shells
    <2>3. Cardinality(Shells) <= MaxSessions
      BY <2>2, FS_EmptySet, TerminalAssumption
    <2> QED BY <2>1, <2>3, TerminalAssumption DEF TerminalInit, TerminalTypeOK
  <1>3. UpdateTypes
    <2>1. /\ published = 1 /\ bundle = 1 /\ backup = 0 /\ deaths = 0
          /\ agent = Process(1, 0, 0, "run") /\ crossed = FALSE
          /\ left = 0 /\ wsEnabled \in BOOLEAN /\ update = [u \in Updates |-> NoUpdate]
      BY DEF DeliveryInit, UpdateInit
    <2>2. 1 \in Versions /\ 0 \in 0..MaxDeaths
      BY UpdateAssumption DEF Versions
    <2>3. /\ agent.at = "run"
          /\ agent \in [ver : Versions, expect : {0} \cup Versions,
                        previous : {0} \cup Versions,
                        at : {"run", "check", "restore", "respawn"}]
      BY <2>1, <2>2 DEF Process
    <2>4. NoUpdate.at = "none"
      BY DEF NoUpdate
    <2>5. UpdateTypeOK
      BY <2>1, <2>2, <2>3 DEF UpdateTypeOK
    <2> QED BY <2>1, <2>3, <2>4, <2>5 DEF UpdateTypes
  <1>4. PresenceInv
    BY PresenceAssumption
    DEF DeliveryInit, PresenceInit, PresenceInv, PresenceTypeOK, NotStale,
        OneNoticePerOutage, Events
  <1>5. FirewallTypeOK
    <2>1. 0 \in 0..MaxChanges
      BY FirewallAssumption
    <2>2. allowed \subseteq Ports
      BY DEF DeliveryInit, FirewallInit
    <2> QED BY <2>1, <2>2 DEF DeliveryInit, FirewallInit, FirewallTypeOK
  <1>6. LiveTypeOK
    <2>1. LiveInit
      BY DEF DeliveryInit
    <2>2. 0 \in 0..MaxRowChanges /\ 0 \in 0..MaxDrops
      BY LiveViewsAssumption
    <2>3. /\ row \in RowStatuses /\ shown \in RowStatuses \ {"gone"}
          /\ ask \in [Asks -> RowStatuses \cup {"none", "sent"}]
      BY <2>1 DEF LiveInit
    <2> QED BY <2>1, <2>2, <2>3 DEF LiveInit, LiveTypeOK
  <1> QED BY <1>1, <1>2, <1>3, <1>4, <1>5, <1>6 DEF DeliveryTypes

(* Every variable of the six modules keeps its type and its bounds: in     *)
(* particular the agent never has more shells than its terminal manager    *)
(* allows, nor a host more opens in an hour than the relay allows, and no  *)
(* page shows a row that is gone.                                          *)
THEOREM DeliveryTypesHold == DeliverySpec => []DeliveryTypeOK
  <1>1. DeliveryTypes /\ [DeliveryNext]_deliveryVars => DeliveryTypes'
    <2> SUFFICES ASSUME DeliveryTypes, [DeliveryNext]_deliveryVars
                 PROVE  DeliveryTypes'
      OBVIOUS
    <2>1. /\ [HeartbeatNext]_heartbeatVars /\ [TerminalNext]_terminalVars
          /\ [UpdateNext]_updateVars /\ [PresenceNext]_presenceVars
          /\ [FirewallNext]_firewallVars /\ [LiveNext]_liveVars
      BY DEF DeliveryNext, deliveryVars
    <2> QED BY <2>1, HeartbeatTypesContinue, TerminalTypesContinue,
               UpdateTypesContinue, PresenceContinues, FirewallTypesContinue,
               LiveTypesContinue DEF DeliveryTypes
  <1>2. DeliveryTypes => DeliveryTypeOK
    BY DEF DeliveryTypes, DeliveryTypeOK, HeartbeatTypes, UpdateTypes,
           PresenceInv
  <1> QED BY DeliveryTypesBegin, <1>1, <1>2, PTL DEF DeliverySpec
=============================================================================
