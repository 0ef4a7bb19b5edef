----------------------- MODULE ServicesTypes_proofs ------------------------
(***************************************************************************)
(* The type invariant that MCServices checks, for every value of the       *)
(* constants of the twelve services.  Where a value passes through a       *)
(* variable that may be empty, or a bound rests on where a process is, the *)
(* invariant of the service says so; the invariants that the other modules *)
(* of proofs establish give the rest.                                      *)
(***************************************************************************)
EXTENDS MCServices, Backups_proofs, Services_proofs, HostEnrollment_proofs,
        InstallLog_proofs

-----------------------------------------------------------------------------
(***************************************************************************)
(* SteamCMD runs once in an installation, and once more after the retry    *)
(* (steamCmdRetried), so never three times.                                *)
(***************************************************************************)
RunsCounted ==
    /\ at["agent"] \in Setting \cup {"plan"} => runs = 0 /\ ~retried
    /\ at["agent"] \in {"steam", "exited"} => runs <= IF retried THEN 2 ELSE 1

SteamTypes == SteamTypeOK /\ started \in [Procs -> Nat] /\ RunsCounted

LEMMA SteamTypesContinue == SteamTypes /\ [SteamNext]_steamVars => SteamTypes'
  <1> SUFFICES ASSUME SteamTypes, [SteamNext]_steamVars PROVE SteamTypes'
    OBVIOUS
  <1> DEFINE SetupSteps == Setting \cup {"idle", "plan", "steam", "exited"}
  <1>0. /\ marker \in BOOLEAN /\ loader \in BOOLEAN
        /\ tree \in {"none", "partial", "whole"}
        /\ archive \in {"none", "partial", "whole"}
        /\ at \in [Procs -> SetupSteps]
        /\ touched \subseteq Procs /\ spoiled \subseteq Procs
        /\ creds \in BOOLEAN /\ retried \in BOOLEAN /\ healed \in BOOLEAN
        /\ alone \in BOOLEAN /\ runs \in 0..2
        /\ outcome \in {"none", "installing", "running", "failed"}
        /\ started \in [Procs -> Nat] /\ started["agent"] <= MaxProvisions
        /\ started["login"] <= MaxLogins /\ steamFaults \in 0..MaxSteamFaults
        /\ RunsCounted
    BY SteamSetupAssumption DEF SteamTypes, SteamTypeOK, Procs
  <1>T. ASSUME marker' \in BOOLEAN, loader' \in BOOLEAN,
               tree' \in {"none", "partial", "whole"},
               archive' \in {"none", "partial", "whole"},
               at' \in [Procs -> SetupSteps],
               touched' \subseteq Procs, spoiled' \subseteq Procs,
               creds' \in BOOLEAN, retried' \in BOOLEAN, healed' \in BOOLEAN,
               alone' \in BOOLEAN, runs' \in 0..2,
               outcome' \in {"none", "installing", "running", "failed"},
               started' \in [Procs -> Nat], started'["agent"] <= MaxProvisions,
               started'["login"] <= MaxLogins, steamFaults' \in 0..MaxSteamFaults,
               RunsCounted'
        PROVE  SteamTypes'
    <2>1. started'["agent"] \in Nat /\ started'["login"] \in Nat
      BY <1>T DEF Procs
    <2> QED BY <1>T, <2>1, SteamSetupAssumption DEF SteamTypes, SteamTypeOK
  <1> USE SteamSetupAssumption DEF cache, unpacking, install
  <1>U. ASSUME UNCHANGED <<started, steamFaults>> PROVE
            /\ started' \in [Procs -> Nat] /\ started'["agent"] <= MaxProvisions
            /\ started'["login"] <= MaxLogins /\ steamFaults' \in 0..MaxSteamFaults
    BY <1>0, <1>U
  (* A process that goes to a step where nothing is counted.               *)
  <1>V. ASSUME NEW p \in Procs, NEW step \in SetupSteps, Goes(p, step),
               UNCHANGED <<runs, retried>>,
               p = "agent" => \/ step = "idle"
                              \/ at[p] \in Setting /\ step \in Setting \cup {"plan"}
                              \/ at[p] = "steam" /\ step = "exited"
        PROVE  at' \in [Procs -> SetupSteps] /\ RunsCounted'
    BY <1>0, <1>V DEF Goes, Procs, RunsCounted, Setting
  <1>W. Setting \subseteq SetupSteps /\ {"idle", "plan", "steam", "exited"} \subseteq SetupSteps
    OBVIOUS
  <1> HIDE DEF SetupSteps
  <1>1. CASE UNCHANGED steamVars
    BY <1>0, <1>1, <1>T DEF steamVars, RunsCounted
  <1>2. ASSUME NEW p \in Procs, Ensure(p) PROVE SteamTypes'
    <2>1. /\ started' \in [Procs -> Nat] /\ started'["agent"] <= MaxProvisions
          /\ started'["login"] <= MaxLogins
      BY <1>0, <1>2 DEF Ensure, Procs
    <2>2. at' \in [Procs -> SetupSteps] /\ RunsCounted'
      BY <1>0, <1>2 DEF Ensure, Goes, Procs, RunsCounted, Setting, SetupSteps
    <2>3. loader' \in BOOLEAN /\ alone' \in BOOLEAN
      BY <1>0, <1>2 DEF Ensure
    <2>4. retried' \in BOOLEAN
      BY <1>0, <1>2 DEF Ensure
    <2>6. runs' \in 0..2 /\ outcome' \in {"none", "installing", "running", "failed"}
      BY <1>0, <1>2 DEF Ensure
    <2>5. UNCHANGED <<marker, tree, archive, touched, spoiled, creds, healed, steamFaults>>
      BY <1>2 DEF Ensure
    <2> QED BY <1>0, <1>T, <2>1, <2>2, <2>3, <2>4, <2>5, <2>6
  <1>3. ASSUME NEW p \in Procs, CheckMarker(p) PROVE SteamTypes'
    BY <1>0, <1>3, <1>T, <1>U, <1>V, <1>W DEF CheckMarker, Throws, Setting
  <1>4. ASSUME NEW p \in Procs, OpenArchive(p) \/ WriteArchive(p) PROVE SteamTypes'
    BY <1>0, <1>4, <1>T, <1>U, <1>V, <1>W DEF OpenArchive, WriteArchive, Setting
  <1>5. ASSUME NEW p \in Procs, ExtractStarts(p) \/ ExtractEnds(p) PROVE SteamTypes'
    BY <1>0, <1>5, <1>T, <1>U, <1>V, <1>W DEF ExtractStarts, ExtractEnds, Setting
  <1>6. ASSUME NEW p \in Procs, ExtractFails(p) PROVE SteamTypes'
    BY <1>0, <1>6, <1>T, <1>U, <1>V, <1>W DEF ExtractFails, Throws, Setting
  <1>14. ASSUME NEW p \in Procs, Mark(p) PROVE SteamTypes'
    <2>1. marker' \in BOOLEAN BY <1>0, <1>14 DEF Mark
    <2>2. /\ at[p] = "mark" /\ (Goes(p, "loader") \/ Goes(p, "idle"))
          /\ outcome' \in {outcome, "failed"}
          /\ UNCHANGED <<tree, archive, loader, touched, spoiled, creds, runs, retried,
                         healed, alone, started, steamFaults>>
      BY <1>14 DEF Mark, Throws
    <2> QED BY <1>0, <1>T, <1>U, <1>V, <1>W, <2>1, <2>2 DEF Setting
  <1>7. ASSUME NEW p \in Procs, EnsureLoader(p) PROVE SteamTypes'
    <2>1. loader' \in BOOLEAN BY <1>0, <1>7 DEF EnsureLoader
    <2>2. /\ at[p] = "loader"
          /\ \/ Goes(p, IF p = "agent" THEN "plan" ELSE "steam") \/ Goes(p, "idle")
          /\ outcome' \in {outcome, "failed"}
          /\ UNCHANGED <<marker, tree, archive, touched, spoiled, creds, runs, retried,
                         healed, alone, started, steamFaults>>
      BY <1>7 DEF EnsureLoader, Throws
    <2> QED BY <1>0, <1>T, <1>U, <1>V, <1>W, <2>1, <2>2 DEF Setting
  <1>8. ASSUME NEW p \in Procs, CallFails(p) \/ Dies(p) PROVE SteamTypes'
    <2>1. creds' \in BOOLEAN /\ healed' \in BOOLEAN
      BY <1>0, <1>8 DEF CallFails, Dies
    <2>2. /\ Goes(p, "idle") /\ outcome' \in {outcome, "failed"}
          /\ steamFaults < MaxSteamFaults /\ steamFaults' = steamFaults + 1
          /\ spoiled' \subseteq spoiled \cup Procs
          /\ UNCHANGED <<marker, tree, archive, loader, touched, runs, retried, alone,
                         started>>
      BY <1>8 DEF CallFails, Dies, Throws, SteamFault
    <2> QED BY <1>0, <1>T, <1>V, <1>W, <2>1, <2>2
  <1>9. ASSUME NEW b \in BOOLEAN, Plan(b) PROVE SteamTypes'
    <2>1. at' \in [Procs -> SetupSteps] /\ runs' \in 0..2 /\ RunsCounted'
      BY <1>0, <1>9 DEF Plan, Throws, Goes, Procs, RunsCounted, Setting, SetupSteps
    <2> QED BY <1>0, <1>9, <1>T, <1>U, <2>1 DEF Plan, Throws
  <1>10. ASSUME NEW b \in BOOLEAN, Heal(b) PROVE SteamTypes'
    <2>1. at' \in [Procs -> SetupSteps] /\ runs' \in 0..2 /\ RunsCounted'
      BY <1>0, <1>10 DEF Heal, Throws, Goes, MayRetry, Procs, RunsCounted, Setting, SetupSteps
    <2> QED BY <1>0, <1>10, <1>T, <1>U, <2>1 DEF Heal, Throws
  <1>11. CASE SteamExits
    BY <1>0, <1>11, <1>T, <1>U, <1>V, <1>W DEF SteamExits, Procs
  <1>12. CASE LoginEnds
    BY <1>0, <1>12, <1>T, <1>U, <1>V, <1>W DEF LoginEnds, Procs
  <1>13. CASE CooldownPasses \/ CredentialsArrive
    <2>1. creds' \in BOOLEAN /\ healed' \in BOOLEAN
      BY <1>0, <1>13 DEF CooldownPasses, CredentialsArrive
    <2>2. UNCHANGED <<marker, tree, archive, loader, at, touched, spoiled, runs, retried,
                      outcome, alone, started, steamFaults>>
      BY <1>13 DEF CooldownPasses, CredentialsArrive
    <2> QED BY <1>0, <1>T, <2>1, <2>2 DEF RunsCounted
  <1> QED
    BY <1>1, <1>2, <1>3, <1>4, <1>5, <1>6, <1>7, <1>8, <1>9, <1>10, <1>11, <1>12,
       <1>13, <1>14
    DEF SteamNext

-----------------------------------------------------------------------------
(***************************************************************************)
(* Ports are never below those of the catalog, however often a probe has   *)
(* moved a server.                                                         *)
(***************************************************************************)
PortTypes == PortTypeOK /\ creating = [c \in Creators |-> creating[c]]

LEMMA FoundGamePort ==
    ASSUME NEW inUse, NEW start \in GamePorts, NEW stride \in Strides,
           NEW tries \in Nat
    PROVE  FirstFits(inUse, start, stride, tries) \in {0} \cup GamePorts
  <1> DEFINE fit == {k \in 0..(tries - 1) : Fits(inUse, start, stride, k)}
  <1>1. CASE fit = {}
    BY <1>1 DEF FirstFits
  <1>2. CASE fit # {}
    <2>1. fit \subseteq Nat
      OBVIOUS
    <2>2. PICK k : k = Min(fit)
      OBVIOUS
    <2>3. k \in Nat
      BY <1>2, <2>1, <2>2, MinIsSmallest
    <2>4. FirstFits(inUse, start, stride, tries) = start + k * stride
      BY <1>2, <2>2 DEF FirstFits
    <2>5. PICK least : least = Min(Bases)
      OBVIOUS
    <2>6. start \in Nat /\ start >= least /\ stride \in Nat
      BY <2>5, PortAssumption DEF GamePorts
    <2>7. k * stride \in Nat
      BY <2>3, <2>6
    <2>8. start + k * stride \in Nat /\ start + k * stride >= least
      <3> DEFINE n == k * stride
      <3>1. n \in Nat BY <2>7
      <3> HIDE DEF n
      <3>2. start + n \in Nat /\ start + n >= least
        <4>1. least \in Nat
          <5>1. Bases \subseteq Nat /\ Bases # {} BY PortAssumption
          <5> QED BY <2>5, <5>1, MinIsSmallest
        <4> QED BY <2>6, <3>1, <4>1
      <3> QED BY <3>2 DEF n
    <2> QED BY <2>4, <2>5, <2>8 DEF GamePorts
  <1> QED BY <1>1, <1>2

LEMMA BasesAreGamePorts == Bases \subseteq GamePorts
  <1> SUFFICES ASSUME NEW b \in Bases PROVE b \in GamePorts
    OBVIOUS
  <1>1. Bases \subseteq Nat /\ Bases # {}
    BY PortAssumption
  <1> QED BY <1>1, MinIsSmallest DEF GamePorts

LEMMA PortTypesContinue == PortTypes /\ [PortNext]_portVars => PortTypes'
  <1> SUFFICES ASSUME PortTypes, [PortNext]_portVars PROVE PortTypes'
    OBVIOUS
  <1> USE DEF PortTypes, PortTypeOK
  <1>1. CASE UNCHANGED portVars
    BY <1>1 DEF portVars
  <1>2. ASSUME NEW c \in Creators, ReadSiblings(c) PROVE PortTypes'
    BY <1>2 DEF ReadSiblings
  <1>3. ASSUME NEW c \in Creators, NEW s \in Instances, NEW base \in Bases,
               NEW stride \in Strides, InsertServer(c, s, base, stride)
        PROVE  PortTypes'
    <2>1. PICK p : p = FirstFits(creating[c].used, base, stride, Tries)
      OBVIOUS
    <2>2. p \in {0} \cup GamePorts
      BY <2>1, FoundGamePort, BasesAreGamePorts, PortAssumption
    <2> QED BY <1>3, <2>1, <2>2 DEF InsertServer, Idle
  <1>4. ASSUME NEW s \in Instances, RemoveServer(s) PROVE PortTypes'
    BY <1>4 DEF RemoveServer
  <1>5. ASSUME NEW s \in Instances, NEW stride \in Strides, LaunchServer(s, stride)
        PROVE  PortTypes'
    <2>1. PICK p : p = FirstFits(foreign \cup HeldPorts, ports[s], stride, Probes)
      OBVIOUS
    <2>2. ports[s] \in GamePorts
      BY <1>5 DEF LaunchServer
    <2>3. p \in {0} \cup GamePorts
      BY <2>1, <2>2, FoundGamePort, PortAssumption
    <2>4. PICK g : g = IF p = 0 THEN ports[s] ELSE p
      OBVIOUS
    <2>5. /\ given' = [given EXCEPT ![s] = g] /\ given[s] = 0
          /\ g \in GamePorts /\ given \in [Instances -> {0} \cup GamePorts]
      <3>1. given' = [given EXCEPT ![s] = g] /\ given[s] = 0
        BY <1>5, <2>1, <2>4 DEF LaunchServer
      <3>2. g \in GamePorts
        <4>1. p \in GamePorts \/ p = 0
          BY <2>3
        <4> HIDE DEF PortTypes, PortTypeOK
        <4> QED BY <2>2, <2>4, <4>1
      <3> QED BY <3>1, <3>2
    <2>6. moved' \in BOOLEAN /\ raced' \in BOOLEAN
      BY <1>5 DEF LaunchServer
    <2>7. starts' \in 0..MaxStarts
      BY <1>5, PortAssumption DEF LaunchServer
    <2>8. UNCHANGED <<ports, creating, bound, foreign>>
      BY <1>5 DEF LaunchServer
    <2>9. given' \in [Instances -> {0} \cup GamePorts]
      BY <2>5
    <2>10. bound' \subseteq {t \in Instances : given'[t] # 0}
      BY <2>5, <2>8
    <2> QED BY <2>6, <2>7, <2>8, <2>9, <2>10
  <1>6. ASSUME NEW s \in Instances, BindPorts(s) PROVE PortTypes'
    BY <1>6 DEF BindPorts
  <1>7. ASSUME NEW s \in Instances, ReportPorts(s) PROVE PortTypes'
    <2>1. given[s] \in GamePorts
      BY <1>7 DEF ReportPorts
    <2> QED BY <1>7, <2>1 DEF ReportPorts
  <1>8. ASSUME NEW s \in Instances, StopServer(s) PROVE PortTypes'
    BY <1>8 DEF StopServer
  <1>9. ASSUME NEW p, Foreign(p) PROVE PortTypes'
    <2>1. raced' \in BOOLEAN /\ Cardinality(foreign') <= MaxForeign
      BY <1>9 DEF Foreign
    <2>2. UNCHANGED <<ports, creating, given, bound, moved, starts>>
      BY <1>9 DEF Foreign
    <2> QED BY <2>1, <2>2
  <1> QED
    BY <1>1, <1>2, <1>3, <1>4, <1>5, <1>6, <1>7, <1>8, <1>9 DEF PortNext

-----------------------------------------------------------------------------
(***************************************************************************)
(* Port mappings: the launch that a restart goes on to was counted as      *)
(* possible when it began, and no other job starts in the meantime.        *)
(***************************************************************************)
NetJobs == [step : {"none", "rules", "discover", "map", "save", "report",
                    "unmap", "unrule", "done"},
            aim : {"none", "launch", "stop", "restart", "delete"},
            want : SUBSET Endpoints, todo : Seq(Gateways),
            left : SUBSET Maps, got : SUBSET Maps]

MappingTypes ==
    /\ MappingsTypeOK /\ job \in NetJobs
    /\ job.aim = "restart" => launches < MaxLaunches

LEMMA NetJobTyped ==
    ASSUME NEW step \in {"none", "rules", "unmap"},
           NEW aim \in {"none", "launch", "stop", "restart", "delete"},
           NEW want \in SUBSET Endpoints, NEW left \in SUBSET Maps
    PROVE  /\ NetJob(step, aim, want, left) \in NetJobs
           /\ NetJob(step, aim, want, left).aim = aim
  BY DEF NetJob, NetJobs

(* The order in which routers answer is a sequence of them.                *)
LEMMA AnswersInOrder ==
    ASSUME NEW S \in SUBSET Gateways, NEW s \in SetToSeqs(S)
    PROVE  s \in Seq(Gateways)
  <1>1. Cardinality(S) \in Nat
    BY PortMappingsAssumption, FS_Subset, FS_CardinalityType
  <1>2. s \in [1..Cardinality(S) -> S]
    BY DEF SetToSeqs
  <1> QED BY <1>1, <1>2

LEMMA MappingTypesContinue ==
    MappingTypes /\ [MappingsNext]_mappingVars => MappingTypes'
  <1> SUFFICES ASSUME MappingTypes, [MappingsNext]_mappingVars PROVE MappingTypes'
    OBVIOUS
  <1>0. /\ job \in NetJobs /\ launches \in 0..MaxLaunches
        /\ job.aim = "restart" => launches < MaxLaunches
        /\ portFaults \in 0..MaxPortFaults
        /\ MaxLaunches \in Nat /\ MaxPortFaults \in Nat
        /\ mapped \subseteq Maps /\ mapFile \subseteq Maps
        /\ rules \subseteq Endpoints /\ ruleFile \subseteq Endpoints
        /\ strays \subseteq Maps \cup Endpoints
        /\ dead \in BOOLEAN
        /\ row \in {"stopped", "starting", "running", "stopping", "failed",
                    "pending_delete", "gone"}
    BY PortMappingsAssumption DEF MappingTypes, MappingsTypeOK
  <1>T. ASSUME job' \in NetJobs, launches' \in 0..MaxLaunches,
               job'.aim = "restart" => launches' < MaxLaunches,
               portFaults' \in 0..MaxPortFaults,
               mapped' \subseteq Maps, mapFile' \subseteq Maps,
               rules' \subseteq Endpoints, ruleFile' \subseteq Endpoints,
               strays' \subseteq Maps \cup Endpoints, dead' \in BOOLEAN,
               row' \in {"stopped", "starting", "running", "stopping", "failed",
                         "pending_delete", "gone"}
        PROVE  MappingTypes'
    BY <1>T DEF MappingTypes, MappingsTypeOK, NetJobs
  <1> USE DEF router, windows, PortFault
  <1>1. CASE UNCHANGED mappingVars
    BY <1>0, <1>1, <1>T DEF mappingVars
  <1>2. CASE UserAsks \/ ProcessDies \/ LeaseEnds
    BY <1>0, <1>2, <1>T DEF UserAsks, ProcessDies, LeaseEnds
  <1>3. CASE BeginLaunch
    BY <1>0, <1>3, <1>T, NetJobTyped DEF BeginLaunch, Launch
  <1>4. CASE BeginTeardown
    BY <1>0, <1>4, <1>T, NetJobTyped DEF BeginTeardown, Teardown
  <1>5. CASE ApplyRules
    BY <1>0, <1>5, <1>T DEF ApplyRules, NetJobs
  <1>6. CASE Discover
    BY <1>0, <1>6, <1>T, AnswersInOrder DEF Discover, NetJobs
  <1>7. CASE AddMapping
    <2>1. PICK m \in job.left :
             /\ mapped' \in {mapped, mapped \cup {m}}
             /\ strays' \in {strays, strays \cup {m}}
             /\ \/ job' = [job EXCEPT !.left = @ \ {m}]
                \/ job' = [job EXCEPT !.left = @ \ {m}, !.got = @ \cup {m}]
      BY <1>7 DEF AddMapping
    <2>2. m \in Maps /\ job' \in NetJobs /\ job'.aim = job.aim
      <3>1. m \in Maps BY <1>0, <2>1 DEF NetJobs
      <3>2. CASE job' = [job EXCEPT !.left = @ \ {m}]
        BY <1>0, <3>1, <3>2 DEF NetJobs
      <3>3. CASE job' = [job EXCEPT !.left = @ \ {m}, !.got = @ \cup {m}]
        <4>1. /\ job'.step = job.step /\ job'.aim = job.aim /\ job'.want = job.want
              /\ job'.todo = job.todo /\ job'.left = job.left \ {m}
              /\ job'.got = job.got \cup {m}
              /\ job' = [step |-> job'.step, aim |-> job'.aim, want |-> job'.want,
                         todo |-> job'.todo, left |-> job'.left, got |-> job'.got]
          BY <1>0, <3>3 DEF NetJobs
        <4> QED BY <1>0, <3>1, <4>1 DEF NetJobs
      <3> QED BY <2>1, <3>1, <3>2, <3>3
    <2>3. /\ portFaults' \in 0..MaxPortFaults
          /\ UNCHANGED <<row, dead, mapFile, rules, ruleFile, launches>>
      BY <1>0, <1>7 DEF AddMapping
    <2> QED BY <1>0, <1>T, <2>1, <2>2, <2>3
  <1>8. CASE NextGateway
    <2>1. job' \in NetJobs /\ job'.aim = job.aim
      <3>1. /\ <<>> \in Seq(Gateways)
            /\ job.todo # <<>> => /\ Head(job.todo) \in Gateways
                                  /\ Tail(job.todo) \in Seq(Gateways)
        BY <1>0 DEF NetJobs
      <3>2. job.todo # <<>> => {Head(job.todo)} \X job.want \in SUBSET Maps
        BY <1>0, <3>1 DEF NetJobs, Maps
      <3> QED BY <1>0, <1>8, <3>1, <3>2 DEF NextGateway, NetJobs
    <2> QED BY <1>0, <1>8, <1>T, <2>1 DEF NextGateway
  <1>9. CASE SaveMappings
    BY <1>0, <1>9, <1>T DEF SaveMappings, NetJobs
  <1>10. CASE ReportLaunch
    <2>1. NoJob \in NetJobs /\ NoJob.aim = "none"
      BY NetJobTyped DEF NoJob
    <2>2. Unsettled \subseteq Maps \cup Endpoints
      BY <1>0 DEF Unsettled, NetJobs
    <2>3. /\ job' = NoJob /\ dead' = FALSE /\ row' \in {"running", "failed"}
          /\ strays' \in {strays, strays \cup Unsettled}
          /\ portFaults' \in 0..MaxPortFaults
          /\ UNCHANGED <<mapped, mapFile, rules, ruleFile, launches>>
      BY <1>0, <1>10 DEF ReportLaunch
    <2> QED BY <1>0, <1>T, <2>1, <2>2, <2>3
  <1>11. CASE RemoveMapping \/ ForgetMappings
    BY <1>0, <1>11, <1>T DEF RemoveMapping, ForgetMappings, NetJobs
  <1>12. CASE RemoveRules
    BY <1>0, <1>12, <1>T DEF RemoveRules, NetJobs
  <1>13. CASE TornDown
    <2>1. \A want \in SUBSET Endpoints :
             Launch(want) \in NetJobs /\ Launch(want).aim = "launch"
      BY NetJobTyped DEF Launch
    <2>2. NoJob \in NetJobs /\ NoJob.aim = "none"
      BY NetJobTyped DEF NoJob
    <2>3. dead' \in BOOLEAN BY <1>0, <1>13 DEF TornDown
    <2>4. /\ row' \in {row, "stopped", "gone"} /\ launches' \in 0..MaxLaunches
          /\ job' \in NetJobs /\ job'.aim \in {"launch", "none"}
      BY <1>0, <1>13, <2>1, <2>2 DEF TornDown
    <2>5. UNCHANGED <<mapped, mapFile, rules, ruleFile, strays, portFaults>>
      BY <1>13 DEF TornDown
    <2> QED BY <1>0, <1>T, <2>3, <2>4, <2>5
  <1>14. CASE AgentDies
    <2>1. NoJob \in NetJobs /\ NoJob.aim = "none"
      BY NetJobTyped DEF NoJob
    <2>2. Unsettled \subseteq Maps \cup Endpoints
      BY <1>0 DEF Unsettled, NetJobs
    <2> QED BY <1>0, <1>14, <1>T, <2>1, <2>2 DEF AgentDies
  <1> QED
    BY <1>1, <1>2, <1>3, <1>4, <1>5, <1>6, <1>7, <1>8, <1>9, <1>10, <1>11, <1>12,
       <1>13, <1>14
    DEF MappingsNext

-----------------------------------------------------------------------------
(***************************************************************************)
(* Reports: a counter starts again now and then, so it never runs ahead of *)
(* what truly passed.                                                      *)
(***************************************************************************)
ReportTypes == HostReportsTypeOK /\ counter <= truly

LEMMA ReportTypesContinue ==
    ReportTypes /\ [HostReportsNext]_reportVars => ReportTypes'
  <1> SUFFICES ASSUME ReportTypes, [HostReportsNext]_reportVars PROVE ReportTypes'
    OBVIOUS
  <1> DEFINE Beating == [st : {"idle", "address", "posted"}, metrics : Metrics,
                         report : Outcomes \cup {"none"}]
  <1> USE HostReportsAssumption DEF ReportTypes, HostReportsTypeOK, machine, server,
          ReportFault
  <1>0. IdleBeat \in Beating /\ IdleBeat.st = "idle"
    BY DEF IdleBeat, NoMetrics, Metrics
  <1>1. CASE UNCHANGED reportVars
    BY <1>1 DEF reportVars
  <1>2. CASE Traffic \/ CounterRestarts \/ UpdaterReports \/ MomentPasses
    BY <1>2 DEF Traffic, CounterRestarts, UpdaterReports, MomentPasses, Files
  <1>3. ASSUME NEW n \in Notices, CooldownEnds(n) PROVE ReportTypes'
    BY <1>3 DEF CooldownEnds
  <1>4. CASE AgentRestarts
    <2>1. beat' \in [Beats -> Beating]
      BY <1>0, <1>4 DEF AgentRestarts
    <2> QED BY <1>4, <2>1 DEF AgentRestarts
  <1>5. ASSUME NEW b \in Beats, Sample(b) PROVE ReportTypes'
    <2>1. Sampled \in Metrics
      BY DEF Sampled, Metrics, Delta, CoresMeasured
    <2>2. [IdleBeat EXCEPT !.st = "address", !.metrics = Sampled] \in Beating
      BY <1>0, <2>1 DEF IdleBeat
    <2>3. beat' \in [Beats -> Beating]
      BY <1>5, <2>2 DEF Sample
    <2> QED BY <1>5, <2>3 DEF Sample
  <1>6. ASSUME NEW b \in Beats, SampleFails(b) \/ Lost(b) PROVE ReportTypes'
    <2>1. beat' \in [Beats -> Beating]
      BY <1>0, <1>6 DEF SampleFails, Lost
    <2> QED BY <1>6, <2>1 DEF SampleFails, Lost
  <1>7. ASSUME NEW b \in Beats, Consume(b) PROVE ReportTypes'
    <2>1. PICK report \in Outcomes \cup {"none"} :
             /\ beat' = [beat EXCEPT ![b].st = "posted", ![b].report = report]
             /\ taken' = taken \cup ({report} \cap Outcomes)
      BY <1>7 DEF Consume
    <2>2. beat' \in [Beats -> Beating]
      BY <2>1
    <2> QED BY <1>7, <2>1, <2>2 DEF Consume, Files
  <1>8. ASSUME NEW b \in Beats, Heard(b) PROVE ReportTypes'
    <2>1. beat' = [beat EXCEPT ![b] = IdleBeat]
      BY <1>8 DEF Heard
    <2>2. beat' \in [Beats -> Beating]
      BY <1>0, <2>1
    <2>3. credited' \in {credited, credited + beat[b].metrics.delta}
      BY <1>8 DEF Heard
    <2>4. credited' \in Nat
      BY <2>3 DEF Metrics
    <2>5. \E new \in SUBSET Notices :
             recent' = recent \cup new /\ told' = told \cup new
      BY <1>8 DEF Heard, DiskNotice, Notices
    <2> QED BY <1>8, <2>2, <2>4, <2>5 DEF Heard
  <1> QED
    BY <1>1, <1>2, <1>3, <1>4, <1>5, <1>6, <1>7, <1>8 DEF HostReportsNext

-----------------------------------------------------------------------------
(***************************************************************************)
(* Accounts.                                                               *)
(***************************************************************************)
AccountTypes == AccountsTypeOK

LEMMA AccountTypesContinue ==
    AccountTypes /\ [AccountsNext]_accountVars => AccountTypes'
  <1> SUFFICES ASSUME AccountTypes, [AccountsNext]_accountVars PROVE AccountTypes'
    OBVIOUS
  <1> DEFINE Working == [at : {"checked", "clear", "insert", "mail"}, user : Users,
                         signUp : BOOLEAN]
  <1> USE AccountsAssumption DEF AccountTypes, AccountsTypeOK
  <1>0. \A r \in Mailers : mailer[r] # IdleMailer => mailer[r] \in Working
    OBVIOUS
  <1>1. CASE UNCHANGED accountVars
    BY <1>1 DEF accountVars
  <1>2. ASSUME NEW r \in Mailers, mailer[r].at # "idle" PROVE mailer[r] \in Working
    BY <1>2 DEF IdleMailer
  <1>3. ASSUME NEW r \in Mailers, NEW u \in Users, Register(r, u) \/ Resend(r, u)
        PROVE  AccountTypes'
    <2>1. PICK m \in Working : mailer' = [mailer EXCEPT ![r] = m]
      <3>1. /\ [at |-> "checked", user |-> u, signUp |-> TRUE] \in Working
            /\ [at |-> "clear", user |-> u, signUp |-> FALSE] \in Working
        OBVIOUS
      <3> QED BY <1>3, <3>1 DEF Register, Resend
    <2>2. mailer' \in [Mailers -> {IdleMailer} \cup Working]
      BY <2>1
    <2>3. together' \cup torn' \subseteq Users
      BY <1>3 DEF Register, Resend, Begins
    <2> QED BY <1>3, <2>2, <2>3 DEF Register, Resend
  <1>4. ASSUME NEW r \in Mailers, InsertUser(r) PROVE AccountTypes'
    BY <1>2, <1>4 DEF InsertUser
  <1>5. ASSUME NEW r \in Mailers, ClearLinks(r) PROVE AccountTypes'
    BY <1>2, <1>5 DEF ClearLinks, OldLinks
  <1>6. ASSUME NEW r \in Mailers, InsertLink(r) PROVE AccountTypes'
    <2>1. mailer[r] \in Working
      BY <1>2, <1>6 DEF InsertLink
    <2>2. made + 1 \in 1..MaxLinks /\ made' = made + 1
      BY <1>6 DEF InsertLink
    <2>3. [user |-> mailer[r].user, n |-> made + 1, live |-> TRUE]
             \in [user : Users, n : 1..MaxLinks, live : BOOLEAN]
      BY <2>1, <2>2
    <2>4. links' \subseteq [user : Users, n : 1..MaxLinks, live : BOOLEAN]
      BY <1>6, <2>3 DEF InsertLink
    <2>5. mailer' \in [Mailers -> {IdleMailer} \cup Working]
      BY <1>6, <2>1 DEF InsertLink
    <2> QED BY <1>6, <2>2, <2>4, <2>5 DEF InsertLink
  <1>7. ASSUME NEW r \in Mailers, NEW delivered \in BOOLEAN, SendLink(r, delivered)
        PROVE  AccountTypes'
    BY <1>2, <1>7 DEF SendLink
  <1>8. ASSUME NEW r \in Mailers, MailerFails(r) PROVE AccountTypes'
    BY <1>8 DEF MailerFails
  <1>9. ASSUME NEW l \in links, OpenLink(l) \/ LinkExpires(l) PROVE AccountTypes'
    <2>1. l \in [user : Users, n : 1..MaxLinks, live : BOOLEAN]
      OBVIOUS
    <2>2. /\ [l EXCEPT !.live = FALSE] \in [user : Users, n : 1..MaxLinks, live : BOOLEAN]
          /\ [user |-> l.user, done |-> FALSE] \in [user : Users, done : BOOLEAN]
          /\ l.user \in Users
      BY <2>1
    <2> DEFINE new == [l EXCEPT !.live = FALSE]
               read == [user |-> l.user, done |-> FALSE]
    <2>6. links' \subseteq links \cup {new} /\ verifying' \subseteq verifying \cup {read}
      BY <1>9, <2>2 DEF OpenLink, LinkExpires
    <2>7. /\ new \in [user : Users, n : 1..MaxLinks, live : BOOLEAN]
          /\ read \in [user : Users, done : BOOLEAN]
      BY <2>2
    <2> HIDE DEF new, read
    <2>3. links' \subseteq [user : Users, n : 1..MaxLinks, live : BOOLEAN]
      BY <2>6, <2>7
    <2>4. verifying' \subseteq [user : Users, done : BOOLEAN]
      BY <2>6, <2>7
    <2>5. together' \cup torn' \subseteq Users
      BY <1>9, <2>2 DEF OpenLink, LinkExpires, Begins
    <2> QED BY <1>9, <2>3, <2>4, <2>5 DEF OpenLink, LinkExpires
  <1>10. ASSUME NEW o \in verifying, MarkVerified(o) \/ DeleteLinks(o) \/ VerifyFails(o)
         PROVE  AccountTypes'
    BY <1>10 DEF MarkVerified, DeleteLinks, VerifyFails, OldLinks
  <1>11. ASSUME NEW u \in Users,
                Login(u) \/ Logout(u) \/ SessionEnds(u) \/ SeesExpired(u)
         PROVE  AccountTypes'
    BY <1>11 DEF Login, Logout, SessionEnds, SeesExpired
  <1> QED
    BY <1>1, <1>3, <1>4, <1>5, <1>6, <1>7, <1>8, <1>9, <1>10, <1>11 DEF AccountsNext

-----------------------------------------------------------------------------
(***************************************************************************)
(* Billing, of which BillingTyped says what a row becomes.                 *)
(***************************************************************************)
BillingTypes == BillingTypeOK /\ BillingTyped

LEMMA BillingBoundsContinue ==
    BillingTypes /\ [BillingNext]_billingVars => BillingTypes'
  <1> SUFFICES ASSUME BillingTypes, [BillingNext]_billingVars PROVE BillingTypes'
    OBVIOUS
  <1>0. /\ checkout \in [Payers -> 0..2] /\ emitted \in 0..MaxStripeEvents
        /\ \A e \in events : e.n \in 1..emitted
        /\ disorder \in BOOLEAN
    BY DEF BillingTypes, BillingTypeOK
  <1>1. BillingTyped'
    BY BillingTypesContinue DEF BillingTypes
  <1>2. checkout' \in [Payers -> 0..2]
    <2>1. \/ checkout' = checkout
          \/ \E u \in Payers : /\ checkout[u] < 2
                               /\ checkout' = [checkout EXCEPT ![u] = @ + 1]
          \/ \E u \in Payers : /\ checkout[u] > 0
                               /\ checkout' = [checkout EXCEPT ![u] = @ - 1]
      BY DEF BillingNext, Checkout, CheckoutFails, CreateCustomer, Subscribe,
         StripeChanges, HookReads, HookWrites, billingVars
    <2> QED BY <1>0, <2>1
  <1>3. disorder' \in BOOLEAN
    BY <1>0 DEF BillingNext, Checkout, CheckoutFails, CreateCustomer, Subscribe,
       StripeChanges, HookReads, HookWrites, billingVars
  <1>4. \/ emitted' = emitted /\ events' \subseteq events
        \/ \E type, s : StripeEmits(type, s)
    BY DEF BillingNext, Checkout, CheckoutFails, CreateCustomer, Subscribe,
       StripeChanges, HookReads, HookWrites, billingVars
  <1>5. emitted' \in 0..MaxStripeEvents /\ \A e \in events' : e.n \in 1..emitted'
    BY <1>0, <1>4, BillingAssumption DEF StripeEmits
  <1> QED
    BY <1>1, <1>2, <1>3, <1>5 DEF BillingTypes, BillingTypeOK, BillingTyped, SubRows

-----------------------------------------------------------------------------
(***************************************************************************)
(* Enrollment, of which RowsTyped says what a row becomes.                 *)
(***************************************************************************)
EnrollTypes == EnrollTypeOK /\ EnrollInv

LEMMA EnrollTypesContinue ==
    EnrollTypes /\ [EnrollNext]_enrollVars => EnrollTypes'
  <1> SUFFICES ASSUME EnrollTypes, [EnrollNext]_enrollVars PROVE EnrollTypes'
    OBVIOUS
  <1>0. /\ EnrollInv /\ pairing \subseteq Hosts /\ doubled \subseteq Codes
        /\ claiming \in [Codes -> 0..MaxClaims] /\ MaxClaims \in Nat
    BY EnrollmentAssumption DEF EnrollTypes, EnrollTypeOK
  <1>1. EnrollInv'
    BY <1>0, EnrollContinues
  <1>2. pairing' \subseteq Hosts
    BY <1>0 DEF EnrollNext, enrollVars, CreateHost, AskPairingCode, RemoveHost, PurgeHost,
       CodeExpires, SetPairingCode, Claim, InsertClaimed, AskEnroll, AskClaim,
       StartSession, SessionExpires, Enroll, PruneCodes, PruneSessions
  <1>3. \/ UNCHANGED claimVars
        \/ \E c \in Codes : /\ claiming[c] < MaxClaims
                            /\ claiming' = [claiming EXCEPT ![c] = @ + 1]
                            /\ doubled' \subseteq doubled \cup {c}
        \/ \E c \in Codes : /\ claiming[c] > 0 /\ doubled' = doubled
                            /\ claiming' = [claiming EXCEPT ![c] = @ - 1]
    BY DEF EnrollNext, enrollVars, claimVars, CreateHost, AskPairingCode, RemoveHost,
       PurgeHost, CodeExpires, SetPairingCode, Claim, InsertClaimed, AskEnroll,
       AskClaim, StartSession, SessionExpires, Enroll, PruneCodes, PruneSessions
  <1>4. claiming' \in [Codes -> 0..MaxClaims] /\ doubled' \subseteq Codes
    BY <1>0, <1>3 DEF claimVars
  <1> QED
    BY <1>1, <1>2, <1>4 DEF EnrollTypes, EnrollTypeOK, EnrollInv, RowsTyped

-----------------------------------------------------------------------------
(***************************************************************************)
(* The wizard: no request is of an opening that never was, as a wizard     *)
(* that was never opened is blank.                                         *)
(***************************************************************************)
WizardTypes ==
    /\ WizardInv /\ opening <= MaxOpenings /\ lostCalls \in 0..MaxLostCalls
    /\ opening = 0 => form = Blank
    /\ \A c \in calls : c.of # 0

LEMMA WizardTyping == WizardTypes => WizardTypeOK
  <1> SUFFICES ASSUME WizardTypes PROVE WizardTypeOK
    OBVIOUS
  <1>1. WizardTyped /\ CallsInv /\ opening <= MaxOpenings /\ MaxOpenings \in Nat
    BY WizardAssumption DEF WizardTypes, WizardInv
  <1>2. ASSUME NEW c \in calls PROVE c \in Calls
    <2>1. c \in WizardRequests /\ c.of <= opening /\ c.of # 0 /\ opening \in Nat
      BY <1>1 DEF WizardTypes, WizardTyped, CallsInv
    <2>2. c.of \in 1..MaxOpenings
      BY <1>1, <2>1 DEF WizardRequests
    <2> QED BY <2>1, <2>2 DEF WizardRequests, Calls
  <1> QED BY <1>1, <1>2 DEF WizardTypes, WizardTypeOK, WizardTyped, Fields

LEMMA WizardTypesHold == WizardTypes /\ [WizardNext]_wizardVars => WizardTypes'
  <1> SUFFICES ASSUME WizardTypes, [WizardNext]_wizardVars PROVE WizardTypes'
    OBVIOUS
  <1>0. /\ WizardInv /\ WizardTyped /\ CallsInv /\ opening \in Nat
        /\ opening <= MaxOpenings /\ lostCalls \in 0..MaxLostCalls
        /\ opening = 0 => form = Blank
        /\ \A c \in calls : c.of # 0 /\ c.of <= opening
        /\ MaxOpenings \in Nat /\ MaxLostCalls \in Nat
    BY WizardAssumption DEF WizardTypes, WizardInv, WizardTyped, CallsInv
  <1>1. WizardInv'
    BY <1>0, WizardContinues
  <1>2. /\ opening' <= MaxOpenings /\ lostCalls' \in 0..MaxLostCalls
        /\ opening' = 0 => opening = 0
    <2>1. opening' = opening \/ (opening < MaxOpenings /\ opening' = opening + 1)
      BY DEF WizardNext, wizardVars, Open, Close, AskCreate, RegeneratePairingCode,
         CheckEnrollment, Enrolls, ServeCreate, ServeCode, ServeCheck, AnswerCreate,
         AnswerCode, AnswerCheck, CallLost
    <2>2. lostCalls' = lostCalls \/ (lostCalls < MaxLostCalls /\ lostCalls' = lostCalls + 1)
      BY DEF WizardNext, wizardVars, Open, Close, AskCreate, RegeneratePairingCode,
         CheckEnrollment, Enrolls, ServeCreate, ServeCode, ServeCheck, AnswerCreate,
         AnswerCode, AnswerCheck, CallLost
    <2> QED BY <1>0, <2>1, <2>2
  <1>3. CASE opening = 0
    <2>1. calls = {}
      <3> SUFFICES ASSUME NEW c \in calls PROVE FALSE
        OBVIOUS
      <3>1. c.of \in Nat BY <1>0 DEF WizardTyped, WizardRequests
      <3> QED BY <1>0, <1>3, <3>1
    <2>2. form = Blank /\ ~form.open /\ form.step = 1
      BY <1>0, <1>3 DEF Blank
    <2>3. calls' = {} /\ (opening' = 0 => form' = Blank)
      BY <1>3, <2>1, <2>2
      DEF WizardNext, wizardVars, Open, Close, AskCreate, RegeneratePairingCode,
          CheckEnrollment, Enrolls
    <2> QED BY <1>1, <1>2, <2>3 DEF WizardTypes
  <1>4. CASE opening # 0
    <2>1. opening' # 0
      BY <1>2, <1>4
    <2>2. \/ calls' \subseteq calls
          \/ \E kind, h : calls' = calls \cup {Call(kind, h)}
          \/ \E c \in calls : \E d : calls' = (calls \ {c}) \cup {d} /\ d.of = c.of
      <3>1. CASE UNCHANGED wizardVars \/ Open \/ Close \/ \E h \in NewHosts : Enrolls(h)
        BY <3>1 DEF wizardVars, Open, Close, Enrolls
      <3>2. CASE AskCreate \/ RegeneratePairingCode \/ CheckEnrollment
        BY <3>2 DEF AskCreate, RegeneratePairingCode, CheckEnrollment
      <3>3. ASSUME NEW c \in calls, ServeCreate(c) \/ ServeCode(c) \/ ServeCheck(c)
            PROVE  \E d : calls' = (calls \ {c}) \cup {d} /\ d.of = c.of
        BY <1>0, <3>3, RoutesAnswer DEF Answers
      <3>4. ASSUME NEW c \in calls, AnswerCreate(c)
            PROVE  \E d : calls' = (calls \ {c}) \cup {d} /\ d.of = c.of
        <4>1. c \in WizardRequests
          BY <1>0 DEF WizardTyped
        <4>2. [c EXCEPT !.kind = "first", !.at = "sent"].of = c.of
          BY <4>1 DEF WizardRequests
        <4> QED BY <3>4, <4>2 DEF AnswerCreate
      <3>5. ASSUME NEW c \in calls, AnswerCode(c) \/ AnswerCheck(c) \/ CallLost(c)
            PROVE  calls' \subseteq calls
        BY <3>5 DEF AnswerCode, AnswerCheck, CallLost, Answered
      <3> QED BY <3>1, <3>2, <3>3, <3>4, <3>5 DEF WizardNext
    <2>3. \A kind, h : Call(kind, h).of # 0
      BY <1>4 DEF Call
    <2>4. \A c \in calls' : c.of # 0
      BY <1>0, <2>2, <2>3
    <2> QED BY <1>1, <1>2, <2>1, <2>4 DEF WizardTypes
  <1> QED BY <1>3, <1>4

-----------------------------------------------------------------------------
(***************************************************************************)
(* The install log: what is posted was written, and what a poll has sent   *)
(* are rows.                                                               *)
(***************************************************************************)
LogTypes ==
    /\ LogInv /\ written <= MaxLines /\ logFaults \in 0..MaxLogFaults
    /\ \A p \in posts : p.to <= written
    /\ rows \in Seq(Lines \cup {NoLine}) /\ lost \subseteq Lines
    /\ stream.after <= Len(rows)

LEMMA LogTyping == LogTypes => InstallLogTypeOK
  <1> SUFFICES ASSUME LogTypes PROVE InstallLogTypeOK
    OBVIOUS
  <1>0. /\ LogTyped /\ TableTyped /\ PostsInv /\ PageInv /\ MaxLines \in Nat
        /\ written \in Nat /\ written <= MaxLines /\ Len(rows) \in Nat
        /\ DOMAIN rows = 1..Len(rows)
        /\ rows \in Seq(Lines \cup {NoLine})
    BY InstallLogAssumption DEF LogTypes, LogInv, TableInv, LogTyped
  <1>1. /\ overWs \in BOOLEAN /\ steam \in {"running", "closed", "ended"}
        /\ written \in 0..MaxLines /\ postedIdx \in 0..written /\ pass \in 1..2
    BY <1>0 DEF LogTyped
  <1>2. slice.lo \in 0..slice.hi /\ slice.hi \in 0..written
    <2>1. CASE slice = Empty
      BY <1>0, <2>1 DEF Empty
    <2>2. CASE slice # Empty
      BY <1>0, <2>2 DEF LogTyped
    <2> QED BY <2>1, <2>2
  <1>3. ASSUME NEW p \in posts
        PROVE  p \in [pass : 1..2, lo : 0..written, to : 1..written,
                      id : 0..Len(rows), awaited : BOOLEAN]
    <2>1. p \in Posts /\ p.lo < p.to /\ p.to <= written
      BY <1>0 DEF TableTyped, LogTypes
    <2>2. p.lo \in 0..written /\ p.to \in 1..written /\ p.pass \in 1..2
      BY <1>0, <2>1 DEF Posts
    <2>3. p.id \in 0..Len(rows)
      <3>1. p.id \in Nat
        BY <2>1 DEF Posts
      <3>2. CASE p.id # 0
        <4>1. p.id \in IdsOf(p)
          BY <2>1, <3>1 DEF IdsOf, Posts
        <4> QED BY <1>0, <3>1, <3>2, <4>1 DEF PostsInv
      <3> QED BY <1>0, <3>1, <3>2
    <2> QED BY <2>1, <2>2, <2>3 DEF Posts
  <1>4. /\ OnPage \subseteq 1..Len(rows) /\ Visible \subseteq 1..Len(rows)
    BY <1>0 DEF PageInv, Visible
  <1>5. reads \in [LogPolls -> SUBSET (1..Len(rows))]
    BY <1>4, <1>0 DEF PageInv
  <1>6. shown \in Seq(SUBSET (1..Len(rows)))
    <2>1. shown \in Seq(SUBSET Nat) /\ \A k \in DOMAIN shown : shown[k] \subseteq OnPage
      BY <1>0 DEF PageInv, OnPage
    <2>2. Len(shown) \in Nat /\ DOMAIN shown = 1..Len(shown)
          /\ shown = [k \in 1..Len(shown) |-> shown[k]]
      BY <2>1
    <2>3. \A k \in 1..Len(shown) : shown[k] \in SUBSET (1..Len(rows))
      BY <1>4, <2>1, <2>2
    <2> QED BY <2>2, <2>3
  <1>7. lastLogId \in 0..Len(rows)
    BY <1>0, <1>4 DEF PageInv
  <1>8. stream \in [open : BOOLEAN, after : 0..Len(rows)]
    BY <1>0 DEF PageInv, LogTypes
  <1>9. overtaken \in BOOLEAN
    BY DEF LogTypes, LogInv, AwaitInv
  <1> QED
    BY <1>1, <1>2, <1>3, <1>5, <1>6, <1>7, <1>8, <1>9
    DEF InstallLogTypeOK, LogTypes

LEMMA LinesOfPost ==
    ASSUME LogTypes, NEW p \in posts
    PROVE  LinesOf(p) \subseteq Lines /\ Rest(p) \subseteq Lines
  <1>1. /\ p \in Posts /\ p.to <= written /\ written <= MaxLines /\ written \in Nat
        /\ MaxLines \in Nat
    BY InstallLogAssumption DEF LogTypes, LogInv, TableInv, TableTyped, LogTyped
  <1>2. pass \in {1, 2} /\ slice.lo \in Nat /\ slice.hi \in Nat /\ slice.hi <= written
    BY LogTyping DEF LogTypes, LogInv, TableInv, LogTyped, InstallLogTypeOK
  <1> QED BY <1>1, <1>2 DEF LinesOf, Rest, Lines, Posts

LEMMA CommittedRows ==
    ASSUME LogTypes, NEW p \in posts, p.id # 0, rows' = Committed(p)
    PROVE  rows' \in Seq(Lines \cup {NoLine}) /\ Len(rows') = Len(rows)
  <1>1. /\ rows \in Seq(Lines \cup {NoLine}) /\ Len(rows) \in Nat
        /\ DOMAIN rows = 1..Len(rows)
    BY DEF LogTypes
  <1>2. /\ \A i \in IdsOf(p) : rows'[i] \in LinesOf(p)
    BY CommittedShows DEF LogTypes, LogInv
  <1>3. \A i \in 1..Len(rows) : i \notin IdsOf(p) => rows'[i] = rows[i]
    BY <1>1 DEF Committed
  <1>4. \A i \in 1..Len(rows) : rows'[i] \in Lines \cup {NoLine}
    BY <1>1, <1>2, <1>3, LinesOfPost
  <1>5. rows' = [i \in 1..Len(rows) |-> rows'[i]]
    BY <1>1 DEF Committed
  <1> QED BY <1>1, <1>4, <1>5

LEMMA LogTypesHold == LogTypes /\ [InstallLogNext]_logVars => LogTypes'
  <1> SUFFICES ASSUME LogTypes, [InstallLogNext]_logVars PROVE LogTypes'
    OBVIOUS
  <1>0. /\ LogInv /\ TableInv /\ LogTyped /\ TableTyped /\ PageInv /\ InstallLogTypeOK
        /\ written \in Nat /\ written <= MaxLines /\ logFaults \in 0..MaxLogFaults
        /\ \A p \in posts : p.to <= written
        /\ rows \in Seq(Lines \cup {NoLine}) /\ lost \subseteq Lines
        /\ stream.after <= Len(rows) /\ Len(rows) \in Nat
        /\ MaxLines \in Nat /\ MaxLogFaults \in Nat
    BY InstallLogAssumption, LogTyping DEF LogTypes, LogInv, TableInv, LogTyped
  <1>1. LogInv'
    BY <1>0, LogContinues
  <1>T. ASSUME written' <= MaxLines, logFaults' \in 0..MaxLogFaults,
               \A p \in posts' : p.to <= written',
               rows' \in Seq(Lines \cup {NoLine}), lost' \subseteq Lines,
               stream'.after <= Len(rows')
        PROVE  LogTypes'
    BY <1>1, <1>T DEF LogTypes
  <1> USE DEF agentLog, pageState, LogFault
  <1>2. CASE UNCHANGED logVars
    BY <1>0, <1>2, <1>T DEF logVars
  <1>3. CASE AppendLine \/ FlushNow \/ Exit
    <2>1. /\ written' \in {written, written + 1} /\ written' <= MaxLines
          /\ UNCHANGED <<posts, rows, lost, stream, logFaults>>
      BY <1>0, <1>3 DEF AppendLine, FlushNow, Exit
    <2>2. \A p \in posts : p.to \in Nat
      BY <1>0 DEF TableTyped, Posts
    <2> QED BY <1>0, <1>T, <2>1, <2>2
  <1>4. CASE PostChunk
    <2> DEFINE to == IF slice.lo + Chunk < slice.hi THEN slice.lo + Chunk ELSE slice.hi
               new == [pass |-> pass, lo |-> slice.lo, to |-> to, id |-> 0,
                       awaited |-> ~overWs]
    <2>1. posts' = posts \cup {new}
      BY <1>4 DEF PostChunk
    <2>2. /\ slice.hi \in Nat /\ slice.hi <= written /\ slice.lo \in Nat
          /\ Chunk \in Nat
      BY <1>0, InstallLogAssumption DEF InstallLogTypeOK
    <2>3. UNCHANGED <<written, rows, lost, stream, logFaults>>
      BY <1>4 DEF PostChunk
    <2>4. new.to = to /\ to <= written
      BY <1>0, <2>2
    <2> HIDE DEF new
    <2> QED BY <1>0, <1>T, <2>1, <2>3, <2>4
  <1>5. ASSUME NEW p \in posts, Insert(p) PROVE LogTypes'
    <2>1. p \in Posts /\ p.lo < p.to
      BY <1>0 DEF TableTyped
    <2> DEFINE added == [k \in 1..(p.to - p.lo) |-> NoLine]
    <2>2. added \in Seq(Lines \cup {NoLine})
      BY <2>1 DEF Posts
    <2>3. rows' = rows \o added
      BY <1>5 DEF Insert
    <2> HIDE DEF added
    <2>4. rows' \in Seq(Lines \cup {NoLine}) /\ Len(rows') >= Len(rows)
      BY <1>0, <2>2, <2>3
    <2>5. \A q \in posts' : q.to <= written
      <3>1. [p EXCEPT !.id = Len(rows) + 1].to = p.to
        BY <2>1 DEF Posts
      <3> QED BY <1>0, <1>5, <3>1 DEF Insert
    <2>6. UNCHANGED <<written, lost, stream, logFaults>>
      BY <1>5 DEF Insert
    <2>7. stream.after \in Nat /\ Len(rows') \in Nat
      BY <1>0, <2>4 DEF PageInv
    <2> QED BY <1>0, <1>T, <2>4, <2>5, <2>6, <2>7
  <1>6. ASSUME NEW p \in posts, Commit(p) \/ PostFails(p) PROVE LogTypes'
    <2>1. \/ rows' = rows \/ (p.id # 0 /\ rows' = Committed(p))
      BY <1>6 DEF Commit, PostFails
    <2>2. rows' \in Seq(Lines \cup {NoLine}) /\ Len(rows') = Len(rows)
      BY <1>0, <2>1, CommittedRows
    <2>3. lost' \subseteq Lines
      <3>1. lost' \subseteq lost \cup LinesOf(p) \cup Rest(p)
        BY <1>6 DEF Commit, PostFails
      <3> QED BY <1>0, <3>1, LinesOfPost
    <2>4. UNCHANGED <<written, stream>> /\ logFaults' \in 0..MaxLogFaults
      BY <1>0, <1>6 DEF Commit, PostFails
    <2>5. \A q \in posts' : q.to <= written
      <3>1. p \in Posts
        BY <1>0 DEF TableTyped
      <3>2. [p EXCEPT !.awaited = FALSE].to = p.to
        BY <3>1 DEF Posts
      <3>3. posts' \subseteq posts \cup {[p EXCEPT !.awaited = FALSE]}
        BY <1>6 DEF Commit, PostFails
      <3> QED BY <1>0, <3>2, <3>3
    <2> QED BY <1>0, <1>T, <2>2, <2>3, <2>4, <2>5
  <1>7. CASE Connect \/ StreamBreaks
    <2>1. /\ stream'.after \in {stream.after, lastLogId}
          /\ logFaults' \in 0..MaxLogFaults
          /\ UNCHANGED <<written, posts, rows, lost>>
      BY <1>0, <1>7 DEF Connect, StreamBreaks, InstallLogTypeOK
    <2>2. lastLogId <= Len(rows)
      BY <1>0 DEF InstallLogTypeOK
    <2> QED BY <1>0, <1>T, <2>1, <2>2
  <1>8. ASSUME NEW q \in LogPolls, PollRead(q) \/ PollSend(q) PROVE LogTypes'
    <2>1. UNCHANGED <<written, posts, rows, lost, logFaults>>
      BY <1>8 DEF PollRead, PollSend
    <2>2. CASE PollRead(q)
      BY <1>0, <1>T, <2>1, <2>2 DEF PollRead
    <2>3. CASE PollSend(q)
      <3>1. /\ reads[q] # {} /\ stream'.after = Largest(reads[q])
        BY <1>0, <2>3 DEF PollSend, InstallLogTypeOK
      <3>2. reads[q] \subseteq 1..Len(rows)
        BY <1>0 DEF InstallLogTypeOK
      <3>3. Largest(reads[q]) \in reads[q]
        BY <1>0, <3>1, <3>2, LargestIsLast
      <3> QED BY <1>0, <1>T, <2>1, <3>1, <3>2, <3>3
    <2> QED BY <1>8, <2>2, <2>3
  <1> QED BY <1>2, <1>3, <1>4, <1>5, <1>6, <1>7, <1>8 DEF InstallLogNext

-----------------------------------------------------------------------------
(***************************************************************************)
(* Backups: edits and faults share one budget; of the rest RunsTyped,      *)
(* RestoreInv and ArchiveInv speak.                                        *)
(***************************************************************************)
BackupTypes ==
    /\ RunsTyped /\ HeldInv /\ RestoreInv /\ ArchiveInv
    /\ policy \in [Pairs -> {"none", "on", "off"}]
    /\ edits \in Nat /\ edits + backupFaults <= MaxEvents
    /\ linked \in BOOLEAN /\ aborted \in BOOLEAN /\ collided \subseteq Pairs
    /\ work \in Stages /\ snapshot \subseteq Servers

LEMMA BackupTyping == BackupTypes => BackupTypeOK
  <1> SUFFICES ASSUME BackupTypes PROVE BackupTypeOK
    OBVIOUS
  <1>1. edits \in 0..MaxEvents /\ backupFaults \in 0..MaxEvents
    BY BackupAssumption DEF BackupTypes, RunsTyped
  <1> QED
    BY <1>1
    DEF BackupTypes, BackupTypeOK, RunsTyped, RestoreInv, ArchiveInv, ArchivesTyped

(* How far the first job is, and which servers have a snapshot.            *)
LEMMA StagesContinue ==
    BackupTypes /\ [BackupNext]_backupVars
       => work' \in Stages /\ snapshot' \subseteq Servers
  <1> SUFFICES ASSUME BackupTypes, [BackupNext]_backupVars
               PROVE  work' \in Stages /\ snapshot' \subseteq Servers
    OBVIOUS
  <1>0. RunsTyped /\ RestoreInv /\ work \in Stages /\ snapshot \subseteq Servers
    BY DEF BackupTypes
  <1>1. CASE AgentCrash
    BY <1>0, <1>1 DEF AgentCrash, Stages
  <1>2. CASE OthersEffect
    BY <1>0, <1>2 DEF OthersEffect
  <1>3. CASE JobStep
    <2>1. work' \in Stages
      BY <1>3 DEF JobStep, Compress, Upload, Retain, Fetch, Snapshot, Wipe, Extract,
         DeleteArchive, NextJob, Proceed, Stages
    <2>2. snapshot' = snapshot \/ Snapshot
      BY <1>3 DEF JobStep, Compress, Upload, Retain, Fetch, Wipe, Extract, DeleteArchive
    <2>3. CASE Snapshot
      <3>1. Job.server \in Servers
        BY <1>0, <2>3 DEF Snapshot, Doing, RestoreInv
      <3> QED BY <1>0, <2>1, <2>3, <3>1 DEF Snapshot
    <2> QED BY <1>0, <2>1, <2>2, <2>3
  <1> QED BY <1>0, <1>1, <1>2, <1>3, OthersHaveEffect

LEMMA BackupTypesContinue ==
    BackupTypes /\ [BackupNext]_backupVars => BackupTypes'
  <1> SUFFICES ASSUME BackupTypes, [BackupNext]_backupVars PROVE BackupTypes'
    OBVIOUS
  <1>0. /\ RunsTyped /\ HeldInv /\ RestoreInv /\ ArchiveInv
        /\ policy \in [Pairs -> {"none", "on", "off"}] /\ backupFaults \in Nat
        /\ edits \in Nat /\ edits + backupFaults <= MaxEvents
        /\ linked \in BOOLEAN /\ aborted \in BOOLEAN /\ collided \subseteq Pairs
        /\ MaxEvents \in Nat
    BY BackupAssumption DEF BackupTypes, RunsTyped
  <1>1. RunsTyped' /\ HeldInv' /\ RestoreInv' /\ ArchiveInv'
    BY <1>0, RunsTypedContinues, HeldContinues, RestoreContinues, ArchivesContinue
  <1> DEFINE Counts == /\ edits' \in Nat /\ edits' + backupFaults' <= MaxEvents
             Links == /\ linked' \in BOOLEAN /\ aborted' \in BOOLEAN
                      /\ collided' \subseteq Pairs
             Policies == policy' \in [Pairs -> {"none", "on", "off"}]
  <1>2. ASSUME \/ UNCHANGED <<edits, backupFaults>>
               \/ Edit /\ UNCHANGED backupFaults
               \/ Fault /\ UNCHANGED edits
        PROVE  Counts
    BY <1>0, <1>2 DEF Edit, Fault
  <1>3. ASSUME UNCHANGED <<policy, linked, history>> PROVE Policies /\ Links
    BY <1>0, <1>3 DEF history
  <1> HIDE DEF Counts, Links, Policies
  <1> SUFFICES Counts /\ Policies /\ Links
    BY <1>1, StagesContinue DEF BackupTypes, Counts, Policies, Links
  <1>4. CASE UNCHANGED backupVars
    BY <1>2, <1>3, <1>4 DEF backupVars
  <1>5. CASE JobStep
    <2>1. \/ UNCHANGED <<edits, backupFaults>> \/ (Fault /\ UNCHANGED edits)
      BY <1>5 DEF JobStep, Compress, Upload, Retain, Fetch, Snapshot, Wipe, Extract,
         DeleteArchive, AgentOnly, rowVars
    <2>2. UNCHANGED <<policy, linked, history>>
      BY <1>5 DEF JobStep, Compress, Upload, Retain, Fetch, Snapshot, Wipe, Extract,
         DeleteArchive, AgentOnly, rowVars
    <2> QED BY <1>2, <1>3, <2>1, <2>2
  <1>6. CASE Dashboard
    <2>1. ASSUME NEW d \in Dests, NEW e \in {"on", "off"}, NEW ps,
                 UpsertDestination(d, e, ps)
          PROVE  Counts /\ Policies /\ Links
      BY <1>0, <1>2, <2>1 DEF UpsertDestination, Policies, Links, history
    <2>2. ASSUME NEW p \in Pairs, NEW e \in {"on", "off"},
                 UpsertPolicy(p, e) \/ SetPolicyEnabled(p, e)
          PROVE  Counts /\ Policies /\ Links
      BY <1>0, <1>2, <2>2 DEF UpsertPolicy, SetPolicyEnabled, Policies, Links, history
    <2>3. ASSUME \/ \E d \in Dests : AskDropDest(d)
                 \/ \E p \in Pairs : AskDropPolicy(p)
          PROVE  Counts /\ Policies /\ Links
      BY <1>2, <1>3, <2>3 DEF AskDropDest, AskDropPolicy, Ask
    <2>4. CASE DropDest \/ DropPolicy
      BY <1>0, <1>2, <2>4 DEF DropDest, DropPolicy, Policies, Links, history
    <2>5. ASSUME \/ \E k, s, d, from : Trigger(k, s, d, from)
                 \/ \E r \in RunIds : DeleteRun(r)
          PROVE  Counts /\ Policies /\ Links
      BY <1>2, <1>3, <2>5 DEF Trigger, DeleteRun
    <2> QED
      BY <1>6, <2>1, <2>2, <2>3, <2>4, <2>5 DEF Dashboard, SetDestinationEnabled
  <1>7. ASSUME NEW q \in Pollers,
               \/ TickBegin(q) \/ TickQueue(q) \/ TickReply(q) \/ TickCutOff(q)
               \/ \E p \in Pairs : TickCheck(q, p)
        PROVE  Counts /\ Policies /\ Links
    <2>1. \/ UNCHANGED <<edits, backupFaults>> \/ (Fault /\ UNCHANGED edits)
      BY <1>7 DEF TickBegin, TickQueue, TickReply, TickCutOff, TickCheck, rowVars
    <2>2. UNCHANGED <<policy, linked>> /\ aborted' \in {aborted, TRUE}
      BY <1>7
      DEF TickBegin, TickQueue, TickReply, TickCutOff, TickCheck, rowVars, history
    <2>4. collided' = collided \/ \E p \in Pairs : collided' = collided \cup {p}
      BY <1>7
      DEF TickBegin, TickQueue, TickReply, TickCutOff, TickCheck, history
    <2>3. Links
      BY <1>0, <2>2, <2>4 DEF Links
    <2> QED BY <1>0, <1>2, <2>1, <2>2, <2>3 DEF Policies
  <1>8. CASE SlotPasses \/ Disconnect \/ AgentCrash \/ Reconnect \/ Deliver
    <2>1. \/ UNCHANGED <<edits, backupFaults>> \/ (Fault /\ UNCHANGED edits)
      BY <1>8 DEF SlotPasses, Disconnect, AgentCrash, Reconnect, Deliver, ApplyEvent,
         rowVars
    <2>2. UNCHANGED <<policy, history>> /\ linked' \in {linked, TRUE, FALSE}
      BY <1>8 DEF SlotPasses, Disconnect, AgentCrash, Reconnect, Deliver, ApplyEvent,
         rowVars
    <2>3. Links
      BY <1>0, <2>2 DEF Links, history
    <2> QED BY <1>0, <1>2, <2>1, <2>2, <2>3 DEF Policies
  <1> QED
    BY <1>4, <1>5, <1>6, <1>7, <1>8 DEF BackupNext, TickStep

-----------------------------------------------------------------------------
(***************************************************************************)
(* The backup panel: a half that edits a policy names the destination of   *)
(* it, so every request that writes a policy names one.                    *)
(***************************************************************************)
PanelRowsTyped ==
    /\ destRow \in [PanelDests -> {"none", "on", "off"}]
    /\ policyRow \in [PanelPolicies -> PolicyRows]
    /\ spent \subseteq PanelDests \cup PanelPolicies
PanelFormsTyped ==
    /\ shownDest \in [PanelDests -> {"none", "on", "off"}]
    /\ shownPolicy \in [PanelPolicies -> PolicyRows]
    /\ destForm \in DestForms /\ policyForm \in PolicyForms
    /\ policyForm.id # "new" => policyForm.dest \in PanelDests
    /\ manual \in PanelDests \cup {"none"}
PanelCallTyped(c) ==
    /\ c.op \in PanelOps /\ c.answer \in {"none", "ok", "error"} /\ c.on \in BOOLEAN
    /\ c.op \in {"savePolicy", "addPolicy"} => c.dest \in PanelDests

PanelTypes ==
    /\ FormInv /\ PanelRowsTyped /\ PanelFormsTyped
    /\ panelBusy \in BOOLEAN /\ sent \in 0..MaxPanelCalls
    /\ \A c \in panelCalls : PanelCallTyped(c)

LEMMA PanelTyping == PanelTypes => PanelTypeOK
  BY DEF PanelTypes, PanelRowsTyped, PanelFormsTyped, PanelCallTyped, PanelTypeOK

LEMMA RequestTyped ==
    ASSUME NEW op \in PanelOps, NEW id, NEW from, NEW dest, NEW on \in BOOLEAN,
           op \in {"savePolicy", "addPolicy"} => dest \in PanelDests
    PROVE  PanelCallTyped(Request(op, id, from, dest, on))
  BY DEF Request, PanelCallTyped

LEMMA SendingIsTyped ==
    ASSUME PanelTypes, NEW c, Sends(c), PanelCallTyped(c)
    PROVE  /\ PanelRowsTyped' /\ PanelFormsTyped'
           /\ panelBusy' \in BOOLEAN /\ sent' \in 0..MaxPanelCalls
           /\ \A d \in panelCalls' : PanelCallTyped(d)
  BY PanelAssumption
  DEF PanelTypes, PanelRowsTyped, PanelFormsTyped, Sends, rowsOfPanel, lists, panelForm

LEMMA WritesAreTyped ==
    ASSUME PanelTypes, NEW c \in panelCalls, Writes(c)
    PROVE  PanelRowsTyped'
  <1>0. /\ destRow \in [PanelDests -> {"none", "on", "off"}]
        /\ policyRow \in [PanelPolicies -> PolicyRows]
        /\ spent \subseteq PanelDests \cup PanelPolicies
        /\ c.op \in PanelOps /\ c.on \in BOOLEAN
        /\ c.op \in {"savePolicy", "addPolicy"} => c.dest \in PanelDests
    BY DEF PanelTypes, PanelRowsTyped, PanelCallTyped
  <1>1. NoPolicy \in PolicyRows /\ OnOff(c.on) \in {"none", "on", "off"}
    BY DEF PolicyRows, OnOff
  <1>2. \A d \in PanelDests, on \in BOOLEAN : [dest |-> d, on |-> on] \in PolicyRows
    BY DEF PolicyRows
  <1>3. destRow' \in [PanelDests -> {"none", "on", "off"}]
    <2>1. \/ destRow' = destRow
          \/ \E d : destRow' = [destRow EXCEPT ![d] = OnOff(c.on)]
          \/ destRow' = [destRow EXCEPT ![c.id] = "none"]
      BY Zenon DEF Writes
    <2> QED BY <1>0, <1>1, <2>1
  <1>4. policyRow' \in [PanelPolicies -> PolicyRows]
    <2>1. WithoutDest(c.id) \in [PanelPolicies -> PolicyRows]
      BY <1>0, <1>1 DEF WithoutDest
    <2>2. ASSUME c.id \in PanelPolicies, policyRow[c.id] # NoPolicy
          PROVE  [policyRow[c.id] EXCEPT !.on = c.on] \in PolicyRows
      BY <1>0, <2>2 DEF PolicyRows
    <2>3. ASSUME NEW p, NEW d \in PanelDests, NEW on \in BOOLEAN,
                 policyRow' = [policyRow EXCEPT ![p] = [dest |-> d, on |-> on]]
          PROVE  policyRow' \in [PanelPolicies -> PolicyRows]
      BY <1>0, <1>2, <2>3
    <2>4. CASE c.op = "saveDest"
      <3>1. \/ policyRow' = policyRow
            \/ \E d \in PanelDests, p \in PanelPolicies :
                  policyRow' = [policyRow EXCEPT ![p] = [dest |-> d, on |-> c.on]]
        BY <2>4 DEF Writes
      <3> QED BY <1>0, <2>3, <3>1
    <2>5. CASE c.op = "savePolicy"
      <3>1. policyRow' = [policyRow EXCEPT ![c.id] = [dest |-> c.dest, on |-> c.on]]
        BY <2>5 DEF Writes
      <3> QED BY <1>0, <2>3, <2>5, <3>1
    <2>6. CASE c.op = "addPolicy"
      <3>1. PICK p : policyRow' = [policyRow EXCEPT ![p] = [dest |-> c.dest, on |-> TRUE]]
        BY <2>6 DEF Writes
      <3>2. TRUE \in BOOLEAN
        OBVIOUS
      <3> QED BY <1>0, <2>3, <2>6, <3>1, <3>2
    <2>7. CASE c.op \in {"dropDest", "dropPolicy"}
      BY <1>0, <1>1, <2>1, <2>7 DEF Writes
    <2>8. CASE c.op = "setPolicy"
      BY <1>0, <2>2, <2>8 DEF Writes
    <2>9. CASE c.op \in {"setDest", "test", "run", "dropRun"}
      BY <1>0, <2>9 DEF Writes
    <2> QED
      BY <1>0, <2>4, <2>5, <2>6, <2>7, <2>8, <2>9 DEF PanelOps
  <1>5. spent' \subseteq PanelDests \cup PanelPolicies
    BY <1>0 DEF Writes, PolicyOfPair
  <1> QED BY <1>3, <1>4, <1>5 DEF PanelRowsTyped

LEMMA LoadsAreTyped ==
    ASSUME PanelTypes, NEW d \in DestForms, NEW p \in PolicyForms, Loads(d, p),
           p.id # "new" => p.dest \in PanelDests
    PROVE  PanelFormsTyped'
  <1>1. PolicyLoaded(p) \in PolicyForms
        /\ (PolicyLoaded(p).id # "new" => PolicyLoaded(p).dest \in PanelDests)
    <2>1. [p EXCEPT !.dest = "none"] \in PolicyForms /\ [p EXCEPT !.dest = "none"].id = p.id
      BY DEF PolicyForms
    <2> QED BY <2>1 DEF PolicyLoaded
  <1> QED
    BY <1>1
    DEF Loads, ManualLoaded, PanelTypes, PanelRowsTyped, PanelFormsTyped

LEMMA PanelTypesContinue == PanelTypes /\ [PanelNext]_panelVars => PanelTypes'
  <1> SUFFICES ASSUME PanelTypes, [PanelNext]_panelVars PROVE PanelTypes'
    OBVIOUS
  <1>0. /\ FormInv /\ PanelRowsTyped /\ PanelFormsTyped
        /\ panelBusy \in BOOLEAN /\ sent \in 0..MaxPanelCalls
        /\ \A c \in panelCalls : PanelCallTyped(c)
        /\ MaxPanelCalls \in Nat
    BY PanelAssumption DEF PanelTypes
  <1>1. FormInv'
    BY <1>0, PanelStep DEF PanelSafe
  <1> DEFINE Typed == /\ PanelRowsTyped' /\ PanelFormsTyped'
                      /\ panelBusy' \in BOOLEAN /\ sent' \in 0..MaxPanelCalls
                      /\ \A c \in panelCalls' : PanelCallTyped(c)
  <1> SUFFICES Typed
    BY <1>1 DEF PanelTypes
  <1>2. ASSUME UNCHANGED rowsOfPanel PROVE PanelRowsTyped'
    BY <1>0, <1>2 DEF PanelRowsTyped, rowsOfPanel
  <1>3. ASSUME UNCHANGED <<lists, panelForm, manual>> PROVE PanelFormsTyped'
    BY <1>0, <1>3 DEF PanelFormsTyped, lists, panelForm
  <1>4. /\ BlankDest \in DestForms /\ BlankPolicy \in PolicyForms /\ BlankPolicy.id = "new"
    BY DEF BlankDest, BlankPolicy, DestForms, PolicyForms
  <1>5. ASSUME NEW d \in DestForms, NEW p \in PolicyForms, Fills(d, p),
               p.id # "new" => p.dest \in PanelDests
        PROVE  Typed
    <2>1. PanelFormsTyped'
      BY <1>0, <1>5 DEF Fills, PanelFormsTyped, lists
    <2> QED BY <1>0, <1>2, <1>5, <2>1 DEF Fills
  <1>6. ASSUME NEW c, Sends(c), PanelCallTyped(c) PROVE Typed
    BY <1>6, SendingIsTyped
  <1>7. CASE UNCHANGED panelVars
    BY <1>0, <1>2, <1>3, <1>7 DEF panelVars, rowsOfPanel, lists, panelForm
  <1>8. ASSUME NEW d \in PanelDests, EditDestination(d) PROVE Typed
    <2>1. [id |-> d, from |-> d, on |-> shownDest[d] = "on"] \in DestForms
      BY DEF DestForms
    <2> QED BY <1>4, <1>5, <1>8, <2>1 DEF EditDestination
  <1>9. ASSUME NEW p \in PanelPolicies, EditPolicy(p) PROVE Typed
    <2>1. shownPolicy[p].dest \in PanelDests /\ shownPolicy[p].on \in BOOLEAN
      BY <1>0, <1>9 DEF EditPolicy, PanelFormsTyped, PolicyRows
    <2>2. [id |-> p, from |-> p, dest |-> shownPolicy[p].dest, on |-> shownPolicy[p].on]
             \in PolicyForms
      BY <2>1 DEF PolicyForms
    <2>3. [destForm EXCEPT !.id = "new"] \in DestForms
      BY <1>0 DEF PanelFormsTyped, DestForms
    <2> QED BY <1>5, <1>9, <2>1, <2>2, <2>3 DEF EditPolicy
  <1>10. CASE CancelEdit
    BY <1>4, <1>5, <1>10 DEF CancelEdit
  <1>11. ASSUME NEW d \in PanelDests, ChoosePolicyDest(d) \/ ChooseManual(d) PROVE Typed
    <2>1. [policyForm EXCEPT !.dest = d] \in PolicyForms
          /\ [policyForm EXCEPT !.dest = d].id = policyForm.id
      BY <1>0 DEF PanelFormsTyped, PolicyForms
    <2>2. PanelFormsTyped'
      BY <1>0, <1>11, <2>1
      DEF ChoosePolicyDest, ChooseManual, PanelFormsTyped, lists, panelForm
    <2> QED BY <1>0, <1>2, <1>11, <2>2 DEF ChoosePolicyDest, ChooseManual
  <1>12. CASE \/ SaveDestination \/ CreatePolicyOnly \/ TestConnection \/ RunManual
              \/ DeleteListedRun
    <2>1. destForm.on \in BOOLEAN /\ TRUE \in BOOLEAN
      BY <1>0 DEF PanelFormsTyped, DestForms
    <2>2. policyForm.dest # "none" => policyForm.dest \in PanelDests
      BY <1>0 DEF PanelFormsTyped, PolicyForms
    <2>3. {"saveDest", "addPolicy", "test", "run", "dropRun"} \subseteq PanelOps
      BY DEF PanelOps
    <2> QED
      BY <1>6, <1>12, <2>1, <2>2, <2>3, RequestTyped
      DEF SaveDestination, CreatePolicyOnly, TestConnection, RunManual, DeleteListedRun
  <1>13. CASE SavePolicyOnly
    <2>1. policyForm.on \in BOOLEAN /\ policyForm.dest \in PanelDests
      BY <1>0, <1>13 DEF SavePolicyOnly, PanelFormsTyped, PolicyForms
    <2> QED BY <1>6, <1>13, <2>1, RequestTyped DEF SavePolicyOnly, PanelOps
  <1>14. ASSUME NEW d \in PanelDests, DeleteDestination(d) \/ ToggleDestination(d)
         PROVE  Typed
    <2>1. (shownDest[d] = "off") \in BOOLEAN /\ TRUE \in BOOLEAN
      OBVIOUS
    <2> QED
      BY <1>6, <1>14, <2>1, RequestTyped DEF DeleteDestination, ToggleDestination, PanelOps
  <1>15. ASSUME NEW p \in PanelPolicies, DeletePolicy(p) \/ TogglePolicy(p) PROVE Typed
    <2>1. (~shownPolicy[p].on) \in BOOLEAN /\ TRUE \in BOOLEAN
      OBVIOUS
    <2> QED
      BY <1>6, <1>15, <2>1, RequestTyped DEF DeletePolicy, TogglePolicy, PanelOps
  <1>16. ASSUME NEW c \in panelCalls, ServePanel(c) PROVE Typed
    <2>1. PICK a \in {"ok", "error"} :
             panelCalls' = (panelCalls \ {c}) \cup {[c EXCEPT !.answer = a]}
      BY <1>16 DEF ServePanel
    <2>2. PanelCallTyped([c EXCEPT !.answer = a])
      <3>1. IsRequest(c) /\ PanelCallTyped(c)
        BY <1>0 DEF FormInv
      <3>2. PICK e : e = [c EXCEPT !.answer = a]
        OBVIOUS
      <3>3. /\ e.op = c.op /\ e.dest = c.dest /\ e.answer = a /\ e.on = c.on
        BY <3>1, <3>2 DEF IsRequest
      <3> QED BY <3>1, <3>2, <3>3 DEF PanelCallTyped
    <2>3. PanelRowsTyped'
      BY <1>2, <1>16, WritesAreTyped DEF ServePanel, rowsOfPanel
    <2>4. UNCHANGED <<lists, panelForm, manual, panelBusy, sent>>
      BY <1>16 DEF ServePanel
    <2> QED BY <1>0, <1>3, <2>1, <2>2, <2>3, <2>4
  <1>17. ASSUME NEW c \in panelCalls, AnswerPanel(c) PROVE Typed
    <2>1. /\ panelCalls' \subseteq panelCalls /\ panelBusy' = FALSE
          /\ UNCHANGED <<rowsOfPanel, sent>>
      BY <1>17 DEF AnswerPanel
    <2>2. /\ DestAfter(c) \in DestForms /\ PolicyAfter(c) \in PolicyForms
          /\ PolicyAfter(c).id # "new" => PolicyAfter(c).dest \in PanelDests
      BY <1>0, <1>4 DEF DestAfter, PolicyAfter, PanelFormsTyped
    <2>3. PanelFormsTyped'
      BY <1>3, <1>17, <2>2, LoadsAreTyped DEF AnswerPanel
    <2> QED BY <1>0, <1>2, <2>1, <2>3
  <1>18. ASSUME NEW c \in panelCalls, LosePanelCall(c) PROVE Typed
    BY <1>0, <1>2, <1>3, <1>18 DEF LosePanelCall
  <1>19. CASE OtherTab
    <2>1. destRow' \in [PanelDests -> {"none", "on", "off"}]
      BY <1>0, <1>19 DEF OtherTab, OnOff, PanelRowsTyped
    <2>2. policyRow' \in [PanelPolicies -> PolicyRows]
      <3>1. NoPolicy \in PolicyRows
        BY DEF PolicyRows
      <3>2. \A d : WithoutDest(d) \in [PanelPolicies -> PolicyRows]
        BY <1>0, <3>1 DEF WithoutDest, PanelRowsTyped
      <3> QED BY <1>0, <1>19, <3>1, <3>2 DEF OtherTab, PanelRowsTyped
    <2>3. /\ UNCHANGED <<spent, lists, panelForm, manual, panelBusy, panelCalls>>
          /\ sent' \in 0..MaxPanelCalls
      BY <1>0, <1>19 DEF OtherTab
    <2> QED BY <1>0, <1>3, <2>1, <2>2, <2>3 DEF PanelRowsTyped
  <1>20. CASE Reload
    <2>1. PanelFormsTyped'
      BY <1>0, <1>20, LoadsAreTyped DEF Reload, PanelFormsTyped
    <2> QED BY <1>0, <1>2, <1>20, <2>1 DEF Reload
  <1> HIDE DEF Typed
  <1> QED
    BY <1>7, <1>8, <1>9, <1>10, <1>11, <1>12, <1>13, <1>14, <1>15, <1>16, <1>17,
       <1>18, <1>19, <1>20 DEF PanelNext

-----------------------------------------------------------------------------
(***************************************************************************)
(* All of them.                                                            *)
(***************************************************************************)
ServicesTypes ==
    /\ BackupTypes /\ PanelTypes /\ EnrollTypes /\ WizardTypes /\ PortTypes
    /\ MappingTypes /\ SteamTypes /\ LogTypes /\ ReportTypes /\ AccountTypes
    /\ BillingTypes

(* A step of the services is a step or a stutter of each.                  *)
LEMMA EachService ==
    [ServicesNext]_servicesVars
       => /\ [BackupNext]_backupVars /\ [PanelNext]_panelVars
          /\ [EnrollNext]_enrollVars /\ [WizardNext]_wizardVars
          /\ [PortNext]_portVars /\ [MappingsNext]_mappingVars
          /\ [SteamNext]_steamVars /\ [InstallLogNext]_logVars
          /\ [HostReportsNext]_reportVars /\ [AccountsNext]_accountVars
          /\ [BillingNext]_billingVars
  BY DEF ServicesNext, servicesVars

LEMMA HostTypesFirst ==
    ServicesInit => /\ SteamTypes /\ PortTypes /\ MappingTypes /\ LogTypes /\ ReportTypes
  <1> SUFFICES ASSUME ServicesInit
               PROVE  /\ SteamTypes /\ PortTypes /\ MappingTypes /\ LogTypes
                      /\ ReportTypes
    OBVIOUS
  <1>0. /\ PortInit /\ MappingsInit /\ SteamInit /\ InstallLogInit /\ HostReportsInit
    BY DEF ServicesInit
  <1>1. SteamTypes
    <2>1. /\ marker \in BOOLEAN /\ loader \in BOOLEAN /\ creds \in BOOLEAN
          /\ retried \in BOOLEAN /\ healed \in BOOLEAN /\ alone \in BOOLEAN
      BY <1>0 DEF SteamInit
    <2>2. /\ at = [p \in Procs |-> "idle"] /\ touched = {} /\ spoiled = {} /\ runs = 0
          /\ outcome = "none" /\ tree = "none" /\ archive = "none"
          /\ started = [p \in Procs |-> 0] /\ steamFaults = 0
      BY <1>0 DEF SteamInit
    <2>3. started \in [Procs -> Nat] /\ started["agent"] = 0 /\ started["login"] = 0
      BY <2>2 DEF Procs
    <2>4. RunsCounted
      BY <2>2 DEF RunsCounted, Procs, Setting
    <2> QED
      BY <2>1, <2>2, <2>3, <2>4, SteamSetupAssumption DEF SteamTypes, SteamTypeOK
  <1>2. PortTypes
    <2>1. /\ moved \in BOOLEAN /\ raced \in BOOLEAN
          /\ \A c \in Creators : creating[c].busy \in BOOLEAN
      BY <1>0 DEF PortInit, Idle
    <2>2. Cardinality(foreign) <= MaxForeign /\ starts \in 0..MaxStarts
      BY <1>0, FS_EmptySet, PortAssumption DEF PortInit
    <2> QED BY <1>0, <2>1, <2>2 DEF PortInit, PortTypes, PortTypeOK
  <1>3. MappingTypes
    <2>1. NoJob \in NetJobs /\ NoJob.aim = "none"
      BY NetJobTyped DEF NoJob
    <2>2. job = NoJob /\ dead \in BOOLEAN
      BY <1>0 DEF MappingsInit
    <2>3. MappingsTypeOK
      BY <1>0, <2>1, <2>2, PortMappingsAssumption DEF MappingsInit, MappingsTypeOK, NetJobs
    <2> QED BY <2>1, <2>2, <2>3 DEF MappingTypes
  <1>4. LogTypes
    BY <1>0, LogBegins, InstallLogAssumption DEF InstallLogInit, LogTypes
  <1>5. ReportTypes
    <2>1. NoMetrics \in Metrics
      BY HostReportsAssumption DEF NoMetrics, Metrics
    <2>2. beat \in [Beats -> [st : {"idle", "address", "posted"}, metrics : Metrics,
                             report : Outcomes \cup {"none"}]]
      BY <1>0, <2>1 DEF HostReportsInit, IdleBeat
    <2>3. prev \in [known : BOOLEAN, bytes : 0..MaxBytes]
      BY <1>0, HostReportsAssumption DEF HostReportsInit
    <2> QED
      BY <1>0, <2>2, <2>3, HostReportsAssumption
      DEF HostReportsInit, ReportTypes, HostReportsTypeOK, Files
  <1> QED BY <1>1, <1>2, <1>3, <1>4, <1>5

LEMMA UserTypesFirst ==
    ServicesInit => /\ BackupTypes /\ PanelTypes /\ EnrollTypes /\ WizardTypes
                    /\ AccountTypes /\ BillingTypes
  <1> SUFFICES ASSUME ServicesInit
               PROVE  /\ BackupTypes /\ PanelTypes /\ EnrollTypes /\ WizardTypes
                      /\ AccountTypes /\ BillingTypes
    OBVIOUS
  <1>0. /\ BackupInit /\ PanelInit /\ EnrollInit /\ WizardInit /\ AccountsInit
        /\ BillingInit
    BY DEF ServicesInit
  <1>1. BackupTypes
    <2>1. linked \in BOOLEAN /\ aborted \in BOOLEAN /\ collided \subseteq Pairs
      BY <1>0 DEF BackupInit
    <2>2. policy \in [Pairs -> {"none", "on", "off"}]
      BY <1>0 DEF BackupInit, Pairs
    <2>3. /\ edits \in Nat /\ edits + backupFaults <= MaxEvents /\ work \in Stages
          /\ snapshot \subseteq Servers
      BY <1>0, BackupAssumption DEF BackupInit, Stages
    <2> QED
      BY <1>0, <2>1, <2>2, <2>3, RunsTypedFirst, HeldBegins, RestoreBegins, ArchivesBegin
      DEF BackupTypes
  <1>2. PanelTypes
    <2>1. BlankDest \in DestForms /\ BlankPolicy \in PolicyForms /\ BlankPolicy.id = "new"
      BY DEF BlankDest, BlankPolicy, DestForms, PolicyForms
    <2>2. panelBusy \in BOOLEAN
      BY <1>0 DEF PanelInit
    <2>3. PanelRowsTyped
      BY <1>0 DEF PanelInit, PanelRowsTyped
    <2>4. PanelFormsTyped
      BY <1>0, <2>1 DEF PanelInit, PanelFormsTyped
    <2> QED
      BY <1>0, <2>2, <2>3, <2>4, FormBegins, PanelAssumption DEF PanelInit, PanelTypes
  <1>3. EnrollTypes
    BY <1>0, EnrollBegins, EnrollmentAssumption
    DEF EnrollInit, EnrollTypes, EnrollTypeOK, EnrollInv, RowsTyped
  <1>4. WizardTypes
    BY <1>0, WizardBegins, WizardAssumption DEF WizardInit, WizardTypes
  <1>5. AccountTypes
    BY <1>0, AccountsAssumption DEF AccountsInit, AccountTypes, AccountsTypeOK
  <1>6. BillingTypes
    <2>1. BillingTyped
      BY <1>0, BillingBegins DEF BillingInv
    <2>2. disorder \in BOOLEAN
      BY <1>0 DEF BillingInit
    <2>3. /\ checkout \in [Payers -> 0..2] /\ events = {} /\ emitted \in 0..MaxStripeEvents
      BY <1>0, BillingAssumption DEF BillingInit
    <2> QED
      BY <2>1, <2>2, <2>3 DEF BillingTypes, BillingTypeOK, BillingTyped, SubRows
  <1> QED BY <1>1, <1>2, <1>3, <1>4, <1>5, <1>6

(* The type invariant of the services, for any number of hosts, servers,   *)
(* users, requests and failures: every row, job, form, request and message *)
(* of each is one that its module names, also where it is read back from a *)
(* queue, an answer or a list of the page.                                 *)
THEOREM ServicesTypesHold == ServicesSpec => []ServicesTypeOK
  <1>1. ServicesInit => ServicesTypes
    BY HostTypesFirst, UserTypesFirst DEF ServicesTypes
  <1>2. ServicesTypes /\ [ServicesNext]_servicesVars => ServicesTypes'
    BY EachService, BackupTypesContinue, PanelTypesContinue, EnrollTypesContinue,
       WizardTypesHold, PortTypesContinue, MappingTypesContinue, SteamTypesContinue,
       LogTypesHold, ReportTypesContinue, AccountTypesContinue, BillingBoundsContinue
    DEF ServicesTypes
  <1>3. ServicesTypes => ServicesTypeOK
    BY BackupTyping, PanelTyping, WizardTyping, LogTyping
    DEF ServicesTypes, ServicesTypeOK, EnrollTypes, PortTypes, MappingTypes,
        SteamTypes, ReportTypes, AccountTypes, BillingTypes
  <1> QED BY <1>1, <1>2, <1>3, PTL DEF ServicesSpec
=============================================================================
