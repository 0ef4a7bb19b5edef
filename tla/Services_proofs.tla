--------------------------- MODULE Services_proofs ---------------------------
(***************************************************************************)
(* The services around the servers - the SteamCMD tree, ports, the         *)
(* mappings on routers, accounts, billing, the reports of a machine, the   *)
(* slots of a backup policy - for any number of servers, users, requests,  *)
(* links, events, beats, faults and retries.                               *)
(***************************************************************************)
EXTENDS SteamSetup, PortAllocation, PortMappings, Accounts, Billing,
        HostReports, BackupSchedule, TLAPS, FiniteSetTheorems,
        WellFoundedInduction

-----------------------------------------------------------------------------
(***************************************************************************)
(* SteamCMD.  As long as no two processes set it up at the same time, a    *)
(* process between the check of the marker and its own mark works on a     *)
(* tree without a marker, and nobody unpacks where another one broke off.  *)
(***************************************************************************)
Fetching == {"fetch", "write", "tar", "unpack", "mark"}

SteamTyped ==
    /\ at \in [Procs -> Setting \cup {"idle", "plan", "steam", "exited"}]
    /\ spoiled \subseteq Procs /\ alone \in BOOLEAN /\ marker \in BOOLEAN

AloneInv ==
    /\ \A p \in Procs : at[p] \in Setting => at[Other(p)] \notin Setting
    /\ spoiled = {}
    /\ marker => tree = "whole"
    /\ \A p \in Procs :
          /\ at[p] \in Fetching => ~marker
          /\ at[p] = "mark" => tree = "whole"

SteamInv == SteamTyped /\ (alone => AloneInv)

LEMMA OtherIsOther ==
    \A p \in Procs : /\ Other(p) \in Procs \ {p}
                     /\ \A q \in Procs : q = p \/ q = Other(p)
  <1> SUFFICES ASSUME NEW p \in Procs
               PROVE  /\ Other(p) \in Procs \ {p}
                      /\ \A q \in Procs : q = p \/ q = Other(p)
    OBVIOUS
  <1>1. \E q \in Procs : q # p
    BY DEF Procs
  <1>2. Other(p) \in Procs /\ Other(p) # p
    BY <1>1 DEF Other
  <1> QED BY <1>2 DEF Procs

(* A process that moves on without touching the tree or the marker, and    *)
(* not into the steps between the check and the mark, disturbs nothing.    *)
LEMMA MovesAside ==
  ASSUME SteamTyped, AloneInv, NEW p \in Procs, NEW step,
         at' = [at EXCEPT ![p] = step], step \notin Fetching,
         step \in Setting => at[Other(p)] \notin Setting,
         UNCHANGED <<marker, tree, spoiled>>
  PROVE  AloneInv'
  <1>1. at'[p] = step /\ \A q \in Procs \ {p} : at'[q] = at[q]
    BY DEF SteamTyped
  <1>2. \A q \in Procs : at'[q] \in Fetching => at[q] \in Fetching /\ at'[q] = at[q]
    BY <1>1
  <1>3. ASSUME NEW q \in Procs, at'[q] \in Setting PROVE at'[Other(q)] \notin Setting
    <2>1. CASE q = p
      BY <2>1, <1>1, <1>3, OtherIsOther
    <2>2. CASE q = Other(p)
      <3>1. Other(q) = p
        BY <2>2, OtherIsOther
      <3>2. at[q] \in Setting
        BY <2>2, <1>1, <1>3, OtherIsOther
      <3> QED BY <2>2, <3>1, <3>2, <1>1
    <2> QED BY <2>1, <2>2, OtherIsOther
  <1>4. \A q \in Procs : at'[q] = "mark" => at'[q] \in Fetching
    BY DEF Fetching
  <1> QED BY <1>2, <1>3, <1>4 DEF AloneInv

LEMMA SteamBegins == SteamInit => SteamInv
  BY DEF SteamInit, SteamInv, SteamTyped, AloneInv, Setting, Fetching

LEMMA SteamContinues == SteamInv /\ [SteamNext]_steamVars => SteamInv'
  <1> SUFFICES ASSUME SteamInv, [SteamNext]_steamVars PROVE SteamInv'
    OBVIOUS
  <1> USE OtherIsOther
  <1> USE DEF SteamInv, SteamTyped, AloneInv, Setting, Fetching, Goes
  <1>1. CASE UNCHANGED steamVars
    BY <1>1 DEF steamVars, cache, unpacking, install
  <1>2. ASSUME NEW p \in Procs, Ensure(p) PROVE SteamInv'
    <2>1. SteamTyped'
      BY <1>2 DEF Ensure, unpacking
    <2>2. ASSUME alone' PROVE AloneInv'
      <3>1. /\ alone /\ at[Other(p)] \notin Setting
            /\ at' = [at EXCEPT ![p] = "check"]
            /\ UNCHANGED <<marker, tree, spoiled>>
        BY <1>2, <2>2 DEF Ensure, unpacking
      <3> QED BY <3>1, MovesAside
    <2> QED BY <2>1, <2>2
  <1>3. ASSUME NEW p \in Procs, CheckMarker(p) PROVE SteamInv'
    BY <1>3 DEF CheckMarker, Throws, cache, unpacking, Resolves, MayNotResolve
  <1>4. ASSUME NEW p \in Procs, OpenArchive(p) PROVE SteamInv'
    BY <1>4 DEF OpenArchive, install
  <1>5. ASSUME NEW p \in Procs, WriteArchive(p) PROVE SteamInv'
    BY <1>5 DEF WriteArchive, unpacking, install
  <1>6. ASSUME NEW p \in Procs, ExtractStarts(p) PROVE SteamInv'
    BY <1>6 DEF ExtractStarts, install
  <1>7. ASSUME NEW p \in Procs, ExtractEnds(p) PROVE SteamInv'
    BY <1>7 DEF ExtractEnds, unpacking, install
  <1>8. ASSUME NEW p \in Procs, ExtractFails(p) PROVE SteamInv'
    <2>1. SteamTyped'
      BY <1>8 DEF ExtractFails, Throws, cache
    <2>2. ASSUME alone' PROVE AloneInv'
      <3>1. /\ alone /\ at' = [at EXCEPT ![p] = "idle"]
            /\ UNCHANGED <<marker, tree>>
        BY <1>8, <2>2 DEF ExtractFails, Throws, cache
      <3>2. UNCHANGED spoiled
        BY <1>8, <3>1 DEF ExtractFails
      <3> QED BY <3>1, <3>2, MovesAside
    <2> QED BY <2>1, <2>2
  <1>9. ASSUME NEW p \in Procs, Mark(p) PROVE SteamInv'
    <2>1. SteamTyped'
      BY <1>9 DEF Mark, Throws, unpacking
    <2>2. ASSUME alone' PROVE AloneInv'
      <3>1. /\ alone /\ tree = "whole" /\ at[p] \in Setting
            /\ marker' = TRUE /\ at' = [at EXCEPT ![p] = "loader"]
            /\ UNCHANGED <<tree, spoiled>>
        BY <1>9, <2>2 DEF Mark, Throws, MayNotResolve, unpacking
      <3>2. at'[p] = "loader" /\ at'[Other(p)] \notin Setting
        BY <3>1
      <3>3. \A q \in Procs : at'[q] \notin Fetching
        BY <3>2, OtherIsOther
      <3>4. \A q \in Procs : at'[q] \in Setting => at'[Other(q)] \notin Setting
        BY <3>2, OtherIsOther
      <3>5. \A q \in Procs : at'[q] # "mark"
        BY <3>3
      <3> QED BY <3>1, <3>3, <3>4, <3>5
    <2> QED BY <2>1, <2>2
  <1>10. ASSUME NEW p \in Procs, EnsureLoader(p) PROVE SteamInv'
    <2>1. SteamTyped'
      BY <1>10 DEF EnsureLoader, Throws, unpacking
    <2>2. ASSUME alone' PROVE AloneInv'
      <3>1. /\ alone /\ \E s \in {"plan", "steam", "idle"} : at' = [at EXCEPT ![p] = s]
            /\ UNCHANGED <<marker, tree, spoiled>>
        BY <1>10, <2>2 DEF EnsureLoader, Throws, unpacking
      <3> QED BY <3>1, MovesAside
    <2> QED BY <2>1, <2>2
  <1>11. ASSUME NEW p \in Procs, CallFails(p) PROVE SteamInv'
    <2>1. SteamTyped'
      BY <1>11 DEF CallFails, Throws, SteamFault, cache
    <2>2. ASSUME alone' PROVE AloneInv'
      <3>1. /\ alone /\ at' = [at EXCEPT ![p] = "idle"]
            /\ UNCHANGED <<marker, tree>>
        BY <1>11, <2>2 DEF CallFails, Throws, SteamFault, cache
      <3>2. UNCHANGED spoiled
        BY <1>11, <3>1 DEF CallFails
      <3> QED BY <3>1, <3>2, MovesAside
    <2> QED BY <2>1, <2>2
  <1>12. ASSUME NEW p \in Procs, Dies(p) PROVE SteamInv'
    BY <1>12 DEF Dies, SteamFault, cache
  <1>13. ASSUME NEW b \in BOOLEAN, Plan(b) PROVE SteamInv'
    BY <1>13 DEF Plan, Throws, cache, unpacking, Procs
  <1>14. ASSUME NEW b \in BOOLEAN, Heal(b) PROVE SteamInv'
    BY <1>14 DEF Heal, Throws, unpacking, Procs
  <1>15. CASE SteamExits
    BY <1>15 DEF SteamExits, cache, unpacking, Procs
  <1>16. CASE LoginEnds
    BY <1>16 DEF LoginEnds, cache, unpacking, install, Procs
  <1>17. CASE CooldownPasses \/ CredentialsArrive
    BY <1>17 DEF CooldownPasses, CredentialsArrive, cache, unpacking
  <1> QED
    BY <1>1, <1>2, <1>3, <1>4, <1>5, <1>6, <1>7, <1>8, <1>9, <1>10, <1>11,
       <1>12, <1>13, <1>14, <1>15, <1>16, <1>17
    DEF SteamNext

(* The marker names a complete tree, whatever dies or fails at whichever   *)
(* step and however often: an installation that finds .ready finds all of  *)
(* SteamCMD - unless steam-login ran beside a provisioning agent.          *)
THEOREM MarkerNamesWholeTree == SteamSpec => []MarkerIsTrue
  <1>1. SteamInv => MarkerIsTrue
    BY DEF SteamInv, AloneInv, MarkerIsTrue
  <1> QED BY <1>1, SteamBegins, SteamContinues, PTL DEF SteamSpec

-----------------------------------------------------------------------------
(***************************************************************************)
(* Ports.  The search returns a pair that is free of the ports it was told *)
(* of; that is all the two searches of the code have in common.            *)
(***************************************************************************)
LEMMA MinIsSmallest ==
  ASSUME NEW S, S \subseteq Nat, S # {}
  PROVE  Min(S) \in S /\ \A n \in S : Min(S) <= n
  <1>1. PICK m \in S : \A n \in S : ~ (<<n, m>> \in OpToRel(<, Nat))
    BY NatLessThanWellFounded, WFMin
  <1>2. \A n \in S : ~(n < m)
    <2>1. ASSUME NEW n \in S, n < m PROVE FALSE
      <3>1. <<n, m>> \in Nat \X Nat /\ <<n, m>>[1] < <<n, m>>[2]
        BY <2>1
      <3>2. <<n, m>> \in OpToRel(<, Nat)
        BY <3>1 DEF OpToRel
      <3> QED BY <1>1, <3>2
    <2> QED BY <2>1
  <1>3. \A n \in S : m <= n
    BY <1>2
  <1> QED BY <1>3 DEF Min

(* The search, when it finds a pair of ports: one that is free of the      *)
(* ports in use.                                                           *)
LEMMA FoundPairFits ==
  ASSUME NEW used, NEW start \in Nat, NEW stride \in Nat, NEW tries \in Nat
  PROVE  LET found == FirstFits(used, start, stride, tries) IN
         /\ found \in Nat
         /\ found # 0 => Pair(found) \cap used = {}
  <1> DEFINE fit == {k \in 0..(tries - 1) : Fits(used, start, stride, k)}
  <1>1. CASE fit = {}
    BY <1>1 DEF FirstFits
  <1>2. CASE fit # {}
    <2>1. fit \subseteq Nat
      OBVIOUS
    <2>2. PICK k : k = Min(fit)
      OBVIOUS
    <2>3. k \in fit
      BY <1>2, <2>1, <2>2, MinIsSmallest
    <2>4. FirstFits(used, start, stride, tries) = start + k * stride
      BY <1>2, <2>2 DEF FirstFits
    <2>5. k \in Nat /\ Pair(start + k * stride) \cap used = {}
      BY <2>1, <2>3 DEF Fits
    <2>6. start + k * stride \in Nat
      BY <2>5
    <2> QED BY <2>4, <2>5, <2>6
  <1> QED BY <1>1, <1>2

(* Servers are started with ports of their own while nothing came between  *)
(* a probe and its bind.  The rows are apart, and servers are started with *)
(* the ports of their rows, as long as no creates overlapped and no launch *)
(* moved; the create under way has seen every port the rows then have.     *)
PortsTyped ==
    /\ ports \in [Instances -> Nat] /\ given \in [Instances -> Nat]
    /\ bound \subseteq {s \in Instances : given[s] # 0}
    /\ creating = [c \in Creators |-> creating[c]]
    /\ moved \in BOOLEAN /\ raced \in BOOLEAN

GivenInv == Apart(given) /\ Taken(given) \cap foreign = {}

RowsApart ==
    /\ Apart(ports)
    /\ \A s \in Instances : given[s] # 0 => given[s] = ports[s]
    /\ \A c, d \in Creators : creating[c].busy /\ creating[d].busy => c = d
    /\ \A c \in Creators : creating[c].busy => Taken(ports) \subseteq creating[c].used

PortsInv == PortsTyped /\ (~raced => GivenInv) /\ (~moved => RowsApart)

LEMMA PortsBegin == PortInit => PortsInv
  <1> SUFFICES ASSUME PortInit PROVE PortsInv
    OBVIOUS
  <1>1. /\ \A s \in Instances : ports[s] = 0 /\ given[s] = 0
        /\ \A c \in Creators : creating[c] = Idle
        /\ bound = {} /\ foreign = {}
    BY DEF PortInit
  <1>2. PortsTyped
    <2>1. moved \in BOOLEAN /\ raced \in BOOLEAN
      BY DEF PortInit
    <2> QED BY <2>1 DEF PortInit, PortsTyped
  <1>3. GivenInv
    BY <1>1 DEF GivenInv, Apart
  <1>4. RowsApart
    BY <1>1 DEF RowsApart, Apart, Idle
  <1> QED BY <1>2, <1>3, <1>4 DEF PortsInv

(* The ports a probe chose collide with nothing, unless the probe found    *)
(* none or some server had not bound its own.                              *)
LEMMA LaunchChooses ==
    ASSUME PortsInv, NEW s \in Instances, NEW stride \in Strides,
           LaunchServer(s, stride)
    PROVE  \E p \in Nat :
              /\ given' = [given EXCEPT ![s] = p] /\ given[s] = 0
              /\ ~moved' => ~moved /\ p = ports[s]
              /\ ~raced' => ~raced /\ Pair(p) \cap (foreign \cup Taken(given)) = {}
              /\ moved' \in BOOLEAN /\ raced' \in BOOLEAN
              /\ UNCHANGED <<ports, creating, bound, foreign>>
  <1>1. PICK free : free = FirstFits(foreign \cup HeldPorts, ports[s], stride, Probes)
    OBVIOUS
  <1>2. free \in Nat /\ (free # 0 => Pair(free) \cap (foreign \cup HeldPorts) = {})
    BY <1>1, FoundPairFits, PortAssumption DEF PortsInv, PortsTyped
  <1>3. PICK p : p = IF free = 0 THEN ports[s] ELSE free
    OBVIOUS
  <1>4. /\ given[s] = 0 /\ given' = [given EXCEPT ![s] = p]
        /\ moved' = (moved \/ free \notin {0, ports[s]})
        /\ raced' = (raced \/ free = 0 \/ \E t \in Instances \ bound : given[t] # 0)
        /\ UNCHANGED <<ports, creating, bound, foreign>>
    BY <1>1, <1>3 DEF LaunchServer
  <1>5. p \in Nat
    BY <1>2, <1>3 DEF PortsInv, PortsTyped
  <1>6. ~moved' => ~moved /\ p = ports[s]
    BY <1>3, <1>4
  <1>7. ASSUME ~raced' PROVE ~raced /\ Pair(p) \cap (foreign \cup Taken(given)) = {}
    <2>1. ~raced /\ free # 0 /\ \A t \in Instances : given[t] # 0 => t \in bound
      BY <1>4, <1>7
    <2>2. Taken(given) \subseteq HeldPorts
      BY <2>1 DEF Taken, HeldPorts
    <2> QED BY <1>2, <1>3, <2>1, <2>2
  <1>8. moved' \in BOOLEAN /\ raced' \in BOOLEAN
    BY <1>4 DEF PortsInv, PortsTyped
  <1> QED BY <1>4, <1>5, <1>6, <1>7, <1>8

LEMMA PortsContinue == PortsInv /\ [PortNext]_portVars => PortsInv'
  <1> SUFFICES ASSUME PortsInv, [PortNext]_portVars PROVE PortsInv'
    OBVIOUS
  <1> USE DEF PortsInv
  <1>1. CASE UNCHANGED portVars
    BY <1>1 DEF portVars, PortsTyped, GivenInv, RowsApart, Apart, Taken
  <1>2. ASSUME NEW c \in Creators, ReadSiblings(c) PROVE PortsInv'
    <2>1. /\ ~creating[c].busy /\ moved' = (moved \/ \E d \in Creators : creating[d].busy)
          /\ creating' = [creating EXCEPT ![c] = [busy |-> TRUE, used |-> Taken(ports)]]
          /\ UNCHANGED <<ports, given, bound, foreign, raced>>
      BY <1>2 DEF ReadSiblings
    <2>2. PortsTyped' /\ (~raced' => GivenInv')
      BY <2>1 DEF PortsTyped, GivenInv, Apart, Taken
    <2>3. ASSUME ~moved' PROVE RowsApart'
      <3>1. ~moved /\ \A d \in Creators : ~creating[d].busy
        BY <2>1, <2>3
      <3>2. \A d \in Creators \ {c} : ~creating'[d].busy
        BY <2>1, <3>1 DEF PortsTyped
      <3>3. creating'[c].used = Taken(ports)
        BY <2>1 DEF PortsTyped
      <3>4. Taken(ports)' = Taken(ports)
        BY <2>1 DEF Taken
      <3> QED BY <2>1, <3>1, <3>2, <3>3, <3>4 DEF RowsApart, Apart
    <2> QED BY <2>2, <2>3
  <1>3. ASSUME NEW c \in Creators, NEW s \in Instances, NEW base \in Bases,
               NEW stride \in Strides, InsertServer(c, s, base, stride)
        PROVE  PortsInv'
    <2>1. PICK p : p = FirstFits(creating[c].used, base, stride, Tries)
      OBVIOUS
    <2>2. p \in Nat /\ (p # 0 => Pair(p) \cap creating[c].used = {})
      BY <2>1, FoundPairFits, PortAssumption
    <2>3. /\ creating[c].busy /\ ports[s] = 0 /\ ports' = [ports EXCEPT ![s] = p]
          /\ creating' = [creating EXCEPT ![c] = Idle]
          /\ UNCHANGED <<given, bound, foreign, moved, raced>>
      BY <1>3, <2>1 DEF InsertServer
    <2>4. PortsTyped' /\ (~raced' => GivenInv')
      BY <2>2, <2>3 DEF PortsTyped, GivenInv, Apart, Taken
    <2>5. ASSUME ~moved PROVE RowsApart'
      <3>1. \A d \in Creators : ~creating'[d].busy
        BY <2>3, <2>5 DEF RowsApart, PortsTyped, Idle
      <3>2. Apart(ports)'
        BY <2>2, <2>3, <2>5 DEF RowsApart, PortsTyped, Apart, Taken
      <3>3. \A t \in Instances : given'[t] # 0 => given'[t] = ports'[t]
        BY <2>3, <2>5 DEF RowsApart, PortsTyped
      <3> QED BY <3>1, <3>2, <3>3 DEF RowsApart
    <2> QED BY <2>3, <2>4, <2>5
  <1>4. ASSUME NEW s \in Instances, RemoveServer(s) PROVE PortsInv'
    BY <1>4 DEF RemoveServer, PortsTyped, GivenInv, RowsApart, Apart, Taken
  <1>5. ASSUME NEW s \in Instances, NEW stride \in Strides, LaunchServer(s, stride)
        PROVE  PortsInv'
    <2>1. PICK p \in Nat :
             /\ given' = [given EXCEPT ![s] = p] /\ given[s] = 0
             /\ ~moved' => ~moved /\ p = ports[s]
             /\ ~raced' => ~raced /\ Pair(p) \cap (foreign \cup Taken(given)) = {}
             /\ moved' \in BOOLEAN /\ raced' \in BOOLEAN
             /\ UNCHANGED <<ports, creating, bound, foreign>>
      BY <1>5, LaunchChooses
    <2>2. PortsTyped'
      BY <2>1 DEF PortsTyped
    <2>3. ~raced' => GivenInv'
      BY <2>1 DEF PortsTyped, GivenInv, Apart, Taken
    <2>4. ~moved' => RowsApart'
      BY <2>1 DEF PortsTyped, RowsApart, Apart, Taken
    <2> QED BY <2>2, <2>3, <2>4
  <1>6. ASSUME NEW s \in Instances, BindPorts(s) PROVE PortsInv'
    BY <1>6 DEF BindPorts, PortsTyped, GivenInv, RowsApart, Apart, Taken
  <1>7. ASSUME NEW s \in Instances, ReportPorts(s) PROVE PortsInv'
    <2>1. PortsTyped' /\ (~raced' => GivenInv')
      BY <1>7 DEF ReportPorts, PortsTyped, GivenInv, Apart, Taken
    <2>2. ASSUME ~moved PROVE RowsApart'
      <3>1. ports' = ports
        BY <1>7, <2>2 DEF ReportPorts, RowsApart, PortsTyped
      <3> QED BY <1>7, <2>2, <3>1 DEF ReportPorts, RowsApart, Apart, Taken
    <2> QED BY <1>7, <2>1, <2>2 DEF ReportPorts
  <1>8. ASSUME NEW s \in Instances, StopServer(s) PROVE PortsInv'
    BY <1>8 DEF StopServer, PortsTyped, GivenInv, RowsApart, Apart, Taken
  <1>9. ASSUME NEW p, Foreign(p) PROVE PortsInv'
    <2>1. /\ foreign' \subseteq foreign \cup {p}
          /\ raced' = (raced \/ p \in Taken(given))
          /\ UNCHANGED <<ports, creating, given, bound, moved>>
      BY <1>9 DEF Foreign
    <2>2. PortsTyped' /\ (~moved' => RowsApart')
      BY <2>1 DEF PortsTyped, RowsApart, Apart, Taken
    <2>3. ~raced' => GivenInv'
      BY <2>1 DEF GivenInv, Apart, Taken
    <2> QED BY <2>2, <2>3
  <1> QED
    BY <1>1, <1>2, <1>3, <1>4, <1>5, <1>6, <1>7, <1>8, <1>9 DEF PortNext

(* For any bases, strides and numbers of tries and of launches, the rows   *)
(* have ports of their own, and servers are started with them, as long as  *)
(* no two creates overlapped and no launch moved a server; and servers are *)
(* started with ports of their own, none of which another program has, as  *)
(* long as nothing came between a probe and the bind of its game           *)
(* (allocateNextPortSet, runDedicatedLaunchPhase).                         *)
THEOREM PortsStayApart == PortSpec => []PortsApart
  <1>1. PortsInv => PortsApart
    <2> SUFFICES ASSUME PortsInv PROVE PortsApart
      OBVIOUS
    <2>1. ~moved => Apart(ports) /\ Apart(given)
      BY DEF PortsInv, RowsApart, Apart
    <2> QED BY <2>1 DEF PortsInv, GivenInv, PortsApart
  <1> QED BY <1>1, PortsBegin, PortsContinue, PTL DEF PortSpec

-----------------------------------------------------------------------------
(***************************************************************************)
(* Port mappings.  A job says what may be open besides what the files      *)
(* name: nothing when a launch starts, what a launch was given and has not *)
(* saved, what a teardown has not tried yet.                               *)
(***************************************************************************)
LaunchSteps == {"rules", "discover", "map", "save", "report"}
TeardownSteps == {"unmap", "unrule", "done"}

JobTyped ==
    /\ job = [step |-> job.step, aim |-> job.aim, want |-> job.want,
              todo |-> job.todo, left |-> job.left, got |-> job.got]
    /\ job.step \in {"none"} \cup LaunchSteps \cup TeardownSteps
    /\ job.step = "none" => job = NoJob
    /\ job.step \in LaunchSteps => job.aim = "launch"

RouterInv ==
    mapped \subseteq strays \cup
        CASE job.step \in {"none", "report"} -> mapFile
          [] job.step \in {"discover", "map", "save"} -> job.got
          [] job.step = "unmap" -> mapFile \cap job.left
          [] OTHER -> {}

RulesInv ==
    rules \subseteq
        strays \cup (IF job.step \in {"rules", "done"} THEN {} ELSE ruleFile)

AllClosed == mapped \cup rules \subseteq strays

RowInv ==
    /\ row \in {"stopped", "failed", "gone"} => job = NoJob
    /\ row = "starting" => job.step \notin TeardownSteps
    /\ row \in {"stopped", "failed", "gone", "starting"} /\ job = NoJob => AllClosed

MappingsInv == JobTyped /\ RouterInv /\ RulesInv /\ RowInv

LEMMA MappingsBegin == MappingsInit => MappingsInv
  BY DEF MappingsInit, MappingsInv, JobTyped, RouterInv, RulesInv, RowInv,
         AllClosed, NoJob, NetJob, LaunchSteps, TeardownSteps

LEMMA MappingsContinue ==
    MappingsInv /\ [MappingsNext]_mappingVars => MappingsInv'
  <1> SUFFICES ASSUME MappingsInv, [MappingsNext]_mappingVars PROVE MappingsInv'
    OBVIOUS
  <1> USE DEF MappingsInv, JobTyped, RouterInv, RulesInv, RowInv, AllClosed,
              LaunchSteps, TeardownSteps
  <1>0. /\ NoJob.step = "none" /\ NoJob.aim = "none" /\ NoJob.got = {}
        /\ job = NoJob => job.step = "none"
    BY DEF NoJob, NetJob
  <1>1. CASE UNCHANGED mappingVars
    BY <1>1 DEF mappingVars, router, windows
  <1>2. CASE UserAsks
    BY <1>0, <1>2 DEF UserAsks, router, windows
  <1>3. CASE ProcessDies
    BY <1>3 DEF ProcessDies, router, windows
  <1>4. CASE BeginLaunch
    <2>1. PICK want : job' = Launch(want)
      BY <1>4 DEF BeginLaunch
    <2>2. /\ job = NoJob /\ row = "starting"
          /\ UNCHANGED <<row, mapped, mapFile, rules, ruleFile, strays>>
      BY <1>4 DEF BeginLaunch, router, windows
    <2> QED BY <1>0, <2>1, <2>2 DEF Launch, NoJob, NetJob
  <1>5. CASE BeginTeardown
    <2>1. PICK aim : job' = Teardown(aim)
      BY <1>5 DEF BeginTeardown
    <2>2. /\ job = NoJob /\ row \in {"stopping", "pending_delete", "running"}
          /\ UNCHANGED <<row, mapped, mapFile, rules, ruleFile, strays>>
      BY <1>5 DEF BeginTeardown, router, windows
    <2> QED BY <1>0, <2>1, <2>2 DEF Teardown, NoJob, NetJob
  <1>6. CASE ApplyRules
    BY <1>0, <1>6 DEF ApplyRules, router, windows
  <1>7. CASE Discover
    BY <1>0, <1>7 DEF Discover, router, windows
  <1>8. CASE AddMapping
    BY <1>0, <1>8 DEF AddMapping, router, windows
  <1>9. CASE NextGateway
    <2>1. /\ job.step = "map" /\ UNCHANGED <<row, mapped, mapFile, rules, ruleFile, strays>>
      BY <1>9 DEF NextGateway, router, windows
    <2>2. \/ job' = [job EXCEPT !.step = "save", !.todo = <<>>]
          \/ \E todo, left : job' = [job EXCEPT !.todo = todo, !.left = left]
      BY <1>9 DEF NextGateway
    <2>3. CASE job' = [job EXCEPT !.step = "save", !.todo = <<>>]
      BY <1>0, <2>1, <2>3
    <2>4. ASSUME NEW todo, NEW left, job' = [job EXCEPT !.todo = todo, !.left = left]
          PROVE  MappingsInv'
      BY <1>0, <2>1, <2>4
    <2> QED BY <2>2, <2>3, <2>4
  <1>10. CASE SaveMappings
    BY <1>0, <1>10 DEF SaveMappings, router, windows
  <1>11. CASE ReportLaunch
    BY <1>0, <1>11 DEF ReportLaunch, Unsettled, router, windows, NoJob, NetJob
  <1>12. CASE RemoveMapping
    BY <1>0, <1>12 DEF RemoveMapping, router, windows
  <1>13. CASE ForgetMappings
    BY <1>0, <1>13 DEF ForgetMappings, router, windows
  <1>14. CASE RemoveRules
    BY <1>0, <1>14 DEF RemoveRules, router, windows
  <1>15. CASE TornDown
    <2>1. /\ job.step = "done"
          /\ UNCHANGED <<mapped, mapFile, rules, ruleFile, strays>>
      BY <1>15 DEF TornDown, router, windows
    <2>2. \/ job' = NoJob /\ row' \in {"stopped", "gone"}
          \/ UNCHANGED row /\ \E want : job' = Launch(want)
      BY <1>15 DEF TornDown
    <2>3. CASE job' = NoJob /\ row' \in {"stopped", "gone"}
      BY <1>0, <2>1, <2>3 DEF NoJob, NetJob
    <2>4. ASSUME UNCHANGED row, NEW want, job' = Launch(want) PROVE MappingsInv'
      BY <1>0, <2>1, <2>4 DEF Launch, NoJob, NetJob
    <2> QED BY <2>2, <2>3, <2>4
  <1>16. CASE AgentDies
    BY <1>0, <1>16 DEF AgentDies, Unsettled, router, windows, NoJob, NetJob
  <1>17. CASE LeaseEnds
    BY <1>17 DEF LeaseEnds, router, windows
  <1> QED
    BY <1>1, <1>2, <1>3, <1>4, <1>5, <1>6, <1>7, <1>8, <1>9, <1>10, <1>11,
       <1>12, <1>13, <1>14, <1>15, <1>16, <1>17 DEF MappingsNext

(* While the agent does nothing for a server, its files name every mapping *)
(* and rule it has, and there is none once it was stopped or deleted,      *)
(* whatever the gateways answer and wherever a launch or teardown broke    *)
(* off (tryGatewayMappings, tearDownNetworkingForInstance) - but for what  *)
(* a fault, a death or a launch that was not reported touched.             *)
THEOREM NothingStaysOpen == MappingsSpec => []NothingLeftOpen
  <1>1. MappingsInv => NothingLeftOpen
    BY DEF MappingsInv, RouterInv, RulesInv, RowInv, AllClosed, NothingLeftOpen, NoJob, NetJob
  <1> QED BY <1>1, MappingsBegin, MappingsContinue, PTL DEF MappingsSpec

-----------------------------------------------------------------------------
(***************************************************************************)
(* Accounts.  Of a user whose requests never overlapped, one request at    *)
(* most is under way, and its step says what links there are.              *)
(***************************************************************************)
MailerRows ==
    [at : {"checked", "clear", "insert", "mail"}, user : Users, signUp : BOOLEAN]
MailersTyped == mailer \in [Mailers -> {IdleMailer} \cup MailerRows]

AccountsTyped ==
    /\ account \in [Users -> {"none", "made", "verified"}]
    /\ links \subseteq [user : Users, n : Nat, live : BOOLEAN] /\ made \in Nat
    /\ MailersTyped
    /\ verifying \subseteq [user : Users, done : BOOLEAN]

(* A request of a user is alone, and between the delete and the insert     *)
(* there is no link.                                                       *)
MailerInv(u, r) ==
    mailer[r].user = u =>
       /\ \A q \in Mailers : mailer[q].user = u => q = r
       /\ \A o \in verifying : o.user # u
       /\ account[u] = IF mailer[r].at = "checked" THEN "none" ELSE "made"
       /\ mailer[r].at = "insert" => OldLinks(u) = {}

VerifyInv(u, o) ==
    o.user = u =>
       /\ \A e \in verifying : e.user = u => e = o
       /\ account[u] # "none"
       /\ account[u] = "verified" => o.done \/ u \in torn

(* One link at most; and none of a user who is verified, unless the        *)
(* verification is on its way to the delete or was torn.                   *)
LinkInv(u) ==
    /\ \A k, l \in OldLinks(u) : k = l
    /\ account[u] = "none" => OldLinks(u) = {}
    /\ account[u] = "verified" /\ ~UnderWay(u) /\ u \notin torn => OldLinks(u) = {}

AccountsInv ==
    /\ AccountsTyped
    /\ \A u \in Users \ together :
          /\ \A r \in Mailers : MailerInv(u, r)
          /\ \A o \in verifying : VerifyInv(u, o)
          /\ LinkInv(u)

LEMMA AccountsBegin == AccountsInit => AccountsInv
  BY AccountsAssumption
  DEF AccountsInit, AccountsInv, AccountsTyped, MailersTyped, MailerRows, MailerInv,
      VerifyInv, LinkInv, OldLinks, IdleMailer

LEMMA MailerSteps ==
  ASSUME MailersTyped, NEW r \in Mailers, mailer[r].at # "idle"
  PROVE  /\ mailer[r] \in MailerRows /\ mailer[r].user \in Users
         /\ \A step \in {"checked", "clear", "insert", "mail"} :
               [mailer[r] EXCEPT !.at = step] \in MailerRows
  <1>1. mailer[r] \in MailerRows
    BY DEF MailersTyped, IdleMailer
  <1> QED BY <1>1 DEF MailerRows

LEMMA LinksTyped ==
  ASSUME links \subseteq [user : Users, n : Nat, live : BOOLEAN], made \in Nat,
         NEW u \in Users
  PROVE  links \cup {[user |-> u, n |-> made + 1, live |-> TRUE]}
            \subseteq [user : Users, n : Nat, live : BOOLEAN]
  <1>1. [user |-> u, n |-> made + 1, live |-> TRUE]
           \in [user : Users, n : Nat, live : BOOLEAN]
    OBVIOUS
  <1> QED BY <1>1

(* A mailer goes a step further, or is idle again.                         *)
LEMMA MailerMoves ==
  ASSUME MailersTyped, NEW r \in Mailers, mailer[r].at # "idle",
         \/ mailer' = [mailer EXCEPT ![r] = IdleMailer]
         \/ \E step \in {"checked", "clear", "insert", "mail"} :
               mailer' = [mailer EXCEPT ![r].at = step]
  PROVE  MailersTyped'
  <1>1. CASE mailer' = [mailer EXCEPT ![r] = IdleMailer]
    BY <1>1 DEF MailersTyped
  <1>2. ASSUME NEW step \in {"checked", "clear", "insert", "mail"},
               mailer' = [mailer EXCEPT ![r].at = step]
        PROVE  MailersTyped'
    <2>1. mailer' = [mailer EXCEPT ![r] = [mailer[r] EXCEPT !.at = step]]
      BY <1>2
    <2>2. [mailer[r] EXCEPT !.at = step] \in MailerRows
      BY MailerSteps
    <2> QED BY <2>1, <2>2 DEF MailersTyped
  <1> QED BY <1>1, <1>2

LEMMA AccountsTypesContinue ==
    AccountsInv /\ [AccountsNext]_accountVars => AccountsTyped'
  <1> SUFFICES ASSUME AccountsInv, [AccountsNext]_accountVars PROVE AccountsTyped'
    OBVIOUS
  <1> USE DEF AccountsInv
  <1>1. CASE UNCHANGED accountVars
    BY <1>1 DEF accountVars, AccountsTyped, MailersTyped
  <1>2. ASSUME NEW r \in Mailers, InsertUser(r) PROVE AccountsTyped'
    <2>1. mailer[r].at = "checked" /\ mailer[r].user \in Users
      BY <1>2, MailerSteps DEF InsertUser, AccountsTyped
    <2>2. account' \in [Users -> {"none", "made", "verified"}]
      BY <1>2, <2>1 DEF InsertUser, AccountsTyped
    <2>3. MailersTyped'
      BY <1>2, <2>1, MailerMoves DEF InsertUser, AccountsTyped
    <2> QED BY <1>2, <2>2, <2>3 DEF InsertUser, AccountsTyped
  <1>3. ASSUME NEW r \in Mailers, ClearLinks(r) PROVE AccountsTyped'
    <2>1. MailersTyped'
      BY <1>3, MailerMoves DEF ClearLinks, AccountsTyped
    <2> QED BY <1>3, <2>1 DEF ClearLinks, AccountsTyped
  <1>4. ASSUME NEW r \in Mailers, InsertLink(r) PROVE AccountsTyped'
    <2>1. MailersTyped'
      BY <1>4, MailerMoves DEF InsertLink, AccountsTyped
    <2>2. links' \subseteq [user : Users, n : Nat, live : BOOLEAN]
      BY <1>4, MailerSteps, LinksTyped DEF InsertLink, AccountsTyped
    <2> QED BY <1>4, <2>1, <2>2 DEF InsertLink, AccountsTyped
  <1>5. ASSUME NEW r \in Mailers, MailerFails(r) PROVE AccountsTyped'
    <2>1. MailersTyped'
      BY <1>5 DEF MailerFails, AccountsTyped, MailersTyped
    <2> QED BY <1>5, <2>1 DEF MailerFails, AccountsTyped
  <1>6. ASSUME NEW r \in Mailers, NEW u \in Users, Register(r, u) \/ Resend(r, u)
        PROVE  AccountsTyped'
    <2>1. MailersTyped'
      <3>1. /\ [at |-> "checked", user |-> u, signUp |-> TRUE] \in MailerRows
            /\ [at |-> "clear", user |-> u, signUp |-> FALSE] \in MailerRows
        BY DEF MailerRows
      <3> QED BY <1>6, <3>1 DEF Register, Resend, AccountsTyped, MailersTyped
    <2> QED BY <1>6, <2>1 DEF Register, Resend, AccountsTyped
  <1>7. ASSUME NEW r \in Mailers, NEW d \in BOOLEAN, SendLink(r, d)
        PROVE  AccountsTyped'
    <2>1. MailersTyped'
      BY <1>7, MailerMoves DEF SendLink, AccountsTyped
    <2> QED BY <1>7, <2>1 DEF SendLink, AccountsTyped
  <1>8. ASSUME NEW l \in links, OpenLink(l) PROVE AccountsTyped'
    <2>1. UNCHANGED <<account, made, mailer>> /\ links' \subseteq links
      BY <1>8 DEF OpenLink
    <2>2. verifying' \subseteq [user : Users, done : BOOLEAN]
      <3>1. [user |-> l.user, done |-> FALSE] \in [user : Users, done : BOOLEAN]
        BY DEF AccountsTyped
      <3>2. \/ verifying' = verifying
            \/ verifying' = verifying \cup {[user |-> l.user, done |-> FALSE]}
        BY <1>8 DEF OpenLink
      <3>3. verifying \subseteq [user : Users, done : BOOLEAN]
        BY DEF AccountsTyped
      <3> QED BY <3>1, <3>2, <3>3, Zenon
    <2> QED BY <2>1, <2>2 DEF AccountsTyped, MailersTyped
  <1>9. ASSUME NEW l \in links, LinkExpires(l) PROVE AccountsTyped'
    <2>1. [l EXCEPT !.live = FALSE] \in [user : Users, n : Nat, live : BOOLEAN]
      <3>1. l \in [user : Users, n : Nat, live : BOOLEAN]
        BY DEF AccountsTyped
      <3> QED BY <3>1
    <2>2. /\ links' = (links \ {l}) \cup {[l EXCEPT !.live = FALSE]}
          /\ UNCHANGED <<account, made, mailer, verifying>>
      BY <1>9 DEF LinkExpires
    <2>3. links' \subseteq [user : Users, n : Nat, live : BOOLEAN]
      BY <2>1, <2>2 DEF AccountsTyped
    <2> QED BY <2>2, <2>3 DEF AccountsTyped, MailersTyped
  <1>10. ASSUME NEW o \in verifying, MarkVerified(o) \/ DeleteLinks(o) \/ VerifyFails(o)
         PROVE  AccountsTyped'
    <2>1. UNCHANGED <<made, mailer>> /\ links' \subseteq links
      BY <1>10 DEF MarkVerified, DeleteLinks, VerifyFails
    <2>2. o \in [user : Users, done : BOOLEAN]
      BY DEF AccountsTyped
    <2>3. /\ [o EXCEPT !.done = TRUE] \in [user : Users, done : BOOLEAN]
          /\ o.user \in Users
      BY <2>2
    <2>4. verifying' \subseteq [user : Users, done : BOOLEAN]
      <3>1. \/ verifying' \subseteq verifying
            \/ verifying' = (verifying \ {o}) \cup {[o EXCEPT !.done = TRUE]}
        BY <1>10 DEF MarkVerified, DeleteLinks, VerifyFails
      <3> QED BY <2>3, <3>1 DEF AccountsTyped
    <2>5. account' \in [Users -> {"none", "made", "verified"}]
      BY <1>10, <2>3 DEF MarkVerified, DeleteLinks, VerifyFails, AccountsTyped
    <2> QED BY <2>1, <2>4, <2>5 DEF AccountsTyped, MailersTyped
  <1>11. ASSUME NEW u \in Users, Login(u) \/ Logout(u) \/ SessionEnds(u) \/ SeesExpired(u)
         PROVE  AccountsTyped'
    BY <1>11 DEF Login, Logout, SessionEnds, SeesExpired, AccountsTyped, MailersTyped
  <1> QED
    BY <1>1, <1>2, <1>3, <1>4, <1>5, <1>6, <1>7, <1>8, <1>9, <1>10, <1>11
    DEF AccountsNext

LEMMA AccountsContinue == AccountsInv /\ [AccountsNext]_accountVars => AccountsInv'
  <1> SUFFICES ASSUME AccountsInv, [AccountsNext]_accountVars PROVE AccountsInv'
    OBVIOUS
  <1>0. AccountsTyped /\ AccountsTyped'
    BY AccountsTypesContinue DEF AccountsInv
  <1> SUFFICES ASSUME NEW u \in Users \ together'
               PROVE  /\ \A r \in Mailers : MailerInv(u, r)'
                      /\ \A o \in verifying' : VerifyInv(u, o)'
                      /\ LinkInv(u)'
    BY <1>0 DEF AccountsInv
  <1> DEFINE Goal == /\ \A r \in Mailers : MailerInv(u, r)'
                     /\ \A o \in verifying' : VerifyInv(u, o)'
                     /\ LinkInv(u)'
  <1>u. u \in Users \ together
    BY DEF AccountsNext, InsertUser, ClearLinks, InsertLink, MailerFails, Register, Resend,
           SendLink, OpenLink, LinkExpires, MarkVerified, DeleteLinks, VerifyFails, Login,
           Logout, SessionEnds, SeesExpired, Begins, accountVars
  <1>v. /\ \A r \in Mailers : MailerInv(u, r)
        /\ \A o \in verifying : VerifyInv(u, o)
        /\ LinkInv(u)
    BY <1>u DEF AccountsInv
  <1> USE <1>0, <1>v
  <1> USE DEF MailerInv, VerifyInv, LinkInv, OldLinks, UnderWay, AccountsTyped,
              MailersTyped, MailerRows, IdleMailer
  <1>1. CASE UNCHANGED accountVars
    BY <1>1 DEF accountVars
  <1>2. ASSUME NEW r \in Mailers, InsertUser(r) PROVE Goal
    BY <1>2, AccountsAssumption DEF InsertUser
  <1>3. ASSUME NEW r \in Mailers, ClearLinks(r) PROVE Goal
    BY <1>3 DEF ClearLinks
  <1>4. ASSUME NEW r \in Mailers, InsertLink(r) PROVE Goal
    BY <1>4 DEF InsertLink
  <1>5. ASSUME NEW r \in Mailers, MailerFails(r) PROVE Goal
    BY <1>5, AccountsAssumption DEF MailerFails
  <1>6. ASSUME NEW r \in Mailers, NEW v \in Users, Register(r, v) \/ Resend(r, v)
        PROVE  Goal
    BY <1>6, AccountsAssumption DEF Register, Resend, Begins
  <1>7. ASSUME NEW r \in Mailers, NEW d \in BOOLEAN, SendLink(r, d)
        PROVE  Goal
    BY <1>7, AccountsAssumption DEF SendLink
  <1>8. ASSUME NEW l \in links, OpenLink(l) PROVE Goal
    BY <1>8 DEF OpenLink, Begins
  <1>9. ASSUME NEW l \in links, LinkExpires(l) PROVE Goal
    BY <1>9 DEF LinkExpires
  <1>10. ASSUME NEW o \in verifying, MarkVerified(o) PROVE Goal
    <2>1. /\ links' = links /\ mailer' = mailer /\ torn' = torn
          /\ account' = [account EXCEPT ![o.user] = "verified"]
      BY <1>10 DEF MarkVerified
    <2>2. PICK e \in verifying' : /\ e.user = o.user /\ e.done
                                  /\ verifying' = (verifying \ {o}) \cup {e}
      BY <1>10 DEF MarkVerified
    <2>3. ASSUME NEW r \in Mailers PROVE MailerInv(u, r)'
      BY <2>1, <2>2
    <2>4. ASSUME NEW f \in verifying' PROVE VerifyInv(u, f)'
      BY <2>1, <2>2
    <2>5. LinkInv(u)'
      BY <2>1, <2>2
    <2> QED BY <2>3, <2>4, <2>5
  <1>11. ASSUME NEW o \in verifying, DeleteLinks(o) \/ VerifyFails(o) PROVE Goal
    BY <1>11 DEF DeleteLinks, VerifyFails
  <1>12. ASSUME NEW v \in Users, Login(v) \/ Logout(v) \/ SessionEnds(v) \/ SeesExpired(v)
         PROVE  Goal
    BY <1>12 DEF Login, Logout, SessionEnds, SeesExpired
  <1> QED
    BY <1>1, <1>2, <1>3, <1>4, <1>5, <1>6, <1>7, <1>8, <1>9, <1>10, <1>11,
       <1>12
    DEF AccountsNext

(* An account whose requests never overlapped has at most one link, and    *)
(* none after a verification that ran to its end, for any number of users  *)
(* and requests, wherever a request stops (createEmailVerificationToken,   *)
(* verifyEmailWithToken).                                                  *)
THEOREM OneLinkPerAccount == AccountsSpec => []LinksAreReplaced
  <1>1. AccountsInv => LinksAreReplaced
    <2> SUFFICES ASSUME AccountsInv, NEW u \in Users \ together
                 PROVE  /\ Cardinality(OldLinks(u)) <= 1
                        /\ account[u] = "verified" /\ ~UnderWay(u) /\ u \notin torn
                              => OldLinks(u) = {}
      BY DEF LinksAreReplaced
    <2>1. LinkInv(u)
      BY DEF AccountsInv
    <2>2. CASE OldLinks(u) = {}
      BY <2>2, FS_EmptySet
    <2>3. CASE OldLinks(u) # {}
      <3>1. PICK l : OldLinks(u) = {l}
        BY <2>1, <2>3 DEF LinkInv
      <3>2. Cardinality({l}) = 1
        BY FS_Singleton
      <3> QED BY <2>1, <3>1, <3>2 DEF LinkInv
    <2> QED BY <2>2, <2>3
  <1> QED BY <1>1, AccountsBegin, AccountsContinue, PTL DEF AccountsSpec

-----------------------------------------------------------------------------
(***************************************************************************)
(* Billing.  While nothing is out of order, the events not acknowledged    *)
(* say what the row of a user still misses.                                *)
(***************************************************************************)
SubRows == [customer : Customers \cup {"none"},
            status : SubStatuses \cup {"none", "deleted"}]
StripeEvents == [type : {"updated", "deleted"}, sub : Subs, n : Nat,
           status : SubStatuses \cup {"deleted"}]

BillingTyped ==
    /\ customer \in [Payers -> Customers \cup {"none"}]
    /\ owner \in [Customers -> Payers \cup {"none"}]
    /\ stripeSub \in [Subs -> SubRows]
    /\ emitted \in Nat /\ events \subseteq StripeEvents
    /\ \A e \in events : e.type = "deleted" <=> e.status = "deleted"
    /\ \A h \in hook : h.event \in StripeEvents
                       /\ (h.event.type = "deleted" <=> h.event.status = "deleted")
    /\ subscription \in [Payers -> {NoSub} \cup [sub : Subs, status : Paid]]

(* A customer is of the user who has it, a subscription of a customer, and *)
(* of the subscriptions of one customer one at most is alive.              *)
CustomersInv ==
    /\ \A u \in Payers, c \in Customers : customer[u] = c <=> owner[c] = u
    /\ \A s \in Subs :
          /\ stripeSub[s].status = "none" <=> stripeSub[s].customer = "none"
          /\ stripeSub[s].customer # "none" => owner[stripeSub[s].customer] # "none"
    /\ \A s, t \in Subs :
          /\ stripeSub[s].customer = stripeSub[t].customer
          /\ stripeSub[s].status \in SubStatuses
          /\ stripeSub[t].status \in SubStatuses
          => s = t

(* An event that tells the end of a subscription.                          *)
Ended(s, from, to) ==
    \E g \in events : g.sub = s /\ g.type = "deleted" /\ from <= g.n /\ g.n < to

(* The last event of a subscription tells its status, and before the first *)
(* one of the next subscription the end of the one before it is told.      *)
EventsInv ==
    \A e \in events :
        /\ e.n <= emitted /\ stripeSub[e.sub].status # "none"
        /\ \E g \in events : /\ g.sub = e.sub /\ e.n <= g.n
                             /\ g.status = stripeSub[e.sub].status
        /\ \A f \in events :
              /\ f.n = e.n => f = e
              /\ /\ e.n < f.n /\ e.sub # f.sub
                 /\ stripeSub[e.sub].customer = stripeSub[f.sub].customer
                 => Ended(e.sub, e.n, f.n)

(* One event is handled at a time, the oldest, and what was read for it    *)
(* still holds.                                                            *)
HookInv ==
    \A h \in hook :
        /\ \A k \in hook : k = h
        /\ h.event \in events /\ \A f \in events : h.event.n <= f.n
        /\ h.users = OwnersOf(h.event.sub)
        /\ h.had = {u \in Payers : subscription[u] # NoSub}

(* The row is behind its subscription only if events of it are to come,    *)
(* and events of another one come after the end of the one in the row.     *)
RowNotBehind(u) ==
    LET r == subscription[u].sub IN
    subscription[u] # NoSub =>
        /\ stripeSub[r].customer = customer[u] /\ customer[u] # "none"
        /\ (\A e \in events : e.sub # r) => stripeSub[r].status = subscription[u].status
        /\ \A f \in events :
              f.sub # r /\ stripeSub[f.sub].customer = customer[u] => Ended(r, 0, f.n)

PaidIsInRow(u) ==
    \A s \in Subs :
        /\ stripeSub[s].customer = customer[u] /\ stripeSub[s].status \in Paid
        /\ \A e \in events : e.sub # s
        => subscription[u] = [sub |-> s, status |-> stripeSub[s].status]

BillingInv ==
    /\ BillingTyped
    /\ ~disorder => /\ CustomersInv /\ EventsInv /\ HookInv
                    /\ \A u \in Payers : RowNotBehind(u) /\ PaidIsInRow(u)

LEMMA BillingBegins == BillingInit => BillingInv
  BY BillingAssumption
  DEF BillingInit, BillingInv, BillingTyped, CustomersInv, EventsInv, HookInv,
      RowNotBehind, PaidIsInRow, SubRows, SubStatuses, Paid

LEMMA BillingTypesContinue == BillingTyped /\ [BillingNext]_billingVars => BillingTyped'
  <1> SUFFICES ASSUME BillingTyped, [BillingNext]_billingVars PROVE BillingTyped'
    OBVIOUS
  <1> USE DEF BillingTyped
  <1>1. CASE UNCHANGED billingVars
    BY <1>1 DEF billingVars
  <1>2. ASSUME NEW u \in Payers, Checkout(u) \/ CheckoutFails(u) PROVE BillingTyped'
    BY <1>2 DEF Checkout, CheckoutFails
  <1>3. ASSUME NEW u \in Payers, NEW c \in Customers, CreateCustomer(u, c)
        PROVE  BillingTyped'
    BY <1>3 DEF CreateCustomer
  <1>4. ASSUME NEW s \in Subs, NEW st \in SubStatuses \cup {"deleted"},
               NEW type \in {"updated", "deleted"}, type = "deleted" <=> st = "deleted",
               NEW r \in SubRows, r.status = st,
               stripeSub' = [stripeSub EXCEPT ![s] = r], StripeEmits(type, s),
               UNCHANGED <<customer, owner, hook, subscription>>
        PROVE  BillingTyped'
    <2>1. PICK e : e = [type |-> type, sub |-> s, n |-> emitted + 1, status |-> st]
      OBVIOUS
    <2>2. e \in StripeEvents /\ (e.type = "deleted" <=> e.status = "deleted")
      BY <1>4, <2>1 DEF StripeEvents
    <2>3. events' = events \cup {e} /\ emitted' = emitted + 1
      BY <1>4, <2>1 DEF StripeEmits
    <2> QED BY <1>4, <2>2, <2>3
  <1>5. ASSUME NEW s \in Subs, NEW c \in Customers, Subscribe(c, s) PROVE BillingTyped'
    <2>1. [customer |-> c, status |-> "active"] \in SubRows
      BY DEF SubRows, SubStatuses
    <2> QED BY <1>4, <1>5, <2>1 DEF Subscribe, SubStatuses
  <1>6. ASSUME NEW s \in Subs, NEW st \in SubStatuses \cup {"deleted"}, StripeChanges(s, st)
        PROVE  BillingTyped'
    <2> DEFINE r == [stripeSub[s] EXCEPT !.status = st]
    <2>1. r \in SubRows /\ r.status = st
      BY DEF SubRows
    <2>2. stripeSub' = [stripeSub EXCEPT ![s] = r]
      BY <1>6 DEF StripeChanges
    <2>3. StripeEmits(IF st = "deleted" THEN "deleted" ELSE "updated", s)
          /\ UNCHANGED <<customer, owner, hook, subscription>>
      BY <1>6 DEF StripeChanges
    <2> HIDE DEF r
    <2> QED BY <1>4, <2>1, <2>2, <2>3
  <1>7. ASSUME NEW e \in events, HookReads(e) PROVE BillingTyped'
    <2>1. PICK k : k = [event |-> e, users |-> OwnersOf(e.sub),
                        had |-> {u \in Payers : subscription[u] # NoSub}]
      OBVIOUS
    <2>2. hook' = hook \cup {k} /\ k.event = e
      BY <1>7, <2>1 DEF HookReads
    <2>3. UNCHANGED <<customer, owner, stripeSub, emitted, events, subscription>>
      BY <1>7 DEF HookReads
    <2> QED BY <2>2, <2>3
  <1>8. ASSUME NEW h \in hook, HookWrites(h) PROVE BillingTyped'
    <2>1. /\ UNCHANGED <<customer, owner, stripeSub, emitted>>
          /\ hook' \subseteq hook /\ events' \subseteq events
      BY <1>8 DEF HookWrites
    <2>2. subscription' \in [Payers -> {NoSub} \cup [sub : Subs, status : Paid]]
      <3>1. ASSUME NEW u \in Payers
            PROVE  RowAfter(subscription[u], h.event, u \in h.had)
                      \in {NoSub} \cup [sub : Subs, status : Paid]
        BY DEF RowAfter, StripeEvents, SubStatuses, Paid
      <3> QED BY <1>8, <3>1 DEF HookWrites
    <2> QED BY <2>1, <2>2
  <1> QED
    BY <1>1, <1>2, <1>3, <1>5, <1>6, <1>7, <1>8 DEF BillingNext

InOrder ==
    /\ CustomersInv /\ EventsInv /\ HookInv
    /\ \A u \in Payers : RowNotBehind(u) /\ PaidIsInRow(u)

(* A subscription starts, or its status changes, and an event tells it;    *)
(* the others of its customer are not alive.                               *)
LEMMA StripeTells ==
  ASSUME BillingTyped, BillingTyped', InOrder,
         NEW s \in Subs, NEW c \in Customers, NEW st \in SubStatuses \cup {"deleted"},
         stripeSub[s].customer = c \/ (stripeSub[s].status = "none" /\ owner[c] # "none"),
         \A t \in Subs \ {s} :
            stripeSub[t].customer = c => stripeSub[t].status \notin SubStatuses,
         stripeSub' = [stripeSub EXCEPT ![s] = [customer |-> c, status |-> st]],
         NEW e \in StripeEvents, e.sub = s, e.n = emitted + 1, e.status = st,
         events' = events \cup {e}, emitted' = emitted + 1,
         UNCHANGED <<customer, owner, hook, subscription>>
  PROVE  InOrder'
  <1> USE DEF InOrder
  <1>1. /\ stripeSub'[s].customer = c /\ stripeSub'[s].status = st /\ st # "none"
        /\ \A t \in Subs \ {s} : stripeSub'[t] = stripeSub[t]
    BY DEF BillingTyped, SubStatuses
  <1>2. \A t \in Subs : stripeSub[t].status # "none" =>
           stripeSub'[t].customer = stripeSub[t].customer /\ stripeSub'[t].status # "none"
    BY <1>1 DEF SubStatuses
  <1>3. \A f \in events : /\ f \in events' /\ f.sub \in Subs /\ f.n \in Nat
                          /\ f.n < e.n /\ stripeSub[f.sub].status # "none"
    BY DEF BillingTyped, EventsInv, StripeEvents
  <1>4. \A x, lo, hi : Ended(x, lo, hi) => Ended(x, lo, hi)'
    BY DEF Ended
  <1>5. CustomersInv'
    <2>1. \A u \in Payers, d \in Customers : customer'[u] = d <=> owner'[d] = u
      BY DEF CustomersInv
    <2>2. ASSUME NEW t \in Subs
          PROVE  /\ stripeSub'[t].status = "none" <=> stripeSub'[t].customer = "none"
                 /\ stripeSub'[t].customer # "none"
                       => owner'[stripeSub'[t].customer] # "none"
      BY <1>1, BillingAssumption DEF CustomersInv
    <2>3. ASSUME NEW t \in Subs, NEW r \in Subs,
                 stripeSub'[t].customer = stripeSub'[r].customer,
                 stripeSub'[t].status \in SubStatuses, stripeSub'[r].status \in SubStatuses
          PROVE  t = r
      BY <1>1, <2>3 DEF CustomersInv
    <2> QED BY <2>1, <2>2, <2>3 DEF CustomersInv
  <1>6. ASSUME NEW f \in events, f.sub # s, stripeSub[f.sub].customer = c
        PROVE  Ended(f.sub, f.n, e.n)
    <2>1. stripeSub[f.sub].status = "deleted"
      BY <1>3, <1>6 DEF BillingTyped, SubRows
    <2>2. PICK g \in events : g.sub = f.sub /\ f.n <= g.n /\ g.status = "deleted"
      BY <2>1 DEF EventsInv
    <2> QED BY <1>3, <2>2 DEF Ended, BillingTyped
  <1>7. EventsInv'
    <2> SUFFICES ASSUME NEW f \in events'
                 PROVE  /\ f.n <= emitted' /\ stripeSub'[f.sub].status # "none"
                        /\ \E g \in events' : /\ g.sub = f.sub /\ f.n <= g.n
                                              /\ g.status = stripeSub'[f.sub].status
                        /\ \A k \in events' :
                              /\ k.n = f.n => k = f
                              /\ /\ f.n < k.n /\ f.sub # k.sub
                                 /\ stripeSub'[f.sub].customer = stripeSub'[k.sub].customer
                                 => Ended(f.sub, f.n, k.n)'
      BY DEF EventsInv
    <2>1. f.n <= emitted' /\ stripeSub'[f.sub].status # "none"
      BY <1>1, <1>2, <1>3 DEF EventsInv, BillingTyped
    <2>2. \E g \in events' : /\ g.sub = f.sub /\ f.n <= g.n
                             /\ g.status = stripeSub'[f.sub].status
      <3>1. CASE f.sub = s
        BY <1>1, <1>3, <3>1 DEF StripeEvents
      <3>2. CASE f.sub # s
        BY <1>1, <1>3, <3>2 DEF EventsInv
      <3> QED BY <3>1, <3>2
    <2>3. ASSUME NEW k \in events' PROVE k.n = f.n => k = f
      BY <1>3 DEF EventsInv, StripeEvents
    <2>4. ASSUME NEW k \in events', f.n < k.n, f.sub # k.sub,
                 stripeSub'[f.sub].customer = stripeSub'[k.sub].customer
          PROVE  Ended(f.sub, f.n, k.n)'
      <3>1. f \in events
        BY <1>3, <2>4 DEF StripeEvents
      <3>2. CASE k = e
        BY <1>1, <1>2, <1>3, <1>4, <1>6, <2>4, <3>1, <3>2
      <3>3. CASE k # e
        BY <1>2, <1>3, <1>4, <2>4, <3>1, <3>3 DEF EventsInv
      <3> QED BY <3>2, <3>3
    <2> QED BY <2>1, <2>2, <2>3, <2>4
  <1>8. HookInv'
    <2> SUFFICES ASSUME NEW h \in hook
                 PROVE  /\ \A k \in hook : k = h
                        /\ h.event \in events' /\ \A f \in events' : h.event.n <= f.n
                        /\ h.users = OwnersOf(h.event.sub)'
                        /\ h.had = {u \in Payers : subscription[u] # NoSub}
      BY DEF HookInv
    <2>1. h.event \in events
      BY DEF HookInv
    <2>2. stripeSub'[h.event.sub].customer = stripeSub[h.event.sub].customer
      BY <1>2, <1>3, <2>1
    <2>3. OwnersOf(h.event.sub)' = OwnersOf(h.event.sub)
      BY <2>2 DEF OwnersOf
    <2>4. \A f \in events' : h.event.n <= f.n
      BY <1>3, <2>1 DEF HookInv, StripeEvents
    <2> QED BY <2>1, <2>3, <2>4 DEF HookInv
  <1>9. ASSUME NEW u \in Payers PROVE RowNotBehind(u)'
    <2> DEFINE r == subscription[u].sub
    <2> SUFFICES ASSUME subscription[u] # NoSub
                 PROVE  /\ stripeSub'[r].customer = customer[u] /\ customer[u] # "none"
                        /\ (\A k \in events' : k.sub # r)
                              => stripeSub'[r].status = subscription[u].status
                        /\ \A f \in events' :
                              f.sub # r /\ stripeSub'[f.sub].customer = customer[u]
                                 => Ended(r, 0, f.n)'
      BY DEF RowNotBehind
    <2>1. /\ r \in Subs /\ subscription[u].status \in Paid
          /\ stripeSub[r].customer = customer[u] /\ customer[u] # "none"
          /\ stripeSub[r].status # "none"
      BY DEF RowNotBehind, BillingTyped, CustomersInv
    <2>2. stripeSub'[r].customer = customer[u]
      BY <1>2, <2>1
    <2>3. (\A k \in events' : k.sub # r) => stripeSub'[r].status = subscription[u].status
      BY <1>1, <1>3, <2>1 DEF RowNotBehind
    <2>4. ASSUME NEW f \in events, f.sub # r, stripeSub'[f.sub].customer = customer[u]
          PROVE  Ended(r, 0, f.n)'
      BY <1>2, <1>3, <1>4, <2>4 DEF RowNotBehind
    <2>5. ASSUME s # r, c = customer[u] PROVE Ended(r, 0, e.n)'
      <3>1. stripeSub[r].status = "deleted"
        BY <2>1, <2>5 DEF BillingTyped, SubRows
      <3>2. PICK k \in events : k.sub = r
        BY <2>1, <3>1 DEF RowNotBehind, Paid
      <3>3. Ended(r, k.n, e.n)
        BY <1>6, <2>1, <2>5, <3>2
      <3>4. Ended(r, 0, e.n)
        BY <1>3, <3>2, <3>3 DEF Ended
      <3> QED BY <1>4, <3>4
    <2> QED BY <1>1, <2>1, <2>2, <2>3, <2>4, <2>5
  <1>10. ASSUME NEW u \in Payers PROVE PaidIsInRow(u)'
    <2> SUFFICES ASSUME NEW t \in Subs, stripeSub'[t].customer = customer[u],
                        stripeSub'[t].status \in Paid, \A k \in events' : k.sub # t
                 PROVE  subscription[u] = [sub |-> t, status |-> stripeSub'[t].status]
      BY DEF PaidIsInRow
    <2>1. t # s /\ stripeSub'[t] = stripeSub[t]
      BY <1>1
    <2> QED BY <2>1 DEF PaidIsInRow
  <1> QED BY <1>5, <1>7, <1>8, <1>9, <1>10

(* A checkout gives a user without a customer a new one, which no          *)
(* subscription has yet.                                                   *)
LEMMA CheckoutKeepsOrder ==
  ASSUME BillingTyped, InOrder, NEW u \in Payers, NEW c \in Customers,
         CreateCustomer(u, c), customer[u] = "none"
  PROVE  InOrder'
  <1> USE DEF InOrder
  <1>1. /\ owner[c] = "none" /\ owner' = [owner EXCEPT ![c] = u]
        /\ customer' = [customer EXCEPT ![u] = c]
        /\ UNCHANGED <<stripeSub, events, emitted, hook, subscription>>
    BY DEF CreateCustomer
  <1>2. /\ owner'[c] = u /\ \A d \in Customers \ {c} : owner'[d] = owner[d]
        /\ customer'[u] = c /\ \A v \in Payers \ {u} : customer'[v] = customer[v]
    BY <1>1 DEF BillingTyped
  <1>3. /\ \A s \in Subs : stripeSub[s].customer # c /\ stripeSub[s] \in SubRows
        /\ \A v \in Payers : customer[v] # c
        /\ c # "none" /\ "none" \notin Payers
    BY <1>1, BillingAssumption DEF BillingTyped, CustomersInv, SubRows
  <1>4. CustomersInv'
    <2>1. \A v \in Payers, d \in Customers : customer'[v] = d <=> owner'[d] = v
      BY <1>2, <1>3, BillingAssumption DEF CustomersInv
    <2>2. \A s \in Subs : stripeSub[s].customer # "none"
                              => owner'[stripeSub[s].customer] # "none"
      BY <1>2, <1>3 DEF CustomersInv, SubRows
    <2> QED BY <1>1, <2>1, <2>2 DEF CustomersInv
  <1>5. EventsInv'
    BY <1>1 DEF EventsInv, Ended
  <1>6. HookInv'
    <2>1. ASSUME NEW s \in Subs, stripeSub[s].status # "none"
          PROVE  OwnersOf(s)' = OwnersOf(s)
      BY <1>1, <1>2, <1>3, <2>1 DEF OwnersOf, CustomersInv
    <2>2. \A h \in hook : OwnersOf(h.event.sub)' = OwnersOf(h.event.sub)
      BY <2>1 DEF HookInv, EventsInv, BillingTyped, StripeEvents
    <2> QED BY <1>1, <2>2 DEF HookInv
  <1>7. ASSUME NEW v \in Payers PROVE RowNotBehind(v)'
    <2>1. RowNotBehind(v)
      OBVIOUS
    <2>2. CASE v = u
      BY <1>1, <2>1, <2>2 DEF RowNotBehind
    <2>3. CASE v # u
      BY <1>1, <1>2, <2>1, <2>3 DEF RowNotBehind, Ended
    <2> QED BY <2>2, <2>3
  <1>8. ASSUME NEW v \in Payers PROVE PaidIsInRow(v)'
    <2>1. PaidIsInRow(v)
      OBVIOUS
    <2> QED BY <1>1, <1>2, <1>3, <2>1 DEF PaidIsInRow
  <1> QED BY <1>4, <1>5, <1>6, <1>7, <1>8

(* The webhook writes what the oldest event tells.  The row of its user is *)
(* empty or of its subscription already, and no other user has one.        *)
LEMMA WebhookFollows ==
  ASSUME BillingTyped, BillingTyped', InOrder, NEW h \in hook, HookWrites(h)
  PROVE  InOrder'
  <1> USE DEF InOrder
  <1> DEFINE e == h.event
             s == e.sub
             c == stripeSub[s].customer
  <1>1. /\ UNCHANGED <<customer, owner, stripeSub, emitted>> /\ hook' = {}
        /\ events' \in {events, events \ {e}}
    BY DEF HookWrites, HookInv
  <1>2. /\ e \in events /\ e \in StripeEvents /\ s \in Subs /\ e.n \in Nat
        /\ stripeSub[s].status # "none" /\ c # "none" /\ c \in Customers
        /\ owner[c] # "none" /\ owner[c] \in Payers
        /\ e.type = "deleted" <=> e.status = "deleted"
        /\ e.status \in SubStatuses \cup {"deleted"}
    BY BillingAssumption
    DEF HookInv, EventsInv, BillingTyped, StripeEvents, CustomersInv, SubRows
  <1>3. /\ \A f \in events : /\ f.sub \in Subs /\ f.n \in Nat /\ e.n <= f.n
                             /\ f # e => e.n < f.n
        /\ h.users = OwnersOf(s) /\ h.had = {u \in Payers : subscription[u] # NoSub}
    <2>1. \A f \in events : f.sub \in Subs /\ f.n \in Nat
      BY DEF BillingTyped, StripeEvents
    <2>2. \A f \in events : e.n <= f.n /\ (f.n = e.n => f = e)
      BY <1>2 DEF HookInv, EventsInv
    <2>3. h.users = OwnersOf(s) /\ h.had = {u \in Payers : subscription[u] # NoSub}
      BY DEF HookInv
    <2>4. \A f \in events : f # e => e.n < f.n
      BY <1>2, <2>1, <2>2
    <2> QED BY <2>1, <2>2, <2>3, <2>4
  <1>4. ASSUME NEW u \in Payers, customer[u] = c
        PROVE  subscription[u] = NoSub \/ subscription[u].sub = s
    <2>1. ~Ended(subscription[u].sub, 0, e.n)
      BY <1>3, <1>2 DEF Ended
    <2> QED BY <1>2, <1>4, <2>1 DEF RowNotBehind
  <1>5. ASSUME NEW u \in Payers, subscription[u] # NoSub, subscription[u].sub = s
        PROVE  customer[u] = c
    BY <1>5 DEF RowNotBehind
  <1>6. h.users = {u \in Payers : customer[u] = c}
    BY <1>2, <1>3 DEF OwnersOf
  <1>7. UNCHANGED CustomersInv
    BY <1>1 DEF CustomersInv
  <1>8. HookInv'
    BY <1>1 DEF HookInv
  <1>9. CASE UNCHANGED <<subscription, events>>
    <2>1. EventsInv'
      BY <1>1, <1>9 DEF EventsInv, Ended
    <2>2. \A u \in Payers : RowNotBehind(u)' /\ PaidIsInRow(u)'
      BY <1>1, <1>9 DEF RowNotBehind, PaidIsInRow, Ended
    <2> QED BY <1>7, <1>8, <2>1, <2>2
  <1>10. CASE subscription' = [u \in Payers |->
                IF u \in h.users \/ e.type = "deleted"
                THEN RowAfter(subscription[u], e, u \in h.had) ELSE subscription[u]]
    <2>1. /\ \A f \in events' : f \in events
          /\ \A f \in events : f \notin events' => f = e
      BY <1>1
    <2>2. ASSUME NEW x, NEW lo \in Nat, lo > e.n, NEW hi, Ended(x, lo, hi)
          PROVE  Ended(x, lo, hi)'
      <3>1. PICK g \in events : g.sub = x /\ g.type = "deleted" /\ lo <= g.n /\ g.n < hi
        BY <2>2 DEF Ended
      <3>2. g # e
        BY <1>2, <1>3, <2>2, <3>1
      <3> QED BY <2>1, <3>1, <3>2 DEF Ended
    <2>3. EventsInv'
      <3> SUFFICES ASSUME NEW f \in events'
                   PROVE  /\ f.n <= emitted /\ stripeSub[f.sub].status # "none"
                          /\ \E g \in events' : /\ g.sub = f.sub /\ f.n <= g.n
                                                /\ g.status = stripeSub[f.sub].status
                          /\ \A k \in events' :
                                /\ k.n = f.n => k = f
                                /\ /\ f.n < k.n /\ f.sub # k.sub
                                   /\ stripeSub[f.sub].customer = stripeSub[k.sub].customer
                                   => Ended(f.sub, f.n, k.n)'
        BY <1>1 DEF EventsInv
      <3>1. f \in events
        BY <2>1
      <3>2. CASE e \in events'
        <4>1. events' = events
          BY <1>1, <1>2, <3>2
        <4> QED BY <3>1, <4>1 DEF EventsInv, Ended
      <3>3. CASE e \notin events'
        <4>1. f.n > e.n
          BY <1>2, <1>3, <3>1, <3>3
        <4>2. \E g \in events' : /\ g.sub = f.sub /\ f.n <= g.n
                                 /\ g.status = stripeSub[f.sub].status
          <5>1. PICK g \in events : /\ g.sub = f.sub /\ f.n <= g.n
                                    /\ g.status = stripeSub[f.sub].status
            BY <3>1 DEF EventsInv
          <5>2. g # e
            BY <1>2, <1>3, <3>1, <4>1, <5>1
          <5> QED BY <2>1, <5>1, <5>2
        <4>3. f.n <= emitted /\ stripeSub[f.sub].status # "none"
          BY <3>1 DEF EventsInv
        <4>4. ASSUME NEW k \in events'
              PROVE  /\ k.n = f.n => k = f
                     /\ /\ f.n < k.n /\ f.sub # k.sub
                        /\ stripeSub[f.sub].customer = stripeSub[k.sub].customer
                        => Ended(f.sub, f.n, k.n)
          BY <2>1, <3>1 DEF EventsInv
        <4> QED BY <1>3, <2>2, <3>1, <4>1, <4>2, <4>3, <4>4
      <3> QED BY <3>2, <3>3
    <2>4. ASSUME NEW u \in Payers, u \notin h.users
          PROVE  subscription'[u] = subscription[u]
      <3>1. ~(subscription[u] # NoSub /\ subscription[u].sub = s)
        BY <1>5, <1>6, <2>4
      <3> QED BY <1>2, <1>10, <2>4, <3>1 DEF RowAfter, NoSub
    <2>5. ASSUME NEW u \in Payers, u \in h.users
          PROVE  subscription'[u] = IF e.status \in Paid
                                   THEN [sub |-> s, status |-> e.status] ELSE NoSub
      <3>1. subscription'[u] = RowAfter(subscription[u], e, u \in h.had)
        BY <1>10, <2>5
      <3>2. subscription[u] = NoSub \/ subscription[u].sub = s
        BY <1>4, <1>6, <2>5
      <3>3. u \in h.had <=> subscription[u] # NoSub
        BY <1>3
      <3> QED BY <1>2, <3>1, <3>2, <3>3 DEF RowAfter, Paid, SubStatuses
    <2>6. ASSUME \A f \in events' : f.sub # s PROVE stripeSub[s].status = e.status
      BY <1>2, <2>1, <2>6 DEF EventsInv
    <2>7. ASSUME NEW u \in Payers PROVE RowNotBehind(u)'
      <3>0. PICK r : r = subscription'[u].sub
        OBVIOUS
      <3> SUFFICES ASSUME subscription'[u] # NoSub
                   PROVE  /\ stripeSub[r].customer = customer[u] /\ customer[u] # "none"
                          /\ (\A f \in events' : f.sub # r)
                                => stripeSub[r].status = subscription'[u].status
                          /\ \A f \in events' :
                                f.sub # r /\ stripeSub[f.sub].customer = customer[u]
                                   => Ended(r, 0, f.n)'
        BY <1>1, <3>0 DEF RowNotBehind, Ended
      <3>1. CASE u \in h.users
        <4>1. r = s /\ subscription'[u].status = e.status /\ e.status \in Paid
              /\ customer[u] = c
          BY <1>6, <2>5, <3>0, <3>1
        <4>2. ASSUME NEW f \in events', f.sub # s, stripeSub[f.sub].customer = c
              PROVE  Ended(s, 0, f.n)'
          <5>1. f \in events /\ e.n < f.n
            BY <1>3, <2>1, <4>2
          <5>2. PICK g \in events : /\ g.sub = s /\ g.type = "deleted"
                                    /\ e.n <= g.n /\ g.n < f.n
            BY <1>2, <4>2, <5>1 DEF EventsInv, Ended
          <5>3. g # e
            BY <1>2, <4>1, <5>2 DEF Paid
          <5>4. g \in events' /\ 0 <= g.n
            BY <1>3, <2>1, <5>2, <5>3
          <5> QED BY <5>2, <5>4 DEF Ended
        <4> QED BY <1>2, <2>6, <4>1, <4>2
      <3>2. CASE u \notin h.users
        <4>1. subscription'[u] = subscription[u] /\ r \in Subs /\ r # s
          <5>1. subscription'[u] = subscription[u]
            BY <2>4, <3>2
          <5>2. r = subscription[u].sub /\ subscription[u] # NoSub
            BY <3>0, <5>1
          <5>3. r # s
            BY <1>5, <1>6, <3>2, <5>2
          <5>4. r \in Subs
            BY <5>2 DEF BillingTyped
          <5> QED BY <5>1, <5>3, <5>4
        <4>2. ASSUME NEW f \in events', f.sub # r, stripeSub[f.sub].customer = customer[u]
              PROVE  Ended(r, 0, f.n)'
          <5>1. PICK g \in events : /\ g.sub = r /\ g.type = "deleted"
                                    /\ 0 <= g.n /\ g.n < f.n
            BY <2>1, <3>0, <4>1, <4>2 DEF RowNotBehind, Ended
          <5>2. g \in events'
            BY <2>1, <4>1, <5>1
          <5> QED BY <5>1, <5>2 DEF Ended
        <4>3. (\A f \in events' : f.sub # r) => stripeSub[r].status = subscription[u].status
          BY <2>1, <3>0, <4>1 DEF RowNotBehind
        <4>4. stripeSub[r].customer = customer[u] /\ customer[u] # "none"
          BY <3>0, <4>1 DEF RowNotBehind
        <4> QED BY <4>1, <4>2, <4>3, <4>4
      <3> QED BY <3>1, <3>2
    <2>8. ASSUME NEW u \in Payers PROVE PaidIsInRow(u)'
      <3> SUFFICES ASSUME NEW t \in Subs, stripeSub[t].customer = customer[u],
                          stripeSub[t].status \in Paid, \A f \in events' : f.sub # t
                   PROVE  subscription'[u] = [sub |-> t, status |-> stripeSub[t].status]
        BY <1>1 DEF PaidIsInRow
      <3>1. CASE t = s
        BY <1>6, <2>5, <2>6, <3>1
      <3>2. CASE t # s
        <4>1. subscription[u] = [sub |-> t, status |-> stripeSub[t].status]
          BY <2>1, <3>2 DEF PaidIsInRow
        <4>2. subscription[u] # NoSub /\ subscription[u].sub = t
          BY <4>1, BillingAssumption DEF NoSub
        <4>3. u \notin h.users
          BY <1>4, <1>6, <3>2, <4>2
        <4> QED BY <2>4, <4>1, <4>3
      <3> QED BY <3>1, <3>2
    <2> QED BY <1>7, <1>8, <2>3, <2>7, <2>8
  <1> QED BY <1>9, <1>10 DEF HookWrites

LEMMA BillingContinues == BillingInv /\ [BillingNext]_billingVars => BillingInv'
  <1> SUFFICES ASSUME BillingInv, [BillingNext]_billingVars, ~disorder'
               PROVE  InOrder'
    BY BillingTypesContinue DEF BillingInv, InOrder
  <1>1. BillingTyped /\ BillingTyped'
    BY BillingTypesContinue DEF BillingInv
  <1>2. ~disorder => InOrder
    BY DEF BillingInv, InOrder
  <1>3. CASE UNCHANGED <<customer, owner, stripeSub, events, emitted, hook, subscription,
                         disorder>>
    BY <1>2, <1>3
    DEF InOrder, CustomersInv, EventsInv, HookInv, RowNotBehind, PaidIsInRow, Ended,
        OwnersOf
  <1>4. ASSUME NEW u \in Payers, Checkout(u) \/ CheckoutFails(u) PROVE InOrder'
    BY <1>3, <1>4 DEF Checkout, CheckoutFails
  <1>5. ASSUME NEW u \in Payers, NEW c \in Customers, CreateCustomer(u, c) PROVE InOrder'
    <2>1. ~disorder /\ customer[u] = "none"
      BY <1>5 DEF CreateCustomer
    <2> QED BY <1>1, <1>2, <1>5, <2>1, CheckoutKeepsOrder
  <1>6. ASSUME NEW s \in Subs, NEW c \in Customers, Subscribe(c, s) PROVE InOrder'
    <2>1. PICK e : e = [type |-> "updated", sub |-> s, n |-> emitted + 1,
                        status |-> "active"]
      OBVIOUS
    <2>2. /\ ~disorder /\ stripeSub[s].status = "none" /\ owner[c] # "none"
          /\ \A t \in Subs \ {s} :
                stripeSub[t].customer = c => stripeSub[t].status \notin SubStatuses
          /\ stripeSub' = [stripeSub EXCEPT ![s] = [customer |-> c, status |-> "active"]]
          /\ UNCHANGED <<customer, owner, hook, subscription>>
      BY <1>6 DEF Subscribe
    <2>3. stripeSub'[s].status = "active"
      BY <1>1, <2>2 DEF BillingTyped
    <2>4. /\ e \in StripeEvents /\ e.sub = s /\ e.n = emitted + 1 /\ e.status = "active"
      BY <1>1, <2>1 DEF StripeEvents, SubStatuses, BillingTyped
    <2>5. events' = events \cup {e} /\ emitted' = emitted + 1
      BY <1>6, <2>1, <2>3 DEF Subscribe, StripeEmits
    <2>6. "active" \in SubStatuses \cup {"deleted"}
      BY DEF SubStatuses
    <2> QED BY <1>1, <1>2, <2>2, <2>4, <2>5, <2>6, StripeTells
  <1>7. ASSUME NEW s \in Subs, NEW st \in SubStatuses \cup {"deleted"}, StripeChanges(s, st)
        PROVE  InOrder'
    <2> DEFINE type == IF st = "deleted" THEN "deleted" ELSE "updated"
    <2>0. PICK c : c = stripeSub[s].customer
      OBVIOUS
    <2>1. PICK e : e = [type |-> type, sub |-> s, n |-> emitted + 1, status |-> st]
      OBVIOUS
    <2>2. ~disorder /\ InOrder
      BY <1>2, <1>7 DEF StripeChanges
    <2>3. stripeSub[s].status \in SubStatuses /\ c \in Customers
      BY <1>1, <1>7, <2>0, <2>2
      DEF StripeChanges, InOrder, CustomersInv, BillingTyped, SubRows, SubStatuses
    <2>4. \A t \in Subs \ {s} :
             stripeSub[t].customer = c => stripeSub[t].status \notin SubStatuses
      BY <2>0, <2>2, <2>3 DEF InOrder, CustomersInv
    <2>5. stripeSub' = [stripeSub EXCEPT ![s] = [customer |-> c, status |-> st]]
      <3>1. stripeSub[s] \in SubRows
        BY <1>1 DEF BillingTyped
      <3>2. [stripeSub[s] EXCEPT !.status = st] = [customer |-> c, status |-> st]
        BY <2>0, <3>1 DEF SubRows
      <3>3. stripeSub' = [stripeSub EXCEPT ![s] = [stripeSub[s] EXCEPT !.status = st]]
        BY <1>7 DEF StripeChanges
      <3> QED BY <3>2, <3>3
    <2>6. stripeSub'[s].status = st
      BY <1>1, <2>5 DEF BillingTyped
    <2>7. e \in StripeEvents /\ e.sub = s /\ e.n = emitted + 1 /\ e.status = st
      BY <1>1, <2>1 DEF StripeEvents, BillingTyped
    <2>8. events' = events \cup {e} /\ emitted' = emitted + 1
      BY <1>7, <2>1, <2>6 DEF StripeChanges, StripeEmits
    <2>9. UNCHANGED <<customer, owner, hook, subscription>>
      BY <1>7 DEF StripeChanges
    <2>10. stripeSub[s].customer = c \/ (stripeSub[s].status = "none" /\ owner[c] # "none")
      BY <2>0
    <2> HIDE DEF type
    <2> QED BY <1>1, <2>2, <2>3, <2>4, <2>5, <2>7, <2>8, <2>9, <2>10, StripeTells
  <1>8. ASSUME NEW e \in events, HookReads(e) PROVE InOrder'
    <2>1. PICK k : k = [event |-> e, users |-> OwnersOf(e.sub),
                        had |-> {u \in Payers : subscription[u] # NoSub}]
      OBVIOUS
    <2>2. /\ ~disorder /\ hook' = {k} /\ \A f \in events : ~(f.n < e.n)
          /\ UNCHANGED <<customer, owner, stripeSub, events, emitted, subscription>>
      BY <1>8, <2>1 DEF HookReads
    <2>3. HookInv'
      <3>1. /\ k.event = e /\ k.users = OwnersOf(e.sub)
            /\ k.had = {u \in Payers : subscription[u] # NoSub}
        BY <2>1
      <3>2. \A f \in events : e.n <= f.n
        BY <1>1, <2>2 DEF BillingTyped, StripeEvents
      <3>3. OwnersOf(e.sub)' = OwnersOf(e.sub)
        BY <2>2 DEF OwnersOf
      <3> QED BY <2>2, <3>1, <3>2, <3>3 DEF HookInv
    <2>4. CustomersInv' /\ EventsInv'
      BY <1>2, <2>2 DEF InOrder, CustomersInv, EventsInv, Ended
    <2>5. \A u \in Payers : RowNotBehind(u)'
      BY <1>2, <2>2 DEF InOrder, RowNotBehind, Ended
    <2>6. \A u \in Payers : PaidIsInRow(u)'
      BY <1>2, <2>2 DEF InOrder, PaidIsInRow
    <2> QED BY <2>3, <2>4, <2>5, <2>6 DEF InOrder
  <1>9. ASSUME NEW h \in hook, HookWrites(h) PROVE InOrder'
    <2>1. ~disorder
      BY <1>9 DEF HookWrites
    <2> QED BY <1>1, <1>2, <1>9, <2>1, WebhookFollows
  <1> QED
    BY <1>3, <1>4, <1>5, <1>6, <1>7, <1>8, <1>9 DEF BillingNext, billingVars

(* When Stripe has nothing left to tell, a user's row is the subscription  *)
(* they pay for, and there is none when they do not, for any number of     *)
(* users, subscriptions, failed payments and repeated events (POST of the  *)
(* webhook), as long as events come in order, one at a time, and a user    *)
(* has one customer and one subscription at a time.                        *)
THEOREM RowsFollowStripe == BillingSpec => []BillingFollows
  <1>1. BillingInv => BillingFollows
    <2> SUFFICES ASSUME BillingInv, events = {}, hook = {}, ~disorder, NEW u \in Payers
                 PROVE  LET mine == {s \in Subs : /\ stripeSub[s].customer # "none"
                                                  /\ owner[stripeSub[s].customer] = u
                                                  /\ stripeSub[s].status \in Paid}
                        IN IF mine = {} THEN subscription[u] = NoSub
                           ELSE \E s \in mine :
                                  subscription[u] = [sub    |-> s,
                                                     status |-> stripeSub[s].status]
      BY DEF BillingFollows
    <2> DEFINE mine == {s \in Subs : /\ stripeSub[s].customer # "none"
                                     /\ owner[stripeSub[s].customer] = u
                                     /\ stripeSub[s].status \in Paid}
    <2>1. BillingTyped /\ CustomersInv /\ RowNotBehind(u) /\ PaidIsInRow(u)
      BY DEF BillingInv
    <2>2. \A s \in Subs : /\ stripeSub[s].customer # "none"
                          /\ owner[stripeSub[s].customer] = u
                         <=> /\ stripeSub[s].customer # "none"
                             /\ stripeSub[s].customer = customer[u]
      BY <2>1 DEF BillingTyped, CustomersInv, SubRows
    <2>3. ASSUME NEW s \in mine
          PROVE  subscription[u] = [sub |-> s, status |-> stripeSub[s].status]
      BY <2>1, <2>2 DEF PaidIsInRow
    <2>4. ASSUME subscription[u] # NoSub PROVE subscription[u].sub \in mine
      BY <2>1, <2>2, <2>4 DEF RowNotBehind, BillingTyped
    <2> HIDE DEF mine
    <2>5. IF mine = {} THEN subscription[u] = NoSub
          ELSE \E s \in mine : subscription[u] = [sub |-> s, status |-> stripeSub[s].status]
      BY <2>3, <2>4
    <2> QED BY <2>5 DEF mine
  <1> QED BY <1>1, BillingBegins, BillingContinues, PTL DEF BillingSpec

-----------------------------------------------------------------------------
(***************************************************************************)
(* Reports of a machine.  A byte is credited once because at every moment  *)
(* it is in one place: stored, in the sample of a beat under way, or still *)
(* to be found by the next sample.  Uncredited is the second, byte by byte, *)
(* so that any number of beats may overlap.                                *)
(***************************************************************************)
Bytes(b) == {b} \X (1..beat[b].metrics.delta)
Uncredited == UNION {Bytes(b) : b \in Beats}
Unseen == IF prev.known /\ counter > prev.bytes
          THEN counter - prev.bytes ELSE 0

TrafficInv ==
    /\ counter \in Nat /\ truly \in Nat /\ credited \in Nat
    /\ prev.bytes \in Nat
    /\ \A b \in Beats : beat[b].metrics.delta \in Nat
    /\ \A b \in Beats : beat[b].st = "idle" => beat[b].metrics.delta = 0
    /\ DOMAIN beat = Beats
    /\ IsFiniteSet(Uncredited)
    /\ credited + Cardinality(Uncredited) + Unseen <= truly

LEMMA TrafficBegins == HostReportsInit => TrafficInv
  <1> SUFFICES ASSUME HostReportsInit PROVE TrafficInv
    OBVIOUS
  <1>1. /\ counter = 0 /\ truly = 0 /\ credited = 0 /\ prev.bytes = 0
        /\ prev.known = FALSE /\ DOMAIN beat = Beats
    BY DEF HostReportsInit
  <1>2. \A b \in Beats : beat[b].metrics.delta = 0
    BY DEF HostReportsInit, IdleBeat, NoMetrics
  <1>3. Uncredited = {}
    <2>1. \A b \in Beats : Bytes(b) = {}
      BY <1>2 DEF Bytes
    <2> QED BY <2>1 DEF Uncredited
  <1>4. IsFiniteSet(Uncredited) /\ Cardinality(Uncredited) = 0
    BY <1>3, FS_EmptySet
  <1>5. Unseen = 0
    BY <1>1 DEF Unseen
  <1> QED BY <1>1, <1>2, <1>4, <1>5 DEF TrafficInv

(* So many bytes of a beat as its metrics say.                             *)
LEMMA PairsCounted ==
    ASSUME NEW b, NEW d \in Nat
    PROVE  /\ IsFiniteSet({b} \X (1..d))
           /\ Cardinality({b} \X (1..d)) = d
  <1>1. /\ IsFiniteSet(1..d)
        /\ Cardinality(1..d) = IF 1 > d THEN 0 ELSE d - 1 + 1
    BY FS_Interval
  <1>2. Cardinality(1..d) = d
    BY <1>1
  <1>3. IsFiniteSet({b}) /\ Cardinality({b}) = 1
    BY FS_Singleton
  <1>4. /\ IsFiniteSet({b} \X (1..d))
        /\ Cardinality({b} \X (1..d)) = Cardinality({b}) * Cardinality(1..d)
    BY <1>1, <1>3, FS_Product
  <1>5. 1 * d = d
    OBVIOUS
  <1> QED BY <1>2, <1>3, <1>4, <1>5

(* A step in which beats only lose their metrics.                          *)
LEMMA TrafficForgotten ==
    ASSUME TrafficInv, DOMAIN beat' = Beats,
           \A b \in Beats : \/ beat'[b].metrics = beat[b].metrics
                               /\ (beat'[b].st = "idle" => beat[b].st = "idle")
                            \/ beat'[b].metrics.delta = 0
    PROVE  /\ \A b \in Beats : /\ beat'[b].metrics.delta \in Nat
                               /\ beat'[b].st = "idle"
                                  => beat'[b].metrics.delta = 0
           /\ IsFiniteSet(Uncredited')
           /\ Cardinality(Uncredited') \in Nat /\ Cardinality(Uncredited) \in Nat
           /\ Cardinality(Uncredited') <= Cardinality(Uncredited)
  <1>1. \A b \in Beats : /\ beat'[b].metrics.delta \in Nat
                         /\ beat'[b].st = "idle"
                            => beat'[b].metrics.delta = 0
    BY DEF TrafficInv
  <1>2. \A b \in Beats : Bytes(b)' \subseteq Bytes(b)
    <2> SUFFICES ASSUME NEW b \in Beats PROVE Bytes(b)' \subseteq Bytes(b)
      OBVIOUS
    <2>1. CASE beat'[b].metrics = beat[b].metrics
      BY <2>1 DEF Bytes
    <2>2. CASE beat'[b].metrics.delta = 0
      <3>1. Bytes(b)' = {}
        BY <2>2 DEF Bytes
      <3> QED BY <3>1
    <2> QED BY <2>1, <2>2
  <1>3. Uncredited' \subseteq Uncredited
    BY <1>2 DEF Uncredited
  <1>4. IsFiniteSet(Uncredited)
    BY DEF TrafficInv
  <1>5. IsFiniteSet(Uncredited') /\ Cardinality(Uncredited') <= Cardinality(Uncredited)
    BY <1>3, <1>4, FS_Subset
  <1> QED BY <1>1, <1>4, <1>5, FS_CardinalityType

LEMMA TrafficContinues ==
    TrafficInv /\ [HostReportsNext]_reportVars => TrafficInv'
  <1> SUFFICES ASSUME TrafficInv, [HostReportsNext]_reportVars
               PROVE  TrafficInv'
    OBVIOUS
  <1>0. Cardinality(Uncredited) \in Nat /\ Unseen \in Nat
    BY FS_CardinalityType DEF TrafficInv, Unseen
  <1>1. CASE UNCHANGED <<beat, prev, counter, truly, credited>>
    <2>1. Uncredited' = Uncredited /\ Unseen' = Unseen
      BY <1>1 DEF Uncredited, Bytes, Unseen
    <2> QED BY <1>1, <2>1 DEF TrafficInv
  <1>2. CASE Traffic
    <2>1. /\ truly' = truly + 1 /\ counter' = counter + 1
          /\ UNCHANGED <<beat, prev, credited>>
      BY <1>2 DEF Traffic, server
    <2>2. Uncredited' = Uncredited
      BY <2>1 DEF Uncredited, Bytes
    <2>3. Unseen' \in Nat /\ Unseen' <= Unseen + 1
      BY <2>1 DEF Unseen, TrafficInv
    <2> QED BY <1>0, <2>1, <2>2, <2>3 DEF TrafficInv
  <1>3. CASE CounterRestarts
    <2>1. /\ counter' = 0 /\ UNCHANGED <<beat, prev, truly, credited>>
      BY <1>3 DEF CounterRestarts, server
    <2>2. Uncredited' = Uncredited
      BY <2>1 DEF Uncredited, Bytes
    <2>3. Unseen' = 0
      BY <2>1 DEF Unseen, TrafficInv
    <2> QED BY <1>0, <2>1, <2>2, <2>3 DEF TrafficInv
  <1>4. CASE AgentRestarts
    <2>1. /\ prev' = [known |-> FALSE, bytes |-> 0]
          /\ UNCHANGED <<counter, truly, credited>>
      BY <1>4 DEF AgentRestarts, machine, server
    <2>2. /\ DOMAIN beat' = Beats
          /\ \A b \in Beats : \/ beat'[b] = beat[b]
                              \/ beat'[b].metrics.delta = 0
      BY <1>4 DEF AgentRestarts, IdleBeat, NoMetrics
    <2>3. /\ \A b \in Beats : /\ beat'[b].metrics.delta \in Nat
                              /\ beat'[b].st = "idle"
                                 => beat'[b].metrics.delta = 0
          /\ IsFiniteSet(Uncredited')
          /\ Cardinality(Uncredited') \in Nat
          /\ Cardinality(Uncredited') <= Cardinality(Uncredited)
      BY <2>2, TrafficForgotten
    <2>4. Unseen' = 0
      BY <2>1 DEF Unseen
    <2> QED BY <1>0, <2>1, <2>2, <2>3, <2>4 DEF TrafficInv
  <1>5. ASSUME NEW b \in Beats, Sample(b) PROVE TrafficInv'
    <2>1. /\ prev' = [known |-> TRUE, bytes |-> counter]
          /\ UNCHANGED <<counter, truly, credited>>
          /\ beat[b].st = "idle"
      BY <1>5 DEF Sample, machine, server
    <2>2. /\ DOMAIN beat' = Beats
          /\ beat'[b].st = "address" /\ beat'[b].metrics.delta = Delta
          /\ \A c \in Beats \ {b} : beat'[c] = beat[c]
      BY <1>5 DEF Sample, Sampled, IdleBeat, TrafficInv
    <2>3. Unseen' = 0
      <3>1. ~(counter' > prev'.bytes)
        BY <2>1 DEF TrafficInv
      <3> QED BY <3>1 DEF Unseen
    <2>4. Delta \in Nat /\ Delta <= Unseen
      BY DEF Delta, Unseen, TrafficInv
    <2>5. Bytes(b) = {} /\ \A c \in Beats \ {b} : Bytes(c)' = Bytes(c)
      <3>1. beat[b].metrics.delta = 0
        BY <2>1 DEF TrafficInv
      <3> QED BY <2>2, <3>1 DEF Bytes
    <2>6. Uncredited' = Uncredited \cup Bytes(b)'
      BY <2>5 DEF Uncredited
    <2>7. IsFiniteSet(Bytes(b)') /\ Cardinality(Bytes(b)') = Delta
      <3>1. Bytes(b)' = {b} \X (1..Delta)
        BY <2>2 DEF Bytes
      <3>2. /\ IsFiniteSet({b} \X (1..Delta))
            /\ Cardinality({b} \X (1..Delta)) = Delta
        BY <2>4, PairsCounted
      <3> QED BY <3>1, <3>2
    <2>8. /\ IsFiniteSet(Uncredited')
          /\ Cardinality(Uncredited') \in Nat
          /\ Cardinality(Uncredited') <= Cardinality(Uncredited) + Delta
      <3>1. IsFiniteSet(Uncredited)
        BY DEF TrafficInv
      <3>2. /\ IsFiniteSet(Uncredited \cup Bytes(b)')
            /\ Cardinality(Uncredited \cup Bytes(b)') =
                 Cardinality(Uncredited) + Cardinality(Bytes(b)')
                 - Cardinality(Uncredited \cap Bytes(b)')
        BY <2>7, <3>1, FS_Union
      <3>3. IsFiniteSet(Uncredited \cap Bytes(b)')
        BY <3>1, FS_Intersection
      <3>4. Cardinality(Uncredited \cap Bytes(b)') \in Nat
        BY <3>3, FS_CardinalityType
      <3> QED BY <1>0, <2>4, <2>6, <2>7, <3>2, <3>4, FS_CardinalityType
    <2>9. \A c \in Beats : /\ beat'[c].metrics.delta \in Nat
                           /\ beat'[c].st = "idle"
                              => beat'[c].metrics.delta = 0
      BY <2>2, <2>4 DEF TrafficInv
    <2>10. credited' + Cardinality(Uncredited') + Unseen' <= truly'
      BY <1>0, <2>1, <2>3, <2>4, <2>8 DEF TrafficInv
    <2> QED BY <2>1, <2>2, <2>8, <2>9, <2>10 DEF TrafficInv
  <1>6. ASSUME NEW b \in Beats, SampleFails(b) \/ Consume(b) \/ Lost(b)
        PROVE  TrafficInv'
    <2>1. UNCHANGED <<prev, counter, truly, credited>>
      BY <1>6 DEF SampleFails, Consume, Lost, machine, server
    <2>2. /\ DOMAIN beat' = Beats
          /\ \A c \in Beats :
                \/ beat'[c].metrics = beat[c].metrics
                   /\ (beat'[c].st = "idle" => beat[c].st = "idle")
                \/ beat'[c].metrics.delta = 0
      <3>1. CASE SampleFails(b)
        BY <3>1 DEF SampleFails, TrafficInv
      <3>2. CASE Consume(b)
        BY <3>2 DEF Consume, TrafficInv
      <3>3. CASE Lost(b)
        BY <3>3 DEF Lost, TrafficInv, IdleBeat, NoMetrics
      <3> QED BY <1>6, <3>1, <3>2, <3>3
    <2>3. /\ \A c \in Beats : /\ beat'[c].metrics.delta \in Nat
                              /\ beat'[c].st = "idle"
                                 => beat'[c].metrics.delta = 0
          /\ IsFiniteSet(Uncredited')
          /\ Cardinality(Uncredited') \in Nat
          /\ Cardinality(Uncredited') <= Cardinality(Uncredited)
      BY <2>2, TrafficForgotten
    <2>4. Unseen' = Unseen
      BY <2>1 DEF Unseen
    <2> QED BY <1>0, <2>1, <2>2, <2>3, <2>4 DEF TrafficInv
  <1>7. ASSUME NEW b \in Beats, Heard(b) PROVE TrafficInv'
    <2>1. /\ UNCHANGED <<prev, counter, truly>>
          /\ beat' = [beat EXCEPT ![b] = IdleBeat]
          /\ \/ credited' = credited + beat[b].metrics.delta
             \/ credited' = credited + 0
      <3>1. PICK level \in Levels :
              LET p == beat[b]
                  stored == FullyParsed(p) /\ p.metrics.sampled
              IN  /\ UNCHANGED <<machine, prev>>
                  /\ beat' = [beat EXCEPT ![b] = IdleBeat]
                  /\ credited' = credited
                       + (IF stored THEN p.metrics.delta ELSE 0)
        BY <1>7 DEF Heard
      <3> QED BY <3>1 DEF machine
    <2>2. /\ DOMAIN beat' = Beats /\ beat'[b].metrics.delta = 0
          /\ \A c \in Beats \ {b} : beat'[c] = beat[c]
      BY <2>1 DEF TrafficInv, IdleBeat, NoMetrics
    <2>3. Bytes(b)' = {} /\ \A c \in Beats \ {b} : Bytes(c)' = Bytes(c)
      BY <2>2 DEF Bytes
    <2>4. \A c \in Beats \ {b} : Bytes(c) \cap Bytes(b) = {}
      BY DEF Bytes
    <2>5. Uncredited' = Uncredited \ Bytes(b) /\ Bytes(b) \subseteq Uncredited
      BY <2>3, <2>4 DEF Uncredited
    <2>6. /\ IsFiniteSet(Bytes(b))
          /\ Cardinality(Bytes(b)) = beat[b].metrics.delta
      BY PairsCounted DEF TrafficInv, Bytes
    <2>7. /\ IsFiniteSet(Uncredited')
          /\ Cardinality(Uncredited') =
               Cardinality(Uncredited) - beat[b].metrics.delta
      <3>1. /\ IsFiniteSet(Uncredited \ Bytes(b))
            /\ Cardinality(Uncredited \ Bytes(b)) =
                 Cardinality(Uncredited) - Cardinality(Uncredited \cap Bytes(b))
        BY FS_Difference DEF TrafficInv
      <3>2. Uncredited \cap Bytes(b) = Bytes(b)
        BY <2>5
      <3> QED BY <2>5, <2>6, <3>1, <3>2
    <2>8. Unseen' = Unseen
      BY <2>1 DEF Unseen
    <2>9. beat[b].metrics.delta \in Nat
      BY DEF TrafficInv
    <2>10. /\ credited' \in Nat
           /\ credited' + Cardinality(Uncredited') + Unseen' <= truly'
      BY <1>0, <2>1, <2>7, <2>8, <2>9 DEF TrafficInv
    <2>11. \A c \in Beats : /\ beat'[c].metrics.delta \in Nat
                            /\ beat'[c].st = "idle"
                               => beat'[c].metrics.delta = 0
      BY <2>2 DEF TrafficInv
    <2> QED BY <2>1, <2>2, <2>7, <2>10, <2>11 DEF TrafficInv
  <1>8. CASE UNCHANGED reportVars
    BY <1>1, <1>8 DEF reportVars, machine, server
  <1>9. CASE UpdaterReports
    BY <1>1, <1>9 DEF UpdaterReports, machine, server
  <1>10. CASE MomentPasses
    BY <1>1, <1>10 DEF MomentPasses, machine, server
  <1>11. ASSUME NEW n \in Notices, CooldownEnds(n) PROVE TrafficInv'
    BY <1>1, <1>11 DEF CooldownEnds, machine
  <1> QED BY <1>2, <1>3, <1>4, <1>5, <1>6, <1>7, <1>8, <1>9, <1>10, <1>11
          DEF HostReportsNext

(* For any number of overlapping heartbeats, lost or reordered posts,      *)
(* restarts of the agent and counters that start again, the traffic the    *)
(* stored rates stand for (collect-metrics.ts) is no more than what passed.*)
THEOREM TrafficIsCreditedOnce == HostReportsSpec => []TrafficOnce
  <1>1. TrafficInv => TrafficOnce
    <2> SUFFICES ASSUME TrafficInv PROVE TrafficOnce
      OBVIOUS
    <2>1. Cardinality(Uncredited) \in Nat /\ Unseen \in Nat
      BY FS_CardinalityType DEF TrafficInv, Unseen
    <2> QED BY <2>1 DEF TrafficInv, TrafficOnce
  <1> QED BY <1>1, TrafficBegins, TrafficContinues, PTL DEF HostReportsSpec

-----------------------------------------------------------------------------
(***************************************************************************)
(* The slots of a schedule, for days and hours of any length.  The slots   *)
(* are the instants Day * k + a (for every k, or for those of one weekday) *)
(* and Hour * k; what is computed from the digits of the clock is the last *)
(* and the next of them.                                                   *)
(***************************************************************************)
(* A period that begins sooner ends no later than a later one begins.      *)
LEMMA PeriodsInOrder ==
    ASSUME NEW n \in Nat \ {0}, NEW p \in Int, NEW q \in Int, p < q
    PROVE  n * p + n <= n * q
  <1>1. n * (q - p - 1) >= 0
    OBVIOUS
  <1> QED BY <1>1

(* The quotient counts whole periods, the remainder is within one.        *)
LEMMA InPeriods ==
    ASSUME NEW n \in Nat \ {0}, NEW t \in Int
    PROVE  /\ t \div n \in Int /\ t % n \in 0..(n - 1)
           /\ t = n * (t \div n) + (t % n)
  OBVIOUS

(* Quotient and remainder are the only ones that fit.                      *)
LEMMA PeriodOf ==
    ASSUME NEW n \in Nat \ {0}, NEW q \in Int, NEW r \in 0..(n - 1)
    PROVE  (n * q + r) \div n = q /\ (n * q + r) % n = r
  <1> DEFINE t == n * q + r
             d == t \div n
  <1>1. t \in Int
    OBVIOUS
  <1>2. d \in Int /\ t % n \in 0..(n - 1) /\ t = n * d + (t % n)
    BY <1>1, InPeriods
  <1>3. ~(d < q)
    BY <1>2, PeriodsInOrder
  <1>4. ~(q < d)
    BY <1>2, PeriodsInOrder
  <1> QED BY <1>2, <1>3, <1>4

(* Every instant lies between a slot and the next one.                     *)
LEMMA SlotBefore ==
    ASSUME NEW n \in Nat \ {0}, NEW a \in 0..(n - 1), NEW t \in Int
    PROVE  \E k \in Int : n * k + a <= t /\ t < n * k + a + n
  <1>1. t - a \in Int
    OBVIOUS
  <1> DEFINE k == (t - a) \div n
  <1>2. k \in Int /\ (t - a) % n \in 0..(n - 1) /\ t - a = n * k + ((t - a) % n)
    BY <1>1, InPeriods
  <1> HIDE DEF k
  <1>3. n * k \in Int
    BY <1>2
  <1>4. n * k + a <= t /\ t < n * k + a + n
    BY <1>2, <1>3
  <1> QED BY <1>2, <1>4

(* In the hour that begins at Hour * k, that is the last slot.             *)
LEMMA HourlyAt ==
    ASSUME NEW k \in Int, NEW t \in Int, Hour * k <= t, t < Hour * k + Hour
    PROVE  LastHourly(t) = Hour * k /\ NextHourly(t) = Hour * k + Hour
  <1> DEFINE r == t - Hour * k
  <1>1. Hour \in Nat \ {0}
    BY ScheduleAssumption
  <1>2. Hour * k \in Int
    BY <1>1
  <1>3. r \in 0..(Hour - 1) /\ t = Hour * k + r
    BY <1>1, <1>2
  <1>4. t % Hour = r
    BY <1>1, <1>3, PeriodOf
  <1> QED BY <1>2, <1>4 DEF LastHourly, NextHourly

(* Between two slots of a daily schedule: midnight may lie between them.   *)
LEMMA DailyAt ==
    ASSUME NEW k \in Int, NEW a \in 0..(Day - 1), NEW t \in Int,
           Day * k + a <= t, t < Day * k + a + Day
    PROVE  /\ LastDaily(t, a) = Day * k + a
           /\ NextDaily(t, a) = Day * k + a + Day
  <1> DEFINE q == t \div Day
             r == t % Day
  <1>0. Day \in Nat \ {0}
    BY ScheduleAssumption
  <1>1. q \in Int /\ r \in 0..(Day - 1) /\ t = Day * q + r
    BY <1>0, InPeriods
  <1>2. Day * q \in Int /\ Day * k \in Int
    BY <1>0, <1>1
  <1>3. Midnight(t) = Day * q
    BY <1>0, <1>1, <1>2 DEF Midnight
  <1>4. CASE a <= r
    <2>1. ~(q < k)
      BY <1>0, <1>1, <1>2, PeriodsInOrder
    <2>2. ~(k < q)
      <3> SUFFICES ASSUME k < q PROVE FALSE
        OBVIOUS
      <3>1. Day * k + Day <= Day * q
        BY <1>0, <1>1, PeriodsInOrder
      <3> QED BY <1>0, <1>1, <1>2, <1>4, <3>1
    <2>3. q = k
      BY <1>1, <2>1, <2>2
    <2> QED BY <1>0, <1>1, <1>2, <1>3, <1>4, <2>3 DEF LastDaily, NextDaily
  <1>5. CASE r < a
    <2>1. k < q
      <3> SUFFICES ASSUME q <= k PROVE FALSE
        BY <1>1
      <3>1. q = k \/ Day * q + Day <= Day * k
        BY <1>0, <1>1, PeriodsInOrder
      <3> QED BY <1>0, <1>1, <1>2, <1>5, <3>1
    <2>2. Day * (k + 1) = Day * k + Day
      BY <1>0
    <2>3. ~(k + 1 < q)
      <3> SUFFICES ASSUME k + 1 < q PROVE FALSE
        OBVIOUS
      <3>1. Day * (k + 1) + Day <= Day * q
        BY <1>0, <1>1, PeriodsInOrder
      <3> QED BY <1>0, <1>1, <1>2, <2>2, <3>1
    <2>4. q = k + 1
      BY <1>1, <2>1, <2>3
    <2>5. Midnight(t) = Day * k + Day
      BY <1>3, <2>2, <2>4
    <2> QED BY <1>0, <1>1, <1>2, <1>3, <1>5, <2>5 DEF LastDaily, NextDaily
  <1> QED BY <1>0, <1>1, <1>4, <1>5

(* The days of one weekday are seven days apart.                           *)
LEMMA WeeksApart ==
    ASSUME NEW a \in 0..(Day - 1), NEW m \in Int, NEW p \in Int,
           m % 7 = p % 7, Day * m + a < Day * p + a
    PROVE  Day * m + a + Week <= Day * p + a
  <1>0. Day \in Nat \ {0}
    BY ScheduleAssumption
  <1>1. Day * m \in Int /\ Day * p \in Int
    BY <1>0
  <1>2. ~(p < m)
    <2> SUFFICES ASSUME p < m PROVE FALSE
      OBVIOUS
    <2>1. Day * p + Day <= Day * m
      BY <1>0, PeriodsInOrder
    <2> QED BY <1>0, <1>1, <2>1
  <1>3. p # m
    BY <1>1
  <1>4. m + 7 <= p
    BY <1>2, <1>3
  <1>5. Day * (m + 7) = Day * m + 7 * Day
    BY <1>0
  <1>6. m + 7 = p \/ Day * (m + 7) + Day <= Day * p
    BY <1>0, <1>4, PeriodsInOrder
  <1> QED BY <1>0, <1>1, <1>5, <1>6 DEF Week

(* lastWeekly gives a slot of the weekday that is at most a week old.      *)
LEMMA WeeklyBefore ==
    ASSUME NEW a \in 0..(Day - 1), NEW dow \in 0..6, NEW t \in Int
    PROVE  \E m \in Int : /\ m % 7 = dow /\ LastWeekly(t, dow, a) = Day * m + a
                          /\ Day * m + a <= t /\ t < Day * m + a + Week
  <1> DEFINE q == t \div Day
             r == t % Day
             diff == ((q % 7) - dow + 7) % 7
             s == Day * (q - diff) + a
  <1>0. Day \in Nat \ {0}
    BY ScheduleAssumption
  <1>1. q \in Int /\ r \in 0..(Day - 1) /\ t = Day * q + r
    BY <1>0, InPeriods
  <1>2. diff \in 0..6 /\ (q - diff) % 7 = dow /\ (q - diff - 7) % 7 = dow
    BY <1>1
  <1>3. /\ Day * q \in Int /\ Day * diff \in Int /\ diff * Day = Day * diff
        /\ Day * (q - diff) = Day * q - Day * diff
        /\ Day * (q - diff - 7) = Day * q - Day * diff - 7 * Day
    BY <1>0, <1>1, <1>2
  <1>4. 0 <= Day * diff /\ Day * diff <= 6 * Day
    BY <1>0, <1>2
  <1> HIDE DEF diff
  <1>5. Midnight(t) - diff * Day + a = s
    BY <1>0, <1>1, <1>3 DEF Midnight
  <1>6. LastWeekly(t, dow, a) = IF t < s THEN s - Week ELSE s
    BY <1>5 DEF LastWeekly, WeekDay, diff
  <1>7. CASE t < s
    <2>1. s - Week = Day * (q - diff - 7) + a
      BY <1>0, <1>3 DEF Week
    <2>2. s - Week <= t /\ t < s - Week + Week
      BY <1>0, <1>1, <1>3, <1>4, <1>7 DEF Week
    <2>3. q - diff - 7 \in Int
      BY <1>1, <1>2
    <2> QED BY <1>2, <1>6, <1>7, <2>1, <2>2, <2>3
  <1>8. CASE ~(t < s)
    <2>1. s <= t /\ t < s + Week
      BY <1>0, <1>1, <1>3, <1>4, <1>8 DEF Week
    <2>2. q - diff \in Int
      BY <1>1, <1>2
    <2> QED BY <1>2, <1>6, <1>8, <2>1, <2>2
  <1> QED BY <1>7, <1>8

(* There is only one such slot, and the search through the next 14 days    *)
(* finds the one a week after it.                                          *)
LEMMA WeeklyAt ==
    ASSUME NEW a \in 0..(Day - 1), NEW dow \in 0..6, NEW m \in Int,
           m % 7 = dow, NEW t \in Int,
           Day * m + a <= t, t < Day * m + a + Week
    PROVE  /\ LastWeekly(t, dow, a) = Day * m + a
           /\ NextWeekly(t, dow, a) = Day * m + a + Week
  <1> DEFINE q == t \div Day
             r == t % Day
             slot(k) == Midnight(t) + k * Day + a
             fits == {k \in 0..13 : WeekDay(slot(k)) = dow /\ slot(k) > t}
             first == m + 7 - q
  <1>0. Day \in Nat \ {0} /\ Week = 7 * Day
    BY ScheduleAssumption DEF Week
  <1>1. q \in Int /\ r \in 0..(Day - 1) /\ t = Day * q + r
    BY <1>0, InPeriods
  <1>2. Day * q \in Int /\ Day * m \in Int /\ a \in Int
    BY <1>0, <1>1
  <1>3. Midnight(t) = Day * q
    BY <1>0, <1>1, <1>2 DEF Midnight
  <1>4. LastWeekly(t, dow, a) = Day * m + a
    <2>1. PICK p \in Int : /\ p % 7 = dow
                           /\ LastWeekly(t, dow, a) = Day * p + a
                           /\ Day * p + a <= t /\ t < Day * p + a + Week
      BY WeeklyBefore
    <2>2. Day * p \in Int
      BY <1>0
    <2>3. ~(Day * m + a < Day * p + a)
      <3> SUFFICES ASSUME Day * m + a < Day * p + a PROVE FALSE
        OBVIOUS
      <3>1. Day * m + a + Week <= Day * p + a
        BY <2>1, WeeksApart
      <3> QED BY <1>0, <1>2, <2>1, <2>2, <3>1
    <2>4. ~(Day * p + a < Day * m + a)
      <3> SUFFICES ASSUME Day * p + a < Day * m + a PROVE FALSE
        OBVIOUS
      <3>1. Day * p + a + Week <= Day * m + a
        BY <2>1, WeeksApart
      <3> QED BY <1>0, <1>2, <2>1, <2>2, <3>1
    <2> QED BY <1>2, <2>1, <2>2, <2>3, <2>4
  <1>5. \A k \in Int : /\ k * Day \in Int /\ slot(k) = Day * (q + k) + a
                       /\ WeekDay(slot(k)) = (q + k) % 7
    <2> SUFFICES ASSUME NEW k \in Int
                 PROVE  /\ k * Day \in Int /\ slot(k) = Day * (q + k) + a
                        /\ WeekDay(slot(k)) = (q + k) % 7
      OBVIOUS
    <2>1. k * Day \in Int /\ Day * (q + k) = Day * q + k * Day
      BY <1>0, <1>1
    <2>2. slot(k) = Day * (q + k) + a
      BY <1>2, <1>3, <2>1
    <2>3. q + k \in Int
      BY <1>1
    <2>4. slot(k) \div Day = q + k
      BY <1>0, <2>2, <2>3, PeriodOf
    <2> QED BY <2>1, <2>2, <2>4 DEF WeekDay
  <1>6. first \in Int /\ q + first = m + 7 /\ Day * (m + 7) = Day * m + Week
    BY <1>0, <1>1
  <1>7. slot(first) = Day * m + a + Week /\ WeekDay(slot(first)) = dow
    <2>1. slot(first) = Day * (m + 7) + a /\ WeekDay(slot(first)) = (m + 7) % 7
      BY <1>5, <1>6
    <2>2. (m + 7) % 7 = dow
      OBVIOUS
    <2> QED BY <1>0, <1>2, <1>6, <2>1, <2>2
  <1>8. first \in 0..13
    <2>1. ~(m + 7 < q)
      <3> SUFFICES ASSUME m + 7 < q PROVE FALSE
        OBVIOUS
      <3>1. Day * (m + 7) + Day <= Day * q
        BY <1>0, <1>1, PeriodsInOrder
      <3> QED BY <1>0, <1>1, <1>2, <1>6, <3>1
    <2>2. ~(q < m)
      <3> SUFFICES ASSUME q < m PROVE FALSE
        OBVIOUS
      <3>1. Day * q + Day <= Day * m
        BY <1>0, <1>1, PeriodsInOrder
      <3> QED BY <1>0, <1>1, <1>2, <3>1
    <2> QED BY <1>1, <2>1, <2>2
  <1>9. first \in fits
    BY <1>0, <1>2, <1>7, <1>8
  <1>10. \A k \in fits : first <= k
    <2> SUFFICES ASSUME NEW k \in fits PROVE first <= k
      OBVIOUS
    <2>1. /\ k \in Int /\ q + k \in Int
          /\ (q + k) % 7 = m % 7
          /\ Day * (q + k) + a > t
      <3>1. k \in 0..13 /\ WeekDay(slot(k)) = dow /\ slot(k) > t
        OBVIOUS
      <3> HIDE DEF fits, slot
      <3>2. slot(k) = Day * (q + k) + a /\ WeekDay(slot(k)) = (q + k) % 7
        BY <1>5, <3>1
      <3>3. k \in Int /\ q + k \in Int
        BY <1>1, <3>1
      <3> HIDE DEF q
      <3> QED BY <3>1, <3>2, <3>3
    <2>2. Day * (q + k) \in Int
      BY <1>0, <2>1
    <2>3. Day * m + a < Day * (q + k) + a
      BY <1>2, <2>1, <2>2
    <2>4. m < q + k
      <3> SUFFICES ASSUME q + k <= m PROVE FALSE
        BY <2>1
      <3>1. q + k = m \/ Day * (q + k) + Day <= Day * m
        BY <1>0, <2>1, PeriodsInOrder
      <3> QED BY <1>0, <1>2, <2>2, <2>3, <3>1
    <2>5. m + 7 <= q + k
      BY <2>1, <2>4
    <2> QED BY <1>1, <2>1, <2>5
  <1>11. (CHOOSE k \in fits : \A j \in fits : k <= j) = first
    <2>1. \A k \in fits : (\A j \in fits : k <= j) => k = first
      <3>1. fits \subseteq Int
        OBVIOUS
      <3> HIDE DEF fits, first
      <3> QED BY <1>6, <1>9, <1>10, <3>1
    <2> HIDE DEF fits, first
    <2> QED BY <1>9, <1>10, <2>1
  <1>12. NextWeekly(t, dow, a) =
           IF fits = {} THEN t + Week
           ELSE slot(CHOOSE k \in fits : \A j \in fits : k <= j)
    BY DEF NextWeekly
  <1>13. NextWeekly(t, dow, a) = slot(first)
    <2> HIDE DEF fits, first, slot
    <2> QED BY <1>9, <1>11, <1>12
  <1> QED BY <1>4, <1>7, <1>13

ScheduleInv == now \in Int /\ schedule \in Schedules

(* Each mode: the slot before now, and what holds between it and the next. *)
LEMMA SlotsFit == ScheduleInv => SlotsMatchSchedule
  <1> SUFFICES ASSUME ScheduleInv PROVE SlotsMatchSchedule
    OBVIOUS
  <1> DEFINE last == LastSlot(now, schedule)
             next == NextSlot(now, schedule)
  <1>0. Hour \in Nat \ {0} /\ Day \in Nat \ {0} /\ now \in Int
    BY ScheduleAssumption DEF ScheduleInv
  <1>1. SUFFICES /\ last <= now /\ IsSlot(last, schedule)
                 /\ \A t \in (last + 1)..now : ~IsSlot(t, schedule)
                 /\ next > now /\ LastSlot(next, schedule) = next
                 /\ LastSlot(next - 1, schedule) = last
    BY DEF SlotsMatchSchedule
  <1>2. CASE schedule \in Hourly
    <2>0. /\ schedule.mode = "hourly"
          /\ \A t : /\ LastSlot(t, schedule) = LastHourly(t)
                    /\ NextSlot(t, schedule) = NextHourly(t)
                    /\ IsSlot(t, schedule) <=> t % Hour = 0
      BY <1>2 DEF Hourly, LastSlot, NextSlot, IsSlot
    <2>1. PICK k \in Int : Hour * k <= now /\ now < Hour * k + Hour
      <3>1. 0 \in 0..(Hour - 1)
        BY <1>0
      <3>2. PICK k \in Int : Hour * k + 0 <= now /\ now < Hour * k + 0 + Hour
        BY <1>0, <3>1, SlotBefore
      <3>3. Hour * k \in Int
        BY <1>0
      <3> QED BY <3>2, <3>3
    <2>2. Hour * k \in Int /\ Hour * (k + 1) = Hour * k + Hour
      BY <1>0
    <2>3. last = Hour * k /\ next = Hour * k + Hour
      <3>1. LastHourly(now) = Hour * k /\ NextHourly(now) = Hour * k + Hour
        BY <1>0, <2>1, HourlyAt
      <3> QED BY <2>0, <3>1
    <2>4. (Hour * k) % Hour = 0
      <3>1. (Hour * k + 0) % Hour = 0
        BY <1>0, PeriodOf
      <3> QED BY <2>2, <3>1
    <2>5. \A t \in (Hour * k + 1)..now : t % Hour # 0
      <3> SUFFICES ASSUME NEW t \in (Hour * k + 1)..now, t % Hour = 0
                   PROVE  FALSE
        OBVIOUS
      <3>1. t \in Int /\ t \div Hour \in Int /\ t = Hour * (t \div Hour) + 0
        BY <1>0, <2>2, InPeriods
      <3>2. Hour * (t \div Hour) \in Int
        BY <1>0, <3>1
      <3>3. ~(k < t \div Hour)
        <4> SUFFICES ASSUME k < t \div Hour PROVE FALSE
          OBVIOUS
        <4>1. Hour * k + Hour <= Hour * (t \div Hour)
          BY <1>0, <3>1, PeriodsInOrder
        <4> QED BY <1>0, <2>1, <2>2, <3>1, <3>2, <4>1
      <3>4. k = t \div Hour \/ Hour * (t \div Hour) + Hour <= Hour * k
        BY <1>0, <3>1, <3>3, PeriodsInOrder
      <3> QED BY <1>0, <2>2, <3>1, <3>2, <3>4
    <2>6. LastHourly(Hour * k + Hour) = Hour * k + Hour
      <3>1. /\ k + 1 \in Int /\ Hour * k + Hour \in Int
            /\ Hour * (k + 1) <= Hour * k + Hour
            /\ Hour * k + Hour < Hour * (k + 1) + Hour
        BY <1>0, <2>2
      <3> QED BY <2>2, <3>1, HourlyAt
    <2>7. LastHourly(Hour * k + Hour - 1) = Hour * k
      <3>1. /\ Hour * k + Hour - 1 \in Int
            /\ Hour * k <= Hour * k + Hour - 1
            /\ Hour * k + Hour - 1 < Hour * k + Hour
        BY <1>0, <2>2
      <3> QED BY <3>1, HourlyAt
    <2> HIDE DEF last, next
    <2> QED BY <1>0, <2>0, <2>1, <2>2, <2>3, <2>4, <2>5, <2>6, <2>7
  <1>3. CASE schedule \in Daily
    <2> DEFINE a == schedule.at
    <2>0. /\ schedule.mode = "daily" /\ a \in 0..(Day - 1)
          /\ \A t : /\ LastSlot(t, schedule) = LastDaily(t, a)
                    /\ NextSlot(t, schedule) = NextDaily(t, a)
                    /\ IsSlot(t, schedule) <=> t % Day = a
      BY <1>3 DEF Daily, LastSlot, NextSlot, IsSlot
    <2> HIDE DEF a
    <2>1. PICK k \in Int : Day * k + a <= now /\ now < Day * k + a + Day
      BY <1>0, <2>0, SlotBefore
    <2>2. /\ Day * k \in Int /\ Day * (k + 1) = Day * k + Day /\ a \in Int
      BY <1>0, <2>0
    <2>3. last = Day * k + a /\ next = Day * k + a + Day
      BY <1>0, <2>0, <2>1, DailyAt
    <2>4. (Day * k + a) % Day = a
      BY <1>0, <2>0, PeriodOf
    <2>5. \A t \in (Day * k + a + 1)..now : t % Day # a
      <3> SUFFICES ASSUME NEW t \in (Day * k + a + 1)..now, t % Day = a
                   PROVE  FALSE
        OBVIOUS
      <3> DEFINE p == t \div Day
      <3>1. t \in Int /\ p \in Int /\ t = Day * p + a
        BY <1>0, <2>2, InPeriods
      <3> HIDE DEF p
      <3>2. Day * p \in Int
        BY <1>0, <3>1
      <3>3. ~(k < p)
        <4> SUFFICES ASSUME k < p PROVE FALSE
          OBVIOUS
        <4>1. Day * k + Day <= Day * p
          BY <1>0, <3>1, PeriodsInOrder
        <4> QED BY <1>0, <2>1, <2>2, <3>1, <3>2, <4>1
      <3>4. k = p \/ Day * p + Day <= Day * k
        BY <1>0, <3>1, <3>3, PeriodsInOrder
      <3> QED BY <1>0, <2>2, <3>1, <3>2, <3>4
    <2>6. LastDaily(Day * k + a + Day, a) = Day * k + a + Day
      <3>1. /\ k + 1 \in Int /\ Day * k + a + Day \in Int
            /\ Day * (k + 1) + a <= Day * k + a + Day
            /\ Day * k + a + Day < Day * (k + 1) + a + Day
            /\ Day * (k + 1) + a = Day * k + a + Day
        BY <1>0, <2>2
      <3>2. LastDaily(Day * k + a + Day, a) = Day * (k + 1) + a
        BY <2>0, <3>1, DailyAt
      <3> QED BY <3>1, <3>2
    <2>7. LastDaily(Day * k + a + Day - 1, a) = Day * k + a
      <3>1. /\ Day * k + a + Day - 1 \in Int
            /\ Day * k + a <= Day * k + a + Day - 1
            /\ Day * k + a + Day - 1 < Day * k + a + Day
        BY <1>0, <2>2
      <3> QED BY <2>0, <3>1, DailyAt
    <2> HIDE DEF last, next
    <2> QED BY <1>0, <2>0, <2>1, <2>2, <2>3, <2>4, <2>5, <2>6, <2>7
  <1>4. CASE schedule \in Weekly
    <2> DEFINE a == schedule.at
               dow == schedule.dow
    <2>0. /\ schedule.mode = "weekly" /\ a \in 0..(Day - 1) /\ dow \in 0..6
          /\ \A t : /\ LastSlot(t, schedule) = LastWeekly(t, dow, a)
                    /\ NextSlot(t, schedule) = NextWeekly(t, dow, a)
                    /\ IsSlot(t, schedule)
                         <=> (t % Day = a /\ (t \div Day) % 7 = dow)
      BY <1>4 DEF Weekly, LastSlot, NextSlot, IsSlot, WeekDay
    <2> HIDE DEF a, dow
    <2>1. PICK m \in Int : /\ m % 7 = dow
                           /\ Day * m + a <= now /\ now < Day * m + a + Week
      BY <1>0, <2>0, WeeklyBefore
    <2>2. /\ Day * m \in Int /\ Week = 7 * Day /\ a \in Int
          /\ Day * (m + 7) = Day * m + Week
      BY <1>0, <2>0 DEF Week
    <2>3. last = Day * m + a /\ next = Day * m + a + Week
      <3>1. /\ LastWeekly(now, dow, a) = Day * m + a
            /\ NextWeekly(now, dow, a) = Day * m + a + Week
        BY <1>0, <2>0, <2>1, WeeklyAt
      <3> QED BY <2>0, <3>1
    <2>4. (Day * m + a) % Day = a /\ (Day * m + a) \div Day = m
      BY <1>0, <2>0, PeriodOf
    <2>5. \A t \in (Day * m + a + 1)..now :
             ~(t % Day = a /\ (t \div Day) % 7 = dow)
      <3> SUFFICES ASSUME NEW t \in (Day * m + a + 1)..now, t % Day = a,
                          (t \div Day) % 7 = dow
                   PROVE  FALSE
        OBVIOUS
      <3> DEFINE p == t \div Day
      <3>1. t \in Int /\ p \in Int /\ t = Day * p + a /\ p % 7 = m % 7
        BY <1>0, <2>1, <2>2, InPeriods
      <3> HIDE DEF p
      <3>2. Day * m + a < Day * p + a
        BY <1>0, <2>2, <3>1
      <3>3. Day * m + a + Week <= Day * p + a
        BY <2>0, <3>1, <3>2, WeeksApart
      <3> QED BY <1>0, <2>1, <2>2, <3>1, <3>3
    <2>6. LastWeekly(Day * m + a + Week, dow, a) = Day * m + a + Week
      <3>1. /\ m + 7 \in Int /\ Day * m + a + Week \in Int
            /\ (m + 7) % 7 = dow
            /\ Day * (m + 7) + a <= Day * m + a + Week
            /\ Day * m + a + Week < Day * (m + 7) + a + Week
            /\ Day * (m + 7) + a = Day * m + a + Week
        BY <1>0, <2>1, <2>2
      <3>2. LastWeekly(Day * m + a + Week, dow, a) = Day * (m + 7) + a
        BY <2>0, <3>1, WeeklyAt
      <3> QED BY <3>1, <3>2
    <2>7. LastWeekly(Day * m + a + Week - 1, dow, a) = Day * m + a
      <3>1. /\ Day * m + a + Week - 1 \in Int
            /\ Day * m + a <= Day * m + a + Week - 1
            /\ Day * m + a + Week - 1 < Day * m + a + Week
        BY <1>0, <2>2
      <3> QED BY <2>0, <2>1, <3>1, WeeklyAt
    <2> HIDE DEF last, next
    <2> QED BY <1>0, <2>0, <2>1, <2>2, <2>3, <2>4, <2>5, <2>6, <2>7
  <1> QED BY <1>2, <1>3, <1>4 DEF ScheduleInv, Schedules

(* At every minute the slot a backup is measured against is the latest     *)
(* instant of the schedule that has come, with none after it, and the one  *)
(* shown as the next run (backup-schedule.ts) is the instant at which the  *)
(* former changes: for hours and days of any length, any time of day, any  *)
(* day of the week.                                                        *)
THEOREM SlotsAreRight == ScheduleSpec => []SlotsMatchSchedule
  <1>1. ScheduleInit => ScheduleInv
    <2>1. Week \in Int
      BY ScheduleAssumption DEF Week
    <2> QED BY <2>1 DEF ScheduleInit, ScheduleInv
  <1>2. ScheduleInv /\ [Minute]_scheduleVars => ScheduleInv'
    BY DEF ScheduleInv, Minute, scheduleVars
  <1> QED BY <1>1, <1>2, SlotsFit, PTL DEF ScheduleSpec
=============================================================================
