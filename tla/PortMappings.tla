----------------------------- MODULE PortMappings -----------------------------
(***************************************************************************)
(* The ports of one server on the router and in the Windows Firewall.  A   *)
(* launch adds inbound rules and then mappings, one request after the      *)
(* other, on the first gateway that accepts any, and saves what it added   *)
(* in a file; a teardown deletes what the file names and then the file.    *)
(* The agent may die between any two of these steps, and start again with  *)
(* the status the control plane has for the server.                        *)
(*                                                                         *)
(* One job at a time works on the server; what two jobs do to its process  *)
(* is the matter of HostAgent.                                             *)
(***************************************************************************)
EXTENDS Naturals, FiniteSets, Sequences, SequencesExt

CONSTANTS
    Gateways,       \* routers that answer SSDP
    Endpoints,      \* pairs of a protocol and a port
    MaxLaunches,    \* bound: launches
    MaxPortFaults   \* bound: failed calls, lost answers, deaths

ASSUME PortMappingsAssumption ==
    MaxLaunches \in Nat /\ MaxPortFaults \in Nat /\ IsFiniteSet(Gateways)

VARIABLES
    row,        \* status of the server, as the control plane has it
    dead,       \* its process died, and the watchdog has not acted yet
    job,        \* what the agent does for it
    mapped,     \* mappings that the gateways have for it
    mapFile,    \* what .steamline-upnp-mappings.json names, {} without it
    rules,      \* inbound rules of it
    ruleFile,   \* what .steamline-firewall-rules.json names, {} without it
    strays,     \* history: mappings and rules that a fault touched
    launches, portFaults

router == <<mapped, mapFile>>
windows == <<rules, ruleFile>>
mappingVars == <<row, dead, job, router, windows, strays, launches, portFaults>>

Maps == Gateways \X Endpoints

(* step: "rules", "discover", "map", "save", "report" of a launch, and     *)
(* "unmap", "unrule", "done" of a teardown before the job of its aim.      *)
NetJob(step, aim, want, left) ==
    [step |-> step, aim |-> aim, want |-> want, todo |-> <<>>, left |-> left,
     got |-> {}]
NoJob == NetJob("none", "none", {}, {})

MappingsTypeOK ==
    /\ row \in {"stopped", "starting", "running", "stopping", "failed",
                "pending_delete", "gone"}
    /\ dead \in BOOLEAN
    /\ job.step \in {"none", "rules", "discover", "map", "save", "report",
                     "unmap", "unrule", "done"}
    /\ job.aim \in {"none", "launch", "stop", "restart", "delete"}
    /\ job.want \subseteq Endpoints /\ job.todo \in Seq(Gateways)
    /\ job.left \subseteq Maps /\ job.got \subseteq Maps
    /\ mapped \cup mapFile \subseteq Maps
    /\ rules \cup ruleFile \subseteq Endpoints
    /\ strays \subseteq Maps \cup Endpoints
    /\ launches \in 0..MaxLaunches /\ portFaults \in 0..MaxPortFaults

MappingsInit ==
    /\ row = "starting" /\ dead = FALSE /\ job = NoJob
    /\ mapped = {} /\ mapFile = {} /\ rules = {} /\ ruleFile = {}
    /\ strays = {} /\ launches = 0 /\ portFaults = 0

PortFault == portFaults < MaxPortFaults /\ portFaults' = portFaults + 1

-----------------------------------------------------------------------------
(* The user starts, stops or deletes the server.                           *)
UserAsks ==
    /\ \/ row \in {"stopped", "failed"} /\ row' = "starting"
       \/ row = "running" /\ row' = "stopping"
       \/ row \in {"stopped", "failed", "running"} /\ row' = "pending_delete"
    /\ UNCHANGED <<dead, job, router, windows, strays, launches, portFaults>>

ProcessDies ==
    /\ row = "running" /\ ~dead /\ dead' = TRUE
    /\ UNCHANGED <<row, job, router, windows, strays, launches, portFaults>>

(* The jobs: a launch; or a teardown, first of a stop, of a restart by the *)
(* watchdog, of a delete.  The ports of a launch are those found free.     *)
Launch(want) == NetJob("rules", "launch", want, {})
Teardown(aim) == NetJob("unmap", aim, {}, mapFile)

BeginLaunch ==
    /\ job = NoJob /\ row = "starting" /\ launches < MaxLaunches
    /\ launches' = launches + 1
    /\ \E want \in SUBSET Endpoints : want # {} /\ job' = Launch(want)
    /\ UNCHANGED <<row, dead, router, windows, strays, portFaults>>

(* Mutant: the file goes before its mappings are deleted.                  *)
BeginTeardownForgets ==
    /\ job = NoJob
    /\ \/ row = "stopping" /\ job' = Teardown("stop")
       \/ row = "pending_delete" /\ job' = Teardown("delete")
       \/ row = "running" /\ dead /\ launches < MaxLaunches
          /\ job' = Teardown("restart")
    /\ mapFile' = {}
    /\ UNCHANGED <<row, dead, mapped, windows, strays, launches, portFaults>>

BeginTeardown ==
    /\ job = NoJob
    /\ \/ row = "stopping" /\ job' = Teardown("stop")
       \/ row = "pending_delete" /\ job' = Teardown("delete")
       \/ row = "running" /\ dead /\ launches < MaxLaunches
          /\ job' = Teardown("restart")
    /\ UNCHANGED <<row, dead, router, windows, strays, launches, portFaults>>

-----------------------------------------------------------------------------
(***************************************************************************)
(* applyWindowsFirewallForPorts and tryUpnpPortForward.                    *)
(***************************************************************************)

(* Every name is saved, of the rules that netsh refused as well.           *)
ApplyRules ==
    /\ job.step = "rules" /\ job' = [job EXCEPT !.step = "discover"]
    /\ \/ UNCHANGED <<windows, strays, portFaults>>       \* not on Windows
       \/ /\ rules' = rules \cup job.want /\ ruleFile' = job.want
          /\ UNCHANGED <<strays, portFaults>>
       \/ /\ PortFault /\ rules' = rules \cup job.want
          /\ strays' = strays \cup job.want /\ UNCHANGED ruleFile
       \/ /\ PortFault /\ ruleFile' = job.want
          /\ \E some \in SUBSET job.want : rules' = rules \cup some
          /\ UNCHANGED strays
    /\ UNCHANGED <<row, dead, router, launches>>

(* The answers to SSDP, in the order they came.                            *)
Discover ==
    /\ job.step = "discover"
    /\ \E seen \in SUBSET Gateways : \E s \in SetToSeqs(seen) :
          job' = [job EXCEPT !.step = "map", !.todo = s]
    /\ UNCHANGED <<row, dead, router, windows, strays, launches, portFaults>>

(* AddPortMapping: the gateway accepts, or refuses, or its answer is lost. *)
AddMapping ==
    /\ job.step = "map" /\ job.left # {}
    /\ \E m \in job.left :
          \/ /\ mapped' = mapped \cup {m}
             /\ job' = [job EXCEPT !.left = @ \ {m}, !.got = @ \cup {m}]
             /\ UNCHANGED <<strays, portFaults>>
          \/ /\ job' = [job EXCEPT !.left = @ \ {m}]
             /\ UNCHANGED <<mapped, strays, portFaults>>
          \/ /\ PortFault /\ mapped' = mapped \cup {m}
             /\ job' = [job EXCEPT !.left = @ \ {m}]
             /\ strays' = strays \cup {m}
    /\ UNCHANGED <<row, dead, mapFile, windows, launches>>

(* With a mapping from one gateway the next one is not asked.              *)
NextGateway ==
    /\ job.step = "map" /\ job.left = {}
    /\ job' = IF job.got # {} \/ job.todo = <<>>
              THEN [job EXCEPT !.step = "save", !.todo = <<>>]
              ELSE [job EXCEPT !.todo = Tail(@),
                               !.left = {Head(job.todo)} \X job.want]
    /\ UNCHANGED <<row, dead, router, windows, strays, launches, portFaults>>

SaveMappings ==
    /\ job.step = "save" /\ job' = [job EXCEPT !.step = "report"]
    /\ \/ /\ mapFile' = IF job.got = {} THEN mapFile ELSE job.got
          /\ UNCHANGED <<strays, portFaults>>
       \/ /\ PortFault /\ UNCHANGED mapFile /\ strays' = strays \cup job.got
    /\ UNCHANGED <<row, dead, mapped, windows, launches>>

(* The status of the launch, or a report that fails: the next launch will  *)
(* write over the files of this one.                                       *)
Unsettled == job.got \cup mapFile \cup ruleFile

ReportLaunch ==
    /\ job.step = "report" /\ job' = NoJob /\ dead' = FALSE
    /\ \/ row' = "running" /\ UNCHANGED <<strays, portFaults>>
       \/ row' = "failed" /\ PortFault /\ strays' = strays \cup Unsettled
    /\ UNCHANGED <<router, windows, launches>>

-----------------------------------------------------------------------------
(***************************************************************************)
(* tearDownNetworkingForInstance.                                          *)
(***************************************************************************)
RemoveMapping ==
    /\ job.step = "unmap" /\ job.left # {}
    /\ \E m \in job.left :
          /\ job' = [job EXCEPT !.left = @ \ {m}]
          /\ \/ mapped' = mapped \ {m} /\ UNCHANGED <<strays, portFaults>>
             \/ /\ PortFault /\ strays' = strays \cup {m} /\ UNCHANGED mapped
    /\ UNCHANGED <<row, dead, mapFile, windows, launches>>

(* The file goes when every mapping in it was tried.                       *)
ForgetMappings ==
    /\ job.step = "unmap" /\ job.left = {}
    /\ mapFile' = {} /\ job' = [job EXCEPT !.step = "unrule"]
    /\ UNCHANGED <<row, dead, mapped, windows, strays, launches, portFaults>>

RemoveRules ==
    /\ job.step = "unrule" /\ job' = [job EXCEPT !.step = "done"]
    /\ ruleFile' = {}
    /\ \/ rules' = rules \ ruleFile /\ UNCHANGED <<strays, portFaults>>
       \/ /\ PortFault /\ UNCHANGED rules
          /\ strays' = strays \cup ruleFile
    /\ UNCHANGED <<row, dead, router, launches>>

(* A stop or a delete ends; a restart goes on to its launch.               *)
TornDown ==
    /\ job.step = "done"
    /\ IF job.aim = "restart"
       THEN /\ launches' = launches + 1 /\ UNCHANGED row
            /\ \E want \in SUBSET Endpoints : want # {} /\ job' = Launch(want)
       ELSE /\ row' = (IF job.aim = "stop" THEN "stopped" ELSE "gone")
            /\ job' = NoJob /\ UNCHANGED launches
    /\ dead' = IF job.aim = "restart" THEN dead ELSE FALSE
    /\ UNCHANGED <<router, windows, strays, portFaults>>

-----------------------------------------------------------------------------
(* The agent dies: a launch leaves what it has not saved, and the launch   *)
(* after it writes over what it has.                                       *)
AgentDies ==
    /\ job # NoJob /\ PortFault /\ job' = NoJob
    /\ strays' = strays \cup (IF job.aim = "launch" THEN Unsettled ELSE {})
    /\ UNCHANGED <<row, dead, router, windows, launches>>

(* A lease ends (7200 s); nothing renews it.                               *)
LeaseEnds ==
    /\ \E m \in mapped : mapped' = mapped \ {m}
    /\ UNCHANGED <<row, dead, job, mapFile, windows, strays, launches,
                   portFaults>>

MappingsNext ==
    \/ UserAsks \/ ProcessDies \/ BeginLaunch \/ BeginTeardown
    \/ ApplyRules \/ Discover \/ AddMapping \/ NextGateway \/ SaveMappings
    \/ ReportLaunch
    \/ RemoveMapping \/ ForgetMappings \/ RemoveRules \/ TornDown
    \/ AgentDies \/ LeaseEnds

MappingsSpec == MappingsInit /\ [][MappingsNext]_mappingVars

-----------------------------------------------------------------------------
(***************************************************************************)
(* While the agent does nothing for the server, each mapping and rule of   *)
(* it is named by its files; and a server that was stopped or deleted has  *)
(* none; but for those that a failed call, a lost answer or a death of the *)
(* agent touched, and those of a launch that was not reported.             *)
(***************************************************************************)
NothingLeftOpen ==
    job = NoJob =>
        LET open == (mapped \cup rules) \ strays
        IN /\ open \subseteq mapFile \cup ruleFile
           /\ row \in {"stopped", "gone"} => open = {}
=============================================================================
