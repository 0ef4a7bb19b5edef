---------------------------- MODULE HostFirewall ----------------------------
(***************************************************************************)
(* The way to a game server: the ports the machine's firewall lets in and  *)
(* the ones the router forwards.  A server is named by its port.           *)
(*                                                                         *)
(* On Linux the loop of the agent makes the firewall follow the servers    *)
(* the control plane lists as running; with nftables it fills a table,     *)
(* which only an administrator can create and anybody may delete, with     *)
(* firewalld it keeps a file of the ports it has opened.  On Windows every *)
(* launch and every stop changes the rules of its server.  Routers are     *)
(* told at launch, for a lease that nothing renews.                        *)
(***************************************************************************)
EXTENDS Naturals, FiniteSets

CONSTANTS
    Ports,          \* the servers
    MaxChanges      \* bound: launches, stops and changes of the table

ASSUME FirewallAssumption == MaxChanges \in Nat

VARIABLES
    backend,        \* what the machine has: "nft", "firewalld" or "netsh"
    table,          \* the nftables table "inet steamline": none, bare, or
                    \* with the input chain that drops what no rule accepts
    listed,         \* servers listed as running or recovering
    allowed,        \* ports the firewall lets in
    record,         \* the state file: the ports last asked for
    ruleFiles,      \* .steamline-firewall-rules.json exists
    forwards,       \* port mappings in the router
    mapFiles,       \* .steamline-upnp-mappings.json exists
    changes,        \* ... and what others did to the table
    skipped         \* history: a command failed that nothing tries again

firewallVars == <<backend, table, listed, allowed, record, ruleFiles,
                  forwards, mapFiles, changes, skipped>>
routerVars == <<ruleFiles, forwards, mapFiles>>

NoRecord == {0}

FirewallTypeOK ==
    /\ backend \in {"nft", "firewalld", "netsh"}
    /\ table \in {"none", "bare", "drop"}
    /\ listed \subseteq Ports /\ allowed \subseteq Ports
    /\ (record = NoRecord \/ record \subseteq Ports)
    /\ ruleFiles \subseteq Ports /\ forwards \subseteq Ports
    /\ mapFiles \subseteq Ports /\ changes \in 0..MaxChanges
    /\ skipped \in BOOLEAN

FirewallInit ==
    /\ backend \in {"nft", "firewalld", "netsh"} /\ table = "none"
    /\ listed = {} /\ allowed = (IF backend = "nft" THEN Ports ELSE {})
    /\ record = NoRecord /\ ruleFiles = {}
    /\ forwards = {} /\ mapFiles = {} /\ changes = 0 /\ skipped = FALSE

Change == changes < MaxChanges /\ changes' = changes + 1

-----------------------------------------------------------------------------
(***************************************************************************)
(* Launch and stop of a server.                                            *)
(***************************************************************************)

(* applyWindowsFirewallForPorts writes the names of its rules whether or   *)
(* not netsh took them; tryUpnpPortForward those the router took.          *)
Launch(p, ruled, mapped) ==
    /\ Change /\ p \notin listed /\ listed' = listed \cup {p}
    /\ IF backend = "netsh"
       THEN /\ allowed' = IF ruled THEN allowed \cup {p} ELSE allowed \ {p}
            /\ ruleFiles' = ruleFiles \cup {p}
            /\ skipped' = (skipped \/ ~ruled)
       ELSE UNCHANGED <<allowed, ruleFiles, skipped>>
    /\ forwards' = IF mapped THEN forwards \cup {p} ELSE forwards
    /\ mapFiles' = IF mapped THEN mapFiles \cup {p} ELSE mapFiles
    /\ UNCHANGED <<backend, table, record>>

(* tearDownNetworkingForInstance: what the files name is taken back, and   *)
(* the files go even when that failed.                                     *)
Stop(p, unruled, unmapped) ==
    /\ Change /\ p \in listed /\ listed' = listed \ {p}
    /\ IF backend = "netsh" /\ p \in ruleFiles
       THEN /\ allowed' = IF unruled THEN allowed \ {p} ELSE allowed
            /\ ruleFiles' = ruleFiles \ {p}
            /\ skipped' = (skipped \/ ~unruled)
       ELSE UNCHANGED <<allowed, ruleFiles, skipped>>
    /\ forwards' = IF p \in mapFiles /\ unmapped THEN forwards \ {p}
                   ELSE forwards
    /\ mapFiles' = mapFiles \ {p}
    /\ UNCHANGED <<backend, table, record>>

(* NewLeaseDuration is over.                                               *)
LeaseEnds(p) ==
    /\ p \in forwards /\ forwards' = forwards \ {p}
    /\ UNCHANGED <<backend, table, listed, allowed, record, ruleFiles,
                   mapFiles, changes, skipped>>

-----------------------------------------------------------------------------
(***************************************************************************)
(* reconcileSecurityState.  A list that cannot be fetched counts as empty. *)
(***************************************************************************)
Want(fetched) == IF fetched THEN listed ELSE {}

(* snapshotMatchesIntent: one rule with a set of ports ("dport {") is      *)
(* taken to hold every port.                                               *)
SnapshotOk(want) ==
    table = "drop" /\ (want \subseteq allowed \/ Cardinality(allowed) > 1)

(* Mutant: only the state file is compared.                                *)
ReconcileNftByHash(fetched, works) ==
    /\ backend = "nft"
    /\ IF record # Want(fetched) /\ table # "none" /\ works
       THEN allowed' = Want(fetched) /\ record' = Want(fetched) /\ table' = "drop"
       ELSE UNCHANGED <<allowed, record, table>>
    /\ UNCHANGED <<backend, listed, routerVars, changes, skipped>>

(* nft -f is one transaction: the table is flushed, added, and filled; to  *)
(* flush one that does not exist makes it fail.                            *)
ReconcileNft(fetched, works) ==
    /\ backend = "nft"
    /\ LET want == Want(fetched)
           drift == ~SnapshotOk(want) \/ record # want
       IN IF drift /\ table # "none" /\ works
          THEN allowed' = want /\ record' = want /\ table' = "drop"
          ELSE UNCHANGED <<allowed, record, table>>
    /\ UNCHANGED <<backend, listed, routerVars, changes, skipped>>

(* reconcileFirewalld: the differences to the state file, which is written *)
(* whether or not firewall-cmd took them.                                  *)
ReconcileFirewalld(fetched, works) ==
    /\ backend = "firewalld"
    /\ LET want == Want(fetched)
           had == IF record = NoRecord THEN {} ELSE record
       IN /\ allowed' = IF works THEN (allowed \ (had \ want))
                                       \cup (want \ had)
                        ELSE allowed
          /\ record' = want
          /\ skipped' = (skipped \/ (~works /\ want # had))
    /\ UNCHANGED <<backend, table, listed, routerVars, changes>>

(* What others do: the administrator creates the table; its rules are      *)
(* flushed, and what no rule accepts is dropped; or a reboot or a flush of *)
(* the whole ruleset takes the table away, and nothing is dropped.         *)
CreateTable ==
    /\ Change /\ backend = "nft" /\ table = "none" /\ table' = "bare"
    /\ UNCHANGED <<backend, listed, allowed, record, routerVars, skipped>>

Flushed ==
    /\ Change /\ backend = "nft" /\ table = "drop" /\ allowed' = {}
    /\ UNCHANGED <<backend, table, listed, record, routerVars, skipped>>

TableGone ==
    /\ Change /\ backend = "nft" /\ table # "none" /\ table' = "none"
    /\ allowed' = Ports
    /\ UNCHANGED <<backend, listed, record, routerVars, skipped>>

FirewallNext ==
    \/ \E p \in Ports : LeaseEnds(p)
    \/ \E p \in Ports, a, b \in BOOLEAN : Launch(p, a, b) \/ Stop(p, a, b)
    \/ \E fetched, works \in BOOLEAN :
          ReconcileNft(fetched, works) \/ ReconcileFirewalld(fetched, works)
    \/ CreateTable \/ Flushed \/ TableGone

(* The loop reconciles every 10 s, and its requests and commands do not    *)
(* fail for ever.                                                          *)
FirewallFairness ==
    /\ WF_firewallVars(ReconcileNft(TRUE, TRUE))
    /\ WF_firewallVars(ReconcileFirewalld(TRUE, TRUE))

FirewallSpec ==
    FirewallInit /\ [][FirewallNext]_firewallVars /\ FirewallFairness

-----------------------------------------------------------------------------
(***************************************************************************)
(* Properties.                                                             *)
(***************************************************************************)

(* Whatever starts, stops or fails, and whoever flushes the rules or       *)
(* deletes and creates the table: the ports let in are again and again     *)
(* those of the running servers - or a command failed that is not tried    *)
(* again, or the machine has nft and, at the time, nobody has created the  *)
(* table for the agent.                                                    *)
Follows == allowed = listed \/ skipped
FirewallFollows == []<>(Follows \/ (backend = "nft" /\ table = "none"))

(* "Reconciliation loop re-applies intent if rules drift"                  *)
(* (SECURITY-NOTES.md:5): the same, whether or not there is a table.  The  *)
(* loop never creates one, so it does not.                                 *)
IntentIsReapplied == []<>Follows
=============================================================================
