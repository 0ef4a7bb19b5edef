------------------------------ MODULE SteamSetup ------------------------------
(***************************************************************************)
(* SteamCMD on a host: one extracted tree, shared by every installation    *)
(* and named by a marker file, and the installation that uses it, with its *)
(* remedy for a missing loader and its one retry.                          *)
(*                                                                         *)
(* Two processes use the tree: the agent, which provisions one server      *)
(* after the other, and the command steam-login of an operator.  A process *)
(* may die at any point.                                                   *)
(***************************************************************************)
EXTENDS Naturals, FiniteSets

CONSTANTS
    MaxProvisions,  \* bound: installations that the agent starts
    MaxLogins,      \* bound: calls of steam-login
    MaxSteamFaults  \* bound: processes that die, and calls that fail

ASSUME SteamSetupAssumption ==
    MaxProvisions \in Nat /\ MaxLogins \in Nat /\ MaxSteamFaults \in Nat

VARIABLES
    marker,     \* .ready names the extracted tree
    tree,       \* extract/: "none", "partial", "whole"
    archive,    \* the downloaded archive: "none", "partial", "whole"
    loader,     \* the 32-bit loader is installed
    at,         \* process -> the step it is at
    touched,    \* processes whose tar reads an archive that was rewritten
    spoiled,    \* processes that unpack where another one broke off
    creds,      \* the agent has an account of Steam in its environment
    runs,       \* SteamCMD runs of this installation
    retried,    \* steamCmdRetried
    healed,     \* lastApplied: the remedy is in its cooldown
    outcome,    \* status that the installation reported
    alone,      \* history: no two processes set SteamCMD up at a time
    started,    \* process -> calls so far
    steamFaults

cache == <<marker, tree, archive, loader>>
unpacking == <<touched, spoiled>>
install == <<creds, runs, retried, healed, outcome>>
steamVars == <<cache, at, unpacking, install, alone, started, steamFaults>>

Procs == {"agent", "login"}
Other(p) == CHOOSE q \in Procs : q # p
Setting == {"check", "fetch", "write", "tar", "unpack", "mark", "loader"}

SteamTypeOK ==
    /\ marker \in BOOLEAN /\ loader \in BOOLEAN
    /\ {tree, archive} \subseteq {"none", "partial", "whole"}
    /\ at \in [Procs -> Setting \cup {"idle", "plan", "steam", "exited"}]
    /\ touched \subseteq Procs /\ spoiled \subseteq Procs
    /\ {creds, retried, healed, alone} \subseteq BOOLEAN
    /\ runs \in 0..2 /\ outcome \in {"none", "installing", "running", "failed"}
    /\ started["agent"] \in 0..MaxProvisions
    /\ started["login"] \in 0..MaxLogins /\ steamFaults \in 0..MaxSteamFaults

SteamInit ==
    /\ marker = FALSE /\ tree = "none" /\ archive = "none"
    /\ loader \in BOOLEAN
    /\ at = [p \in Procs |-> "idle"] /\ touched = {} /\ spoiled = {}
    /\ creds \in BOOLEAN /\ runs = 0 /\ retried = FALSE /\ healed = FALSE
    /\ outcome = "none" /\ alone = TRUE
    /\ started = [p \in Procs |-> 0] /\ steamFaults = 0

SteamFault == steamFaults < MaxSteamFaults /\ steamFaults' = steamFaults + 1
Goes(p, step) == at' = [at EXCEPT ![p] = step]

(* ensureSteamCmd throws: the agent reports a failed installation.         *)
Throws(p) ==
    /\ Goes(p, "idle")
    /\ outcome' = IF p = "agent" THEN "failed" ELSE outcome

-----------------------------------------------------------------------------
(***************************************************************************)
(* ensureSteamCmd.                                                         *)
(***************************************************************************)

(* The packages of the system first: as root, and if they can be had.      *)
Ensure(p) ==
    /\ at[p] = "idle"
    /\ started[p] < (IF p = "agent" THEN MaxProvisions ELSE MaxLogins)
    /\ started' = [started EXCEPT ![p] = @ + 1] /\ Goes(p, "check")
    /\ alone' = (alone /\ at[Other(p)] \notin Setting)
    /\ loader' \in {loader, TRUE}
    /\ IF p = "agent"
       THEN runs' = 0 /\ retried' = FALSE /\ outcome' = "installing"
       ELSE UNCHANGED <<runs, retried, outcome>>
    /\ UNCHANGED <<marker, tree, archive, unpacking, creds, healed,
                   steamFaults>>

(* A tree with a file of SteamCMD in it will do; in part of a tree it may  *)
(* be missing.                                                             *)
Resolves == tree # "none"
MayNotResolve == tree # "whole"

CheckMarker(p) ==
    /\ at[p] = "check"
    /\ IF marker /\ tree # "none"
       THEN \/ Resolves /\ Goes(p, "loader") /\ UNCHANGED outcome
            \/ MayNotResolve /\ Throws(p)
       ELSE Goes(p, "fetch") /\ UNCHANGED outcome
    /\ UNCHANGED <<cache, unpacking, creds, runs, retried, healed, alone,
                   started, steamFaults>>

(* The answer is here; the file is opened and emptied.                     *)
OpenArchive(p) ==
    /\ at[p] = "fetch" /\ Goes(p, "write") /\ archive' = "partial"
    /\ touched' = touched \cup {q \in Procs : at[q] = "unpack"}
    /\ UNCHANGED <<marker, tree, loader, spoiled, install, alone, started,
                   steamFaults>>

WriteArchive(p) ==
    /\ at[p] = "write" /\ Goes(p, "tar")
    /\ archive' = IF at[Other(p)] = "write" THEN "partial" ELSE "whole"
    /\ UNCHANGED <<marker, tree, loader, unpacking, install, alone, started,
                   steamFaults>>

(* Mutant: the marker is written before the archive is unpacked.           *)
ExtractStartsMarked(p) ==
    /\ at[p] = "tar" /\ Goes(p, "unpack") /\ tree' = "partial"
    /\ marker' = TRUE
    /\ touched' = IF archive = "whole" THEN touched \ {p}
                  ELSE touched \cup {p}
    /\ spoiled' = spoiled \ {p}
    /\ UNCHANGED <<archive, loader, install, alone, started, steamFaults>>

ExtractStarts(p) ==
    /\ at[p] = "tar" /\ Goes(p, "unpack") /\ tree' = "partial"
    /\ touched' = IF archive = "whole" THEN touched \ {p}
                  ELSE touched \cup {p}
    /\ spoiled' = spoiled \ {p}
    /\ UNCHANGED <<marker, archive, loader, install, alone, started,
                   steamFaults>>

(* tar read all of the archive: the tree is whole, unless another tar is   *)
(* still at work in it or broke off in a file that was there.              *)
ExtractEnds(p) ==
    /\ at[p] = "unpack" /\ Goes(p, "mark")
    /\ tree' \in IF at[Other(p)] = "unpack" THEN {"partial"}
                 ELSE IF p \in spoiled THEN {"partial", "whole"}
                 ELSE {"whole"}
    /\ UNCHANGED <<marker, archive, loader, unpacking, install, alone,
                   started, steamFaults>>

ExtractFails(p) ==
    /\ at[p] = "unpack" /\ p \in touched /\ Throws(p)
    /\ spoiled' = spoiled \cup {q \in Procs \ {p} : at[q] = "unpack"}
    /\ UNCHANGED <<cache, touched, creds, runs, retried, healed, alone,
                   started, steamFaults>>

Mark(p) ==
    /\ at[p] = "mark"
    /\ \/ Resolves /\ marker' = TRUE /\ Goes(p, "loader") /\ UNCHANGED outcome
       \/ MayNotResolve /\ Throws(p) /\ UNCHANGED marker
    /\ UNCHANGED <<tree, archive, loader, unpacking, creds, runs, retried,
                   healed, alone, started, steamFaults>>

(* ensureLinuxSteamCmdLoader: installs a missing loader or throws; without *)
(* readelf it cannot tell that one is missing.                             *)
EnsureLoader(p) ==
    /\ at[p] = "loader"
    /\ \/ /\ loader' \in {loader, TRUE} /\ UNCHANGED outcome
          /\ Goes(p, IF p = "agent" THEN "plan" ELSE "steam")
       \/ ~loader /\ UNCHANGED loader /\ Throws(p)
    /\ UNCHANGED <<marker, tree, archive, unpacking, creds, runs, retried,
                   healed, alone, started, steamFaults>>

-----------------------------------------------------------------------------
(***************************************************************************)
(* provisionInstance, and steam-login, which runs SteamCMD once.           *)
(***************************************************************************)

(* resolveSteamCmdLoginPlan: the account of the host, or an anonymous      *)
(* login for a game that does not ask for one.                             *)
Plan(licensed) ==
    /\ at["agent"] = "plan"
    /\ IF creds \/ ~licensed
       THEN /\ Goes("agent", "steam") /\ runs' = runs + 1
            /\ UNCHANGED outcome
       ELSE Throws("agent") /\ UNCHANGED runs
    /\ UNCHANGED <<cache, unpacking, creds, retried, healed, alone, started,
                   steamFaults>>

(* Exit 0, and the server is launched or not; or another exit code, which  *)
(* a missing loader makes certain.                                         *)
SteamExits ==
    /\ at["agent"] = "steam"
    /\ \/ /\ loader /\ outcome' = "running" /\ Goes("agent", "idle")
       \/ Goes("agent", "exited") /\ UNCHANGED outcome
    /\ UNCHANGED <<cache, unpacking, creds, runs, retried, healed, alone,
                   started, steamFaults>>

LoginEnds ==
    /\ at["login"] = "steam" /\ Goes("login", "idle")
    /\ UNCHANGED <<cache, unpacking, install, alone, started, steamFaults>>

(* Mutant: nothing counts the retries but the cooldown of the remedy.      *)
MayRetryAgain == TRUE

(* applyLogSelfHealFromLines: the remedy for a missing loader, once in a   *)
(* cooldown that starts before it is tried; and the retry it allows.       *)
MayRetry == ~retried

Heal(detected) ==
    /\ at["agent"] = "exited"
    /\ healed' = (healed \/ detected)
    /\ loader' \in IF detected /\ ~healed THEN {loader, TRUE} ELSE {loader}
    /\ IF detected /\ ~healed /\ loader' /\ MayRetry
       THEN /\ retried' = TRUE /\ runs' = runs + 1
            /\ Goes("agent", "steam") /\ UNCHANGED outcome
       ELSE Throws("agent") /\ UNCHANGED <<retried, runs>>
    /\ UNCHANGED <<marker, tree, archive, unpacking, creds, alone, started,
                   steamFaults>>

CooldownPasses ==
    /\ healed /\ healed' = FALSE
    /\ UNCHANGED <<cache, at, unpacking, creds, runs, retried, outcome, alone,
                   started, steamFaults>>

(* persistSteamCredentialsFromDelivery: the file and this process have the *)
(* account at once.                                                        *)
CredentialsArrive ==
    /\ ~creds /\ creds' = TRUE
    /\ UNCHANGED <<cache, at, unpacking, runs, retried, healed, outcome,
                   alone, started, steamFaults>>

-----------------------------------------------------------------------------
(* A download, a package or a disk fails.                                  *)
CallFails(p) ==
    /\ at[p] \in {"fetch", "write", "unpack"} /\ SteamFault /\ Throws(p)
    /\ spoiled' = IF at[p] = "unpack"
                  THEN spoiled \cup {q \in Procs \ {p} : at[q] = "unpack"}
                  ELSE spoiled
    /\ UNCHANGED <<cache, touched, creds, runs, retried, healed, alone,
                   started>>

(* The process dies: a file in the middle stays as it is.  An agent that   *)
(* was not started by systemd comes back without the account.              *)
Dies(p) ==
    /\ at[p] # "idle" /\ SteamFault /\ Goes(p, "idle")
    /\ spoiled' = IF at[p] = "unpack"
                  THEN spoiled \cup {q \in Procs \ {p} : at[q] = "unpack"}
                  ELSE spoiled
    /\ IF p = "agent" THEN creds' \in {creds, FALSE} /\ healed' = FALSE
       ELSE UNCHANGED <<creds, healed>>
    /\ UNCHANGED <<cache, touched, runs, retried, outcome, alone, started>>

SteamNext ==
    \/ \E p \in Procs :
          \/ Ensure(p) \/ CheckMarker(p) \/ OpenArchive(p) \/ WriteArchive(p)
          \/ ExtractStarts(p) \/ ExtractEnds(p) \/ ExtractFails(p) \/ Mark(p)
          \/ EnsureLoader(p) \/ CallFails(p) \/ Dies(p)
    \/ \E b \in BOOLEAN : Plan(b) \/ Heal(b)
    \/ SteamExits \/ LoginEnds \/ CooldownPasses \/ CredentialsArrive

SteamSpec == SteamInit /\ [][SteamNext]_steamVars

-----------------------------------------------------------------------------
(***************************************************************************)
(* The marker names a complete tree, whichever step a process died at or   *)
(* failed in, as long as no two processes set SteamCMD up at the same      *)
(* time.  (steam-login beside a provisioning agent may break it: one tar   *)
(* ends and marks the tree in which the other one broke off.)              *)
(***************************************************************************)
MarkerIsTrue == alone /\ marker => tree = "whole"
=============================================================================
