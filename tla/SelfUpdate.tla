----------------------------- MODULE SelfUpdate -----------------------------
(***************************************************************************)
(* How an agent started by install-agent.sh replaces itself: the bundle on *)
(* disk, its .bak copy, and the one process that runs.                     *)
(*                                                                         *)
(* Every update asked for (by the dashboard, or by the timer of            *)
(* STEAMLINE_AGENT_AUTO_UPDATE) runs on its own in that process, with      *)
(* awaits at the manifest, the download and each file operation; nothing   *)
(* keeps two of them apart.  The new process checks itself and puts the    *)
(* copy back when it does not reach the server.  A copy that fails, or is  *)
(* cut off, may leave no file where it was to go; a start that fails ends  *)
(* the agent or leaves the new bundle behind, as node reports the failure. *)
(* No supervisor starts an agent that is gone.                             *)
(***************************************************************************)
EXTENDS Naturals

CONSTANTS
    Updates,        \* updates that run concurrently
    MaxVersion,     \* bound: versions published
    MaxDeaths       \* bound: the agent is killed, or its machine stops

ASSUME UpdateAssumption == MaxVersion \in Nat \ {0} /\ MaxDeaths \in Nat

VARIABLES
    published,      \* package.json of the dashboard; the one before is kept
    bundle,         \* version in steamline-agent.cjs, or 0: none that runs
    backup,         \* version in steamline-agent.cjs.bak, or 0
    agent,          \* the process, with what its environment says
    update,         \* update -> how far it is, and the version it wants
    wsEnabled,      \* STEAMLINE_DISABLE_AGENT_WS is not set
    deaths,         \* times the agent was killed
    crossed,        \* history: two updates, or one and a check, overlapped
    left            \* history: version last installed with no restart, or 0

updateVars == <<published, bundle, backup, agent, update, wsEnabled, deaths,
                crossed, left>>

Versions == 1..MaxVersion
NoUpdate == [at |-> "none", want |-> 0]
Process(ver, expect, previous, at) ==
    [ver |-> ver, expect |-> expect, previous |-> previous, at |-> at]
Gone == Process(0, 0, 0, "gone")
Alive == agent # Gone

(* copyFile(from, to): one that fails has not opened the target, or has    *)
(* removed it.                                                             *)
Copied(from, to, ok) == IF ok THEN {from} ELSE {to, 0}

UpdateTypeOK ==
    /\ published \in Versions
    /\ bundle \in {0} \cup Versions /\ backup \in {0} \cup Versions
    /\ agent \in {Gone} \cup
          [ver : Versions, expect : {0} \cup Versions,
           previous : {0} \cup Versions,
           at : {"run", "check", "restore", "respawn"}]
    /\ update \in [Updates -> {NoUpdate} \cup
          [at : {"wanted", "loaded", "saved", "installed"}, want : Versions]]
    /\ wsEnabled \in BOOLEAN /\ deaths \in 0..MaxDeaths
    /\ crossed \in BOOLEAN /\ left \in {0} \cup Versions

UpdateInit ==
    /\ published = 1 /\ bundle = 1 /\ backup = 0
    /\ agent = Process(1, 0, 0, "run")
    /\ update = [u \in Updates |-> NoUpdate]
    /\ wsEnabled \in BOOLEAN /\ deaths = 0 /\ crossed = FALSE
    /\ left = 0

Publish ==
    /\ published < MaxVersion /\ published' = published + 1
    /\ UNCHANGED <<bundle, backup, agent, update, wsEnabled, deaths, crossed,
                   left>>

-----------------------------------------------------------------------------
(***************************************************************************)
(* applyAgentSelfUpdate.                                                   *)
(***************************************************************************)

(* There is a bundle, and the manifest offers something newer than the     *)
(* version that runs.                                                      *)
Begin(u) ==
    /\ Alive /\ bundle # 0
    /\ update[u] = NoUpdate /\ published > agent.ver
    /\ update' = [update EXCEPT ![u] = [at |-> "wanted", want |-> published]]
    /\ crossed' = (crossed \/ agent.at # "run"
                     \/ \E v \in Updates : update[v] # NoUpdate)
    /\ UNCHANGED <<published, bundle, backup, agent, wsEnabled, deaths, left>>

(* The artifact of that version, or of the one before, matches its hash.   *)
Download(u, ok) ==
    /\ update[u].at = "wanted"
    /\ update' = [update EXCEPT ![u] =
          IF ok /\ published - update[u].want < 2 THEN [@ EXCEPT !.at = "loaded"]
          ELSE NoUpdate]
    /\ UNCHANGED <<published, bundle, backup, agent, wsEnabled, deaths,
                   crossed, left>>

(* copyFile(target, bak).                                                  *)
Save(u, ok) ==
    /\ update[u].at = "loaded"
    /\ backup' \in Copied(bundle, backup, ok /\ bundle # 0)
    /\ update' = [update EXCEPT ![u] =
          IF ok /\ bundle # 0 THEN [@ EXCEPT !.at = "saved"] ELSE NoUpdate]
    /\ UNCHANGED <<published, bundle, agent, wsEnabled, deaths, crossed,
                   left>>

(* Mutant: the new bundle is installed before the old one is copied.       *)
InstallFirst(u, ok) ==
    /\ update[u].at = "saved"
    /\ bundle' = update[u].want /\ backup' = update[u].want
    /\ update' = [update EXCEPT ![u].at = "installed"]
    /\ UNCHANGED <<published, agent, wsEnabled, deaths, crossed,
                   left>>

(* rename(tmp, target); when it fails the copy is put back, if that works. *)
Install(u, ok) ==
    /\ update[u].at = "saved"
    /\ IF ok
       THEN /\ bundle' = update[u].want
            /\ update' = [update EXCEPT ![u].at = "installed"]
       ELSE /\ \E back \in BOOLEAN : bundle' \in Copied(backup, bundle, back)
            /\ update' = [update EXCEPT ![u] = NoUpdate]
    /\ UNCHANGED <<published, backup, agent, wsEnabled, deaths, crossed, left>>

(* This process ends with all it was doing, and another may run instead.   *)
Replace(process) ==
    /\ agent' = process /\ update' = [u \in Updates |-> NoUpdate]

(* node runs the bundle, when there is one.                                *)
Started(process) == IF bundle = 0 THEN Gone ELSE process

(* The new process starts, and this one exits.                             *)
Restart(u) ==
    /\ update[u].at = "installed"
    /\ Replace(Started(Process(bundle, update[u].want, agent.ver, "check")))
    /\ UNCHANGED <<published, bundle, backup, wsEnabled, deaths, crossed, left>>

(* spawn returns a child that has no pid: the copy is being put back when  *)
(* the child's "error" event, which nobody listens to, ends this process.  *)
RestartFails(u) ==
    /\ update[u].at = "installed"
    /\ Replace(Gone)
    /\ \E back \in BOOLEAN : bundle' \in Copied(backup, bundle, back)
    /\ UNCHANGED <<published, backup, wsEnabled, deaths, crossed, left>>

(* spawn throws: the update ends in an error event, and the new bundle     *)
(* stays in place of the version that goes on running.                     *)
RestartThrows(u) ==
    /\ update[u].at = "installed"
    /\ update' = [update EXCEPT ![u] = NoUpdate] /\ left' = bundle
    /\ UNCHANGED <<published, bundle, backup, agent, wsEnabled, deaths, crossed>>

-----------------------------------------------------------------------------
(***************************************************************************)
(* runPostUpdateHealthCheck and rollbackAgentBinary.                       *)
(***************************************************************************)

(* The version is the expected one, the server answers, and the WebSocket  *)
(* connects within 30 s.                                                   *)
CheckPasses ==
    /\ agent.at = "check" /\ agent.ver = agent.expect /\ wsEnabled
    /\ agent' = [agent EXCEPT !.at = "run"]
    /\ UNCHANGED <<published, bundle, backup, update, wsEnabled, deaths,
                   crossed, left>>

CheckFails ==
    /\ agent.at = "check" /\ agent' = [agent EXCEPT !.at = "restore"]
    /\ UNCHANGED <<published, bundle, backup, update, wsEnabled, deaths,
                   crossed, left>>

(* copyFile(bak, target); when it fails the process exits all the same.    *)
Restore(ok) ==
    /\ agent.at = "restore"
    /\ bundle' \in Copied(backup, bundle, ok /\ backup # 0)
    /\ IF ok /\ backup # 0
       THEN agent' = [agent EXCEPT !.at = "respawn"] /\ UNCHANGED update
       ELSE Replace(Gone)
    /\ UNCHANGED <<published, backup, wsEnabled, deaths, crossed,
                   left>>

(* Mutant: its environment still says that an update is to be checked.     *)
RespawnUncleared(ok) ==
    /\ agent.at = "respawn"
    /\ Replace(Process(bundle, agent.expect, agent.previous, "check"))
    /\ UNCHANGED <<published, bundle, backup, wsEnabled, deaths, crossed,
                   left>>

(* The old version is started with the update cleared from its             *)
(* environment; whether it starts is not looked at.                        *)
Respawn(ok) ==
    /\ agent.at = "respawn"
    /\ Replace(IF ok THEN Started(Process(bundle, 0, 0, "run")) ELSE Gone)
    /\ UNCHANGED <<published, bundle, backup, wsEnabled, deaths, crossed,
                   left>>

-----------------------------------------------------------------------------
(* A copy that is under way is cut off.                                    *)
Die ==
    /\ Alive /\ deaths < MaxDeaths /\ deaths' = deaths + 1
    /\ Replace(Gone)
    /\ bundle' \in {bundle} \cup IF agent.at = "restore" THEN {0} ELSE {}
    /\ backup' \in {backup} \cup
          IF \E u \in Updates : update[u].at = "loaded" THEN {0} ELSE {}
    /\ UNCHANGED <<published, wsEnabled, crossed, left>>

(* The user runs the agent again, installed anew if its bundle is lost.    *)
StartByHand ==
    /\ ~Alive /\ bundle' = (IF bundle = 0 THEN published ELSE bundle)
    /\ agent' = Process(bundle', 0, 0, "run")
    /\ UNCHANGED <<published, backup, update, wsEnabled, deaths, crossed, left>>

UpdateStep(u) ==
    \/ \E ok \in BOOLEAN : Download(u, ok) \/ Save(u, ok) \/ Install(u, ok)
    \/ Restart(u) \/ RestartFails(u) \/ RestartThrows(u)

RollbackStep == \E ok \in BOOLEAN : Restore(ok) \/ Respawn(ok)

UpdateNext ==
    \/ Publish \/ CheckPasses \/ CheckFails \/ Die \/ StartByHand
    \/ \E u \in Updates : Begin(u) \/ UpdateStep(u)
    \/ RollbackStep

(* The awaits of a process that lives return, and its check has a deadline. *)
UpdateFairness ==
    /\ \A u \in Updates : WF_updateVars(UpdateStep(u))
    /\ WF_updateVars(CheckPasses \/ CheckFails)
    /\ WF_updateVars(RollbackStep)

UpdateSpec == UpdateInit /\ [][UpdateNext]_updateVars /\ UpdateFairness

-----------------------------------------------------------------------------
(***************************************************************************)
(* Properties.                                                             *)
(***************************************************************************)

(* What a rollback puts back is the version the update found running, as   *)
(* its report says, or one that an earlier update left in its place when   *)
(* its restart threw - through failed copies, starts that fail, deaths,    *)
(* restarts by hand and later updates, unless updates overlapped.          *)
RollbackRestores ==
    agent.at \in {"check", "restore"} /\ ~crossed
        => backup # 0 /\ backup \in {agent.previous, left}

(* An update that was begun comes to an end, and the check of the new      *)
(* process leads to an agent that runs, or has gone: a rollback is never   *)
(* itself rolled back, unless yet another update is asked for during it.   *)
UpdatesSettle ==
    /\ agent.at = "check"
          ~> agent.at \in {"run", "gone"} \/ \E u \in Updates : update[u] # NoUpdate
    /\ \A u \in Updates : update[u] # NoUpdate ~> update[u] = NoUpdate
=============================================================================
