----------------------------- MODULE HostAgent -----------------------------
(***************************************************************************)
(* The host agent at work against the control plane: the main loop, the    *)
(* chain of control jobs the WebSocket feeds, the game servers' files,     *)
(* processes and pid files, and the requests that carry the agent's        *)
(* reports to the handlers of ControlPlane.                                *)
(*                                                                         *)
(* The agent is one node process.  Its two threads, the main loop and the  *)
(* control chain, interleave where they await: at a request, a log post,   *)
(* the tear-down of a port mapping, SteamCMD.  Between two awaits a thread *)
(* is one action.  A thread with a REST request in service waits for it    *)
(* (At); a report over the WebSocket is sent and forgotten.                *)
(***************************************************************************)
EXTENDS ControlPlane, Naturals, Sequences

CONSTANTS
    Main, Ctl,    \* the agent's threads: members of AgentSlots
    UseWs,        \* the agent keeps a WebSocket (STEAMLINE_DISABLE_AGENT_WS unset)
    Faults,       \* what may go wrong: a subset of {"http", "crash"}
    MaxFailures,  \* MAX_FAILURES, restarts the watchdog tries
    MaxPerKind,   \* maxPerKind, stops (starts) per visit of the power phase
    MaxJobs,      \* bound: control jobs waiting
    MaxSent,      \* bound: status reports on the WebSocket
    MaxLosses     \* bound: crashes, reboots, lost connections, failed requests

Threads == IF UseWs THEN {Main, Ctl} ELSE {Main}
Spare == AgentSlots \ {Main, Ctl}

ASSUME ThreadsAreSlots == Threads \subseteq AgentSlots
ASSUME LimitsAreNumbers ==
    {MaxFailures, MaxPerKind, MaxJobs, MaxSent, MaxLosses} \subseteq Nat

VARIABLES
    files,        \* instances whose install directory is on disk
    pidf,         \* instance -> its pid file: absent, of a process that is live, or
                  \* live though told to end, or dead
    stray,        \* instances with a live process no pid file knows of
    lingering,    \* ... with one that was told to end and lives on
    failures,     \* instance -> failed restarts on file (.steamline-watchdog.json)
    cooling,      \* instances whose backoff since the last failure is not over
    ws,           \* the WebSocket is connected
    sent,         \* status reports sent over it and not yet handled
    jobs,         \* control jobs sent to the agent and not yet started
    th,           \* thread -> where it is
    losses        \* what has gone wrong so far, counted

disk == <<files, pidf, stray, lingering, failures, cooling>>
link == <<ws, sent, jobs>>
agentVars == <<disk, link, th, losses>>
allVars == <<vars, agentVars>>

All == "all"
NoInst == "none"
Do(ph, only) == [ph |-> ph, only |-> only]
Phases == [ph : {"delete", "remove", "power", "stops", "starts", "watch",
                 "provision", "queue", "queueMore", "deploy", "install"},
           only : Instances \cup {All}]

(* One round of runLoop, and the jobs onControl enqueues.                  *)
MainCycle == <<Do("delete", All), Do("remove", All), Do("power", All),
               Do("watch", All), Do("provision", All)>>
SyncJob == <<Do("delete", All), Do("power", All), Do("provision", All)>>
DeleteJob(i) == <<Do("delete", i)>>
DeployJob(i) == <<Do("deploy", i)>>
StopJob(i) == <<Do("stops", i), Do("starts", All)>>
StartJob(i) == <<Do("stops", All), Do("starts", i)>>

Between(todo) == [pc |-> "next", inst |-> NoInst, todo |-> todo, n |-> 0,
                  snap |-> {}, tries |-> 0]

AgentTypeOK ==
    /\ TypeOK
    /\ files \subseteq Instances /\ stray \subseteq Instances
    /\ cooling \subseteq Instances
    /\ lingering \subseteq Instances
    /\ pidf \in [Instances -> {"none", "live", "told", "dead"}]
    /\ failures \in [Instances -> 0 .. MaxFailures]
    /\ ws \in BOOLEAN /\ losses \in 0 .. MaxLosses
    /\ sent \subseteq [inst : Instances, to : Reportable]
    /\ \A k \in DOMAIN jobs : \A p \in DOMAIN jobs[k] : jobs[k][p] \in Phases
    /\ \A t \in Threads :
          /\ th[t].inst \in Instances \cup {NoInst}
          /\ \A p \in DOMAIN th[t].todo : th[t].todo[p] \in Phases
          /\ th[t].snap \subseteq Instances \X {"running", "recovering"}

AgentInit ==
    /\ Init
    /\ files = {} /\ stray = {} /\ lingering = {} /\ cooling = {}
    /\ pidf = [i \in Instances |-> "none"]
    /\ failures = [i \in Instances |-> 0]
    /\ ws = FALSE /\ sent = {} /\ jobs = <<>>
    /\ th = [t \in Threads |-> Between(<<>>)]
    /\ losses = 0

-----------------------------------------------------------------------------
(***************************************************************************)
(* Threads.  todo holds the phases still to run, its head the current one. *)
(***************************************************************************)

(* process.exit(0) after the host's removal ends both threads.             *)
Exited == th[Main].pc = "exit" /\ call[Main] = Idle

At(t, pc) == ~Exited /\ th[t].pc = pc /\ call[t] = Idle
In(t, ph) == At(t, "next") /\ th[t].todo # <<>> /\ Head(th[t].todo).ph = ph
Current(t) == Head(th[t].todo)
Inst(t) == th[t].inst

Goto(t, pc) == th' = [th EXCEPT ![t].pc = pc]
Take(t, pc, i) == th' = [th EXCEPT ![t] = [@ EXCEPT !.pc = pc, !.inst = i]]
Watch(t, pc, i, n, seen) ==
    th' = [th EXCEPT ![t] = [@ EXCEPT !.pc = pc, !.inst = i, !.tries = n, !.snap = seen]]
EndPhase(t) == th' = [th EXCEPT ![t] = Between(Tail(th[t].todo))]
Replace(t, phases) == th' = [th EXCEPT ![t] = Between(phases \o Tail(th[t].todo))]

(* A for loop of the power phase goes on, counting; a named instance and   *)
(* an installation are done once.                                          *)
AfterItem(t) ==
    IF Current(t).ph \in {"stops", "starts"} /\ Current(t).only = All
       THEN th' = [th EXCEPT ![t] = [Between(th[t].todo) EXCEPT !.n = th[t].n + 1]]
       ELSE EndPhase(t)

(* provisionInstance threw: a queue run ends with it.                      *)
AbortInstall(t) ==
    LET rest == Tail(th[t].todo) IN
    th' = [th EXCEPT ![t] = Between(
             IF rest # <<>> /\ Head(rest).ph = "queueMore" THEN Tail(rest) ELSE rest)]

(* A request is answered with an error, or the handler's answer is lost    *)
(* and the caller catches that.  Where nobody does (a rejected fetch of    *)
(* the main loop's own lists) the agent dies of it: see Crash.             *)
Loses == losses < MaxLosses /\ losses' = losses + 1
HttpFails == "http" \in Faults /\ Loses
NoLoss == UNCHANGED losses

(* fetchInstanceList, filtered; it is empty too when the request fails.    *)
Listed(t, status) ==
    {i \in onHost : row[i] = status /\ Current(t).only \in {All, i}}

(* fetchHostSelf says the host is not pending_removal, or says nothing.    *)
HostStays == (host # "pending_removal" /\ NoLoss) \/ HttpFails
HostGoes == host = "pending_removal" /\ NoLoss

(* postLogLines throws when REST cannot find the row.                      *)
LogOk(i) == (ws \/ i \in onHost) /\ NoLoss
LogFails(i) == ~ws /\ ((i \notin onHost /\ NoLoss) \/ HttpFails)

(* postInstanceStatus: over the WebSocket it always succeeds; over REST    *)
(* the handler accepts the transition, or the call throws, which with      *)
(* "http" it may do although the handler accepted.                         *)
Posts(t, next) ==
    /\ \/ /\ ws /\ Cardinality(sent) < MaxSent
          /\ sent' = sent \cup {[inst |-> Inst(t), to |-> next]}
          /\ UNCHANGED <<vars, ws, jobs>>
       \/ /\ ~ws
          /\ Report(t, Inst(t), next)
          /\ UNCHANGED link
    /\ NoLoss
PostThrows(t, next) ==
    /\ ~ws
    /\ \/ ~(host # "gone" /\ Accepts(Inst(t), next)) /\ UNCHANGED vars /\ NoLoss
       \/ HttpFails /\ (UNCHANGED vars \/ Report(t, Inst(t), next))
    /\ UNCHANGED link

-----------------------------------------------------------------------------
(***************************************************************************)
(* processDeletionQueue and cleanupPendingDelete.                          *)
(***************************************************************************)

(* killPidFileIfAny: SIGTERM for the one process the pid file names, as a  *)
(* rule the shell the game was spawned in.  Nobody waits for it: it ends   *)
(* at once, later or never, and the game may go on without its shell.      *)
Signal(i) ==
    IF pidf[i] \notin {"live", "told"} THEN UNCHANGED <<pidf, lingering>>
    ELSE \/ pidf' = [pidf EXCEPT ![i] = "told"] /\ UNCHANGED lingering
         \/ /\ pidf' = [pidf EXCEPT ![i] = "dead"]
            /\ lingering' \in {lingering, lingering \cup {i}}

(* The pid file names another process, or none, and what it named lives on. *)
Names(i, process) ==
    /\ pidf' = [pidf EXCEPT ![i] = process]
    /\ stray' = IF pidf[i] = "live" THEN stray \cup {i} ELSE stray
    /\ lingering' = IF pidf[i] = "told" THEN lingering \cup {i} ELSE lingering

(* Mutants: the purge is reported before the files are removed; what is    *)
(* left of a failed installation is cleaned up too.                        *)
FetchDeleteUncleaned(t) ==
    /\ In(t, "delete")
    /\ \/ \E i \in Listed(t, "pending_delete") : Take(t, "purge", i) /\ NoLoss
       \/ Listed(t, "pending_delete") = {} /\ EndPhase(t) /\ NoLoss
       \/ HttpFails /\ EndPhase(t)
    /\ UNCHANGED <<vars, disk, link>>
FetchDeleteOrFailed(t) ==
    /\ In(t, "delete")
    /\ LET found == Listed(t, "pending_delete") \cup Listed(t, "failed") IN
          \/ \E i \in found : Take(t, "kill", i) /\ NoLoss
          \/ found = {} /\ EndPhase(t) /\ NoLoss
          \/ HttpFails /\ EndPhase(t)
    /\ UNCHANGED <<vars, disk, link>>

FetchDelete(t) ==
    /\ In(t, "delete")
    /\ \/ \E i \in Listed(t, "pending_delete") : Take(t, "kill", i) /\ NoLoss
       \/ Listed(t, "pending_delete") = {} /\ EndPhase(t) /\ NoLoss
       \/ HttpFails /\ EndPhase(t)
    /\ UNCHANGED <<vars, disk, link>>

Kill(t) ==
    /\ At(t, "kill")
    /\ Signal(Inst(t))
    /\ Goto(t, "rm")
    /\ UNCHANGED <<vars, files, stray, failures, cooling, link, losses>>

(* After the await of the tear-down: rmSync takes the pid file with it.    *)
RemoveFiles(t) ==
    /\ At(t, "rm")
    /\ LET i == Inst(t) IN
          /\ files' = files \ {i}
          /\ Names(i, "none")
          /\ failures' = [failures EXCEPT ![i] = 0]
          /\ cooling' = cooling \ {i}
    /\ Goto(t, "purge")
    /\ UNCHANGED <<vars, link, losses>>

(* Any answer but an error ends the instance; the loop then lists again.   *)
ReportPurge(t) ==
    /\ At(t, "purge")
    /\ \/ /\ \/ PurgeComplete(t, Inst(t))
             \/ /\ host # "gone"
                /\ ~(Inst(t) \in onHost /\ row[Inst(t)] = "pending_delete")
                /\ UNCHANGED vars
          /\ IF Current(t).only = All THEN th' = [th EXCEPT ![t] = Between(@.todo)]
                                      ELSE EndPhase(t)
          /\ NoLoss
       \/ /\ \/ host = "gone" /\ UNCHANGED vars /\ NoLoss
             \/ HttpFails /\ (UNCHANGED vars \/ PurgeComplete(t, Inst(t)))
          /\ EndPhase(t)
    /\ UNCHANGED <<disk, link>>

Deletes(t) == FetchDelete(t) \/ Kill(t) \/ RemoveFiles(t) \/ ReportPurge(t)

-----------------------------------------------------------------------------
(***************************************************************************)
(* maybeRemoveHost and runHostUninstall.                                   *)
(***************************************************************************)

(* Mutant: the list alone decides, not the host's status.                  *)
CheckRemovalByList(t) ==
    /\ In(t, "remove")
    /\ NoLoss /\ Goto(t, "count")
    /\ UNCHANGED <<vars, disk, link>>

CheckRemoval(t) ==
    /\ In(t, "remove")
    /\ \/ HostGoes /\ Goto(t, "count")
       \/ HostStays /\ EndPhase(t)
    /\ UNCHANGED <<vars, disk, link>>

CountInstances(t) ==
    /\ At(t, "count")
    /\ \/ ((onHost = {} /\ NoLoss) \/ HttpFails) /\ Goto(t, "wipe")
       \/ onHost # {} /\ EndPhase(t) /\ NoLoss
    /\ UNCHANGED <<vars, disk, link>>

(* rmSync of the data root: files, pid files and watchdog states.          *)
WipeDataRoot(t) ==
    /\ At(t, "wipe")
    /\ files' = {}
    /\ stray' = stray \cup {i \in Instances : pidf[i] = "live"}
    /\ lingering' = lingering \cup {i \in Instances : pidf[i] = "told"}
    /\ pidf' = [i \in Instances |-> "none"]
    /\ failures' = [i \in Instances |-> 0]
    /\ cooling' = {}
    /\ Goto(t, "unregister")
    /\ UNCHANGED <<vars, link, losses>>

Unregister(t) ==
    /\ At(t, "unregister")
    /\ \/ RemovalComplete(t) /\ Goto(t, "exit") /\ NoLoss
       \/ /\ \/ ~(host = "pending_removal" /\ onHost = {}) /\ UNCHANGED vars /\ NoLoss
             \/ HttpFails /\ (UNCHANGED vars \/ RemovalComplete(t))
          /\ EndPhase(t)
    /\ UNCHANGED <<disk, link>>

RemovesHost(t) ==
    CheckRemoval(t) \/ CountInstances(t) \/ WipeDataRoot(t) \/ Unregister(t)

-----------------------------------------------------------------------------
(***************************************************************************)
(* runDedicatedLaunchPhase, of a start, an installation or a restart.  The *)
(* log posts around the spawn throw when the row is gone.                  *)
(***************************************************************************)

(* The catch of the three callers.                                         *)
LaunchThrows(t) ==
    CASE Current(t).ph = "starts"  -> Goto(t, "reportFailed") /\ UNCHANGED disk
      [] Current(t).ph = "install" ->
            /\ IF ws \/ Inst(t) \in onHost THEN Goto(t, "reportFailed") ELSE AbortInstall(t)
            /\ UNCHANGED disk
      [] Current(t).ph = "watch"   ->
            /\ failures' = [failures EXCEPT ![Inst(t)] = th[t].tries + 1]
            /\ cooling' = cooling \cup {Inst(t)}
            /\ Goto(t, "reportRecovering")
            /\ UNCHANGED <<files, pidf, stray, lingering>>

Prepare(t) ==
    /\ At(t, "launch")
    /\ \/ LogOk(Inst(t)) /\ Goto(t, "spawn") /\ UNCHANGED disk
       \/ LogFails(Inst(t)) /\ LaunchThrows(t)
    /\ UNCHANGED <<vars, link>>

(* spawn, and writeSteamlinePid over whatever pid file there was; or no    *)
(* start plan, or a spawn that throws.                                     *)
Spawn(t) ==
    /\ At(t, "spawn")
    /\ LET i == Inst(t) IN
          \/ /\ i \in files
             /\ Names(i, "live")
             /\ Goto(t, "spawned")
             /\ UNCHANGED <<files, failures, cooling>>
          \/ Goto(t, "unstarted") /\ UNCHANGED disk
    /\ UNCHANGED <<vars, link, losses>>

Spawned(t) ==
    /\ At(t, "spawned")
    /\ \/ /\ LogOk(Inst(t))
          /\ failures' = [failures EXCEPT ![Inst(t)] = 0]
          /\ cooling' = cooling \ {Inst(t)}
          /\ Goto(t, "started")
          /\ UNCHANGED <<files, pidf, stray, lingering>>
       \/ LogFails(Inst(t)) /\ LaunchThrows(t)
    /\ UNCHANGED <<vars, link>>

(* A start or an installation is "running" without a process too.          *)
ReportRunning(t) ==
    /\ \/ At(t, "started")
       \/ At(t, "unstarted") /\ Current(t).ph # "watch"
    /\ \/ /\ Posts(t, "running")
          /\ AfterItem(t)
          /\ UNCHANGED disk
       \/ PostThrows(t, "running") /\ LaunchThrows(t)

(* The last word of a start, an installation or a given-up restart.        *)
ReportFailed(t) ==
    /\ At(t, "reportFailed")
    /\ \/ /\ Posts(t, "failed")
          /\ IF Current(t).ph = "watch"
                THEN /\ failures' = [failures EXCEPT ![Inst(t)] = 0]
                     /\ cooling' = cooling \ {Inst(t)}
                     /\ UNCHANGED <<files, pidf, stray, lingering>>
                ELSE UNCHANGED disk
          /\ AfterItem(t)
       \/ /\ PostThrows(t, "failed")
          /\ IF Current(t).ph = "install" THEN AbortInstall(t) ELSE AfterItem(t)
          /\ UNCHANGED disk

Launches(t) ==
    Prepare(t) \/ Spawn(t) \/ Spawned(t) \/ ReportRunning(t) \/ ReportFailed(t)

-----------------------------------------------------------------------------
(***************************************************************************)
(* processPowerLifecycle: stops, then starts.                              *)
(***************************************************************************)
CheckPower(t) ==
    /\ In(t, "power")
    /\ \/ HostGoes /\ EndPhase(t)
       \/ HostStays /\ Replace(t, <<Do("stops", All), Do("starts", All)>>)
    /\ UNCHANGED <<vars, disk, link>>

FetchPower(t, ph, status) ==
    /\ In(t, ph)
    /\ \/ /\ th[t].n < MaxPerKind
          /\ \E i \in Listed(t, status) : Take(t, status, i)
          /\ NoLoss
       \/ (Listed(t, status) = {} \/ th[t].n = MaxPerKind) /\ EndPhase(t) /\ NoLoss
       \/ HttpFails /\ EndPhase(t)
    /\ UNCHANGED <<vars, disk, link>>

(* Mutant: the process is not killed, its pid file forgotten all the same. *)
StopGameKeepsProcess(t) ==
    /\ At(t, "stopping")
    /\ \/ LogOk(Inst(t)) /\ Goto(t, "forget")
       \/ LogFails(Inst(t)) /\ EndPhase(t)
    /\ UNCHANGED <<vars, disk, link>>

StopGame(t) ==
    /\ At(t, "stopping")
    /\ \/ LogOk(Inst(t)) /\ Signal(Inst(t)) /\ Goto(t, "forget")
       \/ LogFails(Inst(t)) /\ EndPhase(t) /\ UNCHANGED <<pidf, lingering>>
    /\ UNCHANGED <<vars, files, stray, failures, cooling, link>>

(* removeInstancePidFile and resetWatchdogState, after the tear-down.      *)
ForgetGame(t) ==
    /\ At(t, "forget")
    /\ LET i == Inst(t) IN
          /\ Names(i, "none")
          /\ failures' = [failures EXCEPT ![i] = 0]
          /\ cooling' = cooling \ {i}
    /\ Goto(t, "reportStopped")
    /\ UNCHANGED <<vars, files, link, losses>>

ReportStopped(t) ==
    /\ At(t, "reportStopped")
    /\ \/ Posts(t, "stopped") /\ AfterItem(t)
       \/ PostThrows(t, "stopped") /\ EndPhase(t)
    /\ UNCHANGED disk

(* Mutant: a server without an install directory is passed over.           *)
StartGameIfInstalled(t) ==
    /\ At(t, "starting")
    /\ IF Inst(t) \in files THEN Goto(t, "launch") ELSE AfterItem(t)
    /\ UNCHANGED <<vars, disk, link, losses>>

StartGame(t) ==
    /\ At(t, "starting")
    /\ Goto(t, IF Inst(t) \in files THEN "launch" ELSE "reportFailed")
    /\ UNCHANGED <<vars, disk, link, losses>>

Powers(t) ==
    \/ CheckPower(t)
    \/ FetchPower(t, "stops", "stopping") \/ StopGame(t) \/ ForgetGame(t) \/ ReportStopped(t)
    \/ FetchPower(t, "starts", "starting") \/ StartGame(t)

-----------------------------------------------------------------------------
(***************************************************************************)
(* processWatchdogQueue, over the list as it was fetched.                  *)
(***************************************************************************)
CheckWatch(t) ==
    /\ In(t, "watch")
    /\ \/ HostGoes /\ EndPhase(t)
       \/ HostStays /\ Goto(t, "list")
    /\ UNCHANGED <<vars, disk, link>>

FetchWatch(t) ==
    /\ At(t, "list")
    /\ \/ /\ NoLoss
          /\ th' = [th EXCEPT ![t] =
                [@ EXCEPT !.pc = "watch",
                          !.snap = {<<i, row[i]>> : i \in
                             {j \in onHost : row[j] \in {"running", "recovering"}}}]]
       \/ HttpFails /\ EndPhase(t)
    /\ UNCHANGED <<vars, disk, link>>

(* What the loop does with a listed server, by its pid file, its process   *)
(* and its failures on file; "watch" is to pass on to the next one.        *)

(* Mutants: any pid on file counts as dead; one attempt too many.          *)
DeadIfOnFile(i) == pidf[i] # "none"
Dead(i) == pidf[i] = "dead"
GivenUpLate(i) == failures[i] > MaxFailures
GivenUp(i) == failures[i] >= MaxFailures
Verdict(i, seen) ==
    CASE pidf[i] = "none" /\ seen = "recovering" -> "clear"
      [] Dead(i) /\ GivenUp(i) -> "reportFailed"
      [] Dead(i) /\ ~GivenUp(i) /\ i \notin cooling ->
            IF i \notin files THEN "reportFailed"
            ELSE IF seen = "running" THEN "restart" ELSE "restartAgain"
      [] pidf[i] \in {"live", "told"} /\ seen = "recovering" -> "healthy"
      [] OTHER -> "watch"

Examine(t) ==
    /\ At(t, "watch")
    /\ \/ th[t].snap = {} /\ EndPhase(t)
       \/ \E c \in th[t].snap :
             LET next == Verdict(c[1], c[2])
                 on == next # "watch"
             IN Watch(t, next, IF on THEN c[1] ELSE NoInst,
                      IF on THEN failures[c[1]] ELSE 0, th[t].snap \ {c})
    /\ UNCHANGED <<vars, disk, link, losses>>

(* No process to track, or a healthy one: "running" again.  Errors of the  *)
(* post are ignored, but only an accepted one resets the count.            *)
ClearRecovering(t) ==
    /\ At(t, "clear") \/ At(t, "healthy")
    /\ \/ /\ Posts(t, "running")
          /\ IF th[t].pc = "healthy"
                THEN /\ failures' = [failures EXCEPT ![Inst(t)] = 0]
                     /\ cooling' = cooling \ {Inst(t)}
                ELSE UNCHANGED <<failures, cooling>>
       \/ PostThrows(t, "running") /\ UNCHANGED <<failures, cooling>>
    /\ Watch(t, "watch", NoInst, 0, th[t].snap)
    /\ UNCHANGED <<files, pidf, stray, lingering>>

(* After the log post and the tear-down: removeInstancePidFile.            *)
BeginRestart(t) ==
    /\ At(t, "restart") \/ At(t, "restartAgain")
    /\ Names(Inst(t), "none")
    /\ Goto(t, IF th[t].pc = "restart" THEN "announce" ELSE "launch")
    /\ UNCHANGED <<vars, files, failures, cooling, link, losses>>

AnnounceRestart(t) ==
    /\ At(t, "announce")
    /\ \/ Posts(t, "recovering") /\ Goto(t, "launch")
       \/ PostThrows(t, "recovering") /\ EndPhase(t)
    /\ UNCHANGED disk

(* A restart that started no process counts as a failure.                  *)
CountFailure(t) ==
    /\ At(t, "unstarted")
    /\ Current(t).ph = "watch"
    /\ failures' = [failures EXCEPT ![Inst(t)] = th[t].tries + 1]
    /\ cooling' = cooling \cup {Inst(t)}
    /\ Goto(t, "reportUnstarted")
    /\ UNCHANGED <<vars, files, pidf, stray, lingering, link, losses>>

(* Its report may throw into the catch, which reports once more.           *)
ReportRecovering(t) ==
    \/ /\ At(t, "reportUnstarted")
       /\ PostThrows(t, "recovering")
       /\ LaunchThrows(t)
    \/ /\ At(t, "reportUnstarted") \/ At(t, "reportRecovering")
       /\ Posts(t, "recovering")
       /\ EndPhase(t) /\ UNCHANGED disk
    \/ /\ At(t, "reportRecovering")
       /\ PostThrows(t, "recovering")
       /\ EndPhase(t) /\ UNCHANGED disk

Watches(t) ==
    \/ CheckWatch(t) \/ FetchWatch(t) \/ Examine(t) \/ ClearRecovering(t) \/ BeginRestart(t)
    \/ AnnounceRestart(t) \/ CountFailure(t) \/ ReportRecovering(t)

-----------------------------------------------------------------------------
(***************************************************************************)
(* processProvisionQueue, processProvisionNow and provisionInstance.       *)
(***************************************************************************)
CheckProvision(t) ==
    /\ In(t, "provision")
    /\ \/ HostGoes /\ EndPhase(t)
       \/ HostStays /\ Replace(t, <<Do("queue", All)>>)
    /\ UNCHANGED <<vars, disk, link>>

(* Between two installations power and watchdog have a turn, with the next *)
(* instance already chosen.                                                *)
FetchQueued(t) ==
    /\ In(t, "queue") \/ In(t, "queueMore") \/ In(t, "deploy")
    /\ \/ /\ \E i \in Listed(t, "queued") :
                Replace(t, CASE Current(t).ph = "deploy" -> <<Do("install", i)>>
                             [] Current(t).ph = "queue" ->
                                   <<Do("install", i), Do("queueMore", All)>>
                             [] Current(t).ph = "queueMore" ->
                                   <<Do("power", All), Do("watch", All),
                                     Do("install", i), Do("queueMore", All)>>)
          /\ NoLoss
       \/ Listed(t, "queued") = {} /\ EndPhase(t) /\ NoLoss
       \/ HttpFails /\ EndPhase(t)
    /\ UNCHANGED <<vars, disk, link>>

ReportInstalling(t) ==
    /\ At(t, "installing")
    /\ \/ Posts(t, "installing") /\ Goto(t, "steamcmd")
       \/ PostThrows(t, "installing") /\ AbortInstall(t)
    /\ UNCHANGED disk

BeginInstall(t) ==
    /\ In(t, "install")
    /\ Take(t, "installing", Current(t).only)
    /\ UNCHANGED <<vars, disk, link, losses>>

(* SteamCMD and the log posts around it; it may fail before or after it    *)
(* created files.                                                          *)
SteamCmd(t) ==
    /\ At(t, "steamcmd")
    /\ \/ files' = files \cup {Inst(t)} /\ LogOk(Inst(t)) /\ Goto(t, "launch")
       \/ /\ files' \in {files, files \cup {Inst(t)}}
          /\ \/ LogOk(Inst(t)) /\ Goto(t, "reportFailed")
             \/ LogFails(Inst(t)) /\ AbortInstall(t)
    /\ UNCHANGED <<vars, pidf, stray, lingering, failures, cooling, link>>

Provisions(t) ==
    \/ CheckProvision(t) \/ FetchQueued(t) \/ BeginInstall(t)
    \/ ReportInstalling(t) \/ SteamCmd(t)

-----------------------------------------------------------------------------
StartCycle ==
    /\ At(Main, "next")
    /\ th[Main].todo = <<>>
    /\ th' = [th EXCEPT ![Main] = Between(MainCycle)]
    /\ UNCHANGED <<vars, disk, link, losses>>

TakeJob ==
    /\ UseWs
    /\ At(Ctl, "next")
    /\ th[Ctl].todo = <<>> /\ jobs # <<>>
    /\ th' = [th EXCEPT ![Ctl] = Between(Head(jobs))]
    /\ jobs' = Tail(jobs)
    /\ UNCHANGED <<vars, disk, ws, sent, losses>>

Works(t) ==
    \/ Deletes(t) \/ Launches(t) \/ Powers(t) \/ Watches(t) \/ Provisions(t)
    \/ t = Main /\ (RemovesHost(t) \/ StartCycle)
    \/ UseWs /\ t = Ctl /\ TakeJob

-----------------------------------------------------------------------------
(***************************************************************************)
(* The control plane's side of the link.                                   *)
(***************************************************************************)

(* sendControlToAgent after a handler's write; lost without a connection,  *)
(* and when the socket closes or the bound is met.                         *)
JobOf(c) ==
    CASE c.op = "insert"   -> DeployJob(c.inst)
      [] c.op = "markHost" -> SyncJob
      [] c.op = "set" /\ c.to = "stopping" -> StopJob(c.inst)
      [] c.op = "set" /\ c.to = "starting" -> StartJob(c.inst)
      [] c.op = "set" /\ c.to = "pending_delete" -> DeleteJob(c.inst)
      [] OTHER -> <<>>

Serve(s) ==
    /\ Write(s)
    /\ \/ UNCHANGED jobs
       \/ /\ ws /\ s \in UserSlots /\ JobOf(call[s]) # <<>>
          /\ Len(jobs) < MaxJobs
          /\ jobs' = Append(jobs, JobOf(call[s]))
    /\ UNCHANGED <<disk, ws, sent, th, losses>>

(* Each message has its own asynchronous task: any order, and a refusal    *)
(* is only an ack the agent ignores.                                       *)
HandleReport(s) ==
    /\ \E m \in sent :
          /\ sent' = sent \ {m}
          /\ \/ Report(s, m.inst, m.to)
             \/ ~(host # "gone" /\ Accepts(m.inst, m.to)) /\ UNCHANGED vars
    /\ UNCHANGED <<disk, ws, jobs, th, losses>>

WsConnects ==
    /\ UseWs /\ ~ws /\ ~Exited /\ host # "gone"
    /\ ws' = TRUE
    /\ UNCHANGED <<vars, disk, sent, jobs, th, losses>>

(* Messages on the wire may go with the connection.                        *)
WsDrops ==
    /\ ws /\ Loses
    /\ ws' = FALSE
    /\ sent' \in {sent, {}}
    /\ UNCHANGED <<vars, disk, jobs, th>>

-----------------------------------------------------------------------------
(***************************************************************************)
(* The machine.                                                            *)
(***************************************************************************)
ProcessDies(i) ==
    /\ \/ /\ pidf[i] \in {"live", "told"}
          /\ pidf' = [pidf EXCEPT ![i] = "dead"]
          /\ UNCHANGED <<stray, lingering>>
       \/ i \in stray /\ stray' = stray \ {i} /\ UNCHANGED <<pidf, lingering>>
       \/ i \in lingering /\ lingering' = lingering \ {i} /\ UNCHANGED <<pidf, stray>>
    /\ UNCHANGED <<vars, files, failures, cooling, link, th, losses>>

(* backoffMs has passed since the last attempt.                            *)
BackoffElapses(i) ==
    /\ i \in cooling
    /\ cooling' = cooling \ {i}
    /\ UNCHANGED <<vars, files, pidf, stray, lingering, failures, link, th, losses>>

(* The agent dies and its service manager starts it again.  Requests it    *)
(* had in service go on without it, in spare slots.                        *)
Restarts ==
    /\ \E f \in [Threads -> Spare] :
          /\ \A t, u \in Threads : call[t] # Idle =>
                call[f[t]] = Idle /\ (u # t => f[u] # f[t] \/ call[u] = Idle)
          /\ call' = [s \in Slots |->
                IF s \in Threads THEN Idle
                ELSE IF \E t \in Threads : f[t] = s /\ call[t] # Idle
                     THEN call[CHOOSE t \in Threads : f[t] = s /\ call[t] # Idle]
                     ELSE call[s]]
    /\ th' = [t \in Threads |-> Between(<<>>)]
    /\ ws' = FALSE /\ jobs' = <<>> /\ sent' \in {sent, {}}
    /\ UNCHANGED <<row, onHost, host, asked, hostAsked, files, failures, cooling>>

Crash(reboot) ==
    /\ "crash" \in Faults /\ Loses /\ ~Exited
    /\ Restarts
    /\ IF reboot THEN pidf' = [i \in Instances |->
                                  IF pidf[i] = "told" \/ pidf[i] = "live"
                                  THEN "dead" ELSE pidf[i]]
                      /\ stray' = {} /\ lingering' = {}
                 ELSE UNCHANGED <<pidf, stray, lingering>>

(* A spawn in a directory that is gone emits an error nobody listens for.  *)
SpawnKillsAgent(t) ==
    /\ At(t, "spawn") /\ Inst(t) \notin files
    /\ Restarts
    /\ UNCHANGED <<pidf, stray, lingering, losses>>

-----------------------------------------------------------------------------
AgentNext ==
    \/ \E t \in Threads : Works(t) \/ SpawnKillsAgent(t)
    \/ \E s \in UserSlots : UserAsks(s) /\ UNCHANGED agentVars
    \/ \E s \in Slots : Serve(s)
    \/ \E s \in Spare : HandleReport(s)
    \/ WsConnects \/ WsDrops
    \/ \E i \in Instances : ProcessDies(i) \/ BackoffElapses(i)
    \/ \E reboot \in BOOLEAN : Crash(reboot)

(* Node and PostgreSQL give every runnable continuation a turn; SteamCMD   *)
(* ends.  Nothing makes a user ask, a process die or the agent crash.      *)
Fairness ==
    /\ \A t \in Threads : WF_allVars(Works(t))
    /\ \A s \in Slots : WF_allVars(Serve(s))

AgentSpec == AgentInit /\ [][AgentNext]_allVars
FairAgentSpec == AgentSpec /\ Fairness

-----------------------------------------------------------------------------
(***************************************************************************)
(* Properties.                                                             *)
(***************************************************************************)

(* DELETE answers "The host agent will stop processes, delete files, and   *)
(* remove this record": of a record the agent reported removed no file is  *)
(* left, and every process has been sent its SIGTERM or has ended.  That a *)
(* process ends of it the code does not see to.                            *)
GoneMeansGone ==
    \A i \in Instances :
       row[i] = "gone" => pidf[i] # "live" /\ i \notin stray /\ i \notin files

(* A server is "stopped" in the dashboard only when every process of it    *)
(* has been sent its SIGTERM or has ended: none was missed, and nothing    *)
(* planned before the stop brought one back.                               *)
StoppedMeansTold ==
    \A i \in Instances : row[i] = "stopped" => pidf[i] # "live" /\ i \notin stray

(* No process gets out of reach: every one that was not told to end is in  *)
(* its server's pid file, so Stop and Delete reach it, but where the user  *)
(* dropped the record without waiting for the agent (finalize-removal, a   *)
(* forced host removal).  A start may find one that was told to end still  *)
(* at work beside it.                                                      *)
NoneOutOfReach == \A i \in stray : row[i] = "dropped"

(* Game data is deleted only for a server whose removal, or whose host's   *)
(* removal, a user asked for: no race, crash or failed request deletes     *)
(* what nobody wanted deleted.                                             *)
DataKept ==
    [][\A i \in Instances :
          i \in files /\ i \notin files' => i \in asked \/ hostAsked]_allVars

(* A queued deletion does not stay pending for ever while the host is      *)
(* there, nor a stop, a start or an installation while it is not being     *)
(* removed, whatever else the agent has to do and whichever processes die. *)
RequestsProgress ==
    \A i \in Instances :
       /\ row[i] = "pending_delete" ~> row[i] # "pending_delete" \/ host = "gone"
       /\ \A status \in {"stopping", "starting", "queued"} :
             row[i] = status ~> row[i] # status \/ host # "online"

(* "Remove host": once the host is pending_removal, the agent wipes it and *)
(* it is unregistered.                                                     *)
HostRemovalCompletes == host = "pending_removal" ~> host = "gone"

(* After a restart that started no process the watchdog says "Another try  *)
(* is scheduled": until it has given up, the server does not count as      *)
(* running again without a process.                                        *)
RetryStands ==
    [][\A i \in Instances :
          /\ failures[i] \in 1 .. MaxFailures - 1
          /\ pidf[i] = "none"
          /\ row[i] = "recovering"
          => row'[i] # "running"]_allVars
=============================================================================
