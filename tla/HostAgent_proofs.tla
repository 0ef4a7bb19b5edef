-------------------------- MODULE HostAgent_proofs --------------------------
(***************************************************************************)
(* Proofs about the host agent, for any number of servers, requests,       *)
(* faults, control jobs and messages on the wire, over either channel:     *)
(* what it deletes, what it is to the control plane, and the types.  The   *)
(* last part, on processes and stopped servers, is about the agent over    *)
(* REST on a machine where nothing fails but the game servers.             *)
(***************************************************************************)
EXTENDS HostAgent, ControlPlane_proofs

-----------------------------------------------------------------------------
(* The threads that are about to delete something, and why they may.       *)
Deleting == {"kill", "rm", "count", "wipe"}
ThreadsAreRecords ==
    th = [t \in Threads |->
            [pc |-> th[t].pc, inst |-> th[t].inst, todo |-> th[t].todo,
             n |-> th[t].n, snap |-> th[t].snap, tries |-> th[t].tries]]
DeletionsAreAsked ==
    \A t \in Threads :
       /\ th[t].pc \in {"kill", "rm"} => th[t].inst \in asked \/ hostAsked
       /\ th[t].pc \in {"count", "wipe"} => hostAsked

(* Where a thread stands between its reading of a list and the end of a    *)
(* launch, the current phase is one that launches.                         *)
Launching == {"starting", "installing", "steamcmd", "list", "watch", "clear", "healthy",
              "restart", "restartAgain", "announce", "launch", "spawn", "spawned",
              "started", "unstarted", "reportFailed", "reportUnstarted",
              "reportRecovering"}
Launchers == {"starts", "install", "watch"}
LaunchesHaveCallers ==
    \A t \in Threads : th[t].pc \in Launching => Current(t).ph \in Launchers

ThreadInv == ThreadsAreRecords /\ DeletionsAreAsked /\ LaunchesHaveCallers
AgentInv == Inv /\ ThreadInv

(* What every step but a deletion's does to the threads.                   *)
Quiet(t) ==
    /\ ThreadsAreRecords'
    /\ \A u \in Threads \ {t} : th'[u] = th[u]
    /\ th'[t].pc \notin Deleting
    /\ th'[t].pc \in Launching => Head(th'[t].todo).ph \in Launchers

LEMMA ThreadIsSlot == ASSUME NEW t \in Threads PROVE t \in AgentSlots /\ t \in Slots
  BY ThreadsAreSlots DEF Slots

LEMMA GotoMoves ==
    ASSUME ThreadsAreRecords, NEW t \in Threads, NEW pc, Goto(t, pc)
    PROVE  /\ ThreadsAreRecords'
           /\ \A u \in Threads \ {t} : th'[u] = th[u]
           /\ th'[t].pc = pc /\ th'[t].inst = th[t].inst /\ th'[t].todo = th[t].todo
  <1> DEFINE new == [th[t] EXCEPT !.pc = pc]
  <1>1. th' = [th EXCEPT ![t] = new]
    BY DEF ThreadsAreRecords, Goto
  <1>2. new = [pc |-> pc, inst |-> th[t].inst, todo |-> th[t].todo,
               n |-> th[t].n, snap |-> th[t].snap, tries |-> th[t].tries]
    BY DEF ThreadsAreRecords
  <1> HIDE DEF new
  <1>3. th'[t] = new /\ \A u \in Threads \ {t} : th'[u] = th[u]
    BY <1>1 DEF ThreadsAreRecords
  <1>4. ThreadsAreRecords'
    BY <1>1, <1>2 DEF ThreadsAreRecords
  <1> QED BY <1>2, <1>3, <1>4

(* A thread's record after an EXCEPT of several fields, one after another. *)
LEMMA RecordMoves ==
    ASSUME NEW r, NEW pc, NEW i, NEW n, NEW seen,
           r = [pc |-> r.pc, inst |-> r.inst, todo |-> r.todo,
                n |-> r.n, snap |-> r.snap, tries |-> r.tries]
    PROVE  /\ [r EXCEPT !.pc = pc, !.snap = seen] =
                 [pc |-> pc, inst |-> r.inst, todo |-> r.todo,
                  n |-> r.n, snap |-> seen, tries |-> r.tries]
           /\ [r EXCEPT !.pc = pc, !.inst = i] =
                 [pc |-> pc, inst |-> i, todo |-> r.todo,
                  n |-> r.n, snap |-> r.snap, tries |-> r.tries]
           /\ [r EXCEPT !.pc = pc, !.inst = i, !.tries = n] =
                 [pc |-> pc, inst |-> i, todo |-> r.todo,
                  n |-> r.n, snap |-> r.snap, tries |-> n]
           /\ [r EXCEPT !.pc = pc, !.inst = i, !.tries = n, !.snap = seen] =
                 [pc |-> pc, inst |-> i, todo |-> r.todo,
                  n |-> r.n, snap |-> seen, tries |-> n]
  <1> DEFINE first == [r EXCEPT !.pc = pc]
             second == [r EXCEPT !.pc = pc, !.inst = i]
             third == [r EXCEPT !.pc = pc, !.inst = i, !.tries = n]
  <1>1. first = [pc |-> pc, inst |-> r.inst, todo |-> r.todo,
                 n |-> r.n, snap |-> r.snap, tries |-> r.tries]
    OBVIOUS
  <1>2. [r EXCEPT !.pc = pc, !.snap = seen] = [first EXCEPT !.snap = seen]
    OBVIOUS
  <1>3. second = [first EXCEPT !.inst = i]
    OBVIOUS
  <1>4. third = [second EXCEPT !.tries = n]
    OBVIOUS
  <1>5. [r EXCEPT !.pc = pc, !.inst = i, !.tries = n, !.snap = seen]
           = [third EXCEPT !.snap = seen]
    OBVIOUS
  <1> HIDE DEF first, second, third
  <1>6. second = [pc |-> pc, inst |-> i, todo |-> r.todo,
                  n |-> r.n, snap |-> r.snap, tries |-> r.tries]
    BY <1>1, <1>3
  <1>7. third = [pc |-> pc, inst |-> i, todo |-> r.todo,
                 n |-> r.n, snap |-> r.snap, tries |-> n]
    BY <1>4, <1>6
  <1>8. [first EXCEPT !.snap = seen] = [pc |-> pc, inst |-> r.inst, todo |-> r.todo,
                                        n |-> r.n, snap |-> seen, tries |-> r.tries]
    BY <1>1
  <1>9. [third EXCEPT !.snap = seen] = [pc |-> pc, inst |-> i, todo |-> r.todo,
                                        n |-> r.n, snap |-> seen, tries |-> n]
    BY <1>7
  <1> QED BY <1>2, <1>5, <1>6, <1>7, <1>8, <1>9 DEF second, third

LEMMA TakeMoves ==
    ASSUME ThreadsAreRecords, NEW t \in Threads, NEW pc, NEW i, Take(t, pc, i)
    PROVE  /\ ThreadsAreRecords'
           /\ \A u \in Threads \ {t} : th'[u] = th[u]
           /\ th'[t].pc = pc /\ th'[t].inst = i /\ th'[t].todo = th[t].todo
  <1> DEFINE new == [th[t] EXCEPT !.pc = pc, !.inst = i]
  <1>1. th' = [th EXCEPT ![t] = new]
    BY DEF Take
  <1>2. new = [pc |-> pc, inst |-> i, todo |-> th[t].todo,
               n |-> th[t].n, snap |-> th[t].snap, tries |-> th[t].tries]
    BY RecordMoves DEF ThreadsAreRecords
  <1> HIDE DEF new
  <1> QED BY <1>1, <1>2 DEF ThreadsAreRecords

LEMMA BetweenMoves ==
    ASSUME ThreadsAreRecords, NEW t \in Threads, NEW todo, NEW n,
           th' = [th EXCEPT ![t] = [Between(todo) EXCEPT !.n = n]]
           \/ th' = [th EXCEPT ![t] = Between(todo)]
    PROVE  Quiet(t)
  BY DEF ThreadsAreRecords, Between, Quiet, Deleting, Launching

LEMMA PhaseEnds ==
    ASSUME ThreadsAreRecords, NEW t \in Threads,
           \/ EndPhase(t) \/ AfterItem(t) \/ AbortInstall(t)
           \/ \E phases : Replace(t, phases)
    PROVE  Quiet(t)
  BY BetweenMoves DEF EndPhase, AfterItem, AbortInstall, Replace

LEMMA WatchMoves ==
    ASSUME ThreadsAreRecords, NEW t \in Threads, NEW pc, pc \notin Deleting,
           pc \in Launching => Current(t).ph \in Launchers, NEW i, NEW n, NEW seen,
           \/ th' = [th EXCEPT ![t] = [@ EXCEPT !.pc = pc, !.snap = seen]]
           \/ Watch(t, pc, i, n, seen)
    PROVE  Quiet(t)
  <1>1. PICK new :
           /\ th' = [th EXCEPT ![t] = new]
           /\ \/ new = [th[t] EXCEPT !.pc = pc, !.snap = seen]
              \/ new = [th[t] EXCEPT !.pc = pc, !.inst = i, !.tries = n, !.snap = seen]
    BY DEF Watch
  <1>2. /\ new.pc = pc /\ new.todo = th[t].todo
        /\ new = [pc |-> new.pc, inst |-> new.inst, todo |-> new.todo,
                  n |-> new.n, snap |-> new.snap, tries |-> new.tries]
    <2> DEFINE r == th[t]
    <2>1. r = [pc |-> r.pc, inst |-> r.inst, todo |-> r.todo,
               n |-> r.n, snap |-> r.snap, tries |-> r.tries]
      BY DEF ThreadsAreRecords
    <2>0. r.todo = th[t].todo
      OBVIOUS
    <2> HIDE DEF r
    <2>2. \/ new = [pc |-> pc, inst |-> r.inst, todo |-> r.todo,
                    n |-> r.n, snap |-> seen, tries |-> r.tries]
          \/ new = [pc |-> pc, inst |-> i, todo |-> r.todo,
                    n |-> r.n, snap |-> seen, tries |-> n]
      <3>1. \/ new = [r EXCEPT !.pc = pc, !.snap = seen]
            \/ new = [r EXCEPT !.pc = pc, !.inst = i, !.tries = n, !.snap = seen]
        BY <1>1 DEF r
      <3> QED BY <2>1, <3>1, RecordMoves, Zenon
    <2> QED BY <2>0, <2>2
  <1>3. th'[t] = new /\ \A u \in Threads \ {t} : th'[u] = th[u]
    BY <1>1 DEF ThreadsAreRecords
  <1>4. ThreadsAreRecords'
    BY <1>1, <1>2 DEF ThreadsAreRecords
  <1> QED BY <1>2, <1>3, <1>4 DEF Quiet, Current

-----------------------------------------------------------------------------
(* What the agent's requests do to the records: what any agent may do.     *)
LEMMA StatusIsPosted ==
    ASSUME TypeOK, NEW t \in Threads, NEW next \in Reportable,
           Posts(t, next) \/ PostThrows(t, next)
    PROVE  [Next]_vars
  <1>1. ASSUME NEW s \in AgentSlots, NEW i, Report(s, i, next) PROVE Next
    BY <1>1 DEF Report, Accepts, TypeOK, AgentAsks, Next
  <1> QED BY <1>1, ThreadIsSlot DEF Posts, PostThrows

LEMMA InvKept == Inv /\ [Next]_vars => Inv'
  BY TypeStep, OwnedStep, RemovalStep DEF Inv

(* What was asked for stays asked for.                                     *)
LEMMA AskedStays ==
    ASSUME TypeOK, [Next]_vars
    PROVE  asked \subseteq asked' /\ (hostAsked => hostAsked')
  <1>1. ASSUME NEW s \in Slots, Write(s) PROVE UNCHANGED <<asked, hostAsked>>
    BY <1>1 DEF Write, Insert, SetStatus, DeleteRow, MarkRows, MarkHost, WipeRows, WipeHost
  <1> QED BY <1>1, AskShape DEF Next, Slots, vars

-----------------------------------------------------------------------------
(* The phases that delete nothing.                                         *)
Harmless(t) == Quiet(t) /\ [Next]_vars /\ files \subseteq files'

LEMMA QuietGoto ==
    ASSUME ThreadsAreRecords, NEW t \in Threads, NEW pc, pc \notin Deleting, Goto(t, pc),
           pc \in Launching => Current(t).ph \in Launchers
    PROVE  Quiet(t)
  BY GotoMoves DEF Quiet, Current

LEMMA QuietTake ==
    ASSUME ThreadsAreRecords, NEW t \in Threads, NEW pc, NEW i,
           pc \notin Deleting, Take(t, pc, i),
           pc \in Launching => Current(t).ph \in Launchers
    PROVE  Quiet(t)
  BY TakeMoves DEF Quiet, Current

(* The catch around a launch.                                              *)
LEMMA LaunchThrowsIsQuiet ==
    ASSUME ThreadsAreRecords, NEW t \in Threads,
           Current(t).ph \in Launchers, LaunchThrows(t)
    PROVE  Quiet(t) /\ files' = files
  <1>1. CASE Current(t).ph = "starts"
    BY <1>1, QuietGoto DEF LaunchThrows, Deleting, disk
  <1>2. CASE Current(t).ph = "install"
    BY <1>2, QuietGoto, PhaseEnds DEF LaunchThrows, Deleting, disk
  <1>3. CASE Current(t).ph = "watch"
    BY <1>3, QuietGoto DEF LaunchThrows, Deleting
  <1> QED BY <1>1, <1>2, <1>3 DEF Launchers

LEMMA LaunchesAreHarmless ==
    ASSUME AgentInv, NEW t \in Threads, Launches(t)
    PROVE  Harmless(t)
  <1> USE QuietGoto, PhaseEnds, LaunchThrowsIsQuiet, StatusIsPosted
      DEF AgentInv, ThreadInv, LaunchesHaveCallers, Inv, Harmless
  <1>1. CASE Prepare(t)
    <2>1. Current(t).ph \in Launchers
      BY <1>1 DEF Prepare, At, Launching
    <2> QED BY <1>1, <2>1 DEF Prepare, Deleting, disk, vars
  <1>2. CASE Spawn(t)
    <2>1. Current(t).ph \in Launchers
      BY <1>2 DEF Spawn, At, Launching
    <2> QED BY <1>2, <2>1 DEF Spawn, Deleting, disk, vars
  <1>3. CASE Spawned(t)
    <2>1. Current(t).ph \in Launchers
      BY <1>3 DEF Spawned, At, Launching
    <2> QED BY <1>3, <2>1 DEF Spawned, Deleting, disk, vars
  <1>4. CASE ReportRunning(t)
    <2>1. Current(t).ph \in Launchers
      BY <1>4 DEF ReportRunning, At, Launching
    <2> QED BY <1>4, <2>1 DEF ReportRunning, Reportable, disk
  <1>5. CASE ReportFailed(t)
    BY <1>5 DEF ReportFailed, Reportable, disk
  <1> QED BY <1>1, <1>2, <1>3, <1>4, <1>5 DEF Launches

LEMMA PowersAreHarmless ==
    ASSUME AgentInv, NEW t \in Threads, Powers(t)
    PROVE  Harmless(t)
  <1> USE QuietGoto, QuietTake, PhaseEnds, StatusIsPosted
      DEF AgentInv, ThreadInv, LaunchesHaveCallers, Inv, Harmless
  <1>1. CASE CheckPower(t)
    BY <1>1 DEF CheckPower, disk, vars
  <1>2. CASE FetchPower(t, "stops", "stopping")
    BY <1>2 DEF FetchPower, Deleting, Launching, disk, vars
  <1>3. CASE FetchPower(t, "starts", "starting")
    <2>1. Current(t).ph \in Launchers
      BY <1>3 DEF FetchPower, In, Current, Launchers
    <2> QED BY <1>3, <2>1 DEF FetchPower, Deleting, disk, vars
  <1>4. CASE StopGame(t)
    BY <1>4 DEF StopGame, Deleting, Launching, disk, vars
  <1>5. CASE ForgetGame(t)
    BY <1>5 DEF ForgetGame, Deleting, Launching, disk, vars
  <1>6. CASE ReportStopped(t)
    BY <1>6 DEF ReportStopped, Reportable, disk
  <1>7. CASE StartGame(t)
    <2>1. Current(t).ph \in Launchers
      BY <1>7 DEF StartGame, At, Launching
    <2> QED BY <1>7, <2>1 DEF StartGame, Deleting, disk, vars
  <1> QED BY <1>1, <1>2, <1>3, <1>4, <1>5, <1>6, <1>7 DEF Powers

LEMMA WatchesAreHarmless ==
    ASSUME AgentInv, NEW t \in Threads, Watches(t)
    PROVE  Harmless(t)
  <1> USE QuietGoto, PhaseEnds, StatusIsPosted
      DEF AgentInv, ThreadInv, LaunchesHaveCallers, Inv, Harmless
  <1>1. CASE CheckWatch(t)
    <2>1. Current(t).ph \in Launchers
      BY <1>1 DEF CheckWatch, In, Current, Launchers
    <2> QED BY <1>1, <2>1 DEF CheckWatch, Deleting, disk, vars
  <1>2. CASE FetchWatch(t)
    <2>1. Current(t).ph \in Launchers
      BY <1>2 DEF FetchWatch, At, Launching
    <2>2. Quiet(t)
      BY <1>2, <2>1, WatchMoves DEF FetchWatch, Deleting
    <2> QED BY <1>2, <2>2 DEF FetchWatch, disk, vars
  <1>3. CASE Examine(t)
    <2>1. Current(t).ph \in Launchers
      BY <1>3 DEF Examine, At, Launching
    <2>2. ASSUME NEW c \in th[t].snap PROVE Verdict(c[1], c[2]) \notin Deleting
      BY DEF Verdict, Deleting
    <2>3. Quiet(t)
      <3>1. CASE EndPhase(t)
        BY <3>1
      <3>2. CASE ~EndPhase(t)
        <4>1. PICK pc, i, n, seen : pc \notin Deleting /\ Watch(t, pc, i, n, seen)
          BY <1>3, <2>2, <3>2 DEF Examine
        <4> QED BY <2>1, <4>1, WatchMoves
      <3> QED BY <3>1, <3>2
    <2> QED BY <1>3, <2>3 DEF Examine, disk, vars
  <1>4. CASE ClearRecovering(t)
    <2>1. Current(t).ph \in Launchers
      BY <1>4 DEF ClearRecovering, At, Launching
    <2>2. Quiet(t)
      BY <1>4, <2>1, WatchMoves DEF ClearRecovering, Deleting
    <2> QED BY <1>4, <2>2 DEF ClearRecovering, Reportable
  <1>5. CASE BeginRestart(t)
    <2>1. Current(t).ph \in Launchers
      BY <1>5 DEF BeginRestart, At, Launching
    <2> QED BY <1>5, <2>1 DEF BeginRestart, Deleting, disk, vars
  <1>6. CASE AnnounceRestart(t)
    <2>1. Current(t).ph \in Launchers
      BY <1>6 DEF AnnounceRestart, At, Launching
    <2> QED BY <1>6, <2>1 DEF AnnounceRestart, Deleting, Reportable, disk
  <1>7. CASE CountFailure(t)
    <2>1. Current(t).ph \in Launchers
      BY <1>7 DEF CountFailure, At, Launching
    <2> QED BY <1>7, <2>1 DEF CountFailure, Deleting, disk, vars
  <1>8. CASE ReportRecovering(t)
    <2>1. Current(t).ph \in Launchers
      BY <1>8 DEF ReportRecovering, At, Launching
    <2> QED BY <1>8, <2>1, LaunchThrowsIsQuiet DEF ReportRecovering, Reportable, disk
  <1> QED BY <1>1, <1>2, <1>3, <1>4, <1>5, <1>6, <1>7, <1>8 DEF Watches

LEMMA ProvisionsAreHarmless ==
    ASSUME AgentInv, NEW t \in Threads, Provisions(t)
    PROVE  Harmless(t)
  <1> USE QuietGoto, QuietTake, PhaseEnds, StatusIsPosted
      DEF AgentInv, ThreadInv, LaunchesHaveCallers, Inv, Harmless
  <1>1. CASE CheckProvision(t)
    BY <1>1 DEF CheckProvision, disk, vars
  <1>2. CASE FetchQueued(t)
    BY <1>2 DEF FetchQueued, disk, vars
  <1>3. CASE BeginInstall(t)
    <2>1. Current(t).ph \in Launchers
      BY <1>3 DEF BeginInstall, In, Current, Launchers
    <2> QED BY <1>3, <2>1 DEF BeginInstall, Deleting, disk, vars
  <1>4. CASE ReportInstalling(t)
    <2>1. Current(t).ph \in Launchers
      BY <1>4 DEF ReportInstalling, At, Launching
    <2> QED BY <1>4, <2>1 DEF ReportInstalling, Deleting, Reportable, disk
  <1>5. CASE SteamCmd(t)
    <2>1. Current(t).ph \in Launchers
      BY <1>5 DEF SteamCmd, At, Launching
    <2> QED BY <1>5, <2>1 DEF SteamCmd, Deleting, vars
  <1> QED BY <1>1, <1>2, <1>3, <1>4, <1>5 DEF Provisions

-----------------------------------------------------------------------------
(* The phases that delete.  What a step may do to the files: take away     *)
(* those of servers whose removal was asked for.                           *)
FilesKept == \A i \in Instances : i \in files /\ i \notin files' => i \in asked \/ hostAsked
ContractKept == [Contract!Next]_(Contract!contractVars)
Permitted == AgentInv' /\ ContractKept /\ FilesKept

LEMMA RecordsKept ==
    ASSUME Inv, [Next]_vars
    PROVE  Inv' /\ ContractKept
  BY InvKept, ContractStep DEF ContractKept

(* Steps that leave the threads alone, or one of them where it deletes     *)
(* nothing.                                                                *)
LEMMA ThreadsRest ==
    ASSUME AgentInv, [Next]_vars, th' = th, files' = files
    PROVE  Permitted
  <1>1. asked \subseteq asked' /\ (hostAsked => hostAsked')
    BY AskedStays DEF AgentInv, Inv
  <1>2. ThreadInv'
    BY <1>1 DEF AgentInv, ThreadInv, ThreadsAreRecords, DeletionsAreAsked,
       LaunchesHaveCallers, Current
  <1> QED BY <1>2, RecordsKept DEF AgentInv, Permitted, FilesKept

LEMMA QuietKeepsThreads ==
    ASSUME AgentInv, NEW t \in Threads, Harmless(t)
    PROVE  Permitted
  <1>1. asked \subseteq asked' /\ (hostAsked => hostAsked')
    BY AskedStays DEF AgentInv, Inv, Harmless
  <1>2. ASSUME NEW u \in Threads
        PROVE  /\ th'[u].pc \in {"kill", "rm"} => th'[u].inst \in asked' \/ hostAsked'
               /\ th'[u].pc \in {"count", "wipe"} => hostAsked'
               /\ th'[u].pc \in Launching => Head(th'[u].todo).ph \in Launchers
    <2>1. CASE u = t
      BY <2>1 DEF Harmless, Quiet, Deleting
    <2>2. CASE u # t
      BY <1>1, <2>2 DEF Harmless, Quiet, AgentInv, ThreadInv, DeletionsAreAsked,
         LaunchesHaveCallers, Current
    <2> QED BY <2>1, <2>2
  <1>3. ThreadInv'
    BY <1>2 DEF Harmless, Quiet, ThreadInv, DeletionsAreAsked,
       LaunchesHaveCallers, Current
  <1> QED BY <1>3, RecordsKept DEF Harmless, Permitted, FilesKept, AgentInv

LEMMA DeletesArePermitted ==
    ASSUME AgentInv, NEW t \in Threads, Deletes(t)
    PROVE  Permitted
  <1> USE DEF AgentInv, ThreadInv, Inv
  <1>1. ASSUME NEW pc \in {"kill", "rm"}, NEW i, i \in asked \/ hostAsked,
               th'[t].pc = pc, th'[t].inst = i, ThreadsAreRecords',
               \A u \in Threads \ {t} : th'[u] = th[u],
               UNCHANGED vars, files' = files
        PROVE  Permitted
    <2>1. ThreadInv'
      BY <1>1 DEF DeletionsAreAsked, LaunchesHaveCallers, Current, vars, Launching
    <2> QED BY <1>1, <2>1, RecordsKept DEF Permitted, FilesKept
  <1>2. CASE FetchDelete(t)
    <2>1. ASSUME NEW i \in Listed(t, "pending_delete"), Take(t, "kill", i) PROVE Permitted
      <3>1. i \in asked \/ hostAsked
        BY <2>1 DEF Listed, RemovalInv, TypeOK
      <3> QED BY <1>1, <1>2, <2>1, <3>1, TakeMoves DEF FetchDelete, disk
    <2>2. CASE EndPhase(t)
      BY <1>2, <2>2, PhaseEnds, QuietKeepsThreads DEF FetchDelete, Harmless, disk, vars
    <2> QED BY <1>2, <2>1, <2>2 DEF FetchDelete
  <1>3. CASE Kill(t)
    <2>1. Inst(t) \in asked \/ hostAsked
      BY <1>3 DEF Kill, At, DeletionsAreAsked, Inst
    <2> QED BY <1>1, <1>3, <2>1, GotoMoves DEF Kill, Inst
  <1>4. CASE RemoveFiles(t)
    <2>1. Inst(t) \in asked \/ hostAsked
      BY <1>4 DEF RemoveFiles, At, DeletionsAreAsked, Inst
    <2>2. Quiet(t)
      BY <1>4, QuietGoto DEF RemoveFiles, Deleting, Launching
    <2>3. ThreadInv'
      BY <1>4, <2>2 DEF RemoveFiles, Quiet, Deleting, DeletionsAreAsked,
         LaunchesHaveCallers, Current, vars
    <2> QED BY <1>4, <2>1, <2>3, RecordsKept DEF RemoveFiles, Permitted, FilesKept
  <1>5. CASE ReportPurge(t)
    <2>1. [Next]_vars
      BY <1>5, ThreadIsSlot DEF ReportPurge, PurgeComplete, TypeOK, AgentAsks, Next
    <2>2. Quiet(t)
      BY <1>5, PhaseEnds, BetweenMoves DEF ReportPurge
    <2> QED BY <1>5, <2>1, <2>2, QuietKeepsThreads DEF ReportPurge, Harmless, disk
  <1> QED BY <1>2, <1>3, <1>4, <1>5 DEF Deletes

LEMMA HostRemovalIsPermitted ==
    ASSUME AgentInv, NEW t \in Threads, RemovesHost(t)
    PROVE  Permitted
  <1> USE DEF AgentInv, ThreadInv, Inv
  <1>1. ASSUME NEW pc \in {"count", "wipe"}, hostAsked,
               th'[t].pc = pc, ThreadsAreRecords',
               \A u \in Threads \ {t} : th'[u] = th[u],
               UNCHANGED vars, files' = files
        PROVE  Permitted
    <2>1. ThreadInv'
      BY <1>1 DEF DeletionsAreAsked, LaunchesHaveCallers, Current, vars, Launching
    <2> QED BY <1>1, <2>1, RecordsKept DEF Permitted, FilesKept
  <1>2. CASE CheckRemoval(t)
    <2>1. ASSUME host = "pending_removal", Goto(t, "count") PROVE Permitted
      <3>1. hostAsked
        BY <2>1 DEF RemovalInv
      <3> QED BY <1>1, <1>2, <2>1, <3>1, GotoMoves DEF CheckRemoval, disk
    <2>2. CASE EndPhase(t)
      BY <1>2, <2>2, PhaseEnds, QuietKeepsThreads DEF CheckRemoval, Harmless, disk, vars
    <2> QED BY <1>2, <2>1, <2>2 DEF CheckRemoval, HostGoes
  <1>3. CASE CountInstances(t)
    <2>1. hostAsked
      BY <1>3 DEF CountInstances, At, DeletionsAreAsked
    <2>2. CASE EndPhase(t)
      BY <1>3, <2>2, PhaseEnds, QuietKeepsThreads DEF CountInstances, Harmless, disk, vars
    <2>3. CASE Goto(t, "wipe")
      BY <1>1, <1>3, <2>1, <2>3, GotoMoves DEF CountInstances, disk
    <2> QED BY <1>3, <2>2, <2>3 DEF CountInstances
  <1>4. CASE WipeDataRoot(t)
    <2>1. hostAsked
      BY <1>4 DEF WipeDataRoot, At, DeletionsAreAsked
    <2>2. Quiet(t)
      BY <1>4, QuietGoto DEF WipeDataRoot, Deleting, Launching
    <2>3. ThreadInv'
      BY <1>4, <2>2 DEF WipeDataRoot, Quiet, Deleting, DeletionsAreAsked,
         LaunchesHaveCallers, Current, vars
    <2> QED BY <1>4, <2>1, <2>3, RecordsKept DEF WipeDataRoot, Permitted, FilesKept
  <1>5. CASE Unregister(t)
    <2>1. [Next]_vars
      BY <1>5, ThreadIsSlot DEF Unregister, AgentAsks, Next
    <2>2. Quiet(t)
      BY <1>5, PhaseEnds, QuietGoto DEF Unregister, Deleting, Launching
    <2> QED BY <1>5, <2>1, <2>2, QuietKeepsThreads DEF Unregister, Harmless, disk
  <1> QED BY <1>2, <1>3, <1>4, <1>5 DEF RemovesHost

LEMMA WorkIsPermitted ==
    ASSUME AgentInv, NEW t \in Threads, Works(t)
    PROVE  Permitted
  <1>1. CASE Launches(t) \/ Powers(t) \/ Watches(t) \/ Provisions(t)
    BY <1>1, LaunchesAreHarmless, PowersAreHarmless, WatchesAreHarmless,
       ProvisionsAreHarmless, QuietKeepsThreads
  <1>2. CASE t = Main /\ StartCycle
    <2>1. Quiet(t)
      BY <1>2, BetweenMoves DEF StartCycle, AgentInv, ThreadInv
    <2> QED BY <1>2, <2>1, QuietKeepsThreads DEF StartCycle, Harmless, disk
  <1>3. CASE t = Ctl /\ TakeJob
    <2>1. Quiet(t)
      BY <1>3, BetweenMoves DEF TakeJob, AgentInv, ThreadInv
    <2> QED BY <1>3, <2>1, QuietKeepsThreads DEF TakeJob, Harmless, disk
  <1> QED BY <1>1, <1>2, <1>3, DeletesArePermitted, HostRemovalIsPermitted DEF Works

-----------------------------------------------------------------------------
(* The agent restarts: its requests go on in spare slots, each in one of   *)
(* its own, so what their handlers have decided on moves but stays.        *)
Moved(from) ==
    /\ from \in [Slots -> Slots]
    /\ \A s \in Slots : call'[s] = Idle \/ call'[s] = call[from[s]]
    /\ \A s, u \in Slots :
          call'[s] # Idle /\ call'[u] # Idle /\ from[s] = from[u] => s = u

LEMMA RestartMovesCalls ==
    ASSUME AgentInv, Restarts
    PROVE  \E from : Moved(from)
  <1> USE ThreadIsSlot
  <1>1. PICK f \in [Threads -> Spare] :
           /\ \A t, u \in Threads : call[t] # Idle =>
                 call[f[t]] = Idle /\ (u # t => f[u] # f[t] \/ call[u] = Idle)
           /\ call' = [s \in Slots |->
                 IF s \in Threads THEN Idle
                 ELSE IF \E t \in Threads : f[t] = s /\ call[t] # Idle
                      THEN call[CHOOSE t \in Threads : f[t] = s /\ call[t] # Idle]
                      ELSE call[s]]
    BY DEF Restarts
  <1> DEFINE Moving(s) == \E t \in Threads : f[t] = s /\ call[t] # Idle
             mover(s) == CHOOSE t \in Threads : f[t] = s /\ call[t] # Idle
             from == [s \in Slots |-> IF Moving(s) THEN mover(s) ELSE s]
  <1>2. \A s : Moving(s) => mover(s) \in Threads /\ f[mover(s)] = s /\ call[mover(s)] # Idle
    OBVIOUS
  <1>3. from \in [Slots -> Slots]
    BY <1>2
  <1>4. \A s \in Slots :
           /\ s \in Threads => call'[s] = Idle
           /\ s \notin Threads /\ Moving(s) => call'[s] = call[mover(s)]
           /\ s \notin Threads /\ ~Moving(s) => call'[s] = call[s]
    BY <1>1
  <1> HIDE DEF Moving, mover
  <1>5. \A s \in Slots : call'[s] = Idle \/ call'[s] = call[from[s]]
    BY <1>4
  <1>6. ASSUME NEW s \in Slots, NEW u \in Slots, call'[s] # Idle, call'[u] # Idle,
               from[s] = from[u]
        PROVE  s = u
    BY <1>2, <1>4, <1>6
  <1> HIDE DEF from
  <1>7. Moved(from)
    BY <1>3, <1>5, <1>6 DEF Moved
  <1> QED BY <1>7

LEMMA RestartIsPermitted ==
    ASSUME AgentInv, Restarts
    PROVE  Permitted
  <1> USE DEF AgentInv, Inv
  <1>0. UNCHANGED <<row, onHost, host, asked, hostAsked, files>>
    BY DEF Restarts
  <1>1. PICK from : Moved(from)
    BY RestartMovesCalls
  <1>2. DOMAIN call' = Slots /\ call' = [s \in Slots |-> call'[s]]
    BY DEF Restarts
  <1>3. TypeOK'
    <2>1. \A s \in Slots : call'[s] \in Calls
      BY <1>1 DEF Moved, TypeOK, Calls
    <2> QED BY <1>0, <1>2, <2>1 DEF TypeOK
  <1>4. RowsAreOwned'
    <2>1. \A s \in Slots : call'[s].op = "wiped" => call'[s] = call[from[s]] /\ call'[s] # Idle
      BY <1>1 DEF Moved, Idle
    <2> QED BY <1>0, <1>1, <2>1 DEF RowsAreOwned, Moved, Exists
  <1>5. RemovalInv'
    <2>1. \A s \in Slots : call'[s].op # "idle" => call'[s] = call[from[s]] /\ call'[s] # Idle
      BY <1>1 DEF Moved, Idle
    <2>2. ASSUME NEW s \in Slots, call'[s].op = "insert"
          PROVE  /\ row'[call'[s].inst] = "none"
                 /\ \A u \in Slots \ {s} : call'[u] # call'[s]
      <3>1. call'[s] = call[from[s]] /\ call'[s] # Idle
        BY <2>1, <2>2
      <3>2. ASSUME NEW u \in Slots \ {s}, call'[u] = call'[s] PROVE FALSE
        <4>1. call'[u] = call[from[u]] /\ from[u] # from[s]
          BY <1>1, <2>1, <2>2, <3>1, <3>2 DEF Moved
        <4> QED BY <1>1, <2>2, <3>1, <3>2, <4>1 DEF RemovalInv, Moved
      <3> QED BY <1>0, <1>1, <2>2, <3>1, <3>2 DEF RemovalInv, Moved
    <2>3. ASSUME NEW s \in Slots
          PROVE  /\ call'[s].op = "set" =>
                       (call'[s].to = "pending_delete" => call'[s].inst \in asked)
                 /\ call'[s].op \in {"finalize", "purge"} =>
                       call'[s].inst \in asked \/ hostAsked
                 /\ call'[s].op \in {"markRows", "markHost", "wipe", "wiped"} => hostAsked
      BY <1>1, <2>1 DEF RemovalInv, Moved
    <2> QED BY <1>0, <2>2, <2>3 DEF RemovalInv
  <1>6. ThreadInv'
    BY DEF Restarts, Between, ThreadInv, ThreadsAreRecords, DeletionsAreAsked,
       LaunchesHaveCallers, Launching
  <1>7. ContractKept
    BY <1>0 DEF ContractKept, Contract!contractVars, phase
  <1> QED BY <1>0, <1>3, <1>4, <1>5, <1>6, <1>7 DEF Permitted, FilesKept

-----------------------------------------------------------------------------
LEMMA AgentStep ==
    ASSUME AgentInv, [AgentNext]_allVars
    PROVE  Permitted
  <1> USE DEF agentVars, disk, link
  <1>1. ASSUME NEW t \in Threads, Works(t) \/ SpawnKillsAgent(t) PROVE Permitted
    BY <1>1, WorkIsPermitted, RestartIsPermitted DEF SpawnKillsAgent
  <1>2. ASSUME NEW s \in UserSlots, UserAsks(s), UNCHANGED agentVars PROVE Permitted
    BY <1>2, ThreadsRest DEF Next
  <1>3. ASSUME NEW s \in Slots, Serve(s) PROVE Permitted
    BY <1>3, ThreadsRest DEF Serve, Next
  <1>4. ASSUME NEW s \in Spare, HandleReport(s) PROVE Permitted
    <2>1. ASSUME NEW i, NEW to, Report(s, i, to) PROVE Next
      <3>1. s \in AgentSlots /\ i \in Instances /\ to \in Reportable
        BY <2>1 DEF Spare, Report, Accepts, AgentInv, Inv, TypeOK, ReportTransitions, Reportable
      <3> QED BY <2>1, <3>1 DEF AgentAsks, Next
    <2> QED BY <1>4, <2>1, ThreadsRest DEF HandleReport
  <1>5. CASE WsConnects \/ WsDrops
    BY <1>5, ThreadsRest DEF WsConnects, WsDrops
  <1>6. ASSUME NEW i \in Instances, ProcessDies(i) \/ BackoffElapses(i) PROVE Permitted
    BY <1>6, ThreadsRest DEF ProcessDies, BackoffElapses
  <1>7. ASSUME NEW reboot \in BOOLEAN, Crash(reboot) PROVE Permitted
    BY <1>7, RestartIsPermitted DEF Crash
  <1>8. CASE UNCHANGED allVars
    BY <1>8, ThreadsRest DEF allVars
  <1> QED BY <1>1, <1>2, <1>3, <1>4, <1>5, <1>6, <1>7, <1>8 DEF AgentNext

LEMMA AgentStarts == AgentInit => AgentInv /\ Contract!Init
  BY TypeInit, OwnedInit, RemovalInit, ContractInit
     DEF AgentInit, AgentInv, Inv, ThreadInv, ThreadsAreRecords, DeletionsAreAsked,
         LaunchesHaveCallers, Launching, Between

LEMMA AgentInvariant == AgentSpec => []AgentInv
  BY AgentStarts, AgentStep, PTL DEF AgentSpec, Permitted

(* Whatever the two threads, the channels, a crash of the agent or of the  *)
(* machine, a failed request or a late report do: the install directory of *)
(* a server goes only after a user asked to remove it or its host.         *)
THEOREM NothingIsDeletedUnasked == AgentSpec => DataKept
  <1>1. AgentInv /\ [AgentNext]_allVars => [FilesKept]_allVars
    BY AgentStep DEF Permitted
  <1>2. FilesKept = \A i \in Instances :
                       i \in files /\ i \notin files' => i \in asked \/ hostAsked
    BY DEF FilesKept
  <1> QED BY <1>1, <1>2, AgentInvariant, PTL DEF AgentSpec, DataKept, FilesKept

(* The agent's code, with all its faults, is one of the agents that        *)
(* ControlPlane allows: together they implement the removal contract.      *)
THEOREM AgentHonoursContract == AgentSpec => ImplementsContract
  BY AgentStarts, AgentInvariant, AgentStep, PTL
     DEF AgentSpec, Permitted, ContractKept, ImplementsContract, Contract!Spec

-----------------------------------------------------------------------------
(***************************************************************************)
(* Types.  That the count of failures stays within MaxFailures depends on  *)
(* the phase: the watchdog adds one to what it read before it restarted.   *)
(***************************************************************************)
Restarting == {"restart", "restartAgain", "announce", "launch", "spawn", "spawned",
               "started", "unstarted", "reportUnstarted", "reportRecovering"}
AtOneServer == {"kill", "rm", "purge", "stopping", "forget", "reportStopped",
                "starting", "installing", "steamcmd", "clear", "healthy", "reportFailed"}
               \cup Restarting
Pcs == AtOneServer \cup {"next", "count", "wipe", "unregister", "exit", "list", "watch"}

(* An installation and a deployment are of one server.                     *)
Todos == {todo \in Seq(Phases) :
            \A p \in 1..Len(todo) :
               todo[p].ph \in {"deploy", "install"} => todo[p].only \in Instances}
Seen == Instances \X {"running", "recovering"}
ThreadRecords == [pc : Pcs, inst : Instances \cup {NoInst}, todo : Todos, n : Nat,
                  snap : SUBSET Seen, tries : 0 .. MaxFailures]

(* What a thread's place says of its phase, its server and its count.      *)
PlaceFits(r) ==
    /\ r.pc # "next" => r.todo # <<>>
    /\ r.pc \in AtOneServer => r.inst \in Instances
    /\ r.pc = "starting" => Head(r.todo).ph = "starts"
    /\ r.pc \in {"installing", "steamcmd"} => Head(r.todo).ph = "install"
    /\ r.pc \in {"list", "watch", "clear", "healthy", "restart", "restartAgain", "announce",
                 "reportUnstarted", "reportRecovering"} => Head(r.todo).ph = "watch"
    /\ r.pc \in Restarting \ {"reportRecovering"} /\ Head(r.todo).ph = "watch" =>
          r.tries < MaxFailures

ThreadsTyped ==
    /\ th \in [Threads -> ThreadRecords]
    /\ \A t \in Threads : PlaceFits(th[t])
DiskTyped ==
    /\ files \subseteq Instances /\ stray \subseteq Instances /\ cooling \subseteq Instances
    /\ lingering \subseteq Instances
    /\ pidf \in [Instances -> {"none", "live", "told", "dead"}]
    /\ failures \in [Instances -> 0 .. MaxFailures]
LinkTyped ==
    /\ ws \in BOOLEAN /\ losses \in 0 .. MaxLosses
    /\ sent \subseteq [inst : Instances, to : Reportable]
    /\ jobs \in Seq(Todos)
AgentTyped == DiskTyped /\ LinkTyped /\ ThreadsTyped

LEMMA TailIsTodo == ASSUME NEW todo \in Todos, todo # <<>> PROVE Tail(todo) \in Todos
  <1> DEFINE rest == Tail(todo)
  <1>1. todo \in Seq(Phases)
    BY DEF Todos
  <1>2. /\ rest \in Seq(Phases) /\ Len(rest) = Len(todo) - 1
        /\ \A p \in 1..Len(rest) : rest[p] = todo[p + 1] /\ p + 1 \in 1..Len(todo)
    BY <1>1
  <1> QED BY <1>2 DEF Todos

LEMMA HeadIsPhase ==
    ASSUME NEW todo \in Todos, todo # <<>>
    PROVE  /\ Head(todo) \in Phases
           /\ Head(todo).ph \in {"deploy", "install"} => Head(todo).only \in Instances
  BY DEF Todos

LEMMA JoinedIsTodo ==
    ASSUME NEW todo \in Todos, NEW more \in Todos
    PROVE  more \o todo \in Todos
  <1> DEFINE both == more \o todo
  <1>1. both \in Seq(Phases) /\ Len(both) = Len(more) + Len(todo)
    BY DEF Todos
  <1>2. ASSUME NEW p \in 1..Len(both)
        PROVE  both[p].ph \in {"deploy", "install"} => both[p].only \in Instances
    <2>1. CASE p <= Len(more)
      BY <2>1 DEF Todos
    <2>2. CASE p > Len(more)
      <3>1. both[p] = todo[p - Len(more)] /\ p - Len(more) \in 1..Len(todo)
        BY <1>1, <2>2 DEF Todos
      <3> QED BY <3>1 DEF Todos
    <2> QED BY <2>1, <2>2 DEF Todos
  <1> QED BY <1>1, <1>2 DEF Todos

LEMMA BetweenIsTyped ==
    ASSUME NEW todo \in Todos, NEW n \in Nat
    PROVE  /\ Between(todo) \in ThreadRecords /\ PlaceFits(Between(todo))
           /\ [Between(todo) EXCEPT !.n = n] \in ThreadRecords
           /\ PlaceFits([Between(todo) EXCEPT !.n = n])
  BY LimitsAreNumbers DEF Between, ThreadRecords, PlaceFits, Pcs, AtOneServer, Restarting

LEMMA NewRecordIsTyped ==
    ASSUME ThreadsTyped, NEW t \in Threads, NEW r \in ThreadRecords, PlaceFits(r),
           th' = [th EXCEPT ![t] = r]
    PROVE  ThreadsTyped'
  BY DEF ThreadsTyped

LEMMA GotoIsTyped ==
    ASSUME ThreadsTyped, NEW t \in Threads, NEW pc \in Pcs, Goto(t, pc),
           PlaceFits([th[t] EXCEPT !.pc = pc])
    PROVE  ThreadsTyped'
  <1> DEFINE r == [th[t] EXCEPT !.pc = pc]
  <1>1. r \in ThreadRecords
    BY DEF ThreadsTyped, ThreadRecords
  <1>2. th' = [th EXCEPT ![t] = r]
    BY DEF Goto, ThreadsTyped
  <1> QED BY <1>1, <1>2, NewRecordIsTyped

LEMMA TakeIsTyped ==
    ASSUME ThreadsTyped, NEW t \in Threads, NEW pc \in Pcs, NEW i \in Instances,
           Take(t, pc, i), th[t].todo # <<>>, pc \notin Restarting,
           pc = "starting" => Current(t).ph = "starts",
           pc = "installing" => Current(t).ph = "install",
           pc \notin {"steamcmd", "list", "watch", "clear", "healthy"}
    PROVE  ThreadsTyped'
  <1> DEFINE r == [th[t] EXCEPT !.pc = pc, !.inst = i]
  <1>1. r = [pc |-> pc, inst |-> i, todo |-> th[t].todo, n |-> th[t].n,
             snap |-> th[t].snap, tries |-> th[t].tries]
    BY RecordMoves DEF ThreadsTyped, ThreadRecords
  <1>2. r \in ThreadRecords
    BY <1>1 DEF ThreadsTyped, ThreadRecords
  <1>3. PlaceFits(r)
    BY <1>1 DEF PlaceFits, Current, Restarting
  <1>4. th' = [th EXCEPT ![t] = r]
    BY DEF Take
  <1> QED BY <1>2, <1>3, <1>4, NewRecordIsTyped

LEMMA WatchMoveIsTyped ==
    ASSUME ThreadsTyped, NEW t \in Threads, th[t].todo # <<>>, Current(t).ph = "watch",
           NEW pc \in {"watch", "clear", "healthy", "reportFailed", "restart", "restartAgain"},
           NEW i \in Instances \cup {NoInst}, pc # "watch" => i \in Instances,
           NEW n \in 0 .. MaxFailures, pc \in {"restart", "restartAgain"} => n < MaxFailures,
           NEW seen \in SUBSET Seen,
           \/ th' = [th EXCEPT ![t] = [@ EXCEPT !.pc = pc, !.snap = seen]] /\ pc = "watch"
           \/ Watch(t, pc, i, n, seen)
    PROVE  ThreadsTyped'
  <1>1. PICK new :
           /\ th' = [th EXCEPT ![t] = new]
           /\ \/ new = [th[t] EXCEPT !.pc = pc, !.snap = seen] /\ pc = "watch"
              \/ new = [th[t] EXCEPT !.pc = pc, !.inst = i, !.tries = n, !.snap = seen]
    BY DEF Watch
  <1> DEFINE r == th[t]
  <1>2. r = [pc |-> r.pc, inst |-> r.inst, todo |-> r.todo,
             n |-> r.n, snap |-> r.snap, tries |-> r.tries]
    BY DEF ThreadsTyped, ThreadRecords
  <1>3. r \in ThreadRecords /\ r.todo # <<>> /\ Head(r.todo).ph = "watch"
    BY DEF ThreadsTyped, Current
  <1>4. \/ new = [r EXCEPT !.pc = pc, !.snap = seen] /\ pc = "watch"
        \/ new = [r EXCEPT !.pc = pc, !.inst = i, !.tries = n, !.snap = seen]
    BY <1>1
  <1> HIDE DEF r
  <1>5. \/ /\ pc = "watch"
           /\ new = [pc |-> pc, inst |-> r.inst, todo |-> r.todo,
                     n |-> r.n, snap |-> seen, tries |-> r.tries]
        \/ new = [pc |-> pc, inst |-> i, todo |-> r.todo,
                  n |-> r.n, snap |-> seen, tries |-> n]
    BY <1>2, <1>4, RecordMoves, Zenon
  <1>6. new \in ThreadRecords
    BY <1>3, <1>5 DEF ThreadRecords, Pcs, AtOneServer, Restarting
  <1>7. PlaceFits(new)
    BY <1>3, <1>5 DEF PlaceFits, AtOneServer, Restarting
  <1> QED BY <1>1, <1>6, <1>7, NewRecordIsTyped

LEMMA PhaseEndIsTyped ==
    ASSUME ThreadsTyped, NEW t \in Threads, th[t].todo # <<>>,
           EndPhase(t) \/ AfterItem(t) \/ AbortInstall(t)
           \/ \E phases \in Todos : Replace(t, phases)
    PROVE  ThreadsTyped'
  <1>1. th[t].todo \in Todos /\ Tail(th[t].todo) \in Todos /\ th[t].n + 1 \in Nat
    BY TailIsTodo DEF ThreadsTyped, ThreadRecords
  <1>2. ASSUME NEW r \in ThreadRecords, PlaceFits(r), th' = [th EXCEPT ![t] = r]
        PROVE  ThreadsTyped'
    BY <1>2, NewRecordIsTyped
  <1>3. CASE EndPhase(t)
    BY <1>1, <1>2, <1>3, BetweenIsTyped DEF EndPhase
  <1>4. CASE AfterItem(t)
    BY <1>1, <1>2, <1>3, <1>4, BetweenIsTyped DEF AfterItem
  <1>5. CASE AbortInstall(t)
    BY <1>1, <1>2, <1>5, BetweenIsTyped, TailIsTodo DEF AbortInstall
  <1>6. ASSUME NEW phases \in Todos, Replace(t, phases) PROVE ThreadsTyped'
    BY <1>1, <1>2, <1>6, BetweenIsTyped, JoinedIsTodo DEF Replace
  <1> QED BY <1>3, <1>4, <1>5, <1>6

(* Every step that leaves disk or link alone, or only counts a loss.       *)
LEMMA LossIsTyped ==
    ASSUME LinkTyped, UNCHANGED link, NoLoss \/ Loses
    PROVE  LinkTyped'
  BY LimitsAreNumbers DEF LinkTyped, link, NoLoss, Loses

LEMMA PostIsTyped ==
    ASSUME LinkTyped, NEW t, Inst(t) \in Instances, NEW next \in Reportable,
           Posts(t, next) \/ PostThrows(t, next)
    PROVE  LinkTyped'
  <1>1. CASE ws /\ Posts(t, next)
    BY <1>1 DEF Posts, LinkTyped, NoLoss, link
  <1>2. CASE ~ws /\ Posts(t, next)
    BY <1>2, LossIsTyped DEF Posts
  <1>3. CASE PostThrows(t, next)
    BY <1>3, LossIsTyped DEF PostThrows, HttpFails
  <1> QED BY <1>1, <1>2, <1>3

LEMMA DiskIsTyped ==
    ASSUME DiskTyped, NEW i \in Instances,
           /\ files' \in {files, files \cup {i}, files \ {i}, {}}
           /\ stray' \subseteq stray \cup {i} /\ lingering' \subseteq lingering \cup {i}
           /\ \/ pidf' = pidf
              \/ \E p \in {"none", "live", "told", "dead"} : pidf' = [pidf EXCEPT ![i] = p]
           /\ \/ failures' = failures
              \/ \E n \in 0 .. MaxFailures : failures' = [failures EXCEPT ![i] = n]
           /\ cooling' \subseteq cooling \cup {i}
    PROVE  DiskTyped'
  BY DEF DiskTyped

LEMMA SignalIsTyped ==
    ASSUME DiskTyped, NEW i \in Instances, Signal(i)
    PROVE  /\ \/ pidf' = pidf
              \/ \E p \in {"told", "dead"} : pidf' = [pidf EXCEPT ![i] = p]
           /\ lingering' \subseteq lingering \cup {i}
           /\ pidf'[i] # "live" /\ \A j \in Instances : pidf'[j] = "live" => pidf[j] = "live"
  BY DEF Signal, DiskTyped

LEMMA ThreadsHold ==
    ASSUME AgentTyped, NEW t \in Threads
    PROVE  /\ th[t] \in ThreadRecords /\ PlaceFits(th[t]) /\ 0 \in 0 .. MaxFailures
           /\ th[t].pc # "next" => th[t].todo # <<>>
           /\ th[t].pc \in AtOneServer => Inst(t) \in Instances
  BY LimitsAreNumbers DEF AgentTyped, ThreadsTyped, PlaceFits, Inst

LEMMA DeletesAreTyped ==
    ASSUME TypeOK, AgentTyped, NEW t \in Threads, Deletes(t)
    PROVE  AgentTyped'
  <1> USE ThreadsHold, PhaseEndIsTyped, LossIsTyped DEF AgentTyped
  <1>1. CASE FetchDelete(t)
    <2>1. th[t].todo # <<>>
      BY <1>1 DEF FetchDelete, In
    <2>2. ThreadsTyped'
      <3>1. ASSUME NEW i \in Listed(t, "pending_delete"), Take(t, "kill", i)
            PROVE  ThreadsTyped'
        BY <2>1, <3>1, TakeIsTyped DEF Pcs, AtOneServer, Restarting, Listed, TypeOK
      <3> QED BY <1>1, <2>1, <3>1 DEF FetchDelete
    <2> QED BY <1>1, <2>2 DEF FetchDelete, HttpFails, disk, DiskTyped
  <1>2. CASE Kill(t)
    <2>1. th[t].pc = "kill" /\ Inst(t) \in Instances
      BY <1>2 DEF Kill, At, AtOneServer
    <2>2. ThreadsTyped'
      BY <1>2, <2>1, GotoIsTyped DEF Kill, Pcs, AtOneServer, PlaceFits, Restarting,
         ThreadRecords
    <2>3. DiskTyped'
      BY <1>2, <2>1, SignalIsTyped, DiskIsTyped DEF Kill
    <2> QED BY <1>2, <2>2, <2>3 DEF Kill, NoLoss
  <1>3. CASE RemoveFiles(t)
    <2>1. th[t].pc = "rm" /\ Inst(t) \in Instances
      BY <1>3 DEF RemoveFiles, At, AtOneServer
    <2>2. ThreadsTyped'
      BY <1>3, <2>1, GotoIsTyped DEF RemoveFiles, Pcs, AtOneServer, PlaceFits, Restarting,
         ThreadRecords
    <2>3. DiskTyped'
      BY <1>3, <2>1, DiskIsTyped DEF RemoveFiles, Names
    <2> QED BY <1>3, <2>2, <2>3 DEF RemoveFiles, NoLoss
  <1>4. CASE ReportPurge(t)
    <2>1. th[t].pc = "purge" /\ th[t].todo # <<>>
      BY <1>4 DEF ReportPurge, At
    <2>2. ThreadsTyped'
      BY <1>4, <2>1, BetweenIsTyped, NewRecordIsTyped DEF ReportPurge, ThreadRecords
    <2> QED BY <1>4, <2>2 DEF ReportPurge, HttpFails, disk, DiskTyped
  <1> QED BY <1>1, <1>2, <1>3, <1>4 DEF Deletes

(* The steps of a thread that leave the disk and the link alone.           *)
LEMMA ControlIsTyped ==
    ASSUME AgentTyped, ThreadsTyped', UNCHANGED <<disk, link>>, NoLoss \/ Loses
    PROVE  AgentTyped'
  BY LossIsTyped DEF AgentTyped, DiskTyped, disk

LEMMA HostRemovalIsTyped ==
    ASSUME AgentTyped, NEW t \in Threads, RemovesHost(t)
    PROVE  AgentTyped'
  <1> USE ThreadsHold, PhaseEndIsTyped DEF AgentTyped
  <1>0. ASSUME NEW pc \in {"count", "wipe", "unregister", "exit"}, th[t].todo # <<>>,
               Goto(t, pc)
        PROVE  ThreadsTyped'
    BY <1>0, GotoIsTyped DEF Pcs, AtOneServer, PlaceFits, Restarting, ThreadRecords
  <1>1. CASE CheckRemoval(t)
    <2>1. th[t].todo # <<>>
      BY <1>1 DEF CheckRemoval, In
    <2>2. ThreadsTyped'
      BY <1>0, <1>1, <2>1 DEF CheckRemoval
    <2> QED BY <1>1, <2>2, ControlIsTyped DEF CheckRemoval, HostGoes, HostStays, HttpFails
  <1>2. CASE CountInstances(t)
    <2>1. th[t].todo # <<>>
      BY <1>2 DEF CountInstances, At
    <2>2. ThreadsTyped'
      BY <1>0, <1>2, <2>1 DEF CountInstances
    <2> QED BY <1>2, <2>2, ControlIsTyped DEF CountInstances, HttpFails
  <1>3. CASE WipeDataRoot(t)
    <2>1. th[t].todo # <<>>
      BY <1>3 DEF WipeDataRoot, At
    <2>2. ThreadsTyped'
      BY <1>0, <1>3, <2>1 DEF WipeDataRoot
    <2>3. DiskTyped'
      BY <1>3 DEF WipeDataRoot, DiskTyped
    <2> QED BY <1>3, <2>2, <2>3, LossIsTyped DEF WipeDataRoot, NoLoss
  <1>4. CASE Unregister(t)
    <2>1. th[t].todo # <<>>
      BY <1>4 DEF Unregister, At
    <2>2. ThreadsTyped'
      BY <1>0, <1>4, <2>1 DEF Unregister
    <2> QED BY <1>4, <2>2, ControlIsTyped DEF Unregister, HttpFails
  <1> QED BY <1>1, <1>2, <1>3, <1>4 DEF RemovesHost

(* Where the phase is known, so is what a launch in it may do.             *)
LEMMA LaunchThrowsIsTyped ==
    ASSUME AgentTyped, NEW t \in Threads, LaunchThrows(t),
           th[t].pc \in {"launch", "spawned", "started", "unstarted", "reportUnstarted"},
           Current(t).ph \in Launchers
    PROVE  ThreadsTyped' /\ DiskTyped'
  <1> USE ThreadsHold, PhaseEndIsTyped DEF AgentTyped
  <1>1. th[t].todo # <<>> /\ Inst(t) \in Instances
    BY DEF AtOneServer, Restarting
  <1>2. ASSUME NEW pc \in {"reportFailed", "reportRecovering"}, Goto(t, pc),
               pc = "reportRecovering" => Current(t).ph = "watch"
        PROVE  ThreadsTyped'
    BY <1>1, <1>2, GotoIsTyped
       DEF Pcs, AtOneServer, PlaceFits, Restarting, ThreadRecords, Current, Inst
  <1>3. CASE Current(t).ph = "starts"
    BY <1>2, <1>3 DEF LaunchThrows, disk, DiskTyped
  <1>4. CASE Current(t).ph = "install"
    BY <1>1, <1>2, <1>4 DEF LaunchThrows, disk, DiskTyped
  <1>5. CASE Current(t).ph = "watch"
    <2>1. th[t].tries + 1 \in 0 .. MaxFailures
      BY <1>5, LimitsAreNumbers DEF PlaceFits, Restarting, ThreadRecords, Current
    <2> QED BY <1>1, <1>2, <1>5, <2>1, DiskIsTyped DEF LaunchThrows
  <1> QED BY <1>3, <1>4, <1>5 DEF Launchers

LEMMA LaunchesAreTyped ==
    ASSUME AgentTyped, LaunchesHaveCallers, NEW t \in Threads, Launches(t)
    PROVE  AgentTyped'
  <1> USE ThreadsHold, PhaseEndIsTyped, LaunchThrowsIsTyped DEF AgentTyped
  <1>0. ASSUME NEW pc \in {"spawn", "spawned", "started", "unstarted"}, Goto(t, pc),
               th[t].pc \in {"launch", "spawn", "spawned"}
        PROVE  ThreadsTyped'
    BY <1>0, GotoIsTyped
       DEF Pcs, AtOneServer, PlaceFits, Restarting, ThreadRecords, Inst
  <1>1. CASE Prepare(t)
    <2>1. Current(t).ph \in Launchers /\ th[t].pc = "launch"
      BY <1>1 DEF Prepare, At, Launching, LaunchesHaveCallers
    <2>2. ThreadsTyped' /\ DiskTyped'
      BY <1>0, <1>1, <2>1 DEF Prepare, disk, DiskTyped
    <2> QED BY <1>1, <2>2, LossIsTyped DEF Prepare, LogOk, LogFails, HttpFails
  <1>2. CASE Spawn(t)
    <2>1. th[t].pc = "spawn" /\ Inst(t) \in Instances
      BY <1>2 DEF Spawn, At, AtOneServer, Restarting
    <2>2. ThreadsTyped'
      BY <1>0, <1>2, <2>1 DEF Spawn
    <2>3. DiskTyped'
      BY <1>2, <2>1, DiskIsTyped DEF Spawn, Names, disk
    <2> QED BY <1>2, <2>2, <2>3, LossIsTyped DEF Spawn, NoLoss
  <1>3. CASE Spawned(t)
    <2>1. /\ Current(t).ph \in Launchers /\ th[t].pc = "spawned" /\ Inst(t) \in Instances
      BY <1>3 DEF Spawned, At, Launching, LaunchesHaveCallers, AtOneServer, Restarting
    <2>2. CASE LogOk(Inst(t))
      BY <1>0, <1>3, <2>1, <2>2, DiskIsTyped, LossIsTyped DEF Spawned, LogOk, LogFails
    <2>3. CASE LogFails(Inst(t)) /\ LaunchThrows(t)
      BY <1>3, <2>1, <2>3, LossIsTyped DEF Spawned, LogFails, HttpFails
    <2> QED BY <1>3, <2>2, <2>3 DEF Spawned
  <1>4. CASE ReportRunning(t)
    <2>1. /\ Current(t).ph \in Launchers /\ th[t].pc \in {"started", "unstarted"}
          /\ Inst(t) \in Instances
      BY <1>4 DEF ReportRunning, At, Launching, LaunchesHaveCallers, AtOneServer, Restarting
    <2>2. LinkTyped'
      BY <1>4, <2>1, PostIsTyped DEF ReportRunning, Reportable
    <2>3. ThreadsTyped' /\ DiskTyped'
      BY <1>4, <2>1 DEF ReportRunning, disk, DiskTyped
    <2> QED BY <2>2, <2>3
  <1>5. CASE ReportFailed(t)
    <2>1. th[t].pc = "reportFailed" /\ Inst(t) \in Instances /\ th[t].todo # <<>>
      BY <1>5 DEF ReportFailed, At, AtOneServer
    <2>2. LinkTyped'
      BY <1>5, <2>1, PostIsTyped DEF ReportFailed, Reportable
    <2>3. ThreadsTyped'
      BY <1>5, <2>1 DEF ReportFailed
    <2>4. DiskTyped'
      BY <1>5, <2>1, DiskIsTyped DEF ReportFailed, disk
    <2> QED BY <2>2, <2>3, <2>4
  <1> QED BY <1>1, <1>2, <1>3, <1>4, <1>5 DEF Launches

(* The phases a phase may be replaced by.                                  *)
LEMMA PhasesAreTodos ==
    ASSUME NEW i \in Instances
    PROVE  /\ <<Do("stops", All), Do("starts", All)>> \in Todos
           /\ <<Do("queue", All)>> \in Todos
           /\ <<Do("install", i)>> \in Todos
           /\ <<Do("install", i), Do("queueMore", All)>> \in Todos
           /\ <<Do("power", All), Do("watch", All), Do("install", i),
                Do("queueMore", All)>> \in Todos
           /\ MainCycle \in Todos /\ SyncJob \in Todos
           /\ DeleteJob(i) \in Todos /\ DeployJob(i) \in Todos
           /\ StopJob(i) \in Todos /\ StartJob(i) \in Todos
  BY DEF Todos, Phases, Do, MainCycle, SyncJob, DeleteJob, DeployJob, StopJob, StartJob

LEMMA PowersAreTyped ==
    ASSUME TypeOK, AgentTyped, NEW t \in Threads, Powers(t)
    PROVE  AgentTyped'
  <1> USE ThreadsHold, PhaseEndIsTyped DEF AgentTyped
  <1>1. CASE CheckPower(t)
    <2>1. th[t].todo # <<>>
      BY <1>1 DEF CheckPower, In
    <2>2. <<Do("stops", All), Do("starts", All)>> \in Todos
      BY DEF Todos, Phases, Do
    <2>3. ThreadsTyped'
      BY <1>1, <2>1, <2>2 DEF CheckPower
    <2> QED BY <1>1, <2>3, ControlIsTyped DEF CheckPower, HostGoes, HostStays, HttpFails
  <1>2. ASSUME NEW ph \in {"stops", "starts"}, NEW status,
               <<ph, status>> \in {<<"stops", "stopping">>, <<"starts", "starting">>},
               FetchPower(t, ph, status)
        PROVE  AgentTyped'
    <2>1. th[t].todo # <<>> /\ Current(t).ph = ph
      BY <1>2 DEF FetchPower, In, Current
    <2>2. ASSUME NEW i \in Listed(t, status), Take(t, status, i) PROVE ThreadsTyped'
      BY <1>2, <2>1, <2>2, TakeIsTyped DEF Pcs, AtOneServer, Restarting, Listed, TypeOK
    <2>3. ThreadsTyped'
      BY <1>2, <2>1, <2>2 DEF FetchPower
    <2> QED BY <1>2, <2>3, ControlIsTyped DEF FetchPower, HttpFails
  <1>3. ASSUME NEW pc \in {"forget", "reportStopped", "launch", "reportFailed"}, Goto(t, pc),
               th[t].pc \in {"stopping", "forget", "starting"},
               pc = "launch" => th[t].pc = "starting"
        PROVE  ThreadsTyped'
    BY <1>3, GotoIsTyped
       DEF Pcs, AtOneServer, PlaceFits, Restarting, ThreadRecords, Inst
  <1>4. CASE StopGame(t)
    <2>1. th[t].pc = "stopping" /\ Inst(t) \in Instances
      BY <1>4 DEF StopGame, At, AtOneServer
    <2>2. ThreadsTyped'
      BY <1>3, <1>4, <2>1 DEF StopGame
    <2>3. DiskTyped'
      BY <1>4, <2>1, SignalIsTyped, DiskIsTyped DEF StopGame
    <2> QED BY <1>4, <2>2, <2>3, LossIsTyped DEF StopGame, LogOk, LogFails, HttpFails
  <1>5. CASE ForgetGame(t)
    <2>1. th[t].pc = "forget" /\ Inst(t) \in Instances
      BY <1>5 DEF ForgetGame, At, AtOneServer
    <2>2. ThreadsTyped'
      BY <1>3, <1>5, <2>1 DEF ForgetGame
    <2>3. DiskTyped'
      BY <1>5, <2>1, DiskIsTyped DEF ForgetGame, Names
    <2> QED BY <1>5, <2>2, <2>3, LossIsTyped DEF ForgetGame, NoLoss
  <1>6. CASE ReportStopped(t)
    <2>1. th[t].pc = "reportStopped" /\ Inst(t) \in Instances /\ th[t].todo # <<>>
      BY <1>6 DEF ReportStopped, At, AtOneServer
    <2>2. LinkTyped'
      BY <1>6, <2>1, PostIsTyped DEF ReportStopped, Reportable
    <2>3. ThreadsTyped'
      BY <1>6, <2>1 DEF ReportStopped
    <2> QED BY <1>6, <2>2, <2>3 DEF ReportStopped, disk, DiskTyped
  <1>7. CASE StartGame(t)
    <2>1. th[t].pc = "starting"
      BY <1>7 DEF StartGame, At
    <2>2. ThreadsTyped'
      BY <1>3, <1>7, <2>1 DEF StartGame
    <2> QED BY <1>7, <2>2, ControlIsTyped DEF StartGame, NoLoss
  <1> QED BY <1>1, <1>2, <1>4, <1>5, <1>6, <1>7 DEF Powers

LEMMA WatchesAreTyped ==
    ASSUME TypeOK, AgentTyped, LaunchesHaveCallers, NEW t \in Threads, Watches(t)
    PROVE  AgentTyped'
  <1> USE ThreadsHold, PhaseEndIsTyped DEF AgentTyped
  <1>0. ASSUME NEW pc, Goto(t, pc),
               \/ pc = "list" /\ In(t, "watch")
               \/ /\ pc \in {"announce", "launch", "reportUnstarted"}
                  /\ th[t].pc \in {"restart", "restartAgain", "announce", "unstarted"}
                  /\ th[t].pc = "unstarted" => Current(t).ph = "watch"
        PROVE  ThreadsTyped'
    BY <1>0, GotoIsTyped
       DEF Pcs, AtOneServer, PlaceFits, Restarting, ThreadRecords, Inst, Current, In
  <1>1. CASE CheckWatch(t)
    <2>1. th[t].todo # <<>>
      BY <1>1 DEF CheckWatch, In
    <2>2. ThreadsTyped'
      BY <1>0, <1>1, <2>1 DEF CheckWatch
    <2> QED BY <1>1, <2>2, ControlIsTyped DEF CheckWatch, HostGoes, HostStays, HttpFails
  <1>2. CASE FetchWatch(t)
    <2>1. th[t].pc = "list" /\ th[t].todo # <<>>
      BY <1>2 DEF FetchWatch, At
    <2>2. ThreadsTyped'
      <3>1. CASE EndPhase(t)
        BY <2>1, <3>1
      <3>2. CASE ~EndPhase(t)
        <4>1. PICK seen \in SUBSET Seen :
                 th' = [th EXCEPT ![t] = [@ EXCEPT !.pc = "watch", !.snap = seen]]
          <5> DEFINE seen == {<<i, row[i]>> : i \in
                                {j \in onHost : row[j] \in {"running", "recovering"}}}
          <5>1. seen \in SUBSET Seen
            BY DEF Seen, TypeOK
          <5>2. th' = [th EXCEPT ![t] = [@ EXCEPT !.pc = "watch", !.snap = seen]]
            BY <1>2, <3>2 DEF FetchWatch
          <5> QED BY <5>1, <5>2
        <4> QED BY <2>1, <4>1, WatchMoveIsTyped DEF PlaceFits, Current, ThreadRecords
      <3> QED BY <3>1, <3>2
    <2> QED BY <1>2, <2>2, ControlIsTyped DEF FetchWatch, HttpFails
  <1>3. CASE Examine(t)
    <2>1. th[t].pc = "watch" /\ th[t].todo # <<>>
      BY <1>3 DEF Examine, At
    <2>2. ThreadsTyped'
      <3>1. CASE EndPhase(t)
        BY <2>1, <3>1
      <3>2. CASE ~EndPhase(t)
        <4>1. ASSUME NEW c \in th[t].snap
              PROVE  /\ c[1] \in Instances /\ th[t].snap \ {c} \in SUBSET Seen
                     /\ failures[c[1]] \in 0 .. MaxFailures
                     /\ Verdict(c[1], c[2]) \in {"watch", "clear", "healthy", "reportFailed",
                                                 "restart", "restartAgain"}
                     /\ Verdict(c[1], c[2]) \in {"restart", "restartAgain"} =>
                           failures[c[1]] < MaxFailures
          <5>1. c[1] \in Instances /\ th[t].snap \ {c} \in SUBSET Seen
                /\ failures[c[1]] \in 0 .. MaxFailures
            BY DEF ThreadRecords, Seen, DiskTyped
          <5> QED BY <5>1, LimitsAreNumbers DEF Verdict, GivenUp
        <4>2. PICK c \in th[t].snap :
                 Watch(t, Verdict(c[1], c[2]),
                       IF Verdict(c[1], c[2]) # "watch" THEN c[1] ELSE NoInst,
                       IF Verdict(c[1], c[2]) # "watch" THEN failures[c[1]] ELSE 0,
                       th[t].snap \ {c})
          BY <1>3, <3>2 DEF Examine
        <4> QED BY <2>1, <4>1, <4>2, WatchMoveIsTyped DEF PlaceFits, Current
      <3> QED BY <3>1, <3>2
    <2> QED BY <1>3, <2>2, ControlIsTyped DEF Examine, NoLoss
  <1>4. CASE ClearRecovering(t)
    <2>1. /\ th[t].pc \in {"clear", "healthy"} /\ Inst(t) \in Instances
          /\ th[t].todo # <<>> /\ Head(th[t].todo).ph = "watch"
      BY <1>4 DEF ClearRecovering, At, AtOneServer, PlaceFits
    <2>2. LinkTyped'
      BY <1>4, <2>1, PostIsTyped DEF ClearRecovering, Reportable
    <2>3. DiskTyped'
      BY <1>4, <2>1, DiskIsTyped DEF ClearRecovering
    <2>4. ThreadsTyped'
      <3>1. Watch(t, "watch", NoInst, 0, th[t].snap) /\ th[t].snap \in SUBSET Seen
        BY <1>4 DEF ClearRecovering, ThreadRecords
      <3> QED BY <2>1, <3>1, WatchMoveIsTyped DEF Current
    <2> QED BY <2>2, <2>3, <2>4
  <1>5. CASE BeginRestart(t)
    <2>1. th[t].pc \in {"restart", "restartAgain"} /\ Inst(t) \in Instances
      BY <1>5 DEF BeginRestart, At, AtOneServer, Restarting
    <2>2. ThreadsTyped'
      BY <1>0, <1>5, <2>1 DEF BeginRestart
    <2>3. DiskTyped'
      BY <1>5, <2>1, DiskIsTyped DEF BeginRestart, Names
    <2> QED BY <1>5, <2>2, <2>3, LossIsTyped DEF BeginRestart, NoLoss
  <1>6. CASE AnnounceRestart(t)
    <2>1. th[t].pc = "announce" /\ Inst(t) \in Instances /\ th[t].todo # <<>>
      BY <1>6 DEF AnnounceRestart, At, AtOneServer, Restarting
    <2>2. LinkTyped'
      BY <1>6, <2>1, PostIsTyped DEF AnnounceRestart, Reportable
    <2>3. ThreadsTyped'
      BY <1>0, <1>6, <2>1 DEF AnnounceRestart
    <2> QED BY <1>6, <2>2, <2>3 DEF AnnounceRestart, disk, DiskTyped
  <1>7. CASE CountFailure(t)
    <2>1. th[t].pc = "unstarted" /\ Inst(t) \in Instances /\ Current(t).ph = "watch"
      BY <1>7 DEF CountFailure, At, AtOneServer, Restarting
    <2>2. th[t].tries + 1 \in 0 .. MaxFailures
      BY <2>1, LimitsAreNumbers DEF PlaceFits, Restarting, ThreadRecords, Current
    <2>3. ThreadsTyped'
      BY <1>0, <1>7, <2>1 DEF CountFailure
    <2>4. DiskTyped'
      BY <1>7, <2>1, <2>2, DiskIsTyped DEF CountFailure
    <2> QED BY <1>7, <2>3, <2>4, LossIsTyped DEF CountFailure, NoLoss
  <1>8. CASE ReportRecovering(t)
    <2>1. /\ th[t].pc \in {"reportUnstarted", "reportRecovering"} /\ Inst(t) \in Instances
          /\ th[t].todo # <<>> /\ Current(t).ph \in Launchers
      BY <1>8 DEF ReportRecovering, At, AtOneServer, Restarting, LaunchesHaveCallers, Launching
    <2>2. LinkTyped'
      BY <1>8, <2>1, PostIsTyped DEF ReportRecovering, Reportable
    <2>3. ThreadsTyped' /\ DiskTyped'
      BY <1>8, <2>1, LaunchThrowsIsTyped DEF ReportRecovering, disk, DiskTyped, At
    <2> QED BY <2>2, <2>3
  <1> QED BY <1>1, <1>2, <1>3, <1>4, <1>5, <1>6, <1>7, <1>8 DEF Watches

LEMMA ProvisionsAreTyped ==
    ASSUME TypeOK, AgentTyped, NEW t \in Threads, Provisions(t)
    PROVE  AgentTyped'
  <1> USE ThreadsHold, PhaseEndIsTyped DEF AgentTyped
  <1>1. CASE CheckProvision(t)
    <2>1. th[t].todo # <<>>
      BY <1>1 DEF CheckProvision, In
    <2>2. <<Do("queue", All)>> \in Todos
      BY DEF Todos, Phases, Do
    <2>3. ThreadsTyped'
      BY <1>1, <2>1, <2>2 DEF CheckProvision
    <2> QED BY <1>1, <2>3, ControlIsTyped DEF CheckProvision, HostGoes, HostStays, HttpFails
  <1>2. CASE FetchQueued(t)
    <2>1. th[t].todo # <<>> /\ Current(t).ph \in {"queue", "queueMore", "deploy"}
      BY <1>2 DEF FetchQueued, In, Current
    <2>2. ASSUME NEW i \in Listed(t, "queued"),
                 Replace(t, CASE Current(t).ph = "deploy" -> <<Do("install", i)>>
                             [] Current(t).ph = "queue" ->
                                   <<Do("install", i), Do("queueMore", All)>>
                             [] Current(t).ph = "queueMore" ->
                                   <<Do("power", All), Do("watch", All),
                                     Do("install", i), Do("queueMore", All)>>)
          PROVE  ThreadsTyped'
      BY <2>1, <2>2, PhasesAreTodos DEF Listed, TypeOK
    <2>3. ThreadsTyped'
      BY <1>2, <2>1, <2>2 DEF FetchQueued
    <2> QED BY <1>2, <2>3, ControlIsTyped DEF FetchQueued, HttpFails
  <1>3. CASE BeginInstall(t)
    <2>1. th[t].todo # <<>> /\ Current(t).ph = "install"
      BY <1>3 DEF BeginInstall, In, Current
    <2>2. Current(t).only \in Instances
      BY <2>1, HeadIsPhase DEF Current, ThreadRecords
    <2>3. ThreadsTyped'
      BY <1>3, <2>1, <2>2, TakeIsTyped DEF BeginInstall, Pcs, AtOneServer, Restarting
    <2> QED BY <1>3, <2>3, ControlIsTyped DEF BeginInstall, NoLoss
  <1>4. ASSUME NEW pc \in {"steamcmd", "launch", "reportFailed"}, Goto(t, pc),
               th[t].pc \in {"installing", "steamcmd"}
        PROVE  ThreadsTyped'
    BY <1>4, GotoIsTyped
       DEF Pcs, AtOneServer, PlaceFits, Restarting, ThreadRecords, Inst
  <1>5. CASE ReportInstalling(t)
    <2>1. th[t].pc = "installing" /\ Inst(t) \in Instances /\ th[t].todo # <<>>
      BY <1>5 DEF ReportInstalling, At, AtOneServer
    <2>2. LinkTyped'
      BY <1>5, <2>1, PostIsTyped DEF ReportInstalling, Reportable
    <2>3. ThreadsTyped'
      BY <1>4, <1>5, <2>1 DEF ReportInstalling
    <2> QED BY <1>5, <2>2, <2>3 DEF ReportInstalling, disk, DiskTyped
  <1>6. CASE SteamCmd(t)
    <2>1. th[t].pc = "steamcmd" /\ Inst(t) \in Instances /\ th[t].todo # <<>>
      BY <1>6 DEF SteamCmd, At, AtOneServer
    <2>2. ThreadsTyped'
      BY <1>4, <1>6, <2>1 DEF SteamCmd
    <2>3. DiskTyped'
      BY <1>6, <2>1, DiskIsTyped DEF SteamCmd
    <2> QED BY <1>6, <2>2, <2>3, LossIsTyped DEF SteamCmd, LogOk, LogFails, HttpFails
  <1> QED BY <1>1, <1>2, <1>3, <1>5, <1>6 DEF Provisions

LEMMA WorkIsTyped ==
    ASSUME TypeOK, AgentTyped, LaunchesHaveCallers, NEW t \in Threads, Works(t)
    PROVE  AgentTyped'
  <1> USE DEF AgentTyped
  <1>1. CASE t = Main /\ StartCycle
    <2>1. MainCycle \in Todos
      BY DEF MainCycle, Todos, Phases, Do
    <2>2. ThreadsTyped'
      BY <1>1, <2>1, BetweenIsTyped, NewRecordIsTyped DEF StartCycle
    <2> QED BY <1>1, <2>2, ControlIsTyped DEF StartCycle, NoLoss
  <1>2. CASE t = Ctl /\ TakeJob
    <2>1. Head(jobs) \in Todos /\ Tail(jobs) \in Seq(Todos)
      BY <1>2 DEF TakeJob, LinkTyped
    <2>2. ThreadsTyped'
      BY <1>2, <2>1, BetweenIsTyped, NewRecordIsTyped DEF TakeJob
    <2> QED BY <1>2, <2>1, <2>2 DEF TakeJob, LinkTyped, DiskTyped, disk
  <1> QED BY <1>1, <1>2, DeletesAreTyped, LaunchesAreTyped, PowersAreTyped, WatchesAreTyped,
             ProvisionsAreTyped, HostRemovalIsTyped DEF Works

LEMMA RestartIsTyped ==
    ASSUME AgentTyped, Restarts, NoLoss \/ Loses, stray' \subseteq stray,
           lingering' \subseteq lingering, pidf' \in [Instances -> {"none", "live", "told", "dead"}]
    PROVE  AgentTyped'
  <1>1. ThreadsTyped'
    <2>1. <<>> \in Todos
      BY DEF Todos
    <2> QED BY <2>1, BetweenIsTyped DEF Restarts, ThreadsTyped
  <1>2. DiskTyped'
    BY DEF Restarts, AgentTyped, DiskTyped
  <1>3. LinkTyped'
    <2>1. <<>> \in Seq(Todos)
      OBVIOUS
    <2>2. losses' \in 0 .. MaxLosses
      BY LimitsAreNumbers DEF AgentTyped, LinkTyped, NoLoss, Loses
    <2>3. ws' = FALSE /\ jobs' = <<>> /\ sent' \subseteq sent
      BY DEF Restarts
    <2> QED BY <2>1, <2>2, <2>3 DEF AgentTyped, LinkTyped
  <1> QED BY <1>1, <1>2, <1>3 DEF AgentTyped

LEMMA JobIsTodo ==
    ASSUME TypeOK, NEW s \in Slots, JobOf(call[s]) # <<>>
    PROVE  JobOf(call[s]) \in Todos
  <1>1. call[s] \in Calls
    BY DEF TypeOK
  <1>2. CASE call[s].op = "insert"
    BY <1>1, <1>2, CallByOp, PhasesAreTodos DEF JobOf, InsertCall
  <1>3. CASE call[s].op = "markHost"
    <2>1. SyncJob \in Todos
      BY DEF SyncJob, Todos, Phases, Do
    <2> QED BY <1>3, <2>1 DEF JobOf
  <1>4. CASE call[s].op = "set"
    BY <1>1, <1>4, CallByOp, PhasesAreTodos DEF JobOf, UserSetCall
  <1> QED BY <1>2, <1>3, <1>4 DEF JobOf

LEMMA AgentTypedStep ==
    ASSUME TypeOK, AgentTyped, LaunchesHaveCallers, [AgentNext]_allVars
    PROVE  AgentTyped'
  <1> USE DEF AgentTyped
  <1>0. ASSUME UNCHANGED <<disk, th>>, LinkTyped' PROVE AgentTyped'
    BY <1>0 DEF DiskTyped, disk, ThreadsTyped
  <1>1. ASSUME NEW t \in Threads, Works(t) PROVE AgentTyped'
    BY <1>1, WorkIsTyped
  <1>2. ASSUME NEW t \in Threads, SpawnKillsAgent(t) PROVE AgentTyped'
    BY <1>2, RestartIsTyped DEF SpawnKillsAgent, NoLoss, DiskTyped
  <1>3. ASSUME NEW s \in UserSlots, UNCHANGED agentVars PROVE AgentTyped'
    BY <1>0, <1>3, LossIsTyped DEF agentVars, NoLoss
  <1>4. ASSUME NEW s \in Slots, Serve(s) PROVE AgentTyped'
    <2>1. jobs' \in Seq(Todos)
      BY <1>4, JobIsTodo DEF Serve, LinkTyped
    <2> QED BY <1>0, <1>4, <2>1 DEF Serve, LinkTyped
  <1>5. ASSUME NEW s \in Spare, HandleReport(s) PROVE AgentTyped'
    BY <1>0, <1>5 DEF HandleReport, LinkTyped
  <1>6. CASE WsConnects
    BY <1>0, <1>6 DEF WsConnects, LinkTyped
  <1>7. CASE WsDrops
    <2>1. losses' \in 0 .. MaxLosses
      BY <1>7, LimitsAreNumbers DEF WsDrops, Loses, LinkTyped
    <2>2. ws' = FALSE /\ UNCHANGED <<jobs, disk, th>> /\ sent' \subseteq sent
      BY <1>7 DEF WsDrops
    <2> QED BY <1>0, <2>1, <2>2 DEF LinkTyped
  <1>8. ASSUME NEW i \in Instances, ProcessDies(i) PROVE AgentTyped'
    <2>1. DiskTyped'
      BY <1>8 DEF ProcessDies, DiskTyped
    <2> QED BY <1>8, <2>1, LossIsTyped DEF ProcessDies, NoLoss, ThreadsTyped
  <1>9. ASSUME NEW i \in Instances, BackoffElapses(i) PROVE AgentTyped'
    <2>1. DiskTyped'
      BY <1>9 DEF BackoffElapses, DiskTyped
    <2> QED BY <1>9, <2>1, LossIsTyped DEF BackoffElapses, NoLoss, ThreadsTyped
  <1>10. ASSUME NEW reboot \in BOOLEAN, Crash(reboot) PROVE AgentTyped'
    <2>1. pidf' \in [Instances -> {"none", "live", "told", "dead"}] /\ stray' \subseteq stray
          /\ lingering' \subseteq lingering
      BY <1>10 DEF Crash, DiskTyped
    <2> QED BY <1>10, <2>1, RestartIsTyped DEF Crash
  <1>11. CASE UNCHANGED allVars
    BY <1>0, <1>11, LossIsTyped DEF allVars, agentVars, NoLoss
  <1> QED BY <1>1, <1>2, <1>3, <1>4, <1>5, <1>6, <1>7, <1>8, <1>9, <1>10, <1>11 DEF AgentNext

LEMMA AgentTypedInit == AgentInit => AgentTyped
  <1>1. <<>> \in Todos /\ <<>> \in Seq(Todos)
    BY DEF Todos
  <1> SUFFICES ASSUME AgentInit PROVE AgentTyped
    OBVIOUS
  <1>2. ThreadsTyped
    BY <1>1, BetweenIsTyped DEF AgentInit, ThreadsTyped
  <1>3. DiskTyped
    BY LimitsAreNumbers DEF AgentInit, DiskTyped
  <1>4. LinkTyped
    <2>1. 0 \in 0 .. MaxLosses
      BY LimitsAreNumbers
    <2> QED BY <1>1, <2>1 DEF AgentInit, LinkTyped
  <1> QED BY <1>2, <1>3, <1>4 DEF AgentTyped

LEMMA TypedAgent == ASSUME TypeOK, AgentTyped PROVE AgentTypeOK
  <1>1. ASSUME NEW todo \in Todos, NEW p \in DOMAIN todo PROVE todo[p] \in Phases
    BY DEF Todos
  <1>2. ASSUME NEW k \in DOMAIN jobs PROVE jobs[k] \in Todos
    BY DEF AgentTyped, LinkTyped
  <1>3. ASSUME NEW t \in Threads
        PROVE  /\ th[t].inst \in Instances \cup {NoInst} /\ th[t].todo \in Todos
               /\ th[t].snap \subseteq Instances \X {"running", "recovering"}
    BY DEF AgentTyped, ThreadsTyped, ThreadRecords, Seen
  <1> QED BY <1>1, <1>2, <1>3 DEF AgentTypeOK, AgentTyped, DiskTyped, LinkTyped

LEMMA AgentStaysTyped == AgentSpec => [](AgentInv /\ AgentTyped)
  <1>1. AgentInit => AgentInv /\ AgentTyped
    BY AgentStarts, AgentTypedInit
  <1>2. AgentInv /\ AgentTyped /\ [AgentNext]_allVars => AgentInv' /\ AgentTyped'
    BY AgentStep, AgentTypedStep DEF Permitted, AgentInv, Inv, ThreadInv
  <1> QED BY <1>1, <1>2, PTL DEF AgentSpec

(* Over either channel and with every fault the variables keep their       *)
(* types; above all the failures on file stay within MAX_FAILURES, though  *)
(* the watchdog writes a count it read before it restarted the server.     *)
THEOREM AgentTypeCorrect == AgentSpec => []AgentTypeOK
  <1>1. AgentInv /\ AgentTyped => AgentTypeOK
    BY TypedAgent DEF AgentInv, Inv
  <1> QED BY <1>1, AgentStaysTyped, PTL

-----------------------------------------------------------------------------
(***************************************************************************)
(* The agent over REST on a machine where nothing fails but the game       *)
(* servers, and a dashboard that waits for its answers.                    *)
(***************************************************************************)
Calm == ~UseWs /\ Faults = {} /\ \E u : UserSlots = {u}

Runs(i) == pidf[i] = "live"

(* The main loop's servers: those whose installation is still to come, and *)
(* those it may start before it lists again.                               *)
Waits(r, i) ==
    \E p \in 1 .. Len(r.todo) :
       r.todo[p].ph = "install" /\ r.todo[p].only = i /\ (p = 1 => r.pc = "next")
AtLaunch == AtOneServer \ {"kill", "rm", "purge", "stopping", "forget", "reportStopped"}
Handles(r, i) == (r.pc \in AtLaunch /\ r.inst = i) \/ \E c \in r.snap : c[1] = i

(* Nothing is on the wire, and who has which request in service.           *)
LinkIsDown == ~ws /\ sent = {} /\ jobs = <<>>
SlotsAreUsed ==
    /\ \A s \in AgentSlots \ {Main} : call[s] = Idle
    /\ call[Main].op \in {"idle", "report", "purge", "wipe", "wiped"}
    /\ \A u \in UserSlots :
          /\ call[u].op \in {"idle", "insert", "set", "finalize", "markRows", "markHost",
                             "wipe", "wiped"}
          /\ call[u].op \in {"wipe", "wiped"} => call[u].as = "dropped"
          /\ call[u].op = "wiped" => onHost \subseteq call[u].rows

(* What a power request was decided on still holds when it is written.     *)
PowerIsFresh ==
    \A u \in UserSlots :
       call[u].op = "set" /\ call[u].to # "pending_delete" =>
          /\ row[call[u].inst] \notin {"none", "queued"}
          /\ call[u].to = "starting" => row[call[u].inst] \in {"stopped"} \cup Removed

(* Which phases are still to run: a round ends with the installations, and *)
(* while one is planned nothing is deleted.                                *)
TodoFits(todo) ==
    \A p \in 1 .. Len(todo) :
       /\ todo[p].ph # "deploy"
       /\ todo[p].ph \in {"provision", "queue", "queueMore"} => p = Len(todo)
       /\ todo[p].ph = "install" =>
             /\ p = Len(todo) - 1
             /\ \A q \in 1 .. Len(todo) : todo[q].ph \notin {"delete", "remove"}
PhaseFits(r) ==
    /\ TodoFits(r.todo)
    /\ r.pc \in {"kill", "rm", "purge"} => Head(r.todo).ph = "delete"
    /\ r.pc \in {"count", "wipe", "unregister", "exit"} => Head(r.todo).ph = "remove"
    /\ r.pc \in {"stopping", "forget", "reportStopped"} => Head(r.todo).ph = "stops"
    /\ r.snap # {} => r.pc # "next" /\ Head(r.todo).ph = "watch"

(* A server that waits for its installation has no process, and neither    *)
(* the thread nor a request in service is about to change it.              *)
MayWait(i) ==
    /\ row[i] = "dropped" \/ (i \in onHost /\ row[i] \in {"queued", "pending_delete"})
    /\ ~Runs(i)
    /\ call[Main].op = "report" => call[Main].inst # i
    /\ \A u \in UserSlots :
          call[u].op = "set" /\ call[u].to # "pending_delete" => call[u].inst # i
WaitsFit(r) ==
    \A i \in Instances : Waits(r, i) =>
       MayWait(i) /\ ~Handles(r, i) /\ ~(r.pc \in AtOneServer /\ r.inst = i)

(* A server in the thread's hands is neither stopped nor gone.             *)
MayHandle(r, i) ==
    /\ row[i] = "dropped" \/ i \in onHost
    /\ row[i] # "stopped"
    /\ row[i] = "queued" =>
          \/ r.pc = "installing"
          \/ r.pc = "steamcmd" /\ call[Main] = [op |-> "report", inst |-> i, to |-> "installing"]
HandsFit(r) == \A i \in Instances : Handles(r, i) => MayHandle(r, i)

(* What the thread's place says of the disk.                               *)
BeforeSpawn == {"starting", "installing", "steamcmd", "restart", "restartAgain", "announce",
                "launch", "spawn"}
DiskFits(r) ==
    /\ r.pc \in BeforeSpawn \cup {"rm", "purge", "forget", "reportStopped"} => ~Runs(r.inst)
    /\ r.pc = "purge" => r.inst \notin files
    /\ r.pc = "wipe" => \A i \in Instances : Runs(i) => row[i] = "dropped"
    /\ r.pc = "reportFailed" /\ Runs(r.inst) => r.inst \notin onHost \/ row[r.inst] # "starting"

(* What its request in service says.                                       *)
CallFits(r) ==
    /\ call[Main].op = "report" =>
          /\ row[call[Main].inst] # "stopped"
          /\ call[Main].to = "stopped" => r.pc = "next" /\ ~Runs(call[Main].inst)
    /\ call[Main].op = "purge" =>
          /\ r.pc = "next" /\ ~Runs(call[Main].inst) /\ call[Main].inst \notin files
          /\ \A p \in 1 .. Len(r.todo) : r.todo[p].ph # "install"
    /\ call[Main].op \in {"wipe", "wiped"} =>
          /\ r.pc = "exit"
          /\ \A i \in onHost : ~Runs(i) /\ i \notin files

(* A starting server with a process is the one that was just launched.     *)
LaunchFits(r) ==
    \A i \in onHost :
       row[i] = "starting" /\ Runs(i) =>
          \/ r.pc \in {"spawned", "started"} /\ r.inst = i /\ call[Main] = Idle
          \/ call[Main] = [op |-> "report", inst |-> i, to |-> "running"]

MainFits(r) ==
    PhaseFits(r) /\ WaitsFit(r) /\ HandsFit(r) /\ DiskFits(r) /\ CallFits(r) /\ LaunchFits(r)

(* What the rows say of the disk.                                          *)
RowsFit ==
    \A i \in Instances :
       /\ row[i] \in {"none", "gone"} => ~Runs(i) /\ i \notin files
       /\ row[i] \in {"queued", "stopped"} => ~Runs(i)
       /\ Exists(i) /\ i \notin onHost => ~Runs(i)
       /\ i \in stray => row[i] = "dropped"

CalmInv ==
    /\ AgentInv /\ AgentTyped
    /\ LinkIsDown /\ SlotsAreUsed /\ PowerIsFresh /\ RowsFit /\ MainFits(th[Main])

-----------------------------------------------------------------------------
LEMMA CalmThread ==
    ASSUME Calm
    PROVE  /\ Threads = {Main} /\ Main \in AgentSlots /\ Main \in Slots /\ Main \notin UserSlots
           /\ ~HttpFails
  BY ThreadsAreSlots, SlotsAreDistinct DEF Calm, Threads, Slots, HttpFails

LEMMA NothingMore == ASSUME NEW todo \in Todos PROVE todo \o <<>> = todo
  BY DEF Todos

LEMMA LastPhase ==
    ASSUME NEW todo \in Seq(Phases), todo # <<>>, Len(todo) = 1
    PROVE  Tail(todo) = <<>>
  <1>1. Tail(todo) \in Seq(Phases) /\ Len(Tail(todo)) = 0
    OBVIOUS
  <1>2. ASSUME NEW more \in Seq(Phases), more # <<>> PROVE Len(more) # 0
    BY <1>2
  <1> QED BY <1>1, <1>2

LEMMA TailFits ==
    ASSUME NEW todo \in Todos, todo # <<>>, TodoFits(todo)
    PROVE  /\ TodoFits(Tail(todo))
           /\ \A p \in 1 .. Len(Tail(todo)) : p + 1 \in 2 .. Len(todo) /\ Tail(todo)[p] = todo[p + 1]
  <1> DEFINE rest == Tail(todo)
  <1>1. todo \in Seq(Phases)
    BY DEF Todos
  <1>2. /\ Len(rest) = Len(todo) - 1 /\ Len(todo) \in Nat
        /\ \A p \in 1 .. Len(rest) : rest[p] = todo[p + 1] /\ p + 1 \in 2 .. Len(todo)
    BY <1>1
  <1> HIDE DEF rest
  <1>3. TodoFits(rest)
    BY <1>2 DEF TodoFits
  <1> QED BY <1>2, <1>3 DEF rest

LEMMA PowerFits ==
    ASSUME NEW todo \in Todos, todo # <<>>, TodoFits(todo),
           NEW new, new = <<Do("stops", All), Do("starts", All)>> \o Tail(todo)
    PROVE  /\ TodoFits(new)
           /\ \A p \in 1 .. Len(new) : new[p].ph = "install" =>
                 p - 1 \in 2 .. Len(todo) /\ new[p] = todo[p - 1]
  <1> DEFINE rest == Tail(todo)
  <1>1. todo \in Seq(Phases) /\ rest \in Seq(Phases)
    BY DEF Todos
  <1>2. TodoFits(rest) /\ Len(todo) \in Nat /\ Len(rest) \in Nat /\ Len(rest) = Len(todo) - 1
    BY <1>1, TailFits
  <1>3. \A p \in 1 .. Len(rest) : p + 1 \in 2 .. Len(todo) /\ rest[p] = todo[p + 1]
    BY TailFits
  <1>4. Len(new) = Len(rest) + 2
    BY <1>1 DEF Do
  <1>5. /\ new[1] = Do("stops", All) /\ new[2] = Do("starts", All)
        /\ \A p \in 3 .. Len(new) : new[p] = rest[p - 2]
    BY <1>1 DEF Do
  <1> HIDE DEF rest
  <1>6. ASSUME NEW p \in 1 .. Len(new)
        PROVE  \/ new[p].ph \in {"stops", "starts"}
               \/ p \in 3 .. Len(new) /\ p - 2 \in 1 .. Len(rest) /\ new[p] = rest[p - 2]
    BY <1>2, <1>4, <1>5 DEF Do
  <1>7. ASSUME NEW p \in 1 .. Len(new), new[p].ph = "install"
        PROVE  p - 1 \in 2 .. Len(todo) /\ new[p] = todo[p - 1]
    <2>1. p - 2 \in 1 .. Len(rest) /\ new[p] = rest[p - 2]
      BY <1>6, <1>7
    <2>2. (p - 2) + 1 \in 2 .. Len(todo) /\ rest[p - 2] = todo[(p - 2) + 1]
      BY <1>3, <2>1
    <2>3. p \in Nat /\ (p - 2) + 1 = p - 1
      BY <1>2, <1>4
    <2> QED BY <2>1, <2>2, <2>3
  <1>8. ASSUME NEW p \in 1 .. Len(new), NEW q \in 1 .. Len(new)
        PROVE  /\ new[p].ph # "deploy"
               /\ new[p].ph \in {"provision", "queue", "queueMore"} => p = Len(new)
               /\ new[p].ph = "install" =>
                     p = Len(new) - 1 /\ new[q].ph \notin {"delete", "remove"}
    <2>1. CASE new[p].ph \in {"stops", "starts"}
      BY <2>1
    <2>2. CASE p - 2 \in 1 .. Len(rest) /\ new[p] = rest[p - 2]
      <3>1. /\ rest[p - 2].ph # "deploy"
            /\ rest[p - 2].ph \in {"provision", "queue", "queueMore"} => p - 2 = Len(rest)
            /\ rest[p - 2].ph = "install" =>
                  /\ p - 2 = Len(rest) - 1
                  /\ \A k \in 1 .. Len(rest) : rest[k].ph \notin {"delete", "remove"}
        BY <1>2, <2>2 DEF TodoFits
      <3>2. \/ new[q].ph \in {"stops", "starts"}
            \/ q - 2 \in 1 .. Len(rest) /\ new[q] = rest[q - 2]
        BY <1>6
      <3>3. Len(rest) \in Nat /\ p \in Nat
        BY <1>2
      <3>4. /\ p - 2 = Len(rest) => p = Len(new)
            /\ p - 2 = Len(rest) - 1 => p = Len(new) - 1
        BY <1>4, <3>3
      <3>5. new[p].ph # "deploy" /\ (new[p].ph \in {"provision", "queue", "queueMore"} => p = Len(new))
        BY <2>2, <3>1, <3>4
      <3>6. ASSUME new[p].ph = "install"
            PROVE  p = Len(new) - 1 /\ new[q].ph \notin {"delete", "remove"}
        <4>1. p = Len(new) - 1 /\ \A k \in 1 .. Len(rest) : rest[k].ph \notin {"delete", "remove"}
          BY <2>2, <3>1, <3>4, <3>6
        <4> QED BY <3>2, <4>1
      <3> QED BY <3>5, <3>6
    <2> QED BY <1>6, <2>1, <2>2
  <1>9. TodoFits(new)
    BY <1>8 DEF TodoFits
  <1> QED BY <1>7, <1>9

(* The rounds and what a queue run puts in front of itself.                *)
LEMMA RoundsFit ==
    ASSUME NEW i
    PROVE  /\ TodoFits(MainCycle) /\ \A p \in 1 .. Len(MainCycle) : MainCycle[p].ph # "install"
           /\ TodoFits(<<>>)
           /\ TodoFits(<<Do("queue", All)>>)
           /\ TodoFits(<<Do("install", i), Do("queueMore", All)>>)
           /\ TodoFits(<<Do("power", All), Do("watch", All), Do("install", i),
                          Do("queueMore", All)>>)
  BY DEF TodoFits, MainCycle, Do

-----------------------------------------------------------------------------
(* The steps of the main loop: they decide at most one request.            *)
MainActs ==
    /\ call[Main] = Idle /\ UNCHANGED <<row, onHost, link>>
    /\ \A s \in Slots \ {Main} : call'[s] = call[s]
Unasked == call'[Main] = Idle

LEMMA MainKeeps ==
    ASSUME Calm, CalmInv, MainActs,
           call'[Main].op \in {"idle", "report", "purge", "wipe", "wiped"}
    PROVE  LinkIsDown' /\ SlotsAreUsed' /\ PowerIsFresh'
  <1> USE CalmThread DEF MainActs, CalmInv, link
  <1>1. LinkIsDown'
    BY DEF LinkIsDown
  <1>2. ASSUME NEW s \in Slots, s # Main PROVE call'[s] = call[s]
    BY <1>2
  <1>3. SlotsAreUsed'
    BY <1>2 DEF SlotsAreUsed, Slots
  <1>4. PowerIsFresh'
    BY <1>2 DEF PowerIsFresh, Slots
  <1> QED BY <1>1, <1>3, <1>4

(* A report over REST is decided on, or refused or not answered.           *)
LEMMA PostAsks ==
    ASSUME Calm, CalmInv, NEW next \in Reportable, At(Main, th[Main].pc), Posts(Main, next)
    PROVE  /\ MainActs /\ NoLoss
           /\ call'[Main] = [op |-> "report", inst |-> th[Main].inst, to |-> next]
           /\ th[Main].inst \in onHost /\ <<row[th[Main].inst], next>> \in ReportTransitions
  BY CalmThread DEF CalmInv, AgentInv, Inv, TypeOK, LinkIsDown, Posts, Report, Accepts, Decide,
     At, Inst, MainActs, link

LEMMA PostRefused ==
    ASSUME Calm, CalmInv, NEW next, At(Main, th[Main].pc), PostThrows(Main, next)
    PROVE  /\ MainActs /\ Unasked
           /\ th[Main].inst \in onHost =>
                 <<row[th[Main].inst], next>> \notin ReportTransitions
  BY CalmThread DEF CalmInv, AgentInv, Inv, TypeOK, RowsAreOwned, LinkIsDown, PostThrows,
     Accepts, At, Inst, MainActs, Unasked, vars

-----------------------------------------------------------------------------
Reports(to) ==
    /\ call'[Main] = [op |-> "report", inst |-> th[Main].inst, to |-> to]
    /\ th[Main].pc \in AtOneServer /\ row[th[Main].inst] # "stopped"

Purges ==
    LET i == th[Main].inst IN
    /\ call'[Main] = [op |-> "purge", inst |-> i]
    /\ ~Runs(i) /\ i \notin files /\ UNCHANGED files
    /\ Head(th[Main].todo).ph = "delete"

Wipes == onHost = {} /\ call'[Main] = [op |-> "wipe", as |-> "gone"]

LEMMA Asked ==
    ASSUME MainActs, Unasked \/ Purges \/ Wipes \/ \E to : Reports(to)
    PROVE  /\ call[Main].op = "idle"
           /\ Unasked => call'[Main].op = "idle"
           /\ \A to : Reports(to) =>
                 /\ call'[Main].op = "report" /\ call'[Main].inst = th[Main].inst
                 /\ call'[Main].to = to
           /\ Purges => call'[Main].op = "purge" /\ call'[Main].inst = th[Main].inst
           /\ Wipes => call'[Main].op = "wipe"
           /\ call'[Main].op \in {"idle", "report", "purge", "wipe"}
  <1>1. call[Main].op = "idle" /\ (Unasked => call'[Main].op = "idle")
    BY DEF MainActs, Unasked, Idle
  <1>2. ASSUME NEW to, Reports(to)
        PROVE  /\ call'[Main].op = "report" /\ call'[Main].inst = th[Main].inst
               /\ call'[Main].to = to
    BY <1>2 DEF Reports
  <1>3. Purges => call'[Main].op = "purge" /\ call'[Main].inst = th[Main].inst
    BY DEF Purges
  <1>4. Wipes => call'[Main].op = "wipe"
    BY DEF Wipes
  <1> QED BY <1>1, <1>2, <1>3, <1>4

(* A phase ends, with a report or without: what is still to do was so      *)
(* before.                                                                 *)
LEMMA EndsFit ==
    ASSUME Calm, CalmInv, MainActs, UNCHANGED <<pidf, stray>>,
           th'[Main].pc = "next", th'[Main].snap = {}, TodoFits(th'[Main].todo),
           \A i \in Instances : Waits(th'[Main], i) =>
              Waits(th[Main], i) \/ (Unasked /\ i \in onHost /\ row[i] = "queued"),
           Purges =>
              \A p \in 1 .. Len(th'[Main].todo) :
                 \E q \in 1 .. Len(th[Main].todo) : th'[Main].todo[p] = th[Main].todo[q],
           \/ Unasked
           \/ Purges /\ th[Main].todo # <<>>
           \/ \E to : Reports(to) /\ (to = "stopped" => ~Runs(th[Main].inst)),
           LET i == th[Main].inst IN
              th[Main].pc \in {"spawned", "started"} /\ i \in onHost /\ row[i] = "starting" =>
                 Reports("running")
    PROVE  MainFits(th[Main])'
  <1> DEFINE r == th[Main]
  <1> USE CalmThread DEF MainActs, CalmInv, MainFits
  <1>0. r.pc \in AtOneServer => r.inst \in Instances
    BY DEF AgentTyped, ThreadsTyped, PlaceFits
  <1>1. PhaseFits(th[Main])'
    BY DEF PhaseFits
  <1>2. WaitsFit(th[Main])'
    <2>1. ASSUME NEW i \in Instances, Waits(th'[Main], i) PROVE MayWait(i)'
      <3>1. /\ MayWait(i)
            /\ ~(r.pc \in AtOneServer /\ r.inst = i) \/ Unasked
        BY <2>1, Asked DEF WaitsFit, MayWait, RowsFit, PowerIsFresh
      <3>2. call'[Main].op = "report" => call'[Main].inst # i
        BY <3>1, Asked DEF Reports
      <3>3. \A u \in UserSlots : call'[u] = call[u]
        BY DEF Slots
      <3> QED BY <3>1, <3>2, <3>3 DEF MayWait, Runs
    <2> QED BY <2>1 DEF WaitsFit, Handles, AtOneServer, AtLaunch, Restarting, Waits
  <1>3. HandsFit(th[Main])'
    BY DEF HandsFit, Handles, AtOneServer, AtLaunch, Restarting
  <1>4. DiskFits(th[Main])'
    BY DEF DiskFits, BeforeSpawn
  <1>5. CallFits(th[Main])'
    <2>1. CASE Purges /\ r.todo # <<>>
      <3>1. \A p \in 1 .. Len(r.todo) : r.todo[p].ph # "install"
        <4>1. r.todo \in Seq(Phases)
          BY DEF AgentTyped, ThreadsTyped, ThreadRecords, Todos
        <4>2. 1 \in 1 .. Len(r.todo) /\ r.todo[1].ph = "delete"
          BY <2>1, <4>1 DEF Purges
        <4> QED BY <4>2 DEF PhaseFits, TodoFits
      <3>2. \A p \in 1 .. Len(th'[Main].todo) : th'[Main].todo[p].ph # "install"
        BY <2>1, <3>1
      <3> QED BY <2>1, <3>2, Asked DEF CallFits, Purges, Runs
    <2>2. CASE Unasked \/ \E to : Reports(to) /\ (to = "stopped" => ~Runs(th[Main].inst))
      BY <2>2, Asked DEF CallFits, Reports, Runs
    <2> QED BY <2>1, <2>2
  <1>6. LaunchFits(th[Main])'
    <2>1. ASSUME NEW i \in onHost, row[i] = "starting", Runs(i)
          PROVE  call'[Main] = [op |-> "report", inst |-> i, to |-> "running"]
      BY <2>1 DEF LaunchFits, Reports, Idle
    <2> QED BY <2>1 DEF LaunchFits, Runs
  <1> QED BY <1>1, <1>2, <1>3, <1>4, <1>5, <1>6

(* The thread goes on in its phase.                                        *)
DiskHolds ==
    \A i \in Instances :
       Runs(i)' =>
          \/ Runs(i)
          \/ th[Main].pc = "spawn" /\ th'[Main].pc = "spawned" /\ i = th[Main].inst

LEMMA GoesFit ==
    ASSUME Calm, CalmInv, MainActs, DiskHolds, NEW pc, pc # "next",
           Goto(Main, pc),
           pc \in AtLaunch => th[Main].pc \in AtLaunch,
           pc \in AtOneServer => th[Main].pc \in AtOneServer,
           PhaseFits([th[Main] EXCEPT !.pc = pc]),
           DiskFits(th[Main])',
           Unasked \/ (pc = "exit" /\ Wipes) \/ \E to \in Reportable \ {"stopped"} : Reports(to),
           LET i == th[Main].inst IN
              /\ th[Main].pc \in AtLaunch /\ pc \in AtLaunch /\ row[i] = "queued" =>
                    \/ pc = "installing"
                    \/ pc = "steamcmd" /\ Reports("installing")
              /\ th[Main].pc \in {"spawned", "started"} /\ i \in onHost /\ row[i] = "starting" =>
                    pc = "started" /\ Unasked
              /\ pc = "spawned" => Unasked
    PROVE  MainFits(th[Main])'
  <1> DEFINE r == th[Main]
  <1> USE CalmThread DEF MainActs, CalmInv, MainFits
  <1>0. /\ th'[Main] = [r EXCEPT !.pc = pc] /\ r \in ThreadRecords
        /\ r.pc \in AtOneServer => r.inst \in Instances
    BY DEF AgentTyped, ThreadsTyped, PlaceFits, Goto
  <1>00. th'[Main].pc = pc /\ th'[Main].inst = r.inst /\ th'[Main].todo = r.todo
         /\ th'[Main].snap = r.snap
    BY <1>0 DEF ThreadRecords
  <1>1. PhaseFits(th[Main])'
    BY <1>0 DEF PhaseFits, TodoFits
  <1>9. ASSUME NEW i \in Instances, Handles(th'[Main], i) PROVE Handles(r, i)
    BY <1>9, <1>00 DEF Handles
  <1>2. WaitsFit(th[Main])'
    <2>1. ASSUME NEW i \in Instances, Waits(th'[Main], i)
          PROVE  MayWait(i)' /\ ~Handles(th'[Main], i) /\ ~(pc \in AtOneServer /\ r.inst = i)
      <3>1. MayWait(i) /\ ~(r.pc \in AtOneServer /\ r.inst = i) /\ ~Handles(r, i)
        <4>1. Waits(r, i)
          BY <2>1, <1>00 DEF Waits
        <4> QED BY <4>1 DEF WaitsFit
      <3>2. call'[Main].op = "report" => call'[Main].inst # i
        BY <3>1, Asked DEF Reports
      <3>3. \A u \in UserSlots : call'[u] = call[u]
        BY DEF Slots
      <3>4. ~Runs(i)'
        BY <3>1 DEF MayWait, DiskHolds, AtOneServer, Restarting
      <3> QED BY <1>9, <3>1, <3>2, <3>3, <3>4 DEF MayWait
    <2> QED BY <2>1, <1>00 DEF WaitsFit
  <1>3. HandsFit(th[Main])'
    <2>1. ASSUME NEW i \in Instances, Handles(th'[Main], i) PROVE MayHandle(th[Main], i)'
      <3>1. MayHandle(r, i)
        BY <1>9, <2>1 DEF HandsFit
      <3>2. ASSUME row[i] = "queued"
            PROVE  \/ pc = "installing"
                   \/ pc = "steamcmd" /\ call'[Main] = [op |-> "report", inst |-> i, to |-> "installing"]
        <4>1. r.pc \in {"installing", "steamcmd"}
          BY <3>1, <3>2 DEF MayHandle
        <4>2. r.snap = {}
          BY <4>1 DEF PhaseFits, AgentTyped, ThreadsTyped, PlaceFits
        <4>3. pc \in AtLaunch /\ r.inst = i /\ r.pc \in AtLaunch
          BY <2>1, <1>00, <4>2 DEF Handles
        <4> QED BY <3>2, <4>3 DEF Reports
      <3> QED BY <3>1, <3>2, <1>00 DEF MayHandle
    <2> QED BY <2>1 DEF HandsFit
  <1>5. CallFits(th[Main])'
    <2>1. CASE pc = "exit" /\ Wipes
      BY <1>00, <2>1, Asked DEF CallFits, Wipes
    <2>2. CASE Unasked \/ \E to \in Reportable \ {"stopped"} : Reports(to)
      BY <2>2, Asked DEF CallFits, Reports
    <2> QED BY <2>1, <2>2
  <1>6. LaunchFits(th[Main])'
    <2>1. ASSUME NEW i \in onHost, row[i] = "starting", Runs(i)'
          PROVE  pc \in {"spawned", "started"} /\ Unasked /\ r.inst = i
      BY <2>1, <1>00, Asked DEF LaunchFits, DiskHolds, AgentInv, Inv, TypeOK
    <2> QED BY <2>1, <1>00 DEF LaunchFits, Unasked
  <1> QED BY <1>1, <1>2, <1>3, <1>5, <1>6

-----------------------------------------------------------------------------
CalmRest == LinkIsDown /\ SlotsAreUsed /\ PowerIsFresh /\ RowsFit /\ MainFits(th[Main])

LEMMA DiskSame ==
    ASSUME CalmInv, MainActs, UNCHANGED <<files, pidf, stray>>
    PROVE  RowsFit' /\ DiskHolds
  BY DEF CalmInv, MainActs, RowsFit, DiskHolds, Runs, Exists

LEMMA StepFits ==
    ASSUME Calm, CalmInv, MainActs, Unasked \/ Purges \/ Wipes \/ \E to : Reports(to),
           RowsFit', MainFits(th[Main])'
    PROVE  CalmRest'
  BY MainKeeps, Asked DEF CalmRest

LEMMA EndsKeep ==
    ASSUME Calm, CalmInv, th[Main].todo # <<>>,
           \/ EndPhase(Main) \/ AbortInstall(Main) \/ AfterItem(Main)
           \/ Current(Main).ph = "delete" /\ th' = [th EXCEPT ![Main] = Between(@.todo)]
    PROVE  /\ th'[Main].pc = "next" /\ th'[Main].snap = {} /\ TodoFits(th'[Main].todo)
           /\ \A i \in Instances : Waits(th'[Main], i) => Waits(th[Main], i)
           /\ \A p \in 1 .. Len(th'[Main].todo) :
                 \E q \in 1 .. Len(th[Main].todo) : th'[Main].todo[p] = th[Main].todo[q]
  <1> DEFINE r == th[Main]
             todo == th[Main].todo
             new == th'[Main].todo
             Fewer == /\ TodoFits(new)
                      /\ \A i \in Instances : Waits(th'[Main], i) => Waits(r, i)
                      /\ \A p \in 1 .. Len(new) : \E q \in 1 .. Len(todo) : new[p] = todo[q]
  <1> USE CalmThread
  <1>1. /\ todo \in Todos /\ TodoFits(todo) /\ th \in [Threads -> ThreadRecords]
        /\ todo # <<>> /\ todo \in Seq(Phases)
    BY DEF CalmInv, AgentTyped, ThreadsTyped, ThreadRecords, MainFits, PhaseFits, Todos
  <1>2. ASSUME NEW more, th' = [th EXCEPT ![Main] = Between(more)]
        PROVE  th'[Main].pc = "next" /\ th'[Main].snap = {} /\ new = more
    BY <1>1, <1>2 DEF Between
  <1>3. ASSUME NEW n, th' = [th EXCEPT ![Main] = [Between(todo) EXCEPT !.n = n]]
        PROVE  th'[Main].pc = "next" /\ th'[Main].snap = {} /\ new = todo
    BY <1>1, <1>3 DEF Between
  <1>4. /\ Tail(todo) \in Todos /\ TodoFits(Tail(todo)) /\ Len(todo) \in Nat
        /\ \A p \in 1 .. Len(Tail(todo)) :
              p + 1 \in 2 .. Len(todo) /\ Tail(todo)[p] = todo[p + 1]
    BY <1>1, TailFits, TailIsTodo
  <1>5. ASSUME new = todo, Head(todo).ph # "install" PROVE Fewer
    BY <1>1, <1>5 DEF Waits
  <1>6. ASSUME new = Tail(todo) PROVE Fewer
    BY <1>4, <1>6 DEF Waits
  <1>7. ASSUME new = Tail(Tail(todo)), Tail(todo) # <<>> PROVE Fewer
    <2> DEFINE rest == Tail(todo)
    <2> HIDE DEF rest
    <2>1. /\ TodoFits(Tail(rest))
          /\ \A p \in 1 .. Len(Tail(rest)) :
                p + 1 \in 2 .. Len(rest) /\ Tail(rest)[p] = rest[p + 1]
      BY <1>4, <1>7, TailFits DEF rest
    <2>2. \A p \in 1 .. Len(rest) : p + 1 \in 2 .. Len(todo) /\ rest[p] = todo[p + 1]
      BY <1>4 DEF rest
    <2>3. \A p \in 1 .. Len(Tail(rest)) :
             (p + 1) + 1 \in 2 .. Len(todo) /\ Tail(rest)[p] = todo[(p + 1) + 1]
      BY <1>4, <2>1, <2>2
    <2>4. new = Tail(rest)
      BY <1>7 DEF rest
    <2> QED BY <2>1, <2>3, <2>4, <1>4 DEF Waits
  <1>8. CASE EndPhase(Main)
    BY <1>2, <1>6, <1>8 DEF EndPhase
  <1>9. CASE AbortInstall(Main)
    BY <1>2, <1>6, <1>7, <1>9 DEF AbortInstall
  <1>10. CASE AfterItem(Main)
    BY <1>2, <1>3, <1>5, <1>6, <1>10 DEF AfterItem, EndPhase, Current
  <1>11. CASE Current(Main).ph = "delete" /\ th' = [th EXCEPT ![Main] = Between(@.todo)]
    BY <1>2, <1>5, <1>11 DEF Current
  <1> QED BY <1>8, <1>9, <1>10, <1>11

(* A step that ends its phase, or the part of it that is about one server. *)
LEMMA EndStepFits ==
    ASSUME Calm, CalmInv, MainActs, UNCHANGED <<pidf, stray>>, RowsFit', th[Main].todo # <<>>,
           \/ EndPhase(Main) \/ AbortInstall(Main) \/ AfterItem(Main)
           \/ Current(Main).ph = "delete" /\ th' = [th EXCEPT ![Main] = Between(@.todo)],
           Unasked \/ Purges \/ \E to : Reports(to) /\ (to = "stopped" => ~Runs(th[Main].inst)),
           LET i == th[Main].inst IN
              th[Main].pc \in {"spawned", "started"} /\ i \in onHost /\ row[i] = "starting" =>
                 Reports("running")
    PROVE  CalmRest'
  <1>1. MainFits(th[Main])'
    BY EndsKeep, EndsFit
  <1> QED BY <1>1, StepFits

(* A server is taken from a list, or from the head of what is to do.       *)
LEMMA TakesFit ==
    ASSUME Calm, CalmInv, MainActs, Unasked, UNCHANGED <<files, pidf, stray>>,
           th[Main].pc = "next", NEW i \in Instances,
           NEW pc \in {"kill", "stopping", "starting", "installing"}, Take(Main, pc, i),
           pc = "kill" => Current(Main).ph = "delete",
           pc = "stopping" => Current(Main).ph = "stops",
           \A j \in Instances : Waits(th'[Main], j) => j # i,
           pc \in {"starting", "installing"} =>
              /\ row[i] = "dropped" \/ i \in onHost
              /\ row[i] # "stopped" /\ (row[i] = "queued" => pc = "installing")
              /\ ~Runs(i)
    PROVE  CalmRest'
  <1> DEFINE r == th[Main]
  <1> USE CalmThread DEF MainActs, CalmInv, MainFits
  <1>0. /\ th'[Main].pc = pc /\ th'[Main].inst = i /\ th'[Main].todo = r.todo
        /\ th'[Main].snap = {} /\ r.snap = {}
    <2>1. r \in ThreadRecords /\ r.snap = {}
      BY DEF AgentTyped, ThreadsTyped, PhaseFits
    <2> DEFINE new == [r EXCEPT !.pc = pc, !.inst = i]
    <2>2. th'[Main] = new
      BY DEF Take, AgentTyped, ThreadsTyped
    <2>3. r = [pc |-> r.pc, inst |-> r.inst, todo |-> r.todo,
               n |-> r.n, snap |-> r.snap, tries |-> r.tries]
      BY <2>1 DEF ThreadRecords
    <2>0. new = [r EXCEPT !.pc = pc, !.inst = i]
      OBVIOUS
    <2> HIDE DEF r, new
    <2>4. new = [pc |-> pc, inst |-> i, todo |-> r.todo,
                 n |-> r.n, snap |-> r.snap, tries |-> r.tries]
      BY <2>0, <2>3, RecordMoves, Zenon
    <2> QED BY <2>1, <2>2, <2>4
  <1>1. PhaseFits(th[Main])'
    BY <1>0 DEF PhaseFits, TodoFits, Current
  <1>2. WaitsFit(th[Main])'
    <2>1. ASSUME NEW j \in Instances, Waits(th'[Main], j)
          PROVE  MayWait(j)' /\ j # i
      <3>1. MayWait(j)
        <4>1. Waits(r, j)
          BY <2>1, <1>0 DEF Waits
        <4> QED BY <4>1 DEF WaitsFit
      <3>3. \A u \in UserSlots : call'[u] = call[u]
        BY DEF Slots
      <3> QED BY <2>1, <3>1, <3>3, Asked DEF MayWait, Runs
    <2> QED BY <2>1, <1>0 DEF WaitsFit, Handles
  <1>3. HandsFit(th[Main])'
    BY <1>0 DEF HandsFit, Handles, MayHandle, AtLaunch
  <1>4. DiskFits(th[Main])'
    BY <1>0 DEF DiskFits, BeforeSpawn, Runs
  <1>5. CallFits(th[Main])'
    BY Asked DEF CallFits
  <1>6. LaunchFits(th[Main])'
    BY Asked DEF LaunchFits, Runs
  <1> QED BY <1>1, <1>2, <1>3, <1>4, <1>5, <1>6, StepFits, DiskSame

LEMMA WatchSets ==
    ASSUME ThreadsTyped, NEW t \in Threads, NEW pc, NEW i, NEW n, NEW seen,
           Watch(t, pc, i, n, seen)
    PROVE  /\ th'[t].pc = pc /\ th'[t].inst = i /\ th'[t].todo = th[t].todo
           /\ th'[t].snap = seen
  <1> DEFINE r == th[t]
             new == [th[t] EXCEPT !.pc = pc, !.inst = i, !.tries = n, !.snap = seen]
  <1>1. th' = [th EXCEPT ![t] = new]
    BY DEF Watch
  <1>2. r = [pc |-> r.pc, inst |-> r.inst, todo |-> r.todo,
             n |-> r.n, snap |-> r.snap, tries |-> r.tries]
    BY DEF ThreadsTyped, ThreadRecords
  <1>3. new = [pc |-> pc, inst |-> i, todo |-> r.todo, n |-> r.n, snap |-> seen, tries |-> n]
    <2>1. new = [r EXCEPT !.pc = pc, !.inst = i, !.tries = n, !.snap = seen]
      OBVIOUS
    <2> HIDE DEF r, new
    <2> QED BY <1>2, <2>1, RecordMoves, Zenon
  <1> HIDE DEF new
  <1> QED BY <1>1, <1>3 DEF ThreadsTyped

(* The watchdog goes through its list.                                     *)
LEMMA WatchFits ==
    ASSUME Calm, CalmInv, MainActs, UNCHANGED <<files, pidf, stray>>,
           Unasked \/ Reports("running"),
           th[Main].pc \in {"list", "watch", "clear", "healthy"},
           th'[Main].todo = th[Main].todo,
           th'[Main].pc \in {"watch", "clear", "healthy", "reportFailed", "restart", "restartAgain"},
           \A c \in th'[Main].snap :
              \/ c \in th[Main].snap
              \/ c[1] \in onHost /\ row[c[1]] \in {"running", "recovering"},
           th'[Main].pc # "watch" => Handles(th[Main], th'[Main].inst),
           th'[Main].pc \in {"reportFailed", "restart", "restartAgain"} =>
              ~Runs(th'[Main].inst)
    PROVE  CalmRest'
  <1> DEFINE r == th[Main]
  <1> USE CalmThread DEF MainActs, CalmInv, MainFits
  <1>0. Head(r.todo).ph = "watch"
    BY DEF AgentTyped, ThreadsTyped, PlaceFits
  <1>1. PhaseFits(th[Main])'
    BY <1>0 DEF PhaseFits, TodoFits
  <1>9. ASSUME NEW j \in Instances, Handles(th'[Main], j)
        PROVE  Handles(r, j) \/ (j \in onHost /\ row[j] \in {"running", "recovering"})
    BY <1>9 DEF Handles, AtLaunch, AtOneServer, Restarting
  <1>2. WaitsFit(th[Main])'
    <2>1. ASSUME NEW j \in Instances, Waits(th'[Main], j)
          PROVE  MayWait(j)' /\ ~Handles(th'[Main], j)
      <3>1. MayWait(j) /\ ~(r.pc \in AtOneServer /\ r.inst = j) /\ ~Handles(r, j)
        <4>1. Waits(r, j)
          BY <2>1 DEF Waits
        <4> QED BY <4>1 DEF WaitsFit
      <3>2. call'[Main].op = "report" => call'[Main].inst # j
        BY <3>1, Asked DEF Reports
      <3>3. \A u \in UserSlots : call'[u] = call[u]
        BY DEF Slots
      <3>4. ~Handles(th'[Main], j)
        BY <1>9, <3>1 DEF MayWait
      <3> QED BY <3>1, <3>2, <3>3, <3>4 DEF MayWait, Runs
    <2>2. th'[Main].pc \in AtOneServer => Handles(th'[Main], th'[Main].inst)
      BY DEF Handles, AtLaunch, AtOneServer, Restarting
    <2> QED BY <2>1, <2>2 DEF WaitsFit
  <1>3. HandsFit(th[Main])'
    BY <1>9 DEF HandsFit, MayHandle
  <1>4. DiskFits(th[Main])'
    BY DEF DiskFits, BeforeSpawn, Runs
  <1>5. CallFits(th[Main])'
    BY Asked DEF CallFits, Reports
  <1>6. LaunchFits(th[Main])'
    BY Asked DEF LaunchFits, Runs
  <1> QED BY <1>1, <1>2, <1>3, <1>4, <1>5, <1>6, StepFits, DiskSame

-----------------------------------------------------------------------------
(* Most steps leave the records and the disk alone.                        *)
LEMMA MainRests ==
    ASSUME Calm, NEW pc, At(Main, pc), UNCHANGED <<vars, disk, link>>
    PROVE  MainActs /\ Unasked /\ UNCHANGED <<files, pidf, stray>> /\ th[Main].pc = pc
  BY DEF MainActs, Unasked, At, vars, disk, link

LEMMA MainPlace ==
    ASSUME Calm, CalmInv
    PROVE  /\ th[Main] \in ThreadRecords /\ th \in [Threads -> ThreadRecords] /\ Main \in Threads
           /\ th[Main].pc # "next" => th[Main].todo # <<>>
           /\ th[Main].pc \in AtOneServer => th[Main].inst \in Instances
           /\ onHost \subseteq Instances /\ ThreadsAreRecords
           /\ TodoFits(th[Main].todo) /\ MainFits(th[Main])
           /\ \A p \in 1 .. Len(th[Main].todo) : th[Main].todo[p] \in Phases
           /\ th[Main].todo # <<>> => 1 \in 1 .. Len(th[Main].todo) /\ Current(Main) = th[Main].todo[1]
  <1> USE CalmThread DEF CalmInv
  <1>1. th \in [Threads -> ThreadRecords] /\ th[Main] \in ThreadRecords /\ PlaceFits(th[Main])
    BY DEF AgentTyped, ThreadsTyped
  <1>2. onHost \subseteq Instances /\ ThreadsAreRecords /\ MainFits(th[Main]) /\ TodoFits(th[Main].todo)
    BY DEF AgentInv, Inv, TypeOK, ThreadInv, MainFits, PhaseFits
  <1>3. th[Main].todo \in Seq(Phases)
    BY <1>1 DEF ThreadRecords, Todos
  <1>4. /\ \A p \in 1 .. Len(th[Main].todo) : th[Main].todo[p] \in Phases
        /\ th[Main].todo # <<>> => 1 \in 1 .. Len(th[Main].todo) /\ Current(Main) = th[Main].todo[1]
    BY <1>3 DEF Current
  <1> QED BY <1>1, <1>2, <1>4 DEF PlaceFits

LEMMA DeletesFit ==
    ASSUME Calm, CalmInv, Deletes(Main)
    PROVE  CalmRest'
  <1> USE MainPlace, CalmThread
  <1>1. CASE FetchDelete(Main)
    <2>1. MainActs /\ Unasked /\ UNCHANGED <<files, pidf, stray>> /\ th[Main].pc = "next"
      BY <1>1, MainRests DEF FetchDelete, In
    <2>2. th[Main].todo # <<>> /\ Current(Main).ph = "delete"
      BY <1>1 DEF FetchDelete, In, Current
    <2>3. CASE EndPhase(Main)
      BY <2>1, <2>2, <2>3, EndStepFits, DiskSame
    <2>4. ASSUME NEW i \in Listed(Main, "pending_delete"), Take(Main, "kill", i) PROVE CalmRest'
      <3>1. i \in Instances
        BY DEF Listed
      <3>2. \A j \in Instances : ~Waits(th'[Main], j)
        BY <2>2, <2>4, TakeMoves DEF TodoFits, Waits
      <3> QED BY <2>1, <2>2, <2>4, <3>1, <3>2, TakesFit
    <2> QED BY <1>1, <2>3, <2>4 DEF FetchDelete
  <1>2. ASSUME NEW pc \in {"rm", "purge"}, th[Main].pc \in {"kill", "rm"}, Goto(Main, pc),
               MainActs, Unasked, RowsFit', DiskHolds, pidf'[th[Main].inst] # "live",
               pc = "purge" => th[Main].inst \notin files'
        PROVE  CalmRest'
    <2>1. /\ th'[Main].pc = pc /\ th'[Main].inst = th[Main].inst
      BY <1>2, GotoMoves
    <2>2. DiskFits(th[Main])'
      BY <1>2, <2>1 DEF DiskFits, BeforeSpawn, Runs
    <2>3. PhaseFits([th[Main] EXCEPT !.pc = pc])
      BY <1>2 DEF PhaseFits, MainFits, ThreadRecords
    <2>4. MainFits(th[Main])'
      BY <1>2, <2>2, <2>3, GoesFit DEF AtLaunch, AtOneServer
    <2> QED BY <1>2, <2>4, StepFits
  <1>3. CASE Kill(Main)
    <2>1. MainActs /\ Unasked /\ th[Main].pc = "kill" /\ th[Main].inst \in Instances
      BY <1>3 DEF Kill, MainActs, Unasked, vars, At, AtOneServer
    <2>2. /\ \A i \in Instances : Runs(i)' => Runs(i)
          /\ pidf'[th[Main].inst] # "live"
      BY <1>3, <2>1 DEF Kill, Signal, Runs, CalmInv, AgentTyped, DiskTyped, Inst
    <2>3. RowsFit' /\ DiskHolds
      BY <1>3, <2>2 DEF Kill, vars, RowsFit, DiskHolds, Exists, CalmInv
    <2> QED BY <1>2, <1>3, <2>1, <2>2, <2>3 DEF Kill
  <1>4. CASE RemoveFiles(Main)
    <2>1. MainActs /\ Unasked /\ th[Main].pc = "rm" /\ th[Main].inst \in Instances
      BY <1>4 DEF RemoveFiles, MainActs, Unasked, vars, At, AtOneServer
    <2>2. /\ \A i \in Instances : Runs(i)' => Runs(i)
          /\ pidf'[th[Main].inst] # "live" /\ th[Main].inst \notin files'
          /\ files' \subseteq files /\ stray' = stray
      BY <1>4, <2>1 DEF RemoveFiles, Names, Runs, CalmInv, AgentTyped, DiskTyped, Inst, MainFits, DiskFits
    <2>3. RowsFit' /\ DiskHolds
      BY <1>4, <2>2 DEF RemoveFiles, vars, RowsFit, DiskHolds, Exists, CalmInv
    <2> QED BY <1>2, <1>4, <2>1, <2>2, <2>3 DEF RemoveFiles
  <1>5. CASE ReportPurge(Main)
    <2>1. /\ th[Main].pc = "purge" /\ th[Main].todo # <<>> /\ Current(Main).ph = "delete"
          /\ ~Runs(th[Main].inst) /\ th[Main].inst \notin files
          /\ UNCHANGED <<files, pidf, stray, ws, sent, jobs>>
      BY <1>5 DEF ReportPurge, At, MainFits, PhaseFits, DiskFits, Current, disk, link
    <2>2. MainActs /\ (Unasked \/ Purges)
      BY <1>5, <2>1 DEF ReportPurge, At, MainActs, Unasked, Purges, PurgeComplete, Decide, vars,
         link, Inst, Current, CalmInv, AgentInv, Inv, TypeOK
    <2>3. \/ EndPhase(Main)
          \/ Current(Main).ph = "delete" /\ th' = [th EXCEPT ![Main] = Between(@.todo)]
      BY <1>5, <2>1 DEF ReportPurge
    <2> QED BY <2>1, <2>2, <2>3, EndStepFits, DiskSame
  <1> QED BY <1>1, <1>3, <1>4, <1>5 DEF Deletes

LEMMA HostRemovalFits ==
    ASSUME Calm, CalmInv, RemovesHost(Main)
    PROVE  CalmRest'
  <1> USE MainPlace, CalmThread
  <1>1. ASSUME NEW pc \in {"count", "wipe", "unregister", "exit"}, Goto(Main, pc),
               th[Main].pc = "next" => In(Main, "remove"),
               th[Main].pc # "next" => th[Main].pc \in {"count", "wipe", "unregister"},
               MainActs, Unasked \/ (pc = "exit" /\ Wipes), RowsFit', DiskHolds,
               pc = "wipe" => onHost = {} /\ UNCHANGED <<pidf>>
        PROVE  CalmRest'
    <2>1. th'[Main].pc = pc
      BY <1>1, GotoMoves
    <2>2. DiskFits(th[Main])'
      <3>1. ASSUME pc = "wipe", NEW i \in Instances, Runs(i)' PROVE row'[i] = "dropped"
        BY <1>1, <3>1 DEF CalmInv, AgentInv, Inv, TypeOK, RowStates, Removed, RowsFit, Exists, Runs,
           MainActs
      <3> QED BY <1>1, <2>1, <3>1 DEF DiskFits, BeforeSpawn
    <2>3. PhaseFits([th[Main] EXCEPT !.pc = pc])
      BY <1>1 DEF PhaseFits, MainFits, ThreadRecords, In
    <2>4. MainFits(th[Main])'
      BY <1>1, <2>2, <2>3, GoesFit DEF AtLaunch, AtOneServer, Restarting
    <2> QED BY <1>1, <2>4, StepFits
  <1>2. ASSUME EndPhase(Main), MainActs, Unasked, UNCHANGED <<files, pidf, stray>>,
               th[Main].pc \notin {"spawned", "started"}, th[Main].todo # <<>>
        PROVE  CalmRest'
    BY <1>2, EndStepFits, DiskSame
  <1>3. CASE CheckRemoval(Main)
    <2>1. MainActs /\ Unasked /\ UNCHANGED <<files, pidf, stray>> /\ th[Main].pc = "next"
          /\ th[Main].todo # <<>>
      BY <1>3, MainRests DEF CheckRemoval, In
    <2> QED BY <1>1, <1>2, <1>3, <2>1, DiskSame DEF CheckRemoval
  <1>4. CASE CountInstances(Main)
    <2>1. MainActs /\ Unasked /\ UNCHANGED <<files, pidf, stray>> /\ th[Main].pc = "count"
      BY <1>4, MainRests DEF CountInstances
    <2> QED BY <1>1, <1>2, <1>4, <2>1, DiskSame DEF CountInstances
  <1>5. CASE WipeDataRoot(Main)
    <2>1. MainActs /\ Unasked /\ th[Main].pc = "wipe"
      BY <1>5 DEF WipeDataRoot, MainActs, Unasked, vars, At
    <2>2. /\ \A i \in Instances : pidf'[i] # "live"
          /\ files' = {}
          /\ \A i \in Instances : i \in stray' => i \in stray \/ row[i] = "dropped"
      BY <1>5, <2>1 DEF WipeDataRoot, Runs, MainFits, DiskFits
    <2>3. RowsFit' /\ DiskHolds
      BY <2>1, <2>2 DEF MainActs, RowsFit, DiskHolds, Runs, CalmInv
    <2> QED BY <1>1, <1>5, <2>1, <2>3 DEF WipeDataRoot
  <1>6. CASE Unregister(Main)
    <2>1. th[Main].pc = "unregister" /\ UNCHANGED <<files, pidf, stray, ws, sent, jobs>>
      BY <1>6 DEF Unregister, At, disk, link
    <2>2. CASE UNCHANGED vars /\ EndPhase(Main)
      <3>1. MainActs /\ Unasked
        BY <1>6, <2>2 DEF Unregister, At, MainActs, Unasked, vars
      <3> QED BY <1>2, <2>1, <2>2, <3>1
    <2>3. CASE RemovalComplete(Main) /\ Goto(Main, "exit")
      <3>1. MainActs /\ Wipes
        BY <2>1, <2>3 DEF RemovalComplete, Decide, MainActs, Wipes, link, CalmInv, AgentInv, Inv, TypeOK
      <3> QED BY <1>1, <2>1, <2>3, <3>1, DiskSame
    <2> QED BY <1>6, <2>2, <2>3 DEF Unregister
  <1> QED BY <1>3, <1>4, <1>5, <1>6 DEF RemovesHost

(* The server in the thread's hands, once its installation is announced.   *)
LEMMA HandFits ==
    ASSUME Calm, CalmInv, th[Main].pc \in AtLaunch, call[Main] = Idle
    PROVE  LET i == th[Main].inst IN
              /\ i \in Instances /\ th[Main].todo # <<>>
              /\ row[i] = "dropped" \/ i \in onHost
              /\ row[i] # "stopped"
              /\ row[i] = "queued" => th[Main].pc = "installing"
              /\ th[Main].pc \in BeforeSpawn => ~Runs(i)
              /\ \A j \in onHost : row[j] = "starting" /\ Runs(j) =>
                    th[Main].pc \in {"spawned", "started"} /\ i = j
  <1>1. th[Main].inst \in Instances /\ th[Main].todo # <<>>
    BY MainPlace DEF AtLaunch, AtOneServer, Restarting
  <1>2. MayHandle(th[Main], th[Main].inst) /\ DiskFits(th[Main]) /\ LaunchFits(th[Main])
    BY <1>1, MainPlace DEF MainFits, HandsFit, Handles
  <1>3. \A i, to : call[Main] # [op |-> "report", inst |-> i, to |-> to]
    BY DEF Idle
  <1> QED BY <1>1, <1>2, <1>3 DEF MayHandle, DiskFits, LaunchFits

LEMMA LaunchGoes ==
    ASSUME Calm, CalmInv, MainActs, DiskHolds, RowsFit',
           th[Main].pc \in AtLaunch \ {"installing"},
           NEW pc \in AtLaunch, Goto(Main, pc), pc \in BeforeSpawn => pidf'[th[Main].inst] # "live",
           Unasked \/ \E to \in Reportable \ {"stopped"} : Reports(to),
           LET i == th[Main].inst IN
              th[Main].pc \in {"spawned", "started"} /\ i \in onHost /\ row[i] = "starting" =>
                 pc = "started" /\ Unasked,
           pc = "spawned" => Unasked
    PROVE  CalmRest'
  <1> DEFINE i == th[Main].inst
  <1> USE MainPlace, HandFits DEF MainActs
  <1>1. th'[Main].pc = pc /\ th'[Main].inst = i
    BY GotoMoves
  <1>2. PhaseFits([th[Main] EXCEPT !.pc = pc])
    BY DEF PhaseFits, MainFits, ThreadRecords, AtLaunch, AtOneServer, Restarting
  <1>3. DiskFits(th[Main])'
    <2>1. pc \notin {"rm", "purge", "forget", "reportStopped", "wipe"}
      BY DEF AtLaunch, AtOneServer, Restarting
    <2>2. ASSUME pc = "reportFailed", pidf'[i] = "live" PROVE i \notin onHost \/ row[i] # "starting"
      BY <1>1, <2>2 DEF DiskHolds, Runs
    <2> QED BY <1>1, <2>1, <2>2 DEF DiskFits, Runs
  <1>4. MainFits(th[Main])'
    <2>1. pc # "next" /\ pc \in AtOneServer /\ th[Main].pc \in AtOneServer /\ th[Main].pc \in AtLaunch
      BY DEF AtLaunch, AtOneServer, Restarting
    <2>2. row[i] # "queued"
      BY HandFits
    <2> QED BY <1>2, <1>3, <2>1, <2>2, GoesFit
  <1> QED BY <1>4, StepFits

LEMMA LaunchThrowsFits ==
    ASSUME Calm, CalmInv, MainActs, Unasked, LaunchThrows(Main), Current(Main).ph \in Launchers,
           th[Main].pc \in {"launch", "spawned", "started", "unstarted", "reportUnstarted"},
           th[Main].pc \in {"spawned", "started"} /\ th[Main].inst \in onHost =>
              row[th[Main].inst] # "starting"
    PROVE  CalmRest'
  <1>1. UNCHANGED <<files, pidf, stray>>
    BY DEF LaunchThrows, disk, Launchers
  <1>2. th[Main].pc \in AtLaunch \ {"installing"} /\ th[Main].todo # <<>>
    BY MainPlace DEF AtLaunch, AtOneServer, Restarting
  <1>3. CASE AbortInstall(Main)
    BY <1>1, <1>2, <1>3, DiskSame, EndStepFits
  <1>4. ASSUME NEW pc \in {"reportFailed", "reportRecovering"}, Goto(Main, pc) PROVE CalmRest'
    BY <1>1, <1>2, <1>4, DiskSame, LaunchGoes DEF AtLaunch, AtOneServer, Restarting, BeforeSpawn
  <1> QED BY <1>3, <1>4 DEF LaunchThrows, Launchers

(* A report of a launch, and the refusal of one.                           *)
LEMMA PostReports ==
    ASSUME Calm, CalmInv, NEW next \in Reportable, NEW pc \in AtOneServer, At(Main, pc),
           Posts(Main, next)
    PROVE  /\ MainActs /\ NoLoss /\ Reports(next) /\ th[Main].inst \in onHost
           /\ <<row[th[Main].inst], next>> \in ReportTransitions
  <1>1. /\ th[Main].pc = pc /\ At(Main, th[Main].pc)
    BY DEF At
  <1>2. /\ MainActs /\ NoLoss /\ th[Main].inst \in onHost
        /\ call'[Main] = [op |-> "report", inst |-> th[Main].inst, to |-> next]
        /\ <<row[th[Main].inst], next>> \in ReportTransitions
    BY <1>1, PostAsks
  <1> QED BY <1>1, <1>2 DEF Reports, ReportTransitions

LEMMA LaunchesFit ==
    ASSUME Calm, CalmInv, Launches(Main)
    PROVE  CalmRest'
  <1> DEFINE i == th[Main].inst
  <1> USE MainPlace, CalmThread
  <1>0. LaunchesHaveCallers
    BY DEF CalmInv, AgentInv, ThreadInv
  <1>1. CASE Prepare(Main)
    <2>1. MainActs /\ Unasked /\ th[Main].pc = "launch" /\ Current(Main).ph \in Launchers
      BY <1>0, <1>1 DEF Prepare, At, MainActs, Unasked, vars, LaunchesHaveCallers, Launching
    <2>2. CASE Goto(Main, "spawn") /\ UNCHANGED disk
      BY <2>1, <2>2, HandFits, DiskSame, LaunchGoes
         DEF AtLaunch, AtOneServer, Restarting, BeforeSpawn, disk, Runs, MainActs
    <2> QED BY <1>1, <2>1, <2>2, LaunchThrowsFits DEF Prepare
  <1>2. CASE Spawn(Main)
    <2>1. MainActs /\ Unasked /\ th[Main].pc = "spawn" /\ UNCHANGED files
      BY <1>2 DEF Spawn, At, MainActs, Unasked, vars, disk
    <2>2. CASE Goto(Main, "unstarted") /\ UNCHANGED disk
      BY <2>1, <2>2, DiskSame, LaunchGoes
         DEF AtLaunch, AtOneServer, Restarting, BeforeSpawn, disk, Runs
    <2>3. CASE Goto(Main, "spawned")
      <3>1. /\ pidf' = [pidf EXCEPT ![i] = "live"]
            /\ stray' = IF pidf[i] = "live" THEN stray \cup {i} ELSE stray
        BY <1>2, <2>3, GotoMoves DEF Spawn, Names, Inst
      <3>2. /\ i \in Instances /\ ~Runs(i) /\ row[i] \notin {"queued", "stopped"}
            /\ row[i] = "dropped" \/ i \in onHost
        BY <2>1, HandFits DEF AtLaunch, AtOneServer, Restarting, BeforeSpawn, MainActs
      <3>3. \A j \in Instances : Runs(j)' => Runs(j) \/ j = i
        BY <3>1 DEF Runs, CalmInv, AgentTyped, DiskTyped
      <3>4. row[i] \notin {"none", "gone", "queued", "stopped"}
        BY <3>2 DEF CalmInv, AgentInv, Inv, RowsAreOwned, Exists, Statuses
      <3>5. stray' = stray
        BY <3>1, <3>2 DEF Runs
      <3>6. RowsFit'
        BY <2>1, <3>2, <3>3, <3>4, <3>5 DEF MainActs, CalmInv, RowsFit, Exists, Statuses
      <3>7. DiskHolds
        BY <2>1, <2>3, <3>3, GotoMoves DEF DiskHolds
      <3> QED BY <2>1, <2>3, <3>6, <3>7, LaunchGoes DEF AtLaunch, AtOneServer, Restarting, BeforeSpawn
    <2> QED BY <1>2, <2>1, <2>2, <2>3 DEF Spawn, Inst
  <1>3. CASE Spawned(Main)
    <2>1. MainActs /\ Unasked /\ th[Main].pc = "spawned" /\ Current(Main).ph \in Launchers
      BY <1>0, <1>3 DEF Spawned, At, MainActs, Unasked, vars, LaunchesHaveCallers, Launching
    <2>2. CASE Goto(Main, "started") /\ UNCHANGED <<files, pidf, stray>>
      BY <2>1, <2>2, DiskSame, LaunchGoes
         DEF AtLaunch, AtOneServer, Restarting, BeforeSpawn
    <2>3. CASE LogFails(i) /\ LaunchThrows(Main)
      BY <2>1, <2>3, LaunchThrowsFits DEF LogFails
    <2> QED BY <1>3, <2>1, <2>2, <2>3 DEF Spawned, Inst
  <1>4. CASE ReportRunning(Main)
    <2>1. PICK pc \in {"started", "unstarted"} : At(Main, pc)
      BY <1>4 DEF ReportRunning
    <2>2. /\ th[Main].pc \in {"started", "unstarted"} /\ th[Main].todo # <<>>
          /\ pc \in AtOneServer /\ Current(Main).ph \in Launchers
      BY <1>0, <2>1 DEF At, AtOneServer, Restarting, LaunchesHaveCallers, Launching
    <2>3. CASE Posts(Main, "running") /\ AfterItem(Main) /\ UNCHANGED disk
      <3>1. MainActs /\ Reports("running")
        BY <2>1, <2>2, <2>3, PostReports DEF Reportable
      <3> QED BY <2>2, <2>3, <3>1, EndStepFits, DiskSame DEF disk
    <2>4. CASE PostThrows(Main, "running") /\ LaunchThrows(Main)
      <3>1. MainActs /\ Unasked /\ (i \in onHost => row[i] # "starting")
        BY <2>1, <2>4, PostRefused DEF At, ReportTransitions
      <3> QED BY <2>2, <2>4, <3>1, LaunchThrowsFits
    <2> QED BY <1>4, <2>3, <2>4 DEF ReportRunning
  <1>5. CASE ReportFailed(Main)
    <2>1. At(Main, "reportFailed") /\ th[Main].pc = "reportFailed" /\ th[Main].todo # <<>>
      BY <1>5 DEF ReportFailed, At
    <2>2. MainActs /\ (Unasked \/ Reports("failed"))
      BY <1>5, <2>1, PostReports, PostRefused DEF ReportFailed, Reportable, AtOneServer
    <2>3. UNCHANGED <<files, pidf, stray>> /\ (AfterItem(Main) \/ AbortInstall(Main))
      BY <1>5 DEF ReportFailed, disk
    <2> QED BY <2>1, <2>2, <2>3, EndStepFits, DiskSame
  <1> QED BY <1>1, <1>2, <1>3, <1>4, <1>5 DEF Launches

LEMMA PowersFit ==
    ASSUME Calm, CalmInv, Powers(Main)
    PROVE  CalmRest'
  <1> DEFINE i == th[Main].inst
  <1> USE MainPlace, CalmThread
  <1>1. ASSUME EndPhase(Main) \/ AfterItem(Main), MainActs, UNCHANGED <<files, pidf, stray>>,
               Unasked \/ (Reports("stopped") /\ ~Runs(i)), th[Main].todo # <<>>,
               th[Main].pc \notin {"spawned", "started"}
        PROVE  CalmRest'
    BY <1>1, EndStepFits, DiskSame
  <1>2. CASE CheckPower(Main)
    <2>1. /\ MainActs /\ Unasked /\ UNCHANGED <<files, pidf, stray>> /\ th[Main].pc = "next"
          /\ th[Main].todo # <<>> /\ Current(Main).ph = "power"
      BY <1>2, MainRests DEF CheckPower, In, Current
    <2>2. CASE Replace(Main, <<Do("stops", All), Do("starts", All)>>)
      <3> DEFINE new == <<Do("stops", All), Do("starts", All)>> \o Tail(th[Main].todo)
      <3>1. th'[Main].pc = "next" /\ th'[Main].snap = {} /\ th'[Main].todo = new
        BY <2>2 DEF Replace, Between
      <3>2. /\ TodoFits(new)
            /\ \A p \in 1 .. Len(new) : new[p].ph = "install" =>
                  p - 1 \in 2 .. Len(th[Main].todo) /\ new[p] = th[Main].todo[p - 1]
        BY <2>1, PowerFits DEF ThreadRecords
      <3> HIDE DEF new
      <3>3. \A j \in Instances : Waits(th'[Main], j) => Waits(th[Main], j)
        <4> SUFFICES ASSUME NEW j \in Instances, Waits(th'[Main], j) PROVE Waits(th[Main], j)
          OBVIOUS
        <4>1. PICK p \in 1 .. Len(new) : new[p].ph = "install" /\ new[p].only = j
          BY <3>1 DEF Waits
        <4>2. PICK q \in 2 .. Len(th[Main].todo) : new[p] = th[Main].todo[q]
          BY <3>2, <4>1
        <4>3. Len(th[Main].todo) \in Nat
          BY DEF ThreadRecords, Todos
        <4> QED BY <4>1, <4>2, <4>3 DEF Waits
      <3>4. MainFits(th[Main])'
        BY <2>1, <3>1, <3>2, <3>3, EndsFit, Asked DEF Purges, Unasked
      <3> QED BY <2>1, <3>4, StepFits, DiskSame
    <2> QED BY <1>1, <1>2, <2>1, <2>2 DEF CheckPower
  <1>3. ASSUME NEW ph \in {"stops", "starts"}, NEW status \in {"stopping", "starting"},
               ph = "stops" <=> status = "stopping", FetchPower(Main, ph, status)
        PROVE  CalmRest'
    <2>1. /\ MainActs /\ Unasked /\ UNCHANGED <<files, pidf, stray>> /\ th[Main].pc = "next"
          /\ th[Main].todo # <<>> /\ Current(Main).ph = ph /\ call[Main] = Idle
      BY <1>3, MainRests DEF FetchPower, In, At, Current
    <2>2. ASSUME NEW j \in Listed(Main, status), Take(Main, status, j) PROVE CalmRest'
      <3>1. j \in onHost /\ row[j] = status
        BY DEF Listed
      <3>2. \A k \in Instances : Waits(th'[Main], k) => k # j
        BY <2>1, <2>2, <3>1, TakeMoves DEF Waits, MainFits, WaitsFit, MayWait
      <3>3. status = "starting" => ~Runs(j)
        BY <2>1, <3>1, Asked DEF MainFits, LaunchFits
      <3> QED BY <1>3, <2>1, <2>2, <3>1, <3>2, <3>3, TakesFit
    <2> QED BY <1>1, <1>3, <2>1, <2>2 DEF FetchPower
  <1>4. ASSUME NEW pc \in {"forget", "reportStopped"}, th[Main].pc \in {"stopping", "forget"},
               Goto(Main, pc), MainActs, Unasked, RowsFit', DiskHolds,
               pidf'[th[Main].inst] # "live"
        PROVE  CalmRest'
    <2>1. th'[Main].pc = pc /\ th'[Main].inst = i
      BY <1>4, GotoMoves
    <2>2. DiskFits(th[Main])'
      BY <1>4, <2>1 DEF DiskFits, BeforeSpawn, Runs
    <2>3. PhaseFits([th[Main] EXCEPT !.pc = pc])
      BY <1>4 DEF PhaseFits, MainFits, ThreadRecords
    <2>4. MainFits(th[Main])'
      BY <1>4, <2>2, <2>3, GoesFit DEF AtLaunch, AtOneServer
    <2> QED BY <1>4, <2>4, StepFits
  <1>5. CASE StopGame(Main)
    <2>1. MainActs /\ Unasked /\ th[Main].pc = "stopping" /\ i \in Instances /\ UNCHANGED <<files, stray>>
      BY <1>5 DEF StopGame, MainActs, Unasked, vars, At, AtOneServer
    <2>2. CASE EndPhase(Main) /\ UNCHANGED pidf
      BY <1>1, <2>1, <2>2
    <2>3. CASE Goto(Main, "forget") /\ Signal(i)
      <3>1. (\A j \in Instances : Runs(j)' => Runs(j)) /\ pidf'[i] # "live"
        BY <2>1, <2>3 DEF Signal, Runs, CalmInv, AgentTyped, DiskTyped
      <3>2. RowsFit' /\ DiskHolds
        BY <2>1, <3>1 DEF MainActs, RowsFit, DiskHolds, Exists, CalmInv
      <3> QED BY <1>4, <2>1, <2>3, <3>1, <3>2
    <2> QED BY <1>5, <2>2, <2>3 DEF StopGame, Inst
  <1>6. CASE ForgetGame(Main)
    <2>1. MainActs /\ Unasked /\ th[Main].pc = "forget" /\ i \in Instances
      BY <1>6 DEF ForgetGame, MainActs, Unasked, vars, At, AtOneServer
    <2>2. /\ \A j \in Instances : Runs(j)' => Runs(j)
          /\ pidf'[i] # "live" /\ files' = files /\ stray' = stray
      BY <1>6, <2>1 DEF ForgetGame, Names, Runs, CalmInv, AgentTyped, DiskTyped, Inst, MainFits, DiskFits
    <2>3. RowsFit' /\ DiskHolds
      BY <2>1, <2>2 DEF MainActs, RowsFit, DiskHolds, Exists, CalmInv
    <2> QED BY <1>4, <1>6, <2>1, <2>2, <2>3 DEF ForgetGame
  <1>7. CASE ReportStopped(Main)
    <2>1. At(Main, "reportStopped") /\ th[Main].pc = "reportStopped" /\ th[Main].todo # <<>>
      BY <1>7 DEF ReportStopped, At
    <2>2. MainActs /\ (Unasked \/ Reports("stopped"))
      BY <1>7, <2>1, PostReports, PostRefused DEF ReportStopped, Reportable, AtOneServer
    <2>3. ~Runs(i)
      BY <2>1 DEF MainFits, DiskFits
    <2> QED BY <1>1, <1>7, <2>1, <2>2, <2>3 DEF ReportStopped, disk
  <1>8. CASE StartGame(Main)
    <2>1. MainActs /\ Unasked /\ th[Main].pc = "starting" /\ UNCHANGED <<files, pidf, stray>>
      BY <1>8 DEF StartGame, MainActs, Unasked, vars, disk, At
    <2>2. pidf'[i] # "live"
      BY <2>1 DEF MainFits, DiskFits, BeforeSpawn, Runs
    <2>3. PICK pc \in {"launch", "reportFailed"} : Goto(Main, pc)
      BY <1>8 DEF StartGame
    <2> QED BY <2>1, <2>2, <2>3, LaunchGoes, DiskSame DEF AtLaunch, AtOneServer, Restarting, BeforeSpawn
  <1> QED BY <1>2, <1>3, <1>5, <1>6, <1>7, <1>8 DEF Powers

LEMMA WatchesFit ==
    ASSUME Calm, CalmInv, Watches(Main)
    PROVE  CalmRest'
  <1> DEFINE i == th[Main].inst
  <1> USE MainPlace, CalmThread
  <1>0. LaunchesHaveCallers /\ ThreadsTyped
    BY DEF CalmInv, AgentInv, ThreadInv, AgentTyped
  <1>1. ASSUME EndPhase(Main), MainActs, UNCHANGED <<files, pidf, stray>>,
               Unasked \/ Reports("recovering"), th[Main].todo # <<>>,
               th[Main].pc \notin {"spawned", "started"}
        PROVE  CalmRest'
    BY <1>1, EndStepFits, DiskSame
  <1>2. CASE CheckWatch(Main)
    <2>1. /\ MainActs /\ Unasked /\ UNCHANGED <<files, pidf, stray>> /\ th[Main].pc = "next"
          /\ th[Main].todo # <<>>
      BY <1>2, MainRests DEF CheckWatch, In
    <2>2. CASE Goto(Main, "list")
      <3>1. th'[Main].pc = "list"
        BY <2>2, GotoMoves
      <3>2. DiskFits(th[Main])'
        BY <3>1 DEF DiskFits, BeforeSpawn
      <3>3. PhaseFits([th[Main] EXCEPT !.pc = "list"])
        BY <2>1 DEF PhaseFits, MainFits, ThreadRecords
      <3>4. MainFits(th[Main])'
        BY <2>1, <2>2, <3>2, <3>3, GoesFit, DiskSame DEF AtLaunch, AtOneServer, Restarting
      <3> QED BY <2>1, <3>4, StepFits, DiskSame
    <2> QED BY <1>1, <1>2, <2>1, <2>2 DEF CheckWatch
  <1>3. CASE FetchWatch(Main)
    <2>1. /\ MainActs /\ Unasked /\ UNCHANGED <<files, pidf, stray>> /\ th[Main].pc = "list"
          /\ th[Main].todo # <<>>
      BY <1>3, MainRests DEF FetchWatch
    <2>2. ASSUME NEW seen, seen = {<<j, row[j]>> : j \in
                              {k \in onHost : row[k] \in {"running", "recovering"}}},
                 th' = [th EXCEPT ![Main] = [@ EXCEPT !.pc = "watch", !.snap = seen]]
          PROVE  CalmRest'
      <3>1. th'[Main].pc = "watch" /\ th'[Main].todo = th[Main].todo /\ th'[Main].snap = seen
        <4> DEFINE new == [th[Main] EXCEPT !.pc = "watch", !.snap = seen]
        <4>1. th'[Main] = new
          BY <2>2
        <4>2. new = [pc |-> "watch", inst |-> i, todo |-> th[Main].todo, n |-> th[Main].n,
                     snap |-> seen, tries |-> th[Main].tries]
          BY RecordMoves DEF ThreadRecords
        <4> QED BY <4>1, <4>2
      <3>2. \A c \in seen : c[1] \in onHost /\ row[c[1]] \in {"running", "recovering"}
        BY <2>2
      <3> QED BY <2>1, <3>1, <3>2, WatchFits
    <2> QED BY <1>1, <1>3, <2>1, <2>2 DEF FetchWatch
  <1>4. CASE Examine(Main)
    <2>1. /\ MainActs /\ Unasked /\ UNCHANGED <<files, pidf, stray>> /\ th[Main].pc = "watch"
          /\ th[Main].todo # <<>>
      BY <1>4, MainRests DEF Examine
    <2>2. CASE ~EndPhase(Main)
      <3>1. PICK c \in th[Main].snap :
               Watch(Main, Verdict(c[1], c[2]),
                     IF Verdict(c[1], c[2]) # "watch" THEN c[1] ELSE NoInst,
                     IF Verdict(c[1], c[2]) # "watch" THEN failures[c[1]] ELSE 0,
                     th[Main].snap \ {c})
        BY <1>4, <2>2 DEF Examine
      <3>2. /\ th'[Main].pc = Verdict(c[1], c[2])
            /\ th'[Main].inst = IF Verdict(c[1], c[2]) # "watch" THEN c[1] ELSE NoInst
            /\ th'[Main].todo = th[Main].todo
            /\ th'[Main].snap = th[Main].snap \ {c}
        BY <1>0, <3>1, WatchSets
      <3>3. /\ Verdict(c[1], c[2]) \in {"watch", "clear", "healthy", "reportFailed",
                                        "restart", "restartAgain"}
            /\ Verdict(c[1], c[2]) \in {"reportFailed", "restart", "restartAgain"} => ~Runs(c[1])
        BY DEF Verdict, Dead, Runs
      <3>4. Handles(th[Main], c[1])
        BY DEF Handles
      <3> QED BY <2>1, <3>2, <3>3, <3>4, WatchFits
    <2> QED BY <1>1, <1>4, <2>1, <2>2 DEF Examine
  <1>5. CASE ClearRecovering(Main)
    <2>1. PICK pc \in {"clear", "healthy"} : At(Main, pc)
      BY <1>5 DEF ClearRecovering
    <2>2. th[Main].pc \in {"clear", "healthy"} /\ pc \in AtOneServer
      BY <2>1 DEF At, AtOneServer
    <2>3. MainActs /\ (Unasked \/ Reports("running")) /\ UNCHANGED <<files, pidf, stray>>
      BY <1>5, <2>1, <2>2, PostReports, PostRefused DEF ClearRecovering, Reportable, At
    <2>4. /\ th'[Main].pc = "watch" /\ th'[Main].todo = th[Main].todo
          /\ th'[Main].snap = th[Main].snap
      BY <1>0, <1>5, WatchSets DEF ClearRecovering
    <2> QED BY <2>2, <2>3, <2>4, WatchFits
  <1>6. CASE BeginRestart(Main)
    <2>1. MainActs /\ Unasked /\ th[Main].pc \in {"restart", "restartAgain"} /\ i \in Instances
      BY <1>6 DEF BeginRestart, MainActs, Unasked, vars, At, AtOneServer, Restarting
    <2>2. /\ \A j \in Instances : Runs(j)' => Runs(j)
          /\ pidf'[i] # "live" /\ files' = files /\ stray' = stray
      BY <1>6, <2>1 DEF BeginRestart, Names, Runs, CalmInv, AgentTyped, DiskTyped, Inst, MainFits,
         DiskFits, BeforeSpawn
    <2>3. RowsFit' /\ DiskHolds
      BY <2>1, <2>2 DEF MainActs, RowsFit, DiskHolds, Exists, CalmInv
    <2>4. PICK pc \in {"announce", "launch"} : Goto(Main, pc)
      BY <1>6 DEF BeginRestart
    <2> QED BY <2>1, <2>2, <2>3, <2>4, LaunchGoes DEF AtLaunch, AtOneServer, Restarting
  <1>7. CASE AnnounceRestart(Main)
    <2>1. At(Main, "announce") /\ th[Main].pc = "announce" /\ th[Main].todo # <<>>
      BY <1>7 DEF AnnounceRestart, At
    <2>2. UNCHANGED <<files, pidf, stray>> /\ pidf[i] # "live"
      BY <1>7, <2>1 DEF AnnounceRestart, disk, MainFits, DiskFits, BeforeSpawn, Runs
    <2>3. CASE Posts(Main, "recovering") /\ Goto(Main, "launch")
      <3>1. MainActs /\ Reports("recovering")
        BY <2>1, <2>3, PostReports DEF Reportable, AtOneServer, Restarting
      <3> QED BY <2>1, <2>2, <2>3, <3>1, LaunchGoes, DiskSame
              DEF AtLaunch, AtOneServer, Restarting, Reportable
    <2>4. CASE PostThrows(Main, "recovering") /\ EndPhase(Main)
      <3>1. MainActs /\ Unasked
        BY <2>1, <2>4, PostRefused DEF At
      <3> QED BY <1>1, <2>1, <2>2, <2>4, <3>1
    <2> QED BY <1>7, <2>3, <2>4 DEF AnnounceRestart
  <1>8. CASE CountFailure(Main)
    <2>1. /\ MainActs /\ Unasked /\ th[Main].pc = "unstarted" /\ UNCHANGED <<files, pidf, stray>>
          /\ Goto(Main, "reportUnstarted")
      BY <1>8 DEF CountFailure, MainActs, Unasked, vars, At
    <2> QED BY <2>1, LaunchGoes, DiskSame DEF AtLaunch, AtOneServer, Restarting, BeforeSpawn
  <1>9. CASE ReportRecovering(Main)
    <2>1. PICK pc \in {"reportUnstarted", "reportRecovering"} : At(Main, pc)
      BY <1>9 DEF ReportRecovering
    <2>2. /\ th[Main].pc = pc /\ th[Main].todo # <<>> /\ pc \in AtOneServer
          /\ Current(Main).ph \in Launchers
      BY <1>0, <2>1 DEF At, AtOneServer, Restarting, LaunchesHaveCallers, Launching
    <2>3. CASE EndPhase(Main) /\ UNCHANGED disk
      <3>1. MainActs /\ (Unasked \/ Reports("recovering"))
        BY <1>9, <2>1, <2>2, PostReports, PostRefused DEF ReportRecovering, Reportable
      <3> QED BY <1>1, <2>2, <2>3, <3>1 DEF disk
    <2>4. CASE pc = "reportUnstarted" /\ PostThrows(Main, "recovering") /\ LaunchThrows(Main)
      <3>1. MainActs /\ Unasked
        BY <2>1, <2>2, <2>4, PostRefused
      <3> QED BY <2>2, <2>4, <3>1, LaunchThrowsFits
    <2> QED BY <1>9, <2>1, <2>2, <2>3, <2>4 DEF ReportRecovering, At
  <1> QED BY <1>2, <1>3, <1>4, <1>5, <1>6, <1>7, <1>8, <1>9 DEF Watches

LEMMA ProvisionsFit ==
    ASSUME Calm, CalmInv, Provisions(Main)
    PROVE  CalmRest'
  <1> DEFINE i == th[Main].inst
             todo == th[Main].todo
  <1> USE MainPlace, CalmThread
  <1>1. ASSUME EndPhase(Main) \/ AbortInstall(Main), MainActs, Unasked, UNCHANGED <<pidf, stray>>,
               RowsFit', todo # <<>>, th[Main].pc \notin {"spawned", "started"}
        PROVE  CalmRest'
    BY <1>1, EndStepFits
  <1>2. ASSUME In(Main, "provision") \/ In(Main, "queue") \/ In(Main, "queueMore")
        PROVE  Len(todo) = 1 /\ Tail(todo) = <<>>
    <2>1. todo \in Seq(Phases) /\ todo # <<>> /\ 1 \in 1 .. Len(todo)
          /\ todo[1].ph \in {"provision", "queue", "queueMore"}
      BY <1>2 DEF In, ThreadRecords, Todos
    <2>2. Len(todo) = 1
      BY <2>1 DEF TodoFits
    <2> QED BY <2>1, <2>2, LastPhase
  <1>3. CASE CheckProvision(Main)
    <2>1. /\ MainActs /\ Unasked /\ UNCHANGED <<files, pidf, stray>> /\ th[Main].pc = "next"
          /\ todo # <<>> /\ Tail(todo) = <<>>
      BY <1>2, <1>3, MainRests DEF CheckProvision, In
    <2>2. CASE Replace(Main, <<Do("queue", All)>>)
      <3>1. /\ th'[Main].pc = "next" /\ th'[Main].snap = {}
            /\ th'[Main].todo = <<Do("queue", All)>>
        <4>1. <<Do("queue", All)>> \o Tail(todo) = <<Do("queue", All)>>
          <5>1. <<Do("queue", All)>> \in Todos
            BY DEF Todos, Phases, Do
          <5> QED BY <2>1, <5>1, NothingMore
        <4> QED BY <2>2, <4>1 DEF Replace, Between
      <3>2. TodoFits(<<Do("queue", All)>>)
        BY RoundsFit
      <3>3. \A j \in Instances : ~Waits(th'[Main], j)
        BY <3>1 DEF Waits, Do
      <3>4. MainFits(th[Main])'
        BY <2>1, <3>1, <3>2, <3>3, EndsFit, Asked DEF Purges, Unasked
      <3> QED BY <2>1, <3>4, StepFits, DiskSame
    <2> QED BY <1>1, <1>3, <2>1, <2>2, DiskSame DEF CheckProvision
  <1>4. CASE FetchQueued(Main)
    <2>1. /\ MainActs /\ Unasked /\ UNCHANGED <<files, pidf, stray>> /\ th[Main].pc = "next"
          /\ todo # <<>> /\ call[Main] = Idle
      BY <1>4, MainRests DEF FetchQueued, In, At
    <2>2. Current(Main).ph \in {"queue", "queueMore"} /\ Tail(todo) = <<>>
      BY <1>2, <1>4 DEF FetchQueued, In, Current, TodoFits
    <2>3. ASSUME NEW j \in Listed(Main, "queued"),
                 NEW new, new \in {<<Do("install", j), Do("queueMore", All)>>,
                                   <<Do("power", All), Do("watch", All), Do("install", j),
                                     Do("queueMore", All)>>},
                 th' = [th EXCEPT ![Main] = Between(new)]
          PROVE  CalmRest'
      <3>1. th'[Main].pc = "next" /\ th'[Main].snap = {} /\ th'[Main].todo = new
        BY <2>3 DEF Between
      <3>2. TodoFits(new)
        BY <2>3, RoundsFit
      <3>3. \A p \in 1 .. Len(new) : new[p].ph = "install" => new[p].only = j
        BY <2>3 DEF Do
      <3>4. j \in onHost /\ row[j] = "queued"
        BY DEF Listed
      <3>5. \A k \in Instances : Waits(th'[Main], k) => k = j
        BY <3>1, <3>3 DEF Waits
      <3>6. MainFits(th[Main])'
        BY <2>1, <3>1, <3>2, <3>4, <3>5, EndsFit, Asked DEF Purges, Unasked
      <3> QED BY <2>1, <3>6, StepFits, DiskSame
    <2>4. ASSUME NEW j \in Listed(Main, "queued"),
                 Replace(Main, CASE Current(Main).ph = "deploy" -> <<Do("install", j)>>
                             [] Current(Main).ph = "queue" ->
                                   <<Do("install", j), Do("queueMore", All)>>
                             [] Current(Main).ph = "queueMore" ->
                                   <<Do("power", All), Do("watch", All),
                                     Do("install", j), Do("queueMore", All)>>)
          PROVE  CalmRest'
      <3>0. j \in Instances
        BY DEF Listed
      <3>1. CASE Current(Main).ph = "queue"
        <4>1. <<Do("install", j), Do("queueMore", All)>> \o Tail(todo)
                 = <<Do("install", j), Do("queueMore", All)>>
          BY <2>2, <3>0, NothingMore, PhasesAreTodos
        <4> QED BY <2>3, <2>4, <3>1, <4>1 DEF Replace
      <3>2. CASE Current(Main).ph = "queueMore"
        <4>1. <<Do("power", All), Do("watch", All), Do("install", j), Do("queueMore", All)>>
                 \o Tail(todo)
                 = <<Do("power", All), Do("watch", All), Do("install", j), Do("queueMore", All)>>
          BY <2>2, <3>0, NothingMore, PhasesAreTodos
        <4> QED BY <2>3, <2>4, <3>2, <4>1 DEF Replace
      <3> QED BY <2>2, <3>1, <3>2
    <2> QED BY <1>1, <1>4, <2>1, <2>4, DiskSame DEF FetchQueued
  <1>5. CASE BeginInstall(Main)
    <2> DEFINE j == Current(Main).only
    <2>1. /\ MainActs /\ Unasked /\ UNCHANGED <<files, pidf, stray>> /\ th[Main].pc = "next"
          /\ todo # <<>> /\ Current(Main).ph = "install" /\ todo \in Todos
      BY <1>5, MainRests DEF BeginInstall, In, Current, ThreadRecords, NoLoss
    <2>2. Waits(th[Main], j) /\ j \in Instances
      BY <2>1, HeadIsPhase DEF Waits, Current
    <2>3. /\ row[j] = "dropped" \/ j \in onHost
          /\ row[j] # "stopped" /\ ~Runs(j)
      BY <2>2 DEF MainFits, WaitsFit, MayWait
    <2>4. \A k \in Instances : ~Waits(th'[Main], k)
      <3>1. th'[Main].pc = "installing" /\ th'[Main].todo = todo
        BY <1>5, TakeMoves DEF BeginInstall
      <3>2. 1 = Len(todo) - 1
        BY <2>1 DEF TodoFits
      <3> QED BY <3>1, <3>2 DEF Waits, TodoFits
    <2>5. Take(Main, "installing", j)
      BY <1>5 DEF BeginInstall
    <2> QED BY <2>1, <2>2, <2>3, <2>4, <2>5, TakesFit
  <1>6. CASE ReportInstalling(Main)
    <2>1. /\ At(Main, "installing") /\ th[Main].pc = "installing" /\ todo # <<>>
          /\ call[Main] = Idle /\ UNCHANGED <<files, pidf, stray>> /\ pidf[i] # "live"
      BY <1>6 DEF ReportInstalling, At, disk, MainFits, DiskFits, BeforeSpawn, Runs
    <2>2. CASE Posts(Main, "installing") /\ Goto(Main, "steamcmd")
      <3>1. MainActs /\ Reports("installing")
        BY <2>1, <2>2, PostReports DEF Reportable, AtOneServer
      <3>2. th'[Main].pc = "steamcmd" /\ th'[Main].inst = i
        BY <2>2, GotoMoves
      <3>3. DiskFits(th[Main])'
        BY <2>1, <3>2 DEF DiskFits, Runs
      <3>4. PhaseFits([th[Main] EXCEPT !.pc = "steamcmd"])
        BY <2>1 DEF PhaseFits, MainFits, ThreadRecords
      <3>5. MainFits(th[Main])'
        BY <2>1, <2>2, <3>1, <3>3, <3>4, GoesFit, DiskSame DEF AtLaunch, AtOneServer, Reportable
      <3> QED BY <2>1, <3>1, <3>5, StepFits, DiskSame
    <2>3. CASE PostThrows(Main, "installing") /\ AbortInstall(Main)
      <3>1. MainActs /\ Unasked
        BY <2>1, <2>3, PostRefused
      <3> QED BY <1>1, <2>1, <2>3, <3>1, DiskSame
    <2> QED BY <1>6, <2>2, <2>3 DEF ReportInstalling
  <1>7. CASE SteamCmd(Main)
    <2>1. /\ MainActs /\ Unasked /\ UNCHANGED <<pidf, stray>> /\ th[Main].pc = "steamcmd"
          /\ files' \subseteq files \cup {i}
      BY <1>7 DEF SteamCmd, At, MainActs, Unasked, vars, Inst
    <2>2. /\ row[i] = "dropped" \/ i \in onHost
          /\ ~Runs(i) /\ todo # <<>>
      BY <2>1, HandFits DEF AtLaunch, AtOneServer, BeforeSpawn, MainActs
    <2>3. row[i] \notin {"none", "gone"}
      BY <2>2 DEF CalmInv, AgentInv, Inv, RowsAreOwned, Exists, Statuses
    <2>4. RowsFit' /\ DiskHolds
      BY <2>1, <2>3 DEF MainActs, CalmInv, RowsFit, DiskHolds, Runs, Exists
    <2>5. ASSUME NEW pc \in {"launch", "reportFailed"}, Goto(Main, pc) PROVE CalmRest'
      BY <2>1, <2>2, <2>4, <2>5, LaunchGoes DEF AtLaunch, AtOneServer, Restarting, Runs
    <2> QED BY <1>1, <1>7, <2>1, <2>2, <2>4, <2>5 DEF SteamCmd
  <1> QED BY <1>3, <1>4, <1>5, <1>6, <1>7 DEF Provisions

LEMMA RoundFits ==
    ASSUME Calm, CalmInv, StartCycle \/ SpawnKillsAgent(Main)
    PROVE  CalmRest'
  <1> USE MainPlace, CalmThread
  <1>1. ASSUME NEW todo \in {<<>>, MainCycle}, th'[Main] = Between(todo), MainActs, Unasked,
               UNCHANGED <<files, pidf, stray>>, th[Main].pc \notin {"spawned", "started"}
        PROVE  CalmRest'
    <2>1. TodoFits(todo) /\ \A p \in 1 .. Len(todo) : todo[p].ph # "install"
      <3>1. CASE todo = <<>>
        BY <3>1 DEF TodoFits
      <3>2. CASE todo = MainCycle
        BY <3>2, RoundsFit
      <3> QED BY <3>1, <3>2
    <2>2. th'[Main].pc = "next" /\ th'[Main].snap = {} /\ th'[Main].todo = todo
      BY <1>1 DEF Between
    <2>3. \A i \in Instances : ~Waits(th'[Main], i)
      BY <2>1, <2>2 DEF Waits
    <2>4. MainFits(th[Main])'
      BY <1>1, <2>1, <2>2, <2>3, EndsFit, Asked DEF Purges, Unasked
    <2> QED BY <1>1, <2>4, StepFits, DiskSame
  <1>2. CASE StartCycle
    <2>1. MainActs /\ Unasked /\ UNCHANGED <<files, pidf, stray>> /\ th[Main].pc = "next"
      BY <1>2, MainRests DEF StartCycle, NoLoss
    <2> QED BY <1>1, <1>2, <2>1 DEF StartCycle
  <1>3. CASE SpawnKillsAgent(Main)
    <2>1. /\ th[Main].pc = "spawn" /\ call[Main] = Idle /\ UNCHANGED <<files, pidf, stray, row, onHost>>
          /\ th' = [t \in Threads |-> Between(<<>>)]
          /\ ws' = FALSE /\ jobs' = <<>> /\ sent' \in {sent, {}}
      BY <1>3 DEF SpawnKillsAgent, At, Restarts
    <2>2. PICK f \in [Threads -> Spare] :
             call' = [s \in Slots |->
                   IF s \in Threads THEN Idle
                   ELSE IF \E t \in Threads : f[t] = s /\ call[t] # Idle
                        THEN call[CHOOSE t \in Threads : f[t] = s /\ call[t] # Idle]
                        ELSE call[s]]
      BY <1>3 DEF SpawnKillsAgent, Restarts
    <2>3. \A t \in Threads : call[t] = Idle
      BY <2>1
    <2>4. Unasked /\ \A s \in Slots \ {Main} : call'[s] = call[s]
      BY <2>2, <2>3 DEF Unasked
    <2>5. UNCHANGED link
      BY <2>1 DEF link, CalmInv, LinkIsDown, AgentTyped, LinkTyped
    <2> QED BY <1>1, <2>1, <2>4, <2>5 DEF MainActs
  <1> QED BY <1>2, <1>3

-----------------------------------------------------------------------------
(* The dashboard.                                                          *)
LEMMA UserAsksFit ==
    ASSUME Calm, CalmInv, NEW u \in UserSlots, UserAsks(u), UNCHANGED agentVars
    PROVE  CalmRest'
  <1> USE CalmThread DEF CalmInv
  <1> DEFINE Decides(c) ==
                /\ call' = [call EXCEPT ![u] = c] /\ UNCHANGED <<row, onHost>>
                /\ c.op \in {"insert", "set", "finalize", "markRows", "wipe"}
                /\ c.op = "wipe" => c.as = "dropped"
                /\ c.op = "set" /\ c.to # "pending_delete" =>
                      /\ row[c.inst] \in {"running", "recovering", "stopped"}
                      /\ c.to = "starting" => row[c.inst] = "stopped"
  <1>1. PICK c \in Calls : Decides(c)
    <2>1. ASSUME NEW i \in Instances, AskStop(u, i) \/ AskStart(u, i) PROVE \E c \in Calls : Decides(c)
      <3> DEFINE c == [op |-> "set", inst |-> i,
                       to |-> IF AskStop(u, i) THEN "stopping" ELSE "starting"]
      <3>1. c \in Calls
        BY DEF Calls, UserSetCall
      <3> QED BY <2>1, <3>1 DEF AskStop, AskStart, Decide
    <2>2. ASSUME NEW i \in Instances, AskCreate(u, i) PROVE \E c \in Calls : Decides(c)
      <3>1. [op |-> "insert", inst |-> i] \in Calls
        BY DEF Calls, InsertCall
      <3> QED BY <2>2, <3>1 DEF AskCreate, Decide
    <2>3. ASSUME NEW i \in Instances, AskDelete(u, i) PROVE \E c \in Calls : Decides(c)
      <3>1. [op |-> "set", inst |-> i, to |-> "pending_delete"] \in Calls
        BY DEF Calls, UserSetCall
      <3> QED BY <2>3, <3>1 DEF AskDelete, Decide
    <2>4. ASSUME NEW i \in Instances, AskFinalize(u, i) PROVE \E c \in Calls : Decides(c)
      <3>1. [op |-> "finalize", inst |-> i] \in Calls
        BY DEF Calls, DeleteCall
      <3> QED BY <2>4, <3>1 DEF AskFinalize, Decide
    <2>5. ASSUME AskHostRemoval(u) PROVE \E c \in Calls : Decides(c)
      <3>1. [op |-> "markRows"] \in Calls
        BY DEF Calls, HostCall
      <3> QED BY <2>5, <3>1 DEF AskHostRemoval, Decide
    <2>6. ASSUME AskForcedRemoval(u) PROVE \E c \in Calls : Decides(c)
      <3>1. [op |-> "wipe", as |-> "dropped"] \in Calls
        BY DEF Calls, WipeCall, Removed
      <3> QED BY <2>6, <3>1 DEF AskForcedRemoval, Decide
    <2> QED BY <2>1, <2>2, <2>3, <2>4, <2>5, <2>6 DEF UserAsks
  <1>2. /\ \A s \in AgentSlots : call'[s] = call[s]
        /\ call'[u] = c /\ UserSlots = {u}
        /\ UNCHANGED <<row, onHost, files, pidf, stray, ws, sent, jobs, th>>
    BY <1>1, SlotsAreDistinct DEF Calm, Slots, AgentInv, Inv, TypeOK, agentVars, disk, link
  <1>3. LinkIsDown' /\ RowsFit'
    BY <1>2 DEF LinkIsDown, RowsFit, Exists, Runs
  <1>4. SlotsAreUsed'
    BY <1>1, <1>2 DEF SlotsAreUsed
  <1>5. PowerIsFresh'
    BY <1>1, <1>2 DEF PowerIsFresh
  <1>6. MainFits(th[Main])'
    <2>1. MainFits(th[Main])
      OBVIOUS
    <2>2. ASSUME NEW i \in Instances, MayWait(i) PROVE MayWait(i)'
      BY <1>1, <1>2, <2>2 DEF MayWait, Runs
    <2>3. WaitsFit(th[Main])'
      BY <1>2, <2>1, <2>2 DEF MainFits, WaitsFit, Waits, Handles
    <2>4. HandsFit(th[Main])' /\ DiskFits(th[Main])'
      BY <1>2, <2>1 DEF MainFits, HandsFit, MayHandle, Handles, DiskFits, Runs
    <2>5. CallFits(th[Main])' /\ LaunchFits(th[Main])' /\ PhaseFits(th[Main])'
      BY <1>2, <2>1 DEF MainFits, CallFits, LaunchFits, PhaseFits, Runs
    <2> QED BY <2>3, <2>4, <2>5 DEF MainFits
  <1> QED BY <1>3, <1>4, <1>5, <1>6 DEF CalmRest

(* What a write of the dashboard may do to a row.                          *)
Remains(i) == i \in onHost' <=> i \in onHost
RowMoves(i) ==
    \/ row'[i] = row[i] /\ Remains(i)
    \/ row[i] = "none" /\ row'[i] = "queued" /\ i \in onHost'
    \/ Exists(i) /\ row'[i] = "pending_delete" /\ Remains(i)
    \/ Exists(i) /\ row'[i] = "dropped" /\ i \notin onHost'
    \/ /\ Exists(i) /\ Remains(i) /\ ~Waits(th[Main], i)
       /\ \/ row'[i] = "stopping"
          \/ row[i] = "stopped" /\ row'[i] = "starting"

LEMMA RowMovesFit ==
    ASSUME Calm, CalmInv, NEW u \in UserSlots, \A i \in Instances : RowMoves(i),
           UNCHANGED <<files, pidf, stray, ws, sent, jobs, th>>,
           onHost' \subseteq Instances,
           \A s \in AgentSlots : call'[s] = call[s],
           \/ call'[u] \in {Idle, [op |-> "markHost"]}
           \/ call'[u] = [op |-> "wiped", as |-> "dropped", rows |-> onHost] /\ UNCHANGED onHost
    PROVE  CalmRest'
  <1> USE CalmThread DEF CalmInv
  <1>0. UserSlots = {u} /\ call'[u].op \in {"idle", "markHost", "wiped"}
    BY DEF Calm, Idle
  <1>1. LinkIsDown' /\ PowerIsFresh'
    BY <1>0 DEF LinkIsDown, PowerIsFresh
  <1>2. SlotsAreUsed'
    <2>1. call'[u].op = "wiped" => call'[u].as = "dropped" /\ onHost' \subseteq call'[u].rows
      BY DEF Idle
    <2> QED BY <1>0, <2>1 DEF SlotsAreUsed
  <1>3. \A i \in onHost : Exists(i)
    BY DEF AgentInv, Inv, RowsAreOwned
  <1>4. \A i \in Instances : Runs(i)' <=> Runs(i)
    BY DEF Runs
  <1>5. RowsFit'
    BY <1>3, <1>4 DEF RowMoves, Remains, RowsFit, Exists, Statuses
  <1>6. MainFits(th[Main])'
    <2> DEFINE r == th[Main]
    <2>1. MainFits(r)
      OBVIOUS
    <2>2. ASSUME NEW i \in Instances, MayWait(i), Waits(r, i) PROVE MayWait(i)'
      BY <1>0, <1>3, <1>4, <2>2 DEF MayWait, RowMoves, Remains, Exists, Statuses
    <2>3. WaitsFit(r)'
      BY <2>1, <2>2 DEF MainFits, WaitsFit, Waits, Handles
    <2>4. ASSUME NEW i \in Instances, MayHandle(r, i) PROVE MayHandle(r, i)'
      BY <1>3, <2>4 DEF MayHandle, RowMoves, Remains, Exists, Statuses
    <2>5. HandsFit(r)'
      BY <2>1, <2>4 DEF MainFits, HandsFit, Handles
    <2>6. DiskFits(r)'
      <3>1. ASSUME NEW i \in Instances, Runs(i), row[i] = "dropped" PROVE row'[i] = "dropped"
        BY <3>1 DEF RowMoves, Exists, Statuses
      <3>2. ASSUME NEW i \in Instances, Runs(i), i \notin onHost \/ row[i] # "starting"
            PROVE  i \notin onHost' \/ row'[i] # "starting"
        BY <3>2 DEF RowMoves, Remains, RowsFit
      <3>3. r.pc \in AtOneServer => r.inst \in Instances
        BY MainPlace
      <3> QED BY <1>4, <2>1, <3>1, <3>2, <3>3
              DEF MainFits, DiskFits, AtOneServer, Restarting, BeforeSpawn, Runs
    <2>7. CallFits(r)'
      <3>1. call'[Main] = call[Main]
        OBVIOUS
      <3>2. \A i \in Instances : row[i] # "stopped" => row'[i] # "stopped"
        BY DEF RowMoves
      <3>3. \A i \in onHost' : i \in onHost \/ (~Runs(i) /\ i \notin files)
        BY DEF RowMoves, Remains, RowsFit
      <3>4. call[Main].op = "report" => call[Main].inst \in Instances
        BY CallByOp DEF AgentInv, Inv, TypeOK, ReportCall
      <3> QED BY <1>4, <2>1, <3>1, <3>2, <3>3, <3>4 DEF MainFits, CallFits, Runs
    <2>8. LaunchFits(r)'
      <3>1. ASSUME NEW i \in onHost', row'[i] = "starting", Runs(i)
            PROVE  i \in onHost /\ row[i] = "starting"
        BY <3>1 DEF RowMoves, Remains, RowsFit
      <3> QED BY <1>4, <2>1, <3>1 DEF MainFits, LaunchFits
    <2>9. PhaseFits(r)'
      BY <2>1 DEF MainFits, PhaseFits
    <2> QED BY <2>3, <2>5, <2>6, <2>7, <2>8, <2>9 DEF MainFits
  <1> QED BY <1>1, <1>2, <1>5, <1>6 DEF CalmRest

LEMMA UserWrites ==
    ASSUME Calm, CalmInv, NEW u \in UserSlots, Serve(u)
    PROVE  CalmRest'
  <1> DEFINE c == call[u]
             i == call[u].inst
  <1> USE CalmThread DEF CalmInv
  <1>1. /\ TypeOK /\ RowsAreOwned /\ RemovalInv /\ u \in Slots /\ c \in Calls
        /\ \A j \in onHost : Exists(j)
        /\ SlotsAreUsed /\ PowerIsFresh
    BY DEF AgentInv, Inv, TypeOK, RowsAreOwned, Slots
  <1>2. /\ Write(u) /\ UNCHANGED <<files, pidf, stray, ws, sent, jobs, th>>
        /\ onHost' \subseteq Instances
    <2>1. onHost' \subseteq Instances
      BY <1>1, InvKept DEF Serve, Next, AgentInv, Inv, TypeOK
    <2> QED BY <2>1 DEF Serve, disk, LinkIsDown
  <1>3. ASSUME NEW next, call' = [call EXCEPT ![u] = next]
        PROVE  call'[u] = next /\ \A s \in AgentSlots : call'[s] = call[s]
    BY <1>1, <1>3, SlotsAreDistinct DEF TypeOK, Slots
  <1>4. ASSUME \A j \in Instances : RowMoves(j),
               \/ Return(u)
               \/ call' = [call EXCEPT ![u] = [op |-> "markHost"]]
               \/ /\ call' = [call EXCEPT ![u] = [op |-> "wiped", as |-> "dropped", rows |-> onHost]]
                  /\ UNCHANGED onHost
        PROVE  CalmRest'
    BY <1>2, <1>3, <1>4, RowMovesFit DEF Return
  <1>5. CASE Insert(u)
    <2>1. i \in Instances /\ row[i] = "none"
      BY <1>1, <1>5, CallByOp DEF Insert, RemovalInv, InsertCall
    <2>2. \A j \in Instances : RowMoves(j)
      BY <1>1, <1>5, <2>1 DEF Insert, RowMoves, Remains, TypeOK
    <2> QED BY <1>4, <1>5, <2>2 DEF Insert
  <1>6. CASE SetStatus(u)
    <2>1. c.op = "set" /\ i \in Instances /\ c.to \in {"stopping", "starting", "pending_delete"}
      BY <1>1, <1>6, CallByOp DEF SetStatus, SlotsAreUsed, UserSetCall
    <2>2. row' = IF Exists(i) THEN [row EXCEPT ![i] = c.to] ELSE row
      BY <1>6, <2>1 DEF SetStatus
    <2>3. c.to # "pending_delete" => ~Waits(th[Main], i)
      BY <2>1 DEF MainFits, WaitsFit, MayWait
    <2>4. c.to = "starting" /\ Exists(i) => row[i] = "stopped"
      BY <1>1, <2>1 DEF PowerIsFresh, Exists, Statuses, Removed
    <2>5. \A j \in Instances : RowMoves(j)
      BY <1>1, <1>6, <2>1, <2>2, <2>3, <2>4 DEF SetStatus, RowMoves, Remains, TypeOK
    <2> QED BY <1>4, <1>6, <2>5 DEF SetStatus
  <1>7. CASE DeleteRow(u)
    <2>1. c.op = "finalize" /\ i \in Instances
      BY <1>1, <1>7, CallByOp DEF DeleteRow, SlotsAreUsed, DeleteCall
    <2>2. /\ row' = IF Exists(i) THEN [row EXCEPT ![i] = "dropped"] ELSE row
          /\ onHost' = onHost \ {i}
      BY <1>7, <2>1 DEF DeleteRow
    <2>3. \A j \in Instances : RowMoves(j)
      BY <1>1, <2>1, <2>2 DEF RowMoves, Remains, TypeOK
    <2> QED BY <1>4, <1>7, <2>3 DEF DeleteRow
  <1>8. CASE MarkRows(u)
    <2>1. \A j \in Instances : RowMoves(j)
      BY <1>1, <1>8 DEF MarkRows, RowMoves, Remains
    <2> QED BY <1>4, <1>8, <2>1 DEF MarkRows
  <1>9. CASE MarkHost(u)
    <2>1. \A j \in Instances : RowMoves(j)
      BY <1>9 DEF MarkHost, RowMoves, Remains
    <2> QED BY <1>4, <1>9, <2>1 DEF MarkHost
  <1>10. CASE WipeRows(u)
    <2>1. c.as = "dropped"
      BY <1>1, <1>10 DEF WipeRows, SlotsAreUsed
    <2>2. \A j \in Instances : RowMoves(j)
      BY <1>10 DEF WipeRows, RowMoves, Remains
    <2> QED BY <1>4, <1>10, <2>1, <2>2 DEF WipeRows
  <1>11. CASE WipeHost(u)
    <2>0. c.op = "wiped"
      BY <1>11 DEF WipeHost
    <2>1. c.as = "dropped" /\ onHost = c.rows
      <3>1. c.as = "dropped" /\ onHost \subseteq c.rows
        BY <1>1, <2>0 DEF SlotsAreUsed
      <3>2. c.rows \subseteq onHost
        BY <1>1, <2>0 DEF RowsAreOwned
      <3> QED BY <3>1, <3>2
    <2>2. \A j \in Instances : RowMoves(j)
      BY <1>1, <1>11, <2>1 DEF WipeHost, RowMoves, Remains
    <2> QED BY <1>4, <1>11, <2>2 DEF WipeHost
  <1> QED BY <1>2, <1>5, <1>6, <1>7, <1>8, <1>9, <1>10, <1>11 DEF Write

(* What a write of the agent's own requests does to a row.                 *)
LEMMA MainWrites ==
    ASSUME Calm, CalmInv, Serve(Main)
    PROVE  CalmRest'
  <1> DEFINE c == call[Main]
             i == call[Main].inst
             r == th[Main]
             Settles == c.op = "report" /\ i \in onHost /\ row' = [row EXCEPT ![i] = c.to] /\ UNCHANGED onHost
             Purged == c.op = "purge" /\ i \in onHost /\ row' = [row EXCEPT ![i] = "gone"] /\ onHost' = onHost \ {i}
             Emptied ==
                /\ c.op = "wiped" /\ c.rows \subseteq onHost /\ onHost' = {}
                /\ row' = [j \in Instances |-> IF j \in c.rows THEN c.as ELSE row[j]]
  <1> USE CalmThread DEF CalmInv
  <1>1. /\ TypeOK /\ RowsAreOwned /\ c \in Calls /\ \A j \in onHost : Exists(j) /\ j \in Instances
        /\ SlotsAreUsed /\ PowerIsFresh /\ MainFits(r) /\ RowsFit /\ row \in [Instances -> RowStates]
    BY DEF AgentInv, Inv, TypeOK, RowsAreOwned
  <1>2. Write(Main) /\ UNCHANGED <<files, pidf, stray, ws, sent, jobs, th>>
    BY DEF Serve, disk, LinkIsDown
  <1>3. /\ c.op \in {"report", "purge", "wipe", "wiped"}
        /\ c.op = "report" => i \in Instances /\ c.to \in Reportable
        /\ c.op = "purge" => i \in Instances
        /\ c.op \in {"wipe", "wiped"} => c.as \in Removed
    BY <1>1, <1>2, CallByOp DEF SlotsAreUsed, Write, Insert, SetStatus, DeleteRow, MarkRows,
       MarkHost, WipeRows, WipeHost, ReportCall, DeleteCall, WipeCall, WipedCall
  <1>4. \/ Settles \/ Purged \/ Emptied
        \/ UNCHANGED <<row, onHost>> /\ (c.op = "report" => i \notin onHost)
    <2>1. CASE SetStatus(Main)
      BY <1>1, <1>3, <2>1 DEF SetStatus
    <2>2. CASE DeleteRow(Main)
      BY <1>1, <1>3, <2>2 DEF DeleteRow
    <2>3. CASE WipeRows(Main)
      BY <2>3 DEF WipeRows
    <2>4. CASE WipeHost(Main)
      BY <1>1, <2>4 DEF WipeHost, RowsAreOwned
    <2> QED BY <1>2, <1>3, <2>1, <2>2, <2>3, <2>4 DEF Write, Insert, MarkRows, MarkHost
  <1>5. /\ \A s \in Slots \ {Main} : call'[s] = call[s]
        /\ \/ call'[Main].op = "idle"
           \/ c.op = "wipe" /\ call'[Main].op = "wiped" /\ UNCHANGED <<row, onHost>>
    BY <1>1, <1>2, <1>3 DEF TypeOK, Write, Insert, SetStatus, DeleteRow, MarkRows, MarkHost,
       WipeRows, WipeHost, Return, Idle
  <1>6. onHost' \subseteq onHost
    BY <1>4
  <1>7. \A j \in Instances : Runs(j)' <=> Runs(j)
    BY <1>2 DEF Runs
  <1>8. /\ c.op = "report" => row[i] # "stopped" /\ (c.to = "stopped" => r.pc = "next" /\ ~Runs(i))
        /\ c.op = "purge" => /\ r.pc = "next" /\ ~Runs(i) /\ i \notin files
                             /\ \A p \in 1 .. Len(r.todo) : r.todo[p].ph # "install"
        /\ c.op = "wiped" => r.pc = "exit" /\ \A j \in onHost : ~Runs(j) /\ j \notin files
    BY <1>1 DEF MainFits, CallFits
  <1>9. LinkIsDown' /\ SlotsAreUsed'
    BY <1>1, <1>2, <1>5, <1>6 DEF LinkIsDown, SlotsAreUsed, Slots
  <1>10. PowerIsFresh'
    <2>1. ASSUME NEW j \in Instances, row[j] \notin {"none", "queued"}
          PROVE  row'[j] \notin {"none", "queued"}
      BY <1>1, <1>3, <1>4, <2>1 DEF Reportable, Removed
    <2>2. ASSUME NEW j \in Instances, row[j] \in {"stopped"} \cup Removed
          PROVE  row'[j] \in {"stopped"} \cup Removed
      BY <1>1, <1>3, <1>4, <1>8, <2>2 DEF Removed, Exists, Statuses
    <2>3. \A u \in UserSlots :
             call'[u] = call[u] /\ (call[u].op = "set" => call[u].inst \in Instances)
      BY <1>1, <1>5, CallByOp DEF Slots, TypeOK, UserSetCall
    <2> QED BY <1>1, <2>1, <2>2, <2>3 DEF PowerIsFresh
  <1>11. RowsFit'
    BY <1>1, <1>2, <1>3, <1>4, <1>7, <1>8 DEF RowsFit, Exists, Statuses, Reportable, Removed
  <1>12. MainFits(r)'
    <2>1. /\ r.pc \in {"next", "exit"} => \A j \in Instances : ~Handles(r, j)
          /\ c.op \in {"purge", "wiped"} => \A j \in Instances : ~Waits(r, j)
      <3>1. r.pc \in {"next", "exit"} => r.snap = {} /\ r.pc \notin AtLaunch
        BY <1>1 DEF MainFits, PhaseFits, AtLaunch, AtOneServer, Restarting
      <3>2. r.pc = "exit" => 1 \in 1 .. Len(r.todo) /\ r.todo[1].ph = "remove"
        BY <1>1, MainPlace DEF MainFits, PhaseFits, Current
      <3>3. r.pc = "exit" => \A p \in 1 .. Len(r.todo) : r.todo[p].ph # "install"
        BY <3>2, MainPlace DEF TodoFits
      <3> QED BY <1>8, <3>1, <3>3 DEF Handles, Waits
    <2>2. WaitsFit(r)'
      <3>1. ASSUME NEW j \in Instances, Waits(r, j) PROVE MayWait(j)'
        <4>1. MayWait(j) /\ c.op \notin {"purge", "wiped"}
          BY <1>1, <2>1, <3>1 DEF MainFits, WaitsFit
        <4>2. row'[j] = row[j] /\ onHost' = onHost
          BY <1>1, <1>4, <4>1 DEF MayWait, Exists, Statuses
        <4>3. \A u \in UserSlots : call'[u] = call[u]
          BY <1>5 DEF Slots
        <4> QED BY <1>5, <1>7, <4>1, <4>2, <4>3 DEF MayWait
      <3> QED BY <1>1, <1>2, <3>1 DEF MainFits, WaitsFit, Waits, Handles
    <2>3. HandsFit(r)'
      <3>1. ASSUME NEW j \in Instances, Handles(r, j) PROVE MayHandle(r, j)'
        <4>1. MayHandle(r, j) /\ c.op \notin {"purge", "wiped"} /\ r.pc # "next"
          BY <1>1, <1>8, <2>1, <3>1 DEF MainFits, HandsFit
        <4>2. CASE UNCHANGED <<row, onHost>> /\ row[j] # "queued"
          BY <1>2, <4>1, <4>2 DEF MayHandle
        <4>3. CASE Settles /\ i = j
          BY <1>1, <1>3, <1>8, <4>1, <4>3 DEF MayHandle, Reportable
        <4>4. CASE Settles /\ i # j
          BY <1>1, <1>2, <4>1, <4>4 DEF MayHandle
        <4>5. CASE UNCHANGED <<row, onHost>> /\ row[j] = "queued" /\ (c.op = "report" => i \notin onHost)
          BY <1>2, <4>1, <4>5 DEF MayHandle
        <4> QED BY <1>4, <4>1, <4>2, <4>3, <4>4, <4>5
      <3> QED BY <1>2, <3>1 DEF HandsFit, Handles
    <2>4. DiskFits(r)'
      <3>1. ASSUME NEW j \in Instances, Runs(j), row[j] = "dropped" PROVE row'[j] = "dropped"
        BY <1>1, <1>4, <3>1 DEF Exists, Statuses
      <3>2. ASSUME NEW j \in Instances, j \notin onHost \/ row[j] # "starting"
            PROVE  j \notin onHost' \/ row'[j] # "starting"
        BY <1>1, <1>3, <1>4, <1>6, <3>2 DEF Reportable
      <3>3. r.pc \in AtOneServer => r.inst \in Instances
        BY MainPlace
      <3> QED BY <1>1, <1>2, <1>7, <3>1, <3>2, <3>3
              DEF MainFits, DiskFits, AtOneServer, Restarting, BeforeSpawn, Runs
    <2>5. CallFits(r)'
      BY <1>1, <1>2, <1>5, <1>7 DEF MainFits, CallFits
    <2>6. LaunchFits(r)'
      <3>1. ASSUME NEW j \in onHost', row'[j] = "starting", Runs(j) PROVE FALSE
        <4>1. j \in onHost /\ row[j] = "starting"
          BY <1>1, <1>3, <1>4, <1>6, <3>1 DEF Reportable
        <4>2. c = [op |-> "report", inst |-> j, to |-> "running"]
          BY <1>1, <1>3, <3>1, <4>1 DEF MainFits, LaunchFits, Idle
        <4>3. c.op = "report" /\ i = j /\ c.to = "running"
          BY <4>2
        <4> QED BY <1>1, <1>4, <3>1, <4>1, <4>3
      <3> QED BY <1>2, <1>6, <1>7, <3>1, <1>1 DEF LaunchFits
    <2>7. PhaseFits(r)'
      BY <1>1, <1>2 DEF MainFits, PhaseFits
    <2> QED BY <2>2, <2>3, <2>4, <2>5, <2>6, <2>7 DEF MainFits
  <1> QED BY <1>9, <1>10, <1>11, <1>12 DEF CalmRest

(* The machine.                                                            *)
LEMMA MachineFits ==
    ASSUME Calm, CalmInv,
           (\E i \in Instances : ProcessDies(i) \/ BackoffElapses(i)) \/ UNCHANGED allVars
    PROVE  CalmRest'
  <1> USE CalmThread DEF CalmInv
  <1>1. /\ UNCHANGED <<row, onHost, call, files, ws, sent, jobs, th>>
        /\ stray' \subseteq stray /\ \A j \in Instances : Runs(j)' => Runs(j)
    BY DEF ProcessDies, BackoffElapses, Runs, allVars, vars, agentVars, disk, link, AgentTyped,
       DiskTyped
  <1>2. LinkIsDown' /\ SlotsAreUsed' /\ PowerIsFresh' /\ RowsFit'
    BY <1>1 DEF LinkIsDown, SlotsAreUsed, PowerIsFresh, RowsFit, Exists
  <1>3. MainFits(th[Main])'
    <2>1. ASSUME NEW j \in Instances, MayWait(j) PROVE MayWait(j)'
      BY <1>1, <2>1 DEF MayWait
    <2>2. WaitsFit(th[Main])'
      BY <1>1, <2>1 DEF MainFits, WaitsFit, Waits, Handles
    <2>3. HandsFit(th[Main])' /\ PhaseFits(th[Main])'
      BY <1>1 DEF MainFits, HandsFit, MayHandle, Handles, PhaseFits
    <2>4. DiskFits(th[Main])'
      <3>1. th[Main].pc \in AtOneServer => th[Main].inst \in Instances
        BY MainPlace
      <3> QED BY <1>1, <3>1 DEF MainFits, DiskFits, AtOneServer, Restarting, BeforeSpawn
    <2>5. CallFits(th[Main])'
      <3>1. call[Main].op \in {"report", "purge"} => call[Main].inst \in Instances
        BY CallByOp DEF AgentInv, Inv, TypeOK, ReportCall, DeleteCall
      <3>2. onHost \subseteq Instances
        BY MainPlace
      <3> QED BY <1>1, <3>1, <3>2 DEF MainFits, CallFits
    <2>6. LaunchFits(th[Main])'
      BY <1>1, MainPlace DEF MainFits, LaunchFits
    <2> QED BY <2>2, <2>3, <2>4, <2>5, <2>6 DEF MainFits
  <1> QED BY <1>2, <1>3 DEF CalmRest

-----------------------------------------------------------------------------
LEMMA CalmInit == Calm /\ AgentInit => CalmInv
  <1> SUFFICES ASSUME Calm, AgentInit PROVE CalmInv
    OBVIOUS
  <1> USE CalmThread DEF AgentInit
  <1>1. AgentInv /\ AgentTyped
    BY AgentStarts, AgentTypedInit
  <1>2. /\ row = [i \in Instances |-> "none"] /\ onHost = {} /\ th[Main] = Between(<<>>)
        /\ call = [s \in Slots |-> Idle] /\ \A i \in Instances : ~Runs(i)
        /\ files = {} /\ stray = {}
    BY DEF Init, Runs
  <1>3. /\ \A s \in Slots : call[s] = Idle /\ call[s].op = "idle"
        /\ \A i \in Instances : ~Exists(i)
    BY <1>2 DEF Idle, Exists, Statuses
  <1>4. LinkIsDown /\ SlotsAreUsed /\ PowerIsFresh /\ RowsFit
    BY <1>2, <1>3 DEF LinkIsDown, SlotsAreUsed, PowerIsFresh, RowsFit, Slots
  <1>5. th[Main].pc = "next" /\ th[Main].snap = {} /\ th[Main].todo = <<>>
    BY <1>2 DEF Between
  <1>6. PhaseFits(th[Main]) /\ \A i \in Instances : ~Waits(th[Main], i)
    BY <1>5 DEF PhaseFits, TodoFits, Waits
  <1>7. MainFits(th[Main])
    BY <1>2, <1>3, <1>5, <1>6 DEF MainFits, WaitsFit, HandsFit, Handles, AtLaunch, AtOneServer,
       Restarting, DiskFits, BeforeSpawn, CallFits, LaunchFits
  <1> QED BY <1>1, <1>4, <1>7 DEF CalmInv

LEMMA CalmStep ==
    ASSUME Calm, CalmInv, [AgentNext]_allVars
    PROVE  CalmInv'
  <1> USE CalmThread
  <1>1. AgentInv' /\ AgentTyped'
    BY AgentStep, AgentTypedStep DEF CalmInv, AgentInv, Inv, ThreadInv, Permitted
  <1>2. ASSUME CalmRest' PROVE CalmInv'
    BY <1>1, <1>2 DEF CalmRest, CalmInv
  <1>3. ASSUME NEW t \in Threads, Works(t) \/ SpawnKillsAgent(t) PROVE CalmRest'
    <2>1. t = Main /\ (Works(Main) \/ SpawnKillsAgent(Main)) /\ ~UseWs
      BY <1>3 DEF Calm
    <2>2. \/ Deletes(Main) \/ RemovesHost(Main) \/ Launches(Main) \/ Powers(Main)
          \/ Watches(Main) \/ Provisions(Main) \/ StartCycle \/ SpawnKillsAgent(Main)
      BY <2>1 DEF Works
    <2> QED BY <2>2, DeletesFit, HostRemovalFits, LaunchesFit, PowersFit, WatchesFit,
         ProvisionsFit, RoundFits
  <1>4. ASSUME NEW s \in Slots, Serve(s) PROVE CalmRest'
    <2>1. CASE s \in UserSlots
      BY <1>4, <2>1, UserWrites
    <2>2. CASE s = Main
      BY <1>4, <2>2, MainWrites
    <2>3. CASE s \in AgentSlots \ {Main}
      <3>1. call[s].op = "idle"
        BY <2>3 DEF CalmInv, SlotsAreUsed, Idle
      <3> QED BY <1>4, <3>1 DEF Serve, Write, Insert, SetStatus, DeleteRow, MarkRows, MarkHost,
           WipeRows, WipeHost
    <2> QED BY <2>1, <2>2, <2>3 DEF Slots
  <1>5. ASSUME \/ \E s \in Spare : HandleReport(s)
               \/ WsConnects \/ WsDrops \/ \E reboot \in BOOLEAN : Crash(reboot)
        PROVE  FALSE
    BY <1>5 DEF HandleReport, WsConnects, WsDrops, Crash, Calm, CalmInv, LinkIsDown
  <1>6. CASE UNCHANGED allVars
    BY <1>2, <1>6, MachineFits
  <1>7. CASE AgentNext
    BY <1>2, <1>3, <1>4, <1>5, <1>7, UserAsksFit, MachineFits DEF AgentNext
  <1> QED BY <1>6, <1>7

LEMMA AgentRests == ASSUME Calm PROVE AgentSpec => []CalmInv
  <1>1. AgentInit => CalmInv
    BY CalmInit
  <1>2. CalmInv /\ [AgentNext]_allVars => CalmInv'
    BY CalmStep
  <1> QED BY <1>1, <1>2, PTL DEF AgentSpec

(* Over REST, without crashes or failed requests and with one request of   *)
(* the dashboard at a time, every process that was not told to end is in   *)
(* its pid file, whatever the servers, the power phase, the watchdog and   *)
(* the queue of installations do in between, and however long those that   *)
(* were told go on - unless the user dropped the record.                   *)
THEOREM NoneGetsOutOfReach == ASSUME Calm PROVE AgentSpec => []NoneOutOfReach
  <1>1. CalmInv => NoneOutOfReach
    BY DEF CalmInv, RowsFit, NoneOutOfReach, AgentTyped, DiskTyped
  <1> QED BY <1>1, AgentRests, PTL

(* The agent reports a server stopped only when each of its processes was  *)
(* told to end or has ended, and nothing it had planned before the stop    *)
(* brings one back.                                                        *)
THEOREM StopIsTold == ASSUME Calm PROVE AgentSpec => []StoppedMeansTold
  <1>1. CalmInv => StoppedMeansTold
    BY DEF CalmInv, RowsFit, StoppedMeansTold, Runs
  <1> QED BY <1>1, AgentRests, PTL

(* A record the agent reported cleaned up, alone or with its host, has     *)
(* no files left and no process that was not told to end, and no planned   *)
(* installation or restart makes new ones.                                 *)
THEOREM RemovalIsComplete == ASSUME Calm PROVE AgentSpec => []GoneMeansGone
  <1>1. CalmInv => GoneMeansGone
    BY DEF CalmInv, RowsFit, GoneMeansGone, Runs
  <1> QED BY <1>1, AgentRests, PTL
=============================================================================
