---------------------------- MODULE BackupRuns ----------------------------
(***************************************************************************)
(* Backups of one host: destinations, policies and runs in the control     *)
(* plane, the agent's poll of the schedule, and the control chain of the   *)
(* agent, which writes, prunes, restores and deletes archives.             *)
(*                                                                         *)
(* Time is the number of the current schedule slot: module BackupSchedule  *)
(* says which instants begin one.  An archive is the run that wrote it.    *)
(* Retention by age (keepDays) drops archives the way keepLast does, and   *)
(* is left out; so are the policies without a server, which the schedule   *)
(* skips, the processes a restore kills (module HostAgent), and the job    *)
(* that prunes the history of more than a year.                            *)
(***************************************************************************)
EXTENDS Naturals, Sequences, FiniteSets

CONSTANTS
    Servers,        \* game servers of the host, all of them running
    Dests,          \* backup destinations the user may configure
    Remote,         \* the destinations that are not a local directory
    Pollers,        \* requests to POST /agent/backup-schedule at one time
    S3,             \* the remote ones of kind s3; the others are sftp
    SharedPrefix,   \* the remote ones whose config names one prefix
    KeepLast,       \* keep_last of every policy
    MaxRuns,        \* bound: rows ever inserted in host_backup_runs
    MaxSlot,        \* bound: last schedule slot
    MaxEvents       \* bound: changes of destinations and policies, failing
                    \* steps, crashes and lost connections, all together

ASSUME BackupAssumption ==
    /\ S3 \subseteq Remote /\ Remote \subseteq Dests
    /\ SharedPrefix \subseteq Remote
    /\ KeepLast \in Nat \ {0} /\ MaxRuns \in Nat /\ MaxSlot \in Nat
    /\ MaxEvents \in Nat
    /\ "disk" \notin Dests

VARIABLES
    destination,    \* destination -> "none", "on", "off" or "gone"
    edits,          \* changes of the two so far
    policy,         \* <<server, destination>> -> "none", "on" or "off"
    run,            \* id -> row of host_backup_runs, or NoRun
    used,           \* ids inserted so far
    slot,           \* the current schedule slot
    poll,           \* the agent's requests to POST /agent/backup-schedule
    request,        \* the dashboard's request that waits for the database
    linked,         \* the agent's WebSocket is open
    chain,          \* jobs of the agent's control chain, the first in hand
    work,           \* how far the first job is
    store,          \* place -> archives there
    data,           \* server -> what its directory holds
    snapshot,       \* servers with a complete pre-restore snapshot
    mail,           \* backup_run_event messages on their way
    aborted,        \* history: a tick of the schedule failed half-way
    collided,       \* history: policies that two polls, both waited for by
                    \* the agent, have found due at one time
    backupFaults

agentVars == <<chain, work, store, data, snapshot, mail>>
history == <<aborted, collided>>
rowVars == <<destination, policy, edits, run, used>>
backupVars == <<destination, policy, edits, run, used, slot, poll, request, linked,
                chain, work, store, data, snapshot, mail, history,
                backupFaults>>

RunIds == 1..MaxRuns
Pairs == Servers \X Dests
Places == {"disk"} \cup Remote
Inflight == {"queued", "running"}
NoRun == [status |-> "none"]
NoPoll == [at |-> "idle"]
NoRequest == [op |-> "none"]

(* How far the first job of the chain is.                                  *)
Stages == {"ready", "archived", "uploaded", "fetched", "snapped", "bare",
           "wiped", "wipedBare"}

(* Of which server an archive is, by which run, whether it is complete, and *)
(* its place in the order in which those beside it were written (mtime).   *)
Archives == [server : Servers, run : RunIds, whole : BOOLEAN,
             written : Nat \ {0}]
Place(d) == IF d \in Remote THEN d ELSE "disk"

RowOf(k, s, d, st) ==
    [status |-> st, kind |-> k, server |-> s, dest |-> d, slot |-> slot,
     archive |-> FALSE]

Rows == [status : {"queued", "running", "done", "failed"},
         kind : {"backup", "restore"}, server : Servers,
         dest : Dests \cup {"deleted"}, slot : 0..MaxSlot,
         archive : BOOLEAN]
Jobs == [do : {"backup"}, run : RunIds, server : Servers, dest : Dests,
         keep : {0, KeepLast}, scheduled : BOOLEAN]
        \cup [do : {"restore"}, run : RunIds, server : Servers, dest : Dests,
              from : RunIds]
        \cup [do : {"delete"}, dest : Dests, from : RunIds]
Events == [run : RunIds, status : {"running", "done", "failed"},
           archive : BOOLEAN]
Polls == {NoPoll}
         \cup [at : {"server", "orphan"}, left : SUBSET Pairs, due : SUBSET Pairs,
               since : 0..MaxSlot, out : Seq(Jobs)]
Requests == {NoRequest}
            \cup [op : {"dropDest"}, dest : Dests]
            \cup [op : {"dropPolicy"}, pair : Pairs]

BackupTypeOK ==
    /\ destination \in [Dests -> {"none", "on", "off", "gone"}]
    /\ policy \in [Pairs -> {"none", "on", "off"}]
    /\ edits \in 0..MaxEvents
    /\ run \in [RunIds -> Rows \cup {NoRun}] /\ used \in 0..MaxRuns
    /\ slot \in 0..MaxSlot /\ poll \in [Pollers -> Polls] /\ request \in Requests
    /\ linked \in BOOLEAN
    /\ chain \in Seq(Jobs) /\ work \in Stages
    /\ store \in [Places -> SUBSET Archives]
    /\ data \in [Servers -> {"whole", "torn"}]
    /\ snapshot \subseteq Servers
    /\ mail \subseteq Events /\ aborted \in BOOLEAN /\ collided \subseteq Pairs
    /\ backupFaults \in 0..MaxEvents

BackupInit ==
    /\ destination \in [Dests -> {"none", "on"}] /\ edits = 0
    /\ policy = [p \in Pairs |-> destination[p[2]]]
    /\ run = [r \in RunIds |-> NoRun] /\ used = 0
    /\ slot = 0 /\ poll = [q \in Pollers |-> NoPoll] /\ request = NoRequest
    /\ linked = TRUE /\ chain = <<>> /\ work = "ready"
    /\ store = [p \in Places |-> {}]
    /\ data = [s \in Servers |-> "whole"] /\ snapshot = {}
    /\ mail = {} /\ aborted = FALSE /\ collided = {} /\ backupFaults = 0

Edit == edits + backupFaults < MaxEvents /\ edits' = edits + 1

Fault ==
    edits + backupFaults < MaxEvents /\ backupFaults' = backupFaults + 1

-----------------------------------------------------------------------------
(***************************************************************************)
(* The dashboard: POST /api/hosts/:id/backups, one action per "action" of  *)
(* the body, and DELETE .../runs/:id.                                      *)
(***************************************************************************)

Configured(d) == destination[d] \in {"on", "off"}

(* upsert_destination: inserted with a fresh id, or updated by id, and     *)
(* with updatePolicy the policy of one server follows.                     *)
UpsertDestination(d, e, touched) ==
    /\ Edit
    /\ destination[d] # "gone"
    /\ destination[d] # e \/ \E p \in touched : policy[p] # e
    /\ destination' = [destination EXCEPT ![d] = e]
    /\ policy' = [p \in Pairs |-> IF p \in touched THEN e ELSE policy[p]]
    /\ UNCHANGED <<run, used, slot, poll, request, linked, agentVars,
                   history, backupFaults>>

(* set_destination_enabled.                                                *)
SetDestinationEnabled(d, e) ==
    Configured(d) /\ UpsertDestination(d, e, {})

(* upsert_policy: an update if the pair has one.                           *)
UpsertPolicy(p, e) ==
    /\ Edit
    /\ destination[p[2]] = "on" /\ policy[p] # e
    /\ policy' = [policy EXCEPT ![p] = e]
    /\ UNCHANGED <<destination, run, used, slot, poll, request, linked,
                   agentVars, history, backupFaults>>

(* set_policy_enabled.                                                     *)
SetPolicyEnabled(p, e) ==
    /\ Edit
    /\ policy[p] \notin {e, "none"}
    /\ policy' = [policy EXCEPT ![p] = e]
    /\ UNCHANGED <<destination, run, used, slot, poll, request, linked,
                   agentVars, history, backupFaults>>

Ask(q) ==
    /\ request = NoRequest /\ request' = q
    /\ UNCHANGED <<destination, policy, run, used, slot, poll, linked,
                   agentVars, history, backupFaults>>

(* delete_destination and delete_policy are refused while a run of theirs  *)
(* is in flight, then delete in a second statement.                        *)
AskDropDest(d) ==
    /\ Configured(d)
    /\ \A r \in RunIds : run[r].status \in Inflight => run[r].dest # d
    /\ Edit /\ Ask([op |-> "dropDest", dest |-> d])

(* Policies go with their destination; runs keep a NULL destination_id.    *)
DropDest ==
    /\ request.op = "dropDest"
    /\ destination' = [destination EXCEPT ![request.dest] = "gone"]
    /\ policy' = [p \in Pairs |->
                     IF p[2] = request.dest THEN "none" ELSE policy[p]]
    /\ run' = [r \in RunIds |->
                  IF run[r] # NoRun /\ run[r].dest = request.dest
                  THEN [run[r] EXCEPT !.dest = "deleted"] ELSE run[r]]
    /\ request' = NoRequest
    /\ UNCHANGED <<edits, used, slot, poll, linked, agentVars, history, backupFaults>>

AskDropPolicy(p) ==
    /\ policy[p] # "none"
    /\ \A r \in RunIds :
          run[r].status \in Inflight => <<run[r].server, run[r].dest>> # p
    /\ Edit /\ Ask([op |-> "dropPolicy", pair |-> p])

DropPolicy ==
    /\ request.op = "dropPolicy"
    /\ policy' = [policy EXCEPT ![request.pair] = "none"]
    /\ request' = NoRequest
    /\ UNCHANGED <<destination, edits, run, used, slot, poll, linked, agentVars,
                   history, backupFaults>>

JobOf(k, r, s, d, from) ==
    IF k = "restore"
    THEN [do |-> k, run |-> r, server |-> s, dest |-> d, from |-> from]
    ELSE [do |-> k, run |-> r, server |-> s, dest |-> d,
          keep |-> IF policy[<<s, d>>] # "none" THEN KeepLast ELSE 0,
          scheduled |-> FALSE]

(* trigger_backup, and trigger_restore of a run the dashboard lists: the   *)
(* row is inserted and the command sent, in one step, since a refusal by a *)
(* lost connection or a vanished destination takes the row back.  There is *)
(* no check for a run in flight.                                           *)
Trigger(k, s, d, from) ==
    /\ linked /\ destination[d] = "on" /\ used < MaxRuns
    /\ IF k = "backup" THEN from = 0
       ELSE /\ from \in RunIds /\ run[from].status = "done"
            /\ run[from].kind = "backup" /\ run[from].archive
            /\ run[from].server = s /\ run[from].dest = d
    /\ used' = used + 1
    /\ run' = [run EXCEPT ![used + 1] = RowOf(k, s, d, "queued")]
    /\ chain' = Append(chain, JobOf(k, used + 1, s, d, from))
    /\ UNCHANGED <<destination, policy, edits, slot, poll, request, linked,
                   work, store, data, snapshot, mail, history, backupFaults>>

Without(archives, r) == {a \in archives : a.run # r}

(* DELETE .../runs/:id, which the dashboard offers for finished backups:   *)
(* S3 objects are deleted here, files by the agent, and then the row.      *)
DeleteRun(r) ==
    /\ run[r].status = "done" /\ run[r].kind = "backup" /\ run[r].archive
    /\ LET d == run[r].dest IN
       IF d \in S3
       THEN /\ store' = [store EXCEPT ![d] = Without(@, r)]
            /\ UNCHANGED chain
       ELSE IF d \in Dests
       THEN /\ linked
            /\ chain' = Append(chain, [do |-> "delete", dest |-> d, from |-> r])
            /\ UNCHANGED store
       ELSE UNCHANGED <<chain, store>>
    /\ run' = [run EXCEPT ![r] = NoRun]
    /\ UNCHANGED <<destination, policy, edits, used, slot, poll, request, linked,
                   work, data, snapshot, mail, history, backupFaults>>

-----------------------------------------------------------------------------
(***************************************************************************)
(* tickScheduledBackups, which serves the poll of the agent.               *)
(***************************************************************************)

SlotPasses ==
    /\ slot < MaxSlot /\ slot' = slot + 1
    /\ UNCHANGED <<rowVars, poll, request, linked, agentVars, history,
                   backupFaults>>

(* The clock and the enabled policies are read once.  The agent's timer    *)
(* does not wait for the answer to the poll before.                        *)
TickBegin(q) ==
    /\ linked /\ poll[q] = NoPoll
    /\ \E p \in Pairs : policy[p] = "on"
    /\ poll' = [poll EXCEPT ![q] =
                   [at |-> "server", due |-> {}, since |-> slot, out |-> <<>>,
                    left |-> {p \in Pairs : policy[p] = "on"}]]
    /\ UNCHANGED <<rowVars, slot, request, linked, agentVars, history,
                   backupFaults>>

RunOf(p, statuses) ==
    {r \in RunIds : /\ run[r].status \in statuses /\ run[r].kind = "backup"
                    /\ <<run[r].server, run[r].dest>> = p}

(* lastSuccessfulBackupAt and hasInflightBackup.                           *)
BackedUp(p, since) == \E r \in RunOf(p, {"done"}) : run[r].slot >= since

(* Mutant: a run that is still queued is not in flight.                    *)
BusyRunning(p) == RunOf(p, {"running"}) # {}

Busy(p) == RunOf(p, Inflight) # {}

Due(p, since) ==
    ~BackedUp(p, since) /\ ~Busy(p) /\ destination[p[2]] = "on"

(* Polls whose answer the agent waits for.                                 *)
Serving == {q \in Pollers : poll[q].at = "server"}

TickCheck(q, p) ==
    /\ poll[q].at # "idle" /\ poll[q].due = {} /\ p \in poll[q].left
    /\ poll' = [poll EXCEPT ![q].left = @ \ {p},
                            ![q].due = IF Due(p, poll[q].since) THEN {p} ELSE {}]
    /\ collided' = IF /\ q \in Serving /\ Due(p, poll[q].since)
                      /\ \E r \in Serving : p \in poll[r].due
                   THEN collided \cup {p} ELSE collided
    /\ UNCHANGED <<rowVars, slot, request, linked, agentVars, aborted,
                   backupFaults>>

(* createBackupRun; the INSERT fails if the destination is gone, and the   *)
(* runs this tick has queued are never handed out.  (At the bound MaxRuns  *)
(* a policy is passed over.)                                               *)
TickQueue(q) ==
    /\ poll[q].at # "idle" /\ poll[q].due # {}
    /\ \E p \in poll[q].due :
          \/ /\ Configured(p[2]) /\ used < MaxRuns
             /\ used' = used + 1
             /\ run' = [run EXCEPT ![used + 1] =
                           RowOf("backup", p[1], p[2], "queued")]
             /\ poll' = [poll EXCEPT ![q].due = {},
                   ![q].out = Append(@, [do |-> "backup", run |-> used + 1,
                                         server |-> p[1], dest |-> p[2],
                                         keep |-> KeepLast,
                                         scheduled |-> TRUE])]
             /\ UNCHANGED aborted
          \/ /\ Configured(p[2]) /\ used = MaxRuns
             /\ poll' = [poll EXCEPT ![q].due = {}]
             /\ UNCHANGED <<used, run, aborted>>
          \/ /\ ~Configured(p[2])
             /\ poll' = [poll EXCEPT ![q] = NoPoll]
             /\ aborted' = TRUE
             /\ UNCHANGED <<used, run>>
    /\ UNCHANGED <<destination, policy, edits, slot, request, linked, agentVars,
                   collided, backupFaults>>

(* The answer: the agent appends the runs to its control chain ...         *)
TickReply(q) ==
    /\ poll[q].at # "idle" /\ poll[q].left = {} /\ poll[q].due = {}
    /\ poll' = [poll EXCEPT ![q] = NoPoll]
    /\ chain' = IF q \in Serving THEN chain \o poll[q].out ELSE chain
    /\ UNCHANGED <<rowVars, slot, request, linked, work, store, data,
                   snapshot, mail, history, backupFaults>>

(* ... unless its call was cut off, with which the server goes on: what it *)
(* queues stays queued.                                                    *)
TickCutOff(q) ==
    /\ q \in Serving /\ Fault
    /\ poll' = [poll EXCEPT ![q].at = "orphan"]
    /\ UNCHANGED <<rowVars, slot, request, linked, agentVars, history>>

-----------------------------------------------------------------------------
(***************************************************************************)
(* The agent: the jobs of its control chain, one after the other.          *)
(***************************************************************************)
Job == Head(chain)
Doing(what, stage) == chain # <<>> /\ Job.do = what /\ work = stage

(* emitBackup: dropped without a word when the socket is closed.           *)
Emit(statuses, arch) ==
    mail' = IF linked
            THEN mail \cup {[run |-> Job.run, status |-> st, archive |-> arch] :
                            st \in statuses}
            ELSE mail

NextJob == chain' = Tail(chain) /\ work' = "ready"
Proceed(stage) == work' = stage /\ UNCHANGED chain
AgentOnly == UNCHANGED <<rowVars, slot, poll, request, linked, history>>

LastWritten(p) == CHOOSE t \in {0} \cup {a.written : a \in store[p]} :
                     \A a \in store[p] : a.written <= t

Add(p, ok) ==
    store' = [store EXCEPT ![p] =
                 @ \cup {[server |-> Job.server, run |-> Job.run, whole |-> ok,
                          written |-> LastWritten(p) + 1]}]

(* tar into the local directory; a failure leaves what tar had written.    *)
Compress ==
    /\ Doing("backup", "ready")
    /\ \/ Add("disk", TRUE) /\ Emit({"running"}, FALSE) /\ Proceed("archived")
          /\ UNCHANGED backupFaults
       \/ Add("disk", FALSE) /\ Emit({"running", "failed"}, FALSE) /\ NextJob
          /\ Fault
    /\ AgentOnly /\ UNCHANGED <<data, snapshot>>

(* PutObject is all or nothing; an SFTP put may stop half-way.             *)
Upload ==
    /\ Doing("backup", "archived") /\ Job.dest \in Remote
    /\ \/ Add(Job.dest, TRUE) /\ Proceed("uploaded")
          /\ UNCHANGED <<mail, backupFaults>>
       \/ /\ IF Job.dest \in S3 THEN UNCHANGED store ELSE Add(Job.dest, FALSE)
          /\ Emit({"failed"}, FALSE) /\ NextJob /\ Fault
    /\ AgentOnly /\ UNCHANGED <<data, snapshot>>

(* Retention works on what it lists, newest first: the server's files of   *)
(* the directory, or everything under the prefix.                          *)
Listed(d, s, a) == a.server = s \/ d \in SharedPrefix

Newer(d, s, a, archives) ==
    {b \in archives : Listed(d, s, b) /\ b.written > a.written}

(* Mutant: one archive fewer is kept.                                      *)
RetainedOneLess(d, s, keep, archives) ==
    {a \in archives : \/ keep = 0 \/ ~Listed(d, s, a)
                      \/ Cardinality(Newer(d, s, a, archives)) + 1 < keep}

Retained(d, s, keep, archives) ==
    {a \in archives : \/ keep = 0 \/ ~Listed(d, s, a)
                      \/ Cardinality(Newer(d, s, a, archives)) < keep}

(* Retention, then the run is reported done; one that fails to list or to  *)
(* delete reports the run failed.                                          *)
Retain ==
    /\ Doing("backup", IF Job.dest \in Remote THEN "uploaded" ELSE "archived")
    /\ \/ /\ store' = [store EXCEPT ![Place(Job.dest)] =
                          Retained(Job.dest, Job.server, Job.keep, @)]
          /\ Emit({"done"}, TRUE) /\ UNCHANGED backupFaults
       \/ Job.dest \in Remote /\ Emit({"failed"}, FALSE) /\ Fault
          /\ UNCHANGED store
    /\ NextJob
    /\ AgentOnly /\ UNCHANGED <<data, snapshot>>

Available == \E a \in store[Place(Job.dest)] : a.run = Job.from

(* runRestoreNow: the archive is found or downloaded first.                *)
Fetch ==
    /\ Doing("restore", "ready")
    /\ \/ Available /\ Emit({"running"}, FALSE) /\ Proceed("fetched")
          /\ UNCHANGED backupFaults
       \/ ~Available /\ Emit({"running", "failed"}, FALSE) /\ NextJob
          /\ UNCHANGED backupFaults
       \/ Available /\ Job.dest \in Remote
          /\ Emit({"running", "failed"}, FALSE) /\ NextJob /\ Fault
    /\ AgentOnly /\ UNCHANGED <<store, data, snapshot>>

(* Mutant: a restore without its archive ends without a word.              *)
FetchSilent ==
    /\ Doing("restore", "ready")
    /\ IF Available THEN Emit({"running"}, FALSE) /\ Proceed("fetched")
       ELSE NextJob /\ UNCHANGED mail
    /\ AgentOnly /\ UNCHANGED <<store, data, snapshot, backupFaults>>

(* Mutant: the snapshot is not waited for.                                 *)
SnapshotUnawaited ==
    /\ Doing("restore", "fetched")
    /\ Proceed("snapped")
    /\ AgentOnly /\ UNCHANGED <<store, data, snapshot, mail, backupFaults>>

(* The pre-restore snapshot is best effort.                                *)
Snapshot ==
    /\ Doing("restore", "fetched")
    /\ \/ /\ snapshot' = IF data[Job.server] = "whole"
                         THEN snapshot \cup {Job.server} ELSE snapshot
          /\ Proceed("snapped") /\ UNCHANGED backupFaults
       \/ Proceed("bare") /\ Fault /\ UNCHANGED snapshot
    /\ AgentOnly /\ UNCHANGED <<store, data, mail>>

(* The directory is removed ...                                            *)
Wipe ==
    /\ Doing("restore", "snapped") \/ Doing("restore", "bare")
    /\ data' = [data EXCEPT ![Job.server] = "torn"]
    /\ Proceed(IF work = "snapped" THEN "wiped" ELSE "wipedBare")
    /\ AgentOnly /\ UNCHANGED <<store, snapshot, mail, backupFaults>>

(* ... and filled from the archive; if that fails, from the snapshot.      *)
Extract ==
    /\ Doing("restore", "wiped") \/ Doing("restore", "wipedBare")
    /\ \/ /\ data' = [data EXCEPT ![Job.server] = "whole"]
          /\ Emit({"done"}, TRUE) /\ UNCHANGED backupFaults
       \/ /\ data' = IF work = "wiped" /\ Job.server \in snapshot
                     THEN [data EXCEPT ![Job.server] = "whole"] ELSE data
          /\ Emit({"failed"}, FALSE) /\ Fault
    /\ NextJob
    /\ AgentOnly /\ UNCHANGED <<store, snapshot>>

(* deleteBackupArtifact; a failure is only logged.                         *)
DeleteArchive ==
    /\ Doing("delete", "ready")
    /\ \/ /\ store' = [store EXCEPT ![Place(Job.dest)] = Without(@, Job.from)]
          /\ UNCHANGED backupFaults
       \/ Fault /\ UNCHANGED store
    /\ NextJob
    /\ AgentOnly /\ UNCHANGED <<data, snapshot, mail>>

JobStep == \/ Compress \/ Upload \/ Retain \/ Fetch \/ Snapshot \/ Wipe
           \/ Extract \/ DeleteArchive

(* backup_run_event: each message is its own task, so in any order, and    *)
(* the row takes whatever status it says.                                  *)
ApplyEvent(e) ==
    /\ e \in mail /\ mail' = mail \ {e}
    /\ run' = IF run[e.run] = NoRun THEN run
              ELSE [run EXCEPT ![e.run].status = e.status,
                               ![e.run].archive = @ \/ e.archive]
    /\ UNCHANGED <<destination, policy, edits, used, slot, poll, request, linked,
                   chain, work, store, data, snapshot, history, backupFaults>>

(* The connection drops, with the messages that were under way ...         *)
Disconnect ==
    /\ linked /\ linked' = FALSE /\ Fault
    /\ mail' = {}
    /\ UNCHANGED <<rowVars, slot, poll, request, chain, work, store, data,
                   snapshot, history>>

(* ... or the agent dies, with its chain and its pending polls.            *)
AgentCrash ==
    /\ linked' = FALSE /\ Fault
    /\ chain' = <<>> /\ work' = "ready"
    /\ poll' = [q \in Pollers |-> IF poll[q] = NoPoll THEN NoPoll
                                  ELSE [poll[q] EXCEPT !.at = "orphan"]]
    /\ UNCHANGED <<rowVars, slot, request, store, data, snapshot, mail,
                   history>>

Reconnect ==
    /\ ~linked /\ linked' = TRUE
    /\ UNCHANGED <<rowVars, slot, poll, request, agentVars, history,
                   backupFaults>>

-----------------------------------------------------------------------------
Dashboard ==
    \/ \E d \in Dests, e \in {"on", "off"} :
          \/ SetDestinationEnabled(d, e) \/ UpsertDestination(d, e, {})
          \/ \E s \in Servers : UpsertDestination(d, e, {<<s, d>>})
    \/ \E p \in Pairs, e \in {"on", "off"} :
          UpsertPolicy(p, e) \/ SetPolicyEnabled(p, e)
    \/ \E d \in Dests : AskDropDest(d)
    \/ \E p \in Pairs : AskDropPolicy(p)
    \/ \E k \in {"backup", "restore"}, s \in Servers, d \in Dests,
          from \in 0..MaxRuns : Trigger(k, s, d, from)
    \/ DropDest \/ DropPolicy
    \/ \E r \in RunIds : DeleteRun(r)

TickStep == \E q \in Pollers :
               \/ TickQueue(q) \/ TickReply(q) \/ TickCutOff(q)
               \/ \E p \in Pairs : TickCheck(q, p)

Deliver == \E e \in mail : ApplyEvent(e)

BackupNext ==
    \/ Dashboard \/ SlotPasses
    \/ \E q \in Pollers : TickBegin(q)
    \/ TickStep \/ JobStep \/ Deliver
    \/ Disconnect \/ AgentCrash \/ Reconnect

BackupSpec == BackupInit /\ [][BackupNext]_backupVars

-----------------------------------------------------------------------------
(***************************************************************************)
(* Properties.                                                             *)
(***************************************************************************)
Newest(p, s) ==
    LET good == {a \in store[p] : a.whole /\ a.server = s}
    IN {a \in good : \A b \in good : b.written <= a.written}

(* A backup that prunes old archives never removes the newest complete one *)
(* of any server: retention, in each of its three forms.                   *)
LatestKept ==
    [][Retain => \A p \in Places, s \in Servers :
                    Newest(p, s) \subseteq store'[p]]_backupVars

(* A game server's data survive any single failure or crash of a restore:  *)
(* they are in its directory, in a snapshot beside it, or - if it is the   *)
(* snapshot that failed - in the archive that is being extracted.          *)
SingleFaultSafe ==
    backupFaults <= 1 =>
        \A s \in Servers : \/ data[s] = "whole"
                           \/ s \in snapshot
                           \/ (work = "wipedBare" /\ Job.server = s)

(* Two jobs that are scheduled backups of one server to one destination.   *)
SameBackup(j, k) ==
    /\ j.do = "backup" /\ k.do = "backup" /\ j.scheduled /\ k.scheduled
    /\ j.server = k.server /\ j.dest = k.dest

(* Not both of one policy, unless two polls collided over it.              *)
NotTheSame(j, k) ==
    SameBackup(j, k) => <<j.server, j.dest>> \in collided

(* The agent never holds two scheduled backups of one server to one        *)
(* destination, also when polls overlap or go on after their call was cut  *)
(* off or the agent died, and whatever becomes of rows and events: what    *)
(* the schedule queues waits for the last one to end.  Except for policies *)
(* that two polls found due before either had inserted a run.              *)
NoDoubleJob ==
    LET once(jobs) == \A i, k \in DOMAIN jobs : i # k => NotTheSame(jobs[i], jobs[k])
    IN /\ once(chain)
       /\ \A q \in Serving : once(chain \o poll[q].out)
       /\ \A q, r \in Serving : q # r =>
             \A i \in DOMAIN poll[q].out, k \in DOMAIN poll[r].out :
                NotTheSame(poll[q].out[i], poll[r].out[k])
=============================================================================
