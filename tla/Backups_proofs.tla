--------------------------- MODULE Backups_proofs ---------------------------
(***************************************************************************)
(* Backups for any number of servers, destinations, runs and failures: a   *)
(* restore survives one fault, the agent is given no job twice, retention  *)
(* keeps the newest archive, and the panel mixes no forms.                 *)
(***************************************************************************)
EXTENDS BackupRuns, BackupPanel, Functions, FiniteSetTheorems,
        NaturalsInduction, TLAPS

-----------------------------------------------------------------------------
(***************************************************************************)
(* Types.                                                                  *)
(***************************************************************************)

(* BackupTypeOK without the archives, of which ArchivesTyped speaks, and   *)
(* what no proof needs.                                                    *)
RunsTyped ==
    /\ destination \in [Dests -> {"none", "on", "off", "gone"}]
    /\ run \in [RunIds -> Rows \cup {NoRun}] /\ used \in 0..MaxRuns
    /\ slot \in 0..MaxSlot /\ poll \in [Pollers -> Polls]
    /\ request \in Requests /\ chain \in Seq(Jobs) /\ mail \subseteq Events
    /\ backupFaults \in Nat

LEMMA RunsTypedFirst == BackupInit => RunsTyped
  BY BackupAssumption DEF BackupInit, RunsTyped, Polls, Requests

(* A row, and a job, of a run that is inserted.                            *)
LEMMA NewRowTyped ==
    ASSUME RunsTyped, NEW k \in {"backup", "restore"}, NEW s \in Servers,
           NEW d \in Dests
    PROVE  RowOf(k, s, d, "queued") \in Rows
  BY DEF RunsTyped, RowOf, Rows

LEMMA NewRunTyped ==
    ASSUME RunsTyped, used < MaxRuns
    PROVE  used + 1 \in RunIds /\ used + 1 \in 0..MaxRuns
  BY BackupAssumption DEF RunsTyped, RunIds

LEMMA TriggeredJobTyped ==
    ASSUME RunsTyped, NEW k \in {"backup", "restore"}, NEW s \in Servers,
           NEW d \in Dests, NEW r \in RunIds, NEW from,
           k = "restore" => from \in RunIds
    PROVE  JobOf(k, r, s, d, from) \in Jobs
  BY BackupAssumption DEF JobOf, Jobs

(* The jobs of the chain; a row whose status or destination is written.    *)
LEMMA ChainTyped ==
    ASSUME NEW c \in Seq(Jobs)
    PROVE  /\ \A j \in Jobs : Append(c, j) \in Seq(Jobs)
           /\ \A d \in Seq(Jobs) : c \o d \in Seq(Jobs)
           /\ c # <<>> => Tail(c) \in Seq(Jobs) /\ Head(c) \in Jobs
  OBVIOUS

LEMMA TriggerTyped ==
    ASSUME RunsTyped, NEW k \in {"backup", "restore"}, NEW s \in Servers,
           NEW d \in Dests, NEW from \in 0..MaxRuns, Trigger(k, s, d, from)
    PROVE  RunsTyped'
  <1>1. used < MaxRuns /\ (k = "restore" => from \in RunIds)
    BY DEF Trigger
  <1> DEFINE row == RowOf(k, s, d, "queued")
             job == JobOf(k, used + 1, s, d, from)
  <1>2. used + 1 \in RunIds /\ used + 1 \in 0..MaxRuns
    BY <1>1, NewRunTyped
  <1>3. row \in Rows /\ job \in Jobs
    BY <1>1, <1>2, NewRowTyped, TriggeredJobTyped
  <1>4. /\ used' = used + 1 /\ run' = [run EXCEPT ![used + 1] = row]
        /\ chain' = Append(chain, job)
        /\ UNCHANGED <<destination, slot, poll, request, mail, backupFaults>>
    BY DEF Trigger
  <1> HIDE DEF row, job
  <1> QED BY <1>2, <1>3, <1>4 DEF RunsTyped

LEMMA DeleteRunTyped ==
    ASSUME RunsTyped, NEW r \in RunIds, DeleteRun(r) PROVE RunsTyped'
  <1> DEFINE job == [do |-> "delete", dest |-> run[r].dest, from |-> r]
  <1>1. /\ run' = [run EXCEPT ![r] = NoRun]
        /\ \/ chain' = chain
           \/ run[r].dest \in Dests /\ chain' = Append(chain, job)
        /\ UNCHANGED <<destination, used, slot, poll, request, mail, backupFaults>>
    BY DEF DeleteRun
  <1>2. run[r].dest \in Dests => job \in Jobs
    BY DEF Jobs
  <1> HIDE DEF job
  <1> QED BY <1>1, <1>2 DEF RunsTyped

(* The dashboard's other requests.                                         *)
LEMMA DashboardTyped ==
    ASSUME RunsTyped, Dashboard PROVE RunsTyped'
  <1>1. ASSUME NEW d \in Dests, NEW e \in {"on", "off"}, NEW ps,
               UpsertDestination(d, e, ps)
        PROVE  RunsTyped'
    BY <1>1 DEF UpsertDestination, RunsTyped, agentVars
  <1>2. ASSUME NEW p \in Pairs, NEW e \in {"on", "off"},
               UpsertPolicy(p, e) \/ SetPolicyEnabled(p, e)
        PROVE  RunsTyped'
    BY <1>2 DEF UpsertPolicy, SetPolicyEnabled, RunsTyped, agentVars
  <1>3. ASSUME NEW d \in Dests, AskDropDest(d) PROVE RunsTyped'
    BY <1>3 DEF AskDropDest, Ask, RunsTyped, agentVars, Requests
  <1>4. ASSUME NEW p \in Pairs, AskDropPolicy(p) PROVE RunsTyped'
    BY <1>4 DEF AskDropPolicy, Ask, RunsTyped, agentVars, Requests
  <1>5. CASE DropPolicy
    BY <1>5 DEF DropPolicy, RunsTyped, agentVars, Requests
  <1>6. CASE DropDest
    <2>1. request.dest \in Dests
      BY <1>6 DEF DropDest, RunsTyped, Requests, NoRequest
    <2>2. run' \in [RunIds -> Rows \cup {NoRun}]
      <3>1. \A r \in RunIds : run[r] # NoRun =>
               [run[r] EXCEPT !.dest = "deleted"] \in Rows
        BY DEF RunsTyped, Rows
      <3> QED BY <1>6, <3>1 DEF DropDest, RunsTyped
    <2> QED BY <1>6, <2>1, <2>2 DEF DropDest, RunsTyped, agentVars, Requests
  <1> QED
    BY <1>1, <1>2, <1>3, <1>4, <1>5, <1>6, TriggerTyped, DeleteRunTyped
    DEF Dashboard, SetDestinationEnabled

(* The poll.                                                               *)
LEMMA PollFields ==
    ASSUME RunsTyped, NEW q \in Pollers, poll[q].at # "idle"
    PROVE  /\ poll[q] \in [at : {"server", "orphan"}, left : SUBSET Pairs,
                           due : SUBSET Pairs, since : 0..MaxSlot, out : Seq(Jobs)]
           /\ poll[q].due \subseteq Pairs /\ poll[q].out \in Seq(Jobs)
  BY DEF RunsTyped, Polls, NoPoll

LEMMA TickTyped ==
    ASSUME RunsTyped, NEW q \in Pollers,
           TickBegin(q) \/ TickQueue(q) \/ TickReply(q) \/ TickCutOff(q)
              \/ \E p \in Pairs : TickCheck(q, p)
    PROVE  RunsTyped'
  <1>1. CASE TickBegin(q)
    BY <1>1 DEF TickBegin, RunsTyped, Polls, rowVars, agentVars
  <1>2. ASSUME NEW p \in Pairs, TickCheck(q, p) PROVE RunsTyped'
    <2>1. poll[q] \in [at : {"server", "orphan"}, left : SUBSET Pairs,
                       due : SUBSET Pairs, since : 0..MaxSlot, out : Seq(Jobs)]
      BY <1>2, PollFields DEF TickCheck
    <2> DEFINE left == poll[q].left \ {p}
               due == IF Due(p, poll[q].since) THEN {p} ELSE {}
    <2>2. left \subseteq Pairs /\ due \subseteq Pairs
      BY <2>1
    <2>3. poll' = [poll EXCEPT ![q].left = left, ![q].due = due]
      BY <1>2 DEF TickCheck
    <2> HIDE DEF left, due
    <2>4. [poll[q] EXCEPT !.left = left, !.due = due] \in Polls
      BY <2>1, <2>2 DEF Polls
    <2>5. poll' \in [Pollers -> Polls]
      BY <2>3, <2>4 DEF RunsTyped
    <2>6. UNCHANGED <<destination, run, used, slot, request, chain, mail,
                      backupFaults>>
      BY <1>2 DEF TickCheck, rowVars, agentVars
    <2> QED BY <2>5, <2>6 DEF RunsTyped
  <1>3. CASE TickReply(q)
    <2>1. poll[q].out \in Seq(Jobs)
      BY <1>3, PollFields DEF TickReply
    <2>2. /\ poll' = [poll EXCEPT ![q] = NoPoll]
          /\ UNCHANGED <<destination, run, used, slot, request, mail, backupFaults>>
      BY <1>3 DEF TickReply, rowVars
    <2>3. chain' = chain \/ chain' = chain \o poll[q].out
      BY <1>3 DEF TickReply
    <2>4. chain' \in Seq(Jobs)
      BY <2>1, <2>3, ChainTyped DEF RunsTyped
    <2> QED BY <2>2, <2>3, <2>4 DEF RunsTyped, Polls
  <1>4. CASE TickQueue(q)
    <2>1. PICK p \in poll[q].due :
             \/ /\ Configured(p[2]) /\ used < MaxRuns
                /\ used' = used + 1
                /\ run' = [run EXCEPT ![used + 1] =
                              RowOf("backup", p[1], p[2], "queued")]
                /\ poll' = [poll EXCEPT ![q].due = {},
                      ![q].out = Append(@, [do |-> "backup", run |-> used + 1,
                                            server |-> p[1], dest |-> p[2],
                                            keep |-> KeepLast,
                                            scheduled |-> TRUE])]
             \/ /\ poll' = [poll EXCEPT ![q].due = {}]
                /\ UNCHANGED <<used, run>>
             \/ /\ poll' = [poll EXCEPT ![q] = NoPoll]
                /\ UNCHANGED <<used, run>>
      BY <1>4 DEF TickQueue
    <2>2. /\ poll[q] \in [at : {"server", "orphan"}, left : SUBSET Pairs,
                          due : SUBSET Pairs, since : 0..MaxSlot, out : Seq(Jobs)]
          /\ p[1] \in Servers /\ p[2] \in Dests
      BY <1>4, PollFields DEF TickQueue, Pairs
    <2>3. UNCHANGED <<destination, slot, request, chain, mail, backupFaults>>
      BY <1>4 DEF TickQueue, agentVars
    <2>4. CASE poll' = [poll EXCEPT ![q] = NoPoll] /\ UNCHANGED <<used, run>>
      BY <2>3, <2>4 DEF RunsTyped, Polls
    <2>5. CASE poll' = [poll EXCEPT ![q].due = {}] /\ UNCHANGED <<used, run>>
      <3>1. [poll[q] EXCEPT !.due = {}] \in Polls
        BY <2>2 DEF Polls
      <3> QED BY <2>3, <2>5, <3>1 DEF RunsTyped
    <2>6. CASE ~(poll' = [poll EXCEPT ![q] = NoPoll] /\ UNCHANGED <<used, run>>)
               /\ ~(poll' = [poll EXCEPT ![q].due = {}] /\ UNCHANGED <<used, run>>)
      <3> DEFINE job == [do |-> "backup", run |-> used + 1, server |-> p[1],
                         dest |-> p[2], keep |-> KeepLast, scheduled |-> TRUE]
                 row == RowOf("backup", p[1], p[2], "queued")
      <3>1. /\ used < MaxRuns /\ used' = used + 1
            /\ run' = [run EXCEPT ![used + 1] = row]
            /\ poll' = [poll EXCEPT ![q].due = {}, ![q].out = Append(@, job)]
        BY <2>1, <2>6
      <3>2. used + 1 \in RunIds /\ used + 1 \in 0..MaxRuns
        BY <3>1, NewRunTyped
      <3>3. job \in Jobs
        BY <2>2, <3>2, BackupAssumption DEF Jobs
      <3>4. row \in Rows BY <2>2, NewRowTyped
      <3> HIDE DEF job, row
      <3>0. Append(poll[q].out, job) \in Seq(Jobs)
        BY <2>2, <3>3, ChainTyped
      <3>5. [poll[q] EXCEPT !.due = {}, !.out = Append(@, job)] \in Polls
        BY <2>2, <3>0 DEF Polls
      <3> QED BY <2>3, <3>1, <3>2, <3>4, <3>5 DEF RunsTyped
    <2> QED BY <2>4, <2>5, <2>6
  <1>5. CASE TickCutOff(q)
    <2>1. poll[q] \in [at : {"server", "orphan"}, left : SUBSET Pairs,
                       due : SUBSET Pairs, since : 0..MaxSlot, out : Seq(Jobs)]
      BY <1>5, PollFields DEF TickCutOff, Serving
    <2>2. [poll[q] EXCEPT !.at = "orphan"] \in Polls
      BY <2>1 DEF Polls
    <2>3. /\ poll' = [poll EXCEPT ![q].at = "orphan"]
          /\ UNCHANGED <<destination, run, used, slot, request, chain, mail>>
          /\ backupFaults' = backupFaults + 1
      BY <1>5 DEF TickCutOff, Fault, rowVars, agentVars
    <2> QED BY <2>2, <2>3 DEF RunsTyped
  <1> QED BY <1>1, <1>2, <1>3, <1>4, <1>5

(* The first job of the chain: it sends events of its own run, and leaves  *)
(* the chain with the last one.                                            *)
JobEffect ==
    /\ chain # <<>>
    /\ \/ chain' = chain
       \/ chain' = Tail(chain)
    /\ \A e \in mail' \ mail :
          /\ Job.do \in {"backup", "restore"}
          /\ e \in Events /\ e.run = Job.run
          /\ e.status # "running" => chain' = Tail(chain)
    /\ UNCHANGED <<rowVars, slot, poll, request>>
    /\ backupFaults' = backupFaults \/ backupFaults' = backupFaults + 1

LEMMA EmitEffect ==
    ASSUME RunsTyped, chain # <<>>, Job.do \in {"backup", "restore"},
           NEW statuses \in SUBSET {"running", "done", "failed"},
           NEW arch \in BOOLEAN, Emit(statuses, arch)
    PROVE  \A e \in mail' \ mail :
              e \in Events /\ e.run = Job.run /\ e.status \in statuses
  <1>1. Job \in Jobs BY ChainTyped DEF RunsTyped, Job
  <1>2. Job.run \in RunIds BY <1>1 DEF Jobs
  <1> QED BY <1>2 DEF Emit, Events

LEMMA JobStepHasEffect ==
    ASSUME RunsTyped, JobStep PROVE JobEffect
  <1> USE DEF Doing, NextJob, Proceed, AgentOnly, Fault
  <1>1. chain # <<>> /\ UNCHANGED <<rowVars, slot, poll, request>>
    BY DEF JobStep, Compress, Upload, Retain, Fetch, Snapshot, Wipe, Extract,
           DeleteArchive
  <1>0. {"running"} \in SUBSET {"running", "done", "failed"}
        /\ {"running", "failed"} \in SUBSET {"running", "done", "failed"}
    OBVIOUS
  <1>2. CASE Compress
    <2>1. Job.do = "backup" BY <1>2 DEF Compress
    <2>2. CASE Emit({"running"}, FALSE) /\ chain' = chain /\ UNCHANGED backupFaults
      BY <1>0, <1>1, <2>1, <2>2, EmitEffect DEF JobEffect
    <2>3. CASE /\ Emit({"running", "failed"}, FALSE) /\ chain' = Tail(chain)
               /\ backupFaults' = backupFaults + 1
      BY <1>0, <1>1, <2>1, <2>3, EmitEffect DEF JobEffect
    <2> QED BY <1>2, <2>2, <2>3 DEF Compress
  <1>3. CASE Upload
    BY <1>1, <1>3, EmitEffect DEF Upload, JobEffect
  <1>4. CASE Retain
    BY <1>1, <1>4, EmitEffect DEF Retain, JobEffect
  <1>5. CASE Fetch
    <2>1. Job.do = "restore" BY <1>5 DEF Fetch
    <2>2. CASE Emit({"running"}, FALSE) /\ chain' = chain /\ UNCHANGED backupFaults
      BY <1>0, <1>1, <2>1, <2>2, EmitEffect DEF JobEffect
    <2>3. CASE /\ Emit({"running", "failed"}, FALSE) /\ chain' = Tail(chain)
               /\ backupFaults' = backupFaults \/ backupFaults' = backupFaults + 1
      BY <1>0, <1>1, <2>1, <2>3, EmitEffect DEF JobEffect
    <2> QED BY <1>5, <2>2, <2>3 DEF Fetch
  <1>6. CASE Snapshot \/ Wipe \/ DeleteArchive
    BY <1>1, <1>6 DEF Snapshot, Wipe, DeleteArchive, JobEffect
  <1>7. CASE Extract
    BY <1>1, <1>7, EmitEffect DEF Extract, JobEffect
  <1> QED BY <1>2, <1>3, <1>4, <1>5, <1>6, <1>7 DEF JobStep

LEMMA JobEffectTyped ==
    ASSUME RunsTyped, JobEffect PROVE RunsTyped'
  <1>1. chain' \in Seq(Jobs) BY ChainTyped DEF JobEffect, RunsTyped
  <1>2. mail' \subseteq Events BY DEF JobEffect, RunsTyped
  <1> QED BY <1>1, <1>2 DEF JobEffect, RunsTyped, rowVars

LEMMA ApplyTyped ==
    ASSUME RunsTyped, NEW e \in mail, ApplyEvent(e) PROVE RunsTyped'
  <1>1. e.run \in RunIds /\ e.status \in {"running", "done", "failed"}
        /\ e.archive \in BOOLEAN
    BY DEF RunsTyped, Events
  <1> DEFINE row == [run[e.run] EXCEPT !.status = e.status,
                                       !.archive = @ \/ e.archive]
  <1>2. run[e.run] # NoRun => row \in Rows
    BY <1>1 DEF RunsTyped, Rows
  <1>3. run' = run \/ (run[e.run] # NoRun /\ run' = [run EXCEPT ![e.run] = row])
    BY DEF ApplyEvent
  <1> HIDE DEF row
  <1> QED BY <1>1, <1>2, <1>3 DEF ApplyEvent, RunsTyped

LEMMA AgentGoneTyped ==
    ASSUME RunsTyped, AgentCrash \/ Disconnect \/ Reconnect \/ SlotPasses
    PROVE  RunsTyped'
  <1>1. CASE Disconnect \/ Reconnect \/ SlotPasses
    BY <1>1, BackupAssumption
    DEF Disconnect, Reconnect, SlotPasses, RunsTyped, Fault, rowVars, agentVars
  <1>2. CASE AgentCrash
    <2>1. \A q \in Pollers : poll[q] # NoPoll =>
             [poll[q] EXCEPT !.at = "orphan"] \in Polls
      BY DEF RunsTyped, Polls
    <2>2. poll' \in [Pollers -> Polls]
      BY <1>2, <2>1 DEF AgentCrash, Polls
    <2> QED BY <1>2, <2>2 DEF AgentCrash, RunsTyped, Fault, rowVars
  <1> QED BY <1>1, <1>2

LEMMA RunsTypedContinues ==
    RunsTyped /\ [BackupNext]_backupVars => RunsTyped'
  <1> SUFFICES ASSUME RunsTyped, [BackupNext]_backupVars PROVE RunsTyped'
    OBVIOUS
  <1>1. CASE UNCHANGED backupVars
    BY <1>1 DEF backupVars, RunsTyped
  <1>2. CASE JobStep
    BY <1>2, JobStepHasEffect, JobEffectTyped
  <1> QED
    BY <1>1, <1>2, DashboardTyped, TickTyped, ApplyTyped, AgentGoneTyped
    DEF BackupNext, TickStep, Deliver

-----------------------------------------------------------------------------
(***************************************************************************)
(* Restores.                                                               *)
(***************************************************************************)

(* The data of s are in its directory or beside it.                        *)
Safe(s) == data[s] = "whole" \/ s \in snapshot

(* What makes SingleFaultSafe inductive: a restore that is past its        *)
(* snapshot has one, or the one fault has been; and the job it works on    *)
(* stays the first of the chain.                                           *)
RestoreInv ==
    /\ data \in [Servers -> {"whole", "torn"}]
    /\ work # "ready" => chain # <<>>
    /\ work \in {"fetched", "snapped", "wiped", "bare", "wipedBare"} =>
          Job.server \in Servers
    /\ work \in {"bare", "wipedBare"} => backupFaults >= 1
    /\ backupFaults <= 1 =>
          /\ work \in {"snapped", "wiped"} => Job.server \in snapshot
          /\ \A s \in Servers : Safe(s) \/ (work = "wipedBare" /\ Job.server = s)

LEMMA RestoreBegins == BackupInit => RestoreInv
  BY DEF BackupInit, RestoreInv, Safe

(* Steps that are not of the first job leave it and the data alone.        *)
LEMMA OthersKeepRestore ==
    ASSUME RunsTyped, RestoreInv, UNCHANGED <<work, data, snapshot>>,
           backupFaults' = backupFaults \/ backupFaults' = backupFaults + 1,
           chain # <<>> => chain' # <<>> /\ Head(chain') = Head(chain)
    PROVE  RestoreInv'
  BY DEF RunsTyped, RestoreInv, Safe, Job

LEMMA FirstJobStays ==
    ASSUME NEW c \in Seq(Jobs), c # <<>>
    PROVE  /\ \A j \in Jobs : Append(c, j) # <<>> /\ Head(Append(c, j)) = Head(c)
           /\ \A d \in Seq(Jobs) : c \o d # <<>> /\ Head(c \o d) = Head(c)
  OBVIOUS

(* The steps of a restore, and of the other jobs.                          *)
LEMMA JobKeepsRestore ==
    ASSUME RunsTyped, RestoreInv, JobStep PROVE RestoreInv'
  <1> USE DEF Doing, NextJob, Proceed, Fault, Safe
  <1>1. CASE Compress \/ Upload \/ Retain \/ DeleteArchive
    <2>1. /\ work \in {"ready", "archived", "uploaded"} /\ chain # <<>>
          /\ work' \in {"ready", "archived", "uploaded"}
          /\ work' # "ready" => chain' = chain
          /\ UNCHANGED <<data, snapshot>>
          /\ backupFaults' = backupFaults \/ backupFaults' = backupFaults + 1
      BY <1>1 DEF Compress, Upload, Retain, DeleteArchive
    <2> QED BY <2>1 DEF RunsTyped, RestoreInv
  <1>2. CASE Fetch
    <2>1. /\ work = "ready" /\ chain # <<>> /\ Job.do = "restore"
          /\ \/ work' = "ready"
             \/ work' = "fetched" /\ chain' = chain
          /\ UNCHANGED <<data, snapshot>>
          /\ backupFaults' = backupFaults \/ backupFaults' = backupFaults + 1
      BY <1>2 DEF Fetch
    <2>2. Job \in Jobs BY <2>1, ChainTyped DEF RunsTyped, Job
    <2>3. Job.server \in Servers BY <2>1, <2>2 DEF Jobs
    <2> QED BY <2>1, <2>3 DEF RunsTyped, RestoreInv, Job
  <1>3. CASE Snapshot
    <2>1. /\ work = "fetched" /\ chain # <<>> /\ chain' = chain /\ data' = data
          /\ \/ /\ work' = "snapped" /\ backupFaults' = backupFaults
                /\ snapshot' = IF data[Job.server] = "whole"
                               THEN snapshot \cup {Job.server} ELSE snapshot
             \/ /\ work' = "bare" /\ backupFaults' = backupFaults + 1
                /\ snapshot' = snapshot
      BY <1>3 DEF Snapshot
    <2> QED BY <2>1 DEF RunsTyped, RestoreInv, Job
  <1>4. CASE Wipe
    <2>1. /\ chain # <<>> /\ chain' = chain /\ snapshot' = snapshot
          /\ backupFaults' = backupFaults
          /\ data' = [data EXCEPT ![Job.server] = "torn"]
          /\ \/ work = "snapped" /\ work' = "wiped"
             \/ work = "bare" /\ work' = "wipedBare"
      BY <1>4 DEF Wipe
    <2> QED BY <2>1 DEF RunsTyped, RestoreInv, Job
  <1>5. CASE Extract
    <2>1. /\ work \in {"wiped", "wipedBare"} /\ work' = "ready"
          /\ snapshot' = snapshot
          /\ \/ /\ data' = [data EXCEPT ![Job.server] = "whole"]
                /\ backupFaults' = backupFaults
             \/ /\ backupFaults' = backupFaults + 1
                /\ \/ data' = data
                   \/ data' = [data EXCEPT ![Job.server] = "whole"]
      BY <1>5 DEF Extract
    <2> QED BY <2>1 DEF RunsTyped, RestoreInv
  <1> QED BY <1>1, <1>2, <1>3, <1>4, <1>5 DEF JobStep

(* Every step but one of the first job and the agent's death.              *)
OthersEffect ==
    /\ UNCHANGED <<work, data, snapshot>>
    /\ backupFaults' = backupFaults \/ backupFaults' = backupFaults + 1
    /\ chain # <<>> => chain' # <<>> /\ Head(chain') = Head(chain)
    /\ \/ store' = store
       \/ \E r \in RunIds, d \in S3 :
             run[r].status = "done" /\ store' = [store EXCEPT ![d] = Without(@, r)]

LEMMA OthersHaveEffect ==
    RunsTyped /\ [BackupNext]_backupVars => JobStep \/ AgentCrash \/ OthersEffect
  <1> SUFFICES ASSUME RunsTyped, [BackupNext]_backupVars, ~JobStep, ~AgentCrash
               PROVE  OthersEffect
    OBVIOUS
  <1>1. ASSUME UNCHANGED <<work, data, snapshot, store, chain>>,
               backupFaults' = backupFaults \/ backupFaults' = backupFaults + 1
        PROVE  OthersEffect
    BY <1>1 DEF OthersEffect
  <1>2. CASE UNCHANGED backupVars
    BY <1>1, <1>2 DEF backupVars
  <1>3. ASSUME NEW k \in {"backup", "restore"}, NEW s \in Servers,
               NEW d \in Dests, NEW from \in 0..MaxRuns, Trigger(k, s, d, from)
        PROVE  OthersEffect
    <2> DEFINE job == JobOf(k, used + 1, s, d, from)
    <2>1. used + 1 \in RunIds /\ (k = "restore" => from \in RunIds)
      BY <1>3, NewRunTyped DEF Trigger
    <2>2. job \in Jobs BY <2>1, TriggeredJobTyped
    <2>3. /\ chain' = Append(chain, job)
          /\ UNCHANGED <<work, data, snapshot, store, backupFaults>>
      BY <1>3 DEF Trigger
    <2> HIDE DEF job
    <2> QED BY <2>2, <2>3, FirstJobStays DEF RunsTyped, OthersEffect
  <1>4. ASSUME NEW r \in RunIds, DeleteRun(r) PROVE OthersEffect
    <2> DEFINE job == [do |-> "delete", dest |-> run[r].dest, from |-> r]
    <2>1. run[r].dest \in Dests => job \in Jobs
      BY DEF Jobs
    <2>2. /\ \/ chain' = chain
             \/ run[r].dest \in Dests /\ chain' = Append(chain, job)
          /\ UNCHANGED <<work, data, snapshot, backupFaults>>
      BY <1>4 DEF DeleteRun
    <2>3. \/ store' = store
          \/ /\ run[r].dest \in S3 /\ run[r].status = "done"
             /\ store' = [store EXCEPT ![run[r].dest] = Without(@, r)]
      BY <1>4 DEF DeleteRun
    <2> HIDE DEF job
    <2>4. chain # <<>> => chain' # <<>> /\ Head(chain') = Head(chain)
      BY <2>1, <2>2, FirstJobStays DEF RunsTyped
    <2> QED BY <2>2, <2>3, <2>4 DEF OthersEffect
  <1>5. CASE Dashboard
    <2>1. ASSUME NEW d \in Dests, NEW e \in {"on", "off"}, NEW ps,
                 UpsertDestination(d, e, ps)
          PROVE  OthersEffect
      BY <1>1, <2>1 DEF UpsertDestination, agentVars
    <2>2. ASSUME NEW p \in Pairs, NEW e \in {"on", "off"},
                 UpsertPolicy(p, e) \/ SetPolicyEnabled(p, e)
          PROVE  OthersEffect
      BY <1>1, <2>2 DEF UpsertPolicy, SetPolicyEnabled, agentVars
    <2>3. ASSUME \/ \E d \in Dests : AskDropDest(d)
                 \/ \E p \in Pairs : AskDropPolicy(p)
          PROVE  OthersEffect
      BY <1>1, <2>3 DEF AskDropDest, AskDropPolicy, Ask, agentVars
    <2>4. CASE DropDest \/ DropPolicy
      BY <1>1, <2>4 DEF DropDest, DropPolicy, agentVars
    <2> QED
      BY <1>3, <1>4, <1>5, <2>1, <2>2, <2>3, <2>4
      DEF Dashboard, SetDestinationEnabled
  <1>6. ASSUME NEW q \in Pollers, TickReply(q) PROVE OthersEffect
    <2>1. poll[q].out \in Seq(Jobs)
      BY <1>6, PollFields DEF TickReply
    <2>2. /\ chain' = chain \/ chain' = chain \o poll[q].out
          /\ UNCHANGED <<work, data, snapshot, store, backupFaults>>
      BY <1>6 DEF TickReply
    <2> QED BY <2>1, <2>2, FirstJobStays DEF RunsTyped, OthersEffect
  <1>7. ASSUME NEW q \in Pollers,
               \/ TickBegin(q) \/ TickQueue(q) \/ TickCutOff(q)
               \/ \E p \in Pairs : TickCheck(q, p)
        PROVE  OthersEffect
    BY <1>1, <1>7
    DEF TickBegin, TickQueue, TickCheck, TickCutOff, Fault, agentVars
  <1>8. CASE SlotPasses \/ Disconnect \/ Reconnect \/ Deliver
    BY <1>1, <1>8
    DEF SlotPasses, Disconnect, Reconnect, Deliver, ApplyEvent, Fault, agentVars
  <1> QED
    BY <1>2, <1>5, <1>6, <1>7, <1>8 DEF BackupNext, TickStep

LEMMA RestoreContinues ==
    RunsTyped /\ RestoreInv /\ [BackupNext]_backupVars => RestoreInv'
  <1>1. RestoreInv /\ RunsTyped /\ AgentCrash => RestoreInv'
    BY DEF AgentCrash, Fault, RestoreInv, RunsTyped, Safe
  <1>2. RestoreInv /\ RunsTyped /\ OthersEffect => RestoreInv'
    BY OthersKeepRestore DEF OthersEffect
  <1> QED BY <1>1, <1>2, OthersHaveEffect, JobKeepsRestore

(* For any number of servers, destinations and jobs: after one failure or  *)
(* one death of the agent, at whatever step of a restore, the data of      *)
(* every server are in its directory or its snapshot, or in the archive    *)
(* that is being extracted.                                                *)
THEOREM RestoreIsSafe == BackupSpec => []SingleFaultSafe
  <1>1. RestoreInv => SingleFaultSafe
    BY DEF RestoreInv, SingleFaultSafe, Safe
  <1> QED
    BY RunsTypedFirst, RunsTypedContinues, RestoreBegins, RestoreContinues,
       <1>1, PTL
    DEF BackupSpec

-----------------------------------------------------------------------------
(***************************************************************************)
(* Scheduled jobs.                                                         *)
(***************************************************************************)

(* Jobs that the agent has, or has asked for and will be given.            *)
Held == Range(chain) \cup UNION {Range(poll[q].out) : q \in Serving}

Scheduled(j) == j.do = "backup" /\ j.scheduled
HasRun(j) == j.do # "delete"

(* Jobs of one run, which must not be held both.                           *)
Clash(j, k) == HasRun(j) /\ HasRun(k) /\ j.run = k.run
Once(jobs) == \A i, k \in DOMAIN jobs : Clash(jobs[i], jobs[k]) => i = k
RunsApart(jobs, others) ==
    \A j \in Range(jobs), k \in Range(others) : ~Clash(j, k)

(* What a row says as long as its job is held: that it is in flight, or of *)
(* a destination that is gone; no message that ends it is under way.       *)
InFlight(j) ==
    /\ run[j.run].status \in Inflight /\ run[j.run].kind = j.do
    /\ run[j.run].server = j.server
    /\ run[j.run].dest = j.dest \/ destination[j.dest] = "gone"
    /\ \A e \in mail : e.run = j.run => e.status = "running"

(* Every run has one job, and its row is in flight as long as that is held *)
(* - by an agent with any number of polls.                                 *)
HeldInv ==
    /\ \A e \in mail : e.run <= used
    /\ \A j \in Held : HasRun(j) => j.run <= used /\ InFlight(j)
    /\ Once(chain)
    /\ \A q \in Serving :
          /\ Once(poll[q].out) /\ RunsApart(chain, poll[q].out)
          /\ \A r \in Serving \ {q} : RunsApart(poll[q].out, poll[r].out)

(* What makes NoDoubleJob inductive: a policy that a tick has found due    *)
(* has no held job, since that job's row would have been in flight, and no *)
(* other tick has found it due - or the two have collided.                 *)
SlotInv ==
    /\ \A q \in Serving : \A p \in poll[q].due, j \in Held :
          Scheduled(j) /\ <<j.server, j.dest>> = p => p \in collided
    /\ \A q, r \in Serving : q # r => poll[q].due \cap poll[r].due \subseteq collided
    /\ \A j, k \in Held :
          SameBackup(j, k) => j.run = k.run \/ <<j.server, j.dest>> \in collided

LEMMA HeldBegins == BackupInit => HeldInv
  BY DEF BackupInit, HeldInv, Held, Serving, NoPoll, Once, Range

(* What is in a sequence that grew or shrank.                              *)
LEMMA RangeMoves ==
    ASSUME NEW c \in Seq(Jobs)
    PROVE  /\ Range(c) \subseteq Jobs
           /\ \A j \in Jobs : Range(Append(c, j)) = Range(c) \cup {j}
           /\ c # <<>> => Range(Tail(c)) \subseteq Range(c) /\ Head(c) \in Range(c)
           /\ \A d \in Seq(Jobs) : Range(c \o d) = Range(c) \cup Range(d)
  <1>1. Range(c) \subseteq Jobs BY DEF Range
  <1>2. ASSUME NEW j \in Jobs PROVE Range(Append(c, j)) = Range(c) \cup {j}
    <2>1. /\ DOMAIN Append(c, j) = DOMAIN c \cup {Len(c) + 1}
          /\ \A i \in DOMAIN c : Append(c, j)[i] = c[i]
          /\ Append(c, j)[Len(c) + 1] = j
      OBVIOUS
    <2> DEFINE a == Append(c, j) last == Len(c) + 1
    <2>2. /\ DOMAIN a = DOMAIN c \cup {last}
          /\ \A i \in DOMAIN c : a[i] = c[i]
          /\ a[last] = j
      BY <2>1
    <2> HIDE DEF a, last
    <2>3. Range(a) = Range(c) \cup {j} BY <2>2 DEF Range
    <2> QED BY <2>3 DEF a
  <1>3. ASSUME c # <<>>
        PROVE  Range(Tail(c)) \subseteq Range(c) /\ Head(c) \in Range(c)
    <2>1. /\ \A i \in DOMAIN Tail(c) : i + 1 \in DOMAIN c /\ Tail(c)[i] = c[i + 1]
          /\ 1 \in DOMAIN c /\ Head(c) = c[1]
      BY <1>3
    <2> QED BY <2>1 DEF Range
  <1>4. ASSUME NEW d \in Seq(Jobs) PROVE Range(c \o d) = Range(c) \cup Range(d)
    <2> DEFINE b == c \o d
    <2>1. /\ \A i \in DOMAIN b : \/ i \in DOMAIN c /\ b[i] = c[i]
                                 \/ i - Len(c) \in DOMAIN d /\ b[i] = d[i - Len(c)]
          /\ \A i \in DOMAIN c : i \in DOMAIN b /\ b[i] = c[i]
          /\ \A i \in DOMAIN d : i + Len(c) \in DOMAIN b /\ b[i + Len(c)] = d[i]
      OBVIOUS
    <2> HIDE DEF b
    <2>2. Range(b) = Range(c) \cup Range(d) BY <2>1 DEF Range
    <2> QED BY <2>2 DEF b
  <1> QED BY <1>1, <1>2, <1>3, <1>4

LEMMA ClashSymmetric == \A j, k : Clash(j, k) => Clash(k, j)
  BY DEF Clash

(* No job stays, comes or moves twice.                                     *)
LEMMA OnceMoves ==
    ASSUME NEW c \in Seq(Jobs), Once(c)
    PROVE  /\ \A j \in Jobs : (\A k \in Range(c) : ~Clash(k, j))
                                => Once(Append(c, j))
           /\ c # <<>> => Once(Tail(c))
           /\ \A d \in Seq(Jobs) : Once(d) /\ RunsApart(c, d) => Once(c \o d)
  <1>1. ASSUME NEW j \in Jobs, \A k \in Range(c) : ~Clash(k, j)
        PROVE  Once(Append(c, j))
    <2> DEFINE a == Append(c, j) last == Len(c) + 1
    <2>1. /\ DOMAIN a = DOMAIN c \cup {last}
          /\ \A i \in DOMAIN c : a[i] = c[i]
          /\ a[last] = j
      OBVIOUS
    <2> HIDE DEF a, last
    <2>2. \A i \in DOMAIN c : c[i] \in Range(c) BY DEF Range
    <2>3. Once(a) BY <1>1, <2>1, <2>2, ClashSymmetric DEF Once
    <2> QED BY <2>3 DEF a
  <1>2. ASSUME c # <<>> PROVE Once(Tail(c))
    <2>1. \A i \in DOMAIN Tail(c) :
             i \in Nat /\ i + 1 \in DOMAIN c /\ Tail(c)[i] = c[i + 1]
      BY <1>2
    <2>2. \A i, k \in DOMAIN Tail(c) : i + 1 = k + 1 => i = k
      BY <2>1
    <2> QED BY <2>1, <2>2 DEF Once
  <1>3. ASSUME NEW d \in Seq(Jobs), Once(d), RunsApart(c, d) PROVE Once(c \o d)
    <2> DEFINE b == c \o d
    <2>1. \A i \in DOMAIN b : /\ i \in Nat
                              /\ \/ i \in DOMAIN c /\ b[i] = c[i]
                                 \/ i - Len(c) \in DOMAIN d /\ b[i] = d[i - Len(c)]
      OBVIOUS
    <2> HIDE DEF b
    <2>2. ASSUME NEW i \in DOMAIN b, NEW k \in DOMAIN b, Clash(b[i], b[k])
          PROVE  i = k
      <3>1. /\ \A m \in DOMAIN c : c[m] \in Range(c)
            /\ \A m \in DOMAIN d : d[m] \in Range(d)
        BY DEF Range
      <3>2. CASE i \in DOMAIN c /\ b[i] = c[i] /\ k \in DOMAIN c /\ b[k] = c[k]
        BY <2>2, <3>2 DEF Once
      <3>3. CASE /\ i - Len(c) \in DOMAIN d /\ b[i] = d[i - Len(c)]
                 /\ k - Len(c) \in DOMAIN d /\ b[k] = d[k - Len(c)]
        <4>1. i - Len(c) = k - Len(c) BY <1>3, <2>2, <3>3 DEF Once
        <4> QED BY <2>1, <4>1
      <3>4. CASE \/ /\ i \in DOMAIN c /\ b[i] = c[i]
                    /\ k - Len(c) \in DOMAIN d /\ b[k] = d[k - Len(c)]
                 \/ /\ k \in DOMAIN c /\ b[k] = c[k]
                    /\ i - Len(c) \in DOMAIN d /\ b[i] = d[i - Len(c)]
        BY <1>3, <2>2, <3>1, <3>4, ClashSymmetric DEF RunsApart
      <3> QED BY <2>1, <3>2, <3>3, <3>4
    <2>3. Once(b) BY <2>2 DEF Once
    <2> QED BY <2>3 DEF b
  <1> QED BY <1>1, <1>2, <1>3

(* Steps that insert no run and hand out no job.                           *)
LEMMA RowsKeepHeld ==
    ASSUME RunsTyped, HeldInv, UNCHANGED <<run, used, chain, poll>>,
           mail' \subseteq mail,
           \A d \in Dests : destination[d] = "gone" => destination'[d] = "gone"
    PROVE  HeldInv'
  <1>1. Serving' = Serving /\ Held' = Held BY DEF Serving, Held
  <1>2. \A j \in Held : j \in Jobs
    <2>1. \A q \in Serving : q \in Pollers /\ poll[q].at # "idle" BY DEF Serving
    <2> QED BY <2>1, PollFields, RangeMoves DEF Held, RunsTyped
  <1>3. \A j \in Held : HasRun(j) => j.dest \in Dests
    BY <1>2 DEF Jobs, HasRun
  <1>4. \A j \in Held : HasRun(j) => InFlight(j)'
    BY <1>3 DEF HeldInv, InFlight
  <1> QED BY <1>1, <1>4 DEF HeldInv, Once, Serving

LEMMA HeldJobs ==
    ASSUME RunsTyped
    PROVE  /\ Held \subseteq Jobs
           /\ \A j \in Held : HasRun(j) => j.dest \in Dests /\ j.run \in RunIds
           /\ \A j \in Range(chain) : j \in Held
           /\ \A q \in Serving : /\ q \in Pollers /\ poll[q].out \in Seq(Jobs)
                                 /\ \A j \in Range(poll[q].out) : j \in Held
  <1>1. \A q \in Serving : q \in Pollers /\ poll[q].at # "idle" BY DEF Serving
  <1>2. Held \subseteq Jobs
    BY <1>1, PollFields, RangeMoves DEF Held, RunsTyped
  <1>3. \A j \in Jobs : HasRun(j) => j.dest \in Dests /\ j.run \in RunIds
    BY DEF Jobs, HasRun
  <1>4. \A q \in Serving : /\ q \in Pollers /\ poll[q].out \in Seq(Jobs)
                           /\ \A j \in Range(poll[q].out) : j \in Held
    BY <1>1, PollFields DEF Held
  <1>5. \A j \in Range(chain) : j \in Held
    BY DEF Held
  <1> QED BY <1>2, <1>3, <1>4, <1>5

LEMMA DropDestKeepsHeld ==
    ASSUME RunsTyped, HeldInv, DropDest PROVE HeldInv'
  <1>1. /\ UNCHANGED <<used, chain, poll, mail>>
        /\ destination' = [destination EXCEPT ![request.dest] = "gone"]
        /\ run' = [r \in RunIds |->
                      IF run[r] # NoRun /\ run[r].dest = request.dest
                      THEN [run[r] EXCEPT !.dest = "deleted"] ELSE run[r]]
    BY DEF DropDest, agentVars
  <1>2. Serving' = Serving /\ Held' = Held BY <1>1 DEF Serving, Held
  <1>3. ASSUME NEW j \in Held, HasRun(j) PROVE InFlight(j)'
    <2>1. j.run \in RunIds /\ j.dest \in Dests /\ InFlight(j)
      BY <1>3, HeldJobs DEF HeldInv
    <2>2. run[j.run] \in Rows
      BY <2>1 DEF RunsTyped, InFlight, Inflight, NoRun
    <2>3. /\ run'[j.run].status = run[j.run].status
          /\ run'[j.run].kind = run[j.run].kind
          /\ run'[j.run].server = run[j.run].server
          /\ \/ run'[j.run].dest = run[j.run].dest
             \/ run[j.run].dest = request.dest
      BY <1>1, <2>1, <2>2 DEF Rows
    <2>4. \/ destination'[j.dest] = destination[j.dest]
          \/ destination'[j.dest] = "gone"
      BY <1>1, <2>1 DEF RunsTyped
    <2>5. run[j.run].dest = request.dest /\ run[j.run].dest = j.dest =>
             destination'[j.dest] = "gone"
      BY <1>1, <2>1 DEF RunsTyped
    <2> QED BY <1>1, <2>1, <2>3, <2>4, <2>5 DEF InFlight
  <1> QED BY <1>1, <1>2, <1>3 DEF HeldInv, Once

LEMMA TriggerKeepsHeld ==
    ASSUME RunsTyped, HeldInv, NEW k \in {"backup", "restore"},
           NEW s \in Servers, NEW d \in Dests, NEW from \in 0..MaxRuns,
           Trigger(k, s, d, from)
    PROVE  HeldInv'
  <1>1. used + 1 \in RunIds /\ (k = "restore" => from \in RunIds) /\ used \in Nat
    BY NewRunTyped, BackupAssumption DEF Trigger, RunsTyped
  <1>0. PICK job : job = JobOf(k, used + 1, s, d, from) OBVIOUS
  <1>2. job \in Jobs BY <1>0, <1>1, TriggeredJobTyped
  <1>3. /\ job.run = used + 1 /\ job.do = k /\ HasRun(job)
        /\ job.server = s /\ job.dest = d
    BY <1>0 DEF JobOf, HasRun
  <1>4. /\ used' = used + 1 /\ chain' = Append(chain, job)
        /\ run' = [run EXCEPT ![used + 1] = RowOf(k, s, d, "queued")]
        /\ UNCHANGED <<destination, poll, mail>>
    BY <1>0 DEF Trigger
  <1>5. Serving' = Serving BY <1>4 DEF Serving
  <1>6. Range(chain') = Range(chain) \cup {job} /\ Held' = Held \cup {job}
    <2>1. Range(chain') = Range(chain) \cup {job}
      BY <1>2, <1>4, RangeMoves DEF RunsTyped
    <2> QED BY <1>4, <1>5, <2>1 DEF Held
  <1>7. \A j \in Held : ~Clash(j, job)
    <2>1. \A j \in Held : HasRun(j) => j.run # used + 1
      BY <1>1, HeldJobs DEF HeldInv, RunIds
    <2> QED BY <1>3, <2>1 DEF Clash
  <1>8. Once(chain') /\ \A q \in Serving : RunsApart(chain', poll[q].out)
    BY <1>2, <1>4, <1>6, <1>7, OnceMoves, HeldJobs, ClashSymmetric
    DEF HeldInv, RunsTyped, RunsApart
  <1>9. ASSUME NEW j \in Held, HasRun(j) PROVE InFlight(j)'
    <2>1. j.run \in RunIds /\ j.run # used + 1 /\ InFlight(j)
      BY <1>1, <1>9, HeldJobs DEF HeldInv, RunIds
    <2> QED BY <1>4, <2>1 DEF InFlight, RunsTyped
  <1>10. /\ \A e \in mail' : e.run <= used'
         /\ \A j \in Held' : HasRun(j) => j.run <= used'
    <2>1. \A e \in mail : e.run \in Nat BY DEF RunsTyped, Events, RunIds
    <2>2. \A j \in Held : HasRun(j) => j.run \in Nat
      BY HeldJobs DEF RunIds
    <2> QED BY <1>1, <1>3, <1>4, <1>6, <2>1, <2>2 DEF HeldInv
  <1>11. InFlight(job)'
    <2>1. /\ run'[used + 1].status = "queued" /\ run'[used + 1].kind = k
          /\ run'[used + 1].server = s /\ run'[used + 1].dest = d
      BY <1>1, <1>4 DEF RunsTyped, RowOf
    <2>2. \A e \in mail : e.run # used + 1
      BY <1>1 DEF HeldInv, RunsTyped, Events, RunIds
    <2> QED BY <1>3, <1>4, <2>1, <2>2 DEF InFlight, Inflight
  <1>12. \A j \in Held' : HasRun(j) => j.run <= used' /\ InFlight(j)'
    BY <1>6, <1>9, <1>10, <1>11
  <1> QED BY <1>4, <1>5, <1>8, <1>10, <1>12 DEF HeldInv

LEMMA DeleteRunKeepsHeld ==
    ASSUME RunsTyped, HeldInv, NEW r \in RunIds, DeleteRun(r) PROVE HeldInv'
  <1> DEFINE job == [do |-> "delete", dest |-> run[r].dest, from |-> r]
  <1>1. /\ run' = [run EXCEPT ![r] = NoRun] /\ run[r].status = "done"
        /\ \/ chain' = chain
           \/ run[r].dest \in Dests /\ chain' = Append(chain, job)
        /\ UNCHANGED <<destination, used, poll, mail>>
    BY DEF DeleteRun
  <1>2. ~HasRun(job) BY DEF HasRun
  <1>3. run[r].dest \in Dests => job \in Jobs BY DEF Jobs
  <1> HIDE DEF job
  <1>4. Serving' = Serving BY <1>1 DEF Serving
  <1>5. ASSUME NEW j \in Held, HasRun(j) PROVE InFlight(j)'
    <2>1. j.run \in RunIds /\ InFlight(j) BY <1>5, HeldJobs DEF HeldInv
    <2>2. j.run # r BY <1>1, <2>1 DEF InFlight, Inflight
    <2> QED BY <1>1, <2>1, <2>2 DEF InFlight, RunsTyped
  <1>6. CASE chain' = chain
    <2>1. Held' = Held BY <1>1, <1>4, <1>6 DEF Held
    <2> QED BY <1>1, <1>4, <1>5, <1>6, <2>1 DEF HeldInv, Once
  <1>7. CASE run[r].dest \in Dests /\ chain' = Append(chain, job)
    <2>1. Range(chain') = Range(chain) \cup {job} /\ Held' = Held \cup {job}
      <3>1. Range(chain') = Range(chain) \cup {job}
        BY <1>3, <1>7, RangeMoves DEF RunsTyped
      <3> QED BY <1>1, <1>4, <3>1 DEF Held
    <2>2. \A j \in Held : ~Clash(j, job)
      BY <1>2 DEF Clash
    <2>3. Once(chain') /\ \A q \in Serving : RunsApart(chain', poll[q].out)
      BY <1>3, <1>7, <2>1, <2>2, OnceMoves, HeldJobs, ClashSymmetric
      DEF HeldInv, RunsTyped, RunsApart
    <2> QED BY <1>1, <1>2, <1>4, <1>5, <2>1, <2>3 DEF HeldInv
  <1> QED BY <1>1, <1>6, <1>7

(* An event puts the row of its run in flight, or ends it; no row of a     *)
(* held job.                                                               *)
LEMMA EventKeepsHeld ==
    ASSUME RunsTyped, HeldInv, NEW e \in mail, ApplyEvent(e) PROVE HeldInv'
  <1>1. /\ UNCHANGED <<destination, used, poll, chain>> /\ mail' \subseteq mail
        /\ run' = IF run[e.run] = NoRun THEN run
                  ELSE [run EXCEPT ![e.run].status = e.status,
                                   ![e.run].archive = @ \/ e.archive]
    BY DEF ApplyEvent
  <1>2. Serving' = Serving /\ Held' = Held BY <1>1 DEF Serving, Held
  <1>3. ASSUME NEW j \in Held, HasRun(j) PROVE InFlight(j)'
    <2>1. j.run \in RunIds /\ InFlight(j) BY <1>3, HeldJobs DEF HeldInv
    <2>2. run[j.run] \in Rows
      BY <2>1 DEF RunsTyped, InFlight, Inflight, NoRun
    <2>3. CASE e.run # j.run
      <3>1. run'[j.run] = run[j.run] BY <1>1, <2>1, <2>3 DEF RunsTyped
      <3> QED BY <1>1, <2>1, <3>1 DEF InFlight
    <2>4. CASE e.run = j.run
      <3>1. e.status = "running" BY <2>1, <2>4 DEF InFlight
      <3>2. run[j.run] # NoRun BY <2>2 DEF Rows, NoRun
      <3>3. run'[j.run] = [run[j.run] EXCEPT !.status = "running",
                              !.archive = run[j.run].archive \/ e.archive]
        BY <1>1, <2>1, <2>4, <3>1, <3>2 DEF RunsTyped
      <3>4. /\ run'[j.run].status = "running"
            /\ run'[j.run].kind = run[j.run].kind
            /\ run'[j.run].server = run[j.run].server
            /\ run'[j.run].dest = run[j.run].dest
        BY <2>2, <3>3 DEF Rows
      <3> QED BY <1>1, <2>1, <3>4 DEF InFlight, Inflight
    <2> QED BY <2>3, <2>4
  <1> QED BY <1>1, <1>2, <1>3 DEF HeldInv, Once

(* The last event of a run is sent when its job leaves the chain.          *)
LEMMA JobKeepsHeld ==
    ASSUME RunsTyped, HeldInv, JobEffect PROVE HeldInv'
  <1>1. /\ UNCHANGED <<destination, run, used, poll>> /\ chain # <<>>
        /\ chain' = chain \/ chain' = Tail(chain)
        /\ \A e \in mail' \ mail :
              /\ HasRun(Job) /\ e.run = Job.run
              /\ e.status # "running" => chain' = Tail(chain)
    BY DEF JobEffect, rowVars, HasRun
  <1>2. Job \in Held BY <1>1, RangeMoves DEF RunsTyped, Held, Job
  <1>3. Serving' = Serving BY <1>1 DEF Serving
  <1>4. Range(chain') \subseteq Range(chain) /\ Held' \subseteq Held
    <2>1. Range(chain') \subseteq Range(chain) BY <1>1, RangeMoves DEF RunsTyped
    <2> QED BY <1>1, <1>3, <2>1 DEF Held
  <1>5. Once(chain') BY <1>1, OnceMoves DEF HeldInv, RunsTyped
  <1>6. ASSUME chain' = Tail(chain), NEW j \in Held', HasRun(j), HasRun(Job)
        PROVE  j.run # Job.run
    <2>1. CASE j \in Range(chain')
      <3>1. PICK i \in DOMAIN chain' : chain'[i] = j BY <2>1 DEF Range
      <3>2. /\ i + 1 \in DOMAIN chain /\ chain[i + 1] = j /\ i + 1 # 1
            /\ 1 \in DOMAIN chain /\ chain[1] = Job
        BY <1>1, <1>6, <3>1 DEF RunsTyped, Job
      <3> QED BY <1>6, <3>2 DEF HeldInv, Once, Clash
    <2>2. ASSUME NEW q \in Serving, j \in Range(poll[q].out) PROVE j.run # Job.run
      <3>1. Job \in Range(chain) BY <1>1, RangeMoves DEF RunsTyped, Job
      <3> QED BY <1>6, <2>2, <3>1 DEF HeldInv, RunsApart, Clash
    <2> QED BY <1>1, <1>3, <2>1, <2>2 DEF Held
  <1>7. ASSUME NEW j \in Held', HasRun(j) PROVE InFlight(j)'
    <2>1. InFlight(j)
      BY <1>4, <1>7 DEF HeldInv
    <2>2. \A e \in mail' : e.run = j.run => e.status = "running"
      BY <1>1, <1>6, <1>7, <2>1 DEF InFlight
    <2> QED BY <1>1, <2>1, <2>2 DEF InFlight
  <1>8. \A e \in mail' : e.run <= used'
    BY <1>1, <1>2 DEF HeldInv
  <1> QED BY <1>1, <1>3, <1>4, <1>5, <1>7, <1>8 DEF HeldInv, RunsApart

(* The polls: a new one waits with nothing, and what is checked or passed  *)
(* over moves no job.                                                      *)
LEMMA PollKeepsHeld ==
    ASSUME RunsTyped, HeldInv, NEW q \in Pollers,
           UNCHANGED <<destination, run, used, chain, mail>>,
           \A r \in Pollers \ {q} : poll'[r] = poll[r],
           \/ poll'[q].at = "idle"
           \/ poll'[q].out = <<>>
           \/ poll'[q].at = poll[q].at /\ poll'[q].out = poll[q].out
    PROVE  Held' \subseteq Held /\ HeldInv'
  <1>1. Serving \subseteq Pollers /\ Serving' \subseteq Serving \cup {q}
    BY DEF Serving
  <1>2. \A r \in Serving' : \/ poll'[r].out = <<>>
                            \/ r \in Serving /\ poll'[r].out = poll[r].out
    BY DEF Serving
  <1>3. Range(<<>>) = {} /\ Once(<<>>)
    BY DEF Range, Once
  <1>4. Held' \subseteq Held
    BY <1>2, <1>3 DEF Held
  <1>5. \A j \in Held : InFlight(j) => InFlight(j)'
    BY DEF InFlight
  <1>6. \A r \in Serving' :
           /\ Once(poll'[r].out) /\ RunsApart(chain, poll'[r].out)
           /\ \A z \in Serving' \ {r} : RunsApart(poll'[r].out, poll'[z].out)
    BY <1>2, <1>3 DEF HeldInv, RunsApart
  <1>7. \A j \in Held' : HasRun(j) => j.run <= used' /\ InFlight(j)'
    BY <1>4, <1>5 DEF HeldInv
  <1> QED BY <1>4, <1>6, <1>7 DEF HeldInv

(* What a new poll and a check do to the polls.                            *)
LEMMA PollMoves ==
    ASSUME RunsTyped, NEW q \in Pollers
    PROVE  /\ TickBegin(q) => /\ \A r \in Pollers \ {q} : poll'[r] = poll[r]
                              /\ poll'[q].at = "server" /\ poll'[q].due = {}
                              /\ poll'[q].out = <<>>
                              /\ UNCHANGED <<destination, run, used, chain, mail>>
           /\ \A p \in Pairs : TickCheck(q, p) =>
                 /\ \A r \in Pollers \ {q} : poll'[r] = poll[r]
                 /\ poll'[q].at = poll[q].at /\ poll'[q].out = poll[q].out
                 /\ \/ poll'[q].due = {}
                    \/ poll'[q].due = {p} /\ Due(p, poll[q].since)
                 /\ UNCHANGED <<destination, run, used, chain, mail>>
  <1>1. ASSUME TickBegin(q)
        PROVE  /\ \A r \in Pollers \ {q} : poll'[r] = poll[r]
               /\ poll'[q].at = "server" /\ poll'[q].due = {}
               /\ poll'[q].out = <<>>
               /\ UNCHANGED <<destination, run, used, chain, mail>>
    BY <1>1 DEF TickBegin, RunsTyped, rowVars, agentVars
  <1>2. ASSUME NEW p \in Pairs, TickCheck(q, p)
        PROVE  /\ \A r \in Pollers \ {q} : poll'[r] = poll[r]
               /\ poll'[q].at = poll[q].at /\ poll'[q].out = poll[q].out
               /\ \/ poll'[q].due = {}
                  \/ poll'[q].due = {p} /\ Due(p, poll[q].since)
               /\ UNCHANGED <<destination, run, used, chain, mail>>
    <2>1. poll[q] \in [at : {"server", "orphan"}, left : SUBSET Pairs,
                       due : SUBSET Pairs, since : 0..MaxSlot, out : Seq(Jobs)]
      BY <1>2, PollFields DEF TickCheck
    <2> DEFINE due == IF Due(p, poll[q].since) THEN {p} ELSE {}
    <2>2. poll' = [poll EXCEPT ![q].left = @ \ {p}, ![q].due = due]
      BY <1>2 DEF TickCheck
    <2>3. due = {} \/ (due = {p} /\ Due(p, poll[q].since)) OBVIOUS
    <2> HIDE DEF due
    <2>4. UNCHANGED <<destination, run, used, chain, mail>>
      BY <1>2 DEF TickCheck, rowVars, agentVars
    <2> QED BY <2>1, <2>2, <2>3, <2>4 DEF RunsTyped
  <1> QED BY <1>1, <1>2

(* A policy that is queued gets a run of its own and, if the agent waits   *)
(* for the answer, a job; otherwise it is passed over or the tick fails.   *)
Queued(q, p) ==
    /\ used < MaxRuns /\ used' = used + 1
    /\ run' = [run EXCEPT ![used + 1] = RowOf("backup", p[1], p[2], "queued")]
    /\ \A r \in Pollers \ {q} : poll'[r] = poll[r]
    /\ poll'[q].at = poll[q].at /\ poll'[q].due = {}
    /\ poll'[q].out =
          Append(poll[q].out, [do |-> "backup", run |-> used + 1, server |-> p[1],
                               dest |-> p[2], keep |-> KeepLast, scheduled |-> TRUE])
PassedOver(q) ==
    /\ UNCHANGED <<run, used>>
    /\ \A r \in Pollers \ {q} : poll'[r] = poll[r]
    /\ \/ poll'[q].at = "idle"
       \/ /\ poll'[q].at = poll[q].at /\ poll'[q].due = {}
          /\ poll'[q].out = poll[q].out

LEMMA QueueMoves ==
    ASSUME RunsTyped, NEW q \in Pollers, TickQueue(q)
    PROVE  /\ UNCHANGED <<destination, chain, mail>>
           /\ \E p \in poll[q].due : p \in Pairs /\ (Queued(q, p) \/ PassedOver(q))
  <1>1. PICK p \in poll[q].due :
           \/ /\ used < MaxRuns /\ used' = used + 1
              /\ run' = [run EXCEPT ![used + 1] =
                            RowOf("backup", p[1], p[2], "queued")]
              /\ poll' = [poll EXCEPT ![q].due = {},
                    ![q].out = Append(@, [do |-> "backup", run |-> used + 1,
                                          server |-> p[1], dest |-> p[2],
                                          keep |-> KeepLast,
                                          scheduled |-> TRUE])]
           \/ /\ poll' = [poll EXCEPT ![q].due = {}]
              /\ UNCHANGED <<used, run>>
           \/ /\ poll' = [poll EXCEPT ![q] = NoPoll]
              /\ UNCHANGED <<used, run>>
    BY DEF TickQueue
  <1>2. /\ poll[q] \in [at : {"server", "orphan"}, left : SUBSET Pairs,
                        due : SUBSET Pairs, since : 0..MaxSlot, out : Seq(Jobs)]
        /\ p \in Pairs
    BY PollFields DEF TickQueue
  <1>3. UNCHANGED <<destination, chain, mail>>
    BY DEF TickQueue, agentVars
  <1>4. CASE \/ poll' = [poll EXCEPT ![q].due = {}] /\ UNCHANGED <<used, run>>
             \/ poll' = [poll EXCEPT ![q] = NoPoll] /\ UNCHANGED <<used, run>>
    <2>1. PassedOver(q)
      BY <1>2, <1>4 DEF RunsTyped, NoPoll, PassedOver
    <2> QED BY <1>2, <1>3, <2>1
  <1> DEFINE new == [do |-> "backup", run |-> used + 1, server |-> p[1],
                     dest |-> p[2], keep |-> KeepLast, scheduled |-> TRUE]
             row == RowOf("backup", p[1], p[2], "queued")
  <1>5. CASE /\ used < MaxRuns /\ used' = used + 1
             /\ run' = [run EXCEPT ![used + 1] = row]
             /\ poll' = [poll EXCEPT ![q].due = {}, ![q].out = Append(@, new)]
    <2>1. PICK job : job = new OBVIOUS
    <2>2. /\ \A r \in Pollers \ {q} : poll'[r] = poll[r]
          /\ poll'[q].at = poll[q].at /\ poll'[q].due = {}
          /\ poll'[q].out = Append(poll[q].out, job)
      <3> HIDE DEF new, row
      <3> QED BY <1>2, <1>5, <2>1 DEF RunsTyped
    <2>3. Queued(q, p)
      BY <1>5, <2>1, <2>2 DEF Queued
    <2> QED BY <1>2, <1>3, <2>3
  <1> QED BY <1>1, <1>4, <1>5

(* The job of a queued run, which no other job has.                        *)
LEMMA QueuedJob ==
    ASSUME RunsTyped, HeldInv, NEW q \in Pollers, poll[q].at # "idle",
           NEW p \in Pairs, Queued(q, p), UNCHANGED <<destination, chain, mail>>
    PROVE  /\ Serving' = Serving
           /\ \E job \in Jobs :
                 /\ job.run = used + 1 /\ Scheduled(job) /\ HasRun(job)
                 /\ <<job.server, job.dest>> = p /\ InFlight(job)'
                 /\ \A j \in Held : ~Clash(j, job)
                 /\ poll'[q].out = Append(poll[q].out, job)
                 /\ Range(poll'[q].out) = Range(poll[q].out) \cup {job}
                 /\ Held' = IF q \in Serving THEN Held \cup {job} ELSE Held
  <1>1. used + 1 \in RunIds /\ used \in Nat
    BY NewRunTyped, BackupAssumption DEF RunsTyped, Queued
  <1>2. PICK job : job = [do |-> "backup", run |-> used + 1, server |-> p[1],
                          dest |-> p[2], keep |-> KeepLast, scheduled |-> TRUE]
    OBVIOUS
  <1>3. p[1] \in Servers /\ p[2] \in Dests /\ p = <<p[1], p[2]>>
    BY DEF Pairs
  <1>4. job \in Jobs
    BY <1>1, <1>2, <1>3, BackupAssumption DEF Jobs
  <1>5. /\ job.run = used + 1 /\ job.server = p[1] /\ job.dest = p[2]
        /\ job.do = "backup" /\ Scheduled(job) /\ HasRun(job)
    BY <1>2 DEF Scheduled, HasRun
  <1>6. /\ Serving' = Serving /\ \A r \in Serving : r # q => poll'[r] = poll[r]
        /\ poll'[q].out = Append(poll[q].out, job)
    BY <1>2 DEF Serving, Queued
  <1>7. Range(poll'[q].out) = Range(poll[q].out) \cup {job}
    BY <1>4, <1>6, PollFields, RangeMoves
  <1>8. Held' = IF q \in Serving THEN Held \cup {job} ELSE Held
    <2>1. CASE q \in Serving BY <1>6, <1>7, <2>1 DEF Held
    <2>2. CASE q \notin Serving BY <1>6, <2>2 DEF Held
    <2> QED BY <2>1, <2>2
  <1>9. InFlight(job)'
    <2>1. /\ run'[used + 1].status = "queued" /\ run'[used + 1].kind = "backup"
          /\ run'[used + 1].server = p[1] /\ run'[used + 1].dest = p[2]
      BY <1>1 DEF RunsTyped, RowOf, Queued
    <2>2. \A e \in mail : e.run # used + 1
      BY <1>1 DEF HeldInv, RunsTyped, Events, RunIds
    <2> QED BY <1>5, <2>1, <2>2 DEF InFlight, Inflight
  <1>10. \A j \in Held : ~Clash(j, job)
    <2>1. \A j \in Held : HasRun(j) => j.run # used + 1
      BY <1>1, HeldJobs DEF HeldInv, RunIds
    <2> QED BY <1>5, <2>1 DEF Clash
  <1> QED BY <1>3, <1>4, <1>5, <1>6, <1>7, <1>8, <1>9, <1>10

LEMMA QueueKeepsHeld ==
    ASSUME RunsTyped, HeldInv, NEW q \in Pollers, TickQueue(q)
    PROVE  HeldInv'
  <1>1. PICK p \in Pairs : Queued(q, p) \/ PassedOver(q)
    BY QueueMoves
  <1>2. UNCHANGED <<destination, chain, mail>> /\ poll[q].at # "idle"
    BY QueueMoves DEF TickQueue
  <1>3. CASE PassedOver(q)
    BY <1>2, <1>3, PollKeepsHeld DEF PassedOver
  <1>4. CASE Queued(q, p)
    <2>1. used + 1 \in RunIds /\ used \in Nat /\ used' = used + 1
      BY <1>4, NewRunTyped, BackupAssumption DEF RunsTyped, Queued
    <2>2. PICK job \in Jobs :
             /\ job.run = used + 1 /\ HasRun(job) /\ InFlight(job)'
             /\ \A j \in Held : ~Clash(j, job)
             /\ poll'[q].out = Append(poll[q].out, job)
             /\ Range(poll'[q].out) = Range(poll[q].out) \cup {job}
             /\ Held' \subseteq Held \cup {job}
      BY <1>2, <1>4, QueuedJob
    <2>3. Serving' = Serving BY <1>2, <1>4, QueuedJob
    <2>4. ASSUME NEW j \in Held, HasRun(j) PROVE InFlight(j)' /\ j.run <= used'
      <3>1. j.run \in RunIds /\ j.run <= used /\ InFlight(j)
        BY <2>4, HeldJobs DEF HeldInv
      <3>2. run'[j.run] = run[j.run]
        BY <1>4, <2>1, <3>1 DEF RunsTyped, RunIds, Queued
      <3>3. j.run <= used' BY <2>1, <3>1 DEF RunIds
      <3> QED BY <1>2, <3>1, <3>2, <3>3 DEF InFlight
    <2>5. \A e \in mail' : e.run <= used'
      <3>1. \A e \in mail : e.run \in Nat BY DEF RunsTyped, Events, RunIds
      <3> QED BY <1>2, <2>1, <3>1 DEF HeldInv
    <2>6. \A j \in Held' : HasRun(j) => j.run <= used' /\ InFlight(j)'
      BY <2>1, <2>2, <2>4
    <2>7. ASSUME NEW r \in Serving
          PROVE  Once(poll'[r].out) /\ RunsApart(chain, poll'[r].out)
      <3>1. CASE r # q
        BY <1>4, <2>7, <3>1 DEF HeldInv, Queued, Serving
      <3>2. CASE r = q
        <4>1. /\ poll[q].out \in Seq(Jobs) /\ Once(poll[q].out)
              /\ \A j \in Range(poll[q].out) : j \in Held
              /\ \A j \in Range(chain) : j \in Held
          BY <2>7, <3>2, HeldJobs DEF HeldInv
        <4>2. Once(poll'[q].out) BY <2>2, <4>1, OnceMoves
        <4>3. RunsApart(chain, poll'[q].out)
          <5>1. RunsApart(chain, poll[q].out) BY <2>7, <3>2 DEF HeldInv
          <5> QED BY <2>2, <4>1, <5>1 DEF RunsApart
        <4> QED BY <3>2, <4>2, <4>3
      <3> QED BY <3>1, <3>2
    <2>8. ASSUME NEW r \in Serving, NEW z \in Serving, r # z
          PROVE  RunsApart(poll'[r].out, poll'[z].out)
      <3>1. RunsApart(poll[r].out, poll[z].out) BY <2>8 DEF HeldInv
      <3>2. /\ \A j \in Range(poll[r].out) : j \in Held
            /\ \A j \in Range(poll[z].out) : j \in Held
            /\ r \in Pollers /\ z \in Pollers
        BY <2>8, HeldJobs
      <3>3. /\ r # q => poll'[r].out = poll[r].out
            /\ z # q => poll'[z].out = poll[z].out
        BY <1>4, <3>2 DEF Queued
      <3>4. \A j \in Held : ~Clash(j, job) /\ ~Clash(job, j)
        BY <2>2, ClashSymmetric
      <3> QED BY <2>2, <2>8, <3>1, <3>2, <3>3, <3>4 DEF RunsApart
    <2>9. Once(chain') BY <1>2 DEF HeldInv
    <2> QED BY <1>2, <2>3, <2>5, <2>6, <2>7, <2>8, <2>9 DEF HeldInv
  <1> QED BY <1>1, <1>3, <1>4

(* The answer moves jobs from the poll to the chain of an agent that waits. *)
LEMMA ReplyMoves ==
    ASSUME RunsTyped, NEW q \in Pollers, TickReply(q)
    PROVE  /\ UNCHANGED <<destination, run, used, mail>>
           /\ \A r \in Pollers \ {q} : poll'[r] = poll[r]
           /\ poll'[q].at = "idle" /\ Serving' = Serving \ {q}
           /\ \/ chain' = chain
              \/ q \in Serving /\ chain' = chain \o poll[q].out
           /\ Held' \subseteq Held
  <1>1. /\ UNCHANGED <<destination, run, used, mail>>
        /\ \A r \in Pollers \ {q} : poll'[r] = poll[r]
        /\ poll'[q].at = "idle"
        /\ \/ chain' = chain
           \/ q \in Serving /\ chain' = chain \o poll[q].out
    BY DEF TickReply, RunsTyped, rowVars, NoPoll, Serving
  <1>2. /\ Serving' = Serving \ {q}
        /\ \A r \in Serving' : poll'[r] = poll[r]
    BY <1>1 DEF Serving
  <1>3. CASE chain' = chain
    BY <1>1, <1>2, <1>3 DEF Held
  <1>4. CASE q \in Serving /\ chain' = chain \o poll[q].out
    <2>1. Range(chain') = Range(chain) \cup Range(poll[q].out)
      BY <1>4, HeldJobs, RangeMoves DEF RunsTyped
    <2> QED BY <1>1, <1>2, <1>4, <2>1 DEF Held
  <1> QED BY <1>1, <1>2, <1>3, <1>4

LEMMA ReplyKeepsHeld ==
    ASSUME RunsTyped, HeldInv, NEW q \in Pollers, TickReply(q)
    PROVE  HeldInv'
  <1>1. CASE chain' = chain
    BY <1>1, ReplyMoves, PollKeepsHeld
  <1>2. CASE q \in Serving /\ chain' = chain \o poll[q].out
    <2>1. poll[q].out \in Seq(Jobs) BY <1>2, HeldJobs
    <2>2. Range(chain') = Range(chain) \cup Range(poll[q].out)
      BY <1>2, <2>1, RangeMoves DEF RunsTyped
    <2>3. Once(chain') BY <1>2, <2>1, OnceMoves DEF HeldInv, RunsTyped
    <2>4. \A r \in Serving' : r \in Serving \ {q} /\ poll'[r] = poll[r]
      BY ReplyMoves DEF Serving
    <2>5. \A r \in Serving' : /\ Once(poll'[r].out) /\ RunsApart(chain', poll'[r].out)
                              /\ \A z \in Serving' \ {r} :
                                    RunsApart(poll'[r].out, poll'[z].out)
      BY <1>2, <2>2, <2>4 DEF HeldInv, RunsApart
    <2>6. \A j \in Held' : HasRun(j) => j.run <= used' /\ InFlight(j)'
      BY ReplyMoves DEF HeldInv, InFlight
    <2>7. \A e \in mail' : e.run <= used' BY ReplyMoves DEF HeldInv
    <2> QED BY <2>3, <2>5, <2>6, <2>7 DEF HeldInv
  <1> QED BY <1>1, <1>2, ReplyMoves

(* A poll that is cut off is nobody's.                                     *)
LEMMA CutOffMoves ==
    ASSUME RunsTyped, NEW q \in Pollers, TickCutOff(q)
    PROVE  /\ UNCHANGED <<destination, run, used, chain, mail>>
           /\ \A r \in Pollers \ {q} : poll'[r] = poll[r]
           /\ poll'[q].at = "orphan" /\ poll'[q].out = poll[q].out
           /\ Serving' = Serving \ {q} /\ Held' \subseteq Held
  <1>1. poll[q] \in [at : {"server", "orphan"}, left : SUBSET Pairs,
                     due : SUBSET Pairs, since : 0..MaxSlot, out : Seq(Jobs)]
    BY PollFields DEF TickCutOff, Serving
  <1>2. /\ UNCHANGED <<destination, run, used, chain, mail>>
        /\ \A r \in Pollers \ {q} : poll'[r] = poll[r]
        /\ poll'[q].at = "orphan" /\ poll'[q].out = poll[q].out
    BY <1>1 DEF TickCutOff, RunsTyped, rowVars, agentVars
  <1>3. Serving' = Serving \ {q} BY <1>2 DEF Serving
  <1>4. \A r \in Serving' : r \in Serving /\ poll'[r] = poll[r]
    BY <1>2, <1>3 DEF Serving
  <1>5. Held' \subseteq Held BY <1>2, <1>4 DEF Held
  <1> QED BY <1>2, <1>3, <1>5

LEMMA CutOffKeepsHeld ==
    ASSUME RunsTyped, HeldInv, NEW q \in Pollers, TickCutOff(q)
    PROVE  HeldInv'
  <1>1. /\ UNCHANGED <<destination, run, used, chain, mail>>
        /\ Held' \subseteq Held
        /\ \A r \in Serving' : r \in Serving /\ poll'[r].out = poll[r].out
    BY CutOffMoves DEF Serving
  <1>2. \A j \in Held : InFlight(j) => InFlight(j)'
    BY <1>1 DEF InFlight
  <1>3. \A r \in Serving' :
           /\ Once(poll'[r].out) /\ RunsApart(chain, poll'[r].out)
           /\ \A z \in Serving' \ {r} : RunsApart(poll'[r].out, poll'[z].out)
    BY <1>1 DEF HeldInv
  <1>4. \A j \in Held' : HasRun(j) => j.run <= used' /\ InFlight(j)'
    BY <1>1, <1>2 DEF HeldInv
  <1> QED BY <1>1, <1>3, <1>4 DEF HeldInv

(* With the agent its chain goes, and its polls are nobody's.              *)
LEMMA CrashEndsPolls ==
    ASSUME RunsTyped, AgentCrash PROVE chain' = <<>> /\ Serving' = {}
  <1>1. /\ chain' = <<>>
        /\ poll' = [q \in Pollers |-> IF poll[q] = NoPoll THEN NoPoll
                                      ELSE [poll[q] EXCEPT !.at = "orphan"]]
    BY DEF AgentCrash
  <1>2. \A q \in Pollers : poll'[q].at # "server"
    BY <1>1 DEF RunsTyped, Polls, NoPoll
  <1> QED BY <1>1, <1>2 DEF Serving

LEMMA CrashKeepsHeld ==
    ASSUME RunsTyped, HeldInv, AgentCrash PROVE HeldInv'
  <1>1. UNCHANGED <<destination, run, used, mail>>
    BY DEF AgentCrash, rowVars
  <1>2. chain' = <<>> /\ Serving' = {} BY CrashEndsPolls
  <1>3. Held' = {} /\ Once(chain') BY <1>2 DEF Held, Range, Once
  <1> QED BY <1>1, <1>2, <1>3 DEF HeldInv

LEMMA HeldContinues ==
    RunsTyped /\ HeldInv /\ [BackupNext]_backupVars => HeldInv'
  <1> SUFFICES ASSUME RunsTyped, HeldInv, [BackupNext]_backupVars
               PROVE  HeldInv'
    OBVIOUS
  <1>1. CASE UNCHANGED backupVars
    BY <1>1, RowsKeepHeld DEF backupVars
  <1>2. CASE Dashboard
    <2>1. ASSUME NEW d \in Dests, NEW e \in {"on", "off"}, NEW ps,
                 UpsertDestination(d, e, ps)
          PROVE  HeldInv'
      BY <2>1, RowsKeepHeld DEF UpsertDestination, agentVars, RunsTyped
    <2>2. ASSUME NEW p \in Pairs, NEW e \in {"on", "off"},
                 UpsertPolicy(p, e) \/ SetPolicyEnabled(p, e)
          PROVE  HeldInv'
      BY <2>2, RowsKeepHeld DEF UpsertPolicy, SetPolicyEnabled, agentVars
    <2>3. ASSUME \/ \E d \in Dests : AskDropDest(d)
                 \/ \E p \in Pairs : AskDropPolicy(p)
                 \/ DropPolicy
          PROVE  HeldInv'
      BY <2>3, RowsKeepHeld DEF AskDropDest, AskDropPolicy, Ask, DropPolicy,
                                agentVars
    <2> QED
      BY <1>2, <2>1, <2>2, <2>3, TriggerKeepsHeld, DeleteRunKeepsHeld,
         DropDestKeepsHeld
      DEF Dashboard, SetDestinationEnabled
  <1>3. CASE SlotPasses \/ Disconnect \/ Reconnect
    BY <1>3, RowsKeepHeld
    DEF SlotPasses, Disconnect, Reconnect, rowVars, agentVars
  <1>4. CASE JobStep
    BY <1>4, JobStepHasEffect, JobKeepsHeld
  <1>5. ASSUME NEW q \in Pollers, TickBegin(q) \/ \E p \in Pairs : TickCheck(q, p)
        PROVE  HeldInv'
    BY <1>5, PollMoves, PollKeepsHeld
  <1> QED
    BY <1>1, <1>2, <1>3, <1>4, <1>5, QueueKeepsHeld, ReplyKeepsHeld,
       CutOffKeepsHeld, CrashKeepsHeld, EventKeepsHeld
    DEF BackupNext, TickStep, Deliver

-----------------------------------------------------------------------------
(***************************************************************************)
(* Two scheduled backups of one server to one destination.                 *)
(***************************************************************************)

(* Steps that hand out no scheduled job and find no policy due.            *)
LEMMA NothingScheduled ==
    ASSUME RunsTyped, SlotInv, collided' = collided,
           \A j \in Held' : j \in Held \/ ~Scheduled(j),
           \A q \in Serving' :
              poll'[q].due = {} \/ (q \in Serving /\ poll'[q].due = poll[q].due)
    PROVE  SlotInv'
  <1>1. \A q \in Serving' : \A p \in poll'[q].due, j \in Held' :
           Scheduled(j) /\ <<j.server, j.dest>> = p => p \in collided'
    BY DEF SlotInv
  <1>2. \A j, k \in Held' :
           SameBackup(j, k) => j.run = k.run \/ <<j.server, j.dest>> \in collided'
    BY DEF SlotInv, SameBackup, Scheduled
  <1>3. \A q, r \in Serving' :
           q # r => poll'[q].due \cap poll'[r].due \subseteq collided'
    BY DEF SlotInv
  <1> QED BY <1>1, <1>2, <1>3 DEF SlotInv

LEMMA SlotBegins == BackupInit => SlotInv
  BY DEF BackupInit, SlotInv, Held, Serving, NoPoll, Range

(* The dashboard's jobs are not scheduled ones.                            *)
LEMMA DashboardHands ==
    ASSUME RunsTyped, Dashboard
    PROVE  /\ UNCHANGED <<poll, collided>>
           /\ \/ chain' = chain
              \/ \E job \in Jobs : ~Scheduled(job) /\ chain' = Append(chain, job)
  <1>1. ASSUME NEW k \in {"backup", "restore"}, NEW s \in Servers,
               NEW d \in Dests, NEW from \in 0..MaxRuns, Trigger(k, s, d, from)
        PROVE  /\ UNCHANGED <<poll, collided>>
               /\ \E job \in Jobs : ~Scheduled(job) /\ chain' = Append(chain, job)
    <2>1. used + 1 \in RunIds /\ (k = "restore" => from \in RunIds)
      BY <1>1, NewRunTyped DEF Trigger
    <2>2. JobOf(k, used + 1, s, d, from) \in Jobs
      BY <2>1, TriggeredJobTyped
    <2>3. ~Scheduled(JobOf(k, used + 1, s, d, from))
      BY DEF JobOf, Scheduled
    <2> QED BY <1>1, <2>2, <2>3 DEF Trigger, history
  <1>2. ASSUME NEW r \in RunIds, DeleteRun(r)
        PROVE  /\ UNCHANGED <<poll, collided>>
               /\ \/ chain' = chain
                  \/ \E job \in Jobs : ~Scheduled(job) /\ chain' = Append(chain, job)
    <2> DEFINE job == [do |-> "delete", dest |-> run[r].dest, from |-> r]
    <2>1. run[r].dest \in Dests => job \in Jobs
      BY DEF Jobs
    <2>2. ~Scheduled(job)
      BY DEF Scheduled
    <2>3. /\ UNCHANGED <<poll, collided>>
          /\ chain' = chain \/ (run[r].dest \in Dests /\ chain' = Append(chain, job))
      BY <1>2 DEF DeleteRun, history
    <2> HIDE DEF job
    <2> QED BY <2>1, <2>2, <2>3
  <1> QED
    BY <1>1, <1>2
    DEF Dashboard, SetDestinationEnabled, UpsertDestination, UpsertPolicy,
        SetPolicyEnabled, AskDropDest, AskDropPolicy, Ask, DropDest, DropPolicy,
        agentVars, history

LEMMA CheckKeepsSlots ==
    ASSUME RunsTyped, HeldInv, SlotInv, NEW q \in Pollers, NEW p \in Pairs,
           TickCheck(q, p)
    PROVE  SlotInv'
  <1>1. /\ UNCHANGED <<destination, run, chain>>
        /\ \A r \in Pollers \ {q} : poll'[r] = poll[r]
        /\ poll'[q].at = poll[q].at /\ poll'[q].out = poll[q].out
        /\ poll'[q].due = {} \/ (poll'[q].due = {p} /\ Due(p, poll[q].since))
    BY PollMoves
  <1>2. Serving' = Serving BY <1>1 DEF Serving
  <1>3. \A r \in Serving : poll'[r].out = poll[r].out BY <1>1 DEF Serving
  <1>4. Held' = Held BY <1>1, <1>2, <1>3 DEF Held
  <1>5. ASSUME Due(p, poll[q].since), NEW j \in Held, Scheduled(j),
               <<j.server, j.dest>> = p
        PROVE  FALSE
    <2>1. j.run \in RunIds /\ InFlight(j) /\ j.do = "backup"
      BY <1>5, HeldJobs DEF HeldInv, Scheduled, HasRun
    <2>2. p[2] = j.dest /\ destination[j.dest] = "on" BY <1>5 DEF Due
    <2>3. j.run \in RunOf(p, Inflight) BY <1>5, <2>1, <2>2 DEF InFlight, RunOf
    <2> QED BY <1>5, <2>3 DEF Due, Busy
  <1>6. /\ collided \subseteq collided'
        /\ \A r \in Serving : q \in Serving /\ Due(p, poll[q].since)
                                /\ p \in poll[r].due => p \in collided'
    BY DEF TickCheck
  <1>7. \A r \in Serving : \A pair \in poll'[r].due, j \in Held :
           Scheduled(j) /\ <<j.server, j.dest>> = pair => pair \in collided'
    BY <1>1, <1>5, <1>6 DEF SlotInv, Serving
  <1>8. ASSUME NEW r \in Serving, NEW z \in Serving, r # z
        PROVE  poll'[r].due \cap poll'[z].due \subseteq collided'
    <2>1. r \in Pollers /\ z \in Pollers BY DEF Serving
    <2>2. CASE r # q /\ z # q
      BY <1>1, <1>6, <1>8, <2>1, <2>2 DEF SlotInv
    <2>3. CASE r = q
      <3>1. z # q /\ poll'[z] = poll[z] BY <1>1, <1>8, <2>1, <2>3
      <3> QED BY <1>1, <1>6, <2>3, <3>1
    <2>4. CASE z = q
      <3>1. r # q /\ poll'[r] = poll[r] BY <1>1, <1>8, <2>1, <2>4
      <3> QED BY <1>1, <1>6, <2>4, <3>1
    <2> QED BY <2>2, <2>3, <2>4
  <1>9. \A j, k \in Held :
           SameBackup(j, k) => j.run = k.run \/ <<j.server, j.dest>> \in collided'
    BY <1>6 DEF SlotInv
  <1> QED BY <1>2, <1>4, <1>7, <1>8, <1>9 DEF SlotInv

LEMMA QueueKeepsSlots ==
    ASSUME RunsTyped, HeldInv, SlotInv, NEW q \in Pollers, TickQueue(q)
    PROVE  SlotInv'
  <1>1. PICK p \in poll[q].due : p \in Pairs /\ (Queued(q, p) \/ PassedOver(q))
    BY QueueMoves
  <1>2. UNCHANGED <<destination, chain, mail, collided>> /\ poll[q].at # "idle"
    BY QueueMoves DEF TickQueue
  <1>3. CASE PassedOver(q)
    <2>1. \A r \in Serving' :
             /\ r \in Serving /\ poll'[r].out = poll[r].out
             /\ poll'[r].due = {} \/ poll'[r].due = poll[r].due
      BY <1>3 DEF PassedOver, Serving
    <2>2. Held' \subseteq Held BY <1>2, <2>1 DEF Held
    <2> QED BY <1>2, <2>1, <2>2, NothingScheduled
  <1>4. CASE Queued(q, p)
    <2>1. PICK job \in Jobs :
             /\ <<job.server, job.dest>> = p
             /\ Held' = IF q \in Serving THEN Held \cup {job} ELSE Held
      BY <1>1, <1>2, <1>4, QueuedJob
    <2>2. /\ Serving' = Serving /\ poll'[q].due = {}
          /\ \A r \in Serving : r # q => poll'[r].due = poll[r].due
      BY <1>1, <1>2, <1>4, QueuedJob DEF Queued, Serving
    <2>3. CASE q \notin Serving
      BY <1>2, <2>1, <2>2, <2>3, NothingScheduled
    <2>4. CASE q \in Serving
      <3>1. \A r \in Serving : r # q /\ p \in poll'[r].due => p \in collided
        BY <1>1, <2>2, <2>4 DEF SlotInv
      <3>2. \A j \in Held :
               Scheduled(j) /\ <<j.server, j.dest>> = p => p \in collided
        BY <1>1, <2>4 DEF SlotInv
      <3>3. \A j, k \in Held' : SameBackup(j, k) =>
               j.run = k.run \/ <<j.server, j.dest>> \in collided
        BY <2>1, <2>4, <3>2 DEF SlotInv, SameBackup, Scheduled
      <3>4. \A r \in Serving : \A pair \in poll'[r].due, j \in Held' :
               Scheduled(j) /\ <<j.server, j.dest>> = pair => pair \in collided
        BY <2>1, <2>2, <2>4, <3>1 DEF SlotInv
      <3>5. \A r, z \in Serving :
               r # z => poll'[r].due \cap poll'[z].due \subseteq collided
        BY <2>2 DEF SlotInv
      <3> QED BY <1>2, <2>2, <3>3, <3>4, <3>5 DEF SlotInv
    <2> QED BY <2>3, <2>4
  <1> QED BY <1>1, <1>3, <1>4

LEMMA SlotsContinue ==
    RunsTyped /\ HeldInv /\ SlotInv /\ [BackupNext]_backupVars => SlotInv'
  <1> SUFFICES ASSUME RunsTyped, HeldInv, SlotInv, [BackupNext]_backupVars
               PROVE  SlotInv'
    OBVIOUS
  <1>1. ASSUME UNCHANGED <<poll, collided>>,
               \/ chain' = chain \/ (chain # <<>> /\ chain' = Tail(chain))
               \/ \E job \in Jobs : ~Scheduled(job) /\ chain' = Append(chain, job)
        PROVE  SlotInv'
    <2>1. Serving' = Serving BY <1>1 DEF Serving
    <2>2. \A j \in Range(chain') : j \in Range(chain) \/ ~Scheduled(j)
      <3>1. chain \in Seq(Jobs) BY DEF RunsTyped
      <3>2. ASSUME NEW job \in Jobs, ~Scheduled(job), chain' = Append(chain, job)
            PROVE  \A j \in Range(chain') : j \in Range(chain) \/ ~Scheduled(j)
        <4>1. Range(chain') = Range(chain) \cup {job} BY <3>1, <3>2, RangeMoves
        <4> QED BY <3>2, <4>1
      <3>3. ASSUME chain # <<>>, chain' = Tail(chain)
            PROVE  \A j \in Range(chain') : j \in Range(chain)
        <4>1. Range(Tail(chain)) \subseteq Range(chain) BY <3>1, <3>3, RangeMoves
        <4> QED BY <3>3, <4>1
      <3> QED BY <1>1, <3>2, <3>3
    <2>3. \A j \in Held' : j \in Held \/ ~Scheduled(j)
      BY <1>1, <2>1, <2>2 DEF Held
    <2> QED BY <1>1, <2>1, <2>3, NothingScheduled
  <1>2. CASE \/ UNCHANGED backupVars \/ SlotPasses \/ Disconnect \/ Reconnect
             \/ Deliver
    BY <1>1, <1>2
    DEF backupVars, SlotPasses, Disconnect, Reconnect, Deliver, ApplyEvent,
        agentVars, history
  <1>3. CASE Dashboard
    BY <1>1, <1>3, DashboardHands
  <1>7. CASE JobStep
    <2>1. UNCHANGED collided
      BY <1>7 DEF JobStep, Compress, Upload, Retain, Fetch, Snapshot, Wipe, Extract,
                  DeleteArchive, AgentOnly, history
    <2> QED BY <1>1, <1>7, <2>1, JobStepHasEffect DEF JobEffect
  <1>4. ASSUME NEW q \in Pollers, TickBegin(q) PROVE SlotInv'
    <2>1. /\ \A r \in Pollers \ {q} : poll'[r] = poll[r]
          /\ poll'[q].due = {} /\ poll'[q].out = <<>>
          /\ UNCHANGED <<destination, run, used, chain, mail, collided>>
      BY <1>4, PollMoves DEF TickBegin, history
    <2>2. Held' \subseteq Held BY <2>1, PollKeepsHeld
    <2>3. \A r \in Serving' : \/ poll'[r].due = {}
                              \/ r \in Serving /\ poll'[r].due = poll[r].due
      BY <2>1 DEF Serving
    <2> QED BY <2>1, <2>2, <2>3, NothingScheduled
  <1>5. ASSUME NEW q \in Pollers, TickReply(q) PROVE SlotInv'
    <2>1. /\ Held' \subseteq Held
          /\ \A r \in Serving' : r \in Serving /\ poll'[r] = poll[r]
          /\ UNCHANGED collided
      BY <1>5, ReplyMoves DEF Serving, TickReply, history
    <2> QED BY <2>1, NothingScheduled
  <1>8. ASSUME NEW q \in Pollers, TickCutOff(q) PROVE SlotInv'
    <2>1. /\ Held' \subseteq Held
          /\ \A r \in Serving' : r \in Serving /\ poll'[r] = poll[r]
          /\ UNCHANGED collided
      BY <1>8, CutOffMoves DEF Serving, TickCutOff, history
    <2> QED BY <2>1, NothingScheduled
  <1>6. CASE AgentCrash
    <2>1. chain' = <<>> /\ Serving' = {} BY <1>6, CrashEndsPolls
    <2> QED BY <2>1 DEF SlotInv, Held, Range
  <1> QED
    BY <1>2, <1>3, <1>4, <1>5, <1>6, <1>7, <1>8, CheckKeepsSlots, QueueKeepsSlots
    DEF BackupNext, TickStep

(* For any number of polls at one time, answered, cut off or left behind   *)
(* by an agent that died, the agent holds no second scheduled backup of a  *)
(* server to a destination, whatever becomes of the row, the events, the   *)
(* policy and the destination of the first - but for the policies that two *)
(* polls found due before either had inserted its run: the code does not   *)
(* keep those apart (backup-schedule.ts checks, then inserts).             *)
THEOREM BackupsAreNotDoubled == BackupSpec => []NoDoubleJob
  <1>1. RunsTyped /\ HeldInv /\ SlotInv => NoDoubleJob
    <2> SUFFICES ASSUME RunsTyped, HeldInv, SlotInv PROVE NoDoubleJob
      OBVIOUS
    <2>1. ASSUME NEW c \in Seq(Jobs), Once(c), Range(c) \subseteq Held,
                 NEW i \in DOMAIN c, NEW k \in DOMAIN c, i # k
          PROVE  NotTheSame(c[i], c[k])
      <3>1. c[i] \in Held /\ c[k] \in Held BY <2>1 DEF Range
      <3>2. c[i].run # c[k].run \/ ~SameBackup(c[i], c[k])
        BY <2>1 DEF Once, Clash, HasRun, SameBackup
      <3> QED BY <3>1, <3>2 DEF SlotInv, NotTheSame
    <2>2. ASSUME NEW q \in Serving
          PROVE  /\ chain \o poll[q].out \in Seq(Jobs) /\ Once(chain \o poll[q].out)
                 /\ Range(chain \o poll[q].out) \subseteq Held
      <3>1. chain \in Seq(Jobs) /\ poll[q].out \in Seq(Jobs)
        BY HeldJobs DEF RunsTyped
      <3>2. Once(chain \o poll[q].out)
        BY <3>1, OnceMoves DEF HeldInv
      <3>3. Range(chain \o poll[q].out) = Range(chain) \cup Range(poll[q].out)
        BY <3>1, RangeMoves
      <3> QED BY <3>1, <3>2, <3>3, HeldJobs
    <2>3. ASSUME NEW q \in Serving, NEW r \in Serving, q # r,
                 NEW i \in DOMAIN poll[q].out, NEW k \in DOMAIN poll[r].out
          PROVE  NotTheSame(poll[q].out[i], poll[r].out[k])
      <3>1. /\ poll[q].out[i] \in Range(poll[q].out)
            /\ poll[r].out[k] \in Range(poll[r].out)
        BY DEF Range
      <3>2. ~Clash(poll[q].out[i], poll[r].out[k])
        BY <2>3, <3>1 DEF HeldInv, RunsApart
      <3>3. poll[q].out[i] \in Held /\ poll[r].out[k] \in Held
        BY <3>1, HeldJobs
      <3> QED BY <3>2, <3>3 DEF SlotInv, NotTheSame, SameBackup, Clash, HasRun
    <2>4. chain \in Seq(Jobs) /\ Once(chain) /\ Range(chain) \subseteq Held
      BY HeldJobs DEF HeldInv, RunsTyped
    <2> QED BY <2>1, <2>2, <2>3, <2>4 DEF NoDoubleJob
  <1> QED
    BY RunsTypedFirst, RunsTypedContinues, HeldBegins, HeldContinues, SlotBegins,
       SlotsContinue, <1>1, PTL
    DEF BackupSpec

-----------------------------------------------------------------------------
(***************************************************************************)
(* Retention.                                                              *)
(***************************************************************************)
ArchivesTyped ==
    /\ store \in [Places -> SUBSET Archives]
    /\ \A p \in Places : \E n \in Nat : \A a \in store[p] : a.written <= n

(* The archive that the first job has just written is the newest at p.     *)
OwnIsNewest(p) ==
    \E a \in store[p] :
       /\ a.whole /\ a.server = Job.server /\ a.run = Job.run
       /\ \A b \in store[p] : b.written <= a.written

(* What makes LatestKept inductive: a job between its archive and its      *)
(* retention finds that archive, the newest of all, where it was written.  *)
AtRetention == {"archived", "uploaded"}
ArchiveInv ==
    /\ ArchivesTyped
    /\ work \in AtRetention => chain # <<>> /\ Job.do = "backup"
    /\ work = "archived" /\ Job.dest \notin Remote => OwnIsNewest("disk")
    /\ work = "uploaded" => Job.dest \in Remote /\ OwnIsNewest(Job.dest)

LEMMA ArchivesBegin == BackupInit => ArchiveInv
  BY DEF BackupInit, ArchiveInv, ArchivesTyped, AtRetention

(* The time of the last archive.                                           *)
LEMMA LastIsLast ==
    ASSUME ArchivesTyped, NEW p \in Places
    PROVE  /\ LastWritten(p) \in Nat
           /\ \A a \in store[p] : a.written <= LastWritten(p)
  <1> DEFINE T == {k \in Nat : \A a \in store[p] : a.written <= k}
             times == {0} \cup {a.written : a \in store[p]}
  <1>1. T # {} /\ T \subseteq Nat
    BY DEF ArchivesTyped
  <1>2. \A a \in store[p] : a.written \in Nat /\ a.written > 0
    BY DEF ArchivesTyped, Archives
  <1> HIDE DEF T
  <1>3. PICK m \in T : \A k \in T : ~(<<k, m>> \in OpToRel(<, Nat))
    BY <1>1, NatLessThanWellFounded, WFMin
  <1>4. \A k \in T : ~(k < m)
    <2>1. ASSUME NEW k \in T, k < m PROVE FALSE
      <3>1. <<k, m>> \in Nat \X Nat /\ <<k, m>>[1] < <<k, m>>[2]
        BY <1>1, <2>1
      <3>2. <<k, m>> \in OpToRel(<, Nat)
        BY <3>1 DEF OpToRel
      <3> QED BY <1>3, <2>1, <3>2
    <2> QED BY <2>1
  <1>5. m \in Nat /\ \A a \in store[p] : a.written <= m
    BY <1>3 DEF T
  <1>6. m \in times
    <2>1. CASE m = 0 BY <2>1
    <2>2. CASE m # 0
      <3>1. m - 1 \in Nat /\ m - 1 < m BY <1>5, <2>2
      <3>2. m - 1 \notin T BY <1>4, <3>1
      <3>3. PICK a \in store[p] : ~(a.written <= m - 1)
        BY <3>1, <3>2 DEF T
      <3>4. a.written = m BY <1>2, <1>5, <3>1, <3>3
      <3> QED BY <3>4
    <2> QED BY <2>1, <2>2
  <1>7. \E t \in times : \A a \in store[p] : a.written <= t
    BY <1>5, <1>6
  <1>8. /\ LastWritten(p) \in times
        /\ \A a \in store[p] : a.written <= LastWritten(p)
    <2> HIDE DEF times
    <2>1. LastWritten(p) = CHOOSE t \in times : \A a \in store[p] : a.written <= t
      BY DEF LastWritten, times
    <2> QED BY <1>7, <2>1
  <1>9. times \subseteq Nat BY <1>2
  <1> QED BY <1>8, <1>9

(* An archive that is written is the newest at its place.                  *)
LEMMA AddedIsNewest ==
    ASSUME RunsTyped, ArchivesTyped, chain # <<>>, Job.do = "backup",
           NEW p \in Places, NEW ok \in BOOLEAN, Add(p, ok)
    PROVE  /\ ArchivesTyped'
           /\ ok /\ chain' = chain => OwnIsNewest(p)'
  <1>1. Job \in Jobs BY ChainTyped DEF RunsTyped, Job
  <1>2. Job.server \in Servers /\ Job.run \in RunIds BY <1>1 DEF Jobs
  <1>3. PICK last : last = LastWritten(p) OBVIOUS
  <1>4. last \in Nat /\ \A a \in store[p] : a.written <= last
    BY <1>3, LastIsLast
  <1>5. PICK own : own = [server |-> Job.server, run |-> Job.run, whole |-> ok,
                          written |-> last + 1]
    OBVIOUS
  <1>6. last + 1 \in Nat \ {0} BY <1>4
  <1>7. own \in Archives BY <1>2, <1>5, <1>6 DEF Archives
  <1>8. /\ own.server = Job.server /\ own.run = Job.run /\ own.whole = ok
        /\ own.written = last + 1
    BY <1>5
  <1>9. store' = [store EXCEPT ![p] = store[p] \cup {own}]
    BY <1>3, <1>5 DEF Add
  <1>10. /\ store'[p] = store[p] \cup {own}
         /\ \A q \in Places : q # p => store'[q] = store[q]
         /\ store' \in [Places -> SUBSET Archives]
    BY <1>7, <1>9 DEF ArchivesTyped
  <1>11. \A b \in store'[p] : b.written <= own.written
    <2>1. \A b \in store[p] : b.written \in Nat BY DEF ArchivesTyped, Archives
    <2> QED BY <1>4, <1>8, <1>10, <2>1
  <1>12. \A q \in Places : \E n \in Nat : \A a \in store'[q] : a.written <= n
    BY <1>6, <1>8, <1>10, <1>11 DEF ArchivesTyped
  <1>13. ok /\ chain' = chain => OwnIsNewest(p)'
    BY <1>8, <1>10, <1>11 DEF OwnIsNewest, Job
  <1> QED BY <1>10, <1>12, <1>13 DEF ArchivesTyped

(* Archives may go.                                                        *)
LEMMA FewerArchives ==
    ASSUME ArchivesTyped, NEW p, NEW S, S \subseteq store[p],
           store' = [store EXCEPT ![p] = S]
    PROVE  ArchivesTyped' /\ \A q \in Places : store'[q] \subseteq store[q]
  <1>1. store' \in [Places -> SUBSET Archives]
    BY DEF ArchivesTyped
  <1>2. \A q \in Places : store'[q] \subseteq store[q]
    BY DEF ArchivesTyped
  <1> QED BY <1>1, <1>2 DEF ArchivesTyped

LEMMA JobKeepsArchives ==
    ASSUME RunsTyped, ArchiveInv, JobStep PROVE ArchiveInv'
  <1> USE DEF Doing, NextJob, Proceed
  <1>1. ASSUME ArchivesTyped', work' \notin AtRetention PROVE ArchiveInv'
    BY <1>1 DEF ArchiveInv, AtRetention
  <1>2. CASE Compress
    <2>1. chain # <<>> /\ Job.do = "backup" /\ "disk" \in Places
      BY <1>2 DEF Compress, Places
    <2>2. CASE Add("disk", TRUE) /\ chain' = chain /\ work' = "archived"
      <3>1. ArchivesTyped' /\ OwnIsNewest("disk")'
        BY <2>1, <2>2, AddedIsNewest DEF ArchiveInv
      <3>2. Job' = Job BY <2>2 DEF Job
      <3> QED BY <2>1, <2>2, <3>1, <3>2 DEF ArchiveInv, AtRetention
    <2>3. CASE Add("disk", FALSE) /\ work' = "ready"
      BY <1>1, <2>1, <2>3, AddedIsNewest DEF ArchiveInv, AtRetention
    <2> QED BY <1>2, <2>2, <2>3 DEF Compress
  <1>3. CASE Upload
    <2>1. /\ chain # <<>> /\ Job.do = "backup"
          /\ Job.dest \in Remote /\ Job.dest \in Places
      BY <1>3 DEF Upload, Places
    <2>2. CASE Add(Job.dest, TRUE) /\ chain' = chain /\ work' = "uploaded"
      <3>1. Job' = Job BY <2>2 DEF Job
      <3>2. ArchivesTyped' /\ OwnIsNewest(Job.dest)'
        BY <2>1, <2>2, <3>1, AddedIsNewest DEF ArchiveInv
      <3> QED BY <2>1, <2>2, <3>1, <3>2 DEF ArchiveInv, AtRetention
    <2>3. CASE (store' = store \/ Add(Job.dest, FALSE)) /\ work' = "ready"
      <3>1. ArchivesTyped'
        BY <2>1, <2>3, AddedIsNewest DEF ArchiveInv, ArchivesTyped
      <3> QED BY <1>1, <2>3, <3>1 DEF AtRetention
    <2> QED BY <1>3, <2>2, <2>3 DEF Upload
  <1>4. CASE Retain
    <2>1. work' = "ready" BY <1>4 DEF Retain
    <2>2. \/ store' = store
          \/ store' = [store EXCEPT ![Place(Job.dest)] =
                          Retained(Job.dest, Job.server, Job.keep, @)]
      BY <1>4 DEF Retain
    <2>3. ArchivesTyped'
      <3>1. \A archives : Retained(Job.dest, Job.server, Job.keep, archives)
                            \subseteq archives
        BY DEF Retained
      <3> QED BY <2>2, <3>1, FewerArchives DEF ArchiveInv, ArchivesTyped
    <2> QED BY <1>1, <2>1, <2>3 DEF AtRetention
  <1>5. CASE Fetch \/ Snapshot \/ Wipe \/ Extract
    <2>1. store' = store /\ work' \notin AtRetention
      BY <1>5 DEF Fetch, Snapshot, Wipe, Extract, AtRetention
    <2> QED BY <1>1, <2>1 DEF ArchiveInv, ArchivesTyped
  <1>6. CASE DeleteArchive
    <2>1. /\ work' = "ready"
          /\ \/ store' = store
             \/ store' = [store EXCEPT ![Place(Job.dest)] = Without(@, Job.from)]
      BY <1>6 DEF DeleteArchive
    <2>2. ArchivesTyped'
      <3>1. \A archives : Without(archives, Job.from) \subseteq archives
        BY DEF Without
      <3> QED BY <2>1, <3>1, FewerArchives DEF ArchiveInv, ArchivesTyped
    <2> QED BY <1>1, <2>1, <2>2 DEF AtRetention
  <1> QED BY <1>2, <1>3, <1>4, <1>5, <1>6 DEF JobStep

(* The control plane deletes the archive of a run that is done; the first  *)
(* job's is still in flight.                                               *)
LEMMA OthersKeepArchives ==
    ASSUME RunsTyped, HeldInv, ArchiveInv, OthersEffect PROVE ArchiveInv'
  <1>1. work' = work /\ (chain # <<>> => chain' # <<>> /\ Job' = Job)
    BY DEF OthersEffect, Job
  <1>2. CASE store' = store
    BY <1>1, <1>2 DEF ArchiveInv, ArchivesTyped, OwnIsNewest, AtRetention
  <1>3. ASSUME NEW r \in RunIds, NEW d \in S3, run[r].status = "done",
               store' = [store EXCEPT ![d] = Without(@, r)]
        PROVE  ArchiveInv'
    <2>1. Without(store[d], r) \subseteq store[d]
      BY DEF Without
    <2>2. ArchivesTyped' /\ \A q \in Places : store'[q] \subseteq store[q]
      BY <1>3, <2>1, FewerArchives DEF ArchiveInv
    <2>3. \A q \in Places : \A a \in store[q] : a.run # r => a \in store'[q]
      BY <1>3 DEF Without, ArchiveInv, ArchivesTyped
    <2>4. work \in AtRetention => Job.run # r
      <3> SUFFICES ASSUME work \in AtRetention PROVE Job.run # r
        OBVIOUS
      <3>1. chain # <<>> /\ HasRun(Job) BY DEF ArchiveInv, HasRun
      <3>2. Job \in Held
        BY <3>1, RangeMoves DEF RunsTyped, Held, Job
      <3> QED BY <1>3, <3>1, <3>2 DEF HeldInv, InFlight, Inflight
    <2>5. \A p \in Places : work \in AtRetention /\ OwnIsNewest(p) => OwnIsNewest(p)'
      BY <1>1, <2>2, <2>3, <2>4 DEF OwnIsNewest, ArchiveInv
    <2>6. "disk" \in Places /\ Remote \subseteq Places BY DEF Places
    <2> QED BY <1>1, <2>2, <2>5, <2>6 DEF ArchiveInv, AtRetention
  <1> QED BY <1>2, <1>3 DEF OthersEffect

LEMMA ArchivesContinue ==
    RunsTyped /\ HeldInv /\ ArchiveInv /\ [BackupNext]_backupVars => ArchiveInv'
  <1>1. ArchiveInv /\ AgentCrash => ArchiveInv'
    BY DEF AgentCrash, ArchiveInv, ArchivesTyped, AtRetention
  <1> QED BY <1>1, OthersHaveEffect, JobKeepsArchives, OthersKeepArchives

(* Retention never removes the newest complete archive of a server, its    *)
(* own or another's: the job's own archive is still there, and newer than  *)
(* all, whatever the dashboard deletes in the meantime - as long as no two *)
(* servers are given one prefix.                                           *)
THEOREM NewestIsKept ==
    ASSUME SharedPrefix = {} PROVE BackupSpec => LatestKept
  <1>1. RunsTyped /\ ArchiveInv /\ [BackupNext]_backupVars =>
           [Retain => \A p \in Places, s \in Servers :
                         Newest(p, s) \subseteq store'[p]]_backupVars
    <2> SUFFICES ASSUME RunsTyped, ArchiveInv, Retain, NEW p \in Places,
                        NEW s \in Servers, NEW a \in Newest(p, s)
                 PROVE  a \in store'[p]
      OBVIOUS
    <2> DEFINE here == Place(Job.dest)
               kept == Retained(Job.dest, Job.server, Job.keep, store[here])
    <2>1. Job.keep \in {0, KeepLast}
      <3>1. Job \in Jobs /\ Job.do = "backup"
        BY ChainTyped DEF Retain, Doing, RunsTyped, Job
      <3> QED BY <3>1 DEF Jobs
    <2>2. OwnIsNewest(here)
      BY DEF Retain, Doing, ArchiveInv, Place
    <2>3. store' = store \/ store' = [store EXCEPT ![here] = kept]
      BY DEF Retain
    <2>4. /\ a \in store[p] /\ a.whole /\ a.server = s
          /\ \A b \in store[p] : b.whole /\ b.server = s => b.written <= a.written
      BY DEF Newest
    <2>5. p = here => a \in kept
      <3> SUFFICES ASSUME p = here PROVE a \in kept
        OBVIOUS
      <3>1. CASE s # Job.server
        BY <2>4, <3>1 DEF Retained, Listed
      <3>2. CASE s = Job.server
        <4>1. \A b \in store[p] : b.written <= a.written
          <5>1. PICK own \in store[p] :
                   /\ own.whole /\ own.server = s
                   /\ \A b \in store[p] : b.written <= own.written
            BY <2>2, <3>2 DEF OwnIsNewest
          <5>2. own.written <= a.written BY <2>4, <5>1
          <5>3. \A b \in store[p] : b.written \in Nat
            BY DEF ArchiveInv, ArchivesTyped, Archives
          <5> QED BY <2>4, <5>1, <5>2, <5>3
        <4>2. Newer(Job.dest, Job.server, a, store[p]) = {}
          <5>1. \A b \in store[p] : b.written \in Nat
            BY DEF ArchiveInv, ArchivesTyped, Archives
          <5>2. \A b \in store[p] : ~(b.written > a.written)
            BY <2>4, <4>1, <5>1
          <5> QED BY <5>2 DEF Newer
        <4>3. Job.keep = 0
              \/ Cardinality(Newer(Job.dest, Job.server, a, store[p])) < Job.keep
          BY <2>1, <4>2, FS_EmptySet, BackupAssumption
        <4> QED BY <2>4, <4>3 DEF Retained
      <3> QED BY <3>1, <3>2
    <2> HIDE DEF here, kept
    <2> QED BY <2>3, <2>4, <2>5 DEF ArchiveInv, ArchivesTyped
  <1> QED
    BY RunsTypedFirst, RunsTypedContinues, HeldBegins, HeldContinues,
       ArchivesBegin, ArchivesContinue, <1>1, PTL
    DEF BackupSpec, LatestKept

-----------------------------------------------------------------------------
(***************************************************************************)
(* The panel.  Each half of the form that edits a row holds the content of *)
(* that row, whatever the lists become; and the destination chosen for a   *)
(* manual backup is one the list shows enabled.                            *)
(***************************************************************************)
HalvesInv ==
    /\ destForm = [id |-> destForm.id, from |-> destForm.from, on |-> destForm.on]
    /\ policyForm = [id |-> policyForm.id, from |-> policyForm.from,
                     dest |-> policyForm.dest, on |-> policyForm.on]
    /\ destForm.id # "new" => destForm.from = destForm.id
    /\ policyForm.id # "new" => policyForm.from = policyForm.id

ManualInv == manual # "none" => shownDest[manual] = "on"

IsRequest(c) ==
    c = [op |-> c.op, id |-> c.id, from |-> c.from, dest |-> c.dest, on |-> c.on,
         answer |-> c.answer, editing |-> c.editing, n |-> c.n]

FormInv == HalvesInv /\ ManualInv /\ \A c \in panelCalls : IsRequest(c)

LEMMA FormBegins == PanelInit => FormInv
  BY DEF PanelInit, FormInv, HalvesInv, ManualInv, BlankDest, BlankPolicy

(* What the panel sends from such a form.                                  *)
FromItsRow(c) ==
    c.answer = "none" =>
       /\ c.op \in {"saveDest", "savePolicy"} /\ c.id # "new" => c.from = c.id
       /\ c.op = "run" => shownDest[c.dest] = "on"

LEMMA RequestFields ==
  ASSUME NEW op, NEW id, NEW from, NEW dest, NEW on,
         \/ op \notin {"saveDest", "savePolicy", "run"}
         \/ op \in {"saveDest", "savePolicy"} /\ (id # "new" => from = id)
         \/ op = "run" /\ shownDest[dest] = "on"
  PROVE  /\ FromItsRow(Request(op, id, from, dest, on))
         /\ IsRequest(Request(op, id, from, dest, on))
  BY DEF Request, FromItsRow, IsRequest

LEMMA PanelSends ==
  ASSUME FormInv, NEW c, Sends(c), FromItsRow(c), IsRequest(c)
  PROVE  FormInv' /\ \A d \in panelCalls' \ panelCalls : FromItsRow(d)
  BY DEF FormInv, HalvesInv, ManualInv, Sends, lists, panelForm

LEMMA PanelAnswered ==
  ASSUME NEW c, IsRequest(c), NEW a \in {"ok", "error"}
  PROVE  /\ [c EXCEPT !.answer = a].answer = a
         /\ IsRequest([c EXCEPT !.answer = a])
  BY DEF IsRequest

PanelSafe == FormInv' /\ \A d \in panelCalls' \ panelCalls : FromItsRow(d)

LEMMA PanelStep == FormInv /\ [PanelNext]_panelVars => PanelSafe
  <1> SUFFICES ASSUME FormInv, [PanelNext]_panelVars PROVE PanelSafe
    OBVIOUS
  <1> USE DEF PanelSafe
  <1>1. CASE UNCHANGED panelVars
    BY <1>1 DEF panelVars, FormInv, HalvesInv, ManualInv
  <1>2. ASSUME NEW d \in PanelDests,
               EditDestination(d) \/ ChoosePolicyDest(d) \/ ChooseManual(d)
        PROVE  PanelSafe
    <2>1. /\ panelCalls' = panelCalls /\ UNCHANGED lists
      BY <1>2 DEF EditDestination, ChoosePolicyDest, ChooseManual, Fills
    <2>2. ManualInv'
      BY <1>2, <2>1
      DEF EditDestination, ChoosePolicyDest, ChooseManual, Fills, FormInv, ManualInv, lists
    <2>3. CASE EditDestination(d)
      BY <2>1, <2>2, <2>3 DEF EditDestination, Fills, FormInv, HalvesInv, BlankPolicy
    <2>4. CASE ChoosePolicyDest(d)
      BY <2>1, <2>2, <2>4 DEF ChoosePolicyDest, FormInv, HalvesInv
    <2>5. CASE ChooseManual(d)
      BY <2>1, <2>2, <2>5 DEF ChooseManual, FormInv, HalvesInv, panelForm
    <2> QED BY <1>2, <2>3, <2>4, <2>5
  <1>3. ASSUME NEW d \in PanelDests, DeleteDestination(d) \/ ToggleDestination(d)
        PROVE  PanelSafe
    BY <1>3, RequestFields, PanelSends DEF DeleteDestination, ToggleDestination
  <1>4. ASSUME NEW p \in PanelPolicies, EditPolicy(p) PROVE PanelSafe
    BY <1>4 DEF EditPolicy, Fills, FormInv, HalvesInv, ManualInv, lists
  <1>5. ASSUME NEW p \in PanelPolicies, DeletePolicy(p) \/ TogglePolicy(p) PROVE PanelSafe
    BY <1>5, RequestFields, PanelSends DEF DeletePolicy, TogglePolicy
  <1>6. CASE CancelEdit
    BY <1>6
    DEF CancelEdit, Fills, FormInv, HalvesInv, ManualInv, lists, BlankDest, BlankPolicy
  <1>7. CASE SaveDestination
    BY <1>7, RequestFields, PanelSends DEF SaveDestination, FormInv, HalvesInv
  <1>8. CASE SavePolicyOnly
    BY <1>8, RequestFields, PanelSends DEF SavePolicyOnly, FormInv, HalvesInv
  <1>9. CASE CreatePolicyOnly \/ TestConnection \/ DeleteListedRun
    BY <1>9, RequestFields, PanelSends DEF CreatePolicyOnly, TestConnection, DeleteListedRun
  <1>10. CASE RunManual
    BY <1>10, RequestFields, PanelSends DEF RunManual, FormInv, ManualInv
  <1>11. ASSUME NEW c \in panelCalls, ServePanel(c) PROVE PanelSafe
    <2>1. PICK a \in {"ok", "error"} :
             panelCalls' = (panelCalls \ {c}) \cup {[c EXCEPT !.answer = a]}
      BY <1>11 DEF ServePanel
    <2>2. UNCHANGED <<destForm, policyForm, manual, shownDest>>
      BY <1>11 DEF ServePanel, lists, panelForm
    <2>3. IsRequest(c)
      BY DEF FormInv
    <2>4. PICK e : e = [c EXCEPT !.answer = a]
      OBVIOUS
    <2>5. e.answer = a /\ IsRequest(e)
      BY <2>3, <2>4, PanelAnswered
    <2>6. panelCalls' = (panelCalls \ {c}) \cup {e}
      BY <2>1, <2>4
    <2>7. HalvesInv' /\ ManualInv'
      BY <2>2 DEF FormInv, HalvesInv, ManualInv
    <2>8. \A d \in panelCalls' : IsRequest(d)
      BY <2>5, <2>6 DEF FormInv
    <2>9. \A d \in panelCalls' \ panelCalls : d = e
      BY <2>6
    <2>10. FromItsRow(e)
      BY <2>5 DEF FromItsRow
    <2> QED BY <2>7, <2>8, <2>9, <2>10 DEF FormInv
  <1>12. ASSUME NEW c \in panelCalls, AnswerPanel(c) PROVE PanelSafe
    <2>1. panelCalls' = panelCalls \ {c}
      BY <1>12 DEF AnswerPanel
    <2>2. CASE c.answer = "ok"
      <3>1. Loads(DestAfter(c), PolicyAfter(c))
        BY <1>12, <2>2 DEF AnswerPanel
      <3>2. ManualInv'
        BY <3>1 DEF Loads, ManualLoaded, ManualInv
      <3>3. HalvesInv'
        BY <3>1
        DEF Loads, PolicyLoaded, DestAfter, PolicyAfter, BlankDest, BlankPolicy, FormInv,
            HalvesInv
      <3> QED BY <2>1, <3>2, <3>3 DEF FormInv
    <2>3. CASE c.answer # "ok"
      BY <1>12, <2>1, <2>3 DEF AnswerPanel, FormInv, HalvesInv, ManualInv, lists, panelForm
    <2> QED BY <2>2, <2>3
  <1>13. ASSUME NEW c \in panelCalls, LosePanelCall(c) PROVE PanelSafe
    BY <1>13 DEF LosePanelCall, FormInv, HalvesInv, ManualInv, lists, panelForm
  <1>14. CASE OtherTab
    BY <1>14 DEF OtherTab, FormInv, HalvesInv, ManualInv, lists, panelForm
  <1>15. CASE Reload
    <2>1. panelCalls' = panelCalls /\ Loads(destForm, policyForm)
      BY <1>15 DEF Reload
    <2>2. ManualInv'
      BY <2>1 DEF Loads, ManualLoaded, ManualInv
    <2>3. HalvesInv'
      BY <2>1 DEF Loads, PolicyLoaded, FormInv, HalvesInv
    <2> QED BY <2>1, <2>2, <2>3 DEF FormInv
  <1> QED
    BY <1>1, <1>2, <1>3, <1>4, <1>5, <1>6, <1>7, <1>8, <1>9, <1>10, <1>11,
       <1>12, <1>13, <1>14, <1>15 DEF PanelNext

(* What the panel sends to save a destination or a policy has the content  *)
(* of the row it names, and a manual backup goes to a destination that the *)
(* list shows enabled, for any number of rows, requests under way and      *)
(* answers in any order (BackupPanel: loadAll, the edit forms, runBackup). *)
THEOREM FormsNeverMix == PanelSpec => FormsStayApart
  <1>1. FormInv /\ [PanelNext]_panelVars => FormInv'
    BY PanelStep DEF PanelSafe
  <1>2. FormInv /\ [PanelNext]_panelVars =>
           [\A c \in panelCalls' \ panelCalls :
              c.answer = "none" =>
                 /\ c.op \in {"saveDest", "savePolicy"} /\ c.id # "new" => c.from = c.id
                 /\ c.op = "run" => shownDest[c.dest] = "on"]_panelVars
    BY PanelStep DEF PanelSafe, FromItsRow
  <1> QED BY <1>1, <1>2, FormBegins, PTL DEF PanelSpec, FormsStayApart
=============================================================================
