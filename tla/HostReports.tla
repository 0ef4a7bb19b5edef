------------------------------ MODULE HostReports ------------------------------
(***************************************************************************)
(* What a heartbeat carries from the machine: a sample of its counters,    *)
(* with rates against the sample before, and the report that the updater   *)
(* of the operating system left in a file.  A heartbeat samples, waits for *)
(* the public address of the machine, takes the file and is posted; the    *)
(* timer of the WebSocket and the loop of the agent start heartbeats       *)
(* without waiting for one another, and the server handles them in any     *)
(* order.                                                                  *)
(***************************************************************************)
EXTENDS Naturals, FiniteSets

CONSTANTS
    Beats,          \* heartbeats that overlap
    Outcomes,       \* outcomes of a report: applied, failed, skipped, ...
    MaxBytes,       \* bound: bytes that the interface moves
    MaxReports,     \* bound: reports that the updater writes
    MaxReportFaults \* bound: restarts, failed calls and lost posts

ASSUME HostReportsAssumption ==
    MaxBytes \in Nat /\ MaxReports \in Nat /\ MaxReportFaults \in Nat

VARIABLES
    counter,    \* bytes of an interface, or sectors of a disk, since it came up
    truly,      \* history: what really passed through it
    prev,       \* the sample before, of this process: known, bytes
    since,      \* 0: no more than 0.1 s ago, 1: 0.2 s, 2: longer
    beat,       \* heartbeat -> its state, metrics and report
    file,       \* os-update-report.json
    reported,   \* reports that the updater wrote
    credited,   \* history: what the rates stored in hosts.hostMetrics stand for
    recent,     \* notices within the cooldown of their kind
    told,       \* history: the notices that the owner got
    taken,      \* history: reports taken from the file by a heartbeat
    reportFaults

machine == <<counter, truly>>
server == <<credited, recent, told>>
reportVars == <<machine, prev, since, beat, file, reported, server, taken,
                reportFaults>>

Levels == {"ok", "low", "full"}      \* "low" is above 90 %, "full" above 95 %
Files == Outcomes \cup {"none", "garbled"}
Notices == Outcomes \cup {"disk_low_10", "disk_low_5"}
Metrics == [sampled : BOOLEAN, delta : 0..MaxBytes, cores : BOOLEAN]
NoMetrics == [sampled |-> FALSE, delta |-> 0, cores |-> TRUE]
IdleBeat == [st |-> "idle", metrics |-> NoMetrics, report |-> "none"]

HostReportsTypeOK ==
    /\ counter \in 0..MaxBytes /\ truly \in 0..MaxBytes
    /\ prev \in [known : BOOLEAN, bytes : 0..MaxBytes] /\ since \in 0..2
    /\ beat \in [Beats -> [st : {"idle", "address", "posted"},
                           metrics : Metrics,
                           report : Outcomes \cup {"none"}]]
    /\ file \in Files /\ reported \in 0..MaxReports
    /\ credited \in Nat
    /\ recent \subseteq told /\ told \subseteq Notices
    /\ taken \subseteq Outcomes /\ reportFaults \in 0..MaxReportFaults

HostReportsInit ==
    /\ counter = 0 /\ truly = 0
    /\ prev = [known |-> FALSE, bytes |-> 0] /\ since = 2
    /\ beat = [b \in Beats |-> IdleBeat]
    /\ file = "none" /\ reported = 0
    /\ credited = 0 /\ recent = {} /\ told = {}
    /\ taken = {} /\ reportFaults = 0

ReportFault ==
    reportFaults < MaxReportFaults /\ reportFaults' = reportFaults + 1

-----------------------------------------------------------------------------
(***************************************************************************)
(* The machine.                                                            *)
(***************************************************************************)
Traffic ==
    /\ truly < MaxBytes
    /\ truly' = truly + 1 /\ counter' = counter + 1
    /\ UNCHANGED <<prev, since, beat, file, reported, server, taken,
                   reportFaults>>

(* The interface or the disk comes back, and its counter starts again.     *)
CounterRestarts ==
    /\ counter > 0 /\ counter' = 0
    /\ UNCHANGED <<truly, prev, since, beat, file, reported, server,
                   taken, reportFaults>>

(* The updater writes its report, or is interrupted in the middle.         *)
UpdaterReports ==
    /\ reported < MaxReports /\ reported' = reported + 1
    /\ file' \in Outcomes \cup {"garbled"}
    /\ UNCHANGED <<machine, prev, since, beat, server, taken, reportFaults>>

MomentPasses ==
    /\ since < 2 /\ since' = since + 1
    /\ UNCHANGED <<machine, prev, beat, file, reported, server, taken,
                   reportFaults>>

CooldownEnds(n) ==
    /\ n \in recent /\ recent' = recent \ {n}
    /\ UNCHANGED <<machine, prev, since, beat, file, reported, credited, told,
                   taken, reportFaults>>

(* The agent restarts: what it built is gone, what it posted may arrive.   *)
AgentRestarts ==
    /\ ReportFault
    /\ prev' = [known |-> FALSE, bytes |-> 0] /\ since' = 2
    /\ beat' = [b \in Beats |-> IF beat[b].st = "address" THEN IdleBeat
                                ELSE beat[b]]
    /\ UNCHANGED <<machine, file, reported, server, taken>>

-----------------------------------------------------------------------------
(***************************************************************************)
(* buildHeartbeatPayload.                                                  *)
(***************************************************************************)

(* A rate needs a sample that is older than 0.1 s, and a counter that fell *)
(* counts as no traffic.                                                   *)
Delta == IF prev.known /\ since > 0 /\ counter > prev.bytes
         THEN counter - prev.bytes ELSE 0

(* computePerCoreUsage: its sample has to be older than 0.2 s, or the load *)
(* of the cores is null.                                                   *)
CoresMeasured == prev.known /\ since = 2

(* collectHeartbeatMetrics.                                                *)
Sampled == [sampled |-> TRUE, delta |-> Delta, cores |-> CoresMeasured]

(* Mutant: the time of the sample before moves, its bytes stay.            *)
SampleKeepsBytes(b) ==
    /\ beat[b].st = "idle"
    /\ beat' = [beat EXCEPT ![b] = [IdleBeat EXCEPT !.st = "address",
                                                    !.metrics = Sampled]]
    /\ prev' = [known |-> TRUE,
                bytes |-> IF prev.known THEN prev.bytes ELSE counter]
    /\ since' = 0
    /\ UNCHANGED <<machine, file, reported, server, taken, reportFaults>>

(* The sample takes the place of the one before it at once.                *)
Sample(b) ==
    /\ beat[b].st = "idle"
    /\ beat' = [beat EXCEPT ![b] = [IdleBeat EXCEPT !.st = "address",
                                                    !.metrics = Sampled]]
    /\ prev' = [known |-> TRUE, bytes |-> counter] /\ since' = 0
    /\ UNCHANGED <<machine, file, reported, server, taken, reportFaults>>

(* It throws: the heartbeat has no metrics, and does not ask the address.  *)
SampleFails(b) ==
    /\ beat[b].st = "idle" /\ ReportFault
    /\ beat' = [beat EXCEPT ![b].st = "address"]
    /\ UNCHANGED <<machine, prev, since, file, reported, server, taken>>

(* The address is known or given up: consumeOsUpdateReport deletes the     *)
(* file before it is parsed, and goes on if it cannot.                     *)
Consume(b) ==
    /\ beat[b].st = "address"
    /\ LET report == IF file \in Outcomes THEN file ELSE "none"
       IN /\ beat' = [beat EXCEPT ![b].st = "posted", ![b].report = report]
          /\ taken' = taken \cup ({report} \cap Outcomes)
    /\ \/ file' = "none" /\ UNCHANGED reportFaults
       \/ file # "none" /\ ReportFault /\ UNCHANGED file
    /\ UNCHANGED <<machine, prev, since, reported, server>>

(* The socket closed while the heartbeat was built, or the request failed. *)
Lost(b) ==
    /\ beat[b].st = "posted" /\ ReportFault
    /\ beat' = [beat EXCEPT ![b] = IdleBeat]
    /\ UNCHANGED <<machine, prev, since, file, reported, server, taken>>

-----------------------------------------------------------------------------
(***************************************************************************)
(* runAgentHeartbeatTransaction, the part about metrics and reports.       *)
(***************************************************************************)

(* parseHeartbeatRequestBody: cpuPerCoreUsagePct may be missing but not    *)
(* null; a body that the schema refuses is read for its version alone.     *)
FullyParsed(p) == p.metrics.cores

DiskNotice(level) ==
    CASE level = "full" -> {"disk_low_5"}
      [] level = "low"  -> {"disk_low_10"}
      [] OTHER          -> {}

(* recordUserNotification: the cooldown is of one kind of notice.          *)
NotRecent(n) == n \notin recent

(* The fullest mount of a sample may be anything.                          *)
Heard(b) == \E level \in Levels :
    LET p == beat[b]
        stored == FullyParsed(p) /\ p.metrics.sampled
        due == (IF stored THEN DiskNotice(level) ELSE {})
               \cup (IF FullyParsed(p) THEN {p.report} \cap Outcomes ELSE {})
        new == {n \in due : NotRecent(n)}
    IN /\ p.st = "posted" /\ beat' = [beat EXCEPT ![b] = IdleBeat]
       /\ credited' = credited + (IF stored THEN p.metrics.delta ELSE 0)
       /\ recent' = recent \cup new /\ told' = told \cup new
       /\ UNCHANGED <<machine, prev, since, file, reported, taken,
                      reportFaults>>

HostReportsNext ==
    \/ Traffic \/ CounterRestarts \/ UpdaterReports
    \/ MomentPasses \/ AgentRestarts
    \/ \E n \in Notices : CooldownEnds(n)
    \/ \E b \in Beats : \/ Sample(b) \/ SampleFails(b) \/ Consume(b)
                        \/ Lost(b) \/ Heard(b)

HostReportsSpec == HostReportsInit /\ [][HostReportsNext]_reportVars

-----------------------------------------------------------------------------
(***************************************************************************)
(* The rates that the server stored stand for no more than truly passed:   *)
(* however heartbeats overlap, arrive out of order or are lost, and        *)
(* whenever a counter starts again, nothing is counted twice.              *)
(***************************************************************************)
TrafficOnce == credited <= truly

(***************************************************************************)
(* os-update-report.ts: "the next heartbeat consumes and deletes the file  *)
(* so notifications fire once".  When nothing failed and no heartbeat is   *)
(* on its way, the owner was told of every report a heartbeat took.        *)
(***************************************************************************)
TakenIsTold ==
    reportFaults = 0 /\ (\A b \in Beats : beat[b].st # "posted") =>
        taken \subseteq told
=============================================================================
