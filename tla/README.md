# Steamline: a verification of server deployment

Steamline lets a user enroll machines ("hosts") and run game servers
("instances") on them. A **control plane** (Next.js and PostgreSQL, `src/src/`)
keeps the records; a **host agent** (one node process per host, `src/agent/`)
carries out what they ask for; the **dashboard** is the user's side of the API.
This directory holds TLA+ models of that system, their TLC runs and the TLAPS
proofs about them. Paths below are relative to the repository unless they start
with `src/`, which is the repository's root.

## 1. The system

| Component | State | Operations | Talks to |
|---|---|---|---|
| Instance and host records | `server_instances.status`, `host_id`; `hosts.status` | create, stop, start, delete, finalize-removal, host removal (normal, forced); status report, purge-complete, removal-complete | the agent (REST, WebSocket), the dashboard |
| Agent lifecycle loop | install directories, pid files, game processes | deletion queue, host uninstall, stops, starts, installations | lists and reports to the control plane; spawns processes |
| Agent watchdog | `.steamline-watchdog.json` (failures, last attempt) | restart dead servers, give up, clear "recovering" | as above |
| Control link | one socket per host; the agent's control chain; messages on the wire | control messages out, status and log reports in | all of the above |
| Heartbeat | pending Steam credentials, pending and stored root password, reboot flag; counters, the update report file; `lastSeenAt` | beat, store and deliver a secret, request, carry out and acknowledge a reboot; sample, take the report; presence notices | agent, machine, cron |
| Enrollment and pairing | token, pairing code, install sessions, API keys; the add-host wizard | issue, enroll, claim, expire, prune; open, poll, close | installer, agent, dashboard |
| Backups | destinations, policies, runs; archives, snapshots; the panel's form | schedule tick, run now, events, retention, restore, delete | agent over two channels, dashboard |
| Remote terminal | relay registry, audit rows, shells | open, close, idle close, drop of the agent's socket | browser, relay, agent |
| Agent self-update | bundle, backup copy, environment of the new process | apply, health check, rollback | release manifest |
| Ports and firewalls | `allocatedPorts`; what is bound; nftables, firewalld, Windows rules; router mappings and their file | allocate, probe, reconcile, map, tear down | creates, launches, routers |
| SteamCMD and its logs | the shared tree and its marker; the rows of `instance_log_lines`; event streams | download, extract, install, heal, retry; post, insert, poll | Steam, server, page |
| Accounts and billing | users, links, sessions; customers, subscription rows | sign up, verify, log in; checkout, webhook | mail, Stripe |
| Live pages | the row a page shows, its requests, its event stream | refresh on an event or by a timer | all records |

What is hard in it:

- **No transaction spans a handler.** Except for `purgeHostRecord` and the
  heartbeat, a handler SELECTs, decides, and UPDATEs by primary key; what it
  decided on may be gone.
- **Two threads of work on one disk.** The agent's main loop and its control
  chain both delete, start and install, and interleave at every `await`.
- **Two channels.** A report goes over the WebSocket when there is one (sent is
  done, order and outcome unknown) and over REST otherwise (refusals throw).
- **State in three places.** The row, the pid file and the process are each
  changed without the others; a crash falls between any two.

What makes each component correct: the records follow the user's last wish and
disappear only when asked; the agent leaves nothing behind, deletes nothing
unasked, runs one process per server and gets every request done; a one-time
secret is used once; a slot is backed up once, and neither retention nor a
restore loses the last good copy; a terminal session is counted as long as it
lives and ends on both sides; a rollback restores what ran before; a port has
one owner; what is open is what should be; a page ends up with the truth.

## 2. Plan

| Order | Module | Models | State |
|---|---|---|---|
| 1 | `RemovalContract` | what the control plane promises about removal | done |
| 2 | `ControlPlane` | every handler on instance and host rows; implements 1 | checked, proved |
| 3 | `HostAgent` (extends 2) | agent, disk, processes, link; drives 2; implements 1 | checked, safety proved |
| 4 | `HostEnrollment`, `AddHostWizard` | tokens, codes, claims, keys; the dashboard's side of them | checked, proved |
| 5 | `HostHeartbeat`, `HostReports`, `HostPresence` | what heartbeats bring and take | checked, safety proved |
| 6 | `BackupRuns`, `BackupSchedule`, `BackupPanel` | tick, runs, archives; slots; the form | checked, proved |
| 7 | `TerminalRelay`, `SelfUpdate` | sessions in three places; apply and rollback | checked, safety proved |
| 8 | `PortAllocation`, `PortMappings`, `HostFirewall` | ports, routers, firewalls | checked, the first two proved |
| 9 | `SteamSetup`, `InstallLog`, `LiveViews` | SteamCMD, its log, pages | checked, the first two proved |
| 10 | `Accounts`, `Billing` | links and sessions; the webhook | checked, proved |

Every safety property of the passing runs is a theorem, 33 in eight modules of
proofs; liveness stays with TLC. `Services_proofs` and `Delivery_proofs` hold the
proofs of several components, `ServicesTypes_proofs` the type invariant of all that
`MCServices` composes, which rests on the invariants of the others.

Composition: 3 extends 2 and replaces its "any agent" by the agent's code. The
modules from 4 on share no variable with these or with each other: each takes
from outside only what its comments name (a running server, a signed-in user,
a connected agent) as an action that may happen at any time. `MCServices` and
`MCDelivery` put them side by side: one of them works in a behaviour, the others
stay in their first state. An invariant over all of them is then checked on
each one's own states only, which is all it can depend on, and the state spaces
add up where a full product would multiply.

## 3. Modules

**`RemovalContract`** is 30 lines: an instance appears once, lives until a user
asked for its or its host's removal, and never returns; instances may be removed
several at a time.

**`ControlPlane`**. A handler is two actions. The first (`AskStop`, `Report`, ...)
is its SELECT and every guard after it, and leaves the decided write in the
handler's slot of `call`; the second (`SetStatus`, `DeleteRow`, ...) is the
statement, with exactly the WHERE clause the code has. A slot is a request in
service: `UserSlots` for the dashboard, `AgentSlots` for the agent. Host removal
has two writes and `purgeHostRecord` is a transaction, so they have more actions;
`Locked` are the rows its open transaction has deleted, which other statements
wait for and other SELECTs still see. `"gone"` and `"dropped"` tell a row that
went after the agent's cleanup from one the dashboard dropped without it. `asked`
and `hostAsked` are history. A refused request changes nothing and is no action.
`SerialNext` is the same system with one request in service at a time; a behaviour
of `MCControlPlane!MixSpec` is of the one kind or the other (`alone`).

**`HostAgent`** extends it. `th` holds each thread's program counter and the
phases still to run; between two awaits a thread takes one action. A REST request
occupies the thread's own slot until its write is done, so the thread waits as
the code does. `files` are the install directories. `pidf` is the pid file: absent,
of a live process, of one that was told to end and lives on, or of a dead one.
`stray` and `lingering` are servers with a live process that no pid file names:
one that was never told to end, or one that was. `failures` and `cooling` are the
watchdog's file; `ws`, `sent`, `jobs` are the link. Correspondence to the code:

| Actions | Code |
|---|---|
| `FetchDelete` .. `ReportPurge` | `processDeletionQueue`, `cleanupPendingDelete` |
| `CheckRemoval` .. `Unregister` | `maybeRemoveHost`, `runHostUninstall` |
| `CheckPower` .. `StartGame` | `processPowerLifecycle`, `processInstanceStop`, `processInstanceStart` |
| `Prepare` .. `ReportFailed` | `runDedicatedLaunchPhase` and its three callers |
| `CheckWatch` .. `ReportRecovering` | `processWatchdogPhase`, `processWatchdogQueue` |
| `CheckProvision` .. `SteamCmd` | `processProvisionQueue`, `processProvisionNow`, `provisionInstance` |
| `StartCycle`, `TakeJob` | `runLoop`, `enqueueControl` |
| `Serve`, `HandleReport`, `WsConnects`, `WsDrops` | `sendControlToAgent`, the upgrade handler, `AgentWebSocketClient` |
| `ProcessDies`, `Crash`, `Restarts`, `SpawnKillsAgent` | the machine and the service manager |

Abstractions, each to more behaviour than the code has or to a case named here:
the list is taken in any order (the code orders it by `updatedAt`); a pid is not reused;
an install directory can be removed (a failing `rmSync` is logged and the purge
reported all the same, see the hazards);
logs matter only where their post throws; a spawn may succeed or not; SteamCMD
may fail before or after it made files; a control message is dropped or queued;
reports on the wire are a set, so two equal ones are one. A request that fails
in a place where nothing catches a rejected fetch (the main loop's own lists)
ends the agent, which is `Crash`. The freshness check of the heartbeat before
create, stop and start only refuses requests and is left out.

**What "stopped" means.** `Signal` is `killPidFileIfAny`: SIGTERM goes to one process,
as a rule the shell in which the game was spawned, and nobody waits. It may end at
once, later or never, and the game may outlive its shell; `Stop` then unlinks the
pid file and reports, `Delete` removes the directory and reports, and a start
launches a second process beside the first. So a live game behind a stopped or
purged record is a state of the model, and the properties claim what the code sees
to: every process was *told* to end, and none that was not told is out of reach of
Stop and Delete. That a game with its shell told to end does end is up to the game
and to a start command that stays in the foreground.

**`HostEnrollment`**. `hostRow` holds what enrollment reads of a row: the status,
whether a token is set, the pairing code and whether it has expired, the
machine. A handler checks in one action (`AskEnroll`, `AskPairingCode`,
`AskClaim`) and writes in another (`Enroll`, `SetPairingCode`, `Claim`);
`enrolling`, `pairing` and `claiming` are the requests between the two. The
unique index on user and fingerprint is in `Enroll`. Two claims of one code do
open two hosts, as nothing in the claim's transaction looks again; `doubled`
names those codes, and the properties say what holds otherwise.

**`AddHostWizard`**. `form` is the component's state, `calls` its requests, each
with the opening (`of`) that sent it; `ServeX` is the server, `AnswerX` the code
after the await, which runs whatever is open by then.

**`HostHeartbeat`**. `BeatRead` is the SELECT outside, `BeatCommit` the transaction
that locks the row and takes both secrets: the Steam credentials are cleared whether
or not they can be decrypted, the root password is cleared and stored for the
dashboard in the same transaction, or stays queued when it cannot be decrypted.
`ReportRoot` is the agent that found or set another. `answers` are on their way to
the agent, and `ApplyAnswer` is its side effects. Each reboot request in an answer
starts an acknowledgement of its own: posted (`acking`), served (`AckServed`, which
clears the flag) or failed (`AckFails`), and its answer back with the `shutdown`
that follows or does not (`acked`, `AckReturns`). An agent that restarts in between
leaves posts behind that are served without it (`LateAckServed`). `orphan` is a beat
whose agent is gone.

**`HostReports`**. `Sample`, `Consume` and `Heard` are the three parts of one
heartbeat, between which the agent awaits; `prev` and `since` are the sample
before, shared by all of them. `Heard` is the server: a body that parses is
stored and its notices recorded, one that does not leaves the version only.

**`HostPresence`**. Time is in ticks; `CronScan` reads the stale hosts in one query
and `CronNotice` handles one later.

**`BackupRuns`**. One action per statement of a request (`AskDropDest`/`DropDest`),
per step of the tick (`TickBegin`, `TickCheck`, `TickQueue`, `TickReply`), and per
await of a job in the agent's chain (`Compress`, `Upload`, `Retain`; `Fetch`,
`Snapshot`, `Wipe`, `Extract`; `DeleteArchive`). An archive is the run that wrote
it, whether it is complete, and its place in the order of those beside it; the
code sorts them by the time of their last change, and two of the same second are
taken in the order in which they were written. Polls overlap, as `setInterval` does
not wait for the last one, and the server goes on with one whose call was cut off
(`TickCutOff`). `collided` is history: the policies that two polls found due before
either had inserted a run. For those the slot is queued twice, against "Idempotent
per schedule slot" (`src/src/lib/backup-schedule.ts:197`). Time is the number of the slot; **`BackupSchedule`**
computes which instants begin one, and is checked against what the modes mean.
**`BackupPanel`** models the one form that creates and edits both kinds of row,
its two halves `destForm` and `policyForm`; the content of a half is the row it
was filled from.

**`TerminalRelay`**. `Admit`, `Register` are the upgrade handler's stretches between
its awaits, in which nobody listens to the tab (`deaf`); `relay` is `bySession`,
`controls` the messages in order, `agentSocket` the socket the server would use
and `agentLink` the one that lives. The end of an audit row is written without
waiting: the row is `closing` until it has (`RowEnds`) or has not (`RowStays`) been
written. `ServerRestarts` loses the registry and every connection, and leaves the
open rows open. Two upgrades that overlap pass the relay's limit, so no property
bounds `relay`; the agent checks its own limit and adds the shell in one step, and
the type invariant bounds `Shells`.

**`SelfUpdate`**. An update is `Begin`, `Download`, `Save`, `Install`, `Restart`; the
new process is `CheckPasses` or `CheckFails`, `Restore`, `Respawn`; each may fail.
A start that fails has two more ends: `RestartFails`, a child without a pid, where
the copy is being put back when the child's `error` event, which nobody listens to,
ends the agent; and `RestartThrows`, where the old version goes on running and the
new bundle stays (`left`), for the next update to save as its copy. A copy that
fails or is cut off may leave no file (`Copied`).

**`HostFirewall`**, **`PortMappings`**, **`PortAllocation`**. The first follows
`reconcileLinuxFirewall` for nftables (the table, a hash of what was applied) and
firewalld (a file of what was opened). The script flushes the table before it adds
it, in one transaction, so it works only on a table that exists; nothing in the
repository creates one, an administrator may (`CreateTable`), and a reboot or a
flush of the ruleset takes it away (`TableGone`). The second has one server's
mappings and Windows rules, request by request, with the files that name them. The
third has the pair of ports a create picks from the rows it has read (`FirstFits`)
and the launch in its parts: the probe chooses (`LaunchServer`), the game binds
later if it still can (`BindPorts`), the status post writes the row (`ReportPorts`);
other launches and programs come in between (`raced`).

**`SteamSetup`**, **`InstallLog`**, **`LiveViews`**. `at` is the stage of each of the
two processes that use the SteamCMD tree; `Heal` is the remedy with its one
retry. A log post is a range of lines of one pass; rows get ids when inserted
(`Insert`) and are seen when committed (`Commit`). A post that fails is lost, or only
its answer is, and the server inserts it later, maybe after the posts that follow
(`PostFails`, `overtaken`). And `PollRead`/`PollSend` are a
poll of the event stream. In `InstallLog` a poll is the set of ids it has read and
the page (`shown`) the set each poll added, in the order of the polls, where the
code keeps lists that it sorts by id; that the page forgets what is older than
its last 8000 lines is left out. In `LiveViews` a page is `view`, the row it shows `shown`, its requests are
`ask`.

**`Accounts`**, **`Billing`**. Sign-up and resend are three statements each
(`InsertUser`, `ClearLinks`, `InsertLink`) and a mail. `HookReads`/`HookWrites` are
the webhook, `RowAfter` what it makes of an event.

The modules keep **history flags** for overlaps that the code does not guard
against, and their properties say what holds without them: `doubled` (two claims
of one code), `late` (an answer to an earlier opening of the wizard), `collided`
(two polls over one policy), `overtaken` (a log post made before another was over),
`raced` (something between a probe and its bind), `crossed`
(two updates at once), `left` (a bundle whose restart threw), `rebootLost` (a reboot
request cleared on the server that the agent does not carry out), `together` (two sign-ups or resends of one address),
`torn` (a verification that died half-way), `alone` (false once two processes set up SteamCMD), `moved` (creates that overlap,
or a probe that moved a server), `disorder` (Stripe events out of order),
`mishap`, `skipped`, `strays`, `lost` (a command, call or post failed and nothing
tries again). Each of them is a limit of the code: without its flag the property
is false, and TLC shows how within seconds.

`MCControlPlane` and `MCHostAgent` add symmetry and one bound for TLC, `MCServices`
and `MCDelivery` compose as said in section 2, and the modules ending in `_proofs`
hold the theorems.

Definitions introduced by "Mutant" comments are plausible bugs that take the place
of the definition that follows them, to see that the property of a run notices.

## 4. Runs

| Run | Bounds | Checks | Result |
|---|---|---|---|
| `concurrent` | 2 instances, 2 dashboard requests and 1 agent request at a time; or 1 request at a time | `TypeOK`, `RowsAreOwned`, `ImplementsContract`; `IntentSticks` of the latter | holds |
| `overlap` | 1 instance, 1 + 1 requests | `DeletionSticks` | **violated** |
| `rest` | 2 servers, REST, processes die, no other fault | `GoneMeansGone`, `StoppedMeansTold`, `NoneOutOfReach` | holds |
| `live` | 1 server, REST, one failed request, crash or reboot; fair | `RequestsProgress`, `DataKept` | holds |
| `ws` | 1 server, WebSocket, both threads, one lost connection | `AgentTypeOK`, `DataKept` | holds |
| `orphan` | 1 server, WebSocket | `GoneMeansGone` | **violated** |
| `retry` | 1 server, REST, MAX_FAILURES = 5 | `RetryStands` | **violated** |
| `removal` | 1 server, REST, maxPerKind = 8; fair | `HostRemovalCompletes` | **violated** |
| `services` | one of twelve services at a time (1.4 million states) | the sixteen properties below | holds |
| `delivery` | one of six concerns at a time; fair | the twelve properties below | holds |
| `reports` | 2 heartbeats, one report file | `TakenIsTold` | **violated** |
| `firewall` | 2 ports, 3 changes; fair | `IntentIsReapplied` | **violated** |

| Run | Property | Says |
|---|---|---|
| `services` | `ServicesTypeOK` | types of all twelve; the runs of SteamCMD stay within the one retry |
| | `SingleFaultSafe` | a server's data survive any one failure of a restore |
| | `NoDoubleJob` | the agent never holds two scheduled backups of one server to one destination, but for policies over which two polls collided |
| | `LatestKept` | retention never drops the newest complete archive |
| | `SlotsMatchSchedule` | last and next slot are the instants the schedule means, for all three modes, at each minute of a week and a day |
| | `FormsStayApart` | an update of a row carries what was filled from that row |
| | `HostsStayApart`, `CredentialsAreSpent` | one machine and one code per host, no enrollment of a host that has a key |
| | `WizardTellsTruth` | what the wizard shows is so |
| | `PortsApart` | rows, and servers between their probe and their stop, have ports of their own |
| | `NothingLeftOpen` | every mapping and rule is named by a file, and none outlives its server |
| | `LogIsFaithful` | no line twice; in order and complete as long as posts do not overtake each other, which over REST takes a failed call |
| | `TrafficOnce` | rates never count a byte twice |
| | `MarkerIsTrue` | the marker names a complete SteamCMD tree |
| | `LinksAreReplaced` | one live link per account, none when verified |
| | `BillingFollows` | the row is what the user pays for |
| `delivery` | `DeliveryTypeOK` | types of all six; shells and opens stay within their limits |
| | `SteamOnce`, `RevealTellsTruth`, `RebootHappens` | credentials in one answer; the password shown is the one root has or gets; a reboot comes, or the agent did not hear that its request was cleared |
| | `SlotsMatchAudits`, `ShellFollowsTab` | registry and open audit rows agree; close does not overtake open |
| | `RollbackRestores`, `UpdatesSettle` | a rollback restores what ran; no update hangs or rolls back for ever |
| | `OneNoticePerOutage`, `OutageIsNoticed` | one notice per outage, and that one comes |
| | `FirewallFollows` | the ports let in are again and again those of the running servers, or nft has no table |
| | `PageCatchesUp` | a page ends up with the row as it is |

What the violated ones show (details and lines in PROJECT.json, "findings"):

- `overlap`: a report and a DELETE overlap; the report's write wins and the
  deletion is forgotten. `IntentSticks` in run `concurrent` and theorem `SerialIntent` show
  that the overlap is the only cause: with one request at a time the guards suffice, for
  stops and starts too.
- `orphan`: the control chain deletes a server the main loop is installing.
  Run `rest` shows that one thread alone leaves nothing behind.
- `retry`: the watchdog takes the pid file it removed itself as a sign that the
  server is not tracked, and reports a failed restart as running.
- `removal`: a server created on a host that is going keeps it from going.
- `reports`: the first heartbeat of a process has no per-core CPU usage and says
  so with `null`, which the server's schema refuses, and with it the whole body;
  the report of the operating system's update, whose file is deleted by then, is
  told to nobody.
- `firewall`: on a machine with nft and no table `inet steamline` every reconcile
  fails at its first line, and nothing in the repository creates the table; the
  ports stay open. `FirewallFollows` shows that with a table, as long as it is
  there, the rules do follow.

`GoneMeansGone` and `NoneOutOfReach` also fail when a request fails or the agent
crashes at the wrong moment (the hazards at `agent/cli.ts:237` and
`agent/provision.ts:568`); no document promises them there, so run `live` checks
what must hold even then.

**Why the bounds are enough.** A conflict between handlers needs two of them;
the third slot adds a purge beside two others. Two servers are what it takes for
one to delay the other and for a queue run to go on (`queueMore`). The agent's
phases end, so `MaxFailures` = 2 (0 in `ws`) and `MaxPerKind` = 2 reach both sides
of both limits, and `retry` and `removal` use the code's values (5 and 8).
`AgentSlots` beyond the threads is where a request goes on that the agent did not
live to see answered, and where a WebSocket report is served. `MaxJobs`,
`MaxSent` and `MaxLosses` are 1 where they are not 0: one delayed report beside
the threads' own requests, one fault at every possible moment. `MaxLosses` counts
failed requests, crashes, reboots and lost connections together. In `ws` the
action constraint `OnlyDeployAndDelete` keeps users from stopping and starting,
which run `rest` covers. Deadlock is not checked: every behaviour may end with all
ids used and removed, or with the host unregistered and the agent gone.
`MAX_PROVISIONS_PER_CYCLE` (32) is not reached with two servers and is left out.

In `services` and `delivery` every service has two of whatever may conflict: two
instances or hosts, two requests, two polls, two updates, two tabs at a limit of
one session, two gateways. Bounds whose smallness needs a word:

- `BackupRuns` twice, as its polls multiply everything else. `backups`: one poll at a
  time in one slot of the schedule, beside every kind of job; the user starts with an
  sftp destination and may add a local and an s3 one, and makes one change of a
  destination or policy, or one step fails, one crash happens or one connection is
  lost, at every moment (`MaxEvents`). `polls`: two polls that overlap, in the slot
  that is on and the one after, for one policy that nobody edits, with one fault.
  Two runs in both. `SharedPrefix` is empty: with one prefix for two servers
  `LatestKept` is false, as `docs/management.md:75` warns.
- `BackupSchedule`: an hour of 2 minutes and a day of 4, from the first minute of one
  week to the first day of the next. The arithmetic uses the lengths only through `%`
  and `\div`, and a week keeps its seven days.
- `HostEnrollment`: one code shared by everything, which is where codes can be
  mixed up; two machines and two enrollments.
- `PortAllocation`: one base, two strides, and two tries, so that an allocator
  that runs out is among the cases; two launches (`MaxStarts`), so that one can come
  into the window of the other or follow its stop; 65535 is far beyond these and no part of the
  property.
- `HostFirewall`: three launches, stops or changes of the table, so that it can be
  made, flushed and taken away, or made for a server that starts and stops.
- `TerminalRelay`: `MaxSessions` and `MaxOpens` are 1, and `HourPasses` gives opens
  back, so both limits are met by two tabs; the code's 5 and 40 differ in nothing.
- `HostPresence`: `MaxAge` 3 and a cooldown of 7 ticks, so that a second outage
  begins and is found while the notice of the first still silences it.
- `SteamSetup`: two installations and one `steam-login`, one fault.
- `Billing`: three events of two subscriptions: one is ended and another begun,
  with one event to repeat.
- The other `Max...` bounds are 1 fault and 2 or 3 changes, enough for a fault at
  every step of one operation and for a second operation after it.

Deadlock is not checked there either: the bounds end every service.

**Fairness** (`live`, `removal`): weak fairness of each thread's next step and of
each statement in service. Node runs every continuation that is ready and
PostgreSQL finishes every statement; SteamCMD is assumed to end, as the agent has
no timeout for it. Nothing is assumed about users, dying processes, the end of a
backoff or of faults: the bound on losses only keeps them from happening forever.
Each thread is fair as a whole, never in one of its outcomes: SteamCMD may fail
every time. `RequestsProgress` then says that a request leaves its status, not
that it succeeds.

In `delivery`, each module states its own and `MCDelivery` binds it to the concern
at work:

- `HostHeartbeat`: the agent's timer beats and the server answers; strong fairness
  of `ApplyAnswer(TRUE)` and of `AckServed`, since an answer or a post may be lost
  each time a restart comes and a flag that is still set is sent again with every
  beat; a request that was served ends, with success or not (`AckReturns`); a
  machine that was told to shut down does. Restarts are bounded.
- `TerminalRelay` has only safety properties and assumes nothing of messages,
  browsers, sockets or timers.
- `SelfUpdate`: awaits of a living process return, and the check has a deadline of
  30 s. Nothing says with which outcome.
- `HostPresence`: time passes, and the cron job is called.
- `HostFirewall`: the loop's reconcile takes place and its commands work in the
  end, as far as they can: without its table the nft script fails every time; a flush, a failed command or a failed list may come in between.
- `LiveViews`: the agent of an online host beats, and each beat publishes an event
  (strong: beats go on for ever while the host may go away and come back); a
  browser's EventSource connects again; requests are served and answered.

## 5. Proofs

Each theorem below holds for every value of the constants: any sets of servers,
hosts, users and requests, any limits, any number of faults unless it says so.
Each rests on an inductive invariant, which is proved from the first states and
over every action; the property itself TLC checks on a small instance as well.

### The life of a server

| Theorem | States | Argument |
|---|---|---|
| `ControlPlane_proofs!TypeCorrect` | `Spec => []TypeOK` | inductive as it stands, one step per action |
| `RowsStayOwned` | `Spec => []RowsAreOwned` | inductive with `TypeOK`. The part about open purges is what makes it so: the rows a transaction deleted are locked, so no `DeleteRow` or second `WipeRows` takes them |
| `ContractHolds` | `Spec => ImplementsContract` | `RowsAreOwned` is not enough: that a row may go *now* depends on what was asked when its handler decided. `RemovalInv` says so of each slot: a decided `finalize` or `purge` is of an instance that was asked for or whose host was, a decided `wipe` means the host was, a decided insert is the only one for its id. With it each action maps to a step of the contract or to a stutter |
| `SerialIntent` | `MixSpec => IntentSticks` | invariant of the serial system: at most one slot is busy, and what it decided is legal from the row as it stands (`Legal`), because nobody could write in between |
| `HostAgent_proofs!NothingIsDeletedUnasked` | `AgentSpec => DataKept` | `DataKept` speaks of one step, but a thread decides to delete long before it does. `AgentInv` carries the reason along: a thread at `kill` or `rm` has an instance that was asked for or whose host was, one at `count` or `wipe` is on a host that was (`DeletionsAreAsked`); this comes from `RemovalInv` of the records at the moment the list is read. `LaunchesHaveCallers` says that a thread inside a launch is in a phase that launches, without which the catch around it has no meaning |
| `AgentHonoursContract` | `AgentSpec => ImplementsContract` | every step of the agent is a step of `ControlPlane` on the records, but a restart, which moves requests in service to spare slots: `Moved` gives a one-to-one map of the busy slots, under which `Inv` is kept |
| `AgentTypeCorrect` | `AgentSpec => []AgentTypeOK` | that the count of failures never passes `MaxFailures` depends on where a thread is: the watchdog adds one to what it read some awaits ago. `PlaceFits` says of each place which phase it is in, and what its `n` can be there |
| `NoneGetsOutOfReach`, `StopIsTold`, `RemovalIsComplete` | `Calm => (AgentSpec => []...)` of `NoneOutOfReach`, `StoppedMeansTold`, `GoneMeansGone` | one invariant, `CalmInv`, of the main loop, the records and the disk together: a server the loop holds in its hands or still has on a list it read is neither stopped nor gone (`HandsFit`, `WaitsFit`), because the phases that delete come before those that launch in a round and the guards of the records refuse the rest; what a request was decided on still holds when it is written (`PowerIsFresh`, `CallFits`); and what a row says of the disk is so (`RowsFit`) |

The last three are theorems about an agent under `Calm`: REST only, no fault but
dying game processes, one dashboard request at a time. These are the conditions
of run `rest`, and each of them is needed: over the WebSocket run `orphan` finds a
server left behind; with a failed request or a crash `GoneMeansGone` is false (the
hazards at `agent/cli.ts:237` and `agent/provision.ts:568`); with two dashboard
requests at a time a stop and a start that overlap leave a row that is started
twice, so `NoneOutOfReach` is false. They do not say that a process which was told
to end has ended, which is false (section 3). What holds without them is in the two theorems
above.

### Backups

| Theorem | States | Argument |
|---|---|---|
| `Backups_proofs!RestoreIsSafe` | `BackupSpec => []SingleFaultSafe` | `RestoreInv`: a restore that is past its snapshot has one, or the one fault has been; and the job it works on stays the first of the chain |
| `BackupsAreNotDoubled` | `BackupSpec => []NoDoubleJob` | `HeldInv`: every run has one job, and as long as the agent holds it, or any of the polls it waits for will give it, its row is in flight and no message that ends it is under way. `SlotInv` then says that a policy which a tick has found due has no held job and no other tick has found it due, or the two have collided |
| `NewestIsKept` | `SharedPrefix = {} => (BackupSpec => LatestKept)` | `ArchiveInv`: a job between its upload and its retention finds its own archive where it was written, complete and the newest of all. The control plane deletes archives in the meantime, but only of runs that are done, and by `HeldInv` this one is in flight |
| `FormsNeverMix` | `PanelSpec => FormsStayApart` | `FormInv`: each half of the form that edits a row holds the content of that row, whatever the lists become, and the destination of a manual backup is one that is listed as enabled |
| `Services_proofs!SlotsAreRight` | `ScheduleSpec => []SlotsMatchSchedule` | arithmetic: of each mode, that the instant computed begins a slot and that no slot begins between it and now |

`SharedPrefix = {}` says that no two servers are given one prefix; otherwise
`LatestKept` is false, as `docs/management.md:75` warns.

### Hosts

| Theorem | States | Argument |
|---|---|---|
| `HostEnrollment_proofs!HostsAreApart` | `EnrollSpec => []HostsStayApart` | `KeysInv`: a host with a key is recorded with a machine that has one, and only a host that is known is recorded with any. `CodesInv`: as long as no two claims of a code overlapped it is on no host while its session can be claimed or a claim is in service, and afterwards on the one it is linked to |
| `CredentialsStaySpent` | `EnrollSpec => CredentialsAreSpent` | a pending host has no key (`KeysInv`), and only pending hosts are opened |
| `WizardIsTrue` | `WizardSpec => []WizardTellsTruth` | `WizardInv`: every answer under way is of the opening that asked, or `late` says that one is not, and what it carries is still so when it arrives |
| `Delivery_proofs!SteamIsDeliveredOnce` | `HeartbeatSpec => SteamOnce` | `SteamInv`: what is in the row has been in no answer, because the transaction that takes it clears it, and new credentials are newer than all that were sent |
| `RevealIsTrue` | `HeartbeatSpec => []RevealTellsTruth` | `RootInv`: what is stored is the last password that was sent, whether or not a newer one is queued, and no answer is under way while nothing is stored |
| `OutageIsNoticedOnce` | `PresenceSpec => []OneNoticePerOutage` | `PresenceInv`: a notice is recorded only while none was since the last heartbeat, also by a scan that read an older one |
| `Services_proofs!TrafficIsCreditedOnce` | `HostReportsSpec => []TrafficOnce` | `TrafficInv`: a byte is stored, in the sample of one beat under way, or still to be found by the next sample; `Uncredited` counts the second byte by byte, so any number of beats may overlap |
| `Delivery_proofs!RollbackIsRight` | `UpdateSpec => []RollbackRestores` | `UpdateInv`: while no two updates overlapped, the bundle is what runs until it is replaced, or what a restart that threw has left there, or lost; and the copy is one of these versions from the time it is made until the new process has taken over |
| `DeliveryTypesHold` | `DeliverySpec => []DeliveryTypeOK` | a shell is added only below the limit, an open counted only below its own; an update belongs to a process that lives (`UpdateTypes`) |

### Sessions, ports, logs, accounts

| Theorem | States | Argument |
|---|---|---|
| `Delivery_proofs!SlotsStayMatched` | `TerminalSpec => []SlotsMatchAudits` | `SessionInv`: only a tab whose upgrade ended in a session is in the relay, and a close is heard after it happened; every step that takes a session out of the relay, the restart of the server included, moves its row away from `open` |
| `ShellsFollowTheirTabs` | `TerminalSpec => []ShellFollowsTab` | `FirstLinkInv`: while the first socket of the agent lasts, behind every "open" of a closed tab there is its "close" |
| `Services_proofs!PortsStayApart` | `PortSpec => []PortsApart` | `PortsInv`, of two parts that do not need each other: while nothing entered the window of a launch, what the servers were started with is apart; while nothing overlapped or moved, servers run with the ports of their rows, and the create under way has seen every port that the rows have by then |
| `NothingStaysOpen` | `MappingsSpec => []NothingLeftOpen` | `MappingsInv`: each step of a job says what may be open besides what the files name: nothing, what a launch was given and has not saved, what a teardown has not tried yet |
| `MarkerNamesWholeTree` | `SteamSpec => []MarkerIsTrue` | `SteamInv`: a process between its look at the marker and its own mark works on a tree without one, and nobody unpacks where another broke off |
| `InstallLog_proofs!PageShowsLog` | `InstallLogSpec => []LogIsFaithful` | `LogInv`: posts share no line and no row (`PostsInv`), a line is in one row and not on its way any more (`RowsInv`); while none was overtaken one post is under way at a time and carries the lines after all that are in the table (`OrderInv`), so ids come in order and a poll leaves no gap behind what it has read (`PageOrderInv`); over REST, while no call failed, the agent waits for each (`AwaitInv`). The largest id of a set is found by the least counterexample, as the library's induction cannot be used |
| `Services_proofs!OneLinkPerAccount` | `AccountsSpec => []LinksAreReplaced` | `AccountsInv`: of a user whose requests never overlapped one at most is under way, and its step says what links there are |
| `RowsFollowStripe` | `BillingSpec => []BillingFollows` | `BillingInv`: while nothing is out of order, the events not acknowledged say what a row still misses: the last event of a subscription tells its status, and events of the next one come after the end of the one in the row |
| `ServicesTypes_proofs!ServicesTypesHold` | `ServicesSpec => []ServicesTypeOK` | `ServicesTypes`: a conjunct for each service. Where a value is read back from a queue, an answer or a list the service's own invariant above says what can be in it; where a bound is meant it is counted along (`RunsCounted`: SteamCMD runs once before the retry and once after it). Ports are bounded from below only: a launch may move a server on each time |

Assumptions are those named in the modules, which TLC evaluates on the runs'
instances: `SlotsAreDistinct`, `ThreadsAreSlots`, `LimitsAreNumbers` and one of each
service (`EnrollmentAssumption`, `BackupAssumption`, `InstallLogAssumption`, ...).
They say that bounds are numbers, limits at least 1, that model values differ, that
there is a port to start from and that the routers of a network are finitely many.
The history flags of section 3 are in the properties, not in the hypotheses: the
theorems speak of behaviours with overlaps too, and say what those keep.

What stays with TLC, and why:

- `RequestsProgress` and the five liveness properties of run `delivery`
  (`RebootHappens`, `UpdatesSettle`, `OutageIsNoticed`, `FirewallFollows`,
  `PageCatchesUp`): liveness under fairness is out of the prover's reach;
- the violated properties, which are false.

## 6. Not modelled

Components with status `not_modelled` in PROJECT.json, with the reason there:

- the import of the Steam catalog, the jobs that prune logs, update events and
  old backup runs: one statement each that nothing modelled reads;
- hardening, launch presets and the detection of the environment: commands to the
  operating system without state of the program;
- the GameServerOS image and its shell scripts, `install-to-target.sh` among them,
  which run once and alone; `gameserveros-updater.sh` updates packages and is an
  input of `HostReports`: nothing in the repository writes the report file that
  the agent takes, so its writer is an action that may happen at any time;
- pages that show rows and send one request.

Within the modelled ones:

- `ControlPlane`: the status `draft` (no code creates it) and the removal of a host
  that is still pending (it is in `HostEnrollment`);
- `HostAgent`: `STEAMLINE_PROVISION_STUB`, templates without a Steam app,
  `instance_restart` and `instance_update` (a host's owner can send any control
  message by hand through the agent-command route; these run the phases that are
  modelled), the upper limit on installations per cycle;
- control link: update and backup events are in `BackupRuns`; progress events of an
  update decide nothing;
- backups: retention by age, policies without a server, pruning;
- notifications: the settings a user may change, mail, webhooks;
- logs: the search for hints in a log (`log-insights.ts`);
- accounts: rate limits, captchas, password hashes; billing: the portal.
