--------------------------- MODULE ControlPlane ---------------------------
(***************************************************************************)
(* The control plane's record of one enrolled host and of the game servers *)
(* ("instances") on it: the rows of server_instances and hosts, and every  *)
(* HTTP or WebSocket handler that changes them.                            *)
(*                                                                         *)
(* No handler but purgeHostRecord runs in a transaction.  Each one SELECTs *)
(* a row, decides on what it read, and writes with a WHERE clause that     *)
(* names the row only, so a handler is two or more actions here: the first *)
(* reads and leaves the decided write in the handler's slot of "call", the *)
(* next one executes it, and other handlers run in between.                *)
(*                                                                         *)
(* A handler that refuses a request changes nothing and is left out.  The  *)
(* agent is any holder of the host's API key: module HostAgent restricts   *)
(* it to what the agent's code sends.                                      *)
(***************************************************************************)
EXTENDS FiniteSets

CONSTANTS
    Instances,    \* ids of game servers (each is used for one row only)
    UserSlots,    \* requests of the dashboard that are served concurrently
    AgentSlots    \* requests of the host agent that are served concurrently

Slots == UserSlots \cup AgentSlots

ASSUME SlotsAreDistinct == UserSlots \cap AgentSlots = {}

VARIABLES
    row,          \* instance -> status of its row
    onHost,       \* instances whose row has this host as host_id
    host,         \* status of the host's row
    call,         \* slot -> the write its handler has decided on
    asked,        \* history: instances whose deletion a user asked for
    hostAsked     \* history: a user asked for the removal of the host

vars == <<row, onHost, host, call, asked, hostAsked>>

(***************************************************************************)
(* Statuses.  "none" and the last two are not statuses of a row: the row   *)
(* does not exist yet, was deleted after the agent reported its cleanup    *)
(* ("gone"), or was deleted by the dashboard without one ("dropped").      *)
(***************************************************************************)
Statuses == {"queued", "installing", "running", "failed", "stopping",
             "stopped", "starting", "recovering", "pending_delete"}
Removed == {"gone", "dropped"}
RowStates == Statuses \cup {"none"} \cup Removed
HostStates == {"online", "pending_removal", "gone"}

Exists(i) == row[i] \in Statuses

(* What POST .../status and the WebSocket message instance_status accept.  *)
ReportTransitions ==
    {<<"queued", "installing">>, <<"failed", "installing">>,
     <<"installing", "running">>, <<"installing", "failed">>,
     <<"stopping", "stopped">>,
     <<"starting", "running">>, <<"starting", "failed">>,
     <<"running", "recovering">>, <<"running", "failed">>,
     <<"recovering", "running">>, <<"recovering", "failed">>,
     <<"recovering", "recovering">>}
Reportable == {"installing", "running", "failed", "stopped", "recovering"}

Accepts(i, next) == i \in onHost /\ <<row[i], next>> \in ReportTransitions

(***************************************************************************)
(* Calls: what a handler will write next.                                  *)
(***************************************************************************)
Idle == [op |-> "idle"]
InsertCall == [op : {"insert"}, inst : Instances]
UserSetCall == [op : {"set"}, inst : Instances,
                to : {"stopping", "starting", "pending_delete"}]
ReportCall == [op : {"report"}, inst : Instances, to : Reportable]
DeleteCall == [op : {"finalize", "purge"}, inst : Instances]
HostCall == [op : {"markRows", "markHost"}]
WipeCall == [op : {"wipe"}, as : Removed]
WipedCall == [op : {"wiped"}, as : Removed, rows : SUBSET Instances]
Calls == {Idle} \cup InsertCall \cup UserSetCall \cup ReportCall
         \cup DeleteCall \cup HostCall \cup WipeCall \cup WipedCall

TypeOK ==
    /\ row \in [Instances -> RowStates]
    /\ onHost \in SUBSET Instances
    /\ host \in HostStates
    /\ call \in [Slots -> Calls]
    /\ asked \in SUBSET Instances
    /\ hostAsked \in BOOLEAN

Init ==
    /\ row = [i \in Instances |-> "none"]
    /\ onHost = {}
    /\ host = "online"
    /\ call = [s \in Slots |-> Idle]
    /\ asked = {}
    /\ hostAsked = FALSE

(* Rows that open purgeHostRecord transactions have deleted: locked until  *)
(* they commit, and still visible to everybody else.                       *)
LockedBy(S) == UNION {call[s].rows : s \in {t \in S : call[t].op = "wiped"}}
Locked == LockedBy(Slots)

Decide(s, c) ==
    /\ call[s] = Idle
    /\ call' = [call EXCEPT ![s] = c]
    /\ UNCHANGED <<row, onHost, host>>

Return(s) == call' = [call EXCEPT ![s] = Idle]

-----------------------------------------------------------------------------
(***************************************************************************)
(* The first half of the dashboard's handlers: SELECT and decide.          *)
(***************************************************************************)

(* POST /api/instances: the host must not be "pending"; one that is being  *)
(* removed is accepted.  The id is a fresh uuid.                           *)
AskCreate(s, i) ==
    /\ host # "gone"
    /\ row[i] = "none"
    /\ \A t \in Slots : call[t] # [op |-> "insert", inst |-> i]
    /\ Decide(s, [op |-> "insert", inst |-> i])
    /\ UNCHANGED <<asked, hostAsked>>

(* PATCH /api/instances/:id with power = "stop".                           *)
AskStop(s, i) ==
    /\ i \in onHost
    /\ row[i] \in {"running", "recovering"}
    /\ Decide(s, [op |-> "set", inst |-> i, to |-> "stopping"])
    /\ UNCHANGED <<asked, hostAsked>>

(* Mutant: a server that is still stopping may be started.                 *)
AskStartEarly(s, i) ==
    /\ i \in onHost
    /\ row[i] \in {"stopping", "stopped"}
    /\ Decide(s, [op |-> "set", inst |-> i, to |-> "starting"])
    /\ UNCHANGED <<asked, hostAsked>>

(* PATCH /api/instances/:id with power = "start".                          *)
AskStart(s, i) ==
    /\ i \in onHost
    /\ row[i] = "stopped"
    /\ Decide(s, [op |-> "set", inst |-> i, to |-> "starting"])
    /\ UNCHANGED <<asked, hostAsked>>

(* DELETE /api/instances/:id.                                              *)
AskDelete(s, i) ==
    /\ Exists(i)
    /\ row[i] # "pending_delete"
    /\ Decide(s, [op |-> "set", inst |-> i, to |-> "pending_delete"])
    /\ asked' = asked \cup {i}
    /\ UNCHANGED hostAsked

(* Mutant: finalize-removal without its check of the status.               *)
AskFinalizeAny(s, i) ==
    /\ Exists(i)
    /\ Decide(s, [op |-> "finalize", inst |-> i])
    /\ UNCHANGED <<asked, hostAsked>>

(* POST /api/instances/:id/finalize-removal.                               *)
AskFinalize(s, i) ==
    /\ row[i] = "pending_delete"
    /\ Decide(s, [op |-> "finalize", inst |-> i])
    /\ UNCHANGED <<asked, hostAsked>>

(* DELETE /api/hosts/:id of a host that is not pending_removal yet.        *)
AskHostRemoval(s) ==
    /\ host = "online"
    /\ Decide(s, [op |-> "markRows"])
    /\ hostAsked' = TRUE
    /\ UNCHANGED asked

(* DELETE /api/hosts/:id?force=1 of a host that is.                        *)
AskForcedRemoval(s) ==
    /\ host = "pending_removal"
    /\ Decide(s, [op |-> "wipe", as |-> "dropped"])
    /\ UNCHANGED <<asked, hostAsked>>

UserAsks(s) ==
    \/ \E i \in Instances :
          \/ AskCreate(s, i) \/ AskStop(s, i) \/ AskStart(s, i)
          \/ AskDelete(s, i) \/ AskFinalize(s, i)
    \/ AskHostRemoval(s)
    \/ AskForcedRemoval(s)

-----------------------------------------------------------------------------
(***************************************************************************)
(* The first half of the agent's handlers.  The API key is a row that goes *)
(* with the host's, so a host that is gone authenticates nobody.           *)
(***************************************************************************)

(* applyAgentInstanceStatus, up to its UPDATE.                             *)
Report(s, i, next) ==
    /\ host # "gone"
    /\ Accepts(i, next)
    /\ Decide(s, [op |-> "report", inst |-> i, to |-> next])
    /\ UNCHANGED <<asked, hostAsked>>

(* POST .../purge-complete, up to its DELETE; on a row that is missing or  *)
(* not pending_delete it answers ok and changes nothing.                   *)
PurgeComplete(s, i) ==
    /\ host # "gone"
    /\ i \in onHost
    /\ row[i] = "pending_delete"
    /\ Decide(s, [op |-> "purge", inst |-> i])
    /\ UNCHANGED <<asked, hostAsked>>

(* POST .../host/removal-complete, up to purgeHostRecord.  Its two SELECTs *)
(* are one step: pending_removal is left only by the host's deletion.      *)
RemovalComplete(s) ==
    /\ host = "pending_removal"
    /\ onHost = {}
    /\ Decide(s, [op |-> "wipe", as |-> "gone"])
    /\ UNCHANGED <<asked, hostAsked>>

AgentAsks(s) ==
    \/ \E i \in Instances :
          \/ \E next \in Reportable : Report(s, i, next)
          \/ PurgeComplete(s, i)
    \/ RemovalComplete(s)

-----------------------------------------------------------------------------
(***************************************************************************)
(* The second half of the handlers: the write, whatever happened since.    *)
(***************************************************************************)

(* Mutant: host_id without its foreign key.                                *)
InsertUnchecked(s) ==
    /\ call[s].op = "insert"
    /\ Return(s)
    /\ row' = [row EXCEPT ![call[s].inst] = "queued"]
    /\ onHost' = onHost \cup {call[s].inst}
    /\ UNCHANGED <<host, asked, hostAsked>>

(* INSERT; the foreign key refuses it once the host's row is gone.         *)
Insert(s) ==
    /\ call[s].op = "insert"
    /\ Return(s)
    /\ IF host = "gone"
          THEN UNCHANGED <<row, onHost>>
          ELSE /\ row' = [row EXCEPT ![call[s].inst] = "queued"]
               /\ onHost' = onHost \cup {call[s].inst}
    /\ UNCHANGED <<host, asked, hostAsked>>

(* UPDATE ... SET status WHERE id (and, for the agent, host_id).           *)
SetStatus(s) ==
    /\ call[s].op \in {"set", "report"}
    /\ call[s].inst \notin Locked
    /\ Return(s)
    /\ LET i == call[s].inst
           found == IF call[s].op = "report" THEN i \in onHost ELSE Exists(i)
       IN row' = IF found THEN [row EXCEPT ![i] = call[s].to] ELSE row
    /\ UNCHANGED <<onHost, host, asked, hostAsked>>

(* DELETE FROM server_instances WHERE id (and, for the agent, host_id).    *)
DeleteRow(s) ==
    /\ call[s].op \in {"finalize", "purge"}
    /\ call[s].inst \notin Locked
    /\ Return(s)
    /\ LET i == call[s].inst
           by == IF call[s].op = "purge" THEN "gone" ELSE "dropped"
           found == IF call[s].op = "purge" THEN i \in onHost ELSE Exists(i)
       IN /\ row' = IF found THEN [row EXCEPT ![i] = by] ELSE row
          /\ onHost' = onHost \ {i}
    /\ UNCHANGED <<host, asked, hostAsked>>

(* Host removal's first statement: UPDATE every instance of the host.      *)
MarkRows(s) ==
    /\ call[s].op = "markRows"
    /\ onHost \cap Locked = {}
    /\ row' = [i \in Instances |->
                  IF i \in onHost THEN "pending_delete" ELSE row[i]]
    /\ call' = [call EXCEPT ![s] = [op |-> "markHost"]]
    /\ UNCHANGED <<onHost, host, asked, hostAsked>>

(* Mutant: the host gets the instances' status, both are text columns.     *)
MarkHostAsRow(s) ==
    /\ call[s].op = "markHost"
    /\ host' = IF host = "gone" THEN host ELSE "pending_delete"
    /\ Return(s)
    /\ UNCHANGED <<row, onHost, asked, hostAsked>>

(* Its second statement: UPDATE hosts SET status = 'pending_removal'.      *)
MarkHost(s) ==
    /\ call[s].op = "markHost"
    /\ host' = IF host = "gone" THEN host ELSE "pending_removal"
    /\ Return(s)
    /\ UNCHANGED <<row, onHost, asked, hostAsked>>

(* purgeHostRecord's transaction: DELETE the host's instances ...          *)
WipeRows(s) ==
    /\ call[s].op = "wipe"
    /\ onHost \cap Locked = {}
    /\ call' = [call EXCEPT ![s] =
                   [op |-> "wiped", as |-> call[s].as, rows |-> onHost]]
    /\ UNCHANGED <<row, onHost, host, asked, hostAsked>>

(* ... then the keys and the host (host_id ON DELETE SET NULL on the rows  *)
(* inserted meanwhile, once no other transaction locks them), and commit.  *)
WipeHost(s) ==
    /\ call[s].op = "wiped"
    /\ onHost \cap LockedBy(Slots \ {s}) = {}
    /\ row' = [i \in Instances |->
                  IF i \in call[s].rows THEN call[s].as ELSE row[i]]
    /\ onHost' = {}
    /\ host' = "gone"
    /\ Return(s)
    /\ UNCHANGED <<asked, hostAsked>>

Write(s) ==
    \/ Insert(s) \/ SetStatus(s) \/ DeleteRow(s)
    \/ MarkRows(s) \/ MarkHost(s) \/ WipeRows(s) \/ WipeHost(s)

-----------------------------------------------------------------------------
Next ==
    \/ \E s \in UserSlots : UserAsks(s)
    \/ \E s \in AgentSlots : AgentAsks(s)
    \/ \E s \in Slots : Write(s)

Spec == Init /\ [][Next]_vars

(* The same handlers when none starts before the others have answered.     *)
Alone(s) == \A t \in Slots \ {s} : call[t] = Idle
SerialNext ==
    \/ \E s \in UserSlots : Alone(s) /\ UserAsks(s)
    \/ \E s \in AgentSlots : Alone(s) /\ AgentAsks(s)
    \/ \E s \in Slots : Write(s)

-----------------------------------------------------------------------------
(***************************************************************************)
(* Properties.                                                             *)
(***************************************************************************)

(* The handlers, in every interleaving and for any agent, implement the    *)
(* removal contract: a row is deleted (by purge-complete, finalize-removal *)
(* or a purge of the host) only after a user asked for it, all rows of a   *)
(* purge at once, and an id is never reused.                               *)
phase == [i \in Instances |->
             IF row[i] = "none" THEN "none"
             ELSE IF row[i] \in Removed THEN "removed" ELSE "live"]
Contract == INSTANCE RemovalContract
               WITH Instances <- Instances, phase <- phase, asked <- asked,
                    hostAsked <- hostAsked
ImplementsContract == Contract!Spec

(* A row is bound to the host only while both exist, and the rows an open  *)
(* purge transaction has deleted are still the host's: no two purges claim *)
(* the same row, and none deletes a row another handler already removed.   *)
RowsAreOwned ==
    /\ \A i \in onHost : Exists(i) /\ host # "gone"
    /\ \A s, t \in Slots :
          call[s].op = "wiped" =>
             /\ call[s].rows \subseteq onHost
             /\ (t # s /\ call[t].op = "wiped") =>
                   call[s].rows \cap call[t].rows = {}

(* "pending_delete = removal in progress": a row whose deletion was queued *)
(* (DELETE answers "Deletion queued") leaves that status only by going.    *)
DeletionSticks ==
    [][\A i \in Instances :
          row[i] = "pending_delete" => row'[i] \in {"pending_delete"} \cup Removed]_vars

(* A queued deletion, stop or start gives way to nothing but its outcome,  *)
(* a deletion, or the removal of the record.                               *)
KeepsIntent ==
    \A i \in Instances :
       LET to == row'[i] IN
       /\ row[i] = "pending_delete" =>
             to \in {"pending_delete"} \cup Removed
       /\ row[i] = "stopping" =>
             to \in {"stopping", "stopped", "pending_delete"} \cup Removed
       /\ row[i] = "starting" =>
             to \in {"starting", "running", "failed", "pending_delete"} \cup Removed
=============================================================================
