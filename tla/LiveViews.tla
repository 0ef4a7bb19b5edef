------------------------------ MODULE LiveViews ------------------------------
(***************************************************************************)
(* One live page of the dashboard: it was rendered with a row, and asks    *)
(* for the row again when an event of the host arrives, and by a timer.    *)
(* Requests overlap, are served when they arrive and are applied when they *)
(* are answered, in any order.  The events are not stored: a page whose    *)
(* stream is down misses them.                                             *)
(***************************************************************************)
EXTENDS Naturals

CONSTANTS
    Asks,           \* bound: requests of the page that overlap
    MaxRowChanges,  \* bound: changes of the row
    MaxDrops        \* bound: broken streams and failed requests

ASSUME LiveViewsAssumption == MaxRowChanges \in Nat /\ MaxDrops \in Nat

VARIABLES
    view,       \* which page it is
    row,        \* status of the row, in the database
    rowChanges, \* how often it changed
    news,       \* a handler changed it and has not published that yet
    online,     \* the host sends heartbeats
    sse,        \* the event stream of the page is up
    ask,        \* request -> "none", "sent", or the status it was served
    shown,      \* status on the page, or "left"
    drops

liveVars == <<view, row, rowChanges, news, online, sse, ask, shown, drops>>

(* InstanceDeployProgress, HostRemovalStatus, HostAgentUpdatePanel, and    *)
(* useHostBackupData with NotificationBell.                                *)
Views == {"server", "removal", "update", "list"}

(* "busy" stands for the statuses of ACTIVE, "removing" for pending_delete *)
(* and pending_removal, "settled" for the others.                          *)
RowStatuses == {"busy", "settled", "removing", "gone"}

LiveTypeOK ==
    /\ view \in Views /\ row \in RowStatuses
    /\ rowChanges \in 0..MaxRowChanges /\ drops \in 0..MaxDrops
    /\ {news, online, sse} \subseteq BOOLEAN
    /\ ask \in [Asks -> RowStatuses \cup {"none", "sent"}]
    /\ shown \in (RowStatuses \ {"gone"}) \cup {"left"}

LiveInit ==
    /\ view \in Views /\ row \in RowStatuses \ {"gone"} /\ shown = row
    /\ rowChanges = 0 /\ news = FALSE /\ online = TRUE /\ sse = FALSE
    /\ ask = [a \in Asks |-> "none"] /\ drops = 0

Drop == drops < MaxDrops /\ drops' = drops + 1

-----------------------------------------------------------------------------
(* A handler writes the row; a row that is gone stays so.                  *)
RowChanges ==
    /\ row # "gone" /\ rowChanges < MaxRowChanges
    /\ rowChanges' = rowChanges + 1 /\ news' = TRUE
    /\ \E status \in RowStatuses \ {row} : row' = status
    /\ UNCHANGED <<view, online, sse, ask, shown, drops>>

HostTurns ==
    /\ online' = ~online
    /\ UNCHANGED <<view, row, rowChanges, news, sse, ask, shown, drops>>

(* tick, syncHost and load start a request: one more, whatever is open.    *)
Ticks == \E a \in Asks : ask[a] = "none" /\ ask' = [ask EXCEPT ![a] = "sent"]

(* publishHostRealtime: the listeners of the moment hear of it.            *)
Publishes == IF sse /\ shown # "left" THEN Ticks ELSE UNCHANGED ask

(* The handler publishes after it has written, if it lives to do so.  The  *)
(* event that a removed host is gone names no host, and the page of that   *)
(* host does not take it for its own.                                      *)
PublishNews ==
    /\ news /\ news' = FALSE
    /\ \/ Publishes /\ UNCHANGED drops
       \/ /\ view # "server" /\ row = "gone"
          /\ UNCHANGED <<ask, drops>>
       \/ Drop /\ UNCHANGED ask
    /\ UNCHANGED <<view, row, rowChanges, online, sse, shown>>

(* Mutant: only a heartbeat that follows a change publishes.               *)
HostBeatsIfNews ==
    /\ online /\ (row = "gone" => view = "server")
    /\ IF news THEN Publishes ELSE UNCHANGED ask
    /\ UNCHANGED <<view, row, rowChanges, news, online, sse, shown, drops>>

(* Each heartbeat publishes, whatever it changed.  A host without a row    *)
(* sends none.                                                             *)
HostBeats ==
    /\ online /\ (row = "gone" => view = "server")
    /\ Publishes
    /\ UNCHANGED <<view, row, rowChanges, news, online, sse, shown, drops>>

-----------------------------------------------------------------------------
(* The EventSource of the page: it asks for nothing when it is back.       *)
StreamConnects ==
    /\ ~sse /\ shown # "left" /\ sse' = TRUE
    /\ UNCHANGED <<view, row, rowChanges, news, online, ask, shown, drops>>

StreamDrops ==
    /\ sse /\ Drop /\ sse' = FALSE
    /\ UNCHANGED <<view, row, rowChanges, news, online, ask, shown>>

(* The timers: a server's page asks every 8 s while the server is active   *)
(* or on its way out, a host's every 12 s while the host is removed, and   *)
(* the update panel every 30 s, always.  Lists have no timer.              *)
PollsServer == view = "server" /\ shown \in {"busy", "removing"}
PollsRemoval == view = "removal" /\ shown = "removing"
PollsUpdate == view = "update"

Poll ==
    /\ PollsServer \/ PollsRemoval \/ PollsUpdate
    /\ Ticks
    /\ UNCHANGED <<view, row, rowChanges, news, online, sse, shown, drops>>

Serve(a) ==
    /\ ask[a] = "sent" /\ ask' = [ask EXCEPT ![a] = row]
    /\ UNCHANGED <<view, row, rowChanges, news, online, sse, shown, drops>>

(* syncHost leaves for the list of hosts when its host is gone; the other  *)
(* pages take that, as any error, for no answer.                           *)
Leaves(status) == view = "removal" /\ status = "gone"
Keeps(status) == view # "removal" /\ status = "gone"

Apply(a) ==
    /\ ask[a] \in RowStatuses /\ ask' = [ask EXCEPT ![a] = "none"]
    /\ shown' = IF shown = "left" \/ Leaves(ask[a]) THEN "left"
                ELSE IF Keeps(ask[a]) THEN shown ELSE ask[a]
    /\ sse' = (sse /\ shown' # "left")
    /\ UNCHANGED <<view, row, rowChanges, news, online, drops>>

AskFails(a) ==
    /\ ask[a] # "none" /\ Drop /\ ask' = [ask EXCEPT ![a] = "none"]
    /\ UNCHANGED <<view, row, rowChanges, news, online, sse, shown>>

LiveNext ==
    \/ RowChanges \/ HostTurns \/ PublishNews \/ HostBeats
    \/ StreamConnects \/ StreamDrops \/ Poll
    \/ \E a \in Asks : Serve(a) \/ Apply(a) \/ AskFails(a)

(* Timers run, requests are answered and a broken stream is opened again;  *)
(* the agent sends heartbeats as long as its host is online.  Strong, for  *)
(* HostBeats: the bound on requests stops it in the model, not in the code. *)
LiveFairness ==
    /\ SF_liveVars(HostBeats) /\ WF_liveVars(StreamConnects)
    /\ \A a \in Asks : WF_liveVars(Serve(a)) /\ WF_liveVars(Apply(a))

LiveSpec == LiveInit /\ [][LiveNext]_liveVars /\ LiveFairness

-----------------------------------------------------------------------------
(***************************************************************************)
(* If the host stays online the page ends up with the row as it is, unless *)
(* the row is gone: whatever events it missed, and however its answers     *)
(* came out of order.  (A host that goes offline may leave a page that     *)
(* does not poll with an old status, until it is loaded again.)            *)
(***************************************************************************)
PageCatchesUp == <>[]online => <>[](row = "gone" \/ shown = row)
=============================================================================
