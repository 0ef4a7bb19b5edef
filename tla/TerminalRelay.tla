---------------------------- MODULE TerminalRelay ----------------------------
(***************************************************************************)
(* The remote terminal of one host: browser tabs, the relay in the server  *)
(* and the shells of the agent.                                            *)
(*                                                                         *)
(* The relay keeps a session per tab in memory (bySession) and an audit    *)
(* row in the database; it talks to the agent over the agent's current     *)
(* socket, which may be dead without the server knowing.  Opening a tab    *)
(* awaits the database twice, and nothing listens to the tab meanwhile.    *)
(* Closing one writes the row's end without waiting for the database, and  *)
(* a server that restarts forgets its sessions and leaves their rows.      *)
(***************************************************************************)
EXTENDS Naturals, FiniteSets, SequencesExt

CONSTANTS
    Tabs,           \* browser tabs, each opened at most once
    MaxSessions,    \* MAX_TERMINAL_SESSIONS_PER_HOST and MAX_SESSIONS, 5
    MaxOpens,       \* MAX_OPENS_PER_HOST_PER_HOUR, 40
    MaxLinks        \* bound: connections the agent makes

ASSUME TerminalAssumption ==
    IsFiniteSet(Tabs) /\ MaxSessions \in Nat /\ MaxOpens \in Nat /\ MaxLinks \in Nat

VARIABLES
    tab,            \* tab -> how far the upgrade handler has come
    tabOpen,        \* tabs whose WebSocket is open on the browser's side
    heard,          \* tabs whose close event the server has had
    deaf,           \* tabs whose close event came before its listener
    relay,          \* bySession
    audit,          \* tab -> its host_terminal_sessions row: open, its end
                    \* being written, ended, or left open for good
    opens,          \* openCounts
    shell,          \* tab -> its shell on the host
    agentSocket,    \* the socket of the agent the server would use, or 0
    agentLink,      \* the socket the agent has, or 0
    links,          \* sockets so far
    controls        \* control messages on the way to the agent

terminalVars == <<tab, tabOpen, heard, deaf, relay, audit, opens, shell,
                  agentSocket, agentLink, links, controls>>
tabVars == <<tab, tabOpen, heard, deaf, relay, audit, opens>>
linkVars == <<agentSocket, agentLink, links>>

(* sessions of the agent's terminal manager.                               *)
Shells == {t \in Tabs : shell[t] # "none"}

TerminalTypeOK ==
    /\ tab \in [Tabs -> {"none", "asked", "auditing", "refused", "live", "ended"}]
    /\ tabOpen \subseteq Tabs /\ heard \subseteq Tabs /\ deaf \subseteq Tabs
    /\ relay \subseteq Tabs
    /\ audit \in [Tabs -> {"none", "open", "closing", "ended", "left"}]
    /\ opens \in 0..MaxOpens
    /\ shell \in [Tabs -> {"none", "quiet", "busy"}]
    /\ Cardinality(Shells) <= MaxSessions
    /\ agentSocket \in 0..MaxLinks /\ agentLink \in 0..MaxLinks
    /\ links \in 0..MaxLinks
    /\ controls \in Seq([action : {"open", "close"}, session : Tabs])

TerminalInit ==
    /\ tab = [t \in Tabs |-> "none"] /\ tabOpen = {} /\ heard = {}
    /\ deaf = {} /\ relay = {} /\ audit = [t \in Tabs |-> "none"]
    /\ opens = 0 /\ shell = [t \in Tabs |-> "none"]
    /\ agentSocket = 0 /\ agentLink = 0 /\ links = 0 /\ controls = <<>>

(* sendControlToAgent: a message on a socket that is dead is lost.         *)
Send(action, t) ==
    controls' = IF agentSocket = agentLink /\ agentLink # 0
                THEN Append(controls, [action |-> action, session |-> t])
                ELSE controls

(* markTerminalAuditClosed is called; what was ended stays so.             *)
EndRow(t) ==
    audit' = [audit EXCEPT ![t] = IF @ = "ended" THEN "ended" ELSE "closing"]

-----------------------------------------------------------------------------
(***************************************************************************)
(* The browser and tryTerminalUpgrade.                                     *)
(***************************************************************************)
OpenTab(t) ==
    /\ tab[t] = "none"
    /\ tab' = [tab EXCEPT ![t] = "asked"] /\ tabOpen' = tabOpen \cup {t}
    /\ UNCHANGED <<heard, deaf, relay, audit, opens, shell, linkVars,
                   controls>>

(* Disconnect, another page, or the tab is closed.                         *)
CloseTab(t) ==
    /\ t \in tabOpen /\ tabOpen' = tabOpen \ {t}
    /\ UNCHANGED <<tab, heard, deaf, relay, audit, opens, shell, linkVars,
                   controls>>

(* Mutant: one more than the limit.                                        *)
AllowOneMore == opens <= MaxOpens

(* allowOpen; the hour of the count may pass at any time.                  *)
AllowOpen == opens < MaxOpens

(* After the cookie and the host: the two limits, then handleUpgrade, which *)
(* drops a request whose browser has gone.                                 *)
Admit(t) ==
    /\ tab[t] = "asked"
    /\ LET full == Cardinality(relay) >= MaxSessions
           taken == ~full /\ AllowOpen
           upgraded == taken /\ t \in tabOpen
       IN /\ tab' = [tab EXCEPT ![t] = IF upgraded THEN "auditing"
                                       ELSE "ended"]
          /\ tabOpen' = IF taken THEN tabOpen ELSE tabOpen \ {t}
          /\ heard' = IF upgraded THEN heard ELSE heard \cup {t}
          /\ opens' = IF taken THEN opens + 1 ELSE opens
    /\ UNCHANGED <<deaf, relay, audit, shell, linkVars, controls>>

HourPasses ==
    /\ opens > 0 /\ opens' = 0
    /\ UNCHANGED <<tab, tabOpen, heard, deaf, relay, audit, shell, linkVars,
                   controls>>

(* insertTerminalAuditOpen fails, maybe after the row was written ...      *)
AuditFails(t) ==
    /\ tab[t] = "auditing"
    /\ tab' = [tab EXCEPT ![t] = "ended"] /\ tabOpen' = tabOpen \ {t}
    /\ heard' = heard \cup {t}
    /\ \E end \in {"none", "left"} : audit' = [audit EXCEPT ![t] = end]
    /\ UNCHANGED <<deaf, relay, opens, shell, linkVars, controls>>

(* ... or returns, and there is an agent to send "open" to: the session is *)
(* registered and the listeners are installed, too late for a close event  *)
(* that has already come.                                                  *)
Register(t) ==
    /\ tab[t] = "auditing" /\ agentSocket # 0
    /\ tab' = [tab EXCEPT ![t] = "live"]
    /\ audit' = [audit EXCEPT ![t] = "open"] /\ relay' = relay \cup {t}
    /\ deaf' = IF t \in heard THEN deaf \cup {t} ELSE deaf
    /\ Send("open", t)
    /\ UNCHANGED <<tabOpen, heard, opens, shell, linkVars>>

(* ... or there is none: registered and taken back, and the tab is closed  *)
(* when the row has been ended.                                            *)
AgentOffline(t) ==
    /\ tab[t] = "auditing" /\ agentSocket = 0
    /\ tab' = [tab EXCEPT ![t] = "refused"]
    /\ audit' = [audit EXCEPT ![t] = "closing"]
    /\ UNCHANGED <<tabOpen, heard, deaf, relay, opens, shell, linkVars, controls>>

(* The end of a row is written, or the write fails and is not tried again; *)
(* then a refused tab is left to itself.                                   *)
RowEnds(t) ==
    /\ audit[t] = "closing" /\ audit' = [audit EXCEPT ![t] = "ended"]
    /\ IF tab[t] = "refused"
       THEN /\ tab' = [tab EXCEPT ![t] = "ended"] /\ heard' = heard \cup {t}
            /\ tabOpen' = tabOpen \ {t}
       ELSE UNCHANGED <<tab, heard, tabOpen>>
    /\ UNCHANGED <<deaf, relay, opens, shell, linkVars, controls>>

RowStays(t) ==
    /\ audit[t] = "closing" /\ audit' = [audit EXCEPT ![t] = "left"]
    /\ tab' = [tab EXCEPT ![t] = IF @ = "refused" THEN "ended" ELSE @]
    /\ UNCHANGED <<tabOpen, heard, deaf, relay, opens, shell, linkVars, controls>>

(* Mutant: the agent is not told.                                          *)
HearCloseSilent(t) ==
    /\ tab[t] \in {"auditing", "live"} /\ t \notin tabOpen \cup heard
    /\ heard' = heard \cup {t}
    /\ IF tab[t] = "live"
       THEN /\ tab' = [tab EXCEPT ![t] = "ended"] /\ relay' = relay \ {t}
            /\ EndRow(t)
       ELSE UNCHANGED <<tab, relay, audit>>
    /\ UNCHANGED <<tabOpen, deaf, opens, shell, linkVars, controls>>

(* The close event of a tab, with or without the listener of a live one.   *)
HearClose(t) ==
    /\ tab[t] \in {"auditing", "refused", "live"} /\ t \notin tabOpen \cup heard
    /\ heard' = heard \cup {t}
    /\ IF tab[t] = "live"
       THEN /\ tab' = [tab EXCEPT ![t] = "ended"] /\ relay' = relay \ {t}
            /\ EndRow(t) /\ Send("close", t)
       ELSE UNCHANGED <<tab, relay, audit, controls>>
    /\ UNCHANGED <<tabOpen, deaf, opens, shell, linkVars>>

-----------------------------------------------------------------------------
(***************************************************************************)
(* handleTerminalControl of the agent, and its shells.                     *)
(***************************************************************************)
(* "open", unless there are too many shells, node-pty is missing or bash   *)
(* does not start: then an error goes to the tab, which stays as it is.    *)
OpenShell(t, starts) ==
    /\ controls # <<>> /\ Head(controls) = [action |-> "open", session |-> t]
    /\ controls' = Tail(controls)
    /\ shell' = IF starts /\ Cardinality(Shells) < MaxSessions
                THEN [shell EXCEPT ![t] = "quiet"] ELSE shell
    /\ UNCHANGED <<tabVars, linkVars>>

CloseShell(t) ==
    /\ controls # <<>> /\ Head(controls) = [action |-> "close", session |-> t]
    /\ controls' = Tail(controls)
    /\ shell' = [shell EXCEPT ![t] = "none"]
    /\ UNCHANGED <<tabVars, linkVars>>

(* Input of a live tab or output of the shell start its idle timer again.  *)
ShellWorks(t) ==
    /\ shell[t] # "none"
    /\ shell' = [shell EXCEPT ![t] = IF @ = "quiet" THEN "busy" ELSE "quiet"]
    /\ UNCHANGED <<tabVars, linkVars, controls>>

(* The user's exit: nobody is told.                                        *)
ShellExits(t) ==
    /\ shell[t] # "none" /\ shell' = [shell EXCEPT ![t] = "none"]
    /\ UNCHANGED <<tabVars, linkVars, controls>>

(* The idle timer; an agent without a link keeps it running.               *)
IdleTimeout(t) ==
    /\ shell[t] = "quiet" /\ shell' = [shell EXCEPT ![t] = "none"]
    /\ UNCHANGED <<tabVars, linkVars, controls>>

-----------------------------------------------------------------------------
(***************************************************************************)
(* The agent's socket.                                                     *)
(***************************************************************************)

(* registerAgentSocket: the new socket replaces a dead one the server has  *)
(* not noticed, and the sessions stay.                                     *)
AgentConnects ==
    /\ agentLink = 0 /\ links < MaxLinks
    /\ links' = links + 1 /\ agentLink' = links + 1 /\ agentSocket' = links + 1
    /\ UNCHANGED <<tabVars, shell, controls>>

(* The agent loses its socket and what was on it; its shells go on.        *)
LinkDrops ==
    /\ agentLink # 0 /\ agentLink' = 0 /\ controls' = <<>>
    /\ UNCHANGED <<tabVars, shell, agentSocket, links>>

(* An agent that dies or replaces itself ends its shells.                  *)
AgentEnds ==
    /\ agentLink # 0 /\ agentLink' = 0 /\ controls' = <<>>
    /\ shell' = [t \in Tabs |-> "none"]
    /\ UNCHANGED <<tabVars, agentSocket, links>>

(* Mutant: the audit rows are left open.                                   *)
HearDropUnaudited ==
    /\ agentSocket # 0 /\ agentSocket # agentLink
    /\ agentSocket' = 0 /\ tabOpen' = tabOpen \ relay /\ relay' = {}
    /\ UNCHANGED <<tab, heard, deaf, audit, opens, shell, agentLink, links,
                   controls>>

(* unregisterAgentSocket of the socket in use closes every session; the    *)
(* close events of their tabs follow.                                      *)
HearDrop ==
    /\ agentSocket # 0 /\ agentSocket # agentLink
    /\ agentSocket' = 0
    /\ tabOpen' = tabOpen \ relay /\ relay' = {}
    /\ audit' = [t \in Tabs |-> IF t \in relay THEN "closing" ELSE audit[t]]
    /\ UNCHANGED <<tab, heard, deaf, opens, shell, agentLink, links, controls>>

(* The server ends and starts again: every connection and bySession are    *)
(* gone, and no one ends the rows that were open.                          *)
ServerRestarts ==
    /\ LET begun == {t \in Tabs : tab[t] # "none"} IN
       /\ tab' = [t \in Tabs |-> IF t \in begun THEN "ended" ELSE "none"]
       /\ tabOpen' = tabOpen \ begun /\ heard' = heard \cup begun
    /\ \E written \in SUBSET {t \in Tabs : tab[t] = "auditing"} :
          audit' = [t \in Tabs |->
                      IF t \in written \/ audit[t] \in {"open", "closing"}
                      THEN "left" ELSE audit[t]]
    /\ relay' = {} /\ opens' = 0
    /\ agentSocket' = 0 /\ agentLink' = 0 /\ controls' = <<>>
    /\ UNCHANGED <<deaf, shell, links>>

TerminalNext ==
    \/ \E t \in Tabs :
          \/ OpenTab(t) \/ CloseTab(t) \/ Admit(t) \/ AuditFails(t)
          \/ Register(t) \/ AgentOffline(t) \/ RowEnds(t) \/ RowStays(t)
          \/ HearClose(t)
          \/ \E starts \in BOOLEAN : OpenShell(t, starts)
          \/ CloseShell(t) \/ ShellWorks(t) \/ ShellExits(t)
          \/ IdleTimeout(t)
    \/ HourPasses \/ AgentConnects \/ LinkDrops \/ AgentEnds \/ HearDrop
    \/ ServerRestarts

TerminalSpec == TerminalInit /\ [][TerminalNext]_terminalVars

-----------------------------------------------------------------------------
(***************************************************************************)
(* Properties.                                                             *)
(***************************************************************************)

(* Every session of the relay has its audit row open, and no path drops a  *)
(* session without the end of its row being written: a row that is open    *)
(* for no session is one whose end was not written (closing, left).  And a *)
(* session is there for a tab that is open, or whose close event is to     *)
(* come - or was missed: it came while the audit row was written, and that *)
(* session is counted until the agent's socket closes.                     *)
SlotsMatchAudits ==
    \A t \in Tabs :
       /\ t \in relay <=> audit[t] = "open"
       /\ t \in relay => t \in tabOpen \/ t \notin heard \/ t \in deaf

(* While the agent keeps its first socket, the shell of a closed tab is    *)
(* ended by a message that is on its way: "close" never overtakes "open",  *)
(* whatever order tabs come and go in.                                     *)
ShellFollowsTab ==
    links = 1 /\ agentLink = 1
       => \A t \in Shells :
             t \in heard \ deaf
                => \E k \in DOMAIN controls :
                      controls[k] = [action |-> "close", session |-> t]
=============================================================================
