--------------------------- MODULE HostEnrollment ---------------------------
(***************************************************************************)
(* How a machine becomes a host of one user: the host's row with its       *)
(* enrollment token and pairing code, the install sessions of GameServerOS *)
(* installers, and the API keys that enrollment gives out.                 *)
(*                                                                         *)
(* The handlers read a row, check it, and write in a later statement or    *)
(* transaction that does not check again; slots hold what they will write. *)
(* Codes are drawn at random and never collide here; every machine sends a *)
(* fingerprint.                                                            *)
(***************************************************************************)
EXTENDS Naturals, FiniteSets

CONSTANTS
    Hosts,          \* ids of host rows
    Machines,       \* machines that run an agent or an installer
    Codes,          \* bound: pairing codes that are ever generated
    EnrollSlots,    \* enrollments that are served concurrently
    MaxClaims,      \* bound: claims of one code that are served concurrently
    NoCode,         \* no pairing_code_hash
    NoMachine       \* no machine_fingerprint

ASSUME EnrollmentAssumption ==
    NoCode \notin Codes /\ NoMachine \notin Machines /\ MaxClaims \in Nat

VARIABLES
    hostRow,        \* host -> its row
    keys,           \* host -> machines that hold an API key of it
    drawn,          \* codes that were generated
    session,        \* code -> state of the install session with that code
    enrolling,      \* slot -> the enrollment it has checked
    pairing,        \* hosts for which a pairing code was checked and not set
    claiming,       \* code -> claims of it that were checked and not written
    doubled         \* history: codes of which two claims overlapped

enrollVars ==
    <<hostRow, keys, drawn, session, enrolling, pairing, claiming, doubled>>
claimVars == <<claiming, doubled>>

NoHost == [status |-> "none", token |-> FALSE, code |-> NoCode,
           live |-> FALSE, machine |-> NoMachine]
FreeSlot == [host |-> "none"]
NoSession == [at |-> "none"]
Waiting == [at |-> "waiting"]

HostRows == [status : {"none", "pending", "online", "pending_removal", "gone"},
             token : BOOLEAN, code : Codes \cup {NoCode}, live : BOOLEAN,
             machine : Machines \cup {NoMachine}]
Sessions == {NoSession, Waiting, [at |-> "expired"], [at |-> "pruned"]}
            \cup [at : {"linked"}, host : Hosts]

EnrollTypeOK ==
    /\ hostRow \in [Hosts -> HostRows]
    /\ keys \in [Hosts -> SUBSET Machines]
    /\ drawn \subseteq Codes /\ session \in [Codes -> Sessions]
    /\ enrolling \in [EnrollSlots -> {FreeSlot}
                         \cup [host : Hosts, machine : Machines]]
    /\ pairing \subseteq Hosts /\ doubled \subseteq Codes
    /\ claiming \in [Codes -> 0..MaxClaims]

EnrollInit ==
    /\ hostRow = [h \in Hosts |-> NoHost] /\ keys = [h \in Hosts |-> {}]
    /\ drawn = {} /\ session = [c \in Codes |-> NoSession]
    /\ enrolling = [s \in EnrollSlots |-> FreeSlot]
    /\ pairing = {} /\ claiming = [c \in Codes |-> 0] /\ doubled = {}

Pending(h) == hostRow[h].status = "pending"
Known(h) == hostRow[h].status \notin {"none", "gone"}

-----------------------------------------------------------------------------
(***************************************************************************)
(* The dashboard.                                                          *)
(***************************************************************************)

(* POST /api/hosts.                                                        *)
CreateHost(h) ==
    /\ hostRow[h] = NoHost
    /\ hostRow' = [hostRow EXCEPT ![h].status = "pending", ![h].token = TRUE]
    /\ UNCHANGED <<keys, drawn, session, enrolling, pairing, claimVars>>

(* POST /api/hosts/:id/pairing-code: the status is checked ...             *)
AskPairingCode(h) ==
    /\ Pending(h) /\ h \notin pairing
    /\ pairing' = pairing \cup {h}
    /\ UNCHANGED <<hostRow, keys, drawn, session, enrolling, claimVars>>

(* ... and the code written to whatever the host is by then.               *)
SetPairingCode(h, c) ==
    /\ h \in pairing /\ c \notin drawn
    /\ pairing' = pairing \ {h} /\ drawn' = drawn \cup {c}
    /\ hostRow' = IF Known(h)
                  THEN [hostRow EXCEPT ![h].code = c, ![h].live = TRUE]
                  ELSE hostRow
    /\ UNCHANGED <<keys, session, enrolling, claimVars>>

(* DELETE /api/hosts/:id, on a host that may still be pending.             *)
RemoveHost(h) ==
    /\ hostRow[h].status \in {"pending", "online"}
    /\ hostRow' = [hostRow EXCEPT ![h].status = "pending_removal"]
    /\ UNCHANGED <<keys, drawn, session, enrolling, pairing, claimVars>>

(* purgeHostRecord, for the dashboard's ?force or the agent's report that  *)
(* it is done: keys go with the host, sessions forget it.                  *)
PurgeHost(h) ==
    /\ hostRow[h].status = "pending_removal"
    /\ hostRow' = [hostRow EXCEPT ![h] = [NoHost EXCEPT !.status = "gone"]]
    /\ keys' = [keys EXCEPT ![h] = {}]
    /\ session' = [c \in Codes |->
                      IF session[c] = [at |-> "linked", host |-> h]
                      THEN Waiting ELSE session[c]]
    /\ UNCHANGED <<drawn, enrolling, pairing, claimVars>>

(* POST /api/hosts/gameserveros-claim: a session nobody has claimed ...    *)
AskClaim(c) ==
    /\ session[c] = Waiting /\ claiming[c] < MaxClaims
    /\ claiming' = [claiming EXCEPT ![c] = @ + 1]
    /\ doubled' = IF claiming[c] > 0 THEN doubled \cup {c} ELSE doubled
    /\ UNCHANGED <<hostRow, keys, drawn, session, enrolling, pairing>>

(* ... then a transaction inserts a pending host with the session's code.  *)
InsertClaimed(c, h) ==
    /\ claiming[c] > 0 /\ hostRow[h] = NoHost
    /\ claiming' = [claiming EXCEPT ![c] = @ - 1]
    /\ hostRow' = [hostRow EXCEPT ![h].status = "pending", ![h].code = c,
                                  ![h].live = TRUE]
    /\ UNCHANGED <<keys, drawn, enrolling, pairing, doubled>>

(* Mutant: the session does not remember that it was claimed.              *)
ClaimUnmarked(c, h) == InsertClaimed(c, h) /\ UNCHANGED session

Claim(c, h) ==
    /\ InsertClaimed(c, h)
    /\ session' = IF session[c].at = "pruned" THEN session
                  ELSE [session EXCEPT ![c] = [at |-> "linked", host |-> h]]

-----------------------------------------------------------------------------
(***************************************************************************)
(* The machines: POST /api/v1/agent/enroll and the installer's session.    *)
(***************************************************************************)

(* POST .../install-session: 8 attempts at a fresh code.                   *)
StartSession(c) ==
    /\ c \notin drawn
    /\ drawn' = drawn \cup {c}
    /\ session' = [session EXCEPT ![c] = Waiting]
    /\ UNCHANGED <<hostRow, keys, enrolling, pairing, claimVars>>

(* The host a credential opens.                                            *)
OpensByToken(h) == hostRow[h].token /\ Pending(h)

(* Mutant: the code's host may have any status.                            *)
OpensByCodeAlone(h) == hostRow[h].code # NoCode /\ hostRow[h].live

OpensByCode(h) == hostRow[h].code # NoCode /\ Pending(h) /\ hostRow[h].live

Duplicate(h, m) ==
    \E g \in Hosts \ {h} : Known(g) /\ hostRow[g].machine = m

(* The credential and the fingerprint are checked ...                      *)
AskEnroll(s, h, m) ==
    /\ enrolling[s] = FreeSlot
    /\ OpensByToken(h) \/ OpensByCode(h)
    /\ ~Duplicate(h, m)
    /\ enrolling' = [enrolling EXCEPT ![s] = [host |-> h, machine |-> m]]
    /\ UNCHANGED <<hostRow, keys, drawn, session, pairing, claimVars>>

(* Mutant: the key is inserted before the transaction.                     *)
EnrollKeyFirst(s) ==
    /\ enrolling[s] # FreeSlot
    /\ enrolling' = [enrolling EXCEPT ![s] = FreeSlot]
    /\ LET h == enrolling[s].host  m == enrolling[s].machine IN
       /\ keys' = [keys EXCEPT ![h] = @ \cup {m}]
       /\ hostRow' = IF Known(h) /\ ~Duplicate(h, m)
                     THEN [hostRow EXCEPT ![h] =
                         [NoHost EXCEPT !.status = "online", !.machine = m]]
                     ELSE hostRow
    /\ UNCHANGED <<drawn, session, pairing, claimVars>>

(* ... then a transaction inserts the key and marks the host enrolled.  It *)
(* is rolled back when the host is gone, or when the unique index on user  *)
(* and fingerprint refuses the machine.                                    *)
Enroll(s) ==
    /\ enrolling[s] # FreeSlot
    /\ enrolling' = [enrolling EXCEPT ![s] = FreeSlot]
    /\ LET h == enrolling[s].host  m == enrolling[s].machine IN
       IF Known(h) /\ ~Duplicate(h, m)
       THEN /\ keys' = [keys EXCEPT ![h] = @ \cup {m}]
            /\ hostRow' = [hostRow EXCEPT
                  ![h] = [NoHost EXCEPT !.status = "online", !.machine = m]]
       ELSE UNCHANGED <<keys, hostRow>>
    /\ UNCHANGED <<drawn, session, pairing, claimVars>>

-----------------------------------------------------------------------------
(***************************************************************************)
(* Time, and the cron jobs.                                                *)
(***************************************************************************)
CodeExpires(h) ==
    /\ hostRow[h].live /\ hostRow' = [hostRow EXCEPT ![h].live = FALSE]
    /\ UNCHANGED <<keys, drawn, session, enrolling, pairing, claimVars>>

(* GET /api/cron/prune-pairing.                                            *)
PruneCodes ==
    /\ hostRow' = [h \in Hosts |-> IF Pending(h) /\ ~hostRow[h].live
                                   THEN [hostRow[h] EXCEPT !.code = NoCode]
                                   ELSE hostRow[h]]
    /\ hostRow' # hostRow
    /\ UNCHANGED <<keys, drawn, session, enrolling, pairing, claimVars>>

SessionExpires(c) ==
    /\ session[c].at \in {"waiting", "linked"}
    /\ session' = [session EXCEPT ![c] = [at |-> "expired"]]
    /\ UNCHANGED <<hostRow, keys, drawn, enrolling, pairing, claimVars>>

(* GET /api/cron/gameserveros-prune-install-sessions.                      *)
PruneSessions ==
    /\ \E c \in Codes : session[c].at = "expired"
    /\ session' = [c \in Codes |-> IF session[c].at = "expired"
                                   THEN [at |-> "pruned"] ELSE session[c]]
    /\ UNCHANGED <<hostRow, keys, drawn, enrolling, pairing, claimVars>>

EnrollNext ==
    \/ \E h \in Hosts :
          \/ CreateHost(h) \/ AskPairingCode(h) \/ RemoveHost(h)
          \/ PurgeHost(h) \/ CodeExpires(h)
          \/ \E c \in Codes : SetPairingCode(h, c) \/ Claim(c, h)
          \/ \E s \in EnrollSlots, m \in Machines : AskEnroll(s, h, m)
    \/ \E c \in Codes : AskClaim(c) \/ StartSession(c) \/ SessionExpires(c)
    \/ \E s \in EnrollSlots : Enroll(s)
    \/ PruneCodes \/ PruneSessions

EnrollSpec == EnrollInit /\ [][EnrollNext]_enrollVars

-----------------------------------------------------------------------------
(***************************************************************************)
(* Properties.                                                             *)
(***************************************************************************)

(* However enrollments overlap, hosts stay apart: no two are recorded for  *)
(* one machine, and a key exists only on a host whose recorded machine has *)
(* one, as what the unique index refuses leaves no key behind; no two are  *)
(* opened by one pairing code, unless two claims of that code overlapped.  *)
HostsStayApart ==
    \A g, h \in Hosts :
        /\ keys[g] # {} => /\ hostRow[g].machine \in keys[g]
                           /\ hostRow[g].machine = hostRow[h].machine => g = h
        /\ OpensByCode(g) /\ OpensByCode(h) /\ hostRow[g].code = hostRow[h].code
              => g = h \/ hostRow[g].code \in doubled

(* A credential is spent: no enrollment starts on a host that has a key,   *)
(* whatever codes are still set on it.                                     *)
CredentialsAreSpent ==
    [][\A s \in EnrollSlots :
          enrolling[s] = FreeSlot /\ enrolling'[s] # FreeSlot
             => keys[enrolling'[s].host] = {}]_enrollVars
=============================================================================
