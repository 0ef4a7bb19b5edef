----------------------- MODULE HostEnrollment_proofs -----------------------
(***************************************************************************)
(* Enrollment for any number of hosts, machines and codes, with any number *)
(* of enrollments and claims in service at once; and the wizard that waits *)
(* for it, for any number of openings and requests under way.              *)
(***************************************************************************)
EXTENDS HostEnrollment, AddHostWizard, TLAPS

-----------------------------------------------------------------------------
(***************************************************************************)
(* The inductive invariant: types, what ties a key to the row of its host, *)
(* and who can know a pairing code.                                        *)
(***************************************************************************)
RowsTyped ==
    /\ hostRow \in [Hosts -> HostRows]
    /\ keys \in [Hosts -> SUBSET Machines]
    /\ drawn \subseteq Codes /\ session \in [Codes -> Sessions]
    /\ enrolling \in [EnrollSlots -> {FreeSlot}
                         \cup [host : Hosts, machine : Machines]]
    /\ claiming \in [Codes -> Nat]

(* A host that waits to be enrolled, or that is gone, has no keys; one     *)
(* with a key is recorded with a machine that has one; no two are recorded *)
(* with the same.                                                          *)
KeysInv ==
    /\ \A h \in Hosts :
          /\ keys[h] # {} => /\ hostRow[h].status \in {"online", "pending_removal"}
                             /\ hostRow[h].machine \in keys[h]
          /\ hostRow[h].machine # NoMachine => Known(h)
    /\ \A g, h \in Hosts :
          hostRow[g].machine = hostRow[h].machine /\ hostRow[g].machine # NoMachine
             => g = h

(* A code that was not drawn is nowhere.  One that was and of which no two *)
(* claims overlapped is on one host at most: on none while its session can *)
(* be claimed or a claim is in service, and else on the one it is linked   *)
(* to, if it is linked.                                                    *)
CodesInv ==
    \A c \in Codes :
        /\ c \notin drawn => /\ session[c] = NoSession /\ claiming[c] = 0
                             /\ \A h \in Hosts : hostRow[h].code # c
        /\ c \notin doubled =>
              /\ claiming[c] <= 1
              /\ session[c] = Waiting \/ claiming[c] > 0
                    => \A h \in Hosts : hostRow[h].code # c
              /\ \A g, h \in Hosts :
                    hostRow[g].code = c =>
                       /\ hostRow[h].code = c => g = h
                       /\ session[c] = [at |-> "linked", host |-> h] => g = h

EnrollInv == RowsTyped /\ KeysInv /\ CodesInv

LEMMA EnrollBegins == EnrollInit => EnrollInv
  BY EnrollmentAssumption
  DEF EnrollInit, EnrollInv, RowsTyped, KeysInv, CodesInv, NoHost, HostRows,
      Sessions, NoSession, FreeSlot, Waiting, Known

-----------------------------------------------------------------------------
(***************************************************************************)
(* One lemma per conjunct, with one step per action.                       *)
(***************************************************************************)
LEMMA TypesContinue == EnrollInv /\ [EnrollNext]_enrollVars => RowsTyped'
  <1> SUFFICES ASSUME EnrollInv, [EnrollNext]_enrollVars PROVE RowsTyped'
    OBVIOUS
  <1> USE DEF EnrollInv, RowsTyped, claimVars
  <1>1. CASE UNCHANGED enrollVars
    BY <1>1 DEF enrollVars
  <1>2. ASSUME NEW h \in Hosts, CreateHost(h) PROVE RowsTyped'
    <2> DEFINE r == [hostRow[h] EXCEPT !.status = "pending", !.token = TRUE]
    <2>1. r \in HostRows
      <3>1. hostRow[h] \in HostRows
        OBVIOUS
      <3> QED BY <3>1 DEF HostRows
    <2>2. hostRow' = [hostRow EXCEPT ![h] = r]
      BY <1>2 DEF CreateHost
    <2> HIDE DEF r
    <2>3. hostRow' \in [Hosts -> HostRows]
      BY <2>1, <2>2
    <2>4. UNCHANGED <<keys, drawn, session, enrolling, claiming>>
      BY <1>2 DEF CreateHost
    <2> QED BY <2>3, <2>4
  <1>3. ASSUME NEW h \in Hosts, AskPairingCode(h) PROVE RowsTyped'
    BY <1>3 DEF AskPairingCode
  <1>4. ASSUME NEW h \in Hosts, RemoveHost(h) PROVE RowsTyped'
    BY <1>4 DEF RemoveHost, HostRows
  <1>5. ASSUME NEW h \in Hosts, PurgeHost(h) PROVE RowsTyped'
    <2>1. [NoHost EXCEPT !.status = "gone"] \in HostRows
      BY DEF NoHost, HostRows
    <2>2. hostRow' \in [Hosts -> HostRows]
      BY <1>5, <2>1 DEF PurgeHost
    <2>3. Waiting \in Sessions
      BY DEF Waiting, Sessions
    <2>4. session' \in [Codes -> Sessions]
      BY <1>5, <2>3 DEF PurgeHost
    <2>5. keys' \in [Hosts -> SUBSET Machines]
      <3>1. keys' = [keys EXCEPT ![h] = {}]
        BY <1>5 DEF PurgeHost
      <3> QED BY <3>1
    <2>6. UNCHANGED <<drawn, enrolling, claiming>>
      BY <1>5 DEF PurgeHost
    <2> QED BY <2>2, <2>4, <2>5, <2>6
  <1>6. ASSUME NEW h \in Hosts, CodeExpires(h) PROVE RowsTyped'
    <2> DEFINE r == [hostRow[h] EXCEPT !.live = FALSE]
    <2>1. r \in HostRows
      <3>1. hostRow[h] \in HostRows
        OBVIOUS
      <3> QED BY <3>1 DEF HostRows
    <2>2. /\ hostRow' = [hostRow EXCEPT ![h] = r]
          /\ UNCHANGED <<keys, drawn, session, enrolling, claiming>>
      BY <1>6 DEF CodeExpires
    <2> HIDE DEF r
    <2>3. hostRow' \in [Hosts -> HostRows]
      BY <2>1, <2>2
    <2> QED BY <2>2, <2>3
  <1>7. ASSUME NEW h \in Hosts, NEW c \in Codes, SetPairingCode(h, c)
        PROVE  RowsTyped'
    <2> DEFINE r == [hostRow[h] EXCEPT !.code = c, !.live = TRUE]
    <2>1. r \in HostRows
      <3>1. hostRow[h] \in HostRows
        OBVIOUS
      <3> QED BY <3>1 DEF HostRows
    <2>2. hostRow' = [hostRow EXCEPT ![h] = r] \/ hostRow' = hostRow
      BY <1>7 DEF SetPairingCode
    <2> HIDE DEF r
    <2> QED BY <1>7, <2>1, <2>2 DEF SetPairingCode
  <1>8. ASSUME NEW h \in Hosts, NEW c \in Codes, Claim(c, h) PROVE RowsTyped'
    <2> DEFINE r == [hostRow[h] EXCEPT !.status = "pending", !.code = c,
                                       !.live = TRUE]
    <2>1. hostRow' \in [Hosts -> HostRows]
      <3>1. hostRow[h] \in HostRows
        OBVIOUS
      <3>2. r \in HostRows
        BY <3>1 DEF HostRows
      <3>3. hostRow' = [hostRow EXCEPT ![h] = r]
        BY <1>8 DEF Claim, InsertClaimed
      <3> HIDE DEF r
      <3> QED BY <3>2, <3>3
    <2>2. session' \in [Codes -> Sessions]
      <3>1. [at |-> "linked", host |-> h] \in Sessions
        BY DEF Sessions
      <3> QED BY <1>8, <3>1 DEF Claim
    <2>3. claiming' \in [Codes -> Nat]
      BY <1>8 DEF Claim, InsertClaimed
    <2> QED BY <1>8, <2>1, <2>2, <2>3 DEF Claim, InsertClaimed
  <1>9. ASSUME NEW h \in Hosts, NEW s \in EnrollSlots, NEW m \in Machines,
               AskEnroll(s, h, m)
        PROVE  RowsTyped'
    BY <1>9 DEF AskEnroll
  <1>10. ASSUME NEW c \in Codes, AskClaim(c) PROVE RowsTyped'
    BY <1>10 DEF AskClaim
  <1>11. ASSUME NEW c \in Codes, StartSession(c) PROVE RowsTyped'
    BY <1>11 DEF StartSession, Sessions, Waiting
  <1>12. ASSUME NEW c \in Codes, SessionExpires(c) PROVE RowsTyped'
    BY <1>12 DEF SessionExpires, Sessions
  <1>13. ASSUME NEW s \in EnrollSlots, Enroll(s) PROVE RowsTyped'
    <2>1. enrolling[s] \in [host : Hosts, machine : Machines]
      BY <1>13 DEF Enroll
    <2> DEFINE h == enrolling[s].host  m == enrolling[s].machine
               r == [NoHost EXCEPT !.status = "online", !.machine = m]
    <2>2. h \in Hosts /\ m \in Machines
      BY <2>1
    <2>3. r \in HostRows
      BY <2>2 DEF NoHost, HostRows
    <2>4. \/ UNCHANGED <<keys, hostRow>>
          \/ /\ keys' = [keys EXCEPT ![h] = @ \cup {m}]
             /\ hostRow' = [hostRow EXCEPT ![h] = r]
      BY <1>13 DEF Enroll
    <2>5. /\ enrolling' = [enrolling EXCEPT ![s] = FreeSlot]
          /\ UNCHANGED <<drawn, session, claiming>>
      BY <1>13 DEF Enroll
    <2> HIDE DEF h, m, r
    <2> QED BY <2>2, <2>3, <2>4, <2>5
  <1>14. CASE PruneCodes
    BY <1>14 DEF PruneCodes, HostRows
  <1>15. CASE PruneSessions
    BY <1>15 DEF PruneSessions, Sessions
  <1> QED
    BY <1>1, <1>2, <1>3, <1>4, <1>5, <1>6, <1>7, <1>8, <1>9, <1>10, <1>11,
       <1>12, <1>13, <1>14, <1>15
    DEF EnrollNext

LEMMA KeysContinue == EnrollInv /\ [EnrollNext]_enrollVars => KeysInv'
  <1> SUFFICES ASSUME EnrollInv, [EnrollNext]_enrollVars PROVE KeysInv'
    OBVIOUS
  <1> USE DEF EnrollInv, KeysInv, Known
  <1>0. ASSUME UNCHANGED <<hostRow, keys>> PROVE KeysInv'
    BY <1>0
  <1>1. CASE UNCHANGED enrollVars
    BY <1>0, <1>1 DEF enrollVars
  <1>2. ASSUME NEW h \in Hosts, CreateHost(h) PROVE KeysInv'
    BY <1>2 DEF CreateHost, RowsTyped, HostRows, NoHost
  <1>3. ASSUME NEW h \in Hosts, RemoveHost(h) PROVE KeysInv'
    BY <1>3 DEF RemoveHost, RowsTyped, HostRows
  <1>4. ASSUME NEW h \in Hosts, PurgeHost(h) PROVE KeysInv'
    BY <1>4 DEF PurgeHost, RowsTyped, HostRows, NoHost
  <1>5. ASSUME NEW h \in Hosts, CodeExpires(h) PROVE KeysInv'
    BY <1>5 DEF CodeExpires, RowsTyped, HostRows
  <1>6. ASSUME NEW h \in Hosts, NEW c \in Codes, SetPairingCode(h, c)
        PROVE  KeysInv'
    BY <1>6 DEF SetPairingCode, RowsTyped, HostRows
  <1>7. ASSUME NEW h \in Hosts, NEW c \in Codes, Claim(c, h) PROVE KeysInv'
    BY <1>7 DEF Claim, InsertClaimed, RowsTyped, HostRows, NoHost
  <1>8. ASSUME NEW s \in EnrollSlots, Enroll(s) PROVE KeysInv'
    <2> DEFINE h == enrolling[s].host  m == enrolling[s].machine
    <2>1. h \in Hosts /\ m \in Machines /\ m # NoMachine
      BY <1>8, EnrollmentAssumption DEF Enroll, RowsTyped
    <2>2. CASE Known(h) /\ ~Duplicate(h, m)
      <3>1. /\ keys' = [keys EXCEPT ![h] = @ \cup {m}]
            /\ hostRow' = [hostRow EXCEPT
                  ![h] = [NoHost EXCEPT !.status = "online", !.machine = m]]
        BY <1>8, <2>2 DEF Enroll
      <3>2. hostRow'[h].machine = m /\ hostRow'[h].status = "online"
        BY <2>1, <3>1 DEF RowsTyped, NoHost
      <3>3. \A g \in Hosts \ {h} : hostRow[g].machine # m
        BY <2>1, <2>2 DEF Duplicate
      <3> HIDE DEF h, m
      <3> QED BY <2>1, <3>1, <3>2, <3>3 DEF RowsTyped
    <2>3. CASE ~(Known(h) /\ ~Duplicate(h, m))
      BY <1>0, <1>8, <2>3 DEF Enroll
    <2> QED BY <2>2, <2>3
  <1>9. CASE PruneCodes
    <2>1. \A h \in Hosts : /\ hostRow'[h].machine = hostRow[h].machine
                           /\ hostRow'[h].status = hostRow[h].status
      BY <1>9 DEF PruneCodes, RowsTyped, HostRows
    <2> QED BY <1>9, <2>1 DEF PruneCodes
  <1> QED
    BY <1>0, <1>1, <1>2, <1>3, <1>4, <1>5, <1>6, <1>7, <1>8, <1>9
    DEF EnrollNext, AskPairingCode, AskEnroll, AskClaim, StartSession,
        SessionExpires, PruneSessions
LEMMA CodesContinue == EnrollInv /\ [EnrollNext]_enrollVars => CodesInv'
  <1> SUFFICES ASSUME EnrollInv, [EnrollNext]_enrollVars PROVE CodesInv'
    OBVIOUS
  <1> USE DEF EnrollInv, CodesInv, claimVars
  <1>0. ASSUME UNCHANGED <<drawn, session, claiming, doubled>>,
               hostRow' \in [Hosts -> HostRows],
               \A h \in Hosts : hostRow'[h].code \in {hostRow[h].code, NoCode}
        PROVE  CodesInv'
    BY <1>0, EnrollmentAssumption
  <1>1. CASE UNCHANGED enrollVars
    BY <1>1 DEF enrollVars
  <1>2. ASSUME UNCHANGED <<hostRow, drawn, session, claimVars>> PROVE CodesInv'
    BY <1>2
  <1>3. hostRow' \in [Hosts -> HostRows] /\ hostRow \in [Hosts -> HostRows]
    BY TypesContinue DEF RowsTyped
  <1>4. ASSUME NEW h \in Hosts, CreateHost(h) \/ RemoveHost(h) \/ CodeExpires(h)
        PROVE  CodesInv'
    <2>1. \A g \in Hosts : hostRow'[g].code = hostRow[g].code
      BY <1>3, <1>4 DEF CreateHost, RemoveHost, CodeExpires, HostRows
    <2> QED BY <1>0, <1>3, <1>4, <2>1 DEF CreateHost, RemoveHost, CodeExpires
  <1>5. ASSUME NEW h \in Hosts, PurgeHost(h) PROVE CodesInv'
    <2>1. \A g \in Hosts : hostRow'[g].code = IF g = h THEN NoCode
                                               ELSE hostRow[g].code
      BY <1>3, <1>5 DEF PurgeHost, NoHost
    <2>2. \A c \in Codes : \/ session'[c] = session[c]
                           \/ /\ session[c] = [at |-> "linked", host |-> h]
                              /\ session'[c] = Waiting
      BY <1>5 DEF PurgeHost, RowsTyped
    <2>3. \A c \in Codes : c \notin drawn => session'[c] = NoSession
      BY <2>2 DEF NoSession
    <2>4. UNCHANGED <<drawn, claiming, doubled>>
      BY <1>5 DEF PurgeHost
    <2> QED BY <2>1, <2>2, <2>3, <2>4, EnrollmentAssumption DEF Waiting
  <1>6. ASSUME NEW h \in Hosts, NEW c \in Codes, SetPairingCode(h, c)
        PROVE  CodesInv'
    <2>1. \A g \in Hosts : hostRow'[g].code = hostRow[g].code
                            \/ (g = h /\ hostRow'[g].code = c)
      BY <1>3, <1>6 DEF SetPairingCode, HostRows
    <2>2. /\ c \notin drawn /\ drawn' = drawn \cup {c}
          /\ UNCHANGED <<session, claiming, doubled>>
      BY <1>6 DEF SetPairingCode
    <2>3. session[c] # Waiting /\ \A g \in Hosts :
              session[c] # [at |-> "linked", host |-> g]
      BY <2>2 DEF NoSession, Waiting
    <2> QED BY <2>1, <2>2, <2>3
  <1>7. ASSUME NEW h \in Hosts, NEW c \in Codes, Claim(c, h) PROVE CodesInv'
    <2>1. \A g \in Hosts : hostRow'[g].code = IF g = h THEN c
                                               ELSE hostRow[g].code
      BY <1>3, <1>7 DEF Claim, InsertClaimed, HostRows
    <2>2. /\ claiming[c] > 0 /\ claiming' = [claiming EXCEPT ![c] = @ - 1]
          /\ UNCHANGED <<drawn, doubled>> /\ hostRow[h] = NoHost
          /\ \/ session[c].at = "pruned" /\ session' = session
             \/ session' = [session EXCEPT
                               ![c] = [at |-> "linked", host |-> h]]
      BY <1>7 DEF Claim, InsertClaimed
    <2>3. claiming \in [Codes -> Nat] /\ session \in [Codes -> Sessions]
      BY DEF RowsTyped
    <2>4. ASSUME NEW d \in Codes, d # c
          PROVE  /\ session'[d] = session[d] /\ claiming'[d] = claiming[d]
                 /\ \A g \in Hosts : hostRow'[g].code = d => hostRow[g].code = d
      BY <2>1, <2>2, <2>3, <2>4
    <2>5. c \in drawn
      BY <2>2
    <2>6. /\ session'[c] # Waiting
          /\ \A g \in Hosts : session'[c] = [at |-> "linked", host |-> g] => g = h
      BY <2>2, <2>3 DEF Waiting
    <2>7. c \notin doubled =>
             claiming'[c] = 0 /\ \A g \in Hosts : hostRow[g].code # c
      BY <2>2, <2>3
    <2> QED BY <2>1, <2>2, <2>4, <2>5, <2>6, <2>7
  <1>8. ASSUME NEW c \in Codes, AskClaim(c) PROVE CodesInv'
    <2>1. c \in drawn
      BY <1>8 DEF AskClaim, Waiting, NoSession
    <2>2. claiming \in [Codes -> Nat]
      BY DEF RowsTyped
    <2>3. claiming[c] = 0 \/ c \in doubled'
      BY <1>8, <2>2 DEF AskClaim
    <2>4. /\ session[c] = Waiting /\ doubled \subseteq doubled'
          /\ claiming' = [claiming EXCEPT ![c] = @ + 1]
          /\ UNCHANGED <<hostRow, drawn, session>>
      BY <1>8 DEF AskClaim
    <2> QED BY <2>1, <2>2, <2>3, <2>4
  <1>9. ASSUME NEW c \in Codes, StartSession(c) PROVE CodesInv'
    <2>1. /\ c \notin drawn /\ drawn' = drawn \cup {c}
          /\ session' = [session EXCEPT ![c] = Waiting]
          /\ UNCHANGED <<hostRow, claiming, doubled>>
      BY <1>9 DEF StartSession
    <2>2. session \in [Codes -> Sessions]
      BY DEF RowsTyped
    <2>3. \A h \in Hosts : Waiting # [at |-> "linked", host |-> h]
      BY DEF Waiting
    <2> QED BY <2>1, <2>2, <2>3
  <1>10. ASSUME UNCHANGED <<hostRow, drawn, claimVars>>,
                \A c \in Codes : session'[c] = session[c]
                    \/ /\ session[c] # NoSession /\ session'[c] # Waiting
                       /\ \A h \in Hosts :
                             session'[c] # [at |-> "linked", host |-> h]
         PROVE  CodesInv'
    BY <1>10
  <1>11. ASSUME NEW c \in Codes, SessionExpires(c) PROVE CodesInv'
    BY <1>10, <1>11 DEF SessionExpires, RowsTyped, NoSession, Waiting
  <1>12. CASE PruneSessions
    BY <1>10, <1>12 DEF PruneSessions, RowsTyped, NoSession, Waiting
  <1>13. ASSUME NEW s \in EnrollSlots, Enroll(s) PROVE CodesInv'
    <2>1. enrolling[s].host \in Hosts
      BY <1>13 DEF Enroll, RowsTyped
    <2> DEFINE r == [NoHost EXCEPT !.status = "online",
                                   !.machine = enrolling[s].machine]
    <2>2. r.code = NoCode
      BY DEF NoHost
    <2>3. hostRow' = hostRow \/ hostRow' = [hostRow EXCEPT ![enrolling[s].host] = r]
      BY <1>13 DEF Enroll
    <2> HIDE DEF r
    <2>4. \A g \in Hosts : hostRow'[g].code \in {hostRow[g].code, NoCode}
      BY <1>3, <2>1, <2>2, <2>3
    <2> QED BY <1>0, <1>3, <1>13, <2>4 DEF Enroll
  <1>14. CASE PruneCodes
    <2>1. \A g \in Hosts : hostRow'[g].code \in {hostRow[g].code, NoCode}
      BY <1>3, <1>14 DEF PruneCodes, HostRows
    <2> QED BY <1>0, <1>3, <1>14, <2>1 DEF PruneCodes
  <1> QED
    BY <1>1, <1>2, <1>4, <1>5, <1>6, <1>7, <1>8, <1>9, <1>11, <1>12, <1>13,
       <1>14
    DEF EnrollNext, AskPairingCode, AskEnroll

LEMMA EnrollContinues == EnrollInv /\ [EnrollNext]_enrollVars => EnrollInv'
  BY TypesContinue, KeysContinue, CodesContinue DEF EnrollInv

-----------------------------------------------------------------------------
(* However many enrollments and claims overlap: no two hosts are recorded  *)
(* for one machine, what the unique index refuses leaves no key, and one   *)
(* code opens two hosts only if two claims of it overlapped.               *)
THEOREM HostsAreApart == EnrollSpec => []HostsStayApart
  <1>1. EnrollInv => HostsStayApart
    <2> SUFFICES ASSUME EnrollInv, NEW g \in Hosts, NEW h \in Hosts
                 PROVE  /\ keys[g] # {} =>
                             /\ hostRow[g].machine \in keys[g]
                             /\ hostRow[g].machine = hostRow[h].machine => g = h
                        /\ OpensByCode(g) /\ OpensByCode(h)
                             /\ hostRow[g].code = hostRow[h].code
                             => g = h \/ hostRow[g].code \in doubled
      BY DEF HostsStayApart
    <2>1. keys[g] # {} => hostRow[g].machine # NoMachine
      BY EnrollmentAssumption DEF EnrollInv, KeysInv, RowsTyped
    <2>2. OpensByCode(g) => hostRow[g].code \in Codes
      BY DEF OpensByCode, EnrollInv, RowsTyped, HostRows
    <2> QED BY <2>1, <2>2 DEF EnrollInv, KeysInv, CodesInv
  <1> QED BY EnrollBegins, EnrollContinues, <1>1, PTL DEF EnrollSpec

(* No enrollment starts on a host that has a key already, whatever codes   *)
(* and tokens were left on it and however many are in service.             *)
THEOREM CredentialsStaySpent == EnrollSpec => CredentialsAreSpent
  <1>1. ASSUME EnrollInv, [EnrollNext]_enrollVars, NEW s \in EnrollSlots,
               enrolling[s] = FreeSlot, enrolling'[s] # FreeSlot
        PROVE  keys[enrolling'[s].host] = {}
    <2>1. PICK h \in Hosts, m \in Machines, r \in EnrollSlots : AskEnroll(r, h, m)
      <3>1. ASSUME NEW r \in EnrollSlots, Enroll(r) PROVE FALSE
        BY <1>1, <3>1 DEF Enroll, EnrollInv, RowsTyped
      <3> QED
        BY <1>1, <3>1
        DEF EnrollNext, enrollVars, CreateHost, AskPairingCode, RemoveHost,
            PurgeHost, CodeExpires, SetPairingCode, Claim, InsertClaimed,
            AskClaim, StartSession, SessionExpires, PruneCodes, PruneSessions
    <2>2. enrolling'[s] = [host |-> h, machine |-> m]
      BY <1>1, <2>1 DEF AskEnroll, EnrollInv, RowsTyped
    <2>3. Pending(h)
      BY <2>1 DEF AskEnroll, OpensByToken, OpensByCode
    <2> QED BY <1>1, <2>2, <2>3 DEF EnrollInv, KeysInv, Pending
  <1>2. EnrollInv /\ [EnrollNext]_enrollVars =>
           \A s \in EnrollSlots :
              enrolling[s] = FreeSlot /\ enrolling'[s] # FreeSlot
                 => keys[enrolling'[s].host] = {}
    BY <1>1
  <1> QED
    BY EnrollBegins, EnrollContinues, <1>2, PTL DEF EnrollSpec, CredentialsAreSpent

-----------------------------------------------------------------------------
(***************************************************************************)
(* The wizard.                                                             *)
(***************************************************************************)

(* WizardTypeOK without its bounds.                                        *)
Fields == [open : BOOLEAN, step : {1, 3}, pending : BOOLEAN,
           created : NewHosts \cup {NoOne}, code : PairCodes \cup {NoPair},
           busy : BOOLEAN, error : BOOLEAN, enrolled : BOOLEAN]
WizardRequests ==
    [kind : {"create", "first", "again", "check"}, host : NewHosts \cup {NoOne},
     of : Nat, at : {"sent", "ok", "refused"}, code : PairCodes \cup {NoPair}]

WizardTyped ==
    /\ newHost \in [NewHosts -> {"none", "pending", "online"}]
    /\ hostCode \in [NewHosts -> PairCodes \cup {NoPair}]
    /\ pairDrawn \subseteq PairCodes
    /\ opening \in Nat /\ form \in Fields /\ late \in BOOLEAN
    /\ calls \subseteq WizardRequests

(* A request is about a host that exists, but for one to create a host.    *)
CallsInv ==
    /\ \A c \in calls :
          /\ c.of <= opening
          /\ IF c.kind = "create" /\ c.at = "sent" THEN c.host = NoOne
             ELSE c.host # NoOne /\ newHost[c.host] # "none"
    /\ form.created # NoOne => newHost[form.created] # "none"

(* What the form says as long as a request of this opening is under way,   *)
(* and what the answer of that request says.                               *)
Own(c) ==
    /\ c.kind = "create" => form.created = NoOne /\ form.step = 1 /\ form.pending
    /\ c.kind # "create" => c.host = form.created
    /\ c.kind = "first" => form.step = 1 /\ form.pending
    /\ c.kind = "again" => form.step = 3
    /\ c.kind \in {"first", "again"} =>
          /\ form.busy
          /\ c.at = "ok" => \/ newHost[c.host] = "online"
                            \/ hostCode[c.host] = c.code
    /\ c.kind = "check" /\ c.at = "ok" => newHost[c.host] = "online"

(* As long as no answer was late: no two openings ask about one host, so   *)
(* the codes of the host that this one created are all asked by it, one    *)
(* after the other.                                                        *)
OpeningsApart ==
    /\ \A c, d \in calls : c.host = d.host /\ c.host # NoOne => c.of = d.of
    /\ \A c \in calls : c.host = form.created /\ c.host # NoOne => c.of = opening
    /\ ~form.open => form = Blank
WizardFormInv ==
    /\ \A c \in calls : c.of = opening /\ form.open => Own(c)
    /\ \A c, d \in calls :
          /\ c.of = opening /\ d.of = opening /\ form.open
          /\ c.kind # "check" /\ d.kind # "check"
          => c = d
    /\ form.created # NoOne /\ form.step = 1 => form.pending
    /\ form.created = NoOne => ~form.enrolled /\ form.code = NoPair

WizardInv ==
    /\ WizardTyped /\ CallsInv
    /\ ~late => OpeningsApart /\ WizardFormInv /\ WizardTellsTruth

LEMMA WizardBegins == WizardInit => WizardInv
  <1> SUFFICES ASSUME WizardInit PROVE WizardInv
    OBVIOUS
  <1>1. form \in Fields /\ form.created = NoOne /\ form.code = NoPair
        /\ ~form.enrolled /\ form = Blank
    BY DEF WizardInit, Fields, Blank
  <1>2. WizardTyped BY <1>1 DEF WizardInit, WizardTyped
  <1> QED
    BY <1>1, <1>2
    DEF WizardInit, WizardInv, CallsInv, OpeningsApart, WizardFormInv, WizardTellsTruth

(* The requests after one was sent, or after one was served.               *)
LEMMA CallTyped ==
    ASSUME WizardTyped, NEW kind \in {"create", "first", "again", "check"},
           NEW h \in NewHosts \cup {NoOne}
    PROVE  Call(kind, h) \in WizardRequests
  BY DEF WizardTyped, Call, WizardRequests

(* A route changes its request into the answer, and what the answer says.   *)
Answers(c, d) ==
    /\ calls' = (calls \ {c}) \cup {d}
    /\ d.kind = c.kind /\ d.of = c.of /\ d.at \in {"ok", "refused"}
    /\ UNCHANGED <<opening, form, late>>
    /\ \/ /\ c.kind = "create" /\ c.at = "sent"
          /\ d.host \in NewHosts /\ newHost[d.host] = "none"
          /\ newHost' = [newHost EXCEPT ![d.host] = "pending"]
          /\ hostCode' = hostCode
       \/ /\ c.kind \in {"first", "again"} /\ d.host = c.host
          /\ newHost' = newHost
          /\ IF d.at = "ok"
             THEN d.code \in PairCodes /\ hostCode' = [hostCode EXCEPT ![c.host] = d.code]
             ELSE hostCode' = hostCode
       \/ /\ c.kind = "check" /\ d.host = c.host
          /\ newHost' = newHost /\ hostCode' = hostCode
          /\ d.at = "ok" => newHost[c.host] # "pending"

LEMMA RoutesAnswer ==
    ASSUME WizardTyped, NEW c \in calls,
           ServeCreate(c) \/ ServeCode(c) \/ ServeCheck(c)
    PROVE  \E d \in WizardRequests : Answers(c, d)
  <1>0. c \in WizardRequests BY DEF WizardTyped
  <1>1. UNCHANGED <<opening, form, late>>
    BY DEF ServeCreate, ServeCode, ServeCheck
  <1>2. CASE ServeCreate(c)
    <2>1. PICK h \in NewHosts :
             /\ newHost[h] = "none" /\ newHost' = [newHost EXCEPT ![h] = "pending"]
             /\ calls' = (calls \ {c}) \cup {[c EXCEPT !.at = "ok", !.host = h]}
      BY <1>2 DEF ServeCreate, Served
    <2> DEFINE d == [c EXCEPT !.at = "ok", !.host = h]
    <2>2. /\ d \in WizardRequests /\ d.kind = c.kind /\ d.of = c.of
          /\ d.at = "ok" /\ d.host = h
      BY <1>0 DEF WizardRequests
    <2>3. calls' = (calls \ {c}) \cup {d} BY <2>1
    <2>4. c.kind = "create" /\ c.at = "sent" /\ hostCode' = hostCode
      BY <1>2 DEF ServeCreate
    <2> HIDE DEF d
    <2>5. Answers(c, d) BY <1>1, <2>1, <2>2, <2>3, <2>4 DEF Answers
    <2> QED BY <2>2, <2>5
  <1>3. ASSUME ServeCode(c), NEW p \in PairCodes,
               hostCode' = [hostCode EXCEPT ![c.host] = p],
               calls' = (calls \ {c}) \cup {[c EXCEPT !.at = "ok", !.code = p]}
        PROVE  \E d \in WizardRequests : Answers(c, d)
    <2> DEFINE d == [c EXCEPT !.at = "ok", !.code = p]
    <2>2. /\ d \in WizardRequests /\ d.kind = c.kind /\ d.of = c.of
          /\ d.at = "ok" /\ d.host = c.host /\ d.code = p
      BY <1>0 DEF WizardRequests
    <2>3. calls' = (calls \ {c}) \cup {d} BY <1>3
    <2>4. c.kind \in {"first", "again"} /\ newHost' = newHost
      BY <1>3 DEF ServeCode
    <2> HIDE DEF d
    <2>5. Answers(c, d) BY <1>1, <1>3, <2>2, <2>3, <2>4 DEF Answers
    <2> QED BY <2>2, <2>5
  <1>4. ASSUME ServeCode(c), hostCode' = hostCode,
               calls' = (calls \ {c}) \cup {[c EXCEPT !.at = "refused"]}
        PROVE  \E d \in WizardRequests : Answers(c, d)
    <2> DEFINE d == [c EXCEPT !.at = "refused"]
    <2>2. /\ d \in WizardRequests /\ d.kind = c.kind /\ d.of = c.of
          /\ d.at = "refused" /\ d.host = c.host
      BY <1>0 DEF WizardRequests
    <2>3. calls' = (calls \ {c}) \cup {d} BY <1>4
    <2>4. c.kind \in {"first", "again"} /\ newHost' = newHost
      BY <1>4 DEF ServeCode
    <2> HIDE DEF d
    <2>5. Answers(c, d) BY <1>1, <1>4, <2>2, <2>3, <2>4 DEF Answers
    <2> QED BY <2>2, <2>5
  <1>5. CASE ServeCheck(c)
    <2> DEFINE at == IF newHost[c.host] = "pending" THEN "refused" ELSE "ok"
               d == [c EXCEPT !.at = at]
    <2>1. at \in {"ok", "refused"} /\ (at = "ok" => newHost[c.host] # "pending")
      OBVIOUS
    <2>3. calls' = (calls \ {c}) \cup {d}
      BY <1>5 DEF ServeCheck, Served
    <2>4. c.kind = "check" /\ newHost' = newHost /\ hostCode' = hostCode
      BY <1>5 DEF ServeCheck, controlPlane
    <2> HIDE DEF at
    <2>2. /\ d \in WizardRequests /\ d.kind = c.kind /\ d.of = c.of
          /\ d.at = at /\ d.host = c.host
      BY <1>0, <2>1 DEF WizardRequests
    <2> HIDE DEF d
    <2>5. Answers(c, d) BY <1>1, <2>1, <2>2, <2>3, <2>4 DEF Answers
    <2> QED BY <2>2, <2>5
  <1>6. CASE ServeCode(c)
    <2>1. CASE newHost[c.host] = "pending"
      BY <1>3, <1>6, <2>1 DEF ServeCode, Served
    <2>2. CASE newHost[c.host] # "pending"
      BY <1>4, <1>6, <2>2 DEF ServeCode, Served
    <2> QED BY <2>1, <2>2
  <1> QED BY <1>2, <1>5, <1>6

LEMMA WizardTypesContinue ==
    ASSUME WizardTyped, CallsInv, [WizardNext]_wizardVars
    PROVE  WizardTyped' /\ CallsInv'
  <1>0. form \in Fields /\ calls \subseteq WizardRequests /\ opening \in Nat
    BY DEF WizardTyped
  <1>1. CASE UNCHANGED wizardVars
    BY <1>1 DEF wizardVars, WizardTyped, CallsInv, controlPlane
  <1>2. CASE Open \/ Close
    <2>1. form' \in Fields /\ form'.created \in {form.created, NoOne}
      <3>1. Blank \in Fields /\ Blank.created = NoOne BY DEF Fields, Blank
      <3>2. CASE Open BY <1>0, <3>2 DEF Open, Fields
      <3>3. CASE Close BY <3>1, <3>3 DEF Close
      <3> QED BY <1>2, <3>2, <3>3
    <2>2. /\ UNCHANGED <<newHost, hostCode, pairDrawn, calls, late>>
          /\ opening' \in {opening, opening + 1}
      BY <1>2 DEF Open, Close, controlPlane
    <2> QED BY <1>0, <2>1, <2>2 DEF WizardTyped, CallsInv, WizardRequests
  <1>3. CASE AskCreate \/ RegeneratePairingCode \/ CheckEnrollment
    <2>1. form' \in Fields /\ form'.created = form.created
      BY <1>0, <1>3 DEF AskCreate, RegeneratePairingCode, CheckEnrollment, Fields
    <2>2. PICK kind \in {"create", "again", "check"},
               h \in NewHosts \cup {NoOne} :
             /\ calls' = calls \cup {Call(kind, h)}
             /\ IF kind = "create" THEN h = NoOne
                ELSE h = form.created /\ h # NoOne
      BY <1>0, <1>3
      DEF AskCreate, RegeneratePairingCode, CheckEnrollment, Fields
    <2>3. UNCHANGED <<newHost, hostCode, pairDrawn, opening, late>>
      BY <1>3
      DEF AskCreate, RegeneratePairingCode, CheckEnrollment, controlPlane
    <2>4. /\ Call(kind, h) \in WizardRequests /\ Call(kind, h).kind = kind
          /\ Call(kind, h).at = "sent" /\ Call(kind, h).host = h
          /\ Call(kind, h).of = opening
      BY CallTyped DEF Call
    <2> QED BY <1>0, <2>1, <2>2, <2>3, <2>4 DEF WizardTyped, CallsInv
  <1>5. ASSUME NEW h \in NewHosts, Enrolls(h)
        PROVE  WizardTyped' /\ CallsInv'
    <2>1. /\ newHost' = [newHost EXCEPT ![h] = "online"]
          /\ hostCode' = [hostCode EXCEPT ![h] = NoPair]
          /\ UNCHANGED <<pairDrawn, opening, form, calls, late>>
      BY <1>5 DEF Enrolls
    <2>2. \A g \in NewHosts : newHost[g] # "none" => newHost'[g] # "none"
      BY <2>1 DEF WizardTyped
    <2>3. /\ form.created # NoOne => form.created \in NewHosts
          /\ \A c \in calls : c.host # NoOne => c.host \in NewHosts
      BY <1>0 DEF Fields, WizardRequests
    <2> QED BY <2>1, <2>2, <2>3 DEF WizardTyped, CallsInv
  <1>6. ASSUME NEW c \in calls,
               ServeCreate(c) \/ ServeCode(c) \/ ServeCheck(c)
        PROVE  WizardTyped' /\ CallsInv'
    <2>1. c \in WizardRequests BY <1>0
    <2>2. PICK d \in WizardRequests : Answers(c, d)
      BY <1>6, RoutesAnswer
    <2>5. /\ d.of = c.of /\ d.at # "sent"
          /\ IF c.kind = "create" /\ c.at = "sent"
             THEN d.host \in NewHosts /\ newHost'[d.host] # "none"
             ELSE d.host = c.host
      BY <2>2 DEF Answers, WizardTyped
    <2>3. /\ newHost' \in [NewHosts -> {"none", "pending", "online"}]
          /\ \A h \in NewHosts : newHost[h] # "none" => newHost'[h] # "none"
          /\ hostCode' \in [NewHosts -> PairCodes \cup {NoPair}]
          /\ pairDrawn' \subseteq PairCodes
          /\ UNCHANGED <<opening, form, late>>
      BY <1>6 DEF ServeCreate, ServeCode, ServeCheck, controlPlane, WizardTyped
    <2>4. /\ form.created # NoOne => form.created \in NewHosts
          /\ \A e \in calls : e.host # NoOne => e.host \in NewHosts
      BY <1>0 DEF Fields, WizardRequests
    <2> QED BY <1>0, <2>2, <2>3, <2>4, <2>5, WizardAssumption
      DEF WizardTyped, CallsInv, Answers
  <1>7. ASSUME NEW c \in calls, AnswerCreate(c)
        PROVE  WizardTyped' /\ CallsInv'
    <2>1. c \in WizardRequests /\ c.kind = "create" /\ c.at = "ok" /\ c.host # NoOne
          /\ newHost[c.host] # "none" /\ c.of <= opening
      BY <1>0, <1>7 DEF AnswerCreate, CallsInv
    <2> DEFINE d == [c EXCEPT !.kind = "first", !.at = "sent"]
    <2>2. /\ d \in WizardRequests /\ d.kind = "first" /\ d.host = c.host /\ d.of = c.of
      BY <2>1 DEF WizardRequests
    <2>3. calls' = (calls \ {c}) \cup {d} BY <1>7 DEF AnswerCreate
    <2> HIDE DEF d
    <2>4. form' \in Fields /\ form'.created = c.host
      BY <1>0, <1>7, <2>1 DEF AnswerCreate, Fields, WizardRequests
    <2>5. UNCHANGED <<newHost, hostCode, pairDrawn, opening>> /\ late' \in BOOLEAN
      BY <1>7 DEF AnswerCreate, controlPlane, WizardTyped
    <2> QED BY <1>0, <2>1, <2>2, <2>3, <2>4, <2>5 DEF WizardTyped, CallsInv
  <1>8. ASSUME NEW c \in calls, AnswerCode(c) \/ AnswerCheck(c) \/ CallLost(c)
        PROVE  WizardTyped' /\ CallsInv'
    <2>1. form' \in Fields /\ form'.created = form.created
      <3>1. CASE AnswerCode(c)
        BY <1>0, <3>1 DEF AnswerCode, CodeEnds, Fields, WizardRequests
      <3>2. CASE AnswerCheck(c)
        BY <1>0, <3>2 DEF AnswerCheck, Fields
      <3>3. CASE CallLost(c)
        <4>1. CASE c.kind \in {"create", "check"}
          BY <1>0, <3>3, <4>1 DEF CallLost, Fields
        <4>2. CASE c.kind \notin {"create", "check"}
          <5>1. PICK f \in Fields : f.created = form.created /\ CodeEnds(c, f)
            <6> DEFINE g == [form EXCEPT !.error = TRUE]
            <6>1. g \in Fields /\ g.created = form.created BY <1>0 DEF Fields
            <6>2. CodeEnds(c, g) BY <3>3, <4>2 DEF CallLost
            <6> HIDE DEF g
            <6> QED BY <6>1, <6>2
          <5> QED BY <5>1 DEF CodeEnds, Fields
        <4> QED BY <4>1, <4>2
      <3> QED BY <1>8, <3>1, <3>2, <3>3
    <2>2. /\ calls' = calls \ {c} /\ late' \in BOOLEAN
          /\ UNCHANGED <<newHost, hostCode, pairDrawn, opening>>
      BY <1>8 DEF AnswerCode, AnswerCheck, CallLost, Answered, controlPlane,
                  WizardTyped
    <2> QED BY <1>0, <2>1, <2>2 DEF WizardTyped, CallsInv
  <1> QED
    BY <1>1, <1>2, <1>3, <1>5, <1>6, <1>7, <1>8 DEF WizardNext

(* One lemma per group of actions: what each does to the form, and to the  *)
(* requests of this opening and of earlier ones.                           *)
TruthInv == OpeningsApart /\ WizardFormInv /\ WizardTellsTruth

LEMMA OpeningKeepsTruth ==
    ASSUME WizardTyped, CallsInv, TruthInv, ~late, Open \/ Close
    PROVE  TruthInv'
  <1> USE DEF TruthInv
  <1>0. form \in Fields /\ calls \subseteq WizardRequests /\ opening \in Nat
    BY DEF WizardTyped
  <1>1. CASE Open
    <2>1. /\ ~form.open /\ opening' = opening + 1 /\ form = Blank
          /\ form' = [Blank EXCEPT !.open = TRUE]
          /\ UNCHANGED <<newHost, hostCode, calls, late>>
      BY <1>1 DEF Open, controlPlane, OpeningsApart
    <2>2. /\ form'.created = NoOne /\ form'.code = NoPair /\ ~form'.enrolled
          /\ form'.open
      BY <2>1 DEF Blank
    <2>3. \A c \in calls : c.of # opening'
      BY <1>0, <2>1 DEF CallsInv, WizardRequests
    <2>4. OpeningsApart' BY <2>1, <2>2 DEF OpeningsApart
    <2> QED BY <2>1, <2>2, <2>3, <2>4 DEF WizardFormInv, WizardTellsTruth
  <1>2. CASE Close
    <2>1. /\ form' = Blank
          /\ UNCHANGED <<newHost, hostCode, calls, late, opening>>
      BY <1>2 DEF Close, controlPlane
    <2>2. /\ form'.created = NoOne /\ form'.code = NoPair /\ ~form'.enrolled
          /\ ~form'.open
      BY <2>1 DEF Blank
    <2>3. OpeningsApart' BY <2>1, <2>2 DEF OpeningsApart
    <2> QED BY <2>1, <2>2, <2>3 DEF WizardFormInv, WizardTellsTruth
  <1> QED BY <1>1, <1>2

LEMMA AskingKeepsTruth ==
    ASSUME WizardTyped, CallsInv, TruthInv, ~late,
           AskCreate \/ RegeneratePairingCode \/ CheckEnrollment
    PROVE  TruthInv'
  <1> USE DEF TruthInv
  <1>0. form \in Fields /\ calls \subseteq WizardRequests /\ opening \in Nat
    BY DEF WizardTyped
  <1>1. PICK kind \in {"create", "again", "check"},
             h \in NewHosts \cup {NoOne} :
           /\ calls' = calls \cup {Call(kind, h)} /\ h = form.created
           /\ \/ /\ kind = "create" /\ form.step = 1 /\ ~form.pending
                 /\ h = NoOne
                 /\ form' = [form EXCEPT !.pending = TRUE]
              \/ /\ kind = "again" /\ form.step = 3 /\ ~form.busy
                 /\ h # NoOne
                 /\ form' = [form EXCEPT !.busy = TRUE, !.error = FALSE]
              \/ kind = "check" /\ h # NoOne /\ form' = form
    <2>1. CASE AskCreate
      <3>1. form.created = NoOne BY <1>0, <2>1 DEF AskCreate, WizardFormInv, Fields
      <3> QED BY <2>1, <3>1 DEF AskCreate
    <2>2. CASE RegeneratePairingCode
      <3>1. form.created \in NewHosts \cup {NoOne} BY <1>0 DEF Fields
      <3> QED BY <2>2, <3>1 DEF RegeneratePairingCode
    <2>3. CASE CheckEnrollment
      <3>1. form.created \in NewHosts \cup {NoOne} BY <1>0 DEF Fields
      <3> QED BY <2>3, <3>1 DEF CheckEnrollment
    <2> QED BY <2>1, <2>2, <2>3
  <1>2. UNCHANGED <<newHost, hostCode, opening, late>>
    BY DEF AskCreate, RegeneratePairingCode, CheckEnrollment, controlPlane
  <1>3. PICK new : new = Call(kind, h) OBVIOUS
  <1>4. /\ new.kind = kind /\ new.at = "sent" /\ new.host = h
        /\ new.of = opening
    BY <1>3 DEF Call
  <1>5. /\ form'.open = form.open /\ form'.created = form.created
        /\ form'.step = form.step /\ form'.code = form.code
        /\ form'.enrolled = form.enrolled
        /\ form.busy => form'.busy
        /\ form.pending => form'.pending
        /\ kind # "again" => form'.busy = form.busy /\ form'.error = form.error
        /\ kind = "again" => form'.busy
        /\ kind = "create" => form'.pending
    BY <1>0, <1>1 DEF Fields
  <1>6. form.open
    BY <1>1 DEF OpeningsApart, Blank, AskCreate, RegeneratePairingCode, CheckEnrollment
  <1>7. \A c \in calls : c.of = opening /\ c.kind # "check" => kind = "check"
    BY <1>0, <1>1, <1>6 DEF WizardFormInv, Own, WizardRequests
  <1>8. OpeningsApart'
    BY <1>1, <1>2, <1>3, <1>4, <1>5, <1>6 DEF OpeningsApart
  <1>9. \A c \in calls' : c.of = opening => Own(c)'
    <2>1. ASSUME NEW c \in calls, c.of = opening PROVE Own(c)'
      BY <1>0, <1>2, <1>5, <1>6, <2>1 DEF WizardFormInv, Own
    <2>2. Own(new)' BY <1>1, <1>2, <1>4, <1>5 DEF Own
    <2> QED BY <1>1, <1>3, <2>1, <2>2
  <1>10. \A c, d \in calls' :
            /\ c.of = opening /\ d.of = opening
            /\ c.kind # "check" /\ d.kind # "check"
            => c = d
    BY <1>1, <1>3, <1>4, <1>6, <1>7 DEF WizardFormInv
  <1>11. WizardFormInv'
    BY <1>1, <1>2, <1>5, <1>9, <1>10 DEF WizardFormInv
  <1>12. WizardTellsTruth'
    BY <1>1, <1>2, <1>5 DEF WizardTellsTruth
  <1> QED BY <1>8, <1>11, <1>12

LEMMA EnrollingKeepsTruth ==
    ASSUME WizardTyped, CallsInv, TruthInv, ~late, NEW h \in NewHosts, Enrolls(h)
    PROVE  TruthInv'
  <1>1. /\ newHost' = [newHost EXCEPT ![h] = "online"]
        /\ hostCode' = [hostCode EXCEPT ![h] = NoPair]
        /\ UNCHANGED <<opening, form, calls, late>>
    BY DEF Enrolls
  <1>2. form \in Fields /\ calls \subseteq WizardRequests
    BY DEF WizardTyped
  <1>3. \A g \in NewHosts : \/ g = h /\ newHost'[g] = "online"
                            \/ newHost'[g] = newHost[g] /\ hostCode'[g] = hostCode[g]
    BY <1>1 DEF WizardTyped
  <1>4. /\ form.created # NoOne => form.created \in NewHosts
        /\ \A c \in calls : c.host # NoOne => c.host \in NewHosts
    BY <1>2 DEF Fields, WizardRequests
  <1>5. OpeningsApart' BY <1>1 DEF TruthInv, OpeningsApart
  <1>6. ASSUME NEW c \in calls, Own(c) PROVE Own(c)'
    <2>1. c.kind # "create" \/ c.at # "sent" => c.host \in NewHosts
      BY <1>4 DEF CallsInv
    <2> QED BY <1>1, <1>3, <1>6, <2>1 DEF Own
  <1>7. WizardFormInv' BY <1>1, <1>6 DEF TruthInv, WizardFormInv
  <1>8. WizardTellsTruth' BY <1>1, <1>3, <1>4 DEF TruthInv, WizardTellsTruth
  <1> QED BY <1>5, <1>7, <1>8 DEF TruthInv

LEMMA ServingKeepsTruth ==
    ASSUME WizardTyped, CallsInv, TruthInv, ~late, NEW c \in calls,
           NEW d \in WizardRequests, Answers(c, d)
    PROVE  TruthInv'
  <1> USE DEF TruthInv
  <1>0. form \in Fields /\ calls \subseteq WizardRequests /\ c \in WizardRequests
    BY DEF WizardTyped
  <1>1. /\ calls' = (calls \ {c}) \cup {d}
        /\ d.kind = c.kind /\ d.of = c.of /\ d.at \in {"ok", "refused"}
        /\ UNCHANGED <<opening, form, late>>
    BY DEF Answers
  <1>2. /\ form.created # NoOne => form.created \in NewHosts /\ newHost[form.created] # "none"
        /\ \A e \in calls : e.host # NoOne => e.host \in NewHosts /\ newHost[e.host] # "none"
    BY <1>0, WizardAssumption DEF Fields, WizardRequests, CallsInv
  <1>3. OpeningsApart'
    <2>1. CASE c.kind = "create" /\ newHost[d.host] = "none"
      <3>1. /\ \A e \in calls : e.host # NoOne => e.host # d.host
            /\ form.created # NoOne => form.created # d.host
        BY <1>2, <2>1
      <3>2. d.host = form.created /\ d.host # NoOne => FALSE BY <3>1
      <3> QED BY <1>1, <3>1, <3>2 DEF OpeningsApart
    <2>2. CASE d.host = c.host
      BY <1>1, <2>2 DEF OpeningsApart
    <2> QED BY <2>1, <2>2 DEF Answers
  <1>4. ASSUME NEW e \in calls, e # c, e.of = opening, form.open PROVE Own(e)'
    <2>1. Own(e) BY <1>4 DEF WizardFormInv
    <2>2. CASE c.kind = "check" BY <1>1, <2>1, <2>2 DEF Answers, Own
    <2>3. CASE c.kind = "create" /\ newHost[d.host] = "none"
      <3>1. e.host # NoOne => e.host # d.host /\ newHost'[e.host] = newHost[e.host]
        BY <1>2, <2>3 DEF Answers, WizardTyped
      <3>2. hostCode' = hostCode BY <2>3 DEF Answers
      <3>3. e.kind # "create" => e.host # NoOne BY DEF CallsInv
      <3> QED BY <1>1, <2>1, <3>1, <3>2, <3>3 DEF Own
    <2>4. CASE c.kind \in {"first", "again"} /\ c.of = opening
      <3>1. e.kind = "check" BY <1>4, <2>4 DEF WizardFormInv
      <3>2. newHost' = newHost BY <2>4 DEF Answers
      <3> QED BY <1>1, <2>1, <3>1, <3>2 DEF Own
    <2>5. CASE c.kind \in {"first", "again"} /\ c.of # opening
      <3>1. e.host # c.host \/ e.host = NoOne BY <1>4, <2>5 DEF OpeningsApart
      <3>2. e.host # NoOne => hostCode'[e.host] = hostCode[e.host]
        BY <1>2, <2>5, <3>1 DEF Answers, WizardTyped
      <3>3. newHost' = newHost BY <2>5 DEF Answers
      <3>4. e.kind # "create" => e.host # NoOne BY DEF CallsInv
      <3> QED BY <1>1, <2>1, <3>2, <3>3, <3>4 DEF Own
    <2> QED BY <2>2, <2>3, <2>4, <2>5 DEF Answers
  <1>5. ASSUME c.of = opening, form.open PROVE Own(d)'
    <2>1. Own(c) BY <1>5 DEF WizardFormInv
    <2>2. CASE c.kind = "create" BY <1>1, <2>1, <2>2 DEF Own
    <2>3. CASE c.kind \in {"first", "again"}
      <3>1. c.host # NoOne /\ c.host \in NewHosts BY <1>2, <2>3 DEF CallsInv
      <3>2. d.host = c.host /\ (d.at = "ok" => hostCode'[d.host] = d.code)
        BY <2>3, <3>1 DEF Answers, WizardTyped
      <3> QED BY <1>1, <2>1, <2>3, <3>2 DEF Own
    <2>4. CASE c.kind = "check"
      <3>1. c.host # NoOne /\ c.host \in NewHosts /\ newHost[c.host] # "none"
        BY <1>2, <2>4 DEF CallsInv
      <3>2. d.host = c.host /\ (d.at = "ok" => newHost'[d.host] = "online")
        BY <2>4, <3>1 DEF Answers, WizardTyped
      <3> QED BY <1>1, <2>1, <2>4, <3>2 DEF Own
    <2> QED BY <1>0, <2>2, <2>3, <2>4 DEF WizardRequests
  <1>6. WizardFormInv'
    <2>1. \A e, f \in calls' :
             /\ e.of = opening /\ f.of = opening /\ form.open
             /\ e.kind # "check" /\ f.kind # "check"
             => e = f
      BY <1>1 DEF WizardFormInv
    <2>2. \A e \in calls' : e.of = opening /\ form.open => Own(e)'
      BY <1>1, <1>4, <1>5
    <2> QED BY <1>1, <2>1, <2>2 DEF WizardFormInv
  <1>7. WizardTellsTruth'
    <2>1. CASE c.kind = "check" BY <1>1, <2>1 DEF Answers, WizardTellsTruth
    <2>2. CASE c.kind = "create" /\ newHost[d.host] = "none"
      <3>1. form.created # NoOne => newHost'[form.created] = newHost[form.created]
        BY <1>2, <2>2 DEF Answers, WizardTyped
      <3>2. hostCode' = hostCode BY <2>2 DEF Answers
      <3> QED BY <1>1, <3>1, <3>2 DEF WizardTellsTruth
    <2>3. CASE c.kind \in {"first", "again"} /\ c.host # form.created
      <3>1. form.created # NoOne => hostCode'[form.created] = hostCode[form.created]
        BY <1>2, <2>3 DEF Answers, WizardTyped
      <3>2. newHost' = newHost BY <2>3 DEF Answers
      <3> QED BY <1>1, <3>1, <3>2 DEF WizardTellsTruth
    <2>4. CASE c.kind \in {"first", "again"} /\ c.host = form.created
      <3>1. c.host # NoOne BY <2>4 DEF CallsInv
      <3>2. form.open BY <2>4, <3>1 DEF OpeningsApart, Blank
      <3>3. c.of = opening BY <2>4, <3>1 DEF OpeningsApart
      <3>4. form.busy BY <2>4, <3>2, <3>3 DEF WizardFormInv, Own
      <3>5. newHost' = newHost BY <2>4 DEF Answers
      <3> QED BY <1>1, <3>4, <3>5 DEF WizardTellsTruth
    <2> QED BY <2>1, <2>2, <2>3, <2>4 DEF Answers
  <1> QED BY <1>3, <1>6, <1>7

LEMMA AnswersKeepTruth ==
    ASSUME WizardTyped, CallsInv, TruthInv, ~late', NEW c \in calls,
           AnswerCreate(c) \/ AnswerCode(c) \/ AnswerCheck(c) \/ CallLost(c)
    PROVE  TruthInv'
  <1> USE DEF TruthInv
  <1>0. form \in Fields /\ calls \subseteq WizardRequests /\ c \in WizardRequests
    BY DEF WizardTyped
  <1>1. /\ ~late /\ c.of = opening /\ form.open
        /\ UNCHANGED <<newHost, hostCode, opening>>
    BY DEF AnswerCreate, AnswerCode, AnswerCheck, CallLost, Answered, controlPlane
  <1>2. Own(c) BY <1>1 DEF WizardFormInv
  <1>3. CASE AnswerCreate(c)
    <2>1. PICK d : d = [c EXCEPT !.kind = "first", !.at = "sent"] OBVIOUS
    <2>2. /\ d.kind = "first" /\ d.at = "sent" /\ d.host = c.host
          /\ d.of = c.of
      BY <1>0, <2>1 DEF WizardRequests
    <2>3. /\ calls' = (calls \ {c}) \cup {d} /\ c.kind = "create" /\ c.at = "ok"
          /\ form' = [form EXCEPT !.created = c.host, !.busy = TRUE, !.error = FALSE]
      BY <1>3, <2>1 DEF AnswerCreate
    <2>4. /\ form'.open = form.open /\ form'.step = 1 /\ form'.pending
          /\ form'.created = c.host /\ form'.busy
          /\ form'.code = NoPair /\ ~form'.enrolled /\ c.host # NoOne
          /\ form.created = NoOne
      BY <1>0, <1>2, <2>3 DEF Fields, Own, CallsInv, WizardFormInv
    <2>5. OpeningsApart' BY <1>1, <2>2, <2>3, <2>4 DEF OpeningsApart
    <2>6. \A e \in calls : e # c => e.of # opening
      <3>1. ASSUME NEW e \in calls, e.of = opening, e # c PROVE FALSE
        <4>1. Own(e) BY <1>1, <3>1 DEF WizardFormInv
        <4>2. e.kind # "check" BY <2>4, <4>1 DEF Own, CallsInv
        <4> QED BY <1>1, <2>3, <3>1, <4>2 DEF WizardFormInv
      <3> QED BY <3>1
    <2>7. Own(d)' BY <1>2, <2>2, <2>3, <2>4 DEF Own
    <2>8. WizardFormInv' BY <1>1, <2>3, <2>4, <2>6, <2>7 DEF WizardFormInv
    <2>9. WizardTellsTruth' BY <1>1, <2>4 DEF WizardTellsTruth
    <2> QED BY <2>5, <2>8, <2>9
  <1>4. CASE /\ calls' = calls \ {c} /\ c.kind = "create"
             /\ form' = [form EXCEPT !.pending = FALSE]
    <2>1. /\ form'.open = form.open /\ form'.created = NoOne
          /\ form.created = NoOne /\ form'.code = form.code
          /\ form'.enrolled = form.enrolled
      BY <1>0, <1>2, <1>4 DEF Fields, Own
    <2>2. \A e \in calls : e # c => e.of # opening
      <3>1. ASSUME NEW e \in calls, e.of = opening, e # c PROVE FALSE
        <4>1. Own(e) BY <1>1, <3>1 DEF WizardFormInv
        <4>2. e.kind # "check" BY <2>1, <4>1 DEF Own, CallsInv
        <4> QED BY <1>1, <1>4, <3>1, <4>2 DEF WizardFormInv
      <3> QED BY <3>1
    <2>3. OpeningsApart' BY <1>1, <1>4, <2>1 DEF OpeningsApart
    <2> QED BY <1>1, <1>4, <2>1, <2>2, <2>3 DEF WizardFormInv, WizardTellsTruth
  <1>5. CASE /\ calls' = calls \ {c} /\ c.kind = "check"
             /\ form' \in {form, [form EXCEPT !.enrolled = TRUE]}
             /\ form' # form => c.at = "ok"
    <2>1. /\ form'.open = form.open /\ form'.created = form.created
          /\ form'.step = form.step /\ form'.pending = form.pending
          /\ form'.busy = form.busy /\ form'.code = form.code
          /\ form'.error = form.error
          /\ form'.enrolled => form.enrolled \/ c.at = "ok"
      BY <1>0, <1>5 DEF Fields
    <2>2. c.host = form.created /\ (c.at = "ok" => newHost[c.host] = "online")
          /\ form.created # NoOne
      BY <1>2, <1>5 DEF Own, CallsInv
    <2>3. OpeningsApart' BY <1>1, <1>5, <2>1 DEF OpeningsApart
    <2>4. \A e \in calls : Own(e) => Own(e)' BY <1>1, <2>1 DEF Own
    <2>5. WizardFormInv' BY <1>1, <1>5, <2>1, <2>2, <2>4 DEF WizardFormInv
    <2>6. WizardTellsTruth' BY <1>1, <2>1, <2>2 DEF WizardTellsTruth
    <2> QED BY <2>3, <2>5, <2>6
  <1>6. CASE /\ calls' = calls \ {c} /\ c.kind \in {"first", "again"}
             /\ \E f \in Fields :
                   /\ CodeEnds(c, f)
                   /\ f.open = form.open /\ f.created = form.created
                   /\ f.step = form.step /\ f.enrolled = form.enrolled
                   /\ \/ f.code = NoPair \/ f.error
                      \/ f.code = c.code /\ c.at = "ok"
    <2>1. /\ form'.open = form.open /\ form'.created = form.created
          /\ form'.step = 3 /\ form'.enrolled = form.enrolled
          /\ \/ form'.code = NoPair \/ form'.error
             \/ form'.code = c.code /\ c.at = "ok"
      BY <1>2, <1>6 DEF CodeEnds, Fields, Own
    <2>2. /\ c.host = form.created /\ form.created # NoOne
          /\ c.at = "ok" => newHost[c.host] = "online" \/ hostCode[c.host] = c.code
      BY <1>2, <1>6 DEF Own, CallsInv
    <2>3. OpeningsApart' BY <1>1, <1>6, <2>1 DEF OpeningsApart
    <2>4. ASSUME NEW e \in calls, e # c, e.of = opening PROVE Own(e)'
      <3>1. e.kind = "check" BY <1>1, <1>6, <2>4 DEF WizardFormInv
      <3>2. Own(e) BY <1>1, <2>4 DEF WizardFormInv
      <3> QED BY <1>1, <2>1, <3>1, <3>2 DEF Own
    <2>5. WizardFormInv' BY <1>1, <1>6, <2>1, <2>2, <2>4 DEF WizardFormInv
    <2>6. WizardTellsTruth' BY <1>1, <2>1, <2>2 DEF WizardTellsTruth
    <2> QED BY <2>3, <2>5, <2>6
  <1>7. CASE AnswerCode(c)
    <2> DEFINE f == IF c.at = "ok" THEN [form EXCEPT !.code = c.code]
                    ELSE [form EXCEPT !.code = NoPair, !.error = TRUE]
    <2>1. f \in Fields /\ f.open = form.open /\ f.created = form.created
          /\ f.step = form.step /\ f.enrolled = form.enrolled
          /\ \/ f.code = NoPair
             \/ f.code = c.code /\ c.at = "ok"
      BY <1>0 DEF Fields, WizardRequests
    <2>2. CodeEnds(c, f) /\ calls' = calls \ {c} /\ c.kind \in {"first", "again"}
      BY <1>7 DEF AnswerCode, Answered
    <2> HIDE DEF f
    <2> QED BY <1>6, <2>1, <2>2
  <1>8. CASE AnswerCheck(c)
    <2>1. /\ calls' = calls \ {c} /\ c.kind = "check"
          /\ form' = [form EXCEPT !.enrolled = form.enrolled \/ c.at = "ok"]
      BY <1>8 DEF AnswerCheck, Answered
    <2>2. form' \in {form, [form EXCEPT !.enrolled = TRUE]}
          /\ (form' # form => c.at = "ok")
      BY <1>0, <2>1 DEF Fields
    <2> QED BY <1>5, <2>1, <2>2
  <1>9. CASE CallLost(c)
    <2>1. calls' = calls \ {c} BY <1>9 DEF CallLost, Answered
    <2>2. CASE c.kind = "create" BY <1>4, <1>9, <2>1, <2>2 DEF CallLost
    <2>3. CASE c.kind = "check" BY <1>5, <1>9, <2>1, <2>3 DEF CallLost
    <2>4. CASE c.kind \in {"first", "again"}
      <3> DEFINE f == [form EXCEPT !.error = TRUE]
      <3>1. f \in Fields /\ f.open = form.open /\ f.created = form.created
            /\ f.step = form.step /\ f.enrolled = form.enrolled /\ f.error
        BY <1>0 DEF Fields
      <3>2. CodeEnds(c, f) BY <1>9, <2>4 DEF CallLost
      <3> HIDE DEF f
      <3> QED BY <1>6, <2>1, <2>4, <3>1, <3>2
    <2> QED BY <1>0, <2>2, <2>3, <2>4 DEF WizardRequests
  <1> QED BY <1>3, <1>7, <1>8, <1>9

LEMMA WizardContinues == WizardInv /\ [WizardNext]_wizardVars => WizardInv'
  <1> SUFFICES ASSUME WizardInv, [WizardNext]_wizardVars PROVE WizardInv'
    OBVIOUS
  <1>1. WizardTyped' /\ CallsInv'
    BY WizardTypesContinue DEF WizardInv
  <1>2. ASSUME ~late' PROVE TruthInv'
    <2>1. WizardTyped /\ CallsInv /\ (~late => TruthInv)
      BY DEF WizardInv, TruthInv
    <2>2. ~late
      BY <1>2
      DEF WizardNext, wizardVars, Open, Close, AskCreate, RegeneratePairingCode,
          CheckEnrollment, Enrolls, ServeCreate, ServeCode, ServeCheck,
          AnswerCreate, AnswerCode, AnswerCheck, CallLost, Answered
    <2>3. CASE UNCHANGED wizardVars
      BY <2>1, <2>2, <2>3
      DEF wizardVars, controlPlane, TruthInv, OpeningsApart, WizardFormInv, Own,
          WizardTellsTruth
    <2> QED
      BY <1>2, <2>1, <2>2, <2>3, OpeningKeepsTruth, AskingKeepsTruth,
         EnrollingKeepsTruth, RoutesAnswer, ServingKeepsTruth, AnswersKeepTruth
      DEF WizardNext
  <1> QED BY <1>1, <1>2 DEF WizardInv, TruthInv

(* For any number of openings, hosts, codes and requests under way or      *)
(* lost: as long as no answer came to another opening than the one that    *)
(* asked, the wizard calls no host enrolled that is not, and a code that   *)
(* it shows without an error opens the host it created.                    *)
THEOREM WizardIsTrue == WizardSpec => []WizardTellsTruth
  <1>1. WizardInv => WizardTellsTruth
    BY DEF WizardInv, WizardTellsTruth
  <1> QED BY WizardBegins, WizardContinues, <1>1, PTL DEF WizardSpec
=============================================================================
