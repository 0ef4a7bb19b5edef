------------------------ MODULE ControlPlane_proofs ------------------------
(***************************************************************************)
(* Proofs about the control plane's handlers, for any number of instances  *)
(* and of concurrent requests.                                             *)
(***************************************************************************)
EXTENDS MCControlPlane, TLAPS

-----------------------------------------------------------------------------
(* A call's op tells which of the handlers left it.                        *)
LEMMA CallByOp ==
    ASSUME NEW c \in Calls
    PROVE  /\ c.op = "insert" => c \in InsertCall
           /\ c.op = "set" => c \in UserSetCall
           /\ c.op = "report" => c \in ReportCall
           /\ c.op \in {"finalize", "purge"} => c \in DeleteCall
           /\ c.op \in {"markRows", "markHost"} => c \in HostCall
           /\ c.op = "wipe" => c \in WipeCall
           /\ c.op = "wiped" => c \in WipedCall
  BY DEF Calls, Idle, InsertCall, UserSetCall, ReportCall, DeleteCall,
         HostCall, WipeCall, WipedCall

(* Every asking step leaves one well-formed call in an idle slot.          *)
LEMMA AskShape ==
    ASSUME TypeOK, NEW s \in Slots, UserAsks(s) \/ AgentAsks(s)
    PROVE  /\ UNCHANGED <<row, onHost, host>>
           /\ call[s] = Idle
           /\ \E c \in Calls : call' = [call EXCEPT ![s] = c]
           /\ asked' \in SUBSET Instances
           /\ asked \subseteq asked'
           /\ hostAsked' \in BOOLEAN
           /\ hostAsked => hostAsked'
  <1>1. CASE UserAsks(s)
    BY <1>1 DEF UserAsks, AskCreate, AskStop, AskStart, AskDelete, AskFinalize,
       AskHostRemoval, AskForcedRemoval, Decide, TypeOK, Calls, Idle, InsertCall,
       UserSetCall, DeleteCall, HostCall, WipeCall, Removed
  <1>2. CASE AgentAsks(s)
    BY <1>2 DEF AgentAsks, Report, PurgeComplete, RemovalComplete, Decide,
       TypeOK, Calls, Idle, ReportCall, DeleteCall, WipeCall, Removed
  <1> QED BY <1>1, <1>2

LEMMA TypeStep == TypeOK /\ [Next]_vars => TypeOK'
  <1> SUFFICES ASSUME TypeOK, [Next]_vars PROVE TypeOK'
    OBVIOUS
  <1>1. ASSUME NEW s \in Slots, UserAsks(s) \/ AgentAsks(s) PROVE TypeOK'
    BY <1>1, AskShape DEF TypeOK
  <1>2. ASSUME NEW s \in Slots, Write(s) PROVE TypeOK'
    <2> DEFINE c == call[s]
    <2>0. c \in Calls /\ Idle \in Calls
      BY DEF TypeOK, Calls
    <2> USE <2>0, CallByOp DEF TypeOK, Return
    <2>1. CASE Insert(s)
      BY <2>1 DEF Insert, InsertCall, RowStates, Statuses
    <2>2. CASE SetStatus(s)
      BY <2>2 DEF SetStatus, UserSetCall, ReportCall, RowStates, Statuses, Reportable
    <2>3. CASE DeleteRow(s)
      BY <2>3 DEF DeleteRow, DeleteCall, RowStates, Removed
    <2>4. CASE MarkRows(s)
      BY <2>4 DEF MarkRows, HostCall, Calls, RowStates, Statuses
    <2>5. CASE MarkHost(s)
      BY <2>5 DEF MarkHost, HostStates
    <2>6. CASE WipeRows(s)
      <3>1. [op |-> "wiped", as |-> c.as, rows |-> onHost] \in WipedCall
        BY <2>6 DEF WipeRows, WipeCall, WipedCall
      <3> QED BY <2>6, <3>1 DEF WipeRows, Calls
    <2>7. CASE WipeHost(s)
      BY <2>7 DEF WipeHost, WipedCall, RowStates, HostStates
    <2> QED BY <1>2, <2>1, <2>2, <2>3, <2>4, <2>5, <2>6, <2>7 DEF Write
  <1>3. CASE UNCHANGED vars
    BY <1>3 DEF vars, TypeOK
  <1> QED BY <1>1, <1>2, <1>3 DEF Next, Slots

LEMMA TypeInit == Init => TypeOK
  BY DEF Init, TypeOK, RowStates, HostStates, Calls

(* The variables keep their types in every interleaving of the handlers.   *)
THEOREM TypeCorrect == Spec => []TypeOK
  BY TypeInit, TypeStep, PTL DEF Spec

-----------------------------------------------------------------------------
(***************************************************************************)
(* Ownership of rows: purges of the host never overlap on a row.           *)
(***************************************************************************)
LEMMA OwnedInit == Init => RowsAreOwned
  BY DEF Init, RowsAreOwned, Idle

LEMMA OwnedAsk ==
    ASSUME TypeOK, RowsAreOwned, NEW s \in Slots, UserAsks(s) \/ AgentAsks(s)
    PROVE  RowsAreOwned'
  <1>1. PICK c \in Calls : call' = [call EXCEPT ![s] = c] /\ c.op # "wiped"
    <2>1. CASE UserAsks(s)
      BY <2>1 DEF UserAsks, AskCreate, AskStop, AskStart, AskDelete, AskFinalize,
         AskHostRemoval, AskForcedRemoval, Decide, TypeOK, Calls, Idle, InsertCall,
         UserSetCall, DeleteCall, HostCall, WipeCall, Removed
    <2>2. CASE AgentAsks(s)
      BY <2>2 DEF AgentAsks, Report, PurgeComplete, RemovalComplete, Decide,
         TypeOK, Calls, Idle, ReportCall, DeleteCall, WipeCall, Removed
    <2> QED BY <2>1, <2>2
  <1>2. UNCHANGED <<row, onHost, host>>
    BY AskShape
  <1> QED BY <1>1, <1>2 DEF RowsAreOwned, TypeOK, Exists

LEMMA OwnedWrite ==
    ASSUME TypeOK, RowsAreOwned, NEW s \in Slots, Write(s)
    PROVE  RowsAreOwned'
  <1> DEFINE c == call[s]
  <1>0. c \in Calls
    BY DEF TypeOK
  <1>1. CASE Insert(s)
    <2>1. call' = [call EXCEPT ![s] = Idle] /\ host' = host
      BY <1>1 DEF Insert, Return
    <2>2. onHost \subseteq onHost' /\ onHost' \subseteq onHost \cup {c.inst}
      BY <1>1 DEF Insert
    <2>3. \A i \in onHost' : Exists(i)' /\ host' # "gone"
      BY <1>1, <1>0, CallByOp DEF Insert, RowsAreOwned, Exists, TypeOK, InsertCall, Statuses
    <2> QED BY <2>1, <2>2, <2>3 DEF RowsAreOwned, TypeOK, Idle
  <1>2. CASE SetStatus(s)
    <2>1. call' = [call EXCEPT ![s] = Idle] /\ UNCHANGED <<host, onHost>>
      BY <1>2 DEF SetStatus, Return
    <2>2. c.to \in Statuses
      BY <1>2, <1>0, CallByOp DEF SetStatus, UserSetCall, ReportCall, Statuses, Reportable
    <2>3. \A i \in Instances : Exists(i) => Exists(i)'
      BY <1>2, <2>2 DEF SetStatus, Exists, TypeOK
    <2> QED BY <2>1, <2>3 DEF RowsAreOwned, TypeOK, Idle
  <1>3. CASE DeleteRow(s)
    <2>1. /\ call' = [call EXCEPT ![s] = Idle] /\ UNCHANGED host
          /\ onHost' = onHost \ {c.inst} /\ c.inst \notin Locked
          /\ \A i \in Instances \ {c.inst} : row'[i] = row[i]
      BY <1>3 DEF DeleteRow, Return, TypeOK
    <2>2. \A t \in Slots : call[t].op = "wiped" => c.inst \notin call[t].rows
      BY <2>1 DEF Locked, LockedBy
    <2> QED BY <2>1, <2>2 DEF RowsAreOwned, TypeOK, Idle, Exists
  <1>4. CASE MarkRows(s)
    BY <1>4 DEF MarkRows, RowsAreOwned, TypeOK, Exists, Statuses
  <1>5. CASE MarkHost(s)
    BY <1>5 DEF MarkHost, Return, RowsAreOwned, TypeOK, Idle, Exists
  <1>6. CASE WipeRows(s)
    <2>1. \A t \in Slots : call[t].op = "wiped" => onHost \cap call[t].rows = {}
      BY <1>6 DEF WipeRows, Locked, LockedBy
    <2> QED BY <1>6, <2>1 DEF WipeRows, RowsAreOwned, TypeOK, Exists
  <1>7. CASE WipeHost(s)
    <2>1. \A t \in Slots \ {s} : call[t].op = "wiped" => onHost \cap call[t].rows = {}
      BY <1>7 DEF WipeHost, LockedBy
    <2>2. call' = [call EXCEPT ![s] = Idle] /\ onHost' = {}
      BY <1>7 DEF WipeHost, Return
    <2> QED BY <2>1, <2>2 DEF RowsAreOwned, TypeOK, Idle
  <1> QED BY <1>1, <1>2, <1>3, <1>4, <1>5, <1>6, <1>7 DEF Write

LEMMA OwnedStep == TypeOK /\ RowsAreOwned /\ [Next]_vars => RowsAreOwned'
  <1>1. TypeOK /\ RowsAreOwned /\ UNCHANGED vars => RowsAreOwned'
    BY DEF vars, RowsAreOwned, Exists
  <1> QED BY <1>1, OwnedAsk, OwnedWrite DEF Next, Slots

(* However many purges, inserts and deletions overlap, no row is claimed   *)
(* twice and none is bound to a host that is gone.                         *)
THEOREM RowsStayOwned == Spec => []RowsAreOwned
  BY TypeInit, TypeStep, OwnedInit, OwnedStep, PTL DEF Spec

-----------------------------------------------------------------------------
(***************************************************************************)
(* The removal contract.                                                   *)
(***************************************************************************)

(* What the refinement rests on: a removal in progress was asked for, and  *)
(* an insert in progress is the only one for its id.                       *)
RemovalInv ==
    /\ \A i \in Instances :
          row[i] \in Removed \cup {"pending_delete"} => i \in asked \/ hostAsked
    /\ host # "online" => hostAsked
    /\ \A s \in Slots :
          /\ call[s].op = "set" =>
                (call[s].to = "pending_delete" => call[s].inst \in asked)
          /\ call[s].op \in {"finalize", "purge"} =>
                call[s].inst \in asked \/ hostAsked
          /\ call[s].op \in {"markRows", "markHost", "wipe", "wiped"} => hostAsked
          /\ call[s].op = "insert" =>
                /\ row[call[s].inst] = "none"
                /\ \A t \in Slots \ {s} : call[t] # call[s]

LEMMA RemovalInit == Init => RemovalInv
  BY DEF Init, RemovalInv, Idle, Removed

LEMMA RemovalAsk ==
    ASSUME TypeOK, RemovalInv, NEW s \in Slots, UserAsks(s) \/ AgentAsks(s)
    PROVE  RemovalInv'
  <1>1. ASSUME NEW i \in Instances, AskCreate(s, i) PROVE RemovalInv'
    <2>1. call' = [call EXCEPT ![s] = [op |-> "insert", inst |-> i]]
      BY <1>1 DEF AskCreate, Decide
    <2>2. \A t \in Slots : call[t] # [op |-> "insert", inst |-> i]
      BY <1>1 DEF AskCreate
    <2>3. UNCHANGED <<row, host, asked, hostAsked>> /\ row[i] = "none"
      BY <1>1 DEF AskCreate, Decide
    <2>4. ASSUME NEW t \in Slots, call'[t].op = "insert"
          PROVE  row'[call'[t].inst] = "none" /\ \A u \in Slots \ {t} : call'[u] # call'[t]
      <3>1. CASE t = s
        BY <2>1, <2>2, <2>3, <3>1 DEF TypeOK
      <3>2. CASE t # s
        <4>1. call'[t] = call[t]
          BY <2>1, <3>2 DEF TypeOK
        <4>2. ASSUME NEW u \in Slots \ {t} PROVE call'[u] # call'[t]
          BY <2>1, <2>2, <2>4, <4>1 DEF TypeOK, RemovalInv
        <4> QED BY <2>3, <2>4, <4>1, <4>2 DEF RemovalInv
      <3> QED BY <3>1, <3>2
    <2> QED BY <2>1, <2>3, <2>4 DEF RemovalInv, TypeOK
  <1>2. ASSUME NEW c \in Calls, call' = [call EXCEPT ![s] = c], c.op # "insert",
               UNCHANGED <<row, host>>, asked \subseteq asked', hostAsked => hostAsked',
               c.op = "set" => (c.to = "pending_delete" => c.inst \in asked'),
               c.op \in {"finalize", "purge"} => c.inst \in asked' \/ hostAsked',
               c.op \in {"markRows", "markHost", "wipe", "wiped"} => hostAsked'
        PROVE  RemovalInv'
    BY <1>2 DEF RemovalInv, TypeOK
  <1>3. ASSUME NEW i \in Instances, AskStop(s, i) \/ AskStart(s, i) PROVE RemovalInv'
    <2> DEFINE c == [op |-> "set", inst |-> i,
                     to |-> IF AskStop(s, i) THEN "stopping" ELSE "starting"]
    <2>1. c \in Calls
      BY DEF Calls, UserSetCall
    <2> QED BY <1>2, <1>3, <2>1 DEF AskStop, AskStart, Decide
  <1>4. ASSUME NEW i \in Instances, AskDelete(s, i) PROVE RemovalInv'
    <2> DEFINE c == [op |-> "set", inst |-> i, to |-> "pending_delete"]
    <2>1. c \in Calls
      BY DEF Calls, UserSetCall
    <2> QED BY <1>2, <1>4, <2>1 DEF AskDelete, Decide
  <1>5. ASSUME NEW i \in Instances, AskFinalize(s, i) \/ PurgeComplete(s, i)
        PROVE RemovalInv'
    <2> DEFINE c == [op |-> IF AskFinalize(s, i) THEN "finalize" ELSE "purge", inst |-> i]
    <2>1. c \in Calls
      BY DEF Calls, DeleteCall
    <2>2. i \in asked \/ hostAsked
      BY <1>5 DEF AskFinalize, PurgeComplete, RemovalInv
    <2> QED BY <1>2, <1>5, <2>1, <2>2 DEF AskFinalize, PurgeComplete, Decide
  <1>6. ASSUME AskHostRemoval(s) PROVE RemovalInv'
    <2> DEFINE c == [op |-> "markRows"]
    <2>1. c \in Calls
      BY DEF Calls, HostCall
    <2> QED BY <1>2, <1>6, <2>1 DEF AskHostRemoval, Decide
  <1>7. ASSUME AskForcedRemoval(s) \/ RemovalComplete(s) PROVE RemovalInv'
    <2> DEFINE c == [op |-> "wipe", as |-> IF AskForcedRemoval(s) THEN "dropped" ELSE "gone"]
    <2>1. c \in Calls
      BY DEF Calls, WipeCall, Removed
    <2>2. hostAsked
      BY <1>7 DEF AskForcedRemoval, RemovalComplete, RemovalInv
    <2> QED BY <1>2, <1>7, <2>1, <2>2 DEF AskForcedRemoval, RemovalComplete, Decide
  <1>8. ASSUME NEW i \in Instances, NEW next \in Reportable, Report(s, i, next)
        PROVE RemovalInv'
    <2> DEFINE c == [op |-> "report", inst |-> i, to |-> next]
    <2>1. c \in Calls
      BY DEF Calls, ReportCall
    <2> QED BY <1>2, <1>8, <2>1 DEF Report, Decide
  <1> QED BY <1>1, <1>3, <1>4, <1>5, <1>6, <1>7, <1>8 DEF UserAsks, AgentAsks

(* A write neither invents a removal nor revives an id.                    *)
LEMMA RemovalWrite ==
    ASSUME TypeOK, RowsAreOwned, RemovalInv, NEW s \in Slots, Write(s)
    PROVE  RemovalInv'
  <1> DEFINE c == call[s]
  <1>0. c \in Calls /\ UNCHANGED <<asked, hostAsked>>
    BY DEF TypeOK, Write, Insert, SetStatus, DeleteRow, MarkRows, MarkHost,
       WipeRows, WipeHost
  <1>1. CASE Insert(s)
    <2>1. call' = [call EXCEPT ![s] = Idle] /\ host' = host /\ c.inst \in Instances
      BY <1>1, <1>0, CallByOp DEF Insert, Return, InsertCall
    <2>2. \A i \in Instances : i # c.inst => row'[i] = row[i]
      BY <1>1, <2>1 DEF Insert, TypeOK
    <2>3. row'[c.inst] \in {"queued", row[c.inst]}
      BY <1>1, <2>1 DEF Insert, TypeOK
    <2>4. ASSUME NEW t \in Slots, call'[t].op = "insert"
          PROVE  /\ row'[call'[t].inst] = "none"
                 /\ \A u \in Slots \ {t} : call'[u] # call'[t]
      <3>1. t # s /\ call'[t] = call[t] /\ call[t] \in InsertCall
        BY <2>1, <2>4, CallByOp DEF TypeOK, Idle
      <3>2. c \in InsertCall
        BY <1>1, <1>0, CallByOp DEF Insert
      <3>3. call[t].inst # c.inst
        BY <3>1, <3>2 DEF RemovalInv, InsertCall
      <3>4. \A u \in Slots \ {t} : call'[u] # call'[t]
        BY <2>1, <3>1 DEF RemovalInv, TypeOK, Idle, InsertCall
      <3> QED BY <2>2, <3>1, <3>3, <3>4 DEF RemovalInv, InsertCall
    <2>5. \A i \in Instances :
             row'[i] \in Removed \cup {"pending_delete"} => i \in asked \/ hostAsked
      BY <2>2, <2>3 DEF RemovalInv, Removed
    <2> QED BY <1>0, <2>1, <2>4, <2>5 DEF RemovalInv, TypeOK, Idle
  <1>2. ASSUME NEW next \in Calls, call' = [call EXCEPT ![s] = next], next.op # "insert",
               next.op \in {"markHost", "wiped"} => hostAsked,
               next.op \notin {"set", "finalize", "purge", "markRows", "wipe"},
               host' # "online" => hostAsked,
               \A i \in Instances :
                  /\ row'[i] \in Removed \cup {"pending_delete"} => i \in asked \/ hostAsked
                  /\ row[i] = "none" => row'[i] = "none"
        PROVE  RemovalInv'
    <2>1. ASSUME NEW t \in Slots, call'[t].op = "insert"
          PROVE  /\ row'[call'[t].inst] = "none"
                 /\ \A u \in Slots \ {t} : call'[u] # call'[t]
      <3>1. t # s /\ call'[t] = call[t] /\ call[t] \in InsertCall
        BY <1>2, <2>1, CallByOp DEF TypeOK
      <3> QED BY <1>2, <3>1, <2>1 DEF RemovalInv, TypeOK, InsertCall
    <2> QED BY <1>0, <1>2, <2>1 DEF RemovalInv, TypeOK
  <1>idle. Idle \in Calls /\ Idle.op = "idle"
    BY DEF Calls, Idle
  <1>3. CASE SetStatus(s)
    <2>1. call' = [call EXCEPT ![s] = Idle] /\ host' = host
      BY <1>3 DEF SetStatus, Return
    <2>2. c.to \notin Removed /\ (c.to = "pending_delete" => c.inst \in asked)
      BY <1>3, <1>0, CallByOp
         DEF SetStatus, RemovalInv, UserSetCall, ReportCall, Removed, Reportable
    <2>3. \A i \in Instances :
             row'[i] # row[i] => i = c.inst /\ row'[i] = c.to /\ Exists(i)
      BY <1>3, <1>0 DEF SetStatus, RowsAreOwned, TypeOK
    <2>4. \A i \in Instances :
             /\ row'[i] \in Removed \cup {"pending_delete"} => i \in asked \/ hostAsked
             /\ row[i] = "none" => row'[i] = "none"
      BY <2>2, <2>3 DEF RemovalInv, Exists, Statuses
    <2>5. host' # "online" => hostAsked
      BY <2>1 DEF RemovalInv
    <2> QED BY <1>2, <1>idle, <2>1, <2>4, <2>5
  <1>4. CASE DeleteRow(s)
    <2>1. call' = [call EXCEPT ![s] = Idle] /\ host' = host
      BY <1>4 DEF DeleteRow, Return
    <2>2. c.inst \in asked \/ hostAsked
      BY <1>4 DEF DeleteRow, RemovalInv
    <2>3. \A i \in Instances : row'[i] # row[i] => i = c.inst /\ Exists(i)
      BY <1>4, <1>0 DEF DeleteRow, RowsAreOwned, TypeOK
    <2>4. \A i \in Instances :
             /\ row'[i] \in Removed \cup {"pending_delete"} => i \in asked \/ hostAsked
             /\ row[i] = "none" => row'[i] = "none"
      BY <2>2, <2>3 DEF RemovalInv, Exists, Statuses
    <2>5. host' # "online" => hostAsked
      BY <2>1 DEF RemovalInv
    <2> QED BY <1>2, <1>idle, <2>1, <2>4, <2>5
  <1>5. CASE MarkRows(s)
    <2>1. hostAsked /\ [op |-> "markHost"] \in Calls
      BY <1>5 DEF MarkRows, RemovalInv, Calls, HostCall
    <2> QED BY <1>2, <1>5, <2>1 DEF MarkRows, RowsAreOwned, Exists, Statuses, TypeOK
  <1>6. CASE MarkHost(s)
    <2>1. call' = [call EXCEPT ![s] = Idle] /\ row' = row /\ hostAsked
      BY <1>6 DEF MarkHost, Return, RemovalInv
    <2> QED BY <1>2, <1>idle, <2>1 DEF RemovalInv
  <1>7. CASE WipeRows(s)
    <2>1. [op |-> "wiped", as |-> c.as, rows |-> onHost] \in Calls
      BY <1>7, <1>0, CallByOp DEF WipeRows, WipeCall, WipedCall, Calls, TypeOK
    <2> QED BY <1>2, <1>7, <2>1 DEF WipeRows, RemovalInv
  <1>8. CASE WipeHost(s)
    <2>1. call' = [call EXCEPT ![s] = Idle] /\ hostAsked
      BY <1>8 DEF WipeHost, Return, RemovalInv
    <2>2. \A i \in Instances : row[i] = "none" => row'[i] = "none"
      BY <1>8 DEF WipeHost, RowsAreOwned, Exists, Statuses
    <2> QED BY <1>2, <1>idle, <2>1, <2>2
  <1> QED BY <1>1, <1>3, <1>4, <1>5, <1>6, <1>7, <1>8 DEF Write

LEMMA RemovalStep ==
    TypeOK /\ RowsAreOwned /\ RemovalInv /\ [Next]_vars => RemovalInv'
  <1>1. TypeOK /\ RowsAreOwned /\ RemovalInv /\ UNCHANGED vars => RemovalInv'
    BY DEF vars, RemovalInv
  <1> QED BY <1>1, RemovalAsk, RemovalWrite DEF Next, Slots

(* The three invariants, as one.                                           *)
Inv == TypeOK /\ RowsAreOwned /\ RemovalInv

LEMMA Invariant == Spec => []Inv
  BY TypeInit, TypeStep, OwnedInit, OwnedStep, RemovalInit, RemovalStep, PTL
     DEF Spec, Inv

-----------------------------------------------------------------------------
(* Every handler step is a step of the contract or leaves it alone.        *)
LEMMA ContractInit == Init => Contract!Init
  <1> SUFFICES ASSUME Init PROVE Contract!Init
    OBVIOUS
  <1>1. \A i \in Instances : row[i] = "none"
    BY DEF Init
  <1>2. phase = [i \in Instances |-> "none"]
    BY <1>1 DEF phase
  <1> QED BY <1>2 DEF Init, Contract!Init

LEMMA ContractAsk ==
    ASSUME TypeOK, NEW s \in Slots, UserAsks(s) \/ AgentAsks(s)
    PROVE  [Contract!Next]_(Contract!contractVars)
  <1>1. phase' = phase
    BY AskShape DEF phase
  <1>2. ASSUME NEW i \in Instances, AskDelete(s, i) PROVE Contract!AskRemoval(i)
    <2>1. phase[i] = "live"
      BY <1>2 DEF AskDelete, phase, Exists, Statuses, Removed
    <2> QED BY <1>1, <1>2, <2>1 DEF AskDelete, Contract!AskRemoval
  <1>3. ASSUME AskHostRemoval(s) PROVE Contract!AskHost
    BY <1>1, <1>3 DEF AskHostRemoval, Contract!AskHost
  <1>4. ASSUME ~AskHostRemoval(s), \A i \in Instances : ~AskDelete(s, i)
        PROVE  UNCHANGED <<asked, hostAsked>>
    BY <1>4 DEF UserAsks, AgentAsks, AskCreate, AskStop, AskStart, AskFinalize,
       AskForcedRemoval, Report, PurgeComplete, RemovalComplete
  <1> QED BY <1>1, <1>2, <1>3, <1>4 DEF Contract!Next, Contract!contractVars

LEMMA ContractWrite ==
    ASSUME Inv, NEW s \in Slots, Write(s)
    PROVE  [Contract!Next]_(Contract!contractVars)
  <1> DEFINE c == call[s]
  <1> USE DEF Inv
  <1>0. c \in Calls /\ UNCHANGED <<asked, hostAsked>>
    BY DEF TypeOK, Write, Insert, SetStatus, DeleteRow, MarkRows, MarkHost,
       WipeRows, WipeHost
  <1>1. ASSUME \A i \in Instances : row'[i] # row[i] =>
                  Exists(i) /\ row'[i] \in Statuses
        PROVE  phase' = phase
    BY <1>1 DEF phase, Exists, Statuses, Removed
  <1>2. ASSUME NEW gone \in SUBSET Instances,
               \A i \in gone : Exists(i) /\ row'[i] \in Removed /\ (i \in asked \/ hostAsked),
               \A i \in Instances \ gone : row'[i] = row[i]
        PROVE  Contract!Remove(gone)
    <2>1. \A i \in gone : phase[i] = "live"
      BY <1>2 DEF phase, Exists, Statuses, Removed
    <2>2. phase' = [i \in Instances |-> IF i \in gone THEN "removed" ELSE phase[i]]
      BY <1>2 DEF phase, Removed
    <2> QED BY <1>0, <1>2, <2>1, <2>2 DEF Contract!Remove
  <1>3. CASE Insert(s)
    <2>1. c.inst \in Instances /\ row[c.inst] = "none"
      BY <1>3, <1>0, CallByOp DEF Insert, InsertCall, RemovalInv
    <2>2. CASE host = "gone"
      BY <1>0, <1>1, <1>3, <2>2 DEF Insert, Contract!contractVars
    <2>3. CASE host # "gone"
      <3>1. row' = [row EXCEPT ![c.inst] = "queued"]
        BY <1>3, <2>3 DEF Insert
      <3>2. phase[c.inst] = "none" /\ phase' = [phase EXCEPT ![c.inst] = "live"]
        BY <2>1, <3>1 DEF phase, Removed, TypeOK
      <3> QED BY <1>0, <2>1, <3>2 DEF Contract!Appear, Contract!Next
    <2> QED BY <2>2, <2>3
  <1>4. CASE SetStatus(s)
    <2>1. c.to \in Statuses
      BY <1>4, <1>0, CallByOp DEF SetStatus, UserSetCall, ReportCall, Statuses, Reportable
    <2>2. \A i \in Instances : row'[i] # row[i] => Exists(i) /\ row'[i] \in Statuses
      BY <1>4, <2>1 DEF SetStatus, RowsAreOwned, TypeOK
    <2> QED BY <1>0, <1>1, <2>2 DEF Contract!contractVars
  <1>5. CASE DeleteRow(s)
    <2>1. c.inst \in Instances /\ (c.inst \in asked \/ hostAsked)
      BY <1>5, <1>0, CallByOp DEF DeleteRow, DeleteCall, RemovalInv
    <2>2. CASE row' = row
      BY <1>0, <1>1, <2>2 DEF Contract!contractVars
    <2>3. CASE row' # row
      <3>1. Exists(c.inst) /\ row'[c.inst] \in Removed
            /\ \A i \in Instances \ {c.inst} : row'[i] = row[i]
        BY <1>5, <2>1, <2>3 DEF DeleteRow, RowsAreOwned, TypeOK, Removed
      <3>2. Contract!Remove({c.inst})
        BY <1>2, <2>1, <3>1
      <3> QED BY <2>1, <3>2 DEF Contract!Next
    <2> QED BY <2>2, <2>3
  <1>6. CASE MarkRows(s)
    BY <1>0, <1>1, <1>6 DEF MarkRows, RowsAreOwned, Statuses, Contract!contractVars
  <1>7. CASE MarkHost(s) \/ WipeRows(s)
    BY <1>0, <1>1, <1>7 DEF MarkHost, WipeRows, Contract!contractVars
  <1>8. CASE WipeHost(s)
    <2>1. c \in WipedCall /\ c.rows \subseteq onHost /\ hostAsked
      BY <1>8, <1>0, CallByOp DEF WipeHost, RowsAreOwned, RemovalInv
    <2>2. row' = [i \in Instances |-> IF i \in c.rows THEN c.as ELSE row[i]]
      BY <1>8 DEF WipeHost
    <2>3. Contract!Remove(c.rows)
      BY <1>2, <2>1, <2>2 DEF WipedCall, RowsAreOwned
    <2> QED BY <2>1, <2>3 DEF Contract!Next, WipedCall
  <1> QED BY <1>3, <1>4, <1>5, <1>6, <1>7, <1>8 DEF Write

LEMMA ContractStep == Inv /\ [Next]_vars => [Contract!Next]_(Contract!contractVars)
  <1>1. UNCHANGED vars => UNCHANGED Contract!contractVars
    BY DEF vars, Contract!contractVars, phase
  <1> QED BY <1>1, ContractAsk, ContractWrite DEF Next, Slots, Inv

(* The handlers implement the removal contract: whatever overlaps, a row   *)
(* goes only after a user asked for it, and an id never comes back.        *)
THEOREM ContractHolds == Spec => ImplementsContract
  BY Invariant, ContractInit, ContractStep, PTL DEF Spec, ImplementsContract, Contract!Spec

-----------------------------------------------------------------------------
(***************************************************************************)
(* Requests served one at a time.                                          *)
(***************************************************************************)

(* The write the one handler in service has decided on is still legal for  *)
(* the row as it is now.                                                   *)
Legal(c) ==
    /\ c.op = "insert" => row[c.inst] = "none"
    /\ c.op = "set" =>
          /\ c.to = "stopping" => row[c.inst] \in {"running", "recovering"}
          /\ c.to = "starting" => row[c.inst] = "stopped"
    /\ c.op = "report" => <<row[c.inst], c.to>> \in ReportTransitions

SerialInv ==
    /\ TypeOK
    /\ \A s, t \in Slots : s # t => call[s] = Idle \/ call[t] = Idle
    /\ \A s \in Slots : Legal(call[s])

LEMMA SerialInit == Init => SerialInv
  BY TypeInit DEF Init, SerialInv, Legal, Idle

LEMMA SerialAsk ==
    ASSUME SerialInv, NEW s \in Slots, Alone(s), UserAsks(s) \/ AgentAsks(s)
    PROVE  SerialInv' /\ UNCHANGED row
  <1>1. TypeOK' /\ UNCHANGED <<row, onHost, host>>
    BY AskShape DEF SerialInv, TypeOK
  <1>2. PICK c \in Calls : call' = [call EXCEPT ![s] = c] /\ Legal(c)
    <2>1. ASSUME NEW i \in Instances, AskCreate(s, i)
          PROVE  Legal([op |-> "insert", inst |-> i])
      BY <2>1 DEF AskCreate, Legal
    <2>2. ASSUME NEW i \in Instances, NEW to,
                 \/ AskStop(s, i) /\ to = "stopping"
                 \/ AskStart(s, i) /\ to = "starting"
                 \/ AskDelete(s, i) /\ to = "pending_delete"
          PROVE  Legal([op |-> "set", inst |-> i, to |-> to])
      BY <2>2 DEF AskStop, AskStart, AskDelete, Legal
    <2>3. ASSUME NEW i \in Instances, NEW next \in Reportable, Report(s, i, next)
          PROVE  Legal([op |-> "report", inst |-> i, to |-> next])
      BY <2>3 DEF Report, Accepts, Legal
    <2>4. ASSUME NEW c \in DeleteCall \cup HostCall \cup WipeCall PROVE Legal(c)
      BY DEF Legal, DeleteCall, HostCall, WipeCall
    <2>5. ASSUME NEW i \in Instances,
                 AskCreate(s, i) \/ AskStop(s, i) \/ AskStart(s, i) \/ AskDelete(s, i)
          PROVE  \E c \in Calls : call' = [call EXCEPT ![s] = c] /\ Legal(c)
      BY <2>1, <2>2, <2>5 DEF AskCreate, AskStop, AskStart, AskDelete, Decide, Calls,
         InsertCall, UserSetCall
    <2>6. ASSUME NEW i \in Instances, NEW next \in Reportable, Report(s, i, next)
          PROVE  \E c \in Calls : call' = [call EXCEPT ![s] = c] /\ Legal(c)
      BY <2>3, <2>6 DEF Report, Decide, Calls, ReportCall
    <2>7. ASSUME NEW i \in Instances, AskFinalize(s, i) \/ PurgeComplete(s, i)
          PROVE  \E c \in Calls : call' = [call EXCEPT ![s] = c] /\ Legal(c)
      BY <2>4, <2>7 DEF AskFinalize, PurgeComplete, Decide, Calls, DeleteCall
    <2>8. ASSUME AskHostRemoval(s) \/ AskForcedRemoval(s) \/ RemovalComplete(s)
          PROVE  \E c \in Calls : call' = [call EXCEPT ![s] = c] /\ Legal(c)
      BY <2>4, <2>8 DEF AskHostRemoval, AskForcedRemoval, RemovalComplete, Decide,
         Calls, HostCall, WipeCall, Removed
    <2> QED BY <2>5, <2>6, <2>7, <2>8 DEF UserAsks, AgentAsks
  <1>3. \A t \in Slots \ {s} : call'[t] = Idle
    BY <1>2 DEF Alone, SerialInv, TypeOK
  <1> QED BY <1>1, <1>2, <1>3 DEF SerialInv, TypeOK, Legal, Idle

(* What a write may do to one row.                                         *)
Allowed(from, to) ==
    \/ to = from
    \/ to \in {"pending_delete"} \cup Removed
    \/ from = "none"
    \/ from \in {"running", "recovering"} /\ to = "stopping"
    \/ from = "stopped" /\ to = "starting"
    \/ <<from, to>> \in ReportTransitions

LEMMA SerialWrite ==
    ASSUME SerialInv, NEW s \in Slots, Write(s)
    PROVE  SerialInv' /\ \A i \in Instances : Allowed(row[i], row'[i])
  <1> DEFINE c == call[s]
  <1>1. TypeOK' /\ c \in Calls /\ c # Idle
    <2>1. TypeOK'
      BY TypeStep DEF Next, SerialInv
    <2>2. c.op # "idle"
      BY DEF Write, Insert, SetStatus, DeleteRow, MarkRows, MarkHost, WipeRows, WipeHost
    <2> QED BY <2>1, <2>2 DEF SerialInv, TypeOK, Idle
  <1>2. PICK next \in Calls : call' = [call EXCEPT ![s] = next]
                              /\ next.op \in {"idle", "markHost", "wiped"}
    <2>1. CASE WipeRows(s)
      <3>1. [op |-> "wiped", as |-> c.as, rows |-> onHost] \in Calls
        BY <1>1, <2>1, CallByOp
           DEF WipeRows, WipeCall, WipedCall, Calls, SerialInv, TypeOK
      <3> QED BY <2>1, <3>1 DEF WipeRows
    <2>2. CASE MarkRows(s)
      <3>1. [op |-> "markHost"] \in Calls
        BY DEF Calls, HostCall
      <3> QED BY <2>2, <3>1 DEF MarkRows
    <2>3. CASE ~WipeRows(s) /\ ~MarkRows(s)
      <3>1. call' = [call EXCEPT ![s] = Idle]
        BY <2>3 DEF Write, Insert, SetStatus, DeleteRow, MarkHost, WipeHost, Return
      <3>2. Idle \in Calls /\ Idle.op = "idle"
        BY DEF Calls, Idle
      <3> QED BY <3>1, <3>2
    <2> QED BY <2>1, <2>2, <2>3
  <1>3. \A t \in Slots \ {s} : call'[t] = Idle
    BY <1>1, <1>2 DEF SerialInv, TypeOK
  <1>4. SerialInv'
    BY <1>1, <1>2, <1>3 DEF SerialInv, TypeOK, Legal, Idle
  <1>5. ASSUME NEW i \in Instances PROVE Allowed(row[i], row'[i])
    <2>1. Legal(c)
      BY DEF SerialInv
    <2>2. CASE Insert(s)
      BY <1>1, <2>1, <2>2, CallByOp DEF Insert, InsertCall, Legal, Allowed, SerialInv, TypeOK
    <2>3. CASE SetStatus(s)
      <3>1. c \in UserSetCall \cup ReportCall
        BY <1>1, <2>3, CallByOp DEF SetStatus
      <3>2. row'[i] = row[i] \/ (i = c.inst /\ row'[i] = c.to)
        BY <2>3, <3>1 DEF SetStatus, SerialInv, TypeOK, UserSetCall, ReportCall
      <3>3. Allowed(row[c.inst], c.to)
        BY <2>1, <3>1 DEF Legal, Allowed, UserSetCall, ReportCall
      <3> QED BY <3>2, <3>3 DEF Allowed
    <2>4. CASE DeleteRow(s)
      BY <2>4 DEF DeleteRow, Allowed, SerialInv, TypeOK, Removed
    <2>5. CASE MarkRows(s)
      BY <2>5 DEF MarkRows, Allowed
    <2>6. CASE MarkHost(s) \/ WipeRows(s)
      BY <2>6 DEF MarkHost, WipeRows, Allowed
    <2>7. CASE WipeHost(s)
      BY <1>1, <2>7, CallByOp DEF WipeHost, WipedCall, Allowed
    <2> QED BY <2>2, <2>3, <2>4, <2>5, <2>6, <2>7 DEF Write
  <1> QED BY <1>4, <1>5

(* No step but an allowed one: what was asked for last stands.             *)
LEMMA AllowedIsIntended ==
    ASSUME NEW from \in RowStates, NEW to, Allowed(from, to)
    PROVE  /\ from = "pending_delete" => to \in {"pending_delete"} \cup Removed
           /\ from = "stopping" =>
                 to \in {"stopping", "stopped", "pending_delete"} \cup Removed
           /\ from = "starting" =>
                 to \in {"starting", "running", "failed", "pending_delete"} \cup Removed
  BY DEF Allowed, ReportTransitions

LEMMA SerialStep ==
    ASSUME SerialInv, [SerialNext]_vars
    PROVE  SerialInv' /\ \A i \in Instances : Allowed(row[i], row'[i])
  <1>1. CASE UNCHANGED vars
    BY <1>1 DEF vars, SerialInv, TypeOK, Legal, Allowed
  <1>2. ASSUME NEW s \in Slots, Alone(s), UserAsks(s) \/ AgentAsks(s)
        PROVE  SerialInv' /\ \A i \in Instances : Allowed(row[i], row'[i])
    BY <1>2, SerialAsk DEF Allowed
  <1> QED BY <1>1, <1>2, SerialWrite DEF SerialNext, Slots

(* The status tables of the handlers are right: when no two requests       *)
(* overlap, nothing overwrites a queued deletion, stop or start.           *)
THEOREM SerialIntent == MixSpec => IntentSticks
  <1> DEFINE AloneInv == alone => SerialInv
  <1>1. MixInit => AloneInv
    BY SerialInit DEF MixInit
  <1>2. ASSUME AloneInv, [MixNext]_mixVars PROVE AloneInv'
    <2> SUFFICES ASSUME alone PROVE SerialInv' /\ alone' = alone
      BY <1>2 DEF MixNext, mixVars
    <2>1. [SerialNext]_vars /\ alone' = alone
      BY <1>2 DEF MixNext, mixVars
    <2> QED BY <1>2, <2>1, SerialStep
  <1>3. ASSUME AloneInv, [MixNext]_mixVars PROVE [alone => KeepsIntent]_mixVars
    <2> SUFFICES ASSUME alone PROVE KeepsIntent
      OBVIOUS
    <2>1. [SerialNext]_vars
      BY <1>3 DEF MixNext, mixVars
    <2>2. \A i \in Instances : Allowed(row[i], row'[i])
      BY <1>3, <2>1, SerialStep
    <2> QED BY <1>3, <2>2, AllowedIsIntended DEF KeepsIntent, SerialInv, TypeOK
  <1> QED BY <1>1, <1>2, <1>3, PTL DEF MixSpec, IntentSticks
=============================================================================
