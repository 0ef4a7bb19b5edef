--------------------------- MODULE PortAllocation ---------------------------
(***************************************************************************)
(* The (game, query) ports of the servers of one host: chosen by POST      *)
(* /api/instances from the rows it has read, and moved by the agent at a   *)
(* launch when something else has bound them.                              *)
(*                                                                         *)
(* The agent's probe binds the ports and gives them up again; the game is  *)
(* started with them later, binds them later still, and the row is told    *)
(* when the launch is over.                                                *)
(***************************************************************************)
EXTENDS Naturals, FiniteSets, FiniteSetsExt

CONSTANTS
    Instances,      \* server rows
    Creators,       \* create requests served concurrently
    Bases,          \* defaultPorts.game, by catalog entry; query follows it
    Strides,        \* defaultPorts.stride, by catalog entry
    Tries,          \* 10000 in the allocator
    Probes,         \* 200 in the agent's probe
    MaxForeign,     \* bound: ports bound by other programs at a time
    MaxStarts       \* bound: launches

ASSUME PortAssumption ==
    /\ Bases \subseteq Nat \ {0} /\ Bases # {} /\ Strides \subseteq Nat \ {0}
    /\ Tries \in Nat \ {0} /\ Probes \in Nat \ {0} /\ MaxForeign \in Nat
    /\ MaxStarts \in Nat

VARIABLES
    ports,          \* server -> game port of its row, 0 without a row
    creating,       \* creator -> the ports it found in use
    given,          \* server -> game port its launch chose, 0 when stopped
    bound,          \* servers whose process has bound its pair
    foreign,        \* ports other programs have
    moved,          \* history: a probe moved a server, or creates overlapped
    starts,         \* launches so far
    raced           \* history: what a probe found free another launch could
                    \* choose, or a program take, before the game bound it;
                    \* or the probe found nothing

portVars == <<ports, creating, given, bound, foreign, moved, starts,
              raced>>

Pair(game) == {game, game + 1}
Taken(row) == UNION {Pair(row[s]) : s \in {s \in Instances : row[s] # 0}}
HeldPorts == UNION {Pair(given[s]) : s \in bound}
Idle == [busy |-> FALSE, used |-> {}]
Steps == Max(Strides)
(* Each launch may move a server on, so only from below is there a bound.  *)
GamePorts == {n \in Nat : n >= Min(Bases)}

PortTypeOK ==
    /\ ports \in [Instances -> {0} \cup GamePorts]
    /\ given \in [Instances -> {0} \cup GamePorts]
    /\ bound \subseteq {s \in Instances : given[s] # 0}
    /\ \A c \in Creators : creating[c].busy \in BOOLEAN
    /\ Cardinality(foreign) <= MaxForeign
    /\ moved \in BOOLEAN /\ raced \in BOOLEAN
    /\ starts \in 0..MaxStarts

PortInit ==
    /\ ports = [s \in Instances |-> 0] /\ creating = [c \in Creators |-> Idle]
    /\ given = [s \in Instances |-> 0] /\ bound = {} /\ foreign = {}
    /\ moved = FALSE /\ raced = FALSE /\ starts = 0

(* Mutant: only the game port is looked at.                                *)
FitsGame(used, start, stride, k) == start + k * stride \notin used

(* allocateNextPortSet and resolvePortsWithLocalProbe: the first pair free *)
(* of the ports in use, moving both ports by the stride.                   *)
Fits(used, start, stride, k) == Pair(start + k * stride) \cap used = {}

FirstFits(used, start, stride, tries) ==
    LET fit == {k \in 0..(tries - 1) : Fits(used, start, stride, k)}
    IN IF fit = {} THEN 0 ELSE start + Min(fit) * stride

-----------------------------------------------------------------------------
(* The SELECT of the rows of the host ...                                  *)
ReadSiblings(c) ==
    /\ ~creating[c].busy
    /\ creating' = [creating EXCEPT ![c] = [busy |-> TRUE,
                                            used |-> Taken(ports)]]
    /\ moved' = (moved \/ \E d \in Creators : creating[d].busy)
    /\ UNCHANGED <<ports, given, bound, foreign, raced, starts>>

(* ... and the INSERT, unless no pair is free.                             *)
InsertServer(c, s, base, stride) ==
    /\ creating[c].busy /\ ports[s] = 0
    /\ creating' = [creating EXCEPT ![c] = Idle]
    /\ ports' = [ports EXCEPT ![s] =
                    FirstFits(creating[c].used, base, stride, Tries)]
    /\ UNCHANGED <<given, bound, foreign, moved, raced, starts>>

RemoveServer(s) ==
    /\ ports[s] # 0 /\ given[s] = 0 /\ ports' = [ports EXCEPT ![s] = 0]
    /\ UNCHANGED <<creating, given, bound, foreign, moved, raced, starts>>

(* Mutant: the ports of the row are used as they are.                      *)
LaunchUnprobed(s, stride) ==
    /\ ports[s] # 0 /\ given[s] = 0
    /\ starts < MaxStarts /\ starts' = starts + 1
    /\ given' = [given EXCEPT ![s] = ports[s]]
    /\ raced' = (raced \/ \E t \in Instances \ bound : given[t] # 0)
    /\ UNCHANGED <<ports, creating, bound, foreign, moved>>

(* The probe of a launch: the first pair nobody has bound is what the game *)
(* will be started with.  When none of the pairs is free it is the one of  *)
(* the row.                                                                *)
LaunchServer(s, stride) ==
    /\ ports[s] # 0 /\ given[s] = 0
    /\ starts < MaxStarts /\ starts' = starts + 1
    /\ LET free == FirstFits(foreign \cup HeldPorts, ports[s], stride, Probes)
       IN /\ given' = [given EXCEPT ![s] = IF free = 0 THEN ports[s] ELSE free]
          /\ moved' = (moved \/ free \notin {0, ports[s]})
          /\ raced' = (raced \/ free = 0
                          \/ \E t \in Instances \ bound : given[t] # 0)
    /\ UNCHANGED <<ports, creating, bound, foreign>>

(* The game binds the pair it was started with, if it is still free.       *)
BindPorts(s) ==
    /\ given[s] # 0 /\ s \notin bound
    /\ Pair(given[s]) \cap (foreign \cup HeldPorts) = {}
    /\ bound' = bound \cup {s}
    /\ UNCHANGED <<ports, creating, given, foreign, moved, raced, starts>>

(* The status posted after the launch, if it arrives, writes the pair to   *)
(* the row, whatever the other rows say and whether or not the game has it. *)
ReportPorts(s) ==
    /\ given[s] # 0 /\ ports' = [ports EXCEPT ![s] = given[s]]
    /\ UNCHANGED <<creating, given, bound, foreign, moved, raced, starts>>

StopServer(s) ==
    /\ given[s] # 0 /\ given' = [given EXCEPT ![s] = 0]
    /\ bound' = bound \ {s}
    /\ UNCHANGED <<ports, creating, foreign, moved, raced, starts>>

(* Another program takes or gives up a port; one that is stopped and has   *)
(* not ended yet is such a program.                                        *)
Foreign(p) ==
    /\ p \notin HeldPorts
    /\ foreign' = IF p \in foreign THEN foreign \ {p} ELSE foreign \cup {p}
    /\ Cardinality(foreign') <= MaxForeign
    /\ raced' = (raced \/ p \in Taken(given))
    /\ UNCHANGED <<ports, creating, given, bound, moved, starts>>

PortNext ==
    \/ \E c \in Creators :
          \/ ReadSiblings(c)
          \/ \E s \in Instances, base \in Bases, stride \in Strides :
                InsertServer(c, s, base, stride)
    \/ \E s \in Instances :
          \/ RemoveServer(s) \/ BindPorts(s) \/ ReportPorts(s) \/ StopServer(s)
          \/ \E stride \in Strides : LaunchServer(s, stride)
    \/ \E p \in Min(Bases)..(Max(Bases) + Steps) : Foreign(p)

PortSpec == PortInit /\ [][PortNext]_portVars

-----------------------------------------------------------------------------
Apart(row) ==
    \A s, t \in Instances :
       s # t /\ row[s] # 0 /\ row[t] # 0 => Pair(row[s]) \cap Pair(row[t]) = {}

(* The servers of one host have rows with ports of their own, and are      *)
(* started with them, also when catalog entries step differently and       *)
(* servers come and go - as long as creates do not overlap and no launch   *)
(* had to move.  Whatever the rows say, servers are started with ports of  *)
(* their own, and none another program has - as long as nothing comes      *)
(* between a probe and the bind of the game it was made for.               *)
PortsApart ==
    /\ ~moved => Apart(ports) /\ Apart(given)
    /\ ~raced => Apart(given) /\ Taken(given) \cap foreign = {}
=============================================================================
