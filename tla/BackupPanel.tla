---------------------------- MODULE BackupPanel ----------------------------
(***************************************************************************)
(* The backup panel of a host's page: one form with two halves, a storage  *)
(* half and a policy half, that creates rows or edits the row it was       *)
(* filled from; the lists below it; and the requests it sends, which the   *)
(* flag busy is meant to keep apart.  Deleting a run is not held back by   *)
(* busy, and clears it when it ends.  Another tab may change every row.    *)
(*                                                                         *)
(* The content of a half is the row it was filled from: what the user then *)
(* types belongs to that row.  The host is reachable, the forms are valid, *)
(* and the kind of a destination is not switched by hand.  A list of the   *)
(* panel is a copy of the rows at some earlier time.                       *)
(***************************************************************************)
EXTENDS Naturals, FiniteSets

CONSTANTS
    PanelDests,     \* destination rows
    PanelPolicies,  \* policy rows
    MaxPanelCalls   \* bound: requests of the panel and changes in other tabs

ASSUME PanelAssumption ==
    /\ MaxPanelCalls \in Nat
    /\ PanelDests \cap PanelPolicies = {}
    /\ {"new", "blank", "none"} \cap (PanelDests \cup PanelPolicies) = {}

VARIABLES
    destRow,        \* destination -> "none", "on", "off"; ids are not reused
    policyRow,      \* policy -> its row, or NoPolicy
    spent,          \* ids that have been given to a row
    shownDest, shownPolicy,     \* the lists of the panel
    destForm,       \* the storage half of the form
    policyForm,     \* its policy half
    manual,         \* destination chosen under "Manual actions", or "none"
    panelBusy,
    panelCalls,     \* requests in flight
    sent            \* requests and changes so far

panelVars == <<destRow, policyRow, spent, shownDest, shownPolicy, destForm,
               policyForm, manual, panelBusy, panelCalls, sent>>
rowsOfPanel == <<destRow, policyRow, spent>>
lists == <<shownDest, shownPolicy>>
panelForm == <<destForm, policyForm>>

NoPolicy == [dest |-> "none", on |-> FALSE]
PolicyRows == [dest : PanelDests, on : BOOLEAN] \cup {NoPolicy}

(* The row that a half edits (editingDestinationId, editingPolicyId), the  *)
(* row its content is from, and the enabled flag, which no field shows; of *)
(* a policy also its destination, or the one it is to be added to.         *)
DestForms == [id : PanelDests \cup {"new"}, from : PanelDests \cup {"blank"},
              on : BOOLEAN]
PolicyForms == [id : PanelPolicies \cup {"new"},
                from : PanelPolicies \cup {"blank"},
                dest : PanelDests \cup {"none"}, on : BOOLEAN]

(* resetDestinationForm.                                                   *)
BlankDest == [id |-> "new", from |-> "blank", on |-> TRUE]
BlankPolicy == [id |-> "new", from |-> "blank", dest |-> "none", on |-> TRUE]

PanelOps == {"saveDest", "savePolicy", "addPolicy", "test", "run", "dropDest",
             "setDest", "dropPolicy", "setPolicy", "dropRun"}

(* The id of a request is the row it is about.                             *)
Request(op, id, from, dest, on) ==
    [op |-> op, id |-> id, from |-> from, dest |-> dest, on |-> on,
     answer |-> "none", editing |-> destForm.id, n |-> sent]

PanelTypeOK ==
    /\ destRow \in [PanelDests -> {"none", "on", "off"}]
    /\ policyRow \in [PanelPolicies -> PolicyRows]
    /\ spent \subseteq PanelDests \cup PanelPolicies
    /\ shownDest \in [PanelDests -> {"none", "on", "off"}]
    /\ shownPolicy \in [PanelPolicies -> PolicyRows]
    /\ destForm \in DestForms /\ policyForm \in PolicyForms
    /\ manual \in PanelDests \cup {"none"}
    /\ panelBusy \in BOOLEAN /\ sent \in 0..MaxPanelCalls
    /\ \A c \in panelCalls : c.op \in PanelOps /\ c.answer \in {"none", "ok", "error"}

PanelInit ==
    /\ destRow \in [PanelDests -> {"none", "on"}]
    /\ policyRow \in [PanelPolicies -> PolicyRows]
    /\ \A p \in PanelPolicies :
          policyRow[p] # NoPolicy => destRow[policyRow[p].dest] # "none"
    /\ spent = {d \in PanelDests : destRow[d] # "none"}
               \cup {p \in PanelPolicies : policyRow[p] # NoPolicy}
    /\ shownDest = destRow /\ shownPolicy = policyRow
    /\ destForm = BlankDest /\ policyForm = BlankPolicy /\ manual = "none"
    /\ panelBusy = FALSE /\ panelCalls = {} /\ sent = 0

-----------------------------------------------------------------------------
(***************************************************************************)
(* The user fills the form.                                                *)
(***************************************************************************)
Fills(d, p) ==
    /\ ~panelBusy /\ destForm' = d /\ policyForm' = p
    /\ UNCHANGED <<rowsOfPanel, lists, manual, panelBusy, panelCalls, sent>>

(* beginEditDestination: the policy half is cleared and locked.            *)
EditDestination(d) ==
    /\ shownDest[d] # "none"
    /\ Fills([id |-> d, from |-> d, on |-> shownDest[d] = "on"], BlankPolicy)

(* beginEditPolicy: the storage half keeps what it holds.                  *)
EditPolicy(p) ==
    /\ shownPolicy[p] # NoPolicy /\ shownDest[shownPolicy[p].dest] = "on"
    /\ Fills([destForm EXCEPT !.id = "new"],
             [id |-> p, from |-> p, dest |-> shownPolicy[p].dest,
              on |-> shownPolicy[p].on])

CancelEdit == destForm.id # "new" /\ Fills(BlankDest, BlankPolicy)

(* "Destination for new policy", a field while no row is edited.  (A       *)
(* choice, like every field, may be made while busy.)                      *)
ChoosePolicyDest(d) ==
    /\ destForm.id = "new" /\ policyForm.id = "new" /\ shownDest[d] = "on"
    /\ policyForm' = [policyForm EXCEPT !.dest = d]
    /\ UNCHANGED <<rowsOfPanel, lists, destForm, manual, panelBusy, panelCalls, sent>>

ChooseManual(d) ==
    /\ shownDest[d] = "on" /\ manual' = d
    /\ UNCHANGED <<rowsOfPanel, lists, panelForm, panelBusy, panelCalls, sent>>

-----------------------------------------------------------------------------
(***************************************************************************)
(* The user presses a button: one request, with the values of the moment.  *)
(***************************************************************************)
Sends(c) ==
    /\ sent < MaxPanelCalls /\ sent' = sent + 1
    /\ panelCalls' = panelCalls \cup {c} /\ panelBusy' = TRUE
    /\ UNCHANGED <<rowsOfPanel, lists, panelForm, manual>>

SaveDestination ==
    /\ ~panelBusy
    /\ Sends(Request("saveDest", destForm.id, destForm.from, "none", destForm.on))

(* Offered when a policy is edited, and no destination.                    *)
SavePolicyOnly ==
    /\ ~panelBusy /\ policyForm.id # "new" /\ destForm.id = "new"
    /\ shownDest[policyForm.dest] = "on"
    /\ Sends(Request("savePolicy", policyForm.id, policyForm.from,
                     policyForm.dest, policyForm.on))

CreatePolicyOnly ==
    /\ ~panelBusy /\ policyForm.id = "new" /\ destForm.id = "new"
    /\ policyForm.dest # "none" /\ shownDest[policyForm.dest] = "on"
    /\ Sends(Request("addPolicy", "new", policyForm.from, policyForm.dest, TRUE))

TestConnection ==
    /\ ~panelBusy
    /\ destForm.id # "new" => shownDest[destForm.id] = "on"
    /\ Sends(Request("test", "new", destForm.from, "none", TRUE))

(* runBackup and runRestore.                                               *)
RunManual ==
    /\ ~panelBusy /\ manual # "none"
    /\ Sends(Request("run", "new", "blank", manual, TRUE))

DeleteDestination(d) ==
    ~panelBusy /\ shownDest[d] # "none" /\ Sends(Request("dropDest", d, "blank", "none", TRUE))

ToggleDestination(d) ==
    /\ ~panelBusy /\ shownDest[d] # "none"
    /\ Sends(Request("setDest", d, "blank", "none", shownDest[d] = "off"))

DeletePolicy(p) ==
    /\ ~panelBusy /\ shownPolicy[p] # NoPolicy
    /\ Sends(Request("dropPolicy", p, "blank", "none", TRUE))

TogglePolicy(p) ==
    /\ ~panelBusy /\ shownPolicy[p] # NoPolicy
    /\ Sends(Request("setPolicy", p, "blank", "none", ~shownPolicy[p].on))

(* The button is not disabled while busy.                                  *)
DeleteListedRun == Sends(Request("dropRun", "new", "blank", "none", TRUE))

-----------------------------------------------------------------------------
(***************************************************************************)
(* The control plane serves a request.                                     *)
(***************************************************************************)
OnOff(on) == IF on THEN "on" ELSE "off"

WithoutDest(d) == [p \in PanelPolicies |-> IF policyRow[p].dest = d THEN NoPolicy
                                           ELSE policyRow[p]]

(* upsertHostBackupPolicy: the policy of the pair, of which the panel does *)
(* not know, or a new row.                                                 *)
PolicyOfPair(d) ==
    {p \in PanelPolicies : policyRow[p].dest = d \/ p \notin spent}

(* What the request does to the rows, when it is not refused.  An update   *)
(* of a destination that is gone changes nothing and is answered ok.       *)
Writes(c) ==
    \/ /\ c.op = "saveDest" /\ c.id # "new"
       /\ destRow' = IF destRow[c.id] = "none" THEN destRow
                     ELSE [destRow EXCEPT ![c.id] = OnOff(c.on)]
       /\ UNCHANGED <<policyRow, spent>>
    \/ /\ c.op = "saveDest" /\ c.id = "new"
       /\ \E d \in PanelDests \ spent, p \in PanelPolicies \ spent :
             /\ destRow' = [destRow EXCEPT ![d] = OnOff(c.on)]
             /\ policyRow' = [policyRow EXCEPT ![p] = [dest |-> d, on |-> c.on]]
             /\ spent' = spent \cup {d, p}
    \/ /\ c.op = "savePolicy" /\ destRow[c.dest] = "on" /\ policyRow[c.id] # NoPolicy
       /\ policyRow' = [policyRow EXCEPT ![c.id] = [dest |-> c.dest, on |-> c.on]]
       /\ UNCHANGED <<destRow, spent>>
    \/ /\ c.op = "addPolicy" /\ destRow[c.dest] = "on"
       /\ \E p \in PolicyOfPair(c.dest) :
             /\ policyRow' = [policyRow EXCEPT ![p] = [dest |-> c.dest, on |-> TRUE]]
             /\ spent' = spent \cup {p}
       /\ UNCHANGED destRow
    \/ /\ c.op = "dropDest" /\ destRow[c.id] # "none"
       /\ destRow' = [destRow EXCEPT ![c.id] = "none"]
       /\ policyRow' = WithoutDest(c.id)
       /\ UNCHANGED spent
    \/ /\ c.op = "setDest" /\ destRow[c.id] # "none"
       /\ destRow' = [destRow EXCEPT ![c.id] = OnOff(c.on)]
       /\ UNCHANGED <<policyRow, spent>>
    \/ /\ c.op = "dropPolicy" /\ policyRow[c.id] # NoPolicy
       /\ policyRow' = [policyRow EXCEPT ![c.id] = NoPolicy]
       /\ UNCHANGED <<destRow, spent>>
    \/ /\ c.op = "setPolicy" /\ policyRow[c.id] # NoPolicy
       /\ policyRow' = [policyRow EXCEPT ![c.id].on = c.on]
       /\ UNCHANGED <<destRow, spent>>
    \/ /\ \/ c.op \in {"test", "dropRun"}
          \/ c.op = "run" /\ destRow[c.dest] = "on"
       /\ UNCHANGED <<destRow, policyRow, spent>>

(* Refused: no such row, a disabled destination, runs in flight, no agent, *)
(* the unique index on destination and server; or the database fails.      *)
ServePanel(c) ==
    /\ c.answer = "none"
    /\ \/ Writes(c) /\ panelCalls' = (panelCalls \ {c}) \cup {[c EXCEPT !.answer = "ok"]}
       \/ /\ panelCalls' = (panelCalls \ {c}) \cup {[c EXCEPT !.answer = "error"]}
          /\ UNCHANGED <<destRow, policyRow, spent>>
    /\ UNCHANGED <<lists, panelForm, manual, panelBusy, sent>>

(* Another tab, or the purge of a server, changes a row.                   *)
OtherTab ==
    /\ sent < MaxPanelCalls /\ sent' = sent + 1
    /\ \/ \E d \in PanelDests :
             /\ destRow[d] # "none"
             /\ \/ \E on \in BOOLEAN : destRow' = [destRow EXCEPT ![d] = OnOff(on)]
                                       /\ UNCHANGED policyRow
                \/ destRow' = [destRow EXCEPT ![d] = "none"] /\ policyRow' = WithoutDest(d)
       \/ \E p \in PanelPolicies :
             /\ policyRow[p] # NoPolicy
             /\ policyRow' = [policyRow EXCEPT ![p] = NoPolicy]
             /\ UNCHANGED destRow
    /\ UNCHANGED <<spent, lists, panelForm, manual, panelBusy, panelCalls>>

-----------------------------------------------------------------------------
(***************************************************************************)
(* The answers, and the lists.                                             *)
(***************************************************************************)

(* load: the lists are replaced, and two effects forget a choice that the  *)
(* list no longer offers.                                                  *)
PolicyLoaded(p) ==
    IF p.id = "new" /\ p.dest # "none" /\ destRow[p.dest] # "on"
    THEN [p EXCEPT !.dest = "none"] ELSE p
ManualLoaded(m) == IF m # "none" /\ destRow[m] # "on" THEN "none" ELSE m

Loads(d, p) ==
    /\ shownDest' = destRow /\ shownPolicy' = policyRow
    /\ destForm' = d /\ policyForm' = PolicyLoaded(p)
    /\ manual' = ManualLoaded(manual)

(* What clears the form: a created row, a saved policy, and the end of the *)
(* destination that was edited when the button was pressed.                *)
Clears(c) ==
    \/ c.op \in {"savePolicy", "addPolicy"}
    \/ c.op = "saveDest" /\ c.id = "new"
    \/ c.op = "dropDest" /\ c.editing = c.id

(* Mutant: a saved policy stays selected for editing.                      *)
PolicyAfterKeepsPolicy(c) ==
    IF c.op = "savePolicy" THEN [policyForm EXCEPT !.from = "blank"]
    ELSE IF Clears(c) THEN BlankPolicy ELSE policyForm

DestAfter(c) == IF Clears(c) THEN BlankDest ELSE destForm
PolicyAfter(c) == IF Clears(c) THEN BlankPolicy ELSE policyForm

AnswerPanel(c) ==
    /\ c.answer # "none"
    /\ panelCalls' = panelCalls \ {c} /\ panelBusy' = FALSE
    /\ IF c.answer = "ok" THEN Loads(DestAfter(c), PolicyAfter(c))
       ELSE UNCHANGED <<lists, panelForm, manual>>
    /\ UNCHANGED <<rowsOfPanel, sent>>

(* The request or its answer is lost: only busy is cleared.                *)
LosePanelCall(c) ==
    /\ panelCalls' = panelCalls \ {c} /\ panelBusy' = FALSE
    /\ UNCHANGED <<rowsOfPanel, lists, panelForm, manual, sent>>

(* An event of the host has the panel load again.                          *)
Reload ==
    /\ Loads(destForm, policyForm)
    /\ UNCHANGED <<rowsOfPanel, panelBusy, panelCalls, sent>>

PanelNext ==
    \/ \E d \in PanelDests :
          \/ EditDestination(d) \/ ChoosePolicyDest(d) \/ ChooseManual(d)
          \/ DeleteDestination(d) \/ ToggleDestination(d)
    \/ \E p \in PanelPolicies : EditPolicy(p) \/ DeletePolicy(p) \/ TogglePolicy(p)
    \/ CancelEdit \/ SaveDestination \/ SavePolicyOnly \/ CreatePolicyOnly
    \/ TestConnection \/ RunManual \/ DeleteListedRun
    \/ \E c \in panelCalls : ServePanel(c) \/ AnswerPanel(c) \/ LosePanelCall(c)
    \/ OtherTab \/ Reload

PanelSpec == PanelInit /\ [][PanelNext]_panelVars

-----------------------------------------------------------------------------
(* Whatever the user edits, saves, toggles and deletes, in however many    *)
(* tabs and with however many requests under way, a request that updates a *)
(* row carries content filled from that row, and a manual backup goes to a *)
(* destination the list shows enabled.                                     *)
FormsStayApart ==
    [][\A c \in panelCalls' \ panelCalls :
          c.answer = "none" =>
             /\ c.op \in {"saveDest", "savePolicy"} /\ c.id # "new" => c.from = c.id
             /\ c.op = "run" => shownDest[c.dest] = "on"]_panelVars
=============================================================================
