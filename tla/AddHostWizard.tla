---------------------------- MODULE AddHostWizard ----------------------------
(***************************************************************************)
(* The wizard that adds a host: it creates the host, shows a pairing code  *)
(* and waits until the host has enrolled.  Nothing cancels a request when  *)
(* the wizard is closed: its answer is applied to whatever is open then.   *)
(***************************************************************************)
EXTENDS Naturals, FiniteSets

CONSTANTS
    NewHosts,       \* hosts that the wizard may create
    PairCodes,      \* pairing codes, each drawn at most once
    NoOne,          \* no host
    NoPair,         \* no code
    MaxOpenings,    \* bound: openings of the wizard
    MaxChecks,      \* bound: checks of the enrollment that overlap
    MaxLostCalls    \* bound: requests that fail

ASSUME WizardAssumption ==
    /\ NoOne \notin NewHosts /\ NoPair \notin PairCodes
    /\ {MaxOpenings, MaxChecks, MaxLostCalls} \subseteq Nat

VARIABLES
    newHost,    \* host -> "none", "pending", "online" (or enrolled before)
    hostCode,   \* host -> the code that its pairing code hash is of
    pairDrawn,      \* codes that were drawn
    opening,    \* number of this opening; 0: never opened
    form,       \* the fields of the component
    calls,      \* requests on their way
    late,       \* history: an answer came to another opening than its own
    lostCalls

controlPlane == <<newHost, hostCode, pairDrawn>>
wizardVars == <<controlPlane, opening, form, calls, late, lostCalls>>

(* step 1 stands for 1 and 2; timedOut only changes a text.                *)
Blank == [open |-> FALSE, step |-> 1, pending |-> FALSE, created |-> NoOne,
          code |-> NoPair, busy |-> FALSE, error |-> FALSE, enrolled |-> FALSE]

(* kind: "create", "code" of createHost or of New code, "check"; at: on    *)
(* its way to the server, or its answer on its way back.                   *)
Calls == [kind : {"create", "first", "again", "check"},
          host : NewHosts \cup {NoOne}, of : 1..MaxOpenings,
          at : {"sent", "ok", "refused"}, code : PairCodes \cup {NoPair}]

WizardTypeOK ==
    /\ newHost \in [NewHosts -> {"none", "pending", "online"}]
    /\ hostCode \in [NewHosts -> PairCodes \cup {NoPair}]
    /\ pairDrawn \subseteq PairCodes /\ opening \in 0..MaxOpenings
    /\ form.created \in NewHosts \cup {NoOne}
    /\ form.code \in PairCodes \cup {NoPair}
    /\ calls \subseteq Calls
    /\ late \in BOOLEAN /\ lostCalls \in 0..MaxLostCalls

WizardInit ==
    /\ newHost = [h \in NewHosts |-> "none"]
    /\ hostCode = [h \in NewHosts |-> NoPair] /\ pairDrawn = {}
    /\ opening = 0 /\ form = Blank /\ calls = {}
    /\ late = FALSE /\ lostCalls = 0

Call(kind, host) == [kind |-> kind, host |-> host, of |-> opening,
                     at |-> "sent", code |-> NoPair]

-----------------------------------------------------------------------------
(***************************************************************************)
(* The component.                                                          *)
(***************************************************************************)
Open ==
    /\ ~form.open /\ opening < MaxOpenings
    /\ opening' = opening + 1 /\ form' = [form EXCEPT !.open = TRUE]
    /\ UNCHANGED <<controlPlane, calls, late, lostCalls>>

(* Mutant: reset forgets the mark of an enrolled host.                     *)
CloseKeepsEnrolled ==
    /\ form.open /\ form' = [Blank EXCEPT !.enrolled = form.enrolled]
    /\ UNCHANGED <<controlPlane, opening, calls, late, lostCalls>>

(* reset, by the effect on open.                                           *)
Close ==
    /\ form.open /\ form' = Blank
    /\ UNCHANGED <<controlPlane, opening, calls, late, lostCalls>>

AskCreate ==
    /\ form.open /\ form.step = 1 /\ ~form.pending
    /\ form' = [form EXCEPT !.pending = TRUE]
    /\ calls' = calls \cup {Call("create", NoOne)}
    /\ UNCHANGED <<controlPlane, opening, late, lostCalls>>

(* The button is there while a code is shown, and off while one is asked.  *)
RegeneratePairingCode ==
    /\ form.open /\ form.step = 3 /\ ~form.enrolled
    /\ form.code # NoPair /\ ~form.busy /\ form.created # NoOne
    /\ form' = [form EXCEPT !.busy = TRUE, !.error = FALSE]
    /\ calls' = calls \cup {Call("again", form.created)}
    /\ UNCHANGED <<controlPlane, opening, late, lostCalls>>

(* By the timer, or by an event of the host.                               *)
CheckEnrollment ==
    /\ form.step = 3 /\ form.created # NoOne /\ ~form.enrolled
    /\ Cardinality({c \in calls : c.kind = "check"}) < MaxChecks
    /\ calls' = calls \cup {Call("check", form.created)}
    /\ UNCHANGED <<controlPlane, opening, form, late, lostCalls>>

-----------------------------------------------------------------------------
(***************************************************************************)
(* The routes.                                                             *)
(***************************************************************************)
Served(c, answer) == calls' = (calls \ {c}) \cup {answer}

ServeCreate(c) ==
    /\ c.kind = "create" /\ c.at = "sent"
    /\ \E h \in NewHosts :
          /\ newHost[h] = "none" /\ newHost' = [newHost EXCEPT ![h] = "pending"]
          /\ Served(c, [c EXCEPT !.at = "ok", !.host = h])
    /\ UNCHANGED <<hostCode, pairDrawn, opening, form, late, lostCalls>>

(* A host that has enrolled gets no code any more (409).                   *)
ServeCode(c) ==
    /\ c.kind \in {"first", "again"} /\ c.at = "sent"
    /\ IF newHost[c.host] = "pending"
       THEN \E p \in PairCodes \ pairDrawn :
               /\ pairDrawn' = pairDrawn \cup {p}
               /\ hostCode' = [hostCode EXCEPT ![c.host] = p]
               /\ Served(c, [c EXCEPT !.at = "ok", !.code = p])
       ELSE Served(c, [c EXCEPT !.at = "refused"]) /\ UNCHANGED <<pairDrawn, hostCode>>
    /\ UNCHANGED <<newHost, opening, form, late, lostCalls>>

ServeCheck(c) ==
    /\ c.kind = "check" /\ c.at = "sent"
    /\ Served(c, [c EXCEPT !.at = IF newHost[c.host] = "pending"
                                  THEN "refused" ELSE "ok"])
    /\ UNCHANGED <<controlPlane, opening, form, late, lostCalls>>

(* The machine enrolls, by the token or by the code.                       *)
Enrolls(h) ==
    /\ newHost[h] = "pending" /\ newHost' = [newHost EXCEPT ![h] = "online"]
    /\ hostCode' = [hostCode EXCEPT ![h] = NoPair]
    /\ UNCHANGED <<pairDrawn, opening, form, calls, late, lostCalls>>

-----------------------------------------------------------------------------
(***************************************************************************)
(* The answers.                                                            *)
(***************************************************************************)
Answered(c) ==
    /\ calls' = calls \ {c}
    /\ late' = (late \/ c.of # opening \/ ~form.open)

(* createHost goes on to its first code; or it shows an error.             *)
AnswerCreate(c) ==
    /\ c.kind = "create" /\ c.at = "ok"
    /\ calls' = (calls \ {c}) \cup
          {[c EXCEPT !.kind = "first", !.at = "sent"]}
    /\ form' = [form EXCEPT !.created = c.host, !.busy = TRUE, !.error = FALSE]
    /\ late' = (late \/ c.of # opening \/ ~form.open)
    /\ UNCHANGED <<controlPlane, opening, lostCalls>>

(* requestPairingCode ends; the first one lets createHost end too.         *)
CodeEnds(c, f) ==
    form' = IF c.kind = "first"
            THEN [f EXCEPT !.busy = FALSE, !.step = 3, !.pending = FALSE]
            ELSE [f EXCEPT !.busy = FALSE]

AnswerCode(c) ==
    /\ c.kind \in {"first", "again"} /\ c.at # "sent" /\ Answered(c)
    /\ CodeEnds(c, IF c.at = "ok"
                   THEN [form EXCEPT !.code = c.code]
                   ELSE [form EXCEPT !.code = NoPair, !.error = TRUE])
    /\ UNCHANGED <<controlPlane, opening, lostCalls>>

AnswerCheck(c) ==
    /\ c.kind = "check" /\ c.at # "sent" /\ Answered(c)
    /\ form' = [form EXCEPT !.enrolled = @ \/ c.at = "ok"]
    /\ UNCHANGED <<controlPlane, opening, lostCalls>>

(* The request or its answer is lost: an old code stays, with an error.    *)
CallLost(c) ==
    /\ lostCalls < MaxLostCalls /\ lostCalls' = lostCalls + 1
    /\ Answered(c)
    /\ CASE c.kind = "create" -> form' = [form EXCEPT !.pending = FALSE]
         [] c.kind = "check"  -> UNCHANGED form
         [] OTHER             -> CodeEnds(c, [form EXCEPT !.error = TRUE])
    /\ UNCHANGED <<controlPlane, opening>>

WizardNext ==
    \/ Open \/ Close \/ AskCreate \/ RegeneratePairingCode \/ CheckEnrollment
    \/ \E h \in NewHosts : Enrolls(h)
    \/ \E c \in calls :
          \/ ServeCreate(c) \/ ServeCode(c) \/ ServeCheck(c)
          \/ AnswerCreate(c) \/ AnswerCode(c) \/ AnswerCheck(c) \/ CallLost(c)

WizardSpec == WizardInit /\ [][WizardNext]_wizardVars

-----------------------------------------------------------------------------
(***************************************************************************)
(* As long as no answer came to another opening of the wizard than the one *)
(* that asked: it says "enrolled" only of a host that has enrolled, and a  *)
(* code that it shows without an error is the one that opens the host it   *)
(* created, until that host enrolls, whatever requests and answers were    *)
(* lost.                                                                   *)
(***************************************************************************)
WizardTellsTruth ==
    ~late /\ form.created # NoOne =>
        /\ form.enrolled => newHost[form.created] = "online"
        /\ form.code # NoPair /\ ~form.busy /\ ~form.error =>
              \/ newHost[form.created] = "online"
              \/ hostCode[form.created] = form.code
=============================================================================
