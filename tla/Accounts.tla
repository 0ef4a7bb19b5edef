------------------------------ MODULE Accounts ------------------------------
(***************************************************************************)
(* Accounts: sign-up, the verification link that is mailed, and sessions.  *)
(*                                                                         *)
(* A user is an email address and the one browser behind it; passwords and *)
(* captchas are right.                                                     *)
(***************************************************************************)
EXTENDS Naturals, FiniteSets

CONSTANTS
    Users,          \* email addresses
    Mailers,        \* sign-ups and resends served concurrently
    MaxLinks        \* bound: verification links ever made

ASSUME AccountsAssumption == MaxLinks \in Nat /\ "none" \notin Users

VARIABLES
    account,        \* user -> "none", "made" or "verified"
    links,          \* rows of email_verification_tokens
    made,           \* links ever made
    signedIn,       \* user -> "none", "live" or "expired"
    mailer,         \* a sign-up or a resend under way
    verifying,      \* links read by GET /auth/verify-email, not yet done
    together,       \* history: users with two of these requests at a time
    torn            \* history: users with a verification that broke off half-way

accountVars ==
    <<account, links, made, signedIn, mailer, verifying, together, torn>>

IdleMailer == [at |-> "idle", user |-> "none"]

AccountsTypeOK ==
    /\ account \in [Users -> {"none", "made", "verified"}]
    /\ links \subseteq [user : Users, n : 1..MaxLinks, live : BOOLEAN]
    /\ made \in 0..MaxLinks /\ signedIn \in [Users -> {"none", "live", "expired"}]
    /\ mailer \in [Mailers -> {IdleMailer} \cup
                      [at : {"checked", "clear", "insert", "mail"}, user : Users,
                       signUp : BOOLEAN]]
    /\ verifying \subseteq [user : Users, done : BOOLEAN] /\ together \cup torn \subseteq Users

AccountsInit ==
    /\ account = [u \in Users |-> "none"] /\ links = {} /\ made = 0
    /\ signedIn = [u \in Users |-> "none"]
    /\ mailer = [r \in Mailers |-> IdleMailer] /\ verifying = {} /\ together = {}
    /\ torn = {}

-----------------------------------------------------------------------------
(***************************************************************************)
(* Sign-up and the link.                                                   *)
(***************************************************************************)
UnderWay(u) ==
    \/ \E r \in Mailers : mailer[r].user = u
    \/ \E o \in verifying : o.user = u
Begins(u) == together' = IF UnderWay(u) THEN together \cup {u} ELSE together

(* POST /api/auth/register: no account has the email ...                   *)
Register(r, u) ==
    /\ mailer[r] = IdleMailer /\ account[u] = "none"
    /\ mailer' = [mailer EXCEPT ![r] = [at |-> "checked", user |-> u, signUp |-> TRUE]]
    /\ Begins(u)
    /\ UNCHANGED <<account, links, made, signedIn, verifying, torn>>

(* ... then the INSERT, which the unique email refuses to a second one.    *)
InsertUser(r) ==
    /\ mailer[r].at = "checked"
    /\ LET u == mailer[r].user IN
       IF account[u] = "none"
       THEN /\ account' = [account EXCEPT ![u] = "made"]
            /\ mailer' = [mailer EXCEPT ![r].at = "clear"]
       ELSE mailer' = [mailer EXCEPT ![r] = IdleMailer] /\ UNCHANGED account
    /\ UNCHANGED <<links, made, signedIn, verifying, together, torn>>

(* POST /api/auth/resend-verification, for a session and no verified mail.  *)
Resend(r, u) ==
    /\ mailer[r] = IdleMailer /\ signedIn[u] = "live" /\ account[u] = "made"
    /\ mailer' = [mailer EXCEPT ![r] = [at |-> "clear", user |-> u, signUp |-> FALSE]]
    /\ Begins(u)
    /\ UNCHANGED <<account, links, made, signedIn, verifying, torn>>

(* Mutant: only links that have expired are deleted.                       *)
OldLinksExpired(u) == {l \in links : l.user = u /\ ~l.live}

(* createEmailVerificationToken: the old links go, then the new one comes. *)
OldLinks(u) == {l \in links : l.user = u}

ClearLinks(r) ==
    /\ mailer[r].at = "clear"
    /\ links' = links \ OldLinks(mailer[r].user)
    /\ mailer' = [mailer EXCEPT ![r].at = "insert"]
    /\ UNCHANGED <<account, made, signedIn, verifying, together, torn>>

InsertLink(r) ==
    /\ mailer[r].at = "insert" /\ made < MaxLinks
    /\ made' = made + 1
    /\ links' = links \cup {[user |-> mailer[r].user, n |-> made + 1, live |-> TRUE]}
    /\ mailer' = [mailer EXCEPT ![r].at = "mail"]
    /\ UNCHANGED <<account, signedIn, verifying, together, torn>>

(* sendVerificationEmail, after which a sign-up has a session; without the  *)
(* mail it has none.                                                       *)
SendLink(r, delivered) ==
    /\ mailer[r].at = "mail"
    /\ signedIn' = IF delivered /\ mailer[r].signUp
                  THEN [signedIn EXCEPT ![mailer[r].user] = "live"] ELSE signedIn
    /\ mailer' = [mailer EXCEPT ![r] = IdleMailer]
    /\ UNCHANGED <<account, links, made, verifying, together, torn>>

(* The control plane stops, or the database fails, between two steps.      *)
MailerFails(r) ==
    /\ mailer[r] # IdleMailer /\ mailer' = [mailer EXCEPT ![r] = IdleMailer]
    /\ UNCHANGED <<account, links, made, signedIn, verifying, together, torn>>

-----------------------------------------------------------------------------
(***************************************************************************)
(* verifyEmailWithToken, for a link that is still a row: read; the account *)
(* updated; the links of the user deleted.                                 *)
(***************************************************************************)
OpenLink(l) ==
    /\ l \in links
    /\ IF l.live
       THEN verifying' = verifying \cup {[user |-> l.user, done |-> FALSE]} /\ UNCHANGED links
       ELSE links' = links \ {l} /\ UNCHANGED verifying
    /\ Begins(l.user)
    /\ UNCHANGED <<account, made, signedIn, mailer, torn>>

MarkVerified(o) ==
    /\ o \in verifying /\ ~o.done
    /\ account' = [account EXCEPT ![o.user] = "verified"]
    /\ verifying' = (verifying \ {o}) \cup {[o EXCEPT !.done = TRUE]}
    /\ UNCHANGED <<links, made, signedIn, mailer, together, torn>>

DeleteLinks(o) ==
    /\ o \in verifying /\ o.done
    /\ links' = links \ OldLinks(o.user)
    /\ verifying' = verifying \ {o}
    /\ UNCHANGED <<account, made, signedIn, mailer, together, torn>>

LinkExpires(l) ==
    /\ l \in links /\ l.live
    /\ links' = (links \ {l}) \cup {[l EXCEPT !.live = FALSE]}
    /\ UNCHANGED <<account, made, signedIn, mailer, verifying, together, torn>>

(* The control plane stops, or the database fails, between two statements. *)
VerifyFails(o) ==
    /\ o \in verifying /\ verifying' = verifying \ {o}
    /\ torn' = IF o.done THEN torn \cup {o.user} ELSE torn
    /\ UNCHANGED <<account, links, made, signedIn, mailer, together>>

(* POST /api/auth/login and /logout, and time.                             *)
Login(u) ==
    /\ account[u] # "none" /\ signedIn[u] # "live"
    /\ signedIn' = [signedIn EXCEPT ![u] = "live"]
    /\ UNCHANGED <<account, links, made, mailer, verifying, together, torn>>

Logout(u) ==
    /\ signedIn[u] # "none" /\ signedIn' = [signedIn EXCEPT ![u] = "none"]
    /\ UNCHANGED <<account, links, made, mailer, verifying, together, torn>>

SessionEnds(u) ==
    /\ signedIn[u] = "live" /\ signedIn' = [signedIn EXCEPT ![u] = "expired"]
    /\ UNCHANGED <<account, links, made, mailer, verifying, together, torn>>

(* getCurrentUser, whatever asks for it, deletes a session that has ended.  *)
SeesExpired(u) ==
    /\ signedIn[u] = "expired" /\ signedIn' = [signedIn EXCEPT ![u] = "none"]
    /\ UNCHANGED <<account, links, made, mailer, verifying, together, torn>>

AccountsNext ==
    \/ \E r \in Mailers :
          \/ InsertUser(r) \/ ClearLinks(r) \/ InsertLink(r) \/ MailerFails(r)
          \/ \E u \in Users : Register(r, u) \/ Resend(r, u)
          \/ \E delivered \in BOOLEAN : SendLink(r, delivered)
    \/ \E l \in links : OpenLink(l) \/ LinkExpires(l)
    \/ \E o \in verifying : MarkVerified(o) \/ DeleteLinks(o) \/ VerifyFails(o)
    \/ \E u \in Users :
          \/ Login(u) \/ Logout(u) \/ SessionEnds(u) \/ SeesExpired(u)

AccountsSpec == AccountsInit /\ [][AccountsNext]_accountVars

-----------------------------------------------------------------------------
(* Unless two of its requests overlap, an account has one link that works, *)
(* the last one mailed, and none once it is verified - also when a request *)
(* stops half-way and mails are asked for again.  (A verification that     *)
(* stops between its two writes leaves the link of a verified account.)    *)
LinksAreReplaced ==
    \A u \in Users \ together :
        /\ Cardinality(OldLinks(u)) <= 1
        /\ account[u] = "verified" /\ ~UnderWay(u) /\ u \notin torn
              => OldLinks(u) = {}
=============================================================================
