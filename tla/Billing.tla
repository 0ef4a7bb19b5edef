------------------------------ MODULE Billing -------------------------------
(***************************************************************************)
(* Billing: the customer a checkout creates, and the subscription row that *)
(* follows Stripe through the webhook.                                     *)
(*                                                                         *)
(* Users are signed in and verified (module Accounts), signatures are      *)
(* right.  Stripe sends an event for every change of a subscription,       *)
(* repeats it until it is acknowledged, and promises no order.             *)
(***************************************************************************)
EXTENDS Naturals

CONSTANTS
    Payers,         \* users
    Subs,           \* subscriptions Stripe may create
    Customers,      \* customers Stripe may create
    MaxStripeEvents \* bound: events of Stripe

ASSUME BillingAssumption ==
    MaxStripeEvents \in Nat /\ "none" \notin Payers \cup Customers \cup Subs

VARIABLES
    customer,       \* user -> users.stripe_customer_id, or "none"
    checkout,       \* user -> checkouts that are creating a customer
    owner,          \* customer at Stripe -> its user, or "none"
    stripeSub,      \* subscription -> [customer, status] at Stripe
    events,         \* events not acknowledged, numbered as they happened
    emitted,
    hook,           \* events being handled, with the row that was read
    subscription,   \* user -> the row of subscriptions, or NoSub
    disorder        \* history: events out of order, or two of anything at once

billingVars == <<customer, checkout, owner, stripeSub, events, emitted, hook,
                 subscription, disorder>>

NoSub == [sub |-> "none", status |-> "none"]
SubStatuses == {"active", "past_due", "unpaid"}
Paid == {"active", "past_due"}

BillingTypeOK ==
    /\ customer \in [Payers -> Customers \cup {"none"}] /\ checkout \in [Payers -> 0..2]
    /\ owner \in [Customers -> Payers \cup {"none"}]
    /\ stripeSub \in [Subs -> [customer : Customers \cup {"none"},
                               status : SubStatuses \cup {"none", "deleted"}]]
    /\ emitted \in 0..MaxStripeEvents /\ \A e \in events : e.n \in 1..emitted
    /\ subscription \in [Payers -> {NoSub} \cup [sub : Subs, status : Paid]]
    /\ disorder \in BOOLEAN

BillingInit ==
    /\ customer = [u \in Payers |-> "none"] /\ checkout = [u \in Payers |-> 0]
    /\ owner = [c \in Customers |-> "none"]
    /\ stripeSub = [s \in Subs |-> [customer |-> "none", status |-> "none"]]
    /\ events = {} /\ emitted = 0 /\ hook = {}
    /\ subscription = [u \in Payers |-> NoSub] /\ disorder = FALSE

(* POST /api/billing/checkout of a user it has read without a customer ... *)
Checkout(u) ==
    /\ customer[u] = "none" /\ checkout[u] < 2
    /\ checkout' = [checkout EXCEPT ![u] = @ + 1]
    /\ UNCHANGED <<customer, owner, stripeSub, events, emitted, hook,
                   subscription, disorder>>

(* ... creates one at Stripe and writes its id to the user, over the id a  *)
(* second request has written meanwhile; then the page opens.              *)
CreateCustomer(u, c) ==
    /\ checkout[u] > 0 /\ owner[c] = "none"
    /\ owner' = [owner EXCEPT ![c] = u]
    /\ customer' = [customer EXCEPT ![u] = c]
    /\ checkout' = [checkout EXCEPT ![u] = @ - 1]
    /\ disorder' = (disorder \/ customer[u] # "none")
    /\ UNCHANGED <<stripeSub, events, emitted, hook, subscription>>

(* It stops before the write: the next checkout starts afresh.             *)
CheckoutFails(u) ==
    /\ checkout[u] > 0 /\ checkout' = [checkout EXCEPT ![u] = @ - 1]
    /\ UNCHANGED <<customer, owner, stripeSub, events, emitted, hook, subscription,
                   disorder>>

StripeEmits(type, s) ==
    /\ emitted < MaxStripeEvents /\ emitted' = emitted + 1
    /\ events' = events \cup {[type |-> type, sub |-> s, n |-> emitted + 1,
                              status |-> stripeSub'[s].status]}

(* The user pays on the checkout page of a customer.                       *)
Subscribe(c, s) ==
    /\ owner[c] # "none" /\ stripeSub[s].status = "none"
    /\ stripeSub' = [stripeSub EXCEPT ![s] = [customer |-> c, status |-> "active"]]
    /\ StripeEmits("updated", s)
    /\ disorder' = \/ disorder
                   \/ \E t \in Subs : /\ stripeSub[t].status \in SubStatuses
                                      /\ stripeSub[t].customer = c
    /\ UNCHANGED <<customer, checkout, owner, hook, subscription>>

(* A payment fails or succeeds; the subscription ends.  (What the webhook  *)
(* does for the status canceled it does for unpaid.)                       *)
StripeChanges(s, st) ==
    /\ stripeSub[s].status \in SubStatuses \ {st}
    /\ stripeSub' = [stripeSub EXCEPT ![s].status = st]
    /\ StripeEmits(IF st = "deleted" THEN "deleted" ELSE "updated", s)
    /\ UNCHANGED <<customer, checkout, owner, hook, subscription, disorder>>

OwnersOf(s) == {u \in Payers : customer[u] # "none" /\ customer[u] = stripeSub[s].customer}

(* POST /api/webhooks/stripe, in two steps: what it reads, which for a     *)
(* user it knows is whether there is a row ...                             *)
HookReads(e) ==
    /\ e \in events /\ \A h \in hook : h.event # e
    /\ hook' = hook \cup {[event |-> e, users |-> OwnersOf(e.sub),
                           had |-> {u \in Payers : subscription[u] # NoSub}]}
    /\ disorder' = \/ disorder \/ hook # {}
                   \/ \E f \in events : f.n < e.n
    /\ UNCHANGED <<customer, checkout, owner, stripeSub, events, emitted,
                   subscription>>

(* Mutant: a row that is there already is left as it is.                   *)
RowAfterInsert(row, e, had) ==
    IF e.type = "deleted" THEN IF row.sub = e.sub THEN NoSub ELSE row
    ELSE IF e.status = "unpaid" THEN NoSub
    ELSE IF had THEN row
    ELSE [sub |-> e.sub, status |-> e.status]

(* The row the event leaves, from the row it finds: an update misses a row *)
(* that has gone since it was read.                                        *)
RowAfter(row, e, had) ==
    IF e.type = "deleted" THEN IF row.sub = e.sub THEN NoSub ELSE row
    ELSE IF e.status = "unpaid" THEN NoSub
    ELSE IF had /\ row = NoSub THEN row
    ELSE [sub |-> e.sub, status |-> e.status]

(* ... and what it writes.  An INSERT beside a row that came meanwhile is  *)
(* refused, the database may fail, and the answer may be lost: Stripe      *)
(* repeats the event.                                                      *)
HookWrites(h) ==
    /\ h \in hook /\ hook' = hook \ {h}
    /\ \/ /\ \A u \in h.users : subscription[u] = NoSub \/ u \in h.had
                                \/ h.event.type = "deleted" \/ h.event.status = "unpaid"
          /\ subscription' = [u \in Payers |->
                IF u \in h.users \/ h.event.type = "deleted"
                THEN RowAfter(subscription[u], h.event, u \in h.had)
                ELSE subscription[u]]
          /\ events' \in {events, events \ {h.event}}
       \/ UNCHANGED <<subscription, events>>
    /\ UNCHANGED <<customer, checkout, owner, stripeSub, emitted, disorder>>

BillingNext ==
    \/ \E u \in Payers :
          \/ Checkout(u) \/ CheckoutFails(u)
          \/ \E c \in Customers : CreateCustomer(u, c)
    \/ \E s \in Subs, c \in Customers : Subscribe(c, s)
    \/ \E s \in Subs : \E st \in SubStatuses \cup {"deleted"} : StripeChanges(s, st)
    \/ \E e \in events : HookReads(e)
    \/ \E h \in hook : HookWrites(h)

BillingSpec == BillingInit /\ [][BillingNext]_billingVars

-----------------------------------------------------------------------------
(* When Stripe has nothing left to tell, a user's row is the subscription  *)
(* they pay for, and there is none when they do not - through failed       *)
(* payments, cancellations, new subscriptions and repeated events, as long *)
(* as events come in order, one at a time, and a user has one customer and *)
(* one subscription at a time.                                             *)
BillingFollows ==
    events = {} /\ hook = {} /\ ~disorder =>
       \A u \in Payers :
          LET mine == {s \in Subs : /\ stripeSub[s].customer # "none"
                                    /\ owner[stripeSub[s].customer] = u
                                    /\ stripeSub[s].status \in Paid}
          IN IF mine = {} THEN subscription[u] = NoSub
             ELSE \E s \in mine : subscription[u] = [sub |-> s, status |-> stripeSub[s].status]
=============================================================================
