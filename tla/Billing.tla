------------------------------- MODULE Billing --------------------------------
(***************************************************************************)
(* The subscription of one sync account (apps/sync-server/src/billing.ts    *)
(* and the subscriptions table of its Storage), as Stripe and the account's *)
(* owner drive it.                                                          *)
(*                                                                         *)
(* Stripe keeps the truth.  It delivers each webhook event at least once,   *)
(* in any order, and delivers an unacknowledged one again.  A handler of    *)
(* checkout.session.completed or customer.subscription.updated asks Stripe  *)
(* for the subscription and then writes the account's row: two awaits,      *)
(* between which other handlers run.  customer.subscription.deleted is      *)
(* written from its payload.                                                *)
(*                                                                         *)
(* Time moves in ticks of an hour.  A trial counts as active, and customers *)
(* are left out: every checkout may succeed.                                *)
(***************************************************************************)
EXTENDS Integers, FiniteSets, Functions

CONSTANTS
    Subs,         \* the subscriptions the account's checkouts may create
    Period,       \* the ticks a payment covers
    MaxClock,     \* bound: ticks
    MaxChanges,   \* bound: webhook events
    MaxHandlers   \* bound: webhook handlers at a time

NoSub == "no subscription"

ASSUME BillingAssumption ==
    /\ NoSub \notin Subs
    /\ Period \in Nat \ {0}
    /\ {MaxClock, MaxChanges, MaxHandlers} \subseteq Nat

\* StoredSubscription.  ENDED: never bills again.  RESUBSCRIBABLE: a checkout
\* may start another one.
Ended == {"canceled", "incomplete_expired"}
Statuses == {"incomplete", "active", "past_due"} \cup Ended
Row == [sub: Subs, status: Statuses, end: Nat]
NoRow == [sub |-> NoSub, status |-> "canceled", end |-> 0]
\* (Mutant of Resubscribable: so may one whose payment failed.)
ResubscribableAfterFailure == Ended \cup {"incomplete", "past_due"}
Resubscribable == Ended \cup {"incomplete"}

\* What Stripe holds: "offered" is a checkout before its completion creates the
\* subscription.  changes counts its events.
Truth == [status: {"none", "offered"} \cup Statuses, end: Nat, changes: Nat]
Event == [kind: {"completed", "updated", "deleted"}, sub: Subs, n: Nat]
Handler == [event: Event, stage: {"retrieve", "write"}, status: Statuses, end: Nat]

VARIABLES
    truth,      \* truth[s]: subscription s at Stripe
    events,     \* webhook events Stripe has not had acknowledged
    handlers,   \* webhook handlers in progress
    row,        \* the account's row of subscriptions
    clock,
    paidUntil,  \* the end of the latest period Stripe held as paid
    overlapped, \* have two handlers ever run at once?
    seen,       \* the subscriptions the row has ever said to bill
    raced       \* was a checkout ever started while another was under way?

billingVars == <<truth, events, handlers, row, clock, paidUntil, overlapped, seen, raced>>
stripe == <<truth, events, paidUntil>>
ghosts == <<overlapped, seen, raced>>

BillingInit ==
    /\ truth = [s \in Subs |-> [status |-> "none", end |-> 0, changes |-> 0]]
    /\ events = {}
    /\ handlers = {}
    /\ row = NoRow
    /\ clock = 0
    /\ paidUntil = 0
    /\ overlapped = FALSE
    /\ seen = {}
    /\ raced = FALSE

-----------------------------------------------------------------------------
(* The account's owner *)

Bills == {"active", "past_due"}

\* No write has said yet that s bills; or handlers that overlapped have since
\* put another subscription into the row, or its unpaid first payment back.
Unseen(s) ==
    \/ s \notin seen
    \/ overlapped /\ (row.sub # s \/ row.status = "incomplete")

\* A checkout that is open, a first payment that is not made, or a subscription
\* that bills unseen.
Underway ==
    {s \in Subs : \/ truth[s].status \in {"offered", "incomplete"}
                  \/ truth[s].status \in Bills /\ Unseen(s)}

\* createCheckout: a recorded subscription that has not ended refuses; else
\* Stripe offers the page to pay on, which stays open when the owner asks again.
Checkout(s) ==
    /\ truth[s].status = "none"
    /\ row.status \in Resubscribable
    /\ truth' = [truth EXCEPT ![s].status = "offered"]
    /\ raced' = (raced \/ Underway # {})
    /\ UNCHANGED <<events, handlers, row, clock, paidUntil, overlapped, seen>>

-----------------------------------------------------------------------------
(* Stripe *)

Happened == FoldFunction(+, 0, [s \in Subs |-> truth[s].changes])
Later(a, b) == IF a < b THEN b ELSE a

Becomes(s, status, end, kind) ==
    /\ Happened < MaxChanges
    /\ truth' = [truth EXCEPT ![s] = [status |-> status, end |-> end, changes |-> @.changes + 1]]
    /\ events' = events \cup {[kind |-> kind, sub |-> s, n |-> truth[s].changes + 1]}
    /\ paidUntil' = IF status = "active" THEN Later(paidUntil, end) ELSE paidUntil
    /\ UNCHANGED <<handlers, row, clock, ghosts>>

CheckoutCompleted(s) ==
    /\ truth[s].status = "offered"
    /\ \E status \in {"active", "incomplete"} :
          Becomes(s, status, clock + Period, "completed")

\* A failed payment is made good.
Recovers(s) ==
    /\ truth[s].status = "past_due"
    /\ Becomes(s, "active", truth[s].end, "updated")

\* A first payment that did not go through is made good within its day.
FirstPaid(s) ==
    /\ truth[s].status = "incomplete" /\ truth[s].end > clock
    /\ Becomes(s, "active", truth[s].end, "updated")

\* A first payment that never completed expires and never bills.
Expires(s) ==
    /\ truth[s].status = "incomplete"
    /\ Becomes(s, "incomplete_expired", truth[s].end, "updated")

\* Canceled in the portal, or by Stripe after failed payments.
Canceled(s) ==
    /\ truth[s].status \in {"active", "past_due"}
    /\ Becomes(s, "canceled", truth[s].end, "deleted")

\* A tick.  A period that ends is charged and the next one begins; handlers
\* live for minutes, and none spans a tick.
Due == {s \in Subs : truth[s].status \in {"active", "past_due"} /\ truth[s].end <= clock + 1}
Tick ==
    /\ handlers = {}
    /\ clock < MaxClock
    /\ Happened + Cardinality(Due) <= MaxChanges
    /\ clock' = clock + 1
    /\ \E paid \in SUBSET Due :
          /\ truth' = [s \in Subs |->
                IF s \notin Due THEN truth[s]
                ELSE [status |-> IF s \in paid THEN "active" ELSE "past_due",
                      end |-> truth[s].end + Period, changes |-> truth[s].changes + 1]]
          /\ paidUntil' = IF paid = {} THEN paidUntil ELSE Later(paidUntil, clock + 1 + Period)
    /\ events' = events \cup {[kind |-> "updated", sub |-> s, n |-> truth[s].changes + 1] : s \in Due}
    /\ UNCHANGED <<handlers, row, ghosts>>

-----------------------------------------------------------------------------
(* handleWebhook *)

\* A deletion is final, so its payload is trusted; anything else is asked for.
Deliver(e) ==
    /\ e \in events
    /\ Cardinality(handlers) < MaxHandlers
    /\ handlers' = handlers \cup
         {[event |-> e, stage |-> IF e.kind = "deleted" THEN "write" ELSE "retrieve",
           status |-> "canceled", end |-> truth[e.sub].end]}
    /\ overlapped' = (overlapped \/ handlers # {})
    /\ UNCHANGED <<stripe, row, clock, seen, raced>>

\* retrieveSubscription answers with what Stripe holds now.
Retrieve(h) ==
    /\ h.stage = "retrieve"
    /\ handlers' = (handlers \ {h}) \cup
         {[h EXCEPT !.stage = "write", !.status = truth[h.event.sub].status,
                    !.end = truth[h.event.sub].end]}
    /\ UNCHANGED <<stripe, row, clock, ghosts>>

\* It throws, or the process dies: no 200, and Stripe delivers again.
WebhookFails(h) ==
    /\ h \in handlers
    /\ handlers' = handlers \ {h}
    /\ UNCHANGED <<stripe, row, clock, ghosts>>

\* Mutant of Upsert: a late completion wins.
UpsertAlways(h) == [sub |-> h.event.sub, status |-> h.status, end |-> h.end]

\* upsertSubscription: a late completion for an old, ended subscription must
\* not replace a live one.
Upsert(h) ==
    IF /\ row # NoRow /\ row.sub # h.event.sub
       /\ row.status \notin Ended /\ h.status \in Ended
    THEN row
    ELSE [sub |-> h.event.sub, status |-> h.status, end |-> h.end]

\* updateSubscriptionByStripeId: an ended subscription stays ended.
Update(h) ==
    IF row.sub = h.event.sub /\ row.status \notin Ended
    THEN [row EXCEPT !.status = h.status, !.end = h.end]
    ELSE row

\* The row is written and 200 returned; an answer that is lost makes Stripe
\* deliver again.
Write(h) ==
    /\ h.stage = "write"
    /\ row' = IF h.event.kind = "completed" THEN Upsert(h) ELSE Update(h)
    /\ handlers' = handlers \ {h}
    /\ events' \in {events, events \ {h.event}}
    /\ seen' = seen \cup (IF row'.status \in Bills THEN {row'.sub} ELSE {})
    /\ UNCHANGED <<truth, clock, paidUntil, overlapped, raced>>

-----------------------------------------------------------------------------

\* Mutant of SubscriptionActive: the period is not looked at.
StatusActive == row.status = "active"

\* subscriptionActive: the gate of every sync request.
SubscriptionActive == row.status = "active" /\ row.end > clock

Webhook(h) == Retrieve(h) \/ WebhookFails(h) \/ Write(h)
Stripe(s) ==
    CheckoutCompleted(s) \/ FirstPaid(s) \/ Recovers(s) \/ Expires(s) \/ Canceled(s)

BillingNext ==
    \/ Tick
    \/ \E s \in Subs : Checkout(s) \/ Stripe(s)
    \/ \E e \in events : Deliver(e)
    \/ \E h \in handlers : Webhook(h)

BillingSpec == BillingInit /\ [][BillingNext]_billingVars

-----------------------------------------------------------------------------
(* Properties *)

BillingTypeOK ==
    /\ truth \in [Subs -> Truth]
    /\ events \subseteq Event
    /\ handlers \subseteq Handler
    /\ row \in Row \cup {NoRow}
    /\ clock \in Nat /\ paidUntil \in Nat
    /\ overlapped \in BOOLEAN /\ seen \subseteq Subs /\ raced \in BOOLEAN

Quiet == events = {} /\ handlers = {}

\* Once every event has been acknowledged the row says what Stripe says,
\* whatever the order, the repetitions and the failures of the deliveries ("a
\* late retry can carry an old state"), unless two handlers have overlapped.
\* It then names the subscription that bills if there is one ("a late completion
\* for an old, ended subscription must not replace a live one"), unless a
\* checkout has also begun while another was under way.
QuietRowIsTrue ==
    Quiet /\ ~overlapped =>
        /\ row # NoRow => /\ row.status = truth[row.sub].status
                          /\ row.status \notin Ended => row.end = truth[row.sub].end
        /\ ~raced => \A s \in Subs : truth[s].status \in Bills => row.sub = s

\* No account syncs in a period that nobody paid for, however late or often
\* its events arrive.
AccessWasPaid == SubscriptionActive => clock < paidUntil

\* "So nobody pays twice", and "a not-yet-ended subscription refuses": through
\* failed payments, cancellations and late, repeated and overlapping events, two
\* subscriptions bill only if a checkout began when another was still open, when
\* a first payment was still to be made, or before a row that lags had ever said
\* that a subscription bills (or after overlapping handlers had unsaid it).
NotBilledTwice == ~raced => Cardinality({s \in Subs : truth[s].status \in Bills}) <= 1
=============================================================================
