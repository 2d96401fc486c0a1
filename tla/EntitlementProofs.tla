-------------------------- MODULE EntitlementProofs --------------------------
(***************************************************************************)
(* Billing, then the connector's entitlement that is built on it.          *)
(*                                                                         *)
(* Why a subscription's row can be trusted, for any number of              *)
(* subscriptions, events, handlers and ticks: Stripe never leaves an ended *)
(* status, every change it makes is an event that stays until a handler of *)
(* that very event has written, and one checkout at a time leaves one      *)
(* subscription that can bill, because a row that has once said that a     *)
(* subscription bills never stops naming it while it does.                 *)
(*                                                                         *)
(* Why one subscriber opens the connector to one account per window, and   *)
(* for how long, for any accounts, subscriptions and lengths of tokens,    *)
(* windows and grace: a request at the gate holds an attestation that is   *)
(* still valid, no two attestations of one window are minted a window      *)
(* apart, and a binding outlives the attestation it was made for by a      *)
(* window: so no valid attestation ever finds its nonce bound and expired. *)
(***************************************************************************)
EXTENDS Entitlement, FiniteSetTheorems, TLAPS

-----------------------------------------------------------------------------
(* Types, and what an event says of Stripe's side.                         *)

\* A statement of subscription s was true once and, where it is final, is still.
Known(e) ==
    /\ truth[e.sub].status \in Statuses
    /\ e.n <= truth[e.sub].changes
    /\ e.kind = "deleted" => truth[e.sub].status = "canceled"

Stage(h) == h.event.kind = "deleted" => h.stage = "write" /\ h.status = "canceled"

EventsKnown ==
    /\ \A e \in events : Known(e)
    /\ \A h \in handlers : Known(h.event) /\ Stage(h)
    /\ row # NoRow => truth[row.sub].status \in Statuses

TypeInv == BillingTypeOK /\ EventsKnown

\* A subscription that may still bill, and one that has an event to its name.
Open == {"incomplete"} \cup Bills
Live == {"offered"} \cup Open

\* Subscription s stays, is offered, or changes with a new event of its own.
Offered(s) ==
    /\ truth[s].status = "none"
    /\ truth'[s].status = "offered" /\ truth'[s].changes = truth[s].changes

Allowed(old, new, kind) ==
    \/ old = "offered" /\ new \in {"active", "incomplete"} /\ kind = "completed"
    \/ old \in Bills /\ new \in Bills /\ kind = "updated"
    \/ old = "incomplete" /\ new \in {"active", "incomplete_expired"} /\ kind = "updated"
    \/ old \in Bills /\ new = "canceled" /\ kind = "deleted"

Changes(s) ==
    /\ truth'[s].changes = truth[s].changes + 1
    /\ \E kind \in {"completed", "updated", "deleted"} :
         /\ [kind |-> kind, sub |-> s, n |-> truth[s].changes + 1] \in events'
         /\ Allowed(truth[s].status, truth'[s].status, kind)
    /\ truth'[s].status = "active" => truth'[s].end <= paidUntil'

Goes(s) == truth'[s] = truth[s] \/ Changes(s)
Moves(s) == Goes(s) \/ Offered(s)

\* A step of Stripe, of the owner or of the clock.
StripeMoves ==
    /\ truth' \in [Subs -> Truth] /\ events' \subseteq Event
    /\ clock' \in Nat /\ paidUntil' \in Nat /\ paidUntil <= paidUntil'
    /\ clock' <= clock + 1
    /\ \A s \in Subs : Moves(s)
    /\ events \subseteq events'
    /\ \A e \in events' \ events : e.n = truth'[e.sub].changes /\ Changes(e.sub)
                                   /\ Allowed(truth[e.sub].status, truth'[e.sub].status, e.kind)
    /\ UNCHANGED <<handlers, row, overlapped, seen>>

LEMMA StatusFacts ==
    /\ Open \subseteq Statuses /\ Bills \subseteq Statuses /\ Ended \subseteq Statuses
    /\ Open \cap Ended = {} /\ Statuses = Open \cup Ended
    /\ "none" \notin Live /\ "offered" \notin Statuses /\ "none" \notin Statuses
    /\ Bills \cap Resubscribable = {}
BY DEF Open, Bills, Ended, Statuses, Live, Resubscribable

LEMMA LaterIs ==
    ASSUME NEW a \in Nat, NEW b \in Nat
    PROVE  Later(a, b) \in Nat /\ a <= Later(a, b) /\ b <= Later(a, b)
BY DEF Later

LEMMA BecomesMoves ==
    ASSUME BillingTypeOK, NEW s \in Subs, NEW status \in Statuses, NEW end \in Nat,
           NEW kind \in {"completed", "updated", "deleted"},
           Allowed(truth[s].status, status, kind), Becomes(s, status, end, kind)
    PROVE  StripeMoves /\ \A r \in Subs : Goes(r)
<1>1. /\ truth \in [Subs -> Truth] /\ truth[s] \in Truth /\ truth[s].changes \in Nat
      /\ events \subseteq Event /\ clock \in Nat /\ paidUntil \in Nat
  BY DEF BillingTypeOK, Truth
<1> DEFINE t == [status |-> status, end |-> end, changes |-> truth[s].changes + 1]
           e == [kind |-> kind, sub |-> s, n |-> truth[s].changes + 1]
<1>2. /\ truth' = [truth EXCEPT ![s] = t] /\ events' = events \cup {e}
      /\ paidUntil' = IF status = "active" THEN Later(paidUntil, end) ELSE paidUntil
      /\ UNCHANGED <<handlers, row, clock, ghosts>>
  BY DEF Becomes
<1>3. t \in Truth /\ e \in Event
  BY <1>1 DEF Truth, Event
<1>4. truth'[s] = t /\ \A r \in Subs \ {s} : truth'[r] = truth[r]
  BY <1>1, <1>2
<1>5. paidUntil' \in Nat /\ paidUntil <= paidUntil' /\ (status = "active" => end <= paidUntil')
  <2>1. /\ Later(paidUntil, end) \in Nat /\ paidUntil <= Later(paidUntil, end)
        /\ end <= Later(paidUntil, end)
    BY <1>1, LaterIs
  <2>2. paidUntil' = IF status = "active" THEN Later(paidUntil, end) ELSE paidUntil
    BY <1>2
  <2> QED
    BY <1>1, <2>1, <2>2
<1>6. Changes(s)
  <2>1. truth'[s].status = status /\ truth'[s].end = end
        /\ truth'[s].changes = truth[s].changes + 1
    BY <1>4
  <2>2. e \in events'
    BY <1>2
  <2> QED
    BY <1>5, <2>1, <2>2 DEF Changes
<1>7. \A x \in events' \ events : x = e
  BY <1>2
<1>8. truth' \in [Subs -> Truth] /\ events' \subseteq Event /\ events \subseteq events'
  BY <1>1, <1>2, <1>3
<1>9. clock' \in Nat /\ clock' <= clock + 1 /\ UNCHANGED <<handlers, row, overlapped, seen>>
  BY <1>1, <1>2 DEF ghosts
<1>10. \A r \in Subs : Goes(r) /\ Moves(r)
  BY <1>4, <1>6 DEF Goes, Moves
<1>11. \A x \in events' \ events :
          /\ x.n = truth'[x.sub].changes /\ Changes(x.sub)
          /\ Allowed(truth[x.sub].status, truth'[x.sub].status, x.kind)
  BY <1>4, <1>6, <1>7
<1> QED
  BY <1>5, <1>8, <1>9, <1>10, <1>11 DEF StripeMoves

LEMMA StripeStepMoves ==
    ASSUME TypeInv, NEW s \in Subs, Stripe(s)
    PROVE  StripeMoves /\ (\A r \in Subs : Goes(r)) /\ UNCHANGED <<raced, clock>>
<1> USE BillingAssumption
<1>1. BillingTypeOK /\ truth[s].end \in Nat /\ clock + Period \in Nat
  BY DEF TypeInv, BillingTypeOK, Truth
<1>2. CASE CheckoutCompleted(s)
  <2>1. PICK status \in {"active", "incomplete"} : Becomes(s, status, clock + Period, "completed")
    BY <1>2 DEF CheckoutCompleted
  <2>2. Allowed(truth[s].status, status, "completed") /\ status \in Statuses
    BY <1>2 DEF CheckoutCompleted, Allowed, Statuses
  <2> QED
    BY <1>1, <2>1, <2>2, BecomesMoves DEF Becomes, ghosts
<1>3. CASE Recovers(s)
  <2>1. Allowed(truth[s].status, "active", "updated") /\ "active" \in Statuses
    BY <1>3 DEF Recovers, Allowed, Statuses, Bills
  <2> QED
    BY <1>1, <1>3, <2>1, BecomesMoves DEF Recovers, Becomes, ghosts
<1>6. CASE FirstPaid(s)
  <2>1. Allowed(truth[s].status, "active", "updated") /\ "active" \in Statuses
    BY <1>6 DEF FirstPaid, Allowed, Statuses
  <2> QED
    BY <1>1, <1>6, <2>1, BecomesMoves DEF FirstPaid, Becomes, ghosts
<1>4. CASE Expires(s)
  <2>1. Allowed(truth[s].status, "incomplete_expired", "updated") /\ "incomplete_expired" \in Statuses
    BY <1>4 DEF Expires, Allowed, Statuses, Ended
  <2> QED
    BY <1>1, <1>4, <2>1, BecomesMoves DEF Expires, Becomes, ghosts
<1>5. CASE Canceled(s)
  <2>1. Allowed(truth[s].status, "canceled", "deleted") /\ "canceled" \in Statuses
    BY <1>5 DEF Canceled, Allowed, Statuses, Ended, Bills
  <2> QED
    BY <1>1, <1>5, <2>1, BecomesMoves DEF Canceled, Becomes, ghosts
<1> QED
  BY <1>2, <1>3, <1>4, <1>5, <1>6 DEF Stripe

LEMMA TickMoves ==
    ASSUME TypeInv, Tick
    PROVE  /\ StripeMoves /\ \A r \in Subs : Goes(r)
           /\ UNCHANGED raced /\ clock' = clock + 1 /\ handlers = {}
<1> USE BillingAssumption
<1>1. /\ truth \in [Subs -> Truth] /\ events \subseteq Event /\ clock \in Nat /\ paidUntil \in Nat
      /\ \A s \in Subs : truth[s] \in Truth /\ truth[s].changes \in Nat /\ truth[s].end \in Nat
  BY DEF TypeInv, BillingTypeOK, Truth
<1>2. PICK paid \in SUBSET Due :
          /\ truth' = [s \in Subs |->
                IF s \notin Due THEN truth[s]
                ELSE [status |-> IF s \in paid THEN "active" ELSE "past_due",
                      end |-> truth[s].end + Period, changes |-> truth[s].changes + 1]]
          /\ paidUntil' = IF paid = {} THEN paidUntil ELSE Later(paidUntil, clock + 1 + Period)
  BY DEF Tick
<1>3. \A s \in Due : s \in Subs /\ truth[s].status \in Bills /\ truth[s].end <= clock + 1
  BY DEF Due, Bills
<1>4. /\ events' = events \cup {[kind |-> "updated", sub |-> s, n |-> truth[s].changes + 1] : s \in Due}
      /\ UNCHANGED <<handlers, row, ghosts>> /\ clock' = clock + 1 /\ handlers = {}
  BY DEF Tick
<1>5. \A s \in Subs \ Due : truth'[s] = truth[s]
  BY <1>2
<1>6. \A s \in Due : /\ truth'[s].status = IF s \in paid THEN "active" ELSE "past_due"
                     /\ truth'[s].end = truth[s].end + Period
                     /\ truth'[s].changes = truth[s].changes + 1 /\ truth'[s] \in Truth
  <2>1. SUFFICES ASSUME NEW s \in Due
                 PROVE  /\ truth'[s].status = IF s \in paid THEN "active" ELSE "past_due"
                        /\ truth'[s].end = truth[s].end + Period
                        /\ truth'[s].changes = truth[s].changes + 1 /\ truth'[s] \in Truth
    OBVIOUS
  <2>2. s \in Subs /\ truth[s].end + Period \in Nat /\ truth[s].changes + 1 \in Nat
    BY <1>1, <1>3
  <2>3. truth'[s] = [status |-> IF s \in paid THEN "active" ELSE "past_due",
                     end |-> truth[s].end + Period, changes |-> truth[s].changes + 1]
    BY <1>2, <2>2
  <2> QED
    BY <2>2, <2>3 DEF Truth, Statuses
<1>7. truth' \in [Subs -> Truth]
  <2>1. \A s \in Subs : truth'[s] \in Truth
    BY <1>1, <1>5, <1>6
  <2> QED
    BY <1>2, <2>1
<1>8. paidUntil' \in Nat /\ paidUntil <= paidUntil' /\ (paid # {} => clock + 1 + Period <= paidUntil')
  <2> DEFINE end == clock + 1 + Period
  <2>1. end \in Nat
    BY <1>1
  <2> HIDE DEF end
  <2>2. /\ Later(paidUntil, end) \in Nat /\ paidUntil <= Later(paidUntil, end)
        /\ end <= Later(paidUntil, end)
    BY <1>1, <2>1, LaterIs
  <2>3. paidUntil' = IF paid = {} THEN paidUntil ELSE Later(paidUntil, end)
    BY <1>2 DEF end
  <2> QED
    BY <1>1, <2>2, <2>3 DEF end
<1>9. \A s \in Due : /\ [kind |-> "updated", sub |-> s, n |-> truth[s].changes + 1] \in events'
                     /\ Allowed(truth[s].status, truth'[s].status, "updated")
  BY <1>3, <1>4, <1>6 DEF Allowed, Bills
<1>10. \A s \in Due : truth'[s].status = "active" => truth'[s].end <= paidUntil'
  BY <1>1, <1>3, <1>6, <1>8
<1>11. \A s \in Due : Changes(s)
  BY <1>6, <1>9, <1>10 DEF Changes
<1>12. \A s \in Subs : Goes(s) /\ Moves(s)
  BY <1>5, <1>11 DEF Goes, Moves
<1>13. \A x \in events' \ events :
          \E s \in Due : x = [kind |-> "updated", sub |-> s, n |-> truth[s].changes + 1]
  BY <1>4
<1>14. \A x \in events' \ events :
          /\ x.n = truth'[x.sub].changes /\ Changes(x.sub)
          /\ Allowed(truth[x.sub].status, truth'[x.sub].status, x.kind)
          /\ x \in Event
  <2>1. SUFFICES ASSUME NEW x \in events' \ events
                 PROVE  /\ x.n = truth'[x.sub].changes /\ Changes(x.sub)
                        /\ Allowed(truth[x.sub].status, truth'[x.sub].status, x.kind)
                        /\ x \in Event
    OBVIOUS
  <2>2. PICK s \in Due : x = [kind |-> "updated", sub |-> s, n |-> truth[s].changes + 1]
    BY <1>13
  <2>3. x.sub = s /\ x.n = truth[s].changes + 1 /\ x.kind = "updated"
    BY <2>2
  <2>4. x \in Event
    BY <1>1, <1>3, <2>2 DEF Event
  <2> QED
    BY <1>6, <1>9, <1>11, <2>3, <2>4
<1>15. events \subseteq events' /\ events' \subseteq Event
  BY <1>1, <1>4, <1>14
<1> QED
  BY <1>1, <1>4, <1>7, <1>8, <1>12, <1>14, <1>15 DEF StripeMoves, ghosts

LEMMA CheckoutMoves ==
    ASSUME TypeInv, NEW s \in Subs, Checkout(s)
    PROVE  StripeMoves /\ Offered(s) /\ \A t \in Subs \ {s} : truth'[t] = truth[t]
<1>1. /\ truth \in [Subs -> Truth] /\ events \subseteq Event /\ clock \in Nat /\ paidUntil \in Nat
      /\ truth[s] \in Truth
  BY DEF TypeInv, BillingTypeOK
<1>2. truth' = [truth EXCEPT ![s].status = "offered"]
      /\ UNCHANGED <<events, handlers, row, clock, paidUntil, overlapped, seen>>
  BY DEF Checkout
<1>3. truth'[s] = [truth[s] EXCEPT !.status = "offered"]
      /\ \A t \in Subs \ {s} : truth'[t] = truth[t]
  BY <1>1, <1>2
<1>4. truth'[s] \in Truth /\ truth' \in [Subs -> Truth] /\ Offered(s)
  BY <1>1, <1>2, <1>3 DEF Truth, Offered, Checkout
<1> QED
  BY <1>1, <1>2, <1>3, <1>4 DEF StripeMoves, Moves, Goes

-----------------------------------------------------------------------------
(* The types.                                                              *)

LEMMA InitTypes == BillingInit => TypeInv
<1> SUFFICES ASSUME BillingInit PROVE TypeInv
  OBVIOUS
<1>1. [status |-> "none", end |-> 0, changes |-> 0] \in Truth
  BY DEF Truth
<1>2. truth \in [Subs -> Truth]
  BY <1>1 DEF BillingInit
<1> QED
  BY <1>2 DEF BillingInit, TypeInv, BillingTypeOK, EventsKnown

\* What was true of an event's subscription is still.
LEMMA KnownStays ==
    ASSUME BillingTypeOK, StripeMoves, NEW e \in Event, Known(e)
    PROVE  Known(e)'
<1>1. e.sub \in Subs /\ e.n \in Nat /\ truth[e.sub].changes \in Nat
  BY DEF BillingTypeOK, Event, Truth
<1>2. Goes(e.sub)
  BY <1>1, StatusFacts DEF StripeMoves, Moves, Offered, Known
<1>3. CASE truth'[e.sub] = truth[e.sub]
  BY <1>3 DEF Known
<1>4. CASE Changes(e.sub)
  <2>1. truth'[e.sub].changes = truth[e.sub].changes + 1
        /\ truth[e.sub].status # "canceled" /\ truth'[e.sub].status \in Statuses
    BY <1>4 DEF Changes, Allowed, Bills, Statuses, Ended
  <2> QED
    BY <1>1, <2>1 DEF Known
<1> QED
  BY <1>2, <1>3, <1>4 DEF Goes

LEMMA NewKnown ==
    ASSUME BillingTypeOK, StripeMoves, NEW e \in events' \ events
    PROVE  Known(e)'
<1>1. /\ e.n = truth'[e.sub].changes
      /\ Allowed(truth[e.sub].status, truth'[e.sub].status, e.kind)
  BY DEF StripeMoves
<1>2. e.n \in Nat /\ e.sub \in Subs
  BY DEF StripeMoves, Event
<1>3. /\ truth'[e.sub].status \in Statuses
      /\ e.kind = "deleted" => truth'[e.sub].status = "canceled"
  BY <1>1 DEF Allowed, Bills, Statuses, Ended
<1> QED
  BY <1>1, <1>2, <1>3 DEF Known

LEMMA StripeTypes ==
    ASSUME TypeInv, StripeMoves, raced' \in BOOLEAN
    PROVE  TypeInv'
<1>1. BillingTypeOK /\ EventsKnown
  BY DEF TypeInv
<1>2. BillingTypeOK'
  BY <1>1 DEF BillingTypeOK, StripeMoves
<1>3. \A e \in events' : Known(e)'
  <2>1. \A e \in events : e \in Event /\ Known(e)
    BY <1>1 DEF BillingTypeOK, EventsKnown
  <2> QED
    BY <1>1, <2>1, KnownStays, NewKnown
<1>4. \A h \in handlers' : Known(h.event)' /\ Stage(h)
  <2>1. \A h \in handlers : h.event \in Event /\ Known(h.event) /\ Stage(h)
    BY <1>1 DEF BillingTypeOK, EventsKnown, Handler
  <2>2. handlers' = handlers
    BY DEF StripeMoves
  <2> QED
    BY <1>1, <2>1, <2>2, KnownStays
<1>5. row # NoRow => truth'[row.sub].status \in Statuses
  <2>1. SUFFICES ASSUME row # NoRow PROVE truth'[row.sub].status \in Statuses
    OBVIOUS
  <2>2. row.sub \in Subs /\ truth[row.sub].status \in Statuses
    BY <1>1, <2>1 DEF BillingTypeOK, EventsKnown, Row
  <2>3. Moves(row.sub)
    BY <2>2 DEF StripeMoves
  <2> QED
    BY <2>2, <2>3, StatusFacts
       DEF Moves, Goes, Offered, Changes, Allowed, Statuses, Bills, Ended
<1>6. row' = row
  BY DEF StripeMoves
<1> QED
  BY <1>2, <1>3, <1>4, <1>5, <1>6 DEF TypeInv, EventsKnown, Stage

\* The handler Deliver starts.
Started(e) ==
    [event |-> e, stage |-> IF e.kind = "deleted" THEN "write" ELSE "retrieve",
     status |-> "canceled", end |-> truth[e.sub].end]

\* The handler h after Stripe's answer.
Answered(h) ==
    [h EXCEPT !.stage = "write", !.status = truth[h.event.sub].status,
              !.end = truth[h.event.sub].end]

LEMMA HandlerFacts ==
    ASSUME TypeInv
    PROVE  /\ \A e \in events : /\ Started(e) \in Handler /\ Started(e).event = e
                                /\ Started(e).status = "canceled"
                                /\ Started(e).stage = "write" <=> e.kind = "deleted"
           /\ \A h \in handlers : h.stage = "retrieve" =>
                 /\ Answered(h) \in Handler /\ Answered(h).event = h.event
                 /\ Answered(h).stage = "write" /\ h.event.kind # "deleted"
                 /\ Answered(h).status = truth[h.event.sub].status
                 /\ Answered(h).end = truth[h.event.sub].end
           /\ \A h \in handlers : h \in Handler /\ h.event \in Event /\ h.event.sub \in Subs
<1>1. ASSUME NEW e \in events
      PROVE  /\ Started(e) \in Handler /\ Started(e).event = e
             /\ Started(e).status = "canceled"
             /\ Started(e).stage = "write" <=> e.kind = "deleted"
  <2>1. e \in Event /\ truth[e.sub].end \in Nat
    BY DEF TypeInv, BillingTypeOK, Event, Truth
  <2> QED
    BY <2>1 DEF Started, Handler, Statuses, Ended
<1>2. ASSUME NEW h \in handlers
      PROVE  h \in Handler /\ h.event \in Event /\ h.event.sub \in Subs
  BY DEF TypeInv, BillingTypeOK, Handler, Event
<1>3. ASSUME NEW h \in handlers, h.stage = "retrieve"
      PROVE  /\ Answered(h) \in Handler /\ Answered(h).event = h.event
             /\ Answered(h).stage = "write" /\ h.event.kind # "deleted"
             /\ Answered(h).status = truth[h.event.sub].status
             /\ Answered(h).end = truth[h.event.sub].end
  <2>1. h \in Handler /\ h.event.sub \in Subs
    BY <1>2
  <2>2. truth[h.event.sub].status \in Statuses /\ truth[h.event.sub].end \in Nat
    BY <2>1 DEF TypeInv, BillingTypeOK, EventsKnown, Known, Truth
  <2>3. h.event.kind # "deleted"
    BY <1>3 DEF TypeInv, EventsKnown, Stage
  <2> QED
    BY <2>1, <2>2, <2>3 DEF Answered, Handler
<1> QED
  BY <1>1, <1>2, <1>3

\* What a write may leave in the row: what was there, or the handler's
\* subscription with what the handler knows of it.
LEMMA WriteRow ==
    ASSUME TypeInv, NEW h \in handlers, Write(h)
    PROVE  \/ row' = row
           \/ row' \in Row /\ row'.sub = h.event.sub /\ row'.status = h.status /\ row'.end = h.end
<1>1. h \in Handler /\ h.event.sub \in Subs /\ h.event.sub # NoSub
  BY HandlerFacts, BillingAssumption
<1>2. [sub |-> h.event.sub, status |-> h.status, end |-> h.end] \in Row
  BY <1>1 DEF Handler, Row
<1>3. CASE row' = Upsert(h)
  BY <1>2, <1>3 DEF Upsert
<1>4. CASE row' = Update(h)
  <2>1. CASE row.sub = h.event.sub /\ row.status \notin Ended
    <3>1. row \in Row
      BY <1>1, <2>1 DEF TypeInv, BillingTypeOK, NoRow
    <3>2. row' = [row EXCEPT !.status = h.status, !.end = h.end]
      BY <1>4, <2>1 DEF Update
    <3> QED
      BY <1>1, <2>1, <3>1, <3>2 DEF Row, Handler
  <2>2. CASE ~(row.sub = h.event.sub /\ row.status \notin Ended)
    BY <1>4, <2>2 DEF Update
  <2> QED
    BY <2>1, <2>2
<1> QED
  BY <1>3, <1>4 DEF Write

\* The row's new word is seen.
SeesRow == seen' = seen \cup (IF row'.status \in Bills THEN {row'.sub} ELSE {})

\* A handler starts, hears Stripe's answer, fails or writes.
LEMMA WebhookCases ==
    ASSUME (\E e \in events : Deliver(e)) \/ (\E h \in handlers : Webhook(h))
    PROVE  /\ UNCHANGED <<truth, clock, paidUntil, raced>>
           /\ \/ \E e \in events : /\ handlers' = handlers \cup {Started(e)}
                                   /\ overlapped' = (overlapped \/ handlers # {})
                                   /\ UNCHANGED <<events, row, seen>>
              \/ \E h \in handlers : /\ handlers' = (handlers \ {h}) \cup {Answered(h)}
                                     /\ h.stage = "retrieve"
                                     /\ UNCHANGED <<events, row, overlapped, seen>>
              \/ /\ handlers' \subseteq handlers
                 /\ UNCHANGED <<events, row, overlapped, seen>>
              \/ \E h \in handlers : /\ Write(h) /\ handlers' = handlers \ {h}
                                     /\ h.stage = "write"
                                     /\ events' \in {events, events \ {h.event}}
                                     /\ SeesRow /\ UNCHANGED overlapped
BY DEF Deliver, Webhook, Retrieve, WebhookFails, Write, Started, Answered, SeesRow,
       stripe, ghosts

LEMMA WebhookTypes ==
    ASSUME TypeInv, (\E e \in events : Deliver(e)) \/ (\E h \in handlers : Webhook(h))
    PROVE  TypeInv'
<1>1. BillingTypeOK /\ EventsKnown /\ UNCHANGED <<truth, clock, paidUntil, raced>>
  BY WebhookCases DEF TypeInv
<1>2. events' \subseteq events
  BY WebhookCases
<1>3. handlers' \subseteq Handler /\ \A h \in handlers' : Known(h.event) /\ Stage(h)
  <2>1. \A h \in handlers : h \in Handler /\ Known(h.event) /\ Stage(h)
    BY <1>1, HandlerFacts DEF EventsKnown
  <2>2. \A e \in events : Started(e) \in Handler /\ Known(Started(e).event) /\ Stage(Started(e))
    BY <1>1, HandlerFacts DEF EventsKnown, Stage
  <2>3. \A h \in handlers : h.stage = "retrieve" =>
          Answered(h) \in Handler /\ Known(Answered(h).event) /\ Stage(Answered(h))
    BY <2>1, HandlerFacts DEF Stage
  <2> QED
    BY <2>1, <2>2, <2>3, WebhookCases
<1>4. row' \in Row \cup {NoRow} /\ (row' # NoRow => truth[row'.sub].status \in Statuses)
  <2>1. CASE row' = row
    BY <1>1, <2>1 DEF BillingTypeOK, EventsKnown
  <2>2. CASE \E h \in handlers : Write(h)
    <3>1. PICK h \in handlers : Write(h)
      BY <2>2
    <3>2. Known(h.event)
      BY <1>1 DEF EventsKnown
    <3>3. CASE row' \in Row /\ row'.sub = h.event.sub
      BY <3>2, <3>3 DEF Known
    <3> QED
      BY <2>1, <3>1, <3>3, WriteRow
  <2> QED
    BY <2>1, <2>2, WebhookCases
<1>5. overlapped' \in BOOLEAN /\ seen' \subseteq Subs
  <2>1. row'.status \in Bills => row'.sub \in Subs
    BY <1>4 DEF Row, NoRow, Bills
  <2> QED
    BY <1>1, <2>1, WebhookCases DEF BillingTypeOK, SeesRow
<1>6. BillingTypeOK'
  BY <1>1, <1>2, <1>3, <1>4, <1>5 DEF BillingTypeOK
<1>7. EventsKnown'
  BY <1>1, <1>2, <1>3, <1>4 DEF EventsKnown, Known, Stage
<1> QED
  BY <1>6, <1>7 DEF TypeInv

\* A step is Stripe's, a checkout, a tick or a webhook's.
LEMMA NextTypes == TypeInv /\ [BillingNext]_billingVars => TypeInv'
<1> SUFFICES ASSUME TypeInv, [BillingNext]_billingVars PROVE TypeInv'
  OBVIOUS
<1>1. raced \in BOOLEAN
  BY DEF TypeInv, BillingTypeOK
<1>2. CASE UNCHANGED billingVars
  BY <1>2 DEF billingVars, TypeInv, BillingTypeOK, EventsKnown, Known, Stage
<1>3. CASE Tick
  BY <1>1, <1>3, TickMoves, StripeTypes
<1>4. ASSUME NEW s \in Subs, Checkout(s)
      PROVE  TypeInv'
  <2>1. raced' \in BOOLEAN
    BY <1>1, <1>4 DEF Checkout
  <2> QED
    BY <1>4, <2>1, CheckoutMoves, StripeTypes
<1>5. ASSUME NEW s \in Subs, Stripe(s)
      PROVE  TypeInv'
  BY <1>1, <1>5, StripeStepMoves, StripeTypes
<1>6. CASE (\E e \in events : Deliver(e)) \/ (\E h \in handlers : Webhook(h))
  BY <1>6, WebhookTypes
<1> QED
  BY <1>2, <1>3, <1>4, <1>5, <1>6 DEF BillingNext
-----------------------------------------------------------------------------
(* Access.                                                                 *)

\* Whoever says that a period is paid names one that Stripe held as paid.
PaidInv ==
    /\ \A s \in Subs : truth[s].status = "active" => truth[s].end <= paidUntil
    /\ \A h \in handlers : h.status = "active" => h.end <= paidUntil
    /\ row.status = "active" => row.end <= paidUntil

\* The cases of a step.
LEMMA NextCases ==
    ASSUME TypeInv, [BillingNext]_billingVars
    PROVE  \/ UNCHANGED billingVars
           \/ StripeMoves
           \/ (\E e \in events : Deliver(e)) \/ (\E h \in handlers : Webhook(h))
BY TickMoves, CheckoutMoves, StripeStepMoves DEF BillingNext

LEMMA NextPaid ==
    ASSUME TypeInv, PaidInv, [BillingNext]_billingVars
    PROVE  PaidInv'
<1>1. /\ BillingTypeOK /\ paidUntil \in Nat
      /\ \A s \in Subs : truth[s].end \in Nat
      /\ \A h \in handlers : h.end \in Nat
      /\ row.end \in Nat
  BY HandlerFacts DEF TypeInv, BillingTypeOK, Truth, Handler, Row, NoRow
<1>2. CASE UNCHANGED billingVars
  BY <1>2 DEF billingVars, PaidInv
<1>3. CASE StripeMoves
  <2>1. paidUntil' \in Nat /\ paidUntil <= paidUntil' /\ UNCHANGED <<handlers, row>>
        /\ \A s \in Subs : Moves(s)
    BY <1>3 DEF StripeMoves
  <2>2. \A n \in Nat : n <= paidUntil => n <= paidUntil'
    BY <1>1, <2>1
  <2>3. ASSUME NEW s \in Subs, truth'[s].status = "active"
        PROVE  truth'[s].end <= paidUntil'
    <3>1. Moves(s)
      BY <2>1
    <3>2. CASE truth'[s] = truth[s]
      BY <1>1, <2>2, <2>3, <3>2 DEF PaidInv
    <3>3. CASE Offered(s)
      BY <2>3, <3>3 DEF Offered
    <3>4. CASE Changes(s)
      BY <2>3, <3>4 DEF Changes
    <3> QED
      BY <3>1, <3>2, <3>3, <3>4 DEF Moves, Goes
  <2> QED
    BY <1>1, <2>1, <2>2, <2>3 DEF PaidInv
<1>4. CASE (\E e \in events : Deliver(e)) \/ (\E h \in handlers : Webhook(h))
  <2>1. UNCHANGED <<truth, paidUntil>>
    BY <1>4, WebhookCases
  <2>2. \A h \in handlers' : h.status = "active" => h.end <= paidUntil
    <3>1. \A h \in handlers : h.status = "active" => h.end <= paidUntil
      BY DEF PaidInv
    <3>2. \A e \in events : Started(e).status # "active"
      BY HandlerFacts
    <3>3. \A h \in handlers : h.stage = "retrieve" =>
             (Answered(h).status = "active" => Answered(h).end <= paidUntil)
      BY HandlerFacts DEF PaidInv
    <3> QED
      BY <1>4, <3>1, <3>2, <3>3, WebhookCases
  <2>3. row'.status = "active" => row'.end <= paidUntil
    <3>1. CASE row' = row
      BY <3>1 DEF PaidInv
    <3>2. ASSUME NEW h \in handlers, Write(h)
          PROVE  row'.status = "active" => row'.end <= paidUntil
      BY <3>1, <3>2, WriteRow DEF PaidInv
    <3> QED
      BY <1>4, <3>1, <3>2, WebhookCases
  <2> QED
    BY <2>1, <2>2, <2>3 DEF PaidInv
<1> QED
  BY <1>2, <1>3, <1>4, NextCases

\* The gate of every sync request opens only in a period that was paid for,
\* however late, repeated, overlapping or out of order the webhooks are.
THEOREM AccessWasPaidAlways == BillingSpec => []AccessWasPaid
<1>1. BillingInit => PaidInv
  BY DEF BillingInit, PaidInv, NoRow
<1>2. TypeInv /\ PaidInv => AccessWasPaid
  <2> SUFFICES ASSUME TypeInv, PaidInv, SubscriptionActive PROVE clock < paidUntil
    BY DEF AccessWasPaid
  <2>1. row.end \in Nat /\ clock \in Nat /\ paidUntil \in Nat
    BY DEF TypeInv, BillingTypeOK, Row, NoRow
  <2>2. row.end <= paidUntil /\ row.end > clock
    BY DEF PaidInv, SubscriptionActive
  <2> QED
    BY <2>1, <2>2
<1> QED
  BY <1>1, <1>2, InitTypes, NextTypes, NextPaid, PTL DEF BillingSpec

-----------------------------------------------------------------------------
(* What a handler and the row may say.                                     *)

\* What a handler or the row says of s: an end is final, and what was said to
\* bill did bill.
Honest(r, s) ==
    /\ r.status \in Ended => truth[s].status = r.status
    /\ r.status \in Bills => truth[s].status \in Bills \cup Ended

HonestRow == row # NoRow => Honest(row, row.sub)
HonestHandlers == \A h \in handlers : h.stage = "write" => Honest(h, h.event.sub)
HonestSeen == \A s \in seen : truth[s].status \in Bills \cup Ended

HonestInv == HonestRow /\ HonestHandlers /\ HonestSeen

\* The same of Stripe's next state.
HonestNext(r, s) ==
    /\ r.status \in Ended => truth'[s].status = r.status
    /\ r.status \in Bills => truth'[s].status \in Bills \cup Ended

\* An honest statement stays honest while Stripe's side moves.
LEMMA HonestStays ==
    ASSUME NEW s, Moves(s), truth[s].status \in Statuses, NEW r, Honest(r, s)
    PROVE  HonestNext(r, s)
<1>1. CASE truth'[s] = truth[s]
  BY <1>1 DEF Honest, HonestNext
<1>2. CASE Changes(s)
  <2>1. /\ truth[s].status \notin Ended
        /\ truth[s].status \in Bills => truth'[s].status \in Bills \cup Ended
    BY <1>2 DEF Changes, Allowed, Bills, Ended
  <2> QED
    BY <1>2, <2>1, StatusFacts DEF Honest, HonestNext
<1> QED
  BY <1>1, <1>2, StatusFacts DEF Moves, Goes, Offered

LEMMA StripeHonest ==
    ASSUME TypeInv, HonestInv, StripeMoves
    PROVE  HonestInv'
<1>1. BillingTypeOK /\ EventsKnown /\ seen \subseteq Subs
  BY DEF TypeInv, BillingTypeOK
<1>2. UNCHANGED <<handlers, row, seen>> /\ \A s \in Subs : Moves(s)
  BY DEF StripeMoves
<1>3. HonestRow'
  <2>1. SUFFICES ASSUME row # NoRow PROVE Honest(row, row.sub)'
    BY <1>2 DEF HonestRow
  <2>2. row.sub \in Subs /\ truth[row.sub].status \in Statuses /\ Honest(row, row.sub)
    BY <1>1, <2>1 DEF BillingTypeOK, EventsKnown, Row, HonestInv, HonestRow
  <2>3. HonestNext(row, row.sub)
    BY <1>2, <2>2, HonestStays
  <2> QED
    BY <1>2, <2>3 DEF Honest, HonestNext
<1>4. HonestHandlers'
  <2>1. SUFFICES ASSUME NEW h \in handlers, h.stage = "write" PROVE Honest(h, h.event.sub)'
    BY <1>2 DEF HonestHandlers
  <2>2. h.event.sub \in Subs /\ truth[h.event.sub].status \in Statuses
        /\ Honest(h, h.event.sub)
    BY <1>1, <2>1, HandlerFacts DEF EventsKnown, Known, HonestInv, HonestHandlers
  <2>3. HonestNext(h, h.event.sub)
    BY <1>2, <2>2, HonestStays
  <2> QED
    BY <2>3 DEF Honest, HonestNext
<1>5. HonestSeen'
  <2>1. SUFFICES ASSUME NEW s \in seen PROVE truth'[s].status \in Bills \cup Ended
    BY <1>2 DEF HonestSeen
  <2>2. truth[s].status \in Bills \cup Ended /\ Moves(s)
    BY <1>1, <1>2 DEF HonestInv, HonestSeen
  <2> QED
    BY <2>2 DEF Moves, Goes, Offered, Changes, Allowed, Bills, Ended
<1> QED
  BY <1>3, <1>4, <1>5 DEF HonestInv

LEMMA WebhookHonest ==
    ASSUME TypeInv, HonestInv, (\E e \in events : Deliver(e)) \/ (\E h \in handlers : Webhook(h))
    PROVE  HonestInv'
<1>1. BillingTypeOK /\ EventsKnown /\ UNCHANGED <<truth, raced>>
  BY WebhookCases DEF TypeInv
<1>2. \A h \in handlers' : h.stage = "write" => Honest(h, h.event.sub)
  <2>1. \A h \in handlers : h.stage = "write" => Honest(h, h.event.sub)
    BY DEF HonestInv, HonestHandlers
  <2>2. ASSUME NEW e \in events, Started(e).stage = "write"
        PROVE  Honest(Started(e), e.sub)
    <3>1. e.kind = "deleted" /\ Started(e).status = "canceled"
      BY <2>2, HandlerFacts
    <3>2. truth[e.sub].status = "canceled"
      BY <1>1, <3>1 DEF EventsKnown, Known
    <3> QED
      BY <3>1, <3>2 DEF Honest, Bills
  <2>3. \A h \in handlers : h.stage = "retrieve" => Honest(Answered(h), h.event.sub)
    BY HandlerFacts DEF Honest
  <2> QED
    BY <2>1, <2>2, <2>3, WebhookCases, HandlerFacts
<1>3. row' # NoRow => Honest(row', row'.sub)
  <2>1. CASE row' = row
    BY <2>1 DEF HonestInv, HonestRow
  <2>2. ASSUME NEW h \in handlers, Write(h)
        PROVE  row' # NoRow => Honest(row', row'.sub)
    <3>1. h.stage = "write" /\ Honest(h, h.event.sub)
      BY <2>2 DEF Write, HonestInv, HonestHandlers
    <3>2. CASE row'.sub = h.event.sub /\ row'.status = h.status
      BY <3>1, <3>2 DEF Honest
    <3> QED
      BY <2>1, <2>2, <3>2, WriteRow
  <2> QED
    BY <2>1, <2>2, WebhookCases
<1>4. \A s \in seen' : truth[s].status \in Bills \cup Ended
  <2>1. row'.status \in Bills => truth[row'.sub].status \in Bills \cup Ended
    <3>1. NoRow.status \notin Bills
      BY DEF NoRow, Bills
    <3> QED
      BY <1>3, <3>1 DEF Honest
  <2> QED
    BY <2>1, WebhookCases DEF SeesRow, HonestInv, HonestSeen
<1> QED
  BY <1>1, <1>2, <1>3, <1>4 DEF HonestInv, HonestRow, HonestHandlers, HonestSeen, Honest

LEMMA NextHonest ==
    ASSUME TypeInv, HonestInv, [BillingNext]_billingVars
    PROVE  HonestInv'
<1>1. CASE UNCHANGED billingVars
  BY <1>1 DEF billingVars, HonestInv, HonestRow, HonestHandlers, HonestSeen, Honest
<1> QED
  BY <1>1, NextCases, StripeHonest, WebhookHonest

LEMMA InitHonest == BillingInit => HonestInv
BY DEF BillingInit, HonestInv, HonestRow, HonestHandlers, HonestSeen

-----------------------------------------------------------------------------
(* The row settles on the truth, and names the one that bills.             *)

\* At most one subscription is open or offered.
OneLive ==
    ~raced => \A s, t \in Subs : (truth[s].status \in Live /\ truth[t].status \in Live) => s = t

\* r says of s what Stripe holds.
Says(r, s) == r.status = truth[s].status /\ (r.status \notin Ended => r.end = truth[s].end)

\* An event of s is still to be acknowledged.
Awaited(S, s) == \E e \in S : e.sub = s
CompletionAwaited(S, s) == \E e \in S : e.kind = "completed" /\ e.sub = s

OneHandler == \A g, h \in handlers : g = h
RowTrue == row # NoRow => Says(row, row.sub) \/ Awaited(events, row.sub)
HandlerTrue ==
    \A h \in handlers : h.stage = "write" =>
        Says(h, h.event.sub) \/ Awaited(events \ {h.event}, h.event.sub)
\* No handler is about to unsay that a subscription bills.
UnsaysNone ==
    \A h \in handlers : h.stage = "write" /\ h.status = "incomplete" => h.event.sub \notin seen

Settling == OneHandler /\ RowTrue /\ HandlerTrue /\ UnsaysNone

RowNamesOpen ==
    \A s \in Subs : truth[s].status \in Open => row.sub = s \/ CompletionAwaited(events, s)
\* A completion about to be written displaces no other open subscription.
DisplacesNone ==
    \A h \in handlers :
        (h.stage = "write" /\ h.event.kind = "completed" /\ h.status \notin Ended) =>
        \A s \in Subs : (truth[s].status \in Open /\ row.sub = s) => s = h.event.sub
\* What was seen to bill, and bills, is still in the row.
SeenNamed ==
    \A s \in seen : truth[s].status \in Bills => row.sub = s /\ row.status \in Bills

Naming == RowNamesOpen /\ DisplacesNone /\ SeenNamed

SettleInv == /\ ~overlapped => Settling
             /\ ~overlapped /\ ~raced => Naming

LEMMA InitSettle == BillingInit => OneLive /\ SettleInv
BY DEF BillingInit, OneLive, Live, SettleInv, Settling, Naming, OneHandler, RowTrue, HandlerTrue,
       UnsaysNone, RowNamesOpen, DisplacesNone, SeenNamed, Open, Bills

\* A checkout that begins when none is under way finds nothing live: what bills
\* was seen to, and the row still says so and refuses.
LEMMA NextOneLive ==
    ASSUME TypeInv, HonestInv, OneLive, SettleInv, [BillingNext]_billingVars
    PROVE  OneLive'
<1>1. BillingTypeOK
  BY DEF TypeInv
<1>2. CASE UNCHANGED billingVars
  BY <1>2 DEF billingVars, OneLive
<1>3. ASSUME \A s \in Subs : Goes(s), UNCHANGED raced
      PROVE  OneLive'
  <2>1. \A s \in Subs : truth'[s].status \in Live => truth[s].status \in Live
    <3>1. SUFFICES ASSUME NEW s \in Subs, truth'[s].status \in Live
                   PROVE  truth[s].status \in Live
      OBVIOUS
    <3>2. CASE truth'[s] = truth[s]
      BY <3>1, <3>2
    <3>3. CASE Changes(s)
      BY <3>3 DEF Changes, Allowed, Live, Open, Bills
    <3> QED
      BY <1>3, <3>2, <3>3 DEF Goes
  <2> QED
    BY <1>3, <2>1 DEF OneLive
<1>4. ASSUME NEW s \in Subs, Checkout(s)
      PROVE  OneLive'
  <2>1. SUFFICES ASSUME ~raced' PROVE OneLive'
    BY DEF OneLive
  <2>2. ~raced /\ Underway = {} /\ row.status \in Resubscribable
    BY <1>4, <2>1 DEF Checkout
  <2>3. ASSUME NEW t \in Subs, truth[t].status \in Live
        PROVE  FALSE
    <3>1. truth[t].status \in Bills /\ ~Unseen(t)
      BY <2>2, <2>3 DEF Underway, Live, Open
    <3>2. t \in seen
      BY <3>1 DEF Unseen
    <3>3. CASE ~overlapped
      <4>1. row.status \in Bills
        BY <2>2, <3>1, <3>2, <3>3 DEF SettleInv, Naming, SeenNamed
      <4> QED
        BY <2>2, <4>1, StatusFacts
    <3>4. CASE overlapped
      <4>1. row.sub = t /\ row.status # "incomplete"
        BY <3>1, <3>4 DEF Unseen
      <4>2. row # NoRow
        BY <4>1, BillingAssumption DEF NoRow
      <4>3. row.status \in Ended
        BY <2>2, <4>1 DEF Resubscribable
      <4>4. truth[t].status \in Ended
        BY <4>1, <4>2, <4>3 DEF HonestInv, HonestRow, Honest
      <4> QED
        BY <3>1, <4>4 DEF Bills, Ended
    <3> QED
      BY <3>3, <3>4
  <2>4. \A t \in Subs \ {s} : truth'[t] = truth[t]
    BY <1>4, CheckoutMoves
  <2> QED
    BY <2>3, <2>4 DEF OneLive
<1>5. CASE Tick
  BY <1>3, <1>5, TickMoves
<1>6. ASSUME NEW s \in Subs, Stripe(s)
      PROVE  OneLive'
  BY <1>3, <1>6, StripeStepMoves
<1>7. CASE (\E e \in events : Deliver(e)) \/ (\E h \in handlers : Webhook(h))
  BY <1>7, WebhookCases DEF OneLive
<1> QED
  BY <1>2, <1>4, <1>5, <1>6, <1>7 DEF BillingNext

\* Whatever Stripe changes, its event is awaited.
LEMMA StripeSettles ==
    ASSUME TypeInv, HonestInv, StripeMoves
    PROVE  /\ Settling => Settling'
           /\ Naming => Naming'
<1>1. /\ UNCHANGED <<handlers, row, seen>> /\ events \subseteq events' /\ \A s \in Subs : Moves(s)
  BY DEF StripeMoves
<1>2. row # NoRow => row.sub \in Subs /\ truth[row.sub].status \in Statuses
  BY DEF TypeInv, BillingTypeOK, EventsKnown, Row
<1>3. \A h \in handlers : /\ h.event.sub \in Subs /\ h.event \in Event
                          /\ truth[h.event.sub].status \in Statuses
                          /\ h.event.n <= truth[h.event.sub].changes
  BY HandlerFacts DEF TypeInv, EventsKnown, Known
<1>4. \A s \in Subs : truth[s].status \in Statuses => Goes(s)
  BY <1>1, StatusFacts DEF Moves, Offered
<1>5. \A s \in Subs : Changes(s) =>
         \E e \in events' : e.sub = s /\ e.n = truth[s].changes + 1
                            /\ Allowed(truth[s].status, truth'[s].status, e.kind)
  BY DEF Changes
<1>6. Settling => OneHandler' /\ UnsaysNone'
  BY <1>1 DEF Settling, OneHandler, UnsaysNone
<1>7. Settling => RowTrue'
  <2>1. SUFFICES ASSUME Settling, row # NoRow
                 PROVE  Says(row, row.sub)' \/ Awaited(events, row.sub)'
    BY <1>1 DEF RowTrue
  <2>2. row.sub \in Subs /\ Goes(row.sub) /\ (Says(row, row.sub) \/ Awaited(events, row.sub))
    BY <1>2, <1>4, <2>1 DEF Settling, RowTrue
  <2>3. CASE truth'[row.sub] = truth[row.sub]
    BY <1>1, <2>2, <2>3 DEF Says, Awaited
  <2>4. CASE Changes(row.sub)
    BY <1>1, <1>5, <2>2, <2>4 DEF Awaited
  <2> QED
    BY <2>2, <2>3, <2>4 DEF Goes
<1>8. Settling => HandlerTrue'
  <2>1. SUFFICES ASSUME Settling, NEW h \in handlers, h.stage = "write"
                 PROVE  Says(h, h.event.sub)' \/ Awaited(events \ {h.event}, h.event.sub)'
    BY <1>1 DEF HandlerTrue
  <2> DEFINE s == h.event.sub
  <2>2. /\ s \in Subs /\ Goes(s) /\ (Says(h, s) \/ Awaited(events \ {h.event}, s))
        /\ h.event.n <= truth[s].changes /\ truth[s].changes \in Nat /\ h.event.n \in Nat
    BY <1>3, <1>4, <2>1 DEF Settling, HandlerTrue, TypeInv, BillingTypeOK, Truth, Event
  <2>3. CASE truth'[s] = truth[s]
    BY <1>1, <2>2, <2>3 DEF Says, Awaited
  <2>4. CASE Changes(s)
    <3>1. PICK e \in events' : e.sub = s /\ e.n = truth[s].changes + 1
      BY <1>5, <2>2, <2>4
    <3>2. e # h.event
      BY <2>2, <3>1
    <3> QED
      BY <3>1, <3>2 DEF Awaited
  <2> QED
    BY <2>2, <2>3, <2>4 DEF Goes
<1>9. Naming => RowNamesOpen'
  <2>1. SUFFICES ASSUME Naming, NEW s \in Subs, truth'[s].status \in Open
                 PROVE  row.sub = s \/ CompletionAwaited(events', s)
    BY <1>1 DEF RowNamesOpen, CompletionAwaited
  <2>2. CASE truth[s].status \in Open
    BY <1>1, <2>1, <2>2 DEF Naming, RowNamesOpen, CompletionAwaited
  <2>3. CASE truth[s].status \notin Open
    <3>1. Changes(s)
      <4>1. truth'[s].status # "offered"
        BY <2>1 DEF Open, Bills
      <4> QED
        BY <1>1, <2>1, <2>3, <4>1 DEF Moves, Goes, Offered
    <3>2. PICK e \in events' : e.sub = s /\ Allowed(truth[s].status, truth'[s].status, e.kind)
      BY <1>5, <3>1
    <3>3. e.kind = "completed"
      BY <2>3, <3>2 DEF Allowed, Open
    <3> QED
      BY <3>2, <3>3 DEF CompletionAwaited
  <2> QED
    BY <2>2, <2>3
<1>10. Naming => DisplacesNone'
  <2>1. SUFFICES ASSUME Naming, NEW h \in handlers, h.stage = "write", h.event.kind = "completed",
                        h.status \notin Ended,
                        NEW s \in Subs, truth'[s].status \in Open, row.sub = s
                 PROVE  s = h.event.sub
    BY <1>1 DEF DisplacesNone
  <2>2. row # NoRow
    BY <2>1, BillingAssumption DEF NoRow
  <2>3. truth[s].status \in Statuses /\ Goes(s)
    BY <1>2, <1>4, <2>1, <2>2
  <2>4. truth[s].status \in Open
    BY <2>1, <2>3 DEF Goes, Changes, Allowed, Open, Bills, Statuses, Ended
  <2> QED
    BY <2>1, <2>4 DEF Naming, DisplacesNone
<1>11. Naming => SeenNamed'
  <2>1. SUFFICES ASSUME Naming, NEW s \in seen, truth'[s].status \in Bills
                 PROVE  row.sub = s /\ row.status \in Bills
    BY <1>1 DEF SeenNamed
  <2>2. s \in Subs /\ truth[s].status \in Bills \cup Ended
    BY DEF TypeInv, BillingTypeOK, HonestInv, HonestSeen
  <2>3. truth[s].status \in Bills
    BY <1>1, <2>1, <2>2 DEF Moves, Goes, Offered, Changes, Allowed, Bills, Ended
  <2> QED
    BY <2>1, <2>3 DEF Naming, SeenNamed
<1> QED
  BY <1>6, <1>7, <1>8, <1>9, <1>10, <1>11 DEF Settling, Naming

\* The one handler there is writes.
LEMMA WriteSettles ==
    ASSUME TypeInv, HonestInv, Settling, NEW h \in handlers, Write(h)
    PROVE  Settling' /\ (Naming => Naming')
<1> DEFINE s == h.event.sub
           new == [sub |-> s, status |-> h.status, end |-> h.end]
           late == row # NoRow /\ row.sub # s /\ row.status \notin Ended /\ h.status \in Ended
           ours == row.sub = s /\ row.status \notin Ended
<1>1. /\ UNCHANGED truth /\ handlers' = handlers \ {h} /\ h.stage = "write"
      /\ events' \in {events, events \ {h.event}}
      /\ row' = IF h.event.kind = "completed" THEN Upsert(h) ELSE Update(h)
      /\ SeesRow
  BY DEF Write, SeesRow
<1>2. handlers' = {}
  BY <1>1 DEF Settling, OneHandler
<1>3. s \in Subs /\ s # NoSub /\ h.event \in Event
  BY HandlerFacts, BillingAssumption
<1>4. row # NoRow => row \in Row /\ row.sub \in Subs
  BY DEF TypeInv, BillingTypeOK, Row
<1>5. NoRow.sub = NoSub
  BY DEF NoRow
<1>6. Says(h, s) \/ Awaited(events \ {h.event}, s)
  BY <1>1 DEF Settling, HandlerTrue
<1>7. h.status \in Ended => truth[s].status = h.status
  BY <1>1 DEF HonestInv, HonestHandlers, Honest
<1>8. row # NoRow /\ row.status \in Ended => truth[row.sub].status = row.status
  BY DEF HonestInv, HonestRow, Honest
<1>9. events \ {h.event} \subseteq events'
  BY <1>1
<1>10. \A e \in events : e.sub # s => e \in events'
  BY <1>9
<1>11. Awaited(events \ {h.event}, s) => Awaited(events', s)
  BY <1>9 DEF Awaited
<1>12. \/ h.event.kind = "completed" /\ late /\ row' = row
       \/ h.event.kind = "completed" /\ ~late /\ row' = new
       \/ h.event.kind # "completed" /\ ours
          /\ row'.sub = s /\ row'.status = h.status /\ row'.end = h.end
       \/ h.event.kind # "completed" /\ ~ours /\ row' = row
  <2>1. CASE h.event.kind = "completed"
    BY <1>1, <2>1 DEF Upsert
  <2>2. CASE h.event.kind # "completed" /\ ~ours
    BY <1>1, <2>2 DEF Update
  <2>3. CASE h.event.kind # "completed" /\ ours
    <3>1. row \in Row
      BY <1>3, <1>4, <1>5, <2>3
    <3>2. row' = [row EXCEPT !.status = h.status, !.end = h.end]
      BY <1>1, <2>3 DEF Update
    <3> QED
      BY <2>3, <3>1, <3>2 DEF Row
  <2> QED
    BY <2>1, <2>2, <2>3
<1>13. RowTrue'
  <2>1. CASE row'.sub = s /\ row'.status = h.status /\ row'.end = h.end
    <3>1. Says(h, s) => Says(row', s)
      BY <2>1 DEF Says
    <3> QED
      BY <1>1, <1>6, <1>11, <2>1, <3>1 DEF RowTrue, Says, Awaited
  <2>2. CASE row' = row /\ row.sub # s
    <3>1. row # NoRow => Says(row, row.sub) \/ Awaited(events, row.sub)
      BY DEF Settling, RowTrue
    <3>2. row # NoRow => Says(row, row.sub) \/ Awaited(events', row.sub)
      BY <1>4, <1>10, <2>2, <3>1 DEF Awaited
    <3> QED
      BY <1>1, <2>2, <3>2 DEF RowTrue, Says, Awaited
  <2>3. CASE row' = row /\ row.sub = s /\ row.status \in Ended
    <3>1. row # NoRow => Says(row, row.sub)
      BY <1>8, <2>3 DEF Says
    <3> QED
      BY <1>1, <2>3, <3>1 DEF RowTrue, Says
  <2> QED
    BY <1>12, <2>1, <2>2, <2>3
<1>14. Naming => RowNamesOpen'
  <2>1. SUFFICES ASSUME Naming, NEW r \in Subs, truth[r].status \in Open
                 PROVE  row'.sub = r \/ CompletionAwaited(events', r)
    BY <1>1 DEF RowNamesOpen, CompletionAwaited
  <2>2. row.sub = r \/ CompletionAwaited(events, r)
    BY <2>1 DEF Naming, RowNamesOpen
  <2>3. truth[r].status \notin Ended
    BY <2>1, StatusFacts
  <2>4. CASE h.event.kind = "completed" /\ late /\ row' = row
    <3>1. r # s
      BY <1>7, <2>3, <2>4
    <3> QED
      BY <1>10, <2>2, <2>4, <3>1 DEF CompletionAwaited
  <2>5. CASE h.event.kind = "completed" /\ ~late /\ row' = new
    <3>1. CASE r = s
      BY <2>5, <3>1
    <3>2. CASE r # s /\ h.status \notin Ended
      <4>1. row.sub # r
        BY <1>1, <2>1, <2>5, <3>2 DEF Naming, DisplacesNone
      <4> QED
        BY <1>10, <2>2, <3>2, <4>1 DEF CompletionAwaited
    <3>3. CASE r # s /\ h.status \in Ended
      <4>1. row.sub # r
        <5>1. SUFFICES ASSUME row.sub = r PROVE FALSE
          OBVIOUS
        <5>2. row # NoRow
          BY <1>5, <2>1, <5>1, BillingAssumption
        <5> QED
          BY <1>8, <2>3, <2>5, <3>3, <5>1, <5>2
      <4> QED
        BY <1>10, <2>2, <3>3, <4>1 DEF CompletionAwaited
    <3> QED
      BY <3>1, <3>2, <3>3
  <2>6. CASE h.event.kind # "completed" /\ row'.sub = row.sub
    <3>1. CompletionAwaited(events, r) => CompletionAwaited(events', r)
      BY <1>9, <2>6 DEF CompletionAwaited
    <3> QED
      BY <2>2, <2>6, <3>1
  <2> QED
    BY <1>12, <2>4, <2>5, <2>6
<1>15. OneHandler' /\ HandlerTrue' /\ UnsaysNone' /\ DisplacesNone'
  BY <1>2 DEF OneHandler, HandlerTrue, UnsaysNone, DisplacesNone
<1>16. Naming => SeenNamed'
  <2>1. SUFFICES ASSUME Naming, NEW r \in seen', truth[r].status \in Bills
                 PROVE  row'.sub = r /\ row'.status \in Bills
    BY <1>1 DEF SeenNamed
  <2>2. CASE r \notin seen
    BY <1>1, <2>2 DEF SeesRow
  <2>3. CASE r \in seen
    <3>1. row.sub = r /\ row.status \in Bills /\ r \in Subs /\ row.status \notin Ended
      BY <2>1, <2>3, StatusFacts DEF Naming, SeenNamed, TypeInv, BillingTypeOK, Bills, Ended
    <3>2. r = s => h.status \in Bills
      <4>1. h.status \in Statuses
        BY HandlerFacts DEF Handler
      <4>2. r = s => h.status # "incomplete"
        BY <1>1, <2>3 DEF Settling, UnsaysNone
      <4>3. r = s => h.status \notin Ended
        BY <1>7, <2>1 DEF Bills, Ended
      <4> QED
        BY <4>1, <4>2, <4>3 DEF Statuses, Bills
    <3>3. CASE row' = row
      BY <3>1, <3>3
    <3>4. CASE h.event.kind = "completed" /\ ~late /\ row' = new
      <4>1. CASE r = s
        BY <3>2, <3>4, <4>1
      <4>2. CASE r # s
        <5>1. row # NoRow
          BY <1>5, <3>1, BillingAssumption
        <5>2. h.status \notin Ended
          BY <3>1, <3>4, <4>2, <5>1
        <5>3. truth[r].status \in Open
          BY <2>1 DEF Open
        <5> QED
          BY <1>1, <2>1, <3>1, <3>4, <4>2, <5>2, <5>3 DEF Naming, DisplacesNone
      <4> QED
        BY <4>1, <4>2
    <3>5. CASE ours /\ row'.sub = s /\ row'.status = h.status
      BY <3>1, <3>2, <3>5
    <3> QED
      BY <1>12, <3>3, <3>4, <3>5
  <2> QED
    BY <2>2, <2>3
<1> QED
  BY <1>13, <1>14, <1>15, <1>16 DEF Settling, Naming

LEMMA WebhookSettles ==
    ASSUME TypeInv, HonestInv, OneLive, SettleInv,
           (\E e \in events : Deliver(e)) \/ (\E h \in handlers : Webhook(h))
    PROVE  SettleInv'
<1> DEFINE Settled == Settling' /\ (~raced => Naming')
<1>2. UNCHANGED <<truth, raced>>
  BY WebhookCases
<1>1. SUFFICES ASSUME ~overlapped'
               PROVE  Settled
  BY <1>2 DEF SettleInv
<1>3. ~overlapped /\ Settling /\ (~raced => Naming)
  BY <1>1, <1>2, WebhookCases DEF SettleInv, TypeInv, BillingTypeOK
<1>4. ASSUME NEW e \in events, handlers' = handlers \cup {Started(e)}, handlers = {},
             UNCHANGED <<events, row, seen>>
      PROVE  Settled
  <2>1. /\ Started(e).event = e /\ Started(e).status = "canceled"
        /\ Started(e).stage = "write" <=> e.kind = "deleted"
        /\ e.kind = "deleted" => truth[e.sub].status = "canceled"
    BY HandlerFacts DEF TypeInv, EventsKnown, Known
  <2>2. handlers' = {Started(e)}
    BY <1>4
  <2>3. OneHandler' /\ HandlerTrue' /\ UnsaysNone' /\ DisplacesNone'
    BY <1>2, <1>4, <2>1, <2>2 DEF OneHandler, HandlerTrue, UnsaysNone, DisplacesNone, Says, Ended
  <2>4. RowTrue' /\ (~raced => RowNamesOpen' /\ SeenNamed')
    BY <1>2, <1>3, <1>4 DEF Settling, Naming, RowTrue, RowNamesOpen, SeenNamed, Says, Awaited,
                            CompletionAwaited
  <2> QED
    BY <2>3, <2>4 DEF Settling, Naming
<1>5. ASSUME NEW h \in handlers, handlers' = (handlers \ {h}) \cup {Answered(h)},
             h.stage = "retrieve", UNCHANGED <<events, row, seen>>
      PROVE  Settled
  <2>1. /\ Answered(h).event = h.event /\ h.event.sub \in Subs
        /\ Answered(h).status = truth[h.event.sub].status
        /\ Answered(h).end = truth[h.event.sub].end
        /\ truth[h.event.sub].status \in Statuses
    BY <1>5, HandlerFacts DEF TypeInv, EventsKnown, Known
  <2>2. handlers' = {Answered(h)}
    BY <1>3, <1>5 DEF Settling, OneHandler
  <2>3. OneHandler' /\ HandlerTrue'
    BY <1>2, <2>1, <2>2 DEF OneHandler, HandlerTrue, Says
  <2>6. UnsaysNone'
    BY <1>5, <2>1, <2>2 DEF UnsaysNone, HonestInv, HonestSeen, Bills, Ended
  <2>4. ~raced => DisplacesNone'
    <3>1. SUFFICES ASSUME ~raced, Answered(h).status \notin Ended,
                          NEW s \in Subs, truth[s].status \in Open
                   PROVE  s = h.event.sub
      BY <1>2, <2>1, <2>2 DEF DisplacesNone
    <3>2. truth[h.event.sub].status \in Live /\ truth[s].status \in Live
      BY <2>1, <3>1, StatusFacts DEF Live
    <3> QED
      BY <2>1, <3>1, <3>2 DEF OneLive
  <2>5. RowTrue' /\ (~raced => RowNamesOpen' /\ SeenNamed')
    BY <1>2, <1>3, <1>5 DEF Settling, Naming, RowTrue, RowNamesOpen, SeenNamed, Says, Awaited,
                            CompletionAwaited
  <2> QED
    BY <2>3, <2>4, <2>5, <2>6 DEF Settling, Naming
<1>6. ASSUME handlers' \subseteq handlers, UNCHANGED <<events, row, seen>>
      PROVE  Settled
  BY <1>2, <1>3, <1>6 DEF Settling, Naming, OneHandler, HandlerTrue, UnsaysNone, DisplacesNone,
                          RowTrue, RowNamesOpen, SeenNamed, Says, Awaited, CompletionAwaited
<1>7. ASSUME NEW h \in handlers, Write(h)
      PROVE  Settled
  BY <1>3, <1>7, WriteSettles
<1> QED
  BY <1>1, <1>4, <1>5, <1>6, <1>7, WebhookCases

LEMMA NextSettle ==
    ASSUME TypeInv, HonestInv, OneLive, SettleInv, [BillingNext]_billingVars
    PROVE  SettleInv'
<1>1. CASE UNCHANGED billingVars
  BY <1>1 DEF billingVars, SettleInv, Settling, Naming, OneHandler, HandlerTrue, UnsaysNone,
              DisplacesNone, RowTrue, RowNamesOpen, SeenNamed, Says, Awaited, CompletionAwaited
<1>2. ASSUME StripeMoves, ~raced' => ~raced
      PROVE  SettleInv'
  BY <1>2, StripeSettles DEF SettleInv, StripeMoves
<1>3. CASE Tick
  BY <1>2, <1>3, TickMoves
<1>4. ASSUME NEW s \in Subs, Checkout(s)
      PROVE  SettleInv'
  <2>1. ~raced' => ~raced
    BY <1>4 DEF Checkout
  <2> QED
    BY <1>2, <1>4, <2>1, CheckoutMoves
<1>5. ASSUME NEW s \in Subs, Stripe(s)
      PROVE  SettleInv'
  BY <1>2, <1>5, StripeStepMoves
<1>6. CASE (\E e \in events : Deliver(e)) \/ (\E h \in handlers : Webhook(h))
  BY <1>6, WebhookSettles
<1> QED
  BY <1>1, <1>3, <1>4, <1>5, <1>6 DEF BillingNext

LEMMA InitBilling == BillingInit => TypeInv /\ HonestInv /\ OneLive /\ SettleInv
BY InitTypes, InitHonest, InitSettle

LEMMA NextBilling ==
    TypeInv /\ HonestInv /\ OneLive /\ SettleInv /\ [BillingNext]_billingVars
    => TypeInv' /\ HonestInv' /\ OneLive' /\ SettleInv'
BY NextTypes, NextHonest, NextOneLive, NextSettle

\* Two subscriptions bill only if a checkout began when another was still open,
\* when a first payment was still to be made, or before a row that lags had ever
\* said that a subscription bills (or after overlapping handlers had unsaid it).
THEOREM NeverBilledTwice == BillingSpec => []NotBilledTwice
<1>1. OneLive => NotBilledTwice
  <2> SUFFICES ASSUME OneLive, ~raced
               PROVE  Cardinality({s \in Subs : truth[s].status \in Bills}) <= 1
    BY DEF NotBilledTwice
  <2> DEFINE B == {s \in Subs : truth[s].status \in Bills}
  <2>1. \A s, t \in B : s = t
    BY DEF OneLive, Live, Open
  <2>2. CASE B = {}
    BY <2>2, FS_EmptySet
  <2>3. ASSUME NEW s \in B
        PROVE  Cardinality(B) = 1
    <3>1. B = {s}
      BY <2>1, <2>3
    <3> QED
      BY <3>1, FS_Singleton
  <2> QED
    BY <2>2, <2>3
<1> QED
  BY <1>1, InitBilling, NextBilling, PTL DEF BillingSpec

\* Unless two handlers have overlapped, the row says what Stripe says once every
\* event has been acknowledged, in whatever order, however often and with
\* whatever failures it was delivered; and unless a checkout has also begun while
\* another was under way, it names the subscription that bills.
THEOREM QuietRowsAreTrue == BillingSpec => []QuietRowIsTrue
<1>1. SettleInv => QuietRowIsTrue
  <2> SUFFICES ASSUME SettleInv, events = {}, ~overlapped
               PROVE  /\ row # NoRow => Says(row, row.sub)
                      /\ ~raced => \A s \in Subs : truth[s].status \in Bills => row.sub = s
    BY DEF QuietRowIsTrue, Quiet, Says
  <2>1. row # NoRow => Says(row, row.sub)
    BY DEF SettleInv, Settling, RowTrue, Awaited
  <2>2. ~raced => \A s \in Subs : truth[s].status \in Bills => row.sub = s
    BY DEF SettleInv, Naming, RowNamesOpen, CompletionAwaited, Open
  <2> QED
    BY <2>1, <2>2
<1> QED
  BY <1>1, InitBilling, NextBilling, PTL DEF BillingSpec

-----------------------------------------------------------------------------
(* Windows.                                                                *)

LEMMA WindowFacts ==
    ASSUME NEW n \in Nat \ {0}, NEW x \in Nat, NEW y \in Nat
    PROVE  /\ x \div n \in Nat
           /\ x <= y => x \div n <= y \div n
           /\ x \div n = y \div n => x < y + n
<1>1. x \div n \in Nat
  OBVIOUS
<1>2. x <= y => x \div n <= y \div n
  OBVIOUS
<1>3. x \div n = y \div n => x < y + n
  OBVIOUS
<1> QED
  BY <1>1, <1>2, <1>3

LEMMA WindowOfClock == clock \in Nat /\ clock <= MaxClock => clock \div NonceWindow \in Windows
<1> SUFFICES ASSUME clock \in Nat, clock <= MaxClock PROVE clock \div NonceWindow \in Windows
  OBVIOUS
<1>1. NonceWindow \in Nat \ {0} /\ MaxClock \in Nat
  BY EntitlementAssumption, BillingAssumption
<1> QED
  BY <1>1, WindowFacts DEF Windows

-----------------------------------------------------------------------------
(* The connector's part of the invariant.                                  *)

\* An attestation, or a request with one: minted at exp - TokenLife, in its
\* window and in a tick that was paid for.
Minted(x) ==
    /\ x.exp - TokenLife \in Nat
    /\ x.window = (x.exp - TokenLife) \div NonceWindow
    /\ x.exp - TokenLife < paidUntil

Minting(w) == nonces[w].expires - NonceWindow - TokenLife

\* A binding stands for an attestation of its window, and a free nonce is new.
Bound(w) ==
    /\ nonces[w].account # NoAccount => Minting(w) \in Nat /\ Minting(w) \div NonceWindow = w
    /\ nonces[w].account = NoAccount => nonces[w].expires = 0

ConnectorTypeOK ==
    /\ tokens \subseteq Token
    /\ nonces \in [Windows -> Binding]
    /\ gate \subseteq Request
    /\ until \in [Accounts -> Nat]
    /\ stamped \in [Windows -> SUBSET Accounts]
    /\ clock <= MaxClock

GateInv ==
    /\ \A t \in tokens : Minted(t)
    /\ \A r \in gate : Minted(r) /\ clock < r.exp
    /\ \A w \in Windows : Bound(w)

FirstInv ==
    /\ \A w \in Windows : stamped[w] \subseteq {nonces[w].account}
    /\ \A r \in gate : r.stage = "stamp" => nonces[r.window].account = r.account

EntInv == TypeInv /\ PaidInv /\ ConnectorTypeOK /\ GateInv /\ FirstInv /\ GraceIsBounded

LEMMA InitEnt == EntitlementInit => EntInv
<1> SUFFICES ASSUME EntitlementInit PROVE EntInv
  OBVIOUS
<1>1. TypeInv /\ PaidInv /\ clock = 0
  BY InitTypes DEF EntitlementInit, BillingInit, PaidInv, NoRow
<1>2. ConnectorTypeOK
  BY <1>1, BillingAssumption DEF EntitlementInit, ConnectorTypeOK, Binding, Unbound
<1>3. GateInv /\ FirstInv /\ GraceIsBounded
  BY DEF EntitlementInit, GateInv, FirstInv, GraceIsBounded, Bound, Unbound
<1> QED
  BY <1>1, <1>2, <1>3 DEF EntInv

\* The connector's steps are no steps of the subscription, and the others are.
LEMMA EntitlementIsBilling == [EntitlementNext]_entitlementVars => [BillingNext]_billingVars
<1> SUFFICES ASSUME [EntitlementNext]_entitlementVars PROVE [BillingNext]_billingVars
  OBVIOUS
<1>1. CASE Mint \/ (\E a \in Accounts, t \in tokens : Present(a, t))
           \/ (\E r \in gate : Bind(r) \/ Stamp(r) \/ GateFails(r))
  BY <1>1 DEF Mint, Present, Bind, Stamp, GateFails
<1>2. CASE EntitlementTick
  BY <1>2 DEF EntitlementTick, BillingNext
<1>3. CASE \/ \E s \in Subs : Checkout(s) \/ Stripe(s)
           \/ \E e \in events : Deliver(e)
           \/ \E h \in handlers : Webhook(h)
  BY <1>3 DEF BillingNext
<1>4. CASE UNCHANGED entitlementVars
  BY <1>4 DEF entitlementVars
<1> QED
  BY <1>1, <1>2, <1>3, <1>4 DEF EntitlementNext

\* What is paid stays paid, and the clock moves only in a tick.
LEMMA PaidGrows ==
    ASSUME EntInv, [EntitlementNext]_entitlementVars
    PROVE  /\ paidUntil \in Nat /\ paidUntil' \in Nat /\ paidUntil <= paidUntil'
           /\ clock \in Nat /\ (~EntitlementTick => clock' = clock)
           /\ TypeInv' /\ PaidInv'
<1>1. [BillingNext]_billingVars /\ TypeInv /\ PaidInv /\ BillingTypeOK
  BY EntitlementIsBilling DEF EntInv, TypeInv
<1>2. TypeInv' /\ PaidInv' /\ BillingTypeOK'
  BY <1>1, NextTypes, NextPaid DEF TypeInv
<1>3. paidUntil \in Nat /\ paidUntil' \in Nat /\ clock \in Nat
  BY <1>1, <1>2 DEF BillingTypeOK
<1>4. paidUntil <= paidUntil'
  BY <1>1, <1>3, NextCases, WebhookCases DEF billingVars, StripeMoves
<1>5. ~EntitlementTick => clock' = clock
  <2>1. CASE UNCHANGED billingVars
    BY <2>1 DEF billingVars
  <2>2. CASE \E s \in Subs : Checkout(s) \/ Stripe(s)
    BY <1>1, <2>2, StripeStepMoves DEF Checkout
  <2>3. CASE (\E e \in events : Deliver(e)) \/ (\E h \in handlers : Webhook(h))
    BY <2>3, WebhookCases
  <2> QED
    BY <2>1, <2>2, <2>3
       DEF EntitlementNext, Mint, Present, Bind, Stamp, GateFails, entitlementVars, billingVars
<1> QED
  BY <1>2, <1>3, <1>4, <1>5

\* The steps of the clock, of the subscription, and none at all.
LEMMA QuietConnector ==
    ASSUME EntInv, paidUntil \in Nat, paidUntil' \in Nat, paidUntil <= paidUntil', clock' <= MaxClock,
           UNCHANGED <<nonces, gate, until, stamped>>, tokens' \subseteq tokens,
           gate = {} \/ clock' = clock
    PROVE  ConnectorTypeOK' /\ GateInv' /\ FirstInv' /\ GraceIsBounded'
<1> USE EntitlementAssumption
<1>1. ConnectorTypeOK'
  BY DEF EntInv, ConnectorTypeOK
<1>2. GateInv'
  <2>1. \A t \in tokens : Minted(t) /\ t.exp - TokenLife < paidUntil'
    BY DEF EntInv, GateInv, Minted
  <2>2. \A r \in gate : Minted(r) /\ r.exp - TokenLife < paidUntil' /\ clock' < r.exp
    BY DEF EntInv, GateInv, Minted
  <2>3. \A w \in Windows : Bound(w)
    BY DEF EntInv, GateInv
  <2> QED
    BY <2>1, <2>2, <2>3 DEF GateInv, Minted, Bound, Minting
<1>3. FirstInv'
  BY DEF EntInv, FirstInv
<1>4. GraceIsBounded'
  <2>1. SUFFICES ASSUME NEW a \in Accounts, until[a] > 0
                 PROVE  until[a] <= (paidUntil' - 1) + (TokenLife - 1) + Grace
    BY DEF GraceIsBounded
  <2>2. until[a] \in Nat /\ until[a] <= (paidUntil - 1) + (TokenLife - 1) + Grace
    BY <2>1 DEF EntInv, ConnectorTypeOK, GraceIsBounded
  <2>3. TokenLife \in Nat /\ Grace \in Nat
    OBVIOUS
  <2> QED
    BY <2>2, <2>3
<1> QED
  BY <1>1, <1>2, <1>3, <1>4

LEMMA MintKeeps ==
    ASSUME EntInv, Mint
    PROVE  ConnectorTypeOK' /\ GateInv' /\ FirstInv' /\ GraceIsBounded'
<1> USE EntitlementAssumption
<1> DEFINE t == [window |-> clock \div NonceWindow, exp |-> clock + TokenLife]
<1>1. /\ tokens' = tokens \cup {t} /\ UNCHANGED <<billingVars, nonces, gate, until, stamped>>
      /\ row.end > clock /\ row.status = "active"
  BY DEF Mint, SubscriptionActive
<1>2. clock \in Nat /\ TokenLife \in Nat /\ row.end \in Nat /\ paidUntil \in Nat
      /\ row.end <= paidUntil /\ clock <= MaxClock
  BY <1>1 DEF EntInv, TypeInv, BillingTypeOK, Row, NoRow, PaidInv, ConnectorTypeOK
<1>3. t \in Token
  BY <1>2, WindowOfClock DEF Token
<1>4. Minted(t)
  <2>1. t.exp - TokenLife = clock /\ clock < paidUntil
    BY <1>1, <1>2
  <2> QED
    BY <1>2, <2>1 DEF Minted
<1>5. UNCHANGED <<clock, paidUntil>>
  BY <1>1 DEF billingVars
<1> HIDE DEF t
<1>6. ConnectorTypeOK'
  BY <1>1, <1>3, <1>5 DEF EntInv, ConnectorTypeOK
<1>7. GateInv'
  BY <1>1, <1>4, <1>5 DEF EntInv, GateInv, Minted, Bound, Minting
<1>8. FirstInv' /\ GraceIsBounded'
  BY <1>1, <1>5 DEF EntInv, FirstInv, GraceIsBounded
<1> QED
  BY <1>6, <1>7, <1>8

\* The requests at the gate change, the tables do not.
LEMMA GateKeeps ==
    ASSUME EntInv, gate' \subseteq Request, UNCHANGED <<billingVars, tokens, nonces, until, stamped>>,
           \A r \in gate' : Minted(r) /\ clock < r.exp
                            /\ (r.stage = "stamp" => nonces[r.window].account = r.account)
    PROVE  ConnectorTypeOK' /\ GateInv' /\ FirstInv' /\ GraceIsBounded'
<1>1. UNCHANGED <<clock, paidUntil>>
  BY DEF billingVars
<1>2. ConnectorTypeOK'
  BY <1>1 DEF EntInv, ConnectorTypeOK
<1>3. GateInv' /\ FirstInv' /\ GraceIsBounded'
  BY <1>1 DEF EntInv, GateInv, FirstInv, GraceIsBounded, Minted, Bound, Minting
<1> QED
  BY <1>2, <1>3

LEMMA PresentKeeps ==
    ASSUME EntInv, NEW a \in Accounts, NEW t \in tokens, Present(a, t)
    PROVE  ConnectorTypeOK' /\ GateInv' /\ FirstInv' /\ GraceIsBounded'
<1> DEFINE r == [account |-> a, window |-> t.window, exp |-> t.exp, stage |-> "bind"]
<1>1. /\ gate' = gate \cup {r} /\ clock < t.exp
      /\ UNCHANGED <<billingVars, tokens, nonces, until, stamped>>
  BY DEF Present, Valid, EntInv, TypeInv, BillingTypeOK, ConnectorTypeOK, Token
<1>2. t \in Token /\ Minted(t)
  BY DEF EntInv, ConnectorTypeOK, GateInv
<1>3. r \in Request /\ Minted(r) /\ r.exp = t.exp /\ r.stage = "bind"
  BY <1>2 DEF Token, Request, Minted
<1> HIDE DEF r
<1>4. gate' \subseteq Request
  BY <1>1, <1>3 DEF EntInv, ConnectorTypeOK
<1>5. \A q \in gate' : Minted(q) /\ clock < q.exp
                       /\ (q.stage = "stamp" => nonces[q.window].account = q.account)
  BY <1>1, <1>3 DEF EntInv, GateInv, FirstInv
<1> QED
  BY <1>1, <1>4, <1>5, GateKeeps

\* A request at the gate never finds its nonce bound and expired.
LEMMA BindingsOutlive ==
    ASSUME EntInv, NEW r \in gate
    PROVE  /\ r \in Request /\ nonces[r.window] \in Binding
           /\ nonces[r.window].account # NoAccount => clock < nonces[r.window].expires
<1> USE EntitlementAssumption
<1>1. /\ r \in Request /\ r.window \in Windows /\ r.exp \in Nat /\ clock \in Nat /\ clock < r.exp
      /\ nonces[r.window] \in Binding
  BY DEF EntInv, TypeInv, BillingTypeOK, ConnectorTypeOK, GateInv, Request
<1>2. SUFFICES ASSUME nonces[r.window].account # NoAccount
               PROVE  clock < nonces[r.window].expires
  BY <1>1
<1> DEFINE x == r.exp - TokenLife
           y == Minting(r.window)
<1>3. x \in Nat /\ y \in Nat /\ x \div NonceWindow = r.window /\ y \div NonceWindow = r.window
  BY <1>1, <1>2 DEF EntInv, GateInv, Minted, Bound
<1>4. nonces[r.window].expires \in Nat /\ TokenLife \in Nat /\ NonceWindow \in Nat \ {0}
  BY <1>1 DEF Binding
<1>5. y = nonces[r.window].expires - NonceWindow - TokenLife
  BY DEF Minting
<1>6. x < y + NonceWindow
  <2> HIDE DEF x, y
  <2> QED
    BY <1>3, <1>4, WindowFacts
<1> QED
  BY <1>1, <1>4, <1>5, <1>6

LEMMA BindKeeps ==
    ASSUME EntInv, NEW r \in gate, Bind(r)
    PROVE  ConnectorTypeOK' /\ GateInv' /\ FirstInv' /\ GraceIsBounded'
<1> USE EntitlementAssumption
<1> DEFINE w == r.window
           held == nonces[w]
           free == held.account = NoAccount \/ held.expires <= clock
           next == [r EXCEPT !.stage = "stamp"]
           bind == [account |-> r.account, expires |-> Later(BoundUntil(r), held.expires)]
<1>1. /\ r \in Request /\ r.stage = "bind" /\ w \in Windows /\ held \in Binding /\ r.exp \in Nat
      /\ r.account \in Accounts /\ clock \in Nat /\ held.expires \in Nat
      /\ Minted(r) /\ clock < r.exp
      /\ held.account # NoAccount => clock < held.expires
      /\ held.account = NoAccount => held.expires = 0
  BY BindingsOutlive
     DEF Bind, Bound, Request, Binding, EntInv, TypeInv, BillingTypeOK, GateInv
<1>2. CASE gate' = gate \ {r} /\ UNCHANGED nonces
  <2>1. gate' \subseteq Request /\ UNCHANGED <<billingVars, tokens, nonces, until, stamped>>
    BY <1>2 DEF EntInv, ConnectorTypeOK, Bind
  <2>2. \A q \in gate' : Minted(q) /\ clock < q.exp
                         /\ (q.stage = "stamp" => nonces[q.window].account = q.account)
    BY <1>2 DEF EntInv, GateInv, FirstInv
  <2> QED
    BY <2>1, <2>2, GateKeeps
<1>3. CASE /\ held.account = NoAccount \/ held.account = r.account
           /\ nonces' = [nonces EXCEPT ![w] = bind] /\ gate' = (gate \ {r}) \cup {next}
  <2>1. UNCHANGED <<clock, paidUntil, tokens, until, stamped>>
    BY DEF Bind, billingVars
  <2>2. /\ next \in Request /\ next.window = w /\ next.exp = r.exp /\ next.account = r.account
        /\ Minted(next)
    BY <1>1 DEF Request, Minted
  <2>3. BoundUntil(r) = r.exp + NonceWindow /\ BoundUntil(r) \in Nat
    BY <1>1 DEF BoundUntil
  <2>4. bind.expires \in {BoundUntil(r), held.expires} /\ bind.expires \in Nat
        /\ (held.account = NoAccount /\ held.expires = 0 => bind.expires = BoundUntil(r))
    BY <1>1, <2>3 DEF Later
  <2>5. bind \in Binding /\ bind.account = r.account
    BY <1>1, <2>4 DEF Binding
  <2> HIDE DEF bind, next
  <2>6. nonces'[w] = bind /\ \A v \in Windows \ {w} : nonces'[v] = nonces[v]
    BY <1>1, <1>3 DEF EntInv, ConnectorTypeOK
  <2>7. ConnectorTypeOK'
    BY <1>3, <2>1, <2>2, <2>5 DEF EntInv, ConnectorTypeOK
  <2>8. FirstInv'
    <3>1. \A v \in Windows : stamped[v] \subseteq {nonces[v].account} /\ stamped[v] \subseteq Accounts
      BY DEF EntInv, FirstInv, ConnectorTypeOK
    <3>2. stamped[w] \subseteq {bind.account}
      BY <1>1, <1>3, <2>5, <3>1
    <3>3. \A v \in Windows : stamped'[v] \subseteq {nonces'[v].account}
      BY <2>1, <2>6, <3>1, <3>2
    <3>4. ASSUME NEW q \in gate', q.stage = "stamp"
          PROVE  nonces'[q.window].account = q.account
      <4>1. CASE q = next
        BY <2>2, <2>5, <2>6, <4>1
      <4>2. CASE q \in gate
        <5>1. nonces[q.window].account = q.account /\ q.account # NoAccount /\ q.window \in Windows
          BY <3>4, <4>2 DEF EntInv, FirstInv, ConnectorTypeOK, Request
        <5> QED
          BY <1>3, <2>5, <2>6, <5>1
      <4> QED
        BY <1>3, <4>1, <4>2
    <3> QED
      BY <3>3, <3>4 DEF FirstInv
  <2>9. GateInv'
    <3>1. \A t \in tokens' : Minted(t)'
      BY <2>1 DEF EntInv, GateInv, Minted
    <3>2. \A q \in gate' : Minted(q)' /\ clock' < q.exp
      BY <1>1, <1>3, <2>1, <2>2 DEF EntInv, GateInv, Minted
    <3>3. ASSUME NEW v \in Windows
          PROVE  Bound(v)'
      <4>1. CASE v # w
        BY <2>6, <4>1 DEF EntInv, GateInv, Bound, Minting
      <4>2. CASE v = w
        <5> DEFINE m == bind.expires - NonceWindow - TokenLife
        <5>1. m \in Nat /\ m \div NonceWindow = w
          <6>1. CASE bind.expires = BoundUntil(r)
            <7>1. m = r.exp - TokenLife
              BY <1>1, <2>3, <6>1
            <7> QED
              BY <1>1, <7>1 DEF Minted
          <6>2. CASE bind.expires # BoundUntil(r)
            <7>1. bind.expires = held.expires /\ ~(held.account = NoAccount /\ held.expires = 0)
              BY <2>4, <6>2
            <7>2. held.account # NoAccount
              BY <1>1, <7>1
            <7> QED
              BY <1>1, <7>1, <7>2 DEF EntInv, GateInv, Bound, Minting
          <6> QED
            BY <6>1, <6>2
        <5>2. bind.account # NoAccount
          BY <1>1, <2>5, EntitlementAssumption
        <5> QED
          BY <2>6, <4>2, <5>1, <5>2 DEF Bound, Minting
      <4> QED
        BY <4>1, <4>2
    <3> QED
      BY <3>1, <3>2, <3>3 DEF GateInv
  <2>10. GraceIsBounded'
    BY <2>1 DEF EntInv, GraceIsBounded
  <2> QED
    BY <2>7, <2>8, <2>9, <2>10
<1>4. \/ gate' = gate \ {r} /\ UNCHANGED nonces
      \/ /\ free \/ held.account = r.account
         /\ nonces' = [nonces EXCEPT ![w] = bind] /\ gate' = (gate \ {r}) \cup {next}
  BY DEF Bind
<1>5. free => held.account = NoAccount
  BY <1>1
<1> QED
  BY <1>2, <1>3, <1>4, <1>5

LEMMA StampKeeps ==
    ASSUME EntInv, NEW r \in gate, Stamp(r)
    PROVE  ConnectorTypeOK' /\ GateInv' /\ FirstInv' /\ GraceIsBounded'
<1> USE EntitlementAssumption
<1> DEFINE a == r.account
           w == r.window
           new == Later(until[a], clock + Grace)
<1>1. /\ r.stage = "stamp" /\ gate' = gate \ {r}
      /\ until' = [until EXCEPT ![a] = new]
      /\ stamped' = [stamped EXCEPT ![w] = stamped[w] \cup {a}]
      /\ UNCHANGED <<clock, paidUntil, tokens, nonces>>
  BY DEF Stamp, billingVars
<1>2. /\ r \in Request /\ a \in Accounts /\ w \in Windows /\ r.exp \in Nat /\ clock \in Nat
      /\ clock < r.exp /\ r.exp - TokenLife < paidUntil /\ until[a] \in Nat /\ paidUntil \in Nat
      /\ TokenLife \in Nat \ {0} /\ Grace \in Nat /\ nonces[w].account = a
  BY <1>1 DEF EntInv, TypeInv, BillingTypeOK, ConnectorTypeOK, GateInv, FirstInv, Minted, Request
<1>3. new \in Nat /\ (new = until[a] \/ new = clock + Grace)
  BY <1>2 DEF Later
<1>4. clock + Grace <= (paidUntil - 1) + (TokenLife - 1) + Grace
  BY <1>2
<1> HIDE DEF new
<1>5. ConnectorTypeOK'
  BY <1>1, <1>2, <1>3 DEF EntInv, ConnectorTypeOK
<1>6. GateInv'
  BY <1>1 DEF EntInv, GateInv, Minted, Bound, Minting
<1>7. FirstInv'
  <2>1. stamped'[w] = stamped[w] \cup {a} /\ \A v \in Windows \ {w} : stamped'[v] = stamped[v]
    BY <1>1, <1>2 DEF EntInv, ConnectorTypeOK
  <2> QED
    BY <1>1, <1>2, <2>1 DEF EntInv, FirstInv
<1>8. GraceIsBounded'
  <2>1. until'[a] = new /\ \A b \in Accounts \ {a} : until'[b] = until[b]
    BY <1>1, <1>2 DEF EntInv, ConnectorTypeOK
  <2>2. \A b \in Accounts :
           until[b] > 0 => until[b] <= (paidUntil - 1) + (TokenLife - 1) + Grace
    BY DEF EntInv, GraceIsBounded
  <2> QED
    BY <1>1, <1>2, <1>3, <1>4, <2>1, <2>2 DEF GraceIsBounded
<1> QED
  BY <1>5, <1>6, <1>7, <1>8

LEMMA GateFailsKeeps ==
    ASSUME EntInv, NEW r \in gate, GateFails(r)
    PROVE  ConnectorTypeOK' /\ GateInv' /\ FirstInv' /\ GraceIsBounded'
<1>1. /\ gate' \subseteq gate /\ gate' \subseteq Request
      /\ UNCHANGED <<billingVars, tokens, nonces, until, stamped>>
  BY DEF GateFails, EntInv, ConnectorTypeOK
<1>2. \A q \in gate' : Minted(q) /\ clock < q.exp
                       /\ (q.stage = "stamp" => nonces[q.window].account = q.account)
  BY <1>1 DEF EntInv, GateInv, FirstInv
<1> QED
  BY <1>1, <1>2, GateKeeps

LEMMA NextEnt == EntInv /\ [EntitlementNext]_entitlementVars => EntInv'
<1> SUFFICES ASSUME EntInv, [EntitlementNext]_entitlementVars PROVE EntInv'
  OBVIOUS
<1>1. /\ paidUntil \in Nat /\ paidUntil' \in Nat /\ paidUntil <= paidUntil' /\ clock \in Nat
      /\ clock <= MaxClock /\ (~EntitlementTick => clock' = clock) /\ TypeInv' /\ PaidInv'
  BY PaidGrows DEF EntInv, ConnectorTypeOK
<1> DEFINE Rest == ConnectorTypeOK' /\ GateInv' /\ FirstInv' /\ GraceIsBounded'
<1>2. CASE EntitlementTick
  <2>1. /\ gate = {} /\ tokens' \subseteq tokens /\ UNCHANGED <<nonces, gate, until, stamped>>
        /\ clock < MaxClock /\ clock' = clock + 1
    BY <1>2 DEF EntitlementTick, Tick
  <2>2. clock' <= MaxClock
    BY <1>1, <2>1, BillingAssumption
  <2> QED
    BY <1>1, <2>1, <2>2, QuietConnector DEF EntInv
<1>3. CASE UNCHANGED connectorVars /\ ~EntitlementTick
  <2>1. Rest
    BY <1>1, <1>3, QuietConnector DEF connectorVars
  <2> QED
    BY <1>1, <2>1 DEF EntInv
<1>4. CASE Mint \/ (\E a \in Accounts, t \in tokens : Present(a, t))
           \/ (\E r \in gate : Bind(r) \/ Stamp(r) \/ GateFails(r))
  <2>1. Rest
    BY <1>4, MintKeeps, PresentKeeps, BindKeeps, StampKeeps, GateFailsKeeps
  <2> QED
    BY <1>1, <2>1 DEF EntInv
<1> QED
  BY <1>2, <1>3, <1>4 DEF EntitlementNext, entitlementVars

\* The gate's tables keep their types, and an account is let in at most until
\* a grace window past the last tick in which an attestation of the last paid
\* tick is valid, through every stale row, late webhook and kept token.
THEOREM EntitlementSound == EntitlementSpec => []EntitlementInv
<1>1. EntInv => EntitlementInv
  BY DEF EntInv, TypeInv, ConnectorTypeOK, EntitlementInv, EntitlementTypeOK
<1> QED
  BY <1>1, InitEnt, NextEnt, PTL DEF EntitlementSpec

\* One subscriber lets one account of the connector in per window, whoever
\* presents its attestations, in whatever order, and however often the nonce
\* table forgets expired bindings.
THEOREM OneAccountEachWindow == EntitlementSpec => []OneAccountPerWindow
<1>1. EntInv => OneAccountPerWindow
  <2> SUFFICES ASSUME EntInv, NEW w \in Windows PROVE Cardinality(stamped[w]) <= 1
    BY DEF OneAccountPerWindow
  <2>1. stamped[w] \subseteq {nonces[w].account}
    BY DEF EntInv, FirstInv
  <2>2. stamped[w] = {} \/ stamped[w] = {nonces[w].account}
    BY <2>1
  <2>3. Cardinality({}) = 0 /\ Cardinality({nonces[w].account}) = 1
    BY FS_EmptySet, FS_Singleton
  <2> QED
    BY <2>2, <2>3
<1> QED
  BY <1>1, InitEnt, NextEnt, PTL DEF EntitlementSpec
=============================================================================
