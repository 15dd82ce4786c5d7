--------------------------- MODULE RentalBookings ---------------------------
(* Bookings of one rental vehicle: the request handlers under                *)
(* web/app/api/robomata/rental-bookings and rental-payments, and the stores  *)
(* they share.  A handler runs until its next await, so each database        *)
(* statement, transaction and call to Stripe is one step, and any other      *)
(* request may run between two steps.  A request that waits for a booking's  *)
(* payment-rail lock has done nothing but reads it repeats under the lock,   *)
(* so it starts here when it gets the lock.  Refusals (404, 409, 400) that   *)
(* change nothing are guards; later ones end the request.                    *)
EXTENDS Naturals, FiniteSets

CONSTANTS Bookings,        \* ids that checkouts may create
          Overlapping,     \* pairs of bookings whose dates overlap
          Requests,        \* requests in flight at a time
          Intents,         \* bound: Stripe PaymentIntents of a booking, 1 .. n
          Operations,      \* the routes that are called
          AtomicStore,     \* TRUE: the file store; FALSE: Postgres
          Eligibility,     \* verification outcomes of the renters
          ReviewChoices,   \* values of requireManualApproval
          CardsDecline,    \* whether a card may be declined
          MayCrash,        \* whether a request may die between two steps
          NoRequest        \* nobody, as the holder of a lock

Routes == {"checkout", "confirm", "intent", "webhook", "reconcile", "approve", "cancel",
           "check_in", "check_out", "incident", "claim", "controls"}

ASSUME RentalAssumption ==
    /\ \A b, c \in Bookings : <<b, c>> \in Overlapping => <<c, b>> \in Overlapping
    /\ IsFiniteSet(Intents) /\ Intents \subseteq Nat \ {0}
    /\ Operations \subseteq Routes
    /\ AtomicStore \in BOOLEAN /\ CardsDecline \in BOOLEAN /\ MayCrash \in BOOLEAN
    /\ Eligibility \subseteq BOOLEAN /\ ReviewChoices \subseteq BOOLEAN
    /\ NoRequest \notin Requests

VARIABLES bookings,   \* state, and the PaymentIntent of paymentProviderReference
          trips,      \* status of the booking's trip record
          vehicle,    \* operationalStatus of the vehicle
          payments,   \* status of the payment record of each PaymentIntent
          intents,    \* Stripe: status of each PaymentIntent
          events,     \* Stripe: webhook events it delivers, again and in any order
          owed,       \* Stripe: events that it has not delivered yet
          railLock,   \* holder of the booking's payment-rail lock
          request     \* the requests in flight

stores == <<bookings, trips, vehicle, payments>>
stripe == <<intents, events, owed>>
vars   == <<stores, stripe, railLock, request>>

ACTIVE_BOOKING_STATES ==
    {"pending_renter_verification", "pending_payment_authorization", "host_review",
     "confirmed", "check_in_open", "in_trip", "return_pending"}
BookingStates   == ACTIVE_BOOKING_STATES \cup {"none", "completed", "disputed", "cancelled", "closed"}
TripStates      == {"none", "in_trip", "completed", "exception"}
VehicleStates   == {"listed", "in_trip", "turnaround", "suspended"}
PaymentStates   == {"none", "requires_payment_method", "failed", "requires_capture",
                    "captured", "cancelled"}
IntentStates    == {"none", "requires_payment_method", "requires_capture", "succeeded", "canceled"}
EventKinds      == {"payment_intent_created", "payment_failed", "authorization_succeeded",
                    "capture_succeeded", "payment_cancelled"}
ProgramCounters ==
    {"create", "update", "update_write", "advance", "vehicle", "confirm", "confirm_write",
     "retrieve", "record", "list", "cancel", "cancel_record", "intent_vehicle", "intents",
     "intent", "intent_record", "new_intent", "new_record", "trip_in", "trip_out",
     "vehicle_write"}

\* Where a request works on a PaymentIntent.
OnIntent == {"retrieve", "record", "cancel_record", "intent_record", "new_record"}

Idle == [pc |-> "idle"]
Busy == {a \in [pc : ProgramCounters, op : Routes, b : Bookings, state : BookingStates,
                target : BookingStates, ref : Intents \cup {0}, review : BOOLEAN,
                todo : SUBSET Intents, i : Intents \cup {0}, snapshot : IntentStates] :
            a.pc \in OnIntent => a.i \in Intents}

TypeOK ==
    /\ bookings \in [Bookings -> [state : BookingStates, ref : Intents \cup {0}]]
    /\ trips \in [Bookings -> TripStates]
    /\ vehicle \in VehicleStates
    /\ payments \in [Bookings -> [Intents -> PaymentStates]]
    /\ intents \in [Bookings -> [Intents -> IntentStates]]
    /\ events \subseteq Bookings \X Intents \X EventKinds /\ owed \subseteq events
    /\ railLock \in [Bookings -> Requests \cup {NoRequest}]
    /\ request \in [Requests -> Busy \cup {Idle}]

Init ==
    /\ bookings = [b \in Bookings |-> [state |-> "none", ref |-> 0]]
    /\ trips = [b \in Bookings |-> "none"]
    /\ vehicle = "listed"
    /\ payments = [b \in Bookings |-> [i \in Intents |-> "none"]]
    /\ intents = [b \in Bookings |-> [i \in Intents |-> "none"]]
    /\ events = {} /\ owed = {}
    /\ railLock = [b \in Bookings |-> NoRequest]
    /\ request = [r \in Requests |-> Idle]

-----------------------------------------------------------------------------
(* Requests: starting, going on, ending.                                     *)

At(r, pc) == request[r].pc = pc

\* A request about booking b, which it reads first; `target` is the state it
\* is going to write and i a PaymentIntent, where it has them from the start.
Activation(op, b, pc, target, i) ==
    [pc |-> pc, op |-> op, b |-> b, state |-> bookings[b].state, target |-> target,
     ref |-> 0, review |-> FALSE, todo |-> {}, i |-> i, snapshot |-> "none"]

Start(r, op, b, pc, target, i) ==
    /\ op \in Operations /\ At(r, "idle") /\ bookings[b].state # "none"
    /\ request' = [request EXCEPT ![r] = Activation(op, b, pc, target, i)]

Goto(r, pc)        == request' = [request EXCEPT ![r].pc = pc]
SetState(r, state) == request' = [request EXCEPT ![r].pc = "update", ![r].target = state]

\* The end of a request, with the release in withBookingPaymentRailLock's
\* finally.
\* Mutant: a handler that returns early keeps the lock.
FinishUnlessRefused(r) ==
    /\ request' = [request EXCEPT ![r] = Idle]
    /\ railLock' = [b \in Bookings |->
          IF railLock[b] = r /\ ~At(r, "advance") THEN NoRequest ELSE railLock[b]]

Finish(r) ==
    /\ request' = [request EXCEPT ![r] = Idle]
    /\ railLock' = [b \in Bookings |-> IF railLock[b] = r THEN NoRequest ELSE railLock[b]]

Proceed(r, pc) == Goto(r, pc) /\ UNCHANGED railLock

\* A request whose handler runs under the booking's rail lock.
\* Mutant: the handler runs without the lock.
StartUnlocked(r, op, b, pc, i) == Start(r, op, b, pc, "none", i) /\ UNCHANGED railLock

StartLocked(r, op, b, pc, i) ==
    /\ railLock[b] = NoRequest
    /\ Start(r, op, b, pc, "none", i)
    /\ railLock' = [railLock EXCEPT ![b] = r]

-----------------------------------------------------------------------------
(* The booking store.  Postgres reads and writes in two statements what the  *)
(* file store does under its lock.  createBooking and the locked part of     *)
(* confirmBooking exclude each other by an advisory lock on the vehicle, and *)
(* other statements read no second booking, so each is one step.             *)

HasConflict(b) ==
    \E c \in Bookings \ {b} : <<b, c>> \in Overlapping /\ bookings[c].state \in ACTIVE_BOOKING_STATES

CreateBooking(r) ==
    LET b == request[r].b
    IN  /\ At(r, "create")
        /\ bookings' = IF HasConflict(b) THEN bookings
                       ELSE [bookings EXCEPT ![b].state = request[r].target]
        /\ Finish(r)
        /\ UNCHANGED <<trips, vehicle, payments, stripe>>

\* Where a request goes on after updateBookingState.
AfterUpdate(r) ==
    CASE request[r].op = "confirm" -> Proceed(r, "vehicle")
      [] request[r].op \in {"cancel", "check_in", "check_out"} -> Proceed(r, "vehicle_write")
      [] OTHER -> Finish(r)

\* updateBookingState writes the state it was told to, whatever the current
\* one is, and the rest of the record as it read it.
UpdateBookingState(r) ==
    LET b == request[r].b
    IN  \/ /\ At(r, "update") /\ ~AtomicStore
           /\ request' = [request EXCEPT ![r].pc = "update_write", ![r].ref = bookings[b].ref]
           /\ UNCHANGED <<stores, stripe, railLock>>
        \/ /\ At(r, "update_write") \/ (At(r, "update") /\ AtomicStore)
           /\ bookings' = [bookings EXCEPT ![b] =
                 [state |-> request[r].target,
                  ref   |-> IF AtomicStore THEN @.ref ELSE request[r].ref]]
           /\ AfterUpdate(r)
           /\ UNCHANGED <<trips, vehicle, payments, stripe>>

Confirmable == {"pending_payment_authorization", "host_review"}

\* confirmedBooking; a request that carries a payment reference attaches it.
ConfirmedBooking(r, current) ==
    [state |-> IF current.state = "host_review" \/ ~request[r].review
               THEN "confirmed" ELSE "host_review",
     ref   |-> IF request[r].op \in {"webhook", "reconcile", "intent"}
               THEN request[r].i ELSE current.ref]

\* Mutant: the check on other bookings is only made at checkout.
WriteConfirmedUnchecked(r, current) ==
    /\ bookings' = [bookings EXCEPT ![request[r].b] = ConfirmedBooking(r, current)]
    /\ Finish(r)
    /\ UNCHANGED <<trips, vehicle, payments, stripe>>

WriteConfirmed(r, current) ==
    LET b == request[r].b
    IN  /\ bookings' = IF HasConflict(b) THEN bookings
                       ELSE [bookings EXCEPT ![b] = ConfirmedBooking(r, current)]
        /\ Finish(r)
        /\ UNCHANGED <<trips, vehicle, payments, stripe>>

\* confirmBooking.  Postgres reads the booking before it takes the lock on
\* the vehicle and writes what it read.
\* Mutant: it relies on the state its caller saw.
ConfirmTrustingCaller(r) == At(r, "confirm") /\ WriteConfirmed(r, bookings[request[r].b])

ConfirmBooking(r) ==
    LET current == bookings[request[r].b]
    IN  \/ /\ At(r, "confirm") /\ current.state \notin Confirmable
           /\ Finish(r)
           /\ UNCHANGED <<stores, stripe>>
        \/ /\ At(r, "confirm") /\ current.state \in Confirmable /\ ~AtomicStore
           /\ request' = [request EXCEPT ![r].pc = "confirm_write",
                                         ![r].state = current.state, ![r].ref = current.ref]
           /\ UNCHANGED <<stores, stripe, railLock>>
        \/ /\ At(r, "confirm") /\ current.state \in Confirmable /\ AtomicStore
           /\ WriteConfirmed(r, current)
        \/ /\ At(r, "confirm_write")
           /\ WriteConfirmed(r, [state |-> request[r].state, ref |-> request[r].ref])

\* The vehicle must be listed, and its controls say whether a host reviews.
ReadVehicle(r) ==
    /\ At(r, "vehicle")
    /\ IF vehicle = "listed"
       THEN /\ \E review \in IF request[r].op = "approve" THEN {FALSE} ELSE ReviewChoices :
                  request' = [request EXCEPT ![r].pc = "confirm", ![r].review = review]
            /\ UNCHANGED railLock
       ELSE Finish(r)
    /\ UNCHANGED <<stores, stripe>>

\* advanceBookingAfter...: goes on only if the booking still awaits payment.
Advance(r) ==
    /\ At(r, "advance")
    /\ IF bookings[request[r].b].state = "pending_payment_authorization"
       THEN Proceed(r, "vehicle") ELSE Finish(r)
    /\ UNCHANGED <<stores, stripe>>

\* updateVehicleControls at the end of a handler.
WriteVehicle(r) ==
    /\ At(r, "vehicle_write")
    /\ vehicle' = CASE request[r].op = "check_in" -> "in_trip"
                    [] request[r].op = "check_out" ->
                          IF request[r].target = "disputed" THEN "suspended" ELSE "turnaround"
                    [] OTHER -> IF request[r].state \in {"in_trip", "return_pending"}
                                THEN "suspended" ELSE "listed"
    /\ Finish(r)
    /\ UNCHANGED <<bookings, trips, payments, stripe>>

-----------------------------------------------------------------------------
(* The payment store.  recordStripeEvent is one transaction per PaymentIntent *)
(* and may meet the same event again, or an older one after a newer one.     *)

Authorized == {"requires_capture", "captured"}      \* of a payment record
Successful == {"requires_capture", "succeeded"}     \* of a PaymentIntent
Cancellable == {"requires_payment_method", "requires_capture"}

\* statusFromStripe, of a snapshot and of a webhook event.
\* Mutant: Stripe's name for the status is stored.
StripeStatus(s) == s

StatusOfSnapshot(s) ==
    CASE s = "succeeded" -> "captured" [] s = "canceled" -> "cancelled" [] OTHER -> s

StatusOfEvent(kind) ==
    CASE kind = "payment_intent_created"  -> "requires_payment_method"
      [] kind = "payment_failed"          -> "failed"
      [] kind = "authorization_succeeded" -> "requires_capture"
      [] kind = "capture_succeeded"       -> "captured"
      [] kind = "payment_cancelled"       -> "cancelled"

\* Mutant: the last event wins.
LastEventStatus(old, new) == new

\* Mutant: a failed card payment stays failed, as a failed Bridge transfer does.
StickyFailureStatus(old, new) ==
    IF old \in {"cancelled", "captured", "failed"} THEN old ELSE new

\* A payment_failed event is never newer than the authorisation.
MonotonicPaymentStatus(old, new) ==
    IF \/ old \in {"cancelled", "captured"}
       \/ old = "requires_capture" /\ new \in {"requires_payment_method", "failed"}
    THEN old ELSE new

Record(b, i, status) ==
    payments' = [payments EXCEPT ![b][i] = MonotonicPaymentStatus(@, status)]

\* What Stripe does with an intent, and the event it will deliver.
SetIntent(b, i, status, kind) ==
    /\ intents' = [intents EXCEPT ![b][i] = status]
    /\ events' = events \cup {<<b, i, kind>>}
    /\ owed' = owed \cup {<<b, i, kind>>}

-----------------------------------------------------------------------------
(* Checkout, confirmation, approval.                                         *)

\* checkout reads the renter and the vehicle, then creates the booking, whose
\* id is new.
Checkout(r, b, eligible) ==
    /\ "checkout" \in Operations /\ At(r, "idle")
    /\ bookings[b].state = "none"
    /\ \A q \in Requests : At(q, "create") => request[q].b # b
    /\ vehicle = "listed"
    /\ request' = [request EXCEPT ![r] = Activation("checkout", b, "create",
          IF eligible THEN "pending_payment_authorization" ELSE "pending_renter_verification", 0)]
    /\ UNCHANGED <<stores, stripe, railLock>>

\* confirm, called by a server that vouches for the payment; it first moves a
\* booking of a meanwhile verified renter on to payment authorisation.
Confirm(r, b) ==
    /\ \/ /\ bookings[b].state = "pending_renter_verification"
          /\ Start(r, "confirm", b, "update", "pending_payment_authorization", 0)
       \/ /\ bookings[b].state = "pending_payment_authorization"
          /\ Start(r, "confirm", b, "vehicle", "none", 0)
    /\ UNCHANGED <<stores, stripe, railLock>>

\* approve: the hold is looked up at Stripe and recorded before confirmBooking.
Approve(r, b) ==
    LET i == bookings[b].ref
    IN  /\ bookings[b].state = "host_review"
        /\ i # 0 /\ payments[b][i] # "none"
        /\ StartLocked(r, "approve", b, "retrieve", i)
        /\ UNCHANGED <<stores, stripe>>

-----------------------------------------------------------------------------
(* Webhooks and reconciliation, which do not take the rail lock.             *)

Webhook(r, e) ==
    LET b == e[1]  i == e[2]  kind == e[3]
        status == MonotonicPaymentStatus(payments[b][i], StatusOfEvent(kind))
    IN  /\ "webhook" \in Operations /\ At(r, "idle")
        /\ Record(b, i, StatusOfEvent(kind))
        /\ request' = IF kind \in {"authorization_succeeded", "capture_succeeded"}
                          /\ status \in Authorized
                       THEN [request EXCEPT ![r] = Activation("webhook", b, "advance", "none", i)]
                       ELSE request
        /\ owed' = owed \ {e}
        /\ UNCHANGED <<bookings, trips, vehicle, intents, events, railLock>>

Reconcile(r, b, i) ==
    /\ payments[b][i] # "none"
    /\ StartUnlocked(r, "reconcile", b, "retrieve", i)
    /\ UNCHANGED <<stores, stripe>>

\* approve and reconcile retrieve the intent, then record what they saw.  A
\* hold that is not captured yet blocks posting, so reconcile leaves its
\* booking alone.
RetrieveIntent(r) ==
    /\ At(r, "retrieve")
    /\ request' = [request EXCEPT ![r].pc = "record",
                                  ![r].snapshot = intents[request[r].b][request[r].i]]
    /\ UNCHANGED <<stores, stripe, railLock>>

RecordSnapshot(r) ==
    LET b == request[r].b  i == request[r].i  snapshot == request[r].snapshot
    IN  /\ At(r, "record")
        /\ Record(b, i, StatusOfSnapshot(snapshot))
        /\ IF snapshot \in Successful
              /\ payments'[b][i] \in (IF request[r].op = "approve" THEN Authorized ELSE {"captured"})
           THEN Proceed(r, IF request[r].op = "approve" THEN "vehicle" ELSE "advance")
           ELSE Finish(r)
        /\ UNCHANGED <<bookings, trips, vehicle, stripe>>

-----------------------------------------------------------------------------
(* payment-intents: reuse the booking's open intent or create one.           *)

PaymentIntents(r, b) ==
    /\ bookings[b].state = "pending_payment_authorization"
    /\ StartLocked(r, "intent", b, "intent_vehicle", 0)
    /\ UNCHANGED <<stores, stripe>>

CheckIntentVehicle(r) ==
    /\ At(r, "intent_vehicle")
    /\ IF vehicle = "listed" THEN Proceed(r, "intents") ELSE Finish(r)
    /\ UNCHANGED <<stores, stripe>>

Existing(b) == {i \in Intents : payments[b][i] # "none"}

\* Mutant: only a payment that still waits for its card is used again.
AwaitingCard(b) == {i \in Existing(b) : payments[b][i] = "requires_payment_method"}

Reusable(b) == {i \in Existing(b) : payments[b][i] # "cancelled"}

TryNext(r, todo) ==
    request' = [request EXCEPT ![r].todo = todo,
                               ![r].pc = IF todo = {} THEN "new_intent" ELSE "intent"]

\* `ref` is the payment updated last, which a replacement will name.
ListIntents(r) ==
    LET b == request[r].b
    IN  /\ At(r, "intents")
        /\ \E last \in IF Existing(b) = {} THEN {0} ELSE Existing(b) :
              request' = [request EXCEPT ![r].ref = last, ![r].todo = Reusable(b),
                             ![r].pc = IF Reusable(b) = {} THEN "new_intent" ELSE "intent"]
        /\ UNCHANGED <<stores, stripe, railLock>>

\* The intents are tried by time of their last update, which redelivered
\* events change: any of them may be next.
ReuseIntent(r) ==
    /\ At(r, "intent")
    /\ \E i \in request[r].todo :
          LET b == request[r].b  snapshot == intents[b][i]
          IN  IF snapshot = "canceled" THEN TryNext(r, request[r].todo \ {i}) /\ UNCHANGED railLock
              ELSE IF snapshot \in Successful
              THEN /\ request' = [request EXCEPT ![r].i = i, ![r].snapshot = snapshot, ![r].todo = {},
                        ![r].pc = IF payments[b][i] \in Authorized THEN "advance" ELSE "intent_record"]
                   /\ UNCHANGED railLock
              ELSE Finish(r)
    /\ UNCHANGED <<stores, stripe>>

RecordReused(r) ==
    /\ At(r, "intent_record")
    /\ Record(request[r].b, request[r].i, StatusOfSnapshot(request[r].snapshot))
    /\ Proceed(r, "advance")
    /\ UNCHANGED <<bookings, trips, vehicle, stripe>>

\* The idempotency key names the booking, or the payment that is replaced:
\* with a key it has seen, Stripe returns the same intent.
CreateIntent(r) ==
    LET b == request[r].b  i == request[r].ref + 1
    IN  /\ At(r, "new_intent") /\ i \in Intents
        /\ IF intents[b][i] = "none"
           THEN SetIntent(b, i, "requires_payment_method", "payment_intent_created")
           ELSE UNCHANGED stripe
        /\ request' = [request EXCEPT ![r].pc = "new_record", ![r].i = i]
        /\ UNCHANGED <<stores, railLock>>

\* Bound: no more intents than Intents; the request ends.
OutOfIntents(r) ==
    /\ At(r, "new_intent") /\ request[r].ref + 1 \notin Intents
    /\ Finish(r)
    /\ UNCHANGED <<stores, stripe>>

RecordCreated(r) ==
    /\ At(r, "new_record")
    /\ Record(request[r].b, request[r].i, "requires_payment_method")
    /\ Finish(r)
    /\ UNCHANGED <<bookings, trips, vehicle, stripe>>

-----------------------------------------------------------------------------
(* Cancellation.                                                             *)

Cancel(r, b) ==
    /\ bookings[b].state \notin {"closed", "completed", "disputed"}
    /\ StartLocked(r, "cancel", b, "list", 0)
    /\ UNCHANGED <<stores, stripe>>

ListCancellable(r) ==
    /\ At(r, "list")
    /\ request' = [request EXCEPT ![r].pc = "cancel",
          ![r].todo = {i \in Intents : payments[request[r].b][i] \in Cancellable}]
    /\ UNCHANGED <<stores, stripe, railLock>>

\* cancelOpenPaymentIntents at Stripe, which refuses an intent that is
\* captured or canceled already: the request then fails half way.
CancelIntent(r) ==
    /\ At(r, "cancel")
    /\ \E i \in request[r].todo :
          LET b == request[r].b
          IN  IF intents[b][i] \in Cancellable
              THEN /\ SetIntent(b, i, "canceled", "payment_cancelled")
                   /\ request' = [request EXCEPT ![r].pc = "cancel_record", ![r].i = i]
                   /\ UNCHANGED railLock
              ELSE Finish(r) /\ UNCHANGED stripe
    /\ UNCHANGED stores

RecordCancelled(r) ==
    /\ At(r, "cancel_record")
    /\ Record(request[r].b, request[r].i, "cancelled")
    /\ request' = [request EXCEPT ![r].pc = "cancel", ![r].todo = @ \ {request[r].i}, ![r].i = 0]
    /\ UNCHANGED <<bookings, trips, vehicle, stripe, railLock>>

\* A booking that was cancelled before only has its payments cleaned up.
FinishCancel(r) ==
    /\ At(r, "cancel") /\ request[r].todo = {}
    /\ IF request[r].state = "cancelled" THEN Finish(r)
       ELSE SetState(r, "cancelled") /\ UNCHANGED railLock
    /\ UNCHANGED <<stores, stripe>>

-----------------------------------------------------------------------------
(* Trips, incidents and claims: no lock between the read and the write.      *)

CheckIn(r, b) ==
    /\ bookings[b].state \in {"confirmed", "check_in_open"}
    /\ Start(r, "check_in", b, "trip_in", "none", 0)
    /\ UNCHANGED <<stores, stripe, railLock>>

\* Mutant: the booking is put in trip first, the report is filed with it.
TripCheckInLate(r) ==
    /\ At(r, "trip_in")
    /\ SetState(r, "in_trip")
    /\ UNCHANGED <<stores, stripe, railLock>>

\* A second report for a booking violates the unique index.
TripCheckIn(r) ==
    LET b == request[r].b
    IN  /\ At(r, "trip_in")
        /\ IF trips[b] = "none"
           THEN /\ trips' = [trips EXCEPT ![b] = "in_trip"]
                /\ SetState(r, "in_trip") /\ UNCHANGED railLock
           ELSE Finish(r) /\ UNCHANGED trips
        /\ UNCHANGED <<bookings, vehicle, payments, stripe>>

CheckOut(r, b) ==
    /\ bookings[b].state \in {"in_trip", "return_pending"}
    /\ Start(r, "check_out", b, "trip_out", "none", 0)
    /\ UNCHANGED <<stores, stripe, railLock>>

\* Without a check-in there is nothing to check out; the report may bring an
\* exception.
TripCheckOut(r) ==
    LET b == request[r].b
    IN  /\ At(r, "trip_out")
        /\ IF trips[b] = "none" THEN Finish(r) /\ UNCHANGED trips
           ELSE /\ \E exception \in BOOLEAN :
                      /\ trips' = [trips EXCEPT ![b] = IF exception THEN "exception" ELSE "completed"]
                      /\ SetState(r, IF exception THEN "disputed" ELSE "completed")
                /\ UNCHANGED railLock
        /\ UNCHANGED <<bookings, vehicle, payments, stripe>>

\* An incident writes back the state it read, a claim disputes it.
Incident(r, b) ==
    /\ Start(r, "incident", b, "update", bookings[b].state, 0)
    /\ UNCHANGED <<stores, stripe, railLock>>

ClaimBookingState(state) ==
    IF state \in {"check_in_open", "completed", "confirmed", "in_trip", "return_pending"}
    THEN "disputed" ELSE state

Claim(r, b) ==
    /\ Start(r, "claim", b, "update", ClaimBookingState(bookings[b].state), 0)
    /\ UNCHANGED <<stores, stripe, railLock>>

-----------------------------------------------------------------------------
(* The renter and the platform at Stripe, the host, and crashes.             *)

AuthorizeCard(b, i) ==
    /\ intents[b][i] = "requires_payment_method"
    /\ SetIntent(b, i, "requires_capture", "authorization_succeeded")
    /\ UNCHANGED <<stores, railLock, request>>

DeclineCard(b, i) ==
    /\ CardsDecline /\ intents[b][i] = "requires_payment_method"
    /\ SetIntent(b, i, "requires_payment_method", "payment_failed")
    /\ UNCHANGED <<stores, railLock, request>>

CaptureHold(b, i) ==
    /\ intents[b][i] = "requires_capture"
    /\ SetIntent(b, i, "succeeded", "capture_succeeded")
    /\ UNCHANGED <<stores, railLock, request>>

\* The host puts the vehicle back on the market after inspection.
Relist ==
    /\ "controls" \in Operations /\ vehicle \in {"turnaround", "suspended"}
    /\ vehicle' = "listed"
    /\ UNCHANGED <<bookings, trips, payments, stripe, railLock, request>>

\* A request dies; its database session, and with it the lock, is gone.
Crash(r) ==
    /\ MayCrash /\ ~At(r, "idle")
    /\ Finish(r)
    /\ UNCHANGED <<stores, stripe>>

-----------------------------------------------------------------------------
Arrive(r) ==
    \/ \E b \in Bookings, eligible \in Eligibility : Checkout(r, b, eligible)
    \/ \E b \in Bookings :
          \/ Confirm(r, b) \/ Approve(r, b) \/ PaymentIntents(r, b) \/ Cancel(r, b)
          \/ CheckIn(r, b) \/ CheckOut(r, b) \/ Incident(r, b) \/ Claim(r, b)
    \/ \E e \in events : Webhook(r, e)
    \/ \E b \in Bookings, i \in Intents : Reconcile(r, b, i)

Continue(r) ==
    \/ CreateBooking(r) \/ UpdateBookingState(r) \/ ConfirmBooking(r)
    \/ ReadVehicle(r) \/ Advance(r) \/ WriteVehicle(r)
    \/ RetrieveIntent(r) \/ RecordSnapshot(r)
    \/ CheckIntentVehicle(r) \/ ListIntents(r) \/ ReuseIntent(r) \/ RecordReused(r)
    \/ CreateIntent(r) \/ OutOfIntents(r) \/ RecordCreated(r)
    \/ ListCancellable(r) \/ CancelIntent(r) \/ RecordCancelled(r) \/ FinishCancel(r)
    \/ TripCheckIn(r) \/ TripCheckOut(r)

Environment ==
    \/ \E b \in Bookings, i \in Intents :
          AuthorizeCard(b, i) \/ DeclineCard(b, i) \/ CaptureHold(b, i)
    \/ Relist

Next == (\E r \in Requests : Arrive(r) \/ Continue(r) \/ Crash(r)) \/ Environment

Spec == Init /\ [][Next]_vars

\* A handler that runs goes on, and Stripe delivers each event at least once,
\* trying again while the application is busy.
Fairness ==
    /\ \A r \in Requests : WF_vars(Continue(r))
    /\ \A b \in Bookings, i \in Intents, kind \in EventKinds :
          SF_vars(\E r \in Requests : <<b, i, kind>> \in owed /\ Webhook(r, <<b, i, kind>>))

FairSpec == Spec /\ Fairness

-----------------------------------------------------------------------------
(* Invariants.                                                               *)

\* Two bookings of the vehicle for overlapping dates are never both active,
\* however checkouts, payments, reviews and cancellations interleave.
NoDoubleBooking ==
    \A b, c \in Bookings : b # c /\ <<b, c>> \in Overlapping =>
        ~({bookings[b].state, bookings[c].state} \subseteq ACTIVE_BOOKING_STATES)

\* Whatever was accepted on the strength of a payment still has it: unless a
\* handler is working on the booking's payments, the intent it refers to is
\* held or captured at Stripe.
AcceptedIsPaid ==
    \A b \in Bookings :
        /\ railLock[b] = NoRequest /\ bookings[b].ref # 0
        /\ bookings[b].state \in {"host_review", "confirmed", "in_trip"}
        => intents[b][bookings[b].ref] \in Successful

\* A payment record never claims a hold that Stripe has let go, although old
\* events may be delivered after new ones.
NoPhantomHold ==
    \A b \in Bookings, i \in Intents :
        railLock[b] = NoRequest /\ payments[b][i] = "requires_capture" =>
            intents[b][i] \in Successful

\* A renter is never charged twice: at most one intent of a booking can still
\* be authorised, is held or is captured.
OneOpenIntent ==
    \A b \in Bookings :
        Cardinality({i \in Intents : intents[b][i] \in Cancellable \cup {"succeeded"}}) <= 1

\* A cancelled booking leaves no intent that could still be authorised and no
\* hold on the renter's card.
NoOpenIntentAfterCancel ==
    \A b \in Bookings, i \in Intents :
        railLock[b] = NoRequest /\ bookings[b].state = "cancelled" =>
            intents[b][i] \notin Cancellable

\* A booking in trip has its check-in report and a completed one its check-out
\* report, whatever is filed at the same time and wherever a handler dies.
TripBacksBooking ==
    \A b \in Bookings :
        /\ bookings[b].state = "in_trip" => trips[b] # "none"
        /\ bookings[b].state = "completed" => trips[b] \in {"completed", "exception"}

-----------------------------------------------------------------------------
(* Steps and progress.                                                       *)

\* A cancelled booking can only be closed or disputed.
CancelledIsFinal ==
    [][\A b \in Bookings : bookings[b].state = "cancelled" =>
          bookings'[b].state \in {"cancelled", "closed", "disputed"}]_vars

\* Nobody keeps a booking's rail lock for ever.
RailLockReleased ==
    \A b \in Bookings : railLock[b] # NoRequest ~> railLock[b] = NoRequest

\* A hold is not left hanging: a booking that awaits a payment which was
\* authorised is accepted, reviewed, cancelled or the hold is released.
Hanging(b) ==
    /\ bookings[b].state = "pending_payment_authorization"
    /\ \E i \in Intents : intents[b][i] \in Successful

\* A handler on its way to accept booking b.
Accepting(r, b) ==
    /\ request[r].pc \in {"advance", "vehicle", "confirm", "confirm_write"}
    /\ request[r].b = b

\* As long as no handler dies with its work half done, a hold of a booking that
\* awaits it is never forgotten: a handler is on its way to accept the booking,
\* or Stripe still owes the event of the hold, and no record of an older event
\* will keep that from being believed.
HoldAttended == \A b \in Bookings, i \in Intents :
    bookings[b].state = "pending_payment_authorization" /\ intents[b][i] \in Successful =>
        \/ \E r \in Requests : Accepting(r, b)
        \/ /\ payments[b][i] # "cancelled"
           /\ \E kind \in {"authorization_succeeded", "capture_succeeded"} : <<b, i, kind>> \in owed

HoldIsUsed == \A b \in Bookings : Hanging(b) ~> ~Hanging(b)

-----------------------------------------------------------------------------
(* The handlers keep the promise of Reservations.                            *)

\* What the state of a booking record tells its renter.
ToldRenter(state) ==
    CASE state = "none" -> "free"
      [] state \in {"pending_renter_verification", "pending_payment_authorization"} -> "requested"
      [] state = "host_review" -> "in_review"
      [] state \in {"confirmed", "check_in_open", "in_trip", "return_pending"} -> "accepted"
      [] OTHER -> "over"

Promise == INSTANCE Reservations WITH
    Booking <- Bookings, Final <- AtomicStore,
    reservation <- [b \in Bookings |-> ToldRenter(bookings[b].state)]

\* Whatever webhooks, approvals, confirmations and cancellations do at the same
\* time, renters see a calendar in which dates are held for one of them, and on
\* the atomic store nothing is decided on a state that is no longer there.
KeepsPromise == Promise!Spec

=============================================================================
