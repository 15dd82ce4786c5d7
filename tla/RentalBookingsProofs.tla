------------------------ MODULE RentalBookingsProofs ------------------------
(* Theorems about RentalBookings, for any bookings, requests and routes, on  *)
(* either store.                                                             *)
EXTENDS RentalBookings, FiniteSetTheorems, TLAPS

RequestsTyped  == request \in [Requests -> Busy \cup {Idle}]
LocksTyped     == railLock \in [Bookings -> Requests \cup {NoRequest}]
PaymentsTyped  == payments \in [Bookings -> [Intents -> PaymentStates]]
StripeTyped    == /\ intents \in [Bookings -> [Intents -> IntentStates]]
                  /\ events \subseteq Bookings \X Intents \X EventKinds
                  /\ owed \subseteq events

-----------------------------------------------------------------------------
(* How the steps of a request change it.                                     *)

\* A request that is somewhere in its handler is a record of all its fields.
LEMMA BusyAt ==
    ASSUME TypeOK, NEW r \in Requests, NEW pc \in ProgramCounters, At(r, pc)
    PROVE  request[r] \in Busy
BY DEF TypeOK, At, Idle, ProgramCounters

LEMMA BusyFields ==
    ASSUME TypeOK, NEW r \in Requests, request[r] \in Busy
    PROVE  /\ request[r].b \in Bookings /\ request[r].op \in Routes
           /\ request[r].state \in BookingStates /\ request[r].target \in BookingStates
           /\ request[r].ref \in Intents \cup {0} /\ request[r].i \in Intents \cup {0}
           /\ request[r].todo \subseteq Intents /\ request[r].snapshot \in IntentStates
           /\ request[r].review \in BOOLEAN /\ request[r].pc \in ProgramCounters
           /\ request[r].pc \in OnIntent => request[r].i \in Intents
BY DEF Busy, OnIntent

LEMMA FinishTyped ==
    ASSUME TypeOK, NEW r \in Requests, Finish(r)
    PROVE  RequestsTyped' /\ LocksTyped'
BY DEF TypeOK, Finish, RequestsTyped, LocksTyped

LEMMA GotoTyped ==
    ASSUME TypeOK, NEW r \in Requests, request[r] \in Busy,
           NEW pc \in ProgramCounters \ OnIntent, Goto(r, pc)
    PROVE  RequestsTyped'
<1>1. [request[r] EXCEPT !.pc = pc] \in Busy
    BY DEF Busy, OnIntent
<1> QED
    BY <1>1 DEF TypeOK, Goto, RequestsTyped

LEMMA ProceedTyped ==
    ASSUME TypeOK, NEW r \in Requests, request[r] \in Busy,
           NEW pc \in ProgramCounters \ OnIntent, Proceed(r, pc)
    PROVE  RequestsTyped' /\ LocksTyped'
BY GotoTyped DEF TypeOK, Proceed, LocksTyped

LEMMA SetStateTyped ==
    ASSUME TypeOK, NEW r \in Requests, request[r] \in Busy,
           NEW state \in BookingStates, SetState(r, state)
    PROVE  RequestsTyped'
<1>1. [request[r] EXCEPT !.pc = "update", !.target = state] \in Busy
    BY DEF Busy, OnIntent, ProgramCounters
<1> QED
    BY <1>1 DEF TypeOK, SetState, RequestsTyped

LEMMA ActivationTyped ==
    ASSUME TypeOK, NEW op \in Routes, NEW b \in Bookings, NEW pc \in ProgramCounters,
           NEW target \in BookingStates, NEW i \in Intents \cup {0}, pc \in OnIntent => i \in Intents
    PROVE  Activation(op, b, pc, target, i) \in Busy
BY DEF TypeOK, Activation, Busy, OnIntent, IntentStates

LEMMA StartTyped ==
    ASSUME TypeOK, NEW r \in Requests, NEW op \in Routes, NEW b \in Bookings,
           NEW pc \in ProgramCounters, NEW target \in BookingStates,
           NEW i \in Intents \cup {0}, pc \in OnIntent => i \in Intents,
           Start(r, op, b, pc, target, i)
    PROVE  RequestsTyped'
BY ActivationTyped DEF TypeOK, Start, RequestsTyped

LEMMA StartLockedTyped ==
    ASSUME TypeOK, NEW r \in Requests, NEW op \in Routes, NEW b \in Bookings,
           NEW pc \in ProgramCounters, NEW i \in Intents \cup {0}, pc \in OnIntent => i \in Intents,
           StartLocked(r, op, b, pc, i)
    PROVE  RequestsTyped' /\ LocksTyped'
<1>1. "none" \in BookingStates
    BY DEF BookingStates
<1> QED
    BY <1>1, StartTyped DEF TypeOK, StartLocked, LocksTyped

LEMMA MonotonicTyped ==
    ASSUME NEW old \in PaymentStates, NEW new \in PaymentStates
    PROVE  MonotonicPaymentStatus(old, new) \in PaymentStates
BY DEF MonotonicPaymentStatus

LEMMA RecordTyped ==
    ASSUME TypeOK, NEW b \in Bookings, NEW i \in Intents,
           NEW status \in PaymentStates, Record(b, i, status)
    PROVE  PaymentsTyped'
BY MonotonicTyped DEF TypeOK, Record, PaymentsTyped

LEMMA SnapshotTyped ==
    ASSUME NEW s \in IntentStates
    PROVE  StatusOfSnapshot(s) \in PaymentStates
BY DEF IntentStates, PaymentStates, StatusOfSnapshot

LEMMA EventTyped ==
    ASSUME NEW kind \in EventKinds
    PROVE  StatusOfEvent(kind) \in PaymentStates
BY DEF EventKinds, PaymentStates, StatusOfEvent

LEMMA SetIntentTyped ==
    ASSUME TypeOK, NEW b \in Bookings, NEW i \in Intents, NEW status \in IntentStates,
           NEW kind \in EventKinds, SetIntent(b, i, status, kind)
    PROVE  StripeTyped'
BY DEF TypeOK, SetIntent, StripeTyped

-----------------------------------------------------------------------------
(* Type correctness, one lemma per kind of request.                          *)

TypedParts == RequestsTyped /\ LocksTyped /\ PaymentsTyped /\ StripeTyped

LEMMA TypeOfParts ==
    ASSUME TypedParts', UNCHANGED <<bookings, trips, vehicle>>, TypeOK
    PROVE  TypeOK'
BY DEF TypedParts, RequestsTyped, LocksTyped, PaymentsTyped, StripeTyped, TypeOK

LEMMA ArriveTyped ==
    ASSUME TypeOK, NEW r \in Requests, Arrive(r)
    PROVE  TypeOK'
<1> USE DEF StripeTyped, PaymentsTyped, TypedParts
<1>1. ASSUME NEW b \in Bookings, NEW eligible \in Eligibility, Checkout(r, b, eligible)
      PROVE  TypeOK'
    <2>1. request' = [request EXCEPT ![r] = Activation("checkout", b, "create",
             IF eligible THEN "pending_payment_authorization" ELSE "pending_renter_verification", 0)]
        BY <1>1 DEF Checkout
    <2>2. Activation("checkout", b, "create",
             IF eligible THEN "pending_payment_authorization" ELSE "pending_renter_verification", 0) \in Busy
        BY ActivationTyped DEF Routes, OnIntent, ProgramCounters, BookingStates, ACTIVE_BOOKING_STATES
    <2>3. RequestsTyped'
        BY <2>1, <2>2 DEF TypeOK, RequestsTyped
    <2> QED
        BY <1>1, <2>3, TypeOfParts DEF Checkout, stores, stripe, TypeOK, LocksTyped
<1>2. ASSUME NEW b \in Bookings, Confirm(r, b)
      PROVE  TypeOK'
    <2>1. RequestsTyped'
        BY <1>2, StartTyped
           DEF Confirm, Routes, OnIntent, ProgramCounters, BookingStates, ACTIVE_BOOKING_STATES
    <2> QED
        BY <1>2, <2>1, TypeOfParts DEF Confirm, stores, stripe, TypeOK, LocksTyped
<1>3. ASSUME NEW b \in Bookings, Approve(r, b)
      PROVE  TypeOK'
    <2>1. bookings[b].ref \in Intents \cup {0}
        BY DEF TypeOK
    <2>2. RequestsTyped' /\ LocksTyped'
        BY <1>3, <2>1, StartLockedTyped DEF Approve, Routes, OnIntent, ProgramCounters
    <2> QED
        BY <1>3, <2>2, TypeOfParts DEF Approve, stores, stripe, TypeOK
<1>4. ASSUME NEW b \in Bookings, PaymentIntents(r, b)
      PROVE  TypeOK'
    <2>1. RequestsTyped' /\ LocksTyped'
        BY <1>4, StartLockedTyped DEF PaymentIntents, Routes, OnIntent, ProgramCounters
    <2> QED
        BY <1>4, <2>1, TypeOfParts DEF PaymentIntents, stores, stripe, TypeOK
<1>5. ASSUME NEW b \in Bookings, Cancel(r, b)
      PROVE  TypeOK'
    <2>1. RequestsTyped' /\ LocksTyped'
        BY <1>5, StartLockedTyped DEF Cancel, Routes, OnIntent, ProgramCounters
    <2> QED
        BY <1>5, <2>1, TypeOfParts DEF Cancel, stores, stripe, TypeOK
<1>6. ASSUME NEW b \in Bookings, CheckIn(r, b) \/ CheckOut(r, b)
      PROVE  TypeOK'
    <2>1. ASSUME CheckIn(r, b) PROVE RequestsTyped'
        BY <2>1, StartTyped DEF CheckIn, Routes, OnIntent, ProgramCounters, BookingStates
    <2>2. ASSUME CheckOut(r, b) PROVE RequestsTyped'
        BY <2>2, StartTyped DEF CheckOut, Routes, OnIntent, ProgramCounters, BookingStates
    <2> QED
        BY <1>6, <2>1, <2>2, TypeOfParts DEF CheckIn, CheckOut, stores, stripe, TypeOK, LocksTyped
<1>7. ASSUME NEW b \in Bookings, Incident(r, b) \/ Claim(r, b)
      PROVE  TypeOK'
    <2>1. bookings[b].state \in BookingStates /\ ClaimBookingState(bookings[b].state) \in BookingStates
        BY DEF TypeOK, ClaimBookingState, BookingStates
    <2>2. RequestsTyped'
        BY <1>7, <2>1, StartTyped DEF Incident, Claim, Routes, OnIntent, ProgramCounters
    <2> QED
        BY <1>7, <2>2, TypeOfParts DEF Incident, Claim, stores, stripe, TypeOK, LocksTyped
<1>8. ASSUME NEW e \in events, Webhook(r, e)
      PROVE  TypeOK'
    <2>1. e[1] \in Bookings /\ e[2] \in Intents /\ e[3] \in EventKinds
        BY DEF TypeOK
    <2>2. PaymentsTyped'
        BY <1>8, <2>1, EventTyped, RecordTyped DEF Webhook
    <2>3. Activation("webhook", e[1], "advance", "none", e[2]) \in Busy
        BY <2>1, ActivationTyped DEF Routes, OnIntent, ProgramCounters, BookingStates
    <2>4. RequestsTyped'
        BY <1>8, <2>3 DEF Webhook, TypeOK, RequestsTyped
    <2> QED
        BY <1>8, <2>2, <2>4, TypeOfParts DEF Webhook, TypeOK, LocksTyped
<1>9. ASSUME NEW b \in Bookings, NEW i \in Intents, Reconcile(r, b, i)
      PROVE  TypeOK'
    <2>1. RequestsTyped'
        BY <1>9, StartTyped DEF Reconcile, StartUnlocked, Routes, OnIntent, ProgramCounters, BookingStates
    <2> QED
        BY <1>9, <2>1, TypeOfParts DEF Reconcile, StartUnlocked, stores, stripe, TypeOK, LocksTyped
<1> QED
    BY <1>1, <1>2, <1>3, <1>4, <1>5, <1>6, <1>7, <1>8, <1>9 DEF Arrive

LEMMA BookingStoreTyped ==
    ASSUME TypeOK, NEW r \in Requests,
           CreateBooking(r) \/ UpdateBookingState(r) \/ ConfirmBooking(r)
    PROVE  TypeOK'
<1> DEFINE BookingsTyped == bookings \in [Bookings -> [state : BookingStates, ref : Intents \cup {0}]]
           OthersTyped == RequestsTyped /\ LocksTyped
<1>a. SUFFICES ASSUME UNCHANGED <<trips, vehicle, payments, stripe>>
               PROVE  BookingsTyped' /\ OthersTyped'
    BY DEF CreateBooking, UpdateBookingState, ConfirmBooking, WriteConfirmed, stores, stripe,
           TypeOK, RequestsTyped, LocksTyped
<1>1. CASE CreateBooking(r)
    <2>1. request[r] \in Busy
        BY <1>1, BusyAt DEF CreateBooking, ProgramCounters
    <2>2. request[r].b \in Bookings /\ request[r].target \in BookingStates
        BY <2>1, BusyFields
    <2>3. BookingsTyped'
        BY <1>1, <2>2 DEF CreateBooking, TypeOK
    <2> QED
        BY <1>1, <2>3, FinishTyped DEF CreateBooking
<1>2. CASE UpdateBookingState(r)
    <2>1. request[r] \in Busy
        BY <1>2, BusyAt DEF UpdateBookingState, ProgramCounters
    <2>2. /\ request[r].b \in Bookings /\ request[r].target \in BookingStates
          /\ request[r].ref \in Intents \cup {0}
        BY <2>1, BusyFields
    <2>3. CASE /\ request' = [request EXCEPT ![r].pc = "update_write",
                                             ![r].ref = bookings[request[r].b].ref]
               /\ UNCHANGED <<stores, railLock>>
        <3>1. bookings[request[r].b].ref \in Intents \cup {0}
            BY <2>2 DEF TypeOK
        <3>2. [request[r] EXCEPT !.pc = "update_write", !.ref = bookings[request[r].b].ref] \in Busy
            BY <2>1, <3>1 DEF Busy, OnIntent, ProgramCounters
        <3> QED
            BY <2>3, <3>2 DEF TypeOK, RequestsTyped, LocksTyped, stores
    <2>4. CASE /\ AfterUpdate(r)
               /\ bookings' = [bookings EXCEPT ![request[r].b] =
                     [state |-> request[r].target,
                      ref   |-> IF AtomicStore THEN @.ref ELSE request[r].ref]]
        <3>1. BookingsTyped'
            BY <2>2, <2>4 DEF TypeOK
        <3>2. OthersTyped'
            BY <2>1, <2>4, FinishTyped, ProceedTyped DEF AfterUpdate, ProgramCounters, OnIntent
        <3> QED
            BY <3>1, <3>2
    <2> QED
        BY <1>2, <2>3, <2>4 DEF UpdateBookingState
<1>3. CASE ConfirmBooking(r)
    <2>1. request[r] \in Busy
        BY <1>3, BusyAt DEF ConfirmBooking, ProgramCounters
    <2>2. /\ request[r].b \in Bookings /\ request[r].state \in BookingStates
          /\ request[r].ref \in Intents \cup {0} /\ request[r].i \in Intents \cup {0}
        BY <2>1, BusyFields
    <2>3. ASSUME NEW current \in [state : BookingStates, ref : Intents \cup {0}],
                 WriteConfirmed(r, current)
          PROVE  BookingsTyped' /\ OthersTyped'
        <3>1. ConfirmedBooking(r, current) \in [state : BookingStates, ref : Intents \cup {0}]
            BY <2>2 DEF ConfirmedBooking, BookingStates, ACTIVE_BOOKING_STATES
        <3>2. BookingsTyped'
            BY <2>2, <2>3, <3>1 DEF WriteConfirmed, TypeOK
        <3> QED
            BY <2>3, <3>2, FinishTyped DEF WriteConfirmed
    <2>4. /\ bookings[request[r].b] \in [state : BookingStates, ref : Intents \cup {0}]
          /\ [state |-> request[r].state, ref |-> request[r].ref]
                \in [state : BookingStates, ref : Intents \cup {0}]
        BY <2>2 DEF TypeOK
    <2>5. CASE Finish(r) /\ UNCHANGED stores
        BY <2>5, FinishTyped DEF TypeOK, stores
    <2>6. CASE /\ request' = [request EXCEPT ![r].pc = "confirm_write",
                                 ![r].state = bookings[request[r].b].state,
                                 ![r].ref = bookings[request[r].b].ref]
               /\ UNCHANGED <<stores, railLock>>
        <3>1. [request[r] EXCEPT !.pc = "confirm_write", !.state = bookings[request[r].b].state,
                                 !.ref = bookings[request[r].b].ref] \in Busy
            BY <2>1, <2>4 DEF Busy, OnIntent, ProgramCounters
        <3> QED
            BY <2>6, <3>1 DEF TypeOK, RequestsTyped, LocksTyped, stores
    <2> QED
        BY <1>3, <2>3, <2>4, <2>5, <2>6 DEF ConfirmBooking
<1> QED
    BY <1>1, <1>2, <1>3

\* Steps that change no store.
LEMMA ReadTyped ==
    ASSUME TypeOK, NEW r \in Requests,
           \/ ReadVehicle(r) \/ Advance(r) \/ RetrieveIntent(r) \/ CheckIntentVehicle(r)
           \/ ListIntents(r) \/ ReuseIntent(r) \/ OutOfIntents(r) \/ ListCancellable(r)
           \/ FinishCancel(r)
    PROVE  TypeOK'
<1>1. UNCHANGED <<stores, stripe>>
    BY DEF ReadVehicle, Advance, RetrieveIntent, CheckIntentVehicle, ListIntents, ReuseIntent,
           OutOfIntents, ListCancellable, FinishCancel
<1>2. request[r] \in Busy
    BY BusyAt DEF ReadVehicle, Advance, RetrieveIntent, CheckIntentVehicle, ListIntents,
           ReuseIntent, OutOfIntents, ListCancellable, FinishCancel, ProgramCounters
<1>3. request[r].b \in Bookings /\ request[r].i \in Intents \cup {0} /\ request[r].todo \subseteq Intents
    BY <1>2, BusyFields
<1>4. CASE Finish(r)
    BY <1>1, <1>4, FinishTyped, TypeOfParts
       DEF TypedParts, PaymentsTyped, StripeTyped, stores, stripe, TypeOK
<1>5. ASSUME NEW pc \in ProgramCounters \ OnIntent, Proceed(r, pc)
      PROVE  TypeOK'
    BY <1>1, <1>2, <1>5, ProceedTyped, TypeOfParts
       DEF TypedParts, PaymentsTyped, StripeTyped, stores, stripe, TypeOK
<1>6. ASSUME NEW next \in Busy, request' = [request EXCEPT ![r] = next], UNCHANGED railLock
      PROVE  TypeOK'
    BY <1>1, <1>6, TypeOfParts
       DEF TypedParts, RequestsTyped, LocksTyped, PaymentsTyped, StripeTyped, stores, stripe, TypeOK
<1>7. CASE ReadVehicle(r)
    <2>1. ASSUME NEW review \in BOOLEAN, UNCHANGED railLock,
                 request' = [request EXCEPT ![r].pc = "confirm", ![r].review = review]
          PROVE  TypeOK'
        <3>1. [request[r] EXCEPT !.pc = "confirm", !.review = review] \in Busy
            BY <1>2 DEF Busy, OnIntent, ProgramCounters
        <3> QED
            BY <1>6, <2>1, <3>1 DEF TypeOK
    <2>2. (IF request[r].op = "approve" THEN {FALSE} ELSE ReviewChoices) \subseteq BOOLEAN
        BY RentalAssumption
    <2> QED
        BY <1>4, <1>7, <2>1, <2>2 DEF ReadVehicle
<1>8. CASE Advance(r)
    BY <1>4, <1>5, <1>8 DEF Advance, ProgramCounters, OnIntent
<1>9. CASE RetrieveIntent(r)
    <2>1. request[r].i \in Intents
        BY <1>2, <1>9, BusyFields DEF RetrieveIntent, At, OnIntent
    <2>2. intents[request[r].b][request[r].i] \in IntentStates
        BY <1>3, <2>1 DEF TypeOK
    <2>3. [request[r] EXCEPT !.pc = "record", !.snapshot = intents[request[r].b][request[r].i]] \in Busy
        BY <1>2, <2>1, <2>2 DEF Busy, OnIntent, ProgramCounters
    <2> QED
        BY <1>6, <1>9, <2>3 DEF RetrieveIntent, TypeOK
<1>10. CASE CheckIntentVehicle(r)
    BY <1>4, <1>5, <1>10 DEF CheckIntentVehicle, ProgramCounters, OnIntent
<1>11. CASE ListIntents(r)
    <2> DEFINE pc == IF Reusable(request[r].b) = {} THEN "new_intent" ELSE "intent"
    <2>1. PICK last \in Intents \cup {0} :
             /\ request' = [request EXCEPT ![r].ref = last, ![r].todo = Reusable(request[r].b), ![r].pc = pc]
             /\ UNCHANGED railLock
        BY <1>11 DEF ListIntents, Existing
    <2>2. Reusable(request[r].b) \subseteq Intents /\ pc \in ProgramCounters \ OnIntent
        BY DEF Reusable, Existing, ProgramCounters, OnIntent
    <2>3. [request[r] EXCEPT !.ref = last, !.todo = Reusable(request[r].b), !.pc = pc] \in Busy
        <3> HIDE DEF pc
        <3> QED
            BY <1>2, <2>1, <2>2 DEF Busy, OnIntent
    <2> QED
        BY <1>6, <2>1, <2>3 DEF TypeOK
<1>12. CASE ReuseIntent(r)
    <2>1. PICK i \in request[r].todo :
             LET b == request[r].b  snapshot == intents[b][i]
             IN  IF snapshot = "canceled" THEN TryNext(r, request[r].todo \ {i}) /\ UNCHANGED railLock
                 ELSE IF snapshot \in Successful
                 THEN /\ request' = [request EXCEPT ![r].i = i, ![r].snapshot = snapshot, ![r].todo = {},
                           ![r].pc = IF payments[b][i] \in Authorized THEN "advance" ELSE "intent_record"]
                      /\ UNCHANGED railLock
                 ELSE Finish(r)
        BY <1>12 DEF ReuseIntent
    <2>2. i \in Intents /\ intents[request[r].b][i] \in IntentStates
        BY <1>3, <2>1 DEF TypeOK
    <2>3. CASE TryNext(r, request[r].todo \ {i}) /\ UNCHANGED railLock
        <3> DEFINE pc == IF request[r].todo \ {i} = {} THEN "new_intent" ELSE "intent"
        <3>1. pc \in ProgramCounters \ OnIntent
            BY DEF ProgramCounters, OnIntent
        <3>2. [request[r] EXCEPT !.todo = request[r].todo \ {i}, !.pc = pc] \in Busy
            <4> HIDE DEF pc
            <4> QED
                BY <1>2, <1>3, <3>1 DEF Busy, OnIntent
        <3> QED
            BY <1>6, <2>3, <3>2 DEF TypeOK, TryNext
    <2>4. CASE /\ request' = [request EXCEPT ![r].i = i, ![r].snapshot = intents[request[r].b][i],
                     ![r].todo = {},
                     ![r].pc = IF payments[request[r].b][i] \in Authorized THEN "advance" ELSE "intent_record"]
               /\ UNCHANGED railLock
        <3> DEFINE pc == IF payments[request[r].b][i] \in Authorized THEN "advance" ELSE "intent_record"
        <3>1. pc \in ProgramCounters
            BY DEF ProgramCounters
        <3>2. [request[r] EXCEPT !.i = i, !.snapshot = intents[request[r].b][i], !.todo = {}, !.pc = pc]
                 \in Busy
            <4> HIDE DEF pc
            <4> QED
                BY <1>2, <2>2, <3>1 DEF Busy, OnIntent
        <3> QED
            BY <1>6, <2>4, <3>2 DEF TypeOK
    <2> QED
        BY <1>4, <2>1, <2>3, <2>4
<1>13. CASE OutOfIntents(r)
    BY <1>4, <1>13 DEF OutOfIntents
<1>14. CASE ListCancellable(r)
    <2> DEFINE todo == {i \in Intents : payments[request[r].b][i] \in Cancellable}
    <2>1. [request[r] EXCEPT !.pc = "cancel", !.todo = todo] \in Busy
        BY <1>2 DEF Busy, OnIntent, ProgramCounters
    <2> QED
        BY <1>6, <1>14, <2>1 DEF ListCancellable, TypeOK
<1>15. CASE FinishCancel(r)
    <2>1. "cancelled" \in BookingStates
        BY DEF BookingStates
    <2>2. CASE SetState(r, "cancelled") /\ UNCHANGED railLock
        BY <1>1, <1>2, <2>1, <2>2, SetStateTyped, TypeOfParts
           DEF TypedParts, LocksTyped, PaymentsTyped, StripeTyped, stores, stripe, TypeOK
    <2> QED
        BY <1>4, <1>15, <2>2 DEF FinishCancel
<1> QED
    BY <1>7, <1>8, <1>9, <1>10, <1>11, <1>12, <1>13, <1>14, <1>15

\* Steps that change a payment, an intent, a trip or the vehicle.
LEMMA WriteTyped ==
    ASSUME TypeOK, NEW r \in Requests,
           \/ RecordSnapshot(r) \/ RecordReused(r) \/ RecordCreated(r) \/ RecordCancelled(r)
           \/ CreateIntent(r) \/ CancelIntent(r)
           \/ TripCheckIn(r) \/ TripCheckOut(r) \/ WriteVehicle(r)
    PROVE  TypeOK'
<1>1. request[r] \in Busy
    BY BusyAt DEF RecordSnapshot, RecordReused, RecordCreated, RecordCancelled, CreateIntent,
           CancelIntent, TripCheckIn, TripCheckOut, WriteVehicle, ProgramCounters
<1>2. /\ request[r].b \in Bookings /\ request[r].snapshot \in IntentStates
      /\ request[r].todo \subseteq Intents
      /\ request[r].pc \in OnIntent => request[r].i \in Intents
    BY <1>1, BusyFields
<1> USE DEF TypedParts
<1>3. CASE RecordSnapshot(r)
    <2>1. request[r].i \in Intents
        BY <1>2, <1>3 DEF RecordSnapshot, At, OnIntent
    <2>2. PaymentsTyped'
        BY <1>2, <1>3, <2>1, SnapshotTyped, RecordTyped DEF RecordSnapshot
    <2>3. CASE Finish(r)
        BY <1>3, <2>2, <2>3, FinishTyped, TypeOfParts DEF RecordSnapshot, StripeTyped, stripe, TypeOK
    <2>4. CASE Proceed(r, IF request[r].op = "approve" THEN "vehicle" ELSE "advance")
        <3>1. RequestsTyped' /\ LocksTyped'
            BY <1>1, <2>4, ProceedTyped DEF ProgramCounters, OnIntent
        <3> QED
            BY <1>3, <2>2, <3>1, TypeOfParts DEF RecordSnapshot, StripeTyped, stripe, TypeOK
    <2> QED
        BY <1>3, <2>3, <2>4 DEF RecordSnapshot
<1>4. CASE RecordReused(r)
    <2>1. request[r].i \in Intents
        BY <1>2, <1>4 DEF RecordReused, At, OnIntent
    <2>2. PaymentsTyped'
        BY <1>2, <1>4, <2>1, SnapshotTyped, RecordTyped DEF RecordReused
    <2>3. RequestsTyped' /\ LocksTyped'
        BY <1>1, <1>4, ProceedTyped DEF RecordReused, ProgramCounters, OnIntent
    <2> QED
        BY <1>4, <2>2, <2>3, TypeOfParts DEF RecordReused, StripeTyped, stripe, TypeOK
<1>5. CASE RecordCreated(r)
    <2>1. request[r].i \in Intents
        BY <1>2, <1>5 DEF RecordCreated, At, OnIntent
    <2>2. PaymentsTyped'
        BY <1>2, <1>5, <2>1, RecordTyped DEF RecordCreated, PaymentStates
    <2> QED
        BY <1>5, <2>2, FinishTyped, TypeOfParts DEF RecordCreated, StripeTyped, stripe, TypeOK
<1>6. CASE RecordCancelled(r)
    <2>1. request[r].i \in Intents
        BY <1>2, <1>6 DEF RecordCancelled, At, OnIntent
    <2>2. PaymentsTyped'
        BY <1>2, <1>6, <2>1, RecordTyped DEF RecordCancelled, PaymentStates
    <2>3. [request[r] EXCEPT !.pc = "cancel", !.todo = @ \ {request[r].i}, !.i = 0] \in Busy
        BY <1>1, <1>2 DEF Busy, ProgramCounters, OnIntent
    <2>4. RequestsTyped'
        BY <1>6, <2>3 DEF RecordCancelled, TypeOK, RequestsTyped
    <2> QED
        BY <1>6, <2>2, <2>4, TypeOfParts DEF RecordCancelled, StripeTyped, LocksTyped, stripe, TypeOK
<1>7. CASE CreateIntent(r)
    <2> DEFINE i == request[r].ref + 1
    <2>1. [request[r] EXCEPT !.pc = "new_record", !.i = i] \in Busy
        BY <1>1, <1>7 DEF CreateIntent, Busy, ProgramCounters, OnIntent
    <2>2. RequestsTyped'
        BY <1>7, <2>1 DEF CreateIntent, TypeOK, RequestsTyped
    <2>3. StripeTyped'
        BY <1>2, <1>7, SetIntentTyped
           DEF CreateIntent, stripe, StripeTyped, TypeOK, IntentStates, EventKinds
    <2> QED
        BY <1>7, <2>2, <2>3, TypeOfParts DEF CreateIntent, PaymentsTyped, LocksTyped, stores, TypeOK
<1>8. CASE CancelIntent(r)
    <2>1. PICK i \in request[r].todo :
             \/ /\ SetIntent(request[r].b, i, "canceled", "payment_cancelled")
                /\ request' = [request EXCEPT ![r].pc = "cancel_record", ![r].i = i]
                /\ UNCHANGED railLock
             \/ Finish(r) /\ UNCHANGED stripe
        BY <1>8 DEF CancelIntent
    <2>2. CASE Finish(r) /\ UNCHANGED stripe
        BY <1>8, <2>2, FinishTyped, TypeOfParts
           DEF CancelIntent, stores, stripe, StripeTyped, PaymentsTyped, TypeOK
    <2>3. CASE /\ SetIntent(request[r].b, i, "canceled", "payment_cancelled")
               /\ request' = [request EXCEPT ![r].pc = "cancel_record", ![r].i = i]
               /\ UNCHANGED railLock
        <3>1. i \in Intents
            BY <1>2, <2>1
        <3>2. StripeTyped'
            BY <1>2, <2>3, <3>1, SetIntentTyped DEF IntentStates, EventKinds
        <3>3. [request[r] EXCEPT !.pc = "cancel_record", !.i = i] \in Busy
            BY <1>1, <3>1 DEF Busy, ProgramCounters
        <3>4. RequestsTyped'
            BY <2>3, <3>3 DEF TypeOK, RequestsTyped
        <3> QED
            BY <1>8, <2>3, <3>2, <3>4, TypeOfParts
               DEF CancelIntent, stores, PaymentsTyped, LocksTyped, TypeOK
    <2> QED
        BY <2>1, <2>2, <2>3
<1>9. CASE TripCheckIn(r)
    <2>1. RequestsTyped' /\ LocksTyped'
        BY <1>1, <1>9, FinishTyped, SetStateTyped DEF TripCheckIn, BookingStates, ACTIVE_BOOKING_STATES, LocksTyped, TypeOK
    <2> QED
        BY <1>2, <1>9, <2>1 DEF TripCheckIn, RequestsTyped, LocksTyped, stripe, TypeOK, TripStates
<1>10. CASE TripCheckOut(r)
    <2>1. RequestsTyped' /\ LocksTyped'
        BY <1>1, <1>10, FinishTyped, SetStateTyped DEF TripCheckOut, BookingStates, LocksTyped, TypeOK
    <2> QED
        BY <1>2, <1>10, <2>1 DEF TripCheckOut, RequestsTyped, LocksTyped, stripe, TypeOK, TripStates
<1>11. CASE WriteVehicle(r)
    <2>1. vehicle' \in VehicleStates
        BY <1>11 DEF WriteVehicle, VehicleStates
    <2> QED
        BY <1>11, <2>1, FinishTyped DEF WriteVehicle, RequestsTyped, LocksTyped, stripe, TypeOK
<1> QED
    BY <1>3, <1>4, <1>5, <1>6, <1>7, <1>8, <1>9, <1>10, <1>11

LEMMA TypeStep == TypeOK /\ [Next]_vars => TypeOK'
<1> SUFFICES ASSUME TypeOK, [Next]_vars PROVE TypeOK'
    OBVIOUS
<1> USE DEF TypedParts, PaymentsTyped, StripeTyped
<1>1. ASSUME NEW r \in Requests, Continue(r) PROVE TypeOK'
    BY <1>1, BookingStoreTyped, ReadTyped, WriteTyped DEF Continue
<1>2. ASSUME NEW r \in Requests, Crash(r) PROVE TypeOK'
    BY <1>2, FinishTyped, TypeOfParts DEF Crash, stores, stripe, TypeOK
<1>3. ASSUME NEW b \in Bookings, NEW i \in Intents,
             AuthorizeCard(b, i) \/ DeclineCard(b, i) \/ CaptureHold(b, i)
      PROVE  TypeOK'
    <2>1. StripeTyped'
        BY <1>3, SetIntentTyped DEF AuthorizeCard, DeclineCard, CaptureHold, IntentStates, EventKinds
    <2> QED
        BY <1>3, <2>1, TypeOfParts
           DEF AuthorizeCard, DeclineCard, CaptureHold, RequestsTyped, LocksTyped, stores, TypeOK
<1>4. CASE Relist
    BY <1>4 DEF Relist, stripe, TypeOK, VehicleStates
<1>5. CASE UNCHANGED vars
    BY <1>5 DEF vars, stores, stripe, TypeOK
<1> QED
    BY <1>1, <1>2, <1>3, <1>4, <1>5, ArriveTyped DEF Next, Environment

\* Every variable keeps its type, and a request that is about to use a
\* PaymentIntent has one.
THEOREM TypeCorrect == Spec => []TypeOK
<1>1. Init => TypeOK
    BY RentalAssumption
       DEF Init, TypeOK, BookingStates, TripStates, VehicleStates, PaymentStates, IntentStates
<1> QED
    BY <1>1, TypeStep, PTL DEF Spec

-----------------------------------------------------------------------------
(* Trips.  A booking's state is written from what a request was told to      *)
(* write, so the invariant speaks of that too; trip records only appear and  *)
(* only go forward.                                                          *)

Writing == {"create", "update", "update_write"}

Backed(b, state) ==
    /\ state = "in_trip" => trips[b] # "none"
    /\ state = "completed" => trips[b] \in {"completed", "exception"}

TripInv ==
    /\ TypeOK
    /\ \A b \in Bookings : Backed(b, bookings[b].state)
    /\ \A r \in Requests :
          request[r].pc \in Writing => Backed(request[r].b, request[r].target)

\* Steps after which no other request is about to write.
LEMMA QuietStep ==
    ASSUME TripInv, TypeOK', UNCHANGED <<bookings, trips>>,
           \A q \in Requests : request'[q] = request[q] \/ request'[q].pc \notin Writing
    PROVE  TripInv'
BY DEF TripInv, Backed

LEMMA QuietFinish ==
    ASSUME TypeOK, NEW r \in Requests, Finish(r)
    PROVE  \A q \in Requests : request'[q] = request[q] \/ request'[q].pc \notin Writing
BY DEF TypeOK, Finish, Idle, Writing

LEMMA QuietGoto ==
    ASSUME TypeOK, NEW r \in Requests, request[r] \in Busy, NEW pc, pc \notin Writing,
           Goto(r, pc)
    PROVE  \A q \in Requests : request'[q] = request[q] \/ request'[q].pc \notin Writing
BY DEF TypeOK, Goto, Busy

LEMMA QuietStart ==
    ASSUME TypeOK, NEW r \in Requests, NEW op, NEW b, NEW pc, NEW target, NEW i,
           pc \notin Writing, Start(r, op, b, pc, target, i)
    PROVE  \A q \in Requests : request'[q] = request[q] \/ request'[q].pc \notin Writing
BY DEF TypeOK, Start, Activation

\* A request that sets out to write a state which its booking backs.
LEMMA BackedStart ==
    ASSUME TripInv, TypeOK', NEW r \in Requests, NEW op, NEW b \in Bookings, NEW pc,
           NEW target, Backed(b, target), Start(r, op, b, pc, target, 0),
           UNCHANGED <<bookings, trips>>
    PROVE  TripInv'
BY DEF TripInv, TypeOK, Start, Activation, Backed

LEMMA TripArrive ==
    ASSUME TripInv, TypeOK', NEW r \in Requests, Arrive(r)
    PROVE  TripInv'
<1>a. TypeOK
    BY DEF TripInv
<1>1. ASSUME NEW b \in Bookings, NEW eligible \in Eligibility, Checkout(r, b, eligible)
      PROVE  TripInv'
    BY <1>1 DEF Checkout, Activation, TripInv, TypeOK, Backed, stores
<1>2. ASSUME NEW b \in Bookings, Confirm(r, b)
      PROVE  TripInv'
    <2>1. CASE Start(r, "confirm", b, "update", "pending_payment_authorization", 0)
        BY <1>2, <2>1, BackedStart DEF Confirm, Backed, stores
    <2>2. CASE Start(r, "confirm", b, "vehicle", "none", 0)
        BY <1>2, <2>2, BackedStart DEF Confirm, Backed, stores
    <2> QED
        BY <1>2, <2>1, <2>2 DEF Confirm
<1>3. ASSUME NEW b \in Bookings, Approve(r, b) \/ PaymentIntents(r, b) \/ Cancel(r, b)
      PROVE  TripInv'
    BY <1>a, <1>3, QuietStart, QuietStep
       DEF Approve, PaymentIntents, Cancel, StartLocked, Writing, stores
<1>4. ASSUME NEW b \in Bookings, CheckIn(r, b) \/ CheckOut(r, b)
      PROVE  TripInv'
    BY <1>a, <1>4, QuietStart, QuietStep DEF CheckIn, CheckOut, Writing, stores
<1>5. ASSUME NEW b \in Bookings, Incident(r, b) \/ Claim(r, b)
      PROVE  TripInv'
    <2>1. Backed(b, bookings[b].state) /\ Backed(b, ClaimBookingState(bookings[b].state))
        BY DEF TripInv, ClaimBookingState, Backed
    <2> QED
        BY <1>5, <2>1, BackedStart DEF Incident, Claim, stores
<1>6. ASSUME NEW e \in events, Webhook(r, e)
      PROVE  TripInv'
    <2>1. \A q \in Requests : request'[q] = request[q] \/ request'[q].pc \notin Writing
        BY <1>a, <1>6 DEF Webhook, Activation, TypeOK, Writing
    <2> QED
        BY <1>6, <2>1, QuietStep DEF Webhook
<1>7. ASSUME NEW b \in Bookings, NEW i \in Intents, Reconcile(r, b, i)
      PROVE  TripInv'
    BY <1>a, <1>7, QuietStart, QuietStep DEF Reconcile, StartUnlocked, Writing, stores
<1> QED
    BY <1>1, <1>2, <1>3, <1>4, <1>5, <1>6, <1>7 DEF Arrive

LEMMA TripBookingStore ==
    ASSUME TripInv, TypeOK', NEW r \in Requests,
           CreateBooking(r) \/ UpdateBookingState(r) \/ ConfirmBooking(r)
    PROVE  TripInv'
<1>a. TypeOK
    BY DEF TripInv
<1>b. request[r] \in Busy
    BY <1>a, BusyAt DEF CreateBooking, UpdateBookingState, ConfirmBooking, ProgramCounters
<1>c. request[r].b \in Bookings
    BY <1>a, <1>b, BusyFields
\* Once the booking has a state it backs, and r writes no more, all is well.
<1>d. ASSUME NEW booking, Backed(request[r].b, booking.state),
             bookings' = bookings \/ bookings' = [bookings EXCEPT ![request[r].b] = booking],
             UNCHANGED trips,
             \A q \in Requests : request'[q] = request[q] \/ request'[q].pc \notin Writing
      PROVE  TripInv'
    BY <1>a, <1>c, <1>d DEF TripInv, TypeOK, Backed
<1>1. CASE CreateBooking(r)
    <2>1. bookings' = bookings
             \/ bookings' = [bookings EXCEPT ![request[r].b] =
                   [bookings[request[r].b] EXCEPT !.state = request[r].target]]
        BY <1>1, <1>c, <1>a DEF CreateBooking, TypeOK
    <2>2. [bookings[request[r].b] EXCEPT !.state = request[r].target].state = request[r].target
        BY <1>a, <1>c DEF TypeOK
    <2>3. Backed(request[r].b, request[r].target)
        BY <1>1 DEF CreateBooking, At, Writing, TripInv
    <2> QED
        BY <1>a, <1>1, <1>d, <2>1, <2>2, <2>3, QuietFinish DEF CreateBooking
<1>2. CASE UpdateBookingState(r)
    <2>1. Backed(request[r].b, request[r].target)
        BY <1>2 DEF UpdateBookingState, At, Writing, TripInv
    <2>2. CASE /\ request' = [request EXCEPT ![r].pc = "update_write",
                                             ![r].ref = bookings[request[r].b].ref]
               /\ UNCHANGED stores
        BY <1>a, <1>b, <2>1, <2>2 DEF TripInv, TypeOK, Busy, Backed, stores
    <2>3. CASE /\ AfterUpdate(r) /\ UNCHANGED trips
               /\ bookings' = [bookings EXCEPT ![request[r].b] =
                     [state |-> request[r].target,
                      ref   |-> IF AtomicStore THEN @.ref ELSE request[r].ref]]
        <3>1. \A q \in Requests : request'[q] = request[q] \/ request'[q].pc \notin Writing
            BY <1>a, <1>b, <2>3, QuietFinish, QuietGoto DEF AfterUpdate, Proceed, Writing
        <3>2. PICK booking : booking.state = request[r].target
                 /\ bookings' = [bookings EXCEPT ![request[r].b] = booking]
            BY <1>a, <1>c, <2>3 DEF TypeOK
        <3> QED
            BY <1>d, <2>1, <2>3, <3>1, <3>2
    <2> QED
        BY <1>2, <2>2, <2>3 DEF UpdateBookingState
<1>3. CASE ConfirmBooking(r)
    <2>1. ASSUME NEW current, WriteConfirmed(r, current)
          PROVE  TripInv'
        <3>1. Backed(request[r].b, ConfirmedBooking(r, current).state)
            BY DEF ConfirmedBooking, Backed
        <3> QED
            BY <1>a, <1>d, <2>1, <3>1, QuietFinish DEF WriteConfirmed
    <2>2. CASE Finish(r) /\ UNCHANGED stores
        BY <1>a, <2>2, QuietFinish, QuietStep DEF stores
    <2>3. CASE /\ request' = [request EXCEPT ![r].pc = "confirm_write",
                                 ![r].state = bookings[request[r].b].state,
                                 ![r].ref = bookings[request[r].b].ref]
               /\ UNCHANGED stores
        <3>1. \A q \in Requests : request'[q] = request[q] \/ request'[q].pc \notin Writing
            BY <1>a, <1>b, <2>3 DEF TypeOK, Busy, Writing
        <3> QED
            BY <2>3, <3>1, QuietStep DEF stores
    <2> QED
        BY <1>3, <2>1, <2>2, <2>3 DEF ConfirmBooking
<1> QED
    BY <1>1, <1>2, <1>3

\* The other steps of a request.
LEMMA TripOthers ==
    ASSUME TripInv, TypeOK', NEW r \in Requests, Continue(r),
           ~CreateBooking(r), ~UpdateBookingState(r), ~ConfirmBooking(r)
    PROVE  TripInv'
<1>a. TypeOK
    BY DEF TripInv
<1>b. request[r] \in Busy
    BY <1>a, BusyAt
       DEF Continue, ReadVehicle, Advance, WriteVehicle, RetrieveIntent, RecordSnapshot,
           CheckIntentVehicle, ListIntents, ReuseIntent, RecordReused, CreateIntent,
           OutOfIntents, RecordCreated, ListCancellable, CancelIntent, RecordCancelled,
           FinishCancel, TripCheckIn, TripCheckOut, ProgramCounters
<1>c. request[r].b \in Bookings
    BY <1>a, <1>b, BusyFields
<1> DEFINE Quiet == \A q \in Requests : request'[q] = request[q] \/ request'[q].pc \notin Writing
<1>1. CASE ReadVehicle(r)
    <2>1. ASSUME NEW review, request' = [request EXCEPT ![r].pc = "confirm", ![r].review = review]
          PROVE  Quiet
        BY <1>a, <1>b, <2>1 DEF TypeOK, Busy, Writing
    <2> QED
        BY <1>a, <1>1, <2>1, QuietFinish, QuietStep DEF ReadVehicle, stores
<1>2. CASE Advance(r) \/ CheckIntentVehicle(r) \/ OutOfIntents(r)
    BY <1>a, <1>b, <1>2, QuietFinish, QuietGoto, QuietStep
       DEF Advance, CheckIntentVehicle, OutOfIntents, Proceed, Writing, stores
<1>3. CASE WriteVehicle(r) \/ RecordCreated(r)
    BY <1>a, <1>3, QuietFinish, QuietStep DEF WriteVehicle, RecordCreated
<1>4. CASE RetrieveIntent(r)
    BY <1>a, <1>b, <1>4, QuietStep DEF RetrieveIntent, TypeOK, Busy, Writing, stores
<1>5. CASE RecordSnapshot(r) \/ RecordReused(r)
    BY <1>a, <1>b, <1>5, QuietFinish, QuietGoto, QuietStep
       DEF RecordSnapshot, RecordReused, Proceed, Writing
<1>6. CASE ListIntents(r)
    <2>1. Quiet
        <3>1. ASSUME NEW last, NEW todo, NEW empty \in BOOLEAN,
                     request' = [request EXCEPT ![r].ref = last, ![r].todo = todo,
                                    ![r].pc = IF empty THEN "new_intent" ELSE "intent"]
              PROVE  Quiet
            BY <1>a, <1>b, <3>1 DEF TypeOK, Busy, Writing
        <3> QED
            BY <1>6, <3>1 DEF ListIntents
    <2> QED
        BY <1>6, <2>1, QuietStep DEF ListIntents, stores
<1>7. CASE ReuseIntent(r)
    <2>1. Quiet
        <3>1. ASSUME NEW todo, TryNext(r, todo) PROVE Quiet
            BY <1>a, <1>b, <3>1 DEF TryNext, TypeOK, Busy, Writing
        <3>2. ASSUME NEW i, NEW snapshot, NEW authorized \in BOOLEAN,
                     request' = [request EXCEPT ![r].i = i, ![r].snapshot = snapshot, ![r].todo = {},
                                    ![r].pc = IF authorized THEN "advance" ELSE "intent_record"]
              PROVE  Quiet
            BY <1>a, <1>b, <3>2 DEF TypeOK, Busy, Writing
        <3> QED
            BY <1>a, <1>7, <3>1, <3>2, QuietFinish DEF ReuseIntent
    <2> QED
        BY <1>7, <2>1, QuietStep DEF ReuseIntent, stores
<1>8. CASE CreateIntent(r)
    BY <1>a, <1>b, <1>8, QuietStep DEF CreateIntent, TypeOK, Busy, Writing, stores
<1>9. CASE ListCancellable(r)
    BY <1>a, <1>b, <1>9, QuietStep DEF ListCancellable, TypeOK, Busy, Writing, stores
<1>10. CASE CancelIntent(r)
    <2>1. Quiet
        BY <1>a, <1>b, <1>10, QuietFinish DEF CancelIntent, TypeOK, Busy, Writing
    <2> QED
        BY <1>10, <2>1, QuietStep DEF CancelIntent, stores
<1>11. CASE RecordCancelled(r)
    BY <1>a, <1>b, <1>11, QuietStep DEF RecordCancelled, TypeOK, Busy, Writing
<1>12. CASE FinishCancel(r)
    <2>1. CASE SetState(r, "cancelled")
        BY <1>a, <1>b, <1>12, <2>1 DEF FinishCancel, SetState, TripInv, TypeOK, Busy, Backed, stores
    <2> QED
        BY <1>a, <1>12, <2>1, QuietFinish, QuietStep DEF FinishCancel, stores
\* A report is filed: no state loses its report, and the one that the request
\* is going to write has it.
<1>13. ASSUME NEW status, NEW state \in BookingStates, SetState(r, state),
              trips' = [trips EXCEPT ![request[r].b] = status], UNCHANGED bookings,
              status # "none", state = "completed" => status \in {"completed", "exception"},
              trips[request[r].b] \in {"completed", "exception"} => status \in {"completed", "exception"}
       PROVE  TripInv'
    <2>1. /\ request'[r].b = request[r].b /\ request'[r].target = state
          /\ \A q \in Requests \ {r} : request'[q] = request[q]
        BY <1>a, <1>b, <1>13 DEF SetState, TypeOK, Busy
    <2>2. \A b \in Bookings, s \in BookingStates : Backed(b, s) => Backed(b, s)'
        BY <1>a, <1>c, <1>13 DEF Backed, TypeOK
    <2>3. \A q \in Requests : request[q].pc \in Writing =>
             request[q].b \in Bookings /\ request[q].target \in BookingStates
        BY <1>a DEF TypeOK, Busy, Idle, Writing
    <2>4. Backed(request[r].b, state)'
        BY <1>a, <1>c, <1>13, <2>1 DEF Backed, TypeOK
    <2>5. ASSUME NEW b \in Bookings PROVE Backed(b, bookings[b].state)'
        <3>1. bookings[b].state \in BookingStates /\ Backed(b, bookings[b].state)
            BY DEF TripInv, TypeOK
        <3> QED
            BY <1>13, <2>2, <3>1 DEF Backed
    <2>6. ASSUME NEW q \in Requests, (request[q].pc \in Writing)'
          PROVE  Backed(request[q].b, request[q].target)'
        <3>1. CASE q = r
            BY <2>1, <2>4, <3>1 DEF Backed
        <3>2. CASE q # r
            <4>1. request'[q] = request[q] /\ request[q].pc \in Writing
                BY <2>1, <2>6, <3>2 DEF Writing
            <4>2. Backed(request[q].b, request[q].target)'
                BY <2>2, <2>3, <4>1 DEF TripInv, Backed
            <4> QED
                BY <4>1, <4>2
        <3> QED
            BY <3>1, <3>2
    <2> QED
        BY <2>5, <2>6 DEF TripInv
<1>14. CASE TripCheckIn(r)
    <2>1. CASE Finish(r) /\ UNCHANGED trips
        BY <1>a, <1>14, <2>1, QuietFinish, QuietStep DEF TripCheckIn
    <2>2. CASE /\ trips[request[r].b] = "none"
               /\ trips' = [trips EXCEPT ![request[r].b] = "in_trip"] /\ SetState(r, "in_trip")
        BY <1>13, <1>14, <2>2 DEF TripCheckIn, BookingStates, ACTIVE_BOOKING_STATES
    <2> QED
        BY <1>14, <2>1, <2>2 DEF TripCheckIn
<1>15. CASE TripCheckOut(r)
    <2>1. CASE Finish(r) /\ UNCHANGED trips
        BY <1>a, <1>15, <2>1, QuietFinish, QuietStep DEF TripCheckOut
    <2>2. ASSUME NEW exception \in BOOLEAN,
                 trips' = [trips EXCEPT ![request[r].b] = IF exception THEN "exception" ELSE "completed"],
                 SetState(r, IF exception THEN "disputed" ELSE "completed")
          PROVE  TripInv'
        <3>1. /\ (IF exception THEN "disputed" ELSE "completed") \in BookingStates
              /\ (IF exception THEN "exception" ELSE "completed") \in {"completed", "exception"}
            BY DEF BookingStates
        <3> QED
            BY <1>13, <1>15, <2>2, <3>1 DEF TripCheckOut
    <2> QED
        BY <1>15, <2>1, <2>2 DEF TripCheckOut
<1> QED
    BY <1>1, <1>2, <1>3, <1>4, <1>5, <1>6, <1>7, <1>8, <1>9, <1>10, <1>11, <1>12, <1>14, <1>15
       DEF Continue

LEMMA TripStep == TripInv /\ [Next]_vars => TripInv'
<1> SUFFICES ASSUME TripInv, [Next]_vars PROVE TripInv'
    OBVIOUS
<1>a. TypeOK /\ TypeOK'
    BY TypeStep DEF TripInv
<1>1. ASSUME NEW r \in Requests, Continue(r) PROVE TripInv'
    BY <1>a, <1>1, TripBookingStore, TripOthers
<1>2. ASSUME NEW r \in Requests, Crash(r) PROVE TripInv'
    BY <1>a, <1>2, QuietFinish, QuietStep DEF Crash, stores
<1>3. CASE Environment
    BY <1>a, <1>3, QuietStep DEF Environment, AuthorizeCard, DeclineCard, CaptureHold, Relist, stores
<1>4. CASE UNCHANGED vars
    BY <1>a, <1>4, QuietStep DEF vars, stores
<1> QED
    BY <1>a, <1>1, <1>2, <1>3, <1>4, TripArrive DEF Next

\* However the handlers interleave, on either store and wherever they die, a
\* booking in trip has its check-in report and a completed one its check-out
\* report: check-in/route.ts and check-out/route.ts file the report first.
THEOREM TripsBackBookings == Spec => []TripBacksBooking
<1>1. Init => TripInv
    <2> SUFFICES ASSUME Init PROVE TripInv
        OBVIOUS
    <2>1. TypeOK
        BY RentalAssumption
           DEF Init, TypeOK, BookingStates, TripStates, VehicleStates, PaymentStates, IntentStates
    <2> QED
        BY <2>1 DEF Init, TripInv, Backed, Idle, Writing
<1>2. TripInv => TripBacksBooking
    BY DEF TripInv, Backed, TripBacksBooking
<1> QED
    BY <1>1, <1>2, TripStep, PTL DEF Spec

-----------------------------------------------------------------------------
(* One live intent.  The key that names the payment to replace numbers the   *)
(* intents of a booking: the next one is only made when the one before it is *)
(* cancelled, at Stripe and not only in the records.                         *)

Known(b, i) == intents[b][i] # "none"
Gone(b, i)  == intents[b][i] = "canceled"

Replaced == \A b \in Bookings, i, j \in Intents : j < i /\ Known(b, i) => Gone(b, j)

RecordsSound ==
    \A b \in Bookings, i \in Intents :
        /\ payments[b][i] # "none" => Known(b, i)
        /\ payments[b][i] = "cancelled" => Gone(b, i)

EventsSound ==
    \A e \in events : Known(e[1], e[2]) /\ (e[3] = "payment_cancelled" => Gone(e[1], e[2]))

Choosing == {"intent", "new_intent"}

RequestSound(r) ==
    /\ request[r].pc \in OnIntent => Known(request[r].b, request[r].i)
    /\ request[r].pc \in {"record", "intent_record"} /\ request[r].snapshot = "canceled" =>
          Gone(request[r].b, request[r].i)
    /\ request[r].pc = "cancel_record" => Gone(request[r].b, request[r].i)
    /\ request[r].pc \in Choosing /\ request[r].ref # 0 =>
          /\ Known(request[r].b, request[r].ref)
          /\ request[r].ref \in request[r].todo \/ Gone(request[r].b, request[r].ref)
    /\ request[r].pc = "new_intent" => request[r].todo = {}

IntentInv ==
    /\ TypeOK /\ Replaced /\ RecordsSound /\ EventsSound
    /\ \A r \in Requests : RequestSound(r)

\* What Stripe never takes back.
Forward ==
    \A b \in Bookings, i \in Intents :
        (Known(b, i) => Known(b, i)') /\ (Gone(b, i) => Gone(b, i)')

LEMMA SoundStays ==
    ASSUME TypeOK, Forward, NEW r \in Requests, RequestSound(r), request'[r] = request[r]
    PROVE  RequestSound(r)'
<1>1. CASE request[r] = Idle
    BY <1>1 DEF RequestSound, Idle, OnIntent, Choosing
<1>2. CASE request[r] \in Busy
    <2>1. /\ request[r].b \in Bookings /\ request[r].ref \in Intents \cup {0}
          /\ request[r].pc \in OnIntent => request[r].i \in Intents
        BY <1>2, BusyFields
    <2>2. request[r].pc \in OnIntent =>
             /\ Known(request[r].b, request[r].i) => Known(request[r].b, request[r].i)'
             /\ Gone(request[r].b, request[r].i) => Gone(request[r].b, request[r].i)'
        BY <2>1 DEF Forward, Known, Gone
    <2>3. request[r].ref # 0 =>
             /\ Known(request[r].b, request[r].ref) => Known(request[r].b, request[r].ref)'
             /\ Gone(request[r].b, request[r].ref) => Gone(request[r].b, request[r].ref)'
        BY <2>1 DEF Forward, Known, Gone
    <2> QED
        BY <2>2, <2>3 DEF RequestSound, OnIntent, Known, Gone
<1> QED
    BY <1>1, <1>2 DEF TypeOK

Handling == OnIntent \cup Choosing

LEMMA CalmSound ==
    ASSUME NEW r \in Requests, request'[r].pc \notin Handling
    PROVE  RequestSound(r)'
BY DEF RequestSound, Handling, OnIntent, Choosing

Calm == \A q \in Requests : request'[q] = request[q] \/ request'[q].pc \notin Handling

LEMMA CalmFinish ==
    ASSUME TypeOK, NEW r \in Requests, Finish(r) PROVE Calm
BY DEF TypeOK, Finish, Idle, Handling, OnIntent, Choosing, Calm

LEMMA CalmGoto ==
    ASSUME TypeOK, NEW r \in Requests, request[r] \in Busy, NEW pc, pc \notin Handling, Goto(r, pc)
    PROVE  Calm
BY DEF TypeOK, Goto, Busy, Calm

LEMMA CalmSetState ==
    ASSUME TypeOK, NEW r \in Requests, request[r] \in Busy, NEW state, SetState(r, state)
    PROVE  Calm
BY DEF TypeOK, SetState, Busy, Calm, Handling, OnIntent, Choosing

LEMMA CalmStart ==
    ASSUME TypeOK, NEW r \in Requests, NEW op, NEW b, NEW pc, NEW target, NEW i,
           pc \notin Handling, Start(r, op, b, pc, target, i)
    PROVE  Calm
BY DEF TypeOK, Start, Activation, Calm

\* Steps of a request r that leave Stripe and the payment records alone.
LEMMA IntentQuiet ==
    ASSUME IntentInv, TypeOK', UNCHANGED <<intents, events, payments>>,
           \A q \in Requests : request'[q] = request[q] \/ RequestSound(q)'
    PROVE  IntentInv'
<1>1. Forward
    BY DEF Forward, Known, Gone
<1>2. \A q \in Requests : RequestSound(q)'
    BY <1>1, SoundStays DEF IntentInv
<1> QED
    BY <1>2 DEF IntentInv, Replaced, RecordsSound, EventsSound, Known, Gone

LEMMA IntentCalm ==
    ASSUME IntentInv, TypeOK', UNCHANGED <<intents, events, payments>>, Calm
    PROVE  IntentInv'
BY CalmSound, IntentQuiet DEF Calm

\* A record that is written says no more than what has happened at Stripe.
LEMMA IntentRecord ==
    ASSUME IntentInv, TypeOK', UNCHANGED <<intents, events>>, Calm,
           NEW b \in Bookings, NEW i \in Intents, NEW status, Record(b, i, status),
           Known(b, i), status = "cancelled" => Gone(b, i)
    PROVE  IntentInv'
<1>1. Forward
    BY DEF Forward, Known, Gone
<1>2. \A q \in Requests : RequestSound(q)'
    BY <1>1, SoundStays, CalmSound DEF IntentInv, Calm
<1>3. \A c \in Bookings, j \in Intents :
         payments'[c][j] = payments[c][j] \/ (c = b /\ j = i /\ payments'[c][j] = status)
    BY DEF IntentInv, TypeOK, Record, MonotonicPaymentStatus
<1>4. RecordsSound'
    BY <1>3 DEF IntentInv, RecordsSound, Known, Gone
<1> QED
    BY <1>2, <1>4 DEF IntentInv, Replaced, EventsSound, Known, Gone

\* An open intent changes, or is cancelled.
LEMMA IntentChange ==
    ASSUME IntentInv, TypeOK', UNCHANGED payments,
           NEW b \in Bookings, NEW i \in Intents, NEW status, NEW kind,
           SetIntent(b, i, status, kind), status # "none",
           kind = "payment_cancelled" => status = "canceled",
           Known(b, i), ~Gone(b, i),
           \A q \in Requests : request'[q] = request[q] \/ RequestSound(q)'
    PROVE  IntentInv'
<1>1. \A c \in Bookings, j \in Intents :
         intents'[c][j] = IF c = b /\ j = i THEN status ELSE intents[c][j]
    BY DEF IntentInv, TypeOK, SetIntent
<1>2. Forward
    BY <1>1 DEF Forward, Known, Gone
<1>3. \A q \in Requests : RequestSound(q)'
    BY <1>2, SoundStays DEF IntentInv
<1>4. Replaced'
    BY <1>1 DEF IntentInv, Replaced, Known, Gone
<1>5. RecordsSound'
    BY <1>1 DEF IntentInv, RecordsSound, Known, Gone
<1>6. EventsSound'
    <2> SUFFICES ASSUME NEW e \in events'
                 PROVE  (Known(e[1], e[2]) /\ (e[3] = "payment_cancelled" => Gone(e[1], e[2])))'
        BY DEF EventsSound
    <2>1. CASE e = <<b, i, kind>>
        BY <1>1, <2>1 DEF Known, Gone
    <2>2. CASE e \in events
        <3>1. e[1] \in Bookings /\ e[2] \in Intents
            BY <2>2 DEF IntentInv, TypeOK
        <3> QED
            BY <1>2, <2>2, <3>1 DEF IntentInv, EventsSound, Forward, Known, Gone
    <2> QED
        BY <2>1, <2>2 DEF SetIntent
<1> QED
    BY <1>3, <1>4, <1>5, <1>6 DEF IntentInv

LEMMA IntentArrive ==
    ASSUME IntentInv, TypeOK', NEW r \in Requests, Arrive(r)
    PROVE  IntentInv'
<1>a. TypeOK
    BY DEF IntentInv
<1> USE DEF Handling, OnIntent, Choosing
<1>1. ASSUME NEW b \in Bookings, NEW eligible \in Eligibility, Checkout(r, b, eligible)
      PROVE  IntentInv'
    <2>1. Calm
        BY <1>a, <1>1 DEF Checkout, Activation, TypeOK, Calm
    <2> QED
        BY <1>1, <2>1, IntentCalm DEF Checkout, stores, stripe
<1>2. ASSUME NEW b \in Bookings, Confirm(r, b)
      PROVE  IntentInv'
    <2>1. Calm
        BY <1>a, <1>2, CalmStart DEF Confirm
    <2> QED
        BY <1>2, <2>1, IntentCalm DEF Confirm, stores, stripe
<1>3. ASSUME NEW b \in Bookings, PaymentIntents(r, b) \/ Cancel(r, b)
      PROVE  IntentInv'
    <2>1. Calm
        BY <1>a, <1>3, CalmStart DEF PaymentIntents, Cancel, StartLocked
    <2> QED
        BY <1>3, <2>1, IntentCalm DEF PaymentIntents, Cancel, stores, stripe
<1>4. ASSUME NEW b \in Bookings,
             CheckIn(r, b) \/ CheckOut(r, b) \/ Incident(r, b) \/ Claim(r, b)
      PROVE  IntentInv'
    <2>1. Calm
        BY <1>a, <1>4, CalmStart DEF CheckIn, CheckOut, Incident, Claim
    <2> QED
        BY <1>4, <2>1, IntentCalm DEF CheckIn, CheckOut, Incident, Claim, stores, stripe
\* approve and reconcile look up an intent that has a record.
<1>5. ASSUME NEW op, NEW b \in Bookings, NEW i \in Intents, payments[b][i] # "none",
             Start(r, op, b, "retrieve", "none", i), UNCHANGED <<stores, stripe>>
      PROVE  IntentInv'
    <2>1. Known(b, i)
        BY <1>5 DEF IntentInv, RecordsSound
    <2>2. RequestSound(r)'
        BY <1>a, <1>5, <2>1 DEF Start, Activation, TypeOK, RequestSound, Known, stripe
    <2>3. \A q \in Requests : request'[q] = request[q] \/ RequestSound(q)'
        BY <1>a, <1>5, <2>2 DEF Start, TypeOK
    <2> QED
        BY <1>5, <2>3, IntentQuiet DEF stores, stripe
<1>6. ASSUME NEW b \in Bookings, Approve(r, b)
      PROVE  IntentInv'
    <2>1. bookings[b].ref \in Intents
        BY <1>a, <1>6 DEF Approve, TypeOK
    <2> QED
        BY <1>5, <1>6, <2>1 DEF Approve, StartLocked
<1>7. ASSUME NEW b \in Bookings, NEW i \in Intents, Reconcile(r, b, i)
      PROVE  IntentInv'
    BY <1>5, <1>7 DEF Reconcile, StartUnlocked
<1>8. ASSUME NEW e \in events, Webhook(r, e)
      PROVE  IntentInv'
    <2>1. e[1] \in Bookings /\ e[2] \in Intents /\ e[3] \in EventKinds
        BY <1>a DEF TypeOK
    <2>2. Known(e[1], e[2]) /\ (StatusOfEvent(e[3]) = "cancelled" => Gone(e[1], e[2]))
        BY <2>1 DEF IntentInv, EventsSound, StatusOfEvent, EventKinds
    <2>3. Calm
        BY <1>a, <1>8 DEF Webhook, Activation, TypeOK, Calm
    <2> QED
        BY <1>8, <2>1, <2>2, <2>3, IntentRecord DEF Webhook
<1> QED
    BY <1>1, <1>2, <1>3, <1>4, <1>6, <1>7, <1>8 DEF Arrive

\* Steps of a handler that are not about intents.
LEMMA IntentCalmSteps ==
    ASSUME IntentInv, TypeOK', NEW r \in Requests,
           \/ CreateBooking(r) \/ UpdateBookingState(r) \/ ConfirmBooking(r)
           \/ ReadVehicle(r) \/ Advance(r) \/ WriteVehicle(r) \/ CheckIntentVehicle(r)
           \/ OutOfIntents(r) \/ ListCancellable(r) \/ FinishCancel(r)
           \/ TripCheckIn(r) \/ TripCheckOut(r)
    PROVE  IntentInv'
<1>a. TypeOK
    BY DEF IntentInv
<1>b. request[r] \in Busy
    BY <1>a, BusyAt
       DEF CreateBooking, UpdateBookingState, ConfirmBooking, ReadVehicle, Advance, WriteVehicle,
           CheckIntentVehicle, OutOfIntents, ListCancellable, FinishCancel, TripCheckIn,
           TripCheckOut, ProgramCounters
<1>c. UNCHANGED <<intents, events, payments>>
    BY DEF CreateBooking, UpdateBookingState, ConfirmBooking, WriteConfirmed, ReadVehicle, Advance,
           WriteVehicle, CheckIntentVehicle, OutOfIntents, ListCancellable, FinishCancel,
           TripCheckIn, TripCheckOut, stores, stripe
<1> USE <1>a, <1>b, CalmFinish DEF Handling, OnIntent, Choosing
<1>1. CASE CreateBooking(r) \/ WriteVehicle(r) \/ OutOfIntents(r)
    BY <1>1, <1>c, IntentCalm DEF CreateBooking, WriteVehicle, OutOfIntents
<1>2. CASE UpdateBookingState(r)
    <2>1. ASSUME NEW ref, request' = [request EXCEPT ![r].pc = "update_write", ![r].ref = ref]
          PROVE  Calm
        BY <2>1 DEF TypeOK, Busy, Calm
    <2>2. CASE AfterUpdate(r)
        BY <1>c, <2>2, CalmGoto, IntentCalm DEF AfterUpdate, Proceed
    <2> QED
        BY <1>2, <1>c, <2>1, <2>2, IntentCalm DEF UpdateBookingState
<1>3. CASE ConfirmBooking(r)
    <2>1. ASSUME NEW state, NEW ref,
                 request' = [request EXCEPT ![r].pc = "confirm_write", ![r].state = state, ![r].ref = ref]
          PROVE  Calm
        BY <2>1 DEF TypeOK, Busy, Calm
    <2> QED
        BY <1>3, <1>c, <2>1, IntentCalm DEF ConfirmBooking, WriteConfirmed
<1>4. CASE ReadVehicle(r)
    <2>1. ASSUME NEW review, request' = [request EXCEPT ![r].pc = "confirm", ![r].review = review]
          PROVE  Calm
        BY <2>1 DEF TypeOK, Busy, Calm
    <2> QED
        BY <1>4, <1>c, <2>1, IntentCalm DEF ReadVehicle
<1>5. CASE Advance(r)
    BY <1>5, <1>c, CalmGoto, IntentCalm DEF Advance, Proceed
<1>6. CASE CheckIntentVehicle(r)
    BY <1>6, <1>c, CalmGoto, IntentCalm DEF CheckIntentVehicle, Proceed
<1>7. CASE ListCancellable(r)
    <2>1. ASSUME NEW todo, request' = [request EXCEPT ![r].pc = "cancel", ![r].todo = todo]
          PROVE  Calm
        BY <2>1 DEF TypeOK, Busy, Calm
    <2> QED
        BY <1>7, <1>c, <2>1, IntentCalm DEF ListCancellable
<1>8. CASE FinishCancel(r)
    BY <1>8, <1>c, CalmSetState, IntentCalm DEF FinishCancel
<1>9. CASE TripCheckIn(r)
    BY <1>9, <1>c, CalmSetState, IntentCalm DEF TripCheckIn
<1>10. CASE TripCheckOut(r)
    BY <1>10, <1>c, CalmSetState, IntentCalm DEF TripCheckOut
<1> QED
    BY <1>1, <1>2, <1>3, <1>4, <1>5, <1>6, <1>7, <1>8, <1>9, <1>10

\* Steps of a handler that look intents up, record them or choose one.
LEMMA IntentHandling ==
    ASSUME IntentInv, TypeOK', NEW r \in Requests,
           \/ RetrieveIntent(r) \/ RecordSnapshot(r) \/ RecordReused(r) \/ RecordCreated(r)
           \/ RecordCancelled(r) \/ ListIntents(r) \/ ReuseIntent(r)
    PROVE  IntentInv'
<1>a. TypeOK
    BY DEF IntentInv
<1>b. request[r] \in Busy
    BY <1>a, BusyAt
       DEF RetrieveIntent, RecordSnapshot, RecordReused, RecordCreated, RecordCancelled,
           ListIntents, ReuseIntent, ProgramCounters
<1>c. /\ request[r].b \in Bookings /\ request[r].todo \subseteq Intents
      /\ request[r].snapshot \in IntentStates
      /\ request[r].pc \in OnIntent => request[r].i \in Intents
    BY <1>a, <1>b, BusyFields
<1>d. RequestSound(r)
    BY DEF IntentInv
<1>1. CASE RetrieveIntent(r)
    <2>1. Known(request[r].b, request[r].i)
        BY <1>1, <1>d DEF RetrieveIntent, At, RequestSound, OnIntent
    <2>2. RequestSound(r)'
        BY <1>a, <1>b, <1>1, <2>1
           DEF RetrieveIntent, TypeOK, Busy, RequestSound, Known, Gone, Choosing, stripe
    <2>3. \A q \in Requests : request'[q] = request[q] \/ RequestSound(q)'
        BY <1>a, <1>1, <2>2 DEF RetrieveIntent, TypeOK
    <2> QED
        BY <1>1, <2>3, IntentQuiet DEF RetrieveIntent, stores, stripe
<1>2. CASE RecordSnapshot(r)
    <2>1. /\ request[r].i \in Intents /\ Known(request[r].b, request[r].i)
          /\ request[r].snapshot = "canceled" => Gone(request[r].b, request[r].i)
        BY <1>2, <1>c, <1>d DEF RecordSnapshot, At, RequestSound, OnIntent
    <2>2. StatusOfSnapshot(request[r].snapshot) = "cancelled" => request[r].snapshot = "canceled"
        BY <1>c DEF StatusOfSnapshot, IntentStates
    <2>3. Calm
        BY <1>a, <1>b, <1>2, CalmFinish, CalmGoto
           DEF RecordSnapshot, Proceed, Handling, OnIntent, Choosing
    <2> QED
        BY <1>2, <1>c, <2>1, <2>2, <2>3, IntentRecord DEF RecordSnapshot, stripe
<1>3. CASE RecordReused(r)
    <2>1. /\ request[r].i \in Intents /\ Known(request[r].b, request[r].i)
          /\ request[r].snapshot = "canceled" => Gone(request[r].b, request[r].i)
        BY <1>3, <1>c, <1>d DEF RecordReused, At, RequestSound, OnIntent
    <2>2. StatusOfSnapshot(request[r].snapshot) = "cancelled" => request[r].snapshot = "canceled"
        BY <1>c DEF StatusOfSnapshot, IntentStates
    <2>3. Calm
        BY <1>a, <1>b, <1>3, CalmGoto DEF RecordReused, Proceed, Handling, OnIntent, Choosing
    <2> QED
        BY <1>3, <1>c, <2>1, <2>2, <2>3, IntentRecord DEF RecordReused, stripe
<1>4. CASE RecordCreated(r)
    <2>1. request[r].i \in Intents /\ Known(request[r].b, request[r].i)
        BY <1>4, <1>c, <1>d DEF RecordCreated, At, RequestSound, OnIntent
    <2> QED
        BY <1>a, <1>4, <1>c, <2>1, CalmFinish, IntentRecord DEF RecordCreated, stripe
<1>5. CASE RecordCancelled(r)
    <2>1. /\ request[r].i \in Intents /\ Known(request[r].b, request[r].i)
          /\ Gone(request[r].b, request[r].i)
        BY <1>5, <1>c, <1>d DEF RecordCancelled, At, RequestSound, OnIntent
    <2>2. Calm
        BY <1>a, <1>b, <1>5 DEF RecordCancelled, TypeOK, Busy, Calm, Handling, OnIntent, Choosing
    <2> QED
        BY <1>5, <1>c, <2>1, <2>2, IntentRecord DEF RecordCancelled, stripe
\* The payment that a replacement will name is known, and was tried first.
<1>6. CASE ListIntents(r)
    <2> DEFINE b == request[r].b
    <2>1. PICK last \in IF Existing(b) = {} THEN {0} ELSE Existing(b) :
             request' = [request EXCEPT ![r].ref = last, ![r].todo = Reusable(b),
                            ![r].pc = IF Reusable(b) = {} THEN "new_intent" ELSE "intent"]
        BY <1>6 DEF ListIntents
    <2>2. last # 0 => last \in Intents /\ Known(b, last) /\ (last \in Reusable(b) \/ Gone(b, last))
        BY <1>c, <2>1 DEF Existing, Reusable, IntentInv, RecordsSound
    <2>3. /\ request'[r].b = b /\ request'[r].ref = last /\ request'[r].todo = Reusable(b)
          /\ request'[r].pc = IF Reusable(b) = {} THEN "new_intent" ELSE "intent"
          /\ \A q \in Requests \ {r} : request'[q] = request[q]
        BY <1>a, <1>b, <2>1 DEF TypeOK, Busy
    <2>4. RequestSound(r)'
        <3>1. UNCHANGED intents
            BY <1>6 DEF ListIntents, stripe
        <3> HIDE DEF b
        <3> QED
            BY <2>2, <2>3, <3>1 DEF RequestSound, OnIntent, Choosing, Known, Gone
    <2> QED
        BY <1>6, <2>3, <2>4, IntentQuiet DEF ListIntents, stores, stripe
<1>7. CASE ReuseIntent(r)
    <2> DEFINE b == request[r].b
    <2>1. PICK i \in request[r].todo :
             IF intents[b][i] = "canceled" THEN TryNext(r, request[r].todo \ {i})
             ELSE IF intents[b][i] \in Successful
             THEN request' = [request EXCEPT ![r].i = i, ![r].snapshot = intents[b][i], ![r].todo = {},
                     ![r].pc = IF payments[b][i] \in Authorized THEN "advance" ELSE "intent_record"]
             ELSE Finish(r)
        BY <1>7 DEF ReuseIntent
    <2>2. UNCHANGED <<intents, events, payments>>
        BY <1>7 DEF ReuseIntent, stores, stripe
    <2>3. CASE intents[b][i] = "canceled" /\ TryNext(r, request[r].todo \ {i})
        <3>1. /\ request'[r].b = b /\ request'[r].ref = request[r].ref
              /\ request'[r].todo = request[r].todo \ {i}
              /\ request'[r].pc = IF request[r].todo \ {i} = {} THEN "new_intent" ELSE "intent"
              /\ \A q \in Requests \ {r} : request'[q] = request[q]
            BY <1>a, <1>b, <2>3 DEF TryNext, TypeOK, Busy
        <3>2. request[r].ref # 0 =>
                 /\ Known(b, request[r].ref)
                 /\ request[r].ref \in request[r].todo \/ Gone(b, request[r].ref)
            BY <1>7, <1>d DEF ReuseIntent, At, RequestSound, Choosing
        <3>3. RequestSound(r)'
            <4> HIDE DEF b
            <4> QED
                BY <2>2, <2>3, <3>1, <3>2 DEF RequestSound, OnIntent, Choosing, Known, Gone
        <3> QED
            BY <2>2, <3>1, <3>3, IntentQuiet
    <2>4. CASE /\ intents[b][i] \in Successful
               /\ request' = [request EXCEPT ![r].i = i, ![r].snapshot = intents[b][i], ![r].todo = {},
                     ![r].pc = IF payments[b][i] \in Authorized THEN "advance" ELSE "intent_record"]
        <3>1. /\ request'[r].b = b /\ request'[r].i = i /\ request'[r].snapshot = intents[b][i]
              /\ request'[r].pc = IF payments[b][i] \in Authorized THEN "advance" ELSE "intent_record"
              /\ \A q \in Requests \ {r} : request'[q] = request[q]
            BY <1>a, <1>b, <2>4 DEF TypeOK, Busy
        <3>2. RequestSound(r)'
            <4> HIDE DEF b
            <4> QED
                BY <2>2, <2>4, <3>1 DEF RequestSound, OnIntent, Choosing, Known, Gone, Successful
        <3> QED
            BY <2>2, <3>1, <3>2, IntentQuiet
    <2>5. CASE Finish(r)
        BY <1>a, <2>2, <2>5, CalmFinish, IntentCalm
    <2> QED
        BY <2>1, <2>3, <2>4, <2>5
<1> QED
    BY <1>1, <1>2, <1>3, <1>4, <1>5, <1>6, <1>7

LEMMA IntentsAreNumbers ==
    ASSUME NEW x \in Intents \cup {0}
    PROVE  x \in Nat
BY RentalAssumption

\* The next intent: the one it replaces is cancelled, and so are all before.
LEMMA IntentCreated ==
    ASSUME IntentInv, TypeOK', NEW r \in Requests, CreateIntent(r)
    PROVE  IntentInv'
<1> DEFINE b == request[r].b
           i == request[r].ref + 1
<1>a. TypeOK
    BY DEF IntentInv
<1>b. request[r] \in Busy
    BY <1>a, BusyAt DEF CreateIntent, ProgramCounters
<1>c. b \in Bookings /\ i \in Intents /\ request[r].ref \in Intents \cup {0} /\ Intents \subseteq Nat \ {0}
    BY <1>a, <1>b, BusyFields, RentalAssumption DEF CreateIntent
<1>e. request[r].ref \in Nat
    <2>1. request[r].ref \in Intents \cup {0}
        BY <1>a, <1>b, BusyFields
    <2> QED
        BY <2>1, IntentsAreNumbers
<1>d. request[r].ref # 0 => Gone(b, request[r].ref)
    BY DEF CreateIntent, At, IntentInv, RequestSound, Choosing
<1>1. /\ request'[r].b = b /\ request'[r].i = i /\ request'[r].pc = "new_record"
      /\ \A q \in Requests \ {r} : request'[q] = request[q]
    BY <1>a, <1>b DEF CreateIntent, TypeOK, Busy
<1>2. UNCHANGED payments
    BY DEF CreateIntent, stores
<1>3. CASE intents[b][i] # "none" /\ UNCHANGED stripe
    <2>1. RequestSound(r)'
        <3> HIDE DEF b, i
        <3> QED
            BY <1>1, <1>3 DEF RequestSound, OnIntent, Choosing, Known, stripe
    <2> QED
        BY <1>1, <1>2, <1>3, <2>1, IntentQuiet DEF stripe
<1>4. CASE /\ intents[b][i] = "none"
           /\ SetIntent(b, i, "requires_payment_method", "payment_intent_created")
    <2>1. \A c \in Bookings, j \in Intents :
             intents'[c][j] = IF c = b /\ j = i THEN "requires_payment_method" ELSE intents[c][j]
        BY <1>a, <1>4 DEF TypeOK, SetIntent
    <2>2. Forward
        BY <1>4, <2>1 DEF Forward, Known, Gone
    <2>3. RequestSound(r)'
        <3>1. intents'[b][i] = "requires_payment_method"
            BY <1>c, <2>1
        <3> HIDE DEF b, i
        <3> QED
            BY <1>1, <3>1 DEF RequestSound, OnIntent, Choosing, Known
    <2>4. \A q \in Requests : RequestSound(q)'
        <3> SUFFICES ASSUME NEW q \in Requests, q # r PROVE RequestSound(q)'
            BY <2>3
        <3> QED
            BY <1>a, <1>1, <2>2, SoundStays DEF IntentInv
    <2>5. \A j \in Intents : j < i => Gone(b, j)
        <3> SUFFICES ASSUME NEW j \in Intents, j < i PROVE Gone(b, j)
            OBVIOUS
        <3>a. j \in Nat \ {0}
            BY RentalAssumption
        <3>1. request[r].ref # 0 /\ (j = request[r].ref \/ j < request[r].ref)
            BY <1>e, <3>a
        <3>2. CASE j < request[r].ref
            BY <1>c, <1>d, <3>1, <3>2 DEF IntentInv, Replaced, Known, Gone
        <3> QED
            BY <1>d, <3>1, <3>2
    <2>6. \A j \in Intents : i < j => ~Known(b, j)
        <3> HIDE DEF b, i
        <3>1. ~Gone(b, i)
            BY <1>4 DEF Gone
        <3> QED
            BY <1>c, <3>1 DEF IntentInv, Replaced
    <2>7. Replaced'
        <3> SUFFICES ASSUME NEW c \in Bookings, NEW k \in Intents, NEW j \in Intents, j < k,
                            Known(c, k)'
                     PROVE  Gone(c, j)'
            BY DEF Replaced, Known, Gone
        <3> HIDE DEF b, i
        <3>1. CASE c = b /\ k = i
            BY <1>c, <2>1, <2>5, <3>1 DEF Gone
        <3>2. CASE c = b /\ j = i
            BY <1>c, <2>1, <2>6, <3>2 DEF Known
        <3>3. CASE c # b \/ (k # i /\ j # i)
            BY <2>1, <3>3 DEF IntentInv, Replaced, Known, Gone
        <3> QED
            BY <3>1, <3>2, <3>3
    <2>8. RecordsSound'
        BY <1>2, <1>4, <2>1 DEF IntentInv, RecordsSound, Known, Gone
    <2>9. EventsSound'
        <3> HIDE DEF b, i
        <3> SUFFICES ASSUME NEW e \in events'
                     PROVE  (Known(e[1], e[2]) /\ (e[3] = "payment_cancelled" => Gone(e[1], e[2])))'
            BY DEF EventsSound
        <3>1. CASE e = <<b, i, "payment_intent_created">>
            BY <1>c, <2>1, <3>1 DEF Known
        <3>2. CASE e \in events
            <4>1. e[1] \in Bookings /\ e[2] \in Intents
                BY <1>a, <3>2 DEF TypeOK
            <4> QED
                BY <2>2, <3>2, <4>1 DEF IntentInv, EventsSound, Forward, Known, Gone
        <3> QED
            BY <1>4, <3>1, <3>2 DEF SetIntent
    <2> QED
        BY <2>4, <2>7, <2>8, <2>9 DEF IntentInv
<1> QED
    BY <1>3, <1>4 DEF CreateIntent

LEMMA IntentStep == IntentInv /\ [Next]_vars => IntentInv'
<1> SUFFICES ASSUME IntentInv, [Next]_vars PROVE IntentInv'
    OBVIOUS
<1>a. TypeOK /\ TypeOK'
    BY TypeStep DEF IntentInv
<1>1. ASSUME NEW r \in Requests, CancelIntent(r) PROVE IntentInv'
    <2>b. request[r] \in Busy
        BY <1>a, <1>1, BusyAt DEF CancelIntent, ProgramCounters
    <2>c. request[r].b \in Bookings /\ request[r].todo \subseteq Intents
        BY <1>a, <2>b, BusyFields
    <2> DEFINE b == request[r].b
    <2>1. PICK i \in request[r].todo :
             \/ /\ intents[b][i] \in Cancellable
                /\ SetIntent(b, i, "canceled", "payment_cancelled")
                /\ request' = [request EXCEPT ![r].pc = "cancel_record", ![r].i = i]
             \/ Finish(r) /\ UNCHANGED stripe
        BY <1>1 DEF CancelIntent
    <2>2. UNCHANGED payments
        BY <1>1 DEF CancelIntent, stores
    <2>3. CASE Finish(r) /\ UNCHANGED stripe
        BY <1>a, <2>2, <2>3, CalmFinish, IntentCalm DEF stripe
    <2>4. CASE /\ intents[b][i] \in Cancellable
               /\ SetIntent(b, i, "canceled", "payment_cancelled")
               /\ request' = [request EXCEPT ![r].pc = "cancel_record", ![r].i = i]
        <3>1. i \in Intents /\ Known(b, i) /\ ~Gone(b, i)
            BY <2>c, <2>1, <2>4 DEF Cancellable, Known, Gone
        <3>2. /\ request'[r].b = b /\ request'[r].i = i /\ request'[r].pc = "cancel_record"
              /\ \A q \in Requests \ {r} : request'[q] = request[q]
            BY <1>a, <2>b, <2>4 DEF TypeOK, Busy
        <3>3. intents'[b][i] = "canceled"
            BY <1>a, <2>c, <2>4, <3>1 DEF SetIntent, TypeOK
        <3>4. RequestSound(r)'
            <4> HIDE DEF b
            <4> QED
                BY <3>2, <3>3 DEF RequestSound, OnIntent, Choosing, Known, Gone
        <3> QED
            BY <1>a, <2>c, <2>2, <2>4, <3>1, <3>2, <3>4, IntentChange
    <2> QED
        BY <2>1, <2>3, <2>4
<1>2. ASSUME NEW r \in Requests, Continue(r) PROVE IntentInv'
    BY <1>a, <1>1, <1>2, IntentCalmSteps, IntentHandling, IntentCreated DEF Continue
<1>3. ASSUME NEW r \in Requests, Crash(r) PROVE IntentInv'
    BY <1>a, <1>3, CalmFinish, IntentCalm DEF Crash, stores, stripe
<1>4. ASSUME NEW b \in Bookings, NEW i \in Intents,
             AuthorizeCard(b, i) \/ DeclineCard(b, i) \/ CaptureHold(b, i)
      PROVE  IntentInv'
    <2>1. Known(b, i) /\ ~Gone(b, i)
        BY <1>4 DEF AuthorizeCard, DeclineCard, CaptureHold, Known, Gone
    <2> QED
        BY <1>a, <1>4, <2>1, IntentChange DEF AuthorizeCard, DeclineCard, CaptureHold, stores
<1>5. CASE Relist
    BY <1>a, <1>5, IntentCalm DEF Relist, Calm, stripe
<1>6. CASE UNCHANGED vars
    BY <1>a, <1>6, IntentCalm DEF vars, stores, stripe, Calm
<1> QED
    BY <1>a, <1>2, <1>3, <1>4, <1>5, <1>6, IntentArrive DEF Next, Environment

\* payment-intents/route.ts, webhooks, cancellations and reconciliation, in any
\* order, any of them dying anywhere, never leave a renter with two intents
\* of a booking that can be authorised, are held or are captured.
THEOREM NeverTwoLiveIntents == Spec => []OneOpenIntent
<1>1. Init => IntentInv
    <2> SUFFICES ASSUME Init PROVE IntentInv
        OBVIOUS
    <2>1. TypeOK
        BY RentalAssumption
           DEF Init, TypeOK, BookingStates, TripStates, VehicleStates, PaymentStates, IntentStates
    <2> QED
        BY <2>1 DEF Init, IntentInv, Replaced, RecordsSound, EventsSound, RequestSound, Known, Gone,
                    Idle, OnIntent, Choosing
<1>2. IntentInv => OneOpenIntent
    <2> SUFFICES ASSUME IntentInv, NEW b \in Bookings
                 PROVE  Cardinality({i \in Intents : intents[b][i] \in Cancellable \cup {"succeeded"}}) <= 1
        BY DEF OneOpenIntent
    <2> DEFINE open == {i \in Intents : intents[b][i] \in Cancellable \cup {"succeeded"}}
    <2>1. ASSUME NEW i \in open, NEW j \in open PROVE i = j
        <3>1. i \in Nat /\ j \in Nat
            BY RentalAssumption
        <3>2. Known(b, i) /\ Known(b, j) /\ ~Gone(b, i) /\ ~Gone(b, j)
            BY DEF Cancellable, Known, Gone
        <3>3. ~(i < j) /\ ~(j < i)
            BY <3>2 DEF IntentInv, Replaced
        <3> QED
            BY <3>1, <3>3
    <2>2. CASE open = {}
        BY <2>2, FS_EmptySet
    <2>3. CASE open # {}
        <3>1. PICK i : open = {i}
            BY <2>1, <2>3
        <3> QED
            BY <3>1, FS_Singleton
    <2> QED
        BY <2>2, <2>3
<1> QED
    BY <1>1, <1>2, IntentStep, PTL DEF Spec

-----------------------------------------------------------------------------
(* No double booking.  A booking is only ever made active under the lock on  *)
(* the vehicle, except where updateBookingState writes a state that its      *)
(* request decided on earlier: for a renter who is verified after checkout,  *)
(* at a report of the trip, an incident or a claim.  Without those routes    *)
(* updateBookingState only cancels.                                          *)

NoRevival ==
    /\ Eligibility \subseteq {TRUE}
    /\ Operations \cap {"incident", "claim", "check_in", "check_out"} = {}

Reviving == Writing \cup {"trip_in", "trip_out"}

Harmless(r) ==
    /\ request[r].pc \notin {"trip_in", "trip_out"}
    /\ request[r].pc = "create" => request[r].target = "pending_payment_authorization"
    /\ request[r].pc \in {"update", "update_write"} => request[r].target = "cancelled"

DatesInv ==
    /\ TypeOK /\ NoDoubleBooking
    /\ \A b \in Bookings : bookings[b].state # "pending_renter_verification"
    /\ \A r \in Requests : Harmless(r)

LEMMA NotReviving ==
    ASSUME NEW r \in Requests, request'[r].pc \notin Reviving
    PROVE  Harmless(r)'
BY DEF Harmless, Reviving, Writing

Tame == \A q \in Requests : request'[q] = request[q] \/ Harmless(q)'

LEMMA TameStep ==
    ASSUME DatesInv, TypeOK', UNCHANGED bookings, Tame
    PROVE  DatesInv'
BY DEF DatesInv, NoDoubleBooking, Tame, Harmless

LEMMA TameFinish ==
    ASSUME TypeOK, NEW r \in Requests, Finish(r) PROVE Tame
BY DEF TypeOK, Finish, Idle, Harmless, Tame

LEMMA TameGoto ==
    ASSUME TypeOK, NEW r \in Requests, request[r] \in Busy, NEW pc, pc \notin Reviving,
           Goto(r, pc)
    PROVE  Tame
<1>1. request'[r].pc = pc /\ \A q \in Requests \ {r} : request'[q] = request[q]
    BY DEF TypeOK, Goto, Busy
<1> QED
    BY <1>1, NotReviving DEF Tame

LEMMA TameStart ==
    ASSUME TypeOK, NEW r \in Requests, NEW op, NEW b, NEW pc, NEW target, NEW i,
           pc \notin Reviving, Start(r, op, b, pc, target, i)
    PROVE  Tame
<1>1. request'[r].pc = pc /\ \A q \in Requests \ {r} : request'[q] = request[q]
    BY DEF TypeOK, Start, Activation
<1> QED
    BY <1>1, NotReviving DEF Tame

\* A state that is not active, or is written while no other booking has the
\* dates, keeps the bookings apart.
LEMMA WrittenApart ==
    ASSUME DatesInv, TypeOK', Tame, NEW b \in Bookings, NEW booking,
           bookings' = [bookings EXCEPT ![b] = booking],
           booking.state # "pending_renter_verification",
           booking.state \in ACTIVE_BOOKING_STATES => ~HasConflict(b)
    PROVE  DatesInv'
<1>1. /\ bookings'[b] = booking
      /\ \A c \in Bookings \ {b} : bookings'[c] = bookings[c]
    BY DEF DatesInv, TypeOK
<1>2. NoDoubleBooking'
    <2> SUFFICES ASSUME NEW c \in Bookings, NEW d \in Bookings, c # d,
                        <<c, d>> \in Overlapping,
                        bookings'[c].state \in ACTIVE_BOOKING_STATES,
                        bookings'[d].state \in ACTIVE_BOOKING_STATES
                 PROVE  FALSE
        BY DEF NoDoubleBooking
    <2>1. <<d, c>> \in Overlapping
        BY RentalAssumption
    <2>2. CASE c = b
        BY <1>1, <2>2 DEF HasConflict
    <2>3. CASE d = b
        BY <1>1, <2>1, <2>3 DEF HasConflict
    <2>4. CASE c # b /\ d # b
        BY <1>1, <2>4 DEF DatesInv, NoDoubleBooking
    <2> QED
        BY <2>2, <2>3, <2>4
<1> QED
    BY <1>1, <1>2 DEF DatesInv, Tame, Harmless

LEMMA DatesArrive ==
    ASSUME NoRevival, DatesInv, TypeOK', NEW r \in Requests, Arrive(r)
    PROVE  DatesInv'
<1>a. TypeOK
    BY DEF DatesInv
<1>1. ASSUME NEW b \in Bookings, NEW eligible \in Eligibility, Checkout(r, b, eligible)
      PROVE  DatesInv'
    <2>1. eligible = TRUE
        BY DEF NoRevival
    <2>2. Tame
        BY <1>a, <1>1, <2>1 DEF Checkout, Activation, TypeOK, Tame, Harmless
    <2> QED
        BY <1>1, <2>2, TameStep DEF Checkout, stores
<1>2. ASSUME NEW b \in Bookings, Confirm(r, b)
      PROVE  DatesInv'
    <2>1. Start(r, "confirm", b, "vehicle", "none", 0)
        BY <1>2 DEF Confirm, DatesInv
    <2> QED
        BY <1>a, <1>2, <2>1, TameStart, TameStep DEF Confirm, Reviving, Writing, stores
<1>3. ASSUME NEW b \in Bookings, Approve(r, b) \/ PaymentIntents(r, b) \/ Cancel(r, b)
      PROVE  DatesInv'
    BY <1>a, <1>3, TameStart, TameStep
       DEF Approve, PaymentIntents, Cancel, StartLocked, Reviving, Writing, stores
<1>4. ASSUME NEW b \in Bookings, CheckIn(r, b) \/ CheckOut(r, b) \/ Incident(r, b) \/ Claim(r, b)
      PROVE  DatesInv'
    BY <1>4 DEF CheckIn, CheckOut, Incident, Claim, Start, NoRevival
<1>5. ASSUME NEW e \in events, Webhook(r, e)
      PROVE  DatesInv'
    <2>1. \A q \in Requests : request'[q] = request[q] \/ request'[q].pc \notin Reviving
        BY <1>a, <1>5 DEF Webhook, Activation, TypeOK, Reviving, Writing
    <2> QED
        BY <1>5, <2>1, NotReviving, TameStep DEF Webhook, Tame
<1>6. ASSUME NEW b \in Bookings, NEW i \in Intents, Reconcile(r, b, i)
      PROVE  DatesInv'
    BY <1>a, <1>6, TameStart, TameStep DEF Reconcile, StartUnlocked, Reviving, Writing, stores
<1> QED
    BY <1>1, <1>2, <1>3, <1>4, <1>5, <1>6 DEF Arrive

LEMMA DatesBookingStore ==
    ASSUME DatesInv, TypeOK', NEW r \in Requests,
           CreateBooking(r) \/ UpdateBookingState(r) \/ ConfirmBooking(r)
    PROVE  DatesInv'
<1>a. TypeOK /\ Harmless(r)
    BY DEF DatesInv
<1>b. request[r] \in Busy
    BY <1>a, BusyAt DEF CreateBooking, UpdateBookingState, ConfirmBooking, ProgramCounters
<1>c. request[r].b \in Bookings
    BY <1>a, <1>b, BusyFields
<1>1. CASE CreateBooking(r)
    <2>1. CASE HasConflict(request[r].b)
        BY <1>a, <1>1, <2>1, TameFinish, TameStep DEF CreateBooking
    <2>2. CASE ~HasConflict(request[r].b)
        <3> DEFINE booking == [bookings[request[r].b] EXCEPT !.state = request[r].target]
        <3>1. bookings' = [bookings EXCEPT ![request[r].b] = booking]
            BY <1>a, <1>c, <1>1, <2>2 DEF CreateBooking, TypeOK
        <3>2. booking.state = "pending_payment_authorization"
            BY <1>a, <1>c, <1>1 DEF CreateBooking, At, Harmless, TypeOK
        <3> HIDE DEF booking
        <3>3. Tame
            BY <1>a, <1>1, TameFinish DEF CreateBooking
        <3> QED
            BY <1>c, <2>2, <3>1, <3>2, <3>3, WrittenApart
    <2> QED
        BY <2>1, <2>2
<1>2. CASE UpdateBookingState(r)
    <2>1. request[r].target = "cancelled"
        BY <1>a, <1>2 DEF UpdateBookingState, At, Harmless
    <2>2. CASE /\ request' = [request EXCEPT ![r].pc = "update_write",
                                             ![r].ref = bookings[request[r].b].ref]
               /\ UNCHANGED stores
        <3>1. Tame
            BY <1>a, <1>b, <2>1, <2>2 DEF TypeOK, Busy, Tame, Harmless
        <3> QED
            BY <2>2, <3>1, TameStep DEF stores
    <2>3. CASE /\ AfterUpdate(r)
               /\ bookings' = [bookings EXCEPT ![request[r].b] =
                     [state |-> request[r].target,
                      ref   |-> IF AtomicStore THEN @.ref ELSE request[r].ref]]
        <3>1. Tame
            BY <1>a, <1>b, <2>3, TameFinish, TameGoto
               DEF AfterUpdate, Proceed, Reviving, Writing
        <3>2. PICK booking : booking.state = "cancelled"
                 /\ bookings' = [bookings EXCEPT ![request[r].b] = booking]
            BY <1>a, <1>c, <2>1, <2>3 DEF TypeOK
        <3> QED
            BY <1>c, <3>1, <3>2, WrittenApart DEF ACTIVE_BOOKING_STATES
    <2> QED
        BY <1>2, <2>2, <2>3 DEF UpdateBookingState
<1>3. CASE ConfirmBooking(r)
    <2>1. ASSUME NEW current, WriteConfirmed(r, current)
          PROVE  DatesInv'
        <3>1. Tame
            BY <1>a, <2>1, TameFinish DEF WriteConfirmed
        <3>2. ConfirmedBooking(r, current).state # "pending_renter_verification"
            BY DEF ConfirmedBooking
        <3>3. CASE HasConflict(request[r].b)
            BY <2>1, <3>1, <3>3, TameStep DEF WriteConfirmed
        <3>4. CASE ~HasConflict(request[r].b)
            BY <1>c, <2>1, <3>1, <3>2, <3>4, WrittenApart DEF WriteConfirmed
        <3> QED
            BY <3>3, <3>4
    <2>2. CASE Finish(r) /\ UNCHANGED stores
        BY <1>a, <2>2, TameFinish, TameStep DEF stores
    <2>3. CASE /\ request' = [request EXCEPT ![r].pc = "confirm_write",
                                 ![r].state = bookings[request[r].b].state,
                                 ![r].ref = bookings[request[r].b].ref]
               /\ UNCHANGED stores
        <3>1. Tame
            BY <1>a, <1>b, <2>3 DEF TypeOK, Busy, Tame, Harmless
        <3> QED
            BY <2>3, <3>1, TameStep DEF stores
    <2> QED
        BY <1>3, <2>1, <2>2, <2>3 DEF ConfirmBooking
<1> QED
    BY <1>1, <1>2, <1>3

\* The other steps of a request write no booking; a cancellation goes on to
\* write "cancelled", and no trip is filed.
LEMMA DatesOthers ==
    ASSUME DatesInv, TypeOK', NEW r \in Requests, Continue(r),
           ~CreateBooking(r), ~UpdateBookingState(r), ~ConfirmBooking(r)
    PROVE  DatesInv'
<1>a. TypeOK /\ Harmless(r)
    BY DEF DatesInv
<1>b. request[r] \in Busy
    BY <1>a, BusyAt
       DEF Continue, ReadVehicle, Advance, WriteVehicle, RetrieveIntent, RecordSnapshot,
           CheckIntentVehicle, ListIntents, ReuseIntent, RecordReused, CreateIntent,
           OutOfIntents, RecordCreated, ListCancellable, CancelIntent, RecordCancelled,
           FinishCancel, TripCheckIn, TripCheckOut, ProgramCounters
<1>c. ASSUME \A q \in Requests : request'[q] = request[q] \/ request'[q].pc \notin Reviving
      PROVE  Tame
    BY <1>c, NotReviving DEF Tame
<1> DEFINE Quiet == \A q \in Requests : request'[q] = request[q] \/ request'[q].pc \notin Reviving
<1>1. CASE ReadVehicle(r)
    <2>1. ASSUME NEW review, request' = [request EXCEPT ![r].pc = "confirm", ![r].review = review]
          PROVE  Quiet
        BY <1>a, <1>b, <2>1 DEF TypeOK, Busy, Reviving, Writing
    <2> QED
        BY <1>a, <1>c, <1>1, <2>1, TameFinish, TameStep DEF ReadVehicle, stores
<1>2. CASE Advance(r) \/ CheckIntentVehicle(r) \/ OutOfIntents(r)
    BY <1>a, <1>b, <1>2, TameFinish, TameGoto, TameStep
       DEF Advance, CheckIntentVehicle, OutOfIntents, Proceed, Reviving, Writing, stores
<1>3. CASE WriteVehicle(r) \/ RecordCreated(r)
    BY <1>a, <1>3, TameFinish, TameStep DEF WriteVehicle, RecordCreated
<1>4. CASE RetrieveIntent(r) \/ CreateIntent(r) \/ ListCancellable(r)
    <2>1. Quiet
        BY <1>a, <1>b, <1>4 DEF RetrieveIntent, CreateIntent, ListCancellable, TypeOK, Busy,
           Reviving, Writing
    <2> QED
        BY <1>c, <1>4, <2>1, TameStep DEF RetrieveIntent, CreateIntent, ListCancellable, stores
<1>5. CASE RecordSnapshot(r) \/ RecordReused(r)
    BY <1>a, <1>b, <1>5, TameFinish, TameGoto, TameStep
       DEF RecordSnapshot, RecordReused, Proceed, Reviving, Writing
<1>6. CASE ListIntents(r)
    <2>1. ASSUME NEW last, NEW todo, NEW empty \in BOOLEAN,
                 request' = [request EXCEPT ![r].ref = last, ![r].todo = todo,
                                ![r].pc = IF empty THEN "new_intent" ELSE "intent"]
          PROVE  Quiet
        BY <1>a, <1>b, <2>1 DEF TypeOK, Busy, Reviving, Writing
    <2>2. Quiet
        BY <1>6, <2>1 DEF ListIntents
    <2> QED
        BY <1>c, <1>6, <2>2, TameStep DEF ListIntents, stores
<1>7. CASE ReuseIntent(r)
    <2>1. ASSUME NEW todo, TryNext(r, todo) PROVE Quiet
        BY <1>a, <1>b, <2>1 DEF TryNext, TypeOK, Busy, Reviving, Writing
    <2>2. ASSUME NEW i, NEW snapshot, NEW authorized \in BOOLEAN,
                 request' = [request EXCEPT ![r].i = i, ![r].snapshot = snapshot, ![r].todo = {},
                                ![r].pc = IF authorized THEN "advance" ELSE "intent_record"]
          PROVE  Quiet
        BY <1>a, <1>b, <2>2 DEF TypeOK, Busy, Reviving, Writing
    <2>3. Tame
        BY <1>a, <1>c, <1>7, <2>1, <2>2, TameFinish DEF ReuseIntent
    <2> QED
        BY <1>7, <2>3, TameStep DEF ReuseIntent, stores
<1>8. CASE CancelIntent(r) \/ RecordCancelled(r)
    <2>1. Finish(r) \/ Quiet
        BY <1>a, <1>b, <1>8 DEF CancelIntent, RecordCancelled, TypeOK, Busy, Reviving, Writing
    <2> QED
        BY <1>a, <1>c, <1>8, <2>1, TameFinish, TameStep DEF CancelIntent, RecordCancelled, stores
<1>9. CASE FinishCancel(r)
    <2>1. CASE SetState(r, "cancelled")
        <3>1. Tame
            BY <1>a, <1>b, <2>1 DEF SetState, TypeOK, Busy, Tame, Harmless
        <3> QED
            BY <1>9, <3>1, TameStep DEF FinishCancel, stores
    <2> QED
        BY <1>a, <1>9, <2>1, TameFinish, TameStep DEF FinishCancel, stores
<1>10. ~TripCheckIn(r) /\ ~TripCheckOut(r)
    BY <1>a DEF TripCheckIn, TripCheckOut, At, Harmless
<1> QED
    BY <1>1, <1>2, <1>3, <1>4, <1>5, <1>6, <1>7, <1>8, <1>9, <1>10 DEF Continue

LEMMA DatesStep == NoRevival /\ DatesInv /\ [Next]_vars => DatesInv'
<1> SUFFICES ASSUME NoRevival, DatesInv, [Next]_vars PROVE DatesInv'
    OBVIOUS
<1>a. TypeOK /\ TypeOK'
    BY TypeStep DEF DatesInv
<1>1. ASSUME NEW r \in Requests, Continue(r) PROVE DatesInv'
    BY <1>a, <1>1, DatesBookingStore, DatesOthers
<1>2. ASSUME NEW r \in Requests, Crash(r) PROVE DatesInv'
    BY <1>a, <1>2, TameFinish, TameStep DEF Crash, stores
<1>3. CASE Environment
    <2>1. UNCHANGED <<bookings, request>>
        BY <1>3 DEF Environment, AuthorizeCard, DeclineCard, CaptureHold, Relist, stores
    <2> QED
        BY <1>a, <2>1, TameStep DEF Tame
<1>4. CASE UNCHANGED vars
    BY <1>a, <1>4, TameStep DEF vars, stores, Tame
<1> QED
    BY <1>a, <1>1, <1>2, <1>3, <1>4, DatesArrive DEF Next

\* On either store, for any number of bookings, requests and intents, with
\* cards that decline and handlers that die: two bookings for overlapping dates
\* are never both active, unless a route that writes back a state decided on
\* earlier is called.  createBooking and confirmBooking check the other
\* bookings under the vehicle's lock, also when they confirm what they read
\* before it.
THEOREM NeverDoubleBooked == ASSUME NoRevival PROVE Spec => []NoDoubleBooking
<1>1. Init => DatesInv
    <2> SUFFICES ASSUME Init PROVE DatesInv
        OBVIOUS
    <2>1. TypeOK
        BY RentalAssumption
           DEF Init, TypeOK, BookingStates, TripStates, VehicleStates, PaymentStates, IntentStates
    <2>2. NoDoubleBooking
        BY DEF Init, NoDoubleBooking, ACTIVE_BOOKING_STATES
    <2> QED
        BY <2>1, <2>2 DEF Init, DatesInv, Harmless, Idle
<1>2. DatesInv /\ [Next]_vars => DatesInv'
    BY DatesStep
<1>3. DatesInv => NoDoubleBooking
    BY DEF DatesInv
<1> QED
    BY <1>1, <1>2, <1>3, PTL DEF Spec

-----------------------------------------------------------------------------
(* The rail lock.  The routes that take it hold it until they end, whatever  *)
(* other requests do: a step changes one request and only its own locks.     *)

Rails       == {"intent", "approve", "cancel"}
OnCancel    == {"list", "cancel", "cancel_record"}
OnNewIntent == {"intent_vehicle", "intents", "intent", "intent_record", "new_intent", "new_record"}

Only(r) == \A q \in Requests \ {r} : request'[q] = request[q]

\* Where a handler goes on from pc.
Follows(pc, next) ==
    \/ pc = "update" /\ next \in {"update_write", "vehicle", "vehicle_write"}
    \/ pc = "update_write" /\ next \in {"vehicle", "vehicle_write"}
    \/ pc = "advance" /\ next = "vehicle"
    \/ pc = "vehicle" /\ next = "confirm"
    \/ pc = "confirm" /\ next = "confirm_write"
    \/ pc = "retrieve" /\ next = "record"
    \/ pc = "record" /\ next \in {"vehicle", "advance"}
    \/ pc = "intent_vehicle" /\ next = "intents"
    \/ pc = "intents" /\ next \in {"intent", "new_intent"}
    \/ pc = "intent" /\ next \in {"intent", "new_intent", "intent_record", "advance"}
    \/ pc = "intent_record" /\ next = "advance"
    \/ pc = "new_intent" /\ next = "new_record"
    \/ pc = "list" /\ next = "cancel"
    \/ pc = "cancel" /\ next \in {"cancel_record", "update"}
    \/ pc = "cancel_record" /\ next = "cancel"
    \/ pc \in {"trip_in", "trip_out"} /\ next = "update"

GoesOn(r) ==
    /\ request'[r].op = request[r].op /\ request'[r].b = request[r].b
    /\ ~At(r, "confirm") => request'[r].state = request[r].state
    /\ request[r].pc \notin {"intent", "new_intent", "cancel", "cancel_record"} =>
          request'[r].i = request[r].i
    /\ UNCHANGED railLock
    /\ Follows(request[r].pc, request'[r].pc)

LEMMA FinishOnly ==
    ASSUME TypeOK, NEW r \in Requests, Finish(r)
    PROVE  Only(r) /\ request'[r] = Idle
BY DEF TypeOK, Finish, Only

LEMMA ProceedOn ==
    ASSUME TypeOK, NEW r \in Requests, request[r] \in Busy, NEW pc, Proceed(r, pc),
           Follows(request[r].pc, pc)
    PROVE  Only(r) /\ GoesOn(r) /\ request'[r].pc = pc
BY DEF TypeOK, Busy, Proceed, Goto, Only, GoesOn

LEMMA SetStateOn ==
    ASSUME TypeOK, NEW r \in Requests, request[r] \in Busy, NEW state, SetState(r, state),
           UNCHANGED railLock, request[r].pc \in {"cancel", "trip_in", "trip_out"}
    PROVE  Only(r) /\ GoesOn(r) /\ request'[r].pc = "update"
BY DEF TypeOK, Busy, SetState, Only, GoesOn, Follows

LEMMA StartOnly ==
    ASSUME TypeOK, NEW r \in Requests, NEW op, NEW b, NEW pc, NEW target, NEW i,
           Start(r, op, b, pc, target, i)
    PROVE  Only(r) /\ request'[r] = Activation(op, b, pc, target, i)
BY DEF TypeOK, Start, Only

LEMMA BusyContinues ==
    ASSUME TypeOK, NEW r \in Requests, Continue(r)
    PROVE  request[r] \in Busy
BY BusyAt
   DEF Continue, CreateBooking, UpdateBookingState, ConfirmBooking, ReadVehicle, Advance,
       WriteVehicle, RetrieveIntent, RecordSnapshot, CheckIntentVehicle, ListIntents, ReuseIntent,
       RecordReused, CreateIntent, OutOfIntents, RecordCreated, ListCancellable, CancelIntent,
       RecordCancelled, FinishCancel, TripCheckIn, TripCheckOut, ProgramCounters

\* A request that goes on keeps its route, its booking and its lock.
LEMMA ContinueShape ==
    ASSUME TypeOK, NEW r \in Requests, Continue(r)
    PROVE  Only(r) /\ (Finish(r) \/ GoesOn(r))
<1>b. request[r] \in Busy
    BY BusyContinues
<1> USE DEF Follows
<1>1. CASE Finish(r)
    BY <1>1, FinishOnly
<1>2. ASSUME NEW pc, Proceed(r, pc), Follows(request[r].pc, pc)
      PROVE  Only(r) /\ GoesOn(r)
    BY <1>b, <1>2, ProceedOn
<1>3. ASSUME NEW state, SetState(r, state), UNCHANGED railLock,
             request[r].pc \in {"cancel", "trip_in", "trip_out"}
      PROVE  Only(r) /\ GoesOn(r)
    BY <1>b, <1>3, SetStateOn
<1>4. CASE CreateBooking(r) \/ WriteVehicle(r) \/ OutOfIntents(r) \/ RecordCreated(r)
    BY <1>1, <1>4 DEF CreateBooking, WriteVehicle, OutOfIntents, RecordCreated
<1>5. CASE UpdateBookingState(r)
    <2>1. ASSUME NEW ref, At(r, "update"), UNCHANGED railLock,
                 request' = [request EXCEPT ![r].pc = "update_write", ![r].ref = ref]
          PROVE  Only(r) /\ GoesOn(r)
        BY <1>b, <2>1 DEF At, TypeOK, Busy, Only, GoesOn
    <2>2. CASE AfterUpdate(r)
        BY <1>1, <1>2, <1>5, <2>2 DEF UpdateBookingState, AfterUpdate, At
    <2> QED
        BY <1>5, <2>1, <2>2 DEF UpdateBookingState
<1>6. CASE ConfirmBooking(r)
    <2>1. ASSUME NEW state, NEW ref, At(r, "confirm"), UNCHANGED railLock,
                 request' = [request EXCEPT ![r].pc = "confirm_write", ![r].state = state, ![r].ref = ref]
          PROVE  Only(r) /\ GoesOn(r)
        BY <1>b, <2>1 DEF At, TypeOK, Busy, Only, GoesOn
    <2> QED
        BY <1>1, <1>6, <2>1 DEF ConfirmBooking, WriteConfirmed
<1>7. CASE ReadVehicle(r)
    <2>1. ASSUME NEW review, UNCHANGED railLock,
                 request' = [request EXCEPT ![r].pc = "confirm", ![r].review = review]
          PROVE  Only(r) /\ GoesOn(r)
        BY <1>b, <1>7, <2>1 DEF ReadVehicle, At, TypeOK, Busy, Only, GoesOn
    <2> QED
        BY <1>1, <1>7, <2>1 DEF ReadVehicle
<1>8. CASE Advance(r)
    BY <1>1, <1>2, <1>8 DEF Advance, At
<1>9. CASE RetrieveIntent(r) \/ CreateIntent(r) \/ ListCancellable(r)
    BY <1>b, <1>9
       DEF RetrieveIntent, CreateIntent, ListCancellable, At, TypeOK, Busy, Only, GoesOn
<1>10. CASE RecordSnapshot(r)
    BY <1>1, <1>2, <1>10 DEF RecordSnapshot, At
<1>11. CASE CheckIntentVehicle(r)
    BY <1>1, <1>2, <1>11 DEF CheckIntentVehicle, At
<1>12. CASE ListIntents(r)
    <2>1. ASSUME NEW last, NEW todo, NEW empty \in BOOLEAN, UNCHANGED railLock,
                 request' = [request EXCEPT ![r].ref = last, ![r].todo = todo,
                                ![r].pc = IF empty THEN "new_intent" ELSE "intent"]
          PROVE  Only(r) /\ GoesOn(r)
        BY <1>b, <1>12, <2>1 DEF ListIntents, At, TypeOK, Busy, Only, GoesOn
    <2> QED
        BY <1>12, <2>1 DEF ListIntents
<1>13. CASE ReuseIntent(r)
    <2>1. ASSUME NEW todo, TryNext(r, todo), UNCHANGED railLock
          PROVE  Only(r) /\ GoesOn(r)
        BY <1>b, <1>13, <2>1 DEF ReuseIntent, At, TryNext, TypeOK, Busy, Only, GoesOn
    <2>2. ASSUME NEW i, NEW snapshot, NEW authorized \in BOOLEAN, UNCHANGED railLock,
                 request' = [request EXCEPT ![r].i = i, ![r].snapshot = snapshot, ![r].todo = {},
                                ![r].pc = IF authorized THEN "advance" ELSE "intent_record"]
          PROVE  Only(r) /\ GoesOn(r)
        BY <1>b, <1>13, <2>2 DEF ReuseIntent, At, TypeOK, Busy, Only, GoesOn
    <2> QED
        BY <1>1, <1>13, <2>1, <2>2 DEF ReuseIntent
<1>14. CASE RecordReused(r)
    BY <1>2, <1>14 DEF RecordReused, At
<1>15. CASE CancelIntent(r)
    <2>1. ASSUME NEW i, UNCHANGED railLock,
                 request' = [request EXCEPT ![r].pc = "cancel_record", ![r].i = i]
          PROVE  Only(r) /\ GoesOn(r)
        BY <1>b, <1>15, <2>1 DEF CancelIntent, At, TypeOK, Busy, Only, GoesOn
    <2> QED
        BY <1>1, <1>15, <2>1 DEF CancelIntent
<1>16. CASE RecordCancelled(r)
    BY <1>b, <1>16 DEF RecordCancelled, At, TypeOK, Busy, Only, GoesOn
<1>17. CASE FinishCancel(r)
    BY <1>1, <1>3, <1>17 DEF FinishCancel, At
<1>18. CASE TripCheckIn(r)
    BY <1>1, <1>3, <1>18 DEF TripCheckIn, At
<1>19. CASE TripCheckOut(r)
    BY <1>1, <1>3, <1>19 DEF TripCheckOut, At
<1> QED
    BY <1>4, <1>5, <1>6, <1>7, <1>8, <1>9, <1>10, <1>11, <1>12, <1>13, <1>14, <1>15, <1>16, <1>17,
       <1>18, <1>19 DEF Continue

\* Where a request of each route starts.
Enters(op, pc) ==
    \/ op = "checkout" /\ pc = "create"
    \/ op = "confirm" /\ pc \in {"update", "vehicle"}
    \/ op = "intent" /\ pc = "intent_vehicle"
    \/ op = "webhook" /\ pc = "advance"
    \/ op \in {"approve", "reconcile"} /\ pc = "retrieve"
    \/ op = "cancel" /\ pc = "list"
    \/ op = "check_in" /\ pc = "trip_in"
    \/ op = "check_out" /\ pc = "trip_out"
    \/ op \in {"incident", "claim"} /\ pc = "update"

Entered(r) ==
    /\ At(r, "idle") /\ request'[r].b \in Bookings
    /\ Enters(request'[r].op, request'[r].pc)
    /\ IF request'[r].op \in Rails
       THEN /\ railLock[request'[r].b] = NoRequest
            /\ railLock' = [railLock EXCEPT ![request'[r].b] = r]
       ELSE UNCHANGED railLock

LEMMA ArriveShape ==
    ASSUME TypeOK, NEW r \in Requests, Arrive(r)
    PROVE  Only(r) /\ (Entered(r) \/ UNCHANGED <<request, railLock>>)
<1>1. ASSUME NEW op, NEW b \in Bookings, NEW pc, NEW target, NEW i, Start(r, op, b, pc, target, i),
             Enters(op, pc),
             IF op \in Rails
             THEN railLock[b] = NoRequest /\ railLock' = [railLock EXCEPT ![b] = r]
             ELSE UNCHANGED railLock
      PROVE  Only(r) /\ Entered(r)
    <2>1. Only(r) /\ request'[r] = Activation(op, b, pc, target, i)
        BY <1>1, StartOnly
    <2>2. request'[r].op = op /\ request'[r].b = b /\ request'[r].pc = pc
        BY <2>1 DEF Activation
    <2>3. At(r, "idle")
        BY <1>1 DEF Start
    <2> QED
        BY <1>1, <2>1, <2>2, <2>3 DEF Entered
<1> USE DEF Enters, Rails
<1>2. ASSUME NEW b \in Bookings, NEW eligible \in Eligibility, Checkout(r, b, eligible)
      PROVE  Only(r) /\ Entered(r)
    BY <1>2 DEF Checkout, Activation, TypeOK, Only, Entered
<1>3. ASSUME NEW e \in events, Webhook(r, e)
      PROVE  Only(r) /\ (Entered(r) \/ UNCHANGED <<request, railLock>>)
    BY <1>3 DEF Webhook, Activation, TypeOK, Only, Entered
<1>4. ASSUME NEW b \in Bookings, Confirm(r, b) PROVE Only(r) /\ Entered(r)
    BY <1>1, <1>4 DEF Confirm
<1>5. ASSUME NEW b \in Bookings, Approve(r, b) PROVE Only(r) /\ Entered(r)
    BY <1>1, <1>5 DEF Approve, StartLocked
<1>6. ASSUME NEW b \in Bookings, PaymentIntents(r, b) PROVE Only(r) /\ Entered(r)
    BY <1>1, <1>6 DEF PaymentIntents, StartLocked
<1>7. ASSUME NEW b \in Bookings, Cancel(r, b) PROVE Only(r) /\ Entered(r)
    BY <1>1, <1>7 DEF Cancel, StartLocked
<1>8. ASSUME NEW b \in Bookings, CheckIn(r, b) \/ CheckOut(r, b)
      PROVE  Only(r) /\ Entered(r)
    BY <1>1, <1>8 DEF CheckIn, CheckOut
<1>9. ASSUME NEW b \in Bookings, Incident(r, b) \/ Claim(r, b)
      PROVE  Only(r) /\ Entered(r)
    BY <1>1, <1>9 DEF Incident, Claim
<1>10. ASSUME NEW b \in Bookings, NEW i \in Intents, Reconcile(r, b, i)
       PROVE  Only(r) /\ Entered(r)
    BY <1>1, <1>10 DEF Reconcile, StartUnlocked
<1> QED
    BY <1>2, <1>3, <1>4, <1>5, <1>6, <1>7, <1>8, <1>9, <1>10 DEF Arrive

OnRail(r) == ~At(r, "idle") =>
    /\ request[r].op \in Rails => railLock[request[r].b] = r
    /\ request[r].pc \in OnCancel => request[r].op = "cancel"
    /\ request[r].pc \in OnNewIntent => request[r].op = "intent"

RailInv == TypeOK /\ \A r \in Requests : OnRail(r)

LEMMA RailOthers ==
    ASSUME RailInv, TypeOK', NEW r \in Requests, Only(r), OnRail(r)',
           \A b \in Bookings, q \in Requests \ {r} : railLock[b] = q => railLock'[b] = q
    PROVE  RailInv'
<1> SUFFICES ASSUME NEW q \in Requests, q # r, ~At(q, "idle")' PROVE OnRail(q)'
    BY DEF RailInv, OnRail
<1>1. request'[q] = request[q] /\ ~At(q, "idle")
    BY DEF Only, At
<1>2. request[q].b \in Bookings
    BY <1>1, BusyFields DEF RailInv, TypeOK, At, Idle
<1> QED
    BY <1>1, <1>2 DEF RailInv, OnRail, At

LEMMA RailStep == RailInv /\ [Next]_vars => RailInv'
<1> SUFFICES ASSUME RailInv, [Next]_vars PROVE RailInv'
    OBVIOUS
<1>a. TypeOK /\ TypeOK'
    BY TypeStep DEF RailInv
<1>1. ASSUME NEW r \in Requests, Finish(r) PROVE RailInv'
    <2>1. \A b \in Bookings, q \in Requests \ {r} : railLock[b] = q => railLock'[b] = q
        BY <1>a, <1>1 DEF Finish, TypeOK
    <2>2. OnRail(r)'
        BY <1>a, <1>1, FinishOnly DEF OnRail, At, Idle
    <2> QED
        BY <1>a, <1>1, <2>1, <2>2, FinishOnly, RailOthers
<1>2. ASSUME NEW r \in Requests, Continue(r) PROVE RailInv'
    <2>1. request[r] \in Busy /\ Only(r) /\ (Finish(r) \/ GoesOn(r))
        BY <1>a, <1>2, BusyContinues, ContinueShape
    <2>2. CASE GoesOn(r)
        <3>1. OnRail(r) /\ ~At(r, "idle")
            BY <2>1 DEF RailInv, At, Busy, ProgramCounters
        <3>2. OnRail(r)'
            BY <2>2, <3>1 DEF OnRail, At, GoesOn, Follows, OnCancel, OnNewIntent
        <3> QED
            BY <1>a, <2>1, <2>2, <3>2, RailOthers DEF GoesOn
    <2> QED
        BY <1>1, <2>1, <2>2
<1>3. ASSUME NEW r \in Requests, Arrive(r) PROVE RailInv'
    <2>1. Only(r)
        BY <1>a, <1>3, ArriveShape
    <2>2. CASE UNCHANGED <<request, railLock>>
        BY <1>a, <2>2 DEF RailInv, OnRail, At
    <2>3. CASE Entered(r)
        <3>1. \A b \in Bookings, q \in Requests \ {r} : railLock[b] = q => railLock'[b] = q
            BY <1>a, <2>3, RentalAssumption DEF Entered, TypeOK
        <3>2. request'[r].op \in Rails => railLock'[request'[r].b] = r
            BY <1>a, <2>3 DEF Entered, TypeOK
        <3>3. OnRail(r)'
            BY <2>3, <3>2 DEF Entered, Enters, OnRail, OnCancel, OnNewIntent
        <3> QED
            BY <1>a, <2>1, <3>1, <3>3, RailOthers
    <2> QED
        BY <1>a, <1>3, <2>2, <2>3, ArriveShape
<1>4. CASE Environment \/ UNCHANGED vars
    <2>1. UNCHANGED <<request, railLock>>
        BY <1>4 DEF Environment, AuthorizeCard, DeclineCard, CaptureHold, Relist, vars
    <2> QED
        BY <1>a, <2>1 DEF RailInv, OnRail, At
<1> QED
    BY <1>1, <1>2, <1>3, <1>4 DEF Next, Crash

\* Two requests never hold one booking's lock.
LEMMA OneOnRail ==
    ASSUME RailInv, NEW q \in Requests, NEW r \in Requests, ~At(q, "idle"), ~At(r, "idle"),
           request[q].op \in Rails, request[r].op \in Rails, request[q].b = request[r].b
    PROVE  q = r
BY DEF RailInv, OnRail

-----------------------------------------------------------------------------
(* Records and holds.  What a record, an event or a snapshot says of a hold  *)
(* came from Stripe, where a hold ends captured or canceled; and only a      *)
(* handler on the rail cancels, and records that before it ends.             *)

Settled == Successful \cup {"canceled"}
Looked  == {"record", "intent_record"}

Releasing(r, b, i) == At(r, "cancel_record") /\ request[r].b = b /\ request[r].i = i

Seen(r) == request[r].pc \in Looked =>
    /\ request[r].snapshot \in Successful => intents[request[r].b][request[r].i] \in Settled
    /\ request[r].snapshot = "succeeded" => intents[request[r].b][request[r].i] = "succeeded"

HoldRecords ==
    \A b \in Bookings, i \in Intents :
        /\ payments[b][i] = "requires_capture" => intents[b][i] \in Settled
        /\ payments[b][i] = "captured" => intents[b][i] = "succeeded"
        /\ Gone(b, i) => payments[b][i] = "cancelled" \/ \E r \in Requests : Releasing(r, b, i)

HoldEvents ==
    \A e \in events :
        /\ e[3] = "authorization_succeeded" => intents[e[1]][e[2]] \in Settled
        /\ e[3] = "capture_succeeded" => intents[e[1]][e[2]] = "succeeded"

HoldInv == RailInv /\ HoldRecords /\ HoldEvents /\ \A r \in Requests : Seen(r)

Onward ==
    \A b \in Bookings, i \in Intents :
        /\ intents[b][i] \in Settled => intents'[b][i] \in Settled
        /\ intents[b][i] = "succeeded" => intents'[b][i] = "succeeded"

LEMMA SeenStays ==
    ASSUME TypeOK, Onward, NEW r \in Requests, Seen(r), request'[r] = request[r]
    PROVE  Seen(r)'
<1>1. CASE request[r] = Idle
    BY <1>1 DEF Seen, Idle, Looked
<1>2. CASE request[r] \in Busy
    <2>1. request[r].b \in Bookings /\ (request[r].pc \in Looked => request[r].i \in Intents)
        BY <1>2, BusyFields DEF Looked, OnIntent
    <2> QED
        BY <2>1 DEF Seen, Onward
<1> QED
    BY <1>1, <1>2 DEF TypeOK

\* Nobody gives up a cancellation he has not recorded.
Steady == \A q \in Requests :
    request'[q] = request[q] \/ (~At(q, "cancel_record") /\ Seen(q)')

LEMMA SteadyOnly ==
    ASSUME NEW r \in Requests, Only(r), ~At(r, "cancel_record"), request'[r].pc \notin Looked
    PROVE  Steady
BY DEF Only, Steady, Seen

LEMMA SteadyFinish ==
    ASSUME TypeOK, NEW r \in Requests, Finish(r), ~At(r, "cancel_record")
    PROVE  Steady
BY FinishOnly, SteadyOnly DEF Idle, Looked

LEMMA HoldSame ==
    ASSUME HoldInv, RailInv', UNCHANGED <<intents, events, payments>>, Steady
    PROVE  HoldInv'
<1>1. Onward
    BY DEF Onward
<1>2. \A q \in Requests : Seen(q)'
    BY <1>1, SeenStays DEF HoldInv, RailInv, Steady
<1>3. \A q \in Requests, b \in Bookings, i \in Intents : Releasing(q, b, i) => Releasing(q, b, i)'
    BY DEF Steady, Releasing, At
<1>4. HoldRecords'
    BY <1>3 DEF HoldInv, HoldRecords, Gone
<1> QED
    BY <1>2, <1>4 DEF HoldInv, HoldEvents

LEMMA HoldRecord ==
    ASSUME HoldInv, RailInv', UNCHANGED <<intents, events>>,
           NEW b \in Bookings, NEW i \in Intents, NEW status, Record(b, i, status),
           status = "requires_capture" => intents[b][i] \in Settled,
           status = "captured" => intents[b][i] = "succeeded",
           NEW r \in Requests, Only(r), Seen(r)',
           At(r, "cancel_record") => request[r].b = b /\ request[r].i = i /\ status = "cancelled"
    PROVE  HoldInv'
<1>0. TypeOK
    BY DEF HoldInv, RailInv
<1>1. Onward
    BY DEF Onward
<1>2. \A q \in Requests : Seen(q)'
    BY <1>0, <1>1, SeenStays DEF HoldInv, Only
<1>3. \A c \in Bookings, j \in Intents :
         payments'[c][j] = IF c = b /\ j = i THEN MonotonicPaymentStatus(payments[c][j], status)
                                             ELSE payments[c][j]
    BY <1>0 DEF TypeOK, Record
<1>4. HoldRecords'
    <2> SUFFICES ASSUME NEW c \in Bookings, NEW j \in Intents
                 PROVE  /\ payments'[c][j] = "requires_capture" => intents'[c][j] \in Settled
                        /\ payments'[c][j] = "captured" => intents'[c][j] = "succeeded"
                        /\ Gone(c, j)' => payments'[c][j] = "cancelled"
                                             \/ \E q \in Requests : Releasing(q, c, j)'
        BY DEF HoldRecords
    <2>1. /\ payments[c][j] = "requires_capture" => intents[c][j] \in Settled
          /\ payments[c][j] = "captured" => intents[c][j] = "succeeded"
          /\ Gone(c, j) => payments[c][j] = "cancelled" \/ \E q \in Requests : Releasing(q, c, j)
        BY DEF HoldInv, HoldRecords
    <2>2. payments'[c][j] \in {payments[c][j], status}
        BY <1>3 DEF MonotonicPaymentStatus
    <2>3. payments[c][j] = "cancelled" => payments'[c][j] = "cancelled"
        BY <1>3 DEF MonotonicPaymentStatus
    <2>4. ASSUME Gone(c, j), NEW q \in Requests, Releasing(q, c, j)
          PROVE  payments'[c][j] = "cancelled" \/ Releasing(q, c, j)'
        <3>1. CASE q # r
            BY <2>4, <3>1 DEF Only, Releasing, At
        <3>2. CASE q = r
            <4>1. c = b /\ j = i /\ status = "cancelled"
                BY <2>4, <3>2 DEF Releasing
            <4>2. payments[c][j] # "captured"
                BY <2>1, <2>4 DEF Gone
            <4> QED
                BY <1>3, <4>1, <4>2 DEF MonotonicPaymentStatus
        <3> QED
            BY <3>1, <3>2
    <2>5. Gone(c, j)' = Gone(c, j)
        BY DEF Gone
    <2>6. /\ payments'[c][j] = "requires_capture" => intents[c][j] \in Settled
          /\ payments'[c][j] = "captured" => intents[c][j] = "succeeded"
        <3>1. CASE c = b /\ j = i
            BY <2>1, <2>2, <3>1
        <3>2. CASE ~(c = b /\ j = i)
            BY <1>3, <2>1, <3>2
        <3> QED
            BY <3>1, <3>2
    <2> QED
        BY <2>1, <2>3, <2>4, <2>5, <2>6
<1> QED
    BY <1>2, <1>4 DEF HoldInv, HoldEvents

\* An open intent changes; who cancels it records that next.
LEMMA HoldChange ==
    ASSUME HoldInv, RailInv', UNCHANGED payments, Steady,
           NEW b \in Bookings, NEW i \in Intents, NEW status, NEW kind,
           SetIntent(b, i, status, kind),
           intents[b][i] = "requires_capture" => status \in {"succeeded", "canceled"},
           intents[b][i] \notin {"succeeded", "canceled"},
           kind = "authorization_succeeded" => status = "requires_capture",
           kind = "capture_succeeded" => status = "succeeded",
           status = "canceled" => \E r \in Requests : Releasing(r, b, i)'
    PROVE  HoldInv'
<1>0. TypeOK
    BY DEF HoldInv, RailInv
<1>1. \A c \in Bookings, j \in Intents :
         intents'[c][j] = IF c = b /\ j = i THEN status ELSE intents[c][j]
    BY <1>0 DEF TypeOK, SetIntent
<1>2. Onward
    BY <1>1 DEF Onward, Settled, Successful
<1>3. \A q \in Requests : Seen(q)'
    BY <1>0, <1>2, SeenStays DEF HoldInv, Steady
<1>4. \A q \in Requests, c \in Bookings, j \in Intents : Releasing(q, c, j) => Releasing(q, c, j)'
    BY DEF Steady, Releasing, At
<1>5. HoldRecords'
    <2>1. \A c \in Bookings, j \in Intents : Gone(c, j)' =>
             payments[c][j] = "cancelled" \/ \E q \in Requests : Releasing(q, c, j)'
        BY <1>1, <1>4 DEF HoldInv, HoldRecords, Gone
    <2> QED
        BY <1>2, <2>1 DEF HoldInv, HoldRecords, Onward, Gone
<1>6. HoldEvents'
    <2> SUFFICES ASSUME NEW e \in events'
                 PROVE  /\ e[3] = "authorization_succeeded" => intents'[e[1]][e[2]] \in Settled
                        /\ e[3] = "capture_succeeded" => intents'[e[1]][e[2]] = "succeeded"
        BY DEF HoldEvents
    <2>1. CASE e = <<b, i, kind>>
        BY <1>1, <2>1 DEF Settled, Successful
    <2>2. CASE e \in events
        <3>1. e[1] \in Bookings /\ e[2] \in Intents
            BY <1>0, <2>2 DEF TypeOK
        <3> QED
            BY <1>2, <2>2, <3>1 DEF HoldInv, HoldEvents, Onward
    <2> QED
        BY <2>1, <2>2 DEF SetIntent
<1> QED
    BY <1>3, <1>5, <1>6 DEF HoldInv

LEMMA HoldArrive ==
    ASSUME HoldInv, RailInv', NEW r \in Requests, Arrive(r)
    PROVE  HoldInv'
<1>a. TypeOK
    BY DEF HoldInv, RailInv
<1>b. Only(r) /\ (Entered(r) \/ UNCHANGED <<request, railLock>>)
    BY <1>a, ArriveShape
<1>c. /\ \A q \in Requests : request'[q] # request[q] => q = r /\ ~At(r, "cancel_record")
      /\ request'[r] = request[r] \/ request'[r].pc \notin Looked
    BY <1>b DEF Only, Entered, Enters, At, Looked
<1>d. Steady
    BY <1>c DEF Steady, Seen
<1>1. ASSUME NEW e \in events, Webhook(r, e) PROVE HoldInv'
    <2>1. e[1] \in Bookings /\ e[2] \in Intents /\ e[3] \in EventKinds
        BY <1>a DEF TypeOK
    <2>2. /\ StatusOfEvent(e[3]) = "requires_capture" => intents[e[1]][e[2]] \in Settled
          /\ StatusOfEvent(e[3]) = "captured" => intents[e[1]][e[2]] = "succeeded"
        BY <2>1 DEF HoldInv, HoldEvents, StatusOfEvent, EventKinds
    <2>3. Seen(r)'
        <3>1. Onward
            BY <1>1 DEF Webhook, Onward
        <3> QED
            BY <1>a, <1>d, <3>1, SeenStays DEF HoldInv, Steady
    <2>4. ~At(r, "cancel_record")
        BY <1>1 DEF Webhook, At
    <2> QED
        BY <1>1, <1>b, <2>1, <2>2, <2>3, <2>4, HoldRecord DEF Webhook
<1>2. CASE ~\E e \in events : Webhook(r, e)
    <2>1. UNCHANGED <<intents, events, payments>>
        BY <1>2 DEF Arrive, Checkout, Confirm, Approve, PaymentIntents, Cancel, CheckIn, CheckOut,
               Incident, Claim, Reconcile, stores, stripe
    <2> QED
        BY <1>d, <2>1, HoldSame
<1> QED
    BY <1>1, <1>2

LEMMA HoldContinue ==
    ASSUME HoldInv, RailInv', NEW r \in Requests, Continue(r)
    PROVE  HoldInv'
<1>a. TypeOK
    BY DEF HoldInv, RailInv
<1>b. request[r] \in Busy /\ Only(r) /\ (Finish(r) \/ GoesOn(r))
    BY <1>a, BusyContinues, ContinueShape
<1>c. /\ request[r].b \in Bookings /\ request[r].todo \subseteq Intents
      /\ request[r].snapshot \in IntentStates
      /\ request[r].pc \in OnIntent => request[r].i \in Intents
    BY <1>a, <1>b, BusyFields
<1>d. request[r].pc \notin {"retrieve", "intent"} => request'[r].pc \notin Looked
    BY <1>a, <1>b, FinishOnly DEF GoesOn, Follows, Looked, Idle
<1>e. /\ ~At(r, "cancel_record") /\ request[r].pc \notin {"retrieve", "intent"} => Steady
      /\ request[r].pc \notin {"retrieve", "intent"} => Seen(r)'
    BY <1>b, <1>d, SteadyOnly DEF Seen
<1>f. Seen(r)
    BY DEF HoldInv
<1>1. CASE \/ CreateBooking(r) \/ UpdateBookingState(r) \/ ConfirmBooking(r)
           \/ ReadVehicle(r) \/ Advance(r) \/ WriteVehicle(r) \/ CheckIntentVehicle(r)
           \/ ListIntents(r) \/ OutOfIntents(r) \/ ListCancellable(r) \/ FinishCancel(r)
           \/ TripCheckIn(r) \/ TripCheckOut(r)
    <2>1. UNCHANGED <<intents, events, payments>>
        BY <1>1 DEF CreateBooking, UpdateBookingState, ConfirmBooking, WriteConfirmed, ReadVehicle,
               Advance, WriteVehicle, CheckIntentVehicle, ListIntents, OutOfIntents,
               ListCancellable, FinishCancel, TripCheckIn, TripCheckOut, stores, stripe
    <2>2. request[r].pc \notin {"cancel_record", "retrieve", "intent"}
        BY <1>1 DEF CreateBooking, UpdateBookingState, ConfirmBooking, ReadVehicle,
               Advance, WriteVehicle, CheckIntentVehicle, ListIntents, OutOfIntents,
               ListCancellable, FinishCancel, TripCheckIn, TripCheckOut, At
    <2> QED
        BY <1>e, <2>1, <2>2, HoldSame DEF At
\* A snapshot is what Stripe says now.
<1>2. CASE RetrieveIntent(r)
    <2>1. /\ request'[r].b = request[r].b /\ request'[r].i = request[r].i
          /\ request'[r].snapshot = intents[request[r].b][request[r].i]
        BY <1>a, <1>b, <1>2 DEF RetrieveIntent, TypeOK, Busy
    <2>2. Seen(r)' /\ ~At(r, "cancel_record")
        BY <1>2, <2>1 DEF RetrieveIntent, At, Seen, Settled, stripe
    <2>3. Steady
        BY <1>b, <2>2 DEF Only, Steady
    <2> QED
        BY <1>2, <2>3, HoldSame DEF RetrieveIntent, stores, stripe
<1>3. CASE ReuseIntent(r)
    <2>1. UNCHANGED <<intents, events, payments>> /\ ~At(r, "cancel_record")
        BY <1>3 DEF ReuseIntent, At, stores, stripe
    <2>2. ASSUME NEW i \in request[r].todo, NEW authorized \in BOOLEAN,
                 request' = [request EXCEPT ![r].i = i, ![r].snapshot = intents[request[r].b][i],
                     ![r].todo = {}, ![r].pc = IF authorized THEN "advance" ELSE "intent_record"]
          PROVE  Seen(r)'
        <3>1. /\ request'[r].b = request[r].b /\ request'[r].i = i
              /\ request'[r].snapshot = intents[request[r].b][i]
            BY <1>a, <1>b, <2>2 DEF TypeOK, Busy
        <3> QED
            BY <2>1, <3>1 DEF Seen, Settled
    <2>3. ASSUME NEW todo, TryNext(r, todo) PROVE Seen(r)'
        <3>1. request'[r].pc \in {"new_intent", "intent"}
            BY <1>a, <1>b, <2>3 DEF TryNext, TypeOK, Busy
        <3> QED
            BY <3>1 DEF Seen, Looked
    <2>4. Finish(r) => Seen(r)'
        BY <1>a, FinishOnly DEF Seen, Looked, Idle
    <2>5. Seen(r)'
        BY <1>3, <2>2, <2>3, <2>4 DEF ReuseIntent
    <2>6. Steady
        BY <1>b, <2>1, <2>5 DEF Only, Steady
    <2> QED
        BY <2>1, <2>6, HoldSame
<1>4. CASE RecordSnapshot(r) \/ RecordReused(r)
    <2> DEFINE status == StatusOfSnapshot(request[r].snapshot)
    <2>1. request[r].pc \in Looked /\ request[r].i \in Intents
        BY <1>c, <1>4 DEF RecordSnapshot, RecordReused, At, Looked, OnIntent
    <2>2. /\ status = "requires_capture" => intents[request[r].b][request[r].i] \in Settled
          /\ status = "captured" => intents[request[r].b][request[r].i] = "succeeded"
        BY <1>c, <1>f, <2>1 DEF Seen, StatusOfSnapshot, Successful, IntentStates
    <2>3. /\ Record(request[r].b, request[r].i, status) /\ UNCHANGED <<intents, events>>
          /\ ~At(r, "cancel_record") /\ request[r].pc \notin {"retrieve", "intent"}
        BY <1>4 DEF RecordSnapshot, RecordReused, At, stripe
    <2> HIDE DEF status
    <2> QED
        BY <1>b, <1>c, <1>e, <2>1, <2>2, <2>3, HoldRecord
<1>5. CASE RecordCreated(r)
    <2>1. request[r].i \in Intents /\ ~At(r, "cancel_record") /\ request[r].pc \notin {"retrieve", "intent"}
        BY <1>c, <1>5 DEF RecordCreated, At, OnIntent
    <2> QED
        BY <1>5, <1>b, <1>c, <1>e, <2>1, HoldRecord DEF RecordCreated, stripe
<1>6. CASE RecordCancelled(r)
    <2>1. request[r].i \in Intents /\ request[r].pc \notin {"retrieve", "intent"}
        BY <1>c, <1>6 DEF RecordCancelled, At, OnIntent
    <2> QED
        BY <1>6, <1>b, <1>c, <1>e, <2>1, HoldRecord DEF RecordCancelled, stripe
<1>7. CASE CreateIntent(r)
    <2> DEFINE i == request[r].ref + 1
    <2>1. Steady /\ UNCHANGED payments
        BY <1>7, <1>e DEF CreateIntent, At, stores
    <2>2. CASE UNCHANGED stripe
        BY <2>1, <2>2, HoldSame DEF stripe
    <2>3. CASE /\ intents[request[r].b][i] = "none"
               /\ SetIntent(request[r].b, i, "requires_payment_method", "payment_intent_created")
        <3>1. i \in Intents
            BY <1>7 DEF CreateIntent
        <3> HIDE DEF i
        <3> QED
            BY <1>c, <2>1, <2>3, <3>1, HoldChange
    <2> QED
        BY <1>7, <2>2, <2>3 DEF CreateIntent
<1>8. CASE CancelIntent(r)
    <2>1. Steady /\ UNCHANGED payments
        BY <1>8, <1>e DEF CancelIntent, At, stores
    <2>2. CASE UNCHANGED stripe
        BY <2>1, <2>2, HoldSame DEF stripe
    <2>3. ASSUME NEW b \in Bookings, b = request[r].b, NEW i \in request[r].todo,
                 intents[b][i] \in Cancellable, SetIntent(b, i, "canceled", "payment_cancelled"),
                 request' = [request EXCEPT ![r].pc = "cancel_record", ![r].i = i]
          PROVE  HoldInv'
        <3>1. i \in Intents /\ intents[b][i] \notin {"succeeded", "canceled"}
            BY <1>c, <2>3 DEF Cancellable
        <3>2. \E q \in Requests : Releasing(q, b, i)'
            BY <1>a, <1>b, <2>3 DEF Releasing, At, TypeOK, Busy
        <3> QED
            BY <2>1, <2>3, <3>1, <3>2, HoldChange
    <2> QED
        BY <1>8, <1>c, <2>2, <2>3 DEF CancelIntent
<1> QED
    BY <1>1, <1>2, <1>3, <1>4, <1>5, <1>6, <1>7, <1>8 DEF Continue

LEMMA HoldStep == ~MayCrash /\ HoldInv /\ [Next]_vars => HoldInv'
<1> SUFFICES ASSUME ~MayCrash, HoldInv, [Next]_vars PROVE HoldInv'
    OBVIOUS
<1>a. RailInv /\ RailInv'
    BY RailStep DEF HoldInv
<1>1. ASSUME NEW b \in Bookings, NEW i \in Intents,
             AuthorizeCard(b, i) \/ DeclineCard(b, i) \/ CaptureHold(b, i)
      PROVE  HoldInv'
    <2>1. Steady /\ UNCHANGED payments
        BY <1>1 DEF AuthorizeCard, DeclineCard, CaptureHold, stores, Steady
    <2>2. CASE AuthorizeCard(b, i)
        BY <1>a, <2>1, <2>2, HoldChange DEF AuthorizeCard
    <2>3. CASE DeclineCard(b, i)
        BY <1>a, <2>1, <2>3, HoldChange DEF DeclineCard
    <2>4. CASE CaptureHold(b, i)
        BY <1>a, <2>1, <2>4, HoldChange DEF CaptureHold
    <2> QED
        BY <1>1, <2>2, <2>3, <2>4
<1>2. CASE Relist \/ UNCHANGED vars
    <2>1. UNCHANGED <<intents, events, payments, request>>
        BY <1>2 DEF Relist, vars, stores, stripe
    <2> QED
        BY <1>a, <2>1, HoldSame DEF Steady
<1> QED
    BY <1>a, <1>1, <1>2, HoldArrive, HoldContinue DEF Next, Environment, Crash

\* However webhooks, reconciliations, approvals and cancellations of a booking
\* interleave, on either store, for any number of intents and with cards that
\* decline: once no handler holds the booking's rail lock, a payment recorded
\* as held is held or captured at Stripe.  monotonicPaymentStatus keeps old
\* events from undoing a cancellation, and the handler that cancels at Stripe
\* records it before it lets the lock go.  No handler dies half way.
THEOREM HoldsAreReal == ASSUME ~MayCrash PROVE Spec => []NoPhantomHold
<1>1. Init => HoldInv
    <2> SUFFICES ASSUME Init PROVE HoldInv
        OBVIOUS
    <2>1. TypeOK
        BY RentalAssumption
           DEF Init, TypeOK, BookingStates, TripStates, VehicleStates, PaymentStates, IntentStates
    <2> QED
        BY <2>1 DEF Init, HoldInv, RailInv, OnRail, At, Idle, HoldRecords, HoldEvents, Gone, Seen, Looked
<1>2. HoldInv /\ [Next]_vars => HoldInv'
    BY HoldStep
<1>3. HoldInv => NoPhantomHold
    <2> SUFFICES ASSUME HoldInv, NEW b \in Bookings, NEW i \in Intents, railLock[b] = NoRequest,
                        payments[b][i] = "requires_capture"
                 PROVE  intents[b][i] \in Successful
        BY DEF NoPhantomHold
    <2>1. ~Gone(b, i)
        <3>1. ASSUME NEW r \in Requests, Releasing(r, b, i) PROVE FALSE
            BY <3>1, RentalAssumption DEF HoldInv, RailInv, OnRail, Releasing, At, OnCancel, Rails
        <3> QED
            BY <3>1 DEF HoldInv, HoldRecords
    <2> QED
        BY <2>1 DEF HoldInv, HoldRecords, Settled, Gone
<1> QED
    BY <1>1, <1>2, <1>3, PTL DEF Spec

-----------------------------------------------------------------------------
(* Cancelled bookings.  Without the routes that write back a state, only a   *)
(* cancellation gets to updateBookingState, and what else is written to a    *)
(* booking depends on its state at that moment, if the store is atomic.      *)

Updating == {"update", "update_write"}

WriteInv ==
    /\ RailInv /\ DatesInv
    /\ \A r \in Requests : request[r].pc \in Updating => request[r].op = "cancel"

LEMMA WriteStep == NoRevival /\ WriteInv /\ [Next]_vars => WriteInv'
<1> SUFFICES ASSUME NoRevival, WriteInv, [Next]_vars PROVE WriteInv'
    OBVIOUS
<1>a. TypeOK /\ RailInv /\ DatesInv /\ RailInv' /\ DatesInv'
    BY RailStep, DatesStep DEF WriteInv, DatesInv
<1> DEFINE Kept == \A q \in Requests :
              request'[q] = request[q] \/ (request'[q].pc \in Updating => request'[q].op = "cancel")
<1>b. ASSUME Kept PROVE WriteInv'
    BY <1>a, <1>b DEF WriteInv
<1>1. ASSUME NEW r \in Requests, Continue(r) PROVE WriteInv'
    <2>1. Only(r) /\ (Finish(r) \/ GoesOn(r))
        BY <1>a, <1>1, ContinueShape
    <2>2. CASE Finish(r)
        BY <1>a, <1>b, <2>2, FinishOnly DEF Only, Idle, Updating
    <2>3. CASE GoesOn(r)
        <3>1. request'[r].pc \in Updating => request[r].pc \in Updating \cup {"cancel"}
            BY <1>a, <2>3 DEF GoesOn, Follows, Updating, DatesInv, Harmless
        <3>2. At(r, "cancel") => request[r].op = "cancel"
            BY <1>a DEF RailInv, OnRail, OnCancel, At
        <3>3. request'[r].pc \in Updating => request'[r].op = "cancel"
            BY <2>3, <3>1, <3>2 DEF WriteInv, GoesOn, At
        <3> QED
            BY <1>b, <2>1, <3>3 DEF Only
    <2> QED
        BY <2>1, <2>2, <2>3
<1>2. ASSUME NEW r \in Requests, Crash(r) PROVE WriteInv'
    BY <1>a, <1>b, <1>2, FinishOnly DEF Crash, Only, Idle, Updating
<1>3. ASSUME NEW r \in Requests, Arrive(r) PROVE WriteInv'
    <2>1. Only(r) /\ (Entered(r) \/ request' = request)
        BY <1>a, <1>3, ArriveShape
    <2>2. CASE request' = request
        BY <1>b, <2>2
    <2>3. CASE Entered(r) /\ request'[r].pc \notin Updating
        BY <1>b, <2>1, <2>3 DEF Only
    <2>4. CASE Entered(r) /\ request'[r].pc \in Updating
        <3>1. request'[r].op \in {"confirm", "incident", "claim"}
            BY <2>4 DEF Entered, Enters, Updating
        <3>2. ASSUME NEW b \in Bookings, Confirm(r, b)
              PROVE  FALSE
            <4>1. Start(r, "confirm", b, "vehicle", "none", 0)
                BY <1>a, <3>2 DEF Confirm, DatesInv
            <4>2. request'[r] = Activation("confirm", b, "vehicle", "none", 0)
                BY <1>a, <4>1, StartOnly
            <4> QED
                BY <2>4, <4>2 DEF Activation, Updating
        <3>3. ASSUME NEW b \in Bookings, Incident(r, b) \/ Claim(r, b) \/ CheckIn(r, b) \/ CheckOut(r, b)
              PROVE  FALSE
            BY <3>3 DEF Incident, Claim, CheckIn, CheckOut, Start, NoRevival
        <3>4. ASSUME NEW op, op \notin {"confirm", "incident", "claim"}, NEW b, NEW pc, NEW target, NEW i,
                     Start(r, op, b, pc, target, i)
              PROVE  FALSE
            <4>1. request'[r] = Activation(op, b, pc, target, i)
                BY <1>a, <3>4, StartOnly
            <4> QED
                BY <3>1, <3>4, <4>1 DEF Activation
        <3>5. ASSUME NEW b \in Bookings, Approve(r, b) \/ PaymentIntents(r, b) \/ Cancel(r, b)
              PROVE  FALSE
            BY <3>4, <3>5 DEF Approve, PaymentIntents, Cancel, StartLocked
        <3>6. ASSUME NEW b \in Bookings, NEW i \in Intents, Reconcile(r, b, i)
              PROVE  FALSE
            BY <3>4, <3>6 DEF Reconcile, StartUnlocked
        <3>7. ASSUME NEW b \in Bookings, NEW eligible \in Eligibility, Checkout(r, b, eligible)
              PROVE  FALSE
            BY <1>a, <2>4, <3>7 DEF Checkout, Activation, TypeOK, Updating
        <3>8. ASSUME NEW e \in events, Webhook(r, e)
              PROVE  FALSE
            BY <1>a, <2>4, <3>8 DEF Webhook, Activation, TypeOK, Updating, Entered, At
        <3> QED
            BY <1>3, <3>2, <3>3, <3>5, <3>6, <3>7, <3>8 DEF Arrive
    <2> QED
        BY <2>1, <2>2, <2>3, <2>4
<1>4. CASE Environment \/ UNCHANGED vars
    <2>1. UNCHANGED request
        BY <1>4 DEF Environment, AuthorizeCard, DeclineCard, CaptureHold, Relist, vars
    <2> QED
        BY <1>b, <2>1
<1> QED
    BY <1>1, <1>2, <1>3, <1>4 DEF Next

\* What a handler may write to a booking.
Written(r, b) ==
    \/ bookings'[b] = bookings[b]
    \/ /\ At(r, "create") /\ request[r].b = b
       /\ bookings'[b].state = "pending_payment_authorization"
       /\ bookings'[b].ref = bookings[b].ref
    \/ /\ request[r].pc \in Updating /\ request[r].b = b
       /\ bookings'[b].state = "cancelled"
       /\ AtomicStore => bookings'[b].ref = bookings[b].ref
    \/ /\ request[r].pc \in {"confirm", "confirm_write"} /\ request[r].b = b
       /\ bookings'[b].state \in {"confirmed", "host_review"}
       /\ At(r, "confirm") =>
             /\ bookings[b].state \in Confirmable
             /\ \/ bookings'[b].ref = bookings[b].ref
                \/ /\ request[r].op \in {"webhook", "reconcile", "intent"}
                   /\ bookings'[b].ref = request[r].i

LEMMA BookingWrites ==
    ASSUME DatesInv, NEW r \in Requests, Continue(r), NEW b \in Bookings
    PROVE  Written(r, b)
<1>a. TypeOK /\ Harmless(r)
    BY DEF DatesInv
<1>b. request[r] \in Busy
    BY <1>a, BusyContinues
<1>c. request[r].b \in Bookings
    BY <1>a, <1>b, BusyFields
<1>1. CASE CreateBooking(r)
    <2>1. request[r].target = "pending_payment_authorization"
        BY <1>a, <1>1 DEF CreateBooking, At, Harmless
    <2> QED
        BY <1>a, <1>c, <1>1, <2>1 DEF CreateBooking, Written, TypeOK
<1>2. CASE UpdateBookingState(r)
    <2>1. request[r].target = "cancelled" /\ request[r].pc \in Updating
        BY <1>a, <1>2 DEF UpdateBookingState, At, Harmless, Updating
    <2>2. CASE UNCHANGED stores
        BY <2>2 DEF stores, Written
    <2>3. CASE bookings' = [bookings EXCEPT ![request[r].b] =
                 [state |-> request[r].target,
                  ref   |-> IF AtomicStore THEN @.ref ELSE request[r].ref]]
        BY <1>a, <1>c, <2>1, <2>3 DEF Written, TypeOK
    <2> QED
        BY <1>2, <2>2, <2>3 DEF UpdateBookingState
<1>3. CASE ConfirmBooking(r)
    <2>1. CASE UNCHANGED stores
        BY <2>1 DEF stores, Written
    <2>2. ASSUME NEW current, WriteConfirmed(r, current)
          PROVE  \/ bookings'[b] = bookings[b]
                 \/ request[r].b = b /\ bookings'[b] = ConfirmedBooking(r, current)
        BY <1>a, <1>c, <2>2 DEF WriteConfirmed, TypeOK
    <2>3. ASSUME NEW current
          PROVE  /\ ConfirmedBooking(r, current).state \in {"confirmed", "host_review"}
                 /\ ConfirmedBooking(r, current).ref =
                       IF request[r].op \in {"webhook", "reconcile", "intent"} THEN request[r].i
                       ELSE current.ref
        BY DEF ConfirmedBooking
    <2>4. CASE At(r, "confirm") /\ bookings[request[r].b].state \in Confirmable
               /\ WriteConfirmed(r, bookings[request[r].b])
        BY <2>2, <2>3, <2>4 DEF Written, At
    <2>5. CASE At(r, "confirm_write")
               /\ WriteConfirmed(r, [state |-> request[r].state, ref |-> request[r].ref])
        BY <2>2, <2>3, <2>5 DEF Written, At
    <2> QED
        BY <1>3, <2>1, <2>4, <2>5 DEF ConfirmBooking
<1>4. CASE ~CreateBooking(r) /\ ~UpdateBookingState(r) /\ ~ConfirmBooking(r)
    <2>1. UNCHANGED bookings
        BY <1>4 DEF Continue, ReadVehicle, Advance, WriteVehicle, RetrieveIntent, RecordSnapshot,
               CheckIntentVehicle, ListIntents, ReuseIntent, RecordReused, CreateIntent,
               OutOfIntents, RecordCreated, ListCancellable, CancelIntent, RecordCancelled,
               FinishCancel, TripCheckIn, TripCheckOut, stores
    <2> QED
        BY <2>1 DEF Written
<1> QED
    BY <1>1, <1>2, <1>3, <1>4

FinalInv ==
    /\ WriteInv
    /\ \A r \in Requests : At(r, "create") => bookings[request[r].b].state = "none"
    /\ \A q, r \in Requests :
          At(q, "create") /\ At(r, "create") /\ request[q].b = request[r].b => q = r
    /\ \A r \in Requests : request[r].pc \notin {"update_write", "confirm_write"}
    /\ \A r \in Requests : ~At(r, "idle") /\ request[r].op = "cancel" =>
          bookings[request[r].b].state # "none"

\* A step of a request that creates nothing leaves the checkouts as they are.
LEMMA FinalKept ==
    ASSUME FinalInv, WriteInv', NEW r \in Requests, Only(r),
           \A b \in Bookings : bookings[b].state = "none" =>
               bookings'[b].state = "none" \/ (At(r, "create") /\ request[r].b = b),
           \A b \in Bookings : bookings[b].state # "none" => bookings'[b].state # "none",
           request'[r].pc \notin {"create", "update_write", "confirm_write"},
           ~At(r, "idle")' /\ request'[r].op = "cancel" =>
               request'[r].b \in Bookings /\ bookings[request'[r].b].state # "none"
    PROVE  FinalInv'
<1>0. TypeOK
    BY DEF FinalInv, WriteInv, RailInv
<1>1. \A q \in Requests : ~At(q, "idle") => request[q].b \in Bookings
    BY <1>0, BusyFields DEF TypeOK, At, Idle
<1>2. ASSUME NEW q \in Requests, At(q, "create")'
      PROVE  q # r /\ At(q, "create") /\ request'[q] = request[q] /\ (bookings[request[q].b].state = "none")'
    <2>1. q # r /\ request'[q] = request[q] /\ At(q, "create")
        BY <1>2 DEF Only, At
    <2>2. request[q].b \in Bookings /\ bookings[request[q].b].state = "none"
        BY <1>1, <2>1 DEF FinalInv, At
    <2>3. ~(At(r, "create") /\ request[r].b = request[q].b)
        BY <2>1 DEF FinalInv
    <2> QED
        BY <2>1, <2>2, <2>3
<1>3. \A q, s \in Requests :
         At(q, "create")' /\ At(s, "create")' /\ (request[q].b = request[s].b)' => q = s
    BY <1>2 DEF FinalInv
<1>4. \A q \in Requests : request'[q].pc \notin {"update_write", "confirm_write"}
    BY DEF FinalInv, Only
<1>5. ASSUME NEW q \in Requests, ~At(q, "idle")', request'[q].op = "cancel"
      PROVE  bookings'[request'[q].b].state # "none"
    <2>1. CASE q = r
        BY <1>5, <2>1
    <2>2. CASE q # r
        <3>1. request'[q] = request[q] /\ ~At(q, "idle") /\ request[q].op = "cancel"
            BY <1>5, <2>2 DEF Only, At
        <3> QED
            BY <1>1, <3>1 DEF FinalInv
    <2> QED
        BY <2>1, <2>2
<1> QED
    BY <1>2, <1>3, <1>4, <1>5 DEF FinalInv

LEMMA FinalStep == NoRevival /\ AtomicStore /\ FinalInv /\ [Next]_vars => FinalInv'
<1> SUFFICES ASSUME NoRevival, AtomicStore, FinalInv, [Next]_vars PROVE FinalInv'
    OBVIOUS
<1>a. TypeOK /\ DatesInv /\ RailInv /\ WriteInv /\ WriteInv'
    BY WriteStep DEF FinalInv, WriteInv, RailInv
<1>1. ASSUME NEW r \in Requests, Continue(r) PROVE FinalInv'
    <2>1. Only(r) /\ (Finish(r) \/ GoesOn(r)) /\ request[r] \in Busy
        BY <1>a, <1>1, ContinueShape, BusyContinues
    <2>2. request[r].pc \notin {"idle", "update_write", "confirm_write"}
        BY <2>1 DEF FinalInv, Busy, ProgramCounters
    <2>3. request'[r].pc \notin {"update_write", "confirm_write"}
        <3>1. CASE UpdateBookingState(r)
            <4>1. AfterUpdate(r)
                BY <2>2, <3>1 DEF UpdateBookingState, At
            <4> QED
                BY <1>a, <2>1, <4>1, FinishOnly DEF AfterUpdate, Proceed, Goto, TypeOK, Busy, Idle
        <3>2. CASE ConfirmBooking(r)
            <4>1. Finish(r)
                BY <2>2, <3>2 DEF ConfirmBooking, WriteConfirmed, At
            <4> QED
                BY <1>a, <4>1, FinishOnly DEF Idle
        <3>3. CASE ~UpdateBookingState(r) /\ ~ConfirmBooking(r)
            <4>1. request[r].pc \notin {"update", "confirm"}
                BY <1>1, <3>3 DEF Continue, CreateBooking, ReadVehicle, Advance, WriteVehicle, RetrieveIntent,
                       RecordSnapshot, CheckIntentVehicle, ListIntents, ReuseIntent, RecordReused,
                       CreateIntent, OutOfIntents, RecordCreated, ListCancellable, CancelIntent,
                       RecordCancelled, FinishCancel, TripCheckIn, TripCheckOut, At
            <4> QED
                BY <1>a, <2>1, <4>1, FinishOnly DEF GoesOn, Follows, Idle
        <3> QED
            BY <3>1, <3>2, <3>3
    <2>4. request'[r].pc # "create"
        BY <1>a, <2>1, FinishOnly DEF GoesOn, Follows, Idle
    <2>5. ASSUME NEW b \in Bookings PROVE Written(r, b)
        BY <1>a, <1>1, BookingWrites
    <2>6. \A b \in Bookings : bookings[b].state # "none" => bookings'[b].state # "none"
        BY <2>5 DEF Written
    <2>7. ASSUME NEW b \in Bookings, bookings[b].state = "none"
          PROVE  bookings'[b].state = "none" \/ (At(r, "create") /\ request[r].b = b)
        <3>1. request[r].pc \in Updating /\ request[r].b = b => FALSE
            BY <2>2, <2>7 DEF FinalInv, WriteInv, At
        <3>2. At(r, "confirm") /\ bookings[b].state \in Confirmable => FALSE
            BY <2>7 DEF Confirmable
        <3> QED
            BY <2>2, <2>5, <2>7, <3>1, <3>2 DEF Written, At
    <2>8. ~At(r, "idle")' /\ request'[r].op = "cancel" =>
             request'[r].b \in Bookings /\ bookings[request'[r].b].state # "none"
        <3>1. CASE Finish(r)
            BY <1>a, <3>1, FinishOnly DEF At, Idle
        <3>2. CASE GoesOn(r)
            BY <1>a, <2>1, <2>2, <3>2, BusyFields DEF GoesOn, At, FinalInv
        <3> QED
            BY <2>1, <3>1, <3>2
    <2> QED
        BY <1>a, <2>1, <2>3, <2>4, <2>6, <2>7, <2>8, FinalKept
<1>2. ASSUME NEW r \in Requests, Crash(r) PROVE FinalInv'
    <2>1. UNCHANGED bookings /\ Only(r) /\ request'[r] = Idle
        BY <1>a, <1>2, FinishOnly DEF Crash, stores
    <2> QED
        BY <1>a, <2>1, FinalKept DEF Idle, At
<1>3. ASSUME NEW r \in Requests, Arrive(r) PROVE FinalInv'
    <2>1. Only(r) /\ (Entered(r) \/ request' = request)
        BY <1>a, <1>3, ArriveShape
    <2>2. UNCHANGED bookings
        BY <1>3 DEF Arrive, Checkout, Confirm, Approve, PaymentIntents, Cancel, CheckIn, CheckOut,
               Incident, Claim, Reconcile, Webhook, stores
    <2>3. CASE request' = request
        BY <1>a, <2>2, <2>3 DEF FinalInv, At
    <2>4. CASE Entered(r) /\ request'[r].pc # "create"
        <3>1. request'[r].pc \notin {"create", "update_write", "confirm_write"}
            BY <2>4 DEF Entered, Enters
        <3>2. request'[r].op = "cancel" => bookings[request'[r].b].state # "none"
            <4>1. ASSUME NEW op, NEW b, NEW pc, NEW target, NEW i, Start(r, op, b, pc, target, i)
                  PROVE  bookings[request'[r].b].state # "none"
                <5>1. request'[r] = Activation(op, b, pc, target, i)
                    BY <1>a, <4>1, StartOnly
                <5>2. request'[r].b = b
                    BY <5>1 DEF Activation
                <5>3. bookings[b].state # "none"
                    BY <4>1 DEF Start
                <5> QED
                    BY <5>2, <5>3
            <4>2. ASSUME NEW b \in Bookings, NEW eligible \in Eligibility, Checkout(r, b, eligible)
                  PROVE  request'[r].op # "cancel"
                BY <1>a, <4>2 DEF Checkout, Activation, TypeOK
            <4>3. ASSUME NEW e \in events, Webhook(r, e)
                  PROVE  request'[r].op # "cancel"
                BY <1>a, <2>4, <4>3 DEF Webhook, Activation, TypeOK, Entered, At, Enters
            <4> QED
                BY <1>3, <4>1, <4>2, <4>3
                   DEF Arrive, Confirm, Approve, PaymentIntents, Cancel, CheckIn, CheckOut,
                       Incident, Claim, Reconcile, StartLocked, StartUnlocked
        <3> QED
            BY <1>a, <2>1, <2>2, <2>4, <3>1, <3>2, FinalKept DEF Entered
    <2>5. CASE Entered(r) /\ request'[r].pc = "create"
        <3>1. request'[r].op = "checkout"
            BY <2>5 DEF Entered, Enters
        <3>2. PICK b \in Bookings, eligible \in Eligibility : Checkout(r, b, eligible)
            <4>1. ASSUME NEW op, NEW b, NEW pc, NEW target, NEW i, op # "checkout", Start(r, op, b, pc, target, i)
                  PROVE  FALSE
                <5>1. request'[r] = Activation(op, b, pc, target, i)
                    BY <1>a, <4>1, StartOnly
                <5> QED
                    BY <3>1, <4>1, <5>1 DEF Activation
            <4>2. ASSUME NEW e \in events, Webhook(r, e) PROVE FALSE
                BY <1>a, <3>1, <2>5, <4>2 DEF Webhook, Activation, TypeOK, Entered, At
            <4> QED
                BY <1>3, <4>1, <4>2
                   DEF Arrive, Confirm, Approve, PaymentIntents, Cancel, CheckIn, CheckOut,
                       Incident, Claim, Reconcile, StartLocked, StartUnlocked
        <3>3. request'[r].b = b /\ bookings[b].state = "none"
              /\ \A q \in Requests : At(q, "create") => request[q].b # b
            BY <1>a, <3>2 DEF Checkout, Activation, TypeOK
        <3>4. \A q \in Requests : At(q, "create")' => q = r \/ (At(q, "create") /\ request'[q] = request[q])
            BY <2>1 DEF Only, At
        <3>5. \A q \in Requests : q # r => request'[q] = request[q]
            BY <2>1 DEF Only
        <3>6. \A q \in Requests : At(q, "create")' => bookings'[request'[q].b].state = "none"
            BY <2>2, <3>3, <3>4 DEF FinalInv
        <3>7. \A q, s \in Requests :
                 At(q, "create")' /\ At(s, "create")' /\ request'[q].b = request'[s].b => q = s
            BY <3>3, <3>4 DEF FinalInv
        <3>8. \A q \in Requests : request'[q].pc \notin {"update_write", "confirm_write"}
            BY <2>5, <3>5 DEF FinalInv
        <3>9. \A q \in Requests : ~At(q, "idle")' /\ request'[q].op = "cancel" =>
                 bookings'[request'[q].b].state # "none"
            BY <2>2, <3>1, <3>5 DEF FinalInv, At
        <3> QED
            BY <1>a, <3>6, <3>7, <3>8, <3>9 DEF FinalInv
    <2> QED
        BY <2>1, <2>3, <2>4, <2>5
<1>4. CASE Environment \/ UNCHANGED vars
    <2>1. UNCHANGED <<request, bookings>>
        BY <1>4 DEF Environment, AuthorizeCard, DeclineCard, CaptureHold, Relist, vars, stores
    <2> QED
        BY <1>a, <2>1 DEF FinalInv, At
<1> QED
    BY <1>1, <1>2, <1>3, <1>4 DEF Next

LEMMA StaysCancelled ==
    ASSUME FinalInv, [Next]_vars, NEW b \in Bookings, bookings[b].state = "cancelled"
    PROVE  bookings'[b].state = "cancelled"
<1>a. DatesInv
    BY DEF FinalInv, WriteInv
<1>1. ASSUME NEW r \in Requests, Continue(r) PROVE bookings'[b].state = "cancelled"
    <2>1. Written(r, b)
        BY <1>a, <1>1, BookingWrites
    <2>2. request[r].pc \notin {"update_write", "confirm_write"}
          /\ ~(At(r, "create") /\ request[r].b = b)
        BY DEF FinalInv
    <2> QED
        BY <2>1, <2>2 DEF Written, Confirmable, At
<1>2. CASE \/ \E r \in Requests : Arrive(r) \/ Crash(r)
           \/ Environment \/ UNCHANGED vars
    <2>1. UNCHANGED bookings
        BY <1>2 DEF Arrive, Checkout, Confirm, Approve, PaymentIntents, Cancel, CheckIn, CheckOut,
               Incident, Claim, Reconcile, Webhook, Crash, Environment, AuthorizeCard,
               DeclineCard, CaptureHold, Relist, stores, vars
    <2> QED
        BY <2>1
<1> QED
    BY <1>1, <1>2 DEF Next

\* On the atomic store, and without the routes that write a state back, a
\* booking that was cancelled stays cancelled, however webhooks, approvals and
\* confirmations of it interleave and wherever they die: createBooking and
\* confirmBooking look at the booking's state in the step that writes it.
THEOREM CancelledStaysCancelled == ASSUME NoRevival, AtomicStore PROVE Spec => CancelledIsFinal
<1>1. Init => FinalInv
    <2> SUFFICES ASSUME Init PROVE FinalInv
        OBVIOUS
    <2>1. TypeOK
        BY RentalAssumption
           DEF Init, TypeOK, BookingStates, TripStates, VehicleStates, PaymentStates, IntentStates
    <2>2. NoDoubleBooking
        BY DEF Init, NoDoubleBooking, ACTIVE_BOOKING_STATES
    <2>3. DatesInv
        BY <2>1, <2>2 DEF Init, DatesInv, Harmless, Idle
    <2> QED
        BY <2>1, <2>3 DEF Init, FinalInv, WriteInv, RailInv, OnRail, At, Idle, Updating
<1>2. FinalInv /\ [Next]_vars => FinalInv'
    BY FinalStep
<1>3. FinalInv /\ [Next]_vars =>
         [\A b \in Bookings : bookings[b].state = "cancelled" =>
             bookings'[b].state \in {"cancelled", "closed", "disputed"}]_vars
    BY StaysCancelled
<1> QED
    BY <1>1, <1>2, <1>3, PTL DEF Spec, CancelledIsFinal

-----------------------------------------------------------------------------
(* What a cancellation finds.  Every intent of a booking has its record, or  *)
(* the handler that created it is about to file it; without declined cards   *)
(* no record says that a payment failed.                                     *)

Creating(r, b, i) == At(r, "new_record") /\ request[r].b = b /\ request[r].i = i

Named(r) == request[r].pc \in Looked => request[r].snapshot # "none"

Filed ==
    /\ \A b \in Bookings, i \in Intents :
          /\ payments[b][i] # "failed"
          /\ Known(b, i) => payments[b][i] # "none" \/ \E r \in Requests : Creating(r, b, i)
    /\ \A e \in events : e[3] # "payment_failed"

FiledInv == IntentInv /\ HoldInv /\ Filed /\ \A r \in Requests : Named(r)

\* Nobody gives up an intent he has not filed.
Sure == \A q \in Requests :
    request'[q] = request[q] \/ (~At(q, "new_record") /\ Named(q)')

LEMMA FiledSame ==
    ASSUME FiledInv, IntentInv', HoldInv', UNCHANGED <<intents, events, payments>>, Sure
    PROVE  FiledInv'
<1>1. \A q \in Requests, b \in Bookings, i \in Intents : Creating(q, b, i) => Creating(q, b, i)'
    BY DEF Sure, Creating, At
<1>2. Filed'
    BY <1>1 DEF FiledInv, Filed, Known
<1>3. \A q \in Requests : Named(q)'
    BY DEF FiledInv, Sure, Named
<1> QED
    BY <1>2, <1>3 DEF FiledInv

LEMMA FiledRecord ==
    ASSUME FiledInv, IntentInv', HoldInv', UNCHANGED <<intents, events>>,
           NEW b \in Bookings, NEW i \in Intents, NEW status, Record(b, i, status),
           status \notin {"none", "failed"}, NEW r \in Requests, Only(r), Named(r)',
           At(r, "new_record") => request[r].b = b /\ request[r].i = i
    PROVE  FiledInv'
<1>0. TypeOK
    BY DEF FiledInv, IntentInv
<1>1. \A c \in Bookings, j \in Intents :
         payments'[c][j] = IF c = b /\ j = i THEN MonotonicPaymentStatus(payments[c][j], status)
                                             ELSE payments[c][j]
    BY <1>0 DEF TypeOK, Record
<1>2. payments'[b][i] \notin {"none", "failed"}
    BY <1>1 DEF MonotonicPaymentStatus, FiledInv, Filed
<1>3. ASSUME NEW c \in Bookings, NEW j \in Intents
      PROVE  /\ payments'[c][j] # "failed"
             /\ Known(c, j)' => payments'[c][j] # "none" \/ \E q \in Requests : Creating(q, c, j)'
    <2>1. CASE c = b /\ j = i
        BY <1>2, <2>1
    <2>2. CASE ~(c = b /\ j = i)
        <3>1. payments'[c][j] = payments[c][j] /\ (Known(c, j)' => Known(c, j))
            BY <1>1, <2>2 DEF Known
        <3>2. ASSUME NEW q \in Requests, Creating(q, c, j) PROVE Creating(q, c, j)'
            BY <2>2, <3>2 DEF Creating, Only, At
        <3> QED
            BY <3>1, <3>2 DEF FiledInv, Filed
    <2> QED
        BY <2>1, <2>2
<1>4. Filed'
    BY <1>3 DEF FiledInv, Filed
<1>5. \A q \in Requests : Named(q)'
    BY DEF FiledInv, Only, Named
<1> QED
    BY <1>4, <1>5 DEF FiledInv

LEMMA FiledChange ==
    ASSUME FiledInv, IntentInv', HoldInv', UNCHANGED payments, Sure,
           NEW b \in Bookings, NEW i \in Intents, NEW status, NEW kind,
           SetIntent(b, i, status, kind), kind # "payment_failed",
           Known(b, i) \/ \E r \in Requests : Creating(r, b, i)'
    PROVE  FiledInv'
<1>0. TypeOK
    BY DEF FiledInv, IntentInv
<1>1. \A c \in Bookings, j \in Intents : Known(c, j)' => Known(c, j) \/ (c = b /\ j = i)
    BY <1>0 DEF TypeOK, SetIntent, Known
<1>2. \A q \in Requests, c \in Bookings, j \in Intents : Creating(q, c, j) => Creating(q, c, j)'
    BY DEF Sure, Creating, At
<1>3. Filed'
    BY <1>1, <1>2 DEF FiledInv, Filed, SetIntent
<1>4. \A q \in Requests : Named(q)'
    BY DEF FiledInv, Sure, Named
<1> QED
    BY <1>3, <1>4 DEF FiledInv

LEMMA FiledArrive ==
    ASSUME FiledInv, IntentInv', HoldInv', NEW r \in Requests, Arrive(r)
    PROVE  FiledInv'
<1>a. TypeOK
    BY DEF FiledInv, IntentInv
<1>b. Only(r) /\ (Entered(r) \/ UNCHANGED <<request, railLock>>)
    BY <1>a, ArriveShape
<1>d. Sure /\ Named(r)'
    <2>1. CASE UNCHANGED request
        BY <2>1 DEF Sure, Named, FiledInv
    <2>2. CASE Entered(r)
        BY <1>b, <2>2 DEF Only, Entered, Enters, At, Looked, Sure, Named
    <2> QED
        BY <1>b, <2>1, <2>2
<1>1. ASSUME NEW e \in events, Webhook(r, e) PROVE FiledInv'
    <2>1. e[1] \in Bookings /\ e[2] \in Intents /\ e[3] \in EventKinds
        BY <1>a DEF TypeOK
    <2>2. StatusOfEvent(e[3]) \notin {"none", "failed"}
        BY <2>1 DEF FiledInv, Filed, StatusOfEvent, EventKinds
    <2>3. ~At(r, "new_record")
        BY <1>1 DEF Webhook, At
    <2> QED
        BY <1>1, <1>b, <1>d, <2>1, <2>2, <2>3, FiledRecord DEF Webhook
<1>2. CASE ~\E e \in events : Webhook(r, e)
    <2>1. UNCHANGED <<intents, events, payments>>
        BY <1>2 DEF Arrive, Checkout, Confirm, Approve, PaymentIntents, Cancel, CheckIn, CheckOut,
               Incident, Claim, Reconcile, stores, stripe
    <2> QED
        BY <1>d, <2>1, FiledSame
<1> QED
    BY <1>1, <1>2

LEMMA FiledContinue ==
    ASSUME FiledInv, IntentInv', HoldInv', NEW r \in Requests, Continue(r)
    PROVE  FiledInv'
<1>a. TypeOK
    BY DEF FiledInv, IntentInv
<1>b. request[r] \in Busy /\ Only(r) /\ (Finish(r) \/ GoesOn(r))
    BY <1>a, BusyContinues, ContinueShape
<1>c. /\ request[r].b \in Bookings /\ request[r].todo \subseteq Intents
      /\ request[r].snapshot \in IntentStates
      /\ request[r].pc \in OnIntent => request[r].i \in Intents
    BY <1>a, <1>b, BusyFields
<1>d. request[r].pc \notin {"retrieve", "intent"} => Named(r)'
    BY <1>a, <1>b, FinishOnly DEF GoesOn, Follows, Looked, Idle, Named
<1>e. ~At(r, "new_record") /\ Named(r)' => Sure
    BY <1>b DEF Only, Sure
<1>f. Named(r) /\ RequestSound(r)
    BY DEF FiledInv, IntentInv
<1>1. CASE \/ CreateBooking(r) \/ UpdateBookingState(r) \/ ConfirmBooking(r)
           \/ ReadVehicle(r) \/ Advance(r) \/ WriteVehicle(r) \/ CheckIntentVehicle(r)
           \/ ListIntents(r) \/ OutOfIntents(r) \/ ListCancellable(r) \/ FinishCancel(r)
           \/ TripCheckIn(r) \/ TripCheckOut(r)
    <2>1. UNCHANGED <<intents, events, payments>>
        BY <1>1 DEF CreateBooking, UpdateBookingState, ConfirmBooking, WriteConfirmed, ReadVehicle,
               Advance, WriteVehicle, CheckIntentVehicle, ListIntents, OutOfIntents,
               ListCancellable, FinishCancel, TripCheckIn, TripCheckOut, stores, stripe
    <2>2. request[r].pc \notin {"new_record", "retrieve", "intent"}
        BY <1>1 DEF CreateBooking, UpdateBookingState, ConfirmBooking, ReadVehicle,
               Advance, WriteVehicle, CheckIntentVehicle, ListIntents, OutOfIntents,
               ListCancellable, FinishCancel, TripCheckIn, TripCheckOut, At
    <2> QED
        BY <1>d, <1>e, <2>1, <2>2, FiledSame DEF At
\* What is looked up at Stripe exists there.
<1>2. CASE RetrieveIntent(r)
    <2>1. intents[request[r].b][request[r].i] # "none" /\ ~At(r, "new_record")
        BY <1>2, <1>f DEF RetrieveIntent, At, RequestSound, OnIntent, Known
    <2>2. request'[r].snapshot = intents[request[r].b][request[r].i]
        BY <1>a, <1>b, <1>2 DEF RetrieveIntent, TypeOK, Busy
    <2>3. Sure
        BY <1>e, <2>1, <2>2 DEF Named
    <2> QED
        BY <1>2, <2>3, FiledSame DEF RetrieveIntent, stores, stripe
<1>3. CASE ReuseIntent(r)
    <2>1. UNCHANGED <<intents, events, payments>> /\ ~At(r, "new_record")
        BY <1>3 DEF ReuseIntent, At, stores, stripe
    <2>2. ASSUME NEW i, NEW snapshot \in Successful, NEW authorized \in BOOLEAN,
                 request' = [request EXCEPT ![r].i = i, ![r].snapshot = snapshot,
                     ![r].todo = {}, ![r].pc = IF authorized THEN "advance" ELSE "intent_record"]
          PROVE  Named(r)'
        <3>1. request'[r].snapshot = snapshot
            BY <1>a, <1>b, <2>2 DEF TypeOK, Busy
        <3> QED
            BY <3>1 DEF Named, Successful
    <2>3. ASSUME NEW todo, TryNext(r, todo) PROVE Named(r)'
        <3>1. request'[r].pc \in {"new_intent", "intent"}
            BY <1>a, <1>b, <2>3 DEF TryNext, TypeOK, Busy
        <3> QED
            BY <3>1 DEF Named, Looked
    <2>4. Finish(r) => Named(r)'
        BY <1>a, FinishOnly DEF Named, Looked, Idle
    <2>5. Named(r)'
        BY <1>3, <2>2, <2>3, <2>4 DEF ReuseIntent
    <2> QED
        BY <1>e, <2>1, <2>5, FiledSame
<1>4. CASE RecordSnapshot(r) \/ RecordReused(r)
    <2> DEFINE status == StatusOfSnapshot(request[r].snapshot)
    <2>1. request[r].pc \in Looked /\ request[r].i \in Intents
        BY <1>c, <1>4 DEF RecordSnapshot, RecordReused, At, Looked, OnIntent
    <2>2. status \notin {"none", "failed"}
        BY <1>c, <1>f, <2>1 DEF Named, StatusOfSnapshot, IntentStates
    <2>3. /\ Record(request[r].b, request[r].i, status) /\ UNCHANGED <<intents, events>>
          /\ ~At(r, "new_record") /\ request[r].pc \notin {"retrieve", "intent"}
        BY <1>4 DEF RecordSnapshot, RecordReused, At, stripe
    <2> HIDE DEF status
    <2> QED
        BY <1>b, <1>c, <1>d, <2>1, <2>2, <2>3, FiledRecord
<1>5. CASE RecordCreated(r)
    <2>1. request[r].i \in Intents /\ request[r].pc \notin {"retrieve", "intent"}
        BY <1>c, <1>5 DEF RecordCreated, At, OnIntent
    <2> QED
        BY <1>5, <1>b, <1>c, <1>d, <2>1, FiledRecord DEF RecordCreated, stripe
<1>6. CASE RecordCancelled(r)
    <2>1. request[r].i \in Intents /\ request[r].pc \notin {"retrieve", "intent"} /\ ~At(r, "new_record")
        BY <1>c, <1>6 DEF RecordCancelled, At, OnIntent
    <2> QED
        BY <1>6, <1>b, <1>c, <1>d, <2>1, FiledRecord DEF RecordCancelled, stripe
<1>7. CASE CreateIntent(r)
    <2>1. Sure /\ UNCHANGED payments
        BY <1>7, <1>d, <1>e DEF CreateIntent, At, stores
    <2>2. CASE UNCHANGED stripe
        BY <2>1, <2>2, FiledSame DEF stripe
    <2>3. ASSUME NEW b \in Bookings, b = request[r].b, NEW i \in Intents, i = request[r].ref + 1,
                 SetIntent(b, i, "requires_payment_method", "payment_intent_created")
          PROVE  FiledInv'
        <3>1. \E q \in Requests : Creating(q, b, i)'
            BY <1>a, <1>b, <1>7, <2>3 DEF CreateIntent, Creating, At, TypeOK, Busy
        <3> QED
            BY <2>1, <2>3, <3>1, FiledChange
    <2> QED
        BY <1>7, <1>c, <2>2, <2>3 DEF CreateIntent
<1>8. CASE CancelIntent(r)
    <2>1. Sure /\ UNCHANGED payments
        BY <1>8, <1>d, <1>e DEF CancelIntent, At, stores
    <2>2. CASE UNCHANGED stripe
        BY <2>1, <2>2, FiledSame DEF stripe
    <2>3. ASSUME NEW b \in Bookings, NEW i \in Intents, intents[b][i] \in Cancellable,
                 SetIntent(b, i, "canceled", "payment_cancelled")
          PROVE  FiledInv'
        <3>1. Known(b, i)
            BY <2>3 DEF Known, Cancellable
        <3> QED
            BY <2>1, <2>3, <3>1, FiledChange
    <2> QED
        BY <1>8, <1>c, <2>2, <2>3 DEF CancelIntent
<1> QED
    BY <1>1, <1>2, <1>3, <1>4, <1>5, <1>6, <1>7, <1>8 DEF Continue

LEMMA FiledStep == ~MayCrash /\ ~CardsDecline /\ FiledInv /\ [Next]_vars => FiledInv'
<1> SUFFICES ASSUME ~MayCrash, ~CardsDecline, FiledInv, [Next]_vars PROVE FiledInv'
    OBVIOUS
<1>a. IntentInv' /\ HoldInv'
    BY IntentStep, HoldStep DEF FiledInv
<1>1. ASSUME NEW b \in Bookings, NEW i \in Intents,
             AuthorizeCard(b, i) \/ DeclineCard(b, i) \/ CaptureHold(b, i)
      PROVE  FiledInv'
    <2>1. Sure /\ UNCHANGED payments /\ Known(b, i)
        BY <1>1 DEF AuthorizeCard, DeclineCard, CaptureHold, stores, Sure, Known
    <2>2. CASE AuthorizeCard(b, i)
        BY <1>a, <2>1, <2>2, FiledChange DEF AuthorizeCard
    <2>3. CASE CaptureHold(b, i)
        BY <1>a, <2>1, <2>3, FiledChange DEF CaptureHold
    <2> QED
        BY <1>1, <2>2, <2>3 DEF DeclineCard
<1>2. CASE Relist \/ UNCHANGED vars
    <2>1. UNCHANGED <<intents, events, payments, request>>
        BY <1>2 DEF Relist, vars, stores, stripe
    <2> QED
        BY <1>a, <2>1, FiledSame DEF Sure
<1> QED
    BY <1>a, <1>1, <1>2, FiledArrive, FiledContinue DEF Next, Environment, Crash

-----------------------------------------------------------------------------
(* What a cancellation leaves.  It goes through every intent that is open,   *)
(* and no new one is created meanwhile, nor once the booking is cancelled.   *)

Live(b) == {i \in Intents : intents[b][i] \in Cancellable}

Clearing(r) ==
    LET b == request[r].b
    IN  /\ At(r, "cancel") => Live(b) \subseteq request[r].todo
        /\ At(r, "cancel_record") => Live(b) \subseteq request[r].todo \ {request[r].i}
        /\ request[r].pc \in Updating => Live(b) = {}

Opening(r) == ~At(r, "idle") /\ request[r].op = "intent"

CancelInv ==
    /\ FiledInv /\ WriteInv
    /\ \A b \in Bookings : bookings[b].state = "cancelled" => Live(b) = {}
    /\ \A r \in Requests : Clearing(r)
    /\ \A r \in Requests : Opening(r) => bookings[request[r].b].state # "cancelled"

\* Who clears a booking's intents holds its rail lock.
LEMMA ClearingOnRail ==
    ASSUME WriteInv, NEW r \in Requests, request[r].pc \in {"list", "cancel", "cancel_record"} \cup Updating
    PROVE  ~At(r, "idle") /\ request[r].op = "cancel" /\ request[r].b \in Bookings
<1>1. ~At(r, "idle")
    BY DEF At, Updating
<1>2. request[r].op = "cancel"
    BY <1>1 DEF WriteInv, RailInv, OnRail, OnCancel
<1>3. TypeOK
    BY DEF WriteInv, RailInv
<1> QED
    BY <1>1, <1>2, <1>3, BusyFields DEF TypeOK, At, Idle

LEMMA ClearingStays ==
    ASSUME WriteInv, NEW r \in Requests, Clearing(r), request'[r] = request[r],
           request[r].pc \in {"cancel", "cancel_record"} \cup Updating =>
               Live(request[r].b)' \subseteq Live(request[r].b)
    PROVE  Clearing(r)'
<1>1. CASE request[r].pc \in {"cancel", "cancel_record"} \cup Updating
    <2> DEFINE b == request[r].b
    <2>1. Live(b)' = {i \in Intents : intents'[b][i] \in Cancellable}
        BY DEF Live
    <2> QED
        BY <1>1, <2>1 DEF Clearing, At, Live
<1>2. CASE request[r].pc \notin {"cancel", "cancel_record"} \cup Updating
    BY <1>2 DEF Clearing, At
<1> QED
    BY <1>1, <1>2

\* Steps after which no more intents are open than before.
LEMMA CancelKept ==
    ASSUME CancelInv, FiledInv', WriteInv', NEW r \in Requests, Only(r), Clearing(r)',
           \A b \in Bookings, i \in Intents : intents'[b][i] \in Cancellable => intents[b][i] \in Cancellable,
           \A b \in Bookings : bookings'[b].state = "cancelled" =>
               bookings[b].state = "cancelled" \/ (request[r].pc \in Updating /\ request[r].b = b),
           Opening(r)' => /\ request'[r].b \in Bookings
                          /\ bookings'[request'[r].b].state # "cancelled"
    PROVE  CancelInv'
<1>0. TypeOK /\ WriteInv /\ RailInv
    BY DEF CancelInv, WriteInv, RailInv
<1>1. \A b \in Bookings : Live(b)' \subseteq Live(b)
    BY DEF Live
<1>2. ASSUME NEW q \in Requests PROVE Clearing(q)'
    <2>1. CASE q # r
        <3>1. request'[q] = request[q] /\ Clearing(q)
            BY <2>1 DEF Only, CancelInv
        <3>2. request[q].pc \in {"cancel", "cancel_record"} \cup Updating =>
                 Live(request[q].b)' \subseteq Live(request[q].b)
            <4>1. request[q].pc \in {"cancel", "cancel_record"} \cup Updating => request[q].b \in Bookings
                BY <1>0, ClearingOnRail
            <4> QED
                BY <3>1, <4>1 DEF Live
        <3> QED
            BY <1>0, <3>1, <3>2, ClearingStays
    <2> QED
        BY <2>1
<1>3. ASSUME NEW b \in Bookings, bookings'[b].state = "cancelled" PROVE Live(b)' = {}
    <2>1. Live(b) = {}
        BY <1>3 DEF CancelInv, Clearing
    <2> QED
        BY <1>1, <2>1
<1>4. ASSUME NEW q \in Requests, Opening(q)' PROVE bookings'[request'[q].b].state # "cancelled"
    <2>1. CASE q = r
        BY <1>4, <2>1
    <2>2. CASE q # r
        <3>1. request'[q] = request[q] /\ Opening(q)
            BY <1>4, <2>2 DEF Only, Opening, At
        <3>2. request[q].b \in Bookings
            BY <1>0, <3>1, BusyFields DEF Opening, TypeOK, At, Idle
        <3>3. bookings[request[q].b].state # "cancelled"
            BY <3>1 DEF CancelInv
        <3>4. ~(request[r].pc \in Updating /\ request[r].b = request[q].b)
            BY <1>0, <2>2, <3>1, ClearingOnRail, OneOnRail DEF Opening, Rails
        <3> QED
            BY <3>1, <3>2, <3>3, <3>4
    <2> QED
        BY <2>1, <2>2
<1> QED
    BY <1>2, <1>3, <1>4 DEF CancelInv

\* A handler that goes on as it was, or ends, leaves what it has to clear.
LEMMA CancelContinue ==
    ASSUME CancelInv, FiledInv', WriteInv', NEW r \in Requests, Continue(r), Clearing(r)',
           \A b \in Bookings, i \in Intents : intents'[b][i] \in Cancellable => intents[b][i] \in Cancellable
    PROVE  CancelInv'
<1>a. TypeOK /\ DatesInv
    BY DEF CancelInv, WriteInv, RailInv
<1>1. request[r] \in Busy /\ Only(r) /\ (Finish(r) \/ GoesOn(r))
    BY <1>a, BusyContinues, ContinueShape
<1>2. \A b \in Bookings : bookings'[b].state = "cancelled" =>
         bookings[b].state = "cancelled" \/ (request[r].pc \in Updating /\ request[r].b = b)
    BY <1>a, BookingWrites DEF Written
<1>3. ASSUME Opening(r)'
      PROVE  request'[r].b \in Bookings /\ bookings'[request'[r].b].state # "cancelled"
    <2>1. GoesOn(r)
        BY <1>a, <1>1, <1>3, FinishOnly DEF Opening, At, Idle
    <2>2. Opening(r) /\ request'[r].b = request[r].b /\ request[r].b \in Bookings
        BY <1>a, <1>1, <1>3, <2>1, BusyFields DEF Opening, GoesOn, At, Busy, ProgramCounters
    <2>3. request[r].pc \notin Updating
        BY <2>2 DEF CancelInv, WriteInv, Opening
    <2> QED
        BY <1>2, <2>2, <2>3 DEF CancelInv
<1> QED
    BY <1>1, <1>2, <1>3, CancelKept

LEMMA CancelHandles ==
    ASSUME CancelInv, FiledInv', WriteInv', NEW r \in Requests, Continue(r)
    PROVE  CancelInv'
<1>a. TypeOK /\ RailInv /\ DatesInv /\ WriteInv
    BY DEF CancelInv, WriteInv, RailInv
<1>b. request[r] \in Busy /\ Only(r) /\ (Finish(r) \/ GoesOn(r))
    BY <1>a, BusyContinues, ContinueShape
<1>c. /\ request[r].b \in Bookings /\ request[r].todo \subseteq Intents
    BY <1>a, <1>b, BusyFields
<1>d. Clearing(r)
    BY DEF CancelInv
<1>e. ASSUME request[r].pc \notin {"list", "cancel", "cancel_record", "trip_in", "trip_out"} \cup Updating
      PROVE  Clearing(r)'
    BY <1>a, <1>b, <1>e, FinishOnly DEF GoesOn, Follows, Idle, Clearing, At, Updating
<1>f. ASSUME Finish(r) PROVE Clearing(r)'
    BY <1>a, <1>f, FinishOnly DEF Idle, Clearing, At, Updating
<1>1. CASE CreateIntent(r)
    <2>1. At(r, "new_intent") /\ Opening(r) /\ UNCHANGED bookings /\ GoesOn(r)
        <3>1. At(r, "new_intent") /\ request'[r].pc = "new_record" /\ UNCHANGED bookings
            BY <1>a, <1>b, <1>1 DEF CreateIntent, stores, TypeOK, Busy
        <3> QED
            BY <1>a, <1>b, <3>1, FinishOnly DEF RailInv, OnRail, OnNewIntent, At, Opening, Idle
    <2>2. Clearing(r)'
        BY <1>e, <2>1 DEF At, Updating
    <2>3. \A b \in Bookings \ {request[r].b}, i \in Intents : intents'[b][i] = intents[b][i]
        BY <1>a, <1>c, <1>1 DEF CreateIntent, SetIntent, stripe, TypeOK
    <2>4. bookings[request[r].b].state # "cancelled"
        BY <2>1 DEF CancelInv
    <2>5. \A b \in Bookings : bookings'[b].state = "cancelled" => Live(b)' = {}
        BY <2>1, <2>3, <2>4 DEF CancelInv, Live
    <2>6. ASSUME NEW q \in Requests, q # r PROVE Clearing(q)'
        <3>1. request'[q] = request[q] /\ Clearing(q)
            BY <1>b, <2>6 DEF Only, CancelInv
        <3>2. ASSUME request[q].pc \in {"cancel", "cancel_record"} \cup Updating
              PROVE  Live(request[q].b)' \subseteq Live(request[q].b)
            <4>1. request[q].b \in Bookings /\ request[q].b # request[r].b
                BY <1>a, <2>1, <2>6, <3>2, ClearingOnRail, OneOnRail DEF Opening, Rails
            <4> QED
                BY <2>3, <3>1, <4>1 DEF Live
        <3> QED
            BY <1>a, <3>1, <3>2, ClearingStays
    <2>7. \A q \in Requests : Opening(q)' => bookings'[request'[q].b].state # "cancelled"
        BY <1>b, <2>1, <2>4 DEF CancelInv, Only, Opening, GoesOn, At
    <2> QED
        BY <2>2, <2>5, <2>6, <2>7 DEF CancelInv
<1>2. CASE CancelIntent(r)
    <2>1. PICK i \in request[r].todo :
             \/ /\ SetIntent(request[r].b, i, "canceled", "payment_cancelled")
                /\ request' = [request EXCEPT ![r].pc = "cancel_record", ![r].i = i]
             \/ Finish(r) /\ UNCHANGED stripe
        BY <1>2 DEF CancelIntent
    <2>2. CASE Finish(r) /\ UNCHANGED stripe
        BY <1>f, <2>2, CancelContinue DEF stripe
    <2>3. CASE /\ SetIntent(request[r].b, i, "canceled", "payment_cancelled")
               /\ request' = [request EXCEPT ![r].pc = "cancel_record", ![r].i = i]
        <3>1. i \in Intents /\ At(r, "cancel")
            BY <1>c, <1>2, <2>1 DEF CancelIntent
        <3>2. /\ request'[r].b = request[r].b /\ request'[r].i = i /\ request'[r].pc = "cancel_record"
              /\ request'[r].todo = request[r].todo
            BY <1>a, <1>b, <2>3 DEF TypeOK, Busy
        <3>3. \A b \in Bookings, j \in Intents :
                 intents'[b][j] = IF b = request[r].b /\ j = i THEN "canceled" ELSE intents[b][j]
            BY <1>a, <1>c, <2>3, <3>1 DEF SetIntent, TypeOK
        <3>4. \A b \in Bookings, j \in Intents :
                 intents'[b][j] \in Cancellable => intents[b][j] \in Cancellable /\ ~(b = request[r].b /\ j = i)
            BY <3>3 DEF Cancellable
        <3>5. Clearing(r)'
            BY <1>c, <1>d, <3>1, <3>2, <3>4 DEF Clearing, Live, At, Updating
        <3> QED
            BY <3>4, <3>5, CancelContinue
    <2> QED
        BY <2>1, <2>2, <2>3
<1>3. CASE ~CreateIntent(r) /\ ~CancelIntent(r)
    <2>1. UNCHANGED intents
        BY <1>3 DEF Continue, CreateBooking, UpdateBookingState, ConfirmBooking, WriteConfirmed,
               ReadVehicle, Advance, WriteVehicle, RetrieveIntent, RecordSnapshot,
               CheckIntentVehicle, ListIntents, ReuseIntent, RecordReused, OutOfIntents,
               RecordCreated, ListCancellable, RecordCancelled, FinishCancel, TripCheckIn,
               TripCheckOut, stores, stripe
    <2>2. SUFFICES Clearing(r)'
        BY <2>1, CancelContinue
    \* All that is open has a record that says so.
    <2>3. CASE ListCancellable(r)
        <3>1. At(r, "list") /\ ~At(r, "idle") /\ request[r].op = "cancel"
            BY <1>a, <2>3, ClearingOnRail DEF ListCancellable, At
        <3>2. ASSUME NEW i \in Live(request[r].b)
              PROVE  payments[request[r].b][i] \in Cancellable
            <4>1. i \in Intents /\ intents[request[r].b][i] \in Cancellable
                BY DEF Live
            <4>2. Known(request[r].b, i) /\ ~Gone(request[r].b, i) /\ intents[request[r].b][i] # "succeeded"
                BY <4>1 DEF Known, Gone, Cancellable
            <4>3. ASSUME NEW q \in Requests, Creating(q, request[r].b, i) PROVE FALSE
                <5>1. ~At(q, "idle") /\ request[q].op = "intent" /\ request[q].b = request[r].b
                    BY <1>a, <4>3 DEF Creating, At, RailInv, OnRail, OnNewIntent
                <5> QED
                    BY <1>a, <3>1, <5>1, OneOnRail DEF Rails
            <4>4. payments[request[r].b][i] \notin {"none", "failed", "captured", "cancelled"}
                BY <1>c, <4>1, <4>2, <4>3
                   DEF CancelInv, FiledInv, Filed, IntentInv, RecordsSound, HoldInv, HoldRecords
            <4>5. payments[request[r].b][i] \in PaymentStates
                BY <1>a, <1>c, <4>1 DEF TypeOK
            <4> QED
                BY <4>4, <4>5 DEF PaymentStates, Cancellable
        <3>3. /\ request'[r].pc = "cancel" /\ request'[r].b = request[r].b
              /\ request'[r].todo = {i \in Intents : payments[request[r].b][i] \in Cancellable}
            BY <1>a, <1>b, <2>3 DEF ListCancellable, TypeOK, Busy
        <3> QED
            BY <2>1, <3>2, <3>3 DEF Clearing, Live, At, Updating
    <2>4. CASE RecordCancelled(r)
        <3>1. /\ request'[r].pc = "cancel" /\ request'[r].b = request[r].b
              /\ request'[r].todo = request[r].todo \ {request[r].i} /\ At(r, "cancel_record")
            BY <1>a, <1>b, <2>4 DEF RecordCancelled, TypeOK, Busy
        <3> QED
            BY <1>d, <2>1, <3>1 DEF Clearing, Live, At, Updating
    <2>5. CASE FinishCancel(r)
        <3>1. Live(request[r].b) = {}
            BY <1>d, <2>5 DEF FinishCancel, Clearing
        <3>2. CASE SetState(r, "cancelled")
            <4>1. request'[r].pc = "update" /\ request'[r].b = request[r].b
                BY <1>a, <1>b, <3>2 DEF SetState, TypeOK, Busy
            <4> QED
                BY <2>1, <3>1, <4>1 DEF Clearing, Live, At
        <3> QED
            BY <1>f, <2>5, <3>2 DEF FinishCancel
    <2>6. CASE UpdateBookingState(r)
        <3>1. request[r].pc \in Updating
            BY <2>6 DEF UpdateBookingState, At, Updating
        <3>2. Live(request[r].b) = {}
            BY <1>d, <3>1 DEF Clearing
        <3>3. CASE Finish(r)
            BY <1>f, <3>3
        <3>4. CASE GoesOn(r)
            <4>1. request'[r].b = request[r].b /\ ~At(r, "cancel")' /\ ~At(r, "cancel_record")'
                BY <3>1, <3>4 DEF GoesOn, Follows, Updating, At
            <4> QED
                BY <2>1, <3>2, <4>1 DEF Clearing, Live
        <3> QED
            BY <1>b, <3>3, <3>4
    <2>7. CASE ~ListCancellable(r) /\ ~RecordCancelled(r) /\ ~FinishCancel(r) /\ ~UpdateBookingState(r)
        <3>1. request[r].pc \notin {"trip_in", "trip_out"}
            BY <1>a DEF DatesInv, Harmless
        <3>2. request[r].pc \notin {"list", "cancel", "cancel_record", "trip_in", "trip_out"} \cup Updating
            BY <1>3, <2>7, <3>1
               DEF Continue, CreateBooking, ConfirmBooking, ReadVehicle, Advance, WriteVehicle,
                   RetrieveIntent, RecordSnapshot, CheckIntentVehicle, ListIntents, ReuseIntent,
                   RecordReused, OutOfIntents, RecordCreated, TripCheckIn, TripCheckOut, At, Updating
        <3> QED
            BY <1>e, <3>2
    <2> QED
        BY <2>3, <2>4, <2>5, <2>6, <2>7
<1> QED
    BY <1>1, <1>2, <1>3

LEMMA CancelStep ==
    NoRevival /\ ~MayCrash /\ ~CardsDecline /\ CancelInv /\ [Next]_vars => CancelInv'
<1> SUFFICES ASSUME NoRevival, ~MayCrash, ~CardsDecline, CancelInv, [Next]_vars PROVE CancelInv'
    OBVIOUS
<1>a. FiledInv' /\ WriteInv' /\ WriteInv /\ TypeOK
    BY FiledStep, WriteStep DEF CancelInv, WriteInv, RailInv
<1>1. ASSUME NEW r \in Requests, Arrive(r) PROVE CancelInv'
    <2>1. Only(r) /\ (Entered(r) \/ request' = request)
        BY <1>a, <1>1, ArriveShape
    <2>2. UNCHANGED <<bookings, intents>>
        BY <1>1 DEF Arrive, Checkout, Confirm, Approve, PaymentIntents, Cancel, CheckIn, CheckOut,
               Incident, Claim, Reconcile, Webhook, stores, stripe
    <2>3. CASE request' = request
        BY <1>a, <2>2, <2>3 DEF CancelInv, Clearing, Opening, Live, At
    <2>4. CASE Entered(r)
        <3>1. Clearing(r)'
            <4>1. request'[r].pc \notin {"cancel", "cancel_record"} \cup Updating
                <5>1. request'[r].pc \notin {"cancel", "cancel_record", "update_write"}
                    BY <2>4 DEF Entered, Enters
                <5>2. request'[r].pc = "update" => request'[r].op = "cancel"
                    BY <1>a DEF WriteInv, Updating
                <5>3. request'[r].pc # "update"
                    BY <2>4, <5>2 DEF Entered, Enters
                <5> QED
                    BY <5>1, <5>3 DEF Updating
            <4> QED
                BY <4>1 DEF Clearing, At
        <3>2. ASSUME Opening(r)'
              PROVE  request'[r].b \in Bookings /\ bookings'[request'[r].b].state # "cancelled"
            <4>1. ASSUME NEW b \in Bookings, PaymentIntents(r, b)
                  PROVE  bookings'[request'[r].b].state # "cancelled"
                <5>1. Start(r, "intent", b, "intent_vehicle", "none", 0)
                    BY <4>1 DEF PaymentIntents, StartLocked
                <5>2. request'[r] = Activation("intent", b, "intent_vehicle", "none", 0)
                    BY <1>a, <5>1, StartOnly
                <5>3. request'[r].b = b
                    BY <5>2 DEF Activation
                <5> QED
                    BY <2>2, <4>1, <5>3 DEF PaymentIntents
            <4>2. ASSUME NEW op, op # "intent", NEW b, NEW pc, NEW target, NEW i,
                         Start(r, op, b, pc, target, i)
                  PROVE  FALSE
                <5>1. request'[r] = Activation(op, b, pc, target, i)
                    BY <1>a, <4>2, StartOnly
                <5> QED
                    BY <3>2, <4>2, <5>1 DEF Activation, Opening
            <4>3. ASSUME NEW b \in Bookings, NEW eligible \in Eligibility, Checkout(r, b, eligible)
                  PROVE  FALSE
                BY <1>a, <3>2, <4>3 DEF Checkout, Activation, TypeOK, Opening
            <4>4. ASSUME NEW e \in events, Webhook(r, e) PROVE FALSE
                BY <1>a, <2>4, <3>2, <4>4 DEF Webhook, Activation, TypeOK, Entered, At, Enters, Opening
            <4>5. bookings'[request'[r].b].state # "cancelled"
                BY <1>1, <4>1, <4>2, <4>3, <4>4
                   DEF Arrive, Confirm, Approve, Cancel, CheckIn, CheckOut, Incident, Claim,
                       Reconcile, StartLocked, StartUnlocked
            <4> QED
                BY <2>4, <4>5 DEF Entered
        <3> QED
            BY <1>a, <2>1, <2>2, <3>1, <3>2, CancelKept
    <2> QED
        BY <2>1, <2>3, <2>4
<1>2. CASE Environment \/ UNCHANGED vars
    <2>1. UNCHANGED <<request, bookings>>
        BY <1>2 DEF Environment, AuthorizeCard, DeclineCard, CaptureHold, Relist, vars, stores
    <2>2. \A b \in Bookings, i \in Intents : intents'[b][i] \in Cancellable => intents[b][i] \in Cancellable
        <3>1. ASSUME NEW b \in Bookings, NEW i \in Intents, NEW status, NEW kind,
                     SetIntent(b, i, status, kind), intents[b][i] \in Cancellable
              PROVE  \A c \in Bookings, j \in Intents :
                         intents'[c][j] \in Cancellable => intents[c][j] \in Cancellable
            BY <1>a, <3>1 DEF SetIntent, TypeOK
        <3>2. ASSUME NEW b \in Bookings, NEW i \in Intents,
                     AuthorizeCard(b, i) \/ DeclineCard(b, i) \/ CaptureHold(b, i)
              PROVE  \A c \in Bookings, j \in Intents :
                         intents'[c][j] \in Cancellable => intents[c][j] \in Cancellable
            BY <3>1, <3>2 DEF AuthorizeCard, DeclineCard, CaptureHold, Cancellable
        <3>3. CASE UNCHANGED intents
            BY <3>3
        <3> QED
            BY <1>2, <3>2, <3>3 DEF Environment, Relist, vars, stripe
    <2>3. \A b \in Bookings : Live(b)' \subseteq Live(b)
        BY <2>2 DEF Live
    <2>4. ASSUME NEW r \in Requests PROVE Clearing(r)'
        <3>1. request[r].pc \in {"cancel", "cancel_record"} \cup Updating => request[r].b \in Bookings
            BY <1>a, ClearingOnRail
        <3>2. request[r].pc \in {"cancel", "cancel_record"} \cup Updating =>
                 Live(request[r].b)' \subseteq Live(request[r].b)
            BY <2>1, <2>2, <3>1 DEF Live
        <3> QED
            BY <1>a, <2>1, <3>2, ClearingStays DEF CancelInv
    <2> QED
        BY <1>a, <2>1, <2>3, <2>4 DEF CancelInv, Opening, At
<1> QED
    BY <1>a, <1>1, <1>2, CancelHandles DEF Next, Crash

\* Whatever webhooks, approvals and further payment requests do meanwhile, on
\* either store and for any number of intents: a cancelled booking leaves no
\* intent that could still be authorised and no hold.  The handlers that create
\* and cancel intents exclude each other by the booking's rail lock, and
\* payment-intents/route.ts creates none for a cancelled booking.  Here no card
\* is declined and no handler dies half way.
THEOREM CancelLeavesNothingOpen ==
    ASSUME NoRevival, ~MayCrash, ~CardsDecline PROVE Spec => []NoOpenIntentAfterCancel
<1>1. Init => CancelInv
    <2> SUFFICES ASSUME Init PROVE CancelInv
        OBVIOUS
    <2>1. TypeOK
        BY RentalAssumption
           DEF Init, TypeOK, BookingStates, TripStates, VehicleStates, PaymentStates, IntentStates
    <2>2. NoDoubleBooking
        BY DEF Init, NoDoubleBooking, ACTIVE_BOOKING_STATES
    <2>3. WriteInv
        BY <2>1, <2>2 DEF Init, DatesInv, Harmless, WriteInv, RailInv, OnRail, At, Idle, Updating
    <2>4. HoldInv
        BY <2>1 DEF Init, HoldInv, RailInv, OnRail, At, Idle, HoldRecords, HoldEvents, Gone, Seen, Looked
    <2>5. IntentInv
        BY <2>1 DEF Init, IntentInv, Replaced, RecordsSound, EventsSound, RequestSound, Known, Gone,
               Idle, OnIntent, Choosing
    <2>6. FiledInv
        BY <2>4, <2>5 DEF Init, FiledInv, Filed, Known, Named, Idle, Looked
    <2> QED
        BY <2>3, <2>6 DEF Init, CancelInv, Clearing, Opening, At, Idle, Updating
<1>2. CancelInv /\ [Next]_vars => CancelInv'
    BY CancelStep
<1>3. CancelInv => NoOpenIntentAfterCancel
    BY DEF CancelInv, Live, NoOpenIntentAfterCancel
<1> QED
    BY <1>1, <1>2, <1>3, PTL DEF Spec

-----------------------------------------------------------------------------
(* Accepted bookings.  A payment is attached on the strength of a hold that  *)
(* Stripe had; who lets go of it is a cancellation that holds the rail lock, *)
(* has no other intent to cancel, and goes on to cancel the booking.         *)

Carrying  == {"advance", "vehicle", "confirm", "confirm_write"}
Attaching == {"webhook", "reconcile", "intent"}

Carries(r) ==
    /\ request[r].pc \in Carrying /\ request[r].op \in Attaching =>
          /\ request[r].i \in Intents
          /\ intents[request[r].b][request[r].i] \in Settled
    /\ At(r, "intent_record") => request[r].snapshot \in Successful

Attached ==
    \A b \in Bookings : bookings[b].ref # 0 => intents[b][bookings[b].ref] \in Settled

CarryInv ==
    /\ HoldInv /\ FinalInv /\ Attached
    /\ \A r \in Requests : Carries(r)

\* At Stripe, a hold ends captured or canceled and stays so.
LEMMA OnwardStep ==
    ASSUME TypeOK, [Next]_vars
    PROVE  Onward /\ Forward
<1>1. ASSUME NEW b \in Bookings, NEW i \in Intents, NEW status, NEW kind,
             SetIntent(b, i, status, kind), intents[b][i] \notin {"succeeded", "canceled"},
             status # "none", intents[b][i] = "requires_capture" => status \in {"succeeded", "canceled"}
      PROVE  Onward /\ Forward
    <2>1. \A c \in Bookings, j \in Intents :
             intents'[c][j] = IF c = b /\ j = i THEN status ELSE intents[c][j]
        BY <1>1 DEF SetIntent, TypeOK
    <2>2. Onward
        BY <1>1, <2>1 DEF Onward, Settled, Successful
    <2>3. Forward
        BY <1>1, <2>1 DEF Forward, Known, Gone
    <2> QED
        BY <2>2, <2>3
<1>2. ASSUME UNCHANGED intents PROVE Onward /\ Forward
    BY <1>2 DEF Onward, Forward, Known, Gone
<1>3. ASSUME NEW r \in Requests, CreateIntent(r) \/ CancelIntent(r) PROVE Onward /\ Forward
    <2>1. request[r] \in Busy
        BY <1>3, BusyAt DEF CreateIntent, CancelIntent, ProgramCounters
    <2>2. request[r].b \in Bookings /\ request[r].todo \subseteq Intents
        BY <2>1, BusyFields
    <2> QED
        BY <1>1, <1>2, <1>3, <2>2 DEF CreateIntent, CancelIntent, Cancellable, stripe
<1>4. ASSUME NEW r \in Requests, Continue(r), ~CreateIntent(r), ~CancelIntent(r) PROVE Onward /\ Forward
    <2>1. UNCHANGED intents
        BY <1>4 DEF Continue, CreateBooking, UpdateBookingState, ConfirmBooking, WriteConfirmed,
               ReadVehicle, Advance, WriteVehicle, RetrieveIntent, RecordSnapshot,
               CheckIntentVehicle, ListIntents, ReuseIntent, RecordReused, OutOfIntents,
               RecordCreated, ListCancellable, RecordCancelled, FinishCancel, TripCheckIn,
               TripCheckOut, stores, stripe
    <2> QED
        BY <1>2, <2>1
<1>5. ASSUME NEW r \in Requests, Arrive(r) \/ Crash(r) PROVE Onward /\ Forward
    <2>1. UNCHANGED intents
        BY <1>5 DEF Arrive, Checkout, Confirm, Approve, PaymentIntents, Cancel, CheckIn, CheckOut,
               Incident, Claim, Reconcile, Webhook, Crash, stripe
    <2> QED
        BY <1>2, <2>1
<1>6. ASSUME NEW b \in Bookings, NEW i \in Intents,
             AuthorizeCard(b, i) \/ DeclineCard(b, i) \/ CaptureHold(b, i)
      PROVE  Onward /\ Forward
    BY <1>1, <1>6 DEF AuthorizeCard, DeclineCard, CaptureHold
<1>7. CASE Relist \/ UNCHANGED vars
    BY <1>2, <1>7 DEF Relist, vars, stripe
<1> QED
    BY <1>3, <1>4, <1>5, <1>6, <1>7 DEF Next, Environment

LEMMA CarriesStay ==
    ASSUME TypeOK, Onward, NEW r \in Requests, Carries(r), request'[r] = request[r]
    PROVE  Carries(r)'
<1>1. CASE request[r] = Idle
    BY <1>1 DEF Carries, At, Idle, Carrying
<1>2. CASE request[r] \in Busy
    <2>1. request[r].b \in Bookings
        BY <1>2, BusyFields
    <2> QED
        BY <2>1 DEF Carries, At, Onward
<1> QED
    BY <1>1, <1>2 DEF TypeOK

LEMMA CarriesArrive ==
    ASSUME CarryInv, NEW r \in Requests, Arrive(r)
    PROVE  Carries(r)'
<1>a. TypeOK
    BY DEF CarryInv, HoldInv, RailInv
<1>1. ASSUME NEW e \in events, Webhook(r, e) PROVE Carries(r)'
    <2>1. e[1] \in Bookings /\ e[2] \in Intents /\ UNCHANGED intents
        BY <1>a, <1>1 DEF TypeOK, Webhook
    <2>2. CASE UNCHANGED request
        BY <2>1, <2>2 DEF CarryInv, Carries, At
    <2>3. CASE /\ e[3] \in {"authorization_succeeded", "capture_succeeded"}
               /\ request' = [request EXCEPT ![r] = Activation("webhook", e[1], "advance", "none", e[2])]
        <3>1. request'[r] = Activation("webhook", e[1], "advance", "none", e[2])
            BY <1>a, <2>3 DEF TypeOK
        <3>2. request'[r].pc = "advance" /\ request'[r].b = e[1] /\ request'[r].i = e[2]
            BY <3>1 DEF Activation
        <3>3. intents[e[1]][e[2]] \in Settled
            BY <2>3 DEF CarryInv, HoldInv, HoldEvents, Settled, Successful
        <3> QED
            BY <2>1, <3>2, <3>3 DEF Carries, At
    <2> QED
        BY <1>1, <2>2, <2>3 DEF Webhook
<1>2. CASE ~\E e \in events : Webhook(r, e)
    <2>1. UNCHANGED intents /\ (Entered(r) \/ request' = request)
        BY <1>a, <1>2, ArriveShape DEF Arrive, Checkout, Confirm, Approve, PaymentIntents, Cancel,
               CheckIn, CheckOut, Incident, Claim, Reconcile, stripe
    <2>2. CASE request' = request
        BY <2>1, <2>2 DEF CarryInv, Carries, At
    <2>3. CASE Entered(r)
        <3>1. request'[r].op # "webhook"
            <4>1. ASSUME NEW op, op # "webhook", NEW b, NEW pc, NEW target, NEW i,
                         Start(r, op, b, pc, target, i)
                  PROVE  request'[r].op # "webhook"
                <5>1. request'[r] = Activation(op, b, pc, target, i)
                    BY <1>a, <4>1, StartOnly
                <5> QED
                    BY <4>1, <5>1 DEF Activation
            <4>2. ASSUME NEW b \in Bookings, NEW eligible \in Eligibility, Checkout(r, b, eligible)
                  PROVE  request'[r].op # "webhook"
                BY <1>a, <4>2 DEF Checkout, Activation, TypeOK
            <4> QED
                BY <1>2, <4>1, <4>2
                   DEF Arrive, Confirm, Approve, PaymentIntents, Cancel, CheckIn, CheckOut,
                       Incident, Claim, Reconcile, StartLocked, StartUnlocked
        <3> QED
            BY <2>3, <3>1 DEF Entered, Enters, Carries, Carrying, Attaching, At
    <2> QED
        BY <2>1, <2>2, <2>3
<1> QED
    BY <1>1, <1>2

LEMMA CarriesContinue ==
    ASSUME CarryInv, FinalInv', Onward, NEW r \in Requests, Continue(r)
    PROVE  Carries(r)'
<1>a. TypeOK /\ WriteInv /\ DatesInv
    BY DEF CarryInv, HoldInv, RailInv, FinalInv, WriteInv
<1>b. request[r] \in Busy /\ Only(r) /\ (Finish(r) \/ GoesOn(r))
    BY <1>a, BusyContinues, ContinueShape
<1>c. /\ request[r].b \in Bookings /\ request[r].todo \subseteq Intents
      /\ request[r].pc \in OnIntent => request[r].i \in Intents
    BY <1>a, <1>b, BusyFields
<1>d. Carries(r) /\ Seen(r)
    BY DEF CarryInv, HoldInv
<1>1. CASE Finish(r)
    BY <1>a, <1>1, FinishOnly DEF Carries, Idle, Carrying, At
\* It goes on with the payment it carries.
<1>2. CASE GoesOn(r) /\ request[r].pc \in {"advance", "vehicle"}
    <2>1. /\ request'[r].op = request[r].op /\ request'[r].b = request[r].b
          /\ request'[r].i = request[r].i /\ request'[r].pc # "intent_record"
        BY <1>2 DEF GoesOn, Follows
    <2> QED
        BY <1>2, <1>c, <1>d, <2>1 DEF Carries, Carrying, Onward, At
\* It has looked the payment up.
<1>3. CASE GoesOn(r) /\ (RecordSnapshot(r) \/ RecordReused(r))
    <2>1. /\ request'[r].op = request[r].op /\ request'[r].b = request[r].b
          /\ request'[r].i = request[r].i /\ request'[r].pc # "intent_record"
        BY <1>3 DEF GoesOn, Follows, RecordSnapshot, RecordReused, At
    <2>2. request[r].snapshot \in Successful /\ request[r].pc \in Looked
        <3>1. CASE RecordReused(r)
            BY <1>d, <3>1 DEF RecordReused, Carries, At, Looked
        <3>2. CASE RecordSnapshot(r)
            <4>1. request'[r] # Idle
                BY <1>3, <3>2 DEF GoesOn, Follows, RecordSnapshot, At, Idle
            <4> QED
                BY <1>a, <3>2, <4>1, FinishOnly DEF RecordSnapshot, At, Looked
        <3> QED
            BY <1>3, <3>1, <3>2
    <2>3. request[r].i \in Intents /\ intents[request[r].b][request[r].i] \in Settled
        BY <1>c, <1>d, <2>2 DEF Seen, Looked, OnIntent
    <2> QED
        BY <1>c, <2>1, <2>3 DEF Carries, Onward, At
<1>4. CASE GoesOn(r) /\ ReuseIntent(r)
    <2>1. CASE request'[r].pc \notin Carrying \cup {"intent_record"}
        BY <2>1 DEF Carries, At
    <2>2. ASSUME NEW i \in Intents, intents[request[r].b][i] \in Successful, NEW authorized \in BOOLEAN,
                 request' = [request EXCEPT ![r].i = i, ![r].snapshot = intents[request[r].b][i],
                     ![r].todo = {}, ![r].pc = IF authorized THEN "advance" ELSE "intent_record"]
          PROVE  Carries(r)'
        <3>1. /\ request'[r].i = i /\ request'[r].b = request[r].b
              /\ request'[r].snapshot = intents[request[r].b][i]
            BY <1>a, <1>b, <2>2 DEF TypeOK, Busy
        <3>2. intents[request[r].b][i] \in Settled
            BY <2>2 DEF Settled
        <3> QED
            BY <1>c, <2>2, <3>1, <3>2 DEF Carries, Onward
    <2>3. ASSUME NEW todo, TryNext(r, todo) PROVE request'[r].pc \notin Carrying \cup {"intent_record"}
        BY <1>a, <1>b, <2>3 DEF TryNext, TypeOK, Busy, Carrying
    <2> QED
        BY <1>1, <1>4, <1>c, <2>1, <2>2, <2>3 DEF ReuseIntent
<1>5. CASE GoesOn(r) /\ request[r].pc \notin {"advance", "vehicle", "record", "intent_record", "intent"}
    <2>1. request'[r].pc \in Carrying \cup {"intent_record"} => request[r].pc \in Updating \cup {"confirm"}
        BY <1>5 DEF GoesOn, Follows, Carrying, Updating
    <2>2. CASE request[r].pc \in Updating
        <3>1. request'[r].op = "cancel" /\ request'[r].pc # "intent_record"
            BY <1>5, <1>a, <2>2 DEF WriteInv, GoesOn, Follows, Updating
        <3> QED
            BY <3>1 DEF Carries, Attaching, At
    <2>3. request[r].pc # "confirm"
        BY <1>5 DEF FinalInv, GoesOn, Follows
    <2>4. CASE request'[r].pc \notin Carrying \cup {"intent_record"}
        BY <2>4 DEF Carries, At
    <2> QED
        BY <2>1, <2>2, <2>3, <2>4
<1>6. request[r].pc \in {"record", "intent_record", "intent"} =>
         RecordSnapshot(r) \/ RecordReused(r) \/ ReuseIntent(r)
    BY DEF Continue, CreateBooking, UpdateBookingState, ConfirmBooking, ReadVehicle, Advance,
           WriteVehicle, RetrieveIntent, CheckIntentVehicle, ListIntents, CreateIntent,
           OutOfIntents, RecordCreated, ListCancellable, CancelIntent, RecordCancelled,
           FinishCancel, TripCheckIn, TripCheckOut, At
<1> QED
    BY <1>b, <1>1, <1>2, <1>3, <1>4, <1>5, <1>6

LEMMA CarryStep ==
    NoRevival /\ AtomicStore /\ ~MayCrash /\ CarryInv /\ [Next]_vars => CarryInv'
<1> SUFFICES ASSUME NoRevival, AtomicStore, ~MayCrash, CarryInv, [Next]_vars PROVE CarryInv'
    OBVIOUS
<1>a. TypeOK /\ HoldInv' /\ FinalInv' /\ DatesInv /\ Onward
    BY HoldStep, FinalStep, OnwardStep DEF CarryInv, HoldInv, RailInv, FinalInv, WriteInv
<1>1. ASSUME UNCHANGED bookings PROVE Attached'
    <2> SUFFICES ASSUME NEW b \in Bookings, bookings[b].ref # 0
                 PROVE  intents'[b][bookings[b].ref] \in Settled
        BY <1>1 DEF Attached
    <2>1. bookings[b].ref \in Intents
        BY <1>a DEF TypeOK
    <2> QED
        BY <1>a, <2>1 DEF CarryInv, Attached, Onward
<1>2. ASSUME NEW r \in Requests, Only(r), Carries(r)' PROVE \A q \in Requests : Carries(q)'
    BY <1>2, <1>a, CarriesStay DEF CarryInv, Only
<1>3. ASSUME NEW r \in Requests, Continue(r) PROVE CarryInv'
    <2>1. Only(r)
        BY <1>a, <1>3, ContinueShape
    <2>2. Carries(r)'
        BY <1>a, <1>3, CarriesContinue
    <2>3. Attached'
        <3> SUFFICES ASSUME NEW b \in Bookings, bookings'[b].ref # 0
                     PROVE  intents'[b][bookings'[b].ref] \in Settled
            BY DEF Attached
        <3>1. Written(r, b)
            BY <1>a, <1>3, BookingWrites
        <3>2. CASE bookings'[b].ref = bookings[b].ref
            <4>1. bookings[b].ref \in Intents
                BY <1>a, <3>2 DEF TypeOK
            <4> QED
                BY <1>a, <3>2, <4>1 DEF CarryInv, Attached, Onward
        <3>3. CASE /\ At(r, "confirm") /\ request[r].b = b /\ request[r].op \in Attaching
                   /\ bookings'[b].ref = request[r].i
            <4>1. request[r].i \in Intents /\ intents[b][request[r].i] \in Settled
                BY <3>3 DEF CarryInv, Carries, Carrying, At
            <4> QED
                BY <1>a, <3>3, <4>1 DEF Onward
        <3>4. request[r].pc # "confirm_write"
            BY DEF CarryInv, FinalInv
        <3> QED
            BY <3>1, <3>2, <3>3, <3>4 DEF Written, At, Attaching
    <2> QED
        BY <1>a, <1>2, <2>1, <2>2, <2>3 DEF CarryInv
<1>4. ASSUME NEW r \in Requests, Arrive(r) PROVE CarryInv'
    <2>1. Only(r) /\ Carries(r)'
        BY <1>a, <1>4, ArriveShape, CarriesArrive
    <2>2. UNCHANGED bookings
        BY <1>4 DEF Arrive, Checkout, Confirm, Approve, PaymentIntents, Cancel, CheckIn, CheckOut,
               Incident, Claim, Reconcile, Webhook, stores
    <2> QED
        BY <1>a, <1>1, <1>2, <2>1, <2>2 DEF CarryInv
<1>5. CASE Environment \/ UNCHANGED vars
    <2>1. UNCHANGED <<request, bookings>>
        BY <1>5 DEF Environment, AuthorizeCard, DeclineCard, CaptureHold, Relist, vars, stores
    <2>2. \A q \in Requests : Carries(q)'
        BY <1>a, <2>1, CarriesStay DEF CarryInv
    <2> QED
        BY <1>a, <1>1, <2>1, <2>2 DEF CarryInv
<1> QED
    BY <1>3, <1>4, <1>5 DEF Next, Crash

Clear(r) ==
    LET b == request[r].b
    IN  /\ At(r, "cancel") => \A j \in request[r].todo : Known(b, j) /\ ~Gone(b, j)
        /\ At(r, "cancel_record") => request[r].todo \subseteq {request[r].i}

\* A cancellation that found the booking cancelled.
Again(r) == ~At(r, "idle") /\ request[r].op = "cancel" /\ request[r].state = "cancelled"

\* A cancellation that has let go of the booking's payment.
Ending(r, b) ==
    /\ ~At(r, "idle") /\ request[r].op = "cancel" /\ request[r].b = b
    /\ \/ request[r].pc \in {"cancel_record", "update"}
       \/ At(r, "cancel") /\ request[r].todo = {}

PaidInv ==
    /\ CarryInv /\ IntentInv
    /\ \A r \in Requests : Clear(r)
    /\ \A r \in Requests : Again(r) => bookings[request[r].b].state = "cancelled"
    /\ \A b \in Bookings, i \in Intents :
          Gone(b, i) => bookings[b].state = "cancelled" \/ \E r \in Requests : Ending(r, b)

\* What the other requests know of a booking's intents holds on as long as
\* only the holder of the booking's rail lock cancels one.
LEMMA ClearStays ==
    ASSUME PaidInv, Forward, NEW q \in Requests, request'[q] = request[q],
           At(q, "cancel") =>
               \A i \in Intents : Gone(request[q].b, i)' => Gone(request[q].b, i)
    PROVE  Clear(q)'
<1>1. TypeOK /\ WriteInv /\ Clear(q)
    BY DEF PaidInv, IntentInv, CarryInv, FinalInv
<1>2. CASE At(q, "cancel")
    <2>1. request[q].b \in Bookings /\ request[q].todo \subseteq Intents
        BY <1>1, <1>2, BusyAt, BusyFields DEF ProgramCounters
    <2>2. \A j \in request[q].todo : Known(request[q].b, j)' /\ ~Gone(request[q].b, j)'
        BY <1>1, <1>2, <2>1 DEF Clear, Forward, Known, Gone
    <2> QED
        BY <1>2, <2>2 DEF Clear, At, Known, Gone
<1>3. CASE ~At(q, "cancel")
    BY <1>1, <1>3 DEF Clear, At
<1> QED
    BY <1>2, <1>3

\* Steps that cancel no intent.
LEMMA PaidKept ==
    ASSUME PaidInv, CarryInv', IntentInv', Forward, NEW r \in Requests, Only(r), Clear(r)',
           \A b \in Bookings, i \in Intents : Gone(b, i)' => Gone(b, i),
           \A b \in Bookings : bookings[b].state = "cancelled" => bookings'[b].state = "cancelled",
           Again(r)' => request'[r].b \in Bookings /\ bookings'[request'[r].b].state = "cancelled",
           \A b \in Bookings : Ending(r, b) => Ending(r, b)' \/ bookings'[b].state = "cancelled"
    PROVE  PaidInv'
<1>0. TypeOK
    BY DEF PaidInv, IntentInv
<1>b. \A q \in Requests : ~At(q, "idle") => request[q].b \in Bookings
    BY <1>0, BusyFields DEF TypeOK, At, Idle
<1>1. ASSUME NEW q \in Requests PROVE Clear(q)'
    <2>1. CASE q # r
        <3>1. request'[q] = request[q]
            BY <2>1 DEF Only
        <3>2. ASSUME At(q, "cancel"), NEW i \in Intents, Gone(request[q].b, i)'
              PROVE  Gone(request[q].b, i)
            <4>1. request[q].b \in Bookings
                BY <1>b, <3>2 DEF At
            <4> QED
                BY <3>1, <3>2, <4>1 DEF Gone
        <3> QED
            BY <3>1, <3>2, ClearStays
    <2> QED
        BY <2>1
<1>2. ASSUME NEW q \in Requests, Again(q)' PROVE bookings'[request'[q].b].state = "cancelled"
    <2>1. CASE q # r
        <3>1. request'[q] = request[q] /\ Again(q)
            BY <1>2, <2>1 DEF Only, Again, At
        <3>2. request[q].b \in Bookings
            BY <1>b, <3>1 DEF Again
        <3> QED
            BY <3>1, <3>2 DEF PaidInv
    <2> QED
        BY <1>2, <2>1
<1>3. ASSUME NEW b \in Bookings, NEW i \in Intents, Gone(b, i)'
      PROVE  bookings'[b].state = "cancelled" \/ \E q \in Requests : Ending(q, b)'
    <2>1. Gone(b, i)
        BY <1>3
    <2>2. ASSUME NEW q \in Requests, Ending(q, b), q # r PROVE Ending(q, b)'
        BY <2>2 DEF Only, Ending, At
    <2> QED
        BY <2>1, <2>2 DEF PaidInv
<1> QED
    BY <1>1, <1>2, <1>3 DEF PaidInv

\* Only a cancellation of the intent lets go of a hold.
LEMMA SetIntentKeeps ==
    ASSUME TypeOK, NEW b \in Bookings, NEW i \in Intents, NEW status, NEW kind,
           SetIntent(b, i, status, kind), status # "canceled"
    PROVE  \A c \in Bookings, j \in Intents : Gone(c, j)' => Gone(c, j)
<1>1. ASSUME NEW c \in Bookings, NEW j \in Intents
      PROVE  intents'[c][j] = IF c = b /\ j = i THEN status ELSE intents[c][j]
    BY DEF SetIntent, TypeOK
<1> QED
    BY <1>1 DEF Gone

LEMMA PaidContinue ==
    ASSUME AtomicStore, PaidInv, CarryInv', IntentInv', Forward, NEW r \in Requests, Continue(r),
           \A b \in Bookings : bookings[b].state = "cancelled" => bookings'[b].state = "cancelled"
    PROVE  PaidInv'
<1>a. TypeOK /\ RailInv /\ WriteInv /\ DatesInv /\ FinalInv
    BY DEF PaidInv, IntentInv, CarryInv, HoldInv, FinalInv, WriteInv
<1>b. request[r] \in Busy /\ Only(r) /\ (Finish(r) \/ GoesOn(r))
    BY <1>a, BusyContinues, ContinueShape
<1>c. /\ request[r].b \in Bookings /\ request[r].todo \subseteq Intents
    BY <1>a, <1>b, BusyFields
<1>d. Clear(r) /\ ~At(r, "idle")
    BY <1>b DEF PaidInv, At, Busy, ProgramCounters
\* It found the booking cancelled if it did, and that does not change.
<1>e. ASSUME Again(r)'
      PROVE  request'[r].b \in Bookings /\ bookings'[request'[r].b].state = "cancelled"
    <2>1. GoesOn(r)
        BY <1>a, <1>b, <1>e, FinishOnly DEF Again, At, Idle
    <2>2. ~At(r, "confirm")
        BY <2>1 DEF PaidInv, CarryInv, FinalInv, GoesOn, Follows, At
    <2>3. Again(r) /\ request'[r].b = request[r].b
        BY <1>d, <1>e, <2>1, <2>2 DEF Again, GoesOn
    <2> QED
        BY <1>c, <2>3 DEF PaidInv
<1>1. CASE CancelIntent(r)
    <2>1. PICK i \in request[r].todo :
             \/ /\ SetIntent(request[r].b, i, "canceled", "payment_cancelled")
                /\ request' = [request EXCEPT ![r].pc = "cancel_record", ![r].i = i]
             \/ Finish(r) /\ UNCHANGED stripe
        BY <1>1 DEF CancelIntent
    <2>2. At(r, "cancel") /\ request[r].todo # {} /\ request[r].op = "cancel"
        BY <1>a, <1>1, <2>1, ClearingOnRail DEF CancelIntent, At
    <2>3. CASE Finish(r) /\ UNCHANGED stripe
        <3>1. Clear(r)'
            BY <1>a, <2>3, FinishOnly DEF Clear, At, Idle
        <3>2. \A b \in Bookings, j \in Intents : Gone(b, j)' => Gone(b, j)
            BY <2>3 DEF stripe, Gone
        <3>3. \A b \in Bookings : ~Ending(r, b)
            BY <2>2 DEF Ending, At
        <3> QED
            BY <1>b, <1>e, <3>1, <3>2, <3>3, PaidKept
    <2>4. ASSUME NEW b \in Bookings, b = request[r].b,
                 SetIntent(b, i, "canceled", "payment_cancelled"),
                 request' = [request EXCEPT ![r].pc = "cancel_record", ![r].i = i]
          PROVE  PaidInv'
        <3>1. /\ request'[r].b = b /\ request'[r].i = i /\ request'[r].pc = "cancel_record"
              /\ request'[r].todo = request[r].todo /\ request'[r].op = "cancel"
            BY <1>a, <1>b, <2>2, <2>4 DEF TypeOK, Busy
        <3>2. i \in Intents
            BY <1>c, <2>1
        <3>3. \A c \in Bookings, j \in Intents : Gone(c, j)' => Gone(c, j) \/ (c = b /\ j = i)
            BY <1>a, <2>4, <3>2 DEF SetIntent, TypeOK, Gone
        \* Two intents of a booking are never both open.
        <3>4. request[r].todo \subseteq {i}
            <4> SUFFICES ASSUME NEW j \in request[r].todo, j # i PROVE FALSE
                OBVIOUS
            <4>1. Known(b, i) /\ ~Gone(b, i) /\ Known(b, j) /\ ~Gone(b, j)
                BY <1>d, <2>1, <2>2, <2>4 DEF Clear
            <4>2. j \in Intents /\ (i < j \/ j < i)
                BY <1>c, <3>2, RentalAssumption
            <4> QED
                BY <3>2, <4>1, <4>2 DEF PaidInv, IntentInv, Replaced
        <3>5. Clear(r)'
            BY <3>1, <3>4 DEF Clear, At
        <3>6. ASSUME NEW q \in Requests, q # r PROVE Clear(q)'
            <4>1. request'[q] = request[q]
                BY <1>b, <3>6 DEF Only
            <4>2. ASSUME At(q, "cancel"), NEW j \in Intents, Gone(request[q].b, j)'
                  PROVE  Gone(request[q].b, j)
                <5>1. ~At(q, "idle") /\ request[q].op = "cancel" /\ request[q].b \in Bookings
                    BY <1>a, <4>2, ClearingOnRail DEF At
                <5>2. request[q].b # b
                    BY <1>a, <1>d, <2>2, <2>4, <3>6, <5>1, OneOnRail DEF Rails
                <5> QED
                    BY <3>3, <4>1, <4>2, <5>1, <5>2 DEF Gone
            <4> QED
                BY <4>1, <4>2, ClearStays
        <3>7. ASSUME NEW q \in Requests, Again(q)' PROVE bookings'[request'[q].b].state = "cancelled"
            <4>1. CASE q # r
                <5>1. request'[q] = request[q] /\ Again(q)
                    BY <1>b, <3>7, <4>1 DEF Only, Again, At
                <5>2. request[q].b \in Bookings
                    BY <1>a, <5>1, BusyFields DEF Again, TypeOK, At, Idle
                <5> QED
                    BY <5>1, <5>2 DEF PaidInv
            <4> QED
                BY <1>e, <3>7, <4>1
        <3>8. Ending(r, b)'
            BY <3>1 DEF Ending, At
        <3>9. ASSUME NEW c \in Bookings, NEW j \in Intents, Gone(c, j)'
              PROVE  bookings'[c].state = "cancelled" \/ \E q \in Requests : Ending(q, c)'
            <4>1. CASE c = b
                BY <3>8, <4>1
            <4>2. CASE c # b
                <5>1. Gone(c, j)
                    BY <3>3, <3>9, <4>2
                <5>2. ASSUME NEW q \in Requests, Ending(q, c) PROVE Ending(q, c)'
                    <6>1. q # r
                        BY <2>4, <4>2, <5>2 DEF Ending
                    <6> QED
                        BY <1>b, <5>2, <6>1 DEF Only, Ending, At
                <5> QED
                    BY <5>1, <5>2 DEF PaidInv
            <4> QED
                BY <4>1, <4>2
        <3> QED
            BY <3>5, <3>6, <3>7, <3>9 DEF PaidInv
    <2> QED
        BY <1>c, <2>1, <2>3, <2>4
<1>2. CASE ~CancelIntent(r)
    <2>1. \A b \in Bookings, j \in Intents : Gone(b, j)' => Gone(b, j)
        <3>1. CASE CreateIntent(r)
            <4>1. request[r].ref + 1 \in Intents
                BY <3>1 DEF CreateIntent
            <4>2. CASE SetIntent(request[r].b, request[r].ref + 1,
                                 "requires_payment_method", "payment_intent_created")
                BY <1>a, <1>c, <4>1, <4>2, SetIntentKeeps
            <4>3. CASE UNCHANGED stripe
                BY <4>3 DEF stripe, Gone
            <4> QED
                BY <3>1, <4>2, <4>3 DEF CreateIntent
        <3>2. CASE ~CreateIntent(r)
            <4>1. UNCHANGED intents
                BY <1>2, <3>2 DEF Continue, CreateBooking, UpdateBookingState, ConfirmBooking, WriteConfirmed,
                       ReadVehicle, Advance, WriteVehicle, RetrieveIntent, RecordSnapshot,
                       CheckIntentVehicle, ListIntents, ReuseIntent, RecordReused, OutOfIntents,
                       RecordCreated, ListCancellable, RecordCancelled, FinishCancel, TripCheckIn,
                       TripCheckOut, stores, stripe
            <4> QED
                BY <4>1 DEF Gone
        <3> QED
            BY <3>1, <3>2
    <2>2. ASSUME Clear(r)',
                 \A b \in Bookings : Ending(r, b) => Ending(r, b)' \/ bookings'[b].state = "cancelled"
          PROVE  PaidInv'
        BY <1>b, <1>e, <2>1, <2>2, PaidKept
    <2>3. CASE ListCancellable(r)
        <3>1. At(r, "list") /\ request[r].op = "cancel" /\ UNCHANGED intents
            BY <1>a, <2>3, ClearingOnRail DEF ListCancellable, At, stripe
        <3>2. /\ request'[r].pc = "cancel" /\ request'[r].b = request[r].b
              /\ request'[r].todo = {i \in Intents : payments[request[r].b][i] \in Cancellable}
            BY <1>a, <1>b, <2>3 DEF ListCancellable, TypeOK, Busy
        <3>3. ASSUME NEW j \in Intents, payments[request[r].b][j] \in Cancellable
              PROVE  Known(request[r].b, j) /\ ~Gone(request[r].b, j)
            <4>1. payments[request[r].b][j] \notin {"none", "cancelled"}
                BY <3>3 DEF Cancellable
            <4>2. ASSUME NEW q \in Requests, Releasing(q, request[r].b, j) PROVE FALSE
                <5>1. ~At(q, "idle") /\ request[q].op = "cancel" /\ request[q].b = request[r].b /\ q # r
                    BY <1>a, <3>1, <4>2, ClearingOnRail DEF Releasing, At
                <5> QED
                    BY <1>a, <1>d, <3>1, <5>1, OneOnRail DEF Rails
            <4> QED
                BY <1>c, <4>1, <4>2 DEF PaidInv, CarryInv, HoldInv, HoldRecords, IntentInv, RecordsSound
        <3>4. Clear(r)'
            BY <3>1, <3>2, <3>3 DEF Clear, At, Known, Gone
        <3>5. \A b \in Bookings : ~Ending(r, b)
            BY <3>1 DEF Ending, At
        <3> QED
            BY <2>2, <3>4, <3>5
    <2>4. CASE RecordCancelled(r)
        <3>1. At(r, "cancel_record") /\ request[r].op = "cancel"
            BY <1>a, <2>4, ClearingOnRail DEF RecordCancelled, At
        <3>2. /\ request'[r].pc = "cancel" /\ request'[r].b = request[r].b /\ request'[r].op = "cancel"
              /\ request'[r].todo = request[r].todo \ {request[r].i}
            BY <1>a, <1>b, <2>4, <3>1 DEF RecordCancelled, TypeOK, Busy
        <3>3. request'[r].todo = {}
            BY <1>d, <3>1, <3>2 DEF Clear
        <3>4. Clear(r)'
            BY <3>2, <3>3 DEF Clear, At
        <3>5. \A b \in Bookings : Ending(r, b) => Ending(r, b)'
            BY <3>2, <3>3 DEF Ending, At
        <3> QED
            BY <2>2, <3>4, <3>5
    <2>5. CASE FinishCancel(r)
        <3>1. At(r, "cancel") /\ request[r].op = "cancel" /\ UNCHANGED bookings
            BY <1>a, <2>5, ClearingOnRail DEF FinishCancel, At, stores
        <3>2. CASE request[r].state = "cancelled" /\ Finish(r)
            <4>1. bookings[request[r].b].state = "cancelled"
                BY <1>d, <3>1, <3>2 DEF PaidInv, Again
            <4>2. \A b \in Bookings : Ending(r, b) => bookings'[b].state = "cancelled"
                BY <3>1, <4>1 DEF Ending
            <4>3. Clear(r)'
                BY <1>a, <3>2, FinishOnly DEF Clear, At, Idle
            <4> QED
                BY <2>2, <4>2, <4>3
        <3>3. CASE SetState(r, "cancelled")
            <4>1. request'[r].pc = "update" /\ request'[r].b = request[r].b /\ request'[r].op = "cancel"
                BY <1>a, <1>b, <3>1, <3>3 DEF SetState, TypeOK, Busy
            <4>2. Clear(r)'
                BY <4>1 DEF Clear, At
            <4>3. \A b \in Bookings : Ending(r, b) => Ending(r, b)'
                BY <4>1 DEF Ending, At
            <4> QED
                BY <2>2, <4>2, <4>3
        <3> QED
            BY <2>5, <3>2, <3>3 DEF FinishCancel
    <2>6. CASE UpdateBookingState(r)
        <3>1. At(r, "update") /\ request[r].target = "cancelled"
            BY <1>a, <2>6 DEF UpdateBookingState, At, FinalInv, DatesInv, Harmless
        <3>2. ASSUME NEW b \in Bookings, b = request[r].b
              PROVE  bookings'[b].state = "cancelled"
            BY <1>a, <2>6, <3>1, <3>2 DEF UpdateBookingState, At, TypeOK
        <3>3. Clear(r)'
            <4>1. CASE Finish(r)
                BY <1>a, <4>1, FinishOnly DEF Clear, At, Idle
            <4>2. CASE GoesOn(r)
                BY <3>1, <4>2 DEF GoesOn, Follows, Clear, At
            <4> QED
                BY <1>b, <4>1, <4>2
        <3>4. \A b \in Bookings : Ending(r, b) => bookings'[b].state = "cancelled"
            BY <3>2 DEF Ending
        <3> QED
            BY <2>2, <3>3, <3>4
    <2>7. CASE ~ListCancellable(r) /\ ~RecordCancelled(r) /\ ~FinishCancel(r) /\ ~UpdateBookingState(r)
        <3>1. request[r].pc \notin {"list", "cancel", "cancel_record", "update", "update_write"}
            BY <1>2, <2>7
               DEF Continue, CreateBooking, ConfirmBooking, ReadVehicle, Advance, WriteVehicle,
                   RetrieveIntent, RecordSnapshot, CheckIntentVehicle, ListIntents, ReuseIntent,
                   RecordReused, CreateIntent, OutOfIntents, RecordCreated, TripCheckIn,
                   TripCheckOut, At
        <3>2. Clear(r)'
            BY <1>a, <1>b, <3>1, FinishOnly DEF GoesOn, Follows, Idle, Clear, At
        <3>3. \A b \in Bookings : ~Ending(r, b)
            BY <3>1 DEF Ending, At
        <3> QED
            BY <2>2, <3>2, <3>3
    <2> QED
        BY <2>3, <2>4, <2>5, <2>6, <2>7
<1> QED
    BY <1>1, <1>2

LEMMA PaidArrive ==
    ASSUME PaidInv, CarryInv', IntentInv', Forward, NEW r \in Requests, Arrive(r)
    PROVE  PaidInv'
<1>a. TypeOK
    BY DEF PaidInv, IntentInv
<1>1. Only(r) /\ (Entered(r) \/ request' = request)
    BY <1>a, ArriveShape
<1>2. UNCHANGED <<bookings, intents>>
    BY DEF Arrive, Checkout, Confirm, Approve, PaymentIntents, Cancel, CheckIn, CheckOut,
           Incident, Claim, Reconcile, Webhook, stores, stripe
<1>3. \A b \in Bookings, i \in Intents : Gone(b, i)' => Gone(b, i)
    BY <1>2 DEF Gone
<1>4. CASE request' = request
    BY <1>2, <1>4 DEF PaidInv, Clear, Again, Ending, At, Known, Gone
<1>5. CASE Entered(r)
    <2>1. Clear(r)'
        BY <1>5 DEF Entered, Enters, Clear, At
    <2>2. \A b \in Bookings : ~Ending(r, b)
        BY <1>5 DEF Entered, Ending
    <2>3. ASSUME Again(r)'
          PROVE  bookings[request'[r].b].state = "cancelled"
        <3>1. ASSUME NEW op, NEW b, NEW pc, NEW target, NEW i, Start(r, op, b, pc, target, i)
              PROVE  request'[r].state = bookings[b].state /\ request'[r].b = b
            <4>1. request'[r] = Activation(op, b, pc, target, i)
                BY <1>a, <3>1, StartOnly
            <4> QED
                BY <4>1 DEF Activation
        <3>2. ASSUME NEW b \in Bookings, NEW eligible \in Eligibility, Checkout(r, b, eligible)
              PROVE  request'[r].op # "cancel"
            BY <1>a, <3>2 DEF Checkout, Activation, TypeOK
        <3>3. ASSUME NEW e \in events, Webhook(r, e)
              PROVE  request'[r].op # "cancel"
            BY <1>a, <1>5, <3>3 DEF Webhook, Activation, TypeOK, Entered, At, Enters
        <3>4. PICK op, b, pc, target, i : Start(r, op, b, pc, target, i)
            BY <2>3, <3>2, <3>3
               DEF Again, Arrive, Confirm, Approve, PaymentIntents, Cancel, CheckIn, CheckOut,
                   Incident, Claim, Reconcile, StartLocked, StartUnlocked
        <3> QED
            BY <2>3, <3>1, <3>4 DEF Again
    <2> QED
        BY <1>1, <1>2, <1>3, <1>5, <2>1, <2>2, <2>3, PaidKept DEF Entered
<1> QED
    BY <1>1, <1>4, <1>5

LEMMA PaidStep ==
    NoRevival /\ AtomicStore /\ ~MayCrash /\ PaidInv /\ [Next]_vars => PaidInv'
<1> SUFFICES ASSUME NoRevival, AtomicStore, ~MayCrash, PaidInv, [Next]_vars PROVE PaidInv'
    OBVIOUS
<1>a. /\ TypeOK /\ CarryInv' /\ IntentInv' /\ Forward
      /\ \A b \in Bookings : bookings[b].state = "cancelled" => bookings'[b].state = "cancelled"
    BY CarryStep, IntentStep, OnwardStep, StaysCancelled DEF PaidInv, IntentInv, CarryInv
<1>1. CASE Environment \/ UNCHANGED vars
    <2>1. UNCHANGED <<request, bookings>>
        BY <1>1 DEF Environment, AuthorizeCard, DeclineCard, CaptureHold, Relist, vars, stores
    <2>2. \A b \in Bookings, i \in Intents : Gone(b, i)' => Gone(b, i)
        <3>1. ASSUME NEW b \in Bookings, NEW i \in Intents,
                     AuthorizeCard(b, i) \/ DeclineCard(b, i) \/ CaptureHold(b, i)
              PROVE  \A c \in Bookings, j \in Intents : Gone(c, j)' => Gone(c, j)
            BY <1>a, <3>1, SetIntentKeeps DEF AuthorizeCard, DeclineCard, CaptureHold
        <3>2. CASE UNCHANGED intents
            BY <3>2 DEF Gone
        <3> QED
            BY <1>1, <3>1, <3>2 DEF Environment, Relist, vars, stripe
    <2>3. ASSUME NEW q \in Requests PROVE Clear(q)'
        <3>1. ASSUME At(q, "cancel"), NEW i \in Intents, Gone(request[q].b, i)'
              PROVE  Gone(request[q].b, i)
            <4>1. request[q].b \in Bookings
                BY <1>a, <3>1, BusyAt, BusyFields DEF ProgramCounters
            <4> QED
                BY <2>1, <2>2, <3>1, <4>1 DEF Gone
        <3> QED
            BY <1>a, <2>1, <3>1, ClearStays
    <2>4. \A q \in Requests : Again(q)' => bookings'[request'[q].b].state = "cancelled"
        BY <2>1 DEF PaidInv, Again, At
    <2>5. \A b \in Bookings, i \in Intents : Gone(b, i)' =>
             bookings'[b].state = "cancelled" \/ \E q \in Requests : Ending(q, b)'
        BY <2>1, <2>2 DEF PaidInv, Ending, At
    <2> QED
        BY <1>a, <2>3, <2>4, <2>5 DEF PaidInv
<1> QED
    BY <1>a, <1>1, PaidArrive, PaidContinue DEF Next, Crash

\* On the atomic store, for any number of requests and intents and with cards
\* that decline: unless a handler works on the booking's payments, a booking
\* that was accepted still has the payment it was accepted for, held or
\* captured at Stripe.  confirmBooking attaches an intent on the strength of a
\* hold, and who lets go of that hold cancels the booking before it lets go of
\* the rail lock.  No route writes a state back, and no handler dies half way.
THEOREM AcceptedStaysPaid ==
    ASSUME NoRevival, AtomicStore, ~MayCrash PROVE Spec => []AcceptedIsPaid
<1>1. Init => PaidInv
    <2> SUFFICES ASSUME Init PROVE PaidInv
        OBVIOUS
    <2>1. TypeOK
        BY RentalAssumption
           DEF Init, TypeOK, BookingStates, TripStates, VehicleStates, PaymentStates, IntentStates
    <2>2. NoDoubleBooking
        BY DEF Init, NoDoubleBooking, ACTIVE_BOOKING_STATES
    <2>3. RailInv /\ DatesInv
        BY <2>1, <2>2 DEF Init, DatesInv, Harmless, RailInv, OnRail, At, Idle
    <2>4. FinalInv
        BY <2>3 DEF Init, FinalInv, WriteInv, At, Idle, Updating
    <2>5. HoldInv
        BY <2>3 DEF Init, HoldInv, At, Idle, HoldRecords, HoldEvents, Gone, Seen, Looked
    <2>6. IntentInv
        BY <2>1 DEF Init, IntentInv, Replaced, RecordsSound, EventsSound, RequestSound, Known, Gone,
               Idle, OnIntent, Choosing
    <2>7. CarryInv
        BY <2>4, <2>5 DEF Init, CarryInv, Attached, Carries, Idle, At, Carrying
    <2> QED
        BY <2>6, <2>7 DEF Init, PaidInv, Clear, Again, At, Idle, Gone
<1>2. PaidInv /\ [Next]_vars => PaidInv'
    BY PaidStep
<1>3. PaidInv => AcceptedIsPaid
    <2> SUFFICES ASSUME PaidInv, NEW b \in Bookings, railLock[b] = NoRequest, bookings[b].ref # 0,
                        bookings[b].state \in {"host_review", "confirmed", "in_trip"}
                 PROVE  intents[b][bookings[b].ref] \in Successful
        BY DEF AcceptedIsPaid
    <2>1. intents[b][bookings[b].ref] \in Settled
        BY DEF PaidInv, CarryInv, Attached
    <2>2. bookings[b].ref \in Intents
        BY DEF PaidInv, IntentInv, TypeOK
    <2>3. ASSUME NEW r \in Requests, Ending(r, b) PROVE FALSE
        BY <2>3, RentalAssumption
           DEF PaidInv, CarryInv, HoldInv, RailInv, OnRail, Ending, Rails
    <2>4. ~Gone(b, bookings[b].ref)
        BY <2>2, <2>3 DEF PaidInv
    <2> QED
        BY <2>1, <2>4 DEF Settled, Gone
<1> QED
    BY <1>1, <1>2, <1>3, PTL DEF Spec

-----------------------------------------------------------------------------
(* The promise to the renters.  On either store: a checkout still has its     *)
(* booking to itself when it creates it, and whoever cancels or writes late   *)
(* works on a booking that exists.                                            *)

Deciding(r) == At(r, "confirm_write") \/ (~At(r, "idle") /\ request[r].op = "cancel")

CalendarInv ==
    /\ WriteInv
    /\ \A r \in Requests : At(r, "create") => bookings[request[r].b].state = "none"
    /\ \A q, r \in Requests :
          At(q, "create") /\ At(r, "create") /\ request[q].b = request[r].b => q = r
    /\ \A r \in Requests : Deciding(r) => bookings[request[r].b].state # "none"
    /\ AtomicStore => \A r \in Requests : ~At(r, "confirm_write")

\* How a handler may change the booking it works on.
Decided(b, old, new) ==
    \/ new = old
    \/ old = "none" /\ ~HasConflict(b) /\ new = "pending_payment_authorization"
    \/ old # "none" /\ new = "cancelled"
    \/ old = "pending_payment_authorization" /\ new = "host_review"
    \/ old \in Confirmable /\ new = "confirmed"
    \/ ~AtomicStore /\ old # "none" /\ ~HasConflict(b) /\ new \in {"host_review", "confirmed"}

LEMMA DecidedBooking ==
    ASSUME CalendarInv, NEW r \in Requests, Continue(r)
    PROVE  /\ request[r].b \in Bookings
           /\ \A c \in Bookings \ {request[r].b} : bookings'[c] = bookings[c]
           /\ Decided(request[r].b, bookings[request[r].b].state, bookings'[request[r].b].state)
<1> DEFINE b == request[r].b
<1>a. TypeOK /\ Harmless(r) /\ DatesInv /\ WriteInv
    BY DEF CalendarInv, WriteInv, DatesInv
<1>b. request[r] \in Busy
    BY <1>a, BusyContinues
<1>c. b \in Bookings
    BY <1>a, <1>b, BusyFields
<1>d. CASE UNCHANGED bookings
    BY <1>c, <1>d DEF Decided
<1>1. CASE CreateBooking(r)
    <2>1. request[r].target = "pending_payment_authorization" /\ bookings[b].state = "none"
        BY <1>a, <1>1 DEF CreateBooking, At, Harmless, CalendarInv
    <2>2. CASE HasConflict(b)
        BY <1>1, <1>d, <2>2 DEF CreateBooking
    <2>3. CASE ~HasConflict(b)
        <3>1. bookings' = [bookings EXCEPT ![b].state = request[r].target]
            BY <1>1, <2>3 DEF CreateBooking
        <3> QED
            BY <1>a, <1>c, <2>1, <2>3, <3>1 DEF Decided, TypeOK
    <2> QED
        BY <2>2, <2>3
<1>2. CASE UpdateBookingState(r)
    <2>1. request[r].target = "cancelled" /\ request[r].op = "cancel" /\ ~At(r, "idle")
        BY <1>a, <1>2 DEF UpdateBookingState, At, Harmless, Updating, WriteInv
    <2>2. bookings[b].state # "none"
        BY <2>1 DEF CalendarInv, Deciding
    <2>3. CASE UNCHANGED stores
        BY <1>d, <2>3 DEF stores
    <2>4. CASE bookings' = [bookings EXCEPT ![b] =
                 [state |-> request[r].target,
                  ref   |-> IF AtomicStore THEN @.ref ELSE request[r].ref]]
        BY <1>a, <1>c, <2>1, <2>2, <2>4 DEF Decided, TypeOK
    <2> QED
        BY <1>2, <2>3, <2>4 DEF UpdateBookingState
<1>3. CASE ConfirmBooking(r)
    <2>1. CASE UNCHANGED stores
        BY <1>d, <2>1 DEF stores
    <2>2. ASSUME NEW current, WriteConfirmed(r, current), ~UNCHANGED bookings
          PROVE  /\ ~HasConflict(b)
                 /\ \A c \in Bookings \ {b} : bookings'[c] = bookings[c]
                 /\ bookings'[b].state \in {"confirmed", "host_review"}
                 /\ current.state = "host_review" => bookings'[b].state = "confirmed"
        <3>1. ~HasConflict(b) /\ bookings' = [bookings EXCEPT ![b] = ConfirmedBooking(r, current)]
            BY <2>2 DEF WriteConfirmed
        <3>2. bookings'[b] = ConfirmedBooking(r, current)
            BY <1>a, <1>c, <3>1 DEF TypeOK
        <3>3. \A c \in Bookings \ {b} : bookings'[c] = bookings[c]
            BY <1>a, <1>c, <3>1 DEF TypeOK
        <3> QED
            BY <3>1, <3>2, <3>3 DEF ConfirmedBooking
    <2>3. CASE /\ At(r, "confirm") /\ bookings[b].state \in Confirmable
               /\ WriteConfirmed(r, bookings[b]) /\ ~UNCHANGED bookings
        BY <1>c, <2>2, <2>3 DEF Decided, Confirmable
    <2>4. CASE /\ At(r, "confirm_write") /\ ~UNCHANGED bookings
               /\ WriteConfirmed(r, [state |-> request[r].state, ref |-> request[r].ref])
        <3>1. bookings[b].state # "none"
            BY <2>4 DEF CalendarInv, Deciding
        <3>2. ~AtomicStore
            BY <2>4 DEF CalendarInv
        <3> QED
            BY <1>c, <2>2, <2>4, <3>1, <3>2 DEF Decided
    <2> QED
        BY <1>3, <1>d, <2>1, <2>3, <2>4 DEF ConfirmBooking
<1>4. CASE ~CreateBooking(r) /\ ~UpdateBookingState(r) /\ ~ConfirmBooking(r)
    <2>1. UNCHANGED bookings
        BY <1>4 DEF Continue, ReadVehicle, Advance, WriteVehicle, RetrieveIntent, RecordSnapshot,
               CheckIntentVehicle, ListIntents, ReuseIntent, RecordReused, CreateIntent,
               OutOfIntents, RecordCreated, ListCancellable, CancelIntent, RecordCancelled,
               FinishCancel, TripCheckIn, TripCheckOut, stores
    <2> QED
        BY <1>d, <2>1
<1> QED
    BY <1>1, <1>2, <1>3, <1>4

\* A step of a request that is not creating a booking afterwards.
LEMMA CalendarKept ==
    ASSUME CalendarInv, WriteInv', NEW r \in Requests, Only(r),
           \A b \in Bookings : bookings[b].state = "none" =>
               bookings'[b].state = "none" \/ (At(r, "create") /\ request[r].b = b),
           \A b \in Bookings : bookings[b].state # "none" => bookings'[b].state # "none",
           request'[r].pc # "create", AtomicStore => request'[r].pc # "confirm_write",
           Deciding(r)' => request'[r].b \in Bookings /\ bookings[request'[r].b].state # "none"
    PROVE  CalendarInv'
<1>0. TypeOK
    BY DEF CalendarInv, WriteInv, RailInv
<1>1. \A q \in Requests : ~At(q, "idle") => request[q].b \in Bookings
    BY <1>0, BusyFields DEF TypeOK, At, Idle
<1>2. ASSUME NEW q \in Requests, At(q, "create")'
      PROVE  q # r /\ At(q, "create") /\ request'[q] = request[q] /\ (bookings[request[q].b].state = "none")'
    <2>1. q # r /\ request'[q] = request[q] /\ At(q, "create")
        BY <1>2 DEF Only, At
    <2>2. request[q].b \in Bookings /\ bookings[request[q].b].state = "none"
        BY <1>1, <2>1 DEF CalendarInv, At
    <2>3. ~(At(r, "create") /\ request[r].b = request[q].b)
        BY <2>1 DEF CalendarInv
    <2> QED
        BY <2>1, <2>2, <2>3
<1>3. \A q, s \in Requests :
         At(q, "create")' /\ At(s, "create")' /\ (request[q].b = request[s].b)' => q = s
    BY <1>2 DEF CalendarInv
<1>4. AtomicStore => \A q \in Requests : ~At(q, "confirm_write")'
    BY DEF CalendarInv, Only, At
<1>5. ASSUME NEW q \in Requests, Deciding(q)'
      PROVE  bookings'[request'[q].b].state # "none"
    <2>1. CASE q = r
        BY <1>5, <2>1
    <2>2. CASE q # r
        <3>1. request'[q] = request[q]
            BY <2>2 DEF Only
        <3>2. Deciding(q) /\ ~At(q, "idle")
            BY <1>5, <3>1 DEF Deciding, At
        <3>3. request[q].b \in Bookings /\ bookings[request[q].b].state # "none"
            BY <1>1, <3>2 DEF CalendarInv
        <3> QED
            BY <3>1, <3>3
    <2> QED
        BY <2>1, <2>2
<1> QED
    BY <1>2, <1>3, <1>4, <1>5 DEF CalendarInv

\* Requests about a booking that is read first.
LEMMA CalendarArrives ==
    ASSUME NoRevival, CalendarInv, WriteInv', NEW r \in Requests, Arrive(r)
    PROVE  CalendarInv'
<1>a. TypeOK
    BY DEF CalendarInv, WriteInv, RailInv
<1>b. UNCHANGED bookings
    BY DEF Arrive, Checkout, Confirm, Approve, PaymentIntents, Cancel, CheckIn, CheckOut,
           Incident, Claim, Reconcile, Webhook, stores
<1>c. Only(r)
    BY <1>a, ArriveShape
<1>1. ASSUME NEW op, NEW b \in Bookings, NEW pc, NEW target, NEW i,
             Start(r, op, b, pc, target, i), pc \notin {"create", "confirm_write"}
      PROVE  CalendarInv'
    <2>1. request'[r] = Activation(op, b, pc, target, i)
        BY <1>a, <1>1, StartOnly
    <2>2. request'[r].b = b /\ request'[r].pc = pc
        BY <2>1 DEF Activation
    <2>3. bookings[b].state # "none"
        BY <1>1 DEF Start
    <2> QED
        BY <1>1, <1>b, <1>c, <2>2, <2>3, CalendarKept
<1>2. ASSUME NEW b \in Bookings,
             Confirm(r, b) \/ Approve(r, b) \/ PaymentIntents(r, b) \/ Cancel(r, b)
             \/ CheckIn(r, b) \/ CheckOut(r, b) \/ Incident(r, b) \/ Claim(r, b)
      PROVE  CalendarInv'
    BY <1>1, <1>2 DEF Confirm, Approve, PaymentIntents, Cancel, CheckIn, CheckOut, Incident, Claim,
                      StartLocked
<1>3. ASSUME NEW b \in Bookings, NEW i \in Intents, Reconcile(r, b, i)
      PROVE  CalendarInv'
    BY <1>1, <1>3 DEF Reconcile, StartUnlocked
<1>4. ASSUME NEW e \in events, Webhook(r, e)
      PROVE  CalendarInv'
    <2>1. CASE request' = request
        BY <1>b, <2>1 DEF CalendarInv, Deciding, At
    <2>2. CASE request' # request
        <3>1. request'[r] = Activation("webhook", e[1], "advance", "none", e[2])
            BY <1>a, <1>4, <2>2 DEF Webhook, TypeOK
        <3>2. request'[r].op = "webhook" /\ request'[r].pc = "advance"
            BY <3>1 DEF Activation
        <3> QED
            BY <1>b, <1>c, <3>2, CalendarKept DEF Deciding, At
    <2> QED
        BY <2>1, <2>2
<1>5. ASSUME NEW b \in Bookings, NEW eligible \in Eligibility, Checkout(r, b, eligible)
      PROVE  CalendarInv'
    <2>1. /\ bookings[b].state = "none"
          /\ \A q \in Requests : At(q, "create") => request[q].b # b
        BY <1>5 DEF Checkout
    <2>2. request'[r].b = b /\ request'[r].op = "checkout" /\ request'[r].pc = "create"
        BY <1>a, <1>5 DEF Checkout, Activation, TypeOK
    <2>3. \A q \in Requests : q # r => request'[q] = request[q]
        BY <1>c DEF Only
    <2>4. \A q \in Requests : At(q, "create")' => q = r \/ At(q, "create")
        BY <2>3 DEF At
    <2>5. \A q \in Requests : At(q, "create")' => bookings'[request'[q].b].state = "none"
        BY <1>b, <2>1, <2>2, <2>3, <2>4 DEF CalendarInv
    <2>6. \A q, s \in Requests :
             At(q, "create")' /\ At(s, "create")' /\ request'[q].b = request'[s].b => q = s
        BY <2>1, <2>2, <2>3, <2>4 DEF CalendarInv
    <2>7. \A q \in Requests : Deciding(q)' => q # r /\ Deciding(q)
        BY <2>2, <2>3 DEF Deciding, At
    <2>8. \A q \in Requests : Deciding(q)' => bookings'[request'[q].b].state # "none"
        BY <1>b, <2>3, <2>7 DEF CalendarInv
    <2>9. AtomicStore => \A q \in Requests : ~At(q, "confirm_write")'
        BY <2>2, <2>3 DEF CalendarInv, At
    <2> QED
        BY <2>5, <2>6, <2>8, <2>9 DEF CalendarInv
<1> QED
    BY <1>2, <1>3, <1>4, <1>5 DEF Arrive

LEMMA CalendarStep == NoRevival /\ CalendarInv /\ [Next]_vars => CalendarInv'
<1> SUFFICES ASSUME NoRevival, CalendarInv, [Next]_vars PROVE CalendarInv'
    OBVIOUS
<1>a. TypeOK /\ DatesInv /\ WriteInv /\ WriteInv'
    BY WriteStep DEF CalendarInv, WriteInv, RailInv
<1>1. ASSUME NEW r \in Requests, Continue(r) PROVE CalendarInv'
    <2>1. Only(r) /\ (Finish(r) \/ GoesOn(r)) /\ request[r] \in Busy
        BY <1>a, <1>1, ContinueShape, BusyContinues
    <2>2. ~At(r, "idle") /\ request[r].b \in Bookings
        BY <1>a, <2>1, BusyFields DEF Busy, ProgramCounters, At
    <2>3. /\ \A c \in Bookings \ {request[r].b} : bookings'[c] = bookings[c]
          /\ Decided(request[r].b, bookings[request[r].b].state, bookings'[request[r].b].state)
        BY <1>1, DecidedBooking
    <2>4. \A b \in Bookings : bookings[b].state # "none" => bookings'[b].state # "none"
        BY <2>3 DEF Decided
    <2>5. bookings[request[r].b].state = "none" =>
             bookings'[request[r].b].state = "none" \/ At(r, "create")
        <3>1. CASE CreateBooking(r)
            BY <3>1 DEF CreateBooking
        <3>2. CASE UpdateBookingState(r)
            <4>1. ~At(r, "idle") /\ request[r].op = "cancel"
                BY <2>2, <3>2 DEF UpdateBookingState, At, WriteInv, CalendarInv, Updating
            <4> QED
                BY <4>1 DEF CalendarInv, Deciding
        <3>3. CASE ConfirmBooking(r)
            <4>1. bookings[request[r].b].state = "none" => UNCHANGED bookings
                BY <3>3 DEF ConfirmBooking, CalendarInv, Deciding, Confirmable, stores
            <4> QED
                BY <4>1
        <3>4. CASE ~CreateBooking(r) /\ ~UpdateBookingState(r) /\ ~ConfirmBooking(r)
            BY <1>1, <3>4 DEF Continue, ReadVehicle, Advance, WriteVehicle, RetrieveIntent,
               RecordSnapshot, CheckIntentVehicle, ListIntents, ReuseIntent, RecordReused,
               CreateIntent, OutOfIntents, RecordCreated, ListCancellable, CancelIntent,
               RecordCancelled, FinishCancel, TripCheckIn, TripCheckOut, stores
        <3> QED
            BY <3>1, <3>2, <3>3, <3>4
    <2>6. \A b \in Bookings : bookings[b].state = "none" =>
             bookings'[b].state = "none" \/ (At(r, "create") /\ request[r].b = b)
        BY <2>3, <2>5
    <2>7. request'[r].pc # "create"
        BY <1>a, <2>1, FinishOnly DEF GoesOn, Follows, Idle
    <2>8. Deciding(r)' => request'[r].b = request[r].b /\ bookings[request[r].b].state # "none"
        <3>1. CASE Finish(r)
            BY <1>a, <3>1, FinishOnly DEF Deciding, At, Idle
        <3>2. CASE GoesOn(r) /\ request[r].op = "cancel"
            BY <2>2, <3>2 DEF GoesOn, CalendarInv, Deciding
        <3>3. CASE GoesOn(r) /\ request[r].op # "cancel"
            <4>1. Deciding(r)' => At(r, "confirm") /\ request'[r].pc = "confirm_write"
                BY <3>3 DEF Deciding, At, GoesOn, Follows
            <4>2. At(r, "confirm") /\ request'[r].pc = "confirm_write" => ConfirmBooking(r)
                BY <1>1 DEF Continue, CreateBooking, UpdateBookingState, ReadVehicle, Advance,
                   WriteVehicle, RetrieveIntent, RecordSnapshot, CheckIntentVehicle, ListIntents,
                   ReuseIntent, RecordReused, CreateIntent, OutOfIntents, RecordCreated,
                   ListCancellable, CancelIntent, RecordCancelled, FinishCancel, TripCheckIn,
                   TripCheckOut, At
            <4>3. ConfirmBooking(r) /\ At(r, "confirm") /\ ~Finish(r) =>
                     bookings[request[r].b].state \in Confirmable
                BY DEF ConfirmBooking, WriteConfirmed, At
            <4>4. Finish(r) => request'[r].pc # "confirm_write"
                BY <1>a, FinishOnly DEF Idle
            <4> QED
                BY <3>3, <4>1, <4>2, <4>3, <4>4 DEF GoesOn, Confirmable
        <3> QED
            BY <2>1, <3>1, <3>2, <3>3
    <2>9. AtomicStore => request'[r].pc # "confirm_write"
        <3>1. CASE Finish(r)
            BY <1>a, <3>1, FinishOnly DEF Idle
        <3>2. CASE GoesOn(r) /\ At(r, "confirm") /\ AtomicStore
            <4>1. ConfirmBooking(r)
                BY <1>1, <3>2 DEF Continue, CreateBooking, UpdateBookingState, ReadVehicle, Advance,
                   WriteVehicle, RetrieveIntent, RecordSnapshot, CheckIntentVehicle, ListIntents,
                   ReuseIntent, RecordReused, CreateIntent, OutOfIntents, RecordCreated,
                   ListCancellable, CancelIntent, RecordCancelled, FinishCancel, TripCheckIn,
                   TripCheckOut, At
            <4>2. Finish(r)
                BY <3>2, <4>1 DEF ConfirmBooking, WriteConfirmed, At
            <4> QED
                BY <3>1, <4>2
        <3>3. CASE GoesOn(r) /\ ~At(r, "confirm")
            BY <3>3 DEF GoesOn, Follows, At
        <3> QED
            BY <2>1, <3>1, <3>2, <3>3
    <2> QED
        BY <1>a, <2>1, <2>2, <2>4, <2>6, <2>7, <2>8, <2>9, CalendarKept
<1>2. ASSUME NEW r \in Requests, Crash(r) PROVE CalendarInv'
    <2>1. UNCHANGED bookings /\ Only(r) /\ request'[r] = Idle
        BY <1>a, <1>2, FinishOnly DEF Crash, stores
    <2> QED
        BY <1>a, <2>1, CalendarKept DEF Idle, At, Deciding
<1>3. ASSUME NEW r \in Requests, Arrive(r) PROVE CalendarInv'
    BY <1>a, <1>3, CalendarArrives
<1>4. CASE Environment \/ UNCHANGED vars
    <2>1. UNCHANGED <<request, bookings>>
        BY <1>4 DEF Environment, AuthorizeCard, DeclineCard, CaptureHold, Relist, vars, stores
    <2> QED
        BY <1>a, <2>1 DEF CalendarInv, At, Deciding
<1> QED
    BY <1>1, <1>2, <1>3, <1>4 DEF Next

-----------------------------------------------------------------------------
(* What the renters are told.                                                *)

Told == [b \in Bookings |-> ToldRenter(bookings[b].state)]

LEMMA ToldStates ==
    /\ ToldRenter("none") = "free"
    /\ ToldRenter("pending_payment_authorization") = "requested"
    /\ ToldRenter("host_review") = "in_review"
    /\ ToldRenter("confirmed") = "accepted"
    /\ ToldRenter("cancelled") = "over"
    /\ \A s : s # "none" => ToldRenter(s) # "free"
    /\ \A s : ToldRenter(s) \in Promise!Taken => s \in ACTIVE_BOOKING_STATES
BY DEF ToldRenter, Promise!Taken, ACTIVE_BOOKING_STATES

LEMMA NoConflictIsFree ==
    ASSUME NEW b \in Bookings, ~HasConflict(b)
    PROVE  Promise!DatesFree(b)
BY ToldStates DEF HasConflict, Promise!DatesFree

\* A handler that decides on a booking takes a step of the promise, or none.
LEMMA PromiseContinues ==
    ASSUME CalendarInv, NEW r \in Requests, Continue(r)
    PROVE  [Promise!Next]_Told
<1> DEFINE b == request[r].b
           old == bookings[b].state
           new == bookings'[b].state
<1>1. /\ b \in Bookings /\ Decided(b, old, new)
      /\ \A c \in Bookings \ {b} : bookings'[c] = bookings[c]
    BY DecidedBooking
<1>2. \A c \in Bookings \ {b} : Told'[c] = Told[c]
    BY <1>1 DEF Told
<1>3. Told[b] = ToldRenter(old) /\ Told'[b] = ToldRenter(new)
    BY <1>1 DEF Told
<1>4. Told' = [Told EXCEPT ![b] = ToldRenter(new)]
    BY <1>1, <1>2, <1>3 DEF Told
<1>5. CASE new = old
    <2>1. Told' = Told
        BY <1>3, <1>4, <1>5 DEF Told
    <2> QED
        BY <2>1
<1>6. CASE old = "none" /\ ~HasConflict(b) /\ new = "pending_payment_authorization"
    <2>1. Promise!Request(b)
        BY <1>1, <1>3, <1>4, <1>6, ToldStates, NoConflictIsFree
           DEF Promise!Request, Promise!Become, Told
    <2> QED
        BY <1>1, <2>1 DEF Promise!Next
<1>7. CASE old # "none" /\ new = "cancelled"
    <2>1. Promise!End(b)
        BY <1>1, <1>3, <1>4, <1>7, ToldStates DEF Promise!End, Promise!Become, Told
    <2> QED
        BY <1>1, <2>1 DEF Promise!Next
<1>8. CASE old = "pending_payment_authorization" /\ new = "host_review"
    <2>1. Promise!Review(b)
        BY <1>1, <1>3, <1>4, <1>8, ToldStates DEF Promise!Review, Promise!Become, Told
    <2> QED
        BY <1>1, <2>1 DEF Promise!Next
<1>9. CASE old \in Confirmable /\ new = "confirmed"
    <2>1. Promise!Accept(b)
        BY <1>1, <1>3, <1>4, <1>9, ToldStates DEF Promise!Accept, Promise!Become, Told, Confirmable
    <2> QED
        BY <1>1, <2>1 DEF Promise!Next
<1>10. CASE /\ ~AtomicStore /\ old # "none" /\ ~HasConflict(b)
            /\ new \in {"host_review", "confirmed"}
    <2>1. Promise!DecideLate(b)
        BY <1>1, <1>3, <1>4, <1>10, ToldStates, NoConflictIsFree
           DEF Promise!DecideLate, Promise!Become, Told
    <2> QED
        BY <1>1, <2>1 DEF Promise!Next
<1> QED
    BY <1>1, <1>5, <1>6, <1>7, <1>8, <1>9, <1>10 DEF Decided

LEMMA PromiseStep == CalendarInv /\ [Next]_vars => [Promise!Next]_Told
<1> SUFFICES ASSUME CalendarInv, [Next]_vars PROVE [Promise!Next]_Told
    OBVIOUS
<1>1. ASSUME NEW r \in Requests, Continue(r) PROVE [Promise!Next]_Told
    BY <1>1, PromiseContinues
<1>2. CASE \/ \E r \in Requests : Arrive(r) \/ Crash(r)
           \/ Environment \/ UNCHANGED vars
    <2>1. UNCHANGED bookings
        BY <1>2 DEF Arrive, Checkout, Confirm, Approve, PaymentIntents, Cancel, CheckIn, CheckOut,
               Incident, Claim, Reconcile, Webhook, Crash, Environment, AuthorizeCard,
               DeclineCard, CaptureHold, Relist, stores, vars
    <2> QED
        BY <2>1 DEF Told
<1> QED
    BY <1>1, <1>2 DEF Next

LEMMA PromiseInit == Init => CalendarInv /\ Promise!Init
<1> SUFFICES ASSUME Init PROVE CalendarInv /\ Promise!Init
    OBVIOUS
<1>1. TypeOK
    BY RentalAssumption
       DEF Init, TypeOK, BookingStates, TripStates, VehicleStates, PaymentStates, IntentStates
<1>2. DatesInv
    <2>1. NoDoubleBooking
        BY DEF Init, NoDoubleBooking, ACTIVE_BOOKING_STATES
    <2> QED
        BY <1>1, <2>1 DEF Init, DatesInv, Harmless, Idle
<1>3. CalendarInv
    BY <1>1, <1>2 DEF Init, CalendarInv, WriteInv, RailInv, OnRail, Deciding, At, Idle, Updating
<1>4. Promise!Init
    BY ToldStates DEF Init, Promise!Init
<1> QED
    BY <1>3, <1>4

\* On either store, without the routes that write a state back and wherever
\* handlers die: checkouts, payments, webhooks, reviews and cancellations show
\* their renters the calendar of Reservations.
THEOREM RenterPromiseKept == ASSUME NoRevival PROVE Spec => KeepsPromise
<1>1. CalendarInv /\ [Next]_vars => CalendarInv'
    BY CalendarStep
<1> QED
    BY <1>1, PromiseInit, PromiseStep, PTL DEF Spec, KeepsPromise, Promise!Spec, Told

\* The promise is worth something: whatever keeps it never tells two renters
\* that they have overlapping dates, and on the atomic store what has ended
\* stays over.
THEOREM PromiseIsExclusive == Promise!Spec => []Promise!DatesApart /\ Promise!EndedIsOver
<1> DEFINE Becomes(b, status) ==
              Told'[b] = status /\ \A c \in Bookings \ {b} : Told'[c] = Told[c]
<1>1. ASSUME NEW b \in Bookings, NEW status, Promise!Become(b, status)
      PROVE  Becomes(b, status)
    <2>1. Told' = [Told EXCEPT ![b] = status]
        BY <1>1 DEF Promise!Become, Told
    <2>2. DOMAIN Told = Bookings
        BY DEF Told
    <2> QED
        BY <2>1, <2>2
<1>2. Promise!DatesApart <=>
         \A b, c \in Bookings : b # c /\ <<b, c>> \in Overlapping =>
             ~(Told[b] \in Promise!Taken /\ Told[c] \in Promise!Taken)
    BY DEF Promise!DatesApart, Told
<1>3. Promise!DatesApart' <=>
         \A b, c \in Bookings : b # c /\ <<b, c>> \in Overlapping =>
             ~(Told'[b] \in Promise!Taken /\ Told'[c] \in Promise!Taken)
    BY DEF Promise!DatesApart, Told
<1>4. Promise!Init => Promise!DatesApart
    <2>1. Promise!Init => Told = [b \in Bookings |-> "free"]
        BY DEF Promise!Init, Told
    <2> QED
        BY <1>2, <2>1 DEF Promise!Taken
<1>5. ASSUME Promise!DatesApart, [Promise!Next]_Told
      PROVE  Promise!DatesApart'
    <2>1. ASSUME NEW b \in Bookings, NEW status, Becomes(b, status),
                 status \in Promise!Taken => Promise!DatesFree(b) \/ Told[b] \in Promise!Taken
          PROVE  Promise!DatesApart'
        <3>1. \A c \in Bookings \ {b} : <<c, b>> \in Overlapping => <<b, c>> \in Overlapping
            BY RentalAssumption
        <3>2. Promise!DatesFree(b) =>
                 \A c \in Bookings \ {b} : <<b, c>> \in Overlapping => Told[c] \notin Promise!Taken
            BY DEF Promise!DatesFree, Told
        <3> QED
            BY <1>2, <1>3, <1>5, <2>1, <3>1, <3>2
    <2>2. ASSUME NEW b \in Bookings, Promise!Request(b) PROVE Promise!DatesApart'
        BY <1>1, <2>1, <2>2 DEF Promise!Request
    <2>3. ASSUME NEW b \in Bookings, Promise!Review(b) \/ Promise!Accept(b)
          PROVE  Promise!DatesApart'
        <3>1. Told[b] \in Promise!Taken
            BY <2>3 DEF Promise!Review, Promise!Accept, Promise!Taken, Told
        <3> QED
            BY <1>1, <2>1, <2>3, <3>1 DEF Promise!Review, Promise!Accept
    <2>4. ASSUME NEW b \in Bookings, Promise!End(b) PROVE Promise!DatesApart'
        BY <1>1, <2>1, <2>4 DEF Promise!End, Promise!Taken
    <2>5. ASSUME NEW b \in Bookings, Promise!DecideLate(b) PROVE Promise!DatesApart'
        BY <1>1, <2>1, <2>5 DEF Promise!DecideLate
    <2>6. CASE UNCHANGED Told
        BY <1>2, <1>3, <1>5, <2>6
    <2> QED
        BY <1>5, <2>2, <2>3, <2>4, <2>5, <2>6 DEF Promise!Next
<1>6. ASSUME [Promise!Next]_Told, AtomicStore, NEW b \in Bookings, Told[b] = "over"
      PROVE  Told'[b] = "over"
    <2>1. ASSUME NEW c \in Bookings, NEW status, Promise!Become(c, status),
                 c = b => status = "over"
          PROVE  Told'[b] = "over"
        BY <1>1, <1>6, <2>1
    <2>2. ASSUME NEW c \in Bookings,
                 Promise!Request(c) \/ Promise!Review(c) \/ Promise!Accept(c)
          PROVE  Told'[b] = "over"
        <3>1. c # b
            BY <1>6, <2>2 DEF Promise!Request, Promise!Review, Promise!Accept, Told
        <3> QED
            BY <2>1, <2>2, <3>1 DEF Promise!Request, Promise!Review, Promise!Accept
    <2>3. ASSUME NEW c \in Bookings, Promise!End(c) PROVE Told'[b] = "over"
        BY <2>1, <2>3 DEF Promise!End
    <2>4. ASSUME NEW c \in Bookings PROVE ~Promise!DecideLate(c)
        BY <1>6 DEF Promise!DecideLate
    <2> QED
        BY <1>6, <2>2, <2>3, <2>4 DEF Promise!Next
<1>7. [Promise!Next]_Told =>
         [AtomicStore => \A b \in Bookings : Told[b] = "over" => Told'[b] = "over"]_Told
    BY <1>6
<1> QED
    BY <1>4, <1>5, <1>7, PTL DEF Promise!Spec, Promise!EndedIsOver, Told

-----------------------------------------------------------------------------
(* Handlers come to an end.  Each step of a handler leaves fewer steps to it, *)
(* whatever the other requests do in between, and only a handler at work on a *)
(* booking holds its rail lock.  Under the fairness of FairSpec this is what  *)
(* RailLockReleased rests on.                                                 *)

\* The most steps that are left to a handler.
Rank(a) ==
    CASE a.pc = "idle" -> 0
      [] a.pc \in {"create", "confirm_write", "vehicle_write", "new_record"} -> 1
      [] a.pc \in {"confirm", "new_intent"} -> 2
      [] a.pc = "vehicle" -> 3
      [] a.pc \in {"advance", "update_write"} -> 4
      [] a.pc \in {"update", "record", "intent_record"} -> 5
      [] a.pc \in {"retrieve", "trip_in", "trip_out"} -> 6
      [] a.pc = "intent" -> 6 + Cardinality(a.todo)
      [] a.pc = "intents" -> 7 + Cardinality(Intents)
      [] a.pc = "intent_vehicle" -> 8 + Cardinality(Intents)
      [] a.pc = "cancel" -> 6 + 2 * Cardinality(a.todo)
      [] a.pc = "cancel_record" -> 5 + 2 * Cardinality(a.todo)
      [] a.pc = "list" -> 7 + 2 * Cardinality(Intents)

Advances(r) == Rank(request'[r]) < Rank(request[r])

\* A step of a handler leaves it fewer steps, and the other requests leave a
\* handler that is at work where it is.
HandlersAdvance ==
    [][\A r \in Requests :
          /\ Continue(r) => Advances(r)
          /\ ~At(r, "idle") => request'[r] = request[r] \/ Advances(r)]_vars

\* No handler has more than that many steps left, and whoever holds the rail
\* lock of a booking is a handler at work on it.
HandlersEnd ==
    /\ \A r \in Requests : Rank(request[r]) \in 0 .. 8 + 2 * Cardinality(Intents)
    /\ \A b \in Bookings, r \in Requests : railLock[b] = r => ~At(r, "idle") /\ request[r].b = b

LEMMA TodoSize ==
    ASSUME NEW todo \in SUBSET Intents
    PROVE  /\ Cardinality(Intents) \in Nat /\ Cardinality(todo) \in 0 .. Cardinality(Intents)
           /\ \A i \in todo : Cardinality(todo \ {i}) = Cardinality(todo) - 1
<1>1. IsFiniteSet(Intents)
    BY RentalAssumption
<1>2. Cardinality(Intents) \in Nat /\ IsFiniteSet(todo) /\ Cardinality(todo) <= Cardinality(Intents)
    BY <1>1, FS_Subset, FS_CardinalityType
<1>3. Cardinality(todo) \in Nat
    BY <1>2, FS_CardinalityType
<1>4. \A i \in todo : Cardinality(todo \ {i}) = Cardinality(todo) - 1
    BY <1>2, FS_RemoveElement
<1> QED
    BY <1>2, <1>3, <1>4

LEMMA RankBounds ==
    /\ Rank(Idle) = 0
    /\ Cardinality(Intents) \in Nat
    /\ \A a \in Busy : Rank(a) \in 1 .. 8 + 2 * Cardinality(Intents)
<1>1. Rank(Idle) = 0
    BY DEF Rank, Idle
<1>2. Cardinality(Intents) \in Nat
    BY TodoSize
<1>3. ASSUME NEW a \in Busy PROVE Rank(a) \in 1 .. 8 + 2 * Cardinality(Intents)
    <2>1. a.pc \in ProgramCounters /\ a.todo \in SUBSET Intents
        BY DEF Busy
    <2>2. Cardinality(a.todo) \in 0 .. Cardinality(Intents)
        BY <2>1, TodoSize
    <2> DEFINE n == Cardinality(Intents)
               m == Cardinality(a.todo)
    <2>a. n \in Nat /\ m \in Nat /\ m <= n
        BY <1>2, <2>2
    <2>3. CASE a.pc \in {"intent", "intents", "intent_vehicle"}
        <3>1. Rank(a) = 6 + m \/ Rank(a) = 7 + n \/ Rank(a) = 8 + n
            BY <2>3 DEF Rank
        <3> HIDE DEF m, n
        <3>2. Rank(a) \in 1 .. 8 + 2 * n
            BY <2>a, <3>1
        <3> QED
            BY <3>2 DEF n
    <2>4. CASE a.pc \in {"cancel", "cancel_record", "list"}
        <3>1. Rank(a) = 6 + 2 * m \/ Rank(a) = 5 + 2 * m \/ Rank(a) = 7 + 2 * n
            BY <2>4 DEF Rank
        <3> HIDE DEF m, n
        <3>2. Rank(a) \in 1 .. 8 + 2 * n
            BY <2>a, <3>1
        <3> QED
            BY <3>2 DEF n
    <2>5. CASE a.pc \in ProgramCounters \ {"intent", "intents", "intent_vehicle", "cancel",
                                          "cancel_record", "list"}
        <3>1. Rank(a) \in {1, 2, 3, 4, 5, 6}
            BY <2>5 DEF Rank, ProgramCounters
        <3> QED
            BY <1>2, <3>1
    <2> QED
        BY <2>1, <2>3, <2>4, <2>5
<1> QED
    BY <1>1, <1>2, <1>3

\* The steps between program counters that need not look at what is left to do.
LEMMA FollowsLower ==
    ASSUME NEW a \in Busy, NEW c \in Busy, Follows(a.pc, c.pc),
           ~(a.pc = "intent" /\ c.pc = "intent"),
           {a.pc, c.pc} # {"cancel", "cancel_record"}
    PROVE  Rank(c) < Rank(a)
<1>1. /\ a.pc \in ProgramCounters /\ a.todo \in SUBSET Intents
      /\ c.pc \in ProgramCounters /\ c.todo \in SUBSET Intents
    BY DEF Busy
<1>2. /\ Cardinality(Intents) \in Nat
      /\ Cardinality(a.todo) \in 0 .. Cardinality(Intents)
      /\ Cardinality(c.todo) \in 0 .. Cardinality(Intents)
    BY <1>1, TodoSize
<1> QED
    BY <1>2 DEF Follows, Rank

\* A cancellation that records what it cancelled still has it on its list.
WorkInv ==
    /\ TypeOK
    /\ \A b \in Bookings, r \in Requests : railLock[b] = r => ~At(r, "idle") /\ request[r].b = b
    /\ \A r \in Requests : At(r, "cancel_record") => request[r].i \in request[r].todo

LEMMA HandlerAdvances ==
    ASSUME WorkInv, TypeOK', NEW r \in Requests, Continue(r)
    PROVE  Advances(r)
<1>a. TypeOK /\ request[r] \in Busy
    BY BusyContinues DEF WorkInv
<1>1. CASE Finish(r)
    BY <1>a, <1>1, FinishOnly, RankBounds DEF Advances
<1>2. CASE GoesOn(r)
    <2>1. Follows(request[r].pc, request'[r].pc)
        BY <1>2 DEF GoesOn
    <2>2. request'[r] \in Busy
        BY <2>1 DEF TypeOK, Idle, Follows
    <2>3. request[r].todo \in SUBSET Intents /\ request'[r].todo \in SUBSET Intents
        BY <1>a, <2>2 DEF Busy
    <2>4. /\ Cardinality(request[r].todo) \in Nat
          /\ \A i \in request[r].todo :
                Cardinality(request[r].todo \ {i}) = Cardinality(request[r].todo) - 1
        BY <2>3, TodoSize
    <2>5. CASE At(r, "intent") /\ request'[r].pc = "intent"
        <3>1. ReuseIntent(r)
            BY <2>5 DEF Continue, CreateBooking, UpdateBookingState, ConfirmBooking, ReadVehicle, Advance,
               WriteVehicle, RetrieveIntent, RecordSnapshot, CheckIntentVehicle, ListIntents,
               RecordReused, CreateIntent, OutOfIntents, RecordCreated, ListCancellable, CancelIntent,
               RecordCancelled, FinishCancel, TripCheckIn, TripCheckOut, At
        <3>2. ASSUME NEW i, NEW snapshot, NEW authorized \in BOOLEAN,
                     request' = [request EXCEPT ![r].i = i, ![r].snapshot = snapshot, ![r].todo = {},
                                    ![r].pc = IF authorized THEN "advance" ELSE "intent_record"]
              PROVE  FALSE
            BY <1>a, <2>5, <3>2 DEF TypeOK, Busy
        <3>3. PICK i \in request[r].todo : TryNext(r, request[r].todo \ {i}) \/ Finish(r)
            BY <3>1, <3>2 DEF ReuseIntent
        <3>4. ~Finish(r)
            BY <1>a, <2>5, FinishOnly DEF Idle
        <3>5. request'[r].todo = request[r].todo \ {i}
            BY <1>a, <3>3, <3>4 DEF TryNext, TypeOK, Busy
        <3>6. Rank(request[r]) = 6 + Cardinality(request[r].todo)
              /\ Rank(request'[r]) = 6 + Cardinality(request'[r].todo)
            BY <2>5 DEF Rank, At
        <3> QED
            BY <2>4, <3>3, <3>5, <3>6 DEF Advances
    <2>6. CASE At(r, "cancel") /\ request'[r].pc = "cancel_record"
        <3>1. CancelIntent(r) \/ FinishCancel(r)
            BY <2>6 DEF Continue, CreateBooking, UpdateBookingState, ConfirmBooking, ReadVehicle, Advance,
               WriteVehicle, RetrieveIntent, RecordSnapshot, CheckIntentVehicle, ListIntents, ReuseIntent,
               RecordReused, CreateIntent, OutOfIntents, RecordCreated, ListCancellable,
               RecordCancelled, TripCheckIn, TripCheckOut, At
        <3>2. ~Finish(r) /\ ~FinishCancel(r)
            BY <1>a, <2>6, FinishOnly DEF Idle, FinishCancel, SetState, TypeOK, Busy
        <3>3. \E i : request' = [request EXCEPT ![r].pc = "cancel_record", ![r].i = i]
            BY <3>1, <3>2 DEF CancelIntent
        <3>4. request'[r].todo = request[r].todo
            BY <1>a, <3>3 DEF TypeOK, Busy
        <3>5. Rank(request[r]) = 6 + 2 * Cardinality(request[r].todo)
              /\ Rank(request'[r]) = 5 + 2 * Cardinality(request[r].todo)
            BY <2>6, <3>4 DEF Rank, At
        <3> QED
            BY <2>4, <3>5 DEF Advances
    <2>7. CASE At(r, "cancel_record") /\ request'[r].pc = "cancel"
        <3>1. RecordCancelled(r)
            BY <2>7 DEF Continue, CreateBooking, UpdateBookingState, ConfirmBooking, ReadVehicle, Advance,
               WriteVehicle, RetrieveIntent, RecordSnapshot, CheckIntentVehicle, ListIntents, ReuseIntent,
               RecordReused, CreateIntent, OutOfIntents, RecordCreated, ListCancellable, CancelIntent,
               FinishCancel, TripCheckIn, TripCheckOut, At
        <3>2. request'[r].todo = request[r].todo \ {request[r].i}
            BY <1>a, <3>1 DEF RecordCancelled, TypeOK, Busy
        <3>3. request[r].i \in request[r].todo
            BY <2>7 DEF WorkInv
        <3>4. Rank(request[r]) = 5 + 2 * Cardinality(request[r].todo)
              /\ Rank(request'[r]) = 6 + 2 * Cardinality(request'[r].todo)
            BY <2>7 DEF Rank, At
        <3>5. Cardinality(request'[r].todo) = Cardinality(request[r].todo) - 1
            BY <2>4, <3>2, <3>3
        <3> QED
            BY <2>4, <3>4, <3>5 DEF Advances
    <2>8. CASE /\ ~(At(r, "intent") /\ request'[r].pc = "intent")
               /\ ~(At(r, "cancel") /\ request'[r].pc = "cancel_record")
               /\ ~(At(r, "cancel_record") /\ request'[r].pc = "cancel")
        <3>1. ~(request[r].pc = "intent" /\ request'[r].pc = "intent")
              /\ {request[r].pc, request'[r].pc} # {"cancel", "cancel_record"}
            BY <2>8 DEF At
        <3> QED
            BY <1>a, <2>1, <2>2, <3>1, FollowsLower DEF Advances
    <2> QED
        BY <2>5, <2>6, <2>7, <2>8
<1> QED
    BY <1>a, <1>1, <1>2, ContinueShape

\* A step changes one request at most, and gives its locks to nobody else.
LEMMA WorkKept ==
    ASSUME WorkInv, TypeOK', NEW r \in Requests, Only(r),
           \/ Finish(r)
           \/ /\ ~At(r, "idle")' /\ UNCHANGED railLock
              /\ At(r, "idle") \/ request'[r].b = request[r].b
           \/ /\ ~At(r, "idle")' /\ At(r, "idle")
              /\ railLock' = [railLock EXCEPT ![request'[r].b] = r],
           At(r, "cancel_record")' => request'[r].i \in request'[r].todo
    PROVE  WorkInv'
<1>a. TypeOK
    BY DEF WorkInv
<1>1. ASSUME NEW b \in Bookings, NEW q \in Requests, railLock'[b] = q
      PROVE  ~At(q, "idle")' /\ request'[q].b = b
    <2>1. CASE Finish(r)
        <3>1. q # r /\ railLock[b] = q
            BY <1>1, <1>a, <2>1, RentalAssumption DEF Finish, TypeOK
        <3> QED
            BY <3>1 DEF WorkInv, Only, At
    <2>2. CASE /\ ~At(r, "idle")' /\ UNCHANGED railLock
               /\ At(r, "idle") \/ request'[r].b = request[r].b
        <3>1. ~At(q, "idle") /\ request[q].b = b
            BY <1>1, <2>2 DEF WorkInv
        <3> QED
            BY <2>2, <3>1 DEF Only, At
    <2>3. CASE /\ ~At(r, "idle")' /\ At(r, "idle")
               /\ railLock' = [railLock EXCEPT ![request'[r].b] = r]
        <3>1. CASE b = request'[r].b
            BY <1>1, <1>a, <2>3, <3>1 DEF TypeOK
        <3>2. CASE b # request'[r].b
            <4>1. railLock[b] = q
                BY <1>1, <1>a, <2>3, <3>2 DEF TypeOK
            <4>2. ~At(q, "idle") /\ request[q].b = b /\ q # r
                BY <2>3, <4>1 DEF WorkInv
            <4> QED
                BY <4>2 DEF Only, At
        <3> QED
            BY <3>1, <3>2
    <2> QED
        BY <2>1, <2>2, <2>3
<1>2. ASSUME NEW q \in Requests, At(q, "cancel_record")'
      PROVE  request'[q].i \in request'[q].todo
    BY <1>2 DEF WorkInv, Only, At
<1> QED
    BY <1>1, <1>2 DEF WorkInv

LEMMA WorkStep == WorkInv /\ [Next]_vars => WorkInv'
<1> SUFFICES ASSUME WorkInv, [Next]_vars PROVE WorkInv'
    OBVIOUS
<1>a. TypeOK /\ TypeOK'
    BY TypeStep DEF WorkInv
<1>1. ASSUME NEW r \in Requests, Continue(r) PROVE WorkInv'
    <2>1. Only(r) /\ (Finish(r) \/ GoesOn(r)) /\ request[r] \in Busy
        BY <1>a, <1>1, ContinueShape, BusyContinues
    <2>2. Finish(r) => request'[r].pc = "idle"
        BY <1>a, FinishOnly DEF Idle
    <2>3. GoesOn(r) => ~At(r, "idle")' /\ UNCHANGED railLock /\ request'[r].b = request[r].b
        BY DEF GoesOn, Follows, At
    <2>4. At(r, "cancel_record")' => request'[r].i \in request'[r].todo
        <3>1. At(r, "cancel_record")' => At(r, "cancel")
            BY <2>1, <2>2 DEF GoesOn, Follows, At
        <3>2. At(r, "cancel") => CancelIntent(r) \/ FinishCancel(r)
            BY <1>1 DEF Continue, CreateBooking, UpdateBookingState, ConfirmBooking, ReadVehicle, Advance,
               WriteVehicle, RetrieveIntent, RecordSnapshot, CheckIntentVehicle, ListIntents, ReuseIntent,
               RecordReused, CreateIntent, OutOfIntents, RecordCreated, ListCancellable,
               RecordCancelled, TripCheckIn, TripCheckOut, At
        <3>3. FinishCancel(r) => request'[r].pc # "cancel_record"
            BY <1>a, <2>1, <2>2 DEF FinishCancel, SetState, TypeOK, Busy
        <3>4. ASSUME NEW i \in request[r].todo,
                     request' = [request EXCEPT ![r].pc = "cancel_record", ![r].i = i]
              PROVE  request'[r].i \in request'[r].todo
            BY <1>a, <2>1, <3>4 DEF TypeOK, Busy
        <3>5. CancelIntent(r) => Finish(r) \/ request'[r].i \in request'[r].todo
            BY <3>4 DEF CancelIntent
        <3> QED
            BY <2>2, <3>1, <3>2, <3>3, <3>5 DEF At
    <2> QED
        BY <1>a, <2>1, <2>3, <2>4, WorkKept
<1>2. ASSUME NEW r \in Requests, Crash(r) PROVE WorkInv'
    <2>1. Finish(r) /\ Only(r) /\ request'[r].pc = "idle"
        BY <1>a, <1>2, FinishOnly DEF Crash, Idle
    <2> QED
        BY <1>a, <2>1, WorkKept DEF At
<1>3. ASSUME NEW r \in Requests, Arrive(r) PROVE WorkInv'
    <2>1. Only(r) /\ (Entered(r) \/ UNCHANGED <<request, railLock>>)
        BY <1>a, <1>3, ArriveShape
    <2>2. CASE UNCHANGED <<request, railLock>>
        BY <1>a, <2>2 DEF WorkInv, At
    <2>3. CASE Entered(r)
        <3>1. ~At(r, "idle")' /\ ~At(r, "cancel_record")'
            BY <2>3 DEF Entered, Enters, At
        <3> QED
            BY <1>a, <2>1, <2>3, <3>1, WorkKept DEF Entered
    <2> QED
        BY <2>1, <2>2, <2>3
<1>4. CASE Environment \/ UNCHANGED vars
    <2>1. UNCHANGED <<request, railLock>>
        BY <1>4 DEF Environment, AuthorizeCard, DeclineCard, CaptureHold, Relist, vars
    <2> QED
        BY <1>a, <2>1 DEF WorkInv, At
<1> QED
    BY <1>1, <1>2, <1>3, <1>4 DEF Next

\* A busy request is left alone, gets on or ends, whoever takes the step.
LEMMA BusyAdvances ==
    ASSUME WorkInv, [Next]_vars, NEW r \in Requests, ~At(r, "idle")
    PROVE  request'[r] = request[r] \/ Advances(r)
<1>a. TypeOK /\ TypeOK' /\ request[r] \in Busy
    BY TypeStep DEF WorkInv, TypeOK, At, Idle
<1>1. ASSUME NEW q \in Requests, Continue(q)
      PROVE  request'[r] = request[r] \/ Advances(r)
    BY <1>a, <1>1, ContinueShape, HandlerAdvances DEF Only
<1>2. ASSUME NEW q \in Requests, Crash(q)
      PROVE  request'[r] = request[r] \/ Advances(r)
    BY <1>a, <1>2, FinishOnly, RankBounds DEF Crash, Only, Advances
<1>3. ASSUME NEW q \in Requests, Arrive(q)
      PROVE  request'[r] = request[r] \/ Advances(r)
    BY <1>a, <1>3, ArriveShape DEF Only, Entered
<1>4. CASE Environment \/ UNCHANGED vars
    BY <1>4 DEF Environment, AuthorizeCard, DeclineCard, CaptureHold, Relist, vars
<1> QED
    BY <1>1, <1>2, <1>3, <1>4 DEF Next

\* On either store, for any routes and wherever handlers die: a handler takes
\* at most 8 + 2 * |Intents| steps, however many requests run beside it, and
\* whoever holds a rail lock is a handler at work on that booking.
\* withBookingPaymentRailLock is left by every path of a handler.
THEOREM HandlersComeToAnEnd == Spec => []HandlersEnd /\ HandlersAdvance
<1>1. Init => WorkInv
    <2> SUFFICES ASSUME Init PROVE WorkInv
        OBVIOUS
    <2>1. TypeOK
        BY RentalAssumption
           DEF Init, TypeOK, BookingStates, TripStates, VehicleStates, PaymentStates, IntentStates
    <2> QED
        BY <2>1, RentalAssumption DEF Init, WorkInv, At, Idle
<1>2. WorkInv /\ [Next]_vars => WorkInv'
    BY WorkStep
<1>3. WorkInv => HandlersEnd
    <2> SUFFICES ASSUME WorkInv PROVE HandlersEnd
        OBVIOUS
    <2>1. ASSUME NEW r \in Requests PROVE Rank(request[r]) \in 0 .. 8 + 2 * Cardinality(Intents)
        <3>1. request[r] \in Busy \/ request[r] = Idle
            BY DEF WorkInv, TypeOK
        <3> QED
            BY <3>1, RankBounds
    <2> QED
        BY <2>1 DEF HandlersEnd, WorkInv
<1>4. WorkInv /\ [Next]_vars =>
         [\A r \in Requests :
             /\ Continue(r) => Advances(r)
             /\ ~At(r, "idle") => request'[r] = request[r] \/ Advances(r)]_vars
    <2>1. WorkInv /\ [Next]_vars => TypeOK'
        BY TypeStep DEF WorkInv
    <2> QED
        BY <2>1, HandlerAdvances, BusyAdvances
<1> QED
    BY <1>1, <1>2, <1>3, <1>4, PTL DEF Spec, HandlersAdvance

-----------------------------------------------------------------------------
(* Holds are attended to.  A hold announces itself with an event, the event   *)
(* starts a handler, and the handler finds what it needs to accept: the       *)
(* vehicle on the market, the booking waiting and its dates free.             *)

Underway == {"in_trip", "return_pending"}

ListedInv ==
    /\ CalendarInv /\ IntentInv
    /\ vehicle = "listed"
    /\ \A b \in Bookings : bookings[b].state \notin Underway
    /\ \A r \in Requests : ~At(r, "idle") =>
          request[r].op \notin {"check_in", "check_out"} /\ request[r].state \notin Underway
    /\ \A r \in Requests : ~At(r, "idle") /\ ~At(r, "create") =>
          bookings[request[r].b].state # "none"
    /\ \A b \in Bookings, i \in Intents : Known(b, i) => bookings[b].state # "none"

\* A request at a step of a handler takes that step.
LEMMA StepAt ==
    ASSUME NEW r \in Requests, Continue(r)
    PROVE  /\ At(r, "advance") => Advance(r)
           /\ At(r, "vehicle") => ReadVehicle(r)
           /\ At(r, "confirm") \/ At(r, "confirm_write") => ConfirmBooking(r)
BY DEF Continue, CreateBooking, UpdateBookingState, ConfirmBooking, ReadVehicle, Advance,
       WriteVehicle, RetrieveIntent, RecordSnapshot, CheckIntentVehicle, ListIntents, ReuseIntent,
       RecordReused, CreateIntent, OutOfIntents, RecordCreated, ListCancellable, CancelIntent,
       RecordCancelled, FinishCancel, TripCheckIn, TripCheckOut, At

\* What the steps of a handler do at Stripe: it makes no hold, and what it makes
\* or cancels belongs to its booking.
LEMMA StripeSteps ==
    ASSUME TypeOK, NEW r \in Requests, Continue(r)
    PROVE  /\ owed \subseteq owed'
           /\ \A b \in Bookings, i \in Intents :
                 /\ intents'[b][i] \in Successful => intents[b][i] \in Successful
                 /\ Known(b, i)' => Known(b, i) \/ (At(r, "new_intent") /\ request[r].b = b)
<1>1. CASE UNCHANGED stripe
    BY <1>1 DEF stripe, Known
<1>2. ASSUME NEW b \in Bookings, NEW i \in Intents, NEW kind,
             NEW status \in {"requires_payment_method", "canceled"},
             SetIntent(b, i, status, kind), Known(b, i) \/ (At(r, "new_intent") /\ request[r].b = b)
      PROVE  /\ owed \subseteq owed'
             /\ \A c \in Bookings, j \in Intents :
                   /\ intents'[c][j] \in Successful => intents[c][j] \in Successful
                   /\ Known(c, j)' => Known(c, j) \/ (At(r, "new_intent") /\ request[r].b = c)
    <2>1. owed \subseteq owed'
        BY <1>2 DEF SetIntent
    <2>2. /\ intents'[b][i] = status
          /\ \A c \in Bookings, j \in Intents : c # b \/ j # i => intents'[c][j] = intents[c][j]
        BY <1>2 DEF SetIntent, TypeOK
    <2>3. ASSUME NEW c \in Bookings, NEW j \in Intents
          PROVE  /\ intents'[c][j] \in Successful => intents[c][j] \in Successful
                 /\ Known(c, j)' => Known(c, j) \/ (At(r, "new_intent") /\ request[r].b = c)
        <3>1. CASE c = b /\ j = i
            BY <1>2, <2>2, <3>1 DEF Successful
        <3>2. CASE c # b \/ j # i
            BY <2>2, <3>2 DEF Known
        <3> QED
            BY <3>1, <3>2
    <2> QED
        BY <2>1, <2>3
<1>b. request[r] \in Busy
    BY BusyContinues
<1>3. CASE CreateIntent(r)
    <2>1. request[r].b \in Bookings /\ At(r, "new_intent") /\ request[r].ref + 1 \in Intents
        BY <1>b, <1>3, BusyFields DEF CreateIntent
    <2>2. \/ UNCHANGED stripe
          \/ SetIntent(request[r].b, request[r].ref + 1, "requires_payment_method",
                       "payment_intent_created")
        BY <1>3 DEF CreateIntent
    <2> QED
        BY <1>1, <1>2, <2>1, <2>2
<1>4. CASE CancelIntent(r)
    <2>1. request[r].b \in Bookings /\ request[r].todo \subseteq Intents
        BY <1>b, BusyFields
    <2>2. \/ UNCHANGED stripe
          \/ \E i \in request[r].todo :
                /\ intents[request[r].b][i] \in Cancellable
                /\ SetIntent(request[r].b, i, "canceled", "payment_cancelled")
        BY <1>4 DEF CancelIntent
    <2>3. \A i \in Intents : intents[request[r].b][i] \in Cancellable => Known(request[r].b, i)
        BY DEF Cancellable, Known
    <2> QED
        BY <1>1, <1>2, <2>1, <2>2, <2>3
<1>5. CASE ~CreateIntent(r) /\ ~CancelIntent(r)
    <2>1. UNCHANGED stripe
        BY <1>5 DEF Continue, CreateBooking, UpdateBookingState, ConfirmBooking, WriteConfirmed,
           ReadVehicle, Advance, WriteVehicle, RetrieveIntent, RecordSnapshot, CheckIntentVehicle,
           ListIntents, ReuseIntent, RecordReused, OutOfIntents, RecordCreated, ListCancellable,
           RecordCancelled, FinishCancel, TripCheckIn, TripCheckOut
    <2> QED
        BY <1>1, <2>1
<1> QED
    BY <1>3, <1>4, <1>5

\* Who leaves the vehicle as it is.
LEMMA VehicleSteps ==
    ASSUME NEW r \in Requests, Continue(r)
    PROVE  UNCHANGED vehicle \/ WriteVehicle(r)
BY DEF Continue, CreateBooking, UpdateBookingState, ConfirmBooking, WriteConfirmed, ReadVehicle,
       Advance, RetrieveIntent, RecordSnapshot, CheckIntentVehicle, ListIntents, ReuseIntent,
       RecordReused, CreateIntent, OutOfIntents, RecordCreated, ListCancellable, CancelIntent,
       RecordCancelled, FinishCancel, TripCheckIn, TripCheckOut, stores

LEMMA ListedContinues ==
    ASSUME ListedInv, CalendarInv', IntentInv', NEW r \in Requests, Continue(r)
    PROVE  ListedInv'
<1> DEFINE b == request[r].b
<1>a. TypeOK /\ CalendarInv /\ TypeOK'
    BY DEF ListedInv, IntentInv
<1>b. request[r] \in Busy /\ Only(r) /\ (Finish(r) \/ GoesOn(r))
    BY <1>a, BusyContinues, ContinueShape
<1>c. b \in Bookings /\ ~At(r, "idle")
    BY <1>a, <1>b, BusyFields DEF At, Busy, ProgramCounters
<1>d. /\ request[r].op \notin {"check_in", "check_out"} /\ request[r].state \notin Underway
      /\ ~At(r, "create") => bookings[b].state # "none"
    BY <1>c DEF ListedInv
<1>e. /\ \A c \in Bookings \ {b} : bookings'[c] = bookings[c]
      /\ Decided(b, bookings[b].state, bookings'[b].state)
    BY <1>a, DecidedBooking
<1>1. vehicle' = "listed"
    <2>1. CASE WriteVehicle(r)
        BY <1>d, <2>1 DEF WriteVehicle, Underway
    <2> QED
        BY <2>1, VehicleSteps DEF ListedInv
<1>2. \A c \in Bookings : /\ bookings'[c].state \notin Underway
                          /\ bookings[c].state # "none" => bookings'[c].state # "none"
    BY <1>c, <1>e DEF ListedInv, Decided, Underway
<1>3. GoesOn(r) => /\ request'[r].op = request[r].op /\ request'[r].b = b
                   /\ request'[r].state \notin Underway
    <2>1. CASE GoesOn(r) /\ At(r, "confirm")
        <3>1. ConfirmBooking(r) /\ request'[r].pc = "confirm_write"
            BY <2>1, StepAt DEF GoesOn, Follows, At
        <3>2. ~Finish(r)
            BY <1>a, <3>1, FinishOnly DEF Idle
        <3>3. request' = [request EXCEPT ![r].pc = "confirm_write",
                                         ![r].state = bookings[b].state, ![r].ref = bookings[b].ref]
            BY <2>1, <3>1, <3>2 DEF ConfirmBooking, WriteConfirmed, At
        <3>4. request'[r].state = bookings[b].state
            BY <1>a, <1>b, <3>3 DEF TypeOK, Busy
        <3> QED
            BY <1>c, <2>1, <3>4 DEF ListedInv, GoesOn
    <2>2. CASE GoesOn(r) /\ ~At(r, "confirm")
        BY <1>d, <2>2 DEF GoesOn
    <2> QED
        BY <2>1, <2>2
<1>4. ASSUME NEW q \in Requests, ~At(q, "idle")'
      PROVE  /\ request'[q].op \notin {"check_in", "check_out"} /\ request'[q].state \notin Underway
             /\ ~At(q, "create")' => bookings'[request'[q].b].state # "none"
    <2>1. CASE q # r
        <3>1. request'[q] = request[q] /\ ~At(q, "idle")
            BY <1>b, <1>4, <2>1 DEF Only, At
        <3>2. request[q].b \in Bookings
            BY <1>a, <3>1, BusyFields DEF TypeOK, At, Idle
        <3> QED
            BY <1>2, <3>1, <3>2 DEF ListedInv, At
    <2>2. CASE q = r
        <3>1. ~Finish(r)
            BY <1>a, <1>4, <2>2, FinishOnly DEF At, Idle
        <3>2. GoesOn(r) /\ ~At(r, "create")
            BY <1>b, <3>1 DEF GoesOn, Follows, At
        <3> QED
            BY <1>2, <1>3, <1>c, <1>d, <2>2, <3>2
    <2> QED
        BY <2>1, <2>2
<1>5. ASSUME NEW c \in Bookings, NEW i \in Intents, Known(c, i)'
      PROVE  bookings'[c].state # "none"
    <2>1. Known(c, i) \/ (At(r, "new_intent") /\ b = c)
        BY <1>a, <1>5, StripeSteps
    <2>2. bookings[c].state # "none"
        BY <1>d, <2>1 DEF ListedInv, At
    <2> QED
        BY <1>2, <2>2
<1> QED
    BY <1>1, <1>2, <1>4, <1>5 DEF ListedInv

LEMMA ListedArrives ==
    ASSUME NoRevival, ListedInv, CalendarInv', IntentInv', NEW r \in Requests, Arrive(r)
    PROVE  ListedInv'
<1>a. TypeOK /\ CalendarInv
    BY DEF ListedInv, IntentInv
<1>b. UNCHANGED <<bookings, vehicle, intents>>
    BY DEF Arrive, Checkout, Confirm, Approve, PaymentIntents, Cancel, CheckIn, CheckOut,
           Incident, Claim, Reconcile, Webhook, StartLocked, StartUnlocked, stores, stripe
<1>c. Only(r)
    <2> QED
        BY <1>a, ArriveShape
<1> DEFINE Sound(q) ==
               ~At(q, "idle")' =>
                   /\ request'[q].op \notin {"check_in", "check_out"}
                   /\ request'[q].state \notin Underway
                   /\ ~At(q, "create")' => bookings'[request'[q].b].state # "none"
<1>d. ASSUME Sound(r)
      PROVE  ListedInv'
    <2>1. \A q \in Requests : q # r => request'[q] = request[q]
        BY <1>c DEF Only
    <2>2. \A q \in Requests : q # r => Sound(q)
        BY <1>b, <2>1 DEF ListedInv, At
    <2>3. \A q \in Requests : Sound(q)
        BY <1>d, <2>2
    <2> HIDE DEF Sound
    <2>4. /\ vehicle' = "listed" /\ \A c \in Bookings : bookings'[c].state \notin Underway
          /\ \A c \in Bookings, i \in Intents : Known(c, i)' => bookings'[c].state # "none"
        BY <1>b DEF ListedInv, Known
    <2> QED
        BY <2>3, <2>4 DEF ListedInv, Sound
<1>1. ASSUME NEW op, op \notin {"check_in", "check_out"}, NEW b \in Bookings, NEW pc, NEW target,
             NEW i, Start(r, op, b, pc, target, i)
      PROVE  Sound(r)
    <2>1. request'[r] = Activation(op, b, pc, target, i)
        BY <1>a, <1>1, StartOnly
    <2>2. request'[r].b = b /\ request'[r].op = op /\ request'[r].state = bookings[b].state
        BY <2>1 DEF Activation
    <2>3. bookings[b].state # "none" /\ bookings[b].state \notin Underway
        BY <1>1 DEF Start, ListedInv
    <2> QED
        BY <1>1, <1>b, <2>2, <2>3
<1>2. ASSUME NEW b \in Bookings,
             Confirm(r, b) \/ Approve(r, b) \/ PaymentIntents(r, b) \/ Cancel(r, b)
             \/ Incident(r, b) \/ Claim(r, b)
      PROVE  Sound(r)
    <2> HIDE DEF Sound
    <2> QED
        BY <1>1, <1>2 DEF Confirm, Approve, PaymentIntents, Cancel, Incident, Claim, StartLocked
<1>3. ASSUME NEW b \in Bookings, NEW i \in Intents, Reconcile(r, b, i)
      PROVE  Sound(r)
    <2> HIDE DEF Sound
    <2> QED
        BY <1>1, <1>3 DEF Reconcile, StartUnlocked
<1>4. ASSUME NEW b \in Bookings
      PROVE  ~CheckIn(r, b) /\ ~CheckOut(r, b)
    BY DEF CheckIn, CheckOut, Start, NoRevival
<1>5. ASSUME NEW e \in events, Webhook(r, e)
      PROVE  Sound(r)
    <2>1. CASE request' = request
        BY <1>5, <2>1 DEF Webhook, At
    <2>2. CASE request' # request
        <3>1. request'[r] = Activation("webhook", e[1], "advance", "none", e[2])
            BY <1>a, <1>5, <2>2 DEF Webhook, TypeOK
        <3>2. /\ request'[r].op = "webhook" /\ request'[r].b = e[1]
              /\ request'[r].state = bookings[e[1]].state
            BY <3>1 DEF Activation
        <3>3. e[1] \in Bookings /\ e[2] \in Intents
            BY <1>a DEF TypeOK
        <3>4. Known(e[1], e[2])
            BY DEF ListedInv, IntentInv, EventsSound
        <3>5. bookings[e[1]].state # "none" /\ bookings[e[1]].state \notin Underway
            BY <3>3, <3>4 DEF ListedInv
        <3> QED
            BY <1>b, <3>2, <3>5
    <2> QED
        BY <2>1, <2>2
<1>6. ASSUME NEW b \in Bookings, NEW eligible \in Eligibility, Checkout(r, b, eligible)
      PROVE  Sound(r)
    <2>1. /\ request'[r].op = "checkout" /\ request'[r].pc = "create"
          /\ request'[r].state = bookings[b].state
        BY <1>a, <1>6 DEF Checkout, Activation, TypeOK
    <2>2. bookings[b].state \notin Underway
        BY DEF ListedInv
    <2> QED
        BY <2>1, <2>2 DEF At
<1> HIDE DEF Sound
<1> QED
    BY <1>d, <1>2, <1>3, <1>4, <1>5, <1>6 DEF Arrive
LEMMA ListedStep == NoRevival /\ ListedInv /\ [Next]_vars => ListedInv'
<1> SUFFICES ASSUME NoRevival, ListedInv, [Next]_vars PROVE ListedInv'
    OBVIOUS
<1>a. CalendarInv' /\ IntentInv'
    BY CalendarStep, IntentStep DEF ListedInv
<1>b. TypeOK
    BY DEF ListedInv, IntentInv
<1>1. ASSUME NEW r \in Requests, Continue(r) PROVE ListedInv'
    BY <1>a, <1>1, ListedContinues
<1>2. ASSUME NEW r \in Requests, Arrive(r) PROVE ListedInv'
    BY <1>a, <1>2, ListedArrives
<1>3. ASSUME NEW r \in Requests, Crash(r) PROVE ListedInv'
    <2>1. UNCHANGED <<bookings, vehicle, intents>> /\ Only(r) /\ request'[r] = Idle
        BY <1>b, <1>3, FinishOnly DEF Crash, stores, stripe
    <2>2. \A q \in Requests : request'[q] = request[q] \/ request'[q] = Idle
        BY <2>1 DEF Only
    <2> QED
        BY <1>a, <2>1, <2>2 DEF ListedInv, At, Idle, Known
<1>4. CASE Environment \/ UNCHANGED vars
    <2>1. UNCHANGED <<bookings, vehicle, request>>
        BY <1>4 DEF Environment, AuthorizeCard, DeclineCard, CaptureHold, Relist, ListedInv, vars,
           stores
    <2>2. \A b \in Bookings, i \in Intents : Known(b, i)' => Known(b, i)
        <3>1. ASSUME NEW b \in Bookings, NEW i \in Intents, Known(b, i), NEW status, NEW kind,
                     SetIntent(b, i, status, kind), NEW c \in Bookings, NEW j \in Intents,
                     Known(c, j)'
              PROVE  Known(c, j)
            BY <1>b, <3>1 DEF SetIntent, Known, TypeOK
        <3>2. CASE UNCHANGED stripe
            BY <3>2 DEF stripe, Known
        <3>3. ASSUME NEW b \in Bookings, NEW i \in Intents,
                     AuthorizeCard(b, i) \/ DeclineCard(b, i) \/ CaptureHold(b, i)
              PROVE  Known(b, i) /\ \E status, kind : SetIntent(b, i, status, kind)
            BY <3>3 DEF AuthorizeCard, DeclineCard, CaptureHold, Known
        <3> QED
            BY <1>4, <3>1, <3>2, <3>3 DEF Environment, Relist, vars
    <2> QED
        BY <1>a, <2>1, <2>2 DEF ListedInv, At
<1> QED
    BY <1>1, <1>2, <1>3, <1>4 DEF Next

\* What keeps a hold in view.
Announced == {"authorization_succeeded", "capture_succeeded"}

Attended(b, i) ==
    \/ \E r \in Requests : Accepting(r, b)
    \/ \E kind \in Announced : <<b, i, kind>> \in owed

\* A record that would keep the event from being believed is one of a hold
\* that is gone.
LEMMA AttendedHolds ==
    ASSUME IntentInv
    PROVE  HoldAttended <=> \A b \in Bookings, i \in Intents :
               bookings[b].state = "pending_payment_authorization" /\ intents[b][i] \in Successful
               => Attended(b, i)
<1>1. \A b \in Bookings, i \in Intents :
          intents[b][i] \in Successful => payments[b][i] # "cancelled"
    BY DEF IntentInv, RecordsSound, Gone, Successful
<1> QED
    BY <1>1 DEF HoldAttended, Attended, Announced

\* A handler on its way to accept a booking that waits does not turn back.
LEMMA AcceptingGoesOn ==
    ASSUME ListedInv, NEW r \in Requests, Continue(r), NEW b \in Bookings, Accepting(r, b),
           bookings[b].state = "pending_payment_authorization",
           bookings'[b].state = "pending_payment_authorization"
    PROVE  Accepting(r, b)'
<1>a. TypeOK /\ NoDoubleBooking /\ vehicle = "listed"
    BY DEF ListedInv, IntentInv, CalendarInv, WriteInv, DatesInv
<1>b. request[r] \in Busy /\ request[r].b = b
    BY <1>a, BusyContinues DEF Accepting
<1>c. ~HasConflict(b)
    BY <1>a DEF NoDoubleBooking, HasConflict, ACTIVE_BOOKING_STATES
<1>d. ASSUME NEW current, WriteConfirmed(r, current) PROVE FALSE
    <2>1. bookings'[b] = ConfirmedBooking(r, current)
        BY <1>a, <1>b, <1>c, <1>d DEF WriteConfirmed, TypeOK
    <2>2. bookings'[b].state \in {"confirmed", "host_review"}
        BY <2>1 DEF ConfirmedBooking
    <2> QED
        BY <2>2
<1>1. CASE At(r, "advance")
    <2>1. request' = [request EXCEPT ![r].pc = "vehicle"]
        BY <1>1, <1>b, StepAt DEF Advance, Proceed, Goto
    <2> QED
        BY <1>a, <1>b, <2>1 DEF Accepting, TypeOK, Busy
<1>2. CASE At(r, "vehicle")
    <2>1. PICK review \in BOOLEAN \cup ReviewChoices :
              request' = [request EXCEPT ![r].pc = "confirm", ![r].review = review]
        BY <1>2, <1>a, StepAt DEF ReadVehicle
    <2> QED
        BY <1>a, <1>b, <2>1 DEF Accepting, TypeOK, Busy
<1>3. CASE At(r, "confirm") \/ At(r, "confirm_write")
    <2>1. ConfirmBooking(r) /\ bookings[b].state \in Confirmable
        BY <1>3, StepAt DEF Confirmable
    <2>2. request' = [request EXCEPT ![r].pc = "confirm_write", ![r].state = bookings[b].state,
                                     ![r].ref = bookings[b].ref]
        BY <1>b, <1>d, <2>1 DEF ConfirmBooking
    <2> QED
        BY <1>a, <1>b, <2>2 DEF Accepting, TypeOK, Busy
<1> QED
    BY <1>1, <1>2, <1>3 DEF Accepting, At

LEMMA AttendContinues ==
    ASSUME ListedInv, IntentInv', HoldAttended, NEW r \in Requests, Continue(r)
    PROVE  HoldAttended'
<1>a. TypeOK /\ CalendarInv /\ IntentInv
    BY DEF ListedInv, IntentInv
<1>1. ASSUME NEW b \in Bookings, NEW i \in Intents,
             bookings'[b].state = "pending_payment_authorization", intents'[b][i] \in Successful
      PROVE  Attended(b, i)'
    <2>1. intents[b][i] \in Successful /\ owed \subseteq owed'
        BY <1>a, <1>1, StripeSteps
    <2>2. bookings[b].state # "none"
        BY <2>1 DEF ListedInv, Known, Successful
    <2>3. bookings[b].state = "pending_payment_authorization"
        <3>1. CASE b = request[r].b
            BY <1>a, <1>1, <2>2, <3>1, DecidedBooking DEF Decided
        <3>2. CASE b # request[r].b
            BY <1>a, <1>1, <3>2, DecidedBooking
        <3> QED
            BY <3>1, <3>2
    <2>4. Attended(b, i)
        BY <1>a, <2>1, <2>3, AttendedHolds
    <2>5. ASSUME NEW q \in Requests, Accepting(q, b)
          PROVE  Accepting(q, b)'
        <3>1. CASE q = r
            BY <1>1, <2>3, <2>5, <3>1, AcceptingGoesOn
        <3>2. CASE q # r
            <4>1. request'[q] = request[q]
                BY <1>a, <3>2, ContinueShape DEF Only
            <4> QED
                BY <2>5, <4>1 DEF Accepting
        <3> QED
            BY <3>1, <3>2
    <2> QED
        BY <2>1, <2>4, <2>5 DEF Attended
<1>2. HoldAttended' <=> \A b \in Bookings, i \in Intents :
          bookings'[b].state = "pending_payment_authorization" /\ intents'[b][i] \in Successful
          => Attended(b, i)'
    <2>1. \A b \in Bookings, i \in Intents :
              intents'[b][i] \in Successful => payments'[b][i] # "cancelled"
        BY DEF IntentInv, RecordsSound, Gone, Successful
    <2> QED
        BY <2>1 DEF HoldAttended, Attended, Announced
<1> QED
    BY <1>1, <1>2

\* Nobody's work is dropped, no hold is made and every event stays owed.
LEMMA AttendKept ==
    ASSUME HoldAttended, ListedInv, IntentInv', UNCHANGED bookings,
           \A b \in Bookings, i \in Intents :
               intents'[b][i] \in Successful =>
                   \/ intents[b][i] \in Successful
                   \/ \E kind \in Announced : <<b, i, kind>> \in owed',
           \A e \in owed : e \in owed' \/ (e[3] \in Announced => \E r \in Requests : Accepting(r, e[1])')
                                       \/ intents[e[1]][e[2]] \notin Successful,
           \A q \in Requests : request'[q] = request[q] \/ At(q, "idle")
    PROVE  HoldAttended'
<1>1. ASSUME NEW b \in Bookings, NEW i \in Intents,
             bookings'[b].state = "pending_payment_authorization", intents'[b][i] \in Successful
      PROVE  Attended(b, i)'
    <2>1. CASE \E kind \in Announced : <<b, i, kind>> \in owed'
        BY <2>1 DEF Attended
    <2>2. CASE intents[b][i] \in Successful
        <3>1. Attended(b, i)
            BY <1>1, <2>2, AttendedHolds DEF ListedInv
        <3>2. ASSUME NEW q \in Requests, Accepting(q, b)
              PROVE  Accepting(q, b)'
            BY <3>2 DEF Accepting, At
        <3>3. ASSUME NEW kind \in Announced, <<b, i, kind>> \in owed
              PROVE  Attended(b, i)'
            BY <2>2, <3>3 DEF Attended
        <3> QED
            BY <3>1, <3>2, <3>3 DEF Attended
    <2> QED
        BY <1>1, <2>1, <2>2
<1>2. \A b \in Bookings, i \in Intents :
          intents'[b][i] \in Successful => payments'[b][i] # "cancelled"
    BY DEF IntentInv, RecordsSound, Gone, Successful
<1> QED
    BY <1>1, <1>2 DEF HoldAttended, Attended, Announced

LEMMA AttendArrives ==
    ASSUME HoldAttended, ListedInv, IntentInv', NEW r \in Requests, Arrive(r)
    PROVE  HoldAttended'
<1>a. TypeOK /\ IntentInv
    BY DEF ListedInv, IntentInv
<1>b. UNCHANGED <<bookings, intents>>
    BY DEF Arrive, Checkout, Confirm, Approve, PaymentIntents, Cancel, CheckIn, CheckOut,
           Incident, Claim, Reconcile, Webhook, StartLocked, StartUnlocked, stores, stripe
<1>c. \A q \in Requests : request'[q] = request[q] \/ At(q, "idle")
    <2>1. At(r, "idle")
        BY DEF Arrive, Checkout, Confirm, Approve, PaymentIntents, Cancel, CheckIn, CheckOut,
               Incident, Claim, Reconcile, Webhook, StartLocked, StartUnlocked, Start
    <2> QED
        BY <1>a, <2>1, ArriveShape DEF Only
<1>1. CASE UNCHANGED owed
    BY <1>b, <1>c, <1>1, AttendKept
<1>2. ASSUME NEW e \in events, Webhook(r, e)
      PROVE  HoldAttended'
    <2>1. e[1] \in Bookings /\ e[2] \in Intents /\ owed' = owed \ {e}
        BY <1>a, <1>2 DEF TypeOK, Webhook
    <2>2. CASE e[3] \in Announced /\ intents[e[1]][e[2]] \in Successful
        <3>1. payments[e[1]][e[2]] # "cancelled"
            BY <1>a, <2>1, <2>2 DEF IntentInv, RecordsSound, Gone, Successful
        <3>2. MonotonicPaymentStatus(payments[e[1]][e[2]], StatusOfEvent(e[3])) \in Authorized
            <4>1. StatusOfEvent(e[3]) \in Authorized
                BY <2>2 DEF StatusOfEvent, Announced, Authorized
            <4> QED
                BY <3>1, <4>1 DEF MonotonicPaymentStatus, Authorized
        <3>3. request' = [request EXCEPT ![r] = Activation("webhook", e[1], "advance", "none", e[2])]
            BY <1>2, <2>2, <3>2 DEF Webhook, Announced
        <3>4. Accepting(r, e[1])'
            BY <1>a, <3>3 DEF TypeOK, Accepting, Activation
        <3> QED
            BY <1>b, <1>c, <2>1, <3>4, AttendKept
    <2>3. CASE ~(e[3] \in Announced /\ intents[e[1]][e[2]] \in Successful)
        BY <1>b, <1>c, <2>1, <2>3, AttendKept
    <2> QED
        BY <2>2, <2>3
<1>3. (\E e \in events : Webhook(r, e)) \/ UNCHANGED owed
    BY DEF Arrive, Checkout, Confirm, Approve, PaymentIntents, Cancel, CheckIn, CheckOut,
           Incident, Claim, Reconcile, StartLocked, StartUnlocked, stripe
<1> QED
    BY <1>1, <1>2, <1>3

LEMMA AttendStep ==
    ASSUME NoRevival, ~MayCrash, ListedInv, HoldAttended, [Next]_vars
    PROVE  HoldAttended'
<1>a. ListedInv' /\ IntentInv'
    BY ListedStep DEF ListedInv
<1>b. TypeOK
    BY DEF ListedInv, IntentInv
<1>1. ASSUME NEW r \in Requests, Continue(r) PROVE HoldAttended'
    BY <1>a, <1>1, AttendContinues
<1>2. ASSUME NEW r \in Requests, Arrive(r) PROVE HoldAttended'
    BY <1>a, <1>2, AttendArrives
<1>3. ASSUME NEW b \in Bookings, NEW i \in Intents,
             AuthorizeCard(b, i) \/ DeclineCard(b, i) \/ CaptureHold(b, i)
      PROVE  HoldAttended'
    <2>1. UNCHANGED <<bookings, request>>
        BY <1>3 DEF AuthorizeCard, DeclineCard, CaptureHold, stores
    <2>2. PICK status, kind : /\ SetIntent(b, i, status, kind)
                              /\ status \in Successful => kind \in Announced
        BY <1>3 DEF AuthorizeCard, DeclineCard, CaptureHold, Announced, Successful
    <2>3. owed \subseteq owed' /\ <<b, i, kind>> \in owed'
        BY <2>2 DEF SetIntent
    <2>4. ASSUME NEW c \in Bookings, NEW j \in Intents, intents'[c][j] \in Successful
          PROVE  \/ intents[c][j] \in Successful
                 \/ \E k \in Announced : <<c, j, k>> \in owed'
        <3>1. CASE c = b /\ j = i
            <4>1. intents'[b][i] = status
                BY <1>b, <2>2 DEF SetIntent, TypeOK
            <4> QED
                BY <2>2, <2>3, <2>4, <3>1, <4>1
        <3>2. CASE c # b \/ j # i
            <4>1. intents'[c][j] = intents[c][j]
                BY <1>b, <2>2, <3>2 DEF SetIntent, TypeOK
            <4> QED
                BY <2>4, <4>1
        <3> QED
            BY <3>1, <3>2
    <2> QED
        BY <1>a, <2>1, <2>3, <2>4, AttendKept
<1>4. CASE Relist \/ UNCHANGED vars
    <2>1. UNCHANGED <<bookings, intents, owed, request>>
        BY <1>4 DEF Relist, vars, stores, stripe
    <2> QED
        BY <1>a, <2>1, AttendKept
<1> QED
    BY <1>1, <1>2, <1>3, <1>4 DEF Next, Environment, Crash

LEMMA ListedInit == Init => ListedInv /\ HoldAttended
<1> SUFFICES ASSUME Init PROVE ListedInv /\ HoldAttended
    OBVIOUS
<1>1. CalendarInv
    BY PromiseInit
<1>2. IntentInv
    <2>1. TypeOK
        BY <1>1 DEF CalendarInv, WriteInv, DatesInv
    <2> QED
        BY <2>1 DEF Init, IntentInv, Replaced, RecordsSound, EventsSound, RequestSound, Known, Gone,
                    Idle, OnIntent, Choosing
<1>3. ListedInv
    BY <1>1, <1>2 DEF Init, ListedInv, Underway, At, Idle, Known
<1>4. HoldAttended
    BY DEF Init, HoldAttended
<1> QED
    BY <1>3, <1>4

\* On either store, for any number of bookings, intents and requests, with
\* cards that decline and events that come late, again or in any order: a hold
\* whose booking still waits for it is on the way to be accepted, or will be
\* announced and believed.  Without check-ins, incidents and claims nothing
\* takes the vehicle off the market, and no handler dies half way: what remains
\* for HoldIsUsed is that handlers go on and events arrive.
THEOREM HoldsAreAttended == ASSUME NoRevival, ~MayCrash PROVE Spec => []HoldAttended
<1>1. ListedInv /\ HoldAttended /\ [Next]_vars => ListedInv' /\ HoldAttended'
    BY ListedStep, AttendStep
<1> QED
    BY <1>1, ListedInit, PTL DEF Spec

=============================================================================
