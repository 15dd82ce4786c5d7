---------------------------- MODULE RentalRevenue ----------------------------
(* Posting rental revenue: the posting-batches routes over                    *)
(* rentalRevenueStore.ts, against payments that provider events change        *)
(* meanwhile.  One posting asset; a ledger entry is one unit of recognised    *)
(* revenue and lies in one posting period, so the id of a batch is its period. *)
(* A payment is reduced to what posting reads of it.                          *)
EXTENDS Integers, FiniteSets

CONSTANTS
    Request,        \* handlers of POST posting-batches
    NoRequest,
    Payment,        \* payment records, as numbers: locks are taken in id order
    Booking,
    BookingOf,      \* the booking of a payment
    Amount,         \* the revenue units captured of a payment, once it is
    Known,          \* payments recorded before any revenue is posted
    Entry,          \* recognised-revenue ledger entries
    EntryBooking,   \* source.bookingId
    EntryIntent,    \* source.paymentIntentId
    NoIntent,
    Period,
    PeriodOf,       \* the posting period an entry's occurredAt lies in
    Tx, NoTx,       \* protocol transactions
    Batches,        \* bound: the sets of entries operators post together
    Refundable,     \* bound: the payments that are refunded
    Connections     \* postgres.ts max; above the number of requests: no limit

ASSUME PaymentAssumption ==
    /\ Payment \subseteq Nat /\ IsFiniteSet(Payment)
    /\ BookingOf \in [Payment -> Booking]
    /\ Known \subseteq Payment
    /\ Amount \in [Payment -> Nat]
ASSUME EntryAssumption ==
    /\ IsFiniteSet(Entry)
    /\ EntryBooking \in [Entry -> Booking]
    /\ EntryIntent \in [Entry -> Payment \cup {NoIntent}]
    /\ PeriodOf \in [Entry -> Period]
    /\ Batches \subseteq SUBSET Entry
    /\ Refundable \subseteq Payment
    /\ NoIntent \notin Payment
    /\ \A e \in Entry : EntryIntent[e] # NoIntent => BookingOf[EntryIntent[e]] = EntryBooking[e]
\* An intent of a booking is recorded when it is created, before there is any
\* revenue of the booking to post.
ASSUME KnownAssumption ==
    \A e \in Entry : \E p \in Known : BookingOf[p] = EntryBooking[e]
ASSUME RequestAssumption ==
    /\ NoRequest \notin Request /\ NoTx \notin Tx
    /\ Connections \in Nat

VARIABLES
    payment,    \* the payment records
    batch,      \* the batch of a period
    pc,         \* where a request is
    asked,      \* the entries it is to post
    wanted,     \* the payments it listed first, which it locks
    net,        \* what the payments it listed again may stand behind
    backer,     \* the payment that stands behind a booking's entries without an intent
    lock        \* who holds a payment's posting lock

store    == <<payment, batch>>
progress == <<pc, asked, wanted, net, backer, lock>>
vars     == <<store, progress>>

\* captured and partially_captured are one; all that cannot back are "blocked".
PaymentRecord == [status : {"absent", "blocked", "captured", "refunded"},
                  gross : Nat, refunded : Nat]
AbsentPayment == [status |-> "absent", gross |-> 0, refunded |-> 0]
OpenPayment   == [status |-> "blocked", gross |-> 0, refunded |-> 0]

Batch   == {b \in [entries : SUBSET Entry, status : {"none", "ready", "failed", "posted"},
                   tx : Tx \cup {NoTx}] : b.status = "posted" <=> b.tx # NoTx}
NoBatch == [entries |-> {}, status |-> "none", tx |-> NoTx]

TypeOK ==
    /\ payment \in [Payment -> PaymentRecord]
    /\ batch \in [Period -> Batch]
    /\ pc \in [Request -> {"idle", "lock", "count", "create"}]
    /\ asked \in [Request -> SUBSET Entry]
    /\ wanted \in [Request -> SUBSET Payment]
    /\ net \in [Request -> [Payment -> Nat]]
    /\ backer \in [Request -> [Booking -> Payment \cup {NoIntent}]]
    /\ lock \in [Payment -> Request \cup {NoRequest}]

Init ==
    /\ payment = [p \in Payment |-> IF p \in Known THEN OpenPayment ELSE AbsentPayment]
    /\ batch = [d \in Period |-> NoBatch]
    /\ pc = [r \in Request |-> "idle"]
    /\ asked = [r \in Request |-> {}]
    /\ wanted = [r \in Request |-> {}]
    /\ net = [r \in Request |-> [p \in Payment |-> 0]]
    /\ backer = [r \in Request |-> [b \in Booking |-> NoIntent]]
    /\ lock = [p \in Payment |-> NoRequest]

-----------------------------------------------------------------------------
(* Payments and the entries they back.                                       *)

CanBack(record) == record.status \in {"captured", "refunded"}

\* netCapturedAmountCents, of the eligible amount captured.
Net(record) == IF record.gross > record.refunded THEN record.gross - record.refunded ELSE 0

Funded(record) == record.status = "captured" /\ Net(record) > 0

BookingsOf(S) == {EntryBooking[e] : e \in S}

\* listPaymentsByReferences: every entry names its booking.
Referenced(records, S) ==
    {p \in Payment : records[p].status # "absent" /\ BookingOf[p] \in BookingsOf(S)}

\* paymentForEntry without an intent: the latest funded payment, or else the
\* latest that is not blocked, or else the latest.  The order is left open.
Backers(records, b) ==
    LET candidates == {p \in Payment : records[p].status # "absent" /\ BookingOf[p] = b}
        funded     == {p \in candidates : Funded(records[p])}
        unblocked  == {p \in candidates : CanBack(records[p])}
    IN  CASE funded # {}     -> funded
          [] unblocked # {}  -> unblocked
          [] candidates # {} -> candidates
          [] OTHER           -> {NoIntent}

PaymentFor(choice, e) ==
    IF EntryIntent[e] # NoIntent THEN EntryIntent[e] ELSE choice[EntryBooking[e]]

\* The check of blocked and of unreconciled entries.
Reconciled(records, choice, S) == \A e \in S :
    LET p == PaymentFor(choice, e) IN p # NoIntent /\ CanBack(records[p])

BackedBy(choice, S, p) == {e \in S : PaymentFor(choice, e) = p}

\* paymentBackedTotals, of the incoming and the existing entries.
Total(choice, incoming, existing, p) ==
    Cardinality(BackedBy(choice, incoming, p)) + Cardinality(BackedBy(choice, existing, p))

\* listActivePaymentBackedLedgerEntries; "posting" and "voided" are never set.
ActiveEntries ==
    UNION {batch[d].entries : d \in {c \in Period : batch[c].status \in {"ready", "posted", "failed"}}}

-----------------------------------------------------------------------------
(* A posting request.                                                        *)

\* A request keeps the connection of its lock's transaction to the end.
Reserving == {r \in Request : pc[r] # "idle" /\ wanted[r] # {}}
FreeConnection == Cardinality(Reserving) < Connections

\* The answer, whatever it is, or the death of the process: locks are dropped.
Finish(r) ==
    /\ pc' = [pc EXCEPT ![r] = "idle"]
    /\ asked' = [asked EXCEPT ![r] = {}]
    /\ wanted' = [wanted EXCEPT ![r] = {}]
    /\ net' = [net EXCEPT ![r] = [p \in Payment |-> 0]]
    /\ backer' = [backer EXCEPT ![r] = [b \in Booking |-> NoIntent]]
    /\ lock' = [p \in Payment |-> IF lock[p] = r THEN NoRequest ELSE lock[p]]

\* Mutant: only payments an entry names are locked.
ReferencedIntents(records, S) ==
    {p \in Payment : records[p].status # "absent" /\ p \in {EntryIntent[e] : e \in S}}

LocksFor(records, S) == Referenced(records, S)

\* A request arrives, with entries of one period, and lists their payments.
List(r, S) ==
    /\ pc[r] = "idle" /\ FreeConnection
    /\ \E d \in Period : S # {} /\ \A e \in S : PeriodOf[e] = d
    /\ asked' = [asked EXCEPT ![r] = S]
    /\ wanted' = [wanted EXCEPT ![r] = LocksFor(payment, S)]
    /\ pc' = [pc EXCEPT ![r] = "lock"]
    /\ UNCHANGED <<store, net, backer, lock>>

\* Mutant: locks are taken in the order of the list.
AnyLock(r, p) == lock[p] # r

\* The locks are nested in the order of their ids.
NextLock(r, p) == lock[p] # r /\ \A q \in wanted[r] : q < p => lock[q] = r

AcquireLock(r) ==
    /\ pc[r] = "lock"
    /\ \E p \in wanted[r] :
          /\ NextLock(r, p)
          /\ lock[p] = NoRequest
          /\ lock' = [lock EXCEPT ![p] = r]
    /\ UNCHANGED <<store, pc, asked, wanted, net, backer>>

\* The payments listed again, and the choice among those of a booking.
Relist(r) ==
    /\ pc[r] = "lock" /\ \A p \in wanted[r] : lock[p] = r
    /\ FreeConnection
    /\ \E choice \in [BookingsOf(asked[r]) -> Payment \cup {NoIntent}] :
          /\ \A b \in BookingsOf(asked[r]) : choice[b] \in Backers(payment, b)
          /\ IF Reconciled(payment, choice, asked[r])
             THEN /\ net' = [net EXCEPT ![r] = [p \in Payment |-> Net(payment[p])]]
                  /\ backer' = [backer EXCEPT ![r] = [b \in Booking |->
                         IF b \in BookingsOf(asked[r]) THEN choice[b] ELSE NoIntent]]
                  /\ pc' = [pc EXCEPT ![r] = "count"]
                  /\ UNCHANGED <<asked, wanted, lock>>
             ELSE Finish(r)
    /\ UNCHANGED store

\* No payment may stand behind more than was captured of it and not refunded.
Count(r) ==
    /\ pc[r] = "count" /\ FreeConnection
    /\ IF \A p \in Payment : BookingOf[p] \in BookingsOf(asked[r]) =>
              Total(backer[r], asked[r], ActiveEntries, p) <= net[r][p]
       THEN /\ pc' = [pc EXCEPT ![r] = "create"]
            /\ UNCHANGED <<asked, wanted, net, backer, lock>>
       ELSE Finish(r)
    /\ UNCHANGED store

\* A batch of the period is returned, if it is of the same entries, or else is
\* an error: it stays as it is in both cases.
CreatePostingBatch(d, S) ==
    \/ /\ batch[d].status = "none"
       /\ batch' = [batch EXCEPT ![d] = [entries |-> S, status |-> "ready", tx |-> NoTx]]
    \/ /\ batch[d].status # "none"
       /\ UNCHANGED batch

Create(r) ==
    /\ pc[r] = "create" /\ FreeConnection
    /\ \E d \in Period :
          /\ \A e \in asked[r] : PeriodOf[e] = d
          /\ CreatePostingBatch(d, asked[r])
    /\ Finish(r)
    /\ UNCHANGED payment

Crash(r) ==
    /\ pc[r] # "idle"
    /\ Finish(r)
    /\ UNCHANGED store

-----------------------------------------------------------------------------
(* The other routes, and the providers.                                      *)

MarkPosted(d, tx) ==
    /\ FreeConnection
    /\ batch[d].status \in {"ready", "failed"}
    /\ batch' = [batch EXCEPT ![d] = [entries |-> batch[d].entries, status |-> "posted", tx |-> tx]]
    /\ UNCHANGED <<payment, progress>>

\* Mutant: a late failure report undoes a posting.
MayFailAnyTime(d) == batch[d].status # "none"

MayFail(d) == batch[d].status \in {"ready", "failed"}

MarkFailed(d) ==
    /\ FreeConnection
    /\ MayFail(d)
    /\ batch' = [batch EXCEPT ![d].status = "failed"]
    /\ UNCHANGED <<payment, progress>>

\* recordStripeEvent, as far as posting can tell: any status after any other,
\* a capture recorded with the first event that shows it, and refunds that are
\* only recorded with their status.  It takes no posting lock.
RecordStripeEvent(p) ==
    /\ \E status \in {"blocked", "captured", "refunded"}, refunded \in payment[p].refunded .. Amount[p] :
          /\ refunded # payment[p].refunded => status = "refunded"
          /\ status = "refunded" => p \in Refundable
          /\ payment' = [payment EXCEPT ![p] =
                 [status   |-> status,
                  gross    |-> IF status = "blocked" THEN payment[p].gross ELSE Amount[p],
                  refunded |-> refunded]]
    /\ UNCHANGED <<batch, progress>>

Proceed(r) == AcquireLock(r) \/ Relist(r) \/ Count(r) \/ Create(r)

Next ==
    \/ \E r \in Request : Proceed(r) \/ Crash(r) \/ \E S \in Batches : List(r, S)
    \/ \E d \in Period : MarkFailed(d) \/ \E tx \in Tx : MarkPosted(d, tx)
    \/ \E p \in Payment : RecordStripeEvent(p)

Spec == Init /\ [][Next]_vars

\* Handlers run on; the locks are queues, and so are the connections.
Fairness == \A r \in Request : SF_vars(Proceed(r))

FairSpec == Spec /\ Fairness

-----------------------------------------------------------------------------
(* Properties.                                                               *)

Posting == UNION {batch[d].entries : d \in Period}

\* The units captured of the payments P, one by one.
Units(records, P) == UNION {{p} \X (1 .. records[p].gross) : p \in P}

\* However requests, retries, failures and provider events interleave, the
\* entries that name a payment never add up to more than was captured of it
\* ("Payment-backed revenue exceeds captured payment amount").
IntentBacked == \A p \in Payment :
    Cardinality({e \in Posting : EntryIntent[e] = p}) <= payment[p].gross

\* Nor do a booking's entries, named or not, exceed all that was captured of it.
BookingBacked == \A b \in Booking :
    Cardinality({e \in Posting : EntryBooking[e] = b})
        <= Cardinality(Units(payment, {p \in Payment : BookingOf[p] = b}))

\* Revenue is never posted beyond what was captured, by payment or by booking.
RevenueBacked == IntentBacked /\ BookingBacked

\* A retry, a late failure report or another transaction never changes what was
\* posted.
PostedIsFinal == [][\A d \in Period : batch[d].status = "posted" => batch'[d] = batch[d]]_vars

\* A request that may go on: the lock it needs next is free, or it has them all
\* and a connection for its next statement, which has what it looks for.
MayProceed(r) ==
    \/ pc[r] = "lock" /\ \E p \in wanted[r] : NextLock(r, p) /\ lock[p] = NoRequest
    \/ /\ pc[r] = "lock" /\ \A p \in wanted[r] : lock[p] = r
       /\ FreeConnection /\ \A b \in BookingsOf(asked[r]) : Backers(payment, b) # {}
    \/ pc[r] = "count" /\ FreeConnection
    \/ /\ pc[r] = "create" /\ FreeConnection
       /\ \E d \in Period : \A e \in asked[r] : PeriodOf[e] = d

\* Whatever payments requests lock, and in whatever state payments were when
\* they were listed, requests never all wait for each other: while the pool has
\* a connection left, one of those at work may go on.
NeverAllWaiting ==
    FreeConnection /\ (\E r \in Request : pc[r] # "idle") => \E r \in Request : MayProceed(r)

\* The steps a request still has before its answer.
Remaining(r) == CASE pc[r] = "idle"   -> 0
                  [] pc[r] = "create" -> 1
                  [] pc[r] = "count"  -> 2
                  [] OTHER -> 3 + Cardinality({p \in wanted[r] : lock[p] # r})

\* Every step of a request brings its answer closer, and no other request,
\* operator or provider sets it back.
AnswerComesCloser == [][\A r \in Request : pc[r] # "idle" =>
    /\ Remaining(r)' <= Remaining(r)
    /\ Proceed(r) => Remaining(r)' < Remaining(r)]_vars

\* Requests that lock the same payments never wait for each other for ever.
PostingAnswered == \A r \in Request : pc[r] # "idle" ~> pc[r] = "idle"
=============================================================================
