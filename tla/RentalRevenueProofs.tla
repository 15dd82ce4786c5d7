------------------------- MODULE RentalRevenueProofs -------------------------
(* Posting is correct for any requests, payments, bookings, entries and       *)
(* periods.  Requests for entries of one booking have a recorded payment of   *)
(* it, and so its lock, in common: between the count and the batch of one, no *)
(* other adds entries of its bookings.                                        *)
EXTENDS RentalRevenue, FunctionTheorems, FiniteSetTheorems, TLAPS, WellFoundedInduction

\* What was captured or refunded is never recorded lower, first payments stay
\* recorded, and a batch that does not exist has no entries.
StoreSound ==
    /\ \A p \in Payment : payment[p].gross <= Amount[p]
    /\ \A p \in Known : payment[p].status # "absent"
    /\ \A d \in Period : batch[d].status = "none" => batch[d].entries = {}

\* Past the locks; and beyond the count.
Holding(r) == pc[r] \in {"count", "create"}

\* The bookings a request posts for.
Bookings(r) == BookingsOf(asked[r])

\* A request wants the lock of every known payment of its bookings.
WantsKnown == \A r \in Request : pc[r] # "idle" =>
    \A p \in Known : BookingOf[p] \in Bookings(r) => p \in wanted[r]

HoldsWanted == \A r \in Request : Holding(r) => \A p \in wanted[r] : lock[p] = r

\* A request that has chosen has a payment of each of its bookings for it.
ChoiceSound == \A r \in Request : \A b \in Booking :
    IF Holding(r) /\ b \in Bookings(r)
    THEN backer[r][b] \in Payment /\ BookingOf[backer[r][b]] = b
    ELSE backer[r][b] = NoIntent

NetCaptured == \A r \in Request : \A p \in Payment : net[r][p] <= payment[p].gross

\* The count of a request is still true when it creates its batch.
CountHolds == \A r \in Request : pc[r] = "create" =>
    \A p \in Payment : BookingOf[p] \in Bookings(r) =>
        Total(backer[r], asked[r], Posting, p) <= net[r][p]

IInv == /\ TypeOK /\ StoreSound
        /\ WantsKnown /\ HoldsWanted /\ ChoiceSound /\ NetCaptured /\ CountHolds
        /\ IntentBacked /\ BookingBacked

-----------------------------------------------------------------------------
(* Types.                                                                    *)

LEMMA BatchTyped ==
    ASSUME NEW S, S \subseteq Entry, NEW s \in {"none", "ready", "failed"}
    PROVE  [entries |-> S, status |-> s, tx |-> NoTx] \in Batch
BY RequestAssumption DEF Batch

LEMMA InitTyped == Init => TypeOK
<1> SUFFICES ASSUME Init PROVE TypeOK
  OBVIOUS
<1>1. AbsentPayment \in PaymentRecord /\ OpenPayment \in PaymentRecord
  BY DEF AbsentPayment, OpenPayment, PaymentRecord
<1>2. NoBatch \in Batch
  BY BatchTyped DEF NoBatch
<1> QED
  BY <1>1, <1>2 DEF Init, TypeOK

LEMMA NetTyped ==
    ASSUME NEW record \in PaymentRecord
    PROVE  Net(record) \in Nat /\ Net(record) <= record.gross
BY DEF PaymentRecord, Net

LEMMA FinishTyped ==
    ASSUME TypeOK, NEW r \in Request, Finish(r), UNCHANGED store
    PROVE  TypeOK'
BY DEF TypeOK, Finish, store

LEMMA StepTyped ==
    ASSUME TypeOK, [Next]_vars
    PROVE  TypeOK'
<1>1. ASSUME NEW r \in Request, NEW S \in Batches, List(r, S)
      PROVE  TypeOK'
  <2>1. S \subseteq Entry /\ LocksFor(payment, S) \subseteq Payment
    BY EntryAssumption DEF LocksFor, Referenced
  <2> QED
    BY <1>1, <2>1 DEF List, TypeOK, store
<1>2. ASSUME NEW r \in Request, AcquireLock(r)
      PROVE  TypeOK'
  BY <1>2 DEF AcquireLock, TypeOK, store
<1>3. ASSUME NEW r \in Request, Relist(r)
      PROVE  TypeOK'
  <2>1. PICK choice \in [BookingsOf(asked[r]) -> Payment \cup {NoIntent}] :
          IF Reconciled(payment, choice, asked[r])
          THEN /\ net' = [net EXCEPT ![r] = [p \in Payment |-> Net(payment[p])]]
               /\ backer' = [backer EXCEPT ![r] = [b \in Booking |->
                      IF b \in BookingsOf(asked[r]) THEN choice[b] ELSE NoIntent]]
               /\ pc' = [pc EXCEPT ![r] = "count"]
               /\ UNCHANGED <<asked, wanted, lock>>
          ELSE Finish(r)
    BY <1>3 DEF Relist
  <2>2. UNCHANGED store
    BY <1>3 DEF Relist
  <2>3. CASE ~Reconciled(payment, choice, asked[r])
    BY <2>1, <2>2, <2>3, FinishTyped
  <2>4. CASE Reconciled(payment, choice, asked[r])
    <3> DEFINE n == [p \in Payment |-> Net(payment[p])]
               c == [b \in Booking |-> IF b \in BookingsOf(asked[r]) THEN choice[b] ELSE NoIntent]
    <3>1. n \in [Payment -> Nat]
      BY NetTyped DEF TypeOK
    <3>2. c \in [Booking -> Payment \cup {NoIntent}]
      OBVIOUS
    <3>3. /\ net' = [net EXCEPT ![r] = n] /\ backer' = [backer EXCEPT ![r] = c]
          /\ pc' = [pc EXCEPT ![r] = "count"] /\ UNCHANGED <<asked, wanted, lock, store>>
      BY <2>1, <2>2, <2>4
    <3> HIDE DEF n, c
    <3> QED
      BY <3>1, <3>2, <3>3 DEF TypeOK, store
  <2> QED
    BY <2>3, <2>4
<1>4. ASSUME NEW r \in Request, Count(r)
      PROVE  TypeOK'
  <2>1. CASE Finish(r)
    BY <1>4, <2>1, FinishTyped DEF Count
  <2>2. CASE pc' = [pc EXCEPT ![r] = "create"] /\ UNCHANGED <<asked, wanted, net, backer, lock>>
    BY <1>4, <2>2 DEF Count, TypeOK, store
  <2> QED
    BY <1>4, <2>1, <2>2 DEF Count
<1>5. ASSUME NEW r \in Request, Create(r)
      PROVE  TypeOK'
  <2>1. batch' \in [Period -> Batch]
    <3>1. PICK d \in Period : CreatePostingBatch(d, asked[r])
      BY <1>5 DEF Create
    <3>2. asked[r] \subseteq Entry
      BY DEF TypeOK
    <3>3. [entries |-> asked[r], status |-> "ready", tx |-> NoTx] \in Batch
      BY <3>2, BatchTyped
    <3> QED
      BY <3>1, <3>3 DEF CreatePostingBatch, TypeOK
  <2>2. payment' = payment /\ Finish(r)
    BY <1>5 DEF Create
  <2> QED
    BY <2>1, <2>2 DEF TypeOK, Finish
<1>6. ASSUME NEW r \in Request, Crash(r)
      PROVE  TypeOK'
  BY <1>6, FinishTyped DEF Crash
<1>7. ASSUME NEW d \in Period, NEW tx \in Tx, MarkPosted(d, tx)
      PROVE  TypeOK'
  <2>1. [entries |-> batch[d].entries, status |-> "posted", tx |-> tx] \in Batch
    BY RequestAssumption DEF TypeOK, Batch
  <2> QED
    BY <1>7, <2>1 DEF MarkPosted, TypeOK, progress
<1>8. ASSUME NEW d \in Period, MarkFailed(d)
      PROVE  TypeOK'
  <2>1. [batch[d] EXCEPT !.status = "failed"] \in Batch
    BY <1>8, RequestAssumption DEF MarkFailed, MayFail, TypeOK, Batch
  <2> QED
    BY <1>8, <2>1 DEF MarkFailed, TypeOK, progress
<1>9. ASSUME NEW p \in Payment, RecordStripeEvent(p)
      PROVE  TypeOK'
  <2>1. PICK status \in {"blocked", "captured", "refunded"}, refunded \in payment[p].refunded .. Amount[p] :
          payment' = [payment EXCEPT ![p] =
              [status   |-> status,
               gross    |-> IF status = "blocked" THEN payment[p].gross ELSE Amount[p],
               refunded |-> refunded]]
    BY <1>9 DEF RecordStripeEvent
  <2>2. payment[p].refunded \in Nat /\ payment[p].gross \in Nat /\ Amount[p] \in Nat
    BY PaymentAssumption DEF TypeOK, PaymentRecord
  <2>3. refunded \in Nat
    BY <2>2
  <2>4. [status   |-> status,
         gross    |-> IF status = "blocked" THEN payment[p].gross ELSE Amount[p],
         refunded |-> refunded] \in PaymentRecord
    BY <2>2, <2>3 DEF PaymentRecord
  <2> QED
    BY <1>9, <2>1, <2>4 DEF RecordStripeEvent, TypeOK, progress
<1>10. CASE UNCHANGED vars
  BY <1>10 DEF TypeOK, vars, store, progress
<1> QED
  BY <1>1, <1>2, <1>3, <1>4, <1>5, <1>6, <1>7, <1>8, <1>9, <1>10 DEF Next, Proceed

\* The records of posting keep their types whatever requests, providers and
\* operators do; in particular only a posted batch ever has a transaction.
THEOREM TypeCorrect == Spec => []TypeOK
<1>1. Init => TypeOK
  BY InitTyped
<1>2. TypeOK /\ [Next]_vars => TypeOK'
  BY StepTyped
<1> QED
  BY <1>1, <1>2, PTL DEF Spec

-----------------------------------------------------------------------------
(* What a step does to the store, and to one request.                        *)

LEMMA PostingEntries ==
    ASSUME TypeOK, StoreSound
    PROVE  ActiveEntries = Posting /\ Posting \subseteq Entry
<1>1. \A d \in Period : /\ batch[d].entries \subseteq Entry
                        /\ batch[d].status \in {"none", "ready", "failed", "posted"}
  BY DEF TypeOK, Batch
<1> QED
  BY <1>1 DEF StoreSound, ActiveEntries, Posting

\* A step that changes no payment and posts no entry.
SameEntries ==
    /\ payment' = payment
    /\ \A d \in Period : /\ batch'[d].entries = batch[d].entries
                         /\ batch'[d].status = "none" => batch[d].status = "none"

\* Only a new batch posts entries, those of the request that creates it.
LEMMA StoreStep ==
    ASSUME TypeOK, StoreSound, [Next]_vars
    PROVE  /\ StoreSound'
           /\ \A p \in Payment : payment[p].gross <= payment'[p].gross
           /\ \/ Posting' = Posting
              \/ \E r \in Request : /\ pc[r] = "create" /\ pc'[r] = "idle"
                                   /\ Posting' = Posting \cup asked[r]
<1> USE DEF StoreSound
<1>1. ASSUME UNCHANGED store
      PROVE  /\ StoreSound'
             /\ \A p \in Payment : payment[p].gross <= payment'[p].gross
             /\ Posting' = Posting
  <2>1. payment' = payment /\ batch' = batch
    BY <1>1 DEF store
  <2>2. \A p \in Payment : payment[p].gross \in Nat
    BY DEF TypeOK, PaymentRecord
  <2> QED
    BY <2>1, <2>2 DEF Posting
<1>2. ASSUME SameEntries
      PROVE  /\ StoreSound'
             /\ \A p \in Payment : payment[p].gross <= payment'[p].gross
             /\ Posting' = Posting
  <2>1. \A p \in Payment : payment[p].gross \in Nat
    BY DEF TypeOK, PaymentRecord
  <2>2. StoreSound' /\ \A p \in Payment : payment[p].gross <= payment'[p].gross
    BY <1>2, <2>1 DEF SameEntries
  <2>3. Posting' = Posting
    BY <1>2 DEF SameEntries, Posting
  <2> QED
    BY <2>2, <2>3
<1>3. ASSUME NEW r \in Request, Create(r)
      PROVE  /\ StoreSound'
             /\ \A p \in Payment : payment[p].gross <= payment'[p].gross
             /\ \/ Posting' = Posting
                \/ pc[r] = "create" /\ pc'[r] = "idle" /\ Posting' = Posting \cup asked[r]
  <2>1. PICK d \in Period : CreatePostingBatch(d, asked[r])
    BY <1>3 DEF Create
  <2>2. payment' = payment /\ pc[r] = "create" /\ pc'[r] = "idle"
    BY <1>3 DEF Create, Finish, TypeOK
  <2>3. CASE UNCHANGED batch
    BY <2>2, <2>3, <1>1 DEF store
  <2>4. CASE batch[d].status = "none" /\ batch' = [batch EXCEPT ![d] = [entries |-> asked[r], status |-> "ready", tx |-> NoTx]]
    <3>1. \A p \in Payment : payment[p].gross \in Nat
      BY DEF TypeOK, PaymentRecord
    <3>2. /\ batch'[d].entries = asked[r] /\ batch'[d].status = "ready"
          /\ \A c \in Period : c # d => batch'[c] = batch[c]
      BY <2>4 DEF TypeOK
    <3>3. Posting' = Posting \cup asked[r]
      BY <2>4, <3>2 DEF Posting
    <3> QED
      BY <2>2, <3>1, <3>2, <3>3
  <2> QED
    BY <2>1, <2>3, <2>4 DEF CreatePostingBatch
<1>4. ASSUME NEW d \in Period, MarkFailed(d) \/ \E tx \in Tx : MarkPosted(d, tx)
      PROVE  SameEntries
  <2>1. payment' = payment
    BY <1>4 DEF MarkFailed, MarkPosted
  <2>2. batch[d] = [entries |-> batch[d].entries, status |-> batch[d].status, tx |-> batch[d].tx]
    BY DEF TypeOK, Batch
  <2>3. CASE MarkFailed(d)
    <3>1. batch' = [batch EXCEPT ![d].status = "failed"]
      BY <2>3 DEF MarkFailed
    <3>2. batch'[d].entries = batch[d].entries /\ batch'[d].status = "failed"
      BY <3>1, <2>2 DEF TypeOK
    <3>3. \A c \in Period : c # d => batch'[c] = batch[c]
      BY <3>1 DEF TypeOK
    <3> QED
      BY <2>1, <3>2, <3>3 DEF SameEntries
  <2>4. ASSUME NEW tx \in Tx, MarkPosted(d, tx)
        PROVE  /\ batch'[d].entries = batch[d].entries /\ batch'[d].status = "posted"
               /\ \A c \in Period : c # d => batch'[c] = batch[c]
    BY <2>4 DEF MarkPosted, TypeOK
  <2> QED
    BY <1>4, <2>1, <2>3, <2>4 DEF SameEntries
<1>5. ASSUME NEW p \in Payment, RecordStripeEvent(p)
      PROVE  /\ StoreSound'
             /\ \A q \in Payment : payment[q].gross <= payment'[q].gross
             /\ Posting' = Posting
  <2>1. PICK status \in {"blocked", "captured", "refunded"}, refunded \in payment[p].refunded .. Amount[p] :
          payment' = [payment EXCEPT ![p] =
              [status   |-> status,
               gross    |-> IF status = "blocked" THEN payment[p].gross ELSE Amount[p],
               refunded |-> refunded]]
    BY <1>5 DEF RecordStripeEvent
  <2>2. \A q \in Payment : payment[q].gross \in Nat /\ Amount[q] \in Nat
    BY PaymentAssumption DEF TypeOK, PaymentRecord
  <2>3. /\ payment'[p].gross = IF status = "blocked" THEN payment[p].gross ELSE Amount[p]
        /\ payment'[p].status # "absent"
        /\ \A q \in Payment : q # p => payment'[q] = payment[q]
    BY <2>1 DEF TypeOK
  <2>4. batch' = batch
    BY <1>5 DEF RecordStripeEvent
  <2>5. \A q \in Payment : payment[q].gross <= payment'[q].gross
    <3> SUFFICES ASSUME NEW q \in Payment PROVE payment[q].gross <= payment'[q].gross
      OBVIOUS
    <3>1. CASE q = p
      BY <2>2, <2>3, <3>1
    <3>2. CASE q # p
      BY <2>2, <2>3, <3>2
    <3> QED
      BY <3>1, <3>2
  <2>6. Posting' = Posting
    BY <2>4 DEF Posting
  <2>7. payment'[p].gross <= Amount[p]
    BY <2>2, <2>3 DEF StoreSound
  <2>8. \A q \in Payment : payment'[q].gross <= Amount[q]
    BY <2>3, <2>7 DEF StoreSound
  <2>9. \A q \in Known : payment'[q].status # "absent"
    BY <2>3, PaymentAssumption DEF StoreSound
  <2>10. StoreSound'
    BY <2>4, <2>8, <2>9 DEF StoreSound
  <2> QED
    BY <2>5, <2>6, <2>10
<1>6. CASE \E r \in Request : Relist(r) \/ Count(r) \/ AcquireLock(r) \/ Crash(r) \/ \E S \in Batches : List(r, S)
  <2>1. UNCHANGED store
    BY <1>6 DEF Relist, Count, AcquireLock, Crash, List, store
  <2> QED
    BY <2>1, <1>1
<1>7. CASE \E r \in Request : Create(r)
  BY <1>7, <1>3
<1>8. CASE \E d \in Period : MarkFailed(d) \/ \E tx \in Tx : MarkPosted(d, tx)
  <2>1. SameEntries
    BY <1>8, <1>4
  <2> QED
    BY <2>1, <1>2
<1>9. CASE \E p \in Payment : RecordStripeEvent(p)
  BY <1>9, <1>5
<1>10. CASE UNCHANGED vars
  BY <1>10, <1>1 DEF vars
<1> QED
  BY <1>6, <1>7, <1>8, <1>9, <1>10 DEF Next, Proceed

\* What a step may do to a request.
Stays(r) == /\ pc'[r] = pc[r] /\ asked'[r] = asked[r] /\ wanted'[r] = wanted[r]
            /\ net'[r] = net[r] /\ backer'[r] = backer[r]

Ends(r) == /\ pc'[r] = "idle"
           /\ net'[r] = [p \in Payment |-> 0]
           /\ backer'[r] = [b \in Booking |-> NoIntent]

Lists(r) == /\ pc[r] = "idle" /\ pc'[r] = "lock"
            /\ wanted'[r] = Referenced(payment, asked'[r])
            /\ net'[r] = net[r] /\ backer'[r] = backer[r]

Chooses(r) == /\ pc[r] = "lock" /\ pc'[r] = "count"
              /\ asked'[r] = asked[r] /\ wanted'[r] = wanted[r]
              /\ \A p \in wanted[r] : lock[p] = r
              /\ \A p \in Payment : net'[r][p] = Net(payment[p])
              /\ \A b \in Booking :
                     IF b \in Bookings(r) THEN backer'[r][b] \in Backers(payment, b) ELSE backer'[r][b] = NoIntent

Counts(r) == /\ pc[r] = "count" /\ pc'[r] = "create"
             /\ asked'[r] = asked[r] /\ wanted'[r] = wanted[r]
             /\ net'[r] = net[r] /\ backer'[r] = backer[r]
             /\ batch' = batch
             /\ \A p \in Payment : BookingOf[p] \in Bookings(r) =>
                   Total(backer[r], asked[r], ActiveEntries, p) <= net[r][p]

Moves(r) == Stays(r) \/ Ends(r) \/ Lists(r) \/ Chooses(r) \/ Counts(r)

\* Nobody loses a lock before its answer.
KeepsLocks(r) == \A p \in Payment : lock[p] = r /\ pc'[r] # "idle" => lock'[p] = r

LEMMA Finishing ==
    ASSUME TypeOK, NEW s \in Request, Finish(s)
    PROVE  \A r \in Request : Moves(r) /\ KeepsLocks(r)
<1>1. Ends(s)
  BY DEF TypeOK, Finish, Ends
<1>2. \A r \in Request : r # s => Stays(r)
  BY DEF TypeOK, Finish, Stays
<1>3. \A r \in Request : KeepsLocks(r)
  BY <1>1 DEF TypeOK, Finish, Ends, KeepsLocks
<1> QED
  BY <1>1, <1>2, <1>3 DEF Moves

LEMMA RequestStep ==
    ASSUME TypeOK, [Next]_vars
    PROVE  \A r \in Request : Moves(r) /\ KeepsLocks(r)
<1>1. ASSUME UNCHANGED progress
      PROVE  \A r \in Request : Moves(r) /\ KeepsLocks(r)
  BY <1>1 DEF progress, Moves, Stays, KeepsLocks
<1>2. ASSUME NEW s \in Request, NEW S \in Batches, List(s, S)
      PROVE  \A r \in Request : Moves(r) /\ KeepsLocks(r)
  <2>1. Lists(s)
    BY <1>2 DEF List, Lists, LocksFor, TypeOK
  <2>2. \A r \in Request : r # s => Stays(r)
    BY <1>2 DEF List, Stays, TypeOK
  <2>3. \A r \in Request : KeepsLocks(r)
    BY <1>2 DEF List, KeepsLocks
  <2> QED
    BY <2>1, <2>2, <2>3 DEF Moves
<1>3. ASSUME NEW s \in Request, AcquireLock(s)
      PROVE  \A r \in Request : Moves(r) /\ KeepsLocks(r)
  <2>1. \A r \in Request : Stays(r)
    BY <1>3 DEF AcquireLock, Stays
  <2>2. \A r \in Request : KeepsLocks(r)
    BY <1>3, RequestAssumption DEF AcquireLock, KeepsLocks, TypeOK
  <2> QED
    BY <2>1, <2>2 DEF Moves
<1>4. ASSUME NEW s \in Request, Relist(s)
      PROVE  \A r \in Request : Moves(r) /\ KeepsLocks(r)
  <2> DEFINE n == [p \in Payment |-> Net(payment[p])]
             c(choice) == [b \in Booking |-> IF b \in BookingsOf(asked[s]) THEN choice[b] ELSE NoIntent]
  <2>1. PICK choice \in [BookingsOf(asked[s]) -> Payment \cup {NoIntent}] :
          /\ \A b \in BookingsOf(asked[s]) : choice[b] \in Backers(payment, b)
          /\ \/ Finish(s)
             \/ /\ net' = [net EXCEPT ![s] = n] /\ backer' = [backer EXCEPT ![s] = c(choice)]
                /\ pc' = [pc EXCEPT ![s] = "count"]
                /\ UNCHANGED <<asked, wanted, lock>>
    BY <1>4 DEF Relist
  <2>2. CASE Finish(s)
    BY <2>2, Finishing
  <2>3. CASE ~Finish(s)
    <3>1. /\ net' = [net EXCEPT ![s] = n] /\ backer' = [backer EXCEPT ![s] = c(choice)]
          /\ pc' = [pc EXCEPT ![s] = "count"]
          /\ UNCHANGED <<asked, wanted, lock>>
      BY <2>1, <2>3
    <3>2. \A b \in Booking :
             IF b \in BookingsOf(asked[s]) THEN c(choice)[b] \in Backers(payment, b) ELSE c(choice)[b] = NoIntent
      BY <2>1
    <3>3. \A p \in Payment : n[p] = Net(payment[p])
      OBVIOUS
    <3> HIDE DEF n, c
    <3>4. /\ pc'[s] = "count" /\ asked'[s] = asked[s] /\ wanted'[s] = wanted[s]
          /\ net'[s] = n /\ backer'[s] = c(choice)
      BY <3>1 DEF TypeOK
    <3>5. pc[s] = "lock" /\ \A p \in wanted[s] : lock[p] = s
      BY <1>4 DEF Relist
    <3>6. Chooses(s)
      BY <3>2, <3>3, <3>4, <3>5 DEF Chooses, Bookings
    <3>7. \A r \in Request : r # s => Stays(r)
      BY <3>1 DEF TypeOK, Stays
    <3>8. \A r \in Request : KeepsLocks(r)
      BY <3>1 DEF KeepsLocks
    <3> QED
      BY <3>6, <3>7, <3>8 DEF Moves
  <2> QED
    BY <2>2, <2>3
<1>5. ASSUME NEW s \in Request, Count(s)
      PROVE  \A r \in Request : Moves(r) /\ KeepsLocks(r)
  <2>1. CASE Finish(s)
    BY <2>1, Finishing
  <2>2. CASE ~Finish(s)
    <3>1. /\ pc[s] = "count" /\ pc' = [pc EXCEPT ![s] = "create"]
          /\ UNCHANGED <<asked, wanted, net, backer, lock, store>>
          /\ \A p \in Payment : BookingOf[p] \in BookingsOf(asked[s]) =>
                Total(backer[s], asked[s], ActiveEntries, p) <= net[s][p]
      BY <1>5, <2>2 DEF Count
    <3>2. Counts(s)
      BY <3>1 DEF Counts, Bookings, TypeOK, store
    <3>3. \A r \in Request : r # s => Stays(r)
      BY <3>1 DEF Stays, TypeOK
    <3>4. \A r \in Request : KeepsLocks(r)
      BY <3>1 DEF KeepsLocks
    <3> QED
      BY <3>2, <3>3, <3>4 DEF Moves
  <2> QED
    BY <2>1, <2>2
<1>6. CASE \E s \in Request : Create(s) \/ Crash(s)
  BY <1>6, Finishing DEF Create, Crash
<1>7. CASE \/ \E d \in Period : MarkFailed(d) \/ \E tx \in Tx : MarkPosted(d, tx)
           \/ \E p \in Payment : RecordStripeEvent(p)
           \/ UNCHANGED vars
  <2>1. UNCHANGED progress
    BY <1>7 DEF MarkFailed, MarkPosted, RecordStripeEvent, vars
  <2> QED
    BY <2>1, <1>1
<1> QED
  BY <1>2, <1>3, <1>4, <1>5, <1>6, <1>7 DEF Next, Proceed

-----------------------------------------------------------------------------
(* Locks: a booking is posted by one request at a time.                      *)

LEMMA LocksStep ==
    ASSUME TypeOK, StoreSound, WantsKnown, HoldsWanted, [Next]_vars
    PROVE  WantsKnown' /\ HoldsWanted'
<1>1. \A r \in Request : Moves(r) /\ KeepsLocks(r)
  BY RequestStep
<1>2. ASSUME NEW r \in Request, pc'[r] # "idle", NEW p \in Known, BookingOf[p] \in Bookings(r)'
      PROVE  p \in wanted'[r]
  <2>1. CASE Lists(r)
    BY <1>2, <2>1, PaymentAssumption DEF Lists, Referenced, Bookings, StoreSound
  <2>2. CASE Stays(r) \/ Chooses(r) \/ Counts(r)
    BY <1>2, <2>2 DEF Stays, Chooses, Counts, Bookings, WantsKnown
  <2> QED
    BY <1>1, <1>2, <2>1, <2>2 DEF Moves, Ends
<1>3. ASSUME NEW r \in Request, Holding(r)', NEW p \in wanted'[r]
      PROVE  lock'[p] = r
  <2>1. pc'[r] \in {"count", "create"} /\ ~Lists(r) /\ ~Ends(r)
    BY <1>3 DEF Holding, Lists, Ends
  <2>2. p \in wanted[r] /\ lock[p] = r
    BY <1>1, <1>3, <2>1 DEF Moves, Stays, Chooses, Counts, HoldsWanted, Holding
  <2>3. p \in Payment
    BY <2>2 DEF TypeOK
  <2> QED
    BY <1>1, <2>1, <2>2, <2>3 DEF KeepsLocks
<1> QED
  BY <1>2, <1>3 DEF WantsKnown, HoldsWanted

LEMMA OneAtATime ==
    ASSUME TypeOK, WantsKnown, HoldsWanted,
           NEW r \in Request, NEW s \in Request, r # s, Holding(r), Holding(s)
    PROVE  Bookings(r) \cap Bookings(s) = {}
<1> SUFFICES ASSUME NEW b \in Bookings(r), b \in Bookings(s) PROVE FALSE
  OBVIOUS
<1>1. PICK e \in asked[r] : b = EntryBooking[e]
  BY DEF Bookings, BookingsOf
<1>2. PICK p \in Known : BookingOf[p] = b
  BY <1>1, KnownAssumption DEF TypeOK
<1>3. p \in wanted[r] /\ p \in wanted[s]
  BY <1>2 DEF WantsKnown, Holding
<1> QED
  BY <1>3 DEF HoldsWanted

-----------------------------------------------------------------------------
(* Choices and counts.                                                       *)

\* A booking of a request has a recorded payment, and is backed by its own.
LEMMA BackersOfBooking ==
    ASSUME TypeOK, StoreSound, NEW r \in Request, NEW b \in Bookings(r)
    PROVE  Backers(payment, b) \subseteq {p \in Payment : BookingOf[p] = b}
<1>1. PICK e \in asked[r] : b = EntryBooking[e]
  BY DEF Bookings, BookingsOf
<1>2. PICK p \in Known : BookingOf[p] = b
  BY <1>1, KnownAssumption DEF TypeOK
<1>3. p \in Payment /\ payment[p].status # "absent"
  BY PaymentAssumption DEF StoreSound
<1>4. {q \in Payment : payment[q].status # "absent" /\ BookingOf[q] = b} # {}
  BY <1>2, <1>3
<1> QED
  BY <1>4 DEF Backers

LEMMA ChoiceStep ==
    ASSUME TypeOK, StoreSound, ChoiceSound, NetCaptured, [Next]_vars
    PROVE  ChoiceSound' /\ NetCaptured'
<1>1. \A r \in Request : Moves(r)
  BY RequestStep
<1>2. ASSUME NEW r \in Request, NEW b \in Booking
      PROVE  IF Holding(r)' /\ b \in Bookings(r)'
             THEN backer'[r][b] \in Payment /\ BookingOf[backer'[r][b]] = b
             ELSE backer'[r][b] = NoIntent
  <2>1. CASE Stays(r) \/ Counts(r)
    <3>1. (Holding(r)' <=> Holding(r)) /\ Bookings(r)' = Bookings(r) /\ backer'[r] = backer[r]
      BY <2>1 DEF Stays, Counts, Holding, Bookings
    <3> QED
      BY <3>1 DEF ChoiceSound
  <2>2. CASE Ends(r)
    BY <2>2 DEF Ends, Holding
  <2>3. CASE Lists(r)
    <3>1. ~Holding(r)' /\ ~Holding(r) /\ backer'[r] = backer[r]
      BY <2>3 DEF Lists, Holding
    <3> QED
      BY <3>1 DEF ChoiceSound
  <2>4. CASE Chooses(r)
    <3>1. Holding(r)' /\ Bookings(r)' = Bookings(r)
      BY <2>4 DEF Chooses, Holding, Bookings
    <3>2. CASE b \in Bookings(r)
      <4>1. backer'[r][b] \in Backers(payment, b)
        BY <2>4, <3>2 DEF Chooses
      <4> QED
        BY <3>1, <3>2, <4>1, BackersOfBooking
    <3>3. CASE b \notin Bookings(r)
      BY <2>4, <3>1, <3>3 DEF Chooses
    <3> QED
      BY <3>2, <3>3
  <2> QED
    BY <1>1, <2>1, <2>2, <2>3, <2>4 DEF Moves
<1>3. ASSUME NEW r \in Request, NEW p \in Payment
      PROVE  net'[r][p] <= payment'[p].gross
  <2>1. payment[p] \in PaymentRecord /\ payment'[p].gross \in Nat /\ payment[p].gross \in Nat
    BY StepTyped DEF TypeOK, PaymentRecord
  <2>2. payment[p].gross <= payment'[p].gross
    BY StoreStep
  <2>3. net[r][p] <= payment[p].gross /\ net[r][p] \in Nat
    BY DEF NetCaptured, TypeOK
  <2>4. Net(payment[p]) <= payment[p].gross /\ Net(payment[p]) \in Nat
    BY <2>1, NetTyped
  <2>5. net'[r][p] = net[r][p] \/ net'[r][p] = 0 \/ net'[r][p] = Net(payment[p])
    BY <1>1 DEF Moves, Stays, Ends, Lists, Chooses, Counts
  <2> QED
    BY <2>1, <2>2, <2>3, <2>4, <2>5
<1> QED
  BY <1>2, <1>3 DEF ChoiceSound, NetCaptured

\* What another request posts is backed by none of the payments of this one.
LEMMA OthersPost ==
    ASSUME IInv, NEW r \in Request, NEW s \in Request, r # s, Holding(r), Holding(s),
           NEW p \in Payment, BookingOf[p] \in Bookings(r)
    PROVE  BackedBy(backer[r], Posting \cup asked[s], p) = BackedBy(backer[r], Posting, p)
<1> SUFFICES ASSUME NEW e \in asked[s] PROVE PaymentFor(backer[r], e) # p
  BY DEF BackedBy
<1>1. e \in Entry /\ EntryBooking[e] \in Bookings(s)
  BY DEF IInv, TypeOK, Bookings, BookingsOf
<1>2. EntryBooking[e] \notin Bookings(r)
  BY <1>1, OneAtATime DEF IInv
<1>3. CASE EntryIntent[e] # NoIntent
  BY <1>1, <1>2, <1>3, EntryAssumption DEF PaymentFor
<1>4. CASE EntryIntent[e] = NoIntent
  <2>1. backer[r][EntryBooking[e]] = NoIntent
    BY <1>1, <1>2, EntryAssumption DEF IInv, ChoiceSound
  <2> QED
    BY <1>4, <2>1, EntryAssumption DEF PaymentFor
<1> QED
  BY <1>3, <1>4

LEMMA CountStep ==
    ASSUME IInv, [Next]_vars
    PROVE  CountHolds'
<1> SUFFICES ASSUME NEW r \in Request, pc'[r] = "create",
                    NEW p \in Payment, BookingOf[p] \in Bookings(r)'
             PROVE  Total(backer'[r], asked'[r], Posting', p) <= net'[r][p]
  BY DEF CountHolds
<1> USE DEF IInv
<1>1. Stays(r) \/ Counts(r)
  BY RequestStep DEF Moves, Ends, Lists, Chooses
<1>2. /\ asked'[r] = asked[r] /\ net'[r] = net[r] /\ backer'[r] = backer[r]
      /\ BookingOf[p] \in Bookings(r)
  BY <1>1 DEF Stays, Counts, Bookings
<1>3. CASE Counts(r)
  <2>1. Posting' = Posting
    BY <1>3 DEF Counts, Posting
  <2> QED
    BY <1>2, <1>3, <2>1, PostingEntries DEF Counts
<1>4. CASE Stays(r)
  <2>1. Total(backer[r], asked[r], Posting, p) <= net[r][p] /\ pc[r] = "create"
    BY <1>2, <1>4 DEF Stays, CountHolds
  <2>2. CASE Posting' = Posting
    BY <1>2, <2>1, <2>2
  <2>3. ASSUME NEW s \in Request, pc[s] = "create", pc'[s] = "idle", Posting' = Posting \cup asked[s]
        PROVE  Total(backer'[r], asked'[r], Posting', p) <= net'[r][p]
    <3>1. r # s /\ Holding(r) /\ Holding(s)
      BY <2>1, <2>3 DEF Holding
    <3>2. BackedBy(backer[r], Posting', p) = BackedBy(backer[r], Posting, p)
      BY <1>2, <2>3, <3>1, OthersPost
    <3> QED
      BY <1>2, <2>1, <3>2 DEF Total
  <2> QED
    BY <2>2, <2>3, StoreStep
<1> QED
  BY <1>1, <1>3, <1>4

-----------------------------------------------------------------------------
(* Revenue and captures.                                                     *)

LEMMA EntriesFinite ==
    ASSUME NEW S, S \subseteq Entry
    PROVE  IsFiniteSet(S) /\ Cardinality(S) \in Nat
<1>1. IsFiniteSet(S)
  BY EntryAssumption, FS_Subset
<1> QED
  BY <1>1, FS_CardinalityType

LEMMA FewerEntries ==
    ASSUME NEW S, NEW T, S \subseteq T, T \subseteq Entry
    PROVE  Cardinality(S) <= Cardinality(T)
BY EntriesFinite, FS_Subset

\* The entries a payment stands behind, if its total fits what was captured.
LEMMA TotalBounds ==
    ASSUME NEW choice, NEW S, NEW T, NEW p, S \subseteq Entry, T \subseteq Entry
    PROVE  Cardinality(BackedBy(choice, S \cup T, p)) <= Total(choice, S, T, p)
<1> DEFINE A == BackedBy(choice, S, p)
           B == BackedBy(choice, T, p)
<1>1. BackedBy(choice, S \cup T, p) = A \cup B /\ A \subseteq Entry /\ B \subseteq Entry
  BY DEF BackedBy
<1>2. IsFiniteSet(A) /\ IsFiniteSet(B) /\ Cardinality(A) \in Nat /\ Cardinality(B) \in Nat
  BY <1>1, EntriesFinite
<1>3. A \cap B \subseteq Entry
  BY <1>1
<1>4. Cardinality(A \cap B) \in Nat
  BY <1>3, EntriesFinite
<1> HIDE DEF A, B
<1>5. Cardinality(A \cup B) = Cardinality(A) + Cardinality(B) - Cardinality(A \cap B)
  BY <1>2, FS_Union
<1>6. Cardinality(A \cup B) <= Cardinality(A) + Cardinality(B)
  BY <1>2, <1>4, <1>5
<1> QED
  BY <1>1, <1>6 DEF Total, A, B

\* A set that is not larger than n can be numbered up to n.
LEMMA Numbering ==
    ASSUME NEW S, IsFiniteSet(S), NEW n \in Nat, Cardinality(S) <= n
    PROVE  \E h \in [S -> 1 .. n] : IsInjective(h)
<1> DEFINE c == Cardinality(S)
<1>1. c \in Nat /\ ExistsBijection(1 .. c, S)
  BY FS_CardinalityType
<1>2. PICK g \in Bijection(1 .. c, S) : TRUE
  BY <1>1 DEF ExistsBijection
<1>3. g \in [1 .. c -> S] /\ \A x \in S : \E k \in 1 .. c : g[k] = x
  BY <1>2 DEF Bijection, Surjection
<1> HIDE DEF c
<1> DEFINE h == [x \in S |-> CHOOSE k \in 1 .. c : g[k] = x]
<1>4. \A x \in S : h[x] \in 1 .. c /\ g[h[x]] = x
  BY <1>3
<1>5. 1 .. c \subseteq 1 .. n
  BY <1>1 DEF c
<1>6. h \in [S -> 1 .. n]
  BY <1>4, <1>5
<1>7. IsInjective(h)
  BY <1>4 DEF IsInjective
<1> QED
  BY <1>6, <1>7

LEMMA UnitsFinite ==
    ASSUME NEW records \in [Payment -> PaymentRecord], NEW P, P \subseteq Payment
    PROVE  IsFiniteSet(Units(records, P)) /\ Cardinality(Units(records, P)) \in Nat
<1> DEFINE u == [p \in P |-> {p} \X (1 .. records[p].gross)]
           R == {{p} \X (1 .. records[p].gross) : p \in P}
<1>1. IsFiniteSet(P)
  BY PaymentAssumption, FS_Subset
<1>2. u \in Surjection(P, R)
  <2>1. u \in [P -> R]
    OBVIOUS
  <2>2. \A t \in R : \E p \in P : u[p] = t
    OBVIOUS
  <2> QED
    BY <2>1, <2>2 DEF Surjection
<1>3. IsFiniteSet(R)
  <2> HIDE DEF u, R
  <2> QED
    BY <1>1, <1>2, FS_Surjection
<1>4. ASSUME NEW p \in P
      PROVE  IsFiniteSet({p} \X (1 .. records[p].gross))
  <2>1. records[p].gross \in Int /\ 1 \in Int
    BY DEF PaymentRecord
  <2>2. IsFiniteSet(1 .. records[p].gross)
    BY <2>1, FS_Interval
  <2>3. IsFiniteSet({p})
    BY FS_Singleton
  <2> QED
    BY <2>2, <2>3, FS_Product
<1>5. \A T \in R : IsFiniteSet(T)
  BY <1>4
<1>6. IsFiniteSet(UNION R)
  <2> HIDE DEF R
  <2> QED
    BY <1>3, <1>5, FS_UNION
<1>7. IsFiniteSet(Units(records, P))
  BY <1>6 DEF Units
<1> QED
  BY <1>7, FS_CardinalityType

\* Entries that are each backed by a payment of P, none by more than it captured,
\* are no more than was captured of P.
LEMMA BackedByAll ==
    ASSUME TypeOK, NEW P, P \subseteq Payment,
           NEW E, IsFiniteSet(E), NEW f \in [E -> P],
           \A p \in P : Cardinality({e \in E : f[e] = p}) <= payment[p].gross
    PROVE  Cardinality(E) <= Cardinality(Units(payment, P))
<1> DEFINE Of(p) == {e \in E : f[e] = p}
           Good(p, h) == h \in [Of(p) -> 1 .. payment[p].gross] /\ IsInjective(h)
           number == [p \in P |-> CHOOSE h : Good(p, h)]
           place == [e \in E |-> <<f[e], number[f[e]][e]>>]
<1>1. \A p \in P : Good(p, number[p])
  <2> SUFFICES ASSUME NEW p \in P PROVE Good(p, number[p])
    OBVIOUS
  <2>1. payment[p].gross \in Nat
    BY DEF TypeOK, PaymentRecord
  <2>2. IsFiniteSet(Of(p))
    BY FS_Subset
  <2>3. Cardinality(Of(p)) <= payment[p].gross
    OBVIOUS
  <2> HIDE DEF Of
  <2>4. \E h : Good(p, h)
    BY <2>1, <2>2, <2>3, Numbering
  <2> HIDE DEF Good
  <2> QED
    BY <2>4
<1>2. ASSUME NEW e \in E
      PROVE  number[f[e]][e] \in 1 .. payment[f[e]].gross /\ place[e] \in Units(payment, P)
  <2>1. f[e] \in P /\ e \in Of(f[e])
    OBVIOUS
  <2>2. Good(f[e], number[f[e]])
    BY <1>1, <2>1
  <2>3. number[f[e]][e] \in 1 .. payment[f[e]].gross
    BY <2>1, <2>2
  <2> HIDE DEF number
  <2> QED
    BY <2>1, <2>3 DEF Units
<1>3. ASSUME NEW d \in E, NEW e \in E, place[d] = place[e]
      PROVE  d = e
  <2>1. f[d] = f[e] /\ number[f[d]][d] = number[f[e]][e]
    BY <1>3
  <2>2. f[d] \in P /\ d \in Of(f[d]) /\ e \in Of(f[d])
    BY <2>1
  <2>3. Good(f[d], number[f[d]])
    BY <1>1, <2>2
  <2> HIDE DEF number
  <2> QED
    BY <2>1, <2>2, <2>3 DEF IsInjective
<1>4. place \in Injection(E, Units(payment, P))
  <2>1. place \in [E -> Units(payment, P)]
    <3> HIDE DEF number
    <3> QED
      BY <1>2
  <2>2. IsInjective(place)
    <3>1. DOMAIN place = E
      OBVIOUS
    <3> HIDE DEF place
    <3> QED
      BY <1>3, <3>1 DEF IsInjective
  <2> QED
    BY <2>1, <2>2 DEF Injection
<1> HIDE DEF place
<1> QED
  BY <1>4, UnitsFinite, FS_Injection DEF TypeOK

\* A request that creates a batch knows that, with its entries, no payment of
\* its bookings stands behind more than was captured of it.
LEMMA PostingFits ==
    ASSUME IInv, NEW r \in Request, pc[r] = "create",
           NEW p \in Payment, BookingOf[p] \in Bookings(r)
    PROVE  Cardinality(BackedBy(backer[r], asked[r] \cup Posting, p)) <= payment[p].gross
<1> DEFINE c == Cardinality(BackedBy(backer[r], asked[r] \cup Posting, p))
           t == Total(backer[r], asked[r], Posting, p)
<1>1. asked[r] \subseteq Entry /\ Posting \subseteq Entry
  BY PostingEntries DEF IInv, TypeOK
<1>2. /\ BackedBy(backer[r], asked[r] \cup Posting, p) \subseteq Entry
      /\ BackedBy(backer[r], asked[r], p) \subseteq Entry
      /\ BackedBy(backer[r], Posting, p) \subseteq Entry
  BY <1>1 DEF BackedBy
<1>3. c \in Nat /\ t \in Nat
  <2>1. /\ c \in Nat
        /\ Cardinality(BackedBy(backer[r], asked[r], p)) \in Nat
        /\ Cardinality(BackedBy(backer[r], Posting, p)) \in Nat
    BY <1>2, EntriesFinite
  <2> QED
    BY <2>1 DEF Total
<1>4. c <= t
  BY <1>1, TotalBounds
<1>5. t <= net[r][p] /\ net[r][p] <= payment[p].gross
  BY DEF IInv, CountHolds, NetCaptured
<1>6. net[r][p] \in Nat /\ payment[p].gross \in Nat
  BY DEF IInv, TypeOK, PaymentRecord
<1> HIDE DEF c, t
<1>7. c <= payment[p].gross
  BY <1>3, <1>4, <1>5, <1>6
<1> QED
  BY <1>7 DEF c

LEMMA IntentStep ==
    ASSUME IInv, [Next]_vars
    PROVE  IntentBacked'
<1> SUFFICES ASSUME NEW p \in Payment
             PROVE  Cardinality({e \in Posting' : EntryIntent[e] = p}) <= payment'[p].gross
  BY DEF IntentBacked
<1> DEFINE Of(S) == {e \in S : EntryIntent[e] = p}
<1>1. /\ payment[p].gross <= payment'[p].gross
      /\ payment[p].gross \in Nat /\ payment'[p].gross \in Nat
  BY StoreStep, StepTyped DEF IInv, TypeOK, PaymentRecord
<1>2. Posting \subseteq Entry /\ Posting' \subseteq Entry
  BY PostingEntries, StepTyped DEF IInv, Posting, TypeOK, Batch
<1>3. Of(Posting) \subseteq Entry /\ Of(Posting') \subseteq Entry
  BY <1>2
<1>4. Cardinality(Of(Posting)) <= payment[p].gross /\ Cardinality(Of(Posting)) \in Nat
  BY <1>3, EntriesFinite DEF IInv, IntentBacked
<1>5. Cardinality(Of(Posting')) \in Nat
  BY <1>3, EntriesFinite
<1>6. CASE Posting' = Posting
  BY <1>1, <1>4, <1>6
<1>7. ASSUME NEW r \in Request, pc[r] = "create", Posting' = Posting \cup asked[r]
      PROVE  Cardinality(Of(Posting')) <= payment'[p].gross
  <2>1. asked[r] \subseteq Entry
    BY DEF IInv, TypeOK
  <2>2. CASE BookingOf[p] \in Bookings(r)
    <3> DEFINE A == BackedBy(backer[r], asked[r] \cup Posting, p)
    <3>1. Of(Posting') \subseteq A /\ A \subseteq Entry
      BY <1>2, <1>7, <2>1, EntryAssumption DEF BackedBy, PaymentFor
    <3>2. Cardinality(A) <= payment[p].gross
      BY <1>7, <2>2, PostingFits
    <3>3. Cardinality(A) \in Nat
      BY <3>1, EntriesFinite
    <3> HIDE DEF A, Of
    <3>4. Cardinality(Of(Posting')) <= Cardinality(A)
      BY <3>1, FewerEntries
    <3> QED
      BY <1>1, <1>5, <3>2, <3>3, <3>4
  <2>3. CASE BookingOf[p] \notin Bookings(r)
    <3>1. \A e \in asked[r] : EntryIntent[e] # p
      BY <2>1, <2>3, EntryAssumption DEF Bookings, BookingsOf
    <3>2. Of(Posting') = Of(Posting)
      BY <1>7, <3>1
    <3> HIDE DEF Of
    <3> QED
      BY <1>1, <1>4, <3>2
  <2> QED
    BY <2>2, <2>3
<1>8. Cardinality(Of(Posting')) <= payment'[p].gross
  <2>1. \/ Posting' = Posting
        \/ \E r \in Request : pc[r] = "create" /\ Posting' = Posting \cup asked[r]
    BY StoreStep DEF IInv
  <2> DEFINE fits == Cardinality(Of(Posting')) <= payment'[p].gross
  <2>2. Posting' = Posting => fits
    BY <1>6
  <2>3. \A r \in Request : pc[r] = "create" /\ Posting' = Posting \cup asked[r] => fits
    BY <1>7
  <2> HIDE DEF fits
  <2>4. fits
    BY <2>1, <2>2, <2>3
  <2> QED
    BY <2>4 DEF fits
<1> QED
  BY <1>8

\* Captures only grow.
LEMMA UnitsGrow ==
    ASSUME IInv, [Next]_vars, NEW P, P \subseteq Payment
    PROVE  /\ Cardinality(Units(payment, P)) <= Cardinality(Units(payment', P))
           /\ Cardinality(Units(payment, P)) \in Nat /\ Cardinality(Units(payment', P)) \in Nat
<1>1. TypeOK /\ TypeOK'
  BY StepTyped DEF IInv
<1>2. IsFiniteSet(Units(payment, P)) /\ Cardinality(Units(payment, P)) \in Nat
  BY <1>1, UnitsFinite DEF TypeOK
<1>3. IsFiniteSet(Units(payment', P)) /\ Cardinality(Units(payment', P)) \in Nat
  BY <1>1, UnitsFinite DEF TypeOK
<1>4. Units(payment, P) \subseteq Units(payment', P)
  <2>1. \A p \in P : payment[p].gross <= payment'[p].gross /\ payment[p].gross \in Nat /\ payment'[p].gross \in Nat
    BY <1>1, StoreStep DEF IInv, TypeOK, PaymentRecord
  <2>2. \A p \in P : 1 .. payment[p].gross \subseteq 1 .. payment'[p].gross
    BY <2>1
  <2> QED
    BY <2>2 DEF Units
<1> QED
  BY <1>2, <1>3, <1>4, FS_Subset

LEMMA BookingStep ==
    ASSUME IInv, [Next]_vars
    PROVE  BookingBacked'
<1> SUFFICES ASSUME NEW b \in Booking
             PROVE  Cardinality({e \in Posting' : EntryBooking[e] = b})
                       <= Cardinality(Units(payment', {p \in Payment : BookingOf[p] = b}))
  BY DEF BookingBacked
<1> DEFINE Of(S) == {e \in S : EntryBooking[e] = b}
           P == {p \in Payment : BookingOf[p] = b}
           fits == Cardinality(Of(Posting')) <= Cardinality(Units(payment', P))
<1>1. /\ Cardinality(Units(payment, P)) <= Cardinality(Units(payment', P))
      /\ Cardinality(Units(payment, P)) \in Nat /\ Cardinality(Units(payment', P)) \in Nat
  BY UnitsGrow
<1>2. Posting \subseteq Entry /\ Posting' \subseteq Entry
  BY PostingEntries, StepTyped DEF IInv, Posting, TypeOK, Batch
<1>3. Of(Posting) \subseteq Entry /\ Of(Posting') \subseteq Entry
  BY <1>2
<1>4. Cardinality(Of(Posting)) \in Nat /\ Cardinality(Of(Posting')) \in Nat /\ IsFiniteSet(Of(Posting'))
  BY <1>3, EntriesFinite
<1>5. Cardinality(Of(Posting)) <= Cardinality(Units(payment, P))
  BY DEF IInv, BookingBacked
<1>6. ASSUME Of(Posting') = Of(Posting)
      PROVE  fits
  <2> HIDE DEF Of, P
  <2> QED
    BY <1>1, <1>4, <1>5, <1>6
<1>7. ASSUME NEW r \in Request, pc[r] = "create", Posting' = Posting \cup asked[r]
      PROVE  fits
  <2>1. asked[r] \subseteq Entry
    BY DEF IInv, TypeOK
  <2>2. CASE b \notin Bookings(r)
    <3>1. Of(Posting') = Of(Posting)
      BY <1>7, <2>1, <2>2 DEF Bookings, BookingsOf
    <3> QED
      BY <3>1, <1>6
  <2>3. CASE b \in Bookings(r)
    <3> DEFINE E == Of(asked[r] \cup Posting)
               f == [e \in E |-> PaymentFor(backer[r], e)]
    <3>1. backer[r][b] \in P
      BY <1>7, <2>3 DEF IInv, ChoiceSound, Holding
    <3>2. \A e \in E : e \in Entry /\ EntryBooking[e] = b
      BY <1>2, <2>1
    <3>3. f \in [E -> P]
      BY <3>1, <3>2, EntryAssumption DEF PaymentFor
    <3>4. ASSUME NEW p \in P
          PROVE  Cardinality({e \in E : f[e] = p}) <= payment[p].gross
      <4> DEFINE A == BackedBy(backer[r], asked[r] \cup Posting, p)
                 B == {e \in E : f[e] = p}
      <4>1. B \subseteq A /\ A \subseteq Entry
        BY <1>2, <2>1 DEF BackedBy
      <4>2. p \in Payment /\ BookingOf[p] \in Bookings(r)
        BY <2>3
      <4>3. Cardinality(A) <= payment[p].gross
        BY <1>7, <4>2, PostingFits
      <4>4. Cardinality(A) \in Nat /\ Cardinality(B) \in Nat /\ payment[p].gross \in Nat
        <5>1. B \subseteq Entry
          BY <4>1
        <5>2. Cardinality(A) \in Nat /\ Cardinality(B) \in Nat
          BY <4>1, <5>1, EntriesFinite
        <5> QED
          BY <4>2, <5>2 DEF IInv, TypeOK, PaymentRecord
      <4> HIDE DEF A, B
      <4>5. Cardinality(B) <= Cardinality(A)
        BY <4>1, FewerEntries
      <4>6. Cardinality(B) <= payment[p].gross
        BY <4>3, <4>4, <4>5
      <4> QED
        BY <4>6 DEF B
    <3>5. E = Of(Posting')
      BY <1>7
    <3>6. IsFiniteSet(E) /\ P \subseteq Payment /\ TypeOK
      BY <1>4, <3>5 DEF IInv
    <3> HIDE DEF E, f, P
    <3>7. Cardinality(E) <= Cardinality(Units(payment, P))
      BY <3>3, <3>4, <3>6, BackedByAll
    <3> HIDE DEF Of
    <3> QED
      BY <1>1, <1>4, <3>5, <3>7
  <2> QED
    BY <2>2, <2>3
<1>8. fits
  <2>1. \/ Posting' = Posting
        \/ \E r \in Request : pc[r] = "create" /\ Posting' = Posting \cup asked[r]
    BY StoreStep DEF IInv
  <2>2. Posting' = Posting => fits
    BY <1>6
  <2>3. \A r \in Request : pc[r] = "create" /\ Posting' = Posting \cup asked[r] => fits
    BY <1>7
  <2> HIDE DEF fits
  <2> QED
    BY <2>1, <2>2, <2>3
<1> QED
  BY <1>8

-----------------------------------------------------------------------------
(* The invariant, and what follows.                                          *)

LEMMA InitInv == Init => IInv
<1> SUFFICES ASSUME Init PROVE IInv
  OBVIOUS
<1>1. TypeOK
  BY InitTyped
<1>2. StoreSound
  BY PaymentAssumption DEF Init, StoreSound, NoBatch, AbsentPayment, OpenPayment
<1>3. Posting = {}
  BY DEF Init, Posting, NoBatch
<1>4. WantsKnown /\ HoldsWanted /\ CountHolds
  BY DEF Init, WantsKnown, HoldsWanted, CountHolds, Holding
<1>5. ChoiceSound
  BY DEF Init, ChoiceSound, Holding
<1>6. NetCaptured
  BY <1>1 DEF Init, NetCaptured, TypeOK, PaymentRecord
<1>7. IntentBacked
  <2>1. \A p \in Payment : {e \in Posting : EntryIntent[e] = p} = {}
    BY <1>3
  <2>2. Cardinality({}) = 0
    BY FS_EmptySet
  <2>3. \A p \in Payment : payment[p].gross \in Nat
    BY <1>1 DEF TypeOK, PaymentRecord
  <2>4. \A p \in Payment : Cardinality({e \in Posting : EntryIntent[e] = p}) = 0
    BY <2>1, <2>2
  <2> QED
    BY <2>3, <2>4 DEF IntentBacked
<1>8. BookingBacked
  <2> SUFFICES ASSUME NEW b \in Booking
               PROVE  Cardinality({e \in Posting : EntryBooking[e] = b})
                         <= Cardinality(Units(payment, {p \in Payment : BookingOf[p] = b}))
    BY DEF BookingBacked
  <2> DEFINE P == {p \in Payment : BookingOf[p] = b}
  <2>1. {e \in Posting : EntryBooking[e] = b} = {}
    BY <1>3
  <2>2. Cardinality(Units(payment, P)) \in Nat
    BY <1>1, UnitsFinite DEF TypeOK
  <2> HIDE DEF P
  <2>3. Cardinality({e \in Posting : EntryBooking[e] = b}) <= Cardinality(Units(payment, P))
    BY <2>1, <2>2, FS_EmptySet
  <2> QED
    BY <2>3 DEF P
<1> QED
  BY <1>1, <1>2, <1>4, <1>5, <1>6, <1>7, <1>8 DEF IInv

LEMMA StepInv == IInv /\ [Next]_vars => IInv'
<1> SUFFICES ASSUME IInv, [Next]_vars PROVE IInv'
  OBVIOUS
<1>1. TypeOK' /\ StoreSound'
  BY StepTyped, StoreStep DEF IInv
<1>2. WantsKnown' /\ HoldsWanted'
  BY LocksStep DEF IInv
<1>3. ChoiceSound' /\ NetCaptured'
  BY ChoiceStep DEF IInv
<1>4. CountHolds'
  BY CountStep
<1>5. IntentBacked' /\ BookingBacked'
  BY IntentStep, BookingStep
<1> QED
  BY <1>1, <1>2, <1>3, <1>4, <1>5 DEF IInv

\* However many requests, retries, crashes, failures and provider events
\* interleave, the entries that name a payment never exceed what was captured of
\* it; nor does the revenue of a booking, however its entries are attributed to
\* its payments, exceed all that was captured of them.
THEOREM RevenueAlwaysBacked == Spec => []RevenueBacked
<1>1. IInv => RevenueBacked
  BY DEF IInv, RevenueBacked
<1> QED
  BY <1>1, InitInv, StepInv, PTL DEF Spec

\* No retry, failure report or other transaction changes a posted batch.
THEOREM PostedStaysFinal == Spec => PostedIsFinal
<1>1. ASSUME TypeOK, [Next]_vars, NEW d \in Period, batch[d].status = "posted"
      PROVE  batch'[d] = batch[d]
  <2>1. ASSUME NEW c \in Period, MarkFailed(c) \/ \E tx \in Tx : MarkPosted(c, tx)
        PROVE  batch'[d] = batch[d]
    BY <1>1, <2>1 DEF MarkFailed, MayFail, MarkPosted, TypeOK
  <2>2. ASSUME NEW r \in Request, Create(r)
        PROVE  batch'[d] = batch[d]
    BY <1>1, <2>2 DEF Create, CreatePostingBatch, TypeOK
  <2>3. ASSUME UNCHANGED batch
        PROVE  batch'[d] = batch[d]
    BY <2>3
  <2>4. CASE \/ \E r \in Request : Relist(r) \/ Count(r) \/ AcquireLock(r) \/ Crash(r) \/ \E S \in Batches : List(r, S)
             \/ \E p \in Payment : RecordStripeEvent(p)
             \/ UNCHANGED vars
    <3>1. UNCHANGED batch
      BY <2>4 DEF Relist, Count, AcquireLock, Crash, List, RecordStripeEvent, store, vars
    <3> QED
      BY <3>1, <2>3
  <2> QED
    BY <1>1, <2>1, <2>2, <2>4 DEF Next, Proceed
<1>2. TypeOK /\ [Next]_vars => [\A d \in Period : batch[d].status = "posted" => batch'[d] = batch[d]]_vars
  BY <1>1
<1>3. Spec => []TypeOK
  BY TypeCorrect
<1> QED
  BY <1>2, <1>3, PTL DEF Spec, PostedIsFinal

-----------------------------------------------------------------------------
(* Waiting for locks.                                                        *)

\* A lock is held by a request at work that wants it, and that got all those of
\* lower id before.
LocksInOrder == \A p \in Payment : lock[p] # NoRequest =>
    /\ pc[lock[p]] # "idle" /\ p \in wanted[lock[p]]
    /\ \A q \in wanted[lock[p]] : q < p => lock[q] = lock[p]

\* The entries of a request lie in one period.
OnePeriod == \A r \in Request : pc[r] # "idle" =>
    \E d \in Period : \A e \in asked[r] : PeriodOf[e] = d

OrderInv == TypeOK /\ LocksInOrder /\ OnePeriod

\* The steps that take no lock and end nothing.
Advances(r) == /\ pc[r] # "idle" /\ \E step \in {"count", "create"} : pc' = [pc EXCEPT ![r] = step]
               /\ UNCHANGED <<asked, wanted, lock>>

LEMMA Steps ==
    ASSUME [Next]_vars
    PROVE  \/ UNCHANGED <<pc, asked, wanted, lock>>
           \/ \E r \in Request : \/ Finish(r) \/ Advances(r) \/ AcquireLock(r)
                                 \/ \E S \in Batches : List(r, S)
<1>1. ASSUME NEW r \in Request, Relist(r)
      PROVE  Finish(r) \/ Advances(r)
  BY <1>1 DEF Relist, Advances
<1>2. ASSUME NEW r \in Request, Count(r)
      PROVE  Finish(r) \/ Advances(r)
  BY <1>2 DEF Count, Advances
<1>3. ASSUME NEW r \in Request, Create(r) \/ Crash(r)
      PROVE  Finish(r)
  BY <1>3 DEF Create, Crash
<1>4. CASE \E r \in Request : Proceed(r) \/ Crash(r) \/ \E S \in Batches : List(r, S)
  BY <1>1, <1>2, <1>3, <1>4 DEF Proceed
<1>5. CASE \/ \E d \in Period : MarkFailed(d) \/ \E tx \in Tx : MarkPosted(d, tx)
           \/ \E p \in Payment : RecordStripeEvent(p)
           \/ UNCHANGED vars
  BY <1>5 DEF MarkFailed, MarkPosted, RecordStripeEvent, progress, vars
<1> QED
  BY <1>4, <1>5 DEF Next

LEMMA OrderStep == OrderInv /\ [Next]_vars => OrderInv'
<1> SUFFICES ASSUME OrderInv, [Next]_vars PROVE OrderInv'
  OBVIOUS
<1> USE DEF OrderInv
<1>1. TypeOK'
  BY StepTyped
<1>2. CASE UNCHANGED <<pc, asked, wanted, lock>>
  BY <1>1, <1>2 DEF LocksInOrder, OnePeriod
<1>3. ASSUME NEW r \in Request, Finish(r)
      PROVE  LocksInOrder' /\ OnePeriod'
  <2>1. \A s \in Request : s # r => pc'[s] = pc[s] /\ asked'[s] = asked[s] /\ wanted'[s] = wanted[s]
    BY <1>3 DEF Finish, TypeOK
  <2>2. pc'[r] = "idle" /\ \A p \in Payment : lock'[p] = IF lock[p] = r THEN NoRequest ELSE lock[p]
    BY <1>3 DEF Finish, TypeOK
  <2>3. LocksInOrder'
    <3> SUFFICES ASSUME NEW p \in Payment, lock'[p] # NoRequest
                 PROVE  /\ pc'[lock'[p]] # "idle" /\ p \in wanted'[lock'[p]]
                        /\ \A q \in wanted'[lock'[p]] : q < p => lock'[q] = lock'[p]
      BY DEF LocksInOrder
    <3> DEFINE s == lock[p]
    <3>1. s # r /\ lock'[p] = s /\ s # NoRequest /\ s \in Request
      BY <2>2 DEF TypeOK
    <3>2. pc'[s] = pc[s] /\ wanted'[s] = wanted[s] /\ wanted[s] \subseteq Payment
      BY <2>1, <3>1 DEF TypeOK
    <3>3. /\ pc[s] # "idle" /\ p \in wanted[s]
          /\ \A q \in wanted[s] : q < p => lock[q] = s
      BY <3>1 DEF LocksInOrder
    <3>4. \A q \in Payment : lock[q] = s => lock'[q] = s
      BY <2>2, <3>1
    <3> QED
      BY <3>1, <3>2, <3>3, <3>4
  <2>4. OnePeriod'
    BY <2>1, <2>2 DEF OnePeriod
  <2> QED
    BY <2>3, <2>4
<1>4. ASSUME NEW r \in Request, Advances(r)
      PROVE  LocksInOrder' /\ OnePeriod'
  <2>1. /\ \A s \in Request : pc[s] # "idle" => pc'[s] # "idle"
        /\ \A s \in Request : pc'[s] # "idle" => pc[s] # "idle"
        /\ lock' = lock /\ wanted' = wanted /\ asked' = asked
    BY <1>4 DEF Advances, TypeOK
  <2>2. \A p \in Payment : lock[p] # NoRequest => lock[p] \in Request
    BY DEF TypeOK
  <2> QED
    BY <2>1, <2>2 DEF LocksInOrder, OnePeriod
<1>5. ASSUME NEW r \in Request, AcquireLock(r)
      PROVE  LocksInOrder' /\ OnePeriod'
  <2>1. PICK p \in wanted[r] : /\ NextLock(r, p) /\ lock[p] = NoRequest
                               /\ lock' = [lock EXCEPT ![p] = r]
    BY <1>5 DEF AcquireLock
  <2>2. pc[r] # "idle" /\ UNCHANGED <<pc, asked, wanted>> /\ wanted[r] \subseteq Payment
    BY <1>5 DEF AcquireLock, TypeOK
  <2>3. lock'[p] = r /\ \A q \in Payment \ {p} : lock'[q] = lock[q]
    BY <2>1, <2>2 DEF TypeOK
  <2>4. ASSUME NEW q \in Payment, lock'[q] # NoRequest
        PROVE  /\ pc'[lock'[q]] # "idle" /\ q \in wanted'[lock'[q]]
               /\ \A o \in wanted'[lock'[q]] : o < q => lock'[o] = lock'[q]
    <3>1. CASE q = p
      <4>1. \A o \in wanted[r] : o < p => lock[o] = r
        BY <2>1 DEF NextLock
      <4> QED
        BY <2>1, <2>2, <2>3, <3>1, <4>1
    <3>2. CASE q # p
      <4> DEFINE s == lock[q]
      <4>1. lock'[q] = s /\ s # NoRequest /\ s \in Request
        BY <2>3, <2>4, <3>2 DEF TypeOK
      <4>2. /\ pc[s] # "idle" /\ q \in wanted[s]
            /\ \A o \in wanted[s] : o < q => lock[o] = s
        BY <4>1 DEF LocksInOrder
      <4>3. wanted[s] \subseteq Payment
        BY <4>1 DEF TypeOK
      <4>4. \A o \in wanted[s] : o < q => o # p
        BY <2>1, <4>1, <4>2
      <4> HIDE DEF s
      <4> QED
        BY <2>2, <2>3, <4>1, <4>2, <4>3, <4>4
    <3> QED
      BY <3>1, <3>2
  <2> QED
    BY <2>2, <2>4 DEF LocksInOrder, OnePeriod
<1>6. ASSUME NEW r \in Request, NEW S \in Batches, List(r, S)
      PROVE  LocksInOrder' /\ OnePeriod'
  <2>1. \A s \in Request : s # r => pc'[s] = pc[s] /\ asked'[s] = asked[s] /\ wanted'[s] = wanted[s]
    BY <1>6 DEF List, TypeOK
  <2>2. lock' = lock /\ \A p \in Payment : lock[p] # NoRequest => lock[p] \in Request /\ lock[p] # r
    BY <1>6 DEF List, TypeOK, LocksInOrder
  <2>3. LocksInOrder'
    BY <2>1, <2>2 DEF LocksInOrder
  <2>4. asked'[r] = S /\ \E d \in Period : \A e \in S : PeriodOf[e] = d
    BY <1>6 DEF List, TypeOK
  <2> QED
    BY <2>1, <2>3, <2>4 DEF OnePeriod
<1> QED
  BY <1>1, <1>2, <1>3, <1>4, <1>5, <1>6, Steps

LEMMA OrderAlways == Spec => []OrderInv
<1>1. Init => OrderInv
  BY InitTyped DEF Init, OrderInv, LocksInOrder, OnePeriod
<1> QED
  BY <1>1, OrderStep, PTL DEF Spec

\* Among finite sets there are some that contain no other.
ContainsNoOther(A, T) == \A B \in T : B \subseteq A => B = A

LEMMA SmallestSet ==
    ASSUME NEW S, IsFiniteSet(S), NEW T, T \subseteq SUBSET S, T # {}
    PROVE  \E A \in T : ContainsNoOther(A, T)
<1>1. T \subseteq FiniteSubsetsOf(S)
  BY FS_FiniteSubsetsOfFinite
<1>2. PICK A \in T : \A B \in T : ~ (<<B, A>> \in StrictSubsetOrdering(S))
  BY <1>1, FS_StrictSubsetOrderingWellFounded, WFMin
<1> QED
  BY <1>2 DEF StrictSubsetOrdering, ContainsNoOther

LEMMA Least ==
    ASSUME NEW S, S \subseteq Payment, S # {}
    PROVE  \E m \in S : \A x \in S : m <= x
<1> DEFINE Below(x) == {y \in S : y < x}
           Sets == {Below(x) : x \in S}
<1>1. IsFiniteSet(S) /\ S \subseteq Nat
  BY PaymentAssumption, FS_Subset
<1>2. PICK m \in S : \A x \in S : Below(x) \subseteq Below(m) => Below(x) = Below(m)
  <2>1. Sets \subseteq SUBSET S /\ Sets # {}
    OBVIOUS
  <2>2. \A x \in S : Below(x) \in Sets
    OBVIOUS
  <2>3. \A A \in Sets : \E x \in S : A = Below(x)
    OBVIOUS
  <2> HIDE DEF Below, Sets
  <2>4. PICK A \in Sets : ContainsNoOther(A, Sets)
    BY <1>1, <2>1, SmallestSet
  <2> QED
    BY <2>2, <2>3, <2>4 DEF ContainsNoOther
<1>3. ASSUME NEW y \in S, y < m
      PROVE  FALSE
  <2>1. \A x \in S : x < y => x < m
    BY <1>1, <1>3
  <2>2. Below(y) \subseteq Below(m) /\ y \in Below(m)
    BY <1>3, <2>1
  <2>3. y \notin Below(y)
    BY <1>1, <1>3
  <2> HIDE DEF Below, Sets
  <2> QED
    BY <1>2, <1>3, <2>2, <2>3
<1> QED
  BY <1>1, <1>3

LEMMA Greatest ==
    ASSUME NEW S, S \subseteq Payment, S # {}
    PROVE  \E m \in S : \A x \in S : x <= m
<1> DEFINE Above(x) == {y \in S : x < y}
           Sets == {Above(x) : x \in S}
<1>1. IsFiniteSet(S) /\ S \subseteq Nat
  BY PaymentAssumption, FS_Subset
<1>2. PICK m \in S : \A x \in S : Above(x) \subseteq Above(m) => Above(x) = Above(m)
  <2>1. Sets \subseteq SUBSET S /\ Sets # {}
    OBVIOUS
  <2>2. \A x \in S : Above(x) \in Sets
    OBVIOUS
  <2>3. \A A \in Sets : \E x \in S : A = Above(x)
    OBVIOUS
  <2> HIDE DEF Above, Sets
  <2>4. PICK A \in Sets : ContainsNoOther(A, Sets)
    BY <1>1, <2>1, SmallestSet
  <2> QED
    BY <2>2, <2>3, <2>4 DEF ContainsNoOther
<1>3. ASSUME NEW y \in S, m < y
      PROVE  FALSE
  <2>1. \A x \in S : y < x => m < x
    BY <1>1, <1>3
  <2>2. Above(y) \subseteq Above(m) /\ y \in Above(m)
    BY <1>3, <2>1
  <2>3. y \notin Above(y)
    BY <1>1, <1>3
  <2> HIDE DEF Above, Sets
  <2> QED
    BY <1>2, <1>3, <2>2, <2>3
<1> QED
  BY <1>1, <1>3

LEMMA BackersExist ==
    ASSUME NEW records, NEW b
    PROVE  Backers(records, b) # {}
<1> DEFINE candidates == {p \in Payment : records[p].status # "absent" /\ BookingOf[p] = b}
           funded     == {p \in candidates : Funded(records[p])}
           unblocked  == {p \in candidates : CanBack(records[p])}
<1>1. Backers(records, b) = CASE funded # {}     -> funded
                              [] unblocked # {}  -> unblocked
                              [] candidates # {} -> candidates
                              [] OTHER           -> {NoIntent}
  BY DEF Backers
<1> HIDE DEF candidates, funded, unblocked
<1> QED
  BY <1>1

\* However many requests want whatever payments, one at work may go on: the one
\* that holds the lock of the highest id waits for none, since all it still
\* wants is higher and free.
THEOREM NeverAllWaitingHolds == Spec => []NeverAllWaiting
<1>1. ASSUME OrderInv, FreeConnection, NEW s \in Request, pc[s] # "idle"
      PROVE  \E r \in Request : MayProceed(r)
  <2>0. TypeOK /\ LocksInOrder /\ OnePeriod
    BY <1>1 DEF OrderInv
  <2> USE <2>0
  <2> DEFINE held == {p \in Payment : lock[p] # NoRequest}
  <2>1. ASSUME NEW r \in Request, pc[r] \in {"count", "create"}
        PROVE  MayProceed(r)
    BY <1>1, <2>1 DEF MayProceed, OnePeriod
  <2>2. ASSUME NEW r \in Request, pc[r] = "lock",
               \A p \in wanted[r] : lock[p] = NoRequest \/ lock[p] = r
        PROVE  MayProceed(r)
    <3> DEFINE missing == {p \in wanted[r] : lock[p] # r}
    <3>1. CASE missing = {}
      BY <1>1, <2>2, <3>1, BackersExist DEF MayProceed
    <3>2. CASE missing # {}
      <4>1. wanted[r] \subseteq Payment
        BY DEF TypeOK
      <4>2. PICK p \in missing : \A q \in missing : p <= q
        BY <3>2, <4>1, Least
      <4>3. ASSUME NEW q \in wanted[r], q < p
            PROVE  lock[q] = r
        <5>1. q \in Nat /\ p \in Nat
          BY <4>1, <4>2, PaymentAssumption
        <5>2. ~(p <= q)
          BY <4>3, <5>1
        <5> QED
          BY <4>2, <5>2
      <4> QED
        BY <2>2, <4>2, <4>3 DEF MayProceed, NextLock
    <3> QED
      BY <3>1, <3>2
  <2>3. \A r \in Request : pc[r] \in {"idle", "lock", "count", "create"}
    BY DEF TypeOK
  <2>4. CASE held = {}
    <3>1. \A p \in wanted[s] : lock[p] = NoRequest
      BY <2>4 DEF TypeOK
    <3> QED
      BY <1>1, <2>1, <2>2, <2>3, <3>1
  <2>5. CASE held # {}
    <3>1. PICK p \in held : \A q \in held : q <= p
      BY <2>5, Greatest
    <3>2. lock[p] \in Request /\ lock[p] # NoRequest /\ p \in Payment
      BY <3>1 DEF TypeOK
    <3> DEFINE r == lock[p]
    <3>3. /\ pc[r] # "idle" /\ p \in wanted[r]
          /\ \A q \in wanted[r] : q < p => lock[q] = r
      BY <3>2 DEF LocksInOrder
    <3>4. \A q \in wanted[r] : lock[q] = NoRequest \/ lock[q] = r
      <4> SUFFICES ASSUME NEW q \in wanted[r], lock[q] # NoRequest PROVE lock[q] = r
        OBVIOUS
      <4>1. q \in held
        BY <3>2 DEF TypeOK
      <4>2. q <= p /\ q \in Nat /\ p \in Nat
        BY <3>1, <3>2, <4>1, PaymentAssumption
      <4> QED
        BY <3>3, <4>2
    <3> HIDE DEF r
    <3>5. r \in Request
      BY <3>2 DEF r
    <3> QED
      BY <2>1, <2>2, <2>3, <3>3, <3>4, <3>5
  <2> QED
    BY <2>4, <2>5
<1>2. OrderInv => NeverAllWaiting
  BY <1>1 DEF NeverAllWaiting
<1> QED
  BY <1>2, OrderAlways, PTL

\* With one connection more than requests, the pool always has one left.
LEMMA EnoughConnections ==
    ASSUME IsFiniteSet(Request), Cardinality(Request) < Connections
    PROVE  FreeConnection
<1>1. Reserving \in SUBSET Request
  BY DEF Reserving
<1>2. IsFiniteSet(Reserving) /\ Cardinality(Reserving) <= Cardinality(Request)
  BY <1>1, FS_Subset
<1>3. Cardinality(Reserving) \in Nat /\ Cardinality(Request) \in Nat
  BY <1>2, FS_CardinalityType
<1> QED
  BY <1>2, <1>3, RequestAssumption DEF FreeConnection

\* What is left for a request to do is a number, and only its own steps before
\* its answer change it.
LEMMA RemainingIs ==
    ASSUME TypeOK, NEW r \in Request
    PROVE  /\ pc[r] = "idle" => Remaining(r) = 0
           /\ pc[r] = "create" => Remaining(r) = 1
           /\ pc[r] = "count" => Remaining(r) = 2
           /\ IsFiniteSet({p \in wanted[r] : lock[p] # r})
           /\ Cardinality({p \in wanted[r] : lock[p] # r}) \in Nat
           /\ pc[r] = "lock" => Remaining(r) = 3 + Cardinality({p \in wanted[r] : lock[p] # r})
<1>1. {p \in wanted[r] : lock[p] # r} \in SUBSET Payment
  BY DEF TypeOK
<1>2. IsFiniteSet({p \in wanted[r] : lock[p] # r})
  BY <1>1, PaymentAssumption, FS_Subset
<1> QED
  BY <1>2, FS_CardinalityType DEF Remaining

LEMMA RemainingStep ==
    ASSUME TypeOK, TypeOK', [Next]_vars, NEW r \in Request, pc[r] # "idle"
    PROVE  /\ Remaining(r)' <= Remaining(r)
           /\ Proceed(r) => Remaining(r)' < Remaining(r)
<1> DEFINE missing == {p \in wanted[r] : lock[p] # r}
           missingThen == {p \in wanted'[r] : lock'[p] # r}
<1>1. /\ pc[r] = "create" => Remaining(r) = 1
      /\ pc[r] = "count" => Remaining(r) = 2
      /\ pc[r] = "lock" => Remaining(r) = 3 + Cardinality(missing)
      /\ IsFiniteSet(missing) /\ Cardinality(missing) \in Nat
  BY RemainingIs
<1>2. IsFiniteSet(missingThen) /\ Cardinality(missingThen) \in Nat
  <2>1. missingThen \in SUBSET Payment
    BY DEF TypeOK
  <2>2. IsFiniteSet(missingThen)
    BY <2>1, PaymentAssumption, FS_Subset
  <2> QED
    BY <2>2, FS_CardinalityType
<1>3. /\ pc'[r] = "idle" => Remaining(r)' = 0
      /\ pc'[r] = "create" => Remaining(r)' = 1
      /\ pc'[r] = "count" => Remaining(r)' = 2
      /\ pc'[r] = "lock" => Remaining(r)' = 3 + Cardinality(missingThen)
  BY DEF Remaining, TypeOK
<1>4. pc[r] \in {"lock", "count", "create"}
  BY DEF TypeOK
<1>5. Moves(r) /\ KeepsLocks(r)
  BY RequestStep
<1>6. CASE Ends(r)
  <2>1. Remaining(r)' = 0
    BY <1>3, <1>6 DEF Ends
  <2> HIDE DEF missing, missingThen
  <2> QED
    BY <1>1, <1>4, <2>1
<1>7. CASE Chooses(r) \/ Counts(r)
  <2> HIDE DEF missing, missingThen
  <2> QED
    BY <1>1, <1>3, <1>7 DEF Chooses, Counts
<1>8. CASE Lists(r)
  BY <1>4, <1>8 DEF Lists
<1>9. CASE Stays(r)
  <2>1. missingThen \subseteq missing
    BY <1>4, <1>5, <1>9 DEF Stays, KeepsLocks, TypeOK
  <2>2. Cardinality(missingThen) <= Cardinality(missing)
    BY <1>1, <2>1, FS_Subset
  <2>3. Remaining(r)' <= Remaining(r)
    <3> HIDE DEF missing, missingThen
    <3> QED
      BY <1>1, <1>2, <1>3, <1>4, <1>9, <2>2 DEF Stays
  <2>4. ASSUME Proceed(r)
        PROVE  Remaining(r)' < Remaining(r)
    <3>1. AcquireLock(r)
      BY <1>9, <2>4, <1>4 DEF Proceed, Relist, Count, Create, Finish, Stays, TypeOK
    <3>2. PICK p \in wanted[r] : lock[p] # r /\ lock' = [lock EXCEPT ![p] = r]
      BY <3>1 DEF AcquireLock, NextLock
    <3>3. p \in Payment /\ pc[r] = "lock"
      BY <3>1 DEF AcquireLock, TypeOK
    <3>4. p \in missing /\ p \notin missingThen
      BY <3>2, <3>3 DEF TypeOK
    <3>5. Cardinality(missing) # Cardinality(missingThen)
      BY <1>1, <2>1, <3>4, FS_Subset
    <3> HIDE DEF missing, missingThen
    <3> QED
      BY <1>1, <1>2, <1>3, <1>9, <2>2, <3>3, <3>5 DEF Stays
  <2> QED
    BY <2>3, <2>4
<1> QED
  BY <1>5, <1>6, <1>7, <1>8, <1>9 DEF Moves

\* Every step of a request brings its answer closer, whatever it finds, and
\* nobody else sets it back.  With NeverAllWaiting: once no more requests arrive,
\* a bounded number of steps answers all of them, if each is taken at all.
THEOREM AnswersComeCloser == Spec => AnswerComesCloser
<1>1. TypeOK /\ [Next]_vars =>
        [\A r \in Request : pc[r] # "idle" =>
            /\ Remaining(r)' <= Remaining(r)
            /\ Proceed(r) => Remaining(r)' < Remaining(r)]_vars
  BY RemainingStep, StepTyped
<1>2. Spec => []TypeOK
  BY TypeCorrect
<1> QED
  BY <1>1, <1>2, PTL DEF Spec, AnswerComesCloser

=============================================================================
