SPECIFICATION FairSpec
CONSTANTS
    r1 = r1
    r2 = r2
    b1 = b1
    e1 = e1
    e2 = e2
    e3 = e3
    Request = {r1, r2}
    NoRequest = NoRequest
    Payment = {1, 2}
    Booking = {b1}
    BookingOf <- PaidBooking
    Amount <- Captured
    Known = {1}
    Entry = {e1, e2, e3}
    EntryBooking <- BookingEntry
    EntryIntent <- NamedIntent
    NoIntent = NoIntent
    Period = {1, 2}
    PeriodOf <- PostingPeriod
    Tx = {"tx"}
    NoTx = NoTx
    Batches = {{e1}, {e2}, {e2, e3}}
    Refundable = {2}
    Connections = 3
INVARIANTS TypeOK 
 
CHECK_DEADLOCK FALSE
