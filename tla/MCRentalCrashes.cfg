SPECIFICATION Spec
CONSTANTS
    b1 = b1
    r1 = r1
    r2 = r2
    Bookings = {b1}
    Overlapping <- None
    Requests = {r1, r2}
    Intents = {1, 2}
    Operations = {"checkout", "intent", "check_in", "check_out", "incident", "claim", "cancel", "controls"}
    AtomicStore = FALSE
    Eligibility = {TRUE}
    ReviewChoices = {FALSE}
    CardsDecline = FALSE
    MayCrash = TRUE
    NoRequest = NoRequest
SYMMETRY Symmetry
INVARIANTS OneOpenIntent TripBacksBooking
