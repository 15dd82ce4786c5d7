SPECIFICATION Spec
CONSTANTS
    b1 = b1
    b2 = b2
    r1 = r1
    r2 = r2
    Bookings = {b1, b2}
    Overlapping <- Every
    Requests = {r1, r2}
    Intents = {1}
    Operations = {"checkout", "confirm", "intent", "webhook", "approve", "cancel"}
    AtomicStore = FALSE
    Eligibility = {TRUE}
    ReviewChoices = {TRUE, FALSE}
    CardsDecline = FALSE
    MayCrash = FALSE
    NoRequest = NoRequest
SYMMETRY Symmetry
INVARIANTS NoDoubleBooking
