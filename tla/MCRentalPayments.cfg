SPECIFICATION Spec
CONSTANTS
    b1 = b1
    r1 = r1
    r2 = r2
    r3 = r3
    Bookings = {b1}
    Overlapping <- None
    Requests = {r1, r2, r3}
    Intents = {1}
    Operations = {"checkout", "intent", "webhook", "reconcile", "approve", "cancel"}
    AtomicStore = TRUE
    Eligibility = {TRUE}
    ReviewChoices = {TRUE, FALSE}
    CardsDecline = FALSE
    MayCrash = FALSE
    NoRequest = NoRequest
SYMMETRY Symmetry
INVARIANTS TypeOK  NoPhantomHold 
 
