SPECIFICATION FairSpec
CONSTANTS
    b1 = b1
    r1 = r1
    r2 = r2
    Bookings = {b1}
    Overlapping <- None
    Requests = {r1, r2}
    Intents = {1}
    Operations = {"checkout", "intent", "webhook", "reconcile", "cancel"}
    AtomicStore = TRUE
    Eligibility = {TRUE}
    ReviewChoices = {TRUE, FALSE}
    CardsDecline = TRUE
    MayCrash = FALSE
    NoRequest = NoRequest
PROPERTIES RailLockReleased 
