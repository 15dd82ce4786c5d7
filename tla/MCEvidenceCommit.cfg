SPECIFICATION Spec
CONSTANTS
    p1 = p1
    p2 = p2
    c1 = c1
    c2 = c2
    Requests = {p1, p2}
    NoRequest = NoRequest
    Contents = {c1, c2}
    NoContent = NoContent
    NoSubmission = NoSubmission
    RootOf <- Roots
    Count <- Records
    Clean = {c1}
    AtomicStore = FALSE
    Prompt = TRUE
SYMMETRY Symmetry
INVARIANTS TypeOK CommittedIsAnchored ComputedIsCurrent 
 
CHECK_DEADLOCK FALSE
