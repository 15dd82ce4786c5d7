--------------------------- MODULE EvidenceCommit ---------------------------
(* The life of one facility submission up to its evidence commitment on Sui:  *)
(* edits, evidence uploads and computations over submissionStore.ts, the       *)
(* facility lock of suiFacilityAssignment.ts, and the modes of                *)
(* commit-evidence/route.ts, for a deployment with operator commits: an       *)
(* operator signs, a sponsor pays, the server executes and reconciles.        *)
(* Every POST is a request of its own and may die anywhere.                   *)
EXTENDS Naturals

CONSTANTS
    Requests,      \* handlers at work at the same time
    NoRequest,
    Contents,      \* what a computation is about: receivables and evidence
    NoContent,
    NoSubmission,
    RootOf,        \* the evidence root of a content (facility name and evidence)
    Clean,         \* the contents whose computation leaves no exception open
    Count,         \* the number of evidence records of a content
    AtomicStore,   \* the file store; Postgres reads and updates in two statements
    Prompt         \* a facility update ends, or its handler dies, before its lock is stale

ASSUME ContentAssumption ==
    /\ NoContent \notin Contents
    /\ DOMAIN RootOf = Contents
    /\ Clean \subseteq Contents
    /\ Count \in [Contents -> Nat]
ASSUME RequestAssumption == NoRequest \notin Requests
ASSUME ChoiceAssumption == AtomicStore \in BOOLEAN /\ Prompt \in BOOLEAN

VARIABLES
    sub,         \* the stored submission
    current,     \* requests whose copy of it has not been overwritten since
    request,     \* what each request is doing
    facility,    \* the computation the Sui facility object was last given
    updating,    \* update transactions whose outcome nobody waits for
    sent,        \* evidence transactions that were sent and may still execute
    anchored,    \* roots with an EvidenceCommitted event
    prepared,    \* payloads operators hold, by their content
    rolledBack   \* a failed upload has put an earlier computation back

chain == <<facility, updating, sent, anchored>>
vars  == <<sub, current, request, facility, updating, sent, anchored, prepared, rolledBack>>

Statuses == {"not_started", "ready", "committing", "committed", "failed"}

\* evidenceCommit and what it is about.  computed carries the root digest; late
\* and lockLate say that the attempt or the facility lock has become stale.
Submission == [status:   Statuses,
               content:  Contents,
               computed: Contents \cup {NoContent},
               late:     BOOLEAN,
               lock:     Requests \cup {NoRequest},
               lockLate: BOOLEAN]

Steps == {"idle", "save", "reserve", "upload", "restore",
          "claim", "update", "store", "unclaim", "keep_claim",
          "reconcile", "begin", "build", "execute", "look_up", "complete", "fail"}
Modes == {"none", "prepare", "take_over", "complete", "release", "privy"}

\* copy is the submission the request read and, before a save, changed; before
\* is what an upload replaced.  A commit is about the root of a content, and tx
\* is the content whose transaction is executed.
Request == [step:   Steps,
            mode:   Modes,
            about:  Contents \cup {NoContent},
            tx:     Contents \cup {NoContent},
            copy:   Submission \cup {NoSubmission},
            before: Submission \cup {NoSubmission}]

Doing(step, mode, about, tx, copy, before) ==
    [step |-> step, mode |-> mode, about |-> about, tx |-> tx, copy |-> copy, before |-> before]

Idle == Doing("idle", "none", NoContent, NoContent, NoSubmission, NoSubmission)

Init ==
    /\ sub \in {[status   |-> "not_started", content |-> c, computed |-> NoContent,
                 late |-> FALSE, lock |-> NoRequest, lockLate |-> FALSE] : c \in Contents}
    /\ current = {}
    /\ request = [p \in Requests |-> Idle]
    /\ facility = NoContent
    /\ updating = {}
    /\ sent = {} /\ anchored = {} /\ prepared = {}
    /\ rolledBack = FALSE

-----------------------------------------------------------------------------
(* The store.                                                                *)

\* requireSubmissionMutable.
Mutable(s) ==
    /\ s.status \notin {"committing", "committed"}
    /\ s.lock = NoRequest \/ s.lockLate

\* Mutant: the computation goes, the state of its commit stays.
InvalidatedComputation(s, c) == [s EXCEPT !.content = c, !.computed = NoContent]

\* invalidateSubmissionArtifacts; the facility lock stays.
Invalidated(s, c) == [s EXCEPT !.status = "not_started", !.content = c, !.computed = NoContent]

\* Every write touches updatedAt, so no other copy is the current one any more.
Write(s) == sub' = s /\ current' = {}

Step(p, step) == request' = [request EXCEPT ![p].step = step]
Answer(p)     == request' = [request EXCEPT ![p] = Idle]

\* A handler that reads the submission to save it later.
Load(p, step, copy, before) ==
    /\ request' = [request EXCEPT ![p] = Doing(step, "none", NoContent, NoContent, copy, before)]
    /\ current' = {q \in current : request[q].copy # NoSubmission} \cup {p}
    /\ UNCHANGED <<sub, chain, prepared, rolledBack>>

\* Mutant: the last save wins.
CanAlwaysSave(p) == p \in Requests

\* save: "Submission changed while this update was in progress."
CanSave(p) == p \in current

\* Handlers that only edit, and the deletion of evidence.
Edit(p) == \E c \in Contents :
    /\ request[p] = Idle /\ Mutable(sub)
    /\ Load(p, "save", Invalidated(sub, c), NoSubmission)

Save(p) ==
    /\ request[p].step = "save"
    /\ IF CanSave(p) THEN Write(request[p].copy) ELSE UNCHANGED <<sub, current>>
    /\ Answer(p)
    /\ UNCHANGED <<chain, prepared, rolledBack>>

\* reserveEvidenceUpload; its attempts after a conflict are requests of their own.
Upload(p) ==
    /\ request[p] = Idle /\ Mutable(sub)
    /\ Load(p, "reserve", Invalidated(sub, sub.content), sub)

Reserve(p) ==
    /\ request[p].step = "reserve"
    /\ IF CanSave(p)
       THEN /\ Write(request[p].copy)
            /\ request' = [request EXCEPT ![p] = Doing("upload", "none", NoContent, NoContent,
                                                       NoSubmission, @.before)]
       ELSE UNCHANGED <<sub, current>> /\ Answer(p)
    /\ UNCHANGED <<chain, prepared, rolledBack>>

\* saveEvidenceRecord reads the submission anew.
Uploaded(p) == \E c \in Contents :
    /\ request[p].step = "upload" /\ Mutable(sub)
    /\ Load(p, "save", Invalidated(sub, c), NoSubmission)

\* rollbackEvidenceUploadReservation compares the artifacts and the number of
\* evidence records, not the content.
Artifacts(s) == <<s.status, s.computed, s.lock>>

\* Mutant: evidence that was added or removed meanwhile is not noticed.
AnyEvidence(s, before) == TRUE

SameEvidence(s, before) == Count[s.content] = Count[before.content]

UploadFails(p) == LET before == request[p].before IN
    /\ request[p].step = "upload"
    /\ SameEvidence(sub, before)
    /\ Artifacts(sub) = Artifacts(Invalidated(before, before.content))
    /\ Load(p, "restore",
            [sub EXCEPT !.status = before.status, !.computed = before.computed], NoSubmission)

Restore(p) ==
    /\ request[p].step = "restore"
    /\ IF CanSave(p)
       THEN Write(request[p].copy) /\ rolledBack' = TRUE
       ELSE UNCHANGED <<sub, current, rolledBack>>
    /\ Answer(p)
    /\ UNCHANGED <<chain, prepared>>

\* An upload that is refused, or whose reservation is not rolled back.
GiveUp(p) ==
    /\ request[p].step = "upload"
    /\ Answer(p)
    /\ UNCHANGED <<sub, current, chain, prepared, rolledBack>>

-----------------------------------------------------------------------------
(* compute, and the facility object on Sui.                                  *)

Computed(s) == [s EXCEPT !.status = "ready", !.computed = s.content]

Compute(p) ==
    /\ request[p] = Idle /\ Mutable(sub)
    /\ Load(p, "claim", Computed(sub), NoSubmission)

\* beginSuiFacilityUpdate.
MayClaim(p) == CanSave(p) /\ (sub.lock = NoRequest \/ sub.lockLate)

Claim(p) ==
    /\ request[p].step = "claim"
    /\ IF MayClaim(p)
       THEN Write([sub EXCEPT !.lock = p, !.lockLate = FALSE]) /\ Step(p, "update")
       ELSE UNCHANGED <<sub, current>> /\ Answer(p)
    /\ UNCHANGED <<chain, prepared, rolledBack>>

\* updateSuiFacilityBorrowingBase: done, failed, or unknown after the timeout.
UpdateFacility(p) == LET c == request[p].copy.content IN
    /\ request[p].step = "update"
    /\ \/ facility' = c /\ Step(p, "store") /\ UNCHANGED updating
       \/ Step(p, "unclaim") /\ UNCHANGED <<facility, updating>>
       \/ updating' = updating \cup {<<p, c>>} /\ Step(p, "keep_claim") /\ UNCHANGED facility
    /\ UNCHANGED <<sub, current, sent, anchored, prepared, rolledBack>>

Unlocked(s) == [s EXCEPT !.lock = NoRequest, !.lockLate = FALSE]

\* completeSuiFacilityUpdate writes the copy of the request, if the lock is its own.
StoreUpdate(p) ==
    /\ request[p].step = "store"
    /\ IF sub.lock = p THEN Write(Unlocked(request[p].copy)) ELSE UNCHANGED <<sub, current>>
    /\ Answer(p)
    /\ UNCHANGED <<chain, prepared, rolledBack>>

\* Mutant: the lock is released whatever became of the update.
AlwaysReleased(step, s) == Unlocked(s)

\* releaseReservation: not when the outcome is unknown.
Released(step, s) == IF step = "unclaim" THEN Unlocked(s) ELSE s

\* failSuiFacilityAssignment.
FailUpdate(p) ==
    /\ request[p].step \in {"unclaim", "keep_claim"}
    /\ IF sub.lock = p THEN Write(Released(request[p].step, sub)) ELSE UNCHANGED <<sub, current>>
    /\ Answer(p)
    /\ UNCHANGED <<chain, prepared, rolledBack>>

-----------------------------------------------------------------------------
(* commit-evidence.                                                          *)

\* A request about the root the submission has when the handler reads it.
Open(p, mode, step, tx) ==
    /\ request[p] = Idle
    /\ sub.computed \in Clean /\ sub.status # "committed"
    /\ request' = [request EXCEPT ![p] =
           Doing(step, mode, sub.computed, tx, NoSubmission, NoSubmission)]
    /\ UNCHANGED <<sub, current, chain, rolledBack>>

\* isStaleCommit.
Stale(s) == s.status = "committing" /\ s.late

\* A stale attempt is reconciled with Sui before anything else is done.
TakeOver(p) == \E mode \in {"take_over", "complete", "release"} :
    /\ Stale(sub)
    /\ Open(p, mode, "reconcile", sub.computed)
    /\ UNCHANGED prepared

\* operator_prepare.
Prepare(p) ==
    /\ sub.status # "committing"
    /\ Open(p, "prepare", "begin", sub.computed)
    /\ UNCHANGED prepared

\* operator_complete_sponsored_privy: signed before the attempt begins.
SignWithPrivy(p) ==
    /\ Open(p, "privy", "begin", sub.computed)
    /\ UNCHANGED prepared

\* operator_complete, and operator_complete_sponsored without a payload: the
\* operator's wallet or an earlier answer knows the transaction.
Complete(p) ==
    /\ ~Stale(sub)
    /\ Open(p, "complete", "look_up", sub.computed)
    /\ UNCHANGED prepared

\* operator_complete_sponsored with the signed payload, whatever it is about.
CompleteSigned(p) == \E c \in prepared :
    /\ ~Stale(sub)
    /\ Open(p, "complete", "execute", c)
    /\ UNCHANGED prepared

\* operator_release, when the operator has declined to sign.
Release(p) ==
    /\ sub.status = "committing" /\ ~sub.late
    /\ Open(p, "release", "fail", sub.computed)
    /\ prepared' = prepared \ {sub.computed}

Proceed(p, step) ==
    Step(p, step) /\ UNCHANGED <<sub, current, chain, prepared, rolledBack>>

\* An event of the root; a query that misses it is late, or the event is
\* beyond the pages that are read.
Found(p) == RootOf[request[p].about] \in anchored

\* findCommittedEvidenceEvent, after the event of the transaction was looked for.
Reconcile(p) ==
    /\ request[p].step = "reconcile"
    /\ \/ Found(p) /\ Proceed(p, "complete")
       \/ Proceed(p, "fail")

\* The transaction that was named may have failed; a request that finds nothing
\* ends and changes nothing, like one that dies.
LookUp(p) ==
    /\ request[p].step = "look_up"
    /\ \/ Found(p) /\ Proceed(p, "complete")
       \/ request[p].mode = "complete" /\ Proceed(p, "fail")

\* executeSponsoredOperatorSuiCommit: executed, failed, or unknown.
Execute(p) == LET root == RootOf[request[p].tx] IN
    /\ request[p].step = "execute"
    /\ \/ Step(p, "look_up") /\ anchored' = anchored \cup {root} /\ sent' = sent \ {root}
       \/ Step(p, "fail") /\ UNCHANGED <<sent, anchored>>
       \/ Answer(p) /\ sent' = sent \cup ({root} \ anchored) /\ UNCHANGED anchored
    /\ UNCHANGED <<sub, current, facility, updating, prepared, rolledBack>>

\* Postgres reads the submission that the next statement will write.
Read(p) ==
    /\ ~AtomicStore
    /\ request[p].step \in {"begin", "complete", "fail"} /\ request[p].copy = NoSubmission
    /\ request' = [request EXCEPT ![p].copy = sub]
    /\ UNCHANGED <<sub, current, chain, prepared, rolledBack>>

\* What an operation of the store starts from; its update has conditions of its own.
Basis(p) == IF AtomicStore THEN sub ELSE request[p].copy
HasBasis(p) == AtomicStore \/ request[p].copy # NoSubmission

\* The next step of a commit, which reads the submission again if it writes it.
Go(p, step, mode) == request' = [request EXCEPT ![p] =
    Doing(step, mode, @.about, @.tx, NoSubmission, NoSubmission)]

\* Mutant: whatever was computed meanwhile is taken for what was committed.
AnyRoot(s, p) == s.computed # NoContent

SameRoot(s, p) == s.computed # NoContent /\ RootOf[s.computed] = RootOf[request[p].about]

\* canBeginEvidenceCommit.
CanBegin(s, p) == s.status \in {"ready", "failed"} /\ SameRoot(s, p) /\ s.lock = NoRequest

\* canFinishEvidenceCommit.
CanFinish(s, p) == s.status \in {"ready", "failed", "committing"} /\ SameRoot(s, p)

\* beginEvidenceCommit; a payload is then built, or executed.
Begin(p) ==
    /\ request[p].step = "begin" /\ HasBasis(p)
    /\ IF CanBegin(Basis(p), p) /\ CanBegin(sub, p)
       THEN /\ Write([Basis(p) EXCEPT !.status = "committing", !.late = FALSE])
            /\ Go(p, IF request[p].mode = "privy" THEN "execute" ELSE "build", request[p].mode)
       ELSE UNCHANGED <<sub, current>> /\ Answer(p)
    /\ UNCHANGED <<chain, prepared, rolledBack>>

\* prepareSponsoredOperatorSuiCommit, which may find no sponsor coin.
Build(p) ==
    /\ request[p].step = "build"
    /\ \/ prepared' = prepared \cup {request[p].tx} /\ Answer(p)
       \/ Step(p, "fail") /\ UNCHANGED prepared
    /\ UNCHANGED <<sub, current, chain, rolledBack>>

\* completeEvidenceCommit.
CompleteCommit(p) ==
    /\ request[p].step = "complete" /\ HasBasis(p)
    /\ IF CanFinish(Basis(p), p) /\ CanFinish(sub, p)
       THEN Write([Basis(p) EXCEPT !.status = "committed", !.late = FALSE])
       ELSE UNCHANGED <<sub, current>>
    /\ Answer(p)
    /\ UNCHANGED <<chain, prepared, rolledBack>>

\* The update of Postgres fails only an attempt.
CanFail(s, p) == CanFinish(s, p) /\ (AtomicStore \/ s.status = "committing")

\* failEvidenceCommit; a request that took over a stale attempt to prepare goes on.
FailCommit(p) ==
    /\ request[p].step = "fail" /\ HasBasis(p)
    /\ IF CanFinish(Basis(p), p) /\ CanFail(sub, p)
       THEN /\ Write([Basis(p) EXCEPT !.status = "failed", !.late = FALSE])
            /\ IF request[p].mode = "take_over" THEN Go(p, "begin", "prepare") ELSE Answer(p)
       ELSE UNCHANGED <<sub, current>> /\ Answer(p)
    /\ UNCHANGED <<chain, prepared, rolledBack>>

-----------------------------------------------------------------------------
(* The network, time and crashes.                                            *)

Executed(root) ==
    /\ root \in sent
    /\ sent' = sent \ {root} /\ anchored' = anchored \cup {root}
    /\ UNCHANGED <<sub, current, request, facility, updating, prepared, rolledBack>>

\* An update that was not waited for executes, or never will.
Settle(u) ==
    /\ u \in updating
    /\ updating' = updating \ {u}
    /\ facility' \in {facility, u[2]}
    /\ UNCHANGED <<sub, current, request, sent, anchored, prepared, rolledBack>>

\* DEFAULT_COMMIT_STALE_MS after the attempt began.
AttemptTurnsStale ==
    /\ sub.status = "committing" /\ ~sub.late
    /\ sub' = [sub EXCEPT !.late = TRUE]
    /\ UNCHANGED <<current, request, chain, prepared, rolledBack>>

\* The update of a lock has ended: its handler and its transaction.
UpdateOver(p) ==
    /\ request[p].step \notin {"update", "store", "unclaim", "keep_claim"}
    /\ \A u \in updating : u[1] # p

\* FACILITY_ASSIGNMENT_LOCK_STALE_MS after the claim.
LockTurnsStale ==
    /\ sub.lock # NoRequest /\ ~sub.lockLate
    /\ Prompt => UpdateOver(sub.lock)
    /\ sub' = [sub EXCEPT !.lockLate = TRUE]
    /\ UNCHANGED <<current, request, chain, prepared, rolledBack>>

\* What was about to be sent may have been sent.
Crash(p) == LET r == request[p] IN
    /\ r.step # "idle"
    /\ Answer(p)
    /\ updating' \in {updating} \cup IF r.step = "update" THEN {updating \cup {<<p, r.copy.content>>}} ELSE {}
    /\ sent' \in {sent} \cup IF r.step = "execute" THEN {sent \cup ({RootOf[r.tx]} \ anchored)} ELSE {}
    /\ UNCHANGED <<sub, current, facility, anchored, prepared, rolledBack>>

Editing(p) ==
    \/ Edit(p) \/ Save(p)
    \/ Upload(p) \/ Reserve(p) \/ Uploaded(p) \/ UploadFails(p) \/ Restore(p) \/ GiveUp(p)

Computing(p) ==
    Compute(p) \/ Claim(p) \/ UpdateFacility(p) \/ StoreUpdate(p) \/ FailUpdate(p)

Opening(p) ==
    TakeOver(p) \/ Prepare(p) \/ SignWithPrivy(p) \/ Complete(p) \/ CompleteSigned(p) \/ Release(p)

Storing(p) == Read(p) \/ Begin(p) \/ CompleteCommit(p) \/ FailCommit(p)

Committing(p) == Reconcile(p) \/ LookUp(p) \/ Execute(p) \/ Build(p) \/ Storing(p)

Network ==
    \/ \E root \in sent : Executed(root)
    \/ \E u \in updating : Settle(u)

Next ==
    \/ \E p \in Requests :
          Editing(p) \/ Computing(p) \/ Opening(p) \/ Committing(p) \/ Crash(p)
    \/ Network \/ AttemptTurnsStale \/ LockTurnsStale

Spec == Init /\ [][Next]_vars

-----------------------------------------------------------------------------
(* Properties.                                                               *)

TypeOK ==
    /\ sub \in Submission
    /\ sub.status = "not_started" <=> sub.computed = NoContent
    /\ sub.late => sub.status = "committing"
    /\ sub.lockLate => sub.lock # NoRequest
    /\ current \subseteq Requests
    /\ request \in [Requests -> Request]
    /\ facility \in Contents \cup {NoContent}
    /\ updating \subseteq Requests \X Contents
    /\ sent \cup anchored \subseteq {RootOf[c] : c \in Contents}
    /\ prepared \subseteq Contents
    /\ rolledBack \in BOOLEAN

\* A submission is committed only with an EvidenceCommitted event of its root on
\* Sui, however attempts, retries and takeovers interleave and wherever they die.
CommittedIsAnchored ==
    sub.status = "committed" => sub.computed # NoContent /\ RootOf[sub.computed] \in anchored

\* What the submission shows as computed is computed from what it holds.  Only a
\* failed upload may put an older computation back, of as many evidence records.
ComputedIsCurrent ==
    sub.computed # NoContent =>
        \/ sub.computed = sub.content
        \/ rolledBack /\ Count[sub.computed] = Count[sub.content]

\* Unless its facility lock is held, the borrowing base and root of a computed
\* submission are those of the facility object on Sui.
FacilityAgrees ==
    sub.computed # NoContent /\ sub.lock = NoRequest => facility = sub.computed \/ rolledBack

\* The content of a submission does not change under an attempt, nor afterwards.
AttemptIsFrozen == [][sub.status \in {"committing", "committed"} => sub'.content = sub.content]_vars
=============================================================================
