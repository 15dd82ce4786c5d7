------------------------- MODULE EvidenceCommitProofs -------------------------
(* Proofs about EvidenceCommit, for any requests, contents, roots and counts,  *)
(* both stores, with and without Prompt where a theorem does not assume it.    *)
EXTENDS EvidenceCommit, TLAPS

Attempt == {"committing", "committed"}

Copying    == {"save", "reserve", "restore", "claim", "update", "store"}
Replacing  == {"reserve", "upload"}
Concluding == {"reconcile", "begin", "build", "execute", "look_up", "complete", "fail"}

-----------------------------------------------------------------------------
(* The inductive invariant: what TypeOK, CommittedIsAnchored and              *)
(* ComputedIsCurrent say of the stored submission, said of every copy of it.   *)

WellFormed(s) ==
    /\ s \in Submission
    /\ s.status = "not_started" <=> s.computed = NoContent
    /\ s.late => s.status = "committing"
    /\ s.lockLate => s.lock # NoRequest

Backed(s, A) == s.status = "committed" => s.computed # NoContent /\ RootOf[s.computed] \in A

Recounts(s) == Count[s.computed] = Count[s.content]

Fits(s, b) == s.computed # NoContent => s.computed = s.content \/ (b /\ Recounts(s))

Sound(s, A, b) == WellFormed(s) /\ Backed(s, A) /\ Fits(s, b)

\* A copy that restores an older computation fits once it is stored.  A request
\* completes only what it has seen anchored.
Good(r, A, b) ==
    /\ r.copy # NoSubmission \/ r.step \in Copying => Sound(r.copy, A, b \/ r.step = "restore")
    /\ r.before # NoSubmission \/ r.step \in Replacing =>
           Sound(r.before, A, b) /\ r.before.status \notin Attempt
    /\ r.step \in Concluding => r.about \in Contents /\ r.tx \in Contents
    /\ r.step = "complete" => RootOf[r.about] \in A

Frame ==
    /\ current \subseteq Requests
    /\ facility \in Contents \cup {NoContent}
    /\ updating \subseteq Requests \X Contents
    /\ sent \cup anchored \subseteq {RootOf[c] : c \in Contents}
    /\ prepared \subseteq Contents
    /\ rolledBack \in BOOLEAN

IInv ==
    /\ Frame
    /\ request \in [Requests -> Request]
    /\ Sound(sub, anchored, rolledBack)
    /\ \A p \in Requests : Good(request[p], anchored, rolledBack)

-----------------------------------------------------------------------------
(* What the operations on submissions and requests return.                   *)

LEMMA InvalidatedFields ==
    ASSUME NEW s \in Submission, NEW c \in Contents
    PROVE  LET t == Invalidated(s, c) IN
           /\ t \in Submission
           /\ t.status = "not_started" /\ t.content = c /\ t.computed = NoContent
           /\ t.late = s.late /\ t.lock = s.lock /\ t.lockLate = s.lockLate
BY Zenon DEF Invalidated, Submission, Statuses

LEMMA ComputedFields ==
    ASSUME NEW s \in Submission
    PROVE  LET t == Computed(s) IN
           /\ t \in Submission
           /\ t.status = "ready" /\ t.content = s.content /\ t.computed = s.content
           /\ t.late = s.late /\ t.lock = s.lock /\ t.lockLate = s.lockLate
BY Zenon DEF Computed, Submission, Statuses

LEMMA UnlockedFields ==
    ASSUME NEW s \in Submission
    PROVE  LET t == Unlocked(s) IN
           /\ t \in Submission
           /\ t.status = s.status /\ t.content = s.content /\ t.computed = s.computed
           /\ t.late = s.late /\ t.lock = NoRequest /\ t.lockLate = FALSE
BY Zenon DEF Unlocked, Submission, Statuses

LEMMA ClaimedFields ==
    ASSUME NEW s \in Submission, NEW p \in Requests
    PROVE  LET t == [s EXCEPT !.lock = p, !.lockLate = FALSE] IN
           /\ t \in Submission
           /\ t.status = s.status /\ t.content = s.content /\ t.computed = s.computed
           /\ t.late = s.late /\ t.lock = p /\ t.lockLate = FALSE
BY Zenon DEF Submission, Statuses

LEMMA RestoredFields ==
    ASSUME NEW s \in Submission, NEW u \in Submission
    PROVE  LET t == [s EXCEPT !.status = u.status, !.computed = u.computed] IN
           /\ t \in Submission
           /\ t.status = u.status /\ t.content = s.content /\ t.computed = u.computed
           /\ t.late = s.late /\ t.lock = s.lock /\ t.lockLate = s.lockLate
BY Zenon DEF Submission, Statuses

LEMMA MarkedFields ==
    ASSUME NEW s \in Submission, NEW x \in Statuses
    PROVE  LET t == [s EXCEPT !.status = x, !.late = FALSE] IN
           /\ t \in Submission
           /\ t.status = x /\ t.content = s.content /\ t.computed = s.computed
           /\ t.late = FALSE /\ t.lock = s.lock /\ t.lockLate = s.lockLate
BY Zenon DEF Submission, Statuses

LEMMA LateFields ==
    ASSUME NEW s \in Submission
    PROVE  LET t == [s EXCEPT !.late = TRUE] IN
           /\ t \in Submission
           /\ t.status = s.status /\ t.content = s.content /\ t.computed = s.computed
           /\ t.late = TRUE /\ t.lock = s.lock /\ t.lockLate = s.lockLate
BY Zenon DEF Submission, Statuses

LEMMA LockLateFields ==
    ASSUME NEW s \in Submission
    PROVE  LET t == [s EXCEPT !.lockLate = TRUE] IN
           /\ t \in Submission
           /\ t.status = s.status /\ t.content = s.content /\ t.computed = s.computed
           /\ t.late = s.late /\ t.lock = s.lock /\ t.lockLate = TRUE
BY Zenon DEF Submission, Statuses

LEMMA DoingFields ==
    ASSUME NEW step \in Steps, NEW mode \in Modes,
           NEW about \in Contents \cup {NoContent}, NEW tx \in Contents \cup {NoContent},
           NEW copy \in Submission \cup {NoSubmission},
           NEW before \in Submission \cup {NoSubmission}
    PROVE  LET r == Doing(step, mode, about, tx, copy, before) IN
           /\ r \in Request
           /\ r.step = step /\ r.mode = mode /\ r.about = about /\ r.tx = tx
           /\ r.copy = copy /\ r.before = before
BY Zenon DEF Doing, Request

LEMMA SteppedFields ==
    ASSUME NEW r \in Request, NEW step \in Steps
    PROVE  LET t == [r EXCEPT !.step = step] IN
           /\ t \in Request
           /\ t.step = step /\ t.mode = r.mode /\ t.about = r.about /\ t.tx = r.tx
           /\ t.copy = r.copy /\ t.before = r.before
BY Zenon DEF Request

LEMMA ReadFields ==
    ASSUME NEW r \in Request, NEW s \in Submission
    PROVE  LET t == [r EXCEPT !.copy = s] IN
           /\ t \in Request
           /\ t.step = r.step /\ t.mode = r.mode /\ t.about = r.about /\ t.tx = r.tx
           /\ t.copy = s /\ t.before = r.before
BY Zenon DEF Request

-----------------------------------------------------------------------------
(* What keeps a submission sound.                                            *)

LEMMA SoundGrows ==
    ASSUME NEW s, NEW A, NEW B, NEW b, NEW c, A \subseteq B, b => c, Sound(s, A, b)
    PROVE  Sound(s, B, c)
BY Zenon DEF Sound, Backed, Fits

LEMMA GoodGrows ==
    ASSUME NEW r, NEW A, NEW B, NEW b, NEW c, A \subseteq B, b => c, Good(r, A, b)
    PROVE  Good(r, B, c)
BY Zenon DEF Good, Sound, Backed, Fits

LEMMA SoundInvalidated ==
    ASSUME NEW s, NEW c \in Contents, NEW A, NEW b, Sound(s, A, b), s.status \notin Attempt
    PROVE  Sound(Invalidated(s, c), A, b)
<1>1. s \in Submission /\ WellFormed(s)
  BY DEF Sound, WellFormed
<1>2. WellFormed(Invalidated(s, c))
  BY <1>1, InvalidatedFields DEF WellFormed, Attempt
<1> QED
  BY <1>1, <1>2, InvalidatedFields DEF Sound, Backed, Fits

LEMMA SoundComputed ==
    ASSUME NEW s, NEW A, NEW b, Sound(s, A, b), s.status \notin Attempt
    PROVE  Sound(Computed(s), A, b)
<1>1. s \in Submission /\ WellFormed(s)
  BY DEF Sound, WellFormed
<1>2. s.content \in Contents /\ s.content # NoContent
  BY <1>1, ContentAssumption DEF Submission
<1>3. WellFormed(Computed(s))
  BY <1>1, <1>2, ComputedFields DEF WellFormed, Attempt
<1> DEFINE t == Computed(s)
<1>4. t.status = "ready" /\ t.computed = t.content
  BY <1>1, ComputedFields
<1> HIDE DEF t
<1>5. Backed(t, A)
  BY <1>4 DEF Backed
<1>6. Fits(t, b)
  BY <1>4, Zenon DEF Fits
<1> QED
  BY <1>3, <1>5, <1>6 DEF Sound, t

LEMMA SoundUnlocked ==
    ASSUME NEW s, NEW A, NEW b, Sound(s, A, b)
    PROVE  Sound(Unlocked(s), A, b)
<1>1. s \in Submission /\ WellFormed(s)
  BY DEF Sound, WellFormed
<1>2. WellFormed(Unlocked(s))
  BY <1>1, UnlockedFields DEF WellFormed
<1> QED
  BY <1>1, <1>2, UnlockedFields, Zenon DEF Sound, Backed, Fits, Recounts

LEMMA SoundClaimed ==
    ASSUME NEW s, NEW p \in Requests, NEW A, NEW b, Sound(s, A, b)
    PROVE  Sound([s EXCEPT !.lock = p, !.lockLate = FALSE], A, b)
<1> DEFINE t == [s EXCEPT !.lock = p, !.lockLate = FALSE]
<1>1. s \in Submission /\ WellFormed(s)
  BY DEF Sound, WellFormed
<1>2. /\ t \in Submission
      /\ t.status = s.status /\ t.content = s.content /\ t.computed = s.computed
      /\ t.late = s.late /\ t.lock = p /\ t.lockLate = FALSE
  BY <1>1, ClaimedFields
<1> HIDE DEF t
<1>3. WellFormed(t)
  BY <1>1, <1>2 DEF WellFormed
<1>4. Sound(t, A, b)
  BY <1>2, <1>3, Zenon DEF Sound, Backed, Fits, Recounts
<1> QED  BY <1>4 DEF t

\* A commit may be marked failed or committing, and committed once it is anchored.
LEMMA SoundMarked ==
    ASSUME NEW s, NEW x \in Statuses, NEW A, NEW b, Sound(s, A, b),
           s.status # "not_started", x # "not_started",
           x = "committed" => RootOf[s.computed] \in A
    PROVE  Sound([s EXCEPT !.status = x, !.late = FALSE], A, b)
<1> DEFINE t == [s EXCEPT !.status = x, !.late = FALSE]
<1>1. s \in Submission /\ WellFormed(s)
  BY DEF Sound, WellFormed
<1>2. /\ t \in Submission
      /\ t.status = x /\ t.content = s.content /\ t.computed = s.computed
      /\ t.late = FALSE /\ t.lock = s.lock /\ t.lockLate = s.lockLate
  BY <1>1, MarkedFields
<1> HIDE DEF t
<1>3. WellFormed(t)
  BY <1>1, <1>2 DEF WellFormed
<1>4. s.computed # NoContent
  BY <1>1 DEF WellFormed
<1>5. Sound(t, A, b)
  BY <1>2, <1>3, <1>4, Zenon DEF Sound, Backed, Fits, Recounts
<1> QED  BY <1>5 DEF t

-----------------------------------------------------------------------------
(* A step of one request.                                                    *)

Grows == anchored \subseteq anchored' /\ (rolledBack => rolledBack')

Moves(p) ==
    /\ \E r \in Request : /\ request' = [request EXCEPT ![p] = r]
                          /\ Good(r, anchored', rolledBack')
    /\ Sound(sub', anchored', rolledBack')
    /\ Frame'
    /\ Grows

LEMMA MoveInv ==
    ASSUME IInv, NEW p \in Requests, Moves(p)
    PROVE  IInv'
<1>1. PICK r \in Request : /\ request' = [request EXCEPT ![p] = r]
                           /\ Good(r, anchored', rolledBack')
  BY DEF Moves
<1>2. request' \in [Requests -> Request]
  BY <1>1 DEF IInv
<1>3. ASSUME NEW q \in Requests
      PROVE  Good(request'[q], anchored', rolledBack')
  <2>1. CASE q = p
    <3>1. request'[q] = r
      BY <1>1, <2>1 DEF IInv
    <3> QED  BY <1>1, <3>1
  <2>2. CASE q # p
    <3>1. request'[q] = request[q]
      BY <1>1, <2>2 DEF IInv
    <3>2. Good(request[q], anchored, rolledBack)
      BY DEF IInv
    <3>3. anchored \subseteq anchored' /\ (rolledBack => rolledBack')
      BY DEF Moves, Grows
    <3>4. Good(request[q], anchored', rolledBack')
      BY <3>2, <3>3, GoodGrows, SMT
    <3> QED
      BY <3>1, <3>4
  <2> QED  BY <2>1, <2>2
<1> QED
  BY <1>2, <1>3 DEF IInv, Moves

LEMMA GoodIdle == ASSUME NEW A, NEW b PROVE Idle \in Request /\ Good(Idle, A, b)
<1>1. /\ Idle \in Request
      /\ Idle.step = "idle" /\ Idle.copy = NoSubmission /\ Idle.before = NoSubmission
  BY DoingFields DEF Idle, Steps, Modes
<1> QED
  BY <1>1 DEF Good, Copying, Replacing, Concluding

\* A request that ends.
LEMMA AnswerMoves ==
    ASSUME NEW p \in Requests, Answer(p), Sound(sub', anchored', rolledBack'), Frame', Grows
    PROVE  Moves(p)
BY GoodIdle DEF Answer, Moves

\* A request that takes another step with what it has.
LEMMA StepMoves ==
    ASSUME IInv, NEW p \in Requests, NEW step \in Steps, Step(p, step),
           step = "restore" \/ request[p].step # "restore",
           step \in Copying => request[p].step \in Copying,
           step \in Replacing => request[p].step \in Replacing,
           step \in Concluding => request[p].about \in Contents /\ request[p].tx \in Contents,
           step = "complete" => RootOf[request[p].about] \in anchored',
           Sound(sub', anchored', rolledBack'), Frame', Grows
    PROVE  Moves(p)
<1> DEFINE r == [request[p] EXCEPT !.step = step]
<1>1. request[p] \in Request
  BY DEF IInv
<1>2. /\ r \in Request
      /\ r.step = step /\ r.mode = request[p].mode
      /\ r.about = request[p].about /\ r.tx = request[p].tx
      /\ r.copy = request[p].copy /\ r.before = request[p].before
  BY <1>1, SteppedFields, SMT
<1>3. request' = [request EXCEPT ![p] = r]
  BY DEF Step
<1> HIDE DEF r
<1>4. Good(request[p], anchored', rolledBack')
  <2>1. Good(request[p], anchored, rolledBack)
    BY DEF IInv
  <2>2. anchored \subseteq anchored' /\ (rolledBack => rolledBack')
    BY DEF Grows
  <2> QED  BY <2>1, <2>2, GoodGrows, SMT
<1>5. r.copy # NoSubmission \/ step \in Copying =>
          Sound(r.copy, anchored', rolledBack' \/ step = "restore")
  <2> SUFFICES ASSUME r.copy # NoSubmission \/ step \in Copying
               PROVE  Sound(r.copy, anchored', rolledBack' \/ step = "restore")
    OBVIOUS
  <2>1. Sound(r.copy, anchored', rolledBack' \/ request[p].step = "restore")
    BY <1>2, <1>4, Zenon DEF Good
  <2> QED
    BY <2>1, SoundGrows, Zenon
<1>6. Good(r, anchored', rolledBack')
  BY <1>2, <1>4, <1>5, Zenon DEF Good
<1> QED
  BY <1>2, <1>6, <1>3 DEF Moves

\* A request that reads the submission to save it.
LEMMA LoadMoves ==
    ASSUME IInv, NEW p \in Requests, NEW step \in {"save", "reserve", "restore", "claim"},
           NEW copy \in Submission, NEW before \in Submission \cup {NoSubmission},
           Load(p, step, copy, before),
           Sound(copy, anchored, rolledBack \/ step = "restore"),
           before # NoSubmission \/ step = "reserve" =>
               Sound(before, anchored, rolledBack) /\ before.status \notin Attempt
    PROVE  Moves(p)
<1> DEFINE r == Doing(step, "none", NoContent, NoContent, copy, before)
<1>1. /\ r \in Request
      /\ r.step = step /\ r.copy = copy /\ r.before = before
  <2>1. step \in Steps /\ "none" \in Modes
    BY DEF Steps, Modes
  <2> QED  BY <2>1, Zenon DEF Doing, Request
<1>2. /\ request' = [request EXCEPT ![p] = r]
      /\ current' \subseteq current \cup {p}
      /\ UNCHANGED <<sub, chain, prepared, rolledBack>>
  BY DEF Load
<1> HIDE DEF r
<1>3. Good(r, anchored, rolledBack)
  BY <1>1 DEF Good, Copying, Replacing, Concluding
<1>4. Frame' /\ Grows /\ Sound(sub', anchored', rolledBack') /\ Good(r, anchored', rolledBack')
  BY <1>2, <1>3 DEF IInv, Frame, Grows, chain
<1> QED
  BY <1>1, <1>2, <1>4 DEF Moves

-----------------------------------------------------------------------------
(* Edits and uploads.                                                        *)

LEMMA SubFacts ==
    ASSUME IInv
    PROVE  /\ Sound(sub, anchored, rolledBack)
           /\ sub \in Submission /\ WellFormed(sub)
           /\ sub.content \in Contents /\ sub.computed \in Contents \cup {NoContent}
<1>1. Sound(sub, anchored, rolledBack) /\ sub \in Submission /\ WellFormed(sub)
  BY DEF IInv, Sound, WellFormed
<1> QED
  BY <1>1 DEF Submission

\* What a request that has a copy holds.
LEMMA CopyFacts ==
    ASSUME IInv, NEW p \in Requests,
           request[p].copy # NoSubmission \/ request[p].step \in Copying
    PROVE  /\ Sound(request[p].copy, anchored, rolledBack \/ request[p].step = "restore")
           /\ request[p].copy \in Submission
<1>1. Good(request[p], anchored, rolledBack)
  BY DEF IInv
<1> QED
  BY <1>1 DEF Good, Sound, WellFormed

LEMMA CopySound ==
    ASSUME IInv, NEW p \in Requests,
           request[p].copy # NoSubmission \/ request[p].step \in Copying,
           request[p].step # "restore"
    PROVE  Sound(request[p].copy, anchored, rolledBack)
BY CopyFacts, SoundGrows

LEMMA BeforeFacts ==
    ASSUME IInv, NEW p \in Requests, request[p].step \in Replacing
    PROVE  /\ request[p].before \in Submission
           /\ request[p].before.status \notin Attempt
           /\ Sound(request[p].before, anchored, rolledBack)
<1>1. Good(request[p], anchored, rolledBack)
  BY DEF IInv
<1> QED
  BY <1>1 DEF Good, Sound, WellFormed

\* Nothing but the submission, who is current and the request changes.
LEMMA QuietFrame ==
    ASSUME IInv, current' \subseteq Requests,
           UNCHANGED <<facility, updating, sent, anchored, prepared>>,
           rolledBack' = rolledBack \/ rolledBack' = TRUE
    PROVE  Frame' /\ Grows
BY DEF IInv, Frame, Grows

LEMMA LoadEditMoves ==
    ASSUME IInv, NEW p \in Requests, NEW c \in Contents,
           NEW step \in {"save", "reserve"}, NEW before \in {NoSubmission, sub},
           step = "reserve" => before = sub,
           Mutable(sub), Load(p, step, Invalidated(sub, c), before)
    PROVE  Moves(p)
<1>1. sub.status \notin Attempt
  BY DEF Mutable, Attempt
<1>2. Invalidated(sub, c) \in Submission
  BY SubFacts, InvalidatedFields
<1>3. Sound(Invalidated(sub, c), anchored, rolledBack)
  BY <1>1, SubFacts, SoundInvalidated
<1>4. Sound(Invalidated(sub, c), anchored, rolledBack \/ step = "restore")
  BY <1>3, Zenon DEF Sound, Fits
<1>5. before \in Submission \cup {NoSubmission}
  BY SubFacts
<1> QED
  BY <1>1, <1>2, <1>4, <1>5, SubFacts, LoadMoves

LEMMA EditMoves ==
    ASSUME IInv, NEW p \in Requests, Edit(p)
    PROVE  Moves(p)
<1>1. PICK c \in Contents : Mutable(sub) /\ Load(p, "save", Invalidated(sub, c), NoSubmission)
  BY DEF Edit
<1> QED  BY <1>1, LoadEditMoves

LEMMA UploadMoves ==
    ASSUME IInv, NEW p \in Requests, Upload(p)
    PROVE  Moves(p)
<1>1. Mutable(sub) /\ Load(p, "reserve", Invalidated(sub, sub.content), sub)
  BY DEF Upload
<1>2. sub.content \in Contents 
  BY SubFacts
<1> QED  BY <1>1, <1>2, LoadEditMoves

LEMMA UploadedMoves ==
    ASSUME IInv, NEW p \in Requests, Uploaded(p)
    PROVE  Moves(p)
<1>1. PICK c \in Contents : Mutable(sub) /\ Load(p, "save", Invalidated(sub, c), NoSubmission)
  BY DEF Uploaded
<1> QED  BY <1>1, LoadEditMoves

LEMMA SaveMoves ==
    ASSUME IInv, NEW p \in Requests, Save(p)
    PROVE  Moves(p)
<1>1. request[p].step \in Copying /\ request[p].step # "restore"
  BY DEF Save, Copying
<1>2. Sound(request[p].copy, anchored, rolledBack)
  BY <1>1, CopySound
<1>3. /\ sub' = request[p].copy \/ sub' = sub
      /\ current' \subseteq Requests
  BY DEF Save, Write, IInv, Frame
<1>4. UNCHANGED <<facility, updating, sent, anchored, prepared, rolledBack>> /\ Answer(p)
  BY DEF Save, chain
<1>5. Frame' /\ Grows
  BY <1>3, <1>4, QuietFrame
<1>6. Sound(sub', anchored', rolledBack')
  BY <1>2, <1>3, <1>4, SubFacts
<1> QED  BY <1>4, <1>5, <1>6, AnswerMoves

LEMMA ReserveMoves ==
    ASSUME IInv, NEW p \in Requests, Reserve(p)
    PROVE  Moves(p)
<1> DEFINE before == request[p].before
<1>1. request[p].step \in Copying /\ request[p].step = "reserve"
  BY DEF Reserve, Copying
<1>2. Sound(request[p].copy, anchored, rolledBack)
  BY <1>1, CopySound
<1>3. UNCHANGED <<facility, updating, sent, anchored, prepared, rolledBack>>
  BY DEF Reserve, chain
<1>4. CASE CanSave(p)
  <2> DEFINE r == Doing("upload", "none", NoContent, NoContent, NoSubmission, before)
  <2>1. /\ sub' = request[p].copy /\ current' = {}
        /\ request' = [request EXCEPT ![p] = r]
    BY <1>4 DEF Reserve, Write
  <2>2. /\ before \in Submission
        /\ before.status \notin Attempt /\ Sound(before, anchored, rolledBack)
    BY <1>1, BeforeFacts DEF Replacing
  <2>3. r \in Request /\ r.step = "upload" /\ r.copy = NoSubmission /\ r.before = before
    <3>1. "upload" \in Steps /\ "none" \in Modes
      BY DEF Steps, Modes
    <3> QED  BY <2>2, <3>1, Zenon DEF Doing, Request
  <2> HIDE DEF r, before
  <2>4. Good(r, anchored, rolledBack)
    BY <2>2, <2>3 DEF Good, Copying, Replacing, Concluding
  <2>5. Frame' /\ Grows
    BY <1>3, <2>1, QuietFrame
  <2>6. Sound(sub', anchored', rolledBack') /\ Good(r, anchored', rolledBack')
    BY <1>2, <1>3, <2>1, <2>4
  <2> QED  BY <2>1, <2>3, <2>5, <2>6 DEF Moves
<1>5. CASE ~CanSave(p)
  <2>1. UNCHANGED <<sub, current>> /\ Answer(p)
    BY <1>5 DEF Reserve
  <2>2. Frame' /\ Grows
    BY <1>3, <2>1, QuietFrame DEF IInv, Frame
  <2>3. Sound(sub', anchored', rolledBack')
    BY <1>3, <2>1, SubFacts
  <2> QED  BY <2>1, <2>2, <2>3, AnswerMoves
<1> QED  BY <1>4, <1>5

LEMMA UploadFailsMoves ==
    ASSUME IInv, NEW p \in Requests, UploadFails(p)
    PROVE  Moves(p)
<1> DEFINE before == request[p].before
           t == [sub EXCEPT !.status = before.status, !.computed = before.computed]
<1>1. /\ before \in Submission /\ before.status \notin Attempt
      /\ Sound(before, anchored, rolledBack)
  BY BeforeFacts DEF UploadFails, Replacing
<1>2. Load(p, "restore", t, NoSubmission) /\ Count[sub.content] = Count[before.content]
  BY DEF UploadFails, SameEvidence
<1>3. sub.status = "not_started"
  <2>1. Artifacts(sub) = Artifacts(Invalidated(before, before.content))
    BY DEF UploadFails
  <2>2. before.content \in Contents
    BY <1>1 DEF Submission
  <2> QED
    BY <1>1, <2>1, <2>2, InvalidatedFields DEF Artifacts
<1>4. /\ t \in Submission
      /\ t.status = before.status /\ t.content = sub.content /\ t.computed = before.computed
      /\ t.late = sub.late /\ t.lock = sub.lock /\ t.lockLate = sub.lockLate
  BY <1>1, SubFacts, RestoredFields
<1> HIDE DEF t, before
<1>5. WellFormed(t)
  <2>1. WellFormed(sub) /\ WellFormed(before)
    BY <1>1, SubFacts DEF Sound
  <2> QED  BY <2>1, <1>3, <1>4 DEF WellFormed
<1>6. Backed(t, anchored)
  BY <1>1, <1>4 DEF Backed, Attempt
<1>7. Fits(t, TRUE)
  BY <1>1, <1>2, <1>4 DEF Sound, Fits, Recounts
<1>8. Sound(t, anchored, rolledBack \/ "restore" = "restore")
  BY <1>5, <1>6, <1>7 DEF Sound
<1> QED
  BY <1>2, <1>4, <1>8, LoadMoves

LEMMA RestoreMoves ==
    ASSUME IInv, NEW p \in Requests, Restore(p)
    PROVE  Moves(p)
<1>1. request[p].step \in Copying /\ request[p].step = "restore"
  BY DEF Restore, Copying
<1>2. Sound(request[p].copy, anchored, TRUE)
  BY <1>1, CopyFacts, SoundGrows
<1>3. UNCHANGED <<facility, updating, sent, anchored, prepared>> /\ Answer(p)
  BY DEF Restore, chain
<1>4. CASE CanSave(p)
  <2>1. sub' = request[p].copy /\ current' = {} /\ rolledBack' = TRUE
    BY <1>4 DEF Restore, Write
  <2>2. Frame' /\ Grows
    BY <1>3, <2>1, QuietFrame
  <2>3. Sound(sub', anchored', rolledBack')
    BY <1>2, <1>3, <2>1
  <2> QED  BY <1>3, <2>2, <2>3, AnswerMoves
<1>5. CASE ~CanSave(p)
  <2>1. UNCHANGED <<sub, current, rolledBack>>
    BY <1>5 DEF Restore
  <2>2. Frame' /\ Grows
    BY <1>3, <2>1, QuietFrame DEF IInv, Frame
  <2>3. Sound(sub', anchored', rolledBack')
    BY <1>3, <2>1, SubFacts
  <2> QED  BY <1>3, <2>2, <2>3, AnswerMoves
<1> QED  BY <1>4, <1>5

LEMMA GiveUpMoves ==
    ASSUME IInv, NEW p \in Requests, GiveUp(p)
    PROVE  Moves(p)
<1>1. UNCHANGED <<sub, current, facility, updating, sent, anchored, prepared, rolledBack>> /\ Answer(p)
  BY DEF GiveUp, chain
<1>2. Frame' /\ Grows
  BY <1>1, QuietFrame DEF IInv, Frame
<1> QED  BY <1>1, <1>2, SubFacts, AnswerMoves

-----------------------------------------------------------------------------
(* Computations.                                                             *)

LEMMA ComputeMoves ==
    ASSUME IInv, NEW p \in Requests, Compute(p)
    PROVE  Moves(p)
<1>1. sub.status \notin Attempt /\ Load(p, "claim", Computed(sub), NoSubmission)
  BY DEF Compute, Mutable, Attempt
<1>2. Computed(sub) \in Submission
  BY SubFacts, ComputedFields
<1>3. Sound(Computed(sub), anchored, rolledBack)
  BY <1>1, SubFacts, SoundComputed
<1>4. Sound(Computed(sub), anchored, rolledBack \/ "claim" = "restore")
  BY <1>3, Zenon DEF Sound, Fits
<1> QED
  BY <1>1, <1>2, <1>4, LoadMoves

LEMMA ClaimMoves ==
    ASSUME IInv, NEW p \in Requests, Claim(p)
    PROVE  Moves(p)
<1>1. UNCHANGED <<facility, updating, sent, anchored, prepared, rolledBack>>
      /\ request[p].step = "claim"
  BY DEF Claim, chain
<1>2. CASE MayClaim(p)
  <2>1. /\ sub' = [sub EXCEPT !.lock = p, !.lockLate = FALSE] /\ current' = {}
        /\ Step(p, "update")
    BY <1>2 DEF Claim, Write
  <2>2. Frame' /\ Grows
    BY <1>1, <2>1, QuietFrame
  <2>3. Sound(sub', anchored', rolledBack')
    BY <1>1, <2>1, SubFacts, SoundClaimed
  <2>4. "update" \in Steps
    BY DEF Steps
  <2> QED
    BY <1>1, <2>1, <2>2, <2>3, <2>4, StepMoves DEF Copying, Replacing, Concluding
<1>3. CASE ~MayClaim(p)
  <2>1. UNCHANGED <<sub, current>> /\ Answer(p)
    BY <1>3 DEF Claim
  <2>2. Frame' /\ Grows
    BY <1>1, <2>1, QuietFrame DEF IInv, Frame
  <2>3. Sound(sub', anchored', rolledBack')
    BY <1>1, <2>1, SubFacts
  <2> QED  BY <2>1, <2>2, <2>3, AnswerMoves
<1> QED  BY <1>2, <1>3

LEMMA UpdateFacilityMoves ==
    ASSUME IInv, NEW p \in Requests, UpdateFacility(p)
    PROVE  Moves(p)
<1> DEFINE c == request[p].copy.content
<1>1. UNCHANGED <<sub, current, sent, anchored, prepared, rolledBack>> /\ request[p].step = "update"
  BY DEF UpdateFacility
<1>2. c \in Contents
  BY <1>1, CopyFacts DEF Copying, Submission
<1>3. Frame'
  <2>1. facility' \in Contents \cup {NoContent}
    BY <1>2 DEF UpdateFacility, IInv, Frame
  <2>2. updating' \subseteq Requests \X Contents
    BY <1>2 DEF UpdateFacility, IInv, Frame
  <2> QED  BY <1>1, <2>1, <2>2 DEF IInv, Frame
<1>4. Grows /\ Sound(sub', anchored', rolledBack')
  BY <1>1, SubFacts DEF Grows
<1>5. CASE Step(p, "store")
  <2>1. "store" \in Steps
    BY DEF Steps
  <2> QED
    BY <1>1, <1>3, <1>4, <1>5, <2>1, StepMoves DEF Copying, Replacing, Concluding
<1>6. CASE Step(p, "unclaim")
  <2>1. "unclaim" \in Steps
    BY DEF Steps
  <2> QED
    BY <1>1, <1>3, <1>4, <1>6, <2>1, StepMoves DEF Copying, Replacing, Concluding
<1>7. CASE Step(p, "keep_claim")
  <2>1. "keep_claim" \in Steps
    BY DEF Steps
  <2> QED
    BY <1>1, <1>3, <1>4, <1>7, <2>1, StepMoves DEF Copying, Replacing, Concluding
<1> QED  BY <1>5, <1>6, <1>7 DEF UpdateFacility

LEMMA StoreUpdateMoves ==
    ASSUME IInv, NEW p \in Requests, StoreUpdate(p)
    PROVE  Moves(p)
<1>1. /\ UNCHANGED <<facility, updating, sent, anchored, prepared, rolledBack>>
      /\ Answer(p) /\ request[p].step = "store"
  BY DEF StoreUpdate, chain
<1>2. Sound(Unlocked(request[p].copy), anchored, rolledBack)
  <2>1. Sound(request[p].copy, anchored, rolledBack)
    BY <1>1, CopySound DEF Copying
  <2> QED  BY <2>1, SoundUnlocked
<1>3. /\ sub' = Unlocked(request[p].copy) \/ sub' = sub
      /\ current' \subseteq Requests
  BY DEF StoreUpdate, Write, IInv, Frame
<1>4. Frame' /\ Grows
  BY <1>1, <1>3, QuietFrame
<1>5. Sound(sub', anchored', rolledBack')
  BY <1>1, <1>2, <1>3, SubFacts
<1> QED  BY <1>1, <1>4, <1>5, AnswerMoves

LEMMA FailUpdateMoves ==
    ASSUME IInv, NEW p \in Requests, FailUpdate(p)
    PROVE  Moves(p)
<1>1. /\ UNCHANGED <<facility, updating, sent, anchored, prepared, rolledBack>>
      /\ Answer(p)
  BY DEF FailUpdate, chain
<1>2. /\ sub' = Unlocked(sub) \/ sub' = sub
      /\ current' \subseteq Requests
  BY DEF FailUpdate, Released, Write, IInv, Frame
<1>3. Frame' /\ Grows
  BY <1>1, <1>2, QuietFrame
<1>4. Sound(sub', anchored', rolledBack')
  BY <1>1, <1>2, SubFacts, SoundUnlocked
<1> QED  BY <1>1, <1>3, <1>4, AnswerMoves

-----------------------------------------------------------------------------
(* Commits.                                                                  *)

LEMMA OpenMoves ==
    ASSUME IInv, NEW p \in Requests, NEW mode \in Modes,
           NEW step \in {"reconcile", "begin", "look_up", "execute", "fail"},
           NEW tx \in Contents \cup {NoContent}, tx \in Contents \/ tx = sub.computed,
           Open(p, mode, step, tx), prepared' \subseteq prepared
    PROVE  Moves(p)
<1> DEFINE r == Doing(step, mode, sub.computed, tx, NoSubmission, NoSubmission)
<1>1. /\ request' = [request EXCEPT ![p] = r]
      /\ UNCHANGED <<sub, current, facility, updating, sent, anchored, rolledBack>>
      /\ sub.computed \in Contents
  BY ContentAssumption DEF Open, chain
<1>2. step \in Steps /\ tx \in Contents
  BY <1>1 DEF Steps
<1>3. /\ r \in Request
      /\ r.step = step /\ r.about = sub.computed /\ r.tx = tx
      /\ r.copy = NoSubmission /\ r.before = NoSubmission
  BY <1>1, <1>2, Zenon DEF Doing, Request
<1> HIDE DEF r
<1>4. Good(r, anchored, rolledBack)
  BY <1>1, <1>2, <1>3 DEF Good, Copying, Replacing, Concluding
<1>5. Frame' /\ Grows
  BY <1>1 DEF IInv, Frame, Grows
<1>6. Sound(sub', anchored', rolledBack') /\ Good(r, anchored', rolledBack')
  BY <1>1, <1>4, SubFacts
<1> QED  BY <1>1, <1>3, <1>5, <1>6 DEF Moves

LEMMA OpeningMoves ==
    ASSUME IInv, NEW p \in Requests, Opening(p)
    PROVE  Moves(p)
<1> USE SubFacts DEF Modes
<1>1. CASE TakeOver(p)
  BY <1>1, OpenMoves DEF TakeOver
<1>2. CASE Prepare(p)
  BY <1>2, OpenMoves DEF Prepare
<1>3. CASE SignWithPrivy(p)
  BY <1>3, OpenMoves DEF SignWithPrivy
<1>4. CASE Complete(p)
  BY <1>4, OpenMoves DEF Complete
<1>5. CASE CompleteSigned(p)
  <2>1. PICK c \in prepared : Open(p, "complete", "execute", c) /\ prepared' = prepared
    BY <1>5 DEF CompleteSigned
  <2>2. c \in Contents
    BY DEF IInv, Frame
  <2> QED  BY <2>1, <2>2, OpenMoves
<1>6. CASE Release(p)
  BY <1>6, OpenMoves DEF Release
<1> QED
  BY <1>1, <1>2, <1>3, <1>4, <1>5, <1>6 DEF Opening

\* A commit that takes another step and leaves the submission alone.
LEMMA ProceedMoves ==
    ASSUME IInv, NEW p \in Requests, NEW step \in Concluding, Step(p, step),
           request[p].step \in Concluding,
           step = "complete" => RootOf[request[p].about] \in anchored',
           Frame', Grows, sub' = sub, rolledBack' = rolledBack
    PROVE  Moves(p)
<1>1. /\ step \in Steps /\ step \notin Copying /\ step \notin Replacing /\ step # "restore"
      /\ request[p].step # "restore"
  BY DEF Steps, Copying, Replacing, Concluding
<1>2. request[p].about \in Contents /\ request[p].tx \in Contents
  BY DEF IInv, Good
<1>3. Sound(sub', anchored', rolledBack')
  BY SubFacts, SoundGrows DEF Grows
<1> QED  BY <1>1, <1>2, <1>3, StepMoves

LEMMA SeekMoves ==
    ASSUME IInv, NEW p \in Requests, Reconcile(p) \/ LookUp(p)
    PROVE  Moves(p)
<1>1. /\ request[p].step \in Concluding
      /\ UNCHANGED <<sub, current, facility, updating, sent, anchored, prepared, rolledBack>>
  BY DEF Reconcile, LookUp, Proceed, chain, Concluding
<1>2. Frame' /\ Grows
  BY <1>1, QuietFrame DEF IInv, Frame
<1>3. CASE Found(p) /\ Step(p, "complete")
  <2>1. RootOf[request[p].about] \in anchored'
    BY <1>1, <1>3 DEF Found
  <2> QED  BY <1>1, <1>2, <1>3, <2>1, ProceedMoves DEF Concluding
<1>4. CASE Step(p, "fail")
  BY <1>1, <1>2, <1>4, ProceedMoves DEF Concluding
<1> QED  BY <1>3, <1>4 DEF Reconcile, LookUp, Proceed

LEMMA ExecuteMoves ==
    ASSUME IInv, NEW p \in Requests, Execute(p)
    PROVE  Moves(p)
<1> DEFINE root == RootOf[request[p].tx]
<1>1. /\ request[p].step \in Concluding
      /\ UNCHANGED <<sub, current, facility, updating, prepared, rolledBack>>
  BY DEF Execute, Concluding
<1>2. request[p].tx \in Contents
  BY <1>1 DEF IInv, Good
<1>3. root \in {RootOf[c] : c \in Contents}
  BY <1>2
<1>4. /\ sent' \subseteq sent \cup {root}
      /\ anchored' = anchored \/ anchored' = anchored \cup {root}
  BY DEF Execute
<1> HIDE DEF root
<1>5. Frame' /\ Grows
  BY <1>1, <1>3, <1>4 DEF IInv, Frame, Grows
<1>6. Sound(sub', anchored', rolledBack')
  BY <1>1, <1>5, SubFacts, SoundGrows DEF Grows
<1>7. CASE Step(p, "look_up") \/ Step(p, "fail")
  BY <1>1, <1>5, <1>7, ProceedMoves DEF Concluding
<1>8. CASE Answer(p)
  BY <1>5, <1>6, <1>8, AnswerMoves
<1> QED  BY <1>7, <1>8 DEF Execute

LEMMA BuildMoves ==
    ASSUME IInv, NEW p \in Requests, Build(p)
    PROVE  Moves(p)
<1>1. /\ request[p].step \in Concluding
      /\ UNCHANGED <<sub, current, facility, updating, sent, anchored, rolledBack>>
  BY DEF Build, Concluding, chain
<1>2. prepared' \subseteq Contents
  BY <1>1 DEF Build, IInv, Good, Frame
<1>3. Frame' /\ Grows /\ Sound(sub', anchored', rolledBack')
  BY <1>1, <1>2, SubFacts DEF IInv, Frame, Grows
<1>4. CASE Answer(p)
  BY <1>3, <1>4, AnswerMoves
<1>5. CASE Step(p, "fail")
  BY <1>1, <1>3, <1>5, ProceedMoves DEF Concluding
<1> QED  BY <1>4, <1>5 DEF Build

-----------------------------------------------------------------------------
(* What commits store.                                                       *)

LEMMA ReadMoves ==
    ASSUME IInv, NEW p \in Requests, Read(p)
    PROVE  Moves(p)
<1> DEFINE r == [request[p] EXCEPT !.copy = sub]
<1>1. /\ request[p] \in Request
      /\ request[p].step \in {"begin", "complete", "fail"}
      /\ UNCHANGED <<sub, current, facility, updating, sent, anchored, prepared, rolledBack>>
      /\ request' = [request EXCEPT ![p] = r]
  BY DEF Read, IInv, chain
<1>2. /\ r \in Request
      /\ r.step = request[p].step /\ r.about = request[p].about /\ r.tx = request[p].tx
      /\ r.copy = sub /\ r.before = request[p].before
  BY <1>1, SubFacts, ReadFields
<1> HIDE DEF r
<1>3. Sound(r.copy, anchored, rolledBack \/ r.step = "restore")
  <2>1. Sound(r.copy, anchored, rolledBack)
    BY <1>2, SubFacts
  <2> QED  BY <2>1, Zenon DEF Sound, Fits
<1>4. Good(r, anchored, rolledBack)
  <2>1. Good(request[p], anchored, rolledBack)
    BY DEF IInv
  <2> QED  BY <1>2, <1>3, <2>1, Zenon DEF Good
<1>5. Frame' /\ Grows
  BY <1>1, QuietFrame DEF IInv, Frame
<1>6. Sound(sub', anchored', rolledBack') /\ Good(r, anchored', rolledBack')
  BY <1>1, <1>4, SubFacts
<1> QED  BY <1>1, <1>2, <1>5, <1>6 DEF Moves

LEMMA BasisFacts ==
    ASSUME IInv, NEW p \in Requests, HasBasis(p), request[p].step \in Concluding
    PROVE  Sound(Basis(p), anchored, rolledBack)
<1>1. request[p].step # "restore"
  BY DEF Concluding
<1>2. CASE AtomicStore
  BY <1>2, SubFacts DEF Basis
<1>3. CASE ~AtomicStore
  BY <1>1, <1>3, CopySound DEF Basis, HasBasis
<1> QED  BY <1>2, <1>3

\* The commit writes nothing and ends.
LEMMA RefusedMoves ==
    ASSUME IInv, NEW p \in Requests, Answer(p), UNCHANGED <<sub, current>>,
           UNCHANGED <<chain, prepared, rolledBack>>
    PROVE  Moves(p)
<1>1. UNCHANGED <<facility, updating, sent, anchored, prepared, rolledBack>>
  BY DEF chain
<1>2. Frame' /\ Grows
  BY <1>1, QuietFrame DEF IInv, Frame
<1>3. Sound(sub', anchored', rolledBack')
  BY <1>1, SubFacts
<1> QED  BY <1>2, <1>3, AnswerMoves

\* The commit marks the submission and ends or goes on.
LEMMA MarkMoves ==
    ASSUME IInv, NEW p \in Requests, NEW x \in {"committing", "committed", "failed"},
           HasBasis(p), CanFinish(Basis(p), p),
           request[p].step \in Concluding,
           x = "committed" => RootOf[request[p].about] \in anchored,
           Write([Basis(p) EXCEPT !.status = x, !.late = FALSE]),
           UNCHANGED <<chain, prepared, rolledBack>>,
           \/ Answer(p)
           \/ \E step \in {"begin", "build", "execute"}, mode \in Modes : Go(p, step, mode)
    PROVE  Moves(p)
<1>1. UNCHANGED <<facility, updating, sent, anchored, prepared, rolledBack>> /\ current' = {}
  BY DEF chain, Write
<1>2. Frame' /\ Grows
  BY <1>1, QuietFrame
<1>3. Sound(sub', anchored', rolledBack')
  <2>1. Sound(Basis(p), anchored, rolledBack)
    BY BasisFacts
  <2>2. /\ Basis(p).status # "not_started"
        /\ RootOf[Basis(p).computed] = RootOf[request[p].about]
    BY DEF CanFinish, SameRoot
  <2>3. x \in Statuses /\ x # "not_started"
    BY DEF Statuses
  <2>4. Sound([Basis(p) EXCEPT !.status = x, !.late = FALSE], anchored, rolledBack)
    BY <2>1, <2>2, <2>3, SoundMarked
  <2> QED  BY <1>1, <2>4 DEF Write
<1>4. CASE Answer(p)
  BY <1>2, <1>3, <1>4, AnswerMoves
<1>5. ASSUME NEW step \in {"begin", "build", "execute"}, NEW mode \in Modes, Go(p, step, mode)
      PROVE  Moves(p)
  <2> DEFINE r == Doing(step, mode, request[p].about, request[p].tx, NoSubmission, NoSubmission)
  <2>1. request' = [request EXCEPT ![p] = r]
    BY <1>5 DEF Go
  <2>2. request[p].about \in Contents /\ request[p].tx \in Contents /\ step \in Steps
    BY DEF IInv, Good, Steps
  <2>3. /\ r \in Request
        /\ r.step = step /\ r.about = request[p].about /\ r.tx = request[p].tx
        /\ r.copy = NoSubmission /\ r.before = NoSubmission
    BY <2>2, Zenon DEF Doing, Request
  <2> HIDE DEF r
  <2>4. Good(r, anchored', rolledBack')
    BY <2>2, <2>3 DEF Good, Copying, Replacing
  <2> QED  BY <1>2, <1>3, <2>1, <2>3, <2>4 DEF Moves
<1> QED  BY <1>4, <1>5

LEMMA BeginMoves ==
    ASSUME IInv, NEW p \in Requests, Begin(p)
    PROVE  Moves(p)
<1>1. CASE CanBegin(Basis(p), p) /\ CanBegin(sub, p)
  <2>1. CanFinish(Basis(p), p) /\ request[p].step \in Concluding
    BY <1>1 DEF CanBegin, CanFinish, Begin, Concluding
  <2>2. \E step \in {"begin", "build", "execute"}, mode \in Modes : Go(p, step, mode)
    <3>1. request[p].mode \in Modes
      BY DEF IInv, Request
    <3> QED  BY <1>1, <3>1 DEF Begin
  <2> QED  BY <1>1, <2>1, <2>2, MarkMoves DEF Begin
<1>2. CASE ~(CanBegin(Basis(p), p) /\ CanBegin(sub, p))
  BY <1>2, RefusedMoves DEF Begin
<1> QED  BY <1>1, <1>2

LEMMA CompleteCommitMoves ==
    ASSUME IInv, NEW p \in Requests, CompleteCommit(p)
    PROVE  Moves(p)
<1>1. RootOf[request[p].about] \in anchored /\ request[p].step \in Concluding
  BY DEF CompleteCommit, IInv, Good, Concluding
<1>2. CASE CanFinish(Basis(p), p) /\ CanFinish(sub, p)
  BY <1>1, <1>2, MarkMoves DEF CompleteCommit
<1>3. CASE ~(CanFinish(Basis(p), p) /\ CanFinish(sub, p))
  BY <1>3, RefusedMoves DEF CompleteCommit
<1> QED  BY <1>2, <1>3

LEMMA FailCommitMoves ==
    ASSUME IInv, NEW p \in Requests, FailCommit(p)
    PROVE  Moves(p)
<1>1. request[p].step \in Concluding /\ "prepare" \in Modes
  BY DEF FailCommit, Concluding, Modes
<1>2. CASE CanFinish(Basis(p), p) /\ CanFail(sub, p)
  BY <1>1, <1>2, MarkMoves DEF FailCommit
<1>3. CASE ~(CanFinish(Basis(p), p) /\ CanFail(sub, p))
  BY <1>3, RefusedMoves DEF FailCommit
<1> QED  BY <1>2, <1>3

LEMMA CrashMoves ==
    ASSUME IInv, NEW p \in Requests, Crash(p)
    PROVE  Moves(p)
<1> DEFINE r == request[p]
<1>1. Answer(p) /\ UNCHANGED <<sub, current, facility, anchored, prepared, rolledBack>>
  BY DEF Crash
<1>2. updating' \subseteq Requests \X Contents
  <2>1. updating' = updating \/ (r.step = "update" /\ updating' = updating \cup {<<p, r.copy.content>>})
    BY DEF Crash
  <2>2. r.step = "update" => r.copy.content \in Contents
    BY CopyFacts DEF Copying, Submission
  <2> QED  BY <2>1, <2>2 DEF IInv, Frame
<1>3. sent' \subseteq {RootOf[c] : c \in Contents}
  <2>1. sent' = sent \/ (r.step = "execute" /\ sent' = sent \cup ({RootOf[r.tx]} \ anchored))
    BY DEF Crash
  <2>2. r.step = "execute" => r.tx \in Contents
    BY DEF IInv, Good, Concluding
  <2> QED  BY <2>1, <2>2 DEF IInv, Frame
<1>4. Frame' /\ Grows
  BY <1>1, <1>2, <1>3 DEF IInv, Frame, Grows
<1>5. Sound(sub', anchored', rolledBack')
  BY <1>1, SubFacts
<1> QED  BY <1>1, <1>4, <1>5, AnswerMoves

-----------------------------------------------------------------------------
(* The network and time.                                                     *)

LEMMA EnvironmentInv ==
    ASSUME IInv, request' = request, Frame', Grows, Sound(sub', anchored', rolledBack')
    PROVE  IInv'
<1>1. ASSUME NEW p \in Requests
      PROVE  Good(request[p], anchored', rolledBack')
  <2>1. Good(request[p], anchored, rolledBack)
    BY DEF IInv
  <2>2. anchored \subseteq anchored' /\ (rolledBack => rolledBack')
    BY DEF Grows
  <2> QED  BY <2>1, <2>2, GoodGrows, SMT
<1> QED  BY <1>1 DEF IInv

LEMMA NetworkInv ==
    ASSUME IInv, Network
    PROVE  IInv'
<1>1. UNCHANGED <<sub, current, request, prepared, rolledBack>>
  BY DEF Network, Executed, Settle
<1>2. Frame' /\ Grows
  <2>1. ASSUME NEW root \in sent, Executed(root)
        PROVE  Frame' /\ Grows
    BY <2>1 DEF Executed, IInv, Frame, Grows
  <2>2. ASSUME NEW u \in updating, Settle(u)
        PROVE  Frame' /\ Grows
    <3>1. u[2] \in Contents
      BY DEF IInv, Frame
    <3> QED  BY <2>2, <3>1 DEF Settle, IInv, Frame, Grows
  <2> QED  BY <2>1, <2>2 DEF Network
<1>3. Sound(sub', anchored', rolledBack')
  BY <1>1, <1>2, SubFacts, SoundGrows DEF Grows
<1> QED  BY <1>1, <1>2, <1>3, EnvironmentInv

LEMMA TimeInv ==
    ASSUME IInv, AttemptTurnsStale \/ LockTurnsStale
    PROVE  IInv'
<1>1. UNCHANGED <<current, request, facility, updating, sent, anchored, prepared, rolledBack>>
  BY DEF AttemptTurnsStale, LockTurnsStale, chain
<1>2. Frame' /\ Grows
  BY <1>1, QuietFrame DEF IInv, Frame
<1>3. /\ sub' \in Submission
      /\ sub'.status = sub.status /\ sub'.content = sub.content /\ sub'.computed = sub.computed
      /\ sub'.lock = sub.lock
      /\ sub'.late => sub.status = "committing"
      /\ sub'.lockLate => sub.lock # NoRequest
  <2>1. CASE AttemptTurnsStale
    <3>1. sub' = [sub EXCEPT !.late = TRUE] /\ sub.status = "committing"
      BY <2>1 DEF AttemptTurnsStale
    <3> QED  BY <3>1, SubFacts, LateFields DEF WellFormed
  <2>2. CASE LockTurnsStale
    <3>1. sub' = [sub EXCEPT !.lockLate = TRUE] /\ sub.lock # NoRequest
      BY <2>2 DEF LockTurnsStale
    <3> QED  BY <3>1, SubFacts, LockLateFields DEF WellFormed
  <2> QED  BY <2>1, <2>2
<1>4. WellFormed(sub')
  BY <1>3, SubFacts DEF WellFormed
<1>5. Sound(sub', anchored', rolledBack')
  BY <1>1, <1>3, <1>4, SubFacts, Zenon DEF Sound, Backed, Fits, Recounts
<1> QED  BY <1>1, <1>2, <1>5, EnvironmentInv

-----------------------------------------------------------------------------
(* The invariant.                                                            *)

LEMMA InitInv == Init => IInv
<1> SUFFICES ASSUME Init PROVE IInv
  OBVIOUS
<1>1. PICK c \in Contents :
          sub = [status |-> "not_started", content |-> c, computed |-> NoContent,
                 late |-> FALSE, lock |-> NoRequest, lockLate |-> FALSE]
  BY DEF Init
<1>2. WellFormed(sub)
  BY <1>1 DEF WellFormed, Submission, Statuses
<1>3. Sound(sub, anchored, rolledBack)
  BY <1>1, <1>2 DEF Sound, Backed, Fits
<1>4. Frame
  BY DEF Init, Frame
<1>5. request = [p \in Requests |-> Idle]
  BY DEF Init
<1> QED
  BY <1>3, <1>4, <1>5, GoodIdle DEF IInv

LEMMA StepInv == IInv /\ [Next]_vars => IInv'
<1> SUFFICES ASSUME IInv, [Next]_vars PROVE IInv'
  OBVIOUS
<1>1. ASSUME NEW p \in Requests, Editing(p)
      PROVE  IInv'
  <2>1. Moves(p)
    BY <1>1, EditMoves, SaveMoves, UploadMoves, ReserveMoves, UploadedMoves,
       UploadFailsMoves, RestoreMoves, GiveUpMoves DEF Editing
  <2> QED  BY <2>1, MoveInv
<1>2. ASSUME NEW p \in Requests, Computing(p)
      PROVE  IInv'
  <2>1. Moves(p)
    BY <1>2, ComputeMoves, ClaimMoves, UpdateFacilityMoves, StoreUpdateMoves, FailUpdateMoves
       DEF Computing
  <2> QED  BY <2>1, MoveInv
<1>3. ASSUME NEW p \in Requests, Opening(p)
      PROVE  IInv'
  BY <1>3, OpeningMoves, MoveInv
<1>4. ASSUME NEW p \in Requests, Committing(p)
      PROVE  IInv'
  <2>1. Moves(p)
    BY <1>4, SeekMoves, ExecuteMoves, BuildMoves, ReadMoves, BeginMoves, CompleteCommitMoves,
       FailCommitMoves DEF Committing, Storing
  <2> QED  BY <2>1, MoveInv
<1>5. ASSUME NEW p \in Requests, Crash(p)
      PROVE  IInv'
  BY <1>5, CrashMoves, MoveInv
<1>6. CASE UNCHANGED vars
  <2>1. UNCHANGED <<sub, current, request, facility, updating, sent, anchored, prepared, rolledBack>>
    BY <1>6 DEF vars
  <2>2. Frame' /\ Grows
    BY <2>1, QuietFrame DEF IInv, Frame
  <2> QED  BY <2>1, <2>2, SubFacts, EnvironmentInv
<1> QED
  BY <1>1, <1>2, <1>3, <1>4, <1>5, <1>6, NetworkInv, TimeInv DEF Next

LEMMA Invariant == Spec => []IInv
BY InitInv, StepInv, PTL DEF Spec

\* Every component of the state stays in its type, and the stored status, its
\* computation and the two stale marks stay consistent.
THEOREM TypeCorrect == Spec => []TypeOK
<1>1. IInv => TypeOK
  BY DEF IInv, Frame, Sound, WellFormed, TypeOK
<1> QED  BY <1>1, Invariant, PTL

\* No interleaving of attempts, takeovers, late executions and crashes stores a
\* commitment whose root has no EvidenceCommitted event on Sui.
THEOREM CommittedAlwaysAnchored == Spec => []CommittedIsAnchored
<1>1. IInv => CommittedIsAnchored
  BY DEF IInv, Sound, Backed, CommittedIsAnchored
<1> QED  BY <1>1, Invariant, PTL

\* A submission never shows the computation of a content it no longer has, except
\* one that a failed upload has put back, of as many evidence records.
THEOREM ComputedAlwaysCurrent == Spec => []ComputedIsCurrent
<1>1. IInv => ComputedIsCurrent
  BY Zenon DEF IInv, Sound, Fits, Recounts, ComputedIsCurrent
<1> QED  BY <1>1, Invariant, PTL

-----------------------------------------------------------------------------
(* An attempt freezes the content.  Contents are told apart by root and by    *)
(* number of evidence records, and facility updates end before their lock is  *)
(* stale.                                                                     *)

Distinct == \A c, d \in Contents : RootOf[c] = RootOf[d] \/ Count[c] = Count[d] => c = d

Saving   == {"save", "reserve", "restore"}
Updating(r) == r.step \in {"update", "store"}

\* A request whose copy is current found no attempt, and nobody else at work.
Waits(r) ==
    /\ r.step \in Saving \cup {"claim"} => sub.status \notin Attempt
    /\ r.step \in {"save", "reserve"} => sub.lock = NoRequest \/ sub.lockLate
    /\ r.step \in Saving => r.copy.status \notin Attempt
    /\ r.step \in {"restore", "claim"} => r.copy.content = sub.content
    /\ r.step = "restore" => r.copy.lock = sub.lock /\ (r.copy.lockLate => sub.lockLate)

\* A facility update is of the content that is stored, until its lock is released.
Holds(p) ==
    /\ request[p].copy.content = sub.content
    /\ (sub.lock = p /\ ~sub.lockLate) \/ sub.status = "committed"

FreezeInv ==
    /\ \A p \in current : Waits(request[p])
    /\ \A p \in Requests : Updating(request[p]) => Holds(p)
    /\ \A p, q \in Requests : Updating(request[p]) /\ Updating(request[q]) => p = q
    /\ sub.status = "committing" => sub.lock = NoRequest

Frozen == sub.status \in Attempt => sub'.content = sub.content

\* What a request does at its next step, with the copy it has.
Continues(p, steps) ==
    \E r : /\ request' = [request EXCEPT ![p] = r]
           /\ r.step \in steps
           /\ r.copy = request[p].copy \/ ~Updating(r)

\* The submission stays as it is and p does not begin to wait.
LEMMA CalmStep ==
    ASSUME IInv, FreezeInv, NEW p \in Requests, sub' = sub, current' \subseteq current,
           Continues(p, Steps \ (Saving \cup {"claim"})),
           Updating(request'[p]) => Updating(request[p])
    PROVE  FreezeInv' /\ Frozen
<1>1. PICK r : /\ request' = [request EXCEPT ![p] = r]
               /\ r.step \notin Saving \cup {"claim"}
               /\ r.copy = request[p].copy \/ ~Updating(r)
  BY DEF Continues
<1>2. request'[p] = r /\ \A q \in Requests : q # p => request'[q] = request[q]
  BY <1>1 DEF IInv
<1>3. \A q \in current' : Waits(request[q])'
  <2> SUFFICES ASSUME NEW q \in current' PROVE Waits(request[q])'
    OBVIOUS
  <2>1. CASE q = p
    BY <1>1, <1>2, <2>1 DEF Waits, Saving
  <2>2. CASE q # p
    BY <1>2, <2>2 DEF Waits, FreezeInv, IInv, Frame
  <2> QED  BY <2>1, <2>2
<1>4. \A q \in Requests : Updating(request'[q]) =>
          Updating(request[q]) /\ request'[q].copy = request[q].copy
  BY <1>1, <1>2
<1>5. \A q \in Requests : Updating(request'[q]) => Holds(q)'
  BY <1>4 DEF FreezeInv, Holds
<1>6. \A q, s \in Requests : Updating(request'[q]) /\ Updating(request'[s]) => q = s
  BY <1>4 DEF FreezeInv
<1> QED
  BY <1>3, <1>5, <1>6 DEF FreezeInv, Frozen, Updating

\* Nobody's copy is current and p is not updating, after what p writes.
LEMMA WrittenStep ==
    ASSUME IInv, FreezeInv, NEW p \in Requests, current' = {},
           Continues(p, Steps \ {"update", "store"}),
           \A q \in Requests : q # p /\ Updating(request[q]) =>
               request[q].copy.content = sub'.content
               /\ ((sub'.lock = q /\ ~sub'.lockLate) \/ sub'.status = "committed"),
           sub'.status = "committing" => sub'.lock = NoRequest
    PROVE  FreezeInv'
<1>1. PICK r : request' = [request EXCEPT ![p] = r] /\ ~Updating(r)
  BY DEF Continues, Updating
<1>2. request'[p] = r /\ \A q \in Requests : q # p => request'[q] = request[q]
  BY <1>1 DEF IInv
<1>3. \A q \in Requests : Updating(request'[q]) => q # p /\ Updating(request[q])
  BY <1>1, <1>2
<1>4. \A q \in Requests : Updating(request'[q]) => Holds(q)'
  BY <1>2, <1>3 DEF Holds
<1>5. \A q, s \in Requests : Updating(request'[q]) /\ Updating(request'[s]) => q = s
  BY <1>3 DEF FreezeInv
<1> QED
  BY <1>4, <1>5 DEF FreezeInv, Updating

LEMMA AnswerContinues ==
    ASSUME IInv, NEW p \in Requests, Answer(p)
    PROVE  /\ Continues(p, {"idle"}) /\ ~Updating(request'[p])
           /\ Continues(p, Steps \ {"update", "store"})
           /\ Continues(p, Steps \ (Saving \cup {"claim"}))
<1>1. Idle.step = "idle" /\ request' = [request EXCEPT ![p] = Idle]
  BY DEF Idle, Doing, Answer
<1>2. ~Updating(Idle)
  BY <1>1 DEF Updating
<1> QED
  BY <1>1, <1>2 DEF Continues, Steps, Saving, IInv

\* A request that ends and leaves the submission alone.
LEMMA EndStep ==
    ASSUME IInv, FreezeInv, NEW p \in Requests, Answer(p), sub' = sub, current' \subseteq current
    PROVE  FreezeInv' /\ Frozen
BY AnswerContinues, CalmStep

\* A request that takes one of the steps of a commit.
LEMMA ConcludingStep ==
    ASSUME IInv, FreezeInv, NEW p \in Requests, NEW step \in Concluding \cup {"unclaim", "keep_claim"},
           Step(p, step), sub' = sub, current' = current
    PROVE  FreezeInv' /\ Frozen
<1> DEFINE r == [request[p] EXCEPT !.step = step]
<1>1. request[p] \in Request /\ step \in Steps
  BY DEF IInv, Concluding, Steps
<1>2. r.step = step /\ r.copy = request[p].copy
  BY <1>1, SteppedFields
<1>3. request' = [request EXCEPT ![p] = r] /\ request'[p] = r
  BY DEF Step, IInv
<1> HIDE DEF r
<1>4. step \notin Saving \cup {"claim"} /\ ~Updating(r)
  BY <1>2 DEF Concluding, Saving, Updating
<1>5. Continues(p, Steps \ (Saving \cup {"claim"}))
  BY <1>1, <1>2, <1>3, <1>4 DEF Continues
<1> QED  BY <1>3, <1>4, <1>5, CalmStep

\* A request that reads the submission to save it.
LEMMA LoadStep ==
    ASSUME IInv, FreezeInv, NEW p \in Requests, NEW step \in Saving \cup {"claim"},
           NEW copy, NEW before, Load(p, step, copy, before),
           sub.status \notin Attempt,
           step \in {"save", "reserve"} => sub.lock = NoRequest \/ sub.lockLate,
           step \in Saving => copy.status \notin Attempt,
           step \in {"restore", "claim"} => copy.content = sub.content,
           step = "restore" => copy.lock = sub.lock /\ (copy.lockLate => sub.lockLate)
    PROVE  FreezeInv' /\ Frozen
<1> DEFINE r == Doing(step, "none", NoContent, NoContent, copy, before)
<1>1. r.step = step /\ r.copy = copy
  BY DEF Doing
<1>2. /\ request' = [request EXCEPT ![p] = r]
      /\ current' \subseteq current \cup {p} /\ sub' = sub
  BY DEF Load
<1> HIDE DEF r
<1>3. request'[p] = r /\ \A q \in Requests : q # p => request'[q] = request[q]
  BY <1>2 DEF IInv
<1>4. ~Updating(r)
  BY <1>1 DEF Updating, Saving
<1>5. \A q \in current' : Waits(request[q])'
  <2> SUFFICES ASSUME NEW q \in current' PROVE Waits(request[q])'
    OBVIOUS
  <2>1. CASE q = p
    BY <1>1, <1>2, <1>3, <2>1 DEF Waits, Saving
  <2>2. CASE q # p
    BY <1>2, <1>3, <2>2 DEF Waits, FreezeInv, IInv, Frame
  <2> QED  BY <2>1, <2>2
<1>6. \A q \in Requests : Updating(request'[q]) => q # p /\ Updating(request[q])
  BY <1>3, <1>4
<1>7. \A q \in Requests : Updating(request'[q]) => Holds(q)'
  BY <1>2, <1>3, <1>6 DEF FreezeInv, Holds
<1>8. \A q, s \in Requests : Updating(request'[q]) /\ Updating(request'[s]) => q = s
  BY <1>6 DEF FreezeInv
<1> QED
  BY <1>2, <1>5, <1>7, <1>8 DEF FreezeInv, Frozen, Updating

LEMMA LoadingStep ==
    ASSUME IInv, FreezeInv, NEW p \in Requests,
           Edit(p) \/ Upload(p) \/ Uploaded(p) \/ UploadFails(p) \/ Compute(p)
    PROVE  FreezeInv' /\ Frozen
<1> USE SubFacts DEF Saving
<1>1. ASSUME NEW c \in Contents, NEW step \in {"save", "reserve"}, NEW before,
             Mutable(sub), Load(p, step, Invalidated(sub, c), before)
      PROVE  FreezeInv' /\ Frozen
  <2>1. sub.status \notin Attempt /\ (sub.lock = NoRequest \/ sub.lockLate)
    BY <1>1 DEF Mutable, Attempt
  <2>2. Invalidated(sub, c).status \notin Attempt
    BY InvalidatedFields DEF Attempt
  <2> QED  BY <1>1, <2>1, <2>2, LoadStep
<1>2. CASE Edit(p)
  BY <1>1, <1>2 DEF Edit
<1>3. CASE Upload(p)
  BY <1>1, <1>3 DEF Upload
<1>4. CASE Uploaded(p)
  BY <1>1, <1>4 DEF Uploaded
<1>5. CASE UploadFails(p)
  <2> DEFINE before == request[p].before
             t == [sub EXCEPT !.status = before.status, !.computed = before.computed]
  <2>1. before \in Submission /\ before.status \notin Attempt
    BY <1>5, BeforeFacts DEF UploadFails, Replacing
  <2>2. sub.status \notin Attempt
    <3>1. Artifacts(sub) = Artifacts(Invalidated(before, before.content))
      BY <1>5 DEF UploadFails
    <3>2. before.content \in Contents
      BY <2>1 DEF Submission
    <3> QED  BY <2>1, <3>1, <3>2, InvalidatedFields DEF Artifacts, Attempt
  <2>3. /\ t.status = before.status /\ t.content = sub.content
        /\ t.lock = sub.lock /\ t.lockLate = sub.lockLate
    BY <2>1, RestoredFields
  <2>4. Load(p, "restore", t, NoSubmission)
    BY <1>5 DEF UploadFails
  <2> HIDE DEF t, before
  <2> QED  BY <2>1, <2>2, <2>3, <2>4, LoadStep
<1>6. CASE Compute(p)
  <2>1. sub.status \notin Attempt /\ Load(p, "claim", Computed(sub), NoSubmission)
    BY <1>6 DEF Compute, Mutable, Attempt
  <2>2. Computed(sub).content = sub.content
    BY ComputedFields
  <2> QED  BY <2>1, <2>2, LoadStep
<1> QED  BY <1>2, <1>3, <1>4, <1>5, <1>6

\* While a facility update is under way, nobody else may save or claim.
LEMMA NobodyUpdates ==
    ASSUME IInv, FreezeInv, NEW p \in Requests, p \in current,
           request[p].step \in {"save", "reserve", "claim"},
           request[p].step = "claim" => sub.lock = NoRequest \/ sub.lockLate,
           NEW q \in Requests, Updating(request[q])
    PROVE  FALSE
<1>1. Waits(request[p]) /\ Holds(q)
  BY DEF FreezeInv
<1>2. q # NoRequest
  BY RequestAssumption
<1> QED
  BY <1>1, <1>2 DEF Waits, Holds, Saving, Attempt

LEMMA SavingStep ==
    ASSUME IInv, FreezeInv, NEW p \in Requests, Save(p) \/ Reserve(p)
    PROVE  FreezeInv' /\ Frozen
<1>1. request[p].step \in {"save", "reserve"}
  BY DEF Save, Reserve
<1>2. CASE CanSave(p)
  <2>1. p \in current /\ sub' = request[p].copy /\ current' = {}
    BY <1>2 DEF CanSave, Save, Reserve, Write
  <2>2. sub.status \notin Attempt /\ request[p].copy.status \notin Attempt
    BY <1>1, <2>1 DEF FreezeInv, Waits, Saving
  <2>3. \A q \in Requests : ~Updating(request[q])
    BY <1>1, <2>1, NobodyUpdates
  <2>4. Continues(p, Steps \ {"update", "store"})
    <3>1. CASE Answer(p)
      BY <3>1, AnswerContinues
    <3>2. CASE ~Answer(p)
      <4> DEFINE r == Doing("upload", "none", NoContent, NoContent, NoSubmission, request[p].before)
      <4>1. request' = [request EXCEPT ![p] = r]
        BY <1>2, <3>2 DEF Save, Reserve
      <4>2. r.step = "upload"
        BY DEF Doing
      <4> HIDE DEF r
      <4> QED  BY <4>1, <4>2 DEF Continues, Updating, Steps
    <3> QED  BY <3>1, <3>2
  <2>5. FreezeInv'
    BY <2>1, <2>2, <2>3, <2>4, WrittenStep DEF Attempt
  <2> QED  BY <2>2, <2>5 DEF Frozen
<1>3. CASE ~CanSave(p)
  <2>1. Answer(p) /\ sub' = sub /\ current' = current
    BY <1>3 DEF Save, Reserve
  <2> QED  BY <2>1, EndStep
<1> QED  BY <1>2, <1>3

LEMMA RestoreStep ==
    ASSUME IInv, FreezeInv, NEW p \in Requests, Restore(p)
    PROVE  FreezeInv' /\ Frozen
<1>1. request[p].step = "restore" /\ Answer(p)
  BY DEF Restore
<1>2. CASE CanSave(p)
  <2>1. p \in current /\ sub' = request[p].copy /\ current' = {}
    BY <1>2 DEF CanSave, Restore, Write
  <2>2. /\ sub.status \notin Attempt /\ sub'.status \notin Attempt
        /\ sub'.content = sub.content
        /\ sub'.lock = sub.lock /\ (sub'.lockLate => sub.lockLate)
    BY <1>1, <2>1 DEF FreezeInv, Waits, Saving
  <2>3. \A q \in Requests : Updating(request[q]) =>
            request[q].copy.content = sub'.content /\ sub'.lock = q /\ ~sub'.lockLate
    BY <2>2 DEF FreezeInv, Holds, Attempt
  <2>4. FreezeInv'
    BY <1>1, <2>1, <2>2, <2>3, AnswerContinues, WrittenStep DEF Attempt
  <2> QED  BY <2>2, <2>4 DEF Frozen
<1>3. CASE ~CanSave(p)
  BY <1>1, <1>3, EndStep DEF Restore
<1> QED  BY <1>2, <1>3

LEMMA ClaimStep ==
    ASSUME IInv, FreezeInv, NEW p \in Requests, Claim(p)
    PROVE  FreezeInv' /\ Frozen
<1>1. CASE MayClaim(p)
  <2> DEFINE r == [request[p] EXCEPT !.step = "update"]
  <2>1. /\ p \in current /\ request[p].step = "claim"
        /\ sub.lock = NoRequest \/ sub.lockLate
        /\ sub' = [sub EXCEPT !.lock = p, !.lockLate = FALSE] /\ current' = {}
        /\ Step(p, "update")
    BY <1>1 DEF Claim, MayClaim, CanSave, Write
  <2>2. /\ sub'.status = sub.status /\ sub'.content = sub.content
        /\ sub'.lock = p /\ sub'.lockLate = FALSE
    BY <2>1, SubFacts, ClaimedFields
  <2>3. sub.status \notin Attempt /\ request[p].copy.content = sub.content
    BY <2>1 DEF FreezeInv, Waits
  <2>4. \A q \in Requests : ~Updating(request[q])
    BY <2>1, NobodyUpdates
  <2>5. r.step = "update" /\ r.copy = request[p].copy
    <3>1. request[p] \in Request /\ "update" \in Steps
      BY DEF IInv, Steps
    <3> QED  BY <3>1, SteppedFields
  <2>6. request' = [request EXCEPT ![p] = r]
    BY <2>1 DEF Step
  <2> HIDE DEF r
  <2>7. request'[p] = r /\ \A q \in Requests : q # p => request'[q] = request[q]
    BY <2>6 DEF IInv
  <2>8. \A q \in Requests : Updating(request'[q]) => q = p
    BY <2>4, <2>7
  <2>9. Holds(p)'
    BY <2>2, <2>3, <2>5, <2>7 DEF Holds
  <2>10. FreezeInv'
    BY <2>1, <2>2, <2>3, <2>8, <2>9 DEF FreezeInv, Updating, Attempt
  <2> QED  BY <2>3, <2>10 DEF Frozen
<1>2. CASE ~MayClaim(p)
  BY <1>2, EndStep DEF Claim
<1> QED  BY <1>1, <1>2

LEMMA UpdateFacilityStep ==
    ASSUME IInv, FreezeInv, NEW p \in Requests, UpdateFacility(p)
    PROVE  FreezeInv' /\ Frozen
<1>1. request[p].step = "update" /\ sub' = sub /\ current' = current
  BY DEF UpdateFacility
<1>2. CASE Step(p, "store")
  <2> DEFINE r == [request[p] EXCEPT !.step = "store"]
  <2>1. r.step = "store" /\ r.copy = request[p].copy
    <3>1. request[p] \in Request /\ "store" \in Steps
      BY DEF IInv, Steps
    <3> QED  BY <3>1, SteppedFields
  <2>2. request' = [request EXCEPT ![p] = r]
    BY <1>2 DEF Step
  <2> HIDE DEF r
  <2>3. Continues(p, Steps \ (Saving \cup {"claim"}))
    BY <2>1, <2>2 DEF Continues, Steps, Saving
  <2>4. Updating(request[p])
    BY <1>1 DEF Updating
  <2> QED  BY <1>1, <2>3, <2>4, CalmStep
<1>3. CASE Step(p, "unclaim") \/ Step(p, "keep_claim")
  BY <1>1, <1>3, ConcludingStep
<1> QED  BY <1>2, <1>3 DEF UpdateFacility

LEMMA StoreUpdateStep ==
    ASSUME IInv, FreezeInv, NEW p \in Requests, StoreUpdate(p)
    PROVE  FreezeInv' /\ Frozen
<1>1. Updating(request[p]) /\ Answer(p) /\ request[p].step \in Copying
  BY DEF StoreUpdate, Updating, Copying
<1>2. CASE sub.lock = p
  <2>1. sub' = Unlocked(request[p].copy) /\ current' = {}
    BY <1>2 DEF StoreUpdate, Write
  <2>2. sub'.content = request[p].copy.content /\ sub'.lock = NoRequest
    BY <1>1, <2>1, CopyFacts, UnlockedFields
  <2>3. \A q \in Requests : q # p => ~Updating(request[q])
    BY <1>1 DEF FreezeInv
  <2>4. FreezeInv'
    BY <1>1, <2>1, <2>2, <2>3, AnswerContinues, WrittenStep
  <2>5. sub'.content = sub.content
    BY <1>1, <2>2 DEF FreezeInv, Holds
  <2> QED  BY <2>4, <2>5 DEF Frozen
<1>3. CASE sub.lock # p
  BY <1>1, <1>3, EndStep DEF StoreUpdate
<1> QED  BY <1>2, <1>3

LEMMA FailUpdateStep ==
    ASSUME IInv, FreezeInv, NEW p \in Requests, FailUpdate(p)
    PROVE  FreezeInv' /\ Frozen
<1>1. Answer(p)
  BY DEF FailUpdate
<1>2. CASE sub.lock = p
  <2>1. current' = {} /\ (sub' = Unlocked(sub) \/ sub' = sub)
    BY <1>2 DEF FailUpdate, Released, Write
  <2>2. /\ sub'.content = sub.content /\ sub'.status = sub.status
        /\ sub'.lock = NoRequest \/ sub'.lock = sub.lock
    BY <2>1, SubFacts, UnlockedFields
  <2>3. \A q \in Requests : q # p /\ Updating(request[q]) =>
            request[q].copy.content = sub'.content /\ sub'.status = "committed"
    BY <1>2, <2>2 DEF FreezeInv, Holds
  <2>4. FreezeInv'
    <3>1. sub'.status = "committing" => sub'.lock = NoRequest
      BY <2>2 DEF FreezeInv
    <3> QED  BY <1>1, <2>1, <2>3, <3>1, AnswerContinues, WrittenStep
  <2> QED  BY <2>2, <2>4 DEF Frozen
<1>3. CASE sub.lock # p
  BY <1>1, <1>3, EndStep DEF FailUpdate
<1> QED  BY <1>2, <1>3

LEMMA OpenStep ==
    ASSUME IInv, FreezeInv, NEW p \in Requests, Opening(p)
    PROVE  FreezeInv' /\ Frozen
<1>1. PICK step \in Concluding : \E mode, tx : Open(p, mode, step, tx)
  <2>1. CASE TakeOver(p)
    BY <2>1 DEF TakeOver, Concluding
  <2>2. CASE CompleteSigned(p)
    BY <2>2 DEF CompleteSigned, Concluding
  <2>3. CASE Prepare(p) \/ SignWithPrivy(p) \/ Complete(p) \/ Release(p)
    BY <2>3 DEF Prepare, SignWithPrivy, Complete, Release, Concluding
  <2> QED  BY <2>1, <2>2, <2>3 DEF Opening
<1>2. PICK mode, tx : Open(p, mode, step, tx)
  BY <1>1
<1> DEFINE r == Doing(step, mode, sub.computed, tx, NoSubmission, NoSubmission)
<1>3. request' = [request EXCEPT ![p] = r] /\ sub' = sub /\ current' = current
  BY <1>2 DEF Open
<1>4. r.step = step
  BY DEF Doing
<1> HIDE DEF r
<1>5. ~Updating(r) /\ step \in Steps \ (Saving \cup {"claim"})
  BY <1>4 DEF Updating, Concluding, Steps, Saving
<1>6. Continues(p, Steps \ (Saving \cup {"claim"}))
  BY <1>3, <1>4, <1>5 DEF Continues
<1>7. request'[p] = r
  BY <1>3 DEF IInv
<1> QED  BY <1>3, <1>5, <1>6, <1>7, CalmStep

LEMMA SeekStep ==
    ASSUME IInv, FreezeInv, NEW p \in Requests,
           Reconcile(p) \/ LookUp(p) \/ Execute(p) \/ Build(p)
    PROVE  FreezeInv' /\ Frozen
<1>1. sub' = sub /\ current' = current
  BY DEF Reconcile, LookUp, Execute, Build, Proceed
<1>2. Answer(p) \/ \E step \in Concluding : Step(p, step)
  BY DEF Reconcile, LookUp, Execute, Build, Proceed, Concluding
<1> QED  BY <1>1, <1>2, EndStep, ConcludingStep

LEMMA ReadStep ==
    ASSUME IInv, FreezeInv, NEW p \in Requests, Read(p)
    PROVE  FreezeInv' /\ Frozen
<1> DEFINE r == [request[p] EXCEPT !.copy = sub]
<1>1. /\ request[p] \in Request
      /\ request[p].step \in {"begin", "complete", "fail"}
      /\ request' = [request EXCEPT ![p] = r] /\ sub' = sub /\ current' = current
  BY DEF Read, IInv
<1>2. r.step = request[p].step
  BY <1>1, SubFacts, ReadFields
<1> HIDE DEF r
<1>3. ~Updating(r) /\ request'[p] = r
  BY <1>1, <1>2 DEF Updating, IInv
<1>4. Continues(p, Steps \ (Saving \cup {"claim"}))
  BY <1>1, <1>2, <1>3 DEF Continues, Steps, Saving
<1> QED  BY <1>1, <1>3, <1>4, CalmStep

LEMMA Aligned ==
    ASSUME NEW s, NEW A, NEW b, Sound(s, A, b), Distinct, s.status # "not_started"
    PROVE  s.computed \in Contents /\ s.content = s.computed
<1>1. s \in Submission /\ s.computed # NoContent
  BY DEF Sound, WellFormed
<1>2. s.computed \in Contents /\ s.content \in Contents
  BY <1>1 DEF Submission
<1>3. s.computed = s.content \/ Count[s.computed] = Count[s.content]
  BY <1>1, Zenon DEF Sound, Fits, Recounts
<1> QED  BY <1>2, <1>3 DEF Distinct

\* What a commit stores has the content that is stored already.
LEMMA SameContent ==
    ASSUME IInv, Distinct, NEW p \in Requests, HasBasis(p), request[p].step \in Concluding,
           CanFinish(Basis(p), p), CanFinish(sub, p), NEW x \in Statuses
    PROVE  LET t == [Basis(p) EXCEPT !.status = x, !.late = FALSE] IN
           t.content = sub.content /\ t.status = x /\ t.lock = Basis(p).lock
<1>1. Sound(Basis(p), anchored, rolledBack) /\ Sound(sub, anchored, rolledBack)
  BY BasisFacts, SubFacts
<1>2. /\ Basis(p).status # "not_started" /\ sub.status # "not_started"
      /\ RootOf[Basis(p).computed] = RootOf[sub.computed]
  BY DEF CanFinish, SameRoot
<1>3. /\ Basis(p).computed \in Contents /\ Basis(p).content = Basis(p).computed
      /\ sub.computed \in Contents /\ sub.content = sub.computed
  BY <1>1, <1>2, Aligned
<1>4. Basis(p).content = sub.content
  BY <1>2, <1>3 DEF Distinct
<1>5. Basis(p) \in Submission
  BY <1>1 DEF Sound, WellFormed
<1> QED  BY <1>4, <1>5, MarkedFields

LEMMA GoContinues ==
    ASSUME NEW p \in Requests, NEW step \in {"begin", "build", "execute"}, NEW mode,
           Go(p, step, mode), IInv
    PROVE  Continues(p, Steps \ {"update", "store"})
<1> DEFINE r == Doing(step, mode, request[p].about, request[p].tx, NoSubmission, NoSubmission)
<1>1. request' = [request EXCEPT ![p] = r]
  BY DEF Go
<1>2. r.step = step
  BY DEF Doing
<1> HIDE DEF r
<1>3. ~Updating(r) /\ r.step \in Steps \ {"update", "store"}
  BY <1>2 DEF Updating, Steps
<1> QED  BY <1>1, <1>3 DEF Continues

LEMMA BeginStep ==
    ASSUME IInv, FreezeInv, Distinct, NEW p \in Requests, Begin(p)
    PROVE  FreezeInv' /\ Frozen
<1>1. CASE CanBegin(Basis(p), p) /\ CanBegin(sub, p)
  <2>1. /\ CanFinish(Basis(p), p) /\ CanFinish(sub, p) /\ request[p].step \in Concluding
        /\ HasBasis(p) /\ "committing" \in Statuses
        /\ sub' = [Basis(p) EXCEPT !.status = "committing", !.late = FALSE] /\ current' = {}
        /\ sub.lock = NoRequest /\ Basis(p).lock = NoRequest /\ sub.status # "committed"
    BY <1>1 DEF CanBegin, CanFinish, Begin, Write, Concluding, Statuses
  <2>2. sub'.content = sub.content /\ sub'.lock = NoRequest
    BY <2>1, SameContent
  <2>3. \A q \in Requests : ~Updating(request[q])
    BY <2>1, RequestAssumption DEF FreezeInv, Holds
  <2>4. Continues(p, Steps \ {"update", "store"})
    BY <1>1, GoContinues DEF Begin
  <2>5. FreezeInv'
    BY <2>1, <2>2, <2>3, <2>4, WrittenStep
  <2> QED  BY <2>2, <2>5 DEF Frozen
<1>2. CASE ~(CanBegin(Basis(p), p) /\ CanBegin(sub, p))
  BY <1>2, EndStep DEF Begin
<1> QED  BY <1>1, <1>2

LEMMA CompleteCommitStep ==
    ASSUME IInv, FreezeInv, Distinct, NEW p \in Requests, CompleteCommit(p)
    PROVE  FreezeInv' /\ Frozen
<1>1. CASE CanFinish(Basis(p), p) /\ CanFinish(sub, p)
  <2>1. /\ request[p].step \in Concluding /\ HasBasis(p) /\ "committed" \in Statuses
        /\ sub' = [Basis(p) EXCEPT !.status = "committed", !.late = FALSE] /\ current' = {}
    BY <1>1 DEF CompleteCommit, Write, Concluding, Statuses
  <2>2. sub'.content = sub.content /\ sub'.status = "committed"
    BY <1>1, <2>1, SameContent
  <2>3. \A q \in Requests : Updating(request[q]) =>
            request[q].copy.content = sub'.content /\ sub'.status = "committed"
    BY <2>2 DEF FreezeInv, Holds
  <2>4. Continues(p, Steps \ {"update", "store"})
    BY AnswerContinues DEF CompleteCommit
  <2>5. FreezeInv'
    BY <2>1, <2>2, <2>3, <2>4, WrittenStep
  <2> QED  BY <2>2, <2>5 DEF Frozen
<1>2. CASE ~(CanFinish(Basis(p), p) /\ CanFinish(sub, p))
  BY <1>2, EndStep DEF CompleteCommit
<1> QED  BY <1>1, <1>2

\* The file store fails what it holds; Postgres only an attempt, which no
\* facility update lets begin.
LEMMA FailCommitStep ==
    ASSUME IInv, FreezeInv, Distinct, NEW p \in Requests, FailCommit(p)
    PROVE  FreezeInv' /\ Frozen
<1>1. CASE CanFinish(Basis(p), p) /\ CanFail(sub, p)
  <2> DEFINE t == [Basis(p) EXCEPT !.status = "failed", !.late = FALSE]
  <2>1. /\ request[p].step \in Concluding /\ HasBasis(p) /\ "failed" \in Statuses
        /\ CanFinish(sub, p) /\ sub' = t /\ current' = {}
    BY <1>1 DEF FailCommit, CanFail, Write, Concluding, Statuses
  <2>2. sub'.content = sub.content /\ sub'.status = "failed"
    BY <1>1, <2>1, SameContent
  <2>3. \A q \in Requests : Updating(request[q]) =>
            /\ request[q].copy.content = sub'.content
            /\ sub'.lock = q /\ ~sub'.lockLate
    <3> SUFFICES ASSUME NEW q \in Requests, Updating(request[q])
                 PROVE  /\ request[q].copy.content = sub'.content
                        /\ sub'.lock = q /\ ~sub'.lockLate
      OBVIOUS
    <3>1. Holds(q) /\ sub.status # "committed"
      BY <2>1 DEF FreezeInv, CanFinish
    <3>2. sub.status # "committing"
      BY <3>1, RequestAssumption DEF FreezeInv, Holds
    <3>3. AtomicStore
      BY <1>1, <3>2 DEF CanFail
    <3>4. t.lock = sub.lock /\ t.lockLate = sub.lockLate
      <4>1. t = [sub EXCEPT !.status = "failed", !.late = FALSE]
        BY <3>3 DEF Basis
      <4>2. sub \in Submission /\ "failed" \in Statuses
        BY <2>1, SubFacts
      <4> HIDE DEF t
      <4> QED  BY <4>1, <4>2, MarkedFields
    <3> QED  BY <2>1, <2>2, <3>1, <3>4 DEF Holds
  <2>4. Continues(p, Steps \ {"update", "store"})
    BY <1>1, AnswerContinues, GoContinues DEF FailCommit
  <2>5. FreezeInv'
    BY <2>1, <2>2, <2>3, <2>4, WrittenStep
  <2> QED  BY <2>2, <2>5 DEF Frozen
<1>2. CASE ~(CanFinish(Basis(p), p) /\ CanFail(sub, p))
  BY <1>2, EndStep DEF FailCommit
<1> QED  BY <1>1, <1>2

LEMMA CrashStep ==
    ASSUME IInv, FreezeInv, NEW p \in Requests, Crash(p)
    PROVE  FreezeInv' /\ Frozen
BY EndStep DEF Crash

\* Neither the network nor time touches requests or the content.
LEMMA QuietStep ==
    ASSUME IInv, FreezeInv, Prompt,
           Network \/ AttemptTurnsStale \/ LockTurnsStale \/ UNCHANGED vars
    PROVE  FreezeInv' /\ Frozen
<1>1. request' = request /\ current' = current
  BY DEF Network, Executed, Settle, AttemptTurnsStale, LockTurnsStale, vars
<1>2. /\ sub'.status = sub.status /\ sub'.content = sub.content /\ sub'.lock = sub.lock
      /\ sub.lockLate => sub'.lockLate
  <2>1. CASE AttemptTurnsStale
    BY <2>1, SubFacts, LateFields DEF AttemptTurnsStale
  <2>2. CASE LockTurnsStale
    BY <2>2, SubFacts, LockLateFields DEF LockTurnsStale
  <2>3. CASE sub' = sub
    BY <2>3
  <2> QED  BY <2>1, <2>2, <2>3 DEF Network, Executed, Settle, vars
<1>3. \A q \in Requests : Updating(request[q]) /\ sub.lock = q => sub'.lockLate = sub.lockLate
  <2>1. CASE AttemptTurnsStale
    BY <2>1, SubFacts, LateFields DEF AttemptTurnsStale
  <2>2. CASE LockTurnsStale
    BY <2>2 DEF LockTurnsStale, UpdateOver, Updating
  <2>3. CASE sub' = sub
    BY <2>3
  <2> QED  BY <2>1, <2>2, <2>3 DEF Network, Executed, Settle, vars
<1>4. \A q \in current' : Waits(request[q])'
  BY <1>1, <1>2 DEF FreezeInv, Waits
<1>5. \A q \in Requests : Updating(request'[q]) => Holds(q)'
  BY <1>1, <1>2, <1>3 DEF FreezeInv, Holds
<1> QED
  BY <1>1, <1>2, <1>4, <1>5 DEF FreezeInv, Frozen, Updating

LEMMA FreezeStep ==
    ASSUME Prompt, Distinct, IInv, FreezeInv, [Next]_vars
    PROVE  FreezeInv' /\ Frozen
<1>1. ASSUME NEW p \in Requests, Editing(p)
      PROVE  FreezeInv' /\ Frozen
  <2>1. CASE GiveUp(p)
    BY <2>1, EndStep DEF GiveUp
  <2> QED  BY <1>1, <2>1, LoadingStep, SavingStep, RestoreStep DEF Editing
<1>2. ASSUME NEW p \in Requests, Computing(p)
      PROVE  FreezeInv' /\ Frozen
  BY <1>2, LoadingStep, ClaimStep, UpdateFacilityStep, StoreUpdateStep, FailUpdateStep DEF Computing
<1>3. ASSUME NEW p \in Requests, Opening(p)
      PROVE  FreezeInv' /\ Frozen
  BY <1>3, OpenStep
<1>4. ASSUME NEW p \in Requests, Committing(p)
      PROVE  FreezeInv' /\ Frozen
  BY <1>4, SeekStep, ReadStep, BeginStep, CompleteCommitStep, FailCommitStep DEF Committing, Storing
<1> QED
  BY <1>1, <1>2, <1>3, <1>4, CrashStep, QuietStep DEF Next

LEMMA FreezeInit == Init => FreezeInv
<1> SUFFICES ASSUME Init PROVE FreezeInv
  OBVIOUS
<1>1. current = {} /\ sub.status = "not_started"
  BY DEF Init
<1>2. \A p \in Requests : ~Updating(request[p])
  BY DEF Init, Idle, Doing, Updating
<1> QED  BY <1>1, <1>2 DEF FreezeInv

\* No edit, upload, computation or late facility update, however long ago it read
\* the submission, changes what an attempt is about or what has been committed,
\* if contents are told apart by root and number and facility updates are prompt.
THEOREM AttemptAlwaysFrozen ==
    ASSUME Prompt, Distinct
    PROVE  Spec => AttemptIsFrozen
<1>1. IInv /\ FreezeInv /\ [Next]_vars => FreezeInv'
  BY FreezeStep
<1>2. Spec => []FreezeInv
  BY <1>1, FreezeInit, Invariant, PTL DEF Spec
<1>3. IInv /\ FreezeInv /\ [Next]_vars =>
          [sub.status \in {"committing", "committed"} => sub'.content = sub.content]_vars
  BY FreezeStep DEF Frozen, Attempt
<1> QED  BY <1>2, <1>3, Invariant, PTL DEF Spec, AttemptIsFrozen
-----------------------------------------------------------------------------
(* The facility object agrees with the submission.  A facility update is       *)
(* under way from the claim of its lock until its handler is done and its      *)
(* transaction is over; meanwhile the lock is kept and the content stands.     *)

Sends == {"update", "store", "unclaim", "keep_claim"}

Owed(p)    == \E u \in updating : u[1] = p
Engaged(p) == request[p].step \in Sends \/ Owed(p)
Keeps(p)   == (sub.lock = p /\ ~sub.lockLate) \/ sub.status = "committed"

\* An edit drops the computation, and a computation is of the content it goes with.
Copied(r) ==
    /\ r.step \in {"save", "reserve"} => r.copy.computed = NoContent
    /\ r.step \in {"claim", "update", "store"} => r.copy.computed = r.copy.content

Agreed == sub.computed # NoContent /\ ~rolledBack => facility = sub.computed

FacilityInv ==
    /\ \A p \in Requests : Engaged(p) => Keeps(p)
    /\ \A p, q \in Requests : Engaged(p) /\ Engaged(q) => p = q
    /\ \A p \in Requests : request[p].step \in {"update", "store", "unclaim"} => ~Owed(p)
    /\ \A u \in updating : u[2] = sub.content
    /\ \A p \in Requests : request[p].step = "store" => facility = request[p].copy.content
    /\ \A p \in Requests : Copied(request[p])
    /\ Agreed

\* A step by which p begins no update and ends the one it may have waited for.
Turns(p) ==
    \E r : request' = [request EXCEPT ![p] = r] /\ r.step \notin Sends /\ Copied(r)

LEMMA TurnStep ==
    ASSUME IInv, FacilityInv, NEW p \in Requests, Turns(p),
           UNCHANGED <<facility, updating>>,
           updating # {} => sub'.content = sub.content,
           \A q \in Requests : Engaged(q)' => Keeps(q)',
           Agreed'
    PROVE  FacilityInv'
<1>1. PICK r : request' = [request EXCEPT ![p] = r] /\ r.step \notin Sends /\ Copied(r)
  BY DEF Turns
<1>2. request'[p] = r /\ \A q \in Requests : q # p => request'[q] = request[q]
  BY <1>1 DEF IInv
<1>3. \A q \in Requests : Engaged(q)' => Engaged(q)
  BY <1>1, <1>2 DEF Engaged, Owed
<1>4. \A q, s \in Requests : Engaged(q)' /\ Engaged(s)' => q = s
  BY <1>3 DEF FacilityInv
<1>5. \A q \in Requests : request'[q].step \in {"update", "store", "unclaim"} => ~Owed(q)'
  BY <1>1, <1>2 DEF FacilityInv, Owed, Sends
<1>6. \A u \in updating' : u[2] = sub'.content
  BY DEF FacilityInv
<1>7. \A q \in Requests : request'[q].step = "store" => facility' = request'[q].copy.content
  BY <1>1, <1>2 DEF FacilityInv, Sends
<1>8. \A q \in Requests : Copied(request'[q])
  BY <1>1, <1>2 DEF FacilityInv
<1> QED
  BY <1>4, <1>5, <1>6, <1>7, <1>8 DEF FacilityInv, Copied

\* While p turns, nobody becomes engaged.
LEMMA TurnEngages ==
    ASSUME IInv, NEW p \in Requests, Turns(p), updating' = updating, NEW q \in Requests, Engaged(q)'
    PROVE  Engaged(q)
<1>1. PICK r : request' = [request EXCEPT ![p] = r] /\ r.step \notin Sends
  BY DEF Turns
<1>2. request'[p] = r /\ \A s \in Requests : s # p => request'[s] = request[s]
  BY <1>1 DEF IInv
<1> QED  BY <1>1, <1>2 DEF Engaged, Owed

\* A step that leaves the submission and the facility alone.
LEMMA IdleTurn ==
    ASSUME IInv, FacilityInv, NEW p \in Requests, Turns(p),
           UNCHANGED <<sub, facility, updating, rolledBack>>
    PROVE  FacilityInv'
<1>1. \A q \in Requests : Engaged(q)' => Keeps(q)'
  BY TurnEngages DEF FacilityInv, Keeps
<1>2. Agreed'
  BY DEF FacilityInv, Agreed
<1> QED  BY <1>1, <1>2, TurnStep

\* A step that stores a submission when no update is under way.
LEMMA FreeTurn ==
    ASSUME IInv, FacilityInv, NEW p \in Requests, Turns(p),
           UNCHANGED <<facility, updating>>,
           \A q \in Requests : ~Engaged(q),
           Agreed'
    PROVE  FacilityInv'
<1>1. \A q \in Requests : ~Engaged(q)'
  BY TurnEngages
<1>2. updating = {}
  <2>1. \A u \in updating : u[1] \in Requests
    BY DEF IInv, Frame
  <2> QED  BY <2>1 DEF Engaged, Owed
<1> QED  BY <1>1, <1>2, TurnStep

\* A step that stores the same content and computation, or none, and that keeps
\* what an update under way rests on.
LEMMA KeepingTurn ==
    ASSUME IInv, FacilityInv, NEW p \in Requests, Turns(p),
           UNCHANGED <<facility, updating>>,
           sub'.content = sub.content,
           sub'.computed = sub.computed \/ rolledBack',
           rolledBack => rolledBack',
           \A q \in Requests : Engaged(q) => Keeps(q)'
    PROVE  FacilityInv'
<1>1. \A q \in Requests : Engaged(q)' => Keeps(q)'
  BY TurnEngages
<1>2. Agreed'
  BY DEF FacilityInv, Agreed
<1> QED  BY <1>1, <1>2, TurnStep

LEMMA AnswerTurns ==
    ASSUME NEW p \in Requests, Answer(p)
    PROVE  Turns(p)
<1>1. Idle.step = "idle"
  BY DEF Idle, Doing
<1> QED  BY <1>1 DEF Answer, Turns, Sends, Copied

LEMMA StepTurns ==
    ASSUME IInv, NEW p \in Requests, NEW step \in Concluding, Step(p, step)
    PROVE  Turns(p)
<1> DEFINE r == [request[p] EXCEPT !.step = step]
<1>1. request[p] \in Request /\ step \in Steps
  BY DEF IInv, Concluding, Steps
<1>2. r.step = step
  BY <1>1, SteppedFields
<1>3. request' = [request EXCEPT ![p] = r]
  BY DEF Step
<1> HIDE DEF r
<1> QED  BY <1>2, <1>3 DEF Turns, Sends, Copied, Concluding

LEMMA GoTurns ==
    ASSUME NEW p \in Requests, NEW step \in {"begin", "build", "execute"}, NEW mode,
           Go(p, step, mode)
    PROVE  Turns(p)
<1> DEFINE r == Doing(step, mode, request[p].about, request[p].tx, NoSubmission, NoSubmission)
<1>1. request' = [request EXCEPT ![p] = r]
  BY DEF Go
<1>2. r.step = step
  BY DEF Doing
<1> HIDE DEF r
<1> QED  BY <1>1, <1>2 DEF Turns, Sends, Copied

LEMMA LoadTurns ==
    ASSUME NEW p \in Requests, NEW step \in Saving \cup {"claim"}, NEW copy, NEW before,
           Load(p, step, copy, before),
           step \in {"save", "reserve"} => copy.computed = NoContent,
           step = "claim" => copy.computed = copy.content
    PROVE  Turns(p) /\ UNCHANGED <<sub, facility, updating, rolledBack>>
<1> DEFINE r == Doing(step, "none", NoContent, NoContent, copy, before)
<1>1. r.step = step /\ r.copy = copy
  BY DEF Doing
<1>2. /\ request' = [request EXCEPT ![p] = r]
      /\ UNCHANGED <<sub, facility, updating, rolledBack>>
  BY DEF Load, chain
<1> HIDE DEF r
<1> QED  BY <1>1, <1>2 DEF Turns, Sends, Copied, Saving

LEMMA LoadingAgrees ==
    ASSUME IInv, FacilityInv, NEW p \in Requests,
           Edit(p) \/ Upload(p) \/ Uploaded(p) \/ UploadFails(p) \/ Compute(p)
    PROVE  FacilityInv'
<1> USE SubFacts DEF Saving
<1>1. ASSUME NEW c \in Contents, NEW step \in {"save", "reserve"}, NEW before,
             Load(p, step, Invalidated(sub, c), before)
      PROVE  FacilityInv'
  <2>1. Invalidated(sub, c).computed = NoContent
    BY InvalidatedFields
  <2> QED  BY <1>1, <2>1, LoadTurns, IdleTurn
<1>2. CASE Edit(p) \/ Upload(p) \/ Uploaded(p)
  BY <1>1, <1>2 DEF Edit, Upload, Uploaded
<1>3. CASE UploadFails(p)
  BY <1>3, LoadTurns, IdleTurn DEF UploadFails
<1>4. CASE Compute(p)
  <2>1. Computed(sub).computed = Computed(sub).content
    BY ComputedFields
  <2> QED  BY <1>4, <2>1, LoadTurns, IdleTurn DEF Compute
<1> QED  BY <1>2, <1>3, <1>4

\* Nobody saves or claims while an update is under way.
LEMMA NobodyEngaged ==
    ASSUME IInv, FreezeInv, FacilityInv, NEW p \in Requests, p \in current,
           request[p].step \in {"save", "reserve", "claim"},
           request[p].step = "claim" => sub.lock = NoRequest \/ sub.lockLate,
           NEW q \in Requests, Engaged(q)
    PROVE  FALSE
<1>1. Waits(request[p]) /\ Keeps(q)
  BY DEF FreezeInv, FacilityInv
<1>2. q # NoRequest
  BY RequestAssumption
<1> QED
  BY <1>1, <1>2 DEF Waits, Keeps, Saving, Attempt

LEMMA SavingAgrees ==
    ASSUME IInv, FreezeInv, FacilityInv, NEW p \in Requests, Save(p) \/ Reserve(p)
    PROVE  FacilityInv'
<1>1. /\ request[p].step \in {"save", "reserve"}
      /\ UNCHANGED <<facility, updating, rolledBack>>
  BY DEF Save, Reserve, chain
<1>2. Turns(p)
  <2>1. CASE Answer(p)
    BY <2>1, AnswerTurns
  <2>2. CASE ~Answer(p)
    <3> DEFINE r == Doing("upload", "none", NoContent, NoContent, NoSubmission, request[p].before)
    <3>1. request' = [request EXCEPT ![p] = r]
      BY <2>2 DEF Save, Reserve
    <3>2. r.step = "upload"
      BY DEF Doing
    <3> HIDE DEF r
    <3> QED  BY <3>1, <3>2 DEF Turns, Sends, Copied
  <2> QED  BY <2>1, <2>2
<1>3. CASE CanSave(p)
  <2>1. p \in current /\ sub' = request[p].copy
    BY <1>3 DEF CanSave, Save, Reserve, Write
  <2>2. sub'.computed = NoContent
    BY <1>1, <2>1 DEF FacilityInv, Copied
  <2>3. Agreed'
    BY <2>2 DEF Agreed
  <2>4. \A q \in Requests : ~Engaged(q)
    BY <1>1, <2>1, NobodyEngaged
  <2> QED  BY <1>1, <1>2, <2>3, <2>4, FreeTurn
<1>4. CASE ~CanSave(p)
  <2>1. sub' = sub
    BY <1>4 DEF Save, Reserve
  <2> QED  BY <1>1, <1>2, <2>1, IdleTurn
<1> QED  BY <1>3, <1>4

LEMMA RestoreAgrees ==
    ASSUME IInv, FreezeInv, FacilityInv, NEW p \in Requests, Restore(p)
    PROVE  FacilityInv'
<1>1. request[p].step = "restore" /\ Turns(p) /\ UNCHANGED <<facility, updating>>
  BY AnswerTurns DEF Restore, chain
<1>2. CASE CanSave(p)
  <2>1. p \in current /\ sub' = request[p].copy /\ rolledBack'
    BY <1>2 DEF CanSave, Restore, Write
  <2>2. /\ sub.status \notin Attempt /\ sub'.content = sub.content
        /\ sub'.lock = sub.lock /\ (sub'.lockLate => sub.lockLate)
    BY <1>1, <2>1 DEF FreezeInv, Waits, Saving
  <2>3. \A q \in Requests : Engaged(q) => Keeps(q)'
    BY <2>2 DEF FacilityInv, Keeps, Attempt
  <2> QED  BY <1>1, <2>1, <2>2, <2>3, KeepingTurn
<1>3. CASE ~CanSave(p)
  <2>1. UNCHANGED <<sub, rolledBack>>
    BY <1>3 DEF Restore
  <2> QED  BY <1>1, <2>1, IdleTurn
<1> QED  BY <1>2, <1>3

LEMMA ClaimAgrees ==
    ASSUME IInv, FreezeInv, FacilityInv, NEW p \in Requests, Claim(p)
    PROVE  FacilityInv'
<1>1. request[p].step = "claim" /\ UNCHANGED <<facility, updating, rolledBack>>
  BY DEF Claim, chain
<1>2. CASE MayClaim(p)
  <2> DEFINE r == [request[p] EXCEPT !.step = "update"]
  <2>1. /\ p \in current /\ (sub.lock = NoRequest \/ sub.lockLate)
        /\ sub' = [sub EXCEPT !.lock = p, !.lockLate = FALSE]
        /\ request' = [request EXCEPT ![p] = r]
    BY <1>2 DEF Claim, MayClaim, CanSave, Write, Step
  <2>2. /\ sub'.content = sub.content /\ sub'.computed = sub.computed
        /\ sub'.lock = p /\ sub'.lockLate = FALSE
    BY <2>1, SubFacts, ClaimedFields
  <2>3. \A q \in Requests : ~Engaged(q)
    BY <1>1, <2>1, NobodyEngaged
  <2>4. r.step = "update" /\ r.copy = request[p].copy
    <3>1. request[p] \in Request /\ "update" \in Steps
      BY DEF IInv, Steps
    <3> QED  BY <3>1, SteppedFields
  <2> HIDE DEF r
  <2>5. request'[p] = r /\ \A q \in Requests : q # p => request'[q] = request[q]
    BY <2>1 DEF IInv
  <2>6. \A q \in Requests : ~Owed(q)' /\ (Engaged(q)' => q = p)
    BY <1>1, <2>3, <2>5 DEF Engaged, Owed
  <2>7. Keeps(p)'
    BY <2>2 DEF Keeps
  <2>8. \A q \in Requests : request'[q].step = "store" => facility' = request'[q].copy.content
    BY <1>1, <2>4, <2>5 DEF FacilityInv
  <2>9. \A q \in Requests : Copied(request'[q])
    BY <1>1, <2>4, <2>5 DEF FacilityInv, Copied
  <2>10. \A u \in updating' : u[2] = sub'.content
    BY <1>1, <2>2 DEF FacilityInv
  <2>11. Agreed'
    BY <1>1, <2>2 DEF FacilityInv, Agreed
  <2> QED
    BY <2>6, <2>7, <2>8, <2>9, <2>10, <2>11 DEF FacilityInv, Copied
<1>3. CASE ~MayClaim(p)
  <2>1. Answer(p) /\ sub' = sub
    BY <1>3 DEF Claim
  <2> QED  BY <1>1, <2>1, AnswerTurns, IdleTurn
<1> QED  BY <1>2, <1>3

\* The content of a computed submission is what was computed, unless a rollback
\* has put an older computation back.
LEMMA AgreedWithContent ==
    ASSUME IInv, sub.computed # NoContent, ~rolledBack
    PROVE  sub.computed = sub.content
BY SubFacts, Zenon DEF Sound, Fits

\* What is owed or sent is of the stored content.
LEMMA UpdateFacilityAgrees ==
    ASSUME IInv, FreezeInv, FacilityInv, NEW p \in Requests, UpdateFacility(p)
    PROVE  FacilityInv'
<1> DEFINE c == request[p].copy.content
<1>1. /\ request[p].step = "update" /\ UNCHANGED <<sub, rolledBack>>
      /\ c = sub.content /\ ~Owed(p)
      /\ request[p] \in Request
  BY DEF UpdateFacility, FreezeInv, Holds, Updating, FacilityInv, IInv
<1>2. PICK step \in {"store", "unclaim", "keep_claim"} :
         /\ Step(p, step)
         /\ IF step = "store" THEN facility' = c ELSE facility' = facility
         /\ IF step = "keep_claim" THEN updating' = updating \cup {<<p, c>>}
                                   ELSE updating' = updating
  BY DEF UpdateFacility
<1> DEFINE r == [request[p] EXCEPT !.step = step]
<1>3. r.step = step /\ r.copy = request[p].copy /\ request' = [request EXCEPT ![p] = r]
  <2>1. step \in Steps
    BY DEF Steps
  <2> QED  BY <1>1, <1>2, <2>1, SteppedFields DEF Step
<1> HIDE DEF r
<1>4. request'[p] = r /\ \A q \in Requests : q # p => request'[q] = request[q]
  BY <1>3 DEF IInv
<1>5. Engaged(p) /\ \A q \in Requests : Engaged(q) => q = p
  BY <1>1 DEF Engaged, Sends, FacilityInv
<1>6. \A q \in Requests : Engaged(q)' => q = p
  <2> SUFFICES ASSUME NEW q \in Requests, q # p, Engaged(q)' PROVE Engaged(q)
    BY <1>5
  <2>1. Owed(q)' => Owed(q)
    BY <1>2 DEF Owed
  <2> QED  BY <1>4, <2>1 DEF Engaged
<1>7. Keeps(p)'
  BY <1>1, <1>5 DEF FacilityInv, Keeps
<1>8. \A q \in Requests : request'[q].step \in {"update", "store", "unclaim"} => ~Owed(q)'
  <2> SUFFICES ASSUME NEW q \in Requests, request'[q].step \in {"update", "store", "unclaim"}
               PROVE  ~Owed(q)'
    OBVIOUS
  <2>1. q = p
    BY <1>4, <1>5, <1>6 DEF Engaged, Sends
  <2> QED  BY <1>1, <1>2, <1>3, <1>4, <2>1 DEF Owed
<1>9. \A u \in updating' : u[2] = sub'.content
  BY <1>1, <1>2 DEF FacilityInv
<1>10. \A q \in Requests : request'[q].step = "store" => facility' = request'[q].copy.content
  <2> SUFFICES ASSUME NEW q \in Requests, request'[q].step = "store"
               PROVE  facility' = request'[q].copy.content
    OBVIOUS
  <2>1. q = p
    BY <1>6 DEF Engaged, Sends
  <2> QED  BY <1>2, <1>3, <1>4, <2>1
<1>11. \A q \in Requests : Copied(request'[q])
  <2>1. Copied(request[p])
    BY DEF FacilityInv
  <2>2. Copied(r)
    BY <1>1, <1>3, <2>1 DEF Copied
  <2> QED  BY <1>4, <2>2 DEF FacilityInv
<1>12. Agreed'
  BY <1>1, <1>2, AgreedWithContent DEF FacilityInv, Agreed
<1> QED
  BY <1>6, <1>7, <1>8, <1>9, <1>10, <1>11, <1>12 DEF FacilityInv, Copied

LEMMA StoreUpdateAgrees ==
    ASSUME IInv, FreezeInv, FacilityInv, NEW p \in Requests, StoreUpdate(p)
    PROVE  FacilityInv'
<1>1. /\ request[p].step = "store" /\ Turns(p) /\ request[p].step \in Copying
      /\ UNCHANGED <<facility, updating, rolledBack>>
  BY AnswerTurns DEF StoreUpdate, chain, Copying
<1>2. CASE sub.lock = p
  <2>1. sub' = Unlocked(request[p].copy)
    BY <1>2 DEF StoreUpdate, Write
  <2>2. /\ sub'.computed = request[p].copy.computed
        /\ sub'.content = request[p].copy.content
    BY <1>1, <2>1, CopyFacts, UnlockedFields
  <2>3. facility = sub'.computed
    BY <1>1, <2>2 DEF FacilityInv, Copied
  <2>4. Agreed'
    BY <1>1, <2>3 DEF Agreed
  <2>5. \A q \in Requests : q # p => ~Engaged(q)
    BY <1>1 DEF FacilityInv, Engaged, Sends
  <2>6. ~Owed(p) /\ updating = {}
    <3>1. ~Owed(p)
      BY <1>1 DEF FacilityInv
    <3>2. \A u \in updating : u[1] \in Requests
      BY DEF IInv, Frame
    <3> QED  BY <2>5, <3>1, <3>2 DEF Engaged, Owed
  <2>7. \A q \in Requests : ~Engaged(q)'
    <3>1. PICK r : request' = [request EXCEPT ![p] = r] /\ r.step \notin Sends
      BY <1>1 DEF Turns
    <3>2. request'[p] = r
      BY <3>1 DEF IInv
    <3> QED  BY <1>1, <2>5, <2>6, <3>1, <3>2, TurnEngages DEF Engaged, Owed
  <2> QED  BY <1>1, <2>4, <2>6, <2>7, TurnStep
<1>3. CASE sub.lock # p
  <2>1. sub' = sub
    BY <1>3 DEF StoreUpdate
  <2> QED  BY <1>1, <2>1, IdleTurn
<1> QED  BY <1>2, <1>3

\* The lock is released only by a request that owes nothing.
LEMMA FailUpdateAgrees ==
    ASSUME IInv, FreezeInv, FacilityInv, NEW p \in Requests, FailUpdate(p)
    PROVE  FacilityInv'
<1>1. /\ request[p].step \in {"unclaim", "keep_claim"} /\ Turns(p)
      /\ UNCHANGED <<facility, updating, rolledBack>>
  BY AnswerTurns DEF FailUpdate, chain
<1>2. CASE sub' = sub
  BY <1>1, <1>2, IdleTurn
<1>3. CASE sub' # sub
  <2>1. request[p].step = "unclaim" /\ sub' = Unlocked(sub)
    BY <1>3 DEF FailUpdate, Released, Write
  <2>2. sub'.content = sub.content /\ sub'.computed = sub.computed
    BY <2>1, SubFacts, UnlockedFields
  <2>3. \A q \in Requests : q # p => ~Engaged(q)
    BY <2>1 DEF FacilityInv, Engaged, Sends
  <2>4. ~Owed(p)
    BY <2>1 DEF FacilityInv
  <2>5. \A q \in Requests : ~Engaged(q)'
    <3>1. PICK r : request' = [request EXCEPT ![p] = r] /\ r.step \notin Sends
      BY <1>1 DEF Turns
    <3>2. request'[p] = r
      BY <3>1 DEF IInv
    <3> QED  BY <1>1, <2>3, <2>4, <3>1, <3>2, TurnEngages DEF Engaged, Owed
  <2>6. Agreed'
    BY <1>1, <2>2 DEF FacilityInv, Agreed
  <2> QED  BY <1>1, <2>2, <2>5, <2>6, TurnStep
<1> QED  BY <1>2, <1>3

LEMMA OpenAgrees ==
    ASSUME IInv, FacilityInv, NEW p \in Requests, Opening(p)
    PROVE  FacilityInv'
<1>1. PICK step \in Concluding : \E mode, tx : Open(p, mode, step, tx)
  <2>1. CASE TakeOver(p)
    BY <2>1 DEF TakeOver, Concluding
  <2>2. CASE CompleteSigned(p)
    BY <2>2 DEF CompleteSigned, Concluding
  <2>3. CASE Prepare(p) \/ SignWithPrivy(p) \/ Complete(p) \/ Release(p)
    BY <2>3 DEF Prepare, SignWithPrivy, Complete, Release, Concluding
  <2> QED  BY <2>1, <2>2, <2>3 DEF Opening
<1>2. PICK mode, tx : Open(p, mode, step, tx)
  BY <1>1
<1> DEFINE r == Doing(step, mode, sub.computed, tx, NoSubmission, NoSubmission)
<1>3. /\ request' = [request EXCEPT ![p] = r]
      /\ UNCHANGED <<sub, facility, updating, rolledBack>>
  BY <1>2 DEF Open, chain
<1>4. r.step = step
  BY DEF Doing
<1> HIDE DEF r
<1>5. Turns(p)
  BY <1>3, <1>4 DEF Turns, Sends, Copied, Concluding
<1> QED  BY <1>3, <1>5, IdleTurn

LEMMA SeekAgrees ==
    ASSUME IInv, FacilityInv, NEW p \in Requests,
           Reconcile(p) \/ LookUp(p) \/ Execute(p) \/ Build(p)
    PROVE  FacilityInv'
<1>1. UNCHANGED <<sub, facility, updating, rolledBack>>
  BY DEF Reconcile, LookUp, Execute, Build, Proceed, chain
<1>2. Answer(p) \/ \E step \in Concluding : Step(p, step)
  BY DEF Reconcile, LookUp, Execute, Build, Proceed, Concluding
<1> QED  BY <1>1, <1>2, AnswerTurns, StepTurns, IdleTurn

LEMMA ReadAgrees ==
    ASSUME IInv, FacilityInv, NEW p \in Requests, Read(p)
    PROVE  FacilityInv'
<1> DEFINE r == [request[p] EXCEPT !.copy = sub]
<1>1. /\ request[p] \in Request
      /\ request[p].step \in {"begin", "complete", "fail"}
      /\ request' = [request EXCEPT ![p] = r]
      /\ UNCHANGED <<sub, facility, updating, rolledBack>>
  BY DEF Read, IInv, chain
<1>2. r.step = request[p].step
  BY <1>1, SubFacts, ReadFields
<1> HIDE DEF r
<1>3. Turns(p)
  BY <1>1, <1>2 DEF Turns, Sends, Copied
<1> QED  BY <1>1, <1>3, IdleTurn

\* A commit stores the content and the computation that are stored already.
LEMMA MarkAgrees ==
    ASSUME IInv, FacilityInv, Distinct, NEW p \in Requests, Turns(p),
           HasBasis(p), request[p].step \in Concluding,
           CanFinish(Basis(p), p), CanFinish(sub, p), NEW x \in Statuses,
           sub' = [Basis(p) EXCEPT !.status = x, !.late = FALSE],
           UNCHANGED <<facility, updating, rolledBack>>,
           \A q \in Requests : Engaged(q) => Keeps(q)'
    PROVE  FacilityInv'
<1>1. Sound(Basis(p), anchored, rolledBack) /\ Sound(sub, anchored, rolledBack)
  BY BasisFacts, SubFacts
<1>2. /\ Basis(p).status # "not_started" /\ sub.status # "not_started"
      /\ RootOf[Basis(p).computed] = RootOf[sub.computed]
  BY DEF CanFinish, SameRoot
<1>3. Basis(p).computed \in Contents /\ sub.computed \in Contents
  BY <1>1, <1>2, Aligned
<1>4. Basis(p).computed = sub.computed
  BY <1>2, <1>3 DEF Distinct
<1>5. sub'.computed = Basis(p).computed
  <2>1. Basis(p) \in Submission
    BY <1>1 DEF Sound, WellFormed
  <2> QED  BY <2>1, MarkedFields
<1>6. sub'.content = sub.content
  BY SameContent
<1> QED  BY <1>4, <1>5, <1>6, KeepingTurn

LEMMA BeginAgrees ==
    ASSUME IInv, FacilityInv, Distinct, NEW p \in Requests, Begin(p)
    PROVE  FacilityInv'
<1>1. UNCHANGED <<facility, updating, rolledBack>>
  BY DEF Begin, chain
<1>2. CASE CanBegin(Basis(p), p) /\ CanBegin(sub, p)
  <2>1. /\ CanFinish(Basis(p), p) /\ CanFinish(sub, p) /\ request[p].step \in Concluding
        /\ HasBasis(p) /\ "committing" \in Statuses
        /\ sub' = [Basis(p) EXCEPT !.status = "committing", !.late = FALSE]
        /\ sub.lock = NoRequest /\ sub.status # "committed"
    BY <1>2 DEF CanBegin, CanFinish, Begin, Write, Concluding, Statuses
  <2>2. \A q \in Requests : ~Engaged(q)
    BY <2>1, RequestAssumption DEF FacilityInv, Keeps
  <2>3. Turns(p)
    BY <1>2, GoTurns DEF Begin
  <2> QED  BY <1>1, <2>1, <2>2, <2>3, MarkAgrees
<1>3. CASE ~(CanBegin(Basis(p), p) /\ CanBegin(sub, p))
  <2>1. sub' = sub /\ Answer(p)
    BY <1>3 DEF Begin
  <2> QED  BY <1>1, <2>1, AnswerTurns, IdleTurn
<1> QED  BY <1>2, <1>3

LEMMA CompleteCommitAgrees ==
    ASSUME IInv, FacilityInv, Distinct, NEW p \in Requests, CompleteCommit(p)
    PROVE  FacilityInv'
<1>1. UNCHANGED <<facility, updating, rolledBack>> /\ Turns(p)
  BY AnswerTurns DEF CompleteCommit, chain
<1>2. CASE CanFinish(Basis(p), p) /\ CanFinish(sub, p)
  <2>1. /\ request[p].step \in Concluding /\ HasBasis(p) /\ "committed" \in Statuses
        /\ sub' = [Basis(p) EXCEPT !.status = "committed", !.late = FALSE]
    BY <1>2 DEF CompleteCommit, Write, Concluding, Statuses
  <2>2. sub'.status = "committed"
    BY <1>2, <2>1, SameContent
  <2>3. \A q \in Requests : Engaged(q) => Keeps(q)'
    BY <2>2 DEF Keeps
  <2> QED  BY <1>1, <1>2, <2>1, <2>3, MarkAgrees
<1>3. CASE ~(CanFinish(Basis(p), p) /\ CanFinish(sub, p))
  <2>1. sub' = sub
    BY <1>3 DEF CompleteCommit
  <2> QED  BY <1>1, <2>1, IdleTurn
<1> QED  BY <1>2, <1>3

LEMMA FailCommitAgrees ==
    ASSUME IInv, FreezeInv, FacilityInv, Distinct, NEW p \in Requests, FailCommit(p)
    PROVE  FacilityInv'
<1>1. UNCHANGED <<facility, updating, rolledBack>>
  BY DEF FailCommit, chain
<1>2. CASE CanFinish(Basis(p), p) /\ CanFail(sub, p)
  <2> DEFINE t == [Basis(p) EXCEPT !.status = "failed", !.late = FALSE]
  <2>1. /\ request[p].step \in Concluding /\ HasBasis(p) /\ "failed" \in Statuses
        /\ CanFinish(sub, p) /\ sub' = t
    BY <1>2 DEF FailCommit, CanFail, Write, Concluding, Statuses
  <2>2. ASSUME NEW q \in Requests, Engaged(q)
        PROVE  Keeps(q)'
    <3>1. Keeps(q) /\ sub.status # "committed" /\ q # NoRequest
      BY <2>1, <2>2, RequestAssumption DEF FacilityInv, CanFinish
    <3>2. AtomicStore
      BY <1>2, <3>1 DEF FreezeInv, Keeps, CanFail
    <3>3. t.lock = sub.lock /\ t.lockLate = sub.lockLate
      <4>1. t = [sub EXCEPT !.status = "failed", !.late = FALSE]
        BY <3>2 DEF Basis
      <4>2. sub \in Submission /\ "failed" \in Statuses
        BY <2>1, SubFacts
      <4> HIDE DEF t
      <4> QED  BY <4>1, <4>2, MarkedFields
    <3> HIDE DEF t
    <3> QED  BY <2>1, <3>1, <3>3 DEF Keeps
  <2>3. Turns(p)
    BY <1>2, AnswerTurns, GoTurns DEF FailCommit
  <2> QED  BY <1>1, <1>2, <2>1, <2>2, <2>3, MarkAgrees
<1>3. CASE ~(CanFinish(Basis(p), p) /\ CanFail(sub, p))
  <2>1. sub' = sub /\ Answer(p)
    BY <1>3 DEF FailCommit
  <2> QED  BY <1>1, <2>1, AnswerTurns, IdleTurn
<1> QED  BY <1>2, <1>3

\* A handler that dies leaves its update to the network, and its lock.
LEMMA CrashAgrees ==
    ASSUME IInv, FreezeInv, FacilityInv, NEW p \in Requests, Crash(p)
    PROVE  FacilityInv'
<1> DEFINE c == request[p].copy.content
<1>1. Turns(p) /\ UNCHANGED <<sub, facility, rolledBack>>
  BY AnswerTurns DEF Crash
<1>2. CASE updating' = updating
  BY <1>1, <1>2, IdleTurn
<1>3. CASE updating' # updating
  <2>1. request[p].step = "update" /\ updating' = updating \cup {<<p, c>>}
    BY <1>3 DEF Crash
  <2>2. c = sub.content
    BY <2>1 DEF FreezeInv, Holds, Updating
  <2>3. PICK r : request' = [request EXCEPT ![p] = r] /\ r.step \notin Sends /\ Copied(r)
    BY <1>1 DEF Turns
  <2>4. request'[p] = r /\ \A q \in Requests : q # p => request'[q] = request[q]
    BY <2>3 DEF IInv
  <2>5. Engaged(p) /\ \A q \in Requests : Engaged(q) => q = p
    BY <2>1 DEF Engaged, Sends, FacilityInv
  <2>6. \A q \in Requests : Engaged(q)' => q = p
    <3> SUFFICES ASSUME NEW q \in Requests, q # p, Engaged(q)' PROVE Engaged(q)
      BY <2>5
    <3>1. Owed(q)' => Owed(q)
      BY <2>1 DEF Owed
    <3> QED  BY <2>4, <3>1 DEF Engaged
  <2>7. \A q \in Requests : request'[q].step \notin Sends
    BY <2>3, <2>4, <2>6 DEF Engaged
  <2>8. Keeps(p)'
    BY <1>1, <2>5 DEF FacilityInv, Keeps
  <2>9. \A u \in updating' : u[2] = sub'.content
    BY <1>1, <2>1, <2>2 DEF FacilityInv
  <2>10. \A q \in Requests : Copied(request'[q])
    BY <2>3, <2>4 DEF FacilityInv
  <2>11. Agreed'
    BY <1>1 DEF FacilityInv, Agreed
  <2> QED
    BY <2>6, <2>7, <2>8, <2>9, <2>10, <2>11 DEF FacilityInv, Sends, Copied
<1> QED  BY <1>2, <1>3

\* An update that settles is of the stored content.
LEMMA SettleAgrees ==
    ASSUME IInv, FacilityInv, NEW u \in updating, Settle(u)
    PROVE  FacilityInv'
<1>1. /\ updating' = updating \ {u} /\ facility' \in {facility, u[2]}
      /\ UNCHANGED <<sub, request, rolledBack>>
  BY DEF Settle
<1>2. u[1] \in Requests /\ Owed(u[1]) /\ u[2] = sub.content
  BY DEF IInv, Frame, Owed, FacilityInv
<1>3. \A q \in Requests : (Owed(q)' => Owed(q)) /\ (Engaged(q)' => Engaged(q))
  BY <1>1 DEF Engaged, Owed
<1>4. \A q \in Requests : request[q].step # "store"
  BY <1>2 DEF FacilityInv, Engaged, Sends
<1>5. Agreed'
  BY <1>1, <1>2, AgreedWithContent DEF FacilityInv, Agreed
<1>6. \A q \in Requests : Engaged(q)' => Keeps(q)'
  BY <1>1, <1>3 DEF FacilityInv, Keeps
<1>7. \A q, s \in Requests : Engaged(q)' /\ Engaged(s)' => q = s
  BY <1>3 DEF FacilityInv
<1>8. \A q \in Requests : request'[q].step \in {"update", "store", "unclaim"} => ~Owed(q)'
  BY <1>1, <1>3 DEF FacilityInv
<1>9. \A v \in updating' : v[2] = sub'.content
  BY <1>1 DEF FacilityInv
<1> QED
  BY <1>1, <1>4, <1>5, <1>6, <1>7, <1>8, <1>9 DEF FacilityInv, Copied

\* A lock turns stale only when its update is over.
LEMMA QuietAgrees ==
    ASSUME IInv, FacilityInv, Prompt,
           (\E root \in sent : Executed(root)) \/ AttemptTurnsStale \/ LockTurnsStale
               \/ UNCHANGED vars
    PROVE  FacilityInv'
<1>1. UNCHANGED <<request, facility, updating, rolledBack>>
  BY DEF Executed, AttemptTurnsStale, LockTurnsStale, vars, chain
<1>2. /\ sub'.status = sub.status /\ sub'.content = sub.content
      /\ sub'.computed = sub.computed /\ sub'.lock = sub.lock
      /\ sub'.lockLate = sub.lockLate \/ LockTurnsStale
  <2>1. CASE AttemptTurnsStale
    BY <2>1, SubFacts, LateFields DEF AttemptTurnsStale
  <2>2. CASE LockTurnsStale
    BY <2>2, SubFacts, LockLateFields DEF LockTurnsStale
  <2>3. CASE sub' = sub
    BY <2>3
  <2> QED  BY <2>1, <2>2, <2>3 DEF Executed, vars
<1>3. \A q \in Requests : LockTurnsStale /\ Engaged(q) => sub.lock # q
  BY DEF LockTurnsStale, UpdateOver, Engaged, Owed, Sends
<1>4. \A q \in Requests : Engaged(q)' <=> Engaged(q)
  BY <1>1 DEF Engaged, Owed
<1>5. \A q \in Requests : Engaged(q)' => Keeps(q)'
  BY <1>2, <1>3, <1>4 DEF FacilityInv, Keeps
<1>6. Agreed'
  BY <1>1, <1>2 DEF FacilityInv, Agreed
<1>7. \A q, s \in Requests : Engaged(q)' /\ Engaged(s)' => q = s
  BY <1>4 DEF FacilityInv
<1>8. \A q \in Requests : request'[q].step \in {"update", "store", "unclaim"} => ~Owed(q)'
  BY <1>1 DEF FacilityInv, Owed
<1> QED
  BY <1>1, <1>2, <1>5, <1>6, <1>7, <1>8 DEF FacilityInv, Copied

LEMMA AgreesStep ==
    ASSUME Prompt, Distinct, IInv, FreezeInv, FacilityInv, [Next]_vars
    PROVE  FacilityInv'
<1>1. ASSUME NEW p \in Requests, Editing(p)
      PROVE  FacilityInv'
  <2>1. CASE GiveUp(p)
    BY <2>1, AnswerTurns, IdleTurn DEF GiveUp, chain
  <2> QED  BY <1>1, <2>1, LoadingAgrees, SavingAgrees, RestoreAgrees DEF Editing
<1>2. ASSUME NEW p \in Requests, Computing(p)
      PROVE  FacilityInv'
  BY <1>2, LoadingAgrees, ClaimAgrees, UpdateFacilityAgrees, StoreUpdateAgrees, FailUpdateAgrees
     DEF Computing
<1>3. ASSUME NEW p \in Requests, Opening(p)
      PROVE  FacilityInv'
  BY <1>3, OpenAgrees
<1>4. ASSUME NEW p \in Requests, Committing(p)
      PROVE  FacilityInv'
  BY <1>4, SeekAgrees, ReadAgrees, BeginAgrees, CompleteCommitAgrees, FailCommitAgrees
     DEF Committing, Storing
<1> QED
  BY <1>1, <1>2, <1>3, <1>4, CrashAgrees, SettleAgrees, QuietAgrees DEF Next, Network

LEMMA AgreesInit == Init => FacilityInv
<1> SUFFICES ASSUME Init PROVE FacilityInv
  OBVIOUS
<1>1. updating = {} /\ sub.computed = NoContent
  BY DEF Init
<1>2. \A p \in Requests : request[p].step = "idle"
  BY DEF Init, Idle, Doing
<1>3. \A p \in Requests : ~Engaged(p) /\ Copied(request[p])
  BY <1>1, <1>2 DEF Engaged, Owed, Sends, Copied
<1> QED  BY <1>1, <1>2, <1>3 DEF FacilityInv, Agreed

\* The facility object on Sui has the borrowing base and root of the computation
\* that the submission shows, whatever updates time out and execute later, if
\* contents are told apart by root and number and facility updates are prompt.
THEOREM FacilityAlwaysAgrees ==
    ASSUME Prompt, Distinct
    PROVE  Spec => []FacilityAgrees
<1>1. IInv /\ FreezeInv /\ [Next]_vars => FreezeInv'
  BY FreezeStep
<1>2. IInv /\ FreezeInv /\ FacilityInv /\ [Next]_vars => FacilityInv'
  BY AgreesStep
<1>3. Spec => []FreezeInv
  BY <1>1, FreezeInit, Invariant, PTL DEF Spec
<1>4. Spec => []FacilityInv
  BY <1>2, <1>3, AgreesInit, Invariant, PTL DEF Spec
<1>5. FacilityInv => FacilityAgrees
  BY DEF FacilityInv, Agreed, FacilityAgrees
<1> QED  BY <1>4, <1>5, PTL
=============================================================================
