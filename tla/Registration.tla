---------------------------- MODULE Registration ----------------------------
(***************************************************************************)
(* The registration protocol of palomar_reviewer: how a consented review   *)
(* becomes a permanent, public registry identity.                          *)
(*                                                                         *)
(* A worker is one running command: an unattended pass (cli.auto), or an   *)
(* operator's retry-registration, finalize or run --apply.  What workers   *)
(* share is kept in files of the private State repository (a record and a  *)
(* delivered review per submission, an allocation lock per registration    *)
(* day or updated result), in the Database repository (branches, pull      *)
(* requests and merged entries) and in the public archive.  No write spans *)
(* two files.  A State write is conditional on the blob the worker last    *)
(* read (cli.put_state): w[p].fresh and w[p].lockFresh say that the copy   *)
(* worker p holds of the record, of the lock, is still the live one, and a *)
(* write through a copy that is not fails.  A read followed at once by the *)
(* write it authorises is one step; that write losing its race is among    *)
(* the step's failures.                                                    *)
(***************************************************************************)
EXTENDS Integers, FiniteSets

CONSTANTS
    Submissions,   \* submissions that hold a delivered review
    Workers,       \* commands that may run at the same time
    Results,       \* results already registered, which an update may name
    Existing,      \* [Submissions -> Results \cup {None}]: what each updates
    Arrival,       \* [Submissions -> Nat]: created_at, the order of the queue
    Unregistrable, \* submissions whose metadata the entry schema refuses
    None,
    DayLength,     \* clock instants per registration day
    MaxClock,      \* last instant explored
    MaxReviews,    \* reviews delivered to one submission
    AttemptLimit,  \* REGISTRATION_ATTEMPT_LIMIT
    MaxFaults      \* crashes and failed external calls explored

ASSUME ConstantsAssumption ==
    /\ Results \cap (Nat \cup (Nat \X Nat)) = {}
    /\ None \notin Results \cup Submissions \cup Nat
    /\ Existing \in [Submissions -> Results \cup {None}]
    /\ Arrival \in [Submissions -> Nat]
    /\ Unregistrable \subseteq Submissions
    /\ DayLength \in Nat \ {0}
    /\ MaxClock \in Nat
    /\ MaxReviews \in Nat \ {0}
    /\ AttemptLimit \in Nat \ {0}
    /\ MaxFaults \in Nat

VARIABLES
    state,      \* submissions/<id>/state.json
    delivered,  \* submissions/<id>/review.json, by the review's number
    lock,       \* index/registration-locks/<scope>.json
    changes,    \* registration branches of the Database and their pull requests
    database,   \* entries merged into Database main
    archive,    \* identities whose immutable archive refs are public
    clock,
    faults,
    w           \* the workers

vars == <<state, delivered, lock, changes, database, archive, clock, faults, w>>

-----------------------------------------------------------------------------
(* Identities, locks and records *)

DayOf(t) == t \div DayLength
Days == {DayOf(t) : t \in 0 .. MaxClock}
Scopes == Days \cup Results
Reviews == 1 .. MaxReviews

\* A first version is named by its day and serial, an update by its result.
Names == (Days \X (Nat \ {0})) \cup Results
Identities == [name: Names, version: Nat \ {0}, at: 0 .. MaxClock,
               review: Reviews, existing: Results \cup {None}]

LockScope(id) == IF id.existing = None THEN DayOf(id.at) ELSE id.existing
SameKey(i, j) == i.name = j.name /\ i.version = j.version

NoHolder == [sub |-> None, id |-> None, status |-> "empty"]
Holders == [sub: Submissions, id: Identities, status: {"acquiring", "held", "releasing"}]
HeldBy(s, id, statuses) ==
    LET l == lock[LockScope(id)]
    IN  l.sub = s /\ l.id = id /\ l.status \in statuses

Phases == {"publication-started", "published", "registered"}

\* "reviewing" stands for awaiting-review too: both may only be reviewed.
Records == [status: {"review-ready", "reviewing", "registration-paused",
                     "withdrawn", "registered"},
            review: Reviews,
            consent: Reviews \cup {None},
            attempt: Identities \cup {None},
            uses: SUBSET [id: Identities, phase: Phases],
            pr: BOOLEAN,
            attempts: 0 .. AttemptLimit,
            cooling: BOOLEAN]

PublicUses(s, id) == {row \in state[s].uses : SameKey(row.id, id)}
UnpublishedUntilReceipt(s, id) ==
    \A row \in PublicUses(s, id) : row.phase = "publication-started"
Unpublished(s, id) == PublicUses(s, id) = {}

ASSUME NoneAssumption == None \notin Identities

\* The entries a Database checkout assigns to a day, and to a result.
LastSerialBehind(db, day) == Cardinality({e \in db : e.name[1] = day}) - 1
LastSerial(db, day) == Cardinality({e \in db : e.version = 1 /\ e.name[1] = day})
LastVersion(db, r) == 1 + Cardinality({e \in db : e.name = r})
Entries == [sub: Submissions, name: Names, version: Nat \ {0}]
EntryOf(s, id) == [sub |-> s, name |-> id.name, version |-> id.version]

\* The identity a checkout and the clock give a submission with no attempt.
NewIdentity(s, review, db) ==
    LET r == Existing[s] IN
    [name     |-> IF r = None
                  THEN <<DayOf(clock), LastSerial(db, DayOf(clock)) + 1>>
                  ELSE r,
     version  |-> IF r = None THEN 1 ELSE LastVersion(db, r) + 1,
     at       |-> clock,
     review   |-> review,
     existing |-> r]

\* Whether a checkout still assigns id to whoever comes next.
NextFor(db, id) ==
    IF id.existing = None
    THEN id.name[2] = LastSerial(db, id.name[1]) + 1
    ELSE id.version = LastVersion(db, id.existing) + 1

Superseded(db, id) ==
    id.existing = None /\ id.name[2] <= LastSerial(db, id.name[1])

Bound(db, s) == \E e \in db : e.sub = s

(* Registration changes: a pushed branch, an open or a merged pull request. *)
Changes == [sub: Submissions, id: Identities, stage: {"pushed", "open", "merged"}]
Branch(s, id) == {c \in changes : /\ c.sub = s
                                  /\ c.id.version = id.version
                                  /\ c.stage # "merged"}
Restage(c, stage) == (changes \ {c}) \cup {[c EXCEPT !.stage = stage]}

-----------------------------------------------------------------------------
(* Workers *)

Jobs == {"register", "retry", "deliver"}
RegisterPCs == {"recover", "reopen", "recheckpoint", "validate", "clone",
                "allocate", "acquire", "save", "discard", "hold", "start",
                "startWrite", "publish", "published", "publishedWrite",
                "push", "open", "checkpoint"}
AdvancePCs == {"await", "consent", "merge", "finalize", "finalizeWrite",
               "unlock", "clear"}
ReleasePCs == {"relLock", "relState", "relClear"}
PCs == {"idle", "fail", "failDet", "requeue", "deliver", "review", "deliverWrite"}
         \cup RegisterPCs \cup AdvancePCs \cup ReleasePCs

Idle == [pc |-> "idle", job |-> "register", sub |-> None, review |-> 1,
         id |-> None, saved |-> FALSE, held |-> FALSE, seen |-> {},
         fresh |-> FALSE, lockFresh |-> FALSE]

WorkerStates == [pc: PCs, job: Jobs, sub: Submissions \cup {None},
                 review: Reviews, id: Identities \cup {None}, saved: BOOLEAN,
                 held: BOOLEAN, seen: SUBSET Entries, fresh: BOOLEAN,
                 lockFresh: BOOLEAN]

Goto(p, pc) == [w[p] EXCEPT !.pc = pc]

\* The worker going on to pc without the copies it has made.
Afresh(p, pc) == [w[p] EXCEPT !.pc = pc, !.saved = FALSE, !.held = FALSE, !.seen = {},
                              !.fresh = FALSE, !.lockFresh = FALSE]

\* The worker left when its step raises: a registration gives back a lock it
\* has no saved attempt for and runs the pass's failure handler, every other
\* command ends.
Raised(p) ==
    IF w[p].job = "register" /\ w[p].pc \in RegisterPCs \cup ReleasePCs
    THEN IF w[p].pc = "save" THEN Goto(p, "discard") ELSE Afresh(p, "fail")
    ELSE Idle

\* Steps of worker p that leave it as r: no write, a write to the record of
\* s, a write to the lock of a scope.
Becomes(p, r) == w' = [w EXCEPT ![p] = r]
WritesRecord(p, s, record, r) ==
    /\ state' = [state EXCEPT ![s] = record]
    /\ w' = [q \in Workers |->
               IF q = p THEN r
               ELSE [w[q] EXCEPT !.fresh = @ /\ w[q].sub # s]]
WritesLock(p, scope, holder, r) ==
    /\ lock' = [lock EXCEPT ![scope] = holder]
    /\ w' = [q \in Workers |->
               IF q = p THEN r
               ELSE [w[q] EXCEPT !.lockFresh =
                       @ /\ ~(w[q].id # None /\ LockScope(w[q].id) = scope)]]

Init ==
    /\ state = [s \in Submissions |->
                  [status |-> "review-ready", review |-> 1, consent |-> None,
                   attempt |-> None, uses |-> {}, pr |-> FALSE, attempts |-> 0,
                   cooling |-> FALSE]]
    /\ delivered = [s \in Submissions |-> 1]
    /\ lock = [scope \in Scopes |-> NoHolder]
    /\ changes = {}
    /\ database = {}
    /\ archive = {}
    /\ clock = 0
    /\ faults = 0
    /\ w = [p \in Workers |-> Idle]

\* authorization._validate_registration_standing for the review p registers.
Standing(s, review, status) ==
    /\ state[s].status = status
    /\ state[s].consent = review
    /\ state[s].review = review

-----------------------------------------------------------------------------
(* cli.auto choosing a registration, and cli.register up to the allocation *)

OwnsLock(s) ==
    /\ state[s].attempt # None
    /\ HeldBy(s, state[s].attempt, {"acquiring", "held"})
Registrable(s) ==
    /\ state[s].status = "review-ready"
    /\ state[s].consent # None
    /\ ~state[s].pr
    /\ ~state[s].cooling

\* A pass registers one submission: one that owns its lock before any other,
\* and the earliest arrival among equals.
Precedes(t, s) ==
    \/ OwnsLock(t) /\ ~OwnsLock(s)
    \/ (OwnsLock(t) <=> OwnsLock(s)) /\ Arrival[t] < Arrival[s]

BeginRegister(p, s) ==
    /\ w[p].pc = "idle"
    /\ Registrable(s)
    /\ \A t \in Submissions : Registrable(t) => ~Precedes(t, s)
    /\ Becomes(p, [Idle EXCEPT !.pc = "recover", !.job = "register", !.sub = s,
                               !.review = delivered[s]])
    /\ UNCHANGED <<state, delivered, lock, changes, database, archive, clock, faults>>

\* checkpoint.recover_change: continue from the furthest public step on record.
Recover(p) ==
    /\ w[p].pc = "recover"
    /\ LET s == w[p].sub
           a == state[s].attempt
           on(pc) == [Goto(p, pc) EXCEPT !.id = a, !.fresh = TRUE]
       IN IF ~Standing(s, w[p].review, "review-ready")
          THEN Becomes(p, Raised(p))
          ELSE IF a = None
          THEN Becomes(p, IF state[s].pr THEN Raised(p) ELSE Goto(p, "validate"))
          ELSE IF a.review # w[p].review \/ \E c \in Branch(s, a) : c.id # a
          THEN Becomes(p, Raised(p))
          ELSE LET stages == {c.stage : c \in Branch(s, a)}
               IN Becomes(p, CASE state[s].pr -> IF "open" \in stages
                                                 THEN on("await") ELSE Raised(p)
                               [] ~state[s].pr /\ "open" \in stages -> on("recheckpoint")
                               [] ~state[s].pr /\ stages = {"pushed"} -> on("reopen")
                               [] OTHER -> Goto(p, "validate"))
    /\ UNCHANGED <<state, delivered, lock, changes, database, archive, clock, faults>>

\* checkpoint.create_pr, for the branch an earlier process left behind.
Reopen(p) ==
    /\ w[p].pc = "reopen"
    /\ \/ \E c \in Branch(w[p].sub, w[p].id) :
            /\ c.stage = "pushed"
            /\ changes' = Restage(c, "open")
            /\ Becomes(p, Goto(p, "recheckpoint"))
       \/ /\ \A c \in Branch(w[p].sub, w[p].id) : c.stage # "pushed"
          /\ Becomes(p, Raised(p))
          /\ UNCHANGED changes
    /\ UNCHANGED <<state, delivered, lock, database, archive, clock, faults>>

\* checkpoint_pr through the record recover_change read before it looked at
\* the Database.
Recheckpoint(p) ==
    /\ w[p].pc = "recheckpoint"
    /\ IF w[p].fresh
       THEN WritesRecord(p, w[p].sub, [state[w[p].sub] EXCEPT !.pr = TRUE], Afresh(p, "await"))
       ELSE Becomes(p, Raised(p)) /\ UNCHANGED state
    /\ UNCHANGED <<delivered, lock, changes, database, archive, clock, faults>>

\* validate_registration on the record as it is now, then begin_registration:
\* the attempt is counted before anything is rendered, cloned or allocated.
Validate(p) ==
    /\ w[p].pc = "validate"
    /\ LET s == w[p].sub IN
       IF Standing(s, w[p].review, "review-ready")
       THEN WritesRecord(p, s,
              [state[s] EXCEPT !.attempts = IF @ < AttemptLimit THEN @ + 1 ELSE @,
                               !.cooling = FALSE],
              Afresh(p, "clone"))
       ELSE Becomes(p, Raised(p)) /\ UNCHANGED state
    /\ UNCHANGED <<delivered, lock, changes, database, archive, clock, faults>>

\* The Database checkout every allocation decision below is taken from.
Clone(p) ==
    /\ w[p].pc = "clone"
    /\ Becomes(p, [Goto(p, "allocate") EXCEPT !.seen = database])
    /\ UNCHANGED <<state, delivered, lock, changes, database, archive, clock, faults>>

\* The record read again, its standing not; then registration_attempt_identity
\* up to the decision about a saved attempt.
Allocate(p) ==
    /\ w[p].pc = "allocate"
    /\ LET s == w[p].sub
           a == state[s].attempt
           on(pc) == [Goto(p, pc) EXCEPT !.id = a, !.saved = a # None, !.fresh = TRUE]
       IN Becomes(p,
            IF a = None
            THEN IF state[s].uses = {} THEN on("acquire") ELSE Raised(p)
            ELSE IF a.review # w[p].review THEN Raised(p)
            ELSE IF Superseded(w[p].seen, a)
            THEN IF Unpublished(s, a) THEN on("relLock") ELSE Goto(p, "failDet")
            ELSE IF \E row \in state[s].uses : row.id # a THEN Raised(p)
            ELSE on("acquire"))
    /\ UNCHANGED <<state, delivered, lock, changes, database, archive, clock, faults>>

-----------------------------------------------------------------------------
(* cli._release_unpublished_attempt: three writes to two files *)

RelLock(p) ==
    /\ w[p].pc = "relLock"
    /\ LET id == w[p].id  scope == LockScope(w[p].id) IN
       IF HeldBy(w[p].sub, id, {"acquiring", "held", "releasing"})
       THEN WritesLock(p, scope, [lock[scope] EXCEPT !.status = "releasing"],
                       [Goto(p, "relState") EXCEPT !.lockFresh = TRUE])
       ELSE Becomes(p, Raised(p)) /\ UNCHANGED lock
    /\ UNCHANGED <<state, delivered, changes, database, archive, clock, faults>>

RelState(p) ==
    /\ w[p].pc = "relState"
    /\ IF w[p].fresh
       THEN WritesRecord(p, w[p].sub, [state[w[p].sub] EXCEPT !.attempt = None],
                         Goto(p, "relClear"))
       ELSE Becomes(p, Raised(p)) /\ UNCHANGED state
    /\ UNCHANGED <<delivered, lock, changes, database, archive, clock, faults>>

\* Where the caller of _release_unpublished_attempt continues.
AfterRelease(p) ==
    [w[p] EXCEPT !.pc = CASE w[p].job = "register" -> "acquire"
                          [] w[p].job = "retry" -> "requeue"
                          [] w[p].job = "deliver" -> "review",
                 !.id = None, !.saved = FALSE, !.lockFresh = FALSE]

RelClear(p) ==
    /\ w[p].pc = "relClear"
    /\ IF w[p].lockFresh
       THEN WritesLock(p, LockScope(w[p].id), NoHolder, AfterRelease(p))
       ELSE Becomes(p, Raised(p)) /\ UNCHANGED lock
    /\ UNCHANGED <<state, delivered, changes, database, archive, clock, faults>>

-----------------------------------------------------------------------------
(* Allocation: lock, attempt, lock again *)

\* registration_identity over the checkout, then _acquire_registration_lock:
\* take the scope's lock, recover it when it already names exactly this
\* submission and identity, defer otherwise.
Acquire(p) ==
    /\ w[p].pc = "acquire"
    /\ LET s == w[p].sub
           id == IF w[p].saved THEN w[p].id ELSE NewIdentity(s, w[p].review, w[p].seen)
           scope == LockScope(id)
           on == [Goto(p, IF w[p].saved THEN "hold" ELSE "save") EXCEPT
                    !.id = id, !.seen = {}, !.lockFresh = TRUE,
                    !.held = lock[scope].status = "held"]
       IN IF \/ Bound(w[p].seen, s)
             \/ ~NextFor(w[p].seen, id)
          THEN Becomes(p, Raised(p)) /\ UNCHANGED lock
          ELSE IF lock[scope] = NoHolder
          THEN WritesLock(p, scope, [sub |-> s, id |-> id, status |-> "acquiring"], on)
          ELSE /\ Becomes(p, IF HeldBy(s, id, {"acquiring", "held"}) THEN on ELSE Idle)
               /\ UNCHANGED lock
    /\ UNCHANGED <<state, delivered, changes, database, archive, clock, faults>>

SaveAttempt(p) ==
    /\ w[p].pc = "save"
    /\ IF w[p].fresh
       THEN WritesRecord(p, w[p].sub, [state[w[p].sub] EXCEPT !.attempt = w[p].id],
                         [Goto(p, "hold") EXCEPT !.saved = TRUE])
       ELSE Becomes(p, Raised(p)) /\ UNCHANGED state
    /\ UNCHANGED <<delivered, lock, changes, database, archive, clock, faults>>

\* Mutant: a lock whose attempt could not be saved is kept.
DiscardNothing(p) ==
    /\ w[p].pc = "discard"
    /\ Becomes(p, Afresh(p, "fail"))
    /\ UNCHANGED <<state, delivered, lock, changes, database, archive, clock, faults>>

\* _discard_registration_lock, whose own failure is swallowed.
Discard(p) ==
    /\ w[p].pc = "discard"
    /\ LET scope == LockScope(w[p].id) IN
       IF w[p].lockFresh /\ ~w[p].held
       THEN WritesLock(p, scope, NoHolder, Afresh(p, "fail"))
       ELSE Becomes(p, Afresh(p, "fail")) /\ UNCHANGED lock
    /\ UNCHANGED <<state, delivered, changes, database, archive, clock, faults>>

\* A lock the worker read as held is not written again.
Hold(p) ==
    /\ w[p].pc = "hold"
    /\ LET scope == LockScope(w[p].id) IN
       IF w[p].lockFresh /\ ~w[p].held
       THEN WritesLock(p, scope, [lock[scope] EXCEPT !.status = "held"],
                       Afresh(p, "start"))
       ELSE /\ Becomes(p, IF w[p].held THEN Afresh(p, "start") ELSE Raised(p))
            /\ UNCHANGED lock
    /\ UNCHANGED <<state, delivered, changes, database, archive, clock, faults>>

-----------------------------------------------------------------------------
(* Publication *)

\* Metadata is checked and the archive and Database change are prepared in
\* private, then _record_public_identity_start reads the record and the lock.
Start(p) ==
    /\ w[p].pc = "start"
    /\ LET s == w[p].sub  id == w[p].id IN
       Becomes(p,
         IF s \in Unregistrable THEN Goto(p, "failDet")
         ELSE IF \/ ~Standing(s, w[p].review, "review-ready")
                 \/ state[s].attempt # id
                 \/ ~HeldBy(s, id, {"held"})
                 \/ \E row \in state[s].uses : row.id # id \/ row.phase = "registered"
         THEN Raised(p)
         ELSE IF state[s].uses # {} THEN Goto(p, "publish")
         ELSE [Goto(p, "startWrite") EXCEPT !.fresh = TRUE])
    /\ UNCHANGED <<state, delivered, lock, changes, database, archive, clock, faults>>

StartWriteSkipped(p) ==
    /\ w[p].pc = "startWrite"
    /\ Becomes(p, Goto(p, "publish"))
    /\ UNCHANGED <<state, delivered, lock, changes, database, archive, clock, faults>>

StartWriteBlind(p) ==
    /\ w[p].pc = "startWrite"
    /\ LET row == [id |-> w[p].id, phase |-> "publication-started"]
       IN WritesRecord(p, w[p].sub, [state[w[p].sub] EXCEPT !.uses = {row}], Goto(p, "publish"))
    /\ UNCHANGED <<delivered, lock, changes, database, archive, clock, faults>>

StartWrite(p) ==
    /\ w[p].pc = "startWrite"
    /\ LET s == w[p].sub IN
       IF w[p].fresh
       THEN WritesRecord(p, s,
              [state[s] EXCEPT !.uses = @ \cup
                 {[id |-> w[p].id, phase |-> "publication-started"]}],
              Afresh(p, "publish"))
       ELSE Becomes(p, Raised(p)) /\ UNCHANGED state
    /\ UNCHANGED <<delivered, lock, changes, database, archive, clock, faults>>

\* cli.publish_preservation: the refs can never be moved or deleted again.
Publish(p) ==
    /\ w[p].pc = "publish"
    /\ archive' = archive \cup {[sub |-> w[p].sub, id |-> w[p].id]}
    /\ Becomes(p, Goto(p, "published"))
    /\ UNCHANGED <<state, delivered, lock, changes, database, clock, faults>>

\* _record_public_identity_published: the lock is checked, consent is not.
Published(p) ==
    /\ w[p].pc = "published"
    /\ LET s == w[p].sub
           phases == {row.phase : row \in {u \in state[s].uses : u.id = w[p].id}}
       IN Becomes(p,
            IF ~HeldBy(s, w[p].id, {"held"}) THEN Raised(p)
            ELSE CASE phases = {"published"} -> Goto(p, "push")
                   [] phases = {"publication-started"} ->
                        [Goto(p, "publishedWrite") EXCEPT !.fresh = TRUE]
                   [] OTHER -> Raised(p))
    /\ UNCHANGED <<state, delivered, lock, changes, database, archive, clock, faults>>

\* The record with its row for id moved to a later phase.
InPhase(record, id, phase) ==
    [record EXCEPT !.uses = {IF row.id = id THEN [row EXCEPT !.phase = phase]
                             ELSE row : row \in @}]

PublishedWriteSkipped(p) ==
    /\ w[p].pc = "publishedWrite"
    /\ Becomes(p, Goto(p, "push"))
    /\ UNCHANGED <<state, delivered, lock, changes, database, archive, clock, faults>>

PublishedWriteBlind(p) ==
    /\ w[p].pc = "publishedWrite"
    /\ WritesRecord(p, w[p].sub, InPhase(state[w[p].sub], w[p].id, "published"), Goto(p, "push"))
    /\ UNCHANGED <<delivered, lock, changes, database, archive, clock, faults>>

PublishedWrite(p) ==
    /\ w[p].pc = "publishedWrite"
    /\ LET s == w[p].sub IN
       IF w[p].fresh
       THEN WritesRecord(p, s, InPhase(state[s], w[p].id, "published"), Afresh(p, "push"))
       ELSE Becomes(p, Raised(p)) /\ UNCHANGED state
    /\ UNCHANGED <<delivered, lock, changes, database, archive, clock, faults>>

\* An ordinary push: a branch that appeared meanwhile is never overwritten.
Push(p) ==
    /\ w[p].pc = "push"
    /\ IF Branch(w[p].sub, w[p].id) = {}
       THEN /\ changes' = changes \cup
                 {[sub |-> w[p].sub, id |-> w[p].id, stage |-> "pushed"]}
            /\ Becomes(p, Goto(p, "open"))
       ELSE Becomes(p, Raised(p)) /\ UNCHANGED changes
    /\ UNCHANGED <<state, delivered, lock, database, archive, clock, faults>>

\* The open pull request of the branch is reused, or one is created.
OpenPR(p) ==
    /\ w[p].pc = "open"
    /\ \/ \E c \in Branch(w[p].sub, w[p].id) :
            /\ changes' = Restage(c, "open")
            /\ Becomes(p, Goto(p, "checkpoint"))
       \/ /\ Branch(w[p].sub, w[p].id) = {}
          /\ Becomes(p, Raised(p))
          /\ UNCHANGED changes
    /\ UNCHANGED <<state, delivered, lock, database, archive, clock, faults>>

\* The record read again, its standing and attempt checked, the open pull
\* request bound to it.
Checkpoint(p) ==
    /\ w[p].pc = "checkpoint"
    /\ LET s == w[p].sub IN
       IF /\ Standing(s, w[p].review, "review-ready")
          /\ state[s].attempt = w[p].id
          /\ [sub |-> s, id |-> w[p].id, stage |-> "open"] \in changes
       THEN WritesRecord(p, s, [state[s] EXCEPT !.pr = TRUE], Afresh(p, "await"))
       ELSE Becomes(p, Raised(p)) /\ UNCHANGED state
    /\ UNCHANGED <<delivered, lock, changes, database, archive, clock, faults>>

-----------------------------------------------------------------------------
(* Merging and finalizing *)

\* The record with an open change a pass takes from the queue.
BeginAdvance(p, s) ==
    /\ w[p].pc = "idle"
    /\ state[s].status = "review-ready"
    /\ state[s].consent # None
    /\ state[s].pr
    /\ state[s].attempt # None
    /\ Becomes(p, [Idle EXCEPT !.pc = "await", !.sub = s, !.id = state[s].attempt])
    /\ UNCHANGED <<state, delivered, lock, changes, database, archive, clock, faults>>

\* The operator's finalize command, given a submission and a merged change.
BeginFinalize(p, s) ==
    /\ w[p].pc = "idle"
    /\ \E c \in changes :
         /\ c.sub = s
         /\ c.stage = "merged"
         /\ Becomes(p, [Idle EXCEPT !.pc = "finalize", !.sub = s, !.id = c.id])
    /\ UNCHANGED <<state, delivered, lock, changes, database, archive, clock, faults>>

Change(p, stage) == [sub |-> w[p].sub, id |-> w[p].id, stage |-> stage]

\* What the Database's own validation and git let into main.
Mergeable(s, id) == ~Bound(database, s) /\ NextFor(database, id)

Await(p) ==
    /\ w[p].pc = "await"
    /\ Becomes(p, IF Change(p, "merged") \in changes THEN Goto(p, "finalize")
                  ELSE IF /\ Change(p, "open") \in changes
                          /\ Mergeable(w[p].sub, w[p].id)
                  THEN Goto(p, "consent")
                  ELSE Idle)
    /\ UNCHANGED <<state, delivered, lock, changes, database, archive, clock, faults>>

ReadConsent(p) ==
    /\ w[p].pc = "consent"
    /\ LET s == w[p].sub IN
       Becomes(p, IF state[s].status = "review-ready" /\ state[s].consent # None
                  THEN Goto(p, "merge") ELSE Idle)
    /\ UNCHANGED <<state, delivered, lock, changes, database, archive, clock, faults>>

\* Pinned to the head that was validated; a conflict with main fails it.
Merge(p) ==
    /\ w[p].pc = "merge"
    /\ IF Change(p, "open") \in changes /\ Mergeable(w[p].sub, w[p].id)
       THEN /\ changes' = Restage(Change(p, "open"), "merged")
            /\ database' = database \cup {EntryOf(w[p].sub, w[p].id)}
            /\ Becomes(p, Goto(p, "finalize"))
       ELSE /\ Becomes(p, Raised(p))
            /\ UNCHANGED <<changes, database>>
    /\ UNCHANGED <<state, delivered, lock, archive, clock, faults>>

\* cli.finalize up to its write: the saved attempt is the merged record's, it
\* holds its lock and its archive publication is on record.
FinalizeCheck(p) ==
    /\ w[p].pc = "finalize"
    /\ LET s == w[p].sub
           a == state[s].attempt
       IN Becomes(p,
            IF /\ a # None
               /\ SameKey(a, w[p].id)
               /\ HeldBy(s, a, {"held"})
               /\ \E row \in state[s].uses :
                    row.id = a /\ row.phase \in {"published", "registered"}
            THEN [Goto(p, "finalizeWrite") EXCEPT !.id = a, !.fresh = TRUE]
            ELSE Raised(p))
    /\ UNCHANGED <<state, delivered, lock, changes, database, archive, clock, faults>>

\* The status it replaces is not looked at again.
FinalizeWrite(p) ==
    /\ w[p].pc = "finalizeWrite"
    /\ LET s == w[p].sub IN
       IF w[p].fresh
       THEN WritesRecord(p, s,
              [InPhase(state[s], w[p].id, "registered") EXCEPT !.status = "registered"],
              Afresh(p, "unlock"))
       ELSE Becomes(p, Raised(p)) /\ UNCHANGED state
    /\ UNCHANGED <<delivered, lock, changes, database, archive, clock, faults>>

\* _release_registration_lock
Unlock(p) ==
    /\ w[p].pc = "unlock"
    /\ LET scope == LockScope(w[p].id)
           on == [Goto(p, "clear") EXCEPT !.lockFresh = TRUE]
       IN IF HeldBy(w[p].sub, w[p].id, {"held"})
          THEN WritesLock(p, scope, [lock[scope] EXCEPT !.status = "releasing"], on)
          ELSE /\ Becomes(p, IF HeldBy(w[p].sub, w[p].id, {"releasing"}) THEN on ELSE Raised(p))
               /\ UNCHANGED lock
    /\ UNCHANGED <<state, delivered, changes, database, archive, clock, faults>>

Clear(p) ==
    /\ w[p].pc = "clear"
    /\ IF w[p].lockFresh
       THEN WritesLock(p, LockScope(w[p].id), NoHolder, Idle)
       ELSE Becomes(p, Raised(p)) /\ UNCHANGED lock
    /\ UNCHANGED <<state, delivered, changes, database, archive, clock, faults>>

-----------------------------------------------------------------------------
(* Failures, retries and replacement reviews *)

\* record_registration_failure, unless the record moved on meanwhile.
RecordFailure(p) ==
    /\ w[p].pc \in {"fail", "failDet"}
    /\ LET s == w[p].sub
           paused == w[p].pc = "failDet" \/ state[s].attempts = AttemptLimit
       IN IF state[s].status = "review-ready" /\ state[s].consent # None /\ ~state[s].pr
          THEN WritesRecord(p, s,
                 [state[s] EXCEPT !.status = IF paused THEN "registration-paused" ELSE @,
                                  !.cooling = ~paused],
                 Idle)
          ELSE Becomes(p, Idle) /\ UNCHANGED state
    /\ UNCHANGED <<delivered, lock, changes, database, archive, clock, faults>>

\* An operator's retry-registration: the same review and consent as before; an
\* attempt that was never public is released first.
BeginRetry(p, s) ==
    /\ w[p].pc = "idle"
    /\ Standing(s, delivered[s], "registration-paused")
    /\ LET a == state[s].attempt IN
       /\ \A row \in state[s].uses : row.id = a
       /\ Becomes(p, [Idle EXCEPT
            !.pc = IF a # None /\ Unpublished(s, a) THEN "relLock" ELSE "requeue",
            !.job = "retry", !.sub = s, !.id = a, !.saved = a # None, !.fresh = TRUE])
    /\ UNCHANGED <<state, delivered, lock, changes, database, archive, clock, faults>>

Requeue(p) ==
    /\ w[p].pc = "requeue"
    /\ LET s == w[p].sub IN
       IF w[p].fresh
       THEN WritesRecord(p, s,
              [state[s] EXCEPT !.status = "review-ready", !.attempts = 0, !.cooling = FALSE],
              Idle)
       ELSE Becomes(p, Idle) /\ UNCHANGED state
    /\ UNCHANGED <<delivered, lock, changes, database, archive, clock, faults>>

Reviewable(s) ==
    state[s].status \in {"reviewing", "review-ready"} /\ delivered[s] < MaxReviews

\* A pass says a review is running; an operator's run does not.
BeginReview(p, s) ==
    /\ w[p].pc = "idle"
    /\ Reviewable(s)
    /\ WritesRecord(p, s, [state[s] EXCEPT !.status = "reviewing"],
                    [Idle EXCEPT !.pc = "deliver", !.job = "deliver", !.sub = s])
    /\ UNCHANGED <<delivered, lock, changes, database, archive, clock, faults>>

BeginRun(p, s) ==
    /\ w[p].pc = "idle"
    /\ Reviewable(s)
    /\ Becomes(p, [Idle EXCEPT !.pc = "deliver", !.job = "deliver", !.sub = s])
    /\ UNCHANGED <<state, delivered, lock, changes, database, archive, clock, faults>>

\* prepare_workspace reads the record the whole delivery is decided on.
DeliverRead(p) ==
    /\ w[p].pc = "deliver"
    /\ LET s == w[p].sub
           a == state[s].attempt
           on(pc) == [Goto(p, pc) EXCEPT !.id = a, !.saved = a # None, !.fresh = TRUE]
       IN Becomes(p, IF state[s].status \notin {"reviewing", "review-ready"} THEN Idle
                     ELSE IF a = None THEN on("review")
                     ELSE IF Unpublished(s, a) THEN on("relLock")
                     ELSE Idle)
    /\ UNCHANGED <<state, delivered, lock, changes, database, archive, clock, faults>>

\* deliver_review writes the review first and the record that names it second.
WriteReview(p) ==
    /\ w[p].pc = "review"
    /\ LET s == w[p].sub IN
       IF delivered[s] < MaxReviews
       THEN /\ delivered' = [delivered EXCEPT ![s] = @ + 1]
            /\ Becomes(p, [Goto(p, "deliverWrite") EXCEPT !.review = delivered[s] + 1])
       ELSE Becomes(p, Idle) /\ UNCHANGED delivered
    /\ UNCHANGED <<state, lock, changes, database, archive, clock, faults>>

DeliverWriteBlind(p) ==
    /\ w[p].pc = "deliverWrite"
    /\ WritesRecord(p, w[p].sub,
         [state[w[p].sub] EXCEPT !.status = "review-ready", !.review = w[p].review,
                                 !.consent = None, !.attempt = None], Idle)
    /\ UNCHANGED <<delivered, lock, changes, database, archive, clock, faults>>

DeliverWrite(p) ==
    /\ w[p].pc = "deliverWrite"
    /\ LET s == w[p].sub IN
       IF w[p].fresh
       THEN WritesRecord(p, s,
              [state[s] EXCEPT !.status = "review-ready", !.review = w[p].review,
                               !.consent = None, !.attempt = None],
              Idle)
       ELSE Becomes(p, Idle) /\ UNCHANGED state
    /\ UNCHANGED <<delivered, lock, changes, database, archive, clock, faults>>

-----------------------------------------------------------------------------
(* Faults and the environment *)

\* The process dies.
Crash(p) ==
    /\ w[p].pc # "idle"
    /\ faults < MaxFaults
    /\ faults' = faults + 1
    /\ Becomes(p, Idle)
    /\ UNCHANGED <<state, delivered, lock, changes, database, archive, clock>>

\* A read, a write or a workflow the step needs fails and changes nothing; a
\* failing give-back of a lock is swallowed.
Raise(p) ==
    /\ w[p].pc \notin {"idle", "fail", "failDet"}
    /\ faults < MaxFaults
    /\ faults' = faults + 1
    /\ Becomes(p, Raised(p))
    /\ UNCHANGED <<state, delivered, lock, changes, database, archive, clock>>

\* The reservation is written, and the answer saying so is lost.
LoseAnswer(p) ==
    /\ w[p].pc = "save"
    /\ w[p].fresh
    /\ faults < MaxFaults
    /\ faults' = faults + 1
    /\ WritesRecord(p, w[p].sub, [state[w[p].sub] EXCEPT !.attempt = w[p].id], Raised(p))
    /\ UNCHANGED <<delivered, lock, changes, database, archive, clock>>

Forgotten(s) == [q \in Workers |-> [w[q] EXCEPT !.fresh = @ /\ w[q].sub # s]]
SubmitterWrites(s, record) ==
    /\ state' = [state EXCEPT ![s] = record]
    /\ w' = Forgotten(s)
    /\ UNCHANGED <<delivered, lock, changes, database, archive, clock, faults>>

\* The submitter consents, once, to the review the server shows.
GiveConsent(s) ==
    /\ state[s].status = "review-ready"
    /\ state[s].consent = None
    /\ \E review \in {state[s].review, delivered[s]} :
         SubmitterWrites(s, [state[s] EXCEPT !.consent = review])

Withdraw(s) ==
    /\ state[s].status \notin {"withdrawn", "registered"}
    /\ SubmitterWrites(s, [state[s] EXCEPT !.status = "withdrawn"])

\* The backoff of a failed registration is over.
CoolOff(s) ==
    /\ state[s].cooling
    /\ state' = [state EXCEPT ![s].cooling = FALSE]
    /\ UNCHANGED <<delivered, lock, changes, database, archive, clock, faults, w>>

Tick ==
    /\ clock < MaxClock
    /\ clock' = clock + 1
    /\ UNCHANGED <<state, delivered, lock, changes, database, archive, faults, w>>

-----------------------------------------------------------------------------
(* The system *)

Register(p) ==
    \/ Recover(p) \/ Reopen(p) \/ Recheckpoint(p) \/ Validate(p) \/ Clone(p)
    \/ Allocate(p) \/ Acquire(p) \/ SaveAttempt(p) \/ Discard(p) \/ Hold(p)
    \/ Start(p) \/ StartWrite(p) \/ Publish(p) \/ Published(p)
    \/ PublishedWrite(p) \/ Push(p) \/ OpenPR(p) \/ Checkpoint(p)
    \/ RecordFailure(p)

Release(p) == RelLock(p) \/ RelState(p) \/ RelClear(p)

Advance(p) ==
    \/ Await(p) \/ ReadConsent(p) \/ Merge(p) \/ FinalizeCheck(p)
    \/ FinalizeWrite(p) \/ Unlock(p) \/ Clear(p)

Deliver(p) == DeliverRead(p) \/ WriteReview(p) \/ DeliverWrite(p)

Step(p) == Register(p) \/ Release(p) \/ Advance(p) \/ Deliver(p) \/ Requeue(p)

Begin(p, s) ==
    \/ BeginRegister(p, s) \/ BeginAdvance(p, s) \/ BeginFinalize(p, s)
    \/ BeginRetry(p, s) \/ BeginReview(p, s) \/ BeginRun(p, s)

Next ==
    \/ \E p \in Workers : Step(p) \/ Crash(p) \/ Raise(p) \/ LoseAnswer(p)
    \/ \E p \in Workers, s \in Submissions : Begin(p, s)
    \/ \E s \in Submissions : GiveConsent(s) \/ Withdraw(s) \/ CoolOff(s)
    \/ Tick

Spec == Init /\ [][Next]_vars

\* A running command is not stopped between two steps; the scheduled pass comes
\* round again, takes every open change and the first registration of the
\* queue; a backoff ends.  Nothing makes an operator or a submitter act.
Fairness ==
    /\ \A p \in Workers :
         /\ WF_vars(Step(p))
         /\ SF_vars(\E s \in Submissions : BeginRegister(p, s))
         /\ \A s \in Submissions : SF_vars(BeginAdvance(p, s))
    /\ \A s \in Submissions : WF_vars(CoolOff(s))

FairSpec == Spec /\ Fairness

-----------------------------------------------------------------------------
(* Properties *)

TypeOK ==
    /\ state \in [Submissions -> Records]
    /\ delivered \in [Submissions -> Reviews]
    /\ lock \in [Scopes -> Holders \cup {NoHolder}]
    /\ changes \subseteq Changes
    /\ database \subseteq Entries
    /\ archive \subseteq [sub: Submissions, id: Identities]
    /\ clock \in 0 .. MaxClock
    /\ faults \in 0 .. MaxFaults
    /\ w \in [Workers -> WorkerStates]

\* What is public in the archive is on record as public, under the same
\* identity, whatever crashed in between: cli.register records
\* publication-started before it publishes, and no later step takes the row
\* back.
PublicIsRecorded ==
    \A x \in archive : \E row \in state[x.sub].uses : row.id = x.id

\* A public identity that is not registered yet still owns the allocation lock
\* of its scope, so nobody else can be given its name: neither the release of
\* an unpublished attempt nor the discard of a lost one gets between the
\* publication record and the lock.
PublicHoldsLock ==
    \A s \in Submissions : \A row \in state[s].uses :
        row.phase # "registered" => HeldBy(s, row.id, {"held", "releasing"})

\* The one identity a submission shows the public is its saved attempt, made
\* for the review that is delivered and that the submitter consented to; no
\* replacement review, however delivered, comes between.
PublicReviewConsented ==
    \A s \in Submissions : \A row \in state[s].uses :
        /\ state[s].attempt = row.id
        /\ state[s].review = row.id.review
        /\ state[s].consent = row.id.review
        /\ state[s].uses = {row}

\* A branch of the Database exists only for an identity whose archive refs are
\* public and whose receipt is bound to the record.
BranchIsPublished ==
    \A c \in changes :
        /\ [sub |-> c.sub, id |-> c.id] \in archive
        /\ \E row \in state[c.sub].uses :
             row.id = c.id /\ row.phase \in {"published", "registered"}

\* No two submissions show the public the same name and version.
UniquePublicIdentity ==
    \A x, y \in archive : SameKey(x.id, y.id) => x.sub = y.sub

Onwards(phase) ==
    CASE phase = "publication-started" -> Phases
      [] phase = "published" -> {"published", "registered"}
      [] phase = "registered" -> {"registered"}

\* Evidence of a public identity is never dropped and never moved back to an
\* earlier phase, by a worker however far behind the others it is.
PublicIsPermanent ==
    [][\A s \in Submissions : \A row \in state[s].uses :
         \E next \in state'[s].uses :
             next.id = row.id /\ next.phase \in Onwards(row.phase)]_vars

\* A withdrawal is final: whatever was running, no identity is put on record as
\* public afterwards, and the status only gives way to a registration that had
\* been merged.
WithdrawalStands ==
    [][\A s \in Submissions : state[s].status = "withdrawn" =>
         /\ {row.id : row \in state'[s].uses} = {row.id : row \in state[s].uses}
         /\ \/ state'[s].status = "withdrawn"
            \/ /\ state'[s].status = "registered"
               /\ \E e \in database : e.sub = s]_vars

\* A registration that waits: consented, standing, and acceptable to the schema.
Waiting(s) == s \notin Unregistrable /\ Standing(s, delivered[s], "review-ready")

\* Paused work leaves the automatic queue and does not keep the next consented
\* submission behind it, says the repository's README: a registration that waits
\* while another is paused comes to its end, whether or not an operator ever sees
\* to the other.  But record_registration_failure keeps the lock of what it pauses.
PausedMakesWay ==
    \A s, t \in Submissions :
        (Waiting(s) /\ state[t].status = "registration-paused")
            ~> (~Waiting(s) \/ state[t].status # "registration-paused")

\* The locks that no record explains: no command is at work on what the lock
\* names, and the record of its holder names something else or is registered.
Stranded ==
    {scope \in Scopes :
        LET l == lock[scope] IN
        /\ l # NoHolder
        /\ \A p \in Workers : ~(w[p].sub = l.sub /\ w[p].id = l.id)
        /\ state[l.sub].attempt = l.id => state[l.sub].status = "registered"}

\* With one command at a time every such lock was left behind by a crash, a failed
\* call or a lost answer, each leaving one at most: a withdrawal or another write
\* of the record between the steps of an acquisition, a release or the end of a
\* registration strands none, and a retry, whatever it derives from the clock,
\* strands no second one.
StrandedOnlyByFaults == Cardinality(Stranded) <= faults

\* The protocol implements PublicIdentity: an attempt reserves, the row of
\* public_identity_uses announces, the archive shows.
PhaseOf(s) ==
    IF state[s].uses = {} THEN "private"
    ELSE IF \E row \in state[s].uses : row.phase = "registered" THEN "registered"
    ELSE "public"
Promise == INSTANCE PublicIdentity WITH
    reserved <- [s \in Submissions |-> state[s].attempt],
    phase <- [s \in Submissions |-> PhaseOf(s)],
    shown <- archive,
    Scope <- LockScope
KeepsPromise == Promise!Spec

-----------------------------------------------------------------------------
(* The inductive invariant: what each worker may rely on where it stands. *)

\* A copy of the record that is still live says what it said when it was read.
FreshCopy(x) ==
    LET r == state[x.sub] IN
    /\ x.pc \in {"relLock", "relState"} => r.attempt = x.id /\ r.uses = {}
    /\ x.pc \in {"acquire", "save"} /\ ~x.saved => r.attempt = None
    /\ x.pc \in {"relClear", "review", "deliverWrite"} => r.attempt = None
    /\ x.pc = "startWrite" =>
         /\ r.attempt = x.id
         /\ r.uses = {}
         /\ r.review = x.id.review
         /\ r.consent = x.id.review
         /\ HeldBy(x.sub, x.id, {"held", "releasing"})
    /\ x.pc = "publishedWrite" =>
         r.uses = {[id |-> x.id, phase |-> "publication-started"]}
    /\ x.pc = "finalizeWrite" => \E row \in r.uses : row.id = x.id

\* So does a copy of the lock.
FreshLock(x) ==
    /\ x.pc \in {"save", "discard", "hold"} /\ ~x.held => HeldBy(x.sub, x.id, {"acquiring"})
    /\ x.pc \in {"relState", "relClear", "clear"} => HeldBy(x.sub, x.id, {"releasing"})
    /\ x.pc = "relClear" => \A row \in state[x.sub].uses : row.id # x.id

\* The identity a worker carries.
IdentityPCs == {"reopen", "recheckpoint", "save", "discard", "hold", "start",
                "startWrite", "publish", "published", "publishedWrite", "push",
                "open", "checkpoint"} \cup AdvancePCs \cup ReleasePCs
Carries(x) ==
    /\ x.pc # "idle" => x.sub \in Submissions
    /\ x.pc \in IdentityPCs => x.id \in Identities
    /\ x.pc \in {"save", "discard", "hold", "start", "startWrite"} => x.id.review = x.review
    /\ x.pc = "save" => ~x.saved
    /\ x.pc = "acquire" /\ x.saved => x.id \in Identities /\ x.id.review = x.review
    /\ x.pc = "publish" => \E row \in state[x.sub].uses : row.id = x.id
    /\ x.pc \in {"unlock", "clear"} =>
         [id |-> x.id, phase |-> "registered"] \in state[x.sub].uses

Sound(x) ==
    /\ x.fresh => FreshCopy(x)
    /\ x.lockFresh => FreshLock(x)
    /\ Carries(x)

\* Nobody may put on record as public the identity another is about to free.
Clash(x, y) ==
    /\ x.pc = "relClear" /\ x.lockFresh
    /\ y.pc = "startWrite" /\ y.fresh
    /\ x.sub = y.sub /\ x.id = y.id

Inv ==
    /\ TypeOK
    /\ PublicReviewConsented
    /\ PublicHoldsLock
    /\ PublicIsRecorded
    /\ \A p \in Workers : Sound(w[p])
    /\ \A p, q \in Workers : ~Clash(w[p], w[q])
=============================================================================
