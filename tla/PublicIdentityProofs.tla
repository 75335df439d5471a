------------------------ MODULE PublicIdentityProofs ------------------------
(***************************************************************************)
(* What registration promises of permanent identities, proved: that the    *)
(* protocol of Registration implements PublicIdentity, that a branch of    *)
(* the Database is of a published identity, that a withdrawal is final,    *)
(* and that no two submissions are shown under one name.                   *)
(*                                                                         *)
(* The inductive invariant of RegistrationProofs says what a worker's live *)
(* copies may be relied on for.  The second one, below, ties the names of  *)
(* identities to the entries of the Database and to the holders of locks.  *)
(***************************************************************************)
EXTENDS RegistrationProofs

-----------------------------------------------------------------------------
(* The protocol implements PublicIdentity *)

SameAttempts == \A s \in Submissions : state'[s].attempt = state[s].attempt

\* A step that leaves attempts and rows alone, and publishes nothing, is a stutter.
LEMMA Stutters ==
    ASSUME SameAttempts, SameRows, UNCHANGED archive
    PROVE  UNCHANGED Promise!vars
<1>1. \A s \in Submissions : PhaseOf(s)' = PhaseOf(s)
  BY DEF SameRows, PhaseOf
<1>2. [s \in Submissions |-> state[s].attempt]' = [s \in Submissions |-> state[s].attempt]
  BY DEF SameAttempts
<1>3. [s \in Submissions |-> PhaseOf(s)]' = [s \in Submissions |-> PhaseOf(s)]
  BY <1>1
<1> QED
  BY <1>2, <1>3 DEF Promise!vars

\* The files start out as the promise does.
LEMMA InitPromises == Init => Promise!Init
<1> SUFFICES ASSUME Init PROVE Promise!Init
  OBVIOUS
<1>1. \A s \in Submissions : state[s].attempt = None /\ PhaseOf(s) = "private"
  BY DEF Init, PhaseOf
<1> QED
  BY <1>1 DEF Promise!Init, Init

\* A record rewritten with the rows it had shows the same phase.
LEMMA SamePhase ==
    ASSUME NEW s \in Submissions, state'[s].uses = state[s].uses
    PROVE  PhaseOf(s)' = PhaseOf(s)
<1> QED
  BY DEF PhaseOf

\* What the phase of a submission says of its record.
LEMMA PhaseSays ==
    ASSUME IInv, NEW s \in Submissions
    PROVE  /\ state[s].uses = {} => PhaseOf(s) = "private"
           /\ \A row \in state[s].uses :
                /\ state[s].attempt = row.id
                /\ row.phase = "registered" => PhaseOf(s) = "registered"
                /\ row.phase # "registered" => PhaseOf(s) = "public"
<1>1. \A row \in state[s].uses : state[s].uses = {row} /\ state[s].attempt = row.id
  BY DEF IInv, Inv, PublicReviewConsented
<1> QED
  BY <1>1 DEF PhaseOf

\* A step that rewrites one record moves what it reserves and shows.
LEMMA Moves ==
    ASSUME NEW s \in Submissions, \A t \in Submissions \ {s} : state'[t] = state[t]
    PROVE  /\ [t \in Submissions |-> state[t].attempt]'
                = [[t \in Submissions |-> state[t].attempt] EXCEPT ![s] = state'[s].attempt]
           /\ \A phase : PhaseOf(s)' = phase =>
                [t \in Submissions |-> PhaseOf(t)]'
                = [[t \in Submissions |-> PhaseOf(t)] EXCEPT ![s] = phase]
<1>1. \A t \in Submissions \ {s} : PhaseOf(t)' = PhaseOf(t)
  BY SamePhase
<1>2. [t \in Submissions |-> state[t].attempt]'
        = [[t \in Submissions |-> state[t].attempt] EXCEPT ![s] = state'[s].attempt]
  OBVIOUS
<1>3. ASSUME NEW phase, PhaseOf(s)' = phase
      PROVE  [t \in Submissions |-> PhaseOf(t)]'
             = [[t \in Submissions |-> PhaseOf(t)] EXCEPT ![s] = phase]
  BY <1>1, <1>3
<1> QED
  BY <1>2, <1>3

\* A record rewritten with one row shows the phase of that row.
LEMMA PhaseBecomes ==
    \A s, id, phase : state'[s].uses = {[id |-> id, phase |-> phase]} =>
        PhaseOf(s)' = IF phase = "registered" THEN "registered" ELSE "public"
<1> SUFFICES ASSUME NEW s, NEW id, NEW phase, state'[s].uses = {[id |-> id, phase |-> phase]}
             PROVE  PhaseOf(s)' = IF phase = "registered" THEN "registered" ELSE "public"
  OBVIOUS
<1> DEFINE row == [id |-> id, phase |-> phase]
<1>1. state'[s].uses = {row} /\ row.phase = phase
  OBVIOUS
<1> HIDE DEF row
<1> QED
  BY <1>1 DEF PhaseOf

\* A saved attempt is a reservation, whether or not the answer arrived
\* (registration_attempt_identity).
LEMMA SavePromised ==
    ASSUME IInv, NEW p \in Workers, w[p].pc = "save", w[p].fresh,
           state' = [state EXCEPT ![w[p].sub] = [state[w[p].sub] EXCEPT !.attempt = w[p].id]],
           UNCHANGED archive
    PROVE  \A s : s = w[p].sub => Promise!Reserve(s)
<1> TAKE s
<1> HAVE s = w[p].sub
<1> DEFINE reserved == [t \in Submissions |-> state[t].attempt]
<1>1. w[p].id \in Identities /\ s \in Submissions /\ state[s] \in Records
  BY Running DEF Sound, Carries, IdentityPCs
<1>2. state[s].attempt = None
  BY <1>1, Running DEF Sound, FreshCopy, Carries
<1>3. /\ state'[s].attempt = w[p].id /\ state'[s].uses = state[s].uses
      /\ \A t \in Submissions \ {s} : state'[t] = state[t]
  BY <1>1 DEF Records, IInv, Inv, TypeOK
<1>4. \A t \in Submissions : state'[t].uses = state[t].uses
  BY <1>3
<1>5. \A t \in Submissions : PhaseOf(t)' = PhaseOf(t)
  BY <1>4, SamePhase
<1>6. [t \in Submissions |-> state[t].attempt]' = [reserved EXCEPT ![s] = state'[s].attempt]
  BY <1>1, <1>3, Moves
<1> QED
  BY <1>1, <1>2, <1>3, <1>5, <1>6 DEF Promise!Reserve

\* Releasing an attempt that was never public gives the reservation back
\* (_release_unpublished_attempt).
LEMMA ReleasePromised ==
    ASSUME IInv, NEW p \in Workers, RelState(p), w[p].fresh
    PROVE  \A s : s = w[p].sub => Promise!GiveBack(s)
<1> TAKE s
<1> HAVE s = w[p].sub
<1> DEFINE reserved == [t \in Submissions |-> state[t].attempt]
<1>1. /\ w[p].pc = "relState" /\ w[p].id \in Identities /\ s \in Submissions
      /\ state[s] \in Records
  BY Running DEF RelState, Sound, Carries, IdentityPCs, ReleasePCs
<1>2. state[s].attempt = w[p].id /\ state[s].uses = {}
  BY <1>1, Running DEF Sound, FreshCopy
<1>3. state[s].attempt # None /\ PhaseOf(s) = "private"
  BY <1>1, <1>2, PhaseSays, NoneAssumption
<1>4. state' = [state EXCEPT ![s] = [state[s] EXCEPT !.attempt = None]] /\ archive' = archive
  BY DEF RelState, WritesRecord
<1>5. /\ state'[s].attempt = None /\ state'[s].uses = state[s].uses
      /\ \A t \in Submissions \ {s} : state'[t] = state[t]
  BY <1>1, <1>4 DEF Records, IInv, Inv, TypeOK
<1>6. \A t \in Submissions : state'[t].uses = state[t].uses
  BY <1>5
<1>7. \A t \in Submissions : PhaseOf(t)' = PhaseOf(t)
  BY <1>6, SamePhase
<1>8. [t \in Submissions |-> state[t].attempt]' = [reserved EXCEPT ![s] = None]
  BY <1>1, <1>5
<1> QED
  BY <1>1, <1>3, <1>4, <1>7, <1>8 DEF Promise!GiveBack

\* Recording publication-started announces: the lock the submission still holds is
\* nobody else's, so no other public identity has that scope
\* (_record_public_identity_start).
LEMMA StartPromised ==
    ASSUME IInv, NEW p \in Workers, StartWrite(p), w[p].fresh
    PROVE  \A s : s = w[p].sub => Promise!Announce(s)
<1> TAKE s
<1> HAVE s = w[p].sub
<1> DEFINE id == w[p].id
           row == [id |-> id, phase |-> "publication-started"]
           phases == [t \in Submissions |-> PhaseOf(t)]
<1>1. /\ w[p].pc = "startWrite" /\ id \in Identities /\ s \in Submissions
      /\ state[s] \in Records
  BY Running DEF StartWrite, Sound, Carries, IdentityPCs
<1>2. /\ state[s].attempt = id /\ state[s].uses = {}
      /\ HeldBy(s, id, {"held", "releasing"})
  BY <1>1, Running DEF Sound, FreshCopy
<1>3. state[s].attempt # None /\ PhaseOf(s) = "private"
  BY <1>1, <1>2, PhaseSays, NoneAssumption
<1>4. ASSUME NEW t \in Submissions \ {s}, PhaseOf(t) = "public"
      PROVE  LockScope(state[t].attempt) # LockScope(state[s].attempt)
  <2>1. PICK u \in state[t].uses : u.phase # "registered"
    BY <1>4, PhaseSays DEF PhaseOf
  <2>2. state[t].attempt = u.id /\ HeldBy(t, u.id, {"held", "releasing"})
    BY <2>1, PhaseSays DEF IInv, Inv, PublicHoldsLock
  <2> QED
    BY <1>2, <2>2 DEF HeldBy
<1>5. state' = [state EXCEPT ![s] = [state[s] EXCEPT !.uses = @ \cup {row}]] /\ archive' = archive
  BY DEF StartWrite, WritesRecord
<1>6. /\ state'[s].attempt = state[s].attempt /\ state'[s].uses = {row}
      /\ \A t \in Submissions \ {s} : state'[t] = state[t]
  BY <1>1, <1>2, <1>5 DEF Records, IInv, Inv, TypeOK
<1>7. row.phase = "publication-started"
  OBVIOUS
<1> HIDE DEF row
<1>8. PhaseOf(s)' = "public"
  BY <1>6, <1>7 DEF PhaseOf
<1>10. [t \in Submissions |-> PhaseOf(t)]' = [phases EXCEPT ![s] = "public"]
  BY <1>1, <1>6, <1>8, Moves
<1>11. [t \in Submissions |-> state[t].attempt]' = [t \in Submissions |-> state[t].attempt]
  BY <1>6
<1> QED
  BY <1>1, <1>3, <1>4, <1>5, <1>10, <1>11 DEF Promise!Announce

\* Binding the receipt moves the row within what is public.
LEMMA ReceiptPromised ==
    ASSUME IInv, NEW p \in Workers, PublishedWrite(p), w[p].fresh
    PROVE  UNCHANGED Promise!vars
<1> PICK s : s = w[p].sub
  OBVIOUS
<1> DEFINE id == w[p].id
           row == [id |-> id, phase |-> "publication-started"]
           moved == InPhase(state[s], id, "published")
<1>1. w[p].pc = "publishedWrite" /\ s \in Submissions /\ state[s] \in Records
  BY Running DEF PublishedWrite
<1>2. row \in state[s].uses /\ row.id = id /\ row.phase = "publication-started"
  BY <1>1, Running DEF Sound, FreshCopy
<1> HIDE DEF row
<1>3. /\ moved \in Records /\ moved.uses = {[id |-> id, phase |-> "published"]}
      /\ state[s].attempt = id /\ state[s].uses = {row}
  BY <1>1, <1>2, MovedRowRespects, PhaseSays DEF Phases
<1>4. moved.attempt = state[s].attempt
  BY <1>1, <1>2, <1>3, InPhaseType DEF Phases
<1>5. state' = [state EXCEPT ![s] = moved] /\ archive' = archive
  BY DEF PublishedWrite, WritesRecord
<1> HIDE DEF moved
<1>6. state'[s] = moved /\ \A t \in Submissions \ {s} : state'[t] = state[t]
  BY <1>1, <1>5 DEF IInv, Inv, TypeOK
<1>a. state'[s].uses = {[id |-> id, phase |-> "published"]}
  BY <1>3, <1>6
<1>b. PhaseOf(s)' = "public"
  BY <1>a, PhaseBecomes
<1>7. PhaseOf(s) = "public" /\ PhaseOf(s)' = "public"
  BY <1>1, <1>2, <1>b, PhaseSays
<1>8. [t \in Submissions |-> state[t].attempt]' = [t \in Submissions |-> state[t].attempt]
  BY <1>4, <1>6
<1>9. [t \in Submissions |-> PhaseOf(t)]' = [t \in Submissions |-> PhaseOf(t)]
  BY <1>6, <1>7, SamePhase
<1> QED
  BY <1>5, <1>8, <1>9 DEF Promise!vars

\* Finalizing registers what is public, once (finalize).
LEMMA FinalizePromised ==
    ASSUME IInv, NEW p \in Workers, FinalizeWrite(p), w[p].fresh
    PROVE  \A s : s = w[p].sub => Promise!Register(s) \/ UNCHANGED Promise!vars
<1> TAKE s
<1> HAVE s = w[p].sub
<1> DEFINE id == w[p].id
           moved == InPhase(state[s], id, "registered")
           record == [moved EXCEPT !.status = "registered"]
           phases == [t \in Submissions |-> PhaseOf(t)]
<1>1. w[p].pc = "finalizeWrite" /\ s \in Submissions /\ state[s] \in Records
  BY Running DEF FinalizeWrite
<1>2. PICK row \in state[s].uses : row.id = id
  BY <1>1, Running DEF Sound, FreshCopy
<1>3. /\ moved \in Records /\ moved.uses = {[id |-> id, phase |-> "registered"]}
      /\ state[s].attempt = id /\ state[s].uses = {row}
  BY <1>1, <1>2, MovedRowRespects, PhaseSays DEF Phases
<1>4. moved.attempt = state[s].attempt
  BY <1>1, <1>2, <1>3, InPhaseType DEF Phases
<1>5. state' = [state EXCEPT ![s] = record] /\ archive' = archive
  BY DEF FinalizeWrite, WritesRecord
<1> HIDE DEF moved
<1>6. record.attempt = state[s].attempt /\ record.uses = moved.uses
  BY <1>3, <1>4 DEF Records
<1> HIDE DEF record
<1>7. state'[s] = record /\ \A t \in Submissions \ {s} : state'[t] = state[t]
  BY <1>1, <1>5 DEF IInv, Inv, TypeOK
<1>a. state'[s].uses = {[id |-> id, phase |-> "registered"]}
  BY <1>3, <1>6, <1>7
<1>8. PhaseOf(s)' = "registered"
  BY <1>a, PhaseBecomes
<1>9. PhaseOf(s) \in {"public", "registered"}
  BY <1>1, <1>2, PhaseSays
<1>10. [t \in Submissions |-> state[t].attempt]' = [t \in Submissions |-> state[t].attempt]
  BY <1>6, <1>7
<1>11. [t \in Submissions |-> PhaseOf(t)]' = [phases EXCEPT ![s] = "registered"]
  BY <1>1, <1>7, <1>8, Moves
<1>12. CASE PhaseOf(s) = "public"
  BY <1>1, <1>5, <1>10, <1>11, <1>12 DEF Promise!Register
<1>13. CASE PhaseOf(s) = "registered"
  <2>1. [phases EXCEPT ![s] = "registered"] = phases
    BY <1>1, <1>13
  <2> QED
    BY <1>5, <1>10, <1>11, <2>1 DEF Promise!vars
<1> QED
  BY <1>9, <1>12, <1>13

\* Publishing shows what is on record as public (publish_preservation).
LEMMA PublishPromised ==
    ASSUME IInv, NEW p \in Workers, Publish(p)
    PROVE  \A s : s = w[p].sub => Promise!Show(s)
<1> TAKE s
<1> HAVE s = w[p].sub
<1>1. w[p].pc = "publish" /\ s \in Submissions
  BY Running DEF Publish
<1>2. PICK row \in state[s].uses : row.id = w[p].id
  BY <1>1, Running DEF Sound, Carries
<1>3. state[s].attempt = w[p].id /\ PhaseOf(s) # "private"
  BY <1>1, <1>2, PhaseSays
<1>4. archive' = archive \cup {[sub |-> s, id |-> w[p].id]} /\ state' = state
  BY DEF Publish
<1>5. [t \in Submissions |-> PhaseOf(t)]' = [t \in Submissions |-> PhaseOf(t)]
  BY <1>4, SamePhase
<1>6. [t \in Submissions |-> state[t].attempt]' = [t \in Submissions |-> state[t].attempt]
  BY <1>4
<1> QED
  BY <1>1, <1>3, <1>4, <1>5, <1>6 DEF Promise!Show

\* The steps that save or release an attempt, move a row or publish.
Telling(p) ==
    \/ SaveAttempt(p) \/ LoseAnswer(p) \/ RelState(p) \/ Publish(p)
    \/ StartWrite(p) \/ PublishedWrite(p) \/ FinalizeWrite(p)

\* Every other step of a registration leaves the attempts alone.
LEMMA RegisterAttempts ==
    ASSUME IInv, NEW p \in Workers, Register(p), ~Telling(p)
    PROVE  SameAttempts /\ UNCHANGED archive
<1> USE DEF SameAttempts, Telling
<1>1. state \in [Submissions -> Records]
  BY DEF IInv, Inv, TypeOK
<1>2. CASE Recheckpoint(p) \/ Checkpoint(p)
  BY <1>1, <1>2 DEF Recheckpoint, Checkpoint, WritesRecord, Records
<1>3. CASE Validate(p)
  <2> DEFINE s == w[p].sub
             n == IF state[s].attempts < AttemptLimit THEN state[s].attempts + 1
                  ELSE state[s].attempts
             record == [state[s] EXCEPT !.attempts = n, !.cooling = FALSE]
  <2>1. state' = [state EXCEPT ![s] = record] \/ UNCHANGED state
    BY <1>3 DEF Validate, WritesRecord
  <2> HIDE DEF n
  <2>2. s \in Submissions => record.attempt = state[s].attempt
    BY <1>1 DEF Records
  <2> HIDE DEF record
  <2> QED
    BY <1>1, <1>3, <2>1, <2>2 DEF Validate
<1>4. CASE RecordFailure(p)
  <2> DEFINE s == w[p].sub
             paused == w[p].pc = "failDet" \/ state[s].attempts = AttemptLimit
             cooling == ~paused
             status == IF paused THEN "registration-paused" ELSE state[s].status
             record == [state[s] EXCEPT !.status = status, !.cooling = cooling]
  <2>1. state' = [state EXCEPT ![s] = record] \/ UNCHANGED state
    BY <1>4 DEF RecordFailure, WritesRecord
  <2> HIDE DEF paused, cooling, status
  <2>2. s \in Submissions => record.attempt = state[s].attempt
    BY <1>1 DEF Records
  <2> HIDE DEF record
  <2> QED
    BY <1>1, <1>4, <2>1, <2>2 DEF RecordFailure
<1>5. CASE \/ Recover(p) \/ Reopen(p) \/ Clone(p) \/ Allocate(p) \/ Acquire(p) \/ Discard(p)
           \/ Hold(p) \/ Start(p) \/ Published(p) \/ Push(p) \/ OpenPR(p)
  BY <1>5 DEF Recover, Reopen, Clone, Allocate, Acquire, Discard, Hold, Start,
     Published, Push, OpenPR, WritesLock
<1> QED
  BY <1>2, <1>3, <1>4, <1>5 DEF Register

\* So does every other step of the remaining commands: a delivery that still writes
\* through its copy found no attempt.
LEMMA OtherAttempts ==
    ASSUME IInv, NEW p \in Workers, ~Telling(p),
           \/ Release(p) \/ Advance(p) \/ Deliver(p) \/ Requeue(p) \/ Crash(p) \/ Raise(p)
           \/ \E s \in Submissions : Begin(p, s)
    PROVE  SameAttempts /\ UNCHANGED archive
<1> USE DEF SameAttempts, Telling
<1>1. state \in [Submissions -> Records]
  BY DEF IInv, Inv, TypeOK
<1>2. CASE Release(p)
  BY <1>2 DEF Release, RelLock, RelClear, WritesLock
<1>3. CASE Advance(p)
  BY <1>3 DEF Advance, Await, ReadConsent, Merge, FinalizeCheck, Unlock, Clear, WritesLock
<1>4. CASE DeliverRead(p) \/ WriteReview(p) \/ Crash(p) \/ Raise(p)
  BY <1>4 DEF DeliverRead, WriteReview, Crash, Raise
<1>5. CASE DeliverWrite(p) \/ Requeue(p)
  <2> DEFINE s == w[p].sub
             back == [state[s] EXCEPT !.status = "review-ready", !.review = w[p].review,
                                      !.consent = None, !.attempt = None]
             again == [state[s] EXCEPT !.status = "review-ready", !.attempts = 0,
                                       !.cooling = FALSE]
  <2>1. s \in Submissions /\ Sound(w[p])
    BY <1>5, Running DEF DeliverWrite, Requeue
  <2>2. DeliverWrite(p) /\ w[p].fresh => state[s].attempt = None
    BY <2>1 DEF DeliverWrite, Sound, FreshCopy
  <2>3. back.attempt = None /\ again.attempt = state[s].attempt
    BY <1>1, <2>1 DEF Records
  <2>4. \/ UNCHANGED state
        \/ state' = [state EXCEPT ![s] = back] /\ DeliverWrite(p) /\ w[p].fresh
        \/ state' = [state EXCEPT ![s] = again]
    BY <1>5 DEF DeliverWrite, Requeue, WritesRecord
  <2> HIDE DEF back, again
  <2> QED
    BY <1>1, <1>5, <2>2, <2>3, <2>4 DEF DeliverWrite, Requeue
<1>6. CASE \E s \in Submissions : Begin(p, s)
  <2>1. PICK s \in Submissions : Begin(p, s)
    BY <1>6
  <2>2. CASE BeginReview(p, s)
    BY <1>1, <2>2 DEF BeginReview, WritesRecord, Records
  <2> QED
    BY <2>1, <2>2 DEF Begin, BeginRegister, BeginAdvance, BeginFinalize, BeginRetry, BeginRun
<1> QED
  BY <1>2, <1>3, <1>4, <1>5, <1>6 DEF Deliver

\* And the submitter, the clock and the backoff.
LEMMA EnvironmentAttempts ==
    ASSUME IInv, \/ \E s \in Submissions : GiveConsent(s) \/ Withdraw(s) \/ CoolOff(s)
                 \/ Tick \/ UNCHANGED vars
    PROVE  SameAttempts /\ UNCHANGED archive
<1> USE DEF SameAttempts
<1>1. state \in [Submissions -> Records]
  BY DEF IInv, Inv, TypeOK
<1>2. ASSUME NEW s \in Submissions, GiveConsent(s) \/ Withdraw(s)
      PROVE  SameAttempts /\ UNCHANGED archive
  BY <1>1, <1>2 DEF GiveConsent, Withdraw, SubmitterWrites, Records
<1>3. ASSUME NEW s \in Submissions, CoolOff(s) PROVE SameAttempts /\ UNCHANGED archive
  BY <1>1, <1>3 DEF CoolOff, Records
<1>4. CASE Tick \/ UNCHANGED vars
  BY <1>4 DEF Tick, vars
<1> QED
  BY <1>2, <1>3, <1>4

\* A telling step is a step of the promise, or tells nothing.
LEMMA TellingPromised ==
    ASSUME IInv, NEW p \in Workers, Telling(p)
    PROVE  (\E s \in Submissions :
              \/ Promise!Reserve(s) \/ Promise!GiveBack(s) \/ Promise!Announce(s)
              \/ Promise!Show(s) \/ Promise!Register(s))
           \/ UNCHANGED Promise!vars
<1> PICK s : s = w[p].sub
  OBVIOUS
<1>1. w[p].pc # "idle" /\ s \in Submissions
  BY Running DEF Telling, SaveAttempt, LoseAnswer, RelState, Publish, StartWrite,
     PublishedWrite, FinalizeWrite
<1>2. CASE (SaveAttempt(p) /\ w[p].fresh) \/ LoseAnswer(p)
  <2>1. Promise!Reserve(s)
    BY <1>2, SavePromised DEF SaveAttempt, LoseAnswer, WritesRecord
  <2> QED
    BY <1>1, <2>1
<1>3. CASE RelState(p) /\ w[p].fresh
  <2>1. Promise!GiveBack(s)
    BY <1>3, ReleasePromised
  <2> QED
    BY <1>1, <2>1
<1>4. CASE StartWrite(p) /\ w[p].fresh
  BY <1>1, <1>4, StartPromised
<1>5. CASE PublishedWrite(p) /\ w[p].fresh
  BY <1>5, ReceiptPromised
<1>6. CASE FinalizeWrite(p) /\ w[p].fresh
  BY <1>1, <1>6, FinalizePromised
<1>7. CASE Publish(p)
  BY <1>1, <1>7, PublishPromised
<1>8. CASE ~w[p].fresh /\ ~LoseAnswer(p) /\ ~Publish(p)
  <2>1. UNCHANGED <<state, archive>>
    BY <1>8 DEF Telling, SaveAttempt, RelState, StartWrite, PublishedWrite, FinalizeWrite
  <2> QED
    BY <2>1, Stutters DEF SameAttempts, SameRows
<1> QED
  BY <1>2, <1>3, <1>4, <1>5, <1>6, <1>7, <1>8 DEF Telling

\* Every step of the protocol is a step of the promise, or a stutter.
LEMMA StepPromised == IInv /\ [Next]_vars => [Promise!Next]_(Promise!vars)
<1> SUFFICES ASSUME IInv, [Next]_vars PROVE Promise!Next \/ UNCHANGED Promise!vars
  OBVIOUS
<1>1. ASSUME NEW p \in Workers, Telling(p) PROVE Promise!Next \/ UNCHANGED Promise!vars
  BY <1>1, TellingPromised DEF Promise!Next
<1>2. ASSUME NEW p \in Workers, ~Telling(p),
             \/ Step(p) \/ Crash(p) \/ Raise(p) \/ LoseAnswer(p)
             \/ \E s \in Submissions : Begin(p, s)
      PROVE  UNCHANGED Promise!vars
  <2>1. ~StartWrite(p) /\ ~PublishedWrite(p) /\ ~FinalizeWrite(p) /\ ~LoseAnswer(p)
    BY <1>2 DEF Telling
  <2> QED
    BY <1>2, <2>1, RegisterRows, OtherRows, RegisterAttempts, OtherAttempts, Stutters DEF Step
<1>3. CASE \/ \E s \in Submissions : GiveConsent(s) \/ Withdraw(s) \/ CoolOff(s)
           \/ Tick \/ UNCHANGED vars
  BY <1>3, EnvironmentRows, EnvironmentAttempts, Stutters
<1> QED
  BY <1>1, <1>2, <1>3 DEF Next

\* The protocol implements PublicIdentity, for any number of submissions, commands,
\* crashes and failures: an identity on record as public is never given back, while
\* it is unregistered it is alone in its scope, and nothing else is ever shown.
THEOREM PromiseKept == Spec => KeepsPromise
<1> QED
  BY InitPromises, StepPromised, Invariance, PTL DEF Spec, KeepsPromise, Promise!Spec

-----------------------------------------------------------------------------
(* The second invariant: names, entries and what each command is about *)

\* A first version is named after its day, an update after its result.
Named(id) ==
    IF id.existing = None
    THEN id.version = 1 /\ id.name = <<DayOf(id.at), id.name[2]>> /\ id.name[2] \in Nat \ {0}
    ELSE id.version > 1 /\ id.name = id.existing

\* The job a command does where it stands.
Tasked(x) ==
    /\ x.job = "retry" => x.pc \in ReleasePCs \cup {"requeue"}
    /\ x.job = "deliver" => x.pc \in ReleasePCs \cup {"deliver", "review", "deliverWrite"}
    /\ x.pc = "requeue" => x.job = "retry"
    /\ x.pc \in {"deliver", "review", "deliverWrite"} => x.job = "deliver"

\* What a command has behind it, which no other command takes back.
Grounded(x) ==
    /\ x.id # None => Named(x.id)
    /\ x.pc \in {"published", "publishedWrite", "push"} => [sub |-> x.sub, id |-> x.id] \in archive
    /\ x.pc = "push" => \E row \in state[x.sub].uses :
         row.id = x.id /\ row.phase \in {"published", "registered"}
    /\ x.pc \in {"finalize", "finalizeWrite"} => EntryOf(x.sub, x.id) \in database

\* The status a live copy of the record was read with.
Entitled(x) == x.fresh =>
    /\ x.pc = "startWrite" => state[x.sub].status = "review-ready"
    /\ x.job = "retry" => state[x.sub].status = "registration-paused"
    /\ x.job = "deliver" => state[x.sub].status \in {"reviewing", "review-ready"}

Claims(x) == Tasked(x) /\ Grounded(x) /\ Entitled(x)

\* A branch is of a published identity; once merged, its entry is in the Database.
Bears(c) ==
    /\ Named(c.id)
    /\ c.stage = "merged" => EntryOf(c.sub, c.id) \in database
    /\ [sub |-> c.sub, id |-> c.id] \in archive
    /\ \E row \in state[c.sub].uses : row.id = c.id /\ row.phase \in {"published", "registered"}

\* A record's attempt is well named, and what is registered was merged.
Recorded(s) ==
    /\ state[s].attempt # None => Named(state[s].attempt)
    /\ \A row \in state[s].uses : row.phase = "registered" => EntryOf(s, row.id) \in database

\* The Database numbers its entries, and no two have the same name and version.
Numbered(db) ==
    /\ \A e \in db :
         /\ e.version = 1 => e.name[2] \in Nat /\ e.name[2] <= LastSerial(db, e.name[1])
         /\ e.version > 1 => e.version <= LastVersion(db, e.name)
    /\ \A e, f \in db : e.name = f.name /\ e.version = f.version => e = f

UInv ==
    /\ \A p \in Workers : Claims(w[p])
    /\ \A c \in changes : Bears(c)
    /\ \A s \in Submissions : Recorded(s)
    /\ Numbered(database)

\* What is in the archive and the Database stays there.
Grows == archive \subseteq archive' /\ database \subseteq database'

\* Another command's step leaves a command where it is, and its copy of the record,
\* if that is still live, with the status it was read with.
Left(q) ==
    /\ w'[q].pc = w[q].pc /\ w'[q].job = w[q].job /\ w'[q].sub = w[q].sub /\ w'[q].id = w[q].id
    /\ w'[q].fresh => w[q].fresh /\ state'[w[q].sub].status = state[w[q].sub].status

\* A public row that may bear a branch still may.
LEMMA BearerGoesOn ==
    \A s \in Submissions : \A id :
        /\ GoesOn
        /\ \E row \in state[s].uses : row.id = id /\ row.phase \in {"published", "registered"}
        => \E row \in state'[s].uses : row.id = id /\ row.phase \in {"published", "registered"}
<1> SUFFICES ASSUME NEW s \in Submissions, NEW id, GoesOn, NEW row \in state[s].uses,
                    row.id = id, row.phase \in {"published", "registered"}
             PROVE  \E next \in state'[s].uses :
                      next.id = id /\ next.phase \in {"published", "registered"}
  OBVIOUS
<1>1. PICK next \in state'[s].uses : next.id = row.id /\ next.phase \in Onwards(row.phase)
  BY DEF GoesOn
<1> QED
  BY <1>1 DEF Onwards

\* A command that is left alone keeps its claims: what they rest on only grows.
LEMMA LeftClaims ==
    ASSUME IInv, NEW q \in Workers, Claims(w[q]), Left(q), Grows, GoesOn
    PROVE  Claims(w[q])'
<1>1. w[q].pc # "idle" => w[q].sub \in Submissions
  BY DEF IInv, Inv, Sound, Carries
<1>2. Tasked(w[q])'
  BY DEF Claims, Tasked, Left
<1>3. Entitled(w[q])'
  BY DEF Claims, Entitled, Left
<1>4. w'[q].pc = "push" => \E row \in state'[w'[q].sub].uses :
        row.id = w'[q].id /\ row.phase \in {"published", "registered"}
  BY <1>1, BearerGoesOn DEF Claims, Grounded, Left
<1>5. Grounded(w[q])'
  BY <1>4 DEF Claims, Grounded, Left, Grows, Named, EntryOf, DayOf
<1> QED
  BY <1>2, <1>3, <1>5 DEF Claims

\* A change that stays bears what it bore.
LEMMA BearsOn ==
    ASSUME IInv, NEW c \in changes, Bears(c), Grows, GoesOn
    PROVE  Bears(c)'
<1>1. c.sub \in Submissions
  BY DEF IInv, Inv, TypeOK, Changes
<1>2. \E row \in state'[c.sub].uses : row.id = c.id /\ row.phase \in {"published", "registered"}
  BY <1>1, BearerGoesOn DEF Bears
<1> QED
  BY <1>2 DEF Bears, Grows, Named, EntryOf, DayOf

\* The three kinds of step leave the other commands where they are.
LEMMA BecomesLeaves ==
    ASSUME IInv, NEW p \in Workers, NEW r, Becomes(p, r), UNCHANGED state
    PROVE  w'[p] = r /\ \A q \in Workers \ {p} : Left(q)
<1> QED
  BY DEF Becomes, Left, IInv, Inv, TypeOK

\* A write of a record leaves the others alone, but for outdating their copies.
LEMMA RecordLeaves ==
    ASSUME IInv, NEW p \in Workers, NEW s \in Submissions, NEW record, NEW r,
           WritesRecord(p, s, record, r)
    PROVE  /\ w'[p] = r /\ state'[s] = record
           /\ \A t \in Submissions \ {s} : state'[t] = state[t]
           /\ \A q \in Workers \ {p} : Left(q)
<1>1. w'[p] = r /\ state'[s] = record /\ \A t : t # s => state'[t] = state[t]
  BY DEF WritesRecord, IInv, Inv, TypeOK
<1>2. ASSUME NEW q \in Workers \ {p} PROVE Left(q)
  <2> DEFINE b == w[q].fresh /\ w[q].sub # s
  <2>1. w[q] \in WorkerStates /\ w'[q] = [w[q] EXCEPT !.fresh = b]
    BY DEF WritesRecord, IInv, Inv, TypeOK
  <2> HIDE DEF b
  <2>2. /\ w'[q].pc = w[q].pc /\ w'[q].job = w[q].job /\ w'[q].sub = w[q].sub
        /\ w'[q].id = w[q].id /\ w'[q].fresh = b
    BY <2>1 DEF WorkerStates
  <2>3. b => w[q].fresh /\ state'[w[q].sub] = state[w[q].sub]
    BY <1>1 DEF b
  <2> QED
    BY <2>2, <2>3 DEF Left
<1> QED
  BY <1>1, <1>2

\* So does a write of a lock.
LEMMA LockLeaves ==
    ASSUME IInv, NEW p \in Workers, NEW scope, NEW holder, NEW r,
           WritesLock(p, scope, holder, r), UNCHANGED state
    PROVE  w'[p] = r /\ \A q \in Workers \ {p} : Left(q)
<1>1. ASSUME NEW q \in Workers \ {p} PROVE Left(q)
  <2> DEFINE b == w[q].lockFresh /\ ~(w[q].id # None /\ LockScope(w[q].id) = scope)
  <2>1. w[q] \in WorkerStates /\ w'[q] = [w[q] EXCEPT !.lockFresh = b]
    BY DEF WritesLock, IInv, Inv, TypeOK
  <2> HIDE DEF b
  <2>2. /\ w'[q].pc = w[q].pc /\ w'[q].job = w[q].job /\ w'[q].sub = w[q].sub
        /\ w'[q].id = w[q].id /\ w'[q].fresh = w[q].fresh
    BY <2>1 DEF WorkerStates
  <2> QED
    BY <2>2 DEF Left
<1> QED
  BY <1>1 DEF WritesLock

\* Where a command claims nothing but its job and a well-named identity.
QuietPCs == PCs \ {"published", "publishedWrite", "push", "finalize", "finalizeWrite", "startWrite"}
Modest(r) ==
    /\ Tasked(r)
    /\ r.pc \in QuietPCs
    /\ r.id # None => Named(r.id)
    /\ r.fresh => r.job = "register"

\* Whatever the step does to the files.
LEMMA ModestArrives ==
    ASSUME NEW p \in Workers, NEW r, w'[p] = r, Modest(r)
    PROVE  Claims(w[p])'
<1>1. Tasked(w[p])' /\ Entitled(w[p])'
  BY DEF Modest, Tasked, Entitled, QuietPCs
<1>2. Grounded(w[p])'
  BY DEF Modest, Grounded, QuietPCs, Named, DayOf
<1> QED
  BY <1>1, <1>2 DEF Claims

\* An idle command claims nothing.
LEMMA IdleIsModest == Modest(Idle)
<1> QED
  BY DEF Modest, Tasked, QuietPCs, PCs, Idle

\* A step that raises leaves its command with nothing to claim.
LEMMA RaisedIsModest ==
    ASSUME IInv, NEW p \in Workers, w[p].pc # "idle", Claims(w[p])
    PROVE  Modest(Raised(p))
<1>1. w[p] \in WorkerStates
  BY Running
<1>2. CASE Raised(p) = Idle
  BY <1>2, IdleIsModest
<1>3. CASE Raised(p) = Goto(p, "discard") /\ w[p].pc = "save" /\ w[p].job = "register"
  <2>1. /\ Goto(p, "discard").pc = "discard" /\ Goto(p, "discard").job = "register"
        /\ Goto(p, "discard").id = w[p].id
    BY <1>1, <1>3 DEF Goto, WorkerStates
  <2> QED
    BY <1>3, <2>1 DEF Claims, Tasked, Grounded, Modest, QuietPCs, PCs, RegisterPCs
<1>4. CASE Raised(p) = Afresh(p, "fail") /\ w[p].job = "register"
  <2>1. /\ Afresh(p, "fail").pc = "fail" /\ Afresh(p, "fail").job = "register"
        /\ Afresh(p, "fail").id = w[p].id
    BY <1>1, <1>4 DEF Afresh, WorkerStates
  <2> QED
    BY <1>4, <2>1 DEF Claims, Tasked, Grounded, Modest, QuietPCs, PCs
<1> QED
  BY <1>2, <1>3, <1>4 DEF Raised

\* A command that goes on with what it has, and with its copies or without them.
LEMMA GoesModestly ==
    ASSUME IInv, NEW p \in Workers, w[p].pc # "idle", Claims(w[p]), w[p].job = "register",
           NEW pc \in QuietPCs \ {"requeue", "deliver", "review", "deliverWrite"}
    PROVE  Modest(Goto(p, pc)) /\ Modest(Afresh(p, pc))
<1>1. w[p] \in WorkerStates
  BY Running
<1>2. /\ Goto(p, pc).pc = pc /\ Goto(p, pc).job = "register" /\ Goto(p, pc).id = w[p].id
      /\ Afresh(p, pc).pc = pc /\ Afresh(p, pc).job = "register" /\ Afresh(p, pc).id = w[p].id
  BY <1>1 DEF Goto, Afresh, WorkerStates
<1> QED
  BY <1>2 DEF Claims, Tasked, Grounded, Modest

\* What most of the protocol's steps do to a command.
Advances(p) ==
    /\ Claims(w[p])'
    /\ \A q \in Workers \ {p} : Left(q)

\* A step that goes to a modest place advances.
LEMMA ModestAdvances ==
    ASSUME IInv, NEW p \in Workers, NEW r, Modest(r),
           \/ Becomes(p, r) /\ UNCHANGED state
           \/ \E s \in Submissions : \E record : WritesRecord(p, s, record, r)
           \/ (\E scope, holder : WritesLock(p, scope, holder, r)) /\ UNCHANGED state
    PROVE  Advances(p)
<1> QED
  BY BecomesLeaves, RecordLeaves, LockLeaves, ModestArrives DEF Advances

-----------------------------------------------------------------------------
(* What each step leaves its command to claim *)

\* Outside of release, requeue and delivery the job is a registration.
LEMMA JobIsRegister ==
    ASSUME IInv, NEW p \in Workers, Claims(w[p]), w[p].pc # "idle",
           w[p].pc \notin ReleasePCs \cup {"requeue", "deliver", "review", "deliverWrite"}
    PROVE  w[p].job = "register"
<1>1. w[p] \in WorkerStates
  BY Running
<1> QED
  BY <1>1 DEF Claims, Tasked, WorkerStates, Jobs

\* The steps of a registration that go on with what the command has.
GoesOnAlone(p) ==
    \/ Reopen(p) \/ Recheckpoint(p) \/ Validate(p) \/ Hold(p) \/ StartWrite(p) \/ Push(p)
    \/ OpenPR(p) \/ Checkpoint(p) \/ RecordFailure(p) \/ ReadConsent(p) \/ FinalizeWrite(p)
    \/ Clear(p) \/ Discard(p)

\* Steps that write no row and learn nothing new advance.
LEMMA GoesOnAloneAdvances ==
    ASSUME IInv, UInv, NEW p \in Workers, GoesOnAlone(p)
    PROVE  Advances(p)
<1> USE DEF GoesOnAlone
<1>1. /\ w[p].pc # "idle" /\ Claims(w[p]) /\ w[p].sub \in Submissions
      /\ w[p].pc \notin ReleasePCs \cup {"requeue", "deliver", "review", "deliverWrite"}
  <2>1. w[p].pc # "idle"
    BY DEF Reopen, Recheckpoint, Validate, Hold, StartWrite, Push, OpenPR, Checkpoint,
       RecordFailure, ReadConsent, FinalizeWrite, Clear, Discard
  <2>2. w[p].pc \notin ReleasePCs \cup {"requeue", "deliver", "review", "deliverWrite"}
    BY DEF Reopen, Recheckpoint, Validate, Hold, StartWrite, Push, OpenPR, Checkpoint,
       RecordFailure, ReadConsent, FinalizeWrite, Clear, Discard, ReleasePCs
  <2> QED
    BY <2>1, <2>2, Running DEF UInv
<1>2. w[p].job = "register"
  BY <1>1, JobIsRegister
<1>3. Modest(Raised(p)) /\ Modest(Idle)
  BY <1>1, RaisedIsModest, IdleIsModest
<1>4. \A pc \in {"recheckpoint", "await", "clone", "start", "publish", "open", "checkpoint",
                 "merge", "unlock", "fail"} : Modest(Goto(p, pc)) /\ Modest(Afresh(p, pc))
  BY <1>1, <1>2, GoesModestly DEF QuietPCs, PCs, RegisterPCs, AdvancePCs
<1>5. CASE Reopen(p) \/ Push(p) \/ OpenPR(p) \/ ReadConsent(p)
  BY <1>3, <1>4, <1>5, ModestAdvances DEF Reopen, Push, OpenPR, ReadConsent
<1>6. CASE Recheckpoint(p) \/ Validate(p) \/ Checkpoint(p)
  BY <1>1, <1>3, <1>4, <1>6, ModestAdvances DEF Recheckpoint, Validate, Checkpoint
<1>7. CASE StartWrite(p) \/ FinalizeWrite(p) \/ RecordFailure(p)
  BY <1>1, <1>3, <1>4, <1>7, ModestAdvances DEF StartWrite, FinalizeWrite, RecordFailure
<1>8. CASE Hold(p) \/ Clear(p) \/ Discard(p)
  BY <1>3, <1>4, <1>8, ModestAdvances DEF Hold, Clear, Discard
<1> QED
  BY <1>5, <1>6, <1>7, <1>8

\* A command that starts from nothing.
LEMMA StartsModestly ==
    ASSUME NEW r, ~r.fresh, r.id # None => Named(r.id),
           \/ r.job = "register" /\ r.pc \in {"recover", "await"}
           \/ r.job = "deliver" /\ r.pc = "deliver"
    PROVE  Modest(r)
<1> QED
  BY DEF Modest, Tasked, QuietPCs, PCs, RegisterPCs, AdvancePCs, ReleasePCs

\* Begin keeps the claims of its command.
LEMMA BeginAdvances ==
    ASSUME IInv, UInv, NEW p \in Workers, NEW s \in Submissions,
           BeginRegister(p, s) \/ BeginAdvance(p, s) \/ BeginReview(p, s) \/ BeginRun(p, s)
    PROVE  Advances(p)
<1>1. Idle \in WorkerStates /\ ~Idle.fresh /\ Idle.id = None /\ Idle.job = "register"
  BY IdleType DEF Idle
<1>2. CASE BeginRegister(p, s)
  <2> DEFINE r == [Idle EXCEPT !.pc = "recover", !.job = "register", !.sub = s,
                               !.review = delivered[s]]
  <2>1. Becomes(p, r) /\ UNCHANGED state
    BY <1>2 DEF BeginRegister
  <2>2. ~r.fresh /\ r.id = None /\ r.job = "register" /\ r.pc = "recover"
    BY <1>1 DEF WorkerStates
  <2> HIDE DEF r
  <2> QED
    BY <2>1, <2>2, StartsModestly, ModestAdvances
<1>3. CASE BeginAdvance(p, s)
  <2> DEFINE r == [Idle EXCEPT !.pc = "await", !.sub = s, !.id = state[s].attempt]
  <2>1. Becomes(p, r) /\ UNCHANGED state
    BY <1>3 DEF BeginAdvance
  <2>2. ~r.fresh /\ r.id = state[s].attempt /\ r.job = "register" /\ r.pc = "await"
    BY <1>1 DEF WorkerStates
  <2>3. r.id # None => Named(r.id)
    BY <2>2 DEF UInv, Recorded
  <2> HIDE DEF r
  <2> QED
    BY <2>1, <2>2, <2>3, StartsModestly, ModestAdvances
<1>4. CASE BeginReview(p, s) \/ BeginRun(p, s)
  <2> DEFINE r == [Idle EXCEPT !.pc = "deliver", !.job = "deliver", !.sub = s]
  <2>1. \/ Becomes(p, r) /\ UNCHANGED state
        \/ WritesRecord(p, s, [state[s] EXCEPT !.status = "reviewing"], r)
    BY <1>4 DEF BeginReview, BeginRun
  <2>2. ~r.fresh /\ r.id = None /\ r.job = "deliver" /\ r.pc = "deliver"
    BY <1>1 DEF WorkerStates
  <2>3. Modest(r)
    BY <2>2, StartsModestly
  <2> HIDE DEF r
  <2> QED
    BY <2>1, <2>3, ModestAdvances
<1> QED
  BY <1>2, <1>3, <1>4

\* recover_change: from the furthest public step on record.
LEMMA RecoverAdvances ==
    ASSUME IInv, UInv, NEW p \in Workers, Recover(p) PROVE Advances(p)
<1> DEFINE a == state[w[p].sub].attempt
           on(pc) == [Goto(p, pc) EXCEPT !.id = a, !.fresh = TRUE]
<1>1. /\ w[p].pc = "recover" /\ Claims(w[p]) /\ w[p].sub \in Submissions
      /\ w[p] \in WorkerStates
  BY Running DEF Recover, UInv
<1>2. w[p].job = "register"
  BY <1>1, JobIsRegister DEF ReleasePCs
<1>3. Modest(Raised(p)) /\ Modest(Goto(p, "validate"))
  BY <1>1, <1>2, RaisedIsModest, GoesModestly DEF QuietPCs, PCs, RegisterPCs
<1>4. ASSUME NEW pc \in {"await", "recheckpoint", "reopen"} PROVE Modest(on(pc))
  <2>1. on(pc).pc = pc /\ on(pc).id = a /\ on(pc).job = "register"
    <3> HIDE DEF a
    <3> QED
      BY <1>1, <1>2 DEF Goto, WorkerStates
  <2>2. a # None => Named(a)
    BY <1>1 DEF UInv, Recorded
  <2> HIDE DEF on, a
  <2> QED
    BY <2>1, <2>2 DEF Modest, Tasked, QuietPCs, PCs, RegisterPCs, AdvancePCs
<1>5. \/ Becomes(p, Raised(p)) \/ Becomes(p, Goto(p, "validate"))
      \/ \E pc \in {"await", "recheckpoint", "reopen"} : Becomes(p, on(pc))
  BY DEF Recover
<1>6. UNCHANGED state
  BY DEF Recover
<1> HIDE DEF on
<1> QED
  BY <1>3, <1>4, <1>5, <1>6, ModestAdvances

\* Clone keeps the claims of its command.
LEMMA CloneAdvances ==
    ASSUME IInv, UInv, NEW p \in Workers, Clone(p) PROVE Advances(p)
<1> DEFINE r == [Goto(p, "allocate") EXCEPT !.seen = database]
<1>1. w[p].pc = "clone" /\ Claims(w[p]) /\ w[p] \in WorkerStates
  BY Running DEF Clone, UInv
<1>2. w[p].job = "register"
  BY <1>1, JobIsRegister DEF ReleasePCs
<1>3. r.pc = "allocate" /\ r.job = "register" /\ r.id = w[p].id
  BY <1>1, <1>2 DEF Goto, WorkerStates
<1>4. Becomes(p, r) /\ UNCHANGED state
  BY DEF Clone
<1> HIDE DEF r
<1>5. Modest(r)
  BY <1>1, <1>3 DEF Claims, Grounded, Modest, Tasked, QuietPCs, PCs, RegisterPCs
<1> QED
  BY <1>4, <1>5, ModestAdvances

\* registration_attempt_identity, on a copy of the record.
LEMMA AllocateAdvances ==
    ASSUME IInv, UInv, NEW p \in Workers, Allocate(p) PROVE Advances(p)
<1> DEFINE a == state[w[p].sub].attempt
           r(pc) == Copy(p, pc, a, a # None)
<1>1. /\ w[p].pc = "allocate" /\ Claims(w[p]) /\ w[p].sub \in Submissions
      /\ w[p] \in WorkerStates
  BY Running DEF Allocate, UInv
<1>2. w[p].job = "register"
  BY <1>1, JobIsRegister DEF ReleasePCs
<1>3. Modest(Raised(p)) /\ Modest(Goto(p, "failDet"))
  BY <1>1, <1>2, RaisedIsModest, GoesModestly DEF QuietPCs, PCs
<1>4. ASSUME NEW pc \in {"acquire", "relLock"} PROVE Modest(r(pc))
  <2> DEFINE b == a # None
  <2>1. r(pc).pc = pc /\ r(pc).id = a /\ r(pc).job = "register"
    <3>1. r(pc) = Copy(p, pc, a, b)
      OBVIOUS
    <3> HIDE DEF a, b, r
    <3> QED
      BY <1>1, <1>2, <3>1 DEF Copy, Goto, WorkerStates
  <2>2. a # None => Named(a)
    BY <1>1 DEF UInv, Recorded
  <2> HIDE DEF r, a
  <2> QED
    BY <2>1, <2>2 DEF Modest, Tasked, QuietPCs, PCs, RegisterPCs, ReleasePCs
<1>5. \/ Becomes(p, Raised(p)) \/ Becomes(p, Goto(p, "failDet"))
      \/ \E pc \in {"acquire", "relLock"} : Becomes(p, r(pc))
  BY DEF Allocate, Copy
<1>6. UNCHANGED state
  BY DEF Allocate
<1> HIDE DEF r
<1> QED
  BY <1>3, <1>4, <1>5, <1>6, ModestAdvances

\* The identity a checkout and the clock give is well named.
LEMMA NewIdentityNamed ==
    ASSUME NEW s \in Submissions, NEW review, NEW db, IsFiniteSet(db), clock \in 0 .. MaxClock
    PROVE  Named(NewIdentity(s, review, db))
<1> DEFINE day == DayOf(clock)
           serials == {e \in db : e.version = 1 /\ e.name[1] = day}
           versions == {e \in db : e.name = Existing[s]}
           id == NewIdentity(s, review, db)
<1>1. Cardinality(serials) \in Nat /\ Cardinality(versions) \in Nat
  BY FS_Subset, FS_CardinalityType
<1>2. LastSerial(db, day) + 1 \in Nat \ {0} /\ LastVersion(db, Existing[s]) \in Nat \ {0}
  BY <1>1 DEF LastSerial, LastVersion
<1> HIDE DEF day
<1>3. CASE Existing[s] = None
  <2>1. /\ id.name = <<day, LastSerial(db, day) + 1>> /\ id.version = 1
        /\ id.existing = None /\ id.at = clock
    BY <1>3 DEF NewIdentity, day
  <2> HIDE DEF id
  <2> QED
    BY <1>2, <2>1 DEF Named, day, id
<1>4. CASE Existing[s] # None
  <2>1. /\ id.name = Existing[s] /\ id.version = LastVersion(db, Existing[s]) + 1
        /\ id.existing = Existing[s]
    BY <1>4 DEF NewIdentity
  <2> HIDE DEF id
  <2> QED
    BY <1>2, <1>4, <2>1 DEF Named, id
<1> QED
  BY <1>3, <1>4

\* registration_identity and _acquire_registration_lock.
LEMMA AcquireAdvances ==
    ASSUME IInv, UInv, NEW p \in Workers, Acquire(p) PROVE Advances(p)
<1> DEFINE s == w[p].sub
           id == IF w[p].saved THEN w[p].id ELSE NewIdentity(s, w[p].review, w[p].seen)
           pc == IF w[p].saved THEN "hold" ELSE "save"
           held == lock[LockScope(id)].status = "held"
           on == [Goto(p, pc) EXCEPT !.id = id, !.seen = {}, !.lockFresh = TRUE, !.held = held]
<1>1. /\ w[p].pc = "acquire" /\ Claims(w[p]) /\ s \in Submissions
      /\ w[p] \in WorkerStates /\ IsFiniteSet(w[p].seen) /\ clock \in 0 .. MaxClock
  BY Running DEF Acquire, UInv, IInv, Inv, TypeOK
<1>2. w[p].job = "register"
  BY <1>1, JobIsRegister DEF ReleasePCs
<1>3. Modest(Raised(p)) /\ Modest(Idle)
  BY <1>1, RaisedIsModest, IdleIsModest
<1>4. Becomes(p, Raised(p)) \/ Becomes(p, Idle) \/ Becomes(p, on)
      \/ \E scope, holder : WritesLock(p, scope, holder, on)
  BY DEF Acquire
<1>5. id # None => Named(id)
  BY <1>1, NewIdentityNamed DEF Claims, Grounded
<1>6. pc \in {"hold", "save"}
  OBVIOUS
<1>7. on.pc = pc /\ on.id = id /\ on.job = "register"
  <2> HIDE DEF id, pc, held
  <2> QED
    BY <1>1, <1>2 DEF Goto, WorkerStates
<1>8. UNCHANGED state
  BY DEF Acquire
<1> HIDE DEF on, id, pc
<1>9. Modest(on)
  BY <1>5, <1>6, <1>7 DEF Modest, Tasked, QuietPCs, PCs, RegisterPCs
<1> QED
  BY <1>3, <1>4, <1>8, <1>9, ModestAdvances

\* The reservation is written, or was and the answer was lost.
LEMMA SaveAdvances ==
    ASSUME IInv, UInv, NEW p \in Workers, SaveAttempt(p) \/ LoseAnswer(p) PROVE Advances(p)
<1> DEFINE r == [Goto(p, "hold") EXCEPT !.saved = TRUE]
<1>1. /\ w[p].pc = "save" /\ Claims(w[p]) /\ w[p].sub \in Submissions /\ w[p] \in WorkerStates
  BY Running DEF SaveAttempt, LoseAnswer, UInv
<1>2. w[p].job = "register"
  BY <1>1, JobIsRegister DEF ReleasePCs
<1>3. Modest(Raised(p))
  BY <1>1, RaisedIsModest
<1>4. r.pc = "hold" /\ r.job = "register" /\ r.id = w[p].id
  BY <1>1, <1>2 DEF Goto, WorkerStates
<1>5. \/ Becomes(p, Raised(p)) /\ UNCHANGED state
      \/ \E record : WritesRecord(p, w[p].sub, record, r)
      \/ \E record : WritesRecord(p, w[p].sub, record, Raised(p))
  BY DEF SaveAttempt, LoseAnswer
<1> HIDE DEF r
<1>6. Modest(r)
  BY <1>1, <1>4 DEF Claims, Grounded, Modest, Tasked, QuietPCs, PCs, RegisterPCs
<1> QED
  BY <1>1, <1>3, <1>5, <1>6, ModestAdvances

\* A command that dies or raises claims nothing.
LEMMA FaultAdvances ==
    ASSUME IInv, UInv, NEW p \in Workers, Crash(p) \/ Raise(p) PROVE Advances(p)
<1>1. w[p].pc # "idle" /\ Claims(w[p])
  BY DEF Crash, Raise, UInv
<1>2. Modest(Raised(p)) /\ Modest(Idle)
  BY <1>1, RaisedIsModest, IdleIsModest
<1> QED
  BY <1>2, ModestAdvances DEF Crash, Raise

\* Unlock keeps the claims of its command.
LEMMA UnlockAdvances ==
    ASSUME IInv, UInv, NEW p \in Workers, Unlock(p) PROVE Advances(p)
<1> DEFINE r == [Goto(p, "clear") EXCEPT !.lockFresh = TRUE]
<1>1. w[p].pc = "unlock" /\ Claims(w[p]) /\ w[p] \in WorkerStates
  BY Running DEF Unlock, UInv
<1>2. w[p].job = "register"
  BY <1>1, JobIsRegister DEF ReleasePCs
<1>3. Modest(Raised(p))
  BY <1>1, RaisedIsModest
<1>4. r.pc = "clear" /\ r.job = "register" /\ r.id = w[p].id
  BY <1>1, <1>2 DEF Goto, WorkerStates
<1>5. \/ Becomes(p, Raised(p)) \/ Becomes(p, r)
      \/ \E scope, holder : WritesLock(p, scope, holder, r)
  BY DEF Unlock
<1>6. UNCHANGED state
  BY DEF Unlock
<1> HIDE DEF r
<1>7. Modest(r)
  BY <1>1, <1>4 DEF Claims, Grounded, Modest, Tasked, QuietPCs, PCs, AdvancePCs
<1> QED
  BY <1>3, <1>5, <1>6, <1>7, ModestAdvances

\* A command that has something behind it when it arrives.
LEMMA Arrives ==
    ASSUME NEW p \in Workers, NEW r, w'[p] = r, Tasked(r),
           r.id # None => Named(r.id),
           r.pc \in {"published", "publishedWrite", "push"} =>
             [sub |-> r.sub, id |-> r.id] \in archive',
           r.pc = "push" => \E row \in state'[r.sub].uses :
             row.id = r.id /\ row.phase \in {"published", "registered"},
           r.pc \in {"finalize", "finalizeWrite"} => EntryOf(r.sub, r.id) \in database',
           r.fresh => /\ r.pc = "startWrite" => state'[r.sub].status = "review-ready"
                      /\ r.job = "retry" => state'[r.sub].status = "registration-paused"
                      /\ r.job = "deliver" =>
                           state'[r.sub].status \in {"reviewing", "review-ready"}
    PROVE  Claims(w[p])'
<1>1. Tasked(w[p])' /\ Entitled(w[p])'
  BY DEF Tasked, Entitled
<1>2. Grounded(w[p])'
  BY DEF Grounded, Named, DayOf, EntryOf
<1> QED
  BY <1>1, <1>2 DEF Claims

\* _record_public_identity_start, up to its write.
LEMMA StartAdvances ==
    ASSUME IInv, UInv, NEW p \in Workers, Start(p) PROVE Advances(p)
<1> DEFINE s == w[p].sub
           on == [Goto(p, "startWrite") EXCEPT !.fresh = TRUE]
<1>1. /\ w[p].pc = "start" /\ Claims(w[p]) /\ s \in Submissions /\ w[p] \in WorkerStates
  BY Running DEF Start, UInv
<1>2. w[p].job = "register"
  BY <1>1, JobIsRegister DEF ReleasePCs
<1>3. Modest(Raised(p)) /\ Modest(Goto(p, "failDet")) /\ Modest(Goto(p, "publish"))
  BY <1>1, <1>2, RaisedIsModest, GoesModestly DEF QuietPCs, PCs, RegisterPCs
<1>4. \/ \E r \in {Raised(p), Goto(p, "failDet"), Goto(p, "publish")} : Becomes(p, r)
      \/ Becomes(p, on) /\ state[s].status = "review-ready"
  BY DEF Start, Standing
<1>5. UNCHANGED state
  BY DEF Start
<1>6. on.pc = "startWrite" /\ on.job = "register" /\ on.id = w[p].id /\ on.sub = s
  BY <1>1, <1>2 DEF Goto, WorkerStates
<1> HIDE DEF on
<1>7. CASE Becomes(p, on) /\ state[s].status = "review-ready"
  <2>1. w'[p] = on /\ \A q \in Workers \ {p} : Left(q)
    BY <1>5, <1>7, BecomesLeaves
  <2>2. Tasked(on) /\ (on.id # None => Named(on.id))
    BY <1>1, <1>6 DEF Claims, Grounded, Tasked
  <2>3. Claims(w[p])'
    BY <1>5, <1>6, <1>7, <2>1, <2>2, Arrives
  <2> QED
    BY <2>1, <2>3 DEF Advances
<1> QED
  BY <1>3, <1>4, <1>5, <1>7, ModestAdvances

\* publish_preservation: the refs are public from here on.
LEMMA PublishAdvances ==
    ASSUME IInv, UInv, NEW p \in Workers, Publish(p) PROVE Advances(p)
<1> DEFINE r == Goto(p, "published")
<1>1. w[p].pc = "publish" /\ Claims(w[p]) /\ w[p] \in WorkerStates
  BY Running DEF Publish, UInv
<1>2. w[p].job = "register"
  BY <1>1, JobIsRegister DEF ReleasePCs
<1>3. r.pc = "published" /\ r.job = "register" /\ r.id = w[p].id /\ r.sub = w[p].sub
  BY <1>1, <1>2 DEF Goto, WorkerStates
<1>4. Becomes(p, r) /\ UNCHANGED state /\ [sub |-> w[p].sub, id |-> w[p].id] \in archive'
  BY DEF Publish
<1> HIDE DEF r
<1>5. w'[p] = r /\ \A q \in Workers \ {p} : Left(q)
  BY <1>4, BecomesLeaves
<1>6. Tasked(r) /\ (r.id # None => Named(r.id))
  BY <1>1, <1>3 DEF Claims, Grounded, Tasked
<1>7. Claims(w[p])'
  BY <1>3, <1>4, <1>5, <1>6, Arrives
<1> QED
  BY <1>5, <1>7 DEF Advances

\* _record_public_identity_published, up to its write.
LEMMA PublishedAdvances ==
    ASSUME IInv, UInv, NEW p \in Workers, Published(p) PROVE Advances(p)
<1> DEFINE s == w[p].sub
           on == [Goto(p, "publishedWrite") EXCEPT !.fresh = TRUE]
           past == Goto(p, "push")
           phases == {row.phase : row \in {u \in state[s].uses : u.id = w[p].id}}
<1>1. w[p].pc = "published" /\ Claims(w[p]) /\ w[p] \in WorkerStates
  BY Running DEF Published, UInv
<1>2. w[p].job = "register" /\ Modest(Raised(p))
  BY <1>1, JobIsRegister, RaisedIsModest DEF ReleasePCs
<1>3. [sub |-> s, id |-> w[p].id] \in archive /\ UNCHANGED <<state, archive>>
  BY <1>1 DEF Claims, Grounded, Published
<1>4. /\ on.pc = "publishedWrite" /\ on.job = "register" /\ on.id = w[p].id /\ on.sub = s
      /\ past.pc = "push" /\ past.job = "register" /\ past.id = w[p].id /\ past.sub = s
  BY <1>1, <1>2 DEF Goto, WorkerStates
<1>5. phases = {"published"} =>
        \E row \in state[s].uses : row.id = w[p].id /\ row.phase = "published"
  OBVIOUS
<1>6. \/ Becomes(p, Raised(p)) \/ Becomes(p, on)
      \/ Becomes(p, past) /\ phases = {"published"}
  BY DEF Published
<1> HIDE DEF on, past, phases
<1>7. ASSUME NEW r \in {on, past}, Becomes(p, r), r = past => phases = {"published"}
      PROVE  Advances(p)
  <2>1. w'[p] = r /\ \A q \in Workers \ {p} : Left(q)
    BY <1>3, <1>7, BecomesLeaves
  <2>2. Tasked(r) /\ (r.id # None => Named(r.id))
    BY <1>1, <1>4, <1>7 DEF Claims, Grounded, Tasked
  <2>3. Claims(w[p])'
    BY <1>3, <1>4, <1>5, <1>7, <2>1, <2>2, Arrives
  <2> QED
    BY <2>1, <2>3 DEF Advances
<1>8. on # past
  BY <1>4
<1> QED
  BY <1>2, <1>3, <1>6, <1>7, <1>8, ModestAdvances

\* The receipt is bound; the branch may be pushed.
LEMMA PublishedWriteAdvances ==
    ASSUME IInv, UInv, NEW p \in Workers, PublishedWrite(p) PROVE Advances(p)
<1> DEFINE id == w[p].id
           started == [id |-> id, phase |-> "publication-started"]
           r == Afresh(p, "push")
<1> PICK s : s = w[p].sub
  OBVIOUS
<1>1. /\ w[p].pc = "publishedWrite" /\ Claims(w[p]) /\ w[p] \in WorkerStates
      /\ s \in Submissions /\ Sound(w[p])
  BY Running DEF PublishedWrite, UInv
<1>2. w[p].job = "register" /\ Modest(Raised(p))
  BY <1>1, JobIsRegister, RaisedIsModest DEF ReleasePCs
<1>3. CASE ~w[p].fresh
  BY <1>2, <1>3, ModestAdvances DEF PublishedWrite
<1>4. CASE w[p].fresh
  <2>1. started \in state[s].uses /\ started.id = id /\ started.phase = "publication-started"
    BY <1>1, <1>4 DEF Sound, FreshCopy
  <2> HIDE DEF started
  <2>2. InPhase(state[s], id, "published").uses = {[id |-> id, phase |-> "published"]}
    BY <1>1, <2>1, MovedRowRespects DEF Phases
  <2>3. /\ WritesRecord(p, s, InPhase(state[s], id, "published"), r) /\ UNCHANGED archive
    BY <1>4 DEF PublishedWrite
  <2>4. r.pc = "push" /\ r.job = "register" /\ r.id = id /\ r.sub = s /\ ~r.fresh
    BY <1>1, <1>2 DEF Afresh, WorkerStates
  <2> HIDE DEF r
  <2>5. /\ w'[p] = r /\ state'[s] = InPhase(state[s], id, "published")
        /\ \A q \in Workers \ {p} : Left(q)
    BY <1>1, <2>3, RecordLeaves
  <2>6. \E row \in state'[s].uses : row.id = id /\ row.phase = "published"
    <3> DEFINE bound == [id |-> id, phase |-> "published"]
    <3>1. bound.id = id /\ bound.phase = "published" /\ bound \in state'[s].uses
      BY <2>2, <2>5
    <3> HIDE DEF bound
    <3> QED
      BY <3>1
  <2>7. Tasked(r) /\ (r.id # None => Named(r.id)) /\ [sub |-> s, id |-> id] \in archive'
    BY <1>1, <2>3, <2>4 DEF Claims, Grounded, Tasked
  <2>8. Claims(w[p])'
    BY <2>4, <2>5, <2>6, <2>7, Arrives
  <2> QED
    BY <2>5, <2>8 DEF Advances
<1> QED
  BY <1>3, <1>4

\* _release_unpublished_attempt, of whichever command.
LEMMA RelLockAdvances ==
    ASSUME IInv, UInv, NEW p \in Workers, RelLock(p) PROVE Advances(p)
<1> DEFINE r == [Goto(p, "relState") EXCEPT !.lockFresh = TRUE]
<1>1. /\ w[p].pc = "relLock" /\ Claims(w[p]) /\ w[p] \in WorkerStates
  BY Running DEF RelLock, UInv
<1>2. Modest(Raised(p)) /\ UNCHANGED state
  BY <1>1, RaisedIsModest DEF RelLock
<1>3. /\ r.pc = "relState" /\ r.job = w[p].job /\ r.id = w[p].id /\ r.sub = w[p].sub
      /\ r.fresh = w[p].fresh
  BY <1>1 DEF Goto, WorkerStates
<1>4. \/ Becomes(p, Raised(p))
      \/ \E scope, holder : WritesLock(p, scope, holder, r)
  BY DEF RelLock
<1> HIDE DEF r
<1>5. ASSUME NEW scope, NEW holder, WritesLock(p, scope, holder, r) PROVE Advances(p)
  <2>1. w'[p] = r /\ \A q \in Workers \ {p} : Left(q)
    BY <1>2, <1>5, LockLeaves
  <2>2. Tasked(r) /\ (r.id # None => Named(r.id))
    BY <1>1, <1>3 DEF Claims, Grounded, Tasked, ReleasePCs
  <2>3. Claims(w[p])'
    BY <1>1, <1>2, <1>3, <2>1, <2>2, Arrives DEF Claims, Entitled
  <2> QED
    BY <2>1, <2>3 DEF Advances
<1> QED
  BY <1>2, <1>4, <1>5, ModestAdvances

\* RelState keeps the claims of its command.
LEMMA RelStateAdvances ==
    ASSUME IInv, UInv, NEW p \in Workers, RelState(p) PROVE Advances(p)
<1> DEFINE r == Goto(p, "relClear")
<1> PICK s : s = w[p].sub
  OBVIOUS
<1> DEFINE record == [state[s] EXCEPT !.attempt = None]
<1>1. /\ w[p].pc = "relState" /\ Claims(w[p]) /\ w[p] \in WorkerStates /\ s \in Submissions
      /\ state[s] \in Records
  BY Running DEF RelState, UInv
<1>2. Modest(Raised(p))
  BY <1>1, RaisedIsModest
<1>3. /\ r.pc = "relClear" /\ r.job = w[p].job /\ r.id = w[p].id /\ r.sub = s
      /\ r.fresh = w[p].fresh /\ record.status = state[s].status
  BY <1>1 DEF Goto, WorkerStates, Records
<1>4. \/ Becomes(p, Raised(p)) /\ UNCHANGED state
      \/ WritesRecord(p, s, record, r)
  BY DEF RelState
<1> HIDE DEF r, record
<1>5. ASSUME WritesRecord(p, s, record, r) PROVE Advances(p)
  <2>1. w'[p] = r /\ state'[s] = record /\ \A q \in Workers \ {p} : Left(q)
    BY <1>1, <1>5, RecordLeaves
  <2>2. Tasked(r) /\ (r.id # None => Named(r.id))
    BY <1>1, <1>3 DEF Claims, Grounded, Tasked, ReleasePCs
  <2>3. Claims(w[p])'
    BY <1>1, <1>3, <2>1, <2>2, Arrives DEF Claims, Entitled
  <2> QED
    BY <2>1, <2>3 DEF Advances
<1> QED
  BY <1>2, <1>4, <1>5, ModestAdvances

\* RelClear keeps the claims of its command.
LEMMA RelClearAdvances ==
    ASSUME IInv, UInv, NEW p \in Workers, RelClear(p) PROVE Advances(p)
<1> DEFINE pc == CASE w[p].job = "register" -> "acquire"
                   [] w[p].job = "retry" -> "requeue"
                   [] w[p].job = "deliver" -> "review"
           r == AfterRelease(p)
<1>1. w[p].pc = "relClear" /\ Claims(w[p]) /\ w[p] \in WorkerStates
  BY Running DEF RelClear, UInv
<1>2. Modest(Raised(p)) /\ UNCHANGED state
  BY <1>1, RaisedIsModest DEF RelClear
<1>3. w[p].job \in {"register", "retry", "deliver"}
  BY <1>1 DEF WorkerStates, Jobs
<1>4. \/ w[p].job = "register" /\ pc = "acquire"
      \/ w[p].job = "retry" /\ pc = "requeue"
      \/ w[p].job = "deliver" /\ pc = "review"
  BY <1>3
<1>5. r = [w[p] EXCEPT !.pc = pc, !.id = None, !.saved = FALSE, !.lockFresh = FALSE]
  BY DEF AfterRelease
<1>6. \/ Becomes(p, Raised(p))
      \/ \E scope, holder : WritesLock(p, scope, holder, r)
  BY DEF RelClear
<1> HIDE DEF pc, r
<1>7. r.pc = pc /\ r.job = w[p].job /\ r.id = None /\ r.sub = w[p].sub /\ r.fresh = w[p].fresh
  BY <1>1, <1>5 DEF WorkerStates
<1>8. ASSUME NEW scope, NEW holder, WritesLock(p, scope, holder, r) PROVE Advances(p)
  <2>1. w'[p] = r /\ \A q \in Workers \ {p} : Left(q)
    BY <1>2, <1>8, LockLeaves
  <2>2. Tasked(r)
    BY <1>4, <1>7 DEF Tasked
  <2>3. Claims(w[p])'
    BY <1>1, <1>2, <1>4, <1>7, <2>1, <2>2, Arrives DEF Claims, Entitled
  <2> QED
    BY <2>1, <2>3 DEF Advances
<1> QED
  BY <1>2, <1>6, <1>8, ModestAdvances

\* Merging and finalizing: what goes on to be finalized is in the Database.
LEMMA AwaitAdvances ==
    ASSUME IInv, UInv, NEW p \in Workers, Await(p) PROVE Advances(p)
<1> DEFINE r == Goto(p, "finalize")
<1>1. w[p].pc = "await" /\ Claims(w[p]) /\ w[p] \in WorkerStates
  BY Running DEF Await, UInv
<1>2. w[p].job = "register"
  BY <1>1, JobIsRegister DEF ReleasePCs
<1>3. Modest(Goto(p, "consent")) /\ Modest(Idle)
  BY <1>1, <1>2, GoesModestly, IdleIsModest DEF QuietPCs, PCs, AdvancePCs
<1>4. UNCHANGED <<state, database>>
  BY DEF Await
<1>5. \/ Becomes(p, Goto(p, "consent")) \/ Becomes(p, Idle)
      \/ Becomes(p, r) /\ Change(p, "merged") \in changes
  BY DEF Await
<1>6. r.pc = "finalize" /\ r.job = "register" /\ r.id = w[p].id /\ r.sub = w[p].sub
  BY <1>1, <1>2 DEF Goto, WorkerStates
<1> HIDE DEF r
<1>7. ASSUME Becomes(p, r), Change(p, "merged") \in changes PROVE Advances(p)
  <2>1. w'[p] = r /\ \A q \in Workers \ {p} : Left(q)
    BY <1>4, <1>7, BecomesLeaves
  <2>2. Tasked(r) /\ (r.id # None => Named(r.id))
    BY <1>1, <1>6 DEF Claims, Grounded, Tasked
  <2>3. /\ Change(p, "merged").stage = "merged" /\ Change(p, "merged").sub = w[p].sub
        /\ Change(p, "merged").id = w[p].id
    BY DEF Change
  <2>4. EntryOf(w[p].sub, w[p].id) \in database
    BY <1>7, <2>3 DEF UInv, Bears
  <2>5. Claims(w[p])'
    BY <1>4, <1>6, <2>1, <2>2, <2>4, Arrives
  <2> QED
    BY <2>1, <2>5 DEF Advances
<1> QED
  BY <1>3, <1>4, <1>5, <1>7, ModestAdvances

\* BeginFinalize keeps the claims of its command.
LEMMA BeginFinalizeAdvances ==
    ASSUME IInv, UInv, NEW p \in Workers, NEW s \in Submissions, BeginFinalize(p, s)
    PROVE  Advances(p)
<1>1. PICK c \in changes : /\ c.sub = s /\ c.stage = "merged"
                           /\ Becomes(p, [Idle EXCEPT !.pc = "finalize", !.sub = s, !.id = c.id])
  BY DEF BeginFinalize
<1> DEFINE r == [Idle EXCEPT !.pc = "finalize", !.sub = s, !.id = c.id]
<1>2. UNCHANGED <<state, database>>
  BY DEF BeginFinalize
<1>3. Idle.job = "register" /\ ~Idle.fresh
  BY DEF Idle
<1>4. r.pc = "finalize" /\ r.job = "register" /\ r.id = c.id /\ r.sub = s /\ ~r.fresh
  BY <1>3, IdleType DEF WorkerStates
<1>5. Becomes(p, r)
  BY <1>1
<1> HIDE DEF r
<1>6. w'[p] = r /\ \A q \in Workers \ {p} : Left(q)
  BY <1>2, <1>5, BecomesLeaves
<1>7. Tasked(r) /\ Named(r.id) /\ EntryOf(r.sub, r.id) \in database
  BY <1>1, <1>4 DEF UInv, Bears, Tasked
<1>8. Claims(w[p])'
  BY <1>2, <1>4, <1>6, <1>7, Arrives
<1> QED
  BY <1>6, <1>8 DEF Advances

\* Merge keeps the claims of its command.
LEMMA MergeAdvances ==
    ASSUME IInv, UInv, NEW p \in Workers, Merge(p) PROVE Advances(p)
<1> DEFINE r == Goto(p, "finalize")
<1>1. w[p].pc = "merge" /\ Claims(w[p]) /\ w[p] \in WorkerStates
  BY Running DEF Merge, UInv
<1>2. w[p].job = "register" /\ Modest(Raised(p))
  BY <1>1, JobIsRegister, RaisedIsModest DEF ReleasePCs
<1>3. UNCHANGED state
  BY DEF Merge
<1>4. \/ Becomes(p, Raised(p))
      \/ Becomes(p, r) /\ EntryOf(w[p].sub, w[p].id) \in database'
  BY DEF Merge
<1>5. r.pc = "finalize" /\ r.job = "register" /\ r.id = w[p].id /\ r.sub = w[p].sub
  BY <1>1, <1>2 DEF Goto, WorkerStates
<1> HIDE DEF r
<1>6. ASSUME Becomes(p, r), EntryOf(w[p].sub, w[p].id) \in database' PROVE Advances(p)
  <2>1. w'[p] = r /\ \A q \in Workers \ {p} : Left(q)
    BY <1>3, <1>6, BecomesLeaves
  <2>2. Tasked(r) /\ (r.id # None => Named(r.id))
    BY <1>1, <1>5 DEF Claims, Grounded, Tasked
  <2>3. Claims(w[p])'
    BY <1>5, <1>6, <2>1, <2>2, Arrives
  <2> QED
    BY <2>1, <2>3 DEF Advances
<1> QED
  BY <1>2, <1>3, <1>4, <1>6, ModestAdvances

\* The saved attempt has the name and version that were merged.
LEMMA FinalizeCheckAdvances ==
    ASSUME IInv, UInv, NEW p \in Workers, FinalizeCheck(p) PROVE Advances(p)
<1> DEFINE s == w[p].sub
           a == state[s].attempt
           r == [Goto(p, "finalizeWrite") EXCEPT !.id = a, !.fresh = TRUE]
<1>1. w[p].pc = "finalize" /\ Claims(w[p]) /\ w[p] \in WorkerStates /\ s \in Submissions
  BY Running DEF FinalizeCheck, UInv
<1>2. w[p].job = "register" /\ Modest(Raised(p))
  BY <1>1, JobIsRegister, RaisedIsModest DEF ReleasePCs
<1>3. UNCHANGED <<state, database>>
  BY DEF FinalizeCheck
<1>4. \/ Becomes(p, Raised(p))
      \/ Becomes(p, r) /\ a # None /\ SameKey(a, w[p].id)
  BY DEF FinalizeCheck
<1>5. (EntryOf(s, w[p].id) \in database /\ Named(a)) \/ a = None
  BY <1>1 DEF Claims, Grounded, UInv, Recorded
<1> HIDE DEF a
<1>6. r.pc = "finalizeWrite" /\ r.job = "register" /\ r.id = a /\ r.sub = s
  BY <1>1, <1>2 DEF Goto, WorkerStates
<1> HIDE DEF r
<1>7. ASSUME Becomes(p, r), a # None, SameKey(a, w[p].id) PROVE Advances(p)
  <2>1. w'[p] = r /\ \A q \in Workers \ {p} : Left(q)
    BY <1>3, <1>7, BecomesLeaves
  <2>2. Tasked(r) /\ Named(r.id)
    BY <1>5, <1>6, <1>7 DEF Tasked
  <2>3. EntryOf(s, a) = EntryOf(s, w[p].id)
    BY <1>7 DEF SameKey, EntryOf
  <2>4. Claims(w[p])'
    BY <1>3, <1>5, <1>6, <1>7, <2>1, <2>2, <2>3, Arrives
  <2> QED
    BY <2>1, <2>4 DEF Advances
<1> QED
  BY <1>2, <1>3, <1>4, <1>7, ModestAdvances

\* prepare_workspace: the delivery is decided on a record that may be reviewed.
LEMMA DeliverReadAdvances ==
    ASSUME IInv, UInv, NEW p \in Workers, DeliverRead(p) PROVE Advances(p)
<1> DEFINE s == w[p].sub
           a == state[s].attempt
           b == a # None
           r(pc) == Copy(p, pc, a, a # None)
<1>1. /\ w[p].pc = "deliver" /\ Claims(w[p]) /\ w[p] \in WorkerStates /\ s \in Submissions
  BY Running DEF DeliverRead, UInv
<1>2. w[p].job = "deliver"
  BY <1>1 DEF Claims, Tasked
<1>3. Modest(Idle)
  BY IdleIsModest
<1>4. UNCHANGED state
  BY DEF DeliverRead
<1>5. \/ Becomes(p, Idle)
      \/ (\E pc \in {"review", "relLock"} : Becomes(p, r(pc)))
           /\ state[s].status \in {"reviewing", "review-ready"}
  BY DEF DeliverRead, Copy
<1>6. a = None \/ Named(a)
  BY <1>1 DEF UInv, Recorded
<1>7. ASSUME NEW pc \in {"review", "relLock"}
      PROVE  r(pc).pc = pc /\ r(pc).id = a /\ r(pc).job = "deliver" /\ r(pc).sub = s
  <2>1. r(pc) = Copy(p, pc, a, b)
    OBVIOUS
  <2> HIDE DEF a, b, r
  <2> QED
    BY <1>1, <1>2, <2>1 DEF Copy, Goto, WorkerStates
<1> HIDE DEF r, a, b
<1>8. ASSUME NEW pc \in {"review", "relLock"}, Becomes(p, r(pc)),
             state[s].status \in {"reviewing", "review-ready"}
      PROVE  Advances(p)
  <2>1. w'[p] = r(pc) /\ \A q \in Workers \ {p} : Left(q)
    BY <1>4, <1>8, BecomesLeaves
  <2>2. Tasked(r(pc)) /\ (r(pc).id # None => Named(r(pc).id))
    BY <1>6, <1>7 DEF Tasked, ReleasePCs
  <2>3. Claims(w[p])'
    BY <1>4, <1>7, <1>8, <2>1, <2>2, Arrives
  <2> QED
    BY <2>1, <2>3 DEF Advances
<1> QED
  BY <1>3, <1>4, <1>5, <1>8, ModestAdvances

\* WriteReview keeps the claims of its command.
LEMMA WriteReviewAdvances ==
    ASSUME IInv, UInv, NEW p \in Workers, WriteReview(p) PROVE Advances(p)
<1> DEFINE r == [Goto(p, "deliverWrite") EXCEPT !.review = delivered[w[p].sub] + 1]
<1>1. w[p].pc = "review" /\ Claims(w[p]) /\ w[p] \in WorkerStates
  BY Running DEF WriteReview, UInv
<1>2. w[p].job = "deliver" /\ Modest(Idle)
  BY <1>1, IdleIsModest DEF Claims, Tasked
<1>3. UNCHANGED state
  BY DEF WriteReview
<1>4. Becomes(p, Idle) \/ Becomes(p, r)
  BY DEF WriteReview
<1>5. /\ r.pc = "deliverWrite" /\ r.job = "deliver" /\ r.id = w[p].id /\ r.sub = w[p].sub
      /\ r.fresh = w[p].fresh
  BY <1>1, <1>2 DEF Goto, WorkerStates
<1> HIDE DEF r
<1>6. ASSUME Becomes(p, r) PROVE Advances(p)
  <2>1. w'[p] = r /\ \A q \in Workers \ {p} : Left(q)
    BY <1>3, <1>6, BecomesLeaves
  <2>2. Tasked(r) /\ (r.id # None => Named(r.id))
    BY <1>1, <1>5 DEF Claims, Grounded, Tasked
  <2>3. Claims(w[p])'
    BY <1>1, <1>2, <1>3, <1>5, <2>1, <2>2, Arrives DEF Claims, Entitled
  <2> QED
    BY <2>1, <2>3 DEF Advances
<1> QED
  BY <1>2, <1>3, <1>4, <1>6, ModestAdvances

\* DeliverWrite keeps the claims of its command.
LEMMA DeliverWriteAdvances ==
    ASSUME IInv, UInv, NEW p \in Workers, DeliverWrite(p) \/ Requeue(p) PROVE Advances(p)
<1>1. w[p].sub \in Submissions
  BY Running DEF DeliverWrite, Requeue
<1>2. \/ Becomes(p, Idle) /\ UNCHANGED state
      \/ \E record : WritesRecord(p, w[p].sub, record, Idle)
  BY DEF DeliverWrite, Requeue
<1> QED
  BY <1>1, <1>2, IdleIsModest, ModestAdvances

\* retry-registration: the record it copied is paused.
LEMMA BeginRetryAdvances ==
    ASSUME IInv, UInv, NEW p \in Workers, NEW s \in Submissions, BeginRetry(p, s)
    PROVE  Advances(p)
<1> DEFINE a == state[s].attempt
           pc == IF a # None /\ Unpublished(s, a) THEN "relLock" ELSE "requeue"
           b == a # None
           r == [Idle EXCEPT !.pc = pc, !.job = "retry", !.sub = s, !.id = a,
                             !.saved = b, !.fresh = TRUE]
<1>1. Becomes(p, r) /\ UNCHANGED state /\ state[s].status = "registration-paused"
  BY DEF BeginRetry, Standing
<1>2. pc \in {"relLock", "requeue"}
  OBVIOUS
<1>3. a = None \/ Named(a)
  BY DEF UInv, Recorded
<1> HIDE DEF a, b, pc
<1>4. r.pc = pc /\ r.job = "retry" /\ r.id = a /\ r.sub = s
  BY IdleType DEF WorkerStates
<1> HIDE DEF r
<1>5. w'[p] = r /\ \A q \in Workers \ {p} : Left(q)
  BY <1>1, BecomesLeaves
<1>6. Tasked(r) /\ (r.id # None => Named(r.id))
  BY <1>2, <1>3, <1>4 DEF Tasked, ReleasePCs
<1>7. Claims(w[p])'
  BY <1>1, <1>2, <1>4, <1>5, <1>6, Arrives
<1> QED
  BY <1>5, <1>7 DEF Advances

\* So every step of every command leaves each with what it claims.
LEMMA CommandsAdvance ==
    ASSUME IInv, UInv, NEW p \in Workers,
           \/ Step(p) \/ Crash(p) \/ Raise(p) \/ LoseAnswer(p)
           \/ \E s \in Submissions : Begin(p, s)
    PROVE  Advances(p)
<1>1. CASE Register(p)
  BY <1>1, RecoverAdvances, CloneAdvances, AllocateAdvances, AcquireAdvances, SaveAdvances,
     StartAdvances, PublishAdvances, PublishedAdvances, PublishedWriteAdvances,
     GoesOnAloneAdvances DEF Register, GoesOnAlone
<1>2. CASE Release(p)
  BY <1>2, RelLockAdvances, RelStateAdvances, RelClearAdvances DEF Release
<1>3. CASE Advance(p)
  BY <1>3, AwaitAdvances, MergeAdvances, FinalizeCheckAdvances, UnlockAdvances,
     GoesOnAloneAdvances DEF Advance, GoesOnAlone
<1>4. CASE Deliver(p) \/ Requeue(p)
  BY <1>4, DeliverReadAdvances, WriteReviewAdvances, DeliverWriteAdvances DEF Deliver
<1>5. CASE Crash(p) \/ Raise(p) \/ LoseAnswer(p)
  BY <1>5, FaultAdvances, SaveAdvances
<1>6. ASSUME NEW s \in Submissions, Begin(p, s) PROVE Advances(p)
  BY <1>6, BeginAdvances, BeginFinalizeAdvances, BeginRetryAdvances DEF Begin
<1> QED
  BY <1>1, <1>2, <1>3, <1>4, <1>5, <1>6 DEF Step

\* The submitter, the backoff and the clock leave every command where it is.
LEMMA EnvironmentLeaves ==
    ASSUME IInv, \/ \E s \in Submissions : GiveConsent(s) \/ Withdraw(s) \/ CoolOff(s)
                 \/ Tick \/ UNCHANGED vars
    PROVE  \A q \in Workers : Left(q)
<1>1. ASSUME NEW s \in Submissions, NEW record, SubmitterWrites(s, record),
             NEW q \in Workers
      PROVE  Left(q)
  <2> DEFINE b == w[q].fresh /\ w[q].sub # s
  <2>1. w[q] \in WorkerStates /\ w'[q] = [w[q] EXCEPT !.fresh = b]
    BY <1>1 DEF SubmitterWrites, Forgotten, IInv, Inv, TypeOK
  <2> HIDE DEF b
  <2>2. /\ w'[q].pc = w[q].pc /\ w'[q].job = w[q].job /\ w'[q].sub = w[q].sub
        /\ w'[q].id = w[q].id /\ w'[q].fresh = b
    BY <2>1 DEF WorkerStates
  <2>3. b => w[q].fresh /\ state'[w[q].sub] = state[w[q].sub]
    BY <1>1 DEF b, SubmitterWrites, IInv, Inv, TypeOK
  <2> QED
    BY <2>2, <2>3 DEF Left
<1>2. ASSUME NEW s \in Submissions, CoolOff(s), NEW q \in Workers PROVE Left(q)
  <2>1. \A t : state'[t].status = state[t].status
    <3>1. state[s] \in Records /\ state' = [state EXCEPT ![s].cooling = FALSE]
      BY <1>2 DEF CoolOff, IInv, Inv, TypeOK
    <3>2. state'[s] = [state[s] EXCEPT !.cooling = FALSE] /\ \A t : t # s => state'[t] = state[t]
      BY <3>1 DEF IInv, Inv, TypeOK
    <3>3. state'[s].status = state[s].status
      BY <3>1, <3>2 DEF Records
    <3> QED
      BY <3>2, <3>3
  <2> QED
    BY <1>2, <2>1 DEF CoolOff, Left
<1>3. CASE Tick \/ UNCHANGED vars
  BY <1>3 DEF Tick, vars, Left
<1> QED
  BY <1>1, <1>2, <1>3 DEF GiveConsent, Withdraw

-----------------------------------------------------------------------------
(* What each step leaves in the files *)

\* No step takes anything from the archive or the Database.
LEMMA StepsGrow == IInv /\ [Next]_vars => Grows
<1> SUFFICES ASSUME IInv, [Next]_vars PROVE Grows
  OBVIOUS
<1> USE DEF Grows
<1>1. ASSUME NEW p \in Workers, Register(p) PROVE Grows
  BY <1>1 DEF Register, Recover, Reopen, Recheckpoint, Validate, Clone, Allocate, Acquire,
     SaveAttempt, Discard, Hold, Start, StartWrite, Publish, Published, PublishedWrite, Push,
     OpenPR, Checkpoint, RecordFailure
<1>2. ASSUME NEW p \in Workers, Release(p) \/ Advance(p) PROVE Grows
  BY <1>2 DEF Release, RelLock, RelState, RelClear, Advance, Await, ReadConsent, Merge,
     FinalizeCheck, FinalizeWrite, Unlock, Clear
<1>3. ASSUME NEW p \in Workers,
             Deliver(p) \/ Requeue(p) \/ Crash(p) \/ Raise(p) \/ LoseAnswer(p)
      PROVE  Grows
  BY <1>3 DEF Deliver, DeliverRead, WriteReview, DeliverWrite, Requeue, Crash, Raise, LoseAnswer
<1>4. ASSUME NEW p \in Workers, NEW s \in Submissions, Begin(p, s) PROVE Grows
  BY <1>4 DEF Begin, BeginRegister, BeginAdvance, BeginFinalize, BeginRetry, BeginReview, BeginRun
<1>5. ASSUME NEW s \in Submissions, GiveConsent(s) \/ Withdraw(s) \/ CoolOff(s) PROVE Grows
  BY <1>5 DEF GiveConsent, Withdraw, CoolOff, SubmitterWrites
<1>6. CASE Tick \/ UNCHANGED vars
  BY <1>6 DEF Tick, vars
<1> QED
  BY <1>1, <1>2, <1>3, <1>4, <1>5, <1>6 DEF Next, Step

\* Every step keeps the claims of all commands.
LEMMA ClaimsKept == IInv /\ UInv /\ [Next]_vars => \A q \in Workers : Claims(w[q])'
<1> SUFFICES ASSUME IInv, UInv, [Next]_vars, NEW q \in Workers PROVE Claims(w[q])'
  OBVIOUS
<1>1. Grows /\ GoesOn
  BY StepsGrow, StepsGoOn
<1>2. Left(q) => Claims(w[q])'
  BY <1>1, LeftClaims DEF UInv
<1>3. ASSUME NEW p \in Workers, Advances(p) PROVE Claims(w[q])'
  BY <1>2, <1>3 DEF Advances
<1> QED
  BY <1>2, <1>3, CommandsAdvance, EnvironmentLeaves DEF Next

\* A step that leaves attempts and rows alone keeps what they stand for.
LEMMA SameRecorded ==
    ASSUME UInv, SameAttempts, SameRows, Grows, NEW s \in Submissions
    PROVE  Recorded(s)'
<1>1. state'[s].attempt = state[s].attempt /\ state'[s].uses = state[s].uses /\ Recorded(s)
  BY DEF SameAttempts, SameRows, UInv
<1> QED
  BY <1>1 DEF Recorded, Grows, Named, DayOf, EntryOf

\* A record that is rewritten by a telling step.
LEMMA RewrittenRecorded ==
    ASSUME UInv, Grows, NEW s \in Submissions,
           state'[s].attempt # None => Named(state'[s].attempt),
           \A row \in state'[s].uses : row.phase = "registered" =>
             row \in state[s].uses \/ EntryOf(s, row.id) \in database
    PROVE  Recorded(s)'
<1> QED
  BY DEF UInv, Recorded, Grows, Named, DayOf, EntryOf

\* Records keep what they say when a public row is written.
LEMMA TellingRecorded ==
    ASSUME IInv, UInv, NEW p \in Workers, Telling(p), Grows, NEW s \in Submissions
    PROVE  Recorded(s)'
<1> DEFINE id == w[p].id
<1>1. /\ w[p].sub \in Submissions /\ w[p] \in WorkerStates /\ Sound(w[p]) /\ Claims(w[p])
      /\ state[s] \in Records /\ state \in [Submissions -> Records] /\ Recorded(s)
  BY Running DEF UInv, IInv, Inv, TypeOK, Telling, SaveAttempt, LoseAnswer, RelState, Publish,
     StartWrite, PublishedWrite, FinalizeWrite
<1>2. CASE s # w[p].sub \/ UNCHANGED state
  <2>1. state'[s] = state[s]
    BY <1>1, <1>2 DEF Telling, SaveAttempt, LoseAnswer, RelState, Publish,
       StartWrite, PublishedWrite, FinalizeWrite, WritesRecord
  <2> QED
    BY <1>1, <2>1, RewrittenRecorded DEF Recorded
<1>3. CASE s = w[p].sub /\ ((SaveAttempt(p) /\ w[p].fresh) \/ LoseAnswer(p))
  <2>1. state'[s].attempt = id /\ state'[s].uses = state[s].uses
    BY <1>1, <1>3 DEF SaveAttempt, LoseAnswer, WritesRecord, Records
  <2>2. id # None => Named(id)
    BY <1>1 DEF Claims, Grounded
  <2> QED
    BY <2>1, <2>2, RewrittenRecorded
<1>4. CASE s = w[p].sub /\ RelState(p) /\ w[p].fresh
  <2>1. state'[s].attempt = None /\ state'[s].uses = state[s].uses
    BY <1>1, <1>4 DEF RelState, WritesRecord, Records
  <2> QED
    BY <2>1, RewrittenRecorded
<1>5. CASE s = w[p].sub /\ StartWrite(p) /\ w[p].fresh
  <2> DEFINE row == [id |-> id, phase |-> "publication-started"]
  <2>1. row.phase # "registered"
    OBVIOUS
  <2>2. state'[s].attempt = state[s].attempt /\ state'[s].uses = state[s].uses \cup {row}
    BY <1>1, <1>5 DEF StartWrite, WritesRecord, Records
  <2> HIDE DEF row
  <2> QED
    BY <1>1, <2>1, <2>2, RewrittenRecorded DEF Recorded
<1>6. CASE s = w[p].sub /\ PublishedWrite(p) /\ w[p].fresh
  <2> DEFINE started == [id |-> id, phase |-> "publication-started"]
             next == [id |-> id, phase |-> "published"]
  <2>1. started \in state[s].uses /\ started.id = id /\ started.phase = "publication-started"
    BY <1>1, <1>6 DEF Sound, FreshCopy, PublishedWrite
  <2> HIDE DEF started
  <2>2. InPhase(state[s], id, "published").uses = {next} /\ state[s].uses = {started}
    BY <2>1, MovedRowRespects DEF Phases
  <2>3. InPhase(state[s], id, "published").attempt = state[s].attempt
    BY <1>1, <2>1, <2>2, InPhaseType DEF Phases
  <2>4. state'[s] = InPhase(state[s], id, "published")
    BY <1>1, <1>6 DEF PublishedWrite, WritesRecord
  <2>5. next.phase # "registered"
    OBVIOUS
  <2> HIDE DEF next
  <2> QED
    BY <1>1, <2>2, <2>3, <2>4, <2>5, RewrittenRecorded DEF Recorded
<1>7. CASE s = w[p].sub /\ FinalizeWrite(p) /\ w[p].fresh
  <2> DEFINE next == [id |-> id, phase |-> "registered"]
             moved == InPhase(state[s], id, "registered")
  <2>1. PICK row \in state[s].uses : row.id = id
    BY <1>1, <1>7 DEF Sound, FreshCopy, FinalizeWrite
  <2>2. moved \in Records /\ moved.uses = {next} /\ state[s].uses = {row}
    BY <2>1, MovedRowRespects DEF Phases
  <2>3. moved.attempt = state[s].attempt
    BY <1>1, <2>1, <2>2, InPhaseType DEF Phases
  <2>4. state'[s] = [moved EXCEPT !.status = "registered"]
    BY <1>1, <1>7 DEF FinalizeWrite, WritesRecord
  <2> HIDE DEF moved
  <2>5. state'[s].attempt = state[s].attempt /\ state'[s].uses = {next}
    BY <2>2, <2>3, <2>4 DEF Records
  <2>6. next.id = id /\ EntryOf(s, id) \in database
    BY <1>1, <1>7 DEF FinalizeWrite, Claims, Grounded
  <2> HIDE DEF next
  <2> QED
    BY <1>1, <2>5, <2>6, RewrittenRecorded DEF Recorded
<1>8. \/ UNCHANGED state \/ (SaveAttempt(p) /\ w[p].fresh) \/ LoseAnswer(p)
      \/ (RelState(p) /\ w[p].fresh) \/ (StartWrite(p) /\ w[p].fresh)
      \/ (PublishedWrite(p) /\ w[p].fresh) \/ (FinalizeWrite(p) /\ w[p].fresh)
  BY DEF Telling, SaveAttempt, RelState, Publish, StartWrite, PublishedWrite, FinalizeWrite
<1> QED
  BY <1>2, <1>3, <1>4, <1>5, <1>6, <1>7, <1>8

\* So every record keeps a well-named attempt and what it registered was merged.
LEMMA RecordedKept == IInv /\ UInv /\ [Next]_vars => \A s \in Submissions : Recorded(s)'
<1> SUFFICES ASSUME IInv, UInv, [Next]_vars, NEW s \in Submissions PROVE Recorded(s)'
  OBVIOUS
<1>1. Grows
  BY StepsGrow
<1>2. ASSUME NEW p \in Workers, Telling(p) PROVE Recorded(s)'
  BY <1>1, <1>2, TellingRecorded
<1>3. ASSUME NEW p \in Workers, ~Telling(p),
             \/ Step(p) \/ Crash(p) \/ Raise(p) \/ LoseAnswer(p)
             \/ \E t \in Submissions : Begin(p, t)
      PROVE  Recorded(s)'
  <2>1. ~StartWrite(p) /\ ~PublishedWrite(p) /\ ~FinalizeWrite(p) /\ ~LoseAnswer(p)
    BY <1>3 DEF Telling
  <2> QED
    BY <1>1, <1>3, <2>1, RegisterRows, OtherRows, RegisterAttempts, OtherAttempts, SameRecorded
       DEF Step
<1>4. CASE \/ \E t \in Submissions : GiveConsent(t) \/ Withdraw(t) \/ CoolOff(t)
           \/ Tick \/ UNCHANGED vars
  BY <1>1, <1>4, EnvironmentRows, EnvironmentAttempts, SameRecorded
<1> QED
  BY <1>2, <1>3, <1>4 DEF Next

\* A change that is restaged, and not as merged unless its entry is there, bears what
\* it bore.
LEMMA RestagedBears ==
    ASSUME IInv, UInv, Grows, GoesOn, NEW c \in changes, NEW stage,
           stage = "merged" => EntryOf(c.sub, c.id) \in database',
           changes' = Restage(c, stage)
    PROVE  \A x \in changes' : Bears(x)'
<1> SUFFICES ASSUME NEW x \in changes' PROVE Bears(x)'
  OBVIOUS
<1> DEFINE next == [c EXCEPT !.stage = stage]
<1>1. x \in changes \/ x = next
  BY DEF Restage
<1>2. CASE x \in changes
  BY <1>2, BearsOn DEF UInv
<1>3. CASE x = next
  <2>1. c \in Changes /\ Bears(c)
    BY DEF UInv, IInv, Inv, TypeOK
  <2>2. x.sub = c.sub /\ x.id = c.id /\ x.stage = stage
    BY <1>3, <2>1 DEF Changes
  <2>3. Bears(c)'
    BY <2>1, BearsOn
  <2> HIDE DEF next
  <2> QED
    BY <2>2, <2>3 DEF Bears, EntryOf
<1> QED
  BY <1>1, <1>2, <1>3

\* A branch is pushed for an identity the command has published and whose receipt
\* it has bound.
LEMMA PushBears ==
    ASSUME IInv, UInv, NEW p \in Workers, Push(p), Grows, GoesOn
    PROVE  \A x \in changes' : Bears(x)'
<1> SUFFICES ASSUME NEW x \in changes' PROVE Bears(x)'
  OBVIOUS
<1>1. /\ w[p].pc = "push" /\ Claims(w[p]) /\ w[p].sub \in Submissions
      /\ w[p].id \in Identities
  BY Running DEF Push, UInv, Sound, Carries, IdentityPCs
<1> DEFINE next == [sub |-> w[p].sub, id |-> w[p].id, stage |-> "pushed"]
<1>2. x \in changes \/ x = next
  BY DEF Push
<1>3. CASE x \in changes
  BY <1>3, BearsOn DEF UInv
<1>4. CASE x = next
  <2>1. x.sub = w[p].sub /\ x.id = w[p].id /\ x.stage = "pushed"
    BY <1>4
  <2>2. /\ Named(w[p].id) /\ [sub |-> w[p].sub, id |-> w[p].id] \in archive
        /\ \E row \in state[w[p].sub].uses :
             row.id = w[p].id /\ row.phase \in {"published", "registered"}
    BY <1>1, NoneAssumption DEF Claims, Grounded
  <2>3. state' = state
    BY DEF Push
  <2> HIDE DEF next
  <2> QED
    BY <2>1, <2>2, <2>3 DEF Bears, Grows, Named, DayOf
<1> QED
  BY <1>2, <1>3, <1>4

\* Every branch of the Database goes on bearing what it stands for.
LEMMA BearsKept == IInv /\ UInv /\ [Next]_vars => \A x \in changes' : Bears(x)'
<1> SUFFICES ASSUME IInv, UInv, [Next]_vars PROVE \A x \in changes' : Bears(x)'
  OBVIOUS
<1>1. Grows /\ GoesOn
  BY StepsGrow, StepsGoOn
<1>2. CASE UNCHANGED changes
  BY <1>1, <1>2, BearsOn DEF UInv
<1>3. ASSUME NEW p \in Workers, Push(p) PROVE \A x \in changes' : Bears(x)'
  BY <1>1, <1>3, PushBears
<1>4. ASSUME NEW p \in Workers, Reopen(p) \/ OpenPR(p), ~UNCHANGED changes
      PROVE  \A x \in changes' : Bears(x)'
  <2>1. PICK c \in Branch(w[p].sub, w[p].id) : changes' = Restage(c, "open")
    BY <1>4 DEF Reopen, OpenPR
  <2>2. c \in changes
    BY DEF Branch
  <2> QED
    BY <1>1, <2>1, <2>2, RestagedBears
<1>5. ASSUME NEW p \in Workers, Merge(p), ~UNCHANGED changes
      PROVE  \A x \in changes' : Bears(x)'
  <2> DEFINE c == Change(p, "open")
  <2>1. /\ c \in changes /\ changes' = Restage(c, "merged")
        /\ EntryOf(w[p].sub, w[p].id) \in database'
    BY <1>5 DEF Merge
  <2>2. EntryOf(c.sub, c.id) \in database'
    BY <2>1 DEF Change
  <2> HIDE DEF c
  <2> QED
    BY <1>1, <2>1, <2>2, RestagedBears
<1>6. \/ UNCHANGED changes \/ \E p \in Workers : Push(p) \/ Reopen(p) \/ OpenPR(p) \/ Merge(p)
  <2>1. ASSUME NEW p \in Workers, Register(p), ~Push(p), ~Reopen(p), ~OpenPR(p)
        PROVE  UNCHANGED changes
    BY <2>1 DEF Register, Recover, Recheckpoint, Validate, Clone, Allocate, Acquire,
       SaveAttempt, Discard, Hold, Start, StartWrite, Publish, Published, PublishedWrite,
       Checkpoint, RecordFailure
  <2>2. ASSUME NEW p \in Workers, Release(p) \/ Advance(p), ~Merge(p) PROVE UNCHANGED changes
    BY <2>2 DEF Release, RelLock, RelState, RelClear, Advance, Await, ReadConsent,
       FinalizeCheck, FinalizeWrite, Unlock, Clear
  <2>3. ASSUME NEW p \in Workers,
               Deliver(p) \/ Requeue(p) \/ Crash(p) \/ Raise(p) \/ LoseAnswer(p)
        PROVE  UNCHANGED changes
    BY <2>3 DEF Deliver, DeliverRead, WriteReview, DeliverWrite, Requeue, Crash, Raise, LoseAnswer
  <2>4. ASSUME NEW p \in Workers, NEW s \in Submissions, Begin(p, s) PROVE UNCHANGED changes
    BY <2>4 DEF Begin, BeginRegister, BeginAdvance, BeginFinalize, BeginRetry, BeginReview,
       BeginRun
  <2>5. ASSUME NEW s \in Submissions, GiveConsent(s) \/ Withdraw(s) \/ CoolOff(s)
        PROVE  UNCHANGED changes
    BY <2>5 DEF GiveConsent, Withdraw, CoolOff, SubmitterWrites
  <2>6. CASE Tick \/ UNCHANGED vars
    BY <2>6 DEF Tick, vars
  <2> QED
    BY <2>1, <2>2, <2>3, <2>4, <2>5, <2>6 DEF Next, Step
<1> QED
  BY <1>2, <1>3, <1>4, <1>5, <1>6

-----------------------------------------------------------------------------
(* How the Database numbers its entries *)

\* Serials and versions only grow with the Database.
LEMMA NumbersGrow ==
    ASSUME NEW db, IsFiniteSet(db), NEW e
    PROVE  /\ \A day : /\ LastSerial(db, day) \in Nat
                       /\ LastSerial(db \cup {e}, day) \in Nat
                       /\ LastSerial(db, day) <= LastSerial(db \cup {e}, day)
                       /\ e \notin db /\ e.version = 1 /\ e.name[1] = day =>
                            LastSerial(db \cup {e}, day) = LastSerial(db, day) + 1
           /\ \A r : /\ LastVersion(db, r) \in Nat \ {0}
                     /\ LastVersion(db \cup {e}, r) \in Nat \ {0}
                     /\ LastVersion(db, r) <= LastVersion(db \cup {e}, r)
                     /\ e \notin db /\ e.name = r =>
                          LastVersion(db \cup {e}, r) = LastVersion(db, r) + 1
<1> DEFINE grown == db \cup {e}
<1>1. IsFiniteSet(grown)
  BY FS_AddElement
<1>2. ASSUME NEW A, NEW B, B \subseteq grown, A \subseteq B, B \subseteq A \cup {e}
      PROVE  /\ Cardinality(A) \in Nat /\ Cardinality(B) \in Nat
             /\ Cardinality(A) <= Cardinality(B)
             /\ e \in B /\ e \notin A => Cardinality(B) = Cardinality(A) + 1
  <2>1. IsFiniteSet(A) /\ IsFiniteSet(B)
    BY <1>1, <1>2, FS_Subset
  <2>2. e \in B /\ e \notin A => B = A \cup {e}
    BY <1>2
  <2> QED
    BY <1>2, <2>1, <2>2, FS_Subset, FS_CardinalityType, FS_AddElement
<1>3. ASSUME NEW day
      PROVE  /\ LastSerial(db, day) \in Nat /\ LastSerial(grown, day) \in Nat
             /\ LastSerial(db, day) <= LastSerial(grown, day)
             /\ e \notin db /\ e.version = 1 /\ e.name[1] = day =>
                  LastSerial(grown, day) = LastSerial(db, day) + 1
  <2> DEFINE A == {x \in db : x.version = 1 /\ x.name[1] = day}
             B == {x \in grown : x.version = 1 /\ x.name[1] = day}
  <2>1. /\ B \subseteq grown /\ A \subseteq B /\ B \subseteq A \cup {e}
        /\ e \notin db /\ e.version = 1 /\ e.name[1] = day => e \in B /\ e \notin A
    OBVIOUS
  <2>2. LastSerial(db, day) = Cardinality(A) /\ LastSerial(grown, day) = Cardinality(B)
    BY DEF LastSerial
  <2> HIDE DEF A, B
  <2> QED
    BY <1>2, <2>1, <2>2
<1>4. ASSUME NEW r
      PROVE  /\ LastVersion(db, r) \in Nat \ {0} /\ LastVersion(grown, r) \in Nat \ {0}
             /\ LastVersion(db, r) <= LastVersion(grown, r)
             /\ e \notin db /\ e.name = r => LastVersion(grown, r) = LastVersion(db, r) + 1
  <2> DEFINE A == {x \in db : x.name = r}
             B == {x \in grown : x.name = r}
  <2>1. /\ B \subseteq grown /\ A \subseteq B /\ B \subseteq A \cup {e}
        /\ e \notin db /\ e.name = r => e \in B /\ e \notin A
    OBVIOUS
  <2>2. LastVersion(db, r) = 1 + Cardinality(A) /\ LastVersion(grown, r) = 1 + Cardinality(B)
    BY DEF LastVersion
  <2> HIDE DEF A, B
  <2> QED
    BY <1>2, <2>1, <2>2
<1> QED
  BY <1>3, <1>4

\* What the Database assigns next is in no entry of it.
LEMMA NextIsNew ==
    ASSUME NEW db, IsFiniteSet(db), Numbered(db), NEW id \in Identities, Named(id),
           NextFor(db, id)
    PROVE  \A f \in db : ~(f.name = id.name /\ f.version = id.version)
<1> SUFFICES ASSUME NEW f \in db, f.name = id.name, f.version = id.version PROVE FALSE
  OBVIOUS
<1>1. \A e : /\ \A day : LastSerial(db, day) \in Nat
             /\ \A r : LastVersion(db, r) \in Nat
  BY NumbersGrow
<1>2. CASE id.existing = None
  <2>1. id.version = 1 /\ id.name[2] = LastSerial(db, id.name[1]) + 1
    BY <1>2 DEF Named, NextFor
  <2>2. f.name[2] \in Nat /\ f.name[2] <= LastSerial(db, f.name[1])
    BY <2>1 DEF Numbered
  <2> QED
    BY <1>1, <2>1, <2>2
<1>3. CASE id.existing # None
  <2>1. /\ id.version > 1 /\ id.name = id.existing
        /\ id.version = LastVersion(db, id.name) + 1
    BY <1>3 DEF Named, NextFor
  <2>2. f.version <= LastVersion(db, f.name)
    BY <2>1 DEF Numbered
  <2> QED
    BY <1>1, <2>1, <2>2
<1> QED
  BY <1>2, <1>3

\* Merging what it assigns next keeps the Database numbered.
LEMMA MergeNumbers ==
    ASSUME NEW db, db \subseteq Entries, IsFiniteSet(db), Numbered(db), NEW s,
           NEW id \in Identities, Named(id), NextFor(db, id)
    PROVE  Numbered(db \cup {EntryOf(s, id)})
<1> DEFINE e == EntryOf(s, id)
<1>1. e.name = id.name /\ e.version = id.version
  BY DEF EntryOf
<1> HIDE DEF e
<1>2. \A f \in db : ~(f.name = e.name /\ f.version = e.version)
  BY <1>1, NextIsNew
<1>3. e \notin db
  BY <1>2
<1>4. ASSUME NEW f \in db
      PROVE  /\ f.version = 1 =>
                  f.name[2] \in Nat /\ f.name[2] <= LastSerial(db \cup {e}, f.name[1])
             /\ f.version > 1 => f.version <= LastVersion(db \cup {e}, f.name)
  <2>1. /\ f.version = 1 => f.name[2] \in Nat /\ f.name[2] <= LastSerial(db, f.name[1])
        /\ f.version > 1 => f.version <= LastVersion(db, f.name)
    BY DEF Numbered
  <2> DEFINE n == LastSerial(db, f.name[1])   m == LastSerial(db \cup {e}, f.name[1])
             v == LastVersion(db, f.name)     u == LastVersion(db \cup {e}, f.name)
  <2>2. n \in Nat /\ m \in Nat /\ n <= m /\ v \in Nat /\ u \in Nat /\ v <= u
    BY NumbersGrow
  <2> HIDE DEF n, m, v, u
  <2>3. f.version = 1 => f.name[2] \in Nat /\ f.name[2] <= m
    BY <2>1, <2>2 DEF n
  <2>4. f.version > 1 => f.version <= u
    <3>1. f.version \in Nat
      BY DEF Entries
    <3> QED
      BY <2>1, <2>2, <3>1 DEF v
  <2> QED
    BY <2>3, <2>4 DEF m, u
<1>5. /\ e.version = 1 =>
            e.name[2] \in Nat /\ e.name[2] <= LastSerial(db \cup {e}, e.name[1])
      /\ e.version > 1 => e.version <= LastVersion(db \cup {e}, e.name)
  <2>1. CASE id.existing = None
    <3>1. e.version = 1 /\ e.name[2] = LastSerial(db, e.name[1]) + 1
      BY <1>1, <2>1 DEF Named, NextFor
    <3>2. LastSerial(db, e.name[1]) \in Nat /\ LastSerial(db \cup {e}, e.name[1]) = e.name[2]
      BY <1>3, <3>1, NumbersGrow
    <3> QED
      BY <3>1, <3>2
  <2>2. CASE id.existing # None
    <3>1. e.version > 1 /\ e.version = LastVersion(db, e.name) + 1
      BY <1>1, <2>2 DEF Named, NextFor
    <3>2. LastVersion(db, e.name) \in Nat /\ LastVersion(db \cup {e}, e.name) = e.version
      BY <1>3, <3>1, NumbersGrow
    <3> QED
      BY <3>1, <3>2
  <2> QED
    BY <2>1, <2>2
<1>6. \A f, g \in db \cup {e} : f.name = g.name /\ f.version = g.version => f = g
  BY <1>2 DEF Numbered
<1>7. Numbered(db \cup {e})
  BY <1>4, <1>5, <1>6 DEF Numbered
<1> QED
  BY <1>7 DEF e

\* The Database is entered by merges alone.
LEMMA OnlyMergeEnters == [Next]_vars => UNCHANGED database \/ \E p \in Workers : Merge(p)
<1> SUFFICES ASSUME [Next]_vars, \A p \in Workers : ~Merge(p) PROVE UNCHANGED database
  OBVIOUS
<1>1. ASSUME NEW p \in Workers, Register(p) PROVE UNCHANGED database
  BY <1>1 DEF Register, Recover, Reopen, Recheckpoint, Validate, Clone, Allocate, Acquire,
     SaveAttempt, Discard, Hold, Start, StartWrite, Publish, Published, PublishedWrite, Push,
     OpenPR, Checkpoint, RecordFailure
<1>2. ASSUME NEW p \in Workers, Release(p) \/ Advance(p) PROVE UNCHANGED database
  BY <1>2 DEF Release, RelLock, RelState, RelClear, Advance, Await, ReadConsent,
     FinalizeCheck, FinalizeWrite, Unlock, Clear
<1>3. ASSUME NEW p \in Workers,
             Deliver(p) \/ Requeue(p) \/ Crash(p) \/ Raise(p) \/ LoseAnswer(p)
      PROVE  UNCHANGED database
  BY <1>3 DEF Deliver, DeliverRead, WriteReview, DeliverWrite, Requeue, Crash, Raise, LoseAnswer
<1>4. ASSUME NEW p \in Workers, NEW s \in Submissions, Begin(p, s) PROVE UNCHANGED database
  BY <1>4 DEF Begin, BeginRegister, BeginAdvance, BeginFinalize, BeginRetry, BeginReview,
     BeginRun
<1>5. ASSUME NEW s \in Submissions, GiveConsent(s) \/ Withdraw(s) \/ CoolOff(s)
      PROVE  UNCHANGED database
  BY <1>5 DEF GiveConsent, Withdraw, CoolOff, SubmitterWrites
<1>6. CASE Tick \/ UNCHANGED vars
  BY <1>6 DEF Tick, vars
<1> QED
  BY <1>1, <1>2, <1>3, <1>4, <1>5, <1>6 DEF Next, Step

\* Only a merge adds an entry, and it adds what the Database assigns next.
LEMMA NumberedKept == IInv /\ UInv /\ [Next]_vars => Numbered(database)'
<1> SUFFICES ASSUME IInv, UInv, [Next]_vars PROVE Numbered(database)'
  OBVIOUS
<1>1. Numbered(database) /\ IsFiniteSet(database) /\ database \subseteq Entries
  BY DEF UInv, IInv, Inv, TypeOK, Finite
<1>2. CASE UNCHANGED database
  BY <1>1, <1>2
<1>3. ASSUME NEW p \in Workers, Merge(p), ~UNCHANGED database PROVE Numbered(database)'
  <2>1. w[p].pc = "merge" /\ w[p].id \in Identities /\ Claims(w[p])
    BY <1>3, Running DEF Merge, Sound, Carries, IdentityPCs, AdvancePCs, UInv
  <2>2. Named(w[p].id)
    BY <2>1, NoneAssumption DEF Claims, Grounded
  <2>3. /\ database' = database \cup {EntryOf(w[p].sub, w[p].id)}
        /\ NextFor(database, w[p].id)
    BY <1>3 DEF Merge, Mergeable
  <2>4. Numbered(database \cup {EntryOf(w[p].sub, w[p].id)})
    BY <1>1, <2>1, <2>2, <2>3, MergeNumbers
  <2> QED
    BY <2>3, <2>4
<1>4. UNCHANGED database \/ \E p \in Workers : Merge(p)
  BY OnlyMergeEnters
<1> QED
  BY <1>2, <1>3, <1>4

\* The files start out with nothing to stand for.
LEMMA InitUInv == Init => UInv
<1> SUFFICES ASSUME Init PROVE UInv
  OBVIOUS
<1>1. ASSUME NEW p \in Workers PROVE Claims(w[p])
  BY DEF Init, Idle, Claims, Tasked, Grounded, Entitled
<1>2. ASSUME NEW s \in Submissions PROVE Recorded(s)
  BY DEF Init, Recorded
<1> QED
  BY <1>1, <1>2 DEF Init, UInv, Numbered

\* The second invariant of the protocol: names follow days and results, entries
\* follow names, and every command has behind it what it is about to rely on.
THEOREM NamesFollow == Spec => []UInv
<1>1. IInv /\ UInv /\ [Next]_vars => UInv'
  BY ClaimsKept, BearsKept, RecordedKept, NumberedKept DEF UInv
<1> QED
  BY <1>1, InitUInv, Invariance, PTL DEF Spec

\* A branch of the Database is pushed only for an identity that the archive shows and
\* whose receipt is bound to the record, and this stays true of it (cli.register,
\* push_change).
THEOREM BranchesArePublished == Spec => []BranchIsPublished
<1>1. UInv => BranchIsPublished
  BY DEF UInv, Bears, BranchIsPublished
<1> QED
  BY <1>1, NamesFollow, PTL

-----------------------------------------------------------------------------
(* A withdrawal is final *)

\* What WithdrawalStands asks of a step and a record.
Stands(s) == state[s].status = "withdrawn" =>
    /\ {row.id : row \in state'[s].uses} = {row.id : row \in state[s].uses}
    /\ \/ state'[s].status = "withdrawn"
       \/ state'[s].status = "registered" /\ \E e \in database : e.sub = s

\* Every step but the registration that was merged leaves a withdrawn status alone.
SameStatus == \A s \in Submissions :
    state[s].status = "withdrawn" => state'[s].status = state[s].status

\* A step that keeps statuses and rows respects a withdrawal.
LEMMA SameStands ==
    ASSUME SameStatus, SameRows, NEW s \in Submissions
    PROVE  Stands(s)
<1> QED
  BY DEF SameStatus, SameRows, Stands

\* The steps of a registration look at the status, or leave it alone.
LEMMA RegisterStatus ==
    ASSUME IInv, UInv, NEW p \in Workers, Register(p)
    PROVE  SameStatus
<1> USE DEF SameStatus
<1>1. state \in [Submissions -> Records]
  BY DEF IInv, Inv, TypeOK
<1>2. CASE Recheckpoint(p) \/ Checkpoint(p) \/ SaveAttempt(p)
  BY <1>1, <1>2 DEF Recheckpoint, Checkpoint, SaveAttempt, WritesRecord, Records
<1>3. CASE Validate(p)
  BY <1>1, <1>3 DEF Validate, Standing, WritesRecord
<1>4. CASE RecordFailure(p)
  BY <1>1, <1>4 DEF RecordFailure, WritesRecord
<1>5. CASE StartWrite(p)
  <2> DEFINE row == [id |-> w[p].id, phase |-> "publication-started"]
  <2>1. \/ state' = [state EXCEPT ![w[p].sub] = [state[w[p].sub] EXCEPT !.uses = @ \cup {row}]]
        \/ UNCHANGED state
    BY <1>5 DEF StartWrite, WritesRecord
  <2> HIDE DEF row
  <2> QED
    BY <1>1, <2>1 DEF Records
<1>6. CASE PublishedWrite(p)
  <2>1. \/ state' = [state EXCEPT ![w[p].sub] = InPhase(state[w[p].sub], w[p].id, "published")]
        \/ UNCHANGED state
    BY <1>6 DEF PublishedWrite, WritesRecord
  <2> QED
    BY <1>1, <2>1 DEF InPhase, Records
<1>7. CASE \/ Recover(p) \/ Reopen(p) \/ Clone(p) \/ Allocate(p) \/ Acquire(p) \/ Discard(p)
           \/ Hold(p) \/ Start(p) \/ Publish(p) \/ Published(p) \/ Push(p) \/ OpenPR(p)
  BY <1>7 DEF Recover, Reopen, Clone, Allocate, Acquire, Discard, Hold, Start, Publish,
     Published, Push, OpenPR, WritesLock
<1> QED
  BY <1>2, <1>3, <1>4, <1>5, <1>6, <1>7 DEF Register

\* So do those of the other commands: what a retry or a delivery writes back, it writes
\* through a copy of a record that was paused, or to be reviewed.
LEMMA OtherStatus ==
    ASSUME IInv, UInv, NEW p \in Workers,
           \/ Release(p) \/ (Advance(p) /\ ~FinalizeWrite(p)) \/ Deliver(p) \/ Requeue(p)
           \/ Crash(p) \/ Raise(p) \/ LoseAnswer(p)
           \/ \E s \in Submissions : Begin(p, s)
    PROVE  SameStatus
<1> USE DEF SameStatus
<1>1. state \in [Submissions -> Records]
  BY DEF IInv, Inv, TypeOK
<1>2. CASE Release(p)
  BY <1>1, <1>2 DEF Release, RelLock, RelState, RelClear, WritesLock, WritesRecord, Records
<1>3. CASE Advance(p) /\ ~FinalizeWrite(p)
  BY <1>3 DEF Advance, Await, ReadConsent, Merge, FinalizeCheck, Unlock, Clear, WritesLock
<1>4. CASE DeliverRead(p) \/ WriteReview(p) \/ Crash(p) \/ Raise(p)
  BY <1>4 DEF DeliverRead, WriteReview, Crash, Raise
<1>5. CASE DeliverWrite(p) \/ Requeue(p)
  <2>1. Claims(w[p])
    BY DEF UInv
  <2>2. w[p].fresh => state[w[p].sub].status # "withdrawn"
    BY <1>5, <2>1 DEF DeliverWrite, Requeue, Claims, Tasked, Entitled
  <2> QED
    BY <1>1, <1>5, <2>2 DEF DeliverWrite, Requeue, WritesRecord
<1>6. CASE LoseAnswer(p)
  BY <1>1, <1>6 DEF LoseAnswer, WritesRecord, Records
<1>7. CASE \E s \in Submissions : Begin(p, s)
  <2>1. PICK s \in Submissions : Begin(p, s)
    BY <1>7
  <2>2. CASE BeginReview(p, s)
    BY <1>1, <2>2 DEF BeginReview, Reviewable, WritesRecord
  <2> QED
    BY <2>1, <2>2 DEF Begin, BeginRegister, BeginAdvance, BeginFinalize, BeginRetry, BeginRun
<1> QED
  BY <1>2, <1>3, <1>4, <1>5, <1>6, <1>7 DEF Deliver

\* The world writes no status over a withdrawn one.
LEMMA EnvironmentStatus ==
    ASSUME IInv, \/ \E s \in Submissions : GiveConsent(s) \/ Withdraw(s) \/ CoolOff(s)
                 \/ Tick \/ UNCHANGED vars
    PROVE  SameStatus
<1> USE DEF SameStatus
<1>1. state \in [Submissions -> Records]
  BY DEF IInv, Inv, TypeOK
<1>2. ASSUME NEW s \in Submissions, GiveConsent(s) \/ Withdraw(s) PROVE SameStatus
  BY <1>1, <1>2 DEF GiveConsent, Withdraw, SubmitterWrites, Records
<1>3. ASSUME NEW s \in Submissions, CoolOff(s) PROVE SameStatus
  BY <1>1, <1>3 DEF CoolOff, Records
<1>4. CASE Tick \/ UNCHANGED vars
  BY <1>4 DEF Tick, vars
<1> QED
  BY <1>2, <1>3, <1>4

\* A row moved to a later phase keeps its identity, and its record the status.
LEMMA MovedIds ==
    ASSUME IInv, NEW s \in Submissions, NEW row \in state[s].uses, NEW phase \in Phases
    PROVE  /\ InPhase(state[s], row.id, phase) \in Records
           /\ InPhase(state[s], row.id, phase).status = state[s].status
           /\ {u.id : u \in InPhase(state[s], row.id, phase).uses}
                = {u.id : u \in state[s].uses}
<1> DEFINE next == [id |-> row.id, phase |-> phase]
           moved == InPhase(state[s], row.id, phase)
<1>1. state[s].uses = {row} /\ state[s] \in Records
  BY DEF IInv, Inv, TypeOK, PublicReviewConsented
<1>2. moved \in Records /\ moved.uses = {next} /\ moved.status = state[s].status
  BY <1>1, InPhaseType
<1>3. next.id = row.id
  OBVIOUS
<1> HIDE DEF next, moved
<1>4. {u.id : u \in moved.uses} = {u.id : u \in state[s].uses}
  BY <1>1, <1>2, <1>3
<1> QED
  BY <1>2, <1>4 DEF moved

\* The steps that move a row leave the identities of the rows, and the status until it
\* is registered, and then what it registers was merged.
LEMMA MovingSteps ==
    ASSUME IInv, UInv, NEW p \in Workers,
           (StartWrite(p) /\ ~w[p].fresh) \/ PublishedWrite(p) \/ FinalizeWrite(p),
           NEW s \in Submissions
    PROVE  /\ {row.id : row \in state'[s].uses} = {row.id : row \in state[s].uses}
           /\ \/ state'[s].status = state[s].status
              \/ state'[s].status = "registered" /\ \E e \in database : e.sub = s
<1> DEFINE id == w[p].id
<1>1. /\ w[p].sub \in Submissions /\ Sound(w[p]) /\ Claims(w[p])
      /\ state \in [Submissions -> Records]
  BY Running DEF UInv, IInv, Inv, TypeOK, StartWrite, PublishedWrite, FinalizeWrite
<1>2. CASE s # w[p].sub \/ ~w[p].fresh
  <2>1. state'[s] = state[s]
    BY <1>1, <1>2 DEF StartWrite, PublishedWrite, FinalizeWrite, WritesRecord
  <2> QED
    BY <2>1
<1>3. CASE s = w[p].sub /\ w[p].fresh /\ PublishedWrite(p)
  <2> DEFINE started == [id |-> id, phase |-> "publication-started"]
             moved == InPhase(state[s], id, "published")
  <2>1. started.id = id /\ started \in state[s].uses
    BY <1>1, <1>3 DEF Sound, FreshCopy, PublishedWrite
  <2> HIDE DEF started
  <2>2. /\ moved.status = state[s].status
        /\ {row.id : row \in moved.uses} = {row.id : row \in state[s].uses}
    BY <2>1, MovedIds DEF Phases
  <2>3. state'[s] = moved
    BY <1>1, <1>3 DEF PublishedWrite, WritesRecord
  <2> HIDE DEF moved
  <2> QED
    BY <2>2, <2>3
<1>4. CASE s = w[p].sub /\ w[p].fresh /\ FinalizeWrite(p)
  <2> DEFINE moved == InPhase(state[s], id, "registered")
  <2>1. \E row \in state[s].uses : row.id = id
    BY <1>1, <1>4 DEF Sound, FreshCopy, FinalizeWrite
  <2>2. moved \in Records /\ {row.id : row \in moved.uses} = {row.id : row \in state[s].uses}
    BY <2>1, MovedIds DEF Phases
  <2>3. state'[s] = [moved EXCEPT !.status = "registered"]
    BY <1>1, <1>4 DEF FinalizeWrite, WritesRecord
  <2> HIDE DEF moved
  <2>4. state'[s].status = "registered" /\ state'[s].uses = moved.uses
    BY <2>2, <2>3 DEF Records
  <2>5. EntryOf(s, id) \in database /\ EntryOf(s, id).sub = s
    BY <1>1, <1>4 DEF FinalizeWrite, Claims, Grounded, EntryOf
  <2> QED
    BY <2>2, <2>4, <2>5
<1> QED
  BY <1>2, <1>3, <1>4

\* A row that is new is of a record that was still to be registered.
LEMMA MovedStands ==
    ASSUME IInv, UInv, NEW p \in Workers, StartWrite(p) \/ PublishedWrite(p) \/ FinalizeWrite(p),
           NEW s \in Submissions
    PROVE  Stands(s)
<1>1. CASE StartWrite(p) /\ w[p].fresh
  <2>1. /\ w[p].sub \in Submissions /\ Claims(w[p]) /\ state \in [Submissions -> Records]
    BY <1>1, Running DEF UInv, IInv, Inv, TypeOK, StartWrite
  <2>2. CASE s = w[p].sub
    BY <1>1, <2>1, <2>2 DEF StartWrite, Claims, Entitled, Stands
  <2>3. CASE s # w[p].sub
    <3>1. state'[s] = state[s]
      BY <1>1, <2>1, <2>3 DEF StartWrite, WritesRecord
    <3> QED
      BY <3>1 DEF Stands
  <2> QED
    BY <2>2, <2>3
<1>2. CASE (StartWrite(p) /\ ~w[p].fresh) \/ PublishedWrite(p) \/ FinalizeWrite(p)
  <2>1. /\ {row.id : row \in state'[s].uses} = {row.id : row \in state[s].uses}
        /\ \/ state'[s].status = state[s].status
           \/ state'[s].status = "registered" /\ \E e \in database : e.sub = s
    BY <1>2, MovingSteps
  <2> QED
    BY <2>1 DEF Stands
<1> QED
  BY <1>1, <1>2

\* A withdrawal is final, whatever was running: no identity is put on record as public
\* afterwards, and the status gives way only to a registration that had been merged
\* (server's withdrawal, cli.finalize).
THEOREM WithdrawalIsFinal == Spec => WithdrawalStands
<1>1. ASSUME IInv, UInv, [Next]_vars, NEW s \in Submissions PROVE Stands(s)
  <2>1. ASSUME NEW p \in Workers, StartWrite(p) \/ PublishedWrite(p) \/ FinalizeWrite(p)
        PROVE  Stands(s)
    BY <1>1, <2>1, MovedStands
  <2>2. ASSUME NEW p \in Workers, ~StartWrite(p), ~PublishedWrite(p), ~FinalizeWrite(p),
               \/ Step(p) \/ Crash(p) \/ Raise(p) \/ LoseAnswer(p)
               \/ \E t \in Submissions : Begin(p, t)
        PROVE  Stands(s)
    BY <1>1, <2>2, RegisterRows, OtherRows, RegisterStatus, OtherStatus, SameStands DEF Step
  <2>3. CASE \/ \E t \in Submissions : GiveConsent(t) \/ Withdraw(t) \/ CoolOff(t)
             \/ Tick \/ UNCHANGED vars
    BY <1>1, <2>3, EnvironmentRows, EnvironmentStatus, SameStands
  <2> QED
    BY <1>1, <2>1, <2>2, <2>3 DEF Next
<1>2. IInv /\ UInv /\ [Next]_vars =>
        [\A s \in Submissions : state[s].status = "withdrawn" =>
           /\ {row.id : row \in state'[s].uses} = {row.id : row \in state[s].uses}
           /\ \/ state'[s].status = "withdrawn"
              \/ /\ state'[s].status = "registered"
                 /\ \E e \in database : e.sub = s]_vars
  BY <1>1 DEF Stands
<1> QED
  BY <1>2, Invariance, NamesFollow, PTL DEF Spec, WithdrawalStands

-----------------------------------------------------------------------------
(* No two submissions are shown under one name *)

\* A lock that is held names its scope and an identity that the Database assigns next,
\* or that was merged for the holder.
Owned(scope) == lock[scope] # NoHolder =>
    /\ LockScope(lock[scope].id) = scope
    /\ Named(lock[scope].id)
    /\ \/ NextFor(database, lock[scope].id)
       \/ EntryOf(lock[scope].sub, lock[scope].id) \in database

\* No two submissions have public rows with the same name and version.
Distinct ==
    \A s, t \in Submissions : \A x \in state[s].uses, y \in state[t].uses :
        SameKey(x.id, y.id) => s = t

VInv == (\A scope \in Scopes : Owned(scope)) /\ Distinct

\* The condition all this is under: a free lock is only ever taken for an identity that
\* the Database, as it is then, assigns next.  A checkout that has fallen behind breaks
\* it, and the code does not look again.
TakesNext ==
    \A scope \in Scopes : lock[scope] = NoHolder /\ lock'[scope] # NoHolder =>
        NextFor(database, lock'[scope].id)

\* Identities of one name have one lock.
LEMMA SameKeySameLock ==
    ASSUME NEW x, NEW y, Named(x), Named(y), SameKey(x, y)
    PROVE  LockScope(x) = LockScope(y)
<1>1. CASE x.existing = None
  <2>1. x.version = 1 /\ x.name = <<DayOf(x.at), x.name[2]>>
    BY <1>1 DEF Named
  <2>2. y.existing = None /\ y.name = <<DayOf(y.at), y.name[2]>>
    BY <2>1 DEF Named, SameKey
  <2>3. DayOf(x.at) = DayOf(y.at)
    BY <2>1, <2>2 DEF SameKey
  <2> QED
    BY <1>1, <2>2, <2>3 DEF LockScope
<1>2. CASE x.existing # None
  <2>1. x.version > 1 /\ x.name = x.existing
    BY <1>2 DEF Named
  <2>2. y.existing # None /\ y.name = y.existing
    BY <2>1 DEF Named, SameKey
  <2> QED
    BY <1>2, <2>1, <2>2 DEF LockScope, SameKey
<1> QED
  BY <1>1, <1>2

\* What a step may do to the lock of a scope: nothing, free it, move it on with the
\* holder it has, or take it when it is free.
LockKept(scope) ==
    \/ lock'[scope] = lock[scope]
    \/ lock'[scope] = NoHolder
    \/ /\ lock[scope] # NoHolder
       /\ lock'[scope].sub = lock[scope].sub
       /\ lock'[scope].id = lock[scope].id
LockTaken(scope) ==
    /\ lock[scope] = NoHolder
    /\ LockScope(lock'[scope].id) = scope
    /\ Named(lock'[scope].id)
    /\ \E p \in Workers : w[p].pc = "acquire" /\ NextFor(w[p].seen, lock'[scope].id)

\* A lock whose status is rewritten by one who read it as held moves on.
LEMMA StatusMoves ==
    ASSUME IInv, NEW p \in Workers, NEW r, NEW s \in Submissions, NEW id \in Identities,
           NEW statuses, HeldBy(s, id, statuses), NEW status,
           WritesLock(p, LockScope(id), [lock[LockScope(id)] EXCEPT !.status = status], r),
           NEW scope \in Scopes
    PROVE  LockKept(scope)
<1>1. LockScope(id) \in Scopes
  BY ScopeType
<1>2. lock[LockScope(id)] # NoHolder
  BY NobodyHolds
<1>3. lock[LockScope(id)] \in Holders
  BY <1>1, <1>2 DEF IInv, Inv, TypeOK
<1>4. scope # LockScope(id) => lock'[scope] = lock[scope]
  BY DEF WritesLock, IInv, Inv, TypeOK
<1>5. scope = LockScope(id) =>
        lock'[scope].sub = lock[scope].sub /\ lock'[scope].id = lock[scope].id
  BY <1>3 DEF WritesLock, IInv, Inv, TypeOK, Holders
<1> QED
  BY <1>2, <1>4, <1>5 DEF LockKept

\* A lock that is freed.
LEMMA FreeingKeeps ==
    ASSUME IInv, NEW p, NEW r, NEW freed, WritesLock(p, freed, NoHolder, r),
           NEW scope \in Scopes
    PROVE  LockKept(scope)
<1> QED
  BY DEF WritesLock, LockKept, IInv, Inv, TypeOK

\* A lock that is taken, for the identity the command saved or derives from its
\* checkout (_acquire_registration_lock).
LEMMA AcquireTakes ==
    ASSUME IInv, UInv, NEW p \in Workers, Acquire(p), NEW scope \in Scopes
    PROVE  LockKept(scope) \/ LockTaken(scope)
<1> DEFINE s == w[p].sub
           id == IF w[p].saved THEN w[p].id ELSE NewIdentity(s, w[p].review, w[p].seen)
           holder == [sub |-> s, id |-> id, status |-> "acquiring"]
<1>1. /\ w[p].pc = "acquire" /\ Claims(w[p]) /\ Sound(w[p]) /\ s \in Submissions
      /\ IsFiniteSet(w[p].seen) /\ clock \in 0 .. MaxClock
  BY Running DEF Acquire, UInv, IInv, Inv, TypeOK
<1>2. Named(id)
  <2>1. w[p].saved => w[p].id # None
    BY <1>1, NoneAssumption DEF Sound, Carries
  <2> QED
    BY <1>1, <2>1, NewIdentityNamed DEF Claims, Grounded
<1>3. \/ UNCHANGED lock
      \/ /\ lock[LockScope(id)] = NoHolder /\ NextFor(w[p].seen, id)
         /\ lock' = [lock EXCEPT ![LockScope(id)] = holder]
  BY DEF Acquire, WritesLock
<1>4. holder.id = id
  OBVIOUS
<1> HIDE DEF holder, id
<1>5. scope # LockScope(id) => lock'[scope] = lock[scope]
  BY <1>3 DEF IInv, Inv, TypeOK
<1>6. scope = LockScope(id) =>
        \/ UNCHANGED lock
        \/ lock[scope] = NoHolder /\ lock'[scope] = holder /\ NextFor(w[p].seen, id)
  BY <1>3 DEF IInv, Inv, TypeOK
<1> QED
  BY <1>1, <1>2, <1>4, <1>5, <1>6 DEF LockKept, LockTaken

\* Every other step keeps every lock.
LEMMA RegisterLocks ==
    ASSUME IInv, UInv, NEW p \in Workers, Register(p), NEW scope \in Scopes
    PROVE  LockKept(scope) \/ LockTaken(scope)
<1>1. CASE Acquire(p)
  BY <1>1, AcquireTakes
<1>2. CASE Discard(p)
  BY <1>2, FreeingKeeps DEF Discard, LockKept
<1>3. CASE Hold(p)
  <2>1. /\ w[p].pc = "hold" /\ Sound(w[p]) /\ w[p].sub \in Submissions
        /\ w[p].id \in Identities
    BY <1>3, Running DEF Hold, Sound, Carries, IdentityPCs
  <2>2. w[p].lockFresh /\ ~w[p].held => HeldBy(w[p].sub, w[p].id, {"acquiring"})
    BY <2>1 DEF Sound, FreshLock
  <2> QED
    BY <1>3, <2>1, <2>2, StatusMoves DEF Hold, LockKept
<1>4. CASE ~Acquire(p) /\ ~Discard(p) /\ ~Hold(p)
  <2>1. UNCHANGED lock
    BY <1>4 DEF Register, Recover, Reopen, Recheckpoint, Validate, Clone, Allocate,
       SaveAttempt, Start, StartWrite, Publish, Published, PublishedWrite, Push,
       OpenPR, Checkpoint, RecordFailure
  <2> QED
    BY <2>1 DEF LockKept
<1> QED
  BY <1>1, <1>2, <1>3, <1>4

\* Release and advance keep or free locks.
LEMMA OtherLocks ==
    ASSUME IInv, NEW p \in Workers, Release(p) \/ Advance(p), NEW scope \in Scopes
    PROVE  LockKept(scope)
<1>1. CASE RelClear(p) \/ Clear(p)
  BY <1>1, FreeingKeeps DEF RelClear, Clear, LockKept
<1>2. CASE RelLock(p) \/ Unlock(p)
  <2>1. w[p].sub \in Submissions /\ w[p].id \in Identities
    BY <1>2, Running DEF RelLock, Unlock, Sound, Carries, IdentityPCs, ReleasePCs, AdvancePCs
  <2> QED
    BY <1>2, <2>1, StatusMoves DEF RelLock, Unlock, LockKept
<1>3. CASE ~RelClear(p) /\ ~Clear(p) /\ ~RelLock(p) /\ ~Unlock(p)
  <2>1. UNCHANGED lock
    BY <1>3 DEF Release, RelState, Advance, Await, ReadConsent, Merge, FinalizeCheck,
       FinalizeWrite
  <2> QED
    BY <2>1 DEF LockKept
<1> QED
  BY <1>1, <1>2, <1>3

\* A lock is kept, freed, moved on, or taken when it is free.
LEMMA LocksMove ==
    ASSUME IInv, UInv, [Next]_vars, NEW scope \in Scopes
    PROVE  LockKept(scope) \/ LockTaken(scope)
<1>1. ASSUME NEW p \in Workers, Register(p) \/ Release(p) \/ Advance(p)
      PROVE  LockKept(scope) \/ LockTaken(scope)
  BY <1>1, RegisterLocks, OtherLocks
<1>2. ASSUME NEW p \in Workers,
             Deliver(p) \/ Requeue(p) \/ Crash(p) \/ Raise(p) \/ LoseAnswer(p)
      PROVE  UNCHANGED lock
  BY <1>2 DEF Deliver, DeliverRead, WriteReview, DeliverWrite, Requeue, Crash, Raise, LoseAnswer
<1>3. ASSUME NEW p \in Workers, NEW s \in Submissions, Begin(p, s) PROVE UNCHANGED lock
  BY <1>3 DEF Begin, BeginRegister, BeginAdvance, BeginFinalize, BeginRetry, BeginReview,
     BeginRun
<1>4. ASSUME NEW s \in Submissions, GiveConsent(s) \/ Withdraw(s) \/ CoolOff(s)
      PROVE  UNCHANGED lock
  BY <1>4 DEF GiveConsent, Withdraw, CoolOff, SubmitterWrites
<1>5. Tick \/ UNCHANGED vars => UNCHANGED lock
  BY DEF Tick, vars
<1>6. UNCHANGED lock => LockKept(scope)
  BY DEF LockKept
<1> QED
  BY <1>1, <1>2, <1>3, <1>4, <1>5, <1>6 DEF Next, Step

\* Days are numbers, and no result is named like a first version.
LEMMA FirstNames ==
    ASSUME NEW id \in Identities, Named(id), id.existing = None
    PROVE  id.name \notin Results /\ id.name[1] = LockScope(id)
<1>1. id.name = <<DayOf(id.at), id.name[2]>> /\ id.name[2] \in Nat
  BY DEF Named
<1>2. DayOf(id.at) \in Nat
  BY ConstantsAssumption DEF ConstantsAssumption, DayOf, Identities
<1> DEFINE day == DayOf(id.at)   n == id.name[2]
<1>3. <<day, n>> \in Nat \X Nat
  BY <1>1, <1>2
<1>4. id.name = <<day, n>> /\ LockScope(id) = day
  BY <1>1 DEF LockScope
<1> HIDE DEF day, n
<1>5. <<day, n>> \notin Results
  BY <1>3, ConstantsAssumption DEF ConstantsAssumption
<1>6. <<day, n>>[1] = day
  OBVIOUS
<1> QED
  BY <1>4, <1>5, <1>6

\* An entry of another scope leaves what the Database assigns next in this one.
LEMMA OtherScopesNext ==
    ASSUME NEW db, NEW s, NEW i \in Identities, NEW j \in Identities, Named(i), Named(j),
           LockScope(i) # LockScope(j), NextFor(db, j)
    PROVE  NextFor(db \cup {EntryOf(s, i)}, j)
<1> DEFINE e == EntryOf(s, i)
<1>1. e.name = i.name /\ e.version = i.version
  BY DEF EntryOf
<1> HIDE DEF e
<1>2. CASE j.existing = None
  <2> DEFINE day == j.name[1]
  <2>1. LockScope(j) = day
    BY <1>2, FirstNames
  <2>2. ~(e.version = 1 /\ e.name[1] = day)
    <3> SUFFICES ASSUME e.version = 1, e.name[1] = day PROVE FALSE
      OBVIOUS
    <3>1. i.existing = None
      BY <1>1 DEF Named
    <3> QED
      BY <1>1, <2>1, <3>1, FirstNames
  <2> HIDE DEF day
  <2>3. {x \in db \cup {e} : x.version = 1 /\ x.name[1] = day}
          = {x \in db : x.version = 1 /\ x.name[1] = day}
    BY <2>2
  <2>4. LastSerial(db \cup {e}, day) = LastSerial(db, day)
    BY <2>3 DEF LastSerial
  <2> QED
    BY <1>2, <2>4 DEF NextFor, day, e
<1>3. CASE j.existing # None
  <2> DEFINE r == j.existing
  <2>1. r \in Results /\ LockScope(j) = r
    BY <1>3 DEF Identities, LockScope
  <2>2. e.name # r
    <3>1. CASE i.existing = None
      BY <1>1, <2>1, <3>1, FirstNames
    <3>2. CASE i.existing # None
      BY <1>1, <2>1, <3>2 DEF Named, LockScope
    <3> QED
      BY <3>1, <3>2
  <2> HIDE DEF r
  <2>3. {x \in db \cup {e} : x.name = r} = {x \in db : x.name = r}
    BY <2>2
  <2>4. LastVersion(db \cup {e}, r) = LastVersion(db, r)
    BY <2>3 DEF LastVersion
  <2> QED
    BY <1>3, <2>4 DEF NextFor, r, e
<1> QED
  BY <1>2, <1>3

\* Whoever merges holds the lock of the scope: the row of the branch is public and not
\* registered yet, for otherwise the submission would have an entry.
LEMMA MergerHolds ==
    ASSUME IInv, UInv, NEW p \in Workers, Change(p, "open") \in changes,
           Mergeable(w[p].sub, w[p].id)
    PROVE  /\ w[p].sub \in Submissions /\ w[p].id \in Identities /\ Named(w[p].id)
           /\ lock[LockScope(w[p].id)].sub = w[p].sub
           /\ lock[LockScope(w[p].id)].id = w[p].id
<1> DEFINE c == Change(p, "open")
<1>1. c.sub = w[p].sub /\ c.id = w[p].id /\ c \in Changes /\ Bears(c)
  BY DEF Change, UInv, IInv, Inv, TypeOK
<1> HIDE DEF c
<1>2. w[p].sub \in Submissions /\ w[p].id \in Identities /\ Named(w[p].id)
  BY <1>1 DEF Changes, Bears
<1>3. PICK row \in state[w[p].sub].uses : row.id = w[p].id
  BY <1>1 DEF Bears
<1>4. row.phase # "registered"
  <2> SUFFICES ASSUME row.phase = "registered" PROVE FALSE
    OBVIOUS
  <2>1. EntryOf(w[p].sub, w[p].id) \in database
    BY <1>2, <1>3 DEF UInv, Recorded
  <2>2. EntryOf(w[p].sub, w[p].id).sub = w[p].sub
    BY DEF EntryOf
  <2> QED
    BY <2>1, <2>2 DEF Mergeable, Bound
<1>5. HeldBy(w[p].sub, w[p].id, {"held", "releasing"})
  BY <1>2, <1>3, <1>4 DEF IInv, Inv, PublicHoldsLock
<1> QED
  BY <1>2, <1>5 DEF HeldBy

\* Every lock goes on owning its name.
LEMMA OwnedKept ==
    ASSUME IInv, UInv, \A c \in Scopes : Owned(c), TakesNext, [Next]_vars, NEW scope \in Scopes
    PROVE  Owned(scope)'
<1> SUFFICES ASSUME lock'[scope] # NoHolder PROVE Owned(scope)'
  BY DEF Owned
<1>1. CASE UNCHANGED database
  <2>1. LockKept(scope) \/ LockTaken(scope)
    BY LocksMove
  <2>2. CASE LockKept(scope)
    <3> DEFINE l == lock[scope]   m == lock'[scope]
    <3>1. l # NoHolder /\ m.sub = l.sub /\ m.id = l.id
      BY <2>2 DEF LockKept
    <3>2. LockScope(m.id) = scope /\ Named(m.id)
      BY <3>1 DEF Owned
    <3>3. NextFor(database, m.id) \/ EntryOf(m.sub, m.id) \in database
      BY <3>1 DEF Owned
    <3>4. database' = database
      BY <1>1
    <3> QED
      BY <3>2, <3>3, <3>4 DEF Owned, LockScope, Named, NextFor, EntryOf, DayOf, LastSerial,
         LastVersion
  <2>3. CASE LockTaken(scope)
    <3>1. NextFor(database, lock'[scope].id)
      BY <2>3 DEF LockTaken, TakesNext
    <3> QED
      BY <1>1, <2>3, <3>1 DEF LockTaken, Owned, LockScope, Named, NextFor, DayOf, LastSerial,
         LastVersion
  <2> QED
    BY <2>1, <2>2, <2>3
<1>2. ASSUME NEW p \in Workers, Merge(p), ~UNCHANGED database PROVE Owned(scope)'
  <2> DEFINE l == lock[scope]
             i == w[p].id
             e == EntryOf(w[p].sub, i)
  <2>1. /\ Change(p, "open") \in changes /\ Mergeable(w[p].sub, i)
        /\ database' = database \cup {e} /\ lock' = lock
    BY <1>2 DEF Merge
  <2>2. /\ i \in Identities /\ Named(i)
        /\ lock[LockScope(i)].sub = w[p].sub /\ lock[LockScope(i)].id = i
    BY <2>1, MergerHolds
  <2>3. l # NoHolder /\ l \in Holders
    BY <2>1 DEF IInv, Inv, TypeOK
  <2>4. /\ LockScope(l.id) = scope /\ Named(l.id) /\ l.id \in Identities
        /\ NextFor(database, l.id) \/ EntryOf(l.sub, l.id) \in database
    BY <2>3 DEF Owned, Holders
  <2>5. NextFor(database', l.id) \/ EntryOf(l.sub, l.id) \in database'
    <3>1. CASE LockScope(i) = scope
      BY <2>1, <2>2, <3>1
    <3>2. CASE LockScope(i) # scope
      BY <2>1, <2>2, <2>4, <3>2, OtherScopesNext
    <3> QED
      BY <3>1, <3>2
  <2> HIDE DEF l, i, e
  <2>6. lock'[scope] = l
    BY <2>1 DEF l
  <2> QED
    BY <2>4, <2>5, <2>6 DEF Owned, LockScope, Named, NextFor, EntryOf, DayOf, LastSerial,
       LastVersion
<1> QED
  BY <1>1, <1>2, OnlyMergeEnters

\* A step that adds no identity to the rows keeps them distinct.
LEMMA DistinctRows ==
    ASSUME Distinct,
           \A s \in Submissions : \A next \in state'[s].uses :
             \E row \in state[s].uses : row.id = next.id
    PROVE  Distinct'
<1> SUFFICES ASSUME NEW s \in Submissions, NEW t \in Submissions, NEW x \in state'[s].uses,
                    NEW y \in state'[t].uses, SameKey(x.id, y.id)
             PROVE  s = t
  BY DEF Distinct, SameKey
<1>1. PICK u \in state[s].uses : u.id = x.id
  OBVIOUS
<1>2. PICK v \in state[t].uses : v.id = y.id
  OBVIOUS
<1> QED
  BY <1>1, <1>2 DEF Distinct, SameKey

\* An identity that is about to be put on record as public has no other's name: its
\* submission owns the lock of the name, which an unregistered row of another would own
\* too, and what is registered is in the Database.
LEMMA StartIsDistinct ==
    ASSUME IInv, UInv, VInv, NEW p \in Workers, StartWrite(p), w[p].fresh,
           NEW t \in Submissions, NEW row \in state[t].uses, SameKey(row.id, w[p].id)
    PROVE  t = w[p].sub
<1> DEFINE s == w[p].sub
           id == w[p].id
           scope == LockScope(id)
<1>1. /\ w[p].pc = "startWrite" /\ id \in Identities /\ s \in Submissions
      /\ HeldBy(s, id, {"held", "releasing"})
  BY Running DEF StartWrite, Sound, Carries, IdentityPCs, FreshCopy
<1>2. scope \in Scopes /\ lock[scope].sub = s /\ lock[scope].id = id /\ lock[scope] # NoHolder
  BY <1>1, ScopeType, NobodyHolds DEF HeldBy
<1>3. Named(id) /\ (NextFor(database, id) \/ EntryOf(s, id) \in database)
  BY <1>2 DEF VInv, Owned
<1>4. Named(row.id) /\ row.id \in Identities
  <2>1. row.id \in Identities /\ state[t].attempt = row.id
    BY DEF IInv, Inv, TypeOK, Records, PublicReviewConsented
  <2> QED
    BY <2>1, NoneAssumption DEF UInv, Recorded
<1>5. CASE row.phase # "registered"
  <2>1. HeldBy(t, row.id, {"held", "releasing"})
    BY <1>5 DEF IInv, Inv, PublicHoldsLock
  <2>2. LockScope(row.id) = scope
    BY <1>3, <1>4, SameKeySameLock
  <2> QED
    BY <1>2, <2>1, <2>2 DEF HeldBy
<1>6. CASE row.phase = "registered"
  <2> DEFINE e == EntryOf(t, row.id)
             f == EntryOf(s, id)
  <2>1. e \in database
    BY <1>6 DEF UInv, Recorded
  <2>2. e.sub = t /\ f.sub = s /\ e.name = id.name /\ e.version = id.version
        /\ f.name = id.name /\ f.version = id.version
    BY DEF EntryOf, SameKey
  <2>3. Numbered(database) /\ IsFiniteSet(database)
    BY DEF UInv, IInv, Finite
  <2> HIDE DEF e, f
  <2>4. ~NextFor(database, id)
    BY <1>1, <1>3, <2>1, <2>2, <2>3, NextIsNew
  <2>5. f \in database
    BY <1>3, <2>4 DEF f
  <2>6. e = f
    BY <2>1, <2>2, <2>3, <2>5 DEF Numbered
  <2> QED
    BY <2>2, <2>6
<1> QED
  BY <1>5, <1>6

\* No step gives a public row another's name.
LEMMA DistinctKept == IInv /\ UInv /\ VInv /\ [Next]_vars => Distinct'
<1> SUFFICES ASSUME IInv, UInv, VInv, [Next]_vars PROVE Distinct'
  OBVIOUS
<1>1. CASE SameRows
  BY <1>1, DistinctRows DEF SameRows, VInv
<1>2. ASSUME NEW p \in Workers, StartWrite(p), w[p].fresh PROVE Distinct'
  <2> DEFINE s == w[p].sub
             row == [id |-> w[p].id, phase |-> "publication-started"]
  <2>1. s \in Submissions /\ state \in [Submissions -> Records]
    BY <1>2, Running DEF StartWrite, IInv, Inv, TypeOK
  <2>2. state' = [state EXCEPT ![s] = [state[s] EXCEPT !.uses = @ \cup {row}]]
    BY <1>2 DEF StartWrite, WritesRecord
  <2>3. row.id = w[p].id
    OBVIOUS
  <2> HIDE DEF row
  <2>4. /\ state'[s].uses = state[s].uses \cup {row}
        /\ \A t \in Submissions \ {s} : state'[t].uses = state[t].uses
    BY <2>1, <2>2 DEF Records
  <2>5. \A t \in Submissions : \A y \in state[t].uses : SameKey(y.id, w[p].id) => t = s
    BY <1>2, StartIsDistinct
  <2>6. \A t \in Submissions : \A y \in state[t].uses : SameKey(w[p].id, y.id) => t = s
    BY <2>5 DEF SameKey
  <2>7. ASSUME NEW t \in Submissions, NEW u \in Submissions, NEW x \in state'[t].uses,
               NEW y \in state'[u].uses, SameKey(x.id, y.id)
        PROVE  t = u
    <3>1. x \in state[t].uses \/ (t = s /\ x.id = w[p].id)
      BY <2>3, <2>4
    <3>2. y \in state[u].uses \/ (u = s /\ y.id = w[p].id)
      BY <2>3, <2>4
    <3> QED
      BY <2>5, <2>6, <2>7, <3>1, <3>2 DEF VInv, Distinct
  <2> QED
    BY <2>7 DEF Distinct, SameKey
<1>3. ASSUME NEW p \in Workers,
             (StartWrite(p) /\ ~w[p].fresh) \/ PublishedWrite(p) \/ FinalizeWrite(p)
      PROVE  Distinct'
  <2>1. \A s \in Submissions : {row.id : row \in state'[s].uses} = {row.id : row \in state[s].uses}
    BY <1>3, MovingSteps
  <2>2. ASSUME NEW s \in Submissions, NEW next \in state'[s].uses
        PROVE  \E row \in state[s].uses : row.id = next.id
    BY <2>1
  <2> QED
    BY <2>2, DistinctRows DEF VInv
<1>4. ASSUME NEW p \in Workers, ~StartWrite(p), ~PublishedWrite(p), ~FinalizeWrite(p),
             \/ Step(p) \/ Crash(p) \/ Raise(p) \/ LoseAnswer(p)
             \/ \E t \in Submissions : Begin(p, t)
      PROVE  SameRows
  BY <1>4, RegisterRows, OtherRows DEF Step
<1>5. CASE \/ \E t \in Submissions : GiveConsent(t) \/ Withdraw(t) \/ CoolOff(t)
           \/ Tick \/ UNCHANGED vars
  BY <1>1, <1>5, EnvironmentRows
<1> QED
  BY <1>1, <1>2, <1>3, <1>4, <1>5 DEF Next

\* No lock is held and no row public initially.
LEMMA InitVInv == Init => VInv
<1> SUFFICES ASSUME Init PROVE VInv
  OBVIOUS
<1>1. Distinct
  BY DEF Init, Distinct
<1>2. \A scope \in Scopes : Owned(scope)
  BY DEF Init, Owned
<1> QED
  BY <1>1, <1>2 DEF VInv

\* A file that is public has a row, so distinct rows are distinct identities.
LEMMA DistinctIsUnique == IInv /\ Distinct => UniquePublicIdentity
<1> SUFFICES ASSUME IInv, Distinct, NEW x \in archive, NEW y \in archive, SameKey(x.id, y.id)
             PROVE  x.sub = y.sub
  BY DEF UniquePublicIdentity
<1>1. PICK u \in state[x.sub].uses : u.id = x.id
  BY DEF IInv, Inv, PublicIsRecorded
<1>2. PICK v \in state[y.sub].uses : v.id = y.id
  BY DEF IInv, Inv, PublicIsRecorded
<1>3. x.sub \in Submissions /\ y.sub \in Submissions
  BY DEF IInv, Inv, TypeOK
<1> QED
  BY <1>1, <1>2, <1>3 DEF Distinct

\* If no command takes a free lock through a checkout that has fallen behind the
\* Database, no two submissions are ever shown under one name, whatever else the
\* commands, the crashes and the submitters do (cli.register, the Database's main).
THEOREM UniqueUnlessBehind == Spec /\ [][TakesNext]_vars => []UniquePublicIdentity
<1>1. IInv /\ UInv /\ VInv /\ [Next]_vars /\ [TakesNext]_vars => VInv'
  <2> SUFFICES ASSUME IInv, UInv, VInv, [Next]_vars, [TakesNext]_vars PROVE VInv'
    OBVIOUS
  <2>1. TakesNext
    BY DEF vars, TakesNext
  <2> QED
    BY <2>1, OwnedKept, DistinctKept DEF VInv
<1>2. IInv /\ VInv => UniquePublicIdentity
  BY DistinctIsUnique DEF VInv
<1> QED
  BY <1>1, <1>2, InitVInv, Invariance, NamesFollow, PTL DEF Spec

-----------------------------------------------------------------------------
(* One command at a time never falls behind *)

\* Where a registration decides by its checkout.
DecidingPCs == {"allocate", "acquire"} \cup ReleasePCs
Current(x) == x.job = "register" /\ x.pc \in DecidingPCs => x.seen = database

\* A command that ends up elsewhere, or does something else, decides nothing by one.
LEMMA ElsewhereIsCurrent ==
    ASSUME NEW p, w'[p].job # "register" \/ w'[p].pc \notin DecidingPCs
    PROVE  Current(w[p])'
<1> QED
  BY DEF Current, DecidingPCs

\* Whatever a command writes, it is left as its step says.
LEMMA Lands ==
    ASSUME IInv, NEW p \in Workers, NEW r,
           \/ Becomes(p, r)
           \/ \E s, record : WritesRecord(p, s, record, r)
           \/ \E scope, holder : WritesLock(p, scope, holder, r)
    PROVE  w'[p] = r
<1> QED
  BY DEF Becomes, WritesRecord, WritesLock, IInv, Inv, TypeOK

\* A command that raises, ends or goes on without deciding.
Elsewhere(r) == r.pc \notin DecidingPCs
\* Where a registration no longer decides.
LEMMA GoesElsewhere ==
    ASSUME IInv, NEW p \in Workers
    PROVE  /\ Elsewhere(Idle) /\ Elsewhere(Raised(p))
           /\ \A pc : pc \notin DecidingPCs => Elsewhere(Goto(p, pc)) /\ Elsewhere(Afresh(p, pc))
<1>1. w[p] \in WorkerStates
  BY DEF IInv, Inv, TypeOK
<1>2. Elsewhere(Idle)
  BY DEF Elsewhere, Idle, DecidingPCs, ReleasePCs
<1>3. ASSUME NEW pc, pc \notin DecidingPCs
      PROVE  Elsewhere(Goto(p, pc)) /\ Elsewhere(Afresh(p, pc))
  BY <1>1, <1>3 DEF Goto, Afresh, WorkerStates, Elsewhere
<1>4. "discard" \notin DecidingPCs /\ "fail" \notin DecidingPCs
  BY DEF DecidingPCs, ReleasePCs
<1>5. Elsewhere(Raised(p))
  BY <1>2, <1>3, <1>4 DEF Raised
<1> QED
  BY <1>2, <1>3, <1>5

\* A step there decides by no checkout.
LEMMA ElsewhereCurrent ==
    ASSUME IInv, NEW p \in Workers, NEW r, Elsewhere(r),
           \/ Becomes(p, r)
           \/ \E s, record : WritesRecord(p, s, record, r)
           \/ \E scope, holder : WritesLock(p, scope, holder, r)
    PROVE  Current(w[p])'
<1> QED
  BY Lands, ElsewhereIsCurrent DEF Elsewhere

\* The steps of a registration that do not decide by the checkout.
LEMMA RegisterCurrent ==
    ASSUME IInv, UInv, NEW p \in Workers, Register(p), Current(w[p])
    PROVE  Current(w[p])'
<1> DEFINE Off == {"validate", "recheckpoint", "reopen", "await", "clone", "hold", "save", "start",
                   "fail", "failDet", "publish", "published", "push", "open", "checkpoint"}
<1>1. /\ Elsewhere(Idle) /\ Elsewhere(Raised(p))
      /\ \A pc \in Off : Elsewhere(Goto(p, pc)) /\ Elsewhere(Afresh(p, pc))
  BY GoesElsewhere DEF DecidingPCs, ReleasePCs
<1>2. w[p] \in WorkerStates
  BY DEF IInv, Inv, TypeOK
<1> HIDE DEF Off
<1> USE ElsewhereCurrent
<1>3. CASE Recover(p)
  <2> DEFINE a == state[w[p].sub].attempt
             on(pc) == [Goto(p, pc) EXCEPT !.id = a, !.fresh = TRUE]
  <2>1. \/ Becomes(p, Raised(p)) \/ Becomes(p, Goto(p, "validate"))
        \/ \E pc \in {"await", "recheckpoint", "reopen"} : Becomes(p, on(pc))
    BY <1>3 DEF Recover
  <2> HIDE DEF a
  <2>2. ASSUME NEW pc \in {"await", "recheckpoint", "reopen"} PROVE Elsewhere(on(pc))
    BY <1>2 DEF Goto, WorkerStates, Elsewhere, DecidingPCs, ReleasePCs
  <2> HIDE DEF on
  <2> QED
    BY <1>1, <2>1, <2>2 DEF Off
<1>4. CASE Reopen(p) \/ Recheckpoint(p) \/ Validate(p) \/ RecordFailure(p)
  BY <1>1, <1>4 DEF Off, Reopen, Recheckpoint, Validate, RecordFailure
<1>5. CASE Discard(p) \/ Hold(p) \/ StartWrite(p) \/ Publish(p) \/ PublishedWrite(p)
  BY <1>1, <1>5 DEF Off, Discard, Hold, StartWrite, Publish, PublishedWrite
<1>6. CASE Push(p) \/ OpenPR(p) \/ Checkpoint(p)
  BY <1>1, <1>6 DEF Off, Push, OpenPR, Checkpoint
<1>7. CASE SaveAttempt(p)
  <2> DEFINE r == [Goto(p, "hold") EXCEPT !.saved = TRUE]
  <2>1. \/ Becomes(p, Raised(p)) \/ \E s, record : WritesRecord(p, s, record, r)
    BY <1>7 DEF SaveAttempt
  <2>2. Elsewhere(r)
    BY <1>2 DEF Goto, WorkerStates, Elsewhere, DecidingPCs, ReleasePCs
  <2> HIDE DEF r
  <2> QED
    BY <1>1, <2>1, <2>2
<1>8. CASE Start(p)
  <2> DEFINE r == [Goto(p, "startWrite") EXCEPT !.fresh = TRUE]
  <2>1. \/ Becomes(p, Raised(p)) \/ Becomes(p, Goto(p, "failDet"))
        \/ Becomes(p, Goto(p, "publish")) \/ Becomes(p, r)
    BY <1>8 DEF Start
  <2>2. Elsewhere(r)
    BY <1>2 DEF Goto, WorkerStates, Elsewhere, DecidingPCs, ReleasePCs
  <2> HIDE DEF r
  <2> QED
    BY <1>1, <2>1, <2>2 DEF Off
<1>9. CASE Published(p)
  <2> DEFINE r == [Goto(p, "publishedWrite") EXCEPT !.fresh = TRUE]
  <2>1. Becomes(p, Raised(p)) \/ Becomes(p, Goto(p, "push")) \/ Becomes(p, r)
    BY <1>9 DEF Published
  <2>2. Elsewhere(r)
    BY <1>2 DEF Goto, WorkerStates, Elsewhere, DecidingPCs, ReleasePCs
  <2> HIDE DEF r
  <2> QED
    BY <1>1, <2>1, <2>2 DEF Off
<1>10. CASE Acquire(p)
  <2> DEFINE s == w[p].sub
             id == IF w[p].saved THEN w[p].id ELSE NewIdentity(s, w[p].review, w[p].seen)
             pc == IF w[p].saved THEN "hold" ELSE "save"
             held == lock[LockScope(id)].status = "held"
             on == [Goto(p, pc) EXCEPT !.id = id, !.seen = {}, !.lockFresh = TRUE, !.held = held]
  <2>1. \/ Becomes(p, Raised(p)) \/ Becomes(p, Idle) \/ Becomes(p, on)
        \/ \E scope, holder : WritesLock(p, scope, holder, on)
    BY <1>10 DEF Acquire
  <2>2. pc \in {"hold", "save"}
    OBVIOUS
  <2> HIDE DEF id, pc, held
  <2>3. Elsewhere(on)
    BY <1>2, <2>2 DEF Goto, WorkerStates, Elsewhere, DecidingPCs, ReleasePCs
  <2> HIDE DEF on
  <2> QED
    BY <1>1, <2>1, <2>3
<1>11. CASE Clone(p)
  <2> DEFINE r == [Goto(p, "allocate") EXCEPT !.seen = database]
  <2>1. w'[p] = r /\ database' = database
    BY <1>11, Lands DEF Clone
  <2>2. r.seen = database
    BY <1>2 DEF Goto, WorkerStates
  <2> HIDE DEF r
  <2> QED
    BY <2>1, <2>2 DEF Current
<1>12. CASE Allocate(p)
  <2> DEFINE a == state[w[p].sub].attempt
             b == a # None
             r(pc) == Copy(p, pc, a, b)
  <2>1. \/ Becomes(p, Raised(p)) \/ Becomes(p, Goto(p, "failDet"))
        \/ \E pc : Becomes(p, r(pc))
    BY <1>12 DEF Allocate, Copy
  <2>2. w[p].pc = "allocate" /\ w[p].job = "register" /\ database' = database
    BY <1>12, JobIsRegister DEF Allocate, UInv, ReleasePCs
  <2>3. w[p].seen = database
    BY <2>2 DEF Current, DecidingPCs
  <2> HIDE DEF a, b
  <2>4. ASSUME NEW pc, Becomes(p, r(pc)) PROVE Current(w[p])'
    <3>1. w'[p] = r(pc)
      BY <2>4, Lands
    <3>2. r(pc).seen = w[p].seen
      BY <1>2 DEF Copy, Goto, WorkerStates
    <3> QED
      BY <2>2, <2>3, <3>1, <3>2 DEF Current
  <2> HIDE DEF r
  <2> QED
    BY <1>1, <2>1, <2>4 DEF Off
<1> QED
  BY <1>3, <1>4, <1>5, <1>6, <1>7, <1>8, <1>9, <1>10, <1>11, <1>12 DEF Register

\* A release keeps the checkout its registration was made with; a merge is not followed
\* by a decision.
LEMMA OthersCurrent ==
    ASSUME IInv, UInv, NEW p \in Workers, Release(p) \/ Advance(p), Current(w[p])
    PROVE  Current(w[p])'
<1>1. /\ Elsewhere(Idle) /\ Elsewhere(Raised(p))
      /\ \A pc \in {"finalize", "consent", "merge", "unlock"} :
           Elsewhere(Goto(p, pc)) /\ Elsewhere(Afresh(p, pc))
  BY GoesElsewhere DEF DecidingPCs, ReleasePCs
<1>2. w[p] \in WorkerStates
  BY DEF IInv, Inv, TypeOK
<1>3. ASSUME NEW r, w'[p] = r, r.job = w[p].job, r.seen = w[p].seen, w[p].pc \in ReleasePCs,
             database' = database
      PROVE  Current(w[p])'
  BY <1>3 DEF Current, DecidingPCs
<1>4. CASE RelLock(p)
  <2> DEFINE r == [Goto(p, "relState") EXCEPT !.lockFresh = TRUE]
  <2>1. \/ Becomes(p, Raised(p)) \/ \E scope, holder : WritesLock(p, scope, holder, r)
    BY <1>4 DEF RelLock
  <2>2. r.job = w[p].job /\ r.seen = w[p].seen
    BY <1>2 DEF Goto, WorkerStates
  <2> HIDE DEF r
  <2>3. w[p].pc \in ReleasePCs /\ database' = database
    BY <1>4 DEF RelLock, ReleasePCs
  <2> QED
    BY <1>1, <1>3, <2>1, <2>2, <2>3, Lands, ElsewhereCurrent
<1>5. CASE RelState(p)
  <2> DEFINE r == Goto(p, "relClear")
  <2>1. \/ Becomes(p, Raised(p)) \/ \E s, record : WritesRecord(p, s, record, r)
    BY <1>5 DEF RelState
  <2>2. r.job = w[p].job /\ r.seen = w[p].seen
    BY <1>2 DEF Goto, WorkerStates
  <2> HIDE DEF r
  <2>3. w[p].pc \in ReleasePCs /\ database' = database
    BY <1>5 DEF RelState, ReleasePCs
  <2> QED
    BY <1>1, <1>3, <2>1, <2>2, <2>3, Lands, ElsewhereCurrent
<1>6. CASE RelClear(p)
  <2> DEFINE r == AfterRelease(p)
  <2>1. \/ Becomes(p, Raised(p)) \/ \E scope, holder : WritesLock(p, scope, holder, r)
    BY <1>6 DEF RelClear
  <2>2. r.job = w[p].job /\ r.seen = w[p].seen
    BY <1>2 DEF AfterRelease, WorkerStates
  <2> HIDE DEF r
  <2>3. w[p].pc \in ReleasePCs /\ database' = database
    BY <1>6 DEF RelClear, ReleasePCs
  <2> QED
    BY <1>1, <1>3, <2>1, <2>2, <2>3, Lands, ElsewhereCurrent
<1>7. CASE Await(p) \/ ReadConsent(p) \/ Merge(p) \/ FinalizeWrite(p)
  BY <1>1, <1>7, ElsewhereCurrent DEF Await, ReadConsent, Merge, FinalizeWrite
<1>8. CASE Clear(p)
  BY <1>1, <1>8, ElsewhereCurrent DEF Clear
<1>9. CASE FinalizeCheck(p)
  <2> DEFINE a == state[w[p].sub].attempt
             r == [Goto(p, "finalizeWrite") EXCEPT !.id = a, !.fresh = TRUE]
  <2>1. Becomes(p, Raised(p)) \/ Becomes(p, r)
    BY <1>9 DEF FinalizeCheck
  <2> HIDE DEF a
  <2>2. Elsewhere(r)
    BY <1>2 DEF Goto, WorkerStates, Elsewhere, DecidingPCs, ReleasePCs
  <2> HIDE DEF r
  <2> QED
    BY <1>1, <2>1, <2>2, ElsewhereCurrent
<1>10. CASE Unlock(p)
  <2> DEFINE r == [Goto(p, "clear") EXCEPT !.lockFresh = TRUE]
  <2>1. \/ Becomes(p, Raised(p)) \/ Becomes(p, r)
        \/ \E scope, holder : WritesLock(p, scope, holder, r)
    BY <1>10 DEF Unlock
  <2>2. Elsewhere(r)
    BY <1>2 DEF Goto, WorkerStates, Elsewhere, DecidingPCs, ReleasePCs
  <2> HIDE DEF r
  <2> QED
    BY <1>1, <2>1, <2>2, ElsewhereCurrent
<1> QED
  BY <1>4, <1>5, <1>6, <1>7, <1>8, <1>9, <1>10 DEF Release, Advance

\* What ends is nowhere, and what a delivery, a retry or a fault leaves is not a
\* registration that decides.
LEMMA RestCurrent ==
    ASSUME IInv, UInv, NEW p \in Workers,
           \/ Deliver(p) \/ Requeue(p) \/ Crash(p) \/ Raise(p) \/ LoseAnswer(p)
           \/ \E s \in Submissions : Begin(p, s)
    PROVE  Current(w[p])'
<1>1. Elsewhere(Idle) /\ Elsewhere(Raised(p))
  BY GoesElsewhere
<1>2. w[p] \in WorkerStates /\ Idle \in WorkerStates /\ Claims(w[p])
  BY IdleType DEF IInv, Inv, TypeOK, UInv
<1>3. CASE Crash(p) \/ Raise(p) \/ LoseAnswer(p) \/ Requeue(p) \/ DeliverWrite(p)
  BY <1>1, <1>3, ElsewhereCurrent DEF Crash, Raise, LoseAnswer, Requeue, DeliverWrite
<1>4. CASE DeliverRead(p)
  <2> DEFINE a == state[w[p].sub].attempt
             b == a # None
             r(pc) == Copy(p, pc, a, b)
  <2>1. Becomes(p, Idle) \/ \E pc : Becomes(p, r(pc))
    BY <1>4 DEF DeliverRead, Copy
  <2>2. w[p].job = "deliver"
    BY <1>2, <1>4 DEF DeliverRead, Claims, Tasked
  <2> HIDE DEF a, b
  <2>3. ASSUME NEW pc, Becomes(p, r(pc)) PROVE Current(w[p])'
    <3>1. w'[p] = r(pc) /\ r(pc).job = "deliver"
      BY <1>2, <2>2, <2>3, Lands DEF Copy, Goto, WorkerStates
    <3> QED
      BY <3>1, ElsewhereIsCurrent
  <2> HIDE DEF r
  <2> QED
    BY <1>1, <2>1, <2>3, ElsewhereCurrent
<1>5. CASE WriteReview(p)
  <2> DEFINE n == delivered[w[p].sub] + 1
             r == [Goto(p, "deliverWrite") EXCEPT !.review = n]
  <2>1. Becomes(p, Idle) \/ Becomes(p, r)
    BY <1>5 DEF WriteReview
  <2> HIDE DEF n
  <2>2. Elsewhere(r)
    BY <1>2 DEF Goto, WorkerStates, Elsewhere, DecidingPCs, ReleasePCs
  <2> HIDE DEF r
  <2> QED
    BY <1>1, <2>1, <2>2, ElsewhereCurrent
<1>6. ASSUME NEW s \in Submissions, BeginRegister(p, s) PROVE Current(w[p])'
  <2> DEFINE n == delivered[s]
             r == [Idle EXCEPT !.pc = "recover", !.job = "register", !.sub = s, !.review = n]
  <2>1. Becomes(p, r)
    BY <1>6 DEF BeginRegister
  <2> HIDE DEF n
  <2>2. Elsewhere(r)
    BY <1>2 DEF WorkerStates, Elsewhere, DecidingPCs, ReleasePCs
  <2> HIDE DEF r
  <2> QED
    BY <2>1, <2>2, ElsewhereCurrent
<1>7. ASSUME NEW s \in Submissions, BeginAdvance(p, s) \/ BeginFinalize(p, s)
      PROVE  Current(w[p])'
  <2> DEFINE r(pc, id) == [Idle EXCEPT !.pc = pc, !.sub = s, !.id = id]
  <2>1. \E pc \in {"await", "finalize"} : \E id : Becomes(p, r(pc, id))
    BY <1>7 DEF BeginAdvance, BeginFinalize
  <2>2. \A pc \in {"await", "finalize"} : \A id : Elsewhere(r(pc, id))
    BY <1>2 DEF WorkerStates, Elsewhere, DecidingPCs, ReleasePCs
  <2> HIDE DEF r
  <2> QED
    BY <2>1, <2>2, ElsewhereCurrent
<1>8. ASSUME NEW s \in Submissions, BeginRetry(p, s) PROVE Current(w[p])'
  <2> DEFINE a == state[s].attempt
             pc == IF a # None /\ Unpublished(s, a) THEN "relLock" ELSE "requeue"
             b == a # None
             r == [Idle EXCEPT !.pc = pc, !.job = "retry", !.sub = s, !.id = a,
                               !.saved = b, !.fresh = TRUE]
  <2>1. Becomes(p, r)
    BY <1>8 DEF BeginRetry
  <2> HIDE DEF a, b, pc
  <2>2. r.job = "retry"
    BY <1>2 DEF WorkerStates
  <2> HIDE DEF r
  <2>3. w'[p] = r
    BY <2>1, Lands
  <2> QED
    BY <2>2, <2>3, ElsewhereIsCurrent
<1>9. ASSUME NEW s \in Submissions, BeginReview(p, s) \/ BeginRun(p, s)
      PROVE  Current(w[p])'
  <2> DEFINE r == [Idle EXCEPT !.pc = "deliver", !.job = "deliver", !.sub = s]
  <2>1. Becomes(p, r) \/ \E record : WritesRecord(p, s, record, r)
    BY <1>9 DEF BeginReview, BeginRun
  <2>2. Elsewhere(r)
    BY <1>2 DEF WorkerStates, Elsewhere, DecidingPCs, ReleasePCs
  <2> HIDE DEF r
  <2> QED
    BY <2>1, <2>2, ElsewhereCurrent
<1> QED
  BY <1>3, <1>4, <1>5, <1>6, <1>7, <1>8, <1>9 DEF Deliver, Begin

\* Nobody else enters the Database.
LEMMA EnvironmentCurrent ==
    ASSUME IInv, NEW p \in Workers, Current(w[p]),
           \/ \E s \in Submissions : GiveConsent(s) \/ Withdraw(s) \/ CoolOff(s)
           \/ Tick \/ UNCHANGED vars
    PROVE  Current(w[p])'
<1>1. ASSUME NEW s \in Submissions, NEW record, SubmitterWrites(s, record)
      PROVE  Current(w[p])'
  <2> DEFINE b == w[p].fresh /\ w[p].sub # s
  <2>1. w[p] \in WorkerStates /\ w'[p] = [w[p] EXCEPT !.fresh = b] /\ database' = database
    BY <1>1 DEF SubmitterWrites, Forgotten, IInv, Inv, TypeOK
  <2> HIDE DEF b
  <2>2. w'[p].pc = w[p].pc /\ w'[p].job = w[p].job /\ w'[p].seen = w[p].seen
    BY <2>1 DEF WorkerStates
  <2> QED
    BY <2>1, <2>2 DEF Current
<1>2. ASSUME NEW s \in Submissions, CoolOff(s) PROVE Current(w[p])'
  BY <1>2 DEF CoolOff, Current
<1>3. CASE Tick \/ UNCHANGED vars
  BY <1>3 DEF Tick, vars, Current
<1> QED
  BY <1>1, <1>2, <1>3 DEF GiveConsent, Withdraw

\* Whoever takes a free lock takes it for what its checkout assigns next.
LEMMA CurrentTakesNext ==
    IInv /\ UInv /\ (\A p \in Workers : Current(w[p])) /\ [Next]_vars => TakesNext
<1> SUFFICES ASSUME IInv, UInv, \A p \in Workers : Current(w[p]), [Next]_vars,
                    NEW scope \in Scopes, lock[scope] = NoHolder, lock'[scope] # NoHolder
             PROVE  NextFor(database, lock'[scope].id)
  BY DEF TakesNext
<1>1. LockTaken(scope)
  BY LocksMove DEF LockKept
<1>2. PICK p \in Workers : w[p].pc = "acquire" /\ NextFor(w[p].seen, lock'[scope].id)
  BY <1>1 DEF LockTaken
<1>3. w[p].job = "register"
  BY <1>2, JobIsRegister DEF UInv, ReleasePCs
<1>4. w[p].seen = database
  BY <1>2, <1>3 DEF Current, DecidingPCs
<1> QED
  BY <1>2, <1>4

\* With one command at a time, as the deployment's concurrency group runs them, the
\* public identity is unique: its checkout cannot fall behind, for nobody else merges.
THEOREM UniqueWithOneCommand ==
    ASSUME \A p, q \in Workers : p = q
    PROVE  Spec => []UniquePublicIdentity
<1> DEFINE AllCurrent == \A p \in Workers : Current(w[p])
<1>1. Init => AllCurrent
  BY DEF Init, Idle, Current, DecidingPCs, ReleasePCs
<1>2. IInv /\ UInv /\ AllCurrent /\ [Next]_vars => AllCurrent'
  <2> SUFFICES ASSUME IInv, UInv, AllCurrent, [Next]_vars, NEW p \in Workers
               PROVE  Current(w[p])'
    OBVIOUS
  <2>1. CASE \E q \in Workers : \/ Step(q) \/ Crash(q) \/ Raise(q) \/ LoseAnswer(q)
                                \/ \E s \in Submissions : Begin(q, s)
    <3>1. \/ Step(p) \/ Crash(p) \/ Raise(p) \/ LoseAnswer(p)
          \/ \E s \in Submissions : Begin(p, s)
      BY <2>1
    <3> QED
      BY <3>1, RegisterCurrent, OthersCurrent, RestCurrent DEF Step
  <2>2. CASE \/ \E s \in Submissions : GiveConsent(s) \/ Withdraw(s) \/ CoolOff(s)
             \/ Tick \/ UNCHANGED vars
    BY <2>2, EnvironmentCurrent
  <2> QED
    BY <2>1, <2>2 DEF Next
<1>3. IInv /\ UInv /\ AllCurrent /\ [Next]_vars => [TakesNext]_vars
  BY CurrentTakesNext
<1> HIDE DEF AllCurrent
<1>4. Spec => [][TakesNext]_vars
  BY <1>1, <1>2, <1>3, Invariance, NamesFollow, PTL DEF Spec
<1> QED
  BY <1>4, UniqueUnlessBehind, PTL
=============================================================================
