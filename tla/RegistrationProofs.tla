------------------------- MODULE RegistrationProofs -------------------------
(***************************************************************************)
(* Theorems about Registration, for any submissions, workers, results,     *)
(* clock and number of faults.                                             *)
(*                                                                         *)
(* Every step of the protocol changes one file and one worker.  So the     *)
(* proof that the inductive invariant is kept rests on three lemmas, for a *)
(* step that writes nothing shared, the record or the lock; each asks of   *)
(* the step only what the write itself has to respect.  The proof for an   *)
(* action checks those demands.                                            *)
(***************************************************************************)
EXTENDS Registration, FiniteSetTheorems, TLAPS

\* A Database checkout is finite, so its serials and versions are numbers.
Finite ==
    /\ IsFiniteSet(database)
    /\ \A p \in Workers : IsFiniteSet(w[p].seen)

IInv == Inv /\ Finite

-----------------------------------------------------------------------------
(* Identities *)

\* Every identity has a scope whose lock exists.
LEMMA ScopeType == \A id \in Identities : LockScope(id) \in Scopes
BY DEF LockScope, Identities, Scopes, Days

\* The identity a worker derives from its checkout and the clock is one.
LEMMA NewIdentityType ==
    ASSUME NEW s \in Submissions, NEW review \in Reviews, NEW db, db \subseteq Entries,
           IsFiniteSet(db), clock \in 0 .. MaxClock
    PROVE  /\ NewIdentity(s, review, db) \in Identities
           /\ NewIdentity(s, review, db).review = review
<1> DEFINE day == DayOf(clock)
           serials == {e \in db : e.version = 1 /\ e.name[1] = day}
           versions == {e \in db : e.name = Existing[s]}
<1>1. Cardinality(serials) \in Nat
  BY FS_Subset, FS_CardinalityType
<1>2. Cardinality(versions) \in Nat
  BY FS_Subset, FS_CardinalityType
<1>3. /\ LastSerial(db, day) + 1 \in Nat \ {0}
      /\ LastVersion(db, Existing[s]) + 1 \in Nat \ {0}
  BY <1>1, <1>2 DEF LastSerial, LastVersion
<1>4. day \in Days
  BY DEF Days
<1>5. Existing[s] \in Results \cup {None}
  BY ConstantsAssumption DEF ConstantsAssumption
<1>6. clock \in 0 .. MaxClock
  OBVIOUS
<1> QED
  BY <1>3, <1>4, <1>5, <1>6 DEF NewIdentity, Identities, Names, day

\* The lock a scope has before anyone took it is nobody's.
LEMMA NobodyHolds ==
    ASSUME NEW s \in Submissions, NEW id, NEW statuses,
           lock[LockScope(id)] = NoHolder
    PROVE  ~HeldBy(s, id, statuses)
BY ConstantsAssumption DEF HeldBy, NoHolder, ConstantsAssumption

-----------------------------------------------------------------------------
(* The three kinds of step *)

\* What the steps below are free to change, with its type.
Others ==
    /\ delivered \in [Submissions -> Reviews]
    /\ changes \subseteq Changes
    /\ database \subseteq Entries
    /\ IsFiniteSet(database)
    /\ archive \subseteq [sub: Submissions, id: Identities]
    /\ clock \in 0 .. MaxClock
    /\ faults \in 0 .. MaxFaults

\* A worker that has stepped is where it should be.
Arrived(p) ==
    /\ w[p] \in WorkerStates
    /\ IsFiniteSet(w[p].seen)
    /\ Sound(w[p])
    /\ \A q \in Workers : ~Clash(w[p], w[q]) /\ ~Clash(w[q], w[p])

\* A step that writes neither a record nor a lock keeps the invariant when the
\* worker that took it has arrived.
LEMMA WorkerStep ==
    ASSUME IInv, NEW p \in Workers, NEW r, Becomes(p, r), UNCHANGED <<state, lock>>,
           Others', PublicIsRecorded', Arrived(p)'
    PROVE  IInv'
<1> USE DEF Becomes
<1>1. \A q \in Workers : q # p => w'[q] = w[q]
  BY DEF IInv, Inv, TypeOK
<1>2. w' \in [Workers -> WorkerStates] /\ \A q \in Workers : IsFiniteSet(w'[q].seen)
  BY <1>1 DEF IInv, Inv, TypeOK, Arrived, Finite
<1>3. TypeOK' /\ Finite'
  BY <1>2 DEF IInv, Inv, TypeOK, Others, Finite
<1>4. PublicReviewConsented' /\ PublicHoldsLock'
  BY DEF IInv, Inv, PublicReviewConsented, PublicHoldsLock, HeldBy
<1>5. ASSUME NEW q \in Workers PROVE Sound(w[q])'
  <2>1. CASE q = p
    BY <2>1 DEF Arrived
  <2>2. CASE q # p
    <3>1. w'[q] = w[q] /\ Sound(w[q])
      BY <1>1, <2>2 DEF IInv, Inv
    <3> QED
      BY <3>1 DEF Sound, FreshCopy, FreshLock, Carries, HeldBy
  <2> QED
    BY <2>1, <2>2
<1>6. ASSUME NEW q \in Workers, NEW u \in Workers PROVE ~Clash(w[q], w[u])'
  <2>1. CASE q = p \/ u = p
    BY <2>1 DEF Arrived
  <2>2. CASE q # p /\ u # p
    BY <1>1, <2>2 DEF IInv, Inv, Clash
  <2> QED
    BY <2>1, <2>2
<1> QED
  BY <1>3, <1>4, <1>5, <1>6 DEF IInv, Inv

\* What the new record of s has to respect: the rows it keeps, drops or adds.
Respects(s, record) ==
    /\ \A row \in record.uses :
         /\ record.attempt = row.id
         /\ record.review = row.id.review
         /\ record.consent = row.id.review
         /\ record.uses = {row}
         /\ row.phase # "registered" => HeldBy(s, row.id, {"held", "releasing"})
    /\ \A row \in state[s].uses : \E next \in record.uses :
         next.id = row.id /\ (row.phase = "registered" => next = row)
    /\ \A next \in record.uses :
         \/ \E row \in state[s].uses : row.id = next.id
         \/ \A q \in Workers : w[q].pc = "relClear" /\ w[q].lockFresh =>
              w[q].sub # s \/ w[q].id # next.id

\* A step that writes the record of s, whoever takes it, keeps the invariant
\* when the record respects the rows and whoever took it has arrived.
LEMMA RecordStep ==
    ASSUME IInv, NEW s \in Submissions, NEW record \in Records,
           NEW P, P \subseteq Workers,
           w' \in [Workers -> WorkerStates],
           state' = [state EXCEPT ![s] = record],
           \A q \in Workers \ P : w'[q] = [w[q] EXCEPT !.fresh = @ /\ w[q].sub # s],
           UNCHANGED <<lock, archive>>, Others', Respects(s, record),
           \A p \in P : Arrived(p)'
    PROVE  IInv'
<1>1. state' \in [Submissions -> Records] /\ state'[s] = record
  BY DEF IInv, Inv, TypeOK
<1>2. \A t \in Submissions : t # s => state'[t] = state[t]
  BY DEF IInv, Inv, TypeOK
<1>3. \A q \in Workers \ P :
        /\ w[q] \in WorkerStates
        /\ w'[q].pc = w[q].pc /\ w'[q].sub = w[q].sub /\ w'[q].id = w[q].id
        /\ w'[q].saved = w[q].saved /\ w'[q].held = w[q].held
        /\ w'[q].seen = w[q].seen /\ w'[q].review = w[q].review
        /\ w'[q].lockFresh = w[q].lockFresh
        /\ w'[q].fresh = (w[q].fresh /\ w[q].sub # s)
  BY DEF IInv, Inv, TypeOK, WorkerStates
<1>4. TypeOK' /\ Finite'
  BY <1>1, <1>3 DEF IInv, Inv, TypeOK, Others, Finite, Arrived
<1>5. PublicReviewConsented'
  BY <1>1, <1>2 DEF IInv, Inv, PublicReviewConsented, Respects
<1>6. PublicHoldsLock'
  BY <1>1, <1>2 DEF IInv, Inv, PublicHoldsLock, Respects, HeldBy
<1>7. PublicIsRecorded'
  <2> SUFFICES ASSUME NEW x \in archive
               PROVE  \E row \in state'[x.sub].uses : row.id = x.id
    BY DEF PublicIsRecorded
  <2>1. PICK row \in state[x.sub].uses : row.id = x.id
    BY DEF IInv, Inv, PublicIsRecorded
  <2>2. x.sub \in Submissions
    BY DEF IInv, Inv, TypeOK
  <2>3. CASE x.sub = s
    BY <1>1, <2>1, <2>3 DEF Respects
  <2>4. CASE x.sub # s
    BY <1>2, <2>1, <2>2, <2>4
  <2> QED
    BY <2>3, <2>4
<1>8. ASSUME NEW q \in Workers PROVE Sound(w[q])'
  <2>1. CASE q \in P
    BY <2>1 DEF Arrived
  <2>2. CASE q \notin P
    <3>1. Sound(w[q])
      BY DEF IInv, Inv
    <3>2. w'[q].fresh => FreshCopy(w[q])'
      <4> SUFFICES ASSUME w'[q].fresh PROVE FreshCopy(w[q])'
        OBVIOUS
      <4>1. w[q].fresh /\ w[q].sub # s /\ FreshCopy(w[q])
        BY <1>3, <2>2, <3>1 DEF Sound
      <4>2. w[q].pc \in {"acquire", "save", "relLock", "relState", "relClear", "review",
                       "deliverWrite", "startWrite", "publishedWrite", "finalizeWrite"}
              => state'[w[q].sub] = state[w[q].sub]
        BY <1>2, <3>1, <4>1 DEF Sound, Carries
      <4> QED
        BY <1>3, <2>2, <4>1, <4>2 DEF FreshCopy, HeldBy
    <3>3. w'[q].lockFresh => FreshLock(w[q])'
      <4> SUFFICES ASSUME w'[q].lockFresh PROVE FreshLock(w[q])'
        OBVIOUS
      <4>1. w[q].lockFresh /\ FreshLock(w[q])
        BY <1>3, <2>2, <3>1 DEF Sound
      <4>2. ASSUME w[q].pc = "relClear"
            PROVE  \A row \in state'[w[q].sub].uses : row.id # w[q].id
        <5>1. w[q].sub \in Submissions /\ \A row \in state[w[q].sub].uses : row.id # w[q].id
          BY <3>1, <4>1, <4>2 DEF Sound, Carries, FreshLock
        <5> QED
          BY <1>1, <1>2, <4>1, <4>2, <5>1 DEF Respects
      <4> QED
        BY <1>3, <2>2, <4>1, <4>2 DEF FreshLock, HeldBy
    <3>4. Carries(w[q])'
      <4>1. Carries(w[q])
        BY <3>1 DEF Sound
      <4>2. w[q].pc = "publish" => \E row \in state'[w[q].sub].uses : row.id = w[q].id
        BY <1>1, <1>2, <4>1 DEF Carries, Respects
      <4>3. w[q].pc \in {"unlock", "clear"} =>
              [id |-> w[q].id, phase |-> "registered"] \in state'[w[q].sub].uses
        BY <1>1, <1>2, <4>1 DEF Carries, Respects
      <4> QED
        BY <1>3, <2>2, <4>1, <4>2, <4>3 DEF Carries
    <3> QED
      BY <3>2, <3>3, <3>4 DEF Sound
  <2> QED
    BY <2>1, <2>2
<1>9. ASSUME NEW q \in Workers, NEW u \in Workers PROVE ~Clash(w[q], w[u])'
  <2>1. CASE q \in P \/ u \in P
    BY <2>1 DEF Arrived
  <2>2. CASE q \notin P /\ u \notin P
    <3>1. ~Clash(w[q], w[u])
      BY DEF IInv, Inv
    <3>2. q \in Workers \ P /\ u \in Workers \ P
      BY <2>2
    <3>3. /\ w'[q].pc = w[q].pc /\ w'[q].sub = w[q].sub /\ w'[q].id = w[q].id
          /\ w'[q].lockFresh = w[q].lockFresh
      BY <1>3, <3>2
    <3>4. /\ w'[u].pc = w[u].pc /\ w'[u].sub = w[u].sub /\ w'[u].id = w[u].id
          /\ w'[u].fresh => w[u].fresh
      BY <1>3, <3>2
    <3> QED
      BY <3>1, <3>3, <3>4 DEF Clash
  <2> QED
    BY <2>1, <2>2
<1> QED
  BY <1>4, <1>5, <1>6, <1>7, <1>8, <1>9 DEF IInv, Inv

\* Somebody relies on t owning the lock of id: a row that is public and not
\* registered, or a worker about to write one.
Claimed(t, id) ==
    \/ \E row \in state[t].uses : row.id = id /\ row.phase # "registered"
    \/ \E q \in Workers : /\ w[q].pc = "startWrite" /\ w[q].fresh
                          /\ w[q].sub = t /\ w[q].id = id

\* A step that writes a lock keeps the invariant when it leaves a claimed lock
\* with its owner and its worker has arrived.
LEMMA LockStep ==
    ASSUME IInv, NEW p \in Workers, NEW scope \in Scopes,
           NEW holder \in Holders \cup {NoHolder}, NEW r,
           WritesLock(p, scope, holder, r), UNCHANGED <<state, archive>>, Others',
           \A t \in Submissions, id \in Identities :
             /\ LockScope(id) = scope
             /\ HeldBy(t, id, {"held", "releasing"})
             /\ Claimed(t, id)
             => holder.sub = t /\ holder.id = id /\ holder.status \in {"held", "releasing"},
           Arrived(p)'
    PROVE  IInv'
<1>1. /\ lock' \in [Scopes -> Holders \cup {NoHolder}]
      /\ lock'[scope] = holder
      /\ \A c \in Scopes : c # scope => lock'[c] = lock[c]
  BY DEF IInv, Inv, TypeOK, WritesLock
<1>2. \A q \in Workers : q # p =>
        /\ w'[q] \in WorkerStates
        /\ w'[q].pc = w[q].pc /\ w'[q].sub = w[q].sub /\ w'[q].id = w[q].id
        /\ w'[q].saved = w[q].saved /\ w'[q].held = w[q].held
        /\ w'[q].seen = w[q].seen /\ w'[q].review = w[q].review
        /\ w'[q].fresh = w[q].fresh
        /\ w'[q].lockFresh =
             (w[q].lockFresh /\ ~(w[q].id # None /\ LockScope(w[q].id) = scope))
  <2> TAKE q \in Workers
  <2> HAVE q # p
  <2>1. w'[q] = [w[q] EXCEPT !.lockFresh =
                   @ /\ ~(w[q].id # None /\ LockScope(w[q].id) = scope)]
    BY DEF WritesLock
  <2>2. w[q] \in WorkerStates
    BY DEF IInv, Inv, TypeOK
  <2> DEFINE b == w[q].lockFresh /\ ~(w[q].id # None /\ LockScope(w[q].id) = scope)
  <2>3. b \in BOOLEAN
    OBVIOUS
  <2>4. w'[q] = [w[q] EXCEPT !.lockFresh = b]
    BY <2>1
  <2> HIDE DEF b
  <2>5. /\ w'[q] \in WorkerStates
        /\ w'[q].pc = w[q].pc /\ w'[q].sub = w[q].sub /\ w'[q].id = w[q].id
        /\ w'[q].saved = w[q].saved /\ w'[q].held = w[q].held
        /\ w'[q].seen = w[q].seen /\ w'[q].review = w[q].review
        /\ w'[q].fresh = w[q].fresh
        /\ w'[q].lockFresh = b
    BY <2>2, <2>3, <2>4 DEF WorkerStates
  <2> QED
    BY <2>5 DEF b
<1>3. w' \in [Workers -> WorkerStates]
  BY <1>2 DEF WritesLock, Arrived
<1>4. TypeOK' /\ Finite'
  BY <1>1, <1>2, <1>3 DEF IInv, Inv, TypeOK, Others, Finite, Arrived
<1>5. PublicReviewConsented' /\ PublicIsRecorded'
  BY DEF IInv, Inv, PublicReviewConsented, PublicIsRecorded
<1>6. ASSUME NEW t \in Submissions, NEW id \in Identities,
             HeldBy(t, id, {"held", "releasing"}), Claimed(t, id)
      PROVE  HeldBy(t, id, {"held", "releasing"})'
  <2>1. LockScope(id) \in Scopes
    BY ScopeType
  <2>2. CASE LockScope(id) = scope
    BY <1>1, <1>6, <2>2 DEF HeldBy
  <2>3. CASE LockScope(id) # scope
    BY <1>1, <1>6, <2>1, <2>3 DEF HeldBy
  <2> QED
    BY <2>2, <2>3
<1>7. PublicHoldsLock'
  <2> SUFFICES ASSUME NEW s \in Submissions, NEW row \in state[s].uses,
                      row.phase # "registered"
               PROVE  HeldBy(s, row.id, {"held", "releasing"})'
    BY DEF PublicHoldsLock
  <2>1. row.id \in Identities
    BY DEF IInv, Inv, TypeOK, Records
  <2>2. HeldBy(s, row.id, {"held", "releasing"}) /\ Claimed(s, row.id)
    BY DEF IInv, Inv, PublicHoldsLock, Claimed
  <2> QED
    BY <1>6, <2>1, <2>2
<1>8. ASSUME NEW q \in Workers PROVE Sound(w[q])'
  <2>1. CASE q = p
    BY <2>1 DEF Arrived
  <2>2. CASE q # p
    <3>1. Sound(w[q])
      BY DEF IInv, Inv
    <3>2. w'[q].fresh => FreshCopy(w[q])'
      <4> SUFFICES ASSUME w'[q].fresh PROVE FreshCopy(w[q])'
        OBVIOUS
      <4>1. w[q].fresh /\ FreshCopy(w[q])
        BY <1>2, <2>2, <3>1 DEF Sound
      <4>2. ASSUME w[q].pc = "startWrite"
            PROVE  HeldBy(w[q].sub, w[q].id, {"held", "releasing"})'
        <5>1. w[q].sub \in Submissions /\ w[q].id \in Identities
          BY <3>1, <4>2 DEF Sound, Carries, IdentityPCs
        <5>2. HeldBy(w[q].sub, w[q].id, {"held", "releasing"})
          BY <4>1, <4>2 DEF FreshCopy
        <5>3. Claimed(w[q].sub, w[q].id)
          BY <4>1, <4>2 DEF Claimed
        <5>4. \A t \in Submissions, id \in Identities :
                HeldBy(t, id, {"held", "releasing"}) /\ Claimed(t, id) =>
                  lock'[LockScope(id)].sub = t /\ lock'[LockScope(id)].id = id
                  /\ lock'[LockScope(id)].status \in {"held", "releasing"}
          BY <1>6 DEF HeldBy
        <5>5. /\ lock'[LockScope(w[q].id)].sub = w[q].sub
              /\ lock'[LockScope(w[q].id)].id = w[q].id
              /\ lock'[LockScope(w[q].id)].status \in {"held", "releasing"}
          BY <5>1, <5>2, <5>3, <5>4
        <5> QED
          BY <1>2, <2>2, <5>5 DEF HeldBy
      <4> QED
        BY <1>2, <2>2, <4>1, <4>2 DEF FreshCopy
    <3>3. w'[q].lockFresh => FreshLock(w[q])'
      <4> SUFFICES ASSUME w'[q].lockFresh PROVE FreshLock(w[q])'
        OBVIOUS
      <4>1. w[q].lockFresh /\ FreshLock(w[q])
        BY <1>2, <2>2, <3>1 DEF Sound
      <4>2. w[q].pc \in {"save", "discard", "hold", "relState", "relClear", "clear"} =>
              lock'[LockScope(w[q].id)] = lock[LockScope(w[q].id)]
        <5>1. w[q].pc \in {"save", "discard", "hold", "relState", "relClear", "clear"} =>
                w[q].id \in Identities
          BY <3>1 DEF Sound, Carries, IdentityPCs, AdvancePCs, ReleasePCs
        <5> QED
          BY <1>1, <1>2, <2>2, <4>1, <5>1, ScopeType, NoneAssumption
      <4> QED
        BY <1>2, <2>2, <4>1, <4>2 DEF FreshLock, HeldBy
    <3>4. Carries(w[q])'
      BY <1>2, <2>2, <3>1 DEF Sound, Carries
    <3> QED
      BY <3>2, <3>3, <3>4 DEF Sound
  <2> QED
    BY <2>1, <2>2
<1>9. ASSUME NEW q \in Workers, NEW u \in Workers PROVE ~Clash(w[q], w[u])'
  <2>1. CASE q = p \/ u = p
    BY <2>1 DEF Arrived
  <2>2. CASE q # p /\ u # p
    <3>1. ~Clash(w[q], w[u])
      BY DEF IInv, Inv
    <3>2. /\ w'[q].pc = w[q].pc /\ w'[q].sub = w[q].sub /\ w'[q].id = w[q].id
          /\ w'[q].lockFresh => w[q].lockFresh
      BY <1>2, <2>2
    <3>3. /\ w'[u].pc = w[u].pc /\ w'[u].sub = w[u].sub /\ w'[u].id = w[u].id
          /\ w'[u].fresh = w[u].fresh
      BY <1>2, <2>2
    <3> QED
      BY <3>1, <3>2, <3>3 DEF Clash
  <2> QED
    BY <2>1, <2>2
<1> QED
  BY <1>4, <1>5, <1>7, <1>8, <1>9 DEF IInv, Inv

-----------------------------------------------------------------------------
(* Where a worker may go *)

\* What the invariant says of a worker that is running, and of its submission.
LEMMA Running ==
    ASSUME IInv, NEW p \in Workers, w[p].pc # "idle"
    PROVE  /\ w[p] \in WorkerStates
           /\ IsFiniteSet(w[p].seen)
           /\ Sound(w[p])
           /\ w[p].sub \in Submissions
           /\ state[w[p].sub] \in Records
           /\ \A row \in state[w[p].sub].uses :
                row.id \in Identities /\ state[w[p].sub].attempt = row.id
<1>1. w[p] \in WorkerStates /\ IsFiniteSet(w[p].seen) /\ Sound(w[p])
  BY DEF IInv, Inv, TypeOK, Finite
<1>2. w[p].sub \in Submissions
  BY <1>1 DEF Sound, Carries
<1>3. state[w[p].sub] \in Records
  BY <1>2 DEF IInv, Inv, TypeOK
<1> QED
  BY <1>1, <1>2, <1>3 DEF IInv, Inv, PublicReviewConsented, Records

\* A worker state that asks nothing of the other workers.
Destination(r) ==
    /\ r \in WorkerStates
    /\ IsFiniteSet(r.seen)
    /\ Sound(r)
    /\ r.pc \notin {"relClear", "startWrite"}

\* A worker-only step to such a state keeps the invariant.
LEMMA Move ==
    ASSUME IInv, NEW p \in Workers, NEW r, Destination(r), Becomes(p, r),
           UNCHANGED <<state, lock>>, Others', PublicIsRecorded'
    PROVE  IInv'
<1>1. w'[p] = r
  BY DEF Becomes, IInv, Inv, TypeOK
<1>2. Sound(w[p])'
  BY <1>1 DEF Destination, Sound, FreshCopy, FreshLock, Carries, HeldBy
<1>3. Arrived(p)'
  BY <1>1, <1>2 DEF Destination, Arrived, Clash
<1> QED
  BY <1>3, WorkerStep

\* A step that only moves its worker to a safe place keeps the invariant.
LEMMA Quiet ==
    ASSUME IInv, NEW p \in Workers, NEW r, Destination(r), Becomes(p, r),
           UNCHANGED <<state, delivered, lock, changes, database, archive, clock, faults>>
    PROVE  IInv'
<1>1. Others' /\ PublicIsRecorded'
  BY DEF IInv, Inv, TypeOK, Finite, Others, PublicIsRecorded
<1> QED
  BY <1>1, Move

\* An idle worker relies on nothing.
LEMMA IdleIsSafe == Destination(Idle)
BY ConstantsAssumption, FS_EmptySet
   DEF Destination, Idle, WorkerStates, PCs, Jobs, Reviews, Sound, FreshCopy, FreshLock,
       Carries, IdentityPCs, AdvancePCs, ReleasePCs, ConstantsAssumption

\* Where a worker needs its submission, and where it also needs the identity it
\* carries, and nothing that another worker could change.
OpenPCs == {"recover", "validate", "clone", "allocate", "fail", "failDet", "requeue", "deliver"}
BoundPCs == {"reopen", "recheckpoint", "start", "published", "push", "open",
             "checkpoint", "await", "consent", "merge", "finalize"}
Plain(r) ==
    /\ r \in WorkerStates
    /\ IsFiniteSet(r.seen)
    /\ \/ r.pc = "idle"
       \/ /\ r.sub \in Submissions
          /\ \/ r.pc \in OpenPCs
             \/ /\ r.pc \in BoundPCs
                /\ r.id \in Identities
                /\ r.pc = "start" => r.id.review = r.review

\* Plain places are safe ones.
LEMMA PlainIsSafe == ASSUME NEW r, Plain(r) PROVE Destination(r)
BY DEF Plain, Destination, Sound, FreshCopy, FreshLock, Carries, IdentityPCs, AdvancePCs,
       ReleasePCs, OpenPCs, BoundPCs

\* Idle is plain.
LEMMA IdleIsPlain == Plain(Idle)
BY ConstantsAssumption, FS_EmptySet
   DEF Plain, Idle, WorkerStates, PCs, Jobs, Reviews, ConstantsAssumption

\* A step that raises leaves its worker in a safe place.
LEMMA RaisedIsSafe ==
    ASSUME IInv, NEW p \in Workers, w[p].pc # "idle"
    PROVE  /\ Destination(Raised(p))
           /\ w[p].pc # "save" => Plain(Raised(p))
<1>1. Plain(Afresh(p, "fail"))
  BY Running, FS_EmptySet DEF Plain, Afresh, WorkerStates, PCs, OpenPCs
<1>2. ASSUME w[p].pc = "save" PROVE Destination(Goto(p, "discard"))
  <2>1. /\ Goto(p, "discard") \in WorkerStates
        /\ IsFiniteSet(Goto(p, "discard").seen)
        /\ Goto(p, "discard").pc = "discard"
    BY Running DEF Goto, WorkerStates, PCs, RegisterPCs
  <2>2. Sound(Goto(p, "discard"))
    BY <1>2, Running
       DEF Goto, WorkerStates, Sound, FreshCopy, FreshLock, Carries, IdentityPCs, AdvancePCs,
           ReleasePCs
  <2> QED
    BY <2>1, <2>2 DEF Destination
<1>3. /\ w[p].pc # "save" => Plain(Raised(p))
      /\ Raised(p) \in {Goto(p, "discard"), Afresh(p, "fail"), Idle}
      /\ Raised(p) = Goto(p, "discard") => w[p].pc = "save" \/ Plain(Raised(p))
  BY <1>1, IdleIsPlain DEF Raised
<1>4. Plain(Raised(p)) \/ (w[p].pc = "save" /\ Raised(p) = Goto(p, "discard"))
  BY <1>1, <1>3, IdleIsPlain
<1> QED
  BY <1>2, <1>3, <1>4, PlainIsSafe

\* What the steps that write no record and no lock leave unchanged with them.
LEMMA SameOthers ==
    ASSUME IInv, UNCHANGED <<delivered, changes, database, archive, clock, faults>>
    PROVE  Others'
BY DEF IInv, Inv, TypeOK, Finite, Others

\* A record step leaves every worker with a state of the right type.
LEMMA Written ==
    ASSUME IInv, NEW p \in Workers, NEW s, NEW record, NEW r, r \in WorkerStates,
           WritesRecord(p, s, record, r)
    PROVE  w' \in [Workers -> WorkerStates]
<1>1. ASSUME NEW q \in Workers
      PROVE  [w[q] EXCEPT !.fresh = @ /\ w[q].sub # s] \in WorkerStates
  <2> DEFINE b == w[q].fresh /\ w[q].sub # s
  <2>1. w[q] \in WorkerStates /\ b \in BOOLEAN
    BY DEF IInv, Inv, TypeOK
  <2> HIDE DEF b
  <2>2. [w[q] EXCEPT !.fresh = b] \in WorkerStates
    BY <2>1 DEF WorkerStates
  <2> QED
    BY <2>2 DEF b
<1> QED
  BY <1>1 DEF WritesRecord

\* The worker of a record or a lock step that goes to a plain place has arrived.
LEMMA PlainArrives ==
    ASSUME NEW p \in Workers, NEW r, Plain(r), w'[p] = r
    PROVE  Arrived(p)'
<1>1. /\ w'[p] \in WorkerStates
      /\ IsFiniteSet(w'[p].seen)
      /\ w'[p].pc \notin {"relClear", "startWrite"}
  BY DEF Plain, OpenPCs, BoundPCs
<1>2. Sound(w[p])'
  BY DEF Plain, Sound, FreshCopy, FreshLock, Carries, IdentityPCs, AdvancePCs,
         ReleasePCs, OpenPCs, BoundPCs
<1> QED
  BY <1>1, <1>2 DEF Arrived, Clash

\* A record step that takes its worker to a plain place.
LEMMA PlainRecordStep ==
    ASSUME IInv, NEW p \in Workers, NEW s \in Submissions, NEW record \in Records, NEW r,
           Plain(r), WritesRecord(p, s, record, r), Respects(s, record),
           UNCHANGED <<delivered, lock, changes, database, archive, clock, faults>>
    PROVE  IInv'
<1>1. w'[p] = r /\ Arrived(p)'
  BY PlainArrives DEF WritesRecord
<1>2. w' \in [Workers -> WorkerStates]
  BY <1>1, Written DEF Plain
<1>3. \A q \in Workers \ {p} : w'[q] = [w[q] EXCEPT !.fresh = @ /\ w[q].sub # s]
  BY DEF WritesRecord
<1> DEFINE P == {p}
<1>4. /\ P \subseteq Workers
      /\ \A q \in Workers \ P : w'[q] = [w[q] EXCEPT !.fresh = @ /\ w[q].sub # s]
      /\ \A q \in P : Arrived(q)'
  BY <1>1, <1>3
<1>5. Others' /\ state' = [state EXCEPT ![s] = record]
  BY SameOthers DEF WritesRecord
<1> HIDE DEF P
<1> QED
  BY <1>2, <1>4, <1>5, RecordStep

\* A lock step that takes its worker to a plain place.
LEMMA PlainLockStep ==
    ASSUME IInv, NEW p \in Workers, NEW scope \in Scopes,
           NEW holder \in Holders \cup {NoHolder}, NEW r,
           Plain(r), WritesLock(p, scope, holder, r),
           UNCHANGED <<state, delivered, changes, database, archive, clock, faults>>,
           \A t \in Submissions, id \in Identities :
             /\ LockScope(id) = scope
             /\ HeldBy(t, id, {"held", "releasing"})
             /\ Claimed(t, id)
             => holder.sub = t /\ holder.id = id /\ holder.status \in {"held", "releasing"}
    PROVE  IInv'
<1>1. Arrived(p)'
  BY PlainArrives DEF WritesLock
<1> QED
  BY <1>1, LockStep, SameOthers

-----------------------------------------------------------------------------
(* Steps that write nothing shared *)

\* What starts a command is written over an idle worker.
LEMMA IdleType ==
    /\ Idle \in WorkerStates
    /\ IsFiniteSet(Idle.seen)
    /\ {"register", "retry", "deliver"} \subseteq Jobs
BY ConstantsAssumption, FS_EmptySet
   DEF Idle, WorkerStates, PCs, Jobs, Reviews, ConstantsAssumption

\* A worker that goes on to a plain place with what it has.
LEMMA Continues ==
    ASSUME IInv, NEW p \in Workers, w[p].pc # "idle", NEW pc,
           \/ pc \in OpenPCs
           \/ pc \in BoundPCs \ {"start"} /\ w[p].id \in Identities
    PROVE  Plain(Goto(p, pc)) /\ Plain(Afresh(p, pc))
<1>1. pc \in PCs
  BY DEF PCs, OpenPCs, BoundPCs, RegisterPCs, AdvancePCs
<1>2. /\ Goto(p, pc) \in WorkerStates
      /\ Afresh(p, pc) \in WorkerStates
      /\ IsFiniteSet(Goto(p, pc).seen) /\ IsFiniteSet(Afresh(p, pc).seen)
      /\ Goto(p, pc).sub \in Submissions /\ Afresh(p, pc).sub \in Submissions
      /\ Goto(p, pc).pc = pc /\ Afresh(p, pc).pc = pc
      /\ Goto(p, pc).id = w[p].id /\ Afresh(p, pc).id = w[p].id
  BY <1>1, Running, FS_EmptySet DEF Goto, Afresh, WorkerStates
<1> QED
  BY <1>2 DEF Plain

\* BeginRegister keeps the invariant.
LEMMA BeginRegisterKeeps ==
    ASSUME IInv, NEW p \in Workers, NEW s \in Submissions, BeginRegister(p, s) PROVE IInv'
<1> DEFINE r == [Idle EXCEPT !.pc = "recover", !.job = "register", !.sub = s,
                             !.review = delivered[s]]
<1>1. delivered[s] \in Reviews
  BY DEF IInv, Inv, TypeOK
<1>2. Plain(r)
  BY <1>1, IdleType DEF Plain, OpenPCs, WorkerStates, PCs, RegisterPCs
<1>3. Becomes(p, r)
  BY DEF BeginRegister
<1> HIDE DEF r
<1> QED
  BY <1>2, <1>3, PlainIsSafe, Quiet DEF BeginRegister

\* BeginAdvance keeps the invariant.
LEMMA BeginAdvanceKeeps ==
    ASSUME IInv, NEW p \in Workers, NEW s \in Submissions, BeginAdvance(p, s) PROVE IInv'
<1> DEFINE r == [Idle EXCEPT !.pc = "await", !.sub = s, !.id = state[s].attempt]
<1>1. state[s].attempt \in Identities
  BY DEF IInv, Inv, TypeOK, Records, BeginAdvance
<1>2. Plain(r)
  BY <1>1, IdleType DEF Plain, BoundPCs, WorkerStates, PCs, AdvancePCs
<1>3. Becomes(p, r)
  BY DEF BeginAdvance
<1> HIDE DEF r
<1> QED
  BY <1>2, <1>3, PlainIsSafe, Quiet DEF BeginAdvance

\* BeginFinalize keeps the invariant.
LEMMA BeginFinalizeKeeps ==
    ASSUME IInv, NEW p \in Workers, NEW s \in Submissions, BeginFinalize(p, s) PROVE IInv'
<1>1. PICK c \in changes : Becomes(p, [Idle EXCEPT !.pc = "finalize", !.sub = s, !.id = c.id])
  BY DEF BeginFinalize
<1> DEFINE r == [Idle EXCEPT !.pc = "finalize", !.sub = s, !.id = c.id]
<1>2. c.id \in Identities
  BY DEF IInv, Inv, TypeOK, Changes
<1>3. Plain(r)
  BY <1>2, IdleType DEF Plain, BoundPCs, WorkerStates, PCs, AdvancePCs
<1> HIDE DEF r
<1>4. Becomes(p, r)
  BY <1>1 DEF r
<1> QED
  BY <1>3, <1>4, PlainIsSafe, Quiet DEF BeginFinalize

\* BeginRun keeps the invariant.
LEMMA BeginRunKeeps ==
    ASSUME IInv, NEW p \in Workers, NEW s \in Submissions, BeginRun(p, s) PROVE IInv'
<1> DEFINE r == [Idle EXCEPT !.pc = "deliver", !.job = "deliver", !.sub = s]
<1>1. Plain(r)
  BY IdleType DEF Plain, OpenPCs, WorkerStates, PCs
<1>2. Becomes(p, r)
  BY DEF BeginRun
<1> HIDE DEF r
<1> QED
  BY <1>1, <1>2, PlainIsSafe, Quiet DEF BeginRun

\* A retry starts with a copy of the record it has just read.
LEMMA BeginRetryKeeps ==
    ASSUME IInv, NEW p \in Workers, NEW s \in Submissions, BeginRetry(p, s) PROVE IInv'
<1> DEFINE a == state[s].attempt
           pc == IF a # None /\ Unpublished(s, a) THEN "relLock" ELSE "requeue"
           r == [Idle EXCEPT !.pc = pc, !.job = "retry", !.sub = s, !.id = a,
                             !.saved = a # None, !.fresh = TRUE]
<1>1. a \in Identities \cup {None}
  BY DEF IInv, Inv, TypeOK, Records
<1>2. pc \in {"relLock", "requeue"} /\ (a # None) \in BOOLEAN
  OBVIOUS
<1>3. pc = "relLock" => a \in Identities /\ state[s].uses = {}
  BY <1>1 DEF BeginRetry, Unpublished, PublicUses, SameKey
<1>4. Becomes(p, r)
  BY DEF BeginRetry
<1>5. /\ r \in WorkerStates
      /\ IsFiniteSet(r.seen)
      /\ r.sub = s /\ r.pc = pc /\ r.id = a /\ ~r.lockFresh
  <2> DEFINE b == a # None
  <2>1. r = [Idle EXCEPT !.pc = pc, !.job = "retry", !.sub = s, !.id = a,
                         !.saved = b, !.fresh = TRUE]
    OBVIOUS
  <2> HIDE DEF b, a, pc, r
  <2>2. Idle.lockFresh = FALSE
    BY DEF Idle
  <2> QED
    BY <1>1, <1>2, <2>1, <2>2, IdleType DEF WorkerStates, PCs, ReleasePCs, b
<1> HIDE DEF r, pc, a
<1>6. Sound(r)
  BY <1>2, <1>3, <1>5
     DEF a, Sound, FreshCopy, FreshLock, Carries, IdentityPCs, AdvancePCs, ReleasePCs
<1>7. Destination(r)
  BY <1>2, <1>5, <1>6 DEF Destination
<1> QED
  BY <1>4, <1>7, Quiet DEF BeginRetry

\* The copy a worker makes when it has read its record.
Copy(p, pc, id, saved) == [Goto(p, pc) EXCEPT !.id = id, !.saved = saved, !.fresh = TRUE]

\* The copy a worker makes of its record has the type of a worker.
LEMMA CopyType ==
    ASSUME IInv, NEW p \in Workers, w[p].pc # "idle", NEW pc \in PCs,
           NEW id \in Identities \cup {None}, NEW saved \in BOOLEAN
    PROVE  /\ Copy(p, pc, id, saved) \in WorkerStates
           /\ IsFiniteSet(Copy(p, pc, id, saved).seen)
           /\ Copy(p, pc, id, saved).sub = w[p].sub
           /\ Copy(p, pc, id, saved).sub \in Submissions
           /\ Copy(p, pc, id, saved).pc = pc
           /\ Copy(p, pc, id, saved).id = id
           /\ Copy(p, pc, id, saved).saved = saved
           /\ Copy(p, pc, id, saved).review = w[p].review
           /\ Copy(p, pc, id, saved).lockFresh = w[p].lockFresh
BY Running DEF Copy, Goto, WorkerStates

\* Recover keeps the invariant.
LEMMA RecoverKeeps == ASSUME IInv, NEW p \in Workers, Recover(p) PROVE IInv'
<1> DEFINE a == state[w[p].sub].attempt
           on(pc) == [Goto(p, pc) EXCEPT !.id = a, !.fresh = TRUE]
<1>1. w[p].pc = "recover"
  BY DEF Recover
<1>2. Plain(Raised(p)) /\ Plain(Goto(p, "validate"))
  BY <1>1, RaisedIsSafe, Continues DEF OpenPCs
<1>3. a \in Identities \cup {None}
  BY <1>1, Running DEF Records
<1>4. ASSUME NEW pc \in {"await", "recheckpoint", "reopen"}, a # None PROVE Plain(on(pc))
  <2>0. pc \in PCs
    BY DEF PCs, AdvancePCs, RegisterPCs
  <2>1. /\ on(pc) \in WorkerStates /\ IsFiniteSet(on(pc).seen) /\ on(pc).sub \in Submissions
        /\ on(pc).pc = pc /\ on(pc).id = a
    <3> HIDE DEF a
    <3> QED
      BY <1>1, <1>3, <2>0, Running DEF Goto, WorkerStates
  <2> HIDE DEF on
  <2>2. a \in Identities /\ pc \in BoundPCs /\ pc # "start"
    BY <1>3, <1>4 DEF BoundPCs
  <2> QED
    BY <2>1, <2>2 DEF Plain
<1> DEFINE safe(r) == Plain(r) /\ Becomes(p, r)
<1>5. \E r : safe(r)
  <2>1. CASE Becomes(p, Raised(p)) \/ Becomes(p, Goto(p, "validate"))
    BY <1>2, <2>1
  <2>2. CASE /\ a # None
             /\ \E pc \in {"await", "recheckpoint", "reopen"} : Becomes(p, on(pc))
    <3>1. PICK pc \in {"await", "recheckpoint", "reopen"} : Becomes(p, on(pc))
      BY <2>2
    <3>2. Plain(on(pc))
      BY <1>4, <2>2
    <3> HIDE DEF on
    <3> QED
      BY <3>1, <3>2
  <2> QED
    <3> HIDE DEF safe
    <3> QED
      BY <2>1, <2>2 DEF Recover
<1> QED
  BY <1>5, PlainIsSafe, Quiet DEF Recover

\* Clone keeps the invariant.
LEMMA CloneKeeps == ASSUME IInv, NEW p \in Workers, Clone(p) PROVE IInv'
<1> DEFINE r == [Goto(p, "allocate") EXCEPT !.seen = database]
<1>1. w[p].pc = "clone" /\ Becomes(p, r)
  BY DEF Clone
<1>2. database \in SUBSET Entries /\ IsFiniteSet(database)
  BY DEF IInv, Inv, TypeOK, Finite
<1>3. Plain(r)
  BY <1>1, <1>2, Running DEF Goto, Plain, OpenPCs, WorkerStates, PCs, RegisterPCs
<1> HIDE DEF r
<1> QED
  BY <1>1, <1>3, PlainIsSafe, Quiet DEF Clone

\* Published keeps the invariant.
LEMMA PublishedKeeps == ASSUME IInv, NEW p \in Workers, Published(p) PROVE IInv'
<1> DEFINE s == w[p].sub
           started == [id |-> w[p].id, phase |-> "publication-started"]
           on == [Goto(p, "publishedWrite") EXCEPT !.fresh = TRUE]
<1>1. /\ w[p].pc = "published" /\ w[p].id \in Identities
      /\ w[p] \in WorkerStates /\ s \in Submissions
  BY Running DEF Published, Sound, Carries, IdentityPCs
<1>2. Plain(Goto(p, "push")) /\ Plain(Raised(p))
  BY <1>1, Continues, RaisedIsSafe DEF BoundPCs
<1>3. ASSUME started \in state[s].uses PROVE Destination(on)
  <2>1. state[s].uses = {started}
    BY <1>1, <1>3 DEF IInv, Inv, PublicReviewConsented
  <2>2. /\ on \in WorkerStates /\ IsFiniteSet(on.seen) /\ on.sub = s /\ on.id = w[p].id
        /\ on.pc = "publishedWrite" /\ on.lockFresh = w[p].lockFresh
    BY <1>1, Running DEF Goto, WorkerStates, PCs, RegisterPCs
  <2> HIDE DEF on
  <2>3. Sound(on)
    BY <1>1, <2>1, <2>2
       DEF Sound, FreshCopy, FreshLock, Carries, AdvancePCs, ReleasePCs
  <2> QED
    BY <2>2, <2>3 DEF Destination
<1>4. \/ Becomes(p, Goto(p, "push"))
      \/ Becomes(p, Raised(p))
      \/ Becomes(p, on) /\ started \in state[s].uses
  <2> DEFINE phases == {row.phase : row \in {u \in state[s].uses : u.id = w[p].id}}
  <2>1. phases = {"publication-started"} => started \in state[s].uses
    <3> SUFFICES ASSUME phases = {"publication-started"} PROVE started \in state[s].uses
      OBVIOUS
    <3>1. PICK row \in state[s].uses : row.id = w[p].id /\ row.phase = "publication-started"
      OBVIOUS
    <3>2. row \in [id: Identities, phase: Phases]
      BY <1>1, Running DEF Records
    <3> QED
      BY <3>1, <3>2
  <2> HIDE DEF phases
  <2> QED
    BY <2>1 DEF Published, phases
<1> HIDE DEF on
<1> QED
  BY <1>2, <1>3, <1>4, PlainIsSafe, Quiet DEF Published

\* Await keeps the invariant.
LEMMA AwaitKeeps == ASSUME IInv, NEW p \in Workers, Await(p) PROVE IInv'
<1>1. w[p].pc = "await" /\ w[p].id \in Identities
  BY Running DEF Await, Sound, Carries, IdentityPCs, AdvancePCs
<1>2. Plain(Goto(p, "finalize")) /\ Plain(Goto(p, "consent")) /\ Plain(Idle)
  BY <1>1, Continues, IdleIsPlain DEF BoundPCs
<1>3. \E r \in {Goto(p, "finalize"), Goto(p, "consent"), Idle} : Becomes(p, r)
  BY DEF Await
<1> QED
  BY <1>2, <1>3, PlainIsSafe, Quiet DEF Await

\* ReadConsent keeps the invariant.
LEMMA ReadConsentKeeps == ASSUME IInv, NEW p \in Workers, ReadConsent(p) PROVE IInv'
<1>1. w[p].pc = "consent" /\ w[p].id \in Identities
  BY Running DEF ReadConsent, Sound, Carries, IdentityPCs, AdvancePCs
<1>2. Plain(Goto(p, "merge")) /\ Plain(Idle)
  BY <1>1, Continues, IdleIsPlain DEF BoundPCs
<1>3. \E r \in {Goto(p, "merge"), Idle} : Becomes(p, r)
  BY DEF ReadConsent
<1> QED
  BY <1>2, <1>3, PlainIsSafe, Quiet DEF ReadConsent

\* Crash keeps the invariant.
LEMMA CrashKeeps == ASSUME IInv, NEW p \in Workers, Crash(p) PROVE IInv'
<1>1. Becomes(p, Idle) /\ Others' /\ PublicIsRecorded'
  BY ConstantsAssumption
     DEF Crash, IInv, Inv, TypeOK, Finite, Others, PublicIsRecorded, ConstantsAssumption
<1> QED
  BY <1>1, IdleIsPlain, PlainIsSafe, Move DEF Crash

\* Raise keeps the invariant.
LEMMA RaiseKeeps == ASSUME IInv, NEW p \in Workers, Raise(p) PROVE IInv'
<1>1. Becomes(p, Raised(p)) /\ Others' /\ PublicIsRecorded'
  BY ConstantsAssumption
     DEF Raise, IInv, Inv, TypeOK, Finite, Others, PublicIsRecorded, ConstantsAssumption
<1> QED
  BY <1>1, RaisedIsSafe, Move DEF Raise

\* An attempt with no public row is the attempt of a submission without rows.
LEMMA UnpublishedIsPrivate ==
    ASSUME IInv, NEW s \in Submissions, Unpublished(s, state[s].attempt)
    PROVE  state[s].uses = {}
BY DEF IInv, Inv, PublicReviewConsented, Unpublished, PublicUses, SameKey

\* What a worker may do with the copy it has just read.
LEMMA CopyIsSafe ==
    ASSUME IInv, NEW p \in Workers, w[p].pc # "idle", NEW pc, NEW id, NEW saved,
           id = state[w[p].sub].attempt, saved \in BOOLEAN, saved <=> id # None,
           \/ pc = "acquire" /\ (id # None => id.review = w[p].review)
           \/ pc = "relLock" /\ id # None /\ state[w[p].sub].uses = {}
           \/ pc = "review" /\ id = None
    PROVE  Destination(Copy(p, pc, id, saved))
<1> DEFINE r == Copy(p, pc, id, saved)
<1>1. pc \in PCs /\ id \in Identities \cup {None}
  BY Running DEF PCs, RegisterPCs, ReleasePCs, Records
<1>2. /\ r \in WorkerStates /\ IsFiniteSet(r.seen) /\ r.sub = w[p].sub /\ r.sub \in Submissions
      /\ r.pc = pc /\ r.id = id /\ r.saved = saved /\ r.review = w[p].review
  BY <1>1, CopyType
<1> HIDE DEF r
<1>3. Sound(r)
  BY <1>1, <1>2
     DEF Sound, FreshCopy, FreshLock, Carries, IdentityPCs, AdvancePCs, ReleasePCs
<1>4. Destination(r)
  BY <1>2, <1>3 DEF Destination
<1> QED
  BY <1>4 DEF r

\* Allocate keeps the invariant.
LEMMA AllocateKeeps == ASSUME IInv, NEW p \in Workers, Allocate(p) PROVE IInv'
<1> DEFINE s == w[p].sub
           a == state[s].attempt
           r(pc) == Copy(p, pc, a, a # None)
<1>1. w[p].pc = "allocate" /\ s \in Submissions
  BY Running DEF Allocate
<1>2. Destination(Raised(p)) /\ Destination(Goto(p, "failDet"))
  BY <1>1, RaisedIsSafe, Continues, PlainIsSafe DEF OpenPCs
<1>3. \/ Becomes(p, Raised(p))
      \/ Becomes(p, Goto(p, "failDet"))
      \/ Becomes(p, r("relLock")) /\ a # None /\ Unpublished(s, a)
      \/ Becomes(p, r("acquire")) /\ (a # None => a.review = w[p].review)
  BY DEF Allocate, Copy
<1>4. Becomes(p, r("relLock")) /\ a # None /\ Unpublished(s, a) => Destination(r("relLock"))
  <2> SUFFICES ASSUME a # None, Unpublished(s, a) PROVE Destination(r("relLock"))
    OBVIOUS
  <2>1. state[s].uses = {} /\ (a # None) \in BOOLEAN
    BY <1>1, UnpublishedIsPrivate
  <2> QED
    BY <1>1, <2>1, CopyIsSafe
<1>5. (a # None => a.review = w[p].review) => Destination(r("acquire"))
  <2>1. (a # None) \in BOOLEAN
    OBVIOUS
  <2> QED
    BY <1>1, <2>1, CopyIsSafe
<1> HIDE DEF r
<1> QED
  BY <1>2, <1>3, <1>4, <1>5, Quiet DEF Allocate

\* DeliverRead keeps the invariant.
LEMMA DeliverReadKeeps == ASSUME IInv, NEW p \in Workers, DeliverRead(p) PROVE IInv'
<1> DEFINE s == w[p].sub
           a == state[s].attempt
           r(pc) == Copy(p, pc, a, a # None)
<1>1. w[p].pc = "deliver" /\ s \in Submissions
  BY Running DEF DeliverRead
<1>2. \/ Becomes(p, Idle)
      \/ Becomes(p, r("review")) /\ a = None
      \/ Becomes(p, r("relLock")) /\ a # None /\ Unpublished(s, a)
  BY DEF DeliverRead, Copy
<1>3. a # None /\ Unpublished(s, a) => Destination(r("relLock"))
  <2> SUFFICES ASSUME a # None, Unpublished(s, a) PROVE Destination(r("relLock"))
    OBVIOUS
  <2>1. state[s].uses = {} /\ (a # None) \in BOOLEAN
    BY <1>1, UnpublishedIsPrivate
  <2> QED
    BY <1>1, <2>1, CopyIsSafe
<1>4. a = None => Destination(r("review"))
  <2>1. (a # None) \in BOOLEAN
    OBVIOUS
  <2> QED
    BY <1>1, <2>1, CopyIsSafe
<1> HIDE DEF r
<1> QED
  BY <1>2, <1>3, <1>4, IdleIsSafe, Quiet DEF DeliverRead

\* FinalizeCheck keeps the invariant.
LEMMA FinalizeCheckKeeps == ASSUME IInv, NEW p \in Workers, FinalizeCheck(p) PROVE IInv'
<1> DEFINE s == w[p].sub
           a == state[s].attempt
           r == [Goto(p, "finalizeWrite") EXCEPT !.id = a, !.fresh = TRUE]
<1>1. w[p].pc = "finalize" /\ w[p] \in WorkerStates /\ s \in Submissions
  BY Running DEF FinalizeCheck
<1>2. Destination(Raised(p))
  BY <1>1, RaisedIsSafe
<1>3. \/ Becomes(p, Raised(p))
      \/ Becomes(p, r) /\ \E row \in state[s].uses : row.id = a
  BY DEF FinalizeCheck
<1>4. ASSUME \E row \in state[s].uses : row.id = a PROVE Destination(r)
  <2>1. a \in Identities /\ "finalizeWrite" \in PCs
    BY <1>1, <1>4, Running DEF PCs, AdvancePCs
  <2>2. /\ r \in WorkerStates /\ IsFiniteSet(r.seen) /\ r.sub = s
        /\ r.pc = "finalizeWrite" /\ r.id = a
    <3> HIDE DEF a
    <3> QED
      BY <1>1, <2>1, Running DEF Goto, WorkerStates
  <2> HIDE DEF r
  <2>3. Sound(r)
    BY <1>1, <1>4, <2>1, <2>2 DEF Sound, FreshCopy, FreshLock, Carries, ReleasePCs
  <2> QED
    BY <2>2, <2>3 DEF Destination
<1> HIDE DEF r
<1> QED
  BY <1>2, <1>3, <1>4, Quiet DEF FinalizeCheck

\* Start keeps the invariant.
LEMMA StartKeeps == ASSUME IInv, NEW p \in Workers, Start(p) PROVE IInv'
<1> DEFINE s == w[p].sub
           id == w[p].id
           on == [Goto(p, "startWrite") EXCEPT !.fresh = TRUE]
           held == /\ state[s].consent = id.review
                   /\ state[s].review = id.review
                   /\ state[s].attempt = id
                   /\ HeldBy(s, id, {"held"})
<1>1. /\ w[p].pc = "start" /\ w[p] \in WorkerStates /\ s \in Submissions
      /\ id \in Identities /\ id.review = w[p].review /\ IsFiniteSet(w[p].seen)
  BY Running DEF Start, Sound, Carries, IdentityPCs
<1>2. Destination(Raised(p)) /\ Destination(Goto(p, "failDet"))
  BY <1>1, RaisedIsSafe, Continues, PlainIsSafe DEF OpenPCs
<1>3. \/ Becomes(p, Raised(p))
      \/ Becomes(p, Goto(p, "failDet"))
      \/ Becomes(p, Goto(p, "publish")) /\ \E row \in state[s].uses : row.id = id
      \/ Becomes(p, on) /\ held /\ state[s].uses = {}
  BY <1>1 DEF Start, Standing
<1>4. ASSUME \E row \in state[s].uses : row.id = id PROVE Destination(Goto(p, "publish"))
  <2> DEFINE r == Goto(p, "publish")
  <2>1. /\ r \in WorkerStates /\ IsFiniteSet(r.seen) /\ r.sub = s
        /\ r.pc = "publish" /\ r.id = id
    BY <1>1 DEF Goto, WorkerStates, PCs, RegisterPCs
  <2> HIDE DEF r
  <2>2. Destination(r)
    BY <1>1, <1>4, <2>1
       DEF Destination, Sound, FreshCopy, FreshLock, Carries, AdvancePCs, ReleasePCs
  <2> QED
    BY <2>2 DEF r
<1>5. ASSUME Becomes(p, on), held, state[s].uses = {}, UNCHANGED <<state, lock>>
      PROVE  Arrived(p)'
  <2>1. /\ on \in WorkerStates /\ IsFiniteSet(on.seen) /\ on.sub = s
        /\ on.pc = "startWrite" /\ on.id = id /\ on.review = w[p].review
    BY <1>1 DEF Goto, WorkerStates, PCs, RegisterPCs
  <2>2. w'[p] = on /\ \A q \in Workers : q # p => w'[q] = w[q]
    BY <1>5 DEF Becomes, IInv, Inv, TypeOK
  <2> HIDE DEF on
  <2>3. Sound(w[p])'
    BY <1>1, <1>5, <2>1, <2>2
       DEF Sound, FreshCopy, FreshLock, Carries, AdvancePCs, ReleasePCs, HeldBy
  <2>4. ASSUME NEW q \in Workers PROVE ~Clash(w[q], w[p])'
    <3> SUFFICES ASSUME q # p, w[q].pc = "relClear", w[q].lockFresh,
                        w[q].sub = s, w[q].id = id
                 PROVE  FALSE
      BY <2>1, <2>2 DEF Clash
    <3>1. HeldBy(s, id, {"releasing"})
      BY DEF IInv, Inv, Sound, FreshLock
    <3> QED
      BY <1>5, <3>1 DEF HeldBy
  <2>5. ASSUME NEW q \in Workers PROVE ~Clash(w[p], w[q])'
    BY <2>1, <2>2 DEF Clash
  <2> QED
    BY <2>1, <2>2, <2>3, <2>4, <2>5 DEF Arrived
<1>6. Others' /\ PublicIsRecorded' /\ UNCHANGED <<state, lock>>
  BY DEF Start, IInv, Inv, TypeOK, Finite, Others, PublicIsRecorded
<1> HIDE DEF on, held
<1> QED
  BY <1>2, <1>3, <1>4, <1>5, <1>6, Quiet, WorkerStep DEF Start

-----------------------------------------------------------------------------
(* Steps that write to the Database, the archive or a delivered review *)

\* Restaging a change of the Database leaves changes.
LEMMA RestageType ==
    ASSUME IInv, NEW c \in Changes, NEW stage \in {"pushed", "open", "merged"}
    PROVE  Restage(c, stage) \subseteq Changes
BY DEF IInv, Inv, TypeOK, Restage, Changes

\* A branch is one of the changes.
LEMMA BranchType ==
    ASSUME IInv, NEW s, NEW id
    PROVE  Branch(s, id) \subseteq Changes
BY DEF IInv, Inv, TypeOK, Branch

\* Reopen keeps the invariant.
LEMMA ReopenKeeps == ASSUME IInv, NEW p \in Workers, Reopen(p) PROVE IInv'
<1>1. w[p].pc = "reopen" /\ w[p].id \in Identities
  BY Running DEF Reopen, Sound, Carries, IdentityPCs
<1>2. Destination(Raised(p)) /\ Destination(Goto(p, "recheckpoint"))
  BY <1>1, RaisedIsSafe, Continues, PlainIsSafe DEF BoundPCs
<1>3. \E r \in {Raised(p), Goto(p, "recheckpoint")} : Becomes(p, r)
  BY DEF Reopen
<1>4. changes' \subseteq Changes
  BY RestageType, BranchType DEF Reopen, IInv, Inv, TypeOK
<1>5. Others' /\ PublicIsRecorded'
  BY <1>4 DEF Reopen, IInv, Inv, TypeOK, Finite, Others, PublicIsRecorded
<1> QED
  BY <1>2, <1>3, <1>5, Move DEF Reopen

\* OpenPR keeps the invariant.
LEMMA OpenPRKeeps == ASSUME IInv, NEW p \in Workers, OpenPR(p) PROVE IInv'
<1>1. w[p].pc = "open" /\ w[p].id \in Identities
  BY Running DEF OpenPR, Sound, Carries, IdentityPCs
<1>2. Destination(Raised(p)) /\ Destination(Goto(p, "checkpoint"))
  BY <1>1, RaisedIsSafe, Continues, PlainIsSafe DEF BoundPCs
<1>3. \E r \in {Raised(p), Goto(p, "checkpoint")} : Becomes(p, r)
  BY DEF OpenPR
<1>4. changes' \subseteq Changes
  BY RestageType, BranchType DEF OpenPR, IInv, Inv, TypeOK
<1>5. Others' /\ PublicIsRecorded'
  BY <1>4 DEF OpenPR, IInv, Inv, TypeOK, Finite, Others, PublicIsRecorded
<1> QED
  BY <1>2, <1>3, <1>5, Move DEF OpenPR

\* Push keeps the invariant.
LEMMA PushKeeps == ASSUME IInv, NEW p \in Workers, Push(p) PROVE IInv'
<1>1. w[p].pc = "push" /\ w[p].id \in Identities /\ w[p].sub \in Submissions
  BY Running DEF Push, Sound, Carries, IdentityPCs
<1>2. Destination(Raised(p)) /\ Destination(Goto(p, "open"))
  BY <1>1, RaisedIsSafe, Continues, PlainIsSafe DEF BoundPCs
<1>3. \E r \in {Raised(p), Goto(p, "open")} : Becomes(p, r)
  BY DEF Push
<1>4. [sub |-> w[p].sub, id |-> w[p].id, stage |-> "pushed"] \in Changes
  BY <1>1 DEF Changes
<1>5. changes' \subseteq Changes
  BY <1>4 DEF Push, IInv, Inv, TypeOK
<1>6. Others' /\ PublicIsRecorded'
  BY <1>5 DEF Push, IInv, Inv, TypeOK, Finite, Others, PublicIsRecorded
<1> QED
  BY <1>2, <1>3, <1>6, Move DEF Push

\* What a worker publishes is on record already.
LEMMA PublishKeeps == ASSUME IInv, NEW p \in Workers, Publish(p) PROVE IInv'
<1> DEFINE new == [sub |-> w[p].sub, id |-> w[p].id]
<1>1. /\ w[p].pc = "publish" /\ w[p].id \in Identities /\ w[p].sub \in Submissions
      /\ \E row \in state[w[p].sub].uses : row.id = w[p].id
  BY Running DEF Publish, Sound, Carries, IdentityPCs
<1>2. Destination(Goto(p, "published")) /\ Becomes(p, Goto(p, "published"))
  BY <1>1, Continues, PlainIsSafe DEF BoundPCs, Publish
<1>3. new \in [sub: Submissions, id: Identities]
  BY <1>1
<1>4. archive' = archive \cup {new} /\ archive' \subseteq [sub: Submissions, id: Identities]
  BY <1>3 DEF Publish, IInv, Inv, TypeOK
<1>5. Others'
  BY <1>4 DEF Publish, IInv, Inv, TypeOK, Finite, Others
<1>6. PublicIsRecorded'
  <2> SUFFICES ASSUME NEW x \in archive'
               PROVE  \E row \in state[x.sub].uses : row.id = x.id
    BY DEF PublicIsRecorded, Publish
  <2>1. CASE x \in archive
    BY <2>1 DEF IInv, Inv, PublicIsRecorded
  <2>2. CASE x = new
    BY <1>1, <2>2
  <2> QED
    BY <1>4, <2>1, <2>2
<1> QED
  BY <1>2, <1>5, <1>6, Move DEF Publish

\* Merge keeps the invariant.
LEMMA MergeKeeps == ASSUME IInv, NEW p \in Workers, Merge(p) PROVE IInv'
<1>1. w[p].pc = "merge" /\ w[p].id \in Identities /\ w[p].sub \in Submissions
  BY Running DEF Merge, Sound, Carries, IdentityPCs, AdvancePCs
<1>2. Destination(Raised(p)) /\ Destination(Goto(p, "finalize"))
  BY <1>1, RaisedIsSafe, Continues, PlainIsSafe DEF BoundPCs
<1>3. \E r \in {Raised(p), Goto(p, "finalize")} : Becomes(p, r)
  BY DEF Merge
<1>4. /\ changes' = Restage(Change(p, "open"), "merged") \/ changes' = changes
      /\ database' \in {database, database \cup {EntryOf(w[p].sub, w[p].id)}}
  BY DEF Merge
<1>5. changes' \subseteq Changes
  <2>1. Change(p, "open") \in Changes
    BY <1>1 DEF Change, Changes
  <2> QED
    BY <1>4, <2>1, RestageType DEF IInv, Inv, TypeOK
<1>6. database' \subseteq Entries /\ IsFiniteSet(database')
  <2>1. EntryOf(w[p].sub, w[p].id) \in Entries
    BY <1>1 DEF EntryOf, Entries, Identities
  <2>2. IsFiniteSet(database) /\ IsFiniteSet(database \cup {EntryOf(w[p].sub, w[p].id)})
    BY FS_AddElement DEF IInv, Finite
  <2> QED
    BY <1>4, <2>1, <2>2 DEF IInv, Inv, TypeOK
<1>7. Others' /\ PublicIsRecorded'
  BY <1>5, <1>6 DEF Merge, IInv, Inv, TypeOK, Others, PublicIsRecorded
<1> QED
  BY <1>2, <1>3, <1>7, Move DEF Merge

\* WriteReview keeps the invariant.
LEMMA WriteReviewKeeps == ASSUME IInv, NEW p \in Workers, WriteReview(p) PROVE IInv'
<1> DEFINE s == w[p].sub
           r == [Goto(p, "deliverWrite") EXCEPT !.review = delivered[s] + 1]
<1>1. w[p].pc = "review" /\ w[p] \in WorkerStates /\ s \in Submissions
  BY Running DEF WriteReview
<1>2. CASE delivered[s] < MaxReviews
  <2>1. delivered[s] \in Reviews /\ delivered[s] + 1 \in Reviews
    BY <1>1, <1>2, ConstantsAssumption DEF IInv, Inv, TypeOK, Reviews, ConstantsAssumption
  <2>2. delivered' \in [Submissions -> Reviews]
    BY <1>1, <1>2, <2>1 DEF WriteReview, IInv, Inv, TypeOK
  <2>3. Others' /\ PublicIsRecorded'
    BY <2>2 DEF WriteReview, IInv, Inv, TypeOK, Finite, Others, PublicIsRecorded
  <2>4. /\ r \in WorkerStates /\ IsFiniteSet(r.seen) /\ r.sub = s /\ r.pc = "deliverWrite"
        /\ r.fresh = w[p].fresh
    BY <1>1, <2>1, Running DEF Goto, WorkerStates, PCs
  <2>5. Becomes(p, r)
    BY <1>2 DEF WriteReview
  <2> HIDE DEF r
  <2>6. Destination(r)
    BY <1>1, <2>4, Running DEF Destination, Sound, FreshCopy, FreshLock, Carries, IdentityPCs,
       AdvancePCs, ReleasePCs
  <2> QED
    BY <2>3, <2>5, <2>6, Move DEF WriteReview
<1>3. CASE ~(delivered[s] < MaxReviews)
  BY <1>3, IdleIsSafe, Quiet DEF WriteReview
<1> QED
  BY <1>2, <1>3

\* Time passing changes nothing the invariant speaks of.
LEMMA TickKeeps == ASSUME IInv, Tick PROVE IInv'
<1>1. TypeOK' /\ Finite'
  BY ConstantsAssumption DEF Tick, IInv, Inv, TypeOK, Finite, ConstantsAssumption
<1>2. /\ PublicReviewConsented' /\ PublicHoldsLock' /\ PublicIsRecorded'
      /\ \A p \in Workers : Sound(w[p])'
      /\ \A p, q \in Workers : ~Clash(w[p], w[q])'
  BY DEF Tick, IInv, Inv, PublicReviewConsented, PublicHoldsLock, PublicIsRecorded, Sound,
         FreshCopy, FreshLock, Carries, Clash, HeldBy
<1> QED
  BY <1>1, <1>2 DEF IInv, Inv

-----------------------------------------------------------------------------
(* Steps that write the record *)

\* A record that only moves on between statuses and counters.
LEMMA SameRowsRespect ==
    ASSUME IInv, NEW s \in Submissions, NEW record,
           record.uses = state[s].uses, record.attempt = state[s].attempt,
           record.review = state[s].review, record.consent = state[s].consent
    PROVE  Respects(s, record)
BY DEF Respects, IInv, Inv, PublicReviewConsented, PublicHoldsLock

\* A record of a submission that has nothing public.
LEMMA NoRowsRespect ==
    ASSUME NEW s, NEW record, record.uses = {}, state[s].uses = {}
    PROVE  Respects(s, record)
BY DEF Respects

\* A record whose attempt is not set has no public row.
LEMMA NoAttemptIsPrivate ==
    ASSUME IInv, NEW s \in Submissions, state[s].attempt = None
    PROVE  state[s].uses = {}
BY NoneAssumption DEF IInv, Inv, TypeOK, Records, PublicReviewConsented

\* Recheckpoint keeps the invariant.
LEMMA RecheckpointKeeps == ASSUME IInv, NEW p \in Workers, Recheckpoint(p) PROVE IInv'
<1> DEFINE s == w[p].sub
           record == [state[s] EXCEPT !.pr = TRUE]
<1>1. /\ w[p].pc = "recheckpoint" /\ w[p].id \in Identities /\ s \in Submissions
      /\ state[s] \in Records
  BY Running DEF Recheckpoint, Sound, Carries, IdentityPCs
<1>2. Plain(Raised(p)) /\ Plain(Afresh(p, "await"))
  BY <1>1, RaisedIsSafe, Continues DEF BoundPCs
<1>3. record \in Records /\ Respects(s, record)
  <2>1. /\ record \in Records /\ record.uses = state[s].uses
        /\ record.attempt = state[s].attempt
        /\ record.review = state[s].review /\ record.consent = state[s].consent
    BY <1>1 DEF Records
  <2> HIDE DEF record
  <2> QED
    BY <1>1, <2>1, SameRowsRespect
<1>4. CASE w[p].fresh
  <2>1. WritesRecord(p, s, record, Afresh(p, "await"))
    BY <1>4 DEF Recheckpoint
  <2> HIDE DEF record
  <2> QED
    BY <1>1, <1>2, <1>3, <2>1, PlainRecordStep DEF Recheckpoint
<1>5. CASE ~w[p].fresh
  BY <1>2, <1>5, PlainIsSafe, Quiet DEF Recheckpoint
<1> QED
  BY <1>4, <1>5

\* Validate keeps the invariant.
LEMMA ValidateKeeps == ASSUME IInv, NEW p \in Workers, Validate(p) PROVE IInv'
<1> DEFINE s == w[p].sub
           n == IF state[s].attempts < AttemptLimit THEN state[s].attempts + 1
                ELSE state[s].attempts
           record == [state[s] EXCEPT !.attempts = n, !.cooling = FALSE]
<1>1. w[p].pc = "validate" /\ s \in Submissions /\ state[s] \in Records
  BY Running DEF Validate
<1>2. Plain(Raised(p)) /\ Plain(Afresh(p, "clone"))
  BY <1>1, RaisedIsSafe, Continues DEF OpenPCs
<1>3. record \in Records /\ Respects(s, record)
  <2>1. n \in 0 .. AttemptLimit
    BY <1>1, ConstantsAssumption DEF Records, ConstantsAssumption
  <2> HIDE DEF n
  <2>2. /\ record \in Records /\ record.uses = state[s].uses
        /\ record.attempt = state[s].attempt
        /\ record.review = state[s].review /\ record.consent = state[s].consent
    BY <1>1, <2>1 DEF Records
  <2> HIDE DEF record
  <2> QED
    BY <1>1, <2>2, SameRowsRespect
<1>4. \/ WritesRecord(p, s, record, Afresh(p, "clone"))
      \/ Becomes(p, Raised(p)) /\ UNCHANGED state
  BY DEF Validate
<1> HIDE DEF record
<1>5. CASE WritesRecord(p, s, record, Afresh(p, "clone"))
  BY <1>1, <1>2, <1>3, <1>5, PlainRecordStep DEF Validate
<1>6. CASE Becomes(p, Raised(p)) /\ UNCHANGED state
  BY <1>2, <1>6, PlainIsSafe, Quiet DEF Validate
<1> QED
  BY <1>4, <1>5, <1>6

\* Checkpoint keeps the invariant.
LEMMA CheckpointKeeps == ASSUME IInv, NEW p \in Workers, Checkpoint(p) PROVE IInv'
<1> DEFINE s == w[p].sub
           record == [state[s] EXCEPT !.pr = TRUE]
<1>1. /\ w[p].pc = "checkpoint" /\ w[p].id \in Identities /\ s \in Submissions
      /\ state[s] \in Records
  BY Running DEF Checkpoint, Sound, Carries, IdentityPCs
<1>2. Plain(Raised(p)) /\ Plain(Afresh(p, "await"))
  BY <1>1, RaisedIsSafe, Continues DEF BoundPCs
<1>3. record \in Records /\ Respects(s, record)
  <2>1. /\ record \in Records /\ record.uses = state[s].uses
        /\ record.attempt = state[s].attempt
        /\ record.review = state[s].review /\ record.consent = state[s].consent
    BY <1>1 DEF Records
  <2> HIDE DEF record
  <2> QED
    BY <1>1, <2>1, SameRowsRespect
<1>4. \/ WritesRecord(p, s, record, Afresh(p, "await"))
      \/ Becomes(p, Raised(p)) /\ UNCHANGED state
  BY DEF Checkpoint
<1> HIDE DEF record
<1>5. CASE WritesRecord(p, s, record, Afresh(p, "await"))
  BY <1>1, <1>2, <1>3, <1>5, PlainRecordStep DEF Checkpoint
<1>6. CASE Becomes(p, Raised(p)) /\ UNCHANGED state
  BY <1>2, <1>6, PlainIsSafe, Quiet DEF Checkpoint
<1> QED
  BY <1>4, <1>5, <1>6

\* RecordFailure keeps the invariant.
LEMMA RecordFailureKeeps == ASSUME IInv, NEW p \in Workers, RecordFailure(p) PROVE IInv'
<1> DEFINE s == w[p].sub
           paused == w[p].pc = "failDet" \/ state[s].attempts = AttemptLimit
           status == IF paused THEN "registration-paused" ELSE state[s].status
           cooling == ~paused
           record == [state[s] EXCEPT !.status = status, !.cooling = cooling]
<1>1. w[p].pc \in {"fail", "failDet"} /\ s \in Submissions /\ state[s] \in Records
  BY Running DEF RecordFailure
<1>2. \/ WritesRecord(p, s, record, Idle)
      \/ Becomes(p, Idle) /\ UNCHANGED state
  BY DEF RecordFailure
<1>3. cooling \in BOOLEAN
  OBVIOUS
<1> HIDE DEF paused
<1>4. status \in {"review-ready", "reviewing", "registration-paused", "withdrawn", "registered"}
  BY <1>1 DEF Records
<1> HIDE DEF cooling, status
<1>5. record \in Records /\ Respects(s, record)
  <2>1. /\ record \in Records /\ record.uses = state[s].uses
        /\ record.attempt = state[s].attempt
        /\ record.review = state[s].review /\ record.consent = state[s].consent
    BY <1>1, <1>3, <1>4 DEF Records
  <2> HIDE DEF record
  <2> QED
    BY <1>1, <2>1, SameRowsRespect
<1> HIDE DEF record
<1>6. CASE WritesRecord(p, s, record, Idle)
  BY <1>1, <1>5, <1>6, IdleIsPlain, PlainRecordStep DEF RecordFailure
<1>7. CASE Becomes(p, Idle) /\ UNCHANGED state
  BY <1>7, IdleIsSafe, Quiet DEF RecordFailure
<1> QED
  BY <1>2, <1>6, <1>7

\* Requeue keeps the invariant.
LEMMA RequeueKeeps == ASSUME IInv, NEW p \in Workers, Requeue(p) PROVE IInv'
<1> DEFINE s == w[p].sub
           record == [state[s] EXCEPT !.status = "review-ready", !.attempts = 0,
                                      !.cooling = FALSE]
<1>1. w[p].pc = "requeue" /\ s \in Submissions /\ state[s] \in Records
  BY Running DEF Requeue
<1>2. \/ WritesRecord(p, s, record, Idle)
      \/ Becomes(p, Idle) /\ UNCHANGED state
  BY DEF Requeue
<1>3. record \in Records /\ Respects(s, record)
  <2>1. 0 \in 0 .. AttemptLimit
    BY ConstantsAssumption DEF ConstantsAssumption
  <2>2. /\ record \in Records /\ record.uses = state[s].uses
        /\ record.attempt = state[s].attempt
        /\ record.review = state[s].review /\ record.consent = state[s].consent
    BY <1>1, <2>1 DEF Records
  <2> HIDE DEF record
  <2> QED
    BY <1>1, <2>2, SameRowsRespect
<1> HIDE DEF record
<1>4. CASE WritesRecord(p, s, record, Idle)
  BY <1>1, <1>3, <1>4, IdleIsPlain, PlainRecordStep DEF Requeue
<1>5. CASE Becomes(p, Idle) /\ UNCHANGED state
  BY <1>5, IdleIsSafe, Quiet DEF Requeue
<1> QED
  BY <1>2, <1>4, <1>5

\* BeginReview keeps the invariant.
LEMMA BeginReviewKeeps ==
    ASSUME IInv, NEW p \in Workers, NEW s \in Submissions, BeginReview(p, s) PROVE IInv'
<1> DEFINE r == [Idle EXCEPT !.pc = "deliver", !.job = "deliver", !.sub = s]
           record == [state[s] EXCEPT !.status = "reviewing"]
<1>1. Plain(r)
  BY IdleType DEF Plain, OpenPCs, WorkerStates, PCs
<1>2. state[s] \in Records
  BY DEF IInv, Inv, TypeOK
<1>3. WritesRecord(p, s, record, r)
  BY DEF BeginReview
<1>4. /\ record \in Records /\ record.uses = state[s].uses
      /\ record.attempt = state[s].attempt
      /\ record.review = state[s].review /\ record.consent = state[s].consent
  BY <1>2 DEF Records
<1> HIDE DEF r, record
<1>5. Respects(s, record)
  BY <1>4, SameRowsRespect
<1> QED
  BY <1>1, <1>3, <1>4, <1>5, PlainRecordStep DEF BeginReview

\* A record step that takes its worker to a place where it relies on what it
\* wrote.
LEMMA SoundRecordStep ==
    ASSUME IInv, NEW p \in Workers, NEW s \in Submissions, NEW record \in Records, NEW r,
           r \in WorkerStates, IsFiniteSet(r.seen), r.pc # "startWrite",
           r.pc = "relClear" => r.sub = s,
           WritesRecord(p, s, record, r), Respects(s, record), Sound(w[p])',
           UNCHANGED <<lock, archive>>, Others'
    PROVE  IInv'
<1>1. w'[p] = r
  BY DEF WritesRecord
<1>2. w' \in [Workers -> WorkerStates]
  BY Written
<1>3. \A q \in Workers \ {p} : w'[q] = [w[q] EXCEPT !.fresh = @ /\ w[q].sub # s]
  BY DEF WritesRecord
<1>4. ASSUME NEW q \in Workers PROVE ~Clash(w[p], w[q])' /\ ~Clash(w[q], w[p])'
  <2>1. ~Clash(w[q], w[p])'
    BY <1>1 DEF Clash
  <2>2. CASE q = p
    BY <2>1, <2>2
  <2>3. CASE q # p
    <3>1. w[q] \in WorkerStates /\ w'[q] = [w[q] EXCEPT !.fresh = @ /\ w[q].sub # s]
      BY <1>3, <2>3 DEF IInv, Inv, TypeOK
    <3>2. w'[q].sub = w[q].sub /\ (w'[q].fresh => w[q].sub # s)
      BY <3>1 DEF WorkerStates
    <3>3. ~Clash(w[p], w[q])'
      BY <1>1, <3>2 DEF Clash
    <3> QED
      BY <2>1, <3>3
  <2> QED
    BY <2>2, <2>3
<1>5. Arrived(p)'
  BY <1>1, <1>4 DEF Arrived
<1> DEFINE P == {p}
<1>6. /\ P \subseteq Workers
      /\ \A q \in Workers \ P : w'[q] = [w[q] EXCEPT !.fresh = @ /\ w[q].sub # s]
      /\ \A q \in P : Arrived(q)'
  BY <1>3, <1>5
<1>7. state' = [state EXCEPT ![s] = record]
  BY DEF WritesRecord
<1> HIDE DEF P
<1> QED
  BY <1>2, <1>6, <1>7, RecordStep

\* RelState keeps the invariant.
LEMMA RelStateKeeps == ASSUME IInv, NEW p \in Workers, RelState(p) PROVE IInv'
<1> DEFINE s == w[p].sub
           record == [state[s] EXCEPT !.attempt = None]
           r == Goto(p, "relClear")
<1>1. /\ w[p].pc = "relState" /\ w[p].id \in Identities /\ s \in Submissions
      /\ state[s] \in Records /\ w[p] \in WorkerStates
  BY Running DEF RelState, Sound, Carries, IdentityPCs, ReleasePCs
<1>2. Destination(Raised(p))
  BY <1>1, RaisedIsSafe
<1>3. CASE w[p].fresh
  <2>1. state[s].uses = {} /\ WritesRecord(p, s, record, r)
    BY <1>1, <1>3, Running DEF RelState, Sound, FreshCopy
  <2>2. /\ record \in Records /\ record.uses = {} /\ record.attempt = None
    BY <1>1, <2>1 DEF Records
  <2>3. /\ r \in WorkerStates /\ IsFiniteSet(r.seen) /\ r.pc = "relClear" /\ r.sub = s
        /\ r.id = w[p].id /\ r.lockFresh = w[p].lockFresh
    BY <1>1, Running DEF Goto, WorkerStates, PCs, ReleasePCs
  <2>4. w[p].lockFresh => HeldBy(s, w[p].id, {"releasing"})
    BY <1>1, Running DEF Sound, FreshLock
  <2>5. w'[p] = r /\ state'[s] = record /\ lock' = lock
    BY <1>1, <2>1 DEF WritesRecord, RelState, IInv, Inv, TypeOK
  <2> HIDE DEF r, record
  <2>6. Sound(w[p])'
    BY <1>1, <2>2, <2>3, <2>4, <2>5
       DEF Sound, FreshCopy, FreshLock, Carries, AdvancePCs, HeldBy
  <2>7. Respects(s, record)
    BY <2>1, <2>2, NoRowsRespect
  <2> QED
    BY <1>1, <2>1, <2>2, <2>3, <2>6, <2>7, SoundRecordStep, SameOthers DEF RelState
<1>4. CASE ~w[p].fresh
  BY <1>2, <1>4, Quiet DEF RelState
<1> QED
  BY <1>3, <1>4

\* A worker that saves its attempt finds the record without one, and so
\* without anything public.
LEMMA SavesAttempt ==
    ASSUME IInv, NEW p \in Workers, w[p].pc = "save", w[p].fresh
    PROVE  /\ [state[w[p].sub] EXCEPT !.attempt = w[p].id] \in Records
           /\ Respects(w[p].sub, [state[w[p].sub] EXCEPT !.attempt = w[p].id])
<1> DEFINE s == w[p].sub
           record == [state[s] EXCEPT !.attempt = w[p].id]
<1>1. w[p].id \in Identities /\ s \in Submissions /\ state[s] \in Records
  BY Running DEF Sound, Carries, IdentityPCs
<1>2. state[s].uses = {}
  BY <1>1, Running, NoAttemptIsPrivate DEF Sound, FreshCopy, Carries
<1>3. record \in Records /\ record.uses = {}
  BY <1>1, <1>2 DEF Records
<1> HIDE DEF record
<1>4. Respects(s, record)
  BY <1>2, <1>3, NoRowsRespect
<1> QED
  BY <1>3, <1>4 DEF record

\* SaveAttempt keeps the invariant.
LEMMA SaveAttemptKeeps == ASSUME IInv, NEW p \in Workers, SaveAttempt(p) PROVE IInv'
<1> DEFINE s == w[p].sub
           record == [state[s] EXCEPT !.attempt = w[p].id]
           r == [Goto(p, "hold") EXCEPT !.saved = TRUE]
<1>1. /\ w[p].pc = "save" /\ w[p].id \in Identities /\ w[p].id.review = w[p].review
      /\ s \in Submissions /\ w[p] \in WorkerStates
  BY Running DEF SaveAttempt, Sound, Carries, IdentityPCs
<1>2. CASE w[p].fresh
  <2>1. record \in Records /\ Respects(s, record) /\ WritesRecord(p, s, record, r)
    BY <1>1, <1>2, SavesAttempt DEF SaveAttempt
  <2>2. /\ r \in WorkerStates /\ IsFiniteSet(r.seen) /\ r.pc = "hold" /\ r.sub = s
        /\ r.id = w[p].id /\ r.lockFresh = w[p].lockFresh /\ r.held = w[p].held
        /\ r.review = w[p].review
    BY <1>1, Running DEF Goto, WorkerStates, PCs, RegisterPCs
  <2>3. w[p].lockFresh /\ ~w[p].held => HeldBy(s, w[p].id, {"acquiring"})
    BY <1>1, Running DEF Sound, FreshLock
  <2>4. w'[p] = r /\ lock' = lock
    BY <2>1 DEF WritesRecord, SaveAttempt
  <2> HIDE DEF r, record
  <2>5. Sound(w[p])'
    BY <1>1, <2>2, <2>3, <2>4
       DEF Sound, FreshCopy, FreshLock, Carries, AdvancePCs, ReleasePCs, HeldBy
  <2> QED
    BY <1>1, <2>1, <2>2, <2>5, SoundRecordStep, SameOthers DEF SaveAttempt
<1>3. CASE ~w[p].fresh
  BY <1>1, <1>3, RaisedIsSafe, Quiet DEF SaveAttempt
<1> QED
  BY <1>2, <1>3

\* StartWrite keeps the invariant.
LEMMA StartWriteKeeps == ASSUME IInv, NEW p \in Workers, StartWrite(p) PROVE IInv'
<1> DEFINE s == w[p].sub
           id == w[p].id
           row == [id |-> id, phase |-> "publication-started"]
           record == [state[s] EXCEPT !.uses = @ \cup {row}]
           r == Afresh(p, "publish")
<1>1. /\ w[p].pc = "startWrite" /\ id \in Identities /\ s \in Submissions
      /\ state[s] \in Records /\ w[p] \in WorkerStates
  BY Running DEF StartWrite, Sound, Carries, IdentityPCs
<1>2. CASE w[p].fresh
  <2>1. /\ state[s].attempt = id /\ state[s].uses = {}
        /\ state[s].review = id.review /\ state[s].consent = id.review
        /\ HeldBy(s, id, {"held", "releasing"})
    BY <1>1, <1>2, Running DEF Sound, FreshCopy
  <2>2. row \in [id: Identities, phase: Phases]
    BY <1>1 DEF Phases
  <2>3. /\ record \in Records /\ record.uses = {row} /\ record.attempt = id
        /\ record.review = id.review /\ record.consent = id.review
    <3>1. state[s].uses \cup {row} = {row}
      BY <2>1
    <3>2. record = [state[s] EXCEPT !.uses = {row}]
      BY <3>1
    <3> HIDE DEF record, row
    <3> QED
      BY <1>1, <2>1, <2>2, <3>2 DEF Records
  <2>4. \A q \in Workers : w[q].pc = "relClear" /\ w[q].lockFresh => w[q].sub # s \/ w[q].id # id
    BY <1>1, <1>2 DEF IInv, Inv, Clash
  <2>5. row.id = id
    OBVIOUS
  <2>6. WritesRecord(p, s, record, r)
    BY <1>2 DEF StartWrite
  <2>7. /\ r \in WorkerStates /\ IsFiniteSet(r.seen) /\ r.pc = "publish" /\ r.sub = s
        /\ r.id = id /\ ~r.fresh /\ ~r.lockFresh
    BY <1>1, FS_EmptySet DEF Afresh, WorkerStates, PCs, RegisterPCs
  <2>8. w'[p] = r /\ state'[s] = record
    BY <1>1, <2>6 DEF WritesRecord, IInv, Inv, TypeOK
  <2> HIDE DEF r, record, row
  <2>9. Respects(s, record)
    BY <2>1, <2>3, <2>4, <2>5 DEF Respects
  <2>10. Sound(w[p])'
    BY <1>1, <2>3, <2>5, <2>7, <2>8 DEF Sound, Carries, AdvancePCs, ReleasePCs
  <2> QED
    BY <1>1, <2>3, <2>6, <2>7, <2>9, <2>10, SoundRecordStep, SameOthers DEF StartWrite
<1>3. CASE ~w[p].fresh
  BY <1>1, <1>3, RaisedIsSafe, Quiet DEF StartWrite
<1> QED
  BY <1>2, <1>3

\* Moving the one public row of a record to a later phase.
LEMMA InPhaseType ==
    ASSUME NEW record \in Records, NEW row \in record.uses, record.uses = {row},
           NEW phase \in Phases
    PROVE  LET moved == InPhase(record, row.id, phase)
               next == [id |-> row.id, phase |-> phase] IN
           /\ moved \in Records
           /\ moved.uses = {next}
           /\ moved.attempt = record.attempt
           /\ moved.status = record.status
           /\ moved.review = record.review
           /\ moved.consent = record.consent
           /\ row.phase = phase => next = row
<1> DEFINE next == [id |-> row.id, phase |-> phase]
           rows == {IF u.id = row.id THEN [u EXCEPT !.phase = phase] ELSE u : u \in record.uses}
           moved == [record EXCEPT !.uses = {next}]
<1>1. row \in [id: Identities, phase: Phases]
  BY DEF Records
<1>2. [row EXCEPT !.phase = phase] = next
  BY <1>1
<1>3. rows = {next}
  BY <1>2
<1>4. InPhase(record, row.id, phase) = moved
  BY <1>3 DEF InPhase
<1>5. next \in [id: Identities, phase: Phases] /\ (row.phase = phase => next = row)
  BY <1>1
<1> HIDE DEF next
<1>6. /\ moved \in Records /\ moved.uses = {next} /\ moved.attempt = record.attempt
      /\ moved.status = record.status /\ moved.review = record.review
      /\ moved.consent = record.consent
  BY <1>5 DEF Records
<1> HIDE DEF moved
<1> QED
  BY <1>4, <1>5, <1>6 DEF next

\* A record whose public row moves to a phase that still needs the lock, or to
\* registered.
LEMMA MovedRowRespects ==
    ASSUME IInv, NEW s \in Submissions, NEW row \in state[s].uses, NEW phase \in Phases,
           phase # "registered" => row.phase # "registered",
           row.phase = "registered" => phase = "registered"
    PROVE  /\ state[s].uses = {row}
           /\ InPhase(state[s], row.id, phase) \in Records
           /\ Respects(s, InPhase(state[s], row.id, phase))
           /\ InPhase(state[s], row.id, phase).uses = {[id |-> row.id, phase |-> phase]}
<1> DEFINE moved == InPhase(state[s], row.id, phase)
           next == [id |-> row.id, phase |-> phase]
<1>1. /\ state[s] \in Records /\ state[s].uses = {row} /\ state[s].attempt = row.id
      /\ state[s].review = row.id.review /\ state[s].consent = row.id.review
      /\ row.phase # "registered" => HeldBy(s, row.id, {"held", "releasing"})
  BY DEF IInv, Inv, TypeOK, PublicReviewConsented, PublicHoldsLock
<1>2. /\ moved \in Records /\ moved.uses = {next} /\ moved.attempt = row.id
      /\ moved.review = row.id.review /\ moved.consent = row.id.review
      /\ row.phase = phase => next = row
  BY <1>1, InPhaseType
<1>3. next.id = row.id /\ next.phase = phase
  OBVIOUS
<1> HIDE DEF moved, next
<1>4. Respects(s, moved)
  BY <1>1, <1>2, <1>3 DEF Respects
<1> QED
  BY <1>1, <1>2, <1>4 DEF moved, next

\* PublishedWrite keeps the invariant.
LEMMA PublishedWriteKeeps == ASSUME IInv, NEW p \in Workers, PublishedWrite(p) PROVE IInv'
<1> DEFINE s == w[p].sub
           id == w[p].id
           row == [id |-> id, phase |-> "publication-started"]
           record == InPhase(state[s], id, "published")
<1>1. /\ w[p].pc = "publishedWrite" /\ id \in Identities /\ s \in Submissions
  BY Running DEF PublishedWrite, Sound, Carries, IdentityPCs
<1>2. Plain(Raised(p)) /\ Plain(Afresh(p, "push"))
  BY <1>1, RaisedIsSafe, Continues DEF BoundPCs
<1>3. CASE w[p].fresh
  <2>1. row \in state[s].uses
    BY <1>1, <1>3, Running DEF Sound, FreshCopy
  <2>2. record \in Records /\ Respects(s, record)
    <3>1. row.id = id /\ row.phase = "publication-started" /\ "published" \in Phases
      BY DEF Phases
    <3> HIDE DEF row
    <3> QED
      BY <1>1, <2>1, <3>1, MovedRowRespects
  <2>3. WritesRecord(p, s, record, Afresh(p, "push"))
    BY <1>3 DEF PublishedWrite
  <2> HIDE DEF record
  <2> QED
    BY <1>1, <1>2, <2>2, <2>3, PlainRecordStep DEF PublishedWrite
<1>4. CASE ~w[p].fresh
  BY <1>2, <1>4, PlainIsSafe, Quiet DEF PublishedWrite
<1> QED
  BY <1>3, <1>4

\* FinalizeWrite keeps the invariant.
LEMMA FinalizeWriteKeeps == ASSUME IInv, NEW p \in Workers, FinalizeWrite(p) PROVE IInv'
<1> DEFINE s == w[p].sub
           id == w[p].id
           moved == InPhase(state[s], id, "registered")
           record == [moved EXCEPT !.status = "registered"]
           r == Afresh(p, "unlock")
<1>1. /\ w[p].pc = "finalizeWrite" /\ id \in Identities /\ s \in Submissions
      /\ w[p] \in WorkerStates
  BY Running DEF FinalizeWrite, Sound, Carries, IdentityPCs, AdvancePCs
<1>2. CASE w[p].fresh
  <2>1. PICK row \in state[s].uses : row.id = id
    BY <1>1, <1>2, Running DEF Sound, FreshCopy
  <2>2. /\ moved \in Records /\ Respects(s, moved)
        /\ moved.uses = {[id |-> id, phase |-> "registered"]}
    BY <1>1, <2>1, MovedRowRespects DEF Phases
  <2>3. WritesRecord(p, s, record, r)
    BY <1>2 DEF FinalizeWrite
  <2> HIDE DEF moved
  <2>4. /\ record \in Records /\ record.uses = moved.uses /\ record.attempt = moved.attempt
        /\ record.review = moved.review /\ record.consent = moved.consent
    BY <2>2 DEF Records
  <2>5. /\ r \in WorkerStates /\ IsFiniteSet(r.seen) /\ r.pc = "unlock" /\ r.sub = s
        /\ r.id = id /\ ~r.fresh /\ ~r.lockFresh
    BY <1>1, FS_EmptySet DEF Afresh, WorkerStates, PCs, AdvancePCs
  <2>6. w'[p] = r /\ state'[s] = record
    BY <1>1, <2>3 DEF WritesRecord, IInv, Inv, TypeOK
  <2> HIDE DEF r, record
  <2>7. Respects(s, record)
    BY <2>2, <2>4 DEF Respects
  <2>8. Sound(w[p])'
    BY <1>1, <2>2, <2>4, <2>5, <2>6 DEF Sound, Carries
  <2> QED
    BY <1>1, <2>3, <2>4, <2>5, <2>7, <2>8, SoundRecordStep, SameOthers DEF FinalizeWrite
<1>3. CASE ~w[p].fresh
  BY <1>1, <1>3, RaisedIsSafe, Quiet DEF FinalizeWrite
<1> QED
  BY <1>2, <1>3

\* DeliverWrite keeps the invariant.
LEMMA DeliverWriteKeeps == ASSUME IInv, NEW p \in Workers, DeliverWrite(p) PROVE IInv'
<1> DEFINE s == w[p].sub
           record == [state[s] EXCEPT !.status = "review-ready", !.review = w[p].review,
                                      !.consent = None, !.attempt = None]
<1>1. /\ w[p].pc = "deliverWrite" /\ s \in Submissions /\ state[s] \in Records
      /\ w[p].review \in Reviews
  BY Running DEF DeliverWrite, WorkerStates
<1>2. CASE w[p].fresh
  <2>1. state[s].uses = {}
    BY <1>1, <1>2, Running, NoAttemptIsPrivate DEF Sound, FreshCopy
  <2>2. record \in Records /\ record.uses = {}
    BY <1>1, <2>1 DEF Records
  <2>3. WritesRecord(p, s, record, Idle)
    BY <1>2 DEF DeliverWrite
  <2> HIDE DEF record
  <2>4. Respects(s, record)
    BY <2>1, <2>2, NoRowsRespect
  <2> QED
    BY <1>1, <2>2, <2>3, <2>4, IdleIsPlain, PlainRecordStep DEF DeliverWrite
<1>3. CASE ~w[p].fresh
  BY <1>3, IdleIsSafe, Quiet DEF DeliverWrite
<1> QED
  BY <1>2, <1>3

\* LoseAnswer keeps the invariant.
LEMMA LoseAnswerKeeps == ASSUME IInv, NEW p \in Workers, LoseAnswer(p) PROVE IInv'
<1> DEFINE s == w[p].sub
           record == [state[s] EXCEPT !.attempt = w[p].id]
           r == Raised(p)
<1>1. /\ w[p].pc = "save" /\ w[p].fresh /\ s \in Submissions
      /\ record \in Records /\ Respects(s, record)
  BY Running, SavesAttempt DEF LoseAnswer
<1>2. WritesRecord(p, s, record, r) /\ UNCHANGED <<lock, archive>>
  BY DEF LoseAnswer
<1>3. Others'
  BY ConstantsAssumption DEF LoseAnswer, IInv, Inv, TypeOK, Finite, Others, ConstantsAssumption
<1>4. w'[p] = r /\ lock' = lock
  BY <1>2 DEF WritesRecord
<1>5. Destination(r)
  BY <1>1, RaisedIsSafe
<1>6. r.pc \in {"discard", "fail", "idle"}
  <2>1. r \in {Goto(p, "discard"), Afresh(p, "fail"), Idle}
    BY DEF Raised
  <2>2. Goto(p, "discard").pc = "discard" /\ Afresh(p, "fail").pc = "fail" /\ Idle.pc = "idle"
    BY <1>1, Running DEF Goto, Afresh, Idle, WorkerStates
  <2> QED
    BY <2>1, <2>2
<1> HIDE DEF r, record
<1>7. Sound(w[p])'
  BY <1>4, <1>5, <1>6
     DEF Destination, Sound, FreshCopy, FreshLock, Carries, IdentityPCs, AdvancePCs, ReleasePCs,
         HeldBy
<1> QED
  BY <1>1, <1>2, <1>3, <1>5, <1>6, <1>7, SoundRecordStep DEF Destination

\* What a submitter writes keeps the invariant when the record respects its rows.
LEMMA SubmitterStep ==
    ASSUME IInv, NEW s \in Submissions, NEW record \in Records, Respects(s, record),
           SubmitterWrites(s, record)
    PROVE  IInv'
<1>1. /\ UNCHANGED <<lock, archive>>
      /\ state' = [state EXCEPT ![s] = record]
      /\ \A q \in Workers : w'[q] = [w[q] EXCEPT !.fresh = @ /\ w[q].sub # s]
  BY DEF SubmitterWrites, Forgotten
<1>2. Others'
  BY SameOthers DEF SubmitterWrites
<1>3. w' \in [Workers -> WorkerStates]
  <2>1. ASSUME NEW q \in Workers
        PROVE  [w[q] EXCEPT !.fresh = @ /\ w[q].sub # s] \in WorkerStates
    <3> DEFINE b == w[q].fresh /\ w[q].sub # s
    <3>1. w[q] \in WorkerStates /\ b \in BOOLEAN
      BY DEF IInv, Inv, TypeOK
    <3> HIDE DEF b
    <3>2. [w[q] EXCEPT !.fresh = b] \in WorkerStates
      BY <3>1 DEF WorkerStates
    <3> QED
      BY <3>2 DEF b
  <2> QED
    BY <2>1 DEF SubmitterWrites, Forgotten
<1> DEFINE P == {}
<1>4. /\ P \subseteq Workers
      /\ \A q \in Workers \ P : w'[q] = [w[q] EXCEPT !.fresh = @ /\ w[q].sub # s]
      /\ \A q \in P : Arrived(q)'
  BY <1>1
<1> HIDE DEF P
<1> QED
  BY <1>1, <1>2, <1>3, <1>4, RecordStep

\* GiveConsent keeps the invariant.
LEMMA GiveConsentKeeps == ASSUME IInv, NEW s \in Submissions, GiveConsent(s) PROVE IInv'
<1>1. PICK review \in {state[s].review, delivered[s]} :
        SubmitterWrites(s, [state[s] EXCEPT !.consent = review])
  BY DEF GiveConsent
<1> DEFINE record == [state[s] EXCEPT !.consent = review]
<1>2. state[s] \in Records /\ review \in Reviews /\ None \notin Reviews
  BY ConstantsAssumption DEF IInv, Inv, TypeOK, Records, Reviews, ConstantsAssumption
<1>3. state[s].uses = {}
  <2> SUFFICES ASSUME NEW row \in state[s].uses PROVE FALSE
    OBVIOUS
  <2>1. row.id.review \in Reviews
    BY <1>2 DEF Records, Identities
  <2>2. state[s].consent = row.id.review
    BY DEF IInv, Inv, PublicReviewConsented
  <2> QED
    BY <1>2, <2>1, <2>2 DEF GiveConsent
<1>4. record \in Records /\ record.uses = {}
  BY <1>2, <1>3 DEF Records
<1>5. SubmitterWrites(s, record)
  BY <1>1
<1> HIDE DEF record
<1> QED
  BY <1>3, <1>4, <1>5, NoRowsRespect, SubmitterStep

\* Withdraw keeps the invariant.
LEMMA WithdrawKeeps == ASSUME IInv, NEW s \in Submissions, Withdraw(s) PROVE IInv'
<1> DEFINE record == [state[s] EXCEPT !.status = "withdrawn"]
<1>1. /\ record \in Records /\ record.uses = state[s].uses
      /\ record.attempt = state[s].attempt
      /\ record.review = state[s].review /\ record.consent = state[s].consent
  BY DEF IInv, Inv, TypeOK, Records
<1>2. SubmitterWrites(s, record)
  BY DEF Withdraw
<1> HIDE DEF record
<1>3. Respects(s, record)
  BY <1>1, SameRowsRespect
<1> QED
  BY <1>1, <1>2, <1>3, SubmitterStep

\* A backoff that ends only changes a flag nobody's copy depends on.
LEMMA CoolOffKeeps == ASSUME IInv, NEW s \in Submissions, CoolOff(s) PROVE IInv'
<1>1. state' \in [Submissions -> Records]
  <2>1. state[s] \in Records /\ [state[s] EXCEPT !.cooling = FALSE] \in Records
    BY DEF IInv, Inv, TypeOK, Records
  <2>2. state' = [state EXCEPT ![s] = [state[s] EXCEPT !.cooling = FALSE]]
    BY DEF CoolOff
  <2> QED
    BY <2>1, <2>2 DEF IInv, Inv, TypeOK
<1>2. \A t \in Submissions :
        /\ state'[t].uses = state[t].uses /\ state'[t].attempt = state[t].attempt
        /\ state'[t].review = state[t].review /\ state'[t].consent = state[t].consent
  BY DEF CoolOff, IInv, Inv, TypeOK, Records
<1>3. TypeOK' /\ Finite'
  BY <1>1 DEF CoolOff, IInv, Inv, TypeOK, Finite
<1>4. PublicReviewConsented' /\ PublicHoldsLock' /\ PublicIsRecorded'
  BY <1>2 DEF CoolOff, IInv, Inv, TypeOK, PublicReviewConsented, PublicHoldsLock,
              PublicIsRecorded, HeldBy
<1>5. ASSUME NEW q \in Workers PROVE Sound(w[q])'
  <2>1. Sound(w[q]) /\ (w[q].pc = "idle" \/ w[q].sub \in Submissions)
    BY DEF IInv, Inv, Sound, Carries
  <2>2. w[q].sub \in Submissions =>
          /\ state'[w[q].sub].uses = state[w[q].sub].uses
          /\ state'[w[q].sub].attempt = state[w[q].sub].attempt
          /\ state'[w[q].sub].review = state[w[q].sub].review
          /\ state'[w[q].sub].consent = state[w[q].sub].consent
    BY <1>2
  <2>3. UNCHANGED <<w, lock>>
    BY DEF CoolOff
  <2> QED
    BY <2>1, <2>2, <2>3 DEF Sound, FreshCopy, FreshLock, Carries, HeldBy, IdentityPCs,
       AdvancePCs, ReleasePCs
<1>6. \A q, u \in Workers : ~Clash(w[q], w[u])'
  BY DEF CoolOff, IInv, Inv, Clash
<1> QED
  BY <1>3, <1>4, <1>5, <1>6 DEF IInv, Inv

-----------------------------------------------------------------------------
(* Steps that write the lock *)

\* The owner of a lock stays the owner.
Keeps(scope, holder) ==
    \A t \in Submissions, id \in Identities :
      /\ LockScope(id) = scope
      /\ HeldBy(t, id, {"held", "releasing"})
      /\ Claimed(t, id)
      => holder.sub = t /\ holder.id = id /\ holder.status \in {"held", "releasing"}

\* A lock step that takes its worker to a place where it relies on what it wrote.
LEMMA SoundLockStep ==
    ASSUME IInv, NEW p \in Workers, NEW scope \in Scopes,
           NEW holder \in Holders \cup {NoHolder}, NEW r,
           r \in WorkerStates, IsFiniteSet(r.seen), r.pc \notin {"relClear", "startWrite"},
           WritesLock(p, scope, holder, r), Keeps(scope, holder), Sound(w[p])',
           UNCHANGED <<state, delivered, changes, database, archive, clock, faults>>
    PROVE  IInv'
<1>1. w'[p] = r
  BY DEF WritesLock
<1>2. Arrived(p)'
  BY <1>1 DEF Arrived, Clash
<1> QED
  BY <1>2, LockStep, SameOthers DEF Keeps

\* Moving the lock of id to another status keeps its owner.
LEMMA OwnerKeeps ==
    ASSUME IInv, NEW s \in Submissions, NEW id \in Identities,
           HeldBy(s, id, {"acquiring", "held", "releasing"}),
           NEW status, status = "held" \/ status = "releasing"
    PROVE  LET scope == LockScope(id)
               holder == [lock[scope] EXCEPT !.status = status] IN
           /\ scope \in Scopes
           /\ holder \in Holders
           /\ holder.sub = s /\ holder.id = id /\ holder.status = status
           /\ Keeps(scope, holder)
<1> DEFINE scope == LockScope(id)
           holder == [lock[scope] EXCEPT !.status = status]
<1>1. scope \in Scopes
  BY ScopeType
<1>2. lock[scope] \in Holders
  <2>1. lock[scope] \in Holders \cup {NoHolder}
    BY <1>1 DEF IInv, Inv, TypeOK
  <2>2. lock[scope] # NoHolder
    BY DEF HeldBy, NoHolder
  <2> QED
    BY <2>1, <2>2
<1>3. holder \in Holders /\ holder.sub = s /\ holder.id = id /\ holder.status = status
  BY <1>2 DEF Holders, HeldBy
<1> HIDE DEF holder
<1>4. Keeps(scope, holder)
  BY <1>3 DEF Keeps, HeldBy
<1> QED
  BY <1>1, <1>3, <1>4 DEF holder

\* Freeing the lock of an identity nobody relies on.
LEMMA FreeKeeps ==
    ASSUME IInv, NEW s \in Submissions, NEW id \in Identities,
           HeldBy(s, id, {"acquiring", "held", "releasing"}),
           HeldBy(s, id, {"acquiring"}) \/ ~Claimed(s, id)
    PROVE  Keeps(LockScope(id), NoHolder)
BY DEF Keeps, HeldBy

\* RelLock keeps the invariant.
LEMMA RelLockKeeps == ASSUME IInv, NEW p \in Workers, RelLock(p) PROVE IInv'
<1> DEFINE s == w[p].sub
           id == w[p].id
           scope == LockScope(id)
           holder == [lock[scope] EXCEPT !.status = "releasing"]
           r == [Goto(p, "relState") EXCEPT !.lockFresh = TRUE]
<1>1. /\ w[p].pc = "relLock" /\ id \in Identities /\ s \in Submissions
      /\ w[p] \in WorkerStates
  BY Running DEF RelLock, Sound, Carries, IdentityPCs, ReleasePCs
<1>2. CASE HeldBy(s, id, {"acquiring", "held", "releasing"})
  <2>1. WritesLock(p, scope, holder, r)
    BY <1>2 DEF RelLock
  <2>2. /\ scope \in Scopes /\ holder \in Holders /\ Keeps(scope, holder)
        /\ holder.sub = s /\ holder.id = id /\ holder.status = "releasing"
    BY <1>1, <1>2, OwnerKeeps
  <2>3. /\ r \in WorkerStates /\ IsFiniteSet(r.seen) /\ r.pc = "relState" /\ r.sub = s
        /\ r.id = id /\ r.fresh = w[p].fresh
    BY <1>1, Running DEF Goto, WorkerStates, PCs, ReleasePCs
  <2>4. w'[p] = r /\ lock'[scope] = holder /\ state' = state
    BY <2>1, <2>2 DEF WritesLock, RelLock, IInv, Inv, TypeOK
  <2>5. w[p].fresh => state[s].attempt = id /\ state[s].uses = {}
    BY <1>1, Running DEF Sound, FreshCopy
  <2> HIDE DEF r, holder
  <2>6. Sound(w[p])'
    BY <1>1, <2>2, <2>3, <2>4, <2>5
       DEF Sound, FreshCopy, FreshLock, Carries, AdvancePCs, HeldBy
  <2> QED
    BY <1>1, <2>1, <2>2, <2>3, <2>6, SoundLockStep DEF RelLock
<1>3. CASE ~HeldBy(s, id, {"acquiring", "held", "releasing"})
  BY <1>1, <1>3, RaisedIsSafe, Quiet DEF RelLock
<1> QED
  BY <1>2, <1>3

\* RelClear keeps the invariant.
LEMMA RelClearKeeps == ASSUME IInv, NEW p \in Workers, RelClear(p) PROVE IInv'
<1> DEFINE s == w[p].sub
           id == w[p].id
           r == AfterRelease(p)
<1>1. /\ w[p].pc = "relClear" /\ id \in Identities /\ s \in Submissions
      /\ w[p] \in WorkerStates
  BY Running DEF RelClear, Sound, Carries, IdentityPCs, ReleasePCs
<1>2. CASE w[p].lockFresh
  <2>1. HeldBy(s, id, {"releasing"}) /\ \A row \in state[s].uses : row.id # id
    BY <1>1, <1>2, Running DEF Sound, FreshLock
  <2>2. ~Claimed(s, id)
    BY <1>1, <1>2, <2>1 DEF Claimed, IInv, Inv, Clash
  <2>3. Keeps(LockScope(id), NoHolder)
    BY <1>1, <2>1, <2>2, FreeKeeps DEF HeldBy
  <2>4. WritesLock(p, LockScope(id), NoHolder, r)
    BY <1>2 DEF RelClear
  <2>5. /\ r \in WorkerStates /\ IsFiniteSet(r.seen) /\ r.sub = s /\ ~r.saved
        /\ r.pc \in {"acquire", "requeue", "review"}
        /\ r.fresh = w[p].fresh /\ r.lockFresh = FALSE
    <3> DEFINE pc == CASE w[p].job = "register" -> "acquire"
                       [] w[p].job = "retry" -> "requeue"
                       [] w[p].job = "deliver" -> "review"
    <3>1. w[p].job \in {"register", "retry", "deliver"}
      BY <1>1 DEF WorkerStates, Jobs
    <3>2. pc \in {"acquire", "requeue", "review"}
      BY <3>1
    <3>3. pc \in PCs
      BY <3>2 DEF PCs, RegisterPCs
    <3>4. r = [w[p] EXCEPT !.pc = pc, !.id = None, !.saved = FALSE, !.lockFresh = FALSE]
      BY DEF AfterRelease
    <3> HIDE DEF pc, r
    <3> QED
      BY <1>1, <3>2, <3>3, <3>4, Running DEF WorkerStates
  <2>6. w'[p] = r /\ state' = state
    BY <2>4 DEF WritesLock, RelClear
  <2>7. w[p].fresh => state[s].attempt = None
    BY <1>1, Running DEF Sound, FreshCopy
  <2> HIDE DEF r
  <2>8. Sound(w[p])'
    BY <1>1, <2>5, <2>6, <2>7
       DEF Sound, FreshCopy, FreshLock, Carries, IdentityPCs, AdvancePCs, ReleasePCs
  <2> QED
    BY <1>1, <2>3, <2>4, <2>5, <2>8, ScopeType, SoundLockStep DEF RelClear
<1>3. CASE ~w[p].lockFresh
  BY <1>1, <1>3, RaisedIsSafe, Quiet DEF RelClear
<1> QED
  BY <1>2, <1>3

\* Giving up a lock that no attempt was saved under leaves nobody without one.
LEMMA DiscardKeeps == ASSUME IInv, NEW p \in Workers, Discard(p) PROVE IInv'
<1> DEFINE s == w[p].sub
           id == w[p].id
           r == Afresh(p, "fail")
<1>1. w[p].pc = "discard" /\ id \in Identities /\ s \in Submissions
  BY Running DEF Discard, Sound, Carries, IdentityPCs
<1>2. Plain(r)
  BY <1>1, Continues DEF OpenPCs
<1>3. CASE w[p].lockFresh /\ ~w[p].held
  <2>1. HeldBy(s, id, {"acquiring"})
    BY <1>1, <1>3, Running DEF Sound, FreshLock
  <2>2. Keeps(LockScope(id), NoHolder)
    BY <1>1, <2>1, FreeKeeps DEF HeldBy
  <2>3. WritesLock(p, LockScope(id), NoHolder, r)
    BY <1>3 DEF Discard
  <2> HIDE DEF r
  <2> QED
    BY <1>1, <1>2, <2>2, <2>3, ScopeType, PlainLockStep DEF Discard, Keeps
<1>4. CASE ~(w[p].lockFresh /\ ~w[p].held)
  BY <1>2, <1>4, PlainIsSafe, Quiet DEF Discard
<1> QED
  BY <1>3, <1>4

\* Hold keeps the invariant.
LEMMA HoldKeeps == ASSUME IInv, NEW p \in Workers, Hold(p) PROVE IInv'
<1> DEFINE s == w[p].sub
           id == w[p].id
           scope == LockScope(id)
           holder == [lock[scope] EXCEPT !.status = "held"]
           r == Afresh(p, "start")
<1>1. /\ w[p].pc = "hold" /\ id \in Identities /\ s \in Submissions
      /\ id.review = w[p].review /\ w[p] \in WorkerStates
  BY Running DEF Hold, Sound, Carries, IdentityPCs
<1>2. Plain(r)
  <2>1. /\ r \in WorkerStates /\ IsFiniteSet(r.seen) /\ r.sub = s /\ r.pc = "start"
        /\ r.id = id /\ r.review = w[p].review
    BY <1>1, FS_EmptySet DEF Afresh, WorkerStates, PCs, RegisterPCs
  <2> HIDE DEF r
  <2> QED
    BY <1>1, <2>1 DEF Plain, BoundPCs
<1>3. CASE w[p].lockFresh /\ ~w[p].held
  <2>1. HeldBy(s, id, {"acquiring"})
    BY <1>1, <1>3, Running DEF Sound, FreshLock
  <2>2. HeldBy(s, id, {"acquiring", "held", "releasing"})
    BY <2>1 DEF HeldBy
  <2>3. scope \in Scopes /\ holder \in Holders /\ Keeps(scope, holder)
    BY <1>1, <2>2, OwnerKeeps
  <2>4. WritesLock(p, scope, holder, r)
    BY <1>3 DEF Hold
  <2> HIDE DEF r, holder
  <2> QED
    BY <1>1, <1>2, <2>3, <2>4, PlainLockStep DEF Hold, Keeps
<1>4. CASE ~(w[p].lockFresh /\ ~w[p].held)
  <2>1. Destination(Raised(p)) /\ Destination(r)
    BY <1>1, <1>2, RaisedIsSafe, PlainIsSafe
  <2>2. Becomes(p, r) \/ Becomes(p, Raised(p))
    BY <1>4 DEF Hold
  <2> HIDE DEF r
  <2> QED
    BY <1>4, <2>1, <2>2, Quiet DEF Hold
<1> QED
  BY <1>3, <1>4

\* Acquire keeps the invariant.
LEMMA AcquireKeeps == ASSUME IInv, NEW p \in Workers, Acquire(p) PROVE IInv'
<1> DEFINE s == w[p].sub
           id == IF w[p].saved THEN w[p].id ELSE NewIdentity(s, w[p].review, w[p].seen)
           scope == LockScope(id)
           pc == IF w[p].saved THEN "hold" ELSE "save"
           held == lock[scope].status = "held"
           on == [Goto(p, pc) EXCEPT !.id = id, !.seen = {}, !.lockFresh = TRUE, !.held = held]
           holder == [sub |-> s, id |-> id, status |-> "acquiring"]
<1>1. /\ w[p].pc = "acquire" /\ s \in Submissions /\ w[p] \in WorkerStates
      /\ IsFiniteSet(w[p].seen) /\ Sound(w[p])
  BY Running DEF Acquire
<1>2. id \in Identities /\ id.review = w[p].review
  <2>1. CASE w[p].saved
    BY <1>1, <2>1 DEF Sound, Carries
  <2>2. CASE ~w[p].saved
    <3>1. w[p].review \in Reviews /\ w[p].seen \subseteq Entries /\ clock \in 0 .. MaxClock
      BY <1>1 DEF IInv, Inv, TypeOK, WorkerStates
    <3>2. /\ NewIdentity(s, w[p].review, w[p].seen) \in Identities
          /\ NewIdentity(s, w[p].review, w[p].seen).review = w[p].review
      BY <1>1, <3>1, NewIdentityType
    <3> QED
      BY <2>2, <3>2
  <2> QED
    BY <2>1, <2>2
<1>3. pc \in {"hold", "save"} /\ (pc = "save" => ~w[p].saved) /\ held \in BOOLEAN
  OBVIOUS
<1>4. \/ Becomes(p, Raised(p)) /\ UNCHANGED lock
      \/ Becomes(p, Idle) /\ UNCHANGED lock
      \/ Becomes(p, on) /\ HeldBy(s, id, {"acquiring", "held"}) /\ UNCHANGED lock
      \/ WritesLock(p, scope, holder, on) /\ lock[scope] = NoHolder
  BY DEF Acquire
<1>5. Destination(Raised(p)) /\ Destination(Idle)
  BY <1>1, RaisedIsSafe, IdleIsSafe
<1>6. scope \in Scopes
  BY <1>2, ScopeType
<1>7. holder \in Holders /\ holder.sub = s /\ holder.id = id /\ holder.status = "acquiring"
  BY <1>1, <1>2 DEF Holders
<1> HIDE DEF id, holder, pc
<1>8. /\ on \in WorkerStates /\ IsFiniteSet(on.seen) /\ on.sub = s /\ on.pc = pc
      /\ on.id = id /\ on.review = w[p].review /\ on.saved = w[p].saved /\ on.held = held
      /\ on.fresh = w[p].fresh
  <2>1. pc \in PCs
    BY <1>3 DEF PCs, RegisterPCs
  <2> HIDE DEF held
  <2> QED
    BY <1>1, <1>2, <1>3, <2>1, FS_EmptySet DEF Goto, WorkerStates
<1>9. w[p].fresh /\ ~w[p].saved => state[s].attempt = None
  BY <1>1 DEF Sound, FreshCopy
<1> HIDE DEF on
<1>10. CASE Becomes(p, on) /\ HeldBy(s, id, {"acquiring", "held"}) /\ UNCHANGED lock
  <2>1. on.held \/ HeldBy(s, id, {"acquiring"})
    BY <1>8, <1>10 DEF HeldBy
  <2>2. Sound(on)
    BY <1>1, <1>2, <1>3, <1>8, <1>9, <2>1
       DEF Sound, FreshCopy, FreshLock, Carries, AdvancePCs, ReleasePCs
  <2>3. Destination(on)
    BY <1>3, <1>8, <2>2 DEF Destination
  <2> QED
    BY <1>10, <2>3, Quiet DEF Acquire
<1>11. CASE WritesLock(p, scope, holder, on) /\ lock[scope] = NoHolder
  <2>1. Keeps(scope, holder)
    BY <1>11, NobodyHolds DEF Keeps
  <2>2. w'[p] = on /\ lock'[scope] = holder /\ state' = state
    BY <1>6, <1>11 DEF WritesLock, Acquire, IInv, Inv, TypeOK
  <2>3. Sound(w[p])'
    BY <1>1, <1>2, <1>3, <1>7, <1>8, <1>9, <2>2
       DEF Sound, FreshCopy, FreshLock, Carries, AdvancePCs, ReleasePCs, HeldBy
  <2> QED
    BY <1>3, <1>6, <1>7, <1>8, <1>11, <2>1, <2>3, SoundLockStep DEF Acquire
<1>12. CASE (Becomes(p, Raised(p)) \/ Becomes(p, Idle)) /\ UNCHANGED lock
  BY <1>5, <1>12, Quiet DEF Acquire
<1> QED
  BY <1>4, <1>10, <1>11, <1>12

\* Unlock keeps the invariant.
LEMMA UnlockKeeps == ASSUME IInv, NEW p \in Workers, Unlock(p) PROVE IInv'
<1> DEFINE s == w[p].sub
           id == w[p].id
           scope == LockScope(id)
           holder == [lock[scope] EXCEPT !.status = "releasing"]
           on == [Goto(p, "clear") EXCEPT !.lockFresh = TRUE]
<1>1. /\ w[p].pc = "unlock" /\ id \in Identities /\ s \in Submissions
      /\ w[p] \in WorkerStates
      /\ [id |-> id, phase |-> "registered"] \in state[s].uses
  BY Running DEF Unlock, Sound, Carries, IdentityPCs, AdvancePCs
<1>2. \/ Becomes(p, Raised(p)) /\ UNCHANGED lock
      \/ Becomes(p, on) /\ HeldBy(s, id, {"releasing"}) /\ UNCHANGED lock
      \/ WritesLock(p, scope, holder, on) /\ HeldBy(s, id, {"held"})
  BY DEF Unlock
<1>3. /\ on \in WorkerStates /\ IsFiniteSet(on.seen) /\ on.sub = s /\ on.pc = "clear"
      /\ on.id = id
  BY <1>1, Running DEF Goto, WorkerStates, PCs, AdvancePCs
<1> HIDE DEF on
<1>4. CASE Becomes(p, Raised(p)) /\ UNCHANGED lock
  BY <1>1, <1>4, RaisedIsSafe, Quiet DEF Unlock
<1>5. CASE Becomes(p, on) /\ HeldBy(s, id, {"releasing"}) /\ UNCHANGED lock
  <2>1. Destination(on)
    BY <1>1, <1>3, <1>5 DEF Destination, Sound, FreshCopy, FreshLock, Carries
  <2> QED
    BY <1>5, <2>1, Quiet DEF Unlock
<1>6. CASE WritesLock(p, scope, holder, on) /\ HeldBy(s, id, {"held"})
  <2>1. HeldBy(s, id, {"acquiring", "held", "releasing"})
    BY <1>6 DEF HeldBy
  <2>2. /\ scope \in Scopes /\ holder \in Holders /\ Keeps(scope, holder)
        /\ holder.sub = s /\ holder.id = id /\ holder.status = "releasing"
    <3>1. s \in Submissions /\ id \in Identities
      BY <1>1
    <3> QED
      BY <2>1, <3>1, OwnerKeeps
  <2> HIDE DEF holder
  <2>3. w'[p] = on /\ lock'[scope] = holder /\ state' = state
    BY <1>6, <2>2 DEF WritesLock, Unlock, IInv, Inv, TypeOK
  <2>4. Sound(w[p])'
    BY <1>1, <1>3, <2>2, <2>3 DEF Sound, FreshCopy, FreshLock, Carries, HeldBy
  <2> QED
    BY <1>3, <1>6, <2>2, <2>4, SoundLockStep DEF Unlock
<1> QED
  BY <1>2, <1>4, <1>5, <1>6

\* Clear keeps the invariant.
LEMMA ClearKeeps == ASSUME IInv, NEW p \in Workers, Clear(p) PROVE IInv'
<1> DEFINE s == w[p].sub
           id == w[p].id
           row == [id |-> id, phase |-> "registered"]
<1>1. /\ w[p].pc = "clear" /\ id \in Identities /\ s \in Submissions /\ row \in state[s].uses
  BY Running DEF Clear, Sound, Carries, IdentityPCs, AdvancePCs
<1>2. CASE w[p].lockFresh
  <2>1. HeldBy(s, id, {"releasing"})
    BY <1>1, <1>2, Running DEF Sound, FreshLock
  <2>2. state[s].uses = {row}
    BY <1>1 DEF IInv, Inv, PublicReviewConsented
  <2>3. ~Claimed(s, id)
    <3>1. ASSUME NEW q \in Workers, w[q].pc = "startWrite", w[q].fresh, w[q].sub = s
          PROVE  FALSE
      <4>1. state[s].uses = {}
        BY <3>1, Running DEF Sound, FreshCopy
      <4> QED
        BY <2>2, <4>1
    <3>2. row.phase = "registered"
      OBVIOUS
    <3> HIDE DEF row
    <3> QED
      BY <2>2, <3>1, <3>2 DEF Claimed
  <2>4. Keeps(LockScope(id), NoHolder)
    BY <1>1, <2>1, <2>3, FreeKeeps DEF HeldBy
  <2>5. WritesLock(p, LockScope(id), NoHolder, Idle)
    BY <1>2 DEF Clear
  <2> QED
    BY <1>1, <2>4, <2>5, IdleIsPlain, ScopeType, PlainLockStep DEF Clear, Keeps
<1>3. CASE ~w[p].lockFresh
  BY <1>1, <1>3, RaisedIsSafe, Quiet DEF Clear
<1> QED
  BY <1>2, <1>3

-----------------------------------------------------------------------------
(* The invariant *)

\* The invariant holds initially.
LEMMA InitHolds == Init => IInv
<1> SUFFICES ASSUME Init PROVE IInv
  OBVIOUS
<1> USE DEF Init
<1>1. TypeOK
  <2>1. Idle \in WorkerStates
    BY IdleType
  <2>2. 0 \in 0 .. MaxClock /\ 0 \in 0 .. MaxFaults /\ 0 \in 0 .. AttemptLimit /\ 1 \in Reviews
    BY ConstantsAssumption DEF ConstantsAssumption, Reviews
  <2>3. state \in [Submissions -> Records]
    BY <2>2 DEF Records
  <2> QED
    BY <2>1, <2>2, <2>3 DEF TypeOK
<1>2. Finite
  BY FS_EmptySet, IdleType DEF Finite
<1>3. PublicReviewConsented /\ PublicHoldsLock /\ PublicIsRecorded
  BY DEF PublicReviewConsented, PublicHoldsLock, PublicIsRecorded
<1>4. \A p \in Workers : Sound(w[p])
  BY IdleIsSafe DEF Destination
<1>5. \A p, q \in Workers : ~Clash(w[p], w[q])
  BY DEF Clash, Idle
<1> QED
  BY <1>1, <1>2, <1>3, <1>4, <1>5 DEF IInv, Inv

\* Every step of every worker keeps the invariant.
LEMMA WorkerKeeps ==
    ASSUME IInv, NEW p \in Workers, Step(p) \/ Crash(p) \/ Raise(p) \/ LoseAnswer(p)
    PROVE  IInv'
<1>1. CASE Register(p)
  BY <1>1, RecoverKeeps, ReopenKeeps, RecheckpointKeeps, ValidateKeeps, CloneKeeps,
     AllocateKeeps, AcquireKeeps, SaveAttemptKeeps, DiscardKeeps, HoldKeeps, StartKeeps,
     StartWriteKeeps, PublishKeeps, PublishedKeeps, PublishedWriteKeeps, PushKeeps,
     OpenPRKeeps, CheckpointKeeps, RecordFailureKeeps DEF Register
<1>2. CASE Release(p)
  BY <1>2, RelLockKeeps, RelStateKeeps, RelClearKeeps DEF Release
<1>3. CASE Advance(p)
  BY <1>3, AwaitKeeps, ReadConsentKeeps, MergeKeeps, FinalizeCheckKeeps, FinalizeWriteKeeps,
     UnlockKeeps, ClearKeeps DEF Advance
<1>4. CASE Deliver(p) \/ Requeue(p)
  BY <1>4, DeliverReadKeeps, WriteReviewKeeps, DeliverWriteKeeps, RequeueKeeps DEF Deliver
<1> QED
  BY <1>1, <1>2, <1>3, <1>4, CrashKeeps, RaiseKeeps, LoseAnswerKeeps DEF Step

\* Every step keeps the invariant.
LEMMA NextKeeps == IInv /\ [Next]_vars => IInv'
<1> SUFFICES ASSUME IInv, [Next]_vars PROVE IInv'
  OBVIOUS
<1>1. ASSUME NEW p \in Workers, NEW s \in Submissions, Begin(p, s) PROVE IInv'
  BY <1>1, BeginRegisterKeeps, BeginAdvanceKeeps, BeginFinalizeKeeps, BeginRetryKeeps,
     BeginReviewKeeps, BeginRunKeeps DEF Begin
<1>2. ASSUME NEW s \in Submissions, GiveConsent(s) \/ Withdraw(s) \/ CoolOff(s) PROVE IInv'
  BY <1>2, GiveConsentKeeps, WithdrawKeeps, CoolOffKeeps
<1>3. CASE UNCHANGED vars
  <2>1. TypeOK' /\ Finite'
    BY <1>3 DEF vars, IInv, Inv, TypeOK, Finite
  <2>2. PublicReviewConsented' /\ PublicHoldsLock' /\ PublicIsRecorded'
    BY <1>3 DEF vars, IInv, Inv, PublicReviewConsented, PublicHoldsLock, PublicIsRecorded, HeldBy
  <2>3. \A p \in Workers : Sound(w[p])'
    BY <1>3 DEF vars, IInv, Inv, Sound, FreshCopy, FreshLock, Carries, HeldBy
  <2>4. \A p, q \in Workers : ~Clash(w[p], w[q])'
    BY <1>3 DEF vars, IInv, Inv, Clash
  <2> QED
    BY <2>1, <2>2, <2>3, <2>4 DEF IInv, Inv
<1> QED
  BY <1>1, <1>2, <1>3, WorkerKeeps, TickKeeps DEF Next

\* The inductive invariant holds always, for any number of submissions, workers
\* and faults: what each worker's copies say is true while they are live.
THEOREM Invariance == Spec => []IInv
BY InitHolds, NextKeeps, PTL DEF Spec

\* Type correctness: whatever crashes or fails, every file and every worker is
\* in a state the program knows.
THEOREM TypeCorrect == Spec => []TypeOK
<1>1. IInv => TypeOK
  BY DEF IInv, Inv
<1> QED
  BY <1>1, Invariance, PTL

\* Nothing becomes public in the archive without a record that says so: a crash
\* after publication leaves the evidence a later run needs.
THEOREM ArchiveIsRecorded == Spec => []PublicIsRecorded
<1>1. IInv => PublicIsRecorded
  BY DEF IInv, Inv
<1> QED
  BY <1>1, Invariance, PTL

\* Whoever has a public identity that is not registered holds its lock: no
\* release, discard or clearance ever frees it, with any number of workers.
THEOREM PublicKeepsItsLock == Spec => []PublicHoldsLock
<1>1. IInv => PublicHoldsLock
  BY DEF IInv, Inv
<1> QED
  BY <1>1, Invariance, PTL

\* What is public is the attempt made for the review that is delivered and
\* consented to, and it is the only one.
THEOREM PublicIsConsented == Spec => []PublicReviewConsented
<1>1. IInv => PublicReviewConsented
  BY DEF IInv, Inv
<1> QED
  BY <1>1, Invariance, PTL

-----------------------------------------------------------------------------
(* What no step takes back *)

\* A record that leaves the rows alone, or had none.
LEMMA RowsGoOn ==
    ASSUME IInv, NEW s \in Submissions,
           state'[s].uses = state[s].uses \/ state[s].uses = {}
    PROVE  \A row \in state[s].uses : \E next \in state'[s].uses :
             next.id = row.id /\ next.phase \in Onwards(row.phase)
<1> SUFFICES ASSUME NEW row \in state[s].uses
             PROVE  \E next \in state'[s].uses :
                      next.id = row.id /\ next.phase \in Onwards(row.phase)
  OBVIOUS
<1>1. row.phase \in Phases
  BY DEF IInv, Inv, TypeOK, Records
<1>2. row.phase \in Onwards(row.phase)
  BY <1>1 DEF Phases, Onwards
<1> QED
  BY <1>2

\* Every step but the three that write a public row leaves the rows alone.
SameRows == \A s \in Submissions : state'[s].uses = state[s].uses

\* A registration writes public rows in two steps only.
LEMMA RegisterRows ==
    ASSUME IInv, NEW p \in Workers, Register(p), ~StartWrite(p), ~PublishedWrite(p)
    PROVE  SameRows
<1> USE DEF SameRows
<1>1. state \in [Submissions -> Records]
  BY DEF IInv, Inv, TypeOK
<1>2. CASE Recheckpoint(p) \/ Checkpoint(p)
  BY <1>1, <1>2 DEF Recheckpoint, Checkpoint, WritesRecord, Records
<1>3. CASE Validate(p)
  <2> DEFINE s == w[p].sub
             n == IF state[s].attempts < AttemptLimit THEN state[s].attempts + 1
                  ELSE state[s].attempts
             record == [state[s] EXCEPT !.attempts = n, !.cooling = FALSE]
  <2>1. state' = [state EXCEPT ![s] = record] \/ UNCHANGED state
    BY <1>3 DEF Validate, WritesRecord
  <2> HIDE DEF n
  <2>2. s \in Submissions => record.uses = state[s].uses
    BY <1>1 DEF Records
  <2> HIDE DEF record
  <2> QED
    BY <1>1, <2>1, <2>2
<1>4. CASE SaveAttempt(p)
  BY <1>1, <1>4 DEF SaveAttempt, WritesRecord, Records
<1>5. CASE RecordFailure(p)
  <2> DEFINE s == w[p].sub
             paused == w[p].pc = "failDet" \/ state[s].attempts = AttemptLimit
             cooling == ~paused
             status == IF paused THEN "registration-paused" ELSE state[s].status
             record == [state[s] EXCEPT !.status = status, !.cooling = cooling]
  <2>1. state' = [state EXCEPT ![s] = record] \/ UNCHANGED state
    BY <1>5 DEF RecordFailure, WritesRecord
  <2> HIDE DEF paused, cooling, status
  <2>2. s \in Submissions => record.uses = state[s].uses
    BY <1>1 DEF Records
  <2> HIDE DEF record
  <2> QED
    BY <1>1, <2>1, <2>2
<1>6. CASE \/ Recover(p) \/ Reopen(p) \/ Clone(p) \/ Allocate(p) \/ Acquire(p) \/ Discard(p)
           \/ Hold(p) \/ Start(p) \/ Publish(p) \/ Published(p) \/ Push(p) \/ OpenPR(p)
  BY <1>6 DEF Recover, Reopen, Clone, Allocate, Acquire, Discard, Hold, Start, Publish,
     Published, Push, OpenPR, WritesLock
<1> QED
  BY <1>2, <1>3, <1>4, <1>5, <1>6 DEF Register

\* Release, advance, delivery, failure and start write none but at the end of finalize.
LEMMA OtherRows ==
    ASSUME IInv, NEW p \in Workers,
           \/ Release(p) \/ (Advance(p) /\ ~FinalizeWrite(p)) \/ Deliver(p) \/ Requeue(p)
           \/ Crash(p) \/ Raise(p) \/ LoseAnswer(p)
           \/ \E s \in Submissions : Begin(p, s)
    PROVE  SameRows
<1> USE DEF SameRows
<1>1. state \in [Submissions -> Records]
  BY DEF IInv, Inv, TypeOK
<1>2. CASE Release(p)
  BY <1>1, <1>2 DEF Release, RelLock, RelState, RelClear, WritesRecord, WritesLock, Records
<1>3. CASE Advance(p) /\ ~FinalizeWrite(p)
  BY <1>3 DEF Advance, Await, ReadConsent, Merge, FinalizeCheck, Unlock, Clear, WritesLock
<1>4. CASE Deliver(p) \/ Requeue(p)
  <2>1. CASE DeliverRead(p) \/ WriteReview(p)
    BY <2>1 DEF DeliverRead, WriteReview
  <2> DEFINE s == w[p].sub
             back == [state[s] EXCEPT !.status = "review-ready", !.review = w[p].review,
                                      !.consent = None, !.attempt = None]
             again == [state[s] EXCEPT !.status = "review-ready", !.attempts = 0,
                                       !.cooling = FALSE]
  <2>2. s \in Submissions => back.uses = state[s].uses /\ again.uses = state[s].uses
    BY <1>1 DEF Records
  <2>3. CASE DeliverWrite(p) \/ Requeue(p)
    <3>1. \/ UNCHANGED state
          \/ state' = [state EXCEPT ![s] = back]
          \/ state' = [state EXCEPT ![s] = again]
      BY <2>3 DEF DeliverWrite, Requeue, WritesRecord
    <3> HIDE DEF back, again
    <3> QED
      BY <1>1, <2>2, <3>1
  <2> QED
    BY <1>4, <2>1, <2>3 DEF Deliver
<1>5. CASE Crash(p) \/ Raise(p) \/ LoseAnswer(p)
  BY <1>1, <1>5 DEF Crash, Raise, LoseAnswer, WritesRecord, Records
<1>6. CASE \E s \in Submissions : Begin(p, s)
  <2>1. PICK s \in Submissions : Begin(p, s)
    BY <1>6
  <2>2. CASE BeginReview(p, s)
    BY <1>1, <2>2 DEF BeginReview, WritesRecord, Records
  <2> QED
    BY <2>1, <2>2 DEF Begin, BeginRegister, BeginAdvance, BeginFinalize, BeginRetry, BeginRun
<1> QED
  BY <1>2, <1>3, <1>4, <1>5, <1>6

\* Nor does the world.
LEMMA EnvironmentRows ==
    ASSUME IInv, \/ \E s \in Submissions : GiveConsent(s) \/ Withdraw(s) \/ CoolOff(s)
                 \/ Tick \/ UNCHANGED vars
    PROVE  SameRows
<1> USE DEF SameRows
<1>1. state \in [Submissions -> Records]
  BY DEF IInv, Inv, TypeOK
<1>2. ASSUME NEW s \in Submissions, GiveConsent(s) \/ Withdraw(s) PROVE SameRows
  BY <1>1, <1>2 DEF GiveConsent, Withdraw, SubmitterWrites, Records
<1>3. ASSUME NEW s \in Submissions, CoolOff(s) PROVE SameRows
  BY <1>1, <1>3 DEF CoolOff, Records
<1>4. CASE Tick \/ UNCHANGED vars
  BY <1>4 DEF Tick, vars
<1> QED
  BY <1>2, <1>3, <1>4

\* The three steps that write public rows move one on and keep the others.
LEMMA MovedRowsGoOn ==
    ASSUME IInv, NEW p \in Workers, StartWrite(p) \/ PublishedWrite(p) \/ FinalizeWrite(p),
           NEW s \in Submissions, NEW row \in state[s].uses
    PROVE  \E next \in state'[s].uses : next.id = row.id /\ next.phase \in Onwards(row.phase)
<1> DEFINE t == w[p].sub
           id == w[p].id
<1>1. t \in Submissions /\ Sound(w[p]) /\ state[s] \in Records /\ state[t] \in Records
  BY Running DEF StartWrite, PublishedWrite, FinalizeWrite, IInv, Inv, TypeOK
<1>2. CASE s # t \/ ~w[p].fresh
  <2>1. state'[s].uses = state[s].uses
    BY <1>1, <1>2 DEF StartWrite, PublishedWrite, FinalizeWrite, WritesRecord, IInv, Inv, TypeOK
  <2> QED
    BY <2>1, RowsGoOn
<1>3. CASE s = t /\ w[p].fresh /\ StartWrite(p)
  BY <1>1, <1>3 DEF StartWrite, Sound, FreshCopy
<1>4. CASE s = t /\ w[p].fresh /\ PublishedWrite(p)
  <2>1. [id |-> id, phase |-> "publication-started"] \in state[s].uses
    BY <1>1, <1>4 DEF PublishedWrite, Sound, FreshCopy
  <2>2. row = [id |-> id, phase |-> "publication-started"]
    BY <2>1 DEF IInv, Inv, PublicReviewConsented
  <2>3. row.id = id /\ row.phase = "publication-started"
    BY <2>2
  <2>4. InPhase(state[s], id, "published").uses = {[id |-> id, phase |-> "published"]}
    BY <2>3, MovedRowRespects DEF Phases
  <2>5. state'[s] = InPhase(state[s], id, "published")
    BY <1>1, <1>4 DEF PublishedWrite, WritesRecord, IInv, Inv, TypeOK
  <2>6. [id |-> id, phase |-> "published"] \in state'[s].uses
    BY <2>4, <2>5
  <2> QED
    BY <2>3, <2>6 DEF Onwards, Phases
<1>5. CASE s = t /\ w[p].fresh /\ FinalizeWrite(p)
  <2>1. row.id = id
    BY <1>1, <1>5 DEF FinalizeWrite, Sound, FreshCopy, IInv, Inv, PublicReviewConsented
  <2>2. /\ InPhase(state[s], id, "registered") \in Records
        /\ InPhase(state[s], id, "registered").uses = {[id |-> id, phase |-> "registered"]}
    BY <2>1, MovedRowRespects DEF Phases
  <2>3. state'[s] = [InPhase(state[s], id, "registered") EXCEPT !.status = "registered"]
    BY <1>1, <1>5 DEF FinalizeWrite, WritesRecord, IInv, Inv, TypeOK
  <2>4. [id |-> id, phase |-> "registered"] \in state'[s].uses
    BY <2>2, <2>3 DEF Records
  <2>5. row.phase \in Phases
    BY <1>1 DEF Records
  <2> QED
    BY <2>1, <2>4, <2>5 DEF Onwards, Phases
<1> QED
  BY <1>2, <1>3, <1>4, <1>5

\* The rows of every record go on.
GoesOn ==
    \A s \in Submissions : \A row \in state[s].uses :
        \E next \in state'[s].uses : next.id = row.id /\ next.phase \in Onwards(row.phase)

\* No step drops a public row or moves it back.
LEMMA StepsGoOn == IInv /\ [Next]_vars => GoesOn
<1> SUFFICES ASSUME IInv, [Next]_vars PROVE GoesOn
  OBVIOUS
<1>1. ASSUME SameRows PROVE GoesOn
  BY <1>1, RowsGoOn DEF SameRows, GoesOn
<1>2. ASSUME NEW p \in Workers, StartWrite(p) \/ PublishedWrite(p) \/ FinalizeWrite(p)
      PROVE  GoesOn
  BY <1>2, MovedRowsGoOn DEF GoesOn
<1>3. ASSUME NEW p \in Workers, Step(p) \/ Crash(p) \/ Raise(p) \/ LoseAnswer(p) PROVE GoesOn
  BY <1>1, <1>2, <1>3, RegisterRows, OtherRows DEF Step
<1>4. ASSUME NEW p \in Workers, NEW s \in Submissions, Begin(p, s) PROVE GoesOn
  BY <1>1, <1>4, OtherRows
<1> QED
  BY <1>1, <1>3, <1>4, EnvironmentRows DEF Next

\* No step of any worker, however old the copies it acts on, drops or moves back
\* the evidence that an identity is public.
THEOREM EvidenceIsPermanent == Spec => PublicIsPermanent
<1>1. IInv /\ [Next]_vars => [GoesOn]_vars
  BY StepsGoOn
<1> QED
  BY <1>1, Invariance, PTL DEF Spec, PublicIsPermanent, GoesOn
=============================================================================
