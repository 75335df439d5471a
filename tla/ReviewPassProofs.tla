-------------------------- MODULE ReviewPassProofs --------------------------
(***************************************************************************)
(* What a review pass may do to the record whatever number of passes run   *)
(* and die: it never overwrites a decision, never starts more reviews than *)
(* were counted, nor one before its source was rendered; and as long as    *)
(* passes do not overlap it neither forgets a render request nor pays for  *)
(* it more often than its limit says.                                      *)
(***************************************************************************)
EXTENDS ReviewPass, FiniteSetTheorems, SequenceTheorems, TLAPS

\* A run that a request pins exists and is listed.
PinnedIn(request, rs) ==
    request # None /\ request.run # 0 =>
        /\ request.run \in DOMAIN rs[request.id]
        /\ rs[request.id][request.run] # "unlisted"

\* What a pass x may rely on where it stands, given the record r and the runs rs.
SoundAt(x, r, rs) ==
    /\ x.fresh => r.status \notin Stopped
    /\ x.pc \in {"render", "dispatch"} => x.pending # None
    /\ PinnedIn(x.pending, rs)
    /\ x.receipt => rendered
    /\ x.pc \in {"accept", "begin", "dry", "apply", "deliver"} => rendered
    /\ x.pc = "begin" /\ x.fresh => r.request = None /\ r.receipt
    /\ x.pc = "settle" => x.error # "none"

\* The same request, however long ago it was dispatched.
Same(a, b) == a.id = b.id /\ a.run = b.run /\ a.dispatches = b.dispatches

OverIn(request, rs) ==
    \/ \E i \in DOMAIN rs[request.id] : rs[request.id][i] \in Verdicts
    \/ request.dispatches = DispatchLimit

\* What it may rely on if no other pass runs: the request it goes by is the saved one,
\* a verdict that it is about to settle is one on that, and every run was counted.
AloneAt(x, r, rs) ==
    /\ x.pc \in {"render", "dispatch"} => r.request # None /\ Same(r.request, x.pending)
    /\ x.pc = "settle" /\ x.error \in {"finished", "submitter"} /\ r.request # None
         => OverIn(r.request, rs)
    /\ r.request # None =>
         Len(rs[r.request.id]) + (IF x.pc = "dispatch" THEN 1 ELSE 0) <= r.request.dispatches

\* Passes that may yet begin a review, and those about to start an engine.
LanePcs == {"gate", "prepare", "save", "render", "dispatch", "accept", "begin"}
Lane == {p \in Workers : w[p].pc \in LanePcs}
Dry == {p \in Workers : w[p].pc = "dry"}

Counted ==
    /\ engines + Cardinality(Dry) <= record.attempts
    /\ record.attempts + Cardinality(Lane) < AttemptLimit + Cardinality(Workers)

RecordSound ==
    /\ PinnedIn(record.request, runs)
    /\ record.receipt => rendered
    /\ engines > 0 => rendered

RunsSound ==
    /\ \A id \in RequestIds : \A i \in DOMAIN runs[id] : runs[id][i] = "success" => rendered
    /\ \A id \in UnknownIds : runs[id] = <<>>

AllSound == \A p \in Workers : SoundAt(w[p], record, runs)
AllAlone == Alone => \A p \in Workers : AloneAt(w[p], record, runs)

IInv ==
    /\ TypeOK /\ RecordSound /\ RunsSound /\ AllSound /\ Counted
    /\ AllAlone /\ DispatchesBounded

\* A step that starts no engine and no run.
Calm == RunsOf(0, <<>>) /\ faults' \in 0..MaxFaults /\ UNCHANGED <<engines, rendered>>

-----------------------------------------------------------------------------
\* What the invariant says of the pass p.
LEMMA Here ==
  ASSUME IInv, NEW p \in Workers
  PROVE  /\ w \in [Workers -> Passes] /\ w[p] \in Passes
         /\ record \in Records /\ record.attempts \in Nat
         /\ record.request \in Requests \cup {None}
         /\ SoundAt(w[p], record, runs)
         /\ Alone => AloneAt(w[p], record, runs)
  <1>1. w \in [Workers -> Passes] /\ record \in Records
    BY DEF IInv, TypeOK
  <1>2. SoundAt(w[p], record, runs) /\ (Alone => AloneAt(w[p], record, runs))
    BY DEF IInv, AllSound, AllAlone
  <1> QED BY <1>1, <1>2 DEF Records

\* Types of what a step may leave.
LEMMA Counters ==
  ASSUME IInv
  PROVE  /\ faults \in 0..MaxFaults /\ engines \in Nat /\ rendered \in BOOLEAN
         /\ runs \in [RequestIds -> Seq(Runs)]
         /\ faults < MaxFaults /\ faults' = faults + 1 => faults' \in 0..MaxFaults
  BY ReviewAssumption DEF IInv, TypeOK

\* Numbers of runs and of dispatches.
LEMMA Lens ==
  ASSUME IInv
  PROVE  /\ \A id \in RequestIds : Len(runs[id]) \in Nat
         /\ \A request \in Requests : /\ request.id \in RequestIds /\ request.dispatches \in Nat
                                      /\ request.dispatches <= DispatchLimit
                                      /\ Len(runs[request.id]) \in Nat
         /\ record.request \in Requests \cup {None}
  <1>1. \A id \in RequestIds : Len(runs[id]) \in Nat
    BY LenProperties DEF IInv, TypeOK
  <1>2. record.request \in Requests \cup {None}
    BY DEF IInv, TypeOK, Records
  <1> QED BY <1>1, <1>2, ReviewAssumption DEF Requests

\* The runs of the saved request were counted, whatever the pass is about to dispatch.
LEMMA LensAlone ==
  ASSUME IInv, NEW x, AloneAt(x, record, runs), record.request # None
  PROVE  Len(runs[record.request.id]) <= record.request.dispatches
  <1> DEFINE n == Len(runs[record.request.id])  d == record.request.dispatches
  <1>1. n \in Nat /\ d \in Nat
    BY Lens
  <1>2. n + (IF x.pc = "dispatch" THEN 1 ELSE 0) <= d
    BY DEF AloneAt
  <1> HIDE DEF n, d
  <1>3. n <= d
    BY <1>1, <1>2
  <1> QED BY <1>3 DEF n, d

\* Cardinalities of sets of passes.
LEMMA PassesFinite ==
  ASSUME NEW S \in SUBSET Workers
  PROVE  /\ IsFiniteSet(S) /\ Cardinality(S) \in Nat /\ Cardinality(S) <= Cardinality(Workers)
         /\ Cardinality(Workers) \in Nat
  BY ReviewAssumption, FS_Subset, FS_CardinalityType

\* A request that somebody knows keeps its runs; the others are forgotten.
LEMMA KnownRuns ==
  ASSUME IInv, RunsOf(0, <<>>)
  PROVE  /\ runs' \in [RequestIds -> Seq(Runs)]
         /\ \A id \in RequestIds : id \notin UnknownIds' => runs'[id] = runs[id]
         /\ \A id \in RequestIds : id \in UnknownIds' => runs'[id] = <<>>
  <1>1. runs' = [i \in RequestIds |->
                   IF i \in UnknownIds' THEN <<>> ELSE IF i = 0 THEN <<>> ELSE runs[i]]
    BY DEF RunsOf
  <1>2. \A i \in RequestIds : i # 0
    BY DEF RequestIds
  <1>3. <<>> \in Seq(Runs) /\ runs \in [RequestIds -> Seq(Runs)]
    BY Counters
  <1>4. \A i \in RequestIds : runs'[i] = IF i \in UnknownIds' THEN <<>> ELSE runs[i]
    BY <1>1, <1>2
  <1> QED BY <1>1, <1>3, <1>4

\* Fewer passes are on their way to a review, and no more about to start an engine.
LEMMA FewerOnTheWay ==
  ASSUME IInv, engines' = engines, record'.attempts = record.attempts,
         \A q \in Workers : w'[q].pc \in LanePcs => w[q].pc \in LanePcs,
         \A q \in Workers : w'[q].pc = "dry" => w[q].pc = "dry"
  PROVE  Counted'
  <1>1. Lane' \subseteq Lane /\ Dry' \subseteq Dry
    BY DEF Lane, Dry
  <1>2. Lane \in SUBSET Workers /\ Dry \in SUBSET Workers
    BY DEF Lane, Dry
  <1>3. IsFiniteSet(Lane) /\ IsFiniteSet(Dry)
    BY <1>2, PassesFinite
  <1>4. Cardinality(Lane') <= Cardinality(Lane) /\ Cardinality(Dry') <= Cardinality(Dry)
    BY <1>1, <1>3, FS_Subset
  <1>5. /\ Cardinality(Lane) \in Nat /\ Cardinality(Dry) \in Nat /\ Cardinality(Workers) \in Nat
        /\ Cardinality(Lane') \in Nat /\ Cardinality(Dry') \in Nat
    BY <1>1, <1>2, PassesFinite
  <1>6. record.attempts \in Nat /\ engines \in Nat /\ AttemptLimit \in Nat
    BY ReviewAssumption DEF IInv, TypeOK, Records
  <1> QED BY <1>4, <1>5, <1>6 DEF IInv, Counted

\* A step of passes and of the record which starts no engine and no run.
LEMMA Moves ==
  ASSUME IInv, record' \in Records, w' \in [Workers -> Passes],
         Calm,
         PinnedIn(record'.request, runs), record'.receipt => rendered,
         \A p \in Workers : SoundAt(w'[p], record', runs),
         Counted',
         Alone => \A p \in Workers : AloneAt(w'[p], record', runs)
  PROVE  IInv'
  <1>1. /\ runs' \in [RequestIds -> Seq(Runs)]
        /\ \A id \in RequestIds : id \notin UnknownIds' => runs'[id] = runs[id]
        /\ \A id \in RequestIds : id \in UnknownIds' => runs'[id] = <<>>
    BY KnownRuns DEF Calm
  <1>2. record'.request # None => record'.request.id \in RequestIds \ UnknownIds'
    <2>1. record'.request \in Requests \cup {None}
      BY DEF Records
    <2> QED BY <2>1 DEF Requests, UnknownIds, Named
  <1>3. ASSUME NEW p \in Workers, w'[p].pending # None
        PROVE  w'[p].pending.id \in RequestIds \ UnknownIds'
    <2>1. w'[p].pending \in Requests \cup {None}
      BY DEF Passes
    <2>2. w'[p].pending.id \in UNION {Named(w'[q].pending) : q \in Workers}
      BY <1>3 DEF Named
    <2> QED BY <1>3, <2>1, <2>2 DEF Requests, UnknownIds
  <1>4. TypeOK'
    BY <1>1, Counters DEF TypeOK, Calm
  <1>5. RecordSound'
    BY <1>1, <1>2 DEF IInv, RecordSound, PinnedIn, Calm
  <1>6. RunsSound'
    <2>1. ASSUME NEW id \in RequestIds, NEW i \in DOMAIN runs'[id], runs'[id][i] = "success"
          PROVE  rendered'
      <3>1. CASE id \in UnknownIds'
        BY <1>1, <2>1, <3>1
      <3>2. CASE id \notin UnknownIds'
        BY <1>1, <2>1, <3>2 DEF IInv, RunsSound, Calm
      <3> QED BY <3>1, <3>2
    <2>2. \A id \in UnknownIds' : runs'[id] = <<>>
      BY <1>1 DEF UnknownIds
    <2> QED BY <2>1, <2>2 DEF RunsSound
  <1>7. ASSUME NEW p \in Workers PROVE SoundAt(w[p], record, runs)'
    <2>1. SoundAt(w'[p], record', runs)
      OBVIOUS
    <2>2. PinnedIn(w'[p].pending, runs')
      BY <1>1, <1>3, <2>1 DEF SoundAt, PinnedIn
    <2> QED BY <2>1, <2>2 DEF SoundAt, Calm
  <1>8. ASSUME Alone, NEW p \in Workers PROVE AloneAt(w[p], record, runs)'
    <2>1. AloneAt(w'[p], record', runs)
      BY <1>8
    <2>2. record'.request # None => runs'[record'.request.id] = runs[record'.request.id]
      BY <1>1, <1>2
    <2> QED BY <2>1, <2>2 DEF AloneAt, OverIn
  <1>9. DispatchesBounded'
    <2>1. ASSUME Alone, NEW id \in RequestIds PROVE Len(runs'[id]) <= DispatchLimit
      <3>1. CASE id \in UnknownIds'
        BY <1>1, <3>1, ReviewAssumption
      <3>2. CASE id \notin UnknownIds'
        BY <1>1, <2>1, <3>2 DEF IInv, DispatchesBounded
      <3> QED BY <3>1, <3>2
    <2> QED BY <2>1 DEF DispatchesBounded
  <1>10. Alone' <=> Alone
    BY DEF Alone
  <1> QED BY <1>4, <1>5, <1>6, <1>7, <1>8, <1>9, <1>10 DEF IInv, AllSound, AllAlone

\* The pass p goes on as v, and nothing else moves.
LEMMA Goes ==
  ASSUME IInv, NEW p \in Workers, NEW v \in Passes, GoAs(p, v),
         Calm,
         SoundAt(v, record, runs), Alone => AloneAt(v, record, runs),
         \/ Counted'
         \/ /\ v.pc \in LanePcs => w[p].pc \in LanePcs
            /\ v.pc = "dry" => w[p].pc = "dry"
  PROVE  IInv'
  <1>1. w' = [w EXCEPT ![p] = v] /\ record' = record /\ w \in [Workers -> Passes]
    BY Here DEF GoAs
  <1>2. w' \in [Workers -> Passes] /\ w'[p] = v /\ \A q \in Workers \ {p} : w'[q] = w[q]
    BY <1>1
  <1>3. Counted'
    <2>1. CASE (v.pc \in LanePcs => w[p].pc \in LanePcs) /\ (v.pc = "dry" => w[p].pc = "dry")
      BY <1>1, <1>2, <2>1, FewerOnTheWay DEF Calm
    <2> QED BY <2>1
  <1>4. ASSUME NEW q \in Workers PROVE SoundAt(w'[q], record', runs)
    BY <1>1, <1>2, Here
  <1>5. ASSUME Alone, NEW q \in Workers PROVE AloneAt(w'[q], record', runs)
    BY <1>1, <1>2, <1>5 DEF Alone
  <1>6. PinnedIn(record'.request, runs) /\ (record'.receipt => rendered)
    BY <1>1 DEF IInv, RecordSound
  <1>7. record' \in Records
    BY <1>1, Here
  <1> QED BY <1>2, <1>3, <1>4, <1>5, <1>6, <1>7, Moves

\* The pass p writes new over the record and goes on as v: the other copies are outdated.
LEMMA Writes ==
  ASSUME IInv, NEW p \in Workers, NEW new \in Records, NEW v \in Passes, WriteAs(p, new, v),
         Calm,
         PinnedIn(new.request, runs), new.receipt => rendered,
         SoundAt(v, new, runs), Alone => AloneAt(v, new, runs),
         \/ Counted'
         \/ /\ new.attempts = record.attempts
            /\ v.pc \in LanePcs => w[p].pc \in LanePcs
            /\ v.pc = "dry" => w[p].pc = "dry"
  PROVE  IInv'
  <1>1. /\ record' = new
        /\ w' = [q \in Workers |-> IF q = p THEN v ELSE [w[q] EXCEPT !.fresh = FALSE]]
    BY DEF WriteAs
  <1>2. w'[p] = v
    BY <1>1
  <1>3. ASSUME NEW q \in Workers \ {p}
        PROVE  /\ w'[q] \in Passes /\ w'[q].pc = w[q].pc /\ SoundAt(w'[q], record', runs)
    <2> DEFINE x == w[q]  y == [x EXCEPT !.fresh = FALSE]
    <2>1. x \in Passes /\ SoundAt(x, record, runs) /\ w'[q] = y
      BY <1>1, Here
    <2> HIDE DEF x
    <2>2. y \in Passes /\ ~y.fresh /\ y.pc = x.pc /\ y.pending = x.pending /\ (y.receipt <=> x.receipt)
          /\ y.error = x.error
      BY <2>1 DEF Passes
    <2> HIDE DEF y
    <2>3. SoundAt(y, record', runs)
      BY <2>1, <2>2 DEF SoundAt
    <2> QED BY <2>1, <2>2, <2>3 DEF x
  <1>4. w' \in [Workers -> Passes]
    BY <1>1, <1>2, <1>3
  <1>5. Counted'
    <2>1. CASE /\ new.attempts = record.attempts
               /\ v.pc \in LanePcs => w[p].pc \in LanePcs
               /\ v.pc = "dry" => w[p].pc = "dry"
      BY <1>1, <1>2, <1>3, <2>1, FewerOnTheWay DEF Calm
    <2> QED BY <2>1
  <1>6. ASSUME NEW q \in Workers PROVE SoundAt(w'[q], record', runs)
    BY <1>1, <1>2, <1>3
  <1>7. ASSUME Alone, NEW q \in Workers PROVE AloneAt(w'[q], record', runs)
    BY <1>1, <1>2, <1>7 DEF Alone
  <1> QED BY <1>1, <1>4, <1>5, <1>6, <1>7, Moves

\* A pass that goes by no request relies on little.
LEMMA AtRest ==
  ASSUME IInv, NEW p \in Workers, Alone, NEW new, new.request \in {record.request, None},
         NEW x, x.pc \notin {"render", "dispatch"},
         x.pc = "settle" /\ x.error \in {"finished", "submitter"} /\ new.request # None
           => OverIn(new.request, runs)
  PROVE  AloneAt(x, new, runs)
  <1> DEFINE n == Len(runs[new.request.id])  d == new.request.dispatches
  <1>1. ASSUME new.request # None
        PROVE  n \in Nat /\ d \in Nat /\ n <= d
    <2>1. new.request = record.request /\ record.request # None
      BY <1>1
    <2>2. AloneAt(w[p], record, runs)
      BY Here
    <2>3. record.request \in Requests
      BY <2>1, Lens
    <2> QED BY <2>1, <2>2, <2>3, Lens, LensAlone
  <1> DEFINE k == IF x.pc = "dispatch" THEN 1 ELSE 0
  <1>2. k = 0
    OBVIOUS
  <1>3. new.request # None => n + k <= d
    <2> HIDE DEF n, d, k
    <2> QED BY <1>1, <1>2
  <1> QED BY <1>3 DEF AloneAt

\* A pass may always stop.
LEMMA Idles ==
  ASSUME IInv, NEW p \in Workers, GoAs(p, Idle),
         Calm
  PROVE  IInv'
  <1>1. Idle \in Passes
    BY DEF Idle, Passes, Pcs, Errors
  <1>2. /\ Idle.pc = "idle" /\ ~Idle.fresh /\ Idle.pending = None /\ ~Idle.receipt
    BY DEF Idle
  <1>3. SoundAt(Idle, record, runs)
    BY <1>2 DEF SoundAt, PinnedIn
  <1>4. ASSUME Alone PROVE AloneAt(Idle, record, runs)
    BY <1>2, <1>4, AtRest
  <1> QED BY <1>1, <1>2, <1>3, <1>4, Goes DEF LanePcs

\* A pass is done, having written new over the record.
LEMMA IdleWrites ==
  ASSUME IInv, NEW p \in Workers, NEW new \in Records, WriteAs(p, new, Idle), Calm,
         new.request \in {record.request, None}, new.receipt => record.receipt,
         new.attempts = record.attempts
  PROVE  IInv'
  <1>1. Idle \in Passes
    BY DEF Idle, Passes, Pcs, Errors
  <1>2. Idle.pc = "idle" /\ ~Idle.fresh /\ Idle.pending = None /\ ~Idle.receipt
    BY DEF Idle
  <1>3. SoundAt(Idle, new, runs)
    BY <1>2 DEF SoundAt, PinnedIn
  <1>4. ASSUME Alone PROVE AloneAt(Idle, new, runs)
    BY <1>2, <1>4, AtRest
  <1>5. PinnedIn(new.request, runs) /\ (new.receipt => rendered)
    BY DEF IInv, RecordSound, PinnedIn
  <1> QED BY <1>1, <1>2, <1>3, <1>4, <1>5, Writes DEF LanePcs

\* A pass that fails keeps what it knows.
LEMMA Failing ==
  ASSUME IInv, NEW p \in Workers, NEW e \in Errors
  PROVE  LET v == Erring(p, e)
         IN  /\ v \in Passes /\ v.pc = "settle" /\ v.error = e /\ (v.fresh <=> w[p].fresh)
             /\ v.pending = w[p].pending /\ (v.receipt <=> w[p].receipt)
  <1> DEFINE x == w[p]  v == [x EXCEPT !.pc = "settle", !.error = e]
  <1>1. x \in Passes
    BY Here
  <1> HIDE DEF x
  <1>2. v \in Passes
    BY <1>1 DEF Passes, Pcs
  <1>3. v.pc = "settle" /\ v.error = e /\ (v.fresh <=> x.fresh) /\ v.pending = x.pending
        /\ (v.receipt <=> x.receipt)
    BY <1>1 DEF Passes
  <1> QED BY <1>2, <1>3 DEF x, Erring

\* A pass may always fail, with the error it met.
LEMMA Errs ==
  ASSUME IInv, NEW p \in Workers, NEW e \in Errors \ {"none"}, GoAs(p, Erring(p, e)),
         Calm,
         Alone /\ e \in {"finished", "submitter"} /\ record.request # None
           => OverIn(record.request, runs)
  PROVE  IInv'
  <1> DEFINE v == Erring(p, e)
  <1>1. /\ v \in Passes /\ v.pc = "settle" /\ v.error = e /\ (v.fresh <=> w[p].fresh)
        /\ v.pending = w[p].pending /\ (v.receipt <=> w[p].receipt)
    BY Failing
  <1>2. GoAs(p, v)
    OBVIOUS
  <1> HIDE DEF v
  <1>3. SoundAt(v, record, runs)
    BY <1>1, Here DEF SoundAt
  <1>4. ASSUME Alone PROVE AloneAt(v, record, runs)
    BY <1>1, <1>4, AtRest
  <1> QED BY <1>1, <1>2, <1>3, <1>4, Goes DEF LanePcs

\* Quiet steps and faults are calm.
LEMMA QuietIsCalm ==
  ASSUME IInv, Quiet \/ Fault PROVE Calm
  BY Counters DEF Quiet, Fault, Calm

-----------------------------------------------------------------------------
\* The steps of a pass.

\* SelectExhausted keeps the invariant.
LEMMA SelectExhaustedKeeps ==
  ASSUME IInv, NEW p \in Workers, SelectExhausted(p) PROVE IInv'
  <1> DEFINE v == [Idle EXCEPT !.pc = "abandon"]
  <1>1. GoAs(p, v) /\ Calm
    BY QuietIsCalm DEF SelectExhausted
  <1>2. v \in Passes
    BY DEF Idle, Passes, Pcs, Errors
  <1>3. v.pc = "abandon" /\ ~v.fresh /\ v.pending = None /\ ~v.receipt
    BY DEF Idle
  <1> HIDE DEF v
  <1>4. SoundAt(v, record, runs)
    BY <1>3 DEF SoundAt, PinnedIn
  <1>5. ASSUME Alone PROVE AloneAt(v, record, runs)
    BY <1>3, <1>5, AtRest
  <1> QED BY <1>1, <1>2, <1>3, <1>4, <1>5, Goes DEF LanePcs

\* Abandon keeps the invariant.
LEMMA AbandonKeeps ==
  ASSUME IInv, NEW p \in Workers, Abandon(p) PROVE IInv'
  <1> DEFINE r == [record EXCEPT !.status = "review-failed"]
  <1>1. (WriteAs(p, r, Idle) \/ GoAs(p, Idle)) /\ Calm
    BY QuietIsCalm DEF Abandon
  <1>2. CASE GoAs(p, Idle)
    BY <1>1, <1>2, Idles
  <1>3. CASE WriteAs(p, r, Idle)
    <2>1. record \in Records /\ r \in Records
      BY Here DEF Records, Stopped
    <2>2. r.request = record.request /\ (r.receipt <=> record.receipt) /\ r.attempts = record.attempts
      BY <2>1 DEF Records
    <2>3. WriteAs(p, r, Idle)
      BY <1>3
    <2> HIDE DEF r
    <2> QED BY <1>1, <2>1, <2>2, <2>3, IdleWrites
  <1> QED BY <1>1, <1>2, <1>3

\* Select keeps the invariant.
LEMMA SelectKeeps ==
  ASSUME IInv, NEW p \in Workers, Select(p) PROVE IInv'
  <1> DEFINE v == [Idle EXCEPT !.pc = "gate", !.fresh = TRUE]
  <1>1. GoAs(p, v) /\ Calm /\ ToReview /\ ~(record.attempts >= AttemptLimit) /\ w[p].pc = "idle"
    BY QuietIsCalm DEF Select, Exhausted
  <1>2. v \in Passes
    BY DEF Idle, Passes, Pcs, Errors
  <1>3. v.pc = "gate" /\ v.pending = None /\ ~v.receipt
    BY DEF Idle
  <1> HIDE DEF v
  <1>4. SoundAt(v, record, runs)
    BY <1>1, <1>3 DEF SoundAt, PinnedIn, ToReview, Stopped
  <1>5. ASSUME Alone PROVE AloneAt(v, record, runs)
    BY <1>3, <1>5, AtRest
  <1>6. Counted'
    <2>1. record' = record /\ w' = [w EXCEPT ![p] = v] /\ engines' = engines
      BY <1>1 DEF GoAs, Calm
    <2>2. Dry' \subseteq Dry /\ Lane' \subseteq Workers /\ Dry \subseteq Workers
      BY <1>3, <2>1, Here DEF Dry, Lane
    <2>3. Cardinality(Dry') <= Cardinality(Dry)
      BY <2>2, PassesFinite, FS_Subset
    <2>4. /\ Cardinality(Lane') \in Nat /\ Cardinality(Lane') <= Cardinality(Workers)
          /\ Cardinality(Workers) \in Nat /\ Cardinality(Dry) \in Nat /\ Cardinality(Dry') \in Nat
      BY <2>2, PassesFinite
    <2>5. engines + Cardinality(Dry) <= record.attempts
      BY DEF IInv, Counted
    <2>6. engines \in Nat /\ record.attempts \in Nat /\ AttemptLimit \in Nat
      BY Counters, Here, ReviewAssumption
    <2>7. engines + Cardinality(Dry') <= record.attempts
      BY <2>3, <2>4, <2>5, <2>6
    <2>8. record.attempts + Cardinality(Lane') < AttemptLimit + Cardinality(Workers)
      BY <1>1, <2>4, <2>6
    <2> QED BY <2>1, <2>7, <2>8 DEF Counted
  <1> QED BY <1>1, <1>2, <1>3, <1>4, <1>5, <1>6, Goes

\* A pass that goes on to l knows what it knew.
LEMMA Going ==
  ASSUME IInv, NEW p \in Workers, NEW l \in Pcs
  PROVE  LET v == Goto(p, l)
         IN  /\ v \in Passes /\ v.pc = l /\ v.error = w[p].error /\ (v.fresh <=> w[p].fresh)
             /\ v.pending = w[p].pending /\ (v.receipt <=> w[p].receipt)
  <1> DEFINE x == w[p]  v == [x EXCEPT !.pc = l]
  <1>1. x \in Passes
    BY Here
  <1> HIDE DEF x
  <1>2. v \in Passes
    BY <1>1 DEF Passes
  <1>3. v.pc = l /\ v.error = x.error /\ (v.fresh <=> x.fresh) /\ v.pending = x.pending
        /\ (v.receipt <=> x.receipt)
    BY <1>1 DEF Passes
  <1> QED BY <1>2, <1>3 DEF x, Goto

\* A pass that goes on within the lane, without a write.
LEMMA GoesTo ==
  ASSUME IInv, NEW p \in Workers, NEW l \in Pcs, GoAs(p, Goto(p, l)), Calm,
         l \in {"render", "dispatch"} => w[p].pc = l,
         l \in {"accept", "begin", "dry", "apply", "deliver"} => rendered,
         l \notin {"begin", "dry", "settle"},
         l \in LanePcs => w[p].pc \in LanePcs
  PROVE  IInv'
  <1> DEFINE v == Goto(p, l)
  <1>1. /\ v \in Passes /\ v.pc = l /\ (v.fresh <=> w[p].fresh)
        /\ v.pending = w[p].pending /\ (v.receipt <=> w[p].receipt)
    BY Going
  <1>2. GoAs(p, v)
    OBVIOUS
  <1> HIDE DEF v
  <1>3. SoundAt(v, record, runs)
    BY <1>1, Here DEF SoundAt
  <1>4. ASSUME Alone PROVE AloneAt(v, record, runs)
    <2>1. CASE l \in {"render", "dispatch"}
      BY <1>1, <1>4, <2>1, Here DEF AloneAt
    <2>2. CASE l \notin {"render", "dispatch"}
      BY <1>1, <1>4, <2>2, AtRest
    <2> QED BY <2>1, <2>2
  <1> QED BY <1>1, <1>2, <1>3, <1>4, Goes

\* GateBegin keeps the invariant.
LEMMA GateBeginKeeps ==
  ASSUME IInv, NEW p \in Workers, GateBegin(p) PROVE IInv'
  <1>1. w[p].pc = "gate" /\ Calm
    BY QuietIsCalm DEF GateBegin
  <1>2. CASE GoAs(p, Erring(p, "gate"))
    BY <1>1, <1>2, Errs DEF Errors
  <1>3. CASE ~GoAs(p, Erring(p, "gate"))
    <2> DEFINE g == IF record.request # None \/ record.gates = GateLimit THEN record.gates
                    ELSE record.gates + 1
               r == [record EXCEPT !.status = "awaiting-review", !.gates = g]
               v == Goto(p, "prepare")
    <2>1. WriteAs(p, r, v)
      BY <1>3 DEF GateBegin
    <2>2. record \in Records
      BY Here
    <2>3. g \in 0..GateLimit
      BY <2>2, ReviewAssumption DEF Records
    <2> HIDE DEF g
    <2>4. r \in Records /\ r.request = record.request /\ (r.receipt <=> record.receipt)
          /\ r.attempts = record.attempts /\ r.status = "awaiting-review"
      BY <2>2, <2>3 DEF Records, REVIEWABLE_STATUSES
    <2> HIDE DEF r
    <2>5. /\ v \in Passes /\ v.pc = "prepare" /\ (v.fresh <=> w[p].fresh)
          /\ v.pending = w[p].pending /\ (v.receipt <=> w[p].receipt)
      BY Going DEF Pcs
    <2> HIDE DEF v
    <2>6. SoundAt(v, r, runs)
      BY <2>4, <2>5, Here DEF SoundAt, Stopped
    <2>7. ASSUME Alone PROVE AloneAt(v, r, runs)
      BY <2>4, <2>5, <2>7, AtRest
    <2>8. PinnedIn(r.request, runs) /\ (r.receipt => rendered)
      BY <2>4 DEF IInv, RecordSound
    <2> QED BY <1>1, <2>1, <2>4, <2>5, <2>6, <2>7, <2>8, Writes DEF LanePcs
  <1> QED BY <1>2, <1>3

\* Prepare keeps the invariant.
LEMMA PrepareKeeps ==
  ASSUME IInv, NEW p \in Workers, Prepare(p) PROVE IInv'
  <1>1. w[p].pc = "prepare" /\ Calm
    BY QuietIsCalm DEF Prepare
  <1>2. CASE GoAs(p, Erring(p, "gate"))
    BY <1>1, <1>2, Errs DEF Errors
  <1>3. CASE ~GoAs(p, Erring(p, "gate"))
    <2> DEFINE x == w[p]
               l == IF record.request = None THEN "save" ELSE "render"
               v == [x EXCEPT !.pc = l, !.pending = record.request, !.receipt = record.receipt]
    <2>1. GoAs(p, v)
      BY <1>3 DEF Prepare
    <2>2. x \in Passes /\ record.request \in Requests \cup {None} /\ record.receipt \in BOOLEAN
          /\ SoundAt(x, record, runs) /\ x.pc = "prepare"
      BY <1>1, Here DEF Records
    <2>3. l \in {"save", "render"} /\ (l = "render" => record.request # None)
      OBVIOUS
    <2> HIDE DEF x, l
    <2> DEFINE pending == record.request  receipt == record.receipt
    <2>4. /\ v \in Passes /\ v.pc = l /\ (v.fresh <=> x.fresh)
          /\ v.pending = record.request /\ (v.receipt <=> record.receipt)
      <3>1. pending \in Requests \cup {None} /\ receipt \in BOOLEAN /\ l \in Pcs
        BY <2>2, <2>3 DEF Pcs
      <3> HIDE DEF pending, receipt
      <3>2. [x EXCEPT !.pc = l, !.pending = pending, !.receipt = receipt] \in Passes
        BY <2>2, <3>1 DEF Passes
      <3>3. LET y == [x EXCEPT !.pc = l, !.pending = pending, !.receipt = receipt]
            IN  y.pc = l /\ (y.fresh <=> x.fresh) /\ y.pending = pending /\ (y.receipt <=> receipt)
        BY <2>2, <3>1 DEF Passes
      <3> QED BY <3>2, <3>3 DEF pending, receipt
    <2> HIDE DEF v
    <2>5. SoundAt(v, record, runs)
      BY <2>2, <2>3, <2>4 DEF SoundAt, IInv, RecordSound
    <2>6. ASSUME Alone PROVE AloneAt(v, record, runs)
      <3>1. CASE l = "save"
        BY <2>4, <2>6, <3>1, AtRest
      <3>2. CASE l = "render"
        <4>1. AloneAt(w[p], record, runs)
          BY <2>6, Here
        <4> QED BY <1>1, <2>3, <2>4, <3>2, <4>1 DEF AloneAt, Same
      <3> QED BY <2>3, <3>1, <3>2
    <2> QED BY <1>1, <2>1, <2>3, <2>4, <2>5, <2>6, Goes DEF LanePcs
  <1> QED BY <1>2, <1>3

\* The pass p saves the request r and goes on by it.
LEMMA Saves ==
  ASSUME IInv, NEW p \in Workers, NEW l \in {"render", "dispatch"}, NEW r \in Requests,
         WriteAs(p, Saved(r), [w[p] EXCEPT !.pc = l, !.pending = r]), Calm,
         w[p].pc \in LanePcs, PinnedIn(r, runs),
         Alone => Len(runs[r.id]) + (IF l = "dispatch" THEN 1 ELSE 0) <= r.dispatches
  PROVE  IInv'
  <1> DEFINE x == record
             new == [x EXCEPT !.status = "awaiting-review", !.request = r]
             v == [w[p] EXCEPT !.pc = l, !.pending = r]
  <1>1. WriteAs(p, new, v)
    BY DEF Saved
  <1>2. v \in Passes /\ v.pc = l /\ (v.receipt <=> w[p].receipt) /\ v.pending = r
    <2>1. l \in Pcs
      BY DEF Pcs
    <2> DEFINE y == w[p]
    <2>2. y \in Passes
      BY Here
    <2> HIDE DEF y
    <2>3. [y EXCEPT !.pc = l, !.pending = r] \in Passes
      BY <2>1, <2>2 DEF Passes
    <2>4. LET u == [y EXCEPT !.pc = l, !.pending = r]
          IN  u.pc = l /\ (u.receipt <=> y.receipt) /\ u.pending = r
      BY <2>1, <2>2 DEF Passes
    <2> QED BY <2>3, <2>4 DEF y
  <1> HIDE DEF v
  <1>3. x \in Records
    BY Here
  <1> HIDE DEF x
  <1>4. new \in Records /\ new.request = r /\ new.status = "awaiting-review"
        /\ (new.receipt <=> x.receipt) /\ new.attempts = x.attempts
    BY <1>3 DEF Records, REVIEWABLE_STATUSES
  <1> HIDE DEF new
  <1>5. r # None
    BY NoneAssumption
  <1>6. SoundAt(v, new, runs)
    BY <1>2, <1>4, <1>5, Here DEF SoundAt, Stopped
  <1>7. ASSUME Alone PROVE AloneAt(v, new, runs)
    BY <1>2, <1>4, <1>5, <1>7 DEF AloneAt, Same
  <1>8. PinnedIn(new.request, runs) /\ (new.receipt => rendered)
    BY <1>4 DEF IInv, RecordSound, x
  <1>9. v.pc \in LanePcs => w[p].pc \in LanePcs
    OBVIOUS
  <1>10. v.pc # "dry"
    BY <1>2
  <1>11. new.attempts = record.attempts
    BY <1>4 DEF x
  <1> QED BY <1>1, <1>2, <1>4, <1>6, <1>7, <1>8, <1>9, <1>10, <1>11, Writes

\* SaveRequest keeps the invariant.
LEMMA SaveRequestKeeps ==
  ASSUME IInv, NEW p \in Workers, SaveRequest(p) PROVE IInv'
  <1>1. w[p].pc = "save" /\ Calm
    BY QuietIsCalm DEF SaveRequest
  <1>2. CASE GoAs(p, Erring(p, "gate"))
    BY <1>1, <1>2, Errs DEF Errors
  <1>3. CASE ~GoAs(p, Erring(p, "gate"))
    <2> DEFINE request(id) == [id |-> id, run |-> 0, dispatches |-> 0, recent |-> FALSE]
    <2>1. PICK id \in UnknownIds :
            WriteAs(p, Saved(request(id)), [w[p] EXCEPT !.pc = "render", !.pending = request(id)])
      BY <1>3 DEF SaveRequest
    <2> DEFINE r == request(id)
    <2>2. id \in RequestIds
      BY DEF UnknownIds
    <2>3. r \in Requests /\ r.run = 0 /\ r.id = id /\ r.dispatches = 0
      BY <2>2, ReviewAssumption DEF Requests
    <2>4. WriteAs(p, Saved(r), [w[p] EXCEPT !.pc = "render", !.pending = r])
      BY <2>1
    <2> HIDE DEF r
    <2>5. runs[r.id] = <<>>
      BY <2>3 DEF IInv, RunsSound
    <2>6. PinnedIn(r, runs)
      BY <2>3 DEF PinnedIn
    <2>7. Len(runs[r.id]) + (IF "render" = "dispatch" THEN 1 ELSE 0) <= r.dispatches
      BY <2>3, <2>5
    <2> QED BY <1>1, <2>3, <2>4, <2>6, <2>7, Saves DEF LanePcs
  <1> QED BY <1>2, <1>3

\* Restore keeps the invariant.
LEMMA RestoreKeeps ==
  ASSUME IInv, NEW p \in Workers, Restore(p) PROVE IInv'
  <1>1. w[p].pc = "render" /\ w[p].receipt /\ Calm /\ GoAs(p, Goto(p, "accept"))
    BY QuietIsCalm DEF Restore
  <1>2. rendered
    BY <1>1, Here DEF SoundAt
  <1> QED BY <1>1, <1>2, GoesTo DEF Pcs, LanePcs

\* Expire keeps the invariant.
LEMMA ExpireKeeps ==
  ASSUME IInv, NEW p \in Workers, Expire(p) PROVE IInv'
  <1> DEFINE x == w[p]  v == [x EXCEPT !.receipt = FALSE]
  <1>1. w[p].pc = "render" /\ Calm /\ GoAs(p, v)
    BY QuietIsCalm DEF Expire
  <1>2. x \in Passes
    BY Here
  <1> HIDE DEF x
  <1>3. v \in Passes /\ v.pc = x.pc /\ (v.fresh <=> x.fresh) /\ v.pending = x.pending /\ ~v.receipt
        /\ v.error = x.error
    BY <1>2 DEF Passes
  <1> HIDE DEF v
  <1>4. SoundAt(v, record, runs)
    BY <1>3, Here DEF SoundAt, x
  <1>5. ASSUME Alone PROVE AloneAt(v, record, runs)
    BY <1>3, <1>5, Here DEF AloneAt, x
  <1>6. v.pc = w[p].pc
    BY <1>3 DEF x
  <1> QED BY <1>1, <1>3, <1>4, <1>5, <1>6, Goes

\* Observe keeps the invariant.
LEMMA ObserveKeeps ==
  ASSUME IInv, NEW p \in Workers, Observe(p) PROVE IInv'
  <1> DEFINE q == w[p].pending  run == runs[q.id][q.run]  verdict == Verdict(run)
  <1>1. w[p].pc = "render" /\ q.run # 0 /\ Calm
    BY QuietIsCalm DEF Observe, Resuming
  <1>2. GoAs(p, IF verdict = "none" THEN Goto(p, "accept") ELSE Erring(p, verdict))
    BY DEF Observe, Asked
  <1>3. /\ SoundAt(w[p], record, runs) /\ q # None /\ q \in Requests /\ q.id \in RequestIds
        /\ q.run \in DOMAIN runs[q.id] /\ run # "unlisted"
    <2>1. SoundAt(w[p], record, runs) /\ w[p] \in Passes
      BY Here
    <2>2. q # None /\ q \in Requests
      BY <1>1, <2>1 DEF SoundAt, Passes
    <2> QED BY <1>1, <2>1, <2>2, Lens DEF SoundAt, PinnedIn
  <1>4. run \in {"running", "success", "refused", "failed"}
    <2>1. runs[q.id] \in Seq(Runs)
      BY <1>3, Counters
    <2>2. run \in Runs
      BY <1>3, <2>1
    <2> QED BY <1>3, <2>2 DEF Runs, Verdicts
  <1>5. CASE run = "success"
    <2>1. verdict = "none"
      BY <1>5 DEF Verdict
    <2>2. rendered
      BY <1>3, <1>5 DEF IInv, RunsSound
    <2> QED BY <1>1, <1>2, <2>1, <2>2, GoesTo DEF Pcs, LanePcs
  <1>6. CASE run = "running"
    <2>1. verdict = "pending"
      BY <1>6 DEF Verdict
    <2> QED BY <1>1, <1>2, <2>1, Errs DEF Errors
  <1>7. CASE run \in {"refused", "failed"}
    <2>1. verdict \in {"submitter", "finished"}
      BY <1>7 DEF Verdict
    <2>2. ASSUME Alone, record.request # None PROVE OverIn(record.request, runs)
      <3>1. record.request.id = q.id
        BY <1>1, <2>2, Here DEF AloneAt, Same
      <3> QED BY <1>3, <1>7, <3>1 DEF OverIn, Verdicts
    <2> HIDE DEF verdict
    <2>3. verdict \in Errors \ {"none"} /\ verdict # "none"
      BY <2>1 DEF Errors
    <2> QED BY <1>1, <1>2, <2>1, <2>2, <2>3, Errs
  <1> QED BY <1>4, <1>5, <1>6, <1>7

\* What a pass that resumes knows of its request.
LEMMA Resumes ==
  ASSUME IInv, NEW p \in Workers, w[p].pc \in {"render", "dispatch"}
  PROVE  /\ w[p].pending \in Requests /\ w[p].pending.id \in RequestIds
         /\ w[p].pending.dispatches \in Nat /\ Len(runs[w[p].pending.id]) \in Nat
         /\ w[p].pending.id \notin UnknownIds
         /\ PinnedIn(w[p].pending, runs)
         /\ Alone => /\ record.request # None /\ Same(record.request, w[p].pending)
                     /\ Len(runs[w[p].pending.id]) + (IF w[p].pc = "dispatch" THEN 1 ELSE 0)
                          <= w[p].pending.dispatches
  <1>1. w[p] \in Passes /\ SoundAt(w[p], record, runs) /\ (Alone => AloneAt(w[p], record, runs))
    BY Here
  <1>2. w[p].pending \in Requests /\ w[p].pending # None
    BY <1>1 DEF SoundAt, Passes
  <1>3. w[p].pending.id \in UNION {Named(w[q].pending) : q \in Workers}
    BY <1>2 DEF Named
  <1>4. PinnedIn(w[p].pending, runs)
    BY <1>1 DEF SoundAt
  <1>5. ASSUME Alone
        PROVE  /\ record.request # None /\ Same(record.request, w[p].pending)
               /\ Len(runs[w[p].pending.id]) + (IF w[p].pc = "dispatch" THEN 1 ELSE 0)
                    <= w[p].pending.dispatches
    BY <1>1, <1>5 DEF AloneAt, Same
  <1> QED BY <1>2, <1>3, <1>4, <1>5, Lens DEF UnknownIds

\* Discover keeps the invariant.
LEMMA DiscoverKeeps ==
  ASSUME IInv, NEW p \in Workers, Discover(p) PROVE IInv'
  <1>1. w[p].pc = "render" /\ Calm
    BY QuietIsCalm DEF Discover, Resuming
  <1>2. CASE GoAs(p, Erring(p, "gate"))
    BY <1>1, <1>2, Errs DEF Errors
  <1>3. CASE ~GoAs(p, Erring(p, "gate"))
    <2> DEFINE old == w[p].pending
    <2>1. PICK i \in Earliest(p) :
            WriteAs(p, Saved([old EXCEPT !.run = i]),
                    [w[p] EXCEPT !.pending = [old EXCEPT !.run = i]])
      BY <1>3 DEF Discover
    <2>2. old \in Requests /\ old.id \in RequestIds
      BY <1>1, Resumes
    <2>3. i \in DOMAIN runs[old.id] /\ runs[old.id][i] # "unlisted"
      BY DEF Earliest, Listed, Asked
    <2>4. i \in Nat
      <3>1. runs[old.id] \in Seq(Runs)
        BY <2>2, Counters
      <3> QED BY <2>3, <3>1
    <2>5. Alone => Len(runs[old.id]) + (IF "render" = "dispatch" THEN 1 ELSE 0) <= old.dispatches
      BY <1>1, Resumes
    <2> DEFINE r == [old EXCEPT !.run = i]
    <2>6. WriteAs(p, Saved(r), [w[p] EXCEPT !.pending = r])
      BY <2>1
    <2>7. w[p] \in Passes
      BY Here
    <2> HIDE DEF old
    <2>8. r \in Requests /\ r.run = i /\ r.id = old.id /\ r.dispatches = old.dispatches
      BY <2>2, <2>4 DEF Requests
    <2> HIDE DEF r
    <2>9. [w[p] EXCEPT !.pending = r] = [w[p] EXCEPT !.pc = "render", !.pending = r]
      <3> DEFINE y == w[p]
      <3>1. y \in Passes /\ y.pc = "render"
        BY <1>1, <2>7
      <3> HIDE DEF y
      <3>2. [y EXCEPT !.pending = r] = [y EXCEPT !.pc = "render", !.pending = r]
        BY <3>1 DEF Passes
      <3> QED BY <3>2 DEF y
    <2>10. WriteAs(p, Saved(r), [w[p] EXCEPT !.pc = "render", !.pending = r])
      BY <2>6, <2>9
    <2>11. PinnedIn(r, runs)
      BY <2>3, <2>8 DEF PinnedIn
    <2> QED BY <1>1, <2>5, <2>8, <2>10, <2>11, Saves DEF LanePcs
  <1> QED BY <1>2, <1>3

\* AwaitDiscovery keeps the invariant.
LEMMA AwaitDiscoveryKeeps ==
  ASSUME IInv, NEW p \in Workers, AwaitDiscovery(p) PROVE IInv'
  BY QuietIsCalm, Errs DEF AwaitDiscovery, Errors

\* GiveUp keeps the invariant.
LEMMA GiveUpKeeps ==
  ASSUME IInv, NEW p \in Workers, GiveUp(p) PROVE IInv'
  <1>1. w[p].pc = "render" /\ Calm /\ GoAs(p, Erring(p, "finished"))
        /\ w[p].pending.dispatches = DispatchLimit
    BY QuietIsCalm DEF GiveUp, Undiscovered, Resuming
  <1>2. Alone => OverIn(record.request, runs)
    BY <1>1, Resumes DEF OverIn, Same
  <1> QED BY <1>1, <1>2, Errs DEF Errors

\* SaveDispatch keeps the invariant.
LEMMA SaveDispatchKeeps ==
  ASSUME IInv, NEW p \in Workers, SaveDispatch(p) PROVE IInv'
  <1> DEFINE old == w[p].pending  d == old.dispatches + 1  n == Len(runs[old.id])
             r == [old EXCEPT !.dispatches = d, !.recent = TRUE]
  <1>1. w[p].pc = "render" /\ Calm /\ old.dispatches < DispatchLimit
    BY QuietIsCalm DEF SaveDispatch, Undiscovered, Resuming
  <1>2. CASE GoAs(p, Erring(p, "gate"))
    BY <1>1, <1>2, Errs DEF Errors
  <1>3. CASE ~GoAs(p, Erring(p, "gate"))
    <2>1. WriteAs(p, Saved(r), [w[p] EXCEPT !.pc = "dispatch", !.pending = r])
      BY <1>3 DEF SaveDispatch
    <2>2. old \in Requests /\ old.id \in RequestIds /\ old.dispatches \in Nat /\ n \in Nat
          /\ PinnedIn(old, runs)
      BY <1>1, Resumes
    <2>3. Alone => n + (IF w[p].pc = "dispatch" THEN 1 ELSE 0) <= old.dispatches
      BY <1>1, Resumes
    <2>4. d \in 0..DispatchLimit
      BY <1>1, <2>2, ReviewAssumption
    <2>5. Alone => n + 1 <= d
      <3>1. (IF w[p].pc = "dispatch" THEN 1 ELSE 0) = 0
        BY <1>1
      <3>2. Alone => n + 0 <= old.dispatches
        BY <2>3, <3>1
      <3> DEFINE m == old.dispatches
      <3>3. m \in Nat /\ d = m + 1 /\ n \in Nat /\ (Alone => n + 0 <= m)
        BY <2>2, <3>2
      <3> HIDE DEF n, m, d
      <3> QED BY <3>3
    <2> HIDE DEF old, d
    <2>6. r \in Requests /\ r.run = old.run /\ r.id = old.id /\ r.dispatches = d
      BY <2>2, <2>4 DEF Requests
    <2> HIDE DEF r
    <2>7. PinnedIn(r, runs)
      <3>1. old # None
        BY <2>2, NoneAssumption
      <3> QED BY <2>2, <2>6, <3>1 DEF PinnedIn
    <2>8. Alone => Len(runs[r.id]) + (IF "dispatch" = "dispatch" THEN 1 ELSE 0) <= r.dispatches
      BY <2>5, <2>6
    <2> QED BY <1>1, <2>1, <2>6, <2>7, <2>8, Saves DEF LanePcs
  <1> QED BY <1>2, <1>3

\* Accept keeps the invariant.
LEMMA AcceptKeeps ==
  ASSUME IInv, NEW p \in Workers, Accept(p) PROVE IInv'
  <1>1. w[p].pc = "accept" /\ Calm
    BY QuietIsCalm DEF Accept
  <1>2. CASE GoAs(p, Erring(p, "gate"))
    BY <1>1, <1>2, Errs DEF Errors
  <1>3. CASE ~GoAs(p, Erring(p, "gate"))
    <2> DEFINE x == w[p]  v == [x EXCEPT !.pc = "begin", !.fresh = TRUE]
               y == record
               r == [y EXCEPT !.status = "awaiting-review", !.receipt = TRUE,
                              !.request = None, !.cooling = FALSE]
    <2>1. WriteAs(p, r, v)
      BY <1>3 DEF Accept
    <2>2. x \in Passes /\ SoundAt(x, record, runs) /\ y \in Records
      BY Here
    <2>3. rendered
      BY <1>1, <2>2 DEF SoundAt
    <2> HIDE DEF x, y
    <2>4. v \in Passes /\ v.pc = "begin" /\ v.pending = x.pending
      BY <2>2 DEF Passes, Pcs
    <2>5. r \in Records /\ r.request = None /\ r.receipt /\ r.status = "awaiting-review"
          /\ r.attempts = y.attempts
      BY <2>2 DEF Records, REVIEWABLE_STATUSES
    <2> HIDE DEF v, r
    <2>6. SoundAt(v, r, runs)
      BY <2>2, <2>3, <2>4, <2>5 DEF SoundAt, Stopped
    <2>7. AloneAt(v, r, runs)
      BY <2>4, <2>5 DEF AloneAt
    <2>8. PinnedIn(r.request, runs)
      BY <2>5 DEF PinnedIn
    <2>9. r.attempts = record.attempts
      BY <2>5 DEF y
    <2> QED BY <1>1, <2>1, <2>3, <2>4, <2>5, <2>6, <2>7, <2>8, <2>9, Writes DEF LanePcs
  <1> QED BY <1>2, <1>3

\* A dispatch adds a run to those of its request, and leaves the others alone.
LEMMA Appending ==
  ASSUME IInv, NEW p \in Workers, Dispatch(p)
  PROVE  LET id == w[p].pending.id
         IN  /\ runs' \in [RequestIds -> Seq(Runs)]
             /\ DOMAIN runs'[id] = 1..Len(runs[id]) + 1 /\ DOMAIN runs[id] = 1..Len(runs[id])
             /\ runs'[id][Len(runs[id]) + 1] = "unlisted"
             /\ \A i \in DOMAIN runs[id] : runs'[id][i] = runs[id][i]
             /\ Len(runs'[id]) = Len(runs[id]) + 1
             /\ \A j \in RequestIds \ {id} : runs'[j] = runs[j]
             /\ UnknownIds' = UnknownIds
  <1> DEFINE id == w[p].pending.id  s == runs[id]  t == Append(s, "unlisted")
  <1>1. w[p].pc = "dispatch" /\ GoAs(p, Erring(p, "pending")) /\ RunsOf(id, t)
    BY DEF Dispatch, Asked
  <1>2. id \in RequestIds /\ id \notin UnknownIds
    BY <1>1, Resumes
  <1>3. Erring(p, "pending").pending = w[p].pending
    BY Failing DEF Errors
  <1>4. \A q \in Workers : w'[q].pending = w[q].pending
    BY <1>1, <1>3, Here DEF GoAs
  <1>5. UnknownIds' = UnknownIds
    BY <1>1, <1>4 DEF GoAs, UnknownIds
  <1>6. s \in Seq(Runs) /\ runs \in [RequestIds -> Seq(Runs)] /\ "unlisted" \in Runs
    BY <1>2, Counters DEF Runs
  <1>7. runs' = [i \in RequestIds |->
                   IF i \in UnknownIds' THEN <<>> ELSE IF i = id THEN t ELSE runs[i]]
    BY <1>1 DEF RunsOf
  <1>8. \A j \in UnknownIds : runs[j] = <<>>
    BY DEF IInv, RunsSound
  <1>9. runs'[id] = t /\ \A j \in RequestIds \ {id} : runs'[j] = runs[j]
    BY <1>2, <1>5, <1>7, <1>8
  <1> HIDE DEF id, s
  <1>10. t \in Seq(Runs) /\ Len(t) = Len(s) + 1 /\ Len(s) \in Nat /\ t[Len(s) + 1] = "unlisted"
         /\ DOMAIN s = 1..Len(s) /\ DOMAIN t = 1..Len(s) + 1 /\ \A i \in DOMAIN s : t[i] = s[i]
    BY <1>6, AppendProperties, LenProperties
  <1> HIDE DEF t
  <1>11. runs' \in [RequestIds -> Seq(Runs)]
    BY <1>6, <1>7, <1>10, EmptySeq
  <1> QED BY <1>5, <1>9, <1>10, <1>11 DEF id, s

\* What is pinned stays pinned when a run is added.
LEMMA PinnedStays ==
  ASSUME IInv, NEW p \in Workers, Dispatch(p), NEW r, PinnedIn(r, runs),
         r \in Requests \cup {None}
  PROVE  PinnedIn(r, runs')
  <1>1. CASE r = None \/ r.run = 0
    BY <1>1 DEF PinnedIn
  <1>2. CASE r # None /\ r.run # 0
    <2> DEFINE id == w[p].pending.id
    <2>1. r.id \in RequestIds /\ r.run \in DOMAIN runs[r.id] /\ runs[r.id][r.run] # "unlisted"
      BY <1>2, Lens DEF PinnedIn
    <2>2. CASE r.id # id
      BY <2>1, <2>2, Appending DEF PinnedIn
    <2>3. CASE r.id = id
      <3> DEFINE n == Len(runs[id])
      <3>1. n \in Nat
        BY <2>1, <2>3, Lens
      <3>2. DOMAIN runs[id] = 1..n /\ DOMAIN runs'[id] = 1..n + 1
            /\ \A i \in DOMAIN runs[id] : runs'[id][i] = runs[id][i]
        BY Appending
      <3> HIDE DEF n
      <3>3. \A i \in 1..n : i \in 1..n + 1
        BY <3>1
      <3> HIDE DEF id
      <3> QED BY <2>1, <2>3, <3>2, <3>3 DEF PinnedIn
    <2> QED BY <2>2, <2>3
  <1> QED BY <1>1, <1>2

\* Dispatch keeps the invariant.
LEMMA DispatchKeeps ==
  ASSUME IInv, NEW p \in Workers, Dispatch(p) PROVE IInv'
  <1> DEFINE v == Erring(p, "pending")  id == w[p].pending.id  n == Len(runs[id])
             d == w[p].pending.dispatches
  <1>1. w[p].pc = "dispatch" /\ GoAs(p, v) /\ UNCHANGED <<faults, engines, rendered>>
    BY DEF Dispatch
  <1>2. v \in Passes /\ v.pc = "settle" /\ v.error = "pending" /\ (v.fresh <=> w[p].fresh)
        /\ v.pending = w[p].pending /\ (v.receipt <=> w[p].receipt)
    BY Failing DEF Errors
  <1> HIDE DEF v
  <1>3. record' = record /\ w' = [w EXCEPT ![p] = v] /\ w \in [Workers -> Passes]
    BY <1>1, Here DEF GoAs
  <1>4. w' \in [Workers -> Passes] /\ w'[p] = v /\ \A q \in Workers \ {p} : w'[q] = w[q]
    BY <1>2, <1>3
  <1>5. /\ runs' \in [RequestIds -> Seq(Runs)]
        /\ Len(runs'[id]) = n + 1
        /\ \A j \in RequestIds \ {id} : runs'[j] = runs[j]
        /\ UnknownIds' = UnknownIds
    BY Appending
  <1>6. id \in RequestIds /\ n \in Nat /\ d \in Nat /\ id \notin UnknownIds
        /\ w[p].pending \in Requests
    BY <1>1, Resumes
  <1>7. TypeOK'
    BY <1>1, <1>3, <1>4, <1>5 DEF TypeOK, IInv
  <1>8. RecordSound'
    <2>1. PinnedIn(record.request, runs')
      BY Lens, PinnedStays DEF IInv, RecordSound
    <2> QED BY <1>1, <1>3, <2>1 DEF IInv, RecordSound
  <1>9. RunsSound'
    <2>1. ASSUME NEW j \in RequestIds, NEW i \in DOMAIN runs'[j], runs'[j][i] = "success"
          PROVE  rendered'
      <3>1. CASE j # id
        BY <1>1, <1>5, <2>1, <3>1 DEF IInv, RunsSound
      <3>2. CASE j = id
        <4>1. i \in 1..n + 1 /\ DOMAIN runs[id] = 1..n /\ runs'[id][n + 1] = "unlisted"
              /\ \A k \in DOMAIN runs[id] : runs'[id][k] = runs[id][k]
          BY <2>1, <3>2, Appending
        <4>2. i # n + 1
          BY <2>1, <3>2, <4>1
        <4>3. i \in 1..n
          <5> HIDE DEF n
          <5> QED BY <1>6, <4>1, <4>2
        <4>4. i \in DOMAIN runs[id] /\ runs[id][i] = "success"
          BY <2>1, <3>2, <4>1, <4>3
        <4> QED BY <1>1, <1>6, <4>4 DEF IInv, RunsSound
      <3> QED BY <3>1, <3>2
    <2>2. \A j \in UnknownIds' : runs'[j] = <<>>
      BY <1>5, <1>6 DEF IInv, RunsSound, UnknownIds
    <2> QED BY <2>1, <2>2 DEF RunsSound
  <1>10. ASSUME NEW q \in Workers PROVE SoundAt(w[q], record, runs)'
    <2>1. SoundAt(w[q], record, runs) /\ w[q] \in Passes
      BY Here
    <2>2. PinnedIn(w[q].pending, runs')
      <3>1. PinnedIn(w[q].pending, runs) /\ w[q].pending \in Requests \cup {None}
        BY <2>1 DEF SoundAt, Passes
      <3> QED BY <3>1, PinnedStays
    <2>3. CASE q = p
      BY <1>1, <1>2, <1>3, <1>4, <2>1, <2>2, <2>3 DEF SoundAt
    <2>4. CASE q # p
      BY <1>1, <1>3, <1>4, <2>1, <2>2, <2>4 DEF SoundAt
    <2> QED BY <2>3, <2>4
  <1>11. ASSUME Alone
         PROVE  /\ n + 1 <= d /\ d <= DispatchLimit
                /\ record.request # None /\ Same(record.request, w[p].pending)
    <2>1. n + (IF w[p].pc = "dispatch" THEN 1 ELSE 0) <= d
      BY <1>1, <1>11, Resumes
    <2>2. d <= DispatchLimit
      BY <1>6, Lens
    <2>3. record.request # None /\ Same(record.request, w[p].pending)
      BY <1>1, <1>11, Resumes
    <2> QED BY <1>1, <2>1, <2>2, <2>3
  <1>12. ASSUME Alone, NEW q \in Workers PROVE AloneAt(w[q], record, runs)'
    <2>1. q = p
      BY <1>12 DEF Alone
    <2>2. Len(runs'[record.request.id]) <= record.request.dispatches
      BY <1>5, <1>11, <1>12 DEF Same
    <2>3. Len(runs'[record.request.id]) + 0 <= record.request.dispatches
      <3>1. Len(runs'[record.request.id]) = n + 1
        BY <1>5, <1>11, <1>12 DEF Same
      <3> HIDE DEF n
      <3> QED BY <1>6, <2>2, <3>1
    <2>4. (IF v.pc = "dispatch" THEN 1 ELSE 0) = 0
      BY <1>2
    <2>5. AloneAt(v, record, runs')
      BY <1>2, <2>3, <2>4 DEF AloneAt
    <2> QED BY <1>3, <1>4, <2>1, <2>5
  <1>13. DispatchesBounded'
    <2>1. ASSUME Alone, NEW j \in RequestIds PROVE Len(runs'[j]) <= DispatchLimit
      <3>1. CASE j = id
        <4>1. n + 1 <= d /\ d <= DispatchLimit
          BY <1>11, <2>1
        <4>2. Len(runs'[j]) = n + 1 /\ n \in Nat /\ d \in Nat /\ DispatchLimit \in Nat
          BY <1>5, <1>6, <3>1, ReviewAssumption
        <4> HIDE DEF n, d
        <4> QED BY <4>1, <4>2
      <3>2. CASE j # id
        BY <1>5, <2>1, <3>2 DEF IInv, DispatchesBounded
      <3> QED BY <3>1, <3>2
    <2> QED BY <2>1 DEF DispatchesBounded
  <1>14. Counted'
    <2>1. \A q \in Workers : w'[q].pc \in LanePcs => w[q].pc \in LanePcs
      BY <1>2, <1>4 DEF LanePcs
    <2>2. \A q \in Workers : w'[q].pc = "dry" => w[q].pc = "dry"
      BY <1>2, <1>4
    <2> QED BY <1>1, <1>3, <2>1, <2>2, FewerOnTheWay
  <1>15. Alone' <=> Alone
    BY DEF Alone
  <1> QED BY <1>7, <1>8, <1>9, <1>10, <1>12, <1>13, <1>14, <1>15 DEF IInv, AllSound, AllAlone

\* Postpone keeps the invariant.
LEMMA PostponeKeeps ==
  ASSUME IInv, NEW p \in Workers, Postpone(p) PROVE IInv'
  <1>1. w[p].pc = "begin" /\ Calm
    BY QuietIsCalm DEF Postpone
  <1>2. CASE GoAs(p, Erring(p, "review"))
    BY <1>1, <1>2, Errs DEF Errors
  <1>3. CASE ~GoAs(p, Erring(p, "review"))
    <2> DEFINE y == record  r == [y EXCEPT !.status = "awaiting-review", !.gates = 0]
    <2>1. WriteAs(p, r, Idle)
      BY <1>3 DEF Postpone
    <2>2. y \in Records
      BY Here
    <2> HIDE DEF y
    <2> DEFINE G == 0..GateLimit
               R == [status : REVIEWABLE_STATUSES \cup Stopped \cup {"review-ready"},
                     attempts : Nat, gates : G, request : Requests \cup {None},
                     receipt : BOOLEAN, cooling : BOOLEAN, stale : BOOLEAN]
    <2>0. 0 \in G
      BY ReviewAssumption
    <2>3. r \in Records /\ r.request = y.request /\ (r.receipt <=> y.receipt)
          /\ r.attempts = y.attempts
      <3>1. y \in R
        BY <2>2 DEF Records
      <3> HIDE DEF G
      <3>2. r \in R
        BY <2>0, <3>1 DEF REVIEWABLE_STATUSES
      <3>3. r.request = y.request /\ (r.receipt <=> y.receipt) /\ r.attempts = y.attempts
        BY <3>1
      <3> QED BY <3>2, <3>3 DEF G, Records
    <2> HIDE DEF r
    <2> QED BY <1>1, <2>1, <2>3, IdleWrites DEF y
  <1> QED BY <1>2, <1>3

\* What begin_review writes.
LEMMA BeginningRecord ==
  ASSUME IInv
  PROVE  /\ Beginning \in Records /\ Beginning.request = None
         /\ (Beginning.receipt <=> record.receipt) /\ Beginning.attempts = record.attempts + 1
         /\ Beginning.status = "reviewing"
  <1> DEFINE y == record  n == y.attempts + 1
             r == [y EXCEPT !.status = "reviewing", !.attempts = n, !.gates = 0,
                            !.request = None, !.stale = FALSE]
  <1>1. y \in Records /\ n \in Nat
    BY DEF IInv, TypeOK, Records
  <1> HIDE DEF y, n
  <1> DEFINE G == 0..GateLimit
             R == [status : REVIEWABLE_STATUSES \cup Stopped \cup {"review-ready"},
                   attempts : Nat, gates : G, request : Requests \cup {None},
                   receipt : BOOLEAN, cooling : BOOLEAN, stale : BOOLEAN]
  <1>2. r \in Records /\ r.request = None /\ (r.receipt <=> y.receipt)
        /\ r.attempts = n /\ r.status = "reviewing"
    <2>1. 0 \in G
      BY ReviewAssumption
    <2>2. y \in R
      BY <1>1 DEF Records
    <2> HIDE DEF G
    <2>3. r \in R /\ r.request = None /\ (r.receipt <=> y.receipt)
          /\ r.attempts = n /\ r.status = "reviewing"
      BY <1>1, <2>1, <2>2 DEF REVIEWABLE_STATUSES
    <2> QED BY <2>3 DEF G, Records
  <1> QED BY <1>2 DEF y, n, Beginning

\* A pass that leaves the lane, by an attempt that is counted or lost.
LEMMA OneBegins ==
  ASSUME IInv, NEW p \in Workers, w[p].pc = "begin", engines' = engines,
         record'.attempts = record.attempts + 1,
         w'[p].pc \in {"dry", "settle"},
         \A q \in Workers \ {p} : w'[q].pc = w[q].pc
  PROVE  Counted'
  <1>1. p \in Lane /\ p \notin Dry
    BY DEF Lane, Dry, LanePcs
  <1>2. Lane' = Lane \ {p} /\ Dry' \subseteq Dry \cup {p}
    BY DEF Lane, Dry, LanePcs
  <1>3. IsFiniteSet(Lane) /\ IsFiniteSet(Dry) /\ Cardinality(Lane) \in Nat /\ Cardinality(Dry) \in Nat
        /\ Cardinality(Workers) \in Nat
    BY PassesFinite DEF Lane, Dry
  <1>4. Cardinality(Lane') = Cardinality(Lane) - 1
    BY <1>1, <1>2, <1>3, FS_RemoveElement
  <1>5. IsFiniteSet(Dry \cup {p}) /\ Cardinality(Dry \cup {p}) = Cardinality(Dry) + 1
    BY <1>1, <1>3, FS_AddElement
  <1>6. Cardinality(Dry') <= Cardinality(Dry) + 1
    BY <1>2, <1>5, FS_Subset
  <1>7. Cardinality(Dry') \in Nat
    BY <1>2, <1>5, FS_Subset, FS_CardinalityType
  <1>8. engines \in Nat /\ record.attempts \in Nat /\ AttemptLimit \in Nat
    BY ReviewAssumption DEF IInv, TypeOK, Records
  <1>9. /\ engines + Cardinality(Dry) <= record.attempts
        /\ record.attempts + Cardinality(Lane) < AttemptLimit + Cardinality(Workers)
    BY DEF IInv, Counted
  <1>10. engines + Cardinality(Dry') <= record.attempts + 1
    BY <1>3, <1>6, <1>7, <1>8, <1>9
  <1>11. record.attempts + 1 + Cardinality(Lane') < AttemptLimit + Cardinality(Workers)
    BY <1>3, <1>4, <1>8, <1>9
  <1> QED BY <1>10, <1>11 DEF Counted

\* The record is written as begin_review writes it.
LEMMA Begins ==
  ASSUME IInv, NEW p \in Workers, NEW v \in Passes, WriteAs(p, Beginning, v), Calm,
         w[p].pc = "begin", v.pc \in {"dry", "settle"}, v.pc = "settle" => v.error # "none",
         v.pending = w[p].pending, v.receipt <=> w[p].receipt
  PROVE  IInv'
  <1> DEFINE r == Beginning
  <1>1. r \in Records /\ r.request = None /\ (r.receipt <=> record.receipt)
        /\ r.attempts = record.attempts + 1 /\ r.status = "reviewing"
    BY BeginningRecord
  <1>2. WriteAs(p, r, v)
    OBVIOUS
  <1> HIDE DEF r
  <1>3. SoundAt(v, r, runs)
    BY <1>1, Here DEF SoundAt, Stopped
  <1>4. AloneAt(v, r, runs)
    BY <1>1 DEF AloneAt
  <1>5. PinnedIn(r.request, runs) /\ (r.receipt => rendered)
    BY <1>1 DEF PinnedIn, IInv, RecordSound
  <1>6. Counted'
    <2>1. record' = r /\ w'[p] = v
      BY <1>2 DEF WriteAs
    <2>2. ASSUME NEW q \in Workers \ {p} PROVE w'[q].pc = w[q].pc
      <3>1. w'[q] = [w[q] EXCEPT !.fresh = FALSE] /\ w[q] \in Passes
        BY <1>2, Here DEF WriteAs
      <3> QED BY <3>1 DEF Passes
    <2>3. engines' = engines
      BY DEF Calm
    <2> QED BY <1>1, <2>1, <2>2, <2>3, OneBegins
  <1> QED BY <1>1, <1>2, <1>3, <1>4, <1>5, <1>6, Writes

\* BeginReview keeps the invariant.
LEMMA BeginReviewKeeps ==
  ASSUME IInv, NEW p \in Workers, BeginReview(p) PROVE IInv'
  <1>1. w[p].pc = "begin" /\ Calm
    BY QuietIsCalm DEF BeginReview
  <1>2. CASE GoAs(p, Erring(p, "review"))
    BY <1>1, <1>2, Errs DEF Errors
  <1>3. CASE ~GoAs(p, Erring(p, "review"))
    <2> DEFINE x == w[p]  v == [x EXCEPT !.pc = "dry", !.begun = TRUE]
    <2>1. WriteAs(p, Beginning, v)
      BY <1>3 DEF BeginReview
    <2>2. x \in Passes
      BY Here
    <2> HIDE DEF x
    <2>3. v \in Passes /\ v.pc = "dry" /\ v.pending = x.pending /\ (v.receipt <=> x.receipt)
      BY <2>2 DEF Passes, Pcs
    <2> HIDE DEF v
    <2> QED BY <1>1, <2>1, <2>3, Begins DEF x
  <1> QED BY <1>2, <1>3

\* The step of a pass that may have run an engine, for a submission that was rendered.
LEMMA Spends ==
  ASSUME IInv, NEW p \in Workers, NEW v \in Passes, GoAs(p, v), w[p].pc = "dry",
         v.pc \in {"apply", "settle"}, v.pc = "settle" => v.error = "review",
         v.fresh <=> w[p].fresh, v.pending = w[p].pending, v.receipt <=> w[p].receipt,
         engines' \in {engines, engines + 1}, UNCHANGED <<runs, faults, rendered>>
  PROVE  IInv'
  <1>1. record' = record /\ w' = [w EXCEPT ![p] = v] /\ w \in [Workers -> Passes]
    BY Here DEF GoAs
  <1>2. w' \in [Workers -> Passes] /\ w'[p] = v /\ \A q \in Workers \ {p} : w'[q] = w[q]
    BY <1>1
  <1>3. rendered /\ SoundAt(w[p], record, runs)
    BY Here DEF SoundAt
  <1>4. UnknownIds' = UnknownIds
    <2>1. \A q \in Workers : w'[q].pending = w[q].pending
      BY <1>2
    <2> QED BY <1>1, <2>1 DEF UnknownIds
  <1>5. engines' \in Nat
    BY Counters
  <1>6. TypeOK'
    BY <1>1, <1>2, <1>5 DEF IInv, TypeOK
  <1>7. RecordSound' /\ RunsSound' /\ DispatchesBounded'
    BY <1>1, <1>3, <1>4 DEF IInv, RecordSound, RunsSound, DispatchesBounded
  <1>8. ASSUME NEW q \in Workers PROVE SoundAt(w[q], record, runs)'
    <2>1. SoundAt(v, record, runs)
      BY <1>3 DEF SoundAt
    <2>2. SoundAt(w'[q], record, runs)
      BY <1>2, <2>1, Here
    <2> QED BY <1>1, <2>2 DEF SoundAt
  <1>9. ASSUME Alone, NEW q \in Workers PROVE AloneAt(w[q], record, runs)'
    <2>1. q = p
      BY <1>9 DEF Alone
    <2>2. AloneAt(v, record, runs)
      BY <1>9, AtRest
    <2> QED BY <1>1, <1>2, <2>1, <2>2 DEF AloneAt
  <1>10. Counted'
    <2>1. p \in Dry /\ Dry' = Dry \ {p} /\ Lane' \subseteq Lane
      BY <1>2 DEF Lane, Dry, LanePcs
    <2>2. IsFiniteSet(Lane) /\ IsFiniteSet(Dry) /\ Cardinality(Lane) \in Nat
          /\ Cardinality(Dry) \in Nat /\ Cardinality(Workers) \in Nat
      BY PassesFinite DEF Lane, Dry
    <2>3. Cardinality(Dry') = Cardinality(Dry) - 1
      BY <2>1, <2>2, FS_RemoveElement
    <2>4. Cardinality(Lane') <= Cardinality(Lane) /\ Cardinality(Lane') \in Nat
      BY <2>1, <2>2, FS_Subset, FS_CardinalityType
    <2>5. engines \in Nat /\ record.attempts \in Nat /\ AttemptLimit \in Nat
      BY ReviewAssumption DEF IInv, TypeOK, Records
    <2>6. /\ engines + Cardinality(Dry) <= record.attempts
          /\ record.attempts + Cardinality(Lane) < AttemptLimit + Cardinality(Workers)
      BY DEF IInv, Counted
    <2>7. engines' + Cardinality(Dry') <= record.attempts
      BY <2>2, <2>3, <2>5, <2>6
    <2>8. record.attempts + Cardinality(Lane') < AttemptLimit + Cardinality(Workers)
      BY <2>2, <2>4, <2>5, <2>6
    <2> QED BY <1>1, <2>7, <2>8 DEF Counted
  <1>11. Alone' <=> Alone
    BY DEF Alone
  <1> QED BY <1>6, <1>7, <1>8, <1>9, <1>10, <1>11 DEF IInv, AllSound, AllAlone

\* RunReview keeps the invariant.
LEMMA RunReviewKeeps ==
  ASSUME IInv, NEW p \in Workers, RunReview(p) PROVE IInv'
  <1>1. w[p].pc = "dry" /\ engines' \in {engines, engines + 1} /\ UNCHANGED <<runs, faults, rendered>>
        /\ (GoAs(p, Goto(p, "apply")) \/ GoAs(p, Erring(p, "review")))
    BY DEF RunReview
  <1>2. CASE GoAs(p, Goto(p, "apply"))
    <2> DEFINE v == Goto(p, "apply")
    <2>1. v \in Passes /\ v.pc = "apply" /\ (v.fresh <=> w[p].fresh)
          /\ v.pending = w[p].pending /\ (v.receipt <=> w[p].receipt) /\ GoAs(p, v)
      BY <1>2, Going DEF Pcs
    <2> HIDE DEF v
    <2> QED BY <1>1, <2>1, Spends
  <1>3. CASE GoAs(p, Erring(p, "review"))
    <2> DEFINE v == Erring(p, "review")
    <2>1. v \in Passes /\ v.pc = "settle" /\ v.error = "review" /\ (v.fresh <=> w[p].fresh)
          /\ v.pending = w[p].pending /\ (v.receipt <=> w[p].receipt) /\ GoAs(p, v)
      BY <1>3, Failing DEF Errors
    <2> HIDE DEF v
    <2> QED BY <1>1, <2>1, Spends
  <1> QED BY <1>1, <1>2, <1>3

\* ApplyReview keeps the invariant.
LEMMA ApplyReviewKeeps ==
  ASSUME IInv, NEW p \in Workers, ApplyReview(p) PROVE IInv'
  <1>1. w[p].pc = "apply" /\ Calm
    BY QuietIsCalm DEF ApplyReview
  <1>2. CASE ~Readable
    <2>1. GoAs(p, Erring(p, "review"))
      BY <1>2 DEF ApplyReview
    <2> QED BY <1>1, <2>1, Errs DEF Errors
  <1>3. CASE Readable
    <2> DEFINE x == w[p]  v == [x EXCEPT !.pc = "deliver", !.fresh = TRUE]
    <2>1. GoAs(p, v)
      BY <1>3 DEF ApplyReview
    <2>2. x \in Passes /\ SoundAt(x, record, runs)
      BY Here
    <2>3. x.pc = "apply"
      BY <1>1
    <2> HIDE DEF x
    <2>4. v \in Passes /\ v.pc = "deliver" /\ v.pending = x.pending /\ (v.receipt <=> x.receipt)
      BY <2>2 DEF Passes, Pcs
    <2> HIDE DEF v
    <2>5. SoundAt(v, record, runs)
      BY <1>3, <2>2, <2>3, <2>4 DEF SoundAt, Readable, REVIEWABLE_STATUSES, Stopped
    <2>6. ASSUME Alone PROVE AloneAt(v, record, runs)
      BY <2>4, <2>6, AtRest
    <2> QED BY <1>1, <2>1, <2>4, <2>5, <2>6, Goes DEF LanePcs
  <1> QED BY <1>2, <1>3

\* The record that a delivery writes.
LEMMA DeliveredRecord ==
  ASSUME IInv
  PROVE  LET r == [record EXCEPT !.status = "review-ready", !.cooling = FALSE]
         IN  /\ r \in Records /\ r.request = record.request /\ (r.receipt <=> record.receipt)
             /\ r.attempts = record.attempts /\ r.status = "review-ready"
  <1> DEFINE y == record  r == [y EXCEPT !.status = "review-ready", !.cooling = FALSE]
  <1>1. y \in Records
    BY DEF IInv, TypeOK
  <1> HIDE DEF y
  <1>2. r \in Records /\ r.request = y.request /\ (r.receipt <=> y.receipt)
        /\ r.attempts = y.attempts /\ r.status = "review-ready"
    BY <1>1 DEF Records
  <1> QED BY <1>2 DEF y

\* Deliver keeps the invariant.
LEMMA DeliverKeeps ==
  ASSUME IInv, NEW p \in Workers, Deliver(p) PROVE IInv'
  <1>1. w[p].pc = "deliver" /\ Calm
    BY QuietIsCalm DEF Deliver
  <1>2. CASE GoAs(p, Erring(p, "review"))
    BY <1>1, <1>2, Errs DEF Errors
  <1>3. CASE ~GoAs(p, Erring(p, "review"))
    <2> DEFINE r == [record EXCEPT !.status = "review-ready", !.cooling = FALSE]
    <2>1. WriteAs(p, r, Idle)
      BY <1>3 DEF Deliver
    <2>2. r \in Records /\ r.request = record.request /\ (r.receipt <=> record.receipt)
          /\ r.attempts = record.attempts
      BY DeliveredRecord
    <2> HIDE DEF r
    <2> QED BY <1>1, <2>1, <2>2, IdleWrites
  <1> QED BY <1>2, <1>3

\* The record that a failure leaves.
LEMMA SettledRecord ==
  ASSUME IInv, NEW e \in Errors \ {"none"}
  PROVE  LET r == Settled(e)
         IN  /\ r \in Records /\ r.request \in {record.request, None}
             /\ (r.receipt <=> record.receipt) /\ r.attempts = record.attempts
  <1> DEFINE y == record
             later == [y EXCEPT !.status = "awaiting-review", !.cooling = TRUE]
             again == [later EXCEPT !.request = None]
             stop(status) == [y EXCEPT !.status = status, !.request = None, !.cooling = FALSE]
             Fine(r) == /\ r \in Records /\ r.request \in {y.request, None}
                        /\ (r.receipt <=> y.receipt) /\ r.attempts = y.attempts
  <1>1. y \in Records
    BY DEF IInv, TypeOK
  <1>2. Settled(e) \in {later, again, stop("verification-failed"), stop("verification-error")}
    BY DEF Settled, Later, Errors
  <1> HIDE DEF y
  <1>3. Fine(later)
    BY <1>1 DEF Records, REVIEWABLE_STATUSES
  <1>4. Fine(again)
    <2> HIDE DEF later
    <2> QED BY <1>1, <1>3 DEF Records
  <1>5. Fine(stop("verification-failed")) /\ Fine(stop("verification-error"))
    BY <1>1 DEF Records, Stopped
  <1> DEFINE s == Settled(e)
  <1>6. s \in {later, again, stop("verification-failed"), stop("verification-error")}
    BY <1>2
  <1> HIDE DEF s, later, again, stop
  <1>7. Fine(s)
    BY <1>3, <1>4, <1>5, <1>6
  <1> QED BY <1>7 DEF y, s

\* A pass that settles has an error.
LEMMA HasError ==
  ASSUME IInv, NEW p \in Workers, w[p].pc = "settle"
  PROVE  w[p].error \in Errors \ {"none"}
  BY Here DEF SoundAt, Passes

\* Settle keeps the invariant.
LEMMA SettleKeeps ==
  ASSUME IInv, NEW p \in Workers, Settle(p) PROVE IInv'
  <1>1. w[p].pc = "settle" /\ Calm
    BY QuietIsCalm DEF Settle
  <1>2. CASE GoAs(p, Idle)
    BY <1>1, <1>2, Idles
  <1>3. CASE ~GoAs(p, Idle)
    <2> DEFINE r == Settled(w[p].error)
    <2>1. WriteAs(p, r, Idle)
      BY <1>3 DEF Settle
    <2>2. r \in Records /\ r.request \in {record.request, None}
          /\ (r.receipt <=> record.receipt) /\ r.attempts = record.attempts
      BY <1>1, HasError, SettledRecord
    <2> HIDE DEF r
    <2> QED BY <1>1, <2>1, <2>2, IdleWrites
  <1> QED BY <1>2, <1>3

\* Crash keeps the invariant.
LEMMA CrashKeeps ==
  ASSUME IInv, NEW p \in Workers, Crash(p) PROVE IInv'
  BY QuietIsCalm, Idles DEF Crash

\* Raise keeps the invariant.
LEMMA RaiseKeeps ==
  ASSUME IInv, NEW p \in Workers, Raise(p) PROVE IInv'
  <1>1. Calm
    BY QuietIsCalm DEF Raise
  <1>2. CASE GoAs(p, Idle)
    BY <1>1, <1>2, Idles
  <1>3. CASE ~GoAs(p, Idle)
    <2>1. PICK e \in {"gate", "pending", "review"} : GoAs(p, Erring(p, e))
      BY <1>3 DEF Raise
    <2>2. e \in Errors \ {"none"} /\ e \notin {"finished", "submitter"}
      BY DEF Errors
    <2> QED BY <1>1, <2>1, <2>2, Errs
  <1> QED BY <1>2, <1>3

\* LoseAnswer keeps the invariant.
LEMMA LoseAnswerKeeps ==
  ASSUME IInv, NEW p \in Workers, LoseAnswer(p) PROVE IInv'
  <1> DEFINE v == Erring(p, "review")
             r == [record EXCEPT !.status = "review-ready", !.cooling = FALSE]
  <1>1. Calm /\ w[p].fresh
    BY QuietIsCalm DEF LoseAnswer
  <1>2. \/ w[p].pc = "begin" /\ WriteAs(p, Beginning, v)
        \/ w[p].pc = "deliver" /\ WriteAs(p, r, v)
    BY DEF LoseAnswer
  <1>3. v \in Passes /\ v.pc = "settle" /\ v.error = "review" /\ (v.fresh <=> w[p].fresh)
        /\ v.pending = w[p].pending /\ (v.receipt <=> w[p].receipt)
    BY Failing DEF Errors
  <1>4. r \in Records /\ r.request = record.request /\ (r.receipt <=> record.receipt)
        /\ r.attempts = record.attempts /\ r.status = "review-ready"
    BY DeliveredRecord
  <1> HIDE DEF v, r
  <1>5. CASE w[p].pc = "begin" /\ WriteAs(p, Beginning, v)
    BY <1>1, <1>3, <1>5, Begins
  <1>6. CASE w[p].pc = "deliver" /\ WriteAs(p, r, v)
    <2>1. SoundAt(v, r, runs)
      BY <1>3, <1>4, Here DEF SoundAt, Stopped
    <2>2. ASSUME Alone PROVE AloneAt(v, r, runs)
      BY <1>3, <1>4, <2>2, AtRest
    <2>3. PinnedIn(r.request, runs) /\ (r.receipt => rendered)
      BY <1>4 DEF IInv, RecordSound
    <2> QED BY <1>1, <1>3, <1>4, <1>6, <2>1, <2>2, <2>3, Writes DEF LanePcs
  <1> QED BY <1>2, <1>5, <1>6

\* SettleBlind keeps the invariant.
LEMMA SettleBlindKeeps ==
  ASSUME IInv, NEW p \in Workers, SettleBlind(p) PROVE IInv'
  <1>1. w[p].pc = "settle" /\ Calm
    BY QuietIsCalm DEF SettleBlind
  <1>2. CASE GoAs(p, Idle)
    BY <1>1, <1>2, Idles
  <1>3. CASE ~GoAs(p, Idle)
    <2> DEFINE r == Settled("review")
    <2>1. WriteAs(p, r, Idle)
      BY <1>3 DEF SettleBlind
    <2>2. r \in Records /\ r.request \in {record.request, None}
          /\ (r.receipt <=> record.receipt) /\ r.attempts = record.attempts
      BY SettledRecord DEF Errors
    <2> HIDE DEF r
    <2> QED BY <1>1, <2>1, <2>2, IdleWrites
  <1> QED BY <1>2, <1>3

-----------------------------------------------------------------------------
\* The steps of the world.

\* Counts of passes do not change when none of them moves.
LEMMA NobodyMoves ==
  ASSUME IInv, \A p \in Workers : w'[p].pc = w[p].pc, engines' = engines,
         record'.attempts = record.attempts
  PROVE  Counted'
  BY FewerOnTheWay

\* Withdraw keeps the invariant.
LEMMA WithdrawKeeps ==
  ASSUME IInv, Withdraw PROVE IInv'
  <1> DEFINE y == record  r == [y EXCEPT !.status = "withdrawn"]
  <1>1. record' = r /\ Calm /\ w' = [q \in Workers |-> [w[q] EXCEPT !.fresh = FALSE]]
    BY QuietIsCalm DEF Withdraw
  <1>2. y \in Records
    BY DEF IInv, TypeOK
  <1> HIDE DEF y
  <1>3. r \in Records /\ r.request = y.request /\ (r.receipt <=> y.receipt) /\ r.attempts = y.attempts
    BY <1>2 DEF Records, Stopped
  <1> HIDE DEF r
  <1>4. ASSUME NEW p \in Workers
        PROVE  /\ w'[p] \in Passes /\ w'[p].pc = w[p].pc /\ w'[p].pending = w[p].pending
               /\ w'[p].error = w[p].error /\ SoundAt(w'[p], r, runs)
    <2> DEFINE x == w[p]  v == [x EXCEPT !.fresh = FALSE]
    <2>1. x \in Passes /\ SoundAt(x, record, runs) /\ w'[p] = v
      BY <1>1, Here
    <2> HIDE DEF x
    <2>2. v \in Passes /\ ~v.fresh /\ v.pc = x.pc /\ v.pending = x.pending /\ (v.receipt <=> x.receipt)
          /\ v.error = x.error
      BY <2>1 DEF Passes
    <2> HIDE DEF v
    <2>3. SoundAt(v, r, runs)
      BY <2>1, <2>2 DEF SoundAt
    <2> QED BY <2>1, <2>2, <2>3 DEF x
  <1>5. w' \in [Workers -> Passes]
    BY <1>1, <1>4
  <1>6. PinnedIn(r.request, runs) /\ (r.receipt => rendered)
    BY <1>3 DEF y, IInv, RecordSound
  <1>7. ASSUME Alone, NEW p \in Workers PROVE AloneAt(w'[p], r, runs)
    <2>1. AloneAt(w[p], record, runs) /\ r.request = record.request
      BY <1>3, <1>7, Here DEF y
    <2> QED BY <1>4, <2>1 DEF AloneAt
  <1>8. Counted'
    <2>1. record'.attempts = record.attempts /\ engines' = engines
      BY <1>1, <1>3 DEF y, Calm
    <2> QED BY <1>4, <2>1, NobodyMoves
  <1> QED BY <1>1, <1>3, <1>4, <1>5, <1>6, <1>7, <1>8, Moves

\* Time passes over the record: no decision and no request changes.
LEMMA Waits ==
  ASSUME IInv, record' \in Records, UNCHANGED w, Calm,
         record'.status = record.status, record'.receipt <=> record.receipt,
         record'.attempts = record.attempts,
         record.request = None <=> record'.request = None,
         record.request # None => Same(record'.request, record.request)
  PROVE  IInv'
  <1>1. w' \in [Workers -> Passes]
    BY DEF IInv, TypeOK
  <1>2. PinnedIn(record'.request, runs) /\ (record'.receipt => rendered)
    BY DEF IInv, RecordSound, PinnedIn, Same
  <1>3. ASSUME NEW p \in Workers PROVE SoundAt(w'[p], record', runs)
    BY Here DEF SoundAt
  <1>4. ASSUME Alone, NEW p \in Workers PROVE AloneAt(w'[p], record', runs)
    <2>1. AloneAt(w[p], record, runs) /\ w'[p] = w[p]
      BY <1>4, Here
    <2> QED BY <2>1 DEF AloneAt, Same, OverIn
  <1>5. Counted'
    BY NobodyMoves DEF Calm
  <1> QED BY <1>1, <1>2, <1>3, <1>4, <1>5, Moves

\* CoolOff keeps the invariant.
LEMMA CoolOffKeeps ==
  ASSUME IInv, CoolOff PROVE IInv'
  <1> DEFINE y == record  r == [y EXCEPT !.cooling = FALSE]
  <1>1. record' = r /\ Calm /\ UNCHANGED w
    BY QuietIsCalm DEF CoolOff
  <1>2. y \in Records
    BY DEF IInv, TypeOK
  <1> HIDE DEF y
  <1>3. r \in Records /\ r.request = y.request /\ (r.receipt <=> y.receipt) /\ r.attempts = y.attempts
        /\ r.status = y.status
    BY <1>2 DEF Records
  <1> HIDE DEF r
  <1> QED BY <1>1, <1>3, Waits DEF y, Same

\* GoStale keeps the invariant.
LEMMA GoStaleKeeps ==
  ASSUME IInv, GoStale PROVE IInv'
  <1> DEFINE y == record  r == [y EXCEPT !.stale = TRUE]
  <1>1. record' = r /\ Calm /\ UNCHANGED w
    BY QuietIsCalm DEF GoStale
  <1>2. y \in Records
    BY DEF IInv, TypeOK
  <1> HIDE DEF y
  <1>3. r \in Records /\ r.request = y.request /\ (r.receipt <=> y.receipt) /\ r.attempts = y.attempts
        /\ r.status = y.status
    BY <1>2 DEF Records
  <1> HIDE DEF r
  <1> QED BY <1>1, <1>3, Waits DEF y, Same

\* Age keeps the invariant.
LEMMA AgeKeeps ==
  ASSUME IInv, Age PROVE IInv'
  <1> DEFINE y == record  old == y.request  new == [old EXCEPT !.recent = FALSE]
             r == [y EXCEPT !.request = new]
  <1>1. record' = r /\ Calm /\ UNCHANGED w /\ old # None
    BY QuietIsCalm DEF Age
  <1>2. y \in Records /\ old \in Requests
    BY <1>1 DEF IInv, TypeOK, Records
  <1> HIDE DEF old
  <1>3. new \in Requests /\ Same(new, old) /\ new # None
    <2>1. new \in Requests
      BY <1>2 DEF Requests
    <2>2. new.id = old.id /\ new.run = old.run /\ new.dispatches = old.dispatches
      BY <1>2 DEF Requests
    <2> QED BY <2>1, <2>2, NoneAssumption DEF Same
  <1> HIDE DEF new, y
  <1>4. r \in Records /\ r.request = new /\ (r.receipt <=> y.receipt) /\ r.attempts = y.attempts
        /\ r.status = y.status
    BY <1>2, <1>3 DEF Records
  <1> HIDE DEF r
  <1> QED BY <1>1, <1>3, <1>4, Waits DEF y, old

\* A run that is listed, or that ends.
LEMMA Changes ==
  ASSUME IInv, NEW id \in RequestIds, NEW i \in DOMAIN runs[id], NEW run \in Runs \ {"unlisted"},
         runs[id][i] \notin Verdicts, Change(id, i, run)
  PROVE  /\ runs' \in [RequestIds -> Seq(Runs)]
         /\ \A j \in RequestIds : /\ DOMAIN runs'[j] = DOMAIN runs[j]
                                  /\ Len(runs'[j]) = Len(runs[j])
         /\ \A j \in RequestIds : \A k \in DOMAIN runs[j] :
              runs'[j][k] = IF j = id /\ k = i THEN run ELSE runs[j][k]
  <1> DEFINE s == runs[id]  t == [s EXCEPT ![i] = run]
  <1>1. runs' = [runs EXCEPT ![id] = t] /\ runs \in [RequestIds -> Seq(Runs)] /\ s \in Seq(Runs)
    BY Counters DEF Change
  <1>2. i \in 1..Len(s) /\ DOMAIN s = 1..Len(s)
    BY <1>1, LenProperties
  <1> HIDE DEF s
  <1>3. t \in Seq(Runs) /\ Len(t) = Len(s) /\ \A k \in 1..Len(s) : t[k] = IF k = i THEN run ELSE s[k]
    BY <1>1, <1>2, ExceptSeq
  <1>4. DOMAIN t = DOMAIN s
    BY <1>1
  <1> HIDE DEF t
  <1>5. runs'[id] = t /\ \A j \in RequestIds \ {id} : runs'[j] = runs[j]
    BY <1>1
  <1>6. runs' \in [RequestIds -> Seq(Runs)]
    BY <1>1, <1>3
  <1>7. ASSUME NEW j \in RequestIds
        PROVE  /\ DOMAIN runs'[j] = DOMAIN runs[j] /\ Len(runs'[j]) = Len(runs[j])
               /\ \A k \in DOMAIN runs[j] :
                    runs'[j][k] = IF j = id /\ k = i THEN run ELSE runs[j][k]
    <2>1. CASE j = id
      BY <1>2, <1>3, <1>4, <1>5, <2>1 DEF s
    <2>2. CASE j # id
      BY <1>5, <2>2
    <2> QED BY <2>1, <2>2
  <1> QED BY <1>6, <1>7

\* Whatever becomes of a listed run, the invariant is kept.
LEMMA ChangeKeeps ==
  ASSUME IInv, NEW id \in RequestIds, NEW i \in DOMAIN runs[id], NEW run \in Runs \ {"unlisted"},
         runs[id][i] \notin Verdicts, Change(id, i, run)
  PROVE  IInv'
  <1>1. UNCHANGED <<record, w, faults, engines>> /\ rendered' = (rendered \/ run = "success")
    BY DEF Change
  <1>2. rendered \in BOOLEAN /\ rendered' \in BOOLEAN /\ (rendered => rendered')
    BY <1>1, Counters
  <1>3. /\ runs' \in [RequestIds -> Seq(Runs)]
        /\ \A j \in RequestIds : DOMAIN runs'[j] = DOMAIN runs[j] /\ Len(runs'[j]) = Len(runs[j])
        /\ \A j \in RequestIds : \A k \in DOMAIN runs[j] :
             runs'[j][k] = IF j = id /\ k = i THEN run ELSE runs[j][k]
    BY Changes
  <1>4. TypeOK'
    BY <1>1, <1>2, <1>3 DEF IInv, TypeOK
  <1>5. ASSUME NEW r \in Requests \cup {None}, PinnedIn(r, runs) PROVE PinnedIn(r, runs')
    BY <1>3, <1>5, Lens DEF PinnedIn
  <1>6. RecordSound'
    BY <1>1, <1>2, <1>5, Lens DEF IInv, RecordSound
  <1>7. RunsSound'
    <2>1. \A j \in RequestIds : \A k \in DOMAIN runs'[j] : runs'[j][k] = "success" => rendered'
      BY <1>1, <1>2, <1>3 DEF IInv, RunsSound
    <2>2. UnknownIds' = UnknownIds
      BY <1>1 DEF UnknownIds
    <2>3. id \notin UnknownIds
      <3>1. runs[id] # <<>>
        OBVIOUS
      <3> QED BY <3>1 DEF IInv, RunsSound
    <2>4. ASSUME NEW j \in UnknownIds PROVE runs'[j] = <<>>
      <3>1. j \in RequestIds /\ runs[j] = <<>> /\ j # id
        BY <2>3 DEF IInv, RunsSound, UnknownIds
      <3>2. runs' = [runs EXCEPT ![id][i] = run] /\ runs \in [RequestIds -> Seq(Runs)]
        BY Counters DEF Change
      <3> QED BY <3>1, <3>2
    <2> QED BY <2>1, <2>2, <2>4 DEF RunsSound
  <1>8. ASSUME NEW p \in Workers PROVE SoundAt(w[p], record, runs)'
    <2>1. SoundAt(w[p], record, runs) /\ w[p] \in Passes
      BY Here
    <2>2. w[p].pending \in Requests \cup {None}
      BY <2>1 DEF Passes
    <2> QED BY <1>1, <1>2, <1>5, <2>1, <2>2 DEF SoundAt
  <1>9. ASSUME Alone, NEW p \in Workers PROVE AloneAt(w[p], record, runs)'
    <2>1. AloneAt(w[p], record, runs)
      BY <1>9, Here
    <2>2. ASSUME record.request # None, OverIn(record.request, runs)
          PROVE  OverIn(record.request, runs')
      <3>1. record.request.id \in RequestIds
        BY <2>2, Lens
      <3> QED BY <1>3, <2>2, <3>1 DEF OverIn
    <2>3. record.request # None => Len(runs'[record.request.id]) = Len(runs[record.request.id])
      BY <1>3, Lens
    <2> QED BY <1>1, <2>1, <2>2, <2>3 DEF AloneAt
  <1>10. Counted' /\ DispatchesBounded'
    <2>1. Counted'
      BY <1>1, NobodyMoves
    <2> QED BY <1>3, <2>1 DEF IInv, DispatchesBounded, Alone
  <1>11. Alone' <=> Alone
    BY DEF Alone
  <1> QED BY <1>4, <1>6, <1>7, <1>8, <1>9, <1>10, <1>11 DEF IInv, AllSound, AllAlone

\* Progress keeps the invariant.
LEMMA ProgressKeeps ==
  ASSUME IInv, NEW id \in RequestIds, NEW i \in DOMAIN runs[id], Progress(id, i) PROVE IInv'
  <1>1. PICK run \in Runs \ {"unlisted"} : Change(id, i, run)
    BY DEF Progress, Runs, Verdicts
  <1>2. runs[id][i] \notin Verdicts
    BY DEF Progress, Verdicts
  <1> QED BY <1>1, <1>2, ChangeKeeps

-----------------------------------------------------------------------------
\* The invariant.

\* The invariant holds initially.
LEMMA InitIInv == Init => IInv
  <1> SUFFICES ASSUME Init PROVE IInv
    OBVIOUS
  <1>1. record.status = "awaiting-review" /\ record.attempts = 0 /\ record.request = None
        /\ ~record.receipt /\ runs = [id \in RequestIds |-> <<>>] /\ w = [p \in Workers |-> Idle]
        /\ faults = 0 /\ engines = 0 /\ rendered = FALSE
    BY DEF Init
  <1>2. Idle \in Passes /\ Idle.pc = "idle" /\ ~Idle.fresh /\ Idle.pending = None /\ ~Idle.receipt
    BY DEF Idle, Passes, Pcs, Errors
  <1>3. TypeOK
    <2>1. record \in Records
      BY ReviewAssumption DEF Init, Records, REVIEWABLE_STATUSES
    <2>2. <<>> \in Seq(Runs)
      OBVIOUS
    <2>3. runs \in [RequestIds -> Seq(Runs)]
      BY <1>1, <2>2
    <2>4. w \in [Workers -> Passes]
      BY <1>1, <1>2
    <2>5. faults \in 0..MaxFaults /\ engines \in Nat
      BY <1>1, ReviewAssumption
    <2>6. rendered \in BOOLEAN
      BY <1>1
    <2> QED BY <2>1, <2>3, <2>4, <2>5, <2>6 DEF TypeOK
  <1>4. RecordSound /\ RunsSound
    BY <1>1 DEF RecordSound, RunsSound, PinnedIn, UnknownIds
  <1>5. AllSound
    BY <1>1, <1>2 DEF AllSound, SoundAt, PinnedIn
  <1>6. AllAlone
    BY <1>1, <1>2 DEF AllAlone, AloneAt
  <1>7. Counted
    <2>1. Lane = {} /\ Dry = {}
      BY <1>1, <1>2 DEF Lane, Dry, LanePcs
    <2>2. Cardinality(Lane) = 0 /\ Cardinality(Dry) = 0 /\ Cardinality(Workers) \in Nat
      BY <2>1, FS_EmptySet, PassesFinite
    <2> QED BY <1>1, <2>2, ReviewAssumption DEF Counted
  <1>8. DispatchesBounded
    <2>1. \A id \in RequestIds : Len(runs[id]) = 0
      BY <1>1
    <2> QED BY <2>1, ReviewAssumption DEF DispatchesBounded
  <1> QED BY <1>3, <1>4, <1>5, <1>6, <1>7, <1>8 DEF IInv

\* Stuttering keeps the invariant.
LEMMA StutterKeeps ==
  ASSUME IInv, UNCHANGED vars PROVE IInv'
  BY DEF vars, IInv, TypeOK, RecordSound, RunsSound, UnknownIds, AllSound, SoundAt, PinnedIn,
         Counted, Lane, Dry, AllAlone, AloneAt, OverIn, DispatchesBounded, Alone

\* Every step of a pass keeps the invariant.
LEMMA StepKeeps ==
  ASSUME IInv, NEW p \in Workers, Step(p) PROVE IInv'
  <1>1. CASE SelectExhausted(p) BY <1>1, SelectExhaustedKeeps
  <1>2. CASE Abandon(p) BY <1>2, AbandonKeeps
  <1>3. CASE Select(p) BY <1>3, SelectKeeps
  <1>4. CASE GateBegin(p) BY <1>4, GateBeginKeeps
  <1>5. CASE Prepare(p) BY <1>5, PrepareKeeps
  <1>6. CASE SaveRequest(p) BY <1>6, SaveRequestKeeps
  <1>7. CASE Restore(p) BY <1>7, RestoreKeeps
  <1>8. CASE Expire(p) BY <1>8, ExpireKeeps
  <1>9. CASE Observe(p) BY <1>9, ObserveKeeps
  <1>10. CASE Discover(p) BY <1>10, DiscoverKeeps
  <1>11. CASE AwaitDiscovery(p) BY <1>11, AwaitDiscoveryKeeps
  <1>12. CASE GiveUp(p) BY <1>12, GiveUpKeeps
  <1>13. CASE SaveDispatch(p) BY <1>13, SaveDispatchKeeps
  <1>14. CASE Dispatch(p) BY <1>14, DispatchKeeps
  <1>15. CASE Accept(p) BY <1>15, AcceptKeeps
  <1>16. CASE Postpone(p) BY <1>16, PostponeKeeps
  <1>17. CASE BeginReview(p) BY <1>17, BeginReviewKeeps
  <1>18. CASE RunReview(p) BY <1>18, RunReviewKeeps
  <1>19. CASE ApplyReview(p) BY <1>19, ApplyReviewKeeps
  <1>20. CASE Deliver(p) BY <1>20, DeliverKeeps
  <1>21. CASE Settle(p) BY <1>21, SettleKeeps
  <1> QED BY <1>1, <1>2, <1>3, <1>4, <1>5, <1>6, <1>7, <1>8, <1>9, <1>10, <1>11, <1>12, <1>13,
             <1>14, <1>15, <1>16, <1>17, <1>18, <1>19, <1>20, <1>21 DEF Step

\* Every step keeps the invariant.
LEMMA NextKeeps ==
  ASSUME IInv, [Next]_vars PROVE IInv'
  <1>1. CASE \E p \in Workers : Step(p)
    BY <1>1, StepKeeps
  <1>2. CASE \E p \in Workers : Crash(p) \/ Raise(p) \/ LoseAnswer(p) \/ SettleBlind(p)
    BY <1>2, CrashKeeps, RaiseKeeps, LoseAnswerKeeps, SettleBlindKeeps
  <1>3. CASE World
    BY <1>3, WithdrawKeeps, CoolOffKeeps, GoStaleKeeps, AgeKeeps, ProgressKeeps DEF World
  <1>4. CASE UNCHANGED vars
    BY <1>4, StutterKeeps
  <1> QED BY <1>1, <1>2, <1>3, <1>4 DEF Next

\* The inductive invariant holds in every reachable state.
THEOREM Invariance == Spec => []IInv
  <1>1. Init => IInv
    BY InitIInv
  <1>2. IInv /\ [Next]_vars => IInv'
    BY NextKeeps
  <1> QED BY <1>1, <1>2, PTL DEF Spec

\* Types.
THEOREM Typed == Spec => []TypeOK
  <1>1. IInv => TypeOK
    BY DEF IInv
  <1> QED BY <1>1, Invariance, PTL

\* Whatever number of passes run and wherever they die, no more engines are started
\* than attempts were counted, the attempts stay within the limit but for the passes
\* that were already on their way, and a request is dispatched as often as its limit
\* says while passes do not overlap (begin_review, _dispatch in cli.py).
THEOREM Bounded == Spec => []SpendingBounded
  <1>1. ASSUME IInv PROVE SpendingBounded
    <2>1. Cardinality(Dry) \in Nat /\ Cardinality(Lane) \in Nat /\ Cardinality(Workers) \in Nat
      BY PassesFinite DEF Dry, Lane
    <2>2. engines \in Nat /\ record.attempts \in Nat /\ AttemptLimit \in Nat
      BY <1>1, ReviewAssumption DEF IInv, TypeOK, Records
    <2>3. AttemptsBounded
      BY <1>1, <2>1, <2>2 DEF IInv, Counted, AttemptsBounded
    <2> QED BY <1>1, <2>3 DEF IInv, SpendingBounded
  <1> QED BY <1>1, Invariance, PTL

\* No engine is started for a submission none of whose renders succeeded, whatever
\* another pass or a crash did in between (ensure_review_renderable, begin_review).
THEOREM Rendered == Spec => []ReviewedIsRendered
  <1>1. IInv => ReviewedIsRendered
    BY DEF IInv, RecordSound, ReviewedIsRendered
  <1> QED BY <1>1, Invariance, PTL

-----------------------------------------------------------------------------
\* What a step may do to the record.

\* A decision stands, and a request is only forgotten for a verdict or a receipt.
Leaves(new) ==
    /\ record.status \in Stopped => new.status = record.status
    /\ Alone /\ record.request # None /\ new.request = None
         => Over(record.request) \/ new.receipt

\* A record that is not written stands.
LEMMA NotWritten ==
  ASSUME record' = record PROVE Leaves(record')
  BY DEF Leaves

\* Another status for a submission that is not stopped.
LEMMA Rewritten ==
  ASSUME NEW new, record.status \notin Stopped, new.request = record.request PROVE Leaves(new)
  BY DEF Leaves

\* What a failure handler writes respects decisions and requests.
LEMMA SettledLeaves ==
  ASSUME IInv, NEW p \in Workers, NEW e \in Errors \ {"none"}, record.status \notin Stopped,
         Alone /\ e \in {"finished", "submitter"} /\ record.request # None
           => OverIn(record.request, runs)
  PROVE  Leaves(Settled(e))
  <1> DEFINE r == Settled(e)
  <1>1. Alone /\ record.request # None /\ r.request = None => e \in {"finished", "submitter"}
    <2>1. record \in Records
      BY Here
    <2>2. ASSUME e \in {"pending", "review", "gate"}, record.request # None
          PROVE  r.request = record.request
      BY <2>1, <2>2 DEF Settled, Later, Records
    <2> HIDE DEF r
    <2>3. e \in {"pending", "review", "gate"} \/ e \in {"finished", "submitter"}
      BY DEF Errors
    <2> QED BY <2>2, <2>3
  <1> HIDE DEF r
  <1>2. ASSUME Alone, record.request # None, r.request = None PROVE Over(record.request)
    BY <1>1, <1>2 DEF Over, OverIn
  <1>3. Leaves(r)
    BY <1>2 DEF Leaves
  <1> QED BY <1>3 DEF r

\* A pass that stands where it goes by the live copy finds no decision.
LEMMA Fresh ==
  ASSUME IInv, NEW p \in Workers, w[p].fresh PROVE record.status \notin Stopped
  BY Here DEF SoundAt

\* A request that is saved is there.
LEMMA SavedLeaves ==
  ASSUME IInv, NEW p \in Workers, Step(p), NEW r, NEW v, WriteAs(p, Saved(r), v), Reviewable,
         v.pc \in {"render", "dispatch"}, v.pending = r
  PROVE  Leaves(record')
  <1>1. SoundAt(w[p], record, runs)' /\ w'[p] = v
    BY StepKeeps DEF IInv, AllSound, WriteAs
  <1>2. r # None
    BY <1>1 DEF SoundAt
  <1>3. record \in Records /\ record' = Saved(r)
    BY Here DEF WriteAs
  <1>4. record'.request = r
    BY <1>3 DEF Saved, Records
  <1> QED BY <1>2, <1>4 DEF Leaves, Reviewable, REVIEWABLE_STATUSES, Stopped

\* So does every step of a pass,
LEMMA StepLeaves ==
  ASSUME IInv, NEW p \in Workers, Step(p) PROVE Leaves(record')
  <1>0. record \in Records /\ SoundAt(w[p], record, runs)
    BY Here
  <1>1. CASE record' = record
    BY <1>1, NotWritten
  <1>2. CASE Abandon(p) /\ record' # record
    BY <1>0, <1>2, Rewritten DEF Abandon, GoAs, WriteAs, Exhausted, ToReview, Stopped, Records
  <1>3. CASE GateBegin(p) /\ record' # record
    BY <1>0, <1>3, Fresh, Rewritten DEF GateBegin, GoAs, WriteAs, Records
  <1>4. CASE (SaveRequest(p) \/ Discover(p) \/ SaveDispatch(p)) /\ record' # record
    <2>1. CASE SaveRequest(p)
      <3>1. PICK r : /\ WriteAs(p, Saved(r), [w[p] EXCEPT !.pc = "render", !.pending = r])
                     /\ Reviewable
        BY <1>4, <2>1 DEF SaveRequest, GoAs, MaySave
      <3> DEFINE x == w[p]  v == [x EXCEPT !.pc = "render", !.pending = r]
      <3>2. WriteAs(p, Saved(r), v) /\ x \in Passes
        BY <3>1, Here
      <3> HIDE DEF x
      <3>3. v.pc = "render" /\ v.pending = r
        BY <3>2 DEF Passes
      <3> HIDE DEF v
      <3> QED BY <3>1, <3>2, <3>3, SavedLeaves
    <2>2. CASE Discover(p)
      <3>1. PICK r : /\ WriteAs(p, Saved(r), [w[p] EXCEPT !.pending = r])
                     /\ Reviewable
        BY <1>4, <2>2 DEF Discover, GoAs, MaySave
      <3> DEFINE x == w[p]  v == [x EXCEPT !.pending = r]
      <3>2. WriteAs(p, Saved(r), v) /\ x \in Passes /\ x.pc = "render"
        BY <2>2, <3>1, Here DEF Discover, Resuming
      <3> HIDE DEF x
      <3>3. v.pc = "render" /\ v.pending = r
        BY <3>2 DEF Passes
      <3> HIDE DEF v
      <3> QED BY <3>1, <3>2, <3>3, SavedLeaves
    <2>3. CASE SaveDispatch(p)
      <3>1. PICK r : /\ WriteAs(p, Saved(r), [w[p] EXCEPT !.pc = "dispatch", !.pending = r])
                     /\ Reviewable
        BY <1>4, <2>3 DEF SaveDispatch, GoAs, MaySave
      <3> DEFINE x == w[p]  v == [x EXCEPT !.pc = "dispatch", !.pending = r]
      <3>2. WriteAs(p, Saved(r), v) /\ x \in Passes
        BY <3>1, Here
      <3> HIDE DEF x
      <3>3. v.pc = "dispatch" /\ v.pending = r
        BY <3>2 DEF Passes
      <3> HIDE DEF v
      <3> QED BY <3>1, <3>2, <3>3, SavedLeaves
    <2> QED BY <1>4, <2>1, <2>2, <2>3
  <1>5. CASE Accept(p) /\ record' # record
    BY <1>0, <1>5 DEF Accept, GoAs, WriteAs, Leaves, Reviewable, REVIEWABLE_STATUSES, Stopped, Records
  <1>6. CASE Postpone(p) /\ record' # record
    BY <1>0, <1>6, Fresh, Rewritten DEF Postpone, GoAs, WriteAs, Records
  <1>7. CASE BeginReview(p) /\ record' # record
    BY <1>0, <1>7, Fresh DEF BeginReview, GoAs, SoundAt, Leaves
  <1>8. CASE Deliver(p) /\ record' # record
    BY <1>0, <1>8, Fresh, Rewritten DEF Deliver, GoAs, WriteAs, Records
  <1>9. CASE Settle(p) /\ record' # record
    <2>1. record' = Settled(w[p].error) /\ Reviewable /\ w[p].pc = "settle"
      BY <1>9 DEF Settle, GoAs, WriteAs
    <2>2. w[p].error \in Errors \ {"none"}
      BY <2>1, HasError
    <2>3. Alone => AloneAt(w[p], record, runs)
      BY Here
    <2>4. record.status \notin Stopped
      BY <2>1 DEF Reviewable, REVIEWABLE_STATUSES, Stopped
    <2> QED BY <2>1, <2>2, <2>3, <2>4, SettledLeaves DEF AloneAt
  <1> QED BY <1>1, <1>2, <1>3, <1>4, <1>5, <1>6, <1>7, <1>8, <1>9
       DEF Step, SelectExhausted, Select, Prepare, Restore, Expire, Observe, AwaitDiscovery,
           GiveUp, Dispatch, RunReview, ApplyReview, GoAs

\* every fault,
LEMMA FaultLeaves ==
  ASSUME IInv, NEW p \in Workers, Crash(p) \/ Raise(p) \/ LoseAnswer(p) \/ SettleBlind(p)
  PROVE  Leaves(record')
  <1>0. record \in Records /\ SoundAt(w[p], record, runs)
    BY Here
  <1>1. CASE record' = record
    BY <1>1, NotWritten
  <1>2. CASE LoseAnswer(p)
    <2>1. CASE w[p].pc = "begin"
      BY <1>0, <1>2, <2>1, Fresh DEF LoseAnswer, SoundAt, Leaves
    <2>2. CASE w[p].pc = "deliver"
      BY <1>0, <1>2, <2>2, Fresh, Rewritten DEF LoseAnswer, WriteAs, Records
    <2> QED BY <1>2, <2>1, <2>2 DEF LoseAnswer
  <1>3. CASE SettleBlind(p) /\ record' # record
    <2>1. record' = Settled("review") /\ w[p].fresh
      BY <1>3 DEF SettleBlind, GoAs, WriteAs
    <2> QED BY <2>1, Fresh, SettledLeaves DEF Errors
  <1> QED BY <1>1, <1>2, <1>3 DEF Crash, Raise, GoAs

\* and the world;
LEMMA WorldLeaves ==
  ASSUME IInv, World PROVE Leaves(record')
  <1>0. record \in Records
    BY DEF IInv, TypeOK
  <1>1. CASE Withdraw
    BY <1>0, <1>1, Rewritten DEF Withdraw, Records
  <1>2. CASE CoolOff
    BY <1>0, <1>2 DEF CoolOff, Leaves, Records
  <1>3. CASE GoStale
    BY <1>0, <1>3 DEF GoStale, Leaves, Records
  <1>4. CASE Age
    <2> DEFINE r == [record.request EXCEPT !.recent = FALSE]
    <2>1. record' = [record EXCEPT !.request = r] /\ record.request \in Requests
      BY <1>0, <1>4 DEF Age, Records
    <2>2. r \in Requests
      BY <2>1 DEF Requests
    <2> HIDE DEF r
    <2> QED BY <1>0, <2>1, <2>2, NoneAssumption DEF Leaves, Records
  <1>5. CASE \E id \in RequestIds : \E i \in DOMAIN runs[id] : Progress(id, i)
    BY <1>5, NotWritten DEF Progress, Change
  <1> QED BY <1>1, <1>2, <1>3, <1>4, <1>5 DEF World

\* that is, every step.
LEMMA NextLeaves ==
  ASSUME IInv, [Next]_vars PROVE Leaves(record')
  BY StepLeaves, FaultLeaves, WorldLeaves, NotWritten DEF Next, vars

\* No step of any pass changes what a withdrawal, a failed verification or an exhausted
\* review left on record, wherever in the pass it lands (the conditional writes of
\* cli.auto and the REVIEWABLE_STATUSES checks of its handlers).
THEOREM DecisionsStand == Spec => StoppedStays
  <1>1. IInv /\ [Next]_vars => (record.status \in Stopped => record'.status = record.status)
    BY NextLeaves DEF Leaves
  <1>2. IInv /\ [Next]_vars => [record.status \in Stopped => record'.status = record.status]_vars
    BY <1>1
  <1> QED BY <1>2, Invariance, PTL DEF Spec, StoppedStays

\* While passes do not overlap, a render request leaves the record only for the verdict
\* of a run, after the last dispatch, or for a receipt (request_render, resume_render).
THEOREM RequestsOutlive == Spec => RequestOutlivesItsRun
  <1>1. IInv /\ [Next]_vars =>
          (Alone /\ record.request # None /\ record'.request = None =>
             Over(record.request) \/ record'.receipt)
    BY NextLeaves DEF Leaves
  <1>2. IInv /\ [Next]_vars =>
          [Alone /\ record.request # None /\ record'.request = None =>
             Over(record.request) \/ record'.receipt]_vars
    BY <1>1
  <1> QED BY <1>2, Invariance, PTL DEF Spec, RequestOutlivesItsRun
=============================================================================
