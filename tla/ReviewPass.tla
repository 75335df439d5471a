----------------------------- MODULE ReviewPass -----------------------------
(***************************************************************************)
(* The review lane of the unattended pass (cli.auto) for one submission:   *)
(* the gate that its Challenge can be rendered, the review, and what every *)
(* failure of either leaves behind in the private record.                  *)
(*                                                                         *)
(* A pass copies the record when it scans and then works for minutes or    *)
(* hours, while the submitter may withdraw and another pass may run; every *)
(* write is conditional on the copy it was derived from.  The gate waits   *)
(* for nothing: it saves a render request in the record, dispatches the    *)
(* render workflow under the id of that request and stops; later passes    *)
(* find the run by that id, pin it, and take its verdict.                  *)
(*                                                                         *)
(* Submissions share nothing in this lane but the budget of the pass, so   *)
(* one record is modelled.  The render workflow (external) is GitHub's: a  *)
(* run is listed some time after it was dispatched, and ends when it does. *)
(***************************************************************************)
EXTENDS Naturals, Sequences, FiniteSets

CONSTANTS
    Workers,       \* passes that may run at the same time
    AttemptLimit,  \* REVIEW_ATTEMPT_LIMIT
    GateLimit,     \* RENDERABILITY_ATTEMPT_LIMIT
    DispatchLimit, \* dispatches of one render request
    MaxFaults,     \* bounds deaths of passes, failed calls and lost answers
    None

ASSUME ReviewAssumption ==
    /\ IsFiniteSet(Workers) /\ Workers # {}
    /\ {AttemptLimit, GateLimit, DispatchLimit} \subseteq Nat \ {0}
    /\ MaxFaults \in Nat

VARIABLES
    record, \* what state.json says about the review
    runs,   \* for every render request, the runs GitHub has of it, oldest first
    w,      \* the passes
    faults,
    \* For the properties only:
    engines,  \* reviews an engine was started for
    rendered  \* a render of this submission has succeeded

vars == <<record, runs, w, faults, engines, rendered>>

REVIEWABLE_STATUSES == {"awaiting-review", "reviewing"}
Stopped == {"review-failed", "verification-failed", "verification-error", "withdrawn"}

\* Identities of render requests; one is reused when nobody knows it any more.
RequestIds == 1..(Cardinality(Workers) + 1)

Requests == [
    id : RequestIds,
    run : Nat,  \* the pinned run, or 0
    dispatches : 0..DispatchLimit,
    recent : BOOLEAN] \* dispatch_at is less than five minutes ago

ASSUME NoneAssumption == None \notin Requests

Records == [
    status : REVIEWABLE_STATUSES \cup Stopped \cup {"review-ready"},
    attempts : Nat,        \* review_attempts
    gates : 0..GateLimit,  \* renderability_attempts, which is only compared with the limit
    request : Requests \cup {None},
    receipt : BOOLEAN,     \* renderability
    cooling : BOOLEAN,     \* review_retry_after is in the future
    stale : BOOLEAN]       \* review_started_at is two hours ago

Verdicts == {"success", "refused", "failed"}

\* A run that ends before it is listed is one that was listed when it ended.
Runs == {"unlisted", "running"} \cup Verdicts

Pcs == {"idle", "abandon", "gate", "prepare", "save", "render", "dispatch", "accept",
        "begin", "dry", "apply", "deliver", "settle"}

\* What the failure handlers of the pass tell apart.
Errors == {"none", "pending", "submitter", "finished", "gate", "review"}

Passes == [
    pc : Pcs,
    fresh : BOOLEAN,   \* the blob of the copy it will write through is still live
    pending : Requests \cup {None},
    receipt : BOOLEAN, \* the receipt in the copy read by prepare_workspace
    begun : BOOLEAN,   \* review_begun
    error : Errors]

Idle == [pc |-> "idle", fresh |-> FALSE, pending |-> None, receipt |-> FALSE,
         begun |-> FALSE, error |-> "none"]

TypeOK ==
    /\ record \in Records
    /\ runs \in [RequestIds -> Seq(Runs)]
    /\ w \in [Workers -> Passes]
    /\ faults \in 0..MaxFaults
    /\ engines \in Nat
    /\ rendered \in BOOLEAN

Init ==
    /\ record = [status |-> "awaiting-review", attempts |-> 0, gates |-> 0, request |-> None,
                 receipt |-> FALSE, cooling |-> FALSE, stale |-> FALSE]
    /\ runs = [id \in RequestIds |-> <<>>]
    /\ w = [p \in Workers |-> Idle]
    /\ faults = 0
    /\ engines = 0
    /\ rendered = FALSE

-----------------------------------------------------------------------------
\* Steps of a pass.

\* p goes on as v, and writes new over the record: every other copy is outdated.
WriteAs(p, new, v) ==
    /\ record' = new
    /\ w' = [q \in Workers |-> IF q = p THEN v ELSE [w[q] EXCEPT !.fresh = FALSE]]

\* p goes on as v without a write.
GoAs(p, v) ==
    /\ w' = [w EXCEPT ![p] = v]
    /\ UNCHANGED record

Goto(p, l) == [w[p] EXCEPT !.pc = l]
Erring(p, e) == [w[p] EXCEPT !.pc = "settle", !.error = e]
Reviewable == record.status \in REVIEWABLE_STATUSES

Named(request) == IF request = None THEN {} ELSE {request.id}
UnknownIds == RequestIds \ (Named(record.request) \cup UNION {Named(w[q].pending) : q \in Workers})

\* The runs of a request are of no interest once nobody knows its id.
RunsOf(id, known) == runs' = [i \in RequestIds |->
    IF i \in UnknownIds' THEN <<>> ELSE IF i = id THEN known ELSE runs[i]]

\* Nothing but the record and p changes.
Quiet == RunsOf(0, <<>>) /\ UNCHANGED <<faults, engines, rendered>>

ToReview == record.status = "awaiting-review" \/ (record.status = "reviewing" /\ record.stale)

\* Mutant: one attempt more.
ExhaustedLate == ToReview /\ record.attempts > AttemptLimit

Exhausted == ToReview /\ record.attempts >= AttemptLimit

\* The scan finds a review that has used up its attempts.
SelectExhausted(p) ==
    /\ w[p].pc = "idle"
    /\ Exhausted
    /\ GoAs(p, [Idle EXCEPT !.pc = "abandon"])
    /\ Quiet

\* abandon_review, if that is still so when the record is read again.
Abandon(p) ==
    /\ w[p].pc = "abandon"
    /\ IF Exhausted
       THEN WriteAs(p, [record EXCEPT !.status = "review-failed"], Idle)
       ELSE GoAs(p, Idle)
    /\ Quiet

\* The scan finds a review to do, outside its backoff.
Select(p) ==
    /\ w[p].pc = "idle"
    /\ ToReview
    /\ ~Exhausted
    /\ ~record.cooling
    /\ GoAs(p, [Idle EXCEPT !.pc = "gate", !.fresh = TRUE])
    /\ Quiet

\* begin_renderability_check, through the copy the scan made.
GateBegin(p) ==
    /\ w[p].pc = "gate"
    /\ IF w[p].fresh
       THEN WriteAs(p, [record EXCEPT
                            !.status = "awaiting-review",
                            !.gates = IF record.request # None \/ @ = GateLimit THEN @ ELSE @ + 1],
                    Goto(p, "prepare"))
       ELSE GoAs(p, Erring(p, "gate"))
    /\ Quiet

\* prepare_workspace, in ensure_review_renderable: the record is read again.
Prepare(p) ==
    /\ w[p].pc = "prepare"
    /\ GoAs(p,
         IF record.status \in REVIEWABLE_STATUSES \cup {"review-ready"}
         THEN [w[p] EXCEPT !.pc = IF record.request = None THEN "save" ELSE "render",
                           !.pending = record.request, !.receipt = record.receipt]
         ELSE Erring(p, "gate"))
    /\ Quiet

-----------------------------------------------------------------------------
\* The render request.

\* save of ensure_review_renderable reads the record again before it writes.
MaySave(id) == Reviewable /\ (record.request = None \/ record.request.id = id)
Saved(request) == [record EXCEPT !.status = "awaiting-review", !.request = request]

\* A new request is saved before anything is dispatched for it.
SaveRequest(p) ==
    /\ w[p].pc = "save"
    /\ \E id \in UnknownIds :
         LET request == [id |-> id, run |-> 0, dispatches |-> 0, recent |-> FALSE] IN
         IF MaySave(id)
         THEN WriteAs(p, Saved(request), [w[p] EXCEPT !.pc = "render", !.pending = request])
         ELSE GoAs(p, Erring(p, "gate"))
    /\ Quiet

\* restore_reviewed_render: the artifact of the saved receipt is still there.
Restore(p) ==
    /\ w[p].pc = "render"
    /\ w[p].receipt
    /\ GoAs(p, Goto(p, "accept"))
    /\ Quiet

\* The artifact has expired, and the same source is rendered again.
Expire(p) ==
    /\ w[p].pc = "render"
    /\ w[p].receipt
    /\ GoAs(p, [w[p] EXCEPT !.receipt = FALSE])
    /\ Quiet

Resuming(p) == w[p].pc = "render" /\ ~w[p].receipt
Asked(p) == runs[w[p].pending.id]
Listed(p) == {i \in DOMAIN Asked(p) : Asked(p)[i] # "unlisted"}
Earliest(p) == {i \in Listed(p) : \A j \in Listed(p) : i <= j}

\* Mutant: a run that ended has succeeded.
VerdictOfAnyEnd(run) == IF run = "running" THEN "pending" ELSE "none"

\* What request_render makes of a run.
Verdict(run) ==
    CASE run = "running" -> "pending"
      [] run = "success" -> "none"
      [] run = "refused" -> "submitter"
      [] run = "failed" -> "finished"

\* resume_render with a pinned run, and request_render on what it returns.
Observe(p) ==
    /\ Resuming(p)
    /\ w[p].pending.run # 0
    /\ LET verdict == Verdict(Asked(p)[w[p].pending.run]) IN
       GoAs(p, IF verdict = "none" THEN Goto(p, "accept") ELSE Erring(p, verdict))
    /\ Quiet

\* The earliest run that is listed is pinned.
Discover(p) ==
    /\ Resuming(p)
    /\ w[p].pending.run = 0
    /\ \E i \in Earliest(p) :
         LET request == [w[p].pending EXCEPT !.run = i] IN
         IF MaySave(request.id)
         THEN WriteAs(p, Saved(request), [w[p] EXCEPT !.pending = request])
         ELSE GoAs(p, Erring(p, "gate"))
    /\ Quiet

Undiscovered(p) == Resuming(p) /\ w[p].pending.run = 0 /\ Listed(p) = {}

\* The last dispatch may not be listed yet.
AwaitDiscovery(p) ==
    /\ Undiscovered(p)
    /\ w[p].pending.recent
    /\ GoAs(p, Erring(p, "pending"))
    /\ Quiet

\* Every dispatch has been used: the request is given up.
GiveUp(p) ==
    /\ Undiscovered(p)
    /\ ~w[p].pending.recent
    /\ w[p].pending.dispatches = DispatchLimit
    /\ GoAs(p, Erring(p, "finished"))
    /\ Quiet

\* Mutant: the dispatch is not recorded before it is made.
SaveDispatchLater(p) ==
    /\ Undiscovered(p)
    /\ ~w[p].pending.recent
    /\ w[p].pending.dispatches < DispatchLimit
    /\ GoAs(p, Goto(p, "dispatch"))
    /\ Quiet

\* Mutant: a request is dispatched for as long as no run of it is listed.
SaveDispatchAlways(p) ==
    /\ Undiscovered(p)
    /\ ~w[p].pending.recent
    /\ LET request == [w[p].pending EXCEPT !.dispatches = @ + 1, !.recent = TRUE] IN
       IF MaySave(request.id)
       THEN WriteAs(p, Saved(request), [w[p] EXCEPT !.pc = "dispatch", !.pending = request])
       ELSE GoAs(p, Erring(p, "gate"))
    /\ Quiet

\* The intent to dispatch is recorded first.
SaveDispatch(p) ==
    /\ Undiscovered(p)
    /\ ~w[p].pending.recent
    /\ w[p].pending.dispatches < DispatchLimit
    /\ LET request == [w[p].pending EXCEPT !.dispatches = @ + 1, !.recent = TRUE] IN
       IF MaySave(request.id)
       THEN WriteAs(p, Saved(request), [w[p] EXCEPT !.pc = "dispatch", !.pending = request])
       ELSE GoAs(p, Erring(p, "gate"))
    /\ Quiet

\* The dispatch; the pass does not wait, whether it was acknowledged or not.
Dispatch(p) ==
    /\ w[p].pc = "dispatch"
    /\ GoAs(p, Erring(p, "pending"))
    /\ RunsOf(w[p].pending.id, Append(Asked(p), "unlisted"))
    /\ UNCHANGED <<faults, engines, rendered>>

\* The render is accepted: the receipt is written and the request is done with.
Accept(p) ==
    /\ w[p].pc = "accept"
    /\ IF Reviewable
       THEN WriteAs(p, [record EXCEPT !.status = "awaiting-review", !.receipt = TRUE,
                                      !.request = None, !.cooling = FALSE],
                    [w[p] EXCEPT !.pc = "begin", !.fresh = TRUE])
       ELSE GoAs(p, Erring(p, "gate"))
    /\ Quiet

-----------------------------------------------------------------------------
\* The review.

\* The budget of the pass is spent: the review is left for the next one.
Postpone(p) ==
    /\ w[p].pc = "begin"
    /\ IF w[p].fresh
       THEN WriteAs(p, [record EXCEPT !.status = "awaiting-review", !.gates = 0], Idle)
       ELSE GoAs(p, Erring(p, "review"))
    /\ Quiet

\* What begin_review writes.
Beginning == [record EXCEPT !.status = "reviewing", !.attempts = @ + 1, !.gates = 0,
                            !.request = None, !.stale = FALSE]

\* begin_review: the attempt is counted before it is made.
BeginReview(p) ==
    /\ w[p].pc = "begin"
    /\ IF w[p].fresh
       THEN WriteAs(p, Beginning, [w[p] EXCEPT !.pc = "dry", !.begun = TRUE])
       ELSE GoAs(p, Erring(p, "review"))
    /\ Quiet

Readable == record.status \in REVIEWABLE_STATUSES \cup {"review-ready"}

\* run_review without --apply: the record is read, and the engine run, which
\* may fail as often as it likes.
RunReview(p) ==
    /\ w[p].pc = "dry"
    /\ IF Readable
       THEN /\ engines' = engines + 1
            /\ GoAs(p, Goto(p, "apply")) \/ GoAs(p, Erring(p, "review"))
       ELSE GoAs(p, Erring(p, "review")) /\ UNCHANGED engines
    /\ UNCHANGED <<runs, faults, rendered>>

\* run_review with --apply reads the record again, and delivers through that copy.
ApplyReview(p) ==
    /\ w[p].pc = "apply"
    /\ GoAs(p, IF Readable THEN [w[p] EXCEPT !.pc = "deliver", !.fresh = TRUE]
               ELSE Erring(p, "review"))
    /\ Quiet

\* Mutant: the review is delivered whatever has become of the record.
DeliverBlind(p) ==
    /\ w[p].pc = "deliver"
    /\ WriteAs(p, [record EXCEPT !.status = "review-ready", !.cooling = FALSE], Idle)
    /\ Quiet

\* deliver_review.
Deliver(p) ==
    /\ w[p].pc = "deliver"
    /\ IF w[p].fresh
       THEN WriteAs(p, [record EXCEPT !.status = "review-ready", !.cooling = FALSE], Idle)
       ELSE GoAs(p, Erring(p, "review"))
    /\ Quiet

-----------------------------------------------------------------------------
\* What the pass leaves behind when the gate or the review failed.

Later == [record EXCEPT !.status = "awaiting-review", !.cooling = TRUE]

\* Mutant: a failure of the pass itself drops the saved request.
SettledForgetful(error) ==
    CASE error \in {"pending", "review"} -> Later
      [] error = "submitter" ->
           [record EXCEPT !.status = "verification-failed", !.request = None, !.cooling = FALSE]
      [] error \in {"gate", "finished"} ->
           IF record.gates = GateLimit
           THEN [record EXCEPT !.status = "verification-error", !.request = None,
                               !.cooling = FALSE]
           ELSE [Later EXCEPT !.request = None]

\* Mutant: the gate is tried for ever.
SettledAgain(error) ==
    CASE error \in {"pending", "review"} -> Later
      [] error = "submitter" ->
           [record EXCEPT !.status = "verification-failed", !.request = None, !.cooling = FALSE]
      [] error = "gate" /\ record.request # None -> Later
      [] OTHER -> [Later EXCEPT !.request = None]

\* The record after a failure.  A saved request outlives a failure that is not
\* the render's own verdict; without one, the gate has a limit of its own.
Settled(error) ==
    CASE error \in {"pending", "review"} -> Later
      [] error = "submitter" ->
           [record EXCEPT !.status = "verification-failed", !.request = None, !.cooling = FALSE]
      [] error = "gate" /\ record.request # None -> Later
      [] OTHER ->
           IF record.gates = GateLimit
           THEN [record EXCEPT !.status = "verification-error", !.request = None,
                               !.cooling = FALSE]
           ELSE [Later EXCEPT !.request = None]

\* Mutant: the status is not looked at again.
SettleAnything(p) ==
    /\ w[p].pc = "settle"
    /\ WriteAs(p, Settled(w[p].error), Idle)
    /\ Quiet

\* The handlers of the pass: read again, and leave a newer decision alone.
Settle(p) ==
    /\ w[p].pc = "settle"
    /\ IF Reviewable THEN WriteAs(p, Settled(w[p].error), Idle) ELSE GoAs(p, Idle)
    /\ Quiet

Step(p) ==
    \/ SelectExhausted(p) \/ Abandon(p) \/ Select(p) \/ GateBegin(p) \/ Prepare(p)
    \/ SaveRequest(p) \/ Restore(p) \/ Expire(p) \/ Observe(p) \/ Discover(p)
    \/ AwaitDiscovery(p) \/ GiveUp(p) \/ SaveDispatch(p) \/ Dispatch(p) \/ Accept(p)
    \/ Postpone(p) \/ BeginReview(p) \/ RunReview(p) \/ ApplyReview(p) \/ Deliver(p)
    \/ Settle(p)

-----------------------------------------------------------------------------
\* Failures.

Fault ==
    /\ faults < MaxFaults /\ faults' = faults + 1
    /\ RunsOf(0, <<>>) /\ UNCHANGED <<engines, rendered>>

\* The process dies: it records nothing.
Crash(p) ==
    /\ w[p].pc # "idle"
    /\ GoAs(p, Idle)
    /\ Fault

\* A call fails before it has an effect.  What cannot be observed is pending.
Raise(p) ==
    /\ \/ w[p].pc \in {"gate", "prepare", "save", "accept"} /\ GoAs(p, Erring(p, "gate"))
       \/ w[p].pc = "render" /\ GoAs(p, Erring(p, IF w[p].receipt THEN "gate" ELSE "pending"))
       \/ w[p].pc = "dispatch" /\ GoAs(p, Erring(p, "pending"))
       \/ w[p].pc \in {"begin", "dry", "apply", "deliver"} /\ GoAs(p, Erring(p, "review"))
       \/ w[p].pc \in {"abandon"} /\ GoAs(p, Idle)
    /\ Fault

\* begin_review or the delivery is written, and the answer is lost.
LoseAnswer(p) ==
    /\ w[p].fresh
    /\ \/ w[p].pc = "begin" /\ WriteAs(p, Beginning, Erring(p, "review"))
       \/ /\ w[p].pc = "deliver"
          /\ WriteAs(p, [record EXCEPT !.status = "review-ready", !.cooling = FALSE],
                     Erring(p, "review"))
    /\ Fault

\* The record cannot be read again.  Once the review was begun, the blob that
\* began it will do, if it is still there; otherwise nothing is recorded.
SettleBlind(p) ==
    /\ w[p].pc = "settle"
    /\ IF w[p].error = "review" /\ w[p].begun /\ w[p].fresh
       THEN WriteAs(p, Settled("review"), Idle)
       ELSE GoAs(p, Idle)
    /\ Fault

-----------------------------------------------------------------------------
\* The world.

\* The submitter withdraws (the submission server).
Withdraw ==
    /\ record.status \notin Stopped
    /\ record' = [record EXCEPT !.status = "withdrawn"]
    /\ w' = [q \in Workers |-> [w[q] EXCEPT !.fresh = FALSE]]
    /\ Quiet

\* Time passes: a backoff, the two hours of a review, the five minutes of a dispatch.
CoolOff ==
    /\ record.cooling
    /\ record' = [record EXCEPT !.cooling = FALSE]
    /\ UNCHANGED w /\ Quiet
GoStale ==
    /\ record.status = "reviewing" /\ ~record.stale
    /\ record' = [record EXCEPT !.stale = TRUE]
    /\ UNCHANGED w /\ Quiet
Age ==
    /\ record.request # None
    /\ record.request.recent
    /\ record' = [record EXCEPT !.request.recent = FALSE]
    /\ UNCHANGED w /\ Quiet

\* GitHub lists a run, and ends it.
Change(id, i, run) ==
    /\ runs' = [runs EXCEPT ![id][i] = run]
    /\ rendered' = (rendered \/ run = "success")
    /\ UNCHANGED <<record, w, faults, engines>>
Progress(id, i) ==
    \/ runs[id][i] = "unlisted" /\ Change(id, i, "running")
    \/ runs[id][i] = "running" /\ \E verdict \in Verdicts : Change(id, i, verdict)

World ==
    \/ Withdraw \/ CoolOff \/ GoStale \/ Age
    \/ \E id \in RequestIds : \E i \in DOMAIN runs[id] : Progress(id, i)

Next ==
    \/ \E p \in Workers : Step(p) \/ Crash(p) \/ Raise(p) \/ LoseAnswer(p) \/ SettleBlind(p)
    \/ World

Spec == Init /\ [][Next]_vars

\* A pass that runs goes on; the schedule starts another whenever there is
\* something to do; time passes; and GitHub lists and ends its runs.  Nobody
\* has to withdraw, a budget need not be spent, and an artifact need not expire.
FairSpec ==
    /\ Spec
    /\ \A p \in Workers :
         /\ WF_vars(Step(p))
         /\ SF_vars(BeginReview(p))
         /\ SF_vars(Restore(p))
    /\ WF_vars(CoolOff) /\ WF_vars(GoStale) /\ WF_vars(Age)
    /\ \A id \in RequestIds : \A i \in 1..DispatchLimit :
         WF_vars(i \in DOMAIN runs[id] /\ Progress(id, i))

-----------------------------------------------------------------------------
\* Properties.

\* A pass never overwrites a decision that stopped the submission: not a
\* withdrawal that lands between any two of its steps, not the verdict of
\* another pass (the REVIEWABLE_STATUSES check after every failure, and the
\* conditional write everywhere else).
StoppedStays == [][record.status \in Stopped => record'.status = record.status]_vars

\* Every review an engine is started for has been counted, whatever died on the
\* way, and the limit is overshot at most by passes that had begun before.
AttemptsBounded ==
    /\ engines <= record.attempts
    /\ record.attempts < AttemptLimit + Cardinality(Workers)

\* Passes do not overlap.
Alone == \A p, q \in Workers : p = q

Over(request) ==
    \/ \E i \in DOMAIN runs[request.id] : runs[request.id][i] \in Verdicts
    \/ request.dispatches = DispatchLimit

\* While passes do not overlap, a render request is only forgotten for a verdict: a
\* run of it ended, every dispatch was used, or an earlier render is on record.  A
\* crash or a failure of a pass neither loses a run nor pays for it twice.
RequestOutlivesItsRun ==
    [][Alone /\ record.request # None /\ record'.request = None =>
         Over(record.request) \/ record'.receipt]_vars

\* While passes do not overlap, a render request is dispatched a bounded number of
\* times, whatever dies between a dispatch and its discovery.
DispatchesBounded == Alone => \A id \in RequestIds : Len(runs[id]) <= DispatchLimit

\* What a pass spends, engines and runs on GitHub, is counted before it is spent.
SpendingBounded == AttemptsBounded /\ DispatchesBounded

\* No engine is started before a render of the submission succeeded.
ReviewedIsRendered == engines > 0 => rendered

\* Every submission comes to rest: a review is delivered, or a failure or a
\* withdrawal is on record.
ReviewSettles == (record.status \in REVIEWABLE_STATUSES) ~> (record.status \notin REVIEWABLE_STATUSES)
=============================================================================
