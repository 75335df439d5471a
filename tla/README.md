# Verification of palomar_reviewer

Formal models of the Palomar reviewer: the program that reviews submissions to
a registry of formalized mathematics and registers the ones whose submitters
consent. Sources are named relative to the repository: `cli.py`,
`checkpoint.py`, ... are `src/palomar_reviewer/*.py`, `README.md` is the
repository's own.

    tlc -config MCCrashes.cfg MCRegistration     # a run, see "Runs"
    tlc -config ReviewPass.cfg ReviewPass        # small modules are run without an MC module
    tlapm RegistrationProofs.tla                 # the proofs; the other *Proofs.tla too

## The system

The reviewer has no server and no database of its own. It is a command, started
by a schedule (`palomar-review auto`), by a dispatch, or by an operator, and
everything that outlives a command is a file or a ref on GitHub:

| store | holds | written by |
| --- | --- | --- |
| State repository | `submissions/<id>/state.json` (the record), `review.json`, `index/open.json`, `index/registration-locks/*.json` | reviewer, submission server |
| Database repository | registered entries on `main`, one branch and pull request per registration | reviewer, its own validation workflow |
| Archive organization | forks of the sources with immutable refs per identity | reviewer |
| Submission workflows | verification and render runs and their artifacts | reviewer dispatches, GitHub runs |
| model provider | nothing durable | broker, for the sandboxed engine |

A State write replaces one file, conditional on the blob that was read
(`put_state`). There is no transaction over two files, and none over two stores:
every protocol below is a sequence of such writes which may stop anywhere.

### Components

| component | state it keeps | operations | correct when |
| --- | --- | --- | --- |
| registration (`cli.register`, `checkpoint.py`, `registration.py`, `authorization.py`) | attempt, public identity uses, allocation locks, pull request of each submission | register, recover, release, finalize, pause, retry | an identity is public only on record, under its lock, for the consented review, once; nothing is lost to a crash |
| open queue (`open_index`, `rebuild_queue`, `open_submissions`) | ids of unfinished submissions, a derived cache | read, drop finished, rebuild, requeue | no unfinished submission is lost for longer than a rebuild |
| unattended pass (`cli.auto`) | nothing; a budget and counters within one pass | abandon, finalize, register, review, dispatch again | one bad submission does not stall the others; attempts are bounded |
| review delivery (`run_review`, `deliver_review`) | review, its digest, consent reset | dry run, apply | consent is to the delivered review |
| model broker (`broker.py`) | per pass: ledger of requests, tokens, spend and refusals; child process, port, connections | start, admit, relay, charge, end, stop, summary | ceilings hold under concurrent requests; a response is charged once; an accepted pass is accounted for |
| render requests (`request_render`, `resume_render`) | saved request, GitHub run | dispatch, find, resume, download | at most one live run per request; a crash neither loses nor repeats it |
| Database gate (`_validation_outcome`, `await_database_checks`) | none | choose run, update branch, wait | nothing is merged on an outdated green run |
| archive preservation (`prepare_`/`publish_preservation`) | archive forks, rulesets, refs | fork, protect, push | a ref is created once, with the recorded object |
| operator alerts (`operator_alerts.py`, `alert_recovery.py`) | outbox in the record | queue, send, record, reconcile | an alert is delivered at least once, not for ever |
| diagnostics and metadata repairs | failure report, repair record, repair queue | ingest, prepare, advance | one repair per failure, never over the submitter's work |
| source stars | star in the record | star, verify, record | retried until recorded |
| projections (`registration.py`) | day counters, result versions, identity and submission bindings | read, allocate, change | serials and versions are dense and unique |
| workflow recovery, resource failover | none | find a run, choose a profile | one request, one run |
| engine, rubric and prompts, mechanical evidence, usage | none shared | run, validate, price | functions of their inputs |

What is hard here is not any one function, most of which are tested, but the
interleaving of commands over files that are written one by one: crashes and
failed calls between two writes; copies read before minutes of rendering and
used after; locks in one file that speak about another; retries that derive
from the clock what the first try had derived from an earlier one.
`PROJECT.json` lists each such hazard at its line, with the properties about it.

## Modules

The most consequential behaviour came first: registration makes irrevocable,
public statements.

| module | models | with |
| --- | --- | --- |
| `PublicIdentity`, `Registration`, `RegistrationProofs`, `PublicIdentityProofs` | the registration protocol and its promise | `MCRegistration` |
| `MeteredPass`, `ModelBroker`, `ModelBrokerProofs` | the broker, and the budget it implements | `MCModelBroker` |
| `ReviewPass`, `ReviewPassProofs` | the review lane of `auto`, and the render request it gates on | its own .cfg |
| `OpenQueue`, `OpenQueueProofs`, `AlertsSentProofs` | `index/open.json` and all who write it | `MCOpenQueue` |
| `OperatorAlerts`, `OperatorAlertsProofs` | an alert from its queueing to the last edit of its message | its own .cfg |
| `MetadataRepair`, `MetadataRepairProofs` | the repair outbox | `MCMetadataRepair` |

Where two modules touch the same file, each has the other's writes as actions of
its world: `OpenQueue` the outcomes of the lanes (`Advance`, `Finalize`, `Touch`),
`ReviewPass` the withdrawal, `OperatorAlerts` any write of the record. The copies
that such a write outdates are what the protocols must stand.

Left to do: `MergeGate`, the choice among runs and attempts of the Database's
validation; `ArchivePreservation`, forks, rulesets and refs; and the pure
algorithms (projection changes against a rebuild, prices, check runs). The first
two are protocols with one remote party that are one step of `Registration` now
(`Mergeable`, `Publish`).

Every invariant and every action property that a passing run checks is also stated
by a theorem, but for `StrandedOnlyByFaults`, and so is each refinement; otherwise
what stays with TLC is liveness, which depends on fairness and is out of the
prover's reach.

## Registration

### Correspondence

A worker `w[p]` is one running command: where it stands (`pc`), which submission
and identity it works on, and what it has read and still believes. `fresh` (and
`lockFresh`) says that the copy of the record (the lock) it will write through
still has the blob it was read with; any write by anyone else clears it, and a
conditional write without it fails. Two commands interleave at every read and
every write of shared state. Between a read and a write that follows it at once,
without any other call, no step is modelled: the only difference, the write
failing, is `Raise`.

| code | model |
| --- | --- |
| `state.json`: status, `review_sha256`, consent and its digest, `registration_attempt`, `public_identity_uses`, `registration_pr`, `registration_attempts`, `registration_retry_after` | `state[s]`: `status`, `review`, `consent`, `attempt`, `uses`, `pr`, `attempts`, `cooling` |
| `review.json` | `delivered[s]`, the number of the delivered review; equal numbers are equal digests |
| `index/registration-locks/*.json` | `lock[scope]` |
| branches and pull requests; merged entries | `changes`, `database` |
| archive refs | `archive` |
| `auto` choosing work | `BeginRegister` (lock owners first, then arrival), `BeginAdvance` |
| `recover_change` | `Recover`, `Reopen`, `Recheckpoint` |
| `register` to the allocation | `Validate` (with `begin_registration`), `Clone`, `Allocate` |
| `registration_attempt_identity` | `Allocate`, `RelLock`, `RelState`, `RelClear`, `Acquire`, `SaveAttempt`, `Discard`, `Hold` |
| publication | `Start`, `StartWrite`, `Publish`, `Published`, `PublishedWrite`, `Push`, `OpenPR`, `Checkpoint` |
| `advance_registration`, `finalize` | `Await`, `ReadConsent`, `Merge`, `FinalizeCheck`, `FinalizeWrite`, `Unlock`, `Clear`; the operator's `finalize` is `BeginFinalize` |
| failure handler of the pass | `Raised`, `RecordFailure` |
| `retry-registration` | `BeginRetry`, the release, `Requeue` |
| `begin_review`, `run --apply`, `deliver_review` | `BeginReview`, `BeginRun`, `DeliverRead`, the release, `WriteReview`, `DeliverWrite` |
| process death, failed call, lost answer | `Crash`, `Raise`, `LoseAnswer` |
| submission server (external) | `GiveConsent`, `Withdraw` |

Identities carry what the code compares: name (day and serial, or the updated
result), version, instant, review and update intent. The instant is a clock
value; `DayLength` instants make a registration day, so two passes may allocate
on the same day, on the same instant, or across midnight. The Database's own
validation and git's merge are abstracted to what they let in (`Mergeable`): an
entry that is the next of its day or result in `main` and whose submission has
none yet.

`PublicIdentity` says what all this is for in five actions: an identity is
reserved in private and may be given back; once announced it is permanent, is
shown, and can only become registered; and of one scope at most one announced
identity is unregistered. `KeepsPromise` checks that `Registration` implements
it, the attempt being the reservation, the row of `public_identity_uses` the
announcement, and the archive what is shown.

### Properties

| property | says | kind |
| --- | --- | --- |
| `TypeOK` | types, including that every carried identity is one | proved, run |
| `PublicIsRecorded` | archive refs are explained by the record | proved, run |
| `PublicHoldsLock` | a public, unregistered identity owns its scope's lock | proved, run |
| `PublicReviewConsented` | the one public identity is the attempt, for the delivered and consented review | proved, run |
| `PublicIsPermanent` | evidence is never dropped or rewound | proved, run |
| `BranchIsPublished` | a Database branch comes after the archive and its receipt | proved, run |
| `UniquePublicIdentity` | no identity is shown for two submissions | proved for one command at a time, and for any number as long as no stale checkout takes a lock; run with one worker; **violated** with two |
| `WithdrawalStands` | nothing becomes public after a withdrawal, and only a merged registration overrides it | proved, run |
| `KeepsPromise` | the protocol implements `PublicIdentity` | proved, run |
| `StrandedOnlyByFaults` | every lock that no record explains was left by a fault, one by each | run with one worker; false with two |
| `PausedMakesWay` | what waits while another submission is paused comes to its end | **violated** |

### Runs

| run | bounds | what the bounds make happen |
| --- | --- | --- |
| `registration_crashes` | 2 first versions, 1 worker, 2 days of 2 instants, 2 faults | death, failure and lost answer at every point, the retry on the same day or the next, a second submission taking the serial meanwhile, an attempt superseded and released, a withdrawal between a lock and its attempt |
| `registration_reviews` | 1 submission, 2 workers, 2 reviews, 2 days, 1 fault | every pair of commands on one record; a replacement review against a registration of the earlier one |
| `registration_updates` | 2 updates of 1 result, 2 workers, no faults | contention for one result's lock, version 2 and then 3 |
| `paused_in_the_way` | 2 updates of 1 result, one refused by the entry schema, 1 worker, no faults, fairness | violated, see below |
| `stale_clone` | 2 first versions, 2 workers, no faults | violated, see below |

`MaxFaults` bounds crashes, failed calls and lost answers together, `MaxReviews`
the reviews delivered to a submission, `MaxClock` the instants, `AttemptLimit`
is the code's constant (3 there, 2 here: one retry and the pause).
`attempts` is capped at the limit; the code compares with `>=` only.
Worker symmetry is used where only safety is checked. Deadlock is not checked:
when everything is registered or withdrawn and the clock and the faults are at
their bounds, the system has stopped.

Fairness (`FairSpec`, for `paused_in_the_way`): a running command goes on (`WF` of
its steps; without faults it is not killed); the schedule starts another pass
whenever one could register something, again and again even though other commands
may run in between (`SF` of `BeginRegister`), and each pass visits every open pull
request (`SF` of `BeginAdvance` per submission, which the loop over `to_finalize`
justifies); a backoff expires. Submitters and operators are not assumed to do
anything. Under it no liveness property worth stating holds of the code: what waits
for a lock waits for its holder, and the holders below never give theirs back.

### What disagrees with the documentation

Two `violation` runs, each an entry of `findings`.

`stale_clone`: the day's lock does not serialize allocation, because the checkout
that determines the serial is taken before the lock is. Two workers, no fault: an
identifier becomes public for two submissions. The deployed workflow's concurrency group makes two passes
rare; an operator's `register` or a second workflow is not in that group.

`paused_in_the_way`: paused work leaves the queue, "so it cannot keep the next
consented submission behind it" (`README.md:610-611`), but it keeps its lock. One
worker, no fault, two updates of one result: the first is refused by the entry
schema after it has taken the result's lock and is paused, and every pass defers
the second. Of first versions only those of the same day are held up.

Seen on the same module, without a run of its own:

* A process that dies between the lock and the attempt leaves a lock no retry
  recovers, since the identity a retry derives has another day, or (for an update)
  always another instant; then the update waits behind its own lock for ever.
* `begin_registration` counts an attempt before the allocation (`cli.py:7129`, and
  the comment above it says why), where `README.md:603-605` says that the loop counts
  one "only after allocation succeeds": so deferrals use up the limit.
* A withdrawal while a lock is held keeps it for good.
* A crash inside `_release_unpublished_attempt` after the record is cleared leaves a
  `releasing` lock that nothing clears, as does one inside
  `_release_registration_lock`, since `finalize` requires a `held` lock to run again.

`StrandedOnlyByFaults` is about the first and the last of these, in which no record
explains the lock: it takes a fault, and each fault leaves one. Two workers need
none: a command that has read the saved attempt takes the lock again for it after
`retry-registration` has released both.

### Proofs

`RegistrationProofs` proves, for every value of the constants that
`ConstantsAssumption` and `NoneAssumption` allow, the theorems listed in
`PROJECT.json`. All follow from one inductive invariant, `IInv`:

* `Inv`: the type invariant, the three public-identity invariants, and for every worker `Sound(w[p])`, what it
  may rely on where it stands. The public invariants are not inductive alone:
  whether a write keeps them depends on what its author read earlier. `FreshCopy`
  says that a copy that is still live implies what was read (at `startWrite`: the
  attempt, no row yet, review, consent and lock; at `relState`: no row);
  `FreshLock` the same for locks; `Carries` what a worker keeps in hand.
* `~Clash(w[p], w[q])` for all pairs: no worker is about to clear the lock of an
  identity while another, with a live copy, is about to announce it. `relState`
  has cleared the attempt, so the other's copy cannot be live. It is the one
  fact about two workers, and what makes `PublicHoldsLock` inductive.
* `Finite`: `database` and every worker's copy of it are finite, without which
  the cardinalities that name the next serial are not numbers.

There is one lemma per action, by which it preserves `IInv`, on top of a few
about helpers (`WritesRecord`, `WritesLock`, `InPhase`, `NewIdentity`);
`PublicIsPermanent` is a separate step lemma from the same invariant.

`PublicIdentityProofs` goes on from there.

*Refinement.* `PromiseKept` maps every step to one of the five actions of
`PublicIdentity` or to a stutter. Most steps stutter (`Stutters`: they leave
attempts and rows alone and publish nothing); `Telling` names the few that do not.
That an announced identity is the only unregistered one of its scope is
`PublicHoldsLock`: the lock has one holder.

*Names and entries.* `BranchIsPublished` and `WithdrawalStands` need a second
invariant, `UInv`, over the first:

* `Claims(w[p])`: what a command has behind it that no other takes back. Once past
  publication its identity is in the archive, at `push` also in the record; at
  `finalize` its entry is in the Database. And the status that a live copy was read
  with, which is why a command that read before a withdrawal cannot write after it.
* `Bears(c)` for every branch, `Recorded(s)` for every submission: branches are of
  published identities, merged ones and registered rows are entries.
* `Numbered(database)`: entries bear the serials and versions counted from the
  others, so no two have the same. It is here that a new
  name must not be that of a result to be updated, hence `Results` disjoint from days
  and names in `ConstantsAssumption`: a result that an update may name was
  registered on a day before the first one modelled, so its `PALOMAR-<day>-<serial>`
  differs from every one to be assigned.

*Uniqueness.* `UniquePublicIdentity` is not a theorem of the code (`stale_clone`).
`UniqueUnlessBehind` says precisely what it lacks: under `[][TakesNext]_vars`, that a
free lock is only taken for an identity which the Database, as it is then, assigns
next, no two submissions are shown under one name, with any number of commands and
faults. Its invariant `VInv` adds that a held lock names what is assigned next or
was merged for its holder (`Owned`), and that public rows have distinct names
(`Distinct`). `UniqueWithOneCommand` shows that one command at a time meets the
condition without assuming it: nothing merges between its clone and its lock
(`Current`). So the concurrency group is what uniqueness rests on.

Only model-checked: `StrandedOnlyByFaults`, which counts locks against faults.

### Not modelled

`resolve-registration-identity` and the `conflicted` phase; schema-2 attempts;
registry corrections, which register without publishing to the archive; a pull
request closed without merging; failures of the render inside `register` that
send the submission back to `verification-failed`; an operator's `register`,
which does not count an attempt and keeps the record it read before the clone.
The status `awaiting-review` is identified with `reviewing`: registration treats
them alike. The contents of records, reviews and archives are abstract.

## Model broker

### Correspondence

Three actors: the parent (`BrokerProcess`, in `engine._run_brokered_codex`), the
child (`serve`) and its handler threads, one per connection. Every response
closes its connection, so a connection is one request.

| code | model |
| --- | --- |
| `BrokerProcess`: how far it has come, the listening socket, the queue of lines, `summary`, `exit_status` | `stage`, `held`, `lines`, `summary`, `exit` |
| child process, its exit status | `child`, `status` |
| `_BoundedServer._connections` | `permits` |
| `Ledger` | `ledger`; one field for tokens and one for dollars |
| `_Handler`, `_UsageReader`, local variables of `_forward`, `_stream`, `_relay` | `h[c]`; `admitted`, `raised`, `told`, `charges`, `cost` are history for the properties |
| accept, request, refusal | `Accept`, `Unserved` (a silent client, an answer of the base class, an exception), `Refuse` (what goes through `_refuse`), `Admit` |
| `_forward`, `_stream`, `_relay` | `Connect`, `NoAnswer`, `Respond`, `Chunk` (with `Terminal`), `Write`, `HangUp`, `Stumble`, `Break`, `EndOfStream`, `Settle` |
| the `finally` of `_handle_post`, of the thread | `End`, `Release` |
| `serve` | `Serve`, `StopServing`, `Report`, `Exit`, `Die` |
| `start`, `close` | `Bind`, `Spawn`, `Configure`, `Started`, `StartFails`; `AwaitSummary`, `Reap`, `Kill`, `Leave` |
| Codex | `EndPass`: it may fail at any time, and complete a turn once it was given the end of a response |

Whatever the provider and the client may do is chosen freely; of the provider it
is assumed that a stream carries at most one terminal event. Every method of
`Ledger` holds its lock throughout, so it is one step. What `_policy_problem`
refuses is not modelled, only that it may refuse. The bytes of a response are
counted in chunks.

`MeteredPass` is what the ledger promises of one ceiling, in three actions:
requests are let in below the ceiling into a bounded number of slots, each is
charged at most once and at most `Dearest`, and some never are. `Metered` says
that the broker implements it twice, for tokens and for spend, the requests let
in and not yet charged being the open ones.

### Properties

| property | says | kind |
| --- | --- | --- |
| `BrokerInv` | types; `active` and the permits are what the threads hold; room is left for what the admitted requests may yet cost | proved, run |
| `StartedIsChargedOnce` | a started response is charged exactly once, however it ends | proved, run |
| `OvershootBounded` | a pass costs less than its ceiling plus one set of slots | proved, run |
| `Metered` | both budgets implement `MeteredPass` | proved, run |
| `FailuresRecorded` | a request that was let in and failed is among the refusals, unless its client had gone, the provider's failure was passed on or the reader of its usage raised | proved, run |
| `AcceptedIsAccounted` | an accepted pass accounts for every response whose end Codex was told | proved, run |
| `PortOutlivesBroker` | nobody else can bind the port before the pass is closed and the child serves nobody | proved, run |
| `NothingAfterClose` | no handler acts after `close` | proved, run |
| `SlotsReturn` | a slot is given back | run |
| `PassEnds` | starting and closing end | run |

### Runs

| run | bounds | what the bounds make happen |
| --- | --- | --- |
| `broker_ledger` | 4 requests, 3 permits, 2 slots, ceilings of 3 requests, 2 tokens, 2 dollars; a response of 1 chunk; starts with a serving broker | every ceiling and the permits bind; a reported cost is dear in dollars and the standing one in tokens, so either ceiling may bind first and be overshot by both slots |
| `broker_pass` | 2 requests, 2 slots, ceilings that do not bind, 1 chunk | summary and exit with requests in flight; death of the child anywhere; kill and a kill that is not reaped in time |
| `broker_liveness` | 1 request, 2 chunks; fairness | every way a request can end and a start or a stop can fail; handlers do not wait for each other, so one is enough |

A request past its first two chunks is in a state it was in before but for
`total`, which only bounds it. `broker_ledger` begins in the state in which
`Started` leaves the broker, since the parent adds nothing to what the handlers
do; `broker_pass` has both. Connections are symmetric; symmetry is
used where only safety is checked. Deadlock is not checked: a closed pass with
all connections closed has stopped.

Fairness: weak, for each handler, for the child and for the parent, because each
of their waits has a timeout (`CLIENT_SOCKET_SECONDS`, `connect_seconds`,
`read_seconds`, `BROKER_START_SECONDS`, `BROKER_STOP_SECONDS`), which the model
has as the disjuncts that give up. None for Codex ending, and none for the child
dying, so `PassEnds` relies on `Kill` and `Leave`.

### What disagrees with the documentation

`engine.py` reads a summary with a clean exit as the broker having served every
request. The handler threads are daemons nobody waits for, so a request may be
cut short under a clean exit. What does hold is `AcceptedIsAccounted`.

Also seen while modelling: a request that was sent and not answered in time is
not charged the standing estimate the documentation promises of a request whose
cost is not reported, since only `_stream` charges (`NoAnswer` does not); and
`_UsageReader` is documented to read what was already written, while `_relay`
reads first. "What it refused, is recorded" (README.md:770-773) is true of what goes
through `_refuse`. Not everything the broker turns away does: a method without a
handler is answered 501 by the base class (tests/test_broker.py:383-386), and
`compare_digest` on a capability that is not ASCII (593) or `json.loads` on a body
nested too deeply (650) raises, which `handle_error` swallows with the client still
there; these are `Unserved`. Once a request was let in, the same exceptions on a line
of the provider (473) end it without a refusal: `Stumble`, which is charged but not
recorded, and which `FailuresRecorded` has to except. `AcceptedIsAccounted` needs the code's order: its mutant reads late
and loses the usage of the response that ended the pass.

### Proofs

`ModelBrokerProofs` assumes `BrokerAssumption`: the connections are finitely many
(how many, and everything else, is arbitrary), the limits are positive, and
`Dearest*` bound what may be charged. The code names no such bound: the
provider's report is taken as it comes, so the overshoot is in units of the
dearest request.

A step of a handler replaces its record and the ledger. `Effect(c)` says what the
counters need to know of that: whether the handler enters or leaves a slot, a
permit and the requests not yet charged, and what the ledger does at the same
time. One lemma per action shows that it has such an effect; `NumbersChange`
says what the cardinalities do; from these `SlotsKept`, `TypeKept`, `RoomKept`
keep the inductive invariant, which is `BrokerInv` with `StartedIsChargedOnce`.
`OvershootBounded` is not inductive: a charge raises the total by what the
request let in earlier may cost. `RoomLeft` is the strengthening: the total plus
`Dearest` for every request not yet charged stays below the bound, since a
request is only let in below the ceiling and into a free slot. The same effects,
read as steps of `MeteredPass`, give `MeteredRefined`. `ParentInv` relates the
stages of the parent, the port and the child, for `PortHeld` and `ClosedIsFinal`.

`FailuresRecorded` follows from `FailureInv`, which adds what `Orderly` says of
a handler on its way (nothing is let in before it was read, nothing relayed that was
not answered) and counts a request among the failures from where it settles. Each
step is shown to let at most one more request fail, and then to count a refusal
(`FailEffect`).

`AcceptedIsAccounted` compares the summary with sums over the requests. The fold
of the community modules is recursive, and induction theorems are out of the
prover's reach, so the lemmas on sums (`AddsAlike`, `AddsNat`, `AddsStep`,
`AddsExists`) argue by a smallest set that breaks the claim; `Smallest` gets it from
the well-foundedness of `<` on cardinalities. `TokensSummed` and `DollarsSummed` tie
the fold to `Total`, which may be taken apart in any order (`Totals`) and only grows
with the set (`TotalsGrow`). The inductive invariant is `AccountInv`: usage that was
read is charged (`Due`), the ledger has what all requests cost, and any summary
written has what those Codex was told the end of cost. Told is settled once the
pipe is closed, because the pass has ended, and the child takes its summary only
then; that handlers still run afterwards, with charges of their own, does no harm.

Only model-checked: the two liveness properties.

## Review pass

### Correspondence

One submission, because submissions share nothing in this lane but the budget of
the pass (`Postpone` is the budget being spent). `w[p]` is a pass that has
selected it.

| code | model |
| --- | --- |
| `status`, `review_attempts`, `renderability_attempts`, `render_request`, `renderability`, `review_retry_after`, `review_started_at` | `record`: `status`, `attempts`, `gates`, `request`, `receipt`, `cooling`, `stale` |
| the copy of the scan, written through later | `fresh`: its blob is still live |
| GitHub's runs of the render workflow, found by the id of the request (external) | `runs[id]` |
| choosing, `abandon_review` | `Select`, `SelectExhausted`, `Abandon` |
| `begin_renderability_check`, `prepare_workspace` | `GateBegin`, `Prepare` |
| `ensure_review_renderable` with its `save` | `SaveRequest`, `Restore`, `Expire`, `Accept` |
| `resume_render`, `request_render` | `Discover`, `Observe`, `AwaitDiscovery`, `GiveUp`, `SaveDispatch`, `Dispatch` |
| `begin_review`, `run_review`, `deliver_review` | `BeginReview`, `RunReview`, `ApplyReview`, `Deliver` |
| the failure handlers of `auto` | `Settle`, with what they write in `Settled`; `SettleBlind` if the record cannot be read |
| death, failed call, lost answer | `Crash`, `Raise`, `LoseAnswer` |

The identities of render requests are reused once neither the record nor a pass
knows them, which keeps `runs` finite.

### Properties

| property | says | kind |
| --- | --- | --- |
| `TypeOK` | types; the dispatches of a request stay in their bound | proved, run |
| `SpendingBounded` | engines started were counted first and stay below the limit (plus passes that overlap); runs dispatched for one request are bounded | proved, run |
| `ReviewedIsRendered` | no engine before a render succeeded | proved, run |
| `StoppedStays` | a withdrawal or another final decision is never overwritten | proved, run |
| `RequestOutlivesItsRun` | a render request is only forgotten for a verdict on it | proved, run |
| `ReviewSettles` | the submission comes to rest | run |

### Run, bounds, fairness

`review_pass`: one pass at a time, 3 attempts at the review, 2 at the gate, 2
dispatches, 1 fault. The code's constants for the last two are larger and are only
compared with; two are one retry and the limit. One fault is enough to lose any
write or any pass once; retries after it use the remaining attempts.

Fairness: a pass goes on; time passes; GitHub lists and ends its runs. Strong
fairness of `BeginReview` says that the budget is not spent on others for ever,
which the order of the queue gives, and of `Restore` that an artifact is not found
expired in every pass: the code renders the source again each time, without limit,
so a retention shorter than the interval between passes would never end.

One pass at a time is what the concurrency group gives; overlapping passes are
left to the proofs.

### Proofs

`ReviewPassProofs` proves the safety properties for any number of passes that
overlap, requests, attempts and faults, from `ReviewAssumption` (finitely many
passes, positive limits) and `NoneAssumption`. The inductive invariant `IInv` is the
type invariant with

* `SoundAt` for every pass: what it may rely on through a copy that is still live.
  The record is not stopped; at `begin` it has a receipt and no request. A pass whose
  copy is outdated relies on nothing, since its write will be refused; this is
  `StoppedStays`.
* `RecordSound`, `RunsSound`: a receipt, an engine or a successful run means that the
  source was rendered; a run that a request pins exists.
* `Counted`: engines started and passes about to start one are within the counted
  attempts, and these below the limit but for passes on their way. The cardinalities
  of two sets of passes change with every step, which is why this is the largest
  part of the proof.
* `AloneAt`, only if passes do not overlap: the request a pass goes by is the saved
  one, a verdict about to be settled is on that, and every run was counted before it
  was dispatched.

`RequestOutlivesItsRun` and the bound on dispatches are stated under `Alone`, the
condition of that last part; they do not hold otherwise (see below). All else
holds with overlap. Only `ReviewSettles` is left to TLC.

### Seen while modelling

* A failure that precedes the render, in `prepare_workspace`, counts against the
  gate only while no render request is saved. With one saved, a persistent
  failure is retried for ever (`Settled`, `"gate"` with a request).
* Overlapping passes may each dispatch the same saved request, beyond its limit, and
  one may forget, on the verdict on its own copy, a request that the other saved.
* The save of an overlapping pass can set `reviewing` back to `awaiting-review`,
  and a second review starts beside the first; both are counted.
* A rerun of an outdated delivered review with its attempts used up is abandoned
  without an attempt.

### Not modelled

Registry corrections, which skip the gate; reruns of outdated delivered reviews;
the budget among several submissions; `request_another_pass`; the order of
`review.json` and the record in the delivery (`Registration` has it).

## Open queue

### Correspondence

The index is derived from the records, and nothing writes both at once. Its blob
is its content: a write passes when the ids and the dates are what was read, even
if they changed and changed back (`Passes`). A record carries dated events, and is
never the same blob twice (`live`).

Of `FINISHED_STATUSES`, `paused` is the one an operator may requeue; `stopped`
stands for those that may have a pull request on its way, a withdrawal above all;
`ended` for the others, and for a registration that is starred. One that is not
starred is `registered`, and unfinished (`finished_with`).

| code | model |
| --- | --- |
| `index/open.json`, `rebuild_after` | `index.open`, `index.due` |
| `open_index`, `rebuild_open_index` | `OpenIndex`, `IndexUnread`, `Capture`, `Clone`, `Rebuild` |
| `open_submissions`, `finished_with` | `Read`, `ReadFails`, `Drop`, `finished_with` |
| `rebuild_queue` | `BeginSweep`, `ReadBack`, `Swept` |
| `retry_registration` | `BeginRequeue`, `Enqueue`, `Requeue` |
| `ingest_failure_diagnostics` | `Ingest` |
| `notify_operator_alerts` | `Notify`, `Send`, `RecordSent`, `SendFails` |
| submission server (external) | `Admit`, `AdmitIndex`, `AdmitFails` |
| `finalize`, of what the index sees | `Finalize` |
| the other lanes | `Advance`, `Touch` |

### Properties

| property | says | kind |
| --- | --- | --- |
| `UnfinishedIsListed` | unfinished work is in the queue, being admitted, or slipped out in one of three known ways | proved, run |
| `SweepIsRecorded` | a sweep that says it succeeded has left all of its clone in the live queue | proved, run |
| `SentOnce` | an alert recorded as sent was sent, and is not sent again but for a fault or an overlapping notification | proved, run |
| `TypeOK` | types; an id that could not be read is still an id | proved, run |

### Run and bounds

`open_queue`: two submissions, one that is admitted in the run, or whose admission
fails, and that fails and is ingested and notified; one that is paused, requeued,
withdrawn, registered and starred, in any order the code allows. The run begins with
the latter admitted and listed and the index not due (`ListedSpec`), a state that
`Init` leads to: two admissions in one run are too many states. The scans of the
schedule are one thread, the sweep and the requeue another, and there is one fault.
Every pair of a read and a write of the index or of a record by the two threads and
the server interleaves. Two ids are enough for one to be dropped while the other is
added.

There is no liveness property: the state space with fairness is too large, and
that a slipped id comes back is the weekly sweep, whose one step is
`SweepIsRecorded`.

### Proofs

`OpenQueueProofs` proves the properties marked above for any finite sets of
submissions and commands, any jobs, and any number of faults, from
`QueueAssumption`. `UnfinishedIsListed` is not inductive: a command may hold a
queue without an unfinished submission and be about to write it. What makes that
harmless is the blob the write is conditional on:

* `Held`: a command that holds a queue without an unfinished submission names, as
  the content it replaces, one without that submission too, or the submission is
  known to have slipped. So if the write passes, the submission was not listed
  before it either (`LeftOut`).
* `Sound`: what a command has read of the index or of a clone exists, which is why
  a submission just admitted is in no queue anybody holds; and a requeue or sweep
  whose rebuild was not refused holds exactly the content it names.
* `ListedExists`: so does what is listed.

A finished submission becomes unfinished again by a requeue (`Requeue`) or by a
registration that is finalized (`Finalize`). Both add it to `slipped` exactly when it
is not listed or `Held` would fail for it (`Reopens`, `HoldsWithout`). The lemmas
`Internal`, `Indexed`, `Recorded` and `Elsewhere` are the four kinds of step, and
one lemma per action puts it under one of them. `SweepsAreRecorded` follows from
`Sound`, once `OnlyByReadBack` has shown which action ends a sweep.

`AlertsSentProofs` proves `SentOnce` from a further invariant, `SInv`, over the same
states. It balances messages against what pays for them (`CountedAt`). While an
alert is not noted yet, a message sent for it is about to be noted by the command
that sent it, through a copy that is still live (`Recording`), or was paid for by a
fault. One fault (a death, a failed call, a write of the record by another lane)
pays for a message of every notifier, as it may outdate all their copies at once:
those of them about to send although their note will be refused (`Unsure`) are in
the balance already. Once noted, nobody new begins to send, and the notifiers
still underway (`Sending`) are paid for by the overlap.

### Seen while modelling

`retry_registration` puts the id into the queue before it changes the record,
"Queue first", so that work never exists unlisted (`cli.py:9774`). A scan that has
read the record as paused before, and drops the id from an index read after
the requeue wrote it, or between its two writes, defeats that: the work is
unlisted until the next rebuild.

`finalize` writes `registered` over whatever the status was (`cli.py:7542`). A
record that was withdrawn after its pull request had been made, and was dropped
from the queue as finished, is then a registration without a star, which
`finished_with` calls unfinished (`cli.py:4006`), and nobody lists it again: it is
not starred until the next rebuild.

These are two of the three ways in `slipped`; the third is the server failing
between the record and its admission. The docstring of `rebuild_queue`
(`cli.py:4180`) knows of the third and of edits by hand only, as what the weekly
sweep is for.

## Operator alerts

### Correspondence

One alert of one submission; alerts do not interact.

| code | model |
| --- | --- |
| the outbox item: `sent`, `disposition`, `delivered_sha256`, `edit_error` | `item` |
| `index/operator-alerts.json` and its cached outcomes | `index` |
| reports that can still be downloaded (external) | `artifacts` |
| the Zulip message (external) | `message` |
| `notify_operator_alerts` | `Notify`, `Send`, `RecordSent` |
| `reconcile_operator_alerts`, scoped or not | `Reconcile`, `Collect`, `RefreshIndex`, `Fresh`, `Stage`, `RecordResult` |
| `best_outcome`, `desired_alerts` | `Best`, `Desired` |
| `edit_zulip_message` | `Edit`, `Patch`, `EditUnanswered` |
| a maintainer, a person in Zulip, the submitter | `Reclassify`, `EditByHand`, `Withdraw` |

### Properties

| property | says | kind |
| --- | --- | --- |
| `Inv` | types, and whatever the message says was on record before it was said | proved, run |
| `ForeignStands` | what a person wrote into the message is not overwritten | proved, run |
| `CorrectionStands` | a maintainer's correction is final | proved, run |
| `RecoveryStands` | a recovery is not demoted when its artifact expires, unless the cache was lost too or commands overlap | proved, run |
| `DispositionIsShown` | a disposition is shown, or that it cannot be is on record | run |

### Run, bounds, fairness

`operator_alerts`: one later success of the same commit and one of a successor, in
either order, one command at a time, one fault. The initial states include alerts
sent before their messages were hashed, and an index of the older format. Commands
go on; notification and an unscoped reconciliation with `--deliver` are run again
and again (strongly fair, as others may run between).

### Proofs

`OperatorAlertsProofs` proves the safety properties for any outcomes, overlapping
commands and faults, from `AlertsAssumption` and `NoneAssumption` (None is neither a
message, an item nor an index). `IInv` says what each command knows: while its copy of the
alert is live, the disposition and the sent flag in it are the record's (`Knows`), and
the outcomes it goes by were verified (`Informed`); and that what the index and
the outbox say is on record (`Consistent`). `CorrectionStands` follows because a live
copy that may stage a disposition was never of a corrected alert, and
`ForeignStands` because a message is only patched from a content that was ours.

`RecoveryStands` needs `Kept`, which holds while commands do not overlap and the index
was not lost: the index has the evidence of a recovery on record, and the one command
forgets no outcome that the index has (`Faithful`). Which outcome is the latest is
a choice over a finite set; that there is one is proved by a smallest position in
the order of verification (`NatLessThanWellFounded`). Only `DispositionIsShown` is left to TLC.

### Seen while modelling

* `edit_zulip_message` promises that a lost acknowledgement is repaired by
  matching the desired content. Not if the disposition has changed meanwhile: then
  the message is neither the desired nor the expected one, and the edit is a
  conflict for good.
* Overlapping reconciliations can replace a recovery by a supersession until the
  next run, and so can a lost index once the artifact has expired.
* A reclassification between the copy a reconciliation takes and its edit stands
  in the record, but the edit is made.

### Not modelled

Wording, hashes as such (a hash is the message it is the hash of), the grouping
of submissions into configurations, and several alerts in one outbox.

## Metadata repairs

### Correspondence

A repair is spread over five places that nothing writes together.

| code | model |
| --- | --- |
| `repair.json` | `request`; a command's `copy` of it is `fresh` while its blob is live |
| `repair` in `state.json` | `mirror` |
| `index/repairs` | `index`, whose blob is its content |
| the branch in the fork, its pull requests (external) | `branch`, `pr` |
| `repair_queue` | `Begin`, `Take`, `ReadIndex`, `Drop` |
| `_prepare_repair`, with its `finally` | `Prepare`, `Preflight`, `Existing`, `Post`, `Cleanup` |
| `_advance_open_repair` | `Check` |
| `_record_repair` | `Record`, `Mirror` |
| the handler of every exception | `Raised`, `Fail` |
| `upgrade_repair_failures` | `BeginUpgrade`, `Upgrade` |
| submission server, submitter (external) | `Ask`, `List`, `Decide` |
| death, failed call, lost answer | `Crash`, `Raise`, `LoseAnswer` |

### Properties

| property | says | kind |
| --- | --- | --- |
| `Inv` | types; what goes on is listed or being listed; the mirror never runs ahead; guidance is not replaced under a request | proved, run |
| `RecordedIsReal` | a pull request had a checked candidate, and the record says what became of it | proved, run |
| `EndedStays` | what has ended stays ended, also when a command that read it before writes after | proved, run |
| `PullRequestStands` | without overlap: no second pull request, and no branch is removed under an open one on record | proved, run |
| `RequestConcludes` | a listed request comes to wait for its submitter, or leaves the queue | run |

### Run, bounds, fairness

`metadata_repair`: two submissions, the scheduled command and one that may be
started beside it, one fault. `MCMetadataRepair` bounds them together
(`OverlapBound`): as long as commands have not overlapped both submissions may
have requests, which a drop of one needs to meet the listing of the other; a
behaviour in which they have is of one submission only, whose `repair.json` both
commands hold, one of them outdated by the other. Without the bound there are
more than 15 million states; the proofs have none.
Fairness: a command is run again and again, and one that runs goes on; the server
lists what it took. The bound never stands in the way of it: it refuses nothing
but new requests, and a second command while both submissions have one. Nobody has
to merge, which is why an open pull request is excluded.

### Proofs

`MetadataRepairProofs` proves every safety property of the run for any number
of requests, overlapping commands and faults, from `RepairAssumption`
(`None` is neither a submission nor a status). The inductive invariant `IInv`
adds to the properties:

* `Sound`: what each command may rely on where it stands whatever others do.
  A copy still fresh is what the record says; a candidate to be posted was
  checked; what is to be recorded of a pull request is true of it, as far as
  that cannot change any more; whoever drops a request knows that it has ended.
* `Alone`: while commands do not overlap, the rest of what they rely on. Its copy
  stays fresh, the branch it posts has no pull request, and one that cleans up
  has a record that does not say `pr-open`.
* `Agree`: what is listed was asked for, and an open pull request has its branch.

`Grows` is what no step takes back: a request stays asked for, an end an end, a
pull request a pull request, a check a check. `OthersStay` shows with it that
commands which do not move stay sound; the lemmas `Internal`, `MovedAlone`,
`Written` and `WorldMoves` are the four kinds of step, and one lemma per action
puts it under one of them. `EndedStays` and `PullRequestStands` follow from what
a step does to `request` and at GitHub (`RequestStep`, `GithubStep`). Only
`RequestConcludes` is left to TLC.

### Seen while modelling

* `_record_repair` reads `state.json` after it has written `repair.json`, outside
  of its own `try`. If that read fails, the handler records `failed` over a pull
  request that was just opened, or merged. The comment there says that a concurrent
  event must not turn an opened pull request into a failed repair (`cli.py:8272`).
  A failed call while an open pull request is checked does the same.
* A lost answer to the opening of a pull request makes `finally` delete its
  branch, which closes it; the request has failed.
* Overlapping commands: the conflict of the later one records `failed` over the
  result of the earlier one; a second pull request may be opened; the branch of an
  open one may be deleted. `PullRequestStands` excludes overlap for this reason.

### Not modelled

A second request for the same submission after the first has ended (between the
terminal record and the drop it would be lost from the queue), a pull request
that is reopened, the edits and their validation, the fork.

## What no module models

The archive's forks, rulesets and refs and the Database's check runs beyond one
step each; stars; the review engine and its sandbox, rubric and prompts,
mechanical evidence, prices, which are functions of their inputs or plumbing
around another program; the resource failover, a choice among profiles; the
command line, packaging and audits.
