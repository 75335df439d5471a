---------------------------- MODULE ModelBroker ----------------------------
(***************************************************************************)
(* The loopback broker of one engine pass (broker.py): a child process     *)
(* that serves the sandboxed engine's requests to the model provider, one  *)
(* thread per connection, and a ledger that bounds what they may cost.     *)
(*                                                                         *)
(* Three actors.  The parent (BrokerProcess, driven by                     *)
(* engine._run_brokered_codex) binds the port, starts the child, runs      *)
(* Codex, closes the control pipe, reads the summary and reaps the child.  *)
(* The child (serve) serves until the pipe closes, then reports.  Its      *)
(* handler threads are daemons: nobody joins them, and they go on while    *)
(* the summary is taken.                                                   *)
(*                                                                         *)
(* Every response says "connection: close", so a connection carries one    *)
(* request and is a handler of its own.  The provider and the client are   *)
(* outside src/: whatever they may send or fail to send is chosen freely,  *)
(* except that a response stream ends in at most one terminal event.       *)
(***************************************************************************)
EXTENDS Integers, Sequences, FiniteSets, FiniteSetsExt

CONSTANTS
    Connections,    \* the connections the client makes during the pass
    MaxConnections, \* connections served at once
    MaxRequests, MaxTokens, MaxSpend, MaxConcurrent, \* BrokerPolicy
    MaxChunks,      \* the response bound, in chunks
    Charges,        \* what the provider may report a request to have cost
    Unmeasured,     \* UNMEASURED_REQUEST_TOKENS and their price
    DearestTokens, DearestSpend, \* bounds of one charge
    None

Costs == [tokens : 0..DearestTokens, usd : 0..DearestSpend]

ASSUME BrokerAssumption ==
    /\ IsFiniteSet(Connections)
    /\ {MaxConnections, MaxRequests, MaxTokens, MaxSpend, MaxConcurrent, MaxChunks}
         \subseteq Nat \ {0}
    /\ DearestTokens \in Nat /\ DearestSpend \in Nat
    /\ Charges \subseteq Costs
    /\ Unmeasured \in Costs
    /\ None \notin Charges

VARIABLES
    \* The parent.
    stage,   \* how far BrokerProcess has come
    failed,  \* the pass raised: no start, or Codex failed or ran out of time
    held,    \* the parent's own reference to the listening socket
    lines,   \* what the child has written and the parent not yet read
    summary, \* BrokerProcess.summary
    exit,    \* BrokerProcess.exit_status
    \* The child.
    child, status,
    permits, \* the semaphore of _BoundedServer
    ledger,
    \* The handlers.
    h

parent == <<stage, failed, held, lines, summary, exit>>
server == <<child, status, permits, ledger>>
vars == <<stage, failed, held, lines, summary, exit, child, status, permits, ledger, h>>

\* What a handler is about to do.  From "connecting" to "ending" the request
\* is admitted and counted in ledger.active.
SlotPcs == {"connecting", "awaiting", "relaying", "writing", "settling", "ending"}
OpenPcs == SlotPcs \cup {"reading", "closing"}
Pcs == OpenPcs \cup {"idle", "closed"}
Ended == {"closing", "closed"}

Handlers == [
    pc : Pcs,
    answer : {"none", "ok", "error"}, \* the provider's status: 200, or another
    event : {"none", "plain", "overlong"}, \* the terminal event, once it came
    seen : BOOLEAN,    \* _UsageReader.seen
    total : 0..MaxChunks,
    whole : BOOLEAN,   \* what _forward returns
    hungup : BOOLEAN,  \* a write found that the client had gone
    \* For the properties only:
    admitted : BOOLEAN, \* the request was let in
    raised : BOOLEAN,  \* an exception nobody catches ended it
    told : BOOLEAN,    \* the client has been given the terminal event
    charges : Nat,     \* how often the request was charged
    cost : Costs]      \* what it was charged

Ledgers == [requests : Nat, forwarded : Nat, active : Nat, tokens : Nat, usd : Nat,
            unpriced : Nat, refusals : Nat]

Line == [kind : {"port", "eof"}, ledger : {None}] \cup [kind : {"summary"}, ledger : Ledgers]

Stages == {"new", "bound", "spawned", "configured", "running", "closing", "reaping",
           "killing", "closed"}

NoCost == [tokens |-> 0, usd |-> 0]

Idle == [pc |-> "idle", answer |-> "none", event |-> "none", seen |-> FALSE, total |-> 0,
         whole |-> FALSE, hungup |-> FALSE, admitted |-> FALSE, raised |-> FALSE,
         told |-> FALSE, charges |-> 0, cost |-> NoCost]

Init ==
    /\ stage = "new" /\ failed = FALSE /\ held = FALSE
    /\ lines = <<>> /\ summary = None /\ exit = None
    /\ child = "none" /\ status = None
    /\ permits = MaxConnections
    /\ ledger = [requests |-> 0, forwarded |-> 0, active |-> 0, tokens |-> 0, usd |-> 0,
                 unpriced |-> 0, refusals |-> 0]
    /\ h = [c \in Connections |-> Idle]

-----------------------------------------------------------------------------
\* The ledger.

\* Mutant: the token ceiling is exceeded before it blocks.
BlockedPastTokens ==
    \/ ledger.requests >= MaxRequests
    \/ ledger.tokens > MaxTokens
    \/ ledger.usd >= MaxSpend
    \/ ledger.active >= MaxConcurrent

\* Mutant: the spend ceiling is forgotten.
BlockedButSpend ==
    \/ ledger.requests >= MaxRequests
    \/ ledger.tokens >= MaxTokens
    \/ ledger.active >= MaxConcurrent

\* The request, token, spend and concurrency ceilings.
Blocked ==
    \/ ledger.requests >= MaxRequests
    \/ ledger.tokens >= MaxTokens
    \/ ledger.usd >= MaxSpend
    \/ ledger.active >= MaxConcurrent

Refused == [ledger EXCEPT !.refusals = @ + 1]

Begun == [ledger EXCEPT !.requests = @ + 1, !.active = @ + 1]

\* Mutant: end is called on success only, not in a finally.
DoneIfForwarded(forwarded) ==
    IF forwarded
    THEN [ledger EXCEPT !.active = @ - 1, !.forwarded = @ + 1]
    ELSE ledger

Done(forwarded) ==
    [ledger EXCEPT !.active = @ - 1, !.forwarded = IF forwarded THEN @ + 1 ELSE @]

\* Unusable usage is charged the standing estimate.
Priced(usage) == IF usage = None THEN Unmeasured ELSE usage

Recorded(usage) ==
    [ledger EXCEPT
        !.tokens = @ + Priced(usage).tokens,
        !.usd = @ + Priced(usage).usd,
        !.unpriced = IF usage = None THEN @ + 1 ELSE @]

-----------------------------------------------------------------------------
\* The handler threads.

\* Threads run while the process does, also after it has stopped accepting.
Alive == child \in {"serving", "stopping", "reported"}

Becomes(c, handler) == h' = [h EXCEPT ![c] = handler]

At(c, pc) == Alive /\ h[c].pc = pc

\* The listener is shared, so a connection the client opened is accepted as
\* long as the child serves, also when the client has gone since.
Accept(c) ==
    /\ child = "serving"
    /\ stage \in {"running", "closing", "reaping"}
    /\ h[c].pc = "idle"
    /\ \/ /\ permits > 0
          /\ permits' = permits - 1
          /\ Becomes(c, [h[c] EXCEPT !.pc = "reading"])
       \/ /\ permits = 0
          /\ Becomes(c, [h[c] EXCEPT !.pc = "closed"])
          /\ UNCHANGED permits
    /\ UNCHANGED <<parent, child, status, ledger>>

\* A connection that ends without a word of the ledger: its client says nothing
\* for too long or goes away, the base class answers (a request line or headers it
\* cannot read, a method without a handler), or reading the capability or the body
\* raises what nobody catches, which handle_error swallows.
Unserved(c) ==
    /\ At(c, "reading")
    /\ Becomes(c, [h[c] EXCEPT !.pc = "closing"])
    /\ UNCHANGED <<parent, server>>

\* What goes through _refuse: a request other than the one this broker serves, or
\* one past a ceiling.
Refuse(c) ==
    /\ At(c, "reading")
    /\ ledger' = Refused
    /\ Becomes(c, [h[c] EXCEPT !.pc = "closing"])
    /\ UNCHANGED <<parent, child, status, permits>>

Admit(c) ==
    /\ At(c, "reading")
    /\ ~Blocked
    /\ ledger' = Begun
    /\ Becomes(c, [h[c] EXCEPT !.pc = "connecting", !.admitted = TRUE])
    /\ UNCHANGED <<parent, child, status, permits>>

\* The provider is reached and has the whole request.
Connect(c) ==
    /\ At(c, "connecting")
    /\ Becomes(c, [h[c] EXCEPT !.pc = "awaiting"])
    /\ UNCHANGED <<parent, server>>

\* No connection, no answer in time, or a redirect: the client is refused.
NoAnswer(c) ==
    /\ At(c, "connecting") \/ At(c, "awaiting")
    /\ ledger' = Refused
    /\ Becomes(c, [h[c] EXCEPT !.pc = "ending"])
    /\ UNCHANGED <<parent, child, status, permits>>

\* The answer starts, and its headers are passed on unless the client has gone.
Respond(c) ==
    /\ At(c, "awaiting")
    /\ \E answer \in {"ok", "error"}, gone \in BOOLEAN :
         Becomes(c, [h[c] EXCEPT !.answer = answer,
                                 !.pc = IF gone THEN "settling" ELSE "relaying",
                                 !.hungup = gone])
    /\ UNCHANGED <<parent, server>>

\* Mutant: the usage of a response is read when its stream has ended.
TerminalReadLate(c) ==
    /\ h[c].answer = "ok"
    /\ h[c].event = "none"
    /\ Becomes(c, [h[c] EXCEPT !.pc = "writing", !.total = @ + 1, !.event = "plain"])
    /\ UNCHANGED ledger

\* The terminal event is read out of a chunk before the chunk is passed on,
\* unless its line is too long for the reader to keep.
Terminal(c) ==
    /\ h[c].answer = "ok"
    /\ h[c].event = "none"
    /\ \/ \E usage \in Charges \cup {None} :
            /\ ledger' = Recorded(usage)
            /\ Becomes(c, [h[c] EXCEPT !.pc = "writing", !.total = @ + 1,
                                       !.event = "plain", !.seen = TRUE,
                                       !.charges = @ + 1, !.cost = Priced(usage)])
       \/ /\ Becomes(c, [h[c] EXCEPT !.pc = "writing", !.total = @ + 1, !.event = "overlong"])
          /\ UNCHANGED ledger

\* Mutant: responses have no bound.
ChunkUnbounded(c) ==
    /\ At(c, "relaying")
    /\ Becomes(c, [h[c] EXCEPT !.pc = "writing"])
    /\ UNCHANGED <<parent, server>>

Chunk(c) ==
    /\ At(c, "relaying")
    /\ h[c].total < MaxChunks
    /\ \/ Terminal(c)
       \/ /\ Becomes(c, [h[c] EXCEPT !.pc = "writing", !.total = @ + 1])
          /\ UNCHANGED ledger
    /\ UNCHANGED <<parent, child, status, permits>>

Write(c) ==
    /\ At(c, "writing")
    /\ Becomes(c, [h[c] EXCEPT !.pc = "relaying",
                               !.told = @ \/ (h[c].event # "none" /\ stage = "running")])
    /\ UNCHANGED <<parent, server>>

HangUp(c) ==
    /\ At(c, "writing")
    /\ Becomes(c, [h[c] EXCEPT !.pc = "settling", !.hungup = TRUE])
    /\ UNCHANGED <<parent, server>>

\* A line of the chunk raises what the reader does not catch (an integer or a nesting
\* json.loads will not take): before the chunk is passed on, and before or after the
\* terminal event in it, if there was one.
Stumble(c) ==
    /\ At(c, "writing")
    /\ h[c].answer = "ok"
    /\ Becomes(c, [h[c] EXCEPT !.pc = "settling", !.raised = TRUE])
    /\ UNCHANGED <<parent, server>>

\* Mutant: a stream that breaks is given up without a word.
BreakSilently(c) ==
    /\ At(c, "relaying")
    /\ Becomes(c, [h[c] EXCEPT !.pc = "settling"])
    /\ UNCHANGED <<parent, server>>

\* The provider stalls, disconnects, sends too much or stops early.
Break(c) ==
    /\ At(c, "relaying")
    /\ ledger' = Refused
    /\ Becomes(c, [h[c] EXCEPT !.pc = "settling"])
    /\ UNCHANGED <<parent, child, status, permits>>

EndOfStream(c) ==
    /\ At(c, "relaying")
    /\ Becomes(c, [h[c] EXCEPT !.pc = "settling", !.whole = (h[c].answer = "ok")])
    /\ UNCHANGED <<parent, server>>

\* Mutant: a client that hangs up is not charged the standing estimate.
SettleUnlessHungUp(c) ==
    /\ At(c, "settling")
    /\ \/ /\ h[c].answer = "ok" /\ ~h[c].seen /\ ~h[c].hungup
          /\ ledger' = Recorded(None)
          /\ Becomes(c, [h[c] EXCEPT !.pc = "ending", !.charges = @ + 1, !.cost = Unmeasured])
       \/ /\ h[c].answer # "ok" \/ h[c].seen \/ h[c].hungup
          /\ Becomes(c, [h[c] EXCEPT !.pc = "ending"])
          /\ UNCHANGED ledger
    /\ UNCHANGED <<parent, child, status, permits>>

\* A started response that never reported its usage is charged on the way out.
Settle(c) ==
    /\ At(c, "settling")
    /\ \/ /\ h[c].answer = "ok" /\ ~h[c].seen
          /\ ledger' = Recorded(None)
          /\ Becomes(c, [h[c] EXCEPT !.pc = "ending", !.charges = @ + 1, !.cost = Unmeasured])
       \/ /\ h[c].answer # "ok" \/ h[c].seen
          /\ Becomes(c, [h[c] EXCEPT !.pc = "ending"])
          /\ UNCHANGED ledger
    /\ UNCHANGED <<parent, child, status, permits>>

End(c) ==
    /\ At(c, "ending")
    /\ ledger' = Done(h[c].whole)
    /\ Becomes(c, [h[c] EXCEPT !.pc = "closing"])
    /\ UNCHANGED <<parent, child, status, permits>>

\* Mutant: a connection that ends keeps its permit.
ReleaseNothing(c) ==
    /\ At(c, "closing")
    /\ Becomes(c, [h[c] EXCEPT !.pc = "closed"])
    /\ UNCHANGED <<parent, server>>

Release(c) ==
    /\ At(c, "closing")
    /\ permits' = permits + 1
    /\ Becomes(c, [h[c] EXCEPT !.pc = "closed"])
    /\ UNCHANGED <<parent, child, status, ledger>>

Handle(c) ==
    \/ Unserved(c) \/ Refuse(c) \/ Admit(c) \/ Connect(c) \/ NoAnswer(c) \/ Respond(c)
    \/ Chunk(c) \/ Write(c) \/ HangUp(c) \/ Stumble(c) \/ Break(c) \/ EndOfStream(c)
    \/ Settle(c) \/ End(c) \/ Release(c)

-----------------------------------------------------------------------------
\* The child.

PipeClosed == stage \in {"closing", "reaping", "killing", "closed"}

Says(line) == lines' = Append(lines, line)

\* The configuration arrives in one line, and the port is the answer to it.
Serve ==
    /\ child = "starting"
    /\ stage \notin {"bound", "spawned"}
    /\ child' = "serving"
    /\ Says([kind |-> "port", ledger |-> None])
    /\ UNCHANGED <<stage, failed, held, summary, exit, status, permits, ledger, h>>

\* shutdown and server_close: no more is accepted, the threads are not joined.
StopServing ==
    /\ child = "serving"
    /\ PipeClosed
    /\ child' = "stopping"
    /\ UNCHANGED <<parent, status, permits, ledger, h>>

Report ==
    /\ child = "stopping"
    /\ child' = "reported"
    /\ Says([kind |-> "summary", ledger |-> ledger])
    /\ UNCHANGED <<stage, failed, held, summary, exit, status, permits, ledger, h>>

Leaves(code) ==
    /\ child' = "gone"
    /\ status' = code
    /\ Says([kind |-> "eof", ledger |-> None])
    /\ UNCHANGED <<stage, failed, held, summary, exit, permits, ledger, h>>

Exit == child = "reported" /\ Leaves(0)

\* It refuses to start, crashes, or is killed.
Die == child \in {"starting", "serving", "stopping", "reported", "dying"} /\ Leaves(1)

-----------------------------------------------------------------------------
\* The parent.

\* The port is bound here and held for the whole pass.
Bind ==
    /\ stage = "new"
    /\ \/ /\ stage' = "bound" /\ held' = TRUE
          /\ UNCHANGED failed
       \/ /\ stage' = "closed" /\ failed' = TRUE
          /\ UNCHANGED held
    /\ UNCHANGED <<lines, summary, exit, server, h>>

Spawn ==
    /\ stage = "bound"
    /\ \/ /\ stage' = "spawned" /\ child' = "starting"
          /\ UNCHANGED <<failed, held>>
       \/ /\ stage' = "closed" /\ failed' = TRUE /\ held' = FALSE
          /\ UNCHANGED child
    /\ UNCHANGED <<lines, summary, exit, status, permits, ledger, h>>

\* The pipe is broken exactly when the child is gone.
Configure ==
    /\ stage = "spawned"
    /\ IF child = "gone"
       THEN stage' = "closing" /\ failed' = TRUE
       ELSE stage' = "configured" /\ UNCHANGED failed
    /\ UNCHANGED <<held, lines, summary, exit, server, h>>

\* _next_line: the first line the child wrote, or no answer in time.
Started ==
    /\ stage = "configured"
    /\ lines # <<>> /\ Head(lines).kind = "port"
    /\ stage' = "running"
    /\ lines' = Tail(lines)
    /\ UNCHANGED <<failed, held, summary, exit, server, h>>

StartFails ==
    /\ stage = "configured"
    /\ \/ lines = <<>> /\ UNCHANGED lines
       \/ lines # <<>> /\ Head(lines).kind = "eof" /\ lines' = Tail(lines)
    /\ stage' = "closing" /\ failed' = TRUE
    /\ UNCHANGED <<held, summary, exit, server, h>>

\* Codex completes a turn it was told the end of, or fails, or runs too long.
EndPass ==
    /\ stage = "running"
    /\ \/ failed' = TRUE
       \/ (\E c \in Connections : h[c].told) /\ UNCHANGED failed
    /\ stage' = "closing"
    /\ UNCHANGED <<held, lines, summary, exit, server, h>>

\* Mutant: the port is released before the child is reaped.
AwaitSummaryThenRelease ==
    /\ stage = "closing"
    /\ lines' = IF lines = <<>> THEN lines ELSE Tail(lines)
    /\ summary' = IF lines # <<>> /\ Head(lines).kind = "summary"
                  THEN Head(lines).ledger ELSE summary
    /\ stage' = "reaping" /\ held' = FALSE
    /\ UNCHANGED <<failed, exit, server, h>>

\* close(), which has closed the pipe: a summary, another line, or nothing.
AwaitSummary ==
    /\ stage = "closing"
    /\ \/ /\ lines = <<>>
          /\ UNCHANGED <<lines, summary>>
       \/ /\ lines # <<>>
          /\ lines' = Tail(lines)
          /\ summary' = IF Head(lines).kind = "summary" THEN Head(lines).ledger ELSE summary
    /\ stage' = "reaping"
    /\ UNCHANGED <<failed, held, exit, server, h>>

\* The port is released last.
Reap ==
    /\ stage \in {"reaping", "killing"}
    /\ child = "gone"
    /\ exit' = status
    /\ stage' = "closed" /\ held' = FALSE
    /\ UNCHANGED <<failed, lines, summary, server, h>>

\* Mutant: a child that does not stop in time is left running.
KillNothing ==
    /\ stage = "reaping"
    /\ child # "gone"
    /\ stage' = "closed" /\ held' = FALSE
    /\ UNCHANGED <<failed, lines, summary, exit, server, h>>

Kill ==
    /\ stage = "reaping"
    /\ child # "gone"
    /\ stage' = "killing" /\ child' = "dying"
    /\ UNCHANGED <<failed, held, lines, summary, exit, status, permits, ledger, h>>

\* Mutant: the killed child is waited for without a timeout.
LeaveUntimed ==
    /\ stage = "killing"
    /\ child = "gone"
    /\ stage' = "closed" /\ held' = FALSE
    /\ UNCHANGED <<failed, lines, summary, exit, server, h>>

\* Even the killed child may not be reaped in time; it does nothing more.
Leave ==
    /\ stage = "killing"
    /\ child = "dying"
    /\ stage' = "closed" /\ held' = FALSE
    /\ UNCHANGED <<failed, lines, summary, exit, server, h>>

-----------------------------------------------------------------------------
Child == Serve \/ StopServing \/ Report \/ Exit

Parent == Bind \/ Spawn \/ Configure \/ Started \/ StartFails
          \/ AwaitSummary \/ Reap \/ Kill \/ Leave

Next ==
    \/ \E c \in Connections : Accept(c) \/ Handle(c)
    \/ Child \/ Die
    \/ Parent \/ EndPass

Spec == Init /\ [][Next]_vars

\* Every wait has a timeout and every thread is scheduled.  Nothing makes
\* Codex end its pass, and nothing makes the child die.
Fairness ==
    /\ \A c \in Connections : WF_vars(Handle(c))
    /\ WF_vars(Child)
    /\ WF_vars(Parent)

FairSpec == Spec /\ Fairness

\* engine._run_brokered_codex: the pass has a review, an account and a clean end.
Accepted == stage = "closed" /\ ~failed /\ summary # None /\ exit = 0

-----------------------------------------------------------------------------
\* Properties.

\* The requests in a slot of the ledger, and those of them not yet charged.
Held == {c \in Connections : h[c].pc \in SlotPcs}
Owing == {c \in Held : h[c].charges = 0}
Open == {c \in Connections : h[c].pc \in OpenPcs}

TypeOK ==
    /\ stage \in Stages /\ failed \in BOOLEAN /\ held \in BOOLEAN
    /\ lines \in Seq(Line) /\ summary \in Ledgers \cup {None} /\ exit \in {None, 0, 1}
    /\ child \in {"none", "starting", "serving", "stopping", "reported", "dying", "gone"}
    /\ status \in {None, 0, 1}
    /\ permits \in 0..MaxConnections
    /\ ledger \in Ledgers
    /\ h \in [Connections -> Handlers]

\* The counters are what the threads make of them: every admitted request
\* holds a slot and every connection a permit until it ends, however it ends.
SlotsCounted ==
    /\ ledger.active = Cardinality(Held)
    /\ ledger.active <= MaxConcurrent
    /\ permits + Cardinality(Open) = MaxConnections
    /\ ledger.requests <= MaxRequests

\* What is known of a handler at each of its steps.
Progress(c) ==
    /\ h[c].seen => h[c].event = "plain"
    /\ h[c].event # "none" => h[c].answer = "ok"
    /\ h[c].charges \in {0, 1}
    /\ h[c].pc \notin Ended \cup {"ending"} => (h[c].charges = 1 <=> h[c].seen)
    /\ h[c].pc \in {"idle", "reading", "connecting", "awaiting"} => h[c].answer = "none"

\* Every request not yet charged was let in below the ceiling, so there is
\* room for what it may yet cost.
RoomLeft ==
    /\ ledger.tokens + Cardinality(Owing) * DearestTokens
         < MaxTokens + MaxConcurrent * DearestTokens
    /\ ledger.usd + Cardinality(Owing) * DearestSpend
         < MaxSpend + MaxConcurrent * DearestSpend

BrokerInv == TypeOK /\ SlotsCounted /\ RoomLeft /\ \A c \in Connections : Progress(c)

\* A response that started is charged once, by the usage the provider reports
\* or by the standing estimate, whatever ends it (Ledger.record_usage,
\* _Handler._stream).
StartedIsChargedOnce == \A c \in Connections :
    /\ h[c].charges <= 1
    /\ h[c].answer = "ok" /\ h[c].pc \in Ended \cup {"ending"} => h[c].charges = 1

\* Ceilings are checked before a request and its cost is known after it, so
\* a ceiling can be overshot: by what the requests of one set of slots cost,
\* and no more (broker.py, MAX_SPEND_USD).
OvershootBounded ==
    /\ ledger.tokens < MaxTokens + MaxConcurrent * DearestTokens
    /\ ledger.usd < MaxSpend + MaxConcurrent * DearestSpend

\* The ledger and its threads implement the two metered budgets.
TokenBudget == INSTANCE MeteredPass WITH
    Ceiling <- MaxTokens, Slots <- MaxConcurrent, Dearest <- DearestTokens,
    spent <- ledger.tokens, open <- Cardinality(Owing)
SpendBudget == INSTANCE MeteredPass WITH
    Ceiling <- MaxSpend, Slots <- MaxConcurrent, Dearest <- DearestSpend,
    spent <- ledger.usd, open <- Cardinality(Owing)
Metered == TokenBudget!Spec /\ SpendBudget!Spec

\* A request that was let in and failed is in the record of refusals, unless its client
\* had gone, its client was given the failure by the provider, or the reader of its usage
\* raised: these three, and no other way out of _forward and _relay, leave nothing there.
FailuresRecorded ==
    ledger.refusals >= Cardinality({c \in Connections :
        /\ h[c].admitted /\ h[c].pc \in Ended /\ ~h[c].whole
        /\ ~h[c].hungup /\ h[c].answer # "error" /\ ~h[c].raised})

\* Whatever an accepted pass was told the end of is in its account: usage is
\* recorded before the client can act on the event that carries it, so the
\* summary of a pass that ended at once still has it (_relay, serve).
AcceptedIsAccounted ==
    LET told == {c \in Connections : h[c].told /\ h[c].event = "plain"}
    IN  Accepted =>
          /\ \A c \in told : h[c].charges > 0
          /\ summary.tokens >= MapThenSumSet(LAMBDA c : h[c].cost.tokens, told)
          /\ summary.usd >= MapThenSumSet(LAMBDA c : h[c].cost.usd, told)

\* The port cannot be had by another process before the pass is closed, even
\* if the child dies, and then the child serves nobody.
PortOutlivesBroker ==
    /\ stage \notin {"new", "closed"} => held
    /\ child # "none" /\ ~held => child \in {"gone", "dying"}

\* Once the pass is closed nothing is sent to the provider and no ledger moves.
NothingAfterClose == [][stage = "closed" => UNCHANGED <<h, ledger>>]_vars

\* A handler gives its slot back, however long the client stays: waits have
\* timeouts and responses a bound.
SlotsReturn == \A c \in Connections :
    h[c].pc \in SlotPcs ~> h[c].pc \notin SlotPcs \/ ~Alive

\* Starting ends in a running pass or a closed one, and closing ends.
PassEnds == stage \notin {"new", "running"} ~> stage \in {"running", "closed"}
=============================================================================
