------------------------------ MODULE OpenQueue ------------------------------
(***************************************************************************)
(* index/open.json, the queue of submissions the reviewer has not finished *)
(* with, and the commands that read and write it: every scan of a pass     *)
(* (open_submissions), the weekly sweep (rebuild_queue), the requeueing of *)
(* a paused registration (retry_registration), and the two scans that act  *)
(* on what they found in the records, the ingestion of failed runs and the *)
(* notification of maintainers.                                            *)
(*                                                                         *)
(* The index is derived from the records and nothing writes both at once.  *)
(* A write of either is conditional on the blob that was read.  The blob   *)
(* of a record is never the same twice, for its events carry their dates;  *)
(* that of the index is its content, its dates included, and the same ids  *)
(* under the same dates are the same blob again.  The order of the ids is  *)
(* left out: a scan may read them in any, and writes pass in more cases.   *)
(*                                                                         *)
(* What the review and registration lanes do to a record, and what the     *)
(* submission server does to both files, are actions of the world.         *)
(***************************************************************************)
EXTENDS Naturals, FiniteSets

CONSTANTS
    Submissions,
    Turns,     \* the statuses each of them may come to
    Workers,   \* threads of commands that may run at the same time
    Jobs,      \* which commands each of them runs
    MaxFaults, \* bounds crashes, failed calls, and changes of a record that change nothing here
    None

ASSUME QueueAssumption ==
    /\ IsFiniteSet(Submissions) /\ IsFiniteSet(Workers)
    /\ Turns \in [Submissions -> SUBSET {"reporting", "paused", "stopped", "registered", "ended"}]
    /\ Jobs \in [Workers -> SUBSET {"pass", "ingest", "notify", "sweep", "requeue"}]
    /\ None \notin Submissions
    /\ MaxFaults \in Nat

VARIABLES
    record,    \* for every submission, what its state.json says of its work and its alerts
    index,     \* index/open.json
    w,         \* the commands
    admitting, \* submissions whose record exists and whose admission is not in the index yet
    messages,  \* how many times the alerts of a submission were sent to Zulip
    faults,
    \* For the properties only: submissions that nothing but a rebuild will list.
    slipped

vars == <<record, index, w, admitting, messages, faults, slipped>>

\* "reporting" stands for a failed run whose report is not ingested, "registered" for
\* a registration that is not starred.  Of FINISHED_STATUSES, "paused" is the one that
\* can be requeued, "stopped" those that may have a pull request on its way (withdrawn,
\* and the failures of a review that replaces a registered one), "ended" the rest; it
\* stands for a starred registration too.
Statuses == {"absent", "working", "reporting", "paused", "stopped", "registered", "ended"}
Records == [status : Statuses, alert : {"none", "pending", "sent"}]

Queues == SUBSET Submissions

Pcs == {"idle", "open", "capture", "clone", "rebuild", "readback", "swept", "scan",
        "ingest", "notify", "send", "record", "enqueue", "requeue"}

Commands == [
    pc : Pcs,
    job : {"pass", "ingest", "notify", "sweep", "requeue"},
    ids : Queues,             \* the queue it goes by
    new : BOOLEAN,            \* its dates are those of a rebuild that was refused
    base : Queues,            \* the content whose blob its next write of the index names
    dated : BOOLEAN,          \* the dates of that content are still those of the index
    todo : Queues,            \* what is left to read of it
    kept : Queues,            \* what it will leave in it
    work : SUBSET Submissions, \* what it found to do
    live : SUBSET Submissions, \* records that have not changed since it read them
    one : Submissions \cup {None}]

Idle == [pc |-> "idle", job |-> "pass", ids |-> {}, new |-> FALSE, base |-> {},
         dated |-> FALSE, todo |-> {}, kept |-> {}, work |-> {}, live |-> {}, one |-> None]

TypeOK ==
    /\ record \in [Submissions -> Records]
    /\ index \in [open : Queues, due : BOOLEAN]
    /\ w \in [Workers -> Commands]
    /\ admitting \subseteq Submissions
    /\ messages \in [Submissions -> Nat]
    /\ faults \in 0..MaxFaults
    /\ slipped \subseteq Submissions

\* There is no index yet: the first pass rebuilds it.
Init ==
    /\ record = [s \in Submissions |-> [status |-> "absent", alert |-> "none"]]
    /\ index = [open |-> {}, due |-> TRUE]
    /\ w = [q \in Workers |-> Idle]
    /\ admitting = {}
    /\ messages = [s \in Submissions |-> 0]
    /\ faults = 0
    /\ slipped = {}

finished_with(r) == r.status \in {"paused", "stopped", "ended"} /\ r.alert # "pending"
Unfinished == {s \in Submissions : record[s].status # "absent" /\ ~finished_with(record[s])}

-----------------------------------------------------------------------------
\* q goes on as v, and nothing it can see changes.
Go(q, v) == w' = [w EXCEPT ![q] = v]

\* q goes on as v after it has written r over the record of s.
WriteRecord(q, s, r, v) ==
    /\ record' = [record EXCEPT ![s] = r]
    /\ w' = [p \in Workers |-> IF p = q THEN v ELSE [w[p] EXCEPT !.live = @ \ {s}]]

\* A change of s that is nobody's here.
Changed(s, r) ==
    /\ record' = [record EXCEPT ![s] = r]
    /\ w' = [p \in Workers |-> [w[p] EXCEPT !.live = @ \ {s}]]

\* A conditional write of the index by q passes.
Passes(q) == w[q].dated /\ w[q].base = index.open

\* q writes ids to the index, with new dates or the ones it read, and goes on as v.
WriteIndex(q, ids, new, v) ==
    /\ index' = [open |-> ids, due |-> index.due /\ ~new]
    /\ w' = [p \in Workers |-> IF p = q THEN v ELSE [w[p] EXCEPT !.dated = @ /\ ~new]]

\* A command that holds a queue without s, and may yet write it.
HoldsWithout(q, s) ==
    \/ w[q].pc = "rebuild" /\ s \notin w[q].ids
    \/ w[q].pc = "enqueue" /\ w[q].new /\ s \notin w[q].ids \cup {w[q].one}
    \/ w[q].pc = "scan" /\ s \notin w[q].todo \cup w[q].kept

\* A queue of these ids is written: what had slipped is back, if nobody drops it again.
Relist(q, ids) == slipped' =
    {s \in slipped : s \in ids => \E p \in Workers \ {q} : HoldsWithout(p, s)}

\* The finished record of s is written as one with work left.  Its id may have been
\* dropped, or be dropped yet by a command that has read the record before.
Reopens(s) == slipped' =
    IF s \notin index.open \cup admitting \/ \E p \in Workers : HoldsWithout(p, s)
    THEN slipped \cup {s} ELSE slipped

\* retry_registration starts: it reads the record of a paused registration.
BeginRequeue(q) ==
    /\ w[q].pc = "idle"
    /\ "requeue" \in Jobs[q]
    /\ \E s \in Submissions :
         /\ record[s].status = "paused"
         /\ Go(q, [Idle EXCEPT !.pc = "open", !.job = "requeue", !.one = s, !.live = {s}])
    /\ UNCHANGED <<record, index, admitting, messages, faults, slipped>>

\* Commands about to read the index: a requeue, and a scan that starts.
Opening(q) ==
    {v \in {w[q]} : v.pc = "open"}
    \cup {[Idle EXCEPT !.job = job] : job \in
            {j \in Jobs[q] \ {"sweep", "requeue"} : w[q].pc = "idle"}}

\* What a command does with a queue.
After(v) ==
    CASE v.job = "requeue" -> [v EXCEPT !.pc = "enqueue"]
      [] v.job = "sweep" -> [v EXCEPT !.pc = "readback"]
      [] OTHER -> [v EXCEPT !.pc = "scan", !.todo = v.ids, !.kept = {}]

\* open_index: an index that is due is rebuilt before it is used.
OpenIndex(q) ==
    /\ \E v \in Opening(q) :
         Go(q, IF index.due THEN [v EXCEPT !.pc = "capture"]
               ELSE After([v EXCEPT !.ids = index.open, !.base = index.open, !.dated = TRUE]))
    /\ UNCHANGED <<record, index, admitting, messages, faults, slipped>>

\* rebuild_queue starts: the queue is rebuilt whatever the index says.
BeginSweep(q) ==
    /\ w[q].pc = "idle"
    /\ "sweep" \in Jobs[q]
    /\ Go(q, [Idle EXCEPT !.pc = "capture", !.job = "sweep"])
    /\ UNCHANGED <<record, index, admitting, messages, faults, slipped>>

\* rebuild_open_index: the identity of the live index first,
Capture(q) ==
    /\ w[q].pc = "capture"
    /\ Go(q, [w[q] EXCEPT !.pc = "clone", !.base = index.open, !.dated = TRUE])
    /\ UNCHANGED <<record, index, admitting, messages, faults, slipped>>

\* then a clone of every record,
Clone(q) ==
    /\ w[q].pc = "clone"
    /\ Go(q, [w[q] EXCEPT !.pc = "rebuild", !.ids = Unfinished])
    /\ UNCHANGED <<record, index, admitting, messages, faults, slipped>>

\* Mutant: the identity is that of the index after the clone.
RebuildOver(q) ==
    /\ w[q].pc = "rebuild"
    /\ WriteIndex(q, w[q].ids, TRUE, After([w[q] EXCEPT !.base = w[q].ids, !.dated = TRUE]))
    /\ Relist(q, w[q].ids)
    /\ UNCHANGED <<record, admitting, messages, faults>>

\* and a conditional write.  The queue is used whether it passed or not.
Rebuild(q) ==
    /\ w[q].pc = "rebuild"
    /\ IF Passes(q)
       THEN /\ WriteIndex(q, w[q].ids, TRUE, After([w[q] EXCEPT !.base = w[q].ids]))
            /\ Relist(q, w[q].ids)
       ELSE Go(q, After([w[q] EXCEPT !.new = TRUE])) /\ UNCHANGED <<index, slipped>>
    /\ UNCHANGED <<record, admitting, messages, faults>>

\* Mutant: a sweep believes that its write passed.
ReadBackTrusting(q) ==
    /\ w[q].pc = "readback"
    /\ Go(q, [w[q] EXCEPT !.pc = "swept"])
    /\ UNCHANGED <<record, index, admitting, messages, faults, slipped>>

\* rebuild_queue: the sweep fails unless the index is what it wrote.
ReadBack(q) ==
    /\ w[q].pc = "readback"
    /\ Go(q, IF ~w[q].new /\ Passes(q) THEN [w[q] EXCEPT !.pc = "swept"] ELSE Idle)
    /\ UNCHANGED <<record, index, admitting, messages, faults, slipped>>

Swept(q) ==
    /\ w[q].pc = "swept"
    /\ Go(q, Idle)
    /\ UNCHANGED <<record, index, admitting, messages, faults, slipped>>

-----------------------------------------------------------------------------
\* open_submissions.

Wanted(job, r) ==
    \/ job = "ingest" /\ r.status = "reporting"
    \/ job = "notify" /\ r.alert = "pending"

\* The record of the next id.
Read(q) ==
    /\ w[q].pc = "scan"
    /\ \E s \in w[q].todo :
         LET found == IF Wanted(w[q].job, record[s]) THEN {s} ELSE {} IN
         Go(q, [w[q] EXCEPT !.todo = @ \ {s}, !.work = @ \cup found,
                            !.live = IF w[q].job = "ingest" THEN @ \cup found ELSE @,
                            !.kept = IF finished_with(record[s]) THEN @ ELSE @ \cup {s}])
    /\ UNCHANGED <<record, index, admitting, messages, faults, slipped>>

\* Mutant: the id is taken from the record that could not be read.
UnreadNameless(q, s) == w[q].kept \cup {None}

\* A record that cannot be read is kept in the queue.
Unread(q, s) == w[q].kept \cup {s}

\* Finished submissions are dropped, unless the index has changed.
Drop(q) ==
    /\ w[q].pc = "scan"
    /\ w[q].todo = {}
    /\ LET next == IF w[q].work = {} THEN Idle
                   ELSE [Idle EXCEPT !.pc = w[q].job, !.job = w[q].job, !.work = w[q].work,
                                     !.live = w[q].live]
       IN  IF w[q].kept # w[q].ids /\ Passes(q)
           THEN WriteIndex(q, w[q].kept, w[q].new, next)
           ELSE Go(q, next) /\ UNCHANGED index
    /\ UNCHANGED <<record, admitting, messages, faults, slipped>>

-----------------------------------------------------------------------------
\* What the scans were for.

\* The work of q without s.
Without(q, s) ==
    IF w[q].work = {s} THEN Idle
    ELSE [w[q] EXCEPT !.pc = w[q].job, !.work = @ \ {s}, !.live = @ \ {s}, !.one = None]

\* ingest_failure_diagnostics: the end of the submission and the alerts its
\* failure queues are one write, refused if the submission has moved on.
Ingest(q) ==
    /\ w[q].pc = "ingest"
    /\ \E s \in w[q].work :
         IF s \in w[q].live
         THEN \E alert \in {record[s].alert, "pending"} :
                WriteRecord(q, s, [status |-> "ended", alert |-> alert], Without(q, s))
         ELSE Go(q, Without(q, s)) /\ UNCHANGED record
    /\ UNCHANGED <<index, admitting, messages, faults, slipped>>

\* notify_operator_alerts reads the record again,
Notify(q) ==
    /\ w[q].pc = "notify"
    /\ \E s \in w[q].work :
         Go(q, IF record[s].alert = "pending"
               THEN [w[q] EXCEPT !.pc = "send", !.one = s, !.live = @ \cup {s}]
               ELSE Without(q, s))
    /\ UNCHANGED <<record, index, admitting, messages, faults, slipped>>

\* sends the message,
Send(q) ==
    /\ w[q].pc = "send"
    /\ messages' = [messages EXCEPT ![w[q].one] = @ + 1]
    /\ Go(q, [w[q] EXCEPT !.pc = "record"])
    /\ UNCHANGED <<record, index, admitting, faults, slipped>>

\* Mutant: what was sent is not recorded.
RecordNothing(q) ==
    /\ w[q].pc = "record"
    /\ Go(q, Without(q, w[q].one))
    /\ UNCHANGED <<record, index, admitting, messages, faults, slipped>>

\* and records that it was sent.
RecordSent(q) ==
    /\ w[q].pc = "record"
    /\ LET s == w[q].one IN
       IF s \in w[q].live
       THEN WriteRecord(q, s, [record[s] EXCEPT !.alert = "sent"], Without(q, s))
       ELSE Go(q, Without(q, s)) /\ UNCHANGED record
    /\ UNCHANGED <<index, admitting, messages, faults, slipped>>

\* retry_registration: the id first, if the queue does not have it,
Enqueue(q) ==
    /\ w[q].pc = "enqueue"
    /\ LET s == w[q].one
           next == [Idle EXCEPT !.pc = "requeue", !.job = "requeue", !.one = s, !.live = w[q].live]
       IN  IF s \in w[q].ids THEN Go(q, next) /\ UNCHANGED index
           ELSE IF Passes(q)
                THEN WriteIndex(q, w[q].ids \cup {s}, w[q].new, next)
                ELSE Go(q, Idle) /\ UNCHANGED index
    /\ UNCHANGED <<record, admitting, messages, faults, slipped>>

\* then the record.
Requeue(q) ==
    /\ w[q].pc = "requeue"
    /\ LET s == w[q].one IN
       IF s \in w[q].live
       THEN /\ WriteRecord(q, s, [record[s] EXCEPT !.status = "working"], Idle)
            /\ Reopens(s)
       ELSE Go(q, Idle) /\ UNCHANGED <<record, slipped>>
    /\ UNCHANGED <<index, admitting, messages, faults>>

Step(q) ==
    \/ OpenIndex(q) \/ BeginSweep(q) \/ BeginRequeue(q) \/ Capture(q) \/ Clone(q) \/ Rebuild(q) \/ ReadBack(q)
    \/ Swept(q) \/ Read(q) \/ Drop(q) \/ Ingest(q) \/ Notify(q) \/ Send(q) \/ RecordSent(q)
    \/ Enqueue(q) \/ Requeue(q)

-----------------------------------------------------------------------------
\* Failures.

Fault == faults < MaxFaults /\ faults' = faults + 1

\* A command dies, or a call of it fails that it does not survive.
Crash(q) ==
    /\ w[q].pc # "idle"
    /\ Go(q, Idle)
    /\ Fault
    /\ UNCHANGED <<record, index, admitting, messages, slipped>>

\* A read of a record fails in a scan.
ReadFails(q) ==
    /\ w[q].pc = "scan"
    /\ \E s \in w[q].todo : Go(q, [w[q] EXCEPT !.todo = @ \ {s}, !.kept = Unread(q, s)])
    /\ Fault
    /\ UNCHANGED <<record, index, admitting, messages, slipped>>

\* An index that cannot be read is rebuilt, as one that is due.
IndexUnread(q) ==
    /\ \E v \in Opening(q) : Go(q, [v EXCEPT !.pc = "capture"])
    /\ Fault
    /\ UNCHANGED <<record, index, admitting, messages, slipped>>

\* A message is sent and its answer lost, or nothing is sent: the alert stays.
SendFails(q) ==
    /\ w[q].pc = "send"
    /\ messages' \in {messages, [messages EXCEPT ![w[q].one] = @ + 1]}
    /\ Go(q, Without(q, w[q].one))
    /\ Fault
    /\ UNCHANGED <<record, index, admitting, slipped>>

Failure(q) == Crash(q) \/ ReadFails(q) \/ IndexUnread(q) \/ SendFails(q)

-----------------------------------------------------------------------------
\* The world.

\* The submission server admits one: its record, then its id.
Admit(s) ==
    /\ record[s].status = "absent"
    /\ Changed(s, [record[s] EXCEPT !.status = "working"])
    /\ admitting' = admitting \cup {s}
    /\ UNCHANGED <<index, messages, faults, slipped>>

AdmitIndex(s) ==
    /\ s \in admitting
    /\ admitting' = admitting \ {s}
    /\ index' = [index EXCEPT !.open = @ \cup {s}]
    /\ UNCHANGED <<record, w, messages, faults, slipped>>

\* The server fails to record an admission in the index.
AdmitFails(s) ==
    /\ s \in admitting
    /\ admitting' = admitting \ {s}
    /\ slipped' = IF s \in index.open THEN slipped ELSE slipped \cup {s}
    /\ Fault
    /\ UNCHANGED <<record, index, w, messages>>

\* A lane, the server or the submitter takes it further.
Advance(s) ==
    /\ \E status \in Turns[s] \ {"registered"} :
         /\ \/ record[s].status = "working"
            \/ record[s].status \in {"reporting", "paused"} /\ status = "stopped"
            \/ record[s].status = "registered" /\ status = "ended"
         /\ Changed(s, [record[s] EXCEPT !.status = status])
    /\ UNCHANGED <<index, admitting, messages, faults, slipped>>

\* finalize: the pull request of s was merged, and the record says registered
\* whatever it said before.  Nobody puts its id back.
Finalize(s) ==
    /\ "registered" \in Turns[s]
    /\ record[s].status \in {"working", "paused", "stopped"}
    /\ Changed(s, [record[s] EXCEPT !.status = "registered"])
    /\ IF finished_with(record[s]) THEN Reopens(s) ELSE UNCHANGED slipped
    /\ UNCHANGED <<index, admitting, messages, faults>>

\* The record is written without a change of what this module sees.
Touch(s) ==
    /\ \E p \in Workers : s \in w[p].live
    /\ Changed(s, record[s])
    /\ Fault
    /\ UNCHANGED <<index, admitting, messages, slipped>>

\* rebuild_after passes.
WeekPasses ==
    /\ ~index.due
    /\ index' = [index EXCEPT !.due = TRUE]
    /\ UNCHANGED <<record, w, admitting, messages, faults, slipped>>

World ==
    \/ \E s \in Submissions :
         Admit(s) \/ AdmitIndex(s) \/ AdmitFails(s) \/ Advance(s) \/ Finalize(s) \/ Touch(s)
    \/ WeekPasses

Next == (\E q \in Workers : Step(q) \/ Failure(q)) \/ World

Spec == Init /\ [][Next]_vars

-----------------------------------------------------------------------------
\* Properties.

\* Every submission with work left is in the queue, or its admission is under way,
\* or it slipped out in one of three ways that no scan can mend: the server failed to
\* list it, or a requeue or a finalized registration wrote a finished record anew whose
\* id was dropped, or is dropped by a command that had read the record before.  A scan,
\* a sweep, a failed read or a conditional write that comes late never lose one.
UnfinishedIsListed ==
    \A s \in Unfinished : s \in index.open \cup admitting \cup slipped

\* A sweep that says it succeeded has left every unfinished submission of its
\* clone in the live queue, even those that had slipped out of it.
SweepIsRecorded ==
    [][\A q \in Workers : w[q].pc = "readback" /\ w'[q].pc = "swept"
                            => w[q].ids \subseteq index.open]_vars

\* An alert that is recorded as sent was sent; and it is sent once, and again only
\* for a fault or for another notification that overlaps: what was sent is recorded
\* before the alert is considered again.
SentOnce ==
    \A s \in Submissions :
        /\ record[s].alert = "sent" => messages[s] > 0
        /\ messages[s] <= Cardinality({q \in Workers : "notify" \in Jobs[q]}) * (1 + faults)
=============================================================================
