---------------------------- MODULE MetadataRepair ----------------------------
(***************************************************************************)
(* The metadata-repair outbox.  A submitter asks for a change of           *)
(* formalization.yaml; repair-queue prepares it on a branch of a fork,     *)
(* checks it, opens a pull request and follows it to its end.  A request   *)
(* is spread over five places that nothing writes together: repair.json,   *)
(* its mirror in state.json, index/repairs, the branch and the pull        *)
(* request.  upgrade-repair-failures, beside it, replaces the guidance     *)
(* a request is drawn from, while there is none.                           *)
(*                                                                         *)
(* The index is its content: a write of it passes whenever what is there   *)
(* is what was read.  repair.json carries its date, and is never the same  *)
(* twice.  The server's writes, the submitter's decisions and GitHub's     *)
(* answers are the world's.                                                *)
(***************************************************************************)
EXTENDS Naturals, FiniteSets

CONSTANTS
    Submissions,
    Workers,   \* repair-queue commands that may run at the same time
    MaxFaults, \* bounds crashes, failed calls and lost answers
    None

REPAIR_TERMINAL_STATUSES == {"merged", "closed", "needs-input", "failed"}
Statuses == {"queued", "pr-open"} \cup REPAIR_TERMINAL_STATUSES

ASSUME RepairAssumption ==
    /\ IsFiniteSet(Submissions) /\ IsFiniteSet(Workers)
    /\ None \notin Submissions /\ None \notin Statuses
    /\ MaxFaults \in Nat

VARIABLES
    request,   \* the status in repair.json, None before it is asked for
    mirror,    \* the status in state.json's repair, None before the server marks it
    index,     \* index/repairs
    admitting, \* requests the server has taken and not yet listed
    branch,    \* the requests whose branch is in the fork
    pr,        \* the newest pull request of the branch
    upgrading, \* submissions whose record an upgrade has read
    guided,    \* submissions whose failure has the guidance of the current profile
    w,         \* the repair-queue commands
    faults,
    \* For the properties only:
    drawn,     \* the requests that were drawn from that guidance
    checked,   \* the requests whose candidate passed preflight
    overlap    \* two commands were at work at once

queue == <<request, mirror, index, admitting>>
github == <<branch, pr>>
legacy == <<upgrading, guided, drawn>>
vars == <<queue, github, legacy, w, faults, checked, overlap>>

Pcs == {"idle", "next", "check", "prepare", "preflight", "existing", "post",
        "record", "mirror", "cleanup", "fail", "index", "drop"}

Commands == [
    pc : Pcs,
    todo : SUBSET Submissions,          \* what is left of the queue it read
    one : Submissions \cup {None},
    copy : Statuses \cup {None},        \* the repair.json it read,
    fresh : BOOLEAN,                    \* not written since
    verdict : Statuses \cup {None},     \* what it is recording
    pushed : BOOLEAN,                   \* it has pushed the branch, and may not keep it
    error : {"none", "raised", "failing"},
    base : SUBSET Submissions]          \* the index it read before a drop

Idle == [pc |-> "idle", todo |-> {}, one |-> None, copy |-> None, fresh |-> FALSE,
         verdict |-> None, pushed |-> FALSE, error |-> "none", base |-> {}]

TypeOK ==
    /\ request \in [Submissions -> Statuses \cup {None}]
    /\ mirror \in [Submissions -> Statuses \cup {None}]
    /\ index \subseteq Submissions
    /\ admitting \subseteq Submissions
    /\ branch \subseteq Submissions
    /\ pr \in [Submissions -> {"none", "open", "merged", "closed"}]
    /\ upgrading \subseteq Submissions
    /\ guided \subseteq Submissions
    /\ w \in [Workers -> Commands]
    /\ faults \in 0..MaxFaults
    /\ drawn \subseteq Submissions
    /\ checked \subseteq Submissions
    /\ overlap \in BOOLEAN

Init ==
    /\ request = [s \in Submissions |-> None]
    /\ mirror = [s \in Submissions |-> None]
    /\ index = {}
    /\ admitting = {}
    /\ branch = {}
    /\ pr = [s \in Submissions |-> "none"]
    /\ upgrading = {}
    /\ guided = {}
    /\ w = [q \in Workers |-> Idle]
    /\ faults = 0
    /\ drawn = {}
    /\ checked = {}
    /\ overlap = FALSE

-----------------------------------------------------------------------------
Go(q, v) == w' = [w EXCEPT ![q] = v]

\* The next request of the queue, with nothing left of this one.
Onward(q) == [Idle EXCEPT !.pc = "next", !.todo = w[q].todo]

\* An exception in the work on a request: the finally clause that removes the
\* branch comes first, then the handler that records the failure.
Raised(v) ==
    IF v.error = "failing"
    THEN [Idle EXCEPT !.pc = "next", !.todo = v.todo]
    ELSE [v EXCEPT !.error = "raised", !.pc = IF v.pushed THEN "cleanup" ELSE "fail"]

\* A status is settled on, and is to be recorded.
Recording(q, status) == [w[q] EXCEPT !.pc = "record", !.verdict = status]

\* What follows a recorded status and the cleanup.
Concluded(v) ==
    IF v.error = "raised" THEN [v EXCEPT !.pc = "fail"]
    ELSE IF v.verdict \in REPAIR_TERMINAL_STATUSES THEN [v EXCEPT !.pc = "index"]
    ELSE [Idle EXCEPT !.pc = "next", !.todo = v.todo]

\* repair_queue reads the index,
Begin(q) ==
    /\ w[q].pc = "idle"
    /\ index # {}
    /\ Go(q, [Idle EXCEPT !.pc = "next", !.todo = index])
    /\ overlap' = (overlap \/ \E p \in Workers \ {q} : w[p].pc # "idle")
    /\ UNCHANGED <<queue, github, legacy, faults, checked>>

\* Mutant: what has ended already is left to those that ended it.
TakeUnended(q) ==
    /\ w[q].pc = "next"
    /\ \/ /\ w[q].todo = {}
          /\ Go(q, Idle)
       \/ \E s \in w[q].todo :
            LET v == [Idle EXCEPT !.todo = w[q].todo \ {s}, !.one = s,
                                  !.copy = request[s], !.fresh = TRUE]
            IN Go(q, CASE request[s] = "pr-open" -> [v EXCEPT !.pc = "check"]
                       [] request[s] = "queued" -> [v EXCEPT !.pc = "prepare"]
                       [] OTHER -> [Idle EXCEPT !.pc = "next", !.todo = v.todo])
    /\ UNCHANGED <<queue, github, legacy, faults, checked, overlap>>

\* and then one record after the other, whose status says what to do.
Take(q) ==
    /\ w[q].pc = "next"
    /\ \/ /\ w[q].todo = {}
          /\ Go(q, Idle)
       \/ \E s \in w[q].todo :
            LET v == [Idle EXCEPT !.todo = w[q].todo \ {s}, !.one = s,
                                  !.copy = request[s], !.fresh = TRUE]
            IN Go(q, CASE request[s] = "pr-open" -> [v EXCEPT !.pc = "check"]
                       [] request[s] = "queued" -> [v EXCEPT !.pc = "prepare"]
                       [] OTHER -> [v EXCEPT !.pc = "index"])
    /\ UNCHANGED <<queue, github, legacy, faults, checked, overlap>>

\* Mutant: a merged pull request is a closed one, too.
CheckClosedFirst(q) ==
    /\ w[q].pc = "check"
    /\ Go(q, IF pr[w[q].one] \in {"merged", "closed"} THEN Recording(q, "closed") ELSE Onward(q))
    /\ UNCHANGED <<queue, github, legacy, faults, checked, overlap>>

\* _advance_open_repair asks for the pull request on record.
Check(q) ==
    /\ w[q].pc = "check"
    /\ Go(q, IF pr[w[q].one] \in {"merged", "closed"}
             THEN Recording(q, pr[w[q].one]) ELSE Onward(q))
    /\ UNCHANGED <<queue, github, legacy, faults, checked, overlap>>

\* _prepare_repair makes the candidate, from the submitted commit and the requested
\* values alone, always the same one: it cannot be made; it belongs on no branch any
\* more; or it is pushed.
Prepare(q) ==
    /\ w[q].pc = "prepare"
    /\ \/ Go(q, Raised(w[q])) /\ UNCHANGED branch
       \/ Go(q, Recording(q, "needs-input")) /\ UNCHANGED branch
       \/ /\ Go(q, [w[q] EXCEPT !.pc = "preflight", !.pushed = TRUE])
          /\ branch' = branch \cup {w[q].one}
    /\ UNCHANGED <<queue, pr, legacy, faults, checked, overlap>>

\* The verifier of a new submission is run on it.
Preflight(q) ==
    /\ w[q].pc = "preflight"
    /\ \/ Go(q, Raised(w[q])) /\ UNCHANGED checked
       \/ Go(q, Recording(q, "needs-input")) /\ UNCHANGED checked
       \/ /\ Go(q, [w[q] EXCEPT !.pc = "existing"])
          /\ checked' = checked \cup {w[q].one}
    /\ UNCHANGED <<queue, github, legacy, faults, overlap>>

\* Recording an open pull request, whose branch is kept.
Kept(q) == [Recording(q, "pr-open") EXCEPT !.pushed = FALSE]

\* Mutant: only the open pull requests of the branch are asked for.
ExistingOpen(q) ==
    /\ w[q].pc = "existing"
    /\ Go(q, IF pr[w[q].one] = "open" THEN Kept(q) ELSE [w[q] EXCEPT !.pc = "post"])
    /\ UNCHANGED <<queue, github, legacy, faults, checked, overlap>>

\* A pass that died may have opened one, and the submitter have closed it since.
Existing(q) ==
    /\ w[q].pc = "existing"
    /\ Go(q, CASE pr[w[q].one] = "none" -> [w[q] EXCEPT !.pc = "post"]
               [] pr[w[q].one] = "open" -> Kept(q)
               [] OTHER -> Recording(q, pr[w[q].one]))
    /\ UNCHANGED <<queue, github, legacy, faults, checked, overlap>>

\* GitHub opens a pull request of a branch that has no open or merged one.
Openable(s) == s \in branch /\ pr[s] \in {"none", "closed"}

Post(q) ==
    /\ w[q].pc = "post"
    /\ IF Openable(w[q].one)
       THEN Go(q, Kept(q)) /\ pr' = [pr EXCEPT ![w[q].one] = "open"]
       ELSE Go(q, Raised(w[q])) /\ UNCHANGED pr
    /\ UNCHANGED <<queue, branch, legacy, faults, checked, overlap>>

\* q writes its verdict to repair.json, if that is what it read, and goes on as v.
WriteRequest(q, v) ==
    /\ request' = [request EXCEPT ![w[q].one] = w[q].verdict]
    /\ w' = [p \in Workers |->
               IF p = q THEN v
               ELSE [w[p] EXCEPT !.fresh = @ /\ w[p].one # w[q].one]]

\* Mutant: the write does not name the repair.json it replaces.
RecordOver(q) ==
    /\ w[q].pc = "record"
    /\ WriteRequest(q, [w[q] EXCEPT !.pc = "mirror"])
    /\ UNCHANGED <<mirror, index, admitting, github, legacy, faults, checked, overlap>>

\* _record_repair writes repair.json,
Record(q) ==
    /\ w[q].pc = "record"
    /\ IF w[q].fresh
       THEN WriteRequest(q, [w[q] EXCEPT !.pc = "mirror"])
       ELSE Go(q, Raised(w[q])) /\ UNCHANGED request
    /\ UNCHANGED <<mirror, index, admitting, github, legacy, faults, checked, overlap>>

\* and then reads state.json and writes the mirror: not if the submission has moved
\* on, and a failure to write it is only a warning.
Mirror(q) ==
    /\ w[q].pc = "mirror"
    /\ LET finished == w[q].copy = "pr-open" /\ w[q].error = "none"
       IN Go(q, IF w[q].pushed \/ finished THEN [w[q] EXCEPT !.pc = "cleanup"]
                ELSE Concluded(w[q]))
    /\ mirror' \in {mirror, [mirror EXCEPT ![w[q].one] = w[q].verdict]}
    /\ UNCHANGED <<request, index, admitting, github, legacy, faults, checked, overlap>>

\* The branch is removed, as well as it can be; GitHub closes its pull request.
Cleanup(q) ==
    /\ w[q].pc = "cleanup"
    /\ Go(q, Concluded([w[q] EXCEPT !.pushed = FALSE]))
    /\ \/ UNCHANGED github
       \/ /\ branch' = branch \ {w[q].one}
          /\ pr' = [pr EXCEPT ![w[q].one] = IF @ = "open" THEN "closed" ELSE @]
    /\ UNCHANGED <<queue, legacy, faults, checked, overlap>>

\* The handler of every exception reads repair.json again, and records the failure.
Fail(q) ==
    /\ w[q].pc = "fail"
    /\ Go(q, [Recording(q, "failed") EXCEPT !.error = "failing", !.pushed = FALSE,
                !.copy = request[w[q].one], !.fresh = TRUE])
    /\ UNCHANGED <<queue, github, legacy, faults, checked, overlap>>

\* What has ended leaves the queue, which is read again for it.
ReadIndex(q) ==
    /\ w[q].pc = "index"
    /\ Go(q, [w[q] EXCEPT !.pc = "drop", !.base = index])
    /\ UNCHANGED <<queue, github, legacy, faults, checked, overlap>>

\* Mutant: the index is written without naming what it replaces.
DropOver(q) ==
    /\ w[q].pc = "drop"
    /\ index' = w[q].base \ {w[q].one}
    /\ Go(q, Onward(q))
    /\ UNCHANGED <<request, mirror, admitting, github, legacy, faults, checked, overlap>>

\* A conflict ends the command: the rest of the queue waits for another.
Drop(q) ==
    /\ w[q].pc = "drop"
    /\ IF w[q].one \in w[q].base /\ index # w[q].base
       THEN Go(q, Idle) /\ UNCHANGED index
       ELSE Go(q, Onward(q)) /\ index' = index \ ({w[q].one} \cap w[q].base)
    /\ UNCHANGED <<request, mirror, admitting, github, legacy, faults, checked, overlap>>

Step(q) ==
    \/ Take(q) \/ Check(q) \/ Prepare(q) \/ Preflight(q) \/ Existing(q) \/ Post(q)
    \/ Record(q) \/ Mirror(q) \/ Cleanup(q) \/ Fail(q) \/ ReadIndex(q) \/ Drop(q)

-----------------------------------------------------------------------------
\* Faults.
Fault == faults < MaxFaults /\ faults' = faults + 1

\* A command dies, or an exception leaves it.
Crash(q) ==
    /\ w[q].pc # "idle"
    /\ Fault
    /\ Go(q, Idle)
    /\ UNCHANGED <<queue, github, legacy, checked, overlap>>

\* A call made for a request fails: the records cannot be read, GitHub or Git does
\* not answer, or state.json cannot be read once repair.json is written.
Raise(q) ==
    /\ Fault
    /\ \/ /\ w[q].pc = "next"
          /\ \E s \in w[q].todo :
               Go(q, Raised([Idle EXCEPT !.todo = w[q].todo \ {s}, !.one = s]))
       \/ /\ w[q].pc \in {"check", "prepare", "preflight", "existing", "post", "record", "mirror"}
          /\ Go(q, Raised(w[q]))
    /\ UNCHANGED <<queue, github, legacy, checked, overlap>>

\* The pull request is opened, or the record written, and the answer is lost.
LoseAnswer(q) ==
    /\ Fault
    /\ \/ /\ w[q].pc = "post" /\ Openable(w[q].one)
          /\ Go(q, Raised(w[q])) /\ pr' = [pr EXCEPT ![w[q].one] = "open"]
          /\ UNCHANGED request
       \/ /\ w[q].pc = "record" /\ w[q].fresh
          /\ WriteRequest(q, Raised(w[q]))
          /\ UNCHANGED pr
    /\ UNCHANGED <<mirror, index, admitting, branch, legacy, checked, overlap>>

-----------------------------------------------------------------------------
\* The world.

\* The server takes a request, repair.json and its marker in state.json,
Ask(s) ==
    /\ request[s] = None
    /\ request' = [request EXCEPT ![s] = "queued"]
    /\ mirror' = [mirror EXCEPT ![s] = "queued"]
    /\ admitting' = admitting \cup {s}
    /\ drawn' = drawn \cup (guided \cap {s})
    /\ UNCHANGED <<index, github, upgrading, guided, w, faults, checked, overlap>>

\* and lists it.
List(s) ==
    /\ s \in admitting
    /\ index' = index \cup {s}
    /\ admitting' = admitting \ {s}
    /\ UNCHANGED <<request, mirror, github, legacy, w, faults, checked, overlap>>

\* The submitter merges or closes the pull request.
Decide(s) ==
    /\ pr[s] = "open"
    /\ \E end \in {"merged", "closed"} : pr' = [pr EXCEPT ![s] = end]
    /\ UNCHANGED <<queue, branch, legacy, w, faults, checked, overlap>>

-----------------------------------------------------------------------------
\* upgrade_repair_failures reads a failure of the first profile for which no repair
\* was asked, and runs preflight,
BeginUpgrade(s) ==
    /\ mirror[s] = None
    /\ s \notin guided \cup upgrading
    /\ upgrading' = upgrading \cup {s}
    /\ UNCHANGED <<queue, github, guided, drawn, w, faults, checked, overlap>>

\* and writes the failure it found, unless the record has changed; or preflight fails.
Upgrade(s) ==
    /\ s \in upgrading
    /\ upgrading' = upgrading \ {s}
    /\ \/ UNCHANGED guided
       \/ mirror[s] = None /\ guided' = guided \cup {s}
    /\ UNCHANGED <<queue, github, drawn, w, faults, checked, overlap>>

Next ==
    \/ \E q \in Workers : Begin(q) \/ Step(q) \/ Crash(q) \/ Raise(q) \/ LoseAnswer(q)
    \/ \E s \in Submissions : Ask(s) \/ List(s) \/ Decide(s) \/ BeginUpgrade(s) \/ Upgrade(s)

Spec == Init /\ [][Next]_vars

\* A command is run again and again; one that runs goes on; the server lists what it
\* took.
Fairness ==
    /\ WF_vars(\E q \in Workers : Begin(q))
    /\ \A q \in Workers : WF_vars(Step(q))
    /\ \A s \in Submissions : WF_vars(List(s))

FairSpec == Spec /\ Fairness

-----------------------------------------------------------------------------
\* Properties.
Ended(s) == request[s] \in REPAIR_TERMINAL_STATUSES

\* A request that has not ended is in the queue once the server has listed it: no
\* drop of another, and no retry of a drop, loses it.
QueuedIsListed == \A s \in Submissions :
    request[s] \in {"queued", "pr-open"} => s \in index \cup admitting

\* The submission never tells its submitter that a request ended which goes on.
MirrorIsBehind == \A s \in Submissions : mirror[s] \in REPAIR_TERMINAL_STATUSES => Ended(s)

\* The guidance a request was drawn from is not replaced under it: an upgrade that
\* read the failure before writes nothing after (its write names what it read).
GuidanceStands == \A s \in Submissions : request[s] # None => (s \in drawn <=> s \in guided)

\* The files of a request agree, whoever dies, fails or overlaps.
Inv == TypeOK /\ QueuedIsListed /\ MirrorIsBehind /\ GuidanceStands

\* A pull request is only opened for a candidate that passed preflight, and what is
\* recorded of one is what became of it.
RecordedIsReal == \A s \in Submissions :
    /\ pr[s] # "none" => s \in checked
    /\ request[s] = "pr-open" => pr[s] # "none"
    /\ request[s] = "merged" => pr[s] = "merged"
    /\ request[s] = "closed" /\ ~overlap => pr[s] = "closed"

\* A request that has ended is not taken up again by a command that read it before:
\* _record_repair names the repair.json it replaces, and is refused.
EndedStays == [][\A s \in Submissions : Ended(s) => Ended(s)']_vars

\* While commands do not overlap: one pull request at most is opened for a request,
\* though a command died after it opened one; and the branch of a pull request is
\* not removed while the record says it is open, and it is.
PullRequestStands ==
    [][~overlap' => \A s \in Submissions :
         /\ pr[s] \in {"merged", "closed"} => pr'[s] = pr[s]
         /\ request[s] = "pr-open" /\ pr[s] = "open" => s \in branch']_vars

\* A request that is listed and does not wait for its submitter comes to do so, or
\* it leaves the queue.
Waiting(s) == s \in index /\ ~(request[s] = "pr-open" /\ pr[s] = "open")
RequestConcludes == \A s \in Submissions : Waiting(s) ~> ~Waiting(s)
=============================================================================
