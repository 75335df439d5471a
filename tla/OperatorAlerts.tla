--------------------------- MODULE OperatorAlerts ---------------------------
(***************************************************************************)
(* What becomes of an operator alert after it was queued: its notification *)
(* in Zulip (notify_operator_alerts), and the dispositions that later      *)
(* evidence gives it and that are edited into the message that was sent    *)
(* (reconcile_operator_alerts).                                            *)
(*                                                                         *)
(* The outbox of one submission with one alert is modelled; alerts do not  *)
(* interact.  Three things are kept apart, and each may be changed behind  *)
(* the back of a command that has read it: the outbox in state.json, the   *)
(* derived index/operator-alerts.json with the outcomes it caches, and the *)
(* message in Zulip, which people may edit.                                *)
(***************************************************************************)
EXTENDS Naturals, Sequences, FiniteSets, SequencesExt

CONSTANTS
    Outcomes,  \* later verifications that succeed
    Same,      \* those of the commit the alert is about; the others are of successors
    Workers,   \* commands that may run at the same time
    MaxFaults, \* bounds crashes, failures, and changes of a record that change nothing here
    None

ASSUME AlertsAssumption ==
    /\ IsFiniteSet(Outcomes) /\ Same \subseteq Outcomes /\ IsFiniteSet(Workers)
    /\ None \notin Outcomes /\ MaxFaults \in Nat

VARIABLES
    item,      \* the alert in the outbox of the submission
    withdrawn, \* whether the submission is
    verified,  \* the outcomes so far, the latest last
    artifacts, \* those whose report can still be downloaded
    index,     \* index/operator-alerts.json
    message,   \* what the message reads
    w,         \* the commands
    faults,
    \* For the properties only:
    recorded,  \* dispositions that were ever in the outbox
    lost       \* the index has been lost

world == <<withdrawn, verified, artifacts>>
vars == <<item, withdrawn, verified, artifacts, index, message, w, faults, recorded, lost>>

\* What an alert can come to.  "unresolved" stands for no disposition too.
Dispositions ==
    [kind : {"unresolved", "withdrawn", "reclassified"}, evidence : {None}]
    \cup [kind : {"recovered"}, evidence : Same]
    \cup [kind : {"superseded"}, evidence : Outcomes \ Same]

Unresolved == [kind |-> "unresolved", evidence |-> None]

\* alert_message: the original diagnosis, and the disposition if there is one.
Foreign == [kind |-> "foreign", evidence |-> None]
Messages == Dispositions \cup {Foreign}

Items == [
    sent : BOOLEAN,
    disposition : Dispositions,
    delivered : Messages \cup {None}, \* what delivered_sha256 is the hash of
    edit_error : {"none", "conflict", "unavailable"}]

Indexes == [grouped : BOOLEAN, outcomes : SUBSET Outcomes]

ASSUME NoneAssumption == None \notin Messages \cup Items \cup Indexes

Pcs == {"idle", "collect", "index", "fresh", "stage", "edit", "patch", "result", "send", "record"}

Commands == [
    pc : Pcs,
    scope : Outcomes \cup {None},  \* the submission named with --submission
    base : Indexes \cup {None},    \* the index it read
    known : SUBSET Outcomes,       \* the successful submissions in its clone
    found : SUBSET Outcomes,       \* the outcomes it goes by
    copy : Items \cup {None},      \* the alert it read, as it will be written
    live : BOOLEAN]                \* the record has not changed since

Idle == [pc |-> "idle", scope |-> None, base |-> None, known |-> {}, found |-> {},
         copy |-> None, live |-> FALSE]

TypeOK ==
    /\ item \in Items
    /\ withdrawn \in BOOLEAN
    /\ verified \in Seq(Outcomes)
    /\ artifacts \subseteq Outcomes
    /\ index \in Indexes \cup {None}
    /\ message \in Messages \cup {None}
    /\ w \in [Workers -> Commands]
    /\ faults \in 0..MaxFaults
    /\ recorded \subseteq Dispositions
    /\ lost \in BOOLEAN

Pending == [sent |-> FALSE, disposition |-> Unresolved, delivered |-> None, edit_error |-> "none"]

\* The alert is queued, or was sent before hashes were recorded; the index is
\* missing, or older than the alert.
Init ==
    /\ \/ item = Pending /\ message = None
       \/ item = [Pending EXCEPT !.sent = TRUE] /\ message = Unresolved
    /\ withdrawn = FALSE
    /\ verified = <<>>
    /\ artifacts = {}
    /\ index \in {None, [grouped |-> FALSE, outcomes |-> {}]}
    /\ w = [q \in Workers |-> Idle]
    /\ faults = 0
    /\ recorded = {Unresolved}
    /\ lost = FALSE

-----------------------------------------------------------------------------
\* q goes on as v, and the record stays.
Go(q, v) == w' = [w EXCEPT ![q] = v] /\ UNCHANGED <<item, recorded>>

\* q goes on as v after it has written new over the record.
Write(q, new, v) ==
    /\ item' = new
    /\ recorded' = recorded \cup {new.disposition}
    /\ w' = [p \in Workers |-> IF p = q THEN v ELSE [w[p] EXCEPT !.live = FALSE]]

-----------------------------------------------------------------------------
\* notify_operator_alerts.

\* The pending alert is read again,
Notify(q) ==
    /\ w[q].pc = "idle"
    /\ ~item.sent
    /\ Go(q, [Idle EXCEPT !.pc = "send", !.copy = item, !.live = TRUE])
    /\ UNCHANGED <<world, index, message, faults, lost>>

\* sent, with the disposition it may have got already,
Send(q) ==
    /\ w[q].pc = "send"
    /\ Go(q, [w[q] EXCEPT !.pc = "record", !.copy.sent = TRUE,
                          !.copy.delivered = w[q].copy.disposition])
    /\ UNCHANGED <<world, index, message, faults, lost>>

\* and bound to its message.  A message that cannot be bound is never edited.
RecordSent(q) ==
    /\ w[q].pc = "record"
    /\ IF w[q].live
       THEN Write(q, w[q].copy, Idle) /\ message' = w[q].copy.disposition
       ELSE Go(q, Idle) /\ UNCHANGED message
    /\ UNCHANGED <<world, index, faults, lost>>

-----------------------------------------------------------------------------
\* reconcile_operator_alerts.

\* The index is read, and every record, or those of one configuration.
Reconcile(q) ==
    /\ w[q].pc = "idle"
    /\ \E scope \in Outcomes \cup {None} :
         /\ scope # None => index # None /\ scope \in ToSet(verified)
         /\ Go(q, [Idle EXCEPT !.pc = "collect", !.scope = scope, !.base = index,
                               !.known = IF scope = None THEN ToSet(verified) ELSE {scope}])
    /\ UNCHANGED <<world, index, message, faults, lost>>

Cached(q) == IF w[q].base = None THEN {} ELSE w[q].base.outcomes

\* Mutant: cached outcomes are downloaded again.
FoundUncached(q) == w[q].known \cap artifacts

\* An outcome in the cache counts as long as its submission has not run again;
\* any other one has to be downloaded, while it is there.
Found(q) ==
    LET validated == w[q].known \cap (Cached(q) \cup artifacts) IN
    IF w[q].scope = None THEN validated ELSE Cached(q) \cup validated

Collect(q) ==
    /\ w[q].pc = "collect"
    /\ Go(q, [w[q] EXCEPT !.pc = "index", !.found = Found(q), !.known = {}])
    /\ UNCHANGED <<world, index, message, faults, lost>>

\* The index is refreshed.  The alerts of a scoped run are those the index grouped.
RefreshIndex(q) ==
    /\ w[q].pc = "index"
    /\ LET base == w[q].base
           new == [grouped |-> w[q].scope = None \/ base.grouped, outcomes |-> w[q].found]
           next == IF new.grouped THEN [Idle EXCEPT !.pc = "fresh", !.found = w[q].found] ELSE Idle
       IN  IF new = base THEN Go(q, next) /\ UNCHANGED index
           ELSE IF index = base THEN Go(q, next) /\ index' = new
           ELSE Go(q, Idle) /\ UNCHANGED index
    /\ UNCHANGED <<world, message, faults, lost>>

\* The outcome of pool that was verified last.
Latest(pool) ==
    LET places == {i \in DOMAIN verified : verified[i] \in pool} IN
    verified[CHOOSE i \in places : \A j \in places : j <= i]

\* The outcome that says most: of the same commit, and the latest.
Best(found) == Latest(IF found \cap Same # {} THEN found \cap Same ELSE found)

\* Mutant: a maintainer's correction is replaced like any other disposition.
DesiredOfAny(found) ==
    IF withdrawn THEN [kind |-> "withdrawn", evidence |-> None]
    ELSE IF found = {} THEN item.disposition
    ELSE LET best == Best(found) IN
         [kind |-> IF best \in Same THEN "recovered" ELSE "superseded", evidence |-> best]

\* desired_alerts.
Desired(found) ==
    IF item.disposition.kind = "reclassified" THEN item.disposition
    ELSE IF withdrawn THEN [kind |-> "withdrawn", evidence |-> None]
    ELSE IF found = {} THEN item.disposition
    ELSE LET best == Best(found) IN
         [kind |-> IF best \in Same THEN "recovered" ELSE "superseded", evidence |-> best]

\* A disposition that the message does not show yet.
ToShow(copy) ==
    /\ copy.sent
    /\ copy.disposition.kind \notin {"unresolved", "reclassified"}
    /\ copy.delivered # copy.disposition

\* What is left to do once the copy is what the record says.
Continue(copy) ==
    IF ToShow(copy) THEN [Idle EXCEPT !.pc = "edit", !.copy = copy, !.live = TRUE] ELSE Idle

\* The record is read again.
Fresh(q) ==
    /\ w[q].pc = "fresh"
    /\ LET copy == [item EXCEPT !.disposition = Desired(w[q].found)] IN
       Go(q, IF copy = item THEN Continue(copy)
             ELSE [Idle EXCEPT !.pc = "stage", !.copy = copy, !.live = TRUE])
    /\ UNCHANGED <<world, index, message, faults, lost>>

\* Mutant: the message is edited first.
StageLater(q) ==
    /\ w[q].pc = "stage"
    /\ Go(q, Continue(w[q].copy))
    /\ UNCHANGED <<world, index, message, faults, lost>>

\* The disposition is on record before anything is said in Zulip.
Stage(q) ==
    /\ w[q].pc = "stage"
    /\ IF w[q].live THEN Write(q, w[q].copy, Continue(w[q].copy)) ELSE Go(q, Idle)
    /\ UNCHANGED <<world, index, message, faults, lost>>

\* The result of an edit, in the copy.
Edited(q, result) ==
    [w[q] EXCEPT
        !.pc = "result",
        !.copy.delivered = IF result = "delivered" THEN w[q].copy.disposition ELSE @,
        !.copy.edit_error = IF result = "delivered" THEN "none" ELSE result]

\* What the message is expected to read.
Expected(copy) == IF copy.delivered = None THEN Unresolved ELSE copy.delivered

\* Without --deliver nothing is edited.
DoNotDeliver(q) ==
    /\ w[q].pc = "edit"
    /\ Go(q, Idle)
    /\ UNCHANGED <<world, index, message, faults, lost>>

\* edit_zulip_message reads the message,
Edit(q) ==
    /\ w[q].pc = "edit"
    /\ Go(q, IF message = w[q].copy.disposition THEN Edited(q, "delivered")
             ELSE IF message # Expected(w[q].copy) THEN Edited(q, "conflict")
             ELSE [w[q] EXCEPT !.pc = "patch"])
    /\ UNCHANGED <<world, index, message, faults, lost>>

\* Mutant: the edit does not name what it replaces.
PatchOver(q) ==
    /\ w[q].pc = "patch"
    /\ Go(q, Edited(q, "delivered")) /\ message' = w[q].copy.disposition
    /\ UNCHANGED <<world, index, faults, lost>>

\* and replaces what it expects there, which Zulip compares.
Patch(q) ==
    /\ w[q].pc = "patch"
    /\ IF message = Expected(w[q].copy)
       THEN Go(q, Edited(q, "delivered")) /\ message' = w[q].copy.disposition
       ELSE Go(q, Edited(q, "conflict")) /\ UNCHANGED message
    /\ UNCHANGED <<world, index, faults, lost>>

\* Mutant: the result is recorded over whatever the record says by now.
RecordResultOver(q) ==
    /\ w[q].pc = "result"
    /\ Write(q, w[q].copy, Idle)
    /\ UNCHANGED <<world, index, message, faults, lost>>

\* Mutant: the result is not recorded.
RecordNoResult(q) ==
    /\ w[q].pc = "result"
    /\ Go(q, Idle)
    /\ UNCHANGED <<world, index, message, faults, lost>>

\* The result is recorded.
RecordResult(q) ==
    /\ w[q].pc = "result"
    /\ IF w[q].live THEN Write(q, w[q].copy, Idle) ELSE Go(q, Idle)
    /\ UNCHANGED <<world, index, message, faults, lost>>

Step(q) ==
    \/ Send(q) \/ RecordSent(q) \/ Collect(q) \/ RefreshIndex(q) \/ Fresh(q) \/ Stage(q)
    \/ DoNotDeliver(q) \/ Edit(q) \/ Patch(q) \/ RecordResult(q)

-----------------------------------------------------------------------------
\* Failures.

Fault == faults < MaxFaults /\ faults' = faults + 1 /\ UNCHANGED <<world, lost>>

Crash(q) ==
    /\ w[q].pc # "idle"
    /\ Go(q, Idle)
    /\ Fault /\ UNCHANGED <<index, message>>

\* Mutant: an error that validated_v2_items does not know.
UnansweredUnknown == "unknown"

Unanswered == "unavailable"

\* Zulip does not answer, or is too old to compare; the edit may have been made.
EditUnanswered(q) ==
    /\ w[q].pc \in {"edit", "patch"}
    /\ Go(q, Edited(q, Unanswered))
    /\ \/ UNCHANGED message
       \/ /\ w[q].pc = "patch"
          /\ message = Expected(w[q].copy)
          /\ message' = w[q].copy.disposition
    /\ Fault /\ UNCHANGED index

\* The index is damaged and thrown away.
LoseIndex ==
    /\ index # None
    /\ index' = None
    /\ lost' = TRUE
    /\ faults < MaxFaults /\ faults' = faults + 1
    /\ UNCHANGED <<world, item, recorded, message, w>>

-----------------------------------------------------------------------------
\* The world.

\* The record is written by somebody else.
Disturb(new) ==
    /\ item' = new
    /\ recorded' = recorded \cup {new.disposition}
    /\ w' = [p \in Workers |-> [w[p] EXCEPT !.live = FALSE]]

Touch ==
    /\ \E p \in Workers : w[p].live
    /\ Disturb(item)
    /\ Fault /\ UNCHANGED <<index, message>>

Withdraw ==
    /\ ~withdrawn
    /\ withdrawn' = TRUE
    /\ Disturb(item)
    /\ UNCHANGED <<verified, artifacts, index, message, faults, lost>>

\* A maintainer corrects the diagnosis of an alert that was sent.
Reclassify ==
    /\ item.sent
    /\ item.disposition.kind # "reclassified"
    /\ Disturb([item EXCEPT !.disposition = [kind |-> "reclassified", evidence |-> None]])
    /\ UNCHANGED <<world, index, message, faults, lost>>

\* Somebody edits the message.
EditByHand ==
    /\ message \notin {None, Foreign}
    /\ message' = Foreign
    /\ UNCHANGED <<world, item, recorded, index, w, faults, lost>>

\* A verification of the configuration succeeds; later its artifact expires.
Verify(o) ==
    /\ o \notin ToSet(verified)
    /\ verified' = Append(verified, o)
    /\ artifacts' = artifacts \cup {o}
    /\ UNCHANGED <<item, recorded, withdrawn, index, message, w, faults, lost>>
Expire(o) ==
    /\ o \in artifacts
    /\ artifacts' = artifacts \ {o}
    /\ UNCHANGED <<item, recorded, withdrawn, verified, index, message, w, faults, lost>>

Next ==
    \/ \E q \in Workers :
         Notify(q) \/ Reconcile(q) \/ Step(q) \/ Crash(q) \/ EditUnanswered(q)
    \/ LoseIndex \/ Touch \/ Withdraw \/ Reclassify \/ EditByHand
    \/ \E o \in Outcomes : Verify(o) \/ Expire(o)

Spec == Init /\ [][Next]_vars

\* Commands go on; alerts are notified and reconciled, with --deliver, again and again.
FairSpec ==
    /\ Spec
    /\ \A q \in Workers :
         /\ WF_vars(Step(q))
         /\ SF_vars(Notify(q))
         /\ SF_vars(Reconcile(q) /\ w'[q].scope = None)
         /\ SF_vars(Edit(q))

-----------------------------------------------------------------------------
\* Properties.

\* What a person wrote into the message is never overwritten, though an edit reads
\* the message some time before it writes it.
ForeignStands == [][message = Foreign => message' = Foreign]_vars

\* Whatever a message says of an alert was on record before it was said.
SaidIsRecorded == message \in recorded \cup {None, Foreign}

\* Both hold of an alert whatever dies, expires or is edited meanwhile.
Inv == TypeOK /\ SaidIsRecorded

\* A maintainer's correction is final, whatever an overlapping command has read.
CorrectionStands ==
    [][item.disposition.kind = "reclassified" => item'.disposition.kind = "reclassified"]_vars

\* Commands do not overlap.
Alone == \A p, q \in Workers : p = q

\* Evidence that an alert was recovered is not given up for that of a successor when
\* its artifact expires, unless the cache of it was lost too, or commands overlap: one
\* that cloned before may still say what it saw.
RecoveryStands ==
    [][Alone /\ item.disposition.kind = "recovered" /\ ~lost
         => item'.disposition.kind # "superseded"]_vars

\* Every disposition of a notified alert is shown, or that it cannot be is on record.
DispositionIsShown ==
    ToShow(item) ~> ~ToShow(item) \/ item.edit_error # "none"
=============================================================================
