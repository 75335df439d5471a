------------------------ MODULE MetadataRepairProofs ------------------------
(***************************************************************************)
(* The safety properties of MetadataRepair, for any number of requests, of *)
(* repair-queue commands that run at the same time, and of faults.         *)
(***************************************************************************)
EXTENDS MetadataRepair, TLAPS

\* Where a command still holds the repair.json it read, and has not written it.
Before == {"check", "prepare", "preflight", "existing", "post", "record"}

\* What a command x may rely on where it stands, whatever others do meanwhile, in
\* terms of the requests r, the pull requests p and the checked candidates c.
SoundAt(x, r, p, c) ==
    /\ x.pc \notin {"idle", "next"} => x.one \in Submissions /\ r[x.one] # None
    /\ \A s \in x.todo : r[s] # None
    /\ x.fresh /\ x.pc \in Before => x.copy = r[x.one]
    /\ x.pc = "check" => x.copy = "pr-open" /\ ~x.pushed
    /\ x.pc \in {"prepare", "preflight", "existing", "post"} => x.copy = "queued"
    /\ x.pc \in {"existing", "post"} => x.one \in c
    /\ x.pc \in {"record", "mirror"} =>
         /\ x.verdict \in REPAIR_TERMINAL_STATUSES \cup {"pr-open"}
         /\ x.verdict = "pr-open" => x.copy = "queued" /\ ~x.pushed
         /\ x.pushed => x.copy = "queued"
    /\ x.pc = "record" =>
         /\ x.verdict = "pr-open" => p[x.one] # "none"
         /\ x.verdict = "merged" => p[x.one] = "merged"
    /\ x.pc \in {"index", "drop"} => r[x.one] \in REPAIR_TERMINAL_STATUSES
    /\ (/\ x.pc = "mirror" \/ (x.pc = "cleanup" /\ x.error # "raised")
        /\ x.verdict \in REPAIR_TERMINAL_STATUSES)
       => r[x.one] \in REPAIR_TERMINAL_STATUSES

\* And what it may rely on while it is the only one.
LoneAt(x, r, p) ==
    /\ x.pc \in Before => x.fresh
    /\ x.pc = "post" => p[x.one] = "none"
    /\ x.pc = "record" /\ x.verdict = "closed" => p[x.one] = "closed"
    /\ x.pc = "cleanup" => r[x.one] # "pr-open"

Sound == \A q \in Workers : SoundAt(w[q], request, pr, checked)

Alone == ~overlap =>
    /\ \A p, q \in Workers : p # q => w[p].pc = "idle" \/ w[q].pc = "idle"
    /\ \A q \in Workers : LoneAt(w[q], request, pr)

\* The files agree.
Agree == \A s \in Submissions :
    /\ s \in index \cup admitting => request[s] # None
    /\ mirror[s] = None <=> request[s] = None
    /\ s \in drawn => request[s] # None
    /\ pr[s] = "open" => s \in branch

IInv == Inv /\ RecordedIsReal /\ Agree /\ Sound /\ Alone

\* What no step takes back.
Grows == \A s \in Submissions :
    /\ request[s] # None => request'[s] # None
    /\ Ended(s) => Ended(s)'
    /\ pr[s] # "none" => pr'[s] # "none"
    /\ pr[s] = "merged" => pr'[s] = "merged"
    /\ s \in checked => s \in checked'

-----------------------------------------------------------------------------
\* An exception leaves a command at its next request, at the removal of a branch it
\* has pushed, or at the handler.
LEMMA RaisedIs ==
  ASSUME NEW x \in Commands
  PROVE  /\ Raised(x) \in Commands
         /\ Raised(x).todo = x.todo
         /\ Raised(x).pc \in {"next", "cleanup", "fail"}
         /\ Raised(x).pc # "next" => Raised(x).one = x.one /\ Raised(x).error = "raised"
         /\ Raised(x).pc = "cleanup" => x.pushed
  <1>1. CASE x.error = "failing"
    BY <1>1 DEF Raised, Idle, Commands, Pcs
  <1>2. CASE x.error # "failing"
    BY <1>2 DEF Raised, Commands, Pcs
  <1> QED BY <1>1, <1>2

\* After the cleanup a command goes on with its next request, with the handler of
\* the exception, or with the drop of a request that has ended.
LEMMA ConcludedIs ==
  ASSUME NEW x \in Commands
  PROVE  /\ Concluded(x) \in Commands
         /\ Concluded(x).todo = x.todo
         /\ Concluded(x).pc \in {"next", "fail", "index"}
         /\ Concluded(x).pc # "next" => Concluded(x).one = x.one
         /\ Concluded(x).pc = "index" =>
              x.error # "raised" /\ x.verdict \in REPAIR_TERMINAL_STATUSES
  <1>1. CASE x.error = "raised"
    BY <1>1 DEF Concluded, Commands, Pcs
  <1>2. CASE x.error # "raised" /\ x.verdict \in REPAIR_TERMINAL_STATUSES
    BY <1>2 DEF Concluded, Commands, Pcs
  <1>3. CASE x.error # "raised" /\ x.verdict \notin REPAIR_TERMINAL_STATUSES
    BY <1>3 DEF Concluded, Idle, Commands, Pcs
  <1> QED BY <1>1, <1>2, <1>3

\* Whatever a command was about, what it does after an exception is sound.
LEMMA RaisedSound ==
  ASSUME NEW x \in Commands, NEW r, NEW p, NEW c,
         x.one \in Submissions, r[x.one] # None, \A s \in x.todo : r[s] # None
  PROVE  SoundAt(Raised(x), r, p, c)
  <1> DEFINE y == Raised(x)
  <1>1. /\ y \in Commands
        /\ y.todo = x.todo
        /\ y.pc \in {"next", "cleanup", "fail"}
        /\ y.pc # "next" => y.one = x.one /\ y.error = "raised"
    BY RaisedIs
  <1> HIDE DEF y
  <1> SUFFICES SoundAt(y, r, p, c)
    BY DEF y
  <1> QED BY <1>1 DEF SoundAt, Before

\* And so is what it does after the cleanup, if what it recorded has ended.
LEMMA ConcludedSound ==
  ASSUME NEW x \in Commands, NEW r, NEW p, NEW c,
         x.one \in Submissions, r[x.one] # None, \A s \in x.todo : r[s] # None,
         x.error # "raised" /\ x.verdict \in REPAIR_TERMINAL_STATUSES
           => r[x.one] \in REPAIR_TERMINAL_STATUSES
  PROVE  SoundAt(Concluded(x), r, p, c)
  <1> DEFINE y == Concluded(x)
  <1>1. /\ y \in Commands
        /\ y.todo = x.todo
        /\ y.pc \in {"next", "fail", "index"}
        /\ y.pc # "next" => y.one = x.one
        /\ y.pc = "index" => x.error # "raised" /\ x.verdict \in REPAIR_TERMINAL_STATUSES
    BY ConcludedIs
  <1> HIDE DEF y
  <1> SUFFICES SoundAt(y, r, p, c)
    BY DEF y
  <1> QED BY <1>1 DEF SoundAt, Before

\* A command that does not move stays sound, if it still holds the repair.json it
\* read or knows that it does not.
LEMMA OthersStay ==
  ASSUME IInv, Grows, NEW p \in Workers, w'[p] \in Commands,
         w'[p] = [w[p] EXCEPT !.fresh = w'[p].fresh],
         w'[p].fresh => w[p].fresh,
         w'[p].fresh /\ w[p].one \in Submissions /\ request[w[p].one] # None
           => request'[w[p].one] = request[w[p].one]
  PROVE  SoundAt(w[p], request, pr, checked)'
  <1> DEFINE x == w[p]  y == w'[p]
  <1>1. x \in Commands /\ SoundAt(x, request, pr, checked)
    BY DEF IInv, Inv, TypeOK, Sound
  <1>2. /\ y.pc = x.pc /\ y.todo = x.todo /\ y.one = x.one /\ y.copy = x.copy
        /\ y.verdict = x.verdict /\ (y.pushed <=> x.pushed) /\ y.error = x.error
    BY <1>1 DEF Commands
  <1>3. y.fresh => x.fresh
    OBVIOUS
  <1>4. x.todo \subseteq Submissions
    BY <1>1 DEF Commands
  <1> HIDE DEF x, y
  <1>5. y.fresh /\ x.one \in Submissions /\ request[x.one] # None
          => request'[x.one] = request[x.one]
    BY DEF x, y
  <1>6. SoundAt(y, request', pr', checked')
    BY <1>1, <1>2, <1>3, <1>4, <1>5 DEF Grows, Ended, SoundAt, Before
  <1> QED BY <1>6 DEF y

\* A step of the command q to v that leaves repair.json as it is: the others stay.
LEMMA Moved ==
  ASSUME IInv, Grows, UNCHANGED request,
         NEW q \in Workers, NEW v \in Commands, w' = [w EXCEPT ![q] = v],
         SoundAt(v, request', pr', checked')
  PROVE  w' \in [Workers -> Commands] /\ Sound'
  <1>1. w \in [Workers -> Commands]
    BY DEF IInv, Inv, TypeOK
  <1>2. w' \in [Workers -> Commands] /\ w'[q] = v
    BY <1>1
  <1>3. ASSUME NEW p \in Workers PROVE SoundAt(w[p], request, pr, checked)'
    <2>1. CASE p = q
      BY <2>1, <1>2
    <2>2. CASE p # q
      <3>1. w'[p] = w[p] /\ w[p] \in Commands
        BY <2>2, <1>1
      <3>2. w[p] = [w[p] EXCEPT !.fresh = w[p].fresh]
        BY <3>1 DEF Commands
      <3> QED BY <3>1, <3>2, OthersStay
    <2> QED BY <2>1, <2>2
  <1> QED BY <1>2, <1>3 DEF Sound

\* A step of the command q that does not begin one: if no two are at work, q still
\* is the only one.
LEMMA AloneStays ==
  ASSUME IInv, UNCHANGED overlap, NEW q \in Workers, w[q].pc # "idle",
         \A p \in Workers \ {q} : w'[p].pc = w[p].pc,
         ~overlap => LoneAt(w[q], request, pr)'
  PROVE  Alone'
  <1> SUFFICES ASSUME ~overlap PROVE Alone'
    BY DEF Alone
  <1>1. \A p \in Workers \ {q} : w'[p].pc = "idle"
    BY DEF IInv, Alone
  <1>2. \A p \in Workers \ {q} : LoneAt(w[p], request, pr)'
    BY <1>1 DEF LoneAt, Before
  <1> QED BY <1>1, <1>2 DEF Alone

\* A step of the command q to v by which no file and nothing at GitHub changes.
LEMMA Internal ==
  ASSUME IInv, UNCHANGED <<queue, github, legacy, checked, overlap>>, faults' \in 0..MaxFaults,
         NEW q \in Workers, NEW v \in Commands, Go(q, v), w[q].pc # "idle",
         SoundAt(v, request, pr, checked),
         ~overlap => LoneAt(v, request, pr)
  PROVE  IInv'
  <1>1. /\ UNCHANGED <<request, mirror, index, admitting, branch, pr>>
        /\ UNCHANGED <<upgrading, guided, drawn, checked, overlap>>
    BY DEF queue, github, legacy
  <1>2. Grows
    BY <1>1 DEF Grows, Ended
  <1>3. SoundAt(v, request', pr', checked')
    BY <1>1
  <1>4. w' = [w EXCEPT ![q] = v]
    BY DEF Go
  <1>5. w' \in [Workers -> Commands] /\ Sound'
    BY <1>1, <1>2, <1>3, <1>4, Moved
  <1>6. w \in [Workers -> Commands]
    BY DEF IInv, Inv, TypeOK
  <1>7. w'[q] = v /\ \A p \in Workers \ {q} : w'[p].pc = w[p].pc
    BY <1>4, <1>6
  <1>8. Alone'
    <2>1. ~overlap => LoneAt(w[q], request, pr)'
      BY <1>1, <1>7
    <2> QED BY <1>1, <1>7, <2>1, AloneStays
  <1>9. TypeOK'
    BY <1>1, <1>5 DEF IInv, Inv, TypeOK
  <1>10. QueuedIsListed' /\ MirrorIsBehind' /\ GuidanceStands' /\ RecordedIsReal' /\ Agree'
    BY <1>1 DEF IInv, Inv, QueuedIsListed, MirrorIsBehind, GuidanceStands,
                RecordedIsReal, Agree, Ended
  <1> QED BY <1>5, <1>8, <1>9, <1>10 DEF IInv, Inv

-----------------------------------------------------------------------------
\* Nothing has been asked for, and no command is at work.
LEMMA InitIInv == Init => IInv
  <1> SUFFICES ASSUME Init PROVE IInv
    OBVIOUS
  <1>1. Idle \in Commands /\ Idle.pc = "idle" /\ Idle.todo = {} /\ Idle.fresh = FALSE
    BY DEF Idle, Commands, Pcs
  <1>2. \A q \in Workers : w[q] = Idle
    BY DEF Init
  <1>3. TypeOK
    <2>1. w \in [Workers -> Commands]
      BY <1>1 DEF Init
    <2>2. faults \in 0..MaxFaults
      BY RepairAssumption DEF Init
    <2> QED BY <2>1, <2>2 DEF Init, TypeOK
  <1>4. QueuedIsListed /\ MirrorIsBehind /\ GuidanceStands /\ RecordedIsReal /\ Agree
    <2>1. None \notin {"queued", "pr-open", "merged", "closed", "needs-input", "failed"}
      BY RepairAssumption DEF Statuses, REPAIR_TERMINAL_STATUSES
    <2>2. \A s \in Submissions : request[s] = None /\ mirror[s] = None /\ pr[s] = "none"
      BY DEF Init
    <2>3. index = {} /\ admitting = {} /\ drawn = {}
      BY DEF Init
    <2> QED BY <2>1, <2>2, <2>3 DEF QueuedIsListed, MirrorIsBehind, GuidanceStands,
                RecordedIsReal, Agree, Ended, REPAIR_TERMINAL_STATUSES
  <1>5. SoundAt(Idle, request, pr, checked) /\ LoneAt(Idle, request, pr)
    BY <1>1 DEF SoundAt, LoneAt, Before
  <1>6. Sound /\ Alone
    BY <1>1, <1>2, <1>5 DEF Sound, Alone
  <1> QED BY <1>3, <1>4, <1>6 DEF IInv, Inv

-----------------------------------------------------------------------------
\* What the invariant says of the command q.
LEMMA Here ==
  ASSUME IInv, NEW q \in Workers
  PROVE  /\ w \in [Workers -> Commands] /\ w[q] \in Commands
         /\ SoundAt(w[q], request, pr, checked)
         /\ ~overlap => LoneAt(w[q], request, pr)
  BY DEF IInv, Inv, TypeOK, Sound, Alone

\* Settling on a status changes what is to be recorded, and nothing else.
LEMMA RecordingIs ==
  ASSUME NEW q \in Workers, w[q] \in Commands, NEW status \in Statuses
  PROVE  LET v == Recording(q, status) IN
         /\ v \in Commands /\ v.pc = "record" /\ v.verdict = status
         /\ v.todo = w[q].todo /\ v.one = w[q].one /\ v.copy = w[q].copy
         /\ (v.fresh <=> w[q].fresh) /\ (v.pushed <=> w[q].pushed)
         /\ v.error = w[q].error /\ v.base = w[q].base
  <1> DEFINE x == w[q]
  <1>1. x \in Commands
    OBVIOUS
  <1> HIDE DEF x
  <1>2. LET v == [x EXCEPT !.pc = "record", !.verdict = status] IN
         /\ v \in Commands /\ v.pc = "record" /\ v.verdict = status
         /\ v.todo = x.todo /\ v.one = x.one /\ v.copy = x.copy
         /\ (v.fresh <=> x.fresh) /\ (v.pushed <=> x.pushed)
         /\ v.error = x.error /\ v.base = x.base
    BY <1>1 DEF Commands, Pcs
  <1> QED BY <1>2 DEF Recording, x

\* Settling on a status that has ended, while the record says what was read of it.
LEMMA RecordingEnd ==
  ASSUME IInv, NEW q \in Workers, NEW status \in REPAIR_TERMINAL_STATUSES,
         w[q].pc \in {"check", "prepare", "preflight", "existing"},
         status = "merged" => pr[w[q].one] = "merged",
         status = "closed" => pr[w[q].one] = "closed"
  PROVE  /\ Recording(q, status) \in Commands
         /\ SoundAt(Recording(q, status), request, pr, checked)
         /\ ~overlap => LoneAt(Recording(q, status), request, pr)
  <1> DEFINE x == w[q]  v == Recording(q, status)
  <1>1. x \in Commands /\ SoundAt(x, request, pr, checked) /\ (~overlap => LoneAt(x, request, pr))
    BY Here
  <1>2. status \in Statuses /\ status # "pr-open"
    BY DEF Statuses, REPAIR_TERMINAL_STATUSES
  <1>3. /\ v \in Commands /\ v.pc = "record" /\ v.verdict = status
        /\ v.todo = x.todo /\ v.one = x.one /\ v.copy = x.copy
        /\ (v.fresh <=> x.fresh) /\ (v.pushed <=> x.pushed)
    BY <1>1, <1>2, RecordingIs
  <1>4. x.pc \in {"check", "prepare", "preflight", "existing"}
    OBVIOUS
  <1>5. /\ status = "merged" => pr[x.one] = "merged"
        /\ status = "closed" => pr[x.one] = "closed"
    OBVIOUS
  <1> HIDE DEF x, v
  <1>6. SoundAt(v, request, pr, checked)
    BY <1>1, <1>2, <1>3, <1>4, <1>5 DEF SoundAt, Before
  <1>7. ~overlap => LoneAt(v, request, pr)
    BY <1>1, <1>3, <1>4, <1>5 DEF LoneAt, Before
  <1> QED BY <1>3, <1>6, <1>7 DEF v

\* An exception in the work on a request, with nothing changed.
LEMMA RaisedHere ==
  ASSUME IInv, NEW q \in Workers, w[q].pc \in Before \cup {"mirror"}
  PROVE  /\ Raised(w[q]) \in Commands
         /\ SoundAt(Raised(w[q]), request, pr, checked)
         /\ ~overlap => \A p : LoneAt(Raised(w[q]), request, p)
  <1> DEFINE x == w[q]  y == Raised(x)
  <1>1. x \in Commands /\ SoundAt(x, request, pr, checked) /\ (~overlap => LoneAt(x, request, pr))
    BY Here
  <1>2. x.pc \in Before \cup {"mirror"}
    OBVIOUS
  <1>3. /\ y \in Commands
        /\ y.todo = x.todo
        /\ y.pc \in {"next", "cleanup", "fail"}
        /\ y.pc # "next" => y.one = x.one /\ y.error = "raised"
        /\ y.pc = "cleanup" => x.pushed
    BY <1>1, RaisedIs
  <1> HIDE DEF x
  <1>4. x.one \in Submissions /\ request[x.one] # None /\ \A s \in x.todo : request[s] # None
    BY <1>1, <1>2 DEF SoundAt, Before
  <1>5. SoundAt(y, request, pr, checked)
    BY <1>1, <1>4, RaisedSound
  <1> HIDE DEF y
  <1>6. ASSUME ~overlap, x.pushed PROVE request[x.one] # "pr-open"
    BY <1>1, <1>2, <1>6 DEF SoundAt, LoneAt, Before, REPAIR_TERMINAL_STATUSES
  <1>7. ASSUME ~overlap, NEW p PROVE LoneAt(y, request, p)
    BY <1>3, <1>6, <1>7 DEF LoneAt, Before
  <1> QED BY <1>3, <1>5, <1>7 DEF x, y

\* The next request of the queue.
LEMMA OnwardHere ==
  ASSUME IInv, NEW q \in Workers
  PROVE  /\ Onward(q) \in Commands
         /\ SoundAt(Onward(q), request, pr, checked)
         /\ LoneAt(Onward(q), request, pr)
  <1> DEFINE x == w[q]  y == [Idle EXCEPT !.pc = "next", !.todo = x.todo]
  <1>1. x \in Commands /\ SoundAt(x, request, pr, checked)
    BY Here
  <1> HIDE DEF x
  <1>2. y \in Commands /\ y.pc = "next" /\ y.todo = x.todo
    BY <1>1 DEF Idle, Commands, Pcs
  <1> HIDE DEF y
  <1>3. SoundAt(y, request, pr, checked) /\ LoneAt(y, request, pr)
    BY <1>1, <1>2 DEF SoundAt, LoneAt, Before
  <1> QED BY <1>2, <1>3 DEF x, y, Onward

\* No command at all.
LEMMA IdleHere ==
  /\ Idle \in Commands /\ Idle.pc = "idle"
  /\ \A r, p, c : SoundAt(Idle, r, p, c) /\ LoneAt(Idle, r, p)
  <1>1. Idle \in Commands /\ Idle.pc = "idle" /\ Idle.todo = {} /\ Idle.fresh = FALSE
    BY DEF Idle, Commands, Pcs
  <1> HIDE DEF Idle
  <1> QED BY <1>1 DEF SoundAt, LoneAt, Before

-----------------------------------------------------------------------------
\* A command begins: if another is at work, they overlap from then on.
LEMMA BeginIInv ==
  ASSUME IInv, NEW q \in Workers, Begin(q)
  PROVE  IInv'
  <1> DEFINE v == [Idle EXCEPT !.pc = "next", !.todo = index]
  <1>1. /\ w' = [w EXCEPT ![q] = v] /\ w[q].pc = "idle"
        /\ overlap' = (overlap \/ \E p \in Workers \ {q} : w[p].pc # "idle")
        /\ UNCHANGED <<request, mirror, index, admitting, branch, pr>>
        /\ UNCHANGED <<upgrading, guided, drawn, checked, faults>>
    BY DEF Begin, Go, queue, github, legacy
  <1>2. index \subseteq Submissions /\ \A s \in index : request[s] # None
    BY DEF IInv, Inv, TypeOK, Agree
  <1>3. v \in Commands /\ v.pc = "next" /\ v.todo = index
    BY <1>2 DEF Idle, Commands, Pcs
  <1> HIDE DEF v
  <1>4. SoundAt(v, request, pr, checked) /\ LoneAt(v, request, pr)
    BY <1>2, <1>3 DEF SoundAt, LoneAt, Before
  <1>5. Grows
    BY <1>1 DEF Grows, Ended
  <1>6. w' \in [Workers -> Commands] /\ Sound'
    BY <1>1, <1>3, <1>4, <1>5, Moved
  <1>7. overlap' \in BOOLEAN /\ (~overlap' => ~overlap /\ \A p \in Workers \ {q} : w[p].pc = "idle")
    BY <1>1 DEF IInv, Inv, TypeOK
  <1>8. Alone'
    <2> SUFFICES ASSUME ~overlap' PROVE Alone'
      BY DEF Alone
    <2>1. w \in [Workers -> Commands]
      BY Here DEF IInv, Inv, TypeOK
    <2>2. w'[q] = v /\ \A p \in Workers \ {q} : w'[p] = w[p] /\ w'[p].pc = "idle"
      BY <1>1, <1>7, <2>1
    <2>3. \A p \in Workers \ {q} : LoneAt(w[p], request, pr)'
      BY <2>2 DEF LoneAt, Before
    <2>4. LoneAt(w[q], request, pr)'
      BY <1>1, <1>4, <2>2
    <2> QED BY <2>2, <2>3, <2>4 DEF Alone
  <1>9. TypeOK'
    BY <1>1, <1>6, <1>7 DEF IInv, Inv, TypeOK
  <1>10. QueuedIsListed' /\ MirrorIsBehind' /\ GuidanceStands' /\ Agree'
    BY <1>1 DEF IInv, Inv, QueuedIsListed, MirrorIsBehind, GuidanceStands, Agree, Ended
  <1>11. RecordedIsReal'
    BY <1>1, <1>7 DEF IInv, RecordedIsReal
  <1> QED BY <1>6, <1>8, <1>9, <1>10, <1>11 DEF IInv, Inv

\* A command reads the next record of its queue.
LEMMA TakeIInv ==
  ASSUME IInv, NEW q \in Workers, Take(q)
  PROVE  IInv'
  <1>1. /\ w[q].pc = "next"
        /\ UNCHANGED <<queue, github, legacy, checked, overlap>> /\ faults' \in 0..MaxFaults
    BY DEF Take, IInv, Inv, TypeOK
  <1>2. CASE Go(q, Idle)
    BY <1>1, <1>2, IdleHere, Internal
  <1>3. ASSUME NEW s \in w[q].todo,
               LET v == [Idle EXCEPT !.todo = w[q].todo \ {s}, !.one = s,
                                     !.copy = request[s], !.fresh = TRUE]
               IN Go(q, CASE request[s] = "pr-open" -> [v EXCEPT !.pc = "check"]
                          [] request[s] = "queued" -> [v EXCEPT !.pc = "prepare"]
                          [] OTHER -> [v EXCEPT !.pc = "index"])
        PROVE  IInv'
    <2> DEFINE x == w[q]  r == request[s]
               k == CASE r = "pr-open" -> "check" [] r = "queued" -> "prepare" [] OTHER -> "index"
               v == [Idle EXCEPT !.todo = x.todo \ {s}, !.one = s, !.copy = r, !.fresh = TRUE]
               y == [v EXCEPT !.pc = k]
    <2>1. x \in Commands /\ SoundAt(x, request, pr, checked)
      BY Here
    <2>2. s \in Submissions /\ r \in Statuses /\ \A t \in x.todo : request[t] # None
      <3>1. s \in Submissions
        BY <1>3, <2>1 DEF Commands
      <3>2. \A t \in x.todo : request[t] # None
        BY <2>1 DEF SoundAt
      <3>3. request \in [Submissions -> Statuses \cup {None}]
        BY DEF IInv, Inv, TypeOK
      <3> QED BY <1>3, <3>1, <3>2, <3>3
    <2>3. Go(q, y)
      BY <1>3
    <2>4. k \in {"check", "prepare", "index"} /\ (k = "check" => r = "pr-open")
          /\ (k = "prepare" => r = "queued") /\ (k = "index" => r \in REPAIR_TERMINAL_STATUSES)
      BY <2>2 DEF Statuses
    <2> HIDE DEF x, k
    <2>5. /\ y \in Commands /\ y.pc = k /\ y.todo = x.todo \ {s} /\ y.one = s /\ y.copy = r
          /\ y.fresh = TRUE /\ y.pushed = FALSE
      <3> HIDE DEF r
      <3> QED BY <2>1, <2>2, <2>4 DEF Idle, Commands, Pcs
    <2> HIDE DEF y
    <2>6. r # None
      BY <2>2, RepairAssumption
    <2>7. SoundAt(y, request, pr, checked) /\ LoneAt(y, request, pr)
      BY <2>2, <2>4, <2>5, <2>6 DEF SoundAt, LoneAt, Before
    <2> QED BY <1>1, <2>3, <2>5, <2>7, Internal
  <1> QED BY <1>2, <1>3 DEF Take

\* It asks for the pull request on record.
LEMMA CheckIInv ==
  ASSUME IInv, NEW q \in Workers, Check(q)
  PROVE  IInv'
  <1>1. /\ w[q].pc = "check"
        /\ UNCHANGED <<queue, github, legacy, checked, overlap>> /\ faults' \in 0..MaxFaults
    BY DEF Check, IInv, Inv, TypeOK
  <1>2. CASE pr[w[q].one] \in {"merged", "closed"}
    <2> DEFINE status == pr[w[q].one]
    <2>1. Go(q, Recording(q, status))
      BY <1>2 DEF Check
    <2>2. status \in REPAIR_TERMINAL_STATUSES
      BY <1>2 DEF REPAIR_TERMINAL_STATUSES
    <2>3. /\ Recording(q, status) \in Commands
          /\ SoundAt(Recording(q, status), request, pr, checked)
          /\ ~overlap => LoneAt(Recording(q, status), request, pr)
      BY <1>1, <2>2, RecordingEnd
    <2> HIDE DEF status
    <2> QED BY <1>1, <2>1, <2>3, Internal
  <1>3. CASE pr[w[q].one] \notin {"merged", "closed"}
    BY <1>1, <1>3, OnwardHere, Internal DEF Check
  <1> QED BY <1>2, <1>3

\* It asks for the pull requests of the branch.
LEMMA ExistingIInv ==
  ASSUME IInv, NEW q \in Workers, Existing(q)
  PROVE  IInv'
  <1> DEFINE x == w[q]  n == pr[w[q].one]
  <1>1. /\ x.pc = "existing"
        /\ UNCHANGED <<queue, github, legacy, checked, overlap>> /\ faults' \in 0..MaxFaults
    BY DEF Existing, IInv, Inv, TypeOK
  <1>2. x \in Commands /\ SoundAt(x, request, pr, checked) /\ (~overlap => LoneAt(x, request, pr))
    BY Here
  <1>3. n \in {"none", "open", "merged", "closed"}
    <2>1. x.one \in Submissions
      BY <1>1, <1>2 DEF SoundAt
    <2> QED BY <2>1 DEF IInv, Inv, TypeOK
  <1>4. CASE n = "none"
    <2> DEFINE v == [x EXCEPT !.pc = "post"]
    <2>1. Go(q, v)
      BY <1>4 DEF Existing
    <2>2. n = pr[x.one]
      OBVIOUS
    <2> HIDE DEF x, n
    <2>3. /\ v \in Commands /\ v.pc = "post" /\ v.todo = x.todo /\ v.one = x.one
          /\ v.copy = x.copy /\ (v.fresh <=> x.fresh)
      BY <1>2 DEF Commands, Pcs
    <2> HIDE DEF v
    <2>4. SoundAt(v, request, pr, checked) /\ (~overlap => LoneAt(v, request, pr))
      BY <1>1, <1>2, <1>4, <2>2, <2>3 DEF SoundAt, LoneAt, Before
    <2>5. w[q].pc # "idle"
      BY <1>1 DEF x
    <2> QED BY <1>1, <2>1, <2>3, <2>4, <2>5, Internal
  <1>5. CASE n = "open"
    <2> DEFINE u == Recording(q, "pr-open")  v == [u EXCEPT !.pushed = FALSE]
    <2>1. Go(q, v)
      BY <1>5 DEF Existing, Kept
    <2>2. n = pr[x.one]
      OBVIOUS
    <2>3. /\ u \in Commands /\ u.pc = "record" /\ u.verdict = "pr-open"
          /\ u.todo = x.todo /\ u.one = x.one /\ u.copy = x.copy /\ (u.fresh <=> x.fresh)
      <3>1. "pr-open" \in Statuses
        BY DEF Statuses
      <3> QED BY <1>2, <3>1, RecordingIs
    <2> HIDE DEF x, n, u
    <2>4. /\ v \in Commands /\ v.pc = "record" /\ v.verdict = "pr-open"
          /\ v.todo = x.todo /\ v.one = x.one /\ v.copy = x.copy /\ (v.fresh <=> x.fresh)
          /\ v.pushed = FALSE
      BY <2>3 DEF Commands
    <2> HIDE DEF v
    <2>5. SoundAt(v, request, pr, checked) /\ (~overlap => LoneAt(v, request, pr))
      BY <1>1, <1>2, <1>5, <2>2, <2>4 DEF SoundAt, LoneAt, Before
    <2>6. w[q].pc # "idle"
      BY <1>1 DEF x
    <2> QED BY <1>1, <2>1, <2>4, <2>5, <2>6, Internal
  <1>6. CASE n \in {"merged", "closed"}
    <2>1. Go(q, Recording(q, n))
      BY <1>6 DEF Existing
    <2>2. n \in REPAIR_TERMINAL_STATUSES
      BY <1>6 DEF REPAIR_TERMINAL_STATUSES
    <2>3. /\ Recording(q, n) \in Commands
          /\ SoundAt(Recording(q, n), request, pr, checked)
          /\ ~overlap => LoneAt(Recording(q, n), request, pr)
      BY <1>1, <2>2, RecordingEnd
    <2> HIDE DEF n
    <2> QED BY <1>1, <2>1, <2>3, Internal
  <1> QED BY <1>3, <1>4, <1>5, <1>6

\* The handler reads the record again, to record the failure.
LEMMA FailIInv ==
  ASSUME IInv, NEW q \in Workers, Fail(q)
  PROVE  IInv'
  <1> DEFINE x == w[q]  r == request[w[q].one]  u == Recording(q, "failed")
             v == [u EXCEPT !.error = "failing", !.pushed = FALSE, !.copy = r, !.fresh = TRUE]
  <1>1. /\ x.pc = "fail" /\ Go(q, v)
        /\ UNCHANGED <<queue, github, legacy, checked, overlap>> /\ faults' \in 0..MaxFaults
    BY DEF Fail, IInv, Inv, TypeOK
  <1>2. x \in Commands /\ SoundAt(x, request, pr, checked)
    BY Here
  <1>3. "failed" \in Statuses /\ "failed" \in REPAIR_TERMINAL_STATUSES
    BY DEF Statuses, REPAIR_TERMINAL_STATUSES
  <1>4. u \in Commands /\ u.pc = "record" /\ u.verdict = "failed" /\ u.todo = x.todo /\ u.one = x.one
    BY <1>2, <1>3, RecordingIs
  <1>5. r = request[x.one] /\ r \in Statuses \cup {None}
    <2>1. x.one \in Submissions
      BY <1>1, <1>2 DEF SoundAt
    <2> QED BY <2>1 DEF IInv, Inv, TypeOK
  <1>6. w[q].pc # "idle"
    BY <1>1
  <1> HIDE DEF x, r, u
  <1>7. /\ v \in Commands /\ v.pc = "record" /\ v.verdict = "failed" /\ v.todo = x.todo
        /\ v.one = x.one /\ v.copy = r /\ v.fresh = TRUE /\ v.pushed = FALSE
    BY <1>4, <1>5 DEF Commands
  <1> HIDE DEF v
  <1>8. SoundAt(v, request, pr, checked) /\ (~overlap => LoneAt(v, request, pr))
    BY <1>1, <1>2, <1>3, <1>5, <1>7 DEF SoundAt, LoneAt, Before
  <1> QED BY <1>1, <1>6, <1>7, <1>8, Internal

\* It reads the index, to drop what has ended.
LEMMA ReadIndexIInv ==
  ASSUME IInv, NEW q \in Workers, ReadIndex(q)
  PROVE  IInv'
  <1> DEFINE x == w[q]  v == [x EXCEPT !.pc = "drop", !.base = index]
  <1>1. /\ x.pc = "index" /\ Go(q, v)
        /\ UNCHANGED <<queue, github, legacy, checked, overlap>> /\ faults' \in 0..MaxFaults
    BY DEF ReadIndex, IInv, Inv, TypeOK
  <1>2. x \in Commands /\ SoundAt(x, request, pr, checked)
    BY Here
  <1>3. w[q].pc # "idle"
    BY <1>1
  <1>4. index \subseteq Submissions
    BY DEF IInv, Inv, TypeOK
  <1> HIDE DEF x
  <1>5. v \in Commands /\ v.pc = "drop" /\ v.todo = x.todo /\ v.one = x.one
    BY <1>2, <1>4 DEF Commands, Pcs
  <1> HIDE DEF v
  <1>6. SoundAt(v, request, pr, checked) /\ LoneAt(v, request, pr)
    BY <1>1, <1>2, <1>5 DEF SoundAt, LoneAt, Before
  <1> QED BY <1>1, <1>3, <1>5, <1>6, Internal

\* A call made for a request fails.
LEMMA RaiseIInv ==
  ASSUME IInv, NEW q \in Workers, Raise(q)
  PROVE  IInv'
  <1>1. UNCHANGED <<queue, github, legacy, checked, overlap>> /\ faults' \in 0..MaxFaults
    <2>1. faults \in 0..MaxFaults /\ faults < MaxFaults /\ faults' = faults + 1
      BY DEF Raise, Fault, IInv, Inv, TypeOK
    <2>2. faults' \in 0..MaxFaults
      BY <2>1, RepairAssumption
    <2> QED BY <2>2 DEF Raise
  <1>2. ASSUME w[q].pc = "next", NEW s \in w[q].todo,
               Go(q, Raised([Idle EXCEPT !.todo = w[q].todo \ {s}, !.one = s]))
        PROVE  IInv'
    <2> DEFINE x == w[q]  v == [Idle EXCEPT !.todo = x.todo \ {s}, !.one = s]  y == Raised(v)
    <2>1. x \in Commands /\ SoundAt(x, request, pr, checked)
      BY Here
    <2>2. Go(q, y) /\ s \in x.todo /\ w[q].pc # "idle"
      BY <1>2
    <2> HIDE DEF x
    <2>3. s \in Submissions /\ \A t \in x.todo : request[t] # None
      BY <2>1, <2>2 DEF SoundAt, Commands
    <2>4. v \in Commands /\ v.one = s /\ v.todo = x.todo \ {s} /\ v.pushed = FALSE
      BY <2>1, <2>3 DEF Idle, Commands, Pcs
    <2> HIDE DEF v
    <2>5. /\ y \in Commands
          /\ y.pc \in {"next", "cleanup", "fail"}
          /\ y.pc = "cleanup" => v.pushed
      BY <2>4, RaisedIs
    <2>6. SoundAt(y, request, pr, checked)
      BY <2>2, <2>3, <2>4, RaisedSound
    <2> HIDE DEF y
    <2>7. LoneAt(y, request, pr)
      BY <2>4, <2>5 DEF LoneAt, Before
    <2> QED BY <1>1, <2>2, <2>5, <2>6, <2>7, Internal
  <1>3. ASSUME w[q].pc \in {"check", "prepare", "preflight", "existing", "post", "record", "mirror"},
               Go(q, Raised(w[q]))
        PROVE  IInv'
    <2>1. w[q].pc \in Before \cup {"mirror"} /\ w[q].pc # "idle"
      BY <1>3 DEF Before
    <2> QED BY <1>1, <1>3, <2>1, RaisedHere, Internal
  <1> QED BY <1>2, <1>3 DEF Raise

\* A command dies.
LEMMA CrashIInv ==
  ASSUME IInv, NEW q \in Workers, Crash(q)
  PROVE  IInv'
  <1>1. UNCHANGED <<queue, github, legacy, checked, overlap>> /\ faults' \in 0..MaxFaults
    <2>1. faults \in 0..MaxFaults /\ faults < MaxFaults /\ faults' = faults + 1
      BY DEF Crash, Fault, IInv, Inv, TypeOK
    <2>2. faults' \in 0..MaxFaults
      BY <2>1, RepairAssumption
    <2> QED BY <2>2 DEF Crash
  <1> QED BY <1>1, IdleHere, Internal DEF Crash

-----------------------------------------------------------------------------
\* A step of the command q to v that changes a file or something at GitHub, but not
\* repair.json.
LEMMA MovedAlone ==
  ASSUME IInv, Grows, UNCHANGED <<request, overlap>>,
         NEW q \in Workers, NEW v \in Commands, Go(q, v), w[q].pc # "idle",
         SoundAt(v, request', pr', checked'),
         ~overlap => LoneAt(v, request', pr')
  PROVE  w' \in [Workers -> Commands] /\ Sound' /\ Alone'
  <1>1. w' = [w EXCEPT ![q] = v] /\ w \in [Workers -> Commands]
    BY DEF Go, IInv, Inv, TypeOK
  <1>2. w'[q] = v /\ \A p \in Workers \ {q} : w'[p].pc = w[p].pc
    BY <1>1
  <1>3. w' \in [Workers -> Commands] /\ Sound'
    BY <1>1, Moved
  <1>4. ~overlap => LoneAt(w[q], request, pr)'
    BY <1>2
  <1>5. Alone'
    BY <1>2, <1>4, AloneStays
  <1> QED BY <1>3, <1>5

\* The candidate is made, and pushed.
LEMMA PrepareIInv ==
  ASSUME IInv, NEW q \in Workers, Prepare(q)
  PROVE  IInv'
  <1> DEFINE x == w[q]
  <1>1. /\ x.pc = "prepare"
        /\ UNCHANGED <<queue, pr, legacy, checked, overlap>> /\ faults' \in 0..MaxFaults
    BY DEF Prepare, IInv, Inv, TypeOK
  <1>2. CASE Go(q, Raised(w[q])) /\ UNCHANGED branch
    <2>1. w[q].pc \in Before \cup {"mirror"} /\ w[q].pc # "idle"
      BY <1>1 DEF Before
    <2>2. UNCHANGED github
      BY <1>1, <1>2 DEF github
    <2> QED BY <1>1, <1>2, <2>1, <2>2, RaisedHere, Internal
  <1>3. CASE Go(q, Recording(q, "needs-input")) /\ UNCHANGED branch
    <2>1. UNCHANGED github /\ w[q].pc # "idle" /\ "needs-input" \in REPAIR_TERMINAL_STATUSES
      BY <1>1, <1>3 DEF github, REPAIR_TERMINAL_STATUSES
    <2>2. /\ Recording(q, "needs-input") \in Commands
          /\ SoundAt(Recording(q, "needs-input"), request, pr, checked)
          /\ ~overlap => LoneAt(Recording(q, "needs-input"), request, pr)
      BY <1>1, <2>1, RecordingEnd
    <2> QED BY <1>1, <1>3, <2>1, <2>2, Internal
  <1>4. ASSUME Go(q, [w[q] EXCEPT !.pc = "preflight", !.pushed = TRUE]),
               branch' = branch \cup {w[q].one}
        PROVE  IInv'
    <2> DEFINE v == [x EXCEPT !.pc = "preflight", !.pushed = TRUE]
    <2>1. x \in Commands /\ SoundAt(x, request, pr, checked) /\ (~overlap => LoneAt(x, request, pr))
      BY Here
    <2>2. /\ UNCHANGED <<request, mirror, index, admitting, pr>>
          /\ UNCHANGED <<upgrading, guided, drawn, checked, overlap>>
          /\ Go(q, v) /\ w[q].pc # "idle" /\ branch' = branch \cup {x.one}
      BY <1>1, <1>4 DEF queue, legacy
    <2> HIDE DEF x
    <2>3. /\ v \in Commands /\ v.pc = "preflight" /\ v.todo = x.todo /\ v.one = x.one
          /\ v.copy = x.copy /\ (v.fresh <=> x.fresh)
      BY <2>1 DEF Commands, Pcs
    <2> HIDE DEF v
    <2>4. SoundAt(v, request, pr, checked) /\ (~overlap => LoneAt(v, request, pr))
      BY <1>1, <2>1, <2>3 DEF SoundAt, LoneAt, Before
    <2>5. x.one \in Submissions
      BY <1>1, <2>1 DEF SoundAt
    <2>6. Grows
      BY <2>2 DEF Grows, Ended
    <2>7. SoundAt(v, request', pr', checked') /\ (~overlap => LoneAt(v, request', pr'))
      BY <2>2, <2>4
    <2>8. w' \in [Workers -> Commands] /\ Sound' /\ Alone'
      BY <2>2, <2>3, <2>6, <2>7, MovedAlone
    <2>9. branch' \subseteq Submissions
      BY <2>2, <2>5 DEF IInv, Inv, TypeOK
    <2>10. TypeOK'
      BY <1>1, <2>2, <2>8, <2>9 DEF IInv, Inv, TypeOK
    <2>11. QueuedIsListed' /\ MirrorIsBehind' /\ GuidanceStands' /\ RecordedIsReal'
      BY <2>2 DEF IInv, Inv, QueuedIsListed, MirrorIsBehind, GuidanceStands,
                  RecordedIsReal, Ended
    <2>12. Agree'
      BY <2>2 DEF IInv, Agree
    <2> QED BY <2>8, <2>10, <2>11, <2>12 DEF IInv, Inv
  <1> QED BY <1>2, <1>3, <1>4 DEF Prepare

\* The verifier is run on it.
LEMMA PreflightIInv ==
  ASSUME IInv, NEW q \in Workers, Preflight(q)
  PROVE  IInv'
  <1> DEFINE x == w[q]
  <1>1. /\ x.pc = "preflight"
        /\ UNCHANGED <<queue, github, legacy, overlap>> /\ faults' \in 0..MaxFaults
    BY DEF Preflight, IInv, Inv, TypeOK
  <1>2. CASE Go(q, Raised(w[q])) /\ UNCHANGED checked
    <2>1. w[q].pc \in Before \cup {"mirror"} /\ w[q].pc # "idle"
      BY <1>1 DEF Before
    <2> QED BY <1>1, <1>2, <2>1, RaisedHere, Internal
  <1>3. CASE Go(q, Recording(q, "needs-input")) /\ UNCHANGED checked
    <2>1. w[q].pc # "idle" /\ "needs-input" \in REPAIR_TERMINAL_STATUSES
      BY <1>1 DEF REPAIR_TERMINAL_STATUSES
    <2>2. /\ Recording(q, "needs-input") \in Commands
          /\ SoundAt(Recording(q, "needs-input"), request, pr, checked)
          /\ ~overlap => LoneAt(Recording(q, "needs-input"), request, pr)
      BY <1>1, <2>1, RecordingEnd
    <2> QED BY <1>1, <1>3, <2>1, <2>2, Internal
  <1>4. ASSUME Go(q, [w[q] EXCEPT !.pc = "existing"]),
               checked' = checked \cup {w[q].one}
        PROVE  IInv'
    <2> DEFINE v == [x EXCEPT !.pc = "existing"]
    <2>1. x \in Commands /\ SoundAt(x, request, pr, checked) /\ (~overlap => LoneAt(x, request, pr))
      BY Here
    <2>2. /\ UNCHANGED <<request, mirror, index, admitting, branch, pr>>
          /\ UNCHANGED <<upgrading, guided, drawn, overlap>>
          /\ Go(q, v) /\ w[q].pc # "idle" /\ checked' = checked \cup {x.one}
      BY <1>1, <1>4 DEF queue, github, legacy
    <2> HIDE DEF x
    <2>3. /\ v \in Commands /\ v.pc = "existing" /\ v.todo = x.todo /\ v.one = x.one
          /\ v.copy = x.copy /\ (v.fresh <=> x.fresh)
      BY <2>1 DEF Commands, Pcs
    <2> HIDE DEF v
    <2>4. SoundAt(v, request, pr, checked') /\ (~overlap => LoneAt(v, request, pr))
      BY <1>1, <2>1, <2>2, <2>3 DEF SoundAt, LoneAt, Before
    <2>5. x.one \in Submissions
      BY <1>1, <2>1 DEF SoundAt
    <2>6. Grows
      BY <2>2 DEF Grows, Ended
    <2>7. SoundAt(v, request', pr', checked') /\ (~overlap => LoneAt(v, request', pr'))
      BY <2>2, <2>4
    <2>8. w' \in [Workers -> Commands] /\ Sound' /\ Alone'
      BY <2>2, <2>3, <2>6, <2>7, MovedAlone
    <2>9. checked' \subseteq Submissions
      BY <2>2, <2>5 DEF IInv, Inv, TypeOK
    <2>10. TypeOK'
      BY <1>1, <2>2, <2>8, <2>9 DEF IInv, Inv, TypeOK
    <2>11. QueuedIsListed' /\ MirrorIsBehind' /\ GuidanceStands' /\ RecordedIsReal'
      BY <2>2 DEF IInv, Inv, QueuedIsListed, MirrorIsBehind, GuidanceStands,
                  RecordedIsReal, Ended
    <2>12. Agree'
      BY <2>2 DEF IInv, Agree
    <2> QED BY <2>8, <2>10, <2>11, <2>12 DEF IInv, Inv
  <1> QED BY <1>2, <1>3, <1>4 DEF Preflight

\* A pull request is opened: of a branch that has none, if no other is at work.
LEMMA Opened ==
  ASSUME IInv, NEW q \in Workers, w[q].pc = "post", Openable(w[q].one),
         pr' = [pr EXCEPT ![w[q].one] = "open"],
         UNCHANGED <<queue, branch, legacy, checked, overlap>>, faults' \in 0..MaxFaults,
         NEW v \in Commands, Go(q, v),
         SoundAt(v, request, pr', checked),
         ~overlap => LoneAt(v, request, pr')
  PROVE  IInv'
  <1> DEFINE one == w[q].one
  <1>1. /\ UNCHANGED <<request, mirror, index, admitting, branch>>
        /\ UNCHANGED <<upgrading, guided, drawn, checked, overlap>>
        /\ one \in branch /\ pr[one] \in {"none", "closed"} /\ pr' = [pr EXCEPT ![one] = "open"]
        /\ w[q].pc # "idle"
    BY DEF queue, legacy, Openable
  <1>2. one \in Submissions /\ one \in checked /\ (~overlap => pr[one] = "none")
    BY Here DEF SoundAt, LoneAt
  <1> HIDE DEF one
  <1>3. pr \in [Submissions -> {"none", "open", "merged", "closed"}]
    BY DEF IInv, Inv, TypeOK
  <1>4. pr'[one] = "open" /\ \A s \in Submissions \ {one} : pr'[s] = pr[s]
    BY <1>1, <1>2, <1>3
  <1>5. Grows
    BY <1>1, <1>4 DEF Grows, Ended
  <1>6. w' \in [Workers -> Commands] /\ Sound' /\ Alone'
    BY <1>1, <1>5, MovedAlone
  <1>7. pr' \in [Submissions -> {"none", "open", "merged", "closed"}]
    BY <1>1, <1>2, <1>3
  <1>8. TypeOK'
    BY <1>1, <1>6, <1>7 DEF IInv, Inv, TypeOK
  <1>9. QueuedIsListed' /\ MirrorIsBehind' /\ GuidanceStands'
    BY <1>1 DEF IInv, Inv, QueuedIsListed, MirrorIsBehind, GuidanceStands, Ended
  <1>10. RecordedIsReal'
    BY <1>1, <1>2, <1>4 DEF IInv, RecordedIsReal
  <1>11. Agree'
    BY <1>1, <1>4 DEF IInv, Agree
  <1> QED BY <1>6, <1>8, <1>9, <1>10, <1>11 DEF IInv, Inv

\* What an exception leads to does not rely on the pull request.
LEMMA RaisedAtPost ==
  ASSUME IInv, NEW q \in Workers, w[q].pc = "post"
  PROVE  /\ Raised(w[q]) \in Commands
         /\ SoundAt(Raised(w[q]), request, pr', checked)
         /\ ~overlap => LoneAt(Raised(w[q]), request, pr')
  <1>1. w[q].pc \in Before \cup {"mirror"}
    BY DEF Before
  <1>2. /\ w[q] \in Commands /\ w[q].one \in Submissions /\ request[w[q].one] # None
        /\ \A s \in w[q].todo : request[s] # None
    BY Here DEF SoundAt
  <1>3. SoundAt(Raised(w[q]), request, pr', checked)
    BY <1>2, RaisedSound
  <1> QED BY <1>1, <1>3, RaisedHere

\* Post keeps the invariant.
LEMMA PostIInv ==
  ASSUME IInv, NEW q \in Workers, Post(q)
  PROVE  IInv'
  <1> DEFINE x == w[q]
  <1>1. /\ x.pc = "post"
        /\ UNCHANGED <<queue, branch, legacy, checked, overlap>> /\ faults' \in 0..MaxFaults
    BY DEF Post, IInv, Inv, TypeOK
  <1>2. CASE Openable(w[q].one)
    <2> DEFINE u == Recording(q, "pr-open")  v == [u EXCEPT !.pushed = FALSE]
    <2>1. Go(q, v) /\ pr' = [pr EXCEPT ![x.one] = "open"]
      BY <1>2 DEF Post, Kept
    <2>2. x \in Commands /\ SoundAt(x, request, pr, checked) /\ (~overlap => LoneAt(x, request, pr))
      BY Here
    <2>3. /\ u \in Commands /\ u.pc = "record" /\ u.verdict = "pr-open"
          /\ u.todo = x.todo /\ u.one = x.one /\ u.copy = x.copy /\ (u.fresh <=> x.fresh)
      <3>1. "pr-open" \in Statuses
        BY DEF Statuses
      <3> QED BY <2>2, <3>1, RecordingIs
    <2>4. pr \in [Submissions -> {"none", "open", "merged", "closed"}]
      BY DEF IInv, Inv, TypeOK
    <2>5. x.one \in Submissions
      BY <1>1, <2>2 DEF SoundAt
    <2>6. pr'[x.one] = "open"
      BY <2>1, <2>4, <2>5
    <2> HIDE DEF x, u
    <2>7. /\ v \in Commands /\ v.pc = "record" /\ v.verdict = "pr-open"
          /\ v.todo = x.todo /\ v.one = x.one /\ v.copy = x.copy /\ (v.fresh <=> x.fresh)
          /\ v.pushed = FALSE
      BY <2>3 DEF Commands
    <2> HIDE DEF v
    <2>8. SoundAt(v, request, pr', checked) /\ (~overlap => LoneAt(v, request, pr'))
      BY <1>1, <2>2, <2>6, <2>7 DEF SoundAt, LoneAt, Before
    <2>9. w[q].pc = "post" /\ pr' = [pr EXCEPT ![w[q].one] = "open"]
      BY <1>1, <2>1 DEF x
    <2> QED BY <1>1, <1>2, <2>1, <2>7, <2>8, <2>9, Opened
  <1>3. CASE ~Openable(w[q].one)
    <2>1. Go(q, Raised(w[q])) /\ UNCHANGED github
      BY <1>1, <1>3 DEF Post, github
    <2>2. w[q].pc \in Before \cup {"mirror"} /\ w[q].pc # "idle"
      BY <1>1 DEF Before
    <2> QED BY <1>1, <2>1, <2>2, RaisedHere, Internal
  <1> QED BY <1>2, <1>3

\* state.json follows, or does not.
LEMMA MirrorIInv ==
  ASSUME IInv, NEW q \in Workers, Mirror(q)
  PROVE  IInv'
  <1> DEFINE x == w[q]
             finished == x.copy = "pr-open" /\ x.error = "none"
             u == [x EXCEPT !.pc = "cleanup"]
             v == IF x.pushed \/ finished THEN u ELSE Concluded(x)
  <1>1. /\ x.pc = "mirror" /\ Go(q, v)
        /\ mirror' \in {mirror, [mirror EXCEPT ![x.one] = x.verdict]}
        /\ UNCHANGED <<request, index, admitting, github, legacy, checked, overlap>>
        /\ faults' \in 0..MaxFaults
    BY DEF Mirror, IInv, Inv, TypeOK
  <1>2. UNCHANGED <<branch, pr, upgrading, guided, drawn>>
    BY <1>1 DEF github, legacy
  <1>3. x \in Commands /\ SoundAt(x, request, pr, checked)
    BY Here
  <1>4. w[q].pc # "idle"
    BY <1>1
  <1>5. /\ x.one \in Submissions /\ request[x.one] # None
        /\ \A s \in x.todo : request[s] # None
        /\ x.verdict \in REPAIR_TERMINAL_STATUSES \cup {"pr-open"}
        /\ x.verdict \in REPAIR_TERMINAL_STATUSES => request[x.one] \in REPAIR_TERMINAL_STATUSES
        /\ x.verdict = "pr-open" => x.copy = "queued" /\ ~x.pushed
    BY <1>1, <1>3 DEF SoundAt
  <1> HIDE DEF x
  <1>6. /\ u \in Commands /\ u.pc = "cleanup" /\ u.todo = x.todo /\ u.one = x.one
        /\ u.verdict = x.verdict /\ u.error = x.error
    BY <1>3 DEF Commands, Pcs
  <1> HIDE DEF u
  <1>7. /\ v \in Commands /\ SoundAt(v, request, pr, checked)
        /\ ~overlap => LoneAt(v, request, pr)
    <2>1. CASE x.pushed \/ finished
      <3>1. request[x.one] # "pr-open"
        <4>1. x.verdict \in REPAIR_TERMINAL_STATUSES
          BY <1>5, <2>1
        <4> QED BY <1>5, <4>1 DEF REPAIR_TERMINAL_STATUSES
      <3>2. SoundAt(u, request, pr, checked) /\ LoneAt(u, request, pr)
        BY <1>5, <1>6, <3>1 DEF SoundAt, LoneAt, Before
      <3> QED BY <1>6, <2>1, <3>2
    <2>2. CASE ~(x.pushed \/ finished)
      <3>1. SoundAt(Concluded(x), request, pr, checked)
        BY <1>3, <1>5, ConcludedSound
      <3>2. Concluded(x) \in Commands /\ Concluded(x).pc \in {"next", "fail", "index"}
        BY <1>3, ConcludedIs
      <3>3. LoneAt(Concluded(x), request, pr)
        BY <3>2 DEF LoneAt, Before
      <3> QED BY <2>2, <3>1, <3>2, <3>3
    <2> QED BY <2>1, <2>2
  <1> HIDE DEF v
  <1>8. Grows
    BY <1>1, <1>2 DEF Grows, Ended
  <1>9. SoundAt(v, request', pr', checked') /\ (~overlap => LoneAt(v, request', pr'))
    BY <1>1, <1>2, <1>7
  <1>10. w' \in [Workers -> Commands] /\ Sound' /\ Alone'
    BY <1>1, <1>4, <1>7, <1>8, <1>9, MovedAlone
  <1>11. x.verdict \in Statuses /\ x.verdict # None
    <2>1. x.verdict \in Statuses
      BY <1>5 DEF Statuses
    <2> QED BY <2>1, RepairAssumption
  <1>12. mirror \in [Submissions -> Statuses \cup {None}]
    BY DEF IInv, Inv, TypeOK
  <1>13. /\ mirror' \in [Submissions -> Statuses \cup {None}]
         /\ \A s \in Submissions :
              mirror'[s] = mirror[s] \/ (s = x.one /\ mirror'[s] = x.verdict)
    BY <1>1, <1>5, <1>11, <1>12
  <1>14. TypeOK'
    BY <1>1, <1>2, <1>10, <1>13 DEF IInv, Inv, TypeOK
  <1>15. QueuedIsListed' /\ GuidanceStands' /\ RecordedIsReal'
    BY <1>1, <1>2 DEF IInv, Inv, QueuedIsListed, GuidanceStands, RecordedIsReal
  <1>16. MirrorIsBehind'
    BY <1>1, <1>5, <1>13 DEF IInv, Inv, MirrorIsBehind, Ended
  <1>17. Agree'
    BY <1>1, <1>2, <1>5, <1>11, <1>13 DEF IInv, Agree
  <1> QED BY <1>10, <1>14, <1>15, <1>16, <1>17 DEF IInv, Inv

\* The branch is removed, and its pull request closed, or they stay.
LEMMA CleanupIInv ==
  ASSUME IInv, NEW q \in Workers, Cleanup(q)
  PROVE  IInv'
  <1> DEFINE x == w[q]  u == [x EXCEPT !.pushed = FALSE]  v == Concluded(u)
  <1>1. /\ x.pc = "cleanup" /\ Go(q, v)
        /\ UNCHANGED <<queue, legacy, checked, overlap>> /\ faults' \in 0..MaxFaults
    BY DEF Cleanup, IInv, Inv, TypeOK
  <1>2. /\ UNCHANGED <<request, mirror, index, admitting>>
        /\ UNCHANGED <<upgrading, guided, drawn>>
    BY <1>1 DEF queue, legacy
  <1>3. \/ UNCHANGED <<branch, pr>>
        \/ /\ branch' = branch \ {x.one}
           /\ pr' = [pr EXCEPT ![x.one] = IF @ = "open" THEN "closed" ELSE @]
    BY DEF Cleanup, github
  <1>4. x \in Commands /\ SoundAt(x, request, pr, checked) /\ w[q].pc # "idle"
    BY <1>1, Here
  <1> HIDE DEF x
  <1>5. /\ x.one \in Submissions /\ request[x.one] # None
        /\ \A s \in x.todo : request[s] # None
        /\ x.error # "raised" /\ x.verdict \in REPAIR_TERMINAL_STATUSES
             => request[x.one] \in REPAIR_TERMINAL_STATUSES
    BY <1>1, <1>4 DEF SoundAt
  <1>6. /\ u \in Commands /\ u.todo = x.todo /\ u.one = x.one
        /\ u.verdict = x.verdict /\ u.error = x.error
    BY <1>4 DEF Commands
  <1> HIDE DEF u
  <1>7. v \in Commands /\ v.pc \in {"next", "fail", "index"}
    BY <1>6, ConcludedIs
  <1>8. SoundAt(v, request', pr', checked')
    BY <1>2, <1>5, <1>6, ConcludedSound
  <1> HIDE DEF v
  <1>9. LoneAt(v, request', pr')
    BY <1>7 DEF LoneAt, Before
  <1>10. pr \in [Submissions -> {"none", "open", "merged", "closed"}] /\ branch \subseteq Submissions
    BY DEF IInv, Inv, TypeOK
  <1>11. /\ pr' \in [Submissions -> {"none", "open", "merged", "closed"}]
         /\ \A s \in Submissions :
              pr'[s] = pr[s] \/ (s = x.one /\ pr[s] = "open" /\ pr'[s] = "closed")
         /\ \A s \in Submissions : s \in branch => s \in branch' \/ (s = x.one /\ pr'[s] # "open")
         /\ branch' \subseteq Submissions
    BY <1>3, <1>10
  <1>12. Grows
    BY <1>1, <1>2, <1>11 DEF Grows, Ended
  <1>13. w' \in [Workers -> Commands] /\ Sound' /\ Alone'
    BY <1>1, <1>2, <1>4, <1>7, <1>8, <1>9, <1>12, MovedAlone
  <1>14. TypeOK'
    BY <1>1, <1>2, <1>11, <1>13 DEF IInv, Inv, TypeOK
  <1>15. QueuedIsListed' /\ MirrorIsBehind' /\ GuidanceStands'
    BY <1>2 DEF IInv, Inv, QueuedIsListed, MirrorIsBehind, GuidanceStands, Ended
  <1>16. RecordedIsReal'
    BY <1>1, <1>2, <1>11 DEF IInv, RecordedIsReal
  <1>17. Agree'
    BY <1>2, <1>11 DEF IInv, Agree
  <1> QED BY <1>13, <1>14, <1>15, <1>16, <1>17 DEF IInv, Inv

\* What has ended leaves the queue.
LEMMA DropIInv ==
  ASSUME IInv, NEW q \in Workers, Drop(q)
  PROVE  IInv'
  <1>1. /\ w[q].pc = "drop"
        /\ UNCHANGED <<request, mirror, admitting, github, legacy, checked, overlap>>
        /\ faults' \in 0..MaxFaults
    BY DEF Drop, IInv, Inv, TypeOK
  <1>2. UNCHANGED <<branch, pr, upgrading, guided, drawn>>
    BY <1>1 DEF github, legacy
  <1>3. PICK v \in {Idle, Onward(q)} :
          Go(q, v) /\ index' \in {index, index \ ({w[q].one} \cap w[q].base)}
    BY DEF Drop
  <1>4. v \in Commands /\ SoundAt(v, request, pr, checked) /\ LoneAt(v, request, pr)
    BY IdleHere, OnwardHere
  <1>5. w[q].pc # "idle" /\ request[w[q].one] \in REPAIR_TERMINAL_STATUSES
    BY <1>1, Here DEF SoundAt
  <1>6. Grows
    BY <1>1, <1>2 DEF Grows, Ended
  <1>7. SoundAt(v, request', pr', checked') /\ LoneAt(v, request', pr')
    BY <1>1, <1>2, <1>4
  <1>8. w' \in [Workers -> Commands] /\ Sound' /\ Alone'
    BY <1>1, <1>3, <1>4, <1>5, <1>6, <1>7, MovedAlone
  <1>9. index' \subseteq index /\ \A s \in index \ {w[q].one} : s \in index'
    BY <1>3
  <1>10. TypeOK'
    BY <1>1, <1>2, <1>8, <1>9 DEF IInv, Inv, TypeOK
  <1>11. QueuedIsListed'
    BY <1>1, <1>5, <1>9 DEF IInv, Inv, QueuedIsListed, REPAIR_TERMINAL_STATUSES
  <1>12. MirrorIsBehind' /\ GuidanceStands' /\ RecordedIsReal'
    BY <1>1, <1>2 DEF IInv, Inv, MirrorIsBehind, GuidanceStands, RecordedIsReal, Ended
  <1>13. Agree'
    BY <1>1, <1>2, <1>9 DEF IInv, Agree
  <1> QED BY <1>8, <1>10, <1>11, <1>12, <1>13 DEF IInv, Inv

-----------------------------------------------------------------------------
\* repair.json is written: by a command that read what it replaces.  Those that read
\* it, too, will not write.
LEMMA Written ==
  ASSUME IInv, NEW q \in Workers, w[q].pc = "record", w[q].fresh,
         UNCHANGED <<mirror, index, admitting, github, legacy, checked, overlap>>,
         faults' \in 0..MaxFaults,
         NEW v \in Commands, WriteRequest(q, v),
         SoundAt(v, request', pr, checked),
         ~overlap => LoneAt(v, request', pr)
  PROVE  IInv'
  <1> DEFINE one == w[q].one  verdict == w[q].verdict
  <1>1. /\ UNCHANGED <<branch, pr, upgrading, guided, drawn>>
        /\ UNCHANGED <<mirror, index, admitting, checked, overlap>>
    BY DEF github, legacy
  <1>2. SoundAt(w[q], request, pr, checked) /\ (~overlap => LoneAt(w[q], request, pr))
    BY Here
  <1>3. /\ one \in Submissions /\ request[one] # None
        /\ verdict \in REPAIR_TERMINAL_STATUSES \cup {"pr-open"}
        /\ verdict = "pr-open" => request[one] = "queued" /\ pr[one] # "none"
        /\ verdict = "merged" => pr[one] = "merged"
        /\ verdict = "closed" /\ ~overlap => pr[one] = "closed"
    BY <1>2 DEF SoundAt, LoneAt, Before
  <1>4. verdict \in Statuses /\ verdict # None
    <2>1. verdict \in Statuses
      BY <1>3 DEF Statuses
    <2> QED BY <2>1, RepairAssumption
  <1>5. request \in [Submissions -> Statuses \cup {None}] /\ w \in [Workers -> Commands]
    BY DEF IInv, Inv, TypeOK
  <1>6. /\ request' = [request EXCEPT ![one] = verdict]
        /\ w' = [p \in Workers |->
                   IF p = q THEN v ELSE [w[p] EXCEPT !.fresh = w[p].fresh /\ w[p].one # one]]
    BY DEF WriteRequest
  <1> HIDE DEF one, verdict
  <1>7. /\ request' \in [Submissions -> Statuses \cup {None}]
        /\ request'[one] = verdict /\ \A s \in Submissions \ {one} : request'[s] = request[s]
    BY <1>3, <1>4, <1>5, <1>6
  <1>8. Grows
    BY <1>1, <1>3, <1>4, <1>7 DEF Grows, Ended, REPAIR_TERMINAL_STATUSES
  <1>9. w'[q] = v
    BY <1>6
  <1>10. ASSUME NEW p \in Workers \ {q}
         PROVE  /\ w'[p] \in Commands /\ w'[p].pc = w[p].pc
                /\ SoundAt(w[p], request, pr, checked)'
    <2> DEFINE f == w[p].fresh /\ w[p].one # one
    <2>1. w'[p] = [w[p] EXCEPT !.fresh = f] /\ w[p] \in Commands
      BY <1>5, <1>6
    <2>2. f \in BOOLEAN /\ (f => w[p].fresh /\ w[p].one # one)
      OBVIOUS
    <2> HIDE DEF f
    <2>3. w'[p] \in Commands /\ w'[p].pc = w[p].pc /\ w'[p].fresh = f
      BY <2>1, <2>2 DEF Commands
    <2>4. w'[p] = [w[p] EXCEPT !.fresh = w'[p].fresh]
      BY <2>1, <2>3
    <2>5. w'[p].fresh => w[p].fresh
      BY <2>2, <2>3
    <2>6. w'[p].fresh /\ w[p].one \in Submissions /\ request[w[p].one] # None
             => request'[w[p].one] = request[w[p].one]
      BY <1>7, <2>2, <2>3
    <2> QED BY <1>8, <2>3, <2>4, <2>5, <2>6, OthersStay
  <1>11. SoundAt(w[q], request, pr, checked)'
    BY <1>1, <1>9
  <1>12. Sound'
    BY <1>10, <1>11 DEF Sound
  <1>13. w' \in [Workers -> Commands]
    <2>1. \A p \in Workers : w'[p] \in Commands
      BY <1>9, <1>10
    <2>2. w' = [p \in Workers |-> w'[p]]
      BY <1>6
    <2> QED BY <2>1, <2>2
  <1>14. Alone'
    <2>1. ~overlap => LoneAt(w[q], request, pr)'
      BY <1>1, <1>9
    <2> QED BY <1>1, <1>10, <2>1, AloneStays
  <1>15. TypeOK'
    BY <1>1, <1>7, <1>13 DEF IInv, Inv, TypeOK
  <1>16. QueuedIsListed'
    BY <1>1, <1>3, <1>7 DEF IInv, Inv, QueuedIsListed, REPAIR_TERMINAL_STATUSES
  <1>17. MirrorIsBehind'
    BY <1>1, <1>8 DEF IInv, Inv, MirrorIsBehind, Grows
  <1>18. GuidanceStands' /\ Agree'
    BY <1>1, <1>3, <1>4, <1>7 DEF IInv, Inv, GuidanceStands, Agree
  <1>19. RecordedIsReal'
    BY <1>1, <1>3, <1>7 DEF IInv, RecordedIsReal
  <1> QED BY <1>12, <1>14, <1>15, <1>16, <1>17, <1>18, <1>19 DEF IInv, Inv

\* What repair.json says once it is written, for the command that writes it.
LEMMA WrittenIs ==
  ASSUME IInv, NEW q \in Workers, w[q].pc = "record",
         request' = [request EXCEPT ![w[q].one] = w[q].verdict]
  PROVE  /\ w[q].one \in Submissions
         /\ request'[w[q].one] = w[q].verdict /\ w[q].verdict # None
         /\ \A s \in w[q].todo : request'[s] # None
  <1>1. w[q] \in Commands /\ SoundAt(w[q], request, pr, checked)
    BY Here
  <1>2. /\ w[q].one \in Submissions
        /\ w[q].verdict \in REPAIR_TERMINAL_STATUSES \cup {"pr-open"}
        /\ \A s \in w[q].todo : s \in Submissions /\ request[s] # None
    BY <1>1 DEF SoundAt, Commands
  <1>3. w[q].verdict \in Statuses /\ w[q].verdict # None
    <2>1. w[q].verdict \in Statuses
      BY <1>2 DEF Statuses
    <2> QED BY <2>1, RepairAssumption
  <1>4. request \in [Submissions -> Statuses \cup {None}]
    BY DEF IInv, Inv, TypeOK
  <1> QED BY <1>2, <1>3, <1>4

\* Record keeps the invariant.
LEMMA RecordIInv ==
  ASSUME IInv, NEW q \in Workers, Record(q)
  PROVE  IInv'
  <1> DEFINE x == w[q]  v == [x EXCEPT !.pc = "mirror"]
  <1>1. /\ w[q].pc = "record"
        /\ UNCHANGED <<mirror, index, admitting, github, legacy, checked, overlap>>
        /\ faults' \in 0..MaxFaults
    BY DEF Record, IInv, Inv, TypeOK
  <1>2. CASE w[q].fresh
    <2>1. WriteRequest(q, v)
      BY <1>2 DEF Record
    <2>2. /\ x.one \in Submissions /\ request'[x.one] = x.verdict /\ x.verdict # None
          /\ \A s \in x.todo : request'[s] # None
      BY <1>1, <2>1, WrittenIs DEF WriteRequest
    <2>3. x \in Commands /\ SoundAt(x, request, pr, checked) /\ x.pc = "record"
      BY <1>1, Here
    <2> HIDE DEF x
    <2>4. /\ v \in Commands /\ v.pc = "mirror" /\ v.todo = x.todo /\ v.one = x.one
          /\ v.copy = x.copy /\ v.verdict = x.verdict /\ (v.pushed <=> x.pushed)
      BY <2>3 DEF Commands, Pcs
    <2> HIDE DEF v
    <2>5. SoundAt(v, request', pr, checked) /\ LoneAt(v, request', pr)
      BY <2>2, <2>3, <2>4 DEF SoundAt, LoneAt, Before
    <2> QED BY <1>1, <1>2, <2>1, <2>4, <2>5, Written
  <1>3. CASE ~w[q].fresh
    <2>1. Go(q, Raised(w[q])) /\ UNCHANGED queue
      BY <1>1, <1>3 DEF Record, queue
    <2>2. w[q].pc \in Before \cup {"mirror"} /\ w[q].pc # "idle"
      BY <1>1 DEF Before
    <2> QED BY <1>1, <2>1, <2>2, RaisedHere, Internal
  <1> QED BY <1>2, <1>3

\* The answer to a write, or to the opening of a pull request, is lost.
LEMMA LoseAnswerIInv ==
  ASSUME IInv, NEW q \in Workers, LoseAnswer(q)
  PROVE  IInv'
  <1> DEFINE x == w[q]  y == Raised(x)
  <1>1. /\ UNCHANGED <<mirror, index, admitting, branch, legacy, checked, overlap>>
        /\ faults' \in 0..MaxFaults
    <2>1. faults \in 0..MaxFaults /\ faults < MaxFaults /\ faults' = faults + 1
      BY DEF LoseAnswer, Fault, IInv, Inv, TypeOK
    <2>2. faults' \in 0..MaxFaults
      BY <2>1, RepairAssumption
    <2> QED BY <2>2 DEF LoseAnswer
  <1>2. CASE /\ w[q].pc = "post" /\ Openable(w[q].one)
             /\ Go(q, Raised(w[q])) /\ pr' = [pr EXCEPT ![w[q].one] = "open"]
             /\ UNCHANGED request
    <2>1. UNCHANGED queue
      BY <1>1, <1>2 DEF queue
    <2>2. /\ Raised(w[q]) \in Commands
          /\ SoundAt(Raised(w[q]), request, pr', checked)
          /\ ~overlap => LoneAt(Raised(w[q]), request, pr')
      BY <1>2, RaisedAtPost
    <2> QED BY <1>1, <1>2, <2>1, <2>2, Opened
  <1>3. CASE /\ w[q].pc = "record" /\ w[q].fresh
             /\ WriteRequest(q, Raised(w[q]))
             /\ UNCHANGED pr
    <2>1. UNCHANGED github
      BY <1>1, <1>3 DEF github
    <2>2. /\ x.one \in Submissions /\ request'[x.one] = x.verdict /\ x.verdict # None
          /\ \A s \in x.todo : request'[s] # None
      BY <1>3, WrittenIs DEF WriteRequest
    <2>3. x \in Commands /\ SoundAt(x, request, pr, checked) /\ x.pc = "record"
      BY <1>3, Here
    <2> HIDE DEF x
    <2>4. /\ y \in Commands /\ y.pc \in {"next", "cleanup", "fail"}
          /\ y.pc # "next" => y.one = x.one
          /\ y.pc = "cleanup" => x.pushed
      BY <2>3, RaisedIs
    <2>5. SoundAt(y, request', pr, checked)
      BY <2>2, <2>3, RaisedSound
    <2> HIDE DEF y
    <2>6. LoneAt(y, request', pr)
      <3>1. x.pushed => x.verdict # "pr-open"
        BY <2>3 DEF SoundAt
      <3> QED BY <2>2, <2>4, <3>1 DEF LoneAt, Before
    <2>7. WriteRequest(q, y) /\ w[q].pc = "record" /\ w[q].fresh
      BY <1>3 DEF x, y
    <2> QED BY <1>1, <2>1, <2>4, <2>5, <2>6, <2>7, Written
  <1> QED BY <1>2, <1>3 DEF LoseAnswer

-----------------------------------------------------------------------------
\* A step of the world leaves the commands where they are.
LEMMA WorldMoves ==
  ASSUME IInv, Grows, UNCHANGED <<w, overlap>>,
         \A s \in Submissions : request[s] # None => request'[s] = request[s],
         \A s \in Submissions : pr'[s] = pr[s] \/ pr[s] = "open"
  PROVE  w' \in [Workers -> Commands] /\ Sound' /\ Alone'
  <1>1. w \in [Workers -> Commands]
    BY DEF IInv, Inv, TypeOK
  <1>2. ASSUME NEW p \in Workers PROVE SoundAt(w[p], request, pr, checked)'
    <2>1. w'[p] = w[p] /\ w[p] \in Commands
      BY <1>1
    <2>2. w[p] = [w[p] EXCEPT !.fresh = w[p].fresh]
      BY <2>1 DEF Commands
    <2> QED BY <2>1, <2>2, OthersStay
  <1>3. ASSUME NEW p \in Workers, ~overlap PROVE LoneAt(w[p], request, pr)'
    <2>1. SoundAt(w[p], request, pr, checked) /\ LoneAt(w[p], request, pr)
      BY <1>3, Here
    <2>2. \/ w[p].pc \in {"idle", "next"}
          \/ w[p].one \in Submissions /\ request[w[p].one] # None
      BY <2>1 DEF SoundAt
    <2>3. LoneAt(w[p], request', pr')
      BY <2>1, <2>2 DEF LoneAt, Before
    <2> QED BY <2>3
  <1>4. Alone'
    <2> SUFFICES ASSUME ~overlap PROVE Alone'
      BY DEF Alone
    <2> QED BY <1>3 DEF IInv, Alone
  <1> QED BY <1>1, <1>2, <1>4 DEF Sound

\* The server takes a request.
LEMMA AskIInv ==
  ASSUME IInv, NEW s \in Submissions, Ask(s)
  PROVE  IInv'
  <1>1. /\ request[s] = None
        /\ request' = [request EXCEPT ![s] = "queued"] /\ mirror' = [mirror EXCEPT ![s] = "queued"]
        /\ admitting' = admitting \cup {s} /\ drawn' = drawn \cup (guided \cap {s})
        /\ UNCHANGED <<index, branch, pr, upgrading, guided, w, faults, checked, overlap>>
    BY DEF Ask, github
  <1>2. /\ request \in [Submissions -> Statuses \cup {None}]
        /\ mirror \in [Submissions -> Statuses \cup {None}]
    BY DEF IInv, Inv, TypeOK
  <1>3. "queued" \in Statuses /\ "queued" # None /\ "queued" \notin REPAIR_TERMINAL_STATUSES
    <2>1. "queued" \in Statuses /\ "queued" \notin REPAIR_TERMINAL_STATUSES
      BY DEF Statuses, REPAIR_TERMINAL_STATUSES
    <2> QED BY <2>1, RepairAssumption
  <1>4. None \notin REPAIR_TERMINAL_STATUSES
    BY RepairAssumption DEF Statuses
  <1>5. /\ request' \in [Submissions -> Statuses \cup {None}]
        /\ mirror' \in [Submissions -> Statuses \cup {None}]
        /\ request'[s] = "queued" /\ mirror'[s] = "queued"
        /\ \A t \in Submissions \ {s} : request'[t] = request[t] /\ mirror'[t] = mirror[t]
    BY <1>1, <1>2, <1>3
  <1>6. Grows
    BY <1>1, <1>3, <1>4, <1>5 DEF Grows, Ended
  <1>7. w' \in [Workers -> Commands] /\ Sound' /\ Alone'
    BY <1>1, <1>5, <1>6, WorldMoves
  <1>8. TypeOK'
    BY <1>1, <1>5, <1>7 DEF IInv, Inv, TypeOK
  <1>9. QueuedIsListed'
    BY <1>1, <1>5 DEF IInv, Inv, QueuedIsListed
  <1>10. MirrorIsBehind'
    BY <1>1, <1>3, <1>5 DEF IInv, Inv, MirrorIsBehind, Ended
  <1>11. GuidanceStands'
    BY <1>1, <1>5 DEF IInv, Inv, GuidanceStands, Agree
  <1>12. RecordedIsReal'
    BY <1>1, <1>5 DEF IInv, RecordedIsReal
  <1>13. Agree'
    BY <1>1, <1>3, <1>5 DEF IInv, Agree
  <1> QED BY <1>7, <1>8, <1>9, <1>10, <1>11, <1>12, <1>13 DEF IInv, Inv

\* It lists what it took.
LEMMA ListIInv ==
  ASSUME IInv, NEW s \in Submissions, List(s)
  PROVE  IInv'
  <1>1. /\ s \in admitting /\ index' = index \cup {s} /\ admitting' = admitting \ {s}
        /\ UNCHANGED <<request, mirror, branch, pr, upgrading, guided, drawn>>
        /\ UNCHANGED <<w, faults, checked, overlap>>
    BY DEF List, github, legacy
  <1>2. Grows
    BY <1>1 DEF Grows, Ended
  <1>3. w' \in [Workers -> Commands] /\ Sound' /\ Alone'
    BY <1>1, <1>2, WorldMoves
  <1>4. TypeOK'
    BY <1>1, <1>3 DEF IInv, Inv, TypeOK
  <1>5. QueuedIsListed' /\ Agree'
    BY <1>1 DEF IInv, Inv, QueuedIsListed, Agree
  <1>6. MirrorIsBehind' /\ GuidanceStands' /\ RecordedIsReal'
    BY <1>1 DEF IInv, Inv, MirrorIsBehind, GuidanceStands, RecordedIsReal, Ended
  <1> QED BY <1>3, <1>4, <1>5, <1>6 DEF IInv, Inv

\* The submitter merges or closes the pull request.
LEMMA DecideIInv ==
  ASSUME IInv, NEW s \in Submissions, Decide(s)
  PROVE  IInv'
  <1>1. PICK end \in {"merged", "closed"} : pr' = [pr EXCEPT ![s] = end]
    BY DEF Decide
  <1>2. /\ pr[s] = "open"
        /\ UNCHANGED <<request, mirror, index, admitting, branch, upgrading, guided, drawn>>
        /\ UNCHANGED <<w, faults, checked, overlap>>
    BY DEF Decide, queue, legacy
  <1>3. pr \in [Submissions -> {"none", "open", "merged", "closed"}]
    BY DEF IInv, Inv, TypeOK
  <1>4. /\ pr' \in [Submissions -> {"none", "open", "merged", "closed"}]
        /\ pr'[s] = end /\ \A t \in Submissions \ {s} : pr'[t] = pr[t]
    BY <1>1, <1>3
  <1>5. Grows
    BY <1>2, <1>4 DEF Grows, Ended
  <1>6. w' \in [Workers -> Commands] /\ Sound' /\ Alone'
    BY <1>2, <1>4, <1>5, WorldMoves
  <1>7. TypeOK'
    BY <1>2, <1>4, <1>6 DEF IInv, Inv, TypeOK
  <1>8. QueuedIsListed' /\ MirrorIsBehind' /\ GuidanceStands'
    BY <1>2 DEF IInv, Inv, QueuedIsListed, MirrorIsBehind, GuidanceStands, Ended
  <1>9. RecordedIsReal' /\ Agree'
    BY <1>2, <1>4 DEF IInv, RecordedIsReal, Agree
  <1> QED BY <1>6, <1>7, <1>8, <1>9 DEF IInv, Inv

\* An upgrade reads a failure, and writes another if nothing was asked meanwhile.
LEMMA UpgradeIInv ==
  ASSUME IInv, NEW s \in Submissions, BeginUpgrade(s) \/ Upgrade(s)
  PROVE  IInv'
  <1>1. /\ UNCHANGED <<request, mirror, index, admitting, branch, pr, drawn>>
        /\ UNCHANGED <<w, faults, checked, overlap>>
    BY DEF BeginUpgrade, Upgrade, queue, github
  <1>2. /\ upgrading' \subseteq upgrading \cup {s}
        /\ guided' = guided \/ (mirror[s] = None /\ guided' = guided \cup {s})
    BY DEF BeginUpgrade, Upgrade
  <1>3. Grows
    BY <1>1 DEF Grows, Ended
  <1>4. w' \in [Workers -> Commands] /\ Sound' /\ Alone'
    BY <1>1, <1>3, WorldMoves
  <1>5. TypeOK'
    BY <1>1, <1>2, <1>4 DEF IInv, Inv, TypeOK
  <1>6. QueuedIsListed' /\ MirrorIsBehind' /\ RecordedIsReal' /\ Agree'
    BY <1>1 DEF IInv, Inv, QueuedIsListed, MirrorIsBehind, RecordedIsReal, Agree, Ended
  <1>7. GuidanceStands'
    BY <1>1, <1>2 DEF IInv, Inv, GuidanceStands, Agree
  <1> QED BY <1>4, <1>5, <1>6, <1>7 DEF IInv, Inv

-----------------------------------------------------------------------------
\* Every step keeps the invariant.
LEMMA NextIInv == IInv /\ [Next]_vars => IInv'
  <1> SUFFICES ASSUME IInv, [Next]_vars PROVE IInv'
    OBVIOUS
  <1>1. ASSUME NEW q \in Workers, Begin(q) \/ Step(q) \/ Crash(q) \/ Raise(q) \/ LoseAnswer(q)
        PROVE  IInv'
    <2>1. CASE Step(q)
      BY <2>1, TakeIInv, CheckIInv, PrepareIInv, PreflightIInv, ExistingIInv, PostIInv,
         RecordIInv, MirrorIInv, CleanupIInv, FailIInv, ReadIndexIInv, DropIInv DEF Step
    <2> QED BY <1>1, <2>1, BeginIInv, CrashIInv, RaiseIInv, LoseAnswerIInv
  <1>2. ASSUME NEW s \in Submissions,
               Ask(s) \/ List(s) \/ Decide(s) \/ BeginUpgrade(s) \/ Upgrade(s)
        PROVE  IInv'
    BY <1>2, AskIInv, ListIInv, DecideIInv, UpgradeIInv
  <1>3. CASE UNCHANGED vars
    <2>1. /\ UNCHANGED <<request, mirror, index, admitting, branch, pr>>
          /\ UNCHANGED <<upgrading, guided, drawn, w, faults, checked, overlap>>
      BY <1>3 DEF vars, queue, github, legacy
    <2>2. Inv'
      BY <2>1 DEF IInv, Inv, TypeOK, QueuedIsListed, MirrorIsBehind, GuidanceStands, Ended
    <2>3. RecordedIsReal' /\ Agree'
      BY <2>1 DEF IInv, RecordedIsReal, Agree
    <2>4. Sound' /\ Alone'
      BY <2>1 DEF IInv, Sound, Alone
    <2> QED BY <2>2, <2>3, <2>4 DEF IInv
  <1> QED BY <1>1, <1>2, <1>3 DEF Next

\* The invariant the properties rest on: the files agree, and each command knows of
\* them what it needs where it stands.
THEOREM Invariance == Spec => []IInv
  BY InitIInv, NextIInv, PTL DEF Spec

\* The files of a request agree, whoever dies, fails or overlaps: what goes on is
\* queued, what the submission says has ended has, and the guidance of a request is
\* not replaced.
THEOREM FilesAgree == Spec => []Inv
  <1>1. IInv => Inv
    BY DEF IInv
  <1> QED BY <1>1, Invariance, PTL

\* A pull request is only opened for a candidate that passed preflight, and what is
\* recorded of one is what became of it.
THEOREM RecordsAreReal == Spec => []RecordedIsReal
  <1>1. IInv => RecordedIsReal
    BY DEF IInv
  <1> QED BY <1>1, Invariance, PTL

\* What a step does to repair.json.
LEMMA RequestStep ==
  ASSUME [Next]_vars
  PROVE  \/ UNCHANGED request
         \/ \E q \in Workers : /\ w[q].pc = "record" /\ w[q].fresh
                               /\ request' = [request EXCEPT ![w[q].one] = w[q].verdict]
         \/ \E s \in Submissions : /\ request[s] = None
                                   /\ request' = [request EXCEPT ![s] = "queued"]
  <1>1. CASE UNCHANGED vars
    BY <1>1 DEF vars, queue
  <1>2. ASSUME NEW q \in Workers, Record(q) \/ LoseAnswer(q)
        PROVE  \/ UNCHANGED request
               \/ /\ w[q].pc = "record" /\ w[q].fresh
                  /\ request' = [request EXCEPT ![w[q].one] = w[q].verdict]
    BY <1>2 DEF Record, LoseAnswer, WriteRequest
  <1>3. ASSUME NEW q \in Workers, Begin(q) \/ Crash(q) \/ Raise(q)
        PROVE  UNCHANGED request
    BY <1>3 DEF Begin, Crash, Raise, queue
  <1>4. ASSUME NEW q \in Workers, Step(q), ~Record(q)
        PROVE  UNCHANGED request
    BY <1>4 DEF Step, Take, Check, Prepare, Preflight, Existing, Post, Mirror, Cleanup,
                Fail, ReadIndex, Drop, queue
  <1>5. ASSUME NEW s \in Submissions, Ask(s)
        PROVE  request[s] = None /\ request' = [request EXCEPT ![s] = "queued"]
    BY <1>5 DEF Ask
  <1>6. ASSUME NEW s \in Submissions, List(s) \/ Decide(s) \/ BeginUpgrade(s) \/ Upgrade(s)
        PROVE  UNCHANGED request
    BY <1>6 DEF List, Decide, BeginUpgrade, Upgrade, queue
  <1> QED BY <1>1, <1>2, <1>3, <1>4, <1>5, <1>6 DEF Next

\* A request that has ended is not taken up again, by a command that read it before,
\* or whose answer was lost.
THEOREM EndedForEver == Spec => EndedStays
  <1>1. ASSUME IInv, [Next]_vars, NEW s \in Submissions, Ended(s)
        PROVE  Ended(s)'
    <2>1. request \in [Submissions -> Statuses \cup {None}] /\ None \notin REPAIR_TERMINAL_STATUSES
      BY <1>1, RepairAssumption DEF IInv, Inv, TypeOK, Statuses
    <2>2. CASE UNCHANGED request
      BY <1>1, <2>2 DEF Ended
    <2>3. ASSUME NEW q \in Workers, w[q].pc = "record", w[q].fresh,
                 request' = [request EXCEPT ![w[q].one] = w[q].verdict]
          PROVE  Ended(s)'
      <3>1. SoundAt(w[q], request, pr, checked)
        BY <1>1, Here
      <3>2. /\ w[q].verdict \in REPAIR_TERMINAL_STATUSES \cup {"pr-open"}
            /\ w[q].verdict = "pr-open" => request[w[q].one] = "queued"
        BY <2>3, <3>1 DEF SoundAt, Before
      <3>3. "queued" \notin REPAIR_TERMINAL_STATUSES
        BY DEF REPAIR_TERMINAL_STATUSES
      <3> QED BY <1>1, <2>1, <2>3, <3>2, <3>3 DEF Ended
    <2>4. ASSUME NEW t \in Submissions, request[t] = None,
                 request' = [request EXCEPT ![t] = "queued"]
          PROVE  Ended(s)'
      BY <1>1, <2>1, <2>4 DEF Ended
    <2> QED BY <1>1, <2>2, <2>3, <2>4, RequestStep
  <1>2. IInv /\ [Next]_vars => [\A s \in Submissions : Ended(s) => Ended(s)']_vars
    BY <1>1
  <1> QED BY <1>2, Invariance, PTL DEF Spec, EndedStays

\* What a step does at GitHub.
LEMMA GithubStep ==
  ASSUME [Next]_vars
  PROVE  \/ UNCHANGED pr /\ branch \subseteq branch'
         \/ \E q \in Workers : /\ w[q].pc = "post" /\ UNCHANGED branch
                               /\ pr' = [pr EXCEPT ![w[q].one] = "open"]
         \/ \E q \in Workers :
              /\ w[q].pc = "cleanup" /\ branch' = branch \ {w[q].one}
              /\ pr' = [pr EXCEPT ![w[q].one] = IF @ = "open" THEN "closed" ELSE @]
         \/ \E s \in Submissions, end \in {"merged", "closed"} :
              pr[s] = "open" /\ pr' = [pr EXCEPT ![s] = end] /\ UNCHANGED branch
  <1>1. CASE UNCHANGED vars
    BY <1>1 DEF vars, github
  <1>2. ASSUME NEW q \in Workers, Prepare(q)
        PROVE  UNCHANGED pr /\ branch \subseteq branch'
    BY <1>2 DEF Prepare
  <1>3. ASSUME NEW q \in Workers, Post(q) \/ LoseAnswer(q)
        PROVE  \/ UNCHANGED <<branch, pr>>
               \/ /\ w[q].pc = "post" /\ UNCHANGED branch
                  /\ pr' = [pr EXCEPT ![w[q].one] = "open"]
    BY <1>3 DEF Post, LoseAnswer
  <1>4. ASSUME NEW q \in Workers, Cleanup(q)
        PROVE  \/ UNCHANGED <<branch, pr>>
               \/ /\ w[q].pc = "cleanup" /\ branch' = branch \ {w[q].one}
                  /\ pr' = [pr EXCEPT ![w[q].one] = IF @ = "open" THEN "closed" ELSE @]
    BY <1>4 DEF Cleanup, github
  <1>5. ASSUME NEW q \in Workers, Begin(q) \/ Crash(q) \/ Raise(q)
        PROVE  UNCHANGED <<branch, pr>>
    BY <1>5 DEF Begin, Crash, Raise, github
  <1>6. ASSUME NEW q \in Workers, Step(q), ~Prepare(q), ~Post(q), ~Cleanup(q)
        PROVE  UNCHANGED <<branch, pr>>
    BY <1>6 DEF Step, Take, Check, Preflight, Existing, Record, Mirror, Fail, ReadIndex,
                Drop, github
  <1>7. ASSUME NEW s \in Submissions, Decide(s)
        PROVE  \E end \in {"merged", "closed"} :
                 pr[s] = "open" /\ pr' = [pr EXCEPT ![s] = end] /\ UNCHANGED branch
    BY <1>7 DEF Decide
  <1>8. ASSUME NEW s \in Submissions, Ask(s) \/ List(s) \/ BeginUpgrade(s) \/ Upgrade(s)
        PROVE  UNCHANGED <<branch, pr>>
    BY <1>8 DEF Ask, List, BeginUpgrade, Upgrade, github
  <1>9. \/ UNCHANGED vars
        \/ \E q \in Workers : \/ Prepare(q) \/ Post(q) \/ LoseAnswer(q) \/ Cleanup(q)
                              \/ Begin(q) \/ Crash(q) \/ Raise(q)
                              \/ (Step(q) /\ ~Prepare(q) /\ ~Post(q) /\ ~Cleanup(q))
        \/ \E s \in Submissions : \/ Decide(s) \/ Ask(s) \/ List(s)
                                  \/ BeginUpgrade(s) \/ Upgrade(s)
    BY DEF Next
  <1>10. UNCHANGED <<branch, pr>> => UNCHANGED pr /\ branch \subseteq branch'
    OBVIOUS
  <1> QED BY <1>1, <1>2, <1>3, <1>4, <1>5, <1>6, <1>7, <1>8, <1>9, <1>10

\* Commands that have overlapped have overlapped.
LEMMA OverlapStays ==
  ASSUME [Next]_vars, ~overlap'
  PROVE  ~overlap
  <1>1. CASE UNCHANGED vars
    BY <1>1 DEF vars
  <1>2. ASSUME NEW q \in Workers, Begin(q) PROVE ~overlap
    BY <1>2 DEF Begin
  <1>3. ASSUME NEW q \in Workers, Crash(q) \/ Raise(q) \/ LoseAnswer(q) PROVE ~overlap
    BY <1>3 DEF Crash, Raise, LoseAnswer
  <1>4. ASSUME NEW q \in Workers, Step(q) PROVE ~overlap
    BY <1>4 DEF Step, Take, Check, Prepare, Preflight, Existing, Post, Record, Mirror,
                Cleanup, Fail, ReadIndex, Drop
  <1>5. ASSUME NEW s \in Submissions,
               Ask(s) \/ List(s) \/ Decide(s) \/ BeginUpgrade(s) \/ Upgrade(s)
        PROVE  ~overlap
    BY <1>5 DEF Ask, List, Decide, BeginUpgrade, Upgrade
  <1> QED BY <1>1, <1>2, <1>3, <1>4, <1>5 DEF Next

\* While commands do not overlap: what became of a pull request stands, none is
\* opened anew, and its branch stays while it is open and recorded.
THEOREM PullRequestForEver == Spec => PullRequestStands
  <1>1. ASSUME IInv, [Next]_vars, ~overlap', NEW s \in Submissions
        PROVE  /\ pr[s] \in {"merged", "closed"} => pr'[s] = pr[s]
               /\ request[s] = "pr-open" /\ pr[s] = "open" => s \in branch'
    <2>1. /\ pr \in [Submissions -> {"none", "open", "merged", "closed"}]
          /\ pr[s] = "open" => s \in branch
      BY <1>1 DEF IInv, Inv, TypeOK, Agree
    <2>2. ~overlap
      BY <1>1, OverlapStays
    <2>3. CASE UNCHANGED pr /\ branch \subseteq branch'
      BY <2>1, <2>3
    <2>4. ASSUME NEW q \in Workers, w[q].pc = "post", UNCHANGED branch,
                 pr' = [pr EXCEPT ![w[q].one] = "open"]
          PROVE  /\ pr[s] \in {"merged", "closed"} => pr'[s] = pr[s]
                 /\ request[s] = "pr-open" /\ pr[s] = "open" => s \in branch'
      <3>1. pr[w[q].one] = "none"
        BY <1>1, <2>2, <2>4, Here DEF LoneAt
      <3> QED BY <2>1, <2>4, <3>1
    <2>5. ASSUME NEW q \in Workers, w[q].pc = "cleanup", branch' = branch \ {w[q].one},
                 pr' = [pr EXCEPT ![w[q].one] = IF @ = "open" THEN "closed" ELSE @]
          PROVE  /\ pr[s] \in {"merged", "closed"} => pr'[s] = pr[s]
                 /\ request[s] = "pr-open" /\ pr[s] = "open" => s \in branch'
      <3>1. request[w[q].one] # "pr-open"
        BY <1>1, <2>2, <2>5, Here DEF LoneAt
      <3> QED BY <2>1, <2>5, <3>1
    <2>6. ASSUME NEW t \in Submissions, NEW end \in {"merged", "closed"}, pr[t] = "open",
                 pr' = [pr EXCEPT ![t] = end], UNCHANGED branch
          PROVE  /\ pr[s] \in {"merged", "closed"} => pr'[s] = pr[s]
                 /\ request[s] = "pr-open" /\ pr[s] = "open" => s \in branch'
      BY <2>1, <2>6
    <2> QED BY <1>1, <2>3, <2>4, <2>5, <2>6, GithubStep
  <1>2. IInv /\ [Next]_vars => [~overlap' => \A s \in Submissions :
           /\ pr[s] \in {"merged", "closed"} => pr'[s] = pr[s]
           /\ request[s] = "pr-open" /\ pr[s] = "open" => s \in branch']_vars
    BY <1>1
  <1> QED BY <1>2, Invariance, PTL DEF Spec, PullRequestStands
=============================================================================
