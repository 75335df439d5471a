--------------------------- MODULE OpenQueueProofs ---------------------------
(***************************************************************************)
(* No unfinished submission is lost from the queue, whatever number of     *)
(* commands scan, rebuild and requeue at the same time, and whatever dies  *)
(* or fails; and what a sweep may rely on when it says that it succeeded.  *)
(***************************************************************************)
EXTENDS OpenQueue, TLAPS

\* What a command x knows wherever it stands, in terms of the records r.
SoundAt(x, r) ==
    /\ \A s \in x.base \cup x.ids \cup x.todo \cup x.kept : r[s].status # "absent"
    /\ x.job = "requeue" => x.one \in Submissions /\ r[x.one].status # "absent"
    /\ x.job = "ingest" => \A s \in x.live : r[s].status = "reporting"
    /\ x.job = "pass" => x.work = {}
    /\ x.pc = "scan" => x.job \in {"pass", "ingest", "notify"}
    /\ x.pc = "ingest" => x.job = "ingest"
    /\ x.pc \in {"notify", "send", "record"} => x.job = "notify"
    /\ x.pc \in {"send", "record"} => x.one \in Submissions
    /\ x.pc \in {"open", "enqueue", "requeue"} => x.job = "requeue"
    /\ x.pc \in {"enqueue", "readback"} /\ ~x.new => x.ids = x.base

\* HoldsWithout, of a command x.
HoldsAt(x, s) ==
    \/ x.pc = "rebuild" /\ s \notin x.ids
    \/ x.pc = "enqueue" /\ x.new /\ s \notin x.ids \cup {x.one}
    \/ x.pc = "scan" /\ s \notin x.todo \cup x.kept

\* A queue without an unfinished submission was derived before that was listed: its
\* write would not pass while it is.
HeldAt(x, s) == HoldsAt(x, s) => s \in slipped \/ s \notin x.base

Sound == \A q \in Workers : SoundAt(w[q], record)
Held == \A q \in Workers, s \in Unfinished : HeldAt(w[q], s)

\* What is listed, or about to be, exists.
ListedExists == \A s \in index.open \cup admitting : record[s].status # "absent"

IInv == TypeOK /\ UnfinishedIsListed /\ ListedExists /\ Sound /\ Held

-----------------------------------------------------------------------------
\* What the invariant says of the command q.
LEMMA Here ==
  ASSUME IInv, NEW q \in Workers
  PROVE  /\ w \in [Workers -> Commands] /\ w[q] \in Commands
         /\ SoundAt(w[q], record)
         /\ \A s \in Unfinished : HeldAt(w[q], s)
  BY DEF IInv, TypeOK, Sound, Held

\* HoldsAt is HoldsWithout.
LEMMA HoldsIs ==
  ASSUME NEW q \in Workers, NEW s
  PROVE  HoldsWithout(q, s) <=> HoldsAt(w[q], s)
  BY DEF HoldsWithout, HoldsAt

\* A command that does not move forgets at most records and the dates of the index:
\* what it knows, and what it holds, stays.
LEMMA Stays ==
  ASSUME IInv, NEW p \in Workers, w'[p] \in Commands,
         w'[p] = [w[p] EXCEPT !.live = w'[p].live, !.dated = w'[p].dated],
         \A s \in w'[p].live : s \in w[p].live /\ record'[s].status = record[s].status,
         \A s \in Submissions : record[s].status # "absent" => record'[s].status # "absent"
  PROVE  /\ SoundAt(w[p], record)'
         /\ w'[p].base = w[p].base
         /\ \A s : HoldsAt(w'[p], s) <=> HoldsAt(w[p], s)
  <1> DEFINE x == w[p]  y == w'[p]
  <1>1. x \in Commands /\ SoundAt(x, record)
    BY Here
  <1>2. /\ y.pc = x.pc /\ y.job = x.job /\ y.ids = x.ids /\ (y.new <=> x.new)
        /\ y.base = x.base /\ y.todo = x.todo /\ y.kept = x.kept /\ y.work = x.work
        /\ y.one = x.one
    BY <1>1 DEF Commands
  <1>3. x.base \cup x.ids \cup x.todo \cup x.kept \subseteq Submissions
    BY <1>1 DEF Commands, Queues
  <1>4. \A s \in y.live : s \in x.live /\ record'[s].status = record[s].status
    OBVIOUS
  <1> HIDE DEF x, y
  <1>5. SoundAt(y, record')
    BY <1>1, <1>2, <1>3, <1>4 DEF SoundAt
  <1>6. \A s : HoldsAt(y, s) <=> HoldsAt(x, s)
    BY <1>2 DEF HoldsAt
  <1> QED BY <1>2, <1>5, <1>6 DEF x, y

\* A step of the command q to v that changes neither the records nor the index.
LEMMA Internal ==
  ASSUME IInv, UNCHANGED <<record, index, admitting, slipped>>,
         messages' \in [Submissions -> Nat], faults' \in 0..MaxFaults,
         NEW q \in Workers, NEW v \in Commands, Go(q, v),
         SoundAt(v, record), \A s \in Unfinished : HeldAt(v, s)
  PROVE  IInv'
  <1>1. w' = [w EXCEPT ![q] = v] /\ w \in [Workers -> Commands]
    BY Here DEF Go
  <1>2. w' \in [Workers -> Commands] /\ w'[q] = v /\ \A p \in Workers \ {q} : w'[p] = w[p]
    BY <1>1
  <1>3. Unfinished' = Unfinished
    BY DEF Unfinished, finished_with
  <1>4. Sound'
    BY <1>2 DEF IInv, Sound
  <1>5. Held'
    <2>1. ASSUME NEW p \in Workers, NEW s \in Unfinished PROVE HeldAt(w'[p], s)
      BY <1>2, Here
    <2>2. \A p \in Workers, s \in Unfinished : HeldAt(w[p], s)'
      BY <2>1 DEF HeldAt
    <2> QED BY <1>3, <2>2 DEF Held
  <1>6. TypeOK'
    BY <1>2 DEF IInv, TypeOK
  <1>7. UnfinishedIsListed' /\ ListedExists'
    BY <1>3 DEF IInv, UnfinishedIsListed, ListedExists
  <1> QED BY <1>4, <1>5, <1>6, <1>7 DEF IInv

\* A step of the command q to v that writes ids to the index: ids without an
\* unfinished submission only if that is listed otherwise.
LEMMA Indexed ==
  ASSUME IInv, UNCHANGED <<record, admitting, messages, faults>>,
         NEW q \in Workers, NEW ids \in SUBSET Submissions, NEW new \in BOOLEAN,
         NEW v \in Commands, WriteIndex(q, ids, new, v),
         \A s \in ids : record[s].status # "absent",
         \A s \in Unfinished \ ids : s \in admitting \cup slipped',
         slipped' \subseteq slipped,
         \A p \in Workers \ {q}, s \in slipped : HoldsAt(w[p], s) => s \in slipped',
         SoundAt(v, record), \A s \in Unfinished : HoldsAt(v, s) => s \in slipped' \/ s \notin v.base
  PROVE  IInv'
  <1>1. /\ index' = [open |-> ids, due |-> index.due /\ ~new]
        /\ w' = [p \in Workers |-> IF p = q THEN v ELSE [w[p] EXCEPT !.dated = w[p].dated /\ ~new]]
    BY DEF WriteIndex
  <1>2. w'[q] = v
    BY <1>1
  <1>3. ASSUME NEW p \in Workers \ {q}
        PROVE  /\ w'[p] \in Commands /\ SoundAt(w[p], record)'
               /\ w'[p].base = w[p].base
               /\ \A s : HoldsAt(w'[p], s) <=> HoldsAt(w[p], s)
    <2> DEFINE d == w[p].dated /\ ~new
    <2>1. w'[p] = [w[p] EXCEPT !.dated = d] /\ w[p] \in Commands
      BY <1>1, Here
    <2>2. d \in BOOLEAN
      OBVIOUS
    <2> HIDE DEF d
    <2>3. w'[p] \in Commands /\ w'[p].dated = d /\ w'[p].live = w[p].live
      BY <2>1, <2>2 DEF Commands
    <2>4. w'[p] = [w[p] EXCEPT !.live = w'[p].live, !.dated = w'[p].dated]
      BY <2>1, <2>3 DEF Commands
    <2> QED BY <2>3, <2>4, Stays
  <1>4. Unfinished' = Unfinished
    BY DEF Unfinished, finished_with
  <1>5. Sound'
    <2>1. SoundAt(w[q], record)'
      BY <1>2
    <2> QED BY <1>3, <2>1 DEF Sound
  <1>6. Held'
    <2>1. ASSUME NEW p \in Workers, NEW s \in Unfinished, HoldsAt(w'[p], s)
          PROVE  s \in slipped' \/ s \notin w'[p].base
      <3>1. CASE p = q
        BY <1>2, <2>1, <3>1
      <3>2. CASE p # q
        <4>1. HoldsAt(w[p], s) /\ w'[p].base = w[p].base /\ HeldAt(w[p], s)
          BY <1>3, <2>1, <3>2, Here
        <4> QED BY <3>2, <4>1 DEF HeldAt
      <3> QED BY <3>1, <3>2
    <2>2. \A p \in Workers, s \in Unfinished : HeldAt(w[p], s)'
      BY <2>1 DEF HeldAt
    <2> QED BY <1>4, <2>2 DEF Held
  <1>7. TypeOK'
    <2>1. \A p \in Workers : w'[p] \in Commands
      BY <1>2, <1>3
    <2>2. w' \in [Workers -> Commands]
      BY <1>1, <2>1
    <2>3. (index.due /\ ~new) \in BOOLEAN
      OBVIOUS
    <2>4. index' \in [open : Queues, due : BOOLEAN]
      BY <1>1, <2>3 DEF Queues
    <2>5. slipped' \subseteq Submissions
      BY DEF IInv, TypeOK
    <2> QED BY <2>2, <2>4, <2>5 DEF IInv, TypeOK
  <1>8. UnfinishedIsListed' /\ ListedExists'
    <2>1. index'.open = ids
      BY <1>1
    <2> QED BY <1>4, <2>1 DEF IInv, UnfinishedIsListed, ListedExists
  <1> QED BY <1>5, <1>6, <1>7, <1>8 DEF IInv

\* The record of s becomes r.  Every command forgets s, or has come to a place where it
\* holds nothing.  If that leaves s unfinished it was before, or it is listed and no
\* command would pass without it.
LEMMA Recorded ==
  ASSUME IInv, NEW s \in Submissions, NEW r \in Records,
         record' = [record EXCEPT ![s] = r], UNCHANGED index,
         messages' \in [Submissions -> Nat], faults' \in 0..MaxFaults,
         admitting \subseteq admitting', admitting' \subseteq Submissions,
         \A t \in admitting' : record'[t].status # "absent",
         slipped \subseteq slipped', slipped' \subseteq Submissions,
         w' \in [Workers -> Commands],
         \A p \in Workers : \/ SoundAt(w[p], record)' /\ \A t : ~HoldsAt(w'[p], t)
                            \/ w'[p] = [w[p] EXCEPT !.live = w[p].live \ {s}],
         record[s].status # "absent" => r.status # "absent",
         r.status # "absent" /\ ~finished_with(r) =>
           \/ s \in Unfinished
           \/ s \in slipped'
           \/ /\ s \in index.open \cup admitting'
              /\ \A p \in Workers : HoldsAt(w[p], s) => s \notin w[p].base
  PROVE  IInv'
  <1>1. record \in [Submissions -> Records]
    BY DEF IInv, TypeOK
  <1>2. record' \in [Submissions -> Records] /\ record'[s] = r
        /\ \A t \in Submissions \ {s} : record'[t] = record[t]
    BY <1>1
  <1>3. \A t \in Submissions : record[t].status # "absent" => record'[t].status # "absent"
    BY <1>2
  <1>4. ASSUME NEW p \in Workers
        PROVE  /\ SoundAt(w[p], record)'
               /\ \A t : HoldsAt(w'[p], t) => HoldsAt(w[p], t) /\ w'[p].base = w[p].base
    <2>1. CASE SoundAt(w[p], record)' /\ \A t : ~HoldsAt(w'[p], t)
      BY <2>1
    <2>2. CASE w'[p] = [w[p] EXCEPT !.live = w[p].live \ {s}]
      <3>1. w[p] \in Commands /\ w'[p] \in Commands
        BY Here
      <3>2. w'[p].live = w[p].live \ {s} /\ w'[p].dated = w[p].dated /\ w[p].live \subseteq Submissions
        BY <2>2, <3>1 DEF Commands
      <3>3. w'[p] = [w[p] EXCEPT !.live = w'[p].live, !.dated = w'[p].dated]
        BY <2>2, <3>1, <3>2 DEF Commands
      <3>4. \A t \in w'[p].live : t \in w[p].live /\ record'[t].status = record[t].status
        BY <1>2, <3>2
      <3> QED BY <1>3, <3>1, <3>3, <3>4, Stays
    <2> QED BY <2>1, <2>2
  <1>5. Unfinished' \subseteq Submissions /\ Unfinished \subseteq Submissions
    BY DEF Unfinished
  <1>6. \A t \in Unfinished' : t # s => t \in Unfinished
    BY <1>2 DEF Unfinished, finished_with
  <1>7. s \in Unfinished' => r.status # "absent" /\ ~finished_with(r)
    BY <1>2 DEF Unfinished, finished_with
  <1>8. Sound'
    BY <1>4 DEF Sound
  <1>9. Held'
    <2>1. ASSUME NEW p \in Workers, NEW t \in Unfinished', HoldsAt(w'[p], t)
          PROVE  t \in slipped' \/ t \notin w'[p].base
      <3>1. HoldsAt(w[p], t) /\ w'[p].base = w[p].base
        BY <1>4, <2>1
      <3>2. t \in Unfinished => t \in slipped \/ t \notin w[p].base
        BY <3>1, Here DEF HeldAt
      <3>3. CASE t \in Unfinished
        BY <3>1, <3>2, <3>3
      <3>4. CASE t = s /\ s \notin Unfinished
        BY <1>7, <3>1, <3>4
      <3> QED BY <1>6, <3>3, <3>4
    <2>2. \A p \in Workers, t \in Unfinished' : HeldAt(w[p], t)'
      BY <2>1 DEF HeldAt
    <2> QED BY <2>2 DEF Held
  <1>10. TypeOK'
    BY <1>2 DEF IInv, TypeOK
  <1>11. UnfinishedIsListed'
    <2>1. ASSUME NEW t \in Unfinished' PROVE t \in index.open \cup admitting' \cup slipped'
      <3>1. t \in Unfinished => t \in index.open \cup admitting \cup slipped
        BY DEF IInv, UnfinishedIsListed
      <3>2. CASE t \in Unfinished
        BY <3>1, <3>2
      <3>3. CASE t = s /\ s \notin Unfinished
        BY <1>7, <3>3
      <3> QED BY <1>6, <3>2, <3>3
    <2> QED BY <2>1 DEF UnfinishedIsListed
  <1>12. ListedExists'
    <2>1. \A t \in index.open : t \in Submissions /\ record[t].status # "absent"
      BY DEF IInv, TypeOK, ListedExists, Queues
    <2> QED BY <1>3, <2>1 DEF ListedExists
  <1> QED BY <1>8, <1>9, <1>10, <1>11, <1>12 DEF IInv

\* Before anything is admitted nothing is unfinished, and no command runs.
LEMMA InitIInv == Init => IInv
  <1> SUFFICES ASSUME Init PROVE IInv
    OBVIOUS
  <1>1. Idle \in Commands
    BY DEF Idle, Commands, Pcs, Queues
  <1>2. TypeOK
    BY <1>1, QueueAssumption DEF Init, TypeOK, Records, Statuses, Queues
  <1>3. Unfinished = {}
    BY DEF Init, Unfinished
  <1>4. \A q \in Workers : w[q] = Idle
    BY DEF Init
  <1>5. Sound
    BY <1>4 DEF Sound, SoundAt, Idle
  <1> QED BY <1>2, <1>3, <1>5 DEF IInv, UnfinishedIsListed, ListedExists, Held, Init

\* What a command that starts or ends knows and holds: nothing.
LEMMA IdleHere ==
  /\ Idle \in Commands
  /\ \A r : SoundAt(Idle, r)
  /\ \A s : ~HoldsAt(Idle, s)
  <1>1. Idle \in Commands
    BY DEF Idle, Commands, Pcs, Queues
  <1>2. \A s : ~HoldsAt(Idle, s)
    BY DEF HoldsAt, Idle
  <1>3. \A r : SoundAt(Idle, r)
    BY DEF SoundAt, Idle
  <1> QED BY <1>1, <1>2, <1>3

\* Every step that is not a fault leaves the count of faults, and most leave the messages.
LEMMA Counts ==
  ASSUME IInv
  PROVE  /\ messages \in [Submissions -> Nat] /\ faults \in 0..MaxFaults
         /\ (Fault => faults' \in 0..MaxFaults)
  BY QueueAssumption DEF IInv, TypeOK, Fault

\* A command goes idle.
LEMMA ToIdle ==
  ASSUME IInv, UNCHANGED <<record, index, admitting, slipped>>,
         messages' \in [Submissions -> Nat], faults' \in 0..MaxFaults,
         NEW q \in Workers, Go(q, Idle)
  PROVE  IInv'
  <1>1. \A s \in Unfinished : HeldAt(Idle, s)
    BY IdleHere DEF HeldAt
  <1> QED BY <1>1, IdleHere, Internal

\* A sweep that succeeded ends.
LEMMA SweptKeeps ==
  ASSUME IInv, NEW q \in Workers, Swept(q) PROVE IInv'
  BY Counts, ToIdle DEF Swept

\* A command that dies takes the queue it held with it.
LEMMA CrashKeeps ==
  ASSUME IInv, NEW q \in Workers, Crash(q) PROVE IInv'
  BY Counts, ToIdle DEF Crash

\* A sweep starts with nothing in its hands.
LEMMA BeginSweepKeeps ==
  ASSUME IInv, NEW q \in Workers, BeginSweep(q) PROVE IInv'
  <1> DEFINE v == [Idle EXCEPT !.pc = "capture", !.job = "sweep"]
  <1>1. v \in Commands
    BY DEF Idle, Commands, Pcs, Queues
  <1>2. SoundAt(v, record)
    BY DEF SoundAt, Idle
  <1>3. \A s \in Unfinished : HeldAt(v, s)
    BY DEF HeldAt, HoldsAt, Idle
  <1>4. Go(q, v) /\ UNCHANGED <<record, index, admitting, messages, faults, slipped>>
    BY DEF BeginSweep
  <1> QED BY <1>1, <1>2, <1>3, <1>4, Counts, Internal

\* A requeue starts with a record that exists.
LEMMA BeginRequeueKeeps ==
  ASSUME IInv, NEW q \in Workers, BeginRequeue(q) PROVE IInv'
  <1>1. PICK s \in Submissions :
          /\ record[s].status = "paused"
          /\ Go(q, [Idle EXCEPT !.pc = "open", !.job = "requeue", !.one = s, !.live = {s}])
    BY DEF BeginRequeue
  <1> DEFINE v == [Idle EXCEPT !.pc = "open", !.job = "requeue", !.one = s, !.live = {s}]
  <1>2. v \in Commands
    BY DEF Idle, Commands, Pcs, Queues
  <1>3. SoundAt(v, record)
    BY <1>1 DEF SoundAt, Idle
  <1>4. \A t \in Unfinished : HeldAt(v, t)
    BY DEF HeldAt, HoldsAt, Idle
  <1>5. Go(q, v) /\ UNCHANGED <<record, index, admitting, messages, faults, slipped>>
    BY <1>1 DEF BeginRequeue
  <1> QED BY <1>2, <1>3, <1>4, <1>5, Counts, Internal

\* A command about to read the index.
LEMMA OpeningHere ==
  ASSUME IInv, NEW q \in Workers, NEW v \in Opening(q)
  PROVE  /\ v \in Commands /\ SoundAt(v, record)
         /\ v.job \in {"pass", "ingest", "notify", "requeue"}
         /\ v.pc \in {"idle", "open"}
         /\ v.job # "requeue" => v.kept = {}
  <1>1. CASE v = w[q] /\ v.pc = "open"
    <2>1. SoundAt(v, record) /\ v \in Commands
      BY <1>1, Here
    <2>2. v.job = "requeue"
      BY <1>1, <2>1 DEF SoundAt
    <2> QED BY <1>1, <2>1, <2>2
  <1>2. ASSUME NEW job \in Jobs[q] \ {"sweep", "requeue"}, v = [Idle EXCEPT !.job = job]
        PROVE  /\ v \in Commands /\ SoundAt(v, record)
               /\ v.job \in {"pass", "ingest", "notify"} /\ v.pc = "idle" /\ v.kept = {}
    <2>1. job \in {"pass", "ingest", "notify"}
      BY <1>2, QueueAssumption
    <2>2. v \in Commands
      BY <1>2, <2>1 DEF Idle, Commands, Pcs, Queues
    <2>3. v.job = job /\ v.pc = "idle" /\ v.kept = {} /\ v.base = {} /\ v.ids = {} /\ v.todo = {}
          /\ v.live = {} /\ v.work = {}
      BY <1>2 DEF Idle
    <2>4. SoundAt(v, record)
      BY <2>1, <2>3 DEF SoundAt
    <2> QED BY <2>1, <2>2, <2>3, <2>4
  <1> QED BY <1>1, <1>2 DEF Opening

\* A command x that goes on with the queue it has.
LEMMA AfterHere ==
  ASSUME NEW r, NEW x \in Commands,
         \A s \in x.base \cup x.ids \cup x.todo \cup x.kept : r[s].status # "absent",
         x.job = "requeue" => x.one \in Submissions /\ r[x.one].status # "absent",
         x.job = "ingest" => \A s \in x.live : r[s].status = "reporting",
         x.job = "pass" => x.work = {},
         ~x.new => x.ids = x.base
  PROVE  /\ After(x) \in Commands /\ SoundAt(After(x), r)
         /\ After(x).base = x.base
         /\ \A s : HoldsAt(After(x), s) => s \notin x.ids
  <1> DEFINE y == After(x)
  <1>1. CASE x.job = "requeue"
    <2>1. y = [x EXCEPT !.pc = "enqueue"]
      BY <1>1 DEF After
    <2>2. y \in Commands
      BY <2>1 DEF Commands, Pcs
    <2>3. /\ y.pc = "enqueue" /\ y.job = x.job /\ y.ids = x.ids /\ (y.new <=> x.new)
          /\ y.base = x.base /\ y.todo = x.todo /\ y.kept = x.kept /\ y.one = x.one
      BY <2>1 DEF Commands
    <2> HIDE DEF y
    <2>4. SoundAt(y, r)
      BY <1>1, <2>3 DEF SoundAt
    <2>5. \A s : HoldsAt(y, s) => s \notin x.ids
      BY <2>3 DEF HoldsAt
    <2> QED BY <2>2, <2>3, <2>4, <2>5 DEF y
  <1>2. CASE x.job = "sweep"
    <2>1. y = [x EXCEPT !.pc = "readback"]
      BY <1>2 DEF After
    <2>2. y \in Commands
      BY <2>1 DEF Commands, Pcs
    <2>3. /\ y.pc = "readback" /\ y.job = x.job /\ y.ids = x.ids /\ (y.new <=> x.new)
          /\ y.base = x.base /\ y.todo = x.todo /\ y.kept = x.kept
      BY <2>1 DEF Commands
    <2> HIDE DEF y
    <2>4. SoundAt(y, r)
      BY <1>2, <2>3 DEF SoundAt
    <2>5. \A s : ~HoldsAt(y, s)
      BY <2>3 DEF HoldsAt
    <2> QED BY <2>2, <2>3, <2>4, <2>5 DEF y
  <1>3. CASE x.job \in {"pass", "ingest", "notify"}
    <2>1. y = [x EXCEPT !.pc = "scan", !.todo = x.ids, !.kept = {}]
      BY <1>3 DEF After
    <2>2. y \in Commands
      BY <2>1 DEF Commands, Pcs, Queues
    <2>3. /\ y.pc = "scan" /\ y.job = x.job /\ y.ids = x.ids /\ y.base = x.base
          /\ y.todo = x.ids /\ y.kept = {} /\ y.live = x.live /\ y.work = x.work
      BY <2>1 DEF Commands
    <2> HIDE DEF y
    <2>4. SoundAt(y, r)
      BY <1>3, <2>3 DEF SoundAt
    <2>5. \A s : HoldsAt(y, s) => s \notin x.ids
      BY <2>3 DEF HoldsAt
    <2> QED BY <2>2, <2>3, <2>4, <2>5 DEF y
  <1> QED BY <1>1, <1>2, <1>3 DEF Commands

\* A command that is to rebuild the queue knows what it knew.
LEMMA ToCapture ==
  ASSUME IInv, NEW q \in Workers, NEW v \in Opening(q)
  PROVE  LET y == [v EXCEPT !.pc = "capture"]
         IN  y \in Commands /\ SoundAt(y, record) /\ \A s : ~HoldsAt(y, s)
  <1> DEFINE y == [v EXCEPT !.pc = "capture"]
  <1>1. v \in Commands /\ SoundAt(v, record)
    BY OpeningHere
  <1>2. y \in Commands
    BY <1>1 DEF Commands, Pcs
  <1>3. /\ y.pc = "capture" /\ y.job = v.job /\ y.ids = v.ids /\ y.base = v.base
        /\ y.todo = v.todo /\ y.kept = v.kept /\ y.one = v.one /\ y.live = v.live /\ y.work = v.work
    BY <1>1 DEF Commands
  <1> HIDE DEF y
  <1>4. SoundAt(y, record)
    BY <1>1, <1>3 DEF SoundAt
  <1>5. \A s : ~HoldsAt(y, s)
    BY <1>3 DEF HoldsAt
  <1> QED BY <1>2, <1>4, <1>5 DEF y

\* An unreadable index is rebuilt from what its reader knew.
LEMMA IndexUnreadKeeps ==
  ASSUME IInv, NEW q \in Workers, IndexUnread(q) PROVE IInv'
  <1>1. PICK v \in Opening(q) : Go(q, [v EXCEPT !.pc = "capture"])
    BY DEF IndexUnread
  <1> DEFINE y == [v EXCEPT !.pc = "capture"]
  <1>2. y \in Commands /\ SoundAt(y, record) /\ \A s : ~HoldsAt(y, s)
    BY ToCapture
  <1>3. UNCHANGED <<record, index, admitting, messages, slipped>> /\ Fault /\ Go(q, y)
    BY <1>1 DEF IndexUnread
  <1> HIDE DEF y
  <1>4. \A s \in Unfinished : HeldAt(y, s)
    BY <1>2 DEF HeldAt
  <1> QED BY <1>2, <1>3, <1>4, Counts, Internal

\* A command that reads the live index holds all that is in it.
LEMMA OpenIndexKeeps ==
  ASSUME IInv, NEW q \in Workers, OpenIndex(q) PROVE IInv'
  <1>1. PICK v \in Opening(q) :
          Go(q, IF index.due THEN [v EXCEPT !.pc = "capture"]
                ELSE After([v EXCEPT !.ids = index.open, !.base = index.open, !.dated = TRUE]))
    BY DEF OpenIndex
  <1>2. UNCHANGED <<record, index, admitting, messages, faults, slipped>>
    BY DEF OpenIndex
  <1>3. CASE index.due
    <2> DEFINE y == [v EXCEPT !.pc = "capture"]
    <2>1. y \in Commands /\ SoundAt(y, record) /\ \A s : ~HoldsAt(y, s)
      BY ToCapture
    <2>2. Go(q, y)
      BY <1>1, <1>3
    <2> HIDE DEF y
    <2>3. \A s \in Unfinished : HeldAt(y, s)
      BY <2>1 DEF HeldAt
    <2> QED BY <1>2, <2>1, <2>2, <2>3, Counts, Internal
  <1>4. CASE ~index.due
    <2> DEFINE x == [v EXCEPT !.ids = index.open, !.base = index.open, !.dated = TRUE]
    <2>1. v \in Commands /\ SoundAt(v, record)
      BY OpeningHere
    <2>2. index.open \in Queues /\ \A s \in index.open : record[s].status # "absent"
      BY DEF IInv, TypeOK, ListedExists
    <2>3. x \in Commands
      BY <2>1, <2>2 DEF Commands
    <2>4. /\ x.job = v.job /\ x.ids = index.open /\ x.base = index.open /\ x.todo = v.todo
          /\ x.kept = v.kept /\ x.one = v.one /\ x.live = v.live /\ x.work = v.work
      BY <2>1 DEF Commands
    <2>5. Go(q, After(x))
      BY <1>1, <1>4
    <2> HIDE DEF x
    <2>6. /\ \A s \in x.base \cup x.ids \cup x.todo \cup x.kept : record[s].status # "absent"
          /\ x.job = "requeue" => x.one \in Submissions /\ record[x.one].status # "absent"
          /\ x.job = "ingest" => \A s \in x.live : record[s].status = "reporting"
          /\ x.job = "pass" => x.work = {}
      BY <2>1, <2>2, <2>4 DEF SoundAt
    <2>7. /\ After(x) \in Commands /\ SoundAt(After(x), record)
          /\ After(x).base = x.base
          /\ \A s : HoldsAt(After(x), s) => s \notin x.ids
      BY <2>3, <2>4, <2>6, AfterHere
    <2>8. \A s \in Unfinished : HeldAt(After(x), s)
      BY <2>4, <2>7 DEF HeldAt
    <2> QED BY <1>2, <2>5, <2>7, <2>8, Counts, Internal
  <1> QED BY <1>3, <1>4

\* The identity that is captured is that of the live index.
LEMMA CaptureKeeps ==
  ASSUME IInv, NEW q \in Workers, Capture(q) PROVE IInv'
  <1> DEFINE y == [w[q] EXCEPT !.pc = "clone", !.base = index.open, !.dated = TRUE]
  <1>1. /\ w[q].pc = "capture" /\ Go(q, y)
        /\ UNCHANGED <<record, index, admitting, messages, faults, slipped>>
    BY DEF Capture
  <1>2. w[q] \in Commands /\ SoundAt(w[q], record)
    BY Here
  <1>3. index.open \in Queues /\ \A s \in index.open : record[s].status # "absent"
    BY DEF IInv, TypeOK, ListedExists
  <1>4. y \in Commands
    BY <1>2, <1>3 DEF Commands, Pcs
  <1>5. /\ y.pc = "clone" /\ y.job = w[q].job /\ y.ids = w[q].ids /\ y.base = index.open
        /\ y.todo = w[q].todo /\ y.kept = w[q].kept /\ y.one = w[q].one
        /\ y.live = w[q].live /\ y.work = w[q].work
    BY <1>2 DEF Commands
  <1> HIDE DEF y
  <1>6. SoundAt(y, record)
    BY <1>2, <1>3, <1>5 DEF SoundAt
  <1>7. \A s \in Unfinished : HeldAt(y, s)
    BY <1>5 DEF HeldAt, HoldsAt
  <1> QED BY <1>1, <1>4, <1>6, <1>7, Counts, Internal

\* A clone leaves out no unfinished submission.
LEMMA CloneKeeps ==
  ASSUME IInv, NEW q \in Workers, Clone(q) PROVE IInv'
  <1> DEFINE y == [w[q] EXCEPT !.pc = "rebuild", !.ids = Unfinished]
  <1>1. /\ w[q].pc = "clone" /\ Go(q, y)
        /\ UNCHANGED <<record, index, admitting, messages, faults, slipped>>
    BY DEF Clone
  <1>2. w[q] \in Commands /\ SoundAt(w[q], record)
    BY Here
  <1>3. Unfinished \in Queues /\ \A s \in Unfinished : record[s].status # "absent"
    BY DEF Unfinished, Queues
  <1>4. y \in Commands
    BY <1>2, <1>3 DEF Commands, Pcs
  <1>5. /\ y.pc = "rebuild" /\ y.job = w[q].job /\ y.ids = Unfinished /\ y.base = w[q].base
        /\ y.todo = w[q].todo /\ y.kept = w[q].kept /\ y.one = w[q].one
        /\ y.live = w[q].live /\ y.work = w[q].work
    BY <1>2 DEF Commands
  <1> HIDE DEF y
  <1>6. SoundAt(y, record)
    BY <1>2, <1>3, <1>5 DEF SoundAt
  <1>7. \A s \in Unfinished : HeldAt(y, s)
    BY <1>5 DEF HeldAt, HoldsAt
  <1> QED BY <1>1, <1>4, <1>6, <1>7, Counts, Internal

\* What a command leaves out of the queue it holds is listed elsewhere, if its write passes.
LEMMA LeftOut ==
  ASSUME IInv, NEW q \in Workers, Passes(q), NEW s \in Unfinished, HoldsAt(w[q], s)
  PROVE  s \in admitting \cup slipped
  <1>1. s \in slipped \/ s \notin w[q].base
    BY Here DEF HeldAt
  <1>2. s \in index.open \cup admitting \cup slipped
    BY DEF IInv, UnfinishedIsListed
  <1> QED BY <1>1, <1>2 DEF Passes

\* A rebuild is written only over the index captured before its clone.
LEMMA RebuildKeeps ==
  ASSUME IInv, NEW q \in Workers, Rebuild(q) PROVE IInv'
  <1>1. w[q] \in Commands /\ SoundAt(w[q], record) /\ w[q].pc = "rebuild"
        /\ \A s \in Unfinished : HeldAt(w[q], s)
    BY Here DEF Rebuild
  <1>2. UNCHANGED <<record, admitting, messages, faults>>
    BY DEF Rebuild
  <1>3. \A s : HoldsAt(w[q], s) <=> s \notin w[q].ids
    BY <1>1 DEF HoldsAt
  <1>4. CASE Passes(q)
    <2> DEFINE x == [w[q] EXCEPT !.base = w[q].ids]
    <2>1. WriteIndex(q, w[q].ids, TRUE, After(x)) /\ Relist(q, w[q].ids)
      BY <1>4 DEF Rebuild
    <2>2. x \in Commands
      BY <1>1 DEF Commands
    <2>3. /\ x.job = w[q].job /\ x.ids = w[q].ids /\ x.base = w[q].ids /\ x.todo = w[q].todo
          /\ x.kept = w[q].kept /\ x.one = w[q].one /\ x.live = w[q].live /\ x.work = w[q].work
      BY <1>1 DEF Commands
    <2> HIDE DEF x
    <2>4. /\ \A s \in x.base \cup x.ids \cup x.todo \cup x.kept : record[s].status # "absent"
          /\ x.job = "requeue" => x.one \in Submissions /\ record[x.one].status # "absent"
          /\ x.job = "ingest" => \A s \in x.live : record[s].status = "reporting"
          /\ x.job = "pass" => x.work = {}
      BY <1>1, <2>3 DEF SoundAt
    <2>5. /\ After(x) \in Commands /\ SoundAt(After(x), record)
          /\ After(x).base = x.base
          /\ \A s : HoldsAt(After(x), s) => s \notin x.ids
      BY <2>2, <2>3, <2>4, AfterHere
    <2>6. slipped' = {s \in slipped : s \in w[q].ids => \E p \in Workers \ {q} : HoldsWithout(p, s)}
      BY <2>1 DEF Relist
    <2>7. \A p \in Workers \ {q}, s \in slipped : HoldsAt(w[p], s) => s \in slipped'
      BY <2>6, HoldsIs
    <2>8. \A s \in Unfinished \ w[q].ids : s \in admitting \cup slipped'
      BY <1>3, <1>4, <2>6, LeftOut
    <2>9. w[q].ids \in SUBSET Submissions /\ \A s \in w[q].ids : record[s].status # "absent"
      BY <1>1 DEF Commands, Queues, SoundAt
    <2>10. \A s \in Unfinished : HoldsAt(After(x), s) => s \in slipped' \/ s \notin After(x).base
      BY <2>3, <2>5
    <2>11. slipped' \subseteq slipped
      BY <2>6
    <2> DEFINE v == After(x)  ids == w[q].ids
    <2>12. /\ v \in Commands /\ SoundAt(v, record) /\ WriteIndex(q, ids, TRUE, v)
           /\ ids \in SUBSET Submissions /\ \A s \in ids : record[s].status # "absent"
           /\ \A s \in Unfinished \ ids : s \in admitting \cup slipped'
           /\ \A s \in Unfinished : HoldsAt(v, s) => s \in slipped' \/ s \notin v.base
      BY <2>1, <2>5, <2>8, <2>9, <2>10
    <2> HIDE DEF v, ids
    <2> QED BY <1>2, <2>7, <2>11, <2>12, Indexed
  <1>5. CASE ~Passes(q)
    <2> DEFINE x == [w[q] EXCEPT !.new = TRUE]
    <2>1. Go(q, After(x)) /\ UNCHANGED <<index, slipped>>
      BY <1>5 DEF Rebuild
    <2>2. x \in Commands /\ x.new
      BY <1>1 DEF Commands
    <2>3. /\ x.job = w[q].job /\ x.ids = w[q].ids /\ x.base = w[q].base /\ x.todo = w[q].todo
          /\ x.kept = w[q].kept /\ x.one = w[q].one /\ x.live = w[q].live /\ x.work = w[q].work
      BY <1>1 DEF Commands
    <2> HIDE DEF x
    <2>4. /\ \A s \in x.base \cup x.ids \cup x.todo \cup x.kept : record[s].status # "absent"
          /\ x.job = "requeue" => x.one \in Submissions /\ record[x.one].status # "absent"
          /\ x.job = "ingest" => \A s \in x.live : record[s].status = "reporting"
          /\ x.job = "pass" => x.work = {}
      BY <1>1, <2>3 DEF SoundAt
    <2>5. /\ After(x) \in Commands /\ SoundAt(After(x), record)
          /\ After(x).base = x.base
          /\ \A s : HoldsAt(After(x), s) => s \notin x.ids
      BY <2>2, <2>4, AfterHere
    <2>6. \A s \in Unfinished : HeldAt(After(x), s)
      BY <1>1, <1>3, <2>3, <2>5 DEF HeldAt
    <2> QED BY <1>2, <2>1, <2>5, <2>6, Counts, Internal
  <1> QED BY <1>4, <1>5

\* Reading back changes nothing.
LEMMA ReadBackKeeps ==
  ASSUME IInv, NEW q \in Workers, ReadBack(q) PROVE IInv'
  <1>1. UNCHANGED <<record, index, admitting, messages, faults, slipped>> /\ w[q].pc = "readback"
    BY DEF ReadBack
  <1>2. w[q] \in Commands /\ SoundAt(w[q], record)
    BY Here
  <1> DEFINE y == [w[q] EXCEPT !.pc = "swept"]
  <1>3. Go(q, y) \/ Go(q, Idle)
    BY DEF ReadBack
  <1>4. y \in Commands
    BY <1>2 DEF Commands, Pcs
  <1>5. /\ y.pc = "swept" /\ y.job = w[q].job /\ y.ids = w[q].ids /\ y.base = w[q].base
        /\ y.todo = w[q].todo /\ y.kept = w[q].kept /\ y.one = w[q].one
        /\ y.live = w[q].live /\ y.work = w[q].work
    BY <1>2 DEF Commands
  <1> HIDE DEF y
  <1>6. SoundAt(y, record)
    BY <1>2, <1>5 DEF SoundAt
  <1>7. \A s \in Unfinished : HeldAt(y, s)
    BY <1>5 DEF HeldAt, HoldsAt
  <1>8. CASE Go(q, y)
    BY <1>1, <1>4, <1>6, <1>7, <1>8, Counts, Internal
  <1>9. CASE Go(q, Idle)
    BY <1>1, <1>9, Counts, ToIdle
  <1> QED BY <1>3, <1>8, <1>9

\* A command that is done with one of the submissions it found, in terms of the records r
\* it leaves.
LEMMA WithoutHere ==
  ASSUME IInv, NEW q \in Workers, NEW s, NEW r,
         w[q].pc \in {"ingest", "notify", "send", "record"},
         \A t \in Submissions : record[t].status # "absent" => r[t].status # "absent",
         \A t \in Submissions \ {s} : r[t].status = record[t].status
  PROVE  /\ Without(q, s) \in Commands /\ SoundAt(Without(q, s), r)
         /\ \A t : ~HoldsAt(Without(q, s), t)
  <1>1. CASE w[q].work = {s}
    BY <1>1, IdleHere DEF Without
  <1>2. CASE w[q].work # {s}
    <2> DEFINE x == w[q]
               y == [x EXCEPT !.pc = x.job, !.work = x.work \ {s}, !.live = x.live \ {s}, !.one = None]
    <2>1. Without(q, s) = y
      BY <1>2 DEF Without
    <2>2. x \in Commands /\ SoundAt(x, record) /\ x.pc \in {"ingest", "notify", "send", "record"}
      BY Here
    <2>3. x.job \in {"ingest", "notify"}
      BY <2>2 DEF SoundAt
    <2>4. x.job \in Pcs
      BY <2>3 DEF Pcs
    <2> HIDE DEF x
    <2>5. y \in Commands
      BY <2>2, <2>4 DEF Commands
    <2>6. /\ y.pc = x.job /\ y.job = x.job /\ y.ids = x.ids /\ y.base = x.base /\ y.todo = x.todo
          /\ y.kept = x.kept /\ y.live = x.live \ {s}
      BY <2>2 DEF Commands
    <2>7. x.base \cup x.ids \cup x.todo \cup x.kept \subseteq Submissions /\ x.live \subseteq Submissions
      BY <2>2 DEF Commands, Queues
    <2> HIDE DEF y
    <2>8. \A t \in y.base \cup y.ids \cup y.todo \cup y.kept : r[t].status # "absent"
      BY <2>2, <2>6, <2>7 DEF SoundAt
    <2>9. y.job = "ingest" => \A t \in y.live : r[t].status = "reporting"
      BY <2>2, <2>6, <2>7 DEF SoundAt
    <2>10. SoundAt(y, r)
      BY <2>3, <2>6, <2>8, <2>9 DEF SoundAt
    <2>11. \A t : ~HoldsAt(y, t)
      BY <2>3, <2>6 DEF HoldsAt
    <2> QED BY <2>1, <2>5, <2>10, <2>11
  <1> QED BY <1>1, <1>2

\* It goes on without a change of any record.
LEMMA GoWithout ==
  ASSUME IInv, UNCHANGED <<record, index, admitting, slipped>>,
         messages' \in [Submissions -> Nat], faults' \in 0..MaxFaults,
         NEW q \in Workers, NEW s, Go(q, Without(q, s)),
         w[q].pc \in {"ingest", "notify", "send", "record"}
  PROVE  IInv'
  <1>1. /\ Without(q, s) \in Commands /\ SoundAt(Without(q, s), record)
        /\ \A t : ~HoldsAt(Without(q, s), t)
    BY WithoutHere
  <1>2. \A t \in Unfinished : HeldAt(Without(q, s), t)
    BY <1>1 DEF HeldAt
  <1> QED BY <1>1, <1>2, Internal

\* A command that is done with a submission writes r over its record: not one that makes
\* it unfinished.
LEMMA Written ==
  ASSUME IInv, UNCHANGED <<index, admitting, messages, faults, slipped>>,
         NEW q \in Workers, NEW s \in Submissions, NEW r \in Records,
         WriteRecord(q, s, r, Without(q, s)),
         w[q].pc \in {"ingest", "notify", "send", "record"},
         record[s].status # "absent" => r.status # "absent",
         r.status # "absent" /\ ~finished_with(r) => s \in Unfinished
  PROVE  IInv'
  <1>1. record \in [Submissions -> Records] /\ w \in [Workers -> Commands]
        /\ admitting \subseteq Submissions /\ slipped \subseteq Submissions
    BY DEF IInv, TypeOK
  <1>2. /\ record' = [record EXCEPT ![s] = r]
        /\ w' = [p \in Workers |-> IF p = q THEN Without(q, s) ELSE [w[p] EXCEPT !.live = w[p].live \ {s}]]
    BY DEF WriteRecord
  <1>3. /\ \A t \in Submissions \ {s} : record'[t].status = record[t].status
        /\ \A t \in Submissions : record[t].status # "absent" => record'[t].status # "absent"
    BY <1>1, <1>2
  <1>4. /\ Without(q, s) \in Commands /\ SoundAt(Without(q, s), record')
        /\ \A t : ~HoldsAt(Without(q, s), t)
    BY <1>3, WithoutHere
  <1> DEFINE u == Without(q, s)
  <1>5. w'[q] = u /\ u \in Commands /\ SoundAt(u, record') /\ \A t : ~HoldsAt(u, t)
    BY <1>2, <1>4
  <1>6. \A p \in Workers \ {q} : w'[p] = [w[p] EXCEPT !.live = w[p].live \ {s}]
    BY <1>2
  <1> HIDE DEF u
  <1>7. ASSUME NEW p \in Workers \ {q} PROVE w'[p] \in Commands
    <2>1. w[p] \in Commands /\ w'[p] = [w[p] EXCEPT !.live = w[p].live \ {s}]
      BY <1>1, <1>6
    <2> QED BY <2>1 DEF Commands
  <1>8. w' \in [Workers -> Commands]
    BY <1>2, <1>5, <1>7
  <1>9. \A p \in Workers : \/ SoundAt(w[p], record)' /\ \A t : ~HoldsAt(w'[p], t)
                           \/ w'[p] = [w[p] EXCEPT !.live = w[p].live \ {s}]
    BY <1>5, <1>6
  <1>10. \A t \in admitting' : record'[t].status # "absent"
    BY <1>1, <1>3 DEF IInv, ListedExists
  <1> QED BY <1>1, <1>2, <1>8, <1>9, <1>10, Counts, Recorded

\* A scan leaves out only what it saw finished.
LEMMA ReadKeeps ==
  ASSUME IInv, NEW q \in Workers, Read(q) PROVE IInv'
  <1> DEFINE x == w[q]
             found(s) == IF Wanted(x.job, record[s]) THEN {s} ELSE {}
             live(s) == IF x.job = "ingest" THEN x.live \cup found(s) ELSE x.live
             kept(s) == IF finished_with(record[s]) THEN x.kept ELSE x.kept \cup {s}
             to(s) == [x EXCEPT !.todo = x.todo \ {s}, !.work = x.work \cup found(s),
                                !.live = live(s), !.kept = kept(s)]
  <1>1. PICK s \in x.todo : Go(q, to(s))
    BY DEF Read
  <1>2. UNCHANGED <<record, index, admitting, messages, faults, slipped>> /\ x.pc = "scan"
    BY DEF Read
  <1>3. x \in Commands /\ SoundAt(x, record) /\ \A t \in Unfinished : HeldAt(x, t)
    BY Here
  <1>4. s \in Submissions /\ record[s].status # "absent"
    BY <1>1, <1>3 DEF Commands, Queues, SoundAt
  <1> DEFINE f == found(s)  l == live(s)  k == kept(s)
  <1>5. f \in SUBSET Submissions /\ l \in SUBSET Submissions /\ k \in Queues
    BY <1>3, <1>4 DEF Commands, Queues
  <1>6. k \subseteq x.kept \cup {s} /\ x.kept \subseteq k /\ (s \in Unfinished => s \in k)
    BY DEF Unfinished
  <1>7. x.job = "pass" => f = {}
    BY DEF Wanted
  <1>8. x.job = "ingest" => \A t \in l : t \in x.live \/ record[t].status = "reporting"
    BY DEF Wanted
  <1> DEFINE y == [x EXCEPT !.todo = x.todo \ {s}, !.work = x.work \cup f, !.live = l, !.kept = k]
  <1>9. Go(q, y)
    BY <1>1
  <1> HIDE DEF x, f, l, k
  <1>10. y \in Commands
    BY <1>3, <1>5 DEF Commands, Queues
  <1>11. /\ y.pc = x.pc /\ y.job = x.job /\ y.ids = x.ids /\ y.base = x.base /\ y.one = x.one
         /\ y.todo = x.todo \ {s} /\ y.work = x.work \cup f /\ y.live = l /\ y.kept = k
    BY <1>3 DEF Commands
  <1> HIDE DEF y
  <1>12. \A t \in y.base \cup y.ids \cup y.todo \cup y.kept : record[t].status # "absent"
    BY <1>3, <1>4, <1>6, <1>11 DEF SoundAt
  <1>13. x.job \in {"pass", "ingest", "notify"}
    BY <1>2, <1>3 DEF SoundAt
  <1>14. y.job = "ingest" => \A t \in y.live : record[t].status = "reporting"
    BY <1>3, <1>8, <1>11 DEF SoundAt
  <1>15. y.job = "pass" => y.work = {}
    BY <1>3, <1>7, <1>11 DEF SoundAt
  <1>16. SoundAt(y, record)
    BY <1>2, <1>11, <1>12, <1>13, <1>14, <1>15 DEF SoundAt
  <1>17. \A t \in Unfinished : HoldsAt(y, t) => HoldsAt(x, t)
    BY <1>2, <1>6, <1>11 DEF HoldsAt
  <1>18. \A t \in Unfinished : HeldAt(y, t)
    BY <1>3, <1>11, <1>17 DEF HeldAt
  <1> QED BY <1>2, <1>9, <1>10, <1>16, <1>18, Counts, Internal

\* What could not be read is left in.
LEMMA ReadFailsKeeps ==
  ASSUME IInv, NEW q \in Workers, ReadFails(q) PROVE IInv'
  <1> DEFINE x == w[q]
             to(s) == [x EXCEPT !.todo = x.todo \ {s}, !.kept = x.kept \cup {s}]
  <1>1. PICK s \in x.todo : Go(q, to(s))
    BY DEF ReadFails, Unread
  <1>2. UNCHANGED <<record, index, admitting, messages, slipped>> /\ Fault /\ x.pc = "scan"
    BY DEF ReadFails
  <1>3. x \in Commands /\ SoundAt(x, record) /\ \A t \in Unfinished : HeldAt(x, t)
    BY Here
  <1>4. s \in Submissions /\ record[s].status # "absent"
    BY <1>1, <1>3 DEF Commands, Queues, SoundAt
  <1> DEFINE y == to(s)
  <1>5. Go(q, y)
    BY <1>1
  <1> HIDE DEF x
  <1>6. y \in Commands
    BY <1>3, <1>4 DEF Commands, Queues
  <1>7. /\ y.pc = x.pc /\ y.job = x.job /\ y.ids = x.ids /\ y.base = x.base /\ y.one = x.one
        /\ y.todo = x.todo \ {s} /\ y.work = x.work /\ y.live = x.live /\ y.kept = x.kept \cup {s}
    BY <1>3 DEF Commands
  <1> HIDE DEF y
  <1>8. \A t \in y.base \cup y.ids \cup y.todo \cup y.kept : record[t].status # "absent"
    BY <1>3, <1>4, <1>7 DEF SoundAt
  <1>9. x.job \in {"pass", "ingest", "notify"}
    BY <1>2, <1>3 DEF SoundAt
  <1>10. SoundAt(y, record)
    BY <1>2, <1>3, <1>7, <1>8, <1>9 DEF SoundAt
  <1>11. \A t : HoldsAt(y, t) => HoldsAt(x, t)
    BY <1>2, <1>7 DEF HoldsAt
  <1>12. \A t \in Unfinished : HeldAt(y, t)
    BY <1>3, <1>7, <1>11 DEF HeldAt
  <1> QED BY <1>2, <1>5, <1>6, <1>10, <1>12, Counts, Internal

\* A scan writes what it kept only over the index it read.
LEMMA DropKeeps ==
  ASSUME IInv, NEW q \in Workers, Drop(q) PROVE IInv'
  <1> DEFINE x == w[q]
             y == [Idle EXCEPT !.pc = x.job, !.job = x.job, !.work = x.work, !.live = x.live]
             next == IF x.work = {} THEN Idle ELSE y
  <1>1. /\ UNCHANGED <<record, admitting, messages, faults, slipped>>
        /\ x.pc = "scan" /\ x.todo = {}
    BY DEF Drop
  <1>2. \/ Passes(q) /\ WriteIndex(q, x.kept, x.new, next)
        \/ Go(q, next) /\ UNCHANGED index
    BY DEF Drop
  <1>3. x \in Commands /\ SoundAt(x, record) /\ \A s \in Unfinished : HeldAt(x, s)
    BY Here
  <1>4. next \in Commands /\ SoundAt(next, record) /\ \A s : ~HoldsAt(next, s)
    <2>1. CASE x.work = {}
      BY <2>1, IdleHere
    <2>2. CASE x.work # {}
      <3>1. x.job \in {"ingest", "notify"}
        BY <1>1, <1>3, <2>2 DEF SoundAt
      <3> HIDE DEF x
      <3>2. y \in Commands
        BY <1>3, <3>1 DEF Idle, Commands, Pcs, Queues
      <3>3. /\ y.pc = x.job /\ y.job = x.job /\ y.live = x.live
            /\ y.base = {} /\ y.ids = {} /\ y.todo = {} /\ y.kept = {}
        BY DEF Idle
      <3> HIDE DEF y
      <3>4. SoundAt(y, record)
        BY <1>3, <3>1, <3>3 DEF SoundAt
      <3>5. \A s : ~HoldsAt(y, s)
        BY <3>1, <3>3 DEF HoldsAt
      <3> QED BY <2>2, <3>2, <3>4, <3>5
    <2> QED BY <2>1, <2>2
  <1>5. CASE Passes(q) /\ WriteIndex(q, x.kept, x.new, next)
    <2>1. \A s : HoldsAt(x, s) <=> s \notin x.kept
      BY <1>1 DEF HoldsAt
    <2>2. \A s \in Unfinished \ x.kept : s \in admitting \cup slipped
      BY <1>5, <2>1, LeftOut
    <2> DEFINE ids == x.kept  v == next  new == x.new
    <2>3. ids \in SUBSET Submissions /\ \A s \in ids : record[s].status # "absent"
      BY <1>3 DEF Commands, Queues, SoundAt
    <2>4. new \in BOOLEAN
      BY <1>3 DEF Commands
    <2>5. /\ v \in Commands /\ SoundAt(v, record) /\ \A s : ~HoldsAt(v, s)
          /\ WriteIndex(q, ids, new, v)
          /\ \A s \in Unfinished \ ids : s \in admitting \cup slipped'
      BY <1>1, <1>4, <1>5, <2>2
    <2>6. UNCHANGED <<record, admitting, messages, faults>> /\ slipped' = slipped
      BY <1>1
    <2> HIDE DEF x, ids, v, new
    <2> QED BY <2>3, <2>4, <2>5, <2>6, Indexed
  <1>6. CASE Go(q, next) /\ UNCHANGED index
    <2> DEFINE v == next
    <2>1. /\ v \in Commands /\ SoundAt(v, record) /\ Go(q, v) /\ \A s : ~HoldsAt(v, s)
      BY <1>4, <1>6
    <2> HIDE DEF v
    <2>2. \A s \in Unfinished : HeldAt(v, s)
      BY <2>1 DEF HeldAt
    <2> QED BY <1>1, <1>6, <2>1, <2>2, Counts, Internal
  <1> QED BY <1>2, <1>5, <1>6

\* A notification looks at one record again.
LEMMA NotifyKeeps ==
  ASSUME IInv, NEW q \in Workers, Notify(q) PROVE IInv'
  <1> DEFINE x == w[q]
             to(s) == [x EXCEPT !.pc = "send", !.one = s, !.live = x.live \cup {s}]
  <1>1. /\ UNCHANGED <<record, index, admitting, messages, faults, slipped>> /\ x.pc = "notify"
    BY DEF Notify
  <1>2. PICK s \in x.work : Go(q, to(s)) \/ Go(q, Without(q, s))
    BY DEF Notify
  <1>3. x \in Commands /\ SoundAt(x, record)
    BY Here
  <1>4. s \in Submissions
    BY <1>2, <1>3 DEF Commands
  <1>5. CASE Go(q, to(s))
    <2> DEFINE y == to(s)
    <2>1. x.job = "notify"
      BY <1>1, <1>3 DEF SoundAt
    <2>2. Go(q, y)
      BY <1>5
    <2> HIDE DEF x
    <2>3. y \in Commands
      BY <1>3, <1>4 DEF Commands, Pcs
    <2>4. /\ y.pc = "send" /\ y.job = x.job /\ y.ids = x.ids /\ y.base = x.base /\ y.one = s
          /\ y.todo = x.todo /\ y.kept = x.kept
      BY <1>3 DEF Commands
    <2> HIDE DEF y
    <2>5. SoundAt(y, record)
      BY <1>3, <1>4, <2>1, <2>4 DEF SoundAt
    <2>6. \A t \in Unfinished : HeldAt(y, t)
      BY <2>4 DEF HeldAt, HoldsAt
    <2> QED BY <1>1, <2>2, <2>3, <2>5, <2>6, Counts, Internal
  <1>6. CASE Go(q, Without(q, s))
    BY <1>1, <1>6, Counts, GoWithout
  <1> QED BY <1>2, <1>5, <1>6

\* One more message.
LEMMA OneMore ==
  ASSUME IInv, NEW s
  PROVE  [messages EXCEPT ![s] = @ + 1] \in [Submissions -> Nat]
  <1> DEFINE m == messages  n == m[s] + 1
  <1>1. m \in [Submissions -> Nat]
    BY Counts
  <1>2. s \in Submissions => n \in Nat
    BY <1>1
  <1> HIDE DEF n, m
  <1>3. [m EXCEPT ![s] = n] \in [Submissions -> Nat]
    BY <1>1, <1>2
  <1> QED BY <1>3 DEF n, m

\* A message touches neither file.
LEMMA SendKeeps ==
  ASSUME IInv, NEW q \in Workers, Send(q) PROVE IInv'
  <1> DEFINE x == w[q]  y == [x EXCEPT !.pc = "record"]
  <1>1. /\ UNCHANGED <<record, index, admitting, faults, slipped>> /\ x.pc = "send" /\ Go(q, y)
        /\ messages' = [messages EXCEPT ![x.one] = @ + 1]
    BY DEF Send
  <1>2. x \in Commands /\ SoundAt(x, record)
    BY Here
  <1>3. messages' \in [Submissions -> Nat]
    <2>1. messages' = [messages EXCEPT ![w[q].one] = @ + 1]
      BY <1>1
    <2> QED BY <2>1, OneMore
  <1> HIDE DEF x
  <1>4. y \in Commands
    BY <1>2 DEF Commands, Pcs
  <1>5. /\ y.pc = "record" /\ y.job = x.job /\ y.ids = x.ids /\ y.base = x.base /\ y.one = x.one
        /\ y.todo = x.todo /\ y.kept = x.kept
    BY <1>2 DEF Commands
  <1> HIDE DEF y
  <1>6. SoundAt(y, record)
    BY <1>1, <1>2, <1>5 DEF SoundAt
  <1>7. \A t \in Unfinished : HeldAt(y, t)
    BY <1>5 DEF HeldAt, HoldsAt
  <1> QED BY <1>1, <1>3, <1>4, <1>6, <1>7, Counts, Internal

\* Nor does one whose answer is lost.
LEMMA SendFailsKeeps ==
  ASSUME IInv, NEW q \in Workers, SendFails(q) PROVE IInv'
  <1>1. messages' \in {messages, [messages EXCEPT ![w[q].one] = @ + 1]}
    BY DEF SendFails
  <1>2. messages' \in [Submissions -> Nat]
    BY <1>1, Counts, OneMore
  <1>3. /\ UNCHANGED <<record, index, admitting, slipped>> /\ Fault
        /\ w[q].pc = "send" /\ Go(q, Without(q, w[q].one))
    BY DEF SendFails
  <1> QED BY <1>2, <1>3, Counts, GoWithout

\* An ingested report ends an unfinished submission.
LEMMA IngestKeeps ==
  ASSUME IInv, NEW q \in Workers, Ingest(q) PROVE IInv'
  <1>1. UNCHANGED <<index, admitting, messages, faults, slipped>> /\ w[q].pc = "ingest"
    BY DEF Ingest
  <1>2. w[q] \in Commands /\ SoundAt(w[q], record)
    BY Here
  <1>3. PICK s \in w[q].work :
          IF s \in w[q].live
          THEN \E alert \in {record[s].alert, "pending"} :
                 WriteRecord(q, s, [status |-> "ended", alert |-> alert], Without(q, s))
          ELSE Go(q, Without(q, s)) /\ UNCHANGED record
    BY DEF Ingest
  <1>4. s \in Submissions /\ record \in [Submissions -> Records]
    BY <1>2 DEF Commands, IInv, TypeOK
  <1>5. CASE s \in w[q].live
    <2>1. PICK alert \in {record[s].alert, "pending"} :
            WriteRecord(q, s, [status |-> "ended", alert |-> alert], Without(q, s))
      BY <1>3, <1>5
    <2> DEFINE r == [status |-> "ended", alert |-> alert]
    <2>2. r \in Records /\ r.status = "ended"
      BY <1>4 DEF Records, Statuses
    <2>3. record[s].status = "reporting"
      BY <1>1, <1>2, <1>5 DEF SoundAt
    <2>4. s \in Unfinished
      BY <1>4, <2>3 DEF Unfinished, finished_with
    <2>5. WriteRecord(q, s, r, Without(q, s))
      BY <2>1
    <2> HIDE DEF r
    <2> QED BY <1>1, <1>4, <2>2, <2>4, <2>5, Written, Counts
  <1>6. CASE s \notin w[q].live
    <2>1. Go(q, Without(q, s)) /\ UNCHANGED record
      BY <1>3, <1>6
    <2> QED BY <1>1, <2>1, Counts, GoWithout
  <1> QED BY <1>5, <1>6

\* A delivered alert leaves no more unfinished than there was.
LEMMA RecordSentKeeps ==
  ASSUME IInv, NEW q \in Workers, RecordSent(q) PROVE IInv'
  <1> DEFINE s == w[q].one
  <1>1. UNCHANGED <<index, admitting, messages, faults, slipped>> /\ w[q].pc = "record"
    BY DEF RecordSent
  <1>2. IF s \in w[q].live
        THEN WriteRecord(q, s, [record[s] EXCEPT !.alert = "sent"], Without(q, s))
        ELSE Go(q, Without(q, s)) /\ UNCHANGED record
    BY DEF RecordSent
  <1>3. s \in Submissions /\ record \in [Submissions -> Records]
    BY <1>1, Here DEF SoundAt, IInv, TypeOK
  <1> HIDE DEF s
  <1>4. CASE s \in w[q].live
    <2> DEFINE r == [record[s] EXCEPT !.alert = "sent"]
    <2>1. record[s] \in Records
      BY <1>3
    <2>2. r \in Records /\ r.status = record[s].status
      BY <2>1 DEF Records
    <2>3. WriteRecord(q, s, r, Without(q, s))
      BY <1>2, <1>4
    <2> HIDE DEF r
    <2>4. r.status # "absent" /\ ~finished_with(r) => s \in Unfinished
      <3>1. ~(r.status \in {"paused", "stopped", "ended"}) => ~finished_with(record[s])
        BY <2>2 DEF finished_with
      <3>2. r.alert = "sent"
        BY <2>1 DEF r, Records
      <3> QED BY <1>3, <2>2, <3>1, <3>2 DEF Unfinished, finished_with
    <2> QED BY <1>1, <1>3, <2>2, <2>3, <2>4, Written, Counts
  <1>5. CASE s \notin w[q].live
    <2>1. Go(q, Without(q, s)) /\ UNCHANGED record
      BY <1>2, <1>5
    <2> QED BY <1>1, <2>1, Counts, GoWithout
  <1> QED BY <1>4, <1>5

\* A requeue adds to the queue it holds.
LEMMA EnqueueKeeps ==
  ASSUME IInv, NEW q \in Workers, Enqueue(q) PROVE IInv'
  <1> DEFINE x == w[q]  s == x.one  ids == x.ids \cup {s}  new == x.new
             next == [Idle EXCEPT !.pc = "requeue", !.job = "requeue", !.one = s, !.live = x.live]
  <1>1. UNCHANGED <<record, admitting, messages, faults, slipped>> /\ x.pc = "enqueue"
    BY DEF Enqueue
  <1>2. \/ (Go(q, next) \/ Go(q, Idle)) /\ UNCHANGED index
        \/ Passes(q) /\ WriteIndex(q, ids, new, next)
    BY DEF Enqueue
  <1>3. x \in Commands /\ SoundAt(x, record)
    BY Here
  <1>4. s \in Submissions /\ record[s].status # "absent"
    BY <1>1, <1>3 DEF SoundAt
  <1>5. next \in Commands /\ SoundAt(next, record) /\ \A t : ~HoldsAt(next, t)
    <2> HIDE DEF x, s
    <2>1. next \in Commands
      BY <1>3, <1>4 DEF Idle, Commands, Pcs, Queues
    <2>2. /\ next.pc = "requeue" /\ next.job = "requeue" /\ next.one = s
          /\ next.base = {} /\ next.ids = {} /\ next.todo = {} /\ next.kept = {}
      BY DEF Idle
    <2> HIDE DEF next
    <2>3. SoundAt(next, record)
      BY <1>4, <2>2 DEF SoundAt
    <2>4. \A t : ~HoldsAt(next, t)
      BY <2>2 DEF HoldsAt
    <2> QED BY <2>1, <2>3, <2>4
  <1> HIDE DEF next
  <1>6. CASE Go(q, next) /\ UNCHANGED index
    <2>1. \A t \in Unfinished : HeldAt(next, t)
      BY <1>5 DEF HeldAt
    <2> QED BY <1>1, <1>5, <1>6, <2>1, Counts, Internal
  <1>7. CASE Go(q, Idle) /\ UNCHANGED index
    BY <1>1, <1>7, Counts, ToIdle
  <1>8. CASE Passes(q) /\ WriteIndex(q, ids, new, next)
    <2>1. ASSUME NEW t \in Unfinished \ ids PROVE t \in admitting \cup slipped'
      <3>1. CASE new
        <4>1. HoldsAt(x, t)
          BY <1>1, <2>1, <3>1 DEF HoldsAt
        <4> QED BY <1>1, <1>8, <4>1, LeftOut
      <3>2. CASE ~new
        <4>1. x.ids = index.open
          BY <1>1, <1>3, <1>8, <3>2 DEF SoundAt, Passes
        <4> QED BY <1>1, <2>1, <4>1 DEF IInv, UnfinishedIsListed
      <3> QED BY <3>1, <3>2
    <2>2. ids \in SUBSET Submissions /\ \A t \in ids : record[t].status # "absent"
      BY <1>3, <1>4 DEF Commands, Queues, SoundAt
    <2>3. new \in BOOLEAN
      BY <1>3 DEF Commands
    <2>4. UNCHANGED <<record, admitting, messages, faults>> /\ slipped' = slipped
          /\ WriteIndex(q, ids, new, next)
      BY <1>1, <1>8
    <2> HIDE DEF x, s, ids, new
    <2> QED BY <1>5, <2>1, <2>2, <2>3, <2>4, Indexed
  <1> QED BY <1>2, <1>6, <1>7, <1>8

\* A command that forgets one record.
LEMMA Forgets ==
  ASSUME IInv, NEW p \in Workers, NEW s
  PROVE  [w[p] EXCEPT !.live = w[p].live \ {s}] \in Commands
  <1>1. w[p] \in Commands
    BY Here
  <1> QED BY <1>1 DEF Commands

\* A finished record that is written anew is listed and held by nobody without it, or has
\* slipped.
LEMMA ReopensKeeps ==
  ASSUME IInv, NEW s \in Submissions, Reopens(s)
  PROVE  /\ slipped \subseteq slipped' /\ slipped' \subseteq Submissions
         /\ \/ s \in slipped'
            \/ s \in index.open \cup admitting /\ \A p \in Workers : ~HoldsAt(w[p], s)
  <1>1. slipped \subseteq Submissions
    BY DEF IInv, TypeOK
  <1> QED BY <1>1, HoldsIs DEF Reopens

\* A requeued registration is listed, or has slipped.
LEMMA RequeueKeeps ==
  ASSUME IInv, NEW q \in Workers, Requeue(q) PROVE IInv'
  <1> DEFINE s == w[q].one  r == [record[s] EXCEPT !.status = "working"]
  <1>1. UNCHANGED <<index, admitting, messages, faults>> /\ w[q].pc = "requeue"
    BY DEF Requeue
  <1>2. \/ /\ WriteRecord(q, s, r, Idle)
           /\ Reopens(s)
        \/ Go(q, Idle) /\ UNCHANGED <<record, slipped>>
    BY DEF Requeue
  <1>3. w[q] \in Commands /\ SoundAt(w[q], record)
    BY Here
  <1>4. s \in Submissions /\ record[s].status # "absent"
    BY <1>1, <1>3 DEF SoundAt
  <1>5. CASE Go(q, Idle) /\ UNCHANGED <<record, slipped>>
    BY <1>1, <1>5, Counts, ToIdle
  <1>6. CASE /\ WriteRecord(q, s, r, Idle)
             /\ Reopens(s)
    <2>1. record \in [Submissions -> Records] /\ slipped \subseteq Submissions
          /\ admitting \subseteq Submissions
      BY DEF IInv, TypeOK
    <2>2. r \in Records /\ r.status = "working"
      <3>1. record[s] \in Records
        BY <1>4, <2>1
      <3> QED BY <3>1 DEF Records, Statuses
    <2> HIDE DEF s, r
    <2>3. /\ record' = [record EXCEPT ![s] = r]
          /\ w' = [p \in Workers |-> IF p = q THEN Idle ELSE [w[p] EXCEPT !.live = w[p].live \ {s}]]
      BY <1>6 DEF WriteRecord
    <2>4. w'[q] = Idle /\ \A p \in Workers \ {q} : w'[p] = [w[p] EXCEPT !.live = w[p].live \ {s}]
      BY <2>3
    <2>5. ASSUME NEW p \in Workers PROVE w'[p] \in Commands
      <3>1. CASE p = q
        BY <2>4, <3>1, IdleHere
      <3>2. CASE p # q
        <4>1. w'[p] = [w[p] EXCEPT !.live = w[p].live \ {s}]
          BY <2>4, <3>2
        <4>2. [w[p] EXCEPT !.live = w[p].live \ {s}] \in Commands
          BY Forgets
        <4> QED BY <4>1, <4>2
      <3> QED BY <3>1, <3>2
    <2>6. w' \in [Workers -> Commands]
      BY <2>3, <2>5
    <2>7. \A p \in Workers : \/ SoundAt(w[p], record)' /\ \A t : ~HoldsAt(w'[p], t)
                             \/ w'[p] = [w[p] EXCEPT !.live = w[p].live \ {s}]
      BY <2>4, IdleHere
    <2>8. ASSUME NEW t \in admitting' PROVE record'[t].status # "absent"
      <3>1. t \in Submissions /\ record[t].status # "absent"
        BY <1>1, <2>1 DEF IInv, ListedExists
      <3>2. t = s => record'[t] = r
        BY <1>4, <2>1, <2>3
      <3>3. t # s => record'[t] = record[t]
        BY <2>1, <2>3, <3>1
      <3> QED BY <2>2, <3>1, <3>2, <3>3
    <2>9. slipped \subseteq slipped' /\ slipped' \subseteq Submissions
      BY <1>4, <1>6, <2>1, ReopensKeeps
    <2>10. \/ s \in slipped'
           \/ /\ s \in index.open \cup admitting'
              /\ \A p \in Workers : HoldsAt(w[p], s) => s \notin w[p].base
      BY <1>1, <1>4, <1>6, ReopensKeeps
    <2>11. admitting' = admitting /\ index' = index
      BY <1>1
    <2>12. messages' \in [Submissions -> Nat] /\ faults' \in 0..MaxFaults
      BY <1>1, Counts
    <2>13. r.status # "absent"
      BY <2>2
    <2> QED BY <1>4, <2>1, <2>2, <2>3, <2>6, <2>7, <2>8, <2>9, <2>10, <2>11, <2>12, <2>13, Recorded
  <1> QED BY <1>2, <1>5, <1>6

-----------------------------------------------------------------------------
\* The world.

\* The record of s becomes r by somebody else's write.
LEMMA WorldWrites ==
  ASSUME IInv, NEW s \in Submissions, NEW r \in Records, Changed(s, r),
         UNCHANGED <<index, messages>>, faults' \in 0..MaxFaults,
         slipped \subseteq slipped', slipped' \subseteq Submissions,
         admitting' \in {admitting, admitting \cup {s}}, r.status # "absent" \/ admitting' = admitting,
         record[s].status # "absent" => r.status # "absent",
         r.status # "absent" /\ ~finished_with(r) =>
           \/ s \in Unfinished
           \/ s \in slipped'
           \/ /\ s \in index.open \cup admitting'
              /\ \A p \in Workers : HoldsAt(w[p], s) => s \notin w[p].base
  PROVE  IInv'
  <1>1. record \in [Submissions -> Records] /\ slipped \subseteq Submissions
        /\ admitting \subseteq Submissions
    BY DEF IInv, TypeOK
  <1>2. /\ record' = [record EXCEPT ![s] = r]
        /\ w' = [p \in Workers |-> [w[p] EXCEPT !.live = w[p].live \ {s}]]
    BY DEF Changed
  <1>3. \A p \in Workers : w'[p] = [w[p] EXCEPT !.live = w[p].live \ {s}]
    BY <1>2
  <1>4. ASSUME NEW p \in Workers PROVE w'[p] \in Commands
    <2>1. w'[p] = [w[p] EXCEPT !.live = w[p].live \ {s}]
      BY <1>3
    <2>2. [w[p] EXCEPT !.live = w[p].live \ {s}] \in Commands
      BY Forgets
    <2> QED BY <2>1, <2>2
  <1>5. w' \in [Workers -> Commands]
    BY <1>2, <1>4
  <1>6. ASSUME NEW t \in admitting' PROVE record'[t].status # "absent"
    <2>1. t \in admitting => record[t].status # "absent" /\ t \in Submissions
      BY <1>1 DEF IInv, ListedExists
    <2>2. record'[s] = r /\ \A u \in Submissions \ {s} : record'[u] = record[u]
      BY <1>1, <1>2
    <2>3. CASE t \in admitting
      BY <2>1, <2>2, <2>3
    <2>4. CASE t \notin admitting
      BY <1>6, <2>2, <2>4
    <2> QED BY <2>3, <2>4
  <1>7. admitting \subseteq admitting' /\ admitting' \subseteq Submissions
    BY <1>1
  <1> QED BY <1>1, <1>2, <1>3, <1>5, <1>6, <1>7, Counts, Recorded

\* A new submission is in nobody's queue, and about to be listed.
LEMMA AdmitKeeps ==
  ASSUME IInv, NEW s \in Submissions, Admit(s) PROVE IInv'
  <1> DEFINE r == [record[s] EXCEPT !.status = "working"]
  <1>1. /\ record[s].status = "absent" /\ Changed(s, r) /\ admitting' = admitting \cup {s}
        /\ UNCHANGED <<index, messages, faults, slipped>>
    BY DEF Admit
  <1>2. record[s] \in Records /\ slipped \subseteq Submissions
    BY DEF IInv, TypeOK
  <1>3. r \in Records /\ r.status = "working"
    BY <1>2 DEF Records, Statuses
  <1> HIDE DEF r
  <1>4. ASSUME NEW p \in Workers PROVE s \notin w[p].base
    BY <1>1, Here DEF SoundAt
  <1>5. r.status # "absent" /\ s \in admitting'
    BY <1>1, <1>3
  <1> QED BY <1>1, <1>2, <1>3, <1>4, <1>5, Counts, WorldWrites

\* The lanes only finish submissions.
LEMMA AdvanceKeeps ==
  ASSUME IInv, NEW s \in Submissions, Advance(s) PROVE IInv'
  <1>1. record[s] \in Records /\ slipped \subseteq Submissions
    BY DEF IInv, TypeOK
  <1>2. UNCHANGED <<index, admitting, messages, faults, slipped>>
    BY DEF Advance
  <1>3. PICK status \in {"reporting", "paused", "stopped", "ended"} :
          /\ record[s].status \in {"working", "reporting", "paused", "registered"}
          /\ record[s].status = "working" \/ status \in {"stopped", "ended"}
          /\ Changed(s, [record[s] EXCEPT !.status = status])
    <2>1. Turns[s] \subseteq {"reporting", "paused", "stopped", "registered", "ended"}
      BY QueueAssumption
    <2> QED BY <2>1 DEF Advance
  <1> DEFINE r == [record[s] EXCEPT !.status = status]
  <1>4. r \in Records /\ r.status = status /\ r.alert = record[s].alert
    BY <1>1, <1>3 DEF Records, Statuses
  <1>5. Changed(s, r)
    BY <1>3
  <1> HIDE DEF r
  <1>6. r.status # "absent"
    BY <1>3, <1>4
  <1>7. ~finished_with(r) => s \in Unfinished
    BY <1>3, <1>4 DEF Unfinished, finished_with
  <1> QED BY <1>1, <1>2, <1>4, <1>5, <1>6, <1>7, Counts, WorldWrites

\* A registration that is finalized leaves its submission unfinished, whatever it was.
LEMMA FinalizeKeeps ==
  ASSUME IInv, NEW s \in Submissions, Finalize(s) PROVE IInv'
  <1>1. record[s] \in Records /\ slipped \subseteq Submissions
    BY DEF IInv, TypeOK
  <1> DEFINE r == [record[s] EXCEPT !.status = "registered"]
  <1>2. /\ record[s].status \in {"working", "paused", "stopped"} /\ Changed(s, r)
        /\ UNCHANGED <<index, admitting, messages, faults>>
    BY DEF Finalize
  <1>3. r \in Records /\ r.status = "registered"
    BY <1>1 DEF Records, Statuses
  <1> HIDE DEF r
  <1>4. CASE finished_with(record[s])
    <2>1. Reopens(s)
      BY <1>4 DEF Finalize
    <2>2. /\ slipped \subseteq slipped' /\ slipped' \subseteq Submissions
          /\ \/ s \in slipped'
             \/ s \in index.open \cup admitting /\ \A p \in Workers : ~HoldsAt(w[p], s)
      BY <2>1, ReopensKeeps
    <2> QED BY <1>2, <1>3, <2>2, Counts, WorldWrites
  <1>5. CASE ~finished_with(record[s])
    <2>1. s \in Unfinished
      BY <1>2, <1>5 DEF Unfinished
    <2>2. UNCHANGED slipped
      BY <1>5 DEF Finalize
    <2> QED BY <1>1, <1>2, <1>3, <2>1, <2>2, Counts, WorldWrites
  <1> QED BY <1>4, <1>5

\* A write that changes nothing here.
LEMMA TouchKeeps ==
  ASSUME IInv, NEW s \in Submissions, Touch(s) PROVE IInv'
  <1>1. record[s] \in Records /\ slipped \subseteq Submissions
    BY DEF IInv, TypeOK
  <1>2. UNCHANGED <<index, admitting, messages, slipped>> /\ Fault /\ Changed(s, record[s])
    BY DEF Touch
  <1>3. record[s].status # "absent" /\ ~finished_with(record[s]) => s \in Unfinished
    BY DEF Unfinished
  <1> QED BY <1>1, <1>2, <1>3, Counts, WorldWrites

\* No command moves and no record changes: what is listed anyhow stays so, and what
\* slips out is only more.
LEMMA Elsewhere ==
  ASSUME IInv, UNCHANGED <<record, w, messages>>, faults' \in 0..MaxFaults,
         index' \in [open : Queues, due : BOOLEAN], admitting' \subseteq admitting,
         slipped \subseteq slipped', slipped' \subseteq Submissions,
         index.open \subseteq index'.open, index'.open \subseteq index.open \cup admitting,
         index.open \cup admitting \cup slipped \subseteq index'.open \cup admitting' \cup slipped'
  PROVE  IInv'
  <1>1. Unfinished' = Unfinished
    BY DEF Unfinished, finished_with
  <1>2. TypeOK'
    BY DEF IInv, TypeOK
  <1>3. UnfinishedIsListed' /\ ListedExists'
    BY <1>1 DEF IInv, UnfinishedIsListed, ListedExists
  <1>4. Sound'
    <2>1. \A p \in Workers : SoundAt(w[p], record)'
      BY DEF IInv, Sound
    <2> QED BY <2>1 DEF Sound
  <1>5. Held'
    <2>1. ASSUME NEW p \in Workers, NEW s \in Unfinished PROVE HeldAt(w[p], s)'
      BY Here DEF HeldAt
    <2> QED BY <1>1, <2>1 DEF Held
  <1> QED BY <1>2, <1>3, <1>4, <1>5 DEF IInv

\* An admission reaches the index.
LEMMA AdmitIndexKeeps ==
  ASSUME IInv, NEW s \in Submissions, AdmitIndex(s) PROVE IInv'
  <1>1. /\ s \in admitting /\ admitting' = admitting \ {s}
        /\ index' = [index EXCEPT !.open = index.open \cup {s}]
        /\ UNCHANGED <<record, w, messages, faults, slipped>>
    BY DEF AdmitIndex
  <1>2. index \in [open : Queues, due : BOOLEAN] /\ slipped \subseteq Submissions
    BY DEF IInv, TypeOK
  <1>3. index' \in [open : Queues, due : BOOLEAN] /\ index'.open = index.open \cup {s}
    BY <1>1, <1>2 DEF Queues
  <1> QED BY <1>1, <1>2, <1>3, Counts, Elsewhere

\* An admission that does not has slipped.
LEMMA AdmitFailsKeeps ==
  ASSUME IInv, NEW s \in Submissions, AdmitFails(s) PROVE IInv'
  <1>1. /\ s \in admitting /\ admitting' = admitting \ {s} /\ Fault
        /\ slipped' = IF s \in index.open THEN slipped ELSE slipped \cup {s}
        /\ UNCHANGED <<record, index, w, messages>>
    BY DEF AdmitFails
  <1>2. index \in [open : Queues, due : BOOLEAN] /\ slipped \subseteq Submissions
    BY DEF IInv, TypeOK
  <1> QED BY <1>1, <1>2, Counts, Elsewhere

\* An index falls due.
LEMMA WeekPassesKeeps ==
  ASSUME IInv, WeekPasses PROVE IInv'
  <1>1. /\ index' = [index EXCEPT !.due = TRUE]
        /\ UNCHANGED <<record, w, admitting, messages, faults, slipped>>
    BY DEF WeekPasses
  <1>2. index \in [open : Queues, due : BOOLEAN] /\ slipped \subseteq Submissions
    BY DEF IInv, TypeOK
  <1>3. index' \in [open : Queues, due : BOOLEAN] /\ index'.open = index.open
    BY <1>1, <1>2
  <1> QED BY <1>1, <1>2, <1>3, Counts, Elsewhere

-----------------------------------------------------------------------------
\* Every step keeps the invariant.
LEMMA NextKeeps == IInv /\ [Next]_vars => IInv'
  <1> SUFFICES ASSUME IInv, [Next]_vars PROVE IInv'
    OBVIOUS
  <1>1. ASSUME NEW q \in Workers, Step(q) PROVE IInv'
    <2>1. CASE OpenIndex(q) \/ BeginSweep(q) \/ BeginRequeue(q) \/ Capture(q) \/ Clone(q)
      BY <2>1, OpenIndexKeeps, BeginSweepKeeps, BeginRequeueKeeps, CaptureKeeps, CloneKeeps
    <2>2. CASE Rebuild(q) \/ ReadBack(q) \/ Swept(q) \/ Read(q) \/ Drop(q)
      BY <2>2, RebuildKeeps, ReadBackKeeps, SweptKeeps, ReadKeeps, DropKeeps
    <2>3. CASE Ingest(q) \/ Notify(q) \/ Send(q) \/ RecordSent(q) \/ Enqueue(q) \/ Requeue(q)
      BY <2>3, IngestKeeps, NotifyKeeps, SendKeeps, RecordSentKeeps, EnqueueKeeps, RequeueKeeps
    <2> QED BY <1>1, <2>1, <2>2, <2>3 DEF Step
  <1>2. ASSUME NEW q \in Workers, Failure(q) PROVE IInv'
    BY <1>2, CrashKeeps, ReadFailsKeeps, IndexUnreadKeeps, SendFailsKeeps DEF Failure
  <1>3. ASSUME World PROVE IInv'
    BY <1>3, AdmitKeeps, AdmitIndexKeeps, AdmitFailsKeeps, AdvanceKeeps, FinalizeKeeps, TouchKeeps,
       WeekPassesKeeps
    DEF World
  <1>4. ASSUME UNCHANGED vars PROVE IInv'
    <2>1. UNCHANGED <<record, index, w, admitting, messages, faults, slipped>>
      BY <1>4 DEF vars
    <2>2. index \in [open : Queues, due : BOOLEAN] /\ slipped \subseteq Submissions
      BY DEF IInv, TypeOK
    <2> QED BY <2>1, <2>2, Counts, Elsewhere
  <1> QED BY <1>1, <1>2, <1>3, <1>4 DEF Next

\* The inductive invariant holds throughout: what every command holds is either listed
\* otherwise or was derived from a queue that is no longer the live one.
THEOREM Invariance == Spec => []IInv
  <1>1. Init => IInv
    BY InitIInv
  <1>2. IInv /\ [Next]_vars => IInv'
    BY NextKeeps
  <1> QED BY <1>1, <1>2, PTL DEF Spec

\* The state of the records, of the index and of the commands is what TypeOK says.
THEOREM Typed == Spec => []TypeOK
  <1>1. IInv => TypeOK
    BY DEF IInv
  <1> QED BY <1>1, Invariance, PTL

\* No scan, sweep, failed read, late write or crash loses an unfinished submission from
\* the queue (open_submissions, rebuild_open_index), but for the three ways that slipped
\* records: a failed admission, and a requeue or a finalized registration that meets an
\* index without the id, or a command about to write one (retry_registration, finalize).
THEOREM QueueIsComplete == Spec => []UnfinishedIsListed
  <1>1. IInv => UnfinishedIsListed
    BY DEF IInv
  <1> QED BY <1>1, Invariance, PTL

-----------------------------------------------------------------------------
\* What a sweep may rely on.

\* Where q stands when the world moves,
LEMMA PcOfAll ==
  ASSUME IInv, NEW q \in Workers, World
  PROVE  w'[q].pc = w[q].pc
  <1>1. w[q] \in Commands
    BY Here
  <1>2. \A l : [w[q] EXCEPT !.live = l].pc = w[q].pc
    BY <1>1 DEF Commands
  <1>3. ASSUME NEW s, NEW r, Changed(s, r) PROVE w'[q].pc = w[q].pc
    BY <1>2, <1>3 DEF Changed
  <1>4. (\E s, r : Changed(s, r)) \/ UNCHANGED w
    BY DEF World, Admit, AdmitIndex, AdmitFails, Advance, Finalize, Touch, WeekPasses
  <1> QED BY <1>3, <1>4

\* and when another command moves.
LEMMA PcOfOthers ==
  ASSUME IInv, NEW q \in Workers, NEW p \in Workers \ {q}
  PROVE  /\ \A v : Go(p, v) => w'[q].pc = w[q].pc
         /\ \A s, r, v : WriteRecord(p, s, r, v) => w'[q].pc = w[q].pc
         /\ \A ids, new, v : WriteIndex(p, ids, new, v) => w'[q].pc = w[q].pc
  <1>1. w[q] \in Commands /\ w \in [Workers -> Commands]
    BY Here
  <1>2. \A l : [w[q] EXCEPT !.live = l].pc = w[q].pc
    BY <1>1 DEF Commands
  <1>3. \A d : [w[q] EXCEPT !.dated = d].pc = w[q].pc
    BY <1>1 DEF Commands
  <1>4. ASSUME NEW v, Go(p, v) PROVE w'[q].pc = w[q].pc
    BY <1>1, <1>4 DEF Go
  <1>5. ASSUME NEW s, NEW r, NEW v, WriteRecord(p, s, r, v) PROVE w'[q].pc = w[q].pc
    BY <1>2, <1>5 DEF WriteRecord
  <1>6. ASSUME NEW ids, NEW new, NEW v, WriteIndex(p, ids, new, v) PROVE w'[q].pc = w[q].pc
    BY <1>3, <1>6 DEF WriteIndex
  <1> QED BY <1>4, <1>5, <1>6

\* A command comes to "swept" from "readback" by reading the index back.
LEMMA OnlyByReadBack ==
  ASSUME IInv, Next, NEW q \in Workers, w[q].pc = "readback", w'[q].pc = "swept"
  PROVE  ReadBack(q)
  <1>1. ASSUME NEW p \in Workers \ {q}, Step(p) PROVE w'[q].pc = w[q].pc
    <2>1. CASE OpenIndex(p) \/ BeginSweep(p) \/ BeginRequeue(p) \/ Capture(p) \/ Clone(p)
      BY <2>1, PcOfOthers DEF OpenIndex, BeginSweep, BeginRequeue, Capture, Clone
    <2>2. CASE Rebuild(p) \/ ReadBack(p) \/ Swept(p)
      BY <2>2, PcOfOthers DEF Rebuild, ReadBack, Swept
    <2>3. CASE Read(p)
      BY <2>3, PcOfOthers DEF Read
    <2>4. CASE Drop(p)
      BY <2>4, PcOfOthers DEF Drop
    <2>5. CASE Ingest(p)
      BY <2>5, PcOfOthers DEF Ingest
    <2>6. CASE Notify(p) \/ Send(p) \/ RecordSent(p)
      BY <2>6, PcOfOthers DEF Notify, Send, RecordSent
    <2>7. CASE Enqueue(p) \/ Requeue(p)
      BY <2>7, PcOfOthers DEF Enqueue, Requeue
    <2> QED BY <1>1, <2>1, <2>2, <2>3, <2>4, <2>5, <2>6, <2>7 DEF Step
  <1>2. ASSUME NEW p \in Workers \ {q}, Failure(p) PROVE w'[q].pc = w[q].pc
    BY <1>2, PcOfOthers DEF Failure, Crash, ReadFails, IndexUnread, SendFails
  <1>3. w[q] \in Commands /\ w \in [Workers -> Commands]
    BY Here
  <1>4. ASSUME Failure(q) PROVE FALSE
    <2>1. \A v \in Opening(q) : v.pc = "open" \/ w[q].pc = "idle"
      BY DEF Opening
    <2>2. Opening(q) = {}
      BY DEF Opening
    <2>3. Crash(q)
      BY <1>4, <2>2 DEF Failure, ReadFails, IndexUnread, SendFails
    <2>4. w'[q] = Idle
      BY <1>3, <2>3 DEF Crash, Go
    <2> QED BY <2>4 DEF Idle
  <1>5. ASSUME Step(q) PROVE ReadBack(q)
    <2>1. Opening(q) = {}
      BY DEF Opening
    <2> QED BY <1>5, <2>1 DEF Step, OpenIndex, BeginSweep, BeginRequeue, Capture, Clone, Rebuild,
              Swept, Read, Drop, Ingest, Notify, Send, RecordSent, Enqueue, Requeue
  <1>6. \/ \E p \in Workers : Step(p) \/ Failure(p)
        \/ World
    BY DEF Next
  <1> QED BY <1>1, <1>2, <1>4, <1>5, <1>6, PcOfAll

\* A step that ends a sweep finds its clone in the live index.
LEMMA SweepStep ==
  ASSUME IInv, [Next]_vars
  PROVE  \A q \in Workers : w[q].pc = "readback" /\ w'[q].pc = "swept"
                              => w[q].ids \subseteq index.open
  <1> SUFFICES ASSUME NEW q \in Workers, w[q].pc = "readback", w'[q].pc = "swept"
               PROVE  w[q].ids \subseteq index.open
    OBVIOUS
  <1>1. w[q] \in Commands /\ w \in [Workers -> Commands] /\ SoundAt(w[q], record)
    BY Here
  <1>2. ReadBack(q)
    BY OnlyByReadBack DEF vars
  <1>3. ~w[q].new /\ Passes(q)
    <2>1. ASSUME ~(~w[q].new /\ Passes(q)) PROVE w'[q] = Idle
      BY <1>1, <1>2, <2>1 DEF ReadBack, Go
    <2> QED BY <2>1 DEF Idle
  <1>4. w[q].ids = w[q].base
    BY <1>1, <1>3 DEF SoundAt
  <1> QED BY <1>3, <1>4 DEF Passes

\* rebuild_queue fails unless the live index lists every unfinished submission of its
\* clone, whatever was written to the index meanwhile.
THEOREM SweepsAreRecorded == Spec => SweepIsRecorded
  <1>1. IInv /\ [Next]_vars
          => [\A q \in Workers : w[q].pc = "readback" /\ w'[q].pc = "swept"
                => w[q].ids \subseteq index.open]_vars
    BY SweepStep
  <1> QED BY <1>1, Invariance, PTL DEF Spec, SweepIsRecorded
=============================================================================
