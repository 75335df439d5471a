-------------------------- MODULE AlertsSentProofs --------------------------
(***************************************************************************)
(* How often the alerts of a submission reach the maintainers, whatever    *)
(* number of notifications run at the same time, and whatever is written   *)
(* to its record between a message and the note that it was sent.          *)
(***************************************************************************)
EXTENDS OpenQueueProofs, FiniteSetTheorems

Notifiers == {q \in Workers : "notify" \in Jobs[q]}

\* Commands about to send the alerts of s, and those whose note would be refused now;
\* and those that sent them and whose note would pass.
Sending(s) == {q \in Workers : w[q].pc = "send" /\ w[q].one = s}
Unsure(s) == {q \in Sending(s) : s \notin w[q].live}
Recording(s) == {q \in Workers : w[q].pc = "record" /\ w[q].one = s /\ s \in w[q].live}

\* What a command x knows of the records r it goes by, and of the messages m.
KnownAt(x, r, m) ==
    /\ x.job = "requeue" /\ x.one \in x.live => r[x.one].status = "paused"
    /\ x.pc \in {"send", "record"} =>
         r[x.one].alert # "none" /\ (x.one \in x.live => r[x.one].alert = "pending")
    /\ x.pc = "record" => m[x.one] > 0

Known == \A q \in Workers : KnownAt(w[q], record, messages) /\ (w[q].job = "notify" => q \in Notifiers)

\* Only what has ended has alerts here.
Ended == \A s \in Submissions : record[s].alert # "none" => record[s].status = "ended"

\* A message is accounted for by a fault, or by a command that will note it; once it is
\* noted, at most every notifier may have sent it too.
CountedAt(s) ==
    /\ record[s].alert = "none" => messages[s] = 0
    /\ record[s].alert = "sent" => messages[s] > 0
    /\ record[s].alert = "pending" =>
         messages[s] + Cardinality(Unsure(s))
           <= Cardinality(Notifiers) * faults + Cardinality(Recording(s))
    /\ record[s].alert = "sent" =>
         messages[s] + Cardinality(Sending(s))
           <= Cardinality(Notifiers) * faults + Cardinality(Notifiers)

SInv == Known /\ Ended /\ \A s \in Submissions : CountedAt(s)

-----------------------------------------------------------------------------
\* Numbers.

\* The budget of messages grows by one for every notifier with every fault.
LEMMA Budget ==
  ASSUME IInv
  PROVE  LET n == Cardinality(Notifiers)
         IN  /\ IsFiniteSet(Notifiers) /\ n \in Nat /\ faults \in Nat /\ n * faults \in Nat
             /\ n * (1 + faults) = n * faults + n
             /\ faults' = faults + 1 => n * faults' = n * faults + n
             /\ \A s \in Submissions : messages[s] \in Nat
  <1> DEFINE n == Cardinality(Notifiers)
  <1>1. Notifiers \subseteq Workers
    BY DEF Notifiers
  <1>2. IsFiniteSet(Notifiers) /\ n \in Nat
    BY <1>1, QueueAssumption, FS_Subset, FS_CardinalityType
  <1>3. faults \in Nat /\ \A s \in Submissions : messages[s] \in Nat
    BY QueueAssumption DEF IInv, TypeOK
  <1> HIDE DEF n
  <1>4. \A f \in Nat : n * f \in Nat /\ n * (1 + f) = n * f + n /\ n * (f + 1) = n * f + n
    BY <1>2
  <1> QED BY <1>2, <1>3, <1>4 DEF n

\* Those who send and those who note are different notifiers.
LEMMA Apart ==
  ASSUME IInv, Known, NEW s
  PROVE  /\ IsFiniteSet(Sending(s)) /\ IsFiniteSet(Unsure(s)) /\ IsFiniteSet(Recording(s))
         /\ Cardinality(Sending(s)) \in Nat /\ Cardinality(Unsure(s)) \in Nat
         /\ Cardinality(Recording(s)) \in Nat
         /\ Cardinality(Unsure(s)) <= Cardinality(Sending(s))
         /\ Cardinality(Sending(s)) + Cardinality(Recording(s))
              <= Cardinality(Unsure(s)) + Cardinality(Notifiers)
  <1> DEFINE S == Sending(s)  U == Unsure(s)  R == Recording(s)  V == S \ U
  <1>1. ASSUME NEW q \in S \cup R PROVE q \in Notifiers
    <2>1. q \in Workers /\ w[q].pc \in {"send", "record"}
      BY <1>1 DEF Sending, Recording
    <2> QED BY <2>1, Here DEF SoundAt, Known
  <1>2. S \subseteq Notifiers /\ R \subseteq Notifiers /\ U \subseteq S
    BY <1>1 DEF Unsure
  <1>3. IsFiniteSet(Notifiers)
    BY Budget
  <1>4. IsFiniteSet(S) /\ IsFiniteSet(R) /\ IsFiniteSet(U) /\ IsFiniteSet(V)
    BY <1>2, <1>3, FS_Subset
  <1>5. V \cap R = {} /\ V \cup R \subseteq Notifiers /\ U \cap V = {} /\ U \cup V = S
    BY <1>2 DEF Sending, Recording
  <1> HIDE DEF S, U, R, V
  <1>6. Cardinality(S) = Cardinality(U) + Cardinality(V)
    <2>1. Cardinality(U \cap V) = 0
      BY <1>5, FS_EmptySet
    <2>2. Cardinality(U \cup V) = Cardinality(U) + Cardinality(V) - Cardinality(U \cap V)
      BY <1>4, FS_Union
    <2>3. Cardinality(S) = Cardinality(U) + Cardinality(V) - 0
      BY <1>5, <2>1, <2>2
    <2>4. Cardinality(U) \in Nat /\ Cardinality(V) \in Nat
      BY <1>4, FS_CardinalityType
    <2> QED BY <2>3, <2>4
  <1>7. Cardinality(V) + Cardinality(R) <= Cardinality(Notifiers)
    <2>1. Cardinality(V \cap R) = 0
      BY <1>5, FS_EmptySet
    <2>2. Cardinality(V \cup R) = Cardinality(V) + Cardinality(R) - Cardinality(V \cap R)
      BY <1>4, FS_Union
    <2>3. Cardinality(V \cup R) <= Cardinality(Notifiers)
      BY <1>3, <1>5, FS_Subset
    <2> QED BY <1>4, <2>1, <2>2, <2>3, FS_CardinalityType
  <1>8. Cardinality(S) \in Nat /\ Cardinality(U) \in Nat /\ Cardinality(V) \in Nat
        /\ Cardinality(R) \in Nat /\ Cardinality(Notifiers) \in Nat
    BY <1>3, <1>4, FS_CardinalityType
  <1> QED BY <1>4, <1>6, <1>7, <1>8 DEF S, U, R

\* The same, of the next state.
Parted(s) ==
    /\ IsFiniteSet(Sending(s)) /\ IsFiniteSet(Unsure(s)) /\ IsFiniteSet(Recording(s))
    /\ Cardinality(Sending(s)) \in Nat /\ Cardinality(Unsure(s)) \in Nat
    /\ Cardinality(Recording(s)) \in Nat
    /\ Cardinality(Unsure(s)) <= Cardinality(Sending(s))

\* The same after the step.
LEMMA ApartNext == IInv' /\ Known' => \A s \in Submissions : Parted(s)'
  <1> DEFINE P == \A s \in Submissions : Parted(s)
  <1>1. IInv /\ Known => P
    BY Apart DEF Parted
  <1>2. IInv' /\ Known' => P'
    <2> HIDE DEF P
    <2> QED BY <1>1, PTL
  <1> QED BY <1>2

\* Whatever is on its way is within the budget of the next fault.
LEMMA Ceiling ==
  ASSUME IInv, SInv, NEW s \in Submissions, record[s].alert # "none"
  PROVE  messages[s] + Cardinality(Sending(s))
           <= Cardinality(Notifiers) * faults + Cardinality(Notifiers)
  <1> DEFINE m == messages[s]  b == Cardinality(Notifiers) * faults  n == Cardinality(Notifiers)
             S == Cardinality(Sending(s))  U == Cardinality(Unsure(s))
             R == Cardinality(Recording(s))
  <1>1. m \in Nat /\ b \in Nat /\ n \in Nat
    BY Budget
  <1>2. S \in Nat /\ U \in Nat /\ R \in Nat /\ S + R <= U + n
    BY Apart DEF SInv
  <1>3. record[s].alert \in {"pending", "sent"}
    BY DEF IInv, TypeOK, Records
  <1>4. record[s].alert = "pending" => m + U <= b + R
    BY DEF SInv, CountedAt
  <1>5. record[s].alert = "sent" => m + S <= b + n
    BY DEF SInv, CountedAt
  <1> HIDE DEF m, b, n, S, U, R
  <1>6. m + U <= b + R => m + S <= b + n
    BY <1>1, <1>2
  <1>7. m + S <= b + n
    BY <1>3, <1>4, <1>5, <1>6
  <1> QED BY <1>7 DEF m, b, n, S

-----------------------------------------------------------------------------
\* What a step leaves of the commands.

Alike(y, x) == y.pc = x.pc /\ y.one = x.one /\ y.job = x.job

\* q goes on as v, and the others stand where they stood.
Onward(q, v) ==
    /\ w'[q] = v
    /\ \A p \in Workers \ {q} : Alike(w'[p], w[p]) /\ w'[p].live = w[p].live

\* After a write of the record of s nobody else goes by what it read of it.
Outdated(p, s) == Alike(w'[p], w[p]) /\ w'[p].live = w[p].live \ {s}

\* Whoever writes moves on, and outdates the copies of the others.
LEMMA Onwards ==
  ASSUME IInv, NEW q \in Workers
  PROVE  /\ \A v : Go(q, v) => Onward(q, v)
         /\ \A ids, new, v : WriteIndex(q, ids, new, v) => Onward(q, v)
         /\ \A s, r, v : WriteRecord(q, s, r, v) =>
              w'[q] = v /\ \A p \in Workers \ {q} : Outdated(p, s)
         /\ \A s, r : Changed(s, r) => \A p \in Workers : Outdated(p, s)
  <1>1. w \in [Workers -> Commands]
    BY Here
  <1>2. ASSUME NEW v, Go(q, v) PROVE Onward(q, v)
    BY <1>1, <1>2 DEF Go, Onward, Alike
  <1>3. ASSUME NEW p \in Workers, NEW d
        PROVE  LET y == [w[p] EXCEPT !.dated = d] IN Alike(y, w[p]) /\ y.live = w[p].live
    <2> DEFINE x == w[p]
    <2>1. x \in Commands
      BY <1>1
    <2> HIDE DEF x
    <2>2. LET y == [x EXCEPT !.dated = d] IN Alike(y, x) /\ y.live = x.live
      BY <2>1 DEF Commands, Alike
    <2> QED BY <2>2 DEF x
  <1>4. ASSUME NEW p \in Workers, NEW l
        PROVE  LET y == [w[p] EXCEPT !.live = l] IN Alike(y, w[p]) /\ y.live = l
    <2> DEFINE x == w[p]
    <2>1. x \in Commands
      BY <1>1
    <2> HIDE DEF x
    <2>2. LET y == [x EXCEPT !.live = l] IN Alike(y, x) /\ y.live = l
      BY <2>1 DEF Commands, Alike
    <2> QED BY <2>2 DEF x
  <1>5. ASSUME NEW ids, NEW new, NEW v, WriteIndex(q, ids, new, v) PROVE Onward(q, v)
    <2>1. w' = [p \in Workers |-> IF p = q THEN v ELSE [w[p] EXCEPT !.dated = w[p].dated /\ ~new]]
      BY <1>5 DEF WriteIndex
    <2> QED BY <1>3, <2>1 DEF Onward
  <1>6. ASSUME NEW s, NEW r, NEW v, WriteRecord(q, s, r, v)
        PROVE  w'[q] = v /\ \A p \in Workers \ {q} : Outdated(p, s)
    <2>1. w' = [p \in Workers |-> IF p = q THEN v ELSE [w[p] EXCEPT !.live = w[p].live \ {s}]]
      BY <1>6 DEF WriteRecord
    <2> QED BY <1>4, <2>1 DEF Outdated
  <1>7. ASSUME NEW s, NEW r, Changed(s, r), NEW p \in Workers PROVE Outdated(p, s)
    <2>1. w' = [u \in Workers |-> [w[u] EXCEPT !.live = w[u].live \ {s}]]
      BY <1>7 DEF Changed
    <2> QED BY <1>4, <2>1 DEF Outdated
  <1> QED BY <1>2, <1>5, <1>6, <1>7

-----------------------------------------------------------------------------
\* What a step leaves of the counts.

\* A step that is no fault, for a submission nothing happens to.
LEMMA CalmCount ==
  ASSUME IInv, SInv, Known', NEW s \in Submissions, IInv',
         record'[s].alert = record[s].alert, messages'[s] = messages[s], faults' = faults,
         record[s].alert = "pending" => Unsure(s)' \subseteq Unsure(s)
                                        /\ Recording(s) \subseteq Recording(s)',
         record[s].alert = "sent" => Sending(s)' \subseteq Sending(s)
  PROVE  CountedAt(s)'
  <1> DEFINE m == messages[s]  b == Cardinality(Notifiers) * faults  n == Cardinality(Notifiers)
             S == Cardinality(Sending(s))  U == Cardinality(Unsure(s))
             R == Cardinality(Recording(s))
             mm == messages'[s]  bb == Cardinality(Notifiers) * faults'
             SS == Cardinality(Sending(s)')  UU == Cardinality(Unsure(s)')
             RR == Cardinality(Recording(s)')
  <1>1. m \in Nat /\ b \in Nat /\ n \in Nat
    BY Budget
  <1>2. S \in Nat /\ U \in Nat /\ R \in Nat /\ IsFiniteSet(Sending(s)) /\ IsFiniteSet(Unsure(s))
    BY Apart DEF SInv
  <1>3. /\ SS \in Nat /\ UU \in Nat /\ RR \in Nat /\ IsFiniteSet(Recording(s)')
    BY ApartNext DEF Parted
  <1>4. record[s].alert = "pending" => UU <= U /\ R <= RR
    BY <1>2, <1>3, FS_Subset
  <1>5. record[s].alert = "sent" => SS <= S
    BY <1>2, FS_Subset
  <1>6. CountedAt(s)
    BY DEF SInv
  <1>7. bb = b /\ mm = m
    BY DEF Notifiers
  <1>8. ASSUME record[s].alert = "pending" PROVE mm + UU <= bb + RR
    <2>1. m + U <= b + R /\ UU <= U /\ R <= RR
      BY <1>4, <1>6, <1>8 DEF CountedAt
    <2> HIDE DEF m, b, n, S, U, R, mm, bb, SS, UU, RR
    <2> QED BY <1>1, <1>2, <1>3, <1>7, <2>1
  <1>9. ASSUME record[s].alert = "sent" PROVE mm + SS <= bb + n
    <2>1. m + S <= b + n /\ SS <= S
      BY <1>5, <1>6, <1>9 DEF CountedAt
    <2> HIDE DEF m, b, n, S, U, R, mm, bb, SS, UU, RR
    <2> QED BY <1>1, <1>2, <1>3, <1>7, <2>1
  <1> QED BY <1>6, <1>8, <1>9 DEF CountedAt

\* A fault pays for a message of every notifier.
LEMMA FaultCount ==
  ASSUME IInv, SInv, Known', NEW s \in Submissions, IInv',
         record'[s].alert = record[s].alert, faults' = faults + 1,
         messages[s] <= messages'[s],
         record[s].alert = "none" => messages'[s] = messages[s],
         record[s].alert # "none" =>
           messages'[s] + Cardinality(Sending(s)') <= messages[s] + Cardinality(Sending(s))
  PROVE  CountedAt(s)'
  <1> DEFINE m == messages[s]  b == Cardinality(Notifiers) * faults  n == Cardinality(Notifiers)
             S == Cardinality(Sending(s))  U == Cardinality(Unsure(s))
             R == Cardinality(Recording(s))
             mm == messages'[s]  bb == Cardinality(Notifiers) * faults'
             SS == Cardinality(Sending(s)')  UU == Cardinality(Unsure(s)')
             RR == Cardinality(Recording(s)')
  <1>1. m \in Nat /\ mm \in Nat /\ b \in Nat /\ n \in Nat
    BY Budget DEF IInv, TypeOK
  <1>2. S \in Nat
    BY Apart DEF SInv
  <1>3. /\ SS \in Nat /\ UU \in Nat /\ RR \in Nat /\ UU <= SS
    BY ApartNext DEF Parted
  <1>4. bb = b + n
    BY Budget DEF Notifiers
  <1>5. CountedAt(s)
    BY DEF SInv
  <1>6. ASSUME record[s].alert # "none" PROVE mm + SS <= bb /\ mm + UU <= bb + RR
    <2>1. m + S <= b + n
      BY <1>6, Ceiling
    <2>2. mm + SS <= m + S
      BY <1>6
    <2> HIDE DEF m, b, n, S, U, R, mm, bb, SS, UU, RR
    <2> QED BY <1>1, <1>2, <1>3, <1>4, <2>1, <2>2
  <1>7. ASSUME record[s].alert # "none" PROVE mm + SS <= bb + n /\ mm + UU <= bb + RR
    <2> HIDE DEF m, b, n, S, U, R, mm, bb, SS, UU, RR
    <2> QED BY <1>1, <1>3, <1>4, <1>6, <1>7
  <1>8. record[s].alert = "sent" => mm > 0
    <2>1. record[s].alert = "sent" => m > 0
      BY <1>5 DEF CountedAt
    <2>2. m <= mm
      OBVIOUS
    <2> HIDE DEF m, mm
    <2> QED BY <1>1, <2>1, <2>2
  <1> QED BY <1>5, <1>7, <1>8 DEF CountedAt

-----------------------------------------------------------------------------
\* Steps that neither send nor note.

\* What q may be after such a step.
Fine(q, v) ==
    /\ v.pc \notin {"send", "record"}
    /\ v.job = "requeue" /\ v.one \in v.live => record[v.one].status = "paused"
    /\ v.job = "notify" => q \in Notifiers

\* q goes on as v, which is fine, and no record is written.
LEMMA Aside ==
  ASSUME IInv, SInv, IInv', NEW q \in Workers, NEW v, Onward(q, v), Fine(q, v),
         UNCHANGED <<record, messages>>,
         \/ faults' = faults /\ (w[q].pc = "record" => w[q].one \notin w[q].live)
         \/ faults' = faults + 1
  PROVE  SInv'
  <1>1. ASSUME NEW p \in Workers
        PROVE  KnownAt(w'[p], record, messages) /\ (w'[p].job = "notify" => p \in Notifiers)
    <2>1. CASE p = q
      BY <2>1 DEF Onward, Fine, KnownAt
    <2>2. CASE p # q
      BY <2>2 DEF Onward, Alike, SInv, Known, KnownAt
    <2> QED BY <2>1, <2>2
  <1>2. Known'
    BY <1>1 DEF Known, KnownAt, Notifiers
  <1>3. Ended'
    BY DEF SInv, Ended
  <1>4. ASSUME NEW s \in Submissions PROVE CountedAt(s)'
    <2>1. Sending(s)' \subseteq Sending(s) /\ Unsure(s)' \subseteq Unsure(s)
      BY DEF Sending, Unsure, Onward, Alike, Fine
    <2>2. CASE faults' = faults /\ (w[q].pc = "record" => w[q].one \notin w[q].live)
      <3>1. Recording(s) \subseteq Recording(s)'
        BY <2>2 DEF Recording, Onward, Alike
      <3> QED BY <1>2, <2>1, <2>2, <3>1, CalmCount
    <2>3. CASE faults' = faults + 1
      <3> DEFINE m == messages[s]  S == Cardinality(Sending(s))  SS == Cardinality(Sending(s)')
      <3>1. IsFiniteSet(Sending(s)) /\ S \in Nat /\ m \in Nat
        BY Apart, Budget DEF SInv
      <3>2. SS <= S /\ SS \in Nat
        BY <2>1, <3>1, FS_Subset, FS_CardinalityType
      <3>3. m + SS <= m + S /\ m <= m
        <4> HIDE DEF m, S, SS
        <4> QED BY <3>1, <3>2
      <3> QED BY <1>2, <2>3, <3>3, FaultCount
    <2> QED BY <2>2, <2>3
  <1> QED BY <1>2, <1>3, <1>4 DEF SInv

\* A command that starts, or is done, is fine.
LEMMA IdleFine ==
  ASSUME NEW q PROVE Fine(q, Idle)
  BY DEF Fine, Idle

\* So is one that keeps its task.
LEMMA TaskFine ==
  ASSUME IInv, SInv, NEW q \in Workers, NEW v, v.pc \notin {"send", "record"}, v.job = w[q].job,
         v.job = "requeue" => v.one = w[q].one /\ v.live = w[q].live
  PROVE  Fine(q, v)
  BY DEF SInv, Known, KnownAt, Fine

\* Or starts a scan.
LEMMA OpeningFine ==
  ASSUME IInv, SInv, NEW q \in Workers, NEW v \in Opening(q), NEW y,
         y.pc \notin {"send", "record"}, y.job = v.job, y.one = v.one, y.live = v.live
  PROVE  Fine(q, y)
  <1>1. CASE v = w[q]
    BY <1>1, TaskFine
  <1>2. ASSUME NEW job \in Jobs[q] \ {"sweep", "requeue"}, v = [Idle EXCEPT !.job = job]
        PROVE  Fine(q, y)
    <2>1. v.job = job
      BY <1>2 DEF Idle
    <2> QED BY <1>2, <2>1 DEF Fine, Notifiers
  <1> QED BY <1>1, <1>2 DEF Opening

\* What After leaves of a command.
LEMMA AfterIs ==
  ASSUME NEW x \in Commands
  PROVE  LET y == After(x)
         IN  y.pc \notin {"send", "record"} /\ y.job = x.job /\ y.one = x.one /\ y.live = x.live
  BY DEF After, Commands

\* A command that is done with a submission goes on to the next one.
LEMMA WithoutFine ==
  ASSUME IInv, SInv, NEW q \in Workers, NEW s, w[q].pc \in {"ingest", "notify", "send", "record"}
  PROVE  Fine(q, Without(q, s))
  <1>1. w[q] \in Commands /\ w[q].job \in {"ingest", "notify"}
    BY Here DEF SoundAt
  <1>2. CASE w[q].work = {s}
    BY <1>2, IdleFine DEF Without
  <1>3. CASE w[q].work # {s}
    <2> DEFINE x == w[q]
               y == [x EXCEPT !.pc = x.job, !.work = x.work \ {s}, !.live = x.live \ {s}, !.one = None]
    <2>1. Without(q, s) = y
      BY <1>3 DEF Without
    <2>2. x \in Commands /\ x.job \in {"ingest", "notify"}
      BY <1>1
    <2> HIDE DEF x
    <2>3. y.pc = x.job /\ y.job = x.job
      BY <2>2 DEF Commands
    <2> HIDE DEF y
    <2> QED BY <2>1, <2>2, <2>3, TaskFine DEF x
  <1> QED BY <1>2, <1>3

\* The steps of a command that write no record.
LEMMA QuietSteps ==
  ASSUME IInv, SInv, IInv', NEW q \in Workers,
         BeginRequeue(q) \/ BeginSweep(q) \/ Capture(q) \/ Clone(q) \/ ReadBack(q) \/ Swept(q)
  PROVE  SInv'
  <1>1. UNCHANGED <<record, messages, faults>> /\ w[q].pc # "record"
    BY DEF BeginRequeue, BeginSweep, Capture, Clone, ReadBack, Swept
  <1>2. w[q] \in Commands
    BY Here
  <1>3. ASSUME NEW v, Go(q, v), Fine(q, v) PROVE SInv'
    BY <1>1, <1>3, Onwards, Aside
  <1>4. CASE BeginRequeue(q)
    <2>1. PICK s \in Submissions :
            /\ record[s].status = "paused"
            /\ Go(q, [Idle EXCEPT !.pc = "open", !.job = "requeue", !.one = s, !.live = {s}])
      BY <1>4 DEF BeginRequeue
    <2> DEFINE v == [Idle EXCEPT !.pc = "open", !.job = "requeue", !.one = s, !.live = {s}]
    <2>2. v.pc = "open" /\ v.job = "requeue" /\ v.one = s
      BY DEF Idle
    <2>3. Go(q, v)
      BY <2>1
    <2> HIDE DEF v
    <2>4. Fine(q, v)
      BY <2>1, <2>2 DEF Fine
    <2> QED BY <1>3, <2>3, <2>4
  <1>5. CASE BeginSweep(q)
    <2> DEFINE v == [Idle EXCEPT !.pc = "capture", !.job = "sweep"]
    <2>1. v.pc = "capture" /\ v.job = "sweep" /\ Go(q, v)
      BY <1>5 DEF Idle, BeginSweep
    <2> HIDE DEF v
    <2>2. Fine(q, v)
      BY <2>1 DEF Fine
    <2> QED BY <1>3, <2>1, <2>2
  <1>6. CASE Capture(q)
    <2> DEFINE x == w[q]  v == [x EXCEPT !.pc = "clone", !.base = index.open, !.dated = TRUE]
    <2>1. Go(q, v) /\ x \in Commands
      BY <1>2, <1>6 DEF Capture
    <2> HIDE DEF x
    <2>2. v.pc = "clone" /\ v.job = x.job /\ v.one = x.one /\ v.live = x.live
      BY <2>1 DEF Commands
    <2> HIDE DEF v
    <2> QED BY <1>3, <2>1, <2>2, TaskFine DEF x
  <1>7. CASE Clone(q)
    <2> DEFINE x == w[q]  v == [x EXCEPT !.pc = "rebuild", !.ids = Unfinished]
    <2>1. Go(q, v) /\ x \in Commands
      BY <1>2, <1>7 DEF Clone
    <2> HIDE DEF x
    <2>2. v.pc = "rebuild" /\ v.job = x.job /\ v.one = x.one /\ v.live = x.live
      BY <2>1 DEF Commands
    <2> HIDE DEF v
    <2> QED BY <1>3, <2>1, <2>2, TaskFine DEF x
  <1>8. CASE ReadBack(q) \/ Swept(q)
    <2>1. CASE Go(q, Idle)
      BY <1>3, <2>1, IdleFine
    <2>2. CASE ~Go(q, Idle)
      <3> DEFINE x == w[q]  v == [x EXCEPT !.pc = "swept"]
      <3>1. Go(q, v) /\ x \in Commands
        BY <1>2, <1>8, <2>2 DEF ReadBack, Swept
      <3> HIDE DEF x
      <3>2. v.pc = "swept" /\ v.job = x.job /\ v.one = x.one /\ v.live = x.live
        BY <3>1 DEF Commands
      <3> HIDE DEF v
      <3> QED BY <1>3, <3>1, <3>2, TaskFine DEF x
    <2> QED BY <2>1, <2>2
  <1> QED BY <1>4, <1>5, <1>6, <1>7, <1>8

\* Opening the index sends nothing and notes nothing.
LEMMA OpenSteps ==
  ASSUME IInv, SInv, IInv', NEW q \in Workers, OpenIndex(q) \/ IndexUnread(q)
  PROVE  SInv'
  <1>1. /\ UNCHANGED <<record, messages>> /\ w[q].pc # "record"
        /\ faults' = faults \/ faults' = faults + 1
    <2>1. UNCHANGED <<record, messages>> /\ (faults' = faults \/ faults' = faults + 1)
      BY DEF OpenIndex, IndexUnread, Fault
    <2>2. Opening(q) # {} => w[q].pc \in {"idle", "open"}
      BY DEF Opening
    <2> QED BY <2>1, <2>2 DEF OpenIndex, IndexUnread
  <1>2. ASSUME NEW v, Go(q, v), Fine(q, v) PROVE SInv'
    BY <1>1, <1>2, Onwards, Aside
  <1>3. PICK v \in Opening(q) :
          \/ Go(q, [v EXCEPT !.pc = "capture"])
          \/ Go(q, After([v EXCEPT !.ids = index.open, !.base = index.open, !.dated = TRUE]))
    BY DEF OpenIndex, IndexUnread
  <1>4. v \in Commands
    BY OpeningHere
  <1>5. CASE Go(q, [v EXCEPT !.pc = "capture"])
    <2> DEFINE y == [v EXCEPT !.pc = "capture"]
    <2>1. y.pc = "capture" /\ y.job = v.job /\ y.one = v.one /\ y.live = v.live
      BY <1>4 DEF Commands
    <2>2. Go(q, y)
      BY <1>5
    <2> HIDE DEF y
    <2> QED BY <1>2, <2>1, <2>2, OpeningFine
  <1>6. CASE Go(q, After([v EXCEPT !.ids = index.open, !.base = index.open, !.dated = TRUE]))
    <2> DEFINE x == [v EXCEPT !.ids = index.open, !.base = index.open, !.dated = TRUE]
               y == After(x)
    <2>1. x \in Commands /\ x.job = v.job /\ x.one = v.one /\ x.live = v.live
      <3>1. index.open \in Queues
        BY DEF IInv, TypeOK
      <3> QED BY <1>4, <3>1 DEF Commands
    <2>2. Go(q, y)
      BY <1>6
    <2> HIDE DEF x
    <2>3. y.pc \notin {"send", "record"} /\ y.job = x.job /\ y.one = x.one /\ y.live = x.live
      BY <2>1, AfterIs
    <2> HIDE DEF y
    <2> QED BY <1>2, <2>1, <2>2, <2>3, OpeningFine
  <1> QED BY <1>3, <1>5, <1>6

\* Nor does rebuilding it,
LEMMA RebuildSteps ==
  ASSUME IInv, SInv, IInv', NEW q \in Workers, Rebuild(q)
  PROVE  SInv'
  <1>1. UNCHANGED <<record, messages, faults>> /\ w[q].pc = "rebuild"
    BY DEF Rebuild
  <1> DEFINE x == w[q]  x1 == [x EXCEPT !.base = x.ids]  x2 == [x EXCEPT !.new = TRUE]
             y1 == After(x1)  y2 == After(x2)
  <1>2. WriteIndex(q, x.ids, TRUE, y1) \/ Go(q, y2)
    BY DEF Rebuild
  <1>3. x \in Commands
    BY Here
  <1>4. Onward(q, y1) \/ Onward(q, y2)
    <2> HIDE DEF y1, y2
    <2> QED BY <1>2, Onwards
  <1> HIDE DEF x
  <1>5. /\ x1 \in Commands /\ x1.job = x.job /\ x1.one = x.one /\ x1.live = x.live
        /\ x2 \in Commands /\ x2.job = x.job /\ x2.one = x.one /\ x2.live = x.live
    BY <1>3 DEF Commands
  <1> HIDE DEF x1, x2
  <1>6. /\ y1.pc \notin {"send", "record"} /\ y1.job = x.job /\ y1.one = x.one /\ y1.live = x.live
        /\ y2.pc \notin {"send", "record"} /\ y2.job = x.job /\ y2.one = x.one /\ y2.live = x.live
    BY <1>5, AfterIs
  <1> HIDE DEF y1, y2
  <1>7. Fine(q, y1) /\ Fine(q, y2)
    BY <1>6, TaskFine DEF x
  <1> QED BY <1>1, <1>4, <1>7, Aside

\* scanning the records,
LEMMA ScanSteps ==
  ASSUME IInv, SInv, IInv', NEW q \in Workers, Read(q) \/ ReadFails(q)
  PROVE  SInv'
  <1>1. /\ UNCHANGED <<record, messages>> /\ w[q].pc = "scan"
        /\ faults' = faults \/ faults' = faults + 1
    BY DEF Read, ReadFails, Fault
  <1> DEFINE x == w[q]
             read(todo, work, live, kept) ==
               [x EXCEPT !.todo = todo, !.work = work, !.live = live, !.kept = kept]
             unread(todo, kept) == [x EXCEPT !.todo = todo, !.kept = kept]
  <1>2. \/ \E todo, work, live, kept : Go(q, read(todo, work, live, kept))
        \/ \E todo, kept : Go(q, unread(todo, kept))
    BY DEF Read, ReadFails
  <1>3. x \in Commands /\ x.job \in {"pass", "ingest", "notify"} /\ x.pc = "scan"
    BY <1>1, Here DEF SoundAt
  <1> HIDE DEF x
  <1>4. ASSUME NEW todo, NEW work, NEW live, NEW kept
        PROVE  read(todo, work, live, kept).pc = x.pc /\ read(todo, work, live, kept).job = x.job
    BY <1>3 DEF Commands
  <1>5. ASSUME NEW todo, NEW kept
        PROVE  unread(todo, kept).pc = x.pc /\ unread(todo, kept).job = x.job
    BY <1>3 DEF Commands
  <1>6. PICK v : Go(q, v) /\ v.pc = x.pc /\ v.job = x.job
    <2> HIDE DEF read, unread
    <2> QED BY <1>2, <1>4, <1>5
  <1>7. Fine(q, v)
    BY <1>3, <1>6, TaskFine DEF x
  <1> QED BY <1>1, <1>6, <1>7, Onwards, Aside

\* dropping what is finished,
LEMMA DropSteps ==
  ASSUME IInv, SInv, IInv', NEW q \in Workers, Drop(q)
  PROVE  SInv'
  <1> DEFINE x == w[q]
             work == [Idle EXCEPT !.pc = x.job, !.job = x.job, !.work = x.work, !.live = x.live]
             v == IF x.work = {} THEN Idle ELSE work
  <1>1. UNCHANGED <<record, messages, faults>> /\ x.pc = "scan"
    BY DEF Drop
  <1>2. WriteIndex(q, x.kept, x.new, v) \/ Go(q, v)
    BY DEF Drop
  <1>3. Onward(q, v)
    <2> HIDE DEF v
    <2> QED BY <1>2, Onwards
  <1>4. x.job \in {"pass", "ingest", "notify"}
    BY <1>1, Here DEF SoundAt
  <1>5. work.pc = x.job /\ work.job = x.job
    BY DEF Idle
  <1>6. Fine(q, work)
    <2> HIDE DEF work
    <2> QED BY <1>4, <1>5, TaskFine
  <1>7. Fine(q, v)
    BY <1>6, IdleFine
  <1> HIDE DEF v
  <1> QED BY <1>1, <1>3, <1>7, Aside

\* or enqueueing.
LEMMA EnqueueSteps ==
  ASSUME IInv, SInv, IInv', NEW q \in Workers, Enqueue(q)
  PROVE  SInv'
  <1> DEFINE x == w[q]
             v == [Idle EXCEPT !.pc = "requeue", !.job = "requeue", !.one = x.one, !.live = x.live]
  <1>1. UNCHANGED <<record, messages, faults>> /\ x.pc = "enqueue"
    BY DEF Enqueue
  <1>2. WriteIndex(q, x.ids \cup {x.one}, x.new, v) \/ Go(q, v) \/ Go(q, Idle)
    BY DEF Enqueue
  <1>3. x.job = "requeue"
    BY <1>1, Here DEF SoundAt
  <1>4. v.pc = "requeue" /\ v.job = "requeue" /\ v.one = x.one /\ v.live = x.live
    BY DEF Idle
  <1> HIDE DEF v
  <1>5. Fine(q, v)
    BY <1>3, <1>4, TaskFine
  <1>6. Onward(q, v) \/ Onward(q, Idle)
    BY <1>2, Onwards
  <1> QED BY <1>1, <1>5, <1>6, IdleFine, Aside

\* A command that dies takes its note with it, which a fault pays for.
LEMMA CrashSteps ==
  ASSUME IInv, SInv, IInv', NEW q \in Workers, Crash(q)
  PROVE  SInv'
  BY Onwards, IdleFine, Aside DEF Crash, Fault

-----------------------------------------------------------------------------
\* Steps that write a record.

\* A command that does no more than forget what it read of s, or is not about alerts.
Remote(p, s) ==
    \/ Outdated(p, s)
    \/ /\ w[p].pc \notin {"send", "record"} /\ w'[p].pc \notin {"send", "record"}
       /\ w'[p].job # "requeue" /\ (w'[p].job = "notify" => p \in Notifiers)

\* A submission without alerts is written: nobody was about to send or note any.
LEMMA Fresh ==
  ASSUME IInv, SInv, IInv', NEW s \in Submissions, NEW r \in Records,
         record' = [record EXCEPT ![s] = r], UNCHANGED <<messages, faults>>,
         record[s].alert = "none", r.alert \in {"none", "pending"},
         r.alert # "none" => r.status = "ended",
         \A p \in Workers : Remote(p, s)
  PROVE  SInv'
  <1>1. /\ record \in [Submissions -> Records]
        /\ record'[s] = r /\ \A t \in Submissions \ {s} : record'[t] = record[t]
    BY DEF IInv, TypeOK
  <1>2. ASSUME NEW p \in Workers
        PROVE  KnownAt(w'[p], record', messages) /\ (w'[p].job = "notify" => p \in Notifiers)
    <2>1. CASE Outdated(p, s)
      <3>1. KnownAt(w[p], record, messages) /\ (w[p].job = "notify" => p \in Notifiers)
        BY DEF SInv, Known
      <3>2. Alike(w'[p], w[p]) /\ w'[p].live = w[p].live \ {s}
        BY <2>1 DEF Outdated
      <3>3. w[p].job = "requeue" \/ w[p].pc \in {"send", "record"} => w[p].one \in Submissions
        BY Here DEF SoundAt
      <3>4. w[p].pc \in {"send", "record"} => w[p].one # s
        BY <3>1 DEF KnownAt
      <3> QED BY <1>1, <3>1, <3>2, <3>3, <3>4 DEF Alike, KnownAt
    <2>2. CASE ~Outdated(p, s)
      BY <2>2 DEF Remote, KnownAt
    <2> QED BY <2>1, <2>2
  <1>3. Known'
    <2>1. messages' = messages
      OBVIOUS
    <2> QED BY <1>2, <2>1 DEF Known, KnownAt, Notifiers
  <1>4. Ended'
    BY <1>1 DEF SInv, Ended
  <1>5. ASSUME NEW t \in Submissions \ {s} PROVE CountedAt(t)'
    <2>1. Sending(t)' = Sending(t) /\ Unsure(t)' = Unsure(t)
      BY DEF Sending, Unsure, Remote, Outdated, Alike
    <2>2. Recording(t)' = Recording(t)
      BY DEF Recording, Remote, Outdated, Alike
    <2> QED BY <1>1, <1>3, <2>1, <2>2, CalmCount
  <1>6. CountedAt(s)'
    <2>1. Unsure(s)' = {}
      <3>1. ASSUME NEW p \in Unsure(s)' PROVE FALSE
        <4>1. p \in Workers /\ w'[p].pc = "send" /\ w'[p].one = s
          BY DEF Unsure, Sending
        <4>2. w[p].pc = "send" /\ w[p].one = s
          BY <4>1 DEF Remote, Outdated, Alike
        <4> QED BY <4>1, <4>2 DEF SInv, Known, KnownAt
      <3> QED BY <3>1
    <2>2. messages[s] = 0
      BY DEF SInv, CountedAt
    <2> DEFINE b == Cardinality(Notifiers) * faults  R == Cardinality(Recording(s)')
    <2>3. b \in Nat /\ R \in Nat
      BY <1>3, Budget, ApartNext DEF Parted
    <2>4. 0 + 0 <= b + R
      <3> HIDE DEF b, R
      <3> QED BY <2>3
    <2>5. Cardinality(Unsure(s)') = 0
      BY <2>1, FS_EmptySet
    <2>6. messages'[s] = 0 /\ faults' = faults
      BY <2>2
    <2>7. record'[s].alert \in {"none", "pending"}
      BY <1>1
    <2>8. messages'[s] + Cardinality(Unsure(s)') <= Cardinality(Notifiers) * faults' + R
      BY <2>4, <2>5, <2>6
    <2> QED BY <2>6, <2>7, <2>8 DEF CountedAt, Notifiers
  <1>7. \A t \in Submissions : CountedAt(t)'
    BY <1>5, <1>6
  <1> QED BY <1>3, <1>4, <1>7 DEF SInv

\* Ingestion may queue an alert.
LEMMA IngestSteps ==
  ASSUME IInv, SInv, IInv', NEW q \in Workers, Ingest(q)
  PROVE  SInv'
  <1>1. UNCHANGED <<messages, faults>> /\ w[q].pc = "ingest" /\ w[q].job = "ingest"
    BY Here DEF Ingest, SoundAt
  <1>2. PICK s \in w[q].work :
          \/ /\ s \in w[q].live
             /\ \E alert \in {record[s].alert, "pending"} :
                  WriteRecord(q, s, [status |-> "ended", alert |-> alert], Without(q, s))
          \/ Go(q, Without(q, s)) /\ UNCHANGED record
    BY DEF Ingest
  <1>3. Fine(q, Without(q, s))
    BY <1>1, WithoutFine
  <1>4. CASE Go(q, Without(q, s)) /\ UNCHANGED record
    BY <1>1, <1>3, <1>4, Onwards, Aside
  <1>5. CASE /\ s \in w[q].live
             /\ \E alert \in {record[s].alert, "pending"} :
                  WriteRecord(q, s, [status |-> "ended", alert |-> alert], Without(q, s))
    <2>1. PICK alert \in {record[s].alert, "pending"} :
            WriteRecord(q, s, [status |-> "ended", alert |-> alert], Without(q, s))
      BY <1>5
    <2>2. s \in Submissions
      BY Here DEF Commands
    <2>3. record[s].status = "reporting" /\ record[s] \in Records
      BY <1>1, <1>5, <2>2, Here DEF SoundAt, IInv, TypeOK
    <2>4. record[s].alert = "none"
      BY <2>2, <2>3 DEF SInv, Ended
    <2> DEFINE r == [status |-> "ended", alert |-> alert]  v == Without(q, s)
    <2>5. r \in Records /\ r.alert \in {"none", "pending"} /\ r.status = "ended"
      BY <2>4 DEF Records, Statuses
    <2>6. record' = [record EXCEPT ![s] = r]
      BY <2>1 DEF WriteRecord
    <2>7. v.job # "requeue"
      <3>1. CASE w[q].work = {s}
        BY <3>1 DEF Without, Idle
      <3>2. CASE w[q].work # {s}
        BY <1>1, <3>2, Here DEF Without, Commands
      <3> QED BY <3>1, <3>2
    <2>8. w'[q] = v /\ \A p \in Workers \ {q} : Outdated(p, s)
      BY <2>1, Onwards
    <2> HIDE DEF v, r
    <2>9. \A p \in Workers : Remote(p, s)
      BY <1>1, <1>3, <2>7, <2>8 DEF Remote, Fine, v
    <2> QED BY <1>1, <2>2, <2>4, <2>5, <2>6, <2>9, Fresh
  <1> QED BY <1>2, <1>4, <1>5

\* A requeue changes only what has no alert pending.
LEMMA RequeueSteps ==
  ASSUME IInv, SInv, IInv', NEW q \in Workers, Requeue(q)
  PROVE  SInv'
  <1> DEFINE s == w[q].one  y == record[s]  r == [y EXCEPT !.status = "working"]
  <1>1. UNCHANGED <<messages, faults>> /\ w[q].pc = "requeue" /\ w[q].job = "requeue"
    BY Here DEF Requeue, SoundAt
  <1>2. (s \in w[q].live /\ WriteRecord(q, s, r, Idle)) \/ (Go(q, Idle) /\ UNCHANGED record)
    BY DEF Requeue
  <1>3. CASE Go(q, Idle) /\ UNCHANGED record
    BY <1>1, <1>3, IdleFine, Onwards, Aside
  <1>4. CASE s \in w[q].live /\ WriteRecord(q, s, r, Idle)
    <2>1. s \in Submissions /\ y \in Records
      BY <1>1, Here DEF SoundAt, IInv, TypeOK
    <2>2. y.status = "paused"
      BY <1>1, <1>4 DEF SInv, Known, KnownAt
    <2>3. y.alert = "none"
      BY <2>1, <2>2 DEF SInv, Ended
    <2>4. record' = [record EXCEPT ![s] = r]
      BY <1>4 DEF WriteRecord
    <2>5. w'[q] = Idle /\ \A p \in Workers \ {q} : Outdated(p, s)
      BY <1>4, Onwards
    <2>6. \A p \in Workers : Remote(p, s)
      BY <1>1, <2>5 DEF Remote, Idle
    <2> HIDE DEF y
    <2>7. r \in Records /\ r.alert = "none"
      BY <2>1, <2>3 DEF Records, Statuses
    <2> HIDE DEF r
    <2> QED BY <1>1, <2>1, <2>3, <2>4, <2>6, <2>7, Fresh DEF y
  <1> QED BY <1>2, <1>3, <1>4

\* What is admitted, goes on or is finalized has no alert.
LEMMA AdmitSteps ==
  ASSUME IInv, SInv, IInv', NEW s \in Submissions, Admit(s) \/ Advance(s) \/ Finalize(s)
  PROVE  SInv'
  <1> DEFINE y == record[s]
  <1>1. UNCHANGED <<messages, faults>>
    BY DEF Admit, Advance, Finalize
  <1>2. y.status # "ended"
    BY DEF Admit, Advance, Finalize
  <1>3. y \in Records /\ y.alert = "none"
    BY <1>2 DEF SInv, Ended, IInv, TypeOK
  <1>4. PICK status \in {"working", "reporting", "paused", "stopped", "registered", "ended"} :
          Changed(s, [y EXCEPT !.status = status])
    BY QueueAssumption DEF Admit, Advance, Finalize
  <1> DEFINE r == [y EXCEPT !.status = status]
  <1>5. record' = [record EXCEPT ![s] = r]
    BY <1>4 DEF Changed
  <1>6. \A p \in Workers : Remote(p, s)
    BY <1>4, Onwards DEF Remote
  <1> HIDE DEF y
  <1>7. r \in Records /\ r.alert = "none"
    BY <1>3 DEF Records, Statuses
  <1> HIDE DEF r
  <1> QED BY <1>1, <1>3, <1>5, <1>6, <1>7, Fresh DEF y

-----------------------------------------------------------------------------
\* Sending, and noting what was sent.

\* A notifier that begins to send goes by a pending alert.
LEMMA NotifySteps ==
  ASSUME IInv, SInv, IInv', NEW q \in Workers, Notify(q)
  PROVE  SInv'
  <1> DEFINE x == w[q]  send(s) == [x EXCEPT !.pc = "send", !.one = s, !.live = x.live \cup {s}]
  <1>1. UNCHANGED <<record, messages, faults>> /\ x.pc = "notify"
    BY DEF Notify
  <1>2. PICK s \in x.work :
          Go(q, IF record[s].alert = "pending" THEN send(s) ELSE Without(q, s))
    BY DEF Notify
  <1>3. x \in Commands /\ x.job = "notify" /\ s \in Submissions
    BY <1>1, Here DEF SoundAt, Commands
  <1>4. CASE record[s].alert # "pending"
    <2>1. Onward(q, Without(q, s))
      BY <1>2, <1>4, Onwards
    <2> QED BY <1>1, <2>1, WithoutFine, Aside
  <1>5. CASE record[s].alert = "pending"
    <2> DEFINE v == send(s)
    <2>1. Go(q, v)
      BY <1>2, <1>5
    <2>2. v.pc = "send" /\ v.one = s /\ v.job = "notify" /\ s \in v.live
      <3> HIDE DEF x
      <3> QED BY <1>3 DEF Commands
    <2> HIDE DEF v
    <2>3. Onward(q, v)
      BY <2>1, Onwards
    <2>4. ASSUME NEW p \in Workers
          PROVE  KnownAt(w'[p], record, messages) /\ (w'[p].job = "notify" => p \in Notifiers)
      <3>1. CASE p = q
        BY <1>3, <1>5, <2>2, <2>3, <3>1 DEF Onward, KnownAt, SInv, Known
      <3>2. CASE p # q
        BY <2>3, <3>2 DEF Onward, Alike, SInv, Known, KnownAt
      <3> QED BY <3>1, <3>2
    <2>5. Known'
      BY <1>1, <2>4 DEF Known, KnownAt, Notifiers
    <2>6. Ended'
      BY <1>1 DEF SInv, Ended
    <2>7. ASSUME NEW t \in Submissions PROVE CountedAt(t)'
      <3>1. Unsure(t)' \subseteq Unsure(t)
        BY <2>2, <2>3 DEF Unsure, Sending, Onward, Alike
      <3>2. Recording(t) \subseteq Recording(t)'
        BY <1>1, <2>3 DEF Recording, Onward, Alike
      <3>3. record[t].alert = "sent" => Sending(t)' \subseteq Sending(t)
        BY <1>5, <2>2, <2>3 DEF Sending, Onward, Alike
      <3> QED BY <1>1, <2>5, <3>1, <3>2, <3>3, CalmCount
    <2> QED BY <2>5, <2>6, <2>7 DEF SInv
  <1> QED BY <1>4, <1>5

\* A message is matched by the command that will note it, or its note fails.
LEMMA SendSteps ==
  ASSUME IInv, SInv, IInv', NEW q \in Workers, Send(q)
  PROVE  SInv'
  <1> DEFINE x == w[q]  v == [x EXCEPT !.pc = "record"]
  <1>0. PICK s \in Submissions : s = x.one
    BY Here DEF Send, SoundAt
  <1>1. UNCHANGED <<record, faults>> /\ x.pc = "send" /\ Go(q, v)
        /\ messages' = [messages EXCEPT ![s] = messages[s] + 1]
    BY <1>0 DEF Send
  <1>2. x \in Commands /\ s = x.one
    BY <1>0, Here
  <1>3. v.pc = "record" /\ v.one = s /\ v.job = x.job /\ v.live = x.live
    <2> HIDE DEF x
    <2> QED BY <1>2 DEF Commands
  <1> HIDE DEF v
  <1>4. Onward(q, v)
    BY <1>1, Onwards
  <1>5. /\ messages \in [Submissions -> Nat] /\ messages' \in [Submissions -> Nat]
        /\ messages'[s] = messages[s] + 1
        /\ \A t \in Submissions \ {s} : messages'[t] = messages[t]
        /\ \A t \in Submissions : messages[t] > 0 => messages'[t] > 0
    BY <1>1, <1>2 DEF IInv, TypeOK
  <1>6. messages'[s] > 0
    BY <1>2, <1>5
  <1>7. ASSUME NEW p \in Workers
        PROVE  KnownAt(w'[p], record, messages') /\ (w'[p].job = "notify" => p \in Notifiers)
    <2>1. KnownAt(w[p], record, messages) /\ (w[p].job = "notify" => p \in Notifiers)
      BY DEF SInv, Known
    <2>2. CASE p = q
      BY <1>1, <1>2, <1>3, <1>4, <1>6, <2>1, <2>2 DEF Onward, KnownAt
    <2>3. CASE p # q
      <3>1. w[p].pc = "record" => w[p].one \in Submissions
        BY Here DEF SoundAt
      <3>2. Alike(w'[p], w[p]) /\ w'[p].live = w[p].live
        BY <1>4, <2>3 DEF Onward
      <3> QED BY <1>5, <2>1, <3>1, <3>2 DEF Alike, KnownAt
    <2> QED BY <2>2, <2>3
  <1>8. Known'
    BY <1>1, <1>7 DEF Known, KnownAt, Notifiers
  <1>9. Ended'
    BY <1>1 DEF SInv, Ended
  <1>10. ASSUME NEW t \in Submissions \ {s} PROVE CountedAt(t)'
    <2>1. Unsure(t)' \subseteq Unsure(t) /\ Sending(t)' \subseteq Sending(t)
      BY <1>3, <1>4 DEF Unsure, Sending, Onward, Alike
    <2>2. Recording(t) \subseteq Recording(t)'
      BY <1>1, <1>4 DEF Recording, Onward, Alike
    <2> QED BY <1>1, <1>5, <1>8, <2>1, <2>2, CalmCount
  <1>11. CountedAt(s)'
    <2> DEFINE m == messages[s]  b == Cardinality(Notifiers) * faults  n == Cardinality(Notifiers)
               S == Cardinality(Sending(s))  U == Cardinality(Unsure(s))
               R == Cardinality(Recording(s))
               mm == messages'[s]  bb == Cardinality(Notifiers) * faults'
               SS == Cardinality(Sending(s)')  UU == Cardinality(Unsure(s)')
               RR == Cardinality(Recording(s)')
    <2>1. /\ m \in Nat /\ b \in Nat /\ n \in Nat /\ S \in Nat /\ U \in Nat /\ R \in Nat
          /\ SS \in Nat /\ UU \in Nat /\ RR \in Nat
      BY <1>2, <1>8, Budget, Apart, ApartNext DEF SInv, Parted
    <2>2. mm = m + 1 /\ bb = b
      BY <1>1, <1>5
    <2>3. /\ IsFiniteSet(Sending(s)) /\ IsFiniteSet(Unsure(s)) /\ IsFiniteSet(Recording(s))
          /\ IsFiniteSet(Recording(s)')
      BY <1>2, <1>8, Apart, ApartNext DEF SInv, Parted
    <2>4. q \in Sending(s) /\ q \notin Recording(s)
      BY <1>1, <1>2 DEF Sending, Recording
    <2>5. SS = S - 1
      <3>1. Sending(s)' = Sending(s) \ {q}
        BY <1>3, <1>4 DEF Sending, Onward, Alike
      <3> QED BY <2>3, <2>4, <3>1, FS_RemoveElement
    <2>6. UU + R <= U + RR - 1
      <3>1. CASE s \in x.live
        <4>1. Recording(s)' = Recording(s) \cup {q}
          BY <1>3, <1>4, <3>1 DEF Recording, Onward, Alike
        <4>2. Unsure(s)' \subseteq Unsure(s)
          BY <1>3, <1>4 DEF Unsure, Sending, Onward, Alike
        <4>3. RR = R + 1 /\ UU <= U
          BY <2>3, <2>4, <4>1, <4>2, FS_AddElement, FS_Subset
        <4> HIDE DEF U, R, UU, RR
        <4> QED BY <2>1, <4>3
      <3>2. CASE s \notin x.live
        <4>1. Unsure(s)' = Unsure(s) \ {q} /\ q \in Unsure(s)
          BY <1>3, <1>4, <2>4, <3>2 DEF Unsure, Sending, Onward, Alike
        <4>2. Recording(s) \subseteq Recording(s)'
          BY <1>1, <1>4 DEF Recording, Onward, Alike
        <4>3. UU = U - 1 /\ R <= RR
          BY <2>3, <4>1, <4>2, FS_RemoveElement, FS_Subset
        <4> HIDE DEF U, R, UU, RR
        <4> QED BY <2>1, <4>3
      <3> QED BY <3>1, <3>2
    <2>7. record[s].alert # "none" /\ record' = record
      BY <1>1, <1>2 DEF SInv, Known, KnownAt
    <2>8. /\ record[s].alert = "pending" => m + U <= b + R
          /\ record[s].alert = "sent" => m + S <= b + n
      BY <1>2 DEF SInv, CountedAt
    <2>9. /\ record[s].alert = "pending" => mm + UU <= bb + RR
          /\ record[s].alert = "sent" => mm + SS <= bb + n
      <3> HIDE DEF m, b, n, S, U, R, mm, bb, SS, UU, RR
      <3> QED BY <2>1, <2>2, <2>5, <2>6, <2>8
    <2> QED BY <1>6, <2>7, <2>9 DEF CountedAt, Notifiers
  <1> QED BY <1>8, <1>9, <1>10, <1>11 DEF SInv

\* q is done with s, and is nowhere near a message then.
LEMMA SendFailsSteps ==
  ASSUME IInv, SInv, IInv', NEW q \in Workers, SendFails(q)
  PROVE  SInv'
  <1> DEFINE x == w[q]
  <1>0. PICK s \in Submissions : s = x.one
    BY Here DEF SendFails, SoundAt
  <1>1. /\ record' = record /\ faults' = faults + 1 /\ x.pc = "send" /\ s = x.one
        /\ Go(q, Without(q, s))
        /\ messages' \in {messages, [messages EXCEPT ![s] = messages[s] + 1]}
    BY <1>0 DEF SendFails, Fault
  <1> DEFINE v == Without(q, s)
  <1>2. Fine(q, v)
    BY <1>1, WithoutFine
  <1> HIDE DEF v
  <1>3. Onward(q, v)
    BY <1>1, Onwards DEF v
  <1>4. /\ messages \in [Submissions -> Nat] /\ messages' \in [Submissions -> Nat]
        /\ messages'[s] = messages[s] \/ messages'[s] = messages[s] + 1
        /\ \A t \in Submissions \ {s} : messages'[t] = messages[t]
    BY <1>1 DEF IInv, TypeOK
  <1>5. \A t \in Submissions : messages[t] > 0 => messages'[t] > 0
    BY <1>4
  <1>6. ASSUME NEW p \in Workers
        PROVE  KnownAt(w'[p], record, messages') /\ (w'[p].job = "notify" => p \in Notifiers)
    <2>1. CASE p = q
      BY <1>2, <1>3, <2>1 DEF Onward, Fine, KnownAt
    <2>2. CASE p # q
      <3>1. KnownAt(w[p], record, messages) /\ (w[p].job = "notify" => p \in Notifiers)
        BY DEF SInv, Known
      <3>2. w[p].pc = "record" => w[p].one \in Submissions
        BY Here DEF SoundAt
      <3>3. Alike(w'[p], w[p]) /\ w'[p].live = w[p].live
        BY <1>3, <2>2 DEF Onward
      <3> QED BY <1>5, <3>1, <3>2, <3>3 DEF Alike, KnownAt
    <2> QED BY <2>1, <2>2
  <1>7. Known'
    BY <1>1, <1>6 DEF Known, KnownAt, Notifiers
  <1>8. Ended'
    BY <1>1 DEF SInv, Ended
  <1>9. record[s].alert # "none"
    BY <1>1 DEF SInv, Known, KnownAt
  <1>10. ASSUME NEW t \in Submissions PROVE CountedAt(t)'
    <2> DEFINE m == messages[t]  mm == messages'[t]
               S == Cardinality(Sending(t))  SS == Cardinality(Sending(t)')
    <2>1. IsFiniteSet(Sending(t)) /\ S \in Nat /\ m \in Nat /\ mm \in Nat /\ SS \in Nat
      BY <1>4, <1>7, Apart, ApartNext DEF SInv, Parted
    <2>2. Sending(t)' \subseteq Sending(t) \ {q}
      BY <1>2, <1>3 DEF Sending, Onward, Alike, Fine
    <2>3. t = s => q \in Sending(t)
      BY <1>1 DEF Sending
    <2>4. IsFiniteSet(Sending(t) \ {q}) /\ SS <= Cardinality(Sending(t) \ {q})
          /\ Cardinality(Sending(t) \ {q}) = IF q \in Sending(t) THEN S - 1 ELSE S
      BY <2>1, <2>2, FS_RemoveElement, FS_Subset
    <2>5. SS <= S /\ (t = s => SS <= S - 1)
      <3> HIDE DEF S, SS
      <3> QED BY <2>1, <2>3, <2>4
    <2>6. (t = s /\ mm = m + 1) \/ mm = m
      BY <1>4
    <2>7. m <= mm /\ mm + SS <= m + S
      <3> HIDE DEF m, mm, S, SS
      <3> QED BY <2>1, <2>5, <2>6
    <2>8. record[t].alert = "none" => mm = m
      BY <1>4, <1>9
    <2> QED BY <1>1, <1>7, <2>7, <2>8, FaultCount
  <1> QED BY <1>7, <1>8, <1>10 DEF SInv

\* A note that passes accounts for the messages of all notifiers.
LEMMA RecordSentSteps ==
  ASSUME IInv, SInv, IInv', NEW q \in Workers, RecordSent(q)
  PROVE  SInv'
  <1> DEFINE x == w[q]
  <1>0. PICK s \in Submissions : s = x.one
    BY Here DEF RecordSent, SoundAt
  <1>1. UNCHANGED <<messages, faults>> /\ x.pc = "record" /\ s = x.one
    BY <1>0 DEF RecordSent
  <1> DEFINE v == Without(q, s)  r == [record[s] EXCEPT !.alert = "sent"]
  <1>2. Fine(q, v)
    BY <1>1, WithoutFine
  <1>3. CASE s \notin x.live
    <2>1. Go(q, v) /\ record' = record
      BY <1>0, <1>3 DEF RecordSent
    <2> HIDE DEF v
    <2>2. Onward(q, v)
      BY <2>1, Onwards
    <2> QED BY <1>1, <1>2, <1>3, <2>1, <2>2, Aside
  <1>4. CASE s \in x.live
    <2>1. WriteRecord(q, s, r, v)
      BY <1>0, <1>4 DEF RecordSent
    <2>2. record[s] \in Records /\ record[s].alert = "pending" /\ messages[s] > 0
      BY <1>1, <1>4 DEF SInv, Known, KnownAt, IInv, TypeOK
    <2>3. record[s].status = "ended"
      BY <2>2 DEF SInv, Ended
    <2>4. r.alert = "sent" /\ r.status = "ended"
      BY <2>2, <2>3 DEF Records
    <2>5. record' = [record EXCEPT ![s] = r] /\ record \in [Submissions -> Records]
      BY <2>1 DEF WriteRecord, IInv, TypeOK
    <2> HIDE DEF r, v
    <2>6. record'[s] = r /\ \A t \in Submissions \ {s} : record'[t] = record[t]
      BY <2>5
    <2>7. w'[q] = v /\ \A p \in Workers \ {q} : Outdated(p, s)
      BY <2>1, Onwards
    <2>8. ASSUME NEW p \in Workers
          PROVE  KnownAt(w'[p], record', messages) /\ (w'[p].job = "notify" => p \in Notifiers)
      <3>1. CASE p = q
        <4>1. v.job \in {"pass", "notify"}
          BY <1>1, Here DEF v, Without, Idle, SoundAt, Commands
        <4> QED BY <1>2, <2>7, <3>1, <4>1 DEF Fine, KnownAt
      <3>2. CASE p # q
        <4>1. KnownAt(w[p], record, messages) /\ (w[p].job = "notify" => p \in Notifiers)
          BY DEF SInv, Known
        <4>2. w[p].job = "requeue" \/ w[p].pc \in {"send", "record"} => w[p].one \in Submissions
          BY Here DEF SoundAt
        <4>3. Alike(w'[p], w[p]) /\ w'[p].live = w[p].live \ {s}
          BY <2>7, <3>2 DEF Outdated
        <4> QED BY <2>4, <2>6, <4>1, <4>2, <4>3 DEF Alike, KnownAt
      <3> QED BY <3>1, <3>2
    <2>9. Known'
      BY <1>1, <2>8 DEF Known, KnownAt, Notifiers
    <2>10. Ended'
      BY <2>4, <2>6 DEF SInv, Ended
    <2>11. ASSUME NEW t \in Submissions PROVE Sending(t)' \subseteq Sending(t)
      BY <1>2, <2>7 DEF Sending, Outdated, Alike, Fine
    <2>12. ASSUME NEW t \in Submissions \ {s} PROVE CountedAt(t)'
      <3>1. Unsure(t)' \subseteq Unsure(t)
        BY <1>2, <2>7 DEF Unsure, Sending, Outdated, Alike, Fine
      <3>2. Recording(t) \subseteq Recording(t)'
        BY <1>1, <2>7 DEF Recording, Outdated, Alike
      <3> QED BY <1>1, <2>6, <2>9, <2>11, <3>1, <3>2, CalmCount
    <2>13. CountedAt(s)'
      <3> DEFINE m == messages[s]  b == Cardinality(Notifiers) * faults  n == Cardinality(Notifiers)
                 S == Cardinality(Sending(s))  SS == Cardinality(Sending(s)')
                 mm == messages'[s]  bb == Cardinality(Notifiers) * faults'
      <3>1. m \in Nat /\ b \in Nat /\ n \in Nat /\ S \in Nat /\ SS \in Nat
        BY <2>9, Budget, Apart, ApartNext DEF SInv, Parted
      <3>2. SS <= S
        BY <2>11, Apart, FS_Subset DEF SInv
      <3>3. m + S <= b + n
        BY <2>2, Ceiling
      <3>4. mm = m /\ bb = b
        BY <1>1
      <3>5. mm + SS <= bb + n
        <4> HIDE DEF m, b, n, S, SS, mm, bb
        <4> QED BY <3>1, <3>2, <3>3, <3>4
      <3> QED BY <1>1, <2>2, <2>4, <2>6, <3>5 DEF CountedAt, Notifiers
    <2> QED BY <2>9, <2>10, <2>12, <2>13 DEF SInv
  <1> QED BY <1>3, <1>4

-----------------------------------------------------------------------------
\* The world, and every step.

\* Another write fails the note of whoever had sent, once, and a fault pays for it.
LEMMA TouchSteps ==
  ASSUME IInv, SInv, IInv', NEW s \in Submissions, Touch(s)
  PROVE  SInv'
  <1>1. messages' = messages /\ faults' = faults + 1
    BY DEF Touch, Fault
  <1>2. record' = record
    BY DEF Touch, Changed, IInv, TypeOK
  <1>3. \A p \in Workers : Outdated(p, s)
    BY Onwards, QueueAssumption DEF Touch
  <1>4. ASSUME NEW p \in Workers
        PROVE  KnownAt(w'[p], record, messages) /\ (w'[p].job = "notify" => p \in Notifiers)
    BY <1>3 DEF Outdated, Alike, SInv, Known, KnownAt
  <1>5. Known'
    BY <1>1, <1>2, <1>4 DEF Known, KnownAt, Notifiers
  <1>6. Ended'
    BY <1>2 DEF SInv, Ended
  <1>7. ASSUME NEW t \in Submissions PROVE CountedAt(t)'
    <2> DEFINE m == messages[t]  S == Cardinality(Sending(t))
    <2>1. Sending(t)' = Sending(t)
      BY <1>3 DEF Sending, Outdated, Alike
    <2>2. m \in Nat /\ S \in Nat
      BY Apart, Budget DEF SInv
    <2>3. m <= m /\ m + S <= m + S
      <3> HIDE DEF m, S
      <3> QED BY <2>2
    <2> QED BY <1>1, <1>2, <1>5, <2>1, <2>3, FaultCount
  <1> QED BY <1>5, <1>6, <1>7 DEF SInv

\* Nothing here changes.
LEMMA Still ==
  ASSUME IInv, SInv, IInv', UNCHANGED <<record, w, messages>>,
         faults' = faults \/ faults' = faults + 1
  PROVE  SInv'
  <1>1. Known' /\ Ended'
    BY DEF SInv, Known, KnownAt, Ended, Notifiers
  <1>2. ASSUME NEW t \in Submissions PROVE CountedAt(t)'
    <2> DEFINE m == messages[t]  S == Cardinality(Sending(t))
    <2>1. Sending(t)' = Sending(t) /\ Unsure(t)' = Unsure(t) /\ Recording(t)' = Recording(t)
      BY DEF Sending, Unsure, Recording
    <2>2. m \in Nat /\ S \in Nat
      BY Apart, Budget DEF SInv
    <2>3. m <= m /\ m + S <= m + S
      <3> HIDE DEF m, S
      <3> QED BY <2>2
    <2>4. CASE faults' = faults
      BY <1>1, <2>1, <2>4, CalmCount
    <2>5. CASE faults' = faults + 1
      BY <1>1, <2>1, <2>3, <2>5, FaultCount
    <2> QED BY <2>4, <2>5
  <1> QED BY <1>1, <1>2 DEF SInv

\* No message has been sent initially.
LEMMA InitSInv == Init => SInv
  <1> SUFFICES ASSUME Init PROVE SInv
    OBVIOUS
  <1>1. IInv
    BY InitIInv
  <1>2. /\ \A q \in Workers : w[q] = Idle
        /\ \A s \in Submissions : record[s].alert = "none" /\ messages[s] = 0
    BY DEF Init
  <1>3. Known
    BY <1>2 DEF Known, KnownAt, Idle
  <1>4. Ended
    BY <1>2 DEF Ended
  <1>5. \A s \in Submissions : CountedAt(s)
    BY <1>2 DEF CountedAt
  <1> QED BY <1>3, <1>4, <1>5 DEF SInv

\* Every step keeps the count.
LEMMA NextSInv == IInv /\ SInv /\ IInv' /\ [Next]_vars => SInv'
  <1> SUFFICES ASSUME IInv, SInv, IInv', [Next]_vars PROVE SInv'
    OBVIOUS
  <1>1. ASSUME NEW q \in Workers, Step(q) PROVE SInv'
    BY <1>1, QuietSteps, OpenSteps, RebuildSteps, ScanSteps, DropSteps, IngestSteps, NotifySteps,
       SendSteps, RecordSentSteps, EnqueueSteps, RequeueSteps DEF Step
  <1>2. ASSUME NEW q \in Workers, Failure(q) PROVE SInv'
    BY <1>2, CrashSteps, ScanSteps, OpenSteps, SendFailsSteps DEF Failure
  <1>3. ASSUME NEW s \in Submissions, AdmitIndex(s) \/ AdmitFails(s) PROVE SInv'
    BY <1>3, Still DEF AdmitIndex, AdmitFails, Fault
  <1>4. CASE WeekPasses
    BY <1>4, Still DEF WeekPasses
  <1>5. CASE UNCHANGED vars
    BY <1>5, Still DEF vars
  <1> QED BY <1>1, <1>2, <1>3, <1>4, <1>5, AdmitSteps, TouchSteps DEF Next, World

\* Whatever is sent is accounted for: by the command that will note it, or by a fault.
THEOREM AlertsCounted == Spec => []SInv
  <1>1. IInv /\ SInv /\ [Next]_vars => IInv' /\ SInv'
    BY NextKeeps, NextSInv
  <1>2. Init => IInv /\ SInv
    BY InitIInv, InitSInv
  <1> QED BY <1>1, <1>2, PTL DEF Spec

\* An alert that is recorded as sent was sent; and the alerts of a submission are sent
\* at most once for every notification that may overlap, and as often again for every
\* fault: what was sent is recorded before the alert is considered again.
THEOREM AlertsSentOnce == Spec => []SentOnce
  <1>1. IInv /\ SInv => SentOnce
    <2> SUFFICES ASSUME IInv, SInv, NEW s \in Submissions
                 PROVE  /\ record[s].alert = "sent" => messages[s] > 0
                        /\ messages[s] <= Cardinality(Notifiers) * (1 + faults)
      BY DEF SentOnce, Notifiers
    <2>1. CountedAt(s)
      BY DEF SInv
    <2> DEFINE m == messages[s]  n == Cardinality(Notifiers)  b == n * faults  c == n * (1 + faults)
               S == Cardinality(Sending(s))
    <2>2. m \in Nat /\ n \in Nat /\ b \in Nat /\ c = b + n /\ S \in Nat
      BY Budget, Apart DEF SInv
    <2>3. record[s].alert # "none" => m + S <= b + n
      BY Ceiling
    <2>4. record[s].alert = "none" => m = 0
      BY <2>1 DEF CountedAt
    <2>5. m <= c
      <3> HIDE DEF m, n, b, c, S
      <3> QED BY <2>2, <2>3, <2>4
    <2> QED BY <2>1, <2>5 DEF CountedAt
  <1>2. Spec => [](IInv /\ SInv)
    <2>1. IInv /\ SInv /\ [Next]_vars => IInv' /\ SInv'
      BY NextKeeps, NextSInv
    <2>2. Init => IInv /\ SInv
      BY InitIInv, InitSInv
    <2> QED BY <2>1, <2>2, PTL DEF Spec
  <1> QED BY <1>1, <1>2, PTL
=============================================================================
