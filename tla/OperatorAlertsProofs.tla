------------------------ MODULE OperatorAlertsProofs ------------------------
(***************************************************************************)
(* What an alert says, whatever number of commands notify and reconcile it *)
(* at the same time, whatever dies, fails or is edited meanwhile: nothing  *)
(* that is not on record, nothing over what a person wrote, and nothing    *)
(* else once a maintainer has corrected it.  And, of commands that do not  *)
(* overlap, that evidence of a recovery outlives its artifact.             *)
(***************************************************************************)
EXTENDS OperatorAlerts, WellFoundedInduction, TLAPS

Seen == ToSet(verified)

\* The steps that go by a copy of the alert.
Copying == {"stage", "edit", "patch", "result", "send", "record"}

\* What a command x knows: outcomes that were verified, and a copy of the alert that is
\* what the record said when it was read, but for what the step is to write.
Knows(x, alert, said) ==
    /\ x.pc \in Copying => x.copy # None /\ x.copy.delivered # Foreign
    /\ x.pc \in Copying \ {"stage"} => x.copy.disposition \in said
    /\ x.pc = "record" => x.copy.sent
    /\ x.live => x.pc \in Copying
    /\ x.live /\ x.pc # "stage" => x.copy.disposition = alert.disposition
    /\ x.live /\ x.pc = "stage" => alert.disposition.kind # "reclassified"
    /\ x.live /\ x.pc # "record" => (x.copy.sent <=> alert.sent)
    /\ x.live /\ x.pc \in {"send", "record"} => ~alert.sent

Informed(x, seen) ==
    /\ x.known \cup x.found \subseteq seen
    /\ x.base # None => x.base.outcomes \subseteq seen
    /\ x.pc \in {"collect", "index"} /\ x.scope # None => x.base # None

\* What the outbox and the index say of the message and of the outcomes.
Consistent ==
    /\ item.disposition \in recorded /\ item.delivered # Foreign
    /\ ~item.sent => message = None
    /\ index # None => index.outcomes \subseteq Seen

\* The index i still has the evidence that the alert was recovered.
Backed(i) == i # None /\ i.outcomes \cap Same # {}

\* The one command x neither forgets an outcome that the index i has, nor is about to
\* replace a recovery by less.
Faithful(x, i, alert) ==
    /\ x.pc \in {"collect", "index"} => x.base = i
    /\ x.pc = "collect" /\ i # None /\ x.scope = None => i.outcomes \subseteq x.known
    /\ x.pc = "index" /\ i # None => i.outcomes \subseteq x.found
    /\ x.pc = "fresh" => i # None /\ x.found = i.outcomes
    /\ x.pc = "stage" /\ x.live =>
         /\ x.copy.disposition.kind = "recovered" => Backed(i)
         /\ alert.disposition.kind = "recovered" => x.copy.disposition.kind # "superseded"

Kept ==
    /\ item.disposition.kind = "recovered" => Backed(index)
    /\ \A q \in Workers : Faithful(w[q], index, item)

IInv ==
    /\ Inv /\ Consistent
    /\ \A q \in Workers : Knows(w[q], item, recorded) /\ Informed(w[q], Seen)
    /\ Alone /\ ~lost => Kept

\* What a step may never do.
Lasting ==
    /\ message = Foreign => message' = Foreign
    /\ item.disposition.kind = "reclassified" => item'.disposition.kind = "reclassified"
    /\ Alone /\ item.disposition.kind = "recovered" /\ ~lost
         => item'.disposition.kind # "superseded"

-----------------------------------------------------------------------------
\* The latest outcome, and what it is evidence of.

\* Every set of numbers has a least one.
LEMMA Least ==
  ASSUME NEW T \in SUBSET Nat, T # {}
  PROVE  \E x \in T : \A y \in T : x <= y
  <1> DEFINE R == {ss \in Nat \X Nat : ss[1] < ss[2]}
  <1>1. IsWellFoundedOn(R, Nat)
    BY NatLessThanWellFounded DEF OpToRel
  <1> HIDE DEF R
  <1>2. PICK x \in T : \A y \in T : <<y, x>> \notin R
    BY <1>1, WFMin
  <1>3. \A y \in T : ~(y < x)
    BY <1>2 DEF R
  <1> QED BY <1>3

\* What was verified last of a set is one of it.
LEMMA LatestIs ==
  ASSUME TypeOK, NEW pool, pool \subseteq Seen, pool # {}
  PROVE  Latest(pool) \in pool
  <1> DEFINE n == Len(verified)  places == {i \in DOMAIN verified : verified[i] \in pool}
             T == {n - i : i \in places}
  <1>1. n \in Nat /\ DOMAIN verified = 1..n
    BY DEF TypeOK
  <1>2. PICK o : o \in pool
    OBVIOUS
  <1>3. PICK k \in DOMAIN verified : verified[k] = o
    BY <1>2 DEF Seen, ToSet
  <1>4. k \in places
    BY <1>2, <1>3
  <1>5. T \in SUBSET Nat /\ T # {}
    BY <1>1, <1>4
  <1>6. PICK x \in T : \A y \in T : x <= y
    BY <1>5, Least
  <1>7. PICK i \in places : x = n - i
    OBVIOUS
  <1>8. ASSUME NEW j \in places PROVE j <= i
    <2>1. n - j \in T /\ j \in Nat /\ i \in Nat
      BY <1>1
    <2>2. n - i <= n - j
      BY <1>6, <1>7, <2>1
    <2> HIDE DEF n, places, T
    <2> QED BY <1>1, <2>1, <2>2
  <1> DEFINE m == CHOOSE a \in places : \A b \in places : b <= a
  <1>9. m \in places
    BY <1>8
  <1> QED BY <1>9 DEF Latest

\* desired_alerts: a disposition, the same after a correction, and no less than a
\* recovery while there is evidence of one.
LEMMA DesiredIs ==
  ASSUME TypeOK, NEW found, found \subseteq Seen
  PROVE  /\ Desired(found) \in Dispositions
         /\ item.disposition.kind = "reclassified" => Desired(found) = item.disposition
         /\ found \cap Same # {} /\ item.disposition.kind = "recovered"
              => Desired(found).kind # "superseded"
         /\ Desired(found).kind = "recovered" =>
              Desired(found) = item.disposition \/ found \cap Same # {}
  <1>1. item.disposition \in Dispositions
    BY DEF TypeOK, Items
  <1>2. found \subseteq Outcomes
    BY DEF TypeOK, Seen, ToSet
  <1> DEFINE pool == IF found \cap Same # {} THEN found \cap Same ELSE found
             best == Best(found)
  <1>3. found # {} => best \in pool
    <2>1. found # {} => pool \subseteq Seen /\ pool # {}
      OBVIOUS
    <2> HIDE DEF pool
    <2> QED BY <2>1, LatestIs DEF Best, pool
  <1> DEFINE d == [kind |-> IF best \in Same THEN "recovered" ELSE "superseded", evidence |-> best]
  <1>4. Desired(found) = IF item.disposition.kind = "reclassified" THEN item.disposition
                         ELSE IF withdrawn THEN [kind |-> "withdrawn", evidence |-> None]
                         ELSE IF found = {} THEN item.disposition ELSE d
    BY DEF Desired
  <1> HIDE DEF best
  <1>5. [kind |-> "withdrawn", evidence |-> None] \in Dispositions
    BY DEF Dispositions
  <1>6. found # {} => d \in Dispositions
    BY <1>2, <1>3, AlertsAssumption DEF Dispositions
  <1>7. /\ d.kind = "recovered" => best \in Same
        /\ d.kind = "superseded" => best \notin Same
    OBVIOUS
  <1> HIDE DEF d
  <1> QED BY <1>1, <1>3, <1>4, <1>5, <1>6, <1>7

-----------------------------------------------------------------------------
\* The steps of a command.

\* What the invariant says of the command q.
LEMMA Here ==
  ASSUME IInv, NEW q \in Workers
  PROVE  /\ TypeOK /\ w \in [Workers -> Commands] /\ w[q] \in Commands
         /\ Knows(w[q], item, recorded) /\ Informed(w[q], Seen)
         /\ Alone /\ ~lost => Faithful(w[q], index, item)
  BY DEF IInv, Inv, TypeOK, Kept

\* q goes on as v; the message may come to say what is on record.
LEMMA Gone ==
  ASSUME IInv, NEW q \in Workers, NEW v \in Commands, Go(q, v),
         UNCHANGED <<world, index, lost>>, faults' \in 0..MaxFaults,
         Knows(v, item, recorded), Informed(v, Seen),
         Alone /\ ~lost => Faithful(v, index, item),
         \/ message' = message
         \/ message \notin {None, Foreign} /\ message' \in recorded
  PROVE  IInv' /\ Lasting
  <1>1. /\ item' = item /\ recorded' = recorded /\ w \in [Workers -> Commands]
        /\ w' = [w EXCEPT ![q] = v] /\ UNCHANGED <<withdrawn, verified, artifacts>>
    BY Here DEF Go, world
  <1>2. w' \in [Workers -> Commands] /\ w'[q] = v /\ \A p \in Workers \ {q} : w'[p] = w[p]
    BY <1>1
  <1>3. Seen' = Seen
    BY <1>1 DEF Seen
  <1>4. recorded \subseteq Dispositions /\ message' \in Messages \cup {None}
    BY DEF IInv, Inv, TypeOK, Messages
  <1>5. TypeOK'
    BY <1>1, <1>2, <1>4 DEF IInv, Inv, TypeOK
  <1>6. SaidIsRecorded' /\ Consistent'
    BY <1>1, <1>3 DEF IInv, Inv, SaidIsRecorded, Consistent
  <1>7. ASSUME NEW p \in Workers PROVE Knows(w'[p], item', recorded') /\ Informed(w'[p], Seen')
    BY <1>1, <1>2, <1>3, Here
  <1>8. (Alone /\ ~lost => Kept)'
    <2>1. ASSUME NEW p \in Workers, Alone, ~lost PROVE Faithful(w'[p], index', item')
      BY <1>1, <1>2, <2>1 DEF Alone
    <2> QED BY <1>1, <2>1 DEF IInv, Kept, Alone
  <1>9. Lasting
    <2>1. Alone /\ item.disposition.kind = "recovered" => item.disposition.kind # "superseded"
      OBVIOUS
    <2> QED BY <1>1, <2>1 DEF Lasting
  <1>10. (\A p \in Workers : Knows(w[p], item, recorded) /\ Informed(w[p], Seen))'
    BY <1>7
  <1> QED BY <1>5, <1>6, <1>8, <1>9, <1>10 DEF IInv, Inv

\* A command that no longer goes by what it read.
LEMMA Stale ==
  ASSUME NEW x \in Commands
  PROVE  LET y == [x EXCEPT !.live = FALSE]
         IN  /\ y \in Commands /\ ~y.live /\ y.pc = x.pc /\ y.copy = x.copy /\ y.base = x.base
             /\ y.known = x.known /\ y.found = x.found /\ y.scope = x.scope
  BY DEF Commands

\* The alert becomes new, and everybody but those that wrote it goes by an old one.
LEMMA Rewritten ==
  ASSUME IInv, NEW new \in Items,
         item' = new, recorded' = recorded \cup {new.disposition},
         w' \in [Workers -> Commands],
         \A p \in Workers :
           \/ w'[p] = [w[p] EXCEPT !.live = FALSE]
           \/ Knows(w'[p], new, recorded') /\ Informed(w'[p], Seen) /\ Faithful(w'[p], index, new),
         UNCHANGED <<verified, artifacts, index, lost>>, withdrawn' \in BOOLEAN,
         faults' \in 0..MaxFaults,
         new.delivered # Foreign,
         \/ (new.sent <=> item.sent) /\ message' = message
         \/ ~item.sent /\ new.sent /\ message' = new.disposition,
         item.disposition.kind = "reclassified" => new.disposition.kind = "reclassified",
         Alone /\ ~lost => (new.disposition.kind = "recovered" => Backed(index)),
         Alone /\ ~lost => (item.disposition.kind = "recovered"
                              => new.disposition.kind # "superseded")
  PROVE  IInv' /\ Lasting
  <1>1. Seen' = Seen
    BY DEF Seen
  <1>2. new.disposition \in Dispositions
    BY DEF Items
  <1>3. TypeOK'
    BY <1>2 DEF IInv, Inv, TypeOK, Messages
  <1>4. SaidIsRecorded' /\ Consistent'
    BY <1>1 DEF IInv, Inv, SaidIsRecorded, Consistent
  <1>5. ASSUME NEW p \in Workers
        PROVE  /\ Knows(w'[p], item', recorded') /\ Informed(w'[p], Seen')
               /\ Alone /\ ~lost => Faithful(w'[p], index', item')
    <2>1. CASE Knows(w'[p], new, recorded') /\ Informed(w'[p], Seen) /\ Faithful(w'[p], index, new)
      BY <1>1, <2>1
    <2>2. CASE w'[p] = [w[p] EXCEPT !.live = FALSE]
      <3> DEFINE x == w[p]  y == w'[p]
      <3>1. x \in Commands /\ Knows(x, item, recorded) /\ Informed(x, Seen)
            /\ (Alone /\ ~lost => Faithful(x, index, item))
        BY Here
      <3>2. /\ ~y.live /\ y.pc = x.pc /\ y.copy = x.copy /\ y.base = x.base
            /\ y.known = x.known /\ y.found = x.found /\ y.scope = x.scope
        BY <2>2, <3>1, Stale
      <3> HIDE DEF x, y
      <3>3. Knows(y, item', recorded')
        BY <3>1, <3>2 DEF Knows
      <3>4. Informed(y, Seen')
        BY <1>1, <3>1, <3>2 DEF Informed
      <3>5. Alone /\ ~lost => Faithful(y, index', item')
        BY <3>1, <3>2 DEF Faithful
      <3> QED BY <3>3, <3>4, <3>5 DEF y
    <2> QED BY <2>1, <2>2
  <1>6. (Alone /\ ~lost => Kept)'
    BY <1>5 DEF Kept, Alone
  <1>7. Lasting
    <2>1. message = Foreign => item.sent
      BY NoneAssumption DEF IInv, Consistent, Messages
    <2> QED BY <2>1 DEF Lasting
  <1>8. (\A p \in Workers : Knows(w[p], item, recorded) /\ Informed(w[p], Seen))'
    BY <1>5
  <1> QED BY <1>3, <1>4, <1>6, <1>7, <1>8 DEF IInv, Inv

\* What holds of the counts and of a command that is done.
LEMMA Basics ==
  ASSUME IInv
  PROVE  /\ faults \in 0..MaxFaults /\ (Fault => faults' \in 0..MaxFaults)
         /\ item \in Items /\ item.delivered # Foreign /\ item.disposition \in recorded
         /\ item.disposition \in Dispositions
         /\ Idle \in Commands /\ Knows(Idle, item, recorded) /\ Informed(Idle, Seen)
         /\ Faithful(Idle, index, item)
         /\ \A new, said : Knows(Idle, new, said) /\ Faithful(Idle, index, new)
  <1>1. faults \in 0..MaxFaults /\ (Fault => faults' \in 0..MaxFaults)
    BY AlertsAssumption DEF IInv, Inv, TypeOK, Fault
  <1>2. item \in Items /\ item.delivered # Foreign /\ item.disposition \in recorded
    BY DEF IInv, Inv, TypeOK, Consistent
  <1>3. Idle \in Commands
    BY DEF Idle, Commands, Pcs
  <1>4. \A new, said : Knows(Idle, new, said) /\ Faithful(Idle, index, new)
    BY DEF Idle, Knows, Faithful, Copying
  <1>5. Informed(Idle, Seen)
    BY DEF Idle, Informed
  <1> QED BY <1>1, <1>2, <1>3, <1>4, <1>5 DEF Items

\* Crash keeps the invariant.
LEMMA CrashKeeps ==
  ASSUME IInv, NEW q \in Workers, Crash(q) PROVE IInv' /\ Lasting
  BY Basics, Gone DEF Crash, Fault

\* A copy that is no stage, at hand when the record was read.
LEMMA Holding ==
  ASSUME IInv, NEW v, v.known = {}, v.found = {}, v.base = None,
         v.pc \in {"edit", "send"}, v.copy = item, v.live = TRUE,
         v.pc = "send" => ~item.sent
  PROVE  Knows(v, item, recorded) /\ Informed(v, Seen) /\ Faithful(v, index, item)
  <1>1. item # None
    BY NoneAssumption, Basics
  <1> QED BY <1>1, Basics DEF Knows, Informed, Faithful, Copying

\* Notify keeps the invariant.
LEMMA NotifyKeeps ==
  ASSUME IInv, NEW q \in Workers, Notify(q) PROVE IInv' /\ Lasting
  <1> DEFINE v == [Idle EXCEPT !.pc = "send", !.copy = item, !.live = TRUE]
  <1>1. /\ Go(q, v) /\ ~item.sent
        /\ UNCHANGED <<world, index, message, faults, lost>>
    BY DEF Notify
  <1>2. v \in Commands
    BY Basics DEF Commands, Pcs, Idle
  <1>3. /\ v.known = {} /\ v.found = {} /\ v.base = None /\ v.pc = "send"
        /\ v.copy = item /\ v.live = TRUE
    BY DEF Idle
  <1> HIDE DEF v
  <1>4. Knows(v, item, recorded) /\ Informed(v, Seen) /\ Faithful(v, index, item)
    BY <1>1, <1>3, Holding
  <1> QED BY <1>1, <1>2, <1>4, Basics, Gone

\* Send keeps the invariant.
LEMMA SendKeeps ==
  ASSUME IInv, NEW q \in Workers, Send(q) PROVE IInv' /\ Lasting
  <1> DEFINE x == w[q]  c == x.copy
             d == [c EXCEPT !.sent = TRUE, !.delivered = c.disposition]
             v == [x EXCEPT !.pc = "record", !.copy = d]
  <1>1. x.pc = "send" /\ UNCHANGED <<world, index, message, faults, lost>>
    BY DEF Send
  <1>2. x \in Commands /\ Knows(x, item, recorded) /\ Informed(x, Seen)
    BY Here
  <1>3. c \in Items /\ c.disposition \in recorded
    BY <1>1, <1>2 DEF Knows, Copying, Commands
  <1>4. Go(q, v)
    <2>1. w'= [w EXCEPT ![q] = [x EXCEPT !.pc = "record", !.copy.sent = TRUE,
                                         !.copy.delivered = x.copy.disposition]]
          /\ UNCHANGED <<item, recorded>>
      BY DEF Send, Go
    <2>2. [x EXCEPT !.pc = "record", !.copy.sent = TRUE, !.copy.delivered = x.copy.disposition] = v
      <3> HIDE DEF x
      <3> QED BY <1>2, <1>3 DEF Commands, Items
    <2> QED BY <2>1, <2>2 DEF Go
  <1> HIDE DEF x
  <1>5. /\ d \in Items /\ d.sent /\ d.delivered = c.disposition /\ d.disposition = c.disposition
    <2> HIDE DEF c
    <2> QED BY <1>3 DEF Items, Messages
  <1> HIDE DEF d
  <1>6. /\ v \in Commands /\ v.pc = "record" /\ v.copy = d /\ v.live = x.live
        /\ v.base = x.base /\ v.known = x.known /\ v.found = x.found
    BY <1>2, <1>5 DEF Commands, Pcs
  <1> HIDE DEF v
  <1>7. d # None /\ d.delivered # Foreign
    BY <1>3, <1>5, NoneAssumption DEF Items, Dispositions, Foreign
  <1>8. Knows(v, item, recorded)
    <2> HIDE DEF c
    <2>1. x.live => c.disposition = item.disposition /\ ~item.sent
      BY <1>1, <1>2 DEF Knows, c
    <2> QED BY <1>3, <1>5, <1>6, <1>7, <2>1 DEF Knows, Copying
  <1>9. Informed(v, Seen) /\ Faithful(v, index, item)
    BY <1>2, <1>6 DEF Informed, Faithful
  <1> QED BY <1>1, <1>4, <1>6, <1>8, <1>9, Basics, Gone

\* A write of the alert new, after which q goes on as v.
LEMMA Written ==
  ASSUME IInv, NEW q \in Workers, NEW new \in Items, NEW v \in Commands, Write(q, new, v),
         UNCHANGED <<world, index, faults, lost>>,
         Knows(v, new, recorded \cup {new.disposition}), Informed(v, Seen),
         Faithful(v, index, new),
         new.delivered # Foreign,
         \/ (new.sent <=> item.sent) /\ message' = message
         \/ ~item.sent /\ new.sent /\ message' = new.disposition,
         item.disposition.kind = "reclassified" => new.disposition.kind = "reclassified",
         Alone /\ ~lost => (new.disposition.kind = "recovered" => Backed(index)),
         Alone /\ ~lost => (item.disposition.kind = "recovered"
                              => new.disposition.kind # "superseded")
  PROVE  IInv' /\ Lasting
  <1>1. /\ item' = new /\ recorded' = recorded \cup {new.disposition}
        /\ w' = [p \in Workers |-> IF p = q THEN v ELSE [w[p] EXCEPT !.live = FALSE]]
        /\ UNCHANGED <<verified, artifacts, index, lost>> /\ withdrawn' = withdrawn
    BY DEF Write, world
  <1>2. w' \in [Workers -> Commands]
    BY <1>1, Here, Stale
  <1>3. \A p \in Workers \ {q} : w'[p] = [w[p] EXCEPT !.live = FALSE]
    BY <1>1
  <1>4. w'[q] = v
    BY <1>1
  <1>5. withdrawn' \in BOOLEAN /\ faults' \in 0..MaxFaults
    BY <1>1, Basics DEF IInv, Inv, TypeOK
  <1>6. ASSUME NEW p \in Workers
        PROVE  \/ w'[p] = [w[p] EXCEPT !.live = FALSE]
               \/ Knows(w'[p], new, recorded') /\ Informed(w'[p], Seen) /\ Faithful(w'[p], index, new)
    BY <1>1, <1>3, <1>4
  <1> QED BY <1>1, <1>2, <1>5, <1>6, Rewritten

\* RecordSent keeps the invariant.
LEMMA RecordSentKeeps ==
  ASSUME IInv, NEW q \in Workers, RecordSent(q) PROVE IInv' /\ Lasting
  <1> DEFINE x == w[q]  new == x.copy
  <1>1. x.pc = "record" /\ UNCHANGED <<world, index, faults, lost>>
    BY DEF RecordSent
  <1>2. CASE ~x.live
    BY <1>1, <1>2, Basics, Gone DEF RecordSent
  <1>3. CASE x.live
    <2>1. Write(q, new, Idle) /\ message' = new.disposition
      BY <1>3 DEF RecordSent
    <2>2. x \in Commands /\ Knows(x, item, recorded)
      BY Here
    <2>3. /\ new \in Items /\ new.delivered # Foreign /\ new.sent /\ ~item.sent
          /\ new.disposition = item.disposition
      BY <1>1, <1>3, <2>2 DEF Knows, Copying, Commands
    <2>4. Alone /\ ~lost => (item.disposition.kind = "recovered" => Backed(index))
      BY DEF IInv, Kept
    <2> HIDE DEF new
    <2> QED BY <1>1, <2>1, <2>3, <2>4, Basics, Written
  <1> QED BY <1>2, <1>3

-----------------------------------------------------------------------------
\* The evidence.

\* Reconcile keeps the invariant.
LEMMA ReconcileKeeps ==
  ASSUME IInv, NEW q \in Workers, Reconcile(q) PROVE IInv' /\ Lasting
  <1>1. UNCHANGED <<world, index, message, faults, lost>>
    BY DEF Reconcile
  <1>2. PICK scope \in Outcomes \cup {None} :
          /\ scope # None => index # None /\ scope \in ToSet(verified)
          /\ Go(q, [Idle EXCEPT !.pc = "collect", !.scope = scope, !.base = index,
                                !.known = IF scope = None THEN ToSet(verified) ELSE {scope}])
    BY DEF Reconcile
  <1> DEFINE k == IF scope = None THEN ToSet(verified) ELSE {scope}
             v == [Idle EXCEPT !.pc = "collect", !.scope = scope, !.base = index, !.known = k]
  <1>3. Go(q, v)
    BY <1>2
  <1>4. k \subseteq Seen /\ Seen \subseteq Outcomes /\ index \in Indexes \cup {None}
        /\ (scope = None => k = Seen) /\ (index # None => index.outcomes \subseteq Seen)
    BY <1>2 DEF Seen, ToSet, IInv, Inv, TypeOK, Consistent
  <1> HIDE DEF k
  <1>5. /\ v \in Commands /\ v.pc = "collect" /\ v.scope = scope /\ v.base = index /\ v.known = k
        /\ v.found = {} /\ v.live = FALSE
    BY <1>4 DEF Idle, Commands, Pcs
  <1> HIDE DEF v
  <1>6. Knows(v, item, recorded)
    BY <1>5 DEF Knows, Copying
  <1>7. Informed(v, Seen)
    BY <1>2, <1>4, <1>5 DEF Informed
  <1>8. Faithful(v, index, item)
    BY <1>4, <1>5 DEF Faithful
  <1> QED BY <1>1, <1>3, <1>5, <1>6, <1>7, <1>8, Basics, Gone

\* Collect keeps the invariant.
LEMMA CollectKeeps ==
  ASSUME IInv, NEW q \in Workers, Collect(q) PROVE IInv' /\ Lasting
  <1> DEFINE x == w[q]  f == Found(q)  v == [x EXCEPT !.pc = "index", !.found = f, !.known = {}]
  <1>1. x.pc = "collect" /\ Go(q, v) /\ UNCHANGED <<world, index, message, faults, lost>>
    BY DEF Collect
  <1>2. x \in Commands /\ Knows(x, item, recorded) /\ Informed(x, Seen)
        /\ (Alone /\ ~lost => Faithful(x, index, item))
    BY Here
  <1>3. Seen \subseteq Outcomes
    BY DEF IInv, Inv, TypeOK, Seen, ToSet
  <1>4. f \subseteq Seen
    BY <1>2 DEF Found, Cached, Informed
  <1>5. Alone /\ ~lost /\ index # None => index.outcomes \subseteq f
    BY <1>1, <1>2 DEF Found, Cached, Faithful
  <1> HIDE DEF x, f
  <1>6. /\ v \in Commands /\ v.pc = "index" /\ v.scope = x.scope /\ v.base = x.base /\ v.known = {}
        /\ v.found = f /\ v.live = x.live
    BY <1>2, <1>3, <1>4 DEF Commands, Pcs
  <1> HIDE DEF v
  <1>7. Knows(v, item, recorded)
    BY <1>1, <1>2, <1>6 DEF Knows, Copying
  <1>8. Informed(v, Seen)
    BY <1>1, <1>2, <1>4, <1>6 DEF Informed
  <1>9. Alone /\ ~lost => Faithful(v, index, item)
    BY <1>1, <1>2, <1>5, <1>6 DEF Faithful
  <1> QED BY <1>1, <1>6, <1>7, <1>8, <1>9, Basics, Gone

\* RefreshIndex keeps the invariant.
LEMMA RefreshIndexKeeps ==
  ASSUME IInv, NEW q \in Workers, RefreshIndex(q) PROVE IInv' /\ Lasting
  <1> DEFINE x == w[q]  b == x.base
             new == [grouped |-> x.scope = None \/ b.grouped, outcomes |-> x.found]
             next == [Idle EXCEPT !.pc = "fresh", !.found = x.found]
  <1>1. x.pc = "index" /\ UNCHANGED <<world, message, faults, lost>>
    BY DEF RefreshIndex
  <1>2. x \in Commands /\ Knows(x, item, recorded) /\ Informed(x, Seen)
        /\ (Alone /\ ~lost => Faithful(x, index, item))
    BY Here
  <1>3. PICK v \in {next, Idle} :
          /\ Go(q, v)
          /\ \/ index' = index /\ (v = Idle \/ b = new)
             \/ index = b /\ index' = new
    BY DEF RefreshIndex
  <1>4. x.found \subseteq Seen /\ Seen \subseteq Outcomes
    BY <1>2 DEF Informed, IInv, Inv, TypeOK, Seen, ToSet
  <1>5. new \in Indexes /\ new.outcomes = x.found
    <2>1. x.scope = None \/ b.grouped \in BOOLEAN
      BY <1>1, <1>2 DEF Informed, Commands, Indexes
    <2> QED BY <1>4, <2>1 DEF Indexes
  <1>6. Alone /\ ~lost /\ index # None => index.outcomes \subseteq x.found
    BY <1>1, <1>2 DEF Faithful
  <1>7. Alone /\ ~lost => b = index
    BY <1>1, <1>2 DEF Faithful
  <1>8. /\ v \in Commands /\ v.pc \in {"fresh", "idle"} /\ v.found \subseteq x.found
        /\ v.known = {} /\ v.base = None /\ ~v.live
        /\ v.pc = "fresh" => v = next /\ v.found = x.found
    <2> DEFINE f == x.found
    <2>1. /\ next \in Commands /\ next.pc = "fresh" /\ next.found = f
          /\ next.known = {} /\ next.base = None /\ ~next.live
      <3>1. f \subseteq Outcomes
        BY <1>4
      <3> HIDE DEF x
      <3> QED BY <3>1 DEF Idle, Commands, Pcs
    <2>2. /\ Idle \in Commands /\ Idle.pc = "idle" /\ Idle.found = {}
          /\ Idle.known = {} /\ Idle.base = None /\ ~Idle.live
      BY Basics DEF Idle
    <2> HIDE DEF next, x
    <2>3. CASE v = next
      BY <2>1, <2>3
    <2>4. CASE v = Idle
      BY <2>2, <2>4
    <2> QED BY <2>3, <2>4
  <1> HIDE DEF next, new
  <1>9. Knows(v, item, recorded)
    BY <1>8 DEF Knows, Copying
  <1>10. Informed(v, Seen)
    BY <1>4, <1>8 DEF Informed
  <1>11. CASE index' = index
    <2>1. Alone /\ ~lost => Faithful(v, index, item)
      <3>1. v = Idle => Faithful(v, index, item)
        BY Basics
      <3>2. ASSUME Alone, ~lost, v # Idle PROVE Faithful(v, index, item)
        <4>1. index = new
          BY <1>3, <1>7, <1>11, <3>2
        <4>2. v.pc = "fresh"
          BY <1>3, <1>8, <3>2 DEF next, Idle
        <4> QED BY <1>5, <1>8, <4>1, <4>2, NoneAssumption DEF Faithful
      <3> QED BY <3>1, <3>2
    <2> QED BY <1>1, <1>3, <1>8, <1>9, <1>10, <1>11, <2>1, Basics, Gone
  <1>12. CASE index = b /\ index' = new
    <2> HIDE DEF x, b
    <2>1. /\ item' = item /\ recorded' = recorded /\ UNCHANGED <<withdrawn, verified, artifacts>>
          /\ w' = [w EXCEPT ![q] = v] /\ w \in [Workers -> Commands]
      BY <1>1, <1>3, Here DEF Go, world
    <2>2. w' \in [Workers -> Commands] /\ w'[q] = v /\ \A p \in Workers \ {q} : w'[p] = w[p]
      BY <1>8, <2>1
    <2>3. Seen' = Seen
      BY <2>1 DEF Seen
    <2>4. TypeOK'
      BY <1>1, <1>5, <1>12, <2>1, <2>2 DEF IInv, Inv, TypeOK
    <2>5. SaidIsRecorded' /\ Consistent'
      BY <1>1, <1>4, <1>5, <1>12, <2>1, <2>3 DEF IInv, Inv, SaidIsRecorded, Consistent
    <2>6. ASSUME NEW p \in Workers PROVE Knows(w'[p], item', recorded') /\ Informed(w'[p], Seen')
      BY <1>9, <1>10, <2>1, <2>2, <2>3, Here
    <2>7. index' # None
      BY <1>5, <1>12, NoneAssumption
    <2>8. Faithful(v, index', item)
      BY <1>5, <1>8, <1>12, <2>7 DEF Faithful
    <2>9. (Alone /\ ~lost => Kept)'
      <3>1. ASSUME Alone, ~lost PROVE Kept'
        <4>1. \A p \in Workers : Faithful(w'[p], index', item')
          BY <2>1, <2>2, <2>8, <3>1 DEF Alone
        <4>2. Backed(index) => Backed(index')
          BY <1>5, <1>6, <1>12, <2>7, <3>1 DEF Backed
        <4> QED BY <2>1, <3>1, <4>1, <4>2 DEF IInv, Kept
      <3> QED BY <1>1, <3>1 DEF Alone
    <2>10. Lasting
      BY <1>1, <2>1 DEF Lasting
    <2>11. (\A p \in Workers : Knows(w[p], item, recorded) /\ Informed(w[p], Seen))'
      BY <2>6
    <2> QED BY <2>4, <2>5, <2>9, <2>10, <2>11 DEF IInv, Inv
  <1> QED BY <1>3, <1>11, <1>12

-----------------------------------------------------------------------------
\* The disposition.

\* What is left to do once the copy is what the record says.
LEMMA ContinueIs ==
  ASSUME NEW new \in Items, new.delivered # Foreign, NEW said, new.disposition \in said
  PROVE  LET v == Continue(new)
         IN  /\ v \in Commands /\ Knows(v, new, said) /\ Informed(v, Seen)
             /\ Faithful(v, index, new)
  <1> DEFINE v == [Idle EXCEPT !.pc = "edit", !.copy = new, !.live = TRUE]
  <1>1. /\ v \in Commands /\ v.pc = "edit" /\ v.copy = new /\ v.live
        /\ v.base = None /\ v.known = {} /\ v.found = {} /\ v.scope = None
    BY DEF Idle, Commands, Pcs
  <1>2. Continue(new) = v \/ Continue(new) = Idle
    BY DEF Continue
  <1> HIDE DEF v
  <1>3. new # None
    BY NoneAssumption
  <1>4. Knows(v, new, said) /\ Informed(v, Seen) /\ Faithful(v, index, new)
    BY <1>1, <1>3 DEF Knows, Informed, Faithful, Copying
  <1>5. Idle \in Commands /\ Knows(Idle, new, said) /\ Informed(Idle, Seen) /\ Faithful(Idle, index, new)
    BY DEF Idle, Commands, Pcs, Knows, Informed, Faithful, Copying
  <1> QED BY <1>1, <1>2, <1>4, <1>5

\* Fresh keeps the invariant.
LEMMA FreshKeeps ==
  ASSUME IInv, NEW q \in Workers, Fresh(q) PROVE IInv' /\ Lasting
  <1> DEFINE x == w[q]  d == Desired(x.found)  copy == [item EXCEPT !.disposition = d]
             v == [Idle EXCEPT !.pc = "stage", !.copy = copy, !.live = TRUE]
  <1>1. x.pc = "fresh" /\ UNCHANGED <<world, index, message, faults, lost>>
        /\ Go(q, IF copy = item THEN Continue(copy) ELSE v)
    BY DEF Fresh
  <1>2. TypeOK /\ x.found \subseteq Seen /\ (Alone /\ ~lost => Faithful(x, index, item))
    BY Here DEF Informed
  <1>3. /\ d \in Dispositions
        /\ item.disposition.kind = "reclassified" => d = item.disposition
        /\ x.found \cap Same # {} /\ item.disposition.kind = "recovered"
             => d.kind # "superseded"
        /\ d.kind = "recovered" => d = item.disposition \/ x.found \cap Same # {}
    BY <1>2, DesiredIs
  <1>4. CASE copy = item
    BY <1>1, <1>4, Basics, ContinueIs, Gone
  <1>5. CASE copy # item
    <2>1. /\ copy \in Items /\ copy.disposition = d /\ (copy.sent <=> item.sent)
          /\ copy.delivered = item.delivered /\ d # item.disposition
      <3> HIDE DEF d, x
      <3> QED BY <1>3, <1>5, Basics DEF Items
    <2> HIDE DEF copy
    <2>2. /\ v \in Commands /\ v.pc = "stage" /\ v.copy = copy /\ v.live
          /\ v.base = None /\ v.known = {} /\ v.found = {}
      BY <2>1 DEF Idle, Commands, Pcs
    <2>3. Go(q, v)
      BY <1>1, <1>5
    <2> HIDE DEF v
    <2>4. Knows(v, item, recorded)
      <3>1. copy # None /\ copy.delivered # Foreign
        BY <2>1, Basics, NoneAssumption
      <3> QED BY <1>3, <2>1, <2>2, <3>1 DEF Knows, Copying
    <2>5. Informed(v, Seen)
      BY <2>2 DEF Informed
    <2>6. ASSUME Alone, ~lost PROVE Faithful(v, index, item)
      <3>1. index # None /\ x.found = index.outcomes
        BY <1>1, <1>2, <2>6 DEF Faithful
      <3>2. item.disposition.kind = "recovered" => Backed(index)
        BY <2>6 DEF IInv, Kept
      <3> QED BY <1>3, <2>1, <2>2, <3>1, <3>2 DEF Faithful, Backed
    <2> QED BY <1>1, <2>2, <2>3, <2>4, <2>5, <2>6, Basics, Gone
  <1> QED BY <1>4, <1>5

\* Stage keeps the invariant.
LEMMA StageKeeps ==
  ASSUME IInv, NEW q \in Workers, Stage(q) PROVE IInv' /\ Lasting
  <1> DEFINE x == w[q]  new == x.copy
  <1>1. x.pc = "stage" /\ UNCHANGED <<world, index, message, faults, lost>>
    BY DEF Stage
  <1>2. CASE ~x.live
    BY <1>1, <1>2, Basics, Gone DEF Stage
  <1>3. CASE x.live
    <2> DEFINE v == Continue(new)
    <2>1. Write(q, new, v)
      BY <1>3 DEF Stage
    <2>2. /\ x \in Commands /\ Knows(x, item, recorded)
          /\ (Alone /\ ~lost => Faithful(x, index, item))
      BY Here
    <2>3. /\ new \in Items /\ new.delivered # Foreign /\ (new.sent <=> item.sent)
          /\ item.disposition.kind # "reclassified"
      BY <1>1, <1>3, <2>2 DEF Knows, Copying, Commands
    <2>4. /\ Alone /\ ~lost => (new.disposition.kind = "recovered" => Backed(index))
          /\ Alone /\ ~lost => (item.disposition.kind = "recovered"
                                  => new.disposition.kind # "superseded")
      BY <1>1, <1>3, <2>2 DEF Faithful
    <2> HIDE DEF new
    <2>5. /\ v \in Commands /\ Knows(v, new, recorded \cup {new.disposition})
          /\ Informed(v, Seen) /\ Faithful(v, index, new)
      BY <2>3, ContinueIs
    <2> HIDE DEF v
    <2> QED BY <1>1, <2>1, <2>3, <2>4, <2>5, Written
  <1> QED BY <1>2, <1>3

-----------------------------------------------------------------------------
\* The message.

\* The command q with the result of an edit in its copy.
LEMMA EditedIs ==
  ASSUME IInv, NEW q \in Workers, w[q].pc \in {"edit", "patch"},
         NEW result \in {"delivered", "conflict", "unavailable"}
  PROVE  LET v == Edited(q, result)
         IN  /\ v \in Commands /\ Knows(v, item, recorded) /\ Informed(v, Seen)
             /\ Faithful(v, index, item)
  <1> DEFINE x == w[q]  c == x.copy
             e == IF result = "delivered" THEN c.disposition ELSE c.delivered
             r == IF result = "delivered" THEN "none" ELSE result
             d == [c EXCEPT !.delivered = e, !.edit_error = r]
             v == [x EXCEPT !.pc = "result", !.copy = d]
  <1>1. x \in Commands /\ Knows(x, item, recorded) /\ Informed(x, Seen)
    BY Here
  <1>2. c \in Items /\ c.disposition \in recorded /\ c.delivered # Foreign
    BY <1>1 DEF Knows, Copying, Commands
  <1>3. Edited(q, result) = v
    BY <1>1, <1>2 DEF Edited, Commands, Items
  <1>4. e \in Messages \cup {None} /\ e # Foreign /\ r \in {"none", "conflict", "unavailable"}
    BY <1>2, NoneAssumption DEF Items, Messages, Dispositions, Foreign
  <1>5. /\ d \in Items /\ d.disposition = c.disposition /\ (d.sent <=> c.sent) /\ d.delivered = e
    <2> HIDE DEF e, r, c
    <2> QED BY <1>2, <1>4 DEF Items
  <1> HIDE DEF d, e, r
  <1>6. /\ v \in Commands /\ v.pc = "result" /\ v.copy = d /\ v.live = x.live
        /\ v.base = x.base /\ v.known = x.known /\ v.found = x.found
    <2> HIDE DEF x
    <2> QED BY <1>1, <1>5 DEF Commands, Pcs
  <1> HIDE DEF v
  <1>7. d # None
    BY <1>5, NoneAssumption
  <1>8. Knows(v, item, recorded)
    <2>1. x.live => c.disposition = item.disposition /\ (c.sent <=> item.sent)
      BY <1>1 DEF Knows
    <2> HIDE DEF x, c
    <2> QED BY <1>2, <1>4, <1>5, <1>6, <1>7, <2>1 DEF Knows, Copying
  <1>9. Informed(v, Seen) /\ Faithful(v, index, item)
    BY <1>1, <1>6 DEF Informed, Faithful
  <1> QED BY <1>3, <1>6, <1>8, <1>9

\* DoNotDeliver keeps the invariant.
LEMMA DoNotDeliverKeeps ==
  ASSUME IInv, NEW q \in Workers, DoNotDeliver(q) PROVE IInv' /\ Lasting
  BY Basics, Gone DEF DoNotDeliver

\* Edit keeps the invariant.
LEMMA EditKeeps ==
  ASSUME IInv, NEW q \in Workers, Edit(q) PROVE IInv' /\ Lasting
  <1> DEFINE x == w[q]  v == [x EXCEPT !.pc = "patch"]
  <1>1. x.pc = "edit" /\ UNCHANGED <<world, index, message, faults, lost>>
        /\ (Go(q, v) \/ \E result \in {"delivered", "conflict"} : Go(q, Edited(q, result)))
    BY DEF Edit
  <1>2. CASE Go(q, v)
    <2>1. x \in Commands /\ Knows(x, item, recorded) /\ Informed(x, Seen)
      BY Here
    <2> HIDE DEF x
    <2>2. /\ v \in Commands /\ v.pc = "patch" /\ v.copy = x.copy /\ v.live = x.live
          /\ v.base = x.base /\ v.known = x.known /\ v.found = x.found
      BY <2>1 DEF Commands, Pcs
    <2> HIDE DEF v
    <2>3. Knows(v, item, recorded)
      BY <1>1, <2>1, <2>2 DEF Knows, Copying
    <2>4. Informed(v, Seen) /\ Faithful(v, index, item)
      BY <2>1, <2>2 DEF Informed, Faithful
    <2> QED BY <1>1, <1>2, <2>2, <2>3, <2>4, Basics, Gone
  <1>3. CASE \E result \in {"delivered", "conflict"} : Go(q, Edited(q, result))
    BY <1>1, <1>3, EditedIs, Basics, Gone
  <1> QED BY <1>1, <1>2, <1>3

\* What a command expects in the message is never what a person wrote there.
LEMMA ExpectedIs ==
  ASSUME IInv, NEW q \in Workers, w[q].pc \in {"edit", "patch"}
  PROVE  Expected(w[q].copy) \notin {None, Foreign} /\ w[q].copy.disposition \in recorded
  <1> DEFINE c == w[q].copy
  <1>1. c.delivered # Foreign /\ c.disposition \in recorded
    BY Here DEF Knows, Copying
  <1>2. Unresolved \notin {None, Foreign}
    BY NoneAssumption DEF Unresolved, Foreign, Messages, Dispositions
  <1> QED BY <1>1, <1>2 DEF Expected

\* Patch keeps the invariant.
LEMMA PatchKeeps ==
  ASSUME IInv, NEW q \in Workers, Patch(q) PROVE IInv' /\ Lasting
  BY ExpectedIs, EditedIs, Basics, Gone DEF Patch

\* EditUnanswered keeps the invariant.
LEMMA EditUnansweredKeeps ==
  ASSUME IInv, NEW q \in Workers, EditUnanswered(q) PROVE IInv' /\ Lasting
  <1>1. /\ w[q].pc \in {"edit", "patch"} /\ Go(q, Edited(q, "unavailable"))
        /\ UNCHANGED <<world, index, lost>> /\ faults' \in 0..MaxFaults
        /\ \/ message' = message
           \/ message = Expected(w[q].copy) /\ message' = w[q].copy.disposition
    BY Basics DEF EditUnanswered, Unanswered, Fault
  <1> QED BY <1>1, ExpectedIs, EditedIs, Gone

\* RecordResult keeps the invariant.
LEMMA RecordResultKeeps ==
  ASSUME IInv, NEW q \in Workers, RecordResult(q) PROVE IInv' /\ Lasting
  <1> DEFINE x == w[q]  new == x.copy
  <1>1. x.pc = "result" /\ UNCHANGED <<world, index, message, faults, lost>>
    BY DEF RecordResult
  <1>2. CASE ~x.live
    BY <1>1, <1>2, Basics, Gone DEF RecordResult
  <1>3. CASE x.live
    <2>1. Write(q, new, Idle)
      BY <1>3 DEF RecordResult
    <2>2. x \in Commands /\ Knows(x, item, recorded)
      BY Here
    <2>3. /\ new \in Items /\ new.delivered # Foreign /\ (new.sent <=> item.sent)
          /\ new.disposition = item.disposition
      BY <1>1, <1>3, <2>2 DEF Knows, Copying, Commands
    <2>4. Alone /\ ~lost => (item.disposition.kind = "recovered" => Backed(index))
      BY DEF IInv, Kept
    <2> HIDE DEF new
    <2> QED BY <1>1, <2>1, <2>3, <2>4, Basics, Written
  <1> QED BY <1>2, <1>3

-----------------------------------------------------------------------------
\* The world.

\* Somebody else writes the record, and changes at most a disposition of a sent alert.
LEMMA Disturbed ==
  ASSUME IInv, NEW new \in Items, Disturb(new),
         UNCHANGED <<verified, artifacts, index, message, lost>>, withdrawn' \in BOOLEAN,
         faults' \in 0..MaxFaults,
         new.delivered # Foreign, new.sent <=> item.sent,
         new.disposition = item.disposition \/ new.disposition.kind = "reclassified"
  PROVE  IInv' /\ Lasting
  <1>1. /\ item' = new /\ recorded' = recorded \cup {new.disposition}
        /\ w' = [p \in Workers |-> [w[p] EXCEPT !.live = FALSE]]
    BY DEF Disturb
  <1>2. w' \in [Workers -> Commands]
    BY <1>1, Here, Stale
  <1>3. \A p \in Workers : w'[p] = [w[p] EXCEPT !.live = FALSE]
    BY <1>1
  <1>4. /\ item.disposition.kind = "reclassified" => new.disposition.kind = "reclassified"
        /\ item.disposition.kind = "recovered" => new.disposition.kind # "superseded"
    OBVIOUS
  <1>5. Alone /\ ~lost => (new.disposition.kind = "recovered" => Backed(index))
    BY DEF IInv, Kept
  <1>6. ASSUME NEW p \in Workers
        PROVE  \/ w'[p] = [w[p] EXCEPT !.live = FALSE]
               \/ Knows(w'[p], new, recorded') /\ Informed(w'[p], Seen) /\ Faithful(w'[p], index, new)
    BY <1>3
  <1> QED BY <1>1, <1>2, <1>4, <1>5, <1>6, Rewritten

\* Touch keeps the invariant.
LEMMA TouchKeeps ==
  ASSUME IInv, Touch PROVE IInv' /\ Lasting
  BY Basics, Disturbed DEF Touch, Fault, world, IInv, Inv, TypeOK

\* Withdraw keeps the invariant.
LEMMA WithdrawKeeps ==
  ASSUME IInv, Withdraw PROVE IInv' /\ Lasting
  BY Basics, Disturbed DEF Withdraw

\* Reclassify keeps the invariant.
LEMMA ReclassifyKeeps ==
  ASSUME IInv, Reclassify PROVE IInv' /\ Lasting
  <1> DEFINE d == [kind |-> "reclassified", evidence |-> None]
             new == [item EXCEPT !.disposition = d]
  <1>1. Disturb(new) /\ UNCHANGED <<world, index, message, faults, lost>>
    BY DEF Reclassify
  <1>2. d \in Dispositions /\ d.kind = "reclassified"
    BY DEF Dispositions
  <1> HIDE DEF d
  <1>3. /\ new \in Items /\ new.disposition = d /\ (new.sent <=> item.sent)
        /\ new.delivered = item.delivered
    BY <1>2, Basics DEF Items
  <1> HIDE DEF new
  <1> QED BY <1>1, <1>2, <1>3, Basics, Disturbed DEF world, IInv, Inv, TypeOK

\* The records and the commands stay as they are.
LEMMA Apart ==
  ASSUME IInv, UNCHANGED <<item, recorded, w>>, withdrawn' \in BOOLEAN,
         verified' \in Seq(Outcomes), Seen \subseteq Seen', artifacts' \in SUBSET Outcomes,
         faults' \in 0..MaxFaults, lost' \in BOOLEAN, lost => lost',
         index' = index \/ (index' = None /\ lost'),
         message' = message \/ (message \notin {None, Foreign} /\ message' = Foreign)
  PROVE  IInv' /\ Lasting
  <1>1. TypeOK'
    BY DEF IInv, Inv, TypeOK, Messages
  <1>2. SaidIsRecorded' /\ Consistent'
    BY DEF IInv, Inv, SaidIsRecorded, Consistent
  <1>3. ASSUME NEW p \in Workers PROVE Knows(w'[p], item', recorded') /\ Informed(w'[p], Seen')
    BY Here DEF Informed
  <1>4. (Alone /\ ~lost => Kept)'
    <2>1. ASSUME Alone, ~lost' PROVE Kept'
      BY <2>1 DEF IInv, Kept
    <2> QED BY <2>1 DEF Alone
  <1>5. Lasting
    BY DEF Lasting
  <1>6. (\A p \in Workers : Knows(w[p], item, recorded) /\ Informed(w[p], Seen))'
    BY <1>3
  <1> QED BY <1>1, <1>2, <1>4, <1>5, <1>6 DEF IInv, Inv

\* A sequence that is extended has the elements it had, and the new one.
LEMMA Appended ==
  ASSUME NEW S, NEW s \in Seq(S), NEW o \in S
  PROVE  Append(s, o) \in Seq(S) /\ ToSet(s) \subseteq ToSet(Append(s, o))
  <1>1. DOMAIN Append(s, o) = 1..Len(s) + 1 /\ DOMAIN s = 1..Len(s) /\ Len(s) \in Nat
    OBVIOUS
  <1>2. \A i \in 1..Len(s) : i \in DOMAIN Append(s, o) /\ Append(s, o)[i] = s[i]
    BY <1>1
  <1> QED BY <1>1, <1>2 DEF ToSet

\* The world keeps the invariant.
LEMMA WorldKeeps ==
  ASSUME IInv,
         LoseIndex \/ EditByHand \/ (\E o \in Outcomes : Verify(o) \/ Expire(o)) \/ UNCHANGED vars
  PROVE  IInv' /\ Lasting
  <1>1. TypeOK /\ faults \in 0..MaxFaults
    BY Basics DEF IInv, Inv
  <1>2. CASE LoseIndex
    <2>1. faults' \in 0..MaxFaults
      BY <1>1, <1>2, AlertsAssumption DEF LoseIndex
    <2> QED BY <1>1, <1>2, <2>1, Apart DEF LoseIndex, TypeOK, world, Seen
  <1>3. CASE EditByHand
    BY <1>1, <1>3, Apart DEF EditByHand, TypeOK, world, Seen
  <1>4. ASSUME NEW o \in Outcomes, Verify(o) PROVE IInv' /\ Lasting
    <2>1. verified' \in Seq(Outcomes) /\ Seen \subseteq Seen'
      BY <1>1, <1>4, Appended DEF Verify, TypeOK, Seen
    <2> QED BY <1>1, <1>4, <2>1, Apart DEF Verify, TypeOK
  <1>5. ASSUME NEW o \in Outcomes, Expire(o) PROVE IInv' /\ Lasting
    BY <1>1, <1>5, Apart DEF Expire, TypeOK, Seen
  <1>6. CASE UNCHANGED vars
    BY <1>1, <1>6, Apart DEF vars, TypeOK, world, Seen
  <1> QED BY <1>2, <1>3, <1>4, <1>5, <1>6

\* The invariant holds initially.
LEMMA InitIInv == Init => IInv
  <1> SUFFICES ASSUME Init PROVE IInv
    OBVIOUS
  <1>1. Unresolved \in Dispositions /\ Unresolved # Foreign /\ None # Foreign
    BY NoneAssumption DEF Unresolved, Dispositions, Foreign, Messages
  <1>2. /\ Pending \in Items /\ Pending.disposition = Unresolved /\ Pending.delivered = None
        /\ ~Pending.sent
    BY <1>1 DEF Pending, Items
  <1> DEFINE sent == [Pending EXCEPT !.sent = TRUE]
  <1>3. sent \in Items /\ sent.disposition = Unresolved /\ sent.delivered = None /\ sent.sent
    BY <1>1 DEF Pending, Items
  <1>4. (item = Pending /\ message = None) \/ (item = sent /\ message = Unresolved)
    BY DEF Init
  <1> HIDE DEF sent
  <1>5. item \in Items /\ item.disposition = Unresolved /\ item.delivered = None
        /\ (~item.sent => message = None) /\ message \in {None, Unresolved}
    BY <1>2, <1>3, <1>4
  <1>6. /\ Idle \in Commands /\ Informed(Idle, Seen)
        /\ \A new, said : Knows(Idle, new, said) /\ Faithful(Idle, index, new)
    BY DEF Idle, Commands, Pcs, Knows, Informed, Faithful, Copying
  <1>7. w \in [Workers -> Commands] /\ \A q \in Workers : w[q] = Idle
    BY <1>6 DEF Init
  <1>8. verified \in Seq(Outcomes)
    BY DEF Init
  <1> DEFINE old == [grouped |-> FALSE, outcomes |-> {}]
  <1>o. old \in Indexes /\ old.outcomes = {}
    BY DEF Indexes
  <1>i. index = None \/ index = old
    BY DEF Init
  <1> HIDE DEF old
  <1>9. index \in Indexes \cup {None} /\ (index # None => index.outcomes = {})
    BY <1>o, <1>i
  <1>f. faults \in 0..MaxFaults
    BY AlertsAssumption DEF Init
  <1>m. message \in Messages \cup {None}
    BY <1>1, <1>5 DEF Messages
  <1>r. recorded \subseteq Dispositions
    BY <1>1 DEF Init
  <1>b. /\ withdrawn \in BOOLEAN /\ lost \in BOOLEAN /\ artifacts \subseteq Outcomes
    BY DEF Init
  <1>10. TypeOK
    BY <1>5, <1>7, <1>8, <1>9, <1>f, <1>m, <1>r, <1>b DEF TypeOK
  <1>11. SaidIsRecorded /\ Consistent
    BY <1>1, <1>5, <1>9 DEF SaidIsRecorded, Consistent, Init
  <1>12. Kept
    BY <1>5, <1>6, <1>7 DEF Kept, Unresolved
  <1> QED BY <1>6, <1>7, <1>10, <1>11, <1>12 DEF IInv, Inv

\* Every step keeps the invariant.
LEMMA NextKeeps == IInv /\ [Next]_vars => IInv' /\ Lasting
  <1> SUFFICES ASSUME IInv, [Next]_vars PROVE IInv' /\ Lasting
    OBVIOUS
  <1>1. ASSUME NEW q \in Workers,
               Notify(q) \/ Reconcile(q) \/ Step(q) \/ Crash(q) \/ EditUnanswered(q)
        PROVE  IInv' /\ Lasting
    BY <1>1, NotifyKeeps, ReconcileKeeps, SendKeeps, RecordSentKeeps, CollectKeeps,
       RefreshIndexKeeps, FreshKeeps, StageKeeps, DoNotDeliverKeeps, EditKeeps, PatchKeeps,
       RecordResultKeeps, CrashKeeps, EditUnansweredKeeps DEF Step
  <1> QED BY <1>1, WorldKeeps, TouchKeeps, WithdrawKeeps, ReclassifyKeeps DEF Next

-----------------------------------------------------------------------------
\* Theorems.

\* The invariant holds in every reachable state.
LEMMA Inductive == Spec => []IInv
  <1> QED BY InitIInv, NextKeeps, PTL DEF Spec

\* Whatever a message says of an alert was on record before it was said, of any number
\* of commands that overlap (notify_operator_alerts, reconcile_operator_alerts).
THEOREM AlertsConsistent == Spec => []Inv
  <1>1. IInv => Inv
    BY DEF IInv
  <1> QED BY <1>1, Inductive, PTL

\* What a person wrote into the message is never overwritten (edit_zulip_message).
THEOREM ForeignKept == Spec => ForeignStands
  <1>1. IInv /\ [Next]_vars => [message = Foreign => message' = Foreign]_vars
    BY NextKeeps DEF Lasting
  <1> QED BY <1>1, Inductive, PTL DEF Spec, ForeignStands

\* A maintainer's correction is final, whatever an overlapping command has read
\* (desired_alerts, and the conditional writes of the record).
THEOREM CorrectionKept == Spec => CorrectionStands
  <1>1. IInv /\ [Next]_vars =>
          [item.disposition.kind = "reclassified" => item'.disposition.kind = "reclassified"]_vars
    BY NextKeeps DEF Lasting
  <1> QED BY <1>1, Inductive, PTL DEF Spec, CorrectionStands

\* Evidence that an alert was recovered outlives its artifact: the index keeps what was
\* validated, as long as commands do not overlap (reconcile_operator_alerts).
THEOREM RecoveryKept == Spec => RecoveryStands
  <1>1. IInv /\ [Next]_vars =>
          [Alone /\ item.disposition.kind = "recovered" /\ ~lost
             => item'.disposition.kind # "superseded"]_vars
    BY NextKeeps DEF Lasting
  <1> QED BY <1>1, Inductive, PTL DEF Spec, RecoveryStands
=============================================================================
