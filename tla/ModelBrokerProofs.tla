-------------------------- MODULE ModelBrokerProofs --------------------------
(***************************************************************************)
(* What holds of the broker of one pass for every number of connections,   *)
(* every policy and every cost the provider may report.                    *)
(*                                                                         *)
(* A step of a handler replaces its record and adjusts the ledger.  What   *)
(* the counters need to know of it is Effect: whether the handler enters   *)
(* or leaves a slot, a permit and the requests not yet charged, and what   *)
(* the ledger does at the same time.  Each action is shown to have such an *)
(* effect, and every invariant of the counters follows from the effect.    *)
(***************************************************************************)
EXTENDS ModelBroker, FiniteSetTheorems, TLAPS

Slot(c) == h[c].pc \in SlotPcs
Spot(c) == h[c].pc \in OpenPcs
Owes(c) == Slot(c) /\ h[c].charges = 0

\* StartedIsChargedOnce for one handler.
Charged(c) == h[c].answer = "ok" /\ h[c].pc \in Ended \cup {"ending"} => h[c].charges = 1

Known == \A c \in Connections : Progress(c) /\ Charged(c)

\* The records of the other handlers stay, and this one stays well formed.
Local(c) ==
    /\ h' \in [Connections -> Handlers]
    /\ \A d \in Connections \ {c} : h'[d] = h[d]
    /\ Progress(c)' /\ Charged(c)'

SlotEffect(c) ==
    \/ (Slot(c)' <=> Slot(c)) /\ ledger'.active = ledger.active /\ ledger'.requests = ledger.requests
    \/ /\ ~Slot(c) /\ Slot(c)' /\ ~Blocked
       /\ ledger'.active = ledger.active + 1 /\ ledger'.requests = ledger.requests + 1
    \/ /\ Slot(c) /\ ~Slot(c)'
       /\ ledger'.active = ledger.active - 1 /\ ledger'.requests = ledger.requests

SpotEffect(c) ==
    \/ (Spot(c)' <=> Spot(c)) /\ permits' = permits
    \/ ~Spot(c) /\ Spot(c)' /\ permits > 0 /\ permits' = permits - 1
    \/ Spot(c) /\ ~Spot(c)' /\ permits' = permits + 1

\* A request is let in, charged, or no longer to be charged.
ChargeEffect(c) ==
    \/ /\ Owes(c)' => Owes(c)
       /\ ledger'.tokens = ledger.tokens /\ ledger'.usd = ledger.usd
    \/ /\ ~Owes(c) /\ Owes(c)' /\ ~Slot(c) /\ ~Blocked
       /\ ledger'.tokens = ledger.tokens /\ ledger'.usd = ledger.usd
    \/ /\ Owes(c) /\ ~Owes(c)'
       /\ \E cost \in Costs : /\ ledger'.tokens = ledger.tokens + cost.tokens
                              /\ ledger'.usd = ledger.usd + cost.usd

Effect(c) ==
    /\ Local(c) /\ SlotEffect(c) /\ SpotEffect(c) /\ ChargeEffect(c)
    /\ ledger' \in Ledgers /\ UNCHANGED <<parent, child, status>>

-----------------------------------------------------------------------------
\* The operations of the ledger.

\* What is charged is a cost.
LEMMA PricedType == ASSUME NEW usage \in Charges \cup {None} PROVE Priced(usage) \in Costs
  BY BrokerAssumption DEF Priced

\* A refusal changes nothing that is bounded.
LEMMA RefusedEffect ==
  ASSUME ledger \in Ledgers
  PROVE  /\ Refused \in Ledgers
         /\ Refused.requests = ledger.requests /\ Refused.active = ledger.active
         /\ Refused.tokens = ledger.tokens /\ Refused.usd = ledger.usd
<1> DEFINE n == ledger.refusals + 1
<1>1. n \in Nat
  BY DEF Ledgers
<1>2. Refused = [ledger EXCEPT !.refusals = n]
  BY DEF Refused
<1> HIDE DEF n
<1> QED
  BY <1>1, <1>2 DEF Ledgers

\* begin takes a request and a slot.
LEMMA BegunEffect ==
  ASSUME ledger \in Ledgers
  PROVE  /\ Begun \in Ledgers
         /\ Begun.requests = ledger.requests + 1 /\ Begun.active = ledger.active + 1
         /\ Begun.tokens = ledger.tokens /\ Begun.usd = ledger.usd
<1> DEFINE n == ledger.requests + 1
           m == ledger.active + 1
<1>1. n \in Nat /\ m \in Nat
  BY DEF Ledgers
<1>2. Begun = [ledger EXCEPT !.requests = n, !.active = m]
  BY DEF Begun
<1>3. /\ Begun \in Ledgers /\ Begun.requests = n /\ Begun.active = m
      /\ Begun.tokens = ledger.tokens /\ Begun.usd = ledger.usd
  <2> HIDE DEF n, m
  <2> QED BY <1>1, <1>2 DEF Ledgers
<1> QED
  BY <1>3

\* end gives the slot back.
LEMMA DoneEffect ==
  ASSUME ledger \in Ledgers, ledger.active > 0, NEW b \in BOOLEAN
  PROVE  /\ Done(b) \in Ledgers
         /\ Done(b).requests = ledger.requests /\ Done(b).active = ledger.active - 1
         /\ Done(b).tokens = ledger.tokens /\ Done(b).usd = ledger.usd
<1> DEFINE n == ledger.active - 1
           m == IF b THEN ledger.forwarded + 1 ELSE ledger.forwarded
<1>1. n \in Nat /\ m \in Nat
  BY DEF Ledgers
<1>2. Done(b) = [ledger EXCEPT !.active = n, !.forwarded = m]
  BY DEF Done
<1>3. /\ Done(b) \in Ledgers /\ Done(b).active = n /\ Done(b).requests = ledger.requests
      /\ Done(b).tokens = ledger.tokens /\ Done(b).usd = ledger.usd
  <2> HIDE DEF n, m
  <2> QED BY <1>1, <1>2 DEF Ledgers
<1> QED
  BY <1>3

\* record_usage adds one cost.
LEMMA RecordedEffect ==
  ASSUME ledger \in Ledgers, NEW usage \in Charges \cup {None}
  PROVE  /\ Recorded(usage) \in Ledgers
         /\ Recorded(usage).requests = ledger.requests
         /\ Recorded(usage).active = ledger.active
         /\ Recorded(usage).tokens = ledger.tokens + Priced(usage).tokens
         /\ Recorded(usage).usd = ledger.usd + Priced(usage).usd
<1> DEFINE t == ledger.tokens + Priced(usage).tokens
           u == ledger.usd + Priced(usage).usd
           n == IF usage = None THEN ledger.unpriced + 1 ELSE ledger.unpriced
<1>1. Priced(usage).tokens \in Nat /\ Priced(usage).usd \in Nat
  BY PricedType, BrokerAssumption DEF Costs
<1>2. t \in Nat /\ u \in Nat /\ n \in Nat
  BY <1>1 DEF Ledgers
<1>3. Recorded(usage) = [ledger EXCEPT !.tokens = t, !.usd = u, !.unpriced = n]
  BY DEF Recorded
<1>4. /\ Recorded(usage) \in Ledgers /\ Recorded(usage).tokens = t /\ Recorded(usage).usd = u
      /\ Recorded(usage).requests = ledger.requests
      /\ Recorded(usage).active = ledger.active
  <2> HIDE DEF t, u, n
  <2> QED BY <1>2, <1>3 DEF Ledgers
<1> QED
  BY <1>4

-----------------------------------------------------------------------------
\* The records of the handlers.

\* A handler step is a new record for one handler.
LEMMA Became ==
  ASSUME TypeOK, NEW c \in Connections, NEW r \in Handlers, Becomes(c, r)
  PROVE  /\ h' \in [Connections -> Handlers]
         /\ h'[c] = r
         /\ \A d \in Connections \ {c} : h'[d] = h[d]
  BY DEF Becomes, TypeOK

\* What the invariants say of a handler is said of these fields.
Agree(r, g) == r.charges = g.charges /\ r.answer = g.answer /\ r.event = g.event /\ r.seen = g.seen

\* The records that a handler may step to, field by field.
LEMMA Advance ==
  ASSUME NEW g \in Handlers, NEW pc \in Pcs
  PROVE  LET r == [g EXCEPT !.pc = pc]
         IN  r \in Handlers /\ r.pc = pc /\ Agree(r, g)
  BY DEF Handlers, Agree

\* A request is let in.
LEMMA LetIn ==
  ASSUME NEW g \in Handlers, NEW pc \in Pcs
  PROVE  LET r == [g EXCEPT !.pc = pc, !.admitted = TRUE]
         IN  r \in Handlers /\ r.pc = pc /\ Agree(r, g)
  BY DEF Handlers, Agree

\* A chunk has passed.
LEMMA Pass ==
  ASSUME NEW g \in Handlers, NEW pc \in Pcs, NEW n \in 0..MaxChunks
  PROVE  LET r == [g EXCEPT !.pc = pc, !.total = n]
         IN  r \in Handlers /\ r.pc = pc /\ Agree(r, g)
  BY DEF Handlers, Agree

\* Codex was told.
LEMMA Tell ==
  ASSUME NEW g \in Handlers, NEW pc \in Pcs, NEW b \in BOOLEAN
  PROVE  LET r == [g EXCEPT !.pc = pc, !.told = b]
         IN  r \in Handlers /\ r.pc = pc /\ Agree(r, g)
  BY DEF Handlers, Agree

\* The client is gone.
LEMMA Lose ==
  ASSUME NEW g \in Handlers, NEW pc \in Pcs
  PROVE  LET r == [g EXCEPT !.pc = pc, !.hungup = TRUE]
         IN  r \in Handlers /\ r.pc = pc /\ Agree(r, g)
  BY DEF Handlers, Agree

\* An exception has ended the request.
LEMMA Raise ==
  ASSUME NEW g \in Handlers, NEW pc \in Pcs
  PROVE  LET r == [g EXCEPT !.pc = pc, !.raised = TRUE]
         IN  r \in Handlers /\ r.pc = pc /\ Agree(r, g)
  BY DEF Handlers, Agree

\* The response is whole, or not.
LEMMA Complete ==
  ASSUME NEW g \in Handlers, NEW pc \in Pcs, NEW b \in BOOLEAN
  PROVE  LET r == [g EXCEPT !.pc = pc, !.whole = b]
         IN  r \in Handlers /\ r.pc = pc /\ Agree(r, g)
  BY DEF Handlers, Agree

-----------------------------------------------------------------------------
\* The effect of each action.

\* The new record r of handler c, put in the place of h'[c].
LEMMA Replace ==
  ASSUME TypeOK, NEW c \in Connections, NEW r \in Handlers, Becomes(c, r),
         r.seen => r.event = "plain",
         r.event # "none" => r.answer = "ok",
         r.charges \in {0, 1},
         r.pc \notin Ended \cup {"ending"} => (r.charges = 1 <=> r.seen),
         r.pc \in {"idle", "reading", "connecting", "awaiting"} => r.answer = "none",
         r.answer = "ok" /\ r.pc \in Ended \cup {"ending"} => r.charges = 1
  PROVE  Local(c) /\ h'[c] = r
<1>1. h'[c] = r
  BY Became
<1>2. Progress(c)' /\ Charged(c)'
  BY <1>1 DEF Progress, Charged
<1> QED
  BY <1>1, <1>2, Became DEF Local

\* The effect of Accept.
LEMMA AcceptEffect ==
  ASSUME TypeOK, Known, NEW c \in Connections, Accept(c) PROVE Effect(c)
<1> DEFINE g == h[c]
           pc == IF permits > 0 THEN "reading" ELSE "closed"
           r == [g EXCEPT !.pc = pc]
<1>1. g \in Handlers /\ g.pc = "idle" /\ Progress(c) /\ permits \in Nat /\ ledger \in Ledgers
  BY BrokerAssumption DEF Accept, Known, TypeOK
<1>2. pc \in Pcs
  BY DEF Pcs, OpenPcs
<1>3. r \in Handlers /\ r.pc = pc /\ Agree(r, g)
  <2> HIDE DEF pc, g
  <2> QED BY <1>1, <1>2, Advance
<1>4. Becomes(c, r)
  BY <1>1 DEF Accept
<1>5. pc \in {"reading", "closed"}
  OBVIOUS
<1>6. Local(c) /\ h'[c] = r
  <2> HIDE DEF r, pc
  <2> QED BY <1>1, <1>3, <1>4, <1>5, Replace DEF Progress, Agree, Ended
<1>7. ledger' = ledger /\ UNCHANGED <<parent, child, status>>
  BY DEF Accept
<1>8. ~Slot(c) /\ ~Slot(c)' /\ ~Spot(c) /\ (Spot(c)' <=> permits > 0)
  BY <1>1, <1>3, <1>6 DEF Slot, Spot, OpenPcs, SlotPcs
<1>9. IF permits > 0 THEN permits' = permits - 1 ELSE permits' = permits
  BY <1>1 DEF Accept
<1> QED
  BY <1>1, <1>6, <1>7, <1>8, <1>9 DEF Effect, SlotEffect, SpotEffect, ChargeEffect, Owes

\* The effect of Unserved.
LEMMA UnservedEffect ==
  ASSUME TypeOK, Known, NEW c \in Connections, Unserved(c) PROVE Effect(c)
<1> DEFINE g == h[c]
           r == [g EXCEPT !.pc = "closing"]
<1>1. g \in Handlers /\ g.pc = "reading" /\ Progress(c) /\ ledger \in Ledgers
  BY DEF Unserved, At, Known, TypeOK
<1>2. r \in Handlers /\ r.pc = "closing" /\ Agree(r, g)
  BY <1>1, Advance DEF Pcs, OpenPcs
<1>3. Becomes(c, r)
  BY DEF Unserved
<1>4. Local(c) /\ h'[c] = r
  <2> HIDE DEF r
  <2> QED BY <1>1, <1>2, <1>3, Replace DEF Progress, Agree, Ended
<1>5. ledger' = ledger /\ permits' = permits /\ UNCHANGED <<parent, child, status>>
  BY DEF Unserved, server
<1>6. ~Slot(c) /\ ~Slot(c)' /\ Spot(c) /\ Spot(c)'
  BY <1>1, <1>2, <1>4 DEF Slot, Spot, OpenPcs, SlotPcs
<1> QED
  BY <1>1, <1>4, <1>5, <1>6 DEF Effect, SlotEffect, SpotEffect, ChargeEffect, Owes

\* A step within a slot that charges nothing.
LEMMA WithinSlot ==
  ASSUME TypeOK, NEW c \in Connections, NEW r \in Handlers, Becomes(c, r),
         h[c].pc \in SlotPcs, r.pc \in SlotPcs, r.charges = h[c].charges,
         r.seen => r.event = "plain",
         r.event # "none" => r.answer = "ok",
         r.charges \in {0, 1},
         r.pc # "ending" => (r.charges = 1 <=> r.seen),
         r.pc \in {"connecting", "awaiting"} => r.answer = "none",
         r.answer = "ok" /\ r.pc = "ending" => r.charges = 1,
         ledger' \in Ledgers,
         ledger'.active = ledger.active, ledger'.requests = ledger.requests,
         ledger'.tokens = ledger.tokens, ledger'.usd = ledger.usd,
         permits' = permits, UNCHANGED <<parent, child, status>>
  PROVE  Effect(c)
<1>1. Local(c) /\ h'[c] = r
  BY Replace DEF Ended, SlotPcs
<1>2. Slot(c) /\ Slot(c)' /\ Spot(c) /\ Spot(c)' /\ (Owes(c) <=> Owes(c)')
  BY <1>1 DEF Slot, Spot, Owes, OpenPcs
<1> QED
  BY <1>1, <1>2 DEF Effect, SlotEffect, SpotEffect, ChargeEffect

\* The effect of Connect.
LEMMA ConnectEffect ==
  ASSUME TypeOK, Known, NEW c \in Connections, Connect(c) PROVE Effect(c)
<1> DEFINE g == h[c]
           r == [g EXCEPT !.pc = "awaiting"]
<1>1. g \in Handlers /\ g.pc = "connecting" /\ Progress(c) /\ ledger \in Ledgers
  BY DEF Connect, At, Known, TypeOK
<1>2. r \in Handlers /\ r.pc = "awaiting" /\ Agree(r, g)
  BY <1>1, Advance DEF Pcs, OpenPcs, SlotPcs
<1>3. Becomes(c, r)
  BY DEF Connect
<1>4. permits' = permits /\ UNCHANGED <<parent, child, status>>
  BY DEF Connect, server
<1>5. /\ ledger' \in Ledgers
      /\ ledger'.active = ledger.active /\ ledger'.requests = ledger.requests
      /\ ledger'.tokens = ledger.tokens /\ ledger'.usd = ledger.usd
  BY <1>1 DEF Connect, server
<1> HIDE DEF r
<1> QED
  BY <1>1, <1>2, <1>3, <1>4, <1>5, WithinSlot DEF Progress, Agree, Ended, SlotPcs

\* The effect of NoAnswer.
LEMMA NoAnswerEffect ==
  ASSUME TypeOK, Known, NEW c \in Connections, NoAnswer(c) PROVE Effect(c)
<1> DEFINE g == h[c]
           r == [g EXCEPT !.pc = "ending"]
<1>1. g \in Handlers /\ g.pc \in {"connecting", "awaiting"} /\ Progress(c) /\ ledger \in Ledgers
  BY DEF NoAnswer, At, Known, TypeOK
<1>2. r \in Handlers /\ r.pc = "ending" /\ Agree(r, g)
  BY <1>1, Advance DEF Pcs, OpenPcs, SlotPcs
<1>3. Becomes(c, r)
  BY DEF NoAnswer
<1>4. permits' = permits /\ UNCHANGED <<parent, child, status>>
  BY DEF NoAnswer, server
<1>5. /\ ledger' \in Ledgers
      /\ ledger'.active = ledger.active /\ ledger'.requests = ledger.requests
      /\ ledger'.tokens = ledger.tokens /\ ledger'.usd = ledger.usd
  BY <1>1, RefusedEffect DEF NoAnswer, server
<1> HIDE DEF r
<1> QED
  BY <1>1, <1>2, <1>3, <1>4, <1>5, WithinSlot DEF Progress, Agree, Ended, SlotPcs

\* The effect of Write.
LEMMA WriteEffect ==
  ASSUME TypeOK, Known, NEW c \in Connections, Write(c) PROVE Effect(c)
<1> DEFINE g == h[c]
           b == g.told \/ (g.event # "none" /\ stage = "running")
           r == [g EXCEPT !.pc = "relaying", !.told = b]
<1>1. g \in Handlers /\ g.pc = "writing" /\ Progress(c) /\ ledger \in Ledgers
  BY DEF Write, At, Known, TypeOK
<1>2. r \in Handlers /\ r.pc = "relaying" /\ Agree(r, g)
  <2>1. b \in BOOLEAN
    BY <1>1 DEF Handlers
  <2> HIDE DEF b
  <2> QED BY <1>1, <2>1, Tell DEF Pcs, OpenPcs, SlotPcs
<1>3. Becomes(c, r)
  BY DEF Write
<1>4. permits' = permits /\ UNCHANGED <<parent, child, status>>
  BY DEF Write, server
<1>5. /\ ledger' \in Ledgers
      /\ ledger'.active = ledger.active /\ ledger'.requests = ledger.requests
      /\ ledger'.tokens = ledger.tokens /\ ledger'.usd = ledger.usd
  BY <1>1 DEF Write, server
<1> HIDE DEF r
<1> QED
  BY <1>1, <1>2, <1>3, <1>4, <1>5, WithinSlot DEF Progress, Agree, Ended, SlotPcs

\* The effect of HangUp.
LEMMA HangUpEffect ==
  ASSUME TypeOK, Known, NEW c \in Connections, HangUp(c) PROVE Effect(c)
<1> DEFINE g == h[c]
           r == [g EXCEPT !.pc = "settling", !.hungup = TRUE]
<1>1. g \in Handlers /\ g.pc = "writing" /\ Progress(c) /\ ledger \in Ledgers
  BY DEF HangUp, At, Known, TypeOK
<1>2. r \in Handlers /\ r.pc = "settling" /\ Agree(r, g)
  BY <1>1, Lose DEF Pcs, OpenPcs, SlotPcs
<1>3. Becomes(c, r)
  BY DEF HangUp
<1>4. permits' = permits /\ UNCHANGED <<parent, child, status>>
  BY DEF HangUp, server
<1>5. /\ ledger' \in Ledgers
      /\ ledger'.active = ledger.active /\ ledger'.requests = ledger.requests
      /\ ledger'.tokens = ledger.tokens /\ ledger'.usd = ledger.usd
  BY <1>1 DEF HangUp, server
<1> HIDE DEF r
<1> QED
  BY <1>1, <1>2, <1>3, <1>4, <1>5, WithinSlot DEF Progress, Agree, Ended, SlotPcs

\* The effect of Stumble.
LEMMA StumbleEffect ==
  ASSUME TypeOK, Known, NEW c \in Connections, Stumble(c) PROVE Effect(c)
<1> DEFINE g == h[c]
           r == [g EXCEPT !.pc = "settling", !.raised = TRUE]
<1>1. g \in Handlers /\ g.pc = "writing" /\ Progress(c) /\ ledger \in Ledgers
  BY DEF Stumble, At, Known, TypeOK
<1>2. r \in Handlers /\ r.pc = "settling" /\ Agree(r, g)
  BY <1>1, Raise DEF Pcs, OpenPcs, SlotPcs
<1>3. Becomes(c, r)
  BY DEF Stumble
<1>4. permits' = permits /\ UNCHANGED <<parent, child, status>>
  BY DEF Stumble, server
<1>5. /\ ledger' \in Ledgers
      /\ ledger'.active = ledger.active /\ ledger'.requests = ledger.requests
      /\ ledger'.tokens = ledger.tokens /\ ledger'.usd = ledger.usd
  BY <1>1 DEF Stumble, server
<1> HIDE DEF r
<1> QED
  BY <1>1, <1>2, <1>3, <1>4, <1>5, WithinSlot DEF Progress, Agree, Ended, SlotPcs

\* The effect of Break.
LEMMA BreakEffect ==
  ASSUME TypeOK, Known, NEW c \in Connections, Break(c) PROVE Effect(c)
<1> DEFINE g == h[c]
           r == [g EXCEPT !.pc = "settling"]
<1>1. g \in Handlers /\ g.pc = "relaying" /\ Progress(c) /\ ledger \in Ledgers
  BY DEF Break, At, Known, TypeOK
<1>2. r \in Handlers /\ r.pc = "settling" /\ Agree(r, g)
  BY <1>1, Advance DEF Pcs, OpenPcs, SlotPcs
<1>3. Becomes(c, r)
  BY DEF Break
<1>4. permits' = permits /\ UNCHANGED <<parent, child, status>>
  BY DEF Break, server
<1>5. /\ ledger' \in Ledgers
      /\ ledger'.active = ledger.active /\ ledger'.requests = ledger.requests
      /\ ledger'.tokens = ledger.tokens /\ ledger'.usd = ledger.usd
  BY <1>1, RefusedEffect DEF Break, server
<1> HIDE DEF r
<1> QED
  BY <1>1, <1>2, <1>3, <1>4, <1>5, WithinSlot DEF Progress, Agree, Ended, SlotPcs

\* The effect of EndOfStream.
LEMMA EndOfStreamEffect ==
  ASSUME TypeOK, Known, NEW c \in Connections, EndOfStream(c) PROVE Effect(c)
<1> DEFINE g == h[c]
           b == (g.answer = "ok")
           r == [g EXCEPT !.pc = "settling", !.whole = b]
<1>1. g \in Handlers /\ g.pc = "relaying" /\ Progress(c) /\ ledger \in Ledgers
  BY DEF EndOfStream, At, Known, TypeOK
<1>2. r \in Handlers /\ r.pc = "settling" /\ Agree(r, g)
  <2>1. b \in BOOLEAN
    BY <1>1 DEF Handlers
  <2> HIDE DEF b
  <2> QED BY <1>1, <2>1, Complete DEF Pcs, OpenPcs, SlotPcs
<1>3. Becomes(c, r)
  BY DEF EndOfStream
<1>4. permits' = permits /\ UNCHANGED <<parent, child, status>>
  BY DEF EndOfStream, server
<1>5. /\ ledger' \in Ledgers
      /\ ledger'.active = ledger.active /\ ledger'.requests = ledger.requests
      /\ ledger'.tokens = ledger.tokens /\ ledger'.usd = ledger.usd
  BY <1>1 DEF EndOfStream, server
<1> HIDE DEF r
<1> QED
  BY <1>1, <1>2, <1>3, <1>4, <1>5, WithinSlot DEF Progress, Agree, Ended, SlotPcs

\* The effect of Respond.
LEMMA RespondEffect ==
  ASSUME TypeOK, Known, NEW c \in Connections, Respond(c) PROVE Effect(c)
<1> DEFINE g == h[c]
<1>1. g \in Handlers /\ g.pc = "awaiting" /\ Progress(c) /\ ledger \in Ledgers
  BY DEF Respond, At, Known, TypeOK
<1>2. PICK answer \in {"ok", "error"}, gone \in BOOLEAN :
        Becomes(c, [g EXCEPT !.answer = answer,
                             !.pc = IF gone THEN "settling" ELSE "relaying",
                             !.hungup = gone])
  BY DEF Respond
<1> DEFINE pc == IF gone THEN "settling" ELSE "relaying"
           r == [g EXCEPT !.answer = answer, !.pc = pc, !.hungup = gone]
<1>3. pc \in {"settling", "relaying"}
  OBVIOUS
<1>4. /\ r \in Handlers /\ r.pc = pc /\ r.answer = answer
      /\ r.charges = g.charges /\ r.event = g.event /\ r.seen = g.seen
  <2> HIDE DEF pc, g
  <2> QED BY <1>1, <1>3 DEF Handlers, Pcs, OpenPcs, SlotPcs
<1>5. Becomes(c, r)
  BY <1>2
<1>6. ledger' = ledger /\ permits' = permits /\ UNCHANGED <<parent, child, status>>
  BY DEF Respond, server
<1> HIDE DEF r, pc
<1> QED
  BY <1>1, <1>3, <1>4, <1>5, <1>6, WithinSlot DEF Progress, Ended, SlotPcs

\* The effect of Refuse.
LEMMA RefuseEffect ==
  ASSUME TypeOK, Known, NEW c \in Connections, Refuse(c) PROVE Effect(c)
<1> DEFINE g == h[c]
           r == [g EXCEPT !.pc = "closing"]
<1>1. g \in Handlers /\ g.pc = "reading" /\ Progress(c) /\ ledger \in Ledgers
  BY DEF Refuse, At, Known, TypeOK
<1>2. r \in Handlers /\ r.pc = "closing" /\ Agree(r, g)
  BY <1>1, Advance DEF Pcs, OpenPcs
<1>3. Becomes(c, r)
  BY DEF Refuse
<1>4. Local(c) /\ h'[c] = r
  <2> HIDE DEF r
  <2> QED BY <1>1, <1>2, <1>3, Replace DEF Progress, Agree, Ended
<1>5. ledger' = Refused /\ permits' = permits /\ UNCHANGED <<parent, child, status>>
  BY DEF Refuse
<1>6. ~Slot(c) /\ ~Slot(c)' /\ Spot(c) /\ Spot(c)'
  BY <1>1, <1>2, <1>4 DEF Slot, Spot, OpenPcs, SlotPcs
<1> QED
  BY <1>1, <1>4, <1>5, <1>6, RefusedEffect
  DEF Effect, SlotEffect, SpotEffect, ChargeEffect, Owes

\* The effect of Admit.
LEMMA AdmitEffect ==
  ASSUME TypeOK, Known, NEW c \in Connections, Admit(c) PROVE Effect(c)
<1> DEFINE g == h[c]
           r == [g EXCEPT !.pc = "connecting", !.admitted = TRUE]
<1>1. g \in Handlers /\ g.pc = "reading" /\ Progress(c) /\ ledger \in Ledgers
  BY DEF Admit, At, Known, TypeOK
<1>2. r \in Handlers /\ r.pc = "connecting" /\ Agree(r, g)
  BY <1>1, LetIn DEF Pcs, OpenPcs, SlotPcs
<1>3. Becomes(c, r)
  BY DEF Admit
<1>4. Local(c) /\ h'[c] = r
  <2> HIDE DEF r
  <2> QED BY <1>1, <1>2, <1>3, Replace DEF Progress, Agree, Ended
<1>5. /\ ledger' = Begun /\ ~Blocked /\ permits' = permits
      /\ UNCHANGED <<parent, child, status>>
  BY DEF Admit
<1>6. ~Slot(c) /\ Slot(c)' /\ Spot(c) /\ Spot(c)'
  BY <1>1, <1>2, <1>4 DEF Slot, Spot, OpenPcs, SlotPcs
<1>7. ~Owes(c) /\ Owes(c)'
  BY <1>1, <1>2, <1>4, <1>6 DEF Owes, Progress, Agree, Ended
<1> HIDE DEF r
<1>8. SlotEffect(c) /\ ChargeEffect(c)
  BY <1>1, <1>5, <1>6, <1>7, BegunEffect DEF SlotEffect, ChargeEffect
<1> QED
  BY <1>1, <1>4, <1>5, <1>6, <1>8, BegunEffect DEF Effect, SpotEffect

\* The effect of End.
LEMMA EndEffect ==
  ASSUME TypeOK, Known, NEW c \in Connections, End(c), ledger.active > 0 PROVE Effect(c)
<1> DEFINE g == h[c]
           r == [g EXCEPT !.pc = "closing"]
<1>1. g \in Handlers /\ g.pc = "ending" /\ Progress(c) /\ Charged(c) /\ ledger \in Ledgers
  BY DEF End, At, Known, TypeOK
<1>2. r \in Handlers /\ r.pc = "closing" /\ Agree(r, g)
  BY <1>1, Advance DEF Pcs, OpenPcs
<1>3. Becomes(c, r)
  BY DEF End
<1>4. Local(c) /\ h'[c] = r
  <2> HIDE DEF r
  <2> QED BY <1>1, <1>2, <1>3, Replace DEF Progress, Charged, Agree, Ended
<1>5. ledger' = Done(g.whole) /\ permits' = permits /\ UNCHANGED <<parent, child, status>>
  BY DEF End
<1>6. Slot(c) /\ ~Slot(c)' /\ Spot(c) /\ Spot(c)'
  BY <1>1, <1>2, <1>4 DEF Slot, Spot, OpenPcs, SlotPcs
<1>7. g.whole \in BOOLEAN
  BY <1>1 DEF Handlers
<1> HIDE DEF r
<1>8. /\ ledger' \in Ledgers
      /\ ledger'.requests = ledger.requests /\ ledger'.active = ledger.active - 1
      /\ ledger'.tokens = ledger.tokens /\ ledger'.usd = ledger.usd
  BY <1>1, <1>5, <1>7, DoneEffect
<1> QED
  BY <1>4, <1>5, <1>6, <1>8 DEF Effect, SlotEffect, SpotEffect, ChargeEffect, Owes

\* The effect of Release.
LEMMA ReleaseEffect ==
  ASSUME TypeOK, Known, NEW c \in Connections, Release(c) PROVE Effect(c)
<1> DEFINE g == h[c]
           r == [g EXCEPT !.pc = "closed"]
<1>1. g \in Handlers /\ g.pc = "closing" /\ Progress(c) /\ Charged(c) /\ ledger \in Ledgers
  BY DEF Release, At, Known, TypeOK
<1>2. r \in Handlers /\ r.pc = "closed" /\ Agree(r, g)
  BY <1>1, Advance DEF Pcs
<1>3. Becomes(c, r)
  BY DEF Release
<1>4. Local(c) /\ h'[c] = r
  <2> HIDE DEF r
  <2> QED BY <1>1, <1>2, <1>3, Replace DEF Progress, Charged, Agree, Ended
<1>5. ledger' = ledger /\ permits' = permits + 1 /\ UNCHANGED <<parent, child, status>>
  BY DEF Release
<1>6. ~Slot(c) /\ ~Slot(c)' /\ Spot(c) /\ ~Spot(c)'
  BY <1>1, <1>2, <1>4 DEF Slot, Spot, OpenPcs, SlotPcs
<1> QED
  BY <1>1, <1>4, <1>5, <1>6 DEF Effect, SlotEffect, SpotEffect, ChargeEffect, Owes

\* A charge within a slot, by the provider's usage or by the estimate.
LEMMA ChargeWithinSlot ==
  ASSUME TypeOK, NEW c \in Connections, NEW r \in Handlers, Becomes(c, r),
         h[c].pc \in SlotPcs, h[c].charges = 0, r.charges = 1,
         r.pc \in SlotPcs \ {"connecting", "awaiting"},
         r.answer = "ok", r.seen => r.event = "plain", r.pc # "ending" => r.seen,
         NEW usage \in Charges \cup {None}, ledger' = Recorded(usage),
         permits' = permits, UNCHANGED <<parent, child, status>>
  PROVE  Effect(c)
<1>1. Local(c) /\ h'[c] = r
  BY Replace DEF Ended, SlotPcs
<1>2. Slot(c) /\ Slot(c)' /\ Spot(c) /\ Spot(c)' /\ Owes(c) /\ ~Owes(c)'
  BY <1>1 DEF Slot, Spot, Owes, OpenPcs
<1>3. ledger \in Ledgers
  BY DEF TypeOK
<1>4. ChargeEffect(c)
  BY <1>2, <1>3, RecordedEffect, PricedType DEF ChargeEffect
<1> QED
  BY <1>1, <1>2, <1>3, <1>4, RecordedEffect DEF Effect, SlotEffect, SpotEffect

\* The effect of Chunk.
LEMMA ChunkEffect ==
  ASSUME TypeOK, Known, NEW c \in Connections, Chunk(c) PROVE Effect(c)
<1> DEFINE g == h[c]
           n == g.total + 1
<1>1. g \in Handlers /\ g.pc = "relaying" /\ Progress(c) /\ ledger \in Ledgers
  BY DEF Chunk, At, Known, TypeOK
<1>2. n \in 0..MaxChunks
  BY <1>1, BrokerAssumption DEF Chunk, Handlers
<1>3. permits' = permits /\ UNCHANGED <<parent, child, status>>
  BY DEF Chunk
<1>4. "writing" \in Pcs
  BY DEF Pcs, OpenPcs, SlotPcs
<1>5. ASSUME NEW usage \in Charges \cup {None}, g.answer = "ok", g.event = "none",
             ledger' = Recorded(usage),
             Becomes(c, [g EXCEPT !.pc = "writing", !.total = @ + 1, !.event = "plain",
                                  !.seen = TRUE, !.charges = @ + 1, !.cost = Priced(usage)])
      PROVE  Effect(c)
  <2>1. g.charges = 0
    BY <1>1, <1>5 DEF Progress, Ended
  <2> DEFINE m == g.charges + 1
             k == Priced(usage)
             r == [g EXCEPT !.pc = "writing", !.total = n, !.event = "plain", !.seen = TRUE,
                            !.charges = m, !.cost = k]
  <2>2. m = 1 /\ k \in Costs
    BY <2>1, PricedType
  <2>3. Becomes(c, r)
    BY <1>5
  <2>4. /\ r \in Handlers /\ r.pc = "writing" /\ r.charges = m /\ r.answer = g.answer
        /\ r.event = "plain" /\ r.seen = TRUE
    <3> HIDE DEF n, m, k, g
    <3> QED BY <1>1, <1>2, <1>4, <2>2 DEF Handlers
  <2> HIDE DEF r, m
  <2> QED
    BY <1>1, <1>3, <1>5, <2>1, <2>2, <2>3, <2>4, ChargeWithinSlot DEF SlotPcs
<1>6. ASSUME g.answer = "ok", g.event = "none", ledger' = ledger,
             Becomes(c, [g EXCEPT !.pc = "writing", !.total = @ + 1, !.event = "overlong"])
      PROVE  Effect(c)
  <2> DEFINE r == [g EXCEPT !.pc = "writing", !.total = n, !.event = "overlong"]
  <2>1. Becomes(c, r)
    BY <1>6
  <2>2. /\ r \in Handlers /\ r.pc = "writing" /\ r.charges = g.charges /\ r.answer = g.answer
        /\ r.event = "overlong" /\ r.seen = g.seen
    <3> HIDE DEF n, g
    <3> QED BY <1>1, <1>2, <1>4 DEF Handlers
  <2> HIDE DEF r
  <2> QED
    BY <1>1, <1>3, <1>6, <2>1, <2>2, WithinSlot DEF Progress, Ended, SlotPcs
<1>7. ASSUME ledger' = ledger, Becomes(c, [g EXCEPT !.pc = "writing", !.total = @ + 1])
      PROVE  Effect(c)
  <2> DEFINE r == [g EXCEPT !.pc = "writing", !.total = n]
  <2>1. Becomes(c, r)
    BY <1>7
  <2>2. r \in Handlers /\ r.pc = "writing" /\ Agree(r, g)
    <3> HIDE DEF n, g
    <3> QED BY <1>1, <1>2, <1>4, Pass
  <2> HIDE DEF r
  <2> QED
    BY <1>1, <1>3, <1>7, <2>1, <2>2, WithinSlot DEF Progress, Agree, Ended, SlotPcs
<1> QED
  BY <1>5, <1>6, <1>7 DEF Chunk, Terminal

\* The effect of Settle.
LEMMA SettleEffect ==
  ASSUME TypeOK, Known, NEW c \in Connections, Settle(c) PROVE Effect(c)
<1> DEFINE g == h[c]
<1>1. g \in Handlers /\ g.pc = "settling" /\ Progress(c) /\ ledger \in Ledgers
  BY DEF Settle, At, Known, TypeOK
<1>2. permits' = permits /\ UNCHANGED <<parent, child, status>>
  BY DEF Settle
<1>3. "ending" \in Pcs
  BY DEF Pcs, OpenPcs, SlotPcs
<1>4. ASSUME g.answer = "ok", ~g.seen, ledger' = Recorded(None),
             Becomes(c, [g EXCEPT !.pc = "ending", !.charges = @ + 1, !.cost = Unmeasured])
      PROVE  Effect(c)
  <2>1. g.charges = 0
    BY <1>1, <1>4 DEF Progress, Ended
  <2> DEFINE m == g.charges + 1
             r == [g EXCEPT !.pc = "ending", !.charges = m, !.cost = Unmeasured]
  <2>2. m = 1
    BY <2>1
  <2>3. Becomes(c, r)
    BY <1>4
  <2>4. /\ r \in Handlers /\ r.pc = "ending" /\ r.charges = m
        /\ r.answer = g.answer /\ r.event = g.event /\ r.seen = g.seen
    <3> HIDE DEF m, g
    <3> QED BY <1>1, <1>3, <2>2, BrokerAssumption DEF Handlers
  <2> HIDE DEF r, m
  <2> QED
    BY <1>1, <1>2, <1>4, <2>1, <2>2, <2>3, <2>4, ChargeWithinSlot DEF Progress, SlotPcs
<1>5. ASSUME g.answer # "ok" \/ g.seen, ledger' = ledger, Becomes(c, [g EXCEPT !.pc = "ending"])
      PROVE  Effect(c)
  <2> DEFINE r == [g EXCEPT !.pc = "ending"]
  <2>1. r \in Handlers /\ r.pc = "ending" /\ Agree(r, g)
    BY <1>1, <1>3, Advance
  <2> HIDE DEF r
  <2>2. r.answer = "ok" => r.charges = 1
    BY <1>1, <1>5, <2>1 DEF Progress, Agree, Ended
  <2>3. Becomes(c, r)
    BY <1>5 DEF r
  <2> QED
    BY <1>1, <1>2, <1>5, <2>1, <2>2, <2>3, WithinSlot DEF Progress, Agree, Ended, SlotPcs
<1> QED
  BY <1>4, <1>5 DEF Settle

\* Every step of a handler has an effect.
LEMMA HandlerEffect ==
  ASSUME TypeOK, Known, NEW c \in Connections, Accept(c) \/ Handle(c),
         h[c].pc = "ending" => ledger.active > 0
  PROVE  Effect(c)
  BY AcceptEffect, UnservedEffect, RefuseEffect, AdmitEffect, ConnectEffect, NoAnswerEffect,
     RespondEffect, ChunkEffect, WriteEffect, HangUpEffect, StumbleEffect, BreakEffect,
     EndOfStreamEffect,
     SettleEffect, EndEffect, ReleaseEffect DEF Handle, End, At

-----------------------------------------------------------------------------
\* Counting.

\* How a finite set that one element enters or leaves counts afterwards.
LEMMA Counting ==
  ASSUME NEW S, IsFiniteSet(S), NEW c
  PROVE  /\ Cardinality(S) \in Nat
         /\ c \notin S => Cardinality(S \cup {c}) = Cardinality(S) + 1
         /\ c \in S => Cardinality(S \ {c}) = Cardinality(S) - 1
         /\ c \in S => Cardinality(S) > 0
<1>1. Cardinality(S) \in Nat
  BY FS_CardinalityType
<1>2. c \notin S => Cardinality(S \cup {c}) = Cardinality(S) + 1
  BY FS_AddElement
<1>3. c \in S => Cardinality(S \ {c}) = Cardinality(S) - 1
  BY FS_RemoveElement
<1>4. c \in S => Cardinality(S) > 0
  BY <1>1, FS_EmptySet
<1> QED
  BY <1>1, <1>2, <1>3, <1>4

\* The counted sets are finite.
LEMMA Finite == IsFiniteSet(Held) /\ IsFiniteSet(Owing) /\ IsFiniteSet(Open)
  BY BrokerAssumption, FS_Subset DEF Held, Owing, Open

\* Requests not yet charged hold slots.
LEMMA OwingIsHeld ==
  /\ Cardinality(Owing) \in Nat /\ Cardinality(Held) \in Nat /\ Cardinality(Open) \in Nat
  /\ Cardinality(Owing) <= Cardinality(Held)
<1>1. Owing \subseteq Held
  BY DEF Owing
<1> QED
  BY <1>1, Finite, FS_Subset, FS_CardinalityType

\* What the sets become when one handler changes.
LEMMA SetsChange ==
  ASSUME NEW c \in Connections, Local(c)
  PROVE  /\ Held' = IF Slot(c)' THEN Held \cup {c} ELSE Held \ {c}
         /\ Owing' = IF Owes(c)' THEN Owing \cup {c} ELSE Owing \ {c}
         /\ Open' = IF Spot(c)' THEN Open \cup {c} ELSE Open \ {c}
         /\ c \in Held <=> Slot(c)
         /\ c \in Owing <=> Owes(c)
         /\ c \in Open <=> Spot(c)
  BY DEF Local, Held, Owing, Open, Slot, Owes, Spot

\* So much for the number of them.
LEMMA NumbersChange ==
  ASSUME NEW c \in Connections, Local(c)
  PROVE  /\ (Slot(c)' <=> Slot(c)) => Cardinality(Held)' = Cardinality(Held)
         /\ ~Slot(c) /\ Slot(c)' => Cardinality(Held)' = Cardinality(Held) + 1
         /\ Slot(c) /\ ~Slot(c)' => Cardinality(Held)' = Cardinality(Held) - 1
         /\ (Spot(c)' <=> Spot(c)) => Cardinality(Open)' = Cardinality(Open)
         /\ ~Spot(c) /\ Spot(c)' => Cardinality(Open)' = Cardinality(Open) + 1
         /\ Spot(c) /\ ~Spot(c)' => Cardinality(Open)' = Cardinality(Open) - 1
         /\ (Owes(c)' <=> Owes(c)) => Cardinality(Owing)' = Cardinality(Owing)
         /\ ~Owes(c) /\ Owes(c)' => Cardinality(Owing)' = Cardinality(Owing) + 1
         /\ Owes(c) /\ ~Owes(c)' => Cardinality(Owing)' = Cardinality(Owing) - 1
<1>1. /\ Slot(c)' <=> Slot(c) => Held' = Held
      /\ Spot(c)' <=> Spot(c) => Open' = Open
      /\ Owes(c)' <=> Owes(c) => Owing' = Owing
  BY SetsChange
<1> QED
  BY <1>1, SetsChange, Finite, Counting

\* What is left after a charge, and what fits into the slots.
LEMMA Times ==
  ASSUME NEW d \in Nat, NEW k \in Nat, NEW n \in Nat
  PROVE  /\ k <= n => k * d <= n * d
         /\ (k - 1) * d = k * d - d
  OBVIOUS

-----------------------------------------------------------------------------
\* The inductive invariant of the ledger and its handlers.

IInv == BrokerInv /\ StartedIsChargedOnce

\* What a handler relies on is part of the invariant.
LEMMA IInvKnown == ASSUME IInv PROVE Known
  BY DEF IInv, BrokerInv, StartedIsChargedOnce, Known, Charged

\* A started response is charged once.
LEMMA KnownCharged == ASSUME Known PROVE StartedIsChargedOnce
  BY DEF Known, StartedIsChargedOnce, Charged, Progress

\* The invariant holds initially.
LEMMA InitIInv == ASSUME Init PROVE IInv
<1>1. TypeOK
  <2>1. NoCost \in Costs
    BY BrokerAssumption DEF NoCost, Costs
  <2>2. Idle \in Handlers
    BY <2>1, BrokerAssumption DEF Idle, Handlers, Pcs, OpenPcs, SlotPcs
  <2>3. ledger \in Ledgers
    BY DEF Init, Ledgers
  <2>4. lines \in Seq(Line) /\ stage \in Stages
    BY DEF Init, Stages
  <2>5. permits \in 0..MaxConnections /\ h \in [Connections -> Handlers]
    BY <2>2, BrokerAssumption DEF Init
  <2> QED
    BY <2>3, <2>4, <2>5 DEF Init, TypeOK
<1>2. Known
  BY DEF Init, Known, Progress, Charged, Idle, Ended
<1>3. Held = {} /\ Owing = {} /\ Open = {}
  BY DEF Init, Held, Owing, Open, Idle, SlotPcs, OpenPcs
<1>4. Cardinality(Held) = 0 /\ Cardinality(Owing) = 0 /\ Cardinality(Open) = 0
  BY <1>3, FS_EmptySet
<1>5. SlotsCounted
  BY <1>4, BrokerAssumption DEF SlotsCounted, Init
<1>6. RoomLeft
  <2>1. MaxConcurrent * DearestTokens \in Nat /\ MaxConcurrent * DearestSpend \in Nat
    BY BrokerAssumption
  <2>2. 0 * DearestTokens = 0 /\ 0 * DearestSpend = 0
    BY BrokerAssumption
  <2> QED
    BY <1>4, <2>1, <2>2, BrokerAssumption DEF RoomLeft, Init
<1> QED
  BY <1>1, <1>2, <1>5, <1>6, KnownCharged DEF IInv, BrokerInv, Known

\* The counters follow the handlers.
LEMMA SlotsKept ==
  ASSUME TypeOK, SlotsCounted, NEW c \in Connections, Effect(c) PROVE SlotsCounted'
<1>1. /\ ledger.active \in Nat /\ ledger.requests \in Nat /\ permits \in Nat
      /\ {MaxConcurrent, MaxRequests, MaxConnections} \subseteq Nat
  BY BrokerAssumption DEF TypeOK, Ledgers
<1>2. ledger'.active = Cardinality(Held)' /\ ledger'.active <= MaxConcurrent
  BY <1>1, OwingIsHeld, NumbersChange DEF Effect, SlotEffect, SlotsCounted, Blocked
<1>3. ledger'.requests <= MaxRequests
  BY <1>1 DEF Effect, SlotEffect, SlotsCounted, Blocked
<1>4. permits' + Cardinality(Open)' = MaxConnections
  BY <1>1, OwingIsHeld, NumbersChange DEF Effect, SpotEffect, SlotsCounted
<1> QED
  BY <1>2, <1>3, <1>4 DEF SlotsCounted

\* An effect keeps the types.
LEMMA TypeKept ==
  ASSUME TypeOK, SlotsCounted, NEW c \in Connections, Effect(c) PROVE TypeOK'
<1>1. permits' \in 0..MaxConnections
  <2>1. SlotsCounted'
    BY SlotsKept
  <2>2. Cardinality(Open) \in Nat /\ Cardinality(Open)' \in Nat
    <3>1. IsFiniteSet(Open) /\ IsFiniteSet(Open \cup {c}) /\ IsFiniteSet(Open \ {c})
      BY Finite, FS_AddElement, FS_RemoveElement
    <3>2. Open' = Open \cup {c} \/ Open' = Open \ {c}
      BY SetsChange DEF Effect
    <3> QED
      BY <3>1, <3>2, FS_CardinalityType
  <2>3. permits \in Int /\ permits >= 0
    BY BrokerAssumption DEF TypeOK
  <2>4. permits' \in Int /\ permits' >= 0
    BY <2>3 DEF Effect, SpotEffect
  <2> QED
    BY <2>1, <2>2, <2>4, BrokerAssumption DEF SlotsCounted
<1> QED
  BY <1>1 DEF TypeOK, Effect, Local, parent

\* An effect leaves the room that the ceilings need.
LEMMA RoomKept ==
  ASSUME TypeOK, SlotsCounted, RoomLeft, NEW c \in Connections, Effect(c) PROVE RoomLeft'
<1> DEFINE k == Cardinality(Owing)
           n == MaxConcurrent
<1>1. /\ k \in Nat /\ k <= ledger.active /\ n \in Nat /\ MaxTokens \in Nat /\ MaxSpend \in Nat
      /\ DearestTokens \in Nat /\ DearestSpend \in Nat
      /\ ledger.tokens \in Nat /\ ledger.usd \in Nat /\ ledger.active \in Nat
  BY OwingIsHeld, BrokerAssumption DEF SlotsCounted, TypeOK, Ledgers
<1>2. CASE /\ Owes(c)' => Owes(c)
           /\ ledger'.tokens = ledger.tokens /\ ledger'.usd = ledger.usd
  <2>1. k' = k \/ k' = k - 1
    BY <1>2, NumbersChange DEF Effect
  <2>2. k' * DearestTokens <= k * DearestTokens /\ k' * DearestSpend <= k * DearestSpend
    BY <1>1, <2>1, Times
  <2>3. /\ k' * DearestTokens \in Int /\ k' * DearestSpend \in Int
        /\ k * DearestTokens \in Int /\ k * DearestSpend \in Int
        /\ n * DearestTokens \in Int /\ n * DearestSpend \in Int
    BY <1>1, <2>1
  <2> QED
    BY <1>1, <1>2, <2>2, <2>3 DEF RoomLeft
<1>3. CASE /\ ~Owes(c) /\ Owes(c)' /\ ~Slot(c) /\ ~Blocked
           /\ ledger'.tokens = ledger.tokens /\ ledger'.usd = ledger.usd
  <2>1. k' = k + 1
    BY <1>3, NumbersChange DEF Effect
  <2>2. k + 1 <= n /\ ledger.tokens < MaxTokens /\ ledger.usd < MaxSpend
    BY <1>1, <1>3 DEF Blocked
  <2>3. k' * DearestTokens <= n * DearestTokens /\ k' * DearestSpend <= n * DearestSpend
    BY <1>1, <2>1, <2>2, Times
  <2>4. /\ k' * DearestTokens \in Int /\ k' * DearestSpend \in Int
        /\ n * DearestTokens \in Int /\ n * DearestSpend \in Int
    BY <1>1, <2>1
  <2> QED
    BY <1>1, <1>3, <2>2, <2>3, <2>4 DEF RoomLeft
<1>4. CASE /\ Owes(c) /\ ~Owes(c)'
           /\ \E cost \in Costs : /\ ledger'.tokens = ledger.tokens + cost.tokens
                                  /\ ledger'.usd = ledger.usd + cost.usd
  <2>1. k' = k - 1
    BY <1>4, NumbersChange DEF Effect
  <2>2. /\ k' * DearestTokens = k * DearestTokens - DearestTokens
        /\ k' * DearestSpend = k * DearestSpend - DearestSpend
    BY <1>1, <2>1, Times
  <2>3. PICK cost \in Costs : /\ ledger'.tokens = ledger.tokens + cost.tokens
                              /\ ledger'.usd = ledger.usd + cost.usd
    BY <1>4
  <2>4. /\ cost.tokens \in Nat /\ cost.tokens <= DearestTokens
        /\ cost.usd \in Nat /\ cost.usd <= DearestSpend
    BY <1>1 DEF Costs
  <2>5. /\ k * DearestTokens \in Int /\ k * DearestSpend \in Int
        /\ n * DearestTokens \in Int /\ n * DearestSpend \in Int
    BY <1>1
  <2> QED
    BY <1>1, <2>2, <2>3, <2>4, <2>5 DEF RoomLeft
<1> QED
  BY <1>2, <1>3, <1>4 DEF Effect, ChargeEffect

\* So a step of a handler keeps the invariant.
LEMMA HandlerKeeps ==
  ASSUME IInv, NEW c \in Connections, Accept(c) \/ Handle(c) PROVE Effect(c) /\ IInv'
<1>1. TypeOK /\ SlotsCounted /\ RoomLeft /\ Known
  BY IInvKnown DEF IInv, BrokerInv
<1>2. h[c].pc = "ending" => ledger.active > 0
  <2>1. h[c].pc = "ending" => c \in Held
    BY DEF Held, SlotPcs
  <2> QED
    BY <1>1, <2>1, Finite, Counting DEF SlotsCounted
<1>3. Effect(c)
  BY <1>1, <1>2, HandlerEffect
<1>4. Known'
  BY <1>1, <1>3 DEF Known, Effect, Local, Progress, Charged
<1>5. TypeOK' /\ SlotsCounted' /\ RoomLeft'
  BY <1>1, <1>3, TypeKept, SlotsKept, RoomKept
<1>6. StartedIsChargedOnce'
  BY <1>4 DEF Known, StartedIsChargedOnce, Charged, Progress
<1> QED
  BY <1>3, <1>4, <1>5, <1>6 DEF IInv, BrokerInv, Known

-----------------------------------------------------------------------------
\* The steps of the child and of the parent leave the handlers alone.

Others == Child \/ Die \/ Parent \/ EndPass

\* Parent and child leave handlers and ledger alone.
LEMMA OthersLeaveHandlers == ASSUME Others PROVE UNCHANGED <<h, ledger, permits>>
  BY DEF Others, Child, Serve, StopServing, Report, Exit, Die, Leaves, Parent, Bind, Spawn,
     Configure, Started, StartFails, AwaitSummary, Reap, Kill, Leave, EndPass, parent, server

\* What a line the parent reads is, and what reading it leaves.
LEMMA ReadLine ==
  ASSUME TypeOK, lines # <<>>
  PROVE  /\ Tail(lines) \in Seq(Line)
         /\ Head(lines).kind = "summary" => Head(lines).ledger \in Ledgers
<1>1. lines \in Seq(Line)
  BY DEF TypeOK
<1>2. Head(lines) \in Line /\ Tail(lines) \in Seq(Line)
  BY <1>1
<1> QED
  BY <1>2 DEF Line

\* What the child says is a line.
LEMMA SayLine ==
  ASSUME TypeOK, NEW line \in Line, Says(line) PROVE lines' \in Seq(Line)
  BY DEF TypeOK, Says

\* Their steps keep the types.
LEMMA OthersKeepType == ASSUME TypeOK, Others PROVE TypeOK'
<1>1. UNCHANGED <<h, ledger, permits>>
  BY OthersLeaveHandlers
<1>2. CASE Serve
  <2>1. [kind |-> "port", ledger |-> None] \in Line
    BY DEF Line
  <2> QED BY <1>1, <1>2, <2>1, SayLine DEF Serve, TypeOK
<1>3. CASE StopServing
  BY <1>1, <1>3 DEF StopServing, TypeOK, parent
<1>4. CASE Report
  <2>1. [kind |-> "summary", ledger |-> ledger] \in Line
    BY DEF Line, TypeOK
  <2> QED BY <1>1, <1>4, <2>1, SayLine DEF Report, TypeOK
<1>5. CASE Exit \/ Die
  <2>1. [kind |-> "eof", ledger |-> None] \in Line
    BY DEF Line
  <2> QED BY <1>1, <1>5, <2>1, SayLine DEF Exit, Die, Leaves, TypeOK
<1>6. CASE Bind \/ Spawn \/ Configure \/ EndPass
  BY <1>1, <1>6 DEF Bind, Spawn, Configure, EndPass, TypeOK, Stages, server
<1>7. CASE Started \/ StartFails
  BY <1>1, <1>7, ReadLine DEF Started, StartFails, TypeOK, Stages, server
<1>8. CASE AwaitSummary
  BY <1>1, <1>8, ReadLine DEF AwaitSummary, TypeOK, Stages, server
<1>9. CASE Reap \/ Kill \/ Leave
  BY <1>1, <1>9 DEF Reap, Kill, Leave, TypeOK, Stages, server
<1> QED
  BY <1>2, <1>3, <1>4, <1>5, <1>6, <1>7, <1>8, <1>9 DEF Others, Child, Parent

\* The counters do not move when the handlers, the ledger and the permits stay.
LEMMA StillKept == ASSUME IInv, TypeOK', UNCHANGED <<h, ledger, permits>> PROVE IInv'
<1>1. Held' = Held /\ Owing' = Owing /\ Open' = Open
  BY DEF Held, Owing, Open
<1> QED
  BY <1>1 DEF IInv, BrokerInv, SlotsCounted, RoomLeft, Progress, StartedIsChargedOnce

\* Every step keeps the invariant.
LEMMA NextKeeps == ASSUME IInv, [Next]_vars PROVE IInv'
<1>1. CASE \E c \in Connections : Accept(c) \/ Handle(c)
  BY <1>1, HandlerKeeps
<1>2. CASE Others
  BY <1>2, OthersKeepType, OthersLeaveHandlers, StillKept DEF IInv, BrokerInv
<1>3. CASE UNCHANGED vars
  <2>1. TypeOK'
    BY <1>3 DEF vars, TypeOK, IInv, BrokerInv
  <2> QED BY <1>3, <2>1, StillKept DEF vars
<1> QED
  BY <1>1, <1>2, <1>3 DEF Next, Others

\* The invariant holds in every reachable state.
LEMMA Inductive == Spec => []IInv
<1>1. Init => IInv
  BY InitIInv
<1>2. IInv /\ [Next]_vars => IInv'
  BY NextKeeps
<1> QED
  BY <1>1, <1>2, PTL DEF Spec

\* The counters of the ledger and of the server are what their threads make of
\* them, and every handler is where its record says, in every reachable state.
THEOREM BrokerInvariant == Spec => []BrokerInv
<1>1. IInv => BrokerInv
  BY DEF IInv
<1> QED
  BY <1>1, Inductive, PTL

\* Every response that started is charged once (Ledger.record_usage, _stream).
THEOREM StartedCharged == Spec => []StartedIsChargedOnce
<1>1. IInv => StartedIsChargedOnce
  BY DEF IInv
<1> QED
  BY <1>1, Inductive, PTL

\* A pass costs less than its ceiling and one set of requests at their dearest.
THEOREM Overshoot == Spec => []OvershootBounded
<1>1. ASSUME IInv PROVE OvershootBounded
  <2> DEFINE k == Cardinality(Owing)
  <2>1. /\ k \in Nat /\ ledger.tokens \in Nat /\ ledger.usd \in Nat
        /\ {DearestTokens, DearestSpend, MaxConcurrent, MaxTokens, MaxSpend} \subseteq Nat
    BY <1>1, OwingIsHeld, BrokerAssumption DEF IInv, BrokerInv, TypeOK, Ledgers
  <2>2. k * DearestTokens \in Nat /\ k * DearestSpend \in Nat
    BY <2>1
  <2>3. MaxConcurrent * DearestTokens \in Nat /\ MaxConcurrent * DearestSpend \in Nat
    BY <2>1
  <2> QED
    BY <1>1, <2>1, <2>2, <2>3 DEF IInv, BrokerInv, RoomLeft, OvershootBounded
<1> QED
  BY <1>1, Inductive, PTL

-----------------------------------------------------------------------------
\* The ledger implements the metered budgets.

\* A handler that changes the requests not yet charged does one of three things.
LEMMA Metering ==
  ASSUME IInv, NEW c \in Connections, Effect(c)
  PROVE  LET k == Cardinality(Owing)
         IN  \/ k' = k /\ ledger'.tokens = ledger.tokens /\ ledger'.usd = ledger.usd
             \/ /\ k > 0 /\ k' = k - 1
                /\ ledger'.tokens = ledger.tokens /\ ledger'.usd = ledger.usd
             \/ /\ k < MaxConcurrent /\ k' = k + 1
                /\ ledger.tokens < MaxTokens /\ ledger.usd < MaxSpend
                /\ ledger'.tokens = ledger.tokens /\ ledger'.usd = ledger.usd
             \/ /\ k > 0 /\ k' = k - 1
                /\ \E cost \in Costs : /\ ledger'.tokens = ledger.tokens + cost.tokens
                                       /\ ledger'.usd = ledger.usd + cost.usd
<1> DEFINE k == Cardinality(Owing)
<1>1. /\ k \in Nat /\ k <= ledger.active /\ ledger.active \in Nat /\ ledger.tokens \in Nat
      /\ ledger.usd \in Nat /\ {MaxConcurrent, MaxTokens, MaxSpend} \subseteq Nat
  BY OwingIsHeld, BrokerAssumption DEF IInv, BrokerInv, SlotsCounted, TypeOK, Ledgers
<1>2. Owes(c) => k > 0
  <2>1. Owes(c) => c \in Owing
    BY SetsChange DEF Effect
  <2> QED BY <2>1, Finite, Counting
<1>3. /\ (Owes(c)' <=> Owes(c)) => k' = k
      /\ ~Owes(c) /\ Owes(c)' => k' = k + 1
      /\ Owes(c) /\ ~Owes(c)' => k' = k - 1
  BY NumbersChange DEF Effect
<1>4. ~Blocked => k < MaxConcurrent /\ ledger.tokens < MaxTokens /\ ledger.usd < MaxSpend
  BY <1>1 DEF Blocked
<1> HIDE DEF k
<1>5. ChargeEffect(c)
  BY DEF Effect
<1>6. \/ k' = k /\ ledger'.tokens = ledger.tokens /\ ledger'.usd = ledger.usd
      \/ k > 0 /\ k' = k - 1 /\ ledger'.tokens = ledger.tokens /\ ledger'.usd = ledger.usd
      \/ /\ k < MaxConcurrent /\ k' = k + 1
         /\ ledger.tokens < MaxTokens /\ ledger.usd < MaxSpend
         /\ ledger'.tokens = ledger.tokens /\ ledger'.usd = ledger.usd
      \/ /\ k > 0 /\ k' = k - 1
         /\ \E cost \in Costs : /\ ledger'.tokens = ledger.tokens + cost.tokens
                                /\ ledger'.usd = ledger.usd + cost.usd
  BY <1>2, <1>3, <1>4, <1>5 DEF ChargeEffect
<1> QED
  BY <1>6 DEF k

\* Every step is one of both budgets, or a stutter.
LEMMA MeteredStep ==
  ASSUME IInv, [Next]_vars
  PROVE  [TokenBudget!Next]_(TokenBudget!vars) /\ [SpendBudget!Next]_(SpendBudget!vars)
<1>1. ASSUME NEW c \in Connections, Accept(c) \/ Handle(c)
      PROVE  [TokenBudget!Next]_(TokenBudget!vars) /\ [SpendBudget!Next]_(SpendBudget!vars)
  <2>1. Effect(c)
    BY <1>1, HandlerKeeps
  <2>2. \A cost \in Costs : cost.tokens \in 0..DearestTokens /\ cost.usd \in 0..DearestSpend
    BY DEF Costs
  <2> QED
    BY <2>1, <2>2, Metering DEF TokenBudget!Next, TokenBudget!LetIn, TokenBudget!Charge,
       TokenBudget!GiveUp, TokenBudget!vars, SpendBudget!Next, SpendBudget!LetIn,
       SpendBudget!Charge, SpendBudget!GiveUp, SpendBudget!vars
<1>2. ASSUME UNCHANGED <<h, ledger>>
      PROVE  [TokenBudget!Next]_(TokenBudget!vars) /\ [SpendBudget!Next]_(SpendBudget!vars)
  <2>1. Owing' = Owing
    BY <1>2 DEF Owing, Held
  <2> QED
    BY <1>2, <2>1 DEF TokenBudget!vars, SpendBudget!vars
<1> QED
  BY <1>1, <1>2, OthersLeaveHandlers DEF Next, Others, vars

\* The threads and their ledger are two metered budgets, one of tokens and one
\* of spend: a request is let in below the ceiling, into a free slot, and then
\* charged at most once.
THEOREM MeteredRefined == Spec => Metered
<1>1. Init => TokenBudget!Init /\ SpendBudget!Init
  <2>1. ASSUME Init PROVE Owing = {}
    BY <2>1 DEF Init, Held, Owing, Idle, SlotPcs
  <2>2. ASSUME Init PROVE Cardinality(Owing) = 0
    BY <2>1, <2>2, FS_EmptySet
  <2>3. ASSUME Init PROVE ledger.tokens = 0 /\ ledger.usd = 0
    BY <2>3 DEF Init
  <2> QED
    BY <2>2, <2>3 DEF TokenBudget!Init, SpendBudget!Init
<1>2. IInv /\ [Next]_vars
        => [TokenBudget!Next]_(TokenBudget!vars) /\ [SpendBudget!Next]_(SpendBudget!vars)
  BY MeteredStep
<1> QED
  BY <1>1, <1>2, Inductive, PTL DEF Spec, Metered, TokenBudget!Spec, SpendBudget!Spec

-----------------------------------------------------------------------------
\* The port and the end of the pass.

\* How far the parent, the port and the child can be apart.
ParentInv ==
    /\ stage \in Stages
    /\ child \in {"none", "starting", "serving", "stopping", "reported", "dying", "gone"}
    /\ stage \in {"new", "bound"} => child = "none"
    /\ held <=> stage \notin {"new", "closed"}
    /\ stage = "closed" => child \in {"none", "gone", "dying"}
    /\ stage = "killing" => child \in {"gone", "dying"}

\* The handlers have no part in it.
LEMMA ParentSteps == ASSUME ParentInv, Others PROVE ParentInv'
<1>1. CASE Child \/ Die
  BY <1>1 DEF Child, Serve, StopServing, Report, Exit, Die, Leaves, PipeClosed, ParentInv, Stages,
     parent
<1>2. CASE Parent \/ EndPass
  BY <1>2 DEF Parent, Bind, Spawn, Configure, Started, StartFails, AwaitSummary, Reap, Kill,
     Leave, EndPass, ParentInv, Stages, server
<1> QED
  BY <1>1, <1>2 DEF Others

\* The stages of parent, port and child fit in every reachable state.
LEMMA ParentInductive == Spec => [](IInv /\ ParentInv)
<1>1. Init => ParentInv
  BY DEF Init, ParentInv, Stages
<1>2. ASSUME IInv, ParentInv, [Next]_vars PROVE ParentInv'
  <2>1. CASE \E c \in Connections : Accept(c) \/ Handle(c)
    <3>1. UNCHANGED <<parent, child>>
      BY <1>2, <2>1, HandlerKeeps DEF Effect
    <3> QED BY <1>2, <3>1 DEF ParentInv, parent
  <2>2. CASE UNCHANGED vars
    BY <1>2, <2>2 DEF ParentInv, vars
  <2> QED
    BY <1>2, <2>1, <2>2, ParentSteps DEF Next, Others
<1> QED
  BY <1>1, <1>2, Inductive, PTL DEF Spec

\* The parent holds the port from before the child exists until nothing of the
\* child can serve (BrokerProcess.start, close).
THEOREM PortHeld == Spec => []PortOutlivesBroker
<1>1. ParentInv => PortOutlivesBroker
  BY DEF ParentInv, PortOutlivesBroker
<1> QED
  BY <1>1, ParentInductive, PTL

\* Nothing a handler does comes after the pass is closed (BrokerProcess.close).
THEOREM ClosedIsFinal == Spec => NothingAfterClose
<1>1. ASSUME IInv, ParentInv, [Next]_vars
      PROVE  [stage = "closed" => UNCHANGED <<h, ledger>>]_vars
  <2>1. ASSUME stage = "closed", NEW c \in Connections, Accept(c) \/ Handle(c) PROVE FALSE
    <3>1. ~Alive
      BY <1>1, <2>1 DEF ParentInv, Alive
    <3> QED
      BY <2>1, <3>1 DEF Accept, Handle, Unserved, Refuse, Admit, Connect, NoAnswer, Respond, Chunk,
         Write, HangUp, Stumble, Break, EndOfStream, Settle, End, Release, At
  <2> QED
    BY <1>1, <2>1, OthersLeaveHandlers DEF Next, Others, vars
<1> QED
  BY <1>1, ParentInductive, PTL DEF Spec, NothingAfterClose

-----------------------------------------------------------------------------
\* Failures are recorded.

\* The request of c was let in and is not served, and only the ledger can say so.
Failing(c) ==
    /\ h[c].admitted /\ h[c].pc \in Ended \cup {"settling", "ending"}
    /\ ~h[c].whole /\ ~h[c].hungup /\ h[c].answer # "error" /\ ~h[c].raised

\* Nothing is let in before it is read, and nothing relayed that was not answered.
Orderly(c) ==
    /\ h[c].pc \in {"idle", "reading"} => ~h[c].admitted
    /\ h[c].pc \in {"relaying", "writing"} => h[c].answer # "none"

Failures == {c \in Connections : Failing(c)}

FailureInv ==
    /\ \A c \in Connections : Orderly(c)
    /\ ledger.refusals >= Cardinality(Failures)

\* What becomes of a request that c is about: it begins to fail only as it is recorded.
FailEffect(c) ==
    /\ Orderly(c)' /\ \A d \in Connections \ {c} : h'[d] = h[d]
    /\ \/ (Failing(c)' => Failing(c)) /\ ledger'.refusals = ledger.refusals
       \/ ledger'.refusals = ledger.refusals + 1

\* The operations of the ledger that are no refusal leave the count of refusals.
LEMMA RefusalsOf ==
  ASSUME ledger \in Ledgers
  PROVE  /\ Refused.refusals = ledger.refusals + 1 /\ Begun.refusals = ledger.refusals
         /\ \A b \in BOOLEAN : Done(b).refusals = ledger.refusals
         /\ \A u \in Charges \cup {None} : Recorded(u).refusals = ledger.refusals
<1> USE DEF Ledgers
<1>1. Refused.refusals = ledger.refusals + 1
  <2> DEFINE n == ledger.refusals + 1
  <2>1. Refused = [ledger EXCEPT !.refusals = n]
    BY DEF Refused
  <2> HIDE DEF n
  <2>2. Refused.refusals = n
    BY <2>1
  <2> QED BY <2>2 DEF n
<1>2. Begun.refusals = ledger.refusals
  BY DEF Begun
<1>3. ASSUME NEW b \in BOOLEAN PROVE Done(b).refusals = ledger.refusals
  BY DEF Done
<1>4. ASSUME NEW u \in Charges \cup {None} PROVE Recorded(u).refusals = ledger.refusals
  BY DEF Recorded
<1> QED
  BY <1>1, <1>2, <1>3, <1>4

\* The fields of the new record r of c, put in the place of h'[c].
LEMMA Shown ==
  ASSUME TypeOK, NEW c \in Connections, NEW r, Becomes(c, r)
  PROVE  h'[c] = r /\ \A d \in Connections \ {c} : h'[d] = h[d]
  BY DEF TypeOK, Becomes

\* A connection is accepted, ends unserved, is refused or let in.
LEMMA StartFailEffect ==
  ASSUME TypeOK, NEW c \in Connections, Orderly(c),
         Accept(c) \/ Unserved(c) \/ Refuse(c) \/ Admit(c)
  PROVE  FailEffect(c)
<1> DEFINE g == h[c]
<1>1. g \in Handlers /\ ledger \in Ledgers
  BY DEF TypeOK
<1>2. g.pc \in {"idle", "reading"} /\ ~g.admitted
  BY DEF Accept, Unserved, Refuse, Admit, At, Orderly
<1>3. CASE Accept(c) \/ Unserved(c) \/ Refuse(c)
  <2>1. PICK pc \in {"reading", "closed", "closing"} : Becomes(c, [g EXCEPT !.pc = pc])
    BY <1>3 DEF Accept, Unserved, Refuse
  <2> DEFINE r == [g EXCEPT !.pc = pc]
  <2>2. h'[c] = r /\ \A d \in Connections \ {c} : h'[d] = h[d]
    BY <2>1, Shown
  <2> HIDE DEF g
  <2>3. ~r.admitted /\ r.pc \notin {"relaying", "writing"}
    BY <1>1, <1>2, <2>1 DEF Handlers
  <2> HIDE DEF r
  <2>4. ledger' = ledger \/ ledger' = Refused
    BY <1>3 DEF Accept, Unserved, Refuse, server
  <2> QED BY <1>1, <2>2, <2>3, <2>4, RefusalsOf DEF FailEffect, Orderly, Failing
<1>4. CASE Admit(c)
  <2> DEFINE r == [g EXCEPT !.pc = "connecting", !.admitted = TRUE]
  <2>1. Becomes(c, r) /\ ledger' = Begun
    BY <1>4 DEF Admit
  <2>2. h'[c] = r /\ \A d \in Connections \ {c} : h'[d] = h[d]
    BY <2>1, Shown
  <2> HIDE DEF g
  <2>3. r.pc = "connecting"
    BY <1>1 DEF Handlers
  <2> HIDE DEF r
  <2> QED BY <1>1, <2>1, <2>2, <2>3, RefusalsOf DEF FailEffect, Orderly, Failing, Ended
<1> QED BY <1>3, <1>4

\* The provider is asked, and its answer passed on.
LEMMA RelayFailEffect ==
  ASSUME TypeOK, NEW c \in Connections, Orderly(c),
         \/ Connect(c) \/ NoAnswer(c) \/ Respond(c) \/ Chunk(c) \/ Write(c)
         \/ HangUp(c) \/ Stumble(c) \/ Break(c) \/ EndOfStream(c)
  PROVE  FailEffect(c)
<1> DEFINE g == h[c]
<1>1. g \in Handlers /\ ledger \in Ledgers
  BY DEF TypeOK
<1>2. g.pc \in {"connecting", "awaiting", "relaying", "writing"}
  BY DEF Connect, NoAnswer, Respond, Chunk, Write, HangUp, Stumble, Break, EndOfStream, At
<1>3. g.pc \in {"relaying", "writing"} => g.answer # "none"
  BY DEF Orderly
\* The new record r, and what the ledger does.
<1>4. ASSUME NEW r, Becomes(c, r),
             r.pc \notin {"idle", "reading"},
             r.pc \in {"relaying", "writing"} => r.answer # "none",
             \/ ledger'.refusals = ledger.refusals + 1
             \/ /\ ledger'.refusals = ledger.refusals
                /\ \/ r.pc \notin Ended \cup {"settling", "ending"}
                   \/ r.whole \/ r.hungup \/ r.answer = "error" \/ r.raised
      PROVE  FailEffect(c)
  <2>1. h'[c] = r /\ \A d \in Connections \ {c} : h'[d] = h[d]
    BY <1>4, Shown
  <2> QED BY <1>4, <2>1 DEF FailEffect, Orderly, Failing
<1>5. CASE Connect(c)
  <2> DEFINE r == [g EXCEPT !.pc = "awaiting"]
  <2>1. Becomes(c, r) /\ ledger' = ledger
    BY <1>5 DEF Connect, server
  <2>2. r.pc = "awaiting"
    BY <1>1 DEF Handlers
  <2> HIDE DEF r
  <2> QED BY <1>4, <2>1, <2>2 DEF Ended
<1>6. CASE NoAnswer(c) \/ Break(c)
  <2>1. PICK pc \in {"ending", "settling"} : Becomes(c, [g EXCEPT !.pc = pc])
    BY <1>6 DEF NoAnswer, Break
  <2> DEFINE r == [g EXCEPT !.pc = pc]
  <2>2. r.pc = pc
    BY <1>1 DEF Handlers
  <2>3. Becomes(c, r)
    BY <2>1
  <2> HIDE DEF r
  <2>4. ledger'.refusals = ledger.refusals + 1
    BY <1>1, <1>6, RefusalsOf DEF NoAnswer, Break
  <2> QED BY <1>4, <2>1, <2>2, <2>3, <2>4
<1>7. CASE Respond(c)
  <2>1. PICK answer \in {"ok", "error"}, gone \in BOOLEAN :
          Becomes(c, [g EXCEPT !.answer = answer, !.pc = IF gone THEN "settling" ELSE "relaying",
                               !.hungup = gone])
    BY <1>7 DEF Respond
  <2> DEFINE pc == IF gone THEN "settling" ELSE "relaying"
             r == [g EXCEPT !.answer = answer, !.pc = pc, !.hungup = gone]
  <2>2. Becomes(c, r)
    BY <2>1
  <2>3. r.answer = answer /\ r.pc = pc /\ (r.hungup <=> gone)
    <3> HIDE DEF pc
    <3> QED BY <1>1 DEF Handlers
  <2>4. ledger' = ledger
    BY <1>7 DEF Respond, server
  <2> HIDE DEF r
  <2> QED BY <1>4, <2>1, <2>2, <2>3, <2>4 DEF Ended
<1>8. CASE Chunk(c)
  <2>1. ASSUME NEW r, Becomes(c, r), r.pc = "writing", r.answer = g.answer,
               ledger'.refusals = ledger.refusals
        PROVE  FailEffect(c)
    BY <1>2, <1>3, <1>4, <1>8, <2>1 DEF Ended, Chunk, At
  <2>2. ASSUME NEW n, NEW usage \in Charges \cup {None}, NEW k, NEW m, ledger' = Recorded(usage),
               Becomes(c, [g EXCEPT !.pc = "writing", !.total = n, !.event = "plain",
                                    !.seen = TRUE, !.charges = m, !.cost = k])
        PROVE  FailEffect(c)
    <3> DEFINE r == [g EXCEPT !.pc = "writing", !.total = n, !.event = "plain",
                              !.seen = TRUE, !.charges = m, !.cost = k]
    <3>1. r.pc = "writing" /\ r.answer = g.answer
      <4> HIDE DEF g
      <4> QED BY <1>1 DEF Handlers
    <3>2. ledger'.refusals = ledger.refusals /\ Becomes(c, r)
      BY <1>1, <2>2, RefusalsOf
    <3> HIDE DEF r, g
    <3> QED BY <2>1, <3>1, <3>2
  <2>3. ASSUME NEW n, NEW event, ledger' = ledger,
               Becomes(c, [g EXCEPT !.pc = "writing", !.total = n, !.event = event])
        PROVE  FailEffect(c)
    <3> DEFINE r == [g EXCEPT !.pc = "writing", !.total = n, !.event = event]
    <3>1. r.pc = "writing" /\ r.answer = g.answer
      <4> HIDE DEF g
      <4> QED BY <1>1 DEF Handlers
    <3>2. Becomes(c, r)
      BY <2>3
    <3> HIDE DEF r, g
    <3> QED BY <2>1, <2>3, <3>1, <3>2
  <2>4. ASSUME NEW n, ledger' = ledger, Becomes(c, [g EXCEPT !.pc = "writing", !.total = n])
        PROVE  FailEffect(c)
    <3> DEFINE r == [g EXCEPT !.pc = "writing", !.total = n]
    <3>1. r.pc = "writing" /\ r.answer = g.answer
      <4> HIDE DEF g
      <4> QED BY <1>1 DEF Handlers
    <3>2. Becomes(c, r)
      BY <2>4
    <3> HIDE DEF r, g
    <3> QED BY <2>1, <2>4, <3>1, <3>2
  <2> QED BY <1>8, <2>2, <2>3, <2>4 DEF Chunk, Terminal
<1>9. CASE Write(c)
  <2>1. PICK b : Becomes(c, [g EXCEPT !.pc = "relaying", !.told = b])
    BY <1>9 DEF Write
  <2> DEFINE r == [g EXCEPT !.pc = "relaying", !.told = b]
  <2>2. r.pc = "relaying" /\ r.answer = g.answer
    <3> HIDE DEF g
    <3> QED BY <1>1 DEF Handlers
  <2>3. ledger' = ledger /\ g.answer # "none" /\ Becomes(c, r)
    BY <1>3, <1>9, <2>1 DEF Write, At, server
  <2> HIDE DEF r
  <2> QED BY <1>4, <2>2, <2>3 DEF Ended
<1>10. CASE HangUp(c)
  <2> DEFINE r == [g EXCEPT !.pc = "settling", !.hungup = TRUE]
  <2>1. Becomes(c, r) /\ ledger' = ledger
    BY <1>10 DEF HangUp, server
  <2>2. r.pc = "settling" /\ r.hungup
    BY <1>1 DEF Handlers
  <2> HIDE DEF r
  <2> QED BY <1>4, <2>1, <2>2
<1>11. CASE EndOfStream(c)
  <2> DEFINE b == g.answer = "ok"
             r == [g EXCEPT !.pc = "settling", !.whole = b]
  <2>1. Becomes(c, r) /\ ledger' = ledger /\ g.pc = "relaying"
    BY <1>11 DEF EndOfStream, server, At
  <2>2. r.pc = "settling" /\ (r.whole <=> b) /\ r.answer = g.answer
    <3> HIDE DEF g, b
    <3>1. r.pc = "settling" /\ r.answer = g.answer
      BY <1>1 DEF Handlers
    <3>2. r.whole = b
      BY <1>1 DEF Handlers
    <3> QED BY <3>1, <3>2
  <2>3. b \/ g.answer = "error"
    BY <1>1, <1>3, <2>1 DEF Handlers
  <2> HIDE DEF r
  <2> QED BY <1>4, <2>1, <2>2, <2>3
<1>12. CASE Stumble(c)
  <2> DEFINE r == [g EXCEPT !.pc = "settling", !.raised = TRUE]
  <2>1. Becomes(c, r) /\ ledger' = ledger
    BY <1>12 DEF Stumble, server
  <2>2. r.pc = "settling" /\ r.raised
    BY <1>1 DEF Handlers
  <2> HIDE DEF r
  <2> QED BY <1>4, <2>1, <2>2
<1> QED BY <1>5, <1>6, <1>7, <1>8, <1>9, <1>10, <1>11, <1>12

\* A request is settled, gives its slot back and its connection closes.
LEMMA EndFailEffect ==
  ASSUME TypeOK, NEW c \in Connections, Orderly(c), Settle(c) \/ End(c) \/ Release(c)
  PROVE  FailEffect(c)
<1> DEFINE g == h[c]
<1>1. g \in Handlers /\ ledger \in Ledgers
  BY DEF TypeOK
<1>2. g.pc \in Ended \cup {"settling", "ending"}
  BY DEF Settle, End, Release, At, Ended
<1>3. ASSUME NEW r, Becomes(c, r), r.pc \in {"ending", "closing", "closed"},
             r.admitted = g.admitted, r.whole = g.whole, r.hungup = g.hungup,
             r.answer = g.answer, r.raised = g.raised
      PROVE  h'[c] = r /\ Orderly(c)' /\ (Failing(c)' => Failing(c))
             /\ \A d \in Connections \ {c} : h'[d] = h[d]
  <2>1. h'[c] = r /\ \A d \in Connections \ {c} : h'[d] = h[d]
    BY <1>3, Shown
  <2> QED BY <1>2, <1>3, <2>1 DEF Orderly, Failing
<1>4. ledger'.refusals = ledger.refusals
  BY <1>1, RefusalsOf DEF Settle, End, Release, Handlers
<1>5. ASSUME NEW pc \in {"ending", "closing", "closed"}, Becomes(c, [g EXCEPT !.pc = pc])
      PROVE  FailEffect(c)
  <2> DEFINE r == [g EXCEPT !.pc = pc]
  <2>1. r.pc = pc /\ r.admitted = g.admitted /\ r.whole = g.whole /\ r.hungup = g.hungup
        /\ r.answer = g.answer /\ r.raised = g.raised
    <3> HIDE DEF g
    <3> QED BY <1>1 DEF Handlers
  <2>2. Becomes(c, r)
    BY <1>5
  <2> HIDE DEF r
  <2> QED BY <1>3, <1>4, <2>1, <2>2 DEF FailEffect
<1>6. ASSUME NEW m, NEW k, Becomes(c, [g EXCEPT !.pc = "ending", !.charges = m, !.cost = k])
      PROVE  FailEffect(c)
  <2> DEFINE r == [g EXCEPT !.pc = "ending", !.charges = m, !.cost = k]
  <2>1. r.pc = "ending" /\ r.admitted = g.admitted /\ r.whole = g.whole /\ r.hungup = g.hungup
        /\ r.answer = g.answer /\ r.raised = g.raised
    <3> HIDE DEF g
    <3> QED BY <1>1 DEF Handlers
  <2>2. Becomes(c, r)
    BY <1>6
  <2> HIDE DEF r
  <2> QED BY <1>3, <1>4, <2>1, <2>2 DEF FailEffect
<1> QED BY <1>5, <1>6 DEF Settle, End, Release

\* A step of one handler: the failures grow by it at most, and only as it is recorded.
LEMMA FailuresKept ==
  ASSUME TypeOK, FailureInv, NEW c \in Connections, FailEffect(c)
  PROVE  FailureInv'
<1> DEFINE n == ledger.refusals  m == ledger'.refusals
           F == Cardinality(Failures)  G == Cardinality(Failures')
<1>1. IsFiniteSet(Failures) /\ IsFiniteSet(Failures')
  BY BrokerAssumption, FS_Subset DEF Failures
<1>2. Failures' \subseteq Failures \cup {c}
  BY DEF Failures, Failing, FailEffect
<1>3. F \in Nat /\ G \in Nat /\ n \in Nat
  BY <1>1, FS_CardinalityType DEF TypeOK, Ledgers
<1>4. G <= F + 1
  <2>1. IsFiniteSet(Failures \cup {c}) /\ G <= Cardinality(Failures \cup {c})
        /\ Cardinality(Failures \cup {c}) = IF c \in Failures THEN F ELSE F + 1
    BY <1>1, <1>2, FS_AddElement, FS_Subset
  <2> HIDE DEF F, G
  <2> QED BY <1>3, <2>1
<1>5. (Failing(c)' => Failing(c)) => G <= F
  <2>1. (Failing(c)' => Failing(c)) => Failures' \subseteq Failures
    BY <1>2 DEF Failures
  <2> QED BY <1>1, <2>1, FS_Subset
<1>6. n >= F /\ ((m = n /\ G <= F) \/ m = n + 1)
  BY <1>5 DEF FailureInv, FailEffect
<1>7. m >= G
  <2> HIDE DEF m, n, F, G
  <2> QED BY <1>3, <1>4, <1>6
<1>8. \A d \in Connections : Orderly(d)'
  BY DEF FailureInv, FailEffect, Orderly
<1> QED BY <1>7, <1>8 DEF FailureInv

\* A request that was let in and failed is in the record of refusals, but for the three
\* ways out that leave nothing there: its client had gone, the provider's own failure was
\* passed on, the reader raised (Ledger.refuse, _forward, _relay, _UsageReader.feed).
THEOREM FailuresAreRecorded == Spec => []FailuresRecorded
<1>1. Init => FailureInv
  <2> SUFFICES ASSUME Init PROVE FailureInv
    OBVIOUS
  <2>1. Failures = {} /\ \A c \in Connections : Orderly(c)
    BY DEF Init, Failures, Failing, Idle, Orderly, Ended
  <2>2. ledger.refusals = 0
    BY DEF Init
  <2> QED BY <2>1, <2>2, FS_EmptySet DEF FailureInv
<1>2. IInv /\ FailureInv /\ [Next]_vars => FailureInv'
  <2> SUFFICES ASSUME IInv, FailureInv, [Next]_vars PROVE FailureInv'
    OBVIOUS
  <2>1. TypeOK
    BY DEF IInv, BrokerInv
  <2>2. ASSUME NEW c \in Connections, Accept(c) \/ Handle(c) PROVE FailureInv'
    <3>1. Orderly(c)
      BY DEF FailureInv
    <3> QED BY <2>1, <2>2, <3>1, StartFailEffect, RelayFailEffect, EndFailEffect, FailuresKept
            DEF Handle
  <2>3. CASE UNCHANGED <<h, ledger>>
    BY <2>3 DEF FailureInv, Failures, Failing, Orderly
  <2> QED BY <2>2, <2>3, OthersLeaveHandlers DEF Next, Others, vars
<1>3. IInv /\ FailureInv => FailuresRecorded
  <2> SUFFICES ASSUME IInv, FailureInv PROVE FailuresRecorded
    OBVIOUS
  <2> DEFINE E == {c \in Connections :
                     /\ h[c].admitted /\ h[c].pc \in Ended /\ ~h[c].whole
                     /\ ~h[c].hungup /\ h[c].answer # "error" /\ ~h[c].raised}
  <2>1. E \subseteq Failures /\ IsFiniteSet(Failures)
    BY BrokerAssumption, FS_Subset DEF Failures, Failing
  <2>2. /\ Cardinality(E) <= Cardinality(Failures) /\ Cardinality(E) \in Nat
        /\ Cardinality(Failures) \in Nat
    BY <2>1, FS_Subset, FS_CardinalityType
  <2>3. ledger.refusals >= Cardinality(Failures) /\ ledger.refusals \in Nat
    BY DEF FailureInv, IInv, BrokerInv, TypeOK, Ledgers
  <2>4. ledger.refusals >= Cardinality(E)
    <3> HIDE DEF E
    <3> QED BY <2>2, <2>3
  <2> QED BY <2>4 DEF FailuresRecorded
<1> QED BY <1>1, <1>2, <1>3, Inductive, PTL DEF Spec

-----------------------------------------------------------------------------
(* Sums over finite sets: how MapThenSumSet adds *)

\* A family of subsets of a finite set has one that has no smaller one below it.
LEMMA Smallest ==
  ASSUME NEW C, IsFiniteSet(C), NEW B \in SUBSET SUBSET C, B # {}
  PROVE  \E t \in B : \A u \in B : u \subseteq t => u = t
  <1> DEFINE R == {ss \in Nat \X Nat : ss[1] < ss[2]}
             T == {Cardinality(t) : t \in B}
  <1>1. \A t \in B : IsFiniteSet(t) /\ Cardinality(t) \in Nat
    BY FS_Subset, FS_CardinalityType
  <1>2. IsWellFoundedOn(R, Nat)
    BY NatLessThanWellFounded DEF OpToRel
  <1>3. T \in SUBSET Nat /\ T # {}
    BY <1>1
  <1>4. PICK n \in T : \A m \in T : <<m, n>> \notin R
    <2> HIDE DEF R, T
    <2> QED BY <1>2, <1>3, WFMin
  <1>5. PICK t \in B : n = Cardinality(t)
    OBVIOUS
  <1>6. ASSUME NEW u \in B, u \subseteq t PROVE u = t
    <2>1. Cardinality(u) \in T /\ Cardinality(u) \in Nat /\ Cardinality(t) \in Nat
      BY <1>1
    <2>2. ~(Cardinality(u) < Cardinality(t))
      BY <1>4, <1>5, <2>1
    <2>3. Cardinality(u) <= Cardinality(t) /\ (Cardinality(t) = Cardinality(u) => t = u)
      BY <1>1, <1>6, FS_Subset
    <2> HIDE DEF R, T
    <2> QED BY <2>1, <2>2, <2>3
  <1> QED BY <1>5, <1>6

Picked(s) == CHOOSE x \in s : TRUE

\* g sums f over the subsets of T, in the order in which CHOOSE takes them.
Adds(g, f, T) ==
    g = [s \in SUBSET T |-> IF s = {} THEN 0 ELSE f[Picked(s)] + g[s \ {Picked(s)}]]

\* How it does so at one subset.
LEMMA AddsAt ==
  ASSUME NEW g, NEW f, NEW T, Adds(g, f, T), NEW s \in SUBSET T
  PROVE  /\ s = {} => g[s] = 0
         /\ s # {} => /\ Picked(s) \in s /\ s \ {Picked(s)} \in SUBSET T
                      /\ g[s] = f[Picked(s)] + g[s \ {Picked(s)}]
  <1>1. s # {} => Picked(s) \in s
    BY DEF Picked
  <1>2. g[s] = IF s = {} THEN 0 ELSE f[Picked(s)] + g[s \ {Picked(s)}]
    BY DEF Adds
  <1> QED BY <1>1, <1>2

SameOn(f1, f2, S) == \A x \in S : f1[x] = f2[x]

\* The sum depends on the values of its summands only.
LEMMA AddsAlike ==
  ASSUME NEW g1, NEW g2, NEW f1, NEW f2, NEW T1, NEW T2, Adds(g1, f1, T1), Adds(g2, f2, T2),
         NEW S \in SUBSET T1, S \in SUBSET T2, IsFiniteSet(S), SameOn(f1, f2, S)
  PROVE  g1[S] = g2[S]
  <1> DEFINE B == {s \in SUBSET S : g1[s] # g2[s]}
  <1>1. SUFFICES ASSUME B # {} PROVE FALSE
    OBVIOUS
  <1>2. PICK t \in B : \A u \in B : u \subseteq t => u = t
    <2>1. B \in SUBSET SUBSET S
      OBVIOUS
    <2> HIDE DEF B
    <2> QED BY <1>1, <2>1, Smallest
  <1>3. t # {}
    BY <1>2, AddsAt
  <1> DEFINE x == Picked(t)
  <1>4. /\ x \in t /\ x \in S
        /\ g1[t] = f1[x] + g1[t \ {x}] /\ g2[t] = f2[x] + g2[t \ {x}] /\ f1[x] = f2[x]
    BY <1>3, AddsAt DEF SameOn
  <1>5. t \ {x} \in SUBSET S /\ t \ {x} # t /\ t \ {x} \subseteq t
    BY <1>4
  <1>6. g1[t \ {x}] = g2[t \ {x}]
    BY <1>2, <1>5
  <1> QED BY <1>2, <1>4, <1>6

\* A sum of natural numbers is one.
LEMMA AddsNat ==
  ASSUME NEW g, NEW f, NEW T, IsFiniteSet(T), \A x \in T : f[x] \in Nat, Adds(g, f, T),
         NEW S \in SUBSET T
  PROVE  g[S] \in Nat
  <1> DEFINE B == {s \in SUBSET T : g[s] \notin Nat}
  <1>1. SUFFICES ASSUME B # {} PROVE FALSE
    OBVIOUS
  <1>2. PICK t \in B : \A u \in B : u \subseteq t => u = t
    <2>1. B \in SUBSET SUBSET T
      OBVIOUS
    <2> HIDE DEF B
    <2> QED BY <1>1, <2>1, Smallest
  <1>3. t # {}
    <2>1. t \in SUBSET T /\ g[t] \notin Nat
      BY <1>2
    <2>2. t = {} => g[t] = 0
      BY <2>1, AddsAt
    <2> QED BY <2>1, <2>2
  <1> DEFINE x == Picked(t)
  <1>4. x \in t /\ x \in T /\ g[t] = f[x] + g[t \ {x}]
    BY <1>3, AddsAt
  <1>5. t \ {x} \in SUBSET T /\ t \ {x} # t /\ t \ {x} \subseteq t
    BY <1>4
  <1>6. g[t \ {x}] \in Nat
    BY <1>2, <1>5
  <1> QED BY <1>2, <1>4, <1>6

\* It does not depend on the order.
LEMMA AddsStep ==
  ASSUME NEW g, NEW f, NEW T, IsFiniteSet(T), \A x \in T : f[x] \in Nat, Adds(g, f, T),
         NEW S \in SUBSET T, NEW y \in S
  PROVE  g[S] = f[y] + g[S \ {y}]
  <1> DEFINE B == {s \in SUBSET T : \E x \in s : g[s] # f[x] + g[s \ {x}]}
  <1>1. SUFFICES ASSUME B # {} PROVE FALSE
    OBVIOUS
  <1>2. PICK t \in B : \A u \in B : u \subseteq t => u = t
    <2>1. B \in SUBSET SUBSET T
      OBVIOUS
    <2> HIDE DEF B
    <2> QED BY <1>1, <2>1, Smallest
  <1>3. PICK z \in t : g[t] # f[z] + g[t \ {z}]
    BY <1>2
  <1> DEFINE x == Picked(t)
  <1>4. x \in t /\ x \in T /\ z \in T /\ t \in SUBSET T /\ g[t] = f[x] + g[t \ {x}]
    BY <1>3, AddsAt
  <1>5. x # z
    BY <1>3, <1>4
  <1>6. /\ t \ {x} \in SUBSET T /\ t \ {x} # t /\ z \in t \ {x}
        /\ t \ {z} \in SUBSET T /\ t \ {z} # t /\ x \in t \ {z}
    BY <1>3, <1>4, <1>5
  <1>7. t \ {x} \notin B /\ t \ {z} \notin B
    BY <1>2, <1>6
  <1>8. /\ g[t \ {x}] = f[z] + g[(t \ {x}) \ {z}]
        /\ g[t \ {z}] = f[x] + g[(t \ {z}) \ {x}]
    BY <1>6, <1>7
  <1>9. (t \ {x}) \ {z} = (t \ {z}) \ {x}
    OBVIOUS
  <1>10. g[(t \ {x}) \ {z}] \in Nat /\ f[x] \in Nat /\ f[z] \in Nat
    BY <1>4, AddsNat
  <1> DEFINE r == g[(t \ {x}) \ {z}]
  <1>11. g[t] = f[x] + (f[z] + r) /\ g[t \ {z}] = f[x] + r /\ r \in Nat
    BY <1>4, <1>8, <1>9, <1>10
  <1>12. f[x] + (f[z] + r) = f[z] + (f[x] + r)
    <2> HIDE DEF r, x, B
    <2> QED BY <1>10, <1>11
  <1> QED BY <1>3, <1>11, <1>12

\* There is such a sum.
LEMMA AddsExists ==
  ASSUME NEW f, NEW T, IsFiniteSet(T)
  PROVE  \E g : Adds(g, f, T)
  <1> DEFINE B == {s \in SUBSET T : ~ \E g : Adds(g, f, s)}
  <1>1. SUFFICES ASSUME B # {} PROVE FALSE
    OBVIOUS
  <1>2. PICK t \in B : \A u \in B : u \subseteq t => u = t
    <2>1. B \in SUBSET SUBSET T
      OBVIOUS
    <2> HIDE DEF B
    <2> QED BY <1>1, <2>1, Smallest
  <1> DEFINE G(s) == CHOOSE g : Adds(g, f, s)
             V(s) == IF s = {} THEN 0 ELSE f[Picked(s)] + G(s \ {Picked(s)})[s \ {Picked(s)}]
             k == [s \in SUBSET t |-> V(s)]
  <1>3. ASSUME NEW s \in SUBSET t, s # t PROVE Adds(G(s), f, s)
    <2>1. s \notin B /\ s \in SUBSET T
      BY <1>2, <1>3
    <2> QED BY <2>1
  <1>4. ASSUME NEW s \in SUBSET t, s # t PROVE V(s) = G(s)[s]
    <2>1. CASE s = {}
      BY <1>3, <1>4, <2>1, AddsAt
    <2>2. CASE s # {}
      <3> DEFINE x == Picked(s)
                 r == s \ {x}
      <3>0. Adds(G(s), f, s)
        BY <1>3, <1>4
      <3>1. x \in s /\ G(s)[s] = f[x] + G(s)[r] /\ r \in SUBSET s /\ r # t /\ r \in SUBSET t
        <4> HIDE DEF G
        <4> QED BY <2>2, <3>0, AddsAt
      <3>2. Adds(G(r), f, r)
        BY <1>3, <3>1
      <3>3. IsFiniteSet(r)
        BY <1>2, <3>1, FS_Subset
      <3>4. G(r)[r] = G(s)[r]
        <4> HIDE DEF G, r
        <4> QED BY <3>0, <3>1, <3>2, <3>3, AddsAlike DEF SameOn
      <3> QED BY <2>2, <3>1, <3>4
    <2> QED BY <2>1, <2>2
  <1>5. Adds(k, f, t)
    <2>1. ASSUME NEW s \in SUBSET t, s # {} PROVE V(s) = f[Picked(s)] + k[s \ {Picked(s)}]
      <3> DEFINE x == Picked(s)
                 r == s \ {x}
      <3>1. x \in s
        BY <2>1 DEF Picked
      <3>2. r \in SUBSET t /\ r # t
        BY <3>1
      <3>3. k[r] = G(r)[r]
        <4> HIDE DEF G, r
        <4> QED BY <1>4, <3>2
      <3> QED BY <2>1, <3>3
    <2> HIDE DEF G
    <2>2. \A s \in SUBSET t : V(s) = IF s = {} THEN 0 ELSE f[Picked(s)] + k[s \ {Picked(s)}]
      BY <2>1
    <2> HIDE DEF V
    <2>3. k = [s \in SUBSET t |-> IF s = {} THEN 0 ELSE f[Picked(s)] + k[s \ {Picked(s)}]]
      BY <2>2
    <2> QED BY <2>3 DEF Adds
  <1> QED BY <1>2, <1>5

\* The sum of f over each set of connections, and what each has cost so far.
Total(f) == CHOOSE g : Adds(g, f, Connections)
Tokens == [c \in Connections |-> h[c].cost.tokens]
Dollars == [c \in Connections |-> h[c].cost.usd]

\* A total is a number, made up of its summands in any order.
LEMMA Totals ==
  ASSUME NEW f, \A c \in Connections : f[c] \in Nat, NEW S \in SUBSET Connections
  PROVE  /\ Total(f)[S] \in Nat
         /\ S = {} => Total(f)[S] = 0
         /\ \A c \in S : Total(f)[S] = f[c] + Total(f)[S \ {c}]
  <1>1. Adds(Total(f), f, Connections)
    BY BrokerAssumption, AddsExists DEF Total
  <1>2. PICK g : g = Total(f)
    OBVIOUS
  <1>3. Adds(g, f, Connections)
    BY <1>1, <1>2
  <1>4. S = {} => g[S] = 0
    BY <1>3, AddsAt
  <1>5. g[S] \in Nat
    BY <1>3, BrokerAssumption, AddsNat
  <1>6. ASSUME NEW c \in S PROVE g[S] = f[c] + g[S \ {c}]
    <2>1. IsFiniteSet(Connections) /\ S \in SUBSET Connections /\ c \in S
      BY BrokerAssumption
    <2> QED BY <1>3, <2>1, AddsStep, SMTT(60)
  <1> QED BY <1>2, <1>4, <1>5, <1>6

\* Functions that agree have equal totals,
LEMMA TotalsAgree ==
  ASSUME NEW f1, NEW f2, NEW S \in SUBSET Connections, SameOn(f1, f2, S)
  PROVE  Total(f1)[S] = Total(f2)[S]
  <1>1. Adds(Total(f1), f1, Connections) /\ Adds(Total(f2), f2, Connections)
    BY BrokerAssumption, AddsExists DEF Total
  <1>2. IsFiniteSet(S) /\ S \subseteq Connections
    BY BrokerAssumption, FS_Subset
  <1>3. PICK g1, g2 : g1 = Total(f1) /\ g2 = Total(f2)
    OBVIOUS
  <1>4. Adds(g1, f1, Connections) /\ Adds(g2, f2, Connections)
    BY <1>1, <1>3
  <1>5. g1[S] = g2[S]
    BY <1>2, <1>4, AddsAlike
  <1> QED BY <1>3, <1>5

\* and a larger set has no smaller one.
LEMMA TotalsGrow ==
  ASSUME NEW f, \A c \in Connections : f[c] \in Nat, NEW S \in SUBSET Connections,
         NEW U \in SUBSET S
  PROVE  Total(f)[U] <= Total(f)[S]
  <1> DEFINE B == {s \in SUBSET Connections : U \subseteq s /\ ~(Total(f)[U] <= Total(f)[s])}
  <1>1. SUFFICES ASSUME B # {} PROVE FALSE
    BY Totals
  <1>2. PICK t \in B : \A u \in B : u \subseteq t => u = t
    <2>1. B \in SUBSET SUBSET Connections
      OBVIOUS
    <2> HIDE DEF B
    <2> QED BY <1>1, <2>1, BrokerAssumption, Smallest
  <1>3. t \in SUBSET Connections /\ U \subseteq t /\ ~(Total(f)[U] <= Total(f)[t])
    BY <1>2
  <1>4. U # t
    BY <1>3, Totals
  <1>5. PICK c \in t : c \notin U
    BY <1>3, <1>4
  <1>6. t \ {c} \in SUBSET Connections /\ U \subseteq t \ {c} /\ t \ {c} \subseteq t /\ t \ {c} # t
    BY <1>3, <1>5
  <1>7. Total(f)[U] <= Total(f)[t \ {c}]
    BY <1>2, <1>6
  <1>8. /\ Total(f)[t] = f[c] + Total(f)[t \ {c}]
        /\ Total(f)[t \ {c}] \in Nat /\ Total(f)[U] \in Nat /\ f[c] \in Nat
    BY <1>3, <1>5, <1>6, Totals
  <1> HIDE DEF B
  <1> QED BY <1>3, <1>7, <1>8

\* The function that MapThenSumSet chooses adds like any other.
LEMMA AnyAdds ==
  ASSUME NEW f, NEW S \in SUBSET Connections, NEW g, Adds(g, f, S)
  PROVE  g[S] = Total(f)[S]
  <1>1. Adds(Total(f), f, Connections)
    BY BrokerAssumption, AddsExists DEF Total
  <1>2. PICK k : k = Total(f)
    OBVIOUS
  <1>3. Adds(k, f, Connections) /\ IsFiniteSet(S)
    BY <1>1, <1>2, BrokerAssumption, FS_Subset
  <1>4. g[S] = k[S]
    BY <1>3, AddsAlike DEF SameOn
  <1> QED BY <1>2, <1>4

\* The sums of AcceptedIsAccounted are totals.
LEMMA TokensSummed ==
  ASSUME NEW S \in SUBSET Connections
  PROVE  MapThenSumSet(LAMBDA c : h[c].cost.tokens, S) = Total(Tokens)[S]
  <1> DEFINE body(g) == [s \in SUBSET S |->
               IF s = {} THEN 0 ELSE h[Picked(s)].cost.tokens + g[s \ {Picked(s)}]]
             G == CHOOSE g : g = body(g)
  <1>1. MapThenSumSet(LAMBDA c : h[c].cost.tokens, S) = G[S]
    BY DEF MapThenSumSet, MapThenFoldSet, Picked
  <1>2. ASSUME NEW g PROVE g = body(g) <=> Adds(g, Tokens, S)
    <2>1. \A s \in SUBSET S : s # {} => h[Picked(s)].cost.tokens = Tokens[Picked(s)]
      BY DEF Picked, Tokens
    <2>2. body(g) = [s \in SUBSET S |->
               IF s = {} THEN 0 ELSE Tokens[Picked(s)] + g[s \ {Picked(s)}]]
      BY <2>1
    <2> QED BY <2>2 DEF Adds
  <1>3. \E g : Adds(g, Tokens, S)
    BY BrokerAssumption, FS_Subset, AddsExists
  <1>4. G = body(G)
    <2> HIDE DEF body
    <2> QED BY <1>2, <1>3
  <1>5. PICK g, f : g = G /\ f = Tokens
    OBVIOUS
  <1>6. Adds(g, f, S)
    <2> HIDE DEF body, G
    <2> QED BY <1>2, <1>4, <1>5
  <1>7. g[S] = Total(f)[S]
    BY <1>6, AnyAdds
  <1> HIDE DEF G
  <1> QED BY <1>1, <1>5, <1>7

\* The same of what was spent.
LEMMA DollarsSummed ==
  ASSUME NEW S \in SUBSET Connections
  PROVE  MapThenSumSet(LAMBDA c : h[c].cost.usd, S) = Total(Dollars)[S]
  <1> DEFINE body(g) == [s \in SUBSET S |->
               IF s = {} THEN 0 ELSE h[Picked(s)].cost.usd + g[s \ {Picked(s)}]]
             G == CHOOSE g : g = body(g)
  <1>1. MapThenSumSet(LAMBDA c : h[c].cost.usd, S) = G[S]
    BY DEF MapThenSumSet, MapThenFoldSet, Picked
  <1>2. ASSUME NEW g PROVE g = body(g) <=> Adds(g, Dollars, S)
    <2>1. \A s \in SUBSET S : s # {} => h[Picked(s)].cost.usd = Dollars[Picked(s)]
      BY DEF Picked, Dollars
    <2>2. body(g) = [s \in SUBSET S |->
               IF s = {} THEN 0 ELSE Dollars[Picked(s)] + g[s \ {Picked(s)}]]
      BY <2>1
    <2> QED BY <2>2 DEF Adds
  <1>3. \E g : Adds(g, Dollars, S)
    BY BrokerAssumption, FS_Subset, AddsExists
  <1>4. G = body(G)
    <2> HIDE DEF body
    <2> QED BY <1>2, <1>3
  <1>5. PICK g, f : g = G /\ f = Dollars
    OBVIOUS
  <1>6. Adds(g, f, S)
    <2> HIDE DEF body, G
    <2> QED BY <1>2, <1>4, <1>5
  <1>7. g[S] = Total(f)[S]
    BY <1>6, AnyAdds
  <1> HIDE DEF G
  <1> QED BY <1>1, <1>5, <1>7

\* One summand changes.
LEMMA TotalsCharged ==
  ASSUME NEW f, NEW g, NEW c \in Connections,
         \A d \in Connections : f[d] \in Nat /\ g[d] \in Nat,
         \A d \in Connections \ {c} : f[d] = g[d]
  PROVE  Total(g)[Connections] + f[c] = Total(f)[Connections] + g[c]
  <1> DEFINE R == Connections \ {c}
  <1>1. R \in SUBSET Connections /\ SameOn(f, g, R)
    BY DEF SameOn
  <1>2. Total(f)[R] = Total(g)[R] /\ Total(f)[R] \in Nat
    <2> HIDE DEF R
    <2> QED BY <1>1, Totals, TotalsAgree
  <1>3. Total(f)[Connections] = f[c] + Total(f)[R]
    BY Totals
  <1>4. Total(g)[Connections] = g[c] + Total(g)[R]
    BY Totals
  <1> HIDE DEF R
  <1> QED BY <1>2, <1>3, <1>4

-----------------------------------------------------------------------------
(* An accepted pass accounts for what Codex was told the end of *)

Told(c) == h[c].told /\ h[c].event = "plain"
ToldSet == {c \in Connections : Told(c)}

\* What has been read is charged before it is told, and costs nothing before.
Due(c) ==
    /\ h[c].event = "plain" => h[c].charges > 0
    /\ h[c].charges = 0 => h[c].cost = NoCost
    /\ h[c].told => h[c].event # "none"

\* The ledger has what the requests cost, and one is told only while the pass runs.
BillEffect(c) ==
    /\ Due(c)' /\ \A d \in Connections \ {c} : h'[d] = h[d]
    /\ \/ h'[c].cost = h[c].cost /\ ledger'.tokens = ledger.tokens /\ ledger'.usd = ledger.usd
       \/ /\ h[c].charges = 0
          /\ ledger'.tokens = ledger.tokens + h'[c].cost.tokens
          /\ ledger'.usd = ledger.usd + h'[c].cost.usd
    /\ Told(c)' => Told(c) \/ stage = "running"

\* The operations of the ledger that charge nothing.
LEMMA NothingCharged ==
  ASSUME ledger \in Ledgers
  PROVE  /\ Refused.tokens = ledger.tokens /\ Refused.usd = ledger.usd
         /\ Begun.tokens = ledger.tokens /\ Begun.usd = ledger.usd
         /\ \A b \in BOOLEAN : Done(b).tokens = ledger.tokens /\ Done(b).usd = ledger.usd
  BY DEF Refused, Begun, Done, Ledgers

\* And the one that does.
LEMMA SomethingCharged ==
  ASSUME ledger \in Ledgers, NEW usage
  PROVE  /\ Recorded(usage).tokens = ledger.tokens + Priced(usage).tokens
         /\ Recorded(usage).usd = ledger.usd + Priced(usage).usd
<1> DEFINE n == ledger.tokens + Priced(usage).tokens
           m == ledger.usd + Priced(usage).usd
           u == IF usage = None THEN ledger.unpriced + 1 ELSE ledger.unpriced
<1>1. Recorded(usage) = [ledger EXCEPT !.tokens = n, !.usd = m, !.unpriced = u]
  BY DEF Recorded
<1> HIDE DEF n, m, u
<1>2. Recorded(usage).tokens = n /\ Recorded(usage).usd = m
  BY <1>1 DEF Ledgers
<1> QED BY <1>2 DEF n, m

\* A step that charges nothing, and tells nothing but what was read while the pass runs.
LEMMA NoBill ==
  ASSUME TypeOK, NEW c \in Connections, Due(c), NEW r, Becomes(c, r),
         r.charges = h[c].charges, r.cost = h[c].cost,
         \/ r.event = h[c].event
         \/ h[c].event = "none" /\ r.event = "overlong",
         r.told => h[c].told \/ (h[c].event # "none" /\ stage = "running"),
         ledger'.tokens = ledger.tokens, ledger'.usd = ledger.usd
  PROVE  BillEffect(c)
<1>1. h'[c] = r /\ \A d \in Connections \ {c} : h'[d] = h[d]
  BY Shown
<1> QED BY <1>1 DEF BillEffect, Due, Told

\* A step that charges.
LEMMA NewBill ==
  ASSUME TypeOK, NEW c \in Connections, Due(c), NEW r, Becomes(c, r),
         h[c].charges = 0, r.charges = 1,
         r.event = h[c].event \/ (h[c].event = "none" /\ r.event = "plain"),
         r.told = h[c].told,
         ledger'.tokens = ledger.tokens + r.cost.tokens,
         ledger'.usd = ledger.usd + r.cost.usd
  PROVE  BillEffect(c)
<1>1. h'[c] = r /\ \A d \in Connections \ {c} : h'[d] = h[d]
  BY Shown
<1> QED BY <1>1 DEF BillEffect, Due, Told

\* The steps that change no more than where a handler stands.
LEMMA MoveBill ==
  ASSUME TypeOK, NEW c \in Connections, Due(c),
         \/ Accept(c) \/ Unserved(c) \/ Refuse(c) \/ Connect(c) \/ NoAnswer(c) \/ Break(c)
         \/ End(c) \/ Release(c)
  PROVE  BillEffect(c)
<1> DEFINE g == h[c]
<1>1. g \in Handlers /\ ledger \in Ledgers
  BY DEF TypeOK
<1>2. ledger'.tokens = ledger.tokens /\ ledger'.usd = ledger.usd
  BY <1>1, NothingCharged
     DEF Accept, Unserved, Refuse, Connect, NoAnswer, Break, End, Release, server, Handlers
<1>3. PICK pc : Becomes(c, [g EXCEPT !.pc = pc])
  BY DEF Accept, Unserved, Refuse, Connect, NoAnswer, Break, End, Release
<1> DEFINE r == [g EXCEPT !.pc = pc]
<1>4. r.charges = g.charges /\ r.cost = g.cost /\ r.event = g.event /\ r.told = g.told
  <2> HIDE DEF g
  <2> QED BY <1>1 DEF Handlers
<1>5. Becomes(c, r)
  BY <1>3
<1> HIDE DEF r
<1> QED BY <1>2, <1>4, <1>5, NoBill

\* A request is let in, and answered.
LEMMA AskBill ==
  ASSUME TypeOK, NEW c \in Connections, Due(c), Admit(c) \/ Respond(c)
  PROVE  BillEffect(c)
<1> DEFINE g == h[c]
<1>1. g \in Handlers /\ ledger \in Ledgers
  BY DEF TypeOK
<1>2. ledger'.tokens = ledger.tokens /\ ledger'.usd = ledger.usd
  BY <1>1, NothingCharged DEF Admit, Respond, server
<1>3. CASE Admit(c)
  <2>1. Becomes(c, [g EXCEPT !.pc = "connecting", !.admitted = TRUE])
    BY <1>3 DEF Admit
  <2> DEFINE r == [g EXCEPT !.pc = "connecting", !.admitted = TRUE]
  <2>2. r.charges = g.charges /\ r.cost = g.cost /\ r.event = g.event /\ r.told = g.told
    <3> HIDE DEF g
    <3> QED BY <1>1 DEF Handlers
  <2>3. Becomes(c, r)
    BY <2>1
  <2> HIDE DEF r
  <2> QED BY <1>2, <2>2, <2>3, NoBill
<1>4. CASE Respond(c)
  <2>1. PICK answer, pc, gone :
          Becomes(c, [g EXCEPT !.answer = answer, !.pc = pc, !.hungup = gone])
    BY <1>4 DEF Respond
  <2> DEFINE r == [g EXCEPT !.answer = answer, !.pc = pc, !.hungup = gone]
  <2>2. r.charges = g.charges /\ r.cost = g.cost /\ r.event = g.event /\ r.told = g.told
    <3> HIDE DEF g
    <3> QED BY <1>1 DEF Handlers
  <2>3. Becomes(c, r)
    BY <2>1
  <2> HIDE DEF r
  <2> QED BY <1>2, <2>2, <2>3, NoBill
<1> QED BY <1>3, <1>4

\* A chunk is passed on, and charged first when it carries the usage.
LEMMA ChunkBill ==
  ASSUME TypeOK, Known, NEW c \in Connections, Due(c), Chunk(c) PROVE BillEffect(c)
<1> DEFINE g == h[c]
           n == g.total + 1
<1>1. g \in Handlers /\ g.pc = "relaying" /\ Progress(c) /\ ledger \in Ledgers
  BY DEF Chunk, At, Known, TypeOK
<1>2. ASSUME NEW usage \in Charges \cup {None}, g.event = "none", ledger' = Recorded(usage),
             Becomes(c, [g EXCEPT !.pc = "writing", !.total = @ + 1, !.event = "plain",
                                  !.seen = TRUE, !.charges = @ + 1, !.cost = Priced(usage)])
      PROVE  BillEffect(c)
  <2>1. g.charges = 0
    BY <1>1, <1>2 DEF Progress, Ended
  <2> DEFINE m == g.charges + 1
             k == Priced(usage)
             r == [g EXCEPT !.pc = "writing", !.total = n, !.event = "plain", !.seen = TRUE,
                            !.charges = m, !.cost = k]
  <2>2. m = 1
    BY <2>1
  <2>3. Becomes(c, r)
    BY <1>2
  <2>4. r.charges = m /\ r.event = "plain" /\ r.cost = k /\ r.told = g.told
    <3> HIDE DEF n, m, k, g
    <3> QED BY <1>1 DEF Handlers
  <2>5. ledger'.tokens = ledger.tokens + k.tokens /\ ledger'.usd = ledger.usd + k.usd
    BY <1>1, <1>2, SomethingCharged
  <2> HIDE DEF r, m, k
  <2> QED BY <1>2, <2>1, <2>2, <2>3, <2>4, <2>5, NewBill
<1>3. ASSUME g.event = "none", ledger' = ledger,
             Becomes(c, [g EXCEPT !.pc = "writing", !.total = @ + 1, !.event = "overlong"])
      PROVE  BillEffect(c)
  <2> DEFINE r == [g EXCEPT !.pc = "writing", !.total = n, !.event = "overlong"]
  <2>1. Becomes(c, r)
    BY <1>3
  <2>2. r.charges = g.charges /\ r.cost = g.cost /\ r.event = "overlong" /\ r.told = g.told
    <3> HIDE DEF n, g
    <3> QED BY <1>1 DEF Handlers
  <2> HIDE DEF r
  <2> QED BY <1>3, <2>1, <2>2, NoBill
<1>4. ASSUME ledger' = ledger, Becomes(c, [g EXCEPT !.pc = "writing", !.total = @ + 1])
      PROVE  BillEffect(c)
  <2> DEFINE r == [g EXCEPT !.pc = "writing", !.total = n]
  <2>1. Becomes(c, r)
    BY <1>4
  <2>2. r.charges = g.charges /\ r.cost = g.cost /\ r.event = g.event /\ r.told = g.told
    <3> HIDE DEF n, g
    <3> QED BY <1>1 DEF Handlers
  <2> HIDE DEF r
  <2> QED BY <1>4, <2>1, <2>2, NoBill
<1> QED
  BY <1>2, <1>3, <1>4 DEF Chunk, Terminal

\* The client reads what was charged, or is gone, the reader raises, or the stream ends.
LEMMA RelayBill ==
  ASSUME TypeOK, NEW c \in Connections, Due(c),
         Write(c) \/ HangUp(c) \/ Stumble(c) \/ EndOfStream(c)
  PROVE  BillEffect(c)
<1> DEFINE g == h[c]
<1>1. g \in Handlers /\ ledger \in Ledgers
  BY DEF TypeOK
<1>2. ledger'.tokens = ledger.tokens /\ ledger'.usd = ledger.usd
  BY DEF Write, HangUp, Stumble, EndOfStream, server
<1>3. CASE Write(c)
  <2> DEFINE b == g.told \/ (g.event # "none" /\ stage = "running")
             r == [g EXCEPT !.pc = "relaying", !.told = b]
  <2>1. Becomes(c, r)
    BY <1>3 DEF Write
  <2>2. r.charges = g.charges /\ r.cost = g.cost /\ r.event = g.event /\ r.told = b
    <3> HIDE DEF g, b
    <3> QED BY <1>1 DEF Handlers
  <2> HIDE DEF r
  <2> QED BY <1>2, <2>1, <2>2, NoBill
<1>4. CASE HangUp(c)
  <2> DEFINE r == [g EXCEPT !.pc = "settling", !.hungup = TRUE]
  <2>1. Becomes(c, r)
    BY <1>4 DEF HangUp
  <2>2. r.charges = g.charges /\ r.cost = g.cost /\ r.event = g.event /\ r.told = g.told
    <3> HIDE DEF g
    <3> QED BY <1>1 DEF Handlers
  <2> HIDE DEF r
  <2> QED BY <1>2, <2>1, <2>2, NoBill
<1>5. CASE EndOfStream(c)
  <2> DEFINE b == (g.answer = "ok")
             r == [g EXCEPT !.pc = "settling", !.whole = b]
  <2>1. Becomes(c, r)
    BY <1>5 DEF EndOfStream
  <2>2. r.charges = g.charges /\ r.cost = g.cost /\ r.event = g.event /\ r.told = g.told
    <3> HIDE DEF g, b
    <3> QED BY <1>1 DEF Handlers
  <2> HIDE DEF r
  <2> QED BY <1>2, <2>1, <2>2, NoBill
<1>6. CASE Stumble(c)
  <2> DEFINE r == [g EXCEPT !.pc = "settling", !.raised = TRUE]
  <2>1. Becomes(c, r)
    BY <1>6 DEF Stumble
  <2>2. r.charges = g.charges /\ r.cost = g.cost /\ r.event = g.event /\ r.told = g.told
    <3> HIDE DEF g
    <3> QED BY <1>1 DEF Handlers
  <2> HIDE DEF r
  <2> QED BY <1>2, <2>1, <2>2, NoBill
<1> QED BY <1>3, <1>4, <1>5, <1>6

\* A response that never reported its usage is charged the standing estimate.
LEMMA SettleBill ==
  ASSUME TypeOK, Known, NEW c \in Connections, Due(c), Settle(c) PROVE BillEffect(c)
<1> DEFINE g == h[c]
<1>1. g \in Handlers /\ g.pc = "settling" /\ Progress(c) /\ ledger \in Ledgers
  BY DEF Settle, At, Known, TypeOK
<1>2. ASSUME ~g.seen, ledger' = Recorded(None),
             Becomes(c, [g EXCEPT !.pc = "ending", !.charges = @ + 1, !.cost = Unmeasured])
      PROVE  BillEffect(c)
  <2>1. g.charges = 0
    BY <1>1, <1>2 DEF Progress, Ended
  <2> DEFINE m == g.charges + 1
             r == [g EXCEPT !.pc = "ending", !.charges = m, !.cost = Unmeasured]
  <2>2. m = 1
    BY <2>1
  <2>3. Becomes(c, r)
    BY <1>2
  <2>4. r.charges = m /\ r.event = g.event /\ r.cost = Unmeasured /\ r.told = g.told
    <3> HIDE DEF m, g
    <3> QED BY <1>1 DEF Handlers
  <2>5. /\ ledger'.tokens = ledger.tokens + Unmeasured.tokens
        /\ ledger'.usd = ledger.usd + Unmeasured.usd
    BY <1>1, <1>2, SomethingCharged DEF Priced
  <2> HIDE DEF r, m
  <2> QED BY <2>1, <2>2, <2>3, <2>4, <2>5, NewBill
<1>3. ASSUME ledger' = ledger, Becomes(c, [g EXCEPT !.pc = "ending"])
      PROVE  BillEffect(c)
  <2> DEFINE r == [g EXCEPT !.pc = "ending"]
  <2>1. Becomes(c, r)
    BY <1>3
  <2>2. r.charges = g.charges /\ r.cost = g.cost /\ r.event = g.event /\ r.told = g.told
    <3> HIDE DEF g
    <3> QED BY <1>1 DEF Handlers
  <2> HIDE DEF r
  <2> QED BY <1>3, <2>1, <2>2, NoBill
<1> QED
  BY <1>2, <1>3 DEF Settle

\* Every step of a handler is one of these.
LEMMA HandlerBill ==
  ASSUME TypeOK, Known, NEW c \in Connections, Due(c), Accept(c) \/ Handle(c)
  PROVE  BillEffect(c)
  BY MoveBill, AskBill, ChunkBill, RelayBill, SettleBill DEF Handle

\* A ledger has at least what the requests of S cost.
Covers(l, S) == l.tokens >= Total(Tokens)[S] /\ l.usd >= Total(Dollars)[S]

\* The ledger has what every request cost.  What Codex was told the end of is
\* settled once the pipe is closed, and a summary is taken later.
AccountInv ==
    /\ \A c \in Connections : Due(c)
    /\ Covers(ledger, Connections)
    /\ child = "stopping" => PipeClosed
    /\ \A i \in DOMAIN lines :
         lines[i].kind = "summary" => PipeClosed /\ Covers(lines[i].ledger, ToldSet)
    /\ summary # None => PipeClosed /\ Covers(summary, ToldSet)

\* Costs are numbers.
LEMMA CostsType ==
  ASSUME NEW k \in [Connections -> Handlers], NEW c \in Connections
  PROVE  k[c].cost.tokens \in Nat /\ k[c].cost.usd \in Nat
<1>1. k[c].cost \in Costs
  BY DEF Handlers
<1> QED
  BY <1>1, BrokerAssumption DEF Costs

\* A charge is added to the ledger and to what the requests cost.
LEMMA LedgerCovers ==
  ASSUME TypeOK, TypeOK', NEW c \in Connections, Due(c), BillEffect(c), Covers(ledger, Connections)
  PROVE  Covers(ledger, Connections)'
<1>1. PICK f1, g1, f2, g2 : f1 = Tokens /\ g1 = Tokens' /\ f2 = Dollars /\ g2 = Dollars'
  OBVIOUS
<1>2. \A d \in Connections : f1[d] \in Nat /\ g1[d] \in Nat /\ f2[d] \in Nat /\ g2[d] \in Nat
  <2>1. h \in [Connections -> Handlers] /\ h' \in [Connections -> Handlers]
    BY DEF TypeOK
  <2>2. \A d \in Connections : /\ h[d].cost.tokens \in Nat /\ h[d].cost.usd \in Nat
                               /\ h'[d].cost.tokens \in Nat /\ h'[d].cost.usd \in Nat
    BY <2>1, CostsType
  <2> QED BY <1>1, <2>2 DEF Tokens, Dollars
<1>3. \A d \in Connections \ {c} : f1[d] = g1[d] /\ f2[d] = g2[d]
  BY <1>1 DEF BillEffect, Tokens, Dollars
<1>4. /\ Total(g1)[Connections] + f1[c] = Total(f1)[Connections] + g1[c]
      /\ Total(g2)[Connections] + f2[c] = Total(f2)[Connections] + g2[c]
  BY <1>2, <1>3, TotalsCharged
<1>5. /\ Total(f1)[Connections] \in Nat /\ Total(g1)[Connections] \in Nat
      /\ Total(f2)[Connections] \in Nat /\ Total(g2)[Connections] \in Nat
  BY <1>2, Totals
<1>6. /\ ledger'.tokens = ledger.tokens + (g1[c] - f1[c])
      /\ ledger'.usd = ledger.usd + (g2[c] - f2[c])
  <2>1. /\ f1[c] = h[c].cost.tokens /\ g1[c] = h'[c].cost.tokens
        /\ f2[c] = h[c].cost.usd /\ g2[c] = h'[c].cost.usd
    BY <1>1 DEF Tokens, Dollars
  <2>2. ledger.tokens \in Nat /\ ledger.usd \in Nat
    BY DEF TypeOK, Ledgers
  <2>3. CASE h'[c].cost = h[c].cost /\ ledger'.tokens = ledger.tokens /\ ledger'.usd = ledger.usd
    BY <1>2, <2>1, <2>2, <2>3
  <2>4. CASE /\ h[c].charges = 0
             /\ ledger'.tokens = ledger.tokens + h'[c].cost.tokens
             /\ ledger'.usd = ledger.usd + h'[c].cost.usd
    <3>1. f1[c] = 0 /\ f2[c] = 0
      BY <2>1, <2>4 DEF Due, NoCost
    <3> QED BY <1>2, <2>1, <2>2, <2>4, <3>1
  <2> QED BY <2>3, <2>4 DEF BillEffect
<1>7. ledger.tokens >= Total(f1)[Connections] /\ ledger.usd >= Total(f2)[Connections]
  BY <1>1 DEF Covers
<1>8. ledger.tokens \in Nat /\ ledger.usd \in Nat
  BY DEF TypeOK, Ledgers
<1>9. ledger'.tokens >= Total(g1)[Connections] /\ ledger'.usd >= Total(g2)[Connections]
  BY <1>2, <1>4, <1>5, <1>6, <1>7, <1>8
<1>10. Total(Tokens)' = Total(g1) /\ Total(Dollars)' = Total(g2)
  BY <1>1
<1> QED BY <1>9, <1>10 DEF Covers

\* Once the pipe is closed, what was told stays as it was.
LEMMA ToldStays ==
  ASSUME TypeOK, NEW c \in Connections, Due(c), BillEffect(c), stage # "running"
  PROVE  /\ ToldSet' \subseteq ToldSet
         /\ \A d \in ToldSet : h'[d].cost = h[d].cost
<1>1. ToldSet' \subseteq ToldSet
  BY DEF ToldSet, Told, BillEffect
<1>2. c \in ToldSet => h'[c].cost = h[c].cost
  BY DEF ToldSet, Told, BillEffect, Due, TypeOK, Handlers
<1> QED BY <1>1, <1>2 DEF ToldSet, BillEffect

\* So what covered it still does.
LEMMA CoverStays ==
  ASSUME TypeOK, TypeOK', ToldSet' \subseteq ToldSet, \A d \in ToldSet : h'[d].cost = h[d].cost,
         NEW l \in Ledgers, Covers(l, ToldSet)
  PROVE  Covers(l, ToldSet)'
<1>1. PICK f1, g1, f2, g2 : f1 = Tokens /\ g1 = Tokens' /\ f2 = Dollars /\ g2 = Dollars'
  OBVIOUS
<1>2. PICK S, U : S = ToldSet /\ U = ToldSet'
  OBVIOUS
<1>3. S \in SUBSET Connections /\ U \in SUBSET S /\ U \in SUBSET Connections
  BY <1>2 DEF ToldSet
<1>4. SameOn(f1, g1, U) /\ SameOn(f2, g2, U)
  BY <1>1, <1>2, <1>3 DEF SameOn, Tokens, Dollars
<1>5. \A d \in Connections : f1[d] \in Nat /\ f2[d] \in Nat
  BY <1>1, CostsType DEF TypeOK, Tokens, Dollars
<1>6. Total(f1)[U] = Total(g1)[U] /\ Total(f2)[U] = Total(g2)[U]
  BY <1>3, <1>4, TotalsAgree
<1>7. Total(f1)[U] <= Total(f1)[S] /\ Total(f2)[U] <= Total(f2)[S]
  BY <1>3, <1>5, TotalsGrow
<1>8. /\ Total(f1)[U] \in Nat /\ Total(f1)[S] \in Nat
      /\ Total(f2)[U] \in Nat /\ Total(f2)[S] \in Nat
  BY <1>3, <1>5, Totals
<1>9. l.tokens >= Total(f1)[S] /\ l.usd >= Total(f2)[S] /\ l.tokens \in Nat /\ l.usd \in Nat
  BY <1>1, <1>2 DEF Covers, Ledgers
<1>10. l.tokens >= Total(g1)[U] /\ l.usd >= Total(g2)[U]
  BY <1>6, <1>7, <1>8, <1>9
<1>11. Total(Tokens)' = Total(g1) /\ Total(Dollars)' = Total(g2)
  BY <1>1
<1> QED BY <1>2, <1>10, <1>11 DEF Covers

\* The account is open initially.
LEMMA InitAccount == ASSUME Init, TypeOK PROVE AccountInv
<1>1. PICK f1, f2 : f1 = Tokens /\ f2 = Dollars
  OBVIOUS
<1>2. \A c \in Connections : f1[c] = 0 /\ f2[c] = 0
  BY <1>1 DEF Init, Idle, NoCost, Tokens, Dollars
<1>3. ASSUME NEW f, \A c \in Connections : f[c] = 0 PROVE Total(f)[Connections] = 0
  <2> DEFINE B == {s \in SUBSET Connections : Total(f)[s] # 0}
  <2>1. SUFFICES ASSUME B # {} PROVE FALSE
    OBVIOUS
  <2>2. PICK t \in B : \A u \in B : u \subseteq t => u = t
    <3>1. B \in SUBSET SUBSET Connections
      OBVIOUS
    <3> HIDE DEF B
    <3> QED BY <2>1, <3>1, BrokerAssumption, Smallest
  <2>3. \A c \in Connections : f[c] \in Nat
    BY <1>3
  <2>4. PICK c \in t : TRUE
    BY <2>2, <2>3, Totals
  <2>5. Total(f)[t] = f[c] + Total(f)[t \ {c}] /\ Total(f)[t \ {c}] = 0
    BY <2>2, <2>3, <2>4, Totals
  <2> QED BY <1>3, <2>2, <2>4, <2>5
<1>4. Total(f1)[Connections] = 0 /\ Total(f2)[Connections] = 0
  BY <1>2, <1>3
<1>5. Covers(ledger, Connections)
  BY <1>1, <1>4 DEF Init, Covers
<1>6. \A c \in Connections : Due(c)
  BY DEF Init, Idle, Due
<1> QED BY <1>5, <1>6 DEF Init, AccountInv

\* A handler's step keeps it,
LEMMA HandlersAccount ==
  ASSUME IInv, IInv', AccountInv, NEW c \in Connections, Accept(c) \/ Handle(c)
  PROVE  AccountInv'
<1>1. TypeOK /\ TypeOK' /\ Known
  BY IInvKnown DEF IInv, BrokerInv
<1>2. Due(c) /\ BillEffect(c)
  BY <1>1, HandlerBill DEF AccountInv
<1>3. \A d \in Connections : Due(d)'
  BY <1>2 DEF AccountInv, BillEffect, Due
<1>4. Covers(ledger, Connections)'
  BY <1>1, <1>2, LedgerCovers DEF AccountInv
<1>5. UNCHANGED <<stage, child, lines, summary>>
  BY HandlerKeeps DEF Effect, parent
<1>6. ASSUME PipeClosed, NEW l \in Ledgers, Covers(l, ToldSet) PROVE Covers(l, ToldSet)'
  <2>1. stage # "running"
    BY <1>6 DEF PipeClosed
  <2> QED BY <1>1, <1>2, <1>6, <2>1, ToldStays, CoverStays
<1>7. PipeClosed' = PipeClosed
  BY <1>5 DEF PipeClosed
<1>8. \A i \in DOMAIN lines :
        lines[i].kind = "summary" => PipeClosed' /\ Covers(lines[i].ledger, ToldSet)'
  <2> SUFFICES ASSUME NEW i \in DOMAIN lines, lines[i].kind = "summary"
               PROVE  PipeClosed' /\ Covers(lines[i].ledger, ToldSet)'
    OBVIOUS
  <2>1. PICK l : l = lines[i].ledger
    OBVIOUS
  <2>2. l \in Ledgers
    BY <1>1, <2>1 DEF TypeOK, Line
  <2>3. PipeClosed /\ Covers(l, ToldSet)
    BY <2>1 DEF AccountInv
  <2>4. Covers(l, ToldSet)'
    BY <1>6, <2>2, <2>3
  <2>5. l = lines'[i].ledger
    BY <1>5, <2>1
  <2> QED BY <1>5, <1>7, <2>1, <2>3, <2>4, <2>5 DEF Covers
<1>9. summary # None => PipeClosed' /\ Covers(summary, ToldSet)'
  <2> SUFFICES ASSUME summary # None PROVE PipeClosed' /\ Covers(summary, ToldSet)'
    OBVIOUS
  <2>1. PICK l : l = summary
    OBVIOUS
  <2>2. l \in Ledgers
    BY <1>1, <2>1 DEF TypeOK
  <2>3. PipeClosed /\ Covers(l, ToldSet)
    BY <2>1 DEF AccountInv
  <2>4. Covers(l, ToldSet)'
    BY <1>6, <2>2, <2>3
  <2> QED BY <1>5, <1>7, <2>1, <2>3, <2>4 DEF Covers
<1> QED BY <1>3, <1>4, <1>5, <1>7, <1>8, <1>9 DEF AccountInv, Covers

\* The summary is taken after the pipe is closed, and the ledger covers it then;
\* what was read stays what was written.
LEMMA OthersAccount ==
  ASSUME TypeOK, AccountInv, Others PROVE AccountInv'
<1>1. UNCHANGED <<h, ledger>>
  BY OthersLeaveHandlers
<1>2. ToldSet' = ToldSet /\ Tokens' = Tokens /\ Dollars' = Dollars
  BY <1>1 DEF ToldSet, Told, Tokens, Dollars
<1>3. ASSUME NEW l PROVE Covers(l, ToldSet)' <=> Covers(l, ToldSet)
  BY <1>2 DEF Covers
<1>4. (\A c \in Connections : Due(c))' /\ Covers(ledger, Connections)'
  BY <1>1, <1>2 DEF AccountInv, Due, Covers
<1>5. PipeClosed => PipeClosed'
  BY DEF PipeClosed, Others, Child, Serve, StopServing, Report, Exit, Die, Leaves, Parent, Bind,
     Spawn, Configure, Started, StartFails, AwaitSummary, Reap, Kill, Leave, EndPass, parent, server
<1>6. child' = "stopping" => PipeClosed'
  BY <1>5 DEF AccountInv, PipeClosed, Others, Child, Serve, StopServing, Report, Exit, Die, Leaves,
     Parent, Bind, Spawn, Configure, Started, StartFails, AwaitSummary, Reap, Kill, Leave, EndPass,
     parent, server
<1> DEFINE Good(line) == line.kind = "summary" => PipeClosed' /\ Covers(line.ledger, ToldSet)
<1>7. \A i \in DOMAIN lines : Good(lines[i])
  BY <1>5 DEF AccountInv
<1>8. Covers(ledger, ToldSet)
  <2>1. PICK f1, f2, S : f1 = Tokens /\ f2 = Dollars /\ S = ToldSet
    OBVIOUS
  <2>2. S \in SUBSET Connections /\ Connections \in SUBSET Connections
    BY <2>1 DEF ToldSet
  <2>3. \A d \in Connections : f1[d] \in Nat /\ f2[d] \in Nat
    BY <2>1, CostsType DEF TypeOK, Tokens, Dollars
  <2>4. Total(f1)[S] <= Total(f1)[Connections] /\ Total(f2)[S] <= Total(f2)[Connections]
    BY <2>2, <2>3, TotalsGrow
  <2>5. /\ Total(f1)[S] \in Nat /\ Total(f1)[Connections] \in Nat
        /\ Total(f2)[S] \in Nat /\ Total(f2)[Connections] \in Nat
        /\ ledger.tokens \in Nat /\ ledger.usd \in Nat
    BY <2>2, <2>3, Totals DEF TypeOK, Ledgers
  <2>6. ledger.tokens >= Total(f1)[Connections] /\ ledger.usd >= Total(f2)[Connections]
    BY <2>1 DEF AccountInv, Covers
  <2>7. ledger.tokens >= Total(f1)[S] /\ ledger.usd >= Total(f2)[S]
    BY <2>4, <2>5, <2>6
  <2> QED BY <2>1, <2>7 DEF Covers
<1>9. lines \in Seq(Line)
  BY DEF TypeOK
<1>10. \A i \in DOMAIN lines' : Good(lines'[i])
  <2>1. ASSUME NEW line, Good(line), lines' = Append(lines, line)
        PROVE  \A i \in DOMAIN lines' : Good(lines'[i])
    <3> HIDE DEF Good
    <3>1. \A i \in DOMAIN lines' : lines'[i] = line \/ (i \in DOMAIN lines /\ lines'[i] = lines[i])
      BY <1>9, <2>1
    <3> QED BY <1>7, <2>1, <3>1
  <2>2. ASSUME lines # <<>>, lines' = Tail(lines)
        PROVE  \A i \in DOMAIN lines' : Good(lines'[i])
    <3> HIDE DEF Good
    <3>1. \A i \in DOMAIN lines' : i + 1 \in DOMAIN lines /\ lines'[i] = lines[i + 1]
      BY <1>9, <2>2
    <3> QED BY <1>7, <3>1
  <2>3. CASE Report
    <3> DEFINE line == [kind |-> "summary", ledger |-> ledger]
    <3>1. PipeClosed' /\ lines' = Append(lines, line)
      BY <1>5, <2>3 DEF AccountInv, Report, Says
    <3>2. Good(line)
      BY <1>8, <3>1
    <3> HIDE DEF Good, line
    <3> QED BY <2>1, <3>1, <3>2
  <2>4. CASE Serve
    <3> DEFINE line == [kind |-> "port", ledger |-> None]
    <3>1. lines' = Append(lines, line) /\ Good(line)
      BY <2>4 DEF Serve, Says
    <3> HIDE DEF Good, line
    <3> QED BY <2>1, <3>1
  <2>5. CASE Exit \/ Die
    <3> DEFINE line == [kind |-> "eof", ledger |-> None]
    <3>1. lines' = Append(lines, line) /\ Good(line)
      BY <2>5 DEF Exit, Die, Leaves, Says
    <3> HIDE DEF Good, line
    <3> QED BY <2>1, <3>1
  <2>6. CASE lines' = lines
    <3> HIDE DEF Good
    <3> QED BY <1>7, <2>6
  <2>7. CASE Started \/ StartFails \/ AwaitSummary
    <3>1. lines' = lines \/ (lines # <<>> /\ lines' = Tail(lines))
      BY <2>7 DEF Started, StartFails, AwaitSummary
    <3> HIDE DEF Good
    <3> QED BY <2>2, <2>6, <3>1
  <2>8. CASE StopServing \/ Bind \/ Spawn \/ Configure \/ EndPass \/ Reap \/ Kill \/ Leave
    <3>1. lines' = lines
      BY <2>8 DEF StopServing, Bind, Spawn, Configure, EndPass, Reap, Kill, Leave, parent
    <3> HIDE DEF Good
    <3> QED BY <2>6, <3>1
  <2> HIDE DEF Good
  <2> QED BY <2>3, <2>4, <2>5, <2>7, <2>8 DEF Others, Child, Parent
<1>11. summary' # None => PipeClosed' /\ Covers(summary', ToldSet)
  <2>1. CASE summary' = summary
    BY <1>5, <2>1 DEF AccountInv
  <2>2. CASE AwaitSummary
    <3>1. \/ summary' = summary
          \/ lines # <<>> /\ Head(lines).kind = "summary" /\ summary' = Head(lines).ledger
      BY <2>2 DEF AwaitSummary
    <3>2. lines # <<>> => Good(Head(lines))
      <4>1. lines # <<>> => 1 \in DOMAIN lines /\ Head(lines) = lines[1]
        BY <1>9
      <4> HIDE DEF Good
      <4> QED BY <1>7, <4>1
    <3> QED BY <2>1, <3>1, <3>2
  <2>3. AwaitSummary \/ summary' = summary
    BY DEF Others, Child, Serve, StopServing, Report, Exit, Die, Leaves, Parent, Bind,
       Spawn, Configure, Started, StartFails, AwaitSummary, Reap, Kill, Leave, EndPass, parent, server
  <2> QED BY <2>1, <2>2, <2>3
<1>12. \A i \in DOMAIN lines' :
         lines'[i].kind = "summary" => PipeClosed' /\ Covers(lines'[i].ledger, ToldSet')
  BY <1>2, <1>10
<1> QED BY <1>2, <1>4, <1>6, <1>11, <1>12 DEF AccountInv, Covers

\* The account is kept in every reachable state.
LEMMA Accounted == Spec => [](IInv /\ AccountInv)
<1>1. Init => IInv /\ AccountInv
  BY InitIInv, InitAccount DEF IInv, BrokerInv
<1>2. ASSUME IInv /\ AccountInv, [Next]_vars PROVE (IInv /\ AccountInv)'
  <2>1. IInv'
    BY <1>2, NextKeeps
  <2>2. CASE \E c \in Connections : Accept(c) \/ Handle(c)
    BY <1>2, <2>1, <2>2, HandlersAccount
  <2>3. CASE Others
    BY <1>2, <2>1, <2>3, OthersAccount DEF IInv, BrokerInv
  <2>4. CASE UNCHANGED vars
    <3>1. ToldSet' = ToldSet /\ Tokens' = Tokens /\ Dollars' = Dollars
      BY <2>4 DEF vars, ToldSet, Told, Tokens, Dollars
    <3> QED BY <1>2, <2>1, <2>4, <3>1 DEF vars, AccountInv, Due, Covers, PipeClosed
  <2> QED BY <1>2, <2>1, <2>2, <2>3, <2>4 DEF Next, Others
<1> QED
  BY <1>1, <1>2, PTL DEF Spec

\* Whatever an accepted pass was told the end of is in its account, by the
\* tokens and by the money, for any number of connections (_relay, serve).
THEOREM AcceptedAccounts == Spec => []AcceptedIsAccounted
<1>1. ASSUME IInv, AccountInv PROVE AcceptedIsAccounted
  <2>1. ToldSet \in SUBSET Connections
    BY DEF ToldSet
  <2>2. ToldSet = {c \in Connections : h[c].told /\ h[c].event = "plain"}
    BY DEF ToldSet, Told
  <2>3. \A c \in ToldSet : h[c].charges > 0
    BY <1>1 DEF AccountInv, Due, ToldSet, Told
  <2>4. /\ MapThenSumSet(LAMBDA c : h[c].cost.tokens, ToldSet) = Total(Tokens)[ToldSet]
        /\ MapThenSumSet(LAMBDA c : h[c].cost.usd, ToldSet) = Total(Dollars)[ToldSet]
    BY <2>1, TokensSummed, DollarsSummed
  <2>5. summary # None => /\ summary.tokens >= Total(Tokens)[ToldSet]
                          /\ summary.usd >= Total(Dollars)[ToldSet]
    BY <1>1 DEF AccountInv, Covers
  <2> QED BY <2>2, <2>3, <2>4, <2>5 DEF AcceptedIsAccounted, Accepted
<1> QED
  BY <1>1, Accounted, PTL
=============================================================================
