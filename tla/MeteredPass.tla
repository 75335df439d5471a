---------------------------- MODULE MeteredPass ----------------------------
(***************************************************************************)
(* What the broker promises of one ceiling of a pass, without saying how:  *)
(* requests are let in a few at a time and only while the amount spent is  *)
(* below the ceiling, each is charged at most once and at most Dearest,    *)
(* and some are never charged.  So the overshoot is what the requests let  *)
(* in before the ceiling was reached cost, and no more.  ModelBroker       *)
(* implements this twice: for tokens and for estimated spend.              *)
(***************************************************************************)
EXTENDS Naturals

CONSTANTS Ceiling, Slots, Dearest

VARIABLES
    spent, \* what has been charged
    open   \* the requests let in and neither charged nor given up

vars == <<spent, open>>

Init == spent = 0 /\ open = 0

LetIn ==
    /\ spent < Ceiling
    /\ open < Slots
    /\ open' = open + 1
    /\ UNCHANGED spent

Charge ==
    /\ open > 0
    /\ open' = open - 1
    /\ \E amount \in 0..Dearest : spent' = spent + amount

GiveUp ==
    /\ open > 0
    /\ open' = open - 1
    /\ UNCHANGED spent

Next == LetIn \/ Charge \/ GiveUp

Spec == Init /\ [][Next]_vars
=============================================================================
