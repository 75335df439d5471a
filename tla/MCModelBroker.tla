--------------------------- MODULE MCModelBroker ---------------------------
(***************************************************************************)
(* Values for the constants of ModelBroker, each cost dear in one unit     *)
(* only, so that either ceiling can bind first; and the part of a pass in  *)
(* which the broker serves, for runs about the handlers alone.             *)
(***************************************************************************)
EXTENDS ModelBroker, TLC

Reported == {[tokens |-> 1, usd |-> 2]}
Standing == [tokens |-> 2, usd |-> 1]
ConnectionSymmetry == Permutations(Connections)

\* The state Init leads to when the start succeeds, and the handlers from there.
Serving ==
    /\ stage = "running" /\ failed = FALSE /\ held = TRUE
    /\ lines = <<>> /\ summary = None /\ exit = None
    /\ child = "serving" /\ status = None
    /\ permits = MaxConnections
    /\ ledger = [requests |-> 0, forwarded |-> 0, active |-> 0, tokens |-> 0, usd |-> 0,
                 unpriced |-> 0, refusals |-> 0]
    /\ h = [c \in Connections |-> Idle]
ServingSpec == Serving /\ [][\E c \in Connections : Accept(c) \/ Handle(c)]_vars
=============================================================================
