----------------------------- MODULE MCOpenQueue -----------------------------
(***************************************************************************)
(* Values for OpenQueue: the commands of the schedule run one at a time,   *)
(* the weekly sweep and an operator beside them.  One submission may fail, *)
(* the other be paused, requeued, withdrawn, registered and starred.       *)
(***************************************************************************)
EXTENDS OpenQueue, TLC

CONSTANTS schedule, beside, failing, pausing

JobsByThread == schedule :> {"ingest", "notify"} @@ beside :> {"sweep", "requeue"}
TurnsOfEach == failing :> {"reporting"} @@ pausing :> {"paused", "stopped", "registered", "ended"}

\* A state Init leads to: the second is admitted, and listed in an index that is not due.
Listed ==
    /\ record = [s \in Submissions |->
         [status |-> IF s = pausing THEN "working" ELSE "absent", alert |-> "none"]]
    /\ index = [open |-> {pausing}, due |-> FALSE]
    /\ w = [q \in Workers |-> Idle]
    /\ admitting = {}
    /\ messages = [s \in Submissions |-> 0]
    /\ faults = 0
    /\ slipped = {}
ListedSpec == Listed /\ [][Next]_vars
=============================================================================
