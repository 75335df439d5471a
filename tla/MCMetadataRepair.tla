-------------------------- MODULE MCMetadataRepair --------------------------
(***************************************************************************)
(* Values for the constants of MetadataRepair, and the bound on overlap:   *)
(* one command is run by the schedule, another may be started beside it,   *)
(* and once two have been at work together only one submission has a       *)
(* request or an upgrade.  With no overlap both submissions may have them. *)
(***************************************************************************)
EXTENDS MetadataRepair

CONSTANTS scheduled, beside, disputed

Involved == {s \in Submissions : request[s] # None} \cup upgrading \cup guided
OverlapBound ==
    /\ overlap => Involved \subseteq {disputed}
    /\ w[beside].pc # "idle" => overlap

BoundedSpec == Init /\ [][Next /\ OverlapBound']_vars /\ Fairness
=============================================================================
