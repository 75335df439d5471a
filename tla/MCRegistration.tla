--------------------------- MODULE MCRegistration ---------------------------
(***************************************************************************)
(* Values for the constants of Registration: two submissions that arrive   *)
(* in a fixed order, each either a first version or an update of one       *)
(* registered result.                                                      *)
(***************************************************************************)
EXTENDS Registration, TLC

CONSTANTS s1, s2, r1

FirstVersions == [s \in Submissions |-> None]
Updates == [s \in Submissions |-> r1]
Mixed == [s \in Submissions |-> IF s = s1 THEN None ELSE r1]
WorkerSymmetry == Permutations(Workers)
ArrivalOrder == [s \in Submissions |-> IF s = s1 THEN 1 ELSE 2]
=============================================================================
