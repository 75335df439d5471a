--------------------------- MODULE PublicIdentity ---------------------------
(***************************************************************************)
(* What registration promises of a permanent identity, without saying how. *)
(*                                                                         *)
(* A submission reserves an identity in private, and may give it back.     *)
(* Once the identity is on record as public it is permanent: it is shown,  *)
(* for ever, and can only become registered.  While it is public and not   *)
(* registered, no other submission has a public identity in its scope (its *)
(* registration day, or the result it updates).  Registration implements   *)
(* this with an allocation lock and conditional writes to separate files.  *)
(***************************************************************************)
CONSTANTS Submissions, Identities, None, Scope(_)

VARIABLES
    reserved, \* the identity each submission has reserved, or None
    phase,    \* whether it is private, public or registered
    shown     \* what anyone can see

vars == <<reserved, phase, shown>>

Init ==
    /\ reserved = [s \in Submissions |-> None]
    /\ phase = [s \in Submissions |-> "private"]
    /\ shown = {}

Reserve(s) ==
    /\ reserved[s] = None
    /\ reserved' = [reserved EXCEPT ![s] = reserved'[s]]
    /\ reserved'[s] \in Identities
    /\ UNCHANGED <<phase, shown>>

GiveBack(s) ==
    /\ reserved[s] # None
    /\ phase[s] = "private"
    /\ reserved' = [reserved EXCEPT ![s] = None]
    /\ UNCHANGED <<phase, shown>>

Announce(s) ==
    /\ reserved[s] # None
    /\ phase[s] = "private"
    /\ \A t \in Submissions \ {s} :
         phase[t] = "public" => Scope(reserved[t]) # Scope(reserved[s])
    /\ phase' = [phase EXCEPT ![s] = "public"]
    /\ UNCHANGED <<reserved, shown>>

Show(s) ==
    /\ phase[s] # "private"
    /\ shown' = shown \cup {[sub |-> s, id |-> reserved[s]]}
    /\ UNCHANGED <<reserved, phase>>

Register(s) ==
    /\ phase[s] = "public"
    /\ phase' = [phase EXCEPT ![s] = "registered"]
    /\ UNCHANGED <<reserved, shown>>

Next == \E s \in Submissions :
    Reserve(s) \/ GiveBack(s) \/ Announce(s) \/ Show(s) \/ Register(s)

Spec == Init /\ [][Next]_vars
=============================================================================
