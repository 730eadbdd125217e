------------------------------- MODULE MCFleet -------------------------------
(* Instances of Fleet for TLC. *)
EXTENDS Fleet, TLC

CONSTANTS r1, a1, m1, s1, k, tm1, ta1, tn1, eng

OneMeta == (r1 :> m1)
OneDetID == (r1 :> s1)
OneWorker == (a1 :> r1)
OneTeamMeta == (tm1 :> tn1)
OneTeamWorker == (ta1 :> tm1)
OneTeamRef == (r1 :> tm1)
OwnSlug == [n \in TeamNames |-> n]

OneManifest == {[r |-> r1, name |-> NoName, spec |-> [body |-> k, desc |-> Unset, icon |-> Unset]]}
OneTeamManifest ==
    {[r |-> tm1, name |-> NoName, spec |-> [name |-> eng, desc |-> Unset, max |-> Unset]]}
==============================================================================
