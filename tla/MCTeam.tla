-------------------------------- MODULE MCTeam --------------------------------
(* Instances of TeamController for TLC. *)
EXTENDS TeamController, TLC

CONSTANTS r1, r2, a1, b1, a2, m1, m2, t1, eng, small, large

MCMetaName == (r1 :> m1 @@ r2 :> m2)
OneMeta == (r1 :> m1)
OneWorker == (a1 :> r1)
TwoReplicas == (a1 :> r1 @@ b1 :> r1)
TwoCRs == (a1 :> r1 @@ a2 :> r2)

Named(max) == [name |-> eng, desc |-> Unset, max |-> max]
OwnSlug == [n \in TeamNames |-> n]

OneManifest == {[r |-> r1, spec |-> Named(Unset), name |-> NoName]}
\* r1 finds or makes its team, r2 imports one of the same name.
SharedName == {[r |-> r1, spec |-> Named(Unset), name |-> NoName],
               [r |-> r2, spec |-> Named(Unset), name |-> t1]}
SetMax == {[r |-> r1, spec |-> Named(m), name |-> NoName] : m \in {small, large}}
UnsetMax == {[r |-> r1, spec |-> Named(m), name |-> NoName] : m \in {small, Unset}}

AllSpecs == TeamParameters
==============================================================================
