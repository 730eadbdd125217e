--------------------------- MODULE MCProviderConfig ---------------------------
(* Instances of ProviderConfigUse for TLC. *)
EXTENDS ProviderConfigUse, TLC

CONSTANTS r1, a1, m1, p

OneMeta == (r1 :> m1)
OneWorker == (a1 :> r1)

OneConfig == {[r |-> r1, name |-> NoName, spec |-> p]}
==============================================================================
