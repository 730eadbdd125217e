---------------------------- MODULE MCVirtualServer ----------------------------
(* Instances of VirtualServerController for TLC. *)
EXTENDS VirtualServerController, TLC

CONSTANTS r1, a1, m1, s1, x, k, l

OneMeta == (r1 :> m1)
OneDetID == (r1 :> s1)
OneWorker == (a1 :> r1)

Spec0(b, d, i) == [body |-> b, desc |-> d, icon |-> i]
Manifest(s, n) == [r |-> r1, spec |-> s, name |-> n]

OneManifest == {Manifest(Spec0(k, Unset, Unset), NoName)}
TwoBodies == {Manifest(Spec0(b, Unset, Unset), NoName) : b \in {k, l}}
Imported == {Manifest(Spec0(k, Unset, Unset), x)}

AllSpecs == VirtualServerParameters
==============================================================================
