------------------------------- MODULE MCGateway -------------------------------
(* Instances of GatewayController for TLC. *)
EXTENDS GatewayController, TLC

CONSTANTS r1, a1, m1, n1, u1, u2, k, tg

OneMeta == (r1 :> m1)
OneWorker == (a1 :> r1)

Wants(n, u, tags) ==
    [r |-> r1, name |-> NoName,
     spec |-> [name |-> n, url |-> u, body |-> k, desc |-> Unset, tags |-> tags]]

\* The tags are cleared with the name, or set with it.
Renamed == {Wants(Unset, u1, tg), Wants(n1, u1, tg), Wants(n1, u1, NoTags)}
Moved == {Wants(Unset, u, tg) : u \in Urls}

AllSpecs == GatewayParameters
==============================================================================
