------------------------------ MODULE MCA2AAgent ------------------------------
(* Instances of A2AAgentController for TLC. *)
EXTENDS A2AAgentController, TLC

CONSTANTS r1, a1, m1, n1, k, tg, tn, s1

OneMeta == (r1 :> m1)
OneWorker == (a1 :> r1)

NoTags == {<<>>}
TwoOrders == {<<>>, <<tg, tn>>, <<tn, tg>>}

Basic == [type |-> "basic", refs |-> <<s1>>]
Headers == [type |-> "headers", refs |-> <<s1, s1>>]

Bare == [type |-> "headers", refs |-> <<>>]

JustNoAuth == {NoAuth}
BasicAndHeaders == {Basic, Headers, Bare}

Wants(tags, caps, auth) ==
    [r |-> r1, name |-> NoName,
     spec |-> [name |-> n1, body |-> k, desc |-> Unset, tags |-> tags, caps |-> caps,
               auth |-> auth]]

\* The CR that lists no headers asks for no tags and no document either.
Secured ==
    {Wants(<<tg, tn>>, EmptyMap, a) : a \in {Basic, Headers}} \cup {Wants(<<>>, Absent, Bare)}
NilOrEmpty == {Wants(<<>>, c, NoAuth) : c \in {Absent, EmptyMap}}

AllSpecs == A2AAgentParameters
==============================================================================
