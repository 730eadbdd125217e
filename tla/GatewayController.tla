--------------------------- MODULE GatewayController ---------------------------
(***************************************************************************)
(* The Gateway controller (internal/controller/gateway/gateway.go) and the *)
(* client calls it makes (internal/clients/contextforge/gateway.go).       *)
(*                                                                         *)
(* ContextForge gives a gateway its ID and keeps names unique. GET takes an*)
(* ID, a name or a slug, so a 409 is followed by a GET of the name, and the*)
(* external-name the runtime puts on a new CR, its metadata.name, is       *)
(* already looked up as a gateway's name. A slug stands for its name here. *)
(* Secrets are not state: one that cannot be read is a failure of the call.*)
(*                                                                         *)
(* A definition marked "Variant" is a wrong version of the one after it,   *)
(* which Spec does not use; the properties are known to refute it.         *)
(***************************************************************************)
EXTENDS ManagedReconciler

CONSTANTS
    TeamIDs,       \* IDs of teams
    GatewayNames,  \* names of gateways, metadata.names among them
    Bodies,        \* transport and visibility, taken as one value
    Urls,          \* URLs of upstream MCP servers
    Descs,         \* descriptions
    TagSets,       \* sets of tags
    NoText,        \* the empty description
    NoTags,        \* no tags
    Unset,         \* a nil pointer
    Foreign,       \* creator of the gateways no CR created
    Existing,      \* gateways there are at the start
    NamedWrites,   \* may PUT and DELETE take a name for an ID? {TRUE}, {FALSE} or both
    SlowServer     \* a create request may outlive the client's timeout

VARIABLES
    gateways,  \* gateways[i]: the gateway of ID i
    byName,    \* they do, at this ContextForge; never changes
    teamOf,    \* teamOf[r]: status.atProvider.id of the Team CR r refers to
    tid        \* tid[w]: the team ID worker w has looked up

gatewayVars == <<gateways, byName, teamOf, tid>>
vars == <<runtimeVars, gateways, byName, teamOf, tid>>

GatewayIDs == ExternalIDs

\* No ID: the Team CR does not exist, or its status has no ID yet.
NoTeam == NoName

-----------------------------------------------------------------------------
GatewayParameters ==
    [name: GatewayNames \cup {Unset}, url: Urls, body: Bodies,
     desc: Descs \cup {Unset}, tags: TagSets]

\* A gateway; by is a history variable.
Gateways ==
    [st: {"unused", "sent", "live", "gone"}, name: GatewayNames,
     team: TeamIDs \cup {NoTeam}, url: Urls, body: Bodies,
     desc: Descs \cup {NoText}, tags: TagSets, by: Resources \cup {Foreign}]

ASSUME GatewayAssumption ==
    /\ Specs = GatewayParameters
    /\ {MetaName[r] : r \in Resources} \subseteq GatewayNames
    /\ GatewayNames \cap (ExternalIDs \cup {NoName, Unset}) = {}
    /\ NoName \notin TeamIDs
    /\ NoTags \in TagSets
    /\ Foreign \notin Resources
    /\ Existing \subseteq GatewayIDs
    /\ \A m \in Manifests : m.name \in Existing \cup {NoName}
    /\ NamedWrites \subseteq BOOLEAN
    /\ SlowServer \in BOOLEAN

TypeOK ==
    /\ RuntimeTypeOK
    /\ gateways \in [GatewayIDs -> Gateways]
    /\ byName \in BOOLEAN
    /\ teamOf \in [Resources -> TeamIDs \cup {NoTeam}]
    /\ tid \in [Workers -> TeamIDs \cup {NoTeam}]

Blank == [st |-> "unused", name |-> CHOOSE n \in GatewayNames : TRUE, team |-> NoTeam,
          url |-> CHOOSE u \in Urls : TRUE, body |-> CHOOSE b \in Bodies : TRUE,
          desc |-> NoText, tags |-> NoTags, by |-> Foreign]

\* A gateway somebody else made.
Made(n, t) == [Blank EXCEPT !.st = "live", !.name = n, !.team = t]

LiveGateways == {i \in GatewayIDs : gateways[i].st = "live"}
Live(i) == i \in LiveGateways
NameTaken(n) == \E i \in LiveGateways : gateways[i].name = n

\* The gateways GET /v1/gateways/{n} may answer with.
Answering(n) == {i \in LiveGateways : i = n \/ gateways[i].name = n}

\* The ones PUT and DELETE of the same path act on.
Addressed(n) == IF byName THEN Answering(n) ELSE LiveGateways \cap {n}

Init ==
    /\ RuntimeInit
    /\ \E n \in [GatewayIDs -> GatewayNames], t \in TeamIDs :
          /\ \A i, j \in Existing : i # j => n[i] # n[j]
          /\ gateways = [i \in GatewayIDs |->
                           IF i \in Existing THEN Made(n[i], t) ELSE Blank]
    /\ byName \in NamedWrites
    /\ teamOf = [r \in Resources |-> NoTeam]
    /\ tid = [w \in Workers |-> NoTeam]

-----------------------------------------------------------------------------
(* Conversions and comparisons.                                            *)

resolvedName(r, s) == IF s.name # Unset THEN s.name ELSE MetaName[r]

\* A pointer field sent with omitempty: nil leaves the server's value.
Sent(v, old) == IF v = Unset THEN old ELSE v

\* Tags too are sent with omitempty: an empty list leaves the server's.
SentTags(v, old) == IF v = NoTags THEN old ELSE v

\* Variant: an absent description is sent as it is.
toGatewayCreateNil(r, s, t) ==
    [st |-> "live", name |-> resolvedName(r, s), team |-> t, url |-> s.url,
     body |-> s.body, desc |-> s.desc, tags |-> SentTags(s.tags, NoTags), by |-> r]

toGatewayCreate(r, s, t) ==
    [st |-> "live", name |-> resolvedName(r, s), team |-> t, url |-> s.url,
     body |-> s.body, desc |-> Sent(s.desc, NoText), tags |-> SentTags(s.tags, NoTags),
     by |-> r]

\* Variant: the tags are not sent again.
toGatewayUpdateNoTags(r, s, t, g) ==
    [g EXCEPT !.name = resolvedName(r, s), !.team = t, !.url = s.url, !.body = s.body,
              !.desc = Sent(s.desc, g.desc)]

toGatewayUpdate(r, s, t, g) ==
    [g EXCEPT !.name = resolvedName(r, s), !.team = t, !.url = s.url, !.body = s.body,
              !.desc = Sent(s.desc, g.desc), !.tags = SentTags(s.tags, g.tags)]

\* The URL and the credentials are not compared.
isUpToDate(r, s, t, g) ==
    /\ resolvedName(r, s) = g.name
    /\ t = g.team
    /\ s.desc # Unset => s.desc = g.desc
    /\ s.body = g.body
    /\ s.tags = g.tags

toObservation(c, i) == [c EXCEPT !.id = i]

-----------------------------------------------------------------------------
(* The external client.                                                    *)

\* Variant: every error of the GET is taken for a 404.
ObserveTrustsErrors(w) ==
    LET c == cr[w]
        t == teamOf[Target[w]]
    IN  /\ pc[w] = "observe"
        /\ \/ /\ (Answering(c.name) = {} /\ UNCHANGED budget) \/ Disrupt
              /\ Observed(w, c, FALSE, FALSE)
           \/ \E i \in Answering(c.name) :
                /\ Observed(w, toObservation(c, i), TRUE,
                            isUpToDate(Target[w], c.spec, t, gateways[i]))
                /\ UNCHANGED budget
        /\ UNCHANGED gatewayVars

\* Variant: a 404 makes the controller forget the external-name.
ObserveForgets(w) ==
    /\ pc[w] = "observe"
    /\ Answering(cr[w].name) = {}
    /\ Observed(w, [cr[w] EXCEPT !.name = NoName], FALSE, FALSE)
    /\ UNCHANGED <<budget, gatewayVars>>

\* Variant: the team of a CR being deleted is looked up too.
TeamAlwaysMissing(w) == teamOf[Target[w]] = NoTeam

TeamMissing(w) == cr[w].phase # "deleting" /\ teamOf[Target[w]] = NoTeam

\* Observe: GET the external-name, which may be a name. A CR being deleted is
\* answered before its team is looked up; for any other a missing team is an
\* error, reported with the status already filled in.
Observe(w) ==
    LET c == cr[w]
        r == Target[w]
    IN  /\ pc[w] = "observe"
        /\ \/ /\ Answering(c.name) = {}
              /\ Observed(w, c, FALSE, FALSE)
              /\ UNCHANGED budget
           \/ \E i \in Answering(c.name) :
                /\ IF TeamMissing(w)
                   THEN Report(w, toObservation(c, i))
                   ELSE Observed(w, toObservation(c, i), TRUE,
                                 isUpToDate(r, c.spec, teamOf[r], gateways[i]))
                /\ UNCHANGED budget
           \/ /\ Disrupt
              /\ Report(w, c)
        /\ UNCHANGED gatewayVars

\* Variant: a Team that has no ID yet is not an error.
ResolveUnready(w, next) ==
    /\ tid' = [tid EXCEPT ![w] = teamOf[Target[w]]]
    /\ Goto(w, next, cr[w])
    /\ UNCHANGED <<kubeVars, fresh, plan>>

\* The first calls of Create and of Update: the team and the secrets.
resolveTeamID(w, next) ==
    LET t == teamOf[Target[w]] IN
    /\ t # NoTeam
    /\ tid' = [tid EXCEPT ![w] = t]
    /\ Goto(w, next, cr[w])
    /\ UNCHANGED <<kubeVars, fresh, plan>>

ResolveFails(w) ==
    /\ (teamOf[Target[w]] = NoTeam /\ UNCHANGED budget) \/ Disrupt
    /\ UNCHANGED tid

CreateResolve(w) ==
    /\ pc[w] = "create"
    /\ \/ resolveTeamID(w, "post") /\ UNCHANGED budget
       \/ ResolveFails(w) /\ CreateFailed(w)
    /\ UNCHANGED <<gateways, teamOf>>

\* Create succeeds with the gateway the POST made, or the one a 409 pointed at.
Adopted(w, i) == Created(w, toObservation([cr[w] EXCEPT !.name = i], i))

\* ContextForge makes gateway i of CR copy c, in the given state. GatewayIDs is
\* a bound.
Makes(w, i, st) ==
    LET new == toGatewayCreate(Target[w], cr[w].spec, tid[w]) IN
    /\ gateways[i].st = "unused"
    /\ ~NameTaken(new.name)
    /\ gateways' = [gateways EXCEPT ![i] = [new EXCEPT !.st = st]]

\* Variant: a 409 is an error like any other.
PostOnce(w) ==
    /\ pc[w] = "post"
    /\ \/ \E i \in GatewayIDs :
            /\ Makes(w, i, "live")
            /\ (Adopted(w, i) /\ UNCHANGED budget) \/ (CreateFailed(w) /\ Disrupt)
       \/ /\ NameTaken(resolvedName(Target[w], cr[w].spec))
          /\ CreateFailed(w)
          /\ UNCHANGED <<budget, gateways>>
    /\ tid' = [tid EXCEPT ![w] = NoTeam]
    /\ UNCHANGED teamOf

Post(w) ==
    /\ pc[w] = "post"
    /\ \/ \E i \in GatewayIDs :
            /\ Makes(w, i, "live")
            /\ \/ Adopted(w, i) /\ UNCHANGED budget
               \/ CreateFailed(w) /\ Disrupt                \* the answer is lost
       \/ \E i \in GatewayIDs :                            \* the client gave up
            /\ SlowServer
            /\ Makes(w, i, "sent")
            /\ Disrupt
            /\ CreateFailed(w)
       \/ /\ NameTaken(resolvedName(Target[w], cr[w].spec)) \* 409
          /\ Goto(w, "adopt", cr[w])
          /\ UNCHANGED <<kubeVars, fresh, plan, budget, gateways>>
       \/ /\ Disrupt                                       \* refused or not sent
          /\ CreateFailed(w)
          /\ UNCHANGED gateways
    /\ tid' = [tid EXCEPT ![w] = NoTeam]
    /\ UNCHANGED teamOf

\* GET the name after a 409.
Adopt(w) ==
    LET found == Answering(resolvedName(Target[w], cr[w].spec)) IN
    /\ pc[w] = "adopt"
    /\ \/ \E i \in found : Adopted(w, i) /\ UNCHANGED budget
       \/ found = {} /\ CreateFailed(w) /\ UNCHANGED budget
       \/ Disrupt /\ CreateFailed(w)
    /\ UNCHANGED gatewayVars

UpdateResolve(w) ==
    /\ pc[w] = "update"
    /\ \/ resolveTeamID(w, "put") /\ UNCHANGED budget
       \/ ResolveFails(w) /\ Report(w, cr[w])
    /\ UNCHANGED <<gateways, teamOf>>

\* A PUT of new to gateway i would make two gateways of one name.
Clash(i, new) == \E j \in LiveGateways \ {i} : gateways[j].name = new.name

\* PUT to the external-name; a 404 and a refused name are errors.
Put(w) ==
    LET c == cr[w] IN
    /\ pc[w] = "put"
    /\ \/ \E i \in Addressed(c.name) :
            LET new == toGatewayUpdate(Target[w], c.spec, tid[w], gateways[i]) IN
            /\ ~Clash(i, new)
            /\ gateways' = [gateways EXCEPT ![i] = new]
            /\ \/ Report(w, toObservation(c, i)) /\ UNCHANGED budget
               \/ Report(w, c) /\ Disrupt                   \* the answer is lost
       \/ /\ \A i \in Addressed(c.name) :
               Clash(i, toGatewayUpdate(Target[w], c.spec, tid[w], gateways[i]))
          /\ Report(w, c)
          /\ UNCHANGED <<budget, gateways>>
       \/ /\ Disrupt
          /\ Report(w, c)
          /\ UNCHANGED gateways
    /\ tid' = [tid EXCEPT ![w] = NoTeam]
    /\ UNCHANGED teamOf

\* DELETE the external-name; a 404 counts as success.
Delete(w) ==
    LET c == cr[w] IN
    /\ pc[w] = "delete"
    /\ \/ /\ gateways' = [i \in GatewayIDs |->
               IF i \in Addressed(c.name) THEN [gateways[i] EXCEPT !.st = "gone"]
                                          ELSE gateways[i]]
          /\ UNCHANGED budget
       \/ Disrupt /\ UNCHANGED gateways
    /\ Report(w, c)
    /\ UNCHANGED <<teamOf, tid>>

-----------------------------------------------------------------------------
(* The Team CR's status, and everyone else at ContextForge.                *)

\* The Team CR is created, becomes ready, is rebound or goes away, or teamRef
\* is set to another one.
TeamStatus(r, t) ==
    /\ t # teamOf[r]
    /\ \/ teamOf[r] = NoTeam /\ UNCHANGED budget
       \/ Disrupt
    /\ teamOf' = [teamOf EXCEPT ![r] = t]
    /\ UNCHANGED <<kubeVars, loopVars, gateways, tid>>

Land(i) ==
    /\ gateways[i].st = "sent"
    /\ gateways' = [gateways EXCEPT ![i].st =
                      IF NameTaken(gateways[i].name) THEN "gone" ELSE "live"]
    /\ UNCHANGED <<runtimeVars, teamOf, tid>>

OutOfBand(i, new) ==
    /\ new # gateways[i]
    /\ Disrupt
    /\ gateways' = [gateways EXCEPT ![i] = new]
    /\ UNCHANGED <<kubeVars, loopVars, teamOf, tid>>

ForeignCreate(i, n, t) ==
    /\ gateways[i].st = "unused"
    /\ ~NameTaken(n)
    /\ OutOfBand(i, Made(n, t))

ForeignDelete(i) == Live(i) /\ OutOfBand(i, [gateways[i] EXCEPT !.st = "gone"])

ForeignEdit(i, n, t, g) ==
    /\ Live(i)
    /\ ~Clash(i, [name |-> n])
    /\ OutOfBand(i, [gateways[i] EXCEPT !.name = n, !.team = t, !.tags = g])

-----------------------------------------------------------------------------
Call(w) ==
    \/ Observe(w) \/ CreateResolve(w) \/ Post(w) \/ Adopt(w)
    \/ UpdateResolve(w) \/ Put(w) \/ Delete(w)

Controller(w) ==
    /\ Call(w) \/ (Loop(w) /\ UNCHANGED gatewayVars)
    /\ UNCHANGED byName

\* Every field of the spec may be edited, the name too.
Edit(r) == \E m \in Manifests : m.r = r /\ UserEdit(r, m.spec)

Humans ==
    /\ \/ \E m \in Manifests : UserCreate(m)
       \/ \E r \in Resources : UserDelete(r) \/ Edit(r) \/ OperatorClear(r)
    /\ UNCHANGED gatewayVars

Others ==
    /\ \/ \E r \in Resources, t \in TeamIDs \cup {NoTeam} : TeamStatus(r, t)
       \/ \E i \in GatewayIDs :
           \/ Land(i) \/ ForeignDelete(i)
           \/ \E n \in GatewayNames, t \in TeamIDs :
               \/ ForeignCreate(i, n, t)
               \/ \E g \in TagSets : ForeignEdit(i, n, t, g)
    /\ UNCHANGED byName

Faults ==
    /\ \/ \E S \in SUBSET Workers : Interrupt(S)
       \/ \E w \in Workers : CacheSync(w)
    /\ tid' = [w \in Workers |-> IF pc'[w] = "idle" THEN NoTeam ELSE tid[w]]
    /\ UNCHANGED <<gateways, byName, teamOf>>

Next == (\E w \in Workers : Controller(w)) \/ Humans \/ Others \/ Faults

Spec == Init /\ [][Next]_vars

\* The work queue keeps handing out CRs and the informer keeps delivering;
\* nobody has to act and nothing has to fail.
Fairness == \A w \in Workers :
    /\ WF_vars(Controller(w))
    /\ WF_vars(CacheSync(w) /\ UNCHANGED gatewayVars)

FairSpec == Spec /\ Fairness

-----------------------------------------------------------------------------
(* What must hold.                                                         *)

\* No gateway is asked for on behalf of a CR whose stored external-name is the
\* ID of a gateway that exists, whatever was renamed, crashed or read from an old
\* copy in between: Create is reached only after a 404 for that ID
\* (gateway.go:288-291).
BoundMakesNone ==
    [][\A w \in Workers : Post(w) => \A i \in GatewayIDs :
          gateways'[i] # gateways[i] => ~Live(obj[Target[w]].name)]_vars

\* No gateway is ever without a team, though the Team CR can vanish, or lose its
\* ID, between the look-up and the POST or PUT (gateway.go:67-81, 317-327).
GatewaysHaveTeams == \A i \in LiveGateways : gateways[i].team \in TeamIDs

\* When a CR bound to the ID of a gateway loses its finalizer, that gateway is
\* gone (Observe and Delete, gateway.go:288-291, 364-375).
FinalizedMeansGone ==
    [][\A r \in Resources : LosesFinalizer(r) => ~Live(obj[r].name)]_vars

\* GET of CR r's external-name finds a gateway, PUT and DELETE of it do not: the
\* name is no ID, and ContextForge takes only IDs there. The PUT fails, the 404
\* of the DELETE is swallowed (clients/contextforge/gateway.go:81-86).
Unaddressed(r) == Answering(obj[r].name) # {} /\ Addressed(obj[r].name) = {}

\* A CR being deleted is finally gone, with or without its Team CR: Observe
\* answers before it looks the team up (gateway.go:299-301). The exceptions are
\* an unrecorded creation and a name that DELETE does not take.
DeletionCompletes ==
    \A r \in Resources : obj[r].phase = "deleting" ~>
        obj[r].phase = "absent" \/ Frozen(r) \/ Unaddressed(r)

Synced(r) ==
    /\ obj[r].phase = "live"
    /\ \E i \in Answering(obj[r].name) :
          /\ obj[r].id = i
          /\ isUpToDate(r, obj[r].spec, teamOf[r], gateways[i])

\* Another gateway has the name CR r asks for, so no PUT can give it to r's.
Blocked(r) ==
    \E i \in Answering(obj[r].name) : Clash(i, [name |-> resolvedName(r, obj[r].spec)])

\* CR r has its gateway, with all of what a request can carry: no tags are not
\* sent, so the gateway may have some where the CR wants none.
Served(r) ==
    /\ obj[r].phase = "live"
    /\ \E i \in Answering(obj[r].name) :
          /\ obj[r].id = i
          /\ isUpToDate(r, obj[r].spec, teamOf[r],
                        IF obj[r].spec.tags = NoTags THEN [gateways[i] EXCEPT !.tags = NoTags]
                                                     ELSE gateways[i])

\* When disruptions end, every CR is deleted, frozen by an unrecorded creation,
\* waiting for its Team, refused its name, going by one that PUT does not take,
\* or has its gateway for good, in sync but for tags it wants cleared: a lost POST
\* answer ends in adoption by name (gateway.go:328-330), and, where PUT takes
\* names, a gateway found under metadata.name becomes the CR's.
Settles ==
    \A r \in Resources : <>[]
        \/ obj[r].phase = "absent"
        \/ Frozen(r)
        \/ obj[r].phase = "live" /\ teamOf[r] = NoTeam
        \/ Blocked(r)
        \/ Unaddressed(r)
        \/ Served(r)

\* What Observe calls up to date is the state the CR asks for: the gateway has
\* the URL of the spec (gateway.go:273-274).
UrlFollows ==
    \A r \in Resources : <>[](Synced(r) =>
        \A i \in Answering(obj[r].name) : gateways[i].url = obj[r].spec.url)
==============================================================================
