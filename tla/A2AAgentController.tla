-------------------------- MODULE A2AAgentController --------------------------
(***************************************************************************)
(* The A2AAgent controller (internal/controller/a2aagent/a2aagent.go), the *)
(* credentials it resolves (AuthResolve), the list comparison it uses      *)
(* (internal/controller/sliceutil) and its client calls                    *)
(* (internal/clients/contextforge/a2aagent.go).                            *)
(*                                                                         *)
(* ContextForge gives an agent its ID and keeps names unique. GET takes an *)
(* ID, a name or a slug; the client says "id" of what PUT and DELETE take,  *)
(* and whether a name does there too is a parameter. What a request omits  *)
(* keeps its value at the server, and a list comes back in any order. An   *)
(* answer may have an empty body, which the client decodes to an agent     *)
(* without ID or name (server.go:109-117).                                 *)
(* The endpoint URL, sent and not compared, is left out.                   *)
(*                                                                         *)
(* A definition marked "Variant" is a wrong version of the one after it,   *)
(* which Spec does not use; the properties are known to refute it.         *)
(***************************************************************************)
EXTENDS ManagedReconciler, AuthResolve

CONSTANTS
    TeamIDs,      \* IDs of teams
    AgentNames,   \* names of agents, metadata.names among them
    Bodies,       \* values of visibility
    Descs,        \* descriptions, agent types and protocol versions
    TagLists,     \* lists of tags and of passthrough headers
    Documents,    \* JSON objects with members: capabilities, configurations
    Absent,       \* no document in the CR
    NoObject,     \* a document in the CR that is no JSON object
    NilMap,       \* a nil map, or null
    EmptyMap,     \* a map, or JSON object, without members
    DefaultMap,   \* what ContextForge shows for a document it was not given
    Auths,        \* auth blocks
    Existing,     \* agents there are at the start
    NamedWrites,  \* may PUT and DELETE take a name for an ID? {TRUE}, {FALSE} or both
    SlowServer    \* a create request may outlive the client's timeout

VARIABLES
    agents,    \* agents[i]: the agent of ID i
    byName,    \* they do, at this ContextForge; never changes
    teamOf,    \* teamOf[r]: status.atProvider.id of the Team CR r refers to
    secrets,   \* secrets[s]: the content of Secret s
    tid,       \* tid[w]: the team ID worker w has looked up
    read       \* read[w]: the contents of the Secrets w has read so far

agentVars == <<agents, byName, teamOf, secrets, tid, read>>
vars == <<runtimeVars, agents, byName, teamOf, secrets, tid, read>>

AgentIDs == ExternalIDs

\* No ID: the Team CR does not exist, or its status has no ID yet.
NoTeam == NoName

-----------------------------------------------------------------------------
A2AAgentParameters ==
    [name: AgentNames \cup {Unset}, body: Bodies, desc: Descs \cup {Unset},
     tags: TagLists, caps: Documents \cup {Absent, NoObject, EmptyMap}, auth: Auths]

\* An agent. bare is a history variable: the last auth block sent to it was a
\* list of no headers.
Agents ==
    [st: {"unused", "sent", "live", "gone"}, name: AgentNames,
     team: TeamIDs \cup {NoTeam}, body: Bodies, desc: Descs \cup {Unset}, tags: TagLists,
     caps: Documents \cup {NilMap, EmptyMap}, auth: Credentials,
     bare: BOOLEAN]

ASSUME A2AAgentAssumption ==
    /\ Specs = A2AAgentParameters
    /\ {MetaName[r] : r \in Resources} \subseteq AgentNames
    /\ AgentNames # {}
    /\ Existing \subseteq ExternalIDs
    /\ \A m \in Manifests : m.name \in Existing \cup {NoName}
    /\ AgentNames \cap (ExternalIDs \cup {NoName, Unset}) = {}
    /\ NoName \notin TeamIDs
    /\ <<>> \in TagLists
    /\ DefaultMap \in {NilMap, EmptyMap}
    /\ \A a \in Auths : a = NoAuth \/ WellFormed(a)
    /\ NamedWrites \subseteq BOOLEAN
    /\ SlowServer \in BOOLEAN

TypeOK ==
    /\ RuntimeTypeOK
    /\ agents \in [AgentIDs -> Agents]
    /\ byName \in BOOLEAN
    /\ teamOf \in [Resources -> TeamIDs \cup {NoTeam}]
    /\ secrets \in [Secrets -> Versions \cup {Missing}]
    /\ tid \in [Workers -> TeamIDs \cup {NoTeam}]
    /\ read \in [Workers -> Seq(Versions)]

\* An agent as it is before a request fills it in.
Blank == [st |-> "unused", name |-> CHOOSE n \in AgentNames : TRUE, team |-> NoTeam,
          body |-> CHOOSE b \in Bodies : TRUE, desc |-> Unset, tags |-> <<>>,
          caps |-> DefaultMap, auth |-> NoCredentials, bare |-> FALSE]

\* An agent somebody else made.
Made(n, t) == [Blank EXCEPT !.st = "live", !.name = n, !.team = t]

\* No agent has this ID any more, nor ever will.
Gone == [Blank EXCEPT !.st = "gone"]

Live(i) == i \in AgentIDs /\ agents[i].st = "live"
LiveAgents == {i \in AgentIDs : Live(i)}
NameTaken(n) == \E i \in LiveAgents : agents[i].name = n

\* The agents GET /v1/a2aagents/{n} may answer with.
Answering(n) == {i \in LiveAgents : i = n \/ agents[i].name = n}

\* The ones PUT and DELETE of the same path act on.
Addressed(n) == IF byName THEN Answering(n) ELSE LiveAgents \cap {n}

Init ==
    /\ RuntimeInit
    /\ \E n \in [AgentIDs -> AgentNames], t \in TeamIDs :
          /\ \A i, j \in Existing : i # j => n[i] # n[j]
          /\ agents = [i \in AgentIDs |-> IF i \in Existing THEN Made(n[i], t) ELSE Blank]
    /\ byName \in NamedWrites
    /\ teamOf = [r \in Resources |-> NoTeam]
    /\ secrets = [s \in Secrets |-> CHOOSE v \in Versions : TRUE]
    /\ tid = [w \in Workers |-> NoTeam]
    /\ read = [w \in Workers |-> <<>>]

-----------------------------------------------------------------------------
(* Conversions and comparisons.                                            *)

resolvedName(r, s) == IF s.name # Unset THEN s.name ELSE MetaName[r]

\* nil for a document that is absent or no object.
fromRawExtension(j) == IF j \in {Absent, NoObject} THEN NilMap ELSE j

\* The marshaled forms are compared, and null is not {}.
jsonMapsEqual(a, b) == a = b

Times(x, l) == Cardinality({k \in DOMAIN l : l[k] = x})

\* Variant: the order counts.
EqualOrdered(a, b) == a = b

EqualUnordered(a, b) ==
    /\ Len(a) = Len(b)
    /\ \A k \in DOMAIN a : Times(a[k], a) = Times(a[k], b)

\* omitempty: a nil pointer, an empty list and an empty map are not sent.
Sent(v, old) == IF v \in {Unset, <<>>, NilMap, EmptyMap} THEN old ELSE v

\* What PUT makes of agent a, for CR r with spec s, team t and credentials c.
toA2AAgentUpdate(r, s, t, c, a) ==
    [a EXCEPT !.name = resolvedName(r, s), !.team = t, !.body = s.body,
              !.desc = Sent(s.desc, a.desc), !.tags = Sent(s.tags, a.tags),
              !.caps = Sent(fromRawExtension(s.caps), a.caps),
              !.auth = SentAuth(c, a.auth),
              !.bare = IF c.AuthType = Unset THEN @ ELSE HeadersMissing(c)]

\* POST sends the same fields.
toA2AAgentCreate(r, s, t, c) ==
    [toA2AAgentUpdate(r, s, t, c, Blank) EXCEPT !.st = "live"]

scalarFieldsUpToDate(r, s, t, a) ==
    /\ resolvedName(r, s) = a.name
    /\ t = a.team
    /\ s.desc # Unset => s.desc = a.desc
    /\ s.body = a.body

listFieldsUpToDate(s, a) ==
    /\ EqualUnordered(s.tags, a.tags)
    /\ jsonMapsEqual(fromRawExtension(s.caps), a.caps)

\* The credentials are not compared.
isUpToDate(r, s, t, a) == scalarFieldsUpToDate(r, s, t, a) /\ listFieldsUpToDate(s, a)

\* i is an ID, or NoName after an empty answer.
toObservation(c, i) == [c EXCEPT !.id = i]

-----------------------------------------------------------------------------
(* The external client.                                                    *)

\* Worker w's look-ups are used up, or thrown away.
Forget(w) ==
    /\ tid' = [tid EXCEPT ![w] = NoTeam]
    /\ read' = [read EXCEPT ![w] = <<>>]

\* Variant: the team of a CR being deleted is looked up too.
TeamAlwaysMissing(w) == teamOf[Target[w]] = NoTeam

TeamMissing(w) == cr[w].phase # "deleting" /\ teamOf[Target[w]] = NoTeam

\* What Observe makes of an agent, found under ID i: a CR being deleted is
\* answered before its team is looked up; for any other a missing team is an
\* error, reported with the status already filled in.
Found(w, i, upToDate) ==
    IF TeamMissing(w)
    THEN Report(w, toObservation(cr[w], i))
    ELSE Observed(w, toObservation(cr[w], i), TRUE, upToDate)

\* Variant: every error of the GET is taken for a 404.
ObserveTrustsErrors(w) ==
    LET c == cr[w] IN
    /\ pc[w] = "observe"
    /\ \/ /\ (Answering(c.name) = {} /\ UNCHANGED budget) \/ Disrupt
          /\ Observed(w, c, FALSE, FALSE)
       \/ \E i \in Answering(c.name) :
            /\ Found(w, i, isUpToDate(Target[w], c.spec, teamOf[Target[w]], agents[i]))
            /\ UNCHANGED budget
    /\ UNCHANGED agentVars

\* Variant: a 404 makes the controller forget the external-name.
ObserveForgets(w) ==
    /\ pc[w] = "observe"
    /\ Answering(cr[w].name) = {}
    /\ Observed(w, [cr[w] EXCEPT !.name = NoName], FALSE, FALSE)
    /\ UNCHANGED <<budget, agentVars>>

\* Observe: GET the external-name, which may be a name.
Observe(w) ==
    LET c == cr[w]
        r == Target[w]
    IN  /\ pc[w] = "observe"
        /\ \/ /\ c.name = NoName \/ Answering(c.name) = {}
              /\ Observed(w, c, FALSE, FALSE)
              /\ UNCHANGED budget
           \/ \E i \in Answering(c.name) :
                /\ Found(w, i, isUpToDate(r, c.spec, teamOf[r], agents[i]))
                /\ UNCHANGED budget
           \/ /\ Answering(c.name) # {}                     \* an empty answer
              /\ Found(w, NoName, FALSE)
              /\ Disrupt
           \/ Report(w, c) /\ Disrupt                       \* an error
        /\ UNCHANGED agentVars

Refs(w) == cr[w].spec.auth.refs

\* The next Secret to read.
NextRef(w) == Refs(w)[Len(read[w]) + 1]

\* Variant: nobody asks.
TeamAssumed(w) == TRUE

TeamKnown(w) == tid[w] # NoTeam

\* Team and Secrets are read: the request can be sent.
Ready(w) == TeamKnown(w) /\ Len(read[w]) = Len(Refs(w))

\* Variant: a Secret that cannot be read is skipped.
SkipSecret(w) ==
    /\ TeamKnown(w) /\ ~Ready(w)
    /\ read' = [read EXCEPT ![w] =
                  Append(@, IF secrets[NextRef(w)] = Missing THEN Unset
                            ELSE secrets[NextRef(w)])]
    /\ UNCHANGED <<runtimeVars, agents, teamOf, secrets, tid>>

\* getKey, or the read of resolveBasicAuth.
ReadSecret(w) ==
    /\ TeamKnown(w) /\ ~Ready(w)
    /\ secrets[NextRef(w)] # Missing
    /\ read' = [read EXCEPT ![w] = Append(@, secrets[NextRef(w)])]
    /\ UNCHANGED <<runtimeVars, agents, teamOf, secrets, tid>>

\* teamresolve.Resolve.
resolveTeam(w) ==
    /\ ~TeamKnown(w)
    /\ teamOf[Target[w]] # NoTeam
    /\ tid' = [tid EXCEPT ![w] = teamOf[Target[w]]]
    /\ UNCHANGED <<runtimeVars, agents, teamOf, secrets, read>>

\* The first calls of Create and of Update.
Resolve(w) == pc[w] \in {"create", "update"} /\ (resolveTeam(w) \/ ReadSecret(w))

\* One of them fails: no request is sent.
ResolveFails(w) ==
    /\ pc[w] \in {"create", "update"}
    /\ ~Ready(w)
    /\ \/ ~TeamKnown(w) /\ teamOf[Target[w]] = NoTeam /\ UNCHANGED budget
       \/ TeamKnown(w) /\ secrets[NextRef(w)] = Missing /\ UNCHANGED budget
       \/ Disrupt
    /\ IF pc[w] = "create" THEN CreateFailed(w) ELSE Report(w, cr[w])
    /\ Forget(w)
    /\ UNCHANGED <<agents, teamOf, secrets>>

\* Create succeeds with the agent the POST made, or the one a 409 pointed at;
\* i is its ID, or NoName after an empty answer.
Adopted(w, i) == Created(w, toObservation([cr[w] EXCEPT !.name = i], i))

\* The agents the server may show for one it was sent: lists in any order.
Arrangements(a) ==
    {[a EXCEPT !.tags = l] : l \in
        {k \in TagLists : /\ Len(k) = Len(a.tags)
                          /\ \A j \in DOMAIN k : Times(k[j], k) = Times(k[j], a.tags)}}

authConf(w) == AuthResult(cr[w].spec.auth, read[w])

\* ContextForge makes agent i of CR copy c, in the given state. AgentIDs is a
\* bound.
Makes(w, i, st) ==
    LET new == toA2AAgentCreate(Target[w], cr[w].spec, tid[w], authConf(w)) IN
    /\ agents[i].st = "unused"
    /\ ~NameTaken(new.name)
    /\ \E a \in Arrangements(new) : agents' = [agents EXCEPT ![i] = [a EXCEPT !.st = st]]

Post(w) ==
    /\ pc[w] = "create" /\ Ready(w)
    /\ \/ \E i \in AgentIDs :
            /\ Makes(w, i, "live")
            /\ \/ Adopted(w, i) /\ UNCHANGED budget
               \/ Adopted(w, NoName) /\ Disrupt             \* an empty answer
               \/ CreateFailed(w) /\ Disrupt                \* the answer is lost
       \/ \E i \in AgentIDs :                              \* the client gave up
            /\ SlowServer
            /\ Makes(w, i, "sent")
            /\ CreateFailed(w) /\ Disrupt
       \/ /\ NameTaken(resolvedName(Target[w], cr[w].spec)) \* 409
          /\ Goto(w, "adopt", cr[w])
          /\ UNCHANGED <<kubeVars, fresh, plan, budget, agents>>
       \/ /\ CreateFailed(w) /\ Disrupt                    \* refused or not sent
          /\ UNCHANGED agents
    /\ Forget(w)
    /\ UNCHANGED <<teamOf, secrets>>

\* GET the name after a 409.
Adopt(w) ==
    LET found == Answering(resolvedName(Target[w], cr[w].spec)) IN
    /\ pc[w] = "adopt"
    /\ \/ \E i \in found : Adopted(w, i) /\ UNCHANGED budget
       \/ found # {} /\ Adopted(w, NoName) /\ Disrupt       \* an empty answer
       \/ found = {} /\ CreateFailed(w) /\ UNCHANGED budget
       \/ CreateFailed(w) /\ Disrupt
    /\ UNCHANGED agentVars

\* Another agent has the name a PUT would give to agent i.
Clash(i, n) == \E j \in LiveAgents \ {i} : agents[j].name = n

\* PUT to the external-name; a 404 and a refused name are errors.
Put(w) ==
    LET c == cr[w]
        r == Target[w]
        targets == {i \in Addressed(c.name) : ~Clash(i, resolvedName(r, c.spec))}
    IN  /\ pc[w] = "update" /\ Ready(w)
        /\ \/ \E i \in targets :
                /\ \E a \in Arrangements(toA2AAgentUpdate(r, c.spec, tid[w], authConf(w),
                                                          agents[i])) :
                      agents' = [agents EXCEPT ![i] = a]
                /\ \/ Report(w, toObservation(c, i)) /\ UNCHANGED budget
                   \/ Report(w, toObservation(c, NoName)) /\ Disrupt  \* an empty answer
                   \/ Report(w, c) /\ Disrupt                         \* the answer is lost
           \/ targets = {} /\ Report(w, c) /\ UNCHANGED <<budget, agents>>
           \/ Report(w, c) /\ Disrupt /\ UNCHANGED agents
        /\ Forget(w)
        /\ UNCHANGED <<teamOf, secrets>>

\* DELETE the external-name; a 404 counts as success.
Delete(w) ==
    /\ pc[w] = "delete"
    /\ \/ /\ agents' = [i \in AgentIDs |->
               IF i \in Addressed(cr[w].name) THEN Gone ELSE agents[i]]
          /\ UNCHANGED budget
       \/ Disrupt /\ UNCHANGED agents
    /\ Report(w, cr[w])
    /\ UNCHANGED <<teamOf, secrets, tid, read>>

-----------------------------------------------------------------------------
(* The Team CR's status, the Secrets, and everyone else at ContextForge.   *)

\* The Team CR is created, becomes ready, is rebound or goes away.
TeamStatus(r, t) ==
    /\ t # teamOf[r]
    /\ (teamOf[r] = NoTeam /\ UNCHANGED budget) \/ Disrupt
    /\ teamOf' = [teamOf EXCEPT ![r] = t]
    /\ UNCHANGED <<kubeVars, loopVars, agents, secrets, tid, read>>

\* A Secret is rotated, deleted, or made again.
Rotate(s, v) ==
    /\ v # secrets[s]
    /\ (secrets[s] = Missing /\ UNCHANGED budget) \/ Disrupt
    /\ secrets' = [secrets EXCEPT ![s] = v]
    /\ UNCHANGED <<kubeVars, loopVars, agents, teamOf, tid, read>>

Land(i) ==
    /\ agents[i].st = "sent"
    /\ agents' = [agents EXCEPT ![i] =
                    IF NameTaken(@.name) THEN Gone ELSE [@ EXCEPT !.st = "live"]]
    /\ UNCHANGED <<runtimeVars, teamOf, secrets, tid, read>>

OutOfBand(i, new) ==
    /\ new # agents[i]
    /\ Disrupt
    /\ agents' = [agents EXCEPT ![i] = new]
    /\ UNCHANGED <<kubeVars, loopVars, teamOf, secrets, tid, read>>

ForeignCreate(i, n, t) ==
    /\ agents[i].st = "unused"
    /\ ~NameTaken(n)
    /\ OutOfBand(i, Made(n, t))

ForeignDelete(i) == Live(i) /\ OutOfBand(i, Gone)

ForeignEdit(i, n, l, d) ==
    /\ Live(i)
    /\ ~Clash(i, n)
    /\ OutOfBand(i, [agents[i] EXCEPT !.name = n, !.tags = l, !.caps = d])

-----------------------------------------------------------------------------
Call(w) ==
    \/ Observe(w) \/ Resolve(w) \/ ResolveFails(w) \/ Post(w) \/ Adopt(w)
    \/ Put(w) \/ Delete(w)

Controller(w) ==
    /\ Call(w) \/ (Loop(w) /\ UNCHANGED agentVars)
    /\ UNCHANGED byName

\* Every field of the spec may be edited, the name too.
Edit(r) == \E m \in Manifests : m.r = r /\ UserEdit(r, m.spec)

Humans ==
    /\ \/ \E m \in Manifests : UserCreate(m)
       \/ \E r \in Resources : UserDelete(r) \/ Edit(r) \/ OperatorClear(r)
    /\ UNCHANGED agentVars

Others ==
    /\ \/ \E r \in Resources, t \in TeamIDs \cup {NoTeam} : TeamStatus(r, t)
       \/ \E s \in Secrets, v \in Versions \cup {Missing} : Rotate(s, v)
       \/ \E i \in AgentIDs :
           \/ Land(i) \/ ForeignDelete(i)
           \/ \E n \in AgentNames :
               \/ \E t \in TeamIDs : ForeignCreate(i, n, t)
               \/ \E l \in TagLists, d \in Documents \cup {DefaultMap} :
                     ForeignEdit(i, n, l, d)
    /\ UNCHANGED byName

Faults ==
    /\ \/ \E S \in SUBSET Workers : Interrupt(S)
       \/ \E w \in Workers : CacheSync(w)
    /\ tid' = [w \in Workers |-> IF pc'[w] = "idle" THEN NoTeam ELSE tid[w]]
    /\ read' = [w \in Workers |-> IF pc'[w] = "idle" THEN <<>> ELSE read[w]]
    /\ UNCHANGED <<agents, byName, teamOf, secrets>>

Next == (\E w \in Workers : Controller(w)) \/ Humans \/ Others \/ Faults

Spec == Init /\ [][Next]_vars

\* The work queue keeps handing out CRs and the informer keeps delivering;
\* nobody has to act and nothing has to fail.
Fairness == \A w \in Workers :
    /\ WF_vars(Controller(w))
    /\ WF_vars(CacheSync(w) /\ UNCHANGED agentVars)

FairSpec == Spec /\ Fairness

-----------------------------------------------------------------------------
(* What must hold.                                                         *)

\* What auth type c.AuthType needs, but for headers if none were asked for.
Whole(c, bare) ==
    /\ c.Username = c.Password
    /\ \A f \in Carried(c.AuthType) : c[f] # Unset \/ (f = "Headers" /\ bare)

\* An agent never has half of what its auth type needs, nor a username of one
\* version of a Secret with a password of another: the Secrets are read one by
\* one, may be rotated or deleted in between, and a failed read sends nothing
\* (authresolve.go:61-121). An agent has the type headers and no headers only
\* if the last auth block a request carried lists none (auth_types.go:33-35).
CredentialsMatchType == \A i \in LiveAgents : Whole(agents[i].auth, agents[i].bare)

\* No agent is made or updated without a team ID, though the Team CR can vanish
\* between the look-up and the request (a2aagent.go:381-391, 408-418).
AgentsHaveTeams == \A i \in LiveAgents : agents[i].team \in TeamIDs

\* When a CR bound to the ID of an agent loses its finalizer, that agent is
\* gone (Observe and Delete, a2aagent.go:345-348, 428-437).
FinalizedMeansGone ==
    [][\A r \in Resources : LosesFinalizer(r) => ~Live(obj[r].name)]_vars

\* GET of CR r's external-name finds an agent, PUT and DELETE of it do not: the
\* name is no ID, and ContextForge takes only IDs there. The PUT fails, the 404
\* of the DELETE is swallowed (clients/contextforge/a2aagent.go:83-88).
Unaddressed(r) == Answering(obj[r].name) # {} /\ Addressed(obj[r].name) = {}

\* A CR being deleted is finally gone, with or without its Team CR and its
\* Secrets: neither is looked up on the way (a2aagent.go:356-358, 428-437). The
\* exceptions are an unrecorded creation and a name that DELETE does not take.
DeletionCompletes ==
    \A r \in Resources : obj[r].phase = "deleting" ~>
        obj[r].phase = "absent" \/ Frozen(r) \/ Unaddressed(r)

Synced(r) ==
    /\ obj[r].phase = "live"
    /\ \E i \in Answering(obj[r].name) :
          /\ obj[r].id = i
          /\ isUpToDate(r, obj[r].spec, teamOf[r], agents[i])

\* What CR r waits for from others: its Team, its Secrets, its name.
Waits(r) ==
    /\ obj[r].phase = "live"
    /\ \/ teamOf[r] = NoTeam
       \/ \E k \in DOMAIN obj[r].spec.auth.refs : secrets[obj[r].spec.auth.refs[k]] = Missing
       \/ \E i \in Answering(obj[r].name) : Clash(i, resolvedName(r, obj[r].spec))

\* The loop can do no more for CR r.
Rests(r) == obj[r].phase = "absent" \/ Frozen(r) \/ Waits(r) \/ Unaddressed(r)

\* Agent a, had it the empty lists and documents of s, which no request carries.
Emptied(s, a) ==
    LET d == fromRawExtension(s.caps) IN
    [a EXCEPT !.tags = IF s.tags = <<>> THEN <<>> ELSE @,
              !.caps = IF d \in {NilMap, EmptyMap} THEN d ELSE @]

\* CR r has its agent, with all of what a request can carry.
Served(r) ==
    /\ obj[r].phase = "live"
    /\ \E i \in Answering(obj[r].name) :
          /\ obj[r].id = i
          /\ isUpToDate(r, obj[r].spec, teamOf[r], Emptied(obj[r].spec, agents[i]))

\* When disruptions end, every CR is deleted, frozen by an unrecorded creation,
\* waiting, going by a name that PUT does not take, or has its agent for good, in
\* sync but for lists and documents it wants empty: an answer lost or empty ends
\* in adoption by name (a2aagent.go:391-394), and a list that comes back in
\* another order is no difference (sliceutil.go:12-21).
Settles == \A r \in Resources : <>[](Rests(r) \/ Served(r))

\* An empty JSON object in a CR and none at the server, or the reverse, are no
\* difference that keeps the CR from being in sync (a2aagent.go:97-99).
EmptyIsNil == \A r \in Resources : <>[](Rests(r) \/ Synced(r))
==============================================================================
