----------------------- MODULE VirtualServerController -----------------------
(***************************************************************************)
(* The VirtualServer controller (internal/controller/virtualserver/        *)
(* virtualserver.go), its team look-up (internal/controller/teamresolve)   *)
(* and the client calls it makes (internal/clients/contextforge/server.go).*)
(*                                                                         *)
(* A server is created under an ID the controller computes from the CR, so *)
(* a repeated POST is answered by 409 and the server there is adopted.     *)
(*                                                                         *)
(* A definition marked "Variant" is a wrong version of the one after it,   *)
(* which Spec does not use; the properties are known to refute it.         *)
(***************************************************************************)
EXTENDS ManagedReconciler

CONSTANTS
    DetID,      \* DetID[r]: UUIDv5 of namespace/name, the server ID of CR r
    TeamIDs,    \* IDs of teams
    Bodies,     \* name, visibility, tags and associations, taken as one value
    Descs,      \* descriptions
    Icons,      \* icons
    NoText,     \* the empty string, as a description or an icon
    Unset,      \* a nil pointer
    Existing,   \* servers there are at the start, of an earlier installation
    SlowServer  \* a create request may outlive the client's timeout

VARIABLES
    servers,  \* servers[i]: the server of ID i, and whether a request that its
              \* client had given up made it (history, which no action reads)
    teamOf,   \* teamOf[r]: status.atProvider.id of the Team CR r refers to
    tid,      \* tid[w]: the team ID worker w has looked up
    late      \* late[i]: what a create request still under way will make

serverVars == <<servers, teamOf, tid, late>>
vars == <<runtimeVars, servers, teamOf, tid, late>>

ServerIDs == ExternalIDs

\* No ID: the Team CR does not exist, or its status has no ID yet.
NoTeam == NoName

-----------------------------------------------------------------------------
VirtualServerParameters ==
    [body: Bodies, desc: Descs \cup {Unset}, icon: Icons \cup {Unset}]

Servers == [live: BOOLEAN, team: TeamIDs \cup {NoTeam}, body: Bodies,
            desc: Descs \cup {NoText}, icon: Icons \cup {NoText}, landed: BOOLEAN]

ASSUME VirtualServerAssumption ==
    /\ Specs = VirtualServerParameters
    /\ DetID \in [Resources -> ServerIDs]
    /\ \A q, r \in Resources : DetID[q] = DetID[r] => q = r
    /\ NoName \notin TeamIDs
    /\ Existing \subseteq ServerIDs
    /\ SlowServer \in BOOLEAN

TypeOK ==
    /\ RuntimeTypeOK
    /\ servers \in [ServerIDs -> Servers]
    /\ teamOf \in [Resources -> TeamIDs \cup {NoTeam}]
    /\ tid \in [Workers -> TeamIDs \cup {NoTeam}]
    /\ late \in [ServerIDs -> Servers]

NoServer == [live |-> FALSE, team |-> NoTeam, body |-> CHOOSE b \in Bodies : TRUE,
             desc |-> NoText, icon |-> NoText, landed |-> FALSE]

Live(i) == i \in ServerIDs /\ servers[i].live

Init ==
    /\ RuntimeInit
    /\ \E t \in TeamIDs :
          servers = [i \in ServerIDs |-> [NoServer EXCEPT
                       !.live = i \in Existing, !.team = IF i \in Existing THEN t ELSE NoTeam]]
    /\ teamOf = [r \in Resources |-> NoTeam]
    /\ tid = [w \in Workers |-> NoTeam]
    /\ late = [i \in ServerIDs |-> NoServer]

-----------------------------------------------------------------------------
(* Conversions and comparisons.                                            *)

\* A pointer field sent with omitempty: nil leaves the server's value.
Sent(v, old) == IF v = Unset THEN old ELSE v

\* Variant: an absent description is sent as it is.
toServerCreateNil(s, t) ==
    [live |-> TRUE, team |-> t, body |-> s.body, desc |-> s.desc,
     icon |-> Sent(s.icon, NoText), landed |-> FALSE]

toServerCreate(s, t) ==
    [live |-> TRUE, team |-> t, body |-> s.body,
     desc |-> Sent(s.desc, NoText), icon |-> Sent(s.icon, NoText), landed |-> FALSE]

\* Variant: the team is not sent again.
toServerUpdateNoTeam(s, t, srv) ==
    [srv EXCEPT !.body = s.body, !.desc = Sent(s.desc, srv.desc),
                !.icon = Sent(s.icon, srv.icon)]

\* The lists are sent even when empty, so PUT overwrites the whole body.
toServerUpdate(s, t, srv) ==
    [srv EXCEPT !.team = t, !.body = s.body,
                !.desc = Sent(s.desc, srv.desc), !.icon = Sent(s.icon, srv.icon)]

scalarFieldsUpToDate(s, t, srv) ==
    /\ t = srv.team
    /\ s.desc # Unset => s.desc = srv.desc

\* Tags and associations, and the name and visibility that go with them; the
\* icon is not compared.
bodyUpToDate(s, srv) == s.body = srv.body

isUpToDate(s, t, srv) == scalarFieldsUpToDate(s, t, srv) /\ bodyUpToDate(s, srv)

toObservation(c, i) == [c EXCEPT !.id = i]

-----------------------------------------------------------------------------
(* The external client.                                                    *)

\* Variant: every error of the GET is taken for a 404.
ObserveTrustsErrors(w) ==
    LET i == IF cr[w].name = NoName THEN DetID[Target[w]] ELSE cr[w].name
        t == teamOf[Target[w]]
    IN  /\ pc[w] = "observe"
        /\ \/ /\ (~Live(i) /\ UNCHANGED budget) \/ Disrupt
              /\ Observed(w, cr[w], FALSE, FALSE)
           \/ /\ Live(i) /\ UNCHANGED budget
              /\ Observed(w, toObservation(cr[w], i), TRUE, isUpToDate(cr[w].spec, t, servers[i]))
        /\ UNCHANGED serverVars

\* Variant: a 404 makes the controller forget the external-name.
ObserveForgets(w) ==
    /\ pc[w] = "observe"
    /\ ~Live(cr[w].name)
    /\ Observed(w, [cr[w] EXCEPT !.name = NoName], FALSE, FALSE)
    /\ UNCHANGED <<budget, serverVars>>

\* Variant: the team of a CR being deleted is looked up too.
ObserveNeedsTeam(w) ==
    LET i == IF cr[w].name = NoName THEN DetID[Target[w]] ELSE cr[w].name
        t == teamOf[Target[w]]
        seen == toObservation(cr[w], i)
    IN  /\ pc[w] = "observe"
        /\ \/ ~Live(i) /\ Observed(w, cr[w], FALSE, FALSE)
           \/ /\ Live(i) /\ t # NoTeam
              /\ Observed(w, seen, TRUE, isUpToDate(cr[w].spec, t, servers[i]))
           \/ Live(i) /\ t = NoTeam /\ Report(w, seen)
        /\ UNCHANGED <<budget, serverVars>>

\* Observe: GET the external-name, or the computed ID when there is none. A CR
\* being deleted is answered before its team is looked up; for any other a
\* missing team is an error, reported with the status already filled in.
Observe(w) ==
    LET c == cr[w]
        r == Target[w]
        i == IF c.name = NoName THEN DetID[r] ELSE c.name
        seen == toObservation(c, i)
    IN  /\ pc[w] = "observe"
        /\ \/ /\ ~Live(i)
              /\ Observed(w, c, FALSE, FALSE)
              /\ UNCHANGED budget
           \/ /\ Live(i)
              /\ c.phase = "deleting" \/ teamOf[r] # NoTeam
              /\ Observed(w, seen, TRUE, isUpToDate(c.spec, teamOf[r], servers[i]))
              /\ UNCHANGED budget
           \/ /\ Live(i)
              /\ c.phase # "deleting" /\ teamOf[r] = NoTeam
              /\ Report(w, seen)
              /\ UNCHANGED budget
           \/ /\ Disrupt
              /\ Report(w, c)
        /\ UNCHANGED serverVars

\* Variant: a Team that has no ID yet is not an error.
ResolveUnready(w, next) ==
    /\ tid' = [tid EXCEPT ![w] = teamOf[Target[w]]]
    /\ Goto(w, next, cr[w])
    /\ UNCHANGED <<kubeVars, fresh, plan>>

\* teamresolve.Resolve, the first call of Create and of Update.
Resolve(w, next) ==
    LET t == teamOf[Target[w]] IN
    /\ t # NoTeam
    /\ tid' = [tid EXCEPT ![w] = t]
    /\ Goto(w, next, cr[w])
    /\ UNCHANGED <<kubeVars, fresh, plan>>

ResolveFails(w) == teamOf[Target[w]] = NoTeam /\ UNCHANGED tid

CreateResolve(w) ==
    /\ pc[w] = "create"
    /\ Resolve(w, "post") \/ (ResolveFails(w) /\ CreateFailed(w))
    /\ UNCHANGED <<budget, servers, teamOf, late>>

\* Create succeeds with the server the POST made, or the one a 409 pointed at.
Adopted(w, i) == Created(w, toObservation([cr[w] EXCEPT !.name = i], i))

\* Variant: a 409 is an error like any other.
PostOnce(w) ==
    LET i == DetID[Target[w]] IN
    /\ pc[w] = "post"
    /\ \/ /\ ~Live(i)
          /\ servers' = [servers EXCEPT ![i] = toServerCreate(cr[w].spec, tid[w])]
          /\ (Adopted(w, i) /\ UNCHANGED budget) \/ (CreateFailed(w) /\ Disrupt)
       \/ Live(i) /\ CreateFailed(w) /\ UNCHANGED <<budget, servers>>
    /\ tid' = [tid EXCEPT ![w] = NoTeam]
    /\ UNCHANGED <<teamOf, late>>

\* POST with the computed ID.
Post(w) ==
    LET i == DetID[Target[w]]
        new == toServerCreate(cr[w].spec, tid[w])
    IN  /\ pc[w] = "post"
        /\ \/ /\ ~Live(i)
              /\ servers' = [servers EXCEPT ![i] = new]
              /\ \/ Adopted(w, i) /\ UNCHANGED budget
                 \/ CreateFailed(w) /\ Disrupt               \* the answer is lost
              /\ UNCHANGED late
           \/ /\ SlowServer                                  \* the client gave up
              /\ late' = [late EXCEPT ![i] = new]
              /\ Disrupt
              /\ CreateFailed(w)
              /\ UNCHANGED servers
           \/ /\ Live(i)                                     \* 409
              /\ Goto(w, "adopt", cr[w])
              /\ UNCHANGED <<kubeVars, fresh, plan, budget, servers, late>>
           \/ /\ Disrupt                                     \* refused or not sent
              /\ CreateFailed(w)
              /\ UNCHANGED <<servers, late>>
        /\ tid' = [tid EXCEPT ![w] = NoTeam]
        /\ UNCHANGED teamOf

\* GET the computed ID after a 409.
Adopt(w) ==
    LET i == DetID[Target[w]] IN
    /\ pc[w] = "adopt"
    /\ \/ Live(i) /\ Adopted(w, i) /\ UNCHANGED budget
       \/ ~Live(i) /\ CreateFailed(w) /\ UNCHANGED budget
       \/ Disrupt /\ CreateFailed(w)
    /\ UNCHANGED serverVars

UpdateResolve(w) ==
    /\ pc[w] = "update"
    /\ Resolve(w, "put") \/ (ResolveFails(w) /\ Report(w, cr[w]))
    /\ UNCHANGED <<budget, servers, teamOf, late>>

\* PUT to the computed ID, whatever the external-name is.
Put(w) ==
    LET i == DetID[Target[w]]
        c == cr[w]
    IN  /\ pc[w] = "put"
        /\ \/ /\ Live(i)
              /\ servers' = [servers EXCEPT ![i] = toServerUpdate(c.spec, tid[w], servers[i])]
              /\ \/ Report(w, toObservation(c, i)) /\ UNCHANGED budget
                 \/ Report(w, c) /\ Disrupt                  \* the answer is lost
           \/ /\ ~Live(i)                                    \* 404
              /\ Report(w, c)
              /\ UNCHANGED <<budget, servers>>
           \/ /\ Disrupt
              /\ Report(w, c)
              /\ UNCHANGED servers
        /\ tid' = [tid EXCEPT ![w] = NoTeam]
        /\ UNCHANGED <<teamOf, late>>

\* DELETE the computed ID, whatever the external-name is; 404 is success.
Delete(w) ==
    LET i == DetID[Target[w]] IN
    /\ pc[w] = "delete"
    /\ \/ servers' = [servers EXCEPT ![i] = NoServer] /\ UNCHANGED budget
       \/ Disrupt /\ UNCHANGED servers
    /\ Report(w, cr[w])
    /\ UNCHANGED <<teamOf, tid, late>>

-----------------------------------------------------------------------------
(* The Team CR's status, and everyone else at ContextForge.                *)

\* The Team CR is created, becomes ready, is rebound or goes away.
TeamStatus(r, t) ==
    /\ t # teamOf[r]
    /\ \/ teamOf[r] = NoTeam /\ UNCHANGED budget
       \/ Disrupt
    /\ teamOf' = [teamOf EXCEPT ![r] = t]
    /\ UNCHANGED <<kubeVars, loopVars, servers, tid, late>>

\* A create request that its client has given up arrives.
Land(i) ==
    /\ late[i].live
    /\ servers' = IF servers[i].live THEN servers
                  ELSE [servers EXCEPT ![i] = [late[i] EXCEPT !.landed = TRUE]]
    /\ late' = [late EXCEPT ![i] = NoServer]
    /\ UNCHANGED <<runtimeVars, teamOf, tid>>

OutOfBand(i, new) ==
    /\ new # servers[i]
    /\ Disrupt
    /\ servers' = [servers EXCEPT ![i] = new]
    /\ UNCHANGED <<kubeVars, loopVars, teamOf, tid, late>>

\* Nobody else computes the IDs of this installation's CRs.
ForeignCreate(i, t) ==
    /\ ~Live(i)
    /\ \A r \in Resources : i # DetID[r]
    /\ OutOfBand(i, [NoServer EXCEPT !.live = TRUE, !.team = t])

ForeignDelete(i) == Live(i) /\ OutOfBand(i, NoServer)

ForeignEdit(i, t, b, d) ==
    Live(i) /\ OutOfBand(i, [servers[i] EXCEPT !.team = t, !.body = b, !.desc = d])

-----------------------------------------------------------------------------
Call(w) ==
    \/ Observe(w) \/ CreateResolve(w) \/ Post(w) \/ Adopt(w)
    \/ UpdateResolve(w) \/ Put(w) \/ Delete(w)

Controller(w) == Call(w) \/ (Loop(w) /\ UNCHANGED serverVars)

\* spec.forProvider.teamRef is immutable (virtualserver_types.go:43).
Edit(r) == \E m \in Manifests : m.r = r /\ UserEdit(r, m.spec)

Humans ==
    /\ \/ \E m \in Manifests : UserCreate(m)
       \/ \E r \in Resources : UserDelete(r) \/ Edit(r) \/ OperatorClear(r)
    /\ UNCHANGED serverVars

AtServer == \E i \in ServerIDs :
    \/ Land(i) \/ ForeignDelete(i)
    \/ \E t \in TeamIDs : ForeignCreate(i, t)
    \/ \E t \in TeamIDs, b \in Bodies, d \in Descs : ForeignEdit(i, t, b, d)

Others == AtServer \/ \E r \in Resources, t \in TeamIDs \cup {NoTeam} : TeamStatus(r, t)

Faults ==
    /\ \/ \E S \in SUBSET Workers : Interrupt(S)
       \/ \E w \in Workers : CacheSync(w)
    /\ tid' = [w \in Workers |-> IF pc'[w] = "idle" THEN NoTeam ELSE tid[w]]
    /\ UNCHANGED <<servers, teamOf, late>>

Next == (\E w \in Workers : Controller(w)) \/ Humans \/ Others \/ Faults

Spec == Init /\ [][Next]_vars

\* The work queue keeps handing out CRs and the informer keeps delivering;
\* nobody has to act and nothing has to fail.
Fairness == \A w \in Workers :
    /\ WF_vars(Controller(w))
    /\ WF_vars(CacheSync(w) /\ UNCHANGED serverVars)

FairSpec == Spec /\ Fairness

-----------------------------------------------------------------------------
(* What must hold.                                                         *)

\* No server is ever without a team, though the Team CR can vanish, or lose
\* its ID, between the look-up and the POST or PUT (virtualserver.go:326-332,
\* 353-358; teamresolve.go:29-31).
ServersHaveTeams == \A i \in ServerIDs : servers[i].live => servers[i].team \in TeamIDs

\* A server of a request that its client has seen through.
LeftBehind(i) == Live(i) /\ ~servers[i].landed

\* When a CR bound to a server loses its finalizer, that server is gone, unless
\* a request that its client had given up made it after all: a 404 is the only
\* answer taken for an absent server (virtualserver.go:232-237).
FinalizedMeansGone ==
    [][\A r \in Resources : LosesFinalizer(r) => ~LeftBehind(obj[r].name)]_vars

\* A CR's own server, recorded or not, is gone when the finalizer goes:
\* "ResourceExists: false" of a CR being deleted says that it "has
\* successfully been deleted" (virtualserver.go:256-258).
DeletedMeansGone ==
    [][\A r \in Resources : LosesFinalizer(r) => ~Live(DetID[r])]_vars

\* A CR being deleted is finally gone, with or without its Team CR: its
\* deletion does not wait for a team look-up (virtualserver.go:246-248).
DeletionCompletes ==
    \A r \in Resources : obj[r].phase = "deleting" ~> obj[r].phase = "absent" \/ Frozen(r)

Synced(r) ==
    /\ obj[r].phase = "live"
    /\ Live(obj[r].name)
    /\ obj[r].id = obj[r].name
    /\ isUpToDate(obj[r].spec, teamOf[r], servers[obj[r].name])

Settled(r) ==
    \/ obj[r].phase = "absent"
    \/ Frozen(r)
    \/ obj[r].phase = "live" /\ teamOf[r] = NoTeam
    \/ Synced(r)

\* When disruptions end, every CR is deleted, frozen by an unrecorded
\* creation, waiting for its Team, or in sync with its server for good: lost
\* POST answers end in adoption through 409 (virtualserver.go:333-335), drift
\* and a rebound Team end in a PUT.
Settles == \A r \in Resources : <>[]Settled(r)
==============================================================================
