-------------------------------- MODULE Fleet --------------------------------
(***************************************************************************)
(* The Team controller and the VirtualServer controller at once, with CRs  *)
(* of both kinds and one ContextForge. All that joins them is the ID in    *)
(* the status of the Team CR that a server's teamRef names, read from an   *)
(* informer cache by teamresolve (internal/controller/teamresolve).        *)
(*                                                                         *)
(* Each side is an instance of its module; on the server side Publish      *)
(* takes the place of TeamStatus. They share the budget of disruptions.    *)
(***************************************************************************)
EXTENDS Naturals, FiniteSets

CONSTANTS
    NoName, Unset, NoText, Foreign,   \* as in the two modules
    NameAsExternalName, InformerLag, MaxDisruptions,
    ServerCRs, ServerWorkers, ServerTarget, ServerMeta, ServerDetID, ServerManifests,
    ServerBodies,
    SIDs,            \* IDs of servers
    ServersThere,    \* servers there are at the start
    ServersSlow,     \* a create request for a server may outlive the client's timeout
    TeamCRs, TeamWorkers, TeamTarget, TeamMeta, TeamNames, TeamSlugOf, TeamManifests,
    TIDs,            \* IDs of teams
    TeamRef          \* TeamRef[r]: the Team CR that server CR r names

VARIABLES
    budget,                                                    \* of both sides
    sobj, scache, spc, scr, sfresh, splan, servers, teamOf, tid, late,
    tobj, tcache, tpc, tcr, tfresh, tplan, teams, pick

teamSide == <<tobj, tcache, tpc, tcr, tfresh, tplan, teams, pick>>
serverLoops == <<sobj, scache, spc, scr, sfresh, splan, servers, tid, late>>
serverSide == <<serverLoops, teamOf>>
fleetVars == <<budget, serverSide, teamSide>>

S == INSTANCE VirtualServerController WITH
        Resources <- ServerCRs, Workers <- ServerWorkers, Target <- ServerTarget,
        ExternalIDs <- SIDs, MetaName <- ServerMeta,
        DetID <- ServerDetID, TeamIDs <- TIDs,
        Specs <- [body: ServerBodies, desc: {Unset}, icon: {Unset}],
        Manifests <- ServerManifests, Bodies <- ServerBodies, Descs <- {}, Icons <- {},
        Existing <- ServersThere, SlowServer <- ServersSlow,
        obj <- sobj, cache <- scache, pc <- spc, cr <- scr, fresh <- sfresh, plan <- splan

T == INSTANCE TeamController WITH
        Resources <- TeamCRs, Workers <- TeamWorkers, Target <- TeamTarget,
        ExternalIDs <- TIDs, MetaName <- TeamMeta,
        Specs <- [name: TeamNames, desc: {NoText, Unset}, max: {Unset}],
        Manifests <- TeamManifests, SlugOf <- TeamSlugOf, Descs <- {NoText},
        NoDesc <- NoText, Maxs <- {}, DefaultMax <- Unset, Existing <- {},
        ListLimit <- Cardinality(TIDs), UniqueSlugs <- TRUE, SlowServer <- FALSE,
        obj <- tobj, cache <- tcache, pc <- tpc, cr <- tcr, fresh <- tfresh, plan <- tplan

ASSUME FleetAssumption == TeamRef \in [ServerCRs -> TeamCRs]

FleetInit == S!Init /\ T!Init

\* The server controller's cache catches up with the Team CR's status. A Team
\* CR that does not exist reads as one without an ID: both are errors.
Publish(r) ==
    /\ teamOf[r] # tobj[TeamRef[r]].id
    /\ teamOf' = [teamOf EXCEPT ![r] = tobj[TeamRef[r]].id]
    /\ UNCHANGED <<budget, serverLoops, teamSide>>

TeamStep == T!Next /\ UNCHANGED serverSide

ServerLoop(w) == S!Controller(w) /\ UNCHANGED teamSide
ServerStep ==
    \/ \E w \in ServerWorkers : ServerLoop(w)
    \/ (S!Humans \/ S!AtServer \/ S!Faults) /\ UNCHANGED teamSide

FleetNext == TeamStep \/ ServerStep \/ \E r \in ServerCRs : Publish(r)

FleetSpec == FleetInit /\ [][FleetNext]_fleetVars

\* Both controllers' queues and the informers.
FleetFairSpec ==
    /\ FleetSpec
    /\ \A w \in ServerWorkers :
          /\ WF_fleetVars(ServerLoop(w))
          /\ WF_fleetVars(S!CacheSync(w) /\ UNCHANGED <<servers, teamOf, tid, late, teamSide>>)
    /\ \A w \in TeamWorkers :
          /\ WF_fleetVars(T!Controller(w) /\ UNCHANGED serverSide)
          /\ WF_fleetVars(T!CacheSync(w) /\ UNCHANGED <<teams, pick, serverSide>>)
    /\ \A r \in ServerCRs : WF_fleetVars(Publish(r))

-----------------------------------------------------------------------------
(* What must hold.                                                         *)

\* A controller never puts a server into a team other than one its Team CR
\* asks for by name, though teams are adopted by slug, IDs travel through a
\* status and a cache, and teams and Team CRs come and go meanwhile
\* (team.go:236-247, teamresolve.go:29-33, virtualserver.go:326-335, 353-360).
NeverAnotherTeam ==
    [][\A w \in ServerWorkers : (S!Post(w) \/ S!Put(w)) => \A i \in SIDs :
          servers'[i] # servers[i] =>
              \E m \in TeamManifests :
                  /\ m.r = TeamRef[ServerTarget[w]]
                  /\ TeamSlugOf[teams[servers'[i].team].name] = m.spec.name]_fleetVars

\* When disruptions end, every server CR is gone, frozen, without a Team CR
\* that has a team, or its server is in the live team its Team CR is bound to:
\* a team deleted and made again under the Team CR takes the server along.
ServersFollowTeams ==
    \A r \in ServerCRs : LET t == TeamRef[r] IN <>[]
        \/ sobj[r].phase = "absent" \/ S!Frozen(r)
        \/ tobj[t].phase = "absent" \/ T!Frozen(t)
        \/ /\ S!Live(sobj[r].name)
           /\ servers[sobj[r].name].team = tobj[t].name
           /\ T!Live(tobj[t].name)

\* CRs of both kinds that are being deleted at once are both finally gone, in
\* whatever order (examples/README.md, "Cleaning Up").
CleanupCompletes ==
    \A r \in ServerCRs : LET t == TeamRef[r] IN
        sobj[r].phase = "deleting" /\ tobj[t].phase = "deleting" ~>
            /\ sobj[r].phase = "absent" \/ S!Frozen(r)
            /\ tobj[t].phase = "absent" \/ T!Frozen(t)
==============================================================================
