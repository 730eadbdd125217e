---------------------------- MODULE TeamController ----------------------------
(***************************************************************************)
(* The Team controller (internal/controller/team/team.go) and the part of  *)
(* the ContextForge client it calls (internal/clients/contextforge/team.go)*)
(* against a store of teams that other clients change too.                 *)
(*                                                                         *)
(* A definition marked "Variant" is a wrong version of the one after it,   *)
(* which Spec does not use; the properties are known to refute it.         *)
(*                                                                         *)
(* A remote call is one step: the request, its effect and the answer. An   *)
(* answer can be lost after the effect, and with SlowServer a create       *)
(* request can take effect after the client gave up on it (client.go:41).  *)
(***************************************************************************)
EXTENDS ManagedReconciler

CONSTANTS
    TeamNames,     \* team names and slugs
    SlugOf,        \* the slug ContextForge derives from a name
    Descs,         \* descriptions
    NoDesc,        \* the empty description
    Maxs,          \* values of max_members
    DefaultMax,    \* max_members of a team created without one
    Unset,         \* a nil pointer
    Foreign,       \* creator of the teams no CR created
    Existing,      \* teams there are at the start
    ListLimit,     \* teams in one answer of GET /v1/teams/?limit=
    UniqueSlugs,   \* ContextForge refuses a second team of one slug
    SlowServer     \* a create request may outlive the client's timeout

VARIABLES
    teams,   \* teams[t]: the team of ID t
    pick     \* pick[w]: the ID the slug pre-check found for worker w

teamVars == <<teams, pick>>
vars == <<runtimeVars, teams, pick>>

TeamIDs == ExternalIDs

-----------------------------------------------------------------------------
TeamParameters == [name: TeamNames, desc: Descs \cup {Unset}, max: Maxs \cup {Unset}]

\* A team; by is a history variable.
Teams == [st: {"unused", "sent", "live", "gone"}, name: TeamNames, desc: Descs,
          max: Maxs \cup {Unset}, by: Resources \cup {Foreign}]

ASSUME TeamAssumption ==
    /\ Specs = TeamParameters
    /\ SlugOf \in [TeamNames -> TeamNames]
    /\ NoDesc \in Descs
    /\ DefaultMax \in Maxs \cup {Unset}
    /\ Existing \subseteq TeamIDs
    /\ Foreign \notin Resources
    /\ ListLimit \in Nat \ {0}
    /\ UniqueSlugs \in BOOLEAN
    /\ SlowServer \in BOOLEAN
    /\ \A m \in Manifests : m.name \in Existing \cup {NoName}

TypeOK ==
    /\ RuntimeTypeOK
    /\ teams \in [TeamIDs -> Teams]
    /\ pick \in [Workers -> TeamIDs \cup {NoName}]

Blank == [st |-> "unused", name |-> CHOOSE n \in TeamNames : TRUE, desc |-> NoDesc,
          max |-> Unset, by |-> Foreign]

\* A team somebody else made.
Made(n) == [Blank EXCEPT !.st = "live", !.name = n]

Live(t) == t \in TeamIDs /\ teams[t].st = "live"
LiveTeams == {t \in TeamIDs : Live(t)}

Init ==
    /\ RuntimeInit
    /\ teams \in [TeamIDs -> {Blank} \cup {Made(n) : n \in TeamNames}]
    /\ \A t \in TeamIDs : Live(t) <=> t \in Existing
    /\ UniqueSlugs => \A t, u \in LiveTeams :
          SlugOf[teams[t].name] = SlugOf[teams[u].name] => t = u
    /\ pick = [w \in Workers |-> NoName]

-----------------------------------------------------------------------------
(* Conversions and comparisons.                                            *)

\* A pointer field sent with omitempty: nil leaves the server's value.
Sent(v, old) == IF v = Unset THEN old ELSE v

toTeamCreate(r, s) ==
    [st |-> "live", name |-> s.name, desc |-> Sent(s.desc, NoDesc),
     max |-> Sent(s.max, DefaultMax), by |-> r]

\* Variant: the member limit is not sent.
TeamUpdateNoMax(s, t) == [t EXCEPT !.desc = Sent(s.desc, t.desc)]

\* UpdateTeam sends the description and the member limit, never the name.
TeamUpdate(s, t) == [t EXCEPT !.desc = Sent(s.desc, t.desc), !.max = Sent(s.max, t.max)]

intPtrEqual(a, b) == a = b

isUpToDate(s, t) ==
    /\ s.name = t.name
    /\ s.desc # Unset => s.desc = t.desc
    /\ intPtrEqual(s.max, t.max)

\* Variant: the name is published as the ID.
toObservationName(c, t) == [c EXCEPT !.id = teams[t].name]

\* toObservation, of which only the ID is read again by other controllers.
toObservation(c, t) == [c EXCEPT !.id = t]

-----------------------------------------------------------------------------
(* The external client.                                                    *)

\* Variant: every error of the GET is taken for a 404.
ObserveTrustsErrors(w) ==
    LET c == cr[w] IN
    /\ pc[w] = "observe"
    /\ \/ /\ ~Live(c.name)
          /\ Observed(w, c, FALSE, FALSE)
          /\ UNCHANGED budget
       \/ /\ Live(c.name)
          /\ Observed(w, toObservation(c, c.name), TRUE, isUpToDate(c.spec, teams[c.name]))
          /\ UNCHANGED budget
       \/ /\ Disrupt
          /\ Observed(w, c, FALSE, FALSE)
    /\ UNCHANGED teamVars

\* Variant: a 404 makes the controller forget the external-name.
ObserveForgets(w) ==
    /\ pc[w] = "observe"
    /\ ~Live(cr[w].name)
    /\ Observed(w, [cr[w] EXCEPT !.name = NoName], FALSE, FALSE)
    /\ UNCHANGED <<budget, teamVars>>

\* Observe: GET the team the external-name names; 404 is "does not exist".
Observe(w) ==
    LET c == cr[w] IN
    /\ pc[w] = "observe"
    /\ \/ /\ c.name = NoName \/ ~Live(c.name)
          /\ Observed(w, c, FALSE, FALSE)
          /\ UNCHANGED budget
       \/ /\ Live(c.name)
          /\ Observed(w, toObservation(c, c.name), TRUE, isUpToDate(c.spec, teams[c.name]))
          /\ UNCHANGED budget
       \/ /\ Disrupt
          /\ Report(w, c)
    /\ UNCHANGED teamVars

\* The pages GET /v1/teams/?limit= may answer with; there is no second page.
Pages == {P \in SUBSET LiveTeams :
            Cardinality(P) = IF Cardinality(LiveTeams) <= ListLimit
                             THEN Cardinality(LiveTeams) ELSE ListLimit}

\* Variant: no pre-check.
NoMatches(P, n) == {}

\* Variant: the slug is not looked at.
AnyTeam(P, n) == P

\* The teams whose slug is the CR's name (the name itself is not compared).
Matches(P, n) == {t \in P : SlugOf[teams[t].name] = n}

\* Create, first call: the slug pre-check (ResolveTeamBySlug).
Resolve(w) ==
    /\ pc[w] = "create"
    /\ \/ \E P \in Pages, t \in TeamIDs :
            /\ t \in Matches(P, cr[w].spec.name)
            /\ pick' = [pick EXCEPT ![w] = t]
            /\ Goto(w, "adopt", cr[w])
            /\ UNCHANGED <<kubeVars, fresh, plan, budget>>
       \/ /\ \E P \in Pages : Matches(P, cr[w].spec.name) = {}
          /\ Goto(w, "post", cr[w])
          /\ UNCHANGED <<kubeVars, fresh, plan, budget, pick>>
       \/ /\ Disrupt
          /\ CreateFailed(w)
          /\ UNCHANGED pick
    /\ UNCHANGED teams

\* Variant: the ID of the team found is not taken as external-name.
AdoptUnnamed(w) ==
    /\ pc[w] = "adopt"
    /\ Live(pick[w])
    /\ Created(w, toObservation(cr[w], pick[w]))
    /\ pick' = [pick EXCEPT ![w] = NoName]
    /\ UNCHANGED <<budget, teams>>

\* Create after a match: GET the team found and take its ID as external-name.
Adopt(w) ==
    LET t == pick[w]
        c == [cr[w] EXCEPT !.name = t]
    IN  /\ pc[w] = "adopt"
        /\ \/ Live(t) /\ Created(w, toObservation(c, t)) /\ UNCHANGED budget
           \/ ~Live(t) /\ CreateFailed(w) /\ UNCHANGED budget
           \/ Disrupt /\ CreateFailed(w)
        /\ pick' = [pick EXCEPT ![w] = NoName]
        /\ UNCHANGED teams

SlugTaken(n) == \E t \in LiveTeams : SlugOf[teams[t].name] = SlugOf[n]

\* ContextForge makes team t of CR copy c, in the given state. TeamIDs is a bound.
Makes(w, t, st) ==
    /\ teams[t].st = "unused"
    /\ UniqueSlugs => ~SlugTaken(cr[w].spec.name)
    /\ teams' = [teams EXCEPT ![t] =
                   [toTeamCreate(Target[w], cr[w].spec) EXCEPT !.st = st]]

\* Create without a match: POST the team and take the new ID as external-name.
Post(w) ==
    /\ pc[w] = "post"
    /\ \/ \E t \in TeamIDs :
            /\ Makes(w, t, "live")
            /\ \/ /\ Created(w, toObservation([cr[w] EXCEPT !.name = t], t))
                  /\ UNCHANGED budget
               \/ /\ Disrupt                                \* the answer is lost
                  /\ CreateFailed(w)
       \/ \E t \in TeamIDs :                                \* the client gave up
            /\ SlowServer
            /\ Makes(w, t, "sent")
            /\ Disrupt
            /\ CreateFailed(w)
       \/ /\ UniqueSlugs /\ SlugTaken(cr[w].spec.name)      \* refused
          /\ CreateFailed(w)
          /\ UNCHANGED <<budget, teams>>
       \/ /\ Disrupt                                        \* refused or not sent
          /\ CreateFailed(w)
          /\ UNCHANGED teams
    /\ UNCHANGED pick

\* Update: PUT to the external-name; a missing team is an error.
Update(w) ==
    LET c == cr[w] IN
    /\ pc[w] = "update"
    /\ \/ /\ Live(c.name)
          /\ teams' = [teams EXCEPT ![c.name] = TeamUpdate(c.spec, teams[c.name])]
          /\ \/ Report(w, toObservation(c, c.name)) /\ UNCHANGED budget
             \/ Report(w, c) /\ Disrupt                     \* the answer is lost
       \/ /\ ~Live(c.name)
          /\ Report(w, c)
          /\ UNCHANGED <<budget, teams>>
       \/ /\ Disrupt
          /\ Report(w, c)
          /\ UNCHANGED teams
    /\ UNCHANGED pick

\* Variant: the team to delete is looked up by the CR's name.
DeleteByName(w) ==
    /\ pc[w] = "delete"
    /\ \E t \in Matches(LiveTeams, cr[w].spec.name) :
          teams' = [teams EXCEPT ![t].st = "gone"]
    /\ Report(w, cr[w])
    /\ UNCHANGED <<budget, pick>>

\* Delete: DELETE the external-name; a 404 counts as success.
Delete(w) ==
    LET c == cr[w] IN
    /\ pc[w] = "delete"
    /\ \/ /\ Live(c.name)
          /\ teams' = [teams EXCEPT ![c.name].st = "gone"]
          /\ UNCHANGED budget
       \/ /\ ~Live(c.name)
          /\ UNCHANGED <<budget, teams>>
       \/ Disrupt /\ UNCHANGED teams
    /\ Report(w, c)
    /\ UNCHANGED pick

-----------------------------------------------------------------------------
(* Everyone else who changes teams at ContextForge.                        *)

Land(t) ==
    /\ teams[t].st = "sent"
    /\ teams' = [teams EXCEPT ![t].st =
                   IF UniqueSlugs /\ SlugTaken(teams[t].name) THEN "gone" ELSE "live"]
    /\ UNCHANGED <<runtimeVars, pick>>

OutOfBand(t, new) ==
    /\ Disrupt
    /\ teams' = [teams EXCEPT ![t] = new]
    /\ UNCHANGED <<kubeVars, loopVars, pick>>

ForeignCreate(t, n) ==
    /\ teams[t].st = "unused"
    /\ UniqueSlugs => ~SlugTaken(n)
    /\ OutOfBand(t, Made(n))

ForeignDelete(t) == Live(t) /\ OutOfBand(t, [teams[t] EXCEPT !.st = "gone"])

ForeignEdit(t, d, m) ==
    /\ Live(t)
    /\ <<d, m>> # <<teams[t].desc, teams[t].max>>
    /\ OutOfBand(t, [teams[t] EXCEPT !.desc = d, !.max = m])

-----------------------------------------------------------------------------
Call(w) == Observe(w) \/ Resolve(w) \/ Adopt(w) \/ Post(w) \/ Update(w) \/ Delete(w)

Controller(w) == Call(w) \/ (Loop(w) /\ UNCHANGED teamVars)

\* spec.forProvider.name is immutable (team_types.go:31).
Edit(r) == \E m \in Manifests :
    m.r = r /\ m.spec.name = obj[r].spec.name /\ UserEdit(r, m.spec)

Humans ==
    /\ \/ \E m \in Manifests : UserCreate(m)
       \/ \E r \in Resources : UserDelete(r) \/ Edit(r) \/ OperatorClear(r)
    /\ UNCHANGED teamVars

Others ==
    \/ \E t \in TeamIDs : Land(t) \/ ForeignDelete(t)
    \/ \E t \in TeamIDs, n \in TeamNames : ForeignCreate(t, n)
    \/ \E t \in TeamIDs, d \in Descs, m \in Maxs \cup {Unset} : ForeignEdit(t, d, m)

Faults ==
    /\ \/ \E S \in SUBSET Workers : Interrupt(S)
       \/ \E w \in Workers : CacheSync(w)
    /\ UNCHANGED teamVars

Next == (\E w \in Workers : Controller(w)) \/ Humans \/ Others \/ Faults

Spec == Init /\ [][Next]_vars

\* The work queue keeps handing out CRs (the poll interval) and the informer
\* keeps delivering; nothing makes people act or disruptions happen.
Fairness == \A w \in Workers :
    /\ WF_vars(Controller(w))
    /\ WF_vars(CacheSync(w) /\ UNCHANGED teamVars)

FairSpec == Spec /\ Fairness

-----------------------------------------------------------------------------
(* What must hold.                                                         *)

\* Lost POST answers, crashes and repeated Creates never leave a CR with two
\* teams of its own making: the pre-check adopts the first one
\* (team.go:236-247). This is about names that are their own slug, complete
\* lists and a server that does not finish a request after the client's timeout.
NoSecondTeam ==
    \A r \in Resources : Cardinality({t \in LiveTeams : teams[t].by = r}) <= 1

\* When a CR loses its finalizer, the team its external-name names is gone
\* (Observe and Delete, team.go:201-210, 278-287).
FinalizedMeansGone ==
    [][\A r \in Resources : LosesFinalizer(r) => ~Live(obj[r].name)]_vars

\* A CR bound to a team leaves it only when that team no longer exists; no
\* late or repeated Create rebinds it (team.go:245, 255).
NameSticks ==
    [][\A r \in Resources :
          obj[r].fin /\ Live(obj[r].name) => obj'[r].name = obj[r].name]_vars

\* The controller deletes a team only for a CR that is being deleted and whose
\* stored external-name is that team, though it acts on an older copy of it.
DeletesOwn ==
    [][\A w \in Workers : Delete(w) =>
          \A t \in TeamIDs : teams'[t] # teams[t] =>
              obj[Target[w]].phase = "deleting" /\ obj[Target[w]].name = t]_vars

\* status.atProvider.id, which gateways, agents and servers read as their team
\* (teamresolve.go:29-33), is never a live team other than the live team the
\* CR is bound to.
PublishedTeamIsBound ==
    \A r \in Resources :
        Live(obj[r].name) /\ obj[r].id # obj[r].name => ~Live(obj[r].id)

Synced(r) ==
    /\ obj[r].phase = "live"
    /\ Live(obj[r].name)
    /\ obj[r].id = obj[r].name
    /\ isUpToDate(obj[r].spec, teams[obj[r].name])

\* When disruptions end, every CR ends up deleted, frozen by an unrecorded
\* creation, or in sync with its team for good.
Settles ==
    \A r \in Resources : <>[](obj[r].phase = "absent" \/ Frozen(r) \/ Synced(r))
==============================================================================
