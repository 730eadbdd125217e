# A verification project for provider-contextforge

`provider-contextforge` is a Crossplane provider: it keeps objects of a
ContextForge server (teams, gateways, virtual servers, A2A agents) in the state
that Kubernetes custom resources (CRs) ask for. This directory holds TLA+ models
of its controllers, configurations that check them with TLC on small instances,
and proofs, checked by TLAPS, of what holds for every instance.

## 1. The system

| Part | Source | State | Operations | Modelled by |
|---|---|---|---|---|
| Team controller | `internal/controller/team/team.go` | external-name and status of the CR | Observe, Create (slug pre-check, adopt or POST), Update, Delete | `TeamController` |
| VirtualServer controller | `internal/controller/virtualserver/virtualserver.go` | the same, and an ID computed from namespace/name | Observe, Create (POST, adopt on 409), Update, Delete | `VirtualServerController` |
| Gateway controller | `internal/controller/gateway/gateway.go` | external-name and status | Observe, Create (POST, GET by name on 409), Update, Delete | `GatewayController` |
| A2AAgent controller | `internal/controller/a2aagent/a2aagent.go` | external-name and status | as Gateway, with JSON documents and their comparison | `A2AAgentController` |
| Team look-up | `internal/controller/teamresolve`, `gateway.go:67-81` | none; reads the Team CR's `status.atProvider.id` | Resolve | a step of the three controllers that call it; its source in `Fleet` |
| ContextForge client | `internal/clients/contextforge` | none | one HTTP request per call, 404 and 409 told apart | one step of a controller per request |
| Auth resolution | `internal/controller/authresolve` | none; reads Secrets | Resolve | `AuthResolve`, its reads steps of `A2AAgentController` |
| Slice comparison | `internal/controller/sliceutil` | none | EqualUnordered | `EqualUnordered` in `A2AAgentController` |
| ProviderConfig look-up and controllers | `internal/controller/providerconfig`, `config`, each `Connect` | configs, their finalizer, ProviderConfigUsage objects | Track, Resolve, the config reconciler | `ProviderConfigUse` |
| Gate | `internal/controller/register.go` and each `SetupGated` | which controllers run | start when the CRD is there | that they run together: `Fleet` |
| Process | `cmd/provider/main.go` | flags | wiring, leader election (off by default) | hypotheses of `ManagedReconciler` |
| Reconcile loop, API server, informer cache | crossplane-runtime, controller-runtime, Kubernetes: dependencies | the CR, its finalizer and annotations, a cached copy, the loop's copy | the steps around Observe/Create/Update/Delete | `ManagedReconciler` (external) |

How they interact. The loop reads a CR from an informer cache, gives it an
external-name if it has none (metadata.name: the controllers install no
initializers of their own, so the runtime's default applies), calls Observe and,
according to the answer, adds the finalizer, marks the CR as
external-create-pending and calls Create, calls Update, calls Delete, or removes
the finalizer; at the end it writes the status. The controllers read and write
ContextForge over HTTP. Gateways, servers and agents find their team in the
status of a Team CR, which the Team controller writes: that is the one piece of
state two controllers share.

What is hard:

* Create is a look-up and a POST, or a POST and a GET: not atomic, not
  idempotent, and its result has to be recorded in another system. Answers get
  lost, requests outlive the client's 30 s timeout, processes crash in between.
* Nothing elects a leader unless asked to, so two processes may run a loop for
  one CR; what protects Create is optimistic locking and the pending annotation.
* Observe works on a cached copy, and Team status is read from the cache too.
* The team, each Secret, the ProviderConfig and the request are separate reads
  and writes; what was read may be gone or changed when it is used.
* A config may be deleted while CRs still need it to reach ContextForge.
* ContextForge has other users: people who edit and delete objects there.
* Teams come and go independently of what refers to them; deletion must not
  depend on them.
* Whether a difference found by `isUpToDate` is one `Update` can repair is a
  property of two functions and of `omitempty`, not of either one alone.

`PROJECT.json` lists the hazards line by line with the properties that cover each.

## 2. The modules

```
CreateLock                   what the creation annotations promise
ManagedReconciler            the loop, the CRs, the cache, people with kubectl;
  |                          implements CreateLock
  |-- RuntimeProofs, LockProofs         theorems for any component
  |-- TeamController ---------- MCTeam            TeamProofs, TeamBindingProofs
  |-- VirtualServerController - MCVirtualServer   VirtualServerProofs
  |-- GatewayController ------- MCGateway         GatewayProofs
  |-- A2AAgentController ------ MCA2AAgent        A2AAgentProofs (uses AuthResolve)
  `-- ProviderConfigUse ------- MCProviderConfig  ProviderConfigProofs
Fleet = TeamController + VirtualServerController  MCFleet
```

Two abstract specifications are each implemented by more detailed ones:
`CreateLock` by the loop (`CreateIsLocked`), and the loop with *any* component
(`RuntimeSpec`) by each of the five components.

**ManagedReconciler.** `obj` is the store of CRs (phase, finalizer,
external-name, newest creation annotation, published ID, spec); `cache` the
informer's copy; a *worker* is the loop of one process for one CR, with its step
`pc`, its copy `cr`, what Observe and Create told it (`plan`) and whether its
copy still has the stored resourceVersion (`fresh`). One action per step of the
loop that writes or waits. A write of the loop succeeds only with a fresh copy
(`UpdateCR`, `UpdateAndFinish`); `Annotate` retries and merges, as the runtime's
UpdateCriticalAnnotations does. `Interrupt` ends any set of loops at once (crash,
lost API write). `UserCreate`, `UserDelete`, `UserEdit` and `OperatorClear` are
people; the last removes a pending annotation nobody will complete.
`RuntimeSpec` is the loop with any component that keeps to `ExternalCall` (a call
may change the status and, during creation, the external-name of the loop's copy,
and nothing else of Kubernetes).

**CreateLock.** One lock per CR with a mark that survives its holder. `Acquire`
is the write of the pending annotation, `Record` the annotation of the outcome,
`Abandon` a crash or a lost write, `Clear` a person. The refinement mapping takes
the mark from the stored annotation and the holders from the loops inside Create.

**TeamController.** `teams[t]` is the team of ID t: unused, under way, live or
gone; `pick` what the slug pre-check found. One action per request: `Observe`,
`Resolve` (the pre-check), `Adopt`, `Post`, `Update`, `Delete`.

**VirtualServerController.** `servers` by ID, `teamOf[r]` the ID the Team CR of r
publishes, `tid` what a loop looked up, `late` requests that outlived the
client; a server that such a request made is marked `landed`, which only the
properties read. Actions `Observe`, `CreateResolve`, `Post`, `Adopt`,
`UpdateResolve`, `Put`, `Delete`. Observe goes by external-name, the rest by computed ID, as in
the code.

**GatewayController.** `gateways` by ID, names unique among the live ones (the
409 the code handles says so), GET by ID or name. The client's parameter of PUT
and DELETE says ID (`gateway.go:81-94` of the client), and whether a name does
there too is not known from this repository: `byName` says it of this server, and
`NamedWrites` which kinds of server there may be. `Addressed` is what PUT and DELETE
act on, `Answering` what GET does. Agents have the same.

**A2AAgentController and AuthResolve.** `agents` by ID with unique names,
`secrets` the contents of the Secrets, `tid` and `read` what a loop has read so
far. `Resolve` reads the team and then one Secret a step, in the order of
`authresolve.go`; `Post` and `Put` become possible when all is read, and
`ResolveFails` ends the call when something is missing. What the credentials are
is a function of the contents read (`AuthResult`), and what of them a request
carries is `SentAuth`: omitempty drops nil pointers and also a list of no headers,
which the CRD admits (`HeadersMissing`). A JSON document is absent, no
object, empty or some document; the server shows `DefaultMap` for one it was not
given. Lists come back in any order (`Arrangements`). A 2xx answer may have no
body, which the client decodes to an object without an ID (`server.go:109-117`).

**ProviderConfigUse.** `config` the configs with their finalizer, `usage` the
ProviderConfigUsage of each CR, `secret` whether the credentials can be read,
`conn` how far a loop is with Connect. `Track`, `Resolve`, `ConnectFails` are the
steps of Connect, `Reconcile` the config controller, `Collect` the garbage
collector that takes a usage after its CR. The component behind the client is any
one: its object is there or not.

**Fleet** instantiates the Team and the VirtualServer controller on one budget of
disruptions. `Publish` replaces `TeamStatus`: the ID a server's controller reads
is what the Team controller wrote, some time ago.

In every controller module the conversions and comparisons keep the names of the
Go functions. A remote call is one step (request, effect, answer); an answer may
be lost after the effect; any call may fail; with `SlowServer` a POST may take
effect after the client gave up. `Foreign...` actions are other users of
ContextForge, `TeamStatus` everything that changes the ID a Team CR shows.
`by` in teams and gateways is a history variable, and so is `bare` in agents: the
last auth block sent to it listed no headers.

A definition marked *Variant* is a wrong version of the one after it. No
specification uses it; the mutation runs of `PROJECT.json` put it in the place
of the right one and expect TLC to refute the property it is paired with.

### Abstractions to keep in mind

* Data is cut to what the properties tell apart: transport and visibility of a
  gateway are one value, name, visibility, tags and associations of a server are
  one value, since the code compares and sends them together.
* `fresh` compares contents: a write that changes nothing of the modelled CR does
  not outdate a copy. A real resourceVersion would change with unmodelled
  fields too, which only refuses more writes.
* Connecting is a failure of Observe in the four controllers and has a model of
  its own; the Secrets of a gateway are a failure of Create and Update, those of
  an agent are read one by one (the code is the same).
* A Secret's content is one value for all its keys, a *version*. Header names,
  client IDs and the like are copied from the CR and left out.
* In `ProviderConfigUse` usages are listed as they are stored, a CR keeps its
  providerConfigRef, and nobody deletes a config its controller has not seen yet.
* In `Fleet` a Team CR that does not exist reads as one without an ID, as both are
  the same error.
* A Team name in the model is also a possible slug; `SlugOf` is the server's
  function. The configurations use names that are their own slug.
* The agent runs start with no agent there (`Existing`); the proofs allow any.
* Where `UniqueSlugs` says that ContextForge refuses a second team of one slug, it
  has no two at the start.
* The creation grace period, management policies, pausing, connection secrets,
  conditions and events are left out: none of them guards a write to ContextForge
  under the default policy.

## 3. What is checked

Safety (every run also checks that the next state relation has no error):

| Property | Module | Says |
|---|---|---|
| `ExclusiveCreate` | ManagedReconciler | one loop at a time is between the first request of Create and the recording of its answer, however many processes run |
| `CreateIsLocked` | ManagedReconciler | refinement: the creation annotation is a lock that survives its holder; after a crash nobody creates until a person clears it |
| `NoFinalizeDuringCreate` | ManagedReconciler | no CR loses its finalizer while a loop creates its object |
| `RuntimeSpec` | ManagedReconciler | refinement: the controller is a component the runtime allows |
| `NoSecondTeam` | TeamController | a CR never has two live teams of its own making |
| `FinalizedMeansGone` | all four controllers | when the finalizer goes, the object the external-name names is gone |
| `NameSticks` | TeamController | a CR bound to a live team is not rebound |
| `DeletesOwn` | TeamController | a team is deleted only for a CR that is being deleted and stored with that team, though the loop acts on an old copy |
| `PublishedTeamIsBound` | TeamController | the published team ID is never another live team than the bound one |
| `ServersHaveTeams`, `GatewaysHaveTeams`, `AgentsHaveTeams` | the dependents | nothing is ever created or updated without a team ID |
| `BoundMakesNone` | GatewayController | no gateway is made for a CR bound to the ID of an existing one |
| `CredentialsMatchType` | A2AAgentController | no agent has half of its credentials, or a username and a password of different versions of a Secret; but one of type headers may have none if the last auth block sent lists none |
| `NeverAnotherTeam` | Fleet | a server is never put into a team other than one its Team CR asks for by name |
| `ConfigOutlastsUse` | ProviderConfigUse | the config named by a CR with a finalizer is there |

Liveness, under weak fairness of each worker, of the informers, and of the config
controllers and the garbage collector where they are modelled:

| Property | Says |
|---|---|
| `Settles` | when disruptions end, a CR is in sync for good, or gone, or in a state where the code waits for someone: frozen by an unrecorded creation, without a ready Team or Secret, refused its name. For gateways and agents, in sync but for what the CR wants empty and no request can carry (tags, JSON documents), and except a CR that goes by a name which GET resolves and PUT does not (`Unaddressed`) |
| `DeletionCompletes` | a CR being deleted is finally gone (or frozen), whatever became of its Team, its Secrets and its config; the same exception for a name DELETE does not take |
| `ServersFollowTeams` | when disruptions end, a server is in the live team its Team CR is bound to, also after that team was deleted and made again |
| `CleanupCompletes` | a Team CR and the servers that refer to it, deleted at once, are all finally gone |
| `ConfigGoes` | a config being deleted is finally gone once no CR names it |

Fairness is justified by the work queue and the poll interval (`main.go:64`),
which hand every CR to the loop again and again, and by the informers' watches.
Nothing obliges people to act, requests to fail, or late requests to land.
Failures are limited by `MaxDisruptions`; a liveness property therefore says
what happens after the last one. `CHECK_DEADLOCK FALSE` is set everywhere because
the system may rightly come to rest: all CRs deleted, or frozen, and no
disruption left.

### Runs that pass

| Run | Instance | Question |
|---|---|---|
| `Team_replicas` | 1 CR, 2 processes, spec edits, 3 team IDs, 2 disruptions | safety and convergence of a Team CR with two replicas |
| `Team_lag` | 2 CRs of one spec.name, the one created, the other an import of the team there is, a second name, trailing caches, late POSTs, unique slugs, 2 disruptions | binding, published ID and deletion agree when CRs share a team and copies are old |
| `VS_lag` | 1 CR, trailing cache, two bodies, 2 teams, a server left by an earlier installation, late POSTs, 3 disruptions | servers and their teams; convergence by computed ID; deletion |
| `Gateway_renames` | 1 CR, spec.name set and unset, tags given and cleared, foreign renames, trailing cache, late POSTs, servers whose PUT and DELETE take names and servers where they do not, 3 IDs, 2 disruptions | gateways and their teams; convergence by name; deletion |
| `Agent_secrets` | 1 CR, edited between basic auth, headers (one Secret read twice) and headers without entries; two versions of the Secret, lists in two orders, tags and documents wanted empty or not given, a server that shows `{}` for a document it was not given and takes only IDs in PUT and DELETE, trailing cache, late POSTs, 2 disruptions | credentials, convergence and deletion of an agent |
| `Fleet` | 1 Team CR, 1 VirtualServer CR, 3 team IDs, late POSTs of servers, a team of another name, 2 disruptions | the two controllers together |
| `Config_cleanup` | 1 CR, 1 config, its Secret, trailing cache, 6 disruptions | use and deletion of a config |

The bounds are small but not idle. A second team needs a POST whose answer is
lost and a second Create: 1 disruption. A team left behind, or a rebinding,
needs one failure and one deletion: 2. Two loops on one CR need no disruption at
all. A torn read of credentials needs one rotation between two reads, or one
deletion. In `Fleet` a team made anew under its CR takes one disruption, a lost
answer the other. In the runs with a liveness property there are more IDs than
objects the disruptions can use up, because running out of IDs would look like a
refusal by the server; `Team_lag` has fewer and only safety properties. `budget` bounds the disruptions, the number
of IDs the objects ever made, `ListLimit` the page of the team list (9, never
reached), and the sets in the configurations everything else. A difference
the code cannot repair is either in no manifest of a run that asks for convergence
(a team's `maxMembers`, see `Team_drift`) or excused by the property in so many words
(what a gateway or an agent is wanted without). `Agent_secrets` has the server that
takes only IDs, because it leaves more undone; that both properties also hold
before one that takes names was checked with that one constant changed. Two processes for one
CR are run for teams only: for servers and gateways the safety properties are
proved for any number of processes. The auth types bearer, queryParam and oauth
read as basic does, or nothing, and are in no run.

`UniqueSlugs` is TRUE in `Team_lag` for `PublishedTeamIsBound`. Without it the
property fails for a while in one situation: the annotations that record an
adoption are lost (the status goes out), someone else makes a second team of the
same slug, and the next Create adopts that one; the old ID is published until
the next status update. Whether ContextForge allows two teams of one slug is not
known from this repository. `Team_replicas` allows it.

### Runs that find a disagreement

Each checks one property that a comment or a test of the repository states.

| Run | What it shows |
|---|---|
| `Team_drift` | `maxMembers` removed from the spec is a difference for `isUpToDate` (nil against a value) that `Update` cannot repair (nil is not sent): Update for ever |
| `VS_orphan` | a CR deleted after a lost POST answer: Observe asks for metadata.name, gets 404, the finalizer goes, the server stays; the computed-ID fallback in Observe is for an empty external-name, which the runtime's default initializer prevents |
| `VS_import` | Observe goes by external-name, Delete by computed ID: an imported CR is never gone |
| `Gateway_url` | the URL is sent but not compared |
| `Agent_json` (`EmptyIsNil`) | capabilities `{}` in the CR and nothing at the server: `jsonMapsEqual` compares `{}` with `null`, `omitempty` never sends `{}`: Update for ever, against the comment that both marshal identically |

The same causes act elsewhere, where no run of their own repeats them: a team
and a gateway are left behind by a deletion after a lost POST answer; a server's
icon and an agent's endpoint URL and credentials are sent but not compared, so a
rotated Secret reaches ContextForge only with another change.

Three more limits of the code no comment contradicts. The properties of the passing
runs name them as exceptions, and without the exception TLC refutes each:

* *What is wanted empty.* A gateway's tags are compared, but an empty list is not
  sent; an agent's tags, passthrough headers and documents likewise. A CR that
  clears them is updated for ever (`Settles` excuses just these fields). For a
  document the reverse holds too: a CR that gives none is never in sync before a
  server that shows `{}`.
* *Names in PUT and DELETE.* A CR goes by its metadata.name where it took over an
  object of that name without a Create, or where an empty answer to the POST left it
  without an external-name. GET finds the object. If PUT and DELETE take only IDs, as their parameter says, the agent or gateway is not
  updated, and its deletion does not end: the client swallows the 404 of the
  DELETE, and GET keeps answering (`Unaddressed` in `Settles` and
  `DeletionCompletes`).
* *Headers without entries.* `auth_types.go:33-35` and the CRD set no minimum for
  `headers`. With `headers: []` a request carries the auth type and no headers, so the
  agent has half of its credentials (`CredentialsMatchType` excepts agents whose
  last auth block was such a list, and those only).

## 4. What is proved

All proofs are for every set of CRs, processes, IDs, names, specs and manifests,
with or without a trailing cache, and any number of disruptions. They use the
named assumptions of the modules (`RuntimeAssumption`, `TeamAssumption`,
`VirtualServerAssumption`, `GatewayAssumption`, `A2AAgentAssumption`,
`AuthAssumption`, `ProviderConfigAssumption`), which TLC evaluates in every run of
the module, and nothing else, but for three theorems that state their
hypotheses (`VirtualServerFinalizedMeansGone`, `TeamPublishesBound`,
`TeamNoSecond`) and, with the first two, their invariants.

**RuntimeProofs** (for any component). `CreationIsExclusive` and
`FinalizerOutlastsCreate` follow from the inductive invariant `LoopInv`.
`ExclusiveCreate` alone is not inductive: a loop could enter Create on an old
copy. What prevents it is a chain, and each link is a conjunct:
`WindowIsPending` (a loop inside Create has the pending annotation and the
finalizer in the store), `FreshAgrees` (a fresh copy agrees with the store) and
`CopyIsSound` (a loop that gets as far as the pending write started from a copy
without a pending annotation). So the second loop's copy says "not pending", the
store says "pending", the copy is not fresh, and its write is refused. The same
chain shows that the write that removes the finalizer is refused too.

**TeamProofs.** `TeamImplementsRuntime` proves `Spec => RuntimeSpec` step by
step: each external call is an `ExternalCall`, everything else is a step of the
loop, of a person or elsewhere. The runtime's theorems carry over
(`TeamCreationIsExclusive`, `TeamFinalizerOutlastsCreate`).
`TeamFinalizedMeansGone` needs two facts more, in `TeamInv`: `NamesAreKnown` (an
external-name that is a team's ID is of a team that was made, in the store, in
every cache and in every copy: otherwise a request under way could bring to life
a team that was already found missing) and `FinalizingMeansGone` (a loop about
to remove the finalizer holds the name of a team that is not live). Teams only
go from unused or under way to live and from live to gone, so what was found
gone stays gone.

**LockProofs.** `CreationIsLocked` proves `RuntimeSpec => CreateIsLocked` from the
same invariant. The pending write is `Acquire`, because `WindowIsPending` and
`FreshAgrees` say that a fresh copy without the annotation means an unmarked lock
nobody holds; the annotation of the outcome is `Record`, because exclusiveness
makes the holder the only one; a crash is `Abandon`; `Clear` needs that whoever
clears finds nobody inside.

**VirtualServerProofs.** `VirtualServerImplementsRuntime` is the refinement, with
the lemmas of `RuntimeProofs` for each kind of call. `VirtualServersHaveTeams`
follows from `ServerInv`: a loop between look-up and request holds a team ID, and
so does every request that may still land. `VirtualServerFinalizedMeansGone` is
proved under `OwnServers`: no CR is imported under another external-name. With
such imports two CRs may go by one server, and one may make it again while the
other loses its finalizer. `OwnInv` says that names are the CR's own, and that a
loop with a *fresh* copy that is about to remove the finalizer has seen the
server gone: another loop of the CR can only make it again after writing the
pending annotation, which outdates the copy. What remains is a request that its
client gave up earlier; a server it makes is marked `landed`, and the property
excepts it: no order of the controller's own steps could prevent it.

**GatewayProofs.** The refinement, types and teams as for servers.
`GatewayFinalizedMeansGone` and `GatewayBoundMakesNone` rest on `GatewayInv`: as
for teams, recorded IDs are of gateways that were made (`NamesAreKnown`), and
those only go from live to gone; `FinalizingMeansGone` and `CreatingMeansUnbound`
carry what Observe saw to the step that uses it, the latter from the loop's copy
over to the stored name when the pending write succeeds.

**TeamBindingProofs.** Which team a CR is bound to, from three invariants.

* `BindingInv`, without a hypothesis. A loop gets into Create only after a 404 for
  the external-name of its copy; `CreatingMeansUnbound` carries that to the pending
  write, which only a fresh copy can do, and from there on speaks of the stored
  name, which nobody else changes while the loop is inside Create. Hence
  `TeamNameSticks`. A CR being deleted has the finalizer (`DeletingIsHeld`), and loses
  neither it nor its external-name while the team exists; so a copy that says
  "being deleted, with a team that is there" is still right, however old it is
  (`DeletingCopiesHold`), and Delete hits the CR's own team: `TeamDeletesOwn`. A
  fresh copy is not needed for that, and the loop does not have one: Delete is
  called without a write before it.
* `PublishedInv`, where ContextForge keeps slugs unique and names are their own
  slugs. `SlugsDiffer`: no two live teams share a name. `CreatesByName`: what Create
  finds or makes has the name the stored CR has. `IdsAreSound`: an ID that a CR
  publishes, or that a loop with a fresh copy is about to publish, is the bound
  team's, or the CR has no team and a live team of that ID is the one with its
  name, which it will be bound to next. The last case is what makes
  `PublishedTeamIsBound` not inductive: it is where the annotations of an adoption
  were lost and the status was not.
* `OneTeamInv`, under `Undivided`: names are their own slugs, each CR is only ever
  applied with one name (spec.forProvider.name is immutable, but a CR may be
  deleted and applied anew), lists are complete, and a request does not outlive
  its client. The pre-check then finds every team the CR made (`OwnTeams`), so a
  loop about to POST knows of none (`PostsAlone`), and `ExclusiveCreate` keeps it
  the only one. `TeamNoSecond` does not need unique slugs, nor that no answer is
  lost. Each part of `Undivided` is needed: with a slow server the first POST may
  land after the second pre-check.

**A2AAgentProofs.** The refinement, types and `AgentFinalizedMeansGone` as for
gateways. `AgentsAlwaysHaveTeams` and `AgentCredentialsMatchType` are one invariant,
`AgentsAreSound`, which also speaks of requests under way, since those may land
later: every agent that was asked for has a team, and credentials that are whole
and of one version (`Whole`). The auth blocks are all the CRD admits, a list of no
headers included: what it resolves to has no nil its type needs (`Matching`), but
the request goes out without the list, which is the one exception `Whole` makes,
by `bare`. The invariant rests on `ReadsFollowRefs` (a loop has read a prefix of the
Secrets its copy names, and nothing outside Create and Update) and on lemmas about
the operators: what `AuthResult` returns for each auth type once all its Secrets
are read, and that an update over an agent with credentials of another type, which
leaves those in place (they are not sent, `SentAuth`), leaves them whole. Nothing is
assumed of `NamedWrites`: the theorems hold before both kinds of server. That a
torn read cannot pair two versions is due to basic auth reading its Secret once;
the theorem holds for any number of Secrets, versions and rotations.

**ProviderConfigProofs.** `ConfigImplementsRuntime` shows that connecting, which
comes before Observe, is invisible to the loop. `ConfigsOutlastTheirUse` needs
`ConfigInv`: a CR with a finalizer holds its config (`FinalizedHold`) because the loop
that wrote the finalizer did (`FreshCopiesHold`): its usage was recorded before the
config was read, and between the two the config's own finalizer could only go
while no usage named it. A copy that trails may have lost usage and config (the CR
was deleted meanwhile), so the conjunct speaks of fresh copies only, and the write
of the finalizer from any other is refused. The assumption used is that a CR keeps
its providerConfigRef.

Only model-checked: all liveness (fairness and ENABLED are beyond the prover:
`Settles`, `DeletionCompletes`, `ServersFollowTeams`, `CleanupCompletes`, `ConfigGoes`), and
`NeverAnotherTeam` of the fleet. What `EqualUnordered` computes, by sorting in the
code and by multiplicities here, is not proved either: a sort is an induction over
data.

## 5. What is not modelled

* The gate (`register.go`, `SetupGated`): each controller starts once, when its
  CRD is there, and a failure is a panic; it keeps no state the others see.
* Process start (`main.go`): its choices are hypotheses (no leader election,
  polling, concurrency).
* Of the reconcile loop: management policies other than the default, pausing,
  connection secrets, the change log, metrics, rate limits.
* Of the transport: URLs, headers and JSON text; its outcomes are the disjuncts
  of each call. A 2xx answer without a body is modelled for agents only.
* A team list of more than one page: `ListLimit` is there, but the code says of
  this case only that it is to do.
* The look-up of a gateway's Secrets step by step; generated code; packaging.

What could be proved next: `NeverAnotherTeam`, from `PublishedInv` carried over to the
Team side of `Fleet` and the look-up of `ServerInv`.

## 6. Running it

`tlc -config Team_replicas.cfg MCTeam` checks a run; the module of each run is in
`PROJECT.json`. `tlapm TeamProofs.tla` checks a module of proofs. The passing runs take
from ten seconds to a little over three minutes each.
