-------------------------- MODULE ManagedReconciler --------------------------
(***************************************************************************)
(* The frame every controller of the provider runs in: the Kubernetes API  *)
(* objects of one kind (custom resources, CRs), the informer cache the     *)
(* controller reads them from, and the reconcile loop of crossplane-       *)
(* runtime that calls Observe, Create, Update and Delete of the component. *)
(* The loop is a library, so everything here is modelled from the way      *)
(* Setup in internal/controller/*/*.go configures it: the default          *)
(* initializer (no WithInitializers), the default finalizer, creation      *)
(* annotations and a poll interval.                                        *)
(*                                                                         *)
(* A worker is the loop of one process for one CR; two workers with one    *)
(* target are two processes that run at once, which nothing rules out:     *)
(* leader election is off by default (cmd/provider/main.go:61).            *)
(*                                                                         *)
(* A definition marked "Variant" is a wrong version of the one after it,   *)
(* which no specification uses; the properties are known to refute it.     *)
(***************************************************************************)
EXTENDS Naturals, FiniteSets

CONSTANTS
    Resources,            \* the CRs of the kind
    Workers,              \* reconcile loops
    Target,               \* Target[w]: the CR worker w reconciles
    ExternalIDs,          \* IDs of objects at ContextForge
    MetaName,             \* MetaName[r]: metadata.name of CR r
    NoName,               \* the empty string
    Specs,                \* values of spec.forProvider
    Manifests,            \* what users apply: records [r, spec, name]
    NameAsExternalName,   \* the runtime's default initializer is installed
    InformerLag,          \* the informer cache may trail the API server
    MaxDisruptions        \* bound on crashes, failures and human acts

VARIABLES
    obj,      \* obj[r]: CR r as the API server stores it
    cache,    \* cache[w]: CR Target[w] in the informer cache of w's process
    pc,       \* pc[w]: the step w takes next
    cr,       \* cr[w]: w's in-memory copy of the CR
    fresh,    \* fresh[w]: cr[w] has the stored resourceVersion
    plan,     \* plan[w]: outcome of Observe, then of Create
    budget    \* disruptions left

kubeVars == <<obj, cache>>
loopVars == <<pc, cr, fresh, plan>>
runtimeVars == <<obj, cache, pc, cr, fresh, plan, budget>>

-----------------------------------------------------------------------------
Names == ExternalIDs \cup {MetaName[r] : r \in Resources} \cup {NoName}

Objects ==
    [phase: {"absent", "live", "deleting"},
     fin: BOOLEAN,                                        \* finalizer present
     name: Names,                            \* crossplane.io/external-name
     create: {"none", "pending", "failed", "succeeded"},  \* newest annotation
     id: Names,                                   \* status.atProvider.id
     spec: Specs]

\* Steps between the external-create-pending annotation and its successor.
CreateWindow == {"create", "post", "adopt", "annotate"}
Steps == CreateWindow \cup
    {"idle", "observe", "ensure", "pend", "update", "put", "delete", "status",
     "finalize"}
Plans == {"none", "create", "update", "succeeded", "failed"}

ASSUME RuntimeAssumption ==
    /\ Target \in [Workers -> Resources]
    /\ MetaName \in [Resources -> {MetaName[r] : r \in Resources}]
    /\ \A r \in Resources : MetaName[r] \notin ExternalIDs \cup {NoName}
    /\ NoName \notin ExternalIDs
    /\ Specs # {}
    /\ Manifests \subseteq [r: Resources, spec: Specs, name: ExternalIDs \cup {NoName}]
    /\ NameAsExternalName \in BOOLEAN
    /\ InformerLag \in BOOLEAN
    /\ MaxDisruptions \in Nat

Applied(m) == [phase |-> "live", fin |-> FALSE, name |-> m.name,
               create |-> "none", id |-> NoName, spec |-> m.spec]

\* No such CR; also the copy of an idle worker.
Nothing == [phase |-> "absent", fin |-> FALSE, name |-> NoName, create |-> "none",
            id |-> NoName, spec |-> CHOOSE s \in Specs : TRUE]

RuntimeTypeOK ==
    /\ obj \in [Resources -> Objects]
    /\ cache \in [Workers -> Objects]
    /\ pc \in [Workers -> Steps]
    /\ cr \in [Workers -> Objects]
    /\ fresh \in [Workers -> BOOLEAN]
    /\ plan \in [Workers -> Plans]
    /\ budget \in 0 .. MaxDisruptions

RuntimeInit ==
    /\ obj \in [Resources -> {Applied(m) : m \in Manifests}]
    /\ \A r \in Resources : \E m \in Manifests : m.r = r /\ obj[r] = Applied(m)
    /\ cache = [w \in Workers |-> obj[Target[w]]]
    /\ pc = [w \in Workers |-> "idle"]
    /\ cr = [w \in Workers |-> Nothing]
    /\ fresh = [w \in Workers |-> FALSE]
    /\ plan = [w \in Workers |-> "none"]
    /\ budget = MaxDisruptions

Disrupt == budget > 0 /\ budget' = budget - 1

-----------------------------------------------------------------------------
(* The API server: a write that changes a CR makes every other copy of it  *)
(* outdated, and an Update sent with an outdated copy is refused.          *)

Store(r, o) ==
    /\ obj' = [obj EXCEPT ![r] = o]
    /\ cache' = [w \in Workers |->
                   IF Target[w] = r /\ ~InformerLag THEN o ELSE cache[w]]

StillFresh(r, o) == [w \in Workers |-> fresh[w] /\ (Target[w] = r => o = obj[r])]

\* Worker w goes on to step s with CR copy c.
Goto(w, s, c) ==
    /\ pc' = [pc EXCEPT ![w] = s]
    /\ cr' = [cr EXCEPT ![w] = c]

\* Worker w ends its loop and forgets its copy.
Finish(w) == Goto(w, "idle", Nothing) /\ plan' = [plan EXCEPT ![w] = "none"]

\* Variant: the write is sent without a resourceVersion and always accepted.
UnconditionalUpdate(w, o, s) ==
    /\ Store(Target[w], o)
    /\ Goto(w, s, o)
    /\ fresh' = [StillFresh(Target[w], o) EXCEPT ![w] = TRUE]
    /\ UNCHANGED <<plan, budget>>

\* client.Update of w's copy as o, then step s; refused when it is outdated.
UpdateCR(w, o, s) ==
    /\ IF fresh[w]
       THEN /\ Store(Target[w], o)
            /\ Goto(w, s, o)
            /\ fresh' = [StillFresh(Target[w], o) EXCEPT ![w] = TRUE]
            /\ UNCHANGED plan
       ELSE /\ Finish(w)
            /\ UNCHANGED <<kubeVars, fresh>>
    /\ UNCHANGED budget

\* Variant: as above, for the last write of a loop.
UnconditionalLastUpdate(w, o) ==
    /\ Store(Target[w], o)
    /\ fresh' = [StillFresh(Target[w], o) EXCEPT ![w] = FALSE]
    /\ Finish(w)
    /\ UNCHANGED budget

\* The same for the last write of a loop.
UpdateAndFinish(w, o) ==
    /\ IF fresh[w]
       THEN /\ Store(Target[w], o)
            /\ fresh' = [StillFresh(Target[w], o) EXCEPT ![w] = FALSE]
       ELSE UNCHANGED <<kubeVars, fresh>>
    /\ Finish(w)
    /\ UNCHANGED budget

-----------------------------------------------------------------------------
(* The reconcile loop.                                                     *)

\* The loop begins: a read from the cache, then the initializer, which
\* writes metadata.name as external-name when the CR has none. A CR whose
\* newest creation annotation is pending is left alone.
Start(w) ==
    LET c == cache[w]
        named == [c EXCEPT !.name = MetaName[Target[w]]]
        current == c = obj[Target[w]]
    IN  /\ pc[w] = "idle"
        /\ c.phase # "absent"
        /\ c.create # "pending"
        /\ plan' = [plan EXCEPT ![w] = "none"]
        /\ IF c.name = NoName /\ NameAsExternalName
           THEN /\ current
                /\ Store(Target[w], named)
                /\ Goto(w, "observe", named)
                /\ fresh' = [StillFresh(Target[w], named) EXCEPT ![w] = TRUE]
           ELSE /\ Goto(w, "observe", c)
                /\ fresh' = [fresh EXCEPT ![w] = current]
                /\ UNCHANGED kubeVars
        /\ UNCHANGED budget

\* What the loop does with the answer of Observe.
Observed(w, c, exists, upToDate) ==
    /\ Goto(w, IF c.phase # "deleting" THEN "ensure"
               ELSE IF exists THEN "delete" ELSE "finalize", c)
    /\ plan' = [plan EXCEPT ![w] =
                  IF ~exists THEN "create" ELSE IF upToDate THEN "none" ELSE "update"]
    /\ UNCHANGED <<kubeVars, fresh>>

AfterEnsure(w) == IF plan[w] = "create" THEN "pend"
                  ELSE IF plan[w] = "update" THEN "update" ELSE "status"

\* AddFinalizer: an Update, sent only when the finalizer is missing.
AddFinalizer(w) ==
    /\ pc[w] = "ensure"
    /\ IF cr[w].fin
       THEN /\ Goto(w, AfterEnsure(w), cr[w])
            /\ UNCHANGED <<kubeVars, fresh, plan, budget>>
       ELSE UpdateCR(w, [obj[Target[w]] EXCEPT !.fin = TRUE], AfterEnsure(w))

\* SetExternalCreatePending, persisted before Create is called.
SetPending(w) ==
    /\ pc[w] = "pend"
    /\ UpdateCR(w, [obj[Target[w]] EXCEPT !.create = "pending"], "create")

\* Create answered: its outcome is recorded by the next step.
Created(w, c) ==
    /\ Goto(w, "annotate", c)
    /\ plan' = [plan EXCEPT ![w] = "succeeded"]
    /\ UNCHANGED <<kubeVars, fresh>>

CreateFailed(w) ==
    /\ Goto(w, "annotate", cr[w])
    /\ plan' = [plan EXCEPT ![w] = "failed"]
    /\ UNCHANGED <<kubeVars, fresh>>

\* UpdateCriticalAnnotations retries a conflict with the stored object and
\* merges the annotations, so it does not need a fresh copy. The stored
\* object replaces the copy, and with it the status Create set.
Annotate(w) ==
    LET r == Target[w]
        o == [obj[r] EXCEPT !.name = cr[w].name, !.create = plan[w]]
    IN  /\ pc[w] = "annotate"
        /\ IF obj[r].phase = "absent"
           THEN /\ Goto(w, "status", cr[w])
                /\ UNCHANGED <<kubeVars, fresh>>
           ELSE /\ Store(r, o)
                /\ Goto(w, "status", o)
                /\ fresh' = [StillFresh(r, o) EXCEPT ![w] = TRUE]
        /\ UNCHANGED <<plan, budget>>

\* The retries run out: the annotations are lost, the status still goes out.
AnnotateLost(w) ==
    /\ pc[w] = "annotate"
    /\ Disrupt
    /\ Goto(w, "status", cr[w])
    /\ UNCHANGED <<kubeVars, fresh, plan>>

\* Update, Delete or an error: the loop ends with Status().Update.
Report(w, c) == Goto(w, "status", c) /\ UNCHANGED <<kubeVars, fresh, plan>>

UpdateStatus(w) ==
    /\ pc[w] = "status"
    /\ UpdateAndFinish(w, [obj[Target[w]] EXCEPT !.id = cr[w].id])

\* The external object is gone: the finalizer goes, and the CR with it.
RemoveFinalizer(w) ==
    /\ pc[w] = "finalize"
    /\ UpdateAndFinish(w, Nothing)

Loop(w) ==
    \/ Start(w) \/ AddFinalizer(w) \/ SetPending(w) \/ Annotate(w)
    \/ AnnotateLost(w) \/ UpdateStatus(w) \/ RemoveFinalizer(w)

\* Any loops end early: a crash, a lost API write, a cancelled context.
Interrupt(S) ==
    /\ S # {}
    /\ \A w \in S : pc[w] # "idle"
    /\ Disrupt
    /\ pc' = [w \in Workers |-> IF w \in S THEN "idle" ELSE pc[w]]
    /\ cr' = [w \in Workers |-> IF w \in S THEN Nothing ELSE cr[w]]
    /\ fresh' = [w \in Workers |-> w \notin S /\ fresh[w]]
    /\ plan' = [w \in Workers |-> IF w \in S THEN "none" ELSE plan[w]]
    /\ UNCHANGED kubeVars

CacheSync(w) ==
    /\ InformerLag
    /\ cache[w] # obj[Target[w]]
    /\ cache' = [cache EXCEPT ![w] = obj[Target[w]]]
    /\ UNCHANGED <<obj, pc, cr, fresh, plan, budget>>

-----------------------------------------------------------------------------
(* People with kubectl.                                                    *)

HumanWrite(r, o) ==
    /\ Store(r, o)
    /\ fresh' = StillFresh(r, o)
    /\ UNCHANGED <<pc, cr, plan>>

UserCreate(m) ==
    /\ obj[m.r].phase = "absent"
    /\ Disrupt
    /\ HumanWrite(m.r, Applied(m))

UserDelete(r) ==
    /\ obj[r].phase = "live"
    /\ Disrupt
    /\ HumanWrite(r, IF obj[r].fin THEN [obj[r] EXCEPT !.phase = "deleting"]
                                   ELSE Nothing)

UserEdit(r, s) ==
    /\ obj[r].phase # "absent"
    /\ s # obj[r].spec
    /\ Disrupt
    /\ HumanWrite(r, [obj[r] EXCEPT !.spec = s])

\* No worker is inside the creation of r.
Quiescent(r) == \A w \in Workers : Target[w] = r => pc[w] \notin CreateWindow

\* The runtime gave up on r and waits for a person to remove the annotation.
Frozen(r) == obj[r].create = "pending" /\ Quiescent(r)

OperatorClear(r) ==
    /\ Frozen(r)
    /\ HumanWrite(r, [obj[r] EXCEPT !.create = "none"])
    /\ UNCHANGED budget

-----------------------------------------------------------------------------
(* What the runtime asks of a component, and the system with any component *)
(* that keeps to it. Each controller module is shown to implement it.      *)

\* The step the loop may be at after a call made at step s for CR copy c.
Successors(s, c) ==
    CASE s = "observe" -> {"status"} \cup
                          IF c.phase = "deleting" THEN {"delete", "finalize"} ELSE {"ensure"}
      [] s \in {"create", "post", "adopt"} -> {"post", "adopt", "annotate"}
      [] s \in {"update", "put"} -> {"put", "status"}
      [] s = "delete" -> {"status"}
      [] OTHER -> {}

\* A call changes nothing of the CR but its status, and Create the external-name
\* too; it goes through the API server only when the loop writes.
ExternalCall(w) ==
    /\ \E s \in Successors(pc[w], cr[w]), n \in Names, i \in Names :
          /\ Goto(w, s, [cr[w] EXCEPT !.name = n, !.id = i])
          /\ n # cr[w].name => pc[w] \in CreateWindow
    /\ \E p \in Plans : plan' = [plan EXCEPT ![w] = p]
    /\ pc'[w] = "annotate" => plan'[w] \in {"succeeded", "failed"}
    /\ \/ Disrupt
       \/ UNCHANGED budget
    /\ UNCHANGED <<kubeVars, fresh>>

\* A disruption at ContextForge.
Elsewhere == Disrupt /\ UNCHANGED <<kubeVars, loopVars>>

RuntimeNext ==
    \/ \E w \in Workers : ExternalCall(w) \/ Loop(w) \/ CacheSync(w)
    \/ \E S \in SUBSET Workers : Interrupt(S)
    \/ \E m \in Manifests : UserCreate(m)
    \/ \E r \in Resources : UserDelete(r) \/ OperatorClear(r)
    \/ Elsewhere
    \/ \E r \in Resources, s \in Specs : UserEdit(r, s)

RuntimeSpec == RuntimeInit /\ [][RuntimeNext]_runtimeVars

\* However many processes run, whatever crashes and whatever the cache shows,
\* at most one loop at a time is between the first request of Create and the
\* recording of its answer for one CR: Create looks up and then posts
\* (team.go:236-250, gateway.go:328-330), so it is not safe against itself.
ExclusiveCreate ==
    \A v, w \in Workers :
        v # w /\ Target[v] = Target[w] =>
            ~(pc[v] \in CreateWindow /\ pc[w] \in CreateWindow)

\* Who is inside the creation of r.
Creators(r) == {w \in Workers : Target[w] = r /\ pc[w] \in CreateWindow}

\* The loop implements the lock of CreateLock: the pending annotation is its
\* mark. A creation that was cut off anywhere, even with its annotation lost,
\* keeps every loop out until it is recorded or cleared (team.go:231-259).
Lock == INSTANCE CreateLock WITH
            Locks <- Resources, Agents <- Workers,
            marked <- [r \in Resources |-> obj[r].create = "pending"],
            holders <- [r \in Resources |-> Creators(r)]

CreateIsLocked == Lock!Spec

LosesFinalizer(r) == obj[r].phase # "absent" /\ obj[r].fin /\ ~obj'[r].fin

\* No CR loses its finalizer while a loop is creating its external object.
NoFinalizeDuringCreate ==
    [][\A r \in Resources :
          LosesFinalizer(r) => Quiescent(r)]_runtimeVars
==============================================================================
