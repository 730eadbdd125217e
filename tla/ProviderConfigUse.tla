--------------------------- MODULE ProviderConfigUse ---------------------------
(***************************************************************************)
(* Connecting: before Observe every controller records that its CR uses a  *)
(* ProviderConfig, reads that config and its credentials, and makes a      *)
(* client (Connect in internal/controller/*/*.go, the same code four       *)
(* times; internal/controller/providerconfig). The controllers of          *)
(* internal/controller/config hold a config back while usages of it exist. *)
(*                                                                         *)
(* The component behind the client is any one: an object at ContextForge   *)
(* is there or not. Configs of both kinds are alike. The usages are listed *)
(* as they are stored, a CR keeps its providerConfigRef, and nobody        *)
(* deletes a config that its controller has not seen yet.                  *)
(*                                                                         *)
(* A definition marked "Variant" is a wrong version of the one after it,   *)
(* which Spec does not use; the properties are known to refute it.         *)
(***************************************************************************)
EXTENDS ManagedReconciler

CONSTANTS
    Configs,   \* ProviderConfigs and ClusterProviderConfigs
    NoConfig

VARIABLES
    config,   \* config[c]: config c as the API server stores it
    usage,    \* usage[r]: the config that CR r's ProviderConfigUsage names
    secret,   \* the credentials can be read
    conn,     \* conn[w]: how far w has got with Connect
    there     \* there[r]: CR r's object exists at ContextForge

configVars == <<config, usage, secret>>
connVars == <<config, usage, secret, conn, there>>
vars == <<runtimeVars, config, usage, secret, conn, there>>

\* spec.providerConfigRef, all that matters of a spec here.
ref(c) == c.spec

\* No config of this name.
NoSuchConfig == [phase |-> "absent", fin |-> FALSE]

ASSUME ProviderConfigAssumption ==
    /\ Specs = Configs
    /\ NoConfig \notin Configs
    /\ \A m, n \in Manifests : m.r = n.r => m.spec = n.spec

TypeOK ==
    /\ RuntimeTypeOK
    /\ config \in [Configs -> [phase: {"absent", "live", "deleting"}, fin: BOOLEAN]]
    /\ usage \in [Resources -> Configs \cup {NoConfig}]
    /\ secret \in BOOLEAN
    /\ conn \in [Workers -> {"no", "tracked", "yes"}]
    /\ there \in [Resources -> BOOLEAN]

Init ==
    /\ RuntimeInit
    /\ config = [c \in Configs |-> [phase |-> "live", fin |-> TRUE]]
    /\ usage = [r \in Resources |-> NoConfig]
    /\ secret = TRUE
    /\ conn = [w \in Workers |-> "no"]
    /\ there = [r \in Resources |-> FALSE]

-----------------------------------------------------------------------------
(* Connect.                                                                *)

Connecting(w, from) == pc[w] = "observe" /\ conn[w] = from

Advance(w, to) == conn' = [conn EXCEPT ![w] = to]

\* Variant: nothing is recorded.
SkipTrack(w) ==
    /\ Connecting(w, "no")
    /\ Advance(w, "tracked")
    /\ UNCHANGED <<runtimeVars, configVars, there>>

\* Variant: the usage names the CR in the place of its config.
TrackItself(w) ==
    /\ Connecting(w, "no")
    /\ usage' = [usage EXCEPT ![Target[w]] = cr[w].name]
    /\ Advance(w, "tracked")
    /\ UNCHANGED <<runtimeVars, config, secret, there>>

\* The ProviderConfigUsage is made or brought up to date; whether the config
\* exists, or is being deleted, is not asked.
Track(w) ==
    /\ Connecting(w, "no")
    /\ usage' = [usage EXCEPT ![Target[w]] = ref(cr[w])]
    /\ Advance(w, "tracked")
    /\ UNCHANGED <<runtimeVars, config, secret, there>>

\* The config and its credentials are read.
Resolve(w) ==
    /\ Connecting(w, "tracked")
    /\ config[ref(cr[w])].phase # "absent"
    /\ secret
    /\ Advance(w, "yes")
    /\ UNCHANGED <<runtimeVars, configVars, there>>

\* Any of it fails: nothing is asked of ContextForge.
ConnectFails(w) ==
    /\ pc[w] = "observe" /\ conn[w] # "yes"
    /\ \/ /\ conn[w] = "tracked"
          /\ config[ref(cr[w])].phase = "absent" \/ ~secret
          /\ UNCHANGED budget
       \/ Disrupt
    /\ Report(w, cr[w])
    /\ Advance(w, "no")
    /\ UNCHANGED <<configVars, there>>

-----------------------------------------------------------------------------
(* The component behind the client, which needs the config no more.        *)

Observe(w) ==
    /\ Connecting(w, "yes")
    /\ \/ /\ \E upToDate \in BOOLEAN : Observed(w, cr[w], there[Target[w]], upToDate)
          /\ UNCHANGED budget
       \/ Report(w, cr[w]) /\ Disrupt
    /\ Advance(w, "no")
    /\ UNCHANGED <<configVars, there>>

Create(w) ==
    /\ pc[w] = "create"
    /\ \/ /\ Created(w, cr[w])
          /\ there' = [there EXCEPT ![Target[w]] = TRUE]
          /\ UNCHANGED budget
       \/ /\ CreateFailed(w) /\ Disrupt
          /\ there' \in {there, [there EXCEPT ![Target[w]] = TRUE]}
    /\ UNCHANGED <<configVars, conn>>

Update(w) ==
    /\ pc[w] = "update"
    /\ Report(w, cr[w])
    /\ UNCHANGED <<budget, connVars>>

\* Variant: the object is taken to be gone once DELETE was answered.
DeleteFinalizes(w) ==
    /\ pc[w] = "delete"
    /\ Goto(w, "finalize", cr[w])
    /\ there' = [there EXCEPT ![Target[w]] = FALSE]
    /\ UNCHANGED <<kubeVars, fresh, plan, budget, configVars, conn>>

Delete(w) ==
    /\ pc[w] = "delete"
    /\ Report(w, cr[w])
    /\ \/ there' = [there EXCEPT ![Target[w]] = FALSE] /\ UNCHANGED budget
       \/ UNCHANGED there /\ Disrupt
    /\ UNCHANGED <<configVars, conn>>

-----------------------------------------------------------------------------
(* The configs, their controllers, and the rest of Kubernetes.             *)

InUse(c) == \E r \in Resources : usage[r] = c

\* Variant: no controller is set up for configs of this kind.
Unattended(c) == FALSE

\* The controller of c: a finalizer on a config that lives, and off one that is
\* being deleted once no usage names it.
Reconcile(c) ==
    /\ \/ /\ config[c].phase = "live" /\ ~config[c].fin
          /\ config' = [config EXCEPT ![c].fin = TRUE]
       \/ /\ config[c].phase = "deleting" /\ ~InUse(c)
          /\ config' = [config EXCEPT ![c] = NoSuchConfig]
    /\ UNCHANGED <<runtimeVars, usage, secret, conn, there>>

\* A usage is owned by its CR, and is collected after it.
Collect(r) ==
    /\ obj[r].phase = "absent"
    /\ usage[r] # NoConfig
    /\ usage' = [usage EXCEPT ![r] = NoConfig]
    /\ UNCHANGED <<runtimeVars, config, secret, conn, there>>

SetConfig(c, o) ==
    /\ Disrupt
    /\ config' = [config EXCEPT ![c] = o]
    /\ UNCHANGED <<kubeVars, loopVars, usage, secret, conn, there>>

CreateConfig(c) ==
    config[c].phase = "absent" /\ SetConfig(c, [phase |-> "live", fin |-> FALSE])

DeleteConfig(c) ==
    config[c].phase = "live" /\ config[c].fin
    /\ SetConfig(c, [phase |-> "deleting", fin |-> TRUE])

\* Nothing keeps the Secret of a config from being deleted; somebody who
\* deleted it may bring it back.
ToggleSecret ==
    /\ (~secret /\ UNCHANGED budget) \/ Disrupt
    /\ secret' = ~secret
    /\ UNCHANGED <<kubeVars, loopVars, config, usage, conn, there>>

-----------------------------------------------------------------------------
Call(w) ==
    \/ Track(w) \/ Resolve(w) \/ ConnectFails(w)
    \/ Observe(w) \/ Create(w) \/ Update(w) \/ Delete(w)

Controller(w) == Call(w) \/ (Loop(w) /\ UNCHANGED connVars)

Humans ==
    \/ /\ \/ \E m \in Manifests : UserCreate(m)
          \/ \E r \in Resources : UserDelete(r) \/ OperatorClear(r)
       /\ UNCHANGED connVars
    \/ \E c \in Configs : CreateConfig(c) \/ DeleteConfig(c)
    \/ ToggleSecret

Faults ==
    /\ \/ \E S \in SUBSET Workers : Interrupt(S)
       \/ \E w \in Workers : CacheSync(w)
    /\ conn' = [w \in Workers |-> IF pc'[w] = "idle" THEN "no" ELSE conn[w]]
    /\ UNCHANGED <<configVars, there>>

Next ==
    \/ \E w \in Workers : Controller(w)
    \/ \E c \in Configs : Reconcile(c)
    \/ \E r \in Resources : Collect(r)
    \/ Humans \/ Faults

Spec == Init /\ [][Next]_vars

\* Queues, informers and the garbage collector go on; nobody has to act.
Fairness ==
    /\ \A w \in Workers :
          /\ WF_vars(Controller(w))
          /\ WF_vars(CacheSync(w) /\ UNCHANGED connVars)
    /\ \A c \in Configs : WF_vars(Reconcile(c))
    /\ \A r \in Resources : WF_vars(Collect(r))

FairSpec == Spec /\ Fairness

-----------------------------------------------------------------------------
(* What must hold.                                                         *)

\* A config outlasts the CRs that need it to be deleted: the config a CR with
\* a finalizer names is there, however creation, deletion and loops overlap,
\* because the usage is recorded before the config is read (team.go:165-171).
ConfigOutlastsUse ==
    \A r \in Resources :
        obj[r].phase # "absent" /\ obj[r].fin => config[ref(obj[r])].phase # "absent"

\* A CR being deleted together with its config is finally gone all the same,
\* unless somebody took the Secret away (examples/README.md, "Cleaning Up").
DeletionCompletes ==
    \A r \in Resources :
        obj[r].phase = "deleting" ~> obj[r].phase = "absent" \/ Frozen(r) \/ ~secret

\* And so is the config, as soon as no CR names it any more: usages do not
\* pile up (team.go:165, config.go:42-57).
ConfigGoes ==
    \A c \in Configs :
        config[c].phase = "deleting" ~>
            \/ config[c].phase = "absent"
            \/ \E r \in Resources : obj[r].phase # "absent" /\ ref(obj[r]) = c
==============================================================================
