------------------------- MODULE ProviderConfigProofs -------------------------
(***************************************************************************)
(* Proofs about Connect and the ProviderConfig controllers: connecting     *)
(* keeps to what the runtime asks of a component, and a config is there as *)
(* long as a CR with a finalizer names it.                                 *)
(***************************************************************************)
EXTENDS ProviderConfigUse, RuntimeProofs

ConfigTypeOK ==
    /\ config \in [Configs -> [phase: {"absent", "live", "deleting"}, fin: BOOLEAN]]
    /\ usage \in [Resources -> Configs \cup {NoConfig}]
    /\ secret \in BOOLEAN
    /\ conn \in [Workers -> {"no", "tracked", "yes"}]
    /\ there \in [Resources -> BOOLEAN]

\* A loop connects in Observe only.
ConnectsInObserve == \A w \in Workers : pc[w] # "observe" => conn[w] = "no"

\* What CR r may name, and every copy of it that a loop acts on does.
Wanted(r) == {m.spec : m \in {n \in Manifests : n.r = r}}

SpecsAreWanted ==
    /\ \A r \in Resources : obj[r].phase # "absent" => obj[r].spec \in Wanted(r)
    /\ \A w \in Workers :
          /\ cache[w].phase # "absent" => cache[w].spec \in Wanted(Target[w])
          /\ pc[w] \in {"observe", "ensure"} => cr[w].spec \in Wanted(Target[w])

\* The usage of CR r names config c, and c is there.
Held(r, c) == usage[r] = c /\ config[c].phase # "absent"

\* A CR with a finalizer holds its config.
FinalizedHold ==
    \A r \in Resources : obj[r].phase # "absent" /\ obj[r].fin => Held(r, ref(obj[r]))

\* So does a loop that has connected, up to the writing of the finalizer; its
\* usage is recorded before that. A stale copy may have lost both, but cannot
\* write any more.
FreshCopiesHold ==
    \A w \in Workers : fresh[w] =>
        /\ pc[w] = "observe" /\ conn[w] # "no" => usage[Target[w]] = ref(cr[w])
        /\ pc[w] = "observe" /\ conn[w] = "yes" => Held(Target[w], ref(cr[w]))
        /\ pc[w] = "ensure" => Held(Target[w], ref(cr[w]))

ConfigInv ==
    /\ LoopInv
    /\ ConfigTypeOK
    /\ ConnectsInObserve
    /\ SpecsAreWanted
    /\ FinalizedHold
    /\ FreshCopiesHold

-----------------------------------------------------------------------------
LEMMA OneSpecIsWanted ==
  ASSUME NEW r \in Resources, NEW s \in Wanted(r), NEW t \in Wanted(r)
  PROVE  s = t /\ s \in Configs
  BY ProviderConfigAssumption, RuntimeAssumption DEF Wanted

LEMMA TargetIsResource == \A w \in Workers : Target[w] \in Resources /\ NoName \in Names
  BY RuntimeAssumption DEF Names

-----------------------------------------------------------------------------
(* Every call of the component keeps to ExternalCall, or is a step of      *)
(* Connect, which the loop does not see.                                   *)

Connects(w) == Track(w) \/ Resolve(w)

LEMMA CallIsExternalCall ==
  ASSUME LoopInv, NEW w \in Workers, Call(w)
  PROVE  ExternalCall(w) \/ (Connects(w) /\ UNCHANGED runtimeVars)
  <1>1. NoName \in Names /\ Disrupt \in BOOLEAN
    BY RuntimeAssumption DEF Names, Disrupt
  <1>2. CASE Connects(w)
    BY <1>2 DEF Connects, Track, Resolve
  <1>3. CASE ConnectFails(w)
    BY <1>1, <1>3, ReportIsCall DEF ConnectFails
  <1>4. CASE Observe(w)
    <2>1. pc[w] = "observe" /\ (Disrupt \/ UNCHANGED budget)
      BY <1>4 DEF Observe, Connecting
    <2>2. (\E e, u : Observed(w, cr[w], e, u)) \/ Report(w, cr[w])
      BY <1>4 DEF Observe
    <2> QED BY <1>1, <2>1, <2>2, ObservedIsCall, ReportIsCall
  <1>5. CASE Create(w)
    <2>1. pc[w] = "create" /\ (Disrupt \/ UNCHANGED budget)
      BY <1>5 DEF Create
    <2>2. CASE Created(w, cr[w])
      <3>1. Created(w, [[cr[w] EXCEPT !.name = cr[w].name] EXCEPT !.id = cr[w].id])
        BY <2>2, CopyFacts
      <3>2. cr[w].name \in Names /\ cr[w].id \in Names
        BY CopyFacts
      <3> QED BY <2>1, <3>1, <3>2, CreatedIsCall
    <2>3. CASE CreateFailed(w)
      BY <2>1, <2>3, CreateFailedIsCall
    <2> QED BY <1>5, <2>2, <2>3 DEF Create
  <1>6. CASE Update(w)
    BY <1>1, <1>6, ReportIsCall DEF Update
  <1>7. CASE Delete(w)
    BY <1>1, <1>7, ReportIsCall DEF Delete
  <1> QED BY <1>2, <1>3, <1>4, <1>5, <1>6, <1>7 DEF Call, Connects

\* What people do to a CR, or the config side does without any CR.
PeopleAct ==
    \/ \E m \in Manifests : UserCreate(m)
    \/ \E r \in Resources : UserDelete(r) \/ OperatorClear(r)

ConfigsAct ==
    \/ \E c \in Configs : Reconcile(c) \/ CreateConfig(c) \/ DeleteConfig(c)
    \/ \E r \in Resources : Collect(r)
    \/ ToggleSecret

LEMMA ConfigsActElsewhere ==
  ASSUME ConfigsAct
  PROVE  (Elsewhere \/ UNCHANGED runtimeVars) /\ UNCHANGED <<kubeVars, loopVars, conn, there>>
  <1>1. \A c, o : SetConfig(c, o) => Elsewhere /\ UNCHANGED <<conn, there>>
    BY DEF SetConfig, Elsewhere
  <1>2. ToggleSecret => (Elsewhere \/ UNCHANGED runtimeVars) /\ UNCHANGED <<conn, there>>
    BY DEF ToggleSecret, Elsewhere, runtimeVars, kubeVars, loopVars
  <1>3. \A c \in Configs : Reconcile(c) => UNCHANGED <<runtimeVars, conn, there>>
    BY DEF Reconcile
  <1>4. \A r \in Resources : Collect(r) => UNCHANGED <<runtimeVars, conn, there>>
    BY DEF Collect
  <1>5. (Elsewhere \/ UNCHANGED runtimeVars) /\ UNCHANGED <<conn, there>>
    BY <1>1, <1>2, <1>3, <1>4 DEF ConfigsAct, CreateConfig, DeleteConfig
  <1> QED BY <1>5 DEF Elsewhere, runtimeVars, kubeVars, loopVars

LEMMA WhoActs ==
  ASSUME Next
  PROVE  \/ \E w \in Workers : Call(w)
         \/ \E w \in Workers : Loop(w) /\ UNCHANGED connVars
         \/ PeopleAct /\ UNCHANGED connVars
         \/ ConfigsAct
         \/ Faults
  BY DEF Next, Controller, Humans, PeopleAct, ConfigsAct

LEMMA NextIsRuntimeNext ==
  ASSUME LoopInv, Next
  PROVE  RuntimeNext \/ UNCHANGED runtimeVars
  <1>1. CASE \E w \in Workers : Call(w)
    BY <1>1, CallIsExternalCall DEF RuntimeNext
  <1>2. CASE \E w \in Workers : Loop(w)
    BY <1>2 DEF RuntimeNext
  <1>3. CASE PeopleAct
    BY <1>3 DEF PeopleAct, RuntimeNext
  <1>4. CASE ConfigsAct
    BY <1>4, ConfigsActElsewhere DEF RuntimeNext
  <1>5. CASE Faults
    BY <1>5 DEF Faults, RuntimeNext
  <1> QED BY <1>1, <1>2, <1>3, <1>4, <1>5, WhoActs

LEMMA ConfigKeepsLoopInv ==
  ASSUME LoopInv, [Next]_vars
  PROVE  [RuntimeNext]_runtimeVars /\ LoopInv'
  <1>1. [RuntimeNext]_runtimeVars
    BY NextIsRuntimeNext DEF vars, runtimeVars
  <1> QED BY <1>1, NextKeepsLoopInv

\* Connect asks nothing of the reconcile loop that the runtime does not expect
\* (Connect in team.go:157-184, and the same in the other controllers).
THEOREM ConfigImplementsRuntime == Spec => RuntimeSpec
  <1>1. Init => RuntimeInit /\ LoopInv
    BY InitLoopInv DEF Init
  <1>2. LoopInv /\ [Next]_vars => LoopInv' /\ [RuntimeNext]_runtimeVars
    BY ConfigKeepsLoopInv
  <1> QED BY <1>1, <1>2, PTL DEF Spec, RuntimeSpec

LEMMA NextIsCallOrRuntime ==
  ASSUME [Next]_vars
  PROVE  (\E w \in Workers : Call(w)) \/ RuntimeOnly
  <1>1. CASE \E w \in Workers : Loop(w)
    BY <1>1 DEF RuntimeOnly
  <1>2. CASE PeopleAct
    BY <1>2 DEF PeopleAct, RuntimeOnly
  <1>3. CASE ConfigsAct
    BY <1>3, ConfigsActElsewhere DEF RuntimeOnly
  <1>4. CASE Faults
    BY <1>4 DEF Faults, RuntimeOnly
  <1>5. CASE UNCHANGED vars
    BY <1>5 DEF vars, runtimeVars, kubeVars, loopVars, RuntimeOnly
  <1> QED BY <1>1, <1>2, <1>3, <1>4, <1>5, WhoActs

-----------------------------------------------------------------------------
(* What CRs and copies name.                                               *)

\* A write of a CR that names what was wanted.
LEMMA StoreKeepsWanted ==
  ASSUME ConfigInv, NEW q \in Resources, NEW o, Store(q, o),
         o.phase # "absent" => o.spec \in Wanted(q)
  PROVE  /\ \A r \in Resources : obj'[r].phase # "absent" => obj'[r].spec \in Wanted(r)
         /\ \A w \in Workers : cache'[w].phase # "absent" => cache'[w].spec \in Wanted(Target[w])
  BY DEF ConfigInv, LoopInv, RuntimeTypeOK, SpecsAreWanted, Store

LEMMA WrittenIsWanted ==
  ASSUME ConfigInv, [Next]_vars
  PROVE  /\ \A r \in Resources : obj'[r].phase # "absent" => obj'[r].spec \in Wanted(r)
         /\ \A w \in Workers : cache'[w].phase # "absent" => cache'[w].spec \in Wanted(Target[w])
  <1> DEFINE Goal == /\ \A r \in Resources : obj'[r].phase # "absent" => obj'[r].spec \in Wanted(r)
                     /\ \A w \in Workers : cache'[w].phase # "absent" =>
                                              cache'[w].spec \in Wanted(Target[w])
  <1>1. CASE UNCHANGED kubeVars
    BY <1>1 DEF ConfigInv, SpecsAreWanted, kubeVars
  <1>2. Nothing.phase = "absent"
    BY DEF Nothing
  <1>3. \A m \in Manifests : Applied(m).spec \in Wanted(m.r)
    BY RuntimeAssumption DEF Applied, Wanted
  <1>4. ASSUME NEW r \in Resources, NEW o, Revises(r, o)
        PROVE  o.phase # "absent" => o.spec \in Wanted(r)
    BY <1>4 DEF Revises, ConfigInv, SpecsAreWanted
  <1>5. \A q \in Resources : \A o :
          Store(q, o) /\ (o.phase # "absent" => o.spec \in Wanted(q)) => Goal
    BY StoreKeepsWanted
  <1>6. \A w \in Workers : Target[w] \in Resources
    BY TargetIsResource
  <1> HIDE DEF Goal
  <1>7. ASSUME NEW w \in Workers, Loop(w) PROVE Goal
    <2>1. CASE UNCHANGED kubeVars
      BY <1>1, <2>1 DEF Goal
    <2>2. CASE Store(Target[w], Nothing)
      BY <1>2, <1>5, <1>6, <2>2
    <2>3. CASE \E o : Store(Target[w], o) /\ Revises(Target[w], o)
      BY <1>4, <1>5, <1>6, <2>3
    <2> QED BY <1>7, <2>1, <2>2, <2>3, LoopWrites DEF ConfigInv
  <1>8. ASSUME PeopleAct PROVE Goal
    <2>1. PICK r \in Resources :
            \/ \E m \in Manifests : m.r = r /\ UserCreate(m)
            \/ UserDelete(r) \/ OperatorClear(r)
      BY <1>8, RuntimeAssumption DEF PeopleAct
    <2>2. \/ Store(r, Nothing)
          \/ \E m \in Manifests : m.r = r /\ Store(r, Applied(m))
          \/ \E o : Store(r, o) /\ Revises(r, o)
      BY <2>1, HumansWrite DEF ConfigInv
    <2> QED BY <1>2, <1>3, <1>4, <1>5, <2>2
  <1>9. ASSUME NEW w \in Workers, CacheSync(w) PROVE Goal
    <2>1. obj' = obj /\ cache' = [cache EXCEPT ![w] = obj[Target[w]]]
      BY <1>9 DEF CacheSync
    <2> QED BY <1>6, <2>1 DEF Goal, ConfigInv, LoopInv, RuntimeTypeOK, SpecsAreWanted
  <1>10. ASSUME NEW w \in Workers, Call(w) PROVE UNCHANGED kubeVars
    <2>1. CASE ExternalCall(w)
      BY <2>1 DEF ExternalCall
    <2>2. CASE UNCHANGED runtimeVars
      BY <2>2 DEF runtimeVars, kubeVars
    <2> QED BY <1>10, <2>1, <2>2, CallIsExternalCall DEF ConfigInv
  <1>11. CASE Faults
    BY <1>1, <1>9, <1>11 DEF Faults, Interrupt, Goal
  <1>12. CASE ConfigsAct
    BY <1>1, <1>12, ConfigsActElsewhere DEF Goal
  <1>13. CASE UNCHANGED vars
    BY <1>1, <1>13 DEF vars, runtimeVars, kubeVars, Goal
  <1>14. Goal
    BY <1>1, <1>7, <1>8, <1>10, <1>11, <1>12, <1>13, WhoActs DEF Goal
  <1> QED BY <1>14 DEF Goal

\* A call leaves the spec of the copy alone, and only Observe goes to "ensure".
LEMMA CallKeepsSpec ==
  ASSUME ConfigInv, NEW w \in Workers, Call(w), pc'[w] \in {"observe", "ensure"}
  PROVE  /\ pc[w] = "observe" /\ cr'[w].spec = cr[w].spec
         /\ \/ Connects(w) /\ pc'[w] = "observe"
            \/ Observe(w) /\ pc'[w] = "ensure" /\ conn[w] = "yes"
  <1> USE DEF ConfigInv
  <1>1. CASE Connects(w)
    BY <1>1 DEF Connects, Track, Resolve, Connecting, runtimeVars
  <1>2. CASE ~Connects(w)
    <2>1. ExternalCall(w)
      BY <1>2, CallIsExternalCall
    <2>2. PICK s \in Successors(pc[w], cr[w]), n \in Names, i \in Names :
            Goto(w, s, [cr[w] EXCEPT !.name = n, !.id = i])
      BY <2>1 DEF ExternalCall
    <2>3. cr'[w] = [cr[w] EXCEPT !.name = n, !.id = i] /\ pc'[w] = s /\ cr[w] \in Objects
      BY <2>2, CopyFacts DEF Goto, LoopInv, RuntimeTypeOK
    <2>4. cr'[w].spec = cr[w].spec
      BY <2>3 DEF Objects
    <2>5. pc'[w] = "ensure" /\ pc[w] = "observe"
      BY <2>2, <2>3 DEF Successors
    <2>6. Observe(w)
      <3>1. ~ConnectFails(w)
        BY <2>5 DEF ConnectFails, Report, Goto, LoopInv, RuntimeTypeOK
      <3> QED BY <1>2, <2>5, <3>1 DEF Call, Connects, Create, Update, Delete
    <2> QED BY <2>4, <2>5, <2>6 DEF Observe, Connecting
  <1> QED BY <1>1, <1>2

LEMMA SpecsStep ==
  ASSUME ConfigInv, [Next]_vars
  PROVE  SpecsAreWanted'
  <1> USE DEF ConfigInv
  <1> SUFFICES ASSUME NEW v \in Workers, pc'[v] \in {"observe", "ensure"}
               PROVE  cr'[v].spec \in Wanted(Target[v])
    BY WrittenIsWanted DEF SpecsAreWanted, Wanted
  <1>1. CASE \E w \in Workers : Call(w)
    <2> PICK w \in Workers : Call(w)
      BY <1>1
    <2>1. CASE v = w
      BY <2>1, CallKeepsSpec DEF SpecsAreWanted
    <2>2. CASE v # w
      <3>1. pc'[v] = pc[v] /\ cr'[v] = cr[v]
        <4>1. CASE ExternalCall(w)
          BY <2>2, <4>1, CallIsLocal
        <4>2. CASE UNCHANGED runtimeVars
          BY <4>2 DEF runtimeVars
        <4> QED BY <4>1, <4>2, CallIsExternalCall
      <3> QED BY <3>1 DEF SpecsAreWanted
    <2> QED BY <2>1, <2>2
  <1>2. CASE RuntimeOnly
    BY <1>2, WhoObserves DEF SpecsAreWanted
  <1> QED BY <1>1, <1>2, NextIsCallOrRuntime

-----------------------------------------------------------------------------
(* The types, and what Connect remembers.                                  *)

LEMMA TypesStep ==
  ASSUME ConfigInv, [Next]_vars
  PROVE  ConfigTypeOK'
  <1> USE DEF ConfigInv, ConfigTypeOK
  <1>1. ASSUME NEW w \in Workers, Call(w) PROVE ConfigTypeOK'
    <2>1. Target[w] \in Resources /\ ref(cr[w]) \in Configs
      BY CopyFacts, ProviderConfigAssumption DEF ref
    <2>2. CASE Track(w)
      BY <2>1, <2>2 DEF Track, Advance
    <2>3. CASE Resolve(w) \/ ConnectFails(w) \/ Observe(w)
      BY <2>3 DEF Resolve, ConnectFails, Observe, Advance, configVars
    <2>4. CASE Create(w) \/ Update(w) \/ Delete(w)
      BY <2>1, <2>4 DEF Create, Update, Delete, configVars, connVars
    <2> QED BY <1>1, <2>2, <2>3, <2>4 DEF Call
  <1>2. CASE ConfigsAct
    <2>1. ASSUME NEW c \in Configs, NEW o \in [phase: {"absent", "live", "deleting"}, fin: BOOLEAN],
                 config' = [config EXCEPT ![c] = o]
          PROVE  config' \in [Configs -> [phase: {"absent", "live", "deleting"}, fin: BOOLEAN]]
      BY <2>1
    <2>2. ASSUME NEW c \in Configs, Reconcile(c) PROVE ConfigTypeOK'
      <3> DEFINE marked == [config[c] EXCEPT !.fin = TRUE]
      <3>1. marked \in [phase: {"absent", "live", "deleting"}, fin: BOOLEAN]
        OBVIOUS
      <3>2. NoSuchConfig \in [phase: {"absent", "live", "deleting"}, fin: BOOLEAN]
        BY DEF NoSuchConfig
      <3>3. config' = [config EXCEPT ![c] = marked] \/ config' = [config EXCEPT ![c] = NoSuchConfig]
        BY <2>2 DEF Reconcile
      <3>4. UNCHANGED <<usage, secret, conn, there>>
        BY <2>2 DEF Reconcile
      <3> HIDE DEF marked
      <3> QED BY <2>1, <3>1, <3>2, <3>3, <3>4
    <2>3. ASSUME NEW c \in Configs, CreateConfig(c) \/ DeleteConfig(c) PROVE ConfigTypeOK'
      BY <2>1, <2>3 DEF CreateConfig, DeleteConfig, SetConfig
    <2>4. ASSUME NEW r \in Resources, Collect(r) PROVE ConfigTypeOK'
      BY <2>4 DEF Collect
    <2>5. ASSUME ToggleSecret PROVE ConfigTypeOK'
      BY <2>5 DEF ToggleSecret
    <2> QED BY <1>2, <2>2, <2>3, <2>4, <2>5 DEF ConfigsAct
  <1>3. CASE Faults
    BY <1>3 DEF Faults, configVars
  <1>4. CASE UNCHANGED connVars
    BY <1>4 DEF connVars
  <1> QED BY <1>1, <1>2, <1>3, <1>4, WhoActs DEF vars, connVars

\* Whoever moves a loop to or from Observe leaves no half-made connection.
LEMMA ConnStep ==
  ASSUME ConfigInv, [Next]_vars
  PROVE  /\ ConnectsInObserve'
         /\ \A v \in Workers : ~Call(v) /\ pc'[v] = "observe" => conn'[v] = conn[v]
  <1> USE DEF ConfigInv
  <1>1. CASE \E w \in Workers : Call(w)
    <2> PICK w \in Workers : Call(w)
      BY <1>1
    <2>1. \A v \in Workers : v # w => pc'[v] = pc[v] /\ conn'[v] = conn[v]
      <3>1. \A v \in Workers : v # w => conn'[v] = conn[v]
        BY DEF Call, Track, Resolve, ConnectFails, Observe, Create, Update, Delete, Advance,
               configVars, connVars, ConfigTypeOK
      <3>2. CASE ExternalCall(w)
        BY <3>1, <3>2, CallIsLocal
      <3>3. CASE UNCHANGED runtimeVars
        BY <3>1, <3>3 DEF runtimeVars
      <3> QED BY <3>2, <3>3, CallIsExternalCall
    <2>2. pc'[w] # "observe" => conn'[w] = "no"
      <3>1. CASE Connects(w)
        BY <3>1 DEF Connects, Track, Resolve, Connecting, runtimeVars
      <3>2. CASE ConnectFails(w) \/ Observe(w)
        BY <3>2 DEF ConnectFails, Observe, Advance, ConfigTypeOK
      <3>3. CASE Create(w) \/ Update(w) \/ Delete(w)
        BY <3>3 DEF Create, Update, Delete, connVars, ConnectsInObserve
      <3> QED BY <3>1, <3>2, <3>3 DEF Call, Connects
    <2> QED BY <2>1, <2>2 DEF ConnectsInObserve
  <1>2. CASE Faults
    <2>1. conn' = [w \in Workers |-> IF pc'[w] = "idle" THEN "no" ELSE conn[w]]
      BY <1>2 DEF Faults
    <2>2. \A v \in Workers : pc'[v] = "idle" \/ pc'[v] = pc[v]
      BY <1>2 DEF Faults, Interrupt, CacheSync
    <2> QED BY <2>1, <2>2 DEF ConnectsInObserve
  <1>3. CASE (PeopleAct /\ UNCHANGED connVars) \/ ConfigsAct \/ UNCHANGED vars
    <2>1. PeopleAct => UNCHANGED pc
      BY DEF PeopleAct, UserCreate, UserDelete, OperatorClear, HumanWrite
    <2>2. ConfigsAct => UNCHANGED <<pc, conn>>
      BY ConfigsActElsewhere DEF loopVars
    <2>3. UNCHANGED <<pc, conn>>
      BY <1>3, <2>1, <2>2 DEF vars, connVars, runtimeVars
    <2> QED BY <2>3 DEF ConnectsInObserve
  <1>4. ASSUME NEW w \in Workers, Loop(w), UNCHANGED connVars
        PROVE  /\ ConnectsInObserve'
               /\ \A v \in Workers : conn'[v] = conn[v]
    <2>1. UNCHANGED conn
      BY <1>4 DEF connVars
    <2>2. pc[w] # "observe"
      BY <1>4 DEF Loop, Start, AddFinalizer, SetPending, Annotate, AnnotateLost, UpdateStatus,
                  RemoveFinalizer
    <2>3. \E s, c : Goto(w, s, c)
      BY <1>4 DEF Loop, Start, AddFinalizer, SetPending, Annotate, AnnotateLost, UpdateStatus,
                  RemoveFinalizer, UpdateCR, UpdateAndFinish, Finish
    <2>4. \A v \in Workers : v # w => pc'[v] = pc[v]
      BY <2>3 DEF Goto, LoopInv, RuntimeTypeOK
    <2> QED BY <2>1, <2>2, <2>4 DEF ConnectsInObserve
  <1> QED BY <1>1, <1>2, <1>3, <1>4, WhoActs

-----------------------------------------------------------------------------
(* A config is held once it is.                                            *)

\* Nobody takes a usage away from a CR that is there, or a config that is used.
LEMMA UsageStays ==
  ASSUME ConfigInv, [Next]_vars, NEW r \in Resources, NEW c \in Wanted(r),
         obj[r].phase # "absent", usage[r] = c
  PROVE  usage'[r] = c /\ (config[c].phase # "absent" => config'[c].phase # "absent")
  <1> USE DEF ConfigInv, ConfigTypeOK
  <1>0. c \in Configs
    BY OneSpecIsWanted
  <1>1. ASSUME NEW w \in Workers, Call(w) PROVE usage'[r] = c /\ config' = config
    <2>1. CASE Track(w)
      <3>1. cr[w].spec \in Wanted(Target[w])
        BY <2>1 DEF Track, Connecting, SpecsAreWanted
      <3>2. Target[w] = r => ref(cr[w]) = c
        BY <3>1, OneSpecIsWanted DEF ref
      <3>3. config' = config /\ usage' = [usage EXCEPT ![Target[w]] = ref(cr[w])]
        BY <2>1 DEF Track
      <3> QED BY <3>2, <3>3
    <2>2. CASE ~Track(w)
      BY <1>1, <2>2 DEF Call, Resolve, ConnectFails, Observe, Create, Update, Delete,
                        configVars, connVars
    <2> QED BY <2>1, <2>2
  <1>2. CASE ConfigsAct
    <2>1. ASSUME NEW d \in Configs, Reconcile(d)
          PROVE  usage' = usage /\ (config[c].phase # "absent" => config'[c].phase # "absent")
      BY <1>0, <2>1 DEF Reconcile, InUse
    <2>2. ASSUME NEW d \in Configs, CreateConfig(d) \/ DeleteConfig(d)
          PROVE  usage' = usage /\ (config[c].phase # "absent" => config'[c].phase # "absent")
      BY <1>0, <2>2 DEF CreateConfig, DeleteConfig, SetConfig
    <2>3. ASSUME NEW q \in Resources, Collect(q) PROVE usage'[r] = c /\ config' = config
      BY <2>3 DEF Collect
    <2>4. ToggleSecret => usage' = usage /\ config' = config
      BY DEF ToggleSecret
    <2> QED BY <1>2, <2>1, <2>2, <2>3, <2>4 DEF ConfigsAct
  <1>3. CASE Faults
    BY <1>3 DEF Faults, configVars
  <1>4. CASE UNCHANGED connVars
    BY <1>4 DEF connVars
  <1> QED BY <1>1, <1>2, <1>3, <1>4, WhoActs DEF vars, connVars

LEMMA HeldStays ==
  ASSUME ConfigInv, [Next]_vars, NEW r \in Resources, NEW c \in Wanted(r),
         obj[r].phase # "absent", Held(r, c)
  PROVE  usage'[r] = c /\ config'[c].phase # "absent"
  BY UsageStays DEF Held

\* A CR has its finalizer from before, or from a loop with a fresh copy.
LEMMA WhoFinalizes ==
  ASSUME ConfigInv, [Next]_vars, NEW r \in Resources, obj'[r].phase # "absent", obj'[r].fin
  PROVE  /\ obj[r].phase # "absent" /\ obj'[r].spec = obj[r].spec
         /\ \/ obj[r].fin
            \/ \E w \in Workers : Target[w] = r /\ pc[w] = "ensure" /\ fresh[w]
  <1> DEFINE Goal == /\ obj[r].phase # "absent" /\ obj'[r].spec = obj[r].spec
                     /\ \/ obj[r].fin
                        \/ \E w \in Workers : Target[w] = r /\ pc[w] = "ensure" /\ fresh[w]
  <1>1. CASE obj' = obj
    BY <1>1
  <1>2. ASSUME NEW q \in Resources, NEW o, Store(q, o)
        PROVE  IF q = r THEN obj'[r] = o ELSE obj'[r] = obj[r]
    BY <1>2 DEF Store, ConfigInv, LoopInv, RuntimeTypeOK
  <1>3. Nothing.phase = "absent" /\ \A m \in Manifests : ~Applied(m).fin
    BY DEF Nothing, Applied
  <1>4. ASSUME NEW w \in Workers, Loop(w) PROVE Goal
    <2>1. Target[w] \in Resources
      BY TargetIsResource
    <2>2. CASE UNCHANGED kubeVars
      BY <1>1, <2>2 DEF kubeVars
    <2>3. CASE Store(Target[w], Nothing)
      BY <1>2, <1>3, <2>1, <2>3
    <2>4. CASE \E o : Store(Target[w], o) /\ Revises(Target[w], o)
      BY <1>2, <2>1, <2>4 DEF Revises
    <2> QED BY <1>4, <2>2, <2>3, <2>4, LoopWrites DEF ConfigInv
  <1>5. CASE PeopleAct
    <2>1. PICK q \in Resources :
            \/ \E m \in Manifests : m.r = q /\ UserCreate(m)
            \/ UserDelete(q) \/ OperatorClear(q)
      BY <1>5, RuntimeAssumption DEF PeopleAct
    <2>2. \/ Store(q, Nothing)
          \/ \E m \in Manifests : m.r = q /\ Store(q, Applied(m))
          \/ \E o : Store(q, o) /\ Revises(q, o)
      BY <2>1, HumansWrite DEF ConfigInv
    <2> QED BY <1>2, <1>3, <2>2 DEF Revises
  <1>6. ASSUME NEW w \in Workers, Call(w) PROVE obj' = obj
    BY <1>6, CallIsExternalCall, CallIsLocal DEF ConfigInv, runtimeVars
  <1>7. CASE Faults
    BY <1>1, <1>7 DEF Faults, Interrupt, CacheSync, kubeVars
  <1>8. CASE ConfigsAct \/ UNCHANGED vars
    BY <1>1, <1>8, ConfigsActElsewhere DEF kubeVars, vars, runtimeVars
  <1> QED BY <1>1, <1>4, <1>5, <1>6, <1>7, <1>8, WhoActs

\* The CR of a fresh copy is there.
LEMMA FreshIsThere ==
  ASSUME ConfigInv, NEW w \in Workers, fresh[w], pc[w] \in {"observe", "ensure"}
  PROVE  obj[Target[w]].phase # "absent" /\ cr[w].spec \in Wanted(Target[w])
  BY DEF ConfigInv, LoopInv, FreshAgrees, CopyIsSound, Early, SpecsAreWanted

LEMMA FinalizedStep ==
  ASSUME ConfigInv, [Next]_vars
  PROVE  FinalizedHold'
  <1> SUFFICES ASSUME NEW r \in Resources, obj'[r].phase # "absent", obj'[r].fin
               PROVE  usage'[r] = obj'[r].spec /\ config'[obj'[r].spec].phase # "absent"
    BY DEF FinalizedHold, Held, ref
  <1>1. obj[r].phase # "absent" /\ obj'[r].spec = obj[r].spec
    BY WhoFinalizes
  <1>2. obj[r].spec \in Wanted(r)
    BY <1>1 DEF ConfigInv, SpecsAreWanted
  <1>3. Held(r, obj[r].spec)
    <2>1. CASE obj[r].fin
      BY <1>1, <2>1 DEF ConfigInv, FinalizedHold, ref
    <2>2. CASE ~obj[r].fin
      <3>1. PICK w \in Workers : Target[w] = r /\ pc[w] = "ensure" /\ fresh[w]
        BY <2>2, WhoFinalizes
      <3>2. Held(r, cr[w].spec)
        BY <3>1 DEF ConfigInv, FreshCopiesHold, ref
      <3>3. cr[w].spec = obj[r].spec
        BY <1>2, <3>1, FreshIsThere, OneSpecIsWanted
      <3> QED BY <3>2, <3>3
    <2> QED BY <2>1, <2>2
  <1>4. usage'[r] = obj[r].spec /\ config'[obj[r].spec].phase # "absent"
    BY <1>1, <1>2, <1>3, HeldStays
  <1> QED BY <1>1, <1>4

\* A step leaves a loop what it has connected to, or its copy fresh no longer.
LEMMA FreshCopiesStep ==
  ASSUME ConfigInv, [Next]_vars
  PROVE  FreshCopiesHold'
  <1> SUFFICES ASSUME NEW v \in Workers, fresh'[v], pc'[v] \in {"observe", "ensure"}
               PROVE  /\ pc'[v] = "observe" /\ conn'[v] # "no" => usage'[Target[v]] = cr'[v].spec
                      /\ (pc'[v] = "observe" => conn'[v] = "yes") =>
                            /\ usage'[Target[v]] = cr'[v].spec
                            /\ config'[cr'[v].spec].phase # "absent"
    BY DEF FreshCopiesHold, Held, ref
  <1> USE DEF ConfigInv
  <1>0. Target[v] \in Resources
    BY TargetIsResource
  <1>1. CASE Call(v)
    <2>1. /\ pc[v] = "observe" /\ cr'[v].spec = cr[v].spec
          /\ \/ Connects(v) /\ pc'[v] = "observe"
             \/ Observe(v) /\ pc'[v] = "ensure" /\ conn[v] = "yes"
      BY <1>1, CallKeepsSpec
    <2>2. fresh[v]
      BY <1>1, CallIsExternalCall, CallIsLocal DEF runtimeVars
    <2>3. CASE Track(v)
      <3>1. conn'[v] = "tracked" /\ usage'[Target[v]] = cr[v].spec /\ pc' = pc
        BY <1>0, <2>3 DEF Track, Advance, ConfigTypeOK, ref, runtimeVars
      <3> QED BY <2>1, <3>1
    <2>4. CASE Resolve(v)
      <3>1. /\ conn[v] = "tracked" /\ config[cr[v].spec].phase # "absent"
            /\ config' = config /\ usage' = usage
        BY <2>4 DEF Resolve, Connecting, ref, configVars
      <3>2. usage[Target[v]] = cr[v].spec
        BY <2>1, <2>2, <3>1 DEF FreshCopiesHold, ref
      <3> QED BY <2>1, <3>1, <3>2
    <2>5. CASE Observe(v)
      <3>1. conn[v] = "yes" /\ config' = config /\ usage' = usage
        BY <2>5 DEF Observe, Connecting, configVars
      <3>2. usage[Target[v]] = cr[v].spec /\ config[cr[v].spec].phase # "absent"
        BY <2>1, <2>2, <3>1 DEF FreshCopiesHold, Held, ref
      <3> QED BY <2>1, <3>1, <3>2
    <2> QED BY <2>1, <2>3, <2>4, <2>5 DEF Connects
  <1>2. ASSUME fresh[v], pc'[v] = pc[v], cr'[v] = cr[v], ~Call(v)
        PROVE  /\ pc'[v] = "observe" /\ conn'[v] # "no" => usage'[Target[v]] = cr'[v].spec
               /\ (pc'[v] = "observe" => conn'[v] = "yes") =>
                     /\ usage'[Target[v]] = cr'[v].spec
                     /\ config'[cr'[v].spec].phase # "absent"
    <2>1. obj[Target[v]].phase # "absent" /\ cr[v].spec \in Wanted(Target[v])
      BY <1>2, FreshIsThere
    <2>2. pc'[v] = "observe" => conn'[v] = conn[v]
      BY <1>2, ConnStep
    <2>3. usage[Target[v]] = cr[v].spec =>
            /\ usage'[Target[v]] = cr[v].spec
            /\ config[cr[v].spec].phase # "absent" => config'[cr[v].spec].phase # "absent"
      BY <1>0, <2>1, UsageStays
    <2>4. /\ pc[v] = "observe" /\ conn[v] # "no" => usage[Target[v]] = cr[v].spec
          /\ (pc[v] = "observe" => conn[v] = "yes") =>
                usage[Target[v]] = cr[v].spec /\ config[cr[v].spec].phase # "absent"
      BY <1>2 DEF FreshCopiesHold, Held, ref
    <2> QED BY <1>2, <2>2, <2>3, <2>4
  <1>3. CASE ~Call(v) /\ \E w \in Workers : Call(w)
    <2>1. fresh[v] /\ pc'[v] = pc[v] /\ cr'[v] = cr[v]
      BY <1>3, CallIsExternalCall, CallIsLocal DEF runtimeVars
    <2> QED BY <1>2, <1>3, <2>1
  <1>4. CASE ~Call(v) /\ RuntimeOnly
    <2>1. CASE pc'[v] = pc[v] /\ cr'[v] = cr[v] /\ (fresh'[v] => fresh[v])
      BY <1>2, <1>4, <2>1
    <2>2. CASE pc'[v] = "observe" /\ pc[v] = "idle"
      <3>1. conn'[v] = "no"
        BY <1>4, <2>2, ConnStep DEF ConnectsInObserve
      <3> QED BY <2>2, <3>1
    <2> QED BY <1>4, <2>1, <2>2, WhoObserves
  <1> QED BY <1>1, <1>3, <1>4, NextIsCallOrRuntime

-----------------------------------------------------------------------------
LEMMA InitConfigInv == Init => ConfigInv
  <1> SUFFICES ASSUME Init PROVE ConfigInv
    OBVIOUS
  <1>1. LoopInv /\ RuntimeInit
    BY InitLoopInv DEF Init
  <1>2. ConfigTypeOK /\ ConnectsInObserve
    BY DEF Init, ConfigTypeOK, ConnectsInObserve
  <1>3. \A r \in Resources : obj[r].spec \in Wanted(r) /\ ~obj[r].fin
    BY <1>1 DEF RuntimeInit, Applied, Wanted
  <1>4. SpecsAreWanted
    BY <1>1, <1>3, TargetIsResource DEF RuntimeInit, SpecsAreWanted
  <1>5. FinalizedHold /\ FreshCopiesHold
    BY <1>1, <1>3 DEF RuntimeInit, FinalizedHold, FreshCopiesHold
  <1> QED BY <1>1, <1>2, <1>4, <1>5 DEF ConfigInv

\* Usage before config, config before finalizer: what has been established stays.
THEOREM ConfigInvariant == Spec => []ConfigInv
  <1>1. ConfigInv /\ [Next]_vars => ConfigInv'
    <2> SUFFICES ASSUME ConfigInv, [Next]_vars PROVE ConfigInv'
      OBVIOUS
    <2>1. LoopInv'
      BY ConfigKeepsLoopInv DEF ConfigInv
    <2>2. ConfigTypeOK' /\ ConnectsInObserve' /\ SpecsAreWanted'
      BY TypesStep, ConnStep, SpecsStep
    <2>3. FinalizedHold' /\ FreshCopiesHold'
      BY FinalizedStep, FreshCopiesStep
    <2> QED BY <2>1, <2>2, <2>3 DEF ConfigInv
  <1> QED BY <1>1, InitConfigInv, PTL DEF Spec

\* Types, of the loop and of Connect.
THEOREM ConfigTypeCorrect == Spec => []TypeOK
  <1>1. ConfigInv => TypeOK
    BY DEF ConfigInv, ConfigTypeOK, LoopInv, TypeOK
  <1> QED BY <1>1, ConfigInvariant, PTL

\* The config of a CR with a finalizer is there, however many loops, whatever is
\* deleted and however far the cache trails (team.go:165-171, config.go:42-57).
THEOREM ConfigsOutlastTheirUse == Spec => []ConfigOutlastsUse
  <1>1. ConfigInv => ConfigOutlastsUse
    BY DEF ConfigInv, FinalizedHold, Held, ConfigOutlastsUse
  <1> QED BY <1>1, ConfigInvariant, PTL

==============================================================================
