----------------------------- MODULE GatewayProofs -----------------------------
(***************************************************************************)
(* Proofs about the Gateway controller: it keeps to what the runtime asks  *)
(* of a component, no gateway is ever without a team, a CR bound to a      *)
(* gateway never makes another one, and a CR that loses its finalizer      *)
(* leaves no gateway behind under its external-name.                       *)
(***************************************************************************)
EXTENDS GatewayController, LockProofs

GatewayTypeOK ==
    /\ gateways \in [GatewayIDs -> Gateways]
    /\ teamOf \in [Resources -> TeamIDs \cup {NoTeam}]
    /\ tid \in [Workers -> TeamIDs \cup {NoTeam}]

\* Every gateway that was asked for has a team, and so has every request.
AllHaveTeams == \A i \in GatewayIDs : gateways[i].st # "unused" => gateways[i].team \in TeamIDs

RequestsHaveTeams == \A w \in Workers : pc[w] \in {"post", "put"} => tid[w] \in TeamIDs

\* A name that is a gateway's ID is the ID of a gateway that was made.
Known(n) == n \in GatewayIDs => gateways[n].st \in {"live", "gone"}

NamesAreKnown ==
    /\ \A i \in Existing : Known(i)
    /\ \A r \in Resources : Known(obj[r].name)
    /\ \A w \in Workers : Known(cache[w].name) /\ Known(cr[w].name)

\* A loop about to remove the finalizer has seen the gateway gone.
FinalizingMeansGone == \A w \in Workers : pc[w] = "finalize" => ~Live(cr[w].name)

\* A loop on its way to a creation has seen no gateway of the ID the CR is
\* bound to, and when it gets there the stored name is still that one.
CreatingMeansUnbound ==
    \A w \in Workers :
        /\ pc[w] = "ensure" /\ plan[w] = "create" => ~Live(cr[w].name)
        /\ pc[w] = "pend" => ~Live(cr[w].name)
        /\ pc[w] \in {"create", "post"} => ~Live(obj[Target[w]].name)

GatewayInv ==
    /\ LoopInv
    /\ byName \in BOOLEAN
    /\ GatewayTypeOK
    /\ AllHaveTeams
    /\ RequestsHaveTeams
    /\ NamesAreKnown
    /\ FinalizingMeansGone
    /\ CreatingMeansUnbound

-----------------------------------------------------------------------------
LEMMA SpecsAreParameters ==
  \A s \in Specs : s.name \in GatewayNames \cup {Unset} /\ s.url \in Urls /\ s.body \in Bodies
                   /\ s.desc \in Descs \cup {Unset} /\ s.tags \in TagSets
  BY GatewayAssumption DEF GatewayParameters

LEMMA MadeIsGateway ==
  ASSUME NEW n \in GatewayNames
  PROVE  /\ Blank \in Gateways /\ Blank.st = "unused"
         /\ \A t \in TeamIDs : /\ Made(n, t) \in Gateways
                               /\ Made(n, t).st = "live" /\ Made(n, t).team = t
  <1>1. Urls # {} /\ Bodies # {}
    BY SpecsAreParameters, RuntimeAssumption
  <1>2. /\ (CHOOSE b \in Bodies : TRUE) \in Bodies
        /\ (CHOOSE u \in Urls : TRUE) \in Urls
        /\ (CHOOSE m \in GatewayNames : TRUE) \in GatewayNames
    BY <1>1
  <1>3. Blank \in Gateways /\ Blank.st = "unused"
    BY <1>2, GatewayAssumption DEF Blank, Gateways
  <1> QED BY <1>3 DEF Made, Gateways

LEMMA ResolvedIsName ==
  ASSUME NEW r \in Resources, NEW s \in Specs
  PROVE  resolvedName(r, s) \in GatewayNames
  BY SpecsAreParameters, GatewayAssumption DEF resolvedName

LEMMA UpdatedIsGateway ==
  ASSUME NEW r \in Resources, NEW s \in Specs, NEW t \in TeamIDs, NEW g \in Gateways
  PROVE  /\ toGatewayUpdate(r, s, t, g) \in Gateways
         /\ toGatewayUpdate(r, s, t, g).st = g.st
         /\ toGatewayUpdate(r, s, t, g).team = t
  BY SpecsAreParameters, ResolvedIsName DEF toGatewayUpdate, Sent, SentTags, Gateways

LEMMA IDsAreNames ==
  /\ NoName \in Names /\ GatewayIDs \subseteq Names /\ LiveGateways \subseteq GatewayIDs
  /\ \A n : Answering(n) \subseteq LiveGateways /\ Addressed(n) \subseteq LiveGateways
  /\ \A w \in Workers : Target[w] \in Resources
  BY RuntimeAssumption DEF Names, GatewayIDs, LiveGateways, Answering, Addressed

-----------------------------------------------------------------------------
(* Every call of the component keeps to ExternalCall.                      *)

\* What a call does to the loop that makes it.
CallForm(w) ==
    \/ pc[w] = "observe" /\ \E e, u \in BOOLEAN : Observed(w, cr[w], e, u)
    \/ /\ pc[w] = "observe"
       /\ \E i \in LiveGateways, u \in BOOLEAN : Observed(w, toObservation(cr[w], i), TRUE, u)
    \/ /\ pc[w] \in {"observe", "update", "put", "delete"}
       /\ Report(w, cr[w]) \/ \E i \in LiveGateways : Report(w, toObservation(cr[w], i))
    \/ pc[w] \in {"post", "adopt"} /\ \E i \in GatewayIDs : Adopted(w, i)
    \/ pc[w] \in {"create", "post", "adopt"} /\ CreateFailed(w)
    \/ /\ \E s \in {"post", "adopt", "put"} : s \in Successors(pc[w], cr[w]) /\ Goto(w, s, cr[w])
       /\ UNCHANGED <<kubeVars, fresh, plan, budget>>

LEMMA CallHasForm ==
  ASSUME LoopInv, NEW w \in Workers, Call(w)
  PROVE  CallForm(w) /\ (Disrupt \/ UNCHANGED budget)
  <1>1. \A i \in GatewayIDs : isUpToDate(Target[w], cr[w].spec, teamOf[Target[w]], gateways[i]) \in BOOLEAN
    BY DEF isUpToDate
  <1>2. \A i : Answering(cr[w].name) \subseteq LiveGateways /\ Addressed(cr[w].name) \subseteq LiveGateways
               /\ LiveGateways \subseteq GatewayIDs
    BY IDsAreNames
  <1>3. CASE Observe(w)
    BY <1>1, <1>2, <1>3 DEF Observe, CallForm
  <1>4. CASE CreateResolve(w) \/ UpdateResolve(w)
    BY <1>4 DEF CreateResolve, UpdateResolve, resolveTeamID, ResolveFails, CallForm, Successors
  <1>5. CASE Post(w)
    BY <1>5 DEF Post, CallForm, Successors
  <1>6. CASE Adopt(w)
    <2>1. Answering(resolvedName(Target[w], cr[w].spec)) \subseteq GatewayIDs
      BY IDsAreNames
    <2> QED BY <1>6, <2>1 DEF Adopt, CallForm
  <1>7. CASE Put(w)
    BY <1>2, <1>7 DEF Put, CallForm
  <1>8. CASE Delete(w)
    BY <1>8 DEF Delete, CallForm
  <1> QED BY <1>3, <1>4, <1>5, <1>6, <1>7, <1>8 DEF Call

LEMMA CallIsExternalCall ==
  ASSUME LoopInv, NEW w \in Workers, Call(w)
  PROVE  ExternalCall(w)
  <1>1. CallForm(w) /\ (Disrupt \/ UNCHANGED budget) /\ NoName \in Names
    BY CallHasForm, IDsAreNames
  <1>2. \A i \in LiveGateways : i \in Names
    BY IDsAreNames
  <1>3. CASE pc[w] = "observe" /\ \E e, u \in BOOLEAN : Observed(w, cr[w], e, u)
    BY <1>1, <1>3, ObservedIsCall
  <1>4. CASE /\ pc[w] = "observe"
             /\ \E i \in LiveGateways, u \in BOOLEAN : Observed(w, toObservation(cr[w], i), TRUE, u)
    BY <1>1, <1>2, <1>4, ObservedIsCall DEF toObservation
  <1>5. CASE /\ pc[w] \in {"observe", "update", "put", "delete"}
             /\ Report(w, cr[w]) \/ \E i \in LiveGateways : Report(w, toObservation(cr[w], i))
    BY <1>1, <1>2, <1>5, ReportIsCall DEF toObservation
  <1>6. CASE pc[w] \in {"post", "adopt"} /\ \E i \in GatewayIDs : Adopted(w, i)
    BY <1>1, <1>6, IDsAreNames, CreatedIsCall DEF Adopted, toObservation
  <1>7. CASE pc[w] \in {"create", "post", "adopt"} /\ CreateFailed(w)
    BY <1>1, <1>7, CreateFailedIsCall
  <1>8. CASE /\ \E s \in {"post", "adopt", "put"} :
                   s \in Successors(pc[w], cr[w]) /\ Goto(w, s, cr[w])
             /\ UNCHANGED <<kubeVars, fresh, plan, budget>>
    BY <1>8, GoesOnIsCall
  <1> QED BY <1>1, <1>3, <1>4, <1>5, <1>6, <1>7, <1>8 DEF CallForm

LEMMA HumansAct ==
  ASSUME Humans
  PROVE  /\ \/ \E m \in Manifests : UserCreate(m)
            \/ \E r \in Resources : UserDelete(r) \/ OperatorClear(r)
            \/ \E r \in Resources, s \in Specs : UserEdit(r, s)
         /\ UNCHANGED gatewayVars
  <1>1. \A m \in Manifests : m.spec \in Specs
    BY RuntimeAssumption
  <1> QED BY <1>1 DEF Humans, Edit

LEMMA OthersActElsewhere ==
  ASSUME Others
  PROVE  (Elsewhere \/ UNCHANGED runtimeVars) /\ UNCHANGED <<kubeVars, loopVars, tid>>
  <1>1. \A i, new : OutOfBand(i, new) => Elsewhere /\ UNCHANGED tid
    BY DEF OutOfBand, Elsewhere
  <1>2. \A r, t : TeamStatus(r, t) => (Elsewhere \/ UNCHANGED runtimeVars) /\ UNCHANGED tid
    BY DEF TeamStatus, Elsewhere, runtimeVars, kubeVars, loopVars
  <1>3. \A i : Land(i) => UNCHANGED runtimeVars /\ UNCHANGED tid
    BY DEF Land
  <1> QED BY <1>1, <1>2, <1>3 DEF Others, ForeignCreate, ForeignDelete, ForeignEdit,
          Elsewhere, runtimeVars, kubeVars, loopVars

LEMMA NextIsRuntimeNext ==
  ASSUME LoopInv, Next
  PROVE  RuntimeNext \/ UNCHANGED runtimeVars
  <1>1. CASE \E w \in Workers : Controller(w)
    BY <1>1, CallIsExternalCall DEF Controller, RuntimeNext
  <1>2. CASE Humans
    BY <1>2, HumansAct DEF RuntimeNext
  <1>3. CASE Others
    BY <1>3, OthersActElsewhere DEF RuntimeNext
  <1>4. CASE Faults
    BY <1>4 DEF Faults, RuntimeNext
  <1> QED BY <1>1, <1>2, <1>3, <1>4 DEF Next

LEMMA GatewayKeepsLoopInv ==
  ASSUME LoopInv, [Next]_vars
  PROVE  [RuntimeNext]_runtimeVars /\ LoopInv'
  <1>1. [RuntimeNext]_runtimeVars
    BY NextIsRuntimeNext DEF vars, runtimeVars
  <1> QED BY <1>1, NextKeepsLoopInv

\* The Gateway controller does of a CR only what the runtime expects of a
\* component (the external client, gateway.go:282-375).
THEOREM GatewayImplementsRuntime == Spec => RuntimeSpec
  <1>1. Init => RuntimeInit /\ LoopInv
    BY InitLoopInv DEF Init
  <1>2. LoopInv /\ [Next]_vars => LoopInv' /\ [RuntimeNext]_runtimeVars
    BY GatewayKeepsLoopInv
  <1> QED BY <1>1, <1>2, PTL DEF Spec, RuntimeSpec

LEMMA NextIsCallOrRuntime ==
  ASSUME [Next]_vars
  PROVE  (\E w \in Workers : Call(w)) \/ RuntimeOnly
  <1>1. CASE \E w \in Workers : Controller(w)
    BY <1>1 DEF Controller, RuntimeOnly
  <1>2. CASE Humans
    BY <1>2, HumansAct DEF RuntimeOnly
  <1>3. CASE Others
    BY <1>3, OthersActElsewhere DEF RuntimeOnly
  <1>4. CASE Faults
    BY <1>4 DEF Faults, RuntimeOnly
  <1>5. CASE UNCHANGED vars
    BY <1>5 DEF vars, runtimeVars, kubeVars, loopVars, RuntimeOnly
  <1> QED BY <1>1, <1>2, <1>3, <1>4, <1>5 DEF Next
-----------------------------------------------------------------------------
(* Gateways are made once, with a team, and do not come back.              *)

GatewaysGrow == \A i \in GatewayIDs :
    /\ gateways[i].st \in {"live", "gone"} => gateways'[i].st \in {"live", "gone"}
    /\ gateways[i].st = "gone" => gateways'[i].st = "gone"

GatewaysFine ==
    /\ gateways' \in [GatewayIDs -> Gateways]
    /\ AllHaveTeams'
    /\ GatewaysGrow

LEMMA NoGatewayChanges ==
  ASSUME GatewayTypeOK, AllHaveTeams, UNCHANGED gateways
  PROVE  GatewaysFine
  BY DEF GatewayTypeOK, AllHaveTeams, GatewaysGrow, GatewaysFine

\* One gateway changes, from a state that allows it, or none does.
LEMMA OneGatewayChanges ==
  ASSUME GatewayTypeOK, AllHaveTeams, NEW i \in GatewayIDs, NEW o \in Gateways,
         o.team \in TeamIDs, gateways' = [gateways EXCEPT ![i] = o] \/ gateways' = gateways,
         \/ gateways[i].st \in {"unused", "sent"}
         \/ gateways[i].st = "live" /\ o.st \in {"live", "gone"}
  PROVE  GatewaysFine
  BY DEF GatewayTypeOK, AllHaveTeams, GatewaysGrow, GatewaysFine

LEMMA MakesFine ==
  ASSUME GatewayInv, NEW w \in Workers, pc[w] = "post", NEW i \in GatewayIDs,
         NEW st \in {"live", "sent"}, Makes(w, i, st)
  PROVE  /\ GatewaysFine
         /\ gateways'[i].st = st
  <1> USE DEF GatewayInv
  <1> DEFINE o == [toGatewayCreate(Target[w], cr[w].spec, tid[w]) EXCEPT !.st = st]
  <1>1. o \in Gateways /\ o.st = st /\ o.team \in TeamIDs
    <2>1. Target[w] \in Resources /\ cr[w].spec \in Specs /\ tid[w] \in TeamIDs
      BY CopyFacts DEF RequestsHaveTeams
    <2>2. o \in Gateways /\ o.st = st /\ o.team = tid[w]
      BY <2>1, SpecsAreParameters, ResolvedIsName, GatewayAssumption
      DEF toGatewayCreate, Sent, SentTags, Gateways
    <2> QED BY <2>1, <2>2
  <1>2. gateways[i].st = "unused" /\ gateways' = [gateways EXCEPT ![i] = o]
    BY DEF Makes
  <1> HIDE DEF o
  <1>3. gateways'[i] = o
    BY <1>2 DEF GatewayTypeOK
  <1> QED BY <1>1, <1>2, <1>3, OneGatewayChanges

LEMMA PutFine ==
  ASSUME GatewayInv, NEW w \in Workers, Put(w)
  PROVE  GatewaysFine
  <1> USE DEF GatewayInv
  <1>1. Target[w] \in Resources /\ cr[w].spec \in Specs /\ tid[w] \in TeamIDs
    BY CopyFacts DEF RequestsHaveTeams, Put
  <1>2. ASSUME NEW i \in Addressed(cr[w].name),
               gateways' = [gateways EXCEPT ![i] =
                              toGatewayUpdate(Target[w], cr[w].spec, tid[w], gateways[i])]
        PROVE  GatewaysFine
    <2> DEFINE o == toGatewayUpdate(Target[w], cr[w].spec, tid[w], gateways[i])
    <2>1. i \in GatewayIDs /\ gateways[i] \in Gateways /\ gateways[i].st = "live"
      BY IDsAreNames DEF LiveGateways, GatewayTypeOK
    <2>2. o \in Gateways /\ o.st = "live" /\ o.team \in TeamIDs
      BY <1>1, <2>1, UpdatedIsGateway
    <2>3. gateways' = [gateways EXCEPT ![i] = o]
      BY <1>2
    <2> HIDE DEF o
    <2> QED BY <2>1, <2>2, <2>3, OneGatewayChanges
  <1>3. CASE UNCHANGED gateways
    BY <1>3, NoGatewayChanges
  <1> QED BY <1>2, <1>3 DEF Put

LEMMA DeleteFine ==
  ASSUME GatewayInv, NEW w \in Workers, Delete(w)
  PROVE  GatewaysFine
  <1> USE DEF GatewayInv
  <1> DEFINE G == Addressed(cr[w].name)
  <1>1. CASE gateways' = [i \in GatewayIDs |->
               IF i \in G THEN [gateways[i] EXCEPT !.st = "gone"] ELSE gateways[i]]
    <2>1. \A i \in GatewayIDs :
            /\ gateways[i] \in Gateways
            /\ [gateways[i] EXCEPT !.st = "gone"] \in Gateways
            /\ [gateways[i] EXCEPT !.st = "gone"].st = "gone"
            /\ [gateways[i] EXCEPT !.st = "gone"].team = gateways[i].team
      BY DEF GatewayTypeOK, Gateways
    <2>2. \A i \in G : gateways[i].st = "live"
      BY IDsAreNames DEF LiveGateways
    <2> HIDE DEF G
    <2> QED BY <1>1, <2>1, <2>2 DEF GatewayTypeOK, AllHaveTeams, GatewaysGrow, GatewaysFine
  <1>2. CASE UNCHANGED gateways
    BY <1>2, NoGatewayChanges
  <1> QED BY <1>1, <1>2 DEF Delete

LEMMA CallFine ==
  ASSUME GatewayInv, NEW w \in Workers, Call(w)
  PROVE  GatewaysFine /\ teamOf' = teamOf
  <1> USE DEF GatewayInv
  <1>1. teamOf' = teamOf
    BY DEF Call, Observe, CreateResolve, Post, Adopt, UpdateResolve, Put, Delete, gatewayVars
  <1>2. CASE Observe(w) \/ CreateResolve(w) \/ Adopt(w) \/ UpdateResolve(w)
    BY <1>1, <1>2, NoGatewayChanges DEF Observe, CreateResolve, Adopt, UpdateResolve, gatewayVars
  <1>3. CASE Post(w)
    <2>1. \/ \E i \in GatewayIDs : Makes(w, i, "live") \/ Makes(w, i, "sent")
          \/ UNCHANGED gateways
      BY <1>3 DEF Post
    <2>2. pc[w] = "post"
      BY <1>3 DEF Post
    <2> QED BY <1>1, <2>1, <2>2, MakesFine, NoGatewayChanges
  <1> QED BY <1>1, <1>2, <1>3, PutFine, DeleteFine DEF Call

LEMMA OthersFine ==
  ASSUME GatewayInv, Others
  PROVE  GatewaysFine /\ teamOf' \in [Resources -> TeamIDs \cup {NoTeam}]
  <1> USE DEF GatewayInv
  <1>1. ASSUME NEW r \in Resources, NEW t \in TeamIDs \cup {NoTeam}, TeamStatus(r, t)
        PROVE  GatewaysFine /\ teamOf' \in [Resources -> TeamIDs \cup {NoTeam}]
    BY <1>1, NoGatewayChanges DEF TeamStatus, GatewayTypeOK
  <1>2. ASSUME NEW i \in GatewayIDs, Land(i) PROVE GatewaysFine
    <2> DEFINE o == [gateways[i] EXCEPT !.st =
                       IF NameTaken(gateways[i].name) THEN "gone" ELSE "live"]
    <2>1. /\ o \in Gateways /\ o.team \in TeamIDs /\ gateways' = [gateways EXCEPT ![i] = o]
          /\ gateways[i].st = "sent"
      BY <1>2 DEF Land, GatewayTypeOK, Gateways, AllHaveTeams
    <2> HIDE DEF o
    <2> QED BY <2>1, OneGatewayChanges
  <1>3. ASSUME NEW i \in GatewayIDs, ForeignDelete(i) PROVE GatewaysFine
    <2> DEFINE o == [gateways[i] EXCEPT !.st = "gone"]
    <2>1. /\ o \in Gateways /\ o.team \in TeamIDs /\ gateways' = [gateways EXCEPT ![i] = o]
          /\ gateways[i].st = "live" /\ o.st = "gone"
      BY <1>3 DEF ForeignDelete, OutOfBand, Live, LiveGateways, GatewayTypeOK, Gateways, AllHaveTeams
    <2> HIDE DEF o
    <2> QED BY <2>1, OneGatewayChanges
  <1>4. ASSUME NEW i \in GatewayIDs, NEW n \in GatewayNames, NEW t \in TeamIDs,
               ForeignCreate(i, n, t)
        PROVE  GatewaysFine
    BY <1>4, MadeIsGateway, OneGatewayChanges DEF ForeignCreate, OutOfBand
  <1>5. ASSUME NEW i \in GatewayIDs, NEW n \in GatewayNames, NEW t \in TeamIDs,
               NEW g \in TagSets, ForeignEdit(i, n, t, g)
        PROVE  GatewaysFine
    <2> DEFINE o == [gateways[i] EXCEPT !.name = n, !.team = t, !.tags = g]
    <2>1. /\ o \in Gateways /\ o.team \in TeamIDs /\ gateways' = [gateways EXCEPT ![i] = o]
          /\ gateways[i].st = "live" /\ o.st = "live"
      BY <1>5 DEF ForeignEdit, OutOfBand, Live, LiveGateways, GatewayTypeOK, Gateways
    <2> HIDE DEF o
    <2> QED BY <2>1, OneGatewayChanges
  <1>6. CASE \E r \in Resources, t \in TeamIDs \cup {NoTeam} : TeamStatus(r, t)
    BY <1>1, <1>6
  <1>7. CASE ~(\E r \in Resources, t \in TeamIDs \cup {NoTeam} : TeamStatus(r, t))
    <2>1. teamOf' = teamOf
      BY <1>7 DEF Others, Land, ForeignDelete, ForeignCreate, ForeignEdit, OutOfBand
    <2> QED BY <1>2, <1>3, <1>4, <1>5, <1>7, <2>1 DEF Others, GatewayTypeOK
  <1> QED BY <1>6, <1>7

LEMMA GatewaysStep ==
  ASSUME GatewayInv, [Next]_vars
  PROVE  GatewaysFine /\ teamOf' \in [Resources -> TeamIDs \cup {NoTeam}]
  <1> USE DEF GatewayInv
  <1>1. CASE UNCHANGED <<gateways, teamOf>>
    BY <1>1, NoGatewayChanges DEF GatewayTypeOK
  <1>2. CASE \E w \in Workers : Call(w)
    BY <1>2, CallFine DEF GatewayTypeOK
  <1> QED BY <1>1, <1>2, OthersFine DEF Next, Controller, Humans, Faults, vars, gatewayVars

\* A name stays known, and a known name's missing gateway stays missing.
LEMMA KnownStays ==
  ASSUME GatewayTypeOK, GatewaysGrow, NEW n, Known(n)
  PROVE  /\ n \in GatewayIDs => gateways'[n].st \in {"live", "gone"}
         /\ ~Live(n) => ~(n \in GatewayIDs /\ gateways'[n].st = "live")
  BY DEF Known, Live, LiveGateways, GatewayTypeOK, GatewaysGrow, Gateways

-----------------------------------------------------------------------------
(* The loops: what they ask for, and what they have seen.                  *)

\* A call leaves every other loop's request alone, and goes to a request of its
\* own only with a team.
LEMMA CallKeepsTids ==
  ASSUME GatewayInv, NEW w \in Workers, Call(w)
  PROVE  /\ tid' \in [Workers -> TeamIDs \cup {NoTeam}]
         /\ \A v \in Workers : pc'[v] \in {"post", "put"} => tid'[v] \in TeamIDs
  <1> USE DEF GatewayInv
  <1>1. ASSUME NEW s, NEW c, Goto(w, s, c)
        PROVE  pc'[w] = s
    BY <1>1 DEF Goto, LoopInv, RuntimeTypeOK
  <1>2. \A v \in Workers : v # w => pc'[v] = pc[v]
    BY CallIsExternalCall, CallIsLocal
  <1>3. CASE \E s : resolveTeamID(w, s)
    <2>1. PICK t \in TeamIDs : tid' = [tid EXCEPT ![w] = t]
      BY <1>3, RuntimeAssumption, IDsAreNames DEF resolveTeamID, GatewayTypeOK
    <2> QED BY <1>2, <2>1 DEF RequestsHaveTeams, GatewayTypeOK
  <1>4. CASE ~(\E s : resolveTeamID(w, s))
    <2>1. tid' = tid \/ tid' = [tid EXCEPT ![w] = NoTeam]
      BY <1>4 DEF Call, Observe, CreateResolve, Post, Adopt, UpdateResolve, Put, Delete,
                  ResolveFails, gatewayVars
    <2>2. pc'[w] \notin {"post", "put"}
      BY <1>1, <1>4 DEF Call, Observe, CreateResolve, Post, Adopt, Adopted, UpdateResolve, Put,
                  Delete, Report, Observed, Created, CreateFailed
    <2> QED BY <1>2, <2>1, <2>2 DEF RequestsHaveTeams, GatewayTypeOK
  <1> QED BY <1>3, <1>4

LEMMA TidsStep ==
  ASSUME GatewayInv, [Next]_vars
  PROVE  tid' \in [Workers -> TeamIDs \cup {NoTeam}] /\ RequestsHaveTeams'
  <1> USE DEF GatewayInv
  <1>1. CASE \E w \in Workers : Call(w)
    BY <1>1, CallKeepsTids DEF RequestsHaveTeams
  <1>2. CASE ~(\E w \in Workers : Call(w))
    <2>1. \A v \in Workers : pc'[v] \in {"post", "put"} => pc[v] = pc'[v]
      BY <1>2, NextIsCallOrRuntime, OnlyCallsReach DEF CallSteps
    <2>2. tid' = tid \/ tid' = [w \in Workers |-> IF pc'[w] = "idle" THEN NoTeam ELSE tid[w]]
      BY <1>2, OthersActElsewhere DEF Next, Controller, Humans, Faults, gatewayVars, vars
    <2> QED BY <2>1, <2>2 DEF GatewayTypeOK, RequestsHaveTeams
  <1> QED BY <1>1, <1>2

\* The copy a call leaves: its name is the one it had or a gateway's that exists.
LEMMA CallName ==
  ASSUME GatewayInv, NEW w \in Workers, Call(w)
  PROVE  \/ cr'[w].name = cr[w].name
         \/ cr'[w].name \in GatewayIDs /\ gateways'[cr'[w].name].st = "live"
  <1> USE DEF GatewayInv
  <1>1. ASSUME NEW s, NEW c, Goto(w, s, c)
        PROVE  cr'[w] = c
    BY <1>1 DEF Goto, LoopInv, RuntimeTypeOK
  <1>2. cr[w] \in Objects
    BY CopyFacts
  <1>3. \A i : [cr[w] EXCEPT !.id = i].name = cr[w].name
    BY <1>2 DEF Objects
  <1>4. ASSUME NEW i, Adopted(w, i)
        PROVE  cr'[w].name = i
    BY <1>1, <1>2, <1>4 DEF Adopted, Created, toObservation, Objects
  <1>5. CASE Post(w) /\ \E i \in GatewayIDs : Adopted(w, i) /\ Makes(w, i, "live")
    BY <1>4, <1>5, MakesFine DEF Post
  <1>6. CASE Adopt(w) /\ \E i \in LiveGateways : Adopted(w, i)
    BY <1>4, <1>6 DEF Adopt, gatewayVars, LiveGateways
  <1>7. CASE CreateFailed(w) \/ \E s : Goto(w, s, cr[w])
    BY <1>1, <1>7 DEF CreateFailed
  <1>8. CASE \E i : Report(w, cr[w]) \/ Report(w, toObservation(cr[w], i))
    BY <1>1, <1>3, <1>8 DEF Report, toObservation
  <1>9. CASE \E e, u, i : Observed(w, cr[w], e, u) \/ Observed(w, toObservation(cr[w], i), e, u)
    BY <1>1, <1>3, <1>9 DEF Observed, toObservation
  <1>10. CASE Observe(w)
    BY <1>8, <1>9, <1>10 DEF Observe
  <1>11. CASE Post(w)
    BY <1>5, <1>7, <1>11 DEF Post
  <1>12. CASE Adopt(w)
    <2>1. Answering(resolvedName(Target[w], cr[w].spec)) \subseteq LiveGateways
      BY IDsAreNames
    <2> QED BY <1>6, <1>7, <1>12, <2>1 DEF Adopt
  <1>13. CASE CreateResolve(w) \/ UpdateResolve(w) \/ Put(w) \/ Delete(w)
    BY <1>7, <1>8, <1>13 DEF CreateResolve, resolveTeamID, UpdateResolve, Put, Delete
  <1> QED BY <1>10, <1>11, <1>12, <1>13 DEF Call

\* Only Observe sends a loop to the finalizer or to a creation, and then there
\* is no gateway of the ID the copy is bound to.
LEMMA CallMisses ==
  ASSUME LoopInv, NEW w \in Workers, Call(w),
         pc'[w] = "finalize" \/ (pc'[w] = "ensure" /\ plan'[w] = "create")
  PROVE  cr'[w] = cr[w] /\ ~Live(cr[w].name) /\ UNCHANGED gateways
  <1>1. ASSUME NEW s, NEW c, Goto(w, s, c)
        PROVE  pc'[w] = s /\ cr'[w] = c
    BY <1>1 DEF Goto, LoopInv, RuntimeTypeOK
  <1>2. \A c : ~Report(w, c) /\ ~Created(w, c)
    BY <1>1 DEF Report, Created
  <1>3. ~CreateFailed(w) /\ \A s \in {"post", "adopt", "put"} : ~Goto(w, s, cr[w])
    BY <1>1 DEF CreateFailed
  <1>4. Observe(w)
    BY <1>2, <1>3 DEF Call, CreateResolve, resolveTeamID, Post, Adopt, Adopted, UpdateResolve, Put,
                      Delete
  <1>5. ASSUME NEW c, NEW u, Observed(w, c, TRUE, u)
        PROVE  FALSE
    <2>1. pc'[w] \in {"ensure", "delete"}
      BY <1>1, <1>5 DEF Observed
    <2>2. plan'[w] # "create"
      BY <1>5 DEF Observed, LoopInv, RuntimeTypeOK
    <2> QED BY <2>1, <2>2
  <1>6. Observed(w, cr[w], FALSE, FALSE) /\ Answering(cr[w].name) = {} /\ UNCHANGED gateways
    BY <1>2, <1>4, <1>5 DEF Observe, gatewayVars
  <1>7. ~Live(cr[w].name)
    BY <1>6 DEF Answering, Live, LiveGateways
  <1> QED BY <1>1, <1>6, <1>7 DEF Observed

\* Nor does anything but the team look-up of Create lead to a POST.
LEMMA CallPosts ==
  ASSUME LoopInv, NEW w \in Workers, Call(w), pc'[w] \in {"create", "post"}
  PROVE  pc[w] = "create" /\ UNCHANGED gateways
  <1>1. ASSUME NEW s, NEW c, Goto(w, s, c)
        PROVE  pc'[w] = s
    BY <1>1 DEF Goto, LoopInv, RuntimeTypeOK
  <1>2. \A c : ~Report(w, c) /\ ~Created(w, c) /\ ~CreateFailed(w) /\ \A e, u : ~Observed(w, c, e, u)
    BY <1>1 DEF Report, Created, CreateFailed, Observed
  <1>3. ~Goto(w, "adopt", cr[w]) /\ ~Goto(w, "put", cr[w])
    BY <1>1
  <1> QED BY <1>2, <1>3 DEF Call, Observe, CreateResolve, resolveTeamID, Post, Adopt, Adopted,
                            UpdateResolve, Put, Delete

LEMMA NamesStayKnown ==
  ASSUME GatewayInv, [Next]_vars
  PROVE  NamesAreKnown'
  <1> USE DEF GatewayInv, NamesAreKnown
  <1>1. GatewaysGrow
    BY GatewaysStep DEF GatewaysFine
  <1>2. \A n : Known(n) => (n \in GatewayIDs => gateways'[n].st \in {"live", "gone"})
    BY <1>1, KnownStays
  <1>3. CASE \E w \in Workers : Call(w)
    <2> PICK w \in Workers : Call(w)
      BY <1>3
    <2>1. Known(cr[w].name)'
      BY <1>2, CallName DEF Known
    <2>2. /\ UNCHANGED <<obj, cache>>
          /\ \A v \in Workers : v # w => cr'[v] = cr[v]
      BY CallIsExternalCall, CallIsLocal
    <2> QED BY <1>2, <2>1, <2>2 DEF Known
  <1>4. CASE RuntimeOnly
    <2> DEFINE Fine == {n \in Names : n \in GatewayIDs => gateways'[n].st \in {"live", "gone"}}
               K == [r \in Resources |-> Fine]
    <2>1. \A n \in Names : Known(n) => n \in Fine
      BY <1>2 DEF Known
    <2>2. NoName \in Fine /\ \A r \in Resources : MetaName[r] \in Fine
      BY RuntimeAssumption DEF Names, GatewayIDs
    <2>3. \A m \in Manifests : m.name \in Fine /\ m.r \in Resources
      BY <2>1, <2>2, GatewayAssumption, RuntimeAssumption DEF Names, GatewayIDs
    <2>4. /\ \A r \in Resources : obj[r].name \in Fine
          /\ \A w \in Workers : cache[w].name \in Fine /\ cr[w].name \in Fine
                                /\ Target[w] \in Resources
      BY <2>1, RuntimeAssumption DEF LoopInv, RuntimeTypeOK, Objects
    <2>5. \A n \in Fine : n \in GatewayIDs => gateways'[n].st \in {"live", "gone"}
      OBVIOUS
    <2> HIDE DEF Fine
    <2>6. /\ \A r \in Resources : obj'[r].name \in K[r]
          /\ \A w \in Workers : cache'[w].name \in K[Target[w]] /\ cr'[w].name \in K[Target[w]]
      <3>1. \A r \in Resources : NoName \in K[r] /\ MetaName[r] \in K[r] /\ obj[r].name \in K[r]
        BY <2>2, <2>4
      <3>2. \A m \in Manifests : m.name \in K[m.r]
        BY <2>3
      <3>3. \A w \in Workers : cache[w].name \in K[Target[w]] /\ cr[w].name \in K[Target[w]]
        BY <2>4
      <3> HIDE DEF K
      <3> QED BY <1>4, <3>1, <3>2, <3>3, NamesFlow
    <2> QED BY <1>2, <2>4, <2>5, <2>6 DEF Known
  <1> QED BY <1>3, <1>4, NextIsCallOrRuntime

\* No gateway has ID n after the step.
MissingNext(n) == ~(n \in GatewayIDs /\ gateways'[n].st = "live")

\* A gateway that a loop has seen missing stays missing, if the name was known.
LEMMA MissingStays ==
  ASSUME GatewayInv, [Next]_vars, NEW n, Known(n), ~Live(n)
  PROVE  MissingNext(n)
  <1>1. GatewaysGrow
    BY GatewaysStep DEF GatewaysFine
  <1> QED BY <1>1, KnownStays DEF GatewayInv, MissingNext

LEMMA CallStaysMissing ==
  ASSUME UNCHANGED gateways, NEW n, ~Live(n)
  PROVE  MissingNext(n)
  BY DEF MissingNext, Live, LiveGateways

LEMMA FinalizingStaysSound ==
  ASSUME GatewayInv, [Next]_vars
  PROVE  FinalizingMeansGone'
  <1> USE DEF GatewayInv
  <1> SUFFICES ASSUME NEW v \in Workers, pc'[v] = "finalize"
               PROVE  MissingNext(cr'[v].name)
    BY DEF FinalizingMeansGone, Live, LiveGateways, MissingNext
  <1>1. CASE pc[v] = "finalize" /\ cr'[v] = cr[v]
    BY <1>1, MissingStays DEF NamesAreKnown, FinalizingMeansGone
  <1>2. CASE \E w \in Workers : Call(w)
    <2> PICK w \in Workers : Call(w)
      BY <1>2
    <2>1. CASE v = w
      <3>1. cr'[w] = cr[w] /\ ~Live(cr[w].name) /\ UNCHANGED gateways
        <4>1. pc'[w] = "finalize"
          BY <2>1
        <4> QED BY <4>1, CallMisses
      <3>2. MissingNext(cr[w].name)
        BY <3>1, CallStaysMissing
      <3> QED BY <2>1, <3>1, <3>2
    <2>2. CASE v # w
      BY <1>1, <2>2, CallIsExternalCall, CallIsLocal
    <2> QED BY <2>1, <2>2
  <1>3. CASE RuntimeOnly
    BY <1>1, <1>3, OnlyCallsReach DEF CallSteps
  <1> QED BY <1>2, <1>3, NextIsCallOrRuntime

LEMMA CreatingStaysUnbound ==
  ASSUME GatewayInv, [Next]_vars
  PROVE  CreatingMeansUnbound'
  <1> USE DEF GatewayInv
  <1> SUFFICES ASSUME NEW v \in Workers
               PROVE  /\ pc'[v] = "ensure" /\ plan'[v] = "create" => MissingNext(cr'[v].name)
                      /\ pc'[v] = "pend" => MissingNext(cr'[v].name)
                      /\ pc'[v] \in {"create", "post"} => MissingNext(obj'[Target[v]].name)
    BY DEF CreatingMeansUnbound, Live, LiveGateways, MissingNext
  <1>1. Known(cr[v].name) /\ Known(obj[Target[v]].name)
    BY IDsAreNames DEF NamesAreKnown
  <1>2. /\ pc[v] = "ensure" /\ plan[v] = "create" => MissingNext(cr[v].name)
        /\ pc[v] = "pend" => MissingNext(cr[v].name)
        /\ pc[v] \in {"create", "post"} => MissingNext(obj[Target[v]].name)
    BY <1>1, MissingStays DEF CreatingMeansUnbound
  <1>3. CASE \E w \in Workers : Call(w)
    <2> PICK w \in Workers : Call(w)
      BY <1>3
    <2>1. /\ UNCHANGED obj
          /\ v # w => pc'[v] = pc[v] /\ cr'[v] = cr[v] /\ plan'[v] = plan[v]
          /\ pc'[w] # "pend"
      BY CallIsExternalCall, CallIsLocal DEF Successors
    <2>2. CASE v = w
      <3>1. CASE pc'[w] = "ensure" /\ plan'[w] = "create"
        <4>1. cr'[w] = cr[w] /\ ~Live(cr[w].name) /\ UNCHANGED gateways
          BY <3>1, CallMisses
        <4>2. MissingNext(cr[w].name)
          BY <4>1, CallStaysMissing
        <4> QED BY <2>2, <3>1, <4>1, <4>2
      <3>2. CASE pc'[w] \in {"create", "post"}
        <4>1. pc[w] = "create"
          BY <3>2, CallPosts
        <4> QED BY <1>2, <2>1, <2>2, <3>2, <4>1
      <3> QED BY <2>1, <2>2, <3>1, <3>2
    <2>3. CASE v # w
      BY <1>2, <2>1, <2>3
    <2> QED BY <2>2, <2>3
  <1>4. CASE RuntimeOnly
    <2>1. pc'[v] = "ensure" /\ plan'[v] = "create" => MissingNext(cr'[v].name)
      BY <1>2, <1>4, ApproachesCreate
    <2>2. pc'[v] = "pend" => MissingNext(cr'[v].name)
      BY <1>2, <1>4, ApproachesCreate
    <2>3. CASE pc'[v] = "create" /\ pc[v] # "create"
      BY <1>2, <1>4, <2>3, ApproachesCreate
    <2>4. CASE pc'[v] \in {"create", "post"} /\ ~(pc'[v] = "create" /\ pc[v] # "create")
      <3>1. pc[v] = pc'[v]
        BY <1>4, <2>4, OnlyCallsReach DEF CallSteps
      <3>2. obj'[Target[v]].name = obj[Target[v]].name
        BY <1>4, <2>4, <3>1, WindowKeepsName DEF CreateWindow
      <3> QED BY <1>2, <2>1, <2>2, <2>4, <3>1, <3>2
    <2>5. CASE pc'[v] \notin {"create", "post"}
      BY <2>1, <2>2, <2>5
    <2> QED BY <2>3, <2>4, <2>5
  <1> QED BY <1>3, <1>4, NextIsCallOrRuntime

-----------------------------------------------------------------------------
(* The invariant and what follows from it.                                 *)

LEMMA InitGatewayInv == Init => GatewayInv
  <1> SUFFICES ASSUME Init PROVE GatewayInv
    OBVIOUS
  <1>1. LoopInv
    BY InitLoopInv DEF Init
  <1>2. PICK n \in [GatewayIDs -> GatewayNames], t \in TeamIDs :
          gateways = [i \in GatewayIDs |-> IF i \in Existing THEN Made(n[i], t) ELSE Blank]
    BY DEF Init
  <1>3. \A i \in GatewayIDs :
          /\ Blank \in Gateways /\ Blank.st = "unused"
          /\ Made(n[i], t) \in Gateways /\ Made(n[i], t).st = "live"
          /\ Made(n[i], t).team = t
    BY MadeIsGateway
  <1>4. GatewayTypeOK /\ AllHaveTeams
    BY <1>2, <1>3 DEF Init, GatewayTypeOK, AllHaveTeams
  <1>5. \A i \in Existing : Known(i)
    BY <1>2, <1>3, GatewayAssumption DEF Known
  <1>6. Known(NoName)
    BY RuntimeAssumption DEF Known, GatewayIDs
  <1>7. \A r \in Resources : Known(obj[r].name)
    <2>1. \A m \in Manifests : Known(m.name)
      BY <1>5, <1>6, GatewayAssumption
    <2> QED BY <2>1 DEF Init, RuntimeInit, Applied
  <1>8. \A w \in Workers : Known(cache[w].name) /\ Known(cr[w].name) /\ pc[w] = "idle"
    BY <1>6, <1>7, RuntimeAssumption DEF Init, RuntimeInit, Nothing
  <1>9. byName \in BOOLEAN
    BY GatewayAssumption DEF Init
  <1> QED BY <1>1, <1>4, <1>5, <1>7, <1>8, <1>9
          DEF GatewayInv, NamesAreKnown, FinalizingMeansGone, CreatingMeansUnbound, RequestsHaveTeams

\* What ContextForge makes of a name in a PUT or a DELETE stays as it is.
LEMMA ByNameStays ==
  ASSUME [Next]_vars
  PROVE  byName' = byName
  <1>1. CASE \E w \in Workers : Controller(w)
    BY <1>1 DEF Controller
  <1>2. CASE Humans
    BY <1>2 DEF Humans, gatewayVars
  <1>3. CASE Others
    BY <1>3 DEF Others
  <1>4. CASE Faults
    BY <1>4 DEF Faults
  <1>5. CASE UNCHANGED vars
    BY <1>5 DEF vars
  <1> QED BY <1>1, <1>2, <1>3, <1>4, <1>5 DEF Next

LEMMA NextKeepsGatewayInv ==
  ASSUME GatewayInv, [Next]_vars
  PROVE  GatewayInv'
  <1>1. LoopInv'
    BY GatewayKeepsLoopInv DEF GatewayInv
  <1>2. GatewayTypeOK' /\ AllHaveTeams'
    BY GatewaysStep, TidsStep DEF GatewaysFine, GatewayTypeOK
  <1>3. byName' \in BOOLEAN
    BY ByNameStays DEF GatewayInv
  <1> QED BY <1>1, <1>2, <1>3, TidsStep, NamesStayKnown, FinalizingStaysSound,
             CreatingStaysUnbound
          DEF GatewayInv

THEOREM GatewayInvariant == Spec => []GatewayInv
  <1>1. GatewayInv /\ [Next]_vars => GatewayInv'
    BY NextKeepsGatewayInv
  <1> QED BY <1>1, InitGatewayInv, PTL DEF Spec

\* Every variable of the Gateway controller keeps its type.
THEOREM GatewayTypeCorrect == Spec => []TypeOK
  <1>1. GatewayInv => TypeOK
    BY DEF GatewayInv, LoopInv, GatewayTypeOK, TypeOK
  <1> QED BY <1>1, GatewayInvariant, PTL

\* No gateway is ever without a team (gateway.go:317-327, 342-351): a team is
\* looked up before every POST and PUT, and its ID, once found, is what is sent,
\* whatever becomes of the Team CR and however late the request lands.
THEOREM GatewaysAlwaysHaveTeams == Spec => []GatewaysHaveTeams
  <1>1. GatewayInv => GatewaysHaveTeams
    BY DEF GatewayInv, AllHaveTeams, GatewaysHaveTeams, LiveGateways
  <1> QED BY <1>1, GatewayInvariant, PTL

\* While the gateway a CR's external-name is the ID of exists, no other is made
\* for the CR (Observe, gateway.go:288-291): the 404 that leads to Create is for
\* the name that is still stored when Create posts, and IDs do not come back.
THEOREM GatewayBoundMakesNone == Spec => BoundMakesNone
  <1>1. GatewayInv /\ [Next]_vars =>
          [\A w \in Workers : Post(w) => \A i \in GatewayIDs :
              gateways'[i] # gateways[i] => ~Live(obj[Target[w]].name)]_vars
    BY DEF GatewayInv, CreatingMeansUnbound, Post
  <1> QED BY <1>1, GatewayInvariant, PTL DEF Spec, BoundMakesNone

\* When a Gateway CR loses its finalizer, the gateway its external-name is the
\* ID of is gone (Observe and Delete, gateway.go:288-291, 364-375).
THEOREM GatewayFinalizedMeansGone == Spec => FinalizedMeansGone
  <1>1. ASSUME GatewayInv, [Next]_vars, NEW r \in Resources, LosesFinalizer(r)
        PROVE  ~Live(obj[r].name)
    <2>1. [RuntimeNext]_runtimeVars
      BY <1>1, GatewayKeepsLoopInv DEF GatewayInv
    <2>2. obj' # obj
      BY <1>1 DEF LosesFinalizer
    <2>3. PICK w \in Workers : RemoveFinalizer(w) /\ fresh[w] /\ Target[w] = r
      BY <1>1, <2>1, <2>2, WhoLosesFinalizer DEF GatewayInv, runtimeVars
    <2>4. pc[w] = "finalize"
      BY <2>3 DEF RemoveFinalizer
    <2>5. cr[w].name = obj[r].name
      BY <1>1, <2>3, <2>4 DEF GatewayInv, LoopInv, FreshAgrees, Early
    <2> QED BY <1>1, <2>4, <2>5 DEF GatewayInv, FinalizingMeansGone
  <1>2. GatewayInv /\ [Next]_vars =>
            [\A r \in Resources : LosesFinalizer(r) => ~Live(obj[r].name)]_vars
    BY <1>1
  <1> QED BY <1>2, GatewayInvariant, PTL DEF Spec, FinalizedMeansGone

==============================================================================
