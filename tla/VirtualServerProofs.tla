-------------------------- MODULE VirtualServerProofs --------------------------
(***************************************************************************)
(* Proofs about the VirtualServer controller: it keeps to what the runtime *)
(* asks of a component, no server is ever without a team, and a CR that    *)
(* loses its finalizer leaves no server behind under its external-name.    *)
(***************************************************************************)
EXTENDS VirtualServerController, LockProofs

ServerTypeOK ==
    /\ servers \in [ServerIDs -> Servers]
    /\ teamOf \in [Resources -> TeamIDs \cup {NoTeam}]
    /\ tid \in [Workers -> TeamIDs \cup {NoTeam}]
    /\ late \in [ServerIDs -> Servers]

\* The requests under way are for servers with a team.
RequestsHaveTeams ==
    /\ \A w \in Workers : pc[w] \in {"post", "put"} => tid[w] \in TeamIDs
    /\ \A i \in ServerIDs : late[i].live => late[i].team \in TeamIDs

ServerInv ==
    /\ LoopInv
    /\ ServerTypeOK
    /\ ServersHaveTeams
    /\ RequestsHaveTeams

-----------------------------------------------------------------------------
LEMMA SpecsAreParameters ==
  \A s \in Specs : s.body \in Bodies /\ s.desc \in Descs \cup {Unset}
                   /\ s.icon \in Icons \cup {Unset}
  BY VirtualServerAssumption DEF VirtualServerParameters

LEMMA NoServerIsServer == NoServer \in Servers /\ ~NoServer.live
  <1>1. Bodies # {}
    BY SpecsAreParameters, RuntimeAssumption
  <1>2. (CHOOSE b \in Bodies : TRUE) \in Bodies
    BY <1>1
  <1> QED BY <1>2 DEF NoServer, Servers

LEMMA CreatedIsServer ==
  ASSUME NEW s \in Specs, NEW t \in TeamIDs \cup {NoTeam}
  PROVE  /\ toServerCreate(s, t) \in Servers
         /\ toServerCreate(s, t).team = t
  BY SpecsAreParameters DEF toServerCreate, Sent, Servers

LEMMA UpdatedIsServer ==
  ASSUME NEW s \in Specs, NEW t \in TeamIDs \cup {NoTeam}, NEW srv \in Servers
  PROVE  /\ toServerUpdate(s, t, srv) \in Servers
         /\ toServerUpdate(s, t, srv).team = t
         /\ toServerUpdate(s, t, srv).live = srv.live
         /\ toServerUpdate(s, t, srv).landed = srv.landed
  BY SpecsAreParameters DEF toServerUpdate, Sent, Servers

LEMMA IDsAreNames ==
  /\ NoName \in Names /\ ServerIDs \subseteq Names
  /\ \A w \in Workers : Target[w] \in Resources /\ DetID[Target[w]] \in ServerIDs
  BY RuntimeAssumption, VirtualServerAssumption DEF Names, ServerIDs

-----------------------------------------------------------------------------
(* Every call of the component keeps to ExternalCall.                      *)

LEMMA ObserveIsCall ==
  ASSUME LoopInv, NEW w \in Workers, Observe(w)
  PROVE  ExternalCall(w)
  <1> DEFINE c == cr[w]
             i == IF c.name = NoName THEN DetID[Target[w]] ELSE c.name
             seen == toObservation(c, i)
  <1>1. pc[w] = "observe" /\ i \in Names
    BY CopyFacts, IDsAreNames DEF Observe
  <1>2. \/ \E e, u \in BOOLEAN : Observed(w, c, e, u) \/ Observed(w, seen, e, u)
        \/ Report(w, c) \/ Report(w, seen)
    <2>1. isUpToDate(c.spec, teamOf[Target[w]], servers[i]) \in BOOLEAN
      BY DEF isUpToDate, scalarFieldsUpToDate, bodyUpToDate
    <2> QED BY <2>1 DEF Observe
  <1>3. Disrupt \/ UNCHANGED budget
    BY DEF Observe
  <1>4. seen = [cr[w] EXCEPT !.id = i]
    BY DEF toObservation
  <1> HIDE DEF seen, i
  <1> QED BY <1>1, <1>2, <1>3, <1>4, ObservedIsCall, ReportIsCall

LEMMA ResolvingIsCall ==
  ASSUME LoopInv, NEW w \in Workers, CreateResolve(w) \/ UpdateResolve(w)
  PROVE  ExternalCall(w)
  <1>1. CASE CreateResolve(w)
    <2>1. pc[w] = "create" /\ UNCHANGED budget /\ (Resolve(w, "post") \/ CreateFailed(w))
      BY <1>1 DEF CreateResolve
    <2>2. "post" \in Successors(pc[w], cr[w])
      BY <2>1 DEF Successors
    <2> QED BY <2>1, <2>2, GoesOnIsCall, CreateFailedIsCall DEF Resolve
  <1>2. CASE UpdateResolve(w)
    <2>1. pc[w] = "update" /\ UNCHANGED budget /\ (Resolve(w, "put") \/ Report(w, cr[w]))
      BY <1>2 DEF UpdateResolve
    <2>2. "put" \in Successors(pc[w], cr[w])
      BY <2>1 DEF Successors
    <2> QED BY <2>1, <2>2, GoesOnIsCall, ReportIsCall, CopyFacts DEF Resolve
  <1> QED BY <1>1, <1>2

LEMMA PostIsCall ==
  ASSUME LoopInv, NEW w \in Workers, Post(w) \/ Adopt(w)
  PROVE  ExternalCall(w)
  <1> DEFINE i == DetID[Target[w]]
  <1>1. i \in Names /\ pc[w] \in {"post", "adopt"} /\ (Disrupt \/ UNCHANGED budget)
    BY IDsAreNames DEF Post, Adopt
  <1>2. "adopt" \in Successors(pc[w], cr[w])
    BY <1>1 DEF Successors
  <1>3. \/ Adopted(w, i) \/ CreateFailed(w)
        \/ Goto(w, "adopt", cr[w]) /\ UNCHANGED <<kubeVars, fresh, plan, budget>>
    BY DEF Post, Adopt
  <1>4. Adopted(w, i) => Created(w, [[cr[w] EXCEPT !.name = i] EXCEPT !.id = i])
    BY DEF Adopted, toObservation
  <1> HIDE DEF i
  <1> QED BY <1>1, <1>2, <1>3, <1>4, CreatedIsCall, CreateFailedIsCall, GoesOnIsCall

LEMMA WriteIsCall ==
  ASSUME LoopInv, NEW w \in Workers, Put(w) \/ Delete(w)
  PROVE  ExternalCall(w)
  <1> DEFINE i == DetID[Target[w]]
  <1>1. /\ i \in Names /\ pc[w] \in {"put", "delete"} /\ (Disrupt \/ UNCHANGED budget)
        /\ Report(w, cr[w]) \/ Report(w, [cr[w] EXCEPT !.id = i])
    BY IDsAreNames DEF Put, Delete, toObservation
  <1> HIDE DEF i
  <1> QED BY <1>1, ReportIsCall

LEMMA CallIsExternalCall ==
  ASSUME LoopInv, NEW w \in Workers, Call(w)
  PROVE  ExternalCall(w)
  BY ObserveIsCall, ResolvingIsCall, PostIsCall, WriteIsCall DEF Call

LEMMA HumansAct ==
  ASSUME Humans
  PROVE  /\ \/ \E m \in Manifests : UserCreate(m)
            \/ \E r \in Resources : UserDelete(r) \/ OperatorClear(r)
            \/ \E r \in Resources, s \in Specs : UserEdit(r, s)
         /\ UNCHANGED serverVars
  <1>1. \A m \in Manifests : m.spec \in Specs
    BY RuntimeAssumption
  <1> QED BY <1>1 DEF Humans, Edit

LEMMA OthersActElsewhere ==
  ASSUME Others
  PROVE  (Elsewhere \/ UNCHANGED runtimeVars) /\ UNCHANGED <<kubeVars, loopVars, tid>>
  <1>1. \A i, new : OutOfBand(i, new) => Elsewhere /\ UNCHANGED tid
    BY DEF OutOfBand, Elsewhere
  <1>2. \A r, t : TeamStatus(r, t) => (Elsewhere \/ UNCHANGED runtimeVars) /\ UNCHANGED tid
    BY DEF TeamStatus, Elsewhere, runtimeVars, kubeVars, loopVars
  <1>3. \A i : Land(i) => UNCHANGED runtimeVars /\ UNCHANGED tid
    BY DEF Land
  <1> QED BY <1>1, <1>2, <1>3 DEF Others, AtServer, ForeignCreate, ForeignDelete, ForeignEdit,
          Elsewhere, runtimeVars, kubeVars, loopVars

LEMMA NextIsRuntimeNext ==
  ASSUME LoopInv, Next
  PROVE  RuntimeNext \/ UNCHANGED runtimeVars
  <1>1. CASE \E w \in Workers : Controller(w)
    BY <1>1, CallIsExternalCall DEF Controller, RuntimeNext
  <1>2. CASE Humans
    BY <1>2, HumansAct DEF RuntimeNext
  <1>3. CASE Others
    BY <1>3, OthersActElsewhere DEF RuntimeNext
  <1>4. CASE Faults
    BY <1>4 DEF Faults, RuntimeNext
  <1> QED BY <1>1, <1>2, <1>3, <1>4 DEF Next

LEMMA ServerKeepsLoopInv ==
  ASSUME LoopInv, [Next]_vars
  PROVE  [RuntimeNext]_runtimeVars /\ LoopInv'
  <1>1. [RuntimeNext]_runtimeVars
    BY NextIsRuntimeNext DEF vars, runtimeVars
  <1> QED BY <1>1, NextKeepsLoopInv

\* The VirtualServer controller does of a CR only what the runtime expects of a
\* component (the external client, virtualserver.go:225-382).
THEOREM VirtualServerImplementsRuntime == Spec => RuntimeSpec
  <1>1. Init => RuntimeInit /\ LoopInv
    BY InitLoopInv DEF Init
  <1>2. LoopInv /\ [Next]_vars => LoopInv' /\ [RuntimeNext]_runtimeVars
    BY ServerKeepsLoopInv
  <1> QED BY <1>1, <1>2, PTL DEF Spec, RuntimeSpec

LEMMA NextIsCallOrRuntime ==
  ASSUME [Next]_vars
  PROVE  (\E w \in Workers : Call(w)) \/ RuntimeOnly
  <1>1. CASE \E w \in Workers : Controller(w)
    BY <1>1 DEF Controller, RuntimeOnly
  <1>2. CASE Humans
    BY <1>2, HumansAct DEF RuntimeOnly
  <1>3. CASE Others
    BY <1>3, OthersActElsewhere DEF RuntimeOnly
  <1>4. CASE Faults
    BY <1>4 DEF Faults, RuntimeOnly
  <1>5. CASE UNCHANGED vars
    BY <1>5 DEF vars, runtimeVars, kubeVars, loopVars, RuntimeOnly
  <1> QED BY <1>1, <1>2, <1>3, <1>4, <1>5 DEF Next
-----------------------------------------------------------------------------
(* Types and teams.                                                        *)

\* A request, or a server, with the team it needs.
HasTeam(srv) == srv.live => srv.team \in TeamIDs

LEMMA OneServerChanges ==
  ASSUME ServerTypeOK, ServersHaveTeams, NEW i \in ServerIDs, NEW o \in Servers, HasTeam(o),
         servers' = [servers EXCEPT ![i] = o] \/ servers' = servers
  PROVE  servers' \in [ServerIDs -> Servers] /\ ServersHaveTeams'
  BY DEF ServerTypeOK, ServersHaveTeams, HasTeam

LEMMA NoServerChanges ==
  ASSUME ServerTypeOK, ServersHaveTeams, UNCHANGED servers
  PROVE  servers' \in [ServerIDs -> Servers] /\ ServersHaveTeams'
  BY DEF ServerTypeOK, ServersHaveTeams

LEMMA OneRequestChanges ==
  ASSUME ServerTypeOK, RequestsHaveTeams, NEW i \in ServerIDs, NEW o \in Servers, HasTeam(o),
         late' = [late EXCEPT ![i] = o] \/ late' = late
  PROVE  /\ late' \in [ServerIDs -> Servers]
         /\ \A j \in ServerIDs : late'[j].live => late'[j].team \in TeamIDs
  BY DEF ServerTypeOK, RequestsHaveTeams, HasTeam

LEMMA PostKeeps ==
  ASSUME ServerInv, NEW w \in Workers, Post(w)
  PROVE  /\ servers' \in [ServerIDs -> Servers] /\ ServersHaveTeams'
         /\ late' \in [ServerIDs -> Servers]
         /\ \A j \in ServerIDs : late'[j].live => late'[j].team \in TeamIDs
  <1> USE DEF ServerInv
  <1> DEFINE i == DetID[Target[w]]
             new == toServerCreate(cr[w].spec, tid[w])
  <1>1. tid[w] \in TeamIDs /\ cr[w].spec \in Specs /\ i \in ServerIDs
    BY CopyFacts, IDsAreNames DEF RequestsHaveTeams, Post
  <1>2. new \in Servers /\ HasTeam(new)
    BY <1>1, CreatedIsServer DEF HasTeam
  <1>3. /\ servers' = [servers EXCEPT ![i] = new] \/ servers' = servers
        /\ late' = [late EXCEPT ![i] = new] \/ late' = late
    BY DEF Post
  <1> HIDE DEF new, i
  <1> QED BY <1>1, <1>2, <1>3, OneServerChanges, OneRequestChanges

LEMMA PutKeeps ==
  ASSUME ServerInv, NEW w \in Workers, Put(w)
  PROVE  servers' \in [ServerIDs -> Servers] /\ ServersHaveTeams'
  <1> USE DEF ServerInv
  <1> DEFINE i == DetID[Target[w]]
             new == toServerUpdate(cr[w].spec, tid[w], servers[i])
  <1>1. tid[w] \in TeamIDs /\ cr[w].spec \in Specs /\ i \in ServerIDs
    BY CopyFacts, IDsAreNames DEF RequestsHaveTeams, Put
  <1>2. new \in Servers /\ HasTeam(new)
    <2>1. servers[i] \in Servers
      BY <1>1 DEF ServerTypeOK
    <2> QED BY <1>1, <2>1, UpdatedIsServer DEF HasTeam
  <1>3. servers' = [servers EXCEPT ![i] = new] \/ servers' = servers
    BY DEF Put
  <1> HIDE DEF new, i
  <1> QED BY <1>1, <1>2, <1>3, OneServerChanges

LEMMA DeleteKeeps ==
  ASSUME ServerInv, NEW w \in Workers, Delete(w)
  PROVE  servers' \in [ServerIDs -> Servers] /\ ServersHaveTeams'
  <1>1. HasTeam(NoServer)
    BY NoServerIsServer DEF HasTeam
  <1> QED BY <1>1, IDsAreNames, NoServerIsServer, OneServerChanges DEF Delete, ServerInv

\* A call leaves every other loop's request alone, and goes to a request of its
\* own only with a team.
LEMMA CallKeepsTids ==
  ASSUME ServerInv, NEW w \in Workers, Call(w)
  PROVE  /\ tid' \in [Workers -> TeamIDs \cup {NoTeam}]
         /\ \A v \in Workers : pc'[v] \in {"post", "put"} => tid'[v] \in TeamIDs
  <1> USE DEF ServerInv
  <1>1. ASSUME NEW s, NEW c, Goto(w, s, c)
        PROVE  pc'[w] = s
    BY <1>1 DEF Goto, LoopInv, RuntimeTypeOK
  <1>2. \A v \in Workers : v # w => pc'[v] = pc[v]
    BY CallIsExternalCall, CallIsLocal
  <1>3. CASE \E s : Resolve(w, s)
    <2>1. PICK s : Resolve(w, s)
      BY <1>3
    <2>2. PICK t \in TeamIDs : tid' = [tid EXCEPT ![w] = t]
      BY <2>1, RuntimeAssumption, IDsAreNames DEF Resolve, ServerTypeOK
    <2> QED BY <1>2, <2>2 DEF RequestsHaveTeams, ServerTypeOK
  <1>4. CASE ~(\E s : Resolve(w, s))
    <2>1. tid' = tid \/ tid' = [tid EXCEPT ![w] = NoTeam]
      BY <1>4 DEF Call, Observe, CreateResolve, Post, Adopt, UpdateResolve, Put, Delete,
                  ResolveFails, serverVars
    <2>2. pc'[w] \notin {"post", "put"}
      BY <1>1, <1>4 DEF Call, Observe, CreateResolve, Post, Adopt, Adopted, UpdateResolve, Put,
                  Delete, Report, Observed, Created, CreateFailed
    <2> QED BY <1>2, <2>1, <2>2 DEF RequestsHaveTeams, ServerTypeOK
  <1> QED BY <1>3, <1>4

LEMMA CallKeepsServers ==
  ASSUME ServerInv, NEW w \in Workers, Call(w)
  PROVE  ServerTypeOK' /\ ServersHaveTeams' /\ RequestsHaveTeams'
  <1> USE DEF ServerInv
  <1>1. teamOf' = teamOf
    BY DEF Call, Observe, CreateResolve, Post, Adopt, UpdateResolve, Put, Delete, serverVars
  <1>2. servers' \in [ServerIDs -> Servers] /\ ServersHaveTeams'
    <2>1. CASE Observe(w) \/ CreateResolve(w) \/ Adopt(w) \/ UpdateResolve(w)
      BY <2>1, NoServerChanges DEF Observe, CreateResolve, Adopt, UpdateResolve, serverVars
    <2> QED BY <2>1, PostKeeps, PutKeeps, DeleteKeeps DEF Call
  <1>3. late' \in [ServerIDs -> Servers]
        /\ \A j \in ServerIDs : late'[j].live => late'[j].team \in TeamIDs
    <2>1. CASE ~Post(w)
      <3>1. late' = late
        BY <2>1 DEF Call, Observe, CreateResolve, Adopt, UpdateResolve, Put, Delete, serverVars
      <3> QED BY <3>1 DEF ServerTypeOK, RequestsHaveTeams
    <2> QED BY <2>1, PostKeeps
  <1> QED BY <1>1, <1>2, <1>3, CallKeepsTids DEF ServerTypeOK, RequestsHaveTeams

LEMMA OthersKeepServers ==
  ASSUME ServerInv, Others
  PROVE  /\ servers' \in [ServerIDs -> Servers] /\ ServersHaveTeams'
         /\ late' \in [ServerIDs -> Servers]
         /\ \A j \in ServerIDs : late'[j].live => late'[j].team \in TeamIDs
         /\ teamOf' \in [Resources -> TeamIDs \cup {NoTeam}]
  <1> USE DEF ServerInv
  <1> DEFINE Goal == /\ servers' \in [ServerIDs -> Servers] /\ ServersHaveTeams'
                     /\ late' \in [ServerIDs -> Servers]
                     /\ \A j \in ServerIDs : late'[j].live => late'[j].team \in TeamIDs
                     /\ teamOf' \in [Resources -> TeamIDs \cup {NoTeam}]
  <1>1. ASSUME NEW r \in Resources, NEW t \in TeamIDs \cup {NoTeam}, TeamStatus(r, t)
        PROVE  Goal
    <2>1. servers' = servers /\ late' = late /\ teamOf' = [teamOf EXCEPT ![r] = t]
      BY <1>1 DEF TeamStatus
    <2> QED BY <2>1, NoServerChanges DEF ServerTypeOK, RequestsHaveTeams
  <1>2. ASSUME NEW i \in ServerIDs, NEW o \in Servers, HasTeam(o), OutOfBand(i, o)
        PROVE  Goal
    <2>1. servers' = [servers EXCEPT ![i] = o] /\ late' = late /\ teamOf' = teamOf
      BY <1>2 DEF OutOfBand
    <2> QED BY <1>2, <2>1, OneServerChanges DEF ServerTypeOK, RequestsHaveTeams
  <1>3. ASSUME NEW i \in ServerIDs, Land(i) PROVE Goal
    <2> DEFINE o == [late[i] EXCEPT !.landed = TRUE]
    <2>1. o \in Servers /\ HasTeam(o) /\ HasTeam(NoServer)
      BY NoServerIsServer DEF ServerTypeOK, RequestsHaveTeams, HasTeam, Servers
    <2>2. /\ servers' = [servers EXCEPT ![i] = o] \/ servers' = servers
          /\ late' = [late EXCEPT ![i] = NoServer] /\ teamOf' = teamOf
      BY <1>3 DEF Land
    <2> HIDE DEF o
    <2> QED BY <2>1, <2>2, NoServerIsServer, OneServerChanges, OneRequestChanges DEF ServerTypeOK
  <1>4. ASSUME NEW i \in ServerIDs, ForeignDelete(i) PROVE Goal
    <2>1. HasTeam(NoServer)
      BY NoServerIsServer DEF HasTeam
    <2> QED BY <1>2, <1>4, <2>1, NoServerIsServer DEF ForeignDelete
  <1>5. ASSUME NEW i \in ServerIDs, NEW t \in TeamIDs, ForeignCreate(i, t) PROVE Goal
    <2> DEFINE o == [NoServer EXCEPT !.live = TRUE, !.team = t]
    <2>1. o \in Servers /\ HasTeam(o)
      BY NoServerIsServer DEF Servers, HasTeam
    <2>2. OutOfBand(i, o)
      BY <1>5 DEF ForeignCreate
    <2> HIDE DEF o
    <2> QED BY <1>2, <2>1, <2>2
  <1>6. ASSUME NEW i \in ServerIDs, NEW t \in TeamIDs, NEW b \in Bodies, NEW d \in Descs,
               ForeignEdit(i, t, b, d)
        PROVE  Goal
    <2> DEFINE o == [servers[i] EXCEPT !.team = t, !.body = b, !.desc = d]
    <2>1. o \in Servers /\ HasTeam(o)
      BY DEF ServerTypeOK, Servers, HasTeam
    <2>2. OutOfBand(i, o)
      BY <1>6 DEF ForeignEdit
    <2> HIDE DEF o
    <2> QED BY <1>2, <2>1, <2>2
  <1> HIDE DEF Goal
  <1>7. Goal
    BY <1>1, <1>3, <1>4, <1>5, <1>6 DEF Others, AtServer
  <1> QED BY <1>7 DEF Goal

LEMMA NextKeepsServerInv ==
  ASSUME ServerInv, [Next]_vars
  PROVE  ServerInv'
  <1> USE DEF ServerInv
  <1>1. LoopInv'
    BY ServerKeepsLoopInv
  <1>2. CASE \E w \in Workers : Call(w)
    BY <1>1, <1>2, CallKeepsServers
  <1>3. CASE ~(\E w \in Workers : Call(w))
    <2>1. RuntimeOnly
      BY <1>3, NextIsCallOrRuntime
    <2>2. \A v \in Workers : pc'[v] \in {"post", "put"} => pc[v] = pc'[v]
      BY <2>1, OnlyCallsReach DEF CallSteps
    <2>3. \/ Others /\ UNCHANGED tid
          \/ /\ UNCHANGED <<servers, teamOf, late>>
             /\ tid' = tid \/ tid' = [w \in Workers |-> IF pc'[w] = "idle" THEN NoTeam ELSE tid[w]]
      BY <1>3, OthersActElsewhere DEF Next, Controller, Humans, Faults, serverVars, vars
    <2>4. /\ tid' \in [Workers -> TeamIDs \cup {NoTeam}]
          /\ \A v \in Workers : pc'[v] \in {"post", "put"} => tid'[v] \in TeamIDs
      BY <2>2, <2>3 DEF ServerTypeOK, RequestsHaveTeams
    <2>5. CASE Others
      BY <1>1, <2>4, <2>5, OthersKeepServers DEF ServerTypeOK, RequestsHaveTeams
    <2>6. CASE UNCHANGED <<servers, teamOf, late>>
      BY <1>1, <2>4, <2>6 DEF ServerTypeOK, RequestsHaveTeams, ServersHaveTeams
    <2> QED BY <2>3, <2>5, <2>6
  <1> QED BY <1>2, <1>3

LEMMA InitServerInv == Init => ServerInv
  <1> SUFFICES ASSUME Init PROVE ServerInv
    OBVIOUS
  <1>1. LoopInv /\ \A w \in Workers : pc[w] = "idle"
    BY InitLoopInv DEF Init, RuntimeInit
  <1>2. PICK t \in TeamIDs :
          servers = [i \in ServerIDs |-> [NoServer EXCEPT
                       !.live = i \in Existing, !.team = IF i \in Existing THEN t ELSE NoTeam]]
    BY DEF Init
  <1>3. \A b \in BOOLEAN, u \in TeamIDs \cup {NoTeam} :
          [NoServer EXCEPT !.live = b, !.team = u] \in Servers
    BY NoServerIsServer DEF Servers
  <1>4. servers \in [ServerIDs -> Servers] /\ ServersHaveTeams
    <2> DEFINE u(i) == IF i \in Existing THEN t ELSE NoTeam
               start(i) == [NoServer EXCEPT !.live = i \in Existing, !.team = u(i)]
    <2>1. servers = [i \in ServerIDs |-> start(i)]
      BY <1>2
    <2>2. ASSUME NEW i \in ServerIDs
          PROVE  start(i) \in Servers /\ (start(i).live => start(i).team \in TeamIDs)
      <3>1. (i \in Existing) \in BOOLEAN /\ u(i) \in TeamIDs \cup {NoTeam}
        OBVIOUS
      <3>2. start(i) \in Servers
        <4> HIDE DEF u
        <4> QED BY <1>3, <3>1
      <3>3. start(i).live = (i \in Existing) /\ start(i).team = u(i)
        BY NoServerIsServer DEF Servers
      <3> QED BY <3>2, <3>3
    <2> HIDE DEF start
    <2> QED BY <2>1, <2>2 DEF ServersHaveTeams
  <1>5. /\ teamOf \in [Resources -> TeamIDs \cup {NoTeam}]
        /\ tid \in [Workers -> TeamIDs \cup {NoTeam}]
        /\ late \in [ServerIDs -> Servers]
        /\ \A i \in ServerIDs : ~late[i].live
    BY NoServerIsServer DEF Init
  <1> QED BY <1>1, <1>4, <1>5 DEF ServerInv, ServerTypeOK, RequestsHaveTeams

THEOREM ServerInvariant == Spec => []ServerInv
  <1>1. ServerInv /\ [Next]_vars => ServerInv'
    BY NextKeepsServerInv
  <1> QED BY <1>1, InitServerInv, PTL DEF Spec

\* Every variable of the VirtualServer controller keeps its type.
THEOREM VirtualServerTypeCorrect == Spec => []TypeOK
  <1>1. ServerInv => TypeOK
    BY DEF ServerInv, LoopInv, ServerTypeOK, TypeOK
  <1> QED BY <1>1, ServerInvariant, PTL

\* No server is ever without a team (virtualserver.go:326-332, 353-358): a team
\* is looked up before every POST and PUT, and its ID, once found, is what is
\* sent, whatever becomes of the Team CR.
THEOREM VirtualServersHaveTeams == Spec => []ServersHaveTeams
  <1>1. ServerInv => ServersHaveTeams
    BY DEF ServerInv
  <1> QED BY <1>1, ServerInvariant, PTL

-----------------------------------------------------------------------------
(* What a CR that loses its finalizer leaves behind. This is about servers *)
(* of this installation: no CR imports a server under another ID.          *)

OwnServers == \A m \in Manifests : m.name \in {NoName, DetID[m.r]}

\* What a CR's external-name may be.
OwnNames == [r \in Resources |-> {NoName, MetaName[r], DetID[r]}]

NamesAreOwn ==
    /\ \A r \in Resources : obj[r].name \in OwnNames[r]
    /\ \A w \in Workers : /\ cache[w].name \in OwnNames[Target[w]]
                          /\ cr[w].name \in OwnNames[Target[w]]

\* A loop about to remove the finalizer, with a copy that is not outdated, has
\* seen the server gone, and no other loop can have made it again since; only a
\* request given up earlier can.
FinalizingMeansGone ==
    \A w \in Workers : pc[w] = "finalize" /\ fresh[w] => ~LeftBehind(cr[w].name)

OwnInv ==
    /\ ServerInv
    /\ NamesAreOwn
    /\ FinalizingMeansGone

LEMMA InitOwnInv == ASSUME OwnServers, Init PROVE OwnInv
  <1>1. ServerInv
    BY InitServerInv
  <1>3. \A r \in Resources : obj[r].name \in OwnNames[r]
    <2> TAKE r \in Resources
    <2>1. PICK m \in Manifests : m.r = r /\ obj[r] = Applied(m)
      BY DEF Init, RuntimeInit
    <2>2. obj[r].name = m.name
      BY <2>1 DEF Applied
    <2> QED BY <2>1, <2>2 DEF OwnServers, OwnNames
  <1>4. \A w \in Workers : cache[w].name \in OwnNames[Target[w]]
                           /\ cr[w].name \in OwnNames[Target[w]] /\ pc[w] = "idle"
    BY <1>3, RuntimeAssumption DEF Init, RuntimeInit, Nothing, OwnNames
  <1> QED BY <1>1, <1>3, <1>4 DEF OwnInv, NamesAreOwn, FinalizingMeansGone

LEMMA CallName ==
  ASSUME LoopInv, NEW w \in Workers, Call(w)
  PROVE  cr'[w].name = cr[w].name \/ cr'[w].name = DetID[Target[w]]
  <1>1. ASSUME NEW s, NEW c, Goto(w, s, c)
        PROVE  cr'[w] = c
    BY <1>1 DEF Goto, LoopInv, RuntimeTypeOK
  <1>2. cr[w] \in Objects
    BY CopyFacts
  <1>3. \A n, i : /\ [cr[w] EXCEPT !.id = i].name = cr[w].name
                  /\ [[cr[w] EXCEPT !.name = n] EXCEPT !.id = i].name = n
    BY <1>2 DEF Objects
  <1> DEFINE Same(c) == c = cr[w] \/ \E i : c = [cr[w] EXCEPT !.id = i]
  <1>4. ASSUME NEW c, Same(c), NEW s, Goto(w, s, c)
        PROVE  cr'[w].name = cr[w].name
    BY <1>1, <1>3, <1>4
  <1>5. CASE Adopted(w, DetID[Target[w]])
    <2> DEFINE n == DetID[Target[w]]
    <2>1. cr'[w] = [[cr[w] EXCEPT !.name = n] EXCEPT !.id = n]
      BY <1>1, <1>5 DEF Adopted, Created, toObservation
    <2> HIDE DEF n
    <2>2. cr'[w].name = n
      BY <1>3, <2>1
    <2> QED BY <2>2 DEF n
  <1>6. CASE CreateFailed(w) \/ \E s : Goto(w, s, cr[w])
    BY <1>4, <1>6 DEF CreateFailed
  <1>7. CASE \E i : Report(w, cr[w]) \/ Report(w, toObservation(cr[w], i))
    BY <1>4, <1>7 DEF Report, toObservation
  <1>8. CASE Observe(w)
    <2> DEFINE i == IF cr[w].name = NoName THEN DetID[Target[w]] ELSE cr[w].name
    <2>1. \/ \E e, u : Observed(w, cr[w], e, u) \/ Observed(w, toObservation(cr[w], i), e, u)
          \/ Report(w, cr[w]) \/ Report(w, toObservation(cr[w], i))
      BY <1>8 DEF Observe
    <2> HIDE DEF i
    <2>2. ASSUME NEW e, NEW u,
                 Observed(w, cr[w], e, u) \/ Observed(w, toObservation(cr[w], i), e, u)
          PROVE  cr'[w].name = cr[w].name
      BY <1>4, <2>2 DEF Observed, toObservation
    <2> QED BY <1>7, <2>1, <2>2
  <1>9. CASE ~Observe(w)
    BY <1>5, <1>6, <1>7, <1>9 DEF Call, CreateResolve, Resolve, Post, Adopt, UpdateResolve, Put, Delete
  <1> QED BY <1>8, <1>9

\* Only Observe sends a loop to the finalizer, for a CR without a server.
LEMMA CallFinalizes ==
  ASSUME LoopInv, NEW w \in Workers, Call(w), pc'[w] = "finalize"
  PROVE  cr'[w] = cr[w] /\ ~Live(cr[w].name) /\ UNCHANGED servers
  <1>1. ASSUME NEW s, NEW c, Goto(w, s, c)
        PROVE  pc'[w] = s /\ cr'[w] = c
    BY <1>1 DEF Goto, LoopInv, RuntimeTypeOK
  <1>2. \A c : ~Report(w, c) /\ ~Created(w, c)
    BY <1>1 DEF Report, Created
  <1>3. ~CreateFailed(w) /\ \A s \in {"post", "adopt", "put"} : ~Goto(w, s, cr[w])
    BY <1>1 DEF CreateFailed
  <1>4. Observe(w)
    BY <1>2, <1>3 DEF Call, CreateResolve, Resolve, Post, Adopt, Adopted, UpdateResolve, Put, Delete
  <1>5. ASSUME NEW c, NEW u, Observed(w, c, TRUE, u)
        PROVE  FALSE
    BY <1>1, <1>5 DEF Observed
  <1>6. /\ Observed(w, cr[w], FALSE, FALSE)
        /\ ~Live(IF cr[w].name = NoName THEN DetID[Target[w]] ELSE cr[w].name)
        /\ UNCHANGED servers
    BY <1>2, <1>4, <1>5 DEF Observe, serverVars
  <1>7. ~Live(NoName)
    BY RuntimeAssumption DEF Live, ServerIDs
  <1> QED BY <1>1, <1>6, <1>7 DEF Observed

\* A server comes to be by the POST of the CR it belongs to, or belongs to none,
\* unless a request given up made it; and one made so is never taken for another.
LEMMA WhoMakesServers ==
  ASSUME OwnServers, OwnInv, [Next]_vars, NEW i \in ServerIDs,
         ~LeftBehind(i), LeftBehind(i)'
  PROVE  \/ \E w \in Workers : Post(w) /\ i = DetID[Target[w]]
         \/ \A r \in Resources : i # DetID[r]
  <1> USE DEF OwnInv, ServerInv, ServerTypeOK, LeftBehind, Live
  <1>1. ~NoServer.live
    BY NoServerIsServer
  <1>2. ASSUME NEW w \in Workers, Call(w)
        PROVE  Post(w) /\ i = DetID[Target[w]]
    <2>1. ~(Observe(w) \/ CreateResolve(w) \/ Adopt(w) \/ UpdateResolve(w))
      BY DEF Observe, CreateResolve, Adopt, UpdateResolve, serverVars
    <2>2. ~Delete(w)
      BY <1>1, IDsAreNames DEF Delete
    <2>3. ~Put(w)
      <3> SUFFICES ASSUME Put(w) PROVE FALSE
        OBVIOUS
      <3> DEFINE j == DetID[Target[w]]
                 new == toServerUpdate(cr[w].spec, tid[w], servers[j])
      <3>1. servers' = [servers EXCEPT ![j] = new] \/ servers' = servers
        BY DEF Put
      <3>2. j \in ServerIDs /\ new.live = servers[j].live /\ new.landed = servers[j].landed
        <4>1. j \in ServerIDs /\ servers[j] \in Servers /\ cr[w].spec \in Specs
              /\ tid[w] \in TeamIDs \cup {NoTeam}
          BY IDsAreNames, CopyFacts
        <4>2. new.live = servers[j].live
          BY <4>1, UpdatedIsServer
        <4>3. new.landed = servers[j].landed
          BY <4>1, UpdatedIsServer
        <4> QED BY <4>1, <4>2, <4>3
      <3> HIDE DEF new, j
      <3>3. servers'[i].live = servers[i].live /\ servers'[i].landed = servers[i].landed
        BY <3>1, <3>2
      <3> QED BY <3>3
    <2>4. Post(w)
      BY <1>2, <2>1, <2>2, <2>3 DEF Call
    <2> QED BY <2>4 DEF Post
  <1>3. CASE Others
    <2>1. ASSUME NEW j \in ServerIDs, Land(j) PROVE FALSE
      <3> DEFINE o == [late[j] EXCEPT !.landed = TRUE]
      <3>1. o.landed
        BY DEF Servers
      <3>2. servers' = [servers EXCEPT ![j] = o] \/ servers' = servers
        BY <2>1 DEF Land
      <3> HIDE DEF o
      <3> QED BY <3>1, <3>2
    <2>2. ~(\E r, t : TeamStatus(r, t))
      BY DEF TeamStatus
    <2>3. ~(\E j \in ServerIDs : ForeignDelete(j))
      BY <1>1 DEF ForeignDelete, OutOfBand
    <2>4. \A j \in ServerIDs : \A t, b, d : ~ForeignEdit(j, t, b, d)
      <3> SUFFICES ASSUME NEW j \in ServerIDs, NEW t, NEW b, NEW d, ForeignEdit(j, t, b, d)
                   PROVE  FALSE
        OBVIOUS
      <3> DEFINE o == [servers[j] EXCEPT !.team = t, !.body = b, !.desc = d]
      <3>1. o.live = servers[j].live /\ o.landed = servers[j].landed
        BY DEF Servers
      <3>2. servers' = [servers EXCEPT ![j] = o]
        BY DEF ForeignEdit, OutOfBand
      <3> HIDE DEF o
      <3> QED BY <3>1, <3>2
    <2>5. PICK j \in ServerIDs, t \in TeamIDs : ForeignCreate(j, t)
      BY <1>3, <2>1, <2>2, <2>3, <2>4 DEF Others, AtServer
    <2>6. j = i
      BY <2>5 DEF ForeignCreate, OutOfBand
    <2> QED BY <2>5, <2>6 DEF ForeignCreate
  <1>4. CASE UNCHANGED servers
    BY <1>4
  <1>5. (\E w \in Workers : Call(w)) \/ Others \/ UNCHANGED servers
    BY DEF Next, Controller, Humans, Faults, vars, serverVars
  <1> QED BY <1>2, <1>3, <1>4, <1>5

\* A loop that may remove the finalizer rules out a POST for the same CR.
LEMMA FinalizingExcludesPost ==
  ASSUME LoopInv, NEW v \in Workers, pc[v] = "finalize", fresh[v],
         NEW w \in Workers, Post(w)
  PROVE  Target[w] # Target[v]
  <1>1. obj[Target[v]].create # "pending"
    BY DEF LoopInv, FreshAgrees, CopyIsSound, Early
  <1>2. obj[Target[w]].create = "pending"
    BY DEF LoopInv, WindowIsPending, CreateWindow, Post
  <1> QED BY <1>1, <1>2

LEMMA FinalizingStaysSound ==
  ASSUME OwnServers, OwnInv, [Next]_vars
  PROVE  FinalizingMeansGone'
  <1> USE DEF OwnInv, ServerInv
  <1> SUFFICES ASSUME NEW v \in Workers, pc'[v] = "finalize", fresh'[v],
                      LeftBehind(cr[v].name)'
               PROVE  FALSE
    BY DEF FinalizingMeansGone
  <1>1. CASE pc[v] = "finalize" /\ cr'[v] = cr[v] /\ fresh[v]
    <2>1. PICK i \in ServerIDs : i = cr[v].name /\ ~LeftBehind(i) /\ LeftBehind(i)'
      BY <1>1 DEF FinalizingMeansGone, LeftBehind, Live
    <2>2. i = DetID[Target[v]] /\ Target[v] \in Resources
      <3>1. Target[v] \in Resources
        BY IDsAreNames
      <3>2. i \in {NoName, MetaName[Target[v]], DetID[Target[v]]}
        BY <2>1, <3>1 DEF NamesAreOwn, OwnNames
      <3> QED BY <2>1, <3>1, <3>2, RuntimeAssumption DEF ServerIDs
    <2>3. PICK w \in Workers : Post(w) /\ i = DetID[Target[w]]
      <3>1. ~(\A r \in Resources : i # DetID[r])
        BY <2>2
      <3>2. ~LeftBehind(i) /\ LeftBehind(i)'
        BY <2>1
      <3> QED BY <3>1, <3>2, WhoMakesServers DEF LeftBehind, Live
    <2>4. Target[w] = Target[v]
      BY <2>2, <2>3, IDsAreNames, VirtualServerAssumption
    <2> QED BY <1>1, <2>3, <2>4, FinalizingExcludesPost
  <1>2. CASE \E w \in Workers : Call(w)
    <2> PICK w \in Workers : Call(w)
      BY <1>2
    <2>1. CASE v = w
      BY <2>1, CallFinalizes DEF LeftBehind, Live
    <2>2. CASE v # w
      <3>1. ExternalCall(w)
        BY CallIsExternalCall
      <3> QED BY <1>1, <2>2, <3>1, CallIsLocal
    <2> QED BY <2>1, <2>2
  <1>3. CASE RuntimeOnly
    BY <1>1, <1>3, OnlyCallsReach DEF CallSteps
  <1> QED BY <1>2, <1>3, NextIsCallOrRuntime

LEMMA NamesStayOwn ==
  ASSUME OwnServers, OwnInv, [Next]_vars
  PROVE  NamesAreOwn'
  <1> USE DEF OwnInv, ServerInv
  <1>1. CASE \E w \in Workers : Call(w)
    <2> PICK w \in Workers : Call(w)
      BY <1>1
    <2>1. /\ UNCHANGED <<obj, cache>>
          /\ \A v \in Workers : v # w => cr'[v] = cr[v]
      BY CallIsExternalCall, CallIsLocal
    <2>2. cr'[w].name \in OwnNames[Target[w]]
      BY CallName, IDsAreNames DEF NamesAreOwn, OwnNames
    <2> QED BY <2>1, <2>2 DEF NamesAreOwn
  <1>2. CASE RuntimeOnly
    <2>1. \A r \in Resources : NoName \in OwnNames[r] /\ MetaName[r] \in OwnNames[r]
      BY DEF OwnNames
    <2>2. \A m \in Manifests : m.name \in OwnNames[m.r]
      BY RuntimeAssumption DEF OwnNames, OwnServers
    <2> QED BY <1>2, <2>1, <2>2, NamesFlow DEF NamesAreOwn
  <1> QED BY <1>1, <1>2, NextIsCallOrRuntime

THEOREM OwnInvariant == ASSUME OwnServers PROVE Spec => []OwnInv
  <1>1. OwnInv /\ [Next]_vars => OwnInv'
    BY NextKeepsServerInv, NamesStayOwn, FinalizingStaysSound DEF OwnInv
  <1>2. Init => OwnInv
    BY InitOwnInv
  <1> QED BY <1>1, <1>2, PTL DEF Spec

\* When a VirtualServer CR loses its finalizer, the server its external-name
\* names is gone (Observe, virtualserver.go:232-237), with any number of
\* processes: the removal needs a copy no creation has touched since the 404.
\* Only a POST that its client had given up before can have made it since.
THEOREM VirtualServerFinalizedMeansGone ==
  ASSUME OwnServers
  PROVE  Spec => FinalizedMeansGone
  <1>1. ASSUME OwnInv, [Next]_vars, NEW r \in Resources, LosesFinalizer(r)
        PROVE  ~LeftBehind(obj[r].name)
    <2>1. [RuntimeNext]_runtimeVars /\ LoopInv
      BY <1>1, ServerKeepsLoopInv DEF OwnInv, ServerInv
    <2>2. obj' # obj
      BY <1>1 DEF LosesFinalizer
    <2>3. PICK w \in Workers : RemoveFinalizer(w) /\ fresh[w] /\ Target[w] = r
      BY <1>1, <2>1, <2>2, WhoLosesFinalizer DEF runtimeVars
    <2>4. pc[w] = "finalize"
      BY <2>3 DEF RemoveFinalizer
    <2>5. cr[w].name = obj[r].name
      BY <2>1, <2>3, <2>4 DEF LoopInv, FreshAgrees, Early
    <2> QED BY <1>1, <2>3, <2>4, <2>5 DEF OwnInv, FinalizingMeansGone
  <1>2. OwnInv /\ [Next]_vars =>
            [\A r \in Resources : LosesFinalizer(r) => ~LeftBehind(obj[r].name)]_vars
    BY <1>1
  <1> QED BY <1>2, OwnInvariant, PTL DEF Spec, FinalizedMeansGone

==============================================================================
