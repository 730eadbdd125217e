---------------------------- MODULE A2AAgentProofs ----------------------------
(***************************************************************************)
(* Proofs about the A2AAgent controller: it keeps to what the runtime asks *)
(* of a component, no agent is ever without a team or with half of its     *)
(* credentials, and a CR that loses its finalizer leaves no agent behind   *)
(* under its external-name.                                                *)
(***************************************************************************)
EXTENDS A2AAgentController, LockProofs

\* Credentials no field of which is nil that their type needs. An empty list of
\* headers is none, though it is not sent.
Matching(c) ==
    /\ c.Username = c.Password
    /\ \A f \in Carried(c.AuthType) : c[f] # Unset

\* An agent has whole credentials, and one that was asked for has a team.
Sound(a) ==
    /\ a \in Agents
    /\ Whole(a.auth, a.bare)
    /\ a.st \in {"sent", "live"} => a.team \in TeamIDs

AgentsAreSound ==
    /\ agents \in [AgentIDs -> Agents]
    /\ \A i \in AgentIDs : Sound(agents[i])

InputsTypeOK ==
    /\ teamOf \in [Resources -> TeamIDs \cup {NoTeam}]
    /\ secrets \in [Secrets -> Versions \cup {Missing}]
    /\ tid \in [Workers -> TeamIDs \cup {NoTeam}]
    /\ read \in [Workers -> Seq(Versions)]

\* A loop has read some of the Secrets its copy names, and none before Create or
\* Update is called.
ReadsFollowRefs ==
    \A w \in Workers :
        /\ pc[w] \in {"create", "update"} => Len(read[w]) <= Len(Refs(w))
        /\ pc[w] \notin {"create", "update"} => read[w] = <<>>

\* A name that is an agent's ID is the ID of an agent that was made.
Known(n) == n \in AgentIDs => agents[n].st \in {"live", "gone"}

NamesAreKnown ==
    /\ \A i \in Existing : Known(i)
    /\ \A r \in Resources : Known(obj[r].name)
    /\ \A w \in Workers : Known(cache[w].name) /\ Known(cr[w].name)

\* A loop about to remove the finalizer has seen the agent gone.
FinalizingMeansGone == \A w \in Workers : pc[w] = "finalize" => ~Live(cr[w].name)

AgentInv ==
    /\ LoopInv
    /\ byName \in BOOLEAN
    /\ AgentsAreSound
    /\ InputsTypeOK
    /\ ReadsFollowRefs
    /\ NamesAreKnown
    /\ FinalizingMeansGone

-----------------------------------------------------------------------------
(* The operators an agent is built with.                                   *)

LEMMA SpecsAreParameters ==
  \A s \in Specs : /\ s.name \in AgentNames \cup {Unset} /\ s.body \in Bodies
                   /\ s.desc \in Descs \cup {Unset} /\ s.tags \in TagLists
                   /\ s.caps \in Documents \cup {Absent, NoObject, EmptyMap}
                   /\ s.auth \in Auths
  BY A2AAgentAssumption DEF A2AAgentParameters

LEMMA RefsAreSecrets ==
  \A a \in Auths : a.refs \in Seq(Secrets)
  <1>1. NoAuth.refs \in Seq(Secrets)
    <2>1. <<>> \in Seq(Secrets)
      OBVIOUS
    <2>2. NoAuth.refs = <<>>
      BY DEF NoAuth
    <2> QED BY <2>1, <2>2
  <1> QED BY <1>1, A2AAgentAssumption DEF WellFormed

LEMMA NoCredentialsMatch ==
  /\ NoCredentials \in Credentials /\ Matching(NoCredentials)
  /\ \A b \in BOOLEAN : Whole(NoCredentials, b)
  <1>1. Carried(Unset) = {}
    BY AuthAssumption DEF Carried, AuthTypes
  <1> QED BY <1>1 DEF NoCredentials, Credentials, Matching, Whole

\* From a well-formed auth block and one version for each Secret it names come
\* credentials without a nil their type needs (authresolve.go:32-59).
LEMMA AuthResultMatches ==
  ASSUME NEW a \in Auths, NEW vs \in Seq(Versions), Len(vs) = Len(a.refs)
  PROVE  AuthResult(a, vs) \in Credentials /\ Matching(AuthResult(a, vs))
  <1>1. a = NoAuth \/ WellFormed(a)
    BY A2AAgentAssumption
  <1>2. CASE a.type = "basic"
    <2>1. vs[1] \in Versions
      BY <1>1, <1>2, AuthAssumption DEF NoAuth, WellFormed, AuthTypes
    <2>2. AuthResult(a, vs) = resolveBasicAuth(vs)
      BY <1>2 DEF AuthResult
    <2> QED BY <2>1, <2>2, AuthAssumption
            DEF resolveBasicAuth, NoCredentials, Credentials, Matching, Carried, AuthTypes
  <1>3. CASE a.type = "bearer"
    <2>1. vs[1] \in Versions
      BY <1>1, <1>3, AuthAssumption DEF NoAuth, WellFormed, AuthTypes
    <2>2. AuthResult(a, vs) = resolveBearerAuth(vs)
      BY <1>3 DEF AuthResult
    <2> QED BY <2>1, <2>2, AuthAssumption
            DEF resolveBearerAuth, NoCredentials, Credentials, Matching, Carried, AuthTypes
  <1>4. CASE a.type = "headers"
    <2>1. AuthResult(a, vs) = resolveHeadersAuth(vs)
      BY <1>4 DEF AuthResult
    <2> QED BY <2>1, AuthAssumption
            DEF resolveHeadersAuth, NoCredentials, Credentials, Matching, Carried, AuthTypes
  <1>5. CASE a.type = "queryParam"
    <2>1. vs[1] \in Versions
      BY <1>1, <1>5, AuthAssumption DEF NoAuth, WellFormed, AuthTypes
    <2>2. AuthResult(a, vs) = resolveQueryParamAuth(vs)
      BY <1>5 DEF AuthResult
    <2> QED BY <2>1, <2>2, AuthAssumption
            DEF resolveQueryParamAuth, NoCredentials, Credentials, Matching, Carried, AuthTypes
  <1>6. CASE a.type = "oauth"
    <2>1. AuthResult(a, vs) = resolveOAuthAuth(vs)
      BY <1>6 DEF AuthResult
    <2> QED BY <2>1, AuthAssumption
            DEF resolveOAuthAuth, NoCredentials, Credentials, Matching, Carried, AuthTypes
  <1>7. CASE a.type \notin AuthTypes
    <2>1. AuthResult(a, vs) = NoCredentials
      BY <1>7 DEF AuthResult, AuthTypes
    <2> QED BY <2>1, NoCredentialsMatch
  <1> QED BY <1>2, <1>3, <1>4, <1>5, <1>6, <1>7 DEF AuthTypes

\* What an update over whole credentials leaves is whole, whatever the types: a
\* type that is sent comes with all of its fields, but for an empty list of
\* headers, and one that is not keeps all.
LEMMA SentAuthMatches ==
  ASSUME NEW new \in Credentials, NEW old \in Credentials, NEW b \in BOOLEAN,
         Matching(new), Whole(old, b)
  PROVE  /\ SentAuth(new, old) \in Credentials
         /\ Whole(SentAuth(new, old), IF new.AuthType = Unset THEN b ELSE HeadersMissing(new))
  <1> DEFINE c == SentAuth(new, old)
             Omitted(f) == new[f] = Unset \/ (f = "Headers" /\ new[f] = <<>>)
  <1>1. c = [f \in {"AuthType", "Username", "Password", "Token", "QPValue", "Headers",
                    "OAuthCfg"} |-> IF Omitted(f) THEN old[f] ELSE new[f]]
    BY DEF SentAuth, Credentials
  <1>2. c = [AuthType |-> c.AuthType, Username |-> c.Username, Password |-> c.Password,
             Token |-> c.Token, QPValue |-> c.QPValue, Headers |-> c.Headers,
             OAuthCfg |-> c.OAuthCfg]
    BY <1>1
  <1>3. /\ c.AuthType \in AuthTypes \cup {Unset}
        /\ c.Username \in Versions \cup {Unset} /\ c.Password \in Versions \cup {Unset}
        /\ c.Token \in Versions \cup {Unset} /\ c.QPValue \in Versions \cup {Unset}
        /\ c.Headers \in Seq(Versions) \cup {Unset} /\ c.OAuthCfg \in Seq(Versions) \cup {Unset}
    BY <1>1 DEF Credentials
  <1>4. c \in Credentials
    BY <1>2, <1>3 DEF Credentials
  <1>5. c.Username = c.Password
    BY <1>1 DEF Matching, Whole
  <1>6. c.AuthType = IF new.AuthType = Unset THEN old.AuthType ELSE new.AuthType
    BY <1>1
  <1>7. ASSUME NEW f \in Carried(c.AuthType)
        PROVE  /\ f \in {"Username", "Password", "Token", "QPValue", "Headers", "OAuthCfg"}
               /\ f = "Headers" => c.AuthType = "headers"
    BY <1>7 DEF Carried
  <1>8. ASSUME NEW f \in Carried(c.AuthType), new.AuthType = Unset
        PROVE  c[f] # Unset \/ (f = "Headers" /\ b)
    <2>1. old[f] # Unset \/ (f = "Headers" /\ b)
      BY <1>6, <1>8 DEF Whole
    <2> QED BY <1>1, <1>7, <2>1
  <1>9. ASSUME NEW f \in Carried(c.AuthType), new.AuthType # Unset
        PROVE  c[f] # Unset \/ (f = "Headers" /\ HeadersMissing(new))
    <2>1. new[f] # Unset
      BY <1>6, <1>9 DEF Matching
    <2>2. f = "Headers" /\ new[f] = <<>> => HeadersMissing(new)
      BY <1>6, <1>7, <1>9 DEF HeadersMissing
    <2> QED BY <1>1, <1>7, <2>1, <2>2
  <1> QED BY <1>4, <1>5, <1>8, <1>9 DEF Whole

LEMMA BlankIsSound ==
  /\ Sound(Blank) /\ Blank.st = "unused"
  /\ Sound(Gone) /\ Gone.st = "gone"
  /\ \A n \in AgentNames, t \in TeamIDs : Sound(Made(n, t)) /\ Made(n, t).st = "live"
  <1>1. Bodies # {}
    BY SpecsAreParameters, RuntimeAssumption
  <1>2. (CHOOSE b \in Bodies : TRUE) \in Bodies /\ (CHOOSE n \in AgentNames : TRUE) \in AgentNames
    BY <1>1, A2AAgentAssumption
  <1>3. /\ Blank \in Agents /\ Blank.st = "unused"
        /\ Blank.auth = NoCredentials /\ Blank.bare = FALSE
    BY <1>2, NoCredentialsMatch, A2AAgentAssumption DEF Blank, Agents
  <1>4. /\ Gone \in Agents /\ Gone.st = "gone"
        /\ Gone.auth = NoCredentials /\ Gone.bare = FALSE
    BY <1>3 DEF Gone, Agents
  <1>5. ASSUME NEW n \in AgentNames, NEW t \in TeamIDs
        PROVE  /\ Made(n, t) \in Agents /\ Made(n, t).st = "live"
               /\ Made(n, t).auth = NoCredentials /\ Made(n, t).bare = FALSE
               /\ Made(n, t).team = t
    BY <1>3 DEF Made, Agents
  <1> QED BY <1>3, <1>4, <1>5, NoCredentialsMatch DEF Sound

LEMMA ResolvedIsName ==
  ASSUME NEW r \in Resources, NEW s \in Specs
  PROVE  resolvedName(r, s) \in AgentNames
  BY SpecsAreParameters, A2AAgentAssumption DEF resolvedName

LEMMA UpdatedIsSound ==
  ASSUME NEW r \in Resources, NEW s \in Specs, NEW t \in TeamIDs, NEW a, Sound(a),
         NEW c \in Credentials, Matching(c)
  PROVE  /\ Sound(toA2AAgentUpdate(r, s, t, c, a))
         /\ toA2AAgentUpdate(r, s, t, c, a).st = a.st
         /\ toA2AAgentUpdate(r, s, t, c, a).team = t
  <1> DEFINE b == toA2AAgentUpdate(r, s, t, c, a)
             bare == IF c.AuthType = Unset THEN a.bare ELSE HeadersMissing(c)
  <1>1. a \in Agents /\ a.auth \in Credentials /\ a.bare \in BOOLEAN /\ Whole(a.auth, a.bare)
    BY DEF Sound, Agents
  <1>2. SentAuth(c, a.auth) \in Credentials /\ Whole(SentAuth(c, a.auth), bare)
    BY <1>1, SentAuthMatches
  <1>3. resolvedName(r, s) \in AgentNames /\ s.body \in Bodies
    BY ResolvedIsName, SpecsAreParameters
  <1>4. Sent(s.desc, a.desc) \in Descs \cup {Unset} /\ Sent(s.tags, a.tags) \in TagLists
    BY <1>1, SpecsAreParameters DEF Sent, Agents
  <1>5. Sent(fromRawExtension(s.caps), a.caps) \in Documents \cup {NilMap, EmptyMap}
    BY <1>1, SpecsAreParameters DEF Sent, fromRawExtension, Agents
  <1>6. bare \in BOOLEAN
    BY <1>1 DEF HeadersMissing
  <1>7. /\ b \in Agents /\ b.st = a.st /\ b.team = t
        /\ b.auth = SentAuth(c, a.auth) /\ b.bare = bare
    BY <1>1, <1>2, <1>3, <1>4, <1>5, <1>6 DEF toA2AAgentUpdate, Agents
  <1> QED BY <1>2, <1>7 DEF Sound

\* The order of a list is all that ContextForge may change of an agent.
LEMMA ArrangedIsSound ==
  ASSUME NEW a, Sound(a), NEW b \in Arrangements(a)
  PROVE  Sound(b) /\ b.st = a.st /\ b.team = a.team
  BY DEF Arrangements, Sound, Agents

LEMMA IDsAreNames ==
  /\ NoName \in Names /\ AgentIDs \subseteq Names
  /\ \A n : Answering(n) \subseteq LiveAgents /\ Addressed(n) \subseteq LiveAgents
  /\ LiveAgents \subseteq AgentIDs
  /\ \A w \in Workers : Target[w] \in Resources
  BY RuntimeAssumption DEF Names, AgentIDs, LiveAgents, Answering, Addressed

-----------------------------------------------------------------------------
(* Every call of the component keeps to ExternalCall, or is one of the     *)
(* look-ups before a request, which the loop does not see.                 *)

\* What a call does to the loop that makes it; i is an ID, or NoName.
CallForm(w) ==
    \/ pc[w] = "observe" /\ \E e, u : Observed(w, cr[w], e, u)
    \/ pc[w] = "observe" /\ \E i \in Names : \E u : Observed(w, toObservation(cr[w], i), TRUE, u)
    \/ /\ pc[w] \in {"observe", "update", "delete"}
       /\ Report(w, cr[w]) \/ \E i \in Names : Report(w, toObservation(cr[w], i))
    \/ pc[w] \in {"create", "adopt"} /\ \E i \in Names : Adopted(w, i)
    \/ pc[w] \in {"create", "adopt"} /\ CreateFailed(w)
    \/ pc[w] = "create" /\ Goto(w, "adopt", cr[w]) /\ UNCHANGED <<kubeVars, fresh, plan, budget>>

LEMMA FoundHasForm ==
  ASSUME NEW w \in Workers, NEW i \in Names, NEW u, Found(w, i, u), pc[w] = "observe"
  PROVE  CallForm(w)
  BY DEF Found, CallForm

LEMMA CallHasForm ==
  ASSUME NEW w \in Workers, Call(w)
  PROVE  \/ CallForm(w) /\ (Disrupt \/ UNCHANGED budget)
         \/ Resolve(w) /\ UNCHANGED runtimeVars
  <1>1. /\ \A i \in LiveAgents : i \in Names
        /\ \A i \in AgentIDs : i \in Names
        /\ \A n : Answering(n) \subseteq LiveAgents /\ Addressed(n) \subseteq LiveAgents
        /\ NoName \in Names
    BY IDsAreNames
  <1>2. CASE Observe(w)
    <2>1. CASE \E i \in Names : \E u : Found(w, i, u)
      BY <1>2, <2>1, FoundHasForm DEF Observe
    <2>2. CASE ~(\E i \in Names : \E u : Found(w, i, u))
      BY <1>1, <1>2, <2>2 DEF Observe, CallForm
    <2>3. Disrupt \/ UNCHANGED budget
      BY <1>2 DEF Observe
    <2> QED BY <2>1, <2>2, <2>3
  <1>3. CASE Resolve(w)
    BY <1>3 DEF Resolve, resolveTeam, ReadSecret
  <1>4. CASE ResolveFails(w)
    BY <1>4 DEF ResolveFails, CallForm
  <1>5. CASE Post(w)
    BY <1>1, <1>5 DEF Post, CallForm
  <1>6. CASE Adopt(w)
    BY <1>1, <1>6 DEF Adopt, CallForm
  <1>7. CASE Put(w)
    BY <1>1, <1>7 DEF Put, CallForm
  <1>8. CASE Delete(w)
    BY <1>8 DEF Delete, CallForm
  <1> QED BY <1>2, <1>3, <1>4, <1>5, <1>6, <1>7, <1>8 DEF Call

LEMMA CallIsExternalCall ==
  ASSUME LoopInv, NEW w \in Workers, Call(w)
  PROVE  ExternalCall(w) \/ (Resolve(w) /\ UNCHANGED runtimeVars)
  <1> SUFFICES ASSUME CallForm(w), Disrupt \/ UNCHANGED budget
               PROVE  ExternalCall(w)
    BY CallHasForm
  <1>1. NoName \in Names
    BY IDsAreNames
  <1>2. CASE pc[w] = "observe" /\ \E e, u : Observed(w, cr[w], e, u)
    BY <1>1, <1>2, ObservedIsCall
  <1>3. CASE pc[w] = "observe" /\ \E i \in Names : \E u : Observed(w, toObservation(cr[w], i), TRUE, u)
    BY <1>3, ObservedIsCall DEF toObservation
  <1>4. CASE /\ pc[w] \in {"observe", "update", "delete"}
             /\ Report(w, cr[w]) \/ \E i \in Names : Report(w, toObservation(cr[w], i))
    BY <1>1, <1>4, ReportIsCall DEF toObservation
  <1>5. CASE pc[w] \in {"create", "adopt"} /\ \E i \in Names : Adopted(w, i)
    BY <1>5, CreatedIsCall DEF Adopted, toObservation
  <1>6. CASE pc[w] \in {"create", "adopt"} /\ CreateFailed(w)
    BY <1>6, CreateFailedIsCall
  <1>7. CASE /\ pc[w] = "create" /\ Goto(w, "adopt", cr[w])
             /\ UNCHANGED <<kubeVars, fresh, plan, budget>>
    <2>1. "adopt" \in Successors(pc[w], cr[w])
      BY <1>7 DEF Successors
    <2> QED BY <1>7, <2>1, GoesOnIsCall
  <1> QED BY <1>2, <1>3, <1>4, <1>5, <1>6, <1>7 DEF CallForm

LEMMA HumansAct ==
  ASSUME Humans
  PROVE  /\ \/ \E m \in Manifests : UserCreate(m)
            \/ \E r \in Resources : UserDelete(r) \/ OperatorClear(r)
            \/ \E r \in Resources, s \in Specs : UserEdit(r, s)
         /\ UNCHANGED agentVars
  <1>1. \A m \in Manifests : m.spec \in Specs
    BY RuntimeAssumption
  <1> QED BY <1>1 DEF Humans, Edit

LEMMA OthersActElsewhere ==
  ASSUME Others
  PROVE  (Elsewhere \/ UNCHANGED runtimeVars) /\ UNCHANGED <<kubeVars, loopVars, tid, read>>
  <1>1. \A i, new : OutOfBand(i, new) => Elsewhere /\ UNCHANGED <<tid, read>>
    BY DEF OutOfBand, Elsewhere
  <1>2. \A r, t : TeamStatus(r, t) => (Elsewhere \/ UNCHANGED runtimeVars) /\ UNCHANGED <<tid, read>>
    BY DEF TeamStatus, Elsewhere, runtimeVars, kubeVars, loopVars
  <1>3. \A s, v : Rotate(s, v) => (Elsewhere \/ UNCHANGED runtimeVars) /\ UNCHANGED <<tid, read>>
    BY DEF Rotate, Elsewhere, runtimeVars, kubeVars, loopVars
  <1>4. \A i : Land(i) => UNCHANGED <<runtimeVars, tid, read>>
    BY DEF Land
  <1>5. (Elsewhere \/ UNCHANGED runtimeVars) /\ UNCHANGED <<tid, read>>
    BY <1>1, <1>2, <1>3, <1>4 DEF Others, ForeignCreate, ForeignDelete, ForeignEdit
  <1> QED BY <1>5 DEF Elsewhere, runtimeVars, kubeVars, loopVars

LEMMA NextIsRuntimeNext ==
  ASSUME LoopInv, Next
  PROVE  RuntimeNext \/ UNCHANGED runtimeVars
  <1>1. CASE \E w \in Workers : Controller(w)
    BY <1>1, CallIsExternalCall DEF Controller, RuntimeNext
  <1>2. CASE Humans
    BY <1>2, HumansAct DEF RuntimeNext
  <1>3. CASE Others
    BY <1>3, OthersActElsewhere DEF RuntimeNext
  <1>4. CASE Faults
    BY <1>4 DEF Faults, RuntimeNext
  <1> QED BY <1>1, <1>2, <1>3, <1>4 DEF Next

\* What ContextForge makes of a name in a PUT or a DELETE stays as it is.
LEMMA ByNameStays ==
  ASSUME [Next]_vars
  PROVE  byName' = byName
  <1>1. CASE \E w \in Workers : Controller(w)
    BY <1>1 DEF Controller
  <1>2. CASE Humans
    BY <1>2 DEF Humans, agentVars
  <1>3. CASE Others
    BY <1>3 DEF Others
  <1>4. CASE Faults
    BY <1>4 DEF Faults
  <1>5. CASE UNCHANGED vars
    BY <1>5 DEF vars
  <1> QED BY <1>1, <1>2, <1>3, <1>4, <1>5 DEF Next

LEMMA AgentKeepsLoopInv ==
  ASSUME LoopInv, [Next]_vars
  PROVE  [RuntimeNext]_runtimeVars /\ LoopInv'
  <1>1. [RuntimeNext]_runtimeVars
    BY NextIsRuntimeNext DEF vars, runtimeVars
  <1> QED BY <1>1, NextKeepsLoopInv

\* The A2AAgent controller does of a CR only what the runtime expects of a
\* component (the external client, a2aagent.go:323-437), though a call of it
\* reads the Team CR and several Secrets before it sends anything.
THEOREM AgentImplementsRuntime == Spec => RuntimeSpec
  <1>1. Init => RuntimeInit /\ LoopInv
    BY InitLoopInv DEF Init
  <1>2. LoopInv /\ [Next]_vars => LoopInv' /\ [RuntimeNext]_runtimeVars
    BY AgentKeepsLoopInv
  <1> QED BY <1>1, <1>2, PTL DEF Spec, RuntimeSpec

\* The steps that are no request: the loop's and the people's, the look-ups of
\* Create and Update, and what others do to the agents, the Teams and the Secrets.
LEMMA NextIsCallOrRuntime ==
  ASSUME [Next]_vars
  PROVE  (\E w \in Workers : Call(w)) \/ RuntimeOnly
  <1>1. CASE \E w \in Workers : Controller(w)
    BY <1>1 DEF Controller, RuntimeOnly
  <1>2. CASE Humans
    BY <1>2, HumansAct DEF RuntimeOnly
  <1>3. CASE Others
    BY <1>3, OthersActElsewhere DEF RuntimeOnly
  <1>4. CASE Faults
    BY <1>4 DEF Faults, RuntimeOnly
  <1>5. CASE UNCHANGED vars
    BY <1>5 DEF vars, runtimeVars, kubeVars, loopVars, RuntimeOnly
  <1> QED BY <1>1, <1>2, <1>3, <1>4, <1>5 DEF Next

-----------------------------------------------------------------------------
(* Agents are made once, with a team and whole credentials, and do not     *)
(* come back.                                                              *)

AgentsGrow == \A i \in AgentIDs :
    /\ agents[i].st \in {"live", "gone"} => agents'[i].st \in {"live", "gone"}
    /\ agents[i].st = "gone" => agents'[i].st = "gone"

AgentsFine == AgentsAreSound' /\ AgentsGrow

LEMMA NoAgentChanges ==
  ASSUME AgentsAreSound, UNCHANGED agents
  PROVE  AgentsFine
  BY DEF AgentsAreSound, AgentsGrow, AgentsFine

\* One agent changes, from a state that allows it.
LEMMA OneAgentChanges ==
  ASSUME AgentsAreSound, NEW i \in AgentIDs, NEW o, Sound(o),
         agents' = [agents EXCEPT ![i] = o],
         \/ agents[i].st \in {"unused", "sent"}
         \/ agents[i].st = "live" /\ o.st \in {"live", "gone"}
  PROVE  AgentsFine
  <1>1. o \in Agents
    BY DEF Sound
  <1>2. /\ agents' \in [AgentIDs -> Agents]
        /\ \A j \in AgentIDs : agents'[j] = IF j = i THEN o ELSE agents[j]
    BY <1>1 DEF AgentsAreSound
  <1>3. \A j \in AgentIDs : Sound(agents'[j])
    BY <1>2 DEF AgentsAreSound
  <1>4. AgentsGrow
    BY <1>2 DEF AgentsGrow
  <1> QED BY <1>2, <1>3, <1>4 DEF AgentsAreSound, AgentsFine

\* A request that is ready carries a team's ID and whole credentials.
LEMMA RequestIsWhole ==
  ASSUME AgentInv, NEW w \in Workers, pc[w] \in {"create", "update"}, Ready(w)
  PROVE  /\ Target[w] \in Resources /\ cr[w].spec \in Specs /\ tid[w] \in TeamIDs
         /\ authConf(w) \in Credentials /\ Matching(authConf(w))
  <1> USE DEF AgentInv
  <1>1. Target[w] \in Resources /\ cr[w].spec \in Specs
    BY CopyFacts
  <1>2. tid[w] \in TeamIDs
    BY DEF Ready, TeamKnown, InputsTypeOK
  <1>3. cr[w].spec.auth \in Auths
    BY <1>1, SpecsAreParameters
  <1>4. read[w] \in Seq(Versions) /\ Len(read[w]) = Len(cr[w].spec.auth.refs)
    BY DEF Ready, Refs, InputsTypeOK
  <1>5. authConf(w) \in Credentials /\ Matching(authConf(w))
    BY <1>3, <1>4, AuthResultMatches DEF authConf
  <1> QED BY <1>1, <1>2, <1>5

LEMMA MakesFine ==
  ASSUME AgentInv, NEW w \in Workers, pc[w] = "create", Ready(w), NEW i \in AgentIDs,
         NEW st \in {"live", "sent"}, Makes(w, i, st)
  PROVE  AgentsFine /\ agents'[i].st = st
  <1> USE DEF AgentInv
  <1> DEFINE new == toA2AAgentCreate(Target[w], cr[w].spec, tid[w], authConf(w))
  <1>1. Sound(new) /\ new.team \in TeamIDs
    <2> DEFINE u == toA2AAgentUpdate(Target[w], cr[w].spec, tid[w], authConf(w), Blank)
    <2>1. Sound(u) /\ u.team = tid[w] /\ tid[w] \in TeamIDs
      BY RequestIsWhole, BlankIsSound, UpdatedIsSound
    <2>2. new = [u EXCEPT !.st = "live"]
      BY DEF toA2AAgentCreate
    <2> HIDE DEF u, new
    <2> QED BY <2>1, <2>2 DEF Sound, Agents
  <1>2. PICK a \in Arrangements(new) :
          agents' = [agents EXCEPT ![i] = [a EXCEPT !.st = st]]
    BY DEF Makes
  <1>3. agents[i].st = "unused"
    BY DEF Makes
  <1> HIDE DEF new
  <1>4. Sound(a) /\ a.team \in TeamIDs
    BY <1>1, <1>2, ArrangedIsSound
  <1> DEFINE o == [a EXCEPT !.st = st]
  <1>5. Sound(o) /\ o.st = st
    BY <1>4 DEF Sound, Agents
  <1>6. agents' = [agents EXCEPT ![i] = o]
    BY <1>2
  <1> HIDE DEF o
  <1>7. agents'[i] = o
    BY <1>6 DEF AgentsAreSound
  <1> QED BY <1>3, <1>5, <1>6, <1>7, OneAgentChanges

LEMMA PutFine ==
  ASSUME AgentInv, NEW w \in Workers, Put(w)
  PROVE  AgentsFine
  <1> USE DEF AgentInv
  <1>1. ASSUME NEW i \in Addressed(cr[w].name),
               NEW a \in Arrangements(toA2AAgentUpdate(Target[w], cr[w].spec, tid[w],
                                                       authConf(w), agents[i])),
               agents' = [agents EXCEPT ![i] = a]
        PROVE  AgentsFine
    <2> DEFINE u == toA2AAgentUpdate(Target[w], cr[w].spec, tid[w], authConf(w), agents[i])
    <2>1. i \in AgentIDs /\ Sound(agents[i]) /\ agents[i].st = "live"
      BY IDsAreNames DEF LiveAgents, Live, AgentsAreSound
    <2>2. pc[w] = "update" /\ Ready(w)
      BY DEF Put
    <2>3. Sound(u) /\ u.st = "live"
      BY <2>1, <2>2, RequestIsWhole, UpdatedIsSound
    <2>4. a \in Arrangements(u)
      OBVIOUS
    <2> HIDE DEF u
    <2>5. Sound(a) /\ a.st = "live"
      BY <2>3, <2>4, ArrangedIsSound
    <2>6. agents' = [agents EXCEPT ![i] = a]
      BY <1>1
    <2> QED BY <2>1, <2>5, <2>6, OneAgentChanges
  <1>2. CASE UNCHANGED agents
    BY <1>2, NoAgentChanges
  <1> QED BY <1>1, <1>2 DEF Put

LEMMA DeleteFine ==
  ASSUME AgentInv, NEW w \in Workers, Delete(w)
  PROVE  AgentsFine
  <1> USE DEF AgentInv
  <1> DEFINE G == Addressed(cr[w].name)
  <1>1. CASE agents' = [i \in AgentIDs |-> IF i \in G THEN Gone ELSE agents[i]]
    <2>1. Sound(Gone) /\ Gone.st = "gone" /\ Gone \in Agents
      BY BlankIsSound DEF Sound
    <2> HIDE DEF G
    <2> QED BY <1>1, <2>1 DEF AgentsAreSound, AgentsGrow, AgentsFine
  <1>2. CASE UNCHANGED agents
    BY <1>2, NoAgentChanges
  <1> QED BY <1>1, <1>2 DEF Delete

LEMMA CallFine ==
  ASSUME AgentInv, NEW w \in Workers, Call(w)
  PROVE  AgentsFine /\ UNCHANGED <<teamOf, secrets>>
  <1> USE DEF AgentInv
  <1>1. UNCHANGED <<teamOf, secrets>>
    BY DEF Call, Observe, Resolve, resolveTeam, ReadSecret, ResolveFails, Post, Adopt, Put, Delete,
           agentVars
  <1>2. CASE Observe(w) \/ Resolve(w) \/ ResolveFails(w) \/ Adopt(w)
    BY <1>1, <1>2, NoAgentChanges
    DEF Observe, Resolve, resolveTeam, ReadSecret, ResolveFails, Adopt, agentVars
  <1>3. CASE Post(w)
    <2>1. \/ \E i \in AgentIDs : Makes(w, i, "live") \/ Makes(w, i, "sent")
          \/ UNCHANGED agents
      BY <1>3 DEF Post
    <2>2. pc[w] = "create" /\ Ready(w)
      BY <1>3 DEF Post
    <2> QED BY <1>1, <2>1, <2>2, MakesFine, NoAgentChanges
  <1> QED BY <1>1, <1>2, <1>3, PutFine, DeleteFine DEF Call

LEMMA OthersFine ==
  ASSUME AgentInv, Others
  PROVE  /\ AgentsFine
         /\ teamOf' \in [Resources -> TeamIDs \cup {NoTeam}]
         /\ secrets' \in [Secrets -> Versions \cup {Missing}]
  <1> USE DEF AgentInv
  <1>1. ASSUME NEW i \in AgentIDs, Land(i) PROVE AgentsFine
    <2>1. agents[i].st = "sent" /\ Sound(agents[i])
      BY <1>1 DEF Land, AgentsAreSound
    <2>2. CASE NameTaken(agents[i].name)
      <3>1. agents' = [agents EXCEPT ![i] = Gone]
        BY <1>1, <2>2 DEF Land, AgentsAreSound
      <3> QED BY <2>1, <3>1, BlankIsSound, OneAgentChanges
    <2>3. CASE ~NameTaken(agents[i].name)
      <3> DEFINE o == [agents[i] EXCEPT !.st = "live"]
      <3>1. agents' = [agents EXCEPT ![i] = o]
        BY <1>1, <2>3 DEF Land, AgentsAreSound
      <3>2. Sound(o)
        BY <2>1 DEF Sound, Agents
      <3> HIDE DEF o
      <3> QED BY <2>1, <3>1, <3>2, OneAgentChanges
    <2> QED BY <2>2, <2>3
  <1>2. ASSUME NEW i \in AgentIDs, ForeignDelete(i) PROVE AgentsFine
    <2>1. agents[i].st = "live" /\ agents' = [agents EXCEPT ![i] = Gone]
      BY <1>2 DEF ForeignDelete, OutOfBand, Live
    <2> QED BY <2>1, BlankIsSound, OneAgentChanges
  <1>3. ASSUME NEW i \in AgentIDs, NEW n \in AgentNames, NEW t \in TeamIDs,
               ForeignCreate(i, n, t)
        PROVE  AgentsFine
    <2>1. agents[i].st = "unused" /\ agents' = [agents EXCEPT ![i] = Made(n, t)]
      BY <1>3 DEF ForeignCreate, OutOfBand
    <2> QED BY <2>1, BlankIsSound, OneAgentChanges
  <1>4. ASSUME NEW i \in AgentIDs, NEW n \in AgentNames, NEW l \in TagLists,
               NEW d \in Documents \cup {DefaultMap}, ForeignEdit(i, n, l, d)
        PROVE  AgentsFine
    <2> DEFINE o == [agents[i] EXCEPT !.name = n, !.tags = l, !.caps = d]
    <2>1. agents[i].st = "live" /\ agents' = [agents EXCEPT ![i] = o] /\ Sound(agents[i])
      BY <1>4 DEF ForeignEdit, OutOfBand, Live, AgentsAreSound
    <2>2. d \in Documents \cup {NilMap, EmptyMap}
      BY A2AAgentAssumption
    <2>3. Sound(o) /\ o.st = "live"
      BY <2>1, <2>2 DEF Sound, Agents
    <2> HIDE DEF o
    <2> QED BY <2>1, <2>3, OneAgentChanges
  <1>5. CASE \E r \in Resources, t \in TeamIDs \cup {NoTeam} : TeamStatus(r, t)
    BY <1>5, NoAgentChanges DEF TeamStatus, InputsTypeOK
  <1>6. CASE \E s \in Secrets, v \in Versions \cup {Missing} : Rotate(s, v)
    BY <1>6, NoAgentChanges DEF Rotate, InputsTypeOK
  <1>7. CASE \E i \in AgentIDs :
               \/ Land(i) \/ ForeignDelete(i)
               \/ \E n \in AgentNames :
                   \/ \E t \in TeamIDs : ForeignCreate(i, n, t)
                   \/ \E l \in TagLists, d \in Documents \cup {DefaultMap} :
                         ForeignEdit(i, n, l, d)
    <2>1. UNCHANGED <<teamOf, secrets>>
      BY <1>7 DEF Land, ForeignDelete, ForeignCreate, ForeignEdit, OutOfBand
    <2>2. AgentsFine
      BY <1>1, <1>2, <1>3, <1>4, <1>7
    <2> QED BY <2>1, <2>2 DEF InputsTypeOK
  <1> QED BY <1>5, <1>6, <1>7 DEF Others

LEMMA AgentsStep ==
  ASSUME AgentInv, [Next]_vars
  PROVE  /\ AgentsFine
         /\ teamOf' \in [Resources -> TeamIDs \cup {NoTeam}]
         /\ secrets' \in [Secrets -> Versions \cup {Missing}]
  <1> USE DEF AgentInv
  <1>1. CASE UNCHANGED <<agents, teamOf, secrets>>
    BY <1>1, NoAgentChanges DEF InputsTypeOK
  <1>2. CASE \E w \in Workers : Call(w)
    BY <1>2, CallFine DEF InputsTypeOK
  <1> QED BY <1>1, <1>2, OthersFine DEF Next, Controller, Humans, Faults, vars, agentVars

-----------------------------------------------------------------------------
(* What the loops have read.                                               *)

Asking == {"create", "update"}

LEMMA LoopAsksNothing ==
  ASSUME LoopInv, NEW w \in Workers, Loop(w)
  PROVE  /\ pc[w] \notin Asking
         /\ \A v \in Workers : v # w => pc'[v] = pc[v] /\ cr'[v] = cr[v]
  <1>1. pc[w] \notin Asking
    BY DEF Loop, Start, AddFinalizer, SetPending, Annotate, AnnotateLost, UpdateStatus,
           RemoveFinalizer, Asking
  <1>2. \E s, c : Goto(w, s, c)
    BY DEF Loop, Start, AddFinalizer, SetPending, Annotate, AnnotateLost, UpdateStatus,
           RemoveFinalizer, UpdateCR, UpdateAndFinish, Finish
  <1> QED BY <1>1, <1>2 DEF Goto, LoopInv, RuntimeTypeOK

\* Only at the end of a look-up is there more to remember; after any other call
\* the loop is no longer asking.
LEMMA CallStopsAsking ==
  ASSUME LoopInv, NEW w \in Workers, Call(w), ~Resolve(w)
  PROVE  /\ pc'[w] \notin Asking
         /\ \A v \in Workers : v # w => pc'[v] = pc[v] /\ cr'[v] = cr[v]
  <1>1. ExternalCall(w)
    BY CallIsExternalCall
  <1>2. pc'[w] \in Successors(pc[w], cr[w])
        /\ \A v \in Workers : v # w => pc'[v] = pc[v] /\ cr'[v] = cr[v]
    BY <1>1, CallIsLocal
  <1>3. Successors(pc[w], cr[w]) \cap Asking = {}
    BY DEF Successors, Asking
  <1> QED BY <1>2, <1>3

LEMMA SecretIsRead ==
  ASSUME AgentInv, NEW w \in Workers, pc[w] \in Asking, ReadSecret(w)
  PROVE  /\ read'[w] \in Seq(Versions) /\ Len(read'[w]) <= Len(Refs(w))
         /\ read' = [read EXCEPT ![w] = read'[w]]
  <1> USE DEF AgentInv
  <1>1. Refs(w) \in Seq(Secrets)
    <2>1. cr[w].spec.auth \in Auths
      BY CopyFacts, SpecsAreParameters
    <2> QED BY <2>1, RefsAreSecrets DEF Refs
  <1>2. read[w] \in Seq(Versions) /\ Len(read[w]) <= Len(Refs(w)) /\ Len(read[w]) # Len(Refs(w))
    BY DEF InputsTypeOK, ReadsFollowRefs, ReadSecret, Ready, Asking
  <1>3. NextRef(w) \in Secrets
    BY <1>1, <1>2 DEF NextRef
  <1> DEFINE v == secrets[NextRef(w)]
  <1>4. v \in Versions /\ read' = [read EXCEPT ![w] = Append(read[w], v)]
    BY <1>3 DEF ReadSecret, InputsTypeOK
  <1> HIDE DEF v
  <1>5. read'[w] = Append(read[w], v)
    BY <1>4 DEF InputsTypeOK
  <1>6. Append(read[w], v) \in Seq(Versions) /\ Len(Append(read[w], v)) = Len(read[w]) + 1
    BY <1>2, <1>4
  <1>7. Len(read[w]) \in Nat /\ Len(Refs(w)) \in Nat
    BY <1>1, <1>2
  <1>8. Len(read'[w]) <= Len(Refs(w))
    <2> DEFINE m == Len(read[w])
               n == Len(Refs(w))
    <2>1. m \in Nat /\ n \in Nat /\ m <= n /\ m # n /\ Len(read'[w]) = m + 1
      BY <1>2, <1>5, <1>6, <1>7
    <2> HIDE DEF m, n
    <2>2. m + 1 <= n
      BY <2>1
    <2> QED BY <2>1, <2>2 DEF n
  <1>9. read' = [read EXCEPT ![w] = read'[w]]
    BY <1>4, <1>5
  <1> QED BY <1>5, <1>6, <1>8, <1>9

LEMMA ResolveReads ==
  ASSUME AgentInv, NEW w \in Workers, Resolve(w)
  PROVE  /\ tid' \in [Workers -> TeamIDs \cup {NoTeam}]
         /\ read' \in [Workers -> Seq(Versions)]
         /\ ReadsFollowRefs'
  <1> USE DEF AgentInv
  <1>1. pc[w] \in Asking /\ UNCHANGED <<pc, cr>>
    BY DEF Resolve, resolveTeam, ReadSecret, runtimeVars, Asking
  <1>2. CASE resolveTeam(w)
    <2>1. read' = read /\ tid' = [tid EXCEPT ![w] = teamOf[Target[w]]]
      BY <1>2 DEF resolveTeam
    <2>2. ReadsFollowRefs'
      BY <1>1, <2>1 DEF ReadsFollowRefs, Refs
    <2> QED BY <2>1, <2>2, IDsAreNames DEF InputsTypeOK
  <1>3. CASE ReadSecret(w)
    <2>1. /\ read'[w] \in Seq(Versions) /\ Len(read'[w]) <= Len(Refs(w))
          /\ read' = [read EXCEPT ![w] = read'[w]] /\ tid' = tid
      BY <1>1, <1>3, SecretIsRead DEF ReadSecret
    <2>2. \A v \in Workers : v # w => read'[v] = read[v]
      BY <2>1 DEF InputsTypeOK
    <2>3. read' \in [Workers -> Seq(Versions)]
      BY <2>1 DEF InputsTypeOK
    <2>4. ReadsFollowRefs'
      BY <1>1, <2>1, <2>2 DEF ReadsFollowRefs, Refs, Asking
    <2> QED BY <2>1, <2>3, <2>4 DEF InputsTypeOK
  <1> QED BY <1>2, <1>3 DEF Resolve

\* Steps after which a loop is asking only if it was, or has read nothing.
LEMMA OthersKeepReads ==
  ASSUME AgentInv, LoopInv',
         \A v \in Workers :
            \/ read'[v] = <<>>
            \/ pc'[v] = pc[v] /\ cr'[v] = cr[v] /\ read'[v] = read[v]
  PROVE  ReadsFollowRefs'
  <1> SUFFICES ASSUME NEW v \in Workers
               PROVE  /\ pc'[v] \in Asking => Len(read'[v]) <= Len(cr'[v].spec.auth.refs)
                      /\ pc'[v] \notin Asking => read'[v] = <<>>
    BY DEF ReadsFollowRefs, Refs, Asking
  <1>1. CASE read'[v] = <<>> /\ pc'[v] \in Asking
    <2>1. cr'[v].spec.auth.refs \in Seq(Secrets)
      <3>1. cr'[v].spec \in Specs
        BY DEF LoopInv, RuntimeTypeOK, Objects
      <3> QED BY <3>1, SpecsAreParameters, RefsAreSecrets
    <2> QED BY <1>1, <2>1
  <1> QED BY <1>1 DEF AgentInv, ReadsFollowRefs, Refs, Asking

LEMMA ReadsStep ==
  ASSUME AgentInv, [Next]_vars
  PROVE  /\ tid' \in [Workers -> TeamIDs \cup {NoTeam}]
         /\ read' \in [Workers -> Seq(Versions)]
         /\ ReadsFollowRefs'
  <1> USE DEF AgentInv
  <1>1. LoopInv'
    BY AgentKeepsLoopInv
  <1>2. CASE UNCHANGED <<pc, cr, tid, read>>
    BY <1>1, <1>2, OthersKeepReads DEF InputsTypeOK
  <1>3. CASE \E w \in Workers : Resolve(w)
    BY <1>3, ResolveReads
  <1>4. ASSUME NEW w \in Workers, Call(w), ~Resolve(w)
        PROVE  /\ tid' \in [Workers -> TeamIDs \cup {NoTeam}]
               /\ read' \in [Workers -> Seq(Versions)]
               /\ ReadsFollowRefs'
    <2>1. UNCHANGED <<tid, read>> \/ Forget(w)
      BY <1>4 DEF Call, Observe, ResolveFails, Post, Adopt, Put, Delete, agentVars
    <2>2. <<>> \in Seq(Versions)
      OBVIOUS
    <2>3. /\ tid' \in [Workers -> TeamIDs \cup {NoTeam}]
          /\ read' \in [Workers -> Seq(Versions)]
          /\ read'[w] \in {<<>>, read[w]}
          /\ \A v \in Workers : v # w => read'[v] = read[v]
      BY <2>1, <2>2 DEF Forget, InputsTypeOK
    <2>4. /\ pc'[w] \notin Asking
          /\ \A v \in Workers : v # w => pc'[v] = pc[v] /\ cr'[v] = cr[v]
      BY <1>4, CallStopsAsking
    <2>5. read'[w] = <<>>
      <3>1. CASE Forget(w)
        BY <3>1 DEF Forget, InputsTypeOK
      <3>2. CASE UNCHANGED <<tid, read>> /\ ~Forget(w)
        <4>1. pc[w] \notin Asking
          BY <1>4, <3>2 DEF Call, Observe, ResolveFails, Post, Adopt, Put, Delete, Asking
        <4> QED BY <3>2, <4>1 DEF ReadsFollowRefs, Asking
      <3> QED BY <2>1, <3>1, <3>2
    <2> QED BY <1>1, <2>3, <2>4, <2>5, OthersKeepReads
  <1>5. ASSUME NEW w \in Workers, Loop(w), UNCHANGED agentVars
        PROVE  /\ tid' \in [Workers -> TeamIDs \cup {NoTeam}]
               /\ read' \in [Workers -> Seq(Versions)]
               /\ ReadsFollowRefs'
    <2>1. UNCHANGED <<tid, read>>
      BY <1>5 DEF agentVars
    <2>2. /\ pc[w] \notin Asking
          /\ \A v \in Workers : v # w => pc'[v] = pc[v] /\ cr'[v] = cr[v]
      BY <1>5, LoopAsksNothing
    <2>3. read'[w] = <<>>
      BY <2>1, <2>2 DEF ReadsFollowRefs, Asking
    <2> QED BY <1>1, <2>1, <2>2, <2>3, OthersKeepReads DEF InputsTypeOK
  <1>6. CASE Faults
    <2>1. /\ tid' = [w \in Workers |-> IF pc'[w] = "idle" THEN NoTeam ELSE tid[w]]
          /\ read' = [w \in Workers |-> IF pc'[w] = "idle" THEN <<>> ELSE read[w]]
      BY <1>6 DEF Faults
    <2>2. \A v \in Workers : pc'[v] = "idle" \/ (pc'[v] = pc[v] /\ cr'[v] = cr[v])
      BY <1>6 DEF Faults, Interrupt, CacheSync
    <2>3. <<>> \in Seq(Versions)
      OBVIOUS
    <2>4. /\ tid' \in [Workers -> TeamIDs \cup {NoTeam}]
          /\ read' \in [Workers -> Seq(Versions)]
      BY <2>1, <2>3 DEF InputsTypeOK
    <2> QED BY <1>1, <2>1, <2>2, <2>4, OthersKeepReads
  <1>7. CASE Humans
    <2>1. UNCHANGED agentVars /\ UNCHANGED <<pc, cr>>
      BY <1>7, HumansAct DEF UserCreate, UserDelete, OperatorClear, UserEdit, HumanWrite
    <2> QED BY <1>2, <2>1 DEF agentVars
  <1>8. CASE Others
    BY <1>2, <1>8, OthersActElsewhere DEF loopVars
  <1>9. CASE UNCHANGED vars
    BY <1>2, <1>9 DEF vars, runtimeVars
  <1> QED BY <1>3, <1>4, <1>5, <1>6, <1>7, <1>8, <1>9 DEF Next, Controller

-----------------------------------------------------------------------------
(* External-names: what they stand for, once it was made, and once it is   *)
(* gone.                                                                   *)

\* A name stays known, and a known name's missing agent stays missing.
LEMMA KnownStays ==
  ASSUME AgentsAreSound, AgentsGrow, NEW n, Known(n)
  PROVE  /\ n \in AgentIDs => agents'[n].st \in {"live", "gone"}
         /\ ~Live(n) => ~(n \in AgentIDs /\ agents'[n].st = "live")
  BY DEF Known, Live, AgentsAreSound, AgentsGrow, Agents

\* The copy a call leaves: its name is the one it had, that of an agent that
\* exists, or none after an empty answer.
LEMMA CallName ==
  ASSUME AgentInv, NEW w \in Workers, Call(w)
  PROVE  \/ cr'[w].name \in {cr[w].name, NoName}
         \/ cr'[w].name \in AgentIDs /\ agents'[cr'[w].name].st = "live"
  <1> USE DEF AgentInv
  <1>1. ASSUME NEW s, NEW c, Goto(w, s, c)
        PROVE  cr'[w] = c
    BY <1>1 DEF Goto, LoopInv, RuntimeTypeOK
  <1>2. cr[w] \in Objects
    BY CopyFacts
  <1>3. \A i : [cr[w] EXCEPT !.id = i].name = cr[w].name
    BY <1>2 DEF Objects
  <1>4. ASSUME NEW i, Adopted(w, i)
        PROVE  cr'[w].name = i
    BY <1>1, <1>2, <1>4 DEF Adopted, Created, toObservation, Objects
  <1>5. CASE Post(w) /\ \E i \in AgentIDs : Adopted(w, i) /\ Makes(w, i, "live")
    <2>1. pc[w] = "create" /\ Ready(w)
      BY <1>5 DEF Post
    <2> QED BY <1>4, <1>5, <2>1, MakesFine
  <1>6. CASE Adopt(w) /\ \E i \in LiveAgents : Adopted(w, i)
    BY <1>4, <1>6 DEF Adopt, agentVars, LiveAgents, Live
  <1>7. CASE CreateFailed(w) \/ \E s : Goto(w, s, cr[w])
    BY <1>1, <1>7 DEF CreateFailed
  <1>8. CASE Adopted(w, NoName)
    BY <1>4, <1>8
  <1>9. CASE \E i : Report(w, cr[w]) \/ Report(w, toObservation(cr[w], i))
    BY <1>1, <1>3, <1>9 DEF Report, toObservation
  <1>10. CASE \E e, u, i : Observed(w, cr[w], e, u) \/ Observed(w, toObservation(cr[w], i), e, u)
    BY <1>1, <1>3, <1>10 DEF Observed, toObservation
  <1>11. CASE Observe(w)
    BY <1>9, <1>10, <1>11 DEF Observe, Found
  <1>12. CASE Post(w)
    BY <1>5, <1>7, <1>8, <1>12 DEF Post
  <1>13. CASE Adopt(w)
    <2>1. Answering(resolvedName(Target[w], cr[w].spec)) \subseteq LiveAgents
      BY IDsAreNames
    <2> QED BY <1>6, <1>7, <1>8, <1>13, <2>1 DEF Adopt
  <1>14. CASE Resolve(w)
    BY <1>14 DEF Resolve, resolveTeam, ReadSecret, runtimeVars
  <1>15. CASE ResolveFails(w) \/ Put(w) \/ Delete(w)
    BY <1>7, <1>9, <1>15 DEF ResolveFails, Put, Delete
  <1> QED BY <1>11, <1>12, <1>13, <1>14, <1>15 DEF Call

\* Only Observe sends a loop to the finalizer, and then there is no agent of the
\* ID the copy is bound to.
LEMMA CallMisses ==
  ASSUME LoopInv, NEW w \in Workers, Call(w), pc'[w] = "finalize"
  PROVE  cr'[w] = cr[w] /\ ~Live(cr[w].name) /\ UNCHANGED agents
  <1>1. ASSUME NEW s, NEW c, Goto(w, s, c)
        PROVE  pc'[w] = s /\ cr'[w] = c
    BY <1>1 DEF Goto, LoopInv, RuntimeTypeOK
  <1>2. \A c : ~Report(w, c) /\ ~Created(w, c) /\ ~CreateFailed(w) /\ ~Goto(w, "adopt", c)
    BY <1>1 DEF Report, Created, CreateFailed
  <1>3. ~Resolve(w)
    BY DEF Resolve, resolveTeam, ReadSecret, runtimeVars
  <1>4. Observe(w)
    BY <1>2, <1>3 DEF Call, ResolveFails, Post, Adopt, Adopted, Put, Delete
  <1>5. \A c, u : ~Observed(w, c, TRUE, u)
    BY <1>1 DEF Observed
  <1>6. /\ Observed(w, cr[w], FALSE, FALSE) /\ UNCHANGED agents
        /\ cr[w].name = NoName \/ Answering(cr[w].name) = {}
    BY <1>2, <1>4, <1>5 DEF Observe, Found, agentVars
  <1>7. ~Live(cr[w].name)
    BY <1>6, RuntimeAssumption DEF Answering, LiveAgents, Live, AgentIDs
  <1> QED BY <1>1, <1>6, <1>7 DEF Observed

LEMMA NamesStayKnown ==
  ASSUME AgentInv, [Next]_vars
  PROVE  NamesAreKnown'
  <1> USE DEF AgentInv, NamesAreKnown
  <1>1. AgentsGrow
    BY AgentsStep DEF AgentsFine
  <1>2. \A n : Known(n) => (n \in AgentIDs => agents'[n].st \in {"live", "gone"})
    BY <1>1, KnownStays
  <1>3. CASE \E w \in Workers : Call(w)
    <2> PICK w \in Workers : Call(w)
      BY <1>3
    <2>1. Known(NoName)'
      BY RuntimeAssumption DEF Known, AgentIDs
    <2>2. Known(cr[w].name)'
      BY <1>2, <2>1, CallName DEF Known
    <2>3. /\ UNCHANGED <<obj, cache>>
          /\ \A v \in Workers : v # w => cr'[v] = cr[v]
      <3>1. CASE ExternalCall(w)
        BY <3>1, CallIsLocal
      <3>2. CASE UNCHANGED runtimeVars
        BY <3>2 DEF runtimeVars
      <3> QED BY <3>1, <3>2, CallIsExternalCall
    <2> QED BY <1>2, <2>2, <2>3 DEF Known
  <1>4. CASE RuntimeOnly
    <2> DEFINE Fine == {n \in Names : n \in AgentIDs => agents'[n].st \in {"live", "gone"}}
               K == [r \in Resources |-> Fine]
    <2>1. \A n \in Names : Known(n) => n \in Fine
      BY <1>2 DEF Known
    <2>2. NoName \in Fine /\ \A r \in Resources : MetaName[r] \in Fine
      BY RuntimeAssumption DEF Names, AgentIDs
    <2>3. \A m \in Manifests : m.name \in Fine /\ m.r \in Resources
      BY <2>1, <2>2, A2AAgentAssumption, RuntimeAssumption DEF Names, AgentIDs
    <2>4. /\ \A r \in Resources : obj[r].name \in Fine
          /\ \A w \in Workers : cache[w].name \in Fine /\ cr[w].name \in Fine
                                /\ Target[w] \in Resources
      BY <2>1, RuntimeAssumption DEF LoopInv, RuntimeTypeOK, Objects
    <2>5. \A n \in Fine : n \in AgentIDs => agents'[n].st \in {"live", "gone"}
      OBVIOUS
    <2> HIDE DEF Fine
    <2>6. /\ \A r \in Resources : obj'[r].name \in K[r]
          /\ \A w \in Workers : cache'[w].name \in K[Target[w]] /\ cr'[w].name \in K[Target[w]]
      <3>1. \A r \in Resources : NoName \in K[r] /\ MetaName[r] \in K[r] /\ obj[r].name \in K[r]
        BY <2>2, <2>4
      <3>2. \A m \in Manifests : m.name \in K[m.r]
        BY <2>3
      <3>3. \A w \in Workers : cache[w].name \in K[Target[w]] /\ cr[w].name \in K[Target[w]]
        BY <2>4
      <3> HIDE DEF K
      <3> QED BY <1>4, <3>1, <3>2, <3>3, NamesFlow
    <2> QED BY <1>2, <2>4, <2>5, <2>6 DEF Known
  <1> QED BY <1>3, <1>4, NextIsCallOrRuntime

LEMMA FinalizingStaysSound ==
  ASSUME AgentInv, [Next]_vars
  PROVE  FinalizingMeansGone'
  <1> USE DEF AgentInv
  <1> DEFINE StillMissing(n) == ~(n \in AgentIDs /\ agents'[n].st = "live")
  <1> SUFFICES ASSUME NEW v \in Workers, pc'[v] = "finalize"
               PROVE  StillMissing(cr'[v].name)
    BY DEF FinalizingMeansGone, Live
  <1>1. AgentsGrow
    BY AgentsStep DEF AgentsFine
  <1>2. CASE pc[v] = "finalize" /\ cr'[v] = cr[v]
    <2>1. Known(cr[v].name) /\ ~Live(cr[v].name)
      BY <1>2 DEF NamesAreKnown, FinalizingMeansGone
    <2> QED BY <1>1, <1>2, <2>1, KnownStays
  <1>3. CASE \E w \in Workers : Call(w)
    <2> PICK w \in Workers : Call(w)
      BY <1>3
    <2>1. CASE v = w
      <3>1. cr'[w] = cr[w] /\ ~Live(cr[w].name) /\ UNCHANGED agents
        <4>1. pc'[w] = "finalize"
          BY <2>1
        <4> QED BY <4>1, CallMisses
      <3> QED BY <2>1, <3>1 DEF Live
    <2>2. CASE v # w
      <3>1. pc'[v] = pc[v] /\ cr'[v] = cr[v]
        <4>1. CASE ExternalCall(w)
          BY <2>2, <4>1, CallIsLocal
        <4>2. CASE UNCHANGED runtimeVars
          BY <4>2 DEF runtimeVars
        <4> QED BY <4>1, <4>2, CallIsExternalCall
      <3> QED BY <1>2, <3>1
    <2> QED BY <2>1, <2>2
  <1>4. CASE RuntimeOnly
    BY <1>2, <1>4, OnlyCallsReach DEF CallSteps
  <1> QED BY <1>3, <1>4, NextIsCallOrRuntime

-----------------------------------------------------------------------------
(* The invariant and what follows from it.                                 *)

LEMMA InitAgentInv == Init => AgentInv
  <1> SUFFICES ASSUME Init PROVE AgentInv
    OBVIOUS
  <1>1. LoopInv
    BY InitLoopInv DEF Init
  <1>2. PICK n \in [AgentIDs -> AgentNames], t \in TeamIDs :
          agents = [i \in AgentIDs |-> IF i \in Existing THEN Made(n[i], t) ELSE Blank]
    BY DEF Init
  <1>3. \A i \in AgentIDs : /\ Sound(Blank) /\ Sound(Made(n[i], t))
                            /\ Made(n[i], t).st = "live"
    BY BlankIsSound
  <1>4. AgentsAreSound
    <2>1. \A i \in AgentIDs : Sound(agents[i])
      BY <1>2, <1>3
    <2>2. agents \in [AgentIDs -> Agents]
      BY <1>2, <1>3 DEF Sound
    <2> QED BY <2>1, <2>2 DEF AgentsAreSound
  <1>5. InputsTypeOK
    <2>1. (CHOOSE v \in Versions : TRUE) \in Versions /\ <<>> \in Seq(Versions)
      BY AuthAssumption
    <2> QED BY <2>1 DEF Init, InputsTypeOK
  <1>6. \A w \in Workers : pc[w] = "idle" /\ read[w] = <<>>
    BY DEF Init, RuntimeInit
  <1>7. \A i \in Existing : Known(i)
    BY <1>2, <1>3, A2AAgentAssumption DEF Known
  <1>8. Known(NoName)
    BY RuntimeAssumption DEF Known, AgentIDs
  <1>9. \A r \in Resources : Known(obj[r].name)
    <2>1. \A m \in Manifests : Known(m.name)
      BY <1>7, <1>8, A2AAgentAssumption
    <2> QED BY <2>1 DEF Init, RuntimeInit, Applied
  <1>10. \A w \in Workers : Known(cache[w].name) /\ Known(cr[w].name)
    BY <1>8, <1>9, RuntimeAssumption DEF Init, RuntimeInit, Nothing
  <1>11. byName \in BOOLEAN
    BY A2AAgentAssumption DEF Init
  <1> QED BY <1>1, <1>4, <1>5, <1>6, <1>7, <1>9, <1>10, <1>11
          DEF AgentInv, ReadsFollowRefs, NamesAreKnown, FinalizingMeansGone

LEMMA NextKeepsAgentInv ==
  ASSUME AgentInv, [Next]_vars
  PROVE  AgentInv'
  <1>1. LoopInv'
    BY AgentKeepsLoopInv DEF AgentInv
  <1>2. AgentsAreSound' /\ InputsTypeOK' /\ ReadsFollowRefs'
    BY AgentsStep, ReadsStep DEF AgentsFine, InputsTypeOK
  <1>3. byName' \in BOOLEAN
    BY ByNameStays DEF AgentInv
  <1> QED BY <1>1, <1>2, <1>3, NamesStayKnown, FinalizingStaysSound DEF AgentInv

\* The inductive invariant: agents are sound, loops have read what their copies
\* name, names are known, and a loop about to finalize has seen the agent gone.
THEOREM AgentInvariant == Spec => []AgentInv
  <1>1. AgentInv /\ [Next]_vars => AgentInv'
    BY NextKeepsAgentInv
  <1> QED BY <1>1, InitAgentInv, PTL DEF Spec

\* Every variable of the A2AAgent controller keeps its type: what is read of the
\* Secrets in the course of a call is always a list of versions.
THEOREM AgentTypeCorrect == Spec => []TypeOK
  <1>1. AgentInv => TypeOK
    BY DEF AgentInv, LoopInv, AgentsAreSound, InputsTypeOK, TypeOK
  <1> QED BY <1>1, AgentInvariant, PTL

\* An agent has all the credentials its auth type needs, and a username and a
\* password of one version of one Secret (authresolve.go:61-121), however the
\* Secrets are rotated or deleted while they are read, and whatever auth type the
\* agent had before. Only an auth block that lists no headers, which the CRD
\* admits (auth_types.go:33-35), leaves the type headers without any.
THEOREM AgentCredentialsMatchType == Spec => []CredentialsMatchType
  <1>1. AgentInv => CredentialsMatchType
    BY DEF AgentInv, AgentsAreSound, Sound, CredentialsMatchType, LiveAgents, Live
  <1> QED BY <1>1, AgentInvariant, PTL

\* No agent is ever without a team (a2aagent.go:381-391, 408-418): the team's ID
\* is looked up before every POST and PUT, and what was found is what is sent,
\* whatever becomes of the Team CR while the Secrets are read.
THEOREM AgentsAlwaysHaveTeams == Spec => []AgentsHaveTeams
  <1>1. AgentInv => AgentsHaveTeams
    BY DEF AgentInv, AgentsAreSound, Sound, AgentsHaveTeams, LiveAgents, Live
  <1> QED BY <1>1, AgentInvariant, PTL

\* When an A2AAgent CR loses its finalizer, the agent its external-name is the
\* ID of is gone (Observe and Delete, a2aagent.go:345-348, 428-437).
THEOREM AgentFinalizedMeansGone == Spec => FinalizedMeansGone
  <1>1. ASSUME AgentInv, [Next]_vars, NEW r \in Resources, LosesFinalizer(r)
        PROVE  ~Live(obj[r].name)
    <2>1. [RuntimeNext]_runtimeVars
      BY <1>1, AgentKeepsLoopInv DEF AgentInv
    <2>2. obj' # obj
      BY <1>1 DEF LosesFinalizer
    <2>3. PICK w \in Workers : RemoveFinalizer(w) /\ fresh[w] /\ Target[w] = r
      BY <1>1, <2>1, <2>2, WhoLosesFinalizer DEF AgentInv, runtimeVars
    <2>4. pc[w] = "finalize"
      BY <2>3 DEF RemoveFinalizer
    <2>5. cr[w].name = obj[r].name
      BY <1>1, <2>3, <2>4 DEF AgentInv, LoopInv, FreshAgrees, Early
    <2> QED BY <1>1, <2>4, <2>5 DEF AgentInv, FinalizingMeansGone
  <1>2. AgentInv /\ [Next]_vars =>
            [\A r \in Resources : LosesFinalizer(r) => ~Live(obj[r].name)]_vars
    BY <1>1
  <1> QED BY <1>2, AgentInvariant, PTL DEF Spec, FinalizedMeansGone

==============================================================================
