------------------------------ MODULE TeamProofs ------------------------------
(***************************************************************************)
(* Proofs about the Team controller: it keeps to what the runtime asks of  *)
(* a component, so the runtime's theorems hold of it, and a Team that loses*)
(* its finalizer leaves no team behind under its external-name.            *)
(***************************************************************************)
EXTENDS TeamController, LockProofs

TeamTypeOK ==
    /\ teams \in [TeamIDs -> Teams]
    /\ pick \in [Workers -> TeamIDs \cup {NoName}]

\* A name that is a team's ID is the ID of a team that was made.
Known(n) == n \in TeamIDs => teams[n].st \in {"live", "gone"}

NamesAreKnown ==
    /\ \A t \in Existing : Known(t)
    /\ \A r \in Resources : Known(obj[r].name)
    /\ \A w \in Workers : Known(cache[w].name) /\ Known(cr[w].name)

\* A loop about to remove the finalizer has seen the team gone.
FinalizingMeansGone == \A w \in Workers : pc[w] = "finalize" => ~Live(cr[w].name)

TeamInv ==
    /\ LoopInv
    /\ TeamTypeOK
    /\ NamesAreKnown
    /\ FinalizingMeansGone

-----------------------------------------------------------------------------
LEMMA SpecsAreParameters ==
  \A s \in Specs : s.name \in TeamNames /\ s.desc \in Descs \cup {Unset}
                   /\ s.max \in Maxs \cup {Unset}
  BY TeamAssumption DEF TeamParameters

LEMMA BlankIsTeam == ASSUME NEW n \in TeamNames PROVE Blank \in Teams /\ Made(n) \in Teams
  BY TeamAssumption DEF Blank, Made, Teams

LEMMA CreatedIsTeam ==
  ASSUME NEW r \in Resources, NEW s \in Specs, NEW st \in {"live", "sent"}
  PROVE  /\ [toTeamCreate(r, s) EXCEPT !.st = st] \in Teams
         /\ [toTeamCreate(r, s) EXCEPT !.st = st].st = st
  BY SpecsAreParameters, TeamAssumption DEF toTeamCreate, Sent, Teams

LEMMA UpdatedIsTeam ==
  ASSUME NEW s \in Specs, NEW t \in Teams
  PROVE  /\ TeamUpdate(s, t) \in Teams /\ TeamUpdate(s, t).st = t.st
         /\ TeamUpdate(s, t).name = t.name /\ TeamUpdate(s, t).by = t.by
  BY SpecsAreParameters, TeamAssumption DEF TeamUpdate, Sent, Teams
-----------------------------------------------------------------------------
(* Every call of the component keeps to ExternalCall.                      *)

LEMMA IDsAreNames == NoName \in Names /\ TeamIDs \subseteq Names
  BY DEF Names, TeamIDs

LEMMA ObserveIsCall ==
  ASSUME LoopInv, NEW w \in Workers, Observe(w)
  PROVE  ExternalCall(w)
  <1> DEFINE c == cr[w]
  <1>1. pc[w] = "observe" /\ c.name \in Names
    BY CopyFacts DEF Observe
  <1>2. CASE Observed(w, c, FALSE, FALSE) /\ UNCHANGED budget
    BY <1>1, <1>2, ObservedIsCall
  <1>3. CASE /\ Observed(w, toObservation(c, c.name), TRUE, isUpToDate(c.spec, teams[c.name]))
             /\ UNCHANGED budget
    BY <1>1, <1>3, ObservedIsCall DEF toObservation
  <1>4. CASE Disrupt /\ Report(w, c)
    BY <1>1, <1>4, ReportIsCall
  <1> QED BY <1>2, <1>3, <1>4 DEF Observe

LEMMA ResolveIsCall ==
  ASSUME LoopInv, NEW w \in Workers, Resolve(w)
  PROVE  ExternalCall(w)
  <1>1. pc[w] = "create"
    BY DEF Resolve
  <1>2. {"post", "adopt"} \subseteq Successors(pc[w], cr[w])
    BY <1>1 DEF Successors
  <1>3. \/ /\ \E s \in {"post", "adopt"} : Goto(w, s, cr[w])
           /\ UNCHANGED <<kubeVars, fresh, plan, budget>>
        \/ Disrupt /\ CreateFailed(w)
    BY DEF Resolve
  <1> QED BY <1>1, <1>2, <1>3, GoesOnIsCall, CreateFailedIsCall

LEMMA AdoptIsCall ==
  ASSUME LoopInv, NEW w \in Workers, Adopt(w)
  PROVE  ExternalCall(w)
  <1> DEFINE t == pick[w]
  <1>1. pc[w] = "adopt"
    BY DEF Adopt
  <1>2. CASE Live(t) /\ Created(w, toObservation([cr[w] EXCEPT !.name = t], t)) /\ UNCHANGED budget
    <2>1. t \in Names
      BY <1>2, IDsAreNames DEF Live
    <2> QED BY <1>1, <1>2, <2>1, CreatedIsCall DEF toObservation
  <1>3. CASE CreateFailed(w) /\ (Disrupt \/ UNCHANGED budget)
    BY <1>1, <1>3, CreateFailedIsCall
  <1> QED BY <1>2, <1>3 DEF Adopt

LEMMA PostIsCall ==
  ASSUME LoopInv, NEW w \in Workers, Post(w)
  PROVE  ExternalCall(w)
  <1>1. pc[w] = "post"
    BY DEF Post
  <1>2. ASSUME NEW t \in TeamIDs,
               Created(w, toObservation([cr[w] EXCEPT !.name = t], t)), UNCHANGED budget
        PROVE  ExternalCall(w)
    BY <1>1, <1>2, CreatedIsCall, IDsAreNames DEF toObservation
  <1>3. CASE CreateFailed(w) /\ (Disrupt \/ UNCHANGED budget)
    BY <1>1, <1>3, CreateFailedIsCall
  <1> QED BY <1>2, <1>3 DEF Post

LEMMA UpdateIsCall ==
  ASSUME LoopInv, NEW w \in Workers, Update(w)
  PROVE  ExternalCall(w)
  <1>1. pc[w] = "update" /\ cr[w].name \in Names
    BY CopyFacts DEF Update
  <1>2. /\ Report(w, cr[w]) \/ Report(w, [cr[w] EXCEPT !.id = cr[w].name])
        /\ Disrupt \/ UNCHANGED budget
    BY DEF Update, toObservation
  <1> QED BY <1>1, <1>2, ReportIsCall

LEMMA DeleteIsCall ==
  ASSUME LoopInv, NEW w \in Workers, Delete(w)
  PROVE  ExternalCall(w)
  <1>1. pc[w] = "delete" /\ Report(w, cr[w]) /\ (Disrupt \/ UNCHANGED budget)
    BY DEF Delete
  <1> QED BY <1>1, ReportIsCall, CopyFacts

LEMMA CallIsExternalCall ==
  ASSUME LoopInv, NEW w \in Workers, Call(w)
  PROVE  ExternalCall(w)
  BY ObserveIsCall, ResolveIsCall, AdoptIsCall, PostIsCall, UpdateIsCall, DeleteIsCall
  DEF Call

\* What the rest of a step of the runtime's is in the component's system.
LEMMA HumansAct ==
  ASSUME Humans
  PROVE  /\ \/ \E m \in Manifests : UserCreate(m)
            \/ \E r \in Resources : UserDelete(r) \/ OperatorClear(r)
            \/ \E r \in Resources, s \in Specs : UserEdit(r, s)
         /\ UNCHANGED teamVars
  <1>1. \A m \in Manifests : m.spec \in Specs
    BY RuntimeAssumption
  <1> QED BY <1>1 DEF Humans, Edit

LEMMA OthersActElsewhere ==
  ASSUME Others
  PROVE  Elsewhere \/ UNCHANGED runtimeVars
  <1>1. \A t, new : OutOfBand(t, new) => Elsewhere
    BY DEF OutOfBand, Elsewhere
  <1> QED BY <1>1 DEF Others, Land, ForeignCreate, ForeignDelete, ForeignEdit

LEMMA NextIsRuntimeNext ==
  ASSUME LoopInv, Next
  PROVE  RuntimeNext \/ UNCHANGED runtimeVars
  <1>1. CASE \E w \in Workers : Controller(w)
    BY <1>1, CallIsExternalCall DEF Controller, RuntimeNext
  <1>2. CASE Humans
    BY <1>2, HumansAct DEF RuntimeNext
  <1>3. CASE Others
    BY <1>3, OthersActElsewhere DEF RuntimeNext
  <1>4. CASE Faults
    BY <1>4 DEF Faults, RuntimeNext
  <1> QED BY <1>1, <1>2, <1>3, <1>4 DEF Next

LEMMA TeamKeepsLoopInv ==
  ASSUME LoopInv, [Next]_vars
  PROVE  [RuntimeNext]_runtimeVars /\ LoopInv'
  <1>1. [RuntimeNext]_runtimeVars
    BY NextIsRuntimeNext DEF vars, runtimeVars
  <1> QED BY <1>1, NextKeepsLoopInv

\* The Team controller does of a CR only what the runtime expects of a
\* component (the external client, team.go:201-287).
THEOREM TeamImplementsRuntime == Spec => RuntimeSpec
  <1>1. Init => RuntimeInit /\ LoopInv
    BY InitLoopInv DEF Init
  <1>2. LoopInv /\ [Next]_vars => LoopInv' /\ [RuntimeNext]_runtimeVars
    BY TeamKeepsLoopInv
  <1> QED BY <1>1, <1>2, PTL DEF Spec, RuntimeSpec

\* Two loops are never inside the creation of one CR's team (team.go:231-259).
THEOREM TeamCreationIsExclusive == Spec => []ExclusiveCreate
  BY TeamImplementsRuntime, CreationIsExclusive, PTL

\* Its pending annotation is a lock that outlasts the process (team.go:231-259).
THEOREM TeamCreationIsLocked == Spec => CreateIsLocked
  BY TeamImplementsRuntime, CreationIsLocked, PTL

\* No Team loses its finalizer during Create.
THEOREM TeamFinalizerOutlastsCreate == Spec => NoFinalizeDuringCreate
  BY TeamImplementsRuntime, FinalizerOutlastsCreate, PTL
-----------------------------------------------------------------------------
(* Teams are made once, do not come back and keep their names.             *)

TeamsGrow == \A t \in TeamIDs :
    /\ teams[t].st \in {"live", "gone"} => teams'[t].st \in {"live", "gone"}
    /\ teams[t].st = "gone" => teams'[t].st = "gone"
    /\ teams[t].st # "unused" => teams'[t].name = teams[t].name /\ teams'[t].by = teams[t].by

\* One team changes, from a state that allows it, or none does.
LEMMA OneTeamGrows ==
  ASSUME TeamTypeOK, NEW t \in TeamIDs, NEW o \in Teams,
         \/ teams' = teams
         \/ /\ teams' = [teams EXCEPT ![t] = o]
            /\ \/ teams[t].st \in {"unused", "sent"}
               \/ teams[t].st = "live" /\ o.st \in {"live", "gone"}
            /\ teams[t].st # "unused" => o.name = teams[t].name /\ o.by = teams[t].by
  PROVE  teams' \in [TeamIDs -> Teams] /\ TeamsGrow
  BY DEF TeamTypeOK, TeamsGrow

LEMMA NoTeamChanges ==
  ASSUME TeamTypeOK, UNCHANGED teams
  PROVE  teams' \in [TeamIDs -> Teams] /\ TeamsGrow
  BY DEF TeamTypeOK, TeamsGrow

LEMMA MakesGrows ==
  ASSUME LoopInv, TeamTypeOK, NEW w \in Workers, NEW t \in TeamIDs,
         NEW st \in {"live", "sent"}, Makes(w, t, st)
  PROVE  /\ teams' \in [TeamIDs -> Teams] /\ TeamsGrow
         /\ teams'[t].st = st
  <1> DEFINE o == [toTeamCreate(Target[w], cr[w].spec) EXCEPT !.st = st]
  <1>1. o \in Teams /\ o.st = st
    <2>1. Target[w] \in Resources /\ cr[w].spec \in Specs
      BY CopyFacts
    <2> QED BY <2>1, CreatedIsTeam
  <1>2. teams[t].st = "unused" /\ teams' = [teams EXCEPT ![t] = o]
    BY DEF Makes
  <1> HIDE DEF o
  <1>3. teams'[t] = o
    BY <1>2 DEF TeamTypeOK
  <1> QED BY <1>1, <1>2, <1>3, OneTeamGrows

LEMMA UpdateGrows ==
  ASSUME LoopInv, TeamTypeOK, NEW w \in Workers, Update(w)
  PROVE  teams' \in [TeamIDs -> Teams] /\ TeamsGrow
  <1> DEFINE c == cr[w]
             o == TeamUpdate(c.spec, teams[c.name])
  <1>1. CASE Live(c.name) /\ teams' = [teams EXCEPT ![c.name] = o]
    <2>1. c.name \in TeamIDs /\ teams[c.name] \in Teams /\ teams[c.name].st = "live"
      BY <1>1 DEF Live, TeamTypeOK
    <2>2. c.spec \in Specs
      BY CopyFacts
    <2> HIDE DEF c
    <2>3. o \in Teams /\ o.st = "live" /\ o.name = teams[c.name].name /\ o.by = teams[c.name].by
      BY <2>1, <2>2, UpdatedIsTeam
    <2> HIDE DEF o
    <2> QED BY <1>1, <2>1, <2>3, OneTeamGrows
  <1>2. CASE UNCHANGED teams
    BY <1>2, NoTeamChanges
  <1> QED BY <1>1, <1>2 DEF Update

LEMMA DeleteGrows ==
  ASSUME TeamTypeOK, NEW w \in Workers, Delete(w)
  PROVE  teams' \in [TeamIDs -> Teams] /\ TeamsGrow
  <1> DEFINE n == cr[w].name
             o == [teams[n] EXCEPT !.st = "gone"]
  <1>1. CASE Live(n) /\ teams' = [teams EXCEPT ![n].st = "gone"]
    <2>1. n \in TeamIDs /\ teams[n] \in Teams /\ teams[n].st = "live"
      BY <1>1 DEF Live, TeamTypeOK
    <2>2. /\ o \in Teams /\ o.st = "gone" /\ teams' = [teams EXCEPT ![n] = o]
          /\ o.name = teams[n].name /\ o.by = teams[n].by
      BY <1>1, <2>1 DEF Teams
    <2> HIDE DEF o
    <2> QED BY <2>1, <2>2, OneTeamGrows
  <1>2. CASE UNCHANGED teams
    BY <1>2, NoTeamChanges
  <1> QED BY <1>1, <1>2 DEF Delete

LEMMA CallGrows ==
  ASSUME LoopInv, TeamTypeOK, NEW w \in Workers, Call(w)
  PROVE  TeamTypeOK' /\ TeamsGrow
  <1>1. teams' \in [TeamIDs -> Teams] /\ TeamsGrow
    <2>1. CASE Observe(w) \/ Resolve(w) \/ Adopt(w)
      BY <2>1, NoTeamChanges DEF Observe, Resolve, Adopt, teamVars
    <2>2. CASE Post(w)
      <3>1. \/ \E t \in TeamIDs : Makes(w, t, "live") \/ Makes(w, t, "sent")
            \/ UNCHANGED teams
        BY <2>2 DEF Post
      <3> QED BY <3>1, MakesGrows, NoTeamChanges
    <2> QED BY <2>1, <2>2, UpdateGrows, DeleteGrows DEF Call
  <1>2. pick' \in [Workers -> TeamIDs \cup {NoName}]
    <2>1. \/ \E t \in TeamIDs \cup {NoName} : pick' = [pick EXCEPT ![w] = t]
          \/ UNCHANGED pick
      BY DEF Call, Observe, Resolve, Adopt, Post, Update, Delete, teamVars
    <2> QED BY <2>1 DEF TeamTypeOK
  <1> QED BY <1>1, <1>2 DEF TeamTypeOK

LEMMA OutOfBandGrows ==
  ASSUME TeamTypeOK, Others
  PROVE  TeamTypeOK' /\ TeamsGrow
  <1>1. UNCHANGED pick
    BY DEF Others, Land, ForeignDelete, ForeignCreate, ForeignEdit, OutOfBand
  <1>2. ASSUME NEW t \in TeamIDs, Land(t)
        PROVE  teams' \in [TeamIDs -> Teams] /\ TeamsGrow
    <2> DEFINE o == [teams[t] EXCEPT !.st =
                       IF UniqueSlugs /\ SlugTaken(teams[t].name) THEN "gone" ELSE "live"]
    <2>1. /\ o \in Teams /\ teams' = [teams EXCEPT ![t] = o] /\ teams[t].st = "sent"
          /\ o.name = teams[t].name /\ o.by = teams[t].by
      BY <1>2 DEF Land, TeamTypeOK, Teams
    <2> HIDE DEF o
    <2> QED BY <2>1, OneTeamGrows
  <1>3. ASSUME NEW t \in TeamIDs, ForeignDelete(t)
        PROVE  teams' \in [TeamIDs -> Teams] /\ TeamsGrow
    <2> DEFINE o == [teams[t] EXCEPT !.st = "gone"]
    <2>1. /\ o \in Teams /\ teams' = [teams EXCEPT ![t] = o]
          /\ teams[t].st = "live" /\ o.st = "gone"
          /\ o.name = teams[t].name /\ o.by = teams[t].by
      BY <1>3 DEF ForeignDelete, OutOfBand, Live, TeamTypeOK, Teams
    <2> HIDE DEF o
    <2> QED BY <2>1, OneTeamGrows
  <1>4. ASSUME NEW t \in TeamIDs, NEW n \in TeamNames, ForeignCreate(t, n)
        PROVE  teams' \in [TeamIDs -> Teams] /\ TeamsGrow
    BY <1>4, BlankIsTeam, OneTeamGrows DEF ForeignCreate, OutOfBand
  <1>5. ASSUME NEW t \in TeamIDs, NEW d \in Descs, NEW m \in Maxs \cup {Unset},
               ForeignEdit(t, d, m)
        PROVE  teams' \in [TeamIDs -> Teams] /\ TeamsGrow
    <2> DEFINE o == [teams[t] EXCEPT !.desc = d, !.max = m]
    <2>1. /\ o \in Teams /\ teams' = [teams EXCEPT ![t] = o]
          /\ teams[t].st = "live" /\ o.st = "live"
          /\ o.name = teams[t].name /\ o.by = teams[t].by
      BY <1>5 DEF ForeignEdit, OutOfBand, Live, TeamTypeOK, Teams
    <2> HIDE DEF o
    <2> QED BY <2>1, OneTeamGrows
  <1> QED BY <1>1, <1>2, <1>3, <1>4, <1>5 DEF Others, TeamTypeOK

LEMMA TeamsStep ==
  ASSUME LoopInv, TeamTypeOK, [Next]_vars
  PROVE  TeamTypeOK' /\ TeamsGrow
  <1>1. CASE UNCHANGED teamVars
    BY <1>1, NoTeamChanges DEF TeamTypeOK, teamVars
  <1>2. CASE Others
    BY <1>2, OutOfBandGrows
  <1> QED BY <1>1, <1>2, CallGrows DEF Next, Controller, Humans, Faults, vars, teamVars

\* A name stays known, and a known name's missing team stays missing.
LEMMA KnownStays ==
  ASSUME TeamTypeOK, TeamsGrow, NEW n, Known(n)
  PROVE  /\ n \in TeamIDs => teams'[n].st \in {"live", "gone"}
         /\ ~Live(n) => ~(n \in TeamIDs /\ teams'[n].st = "live")
  BY DEF Known, Live, TeamTypeOK, TeamsGrow, Teams

-----------------------------------------------------------------------------
(* The invariant.                                                          *)

LEMMA InitTeamInv == Init => TeamInv
  <1> SUFFICES ASSUME Init PROVE TeamInv
    OBVIOUS
  <1>1. LoopInv
    BY InitLoopInv DEF Init
  <1>2. TeamTypeOK
    <2>1. TeamNames # {}
      BY SpecsAreParameters, RuntimeAssumption
    <2>2. Blank \in Teams /\ \A n \in TeamNames : Made(n) \in Teams
      BY <2>1, BlankIsTeam
    <2> QED BY <2>2 DEF Init, TeamTypeOK
  <1>3. \A t \in Existing : Known(t)
    BY TeamAssumption DEF Init, Known, Live
  <1>4. \A m \in Manifests : Known(m.name) /\ m.r \in Resources
    BY <1>3, TeamAssumption, RuntimeAssumption DEF Known, TeamIDs
  <1>5. Known(NoName)
    BY RuntimeAssumption DEF Known, TeamIDs
  <1>6. \A r \in Resources : Known(obj[r].name)
    BY <1>4 DEF Init, RuntimeInit, Applied
  <1>7. \A w \in Workers : Known(cache[w].name) /\ Known(cr[w].name) /\ pc[w] = "idle"
    BY <1>5, <1>6, RuntimeAssumption DEF Init, RuntimeInit, Nothing
  <1> QED BY <1>1, <1>2, <1>3, <1>6, <1>7 DEF TeamInv, NamesAreKnown, FinalizingMeansGone

LEMMA NextIsCallOrRuntime ==
  ASSUME [Next]_vars
  PROVE  (\E w \in Workers : Call(w)) \/ RuntimeOnly
  <1>1. CASE \E w \in Workers : Controller(w)
    BY <1>1 DEF Controller, RuntimeOnly
  <1>2. CASE Humans
    BY <1>2, HumansAct DEF RuntimeOnly
  <1>3. CASE Others
    BY <1>3, OthersActElsewhere DEF RuntimeOnly, Elsewhere, kubeVars, loopVars, runtimeVars
  <1>4. CASE Faults
    BY <1>4 DEF Faults, RuntimeOnly
  <1>5. CASE UNCHANGED vars
    BY <1>5 DEF vars, runtimeVars, kubeVars, loopVars, RuntimeOnly
  <1> QED BY <1>1, <1>2, <1>3, <1>4, <1>5 DEF Next

\* The copy a call leaves: its name is the one it had or a team's that exists.
LEMMA CallName ==
  ASSUME LoopInv, TeamTypeOK, NEW w \in Workers, Call(w)
  PROVE  cr'[w].name = cr[w].name \/ Live(cr[w].name)'
  <1>1. ASSUME NEW s, NEW c, Goto(w, s, c)
        PROVE  cr'[w] = c
    BY <1>1 DEF Goto, LoopInv, RuntimeTypeOK
  <1>2. cr[w] \in Objects
    BY CopyFacts
  <1>3. ASSUME NEW s, NEW i, Goto(w, s, [cr[w] EXCEPT !.id = i])
        PROVE  cr'[w].name = cr[w].name
    BY <1>1, <1>2, <1>3 DEF Objects
  <1>4. CASE CreateFailed(w) \/ Report(w, cr[w]) \/ Goto(w, "adopt", cr[w]) \/ Goto(w, "post", cr[w])
    BY <1>1, <1>4 DEF CreateFailed, Report
  <1>5. ASSUME NEW t, Live(t), Created(w, toObservation([cr[w] EXCEPT !.name = t], t)),
               UNCHANGED teams
        PROVE  Live(cr[w].name)'
    <2>1. cr'[w].name = t
      BY <1>1, <1>2, <1>5 DEF Created, toObservation, Objects
    <2> QED BY <1>5, <2>1 DEF Live
  <1>6. CASE Observe(w)
    <2> DEFINE c == cr[w]
    <2>1. ASSUME NEW e, NEW u, \/ Observed(w, c, e, u)
                               \/ Observed(w, toObservation(c, c.name), e, u)
          PROVE  cr'[w].name = cr[w].name
      BY <1>1, <1>3, <2>1 DEF Observed, toObservation
    <2> QED BY <1>4, <1>6, <2>1 DEF Observe
  <1>7. CASE Resolve(w)
    BY <1>4, <1>7 DEF Resolve
  <1>8. CASE Adopt(w)
    BY <1>4, <1>5, <1>8 DEF Adopt
  <1>9. CASE Post(w)
    <2>1. ASSUME NEW t \in TeamIDs, Makes(w, t, "live"),
                 Created(w, toObservation([cr[w] EXCEPT !.name = t], t))
          PROVE  Live(cr[w].name)'
      <3>1. cr'[w].name = t
        BY <1>1, <1>2, <2>1 DEF Created, toObservation, Objects
      <3>2. teams'[t].st = "live"
        BY <2>1, MakesGrows
      <3> QED BY <3>1, <3>2 DEF Live
    <2> QED BY <1>4, <1>9, <2>1 DEF Post
  <1>10. CASE Update(w)
    <2>1. Report(w, cr[w]) \/ Report(w, [cr[w] EXCEPT !.id = cr[w].name])
      BY <1>10 DEF Update, toObservation
    <2> QED BY <1>3, <1>4, <2>1 DEF Report
  <1>11. CASE Delete(w)
    BY <1>4, <1>11 DEF Delete
  <1> QED BY <1>6, <1>7, <1>8, <1>9, <1>10, <1>11 DEF Call

\* Only Observe sends a loop to the finalizer or to a creation, and then there is
\* no team of the ID the copy is bound to.
LEMMA CallMisses ==
  ASSUME LoopInv, NEW w \in Workers, Call(w),
         pc'[w] = "finalize" \/ (pc'[w] = "ensure" /\ plan'[w] = "create")
  PROVE  cr'[w] = cr[w] /\ ~Live(cr[w].name) /\ UNCHANGED teams
  <1>1. ASSUME NEW s, NEW c, Goto(w, s, c)
        PROVE  pc'[w] = s /\ cr'[w] = c
    BY <1>1 DEF Goto, LoopInv, RuntimeTypeOK
  <1>2. ~CreateFailed(w) /\ \A s \in {"adopt", "post"} : ~Goto(w, s, cr[w])
    BY <1>1 DEF CreateFailed
  <1>3. \A c : ~Report(w, c) /\ ~Created(w, c)
    BY <1>1 DEF Report, Created
  <1>4. ASSUME NEW c, NEW u, Observed(w, c, TRUE, u)
        PROVE  FALSE
    <2>1. pc'[w] \in {"ensure", "delete"}
      BY <1>1, <1>4 DEF Observed
    <2>2. plan'[w] # "create"
      BY <1>4 DEF Observed, LoopInv, RuntimeTypeOK
    <2> QED BY <2>1, <2>2
  <1>5. /\ Observed(w, cr[w], FALSE, FALSE)
        /\ cr[w].name = NoName \/ ~Live(cr[w].name)
        /\ UNCHANGED teams
    <2>1. Observe(w)
      BY <1>2, <1>3 DEF Call, Resolve, Adopt, Post, Update, Delete
    <2> QED BY <1>3, <1>4, <2>1 DEF Observe, teamVars
  <1> QED BY <1>1, <1>5, RuntimeAssumption DEF Observed, Live, TeamIDs

LEMMA NamesStayKnown ==
  ASSUME TeamInv, [Next]_vars
  PROVE  NamesAreKnown'
  <1> USE DEF TeamInv, NamesAreKnown
  <1>1. TeamTypeOK /\ TeamsGrow
    BY TeamsStep
  <1>2. \A n : Known(n) => (n \in TeamIDs => teams'[n].st \in {"live", "gone"})
    BY <1>1, KnownStays
  <1>3. CASE \E w \in Workers : Call(w)
    <2> PICK w \in Workers : Call(w)
      BY <1>3
    <2>1. Known(cr[w].name)'
      <3>1. CASE cr'[w].name = cr[w].name
        BY <1>2, <3>1 DEF Known
      <3>2. CASE Live(cr[w].name)'
        BY <3>2 DEF Live, Known
      <3> QED BY <3>1, <3>2, CallName
    <2>2. /\ UNCHANGED <<obj, cache>>
          /\ \A v \in Workers : v # w => cr'[v] = cr[v]
      BY CallIsExternalCall, CallIsLocal
    <2> QED BY <1>2, <2>1, <2>2 DEF Known
  <1>4. CASE RuntimeOnly
    <2> DEFINE Fine == {n \in Names : n \in TeamIDs => teams'[n].st \in {"live", "gone"}}
               K == [r \in Resources |-> Fine]
    <2>1. \A n \in Names : Known(n) => n \in Fine
      BY <1>2 DEF Known
    <2>2. NoName \in Fine /\ \A r \in Resources : MetaName[r] \in Fine
      BY RuntimeAssumption DEF Names, TeamIDs
    <2>3. \A m \in Manifests : m.name \in Fine /\ m.r \in Resources
      BY <2>1, <2>2, TeamAssumption, RuntimeAssumption DEF Names, TeamIDs
    <2>4. /\ \A r \in Resources : obj[r].name \in Fine
          /\ \A w \in Workers : cache[w].name \in Fine /\ cr[w].name \in Fine
                                /\ Target[w] \in Resources
      BY <2>1, RuntimeAssumption DEF LoopInv, RuntimeTypeOK, Objects
    <2>5. \A n \in Fine : n \in TeamIDs => teams'[n].st \in {"live", "gone"}
      OBVIOUS
    <2> HIDE DEF Fine
    <2>6. /\ \A r \in Resources : obj'[r].name \in K[r]
          /\ \A w \in Workers : cache'[w].name \in K[Target[w]] /\ cr'[w].name \in K[Target[w]]
      <3>1. \A r \in Resources : NoName \in K[r] /\ MetaName[r] \in K[r] /\ obj[r].name \in K[r]
        BY <2>2, <2>4
      <3>2. \A m \in Manifests : m.name \in K[m.r]
        BY <2>3
      <3>3. \A w \in Workers : cache[w].name \in K[Target[w]] /\ cr[w].name \in K[Target[w]]
        BY <2>4
      <3> HIDE DEF K
      <3> QED BY <1>4, <3>1, <3>2, <3>3, NamesFlow
    <2> QED BY <1>2, <2>4, <2>5, <2>6 DEF Known
  <1> QED BY <1>3, <1>4, NextIsCallOrRuntime

LEMMA FinalizingStaysSound ==
  ASSUME TeamInv, [Next]_vars
  PROVE  FinalizingMeansGone'
  <1> USE DEF TeamInv
  <1> SUFFICES ASSUME NEW v \in Workers, pc'[v] = "finalize"
               PROVE  ~(cr'[v].name \in TeamIDs /\ teams'[cr'[v].name].st = "live")
    BY DEF FinalizingMeansGone, Live
  <1>1. TeamTypeOK /\ TeamsGrow
    BY TeamsStep
  <1>2. CASE pc[v] = "finalize" /\ cr'[v] = cr[v]
    <2>1. Known(cr[v].name) /\ ~Live(cr[v].name)
      BY <1>2 DEF NamesAreKnown, FinalizingMeansGone
    <2>2. ~(cr[v].name \in TeamIDs /\ teams'[cr[v].name].st = "live")
      BY <1>1, <2>1, KnownStays
    <2> QED BY <1>2, <2>2
  <1>3. CASE \E w \in Workers : Call(w)
    <2> PICK w \in Workers : Call(w)
      BY <1>3
    <2>1. CASE v = w
      <3>1. cr'[w] = cr[w] /\ ~Live(cr[w].name) /\ UNCHANGED teams
        <4>1. pc'[w] = "finalize"
          BY <2>1
        <4> QED BY <4>1, CallMisses
      <3> QED BY <2>1, <3>1 DEF Live
    <2>2. CASE v # w
      BY <1>2, <2>2, CallIsExternalCall, CallIsLocal
    <2> QED BY <2>1, <2>2
  <1>4. CASE RuntimeOnly
    BY <1>2, <1>4, OnlyCallsReach DEF CallSteps
  <1> QED BY <1>3, <1>4, NextIsCallOrRuntime

LEMMA NextKeepsTeamInv ==
  ASSUME TeamInv, [Next]_vars
  PROVE  TeamInv'
  <1>1. LoopInv' /\ TeamTypeOK'
    BY TeamKeepsLoopInv, TeamsStep DEF TeamInv
  <1> QED BY <1>1, NamesStayKnown, FinalizingStaysSound DEF TeamInv

THEOREM TeamInvariant == Spec => []TeamInv
  <1>1. TeamInv /\ [Next]_vars => TeamInv'
    BY NextKeepsTeamInv
  <1> QED BY <1>1, InitTeamInv, PTL DEF Spec

\* Every variable of the Team controller keeps its type.
THEOREM TeamTypeCorrect == Spec => []TypeOK
  <1>1. TeamInv => TypeOK
    BY DEF TeamInv, LoopInv, TeamTypeOK, TypeOK
  <1> QED BY <1>1, TeamInvariant, PTL

\* The finalizer is removed only with a copy the store still agrees with, and
\* the 404 that copy saw is final.
LEMMA FinalizedStep ==
  ASSUME TeamInv, [Next]_vars, NEW r \in Resources, LosesFinalizer(r)
  PROVE  ~Live(obj[r].name)
  <1>1. [RuntimeNext]_runtimeVars
    BY TeamKeepsLoopInv DEF TeamInv
  <1>2. obj' # obj
    BY DEF LosesFinalizer
  <1>3. PICK w \in Workers : RemoveFinalizer(w) /\ fresh[w] /\ Target[w] = r
    BY <1>1, <1>2, WhoLosesFinalizer DEF TeamInv, runtimeVars
  <1>4. pc[w] = "finalize"
    BY <1>3 DEF RemoveFinalizer
  <1>5. cr[w].name = obj[r].name
    BY <1>3, <1>4 DEF TeamInv, LoopInv, FreshAgrees, Early
  <1> QED BY <1>4, <1>5 DEF TeamInv, FinalizingMeansGone

\* When a Team CR loses its finalizer, the team its external-name names is
\* gone (Observe, team.go:201-210).
THEOREM TeamFinalizedMeansGone == Spec => FinalizedMeansGone
  <1>1. TeamInv /\ [Next]_vars =>
            [\A r \in Resources : LosesFinalizer(r) => ~Live(obj[r].name)]_vars
    BY FinalizedStep
  <1> QED BY <1>1, TeamInvariant, PTL DEF Spec, FinalizedMeansGone

==============================================================================
