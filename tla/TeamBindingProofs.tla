--------------------------- MODULE TeamBindingProofs ---------------------------
(***************************************************************************)
(* Proofs about which team a Team CR is bound to: a CR keeps its team while*)
(* that exists, only the team of a CR being deleted is deleted, no CR has  *)
(* two teams of its own making, and the ID it publishes is its team's.     *)
(***************************************************************************)
EXTENDS TeamProofs, FiniteSetTheorems

\* A CR that is being deleted has the finalizer, one that is gone has not.
DeletingIsHeld ==
    \A r \in Resources : /\ obj[r].phase = "absent" => ~obj[r].fin
                         /\ obj[r].phase = "deleting" => obj[r].fin

\* A loop on its way to a creation has seen no team of the ID the CR is bound
\* to, and when it gets there the stored name is still that one.
CreatingMeansUnbound ==
    \A w \in Workers :
        /\ pc[w] = "ensure" /\ plan[w] = "create" => ~Live(cr[w].name)
        /\ pc[w] = "pend" => ~Live(cr[w].name)
        /\ pc[w] \in CreateWindow => ~Live(obj[Target[w]].name)

\* A copy c, however old, of CR r being deleted with its team still there is
\* right about both.
StillDeleting(r, c) ==
    c.phase = "deleting" /\ Live(c.name) => obj[r].phase = "deleting" /\ obj[r].name = c.name

DeletingCopiesHold ==
    \A w \in Workers :
        /\ StillDeleting(Target[w], cache[w])
        /\ pc[w] \in {"observe", "delete"} => StillDeleting(Target[w], cr[w])
        /\ pc[w] = "delete" => cr[w].phase = "deleting"

BindingInv ==
    /\ TeamInv
    /\ DeletingIsHeld
    /\ CreatingMeansUnbound
    /\ DeletingCopiesHold

-----------------------------------------------------------------------------
(* The names people give teams are their own slugs.                        *)

OwnSlugs == \A n \in TeamNames : SlugOf[n] = n

SlugsDiffer == \A t, u \in LiveTeams : teams[t].name = teams[u].name => t = u

\* Create goes by the name the CR has, and so does what it finds or makes.
CreatesByName ==
    \A w \in Workers :
        /\ pc[w] \in CreateWindow => cr[w].spec.name = obj[Target[w]].spec.name
        /\ pc[w] = "adopt" => /\ pick[w] \in TeamIDs
                              /\ Known(pick[w])
                              /\ teams[pick[w]].name = cr[w].spec.name
        /\ pc[w] \in {"create", "post", "adopt"} => ~Live(cr[w].name)
        /\ pc[w] = "annotate" /\ Live(cr[w].name) => teams[cr[w].name].name = cr[w].spec.name

\* An ID that CR r publishes, or is about to, is its team's, or that of a team it
\* will find by its name when it next creates one.
IdIsSound(r, i) ==
    /\ Known(i)
    /\ Live(i) => \/ i = obj[r].name
                  \/ ~Live(obj[r].name) /\ teams[i].name = obj[r].spec.name

IdsAreSound ==
    /\ \A r \in Resources : IdIsSound(r, obj[r].id)
    /\ \A w \in Workers : fresh[w] /\ pc[w] # "idle" => IdIsSound(Target[w], cr[w].id)

PublishedInv ==
    /\ BindingInv
    /\ SlugsDiffer
    /\ CreatesByName
    /\ IdsAreSound

-----------------------------------------------------------------------------
(* Every CR is applied with one team name, teams are listed completely and *)
(* no request outlives its client.                                         *)

NamesFor(r) == {m.spec.name : m \in {n \in Manifests : n.r = r}}

Undivided ==
    /\ OwnSlugs
    /\ \A m, n \in Manifests : m.r = n.r => m.spec.name = n.spec.name
    /\ IsFiniteSet(TeamIDs) /\ Cardinality(TeamIDs) <= ListLimit
    /\ ~SlowServer

\* The steps at which a loop's copy is of a CR it found.
Copied == {"observe", "ensure", "pend", "create", "post"}

NamesAreApplied ==
    /\ \A r \in Resources : obj[r].phase # "absent" => obj[r].spec.name \in NamesFor(r)
    /\ \A w \in Workers :
          /\ cache[w].phase # "absent" => cache[w].spec.name \in NamesFor(Target[w])
          /\ pc[w] \in Copied => cr[w].spec.name \in NamesFor(Target[w])

\* A team a CR made has the CR's name, and there is one.
OwnTeams ==
    /\ \A t \in TeamIDs : teams[t].st # "sent"
    /\ \A t \in LiveTeams : teams[t].by \in Resources => teams[t].name \in NamesFor(teams[t].by)
    /\ \A t, u \in LiveTeams : teams[t].by = teams[u].by /\ teams[t].by \in Resources => t = u

\* When the pre-check has found nothing there is nothing, up to the POST.
PostsAlone ==
    \A w \in Workers : pc[w] = "post" => \A t \in LiveTeams : teams[t].by # Target[w]

OneTeamInv ==
    /\ TeamInv
    /\ NamesAreApplied
    /\ OwnTeams
    /\ PostsAlone
-----------------------------------------------------------------------------
(* What happens to teams and to CRs in one step.                           *)

\* The team of ID n will exist.
LiveNext(n) == n \in TeamIDs /\ teams'[n].st = "live"

LEMMA LiveBefore ==
  ASSUME TeamInv, [Next]_vars, NEW n, Known(n), LiveNext(n)
  PROVE  Live(n) /\ teams'[n].name = teams[n].name /\ teams'[n].by = teams[n].by
  <1>1. TeamsGrow
    BY TeamsStep DEF TeamInv
  <1> QED BY <1>1 DEF TeamsGrow, Known, Live, LiveNext

\* A call leaves the CRs alone, and of its own copy the phase, the spec and,
\* outside Create, the name.
LEMMA CallCopies ==
  ASSUME TeamInv, NEW w \in Workers, Call(w)
  PROVE  /\ UNCHANGED <<obj, cache, fresh>>
         /\ \A v \in Workers : v # w => pc'[v] = pc[v] /\ cr'[v] = cr[v] /\ plan'[v] = plan[v]
         /\ pc'[w] \in Successors(pc[w], cr[w])
         /\ cr'[w].phase = cr[w].phase /\ cr'[w].spec = cr[w].spec
         /\ pc[w] \notin CreateWindow => cr'[w].name = cr[w].name
  <1>1. ExternalCall(w) /\ LoopInv
    BY CallIsExternalCall DEF TeamInv
  <1>2. PICK s, n, i : /\ Goto(w, s, [cr[w] EXCEPT !.name = n, !.id = i])
                       /\ n # cr[w].name => pc[w] \in CreateWindow
    BY <1>1 DEF ExternalCall
  <1>3. cr'[w] = [cr[w] EXCEPT !.name = n, !.id = i] /\ cr[w] \in Objects
    BY <1>1, <1>2, CopyFacts DEF Goto, LoopInv, RuntimeTypeOK
  <1>4. cr'[w].phase = cr[w].phase /\ cr'[w].spec = cr[w].spec /\ cr'[w].name = n
    BY <1>3 DEF Objects
  <1> QED BY <1>1, <1>2, <1>4, CallIsLocal

LEMMA NewAndGone ==
  /\ Nothing.phase = "absent" /\ ~Nothing.fin /\ Nothing.id = NoName
  /\ \A m \in Manifests : /\ Applied(m).phase = "live" /\ ~Applied(m).fin
                          /\ Applied(m).id = NoName /\ Applied(m).spec = m.spec
  <1>1. Nothing.phase = "absent" /\ ~Nothing.fin /\ Nothing.id = NoName
    BY DEF Nothing
  <1>2. \A m : /\ Applied(m).phase = "live" /\ ~Applied(m).fin
               /\ Applied(m).id = NoName /\ Applied(m).spec = m.spec
    BY DEF Applied
  <1> QED BY <1>1, <1>2

LEMMA DeletingIsHeldStep ==
  ASSUME BindingInv, [Next]_vars
  PROVE  DeletingIsHeld'
  <1> USE DEF BindingInv
  <1> SUFFICES ASSUME NEW r \in Resources
               PROVE  /\ obj'[r].phase = "absent" => ~obj'[r].fin
                      /\ obj'[r].phase = "deleting" => obj'[r].fin
    BY DEF DeletingIsHeld
  <1>1. CASE obj'[r] = obj[r]
    BY <1>1 DEF DeletingIsHeld
  <1>2. CASE RuntimeOnly
    <2>1. LoopInv /\ obj[r] \in Objects
      BY DEF TeamInv, LoopInv, RuntimeTypeOK
    <2>2. CASE obj'[r] = Nothing \/ \E m \in Manifests : obj'[r] = Applied(m)
      BY <2>2, NewAndGone
    <2>3. CASE Revises(r, obj'[r])
      <3>1. \A w \in Workers : Target[w] = r /\ pc[w] = "ensure" /\ fresh[w] =>
                obj[r].phase # "absent"
        BY <2>1 DEF LoopInv, FreshAgrees, CopyIsSound, Early
      <3> QED BY <2>3, <3>1 DEF Revises, DeletingIsHeld
    <2>4. CASE \E s \in Specs : obj'[r] = [obj[r] EXCEPT !.spec = s]
      BY <2>1, <2>4 DEF Objects, DeletingIsHeld
    <2> QED BY <1>1, <1>2, <2>1, <2>2, <2>3, <2>4, WhoWrites
  <1>3. CASE \E w \in Workers : Call(w)
    BY <1>1, <1>3, CallCopies
  <1> QED BY <1>2, <1>3, NextIsCallOrRuntime

\* A CR bound to a team that exists stays bound to it, and to be deleted.
LEMMA BoundStays ==
  ASSUME BindingInv, [Next]_vars, NEW r \in Resources, obj[r].fin, Live(obj[r].name)
  PROVE  /\ obj'[r].name = obj[r].name /\ obj'[r].fin
         /\ obj[r].phase = "deleting" => obj'[r].phase = "deleting"
  <1> USE DEF BindingInv
  <1>1. CASE obj'[r] = obj[r]
    BY <1>1
  <1>2. CASE RuntimeOnly
    <2>1. LoopInv /\ obj[r] \in Objects
      BY DEF TeamInv, LoopInv, RuntimeTypeOK
    <2>2. obj'[r].fin
      <3>1. obj[r].phase # "absent" /\ ~LosesFinalizer(r)
        BY FinalizedStep DEF DeletingIsHeld
      <3> QED BY <3>1 DEF LosesFinalizer
    <2>3. CASE obj'[r] = Nothing \/ \E m \in Manifests : obj'[r] = Applied(m)
      BY <2>2, <2>3, NewAndGone
    <2>4. CASE Revises(r, obj'[r])
      <3>1. obj[r].name # NoName
        BY RuntimeAssumption DEF Live, TeamIDs
      <3>2. \A w \in Workers : ~(Target[w] = r /\ pc[w] = "annotate")
        BY DEF CreatingMeansUnbound, CreateWindow
      <3> QED BY <2>2, <2>4, <3>1, <3>2 DEF Revises
    <2>5. CASE \E s \in Specs : obj'[r] = [obj[r] EXCEPT !.spec = s]
      BY <2>1, <2>5 DEF Objects
    <2> QED BY <1>1, <1>2, <2>1, <2>3, <2>4, <2>5, WhoWrites
  <1>3. CASE \E w \in Workers : Call(w)
    BY <1>1, <1>3, CallCopies
  <1> QED BY <1>2, <1>3, NextIsCallOrRuntime

LEMMA CreatingStaysUnbound ==
  ASSUME BindingInv, [Next]_vars
  PROVE  CreatingMeansUnbound'
  <1> USE DEF BindingInv
  <1> SUFFICES ASSUME NEW v \in Workers
               PROVE  /\ pc'[v] = "ensure" /\ plan'[v] = "create" => ~LiveNext(cr'[v].name)
                      /\ pc'[v] = "pend" => ~LiveNext(cr'[v].name)
                      /\ pc'[v] \in CreateWindow => ~LiveNext(obj'[Target[v]].name)
    BY DEF CreatingMeansUnbound, Live, LiveNext
  <1>0. LoopInv /\ Target[v] \in Resources
    BY RuntimeAssumption DEF TeamInv
  <1>1. Known(cr[v].name) /\ Known(obj[Target[v]].name)
    BY <1>0 DEF TeamInv, NamesAreKnown
  <1>2. /\ pc[v] = "ensure" /\ plan[v] = "create" => ~LiveNext(cr[v].name)
        /\ pc[v] = "pend" => ~LiveNext(cr[v].name)
        /\ pc[v] \in CreateWindow => ~LiveNext(obj[Target[v]].name)
    BY <1>1, LiveBefore DEF CreatingMeansUnbound
  <1>3. CASE \E w \in Workers : Call(w)
    <2> PICK w \in Workers : Call(w)
      BY <1>3
    <2>1. CASE v = w
      <3>1. CASE pc'[w] = "ensure" /\ plan'[w] = "create"
        <4>1. cr'[w] = cr[w] /\ ~Live(cr[w].name) /\ UNCHANGED teams
          BY <1>0, <3>1, CallMisses
        <4> QED BY <2>1, <3>1, <4>1 DEF Live, LiveNext, CreateWindow
      <3>2. CASE pc'[w] \in CreateWindow
        <4>1. pc[w] \in CreateWindow /\ UNCHANGED obj
          BY <3>2, CallCopies DEF Successors, CreateWindow
        <4> QED BY <1>2, <2>1, <3>2, <4>1 DEF CreateWindow
      <3>3. pc'[w] # "pend"
        BY CallCopies DEF Successors
      <3> QED BY <2>1, <3>1, <3>2, <3>3
    <2>2. CASE v # w
      BY <1>2, <2>2, CallCopies
    <2> QED BY <2>1, <2>2
  <1>4. CASE RuntimeOnly
    <2>1. obj[Target[v]] \in Objects
      BY <1>0 DEF LoopInv, RuntimeTypeOK
    <2>2. fresh[v] /\ pc[v] \in {"ensure", "pend"} => obj[Target[v]].name = cr[v].name
      BY <1>0 DEF LoopInv, FreshAgrees, Early
    <2>3. /\ [obj[Target[v]] EXCEPT !.fin = TRUE].name = obj[Target[v]].name
          /\ [obj[Target[v]] EXCEPT !.create = "pending"].name = obj[Target[v]].name
      BY <2>1 DEF Objects
    <2>4. AfterEnsure(v) \in {"pend", "update", "status"}
          /\ (AfterEnsure(v) = "pend" => plan[v] = "create")
      BY DEF AfterEnsure
    <2>5. pc'[v] = "ensure" /\ plan'[v] = "create" => ~LiveNext(cr'[v].name)
      BY <1>0, <1>2, <1>4, <2>4, CopyFlow
    <2>6. pc'[v] = "pend" => ~LiveNext(cr'[v].name)
      BY <1>0, <1>2, <1>4, <2>2, <2>3, <2>4, CopyFlow
    <2>7. pc'[v] \in CreateWindow => ~LiveNext(obj'[Target[v]].name)
      <3>1. ASSUME pc'[v] \in CreateWindow, pc[v] \in CreateWindow
            PROVE  ~LiveNext(obj'[Target[v]].name)
        BY <1>0, <1>2, <1>4, <3>1, WindowKeepsName
      <3>2. ASSUME pc'[v] \in CreateWindow, pc[v] \notin CreateWindow
            PROVE  ~LiveNext(obj'[Target[v]].name)
        <4>1. /\ pc[v] = "pend" /\ fresh[v] /\ cr'[v] = obj'[Target[v]]
              /\ cr'[v] = [obj[Target[v]] EXCEPT !.create = "pending"]
          BY <1>0, <1>4, <2>4, <3>2, CopyFlow DEF CreateWindow
        <4> QED BY <1>2, <2>2, <2>3, <4>1
      <3> QED BY <3>1, <3>2
    <2> QED BY <2>5, <2>6, <2>7
  <1> QED BY <1>3, <1>4, NextIsCallOrRuntime

\* A copy of a CR being deleted stays right.
LEMMA StillDeletingStays ==
  ASSUME BindingInv, [Next]_vars, NEW r \in Resources, NEW c, Known(c.name),
         StillDeleting(r, c), c.phase = "deleting", LiveNext(c.name)
  PROVE  obj'[r].phase = "deleting" /\ obj'[r].name = c.name
  <1>1. Live(c.name)
    BY LiveBefore DEF BindingInv
  <1>2. obj[r].phase = "deleting" /\ obj[r].name = c.name
    BY <1>1 DEF StillDeleting
  <1>3. obj[r].fin
    BY <1>2 DEF BindingInv, DeletingIsHeld
  <1> QED BY <1>1, <1>2, <1>3, BoundStays

LEMMA DeletingCopiesStep ==
  ASSUME BindingInv, [Next]_vars
  PROVE  DeletingCopiesHold'
  <1> USE DEF BindingInv
  <1> DEFINE Right(v, c) == c.phase = "deleting" /\ LiveNext(c.name) =>
                 obj'[Target[v]].phase = "deleting" /\ obj'[Target[v]].name = c.name
  <1> SUFFICES ASSUME NEW v \in Workers
               PROVE  /\ Right(v, cache'[v])
                      /\ pc'[v] \in {"observe", "delete"} => Right(v, cr'[v])
                      /\ pc'[v] = "delete" => cr'[v].phase = "deleting"
    BY DEF DeletingCopiesHold, StillDeleting, Live, LiveNext
  <1>0. LoopInv /\ Target[v] \in Resources
    BY RuntimeAssumption DEF TeamInv
  <1>1. Right(v, cache[v])
    BY <1>0, StillDeletingStays DEF TeamInv, NamesAreKnown, DeletingCopiesHold
  <1>2. pc[v] \in {"observe", "delete"} => Right(v, cr[v])
    BY <1>0, StillDeletingStays DEF TeamInv, NamesAreKnown, DeletingCopiesHold
  <1>3. Right(v, obj'[Target[v]])
    OBVIOUS
  <1>4. CASE \E w \in Workers : Call(w)
    <2> PICK w \in Workers : Call(w)
      BY <1>4
    <2>1. CASE v = w /\ pc'[v] \in {"observe", "delete"}
      <3>1. pc[v] = "observe" /\ pc'[v] = "delete" /\ cr[v].phase = "deleting"
        BY <2>1, CallCopies DEF Successors
      <3>2. cr'[v].phase = cr[v].phase /\ cr'[v].name = cr[v].name
        BY <2>1, <3>1, CallCopies DEF CreateWindow
      <3>3. cache' = cache
        BY CallCopies
      <3> QED BY <1>1, <1>2, <3>1, <3>2, <3>3
    <2>2. CASE v # w \/ pc'[v] \notin {"observe", "delete"}
      BY <1>1, <1>2, <2>2, CallCopies DEF DeletingCopiesHold
    <2> QED BY <2>1, <2>2
  <1>5. CASE RuntimeOnly
    <2>1. Right(v, cache'[v])
      BY <1>0, <1>1, <1>3, <1>5, CacheFlow
    <2>2. AfterEnsure(v) \in {"pend", "update", "status"}
      BY DEF AfterEnsure
    <2>3. ASSUME pc'[v] \in {"observe", "delete"}
          PROVE  \/ pc'[v] = pc[v] /\ cr'[v] = cr[v]
                 \/ pc'[v] = "observe" /\ (cr'[v] = cache[v] \/ cr'[v] = obj'[Target[v]])
      BY <1>0, <1>5, <2>2, <2>3, CopyFlow
    <2> HIDE DEF Right
    <2> QED BY <1>1, <1>2, <1>3, <2>1, <2>3 DEF DeletingCopiesHold
  <1> QED BY <1>4, <1>5, NextIsCallOrRuntime

-----------------------------------------------------------------------------
LEMMA InitBindingInv == Init => BindingInv
  <1> SUFFICES ASSUME Init PROVE BindingInv
    OBVIOUS
  <1>1. TeamInv
    BY InitTeamInv
  <1>2. \A r \in Resources : obj[r].phase = "live"
    BY DEF Init, RuntimeInit, Applied
  <1>3. \A w \in Workers : pc[w] = "idle" /\ cache[w] = obj[Target[w]]
    BY DEF Init, RuntimeInit
  <1>4. \A w \in Workers : cache[w].phase = "live"
    BY <1>2, <1>3, RuntimeAssumption
  <1> QED BY <1>1, <1>2, <1>3, <1>4 DEF BindingInv, DeletingIsHeld, CreatingMeansUnbound,
          CreateWindow, DeletingCopiesHold, StillDeleting

\* What ties a CR to its team, and keeps loops with old copies from untying it.
THEOREM BindingInvariant == Spec => []BindingInv
  <1>1. BindingInv /\ [Next]_vars => BindingInv'
    <2> SUFFICES ASSUME BindingInv, [Next]_vars PROVE BindingInv'
      OBVIOUS
    <2>1. TeamInv'
      BY NextKeepsTeamInv DEF BindingInv
    <2> QED BY <2>1, DeletingIsHeldStep, CreatingStaysUnbound, DeletingCopiesStep DEF BindingInv
  <1> QED BY <1>1, InitBindingInv, PTL DEF Spec

\* A CR bound to a team leaves it only when that team no longer exists: a loop
\* gets to Create only with a 404 for the name that is still stored when the
\* answer is recorded (team.go:201-210, 231-259).
THEOREM TeamNameSticks == Spec => NameSticks
  <1>1. BindingInv /\ [Next]_vars =>
          [\A r \in Resources :
              obj[r].fin /\ Live(obj[r].name) => obj'[r].name = obj[r].name]_vars
    BY BoundStays
  <1> QED BY <1>1, BindingInvariant, PTL DEF Spec, NameSticks

\* A team is deleted only for the CR that is bound to it and is being deleted,
\* however old the copy is that the loop acts on (team.go:278-287): a CR being
\* deleted keeps its team's ID until the team is gone.
THEOREM TeamDeletesOwn == Spec => DeletesOwn
  <1>1. ASSUME BindingInv, NEW w \in Workers, Delete(w), NEW t \in TeamIDs, teams'[t] # teams[t]
        PROVE  obj[Target[w]].phase = "deleting" /\ obj[Target[w]].name = t
    <2>1. pc[w] = "delete" /\ Live(cr[w].name) /\ cr[w].name = t
      <3>1. teams \in [TeamIDs -> Teams]
        BY <1>1 DEF BindingInv, TeamInv, TeamTypeOK
      <3> QED BY <1>1, <3>1 DEF Delete
    <2> QED BY <1>1, <2>1 DEF BindingInv, DeletingCopiesHold, StillDeleting
  <1>2. BindingInv /\ [Next]_vars =>
          [\A w \in Workers : Delete(w) =>
              \A t \in TeamIDs : teams'[t] # teams[t] =>
                  obj[Target[w]].phase = "deleting" /\ obj[Target[w]].name = t]_vars
    BY <1>1
  <1> QED BY <1>2, BindingInvariant, PTL DEF Spec, DeletesOwn

-----------------------------------------------------------------------------
(* Who makes teams, and what Create does with them.                        *)

\* A team begins to exist with a POST, the landing of one, or by another hand;
\* nothing else changes then, and where slugs are unique its slug is free.
LEMMA WhoMakes ==
  ASSUME TeamInv, [Next]_vars, NEW t \in TeamIDs, LiveNext(t), ~Live(t)
  PROVE  /\ \A u \in TeamIDs : u # t => teams'[u] = teams[u]
         /\ UniqueSlugs =>
               \A u \in LiveTeams : SlugOf[teams[u].name] # SlugOf[teams'[t].name]
         /\ \/ \E w \in Workers : /\ Post(w) /\ teams'[t].name = cr[w].spec.name
                                  /\ teams'[t].by = Target[w]
            \/ teams[t].st = "sent"
            \/ teams'[t].by = Foreign
  <1> USE DEF TeamInv, TeamTypeOK
  <1>0. teams[t].st # "live" /\ teams'[t].st = "live"
    BY DEF Live, LiveNext
  <1>1. ASSUME NEW u \in TeamIDs, NEW o, teams' = [teams EXCEPT ![u] = o]
        PROVE  /\ u = t /\ teams'[t] = o
               /\ \A v \in TeamIDs : v # t => teams'[v] = teams[v]
    BY <1>0, <1>1
  <1>2. CASE UNCHANGED teams
    BY <1>0, <1>2
  <1>3. ASSUME NEW w \in Workers, Post(w), NEW u \in TeamIDs, NEW st, Makes(w, u, st)
        PROVE  /\ \A v \in TeamIDs : v # t => teams'[v] = teams[v]
               /\ UniqueSlugs =>
                     \A v \in LiveTeams : SlugOf[teams[v].name] # SlugOf[teams'[t].name]
               /\ teams'[t].name = cr[w].spec.name /\ teams'[t].by = Target[w]
    <2> DEFINE o == [toTeamCreate(Target[w], cr[w].spec) EXCEPT !.st = st]
    <2>1. /\ teams' = [teams EXCEPT ![u] = o]
          /\ UniqueSlugs => ~SlugTaken(cr[w].spec.name)
      BY <1>3 DEF Makes
    <2>2. o.name = cr[w].spec.name /\ o.by = Target[w]
      BY DEF toTeamCreate
    <2> HIDE DEF o
    <2> QED BY <1>1, <2>1, <2>2 DEF SlugTaken
  <1>4. ASSUME NEW w \in Workers, Update(w) \/ Delete(w)
        PROVE  FALSE
    <2> DEFINE n == cr[w].name
               o == TeamUpdate(cr[w].spec, teams[n])
               p == [teams[n] EXCEPT !.st = "gone"]
    <2>1. /\ cr[w].spec \in Specs
          /\ Live(n) => n \in TeamIDs /\ teams[n] \in Teams /\ teams[n].st = "live"
      BY CopyFacts DEF Live
    <2>2. Live(n) => o.st = "live" /\ p.st = "gone"
      BY <2>1, UpdatedIsTeam DEF Teams
    <2>3. Live(n) /\ (teams' = [teams EXCEPT ![n] = o] \/ teams' = [teams EXCEPT ![n] = p])
      BY <1>0, <1>4 DEF Update, Delete
    <2> HIDE DEF n, o, p
    <2> QED BY <1>0, <1>1, <2>1, <2>2, <2>3
  <1>5. ASSUME NEW u \in TeamIDs, Land(u)
        PROVE  /\ \A v \in TeamIDs : v # t => teams'[v] = teams[v]
               /\ UniqueSlugs =>
                     \A v \in LiveTeams : SlugOf[teams[v].name] # SlugOf[teams'[t].name]
               /\ teams[t].st = "sent"
    <2> DEFINE o == [teams[u] EXCEPT !.st =
                       IF UniqueSlugs /\ SlugTaken(teams[u].name) THEN "gone" ELSE "live"]
    <2>1. teams' = [teams EXCEPT ![u] = o] /\ teams[u].st = "sent" /\ teams[u] \in Teams
      BY <1>5 DEF Land
    <2>2. o.name = teams[u].name /\ (UniqueSlugs /\ SlugTaken(teams[u].name) => o.st = "gone")
      BY <2>1 DEF Teams
    <2> HIDE DEF o
    <2> QED BY <1>0, <1>1, <2>1, <2>2 DEF SlugTaken
  <1>6. ASSUME NEW u \in TeamIDs, NEW n \in TeamNames, ForeignCreate(u, n)
        PROVE  /\ \A v \in TeamIDs : v # t => teams'[v] = teams[v]
               /\ UniqueSlugs =>
                     \A v \in LiveTeams : SlugOf[teams[v].name] # SlugOf[teams'[t].name]
               /\ teams'[t].by = Foreign
    <2>1. Made(n).name = n /\ Made(n).by = Foreign
      BY DEF Made, Blank
    <2>2. teams' = [teams EXCEPT ![u] = Made(n)] /\ (UniqueSlugs => ~SlugTaken(n))
      BY <1>6 DEF ForeignCreate, OutOfBand
    <2> QED BY <1>1, <2>1, <2>2 DEF SlugTaken
  <1>7. ASSUME NEW u \in TeamIDs, \/ ForeignDelete(u)
                                  \/ \E d \in Descs, m \in Maxs \cup {Unset} : ForeignEdit(u, d, m)
        PROVE  FALSE
    <2>1. Live(u) /\ \E o : teams' = [teams EXCEPT ![u] = o]
      BY <1>7 DEF ForeignDelete, ForeignEdit, OutOfBand
    <2> QED BY <1>1, <2>1
  <1>8. ASSUME NEW w \in Workers, Call(w)
        PROVE  \/ UNCHANGED teams \/ Update(w) \/ Delete(w)
               \/ Post(w) /\ \E u \in TeamIDs : \E st \in {"live", "sent"} : Makes(w, u, st)
    BY <1>8 DEF Call, Observe, Resolve, Adopt, Post, teamVars
  <1>9. \/ UNCHANGED teams
        \/ \E w \in Workers : Call(w)
        \/ Others
    BY DEF Next, Controller, Humans, Faults, vars, teamVars
  <1>10. CASE Others
    BY <1>5, <1>6, <1>7, <1>10 DEF Others
  <1>11. CASE \E w \in Workers : Call(w)
    BY <1>2, <1>3, <1>4, <1>8, <1>11
  <1> QED BY <1>2, <1>9, <1>10, <1>11

\* The pick is the loop's own.
LEMMA PickStep ==
  ASSUME TeamInv, [Next]_vars, NEW v \in Workers, ~Call(v)
  PROVE  pick'[v] = pick[v]
  <1>1. ASSUME NEW w \in Workers, Call(w) PROVE pick'[v] = pick[v]
    <2>1. UNCHANGED pick \/ \E t : pick' = [pick EXCEPT ![w] = t]
      BY <1>1 DEF Call, Observe, Resolve, Adopt, Post, Update, Delete, teamVars
    <2>2. v # w
      BY <1>1
    <2> QED BY <2>1, <2>2 DEF TeamInv, TeamTypeOK
  <1>2. (\E w \in Workers : Call(w)) \/ UNCHANGED pick
    BY DEF Next, Controller, Humans, Others, Faults, vars, teamVars, Land, ForeignDelete,
           ForeignCreate, ForeignEdit, OutOfBand
  <1> QED BY <1>1, <1>2

\* Create goes on with a copy as it was, and with a pick from the list.
LEMMA CallGoesOn ==
  ASSUME TeamInv, NEW w \in Workers, Call(w), pc'[w] \in {"create", "post", "adopt"}
  PROVE  /\ pc[w] = "create" /\ cr'[w] = cr[w] /\ UNCHANGED teams
         /\ pc'[w] = "adopt" => /\ pick'[w] \in LiveTeams
                                /\ SlugOf[teams[pick'[w]].name] = cr[w].spec.name
         /\ pc'[w] = "post" => \E P \in Pages : Matches(P, cr[w].spec.name) = {}
  <1>1. ASSUME NEW s, NEW c, Goto(w, s, c)
        PROVE  pc'[w] = s /\ cr'[w] = c
    BY <1>1 DEF Goto, TeamInv, LoopInv, RuntimeTypeOK
  <1>2. \A c : ~Report(w, c) /\ ~Created(w, c) /\ ~CreateFailed(w) /\ \A e, u : ~Observed(w, c, e, u)
    BY <1>1 DEF Report, Created, CreateFailed, Observed
  <1>3. Resolve(w)
    BY <1>2 DEF Call, Observe, Adopt, Post, Update, Delete
  <1>4. /\ pc[w] = "create" /\ UNCHANGED teams
        /\ \/ \E P \in Pages, t \in TeamIDs : /\ t \in Matches(P, cr[w].spec.name)
                                              /\ pick' = [pick EXCEPT ![w] = t]
                                              /\ Goto(w, "adopt", cr[w])
           \/ (\E P \in Pages : Matches(P, cr[w].spec.name) = {}) /\ Goto(w, "post", cr[w])
    BY <1>2, <1>3 DEF Resolve
  <1>5. ASSUME NEW P \in Pages, NEW t \in Matches(P, cr[w].spec.name)
        PROVE  t \in LiveTeams /\ SlugOf[teams[t].name] = cr[w].spec.name
    BY <1>5 DEF Pages, Matches
  <1>6. \A t : pick' = [pick EXCEPT ![w] = t] => pick'[w] = t
    BY DEF TeamInv, TeamTypeOK
  <1>7. CASE (\E P \in Pages : Matches(P, cr[w].spec.name) = {}) /\ Goto(w, "post", cr[w])
    <2>1. pc'[w] = "post" /\ cr'[w] = cr[w]
      BY <1>1, <1>7
    <2> QED BY <1>4, <1>7, <2>1
  <1>8. ASSUME NEW P \in Pages, NEW t \in Matches(P, cr[w].spec.name),
               pick' = [pick EXCEPT ![w] = t], Goto(w, "adopt", cr[w])
        PROVE  /\ pc'[w] = "adopt" /\ cr'[w] = cr[w] /\ pick'[w] \in LiveTeams
               /\ SlugOf[teams[pick'[w]].name] = cr[w].spec.name
    <2>1. pc'[w] = "adopt" /\ cr'[w] = cr[w]
      BY <1>1, <1>8
    <2>2. pick'[w] = t
      BY <1>6, <1>8
    <2> QED BY <1>5, <2>1, <2>2
  <1> QED BY <1>4, <1>7, <1>8

\* The ID a call leaves in the copy: the one that was there, the one the copy is
\* bound to, or that of the team Create has found or made.
LEMMA CallIds ==
  ASSUME TeamInv, NEW w \in Workers, Call(w)
  PROVE  \/ cr'[w] = cr[w]
         \/ /\ pc[w] \in {"observe", "update"} /\ pc'[w] # "annotate"
            /\ Live(cr[w].name) /\ cr'[w].id = cr[w].name
         \/ \E t \in TeamIDs :
               /\ pc'[w] = "annotate" /\ cr'[w].id = t /\ cr'[w].name = t /\ LiveNext(t)
               /\ \/ pc[w] = "adopt" /\ t = pick[w] /\ Live(t) /\ UNCHANGED teams
                  \/ pc[w] = "post" /\ teams'[t].name = cr[w].spec.name
  <1> USE DEF TeamInv
  <1>1. ASSUME NEW s, NEW c, Goto(w, s, c)
        PROVE  pc'[w] = s /\ cr'[w] = c
    BY <1>1 DEF Goto, LoopInv, RuntimeTypeOK
  <1>2. cr[w] \in Objects
    BY CopyFacts
  <1>3. /\ [cr[w] EXCEPT !.id = cr[w].name].id = cr[w].name
        /\ \A t : [[cr[w] EXCEPT !.name = t] EXCEPT !.id = t].id = t
        /\ \A t : [[cr[w] EXCEPT !.name = t] EXCEPT !.id = t].name = t
    BY <1>2 DEF Objects
  <1>4. CASE CreateFailed(w) \/ Report(w, cr[w]) \/ Goto(w, "adopt", cr[w]) \/ Goto(w, "post", cr[w])
    BY <1>1, <1>4 DEF CreateFailed, Report
  <1>5. CASE Observe(w)
    <2>1. \A e, u : Observed(w, cr[w], e, u) => cr'[w] = cr[w]
      BY <1>1 DEF Observed
    <2>2. \A e, u : Observed(w, toObservation(cr[w], cr[w].name), e, u) =>
                      cr'[w].id = cr[w].name /\ pc'[w] # "annotate"
      <3> SUFFICES ASSUME NEW e, NEW u, Observed(w, toObservation(cr[w], cr[w].name), e, u)
                   PROVE  cr'[w].id = cr[w].name /\ pc'[w] # "annotate"
        OBVIOUS
      <3>1. PICK s \in {"ensure", "delete", "finalize"} : Goto(w, s, [cr[w] EXCEPT !.id = cr[w].name])
        BY DEF Observed, toObservation
      <3> QED BY <1>1, <1>3, <3>1
    <2> QED BY <1>4, <1>5, <2>1, <2>2 DEF Observe
  <1>6. CASE Resolve(w)
    BY <1>4, <1>6 DEF Resolve
  <1>7. ASSUME NEW t \in TeamIDs, Created(w, toObservation([cr[w] EXCEPT !.name = t], t))
        PROVE  pc'[w] = "annotate" /\ cr'[w].id = t /\ cr'[w].name = t
    BY <1>1, <1>3, <1>7 DEF Created, toObservation
  <1>8. CASE Adopt(w)
    <2>1. \/ CreateFailed(w)
          \/ Live(pick[w]) /\ Created(w, toObservation([cr[w] EXCEPT !.name = pick[w]], pick[w]))
      BY <1>8 DEF Adopt
    <2>2. pc[w] = "adopt" /\ UNCHANGED teams
      BY <1>8 DEF Adopt
    <2> QED BY <1>4, <1>7, <2>1, <2>2 DEF Live, LiveNext
  <1>9. CASE Post(w)
    <2>1. ASSUME NEW t \in TeamIDs, Makes(w, t, "live") PROVE LiveNext(t) /\ teams'[t].name = cr[w].spec.name
      <3> DEFINE o == [toTeamCreate(Target[w], cr[w].spec) EXCEPT !.st = "live"]
      <3>1. o.name = cr[w].spec.name /\ o.st = "live"
        BY DEF toTeamCreate
      <3>2. teams' = [teams EXCEPT ![t] = o]
        BY <2>1 DEF Makes
      <3> HIDE DEF o
      <3> QED BY <3>1, <3>2 DEF TeamTypeOK, LiveNext
    <2>2. \/ CreateFailed(w)
          \/ \E t \in TeamIDs : /\ Makes(w, t, "live")
                                /\ Created(w, toObservation([cr[w] EXCEPT !.name = t], t))
      BY <1>9 DEF Post
    <2>3. pc[w] = "post"
      BY <1>9 DEF Post
    <2> QED BY <1>4, <1>7, <2>1, <2>2, <2>3
  <1>10. CASE Update(w)
    <2>1. \/ Report(w, cr[w])
          \/ Live(cr[w].name) /\ Report(w, [cr[w] EXCEPT !.id = cr[w].name])
      BY <1>10 DEF Update, toObservation
    <2>2. pc[w] = "update"
      BY <1>10 DEF Update
    <2>3. ASSUME Report(w, [cr[w] EXCEPT !.id = cr[w].name])
          PROVE  pc'[w] = "status" /\ cr'[w].id = cr[w].name
      <3>1. Goto(w, "status", [cr[w] EXCEPT !.id = cr[w].name])
        BY <2>3 DEF Report
      <3> QED BY <1>1, <1>3, <3>1
    <2> QED BY <1>4, <2>1, <2>2, <2>3
  <1>11. CASE Delete(w)
    BY <1>4, <1>11 DEF Delete
  <1> QED BY <1>5, <1>6, <1>8, <1>9, <1>10, <1>11 DEF Call

\* A CR keeps its team name (spec.forProvider.name is immutable).
LEMMA TeamNameStays ==
  ASSUME TeamInv, [Next]_vars, NEW r \in Resources
  PROVE  \/ obj'[r].spec.name = obj[r].spec.name
         \/ obj'[r] = Nothing
         \/ \E m \in Manifests : m.r = r /\ obj[r].phase = "absent" /\ obj'[r] = Applied(m)
  <1> USE DEF TeamInv
  <1>1. ASSUME NEW q \in Resources, NEW o, Store(q, o)
        PROVE  IF q = r THEN obj'[r] = o ELSE obj'[r] = obj[r]
    BY <1>1 DEF Store, LoopInv, RuntimeTypeOK
  <1>2. ASSUME NEW w \in Workers, Loop(w)
        PROVE  obj'[r].spec.name = obj[r].spec.name \/ obj'[r] = Nothing
    <2>1. Target[w] \in Resources
      BY RuntimeAssumption
    <2>2. \/ UNCHANGED obj
          \/ Store(Target[w], Nothing)
          \/ \E o : Store(Target[w], o) /\ Revises(Target[w], o)
      BY <1>2, LoopWrites DEF kubeVars
    <2> QED BY <1>1, <2>1, <2>2 DEF Revises
  <1>3. ASSUME NEW q \in Resources,
               \/ \E m \in Manifests : m.r = q /\ UserCreate(m)
               \/ UserDelete(q) \/ OperatorClear(q)
        PROVE  \/ obj'[r].spec.name = obj[r].spec.name \/ obj'[r] = Nothing
               \/ \E m \in Manifests : m.r = r /\ obj[r].phase = "absent" /\ obj'[r] = Applied(m)
    <2>1. \/ Store(q, Nothing)
          \/ \E m \in Manifests : m.r = q /\ obj[q].phase = "absent" /\ Store(q, Applied(m))
          \/ \E o : Store(q, o) /\ Revises(q, o)
      BY <1>3, HumansWrite
    <2> QED BY <1>1, <2>1 DEF Revises
  <1>4. ASSUME NEW q \in Resources, Edit(q)
        PROVE  obj'[r].spec.name = obj[r].spec.name
    <2>1. PICK s : s.name = obj[q].spec.name /\ Store(q, [obj[q] EXCEPT !.spec = s])
      BY <1>4 DEF Edit, UserEdit, HumanWrite
    <2>2. [obj[q] EXCEPT !.spec = s].spec = s
      BY DEF LoopInv, RuntimeTypeOK, Objects
    <2> QED BY <1>1, <2>1, <2>2
  <1>5. CASE \E w \in Workers : Call(w)
    BY <1>5, CallCopies
  <1>6. CASE UNCHANGED obj
    BY <1>6
  <1>7. \A m \in Manifests : m.r \in Resources
    BY RuntimeAssumption
  <1>8. Others \/ Faults \/ UNCHANGED vars => UNCHANGED obj
    BY OthersActElsewhere DEF Elsewhere, Faults, Interrupt, CacheSync, kubeVars, runtimeVars, vars
  <1> QED BY <1>2, <1>3, <1>4, <1>5, <1>6, <1>7, <1>8 DEF Next, Controller, Humans

\* A loop gets into Create, outside of the calls, with what it stored.
LEMMA WindowFlow ==
  ASSUME TeamInv, [Next]_vars, NEW v \in Workers, ~Call(v), pc'[v] \in CreateWindow
  PROVE  \/ pc'[v] = pc[v] /\ cr'[v] = cr[v]
         \/ pc[v] = "pend" /\ pc'[v] = "create" /\ cr'[v] = obj'[Target[v]]
  <1>1. CASE \E w \in Workers : Call(w)
    BY <1>1, CallCopies
  <1>2. CASE RuntimeOnly
    <2>1. AfterEnsure(v) \in {"pend", "update", "status"}
      BY DEF AfterEnsure
    <2> QED BY <1>2, <2>1, CopyFlow DEF TeamInv, CreateWindow
  <1> QED BY <1>1, <1>2, NextIsCallOrRuntime

\* A loop creates with the name the stored CR has.
LEMMA WindowSpec ==
  ASSUME TeamInv, [Next]_vars, NEW v \in Workers, pc'[v] \in CreateWindow,
         pc[v] \in CreateWindow => cr[v].spec.name = obj[Target[v]].spec.name
  PROVE  cr'[v].spec.name = obj'[Target[v]].spec.name
  <1>1. LoopInv' /\ Target[v] \in Resources
    BY NextKeepsTeamInv, RuntimeAssumption DEF TeamInv
  <1>2. pc[v] \in CreateWindow => obj'[Target[v]].spec.name = obj[Target[v]].spec.name
    <2>1. pc[v] \in CreateWindow =>
              obj'[Target[v]].phase # "absent" /\ obj[Target[v]].phase # "absent"
      BY <1>1 DEF TeamInv, LoopInv, WindowIsPending
    <2> QED BY <1>1, <2>1, TeamNameStays, NewAndGone
  <1>3. CASE Call(v)
    <2>1. pc[v] \in CreateWindow
      BY <1>3, CallCopies DEF Successors, CreateWindow
    <2> QED BY <1>3, <2>1, CallCopies
  <1>4. CASE ~Call(v)
    BY <1>2, <1>4, WindowFlow
  <1> QED BY <1>3, <1>4

LEMMA SlugsStayDifferent ==
  ASSUME OwnSlugs, UniqueSlugs, PublishedInv, [Next]_vars
  PROVE  SlugsDiffer'
  <1> USE DEF PublishedInv, BindingInv
  <1> SUFFICES ASSUME NEW t \in TeamIDs, NEW u \in TeamIDs, LiveNext(t), LiveNext(u),
                      teams'[t].name = teams'[u].name
               PROVE  t = u
    BY DEF SlugsDiffer, LiveTeams, Live, LiveNext
  <1>1. TeamTypeOK /\ TeamTypeOK'
    BY NextKeepsTeamInv DEF TeamInv
  <1>2. \A v \in TeamIDs : teams[v].name \in TeamNames /\ teams'[v].name \in TeamNames
    BY <1>1 DEF TeamTypeOK, Teams
  <1>3. ASSUME NEW v \in TeamIDs, NEW x \in TeamIDs, v # x, LiveNext(v), ~Live(v), LiveNext(x)
        PROVE  teams'[v].name # teams'[x].name
    <2>1. teams'[x] = teams[x]
      BY <1>3, WhoMakes
    <2>2. x \in LiveTeams
      BY <1>3, <2>1 DEF LiveNext, Live, LiveTeams
    <2> QED BY <1>2, <1>3, <2>1, <2>2, WhoMakes DEF OwnSlugs
  <1>4. CASE Live(t) /\ Live(u)
    <2>1. teams'[t].name = teams[t].name /\ teams'[u].name = teams[u].name
      BY <1>4, LiveBefore DEF Known, Live
    <2> QED BY <1>4, <2>1 DEF SlugsDiffer, LiveTeams
  <1> QED BY <1>3, <1>4

LEMMA CreatesByNameStays ==
  ASSUME OwnSlugs, PublishedInv, [Next]_vars
  PROVE  CreatesByName'
  <1> USE DEF PublishedInv, BindingInv
  <1> SUFFICES ASSUME NEW w \in Workers
               PROVE  /\ pc'[w] \in CreateWindow => cr'[w].spec.name = obj'[Target[w]].spec.name
                      /\ pc'[w] = "adopt" => /\ pick'[w] \in TeamIDs
                                             /\ Known(pick[w])'
                                             /\ teams'[pick'[w]].name = cr'[w].spec.name
                      /\ pc'[w] \in {"create", "post", "adopt"} => ~LiveNext(cr'[w].name)
                      /\ pc'[w] = "annotate" /\ LiveNext(cr'[w].name) =>
                            teams'[cr'[w].name].name = cr'[w].spec.name
    BY DEF CreatesByName, Live, LiveNext
  <1>0. TeamTypeOK /\ TeamsGrow /\ LoopInv /\ Known(cr[w].name)
    BY TeamsStep DEF TeamInv, NamesAreKnown
  <1>1. pc'[w] \in CreateWindow => cr'[w].spec.name = obj'[Target[w]].spec.name
    BY WindowSpec DEF CreatesByName
  <1>2. Live(cr[w].name) \/ ~LiveNext(cr[w].name)
    BY <1>0, LiveBefore
  <1>3. CASE Call(w)
    <2>1. ASSUME pc'[w] = "adopt"
          PROVE  pick'[w] \in TeamIDs /\ Known(pick[w])' /\ teams'[pick'[w]].name = cr'[w].spec.name
      <3>1. /\ cr'[w] = cr[w] /\ UNCHANGED teams /\ pick'[w] \in LiveTeams
            /\ SlugOf[teams[pick'[w]].name] = cr[w].spec.name
        BY <1>3, <2>1, CallGoesOn
      <3>2. pick'[w] \in TeamIDs /\ teams[pick'[w]].st = "live"
        BY <3>1 DEF LiveTeams, Live
      <3>3. teams[pick'[w]].name \in TeamNames
        BY <1>0, <3>2 DEF TeamTypeOK, Teams
      <3> QED BY <3>1, <3>2, <3>3 DEF OwnSlugs, Known
    <2>2. pc'[w] \in {"create", "post", "adopt"} => ~LiveNext(cr'[w].name)
      BY <1>2, <1>3, CallGoesOn DEF CreatesByName
    <2>3. ASSUME pc'[w] = "annotate", LiveNext(cr'[w].name)
          PROVE  teams'[cr'[w].name].name = cr'[w].spec.name
      <3>1. pc[w] \in {"create", "post", "adopt"}
        BY <1>3, <2>3, CallCopies DEF Successors
      <3>2. cr'[w] # cr[w]
        BY <1>2, <2>3, <3>1 DEF CreatesByName
      <3>3. cr'[w].spec = cr[w].spec
        BY <1>3, CallCopies
      <3> QED BY <1>3, <2>3, <3>2, <3>3, CallIds DEF CreatesByName
    <2> QED BY <1>1, <2>1, <2>2, <2>3
  <1>4. CASE ~Call(w)
    <2>1. pick'[w] = pick[w]
      BY <1>4, PickStep
    <2>2. CASE pc'[w] = pc[w] /\ cr'[w] = cr[w]
      <3>1. ASSUME pc'[w] = "adopt"
            PROVE  Known(pick[w])' /\ teams'[pick'[w]].name = cr'[w].spec.name /\ pick'[w] \in TeamIDs
        <4>1. pick[w] \in TeamIDs /\ Known(pick[w]) /\ teams[pick[w]].name = cr[w].spec.name
          BY <2>2, <3>1 DEF CreatesByName
        <4>2. /\ teams[pick[w]].st \in {"live", "gone"} /\ teams'[pick[w]].st \in {"live", "gone"}
              /\ teams'[pick[w]].name = teams[pick[w]].name
          BY <1>0, <4>1 DEF TeamsGrow, Known
        <4>3. Known(pick[w])'
          BY <2>1, <4>1, <4>2 DEF Known
        <4> QED BY <2>1, <2>2, <4>1, <4>2, <4>3
      <3>2. ASSUME pc'[w] = "annotate", LiveNext(cr'[w].name)
            PROVE  teams'[cr'[w].name].name = cr'[w].spec.name
        <4>1. Live(cr[w].name) /\ teams'[cr[w].name].name = teams[cr[w].name].name
          BY <1>0, <2>2, <3>2, LiveBefore
        <4> QED BY <2>2, <3>2, <4>1 DEF CreatesByName
      <3> QED BY <1>1, <1>2, <2>2, <3>1, <3>2 DEF CreatesByName
    <2>3. CASE pc'[w] = "create" /\ cr'[w] = obj'[Target[w]]
      <3>1. ~LiveNext(obj'[Target[w]].name)
        BY <2>3, CreatingStaysUnbound DEF CreatingMeansUnbound, CreateWindow, Live, LiveNext
      <3> QED BY <1>1, <2>3, <3>1
    <2>4. pc'[w] \in CreateWindow => (pc'[w] = pc[w] /\ cr'[w] = cr[w])
                                     \/ (pc'[w] = "create" /\ cr'[w] = obj'[Target[w]])
      BY <1>4, WindowFlow
    <2> QED BY <2>2, <2>3, <2>4 DEF CreateWindow
  <1> QED BY <1>3, <1>4

\* Publishing i for CR r will be sound.
SoundNext(r, i) ==
    /\ i \in TeamIDs => teams'[i].st \in {"live", "gone"}
    /\ LiveNext(i) => \/ i = obj'[r].name
                      \/ ~LiveNext(obj'[r].name) /\ teams'[i].name = obj'[r].spec.name

\* What is sound to publish for CR r stays sound as long as r keeps its spec,
\* whichever way its external-name changes.
LEMMA IdStaysSound ==
  ASSUME PublishedInv, [Next]_vars, NEW r \in Resources, NEW i, IdIsSound(r, i),
         obj'[r].spec.name = obj[r].spec.name,
         \/ obj'[r].name = obj[r].name
         \/ obj[r].name = NoName /\ obj'[r].name = MetaName[r]
         \/ \E w \in Workers : Target[w] = r /\ pc[w] = "annotate" /\ obj'[r].name = cr[w].name
  PROVE  SoundNext(r, i)
  <1> USE DEF PublishedInv, BindingInv
  <1>0. TeamTypeOK /\ TeamsGrow /\ Known(obj[r].name) /\ Known(i)
    BY TeamsStep DEF TeamInv, NamesAreKnown, IdIsSound
  <1>1. i \in TeamIDs => teams'[i].st \in {"live", "gone"}
    BY <1>0, KnownStays
  <1> SUFFICES ASSUME LiveNext(i), i # obj'[r].name
               PROVE  ~LiveNext(obj'[r].name) /\ teams'[i].name = obj'[r].spec.name
    BY <1>1 DEF SoundNext
  <1>2. Live(i) /\ teams'[i].name = teams[i].name
    BY <1>0, LiveBefore
  <1>3. CASE obj'[r].name = obj[r].name
    BY <1>0, <1>2, <1>3, LiveBefore DEF IdIsSound
  <1>4. CASE obj[r].name = NoName /\ obj'[r].name = MetaName[r]
    BY <1>2, <1>4, RuntimeAssumption DEF IdIsSound, Live, LiveNext, TeamIDs
  <1>5. ASSUME NEW w \in Workers, Target[w] = r, pc[w] = "annotate", obj'[r].name = cr[w].name
        PROVE  ~LiveNext(obj'[r].name) /\ teams'[i].name = obj'[r].spec.name
    <2>1. ~Live(obj[r].name) /\ cr[w].spec.name = obj[r].spec.name
      BY <1>5 DEF CreatingMeansUnbound, CreatesByName, CreateWindow
    <2>2. teams[i].name = obj[r].spec.name
      BY <1>2, <2>1 DEF IdIsSound
    <2>3. ASSUME LiveNext(cr[w].name) PROVE FALSE
      <3>1. Live(cr[w].name)
        BY <2>3, LiveBefore DEF TeamInv, NamesAreKnown
      <3>2. teams[cr[w].name].name = cr[w].spec.name
        BY <1>5, <3>1 DEF CreatesByName
      <3>3. i = cr[w].name
        BY <1>2, <2>1, <2>2, <3>1, <3>2 DEF SlugsDiffer, LiveTeams, Live
      <3> QED BY <1>5, <3>3
    <2> QED BY <1>2, <1>5, <2>2, <2>3
  <1> QED BY <1>3, <1>4, <1>5

LEMMA IdsStaySound ==
  ASSUME PublishedInv, [Next]_vars
  PROVE  IdsAreSound'
  <1> USE DEF PublishedInv, BindingInv
  <1> SUFFICES /\ \A r \in Resources : SoundNext(r, obj'[r].id)
               /\ \A w \in Workers : fresh'[w] /\ pc'[w] # "idle" => SoundNext(Target[w], cr'[w].id)
    BY DEF IdsAreSound, IdIsSound, SoundNext, Known, Live, LiveNext
  <1>0. LoopInv /\ LoopInv'
    BY NextKeepsTeamInv DEF TeamInv
  <1>1. ASSUME NEW r \in Resources, NEW i, IdIsSound(r, i), obj'[r] = obj[r]
        PROVE  SoundNext(r, i)
    BY <1>1, IdStaysSound
  <1>2. \A r : SoundNext(r, NoName)
    BY RuntimeAssumption DEF SoundNext, LiveNext, TeamIDs
  <1>3. ASSUME NEW r \in Resources
        PROVE  SoundNext(r, obj'[r].id)
    <2>1. IdIsSound(r, obj[r].id) /\ obj[r] \in Objects
      BY <1>0 DEF IdsAreSound, LoopInv, RuntimeTypeOK
    <2>2. CASE obj'[r] = obj[r]
      BY <1>1, <2>1, <2>2
    <2>3. CASE obj'[r] = Nothing \/ \E m \in Manifests : obj'[r] = Applied(m)
      BY <1>2, <2>3, NewAndGone
    <2>4. CASE Revises(r, obj'[r])
      <3>1. IdIsSound(r, obj'[r].id)
        BY <2>1, <2>4 DEF Revises, IdsAreSound
      <3> QED BY <2>4, <3>1, IdStaysSound DEF Revises
    <2>5. ASSUME NEW s \in Specs, UserEdit(r, s), obj'[r] = [obj[r] EXCEPT !.spec = s]
          PROVE  SoundNext(r, obj'[r].id)
      <3>1. obj'[r].id = obj[r].id /\ obj'[r].name = obj[r].name /\ obj'[r].phase # "absent"
        BY <2>1, <2>5 DEF Objects, UserEdit
      <3>2. obj'[r].spec.name = obj[r].spec.name
        BY <2>5, <3>1, TeamNameStays, NewAndGone DEF UserEdit
      <3> QED BY <2>1, <3>1, <3>2, IdStaysSound
    <2>6. CASE \E w \in Workers : Call(w)
      BY <2>2, <2>6, CallCopies
    <2>7. CASE RuntimeOnly
      BY <1>0, <2>2, <2>3, <2>4, <2>5, <2>7, WhoWrites
    <2> QED BY <2>6, <2>7, NextIsCallOrRuntime
  <1>4. ASSUME NEW w \in Workers, fresh'[w], pc'[w] # "idle"
        PROVE  SoundNext(Target[w], cr'[w].id)
    <2> DEFINE r == Target[w]
    <2>1. r \in Resources /\ Known(obj[r].name) /\ SoundNext(r, obj'[r].id)
      BY <1>3, RuntimeAssumption DEF TeamInv, NamesAreKnown
    <2>2. CASE fresh[w] /\ pc[w] # "idle" /\ cr'[w] = cr[w] /\ obj'[r] = obj[r]
      BY <1>1, <2>1, <2>2 DEF IdsAreSound
    <2>3. CASE cr'[w] = obj'[r] \/ (cr'[w] = obj[r] /\ obj' = obj)
      BY <2>1, <2>3
    <2>4. CASE RuntimeOnly
      <3>1. \/ /\ cr'[w] = cr[w] /\ fresh[w] /\ obj'[r] = obj[r]
               /\ pc'[w] = pc[w] \/ pc[w] \in {"ensure", "annotate"}
            \/ cr'[w] = obj'[r] \/ (cr'[w] = obj[r] /\ obj' = obj)
        BY <1>0, <1>4, <2>4, CopyFlow
      <3>2. pc'[w] # "idle"
        BY <1>4
      <3>3. CASE cr'[w] = obj'[r] \/ (cr'[w] = obj[r] /\ obj' = obj)
        BY <2>3, <3>3
      <3>4. CASE cr'[w] = cr[w] /\ fresh[w] /\ obj'[r] = obj[r] /\ pc[w] # "idle"
        BY <2>2, <3>4
      <3> QED BY <3>1, <3>2, <3>3, <3>4
    <2>5. ASSUME NEW v \in Workers, Call(v)
          PROVE  SoundNext(r, cr'[w].id)
      <3>1. UNCHANGED <<obj, fresh>> /\ (v # w => pc'[w] = pc[w] /\ cr'[w] = cr[w])
        BY <2>5, CallCopies
      <3>2. CASE v # w
        BY <1>4, <2>2, <3>1, <3>2
      <3>3. CASE v = w
        <4>1. pc[w] # "idle"
          BY <2>5, <3>3, CallCopies DEF Successors
        <4>2. CASE cr'[w] = cr[w]
          BY <1>4, <2>2, <3>1, <4>1, <4>2
        <4>3. CASE pc[w] \in {"observe", "update"} /\ Live(cr[w].name) /\ cr'[w].id = cr[w].name
          <5>1. cr[w].name = obj'[r].name
            BY <1>0, <1>4, <3>1, <4>3 DEF LoopInv, FreshAgrees, Early
          <5>2. Known(cr[w].name)
            BY DEF TeamInv, NamesAreKnown
          <5>3. TeamTypeOK /\ TeamsGrow
            BY TeamsStep DEF TeamInv
          <5>4. cr[w].name \in TeamIDs => teams'[cr[w].name].st \in {"live", "gone"}
            BY <5>2, <5>3, KnownStays
          <5> QED BY <4>3, <5>1, <5>4 DEF SoundNext
        <4>4. ASSUME NEW t \in TeamIDs, pc[w] \in {"adopt", "post"}, cr'[w].id = t, LiveNext(t),
                     \/ pc[w] = "adopt" /\ t = pick[w] /\ Live(t) /\ UNCHANGED teams
                     \/ teams'[t].name = cr[w].spec.name
              PROVE  SoundNext(r, cr'[w].id)
          <5>1. ~Live(obj[r].name) /\ cr[w].spec.name = obj[r].spec.name
            BY <4>4 DEF CreatingMeansUnbound, CreatesByName, CreateWindow
          <5>2. ~LiveNext(obj'[r].name) /\ obj'[r].spec.name = obj[r].spec.name
            BY <2>1, <3>1, <5>1, LiveBefore
          <5>3. teams'[t].name = cr[w].spec.name
            BY <4>4 DEF CreatesByName
          <5> QED BY <4>4, <5>1, <5>2, <5>3 DEF SoundNext, LiveNext
        <4> QED BY <2>5, <3>3, <4>2, <4>3, <4>4, CallIds
      <3> QED BY <3>2, <3>3
    <2> QED BY <2>4, <2>5, NextIsCallOrRuntime
  <1> QED BY <1>3, <1>4

LEMMA InitPublishedInv == OwnSlugs /\ UniqueSlugs /\ Init => PublishedInv
  <1> SUFFICES ASSUME OwnSlugs, UniqueSlugs, Init PROVE PublishedInv
    OBVIOUS
  <1>1. BindingInv /\ teams \in [TeamIDs -> Teams]
    BY InitBindingInv DEF BindingInv, TeamInv, TeamTypeOK
  <1>2. SlugsDiffer
    BY <1>1 DEF Init, SlugsDiffer
  <1>3. \A w \in Workers : pc[w] = "idle"
    BY DEF Init, RuntimeInit
  <1>4. \A r \in Resources : obj[r].id = NoName
    BY NewAndGone DEF Init, RuntimeInit
  <1>5. IdsAreSound
    BY <1>3, <1>4, RuntimeAssumption DEF IdsAreSound, IdIsSound, Known, Live, TeamIDs
  <1> QED BY <1>1, <1>2, <1>3, <1>5 DEF PublishedInv, CreatesByName, CreateWindow

\* What ties the ID a CR publishes to the team it is bound to, given a server
\* that keeps slugs unique and names that are their own slugs.
THEOREM PublishedInvariant ==
  ASSUME OwnSlugs, UniqueSlugs
  PROVE  Spec => []PublishedInv
  <1>1. PublishedInv /\ [Next]_vars => PublishedInv'
    <2> SUFFICES ASSUME PublishedInv, [Next]_vars PROVE PublishedInv'
      OBVIOUS
    <2>1. BindingInv'
      <3>1. TeamInv'
        BY NextKeepsTeamInv DEF PublishedInv, BindingInv
      <3> QED BY <3>1, DeletingIsHeldStep, CreatingStaysUnbound, DeletingCopiesStep
              DEF PublishedInv, BindingInv
    <2> QED BY <2>1, SlugsStayDifferent, CreatesByNameStays, IdsStaySound DEF PublishedInv
  <1>2. Init => PublishedInv
    BY InitPublishedInv
  <1> QED BY <1>1, <1>2, PTL DEF Spec

\* The ID others take for a CR's team is never a live team other than the live
\* team the CR is bound to (team.go:206-210, 245-256), given the same: the
\* team a lost or late answer was about is the one its name finds again.
THEOREM TeamPublishesBound ==
  ASSUME OwnSlugs, UniqueSlugs
  PROVE  Spec => []PublishedTeamIsBound
  <1>1. PublishedInv => PublishedTeamIsBound
    BY DEF PublishedInv, IdsAreSound, IdIsSound, PublishedTeamIsBound
  <1> QED BY <1>1, PublishedInvariant, PTL

-----------------------------------------------------------------------------
(* No second team.                                                         *)

LEMMA NamesStayApplied ==
  ASSUME OneTeamInv, [Next]_vars
  PROVE  NamesAreApplied'
  <1> USE DEF OneTeamInv
  <1>0. LoopInv /\ TeamInv
    BY DEF TeamInv
  <1>1. ASSUME NEW r \in Resources, obj'[r].phase # "absent"
        PROVE  obj'[r].spec.name \in NamesFor(r)
    <2>1. obj[r] \in Objects
      BY <1>0 DEF LoopInv, RuntimeTypeOK
    <2>2. CASE obj'[r] = obj[r]
      BY <1>1, <2>2 DEF NamesAreApplied
    <2>3. ASSUME NEW m \in Manifests, m.r = r, obj'[r] = Applied(m)
          PROVE  obj'[r].spec.name \in NamesFor(r)
      BY <2>3, NewAndGone DEF NamesFor
    <2>4. CASE Revises(r, obj'[r])
      BY <1>1, <2>4 DEF Revises, NamesAreApplied
    <2>5. ASSUME NEW s \in Specs, UserEdit(r, s)
          PROVE  obj'[r].spec.name \in NamesFor(r)
      <3>1. obj[r].phase # "absent"
        BY <2>5 DEF UserEdit
      <3>2. obj'[r].spec.name = obj[r].spec.name
        BY <1>0, <1>1, <3>1, TeamNameStays, NewAndGone
      <3> QED BY <3>1, <3>2 DEF NamesAreApplied
    <2>6. CASE \E w \in Workers : Call(w)
      BY <1>0, <2>2, <2>6, CallCopies
    <2>7. CASE RuntimeOnly
      BY <1>0, <1>1, <2>2, <2>3, <2>4, <2>5, <2>7, WhoWrites, NewAndGone
    <2> QED BY <2>6, <2>7, NextIsCallOrRuntime
  <1>2. ASSUME NEW w \in Workers, cache'[w].phase # "absent"
        PROVE  cache'[w].spec.name \in NamesFor(Target[w])
    <2>1. Target[w] \in Resources
      BY RuntimeAssumption
    <2>2. cache'[w] = cache[w] \/ cache'[w] = obj'[Target[w]]
      BY <1>0, CallCopies, CacheFlow, NextIsCallOrRuntime
    <2> QED BY <1>1, <1>2, <2>1, <2>2 DEF NamesAreApplied
  <1>3. ASSUME NEW w \in Workers, pc'[w] \in Copied
        PROVE  cr'[w].spec.name \in NamesFor(Target[w])
    <2> DEFINE r == Target[w]
    <2>1. r \in Resources /\ obj[r] \in Objects /\ cache[w] \in Objects
      BY <1>0, RuntimeAssumption DEF LoopInv, RuntimeTypeOK
    <2>2. CASE pc[w] \in Copied /\ cr'[w].spec = cr[w].spec
      BY <2>2 DEF NamesAreApplied
    <2>3. CASE obj[r].phase # "absent" /\ cr'[w].spec = obj[r].spec
      BY <2>1, <2>3 DEF NamesAreApplied
    <2>4. CASE cache[w].phase # "absent" /\ cr'[w].spec = cache[w].spec
      BY <2>4 DEF NamesAreApplied
    <2>5. ASSUME NEW v \in Workers, Call(v)
          PROVE  pc[w] \in Copied /\ cr'[w].spec = cr[w].spec
      <3>1. CASE v = w
        <4>1. pc'[w] \in {"ensure", "post"}
          BY <1>0, <1>3, <2>5, <3>1, CallCopies DEF Successors, Copied
        <4>2. pc[w] \in {"observe", "create"}
          BY <1>0, <2>5, <3>1, <4>1, CallCopies, CallGoesOn DEF Successors
        <4> QED BY <1>0, <2>5, <3>1, <4>2, CallCopies DEF Copied
      <3> QED BY <1>0, <1>3, <2>5, <3>1, CallCopies
    <2>6. CASE RuntimeOnly
      <3>1. AfterEnsure(w) \in {"pend", "update", "status"} /\ pc'[w] \notin {"idle", "update", "status"}
        BY <1>3 DEF AfterEnsure, Copied
      <3>2. fresh[w] /\ pc[w] \in {"ensure", "pend"} => obj[r].phase # "absent"
        BY <1>0 DEF LoopInv, FreshAgrees, CopyIsSound, Early
      <3>3. /\ [cache[w] EXCEPT !.name = MetaName[r]].spec = cache[w].spec
            /\ [obj[r] EXCEPT !.fin = TRUE].spec = obj[r].spec
            /\ [obj[r] EXCEPT !.create = "pending"].spec = obj[r].spec
        BY <2>1 DEF Objects
      <3>4. \/ pc[w] \in Copied /\ cr'[w] = cr[w]
            \/ cache[w].phase # "absent" /\ cr'[w] = cache[w]
            \/ cache[w].phase # "absent" /\ cr'[w] = [cache[w] EXCEPT !.name = MetaName[r]]
            \/ /\ fresh[w] /\ pc[w] \in {"ensure", "pend"}
               /\ \/ cr'[w] = [obj[r] EXCEPT !.fin = TRUE]
                  \/ cr'[w] = [obj[r] EXCEPT !.create = "pending"]
        BY <1>0, <1>3, <2>6, <3>1, CopyFlow DEF Copied
      <3> QED BY <2>2, <2>3, <2>4, <3>2, <3>3, <3>4
    <2> QED BY <2>2, <2>5, <2>6, NextIsCallOrRuntime
  <1> QED BY <1>1, <1>2, <1>3 DEF NamesAreApplied

\* A POST takes effect before its client gives up, or not at all.
LEMMA NoneOnTheWay ==
  ASSUME TeamInv, ~SlowServer, [Next]_vars, \A t \in TeamIDs : teams[t].st # "sent"
  PROVE  \A t \in TeamIDs : teams'[t].st # "sent"
  <1> USE DEF TeamInv, TeamTypeOK
  <1>1. ASSUME NEW u \in TeamIDs, NEW o, o.st # "sent",
               teams' = teams \/ teams' = [teams EXCEPT ![u] = o]
        PROVE  \A t \in TeamIDs : teams'[t].st # "sent"
    BY <1>1
  <1>2. CASE UNCHANGED teams
    BY <1>2
  <1>3. ASSUME NEW w \in Workers, Post(w)
        PROVE  \A t \in TeamIDs : teams'[t].st # "sent"
    <2>1. UNCHANGED teams \/ \E u \in TeamIDs : Makes(w, u, "live")
      BY <1>3 DEF Post
    <2>2. [toTeamCreate(Target[w], cr[w].spec) EXCEPT !.st = "live"].st = "live"
      BY DEF toTeamCreate
    <2> QED BY <1>1, <1>2, <2>1, <2>2 DEF Makes
  <1>4. ASSUME NEW w \in Workers, Update(w) \/ Delete(w)
        PROVE  \A t \in TeamIDs : teams'[t].st # "sent"
    <2> DEFINE n == cr[w].name
               o == TeamUpdate(cr[w].spec, teams[n])
               p == [teams[n] EXCEPT !.st = "gone"]
    <2>1. /\ cr[w].spec \in Specs
          /\ Live(n) => n \in TeamIDs /\ teams[n] \in Teams /\ teams[n].st = "live"
      BY CopyFacts DEF Live
    <2>2. Live(n) => o.st # "sent" /\ p.st # "sent"
      BY <2>1, UpdatedIsTeam DEF Teams
    <2>3. \/ UNCHANGED teams
          \/ Live(n) /\ (teams' = [teams EXCEPT ![n] = o] \/ teams' = [teams EXCEPT ![n] = p])
      BY <1>4 DEF Update, Delete
    <2> HIDE DEF n, o, p
    <2> QED BY <1>1, <1>2, <2>1, <2>2, <2>3
  <1>5. ASSUME Others
        PROVE  \A t \in TeamIDs : teams'[t].st # "sent"
    <2>1. ASSUME NEW u \in TeamIDs
          PROVE  /\ [teams[u] EXCEPT !.st = IF UniqueSlugs /\ SlugTaken(teams[u].name)
                                            THEN "gone" ELSE "live"].st # "sent"
                 /\ [teams[u] EXCEPT !.st = "gone"].st # "sent"
                 /\ \A d, m : [teams[u] EXCEPT !.desc = d, !.max = m].st # "sent"
      BY DEF Teams
    <2>2. \A n : Made(n).st # "sent"
      BY DEF Made, Blank
    <2>3. ASSUME NEW u \in TeamIDs, Land(u) \/ ForeignDelete(u)
          PROVE  \A t \in TeamIDs : teams'[t].st # "sent"
      BY <1>1, <2>1, <2>3 DEF Land, ForeignDelete, OutOfBand
    <2>4. ASSUME NEW u \in TeamIDs, NEW n \in TeamNames, ForeignCreate(u, n)
          PROVE  \A t \in TeamIDs : teams'[t].st # "sent"
      BY <1>1, <2>2, <2>4 DEF ForeignCreate, OutOfBand
    <2>5. ASSUME NEW u \in TeamIDs, NEW d \in Descs, NEW m \in Maxs \cup {Unset}, ForeignEdit(u, d, m)
          PROVE  \A t \in TeamIDs : teams'[t].st # "sent"
      BY <1>1, <2>1, <2>5 DEF ForeignEdit, OutOfBand
    <2> QED BY <1>5, <2>3, <2>4, <2>5 DEF Others
  <1>6. \/ UNCHANGED teams \/ Others
        \/ \E w \in Workers : Post(w) \/ Update(w) \/ Delete(w)
    BY DEF Next, Controller, Call, Observe, Resolve, Adopt, Humans, Faults, vars, teamVars
  <1> QED BY <1>2, <1>3, <1>4, <1>5, <1>6

\* Only a loop that posts makes a team for its CR.
LEMMA NewTeamIsPosted ==
  ASSUME TeamInv, OwnTeams, [Next]_vars, NEW t \in TeamIDs, LiveNext(t), ~Live(t),
         teams'[t].by \in Resources
  PROVE  \E w \in Workers : /\ Post(w) /\ teams'[t].name = cr[w].spec.name
                            /\ teams'[t].by = Target[w]
  BY WhoMakes, TeamAssumption DEF OwnTeams

LEMMA OwnTeamsStep ==
  ASSUME Undivided, OneTeamInv, [Next]_vars
  PROVE  OwnTeams'
  <1> USE DEF OneTeamInv
  <1>1. \A t \in TeamIDs : teams'[t].st # "sent"
    BY NoneOnTheWay DEF OwnTeams, Undivided
  <1>2. ASSUME NEW t \in TeamIDs, Live(t)
        PROVE  teams'[t].name = teams[t].name /\ teams'[t].by = teams[t].by
    <2>1. TeamsGrow
      BY TeamsStep DEF TeamInv
    <2> QED BY <1>2, <2>1 DEF TeamsGrow, Live
  <1>3. ASSUME NEW t \in TeamIDs, LiveNext(t), teams'[t].by \in Resources
        PROVE  teams'[t].name \in NamesFor(teams'[t].by)
    <2>1. CASE Live(t)
      BY <1>2, <1>3, <2>1 DEF OwnTeams, LiveTeams
    <2>2. CASE ~Live(t)
      <3>1. PICK w \in Workers : /\ Post(w) /\ teams'[t].name = cr[w].spec.name
                                 /\ teams'[t].by = Target[w]
        BY <1>3, <2>2, NewTeamIsPosted
      <3>2. pc[w] = "post"
        BY <3>1 DEF Post
      <3> QED BY <3>1, <3>2 DEF NamesAreApplied, Copied
    <2> QED BY <2>1, <2>2
  <1>4. ASSUME NEW t \in TeamIDs, NEW u \in TeamIDs, LiveNext(t), ~Live(t), LiveNext(u),
               teams'[t].by = teams'[u].by, teams'[t].by \in Resources
        PROVE  t = u
    <2> SUFFICES ASSUME t # u PROVE FALSE
      OBVIOUS
    <2>1. PICK w \in Workers : Post(w) /\ teams'[t].by = Target[w]
      BY <1>4, NewTeamIsPosted
    <2>2. teams'[u] = teams[u]
      BY <1>4, WhoMakes
    <2>3. u \in LiveTeams /\ teams[u].by = Target[w]
      BY <1>4, <2>1, <2>2 DEF LiveTeams, Live, LiveNext
    <2> QED BY <2>1, <2>3 DEF PostsAlone, Post
  <1>5. ASSUME NEW t \in TeamIDs, NEW u \in TeamIDs, LiveNext(t), LiveNext(u),
               teams'[t].by = teams'[u].by, teams'[t].by \in Resources
        PROVE  t = u
    BY <1>2, <1>4, <1>5 DEF OwnTeams, LiveTeams
  <1> QED BY <1>1, <1>3, <1>5 DEF OwnTeams, LiveTeams, Live, LiveNext

\* A complete list in which there is no match holds no team of the CR.
LEMMA NoMatchMeansNone ==
  ASSUME Undivided, OneTeamInv, NEW w \in Workers, pc[w] = "create",
         NEW P \in Pages, Matches(P, cr[w].spec.name) = {}, NEW t \in LiveTeams
  PROVE  teams[t].by # Target[w]
  <1> SUFFICES ASSUME teams[t].by = Target[w] PROVE FALSE
    OBVIOUS
  <1>1. IsFiniteSet(LiveTeams) /\ Cardinality(LiveTeams) <= Cardinality(TeamIDs)
    BY FS_Subset DEF LiveTeams, Undivided
  <1>2. Cardinality(LiveTeams) \in Nat /\ Cardinality(TeamIDs) \in Nat /\ ListLimit \in Nat
    BY <1>1, FS_CardinalityType, TeamAssumption DEF Undivided
  <1>3. Cardinality(LiveTeams) <= ListLimit
    BY <1>1, <1>2 DEF Undivided
  <1>4. P = LiveTeams
    <2>1. P \in SUBSET LiveTeams /\ Cardinality(P) = Cardinality(LiveTeams)
      BY <1>3 DEF Pages
    <2> QED BY <1>1, <2>1, FS_Subset
  <1>5. Target[w] \in Resources
    BY RuntimeAssumption
  <1>6. teams[t].name \in NamesFor(Target[w]) /\ cr[w].spec.name \in NamesFor(Target[w])
    BY <1>5 DEF OneTeamInv, OwnTeams, NamesAreApplied, Copied
  <1>7. teams[t].name = cr[w].spec.name
    BY <1>6 DEF NamesFor, Undivided
  <1>8. teams[t].name \in TeamNames
    BY DEF OneTeamInv, TeamInv, TeamTypeOK, Teams, LiveTeams
  <1> QED BY <1>4, <1>7, <1>8 DEF Matches, Undivided, OwnSlugs

LEMMA PostsStayAlone ==
  ASSUME Undivided, OneTeamInv, [Next]_vars
  PROVE  PostsAlone'
  <1> USE DEF OneTeamInv
  <1> SUFFICES ASSUME NEW w \in Workers, pc'[w] = "post",
                      NEW t \in TeamIDs, LiveNext(t), teams'[t].by = Target[w]
               PROVE  FALSE
    BY DEF PostsAlone, LiveTeams, Live, LiveNext
  <1>1. CASE Call(w)
    <2>1. /\ pc[w] = "create" /\ UNCHANGED teams
          /\ \E P \in Pages : Matches(P, cr[w].spec.name) = {}
      BY <1>1, CallGoesOn
    <2>2. t \in LiveTeams /\ teams[t].by = Target[w]
      BY <2>1 DEF LiveTeams, Live, LiveNext
    <2> QED BY <2>1, <2>2, NoMatchMeansNone
  <1>2. CASE ~Call(w)
    <2>1. pc[w] = "post"
      BY <1>2, WindowFlow DEF CreateWindow
    <2>2. CASE Live(t)
      <3>1. TeamsGrow
        BY TeamsStep DEF TeamInv
      <3>2. teams[t].by = Target[w]
        BY <2>2, <3>1 DEF TeamsGrow, Live
      <3> QED BY <2>1, <2>2, <3>2 DEF PostsAlone, LiveTeams
    <2>3. CASE ~Live(t)
      <3>1. Target[w] \in Resources
        BY RuntimeAssumption
      <3>2. PICK v \in Workers : Post(v) /\ teams'[t].by = Target[v]
        BY <2>3, <3>1, NewTeamIsPosted
      <3>3. v # w /\ Target[v] = Target[w] /\ pc[v] = "post"
        BY <1>2, <3>2 DEF Call, Post
      <3> QED BY <2>1, <3>3 DEF TeamInv, LoopInv, ExclusiveCreate, CreateWindow
    <2> QED BY <2>2, <2>3
  <1> QED BY <1>1, <1>2

LEMMA InitOneTeamInv == Init => OneTeamInv
  <1> SUFFICES ASSUME Init PROVE OneTeamInv
    OBVIOUS
  <1>1. TeamInv
    BY InitTeamInv
  <1>2. \A t \in TeamIDs : teams[t].st # "sent" /\ teams[t].by = Foreign
    <2>1. Blank.st # "sent" /\ Blank.by = Foreign
      BY DEF Blank
    <2>2. \A n : Made(n).st # "sent" /\ Made(n).by = Foreign
      BY DEF Made, Blank
    <2> QED BY <2>1, <2>2 DEF Init
  <1>3. \A r \in Resources : obj[r].spec.name \in NamesFor(r)
    BY NewAndGone DEF Init, RuntimeInit, NamesFor
  <1>4. \A w \in Workers : pc[w] = "idle" /\ cache[w] = obj[Target[w]] /\ Target[w] \in Resources
    BY RuntimeAssumption DEF Init, RuntimeInit
  <1> QED BY <1>1, <1>2, <1>3, <1>4, TeamAssumption
          DEF OneTeamInv, NamesAreApplied, Copied, OwnTeams, LiveTeams, PostsAlone

\* No CR ever has two teams of its own making (team.go:236-250): whatever answers
\* were lost and however often Create runs, the pre-check finds the first one.
\* It takes names that are their own slugs and stay with a CR, lists that are
\* complete, and a server that does nothing for a client that has given up.
THEOREM TeamNoSecond ==
  ASSUME Undivided
  PROVE  Spec => []NoSecondTeam
  <1>1. OneTeamInv /\ [Next]_vars => OneTeamInv'
    <2> SUFFICES ASSUME OneTeamInv, [Next]_vars PROVE OneTeamInv'
      OBVIOUS
    <2>1. TeamInv'
      BY NextKeepsTeamInv DEF OneTeamInv
    <2> QED BY <2>1, NamesStayApplied, OwnTeamsStep, PostsStayAlone DEF OneTeamInv
  <1>2. OneTeamInv => NoSecondTeam
    <2> SUFFICES ASSUME OneTeamInv, NEW r \in Resources
                 PROVE  Cardinality({t \in LiveTeams : teams[t].by = r}) <= 1
      BY DEF NoSecondTeam
    <2> DEFINE S == {t \in LiveTeams : teams[t].by = r}
    <2>1. \A t, u \in S : t = u
      BY DEF OneTeamInv, OwnTeams
    <2>2. S = {} \/ \E t : S = {t}
      BY <2>1
    <2> HIDE DEF S
    <2>3. Cardinality(S) = 0 \/ Cardinality(S) = 1
      BY <2>2, FS_EmptySet, FS_Singleton
    <2> QED BY <2>3 DEF S
  <1> QED BY <1>1, <1>2, InitOneTeamInv, PTL DEF Spec

==============================================================================
