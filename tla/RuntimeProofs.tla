----------------------------- MODULE RuntimeProofs -----------------------------
(***************************************************************************)
(* Proofs about the reconcile loop with any component that keeps to        *)
(* ExternalCall: for any number of CRs and processes, any crashes, any     *)
(* staleness of the cache.                                                 *)
(***************************************************************************)
EXTENDS ManagedReconciler, TLAPS

\* Steps at which the loop holds a copy of the CR it has not begun to create.
Early == {"observe", "ensure", "pend", "update", "put", "delete", "finalize"}

\* A loop inside Create has its pending annotation in the store, with the
\* finalizer.
WindowIsPending ==
    \A w \in Workers : pc[w] \in CreateWindow =>
        /\ obj[Target[w]].create = "pending"
        /\ obj[Target[w]].fin
        /\ obj[Target[w]].phase # "absent"

\* A fresh copy agrees with the store.
FreshAgrees ==
    \A w \in Workers : pc[w] \in Early /\ fresh[w] =>
        /\ cr[w].phase = obj[Target[w]].phase
        /\ cr[w].fin = obj[Target[w]].fin
        /\ cr[w].name = obj[Target[w]].name
        /\ cr[w].create = obj[Target[w]].create

\* What the loop's guards have established of the copy.
CopyIsSound ==
    \A w \in Workers :
        /\ pc[w] \in Early => cr[w].create # "pending" /\ cr[w].phase # "absent"
        /\ pc[w] = "pend" => cr[w].fin
        /\ pc[w] = "annotate" => plan[w] \in {"succeeded", "failed"}

LoopInv ==
    /\ RuntimeTypeOK
    /\ WindowIsPending
    /\ FreshAgrees
    /\ CopyIsSound
    /\ ExclusiveCreate

-----------------------------------------------------------------------------
LEMMA NothingIsObject == Nothing \in Objects
  BY RuntimeAssumption DEF Nothing, Objects, Names

LEMMA AppliedIsObject == \A m \in Manifests : Applied(m) \in Objects
  BY RuntimeAssumption DEF Applied, Objects, Names

LEMMA MetaNameIsName == \A r \in Resources : MetaName[r] \in Names
  BY DEF Names

\* What a write does to the types, and to the copies that stay fresh.
LEMMA StoreFacts ==
  ASSUME RuntimeTypeOK, NEW r \in Resources, NEW o \in Objects, Store(r, o)
  PROVE  /\ obj' \in [Resources -> Objects]
         /\ cache' \in [Workers -> Objects]
         /\ obj'[r] = o
         /\ \A q \in Resources : q # r => obj'[q] = obj[q]
  BY DEF Store, RuntimeTypeOK

LEMMA FreshFacts ==
  ASSUME RuntimeTypeOK, NEW r \in Resources, NEW o \in Objects, Store(r, o)
  PROVE  /\ StillFresh(r, o) \in [Workers -> BOOLEAN]
         /\ \A v \in Workers : StillFresh(r, o)[v] =>
                fresh[v] /\ obj'[Target[v]] = obj[Target[v]]
  BY RuntimeAssumption DEF Store, RuntimeTypeOK, StillFresh

\* A write that keeps the creation annotation, the phase and the finalizer.
LEMMA WindowKept ==
  ASSUME RuntimeTypeOK, WindowIsPending, NEW r \in Resources, NEW o \in Objects,
         Store(r, o),
         o.create = obj[r].create, o.phase = obj[r].phase, obj[r].fin => o.fin,
         \A v \in Workers : pc'[v] \in CreateWindow => pc[v] \in CreateWindow
  PROVE  WindowIsPending'
  <1> SUFFICES ASSUME NEW v \in Workers, pc'[v] \in CreateWindow
               PROVE  /\ obj'[Target[v]].create = "pending"
                      /\ obj'[Target[v]].fin
                      /\ obj'[Target[v]].phase # "absent"
    BY DEF WindowIsPending
  <1>1. /\ obj[Target[v]].create = "pending"
        /\ obj[Target[v]].fin
        /\ obj[Target[v]].phase # "absent"
    BY DEF WindowIsPending
  <1>2. Target[v] \in Resources
    BY RuntimeAssumption
  <1>3. obj'[r] = o /\ \A q \in Resources : q # r => obj'[q] = obj[q]
    BY StoreFacts
  <1> QED BY <1>1, <1>2, <1>3

LEMMA InitLoopInv == RuntimeInit => LoopInv
  <1> SUFFICES ASSUME RuntimeInit PROVE LoopInv
    OBVIOUS
  <1>1. RuntimeTypeOK
    BY RuntimeAssumption, NothingIsObject, AppliedIsObject
    DEF RuntimeInit, RuntimeTypeOK, Steps, Plans
  <1>2. \A w \in Workers : pc[w] = "idle"
    BY DEF RuntimeInit
  <1> QED
    BY <1>1, <1>2 DEF LoopInv, WindowIsPending, FreshAgrees, CopyIsSound,
                     ExclusiveCreate, Early, CreateWindow

LEMMA StartKeeps ==
  ASSUME LoopInv, NEW w \in Workers, Start(w)
  PROVE  LoopInv'
  <1> DEFINE r == Target[w]
             named == [cache[w] EXCEPT !.name = MetaName[r]]
  <1> USE DEF LoopInv
  <1>1. r \in Resources /\ cache[w] \in Objects /\ named \in Objects
    <2>1. r \in Resources /\ cache[w] \in Objects
      BY RuntimeAssumption DEF RuntimeTypeOK
    <2>2. MetaName[r] \in Names
      BY <2>1, MetaNameIsName
    <2> QED BY <2>1, <2>2 DEF Objects
  <1>2. CASE cache[w].name = NoName /\ NameAsExternalName
    <2>1. Store(r, named) /\ cache[w] = obj[r]
      BY <1>2 DEF Start
    <2>2. pc' = [pc EXCEPT ![w] = "observe"] /\ cr' = [cr EXCEPT ![w] = named]
          /\ fresh' = [StillFresh(r, named) EXCEPT ![w] = TRUE]
          /\ plan' = [plan EXCEPT ![w] = "none"] /\ budget' = budget
          /\ cache[w].phase # "absent" /\ cache[w].create # "pending"
      BY <1>2 DEF Start, Goto
    <2>3. RuntimeTypeOK'
      BY <1>1, <2>1, <2>2, StoreFacts, FreshFacts DEF RuntimeTypeOK, Steps, Plans
    <2>4. WindowIsPending'
      <3>1. \A v \in Workers : pc'[v] \in CreateWindow => pc[v] \in CreateWindow
        BY <2>2 DEF CreateWindow, RuntimeTypeOK
      <3>2. named.create = obj[r].create /\ named.phase = obj[r].phase /\ named.fin = obj[r].fin
        BY <1>1, <2>1 DEF Objects
      <3> HIDE DEF named, r
      <3> QED BY <1>1, <2>1, <3>1, <3>2, WindowKept
    <2>5. FreshAgrees'
      BY <1>1, <2>1, <2>2, StoreFacts, FreshFacts DEF FreshAgrees, Early, RuntimeTypeOK, Objects
    <2>6. CopyIsSound' /\ ExclusiveCreate'
      BY <1>1, <2>1, <2>2 DEF CopyIsSound, ExclusiveCreate, Early, CreateWindow, RuntimeTypeOK, Objects
    <2> QED BY <2>3, <2>4, <2>5, <2>6
  <1>3. CASE ~(cache[w].name = NoName /\ NameAsExternalName)
    <2>1. pc' = [pc EXCEPT ![w] = "observe"] /\ cr' = [cr EXCEPT ![w] = cache[w]]
          /\ fresh' = [fresh EXCEPT ![w] = cache[w] = obj[r]]
          /\ plan' = [plan EXCEPT ![w] = "none"] /\ budget' = budget
          /\ obj' = obj /\ cache' = cache
          /\ cache[w].phase # "absent" /\ cache[w].create # "pending"
      BY <1>3 DEF Start, Goto, kubeVars
    <2>2. RuntimeTypeOK'
      BY <1>1, <2>1 DEF RuntimeTypeOK, Steps, Plans
    <2>3. WindowIsPending' /\ FreshAgrees'
      BY <1>1, <2>1 DEF WindowIsPending, FreshAgrees, CreateWindow, Early, RuntimeTypeOK
    <2>4. CopyIsSound' /\ ExclusiveCreate'
      BY <1>1, <2>1 DEF CopyIsSound, ExclusiveCreate, Early, CreateWindow, RuntimeTypeOK
    <2> QED BY <2>2, <2>3, <2>4
  <1> QED BY <1>2, <1>3

\* A write the API server refuses ends the loop.
LEMMA RefusedKeeps ==
  ASSUME LoopInv, NEW w \in Workers, Finish(w), UNCHANGED <<kubeVars, fresh>>, UNCHANGED budget
  PROVE  LoopInv'
  <1> USE DEF LoopInv
  <1>1. /\ obj' = obj /\ cache' = cache /\ fresh' = fresh /\ budget' = budget
        /\ pc' = [pc EXCEPT ![w] = "idle"] /\ cr' = [cr EXCEPT ![w] = Nothing]
        /\ plan' = [plan EXCEPT ![w] = "none"]
    BY DEF Finish, Goto, kubeVars
  <1>2. RuntimeTypeOK'
    BY <1>1, NothingIsObject DEF RuntimeTypeOK, Steps, Plans
  <1> QED BY <1>1, <1>2 DEF WindowIsPending, FreshAgrees, CopyIsSound, ExclusiveCreate,
                            Early, CreateWindow, RuntimeTypeOK

\* An Update of w's copy as o that keeps what the invariant reads, then step s.
LEMMA UpdateKeeps ==
  ASSUME LoopInv, NEW w \in Workers, NEW o \in Objects, NEW s \in Steps,
         UpdateCR(w, o, s), pc[w] \in Early,
         fresh[w] => /\ o.create = obj[Target[w]].create
                     /\ o.phase = obj[Target[w]].phase
                     /\ obj[Target[w]].fin => o.fin,
         s \notin CreateWindow,
         s = "pend" => o.fin
  PROVE  LoopInv'
  <1> DEFINE r == Target[w]
  <1> USE DEF LoopInv
  <1>1. r \in Resources
    BY RuntimeAssumption DEF RuntimeTypeOK
  <1>2. CASE fresh[w]
    <2>1. /\ Store(r, o) /\ pc' = [pc EXCEPT ![w] = s] /\ cr' = [cr EXCEPT ![w] = o]
          /\ fresh' = [StillFresh(r, o) EXCEPT ![w] = TRUE]
          /\ plan' = plan /\ budget' = budget
      BY <1>2 DEF UpdateCR, Goto
    <2>2. o.create # "pending" /\ o.phase # "absent"
      BY <1>2 DEF FreshAgrees, CopyIsSound
    <2>3. RuntimeTypeOK'
      BY <1>1, <2>1, StoreFacts, FreshFacts DEF RuntimeTypeOK
    <2>4. \A v \in Workers : pc'[v] \in CreateWindow => pc[v] \in CreateWindow
      BY <2>1 DEF RuntimeTypeOK
    <2>5. WindowIsPending'
      <3> HIDE DEF r
      <3> QED BY <1>1, <1>2, <2>1, <2>4, WindowKept DEF r
    <2>6. FreshAgrees'
      BY <1>1, <2>1, StoreFacts, FreshFacts DEF FreshAgrees, RuntimeTypeOK
    <2>7. CopyIsSound' /\ ExclusiveCreate'
      BY <2>1, <2>2, <2>4 DEF CopyIsSound, ExclusiveCreate, RuntimeTypeOK, CreateWindow
    <2> QED BY <2>3, <2>5, <2>6, <2>7
  <1>3. CASE ~fresh[w]
    BY <1>3, RefusedKeeps DEF UpdateCR
  <1> QED BY <1>2, <1>3

LEMMA AddFinalizerKeeps ==
  ASSUME LoopInv, NEW w \in Workers, AddFinalizer(w)
  PROVE  LoopInv'
  <1> USE DEF LoopInv
  <1> DEFINE s == AfterEnsure(w)
             o == [obj[Target[w]] EXCEPT !.fin = TRUE]
  <1>1. s \in {"pend", "update", "status"} /\ pc[w] = "ensure"
    BY DEF AfterEnsure, AddFinalizer
  <1>2. CASE cr[w].fin
    <2>1. /\ pc' = [pc EXCEPT ![w] = s] /\ cr' = [cr EXCEPT ![w] = cr[w]]
          /\ obj' = obj /\ cache' = cache /\ fresh' = fresh /\ plan' = plan /\ budget' = budget
      BY <1>2 DEF AddFinalizer, Goto, kubeVars
    <2> HIDE DEF s
    <2>2. RuntimeTypeOK'
      BY <1>1, <2>1 DEF RuntimeTypeOK, Steps
    <2> QED BY <1>1, <1>2, <2>1, <2>2 DEF WindowIsPending, FreshAgrees, CopyIsSound,
                    ExclusiveCreate, Early, CreateWindow, RuntimeTypeOK
  <1>3. CASE ~cr[w].fin
    <2>1. obj[Target[w]] \in Objects
      BY RuntimeAssumption DEF RuntimeTypeOK
    <2>2. o \in Objects /\ o.create = obj[Target[w]].create /\ o.phase = obj[Target[w]].phase /\ o.fin
      BY <2>1 DEF Objects
    <2>3. UpdateCR(w, o, s)
      BY <1>3 DEF AddFinalizer
    <2>4. s \in Steps /\ s \notin CreateWindow /\ pc[w] \in Early
      BY <1>1 DEF Steps, CreateWindow, Early
    <2> HIDE DEF s, o
    <2> QED BY <2>2, <2>3, <2>4, UpdateKeeps
  <1> QED BY <1>2, <1>3

LEMMA SetPendingKeeps ==
  ASSUME LoopInv, NEW w \in Workers, SetPending(w)
  PROVE  LoopInv'
  <1> USE DEF LoopInv
  <1> DEFINE r == Target[w]
             o == [obj[r] EXCEPT !.create = "pending"]
  <1>1. r \in Resources /\ obj[r] \in Objects /\ pc[w] = "pend"
    BY RuntimeAssumption DEF RuntimeTypeOK, SetPending
  <1>2. o \in Objects /\ o.create = "pending" /\ o.phase = obj[r].phase /\ o.fin = obj[r].fin
    BY <1>1 DEF Objects
  <1>3. CASE fresh[w]
    <2>1. /\ Store(r, o) /\ pc' = [pc EXCEPT ![w] = "create"] /\ cr' = [cr EXCEPT ![w] = o]
          /\ fresh' = [StillFresh(r, o) EXCEPT ![w] = TRUE]
          /\ plan' = plan /\ budget' = budget
      BY <1>3 DEF SetPending, UpdateCR, Goto
    <2>2. obj[r].create # "pending" /\ obj[r].phase # "absent" /\ obj[r].fin
      BY <1>1, <1>3 DEF FreshAgrees, CopyIsSound, Early
    <2>3. \A v \in Workers : Target[v] = r => pc[v] \notin CreateWindow
      BY <2>2 DEF WindowIsPending
    <2>4. obj'[r] = o /\ \A q \in Resources : q # r => obj'[q] = obj[q]
      <3> HIDE DEF r, o
      <3> QED BY <1>1, <1>2, <2>1, StoreFacts
    <2>5. RuntimeTypeOK'
      <3> HIDE DEF r, o
      <3> QED BY <1>1, <1>2, <2>1, StoreFacts, FreshFacts DEF RuntimeTypeOK, Steps, CreateWindow
    <2>6. WindowIsPending'
      <3> SUFFICES ASSUME NEW v \in Workers, pc'[v] \in CreateWindow
                   PROVE  /\ obj'[Target[v]].create = "pending"
                          /\ obj'[Target[v]].fin
                          /\ obj'[Target[v]].phase # "absent"
        BY DEF WindowIsPending
      <3>1. CASE Target[v] = r
        BY <3>1, <1>2, <2>2, <2>4
      <3>2. CASE Target[v] # r
        <4>1. pc'[v] = pc[v] /\ Target[v] \in Resources
          BY <3>2, <2>1, RuntimeAssumption DEF RuntimeTypeOK
        <4> QED BY <3>2, <4>1, <2>4 DEF WindowIsPending
      <3> QED BY <3>1, <3>2
    <2>7. FreshAgrees'
      <3> HIDE DEF r, o
      <3> QED BY <1>1, <1>2, <2>1, StoreFacts, FreshFacts DEF FreshAgrees, Early, RuntimeTypeOK
    <2>8. CopyIsSound'
      BY <2>1 DEF CopyIsSound, Early, RuntimeTypeOK
    <2>9. ExclusiveCreate'
      BY <2>1, <2>3 DEF ExclusiveCreate, RuntimeTypeOK
    <2> QED BY <2>5, <2>6, <2>7, <2>8, <2>9
  <1>4. CASE ~fresh[w]
    BY <1>4, RefusedKeeps DEF SetPending, UpdateCR
  <1> QED BY <1>3, <1>4

\* The last write of a loop, when it is not outdated.
LEMMA FinalWriteFacts ==
  ASSUME LoopInv, NEW w \in Workers, NEW o \in Objects, fresh[w], UpdateAndFinish(w, o)
  PROVE  /\ Store(Target[w], o)
         /\ pc' = [pc EXCEPT ![w] = "idle"]
         /\ RuntimeTypeOK'
         /\ FreshAgrees'
         /\ CopyIsSound'
         /\ ExclusiveCreate'
  <1> USE DEF LoopInv
  <1> DEFINE r == Target[w]
  <1>1. /\ Store(r, o) /\ pc' = [pc EXCEPT ![w] = "idle"] /\ cr' = [cr EXCEPT ![w] = Nothing]
        /\ fresh' = [StillFresh(r, o) EXCEPT ![w] = FALSE]
        /\ plan' = [plan EXCEPT ![w] = "none"] /\ budget' = budget
    BY DEF UpdateAndFinish, Finish, Goto
  <1>2. r \in Resources
    BY RuntimeAssumption DEF RuntimeTypeOK
  <1>3. RuntimeTypeOK'
    BY <1>1, <1>2, StoreFacts, FreshFacts, NothingIsObject DEF RuntimeTypeOK, Steps, Plans
  <1>4. FreshAgrees'
    BY <1>1, <1>2, StoreFacts, FreshFacts DEF FreshAgrees, Early, RuntimeTypeOK
  <1>5. CopyIsSound' /\ ExclusiveCreate'
    BY <1>1 DEF CopyIsSound, ExclusiveCreate, Early, CreateWindow, RuntimeTypeOK
  <1> QED BY <1>1, <1>3, <1>4, <1>5

LEMMA UpdateStatusKeeps ==
  ASSUME LoopInv, NEW w \in Workers, UpdateStatus(w)
  PROVE  LoopInv'
  <1> USE DEF LoopInv
  <1> DEFINE r == Target[w]
             o == [obj[r] EXCEPT !.id = cr[w].id]
  <1>1. r \in Resources /\ obj[r] \in Objects /\ cr[w] \in Objects
    BY RuntimeAssumption DEF RuntimeTypeOK
  <1>2. o \in Objects /\ o.create = obj[r].create /\ o.phase = obj[r].phase /\ o.fin = obj[r].fin
    BY <1>1 DEF Objects
  <1>3. UpdateAndFinish(w, o)
    BY DEF UpdateStatus
  <1>4. CASE fresh[w]
    <2> HIDE DEF o
    <2>1. /\ Store(r, o)
          /\ pc' = [pc EXCEPT ![w] = "idle"]
          /\ RuntimeTypeOK' /\ FreshAgrees' /\ CopyIsSound' /\ ExclusiveCreate'
      BY <1>2, <1>3, <1>4, FinalWriteFacts
    <2>2. \A v \in Workers : pc'[v] \in CreateWindow => pc[v] \in CreateWindow
      BY <2>1 DEF RuntimeTypeOK, CreateWindow
    <2>3. WindowIsPending'
      <3> HIDE DEF r
      <3> QED BY <1>1, <1>2, <2>1, <2>2, WindowKept
    <2> QED BY <2>1, <2>3
  <1>5. CASE ~fresh[w]
    BY <1>3, <1>5, RefusedKeeps DEF UpdateAndFinish
  <1> QED BY <1>4, <1>5

\* A loop that removes the finalizer has a fresh copy that is not pending, so
\* no loop is inside the creation of the CR.
LEMMA RemovalIsQuiescent ==
  ASSUME LoopInv, NEW w \in Workers, RemoveFinalizer(w), fresh[w]
  PROVE  Quiescent(Target[w])
  <1>1. obj[Target[w]].create # "pending"
    BY DEF LoopInv, RemoveFinalizer, FreshAgrees, CopyIsSound, Early
  <1> QED BY <1>1 DEF LoopInv, WindowIsPending, Quiescent

LEMMA RemoveFinalizerKeeps ==
  ASSUME LoopInv, NEW w \in Workers, RemoveFinalizer(w)
  PROVE  LoopInv'
  <1> USE DEF LoopInv
  <1> DEFINE r == Target[w]
  <1>1. r \in Resources /\ UpdateAndFinish(w, Nothing)
    BY RuntimeAssumption DEF RemoveFinalizer
  <1>2. CASE fresh[w]
    <2>1. /\ Store(r, Nothing)
          /\ pc' = [pc EXCEPT ![w] = "idle"]
          /\ RuntimeTypeOK' /\ FreshAgrees' /\ CopyIsSound' /\ ExclusiveCreate'
      BY <1>1, <1>2, NothingIsObject, FinalWriteFacts
    <2>2. Quiescent(r)
      BY <1>2, RemovalIsQuiescent
    <2>3. WindowIsPending'
      <3> SUFFICES ASSUME NEW v \in Workers, pc'[v] \in CreateWindow
                   PROVE  obj'[Target[v]] = obj[Target[v]] /\ pc[v] \in CreateWindow
        BY DEF WindowIsPending
      <3>1. pc[v] \in CreateWindow
        BY <2>1 DEF RuntimeTypeOK, CreateWindow
      <3>2. Target[v] # r /\ Target[v] \in Resources
        BY <2>2, <3>1, RuntimeAssumption DEF Quiescent
      <3> QED BY <3>1, <3>2, <1>1, <2>1, NothingIsObject, StoreFacts
    <2> QED BY <2>1, <2>3
  <1>3. CASE ~fresh[w]
    BY <1>1, <1>3, RefusedKeeps DEF UpdateAndFinish
  <1> QED BY <1>2, <1>3

LEMMA AnnotateKeeps ==
  ASSUME LoopInv, NEW w \in Workers, Annotate(w)
  PROVE  LoopInv'
  <1> USE DEF LoopInv
  <1> DEFINE r == Target[w]
             o == [obj[r] EXCEPT !.name = cr[w].name, !.create = plan[w]]
  <1>1. /\ pc[w] = "annotate" /\ r \in Resources /\ obj[r] \in Objects /\ cr[w] \in Objects
        /\ obj[r].phase # "absent"
        /\ plan[w] \in {"succeeded", "failed"}
    BY RuntimeAssumption DEF RuntimeTypeOK, Annotate, WindowIsPending, CopyIsSound, CreateWindow
  <1>2. o \in Objects
    BY <1>1 DEF Objects
  <1>3. /\ Store(r, o) /\ pc' = [pc EXCEPT ![w] = "status"] /\ cr' = [cr EXCEPT ![w] = o]
        /\ fresh' = [StillFresh(r, o) EXCEPT ![w] = TRUE]
        /\ plan' = plan /\ budget' = budget
    BY <1>1 DEF Annotate, Goto
  <1> HIDE DEF o
  <1>4. RuntimeTypeOK'
    BY <1>1, <1>2, <1>3, StoreFacts, FreshFacts DEF RuntimeTypeOK, Steps
  <1>5. FreshAgrees'
    BY <1>1, <1>2, <1>3, StoreFacts, FreshFacts DEF FreshAgrees, Early, RuntimeTypeOK
  <1>6. CopyIsSound' /\ ExclusiveCreate'
    BY <1>1, <1>3 DEF CopyIsSound, ExclusiveCreate, Early, CreateWindow, RuntimeTypeOK
  <1>7. WindowIsPending'
    <2> SUFFICES ASSUME NEW v \in Workers, pc'[v] \in CreateWindow
                 PROVE  obj'[Target[v]] = obj[Target[v]] /\ pc[v] \in CreateWindow
      BY DEF WindowIsPending
    <2>1. v # w /\ pc[v] \in CreateWindow
      BY <1>3 DEF RuntimeTypeOK, CreateWindow
    <2>2. Target[v] # r /\ Target[v] \in Resources
      BY <2>1, <1>1, RuntimeAssumption DEF ExclusiveCreate, CreateWindow
    <2> QED BY <2>1, <2>2, <1>1, <1>2, <1>3, StoreFacts
  <1> QED BY <1>4, <1>5, <1>6, <1>7

LEMMA AnnotateLostKeeps ==
  ASSUME LoopInv, NEW w \in Workers, AnnotateLost(w)
  PROVE  LoopInv'
  <1> USE DEF LoopInv
  <1>1. /\ obj' = obj /\ cache' = cache /\ fresh' = fresh /\ plan' = plan
        /\ pc' = [pc EXCEPT ![w] = "status"] /\ cr' = [cr EXCEPT ![w] = cr[w]]
        /\ budget > 0 /\ budget' = budget - 1
    BY DEF AnnotateLost, Goto, Disrupt, kubeVars
  <1>2. RuntimeTypeOK'
    BY <1>1, RuntimeAssumption DEF RuntimeTypeOK, Steps
  <1> QED BY <1>1, <1>2 DEF WindowIsPending, FreshAgrees, CopyIsSound, ExclusiveCreate,
                            Early, CreateWindow, RuntimeTypeOK

LEMMA LoopKeeps ==
  ASSUME LoopInv, NEW w \in Workers, Loop(w)
  PROVE  LoopInv'
  BY StartKeeps, AddFinalizerKeeps, SetPendingKeeps, AnnotateKeeps, AnnotateLostKeeps,
     UpdateStatusKeeps, RemoveFinalizerKeeps DEF Loop

LEMMA ExternalCallKeeps ==
  ASSUME LoopInv, NEW w \in Workers, ExternalCall(w)
  PROVE  LoopInv'
  <1> USE DEF LoopInv
  <1>1. PICK s \in Successors(pc[w], cr[w]), n \in Names, i \in Names :
          /\ Goto(w, s, [cr[w] EXCEPT !.name = n, !.id = i])
          /\ n # cr[w].name => pc[w] \in CreateWindow
    BY DEF ExternalCall
  <1>2. PICK p \in Plans : plan' = [plan EXCEPT ![w] = p]
    BY DEF ExternalCall
  <1> DEFINE c == [cr[w] EXCEPT !.name = n, !.id = i]
  <1>3. /\ obj' = obj /\ cache' = cache /\ fresh' = fresh
        /\ pc' = [pc EXCEPT ![w] = s] /\ cr' = [cr EXCEPT ![w] = c]
        /\ pc'[w] = "annotate" => plan'[w] \in {"succeeded", "failed"}
    BY <1>1 DEF ExternalCall, Goto, kubeVars
  <1>4. cr[w] \in Objects /\ c \in Objects /\ c.phase = cr[w].phase /\ c.fin = cr[w].fin
        /\ c.create = cr[w].create /\ c.name = n
    BY DEF RuntimeTypeOK, Objects
  <1>5. /\ pc[w] \in CreateWindow => s \in CreateWindow
        /\ s \in CreateWindow => pc[w] \in CreateWindow
        /\ pc[w] \notin CreateWindow => pc[w] \in Early
        /\ s \in Steps /\ s # "pend"
    BY DEF Successors, CreateWindow, Early, Steps, RuntimeTypeOK
  <1>6. budget' \in 0 .. MaxDisruptions
    BY RuntimeAssumption DEF ExternalCall, Disrupt, RuntimeTypeOK
  <1> HIDE DEF c
  <1>7. RuntimeTypeOK'
    BY <1>2, <1>3, <1>4, <1>5, <1>6 DEF RuntimeTypeOK
  <1>8. WindowIsPending' /\ ExclusiveCreate'
    BY <1>3, <1>5 DEF WindowIsPending, ExclusiveCreate, RuntimeTypeOK
  <1>9. FreshAgrees'
    BY <1>1, <1>3, <1>4, <1>5 DEF FreshAgrees, Early, CreateWindow, RuntimeTypeOK
  <1>10. CopyIsSound'
    BY <1>2, <1>3, <1>4, <1>5 DEF CopyIsSound, Early, CreateWindow, RuntimeTypeOK
  <1> QED BY <1>7, <1>8, <1>9, <1>10

LEMMA FaultsKeep ==
  ASSUME LoopInv,
         (\E S \in SUBSET Workers : Interrupt(S)) \/ (\E w \in Workers : CacheSync(w)) \/ Elsewhere
  PROVE  LoopInv'
  <1> USE DEF LoopInv
  <1>1. ASSUME NEW S \in SUBSET Workers, Interrupt(S)
        PROVE  LoopInv'
    <2>1. /\ obj' = obj /\ cache' = cache /\ budget' \in 0 .. MaxDisruptions
          /\ pc' = [w \in Workers |-> IF w \in S THEN "idle" ELSE pc[w]]
          /\ cr' = [w \in Workers |-> IF w \in S THEN Nothing ELSE cr[w]]
          /\ fresh' = [w \in Workers |-> w \notin S /\ fresh[w]]
          /\ plan' = [w \in Workers |-> IF w \in S THEN "none" ELSE plan[w]]
      BY <1>1, RuntimeAssumption DEF Interrupt, Disrupt, kubeVars, RuntimeTypeOK
    <2>2. RuntimeTypeOK'
      BY <2>1, NothingIsObject DEF RuntimeTypeOK, Steps, Plans
    <2> QED BY <2>1, <2>2 DEF WindowIsPending, FreshAgrees, CopyIsSound, ExclusiveCreate,
                              Early, CreateWindow, RuntimeTypeOK
  <1>2. ASSUME NEW w \in Workers, CacheSync(w)
        PROVE  LoopInv'
    <2>1. /\ cache' = [cache EXCEPT ![w] = obj[Target[w]]]
          /\ obj' = obj /\ pc' = pc /\ cr' = cr /\ fresh' = fresh
          /\ plan' = plan /\ budget' = budget /\ obj[Target[w]] \in Objects
      BY <1>2, RuntimeAssumption DEF CacheSync, RuntimeTypeOK
    <2> QED BY <2>1 DEF RuntimeTypeOK, WindowIsPending, FreshAgrees, CopyIsSound, ExclusiveCreate
  <1>3. ASSUME Elsewhere
        PROVE  LoopInv'
    <2>1. /\ obj' = obj /\ cache' = cache /\ pc' = pc /\ cr' = cr /\ fresh' = fresh
          /\ plan' = plan /\ budget' \in 0 .. MaxDisruptions
      BY <1>3, RuntimeAssumption DEF Elsewhere, Disrupt, kubeVars, loopVars, RuntimeTypeOK
    <2> QED BY <2>1 DEF RuntimeTypeOK, WindowIsPending, FreshAgrees, CopyIsSound, ExclusiveCreate
  <1> QED BY <1>1, <1>2, <1>3

\* What a person writes disturbs nothing but the types and the stored CR.
LEMMA HumanWriteKeeps ==
  ASSUME LoopInv, NEW r \in Resources, NEW o \in Objects, HumanWrite(r, o),
         budget' \in 0 .. MaxDisruptions
  PROVE  /\ Store(r, o)
         /\ pc' = pc
         /\ RuntimeTypeOK' /\ FreshAgrees' /\ CopyIsSound' /\ ExclusiveCreate'
         /\ Quiescent(r) => WindowIsPending'
  <1> USE DEF LoopInv
  <1>1. /\ Store(r, o) /\ pc' = pc /\ cr' = cr /\ plan' = plan /\ fresh' = StillFresh(r, o)
    BY DEF HumanWrite
  <1>2. RuntimeTypeOK'
    BY <1>1, StoreFacts, FreshFacts DEF RuntimeTypeOK
  <1>3. FreshAgrees'
    BY <1>1, StoreFacts, FreshFacts DEF FreshAgrees
  <1>4. CopyIsSound' /\ ExclusiveCreate'
    BY <1>1 DEF CopyIsSound, ExclusiveCreate
  <1>5. ASSUME Quiescent(r) PROVE WindowIsPending'
    <2> SUFFICES ASSUME NEW v \in Workers, pc'[v] \in CreateWindow
                 PROVE  obj'[Target[v]] = obj[Target[v]]
      BY <1>1 DEF WindowIsPending
    <2>1. Target[v] # r /\ Target[v] \in Resources
      BY <1>1, <1>5, RuntimeAssumption DEF Quiescent
    <2> QED BY <2>1, <1>1, StoreFacts
  <1> QED BY <1>1, <1>2, <1>3, <1>4, <1>5

LEMMA HumansKeep ==
  ASSUME LoopInv, NEW r \in Resources,
         \/ \E m \in Manifests : m.r = r /\ UserCreate(m)
         \/ UserDelete(r) \/ OperatorClear(r)
         \/ \E s \in Specs : UserEdit(r, s)
  PROVE  LoopInv'
  <1> USE DEF LoopInv
  <1>1. obj[r] \in Objects /\ budget \in 0 .. MaxDisruptions /\ MaxDisruptions \in Nat
    BY RuntimeAssumption DEF RuntimeTypeOK
  <1>2. Disrupt => budget' \in 0 .. MaxDisruptions
    BY <1>1 DEF Disrupt
  <1>3. ASSUME NEW o \in Objects, HumanWrite(r, o), budget' \in 0 .. MaxDisruptions,
               o.create = obj[r].create, o.phase \in {obj[r].phase, "deleting"},
               o.fin = obj[r].fin
        PROVE  WindowIsPending'
    <2>1. Store(r, o) /\ pc' = pc
      BY <1>3, HumanWriteKeeps
    <2>2. obj'[r] = o /\ \A q \in Resources : q # r => obj'[q] = obj[q]
      BY <2>1, <1>3, StoreFacts
    <2> SUFFICES ASSUME NEW v \in Workers, pc[v] \in CreateWindow
                 PROVE  /\ obj'[Target[v]].create = "pending"
                        /\ obj'[Target[v]].fin
                        /\ obj'[Target[v]].phase # "absent"
      BY <2>1 DEF WindowIsPending
    <2>3. /\ obj[Target[v]].create = "pending" /\ obj[Target[v]].fin
          /\ obj[Target[v]].phase # "absent" /\ Target[v] \in Resources
      BY RuntimeAssumption DEF WindowIsPending
    <2> QED BY <2>2, <2>3, <1>3
  <1>4. ~(obj[r].phase # "absent" /\ obj[r].fin /\ obj[r].create = "pending") => Quiescent(r)
    BY DEF WindowIsPending, Quiescent
  <1>5. ASSUME NEW m \in Manifests, m.r = r, UserCreate(m)
        PROVE  LoopInv'
    <2>1. obj[r].phase = "absent" /\ HumanWrite(r, Applied(m)) /\ budget' \in 0 .. MaxDisruptions
      BY <1>5, <1>2 DEF UserCreate
    <2> QED BY <2>1, <1>4, AppliedIsObject, HumanWriteKeeps
  <1>6. CASE UserDelete(r)
    <2> DEFINE o == [obj[r] EXCEPT !.phase = "deleting"]
    <2>1. budget' \in 0 .. MaxDisruptions
          /\ HumanWrite(r, IF obj[r].fin THEN o ELSE Nothing)
      BY <1>6, <1>2 DEF UserDelete
    <2>2. CASE obj[r].fin
      <3>1. o \in Objects /\ o.create = obj[r].create /\ o.phase = "deleting" /\ o.fin = obj[r].fin
        BY <1>1 DEF Objects
      <3>2. HumanWrite(r, o)
        BY <2>1, <2>2
      <3> HIDE DEF o
      <3>3. WindowIsPending'
        BY <3>1, <3>2, <2>1, <2>2, <1>3, HumanWriteKeeps
      <3> QED BY <3>1, <3>2, <3>3, <2>1, HumanWriteKeeps
    <2>3. CASE ~obj[r].fin
      <3>1. HumanWrite(r, Nothing)
        BY <2>1, <2>3
      <3> QED BY <3>1, <2>1, <2>3, <1>4, NothingIsObject, HumanWriteKeeps
    <2> QED BY <2>2, <2>3
  <1>7. CASE OperatorClear(r)
    <2> DEFINE o == [obj[r] EXCEPT !.create = "none"]
    <2>1. o \in Objects
      BY <1>1 DEF Objects
    <2>2. HumanWrite(r, o) /\ Quiescent(r) /\ budget' \in 0 .. MaxDisruptions
      BY <1>7, <1>1 DEF OperatorClear, Frozen
    <2> HIDE DEF o
    <2> QED BY <2>1, <2>2, HumanWriteKeeps
  <1>8. ASSUME NEW s \in Specs, UserEdit(r, s)
        PROVE  LoopInv'
    <2> DEFINE o == [obj[r] EXCEPT !.spec = s]
    <2>1. o \in Objects /\ o.create = obj[r].create /\ o.phase = obj[r].phase /\ o.fin = obj[r].fin
      BY <1>1 DEF Objects
    <2>2. HumanWrite(r, o) /\ budget' \in 0 .. MaxDisruptions
      BY <1>8, <1>2 DEF UserEdit
    <2> HIDE DEF o
    <2>3. WindowIsPending'
      BY <2>1, <2>2, <1>3
    <2> QED BY <2>1, <2>2, <2>3, HumanWriteKeeps
  <1> QED BY <1>5, <1>6, <1>7, <1>8

LEMMA NextKeepsLoopInv ==
  ASSUME LoopInv, [RuntimeNext]_runtimeVars
  PROVE  LoopInv'
  <1>1. CASE RuntimeNext
    <2>1. \A m \in Manifests : m.r \in Resources
      BY RuntimeAssumption
    <2> QED BY <1>1, <2>1, ExternalCallKeeps, LoopKeeps, FaultsKeep, HumansKeep DEF RuntimeNext
  <1>2. CASE UNCHANGED runtimeVars
    BY <1>2 DEF LoopInv, runtimeVars, RuntimeTypeOK, WindowIsPending, FreshAgrees,
                CopyIsSound, ExclusiveCreate
  <1> QED BY <1>1, <1>2

THEOREM LoopInvariant == RuntimeSpec => []LoopInv
  <1>1. LoopInv /\ [RuntimeNext]_runtimeVars => LoopInv'
    BY NextKeepsLoopInv
  <1> QED BY <1>1, InitLoopInv, PTL DEF RuntimeSpec

-----------------------------------------------------------------------------
\* The loop's state is well typed for any component that keeps to ExternalCall.
THEOREM RuntimeTypeCorrect == RuntimeSpec => []RuntimeTypeOK
  <1>1. LoopInv => RuntimeTypeOK
    BY DEF LoopInv
  <1> QED BY <1>1, LoopInvariant, PTL

\* Creation is exclusive: an outdated copy cannot be marked pending, and a
\* pending CR is not reconciled, so the annotation works as a lock per CR.
THEOREM CreationIsExclusive == RuntimeSpec => []ExclusiveCreate
  <1>1. LoopInv => ExclusiveCreate
    BY DEF LoopInv
  <1> QED BY <1>1, LoopInvariant, PTL

\* A write of CR copy o leaves a finalizer of r that o keeps.
LEMMA StoreKeepsFinalizer ==
  ASSUME RuntimeTypeOK, NEW q \in Resources, NEW r \in Resources, NEW o, Store(q, o),
         q = r => o.fin, obj[r].fin
  PROVE  obj'[r].fin
  BY DEF Store, RuntimeTypeOK

LEMMA UpdateKeepsFinalizer ==
  ASSUME RuntimeTypeOK, NEW w \in Workers, NEW o, NEW s, UpdateCR(w, o, s),
         NEW r \in Resources, Target[w] = r => o.fin, obj[r].fin
  PROVE  obj'[r].fin
  BY StoreKeepsFinalizer, RuntimeAssumption DEF UpdateCR, kubeVars

LEMMA LoopKeepsFinalizer ==
  ASSUME LoopInv, NEW w \in Workers, Loop(w), NEW r \in Resources, LosesFinalizer(r)
  PROVE  RemoveFinalizer(w) /\ fresh[w] /\ Target[w] = r
  <1>0. obj[r].fin /\ ~obj'[r].fin
    BY DEF LosesFinalizer
  <1> USE DEF LoopInv
  <1> DEFINE q == Target[w]
  <1>1. q \in Resources /\ obj[q] \in Objects /\ cache[w] \in Objects
    BY RuntimeAssumption DEF RuntimeTypeOK
  <1>2. CASE Start(w)
    <2>1. \/ obj' = obj
          \/ cache[w] = obj[q] /\ Store(q, [cache[w] EXCEPT !.name = MetaName[q]])
      BY <1>2 DEF Start, kubeVars
    <2>2. cache[w] = obj[q] => [cache[w] EXCEPT !.name = MetaName[q]].fin = obj[q].fin
      BY <1>1 DEF Objects
    <2> QED BY <2>1, <2>2, <1>1, StoreKeepsFinalizer, <1>0
  <1>3. CASE AddFinalizer(w)
    <2>1. [obj[q] EXCEPT !.fin = TRUE].fin
      BY <1>1 DEF Objects
    <2> QED BY <1>3, <2>1, UpdateKeepsFinalizer, <1>0 DEF AddFinalizer, kubeVars
  <1>4. CASE SetPending(w)
    <2> DEFINE o == [obj[q] EXCEPT !.create = "pending"]
    <2>1. q = r => o.fin
      BY <1>0, <1>1 DEF Objects
    <2>2. UpdateCR(w, o, "create")
      BY <1>4 DEF SetPending
    <2> HIDE DEF o
    <2> QED BY <2>1, <2>2, UpdateKeepsFinalizer, <1>0
  <1>5. CASE Annotate(w) \/ AnnotateLost(w)
    <2>1. [obj[q] EXCEPT !.name = cr[w].name, !.create = plan[w]].fin = obj[q].fin
      BY <1>1 DEF Objects
    <2> QED BY <1>5, <2>1, <1>1, StoreKeepsFinalizer, <1>0 DEF Annotate, AnnotateLost, kubeVars
  <1>6. CASE UpdateStatus(w)
    <2>1. [obj[q] EXCEPT !.id = cr[w].id].fin = obj[q].fin
      BY <1>1 DEF Objects
    <2>2. obj' = obj \/ Store(q, [obj[q] EXCEPT !.id = cr[w].id])
      BY <1>6 DEF UpdateStatus, UpdateAndFinish, kubeVars
    <2> QED BY <2>1, <2>2, <1>1, StoreKeepsFinalizer, <1>0
  <1>7. CASE RemoveFinalizer(w)
    <2>1. fresh[w] /\ Store(q, Nothing)
      BY <1>0, <1>7 DEF RemoveFinalizer, UpdateAndFinish, kubeVars
    <2>2. q = r
      BY <2>1, <1>1, StoreKeepsFinalizer, <1>0
    <2> QED BY <1>7, <2>1, <2>2
  <1> QED BY <1>2, <1>3, <1>4, <1>5, <1>6, <1>7 DEF Loop

LEMMA HumansKeepFinalizer ==
  ASSUME LoopInv, NEW q \in Resources, NEW r \in Resources,
         \/ \E m \in Manifests : m.r = q /\ UserCreate(m)
         \/ UserDelete(q) \/ OperatorClear(q)
         \/ \E s \in Specs : UserEdit(q, s)
  PROVE  ~LosesFinalizer(r)
  <1> USE DEF LoopInv
  <1> SUFFICES ASSUME LosesFinalizer(r) PROVE FALSE
    OBVIOUS
  <1>1. obj[q] \in Objects /\ obj[r].phase # "absent" /\ obj[r].fin /\ ~obj'[r].fin
    BY DEF RuntimeTypeOK, LosesFinalizer
  <1>2. PICK o : Store(q, o)
    BY DEF UserCreate, UserDelete, OperatorClear, UserEdit, HumanWrite
  <1>3. q = r
    BY <1>1, <1>2, StoreKeepsFinalizer
  <1>4. \/ Store(q, [obj[q] EXCEPT !.phase = "deleting"])
        \/ Store(q, [obj[q] EXCEPT !.create = "none"])
        \/ \E s \in Specs : Store(q, [obj[q] EXCEPT !.spec = s])
    BY <1>1, <1>3 DEF UserCreate, UserDelete, OperatorClear, UserEdit, HumanWrite
  <1>5. /\ [obj[q] EXCEPT !.phase = "deleting"].fin
        /\ [obj[q] EXCEPT !.create = "none"].fin
        /\ \A s \in Specs : [obj[q] EXCEPT !.spec = s].fin
    BY <1>1, <1>3 DEF Objects
  <1>6. PICK p : Store(q, p) /\ p.fin
    BY <1>4, <1>5
  <1> QED BY <1>1, <1>6, StoreKeepsFinalizer

\* Only a loop with a fresh copy takes the finalizer of a CR.
LEMMA WhoLosesFinalizer ==
  ASSUME LoopInv, RuntimeNext, NEW r \in Resources, LosesFinalizer(r)
  PROVE  \E w \in Workers : RemoveFinalizer(w) /\ fresh[w] /\ Target[w] = r
  <1>1. obj' # obj
    BY DEF LosesFinalizer
  <1>2. \A w \in Workers : ExternalCall(w) \/ CacheSync(w) => obj' = obj
    BY DEF ExternalCall, CacheSync, kubeVars
  <1>3. (\E S \in SUBSET Workers : Interrupt(S)) \/ Elsewhere => obj' = obj
    BY DEF Interrupt, Elsewhere, kubeVars
  <1>4. \A m \in Manifests : m.r \in Resources
    BY RuntimeAssumption
  <1>5. \/ \E w \in Workers : Loop(w)
        \/ \E m \in Manifests : UserCreate(m)
        \/ \E q \in Resources : UserDelete(q) \/ OperatorClear(q)
        \/ \E q \in Resources, s \in Specs : UserEdit(q, s)
    BY <1>1, <1>2, <1>3 DEF RuntimeNext
  <1> QED BY <1>4, <1>5, LoopKeepsFinalizer, HumansKeepFinalizer

\* The finalizer stays as long as a loop is creating the CR's external object.
THEOREM FinalizerOutlastsCreate == RuntimeSpec => NoFinalizeDuringCreate
  <1>1. ASSUME LoopInv, RuntimeNext, NEW r \in Resources, LosesFinalizer(r)
        PROVE  Quiescent(r)
    BY <1>1, WhoLosesFinalizer, RemovalIsQuiescent
  <1>2. LoopInv /\ [RuntimeNext]_runtimeVars =>
          [\A r \in Resources : LosesFinalizer(r) => Quiescent(r)]_runtimeVars
    BY <1>1
  <1> QED BY <1>2, LoopInvariant, PTL DEF RuntimeSpec, NoFinalizeDuringCreate

-----------------------------------------------------------------------------
(* Steps that are not external calls.                                      *)

RuntimeOnly ==
    \/ \E w \in Workers : Loop(w) \/ CacheSync(w)
    \/ \E S \in SUBSET Workers : Interrupt(S)
    \/ \E m \in Manifests : UserCreate(m)
    \/ \E r \in Resources : UserDelete(r) \/ OperatorClear(r)
    \/ \E r \in Resources, s \in Specs : UserEdit(r, s)
    \/ UNCHANGED <<kubeVars, loopVars>>

\* They only move external-names around: the ones in the store, the cache and
\* the copies of the loops stay what a CR may be called.
LEMMA NamesFlow ==
  ASSUME LoopInv, NEW K,
         \A r \in Resources : NoName \in K[r] /\ MetaName[r] \in K[r],
         \A m \in Manifests : m.name \in K[m.r],
         \A r \in Resources : obj[r].name \in K[r],
         \A w \in Workers : cache[w].name \in K[Target[w]] /\ cr[w].name \in K[Target[w]],
         RuntimeOnly
  PROVE  /\ \A r \in Resources : obj'[r].name \in K[r]
         /\ \A w \in Workers : cache'[w].name \in K[Target[w]] /\ cr'[w].name \in K[Target[w]]
  <1> USE DEF LoopInv
  <1> DEFINE Goal == /\ \A r \in Resources : obj'[r].name \in K[r]
                     /\ \A w \in Workers : cache'[w].name \in K[Target[w]]
                                           /\ cr'[w].name \in K[Target[w]]
  <1>1. ASSUME NEW r \in Resources, NEW o, o.name \in K[r], Store(r, o)
        PROVE  /\ \A q \in Resources : obj'[q].name \in K[q]
               /\ \A v \in Workers : cache'[v].name \in K[Target[v]]
    BY <1>1 DEF Store, RuntimeTypeOK
  <1>2. ASSUME NEW w \in Workers, NEW s, NEW c, c.name \in K[Target[w]], Goto(w, s, c)
        PROVE  \A v \in Workers : cr'[v].name \in K[Target[v]]
    BY <1>2 DEF Goto, RuntimeTypeOK
  <1>4. \A w \in Workers : Target[w] \in Resources /\ obj[Target[w]] \in Objects
                           /\ cache[w] \in Objects /\ cr[w] \in Objects
    BY RuntimeAssumption DEF RuntimeTypeOK
  <1>3. /\ \A r \in Resources : Nothing.name \in K[r]
        /\ \A w \in Workers : Nothing.name \in K[Target[w]]
        /\ \A m \in Manifests : Applied(m).name \in K[m.r]
    BY <1>4 DEF Nothing, Applied
  <1>5. ASSUME NEW w \in Workers, Finish(w)
        PROVE  \A v \in Workers : cr'[v].name \in K[Target[v]]
    BY <1>2, <1>3, <1>5 DEF Finish
  <1>6. ASSUME NEW w \in Workers, NEW o, NEW s, UpdateCR(w, o, s), o.name \in K[Target[w]]
        PROVE  Goal
    BY <1>1, <1>2, <1>4, <1>5, <1>6 DEF UpdateCR, kubeVars
  <1>7. ASSUME NEW w \in Workers, NEW o, UpdateAndFinish(w, o), o.name \in K[Target[w]]
        PROVE  Goal
    BY <1>1, <1>4, <1>5, <1>7 DEF UpdateAndFinish, kubeVars
  <1> HIDE DEF Goal
  <1>8. ASSUME NEW w \in Workers, Start(w) PROVE Goal
    <2>1. [cache[w] EXCEPT !.name = MetaName[Target[w]]].name \in K[Target[w]]
      BY <1>4 DEF Objects
    <2> QED BY <1>1, <1>2, <1>4, <1>8, <2>1 DEF Start, Goal, kubeVars
  <1>9. ASSUME NEW w \in Workers, AddFinalizer(w) PROVE Goal
    <2>1. [obj[Target[w]] EXCEPT !.fin = TRUE].name \in K[Target[w]]
      BY <1>4 DEF Objects
    <2>2. CASE cr[w].fin
      BY <1>2, <1>9, <2>2 DEF AddFinalizer, Goal, kubeVars
    <2>3. CASE ~cr[w].fin
      BY <1>6, <1>9, <2>1, <2>3 DEF AddFinalizer
    <2> QED BY <2>2, <2>3
  <1>10. ASSUME NEW w \in Workers, SetPending(w) PROVE Goal
    <2>1. [obj[Target[w]] EXCEPT !.create = "pending"].name \in K[Target[w]]
      BY <1>4 DEF Objects
    <2> QED BY <1>6, <1>10, <2>1 DEF SetPending
  <1>11. ASSUME NEW w \in Workers, Annotate(w) \/ AnnotateLost(w) PROVE Goal
    <2>1. [obj[Target[w]] EXCEPT !.name = cr[w].name, !.create = plan[w]].name \in K[Target[w]]
      BY <1>4 DEF Objects
    <2> QED BY <1>1, <1>2, <1>4, <1>11, <2>1 DEF Annotate, AnnotateLost, Goal, kubeVars
  <1>12. ASSUME NEW w \in Workers, UpdateStatus(w) \/ RemoveFinalizer(w) PROVE Goal
    <2>1. [obj[Target[w]] EXCEPT !.id = cr[w].id].name \in K[Target[w]]
      BY <1>4 DEF Objects
    <2> QED BY <1>3, <1>7, <1>12, <2>1 DEF UpdateStatus, RemoveFinalizer
  <1>13. ASSUME NEW r \in Resources, NEW o, HumanWrite(r, o), o.name \in K[r] PROVE Goal
    BY <1>1, <1>13 DEF HumanWrite, Goal
  <1>14. ASSUME NEW r \in Resources,
                \/ UserDelete(r) \/ OperatorClear(r) \/ \E s \in Specs : UserEdit(r, s)
         PROVE  Goal
    <2>1. /\ [obj[r] EXCEPT !.phase = "deleting"].name \in K[r]
          /\ [obj[r] EXCEPT !.create = "none"].name \in K[r]
          /\ \A s \in Specs : [obj[r] EXCEPT !.spec = s].name \in K[r]
      BY DEF Objects, RuntimeTypeOK
    <2> QED BY <1>3, <1>13, <1>14, <2>1 DEF UserDelete, OperatorClear, UserEdit
  <1>15. ASSUME NEW m \in Manifests, UserCreate(m) PROVE Goal
    BY <1>3, <1>13, <1>15, RuntimeAssumption DEF UserCreate
  <1>16. ASSUME NEW S \in SUBSET Workers, Interrupt(S) PROVE Goal
    BY <1>3, <1>16 DEF Interrupt, Goal, kubeVars
  <1>17. ASSUME NEW w \in Workers, CacheSync(w) PROVE Goal
    BY <1>4, <1>17 DEF CacheSync, Goal, RuntimeTypeOK
  <1>18. CASE UNCHANGED <<kubeVars, loopVars>>
    BY <1>18 DEF Goal, kubeVars, loopVars
  <1> QED BY <1>8, <1>9, <1>10, <1>11, <1>12, <1>14, <1>15, <1>16, <1>17, <1>18
          DEF Loop, Goal, RuntimeOnly

\* Steps that only an external call takes a loop to.
CallSteps == {"post", "adopt", "annotate", "put", "delete", "finalize"}

LEMMA OnlyCallsReach ==
  ASSUME LoopInv, RuntimeOnly, NEW v \in Workers, pc'[v] \in CallSteps
  PROVE  pc[v] = pc'[v] /\ cr'[v] = cr[v] /\ (fresh'[v] => fresh[v])
  <1> USE DEF LoopInv
  <1>1. ASSUME NEW w \in Workers, NEW s, NEW c, Goto(w, s, c), s \notin CallSteps
        PROVE  v # w /\ pc[v] = pc'[v] /\ cr'[v] = cr[v]
    BY <1>1 DEF Goto, RuntimeTypeOK
  <1>2. ASSUME NEW w \in Workers, Loop(w)
        PROVE  \E s \in Steps \ CallSteps : \E c : Goto(w, s, c)
    <2>1. AfterEnsure(w) \in Steps \ CallSteps
      BY DEF AfterEnsure, Steps, CreateWindow, CallSteps
    <2> QED BY <1>2, <2>1 DEF Loop, Start, AddFinalizer, SetPending, Annotate, AnnotateLost,
                 UpdateStatus, RemoveFinalizer, UpdateCR, UpdateAndFinish, Finish, Steps,
                 CreateWindow, CallSteps
  <1>3. ASSUME NEW S \in SUBSET Workers, Interrupt(S)
        PROVE  pc[v] = pc'[v] /\ cr'[v] = cr[v] /\ (fresh'[v] => fresh[v])
    BY <1>3 DEF Interrupt, CallSteps
  <1>4. ASSUME NEW r, NEW o PROVE StillFresh(r, o)[v] => fresh[v]
    BY DEF StillFresh
  <1>5. ASSUME NEW w \in Workers, Loop(w), v # w PROVE fresh'[v] => fresh[v]
    <2>1. \/ fresh' = fresh
          \/ \E b \in BOOLEAN : fresh' = [fresh EXCEPT ![w] = b]
          \/ \E r, o : \E b \in BOOLEAN : fresh' = [StillFresh(r, o) EXCEPT ![w] = b]
      BY <1>5 DEF Loop, Start, AddFinalizer, SetPending, Annotate, AnnotateLost, UpdateStatus,
                  RemoveFinalizer, UpdateCR, UpdateAndFinish, kubeVars
    <2>2. \A r, o : DOMAIN StillFresh(r, o) = Workers
      BY DEF StillFresh
    <2> QED BY <1>4, <1>5, <2>1, <2>2 DEF RuntimeTypeOK
  <1>6. ASSUME NEW r, NEW o, HumanWrite(r, o)
        PROVE  pc[v] = pc'[v] /\ cr'[v] = cr[v] /\ (fresh'[v] => fresh[v])
    BY <1>4, <1>6 DEF HumanWrite
  <1> QED BY <1>1, <1>2, <1>3, <1>5, <1>6 DEF RuntimeOnly, CacheSync, UserCreate, UserDelete,
          OperatorClear, UserEdit, kubeVars, loopVars

\* Who changes the external-name of a CR: the recording of a creation, the end
\* of the CR, the initializer, or a person before the loop took hold of it.
LEMMA WhoRenames ==
  ASSUME LoopInv, RuntimeOnly, NEW r \in Resources, obj'[r].name # obj[r].name
  PROVE  \/ \E w \in Workers : Target[w] = r /\
              \/ Annotate(w)
              \/ RemoveFinalizer(w) /\ fresh[w]
              \/ obj[r].name = NoName /\ obj[r].create # "pending"
         \/ obj[r].phase = "absent"
         \/ ~obj[r].fin
  <1> USE DEF LoopInv
  <1>1. ASSUME NEW q \in Resources, NEW o, Store(q, o)
        PROVE  q = r /\ o.name # obj[r].name
    BY <1>1 DEF Store, RuntimeTypeOK
  <1>2. \A w \in Workers : Target[w] \in Resources /\ obj[Target[w]] \in Objects
                           /\ cache[w] \in Objects
    BY RuntimeAssumption DEF RuntimeTypeOK
  <1>3. obj[r] \in Objects
    BY DEF RuntimeTypeOK
  <1>4. ASSUME NEW w \in Workers, Start(w)
        PROVE  Target[w] = r /\ obj[r].name = NoName /\ obj[r].create # "pending"
    <2>1. /\ Store(Target[w], [cache[w] EXCEPT !.name = MetaName[Target[w]]])
          /\ cache[w] = obj[Target[w]] /\ cache[w].name = NoName /\ cache[w].create # "pending"
      BY <1>4 DEF Start, kubeVars
    <2> QED BY <1>1, <1>2, <2>1
  <1>5. ASSUME NEW w \in Workers, AddFinalizer(w) PROVE FALSE
    <2> DEFINE o == [obj[Target[w]] EXCEPT !.fin = TRUE]
    <2>1. o.name = obj[Target[w]].name
      BY <1>2 DEF Objects
    <2>2. Store(Target[w], o)
      BY <1>5 DEF AddFinalizer, UpdateCR, kubeVars
    <2> HIDE DEF o
    <2> QED BY <1>1, <1>2, <2>1, <2>2
  <1>6. ASSUME NEW w \in Workers, SetPending(w) PROVE FALSE
    <2> DEFINE o == [obj[Target[w]] EXCEPT !.create = "pending"]
    <2>1. o.name = obj[Target[w]].name
      BY <1>2 DEF Objects
    <2>2. Store(Target[w], o)
      BY <1>6 DEF SetPending, UpdateCR, kubeVars
    <2> HIDE DEF o
    <2> QED BY <1>1, <1>2, <2>1, <2>2
  <1>7. ASSUME NEW w \in Workers, Annotate(w) PROVE Target[w] = r
    BY <1>1, <1>2, <1>7 DEF Annotate, kubeVars
  <1>8. ASSUME NEW w \in Workers, AnnotateLost(w) PROVE FALSE
    BY <1>8 DEF AnnotateLost, kubeVars
  <1>9. ASSUME NEW w \in Workers, UpdateStatus(w) PROVE FALSE
    <2> DEFINE o == [obj[Target[w]] EXCEPT !.id = cr[w].id]
    <2>1. o.name = obj[Target[w]].name
      BY <1>2 DEF Objects
    <2>2. Store(Target[w], o)
      BY <1>9 DEF UpdateStatus, UpdateAndFinish, kubeVars
    <2> HIDE DEF o
    <2> QED BY <1>1, <1>2, <2>1, <2>2
  <1>10. ASSUME NEW w \in Workers, RemoveFinalizer(w) PROVE Target[w] = r /\ fresh[w]
    BY <1>1, <1>2, <1>10 DEF RemoveFinalizer, UpdateAndFinish, kubeVars
  <1>11. ASSUME NEW m \in Manifests, UserCreate(m) PROVE obj[r].phase = "absent"
    BY <1>1, <1>11, RuntimeAssumption DEF UserCreate, HumanWrite
  <1>12. ASSUME NEW q \in Resources,
                UserDelete(q) \/ OperatorClear(q) \/ \E s \in Specs : UserEdit(q, s)
         PROVE  ~obj[r].fin
    <2>1. /\ [obj[r] EXCEPT !.phase = "deleting"].name = obj[r].name
          /\ [obj[r] EXCEPT !.create = "none"].name = obj[r].name
          /\ \A s : [obj[r] EXCEPT !.spec = s].name = obj[r].name
      BY <1>3 DEF Objects
    <2>2. PICK o : Store(q, o)
      BY <1>12 DEF UserDelete, OperatorClear, UserEdit, HumanWrite
    <2>3. q = r
      BY <1>1, <2>2
    <2> QED BY <1>1, <1>12, <2>1, <2>3 DEF UserDelete, OperatorClear, UserEdit, HumanWrite
  <1>13. obj' # obj
    OBVIOUS
  <1> QED BY <1>4, <1>5, <1>6, <1>7, <1>8, <1>9, <1>10, <1>11, <1>12, <1>13
          DEF RuntimeOnly, Loop, CacheSync, Interrupt, kubeVars, loopVars

\* As long as a loop is inside the creation of a CR, its external-name stays.
LEMMA WindowKeepsName ==
  ASSUME LoopInv, RuntimeOnly, NEW v \in Workers,
         pc[v] \in CreateWindow, pc'[v] \in CreateWindow
  PROVE  obj'[Target[v]].name = obj[Target[v]].name
  <1> USE DEF LoopInv
  <1> DEFINE r == Target[v]
  <1> SUFFICES ASSUME obj'[r].name # obj[r].name PROVE FALSE
    OBVIOUS
  <1>1. r \in Resources /\ obj[r].create = "pending" /\ obj[r].fin /\ obj[r].phase # "absent"
    BY RuntimeAssumption DEF WindowIsPending
  <1>2. PICK w \in Workers : Target[w] = r /\ (Annotate(w) \/ (RemoveFinalizer(w) /\ fresh[w]))
    BY <1>1, WhoRenames
  <1>3. CASE Annotate(w)
    <2>1. pc[w] = "annotate" /\ pc'[w] = "status"
      BY <1>1, <1>2, <1>3 DEF Annotate, Goto, RuntimeTypeOK
    <2>2. v = w
      BY <1>2, <2>1 DEF ExclusiveCreate, CreateWindow
    <2> QED BY <2>1, <2>2 DEF CreateWindow
  <1>4. CASE RemoveFinalizer(w) /\ fresh[w]
    BY <1>1, <1>2, <1>4 DEF RemoveFinalizer, FreshAgrees, CopyIsSound, Early
  <1> QED BY <1>2, <1>3, <1>4

\* How a loop gets from the answer of Observe into a creation.
LEMMA ApproachesCreate ==
  ASSUME LoopInv, RuntimeOnly, NEW v \in Workers
  PROVE  /\ pc'[v] = "ensure" => pc[v] = "ensure" /\ cr'[v] = cr[v] /\ plan'[v] = plan[v]
         /\ pc'[v] = "pend" =>
              \/ pc[v] = "pend" /\ cr'[v] = cr[v]
              \/ pc[v] = "ensure" /\ plan[v] = "create" /\ cr'[v].name = cr[v].name
         /\ pc'[v] = "create" =>
              \/ pc[v] = "create"
              \/ pc[v] = "pend" /\ obj'[Target[v]].name = cr[v].name
  <1> USE DEF LoopInv
  <1> DEFINE Goal == /\ pc'[v] = "ensure" =>
                          pc[v] = "ensure" /\ cr'[v] = cr[v] /\ plan'[v] = plan[v]
                     /\ pc'[v] = "pend" =>
                          \/ pc[v] = "pend" /\ cr'[v] = cr[v]
                          \/ pc[v] = "ensure" /\ plan[v] = "create" /\ cr'[v].name = cr[v].name
                     /\ pc'[v] = "create" =>
                          \/ pc[v] = "create"
                          \/ pc[v] = "pend" /\ obj'[Target[v]].name = cr[v].name
  <1>1. CASE pc'[v] = pc[v] /\ cr'[v] = cr[v] /\ plan'[v] = plan[v]
    BY <1>1
  <1>2. ASSUME NEW w \in Workers, NEW s, NEW c, Goto(w, s, c)
        PROVE  /\ pc'[w] = s /\ cr'[w] = c
               /\ v # w => pc'[v] = pc[v] /\ cr'[v] = cr[v]
    BY <1>2 DEF Goto, RuntimeTypeOK
  <1>3. ASSUME NEW w \in Workers, Loop(w)
        PROVE  /\ \E s, c : Goto(w, s, c)
               /\ v # w => plan'[v] = plan[v]
    BY <1>3 DEF Loop, Start, AddFinalizer, SetPending, Annotate, AnnotateLost, UpdateStatus,
           RemoveFinalizer, UpdateCR, UpdateAndFinish, Finish, RuntimeTypeOK
  <1>4. Target[v] \in Resources /\ obj[Target[v]] \in Objects /\ cr[v] \in Objects
    BY RuntimeAssumption DEF RuntimeTypeOK
  <1>5. ASSUME NEW w \in Workers, Loop(w), v # w
        PROVE  pc'[v] = pc[v] /\ cr'[v] = cr[v] /\ plan'[v] = plan[v]
    BY <1>2, <1>3, <1>5
  <1>6. CASE AddFinalizer(v)
    <2> DEFINE o == [obj[Target[v]] EXCEPT !.fin = TRUE]
    <2>1. o.name = obj[Target[v]].name
      BY <1>4 DEF Objects
    <2>2. pc[v] = "ensure"
      BY <1>6 DEF AddFinalizer
    <2>3. CASE pc'[v] = "idle"
      BY <2>3
    <2>4. CASE pc'[v] # "idle"
      <3>1. pc'[v] = AfterEnsure(v) /\ (cr'[v] = cr[v] \/ (cr'[v] = o /\ fresh[v]))
        BY <1>2, <1>6, <2>4 DEF AddFinalizer, UpdateCR, Finish
      <3>2. cr'[v].name = cr[v].name
        <4> HIDE DEF o
        <4> QED BY <2>1, <2>2, <3>1 DEF FreshAgrees, Early
      <3>3. pc'[v] \in {"pend", "update", "status"} /\ (pc'[v] = "pend" => plan[v] = "create")
        BY <3>1 DEF AfterEnsure
      <3> QED BY <2>2, <3>2, <3>3
    <2> QED BY <2>3, <2>4
  <1>7. CASE SetPending(v)
    <2> DEFINE o == [obj[Target[v]] EXCEPT !.create = "pending"]
    <2>1. o \in Objects /\ o.name = obj[Target[v]].name
      BY <1>4 DEF Objects
    <2>2. pc[v] = "pend" /\ UpdateCR(v, o, "create")
      BY <1>7 DEF SetPending
    <2>3. CASE ~fresh[v]
      <3>1. pc'[v] = "idle"
        BY <1>2, <2>2, <2>3 DEF UpdateCR, Finish
      <3> QED BY <3>1
    <2>4. CASE fresh[v]
      <3> HIDE DEF o
      <3>1. pc'[v] = "create" /\ Store(Target[v], o)
        BY <1>2, <2>2, <2>4 DEF UpdateCR
      <3>2. obj'[Target[v]] = o
        BY <1>4, <2>1, <3>1, StoreFacts
      <3>3. o.name = cr[v].name
        BY <2>1, <2>2, <2>4 DEF FreshAgrees, Early
      <3> QED BY <2>2, <3>1, <3>2, <3>3
    <2> QED BY <2>3, <2>4
  <1>8. CASE \/ Start(v) \/ Annotate(v) \/ AnnotateLost(v) \/ UpdateStatus(v) \/ RemoveFinalizer(v)
    <2>1. pc'[v] \in {"observe", "status", "idle"}
      BY <1>2, <1>8 DEF Start, Annotate, AnnotateLost, UpdateStatus, RemoveFinalizer,
                        UpdateAndFinish, Finish
    <2> QED BY <2>1
  <1>9. ASSUME NEW S \in SUBSET Workers, Interrupt(S) PROVE Goal
    <2>1. \/ pc'[v] = "idle"
          \/ pc'[v] = pc[v] /\ cr'[v] = cr[v] /\ plan'[v] = plan[v]
      BY <1>9 DEF Interrupt
    <2> QED BY <2>1
  <1>10. CASE UNCHANGED <<pc, cr, plan>>
    BY <1>10
  <1> HIDE DEF Goal
  <1>11. Goal
    BY <1>1, <1>5, <1>6, <1>7, <1>8, <1>9, <1>10 DEF RuntimeOnly, Loop, CacheSync, UserCreate,
       UserDelete, OperatorClear, UserEdit, HumanWrite, loopVars, Goal
  <1> QED BY <1>11 DEF Goal

-----------------------------------------------------------------------------
(* The ways a component's call ends, each of which keeps to ExternalCall.   *)

LEMMA CallShape ==
  ASSUME LoopInv, NEW w \in Workers, NEW s \in Successors(pc[w], cr[w]),
         NEW n \in Names, NEW i \in Names, NEW p \in Plans,
         Goto(w, s, [cr[w] EXCEPT !.name = n, !.id = i]),
         n # cr[w].name => pc[w] \in CreateWindow,
         plan' = [plan EXCEPT ![w] = p],
         s = "annotate" => p \in {"succeeded", "failed"},
         Disrupt \/ UNCHANGED budget, UNCHANGED <<kubeVars, fresh>>
  PROVE  ExternalCall(w)
  <1>1. pc'[w] = s /\ plan'[w] = p
    BY DEF LoopInv, RuntimeTypeOK, Goto
  <1> QED BY <1>1 DEF ExternalCall

LEMMA CopyFacts ==
  ASSUME LoopInv, NEW w \in Workers
  PROVE  /\ cr[w] \in Objects /\ cr[w].name \in Names /\ cr[w].id \in Names
         /\ cr[w].spec \in Specs /\ Target[w] \in Resources
         /\ cr[w] = [cr[w] EXCEPT !.name = cr[w].name, !.id = cr[w].id]
         /\ \A i \in Names : [cr[w] EXCEPT !.id = i] =
                             [cr[w] EXCEPT !.name = cr[w].name, !.id = i]
         /\ \A n, i \in Names : [[cr[w] EXCEPT !.name = n] EXCEPT !.id = i] =
                                [cr[w] EXCEPT !.name = n, !.id = i]
         /\ plan[w] \in Plans /\ plan = [plan EXCEPT ![w] = plan[w]]
  BY RuntimeAssumption DEF LoopInv, RuntimeTypeOK, Objects

LEMMA ReportIsCall ==
  ASSUME LoopInv, NEW w \in Workers, NEW i \in Names,
         pc[w] \in {"observe", "update", "put", "delete"},
         \/ Report(w, cr[w])
         \/ Report(w, [cr[w] EXCEPT !.id = i]),
         Disrupt \/ UNCHANGED budget
  PROVE  ExternalCall(w)
  <1>1. "status" \in Successors(pc[w], cr[w])
    BY DEF Successors
  <1>2. PICK j \in Names : Goto(w, "status", [cr[w] EXCEPT !.name = cr[w].name, !.id = j])
    <2>1. CASE Report(w, cr[w])
      <3>1. /\ cr[w].id \in Names
            /\ Goto(w, "status", [cr[w] EXCEPT !.name = cr[w].name, !.id = cr[w].id])
        BY <2>1, CopyFacts DEF Report
      <3> QED BY <3>1
    <2>2. CASE Report(w, [cr[w] EXCEPT !.id = i])
      BY <2>2, CopyFacts DEF Report
    <2> QED BY <2>1, <2>2
  <1>3. /\ cr[w].name \in Names /\ plan[w] \in Plans
        /\ plan' = [plan EXCEPT ![w] = plan[w]]
        /\ UNCHANGED <<kubeVars, fresh>>
    BY CopyFacts DEF Report
  <1> QED BY <1>1, <1>2, <1>3, CallShape

LEMMA ObservedIsCall ==
  ASSUME LoopInv, NEW w \in Workers, NEW i \in Names, pc[w] = "observe",
         NEW c, c = cr[w] \/ c = [cr[w] EXCEPT !.id = i],
         NEW e, NEW u, Observed(w, c, e, u), Disrupt \/ UNCHANGED budget
  PROVE  ExternalCall(w)
  <1> DEFINE s == IF c.phase # "deleting" THEN "ensure"
                  ELSE IF e THEN "delete" ELSE "finalize"
  <1>1. s \in Successors(pc[w], cr[w]) /\ s # "annotate"
    BY CopyFacts DEF Successors, Objects
  <1>2. PICK j \in Names : c = [cr[w] EXCEPT !.name = cr[w].name, !.id = j]
    <2>1. CASE c = cr[w]
      <3>1. cr[w].id \in Names /\ c = [cr[w] EXCEPT !.name = cr[w].name, !.id = cr[w].id]
        BY <2>1, CopyFacts
      <3> QED BY <3>1
    <2>2. CASE c = [cr[w] EXCEPT !.id = i]
      BY <2>2, CopyFacts
    <2> QED BY <2>1, <2>2
  <1>3. Goto(w, s, c) /\ UNCHANGED <<kubeVars, fresh>>
    BY DEF Observed
  <1>4. PICK p \in Plans : plan' = [plan EXCEPT ![w] = p]
    BY DEF Observed, Plans
  <1>5. cr[w].name \in Names
    BY CopyFacts
  <1> HIDE DEF s
  <1>6. Goto(w, s, [cr[w] EXCEPT !.name = cr[w].name, !.id = j])
    BY <1>2, <1>3
  <1> QED BY <1>1, <1>3, <1>4, <1>5, <1>6, CallShape

LEMMA CreatedIsCall ==
  ASSUME LoopInv, NEW w \in Workers, pc[w] \in {"create", "post", "adopt"},
         NEW n \in Names, NEW i \in Names,
         Created(w, [[cr[w] EXCEPT !.name = n] EXCEPT !.id = i]),
         Disrupt \/ UNCHANGED budget
  PROVE  ExternalCall(w)
  <1>1. "annotate" \in Successors(pc[w], cr[w]) /\ pc[w] \in CreateWindow
    BY DEF Successors, CreateWindow
  <1>2. Goto(w, "annotate", [cr[w] EXCEPT !.name = n, !.id = i])
    BY CopyFacts DEF Created
  <1> QED BY <1>1, <1>2, CallShape DEF Created, Plans

LEMMA CreateFailedIsCall ==
  ASSUME LoopInv, NEW w \in Workers, pc[w] \in {"create", "post", "adopt"},
         CreateFailed(w), Disrupt \/ UNCHANGED budget
  PROVE  ExternalCall(w)
  <1>1. "annotate" \in Successors(pc[w], cr[w])
    BY DEF Successors
  <1>2. Goto(w, "annotate", [cr[w] EXCEPT !.name = cr[w].name, !.id = cr[w].id])
    BY CopyFacts DEF CreateFailed
  <1> QED BY <1>1, <1>2, CallShape, CopyFacts DEF CreateFailed, Plans

\* A call that goes on to the next request of Create or of Update.
LEMMA GoesOnIsCall ==
  ASSUME LoopInv, NEW w \in Workers, NEW s \in {"post", "adopt", "put"},
         s \in Successors(pc[w], cr[w]), Goto(w, s, cr[w]),
         UNCHANGED <<kubeVars, fresh, plan, budget>>
  PROVE  ExternalCall(w)
  <1>1. Goto(w, s, [cr[w] EXCEPT !.name = cr[w].name, !.id = cr[w].id])
    BY CopyFacts
  <1> QED BY <1>1, CallShape, CopyFacts

\* What an external call leaves alone.
LEMMA CallIsLocal ==
  ASSUME LoopInv, NEW w \in Workers, ExternalCall(w)
  PROVE  /\ UNCHANGED <<obj, cache, fresh>>
         /\ \A v \in Workers : v # w => pc'[v] = pc[v] /\ cr'[v] = cr[v] /\ plan'[v] = plan[v]
         /\ pc'[w] \in Successors(pc[w], cr[w])
  BY DEF ExternalCall, Goto, kubeVars, LoopInv, RuntimeTypeOK

-----------------------------------------------------------------------------
(* What is written to the store, and which copy a loop observes with.      *)

\* o is a later state of CR r as it is stored, of the same spec: the ways its
\* fields change.
Revises(r, o) ==
    /\ o.spec = obj[r].spec
    /\ \/ o.phase = obj[r].phase
       \/ obj[r].phase = "live" /\ obj[r].fin /\ o.phase = "deleting"
    /\ obj[r].fin => o.fin
    /\ o.fin => obj[r].fin \/ \E w \in Workers : Target[w] = r /\ pc[w] = "ensure" /\ fresh[w]
    /\ \/ o.name = obj[r].name
       \/ obj[r].name = NoName /\ o.name = MetaName[r]
       \/ \E w \in Workers : Target[w] = r /\ pc[w] = "annotate" /\ o.name = cr[w].name
    /\ \/ o.id = obj[r].id
       \/ \E w \in Workers : Target[w] = r /\ pc[w] = "status" /\ fresh[w] /\ o.id = cr[w].id

\* A loop writes a revision of its CR, or the end of it.
LEMMA LoopWrites ==
  ASSUME LoopInv, NEW w \in Workers, Loop(w)
  PROVE  \/ UNCHANGED kubeVars
         \/ Store(Target[w], Nothing)
         \/ \E o : Store(Target[w], o) /\ Revises(Target[w], o)
  <1> DEFINE r == Target[w]
  <1>1. r \in Resources /\ obj[r] \in Objects /\ cache[w] \in Objects
    BY RuntimeAssumption DEF LoopInv, RuntimeTypeOK
  <1>2. CASE Start(w)
    <2> DEFINE o == [cache[w] EXCEPT !.name = MetaName[r]]
    <2>1. UNCHANGED kubeVars \/ (Store(r, o) /\ cache[w] = obj[r] /\ cache[w].name = NoName)
      BY <1>2 DEF Start
    <2>2. cache[w] = obj[r] /\ cache[w].name = NoName => Revises(r, o)
      BY <1>1 DEF Revises, Objects
    <2> HIDE DEF o
    <2> QED BY <2>1, <2>2
  <1>3. CASE AddFinalizer(w)
    <2> DEFINE o == [obj[r] EXCEPT !.fin = TRUE]
    <2>1. UNCHANGED kubeVars \/ (Store(r, o) /\ pc[w] = "ensure" /\ fresh[w])
      BY <1>3 DEF AddFinalizer, UpdateCR
    <2>2. pc[w] = "ensure" /\ fresh[w] => Revises(r, o)
      BY <1>1 DEF Revises, Objects
    <2> HIDE DEF o
    <2> QED BY <2>1, <2>2
  <1>4. CASE SetPending(w)
    <2> DEFINE o == [obj[r] EXCEPT !.create = "pending"]
    <2>1. UNCHANGED kubeVars \/ Store(r, o)
      BY <1>4 DEF SetPending, UpdateCR
    <2>2. Revises(r, o)
      BY <1>1 DEF Revises, Objects
    <2> HIDE DEF o
    <2> QED BY <2>1, <2>2
  <1>5. CASE Annotate(w)
    <2> DEFINE o == [obj[r] EXCEPT !.name = cr[w].name, !.create = plan[w]]
    <2>1. UNCHANGED kubeVars \/ (Store(r, o) /\ pc[w] = "annotate")
      BY <1>5 DEF Annotate
    <2>2. pc[w] = "annotate" => Revises(r, o)
      BY <1>1 DEF Revises, Objects
    <2> HIDE DEF o
    <2> QED BY <2>1, <2>2
  <1>6. CASE AnnotateLost(w)
    BY <1>6 DEF AnnotateLost
  <1>7. CASE UpdateStatus(w)
    <2> DEFINE o == [obj[r] EXCEPT !.id = cr[w].id]
    <2>1. UNCHANGED kubeVars \/ (Store(r, o) /\ pc[w] = "status" /\ fresh[w])
      BY <1>7 DEF UpdateStatus, UpdateAndFinish
    <2>2. pc[w] = "status" /\ fresh[w] => Revises(r, o)
      BY <1>1 DEF Revises, Objects
    <2> HIDE DEF o
    <2> QED BY <2>1, <2>2
  <1>8. CASE RemoveFinalizer(w)
    BY <1>8 DEF RemoveFinalizer, UpdateAndFinish
  <1> QED BY <1>2, <1>3, <1>4, <1>5, <1>6, <1>7, <1>8 DEF Loop

\* A person who does not edit the spec writes a revision too, or the beginning
\* or the end of a CR.
LEMMA HumansWrite ==
  ASSUME LoopInv, NEW r \in Resources,
         \/ \E m \in Manifests : m.r = r /\ UserCreate(m)
         \/ UserDelete(r) \/ OperatorClear(r)
  PROVE  \/ Store(r, Nothing)
         \/ \E m \in Manifests : m.r = r /\ obj[r].phase = "absent" /\ Store(r, Applied(m))
         \/ \E o : Store(r, o) /\ Revises(r, o)
  <1>1. obj[r] \in Objects
    BY DEF LoopInv, RuntimeTypeOK
  <1>2. CASE \E m \in Manifests : m.r = r /\ UserCreate(m)
    BY <1>2 DEF UserCreate, HumanWrite
  <1>3. CASE UserDelete(r)
    <2> DEFINE o == [obj[r] EXCEPT !.phase = "deleting"]
    <2>1. Store(r, Nothing) \/ (Store(r, o) /\ obj[r].phase = "live" /\ obj[r].fin)
      BY <1>3 DEF UserDelete, HumanWrite
    <2>2. obj[r].phase = "live" /\ obj[r].fin => Revises(r, o)
      BY <1>1 DEF Revises, Objects
    <2> HIDE DEF o
    <2> QED BY <2>1, <2>2
  <1>4. CASE OperatorClear(r)
    <2> DEFINE o == [obj[r] EXCEPT !.create = "none"]
    <2>1. Store(r, o)
      BY <1>4 DEF OperatorClear, HumanWrite
    <2>2. Revises(r, o)
      BY <1>1 DEF Revises, Objects
    <2> HIDE DEF o
    <2> QED BY <2>1, <2>2
  <1> QED BY <1>2, <1>3, <1>4

\* So this is what becomes of a CR while no component is called.
LEMMA WhoWrites ==
  ASSUME LoopInv, RuntimeOnly, NEW r \in Resources
  PROVE  \/ obj'[r] = obj[r]
         \/ obj'[r] = Nothing
         \/ \E m \in Manifests : m.r = r /\ obj[r].phase = "absent" /\ obj'[r] = Applied(m)
         \/ Revises(r, obj'[r])
         \/ \E s \in Specs : UserEdit(r, s) /\ obj'[r] = [obj[r] EXCEPT !.spec = s]
  <1>1. ASSUME NEW q \in Resources, NEW o, Store(q, o)
        PROVE  IF q = r THEN obj'[r] = o ELSE obj'[r] = obj[r]
    BY <1>1 DEF Store, LoopInv, RuntimeTypeOK
  <1>2. ASSUME NEW w \in Workers, Loop(w)
        PROVE  obj'[r] = obj[r] \/ obj'[r] = Nothing \/ Revises(r, obj'[r])
    <2>1. Target[w] \in Resources
      BY RuntimeAssumption
    <2>2. \/ UNCHANGED obj
          \/ Store(Target[w], Nothing)
          \/ \E o : Store(Target[w], o) /\ Revises(Target[w], o)
      BY <1>2, LoopWrites DEF kubeVars
    <2> QED BY <1>1, <2>1, <2>2
  <1>3. ASSUME NEW q \in Resources,
               \/ \E m \in Manifests : m.r = q /\ UserCreate(m)
               \/ UserDelete(q) \/ OperatorClear(q)
        PROVE  \/ obj'[r] = obj[r] \/ obj'[r] = Nothing \/ Revises(r, obj'[r])
               \/ \E m \in Manifests : m.r = r /\ obj[r].phase = "absent" /\ obj'[r] = Applied(m)
    BY <1>1, <1>3, HumansWrite
  <1>4. ASSUME NEW q \in Resources, NEW s \in Specs, UserEdit(q, s)
        PROVE  \/ obj'[r] = obj[r]
               \/ UserEdit(r, s) /\ obj'[r] = [obj[r] EXCEPT !.spec = s]
    <2>1. Store(q, [obj[q] EXCEPT !.spec = s])
      BY <1>4 DEF UserEdit, HumanWrite
    <2> QED BY <1>1, <1>4, <2>1
  <1>5. \A m \in Manifests : m.r \in Resources
    BY RuntimeAssumption
  <1>6. \/ \E w \in Workers : Loop(w)
        \/ \E q \in Resources : \/ \E m \in Manifests : m.r = q /\ UserCreate(m)
                                \/ UserDelete(q) \/ OperatorClear(q)
        \/ \E q \in Resources : \E s \in Specs : UserEdit(q, s)
        \/ UNCHANGED obj
    BY <1>5 DEF RuntimeOnly, CacheSync, Interrupt, kubeVars
  <1> QED BY <1>2, <1>3, <1>4, <1>6

\* The cache follows the store, or stays behind.
LEMMA CacheFlow ==
  ASSUME LoopInv, RuntimeOnly, NEW v \in Workers
  PROVE  cache'[v] = cache[v] \/ cache'[v] = obj'[Target[v]]
  <1> USE DEF LoopInv
  <1>0. Target[v] \in Resources
    BY RuntimeAssumption
  <1>1. ASSUME NEW q \in Resources, NEW o, Store(q, o)
        PROVE  cache'[v] = cache[v] \/ cache'[v] = obj'[Target[v]]
    BY <1>0, <1>1 DEF Store, RuntimeTypeOK
  <1>2. ASSUME NEW w \in Workers, CacheSync(w)
        PROVE  cache'[v] = cache[v] \/ cache'[v] = obj'[Target[v]]
    BY <1>2 DEF CacheSync, RuntimeTypeOK
  <1>3. \A w \in Workers : Loop(w) => UNCHANGED cache \/ \E o : Store(Target[w], o)
    BY LoopWrites DEF kubeVars
  <1>4. \A m \in Manifests : m.r \in Resources
    BY RuntimeAssumption
  <1>5. \/ UNCHANGED cache
        \/ \E q \in Resources : \E o : Store(q, o)
        \/ \E w \in Workers : CacheSync(w)
    BY <1>3, <1>4, RuntimeAssumption DEF RuntimeOnly, UserCreate, UserDelete, OperatorClear, UserEdit,
       HumanWrite, Interrupt, kubeVars
  <1> QED BY <1>1, <1>2, <1>5

\* What a loop's copy is after such a step: the one it was, and then it is fresh
\* only if it was and the store has not changed; what is stored; or, when the
\* loop begins, what is in the cache.
LEMMA CopyFlow ==
  ASSUME LoopInv, RuntimeOnly, NEW v \in Workers, pc'[v] # "idle"
  PROVE  \/ /\ cr'[v] = cr[v] /\ plan'[v] = plan[v]
            /\ fresh'[v] => fresh[v] /\ obj'[Target[v]] = obj[Target[v]]
            /\ \/ pc'[v] = pc[v]
               \/ pc[v] = "ensure" /\ pc'[v] = AfterEnsure(v)
               \/ pc[v] = "annotate" /\ pc'[v] = "status"
         \/ /\ pc[v] = "idle" /\ pc'[v] = "observe"
            /\ cache[v].phase # "absent" /\ cr'[v] = cache[v]
            /\ obj' = obj
            /\ fresh'[v] => cr'[v] = obj[Target[v]]
         \/ /\ cr'[v] = obj'[Target[v]]
            /\ \/ /\ pc[v] = "idle" /\ pc'[v] = "observe" /\ obj[Target[v]] = cache[v]
                  /\ cache[v].phase # "absent" /\ cache[v].name = NoName
                  /\ cr'[v] = [cache[v] EXCEPT !.name = MetaName[Target[v]]]
               \/ /\ pc[v] = "ensure" /\ pc'[v] = AfterEnsure(v) /\ fresh[v]
                  /\ cr'[v] = [obj[Target[v]] EXCEPT !.fin = TRUE]
               \/ /\ pc[v] = "pend" /\ pc'[v] = "create" /\ fresh[v]
                  /\ cr'[v] = [obj[Target[v]] EXCEPT !.create = "pending"]
               \/ pc[v] = "annotate" /\ pc'[v] = "status"
  <1> USE DEF LoopInv
  <1> DEFINE r == Target[v]
             Same == /\ cr'[v] = cr[v] /\ plan'[v] = plan[v] /\ pc'[v] = pc[v]
                     /\ fresh'[v] => fresh[v] /\ obj'[Target[v]] = obj[Target[v]]
  <1>0. r \in Resources /\ cr[v] \in Objects /\ obj[r] \in Objects /\ cache[v] \in Objects
    BY RuntimeAssumption DEF RuntimeTypeOK
  <1>1. ASSUME NEW q \in Resources, NEW o, Store(q, o), StillFresh(q, o)[v]
        PROVE  fresh[v] /\ obj'[r] = obj[r]
    BY <1>0, <1>1 DEF Store, StillFresh, RuntimeTypeOK
  <1>2. ASSUME NEW q \in Resources, NEW o, HumanWrite(q, o) PROVE Same
    BY <1>1, <1>2 DEF HumanWrite
  <1>3. ASSUME NEW S \in SUBSET Workers, Interrupt(S) PROVE Same
    BY <1>3 DEF Interrupt, kubeVars
  <1>4. ASSUME NEW w \in Workers, Loop(w), v # w PROVE Same
    <2>1. Target[w] \in Resources
      BY RuntimeAssumption
    <2>2. \/ fresh' = fresh /\ obj' = obj
          \/ \E b \in BOOLEAN : fresh' = [fresh EXCEPT ![w] = b] /\ obj' = obj
          \/ \E o : \E b \in BOOLEAN :
                fresh' = [StillFresh(Target[w], o) EXCEPT ![w] = b] /\ Store(Target[w], o)
      BY <1>4 DEF Loop, Start, AddFinalizer, SetPending, Annotate, AnnotateLost, UpdateStatus,
                  RemoveFinalizer, UpdateCR, UpdateAndFinish, kubeVars
    <2>3. \A q, o : DOMAIN StillFresh(q, o) = Workers
      BY DEF StillFresh
    <2>4. fresh'[v] => fresh[v] /\ obj'[r] = obj[r]
      BY <1>1, <1>4, <2>1, <2>2, <2>3 DEF RuntimeTypeOK
    <2>5. (\E s, c : Goto(w, s, c)) /\ (plan' = plan \/ \E p : plan' = [plan EXCEPT ![w] = p])
      BY <1>4 DEF Loop, Start, AddFinalizer, SetPending, Annotate, AnnotateLost, UpdateStatus,
                  RemoveFinalizer, UpdateCR, UpdateAndFinish, Finish
    <2> QED BY <1>4, <2>4, <2>5 DEF Goto, RuntimeTypeOK
  <1>5. ASSUME NEW s, NEW c, Goto(v, s, c) PROVE pc'[v] = s /\ cr'[v] = c
    BY <1>5 DEF Goto, RuntimeTypeOK
  <1>6. ASSUME NEW o, Store(r, o) PROVE obj'[r] = o
    BY <1>0, <1>6 DEF Store, RuntimeTypeOK
  <1>7. CASE Start(v)
    <2> DEFINE o == [cache[v] EXCEPT !.name = MetaName[r]]
    <2>1. pc[v] = "idle" /\ cache[v].phase # "absent"
      BY <1>7 DEF Start
    <2>2. CASE cache[v].name = NoName /\ NameAsExternalName
      BY <1>5, <1>6, <1>7, <2>1, <2>2 DEF Start
    <2>3. CASE ~(cache[v].name = NoName /\ NameAsExternalName)
      <3>1. /\ Goto(v, "observe", cache[v]) /\ obj' = obj
            /\ fresh' = [fresh EXCEPT ![v] = cache[v] = obj[r]]
        BY <1>7, <2>3 DEF Start, kubeVars
      <3>2. fresh'[v] => cache[v] = obj[r]
        BY <3>1 DEF RuntimeTypeOK
      <3> QED BY <1>5, <2>1, <3>1, <3>2
    <2> QED BY <2>2, <2>3
  <1>8. CASE AddFinalizer(v)
    <2>1. pc[v] = "ensure"
      BY <1>8 DEF AddFinalizer
    <2>2. CASE cr[v].fin
      BY <1>5, <1>8, <2>1, <2>2 DEF AddFinalizer, kubeVars
    <2>3. CASE ~cr[v].fin
      <3> DEFINE o == [obj[r] EXCEPT !.fin = TRUE]
      <3>1. UpdateCR(v, o, AfterEnsure(v))
        BY <1>8, <2>3 DEF AddFinalizer
      <3>2. fresh[v]
        BY <1>5, <3>1 DEF UpdateCR, Finish
      <3>3. Goto(v, AfterEnsure(v), o) /\ Store(r, o)
        BY <3>1, <3>2 DEF UpdateCR
      <3> QED BY <1>5, <1>6, <2>1, <3>2, <3>3
    <2> QED BY <2>2, <2>3
  <1>9. CASE SetPending(v)
    <2> DEFINE o == [obj[r] EXCEPT !.create = "pending"]
    <2>1. pc[v] = "pend" /\ UpdateCR(v, o, "create")
      BY <1>9 DEF SetPending
    <2>2. fresh[v]
      BY <1>5, <2>1 DEF UpdateCR, Finish
    <2>3. Goto(v, "create", o) /\ Store(r, o)
      BY <2>1, <2>2 DEF UpdateCR
    <2> QED BY <1>5, <1>6, <2>1, <2>2, <2>3
  <1>10. CASE Annotate(v)
    <2>1. pc[v] = "annotate" /\ plan' = plan
      BY <1>10 DEF Annotate
    <2>2. CASE obj[r].phase = "absent"
      BY <1>5, <1>10, <2>1, <2>2 DEF Annotate, kubeVars
    <2>3. CASE obj[r].phase # "absent"
      BY <1>5, <1>6, <1>10, <2>1, <2>3 DEF Annotate
    <2> QED BY <2>2, <2>3
  <1>11. CASE AnnotateLost(v)
    BY <1>5, <1>11 DEF AnnotateLost, kubeVars
  <1>12. CASE UpdateStatus(v) \/ RemoveFinalizer(v)
    BY <1>5, <1>12 DEF UpdateStatus, RemoveFinalizer, UpdateAndFinish, Finish
  <1>13. CASE Same
    BY <1>13
  <1>14. \A m \in Manifests : m.r \in Resources
    BY RuntimeAssumption
  <1>15. \/ Same
         \/ Loop(v)
    <2>1. (\E w \in Workers : CacheSync(w)) \/ UNCHANGED <<kubeVars, loopVars>> => Same
      BY DEF CacheSync, kubeVars, loopVars
    <2>2. \/ \E m \in Manifests : UserCreate(m)
          \/ \E q \in Resources : UserDelete(q) \/ OperatorClear(q)
          \/ \E q \in Resources, s \in Specs : UserEdit(q, s)
          => \E q \in Resources : \E o : HumanWrite(q, o)
      BY <1>14 DEF UserCreate, UserDelete, OperatorClear, UserEdit
    <2> HIDE DEF Same
    <2> QED BY <1>2, <1>3, <1>4, <2>1, <2>2 DEF RuntimeOnly
  <1> QED BY <1>7, <1>8, <1>9, <1>10, <1>11, <1>12, <1>13, <1>15 DEF Loop

\* A loop observes with a copy it took from the cache, and ensures the finalizer
\* with the copy it observed with; nobody makes that copy fresh again.
LEMMA WhoObserves ==
  ASSUME LoopInv, RuntimeOnly, NEW v \in Workers, pc'[v] \in {"observe", "ensure"}
  PROVE  \/ pc[v] = pc'[v] /\ cr'[v] = cr[v] /\ (fresh'[v] => fresh[v])
         \/ /\ pc'[v] = "observe" /\ pc[v] = "idle"
            /\ cache[v].phase # "absent" /\ cr'[v].spec = cache[v].spec
  <1>1. AfterEnsure(v) \notin {"observe", "ensure"}
    BY DEF AfterEnsure
  <1>2. cache[v] \in Objects
    BY DEF LoopInv, RuntimeTypeOK
  <1>3. [cache[v] EXCEPT !.name = MetaName[Target[v]]].spec = cache[v].spec
    BY <1>2 DEF Objects
  <1> QED BY <1>1, <1>3, CopyFlow

==============================================================================
