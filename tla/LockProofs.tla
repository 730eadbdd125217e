------------------------------ MODULE LockProofs ------------------------------
(***************************************************************************)
(* The reconcile loop implements the lock of CreateLock, with any component*)
(* that keeps to ExternalCall.                                             *)
(***************************************************************************)
EXTENDS RuntimeProofs

Mark == [r \in Resources |-> obj[r].create = "pending"]
Held == [r \in Resources |-> Creators(r)]
LockStep == Lock!Next \/ UNCHANGED <<Mark, Held>>

\* A step that moves nobody into or out of a creation, and keeps the marks.
LEMMA LockStutters ==
  ASSUME \A r \in Resources : obj'[r].create = obj[r].create
                              \/ (obj[r].create # "pending" /\ obj'[r].create # "pending"),
         \A v \in Workers : pc'[v] \in CreateWindow <=> pc[v] \in CreateWindow
  PROVE  LockStep
  <1>1. Mark' = Mark
    BY DEF Mark
  <1>2. \A r \in Resources : Creators(r)' = Creators(r)
    BY DEF Creators
  <1> QED BY <1>1, <1>2 DEF LockStep, Held

\* Some workers leave their creations, and the marks stay.
LEMMA LockAbandoned ==
  ASSUME NEW S \in SUBSET Workers, UNCHANGED obj,
         \A v \in Workers : pc'[v] \in CreateWindow <=> pc[v] \in CreateWindow /\ v \notin S
  PROVE  LockStep
  <1>1. Mark' = Mark
    BY DEF Mark
  <1>2. \A r \in Resources : Creators(r)' = Creators(r) \ S
    BY DEF Creators
  <1>3. Held' = [r \in Resources |-> Held[r] \ S]
    BY <1>2 DEF Held
  <1>4. Lock!Abandon(S)
    BY <1>1, <1>3 DEF Lock!Abandon, Mark, Held
  <1> QED BY <1>4 DEF LockStep, Lock!Next

\* A write that ends a mark nobody holds, or that leaves it off.
LEMMA LockCleared ==
  ASSUME LoopInv, NEW r \in Resources, NEW o \in Objects, Store(r, o), UNCHANGED pc,
         Quiescent(r), o.create # "pending"
  PROVE  LockStep
  <1>1. obj'[r] = o /\ \A q \in Resources : q # r => obj'[q] = obj[q]
    BY StoreFacts DEF LoopInv
  <1>2. CASE obj[r].create # "pending"
    BY <1>1, <1>2, LockStutters
  <1>3. CASE obj[r].create = "pending"
    <2>1. Creators(r) = {}
      BY DEF Quiescent, Creators
    <2>2. Mark' = [Mark EXCEPT ![r] = FALSE]
      BY <1>1 DEF Mark
    <2>3. Held' = Held
      BY DEF Held, Creators
    <2>4. Lock!Clear(r)
      BY <1>3, <2>1, <2>2, <2>3 DEF Lock!Clear, Mark, Held
    <2> QED BY <2>4 DEF LockStep, Lock!Next
  <1> QED BY <1>2, <1>3

\* The pending annotation takes the lock.
LEMMA SetPendingAcquires ==
  ASSUME LoopInv, NEW w \in Workers, SetPending(w), fresh[w]
  PROVE  LockStep
  <1> DEFINE r == Target[w]
             o == [obj[r] EXCEPT !.create = "pending"]
  <1>1. r \in Resources /\ obj[r] \in Objects
    BY RuntimeAssumption DEF LoopInv, RuntimeTypeOK
  <1>2. o \in Objects /\ o.create = "pending"
    BY <1>1 DEF Objects
  <1>3. Store(r, o) /\ pc' = [pc EXCEPT ![w] = "create"] /\ pc[w] = "pend"
    BY DEF SetPending, UpdateCR, Goto
  <1>4. obj[r].create # "pending"
    BY <1>3 DEF LoopInv, FreshAgrees, CopyIsSound, Early
  <1>5. Creators(r) = {}
    BY <1>4 DEF LoopInv, WindowIsPending, Creators
  <1>6. obj'[r].create = "pending" /\ \A q \in Resources : q # r => obj'[q] = obj[q]
    <2> HIDE DEF o, r
    <2> QED BY <1>1, <1>2, <1>3, StoreFacts DEF LoopInv
  <1>7. Mark' = [Mark EXCEPT ![r] = TRUE]
    BY <1>6 DEF Mark
  <1>8. \A v \in Workers : pc'[v] = IF v = w THEN "create" ELSE pc[v]
    BY <1>3 DEF LoopInv, RuntimeTypeOK
  <1>9. \A q \in Resources : Creators(q)' = IF q = r THEN {w} ELSE Creators(q)
    BY <1>3, <1>5, <1>8 DEF Creators, CreateWindow
  <1>10. Held' = [Held EXCEPT ![r] = {w}]
    BY <1>9 DEF Held
  <1>11. Lock!Acquire(w, r)
    BY <1>1, <1>4, <1>5, <1>7, <1>10 DEF Lock!Acquire, Mark, Held
  <1> QED BY <1>1, <1>11 DEF LockStep, Lock!Next

\* The recorded outcome releases it.
LEMMA AnnotateRecords ==
  ASSUME LoopInv, NEW w \in Workers, Annotate(w)
  PROVE  LockStep
  <1> DEFINE r == Target[w]
             o == [obj[r] EXCEPT !.name = cr[w].name, !.create = plan[w]]
  <1>1. r \in Resources /\ obj[r] \in Objects /\ cr[w].name \in Names
    BY CopyFacts DEF LoopInv, RuntimeTypeOK
  <1>2. pc[w] = "annotate" /\ plan[w] \in {"succeeded", "failed"}
    BY DEF Annotate, LoopInv, CopyIsSound
  <1>3. obj[r].create = "pending" /\ obj[r].phase # "absent"
    BY <1>2 DEF LoopInv, WindowIsPending, CreateWindow
  <1>4. o \in Objects /\ o.create # "pending"
    BY <1>1, <1>2 DEF Objects
  <1>5. Store(r, o) /\ pc' = [pc EXCEPT ![w] = "status"]
    BY <1>3 DEF Annotate, Goto
  <1>6. obj'[r].create # "pending" /\ \A q \in Resources : q # r => obj'[q] = obj[q]
    <2> HIDE DEF o, r
    <2> QED BY <1>1, <1>4, <1>5, StoreFacts DEF LoopInv
  <1>7. Mark' = [Mark EXCEPT ![r] = FALSE]
    BY <1>6 DEF Mark
  <1>8. \A v \in Workers : pc'[v] = IF v = w THEN "status" ELSE pc[v]
    BY <1>5 DEF LoopInv, RuntimeTypeOK
  <1>9. Creators(r) = {w}
    BY <1>2 DEF LoopInv, ExclusiveCreate, Creators, CreateWindow
  <1>10. \A q \in Resources : Creators(q)' = IF q = r THEN {} ELSE Creators(q)
    BY <1>8, <1>9 DEF Creators, CreateWindow
  <1>11. Held' = [Held EXCEPT ![r] = {}]
    BY <1>10 DEF Held
  <1>12. Lock!Record(w, r)
    BY <1>1, <1>3, <1>7, <1>9, <1>11 DEF Lock!Record, Mark, Held
  <1> QED BY <1>1, <1>12 DEF LockStep, Lock!Next

\* Any write that keeps the creation annotation, by a loop outside a creation
\* that does not enter one.
LEMMA OtherWriteStutters ==
  ASSUME LoopInv, NEW w \in Workers, NEW o \in Objects, NEW s,
         obj' = obj \/ Store(Target[w], o),
         o.create = obj[Target[w]].create
           \/ (o.create # "pending" /\ obj[Target[w]].create # "pending"),
         pc' = [pc EXCEPT ![w] = s], s \notin CreateWindow, pc[w] \notin CreateWindow
  PROVE  LockStep
  <1>1. Target[w] \in Resources
    BY RuntimeAssumption
  <1>2. \A q \in Resources : obj'[q] = obj[q] \/ (q = Target[w] /\ obj'[q] = o)
    BY <1>1, StoreFacts DEF LoopInv
  <1>3. \A v \in Workers : pc'[v] \in CreateWindow <=> pc[v] \in CreateWindow
    BY DEF LoopInv, RuntimeTypeOK
  <1> QED BY <1>2, <1>3, LockStutters

LEMMA LoopIsLockStep ==
  ASSUME LoopInv, NEW w \in Workers, Loop(w)
  PROVE  LockStep
  <1> DEFINE r == Target[w]
  <1>1. r \in Resources /\ obj[r] \in Objects /\ cache[w] \in Objects /\ cr[w] \in Objects
    BY RuntimeAssumption DEF LoopInv, RuntimeTypeOK
  <1>2. CASE Start(w)
    <2> DEFINE o == [cache[w] EXCEPT !.name = MetaName[r]]
    <2>1. o \in Objects /\ o.create = cache[w].create
      BY <1>1, MetaNameIsName DEF Objects
    <2>2. pc[w] = "idle" /\ pc' = [pc EXCEPT ![w] = "observe"]
      BY <1>2 DEF Start, Goto
    <2>3. obj' = obj \/ (Store(r, o) /\ cache[w] = obj[r])
      BY <1>2 DEF Start, kubeVars
    <2> HIDE DEF o
    <2>4. CASE obj' = obj
      BY <1>1, <2>2, <2>4, OtherWriteStutters DEF CreateWindow
    <2> QED BY <2>1, <2>2, <2>3, <2>4, OtherWriteStutters DEF CreateWindow
  <1>3. CASE AddFinalizer(w)
    <2> DEFINE o == [obj[r] EXCEPT !.fin = TRUE]
    <2>1. o \in Objects /\ o.create = obj[r].create
      BY <1>1 DEF Objects
    <2>2. obj' = obj \/ Store(r, o)
      BY <1>3 DEF AddFinalizer, UpdateCR, kubeVars
    <2>3. pc[w] = "ensure"
          /\ \E s \in {"pend", "update", "status", "idle"} : pc' = [pc EXCEPT ![w] = s]
      BY <1>3 DEF AddFinalizer, UpdateCR, Goto, Finish, AfterEnsure
    <2> HIDE DEF o
    <2> QED BY <2>1, <2>2, <2>3, OtherWriteStutters DEF CreateWindow
  <1>4. CASE SetPending(w)
    <2>1. CASE ~fresh[w]
      <3>1. obj' = obj /\ pc[w] = "pend" /\ pc' = [pc EXCEPT ![w] = "idle"]
        BY <1>4, <2>1 DEF SetPending, UpdateCR, Finish, Goto, kubeVars
      <3> QED BY <1>1, <3>1, OtherWriteStutters DEF CreateWindow
    <2> QED BY <1>4, <2>1, SetPendingAcquires
  <1>5. CASE AnnotateLost(w)
    <2>1. obj' = obj /\ pc[w] = "annotate" /\ pc' = [pc EXCEPT ![w] = "status"]
      BY <1>5 DEF AnnotateLost, Goto, kubeVars
    <2>2. \A v \in Workers : pc'[v] \in CreateWindow <=> pc[v] \in CreateWindow /\ v \notin {w}
      BY <2>1 DEF LoopInv, RuntimeTypeOK, CreateWindow
    <2> QED BY <2>1, <2>2, LockAbandoned
  <1>6. CASE UpdateStatus(w)
    <2> DEFINE o == [obj[r] EXCEPT !.id = cr[w].id]
    <2>1. o \in Objects /\ o.create = obj[r].create
      BY <1>1 DEF Objects
    <2>2. obj' = obj \/ Store(r, o)
      BY <1>6 DEF UpdateStatus, UpdateAndFinish, kubeVars
    <2>3. pc[w] = "status" /\ pc' = [pc EXCEPT ![w] = "idle"]
      BY <1>6 DEF UpdateStatus, UpdateAndFinish, Finish, Goto
    <2> HIDE DEF o
    <2> QED BY <2>1, <2>2, <2>3, OtherWriteStutters DEF CreateWindow
  <1>7. CASE RemoveFinalizer(w)
    <2>1. pc[w] = "finalize" /\ pc' = [pc EXCEPT ![w] = "idle"]
      BY <1>7 DEF RemoveFinalizer, UpdateAndFinish, Finish, Goto
    <2>2. CASE fresh[w]
      <3>1. Nothing.create = "none" /\ obj[r].create # "pending"
        BY <2>1, <2>2 DEF Nothing, LoopInv, FreshAgrees, CopyIsSound, Early
      <3>2. Store(r, Nothing)
        BY <1>7, <2>2 DEF RemoveFinalizer, UpdateAndFinish
      <3> QED BY <2>1, <3>1, <3>2, NothingIsObject, OtherWriteStutters DEF CreateWindow
    <2>3. CASE ~fresh[w]
      <3>1. obj' = obj
        BY <1>7, <2>3 DEF RemoveFinalizer, UpdateAndFinish, kubeVars
      <3> QED BY <1>1, <2>1, <3>1, OtherWriteStutters DEF CreateWindow
    <2> QED BY <2>2, <2>3
  <1> QED BY <1>2, <1>3, <1>4, <1>5, <1>6, <1>7, AnnotateRecords DEF Loop

LEMMA HumansAreLockSteps ==
  ASSUME LoopInv, NEW r \in Resources,
         \/ \E m \in Manifests : m.r = r /\ UserCreate(m)
         \/ UserDelete(r) \/ OperatorClear(r)
         \/ \E s \in Specs : UserEdit(r, s)
  PROVE  LockStep
  <1>1. obj[r] \in Objects /\ UNCHANGED pc
    BY DEF LoopInv, RuntimeTypeOK, UserCreate, UserDelete, OperatorClear, UserEdit, HumanWrite
  <1>2. ASSUME NEW o \in Objects, Store(r, o), o.create = obj[r].create
        PROVE  LockStep
    <2>1. \A q \in Resources : obj'[q] = obj[q] \/ (q = r /\ obj'[q] = o)
      BY <1>2, StoreFacts DEF LoopInv
    <2> QED BY <1>1, <1>2, <2>1, LockStutters
  <1>3. ~obj[r].fin \/ obj[r].phase = "absent" => Quiescent(r)
    BY DEF LoopInv, WindowIsPending, Quiescent
  <1>4. ASSUME NEW m \in Manifests, m.r = r, UserCreate(m) PROVE LockStep
    <2>1. Store(r, Applied(m)) /\ obj[r].phase = "absent" /\ Applied(m).create = "none"
      BY <1>4 DEF UserCreate, HumanWrite, Applied
    <2> QED BY <1>1, <1>3, <2>1, AppliedIsObject, LockCleared
  <1>5. CASE UserDelete(r)
    <2>1. CASE obj[r].fin
      <3> DEFINE o == [obj[r] EXCEPT !.phase = "deleting"]
      <3>1. o \in Objects /\ o.create = obj[r].create
        BY <1>1 DEF Objects
      <3>2. Store(r, o)
        BY <1>5, <2>1 DEF UserDelete, HumanWrite
      <3> HIDE DEF o
      <3> QED BY <1>2, <3>1, <3>2
    <2>2. CASE ~obj[r].fin
      <3>1. Store(r, Nothing) /\ Nothing.create = "none"
        BY <1>5, <2>2 DEF UserDelete, HumanWrite, Nothing
      <3> QED BY <1>1, <1>3, <2>2, <3>1, NothingIsObject, LockCleared
    <2> QED BY <2>1, <2>2
  <1>6. CASE OperatorClear(r)
    <2> DEFINE o == [obj[r] EXCEPT !.create = "none"]
    <2>1. o \in Objects /\ o.create = "none"
      BY <1>1 DEF Objects
    <2>2. Store(r, o) /\ Quiescent(r)
      BY <1>6 DEF OperatorClear, HumanWrite, Frozen
    <2> HIDE DEF o
    <2> QED BY <1>1, <2>1, <2>2, LockCleared
  <1>7. ASSUME NEW s \in Specs, UserEdit(r, s) PROVE LockStep
    <2> DEFINE o == [obj[r] EXCEPT !.spec = s]
    <2>1. o \in Objects /\ o.create = obj[r].create
      BY <1>1 DEF Objects
    <2>2. Store(r, o)
      BY <1>7 DEF UserEdit, HumanWrite
    <2> HIDE DEF o
    <2> QED BY <1>2, <2>1, <2>2
  <1> QED BY <1>4, <1>5, <1>6, <1>7

LEMMA NextIsLockStep ==
  ASSUME LoopInv, RuntimeNext
  PROVE  LockStep
  <1>1. ASSUME NEW w \in Workers, ExternalCall(w) PROVE LockStep
    <2>1. PICK s \in Successors(pc[w], cr[w]) : pc' = [pc EXCEPT ![w] = s]
      BY <1>1 DEF ExternalCall, Goto
    <2>2. s \in CreateWindow <=> pc[w] \in CreateWindow
      BY <2>1 DEF Successors, CreateWindow
    <2>3. UNCHANGED obj /\ \A v \in Workers : pc'[v] \in CreateWindow <=> pc[v] \in CreateWindow
      BY <1>1, <2>1, <2>2 DEF ExternalCall, kubeVars, LoopInv, RuntimeTypeOK
    <2> QED BY <2>3, LockStutters
  <1>2. ASSUME NEW S \in SUBSET Workers, Interrupt(S) PROVE LockStep
    <2>1. UNCHANGED obj
          /\ \A v \in Workers : pc'[v] \in CreateWindow <=> pc[v] \in CreateWindow /\ v \notin S
      BY <1>2 DEF Interrupt, kubeVars, CreateWindow
    <2> QED BY <2>1, LockAbandoned
  <1>3. ASSUME UNCHANGED <<obj, pc>> PROVE LockStep
    BY <1>3, LockStutters
  <1>4. \A m \in Manifests : m.r \in Resources
    BY RuntimeAssumption
  <1> QED BY <1>1, <1>2, <1>3, <1>4, LoopIsLockStep, HumansAreLockSteps
          DEF RuntimeNext, CacheSync, Elsewhere, kubeVars, loopVars

\* The reconcile loop implements the lock, for any number of CRs and processes:
\* what cuts a creation off leaves its mark, and the mark keeps every loop out.
THEOREM CreationIsLocked == RuntimeSpec => CreateIsLocked
  <1>1. RuntimeInit => Lock!Init
    <2> SUFFICES ASSUME RuntimeInit PROVE Lock!Init
      OBVIOUS
    <2>1. \A r \in Resources : obj[r].create = "none"
      BY DEF RuntimeInit, Applied
    <2>2. \A w \in Workers : pc[w] = "idle"
      BY DEF RuntimeInit
    <2>3. \A r \in Resources : Creators(r) = {}
      BY <2>2 DEF Creators, CreateWindow
    <2> QED BY <2>1, <2>3 DEF Lock!Init
  <1>2. LoopInv /\ [RuntimeNext]_runtimeVars => [Lock!Next]_<<Mark, Held>>
    <2>1. UNCHANGED runtimeVars => UNCHANGED <<Mark, Held>>
      BY DEF runtimeVars, Mark, Held, Creators
    <2> QED BY <2>1, NextIsLockStep DEF LockStep
  <1> QED BY <1>1, <1>2, LoopInvariant, PTL DEF RuntimeSpec, CreateIsLocked, Lock!Spec, Mark, Held
==============================================================================
