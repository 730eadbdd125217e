------------------------------ MODULE CreateLock ------------------------------
(***************************************************************************)
(* What the creation annotations amount to: one lock per CR, which survives*)
(* the process that holds it. A holder that vanishes leaves the lock marked*)
(* and nobody gets it again until a person has cleared the mark. This is   *)
(* what the runtime promises a component whose Create is not safe against  *)
(* itself (team.go:236-250, gateway.go:328-330); the reconcile loop of     *)
(* ManagedReconciler is shown to implement it.                             *)
(***************************************************************************)
CONSTANTS
    Locks,    \* one for each CR
    Agents    \* the loops that take them

VARIABLES
    marked,   \* marked[l]: lock l carries the mark of an unfinished creation
    holders   \* holders[l]: the agents creating under lock l

Init ==
    /\ marked = [l \in Locks |-> FALSE]
    /\ holders = [l \in Locks |-> {}]

Acquire(a, l) ==
    /\ ~marked[l]
    /\ holders[l] = {}
    /\ marked' = [marked EXCEPT ![l] = TRUE]
    /\ holders' = [holders EXCEPT ![l] = {a}]

\* The outcome is recorded and the mark goes, while the lock has one holder.
Record(a, l) ==
    /\ marked[l]
    /\ holders[l] = {a}
    /\ marked' = [marked EXCEPT ![l] = FALSE]
    /\ holders' = [holders EXCEPT ![l] = {}]

\* Some holders vanish without a trace; their marks stay.
Abandon(A) ==
    /\ holders' = [l \in Locks |-> holders[l] \ A]
    /\ UNCHANGED marked

\* A person, or the end of the CR, takes the mark from a lock nobody holds.
Clear(l) ==
    /\ marked[l]
    /\ holders[l] = {}
    /\ marked' = [marked EXCEPT ![l] = FALSE]
    /\ UNCHANGED holders

Next ==
    \/ \E a \in Agents, l \in Locks : Acquire(a, l) \/ Record(a, l)
    \/ \E A \in SUBSET Agents : Abandon(A)
    \/ \E l \in Locks : Clear(l)

Spec == Init /\ [][Next]_<<marked, holders>>
==============================================================================
