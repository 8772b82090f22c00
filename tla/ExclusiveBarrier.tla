-------------------------- MODULE ExclusiveBarrier --------------------------
(***************************************************************************)
(* What CoreActivityGate promises its users, without how: an owner inside  *)
(* the exclusive barrier is alone, whatever nests, waits or is cancelled.  *)
(* ActivityGate implements it; CoreLifecycle keeps its guards.             *)
(***************************************************************************)
EXTENDS Integers

CONSTANTS Owners, NoOne

VARIABLES holders,   \* how many shared admissions an owner has
          writer     \* the owner of the barrier

Alone(o) == \A p \in Owners \ {o} : holders[p] = 0

Init == holders = [o \in Owners |-> 0] /\ writer = NoOne

Admit(o) == /\ writer \in {NoOne, o}
            /\ \E n \in 1 .. 2 : holders' = [holders EXCEPT ![o] = @ + n]
            /\ UNCHANGED writer

Retire(o) == /\ \E n \in 1 .. holders[o] : holders' = [holders EXCEPT ![o] = @ - n]
             /\ UNCHANGED writer

Raise(o) == /\ writer = NoOne /\ Alone(o)
            /\ writer' = o
            /\ UNCHANGED holders

Lower(o) == /\ writer = o
            /\ writer' = NoOne
            /\ UNCHANGED holders

Next == \E o \in Owners : Admit(o) \/ Retire(o) \/ Raise(o) \/ Lower(o)

Spec == Init /\ [][Next]_<<holders, writer>>
=============================================================================
