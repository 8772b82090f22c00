------------------------- MODULE ActivityGateProofs -------------------------
(***************************************************************************)
(* The gate's invariants hold for any number of tasks, threads, workers    *)
(* and writers and for any nesting.  IInv is the inductive invariant: that *)
(* the counters equal the open blocks is what lets a writer trust          *)
(* _active_count, and the agreement of leases and blocks is what lets a    *)
(* lease identity be reused.                                               *)
(***************************************************************************)
EXTENDS ActivityGate, FiniteSetTheorems, TLAPS

USE DEF Callers, Owners, Levels, Kinds

-----------------------------------------------------------------------------
(* The cardinalities the accounting speaks of are natural numbers.         *)
LEMMA CountsFinite ==
  ASSUME IsFiniteSet(blocks)
  PROVE  /\ \A o : IsFiniteSet(Held(o)) /\ Cardinality(Held(o)) \in Nat
         /\ \A t : IsFiniteSet(Direct(t)) /\ Cardinality(Direct(t)) \in Nat
         /\ IsFiniteSet(Exclusive) /\ Cardinality(Exclusive) \in Nat
<1>1. /\ \A o : Held(o) \in SUBSET blocks
      /\ \A t : Direct(t) \in SUBSET blocks
      /\ Exclusive \in SUBSET blocks
  BY DEF Held, Direct, Exclusive, Shared
<1> QED
  BY <1>1, FS_Subset, FS_CardinalityType

(* A counter that is not 0 has an open block behind it, and conversely.    *)
LEMMA CountsWitness ==
  ASSUME IsFiniteSet(blocks)
  PROVE  /\ \A o : Cardinality(Held(o)) > 0 <=> \E b \in Shared : OwnerOf(b[1]) = o
         /\ Cardinality(Exclusive) > 0 <=> Exclusive # {}
<1>1. ASSUME NEW o
      PROVE  Cardinality(Held(o)) > 0 <=> \E b \in Shared : OwnerOf(b[1]) = o
  <2>1. Cardinality(Held(o)) = 0 <=> Held(o) = {}
    BY CountsFinite, FS_EmptySet
  <2>2. Held(o) # {} <=> \E b \in Shared : OwnerOf(b[1]) = o
    BY DEF Held
  <2> QED
    BY <2>1, <2>2, CountsFinite
<1>2. Cardinality(Exclusive) > 0 <=> Exclusive # {}
  <2>1. Cardinality(Exclusive) = 0 <=> Exclusive = {}
    BY CountsFinite, FS_EmptySet
  <2> QED
    BY <2>1, CountsFinite
<1> QED
  BY <1>1, <1>2

(* Opening one shared block adds one to its owner's count, and to the      *)
(* direct count of a caller that is a task.                                *)
LEMMA OpenShared ==
  ASSUME IsFiniteSet(blocks), NEW c, NEW k,
         <<c, k, "shared">> \notin blocks,
         blocks' = blocks \cup {<<c, k, "shared">>}, UNCHANGED lease_owner
  PROVE  /\ IsFiniteSet(blocks')
         /\ \A o : Cardinality(Held(o)') =
                     Cardinality(Held(o)) + (IF OwnerOf(c) = o THEN 1 ELSE 0)
         /\ \A t : Cardinality(Direct(t)') =
                     Cardinality(Direct(t)) + (IF c = t THEN 1 ELSE 0)
         /\ Exclusive' = Exclusive
<1> DEFINE x == <<c, k, "shared">>
<1>1. \A o : Held(o)' = IF OwnerOf(c) = o THEN Held(o) \cup {x} ELSE Held(o)
  BY DEF Held, Shared, OwnerOf
<1>2. \A t : Direct(t)' = IF c = t THEN Direct(t) \cup {x} ELSE Direct(t)
  BY DEF Direct, Shared
<1>3. Exclusive' = Exclusive
  BY DEF Exclusive
<1>4. \A o : x \notin Held(o) /\ x \notin Direct(o)
  BY DEF Held, Direct, Shared
<1>5. ASSUME NEW o
      PROVE  Cardinality(Held(o)') =
               Cardinality(Held(o)) + (IF OwnerOf(c) = o THEN 1 ELSE 0)
  <2>1. IsFiniteSet(Held(o)) /\ Cardinality(Held(o)) \in Nat
    BY CountsFinite
  <2>2. CASE OwnerOf(c) = o
    BY <1>1, <1>4, <2>1, <2>2, FS_AddElement
  <2>3. CASE OwnerOf(c) # o
    BY <1>1, <2>1, <2>3
  <2> QED
    BY <2>2, <2>3
<1>6. ASSUME NEW t
      PROVE  Cardinality(Direct(t)') =
               Cardinality(Direct(t)) + (IF c = t THEN 1 ELSE 0)
  <2>1. IsFiniteSet(Direct(t)) /\ Cardinality(Direct(t)) \in Nat
    BY CountsFinite
  <2>2. CASE c = t
    BY <1>2, <1>4, <2>1, <2>2, FS_AddElement
  <2>3. CASE c # t
    BY <1>2, <2>1, <2>3
  <2> QED
    BY <2>2, <2>3
<1> QED
  BY <1>3, <1>5, <1>6, FS_AddElement

(* Closing one shared block takes one from each of these counts.           *)
LEMMA CloseShared ==
  ASSUME IsFiniteSet(blocks), NEW c, NEW k,
         <<c, k, "shared">> \in blocks,
         blocks' = blocks \ {<<c, k, "shared">>}, UNCHANGED lease_owner
  PROVE  /\ IsFiniteSet(blocks')
         /\ \A o : Cardinality(Held(o)') =
                     Cardinality(Held(o)) - (IF OwnerOf(c) = o THEN 1 ELSE 0)
         /\ \A t : Cardinality(Direct(t)') =
                     Cardinality(Direct(t)) - (IF c = t THEN 1 ELSE 0)
         /\ Exclusive' = Exclusive
         /\ Cardinality(Held(OwnerOf(c))) > 0
<1> DEFINE x == <<c, k, "shared">>
<1>1. \A o : Held(o)' = IF OwnerOf(c) = o THEN Held(o) \ {x} ELSE Held(o)
  BY DEF Held, Shared, OwnerOf
<1>2. \A t : Direct(t)' = IF c = t THEN Direct(t) \ {x} ELSE Direct(t)
  BY DEF Direct, Shared
<1>3. Exclusive' = Exclusive
  BY DEF Exclusive
<1>4. x \in Held(OwnerOf(c)) /\ x \in Direct(c)
  BY DEF Held, Direct, Shared
<1>5. ASSUME NEW o
      PROVE  Cardinality(Held(o)') =
               Cardinality(Held(o)) - (IF OwnerOf(c) = o THEN 1 ELSE 0)
  <2>1. IsFiniteSet(Held(o)) /\ Cardinality(Held(o)) \in Nat
    BY CountsFinite
  <2>2. CASE OwnerOf(c) = o
    BY <1>1, <1>4, <2>1, <2>2, FS_RemoveElement
  <2>3. CASE OwnerOf(c) # o
    BY <1>1, <2>1, <2>3
  <2> QED
    BY <2>2, <2>3
<1>6. ASSUME NEW t
      PROVE  Cardinality(Direct(t)') =
               Cardinality(Direct(t)) - (IF c = t THEN 1 ELSE 0)
  <2>1. IsFiniteSet(Direct(t)) /\ Cardinality(Direct(t)) \in Nat
    BY CountsFinite
  <2>2. CASE c = t
    BY <1>2, <1>4, <2>1, <2>2, FS_RemoveElement
  <2>3. CASE c # t
    BY <1>2, <2>1, <2>3
  <2> QED
    BY <2>2, <2>3
<1>7. Cardinality(Held(OwnerOf(c))) > 0
  BY <1>4, CountsWitness DEF Held
<1> QED
  BY <1>3, <1>5, <1>6, <1>7, FS_RemoveElement

(* Opening or closing an exclusive block moves the depth and nothing else. *)
LEMMA OpenExclusive ==
  ASSUME IsFiniteSet(blocks), NEW c, NEW k,
         <<c, k, "exclusive">> \notin blocks,
         blocks' = blocks \cup {<<c, k, "exclusive">>}, UNCHANGED lease_owner
  PROVE  /\ IsFiniteSet(blocks')
         /\ \A o : Held(o)' = Held(o) /\ Direct(o)' = Direct(o)
         /\ Exclusive' = Exclusive \cup {<<c, k, "exclusive">>}
         /\ Cardinality(Exclusive') = Cardinality(Exclusive) + 1
<1>1. Exclusive' = Exclusive \cup {<<c, k, "exclusive">>}
  BY DEF Exclusive
<1>2. \A o : Held(o)' = Held(o) /\ Direct(o)' = Direct(o)
  BY DEF Held, Direct, Shared, OwnerOf
<1>3. <<c, k, "exclusive">> \notin Exclusive
  BY DEF Exclusive
<1> QED
  BY <1>1, <1>2, <1>3, CountsFinite, FS_AddElement

LEMMA CloseExclusive ==
  ASSUME IsFiniteSet(blocks), NEW c, NEW k,
         <<c, k, "exclusive">> \in blocks,
         blocks' = blocks \ {<<c, k, "exclusive">>}, UNCHANGED lease_owner
  PROVE  /\ IsFiniteSet(blocks')
         /\ \A o : Held(o)' = Held(o) /\ Direct(o)' = Direct(o)
         /\ Exclusive' = Exclusive \ {<<c, k, "exclusive">>}
         /\ Cardinality(Exclusive') = Cardinality(Exclusive) - 1
         /\ Exclusive' = {} <=> Cardinality(Exclusive) = 1
<1>1. Exclusive' = Exclusive \ {<<c, k, "exclusive">>}
  BY DEF Exclusive
<1>2. \A o : Held(o)' = Held(o) /\ Direct(o)' = Direct(o)
  BY DEF Held, Direct, Shared, OwnerOf
<1>3. <<c, k, "exclusive">> \in Exclusive
  BY DEF Exclusive
<1>4. IsFiniteSet(Exclusive') /\ Cardinality(Exclusive') = Cardinality(Exclusive) - 1
  BY <1>1, <1>3, CountsFinite, FS_RemoveElement
<1>5. Exclusive' = {} <=> Cardinality(Exclusive') = 0
  BY <1>4, FS_EmptySet
<1>6. Exclusive' = {} <=> Cardinality(Exclusive) = 1
  BY <1>4, <1>5, CountsFinite
<1>7. IsFiniteSet(blocks')
  BY FS_RemoveElement
<1> QED
  BY <1>1, <1>2, <1>4, <1>6, <1>7

(* Opening the next block of a caller (and possibly the level-0 admission  *)
(* of a lease) leaves no gap in the levels either.                         *)
LEMMA OpenLevels ==
  ASSUME TypeOK, LeaseInv, NEW c, NEW k \in 1 .. MaxNest, NEW kind \in Kinds,
         NextLevel(c, k), NEW l,
         \/ blocks' = blocks \cup {<<c, k, kind>>}
         \/ blocks' = blocks \cup {<<c, k, kind>>, <<l, 0, "shared">>}
  PROVE  \A b \in blocks' : \A j \in 1 .. b[2] : InBlock(b[1], j)'
<1> DEFINE x == <<c, k, kind>>
<1>1. \A d, j : InBlock(d, j) => InBlock(d, j)'
  BY DEF InBlock
<1> SUFFICES ASSUME NEW b \in blocks', NEW j \in 1 .. b[2] PROVE InBlock(b[1], j)'
  OBVIOUS
<1>2. CASE b \in blocks
  BY <1>1, <1>2 DEF LeaseInv
<1>3. CASE b = x /\ j = k
  BY <1>3 DEF InBlock
<1>4. CASE b = x /\ j # k
  <2>1. PICK other \in Kinds : <<c, k - 1, other>> \in blocks
    BY <1>4, NestAssumption DEF NextLevel, InBlock
  <2>2. j \in 1 .. k - 1
    BY <1>4, NestAssumption
  <2>3. InBlock(c, j)
    BY <2>1, <2>2 DEF LeaseInv
  <2> QED
    BY <1>1, <1>4, <2>3
<1>5. CASE b = <<l, 0, "shared">>
  BY <1>5
<1> QED
  BY <1>2, <1>3, <1>4, <1>5

(* Closing the innermost block of a caller leaves no gap in its levels.    *)
LEMMA CloseLevels ==
  ASSUME TypeOK, LeaseInv, NEW c, NEW k \in 1 .. MaxNest, NEW kind \in Kinds,
         Innermost(c, k, kind), blocks' = blocks \ {<<c, k, kind>>}
  PROVE  \A b \in blocks' : \A j \in 1 .. b[2] : InBlock(b[1], j)'
<1> SUFFICES ASSUME NEW b \in blocks', NEW j \in 1 .. b[2] PROVE InBlock(b[1], j)'
  OBVIOUS
<1>1. b \in blocks /\ b[2] \in Nat /\ b = <<b[1], b[2], b[3]>> /\ b[3] \in Kinds
  BY NestAssumption DEF TypeOK
<1>2. PICK other \in Kinds : <<b[1], j, other>> \in blocks
  BY <1>1 DEF LeaseInv, InBlock
<1>3. CASE <<b[1], j, other>> # <<c, k, kind>>
  BY <1>2, <1>3 DEF InBlock
<1>4. CASE b[1] = c /\ j = k
  <2>1. b[2] = k
    <3>1. b[2] > k => InBlock(c, k + 1)
      BY <1>1, <1>4 DEF LeaseInv
    <3> QED
      BY <1>1, <1>4, <3>1 DEF Innermost
  <2> QED
    BY <1>1, <1>4, <2>1 DEF InBlock
<1> QED
  BY <1>3, <1>4

-----------------------------------------------------------------------------
LEMMA InitInv == Init => IInv
<1> SUFFICES ASSUME Init PROVE IInv
  OBVIOUS
<1>1. TypeOK
  BY NestAssumption DEF Init, TypeOK
<1>2. /\ \A o : Held(o) = {} /\ Direct(o) = {}
      /\ Exclusive = {} /\ Shared = {} /\ blocks = {}
  BY DEF Init, Held, Direct, Exclusive, Shared
<1>3. IsFiniteSet(blocks) /\ Accounting
  BY <1>2, FS_EmptySet DEF Init, Accounting
<1>4. LeaseInv
  BY DEF Init, LeaseInv
<1>5. BarrierInv
  BY <1>2, DistinctAssumption, RoleAssumption DEF Init, BarrierInv
<1> QED
  BY <1>1, <1>3, <1>4, <1>5 DEF IInv

(* EnterShared and WakeShared.                                             *)
LEMMA AdmitInv ==
  ASSUME IInv, NEW c \in Callers, NEW k \in 1 .. MaxNest,
         NextLevel(c, k), Admit(c, k),
         c \in Leases => lease_state[c] = "started",
         Reentrant(OwnerOf(c)) \/ exclusive_owner = NoOne,
         waiting' \in [Callers -> {"no", "shared", "exclusive"}],
         \A d \in Callers : waiting'[d] # "no" => waiting'[d] = waiting[d]
  PROVE  IInv'
<1> DEFINE x == <<c, k, "shared">>
<1> USE DEF IInv
<1>1. /\ x \notin blocks /\ blocks' = blocks \cup {x} /\ UNCHANGED lease_owner
      /\ k \in Levels /\ k > 0
  BY NestAssumption DEF NextLevel, InBlock, Admit, workers
<1>2. OwnerOf(c) \in Owners
  BY DEF LeaseInv, OwnerOf, TypeOK
<1>3. TypeOK'
  BY <1>1, <1>2 DEF TypeOK, Admit, Count, writer, fence, workers, tasks
<1>4. /\ IsFiniteSet(blocks')
      /\ \A o : Cardinality(Held(o)') =
                  Cardinality(Held(o)) + (IF OwnerOf(c) = o THEN 1 ELSE 0)
      /\ \A t : Cardinality(Direct(t)') =
                  Cardinality(Direct(t)) + (IF c = t THEN 1 ELSE 0)
      /\ Exclusive' = Exclusive
  BY <1>1, OpenShared
<1>5. Accounting'
  <2>1. ASSUME NEW o \in Owners PROVE active_by_owner'[o] = Cardinality(Held(o)')
    BY <1>2, <1>4 DEF TypeOK, Accounting, Admit, Count
  <2>2. ASSUME NEW t \in Tasks PROVE direct_by_owner'[t] = Cardinality(Direct(t)')
    <3>1. c # t /\ Cardinality(Direct(t)) \in Nat
      BY DistinctAssumption, CountsFinite
    <3> QED
      BY <1>4, <3>1 DEF Accounting, Admit
  <2> QED
    BY <1>4, <2>1, <2>2 DEF Accounting, Admit, writer
<1>6. LeaseInv'
  <2>1. \A b \in blocks' : \A j \in 1 .. b[2] : InBlock(b[1], j)'
    BY <1>1, OpenLevels DEF Admit
  <2> QED
    BY <1>1, <2>1, NestAssumption DEF LeaseInv, Admit, workers, TypeOK, NextLevel, OwnerOf
<1>7. BarrierInv'
  <2>1. exclusive_owner # NoOne => OwnerOf(c) = exclusive_owner
    BY <1>2, CountsWitness DEF Reentrant, Accounting, BarrierInv, Shared
  <2> QED
    BY <1>1, <1>4, <2>1 DEF BarrierInv, Admit, writer, fence, workers, tasks, OwnerOf
<1> QED
  BY <1>3, <1>4, <1>5, <1>6, <1>7

LEMMA LeaveSharedInv ==
  ASSUME IInv, NEW c \in Callers, NEW k \in 1 .. MaxNest, LeaveShared(c, k)
  PROVE  IInv'
<1> DEFINE x == <<c, k, "shared">>
<1> USE DEF IInv
<1>1. /\ x \in blocks /\ blocks' = blocks \ {x} /\ UNCHANGED lease_owner
      /\ ~InBlock(c, k + 1)
  BY DEF LeaveShared, Innermost, workers
<1>2. OwnerOf(c) \in Owners
  BY DEF LeaseInv, OwnerOf, TypeOK, LeaveShared, Running
<1>3. TypeOK'
  BY <1>1, <1>2 DEF TypeOK, LeaveShared, Discount, writer, fence, workers, tasks
<1>4. /\ IsFiniteSet(blocks')
      /\ \A o : Cardinality(Held(o)') =
                  Cardinality(Held(o)) - (IF OwnerOf(c) = o THEN 1 ELSE 0)
      /\ \A t : Cardinality(Direct(t)') =
                  Cardinality(Direct(t)) - (IF c = t THEN 1 ELSE 0)
      /\ Exclusive' = Exclusive /\ Cardinality(Held(OwnerOf(c))) > 0
  BY <1>1, CloseShared
<1>5. Accounting'
  <2>1. ASSUME NEW o \in Owners PROVE active_by_owner'[o] = Cardinality(Held(o)')
    BY <1>2, <1>4 DEF TypeOK, Accounting, LeaveShared, Discount
  <2>2. ASSUME NEW t \in Tasks PROVE direct_by_owner'[t] = Cardinality(Direct(t)')
    <3>1. c # t /\ Cardinality(Direct(t)) \in Nat
      BY DistinctAssumption, CountsFinite
    <3> QED
      BY <1>4, <3>1 DEF Accounting, LeaveShared
  <2> QED
    BY <1>4, <2>1, <2>2 DEF Accounting, LeaveShared, writer
<1>6. LeaseInv'
  <2>1. \A b \in blocks' : \A j \in 1 .. b[2] : InBlock(b[1], j)'
    BY CloseLevels DEF LeaveShared
  <2> QED
    BY <1>1, <2>1, NestAssumption DEF LeaseInv, LeaveShared, workers, TypeOK, OwnerOf
<1>7. BarrierInv'
  BY <1>1, <1>4 DEF BarrierInv, LeaveShared, writer, fence, workers, tasks, OwnerOf
<1> QED
  BY <1>3, <1>4, <1>5, <1>6, <1>7

(* The steps that only make a caller wait, or start a worker.              *)
LEMMA WaitInv ==
  ASSUME IInv, UNCHANGED <<counters, writer, fence, delegated_workers, lease_owner, tasks, blocks>>,
         waiting' \in [Callers -> {"no", "shared", "exclusive"}],
         lease_state' \in [Leases -> {"dispatched", "cancelled", "started", "released"}],
         \A l \in Leases :
           /\ lease_state[l] = "released" <=> lease_state'[l] = "released"
           /\ lease_state[l] = "started" => lease_state'[l] = "started"
           /\ waiting'[l] # "no" => lease_state'[l] = "started",
         \A c \in Callers : waiting'[c] = "exclusive" => OwnerOf(c) \notin Lifespan
  PROVE  IInv'
<1> USE DEF IInv
<1>1. TypeOK'
  BY DEF TypeOK, counters, writer, fence, tasks
<1>2. /\ \A o : Held(o)' = Held(o) /\ Direct(o)' = Direct(o)
      /\ Exclusive' = Exclusive /\ IsFiniteSet(blocks')
  BY DEF Held, Direct, Shared, Exclusive, OwnerOf
<1>3. Accounting'
  BY <1>2 DEF Accounting, counters, writer
<1>4. LeaseInv'
  BY DEF LeaseInv, TypeOK, InBlock, OwnerOf
<1>5. BarrierInv'
  BY <1>2 DEF BarrierInv, writer, fence, tasks, OwnerOf
<1> QED
  BY <1>1, <1>2, <1>3, <1>4, <1>5

(* Taking the barrier (EnterExclusive, ShutdownAcquire): every open block  *)
(* is the taker's own, because no other owner has a counted admission.     *)
LEMMA BarrierAlone ==
  ASSUME IInv, NEW o \in Owners, exclusive_owner = NoOne, ~OthersActive(o)
  PROVE  /\ \A b \in blocks : OwnerOf(b[1]) = o
         /\ Exclusive = {} /\ exclusive_depth = 0
<1> USE DEF IInv
<1>1. Exclusive = {} /\ exclusive_depth = 0
  BY FS_EmptySet DEF BarrierInv, Accounting
<1>2. ASSUME NEW b \in blocks PROVE OwnerOf(b[1]) = o
  <2>1. b \in Shared
    BY <1>1 DEF Exclusive, Shared, TypeOK
  <2>2. OwnerOf(b[1]) \in Owners
    BY DEF TypeOK, LeaseInv, OwnerOf
  <2>3. active_by_owner[OwnerOf(b[1])] > 0
    BY <2>1, <2>2, CountsWitness DEF Accounting
  <2> QED
    BY <2>2, <2>3 DEF OthersActive
<1> QED
  BY <1>1, <1>2

LEMMA EnterExclusiveInv ==
  ASSUME IInv, NEW c \in Callers, NEW k \in 1 .. MaxNest, EnterExclusive(c, k)
  PROVE  IInv'
<1> DEFINE x == <<c, k, "exclusive">>
<1> DEFINE o == OwnerOf(c)
<1> USE DEF IInv
<1>1. /\ x \notin blocks /\ blocks' = blocks \cup {x} /\ UNCHANGED lease_owner
      /\ k \in Levels /\ k > 0
  BY NestAssumption DEF EnterExclusive, NextLevel, InBlock, workers
<1>2. /\ c \in Leases => lease_state[c] = "started"
      /\ o \notin Lifespan /\ exclusive_owner' = o
  BY DEF EnterExclusive, ExclusiveAllowed, Running, LeaseInv
<1>3. o \in Owners /\ c \notin Tasks /\ o # NoOne
  <2>1. CASE c \in Leases
    <3>1. lease_state[c] # "released" /\ o = lease_owner[c]
      BY <1>2, <2>1 DEF OwnerOf
    <3>2. lease_owner[c] \in Tasks
      BY <2>1, <3>1 DEF LeaseInv
    <3> QED
      BY <3>1, <3>2, DistinctAssumption
  <2>2. CASE c \in Threads
    BY <2>2, DistinctAssumption DEF OwnerOf
  <2> QED
    BY <2>1, <2>2
<1>4. \/ exclusive_owner = o /\ exclusive_depth' = exclusive_depth + 1
      \/ exclusive_owner = NoOne /\ ~OthersActive(o) /\ exclusive_depth' = 1
  BY DEF EnterExclusive
<1>5. TypeOK'
  BY <1>1, <1>3, <1>4 DEF TypeOK, EnterExclusive, counters, fence, workers, tasks
<1>6. /\ IsFiniteSet(blocks')
      /\ \A p : Held(p)' = Held(p) /\ Direct(p)' = Direct(p)
      /\ Exclusive' = Exclusive \cup {x}
      /\ Cardinality(Exclusive') = Cardinality(Exclusive) + 1
  BY <1>1, OpenExclusive
<1>7. /\ \A b \in blocks : OwnerOf(b[1]) = o
      /\ exclusive_depth' = exclusive_depth + 1
  BY <1>3, <1>4, BarrierAlone DEF BarrierInv, TypeOK
<1>8. Accounting'
  BY <1>6, <1>7 DEF Accounting, EnterExclusive, counters
<1>9. LeaseInv'
  <2>1. \A b \in blocks' : \A j \in 1 .. b[2] : InBlock(b[1], j)'
    BY <1>1, OpenLevels DEF EnterExclusive
  <2> QED
    BY <1>1, <1>2, <2>1, NestAssumption
       DEF LeaseInv, EnterExclusive, workers, TypeOK, NextLevel, OwnerOf
<1>10. BarrierInv'
  BY <1>1, <1>2, <1>3, <1>6, <1>7
     DEF BarrierInv, EnterExclusive, fence, workers, tasks, OwnerOf
<1> QED
  BY <1>5, <1>6, <1>8, <1>9, <1>10

LEMMA LeaveExclusiveInv ==
  ASSUME IInv, NEW c \in Callers, NEW k \in 1 .. MaxNest, LeaveExclusive(c, k)
  PROVE  IInv'
<1> DEFINE x == <<c, k, "exclusive">>
<1> USE DEF IInv
<1>1. /\ x \in blocks /\ blocks' = blocks \ {x} /\ UNCHANGED lease_owner
      /\ ~InBlock(c, k + 1) /\ exclusive_owner = OwnerOf(c)
  BY DEF LeaveExclusive, Innermost, workers
<1>2. x \in Exclusive
  BY <1>1 DEF Exclusive
<1>3. /\ IsFiniteSet(blocks')
      /\ \A p : Held(p)' = Held(p) /\ Direct(p)' = Direct(p)
      /\ Exclusive' = Exclusive \ {x}
      /\ Cardinality(Exclusive') = Cardinality(Exclusive) - 1
      /\ Exclusive' = {} <=> Cardinality(Exclusive) = 1
  BY <1>1, CloseExclusive
<1>4. exclusive_depth = Cardinality(Exclusive) /\ exclusive_depth > 0
  BY <1>2, CountsWitness DEF Accounting
<1>5. TypeOK'
  BY <1>1, <1>4 DEF TypeOK, LeaveExclusive, EndBarrier, counters, fence, workers, tasks
<1>6. Accounting'
  BY <1>3, <1>4 DEF Accounting, LeaveExclusive, EndBarrier, counters
<1>7. LeaseInv'
  <2>1. \A b \in blocks' : \A j \in 1 .. b[2] : InBlock(b[1], j)'
    BY CloseLevels DEF LeaveExclusive
  <2> QED
    BY <1>1, <2>1, NestAssumption DEF LeaseInv, LeaveExclusive, workers, TypeOK, OwnerOf
<1>8. BarrierInv'
  BY <1>1, <1>2, <1>3, <1>4, DistinctAssumption, RoleAssumption
     DEF BarrierInv, LeaveExclusive, EndBarrier, fence, workers, tasks, OwnerOf, TypeOK
<1> QED
  BY <1>3, <1>5, <1>6, <1>7, <1>8

LEMMA AsyncEnterInv ==
  ASSUME IInv, NEW t \in Tasks, NEW k \in 1 .. MaxNest, AsyncEnter(t, k)
  PROVE  IInv'
<1> DEFINE x == <<t, k, "shared">>
<1> USE DEF IInv
<1>1. /\ x \notin blocks /\ blocks' = blocks \cup {x} /\ UNCHANGED lease_owner
      /\ k \in Levels /\ k > 0 /\ OwnerOf(t) = t
  BY NestAssumption, DistinctAssumption DEF AsyncEnter, NextLevel, InBlock, workers, OwnerOf
<1>2. TypeOK'
  BY <1>1 DEF TypeOK, AsyncEnter, Count, writer, fence, workers, tasks
<1>3. /\ IsFiniteSet(blocks')
      /\ \A o : Cardinality(Held(o)') =
                  Cardinality(Held(o)) + (IF OwnerOf(t) = o THEN 1 ELSE 0)
      /\ \A u : Cardinality(Direct(u)') =
                  Cardinality(Direct(u)) + (IF t = u THEN 1 ELSE 0)
      /\ Exclusive' = Exclusive
  BY <1>1, OpenShared
<1>4. Accounting'
  <2>1. ASSUME NEW o \in Owners PROVE active_by_owner'[o] = Cardinality(Held(o)')
    BY <1>1, <1>3 DEF TypeOK, Accounting, AsyncEnter, Count
  <2>2. ASSUME NEW u \in Tasks PROVE direct_by_owner'[u] = Cardinality(Direct(u)')
    BY <1>3 DEF TypeOK, Accounting, AsyncEnter
  <2> QED
    BY <1>3, <2>1, <2>2 DEF Accounting, AsyncEnter, writer
<1>5. LeaseInv'
  <2>1. \A b \in blocks' : \A j \in 1 .. b[2] : InBlock(b[1], j)'
    BY <1>1, OpenLevels DEF AsyncEnter
  <2> QED
    BY <1>1, <2>1, NestAssumption, DistinctAssumption
       DEF LeaseInv, AsyncEnter, workers, TypeOK, NextLevel, OwnerOf
<1>6. BarrierInv'
  <2>1. exclusive_owner # NoOne => t = exclusive_owner
    BY CountsWitness DEF AsyncEnter, AsyncAllowed, Unfenced, Reentrant, Accounting, BarrierInv, Shared
  <2> QED
    BY <1>1, <1>3, <2>1 DEF BarrierInv, AsyncEnter, writer, fence, workers, tasks, OwnerOf
<1> QED
  BY <1>2, <1>3, <1>4, <1>5, <1>6

(* The steps in which a task leaves its section: AsyncLeave, AwaitReturns  *)
(* and an undrained CancelAwait.                                           *)
LEMMA LeaveDirectInv ==
  ASSUME IInv, NEW t \in Tasks, NEW k \in 1 .. MaxNest, LeaveDirect(t, k),
         UNCHANGED <<writer, fence, delegated_workers, lease_owner, waiting>>,
         task_pc' = task_pc \/ task_pc' = [task_pc EXCEPT ![t] = "run"],
         awaited' \in [Tasks -> Leases \cup {NoOne}],
         lease_state' \in [Leases -> {"dispatched", "cancelled", "started", "released"}],
         \A l \in Leases :
           /\ lease_state[l] = "released" <=> lease_state'[l] = "released"
           /\ lease_state[l] = "started" => lease_state'[l] = "started"
  PROVE  IInv'
<1> DEFINE x == <<t, k, "shared">>
<1> USE DEF IInv
<1>1. /\ x \in blocks /\ blocks' = blocks \ {x} /\ ~InBlock(t, k + 1)
      /\ OwnerOf(t) = t
  BY DistinctAssumption DEF LeaveDirect, Innermost, OwnerOf
<1>2. /\ IsFiniteSet(blocks')
      /\ \A o : Cardinality(Held(o)') =
                  Cardinality(Held(o)) - (IF OwnerOf(t) = o THEN 1 ELSE 0)
      /\ \A u : Cardinality(Direct(u)') =
                  Cardinality(Direct(u)) - (IF t = u THEN 1 ELSE 0)
      /\ Exclusive' = Exclusive /\ Cardinality(Held(t)) > 0
  BY <1>1, CloseShared
<1>3. direct_by_owner[t] > 0
  <2>1. x \in Direct(t)
    BY <1>1 DEF Direct, Shared
  <2>2. Cardinality(Direct(t)) # 0
    BY <2>1, CountsFinite, FS_EmptySet
  <2> QED
    BY <2>2, CountsFinite DEF Accounting
<1>4. /\ Discount(t)
      /\ direct_by_owner' = [direct_by_owner EXCEPT ![t] = @ - 1]
  BY <1>3 DEF LeaveDirect
<1>5. TypeOK'
  BY <1>1, <1>3, <1>4 DEF TypeOK, Discount, writer, fence
<1>6. Accounting'
  <2>1. ASSUME NEW o \in Owners PROVE active_by_owner'[o] = Cardinality(Held(o)')
    BY <1>1, <1>2, <1>4 DEF TypeOK, Accounting, Discount
  <2>2. ASSUME NEW u \in Tasks PROVE direct_by_owner'[u] = Cardinality(Direct(u)')
    BY <1>2, <1>4 DEF TypeOK, Accounting
  <2> QED
    BY <1>2, <2>1, <2>2 DEF Accounting, writer
<1>7. LeaseInv'
  <2>1. \A b \in blocks' : \A j \in 1 .. b[2] : InBlock(b[1], j)'
    BY <1>1, CloseLevels DEF LeaveDirect
  <2> QED
    BY <1>1, <2>1, NestAssumption, DistinctAssumption DEF LeaseInv, TypeOK, OwnerOf
<1>8. BarrierInv'
  BY <1>1, <1>2 DEF BarrierInv, TypeOK, writer, fence, OwnerOf
<1> QED
  BY <1>2, <1>5, <1>6, <1>7, <1>8

LEMMA DispatchInv ==
  ASSUME IInv, NEW t \in Tasks, NEW l \in Leases, NEW k \in 1 .. MaxNest, Dispatch(t, l, k)
  PROVE  IInv'
<1> DEFINE x == <<t, k, "shared">>
<1> DEFINE y == <<l, 0, "shared">>
<1> USE DEF IInv
<1>1. /\ x \notin blocks /\ blocks' = blocks \cup {x, y}
      /\ k \in Levels /\ k > 0 /\ 0 \in Levels /\ t # l
      /\ t \notin Leases /\ l \notin Tasks
  BY NestAssumption, DistinctAssumption DEF Dispatch, NextLevel, InBlock
<1>2. /\ \A b \in blocks : b[1] # l
      /\ lease_owner' = [lease_owner EXCEPT ![l] = t]
      /\ y \notin blocks
  BY DEF Dispatch, LeaseInv
<1>3. /\ \A b \in blocks : OwnerOf(b[1])' = OwnerOf(b[1])
      /\ OwnerOf(t)' = t /\ OwnerOf(l)' = t
  BY <1>1, <1>2 DEF OwnerOf, TypeOK
<1>4. TypeOK'
  BY <1>1, <1>2 DEF TypeOK, Dispatch, Count, writer, fence
<1>5. IsFiniteSet(blocks')
  <2>1. IsFiniteSet(blocks \cup {x}) /\ blocks' = (blocks \cup {x}) \cup {y}
    BY <1>1, FS_AddElement
  <2> QED
    BY <2>1, FS_AddElement
<1>6. ASSUME NEW o
      PROVE  Cardinality(Held(o)') = Cardinality(Held(o)) + (IF t = o THEN 2 ELSE 0)
  <2>1. IsFiniteSet(Held(o)) /\ Cardinality(Held(o)) \in Nat
    BY CountsFinite
  <2>2. CASE t = o
    <3>1. Held(o)' = (Held(o) \cup {x}) \cup {y}
      BY <1>1, <1>3, <2>2 DEF Held, Shared
    <3>2. x \notin Held(o) /\ y \notin Held(o) \cup {x}
      BY <1>1, <1>2 DEF Held, Shared
    <3>3. /\ IsFiniteSet(Held(o) \cup {x})
          /\ Cardinality(Held(o) \cup {x}) = Cardinality(Held(o)) + 1
      BY <2>1, <3>2, FS_AddElement
    <3>4. Cardinality((Held(o) \cup {x}) \cup {y}) = Cardinality(Held(o) \cup {x}) + 1
      BY <3>2, <3>3, FS_AddElement
    <3> QED
      BY <2>1, <2>2, <3>1, <3>3, <3>4
  <2>3. CASE t # o
    <3>1. Held(o)' = Held(o)
      BY <1>1, <1>3, <2>3 DEF Held, Shared
    <3> QED
      BY <2>1, <2>3, <3>1
  <2> QED
    BY <2>2, <2>3
<1>7. ASSUME NEW u \in Tasks
      PROVE  Cardinality(Direct(u)') = Cardinality(Direct(u)) + (IF t = u THEN 1 ELSE 0)
  <2>1. IsFiniteSet(Direct(u)) /\ Cardinality(Direct(u)) \in Nat
    BY CountsFinite
  <2>2. Direct(u)' = IF t = u THEN Direct(u) \cup {x} ELSE Direct(u)
    BY <1>1 DEF Direct, Shared
  <2>3. x \notin Direct(u)
    BY <1>1 DEF Direct, Shared
  <2>4. CASE t = u
    BY <2>1, <2>2, <2>3, <2>4, FS_AddElement
  <2>5. CASE t # u
    BY <2>1, <2>2, <2>5
  <2> QED
    BY <2>4, <2>5
<1>8. Exclusive' = Exclusive
  BY <1>1 DEF Exclusive
<1>9. Accounting'
  <2>1. ASSUME NEW o \in Owners PROVE active_by_owner'[o] = Cardinality(Held(o)')
    BY <1>6 DEF TypeOK, Accounting, Dispatch, Count
  <2>2. ASSUME NEW u \in Tasks PROVE direct_by_owner'[u] = Cardinality(Direct(u)')
    BY <1>7 DEF TypeOK, Accounting, Dispatch
  <2> QED
    BY <1>8, <2>1, <2>2 DEF Accounting, Dispatch, writer
<1>10. LeaseInv'
  <2>1. waiting[l] = "no" /\ waiting' = waiting
    BY DEF Dispatch, LeaseInv, TypeOK
  <2>2. lease_state' = [lease_state EXCEPT ![l] = "dispatched"]
    BY DEF Dispatch
  <2>3. /\ \A m \in Leases : lease_state'[m] # "released" =>
             <<m, 0, "shared">> \in blocks' /\ lease_owner'[m] \in Tasks
        /\ \A b \in blocks' : b[1] \in Leases =>
             /\ lease_state'[b[1]] # "released"
             /\ b[2] > 0 => lease_state'[b[1]] = "started"
    BY <1>1, <1>2, <2>2 DEF LeaseInv, TypeOK
  <2>4. /\ \A b \in blocks' : b[2] = 0 => b[1] \in Leases /\ b[3] = "shared"
        /\ \A m \in Leases : waiting'[m] # "no" => lease_state'[m] = "started"
    BY <1>1, <2>1, <2>2 DEF LeaseInv, TypeOK
  <2>5. \A b \in blocks' : \A j \in 1 .. b[2] : InBlock(b[1], j)'
    BY <1>1, OpenLevels DEF Dispatch
  <2>6. \A c \in Callers : waiting'[c] = "exclusive" => OwnerOf(c)' \notin Lifespan
    BY <1>2, <2>1 DEF LeaseInv, OwnerOf, TypeOK
  <2> QED
    BY <2>3, <2>4, <2>5, <2>6 DEF LeaseInv
<1>11. BarrierInv'
  <2>1. exclusive_owner # NoOne => t = exclusive_owner
    BY CountsWitness DEF Dispatch, AsyncAllowed, Unfenced, Reentrant, Accounting, BarrierInv, Shared
  <2>2. exclusive_owner # NoOne => \A s \in blocks' : OwnerOf(s[1])' = exclusive_owner
    BY <1>1, <1>3, <2>1 DEF BarrierInv
  <2>3. exclusive_owner \in Lifespan => \A m \in delegated_workers' : lease_owner'[m] = exclusive_owner
    <3>1. delegated_workers' = delegated_workers \cup {l}
      BY DEF Dispatch
    <3>2. exclusive_owner \in Lifespan => exclusive_owner # NoOne
      BY DistinctAssumption, RoleAssumption
    <3> QED
      BY <1>2, <2>1, <3>1, <3>2 DEF BarrierInv, TypeOK
  <2>4. \A u \in Tasks : task_pc'[u] = "poll" => task_pc[u] = "poll"
    BY DEF Dispatch, TypeOK
  <2> QED
    BY <1>8, <2>2, <2>3, <2>4 DEF BarrierInv, Dispatch, writer, fence
<1> QED
  BY <1>4, <1>5, <1>9, <1>10, <1>11

(* FinishWorker, and WorkerDone for a worker that never started.           *)
LEMMA ReleaseInv ==
  ASSUME IInv, NEW l \in Leases, Release(l), lease_state[l] # "released",
         \A b \in blocks : b[1] = l => b[2] = 0,
         waiting[l] = "no",
         delegated_workers' \subseteq delegated_workers,
         UNCHANGED <<direct_by_owner, writer, fence, lease_owner, tasks, waiting>>
  PROVE  IInv'
<1> DEFINE x == <<l, 0, "shared">>
<1> USE DEF IInv
<1>1. /\ x \in blocks /\ blocks' = blocks \ {x}
      /\ OwnerOf(l) = lease_owner[l] /\ lease_owner[l] \in Tasks
      /\ l \notin Tasks
  BY DistinctAssumption DEF Release, LeaseInv, OwnerOf
<1>2. \A b \in blocks' : b[1] # l
  BY <1>1 DEF LeaseInv, TypeOK
<1>3. /\ IsFiniteSet(blocks')
      /\ \A o : Cardinality(Held(o)') =
                  Cardinality(Held(o)) - (IF OwnerOf(l) = o THEN 1 ELSE 0)
      /\ \A u : Cardinality(Direct(u)') =
                  Cardinality(Direct(u)) - (IF l = u THEN 1 ELSE 0)
      /\ Exclusive' = Exclusive /\ Cardinality(Held(OwnerOf(l))) > 0
  BY <1>1, CloseShared
<1>4. TypeOK'
  BY <1>1 DEF TypeOK, Release, Discount, writer, fence, tasks
<1>5. Accounting'
  <2>1. ASSUME NEW o \in Owners PROVE active_by_owner'[o] = Cardinality(Held(o)')
    BY <1>1, <1>3 DEF TypeOK, Accounting, Release, Discount
  <2>2. ASSUME NEW u \in Tasks PROVE direct_by_owner'[u] = Cardinality(Direct(u)')
    <3>1. l # u /\ Cardinality(Direct(u)) \in Nat
      BY <1>1, CountsFinite
    <3> QED
      BY <1>3, <3>1 DEF Accounting
  <2> QED
    BY <1>3, <2>1, <2>2 DEF Accounting, writer
<1>6. LeaseInv'
  BY <1>1, <1>2 DEF LeaseInv, Release, TypeOK, InBlock, OwnerOf
<1>7. BarrierInv'
  BY <1>1, <1>3 DEF BarrierInv, writer, fence, tasks, OwnerOf
<1> QED
  BY <1>3, <1>4, <1>5, <1>6, <1>7

LEMMA FinishWorkerInv ==
  ASSUME IInv, NEW l \in Leases, FinishWorker(l)
  PROVE  IInv'
<1> USE DEF IInv
<1>1. lease_state[l] # "released" /\ waiting[l] = "no" /\ l \in Callers
  BY DEF FinishWorker, Running, LeaseInv, TypeOK
<1>2. ASSUME NEW b \in blocks, b[1] = l PROVE b[2] = 0
  <2>1. b[2] \in Levels /\ (b[2] > 0 => ~InBlock(l, 1))
    BY <1>2 DEF FinishWorker, LeaseInv, TypeOK
  <2>2. b[2] > 0 => InBlock(l, 1)
    BY <1>2, <2>1, NestAssumption DEF LeaseInv
  <2> QED
    BY <2>1, <2>2, NestAssumption
<1> QED
  BY <1>1, <1>2, ReleaseInv DEF FinishWorker

LEMMA WorkerDoneInv ==
  ASSUME IInv, NEW l \in Leases, WorkerDone(l)
  PROVE  IInv'
<1> USE DEF IInv
<1>1. CASE lease_state[l] \in {"dispatched", "cancelled"}
  <2>1. Release(l) /\ lease_state[l] # "released" /\ waiting[l] = "no"
    BY <1>1 DEF WorkerDone, LeaseInv, TypeOK
  <2>2. \A b \in blocks : b[1] = l => b[2] = 0
    BY <1>1, NestAssumption DEF LeaseInv, TypeOK
  <2> QED
    BY <2>1, <2>2, ReleaseInv DEF WorkerDone
<1>2. CASE lease_state[l] \notin {"dispatched", "cancelled"}
  <2>1. /\ UNCHANGED <<counters, writer, fence, lease_owner, lease_state, tasks, waiting, blocks>>
        /\ delegated_workers' \subseteq delegated_workers
    BY <1>2 DEF WorkerDone, counters
  <2>2. /\ \A o : Held(o)' = Held(o) /\ Direct(o)' = Direct(o)
        /\ Exclusive' = Exclusive /\ IsFiniteSet(blocks')
    BY <2>1 DEF Held, Direct, Shared, Exclusive, OwnerOf
  <2>3. TypeOK' /\ Accounting'
    BY <2>1, <2>2 DEF TypeOK, Accounting, counters, writer, fence, tasks
  <2>4. LeaseInv' /\ BarrierInv'
    BY <2>1, <2>2 DEF LeaseInv, BarrierInv, InBlock, OwnerOf, writer, fence, tasks
  <2> QED
    BY <2>2, <2>3, <2>4
<1> QED
  BY <1>1, <1>2

LEMMA CancelAwaitInv ==
  ASSUME IInv, NEW t \in Tasks, NEW k \in 1 .. MaxNest, NEW drain \in BOOLEAN,
         CancelAwait(t, k, drain)
  PROVE  IInv'
<1> USE DEF IInv
<1>1. /\ lease_state' \in [Leases -> {"dispatched", "cancelled", "started", "released"}]
      /\ \A l \in Leases :
           /\ lease_state[l] = "released" <=> lease_state'[l] = "released"
           /\ lease_state[l] = "started" => lease_state'[l] = "started"
  BY DEF CancelAwait, TypeOK
<1>2. CASE drain
  <2>1. /\ UNCHANGED <<counters, writer, fence, delegated_workers, lease_owner, waiting, blocks, awaited>>
        /\ task_pc' = [task_pc EXCEPT ![t] = "drain"]
    BY <1>2 DEF CancelAwait
  <2>2. /\ \A o : Held(o)' = Held(o) /\ Direct(o)' = Direct(o)
        /\ Exclusive' = Exclusive /\ IsFiniteSet(blocks')
    BY <2>1 DEF Held, Direct, Shared, Exclusive, OwnerOf
  <2>3. TypeOK' /\ Accounting'
    BY <1>1, <2>1, <2>2 DEF TypeOK, Accounting, counters, writer, fence
  <2>4. LeaseInv'
    BY <1>1, <2>1 DEF LeaseInv, InBlock, OwnerOf, TypeOK
  <2>5. BarrierInv'
    BY <2>1, <2>2 DEF BarrierInv, OwnerOf, writer, fence, TypeOK
  <2> QED
    BY <2>2, <2>3, <2>4, <2>5
<1>3. CASE ~drain
  <2>1. LeaveDirect(t, k) /\ task_pc' = [task_pc EXCEPT ![t] = "run"]
    BY <1>3 DEF CancelAwait
  <2>2. awaited' \in [Tasks -> Leases \cup {NoOne}]
    BY <1>3 DEF CancelAwait, TypeOK
  <2> QED
    BY <1>1, <2>1, <2>2, LeaveDirectInv DEF CancelAwait
<1> QED
  BY <1>2, <1>3

(* The direct admissions of a task are among those of its owner, so that   *)
(* _release_owner leaves exactly the admissions of its workers.            *)
LEMMA TaskGoneInv ==
  ASSUME IInv, NEW t \in Tasks, TaskGone(t)
  PROVE  IInv'
<1> USE DEF IInv
<1>1. /\ blocks' = {b \in blocks : b[1] # t} /\ UNCHANGED lease_owner
      /\ t \notin Leases /\ shutdown_owner # t
  BY DistinctAssumption DEF TaskGone, workers
<1>2. blocks' \in SUBSET blocks /\ IsFiniteSet(blocks')
  BY <1>1, FS_Subset
<1>3. Exclusive' = Exclusive
  BY <1>1 DEF Exclusive, BarrierInv
<1>4. ASSUME NEW o
      PROVE  Cardinality(Held(o)') =
               Cardinality(Held(o)) - (IF t = o THEN Cardinality(Direct(t)) ELSE 0)
  <2>1. IsFiniteSet(Held(o)) /\ Cardinality(Held(o)) \in Nat
    BY CountsFinite
  <2>2. CASE t = o
    <3>1. Direct(t) \in SUBSET Held(o) /\ Held(o)' = Held(o) \ Direct(t)
      BY <1>1, <2>2 DEF Held, Direct, Shared, OwnerOf
    <3>2. /\ Held(o) \cap Direct(t) = Direct(t)
          /\ Cardinality(Held(o) \ Direct(t)) =
               Cardinality(Held(o)) - Cardinality(Held(o) \cap Direct(t))
      BY <2>1, <3>1, CountsFinite, FS_Difference
    <3> QED
      BY <2>2, <3>1, <3>2
  <2>3. CASE t # o
    <3>1. Held(o)' = Held(o)
      BY <1>1, <2>3 DEF Held, Shared, OwnerOf
    <3> QED
      BY <2>1, <2>3, <3>1
  <2> QED
    BY <2>2, <2>3
<1>5. ASSUME NEW u \in Tasks
      PROVE  Cardinality(Direct(u)') = IF t = u THEN 0 ELSE Cardinality(Direct(u))
  <2>1. Direct(u)' = IF t = u THEN {} ELSE Direct(u)
    BY <1>1 DEF Direct, Shared
  <2> QED
    BY <2>1, FS_EmptySet
<1>6. Accounting'
  <2>1. ASSUME NEW o \in Owners PROVE active_by_owner'[o] = Cardinality(Held(o)')
    <3>1. Cardinality(Held(o)) \in Nat /\ direct_by_owner[t] = Cardinality(Direct(t))
      BY CountsFinite DEF Accounting
    <3> QED
      BY <1>4, <3>1 DEF TypeOK, Accounting, TaskGone
  <2>2. ASSUME NEW u \in Tasks PROVE direct_by_owner'[u] = Cardinality(Direct(u)')
    BY <1>5 DEF TypeOK, Accounting, TaskGone
  <2> QED
    BY <1>3, <2>1, <2>2 DEF Accounting, TaskGone, writer
<1>7. TypeOK'
  <2>1. active_by_owner' \in [Owners -> Nat]
    <3>1. ASSUME NEW o \in Owners PROVE active_by_owner'[o] \in Nat
      <4>1. IsFiniteSet(Held(o)')
        <5>1. Held(o)' \in SUBSET blocks'
          BY DEF Held, Shared
        <5> QED
          BY <1>2, <5>1, FS_Subset
      <4> QED
        BY <1>6, <4>1, FS_CardinalityType DEF Accounting
    <3> QED
      BY <3>1 DEF TypeOK, TaskGone
  <2> QED
    BY <1>2, <2>1 DEF TypeOK, TaskGone, writer, fence, workers
<1>8. LeaseInv'
  <2>1. \A b \in blocks' : \A j \in 1 .. b[2] : InBlock(b[1], j)'
    BY <1>1 DEF LeaseInv, InBlock
  <2> QED
    BY <1>1, <2>1 DEF LeaseInv, TaskGone, workers, TypeOK, OwnerOf
<1>9. BarrierInv'
  BY <1>1, <1>3 DEF BarrierInv, TaskGone, TypeOK, writer, fence, workers, OwnerOf
<1> QED
  BY <1>2, <1>6, <1>7, <1>8, <1>9

LEMMA ShutdownBeginInv ==
  ASSUME IInv, NEW t \in Tasks, ShutdownBegin(t)
  PROVE  IInv'
<1> USE DEF IInv
<1>1. /\ UNCHANGED <<counters, writer, workers, awaited, waiting, blocks>>
      /\ t \in Lifespan /\ shutdown_owner = NoOne /\ shutdown_owner' = t /\ closing'
      /\ task_pc' = [task_pc EXCEPT ![t] = "poll"] /\ ~InBlock(t, 1)
  BY DEF ShutdownBegin
<1>2. /\ \A o : Held(o)' = Held(o) /\ Direct(o)' = Direct(o)
      /\ Exclusive' = Exclusive /\ IsFiniteSet(blocks')
  BY <1>1 DEF Held, Direct, Shared, Exclusive, OwnerOf, workers
<1>3. TypeOK' /\ Accounting'
  BY <1>1, <1>2 DEF TypeOK, Accounting, ShutdownBegin, counters, writer, workers
<1>4. LeaseInv'
  BY <1>1 DEF LeaseInv, InBlock, OwnerOf, workers
<1>5. BarrierInv'
  <2>1. \A b \in Exclusive : b[1] \notin Tasks
    BY <1>1, DistinctAssumption DEF BarrierInv
  <2>2. exclusive_owner \notin Lifespan
    BY <1>1, DistinctAssumption, RoleAssumption DEF BarrierInv
  <2>3. \A u \in Tasks : task_pc'[u] = "poll" => shutdown_owner' = u
    BY <1>1, DistinctAssumption DEF BarrierInv, TypeOK
  <2> QED
    BY <1>1, <1>2, <2>1, <2>2, <2>3 DEF BarrierInv, writer, workers, OwnerOf
<1> QED
  BY <1>2, <1>3, <1>4, <1>5

LEMMA ShutdownAcquireInv ==
  ASSUME IInv, NEW t \in Tasks, NEW k \in 1 .. MaxNest, ShutdownAcquire(t, k)
  PROVE  IInv'
<1> DEFINE x == <<t, k, "exclusive">>
<1> USE DEF IInv
<1>1. /\ x \notin blocks /\ blocks' = blocks \cup {x} /\ UNCHANGED lease_owner
      /\ k \in Levels /\ k > 0 /\ t \notin Leases /\ t # NoOne /\ OwnerOf(t) = t
  BY NestAssumption, DistinctAssumption DEF ShutdownAcquire, NextLevel, InBlock, workers, OwnerOf
<1>2. /\ shutdown_owner = t /\ exclusive_owner' = t
      /\ \/ exclusive_owner = t /\ exclusive_depth' = exclusive_depth + 1
         \/ /\ exclusive_owner = NoOne /\ ~OthersActive(t) /\ exclusive_depth' = 1
            /\ delegated_workers = {}
  BY DEF ShutdownAcquire, BarrierInv
<1>3. TypeOK'
  BY <1>1, <1>2 DEF TypeOK, ShutdownAcquire, counters, fence, workers
<1>4. /\ IsFiniteSet(blocks')
      /\ \A p : Held(p)' = Held(p) /\ Direct(p)' = Direct(p)
      /\ Exclusive' = Exclusive \cup {x}
      /\ Cardinality(Exclusive') = Cardinality(Exclusive) + 1
  BY <1>1, OpenExclusive
<1>5. /\ \A b \in blocks : OwnerOf(b[1]) = t
      /\ exclusive_depth' = exclusive_depth + 1
  BY <1>1, <1>2, BarrierAlone DEF BarrierInv, TypeOK
<1>6. Accounting'
  BY <1>4, <1>5 DEF Accounting, ShutdownAcquire, counters
<1>7. LeaseInv'
  <2>1. \A b \in blocks' : \A j \in 1 .. b[2] : InBlock(b[1], j)'
    BY <1>1, OpenLevels DEF ShutdownAcquire
  <2> QED
    BY <1>1, <2>1, NestAssumption DEF LeaseInv, ShutdownAcquire, workers, TypeOK, OwnerOf
<1>8. BarrierInv'
  <2>1. /\ exclusive_owner' # NoOne => \A s \in blocks' : OwnerOf(s[1])' = exclusive_owner'
        /\ \A b \in Exclusive' : b[1] \in Tasks => shutdown_owner' = b[1]
    BY <1>1, <1>2, <1>4, <1>5 DEF BarrierInv, ShutdownAcquire, fence, OwnerOf
  <2>2. /\ \A u \in Tasks : task_pc'[u] = "poll" => shutdown_owner' = u
        /\ shutdown_owner' # NoOne => closing'
    BY <1>2 DEF BarrierInv, ShutdownAcquire, fence, TypeOK
  <2>3. exclusive_owner' \in Lifespan =>
          /\ shutdown_owner' = exclusive_owner'
          /\ \A l \in delegated_workers' : lease_owner'[l] = exclusive_owner'
    BY <1>1, <1>2 DEF BarrierInv, ShutdownAcquire, fence, workers
  <2> QED
    BY <1>1, <1>2, <1>4, <2>1, <2>2, <2>3 DEF BarrierInv
<1> QED
  BY <1>3, <1>4, <1>6, <1>7, <1>8

LEMMA ShutdownLeaveInv ==
  ASSUME IInv, NEW t \in Tasks, NEW k \in 1 .. MaxNest, ShutdownLeave(t, k)
  PROVE  IInv'
<1> DEFINE x == <<t, k, "exclusive">>
<1> USE DEF IInv
<1>1. /\ x \in blocks /\ blocks' = blocks \ {x} /\ UNCHANGED lease_owner
      /\ exclusive_owner = t /\ task_pc' = task_pc
  BY DEF ShutdownLeave, Innermost, workers, tasks
<1>2. x \in Exclusive /\ shutdown_owner = t
  BY <1>1 DEF Exclusive, BarrierInv
<1>3. /\ IsFiniteSet(blocks')
      /\ \A p : Held(p)' = Held(p) /\ Direct(p)' = Direct(p)
      /\ Exclusive' = Exclusive \ {x}
      /\ Cardinality(Exclusive') = Cardinality(Exclusive) - 1
      /\ Exclusive' = {} <=> Cardinality(Exclusive) = 1
  BY <1>1, CloseExclusive
<1>4. exclusive_depth = Cardinality(Exclusive) /\ exclusive_depth > 0
  BY <1>2, CountsWitness DEF Accounting
<1>5. TypeOK'
  <2>1. exclusive_owner' \in Owners \cup {NoOne} /\ exclusive_depth' \in Nat
    BY <1>4 DEF TypeOK, ShutdownLeave, EndBarrier
  <2>2. closing' \in BOOLEAN /\ shutdown_owner' \in Lifespan \cup {NoOne}
    BY DEF TypeOK, ShutdownLeave, fence
  <2> QED
    BY <1>1, <2>1, <2>2 DEF TypeOK, ShutdownLeave, counters, workers, tasks
<1>6. Accounting'
  BY <1>3, <1>4 DEF Accounting, ShutdownLeave, EndBarrier, counters
<1>7. LeaseInv'
  <2>1. \A b \in blocks' : \A j \in 1 .. b[2] : InBlock(b[1], j)'
    BY CloseLevels DEF ShutdownLeave
  <2> QED
    BY <1>1, <2>1, NestAssumption DEF LeaseInv, ShutdownLeave, workers, TypeOK, OwnerOf
<1>8. BarrierInv'
  <2>1. CASE exclusive_depth = 1
    <3>1. /\ exclusive_owner' = NoOne /\ shutdown_owner' = NoOne /\ Exclusive' = {}
          /\ NoOne \notin Lifespan
      BY <1>3, <1>4, <2>1, DistinctAssumption, RoleAssumption DEF ShutdownLeave, EndBarrier
    <3>2. \A u \in Tasks : task_pc'[u] # "poll"
      BY <1>1, <1>2 DEF BarrierInv, ShutdownLeave
    <3> QED
      BY <3>1, <3>2 DEF BarrierInv
  <2>2. CASE exclusive_depth # 1
    <3>1. /\ exclusive_owner' = exclusive_owner /\ UNCHANGED fence /\ Exclusive' # {}
      BY <1>3, <1>4, <2>2 DEF ShutdownLeave, EndBarrier
    <3> QED
      BY <1>1, <1>2, <1>3, <3>1 DEF BarrierInv, ShutdownLeave, fence, workers, OwnerOf
  <2> QED
    BY <2>1, <2>2
<1> QED
  BY <1>3, <1>5, <1>6, <1>7, <1>8

-----------------------------------------------------------------------------
LEMMA NextInv == IInv /\ [Next]_vars => IInv'
<1> SUFFICES ASSUME IInv, [Next]_vars PROVE IInv'
  OBVIOUS
<1> USE DEF IInv
<1>1. ASSUME NEW c \in Callers, CallerStep(c) PROVE IInv'
  <2>1. CASE EnterSharedWaits(c)
    <3>1. \A l \in Leases : waiting'[l] # "no" => lease_state[l] = "started"
      BY <2>1 DEF EnterSharedWaits, Running, LeaseInv, TypeOK
    <3> QED
      BY <2>1, <3>1, WaitInv DEF EnterSharedWaits, TypeOK, LeaseInv, workers
  <2>2. CASE EnterExclusiveWaits(c)
    <3>1. \A l \in Leases : waiting'[l] # "no" => lease_state[l] = "started"
      BY <2>2 DEF EnterExclusiveWaits, ExclusiveAllowed, Running, LeaseInv, TypeOK
    <3>2. \A d \in Callers : waiting'[d] = "exclusive" => OwnerOf(d) \notin Lifespan
      BY <2>2 DEF EnterExclusiveWaits, ExclusiveAllowed, LeaseInv, TypeOK
    <3> QED
      BY <2>2, <3>1, <3>2, WaitInv DEF EnterExclusiveWaits, TypeOK, workers
  <2>3. ASSUME NEW k \in 1 .. MaxNest, EnterShared(c, k) PROVE IInv'
    BY <2>3, AdmitInv DEF EnterShared, Running, Unfenced, TypeOK
  <2>4. ASSUME NEW k \in 1 .. MaxNest, WakeShared(c, k) PROVE IInv'
    <3>1. c \in Leases => lease_state[c] = "started"
      BY <2>4 DEF WakeShared, LeaseInv
    <3>2. /\ waiting' \in [Callers -> {"no", "shared", "exclusive"}]
          /\ \A d \in Callers : waiting'[d] # "no" => waiting'[d] = waiting[d]
      BY <2>4 DEF WakeShared, TypeOK
    <3> QED
      BY <2>4, <3>1, <3>2, AdmitInv DEF WakeShared, Unfenced
  <2>5. ASSUME NEW k \in 1 .. MaxNest, LeaveShared(c, k) PROVE IInv'
    BY <2>5, LeaveSharedInv
  <2>6. ASSUME NEW k \in 1 .. MaxNest, EnterExclusive(c, k) PROVE IInv'
    BY <2>6, EnterExclusiveInv
  <2>7. ASSUME NEW k \in 1 .. MaxNest, LeaveExclusive(c, k) PROVE IInv'
    BY <2>7, LeaveExclusiveInv
  <2> QED
    BY <1>1, <2>1, <2>2, <2>3, <2>4, <2>5, <2>6, <2>7 DEF CallerStep
<1>2. ASSUME NEW l \in Leases, WorkerStep(l) PROVE IInv'
  <2>1. CASE StartWorker(l)
    <3>1. /\ lease_state' \in [Leases -> {"dispatched", "cancelled", "started", "released"}]
          /\ \A m \in Leases :
               /\ lease_state[m] = "released" <=> lease_state'[m] = "released"
               /\ lease_state[m] = "started" => lease_state'[m] = "started"
      BY <2>1 DEF StartWorker, TypeOK
    <3> QED
      BY <2>1, <3>1, WaitInv DEF StartWorker, LeaseInv, TypeOK
  <2> QED
    BY <1>2, <2>1, FinishWorkerInv, WorkerDoneInv DEF WorkerStep
<1>3. ASSUME NEW t \in Tasks, TaskStep(t) PROVE IInv'
  <2>1. ASSUME NEW k \in 1 .. MaxNest, AsyncLeave(t, k) PROVE IInv'
    BY <2>1, LeaveDirectInv DEF AsyncLeave, workers, tasks, TypeOK
  <2>2. ASSUME NEW k \in 1 .. MaxNest, AwaitReturns(t, k) PROVE IInv'
    <3>1. awaited' \in [Tasks -> Leases \cup {NoOne}]
      BY <2>2 DEF AwaitReturns, TypeOK
    <3> QED
      BY <2>2, <3>1, LeaveDirectInv DEF AwaitReturns, workers, TypeOK
  <2>3. ASSUME NEW k \in 1 .. MaxNest, NEW l \in Leases, Dispatch(t, l, k) PROVE IInv'
    BY <2>3, DispatchInv
  <2>4. ASSUME NEW k \in 1 .. MaxNest, NEW drain \in BOOLEAN, CancelAwait(t, k, drain)
        PROVE IInv'
    BY <2>4, CancelAwaitInv
  <2>5. ASSUME NEW k \in 1 .. MaxNest,
               AsyncEnter(t, k) \/ ShutdownAcquire(t, k) \/ ShutdownLeave(t, k)
        PROVE IInv'
    BY <2>5, AsyncEnterInv, ShutdownAcquireInv, ShutdownLeaveInv
  <2>6. CASE TaskGone(t) \/ ShutdownBegin(t)
    BY <2>6, TaskGoneInv, ShutdownBeginInv
  <2> QED
    BY <1>3, <2>1, <2>2, <2>3, <2>4, <2>5, <2>6 DEF TaskStep
<1>4. CASE UNCHANGED vars
  <2>1. /\ \A o : Held(o)' = Held(o) /\ Direct(o)' = Direct(o)
        /\ Exclusive' = Exclusive /\ IsFiniteSet(blocks')
    BY <1>4 DEF Held, Direct, Shared, Exclusive, OwnerOf, vars, workers
  <2>2. TypeOK' /\ Accounting'
    BY <1>4, <2>1 DEF vars, counters, writer, fence, workers, tasks, TypeOK, Accounting
  <2>3. LeaseInv' /\ BarrierInv'
    BY <1>4, <2>1 DEF vars, counters, writer, fence, workers, tasks,
                      LeaseInv, BarrierInv, InBlock, OwnerOf
  <2> QED
    BY <2>1, <2>2, <2>3
<1> QED
  BY <1>1, <1>2, <1>3, <1>4 DEF Next

(* IInv holds in every reachable state.                                    *)
THEOREM Invariant == Spec => []IInv
<1> QED
  BY InitInv, NextInv, PTL DEF Spec

(* The gate's state is well typed in every run of any size.                *)
THEOREM TypeCorrect == Spec => []TypeOK
<1>1. IInv => TypeOK
  BY DEF IInv
<1> QED
  BY <1>1, Invariant, PTL

(* No admission of any owner is leaked or released twice.                  *)
THEOREM AccountingCorrect == Spec => []Accounting
<1>1. IInv => Accounting
  BY DEF IInv
<1> QED
  BY <1>1, Invariant, PTL

(* An exclusive section excludes every section of every other owner.       *)
THEOREM ExclusionCorrect == Spec => []Exclusion
<1>1. IInv => Exclusion
  <2> SUFFICES ASSUME IInv, NEW b \in Exclusive
               PROVE  /\ exclusive_owner = OwnerOf(b[1])
                      /\ \A s \in blocks : OwnerOf(s[1]) = OwnerOf(b[1])
    BY DEF Exclusion
  <2>1. exclusive_owner # NoOne /\ b \in blocks
    BY DEF IInv, BarrierInv, Exclusive
  <2> QED
    BY <2>1 DEF IInv, BarrierInv
<1> QED
  BY <1>1, Invariant, PTL

(* The shutdown barrier is taken only when no foreign worker runs.         *)
THEOREM ShutdownCorrect == Spec => []ShutdownQuiescent
<1>1. IInv => ShutdownQuiescent
  <2> SUFFICES ASSUME IInv, NEW t \in Lifespan, shutdown_owner = t, exclusive_owner = t,
                      NEW l \in Leases, lease_state[l] = "started" \/ l \in delegated_workers
               PROVE  lease_owner[l] = t
    BY DEF ShutdownQuiescent
  <2>1. CASE l \in delegated_workers
    BY <2>1 DEF IInv, BarrierInv
  <2>2. CASE lease_state[l] = "started"
    <3>1. <<l, 0, "shared">> \in blocks /\ t # NoOne
      BY <2>2, DistinctAssumption, RoleAssumption DEF IInv, LeaseInv
    <3>2. OwnerOf(l) = t
      BY <3>1 DEF IInv, BarrierInv
    <3> QED
      BY <3>2 DEF OwnerOf
  <2> QED
    BY <2>1, <2>2
<1> QED
  BY <1>1, Invariant, PTL

(* While a writer waits, only owners already inside are admitted again.    *)
THEOREM PriorityCorrect == Spec => WriterPriority
<1>1. IInv /\ [Next]_vars =>
        [WaitingExclusive # {} =>
          \A o \in Owners : active_by_owner'[o] > active_by_owner[o] => Reentrant(o)]_vars
  <2> SUFFICES ASSUME IInv, Next, WaitingExclusive # {}, NEW o \in Owners,
                      active_by_owner'[o] > active_by_owner[o]
               PROVE  Reentrant(o)
    OBVIOUS
  <2> USE DEF IInv, TypeOK
  <2>1. ~Unfenced /\ active_by_owner[o] \in Nat
    BY DEF Unfenced
  <2>2. ASSUME NEW p, NEW n \in Nat, Count(p, n) PROVE p = o
    BY <2>2 DEF Count
  <2>3. ASSUME NEW p, Discount(p) PROVE FALSE
    BY <2>1, <2>3 DEF Discount
  <2>4. ASSUME UNCHANGED active_by_owner PROVE FALSE
    BY <2>1, <2>4
  <2>5. ASSUME NEW c \in Callers, CallerStep(c) PROVE Reentrant(o)
    <3>1. CASE EnterSharedWaits(c) \/ EnterExclusiveWaits(c)
      BY <2>4, <3>1 DEF EnterSharedWaits, EnterExclusiveWaits, counters
    <3>2. ASSUME NEW k \in 1 .. MaxNest, EnterShared(c, k) PROVE Reentrant(o)
      BY <2>1, <2>2, <3>2 DEF EnterShared, Admit
    <3>3. ASSUME NEW k \in 1 .. MaxNest, LeaveShared(c, k) PROVE Reentrant(o)
      BY <2>3, <3>3 DEF LeaveShared
    <3>4. ASSUME NEW k \in 1 .. MaxNest, EnterExclusive(c, k) \/ LeaveExclusive(c, k)
          PROVE  Reentrant(o)
      BY <2>4, <3>4 DEF EnterExclusive, LeaveExclusive, counters
    <3>5. ASSUME NEW k \in 1 .. MaxNest, WakeShared(c, k) PROVE Reentrant(o)
      BY <2>1, <3>5 DEF WakeShared
    <3> QED
      BY <2>5, <3>1, <3>2, <3>3, <3>4, <3>5 DEF CallerStep
  <2>6. ASSUME NEW l \in Leases, WorkerStep(l) PROVE Reentrant(o)
    BY <2>3, <2>4, <2>6
       DEF WorkerStep, StartWorker, FinishWorker, WorkerDone, Release, counters
  <2>7. ASSUME NEW t \in Tasks, TaskStep(t) PROVE Reentrant(o)
    <3>1. ASSUME NEW k \in 1 .. MaxNest, AsyncEnter(t, k) PROVE Reentrant(o)
      BY <2>1, <2>2, <3>1 DEF AsyncEnter, AsyncAllowed
    <3>2. ASSUME NEW k \in 1 .. MaxNest, NEW l \in Leases, Dispatch(t, l, k)
          PROVE  Reentrant(o)
      BY <2>1, <2>2, <3>2 DEF Dispatch, AsyncAllowed
    <3>3. ASSUME NEW k \in 1 .. MaxNest, LeaveDirect(t, k) PROVE Reentrant(o)
      BY <2>3, <2>4, <3>3 DEF LeaveDirect, counters
    <3>4. ASSUME NEW k \in 1 .. MaxNest, NEW drain \in BOOLEAN, CancelAwait(t, k, drain)
          PROVE  Reentrant(o)
      BY <2>4, <3>3, <3>4 DEF CancelAwait, counters
    <3>5. ASSUME NEW k \in 1 .. MaxNest, AsyncLeave(t, k) \/ AwaitReturns(t, k)
          PROVE  Reentrant(o)
      BY <3>3, <3>5 DEF AsyncLeave, AwaitReturns
    <3>6. ASSUME NEW k \in 1 .. MaxNest, ShutdownAcquire(t, k) \/ ShutdownLeave(t, k)
          PROVE  Reentrant(o)
      BY <2>4, <3>6 DEF ShutdownAcquire, ShutdownLeave, counters
    <3>7. CASE ShutdownBegin(t)
      BY <2>4, <3>7 DEF ShutdownBegin, counters
    <3>8. CASE TaskGone(t)
      BY <2>1, <3>8 DEF TaskGone
    <3> QED
      BY <2>7, <3>1, <3>2, <3>4, <3>5, <3>6, <3>7, <3>8 DEF TaskStep
  <2> QED
    BY <2>5, <2>6, <2>7 DEF Next
<1> QED
  BY <1>1, Invariant, PTL DEF Spec, WriterPriority

-----------------------------------------------------------------------------
(* The refinement of ExclusiveBarrier.                                     *)

(* An owner whose work is reentrant may be admitted beside the barrier.    *)
LEMMA ReentrantAdmits ==
  ASSUME IInv, NEW o \in Owners, Reentrant(o)
  PROVE  exclusive_owner \in {NoOne, o}
<1> SUFFICES ASSUME exclusive_owner # NoOne, active_by_owner[o] > 0
             PROVE  exclusive_owner = o
  BY DEF Reentrant
<1>1. Cardinality(Held(o)) > 0
  BY DEF IInv, Accounting
<1>2. PICK b \in Shared : OwnerOf(b[1]) = o
  BY <1>1, CountsWitness DEF IInv
<1> QED
  BY <1>2 DEF IInv, BarrierInv, Shared

LEMMA AdmitStep ==
  ASSUME NEW o \in Owners, NEW n \in 1 .. 2, Count(o, n),
         exclusive_owner \in {NoOne, o}, UNCHANGED exclusive_owner
  PROVE  Barrier!Admit(o)
BY DEF Count, Barrier!Admit

LEMMA RetireStep ==
  ASSUME IInv, NEW o \in Owners, Discount(o), UNCHANGED exclusive_owner
  PROVE  Barrier!Retire(o) \/ UNCHANGED <<active_by_owner, exclusive_owner>>
<1>1. active_by_owner \in [Owners -> Nat]
  BY DEF IInv, TypeOK
<1>2. CASE active_by_owner[o] > 0
  <2>1. 1 \in 1 .. active_by_owner[o]
    BY <1>1, <1>2
  <2>2. active_by_owner' = [active_by_owner EXCEPT ![o] = @ - 1]
    BY <1>1, <1>2 DEF Discount
  <2> QED
    BY <2>1, <2>2 DEF Barrier!Retire
<1>3. CASE ~(active_by_owner[o] > 0)
  BY <1>1, <1>3 DEF Discount
<1> QED
  BY <1>2, <1>3

LEMMA RaiseStep ==
  ASSUME IInv, NEW o \in Owners, exclusive_owner' = o, UNCHANGED active_by_owner,
         exclusive_owner = o \/ (exclusive_owner = NoOne /\ ~OthersActive(o))
  PROVE  Barrier!Raise(o) \/ UNCHANGED <<active_by_owner, exclusive_owner>>
<1>1. active_by_owner \in [Owners -> Nat]
  BY DEF IInv, TypeOK
<1>2. ~OthersActive(o) => Barrier!Alone(o)
  BY <1>1 DEF OthersActive, Barrier!Alone
<1> QED
  BY <1>2 DEF Barrier!Raise

LEMMA LowerStep ==
  ASSUME NEW o \in Owners, exclusive_owner = o, EndBarrier, UNCHANGED active_by_owner
  PROVE  Barrier!Lower(o) \/ UNCHANGED <<active_by_owner, exclusive_owner>>
BY DEF EndBarrier, Barrier!Lower

(* A task that is gone retires exactly its direct admissions.              *)
LEMMA GoneStep ==
  ASSUME IInv, NEW t \in Tasks, TaskGone(t)
  PROVE  Barrier!Retire(t) \/ UNCHANGED <<active_by_owner, exclusive_owner>>
<1> DEFINE n == direct_by_owner[t]
<1>1. /\ active_by_owner \in [Owners -> Nat] /\ n \in Nat /\ t \in Owners
      /\ active_by_owner[t] = Cardinality(Held(t)) /\ n = Cardinality(Direct(t))
  BY DEF IInv, TypeOK, Accounting, Owners
<1>2. Direct(t) \subseteq Held(t)
  BY DistinctAssumption DEF Direct, Held, OwnerOf, Callers
<1>3. n <= active_by_owner[t]
  BY <1>1, <1>2, CountsFinite, FS_Subset DEF IInv
<1>4. /\ active_by_owner' = [active_by_owner EXCEPT ![t] = @ - n]
      /\ UNCHANGED exclusive_owner
  BY DEF TaskGone, writer
<1>5. CASE n = 0
  BY <1>1, <1>4, <1>5
<1>6. CASE n # 0
  <2>1. n \in 1 .. active_by_owner[t]
    BY <1>1, <1>3, <1>6
  <2> QED
    BY <2>1, <1>4 DEF Barrier!Retire
<1> QED
  BY <1>5, <1>6

(* The gate implements the barrier it promises: whatever the number of     *)
(* tasks, threads and workers, every step of theirs is an admission, the   *)
(* end of admissions, a rise or a fall of the barrier, or none of these.   *)
THEOREM GateImplementsBarrier == Spec => ImplementsBarrier
<1> DEFINE pair == <<active_by_owner, exclusive_owner>>
<1>1. Init => Barrier!Init
  BY DEF Init, Barrier!Init
<1>2. IInv /\ [Next]_vars => [Barrier!Next]_pair
  <2> SUFFICES ASSUME IInv, [Next]_vars
               PROVE  (\E o \in Owners : \/ Barrier!Admit(o) \/ Barrier!Retire(o)
                                         \/ Barrier!Raise(o) \/ Barrier!Lower(o))
                      \/ UNCHANGED pair
    BY DEF Barrier!Next
  <2> DEFINE Done == (\E o \in Owners : \/ Barrier!Admit(o) \/ Barrier!Retire(o)
                                        \/ Barrier!Raise(o) \/ Barrier!Lower(o))
                     \/ UNCHANGED pair
  <2>0. /\ \A c \in Callers : Running(c) \/ waiting[c] # "no" => OwnerOf(c) \in Owners
        /\ \A l \in Leases : lease_state[l] # "released" => lease_owner[l] \in Owners
        /\ Tasks \subseteq Owners
    BY DistinctAssumption
       DEF IInv, LeaseInv, Running, OwnerOf, Owners, Callers, TypeOK
  <2>1. ASSUME UNCHANGED <<active_by_owner, exclusive_owner>> PROVE Done
    BY <2>1
  <2>2. ASSUME NEW o \in Owners, Reentrant(o) \/ exclusive_owner = NoOne,
               NEW n \in 1 .. 2, Count(o, n), UNCHANGED exclusive_owner
        PROVE  Done
    BY <2>2, ReentrantAdmits, AdmitStep
  <2>3. ASSUME NEW o \in Owners, Discount(o), UNCHANGED exclusive_owner PROVE Done
    BY <2>3, RetireStep
  <2>4. ASSUME NEW c \in Callers, CallerStep(c) PROVE Done
    <3>1. CASE EnterSharedWaits(c) \/ EnterExclusiveWaits(c)
      BY <2>1, <3>1 DEF EnterSharedWaits, EnterExclusiveWaits, counters, writer
    <3>2. ASSUME NEW k \in 1 .. MaxNest, EnterShared(c, k) \/ WakeShared(c, k) PROVE Done
      <4>1. /\ OwnerOf(c) \in Owners /\ Count(OwnerOf(c), 1)
            /\ Reentrant(OwnerOf(c)) \/ exclusive_owner = NoOne
            /\ UNCHANGED exclusive_owner
        BY <2>0, <3>2 DEF EnterShared, WakeShared, Admit, Unfenced, writer
      <4>2. 1 \in 1 .. 2
        OBVIOUS
      <4> QED
        BY <2>2, <4>1, <4>2
    <3>3. ASSUME NEW k \in 1 .. MaxNest, LeaveShared(c, k) PROVE Done
      BY <2>0, <2>3, <3>3 DEF LeaveShared, writer
    <3>4. ASSUME NEW k \in 1 .. MaxNest, EnterExclusive(c, k) PROVE Done
      <4>1. OwnerOf(c) \in Owners
        BY <2>0, <3>4 DEF EnterExclusive, ExclusiveAllowed
      <4> QED
        BY <3>4, <4>1, RaiseStep DEF EnterExclusive, counters
    <3>5. ASSUME NEW k \in 1 .. MaxNest, LeaveExclusive(c, k) PROVE Done
      <4>1. OwnerOf(c) \in Owners
        BY <2>0, <3>5 DEF LeaveExclusive
      <4> QED
        BY <3>5, <4>1, LowerStep DEF LeaveExclusive, counters
    <3> QED
      BY <2>4, <3>1, <3>2, <3>3, <3>4, <3>5 DEF CallerStep
  <2>5. ASSUME NEW l \in Leases, WorkerStep(l) PROVE Done
    <3>1. CASE StartWorker(l)
      BY <2>1, <3>1 DEF StartWorker, counters, writer
    <3>2. CASE FinishWorker(l)
      <4>1. lease_state[l] # "released" /\ Discount(lease_owner[l]) /\ UNCHANGED exclusive_owner
        BY <3>2 DEF FinishWorker, Release, writer
      <4> QED
        BY <2>0, <2>3, <4>1
    <3>3. CASE WorkerDone(l)
      <4>1. CASE lease_state[l] \in {"dispatched", "cancelled"}
        <5>1. Discount(lease_owner[l]) /\ UNCHANGED exclusive_owner
          BY <3>3, <4>1 DEF WorkerDone, Release, writer
        <5> QED
          BY <2>0, <2>3, <4>1, <5>1
      <4>2. CASE lease_state[l] \notin {"dispatched", "cancelled"}
        BY <2>1, <3>3, <4>2 DEF WorkerDone, writer
      <4> QED
        BY <4>1, <4>2
    <3> QED
      BY <2>5, <3>1, <3>2, <3>3 DEF WorkerStep
  <2>6. ASSUME NEW t \in Tasks, TaskStep(t) PROVE Done
    <3>1. ASSUME NEW k \in 1 .. MaxNest, AsyncEnter(t, k) PROVE Done
      <4>1. /\ t \in Owners /\ Count(t, 1)
            /\ Reentrant(t) \/ exclusive_owner = NoOne
            /\ UNCHANGED exclusive_owner /\ 1 \in 1 .. 2
        BY <2>0, <3>1 DEF AsyncEnter, AsyncAllowed, Unfenced, writer
      <4> QED
        BY <2>2, <4>1
    <3>2. ASSUME NEW k \in 1 .. MaxNest, NEW l \in Leases, Dispatch(t, l, k) PROVE Done
      <4>1. /\ t \in Owners /\ Count(t, 2)
            /\ Reentrant(t) \/ exclusive_owner = NoOne
            /\ UNCHANGED exclusive_owner /\ 2 \in 1 .. 2
        BY <2>0, <3>2 DEF Dispatch, AsyncAllowed, Unfenced, writer
      <4> QED
        BY <2>2, <4>1
    <3>3. ASSUME NEW k \in 1 .. MaxNest, LeaveDirect(t, k), UNCHANGED exclusive_owner PROVE Done
      BY <2>0, <2>1, <2>3, <3>3 DEF LeaveDirect, counters
    <3>4. ASSUME NEW k \in 1 .. MaxNest, NEW drain \in BOOLEAN, CancelAwait(t, k, drain)
          PROVE  Done
      BY <2>1, <3>3, <3>4 DEF CancelAwait, counters, writer
    <3>5. ASSUME NEW k \in 1 .. MaxNest, AsyncLeave(t, k) \/ AwaitReturns(t, k) PROVE Done
      BY <3>3, <3>5 DEF AsyncLeave, AwaitReturns, writer
    <3>6. ASSUME NEW k \in 1 .. MaxNest, ShutdownAcquire(t, k) PROVE Done
      BY <2>0, <3>6, RaiseStep DEF ShutdownAcquire, counters
    <3>7. ASSUME NEW k \in 1 .. MaxNest, ShutdownLeave(t, k) PROVE Done
      BY <2>0, <3>7, LowerStep DEF ShutdownLeave, counters
    <3>8. CASE ShutdownBegin(t)
      BY <2>1, <3>8 DEF ShutdownBegin, counters, writer
    <3>9. CASE TaskGone(t)
      BY <2>0, <3>9, GoneStep
    <3> QED
      BY <2>6, <3>1, <3>2, <3>4, <3>5, <3>6, <3>7, <3>8, <3>9 DEF TaskStep
  <2>7. CASE UNCHANGED vars
    BY <2>1, <2>7 DEF vars, counters, writer
  <2> QED
    BY <2>4, <2>5, <2>6, <2>7 DEF Next
<1> QED
  BY <1>1, <1>2, Invariant, PTL DEF Spec, ImplementsBarrier, Barrier!Spec
=============================================================================
