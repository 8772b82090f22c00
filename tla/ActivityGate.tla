---------------------------- MODULE ActivityGate ----------------------------
(***************************************************************************)
(* CoreActivityGate (core process, activity.py): the reentrant shared /    *)
(* exclusive barrier every import, capture cycle, worker hand-off, update  *)
(* installation and shutdown of the Core goes through.                     *)
(*                                                                         *)
(* Owners are asyncio tasks and plain threads.  A worker thread started by *)
(* run_in_threadpool has no identity of its own: while its lease is usable *)
(* it acts for the task that dispatched it.  `blocks' is the stack of      *)
(* with-blocks the callers have open, as <<caller, level, kind>>; the      *)
(* shared block at level 0 is the admission a lease itself holds.  The     *)
(* gate's own counters are separate variables, moved only as the code      *)
(* moves them: that they agree with `blocks' is a property.                *)
(***************************************************************************)
EXTENDS Integers, FiniteSets

CONSTANTS Tasks,      \* asyncio tasks
          Lifespan,   \* the tasks that may run shutdown_async (the application lifespan)
          Threads,    \* threads without a lease
          Leases,     \* worker hand-offs; an identity is reused once it is spent
          Writers,    \* the callers that use exclusive()
          MaxNest,    \* bound: with-blocks one caller nests
          NoOne

Callers == Threads \cup Leases
Owners  == Tasks \cup Threads

ASSUME NestAssumption == MaxNest \in Nat \ {0}
ASSUME DistinctAssumption == /\ Tasks \cap Callers = {}
                             /\ Threads \cap Leases = {}
                             /\ NoOne \notin Tasks \cup Callers
ASSUME RoleAssumption == Lifespan \subseteq Tasks /\ Writers \subseteq Callers

VARIABLES
  active_by_owner,    \* shared admissions counted for an owner
  direct_by_owner,    \* those of a task that end with the task
  exclusive_owner,
  exclusive_depth,
  closing,
  shutdown_owner,
  delegated_workers,  \* leases whose asyncio wrapper has not run worker_done
  lease_owner,
  lease_state,        \* "dispatched", "cancelled", "started" or "released"
  waiting,            \* what a caller is blocked for in the condition
  task_pc,
  awaited,            \* the lease a task awaits in run_in_threadpool
  blocks

counters == <<active_by_owner, direct_by_owner>>
writer   == <<exclusive_owner, exclusive_depth>>
fence    == <<closing, shutdown_owner>>
workers  == <<delegated_workers, lease_owner, lease_state>>
tasks    == <<task_pc, awaited>>
vars == <<counters, writer, fence, workers, tasks, waiting, blocks>>

Kinds  == {"shared", "exclusive"}
Levels == 0 .. MaxNest

OwnerOf(c) == IF c \in Leases THEN lease_owner[c] ELSE c

(* A caller that executes code: a thread, or a worker whose lease is       *)
(* usable_in_current_thread.                                               *)
Running(c) == /\ waiting[c] = "no"
              /\ c \in Leases => lease_state[c] = "started"

WaitingExclusive == {c \in Callers : waiting[c] = "exclusive"}

(* Mutant of OthersActive: workers that outlive their task do not count.   *)
OthersActiveDirect(o) == \E p \in Tasks \ {o} : direct_by_owner[p] > 0

(* _active_count less the owner's own admissions is not 0.                 *)
OthersActive(o) == \E p \in Owners \ {o} : active_by_owner[p] > 0

Reentrant(o) == active_by_owner[o] > 0 \/ exclusive_owner = o

(* Mutant of Unfenced: a waiting writer gets no priority.                  *)
UnfencedNoPriority == exclusive_owner = NoOne

Unfenced == exclusive_owner = NoOne /\ WaitingExclusive = {}

(* The next with-block a caller opens, and the innermost one it has open.  *)
InBlock(c, k)  == \E kind \in Kinds : <<c, k, kind>> \in blocks
NextLevel(c, k) == ~InBlock(c, k) /\ (k = 1 \/ InBlock(c, k - 1))
Innermost(c, k, kind) == <<c, k, kind>> \in blocks /\ ~InBlock(c, k + 1)

-----------------------------------------------------------------------------
Init == /\ active_by_owner = [o \in Owners |-> 0]
        /\ direct_by_owner = [t \in Tasks |-> 0]
        /\ exclusive_owner = NoOne /\ exclusive_depth = 0
        /\ closing = FALSE /\ shutdown_owner = NoOne
        /\ delegated_workers = {}
        /\ lease_owner = [l \in Leases |-> NoOne]
        /\ lease_state = [l \in Leases |-> "released"]
        /\ waiting = [c \in Callers |-> "no"]
        /\ task_pc = [t \in Tasks |-> "run"]
        /\ awaited = [t \in Tasks |-> NoOne]
        /\ blocks = {}

(* n admissions more for an owner, and (of those counted) n less.          *)
Count(o, n) == active_by_owner' = [active_by_owner EXCEPT ![o] = @ + n]
Discount(o) ==
  active_by_owner' = [active_by_owner EXCEPT ![o] = IF @ > 0 THEN @ - 1 ELSE @]

-----------------------------------------------------------------------------
(* activity(): the shared section of a thread or of a worker.              *)

Admit(c, k) == /\ Count(OwnerOf(c), 1)
               /\ blocks' = blocks \cup {<<c, k, "shared">>}
               /\ UNCHANGED <<direct_by_owner, writer, fence, workers, tasks>>

(* _enter without waiting; with the gate closing, only reentrant work.     *)
EnterShared(c, k) ==
  /\ Running(c) /\ NextLevel(c, k)
  /\ Reentrant(OwnerOf(c)) \/ (~closing /\ Unfenced)
  /\ Admit(c, k)
  /\ UNCHANGED waiting

EnterSharedWaits(c) ==
  /\ Running(c) /\ ~Reentrant(OwnerOf(c)) /\ ~closing /\ ~Unfenced
  /\ waiting' = [waiting EXCEPT ![c] = "shared"]
  /\ UNCHANGED <<counters, writer, fence, workers, tasks, blocks>>

(* The loop of _enter tests the writers only: _closing is not read again.  *)
WakeShared(c, k) ==
  /\ waiting[c] = "shared" /\ Unfenced /\ NextLevel(c, k)
  /\ waiting' = [waiting EXCEPT ![c] = "no"]
  /\ Admit(c, k)

LeaveShared(c, k) ==
  /\ Running(c) /\ Innermost(c, k, "shared")
  /\ Discount(OwnerOf(c))
  /\ blocks' = blocks \ {<<c, k, "shared">>}
  /\ UNCHANGED <<direct_by_owner, writer, fence, workers, tasks, waiting>>

-----------------------------------------------------------------------------
(* exclusive(): a thread enters it outside any shared section of its own,  *)
(* a worker upgrades the admission of its task.                            *)

ExclusiveAllowed(c) == LET o == OwnerOf(c) IN
  /\ c \in Writers /\ Running(c) /\ o \notin Lifespan
  /\ c \in Threads => exclusive_owner = c \/ active_by_owner[c] = 0
  /\ ~closing \/ shutdown_owner = o \/ exclusive_owner = o

EnterExclusive(c, k) == LET o == OwnerOf(c) IN
  /\ NextLevel(c, k)
  /\ \/ /\ ExclusiveAllowed(c) /\ exclusive_owner = o
        /\ exclusive_depth' = exclusive_depth + 1
     \/ /\ ExclusiveAllowed(c) \/ waiting[c] = "exclusive"
        /\ exclusive_owner = NoOne /\ ~OthersActive(o)
        /\ exclusive_depth' = 1
  /\ exclusive_owner' = o
  /\ blocks' = blocks \cup {<<c, k, "exclusive">>}
  /\ waiting' = [waiting EXCEPT ![c] = "no"]
  /\ UNCHANGED <<counters, fence, workers, tasks>>

EnterExclusiveWaits(c) == LET o == OwnerOf(c) IN
  /\ ExclusiveAllowed(c) /\ exclusive_owner # o /\ \E k \in 1 .. MaxNest : NextLevel(c, k)
  /\ exclusive_owner # NoOne \/ OthersActive(o)
  /\ waiting' = [waiting EXCEPT ![c] = "exclusive"]
  /\ UNCHANGED <<counters, writer, fence, workers, tasks, blocks>>

EndBarrier == /\ exclusive_depth' = exclusive_depth - 1
              /\ exclusive_owner' = IF exclusive_depth = 1 THEN NoOne ELSE exclusive_owner

LeaveExclusive(c, k) ==
  /\ Running(c) /\ Innermost(c, k, "exclusive")
  /\ exclusive_owner = OwnerOf(c)
  /\ EndBarrier
  /\ blocks' = blocks \ {<<c, k, "exclusive">>}
  /\ UNCHANGED <<counters, fence, workers, tasks, waiting>>

-----------------------------------------------------------------------------
(* activity_async(): the poll of a task, and its end through _leave.       *)

AsyncAllowed(t) == /\ task_pc[t] = "run"
                   /\ Reentrant(t) \/ (~closing /\ Unfenced)

AsyncEnter(t, k) ==
  /\ AsyncAllowed(t) /\ NextLevel(t, k)
  /\ Count(t, 1)
  /\ direct_by_owner' = [direct_by_owner EXCEPT ![t] = @ + 1]
  /\ blocks' = blocks \cup {<<t, k, "shared">>}
  /\ UNCHANGED <<writer, fence, workers, tasks, waiting>>

LeaveDirect(t, k) ==
  /\ Innermost(t, k, "shared")
  /\ blocks' = blocks \ {<<t, k, "shared">>}
  /\ IF direct_by_owner[t] = 0
     THEN UNCHANGED counters
     ELSE /\ Discount(t)
          /\ direct_by_owner' = [direct_by_owner EXCEPT ![t] = @ - 1]

AsyncLeave(t, k) ==
  /\ task_pc[t] = "run" /\ LeaveDirect(t, k)
  /\ UNCHANGED <<writer, fence, workers, tasks, waiting>>

-----------------------------------------------------------------------------
(* run_in_threadpool: the lease handed to one worker thread, which may     *)
(* outlive the task that awaits it.                                        *)

(* The section of the task, _acquire_lease and the wrapper, up to the await. *)
Dispatch(t, l, k) ==
  /\ AsyncAllowed(t) /\ NextLevel(t, k)
  /\ lease_state[l] = "released" /\ l \notin delegated_workers
  /\ Count(t, 2)
  /\ direct_by_owner' = [direct_by_owner EXCEPT ![t] = @ + 1]
  /\ blocks' = blocks \cup {<<t, k, "shared">>, <<l, 0, "shared">>}
  /\ lease_owner' = [lease_owner EXCEPT ![l] = t]
  /\ lease_state' = [lease_state EXCEPT ![l] = "dispatched"]
  /\ delegated_workers' = delegated_workers \cup {l}
  /\ task_pc' = [task_pc EXCEPT ![t] = "await"]
  /\ awaited' = [awaited EXCEPT ![t] = l]
  /\ UNCHANGED <<writer, fence, waiting>>

StartWorker(l) ==
  /\ lease_state[l] = "dispatched"
  /\ lease_state' = [lease_state EXCEPT ![l] = "started"]
  /\ UNCHANGED <<counters, writer, fence, delegated_workers, lease_owner, tasks, waiting, blocks>>

(* _ActivityLease.release, effective once.                                 *)
Release(l) == /\ Discount(lease_owner[l])
              /\ blocks' = blocks \ {<<l, 0, "shared">>}
              /\ lease_state' = [lease_state EXCEPT ![l] = "released"]

(* The end of the function, or start_worker refused after a cancellation.  *)
FinishWorker(l) ==
  /\ \/ lease_state[l] = "started" /\ Running(l) /\ ~InBlock(l, 1)
     \/ lease_state[l] = "cancelled"
  /\ Release(l)
  /\ UNCHANGED <<direct_by_owner, writer, fence, delegated_workers, lease_owner, tasks, waiting>>

(* worker_done after the thread returned, or after the wrapper alone was   *)
(* cancelled: then only a worker that never started is released here.      *)
WorkerDone(l) ==
  /\ l \in delegated_workers
  /\ delegated_workers' = delegated_workers \ {l}
  /\ IF lease_state[l] \in {"dispatched", "cancelled"}
     THEN Release(l)
     ELSE UNCHANGED <<active_by_owner, blocks, lease_state>>
  /\ UNCHANGED <<direct_by_owner, writer, fence, lease_owner, tasks, waiting>>

(* The result reaches the task, or _drain_worker sees worker_done.         *)
AwaitReturns(t, k) ==
  /\ task_pc[t] \in {"await", "drain"} /\ awaited[t] \notin delegated_workers
  /\ LeaveDirect(t, k)
  /\ task_pc' = [task_pc EXCEPT ![t] = "run"]
  /\ awaited' = [awaited EXCEPT ![t] = NoOne]
  /\ UNCHANGED <<writer, fence, workers, waiting>>

(* The awaiting task is cancelled: a worker not yet begun is called off.   *)
CancelAwait(t, k, drain) ==
  /\ task_pc[t] = "await" /\ awaited[t] \in delegated_workers
  /\ lease_state' = [lease_state EXCEPT ![awaited[t]] =
                       IF @ = "dispatched" THEN "cancelled" ELSE @]
  /\ \/ /\ drain
        /\ task_pc' = [task_pc EXCEPT ![t] = "drain"]
        /\ UNCHANGED <<counters, blocks, awaited>>
     \/ /\ ~drain
        /\ LeaveDirect(t, k)
        /\ task_pc' = [task_pc EXCEPT ![t] = "run"]
        /\ awaited' = [awaited EXCEPT ![t] = NoOne]
  /\ UNCHANGED <<writer, fence, delegated_workers, lease_owner, waiting>>

(* Mutant of TaskGone: the whole owner is forgotten with its task.         *)
TaskGoneForgets(t) ==
  /\ task_pc[t] \in {"run", "await", "drain"} /\ shutdown_owner # t
  /\ active_by_owner' = [active_by_owner EXCEPT ![t] = 0]
  /\ direct_by_owner' = [direct_by_owner EXCEPT ![t] = 0]
  /\ blocks' = {b \in blocks : b[1] # t}
  /\ task_pc' = [task_pc EXCEPT ![t] = "gone"]
  /\ awaited' = [awaited EXCEPT ![t] = NoOne]
  /\ UNCHANGED <<writer, fence, workers, waiting>>

(* _release_owner: a task is done, or was collected while it awaited; its  *)
(* direct admissions end, those of its workers do not.                     *)
TaskGone(t) ==
  /\ task_pc[t] \in {"run", "await", "drain"} /\ shutdown_owner # t
  /\ active_by_owner' = [active_by_owner EXCEPT ![t] = @ - direct_by_owner[t]]
  /\ direct_by_owner' = [direct_by_owner EXCEPT ![t] = 0]
  /\ blocks' = {b \in blocks : b[1] # t}
  /\ task_pc' = [task_pc EXCEPT ![t] = "gone"]
  /\ awaited' = [awaited EXCEPT ![t] = NoOne]
  /\ UNCHANGED <<writer, fence, workers, waiting>>

-----------------------------------------------------------------------------
(* shutdown_async(): close admission, drain by polling, hold the barrier.  *)
(* The lifespan enters it outside its own sections and does not nest it.   *)

ShutdownBegin(t) ==
  /\ t \in Lifespan /\ task_pc[t] = "run" /\ shutdown_owner = NoOne /\ ~InBlock(t, 1)
  /\ shutdown_owner' = t /\ closing' = TRUE
  /\ task_pc' = [task_pc EXCEPT ![t] = "poll"]
  /\ UNCHANGED <<counters, writer, workers, awaited, waiting, blocks>>

(* Mutant of ShutdownAcquire: unobserved workers are not waited for.       *)
ShutdownAcquireEarly(t, k) ==
  /\ task_pc[t] = "poll" /\ NextLevel(t, k)
  /\ exclusive_owner = NoOne /\ ~OthersActive(t)
  /\ exclusive_depth' = 1 /\ exclusive_owner' = t
  /\ blocks' = blocks \cup {<<t, k, "exclusive">>}
  /\ task_pc' = [task_pc EXCEPT ![t] = "run"]
  /\ UNCHANGED <<counters, fence, workers, awaited, waiting>>

ShutdownAcquire(t, k) ==
  /\ task_pc[t] = "poll" /\ NextLevel(t, k)
  /\ \/ /\ exclusive_owner = t
        /\ exclusive_depth' = exclusive_depth + 1
     \/ /\ exclusive_owner = NoOne /\ ~OthersActive(t) /\ delegated_workers = {}
        /\ exclusive_depth' = 1
  /\ exclusive_owner' = t
  /\ blocks' = blocks \cup {<<t, k, "exclusive">>}
  /\ task_pc' = [task_pc EXCEPT ![t] = "run"]
  /\ UNCHANGED <<counters, fence, workers, awaited, waiting>>

ShutdownLeave(t, k) ==
  /\ task_pc[t] = "run" /\ Innermost(t, k, "exclusive")
  /\ exclusive_owner = t
  /\ EndBarrier
  /\ blocks' = blocks \ {<<t, k, "exclusive">>}
  /\ IF exclusive_depth = 1
     THEN shutdown_owner' = NoOne /\ closing' = FALSE
     ELSE UNCHANGED fence
  /\ UNCHANGED <<counters, workers, tasks, waiting>>

-----------------------------------------------------------------------------
CallerStep(c) ==
  \/ EnterSharedWaits(c) \/ EnterExclusiveWaits(c)
  \/ \E k \in 1 .. MaxNest :
       \/ EnterShared(c, k) \/ WakeShared(c, k) \/ LeaveShared(c, k)
       \/ EnterExclusive(c, k) \/ LeaveExclusive(c, k)

WorkerStep(l) == StartWorker(l) \/ FinishWorker(l) \/ WorkerDone(l)

TaskStep(t) ==
  \/ TaskGone(t) \/ ShutdownBegin(t)
  \/ \E k \in 1 .. MaxNest :
       \/ AsyncEnter(t, k) \/ AsyncLeave(t, k) \/ AwaitReturns(t, k)
       \/ \E l \in Leases : Dispatch(t, l, k)
       \/ \E drain \in BOOLEAN : CancelAwait(t, k, drain)
       \/ ShutdownAcquire(t, k) \/ ShutdownLeave(t, k)

Next == \/ \E c \in Callers : CallerStep(c)
        \/ \E l \in Leases : WorkerStep(l)
        \/ \E t \in Tasks : TaskStep(t)

Spec == Init /\ [][Next]_vars

-----------------------------------------------------------------------------
(* The gate's state is well typed, and an idle gate has no writer depth.   *)
TypeOK ==
  /\ active_by_owner \in [Owners -> Nat]
  /\ direct_by_owner \in [Tasks -> Nat]
  /\ exclusive_owner \in Owners \cup {NoOne}
  /\ exclusive_depth \in Nat
  /\ closing \in BOOLEAN /\ shutdown_owner \in Lifespan \cup {NoOne}
  /\ delegated_workers \subseteq Leases
  /\ lease_owner \in [Leases -> Tasks \cup {NoOne}]
  /\ lease_state \in [Leases -> {"dispatched", "cancelled", "started", "released"}]
  /\ waiting \in [Callers -> {"no", "shared", "exclusive"}]
  /\ task_pc \in [Tasks -> {"run", "await", "drain", "poll", "gone"}]
  /\ awaited \in [Tasks -> Leases \cup {NoOne}]
  /\ blocks \subseteq (Tasks \cup Callers) \X Levels \X Kinds

Shared    == {b \in blocks : b[3] = "shared"}
Exclusive == {b \in blocks : b[3] = "exclusive"}
Held(o)   == {b \in Shared : OwnerOf(b[1]) = o}
Direct(t) == {b \in Shared : b[1] = t}

(* No leak and no double release: through cancellation, task death and     *)
(* late completions, every counter equals the with-blocks and leases       *)
(* really open for its owner (_enter, _leave, _release_lease,              *)
(* _release_owner).  A leaked admission would block every later writer.    *)
Accounting ==
  /\ \A o \in Owners : active_by_owner[o] = Cardinality(Held(o))
  /\ \A t \in Tasks : direct_by_owner[t] = Cardinality(Direct(t))
  /\ exclusive_depth = Cardinality(Exclusive)

(* The barrier isolates: while an update installation or the shutdown is   *)
(* inside its exclusive section, every open section and every unreleased   *)
(* worker belongs to the same owner, even where the dispatching task was   *)
(* cancelled or is gone.                                                   *)
Exclusion ==
  \A b \in Exclusive : /\ exclusive_owner = OwnerOf(b[1])
                       /\ \A s \in blocks : OwnerOf(s[1]) = OwnerOf(b[1])

(* No thread still runs code for another task when the lifespan closes the *)
(* store: a started worker under the shutdown barrier is the lifespan's,   *)
(* and so is a wrapper whose completion has not been observed.             *)
ShutdownQuiescent ==
  \A t \in Lifespan : (shutdown_owner = t /\ exclusive_owner = t) =>
    \A l \in Leases : (lease_state[l] = "started" \/ l \in delegated_workers)
                        => lease_owner[l] = t

(* Writer priority: while a writer waits, no step but the reentrant work   *)
(* of an owner already admitted adds admissions.                           *)
WriterPriority ==
  [][WaitingExclusive # {} =>
      \A o \in Owners : active_by_owner'[o] > active_by_owner[o] => Reentrant(o)]_vars

(* Leases and blocks agree: a lease holds its admission until it is        *)
(* released, only a started worker opens blocks of its own, it neither     *)
(* waits nor nests across its end, and levels have no gaps.                *)
LeaseInv ==
  /\ \A l \in Leases : lease_state[l] # "released" =>
       <<l, 0, "shared">> \in blocks /\ lease_owner[l] \in Tasks
  /\ \A b \in blocks : b[1] \in Leases =>
       /\ lease_state[b[1]] # "released"
       /\ b[2] > 0 => lease_state[b[1]] = "started"
  /\ \A b \in blocks : b[2] = 0 => b[1] \in Leases /\ b[3] = "shared"
  /\ \A b \in blocks : \A j \in 1 .. b[2] : InBlock(b[1], j)
  /\ \A l \in Leases : waiting[l] # "no" => lease_state[l] = "started"
  /\ \A c \in Callers : waiting[c] = "exclusive" => OwnerOf(c) \notin Lifespan

(* The barrier and the shutdown fence agree: a barrier has one owner, to   *)
(* whom every open block belongs, and a task's barrier is the shutdown.    *)
BarrierInv ==
  /\ exclusive_owner = NoOne <=> Exclusive = {}
  /\ exclusive_owner # NoOne => \A s \in blocks : OwnerOf(s[1]) = exclusive_owner
  /\ \A b \in Exclusive : b[1] \in Tasks => shutdown_owner = b[1]
  /\ \A t \in Tasks : task_pc[t] = "poll" => shutdown_owner = t
  /\ shutdown_owner # NoOne => closing
  /\ exclusive_owner \in Lifespan =>
       /\ shutdown_owner = exclusive_owner
       /\ \A l \in delegated_workers : lease_owner[l] = exclusive_owner

IInv == /\ TypeOK /\ IsFiniteSet(blocks)
        /\ Accounting /\ LeaseInv /\ BarrierInv

(* The gate keeps the promise of ExclusiveBarrier: seen through its        *)
(* admission counts and its barrier owner, every step of tasks, threads    *)
(* and workers is a step of the barrier, or none.                          *)
Barrier == INSTANCE ExclusiveBarrier
             WITH holders <- active_by_owner, writer <- exclusive_owner

ImplementsBarrier == Barrier!Spec
=============================================================================
