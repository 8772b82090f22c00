--------------------------- MODULE CoreLifecycle ---------------------------
(***************************************************************************)
(* The life of a Core process around its activity gate: the capture        *)
(* scheduler's worker thread (CoreCaptureScheduler), the admin requests    *)
(* that enable and disable it, an update installation, and the application *)
(* lifespan that starts the worker and, at shutdown, closes the gate,      *)
(* joins the worker and closes the store.                                  *)
(*                                                                         *)
(* The gate appears as its owners see it: who is admitted, who holds the   *)
(* barrier, who queues, whether it closes (its counts are ActivityGate's); *)
(* every process is an owner of its own and enters it once.  A worker thread is named by its generation.  The   *)
(* wake-up event only shortens a sleep that a timeout always ends, so it   *)
(* is left out; the process-wide scheduler gate is taken to be open.       *)
(***************************************************************************)
EXTENDS Integers, FiniteSets

CONSTANTS Admins,         \* threads of admin requests
          Installers,     \* threads of update-install requests; each installs once
          Lifespan,       \* the task of the application lifespan
          MaxGeneration,  \* bound: workers started in one process
          Failures,       \* whether a cycle may fail with a programming error
          Cli,            \* whether the command line writes the sidecar meanwhile
          NoOne

Workers == 1 .. MaxGeneration
Owners  == Workers \cup Admins \cup Installers \cup {Lifespan}

ASSUME BoundAssumption == MaxGeneration \in Nat \ {0}
ASSUME ModeAssumption  == Failures \in BOOLEAN /\ Cli \in BOOLEAN
ASSUME ProcessAssumption ==
  /\ Admins \cap Installers = {} /\ Admins \cap Int = {} /\ Installers \cap Int = {}
  /\ Lifespan \notin Int \cup Admins \cup Installers
  /\ NoOne \notin Owners

VARIABLES
  sidecar,            \* the durable enablement read by dispatch_allowed
  stop, closing,      \* the scheduler's events
  thread,             \* the generation in _thread, or 0
  worker_state, worker_generation,
  worker_pc,
  control_lock,
  admin_pc,
  install_pc,
  life_pc,
  joined,             \* the worker the lifespan's shutdown captured, or 0
  store_open,
  admitted,           \* owners with a shared admission
  exclusive_owner,
  gate_closing

scheduler == <<stop, closing, thread, worker_state, worker_generation>>
requests  == <<control_lock, admin_pc, install_pc>>
lifespan  == <<life_pc, joined, store_open>>
gate      == <<admitted, exclusive_owner, gate_closing>>
vars == <<sidecar, scheduler, worker_pc, requests, lifespan, gate>>

Init == /\ sidecar \in BOOLEAN
        /\ stop = FALSE /\ closing = FALSE
        /\ thread = 0 /\ worker_state = "not_started" /\ worker_generation = 0
        /\ worker_pc = [g \in Workers |-> "none"]
        /\ control_lock = NoOne
        /\ admin_pc = [a \in Admins |-> "idle"]
        /\ install_pc = [i \in Installers |-> "none"]
        /\ life_pc = "boot" /\ joined = 0 /\ store_open = TRUE
        /\ admitted = {} /\ exclusive_owner = NoOne /\ gate_closing = FALSE

-----------------------------------------------------------------------------
(* The gate, for owners that hold nothing yet.                             *)

Unfenced == /\ exclusive_owner = NoOne
            /\ \A i \in Installers : install_pc[i] # "waiting"

Enter(o) == admitted' = admitted \cup {o} /\ UNCHANGED <<exclusive_owner, gate_closing>>
Leave(o) == admitted' = admitted \ {o} /\ UNCHANGED <<exclusive_owner, gate_closing>>

Raise(o) == /\ exclusive_owner = NoOne /\ admitted \subseteq {o}
            /\ exclusive_owner' = o

-----------------------------------------------------------------------------
(* _start_unlocked, under the control lock.                                *)

Alive(g) == g # 0 /\ worker_pc[g] \notin {"none", "dead"}

(* thread.start may raise: the new generation has failed at once.          *)
Spawn(ok) == LET g == worker_generation + 1 IN
  /\ g \in Workers
  /\ worker_generation' = g
  /\ stop' = FALSE
  /\ thread' = IF ok THEN g ELSE 0
  /\ worker_state' = IF ok THEN "starting" ELSE "failed"
  /\ worker_pc' = IF ok THEN [worker_pc EXCEPT ![g] = "start"] ELSE worker_pc

(* Mutant of StartUnlocked: enabling after the shutdown began is served.   *)
StartUnlockedUnfenced(ok) ==
  \/ /\ Alive(thread)
     /\ stop' = IF worker_state = "failed" THEN stop ELSE FALSE
     /\ UNCHANGED <<thread, worker_state, worker_generation, worker_pc>>
  \/ /\ ~Alive(thread) /\ ~sidecar
     /\ UNCHANGED <<stop, thread, worker_state, worker_generation, worker_pc>>
  \/ ~Alive(thread) /\ sidecar /\ Spawn(ok)

(* Mutant of StartUnlocked: a worker told to stop counts as gone.          *)
StartUnlockedEager(ok) ==
  \/ /\ closing \/ (~stop /\ Alive(thread)) \/ ~sidecar
     /\ UNCHANGED <<stop, thread, worker_state, worker_generation, worker_pc>>
  \/ ~closing /\ (stop \/ ~Alive(thread)) /\ sidecar /\ Spawn(ok)

StartUnlocked(ok) ==
  \/ /\ closing
     /\ UNCHANGED <<stop, thread, worker_state, worker_generation, worker_pc>>
  \/ /\ ~closing /\ Alive(thread)
     /\ stop' = IF worker_state = "failed" THEN stop ELSE FALSE
     /\ UNCHANGED <<thread, worker_state, worker_generation, worker_pc>>
  \/ /\ ~closing /\ ~Alive(thread) /\ ~sidecar
     /\ UNCHANGED <<stop, thread, worker_state, worker_generation, worker_pc>>
  \/ ~closing /\ ~Alive(thread) /\ sidecar /\ Spawn(ok)

-----------------------------------------------------------------------------
(* The worker's _loop, one step per lock section, gate call or file read.  *)

Current(g) == thread = g /\ worker_generation = g
StopSeen   == closing \/ stop
Goto(g, l) == worker_pc' = [worker_pc EXCEPT ![g] = l]

MarkRunning(g) ==
  /\ worker_pc[g] = "start"
  /\ worker_state' = IF ~Current(g) THEN worker_state
                     ELSE IF StopSeen THEN "stopped" ELSE "running"
  /\ Goto(g, IF Current(g) /\ ~StopSeen THEN "top" ELSE "exit")
  /\ UNCHANGED <<sidecar, stop, closing, thread, worker_generation, requests, lifespan, gate>>

TryExit(g, from, next) ==
  /\ worker_pc[g] = from
  /\ Goto(g, IF StopSeen THEN "exit" ELSE next)
  /\ UNCHANGED <<sidecar, scheduler, requests, lifespan, gate>>

Dispatch(g) ==
  /\ worker_pc[g] = "dispatch"
  /\ Goto(g, IF sidecar THEN "enter" ELSE "after")
  /\ UNCHANGED <<sidecar, scheduler, requests, lifespan, gate>>

(* Mutant of CycleEnter: a closing gate is waited for.                     *)
CycleEnterWaits(g) ==
  /\ worker_pc[g] = "enter"
  /\ \/ ~Unfenced /\ Goto(g, "queued") /\ UNCHANGED gate
     \/ Unfenced /\ Goto(g, "admitted") /\ Enter(g)
  /\ UNCHANGED <<sidecar, scheduler, requests, lifespan>>

(* Mutant of CycleEnter: the gate is looked at once more, and not entered. *)
CycleEnterUngated(g) ==
  /\ worker_pc[g] = "enter"
  /\ \/ gate_closing /\ Goto(g, "after")
     \/ ~gate_closing /\ ~Unfenced /\ Goto(g, "queued")
     \/ ~gate_closing /\ Unfenced /\ Goto(g, "admitted")
  /\ UNCHANGED <<sidecar, scheduler, requests, lifespan, gate>>

(* run_cycle enters the gate; a closing gate refuses and the cycle is void. *)
CycleEnter(g) ==
  /\ worker_pc[g] = "enter"
  /\ \/ gate_closing /\ Goto(g, "after") /\ UNCHANGED gate
     \/ ~gate_closing /\ ~Unfenced /\ Goto(g, "queued") /\ UNCHANGED gate
     \/ ~gate_closing /\ Unfenced /\ Goto(g, "admitted") /\ Enter(g)
  /\ UNCHANGED <<sidecar, scheduler, requests, lifespan>>

CycleWake(g) ==
  /\ worker_pc[g] = "queued" /\ Unfenced
  /\ Goto(g, "admitted") /\ Enter(g)
  /\ UNCHANGED <<sidecar, scheduler, requests, lifespan>>

(* The checks of run_cycle after admission, the cycle lock among them.     *)
CycleBegin(g) ==
  /\ worker_pc[g] = "admitted"
  /\ IF StopSeen \/ ~sidecar \/ \E h \in Workers : worker_pc[h] = "cycle"
     THEN Goto(g, "after") /\ Leave(g)
     ELSE Goto(g, "cycle") /\ UNCHANGED gate
  /\ UNCHANGED <<sidecar, scheduler, requests, lifespan>>

(* The cycle ends, with a report or with a failure that is contained.      *)
CycleEnd(g) ==
  /\ worker_pc[g] = "cycle"
  /\ Goto(g, "after") /\ Leave(g)
  /\ UNCHANGED <<sidecar, scheduler, requests, lifespan>>

CycleFails(g) ==
  /\ Failures /\ worker_pc[g] = "cycle"
  /\ worker_state' = IF Current(g) THEN "failed" ELSE worker_state
  /\ Goto(g, "exit") /\ Leave(g)
  /\ UNCHANGED <<sidecar, stop, closing, thread, worker_generation, requests, lifespan>>

Sleep(g) ==
  /\ worker_pc[g] = "sleep"
  /\ Goto(g, "top")
  /\ UNCHANGED <<sidecar, scheduler, requests, lifespan, gate>>

FinishWorker(g) ==
  /\ worker_pc[g] = "exit"
  /\ thread' = IF Current(g) THEN 0 ELSE thread
  /\ worker_state' = IF ~Current(g) \/ worker_state \notin {"starting", "running"}
                     THEN worker_state
                     ELSE IF StopSeen THEN "stopped" ELSE "failed"
  /\ Goto(g, "dead")
  /\ UNCHANGED <<sidecar, stop, closing, worker_generation, requests, lifespan, gate>>

WorkerStep(g) ==
  \/ MarkRunning(g)
  \/ TryExit(g, "top", "dispatch") \/ TryExit(g, "after", "sleep")
  \/ Dispatch(g) \/ CycleEnter(g) \/ CycleWake(g) \/ CycleBegin(g)
  \/ CycleEnd(g) \/ CycleFails(g) \/ Sleep(g) \/ FinishWorker(g)

-----------------------------------------------------------------------------
(* enable and disable.  The server hands out no request once it shuts      *)
(* down, but the thread of an earlier one may still be anywhere.           *)

AdminGoto(a, l) == admin_pc' = [admin_pc EXCEPT ![a] = l]

(* The bound on workers: an enable request is only made while each of      *)
(* those under way could still start one.                                  *)
Enabling == {a \in Admins : admin_pc[a] \in {"enable", "queued", "admitted", "start"}}

Request(a, operation) ==
  /\ life_pc = "serve" /\ admin_pc[a] = "idle"
  /\ operation = "enable" => worker_generation + Cardinality(Enabling) < MaxGeneration
  /\ AdminGoto(a, operation)
  /\ UNCHANGED <<sidecar, scheduler, worker_pc, control_lock, install_pc, lifespan, gate>>

EnableEnter(a) ==
  /\ \/ /\ admin_pc[a] = "enable" /\ gate_closing
        /\ AdminGoto(a, "idle") /\ UNCHANGED gate
     \/ /\ admin_pc[a] = "enable" /\ ~gate_closing /\ ~Unfenced
        /\ AdminGoto(a, "queued") /\ UNCHANGED gate
     \/ /\ Unfenced
        /\ admin_pc[a] = "queued" \/ (admin_pc[a] = "enable" /\ ~gate_closing)
        /\ AdminGoto(a, "admitted") /\ Enter(a)
  /\ UNCHANGED <<sidecar, scheduler, worker_pc, control_lock, install_pc, lifespan>>

EnableWrite(a) ==
  /\ admin_pc[a] = "admitted" /\ control_lock = NoOne
  /\ control_lock' = a /\ sidecar' = TRUE
  /\ AdminGoto(a, "start")
  /\ UNCHANGED <<scheduler, worker_pc, install_pc, lifespan, gate>>

EnableStart(a, ok) ==
  /\ admin_pc[a] = "start"
  /\ StartUnlocked(ok) /\ UNCHANGED closing
  /\ control_lock' = NoOne /\ AdminGoto(a, "idle") /\ Leave(a)
  /\ UNCHANGED <<sidecar, install_pc, lifespan>>

DisableWrite(a) ==
  /\ admin_pc[a] = "disable" /\ control_lock = NoOne
  /\ control_lock' = a /\ sidecar' = FALSE
  /\ AdminGoto(a, "signal")
  /\ UNCHANGED <<scheduler, worker_pc, install_pc, lifespan, gate>>

DisableSignal(a) ==
  /\ admin_pc[a] = "signal"
  /\ stop' = TRUE
  /\ control_lock' = NoOne /\ AdminGoto(a, "join")
  /\ UNCHANGED <<sidecar, closing, thread, worker_state, worker_generation, worker_pc,
                 install_pc, lifespan, gate>>

(* _join_worker is bounded: it may return whatever the worker does.        *)
DisableJoin(a) ==
  /\ admin_pc[a] = "join"
  /\ thread' = IF Alive(thread) THEN thread ELSE 0
  /\ AdminGoto(a, "idle")
  /\ UNCHANGED <<sidecar, stop, closing, worker_state, worker_generation, worker_pc,
                 control_lock, install_pc, lifespan, gate>>

CliWrite(b) ==
  /\ Cli /\ sidecar' = b
  /\ UNCHANGED <<scheduler, worker_pc, requests, lifespan, gate>>

AdminStep(a) == \/ EnableEnter(a) \/ EnableWrite(a) \/ \E ok \in {TRUE, ~Failures} : EnableStart(a, ok)
                \/ DisableWrite(a) \/ DisableSignal(a) \/ DisableJoin(a)

-----------------------------------------------------------------------------
(* install_when_ready: one exclusive section around the activation.        *)

InstallGoto(i, l) == install_pc' = [install_pc EXCEPT ![i] = l]

InstallEnter(i) ==
  /\ install_pc[i] = "none" /\ life_pc = "serve"
  /\ InstallGoto(i, "waiting")
  /\ UNCHANGED <<sidecar, scheduler, worker_pc, control_lock, admin_pc, lifespan, gate>>

InstallBegin(i) ==
  /\ install_pc[i] = "waiting"
  /\ Raise(i) /\ InstallGoto(i, "inside")
  /\ UNCHANGED <<sidecar, scheduler, worker_pc, control_lock, admin_pc, lifespan, admitted,
                 gate_closing>>

InstallEnd(i) ==
  /\ install_pc[i] = "inside"
  /\ exclusive_owner' = NoOne /\ InstallGoto(i, "done")
  /\ UNCHANGED <<sidecar, scheduler, worker_pc, control_lock, admin_pc, lifespan, admitted,
                 gate_closing>>

InstallStep(i) == InstallBegin(i) \/ InstallEnd(i)

-----------------------------------------------------------------------------
(* The lifespan.                                                           *)

LifespanStart(ok) ==
  /\ life_pc = "boot" /\ control_lock = NoOne
  /\ StartUnlocked(ok)
  /\ life_pc' = "serve"
  /\ UNCHANGED <<sidecar, closing, requests, joined, store_open, gate>>

ShutdownBegin ==
  /\ life_pc = "serve"
  /\ gate_closing' = TRUE /\ life_pc' = "drain"
  /\ UNCHANGED <<sidecar, scheduler, worker_pc, requests, joined, store_open, admitted,
                 exclusive_owner>>

ShutdownBarrier ==
  /\ life_pc = "drain"
  /\ Raise(Lifespan) /\ life_pc' = "barrier"
  /\ UNCHANGED <<sidecar, scheduler, worker_pc, requests, joined, store_open, admitted,
                 gate_closing>>

(* CoreCaptureScheduler.shutdown: the closing fence, then an unbounded join. *)
SchedulerShutdown ==
  /\ life_pc = "barrier" /\ control_lock = NoOne
  /\ closing' = TRUE /\ stop' = TRUE
  /\ joined' = IF Alive(thread) THEN thread ELSE 0
  /\ life_pc' = "join"
  /\ UNCHANGED <<sidecar, thread, worker_state, worker_generation, worker_pc, requests,
                 store_open, gate>>

CoreClose ==
  /\ life_pc = "join" /\ ~Alive(joined)
  /\ thread' = IF Alive(thread) THEN thread ELSE 0
  /\ store_open' = FALSE /\ life_pc' = "closed"
  /\ UNCHANGED <<sidecar, stop, closing, worker_state, worker_generation, worker_pc, requests,
                 joined, gate>>

ShutdownEnd ==
  /\ life_pc = "closed"
  /\ exclusive_owner' = NoOne /\ gate_closing' = FALSE /\ life_pc' = "down"
  /\ UNCHANGED <<sidecar, scheduler, worker_pc, requests, joined, store_open, admitted>>

LifespanStep == \/ \E ok \in {TRUE, ~Failures} : LifespanStart(ok)
                \/ ShutdownBarrier \/ SchedulerShutdown \/ CoreClose \/ ShutdownEnd

-----------------------------------------------------------------------------
Next == \/ \E g \in Workers : WorkerStep(g)
        \/ \E a \in Admins : AdminStep(a) \/ \E o \in {"enable", "disable"} : Request(a, o)
        \/ \E i \in Installers : InstallStep(i) \/ InstallEnter(i)
        \/ LifespanStep \/ ShutdownBegin
        \/ \E b \in BOOLEAN : CliWrite(b)

Spec == Init /\ [][Next]_vars

(* The operating system schedules every thread, and a request that waits   *)
(* for the control lock gets it although others keep taking it; when       *)
(* requests arrive and the server is told to shut down is left open.       *)
FairSpec == /\ Spec
            /\ \A g \in Workers : WF_vars(WorkerStep(g))
            /\ \A a \in Admins : WF_vars(AdminStep(a)) /\ SF_vars(EnableWrite(a))
            /\ \A i \in Installers : WF_vars(InstallStep(i))
            /\ WF_vars(LifespanStep)

-----------------------------------------------------------------------------
InLoop == {"top", "dispatch", "enter", "queued", "admitted", "cycle", "after", "sleep"}

(* The variables keep their types, the published worker state included.    *)
TypeOK ==
  /\ sidecar \in BOOLEAN /\ stop \in BOOLEAN /\ closing \in BOOLEAN
  /\ thread \in 0 .. MaxGeneration /\ worker_generation \in 0 .. MaxGeneration
  /\ worker_state \in {"not_started", "starting", "running", "stopped", "failed"}
  /\ worker_pc \in [Workers -> InLoop \cup {"none", "start", "exit", "dead"}]
  /\ control_lock \in Admins \cup {NoOne}
  /\ admin_pc \in [Admins -> {"idle", "enable", "queued", "admitted", "start",
                              "disable", "signal", "join"}]
  /\ install_pc \in [Installers -> {"none", "waiting", "inside", "done"}]
  /\ life_pc \in {"boot", "serve", "drain", "barrier", "join", "closed", "down"}
  /\ joined \in 0 .. MaxGeneration /\ store_open \in BOOLEAN
  /\ admitted \subseteq Owners
  /\ exclusive_owner \in Owners \cup {NoOne} /\ gate_closing \in BOOLEAN

(* At most one worker executes in the process (CAPTURE.md), also while     *)
(* disable and enable requests overlap, a bounded join gave up on a long   *)
(* cycle, or a failed worker has not returned yet.                         *)
SingleWorker == Cardinality({g \in Workers : worker_pc[g] \in InLoop}) <= 1

(* The state status() publishes is that of a thread: a worker said to be   *)
(* starting or running is alive, one said to be stopped, failed or absent  *)
(* runs no cycle.                                                          *)
StatusHonest ==
  /\ worker_state \in {"starting", "running"} => thread = worker_generation /\ Alive(thread)
  /\ worker_state \notin {"starting", "running"} =>
       \A g \in Workers : worker_pc[g] \notin InLoop

(* Overlapping requests, failures and joins that give up leave one worker, *)
(* and the published state is that worker's.                               *)
WorkersAccounted == SingleWorker /\ StatusHonest

(* No worker outlives the store: once it is closed every worker thread is  *)
(* dead, whatever enable requests were still queued at the gate.           *)
StoreOutlivesWorkers == ~store_open => \A g \in Workers : worker_pc[g] \in {"none", "dead"}

(* The worker reads the gates for dispatch and only then enters the        *)
(* activity gate, and an installation or the shutdown may come in between: *)
(* neither ever overlaps a capture cycle or an enable that has written its *)
(* sidecar and not yet its worker.  After the shutdown, when the gate is   *)
(* open again, whoever waited at it captures nothing.                      *)
Quiesced ==
  LET capturing  == \E g \in Workers : worker_pc[g] = "cycle"
      enabling   == \E a \in Admins : admin_pc[a] \in {"admitted", "start"}
      installing == \E i \in Installers : install_pc[i] = "inside"
      closed     == life_pc \in {"barrier", "join", "closed"}
  IN /\ installing \/ closed => ~capturing /\ ~enabling
     /\ ~(installing /\ closed)
     /\ life_pc = "down" => ~capturing

(* A worker queued at the gate behind an installation, which the shutdown  *)
(* overtook: the shutdown now holds the barrier the worker waits for and   *)
(* joins the worker.                                                       *)
Stranded == /\ life_pc = "join" /\ joined # 0 /\ worker_pc[joined] = "queued"
            /\ \E i \in Installers : install_pc[i] # "none"

(* A scheduler that stays stopped ends its worker, unless it is stranded.  *)
DisableConverges ==
  <>[]stop => <>[](\A g \in Workers : ~Alive(g)) \/ <>[]Stranded

(* A shutdown that has begun ends, with the store closed and the barrier   *)
(* released; a stranded worker is the only thing that can hold it up.      *)
ShutdownEnds ==
  <>(life_pc = "drain") => <>(life_pc = "down") \/ <>[]Stranded

(* What is asked to stop stops: a scheduler that stays disabled and a Core *)
(* that shuts down.                                                        *)
StopsInTime == DisableConverges /\ ShutdownEnds
=============================================================================
