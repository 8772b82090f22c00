------------------------ MODULE CoreLifecycleProofs ------------------------
(***************************************************************************)
(* For any number of requests, installations and workers: at most one      *)
(* worker executes and the published state is that worker's, no worker     *)
(* outlives the store, and no capture cycle meets an installation or the   *)
(* shutdown.                                                               *)
(*                                                                         *)
(* The argument: only the thread that _thread names is alive, because a    *)
(* new one is started only when that one is not; the closing fence stops   *)
(* new ones for good, and what the shutdown joined is what was alive.  A   *)
(* cycle is inside the gate from before its checks until its end, so that  *)
(* the barrier is raised over nobody.                                      *)
(***************************************************************************)
EXTENDS CoreLifecycle, FiniteSetTheorems, TLAPS

(* A worker that is alive is the one the scheduler knows, of the latest    *)
(* generation, and the published state follows where it stands.            *)
WorkerInv ==
  /\ thread # 0 => thread = worker_generation
  /\ \A g \in Workers : Alive(g) => thread = g /\ worker_generation = g
  /\ \A g \in Workers : g > worker_generation => worker_pc[g] = "none"
  /\ \A g \in Workers : worker_pc[g] = "start" => worker_state = "starting"
  /\ \A g \in Workers : worker_pc[g] \in InLoop => worker_state = "running"
  /\ worker_state \in {"starting", "running"} => Alive(thread)

(* The shutdown: the fence is up before the join, and only the worker it   *)
(* joins may still be alive.                                               *)
ShutdownInv ==
  /\ life_pc \in {"join", "closed", "down"} => closing
  /\ life_pc = "join" => \A g \in Workers : Alive(g) => g = joined
  /\ life_pc \in {"closed", "down"} => \A g \in Workers : ~Alive(g)
  /\ ~store_open => life_pc \in {"closed", "down"}

(* Who is inside the gate can be read off where everybody stands.          *)
GateInv ==
  /\ \A g \in Workers : g \in admitted <=> worker_pc[g] \in {"admitted", "cycle"}
  /\ \A a \in Admins : a \in admitted <=> admin_pc[a] \in {"admitted", "start"}
  /\ \A i \in Installers : i \notin admitted /\ (exclusive_owner = i <=> install_pc[i] = "inside")
  /\ Lifespan \notin admitted
  /\ exclusive_owner = Lifespan <=> life_pc \in {"barrier", "join", "closed"}
  /\ exclusive_owner \notin Workers \cup Admins
  /\ exclusive_owner # NoOne => admitted = {}

IInv == TypeOK /\ WorkerInv /\ ShutdownInv /\ GateInv

USE DEF Workers, Owners

(* The owners are told apart.                                              *)
LEMMA Distinct ==
  /\ \A g \in Workers : g \in 1 .. MaxGeneration /\ g \in Nat /\ g # 0
  /\ \A g \in Workers : g \notin Admins /\ g \notin Installers /\ g # Lifespan /\ g # NoOne
  /\ \A a \in Admins : a \notin Installers /\ a # Lifespan /\ a # NoOne
  /\ \A i \in Installers : i # Lifespan /\ i # NoOne
  /\ Lifespan # NoOne
BY BoundAssumption, ProcessAssumption

-----------------------------------------------------------------------------
(* The steps of a worker.                                                  *)

(* The worker moves on within its loop, or out of it.                      *)
LEMMA WorkerMoves ==
  ASSUME IInv, NEW g \in Workers, worker_pc[g] \in InLoop, NEW l \in InLoop \cup {"exit"},
         Goto(g, l), UNCHANGED <<scheduler, life_pc, joined, store_open>>
  PROVE  WorkerInv' /\ ShutdownInv' /\ worker_pc' \in [Workers -> InLoop \cup {"none", "start", "exit", "dead"}]
<1>1. /\ worker_pc' = [worker_pc EXCEPT ![g] = l] /\ Alive(g)
      /\ worker_pc \in [Workers -> InLoop \cup {"none", "start", "exit", "dead"}]
      /\ UNCHANGED <<stop, closing, thread, worker_state, worker_generation>>
  BY Distinct DEF Goto, Alive, InLoop, IInv, TypeOK, scheduler
<1>2. \A h \in Workers : Alive(h)' <=> Alive(h)
  BY <1>1 DEF Alive, InLoop
<1>3. Alive(thread)' <=> Alive(thread)
  BY <1>1, <1>2 DEF Alive, IInv, TypeOK
<1>4. WorkerInv'
  BY <1>1, <1>2, <1>3 DEF IInv, WorkerInv, InLoop
<1>5. ShutdownInv'
  BY <1>1, <1>2 DEF IInv, ShutdownInv
<1> QED
  BY <1>1, <1>4, <1>5

LEMMA WorkerKept ==
  ASSUME IInv, UNCHANGED <<scheduler, worker_pc, life_pc, joined, store_open>>
  PROVE  WorkerInv' /\ ShutdownInv'
BY DEF scheduler, IInv, WorkerInv, ShutdownInv, Alive

LEMMA MarkRunningInv ==
  ASSUME IInv, NEW g \in Workers, MarkRunning(g)
  PROVE  IInv'
<1>1. /\ worker_pc[g] = "start" /\ Alive(g) /\ thread = g /\ worker_generation = g /\ g # 0
      /\ UNCHANGED <<sidecar, stop, closing, thread, worker_generation, requests, lifespan, gate>>
      /\ \/ worker_state' = "stopped" /\ worker_pc' = [worker_pc EXCEPT ![g] = "exit"]
         \/ worker_state' = "running" /\ worker_pc' = [worker_pc EXCEPT ![g] = "top"]
  BY Distinct DEF MarkRunning, Goto, Current, StopSeen, Alive, IInv, WorkerInv
<1>2. worker_pc' \in [Workers -> InLoop \cup {"none", "start", "exit", "dead"}]
  BY <1>1 DEF IInv, TypeOK, InLoop
<1>3. \A h \in Workers : Alive(h)' <=> Alive(h)
  BY <1>1, <1>2 DEF Alive, IInv, TypeOK
<1>4. \A h \in Workers \ {g} : ~Alive(h) /\ worker_pc'[h] = worker_pc[h]
  BY <1>1 DEF IInv, WorkerInv, TypeOK
<1>5. WorkerInv'
  <2>1. worker_pc'[g] \in {"exit", "top"} /\ worker_pc'[g] # "start" /\ Alive(g)'
    BY <1>1, <1>2 DEF Alive, IInv, TypeOK
  <2>2. worker_pc'[g] \in InLoop => worker_state' = "running"
    BY <1>1 DEF InLoop, IInv, TypeOK
  <2>3. \A h \in Workers \ {g} : worker_pc'[h] \notin InLoop \cup {"start"}
    BY <1>4, Distinct DEF Alive, InLoop
  <2>4. \A h \in Workers : h > worker_generation' => worker_pc'[h] = "none"
    BY <1>1, <1>4, Distinct DEF IInv, WorkerInv
  <2>5. \A h \in Workers : Alive(h)' => thread' = h /\ worker_generation' = h
    BY <1>1, <1>3 DEF IInv, WorkerInv
  <2>6. Alive(thread)'
    BY <1>1, <2>1
  <2> QED
    BY <1>1, <2>1, <2>2, <2>3, <2>4, <2>5, <2>6 DEF WorkerInv
<1>6. TypeOK' /\ ShutdownInv' /\ GateInv'
  BY <1>1, <1>2, <1>3, <1>4 DEF IInv, TypeOK, ShutdownInv, GateInv, requests, lifespan, gate
<1> QED
  BY <1>5, <1>6 DEF IInv

(* A step of the loop that neither enters nor leaves the gate.             *)
LEMMA LoopInv ==
  ASSUME IInv, NEW g \in Workers, worker_pc[g] \in InLoop \ {"admitted", "cycle"},
         NEW l \in (InLoop \cup {"exit"}) \ {"admitted", "cycle"}, Goto(g, l),
         UNCHANGED <<sidecar, scheduler, requests, lifespan, gate>>
  PROVE  IInv'
<1>1. /\ WorkerInv' /\ ShutdownInv'
      /\ worker_pc' \in [Workers -> InLoop \cup {"none", "start", "exit", "dead"}]
  BY WorkerMoves DEF lifespan
<1>2. TypeOK'
  BY <1>1 DEF IInv, TypeOK, scheduler, requests, lifespan, gate
<1>3. GateInv'
  BY DEF IInv, GateInv, TypeOK, Goto, requests, lifespan, gate
<1> QED
  BY <1>1, <1>2, <1>3 DEF IInv

(* A worker that enters the gate, or leaves it.                            *)
LEMMA PassInv ==
  ASSUME IInv, NEW g \in Workers, worker_pc[g] \in InLoop, NEW l \in InLoop \cup {"exit"},
         Goto(g, l), UNCHANGED <<sidecar, scheduler, requests, lifespan>>,
         \/ Unfenced /\ Enter(g) /\ l \in {"admitted", "cycle"}
         \/ Leave(g) /\ l \notin {"admitted", "cycle"}
         \/ UNCHANGED gate /\ l = "cycle" /\ worker_pc[g] = "admitted"
  PROVE  IInv'
<1>1. /\ WorkerInv' /\ ShutdownInv'
      /\ worker_pc' \in [Workers -> InLoop \cup {"none", "start", "exit", "dead"}]
  BY WorkerMoves DEF lifespan
<1>2. TypeOK'
  <2>1. admitted' \subseteq Owners /\ UNCHANGED <<exclusive_owner, gate_closing>>
    BY DEF IInv, TypeOK, gate, Enter, Leave
  <2> QED
    BY <1>1, <2>1 DEF IInv, TypeOK, scheduler, requests, lifespan
<1>3. /\ \A o : o # g => (o \in admitted' <=> o \in admitted)
      /\ g \in admitted' <=> l \in {"admitted", "cycle"}
      /\ UNCHANGED exclusive_owner
  BY DEF Enter, Leave, gate, IInv, GateInv
<1>4. exclusive_owner' # NoOne => admitted' = {}
  BY DEF IInv, GateInv, Unfenced, Enter, Leave, gate
<1>5. GateInv'
  BY <1>3, <1>4, Distinct DEF IInv, GateInv, TypeOK, Goto, requests, lifespan
<1> QED
  BY <1>1, <1>2, <1>5 DEF IInv

LEMMA CycleFailsInv ==
  ASSUME IInv, NEW g \in Workers, CycleFails(g)
  PROVE  IInv'
<1>1. /\ worker_pc[g] = "cycle" /\ Alive(g) /\ thread = g /\ worker_generation = g
      /\ worker_pc' = [worker_pc EXCEPT ![g] = "exit"] /\ worker_state' = "failed"
      /\ admitted' = admitted \ {g} /\ UNCHANGED <<exclusive_owner, gate_closing>>
      /\ UNCHANGED <<sidecar, stop, closing, thread, worker_generation, requests, lifespan>>
  BY Distinct DEF CycleFails, Goto, Leave, Current, Alive, IInv, WorkerInv
<1>2. worker_pc' \in [Workers -> InLoop \cup {"none", "start", "exit", "dead"}]
  BY <1>1 DEF IInv, TypeOK
<1>3. \A h \in Workers : Alive(h)' <=> Alive(h)
  BY <1>1, <1>2 DEF Alive, IInv, TypeOK
<1>4. \A h \in Workers \ {g} : ~Alive(h) /\ worker_pc'[h] = worker_pc[h]
  BY <1>1 DEF IInv, WorkerInv, TypeOK
<1>5. WorkerInv'
  BY <1>1, <1>3, <1>4, Distinct DEF IInv, WorkerInv, Alive, InLoop, TypeOK
<1>6. TypeOK' /\ ShutdownInv'
  BY <1>1, <1>2, <1>3 DEF IInv, TypeOK, ShutdownInv, requests, lifespan
<1>7. GateInv'
  BY <1>1, <1>4, Distinct DEF IInv, GateInv, TypeOK, requests, lifespan
<1> QED
  BY <1>5, <1>6, <1>7 DEF IInv

LEMMA FinishWorkerInv ==
  ASSUME IInv, NEW g \in Workers, FinishWorker(g)
  PROVE  IInv'
<1>1. /\ worker_pc[g] = "exit" /\ Alive(g) /\ thread = g /\ worker_generation = g
      /\ worker_pc' = [worker_pc EXCEPT ![g] = "dead"] /\ thread' = 0
      /\ worker_state' \in {"not_started", "stopped", "failed"}
      /\ UNCHANGED <<sidecar, stop, closing, worker_generation, requests, lifespan, gate>>
  BY Distinct DEF FinishWorker, Goto, Current, Alive, IInv, WorkerInv, TypeOK
<1>2. worker_pc' \in [Workers -> InLoop \cup {"none", "start", "exit", "dead"}]
  BY <1>1 DEF IInv, TypeOK
<1>3. \A h \in Workers : ~Alive(h)'
  BY <1>1, <1>2 DEF Alive, IInv, TypeOK, WorkerInv
<1>4. \A h \in Workers \ {g} : ~Alive(h) /\ worker_pc'[h] = worker_pc[h]
  BY <1>1 DEF IInv, WorkerInv, TypeOK
<1>5. WorkerInv'
  BY <1>1, <1>3, <1>4, Distinct DEF IInv, WorkerInv, Alive, InLoop, TypeOK
<1>6. TypeOK' /\ ShutdownInv'
  BY <1>1, <1>2, <1>3, BoundAssumption DEF IInv, TypeOK, ShutdownInv, requests, lifespan, gate
<1>7. GateInv'
  BY <1>1, <1>4, Distinct DEF IInv, GateInv, TypeOK, requests, lifespan, gate
<1> QED
  BY <1>5, <1>6, <1>7 DEF IInv

LEMMA WorkerStepInv ==
  ASSUME IInv, NEW g \in Workers, WorkerStep(g)
  PROVE  IInv'
<1>1. CASE TryExit(g, "top", "dispatch") \/ TryExit(g, "after", "sleep")
  BY <1>1, LoopInv DEF TryExit, InLoop
<1>2. CASE Dispatch(g) \/ Sleep(g)
  BY <1>2, LoopInv DEF Dispatch, Sleep, InLoop
<1>3. CASE CycleEnter(g)
  <2>1. CASE (Goto(g, "after") \/ Goto(g, "queued")) /\ UNCHANGED gate
    BY <1>3, <2>1, LoopInv DEF CycleEnter, InLoop
  <2>2. CASE Goto(g, "admitted") /\ Unfenced /\ Enter(g)
    BY <1>3, <2>2, PassInv DEF CycleEnter, InLoop
  <2> QED
    BY <1>3, <2>1, <2>2 DEF CycleEnter
<1>4. CASE CycleWake(g)
  BY <1>4, PassInv DEF CycleWake, InLoop
<1>5. CASE CycleBegin(g)
  <2>1. worker_pc[g] = "admitted" /\ UNCHANGED <<sidecar, scheduler, requests, lifespan>>
    BY <1>5 DEF CycleBegin
  <2>2. CASE Goto(g, "after") /\ Leave(g)
    BY <2>1, <2>2, PassInv DEF InLoop
  <2>3. CASE Goto(g, "cycle") /\ UNCHANGED gate
    BY <2>1, <2>3, PassInv DEF InLoop
  <2> QED
    BY <1>5, <2>2, <2>3 DEF CycleBegin
<1>6. CASE CycleEnd(g)
  BY <1>6, PassInv DEF CycleEnd, InLoop
<1> QED
  BY <1>1, <1>2, <1>3, <1>4, <1>5, <1>6, MarkRunningInv, CycleFailsInv, FinishWorkerInv
     DEF WorkerStep

-----------------------------------------------------------------------------
(* Starting a worker.                                                      *)

(* A worker is started only when none is alive, and never under the fence. *)
LEMMA StartUnlockedInv ==
  ASSUME IInv, NEW ok \in BOOLEAN, StartUnlocked(ok), UNCHANGED closing
  PROVE  /\ WorkerInv'
         /\ worker_pc' \in [Workers -> InLoop \cup {"none", "start", "exit", "dead"}]
         /\ stop' \in BOOLEAN /\ thread' \in 0 .. MaxGeneration
         /\ worker_generation' \in 0 .. MaxGeneration
         /\ worker_state' \in {"not_started", "starting", "running", "stopped", "failed"}
         /\ closing => UNCHANGED worker_pc
         /\ \A g \in Workers : worker_pc'[g] \in {"admitted", "cycle"}
                                <=> worker_pc[g] \in {"admitted", "cycle"}
<1>1. CASE stop' \in BOOLEAN /\ UNCHANGED <<thread, worker_state, worker_generation, worker_pc>>
  BY <1>1 DEF IInv, WorkerInv, Alive, TypeOK
<1>2. CASE ~closing /\ ~Alive(thread) /\ Spawn(ok)
  <2> DEFINE n == worker_generation + 1
  <2>1. /\ n \in Workers /\ worker_generation' = n /\ stop' = FALSE
        /\ \/ /\ thread' = n /\ worker_state' = "starting"
              /\ worker_pc' = [worker_pc EXCEPT ![n] = "start"]
           \/ thread' = 0 /\ worker_state' = "failed" /\ UNCHANGED worker_pc
    BY <1>2 DEF Spawn
  <2>2. worker_generation \in Nat /\ n \in Nat /\ n > worker_generation /\ n # 0
    BY BoundAssumption DEF IInv, TypeOK
  <2>3. worker_pc[n] = "none"
    BY <2>1, <2>2 DEF IInv, WorkerInv
  <2>4. \A h \in Workers : ~Alive(h)
    BY <1>2 DEF IInv, WorkerInv
  <2>5. worker_pc \in [Workers -> InLoop \cup {"none", "start", "exit", "dead"}]
    BY DEF IInv, TypeOK
  <2>6. \A h \in Workers : worker_pc[h] \in {"none", "dead"}
    BY <2>4, Distinct DEF Alive
  <2>7. ASSUME NEW h \in Workers, h > n PROVE worker_pc'[h] = "none"
    <3>1. h \in Nat /\ h > worker_generation /\ h # n
      BY <2>2, <2>7, Distinct
    <3>2. worker_pc[h] = "none"
      BY <3>1 DEF IInv, WorkerInv
    <3> HIDE DEF n
    <3> QED
      BY <2>1, <2>5, <3>1, <3>2
  <2> HIDE DEF n
  <2>8. WorkerInv'
    BY <2>1, <2>2, <2>5, <2>6, <2>7 DEF WorkerInv, Alive, InLoop
  <2>9. /\ worker_pc' \in [Workers -> InLoop \cup {"none", "start", "exit", "dead"}]
        /\ thread' \in 0 .. MaxGeneration /\ worker_generation' \in 0 .. MaxGeneration
    BY <2>1, <2>2, <2>5, BoundAssumption
  <2> QED
    BY <1>2, <2>1, <2>3, <2>5, <2>8, <2>9
<1> QED
  BY <1>1, <1>2 DEF StartUnlocked, IInv, TypeOK

-----------------------------------------------------------------------------
(* The requests.                                                           *)

LEMMA RequestInv ==
  ASSUME IInv, NEW a \in Admins, NEW operation \in {"enable", "disable"}, Request(a, operation)
  PROVE  IInv'
<1>1. /\ admin_pc[a] = "idle" /\ admin_pc' = [admin_pc EXCEPT ![a] = operation]
      /\ UNCHANGED <<sidecar, scheduler, worker_pc, control_lock, install_pc, lifespan, gate>>
  BY DEF Request, AdminGoto
<1>2. WorkerInv' /\ ShutdownInv'
  BY <1>1, WorkerKept DEF lifespan
<1>3. TypeOK' /\ GateInv'
  BY <1>1 DEF IInv, TypeOK, GateInv, scheduler, lifespan, gate
<1> QED
  BY <1>2, <1>3 DEF IInv

LEMMA EnableEnterInv ==
  ASSUME IInv, NEW a \in Admins, EnableEnter(a)
  PROVE  IInv'
<1>1. UNCHANGED <<sidecar, scheduler, worker_pc, control_lock, install_pc, lifespan>>
  BY DEF EnableEnter
<1>2. WorkerInv' /\ ShutdownInv'
  BY <1>1, WorkerKept DEF lifespan
<1>3. CASE UNCHANGED gate
  <2>1. admin_pc[a] \in {"enable", "queued"}
    BY DEF EnableEnter
  <2>2. \E l \in {"idle", "queued"} : admin_pc' = [admin_pc EXCEPT ![a] = l]
    BY <1>3, <2>1 DEF EnableEnter, AdminGoto, Enter, gate, IInv, GateInv
  <2> QED
    BY <1>1, <1>2, <1>3, <2>1, <2>2 DEF IInv, TypeOK, GateInv, scheduler, lifespan, gate
<1>4. CASE admin_pc' = [admin_pc EXCEPT ![a] = "admitted"] /\ Unfenced /\ Enter(a)
  <2>0. admitted' \subseteq Owners /\ UNCHANGED <<exclusive_owner, gate_closing>>
    BY <1>4 DEF IInv, TypeOK, Enter
  <2>1. TypeOK'
    BY <1>1, <1>4, <2>0 DEF IInv, TypeOK, scheduler, lifespan
  <2>2. GateInv'
    BY <1>1, <1>4, Distinct DEF IInv, TypeOK, GateInv, lifespan, Enter, Unfenced
  <2> QED
    BY <1>2, <2>1, <2>2 DEF IInv
<1> QED
  BY <1>3, <1>4 DEF EnableEnter, AdminGoto

LEMMA EnableWriteInv ==
  ASSUME IInv, NEW a \in Admins, EnableWrite(a)
  PROVE  IInv'
<1>1. /\ admin_pc[a] = "admitted" /\ admin_pc' = [admin_pc EXCEPT ![a] = "start"]
      /\ control_lock' = a /\ sidecar' = TRUE
      /\ UNCHANGED <<scheduler, worker_pc, install_pc, lifespan, gate>>
  BY DEF EnableWrite, AdminGoto
<1>2. WorkerInv' /\ ShutdownInv'
  BY <1>1, WorkerKept DEF lifespan
<1>3. TypeOK' /\ GateInv'
  BY <1>1 DEF IInv, TypeOK, GateInv, scheduler, lifespan, gate
<1> QED
  BY <1>2, <1>3 DEF IInv

LEMMA EnableStartInv ==
  ASSUME IInv, NEW a \in Admins, NEW ok \in BOOLEAN, EnableStart(a, ok)
  PROVE  IInv'
<1>1. /\ admin_pc[a] = "start" /\ admin_pc' = [admin_pc EXCEPT ![a] = "idle"]
      /\ StartUnlocked(ok) /\ UNCHANGED closing /\ control_lock' = NoOne
      /\ admitted' = admitted \ {a} /\ UNCHANGED <<exclusive_owner, gate_closing>>
      /\ UNCHANGED <<sidecar, install_pc, lifespan>>
  BY DEF EnableStart, AdminGoto, Leave
<1>2. ShutdownInv'
  BY <1>1, StartUnlockedInv DEF IInv, ShutdownInv, lifespan, Alive
<1>3. GateInv'
  BY <1>1, StartUnlockedInv, Distinct DEF IInv, GateInv, TypeOK, lifespan
<1>4. TypeOK'
  BY <1>1, StartUnlockedInv DEF IInv, TypeOK, lifespan
<1> QED
  BY <1>1, <1>2, <1>3, <1>4, StartUnlockedInv DEF IInv

LEMMA DisableWriteInv ==
  ASSUME IInv, NEW a \in Admins, DisableWrite(a)
  PROVE  IInv'
<1>1. /\ admin_pc[a] = "disable" /\ admin_pc' = [admin_pc EXCEPT ![a] = "signal"]
      /\ control_lock' = a /\ sidecar' = FALSE
      /\ UNCHANGED <<scheduler, worker_pc, install_pc, lifespan, gate>>
  BY DEF DisableWrite, AdminGoto
<1>2. WorkerInv' /\ ShutdownInv'
  BY <1>1, WorkerKept DEF lifespan
<1>3. TypeOK' /\ GateInv'
  BY <1>1 DEF IInv, TypeOK, GateInv, scheduler, lifespan, gate
<1> QED
  BY <1>2, <1>3 DEF IInv

LEMMA DisableSignalInv ==
  ASSUME IInv, NEW a \in Admins, DisableSignal(a)
  PROVE  IInv'
<1>1. /\ admin_pc[a] = "signal" /\ admin_pc' = [admin_pc EXCEPT ![a] = "join"]
      /\ stop' = TRUE /\ control_lock' = NoOne
      /\ UNCHANGED <<sidecar, closing, thread, worker_state, worker_generation, worker_pc,
                     install_pc, lifespan, gate>>
  BY DEF DisableSignal, AdminGoto
<1>2. WorkerInv' /\ ShutdownInv'
  BY <1>1 DEF IInv, WorkerInv, ShutdownInv, Alive, lifespan
<1>3. TypeOK' /\ GateInv'
  BY <1>1 DEF IInv, TypeOK, GateInv, lifespan, gate
<1> QED
  BY <1>2, <1>3 DEF IInv

(* Forgetting a thread that is not alive.                                  *)
LEMMA ForgetInv ==
  ASSUME IInv, thread' = (IF Alive(thread) THEN thread ELSE 0),
         UNCHANGED <<worker_state, worker_generation, worker_pc>>
  PROVE  WorkerInv' /\ thread' \in 0 .. MaxGeneration /\ \A g \in Workers : Alive(g)' <=> Alive(g)
BY BoundAssumption DEF IInv, WorkerInv, Alive, TypeOK

LEMMA DisableJoinInv ==
  ASSUME IInv, NEW a \in Admins, DisableJoin(a)
  PROVE  IInv'
<1>1. /\ admin_pc[a] = "join" /\ admin_pc' = [admin_pc EXCEPT ![a] = "idle"]
      /\ thread' = IF Alive(thread) THEN thread ELSE 0
      /\ UNCHANGED <<sidecar, stop, closing, worker_state, worker_generation, worker_pc,
                     control_lock, install_pc, lifespan, gate>>
  BY DEF DisableJoin, AdminGoto
<1>2. WorkerInv' /\ ShutdownInv' /\ thread' \in 0 .. MaxGeneration
  BY <1>1, ForgetInv DEF IInv, ShutdownInv, lifespan
<1>3. TypeOK' /\ GateInv'
  BY <1>1, <1>2 DEF IInv, TypeOK, GateInv, lifespan, gate
<1> QED
  BY <1>2, <1>3 DEF IInv

LEMMA AdminStepInv ==
  ASSUME IInv, NEW a \in Admins, AdminStep(a)
  PROVE  IInv'
<1>1. {TRUE, ~Failures} \subseteq BOOLEAN
  BY ModeAssumption
<1> QED
  BY <1>1, EnableEnterInv, EnableWriteInv, EnableStartInv, DisableWriteInv, DisableSignalInv,
     DisableJoinInv DEF AdminStep

-----------------------------------------------------------------------------
(* The installations and the lifespan.                                     *)

LEMMA InstallInv ==
  ASSUME IInv, NEW i \in Installers, InstallStep(i) \/ InstallEnter(i)
  PROVE  IInv'
<1>1. UNCHANGED <<sidecar, scheduler, worker_pc, control_lock, admin_pc, lifespan, admitted,
                  gate_closing>>
  BY DEF InstallStep, InstallBegin, InstallEnd, InstallEnter, gate
<1>2. WorkerInv' /\ ShutdownInv'
  BY <1>1, WorkerKept DEF lifespan
<1>3. \/ /\ install_pc[i] = "none" /\ install_pc' = [install_pc EXCEPT ![i] = "waiting"]
         /\ UNCHANGED exclusive_owner
      \/ /\ install_pc[i] = "waiting" /\ install_pc' = [install_pc EXCEPT ![i] = "inside"]
         /\ exclusive_owner = NoOne /\ exclusive_owner' = i /\ admitted = {}
      \/ /\ install_pc[i] = "inside" /\ install_pc' = [install_pc EXCEPT ![i] = "done"]
         /\ exclusive_owner' = NoOne /\ exclusive_owner = i
  BY DEF InstallStep, InstallBegin, InstallEnd, InstallEnter, Raise, InstallGoto, gate, IInv, GateInv
<1>4. TypeOK'
  BY <1>1, <1>3 DEF IInv, TypeOK, scheduler, lifespan
<1>5. GateInv'
  BY <1>1, <1>3, Distinct DEF IInv, TypeOK, GateInv, lifespan
<1> QED
  BY <1>2, <1>4, <1>5 DEF IInv

LEMMA LifespanStartInv ==
  ASSUME IInv, NEW ok \in BOOLEAN, LifespanStart(ok)
  PROVE  IInv'
<1>1. /\ life_pc = "boot" /\ life_pc' = "serve" /\ StartUnlocked(ok)
      /\ UNCHANGED <<sidecar, closing, requests, joined, store_open, gate>>
  BY DEF LifespanStart
<1>2. ShutdownInv'
  BY <1>1 DEF IInv, ShutdownInv
<1>3. GateInv'
  BY <1>1, StartUnlockedInv, Distinct DEF IInv, GateInv, requests, gate
<1>4. TypeOK'
  BY <1>1, StartUnlockedInv DEF IInv, TypeOK, requests, gate
<1> QED
  BY <1>1, <1>2, <1>3, <1>4, StartUnlockedInv DEF IInv

LEMMA ShutdownBeginInv ==
  ASSUME IInv, ShutdownBegin \/ ShutdownBarrier
  PROVE  IInv'
<1>1. /\ UNCHANGED <<sidecar, scheduler, worker_pc, requests, joined, store_open, admitted>>
      /\ \/ /\ life_pc = "serve" /\ life_pc' = "drain" /\ gate_closing' = TRUE
            /\ UNCHANGED exclusive_owner
         \/ /\ life_pc = "drain" /\ life_pc' = "barrier" /\ UNCHANGED gate_closing
            /\ exclusive_owner = NoOne /\ exclusive_owner' = Lifespan /\ admitted = {}
  BY DEF ShutdownBegin, ShutdownBarrier, Raise, IInv, GateInv
<1>2. WorkerInv' /\ ShutdownInv'
  BY <1>1 DEF IInv, WorkerInv, ShutdownInv, Alive, scheduler
<1>3. TypeOK'
  BY <1>1 DEF IInv, TypeOK, scheduler, requests
<1>4. GateInv'
  BY <1>1, Distinct DEF IInv, GateInv, requests
<1> QED
  BY <1>2, <1>3, <1>4 DEF IInv

LEMMA SchedulerShutdownInv ==
  ASSUME IInv, SchedulerShutdown
  PROVE  IInv'
<1>1. /\ life_pc = "barrier" /\ life_pc' = "join" /\ closing' = TRUE /\ stop' = TRUE
      /\ joined' = IF Alive(thread) THEN thread ELSE 0
      /\ UNCHANGED <<sidecar, thread, worker_state, worker_generation, worker_pc, requests,
                     store_open, gate>>
  BY DEF SchedulerShutdown
<1>2. WorkerInv' /\ ShutdownInv'
  BY <1>1 DEF IInv, WorkerInv, ShutdownInv, Alive
<1>3. TypeOK' /\ GateInv'
  BY <1>1, BoundAssumption DEF IInv, TypeOK, GateInv, requests, gate
<1> QED
  BY <1>2, <1>3 DEF IInv

(* The store is closed when the worker that was joined has died.           *)
LEMMA CoreCloseInv ==
  ASSUME IInv, CoreClose
  PROVE  IInv'
<1>1. /\ life_pc = "join" /\ life_pc' = "closed" /\ ~Alive(joined) /\ store_open' = FALSE
      /\ thread' = IF Alive(thread) THEN thread ELSE 0
      /\ UNCHANGED <<sidecar, stop, closing, worker_state, worker_generation, worker_pc, requests,
                     joined, gate>>
  BY DEF CoreClose
<1>2. WorkerInv' /\ thread' \in 0 .. MaxGeneration /\ \A g \in Workers : Alive(g)' <=> Alive(g)
  BY <1>1, ForgetInv
<1>3. ShutdownInv'
  BY <1>1, <1>2 DEF IInv, ShutdownInv
<1>4. TypeOK' /\ GateInv'
  BY <1>1, <1>2 DEF IInv, TypeOK, GateInv, requests, gate
<1> QED
  BY <1>2, <1>3, <1>4 DEF IInv

LEMMA ShutdownEndInv ==
  ASSUME IInv, ShutdownEnd
  PROVE  IInv'
<1>1. /\ life_pc = "closed" /\ life_pc' = "down" /\ exclusive_owner = Lifespan
      /\ exclusive_owner' = NoOne /\ gate_closing' = FALSE
      /\ UNCHANGED <<sidecar, scheduler, worker_pc, requests, joined, store_open, admitted>>
  BY DEF ShutdownEnd, IInv, GateInv
<1>2. WorkerInv' /\ ShutdownInv'
  BY <1>1 DEF IInv, WorkerInv, ShutdownInv, Alive, scheduler
<1>3. TypeOK'
  BY <1>1 DEF IInv, TypeOK, scheduler, requests
<1>4. GateInv'
  BY <1>1, Distinct DEF IInv, GateInv, requests
<1> QED
  BY <1>2, <1>3, <1>4 DEF IInv

-----------------------------------------------------------------------------
(* The invariant holds, and what follows from it.                          *)

LEMMA InitInv == Init => IInv
<1> SUFFICES ASSUME Init PROVE IInv
  OBVIOUS
<1> USE DEF Init
<1>1. TypeOK
  <2>1. 0 \in 0 .. MaxGeneration
    BY BoundAssumption
  <2>2. /\ worker_pc \in [Workers -> InLoop \cup {"none", "start", "exit", "dead"}]
        /\ admin_pc \in [Admins -> {"idle", "enable", "queued", "admitted", "start",
                                    "disable", "signal", "join"}]
        /\ install_pc \in [Installers -> {"none", "waiting", "inside", "done"}]
    OBVIOUS
  <2> QED
    BY <2>1, <2>2 DEF TypeOK
<1>2. WorkerInv
  BY DEF WorkerInv, Alive, InLoop
<1>3. ShutdownInv
  BY DEF ShutdownInv
<1>4. GateInv
  BY Distinct DEF GateInv
<1> QED
  BY <1>1, <1>2, <1>3, <1>4 DEF IInv

LEMMA NextInv ==
  ASSUME IInv, [Next]_vars
  PROVE  IInv'
<1>1. CASE \E g \in Workers : WorkerStep(g)
  BY <1>1, WorkerStepInv
<1>2. CASE \E a \in Admins : AdminStep(a) \/ \E o \in {"enable", "disable"} : Request(a, o)
  BY <1>2, AdminStepInv, RequestInv
<1>3. CASE \E i \in Installers : InstallStep(i) \/ InstallEnter(i)
  BY <1>3, InstallInv
<1>4. CASE LifespanStep \/ ShutdownBegin
  <2>1. {TRUE, ~Failures} \subseteq BOOLEAN
    BY ModeAssumption
  <2> QED
    BY <1>4, <2>1, LifespanStartInv, ShutdownBeginInv, SchedulerShutdownInv, CoreCloseInv,
       ShutdownEndInv DEF LifespanStep
<1>5. CASE (\E b \in BOOLEAN : CliWrite(b)) \/ UNCHANGED vars
  <2>1. sidecar' \in BOOLEAN /\ UNCHANGED <<scheduler, worker_pc, requests, lifespan, gate>>
    BY <1>5 DEF CliWrite, vars, IInv, TypeOK
  <2>2. WorkerInv' /\ ShutdownInv'
    BY <2>1, WorkerKept DEF lifespan
  <2>3. TypeOK' /\ GateInv'
    BY <2>1 DEF IInv, TypeOK, GateInv, scheduler, requests, lifespan, gate
  <2> QED
    BY <2>2, <2>3 DEF IInv
<1> QED
  BY <1>1, <1>2, <1>3, <1>4, <1>5 DEF Next

(* The invariant, of which the types are a part.                           *)
THEOREM Invariant == Spec => []IInv
<1>1. Init => IInv
  BY InitInv
<1>2. IInv /\ [Next]_vars => IInv'
  BY NextInv
<1> QED
  BY <1>1, <1>2, PTL DEF Spec

(* The variables keep their types.                                         *)
THEOREM TypeCorrect == Spec => []TypeOK
<1>1. IInv => TypeOK
  BY DEF IInv
<1> QED
  BY <1>1, Invariant, PTL

(* One worker executes at most, and the published state is that worker's.  *)
THEOREM WorkersCorrect == Spec => []WorkersAccounted
<1>1. IInv => SingleWorker
  <2> SUFFICES ASSUME IInv PROVE SingleWorker
    OBVIOUS
  <2> DEFINE L == {g \in Workers : worker_pc[g] \in InLoop}
  <2>1. \A g \in L : g = thread
    BY Distinct DEF IInv, WorkerInv, Alive, InLoop
  <2>2. L = {} \/ L = {thread}
    BY <2>1
  <2>3. Cardinality({}) = 0 /\ Cardinality({thread}) = 1
    BY FS_EmptySet, FS_Singleton
  <2> HIDE DEF L
  <2>4. Cardinality(L) <= 1
    BY <2>2, <2>3
  <2> QED
    BY <2>4 DEF SingleWorker, L
<1>2. IInv => StatusHonest
  BY DEF IInv, WorkerInv, StatusHonest, Alive
<1>3. IInv => WorkersAccounted
  BY <1>1, <1>2 DEF WorkersAccounted
<1> QED
  BY <1>3, Invariant, PTL

(* Once the store is closed no worker is alive, and none comes to life.    *)
THEOREM StoreCorrect == Spec => []StoreOutlivesWorkers
<1>1. IInv => StoreOutlivesWorkers
  BY Distinct DEF IInv, ShutdownInv, StoreOutlivesWorkers, Alive, TypeOK
<1> QED
  BY <1>1, Invariant, PTL

-----------------------------------------------------------------------------
(* An installation or a shutdown that goes ahead finds no cycle and no     *)
(* half-done enable, and no cycle follows the shutdown.                    *)
THEOREM QuiescedCorrect == Spec => []Quiesced
<1>1. IInv => Quiesced
  <2> SUFFICES ASSUME IInv PROVE Quiesced
    OBVIOUS
  <2> DEFINE capturing  == \E g \in Workers : worker_pc[g] = "cycle"
             enabling   == \E a \in Admins : admin_pc[a] \in {"admitted", "start"}
             installing == \E i \in Installers : install_pc[i] = "inside"
             closed     == life_pc \in {"barrier", "join", "closed"}
  <2>1. capturing \/ enabling => exclusive_owner = NoOne
    BY DEF IInv, GateInv
  <2>2. installing => exclusive_owner \in Installers /\ exclusive_owner # NoOne
    BY Distinct DEF IInv, GateInv
  <2>3. closed => exclusive_owner = Lifespan
    BY DEF IInv, GateInv
  <2>4. life_pc = "down" => ~capturing
    BY Distinct DEF IInv, ShutdownInv, Alive
  <2> QED
    BY <2>1, <2>2, <2>3, <2>4, Distinct DEF Quiesced
<1> QED
  BY <1>1, Invariant, PTL
=============================================================================
