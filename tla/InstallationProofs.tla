------------------------- MODULE InstallationProofs -------------------------
(***************************************************************************)
(* The two ways the packaged program changes what is installed: its update *)
(* (UpdateCutover, first) and its registration with Windows                *)
(* (AppRegistration, second, with the invariant RegInv).                   *)
(*                                                                         *)
(* The update is atomic for any number of writes, power losses and failing *)
(* steps.  IInv is the inductive invariant.  An update goes through five   *)
(* stages, told apart by the files alone: it has not begun; its journal is *)
(* not bound; its journal is bound and open; its journal is terminal; its  *)
(* journal is retired.  Each stage says which processes may run, what they *)
(* hold in memory and what is installed; a helper says how its copy of the *)
(* journal stands to the file.                                             *)
(***************************************************************************)
EXTENDS UpdateCutover, RegistrationPromise, Integers, Sequences, FiniteSetTheorems, TLAPS

(* A start of the Core that the guard has not let pass.                    *)
Out == {"off", "guard", "blocked", "resume"}
Resting == {"off", "login", "load"}
Working == Waiting \cup Applying \cup RollingBack \cup Aborting
(* The Core that handed over has exited.                                   *)
Alone == (Waiting \ {"wait", "watch"}) \cup Applying \cup RollingBack
Decisions == {"installed", "rolled_back"}
BeforeCutover == {"prepared", "waiting_for_parent", "abort_requested"}
InCutover == {"cutover_started", "binary_replaced", "diagnostics_passed",
              "health_passed", "rolling_back"}

Installed(v) == bin = v /\ db.schema = v

(* What a Core that handed over has in memory.                             *)
HandingMem == core.mem # None => /\ core.mem.ptr /\ core.mem.done = None
                                 /\ core.mem.phase \in {"restart_required", "error"}
(* What a Core that found a decision has in memory.                        *)
DecidedMem == core.mem # None => ~core.mem.ptr /\ core.mem.phase = state.phase

(* The way back that the journal j names.                                  *)
BackedUp(j) == /\ ~j.parent /\ backups[j.backup.file] = j.backup.writes
               /\ j.backup.writes = tally.written

ReadyInv ==
  /\ state.phase = "ready" \/ (core.mem # None /\ core.mem.phase = "ready") =>
       journal = None /\ helper.pc = "off" /\ ~disk.runonce
  /\ core.pc \in Installing => helper.pc = "off"

CoreInv ==
  /\ core.pc \in Out => core.mem = None /\ ~core.parent
  /\ core.pc \in Installing \cup (Retiring \ {"rmtomb"}) => core.mem # None
  /\ core.pc \notin Out => core.version = bin /\ db.schema = bin
  /\ core.pc = "resume" => journal # None
  /\ core.pc \in {"copy", "copied", "journal"} => backups["initial"] # None
  /\ core.pc \in Installing \ {"backup", "copy", "copied"} => tree = "all"
  /\ core.pc = "bind" => cred
  /\ db.writes = tally.written

NotBegun ==
  journal = None /\ state.phase \notin Decisions =>
    /\ Installed("old") /\ helper.pc \in Resting /\ state.done = None
    /\ core.pc \in Out \cup Serving
                   \cup {"clean", "reset", "init", "rmtomb", "backup", "copy", "copied", "journal"}
    /\ core.pc \in {"copy", "copied", "journal"} =>
         state.ptr /\ core.mem.ptr /\ state.phase = "restart_required" /\ HandingMem
    /\ core.mem # None => core.mem.phase \notin Decisions /\ core.mem.done = None

Unsigned ==
  journal # None /\ ~journal.bound =>
    /\ journal.phase = "prepared" /\ journal.parent
    /\ Installed("old") /\ helper.pc \in Resting
    /\ state.ptr /\ state.done = None /\ state.phase \in {"restart_required", "error"}
    /\ HandingMem
    /\ \/ core.pc \in Out \cup {"reclaim", "unlink"}
       \/ core.parent /\ core.pc \in Serving \cup {"prepare", "secret", "bind"}

(* What is installed in each phase of an open journal.                     *)
Staged ==
  /\ journal.phase \in BeforeCutover => Installed("old")
  /\ journal.phase \in {"binary_replaced", "diagnostics_passed"} => bin = "new"
  /\ journal.phase = "health_passed" => Installed("new")
  /\ journal.phase \in InCutover => BackedUp(journal)

Underway ==
  journal # None /\ journal.bound /\ journal.phase \notin TerminalPhases =>
    /\ cred /\ tree = "all" /\ state.ptr /\ state.done = None
    /\ HandingMem
    /\ \/ core.pc \in Out
       \/ /\ core.parent /\ journal.parent /\ journal.phase \in BeforeCutover
          /\ core.pc \in Serving \cup {"publish", "register", "launch"}
    /\ Staged

Terminal ==
  journal # None /\ journal.phase \in TerminalPhases =>
    /\ Installed(IF journal.phase = "committed" THEN "new" ELSE "old")
    /\ helper.pc \in Resting \cup Ending
    /\ \/ core.pc \in Out
       \/ /\ core.parent /\ core.pc \in Serving
          /\ journal.phase = "rolled_back" /\ HandingMem
       \/ /\ core.pc \in Serving \cup Retiring \cup {"init"}
          /\ ~state.ptr /\ state.phase = Outcome(journal.phase) /\ DecidedMem

Retired ==
  journal = None /\ state.phase \in Decisions =>
    /\ ~state.ptr /\ Installed(IF state.phase = "installed" THEN "new" ELSE "old")
    /\ helper.pc \in Resting \cup Ending
    /\ core.pc \in (Out \cup Serving \cup Retiring \cup {"init"}) /\ DecidedMem

(* The helper's copy of the journal and the file.                          *)
SameJournal(phases) == journal = helper.j /\ helper.j.phase \in phases
HelperInv ==
  /\ helper.pc \in Working =>
       /\ journal # None /\ journal.bound /\ journal.phase \notin TerminalPhases
       /\ helper.j # None /\ helper.j.bound
  /\ helper.pc \in Alone => core.pc \in Out
  /\ helper.pc = "wait" => SameJournal({"prepared", "waiting_for_parent"})
  /\ helper.pc \in {"watch", "detach1", "detach2", "refresh", "rebind1", "rebind2"} =>
       SameJournal({"waiting_for_parent"})
  /\ helper.pc \in {"detach3", "rebind3"} => helper.j.phase = "waiting_for_parent"
  /\ helper.pc = "detach3" => journal = Detached
  /\ helper.pc = "rebind3" => journal = Rebacked
  /\ helper.pc \in {"refresh", "rebind1", "rebind2", "rebind3"} => ~helper.j.parent
  /\ helper.pc \in {"rebind1", "rebind2", "rebind3"} => backups["stopped"] = tally.written
  /\ helper.pc = "apply" => SameJournal({"waiting_for_parent", "cutover_started"})
  /\ helper.pc \in {"unpack", "replaced"} => SameJournal({"cutover_started"})
  /\ helper.pc = "diagnose" => SameJournal({"binary_replaced"})
  /\ helper.pc \in {"migrate", "health"} => SameJournal({"diagnostics_passed"})
  /\ helper.pc \in {"install", "commit"} => SameJournal({"health_passed"})
  /\ helper.pc = "replaced" => bin = "new"
  /\ helper.pc = "health" => db.schema = "new"
  /\ helper.pc \in Applying \cup RollingBack => BackedUp(helper.j)
  /\ helper.pc \in RollingBack \ {"rollback"} =>
       helper.j.phase = "rolling_back" /\ journal.phase = "rolling_back"
  /\ helper.pc \in {"restore", "revert", "reversed"} => bin = "old"
  /\ helper.pc \in {"revert", "reversed"} => db.schema = "old"
  /\ helper.pc = "abort" => /\ journal.phase \in BeforeCutover
                            /\ core.pc \notin Out => helper.j.parent
  /\ helper.pc \in {"aborting", "aborted"} => SameJournal({"abort_requested"})
  /\ helper.pc \in Ending =>
       /\ helper.j # None /\ helper.j.phase \in TerminalPhases
       /\ journal = helper.j \/ (journal = None /\ state.phase \in Decisions)

(* Steps that only a Core past its guard takes.                            *)
ReclaimInv ==
  /\ core.pc \in {"reclaim", "unlink"} => journal # None /\ ~journal.bound
  /\ core.pc \in {"clean", "reset"} => journal = None /\ state.phase \notin Decisions
  /\ core.pc = "entomb" => tomb # None \/ journal # None

IInv == /\ TypeOK /\ ReadyInv /\ CoreInv /\ ReclaimInv /\ HelperInv
        /\ NotBegun /\ Unsigned /\ Underway /\ Terminal /\ Retired

USE DEF Serving, Installing, Starting, Retiring, Waiting, Applying, RollingBack, Aborting,
        Ending, Out, Resting, Working, Alone, Decisions, TerminalPhases, BeforeCutover, InCutover

-----------------------------------------------------------------------------
(* What a step writes, file by file.                                       *)

LEMMA Files ==
  ASSUME disk \in Disk
  PROVE  /\ state \in State /\ journal \in Journal \cup {None} /\ tree \in {"none", "some", "all"}
         /\ cred \in BOOLEAN /\ tomb \in TerminalPhases \cup {None}
         /\ bin \in {"old", "mixed", "new"}
         /\ db \in [writes : 0..MaxWrites, schema : Versions]
         /\ backups \in [{"initial", "stopped"} -> 0..MaxWrites \cup {None}]
         /\ disk.runonce \in BOOLEAN
BY DEF Disk, state, journal, tree, cred, tomb, bin, db, backups

LEMMA SameDisk ==
  ASSUME UNCHANGED disk
  PROVE  UNCHANGED <<state, journal, tree, cred, tomb, bin, db, backups, disk.runonce>>
BY DEF state, journal, tree, cred, tomb, bin, db, backups

LEMMA SetState ==
  ASSUME disk \in Disk, NEW s \in State, disk' = [disk EXCEPT !.state = s]
  PROVE  /\ disk' \in Disk /\ state' = s
         /\ UNCHANGED <<journal, tree, cred, tomb, bin, db, backups, disk.runonce>>
BY DEF Disk, state, journal, tree, cred, tomb, bin, db, backups

LEMMA SetJournal ==
  ASSUME disk \in Disk, NEW j \in Journal \cup {None}, disk' = [disk EXCEPT !.journal = j]
  PROVE  /\ disk' \in Disk /\ journal' = j
         /\ UNCHANGED <<state, tree, cred, tomb, bin, db, backups, disk.runonce>>
BY DEF Disk, state, journal, tree, cred, tomb, bin, db, backups

LEMMA SetTree ==
  ASSUME disk \in Disk, NEW t \in {"none", "some", "all"}, disk' = [disk EXCEPT !.tree = t]
  PROVE  /\ disk' \in Disk /\ tree' = t
         /\ UNCHANGED <<state, journal, cred, tomb, bin, db, backups, disk.runonce>>
BY DEF Disk, state, journal, tree, cred, tomb, bin, db, backups

LEMMA SetCred ==
  ASSUME disk \in Disk, NEW c \in BOOLEAN, disk' = [disk EXCEPT !.cred = c]
  PROVE  /\ disk' \in Disk /\ cred' = c
         /\ UNCHANGED <<state, journal, tree, tomb, bin, db, backups, disk.runonce>>
BY DEF Disk, state, journal, tree, cred, tomb, bin, db, backups

LEMMA SetTomb ==
  ASSUME disk \in Disk, NEW t \in TerminalPhases \cup {None}, disk' = [disk EXCEPT !.tomb = t]
  PROVE  /\ disk' \in Disk /\ tomb' = t
         /\ UNCHANGED <<state, journal, tree, cred, bin, db, backups, disk.runonce>>
BY DEF Disk, state, journal, tree, cred, tomb, bin, db, backups

LEMMA SetBin ==
  ASSUME disk \in Disk, NEW b \in {"old", "mixed", "new"}, disk' = [disk EXCEPT !.bin = b]
  PROVE  /\ disk' \in Disk /\ bin' = b
         /\ UNCHANGED <<state, journal, tree, cred, tomb, db, backups, disk.runonce>>
BY DEF Disk, state, journal, tree, cred, tomb, bin, db, backups

LEMMA SetDb ==
  ASSUME disk \in Disk, NEW d \in [writes : 0..MaxWrites, schema : Versions],
         disk' = [disk EXCEPT !.db = d]
  PROVE  /\ disk' \in Disk /\ db' = d
         /\ UNCHANGED <<state, journal, tree, cred, tomb, bin, backups, disk.runonce>>
BY DEF Disk, state, journal, tree, cred, tomb, bin, db, backups

LEMMA SetBackups ==
  ASSUME disk \in Disk, NEW b \in [{"initial", "stopped"} -> 0..MaxWrites \cup {None}],
         disk' = [disk EXCEPT !.backups = b]
  PROVE  /\ disk' \in Disk /\ backups' = b
         /\ UNCHANGED <<state, journal, tree, cred, tomb, bin, db, disk.runonce>>
BY DEF Disk, state, journal, tree, cred, tomb, bin, db, backups

LEMMA SetRunonce ==
  ASSUME disk \in Disk, NEW r \in BOOLEAN, disk' = [disk EXCEPT !.runonce = r]
  PROVE  /\ disk' \in Disk /\ disk'.runonce = r
         /\ UNCHANGED <<state, journal, tree, cred, tomb, bin, db, backups>>
BY DEF Disk, state, journal, tree, cred, tomb, bin, db, backups

LEMMA StateType ==
  ASSUME NEW s \in State
  PROVE  /\ s.phase \in UpdatePhases /\ s.ptr \in BOOLEAN /\ s # None
         /\ s.cur \in Identities \cup {None} /\ s.pend \in Identities \cup {None}
         /\ s.done \in Identities \cup {None}
BY NoneAssumption DEF State

LEMMA JournalType ==
  ASSUME NEW j \in Journal
  PROVE  /\ j.phase \in HelperPhases /\ j.parent \in BOOLEAN /\ j.bound \in BOOLEAN /\ j # None
         /\ j.backup \in Backup /\ j.backup.file \in {"initial", "stopped"}
         /\ j.backup.writes \in 0..MaxWrites
         /\ Identity(j) \in Identities /\ j.seal \in TerminalPhases \cup {None}
         /\ \A p \in HelperPhases : [j EXCEPT !.phase = p] \in Journal
BY NoneAssumption DEF Journal, Identity, Identities, Backup

LEMMA InitInv == Init => IInv
<1> SUFFICES ASSUME Init PROVE IInv
  OBVIOUS
<1>1. NoHandoff \in State
  BY DEF NoHandoff, State, UpdatePhases
<1>2. disk \in Disk
  BY <1>1, CutoverAssumption DEF Init, Disk, Versions
<1>3. TypeOK
  <2>1. core \in [pc : {"off"} \cup Serving \cup Installing \cup Starting \cup Retiring,
                  mem : State \cup {None}, parent : BOOLEAN, version : Versions]
    BY <1>1 DEF Init, NotRunning, Versions
  <2>2. helper \in [pc : {"off", "login", "load"} \cup Waiting \cup Applying
                         \cup RollingBack \cup Aborting \cup Ending,
                    j : Journal \cup {None}, version : Versions, degraded : BOOLEAN]
    BY DEF Init, Exited, Versions
  <2>3. tally \in [written : 0..MaxWrites, crashes : 0..MaxCrashes,
                   failures : 0..MaxFailures, disturbed : BOOLEAN]
    BY CutoverAssumption DEF Init
  <2> QED
    BY <1>2, <2>1, <2>2, <2>3 DEF TypeOK
<1>4. /\ state = NoHandoff /\ journal = None /\ bin = "old" /\ db = [writes |-> 0, schema |-> "old"]
      /\ ~disk.runonce /\ core.pc = "idle" /\ core.mem = NoHandoff /\ core.version = "old"
      /\ helper.pc = "off" /\ tally.written = 0
  BY DEF Init, state, journal, bin, db, NotRunning, Exited
<1>5. ReadyInv /\ CoreInv /\ ReclaimInv /\ HelperInv
  BY <1>4 DEF ReadyInv, CoreInv, ReclaimInv, HelperInv, NoHandoff
<1>6. NotBegun /\ Unsigned /\ Underway /\ Terminal /\ Retired
  BY <1>4 DEF NotBegun, Unsigned, Underway, Terminal, Retired, NoHandoff, Installed
<1> QED
  BY <1>3, <1>5, <1>6 DEF IInv

CoreType == [pc : {"off"} \cup Serving \cup Installing \cup Starting \cup Retiring,
             mem : State \cup {None}, parent : BOOLEAN, version : Versions]
HelperType == [pc : {"off", "login", "load"} \cup Waiting \cup Applying
                    \cup RollingBack \cup Aborting \cup Ending,
               j : Journal \cup {None}, version : Versions, degraded : BOOLEAN]
TallyType == [written : 0..MaxWrites, crashes : 0..MaxCrashes,
              failures : 0..MaxFailures, disturbed : BOOLEAN]

LEMMA Typed ==
  TypeOK <=> disk \in Disk /\ core \in CoreType /\ helper \in HelperType /\ tally \in TallyType
BY DEF TypeOK, CoreType, HelperType, TallyType

LEMMA TypedNext ==
  TypeOK' <=> disk' \in Disk /\ core' \in CoreType /\ helper' \in HelperType /\ tally' \in TallyType
BY DEF TypeOK, CoreType, HelperType, TallyType

LEMMA Parts ==
  IInv <=> /\ TypeOK /\ ReadyInv /\ CoreInv /\ ReclaimInv /\ HelperInv
           /\ NotBegun /\ Unsigned /\ Underway /\ Terminal /\ Retired
BY DEF IInv

-----------------------------------------------------------------------------
(* The Core that hands over.                                               *)

LEMMA WriteInv ==
  ASSUME IInv, Write
  PROVE  IInv'
<1>1. /\ core.pc \in {"idle", "handed"} /\ tally.written < MaxWrites
      /\ tally' = [tally EXCEPT !.written = tally.written + 1]
      /\ disk' = [disk EXCEPT !.db = [db EXCEPT !.writes = db.writes + 1]]
      /\ UNCHANGED <<core, helper>>
  BY DEF Write, db
<1>2. /\ disk \in Disk /\ tally \in TallyType /\ db \in [writes : 0..MaxWrites, schema : Versions]
      /\ db.writes = tally.written
  BY Parts, Typed, Files DEF CoreInv
<1>3. [db EXCEPT !.writes = db.writes + 1] \in [writes : 0..MaxWrites, schema : Versions]
  BY <1>1, <1>2, CutoverAssumption
<1>4. /\ disk' \in Disk /\ db' = [db EXCEPT !.writes = db.writes + 1]
      /\ UNCHANGED <<state, journal, tree, cred, tomb, bin, backups, disk.runonce>>
  BY <1>1, <1>2, <1>3, SetDb
<1>5. db'.schema = db.schema /\ db'.writes = tally'.written /\ tally' \in TallyType
  BY <1>1, <1>2, <1>4, CutoverAssumption DEF TallyType
<1>6. TypeOK'
  BY <1>1, <1>4, <1>5, Parts, Typed, TypedNext
<1>7. ReadyInv' /\ CoreInv' /\ ReclaimInv'
  BY <1>1, <1>4, <1>5, Parts DEF ReadyInv, CoreInv, ReclaimInv
<1>8. HelperInv'
  BY <1>1, <1>4, <1>5, Parts DEF HelperInv, SameJournal, BackedUp, Detached, Rebacked
<1>9. NotBegun' /\ Unsigned' /\ Retired'
  BY <1>1, <1>4, <1>5, Parts DEF NotBegun, Unsigned, Retired, Installed, HandingMem, DecidedMem
<1>10. Underway' /\ Terminal'
  BY <1>1, <1>4, <1>5, Parts DEF Staged, Underway, Terminal, Installed, HandingMem, DecidedMem, BackedUp
<1> QED
  BY <1>6, <1>7, <1>8, <1>9, <1>10 DEF IInv

LEMMA SetCore ==
  ASSUME core \in CoreType,
         NEW pc \in {"off"} \cup Serving \cup Installing \cup Starting \cup Retiring,
         core' = [core EXCEPT !.pc = pc]
  PROVE  /\ core' \in CoreType /\ core'.pc = pc
         /\ core'.mem = core.mem /\ core'.parent = core.parent /\ core'.version = core.version
BY DEF CoreType

LEMMA NewCore ==
  ASSUME core \in CoreType, NEW m \in State \cup {None}, NEW q \in BOOLEAN,
         NEW pc \in {"off"} \cup Serving \cup Installing \cup Starting \cup Retiring,
         core' = [core EXCEPT !.pc = pc, !.mem = m, !.parent = q]
  PROVE  /\ core' \in CoreType /\ core'.pc = pc
         /\ core'.mem = m /\ core'.parent = q /\ core'.version = core.version
BY DEF CoreType

LEMMA CoreFacts ==
  ASSUME core \in CoreType
  PROVE  /\ core.mem \in State \cup {None} /\ core.parent \in BOOLEAN /\ core.version \in Versions
         /\ core = [pc |-> core.pc, mem |-> core.mem, parent |-> core.parent,
                    version |-> core.version]
BY DEF CoreType

LEMMA InstallInv ==
  ASSUME IInv, Install
  PROVE  IInv'
<1>1. /\ core.pc = "idle" /\ core.mem # None /\ core.mem.phase = "ready"
      /\ core' = [core EXCEPT !.pc = "backup", !.mem = [core.mem EXCEPT !.phase = "installing"]]
      /\ disk' = [disk EXCEPT !.state = core'.mem]
      /\ UNCHANGED <<helper, tally>>
  BY DEF Install
<1>2. core \in CoreType /\ disk \in Disk
  BY Parts, Typed
<1>3. /\ core' \in CoreType /\ core'.pc = "backup" /\ core'.mem \in State
      /\ core'.mem = [core.mem EXCEPT !.phase = "installing"]
      /\ core'.parent = core.parent /\ core'.version = core.version
  BY <1>1, <1>2 DEF CoreType, State, UpdatePhases
<1>4. /\ disk' \in Disk /\ state' = core'.mem
      /\ UNCHANGED <<journal, tree, cred, tomb, bin, db, backups, disk.runonce>>
  BY <1>1, <1>2, <1>3, SetState
<1>5. /\ core'.mem # None /\ core'.mem.phase = "installing" /\ core'.mem.done = core.mem.done
      /\ core'.mem.ptr = core.mem.ptr
  BY <1>1, <1>2, <1>3, StateType DEF CoreType, State
<1>6. journal = None /\ helper.pc = "off" /\ state.phase \notin Decisions
  BY <1>1, Parts DEF ReadyInv, Retired, DecidedMem
<1>7. TypeOK'
  BY <1>1, <1>2, <1>3, <1>4, <1>5, <1>6, Parts, Typed, TypedNext
<1>8. ReadyInv' /\ CoreInv' /\ ReclaimInv'
  BY <1>1, <1>2, <1>3, <1>4, <1>5, <1>6, Parts DEF ReadyInv, CoreInv, ReclaimInv, Installed
<1>9. HelperInv'
  BY <1>1, <1>2, <1>3, <1>4, <1>5, <1>6, Parts DEF HelperInv, SameJournal, BackedUp, Detached, Rebacked
<1>10. NotBegun' /\ Unsigned' /\ Retired'
  BY <1>1, <1>2, <1>3, <1>4, <1>5, <1>6, Parts DEF NotBegun, Unsigned, Retired, Installed, HandingMem, DecidedMem
<1>11. Underway' /\ Terminal'
  BY <1>1, <1>2, <1>3, <1>4, <1>5, <1>6, Parts DEF Staged, Underway, Terminal, Installed, HandingMem, DecidedMem, BackedUp, Outcome
<1> QED
  BY <1>7, <1>8, <1>9, <1>10, <1>11 DEF IInv

LEMMA SaveBackupInv ==
  ASSUME IInv, SaveBackup
  PROVE  IInv'
<1>1. /\ core.pc = "backup"
      /\ core' = [core EXCEPT !.pc = "copy", !.mem = [NoHandoff EXCEPT !.phase = "restart_required",
                                                                      !.ptr = TRUE]]
      /\ disk' = [disk EXCEPT !.backups["initial"] = db.writes, !.state = core'.mem]
      /\ UNCHANGED <<helper, tally>>
  BY DEF SaveBackup
<1>2. core \in CoreType /\ disk \in Disk
  BY Parts, Typed
<1>3. /\ core' \in CoreType /\ core'.pc = "copy" /\ core'.mem \in State
      /\ core'.mem.ptr /\ core'.mem.done = None /\ core'.mem.phase = "restart_required"
      /\ core'.parent = core.parent /\ core'.version = core.version
  BY <1>1, <1>2 DEF CoreType, State, UpdatePhases, NoHandoff
<1>4. /\ disk' \in Disk /\ state' = core'.mem
      /\ backups' = [backups EXCEPT !["initial"] = db.writes]
      /\ UNCHANGED <<journal, tree, cred, tomb, bin, db, disk.runonce>>
  BY <1>1, <1>2, <1>3 DEF Disk, state, journal, tree, cred, tomb, bin, db, backups
<1>5. /\ core'.mem # None /\ backups'["initial"] # None /\ backups'["stopped"] = backups["stopped"]
  BY <1>2, <1>3, <1>4, Files, StateType, NoneAssumption
<1>6. journal = None /\ helper.pc = "off" /\ state.phase \notin Decisions
  BY <1>1, Parts DEF ReadyInv, Retired, Unsigned, Underway, Terminal
<1>7. TypeOK'
  BY <1>1, <1>2, <1>3, <1>4, <1>5, <1>6, Parts, Typed, TypedNext
<1>8. ReadyInv' /\ CoreInv' /\ ReclaimInv'
  BY <1>1, <1>2, <1>3, <1>4, <1>5, <1>6, Parts DEF ReadyInv, CoreInv, ReclaimInv, Installed
<1>9. HelperInv'
  BY <1>1, <1>2, <1>3, <1>4, <1>5, <1>6, Parts DEF HelperInv, SameJournal, BackedUp, Detached, Rebacked
<1>10. NotBegun' /\ Unsigned' /\ Retired'
  BY <1>1, <1>2, <1>3, <1>4, <1>5, <1>6, Parts DEF NotBegun, Unsigned, Retired, Installed, HandingMem, DecidedMem
<1>11. Underway' /\ Terminal'
  BY <1>1, <1>2, <1>3, <1>4, <1>5, <1>6, Parts DEF Staged, Underway, Terminal, Installed, HandingMem, DecidedMem, BackedUp, Outcome
<1> QED
  BY <1>7, <1>8, <1>9, <1>10, <1>11 DEF IInv

LEMMA WriteJournalInv ==
  ASSUME IInv, WriteJournal
  PROVE  IInv'
<1>1. /\ core.pc = "journal"
      /\ core' = [core EXCEPT !.pc = "prepare", !.mem = core.mem, !.parent = TRUE]
      /\ disk' = [disk EXCEPT !.journal = Prepared]
      /\ UNCHANGED <<helper, tally>>
  <2>1. core.mem = core.mem /\ core \in CoreType
    BY Parts, Typed
  <2> QED
    BY <2>1 DEF WriteJournal, CoreType
<1>2. core \in CoreType /\ disk \in Disk
  BY Parts, Typed
<1>3. /\ core' \in CoreType /\ core'.pc = "prepare" /\ core'.mem = core.mem
      /\ core'.parent /\ core'.version = core.version
  BY <1>1, <1>2, CoreFacts, NewCore
<1>4. /\ Prepared \in Journal /\ Prepared.phase = "prepared" /\ Prepared.parent /\ ~Prepared.bound
  <2>1. backups["initial"] \in 0..MaxWrites
    BY <1>1, <1>2, Files, Parts DEF CoreInv
  <2> QED
    BY <2>1 DEF Prepared, Journal, Backup, HelperPhases
<1>5. /\ disk' \in Disk /\ journal' = Prepared
      /\ UNCHANGED <<state, tree, cred, tomb, bin, db, backups, disk.runonce>>
  BY <1>1, <1>2, <1>4, SetJournal
<1>6. journal' # None
  BY <1>4, <1>5, NoneAssumption
<1>7. /\ journal = None /\ helper.pc = "off" /\ state.phase \notin Decisions
      /\ tree = "all" /\ core.mem # None /\ core.mem.phase # "ready" /\ state.phase # "ready"
  BY <1>1, Parts DEF ReadyInv, CoreInv, NotBegun, HandingMem, Retired, Unsigned, Underway, Terminal
<1>8. TypeOK'
  BY <1>1, <1>2, <1>3, <1>4, <1>5, <1>6, <1>7, Parts, Typed, TypedNext
<1>9. ReadyInv' /\ CoreInv' /\ ReclaimInv'
  BY <1>1, <1>2, <1>3, <1>4, <1>5, <1>6, <1>7, Parts DEF ReadyInv, CoreInv, ReclaimInv, Installed
<1>10. HelperInv'
  BY <1>1, <1>2, <1>3, <1>4, <1>5, <1>6, <1>7, Parts DEF HelperInv, SameJournal, BackedUp, Detached, Rebacked
<1>11. NotBegun' /\ Unsigned' /\ Retired'
  BY <1>1, <1>2, <1>3, <1>4, <1>5, <1>6, <1>7, Parts DEF NotBegun, Unsigned, Retired, Installed, HandingMem, DecidedMem
<1>12. Underway' /\ Terminal'
  BY <1>1, <1>2, <1>3, <1>4, <1>5, <1>6, <1>7, Parts DEF Staged, Underway, Terminal, Installed, HandingMem, DecidedMem, BackedUp, Outcome
<1> QED
  BY <1>8, <1>9, <1>10, <1>11, <1>12 DEF IInv

LEMMA LaunchHelperInv ==
  ASSUME IInv, LaunchHelper
  PROVE  IInv'
<1>1. /\ core.pc = "launch" /\ core' = [core EXCEPT !.pc = "handed"]
      /\ helper' = [Exited EXCEPT !.pc = "load"] /\ UNCHANGED <<disk, tally>>
  BY DEF LaunchHelper, CoreAt
<1>2. core \in CoreType /\ disk \in Disk
  BY Parts, Typed
<1>3. /\ core' \in CoreType /\ core'.pc = "handed"
      /\ core'.mem = core.mem /\ core'.parent = core.parent /\ core'.version = core.version
  BY <1>1, <1>2, SetCore
<1>4. helper' \in HelperType /\ helper'.pc = "load"
  BY <1>1 DEF HelperType, Exited, Versions
<1>5. UNCHANGED <<state, journal, tree, cred, tomb, bin, db, backups, disk.runonce>>
  BY <1>1, SameDisk
<1>6. /\ journal # None /\ journal.bound /\ journal.phase \notin TerminalPhases /\ HandingMem
      /\ core.mem # None /\ state.phase # "ready"
  BY <1>1, Parts DEF ReadyInv, CoreInv, NotBegun, Retired, Unsigned, Underway, Terminal
<1>7. TypeOK'
  BY <1>1, <1>2, <1>3, <1>4, <1>5, <1>6, Parts, Typed, TypedNext
<1>8. ReadyInv' /\ CoreInv' /\ ReclaimInv'
  BY <1>1, <1>2, <1>3, <1>4, <1>5, <1>6, Parts DEF ReadyInv, CoreInv, ReclaimInv, HandingMem
<1>9. HelperInv'
  BY <1>1, <1>2, <1>3, <1>4, <1>5, <1>6, Parts DEF HelperInv, SameJournal, BackedUp, Detached, Rebacked
<1>10. NotBegun' /\ Unsigned' /\ Retired'
  BY <1>1, <1>2, <1>3, <1>4, <1>5, <1>6, Parts DEF NotBegun, Unsigned, Retired, Installed, HandingMem, DecidedMem
<1>11. Underway' /\ Terminal'
  BY <1>1, <1>2, <1>3, <1>4, <1>5, <1>6, Parts DEF Staged, Underway, Terminal, Installed, HandingMem, DecidedMem, BackedUp, Outcome
<1> QED
  BY <1>7, <1>8, <1>9, <1>10, <1>11 DEF IInv

LEMMA FailureTally ==
  ASSUME IInv, Failure
  PROVE  tally' \in TallyType /\ tally'.written = tally.written
<1>1. /\ tally.failures < MaxFailures
      /\ tally' = [tally EXCEPT !.failures = tally.failures + 1, !.disturbed = TRUE]
  BY DEF Failure
<1>2. /\ tally \in [written : 0..MaxWrites, crashes : 0..MaxCrashes,
                   failures : 0..MaxFailures, disturbed : BOOLEAN]
      /\ tally.failures \in 0..MaxFailures
  BY Parts, Typed DEF TallyType
<1>3. tally.failures + 1 \in 0..MaxFailures
  BY <1>1, <1>2, CutoverAssumption
<1> QED
  BY <1>1, <1>2, <1>3 DEF TallyType

LEMMA CopyInv ==
  ASSUME IInv, InstallStep("copy", "copied", [disk EXCEPT !.tree = "some"])
  PROVE  IInv'
<1>1. /\ core.pc = "copy" /\ core' = [core EXCEPT !.pc = "copied"]
      /\ disk' = [disk EXCEPT !.tree = "some"] /\ UNCHANGED <<helper, tally>>
  BY DEF InstallStep, CoreAt, state, journal
<1>2. core \in CoreType /\ disk \in Disk
  BY Parts, Typed
<1>3. /\ core' \in CoreType /\ core'.pc = "copied"
      /\ core'.mem = core.mem /\ core'.parent = core.parent /\ core'.version = core.version
  BY <1>1, <1>2, SetCore
<1>4. /\ disk' \in Disk /\ tree' = "some"
      /\ UNCHANGED <<state, journal, cred, tomb, bin, db, backups, disk.runonce>>
  BY <1>1, <1>2, <1>3, SetTree
<1>5. TypeOK'
  BY <1>1, <1>2, <1>3, <1>4, Parts, Typed, TypedNext
<1>6. ReadyInv' /\ CoreInv' /\ ReclaimInv'
  BY <1>1, <1>2, <1>3, <1>4, Parts DEF ReadyInv, CoreInv, ReclaimInv, Installed
<1>7. HelperInv'
  BY <1>1, <1>2, <1>3, <1>4, Parts DEF HelperInv, SameJournal, BackedUp, Detached, Rebacked
<1>8. NotBegun' /\ Unsigned' /\ Retired'
  BY <1>1, <1>2, <1>3, <1>4, Parts DEF NotBegun, Unsigned, Retired, Installed, HandingMem, DecidedMem
<1>9. Underway' /\ Terminal'
  BY <1>1, <1>2, <1>3, <1>4, Parts DEF Staged, Underway, Terminal, Installed, HandingMem, DecidedMem, BackedUp, Outcome
<1> QED
  BY <1>5, <1>6, <1>7, <1>8, <1>9 DEF IInv

LEMMA CopiedInv ==
  ASSUME IInv, InstallStep("copied", "journal", [disk EXCEPT !.tree = "all"])
  PROVE  IInv'
<1>1. /\ core.pc = "copied" /\ core' = [core EXCEPT !.pc = "journal"]
      /\ disk' = [disk EXCEPT !.tree = "all"] /\ UNCHANGED <<helper, tally>>
  BY DEF InstallStep, CoreAt, state, journal
<1>2. core \in CoreType /\ disk \in Disk
  BY Parts, Typed
<1>3. /\ core' \in CoreType /\ core'.pc = "journal"
      /\ core'.mem = core.mem /\ core'.parent = core.parent /\ core'.version = core.version
  BY <1>1, <1>2, SetCore
<1>4. /\ disk' \in Disk /\ tree' = "all"
      /\ UNCHANGED <<state, journal, cred, tomb, bin, db, backups, disk.runonce>>
  BY <1>1, <1>2, <1>3, SetTree
<1>5. TypeOK'
  BY <1>1, <1>2, <1>3, <1>4, Parts, Typed, TypedNext
<1>6. ReadyInv' /\ CoreInv' /\ ReclaimInv'
  BY <1>1, <1>2, <1>3, <1>4, Parts DEF ReadyInv, CoreInv, ReclaimInv, Installed
<1>7. HelperInv'
  BY <1>1, <1>2, <1>3, <1>4, Parts DEF HelperInv, SameJournal, BackedUp, Detached, Rebacked
<1>8. NotBegun' /\ Unsigned' /\ Retired'
  BY <1>1, <1>2, <1>3, <1>4, Parts DEF NotBegun, Unsigned, Retired, Installed, HandingMem, DecidedMem
<1>9. Underway' /\ Terminal'
  BY <1>1, <1>2, <1>3, <1>4, Parts DEF Staged, Underway, Terminal, Installed, HandingMem, DecidedMem, BackedUp, Outcome
<1> QED
  BY <1>5, <1>6, <1>7, <1>8, <1>9 DEF IInv

LEMMA PrepareInv ==
  ASSUME IInv, InstallStep("prepare", "secret", [disk EXCEPT !.state.pend = Identity(journal)])
  PROVE  IInv'
<1>1. /\ core.pc = "prepare" /\ core' = [core EXCEPT !.pc = "secret"]
      /\ disk' = [disk EXCEPT !.state = [state EXCEPT !.pend = Identity(journal)]] /\ UNCHANGED <<helper, tally>>
  BY DEF InstallStep, CoreAt, state, journal
<1>2. core \in CoreType /\ disk \in Disk
  BY Parts, Typed
<1>3. /\ core' \in CoreType /\ core'.pc = "secret"
      /\ core'.mem = core.mem /\ core'.parent = core.parent /\ core'.version = core.version
  BY <1>1, <1>2, SetCore
<1>4. journal # None /\ ~journal.bound
  BY <1>1, Parts DEF ReadyInv, CoreInv, NotBegun, HandingMem, Retired, Unsigned, Underway, Terminal
<1>5. /\ [state EXCEPT !.pend = Identity(journal)] \in State
      /\ [state EXCEPT !.pend = Identity(journal)].phase = state.phase
      /\ [state EXCEPT !.pend = Identity(journal)].ptr = state.ptr
      /\ [state EXCEPT !.pend = Identity(journal)].done = state.done
  BY <1>2, <1>4, Files, JournalType DEF State
<1>6. /\ disk' \in Disk /\ state' = [state EXCEPT !.pend = Identity(journal)]
      /\ UNCHANGED <<journal, tree, cred, tomb, bin, db, backups, disk.runonce>>
  BY <1>1, <1>2, <1>3, <1>4, <1>5, SetState
<1>7. TypeOK'
  BY <1>1, <1>2, <1>3, <1>4, <1>5, <1>6, Parts, Typed, TypedNext
<1>8. ReadyInv' /\ CoreInv' /\ ReclaimInv'
  BY <1>1, <1>2, <1>3, <1>4, <1>5, <1>6, Parts DEF ReadyInv, CoreInv, ReclaimInv, Installed
<1>9. HelperInv'
  BY <1>1, <1>2, <1>3, <1>4, <1>5, <1>6, Parts DEF HelperInv, SameJournal, BackedUp, Detached, Rebacked
<1>10. NotBegun' /\ Unsigned' /\ Retired'
  BY <1>1, <1>2, <1>3, <1>4, <1>5, <1>6, Parts DEF NotBegun, Unsigned, Retired, Installed, HandingMem, DecidedMem
<1>11. Underway' /\ Terminal'
  BY <1>1, <1>2, <1>3, <1>4, <1>5, <1>6, Parts DEF Staged, Underway, Terminal, Installed, HandingMem, DecidedMem, BackedUp, Outcome
<1> QED
  BY <1>7, <1>8, <1>9, <1>10, <1>11 DEF IInv

LEMMA SecretInv ==
  ASSUME IInv, InstallStep("secret", "bind", [disk EXCEPT !.cred = TRUE])
  PROVE  IInv'
<1>1. /\ core.pc = "secret" /\ core' = [core EXCEPT !.pc = "bind"]
      /\ disk' = [disk EXCEPT !.cred = TRUE] /\ UNCHANGED <<helper, tally>>
  BY DEF InstallStep, CoreAt, state, journal
<1>2. core \in CoreType /\ disk \in Disk
  BY Parts, Typed
<1>3. /\ core' \in CoreType /\ core'.pc = "bind"
      /\ core'.mem = core.mem /\ core'.parent = core.parent /\ core'.version = core.version
  BY <1>1, <1>2, SetCore
<1>4. /\ disk' \in Disk /\ cred' = TRUE
      /\ UNCHANGED <<state, journal, tree, tomb, bin, db, backups, disk.runonce>>
  BY <1>1, <1>2, <1>3, SetCred
<1>5. TypeOK'
  BY <1>1, <1>2, <1>3, <1>4, Parts, Typed, TypedNext
<1>6. ReadyInv' /\ CoreInv' /\ ReclaimInv'
  BY <1>1, <1>2, <1>3, <1>4, Parts DEF ReadyInv, CoreInv, ReclaimInv, Installed
<1>7. HelperInv'
  BY <1>1, <1>2, <1>3, <1>4, Parts DEF HelperInv, SameJournal, BackedUp, Detached, Rebacked
<1>8. NotBegun' /\ Unsigned' /\ Retired'
  BY <1>1, <1>2, <1>3, <1>4, Parts DEF NotBegun, Unsigned, Retired, Installed, HandingMem, DecidedMem
<1>9. Underway' /\ Terminal'
  BY <1>1, <1>2, <1>3, <1>4, Parts DEF Staged, Underway, Terminal, Installed, HandingMem, DecidedMem, BackedUp, Outcome
<1> QED
  BY <1>5, <1>6, <1>7, <1>8, <1>9 DEF IInv

LEMMA BindInv ==
  ASSUME IInv, InstallStep("bind", "publish", [disk EXCEPT !.journal.bound = TRUE])
  PROVE  IInv'
<1>1. /\ core.pc = "bind" /\ core' = [core EXCEPT !.pc = "publish"]
      /\ disk' = [disk EXCEPT !.journal = [journal EXCEPT !.bound = TRUE]] /\ UNCHANGED <<helper, tally>>
  BY DEF InstallStep, CoreAt, state, journal
<1>2. core \in CoreType /\ disk \in Disk
  BY Parts, Typed
<1>3. /\ core' \in CoreType /\ core'.pc = "publish"
      /\ core'.mem = core.mem /\ core'.parent = core.parent /\ core'.version = core.version
  BY <1>1, <1>2, SetCore
<1>4. /\ journal # None /\ ~journal.bound /\ helper.pc = "off" /\ state.phase # "ready"
      /\ core.mem # None /\ core.mem.phase # "ready" /\ tree = "all" /\ cred
  BY <1>1, Parts DEF ReadyInv, CoreInv, NotBegun, HandingMem, Retired, Unsigned, Underway, Terminal
<1>5. /\ [journal EXCEPT !.bound = TRUE] \in Journal /\ [journal EXCEPT !.bound = TRUE].phase = journal.phase
      /\ [journal EXCEPT !.bound = TRUE].bound /\ [journal EXCEPT !.bound = TRUE].parent = journal.parent
      /\ [journal EXCEPT !.bound = TRUE].backup = journal.backup
  BY <1>2, <1>4, Files DEF Journal
<1>6. /\ disk' \in Disk /\ journal' = [journal EXCEPT !.bound = TRUE]
      /\ UNCHANGED <<state, tree, cred, tomb, bin, db, backups, disk.runonce>>
  BY <1>1, <1>2, <1>3, <1>4, <1>5, SetJournal
<1>7. journal' # None
  BY <1>5, <1>6, NoneAssumption
<1>8. TypeOK'
  BY <1>1, <1>2, <1>3, <1>4, <1>5, <1>6, <1>7, Parts, Typed, TypedNext
<1>9. ReadyInv' /\ CoreInv' /\ ReclaimInv'
  BY <1>1, <1>2, <1>3, <1>4, <1>5, <1>6, <1>7, Parts DEF ReadyInv, CoreInv, ReclaimInv, Installed
<1>10. HelperInv'
  BY <1>1, <1>2, <1>3, <1>4, <1>5, <1>6, <1>7, Parts DEF HelperInv, SameJournal, BackedUp, Detached, Rebacked
<1>11. NotBegun' /\ Unsigned' /\ Retired'
  BY <1>1, <1>2, <1>3, <1>4, <1>5, <1>6, <1>7, Parts DEF NotBegun, Unsigned, Retired, Installed, HandingMem, DecidedMem
<1>12. Underway' /\ Terminal'
  BY <1>1, <1>2, <1>3, <1>4, <1>5, <1>6, <1>7, Parts DEF Unsigned, Staged, Underway, Terminal, Installed, HandingMem, DecidedMem, BackedUp, Outcome
<1> QED
  BY <1>8, <1>9, <1>10, <1>11, <1>12 DEF IInv

LEMMA PublishInv ==
  ASSUME IInv, InstallStep("publish", "register", [disk EXCEPT !.state.cur = Identity(journal), !.state.pend = None, !.state.done = None])
  PROVE  IInv'
<1>1. /\ core.pc = "publish" /\ core' = [core EXCEPT !.pc = "register"]
      /\ disk' = [disk EXCEPT !.state = [state EXCEPT !.cur = Identity(journal), !.pend = None, !.done = None]] /\ UNCHANGED <<helper, tally>>
  BY DEF InstallStep, CoreAt, state, journal
<1>2. core \in CoreType /\ disk \in Disk
  BY Parts, Typed
<1>3. /\ core' \in CoreType /\ core'.pc = "register"
      /\ core'.mem = core.mem /\ core'.parent = core.parent /\ core'.version = core.version
  BY <1>1, <1>2, SetCore
<1>4. /\ journal # None /\ journal.bound /\ journal.phase \notin TerminalPhases
      /\ helper.pc = "off"
  BY <1>1, Parts DEF ReadyInv, CoreInv, NotBegun, HandingMem, Retired, Unsigned, Underway, Terminal
<1>5. /\ [state EXCEPT !.cur = Identity(journal), !.pend = None, !.done = None] \in State
      /\ [state EXCEPT !.cur = Identity(journal), !.pend = None, !.done = None].phase = state.phase
      /\ [state EXCEPT !.cur = Identity(journal), !.pend = None, !.done = None].ptr = state.ptr
      /\ [state EXCEPT !.cur = Identity(journal), !.pend = None, !.done = None].done = None
  BY <1>2, <1>4, Files, JournalType DEF State
<1>6. /\ disk' \in Disk /\ state' = [state EXCEPT !.cur = Identity(journal), !.pend = None, !.done = None]
      /\ UNCHANGED <<journal, tree, cred, tomb, bin, db, backups, disk.runonce>>
  BY <1>1, <1>2, <1>3, <1>4, <1>5, SetState
<1>7. TypeOK'
  BY <1>1, <1>2, <1>3, <1>4, <1>5, <1>6, Parts, Typed, TypedNext
<1>8. ReadyInv' /\ CoreInv' /\ ReclaimInv'
  BY <1>1, <1>2, <1>3, <1>4, <1>5, <1>6, Parts DEF ReadyInv, CoreInv, ReclaimInv, Installed
<1>9. HelperInv'
  BY <1>1, <1>2, <1>3, <1>4, <1>5, <1>6, Parts DEF HelperInv, SameJournal, BackedUp, Detached, Rebacked
<1>10. NotBegun' /\ Unsigned' /\ Retired'
  BY <1>1, <1>2, <1>3, <1>4, <1>5, <1>6, Parts DEF NotBegun, Unsigned, Retired, Installed, HandingMem, DecidedMem
<1>11. Underway' /\ Terminal'
  BY <1>1, <1>2, <1>3, <1>4, <1>5, <1>6, Parts DEF Staged, Underway, Terminal, Installed, HandingMem, DecidedMem, BackedUp, Outcome
<1> QED
  BY <1>7, <1>8, <1>9, <1>10, <1>11 DEF IInv

LEMMA RegisterInv ==
  ASSUME IInv, InstallStep("register", "launch", [disk EXCEPT !.runonce = TRUE])
  PROVE  IInv'
<1>1. /\ core.pc = "register" /\ core' = [core EXCEPT !.pc = "launch"]
      /\ disk' = [disk EXCEPT !.runonce = TRUE] /\ UNCHANGED <<helper, tally>>
  BY DEF InstallStep, CoreAt, state, journal
<1>2. core \in CoreType /\ disk \in Disk
  BY Parts, Typed
<1>3. /\ core' \in CoreType /\ core'.pc = "launch"
      /\ core'.mem = core.mem /\ core'.parent = core.parent /\ core'.version = core.version
  BY <1>1, <1>2, SetCore
<1>4. /\ journal # None /\ core.mem # None /\ core.mem.phase # "ready" /\ state.phase # "ready"
  BY <1>1, Parts DEF ReadyInv, CoreInv, NotBegun, HandingMem, Retired, Unsigned, Underway, Terminal
<1>5. /\ disk' \in Disk /\ disk'.runonce = TRUE
      /\ UNCHANGED <<state, journal, tree, cred, tomb, bin, db, backups>>
  BY <1>1, <1>2, <1>3, <1>4, SetRunonce
<1>6. TypeOK'
  BY <1>1, <1>2, <1>3, <1>4, <1>5, Parts, Typed, TypedNext
<1>7. ReadyInv' /\ CoreInv' /\ ReclaimInv'
  BY <1>1, <1>2, <1>3, <1>4, <1>5, Parts DEF ReadyInv, CoreInv, ReclaimInv, Installed
<1>8. HelperInv'
  BY <1>1, <1>2, <1>3, <1>4, <1>5, Parts DEF HelperInv, SameJournal, BackedUp, Detached, Rebacked
<1>9. NotBegun' /\ Unsigned' /\ Retired'
  BY <1>1, <1>2, <1>3, <1>4, <1>5, Parts DEF NotBegun, Unsigned, Retired, Installed, HandingMem, DecidedMem
<1>10. Underway' /\ Terminal'
  BY <1>1, <1>2, <1>3, <1>4, <1>5, Parts DEF Staged, Underway, Terminal, Installed, HandingMem, DecidedMem, BackedUp, Outcome
<1> QED
  BY <1>6, <1>7, <1>8, <1>9, <1>10 DEF IInv

LEMMA HandoffFailsInv ==
  ASSUME IInv, HandoffFails
  PROVE  IInv'
<1>1. /\ core.pc \in Installing /\ Failure /\ UNCHANGED helper
      /\ core' = [core EXCEPT !.pc = "idle", !.mem =
                    [(IF core.mem.ptr /\ Evidence THEN state ELSE NoHandoff) EXCEPT !.phase = "error"]]
      /\ disk' = [disk EXCEPT !.state = core'.mem]
  BY DEF HandoffFails
<1>2. core \in CoreType /\ disk \in Disk /\ tally \in TallyType
  BY Parts, Typed
<1>3. /\ core'.mem = [(IF core.mem.ptr /\ Evidence THEN state ELSE NoHandoff) EXCEPT !.phase = "error"]
      /\ core' \in CoreType /\ core'.pc = "idle" /\ core'.mem \in State
      /\ core'.parent = core.parent /\ core'.version = core.version
  BY <1>1, <1>2, Files DEF CoreType, State, UpdatePhases, NoHandoff
<1>4. /\ core'.mem # None /\ core'.mem.phase = "error"
      /\ core'.mem.done = None \/ core'.mem.done = state.done
      /\ core.mem.ptr /\ Evidence => core'.mem.ptr = state.ptr
  BY <1>2, <1>3, Files, StateType DEF State, NoHandoff
<1>5. /\ disk' \in Disk /\ state' = core'.mem
      /\ UNCHANGED <<journal, tree, cred, tomb, bin, db, backups, disk.runonce>>
  BY <1>1, <1>2, <1>3, SetState
<1>6. /\ helper.pc = "off" /\ core.mem # None
      /\ journal # None => /\ core.mem.ptr /\ state.ptr /\ state.done = None
                           /\ journal.phase \notin TerminalPhases
      /\ journal = None => state.done = None /\ state.phase \notin Decisions
  BY <1>1, Parts DEF ReadyInv, CoreInv, ReclaimInv, NotBegun, HandingMem, DecidedMem, Retired, Unsigned, Underway, Terminal
<1>7. tally' \in TallyType /\ tally'.written = tally.written
  BY <1>1, FailureTally
<1>8. TypeOK'
  BY <1>1, <1>2, <1>3, <1>4, <1>5, <1>6, <1>7, Parts, Typed, TypedNext
<1>9. ReadyInv' /\ CoreInv' /\ ReclaimInv'
  BY <1>1, <1>2, <1>3, <1>4, <1>5, <1>6, <1>7, Parts DEF ReadyInv, CoreInv, ReclaimInv, Installed
<1>10. HelperInv'
  BY <1>1, <1>2, <1>3, <1>4, <1>5, <1>6, <1>7, Parts DEF HelperInv, SameJournal, BackedUp, Detached, Rebacked
<1>11. NotBegun' /\ Unsigned' /\ Retired'
  BY <1>1, <1>2, <1>3, <1>4, <1>5, <1>6, <1>7, Parts DEF NotBegun, Unsigned, Retired, Installed, HandingMem, DecidedMem, Evidence
<1>12. Underway' /\ Terminal'
  BY <1>1, <1>2, <1>3, <1>4, <1>5, <1>6, <1>7, Parts DEF Staged, Underway, Terminal, Installed, HandingMem, DecidedMem, BackedUp, Outcome, Evidence
<1> QED
  BY <1>8, <1>9, <1>10, <1>11, <1>12 DEF IInv

LEMMA CancelInv ==
  ASSUME IInv, Cancel
  PROVE  IInv'
<1>1. /\ core.pc \in {"idle", "handed"} /\ core.mem # None /\ disk' = [disk EXCEPT !.state = core.mem]
      /\ tally' = [tally EXCEPT !.disturbed = tally.disturbed \/ state # core.mem]
      /\ UNCHANGED core /\ UNCHANGED helper
  BY DEF Cancel, SavesMemory, CoreAt
<1>2. core \in CoreType /\ disk \in Disk /\ tally \in TallyType
  BY Parts, Typed
<1>3. /\ core' \in CoreType /\ core'.pc = core.pc
      /\ core'.mem = core.mem /\ core'.parent = core.parent /\ core'.version = core.version
  BY <1>1, <1>2, CoreFacts, SetCore
<1>4. tally' \in TallyType /\ tally'.written = tally.written
  BY <1>1, <1>2 DEF TallyType
<1>5. /\ disk' \in Disk /\ state' = core.mem
      /\ UNCHANGED <<journal, tree, cred, tomb, bin, db, backups, disk.runonce>>
  BY <1>1, <1>2, CoreFacts, SetState
<1>6. /\ core.mem.phase \in Decisions => state.phase = core.mem.phase
      /\ journal = None /\ state.phase \in Decisions => core.mem.phase = state.phase
  BY <1>1, Parts DEF ReadyInv, CoreInv, ReclaimInv, NotBegun, HandingMem, DecidedMem, Retired, Unsigned, Underway, Terminal
<1>7. TypeOK'
  BY <1>1, <1>2, <1>3, <1>4, <1>5, <1>6, Parts, Typed, TypedNext
<1>8. ReadyInv' /\ CoreInv' /\ ReclaimInv'
  BY <1>1, <1>2, <1>3, <1>4, <1>5, <1>6, Parts DEF ReadyInv, CoreInv, ReclaimInv, Installed
<1>9. HelperInv'
  BY <1>1, <1>2, <1>3, <1>4, <1>5, <1>6, Parts DEF HelperInv, SameJournal, BackedUp, Detached, Rebacked, Retired, DecidedMem
<1>10. NotBegun' /\ Unsigned' /\ Retired'
  BY <1>1, <1>2, <1>3, <1>4, <1>5, <1>6, Parts DEF NotBegun, Unsigned, Retired, Installed, HandingMem, DecidedMem
<1>11. Underway' /\ Terminal'
  BY <1>1, <1>2, <1>3, <1>4, <1>5, <1>6, Parts DEF Staged, Underway, Terminal, Installed, HandingMem, DecidedMem, BackedUp, Outcome
<1> QED
  BY <1>7, <1>8, <1>9, <1>10, <1>11 DEF IInv

LEMMA CloseInv ==
  ASSUME IInv, Close
  PROVE  IInv'
<1>1. /\ core.pc \in {"idle", "handed"} /\ core' = [core EXCEPT !.pc = "closing"]
      /\ UNCHANGED <<disk, helper, tally>>
  BY DEF Close, CoreAt
<1>2. core \in CoreType /\ disk \in Disk /\ tally \in TallyType
  BY Parts, Typed
<1>3. /\ core' \in CoreType /\ core'.pc = "closing"
      /\ core'.mem = core.mem /\ core'.parent = core.parent /\ core'.version = core.version
  BY <1>1, <1>2, SetCore
<1>4. UNCHANGED <<state, journal, tree, cred, tomb, bin, db, backups, disk.runonce>>
  BY <1>1, SameDisk
<1>5. TypeOK'
  BY <1>1, <1>2, <1>3, <1>4, Parts, Typed, TypedNext
<1>6. ReadyInv' /\ CoreInv' /\ ReclaimInv'
  BY <1>1, <1>2, <1>3, <1>4, Parts DEF ReadyInv, CoreInv, ReclaimInv, Installed
<1>7. HelperInv'
  BY <1>1, <1>2, <1>3, <1>4, Parts DEF HelperInv, SameJournal, BackedUp, Detached, Rebacked
<1>8. NotBegun' /\ Unsigned' /\ Retired'
  BY <1>1, <1>2, <1>3, <1>4, Parts DEF NotBegun, Unsigned, Retired, Installed, HandingMem, DecidedMem
<1>9. Underway' /\ Terminal'
  BY <1>1, <1>2, <1>3, <1>4, Parts DEF Staged, Underway, Terminal, Installed, HandingMem, DecidedMem, BackedUp, Outcome
<1> QED
  BY <1>5, <1>6, <1>7, <1>8, <1>9 DEF IInv

LEMMA LeaveWithSaveInv ==
  ASSUME IInv, LeaveWithSave
  PROVE  IInv'
<1>1. /\ core.pc = "closing" /\ core.mem # None /\ disk' = [disk EXCEPT !.state = core.mem]
      /\ tally' = [tally EXCEPT !.disturbed = tally.disturbed \/ state # core.mem]
      /\ core' = [core EXCEPT !.pc = "leaving"] /\ UNCHANGED helper
  BY DEF LeaveWithSave, SavesMemory, CoreAt
<1>2. core \in CoreType /\ disk \in Disk /\ tally \in TallyType
  BY Parts, Typed
<1>3. /\ core' \in CoreType /\ core'.pc = "leaving"
      /\ core'.mem = core.mem /\ core'.parent = core.parent /\ core'.version = core.version
  BY <1>1, <1>2, CoreFacts, SetCore
<1>4. tally' \in TallyType /\ tally'.written = tally.written
  BY <1>1, <1>2 DEF TallyType
<1>5. /\ disk' \in Disk /\ state' = core.mem
      /\ UNCHANGED <<journal, tree, cred, tomb, bin, db, backups, disk.runonce>>
  BY <1>1, <1>2, CoreFacts, SetState
<1>6. /\ core.mem.phase \in Decisions => state.phase = core.mem.phase
      /\ journal = None /\ state.phase \in Decisions => core.mem.phase = state.phase
  BY <1>1, Parts DEF ReadyInv, CoreInv, ReclaimInv, NotBegun, HandingMem, DecidedMem, Retired, Unsigned, Underway, Terminal
<1>7. TypeOK'
  BY <1>1, <1>2, <1>3, <1>4, <1>5, <1>6, Parts, Typed, TypedNext
<1>8. ReadyInv' /\ CoreInv' /\ ReclaimInv'
  BY <1>1, <1>2, <1>3, <1>4, <1>5, <1>6, Parts DEF ReadyInv, CoreInv, ReclaimInv, Installed
<1>9. HelperInv'
  BY <1>1, <1>2, <1>3, <1>4, <1>5, <1>6, Parts DEF HelperInv, SameJournal, BackedUp, Detached, Rebacked, Retired, DecidedMem
<1>10. NotBegun' /\ Unsigned' /\ Retired'
  BY <1>1, <1>2, <1>3, <1>4, <1>5, <1>6, Parts DEF NotBegun, Unsigned, Retired, Installed, HandingMem, DecidedMem
<1>11. Underway' /\ Terminal'
  BY <1>1, <1>2, <1>3, <1>4, <1>5, <1>6, Parts DEF Staged, Underway, Terminal, Installed, HandingMem, DecidedMem, BackedUp, Outcome
<1> QED
  BY <1>7, <1>8, <1>9, <1>10, <1>11 DEF IInv

LEMMA LeaveWithoutInv ==
  ASSUME IInv, LeaveWithout
  PROVE  IInv'
<1>1. /\ core.pc = "closing" /\ core' = [core EXCEPT !.pc = "leaving"]
      /\ UNCHANGED <<disk, helper, tally>>
  BY DEF LeaveWithout, CoreAt
<1>2. core \in CoreType /\ disk \in Disk /\ tally \in TallyType
  BY Parts, Typed
<1>3. /\ core' \in CoreType /\ core'.pc = "leaving"
      /\ core'.mem = core.mem /\ core'.parent = core.parent /\ core'.version = core.version
  BY <1>1, <1>2, SetCore
<1>4. UNCHANGED <<state, journal, tree, cred, tomb, bin, db, backups, disk.runonce>>
  BY <1>1, SameDisk
<1>5. TypeOK'
  BY <1>1, <1>2, <1>3, <1>4, Parts, Typed, TypedNext
<1>6. ReadyInv' /\ CoreInv' /\ ReclaimInv'
  BY <1>1, <1>2, <1>3, <1>4, Parts DEF ReadyInv, CoreInv, ReclaimInv, Installed
<1>7. HelperInv'
  BY <1>1, <1>2, <1>3, <1>4, Parts DEF HelperInv, SameJournal, BackedUp, Detached, Rebacked
<1>8. NotBegun' /\ Unsigned' /\ Retired'
  BY <1>1, <1>2, <1>3, <1>4, Parts DEF NotBegun, Unsigned, Retired, Installed, HandingMem, DecidedMem
<1>9. Underway' /\ Terminal'
  BY <1>1, <1>2, <1>3, <1>4, Parts DEF Staged, Underway, Terminal, Installed, HandingMem, DecidedMem, BackedUp, Outcome
<1> QED
  BY <1>5, <1>6, <1>7, <1>8, <1>9 DEF IInv

LEMMA ExitInv ==
  ASSUME IInv, Exit
  PROVE  IInv'
<1>1. core' = NotRunning /\ UNCHANGED <<disk, helper, tally>>
  BY DEF Exit
<1>2. core \in CoreType /\ disk \in Disk /\ tally \in TallyType
  BY Parts, Typed
<1>3. /\ core' \in CoreType /\ core'.pc = "off" /\ core'.mem = None /\ ~core'.parent
  BY <1>1 DEF NotRunning, CoreType, Versions
<1>4. UNCHANGED <<state, journal, tree, cred, tomb, bin, db, backups, disk.runonce>>
  BY <1>1, SameDisk
<1>5. TypeOK'
  BY <1>1, <1>2, <1>3, <1>4, Parts, Typed, TypedNext
<1>6. ReadyInv' /\ CoreInv' /\ ReclaimInv'
  BY <1>1, <1>2, <1>3, <1>4, Parts DEF ReadyInv, CoreInv, ReclaimInv, Installed
<1>7. HelperInv'
  BY <1>1, <1>2, <1>3, <1>4, Parts DEF HelperInv, SameJournal, BackedUp, Detached, Rebacked
<1>8. NotBegun' /\ Unsigned' /\ Retired'
  BY <1>1, <1>2, <1>3, <1>4, Parts DEF NotBegun, Unsigned, Retired, Installed, HandingMem, DecidedMem
<1>9. Underway' /\ Terminal'
  BY <1>1, <1>2, <1>3, <1>4, Parts DEF Staged, Underway, Terminal, Installed, HandingMem, DecidedMem, BackedUp, Outcome
<1> QED
  BY <1>5, <1>6, <1>7, <1>8, <1>9 DEF IInv

LEMMA StartInv ==
  ASSUME IInv, Start
  PROVE  IInv'
<1>1. /\ core.pc = "off" /\ UNCHANGED <<disk, helper, tally>>
      /\ \E v \in Versions : core' = [NotRunning EXCEPT !.pc = "guard", !.version = v]
  <2>1. bin = "mixed" \/ bin \in Versions
    BY Parts, Typed, Files DEF Versions
  <2> QED
    BY <2>1 DEF Start
<1>2. core \in CoreType /\ disk \in Disk /\ tally \in TallyType
  BY Parts, Typed
<1>3. /\ core' \in CoreType /\ core'.pc = "guard" /\ core'.mem = None /\ ~core'.parent
  BY <1>1 DEF NotRunning, CoreType, Versions
<1>4. UNCHANGED <<state, journal, tree, cred, tomb, bin, db, backups, disk.runonce>>
  BY <1>1, SameDisk
<1>5. TypeOK'
  BY <1>1, <1>2, <1>3, <1>4, Parts, Typed, TypedNext
<1>6. ReadyInv' /\ CoreInv' /\ ReclaimInv'
  BY <1>1, <1>2, <1>3, <1>4, Parts DEF ReadyInv, CoreInv, ReclaimInv, Installed
<1>7. HelperInv'
  BY <1>1, <1>2, <1>3, <1>4, Parts DEF HelperInv, SameJournal, BackedUp, Detached, Rebacked
<1>8. NotBegun' /\ Unsigned' /\ Retired'
  BY <1>1, <1>2, <1>3, <1>4, Parts DEF NotBegun, Unsigned, Retired, Installed, HandingMem, DecidedMem
<1>9. Underway' /\ Terminal'
  BY <1>1, <1>2, <1>3, <1>4, Parts DEF Staged, Underway, Terminal, Installed, HandingMem, DecidedMem, BackedUp, Outcome
<1> QED
  BY <1>5, <1>6, <1>7, <1>8, <1>9 DEF IInv

(* What the guard can decide, and on which ground.                         *)
LEMMA UnboundCases ==
  \/ Unbound = "blocked"
  \/ /\ state.phase \in {"restart_required", "error"}
     /\ \/ Unbound = "reset" /\ journal = None
        \/ /\ Unbound \in {"bind", "reclaim"} /\ journal # None
           /\ Unbound = "reclaim" => ~journal.bound
BY DEF Unbound, Accepts, Authority

LEMMA GuardCases ==
  \/ GuardVerdict = "blocked"
  \/ /\ StateAccepted(core.version)
     /\ \/ /\ ~state.ptr /\ PointerlessPasses
           /\ GuardVerdict = IF state.phase = "installing" THEN "reset" ELSE "init"
        \/ GuardVerdict = Unbound
        \/ journal # None /\ GuardVerdict = "resume"
BY DEF GuardVerdict, Accepts

LEMMA GuardInv ==
  ASSUME IInv, Guard
  PROVE  IInv'
<1>1. /\ core.pc = "guard" /\ UNCHANGED helper
      /\ core' = [core EXCEPT !.pc = IF GuardVerdict = "bind" THEN "resume" ELSE GuardVerdict]
      /\ disk' = IF \/ GuardVerdict = "bind"
                    \/ GuardVerdict = "resume" /\ journal.phase \notin TerminalPhases
                 THEN [disk EXCEPT !.state = Promoted(state, journal)] ELSE disk
      /\ tally' = [tally EXCEPT !.disturbed = tally.disturbed \/ (disk' # disk /\ helper.j # None)]
  BY DEF Guard
<1>2. core \in CoreType /\ disk \in Disk /\ tally \in TallyType
  BY Parts, Typed
<1>3. GuardVerdict \in {"blocked", "reset", "init", "bind", "reclaim", "resume"}
  BY GuardCases, UnboundCases
<1>4. /\ core' \in CoreType /\ core'.pc \in {"blocked", "reset", "init", "reclaim", "resume"}
      /\ core'.pc \in {"reset", "init", "reclaim"} => GuardVerdict = core'.pc
      /\ core'.pc = "resume" => GuardVerdict \in {"bind", "resume"}
      /\ core'.mem = None /\ ~core'.parent /\ core'.version = core.version
  <2>1. core.mem = None /\ ~core.parent
    BY <1>1, Parts DEF CoreInv
  <2> QED
    BY <1>1, <1>2, <1>3, <2>1, SetCore
<1>5. tally' \in TallyType /\ tally'.written = tally.written
  BY <1>1, <1>2 DEF TallyType
<1>6. GuardVerdict \in {"bind", "resume"} => journal # None
  BY GuardCases, UnboundCases
<1>7. GuardVerdict = "reset" => /\ journal = None
                                /\ state.phase \in {"installing", "restart_required", "error"}
                                /\ core.version = "old"
  <2>1. state.phase \in {"installing", "restart_required", "error"} /\ GuardVerdict # "blocked" => core.version = "old"
    BY <1>2, CoreFacts, GuardCases DEF StateAccepted, Versions
  <2> QED
    BY <2>1, GuardCases, UnboundCases DEF PointerlessPasses, Evidence
<1>8. GuardVerdict = "reclaim" => journal # None /\ ~journal.bound /\ core.version = "old"
  <2>1. state.phase \in {"restart_required", "error"} /\ GuardVerdict # "blocked" => core.version = "old"
    BY <1>2, CoreFacts, GuardCases DEF StateAccepted, Versions
  <2> QED
    BY <2>1, GuardCases, UnboundCases
<1>9. GuardVerdict = "init" => /\ ~state.ptr /\ core.version = (IF state.phase = "installed" THEN "new" ELSE "old")
                               /\ journal # None => CompletedAuthoritative \/ TombAuthoritative
  BY <1>2, CoreFacts, GuardCases, UnboundCases DEF PointerlessPasses, Evidence, StateAccepted, Versions
<1>10. GuardVerdict = "init" /\ journal # None => /\ journal.phase \in TerminalPhases
                                                  /\ state.phase = Outcome(journal.phase)
  BY <1>2, <1>9, Files DEF CompletedAuthoritative, TombAuthoritative, TombMatches, Published
<1>11. /\ disk' \in Disk /\ state'.phase = state.phase /\ state'.ptr = state.ptr /\ state'.done = state.done
       /\ UNCHANGED <<journal, tree, cred, tomb, bin, db, backups, disk.runonce>>
  <2>1. CASE disk' = disk
    BY <1>2, <2>1, SameDisk
  <2>2. CASE disk' = [disk EXCEPT !.state = Promoted(state, journal)] /\ journal # None
    <3>1. Identity(journal) \in Identities
      BY <1>2, <2>2, Files, JournalType
    <3>2. /\ Promoted(state, journal) \in State /\ Promoted(state, journal).phase = state.phase
          /\ Promoted(state, journal).ptr = state.ptr /\ Promoted(state, journal).done = state.done
      BY <1>2, <3>1, Files DEF Promoted, State
    <3> QED
      BY <1>2, <2>2, <3>2, SetState
  <2> QED
    BY <1>1, <1>6, <2>1, <2>2
<1>12. TypeOK'
  BY <1>1, <1>2, <1>3, <1>4, <1>5, <1>6, <1>7, <1>8, <1>9, <1>10, <1>11, Parts, Typed, TypedNext
<1>13. ReadyInv' /\ CoreInv' /\ ReclaimInv'
  <2>1. GuardVerdict \in {"reset", "init", "reclaim"} => bin = core.version /\ db.schema = bin
    <3>1. GuardVerdict = "reset" => Installed("old")
      BY <1>7, Parts DEF NotBegun
    <3>2. GuardVerdict = "reclaim" => Installed("old")
      BY <1>8, Parts DEF Unsigned
    <3>3. GuardVerdict = "init" /\ journal # None => Installed(core.version)
      BY <1>2, <1>9, <1>10, Files, JournalType, Parts DEF Terminal, Outcome
    <3>4. GuardVerdict = "init" /\ journal = None => Installed(core.version)
      BY <1>9, Parts DEF NotBegun, Retired
    <3> QED
      BY <1>7, <1>8, <3>1, <3>2, <3>3, <3>4 DEF Installed
  <2> QED
    BY <2>1, <1>1, <1>2, <1>3, <1>4, <1>5, <1>6, <1>7, <1>8, <1>9, <1>10, <1>11, Parts DEF ReadyInv, CoreInv, ReclaimInv
<1>14. HelperInv'
  BY <1>1, <1>2, <1>3, <1>4, <1>5, <1>6, <1>7, <1>8, <1>9, <1>10, <1>11, Parts DEF HelperInv, SameJournal, BackedUp, Detached, Rebacked
<1>15. NotBegun' /\ Unsigned' /\ Retired'
  BY <1>1, <1>2, <1>3, <1>4, <1>5, <1>6, <1>7, <1>8, <1>9, <1>10, <1>11, Parts DEF NotBegun, Unsigned, Retired, Installed, HandingMem, DecidedMem
<1>16. Underway' /\ Terminal'
  BY <1>1, <1>2, <1>3, <1>4, <1>5, <1>6, <1>7, <1>8, <1>9, <1>10, <1>11, Parts DEF Unsigned, NotBegun, Staged, Underway, Terminal, Installed, HandingMem, DecidedMem, BackedUp, Outcome
<1> QED
  BY <1>12, <1>13, <1>14, <1>15, <1>16 DEF IInv

LEMMA GuardLaunchesInv ==
  ASSUME IInv, GuardLaunches
  PROVE  IInv'
<1>1. /\ core.pc = "resume" /\ core' = NotRunning /\ UNCHANGED <<disk, tally>>
      /\ \/ helper' = helper
         \/ /\ helper.pc \in {"off", "login"}
            /\ \E v \in Versions : helper' = [Exited EXCEPT !.pc = "load", !.version = v]
  BY DEF GuardLaunches, Versions
<1>2. core \in CoreType /\ disk \in Disk /\ tally \in TallyType
  BY Parts, Typed
<1>3. /\ core' \in CoreType /\ core'.pc = "off" /\ core'.mem = None /\ ~core'.parent
  BY <1>1 DEF NotRunning, CoreType, Versions
<1>4. /\ helper' \in HelperType
      /\ helper' = helper \/ (helper.pc \in {"off", "login"} /\ helper'.pc = "load")
  BY <1>1, Parts, Typed DEF Exited, HelperType, Versions
<1>5. UNCHANGED <<state, journal, tree, cred, tomb, bin, db, backups, disk.runonce>>
  BY <1>1, SameDisk
<1>6. journal # None /\ state.phase # "ready"
  BY <1>1, Parts DEF ReadyInv, CoreInv, Unsigned, Underway, Terminal, Outcome
<1>7. TypeOK'
  BY <1>1, <1>2, <1>3, <1>4, <1>5, <1>6, Parts, Typed, TypedNext
<1>8. ReadyInv' /\ CoreInv' /\ ReclaimInv'
  BY <1>1, <1>2, <1>3, <1>4, <1>5, <1>6, Parts DEF ReadyInv, CoreInv, ReclaimInv, Installed
<1>9. HelperInv'
  <2>1. CASE helper' = helper
    BY <1>1, <1>3, <1>5, <2>1, Parts DEF HelperInv, SameJournal, BackedUp, Detached, Rebacked
  <2>2. CASE helper'.pc = "load"
    BY <2>2 DEF HelperInv
  <2> QED
    BY <1>4, <2>1, <2>2
<1>10. NotBegun' /\ Unsigned' /\ Retired'
  BY <1>1, <1>2, <1>3, <1>4, <1>5, <1>6, Parts DEF NotBegun, Unsigned, Retired, Installed, HandingMem, DecidedMem
<1>11. Underway' /\ Terminal'
  BY <1>1, <1>2, <1>3, <1>4, <1>5, <1>6, Parts DEF Staged, Underway, Terminal, Installed, HandingMem, DecidedMem, BackedUp, Outcome
<1> QED
  BY <1>7, <1>8, <1>9, <1>10, <1>11 DEF IInv

LEMMA ReclaimedInv ==
  ASSUME IInv, GuardStep("reclaim", "unlink", [disk EXCEPT !.tree = "some"])
  PROVE  IInv'
<1>1. /\ core.pc = "reclaim" /\ core' = [core EXCEPT !.pc = "unlink"]
      /\ disk' = [disk EXCEPT !.tree = "some"] /\ UNCHANGED <<helper, tally>>
  BY DEF GuardStep, CoreAt, state, journal
<1>2. core \in CoreType /\ disk \in Disk
  BY Parts, Typed
<1>3. /\ core' \in CoreType /\ core'.pc = "unlink"
      /\ core'.mem = core.mem /\ core'.parent = core.parent /\ core'.version = core.version
  BY <1>1, <1>2, SetCore
<1>4. journal # None /\ ~journal.bound
  BY <1>1, Parts DEF ReclaimInv
<1>5. /\ disk' \in Disk /\ tree' = "some"
      /\ UNCHANGED <<state, journal, cred, tomb, bin, db, backups, disk.runonce>>
  BY <1>1, <1>2, <1>3, <1>4, SetTree
<1>6. TypeOK'
  BY <1>1, <1>2, <1>3, <1>4, <1>5, Parts, Typed, TypedNext
<1>7. ReadyInv' /\ CoreInv' /\ ReclaimInv'
  BY <1>1, <1>2, <1>3, <1>4, <1>5, Parts DEF ReadyInv, CoreInv, ReclaimInv, Installed
<1>8. HelperInv'
  BY <1>1, <1>2, <1>3, <1>4, <1>5, Parts DEF HelperInv, SameJournal, BackedUp, Detached, Rebacked
<1>9. NotBegun' /\ Unsigned' /\ Retired'
  BY <1>1, <1>2, <1>3, <1>4, <1>5, Parts DEF NotBegun, Unsigned, Retired, Installed, HandingMem, DecidedMem
<1>10. Underway' /\ Terminal'
  BY <1>1, <1>2, <1>3, <1>4, <1>5, Parts DEF Staged, Underway, Terminal, Installed, HandingMem, DecidedMem, BackedUp, Outcome
<1> QED
  BY <1>6, <1>7, <1>8, <1>9, <1>10 DEF IInv

LEMMA UnlinkedInv ==
  ASSUME IInv, GuardStep("unlink", "clean", [disk EXCEPT !.journal = None])
  PROVE  IInv'
<1>1. /\ core.pc = "unlink" /\ core' = [core EXCEPT !.pc = "clean"]
      /\ disk' = [disk EXCEPT !.journal = None] /\ UNCHANGED <<helper, tally>>
  BY DEF GuardStep, CoreAt, state, journal
<1>2. core \in CoreType /\ disk \in Disk
  BY Parts, Typed
<1>3. /\ core' \in CoreType /\ core'.pc = "clean"
      /\ core'.mem = core.mem /\ core'.parent = core.parent /\ core'.version = core.version
  BY <1>1, <1>2, SetCore
<1>4. /\ journal # None /\ ~journal.bound /\ journal.phase = "prepared" /\ state.phase \notin Decisions
      /\ Installed("old") /\ helper.pc \in Resting /\ state.done = None /\ HandingMem
  BY <1>1, Parts DEF ReclaimInv, Unsigned
<1>5. /\ disk' \in Disk /\ journal' = None
      /\ UNCHANGED <<state, tree, cred, tomb, bin, db, backups, disk.runonce>>
  BY <1>1, <1>2, <1>3, <1>4, SetJournal
<1>6. TypeOK'
  BY <1>1, <1>2, <1>3, <1>4, <1>5, Parts, Typed, TypedNext
<1>7. ReadyInv' /\ CoreInv' /\ ReclaimInv'
  BY <1>1, <1>2, <1>3, <1>4, <1>5, Parts DEF ReadyInv, CoreInv, ReclaimInv, Installed
<1>8. HelperInv'
  BY <1>1, <1>2, <1>3, <1>4, <1>5 DEF HelperInv
<1>9. NotBegun' /\ Unsigned' /\ Retired'
  BY <1>1, <1>2, <1>3, <1>4, <1>5, Parts DEF NotBegun, Unsigned, Retired, Installed, HandingMem, DecidedMem
<1>10. Underway' /\ Terminal'
  BY <1>1, <1>2, <1>3, <1>4, <1>5, Parts DEF Staged, Underway, Terminal, Installed, HandingMem, DecidedMem, BackedUp, Outcome
<1> QED
  BY <1>6, <1>7, <1>8, <1>9, <1>10 DEF IInv

LEMMA CleanedInv ==
  ASSUME IInv, GuardStep("clean", "reset", [disk EXCEPT !.tree = "none"])
  PROVE  IInv'
<1>1. /\ core.pc = "clean" /\ core' = [core EXCEPT !.pc = "reset"]
      /\ disk' = [disk EXCEPT !.tree = "none"] /\ UNCHANGED <<helper, tally>>
  BY DEF GuardStep, CoreAt, state, journal
<1>2. core \in CoreType /\ disk \in Disk
  BY Parts, Typed
<1>3. /\ core' \in CoreType /\ core'.pc = "reset"
      /\ core'.mem = core.mem /\ core'.parent = core.parent /\ core'.version = core.version
  BY <1>1, <1>2, SetCore
<1>4. /\ disk' \in Disk /\ tree' = "none"
      /\ UNCHANGED <<state, journal, cred, tomb, bin, db, backups, disk.runonce>>
  BY <1>1, <1>2, <1>3, SetTree
<1>5. TypeOK'
  BY <1>1, <1>2, <1>3, <1>4, Parts, Typed, TypedNext
<1>6. ReadyInv' /\ CoreInv' /\ ReclaimInv'
  BY <1>1, <1>2, <1>3, <1>4, Parts DEF ReadyInv, CoreInv, ReclaimInv, Installed
<1>7. HelperInv'
  BY <1>1, <1>2, <1>3, <1>4, Parts DEF HelperInv, SameJournal, BackedUp, Detached, Rebacked
<1>8. NotBegun' /\ Unsigned' /\ Retired'
  BY <1>1, <1>2, <1>3, <1>4, Parts DEF NotBegun, Unsigned, Retired, Installed, HandingMem, DecidedMem
<1>9. Underway' /\ Terminal'
  BY <1>1, <1>2, <1>3, <1>4, Parts DEF Staged, Underway, Terminal, Installed, HandingMem, DecidedMem, BackedUp, Outcome
<1> QED
  BY <1>5, <1>6, <1>7, <1>8, <1>9 DEF IInv

LEMMA ResetInv ==
  ASSUME IInv, GuardStep("reset", "init",
                      [disk EXCEPT !.cred = FALSE, !.state = [NoHandoff EXCEPT !.phase = "error"]])
  PROVE  IInv'
<1>1. /\ core.pc = "reset" /\ core' = [core EXCEPT !.pc = "init"] /\ UNCHANGED <<helper, tally>>
      /\ disk' = [disk EXCEPT !.cred = FALSE, !.state = [NoHandoff EXCEPT !.phase = "error"]]
  BY DEF GuardStep, CoreAt
<1>2. core \in CoreType /\ disk \in Disk /\ tally \in TallyType
  BY Parts, Typed
<1>3. /\ core' \in CoreType /\ core'.pc = "init"
      /\ core'.mem = core.mem /\ core'.parent = core.parent /\ core'.version = core.version
  BY <1>1, <1>2, SetCore
<1>4. /\ disk' \in Disk /\ state' = [NoHandoff EXCEPT !.phase = "error"] /\ cred' = FALSE
      /\ UNCHANGED <<journal, tree, tomb, bin, db, backups, disk.runonce>>
  <2>1. [NoHandoff EXCEPT !.phase = "error"] \in State
    BY DEF NoHandoff, State, UpdatePhases
  <2> QED
    BY <1>1, <1>2, <2>1 DEF Disk, state, journal, tree, cred, tomb, bin, db, backups
<1>5. state'.phase = "error" /\ state'.done = None
  BY <1>4 DEF NoHandoff
<1>6. /\ journal = None /\ state.phase \notin Decisions /\ helper.pc \in Resting
  BY <1>1, Parts DEF ReclaimInv, NotBegun
<1>7. TypeOK'
  BY <1>1, <1>2, <1>3, <1>4, <1>5, <1>6, Parts, Typed, TypedNext
<1>8. ReadyInv' /\ CoreInv' /\ ReclaimInv'
  BY <1>1, <1>2, <1>3, <1>4, <1>5, <1>6, Parts DEF ReadyInv, CoreInv, ReclaimInv, Installed
<1>9. HelperInv'
  BY <1>1, <1>2, <1>3, <1>4, <1>5, <1>6, Parts DEF HelperInv, SameJournal, BackedUp, Detached, Rebacked
<1>10. NotBegun' /\ Unsigned' /\ Retired'
  BY <1>1, <1>2, <1>3, <1>4, <1>5, <1>6, Parts DEF NotBegun, Unsigned, Retired, Installed, HandingMem, DecidedMem
<1>11. Underway' /\ Terminal'
  BY <1>1, <1>2, <1>3, <1>4, <1>5, <1>6, Parts DEF Staged, Underway, Terminal, Installed, HandingMem, DecidedMem, BackedUp, Outcome
<1> QED
  BY <1>7, <1>8, <1>9, <1>10, <1>11 DEF IInv

LEMMA OpenInv ==
  ASSUME IInv, Open
  PROVE  IInv'
<1>1. /\ core.pc = "init" /\ UNCHANGED <<disk, helper, tally>>
      /\ \E pc \in {"entomb", "rmtomb", "idle"}, m \in {None, state} :
           /\ core' = [core EXCEPT !.pc = pc, !.mem = m]
           /\ pc = "entomb" => state.done # None /\ m # None /\ (tomb # None \/ journal # None)
  <2>1. state # None
    BY Parts, Typed, Files, StateType
  <2> QED
    BY <2>1 DEF Open, BindingValid, CompletedAuthoritative, TombMatches
<1>2. core \in CoreType /\ disk \in Disk /\ tally \in TallyType
  BY Parts, Typed
<1>3. /\ core' \in CoreType /\ core'.pc \in {"entomb", "rmtomb", "idle"} /\ core'.mem \in {None, state}
      /\ core'.pc = "entomb" => /\ state.done # None /\ core'.mem # None
                                /\ tomb # None \/ journal # None
      /\ core'.parent = core.parent /\ core'.version = core.version
  <2>1. PICK pc \in {"entomb", "rmtomb", "idle"}, m \in {None, state} :
          /\ core' = [core EXCEPT !.pc = pc, !.mem = m]
          /\ pc = "entomb" => state.done # None /\ m # None /\ (tomb # None \/ journal # None)
    BY <1>1
  <2>2. m \in State \cup {None}
    BY <1>2, Files
  <2>3. /\ core' \in CoreType /\ core'.pc = pc /\ core'.mem = m
        /\ core'.parent = core.parent /\ core'.version = core.version
    BY <1>2, <2>1, <2>2 DEF CoreType
  <2> QED
    BY <2>1, <2>3
<1>4. UNCHANGED <<state, journal, tree, cred, tomb, bin, db, backups, disk.runonce>>
  BY <1>1, SameDisk
<1>5. TypeOK'
  BY <1>1, <1>2, <1>3, <1>4, Parts, Typed, TypedNext
<1>6. ReadyInv' /\ CoreInv' /\ ReclaimInv'
  BY <1>1, <1>2, <1>3, <1>4, Parts DEF ReadyInv, CoreInv, ReclaimInv, Installed
<1>7. HelperInv'
  BY <1>1, <1>2, <1>3, <1>4, Parts DEF HelperInv, SameJournal, BackedUp, Detached, Rebacked
<1>8. NotBegun' /\ Unsigned' /\ Retired'
  BY <1>1, <1>2, <1>3, <1>4, Parts DEF NotBegun, Unsigned, Retired, Installed, HandingMem, DecidedMem
<1>9. Underway' /\ Terminal'
  BY <1>1, <1>2, <1>3, <1>4, Parts DEF Staged, Underway, Terminal, Installed, HandingMem, DecidedMem, BackedUp, Outcome
<1> QED
  BY <1>5, <1>6, <1>7, <1>8, <1>9 DEF IInv

LEMMA EntombedInv ==
  ASSUME IInv, GuardStep("entomb", "rmjournal", [disk EXCEPT !.tomb = IF tomb # None THEN @ ELSE journal.phase])
  PROVE  IInv'
<1>1. /\ core.pc = "entomb" /\ core' = [core EXCEPT !.pc = "rmjournal"]
      /\ disk' = [disk EXCEPT !.tomb = (IF tomb # None THEN tomb ELSE journal.phase)] /\ UNCHANGED <<helper, tally>>
  BY DEF GuardStep, CoreAt, state, journal, tomb
<1>2. core \in CoreType /\ disk \in Disk
  BY Parts, Typed
<1>3. /\ core' \in CoreType /\ core'.pc = "rmjournal"
      /\ core'.mem = core.mem /\ core'.parent = core.parent /\ core'.version = core.version
  BY <1>1, <1>2, SetCore
<1>4. (IF tomb # None THEN tomb ELSE journal.phase) \in TerminalPhases \cup {None}
  <2>1. journal # None => journal.phase \in TerminalPhases
    BY <1>1, Parts DEF Unsigned, Underway
  <2> QED
    BY <1>1, <1>2, <2>1, Files, Parts DEF ReclaimInv
<1>5. /\ disk' \in Disk /\ tomb' = (IF tomb # None THEN tomb ELSE journal.phase)
      /\ UNCHANGED <<state, journal, tree, cred, bin, db, backups, disk.runonce>>
  BY <1>1, <1>2, <1>4, SetTomb
<1>6. TypeOK'
  BY <1>1, <1>2, <1>3, <1>4, <1>5, Parts, Typed, TypedNext
<1>7. ReadyInv' /\ CoreInv' /\ ReclaimInv'
  BY <1>1, <1>2, <1>3, <1>4, <1>5, Parts DEF ReadyInv, CoreInv, ReclaimInv, Installed
<1>8. HelperInv'
  BY <1>1, <1>2, <1>3, <1>4, <1>5, Parts DEF HelperInv, SameJournal, BackedUp, Detached, Rebacked
<1>9. NotBegun' /\ Unsigned' /\ Retired'
  BY <1>1, <1>2, <1>3, <1>4, <1>5, Parts DEF NotBegun, Unsigned, Retired, Installed, HandingMem, DecidedMem
<1>10. Underway' /\ Terminal'
  BY <1>1, <1>2, <1>3, <1>4, <1>5, Parts DEF Staged, Underway, Terminal, Installed, HandingMem, DecidedMem, BackedUp, Outcome
<1> QED
  BY <1>6, <1>7, <1>8, <1>9, <1>10 DEF IInv

LEMMA JournalRemovedInv ==
  ASSUME IInv, GuardStep("rmjournal", "rmtree", [disk EXCEPT !.journal = None])
  PROVE  IInv'
<1>1. /\ core.pc = "rmjournal" /\ core' = [core EXCEPT !.pc = "rmtree"]
      /\ disk' = [disk EXCEPT !.journal = None] /\ UNCHANGED <<helper, tally>>
  BY DEF GuardStep, CoreAt, state, journal
<1>2. core \in CoreType /\ disk \in Disk
  BY Parts, Typed
<1>3. /\ core' \in CoreType /\ core'.pc = "rmtree"
      /\ core'.mem = core.mem /\ core'.parent = core.parent /\ core'.version = core.version
  BY <1>1, <1>2, SetCore
<1>4. /\ journal # None => /\ journal.phase \in TerminalPhases /\ state.phase = Outcome(journal.phase)
                           /\ Installed(IF journal.phase = "committed" THEN "new" ELSE "old")
      /\ ~state.ptr /\ DecidedMem /\ helper.pc \in Resting \cup Ending
  BY <1>1, Parts DEF NotBegun, Unsigned, Underway, Terminal, Retired, HandingMem
<1>5. state.phase \in Decisions /\ Installed(IF state.phase = "installed" THEN "new" ELSE "old")
  BY <1>1, <1>4, Parts DEF NotBegun, Retired, Outcome
<1>6. /\ disk' \in Disk /\ journal' = None
      /\ UNCHANGED <<state, tree, cred, tomb, bin, db, backups, disk.runonce>>
  BY <1>1, <1>2, <1>3, <1>4, <1>5, SetJournal
<1>7. TypeOK'
  BY <1>1, <1>2, <1>3, <1>4, <1>5, <1>6, Parts, Typed, TypedNext
<1>8. ReadyInv' /\ CoreInv' /\ ReclaimInv'
  BY <1>1, <1>2, <1>3, <1>4, <1>5, <1>6, Parts DEF ReadyInv, CoreInv, ReclaimInv, Installed
<1>9. HelperInv'
  BY <1>1, <1>2, <1>3, <1>4, <1>5, <1>6, Parts DEF HelperInv, SameJournal, BackedUp, Detached, Rebacked
<1>10. NotBegun' /\ Unsigned' /\ Retired'
  BY <1>1, <1>2, <1>3, <1>4, <1>5, <1>6, Parts DEF NotBegun, Unsigned, Retired, Installed, HandingMem, DecidedMem
<1>11. Underway' /\ Terminal'
  BY <1>1, <1>2, <1>3, <1>4, <1>5, <1>6, Parts DEF Staged, Underway, Terminal, Installed, HandingMem, DecidedMem, BackedUp, Outcome
<1> QED
  BY <1>7, <1>8, <1>9, <1>10, <1>11 DEF IInv

LEMMA TreeRemovedInv ==
  ASSUME IInv, GuardStep("rmtree", "rmsecret", [disk EXCEPT !.tree = "none"])
  PROVE  IInv'
<1>1. /\ core.pc = "rmtree" /\ core' = [core EXCEPT !.pc = "rmsecret"]
      /\ disk' = [disk EXCEPT !.tree = "none"] /\ UNCHANGED <<helper, tally>>
  BY DEF GuardStep, CoreAt, state, journal
<1>2. core \in CoreType /\ disk \in Disk
  BY Parts, Typed
<1>3. /\ core' \in CoreType /\ core'.pc = "rmsecret"
      /\ core'.mem = core.mem /\ core'.parent = core.parent /\ core'.version = core.version
  BY <1>1, <1>2, SetCore
<1>4. /\ disk' \in Disk /\ tree' = "none"
      /\ UNCHANGED <<state, journal, cred, tomb, bin, db, backups, disk.runonce>>
  BY <1>1, <1>2, <1>3, SetTree
<1>5. TypeOK'
  BY <1>1, <1>2, <1>3, <1>4, Parts, Typed, TypedNext
<1>6. ReadyInv' /\ CoreInv' /\ ReclaimInv'
  BY <1>1, <1>2, <1>3, <1>4, Parts DEF ReadyInv, CoreInv, ReclaimInv, Installed
<1>7. HelperInv'
  BY <1>1, <1>2, <1>3, <1>4, Parts DEF HelperInv, SameJournal, BackedUp, Detached, Rebacked
<1>8. NotBegun' /\ Unsigned' /\ Retired'
  BY <1>1, <1>2, <1>3, <1>4, Parts DEF NotBegun, Unsigned, Retired, Installed, HandingMem, DecidedMem
<1>9. Underway' /\ Terminal'
  BY <1>1, <1>2, <1>3, <1>4, Parts DEF Staged, Underway, Terminal, Installed, HandingMem, DecidedMem, BackedUp, Outcome
<1> QED
  BY <1>5, <1>6, <1>7, <1>8, <1>9 DEF IInv

LEMMA SecretRemovedInv ==
  ASSUME IInv, GuardStep("rmsecret", "clear", [disk EXCEPT !.cred = FALSE])
  PROVE  IInv'
<1>1. /\ core.pc = "rmsecret" /\ core' = [core EXCEPT !.pc = "clear"]
      /\ disk' = [disk EXCEPT !.cred = FALSE] /\ UNCHANGED <<helper, tally>>
  BY DEF GuardStep, CoreAt, state, journal
<1>2. core \in CoreType /\ disk \in Disk
  BY Parts, Typed
<1>3. /\ core' \in CoreType /\ core'.pc = "clear"
      /\ core'.mem = core.mem /\ core'.parent = core.parent /\ core'.version = core.version
  BY <1>1, <1>2, SetCore
<1>4. /\ disk' \in Disk /\ cred' = FALSE
      /\ UNCHANGED <<state, journal, tree, tomb, bin, db, backups, disk.runonce>>
  BY <1>1, <1>2, <1>3, SetCred
<1>5. TypeOK'
  BY <1>1, <1>2, <1>3, <1>4, Parts, Typed, TypedNext
<1>6. ReadyInv' /\ CoreInv' /\ ReclaimInv'
  BY <1>1, <1>2, <1>3, <1>4, Parts DEF ReadyInv, CoreInv, ReclaimInv, Installed
<1>7. HelperInv'
  BY <1>1, <1>2, <1>3, <1>4, Parts DEF HelperInv, SameJournal, BackedUp, Detached, Rebacked
<1>8. NotBegun' /\ Unsigned' /\ Retired'
  BY <1>1, <1>2, <1>3, <1>4, Parts DEF NotBegun, Unsigned, Retired, Installed, HandingMem, DecidedMem
<1>9. Underway' /\ Terminal'
  BY <1>1, <1>2, <1>3, <1>4, Parts DEF Staged, Underway, Terminal, Installed, HandingMem, DecidedMem, BackedUp, Outcome
<1> QED
  BY <1>5, <1>6, <1>7, <1>8, <1>9 DEF IInv

LEMMA TombRemovedInv ==
  ASSUME IInv, GuardStep("rmtomb", "idle", [disk EXCEPT !.tomb = None])
  PROVE  IInv'
<1>1. /\ core.pc = "rmtomb" /\ core' = [core EXCEPT !.pc = "idle"]
      /\ disk' = [disk EXCEPT !.tomb = None] /\ UNCHANGED <<helper, tally>>
  BY DEF GuardStep, CoreAt, state, journal
<1>2. core \in CoreType /\ disk \in Disk
  BY Parts, Typed
<1>3. /\ core' \in CoreType /\ core'.pc = "idle"
      /\ core'.mem = core.mem /\ core'.parent = core.parent /\ core'.version = core.version
  BY <1>1, <1>2, SetCore
<1>4. /\ disk' \in Disk /\ tomb' = None
      /\ UNCHANGED <<state, journal, tree, cred, bin, db, backups, disk.runonce>>
  BY <1>1, <1>2, <1>3, SetTomb
<1>5. TypeOK'
  BY <1>1, <1>2, <1>3, <1>4, Parts, Typed, TypedNext
<1>6. ReadyInv' /\ CoreInv' /\ ReclaimInv'
  BY <1>1, <1>2, <1>3, <1>4, Parts DEF ReadyInv, CoreInv, ReclaimInv, Installed
<1>7. HelperInv'
  BY <1>1, <1>2, <1>3, <1>4, Parts DEF HelperInv, SameJournal, BackedUp, Detached, Rebacked
<1>8. NotBegun' /\ Unsigned' /\ Retired'
  BY <1>1, <1>2, <1>3, <1>4, Parts DEF NotBegun, Unsigned, Retired, Installed, HandingMem, DecidedMem
<1>9. Underway' /\ Terminal'
  BY <1>1, <1>2, <1>3, <1>4, Parts DEF Staged, Underway, Terminal, Installed, HandingMem, DecidedMem, BackedUp, Outcome
<1> QED
  BY <1>5, <1>6, <1>7, <1>8, <1>9 DEF IInv

LEMMA DoneClearedInv ==
  ASSUME IInv, core.pc = "clear", core' = [core EXCEPT !.pc = "rmtomb", !.mem.done = None],
         disk' = [disk EXCEPT !.state = core'.mem], UNCHANGED <<helper, tally>>
  PROVE  IInv'
<1>1. core.mem # None
  BY Parts DEF CoreInv
<1>2. core \in CoreType /\ disk \in Disk /\ tally \in TallyType
  BY Parts, Typed
<1>3. /\ core' \in CoreType /\ core'.pc = "rmtomb" /\ core'.mem \in State
      /\ core'.mem = [core.mem EXCEPT !.done = None]
      /\ core'.parent = core.parent /\ core'.version = core.version
  BY <1>1, <1>2 DEF CoreType, State
<1>4. /\ core'.mem # None /\ core'.mem.phase = core.mem.phase /\ core'.mem.ptr = core.mem.ptr /\ core'.mem.done = None
  BY <1>1, <1>2, <1>3, CoreFacts, StateType DEF State
<1>5. /\ disk' \in Disk /\ state' = core'.mem
      /\ UNCHANGED <<journal, tree, cred, tomb, bin, db, backups, disk.runonce>>
  BY <1>2, <1>3, SetState
<1>6. /\ ~state.ptr /\ state.phase = core.mem.phase /\ ~core.mem.ptr /\ state.phase \in Decisions
  <2>1. journal # None => journal.phase \in TerminalPhases /\ state.phase = Outcome(journal.phase)
    BY Parts DEF NotBegun, Unsigned, Underway, Terminal
  <2> QED
    BY <1>1, <2>1, Parts DEF NotBegun, Unsigned, Underway, Terminal, Retired, DecidedMem, HandingMem, Outcome
<1>7. TypeOK'
  BY <1>1, <1>2, <1>3, <1>4, <1>5, <1>6, Parts, Typed, TypedNext
<1>8. ReadyInv' /\ CoreInv' /\ ReclaimInv'
  BY <1>1, <1>2, <1>3, <1>4, <1>5, <1>6, Parts DEF ReadyInv, CoreInv, ReclaimInv, Installed
<1>9. HelperInv'
  BY <1>1, <1>2, <1>3, <1>4, <1>5, <1>6, Parts DEF HelperInv, SameJournal, BackedUp, Detached, Rebacked
<1>10. NotBegun' /\ Unsigned' /\ Retired'
  BY <1>1, <1>2, <1>3, <1>4, <1>5, <1>6, Parts DEF NotBegun, Unsigned, Retired, Installed, HandingMem, DecidedMem
<1>11. Underway' /\ Terminal'
  BY <1>1, <1>2, <1>3, <1>4, <1>5, <1>6, Parts DEF Staged, Underway, Terminal, Installed, HandingMem, DecidedMem, BackedUp, Outcome
<1> QED
  BY <1>7, <1>8, <1>9, <1>10, <1>11 DEF IInv

LEMMA RetireFailsInv ==
  ASSUME IInv, RetireFails
  PROVE  IInv'
<1>1. /\ core.pc \in {"rmjournal", "rmtree"} /\ Failure /\ core' = [core EXCEPT !.pc = "idle"]
      /\ disk' = [disk EXCEPT !.cred = FALSE, !.tree = IF tree = "all" /\ journal = None THEN "some" ELSE tree]
      /\ UNCHANGED helper
  BY DEF RetireFails, CoreAt, tree, journal
<1>2. core \in CoreType /\ disk \in Disk /\ tally \in TallyType
  BY Parts, Typed
<1>3. /\ core' \in CoreType /\ core'.pc = "idle"
      /\ core'.mem = core.mem /\ core'.parent = core.parent /\ core'.version = core.version
  BY <1>1, <1>2, SetCore
<1>4. tally' \in TallyType /\ tally'.written = tally.written
  BY <1>1, FailureTally
<1>5. /\ disk' \in Disk
      /\ UNCHANGED <<state, journal, tomb, bin, db, backups, disk.runonce>>
  BY <1>1, <1>2 DEF Disk, state, journal, tree, cred, tomb, bin, db, backups
<1>6. TypeOK'
  BY <1>1, <1>2, <1>3, <1>4, <1>5, Parts, Typed, TypedNext
<1>7. ReadyInv' /\ CoreInv' /\ ReclaimInv'
  BY <1>1, <1>2, <1>3, <1>4, <1>5, Parts DEF ReadyInv, CoreInv, ReclaimInv, Installed
<1>8. HelperInv'
  BY <1>1, <1>2, <1>3, <1>4, <1>5, Parts DEF HelperInv, SameJournal, BackedUp, Detached, Rebacked
<1>9. NotBegun' /\ Unsigned' /\ Retired'
  BY <1>1, <1>2, <1>3, <1>4, <1>5, Parts DEF NotBegun, Unsigned, Retired, Installed, HandingMem, DecidedMem
<1>10. Underway' /\ Terminal'
  BY <1>1, <1>2, <1>3, <1>4, <1>5, Parts DEF Staged, Underway, Terminal, Installed, HandingMem, DecidedMem, BackedUp, Outcome
<1> QED
  BY <1>6, <1>7, <1>8, <1>9, <1>10 DEF IInv

LEMMA RetireAgainInv ==
  ASSUME IInv, RetireAgain
  PROVE  IInv'
<1>1. /\ core.pc = "idle" /\ core.mem # None /\ core.mem.done # None /\ core' = [core EXCEPT !.pc = "init"]
      /\ UNCHANGED <<disk, helper, tally>>
  BY DEF RetireAgain, CoreAt
<1>2. core \in CoreType /\ disk \in Disk /\ tally \in TallyType
  BY Parts, Typed
<1>3. /\ core' \in CoreType /\ core'.pc = "init"
      /\ core'.mem = core.mem /\ core'.parent = core.parent /\ core'.version = core.version
  BY <1>1, <1>2, SetCore
<1>4. UNCHANGED <<state, journal, tree, cred, tomb, bin, db, backups, disk.runonce>>
  BY <1>1, SameDisk
<1>5. TypeOK'
  BY <1>1, <1>2, <1>3, <1>4, Parts, Typed, TypedNext
<1>6. ReadyInv' /\ CoreInv' /\ ReclaimInv'
  BY <1>1, <1>2, <1>3, <1>4, Parts DEF ReadyInv, CoreInv, ReclaimInv, Installed
<1>7. HelperInv'
  BY <1>1, <1>2, <1>3, <1>4, Parts DEF HelperInv, SameJournal, BackedUp, Detached, Rebacked
<1>8. NotBegun' /\ Unsigned' /\ Retired'
  BY <1>1, <1>2, <1>3, <1>4, Parts DEF NotBegun, Unsigned, Retired, Installed, HandingMem, DecidedMem
<1>9. Underway' /\ Terminal'
  BY <1>1, <1>2, <1>3, <1>4, Parts DEF Staged, Underway, Terminal, Installed, HandingMem, DecidedMem, BackedUp, Outcome
<1> QED
  BY <1>5, <1>6, <1>7, <1>8, <1>9 DEF IInv

-----------------------------------------------------------------------------
(* The helper: frames that its steps share.                                *)

LEMMA MoveHelper ==
  ASSUME helper \in HelperType, NEW j \in Journal \cup {None},
         NEW pc \in Resting \cup Working \cup Ending,
         helper' = [helper EXCEPT !.pc = pc, !.j = j]
  PROVE  /\ helper' \in HelperType /\ helper'.pc = pc /\ helper'.j = j
         /\ helper'.version = helper.version /\ helper'.degraded = helper.degraded
BY DEF HelperType

LEMMA HelperPc ==
  ASSUME helper \in HelperType, NEW pc \in Resting \cup Working \cup Ending,
         helper' = [helper EXCEPT !.pc = pc]
  PROVE  /\ helper' \in HelperType /\ helper'.pc = pc /\ helper'.j = helper.j
         /\ helper'.version = helper.version /\ helper'.degraded = helper.degraded
BY DEF HelperType

LEMMA ExitedType ==
  /\ Exited \in HelperType /\ Exited.pc = "off"
  /\ [Exited EXCEPT !.pc = "load"] \in HelperType /\ [Exited EXCEPT !.pc = "load"].pc = "load"
  /\ [Exited EXCEPT !.pc = "login"] \in HelperType /\ [Exited EXCEPT !.pc = "login"].pc = "login"
BY DEF Exited, HelperType, Versions

LEMMA SameTally ==
  ASSUME IInv, UNCHANGED tally
  PROVE  tally' \in TallyType /\ tally'.written = tally.written
BY Parts, Typed

(* A helper that ran rests, or is yet to look at the journal.              *)
LEMMA RestInv ==
  ASSUME IInv, helper.pc # "off", helper' \in HelperType, helper'.pc \in Resting,
         UNCHANGED core, disk' \in Disk,
         UNCHANGED <<state, journal, tree, cred, tomb, bin, db, backups>>,
         tally' \in TallyType, tally'.written = tally.written
  PROVE  IInv'
<1>1. TypeOK'
  BY Parts, Typed, TypedNext
<1>2. ReadyInv' /\ CoreInv' /\ ReclaimInv'
  BY Parts DEF ReadyInv, CoreInv, ReclaimInv
<1>3. HelperInv'
  BY DEF HelperInv
<1>4. NotBegun' /\ Unsigned' /\ Retired'
  BY Parts DEF NotBegun, Unsigned, Retired, Installed, HandingMem, DecidedMem
<1>5. Underway' /\ Terminal'
  BY Parts DEF Staged, Underway, Terminal, Installed, HandingMem, DecidedMem, BackedUp, Outcome
<1> QED
  BY <1>1, <1>2, <1>3, <1>4, <1>5 DEF IInv

(* A helper at work on an open journal leaves it open.                     *)
LEMMA WorkInv ==
  ASSUME IInv, helper.pc # "off", UNCHANGED core,
         journal # None, journal.bound, journal.phase \notin TerminalPhases,
         journal' # None, journal'.bound, journal'.phase \notin TerminalPhases,
         disk' \in Disk, helper' \in HelperType, tally' \in TallyType,
         state'.phase # "ready", state'.ptr, state'.done = None,
         tree' = tree, cred' = cred, tomb' = tomb,
         tally'.written = tally.written, db'.writes = tally.written,
         core.pc \notin Out => /\ journal'.parent /\ journal'.phase \in BeforeCutover
                               /\ bin' = bin /\ db' = db,
         Staged', HelperInv'
  PROVE  IInv'
<1>1. TypeOK'
  BY Parts, Typed, TypedNext
<1>2. /\ cred /\ tree = "all" /\ HandingMem
      /\ core.pc \in Out \/ (core.parent /\ core.pc \in Serving)
  BY Parts DEF Underway, ReadyInv
<1>3. ReadyInv'
  BY <1>2, Parts DEF ReadyInv, CoreInv, HandingMem
<1>4. CoreInv' /\ ReclaimInv'
  BY <1>2, Parts DEF CoreInv, ReclaimInv
<1>5. NotBegun' /\ Unsigned' /\ Retired'
  BY DEF NotBegun, Unsigned, Retired
<1>6. Underway' /\ Terminal'
  BY <1>2 DEF Underway, Terminal, HandingMem
<1> QED
  BY <1>1, <1>3, <1>4, <1>5, <1>6 DEF IInv

(* What a helper at work relies on.                                        *)
LEMMA WorkFacts ==
  ASSUME IInv, helper.pc \in Working
  PROVE  /\ disk \in Disk /\ helper \in HelperType /\ helper.pc # "off"
         /\ journal \in Journal /\ journal # None /\ journal.bound
         /\ journal.phase \notin TerminalPhases
         /\ helper.j \in Journal /\ helper.j # None /\ helper.j.bound
         /\ state \in State /\ state.phase # "ready" /\ state.ptr /\ state.done = None
         /\ db.writes = tally.written /\ tally.written \in 0..MaxWrites
         /\ cred /\ tree = "all" /\ HandingMem
         /\ core.pc \in Out \/ (core.parent /\ core.pc \in Serving)
         /\ core.pc \notin Out => journal.parent /\ journal.phase \in BeforeCutover
<1>1. /\ disk \in Disk /\ helper \in HelperType /\ tally \in TallyType
  BY Parts, Typed
<1>2. /\ journal # None /\ journal.bound /\ journal.phase \notin TerminalPhases
      /\ helper.j # None /\ helper.j.bound
  BY Parts DEF HelperInv
<1>3. journal \in Journal /\ helper.j \in Journal /\ state \in State /\ tally.written \in 0..MaxWrites
  BY <1>1, <1>2, Files DEF HelperType, TallyType
<1>4. state.phase # "ready" /\ db.writes = tally.written
  BY Parts DEF ReadyInv, CoreInv
<1>5. /\ cred /\ tree = "all" /\ state.ptr /\ state.done = None /\ HandingMem
      /\ core.pc \in Out \/ (core.parent /\ core.pc \in Serving)
      /\ core.pc \notin Out => journal.parent /\ journal.phase \in BeforeCutover
  BY <1>2, Parts DEF Underway, ReadyInv
<1> QED
  BY <1>1, <1>2, <1>3, <1>4, <1>5

LEMMA PhaseType ==
  ASSUME helper.j \in Journal, NEW p \in HelperPhases
  PROVE  /\ Phase(p) \in Journal /\ Phase(p).phase = p /\ Phase(p) # None
         /\ Phase(p).parent = helper.j.parent /\ Phase(p).backup = helper.j.backup
         /\ Phase(p).bound = helper.j.bound
BY NoneAssumption DEF Phase, Journal

LEMMA SealType ==
  ASSUME helper.j \in Journal, NEW p \in TerminalPhases
  PROVE  /\ Seal(p) \in Journal /\ Seal(p).phase = p /\ Seal(p) # None
         /\ Seal(p).parent = helper.j.parent /\ Seal(p).backup = helper.j.backup
         /\ Seal(p).bound = helper.j.bound
BY NoneAssumption DEF Seal, Journal, HelperPhases

(* A step that fails on the way forward aborts or rolls back, by the phase *)
(* in memory.                                                              *)
LEMMA EscapeInv ==
  ASSUME IInv, helper.pc \in Working, NEW j \in Journal, j.bound, Escapes(j),
         UNCHANGED <<disk, core>>, tally' \in TallyType, tally'.written = tally.written,
         j.phase \in {"prepared", "waiting_for_parent"} =>
           /\ journal.phase \in BeforeCutover
           /\ core.pc \notin Out => j.parent,
         j.phase \notin {"prepared", "waiting_for_parent"} => BackedUp(j) /\ core.pc \in Out
  PROVE  IInv'
<1>1. UNCHANGED <<state, journal, tree, cred, tomb, bin, db, backups, disk.runonce>>
  BY SameDisk
<1>2. /\ helper' \in HelperType /\ helper'.j = j
      /\ helper'.pc = IF j.phase \in {"prepared", "waiting_for_parent"} THEN "abort" ELSE "rollback"
  <2> DEFINE pc == IF j.phase \in {"prepared", "waiting_for_parent"} THEN "abort" ELSE "rollback"
  <2>1. helper' = [helper EXCEPT !.pc = pc, !.j = j]
    BY DEF Escapes, Recover
  <2>2. pc \in Resting \cup Working \cup Ending /\ helper \in HelperType /\ j \in Journal \cup {None}
    BY WorkFacts
  <2> HIDE DEF pc
  <2>3. helper' \in HelperType /\ helper'.j = j /\ helper'.pc = pc
    BY <2>1, <2>2, MoveHelper
  <2> QED
    BY <2>3 DEF pc
<1>3. HelperInv'
  BY <1>1, <1>2, WorkFacts, JournalType DEF HelperInv, BackedUp
<1>4. Staged'
  BY <1>1, WorkFacts, Parts DEF Underway, Staged, Installed, BackedUp
<1> QED
  BY <1>1, <1>2, <1>3, <1>4, WorkFacts, WorkInv

-----------------------------------------------------------------------------
(* The helper, step by step.                                               *)

Advances(from, to, p) ==
  \/ from = "wait" /\ to = "watch" /\ p = "waiting_for_parent"
  \/ from = "apply" /\ to = "unpack" /\ p = "cutover_started"
  \/ from = "replaced" /\ to = "diagnose" /\ p = "binary_replaced"
  \/ from = "diagnose" /\ to = "migrate" /\ p = "diagnostics_passed"
  \/ from = "health" /\ to = "install" /\ p = "health_passed"

LEMMA SavePhaseInv ==
  ASSUME IInv, NEW from, NEW to, NEW p, Advances(from, to, p), SavePhase(from, to, p)
  PROVE  IInv'
<1> DEFINE j == Phase(p)
<1>1. /\ helper.pc = from /\ UNCHANGED core
      /\ \/ /\ disk' = [disk EXCEPT !.journal = j] /\ UNCHANGED tally
            /\ helper' = [helper EXCEPT !.pc = to, !.j = j]
         \/ Failure /\ Escapes(j) /\ UNCHANGED disk
  BY DEF SavePhase, Forward
<1>2. helper.pc \in Working /\ p \in HelperPhases /\ to \in Working
  BY <1>1 DEF Advances, HelperPhases
<1>3. /\ j \in Journal /\ j.phase = p /\ j # None /\ j.parent = helper.j.parent
      /\ j.backup = helper.j.backup /\ j.bound
  BY <1>2, WorkFacts, PhaseType
<1> HIDE DEF j
<1>4. /\ from = "wait" => journal = helper.j /\ helper.j.phase \in BeforeCutover
      /\ from # "wait" => core.pc \in Out /\ BackedUp(helper.j)
      /\ from = "replaced" => bin = "new"
      /\ from = "diagnose" => journal.phase = "binary_replaced"
      /\ from = "health" => db.schema = "new" /\ journal.phase = "diagnostics_passed"
  BY <1>1, Parts DEF Advances, HelperInv, SameJournal
<1>5. from # "wait" => BackedUp(j)
  BY <1>3, <1>4 DEF BackedUp
<1>6. CASE /\ disk' = [disk EXCEPT !.journal = j] /\ UNCHANGED tally
           /\ helper' = [helper EXCEPT !.pc = to, !.j = j]
  <2>1. /\ disk' \in Disk /\ journal' = j
        /\ UNCHANGED <<state, tree, cred, tomb, bin, db, backups, disk.runonce>>
    BY <1>2, <1>3, <1>6, WorkFacts, SetJournal
  <2>2. helper' \in HelperType /\ helper'.pc = to /\ helper'.j = j
    BY <1>2, <1>3, <1>6, WorkFacts, MoveHelper
  <2>3. HelperInv'
    BY <1>1, <1>3, <1>4, <1>5, <1>6, <2>1, <2>2 DEF Advances, HelperInv, SameJournal, BackedUp
  <2>4. Staged'
    BY <1>1, <1>2, <1>3, <1>4, <1>5, <1>6, <2>1, WorkFacts, Parts
    DEF Advances, Underway, Staged, Installed, BackedUp
  <2> QED
    BY <1>1, <1>2, <1>3, <1>4, <1>6, <2>1, <2>2, <2>3, <2>4, WorkFacts, SameTally, WorkInv
    DEF Advances
<1>7. CASE Failure /\ Escapes(j) /\ UNCHANGED disk
  <2>1. tally' \in TallyType /\ tally'.written = tally.written
    BY <1>7, FailureTally
  <2>2. /\ j.phase \in {"prepared", "waiting_for_parent"} =>
             journal.phase \in BeforeCutover /\ (core.pc \notin Out => j.parent)
        /\ j.phase \notin {"prepared", "waiting_for_parent"} => BackedUp(j) /\ core.pc \in Out
    BY <1>1, <1>2, <1>3, <1>4, <1>5, WorkFacts DEF Advances
  <2> QED
    BY <1>1, <1>2, <1>3, <1>7, <2>1, <2>2, EscapeInv
<1> QED
  BY <1>1, <1>6, <1>7

(* What the helper escapes with before and after the cutover begins.       *)
LEMMA EscapeSame ==
  ASSUME IInv, helper.pc \in {"watch", "detach1", "detach2", "detach3", "refresh", "rebind1",
                             "rebind2", "rebind3"} \cup Applying,
         Escapes(helper.j), UNCHANGED <<disk, core>>,
         tally' \in TallyType, tally'.written = tally.written
  PROVE  IInv'
<1>1. /\ helper.pc \notin Applying => helper.j.phase = "waiting_for_parent"
      /\ helper.pc = "apply" => helper.j.phase \in {"waiting_for_parent", "cutover_started"}
      /\ helper.pc \in Applying \ {"apply"} =>
           helper.j.phase \notin {"prepared", "waiting_for_parent"}
      /\ helper.pc \in Applying => BackedUp(helper.j)
      /\ helper.pc \in {"watch", "detach1", "detach2", "refresh", "rebind1", "rebind2", "apply"}
           => journal = helper.j
      /\ helper.pc = "detach3" => journal = Detached
      /\ helper.pc = "rebind3" => journal = Rebacked
      /\ helper.pc # "watch" => core.pc \in Out
  BY Parts DEF HelperInv, SameJournal
<1>2. Detached.phase = helper.j.phase /\ Rebacked.phase = helper.j.phase
  BY WorkFacts DEF Detached, Rebacked, Journal
<1>3. /\ helper.j.phase \in {"prepared", "waiting_for_parent"} =>
           journal.phase \in BeforeCutover /\ (core.pc \notin Out => helper.j.parent)
      /\ helper.j.phase \notin {"prepared", "waiting_for_parent"} =>
           BackedUp(helper.j) /\ core.pc \in Out
  BY <1>1, <1>2, WorkFacts
<1> QED
  BY <1>3, WorkFacts, EscapeInv

LEMMA WatchInv ==
  ASSUME IInv, Watch
  PROVE  IInv'
<1>1. /\ helper.pc = "watch" /\ UNCHANGED <<disk, core, tally>>
      /\ \/ ~(helper.j.parent /\ core.parent) /\ helper' = [helper EXCEPT !.pc = "detach1"]
         \/ Escapes(helper.j)
  BY DEF Watch, HelperAt
<1>2. CASE Escapes(helper.j)
  BY <1>1, <1>2, SameTally, EscapeSame
<1>3. CASE ~(helper.j.parent /\ core.parent) /\ helper' = [helper EXCEPT !.pc = "detach1"]
  <2>1. journal = helper.j /\ helper.j.phase = "waiting_for_parent"
    BY <1>1, Parts DEF HelperInv, SameJournal
  <2>2. core.pc \in Out
    BY <1>1, <1>3, <2>1, WorkFacts
  <2>3. helper' \in HelperType /\ helper'.pc = "detach1" /\ helper'.j = helper.j
    BY <1>1, <1>3, WorkFacts, HelperPc
  <2>4. UNCHANGED <<state, journal, tree, cred, tomb, bin, db, backups, disk.runonce>>
    BY <1>1, SameDisk
  <2>5. HelperInv'
    BY <1>1, <2>1, <2>2, <2>3, <2>4, WorkFacts DEF HelperInv, SameJournal
  <2>6. Staged'
    BY <1>1, <2>4, WorkFacts, Parts DEF Underway, Staged, Installed, BackedUp
  <2> QED
    BY <1>1, <2>1, <2>2, <2>3, <2>4, <2>5, <2>6, WorkFacts, SameTally, WorkInv
<1> QED
  BY <1>1, <1>2, <1>3

LEMMA DetachedType ==
  ASSUME IInv, helper.j \in Journal
  PROVE  /\ Detached \in Journal /\ Detached.phase = helper.j.phase /\ ~Detached.parent
         /\ Detached.backup = helper.j.backup /\ Detached.bound = helper.j.bound
         /\ Detached # None /\ Detached.seal = helper.j.seal
BY NoneAssumption DEF Detached, Journal

LEMMA RebackedType ==
  ASSUME IInv, helper.j \in Journal, backups["stopped"] = tally.written
  PROVE  /\ Rebacked \in Journal /\ Rebacked.phase = helper.j.phase
         /\ Rebacked.parent = helper.j.parent /\ Rebacked.bound = helper.j.bound
         /\ Rebacked.backup = [file |-> "stopped", writes |-> backups["stopped"]]
         /\ Rebacked # None /\ Rebacked.seal = helper.j.seal
<1>1. tally.written \in 0..MaxWrites
  BY Parts, Typed DEF TallyType
<1>2. [file |-> "stopped", writes |-> backups["stopped"]] \in Backup
  BY <1>1 DEF Backup
<1> QED
  BY <1>2, NoneAssumption DEF Rebacked, Journal

(* The two identities that the helper moves to: without the parent, then   *)
(* with the backup of the stopped Core.                                    *)
LEMMA AnnounceInv ==
  ASSUME IInv, NEW from, NEW middle, NEW to, NEW next,
         \/ from = "detach1" /\ middle = "detach2" /\ to = "refresh" /\ next = Detached
         \/ from = "rebind1" /\ middle = "rebind2" /\ to = "apply" /\ next = Rebacked,
         Announce(from, middle, to, next)
  PROVE  IInv'
<1>1. /\ helper.pc = from /\ helper.pc \in {"detach1", "rebind1"} /\ UNCHANGED core
      /\ \/ Escapes(helper.j) /\ UNCHANGED <<disk, tally>>
         \/ /\ Identity(next) = Identity(helper.j) /\ UNCHANGED tally
            /\ disk' = [disk EXCEPT !.journal = helper.j]
            /\ helper' = [helper EXCEPT !.pc = to, !.j = helper.j]
         \/ /\ disk' = [disk EXCEPT !.state = [state EXCEPT !.pend = Identity(next)]]
            /\ helper' = [helper EXCEPT !.pc = middle, !.j = helper.j] /\ UNCHANGED tally
         \/ Failure /\ Escapes(helper.j) /\ UNCHANGED disk
  BY DEF Announce, Forward, state
<1>2. /\ journal = helper.j /\ helper.j.phase = "waiting_for_parent" /\ core.pc \in Out
      /\ helper.pc = "rebind1" => ~helper.j.parent /\ backups["stopped"] = tally.written
  BY <1>1, Parts DEF HelperInv, SameJournal
<1>3. next \in Journal
  BY <1>1, <1>2, WorkFacts, DetachedType, RebackedType
<1>4. CASE Escapes(helper.j) /\ UNCHANGED <<disk, tally>>
  BY <1>1, <1>4, SameTally, EscapeSame
<1>5. CASE Failure /\ Escapes(helper.j) /\ UNCHANGED disk
  BY <1>1, <1>5, FailureTally, EscapeSame
<1>6. CASE /\ Identity(next) = Identity(helper.j) /\ UNCHANGED tally
           /\ disk' = [disk EXCEPT !.journal = helper.j]
           /\ helper' = [helper EXCEPT !.pc = to, !.j = helper.j]
  <2>1. /\ disk' \in Disk /\ journal' = helper.j
        /\ UNCHANGED <<state, tree, cred, tomb, bin, db, backups, disk.runonce>>
    BY <1>1, <1>6, WorkFacts, SetJournal
  <2>2. helper' \in HelperType /\ helper'.pc = to /\ helper'.j = helper.j
    BY <1>1, <1>6, WorkFacts, MoveHelper
  <2>3. next.parent = helper.j.parent /\ next.backup = helper.j.backup
    BY <1>6 DEF Identity
  <2>4. to = "refresh" => ~helper.j.parent
    BY <1>1, <2>3, WorkFacts, DetachedType
  <2>5. to = "apply" => BackedUp(helper.j)
    BY <1>1, <1>2, <2>3, WorkFacts, RebackedType DEF BackedUp
  <2>6. HelperInv'
    BY <1>1, <1>2, <1>6, <2>1, <2>2, <2>4, <2>5, WorkFacts DEF HelperInv, SameJournal, BackedUp
  <2>7. Staged'
    BY <1>1, <1>2, <2>1, WorkFacts, Parts DEF Underway, Staged, Installed
  <2> QED
    BY <1>1, <1>2, <1>6, <2>1, <2>2, <2>6, <2>7, WorkFacts, SameTally, WorkInv
<1>7. CASE /\ disk' = [disk EXCEPT !.state = [state EXCEPT !.pend = Identity(next)]]
           /\ helper' = [helper EXCEPT !.pc = middle, !.j = helper.j] /\ UNCHANGED tally
  <2> DEFINE s == [state EXCEPT !.pend = Identity(next)]
  <2>1. s \in State /\ s.phase = state.phase /\ s.ptr = state.ptr /\ s.done = state.done
    BY <1>1, <1>3, WorkFacts, JournalType DEF State
  <2> HIDE DEF s
  <2>2. /\ disk' \in Disk /\ state' = s
        /\ UNCHANGED <<journal, tree, cred, tomb, bin, db, backups, disk.runonce>>
    BY <1>1, <1>7, <2>1, WorkFacts, SetState DEF s
  <2>3. helper' \in HelperType /\ helper'.pc = middle /\ helper'.j = helper.j
    BY <1>1, <1>7, WorkFacts, MoveHelper
  <2>4. HelperInv'
    BY <1>1, <1>2, <1>7, <2>2, <2>3, WorkFacts DEF HelperInv, SameJournal
  <2>5. Staged'
    BY <1>1, <1>2, <2>2, WorkFacts, Parts DEF Underway, Staged, Installed
  <2> QED
    BY <1>1, <1>2, <1>7, <2>1, <2>2, <2>3, <2>4, <2>5, WorkFacts, SameTally, WorkInv
<1> QED
  BY <1>1, <1>4, <1>5, <1>6, <1>7

LEMMA SwitchInv ==
  ASSUME IInv, NEW from, NEW to, NEW next,
         \/ from = "detach2" /\ to = "detach3" /\ next = Detached
         \/ from = "rebind2" /\ to = "rebind3" /\ next = Rebacked,
         Switch(from, to, next)
  PROVE  IInv'
<1>1. /\ helper.pc = from /\ helper.pc \in {"detach2", "rebind2"} /\ UNCHANGED core
      /\ \/ /\ disk' = [disk EXCEPT !.journal = next]
            /\ helper' = [helper EXCEPT !.pc = to, !.j = helper.j] /\ UNCHANGED tally
         \/ Failure /\ Escapes(helper.j) /\ UNCHANGED disk
  BY DEF Switch, Forward
<1>2. /\ journal = helper.j /\ helper.j.phase = "waiting_for_parent" /\ core.pc \in Out
      /\ helper.pc = "rebind2" => ~helper.j.parent /\ backups["stopped"] = tally.written
  BY <1>1, Parts DEF HelperInv, SameJournal
<1>3. /\ next \in Journal /\ next.phase = "waiting_for_parent" /\ next.bound /\ next # None
      /\ ~next.parent
  BY <1>1, <1>2, WorkFacts, DetachedType, RebackedType
<1>4. CASE Failure /\ Escapes(helper.j) /\ UNCHANGED disk
  BY <1>1, <1>4, FailureTally, EscapeSame
<1>5. CASE /\ disk' = [disk EXCEPT !.journal = next]
           /\ helper' = [helper EXCEPT !.pc = to, !.j = helper.j] /\ UNCHANGED tally
  <2>1. /\ disk' \in Disk /\ journal' = next
        /\ UNCHANGED <<state, tree, cred, tomb, bin, db, backups, disk.runonce>>
    BY <1>1, <1>3, <1>5, WorkFacts, SetJournal
  <2>2. helper' \in HelperType /\ helper'.pc = to /\ helper'.j = helper.j
    BY <1>1, <1>5, WorkFacts, MoveHelper
  <2>3. /\ to = "detach3" => journal' = Detached'
        /\ to = "rebind3" => journal' = Rebacked'
    BY <1>1, <2>1, <2>2 DEF Detached, Rebacked
  <2>4. HelperInv'
    BY <1>1, <1>2, <1>3, <1>5, <2>1, <2>2, <2>3, WorkFacts DEF HelperInv
  <2>5. Staged'
    BY <1>1, <1>2, <1>3, <2>1, WorkFacts, Parts DEF Underway, Staged, Installed
  <2> QED
    BY <1>1, <1>2, <1>3, <1>5, <2>1, <2>2, <2>4, <2>5, WorkFacts, SameTally, WorkInv
<1> QED
  BY <1>1, <1>4, <1>5

LEMMA TakeOverInv ==
  ASSUME IInv, NEW from, NEW to, NEW next,
         \/ from = "detach3" /\ to = "refresh" /\ next = Detached
         \/ from = "rebind3" /\ to = "apply" /\ next = Rebacked,
         TakeOver(from, to, next)
  PROVE  IInv'
<1>1. /\ helper.pc = from /\ helper.pc \in {"detach3", "rebind3"} /\ UNCHANGED core
      /\ \/ /\ disk' = [disk EXCEPT !.state = Promoted(state, next)]
            /\ helper' = [helper EXCEPT !.pc = to, !.j = next] /\ UNCHANGED tally
         \/ Failure /\ Escapes(helper.j) /\ UNCHANGED disk
         \/ Escapes(helper.j) /\ UNCHANGED <<disk, tally>>
  BY DEF TakeOver
<1>2. /\ journal = next /\ helper.j.phase = "waiting_for_parent" /\ core.pc \in Out
      /\ helper.pc = "rebind3" => ~helper.j.parent /\ backups["stopped"] = tally.written
  BY <1>1, Parts DEF HelperInv, SameJournal
<1>3. /\ next \in Journal /\ next.phase = "waiting_for_parent" /\ next.bound /\ next # None
      /\ ~next.parent /\ (to = "apply" => BackedUp(next))
  BY <1>1, <1>2, WorkFacts, DetachedType, RebackedType DEF BackedUp
<1>4. CASE Failure /\ Escapes(helper.j) /\ UNCHANGED disk
  BY <1>1, <1>4, FailureTally, EscapeSame
<1>5. CASE Escapes(helper.j) /\ UNCHANGED <<disk, tally>>
  BY <1>1, <1>5, SameTally, EscapeSame
<1>6. CASE /\ disk' = [disk EXCEPT !.state = Promoted(state, next)]
           /\ helper' = [helper EXCEPT !.pc = to, !.j = next] /\ UNCHANGED tally
  <2> DEFINE s == Promoted(state, next)
  <2>1. s \in State /\ s.phase = state.phase /\ s.ptr = state.ptr /\ s.done = state.done
    BY <1>1, <1>3, WorkFacts, JournalType DEF State, Promoted
  <2> HIDE DEF s
  <2>2. /\ disk' \in Disk /\ state' = s
        /\ UNCHANGED <<journal, tree, cred, tomb, bin, db, backups, disk.runonce>>
    BY <1>1, <1>6, <2>1, WorkFacts, SetState DEF s
  <2>3. helper' \in HelperType /\ helper'.pc = to /\ helper'.j = next
    <3>1. /\ to \in Resting \cup Working \cup Ending /\ next \in Journal \cup {None}
          /\ helper \in HelperType
      BY <1>1, <1>3, WorkFacts
    <3> QED
      BY <1>6, <3>1 DEF HelperType
  <2>4. HelperInv'
    BY <1>1, <1>2, <1>3, <1>6, <2>2, <2>3, WorkFacts DEF HelperInv, SameJournal, BackedUp
  <2>5. Staged'
    BY <1>1, <1>2, <1>3, <2>2, WorkFacts, Parts DEF Underway, Staged, Installed
  <2> QED
    BY <1>1, <1>2, <1>3, <1>6, <2>1, <2>2, <2>3, <2>4, <2>5, WorkFacts, SameTally, WorkInv
<1> QED
  BY <1>1, <1>4, <1>5, <1>6

LEMMA RefreshInv ==
  ASSUME IInv, Forward("refresh", "rebind1", helper.j, [disk EXCEPT !.backups["stopped"] = db.writes])
  PROVE  IInv'
<1> DEFINE b == [backups EXCEPT !["stopped"] = db.writes]
<1>1. /\ helper.pc = "refresh" /\ UNCHANGED core
      /\ \/ /\ disk' = [disk EXCEPT !.backups = b]
            /\ helper' = [helper EXCEPT !.pc = "rebind1", !.j = helper.j] /\ UNCHANGED tally
         \/ Failure /\ Escapes(helper.j) /\ UNCHANGED disk
  BY DEF Forward, backups
<1>2. /\ journal = helper.j /\ helper.j.phase = "waiting_for_parent" /\ core.pc \in Out
      /\ ~helper.j.parent
  BY <1>1, Parts DEF HelperInv, SameJournal
<1>3. /\ b \in [{"initial", "stopped"} -> 0..MaxWrites \cup {None}] /\ b["stopped"] = tally.written
  BY <1>1, WorkFacts, Files
<1> HIDE DEF b
<1>4. CASE Failure /\ Escapes(helper.j) /\ UNCHANGED disk
  BY <1>1, <1>4, FailureTally, EscapeSame
<1>5. CASE /\ disk' = [disk EXCEPT !.backups = b]
           /\ helper' = [helper EXCEPT !.pc = "rebind1", !.j = helper.j] /\ UNCHANGED tally
  <2>1. /\ disk' \in Disk /\ backups' = b
        /\ UNCHANGED <<state, journal, tree, cred, tomb, bin, db, disk.runonce>>
    BY <1>1, <1>3, <1>5, WorkFacts, SetBackups
  <2>2. helper' \in HelperType /\ helper'.pc = "rebind1" /\ helper'.j = helper.j
    BY <1>1, <1>5, WorkFacts, MoveHelper
  <2>3. HelperInv'
    BY <1>1, <1>2, <1>3, <1>5, <2>1, <2>2, WorkFacts DEF HelperInv, SameJournal
  <2>4. Staged'
    BY <1>1, <1>2, <2>1, WorkFacts, Parts DEF Underway, Staged, Installed
  <2> QED
    BY <1>1, <1>2, <1>5, <2>1, <2>2, <2>3, <2>4, WorkFacts, SameTally, WorkInv
<1> QED
  BY <1>1, <1>4, <1>5

LEMMA PublishType ==
  ASSUME helper.j \in Journal, state \in State, NEW p \in UpdatePhases
  PROVE  /\ Publish(p) \in State /\ Publish(p).phase = p /\ Publish(p).ptr = state.ptr
         /\ Publish(p).done = None
BY JournalType DEF Publish, Promoted, State

(* The journal is decided.                                                 *)
LEMMA DecideInv ==
  ASSUME IInv, helper.pc \in Working, UNCHANGED <<core, tally>>, NEW p \in TerminalPhases,
         disk' = [disk EXCEPT !.journal = Seal(p)],
         helper' = [helper EXCEPT !.pc = "finish", !.j = Seal(p)],
         Installed(IF p = "committed" THEN "new" ELSE "old"),
         core.pc \notin Out => p = "rolled_back"
  PROVE  IInv'
<1> DEFINE j == Seal(p)
<1>1. j \in Journal /\ j.phase = p /\ j # None /\ j.bound
  BY WorkFacts, SealType
<1>2. disk' = [disk EXCEPT !.journal = j] /\ helper' = [helper EXCEPT !.pc = "finish", !.j = j]
  OBVIOUS
<1> HIDE DEF j
<1>3. /\ disk' \in Disk /\ journal' = j
      /\ UNCHANGED <<state, tree, cred, tomb, bin, db, backups, disk.runonce>>
  BY <1>1, <1>2, WorkFacts, SetJournal
<1>4. helper' \in HelperType /\ helper'.pc = "finish" /\ helper'.j = j
  <2>1. j \in Journal \cup {None} /\ helper \in HelperType
    BY <1>1, WorkFacts
  <2> QED
    BY <1>2, <2>1, MoveHelper
<1>5. TypeOK'
  BY <1>3, <1>4, SameTally, Parts, Typed, TypedNext
<1>6. ReadyInv'
  BY <1>3, <1>4, WorkFacts, Parts DEF ReadyInv, HandingMem, CoreInv
<1>7. CoreInv' /\ ReclaimInv'
  BY <1>1, <1>3, <1>4, WorkFacts, Parts DEF CoreInv, ReclaimInv
<1>8. HelperInv'
  BY <1>1, <1>3, <1>4 DEF HelperInv
<1>9. NotBegun' /\ Unsigned' /\ Retired' /\ Underway'
  BY <1>1, <1>3 DEF NotBegun, Unsigned, Retired, Underway
<1>10. Terminal'
  BY <1>1, <1>3, <1>4, WorkFacts DEF Terminal, Installed, HandingMem
<1> QED
  BY <1>5, <1>6, <1>7, <1>8, <1>9, <1>10 DEF IInv

(* A helper at work changes a file other than the journal, and keeps its   *)
(* copy of the journal.                                                    *)
LEMMA KeepInv ==
  ASSUME IInv, helper.pc \in Working, UNCHANGED <<core, tally>>,
         NEW to \in Working, helper' = [helper EXCEPT !.pc = to, !.j = helper.j],
         disk' \in Disk, UNCHANGED <<journal, tree, cred, tomb>>,
         state'.phase # "ready", state'.ptr, state'.done = None,
         db'.writes = tally.written,
         core.pc \notin Out => bin' = bin /\ db' = db,
         helper'.pc = to /\ helper'.j = helper.j => HelperInv',
         Staged'
  PROVE  IInv'
<1>1. helper' \in HelperType /\ helper'.pc = to /\ helper'.j = helper.j
  BY WorkFacts, MoveHelper
<1> QED
  BY <1>1, WorkFacts, SameTally, WorkInv

LEMMA ApplyFacts ==
  ASSUME IInv, helper.pc \in Applying \ {"apply"}
  PROVE  /\ journal = helper.j /\ core.pc \in Out /\ BackedUp(helper.j)
         /\ helper.pc \in {"unpack", "replaced"} => journal.phase = "cutover_started"
         /\ helper.pc \in {"migrate", "health"} => journal.phase = "diagnostics_passed"
         /\ helper.pc \in {"install", "commit"} => journal.phase = "health_passed"
BY Parts DEF HelperInv, SameJournal

LEMMA UnpackInv ==
  ASSUME IInv, Forward("unpack", IF bin = "mixed" THEN "replaced" ELSE "unpack", helper.j,
                       [disk EXCEPT !.bin = IF bin = "mixed" THEN "new" ELSE "mixed"])
  PROVE  IInv'
<1> DEFINE to == IF bin = "mixed" THEN "replaced" ELSE "unpack"
           b == IF bin = "mixed" THEN "new" ELSE "mixed"
<1>1. /\ helper.pc = "unpack" /\ UNCHANGED core
      /\ \/ /\ disk' = [disk EXCEPT !.bin = b] /\ UNCHANGED tally
            /\ helper' = [helper EXCEPT !.pc = to, !.j = helper.j]
         \/ Failure /\ Escapes(helper.j) /\ UNCHANGED disk
  BY DEF Forward
<1>2. CASE Failure /\ Escapes(helper.j) /\ UNCHANGED disk
  BY <1>1, <1>2, FailureTally, EscapeSame
<1>3. /\ to \in {"replaced", "unpack"} /\ b \in {"old", "mixed", "new"}
      /\ to = "replaced" => b = "new"
  OBVIOUS
<1> HIDE DEF to, b
<1>4. CASE /\ disk' = [disk EXCEPT !.bin = b] /\ UNCHANGED tally
           /\ helper' = [helper EXCEPT !.pc = to, !.j = helper.j]
  <2>1. /\ disk' \in Disk /\ bin' = b
        /\ UNCHANGED <<state, journal, tree, cred, tomb, db, backups, disk.runonce>>
    BY <1>1, <1>3, <1>4, WorkFacts, SetBin
  <2>2. helper'.pc = to /\ helper'.j = helper.j => HelperInv'
    BY <1>1, <1>3, <1>4, <2>1, WorkFacts, ApplyFacts DEF HelperInv, SameJournal, BackedUp
  <2>3. Staged'
    BY <1>1, <1>4, <2>1, ApplyFacts DEF Staged, BackedUp
  <2> QED
    BY <1>1, <1>3, <1>4, <2>1, <2>2, <2>3, WorkFacts, ApplyFacts, KeepInv
<1> QED
  BY <1>1, <1>2, <1>4

LEMMA MigrateInv ==
  ASSUME IInv, Forward("migrate", "health", helper.j, [disk EXCEPT !.db.schema = "new"])
  PROVE  IInv'
<1> DEFINE d == [db EXCEPT !.schema = "new"]
<1>1. /\ helper.pc = "migrate" /\ UNCHANGED core
      /\ \/ /\ disk' = [disk EXCEPT !.db = d] /\ UNCHANGED tally
            /\ helper' = [helper EXCEPT !.pc = "health", !.j = helper.j]
         \/ Failure /\ Escapes(helper.j) /\ UNCHANGED disk
  BY DEF Forward, db
<1>2. CASE Failure /\ Escapes(helper.j) /\ UNCHANGED disk
  BY <1>1, <1>2, FailureTally, EscapeSame
<1>3. d \in [writes : 0..MaxWrites, schema : Versions] /\ d.writes = db.writes /\ d.schema = "new"
  BY <1>1, WorkFacts, Files DEF Versions
<1> HIDE DEF d
<1>4. CASE /\ disk' = [disk EXCEPT !.db = d] /\ UNCHANGED tally
           /\ helper' = [helper EXCEPT !.pc = "health", !.j = helper.j]
  <2>1. /\ disk' \in Disk /\ db' = d
        /\ UNCHANGED <<state, journal, tree, cred, tomb, bin, backups, disk.runonce>>
    BY <1>1, <1>3, <1>4, WorkFacts, SetDb
  <2>2. helper'.pc = "health" /\ helper'.j = helper.j => HelperInv'
    BY <1>1, <1>3, <1>4, <2>1, WorkFacts, ApplyFacts DEF HelperInv, SameJournal, BackedUp
  <2>3. Staged'
    BY <1>1, <1>4, <2>1, WorkFacts, ApplyFacts, Parts DEF Underway, Staged, BackedUp
  <2> QED
    BY <1>1, <1>3, <1>4, <2>1, <2>2, <2>3, WorkFacts, ApplyFacts, KeepInv
<1> QED
  BY <1>1, <1>2, <1>4

LEMMA InstalledInv ==
  ASSUME IInv, helper.pc = "install", UNCHANGED core,
         IF Publishable
         THEN Forward("install", "commit", helper.j, [disk EXCEPT !.state = Publish("installed")])
         ELSE Escapes(helper.j) /\ UNCHANGED <<disk, tally>>
  PROVE  IInv'
<1> DEFINE s == Publish("installed")
<1>1. \/ /\ disk' = [disk EXCEPT !.state = s] /\ UNCHANGED tally
         /\ helper' = [helper EXCEPT !.pc = "commit", !.j = helper.j]
      \/ Failure /\ Escapes(helper.j) /\ UNCHANGED disk
      \/ Escapes(helper.j) /\ UNCHANGED <<disk, tally>>
  BY DEF Forward
<1>2. s \in State /\ s.phase = "installed" /\ s.ptr /\ s.done = None
  BY WorkFacts, PublishType DEF UpdatePhases
<1> HIDE DEF s
<1>3. CASE Failure /\ Escapes(helper.j) /\ UNCHANGED disk
  BY <1>3, FailureTally, EscapeSame
<1>4. CASE Escapes(helper.j) /\ UNCHANGED <<disk, tally>>
  BY <1>4, SameTally, EscapeSame
<1>5. CASE /\ disk' = [disk EXCEPT !.state = s] /\ UNCHANGED tally
           /\ helper' = [helper EXCEPT !.pc = "commit", !.j = helper.j]
  <2>1. /\ disk' \in Disk /\ state' = s
        /\ UNCHANGED <<journal, tree, cred, tomb, bin, db, backups, disk.runonce>>
    BY <1>2, <1>5, WorkFacts, SetState
  <2>2. helper'.pc = "commit" /\ helper'.j = helper.j => HelperInv'
    BY <1>5, <2>1, WorkFacts, ApplyFacts DEF HelperInv, SameJournal, BackedUp
  <2>3. Staged'
    BY <1>5, <2>1, WorkFacts, ApplyFacts, Parts DEF Underway, Staged, Installed, BackedUp
  <2> QED
    BY <1>2, <1>5, <2>1, <2>2, <2>3, WorkFacts, ApplyFacts, KeepInv
<1> QED
  BY <1>1, <1>3, <1>4, <1>5

LEMMA CommitInv ==
  ASSUME IInv, Forward("commit", "finish", Seal("committed"), [disk EXCEPT !.journal = Seal("committed")])
  PROVE  IInv'
<1>1. /\ helper.pc = "commit" /\ UNCHANGED core
      /\ \/ /\ disk' = [disk EXCEPT !.journal = Seal("committed")] /\ UNCHANGED tally
            /\ helper' = [helper EXCEPT !.pc = "finish", !.j = Seal("committed")]
         \/ Failure /\ Escapes(Seal("committed")) /\ UNCHANGED disk
  BY DEF Forward
<1>2. Installed("new") /\ core.pc \in Out /\ BackedUp(helper.j)
  BY <1>1, WorkFacts, ApplyFacts, Parts DEF Underway, Staged
<1>3. CASE /\ disk' = [disk EXCEPT !.journal = Seal("committed")] /\ UNCHANGED tally
           /\ helper' = [helper EXCEPT !.pc = "finish", !.j = Seal("committed")]
  BY <1>1, <1>2, <1>3, DecideInv
<1>4. CASE Failure /\ Escapes(Seal("committed")) /\ UNCHANGED disk
  <2>1. /\ Seal("committed") \in Journal /\ Seal("committed").phase = "committed"
        /\ Seal("committed").bound /\ Seal("committed").parent = helper.j.parent
        /\ Seal("committed").backup = helper.j.backup
    BY <1>1, WorkFacts, SealType
  <2>2. BackedUp(Seal("committed"))
    BY <1>2, <2>1 DEF BackedUp
  <2> QED
    BY <1>1, <1>2, <1>4, <2>1, <2>2, WorkFacts, FailureTally, EscapeInv
<1> QED
  BY <1>1, <1>3, <1>4

-----------------------------------------------------------------------------
(* The way back.                                                           *)

(* The journal keeps the phase "rolling_back", and the helper leaves.      *)
LEMMA RetriedInv ==
  ASSUME IInv, helper.pc \in RollingBack, Retried, UNCHANGED core,
         tally' \in TallyType, tally'.written = tally.written
  PROVE  IInv'
<1> DEFINE j == [helper.j EXCEPT !.phase = "rolling_back"]
<1>1. disk' = [disk EXCEPT !.journal = j] /\ helper' = Exited
  BY DEF Retried
<1>2. /\ j \in Journal /\ j.phase = "rolling_back" /\ j # None /\ j.bound
      /\ j.parent = helper.j.parent /\ j.backup = helper.j.backup
  <2>1. helper.j \in Journal /\ helper.j.bound
    BY WorkFacts
  <2> QED
    BY <2>1, NoneAssumption DEF Journal, HelperPhases
<1> HIDE DEF j
<1>3. /\ disk' \in Disk /\ journal' = j
      /\ UNCHANGED <<state, tree, cred, tomb, bin, db, backups, disk.runonce>>
  BY <1>1, <1>2, WorkFacts, SetJournal
<1>4. core.pc \in Out /\ BackedUp(helper.j)
  BY Parts DEF HelperInv
<1>5. helper' \in HelperType /\ HelperInv'
  BY <1>1, ExitedType DEF HelperInv
<1>6. Staged'
  BY <1>2, <1>3, <1>4 DEF Staged, BackedUp
<1> QED
  BY <1>2, <1>3, <1>4, <1>5, <1>6, WorkFacts, WorkInv

LEMMA BeginRollbackInv ==
  ASSUME IInv, BeginRollback
  PROVE  IInv'
<1> DEFINE j == Phase("rolling_back")
<1>1. /\ helper.pc = "rollback" /\ UNCHANGED core
      /\ \/ /\ disk' = [disk EXCEPT !.journal = j] /\ UNCHANGED tally
            /\ helper' = [helper EXCEPT !.pc = "unwind", !.j = j]
         \/ Failure /\ helper' = Exited /\ UNCHANGED disk
  BY DEF BeginRollback
<1>2. CASE Failure /\ helper' = Exited /\ UNCHANGED disk
  BY <1>1, <1>2, WorkFacts, SameDisk, ExitedType, FailureTally, RestInv
<1>3. /\ j \in Journal /\ j.phase = "rolling_back" /\ j # None /\ j.bound
      /\ j.parent = helper.j.parent /\ j.backup = helper.j.backup
  BY <1>1, WorkFacts, PhaseType DEF HelperPhases
<1> HIDE DEF j
<1>4. core.pc \in Out /\ BackedUp(helper.j)
  BY <1>1, Parts DEF HelperInv
<1>5. CASE /\ disk' = [disk EXCEPT !.journal = j] /\ UNCHANGED tally
           /\ helper' = [helper EXCEPT !.pc = "unwind", !.j = j]
  <2>1. /\ disk' \in Disk /\ journal' = j
        /\ UNCHANGED <<state, tree, cred, tomb, bin, db, backups, disk.runonce>>
    BY <1>1, <1>3, <1>5, WorkFacts, SetJournal
  <2>2. helper' \in HelperType /\ helper'.pc = "unwind" /\ helper'.j = j
    <3>1. j \in Journal \cup {None} /\ helper \in HelperType
      BY <1>1, <1>3, WorkFacts
    <3> QED
      BY <1>5, <3>1, MoveHelper
  <2>3. HelperInv'
    BY <1>1, <1>3, <1>4, <1>5, <2>1, <2>2 DEF HelperInv, BackedUp
  <2>4. Staged'
    BY <1>3, <1>4, <1>5, <2>1 DEF Staged, BackedUp
  <2> QED
    BY <1>1, <1>3, <1>4, <1>5, <2>1, <2>2, <2>3, <2>4, WorkFacts, SameTally, WorkInv
<1> QED
  BY <1>1, <1>2, <1>5

LEMMA BackFacts ==
  ASSUME IInv, helper.pc \in RollingBack \ {"rollback"}
  PROVE  /\ core.pc \in Out /\ BackedUp(helper.j) /\ helper.j.phase = "rolling_back"
         /\ journal.phase = "rolling_back" /\ BackedUp(journal)
         /\ helper.pc \in {"restore", "revert", "reversed"} => bin = "old"
         /\ helper.pc \in {"revert", "reversed"} => db.schema = "old"
BY WorkFacts, Parts DEF HelperInv, Underway, Staged

LEMMA DecideRollbackInv ==
  ASSUME IInv, DecideRollback
  PROVE  IInv'
<1> DEFINE j == [Seal("rolled_back") EXCEPT !.phase = "rolling_back"]
<1>1. /\ helper.pc = "reversed" /\ UNCHANGED core
      /\ \/ /\ disk' = [disk EXCEPT !.journal = Seal("rolled_back")]
            /\ helper' = [helper EXCEPT !.pc = "finish", !.j = Seal("rolled_back")]
            /\ UNCHANGED tally
         \/ Failure /\ helper' = Exited /\ disk' = [disk EXCEPT !.journal = j]
  BY DEF DecideRollback
<1>2. CASE /\ disk' = [disk EXCEPT !.journal = Seal("rolled_back")]
           /\ helper' = [helper EXCEPT !.pc = "finish", !.j = Seal("rolled_back")]
           /\ UNCHANGED tally
  <2>1. Installed("old") /\ core.pc \in Out
    BY <1>1, BackFacts DEF Installed
  <2> QED
    BY <1>1, <1>2, <2>1, DecideInv
<1>3. CASE Failure /\ helper' = Exited /\ disk' = [disk EXCEPT !.journal = j]
  <2>1. /\ j \in Journal /\ j.phase = "rolling_back" /\ j # None /\ j.bound
        /\ j.parent = helper.j.parent /\ j.backup = helper.j.backup
    BY <1>1, WorkFacts, SealType, NoneAssumption DEF Journal, HelperPhases
  <2> HIDE DEF j
  <2>2. /\ disk' \in Disk /\ journal' = j
        /\ UNCHANGED <<state, tree, cred, tomb, bin, db, backups, disk.runonce>>
    BY <1>1, <1>3, <2>1, WorkFacts, SetJournal
  <2>3. helper' \in HelperType /\ HelperInv'
    BY <1>3, ExitedType DEF HelperInv
  <2>4. tally' \in TallyType /\ tally'.written = tally.written
    BY <1>3, FailureTally
  <2>5. Staged'
    BY <1>1, <2>1, <2>2, <2>4, BackFacts DEF Staged, BackedUp
  <2> QED
    BY <1>1, <2>1, <2>2, <2>3, <2>4, <2>5, WorkFacts, BackFacts, WorkInv
<1> QED
  BY <1>1, <1>2, <1>3

LEMMA BackwardFails ==
  ASSUME IInv, helper.pc \in RollingBack, UNCHANGED core, Retried, Failure \/ UNCHANGED tally
  PROVE  IInv'
BY SameTally, FailureTally, RetriedInv

LEMMA UnwindInv ==
  ASSUME IInv, Backward("unwind", IF bin = "new" THEN "unwind" ELSE "restore", TRUE,
                        [disk EXCEPT !.bin = IF bin = "new" THEN "mixed" ELSE "old"])
  PROVE  IInv'
<1> DEFINE to == IF bin = "new" THEN "unwind" ELSE "restore"
           b == IF bin = "new" THEN "mixed" ELSE "old"
<1>1. /\ helper.pc = "unwind" /\ UNCHANGED core
      /\ \/ /\ disk' = [disk EXCEPT !.bin = b] /\ UNCHANGED tally
            /\ helper' = [helper EXCEPT !.pc = to]
         \/ Retried /\ (Failure \/ UNCHANGED tally)
  BY DEF Backward, HelperAt
<1>2. CASE Retried /\ (Failure \/ UNCHANGED tally)
  BY <1>1, <1>2, BackwardFails
<1>3. /\ to \in {"unwind", "restore"} /\ b \in {"old", "mixed", "new"}
      /\ to = "restore" => b = "old"
  OBVIOUS
<1> HIDE DEF to, b
<1>4. CASE /\ disk' = [disk EXCEPT !.bin = b] /\ UNCHANGED tally
           /\ helper' = [helper EXCEPT !.pc = to]
  <2>1. /\ disk' \in Disk /\ bin' = b
        /\ UNCHANGED <<state, journal, tree, cred, tomb, db, backups, disk.runonce>>
    BY <1>1, <1>3, <1>4, WorkFacts, SetBin
  <2>2. helper' = [helper EXCEPT !.pc = to, !.j = helper.j]
    BY <1>1, <1>4, WorkFacts DEF HelperType
  <2>3. helper'.pc = to /\ helper'.j = helper.j => HelperInv'
    BY <1>1, <1>3, <1>4, <2>1, WorkFacts, BackFacts DEF HelperInv, BackedUp
  <2>4. Staged'
    BY <1>1, <1>4, <2>1, BackFacts DEF Staged, BackedUp
  <2> QED
    BY <1>1, <1>3, <1>4, <2>1, <2>2, <2>3, <2>4, WorkFacts, BackFacts, KeepInv
<1> QED
  BY <1>1, <1>2, <1>4

LEMMA RestoreInv ==
  ASSUME IInv, Backward("restore", "revert", Restorable,
                        [disk EXCEPT !.db = [writes |-> helper.j.backup.writes, schema |-> "old"]])
  PROVE  IInv'
<1> DEFINE d == [writes |-> helper.j.backup.writes, schema |-> "old"]
<1>1. /\ helper.pc = "restore" /\ UNCHANGED core
      /\ \/ /\ disk' = [disk EXCEPT !.db = d] /\ UNCHANGED tally
            /\ helper' = [helper EXCEPT !.pc = "revert"]
         \/ Retried /\ (Failure \/ UNCHANGED tally)
  BY DEF Backward, HelperAt
<1>2. CASE Retried /\ (Failure \/ UNCHANGED tally)
  BY <1>1, <1>2, BackwardFails
<1>3. /\ d \in [writes : 0..MaxWrites, schema : Versions] /\ d.schema = "old"
      /\ d.writes = tally.written
  BY <1>1, WorkFacts, BackFacts DEF BackedUp, Versions
<1> HIDE DEF d
<1>4. CASE /\ disk' = [disk EXCEPT !.db = d] /\ UNCHANGED tally
           /\ helper' = [helper EXCEPT !.pc = "revert"]
  <2>1. /\ disk' \in Disk /\ db' = d
        /\ UNCHANGED <<state, journal, tree, cred, tomb, bin, backups, disk.runonce>>
    BY <1>1, <1>3, <1>4, WorkFacts, SetDb
  <2>2. helper' = [helper EXCEPT !.pc = "revert", !.j = helper.j]
    BY <1>1, <1>4, WorkFacts DEF HelperType
  <2>3. helper'.pc = "revert" /\ helper'.j = helper.j => HelperInv'
    BY <1>1, <1>3, <1>4, <2>1, WorkFacts, BackFacts DEF HelperInv, BackedUp
  <2>4. Staged'
    BY <1>1, <1>4, <2>1, BackFacts DEF Staged, BackedUp
  <2> QED
    BY <1>1, <1>3, <1>4, <2>1, <2>2, <2>3, <2>4, WorkFacts, BackFacts, KeepInv
<1> QED
  BY <1>1, <1>2, <1>4

LEMMA RevertInv ==
  ASSUME IInv, Backward("revert", "reversed", Publishable, [disk EXCEPT !.state = Publish("rolled_back")])
  PROVE  IInv'
<1> DEFINE s == Publish("rolled_back")
<1>1. /\ helper.pc = "revert" /\ UNCHANGED core
      /\ \/ /\ disk' = [disk EXCEPT !.state = s] /\ UNCHANGED tally
            /\ helper' = [helper EXCEPT !.pc = "reversed"]
         \/ Retried /\ (Failure \/ UNCHANGED tally)
  BY DEF Backward, HelperAt
<1>2. CASE Retried /\ (Failure \/ UNCHANGED tally)
  BY <1>1, <1>2, BackwardFails
<1>3. s \in State /\ s.phase = "rolled_back" /\ s.ptr /\ s.done = None
  BY <1>1, WorkFacts, PublishType DEF UpdatePhases
<1> HIDE DEF s
<1>4. CASE /\ disk' = [disk EXCEPT !.state = s] /\ UNCHANGED tally
           /\ helper' = [helper EXCEPT !.pc = "reversed"]
  <2>1. /\ disk' \in Disk /\ state' = s
        /\ UNCHANGED <<journal, tree, cred, tomb, bin, db, backups, disk.runonce>>
    BY <1>1, <1>3, <1>4, WorkFacts, SetState
  <2>2. helper' = [helper EXCEPT !.pc = "reversed", !.j = helper.j]
    BY <1>1, <1>4, WorkFacts DEF HelperType
  <2>3. helper'.pc = "reversed" /\ helper'.j = helper.j => HelperInv'
    BY <1>1, <1>3, <1>4, <2>1, WorkFacts, BackFacts DEF HelperInv, BackedUp
  <2>4. Staged'
    BY <1>1, <1>4, <2>1, BackFacts DEF Staged, BackedUp
  <2> QED
    BY <1>1, <1>3, <1>4, <2>1, <2>2, <2>3, <2>4, WorkFacts, BackFacts, KeepInv
<1> QED
  BY <1>1, <1>2, <1>4

(* An abort, before anything was replaced.                                 *)
LEMMA AbortInv ==
  ASSUME IInv, Abort
  PROVE  IInv'
<1>1. /\ helper.pc \in {"abort", "aborting", "aborted"} /\ UNCHANGED core
      /\ \/ Failure /\ helper' = Exited /\ UNCHANGED disk
         \/ helper' = Exited /\ UNCHANGED <<disk, tally>>
         \/ /\ helper.pc = "abort" /\ disk' = [disk EXCEPT !.journal = Phase("abort_requested")]
            /\ helper' = [helper EXCEPT !.pc = "aborting", !.j = Phase("abort_requested")]
            /\ UNCHANGED tally
         \/ /\ helper.pc = "aborting" /\ disk' = [disk EXCEPT !.state = Publish("rolled_back")]
            /\ helper' = [helper EXCEPT !.pc = "aborted", !.j = helper.j] /\ UNCHANGED tally
         \/ /\ helper.pc = "aborted" /\ disk' = [disk EXCEPT !.journal = Seal("rolled_back")]
            /\ helper' = [helper EXCEPT !.pc = "finish", !.j = Seal("rolled_back")]
            /\ UNCHANGED tally
  BY DEF Abort, AbortStep
<1>2. /\ journal.phase \in BeforeCutover /\ Installed("old")
      /\ helper.pc # "abort" => journal = helper.j /\ helper.j.phase = "abort_requested"
      /\ core.pc \notin Out => helper.j.parent
  <2>1. /\ helper.pc = "abort" => /\ journal.phase \in BeforeCutover
                                  /\ core.pc \notin Out => helper.j.parent
        /\ helper.pc # "abort" => journal = helper.j /\ helper.j.phase = "abort_requested"
    BY <1>1, Parts DEF HelperInv, SameJournal
  <2>2. journal.phase \in BeforeCutover
    BY <1>1, <2>1
  <2>3. Staged
    BY <1>1, WorkFacts, Parts DEF Underway
  <2>4. core.pc \notin Out => helper.j.parent
    BY <1>1, <2>1, WorkFacts
  <2> QED
    BY <2>1, <2>2, <2>3, <2>4 DEF Staged
<1>3. CASE Failure /\ helper' = Exited /\ UNCHANGED disk
  BY <1>1, <1>3, WorkFacts, SameDisk, ExitedType, FailureTally, RestInv
<1>4. CASE helper' = Exited /\ UNCHANGED <<disk, tally>>
  BY <1>1, <1>4, WorkFacts, SameDisk, ExitedType, SameTally, RestInv
<1>5. CASE /\ helper.pc = "abort" /\ disk' = [disk EXCEPT !.journal = Phase("abort_requested")]
           /\ helper' = [helper EXCEPT !.pc = "aborting", !.j = Phase("abort_requested")]
           /\ UNCHANGED tally
  <2> DEFINE j == Phase("abort_requested")
  <2>1. /\ j \in Journal /\ j.phase = "abort_requested" /\ j # None /\ j.bound
        /\ j.parent = helper.j.parent
    BY <1>1, WorkFacts, PhaseType DEF HelperPhases
  <2>2. disk' = [disk EXCEPT !.journal = j] /\ helper' = [helper EXCEPT !.pc = "aborting", !.j = j]
    BY <1>5
  <2> HIDE DEF j
  <2>3. /\ disk' \in Disk /\ journal' = j
        /\ UNCHANGED <<state, tree, cred, tomb, bin, db, backups, disk.runonce>>
    BY <1>1, <2>1, <2>2, WorkFacts, SetJournal
  <2>4. helper' \in HelperType /\ helper'.pc = "aborting" /\ helper'.j = j
    <3>1. j \in Journal \cup {None} /\ helper \in HelperType
      BY <1>1, <2>1, WorkFacts
    <3> QED
      BY <2>2, <3>1, MoveHelper
  <2>5. HelperInv'
    BY <2>1, <2>3, <2>4 DEF HelperInv, SameJournal
  <2>6. Staged'
    BY <1>2, <2>1, <2>3 DEF Staged, Installed
  <2> QED
    BY <1>1, <1>2, <1>5, <2>1, <2>3, <2>4, <2>5, <2>6, WorkFacts, SameTally, WorkInv
<1>6. CASE /\ helper.pc = "aborting" /\ disk' = [disk EXCEPT !.state = Publish("rolled_back")]
           /\ helper' = [helper EXCEPT !.pc = "aborted", !.j = helper.j] /\ UNCHANGED tally
  <2> DEFINE s == Publish("rolled_back")
  <2>1. s \in State /\ s.phase = "rolled_back" /\ s.ptr /\ s.done = None
    BY <1>1, WorkFacts, PublishType DEF UpdatePhases
  <2>2. disk' = [disk EXCEPT !.state = s]
    BY <1>6
  <2> HIDE DEF s
  <2>3. /\ disk' \in Disk /\ state' = s
        /\ UNCHANGED <<journal, tree, cred, tomb, bin, db, backups, disk.runonce>>
    BY <1>1, <2>1, <2>2, WorkFacts, SetState
  <2>4. helper'.pc = "aborted" /\ helper'.j = helper.j => HelperInv'
    BY <1>1, <1>2, <1>6, <2>3, WorkFacts DEF HelperInv, SameJournal
  <2>5. Staged'
    BY <1>2, <1>6, <2>3, WorkFacts DEF Staged, Installed
  <2> QED
    BY <1>1, <1>6, <2>1, <2>3, <2>4, <2>5, WorkFacts, KeepInv
<1>7. CASE /\ helper.pc = "aborted" /\ disk' = [disk EXCEPT !.journal = Seal("rolled_back")]
           /\ helper' = [helper EXCEPT !.pc = "finish", !.j = Seal("rolled_back")]
           /\ UNCHANGED tally
  BY <1>1, <1>2, <1>7, DecideInv
<1> QED
  BY <1>1, <1>3, <1>4, <1>5, <1>6, <1>7

-----------------------------------------------------------------------------
(* The helper begins and ends.                                             *)

LEMMA LoginInv ==
  ASSUME IInv, Login
  PROVE  IInv'
<1>1. /\ helper.pc = "login" /\ UNCHANGED <<core, tally>>
      /\ disk' = [disk EXCEPT !.runonce = FALSE]
      /\ helper' = Exited \/ helper' = [Exited EXCEPT !.pc = "load"]
  BY DEF Login
<1>2. /\ disk' \in Disk
      /\ UNCHANGED <<state, journal, tree, cred, tomb, bin, db, backups>>
  BY <1>1, Parts, Typed, SetRunonce
<1>3. helper' \in HelperType /\ helper'.pc \in Resting
  BY <1>1, ExitedType
<1> QED
  BY <1>1, <1>2, <1>3, SameTally, RestInv

LEMMA CrashInv ==
  ASSUME IInv, Crash
  PROVE  IInv'
<1>1. /\ tally.crashes < MaxCrashes /\ tally' = [tally EXCEPT !.crashes = tally.crashes + 1]
      /\ core' = NotRunning /\ UNCHANGED disk
      /\ helper' = [Exited EXCEPT !.pc = IF disk.runonce THEN "login" ELSE "off"]
  BY DEF Crash
<1>2. tally' \in TallyType /\ tally'.written = tally.written
  <2>1. tally \in TallyType /\ tally.crashes + 1 \in 0..MaxCrashes
    BY <1>1, Parts, Typed, CutoverAssumption DEF TallyType
  <2> QED
    BY <1>1, <2>1 DEF TallyType
<1>3. /\ core' \in CoreType /\ core'.pc = "off" /\ core'.mem = None /\ ~core'.parent
  BY <1>1 DEF NotRunning, CoreType, Versions
<1>4. /\ helper' \in HelperType /\ helper'.pc \in {"off", "login"}
      /\ ~disk.runonce => helper'.pc = "off"
  BY <1>1 DEF Exited, HelperType, Versions
<1>5. UNCHANGED <<state, journal, tree, cred, tomb, bin, db, backups, disk.runonce>>
  BY <1>1, SameDisk
<1>6. TypeOK'
  BY <1>1, <1>2, <1>3, <1>4, Parts, Typed, TypedNext
<1>7. ReadyInv' /\ CoreInv' /\ ReclaimInv'
  BY <1>2, <1>3, <1>4, <1>5, Parts DEF ReadyInv, CoreInv, ReclaimInv
<1>8. HelperInv'
  BY <1>4 DEF HelperInv
<1>9. NotBegun' /\ Unsigned' /\ Retired'
  BY <1>3, <1>4, <1>5, Parts DEF NotBegun, Unsigned, Retired, Installed, HandingMem, DecidedMem
<1>10. Underway' /\ Terminal'
  BY <1>2, <1>3, <1>4, <1>5, Parts DEF Staged, Underway, Terminal, Installed, HandingMem, BackedUp
<1> QED
  BY <1>6, <1>7, <1>8, <1>9, <1>10 DEF IInv

LEMMA ResumedType ==
  ASSUME NEW p \in HelperPhases
  PROVE  Resumed(p) \in {"wait", "abort", "rollback", "apply", "diagnose", "migrate", "install", "finish"}
BY DEF Resumed

LEMMA LoadInv ==
  ASSUME IInv, Load
  PROVE  IInv'
<1>1. helper.pc = "load" /\ helper.pc # "off" /\ disk \in Disk /\ helper \in HelperType
  BY Parts, Typed DEF Load
<1>2. CASE helper' = Exited /\ UNCHANGED <<disk, core>> /\ (Failure \/ UNCHANGED tally)
  BY <1>1, <1>2, SameDisk, ExitedType, SameTally, FailureTally, RestInv
<1>3. CASE helper' = [helper EXCEPT !.version = "new"] /\ UNCHANGED <<disk, core, tally>>
  <2>1. helper' \in HelperType /\ helper'.pc = "load"
    BY <1>1, <1>3 DEF HelperType, Versions
  <2> QED
    BY <1>1, <1>3, <2>1, SameDisk, SameTally, RestInv
<1>4. CASE /\ Readable /\ UNCHANGED <<core, tally>>
           /\ helper' = [helper EXCEPT !.pc = Resumed(journal.phase), !.j = journal]
           /\ disk' = IF journal.phase \in TerminalPhases THEN disk
                      ELSE [disk EXCEPT !.runonce = TRUE, !.state = Promoted(state, journal)]
  <2>1. journal \in Journal /\ journal # None /\ journal.bound
    BY <1>1, <1>4, Files DEF Readable, Authority
  <2>2. journal.phase \in HelperPhases
    BY <2>1, JournalType
  <2>3. helper' \in HelperType /\ helper'.pc = Resumed(journal.phase) /\ helper'.j = journal
    <3> DEFINE pc == Resumed(journal.phase)
    <3>1. pc \in Resting \cup Working \cup Ending
      BY <2>2, ResumedType
    <3>2. helper' = [helper EXCEPT !.pc = pc, !.j = journal]
      BY <1>4
    <3>3. journal \in Journal \cup {None}
      BY <2>1
    <3> HIDE DEF pc
    <3>4. helper' \in HelperType /\ helper'.pc = pc /\ helper'.j = journal
      BY <1>1, <3>1, <3>2, <3>3, MoveHelper
    <3> QED
      BY <3>4 DEF pc
  <2>4. CASE journal.phase \in TerminalPhases
    <3>1. /\ helper'.pc = "finish"
          /\ UNCHANGED <<disk, state, journal, tree, cred, tomb, bin, db, backups, disk.runonce>>
      BY <1>4, <2>3, <2>4, SameDisk DEF Resumed
    <3>2. TypeOK'
      BY <1>1, <1>4, <2>3, <3>1, Parts, Typed, TypedNext
    <3>3. ReadyInv' /\ CoreInv' /\ ReclaimInv'
      BY <1>1, <1>4, <2>1, <3>1, Parts DEF ReadyInv, CoreInv, ReclaimInv
    <3>4. HelperInv'
      BY <2>1, <2>3, <2>4, <3>1 DEF HelperInv
    <3>5. NotBegun' /\ Unsigned' /\ Retired' /\ Underway'
      BY <2>1, <2>4, <3>1 DEF NotBegun, Unsigned, Retired, Underway
    <3>6. Terminal'
      BY <1>4, <2>1, <2>4, <3>1, Parts DEF Terminal, Installed, HandingMem, DecidedMem
    <3> QED
      BY <3>2, <3>3, <3>4, <3>5, <3>6 DEF IInv
  <2>5. CASE journal.phase \notin TerminalPhases
    <3> DEFINE s == Promoted(state, journal)
    <3>1. s \in State /\ s.phase = state.phase /\ s.ptr = state.ptr /\ s.done = state.done
      BY <1>1, <2>1, Files, JournalType DEF State, Promoted
    <3>2. disk' = [disk EXCEPT !.runonce = TRUE, !.state = s]
      BY <1>4, <2>5
    <3> HIDE DEF s
    <3>3. /\ disk' \in Disk /\ state' = s
          /\ UNCHANGED <<journal, tree, cred, tomb, bin, db, backups>>
      BY <1>1, <3>1, <3>2 DEF Disk, state, journal, tree, cred, tomb, bin, db, backups
    <3>4. /\ state.ptr /\ state.done = None /\ Staged /\ state.phase # "ready"
          /\ core.pc \in Out \/ (journal.parent /\ journal.phase \in BeforeCutover)
          /\ db.writes = tally.written
      BY <1>1, <2>1, <2>5, Parts DEF Underway, ReadyInv, CoreInv
    <3>5. /\ journal.phase \in {"cutover_started", "binary_replaced", "diagnostics_passed",
                               "health_passed", "rolling_back"} => BackedUp(journal) /\ core.pc \in Out
      BY <3>4 DEF Staged
    <3>6. HelperInv'
      BY <1>4, <2>1, <2>2, <2>3, <2>5, <3>3, <3>4, <3>5
      DEF HelperInv, SameJournal, BackedUp, Resumed, HelperPhases
    <3>7. Staged'
      BY <1>4, <3>3, <3>4 DEF Staged, Installed, BackedUp
    <3> QED
      BY <1>1, <1>4, <2>1, <2>3, <2>5, <3>1, <3>3, <3>4, <3>6, <3>7, SameTally, WorkInv
  <2> QED
    BY <2>4, <2>5
<1> QED
  BY <1>2, <1>3, <1>4 DEF Load, HelperExits

(* What a helper that ends relies on.                                      *)
LEMMA EndFacts ==
  ASSUME IInv, helper.pc \in Ending
  PROVE  /\ disk \in Disk /\ helper \in HelperType /\ core \in CoreType
         /\ helper.j \in Journal /\ helper.j # None /\ helper.j.phase \in TerminalPhases
         /\ journal = helper.j \/ (journal = None /\ state.phase \in Decisions)
         /\ state \in State /\ (state.phase # "ready") /\ core.pc \notin Installing
         /\ core.mem # None => core.mem.phase # "ready"
BY Parts, Typed, Files DEF HelperInv, HelperType, ReadyInv

(* Nothing but the pointer of the state changes any more.                  *)
LEMMA EndInv ==
  ASSUME IInv, helper.pc \in Ending, helper' \in HelperType,
         helper'.pc = "off" \/ (helper'.pc \in Ending /\ helper'.j = helper.j),
         UNCHANGED core, disk' \in Disk,
         UNCHANGED <<journal, tree, cred, tomb, bin, db, backups>>,
         state'.phase = state.phase, state'.ptr => state.ptr,
         tally' \in TallyType, tally'.written = tally.written
  PROVE  IInv'
<1>1. TypeOK'
  BY EndFacts, Parts, Typed, TypedNext
<1>2. ReadyInv' /\ CoreInv' /\ ReclaimInv'
  BY EndFacts, Parts DEF ReadyInv, CoreInv, ReclaimInv
<1>3. HelperInv'
  BY EndFacts DEF HelperInv
<1>4. NotBegun' /\ Unsigned' /\ Underway'
  BY EndFacts, Parts DEF NotBegun, Unsigned, Underway
<1>5. Retired' /\ Terminal'
  BY EndFacts, Parts DEF Retired, Terminal, Installed, HandingMem, DecidedMem
<1> QED
  BY <1>1, <1>2, <1>3, <1>4, <1>5 DEF IInv

LEMMA ClearedType ==
  ASSUME IInv, helper.pc \in Ending, disk' = [disk EXCEPT !.state = Cleared]
  PROVE  /\ disk' \in Disk /\ state'.phase = state.phase /\ ~state'.ptr
         /\ UNCHANGED <<journal, tree, cred, tomb, bin, db, backups>>
<1>1. /\ Cleared \in State /\ Cleared.phase = state.phase /\ ~Cleared.ptr
  BY EndFacts, JournalType DEF Cleared, State
<1> QED
  BY <1>1, EndFacts, SetState

LEMMA ClearPointerInv ==
  ASSUME IInv, ClearPointer("finish", "unregister")
  PROVE  IInv'
<1>1. /\ helper.pc = "finish" /\ UNCHANGED core
      /\ \/ /\ disk' = [disk EXCEPT !.state = Cleared] /\ UNCHANGED tally
            /\ helper' = [helper EXCEPT !.pc = "unregister"]
         \/ /\ UNCHANGED disk /\ (Failure \/ UNCHANGED tally)
            /\ helper' = [helper EXCEPT !.pc = "unregister", !.degraded = TRUE]
  BY DEF ClearPointer, HelperAt
<1>2. helper' \in HelperType /\ helper'.pc = "unregister" /\ helper'.j = helper.j
  BY <1>1, EndFacts DEF HelperType
<1>3. CASE disk' = [disk EXCEPT !.state = Cleared] /\ UNCHANGED tally
  BY <1>1, <1>2, <1>3, ClearedType, SameTally, EndInv
<1>4. CASE UNCHANGED disk /\ (Failure \/ UNCHANGED tally)
  BY <1>1, <1>2, <1>4, EndFacts, SameDisk, SameTally, FailureTally, EndInv
<1> QED
  BY <1>1, <1>3, <1>4

LEMMA UnregisterInv ==
  ASSUME IInv, Unregister
  PROVE  IInv'
<1>1. /\ helper.pc = "unregister" /\ UNCHANGED core
      /\ \/ /\ disk' = [disk EXCEPT !.runonce = FALSE] /\ UNCHANGED tally
            /\ helper' = [helper EXCEPT !.pc = "relaunch"]
         \/ /\ UNCHANGED disk /\ Failure
            /\ helper' = [helper EXCEPT !.pc = "relaunch", !.degraded = TRUE]
  BY DEF Unregister, HelperAt
<1>2. helper' \in HelperType /\ helper'.pc = "relaunch" /\ helper'.j = helper.j
  BY <1>1, EndFacts DEF HelperType
<1>3. CASE disk' = [disk EXCEPT !.runonce = FALSE] /\ UNCHANGED tally
  BY <1>1, <1>2, <1>3, EndFacts, SetRunonce, SameTally, EndInv
<1>4. CASE UNCHANGED disk /\ Failure
  BY <1>1, <1>2, <1>4, EndFacts, SameDisk, FailureTally, EndInv
<1> QED
  BY <1>1, <1>3, <1>4

LEMMA RecordInv ==
  ASSUME IInv, Record
  PROVE  IInv'
<1>1. /\ helper.pc = "record" /\ UNCHANGED <<core, tally>> /\ helper' = Exited
      /\ disk' = [disk EXCEPT !.state = Cleared] \/ UNCHANGED disk
  BY DEF Record
<1> QED
  BY <1>1, ExitedType, EndFacts, ClearedType, SameDisk, SameTally, EndInv

LEMMA RelaunchInv ==
  ASSUME IInv, Relaunch
  PROVE  IInv'
<1>1. /\ helper.pc = "relaunch" /\ UNCHANGED <<disk, tally>>
      /\ \/ UNCHANGED core
         \/ /\ core.pc = "off"
            /\ bin = (IF helper.j.phase = "committed" THEN "new" ELSE "old")
            /\ core' = [NotRunning EXCEPT !.pc = "guard", !.version = bin]
      /\ helper' = Exited \/ helper' = [helper EXCEPT !.pc = "record"]
  BY DEF Relaunch
<1>2. /\ helper' \in HelperType
      /\ helper'.pc = "off" \/ (helper'.pc = "record" /\ helper'.j = helper.j)
  BY <1>1, EndFacts, ExitedType DEF HelperType
<1>3. UNCHANGED <<state, journal, tree, cred, tomb, bin, db, backups, disk.runonce>>
  BY <1>1, SameDisk
<1>4. CASE UNCHANGED core
  BY <1>1, <1>2, <1>3, <1>4, EndFacts, SameTally, EndInv
<1>5. CASE /\ core' = [NotRunning EXCEPT !.pc = "guard", !.version = bin] /\ bin \in Versions
  <2>1. core' \in CoreType /\ core'.pc = "guard" /\ core'.mem = None /\ ~core'.parent
    BY <1>5 DEF NotRunning, CoreType
  <2>2. TypeOK'
    BY <1>1, <1>2, <2>1, Parts, Typed, TypedNext
  <2>3. ReadyInv' /\ CoreInv' /\ ReclaimInv'
    BY <1>1, <1>3, <2>1, EndFacts, Parts DEF ReadyInv, CoreInv, ReclaimInv
  <2>4. HelperInv'
    BY <1>1, <1>2, <1>3, EndFacts DEF HelperInv
  <2>5. NotBegun' /\ Unsigned' /\ Underway'
    BY <1>1, <1>3, EndFacts, Parts DEF NotBegun, Unsigned, Underway
  <2>6. Retired' /\ Terminal'
    BY <1>1, <1>2, <1>3, <2>1, EndFacts, Parts DEF Retired, Terminal, Installed, HandingMem, DecidedMem
  <2> QED
    BY <2>2, <2>3, <2>4, <2>5, <2>6 DEF IInv
<1> QED
  BY <1>1, <1>4, <1>5 DEF Versions

LEMMA StutterInv ==
  ASSUME IInv, UNCHANGED vars
  PROVE  IInv'
<1>1. UNCHANGED <<state, journal, tree, cred, tomb, bin, db, backups, disk.runonce, disk, core, helper, tally>>
  BY SameDisk DEF vars
<1>2. TypeOK' /\ ReadyInv' /\ CoreInv' /\ ReclaimInv'
  BY <1>1, Parts DEF TypeOK, ReadyInv, CoreInv, ReclaimInv
<1>3. HelperInv'
  BY <1>1, Parts DEF HelperInv, SameJournal, BackedUp, Detached, Rebacked
<1>4. NotBegun' /\ Unsigned' /\ Retired'
  BY <1>1, Parts DEF NotBegun, Unsigned, Retired, Installed, HandingMem, DecidedMem
<1>5. Underway' /\ Terminal'
  BY <1>1, Parts DEF Staged, Underway, Terminal, Installed, HandingMem, DecidedMem, BackedUp, Outcome
<1> QED
  BY <1>2, <1>3, <1>4, <1>5 DEF IInv

-----------------------------------------------------------------------------
(* Every step preserves the invariant.                                     *)

LEMMA ServesInv ==
  ASSUME IInv, Serves
  PROVE  IInv'
BY WriteInv, InstallInv, HandoffFailsInv, CancelInv, CloseInv, LeaveWithSaveInv, LeaveWithoutInv,
   RetireFailsInv, RetireAgainInv DEF Serves

LEMMA HandoffInv ==
  ASSUME IInv, Handoff
  PROVE  IInv'
BY SaveBackupInv, WriteJournalInv, LaunchHelperInv, CopyInv, CopiedInv, PrepareInv, SecretInv,
   BindInv, PublishInv, RegisterInv DEF Handoff

LEMMA StartsInv ==
  ASSUME IInv, Starts
  PROVE  IInv'
<1>1. CASE Reclaim
  BY <1>1, ReclaimedInv, UnlinkedInv, CleanedInv, ResetInv DEF Reclaim
<1>2. CASE Retire
  BY <1>2, EntombedInv, JournalRemovedInv, TreeRemovedInv, SecretRemovedInv, TombRemovedInv,
     DoneClearedInv DEF Retire
<1> QED
  BY <1>1, <1>2, StartInv, GuardInv, GuardLaunchesInv, OpenInv, ExitInv DEF Starts

LEMMA WaitsInv ==
  ASSUME IInv, Wait
  PROVE  IInv'
<1>1. CASE SavePhase("wait", "watch", "waiting_for_parent")
  BY <1>1, SavePhaseInv DEF Advances
<1>2. CASE Announce("detach1", "detach2", "refresh", Detached)
  BY <1>2, AnnounceInv
<1>3. CASE Switch("detach2", "detach3", Detached)
  BY <1>3, SwitchInv
<1>4. CASE TakeOver("detach3", "refresh", Detached)
  BY <1>4, TakeOverInv
<1>5. CASE Announce("rebind1", "rebind2", "apply", Rebacked)
  BY <1>5, AnnounceInv
<1>6. CASE Switch("rebind2", "rebind3", Rebacked)
  BY <1>6, SwitchInv
<1>7. CASE TakeOver("rebind3", "apply", Rebacked)
  BY <1>7, TakeOverInv
<1> QED
  BY <1>1, <1>2, <1>3, <1>4, <1>5, <1>6, <1>7, WatchInv, RefreshInv DEF Wait

LEMMA AppliesInv ==
  ASSUME IInv, Apply
  PROVE  IInv'
<1>1. CASE SavePhase("apply", "unpack", "cutover_started")
  BY <1>1, SavePhaseInv DEF Advances
<1>2. CASE SavePhase("replaced", "diagnose", "binary_replaced")
  BY <1>2, SavePhaseInv DEF Advances
<1>3. CASE SavePhase("diagnose", "migrate", "diagnostics_passed")
  BY <1>3, SavePhaseInv DEF Advances
<1>4. CASE SavePhase("health", "install", "health_passed")
  BY <1>4, SavePhaseInv DEF Advances
<1>5. CASE /\ helper.pc = "install"
           /\ IF Publishable
              THEN Forward("install", "commit", helper.j, [disk EXCEPT !.state = Publish("installed")])
              ELSE Escapes(helper.j) /\ UNCHANGED <<disk, core, tally>>
  <2>1. UNCHANGED core
    BY <1>5 DEF Forward
  <2> QED
    BY <1>5, <2>1, InstalledInv
<1> QED
  BY <1>1, <1>2, <1>3, <1>4, <1>5, UnpackInv, MigrateInv, CommitInv DEF Apply

LEMMA HelpsInv ==
  ASSUME IInv, Helps
  PROVE  IInv'
<1>1. CASE RollBack
  BY <1>1, BeginRollbackInv, DecideRollbackInv, UnwindInv, RestoreInv, RevertInv DEF RollBack
<1>2. CASE Finish
  BY <1>2, ClearPointerInv, UnregisterInv, RelaunchInv, RecordInv DEF Finish
<1> QED
  BY <1>1, <1>2, LoginInv, LoadInv, WaitsInv, AppliesInv, AbortInv DEF Helps

LEMMA NextInv == IInv /\ [Next]_vars => IInv'
BY ServesInv, HandoffInv, StartsInv, HelpsInv, CrashInv, StutterInv DEF Next

(* The inductive invariant holds of every behaviour.                       *)
THEOREM Invariant == Spec => []IInv
BY InitInv, NextInv, PTL DEF Spec

(* Every variable keeps its type.                                          *)
THEOREM TypeCorrect == Spec => []TypeOK
<1>1. IInv => TypeOK
  BY Parts
<1> QED
  BY <1>1, Invariant, PTL

(* A Core that serves is one whole version on the schema of that version,  *)
(* with every write it ever acknowledged, and no helper is replacing or    *)
(* restoring under it.                                                     *)
THEOREM ServedCorrect == Spec => []ServedIntact
<1>1. IInv => ServedIntact
  <2> SUFFICES ASSUME IInv, core.pc \in Serving \cup Installing
               PROVE  /\ bin = core.version /\ db.schema = bin
                      /\ db.writes = tally.written
                      /\ helper.pc \notin Applying \cup RollingBack
    BY DEF ServedIntact
  <2>1. /\ bin = core.version /\ db.schema = bin
        /\ db.writes = tally.written
    BY Parts DEF CoreInv
  <2>2. helper.pc \notin Applying \cup RollingBack
    BY Parts DEF HelperInv
  <2> QED
    BY <2>1, <2>2
<1> QED
  BY <1>1, Invariant, PTL

(* From the first replaced file to the decision the way back stays whole.  *)
THEOREM ReadyCorrect == Spec => []RollbackReady
<1>1. IInv => RollbackReady
  BY Parts DEF RollbackReady, Unsigned, Underway, Staged, BackedUp
<1> QED
  BY <1>1, Invariant, PTL

-----------------------------------------------------------------------------
(* The update implements AtomicUpdate.                                     *)

(* The journal decides, and after it the phase of the state.               *)
LEMMA DecisionIs ==
  ASSUME IInv
  PROVE  Decision = IF journal # None
                    THEN IF journal.phase \in TerminalPhases THEN Outcome(journal.phase) ELSE "open"
                    ELSE IF state.phase \in Decisions THEN state.phase ELSE "open"
BY Parts DEF Decision, Retired

(* A Core past the guard is the version that was decided.                  *)
LEMMA VersionDecided ==
  ASSUME IInv
  PROVE  Runs = "stopped" \/ Runs = IF Decision = "installed" THEN "new" ELSE "old"
<1>1. SUFFICES ASSUME core.pc \in Serving \cup Installing
               PROVE  core.version = IF Decision = "installed" THEN "new" ELSE "old"
  BY DEF Runs
<1>2. core.version = bin
  BY <1>1, Parts DEF CoreInv
<1>3. CASE journal # None /\ journal.phase \in TerminalPhases
  <2>1. bin = IF journal.phase = "committed" THEN "new" ELSE "old"
    BY <1>3, Parts DEF Terminal, Installed
  <2> QED
    BY <1>2, <1>3, <2>1, DecisionIs DEF Outcome
<1>4. CASE journal # None /\ journal.phase \notin TerminalPhases
  <2>1. bin = "old"
    BY <1>1, <1>4, Parts DEF Unsigned, Underway, Staged, Installed
  <2> QED
    BY <1>2, <1>4, <2>1, DecisionIs
<1>5. CASE journal = None /\ state.phase \in Decisions
  BY <1>2, <1>5, DecisionIs, Parts DEF Retired, Installed
<1>6. CASE journal = None /\ state.phase \notin Decisions
  BY <1>2, <1>6, DecisionIs, Parts DEF NotBegun, Installed
<1> QED
  BY <1>3, <1>4, <1>5, <1>6

LEMMA VersionDecidedNext ==
  IInv' => Runs' = "stopped" \/ Runs' = IF Decision' = "installed" THEN "new" ELSE "old"
<1> DEFINE Is == Runs = "stopped" \/ Runs = IF Decision = "installed" THEN "new" ELSE "old"
<1>1. IInv => Is
  BY VersionDecided
<1>2. IInv' => Is'
  BY <1>1, PTL
<1> QED
  BY <1>2

LEMMA DecisionIsNext ==
  IInv' => Decision' = IF journal' # None
                       THEN IF journal'.phase \in TerminalPhases THEN Outcome(journal'.phase) ELSE "open"
                       ELSE IF state'.phase \in Decisions THEN state'.phase ELSE "open"
<1> DEFINE Is == Decision = IF journal # None
                    THEN IF journal.phase \in TerminalPhases THEN Outcome(journal.phase) ELSE "open"
                    ELSE IF state.phase \in Decisions THEN state.phase ELSE "open"
<1>1. IInv => Is
  BY DecisionIs
<1>2. IInv' => Is'
  BY <1>1, PTL
<1> QED
  BY <1>2 DEF Outcome

(* A step that decides nothing starts the decided version or stops it.     *)
LEMMA Undecided ==
  ASSUME IInv, IInv', Decision' = Decision
  PROVE  Update!Next \/ UNCHANGED <<Decision, Runs>>
BY VersionDecided, VersionDecidedNext DEF Update!Next, Update!Stop, Update!Start

(* The decision stands: the journal is not touched and the phase of the    *)
(* state is the decision it was.                                           *)
LEMMA StateKept ==
  ASSUME IInv, IInv', UNCHANGED journal,
         journal = None => \/ state'.phase = state.phase
                           \/ state.phase \notin Decisions /\ state'.phase \notin Decisions
  PROVE  Decision' = Decision
BY DecisionIs, DecisionIsNext

LEMMA DiskKept ==
  ASSUME IInv, IInv', UNCHANGED <<disk.state, disk.journal>>
  PROVE  Decision' = Decision
BY StateKept DEF state, journal

LEMMA StillOpen ==
  ASSUME IInv, IInv', journal # None \/ state.phase \notin Decisions,
         journal' # None \/ state'.phase \notin Decisions,
         journal # None => journal.phase \notin TerminalPhases,
         journal' # None => journal'.phase \notin TerminalPhases
  PROVE  Decision' = Decision
BY DecisionIs, DecisionIsNext

LEMMA ServesDecides ==
  ASSUME IInv, IInv', Serves
  PROVE  Decision' = Decision
<1>1. disk \in Disk /\ core \in CoreType
  BY Parts, Typed
<1>2. CASE Write \/ Close \/ LeaveWithout \/ RetireFails \/ RetireAgain
  <2>1. UNCHANGED <<disk.state, disk.journal>>
    BY <1>1, <1>2 DEF Write, Close, LeaveWithout, RetireFails, RetireAgain, Disk
  <2> QED
    BY <2>1, DiskKept
<1>3. CASE Install
  <2>1. core'.pc = "backup" /\ UNCHANGED disk.journal
    BY <1>1, <1>3 DEF Install, Disk, CoreType
  <2>2. journal = None /\ state.phase \notin Decisions
    BY <1>3, Parts DEF Install, ReadyInv, Retired, DecidedMem
  <2>3. state'.phase \notin Decisions
    BY <2>1, <2>2, Parts DEF IInv, Retired, journal
  <2> QED
    BY <2>1, <2>2, <2>3, StateKept DEF journal
<1>4. CASE HandoffFails
  <2>1. core.pc \in Installing /\ UNCHANGED disk.journal
    BY <1>1, <1>4 DEF HandoffFails, Disk
  <2>2. journal = None => state.phase \notin Decisions
    BY <2>1, Parts DEF Retired
  <2>3. state'.phase = "error"
    <3>1. state' = [(IF core.mem.ptr /\ Evidence THEN state ELSE NoHandoff) EXCEPT !.phase = "error"]
      BY <1>1, <1>4 DEF HandoffFails, Disk, CoreType, state
    <3>2. state \in State
      BY <1>1, Files
    <3> QED
      BY <3>1, <3>2 DEF State, NoHandoff
  <2> QED
    BY <2>1, <2>2, <2>3, StateKept DEF journal
<1>5. CASE Cancel \/ LeaveWithSave
  <2>1. /\ state' = core.mem /\ core.mem # None /\ UNCHANGED disk.journal
        /\ core.pc \in {"idle", "handed", "closing"}
    BY <1>1, <1>5 DEF Cancel, LeaveWithSave, SavesMemory, Disk, state
  <2>2. journal = None => \/ core.mem.phase = state.phase
                          \/ state.phase \notin Decisions /\ core.mem.phase \notin Decisions
    <3>1. CASE journal = None /\ state.phase \notin Decisions
      BY <2>1, <3>1, Parts DEF NotBegun
    <3>2. CASE journal = None /\ state.phase \in Decisions
      BY <2>1, <3>2, Parts DEF Retired, DecidedMem, Installed
    <3> QED
      BY <3>1, <3>2
  <2> QED
    BY <2>1, <2>2, StateKept DEF journal
<1> QED
  BY <1>2, <1>3, <1>4, <1>5 DEF Serves

LEMMA HandoffDecides ==
  ASSUME IInv, IInv', Handoff
  PROVE  Decision' = Decision
<1>1. disk \in Disk /\ core \in CoreType
  BY Parts, Typed
<1>2. CASE \/ LaunchHelper
           \/ InstallStep("copy", "copied", [disk EXCEPT !.tree = "some"])
           \/ InstallStep("copied", "journal", [disk EXCEPT !.tree = "all"])
           \/ InstallStep("secret", "bind", [disk EXCEPT !.cred = TRUE])
           \/ InstallStep("register", "launch", [disk EXCEPT !.runonce = TRUE])
  <2>1. UNCHANGED <<disk.state, disk.journal>>
    BY <1>1, <1>2 DEF LaunchHelper, InstallStep, Disk
  <2> QED
    BY <2>1, DiskKept
<1>3. CASE SaveBackup
  <2>1. core.pc = "backup" /\ core'.pc = "copy" /\ UNCHANGED disk.journal
    BY <1>1, <1>3 DEF SaveBackup, Disk, CoreType
  <2>2. /\ journal = None => state.phase \notin Decisions
        /\ journal' = None => state'.phase \notin Decisions
    BY <2>1, Parts DEF IInv, Retired
  <2> QED
    BY <2>1, <2>2, StateKept DEF journal
<1>4. CASE \/ InstallStep("prepare", "secret", [disk EXCEPT !.state.pend = Identity(journal)])
           \/ InstallStep("publish", "register",
                          [disk EXCEPT !.state.cur = Identity(journal),
                                       !.state.pend = None, !.state.done = None])
  <2>1. core.pc \in {"prepare", "publish"} /\ UNCHANGED disk.journal
    BY <1>1, <1>4 DEF InstallStep, Disk
  <2>2. journal # None
    BY <2>1, Parts DEF NotBegun, Retired
  <2> QED
    BY <2>1, <2>2, StateKept DEF journal
<1>5. CASE WriteJournal
  <2>1. core.pc = "journal" /\ core'.pc = "prepare" /\ UNCHANGED disk.state
    BY <1>1, <1>5 DEF WriteJournal, Disk, CoreType
  <2>2. journal = None /\ state.phase \notin Decisions
    BY <2>1, Parts DEF Retired, Unsigned, Underway, Terminal
  <2>3. journal' # None /\ journal'.phase \notin TerminalPhases
    BY <2>1, Parts DEF IInv, NotBegun, Retired, Terminal
  <2> QED
    BY <2>1, <2>2, <2>3, StillOpen
<1>6. CASE InstallStep("bind", "publish", [disk EXCEPT !.journal.bound = TRUE])
  <2>1. core.pc = "bind" /\ core'.pc = "publish" /\ UNCHANGED disk.state
    BY <1>1, <1>6 DEF InstallStep, CoreAt, Disk, CoreType
  <2>2. journal # None /\ journal.phase \notin TerminalPhases
    BY <2>1, Parts DEF NotBegun, Retired, Terminal
  <2>3. journal' # None /\ journal'.phase \notin TerminalPhases
    BY <2>1, Parts DEF IInv, NotBegun, Retired, Terminal
  <2> QED
    BY <2>1, <2>2, <2>3, StillOpen
<1> QED
  BY <1>2, <1>3, <1>4, <1>5, <1>6 DEF Handoff

LEMMA StartsDecides ==
  ASSUME IInv, IInv', Starts
  PROVE  Decision' = Decision
<1>1. disk \in Disk /\ core \in CoreType /\ state \in State
  BY Parts, Typed, Files
<1>2. CASE Start \/ GuardLaunches \/ Open \/ Exit
  BY <1>2, DiskKept DEF Start, GuardLaunches, Open, Exit
<1>3. CASE Guard
  <2>1. UNCHANGED disk \/ disk' = [disk EXCEPT !.state = Promoted(state, journal)]
    BY <1>3 DEF Guard
  <2>2. UNCHANGED journal /\ (state' = state \/ state' = Promoted(state, journal))
    BY <1>1, <2>1 DEF Disk, state, journal
  <2>3. Promoted(state, journal).phase = state.phase
    BY <1>1 DEF Promoted, State
  <2> QED
    BY <2>2, <2>3, StateKept
<1>4. CASE \/ GuardStep("reclaim", "unlink", [disk EXCEPT !.tree = "some"])
           \/ GuardStep("clean", "reset", [disk EXCEPT !.tree = "none"])
           \/ GuardStep("entomb", "rmjournal",
                        [disk EXCEPT !.tomb = IF tomb # None THEN @ ELSE journal.phase])
           \/ GuardStep("rmtree", "rmsecret", [disk EXCEPT !.tree = "none"])
           \/ GuardStep("rmsecret", "clear", [disk EXCEPT !.cred = FALSE])
           \/ GuardStep("rmtomb", "idle", [disk EXCEPT !.tomb = None])
  <2>1. UNCHANGED <<disk.state, disk.journal>>
    BY <1>1, <1>4 DEF GuardStep, Disk
  <2> QED
    BY <2>1, DiskKept
<1>5. CASE GuardStep("unlink", "clean", [disk EXCEPT !.journal = None])
  <2>1. core.pc = "unlink" /\ core'.pc = "clean"
    BY <1>1, <1>5 DEF GuardStep, CoreAt, CoreType
  <2>2. journal # None /\ journal.phase \notin TerminalPhases
    BY <2>1, Parts DEF ReclaimInv, Unsigned
  <2>3. journal' = None /\ state'.phase \notin Decisions
    BY <2>1, Parts DEF IInv, ReclaimInv
  <2> QED
    BY <2>2, <2>3, StillOpen
<1>6. CASE GuardStep("reset", "init",
                     [disk EXCEPT !.cred = FALSE, !.state = [NoHandoff EXCEPT !.phase = "error"]])
  <2>1. core.pc = "reset" /\ UNCHANGED disk.journal /\ state'.phase = "error"
    BY <1>1, <1>6 DEF GuardStep, Disk, NoHandoff, state
  <2>2. journal = None /\ state.phase \notin Decisions
    BY <2>1, Parts DEF ReclaimInv
  <2> QED
    BY <2>1, <2>2, StateKept DEF journal
<1>7. CASE GuardStep("rmjournal", "rmtree", [disk EXCEPT !.journal = None])
  <2>1. core.pc = "rmjournal" /\ UNCHANGED disk.state /\ journal' = None
    BY <1>1, <1>7 DEF GuardStep, Disk, journal
  <2>2. UNCHANGED state
    BY <2>1 DEF state
  <2>3. CASE journal = None
    BY <2>1, <2>2, <2>3, StateKept
  <2>4. CASE journal # None
    <3>1. journal.phase \in TerminalPhases /\ state.phase = Outcome(journal.phase)
      BY <2>1, <2>4, Parts DEF Unsigned, Underway, Terminal
    <3> QED
      BY <2>1, <2>2, <2>4, <3>1, DecisionIs, DecisionIsNext DEF Outcome
  <2> QED
    BY <2>3, <2>4
<1>8. CASE /\ core.pc = "clear"
           /\ core' = [core EXCEPT !.pc = "rmtomb", !.mem.done = None]
           /\ disk' = [disk EXCEPT !.state = core'.mem]
  <2>1. core.mem \in State /\ core.mem # None
    BY <1>1, <1>8, Parts DEF CoreInv, CoreType
  <2>2. UNCHANGED disk.journal /\ state'.phase = core.mem.phase
    BY <1>1, <1>8, <2>1 DEF Disk, CoreType, State, state
  <2>3. journal = None => core.mem.phase = state.phase
    BY <1>8, <2>1, Parts DEF NotBegun, Retired, DecidedMem
  <2> QED
    BY <2>2, <2>3, StateKept DEF journal
<1> QED
  BY <1>2, <1>3, <1>4, <1>5, <1>6, <1>7, <1>8 DEF Starts, Reclaim, Retire

(* A step of a helper at work leaves the journal open, or is the decision. *)
Deciding == /\ helper.pc \in {"commit", "reversed", "aborted"} /\ helper'.pc = "finish"
            /\ helper.pc = "commit" => journal' = Seal("committed")
            /\ helper.pc # "commit" => journal' = Seal("rolled_back")

LEMMA WorkDecides ==
  ASSUME IInv, IInv', Wait \/ Apply \/ RollBack \/ Abort
  PROVE  UNCHANGED core /\ (Decision' = Decision \/ Deciding)
<1>1. helper.pc \in Working
  BY DEF Wait, Apply, RollBack, Abort, SavePhase, Watch, Announce, Switch, TakeOver, Forward,
         Backward, BeginRollback, DecideRollback, AbortStep
<1>2. CASE UNCHANGED core /\ helper'.pc \in Working
  <2>1. journal' # None /\ journal'.phase \notin TerminalPhases
    BY <1>2 DEF IInv, HelperInv
  <2> QED
    BY <1>1, <1>2, <2>1, WorkFacts, StillOpen
<1>3. CASE UNCHANGED core /\ UNCHANGED disk
  BY <1>3, DiskKept
<1>4. CASE UNCHANGED core /\ journal' # None /\ journal'.phase \notin TerminalPhases
  BY <1>1, <1>4, WorkFacts, StillOpen
<1>5. CASE UNCHANGED core /\ Deciding
  BY <1>5
<1>6. /\ helper \in HelperType /\ disk \in Disk /\ helper.j \in Journal
  BY <1>1, WorkFacts
<1>7. ASSUME NEW j, Escapes(j)
      PROVE  helper'.pc \in Working
  BY <1>6, <1>7 DEF Escapes, Recover, HelperType
<1>8. ASSUME NEW from, NEW to \in Working, NEW j, NEW effect, Forward(from, to, j, effect)
      PROVE  UNCHANGED core /\ helper'.pc \in Working
  BY <1>6, <1>7, <1>8 DEF Forward, HelperType
<1>9. CASE Wait
  <2>1. CASE Watch
    BY <1>6, <1>7, <2>1, <1>2 DEF Watch, HelperAt, HelperType
  <2>2. ASSUME NEW from, NEW middle \in Working, NEW to \in Working, NEW next,
               Announce(from, middle, to, next)
        PROVE  UNCHANGED core /\ helper'.pc \in Working
    BY <1>7, <1>8, <2>2 DEF Announce
  <2>3. ASSUME NEW from, NEW to \in Working, NEW next, TakeOver(from, to, next)
        PROVE  UNCHANGED core /\ helper'.pc \in Working
    BY <1>6, <1>7, <2>3 DEF TakeOver, HelperType
  <2> QED
    BY <1>8, <1>9, <1>2, <2>1, <2>2, <2>3 DEF Wait, SavePhase, Switch
<1>10. CASE Apply
  <2>1. CASE Forward("commit", "finish", Seal("committed"), [disk EXCEPT !.journal = Seal("committed")])
    <3>1. /\ helper.pc = "commit" /\ UNCHANGED core
          /\ \/ /\ disk' = [disk EXCEPT !.journal = Seal("committed")]
                /\ helper' = [helper EXCEPT !.pc = "finish", !.j = Seal("committed")]
             \/ Escapes(Seal("committed"))
      BY <2>1 DEF Forward
    <3>2. CASE Escapes(Seal("committed"))
      BY <1>7, <3>1, <3>2, <1>2
    <3>3. CASE /\ disk' = [disk EXCEPT !.journal = Seal("committed")]
               /\ helper' = [helper EXCEPT !.pc = "finish", !.j = Seal("committed")]
      BY <1>6, <3>1, <3>3, <1>5 DEF Deciding, HelperType, Disk, journal
    <3> QED
      BY <3>1, <3>2, <3>3
  <2>2. CASE /\ helper.pc = "install"
             /\ IF Publishable
                THEN Forward("install", "commit", helper.j, [disk EXCEPT !.state = Publish("installed")])
                ELSE Escapes(helper.j) /\ UNCHANGED <<disk, core, tally>>
    BY <1>7, <1>8, <2>2, <1>2
  <2>3. CASE Forward("unpack", IF bin = "mixed" THEN "replaced" ELSE "unpack", helper.j,
                     [disk EXCEPT !.bin = IF bin = "mixed" THEN "new" ELSE "mixed"])
    BY <1>8, <2>3, <1>2
  <2> QED
    BY <1>8, <1>10, <1>2, <2>1, <2>2, <2>3 DEF Apply, SavePhase
<1>11. CASE RollBack
  <2>1. ASSUME NEW j \in Journal, j.phase = "rolling_back", disk' = [disk EXCEPT !.journal = j]
        PROVE  journal' # None /\ journal'.phase \notin TerminalPhases
    BY <1>6, <2>1, SetJournal, JournalType
  <2>2. /\ [helper.j EXCEPT !.phase = "rolling_back"] \in Journal
        /\ [helper.j EXCEPT !.phase = "rolling_back"].phase = "rolling_back"
        /\ [Seal("rolled_back") EXCEPT !.phase = "rolling_back"] \in Journal
        /\ [Seal("rolled_back") EXCEPT !.phase = "rolling_back"].phase = "rolling_back"
    BY <1>6, SealType DEF Journal, HelperPhases
  <2>3. CASE BeginRollback
    BY <1>6, <2>3, <1>2, <1>3 DEF BeginRollback, HelperType
  <2>4. CASE DecideRollback
    <3>1. /\ helper.pc = "reversed" /\ UNCHANGED core
          /\ \/ /\ disk' = [disk EXCEPT !.journal = Seal("rolled_back")]
                /\ helper' = [helper EXCEPT !.pc = "finish", !.j = Seal("rolled_back")]
             \/ disk' = [disk EXCEPT !.journal = [Seal("rolled_back") EXCEPT !.phase = "rolling_back"]]
      BY <2>4 DEF DecideRollback
    <3>2. CASE /\ disk' = [disk EXCEPT !.journal = Seal("rolled_back")]
               /\ helper' = [helper EXCEPT !.pc = "finish", !.j = Seal("rolled_back")]
      BY <1>6, <3>1, <3>2, <1>5 DEF Deciding, HelperType, Disk, journal
    <3> QED
      BY <2>1, <2>2, <3>1, <3>2, <1>4
  <2>5. ASSUME NEW from, NEW to \in Working, NEW can, NEW effect, Backward(from, to, can, effect)
        PROVE  /\ UNCHANGED core
               /\ \/ helper'.pc \in Working
                  \/ journal' # None /\ journal'.phase \notin TerminalPhases
    BY <1>6, <2>1, <2>2, <2>5 DEF Backward, HelperAt, Retried, HelperType
  <2>6. CASE Backward("unwind", IF bin = "new" THEN "unwind" ELSE "restore", TRUE,
                      [disk EXCEPT !.bin = IF bin = "new" THEN "mixed" ELSE "old"])
    BY <2>5, <2>6, <1>2, <1>4
  <2> QED
    BY <1>11, <2>3, <2>4, <2>5, <2>6, <1>2, <1>4 DEF RollBack
<1>12. CASE Abort
  <2>1. CASE AbortStep("aborted", "finish", Seal("rolled_back"), TRUE,
                       [disk EXCEPT !.journal = Seal("rolled_back")])
    <3>1. /\ helper.pc = "aborted" /\ UNCHANGED core
          /\ \/ /\ disk' = [disk EXCEPT !.journal = Seal("rolled_back")]
                /\ helper' = [helper EXCEPT !.pc = "finish", !.j = Seal("rolled_back")]
             \/ UNCHANGED disk
      BY <2>1 DEF AbortStep
    <3>2. CASE /\ disk' = [disk EXCEPT !.journal = Seal("rolled_back")]
               /\ helper' = [helper EXCEPT !.pc = "finish", !.j = Seal("rolled_back")]
      BY <1>6, <3>1, <3>2, <1>5 DEF Deciding, HelperType, Disk, journal
    <3> QED
      BY <3>1, <3>2, <1>3
  <2>2. ASSUME NEW from, NEW to \in Working, NEW j, NEW can, NEW effect, AbortStep(from, to, j, can, effect)
        PROVE  UNCHANGED core /\ (helper'.pc \in Working \/ UNCHANGED disk)
    BY <1>6, <2>2 DEF AbortStep, HelperType
  <2> QED
    BY <1>12, <2>1, <2>2, <1>2, <1>3 DEF Abort
<1> QED
  BY <1>9, <1>10, <1>11, <1>12

LEMMA EndDecides ==
  ASSUME IInv, IInv', Login \/ Load \/ Finish \/ Crash
  PROVE  Decision' = Decision
<1>1. disk \in Disk /\ state \in State
  BY Parts, Typed, Files
<1>2. \/ UNCHANGED disk
      \/ \E r \in BOOLEAN : disk' = [disk EXCEPT !.runonce = r]
      \/ disk' = [disk EXCEPT !.runonce = TRUE, !.state = Promoted(state, journal)]
      \/ disk' = [disk EXCEPT !.state = Cleared]
  BY DEF Login, Load, Finish, Crash, ClearPointer, Unregister, Relaunch, Record, HelperExits
<1>3. Promoted(state, journal).phase = state.phase /\ Cleared.phase = state.phase
  BY <1>1 DEF Promoted, Cleared, State
<1>4. UNCHANGED journal /\ state' \in {state, Promoted(state, journal), Cleared}
  BY <1>1, <1>2 DEF Disk, state, journal
<1> QED
  BY <1>3, <1>4, StateKept

(* Every step of the machine is a step of the promise, or none.            *)
LEMMA StepsUpdate ==
  ASSUME IInv, IInv', [Next]_vars
  PROVE  Update!Next \/ UNCHANGED <<Decision, Runs>>
<1>1. CASE Decision' = Decision
  BY <1>1, Undecided
<1>2. CASE UNCHANGED core /\ Deciding
  <2>1. helper.pc \in Working
    BY <1>2 DEF Deciding
  <2>2. Runs' = Runs
    BY <1>2 DEF Runs
  <2>3. Decision = "open"
    BY <2>1, WorkFacts, DecisionIs
  <2>4. /\ helper.pc = "commit" => Decision' = "installed" /\ core.pc \in Out
        /\ helper.pc # "commit" => Decision' = "rolled_back"
    BY <1>2, <2>1, WorkFacts, SealType, ApplyFacts, DecisionIsNext DEF Deciding, Outcome
  <2> QED
    BY <2>2, <2>3, <2>4 DEF Update!Next, Update!Install, Update!Abandon, Runs
<1>3. CASE UNCHANGED vars
  BY <1>3, <1>1, DiskKept DEF vars
<1> QED
  BY <1>1, <1>2, <1>3, ServesDecides, HandoffDecides, StartsDecides, EndDecides, WorkDecides
  DEF Next, Helps

(* The installation is never seen half changed: the update is decided at   *)
(* most once, to the new version only while nothing runs, and what starts  *)
(* afterwards is what was decided.                                         *)
THEOREM AtomicCorrect == Spec => ImplementsAtomicUpdate
<1>1. Init => Update!Init
  BY NoneAssumption DEF Init, Update!Init, Decision, Runs, NotRunning, NoHandoff, state, journal
<1>2. IInv /\ IInv' /\ [Next]_vars => [Update!Next]_(Update!vars)
  BY StepsUpdate DEF Update!vars
<1> QED
  BY <1>1, <1>2, Invariant, PTL DEF Spec, ImplementsAtomicUpdate, Update!Spec

-----------------------------------------------------------------------------
(* The registration of the same program: AppRegistration, for any          *)
(* shortcuts, values, builds and bounds.                                   *)
CONSTANTS Builds, MaxFaults, MaxActs, MaxRemovals

VARIABLES build, temp, pc, mode, muts, todo, keyMade, failed, faults, removals

R == INSTANCE AppRegistration

(* Where a call stands says what it does.                                  *)
ModeInv ==
  /\ pc = "idle" => mode = "none"
  /\ pc \in R!Applying => mode = "apply"
  /\ pc \in R!Forwarding => mode = "forward"
  /\ pc \in R!Migrating => mode \in {"migrate", "remigrate"}
  /\ pc = "migrate" => mode = "migrate"
  /\ pc \in {"begin", "undo", "note"} => mode \in {"restore", "uninstall", "rollback"}
  /\ pc \in {"deleteKey", "close"} => mode \in {"restore", "uninstall"}

(* A shortcut is at work.                                                  *)
Publishing == {"generate", "record", "link", "unlink", "clean"}

(* What is published is among the changes m, or the upgrade journal j      *)
(* keeps it.                                                               *)
Known(j, m) == \A s \in R!Shortcuts : target[s] > 0 => s \in m \/ j.before # R!None

(* A journal has the build it is of, the journal of a compensation names   *)
(* what is left to take back, and a publication has its journal on disk.   *)
JournalInv ==
  /\ record.phase # "none" => record.build # R!None
  /\ mem.phase # "none" => mem.build # R!None
  /\ record.phase \in {"restoring", "uninstalling"} => Known(record, record.active)
  /\ mode \in {"apply", "forward"} => record.phase = "applying"

(* A key is foreign with all its values.                                   *)
KeyInv == key.mark = R!Foreign => \A n \in R!Values : key.val[n] = R!Foreign

(* What a call has in memory: what it published is in muts or keyMade, and *)
(* stays there until it is taken back; a key that was taken back is not    *)
(* there again.                                                            *)
CallInv ==
  /\ pc = "idle" => muts = {} /\ ~keyMade
  /\ pc # "idle" => mem.phase # "none"
  /\ pc \in Publishing => todo \in Seq(R!Shortcuts) \ {<<>>}
  /\ pc = "link" => Head(todo) \in muts
  /\ mode = "apply" => /\ \A s \in R!Shortcuts : target[s] > 0 => s \in muts
                       /\ mem.created => keyMade
  /\ pc \in R!Applying \ {"finish"} => ~mem.created
  /\ pc = "recoverMade" => ~mem.created
  /\ mode \in {"migrate", "rollback"} => mem.before # R!None
  /\ mode \in {"restore", "uninstall"} =>
       Known(mem, muts) /\ (mem.created /\ ~keyMade => key.mark # 1)

(* The inductive invariant.                                                *)
RegInv == R!TypeOK /\ ModeInv /\ JournalInv /\ KeyInv /\ CallInv

USE DEF R!surface, R!process, R!None, R!Foreign, R!Files, R!Applying, R!Forwarding,
        R!Migrating, R!Undoing, R!Phases, R!Goto, R!Restore, R!Reset, R!Give, Publishing

(* What every step does.                                                   *)
Kept == RegInv' /\ R!KeepsForeign /\ R!KeepsJournal

(* The shortcuts are taken in the order of the plans.                      *)
LEMMA PlansIn ==
  ASSUME R!PlansAssumption
  PROVE  Plans \in Seq(R!Shortcuts) \ {<<>>}
BY DEF R!PlansAssumption, R!Shortcuts, R!ToSet

(* A new journal has the type of a journal.                                *)
LEMMA JournalIn ==
  ASSUME NEW p \in R!Phases \cup {"none"}, NEW b \in Nat
  PROVE  /\ R!Journal(p, b) \in R!JournalType
         /\ R!Journal(p, b).phase = p /\ R!Journal(p, b).build = b
         /\ ~R!Journal(p, b).created
BY DEF R!Journal, R!JournalType, R!Phases

(* So has the absent one.                                                  *)
LEMMA NoneIn == R!NoJournal \in R!JournalType /\ R!NoJournal.phase = "none"
BY JournalIn DEF R!NoJournal

(* A step that may fail keeps the tallies; nobody else acts in it.         *)
LEMMA Paid ==
  ASSUME R!PlansAssumption, R!TallyType, NEW ok, R!Outcome(ok)
  PROVE  R!TallyType' /\ acts' = acts
BY DEF R!PlansAssumption, R!TallyType, R!Outcome

(* The values of a function.                                               *)
Image(f, S) == {f[s] : s \in S}

(* A function has at most as many values as arguments.                     *)
LEMMA ImageBound ==
  ASSUME NEW S, IsFiniteSet(S), NEW T, NEW f \in [S -> T], NEW n \in Nat, Cardinality(S) <= n
  PROVE  IsFiniteSet(Image(f, S)) /\ Cardinality(Image(f, S)) <= n
<1>1. f \in Surjection(S, Image(f, S))
  BY DEF Surjection, Image
<1>2. IsFiniteSet(Image(f, S)) /\ Cardinality(Image(f, S)) <= Cardinality(S)
  BY <1>1, FS_Surjection
<1>3. Cardinality(S) \in Nat /\ Cardinality(Image(f, S)) \in Nat
  BY <1>2, FS_CardinalityType
<1> QED
  BY <1>2, <1>3

(* Two finite sets together have at most as many elements as both.         *)
LEMMA UnionBound ==
  ASSUME NEW S, IsFiniteSet(S), NEW T, IsFiniteSet(T), NEW m \in Nat, NEW n \in Nat,
         Cardinality(S) <= m, Cardinality(T) <= n
  PROVE  IsFiniteSet(S \cup T) /\ Cardinality(S \cup T) <= m + n
<1>1. /\ IsFiniteSet(S \cup T) /\ IsFiniteSet(S \cap T)
      /\ Cardinality(S \cup T) = Cardinality(S) + Cardinality(T) - Cardinality(S \cap T)
  BY FS_Union, FS_Intersection
<1>2. /\ Cardinality(S) \in Nat /\ Cardinality(T) \in Nat
      /\ Cardinality(S \cup T) \in Nat /\ Cardinality(S \cap T) \in Nat
  BY <1>1, FS_CardinalityType
<1> QED
  BY <1>1, <1>2

(* There are at most as many shortcuts as plans.                           *)
LEMMA ShortcutsFinite ==
  ASSUME R!PlansAssumption
  PROVE  \E n \in Nat :
           n = Len(Plans) /\ IsFiniteSet(R!Shortcuts) /\ Cardinality(R!Shortcuts) <= n
<1>1. PICK n \in Nat : n = Len(Plans) /\ DOMAIN Plans = 1 .. n /\ Plans \in [1 .. n -> STRING]
  BY DEF R!PlansAssumption
<1>2. R!Shortcuts = Image(Plans, 1 .. n)
  BY <1>1 DEF R!Shortcuts, R!ToSet, Image
<1>3. IsFiniteSet(1 .. n) /\ Cardinality(1 .. n) <= n
  BY <1>1, FS_Interval
<1> QED
  BY <1>1, <1>2, <1>3, ImageBound

(* There is always an identity left for a new file: a shortcut has at most *)
(* four in use.                                                            *)
LEMMA NewFileIn ==
  ASSUME R!PlansAssumption, RegInv
  PROVE  R!NewFile \in R!Files /\ R!NewFile \in Nat
<1> DEFINE S == R!Shortcuts
           A == Image(target, S)
           B == Image(temp, S)
           C == Image(mem.ids, S)
           D == Image(record.ids, S)
           U == (A \cup B) \cup (C \cup D)
<1>1. PICK n \in Nat : n = Len(Plans) /\ IsFiniteSet(S) /\ Cardinality(S) <= n
  BY ShortcutsFinite
<1>2. /\ target \in [S -> Int] /\ temp \in [S -> Int \ {-1}]
      /\ mem.ids \in [S -> Int \ {-1}] /\ record.ids \in [S -> Int \ {-1}]
  BY DEF RegInv, R!TypeOK, R!SurfaceType, R!JournalType
<1>3. IsFiniteSet(A) /\ Cardinality(A) <= n /\ IsFiniteSet(B) /\ Cardinality(B) <= n
  BY <1>1, <1>2, ImageBound
<1>4. IsFiniteSet(C) /\ Cardinality(C) <= n /\ IsFiniteSet(D) /\ Cardinality(D) <= n
  BY <1>1, <1>2, ImageBound
<1> HIDE DEF A, B, C, D
<1>5. /\ IsFiniteSet(A \cup B) /\ Cardinality(A \cup B) <= n + n
      /\ IsFiniteSet(C \cup D) /\ Cardinality(C \cup D) <= n + n
  BY <1>3, <1>4, UnionBound
<1>6. IsFiniteSet(U) /\ Cardinality(U) <= 4 * n /\ Cardinality(U) \in Nat
  <2>1. PICK m \in Nat : m = n + n
    OBVIOUS
  <2>2. IsFiniteSet(U) /\ Cardinality(U) <= m + m
    BY <1>5, <2>1, UnionBound
  <2> QED
    BY <2>1, <2>2, FS_CardinalityType
<1> HIDE DEF U
<1>7. PICK k \in 1 .. 4 * n + 1 : k \notin U
  <2>1. Cardinality(1 .. 4 * n + 1) = 4 * n + 1
    BY <1>1, FS_Interval
  <2>2. ASSUME (1 .. 4 * n + 1) \in SUBSET U
        PROVE  Cardinality(1 .. 4 * n + 1) <= Cardinality(U)
    BY <1>6, <2>2, FS_Subset
  <2> QED
    BY <1>1, <1>6, <2>1, <2>2
<1>8. \A s \in S : k \notin {target[s], temp[s], mem.ids[s], record.ids[s]}
  BY <1>7 DEF U, A, B, C, D, Image
<1>9. R!NewFile \in 1 .. 4 * n + 1
  <2>1. \E m \in 1 .. 4 * n + 1 : \A s \in S : m \notin {target[s], temp[s], mem.ids[s], record.ids[s]}
    BY <1>7, <1>8
  <2>2. R!NewFile = CHOOSE m \in 1 .. 4 * n + 1 :
          \A s \in S : m \notin {target[s], temp[s], mem.ids[s], record.ids[s]}
    BY <1>1, Zenon DEF R!NewFile
  <2> QED
    BY <2>1, <2>2, Zenon
<1> QED
  BY <1>1, <1>9

(* The keys of the program hold no foreign value.                          *)
LEMMA OwnKeyIn ==
  ASSUME NEW b \in Nat
  PROVE  /\ R!OwnKey(b) \in [mark : {0, 1, -1}, val : [R!Values -> Int]]
         /\ R!OwnKey(b).mark = 1
         /\ \A n \in R!Values : R!OwnKey(b).val[n] \in {1, b}
BY DEF R!OwnKey, R!Desired

(* Nor does the absent one.                                                *)
LEMMA NoKeyIn ==
  /\ R!NoKey \in [mark : {0, 1, -1}, val : [R!Values -> Int]] /\ R!NoKey.mark = 0
  /\ \A n \in R!Values : R!NoKey.val[n] = 0
BY DEF R!NoKey

(* A shortcut is not a value.                                              *)
LEMMA Apart ==
  ASSUME R!PlansAssumption
  PROVE  R!Shortcuts \cap R!Values = {}
BY DEF R!PlansAssumption, R!Shortcuts, R!Values

(* A step that leaves the surface alone keeps what is foreign in it.       *)
LEMMA SurfaceKept ==
  ASSUME RegInv, UNCHANGED R!surface
  PROVE  R!SurfaceType' /\ KeyInv' /\ R!KeepsForeign
BY DEF RegInv, R!TypeOK, R!SurfaceType, KeyInv, R!KeepsForeign

(* So does one that changes a temporary,                                   *)
LEMMA TempMoves ==
  ASSUME RegInv, NEW x, NEW v \in R!Files, temp' = [temp EXCEPT ![x] = v],
         UNCHANGED <<target, key>>
  PROVE  R!SurfaceType' /\ KeyInv' /\ R!KeepsForeign
BY DEF RegInv, R!TypeOK, R!SurfaceType, KeyInv, R!KeepsForeign

(* or removes it,                                                          *)
LEMMA TempGone ==
  ASSUME RegInv, NEW s, temp' = [temp EXCEPT ![s] = 0], UNCHANGED <<target, key>>
  PROVE  R!SurfaceType' /\ KeyInv' /\ R!KeepsForeign
<1>1. PICK v \in R!Files : v = 0
  OBVIOUS
<1> QED
  BY <1>1, TempMoves

(* one that replaces a shortcut that is not foreign,                       *)
LEMMA TargetMoves ==
  ASSUME RegInv, NEW x, x \in R!Shortcuts => target[x] # R!Foreign,
         NEW v \in Int, target' = [target EXCEPT ![x] = v], UNCHANGED <<temp, key>>
  PROVE  R!SurfaceType' /\ KeyInv' /\ R!KeepsForeign
BY DEF RegInv, R!TypeOK, R!SurfaceType, KeyInv, R!KeepsForeign

(* one that makes the key where there was none,                            *)
LEMMA KeyMade ==
  ASSUME RegInv, NEW b \in Nat, key = R!NoKey, key' = R!OwnKey(b), UNCHANGED <<target, temp>>
  PROVE  R!SurfaceType' /\ KeyInv' /\ R!KeepsForeign
BY OwnKeyIn, NoKeyIn DEF RegInv, R!TypeOK, R!SurfaceType, KeyInv, R!KeepsForeign

(* one that deletes the key if it is the program's,                        *)
LEMMA KeyGone ==
  ASSUME RegInv, R!KeyDeletable, key' = R!NoKey, UNCHANGED <<target, temp>>
  PROVE  R!SurfaceType' /\ KeyInv' /\ R!KeepsForeign
<1>1. mem.build \in Nat
  BY DEF RegInv, R!TypeOK, R!JournalType
<1> QED
  BY <1>1, OwnKeyIn, NoKeyIn
     DEF RegInv, R!TypeOK, R!SurfaceType, KeyInv, R!KeepsForeign, R!KeyDeletable

(* and one that replaces a value of the program.                           *)
LEMMA ValueMoves ==
  ASSUME RegInv, NEW n \in R!Values, key.val[n] \in Nat, NEW v \in Nat,
         key' = [key EXCEPT !.val[n] = v], UNCHANGED <<target, temp>>
  PROVE  R!SurfaceType' /\ KeyInv' /\ R!KeepsForeign /\ key'.mark = key.mark
<1>1. key' \in [mark : {0, 1, -1}, val : [R!Values -> Int]] /\ key'.mark = key.mark
      /\ key'.val = [key.val EXCEPT ![n] = v]
  BY DEF RegInv, R!TypeOK, R!SurfaceType
<1> QED
  BY <1>1 DEF RegInv, R!TypeOK, R!SurfaceType, KeyInv, R!KeepsForeign

(* A step that keeps the surface's types and what is foreign in it.        *)
SurfacePart == R!SurfaceType' /\ KeyInv' /\ R!KeepsForeign

(* Taking a change back touches only what the program wrote, and what      *)
(* stays published stays to be taken back.                                 *)
LEMMA UndoMoves ==
  ASSUME R!PlansAssumption, RegInv, NEW ok \in BOOLEAN, R!Undo(ok)
  PROVE  /\ SurfacePart
         /\ \A r \in R!Shortcuts : target'[r] > 0 => target[r] > 0 /\ (r \in muts => r \in muts')
         /\ key'.mark = key.mark
<1>1. PICK n : n = Head(todo)
  OBVIOUS
<1>2. CASE ~(ok /\ R!Undoable(n))
  <2>1. UNCHANGED <<target, temp, key, muts>>
    BY <1>1, <1>2 DEF R!Undo
  <2> QED
    BY <2>1, SurfaceKept DEF SurfacePart
<1>3. CASE ok /\ R!Undoable(n) /\ n \in R!Shortcuts
  <2>1. /\ target' = [target EXCEPT ![n] = 0] /\ temp' = [temp EXCEPT ![n] = 0]
        /\ key' = key /\ muts' = muts \ {n}
    BY <1>1, <1>3, Apart DEF R!Undo, R!Without
  <2>2. target[n] # -1
    BY <1>3 DEF R!Undoable, RegInv, R!TypeOK, R!JournalType
  <2> QED
    BY <2>1, <2>2, <1>3
       DEF SurfacePart, RegInv, R!TypeOK, R!SurfaceType, KeyInv, R!KeepsForeign
<1>4. CASE ok /\ R!Undoable(n) /\ n \in R!Values
  <2>1. n \notin R!Shortcuts
    BY <1>4, Apart
  <2>2. /\ UNCHANGED <<target, temp>> /\ muts' = muts \ {n}
        /\ key' = [key EXCEPT !.val[n] = R!Prior(n)]
    BY <1>1, <1>4, <2>1 DEF R!Undo, R!Without
  <2>3. R!Prior(n) \in Nat /\ R!Desired(n, build) \in Nat
    BY DEF R!Prior, R!Desired, RegInv, R!TypeOK, R!TallyType, R!JournalType
  <2>4. key.val[n] \in {R!Prior(n), R!Desired(n, build)}
    BY <1>4, <2>1 DEF R!Undoable
  <2>5. SurfacePart /\ key'.mark = key.mark
    BY <1>4, <2>2, <2>3, <2>4, ValueMoves DEF SurfacePart
  <2> QED
    BY <2>1, <2>2, <2>5
<1>5. CASE ok /\ R!Undoable(n) /\ n \notin R!Shortcuts /\ n \notin R!Values
  <2>1. UNCHANGED <<target, temp, key>> /\ muts' = muts \ {n}
    BY <1>1, <1>5 DEF R!Undo, R!Without
  <2> QED
    BY <2>1, <1>5, SurfaceKept DEF SurfacePart
<1> QED
  BY <1>2, <1>3, <1>4, <1>5

(* Others publish nothing in the program's name.                           *)
LEMMA ElsewhereMoves ==
  ASSUME RegInv, R!Elsewhere
  PROVE  /\ R!SurfaceType' /\ KeyInv'
         /\ \A r \in R!Shortcuts : target'[r] > 0 => target[r] > 0
         /\ key'.mark = 1 => key.mark = 1
         /\ UNCHANGED <<record, pc, mode, mem, muts, todo, keyMade, failed>>
<1>1. UNCHANGED <<temp, record, pc, mode, mem, muts, todo, keyMade, failed>>
  BY DEF R!Elsewhere
<1>2. ASSUME NEW s \in R!Shortcuts, NEW f \in {0, -1},
             target' = [target EXCEPT ![s] = f], UNCHANGED key
      PROVE  /\ R!SurfaceType' /\ KeyInv'
             /\ \A r \in R!Shortcuts : target'[r] > 0 => target[r] > 0
  BY <1>1, <1>2 DEF RegInv, R!TypeOK, R!SurfaceType, KeyInv
<1>3. ASSUME NEW n \in R!Values, key.mark = 1, key' = [key EXCEPT !.val[n] = -1], UNCHANGED target
      PROVE  R!SurfaceType' /\ KeyInv'
  <2>1. key' \in [mark : {0, 1, -1}, val : [R!Values -> Int]] /\ key'.mark = key.mark
    BY <1>3 DEF RegInv, R!TypeOK, R!SurfaceType
  <2> QED
    BY <1>1, <1>3, <2>1 DEF RegInv, R!TypeOK, R!SurfaceType, KeyInv
<1>4. ASSUME key' = IF key = R!NoKey THEN R!ForeignKey ELSE R!NoKey, UNCHANGED target
      PROVE  R!SurfaceType' /\ KeyInv' /\ key'.mark # 1
  BY <1>1, <1>4 DEF RegInv, R!TypeOK, R!SurfaceType, KeyInv, R!NoKey, R!ForeignKey
<1>5. \/ \E s \in R!Shortcuts : \E f \in {0, -1} : target' = [target EXCEPT ![s] = f] /\ UNCHANGED key
      \/ \E n \in R!Values : key.mark = 1 /\ key' = [key EXCEPT !.val[n] = -1] /\ UNCHANGED target
      \/ key' = (IF key = R!NoKey THEN R!ForeignKey ELSE R!NoKey) /\ UNCHANGED target
  BY DEF R!Elsewhere
<1> QED
  BY <1>1, <1>2, <1>3, <1>4, <1>5

(* Journal j ends the transaction of journal m.                            *)
InstalledAs(j, m) ==
  j \in R!JournalType /\ j.phase = "installed" /\ j.build = m.build

(* The journal of a finished transaction.                                  *)
LEMMA InstalledIn ==
  ASSUME NEW m \in R!JournalType
  PROVE  InstalledAs([m EXCEPT !.phase = "installed", !.active = R!Names], m)
BY DEF InstalledAs, R!JournalType

(* What Persist(ok, p, a, j) does.                                         *)
Written(ok, p, a, j) ==
  /\ mem' \in R!JournalType /\ record' \in R!JournalType
  /\ mem'.ids = j.ids /\ mem'.native = j.native /\ mem'.created = j.created
  /\ mem'.build = j.build /\ mem'.before = j.before
  /\ ok => mem'.phase = p /\ mem'.active = a /\ record' = mem'
  /\ ~ok => mem' = j /\ record' = record

(* Writing the journal changes its phase and its active changes only; a    *)
(* write that fails leaves the memory ahead of the disk.                   *)
LEMMA PersistWrites ==
  ASSUME NEW ok \in BOOLEAN, NEW p \in R!Phases,
         NEW a \in SUBSET R!Names, NEW j \in R!JournalType,
         record \in R!JournalType, R!Persist(ok, p, a, j)
  PROVE  Written(ok, p, a, j)
<1>1. [j EXCEPT !.phase = p, !.active = a] \in R!JournalType
  BY DEF R!JournalType
<1>2. CASE ok
  BY <1>1, <1>2 DEF R!Persist, Written, R!JournalType
<1>3. CASE ~ok
  BY <1>3 DEF R!Persist, Written, R!JournalType
<1> QED
  BY <1>2, <1>3

-----------------------------------------------------------------------------
(* The first installation.                                                 *)

(* The first installation finds the surface empty and writes its journal.  *)
LEMMA StartFreshStep ==
  ASSUME R!PlansAssumption, RegInv, pc = "idle", R!StartFresh,
         UNCHANGED <<build, R!surface, faults, acts, removals>>
  PROVE  Kept
<1>f. /\ mem' \in R!JournalType /\ record' = mem' /\ mem'.phase = "applying" /\ mem'.build # 0
      /\ ~mem'.created /\ \A r \in R!Shortcuts : target'[r] = 0
  BY JournalIn DEF R!StartFresh, RegInv, R!TypeOK, R!TallyType
<1>1. R!TallyType'
  BY DEF R!StartFresh, RegInv, R!TypeOK, R!TallyType
<1>2. R!SurfaceType' /\ KeyInv' /\ R!KeepsForeign
  BY SurfaceKept DEF R!StartFresh
<1>3. R!CallType' /\ ModeInv'
  BY DEF R!StartFresh, RegInv, R!TypeOK, R!CallType, ModeInv
<1>4. record' \in R!JournalType /\ mem' \in R!JournalType
  BY JournalIn DEF R!StartFresh, RegInv, R!TypeOK, R!TallyType
<1>5. JournalInv'
  BY <1>f DEF R!StartFresh, JournalInv, Known
<1>6. CallInv'
  BY <1>f, PlansIn DEF R!StartFresh, CallInv
<1>7. R!KeepsJournal
  BY NoneIn
     DEF R!StartFresh, RegInv, R!TypeOK, R!JournalType, ModeInv, CallInv,
         R!KeepsJournal, Known
<1> QED
  BY <1>1, <1>2, <1>3, <1>4, <1>5, <1>6, <1>7 DEF Kept, RegInv, R!TypeOK

(* A new file is no foreign one.                                           *)
LEMMA GenerateStep ==
  ASSUME R!PlansAssumption, RegInv, NEW ok \in BOOLEAN, R!Generate(ok)
  PROVE  Kept
<1>1. R!TallyType'
  BY Paid DEF R!Generate, RegInv, R!TypeOK
<1>2. R!SurfaceType' /\ KeyInv' /\ R!KeepsForeign
  BY NewFileIn, TempMoves, SurfaceKept DEF R!Generate
<1>3. R!CallType' /\ ModeInv'
  BY DEF R!Generate, RegInv, R!TypeOK, R!CallType, ModeInv
<1>4. record' \in R!JournalType /\ mem' \in R!JournalType
  BY NoneIn DEF R!Generate, RegInv, R!TypeOK, R!JournalType
<1>5. JournalInv'
  BY <1>2, <1>4, NoneIn
     DEF R!Generate, RegInv, R!TypeOK, R!JournalType, R!SurfaceType, R!CallType,
         ModeInv, JournalInv, CallInv, Known
<1>6. CallInv'
  BY <1>2, <1>3, <1>4, NoneIn
     DEF R!Generate, RegInv, R!TypeOK, R!JournalType, R!SurfaceType, R!CallType,
         ModeInv, JournalInv, CallInv, Known
<1>7. R!KeepsJournal
  BY NoneIn
     DEF R!Generate, RegInv, R!TypeOK, R!JournalType, ModeInv, CallInv, R!KeepsJournal,
         Known
<1> QED
  BY <1>1, <1>2, <1>3, <1>4, <1>5, <1>6, <1>7 DEF Kept, RegInv, R!TypeOK

(* A target that has appeared meanwhile stops the call before the journal  *)
(* is touched.                                                             *)
LEMMA RecordRefusedStep ==
  ASSUME R!PlansAssumption, RegInv, NEW ok \in BOOLEAN, R!Record(ok), pc' = "clean",
         UNCHANGED <<record, mem, muts>>
  PROVE  Kept
<1>1. R!TallyType'
  BY Paid DEF R!Record, RegInv, R!TypeOK
<1>2. R!SurfaceType' /\ KeyInv' /\ R!KeepsForeign
  BY SurfaceKept DEF R!Record
<1>g. /\ pc = "record" /\ UNCHANGED <<mode, todo, failed, keyMade, target, temp, key>>
      /\ UNCHANGED <<build, acts, removals>>
  BY DEF R!Record, R!Goto, R!Outcome, R!surface
<1>3. R!CallType' /\ ModeInv'
  BY <1>g DEF RegInv, R!TypeOK, R!CallType, ModeInv
<1>4. record' \in R!JournalType /\ mem' \in R!JournalType
  BY DEF RegInv, R!TypeOK, R!JournalType
<1>5. JournalInv'
  BY <1>2, <1>4, <1>g, NoneIn
     DEF RegInv, R!TypeOK, R!JournalType, R!SurfaceType, R!CallType, ModeInv, JournalInv,
         CallInv, Known
<1>6. CallInv'
  BY <1>2, <1>3, <1>4, <1>g, NoneIn
     DEF RegInv, R!TypeOK, R!JournalType, R!SurfaceType, R!CallType, ModeInv, JournalInv,
         CallInv, Known
<1>7. R!KeepsJournal
  BY <1>g, NoneIn
     DEF RegInv, R!TypeOK, R!JournalType, ModeInv, CallInv, R!KeepsJournal, Known
<1> QED
  BY <1>1, <1>2, <1>3, <1>4, <1>5, <1>6, <1>7 DEF Kept, RegInv, R!TypeOK

(* The journal has the shortcut before it is published.                    *)
LEMMA RecordedStep ==
  ASSUME R!PlansAssumption, RegInv, NEW ok \in BOOLEAN, R!Record(ok), target[Head(todo)] = R!None
  PROVE  Kept
<1>h. Head(todo) \in R!Shortcuts
  BY DEF RegInv, CallInv, R!Record
<1> DEFINE j == [mem EXCEPT !.ids[Head(todo)] = temp[Head(todo)]]
<1>j. /\ j \in R!JournalType /\ j.phase = mem.phase
      /\ j.native = mem.native /\ j.created = mem.created /\ j.build = mem.build
      /\ j.before = mem.before
  BY <1>h DEF RegInv, R!TypeOK, R!JournalType, R!SurfaceType
<1>p. R!Persist(ok, "applying", mem.active \cup {Head(todo)}, j)
  BY DEF R!Record
<1>a. mem.active \cup {Head(todo)} \in SUBSET R!Names
  BY <1>h DEF RegInv, R!TypeOK, R!CallType, R!JournalType, R!Names
<1> HIDE DEF j
<1>0. Written(ok, "applying", mem.active \cup {Head(todo)}, j)
  BY <1>j, <1>p, <1>a, PersistWrites DEF RegInv, R!TypeOK
<1>1. R!TallyType'
  BY Paid DEF R!Record, RegInv, R!TypeOK
<1>2. R!SurfaceType' /\ KeyInv' /\ R!KeepsForeign
  BY SurfaceKept DEF R!Record
<1>3. R!CallType' /\ ModeInv'
  BY <1>h DEF R!Record, RegInv, R!TypeOK, R!CallType, ModeInv, R!Names
<1>4. record' \in R!JournalType /\ mem' \in R!JournalType
  BY <1>0 DEF Written
<1>5. JournalInv'
  <2>1. CASE ok
    BY <2>1, <1>0, <1>j, <1>2, <1>4
       DEF R!Record, Written, RegInv, R!TypeOK, R!JournalType, R!SurfaceType,
           R!CallType, ModeInv, JournalInv, CallInv, Known
  <2>2. CASE ~ok
    BY <2>2, <1>0, <1>j, <1>2, <1>4
       DEF R!Record, Written, RegInv, R!TypeOK, R!JournalType, R!SurfaceType,
           R!CallType, ModeInv, JournalInv, CallInv, Known
  <2> QED
    BY <2>1, <2>2
<1>6. CallInv'
  <2>1. CASE ok
    BY <2>1, <1>0, <1>j, <1>2, <1>3, <1>4
       DEF R!Record, Written, RegInv, R!TypeOK, R!JournalType, R!SurfaceType,
           R!CallType, ModeInv, JournalInv, CallInv, Known
  <2>2. CASE ~ok
    BY <2>2, <1>0, <1>j, <1>2, <1>3, <1>4
       DEF R!Record, Written, RegInv, R!TypeOK, R!JournalType, R!SurfaceType,
           R!CallType, ModeInv, JournalInv, CallInv, Known
  <2> QED
    BY <2>1, <2>2
<1>7. R!KeepsJournal
  BY <1>0, NoneIn
     DEF R!Record, Written, RegInv, R!TypeOK, R!JournalType, ModeInv, CallInv,
         R!KeepsJournal, Known
<1> QED
  BY <1>1, <1>2, <1>3, <1>4, <1>5, <1>6, <1>7 DEF Kept, RegInv, R!TypeOK

LEMMA RecordStep ==
  ASSUME R!PlansAssumption, RegInv, NEW ok \in BOOLEAN, R!Record(ok)
  PROVE  Kept
<1>1. CASE target[Head(todo)] # R!None
  <2>1. pc' = "clean" /\ UNCHANGED <<record, mem, muts>>
    BY <1>1 DEF R!Record, R!Goto
  <2> QED
    BY <2>1, RecordRefusedStep
<1> QED
  BY <1>1, RecordedStep

(* A shortcut is published only where nothing was, and is known by then.   *)
LEMMA LinkStep ==
  ASSUME R!PlansAssumption, RegInv, NEW ok \in BOOLEAN, R!Link(ok)
  PROVE  Kept
<1>s. PICK s : s = Head(todo)
  OBVIOUS
<1>h. s \in R!Shortcuts /\ s \in muts
  BY <1>s DEF RegInv, CallInv, R!Link
<1>l. \/ ok /\ target[s] = 0 /\ target' = [target EXCEPT ![s] = temp[s]] /\ UNCHANGED <<temp, key>>
      \/ UNCHANGED <<target, temp, key>>
  BY <1>s DEF R!Link
<1>1. R!TallyType'
  BY Paid DEF R!Link, RegInv, R!TypeOK
<1>2. R!SurfaceType' /\ KeyInv' /\ R!KeepsForeign
  <2>1. target[s] \in Int /\ temp[s] \in Int
    BY <1>h DEF RegInv, R!TypeOK, R!SurfaceType
  <2> QED
    BY <1>l, <2>1, TargetMoves, SurfaceKept
<1>3. R!CallType' /\ ModeInv'
  BY DEF R!Link, RegInv, R!TypeOK, R!CallType, ModeInv
<1>4. record' \in R!JournalType /\ mem' \in R!JournalType
  BY NoneIn DEF R!Link, RegInv, R!TypeOK, R!JournalType
<1>5. JournalInv'
  BY <1>2, <1>4, NoneIn
     DEF R!Link, RegInv, R!TypeOK, R!JournalType, R!SurfaceType, R!CallType, ModeInv,
         JournalInv, CallInv, Known
<1>6. CallInv'
  <2>1. \A r \in R!Shortcuts : target'[r] > 0 => target[r] > 0 \/ r \in muts
    BY <1>h, <1>l DEF RegInv, R!TypeOK, R!SurfaceType
  <2> QED
    BY <1>3, <1>4, <2>1
       DEF R!Link, RegInv, R!TypeOK, R!JournalType, R!SurfaceType, R!CallType, ModeInv,
           JournalInv, CallInv, Known
<1>7. R!KeepsJournal
  BY NoneIn
     DEF R!Link, RegInv, R!TypeOK, R!JournalType, ModeInv, CallInv, R!KeepsJournal,
         Known
<1> QED
  BY <1>1, <1>2, <1>3, <1>4, <1>5, <1>6, <1>7 DEF Kept, RegInv, R!TypeOK

(* The temporary goes, and the next shortcut is taken.                     *)
LEMMA UnlinkStep ==
  ASSUME R!PlansAssumption, RegInv, NEW ok \in BOOLEAN, R!Unlink(ok)
  PROVE  Kept
<1>t. Tail(todo) \in Seq(R!Shortcuts)
  BY DEF R!Unlink, RegInv, CallInv
<1>1. R!TallyType'
  BY Paid DEF R!Unlink, RegInv, R!TypeOK
<1>s. PICK s : s = Head(todo)
  OBVIOUS
<1>2. R!SurfaceType' /\ KeyInv' /\ R!KeepsForeign
  <2>1. (temp' = [temp EXCEPT ![s] = 0] \/ UNCHANGED temp) /\ UNCHANGED <<target, key>>
    BY <1>s DEF R!Unlink
  <2> QED
    BY <2>1, TempGone, SurfaceKept
<1>3. R!CallType' /\ ModeInv'
  BY DEF R!Unlink, RegInv, R!TypeOK, R!CallType, ModeInv
<1>4. record' \in R!JournalType /\ mem' \in R!JournalType
  BY NoneIn DEF R!Unlink, RegInv, R!TypeOK, R!JournalType
<1>5. JournalInv'
  BY <1>2, <1>4, NoneIn
     DEF R!Unlink, RegInv, R!TypeOK, R!JournalType, R!SurfaceType, R!CallType, ModeInv,
         JournalInv, CallInv, Known
<1>6. CallInv'
  <2>1. CASE ~ok
    BY <2>1, <1>3, <1>4
       DEF R!Unlink, RegInv, R!TypeOK, R!JournalType, R!SurfaceType, R!CallType,
           ModeInv, JournalInv, CallInv, Known
  <2>2. CASE ok /\ target[Head(todo)] # mem.ids[Head(todo)]
    BY <2>2, <1>3, <1>4
       DEF R!Unlink, RegInv, R!TypeOK, R!JournalType, R!SurfaceType, R!CallType,
           ModeInv, JournalInv, CallInv, Known
  <2>3. CASE ok /\ target[Head(todo)] = mem.ids[Head(todo)]
    BY <2>3, <1>t, <1>3, <1>4
       DEF R!Unlink, RegInv, R!TypeOK, R!JournalType, R!SurfaceType, R!CallType,
           ModeInv, JournalInv, CallInv, Known
  <2> QED
    BY <2>1, <2>2, <2>3
<1>7. R!KeepsJournal
  BY NoneIn
     DEF R!Unlink, RegInv, R!TypeOK, R!JournalType, ModeInv, CallInv, R!KeepsJournal,
         Known
<1> QED
  BY <1>1, <1>2, <1>3, <1>4, <1>5, <1>6, <1>7 DEF Kept, RegInv, R!TypeOK

(* The temporary of a shortcut that failed goes.                           *)
LEMMA CleanStep ==
  ASSUME R!PlansAssumption, RegInv, NEW ok \in BOOLEAN, R!Clean(ok)
  PROVE  Kept
<1>s. PICK s : s = Head(todo)
  OBVIOUS
<1>1. R!TallyType'
  BY Paid DEF R!Clean, RegInv, R!TypeOK
<1>2. R!SurfaceType' /\ KeyInv' /\ R!KeepsForeign
  <2>1. (temp' = [temp EXCEPT ![s] = 0] \/ UNCHANGED temp) /\ UNCHANGED <<target, key>>
    BY <1>s DEF R!Clean
  <2> QED
    BY <2>1, TempGone, SurfaceKept
<1>3. R!CallType' /\ ModeInv'
  BY DEF R!Clean, RegInv, R!TypeOK, R!CallType, ModeInv
<1>4. record' \in R!JournalType /\ mem' \in R!JournalType
  BY NoneIn DEF R!Clean, RegInv, R!TypeOK, R!JournalType
<1>5. JournalInv'
  BY <1>2, <1>4, NoneIn
     DEF R!Clean, RegInv, R!TypeOK, R!JournalType, R!SurfaceType, R!CallType, ModeInv,
         JournalInv, CallInv, Known
<1>6. CallInv'
  BY <1>2, <1>3, <1>4, NoneIn
     DEF R!Clean, RegInv, R!TypeOK, R!JournalType, R!SurfaceType, R!CallType, ModeInv,
         JournalInv, CallInv, Known
<1>7. R!KeepsJournal
  BY NoneIn
     DEF R!Clean, RegInv, R!TypeOK, R!JournalType, ModeInv, CallInv, R!KeepsJournal,
         Known
<1> QED
  BY <1>1, <1>2, <1>3, <1>4, <1>5, <1>6, <1>7 DEF Kept, RegInv, R!TypeOK

(* The key is staged in the journal.                                       *)
LEMMA StageStep ==
  ASSUME R!PlansAssumption, RegInv, NEW ok \in BOOLEAN, R!Stage(ok)
  PROVE  Kept
<1> DEFINE j == [mem EXCEPT !.native = TRUE]
<1>j. /\ j \in R!JournalType /\ j.phase = mem.phase
      /\ j.ids = mem.ids /\ j.created = mem.created /\ j.build = mem.build
      /\ j.before = mem.before /\ j.native = TRUE
  BY DEF RegInv, R!TypeOK, R!JournalType, R!SurfaceType, R!Values
<1>p. R!Persist(ok, "applying", mem.active \cup {"DisplayName"}, j)
  BY DEF R!Stage
<1>a. mem.active \cup {"DisplayName"} \in SUBSET R!Names
  BY DEF RegInv, R!TypeOK, R!CallType, R!JournalType, R!Names, R!Values
<1> HIDE DEF j
<1>0. Written(ok, "applying", mem.active \cup {"DisplayName"}, j)
  BY <1>j, <1>p, <1>a, PersistWrites DEF RegInv, R!TypeOK
<1>1. R!TallyType'
  BY Paid DEF R!Stage, RegInv, R!TypeOK
<1>2. R!SurfaceType' /\ KeyInv' /\ R!KeepsForeign
  BY SurfaceKept DEF R!Stage
<1>3. R!CallType' /\ ModeInv'
  BY DEF R!Stage, RegInv, R!TypeOK, R!CallType, ModeInv
<1>4. record' \in R!JournalType /\ mem' \in R!JournalType
  BY <1>0 DEF Written
<1>5. JournalInv'
  <2>1. CASE ok
    BY <2>1, <1>0, <1>j, <1>2, <1>4
       DEF R!Stage, Written, RegInv, R!TypeOK, R!JournalType, R!SurfaceType,
           R!CallType, ModeInv, JournalInv, CallInv, Known
  <2>2. CASE ~ok
    BY <2>2, <1>0, <1>j, <1>2, <1>4
       DEF R!Stage, Written, RegInv, R!TypeOK, R!JournalType, R!SurfaceType,
           R!CallType, ModeInv, JournalInv, CallInv, Known
  <2> QED
    BY <2>1, <2>2
<1>6. CallInv'
  <2>1. CASE ok
    BY <2>1, <1>0, <1>j, <1>2, <1>3, <1>4
       DEF R!Stage, Written, RegInv, R!TypeOK, R!JournalType, R!SurfaceType,
           R!CallType, ModeInv, JournalInv, CallInv, Known
  <2>2. CASE ~ok
    BY <2>2, <1>0, <1>j, <1>2, <1>3, <1>4
       DEF R!Stage, Written, RegInv, R!TypeOK, R!JournalType, R!SurfaceType,
           R!CallType, ModeInv, JournalInv, CallInv, Known
  <2> QED
    BY <2>1, <2>2
<1>7. R!KeepsJournal
  BY <1>0, NoneIn
     DEF R!Stage, Written, RegInv, R!TypeOK, R!JournalType, ModeInv, CallInv,
         R!KeepsJournal, Known
<1> QED
  BY <1>1, <1>2, <1>3, <1>4, <1>5, <1>6, <1>7 DEF Kept, RegInv, R!TypeOK

(* The key is made only where none was.                                    *)
LEMMA PublishStep ==
  ASSUME R!PlansAssumption, RegInv, NEW ok \in BOOLEAN, R!Publish(ok)
  PROVE  Kept
<1>1. R!TallyType'
  BY Paid DEF R!Publish, RegInv, R!TypeOK
<1>2. R!SurfaceType' /\ KeyInv' /\ R!KeepsForeign
  <2>1. CASE ok /\ key = R!NoKey
    BY <2>1, KeyMade DEF R!Publish, RegInv, R!TypeOK, R!JournalType
  <2>2. CASE ~(ok /\ key = R!NoKey)
    BY <2>2, SurfaceKept DEF R!Publish
  <2> QED
    BY <2>1, <2>2
<1>3. R!CallType' /\ ModeInv'
  BY DEF R!Publish, RegInv, R!TypeOK, R!CallType, ModeInv
<1>4. record' \in R!JournalType /\ mem' \in R!JournalType
  BY NoneIn DEF R!Publish, RegInv, R!TypeOK, R!JournalType
<1>5. JournalInv'
  BY <1>2, <1>4, NoneIn
     DEF R!Publish, RegInv, R!TypeOK, R!JournalType, R!SurfaceType, R!CallType,
         ModeInv, JournalInv, CallInv, Known
<1>6. CallInv'
  BY <1>2, <1>3, <1>4, NoneIn
     DEF R!Publish, RegInv, R!TypeOK, R!JournalType, R!SurfaceType, R!CallType,
         ModeInv, JournalInv, CallInv, Known
<1>7. R!KeepsJournal
  BY NoneIn
     DEF R!Publish, RegInv, R!TypeOK, R!JournalType, ModeInv, CallInv, R!KeepsJournal,
         Known
<1> QED
  BY <1>1, <1>2, <1>3, <1>4, <1>5, <1>6, <1>7 DEF Kept, RegInv, R!TypeOK

(* A key that was made is remembered, in memory if not on disk.            *)
LEMMA MadeStep ==
  ASSUME R!PlansAssumption, RegInv, NEW ok \in BOOLEAN, R!Made(ok)
  PROVE  Kept
<1> DEFINE j == [mem EXCEPT !.created = TRUE]
<1>j. /\ j \in R!JournalType /\ j.phase = mem.phase
      /\ j.ids = mem.ids /\ j.native = mem.native /\ j.build = mem.build
      /\ j.before = mem.before /\ j.created = TRUE
  BY DEF RegInv, R!TypeOK, R!JournalType, R!SurfaceType
<1>p. key = R!OwnKey(mem.build) => R!Persist(ok, "applying", mem.active, j)
  BY DEF R!Made
<1>a. mem.active \in SUBSET R!Names
  BY DEF RegInv, R!TypeOK, R!CallType, R!JournalType, R!Names
<1> HIDE DEF j
<1>0. key = R!OwnKey(mem.build) => Written(ok, "applying", mem.active, j)
  BY <1>j, <1>p, <1>a, PersistWrites DEF RegInv, R!TypeOK
<1>1. R!TallyType'
  BY Paid DEF R!Made, RegInv, R!TypeOK
<1>2. R!SurfaceType' /\ KeyInv' /\ R!KeepsForeign
  BY SurfaceKept DEF R!Made
<1>3. R!CallType' /\ ModeInv'
  BY DEF R!Made, RegInv, R!TypeOK, R!CallType, ModeInv
<1>4. record' \in R!JournalType /\ mem' \in R!JournalType
  <2>1. CASE key = R!OwnKey(mem.build)
    BY <2>1, <1>0, <1>j DEF R!Made, Written, RegInv, R!TypeOK
  <2>2. CASE key # R!OwnKey(mem.build)
    BY <2>2, NoneIn DEF R!Made, RegInv, R!TypeOK
  <2> QED
    BY <2>1, <2>2
<1>5. JournalInv'
  <2>1. CASE key = R!OwnKey(mem.build)
    BY <2>1, <1>0, <1>j, <1>2, <1>3, <1>4
       DEF R!Made, Written, RegInv, R!TypeOK, R!JournalType, R!SurfaceType, R!CallType,
           ModeInv, JournalInv, CallInv, Known
  <2>2. CASE key # R!OwnKey(mem.build)
    BY <2>2, NoneIn, <1>2, <1>3, <1>4
       DEF R!Made, RegInv, R!TypeOK, R!JournalType, R!SurfaceType, R!CallType, ModeInv,
           JournalInv, CallInv, Known
  <2> QED
    BY <2>1, <2>2
<1>6. CallInv'
  <2>1. CASE key = R!OwnKey(mem.build)
    BY <2>1, <1>0, <1>j, <1>2, <1>3, <1>4
       DEF R!Made, Written, RegInv, R!TypeOK, R!JournalType, R!SurfaceType, R!CallType,
           ModeInv, JournalInv, CallInv, Known
  <2>2. CASE key # R!OwnKey(mem.build)
    BY <2>2, NoneIn, <1>2, <1>3, <1>4
       DEF R!Made, RegInv, R!TypeOK, R!JournalType, R!SurfaceType, R!CallType, ModeInv,
           JournalInv, CallInv, Known
  <2> QED
    BY <2>1, <2>2
<1>7. R!KeepsJournal
  <2>1. CASE key = R!OwnKey(mem.build)
    BY <2>1, <1>0, <1>j
       DEF R!Made, Written, RegInv, ModeInv, CallInv, R!KeepsJournal, R!NoJournal,
           R!Journal
  <2>2. CASE key # R!OwnKey(mem.build)
    BY <2>2, NoneIn
       DEF R!Made, RegInv, ModeInv, CallInv, R!KeepsJournal, R!NoJournal, R!Journal
  <2> QED
    BY <2>1, <2>2
<1> QED
  BY <1>1, <1>2, <1>3, <1>4, <1>5, <1>6, <1>7 DEF Kept, RegInv, R!TypeOK

(* The journal of a finished installation names everything.                *)
LEMMA FinishStep ==
  ASSUME R!PlansAssumption, RegInv, NEW ok \in BOOLEAN, R!Finish(ok)
  PROVE  Kept
<1>i. ok => InstalledAs(record', mem)
  BY InstalledIn DEF R!Finish, RegInv, R!TypeOK
<1>1. R!TallyType'
  BY Paid DEF R!Finish, RegInv, R!TypeOK
<1>2. R!SurfaceType' /\ KeyInv' /\ R!KeepsForeign
  BY SurfaceKept DEF R!Finish
<1>3. R!CallType' /\ ModeInv'
  BY DEF R!Finish, RegInv, R!TypeOK, R!CallType, ModeInv
<1>4. record' \in R!JournalType /\ mem' \in R!JournalType
  BY <1>i, NoneIn DEF R!Finish, InstalledAs, RegInv, R!TypeOK
<1>5. JournalInv'
  <2>1. CASE ok
    BY <2>1, <1>i, <1>2, <1>4, NoneIn
       DEF R!Finish, InstalledAs, RegInv, ModeInv, JournalInv, CallInv, Known
  <2>2. CASE ~ok
    BY <2>2, <1>i, <1>2, <1>4, NoneIn
       DEF R!Finish, InstalledAs, RegInv, ModeInv, JournalInv, CallInv, Known
  <2> QED
    BY <2>1, <2>2
<1>6. CallInv'
  BY <1>2, <1>3, <1>4, NoneIn
     DEF R!Finish, RegInv, R!TypeOK, R!JournalType, R!SurfaceType, R!CallType, ModeInv,
         JournalInv, CallInv, Known
<1>7. R!KeepsJournal
  <2>1. CASE ok
    BY <2>1, <1>i, NoneIn DEF R!Finish, InstalledAs, R!KeepsJournal
  <2>2. CASE ~ok
    BY <2>2, <1>i, NoneIn DEF R!Finish, InstalledAs, R!KeepsJournal
  <2> QED
    BY <2>1, <2>2
<1> QED
  BY <1>1, <1>2, <1>3, <1>4, <1>5, <1>6, <1>7 DEF Kept, RegInv, R!TypeOK

-----------------------------------------------------------------------------
(* Forward recovery.                                                       *)

(* An interrupted first installation goes forward.                         *)
LEMMA ResumeApplyingStep ==
  ASSUME R!PlansAssumption, RegInv, pc = "idle", R!ResumeApplying,
         UNCHANGED <<build, R!surface, faults, acts, removals>>
  PROVE  Kept
<1>1. R!TallyType'
  BY DEF R!ResumeApplying, RegInv, R!TypeOK, R!TallyType
<1>2. R!SurfaceType' /\ KeyInv' /\ R!KeepsForeign
  BY SurfaceKept DEF R!ResumeApplying
<1>3. R!CallType' /\ ModeInv'
  BY DEF R!ResumeApplying, RegInv, R!TypeOK, R!CallType, ModeInv, R!JournalType
<1>4. record' \in R!JournalType /\ mem' \in R!JournalType
  BY NoneIn DEF R!ResumeApplying, RegInv, R!TypeOK, R!JournalType
<1>5. JournalInv'
  BY <1>2, <1>4, NoneIn
     DEF R!ResumeApplying, RegInv, R!TypeOK, R!JournalType, R!SurfaceType, R!CallType,
         ModeInv, JournalInv, CallInv, Known
<1>6. CallInv'
  BY <1>2, <1>3, <1>4, NoneIn
     DEF R!ResumeApplying, RegInv, R!TypeOK, R!JournalType, R!SurfaceType, R!CallType,
         ModeInv, JournalInv, CallInv, Known
<1>7. R!KeepsJournal
  BY NoneIn
     DEF R!ResumeApplying, RegInv, R!TypeOK, R!JournalType, ModeInv, CallInv,
         R!KeepsJournal, Known
<1> QED
  BY <1>1, <1>2, <1>3, <1>4, <1>5, <1>6, <1>7 DEF Kept, RegInv, R!TypeOK

(* Recovery makes the key only where none was.                             *)
LEMMA RecoverKeyStep ==
  ASSUME R!PlansAssumption, RegInv, R!RecoverKey
  PROVE  Kept
<1>1. R!TallyType'
  BY Paid DEF R!RecoverKey, RegInv, R!TypeOK
<1>2. R!SurfaceType' /\ KeyInv' /\ R!KeepsForeign
  <2>1. CASE ~mem.created /\ key = R!NoKey
    BY <2>1, KeyMade, SurfaceKept DEF R!RecoverKey, RegInv, R!TypeOK, R!JournalType
  <2>2. CASE ~(~mem.created /\ key = R!NoKey)
    BY <2>2, SurfaceKept DEF R!RecoverKey
  <2> QED
    BY <2>1, <2>2
<1>3. R!CallType' /\ ModeInv'
  BY DEF R!RecoverKey, RegInv, R!TypeOK, R!CallType, ModeInv
<1>4. record' \in R!JournalType /\ mem' \in R!JournalType
  BY NoneIn DEF R!RecoverKey, RegInv, R!TypeOK, R!JournalType
<1>5. JournalInv'
  BY <1>2, <1>4, NoneIn
     DEF R!RecoverKey, RegInv, R!TypeOK, R!JournalType, R!SurfaceType, R!CallType,
         ModeInv, JournalInv, CallInv, Known
<1>6. CallInv'
  BY <1>2, <1>3, <1>4, NoneIn
     DEF R!RecoverKey, RegInv, R!TypeOK, R!JournalType, R!SurfaceType, R!CallType,
         ModeInv, JournalInv, CallInv, Known
<1>7. R!KeepsJournal
  BY NoneIn
     DEF R!RecoverKey, RegInv, R!TypeOK, R!JournalType, ModeInv, CallInv,
         R!KeepsJournal, Known
<1> QED
  BY <1>1, <1>2, <1>3, <1>4, <1>5, <1>6, <1>7 DEF Kept, RegInv, R!TypeOK

(* Recovery records the key it made.                                       *)
LEMMA RecoverMadeStep ==
  ASSUME R!PlansAssumption, RegInv, R!RecoverMade
  PROVE  Kept
<1> DEFINE j == [mem EXCEPT !.created = TRUE]
<1>j. /\ j \in R!JournalType /\ j.phase = mem.phase
      /\ j.ids = mem.ids /\ j.native = mem.native /\ j.build = mem.build
      /\ j.before = mem.before /\ j.created = TRUE
  BY DEF RegInv, R!TypeOK, R!JournalType, R!SurfaceType
<1>p. key = R!OwnKey(mem.build) => R!Persist(TRUE, "applying", mem.active, j)
  BY DEF R!RecoverMade
<1>a. mem.active \in SUBSET R!Names
  BY DEF RegInv, R!TypeOK, R!CallType, R!JournalType, R!Names
<1> HIDE DEF j
<1>0. key = R!OwnKey(mem.build) => Written(TRUE, "applying", mem.active, j)
  BY <1>j, <1>p, <1>a, PersistWrites DEF RegInv, R!TypeOK
<1>1. R!TallyType'
  BY Paid DEF R!RecoverMade, RegInv, R!TypeOK
<1>2. R!SurfaceType' /\ KeyInv' /\ R!KeepsForeign
  BY SurfaceKept DEF R!RecoverMade
<1>3. R!CallType' /\ ModeInv'
  BY DEF R!RecoverMade, RegInv, R!TypeOK, R!CallType, ModeInv
<1>4. record' \in R!JournalType /\ mem' \in R!JournalType
  <2>1. CASE key = R!OwnKey(mem.build)
    BY <2>1, <1>0, <1>j DEF R!RecoverMade, Written, RegInv, R!TypeOK
  <2>2. CASE key # R!OwnKey(mem.build)
    BY <2>2, NoneIn DEF R!RecoverMade, RegInv, R!TypeOK
  <2> QED
    BY <2>1, <2>2
<1>5. JournalInv'
  <2>1. CASE key = R!OwnKey(mem.build)
    BY <2>1, <1>0, <1>j, <1>2, <1>3, <1>4
       DEF R!RecoverMade, Written, RegInv, R!TypeOK, R!JournalType, R!SurfaceType,
           R!CallType, ModeInv, JournalInv, CallInv, Known
  <2>2. CASE key # R!OwnKey(mem.build)
    BY <2>2, NoneIn, <1>2, <1>3, <1>4
       DEF R!RecoverMade, RegInv, R!TypeOK, R!JournalType, R!SurfaceType, R!CallType,
           ModeInv, JournalInv, CallInv, Known
  <2> QED
    BY <2>1, <2>2
<1>6. CallInv'
  <2>1. CASE key = R!OwnKey(mem.build)
    BY <2>1, <1>0, <1>j, <1>2, <1>3, <1>4
       DEF R!RecoverMade, Written, RegInv, R!TypeOK, R!JournalType, R!SurfaceType,
           R!CallType, ModeInv, JournalInv, CallInv, Known
  <2>2. CASE key # R!OwnKey(mem.build)
    BY <2>2, NoneIn, <1>2, <1>3, <1>4
       DEF R!RecoverMade, RegInv, R!TypeOK, R!JournalType, R!SurfaceType, R!CallType,
           ModeInv, JournalInv, CallInv, Known
  <2> QED
    BY <2>1, <2>2
<1>7. R!KeepsJournal
  <2>1. CASE key = R!OwnKey(mem.build)
    BY <2>1, <1>0, <1>j, NoneIn
       DEF R!RecoverMade, Written, RegInv, ModeInv, CallInv, R!KeepsJournal
  <2>2. CASE key # R!OwnKey(mem.build)
    BY <2>2, NoneIn, NoneIn DEF R!RecoverMade, RegInv, ModeInv, CallInv, R!KeepsJournal
  <2> QED
    BY <2>1, <2>2
<1> QED
  BY <1>1, <1>2, <1>3, <1>4, <1>5, <1>6, <1>7 DEF Kept, RegInv, R!TypeOK

(* Recovery publishes over its own file or over nothing.                   *)
LEMMA RecoverShortcutStep ==
  ASSUME R!PlansAssumption, RegInv, R!RecoverShortcut
  PROVE  Kept
<1>s. PICK s : s = Head(todo)
  OBVIOUS
<1>1. R!TallyType'
  BY Paid DEF R!RecoverShortcut, R!Advance, RegInv, R!TypeOK
<1>2. R!SurfaceType' /\ KeyInv' /\ R!KeepsForeign
  <2>1. \/ UNCHANGED <<target, temp, key>>
        \/ /\ target[s] \in {0, mem.ids[s]} /\ target' = [target EXCEPT ![s] = temp[s]]
           /\ UNCHANGED <<temp, key>>
        \/ temp' = [temp EXCEPT ![s] = R!NewFile] /\ UNCHANGED <<target, key>>
    BY <1>s DEF R!RecoverShortcut, R!Advance
  <2>2. R!NewFile \in Int \ {-1}
    BY NewFileIn
  <2> HIDE DEF R!NewFile
  <2> QED
    BY <2>1, <2>2
       DEF RegInv, R!TypeOK, R!JournalType, R!SurfaceType, KeyInv, R!KeepsForeign
<1>3. R!CallType' /\ ModeInv'
  BY DEF R!RecoverShortcut, R!Advance, RegInv, R!TypeOK, R!CallType, ModeInv
<1>4. record' \in R!JournalType /\ mem' \in R!JournalType
  BY NoneIn DEF R!RecoverShortcut, R!Advance, RegInv, R!TypeOK, R!JournalType
<1>5. JournalInv'
  BY <1>2, <1>4, NoneIn
     DEF R!RecoverShortcut, R!Advance, RegInv, R!TypeOK, R!JournalType, R!SurfaceType,
         R!CallType, ModeInv, JournalInv, CallInv, Known
<1>6. CallInv'
  BY <1>2, <1>3, <1>4, NoneIn
     DEF R!RecoverShortcut, R!Advance, RegInv, R!TypeOK, R!JournalType, R!SurfaceType,
         R!CallType, ModeInv, JournalInv, CallInv, Known
<1>7. R!KeepsJournal
  BY NoneIn
     DEF R!RecoverShortcut, R!Advance, RegInv, R!TypeOK, R!JournalType, ModeInv,
         CallInv, R!KeepsJournal, Known
<1> QED
  BY <1>1, <1>2, <1>3, <1>4, <1>5, <1>6, <1>7 DEF Kept, RegInv, R!TypeOK

(* Recovery publishes a new file only where nothing was.                   *)
LEMMA LinkAgainStep ==
  ASSUME R!PlansAssumption, RegInv, NEW ok \in BOOLEAN, R!LinkAgain(ok)
  PROVE  Kept
<1>s. PICK s : s = Head(todo)
  OBVIOUS
<1>l. \/ target[s] = 0 /\ target' = [target EXCEPT ![s] = temp[s]] /\ UNCHANGED <<temp, key>>
      \/ temp' = [temp EXCEPT ![s] = 0] /\ UNCHANGED <<target, key>>
  BY <1>s DEF R!LinkAgain
<1>1. R!TallyType'
  BY Paid DEF R!LinkAgain, RegInv, R!TypeOK
<1>2. R!SurfaceType' /\ KeyInv' /\ R!KeepsForeign
  BY <1>l DEF RegInv, R!TypeOK, R!JournalType, R!SurfaceType, KeyInv, R!KeepsForeign
<1>3. R!CallType' /\ ModeInv'
  BY DEF R!LinkAgain, RegInv, R!TypeOK, R!CallType, ModeInv
<1>4. record' \in R!JournalType /\ mem' \in R!JournalType
  BY NoneIn DEF R!LinkAgain, RegInv, R!TypeOK, R!JournalType
<1>5. JournalInv'
  BY <1>2, <1>4, NoneIn
     DEF R!LinkAgain, RegInv, R!TypeOK, R!JournalType, R!SurfaceType, R!CallType,
         ModeInv, JournalInv, CallInv, Known
<1>6. CallInv'
  BY <1>2, <1>3, <1>4, NoneIn
     DEF R!LinkAgain, RegInv, R!TypeOK, R!JournalType, R!SurfaceType, R!CallType,
         ModeInv, JournalInv, CallInv, Known
<1>7. R!KeepsJournal
  BY NoneIn
     DEF R!LinkAgain, RegInv, R!TypeOK, R!JournalType, ModeInv, CallInv,
         R!KeepsJournal, Known
<1> QED
  BY <1>1, <1>2, <1>3, <1>4, <1>5, <1>6, <1>7 DEF Kept, RegInv, R!TypeOK

(* The temporary goes.                                                     *)
LEMMA UnlinkAgainStep ==
  ASSUME R!PlansAssumption, RegInv, R!UnlinkAgain
  PROVE  Kept
<1>s. PICK s : s = Head(todo)
  OBVIOUS
<1>1. R!TallyType'
  BY Paid DEF R!UnlinkAgain, RegInv, R!TypeOK
<1>2. R!SurfaceType' /\ KeyInv' /\ R!KeepsForeign
  <2>1. temp' = [temp EXCEPT ![s] = 0] /\ UNCHANGED <<target, key>>
    BY <1>s DEF R!UnlinkAgain
  <2> QED
    BY <2>1, TempGone
<1>3. R!CallType' /\ ModeInv'
  BY DEF R!UnlinkAgain, RegInv, R!TypeOK, R!CallType, ModeInv
<1>4. record' \in R!JournalType /\ mem' \in R!JournalType
  BY NoneIn DEF R!UnlinkAgain, RegInv, R!TypeOK, R!JournalType
<1>5. JournalInv'
  BY <1>2, <1>4, NoneIn
     DEF R!UnlinkAgain, RegInv, R!TypeOK, R!JournalType, R!SurfaceType, R!CallType,
         ModeInv, JournalInv, CallInv, Known
<1>6. CallInv'
  BY <1>2, <1>3, <1>4, NoneIn
     DEF R!UnlinkAgain, RegInv, R!TypeOK, R!JournalType, R!SurfaceType, R!CallType,
         ModeInv, JournalInv, CallInv, Known
<1>7. R!KeepsJournal
  BY NoneIn
     DEF R!UnlinkAgain, RegInv, R!TypeOK, R!JournalType, ModeInv, CallInv,
         R!KeepsJournal, Known
<1> QED
  BY <1>1, <1>2, <1>3, <1>4, <1>5, <1>6, <1>7 DEF Kept, RegInv, R!TypeOK

(* Recovery binds what it finds in place, never a foreign file.            *)
LEMMA BindStep ==
  ASSUME R!PlansAssumption, RegInv, R!Bind
  PROVE  Kept
<1> DEFINE j == [mem EXCEPT !.ids[Head(todo)] = target[Head(todo)]]
<1>j. target[Head(todo)] \notin {0, -1} =>
        /\ j \in R!JournalType /\ j.phase = mem.phase /\ j.native = mem.native
        /\ j.created = mem.created /\ j.build = mem.build /\ j.before = mem.before
  BY DEF RegInv, R!TypeOK, R!JournalType, R!SurfaceType
<1>p. target[Head(todo)] \notin {0, -1} => R!Persist(TRUE, "applying", mem.active, j)
  BY DEF R!Bind
<1>a. mem.active \in SUBSET R!Names
  BY DEF RegInv, R!TypeOK, R!CallType, R!JournalType, R!Names
<1> HIDE DEF j
<1>0. target[Head(todo)] \notin {0, -1} => Written(TRUE, "applying", mem.active, j)
  BY <1>j, <1>p, <1>a, PersistWrites DEF RegInv, R!TypeOK
<1>1. R!TallyType'
  BY Paid DEF R!Bind, R!Advance, RegInv, R!TypeOK
<1>2. R!SurfaceType' /\ KeyInv' /\ R!KeepsForeign
  BY SurfaceKept DEF R!Bind, R!Advance
<1>3. R!CallType' /\ ModeInv'
  BY DEF R!Bind, R!Advance, RegInv, R!TypeOK, R!CallType, ModeInv
<1>4. record' \in R!JournalType /\ mem' \in R!JournalType
  <2>1. CASE target[Head(todo)] \notin {0, -1}
    BY <2>1, <1>0, <1>j DEF R!Bind, R!Advance, Written, RegInv, R!TypeOK
  <2>2. CASE target[Head(todo)] \in {0, -1}
    BY <2>2, NoneIn DEF R!Bind, R!Advance, RegInv, R!TypeOK
  <2> QED
    BY <2>1, <2>2
<1>5. JournalInv'
  <2>1. CASE target[Head(todo)] \notin {0, -1}
    BY <2>1, <1>0, <1>j, <1>2, <1>3, <1>4
       DEF R!Bind, R!Advance, Written, RegInv, R!TypeOK, R!JournalType, R!SurfaceType,
           R!CallType, ModeInv, JournalInv, CallInv, Known
  <2>2. CASE target[Head(todo)] \in {0, -1}
    BY <2>2, NoneIn, <1>2, <1>3, <1>4
       DEF R!Bind, R!Advance, RegInv, R!TypeOK, R!JournalType, R!SurfaceType,
           R!CallType, ModeInv, JournalInv, CallInv, Known
  <2> QED
    BY <2>1, <2>2
<1>6. CallInv'
  <2>1. CASE target[Head(todo)] \notin {0, -1}
    BY <2>1, <1>0, <1>j, <1>2, <1>3, <1>4
       DEF R!Bind, R!Advance, Written, RegInv, R!TypeOK, R!JournalType, R!SurfaceType,
           R!CallType, ModeInv, JournalInv, CallInv, Known
  <2>2. CASE target[Head(todo)] \in {0, -1}
    BY <2>2, NoneIn, <1>2, <1>3, <1>4
       DEF R!Bind, R!Advance, RegInv, R!TypeOK, R!JournalType, R!SurfaceType,
           R!CallType, ModeInv, JournalInv, CallInv, Known
  <2> QED
    BY <2>1, <2>2
<1>7. R!KeepsJournal
  <2>1. CASE target[Head(todo)] \notin {0, -1}
    BY <2>1, <1>0, <1>j, NoneIn
       DEF R!Bind, R!Advance, Written, RegInv, ModeInv, CallInv, R!KeepsJournal
  <2>2. CASE target[Head(todo)] \in {0, -1}
    BY <2>2, NoneIn, NoneIn
       DEF R!Bind, R!Advance, RegInv, ModeInv, CallInv, R!KeepsJournal
  <2> QED
    BY <2>1, <2>2
<1> QED
  BY <1>1, <1>2, <1>3, <1>4, <1>5, <1>6, <1>7 DEF Kept, RegInv, R!TypeOK

(* A recovered installation is as good as a finished one.                  *)
LEMMA RecoveredStep ==
  ASSUME R!PlansAssumption, RegInv, R!Recovered
  PROVE  Kept
<1>1. R!TallyType'
  BY Paid DEF R!Recovered, RegInv, R!TypeOK
<1>2. R!SurfaceType' /\ KeyInv' /\ R!KeepsForeign
  BY SurfaceKept DEF R!Recovered
<1>3. R!CallType' /\ ModeInv'
  BY DEF R!Recovered, RegInv, R!TypeOK, R!CallType, ModeInv
<1>4. record' \in R!JournalType /\ mem' \in R!JournalType
  BY NoneIn DEF R!Recovered, RegInv, R!TypeOK, R!JournalType
<1>5. JournalInv'
  BY <1>2, <1>4, NoneIn
     DEF R!Recovered, RegInv, R!TypeOK, R!JournalType, R!SurfaceType, R!CallType,
         ModeInv, JournalInv, CallInv, Known
<1>6. CallInv'
  BY <1>2, <1>3, <1>4, NoneIn
     DEF R!Recovered, RegInv, R!TypeOK, R!JournalType, R!SurfaceType, R!CallType,
         ModeInv, JournalInv, CallInv, Known
<1>7. R!KeepsJournal
  BY NoneIn
     DEF R!Recovered, RegInv, R!TypeOK, R!JournalType, ModeInv, CallInv,
         R!KeepsJournal, Known
<1> QED
  BY <1>1, <1>2, <1>3, <1>4, <1>5, <1>6, <1>7 DEF Kept, RegInv, R!TypeOK

-----------------------------------------------------------------------------
(* An upgrade.                                                             *)

(* An upgrade starts from an installed journal, in memory only.            *)
LEMMA StartMigrationStep ==
  ASSUME R!PlansAssumption, RegInv, pc = "idle", R!StartMigration,
         UNCHANGED <<build, R!surface, faults, acts, removals>>
  PROVE  Kept
<1>m. /\ mem' \in R!JournalType /\ record' = record
      /\ mem'.phase = "installed" /\ mem'.build # 0 /\ mem'.before # 0
  BY DEF R!StartMigration, RegInv, R!TypeOK, R!JournalType, R!TallyType, JournalInv
<1>1. R!TallyType'
  BY DEF R!StartMigration, R!Matches, R!Bound, RegInv, R!TypeOK, R!TallyType
<1>2. R!SurfaceType' /\ KeyInv' /\ R!KeepsForeign
  BY SurfaceKept DEF R!StartMigration, R!Matches, R!Bound
<1>3. R!CallType' /\ ModeInv'
  BY DEF R!StartMigration, R!Matches, R!Bound, RegInv, R!TypeOK, R!CallType, ModeInv,
         R!Names, R!Values
<1>4. record' \in R!JournalType /\ mem' \in R!JournalType
  BY <1>m DEF RegInv, R!TypeOK
<1>5. JournalInv'
  BY <1>m, <1>2
     DEF R!StartMigration, R!Matches, R!Bound, RegInv, R!TypeOK, R!JournalType,
         R!SurfaceType, R!CallType, ModeInv, JournalInv, CallInv, Known
<1>6. CallInv'
  BY <1>m, <1>2
     DEF R!StartMigration, R!Matches, R!Bound, RegInv, R!TypeOK, R!JournalType,
         R!SurfaceType, R!CallType, ModeInv, JournalInv, CallInv, Known
<1>7. R!KeepsJournal
  BY NoneIn
     DEF R!StartMigration, R!Matches, R!Bound, RegInv, R!TypeOK, R!JournalType,
         ModeInv, CallInv, R!KeepsJournal, Known
<1> QED
  BY <1>1, <1>2, <1>3, <1>4, <1>5, <1>6, <1>7 DEF Kept, RegInv, R!TypeOK

(* What the journal says of the surface holds for whoever resumes it.      *)
LEMMA ResumeMigrationStep ==
  ASSUME R!PlansAssumption, RegInv, pc = "idle", R!ResumeMigration,
         UNCHANGED <<build, R!surface, faults, acts, removals>>
  PROVE  Kept
<1>1. R!TallyType'
  BY DEF R!ResumeMigration, RegInv, R!TypeOK, R!TallyType
<1>2. R!SurfaceType' /\ KeyInv' /\ R!KeepsForeign
  BY SurfaceKept DEF R!ResumeMigration
<1>3. R!CallType' /\ ModeInv'
  BY DEF R!ResumeMigration, RegInv, R!TypeOK, R!CallType, ModeInv, R!JournalType
<1>4. record' \in R!JournalType /\ mem' \in R!JournalType
  BY NoneIn DEF R!ResumeMigration, RegInv, R!TypeOK, R!JournalType
<1>5. JournalInv'
  BY <1>2, <1>4, NoneIn
     DEF R!ResumeMigration, RegInv, R!TypeOK, R!JournalType, R!SurfaceType, R!CallType,
         ModeInv, JournalInv, CallInv, Known
<1>6. CallInv'
  BY <1>2, <1>3, <1>4, NoneIn
     DEF R!ResumeMigration, RegInv, R!TypeOK, R!JournalType, R!SurfaceType, R!CallType,
         ModeInv, JournalInv, CallInv, Known
<1>7. R!KeepsJournal
  BY NoneIn
     DEF R!ResumeMigration, RegInv, R!TypeOK, R!JournalType, ModeInv, CallInv,
         R!KeepsJournal, Known
<1> QED
  BY <1>1, <1>2, <1>3, <1>4, <1>5, <1>6, <1>7 DEF Kept, RegInv, R!TypeOK

(* The upgrade is recorded before a value is stamped.                      *)
LEMMA MigrateStep ==
  ASSUME R!PlansAssumption, RegInv, NEW ok \in BOOLEAN, R!Migrate(ok)
  PROVE  Kept
<1>0. Written(ok, "migrating", R!ToSet(Meta), mem)
  <2>1. R!Persist(ok, "migrating", R!ToSet(Meta), mem)
    BY DEF R!Migrate
  <2>2. R!ToSet(Meta) \in SUBSET R!Names /\ "migrating" \in R!Phases
    BY DEF RegInv, R!TypeOK, R!CallType, R!JournalType, R!Names, R!Values
  <2> QED
    BY <2>1, <2>2, PersistWrites DEF RegInv, R!TypeOK
<1>1. R!TallyType'
  BY Paid DEF R!Migrate, RegInv, R!TypeOK
<1>2. R!SurfaceType' /\ KeyInv' /\ R!KeepsForeign
  BY SurfaceKept DEF R!Migrate
<1>3. R!CallType' /\ ModeInv'
  BY DEF R!Migrate, RegInv, R!TypeOK, R!CallType, ModeInv
<1>4. record' \in R!JournalType /\ mem' \in R!JournalType
  BY <1>0 DEF Written
<1>5. JournalInv'
  BY <1>0, <1>2, <1>4, NoneIn
     DEF R!Migrate, Written, RegInv, R!TypeOK, R!JournalType, R!SurfaceType,
         R!CallType, ModeInv, JournalInv, CallInv, Known
<1>6. CallInv'
  BY <1>0, <1>2, <1>3, <1>4, NoneIn
     DEF R!Migrate, Written, RegInv, R!TypeOK, R!JournalType, R!SurfaceType,
         R!CallType, ModeInv, JournalInv, CallInv, Known
<1>7. R!KeepsJournal
  BY <1>0, NoneIn
     DEF R!Migrate, Written, RegInv, R!TypeOK, R!JournalType, ModeInv, CallInv,
         R!KeepsJournal, Known
<1> QED
  BY <1>1, <1>2, <1>3, <1>4, <1>5, <1>6, <1>7 DEF Kept, RegInv, R!TypeOK

(* The key has to be one build's, or the upgrade is taken back.            *)
LEMMA CheckMigrationStep ==
  ASSUME R!PlansAssumption, RegInv, R!CheckMigration
  PROVE  Kept
<1>1. R!TallyType'
  BY Paid DEF R!CheckMigration, R!Compensate, RegInv, R!TypeOK
<1>2. R!SurfaceType' /\ KeyInv' /\ R!KeepsForeign
  BY SurfaceKept DEF R!CheckMigration, R!Compensate
<1>3. R!CallType' /\ ModeInv'
  BY DEF R!CheckMigration, R!Compensate, RegInv, R!TypeOK, R!CallType, ModeInv
<1>4. record' \in R!JournalType /\ mem' \in R!JournalType
  BY NoneIn DEF R!CheckMigration, R!Compensate, RegInv, R!TypeOK, R!JournalType
<1>5. JournalInv'
  BY <1>2, <1>4, NoneIn
     DEF R!CheckMigration, R!Compensate, RegInv, R!TypeOK, R!JournalType,
         R!SurfaceType, R!CallType, ModeInv, JournalInv, CallInv, Known
<1>6. CallInv'
  BY <1>2, <1>3, <1>4, NoneIn
     DEF R!CheckMigration, R!Compensate, RegInv, R!TypeOK, R!JournalType,
         R!SurfaceType, R!CallType, ModeInv, JournalInv, CallInv, Known
<1>7. R!KeepsJournal
  BY NoneIn
     DEF R!CheckMigration, R!Compensate, RegInv, R!TypeOK, R!JournalType, ModeInv,
         CallInv, R!KeepsJournal, Known
<1> QED
  BY <1>1, <1>2, <1>3, <1>4, <1>5, <1>6, <1>7 DEF Kept, RegInv, R!TypeOK

(* A value is replaced only if one of the two builds wrote it.             *)
LEMMA StampStep ==
  ASSUME R!PlansAssumption, RegInv, NEW ok \in BOOLEAN, R!Stamp(ok)
  PROVE  Kept
<1>1. R!TallyType'
  BY Paid DEF R!Stamp, R!Compensate, RegInv, R!TypeOK
<1>2. R!SurfaceType' /\ KeyInv' /\ R!KeepsForeign
  BY DEF R!Stamp, R!Compensate, RegInv, R!TypeOK, R!JournalType, R!SurfaceType, KeyInv,
         R!KeepsForeign
<1>3. R!CallType' /\ ModeInv'
  BY DEF R!Stamp, R!Compensate, RegInv, R!TypeOK, R!CallType, ModeInv
<1>4. record' \in R!JournalType /\ mem' \in R!JournalType
  BY NoneIn DEF R!Stamp, R!Compensate, RegInv, R!TypeOK, R!JournalType
<1>5. JournalInv'
  BY <1>2, <1>4, NoneIn
     DEF R!Stamp, R!Compensate, RegInv, R!TypeOK, R!JournalType, R!SurfaceType,
         R!CallType, ModeInv, JournalInv, CallInv, Known
<1>6. CallInv'
  BY <1>2, <1>3, <1>4, NoneIn
     DEF R!Stamp, R!Compensate, RegInv, R!TypeOK, R!JournalType, R!SurfaceType,
         R!CallType, ModeInv, JournalInv, CallInv, Known
<1>7. R!KeepsJournal
  BY NoneIn
     DEF R!Stamp, R!Compensate, RegInv, R!TypeOK, R!JournalType, ModeInv, CallInv,
         R!KeepsJournal, Known
<1> QED
  BY <1>1, <1>2, <1>3, <1>4, <1>5, <1>6, <1>7 DEF Kept, RegInv, R!TypeOK

(* The journal of the new build replaces that of the old one.              *)
LEMMA MigratedStep ==
  ASSUME R!PlansAssumption, RegInv, NEW ok \in BOOLEAN, R!Migrated(ok)
  PROVE  Kept
<1>i. \/ /\ record' \in R!JournalType /\ record'.phase = "installed"
         /\ record'.build = mem.build /\ pc' = "idle"
      \/ record' = record
  <2>1. [mem EXCEPT !.phase = "installed", !.active = R!Names, !.before = 0] \in R!JournalType
    BY DEF RegInv, R!TypeOK, R!JournalType
  <2> QED
    BY <2>1 DEF R!Migrated, R!Compensate, RegInv, R!TypeOK, R!JournalType
<1>1. R!TallyType'
  BY Paid DEF R!Migrated, R!Compensate, RegInv, R!TypeOK
<1>2. R!SurfaceType' /\ KeyInv' /\ R!KeepsForeign
  BY SurfaceKept DEF R!Migrated, R!Compensate
<1>3. R!CallType' /\ ModeInv'
  BY DEF R!Migrated, R!Compensate, RegInv, R!TypeOK, R!CallType, ModeInv
<1>4. record' \in R!JournalType /\ mem' \in R!JournalType
  BY <1>i, NoneIn DEF R!Migrated, R!Compensate, RegInv, R!TypeOK
<1>5. JournalInv'
  BY <1>i, <1>2, <1>4, NoneIn
     DEF R!Migrated, R!Compensate, RegInv, R!TypeOK, R!JournalType, R!SurfaceType,
         R!CallType, ModeInv, JournalInv, CallInv, Known
<1>6. CallInv'
  BY <1>2, <1>3, <1>4, NoneIn
     DEF R!Migrated, R!Compensate, RegInv, R!TypeOK, R!JournalType, R!SurfaceType,
         R!CallType, ModeInv, JournalInv, CallInv, Known
<1>7. R!KeepsJournal
  BY <1>i, NoneIn DEF R!KeepsJournal
<1> QED
  BY <1>1, <1>2, <1>3, <1>4, <1>5, <1>6, <1>7 DEF Kept, RegInv, R!TypeOK

-----------------------------------------------------------------------------
(* Compensation.                                                           *)

(* An uninstall has everything to take back.                               *)
LEMMA UninstallStep ==
  ASSUME R!PlansAssumption, RegInv, R!Uninstall
  PROVE  Kept
<1>1. R!TallyType'
  BY DEF R!Uninstall, R!StartUninstall, R!IsDesired, R!Matches, R!Names, RegInv,
         R!TypeOK, R!TallyType, R!PlansAssumption
<1>2. R!SurfaceType' /\ KeyInv' /\ R!KeepsForeign
  BY SurfaceKept DEF R!Uninstall, R!StartUninstall, R!IsDesired, R!Matches, R!Names
<1>3. R!CallType' /\ ModeInv'
  BY DEF R!Uninstall, R!StartUninstall, R!IsDesired, R!Matches, R!Names, RegInv,
         R!TypeOK, R!CallType, ModeInv
<1>4. record' \in R!JournalType /\ mem' \in R!JournalType
  BY NoneIn
     DEF R!Uninstall, R!StartUninstall, R!IsDesired, R!Matches, R!Names, RegInv,
         R!TypeOK, R!JournalType
<1>5. JournalInv'
  BY <1>2, <1>4, NoneIn
     DEF R!Uninstall, R!StartUninstall, R!IsDesired, R!Matches, R!Names, RegInv,
         R!TypeOK, R!JournalType, R!SurfaceType, R!CallType, ModeInv, JournalInv,
         CallInv, Known
<1>6. CallInv'
  BY <1>2, <1>3, <1>4, NoneIn
     DEF R!Uninstall, R!StartUninstall, R!IsDesired, R!Matches, R!Names, RegInv,
         R!TypeOK, R!JournalType, R!SurfaceType, R!CallType, ModeInv, JournalInv,
         CallInv, Known
<1>7. R!KeepsJournal
  BY NoneIn
     DEF R!Uninstall, R!StartUninstall, R!IsDesired, R!Matches, R!Names, RegInv,
         R!TypeOK, R!JournalType, ModeInv, CallInv, R!KeepsJournal, Known
<1> QED
  BY <1>1, <1>2, <1>3, <1>4, <1>5, <1>6, <1>7 DEF Kept, RegInv, R!TypeOK

(* A compensation is resumed with the changes its journal still names.     *)
LEMMA ResumeRestoringStep ==
  ASSUME R!PlansAssumption, RegInv, pc = "idle", R!ResumeRestoring,
         UNCHANGED <<build, R!surface, faults, acts, removals>>
  PROVE  Kept
<1>1. R!TallyType'
  BY DEF R!ResumeRestoring, RegInv, R!TypeOK, R!TallyType
<1>2. R!SurfaceType' /\ KeyInv' /\ R!KeepsForeign
  BY SurfaceKept DEF R!ResumeRestoring
<1>3. R!CallType' /\ ModeInv'
  BY DEF R!ResumeRestoring, RegInv, R!TypeOK, R!CallType, ModeInv, R!JournalType
<1>4. record' \in R!JournalType /\ mem' \in R!JournalType
  BY NoneIn DEF R!ResumeRestoring, RegInv, R!TypeOK, R!JournalType
<1>5. JournalInv'
  BY <1>2, <1>4, NoneIn
     DEF R!ResumeRestoring, RegInv, R!TypeOK, R!JournalType, R!SurfaceType, R!CallType,
         ModeInv, JournalInv, CallInv, Known
<1>6. CallInv'
  BY <1>2, <1>3, <1>4, NoneIn
     DEF R!ResumeRestoring, RegInv, R!TypeOK, R!JournalType, R!SurfaceType, R!CallType,
         ModeInv, JournalInv, CallInv, Known
<1>7. R!KeepsJournal
  BY NoneIn
     DEF R!ResumeRestoring, RegInv, R!TypeOK, R!JournalType, ModeInv, CallInv,
         R!KeepsJournal, Known
<1> QED
  BY <1>1, <1>2, <1>3, <1>4, <1>5, <1>6, <1>7 DEF Kept, RegInv, R!TypeOK

(* What is to be taken back is written down first.                         *)
LEMMA BeginStep ==
  ASSUME R!PlansAssumption, RegInv, NEW ok \in BOOLEAN, R!Begin(ok)
  PROVE  Kept
<1>0. muts # {} => Written(ok, R!Direction, muts, mem)
  <2>1. muts # {} => R!Persist(ok, R!Direction, muts, mem)
    BY DEF R!Begin
  <2>2. muts \in SUBSET R!Names /\ R!Direction \in R!Phases
    BY DEF RegInv, R!TypeOK, R!CallType, R!JournalType, R!Names, R!Direction
  <2> QED
    BY <2>1, <2>2, PersistWrites DEF RegInv, R!TypeOK
<1>1. R!TallyType'
  BY Paid DEF R!Begin, RegInv, R!TypeOK
<1>2. R!SurfaceType' /\ KeyInv' /\ R!KeepsForeign
  BY SurfaceKept DEF R!Begin
<1>3. R!CallType' /\ ModeInv'
  BY DEF R!Begin, RegInv, R!TypeOK, R!CallType, ModeInv
<1>4. record' \in R!JournalType /\ mem' \in R!JournalType
  <2>1. CASE muts = {}
    BY <2>1, <1>2, <1>3 DEF R!Begin, RegInv, R!TypeOK
  <2>2. CASE muts # {} /\ ok
    BY <2>2, <1>0, <1>2, <1>3 DEF R!Begin, Written, R!Direction, RegInv, R!TypeOK
  <2>3. CASE muts # {} /\ ~ok
    BY <2>3, <1>0, <1>2, <1>3 DEF R!Begin, Written, RegInv, R!TypeOK
  <2> QED
    BY <2>1, <2>2, <2>3
<1>5. JournalInv'
  <2>1. CASE muts = {}
    BY <2>1, <1>2, <1>3
       DEF R!Begin, RegInv, R!TypeOK, R!JournalType, R!SurfaceType, R!CallType,
           ModeInv, JournalInv, CallInv, Known, R!PendingKey
  <2>2. CASE muts # {} /\ ok
    BY <2>2, <1>0, <1>2, <1>3, <1>4
       DEF R!Begin, Written, R!Direction, RegInv, R!TypeOK, R!JournalType,
           R!SurfaceType, R!CallType, ModeInv, JournalInv, CallInv, Known, R!PendingKey
  <2>3. CASE muts # {} /\ ~ok
    BY <2>3, <1>0, <1>2, <1>3, <1>4
       DEF R!Begin, Written, RegInv, R!TypeOK, R!JournalType, R!SurfaceType,
           R!CallType, ModeInv, JournalInv, CallInv, Known, R!PendingKey
  <2> QED
    BY <2>1, <2>2, <2>3
<1>6. CallInv'
  <2>1. CASE muts = {}
    BY <2>1, <1>2, <1>3
       DEF R!Begin, RegInv, R!TypeOK, R!JournalType, R!SurfaceType, R!CallType,
           ModeInv, JournalInv, CallInv, Known
  <2>2. CASE muts # {} /\ ok
    BY <2>2, <1>0, <1>2, <1>3, <1>4
       DEF R!Begin, Written, R!Direction, RegInv, R!TypeOK, R!JournalType,
           R!SurfaceType, R!CallType, ModeInv, JournalInv, CallInv, Known
  <2>3. CASE muts # {} /\ ~ok
    BY <2>3, <1>0, <1>2, <1>3, <1>4
       DEF R!Begin, Written, RegInv, R!TypeOK, R!JournalType, R!SurfaceType,
           R!CallType, ModeInv, JournalInv, CallInv, Known
  <2> QED
    BY <2>1, <2>2, <2>3
<1>7. R!KeepsJournal
  <2>1. CASE muts = {}
    BY <2>1, <1>2, <1>3 DEF R!Begin, R!KeepsJournal
  <2>2. CASE muts # {} /\ ok
    BY <2>2, <1>0, <1>2, <1>3, NoneIn DEF R!Begin, Written, R!Direction, R!KeepsJournal
  <2>3. CASE muts # {} /\ ~ok
    BY <2>3, <1>0, <1>2, <1>3, NoneIn DEF R!Begin, Written, R!KeepsJournal
  <2> QED
    BY <2>1, <2>2, <2>3
<1> QED
  BY <1>1, <1>2, <1>3, <1>4, <1>5, <1>6, <1>7 DEF Kept, RegInv, R!TypeOK

(* The key is deleted only as the program wrote it.                        *)
LEMMA DeleteKeyStep ==
  ASSUME R!PlansAssumption, RegInv, NEW ok \in BOOLEAN, R!DeleteKey(ok)
  PROVE  Kept
<1>1. R!TallyType'
  BY Paid DEF R!DeleteKey, RegInv, R!TypeOK
<1>2. R!SurfaceType' /\ KeyInv' /\ R!KeepsForeign
  <2>1. CASE ok /\ R!KeyDeletable
    BY <2>1, KeyGone DEF R!DeleteKey
  <2>2. CASE ~(ok /\ R!KeyDeletable)
    BY <2>2, SurfaceKept DEF R!DeleteKey
  <2> QED
    BY <2>1, <2>2
<1>3. R!CallType' /\ ModeInv'
  BY DEF R!DeleteKey, RegInv, R!TypeOK, R!CallType, ModeInv
<1>4. record' \in R!JournalType /\ mem' \in R!JournalType
  BY NoneIn DEF R!DeleteKey, RegInv, R!TypeOK, R!JournalType
<1>5. JournalInv'
  BY <1>2, <1>4, NoneIn
     DEF R!DeleteKey, RegInv, R!TypeOK, R!JournalType, R!SurfaceType, R!CallType,
         ModeInv, JournalInv, CallInv, Known
<1>6. CallInv'
  <2>1. CASE ok /\ R!KeyDeletable
    BY <2>1, <1>2, <1>3, <1>4, Apart, NoKeyIn
       DEF R!DeleteKey, RegInv, R!TypeOK, R!JournalType, R!SurfaceType, R!CallType,
           ModeInv, JournalInv, CallInv, Known
  <2>2. CASE ~(ok /\ R!KeyDeletable)
    BY <2>2, <1>2, <1>3, <1>4
       DEF R!DeleteKey, RegInv, R!TypeOK, R!JournalType, R!SurfaceType, R!CallType,
           ModeInv, JournalInv, CallInv, Known
  <2> QED
    BY <2>1, <2>2
<1>7. R!KeepsJournal
  BY NoneIn
     DEF R!DeleteKey, RegInv, R!TypeOK, R!JournalType, ModeInv, CallInv,
         R!KeepsJournal, Known
<1> QED
  BY <1>1, <1>2, <1>3, <1>4, <1>5, <1>6, <1>7 DEF Kept, RegInv, R!TypeOK

(* A shortcut or a value is taken back only as the program wrote it.       *)
LEMMA UndoStep ==
  ASSUME R!PlansAssumption, RegInv, NEW ok \in BOOLEAN, R!Undo(ok)
  PROVE  Kept
<1>s. PICK s : s = Head(todo)
  OBVIOUS
<1>u. /\ SurfacePart
      /\ \A r \in R!Shortcuts : target'[r] > 0 => target[r] > 0 /\ (r \in muts => r \in muts')
      /\ key'.mark = key.mark
  BY UndoMoves
<1>1. R!TallyType'
  BY Paid DEF R!Undo, RegInv, R!TypeOK
<1>2. R!SurfaceType' /\ KeyInv' /\ R!KeepsForeign
  BY <1>u DEF SurfacePart
<1>3. R!CallType' /\ ModeInv'
  BY DEF R!Undo, RegInv, R!TypeOK, R!CallType, ModeInv
<1>4. record' \in R!JournalType /\ mem' \in R!JournalType
  BY NoneIn DEF R!Undo, RegInv, R!TypeOK, R!JournalType
<1>5. JournalInv'
  BY <1>u, <1>4
     DEF R!Undo, RegInv, R!TypeOK, R!JournalType, R!SurfaceType, R!CallType, ModeInv,
         JournalInv, CallInv, Known
<1>6. CallInv'
  BY <1>u, <1>3, <1>4
     DEF R!Undo, RegInv, R!TypeOK, R!JournalType, R!SurfaceType, R!CallType, ModeInv,
         JournalInv, CallInv, Known
<1>7. R!KeepsJournal
  BY NoneIn
     DEF R!Undo, RegInv, R!TypeOK, R!JournalType, ModeInv, CallInv, R!KeepsJournal,
         Known
<1> QED
  BY <1>1, <1>2, <1>3, <1>4, <1>5, <1>6, <1>7 DEF Kept, RegInv, R!TypeOK

(* What was taken back is struck from the journal.                         *)
LEMMA NoteStep ==
  ASSUME R!PlansAssumption, RegInv, NEW ok \in BOOLEAN, R!Note(ok)
  PROVE  Kept
<1>0. Written(ok, R!Direction, muts, mem)
  <2>1. R!Persist(ok, R!Direction, muts, mem)
    BY DEF R!Note
  <2>2. muts \in SUBSET R!Names /\ R!Direction \in R!Phases
    BY DEF RegInv, R!TypeOK, R!CallType, R!JournalType, R!Names, R!Direction
  <2> QED
    BY <2>1, <2>2, PersistWrites DEF RegInv, R!TypeOK
<1>1. R!TallyType'
  BY Paid DEF R!Note, RegInv, R!TypeOK
<1>2. R!SurfaceType' /\ KeyInv' /\ R!KeepsForeign
  BY SurfaceKept DEF R!Note
<1>3. R!CallType' /\ ModeInv'
  BY DEF R!Note, RegInv, R!TypeOK, R!CallType, ModeInv
<1>4. record' \in R!JournalType /\ mem' \in R!JournalType
  BY <1>0 DEF Written
<1>5. JournalInv'
  BY <1>0, <1>2, <1>4, NoneIn
     DEF R!Note, Written, RegInv, R!TypeOK, R!JournalType, R!SurfaceType, R!CallType,
         ModeInv, JournalInv, CallInv, Known
<1>6. CallInv'
  <2>1. CASE ok
    BY <2>1, <1>0, <1>2, <1>3, <1>4
       DEF R!Note, Written, R!Direction, RegInv, ModeInv, CallInv, Known
  <2>2. CASE ~ok
    BY <2>2, <1>0, <1>2, <1>3, <1>4
       DEF R!Note, Written, R!Direction, RegInv, ModeInv, CallInv, Known
  <2> QED
    BY <2>1, <2>2
<1>7. R!KeepsJournal
  <2>1. CASE ok
    BY <2>1, <1>0, NoneIn DEF R!Note, Written, R!Direction, R!KeepsJournal
  <2>2. CASE ~ok
    BY <2>2, <1>0, NoneIn DEF R!Note, Written, R!Direction, R!KeepsJournal
  <2> QED
    BY <2>1, <2>2
<1> QED
  BY <1>1, <1>2, <1>3, <1>4, <1>5, <1>6, <1>7 DEF Kept, RegInv, R!TypeOK

(* The key is tried once more.                                             *)
LEMMA LastKeyStep ==
  ASSUME R!PlansAssumption, RegInv, NEW ok \in BOOLEAN, R!LastKey(ok)
  PROVE  Kept
<1>1. R!TallyType'
  BY Paid DEF R!LastKey, RegInv, R!TypeOK
<1>2. R!SurfaceType' /\ KeyInv' /\ R!KeepsForeign
  <2>1. CASE ok /\ muts = {} /\ R!KeyDeletable
    BY <2>1, KeyGone DEF R!LastKey
  <2>2. CASE ~(ok /\ muts = {} /\ R!KeyDeletable)
    BY <2>2, SurfaceKept DEF R!LastKey
  <2> QED
    BY <2>1, <2>2
<1>3. R!CallType' /\ ModeInv'
  BY DEF R!LastKey, RegInv, R!TypeOK, R!CallType, ModeInv
<1>4. record' \in R!JournalType /\ mem' \in R!JournalType
  BY NoneIn DEF R!LastKey, RegInv, R!TypeOK, R!JournalType
<1>5. JournalInv'
  BY <1>2, <1>4, NoneIn
     DEF R!LastKey, RegInv, R!TypeOK, R!JournalType, R!SurfaceType, R!CallType,
         ModeInv, JournalInv, CallInv, Known
<1>6. CallInv'
  <2>1. CASE ok /\ muts = {} /\ R!KeyDeletable
    BY <2>1, <1>2, <1>3, <1>4, NoKeyIn
       DEF R!LastKey, RegInv, R!TypeOK, R!JournalType, R!SurfaceType, R!CallType,
           ModeInv, JournalInv, CallInv, Known
  <2>2. CASE ~(ok /\ muts = {} /\ R!KeyDeletable)
    BY <2>2, <1>2, <1>3, <1>4
       DEF R!LastKey, RegInv, R!TypeOK, R!JournalType, R!SurfaceType, R!CallType,
           ModeInv, JournalInv, CallInv, Known
  <2> QED
    BY <2>1, <2>2
<1>7. R!KeepsJournal
  BY NoneIn
     DEF R!LastKey, RegInv, R!TypeOK, R!JournalType, ModeInv, CallInv, R!KeepsJournal,
         Known
<1> QED
  BY <1>1, <1>2, <1>3, <1>4, <1>5, <1>6, <1>7 DEF Kept, RegInv, R!TypeOK

(* The journal goes only after everything it names.                        *)
LEMMA CloseStep ==
  ASSUME R!PlansAssumption, RegInv, R!Close
  PROVE  Kept
<1>1. R!TallyType'
  BY Paid DEF R!Close, R!Cleared, R!PendingKey, R!NoKey, RegInv, R!TypeOK
<1>2. R!SurfaceType' /\ KeyInv' /\ R!KeepsForeign
  BY SurfaceKept DEF R!Close, R!Cleared, R!PendingKey, R!NoKey
<1>3. R!CallType' /\ ModeInv'
  BY DEF R!Close, R!Cleared, R!PendingKey, R!NoKey, RegInv, R!TypeOK, R!CallType,
         ModeInv
<1>4. record' \in R!JournalType /\ mem' \in R!JournalType
  BY NoneIn
     DEF R!Close, R!Cleared, R!PendingKey, R!NoKey, RegInv, R!TypeOK, R!JournalType
<1>5. JournalInv'
  BY <1>2, <1>4, NoneIn
     DEF R!Close, R!Cleared, R!PendingKey, R!NoKey, RegInv, R!TypeOK, R!JournalType,
         R!SurfaceType, R!CallType, ModeInv, JournalInv, CallInv, Known
<1>6. CallInv'
  BY <1>2, <1>3, <1>4, NoneIn
     DEF R!Close, R!Cleared, R!PendingKey, R!NoKey, RegInv, R!TypeOK, R!JournalType,
         R!SurfaceType, R!CallType, ModeInv, JournalInv, CallInv, Known
<1>7. R!KeepsJournal
  BY NoneIn
     DEF R!Close, R!Cleared, R!PendingKey, R!NoKey, RegInv, R!TypeOK, R!JournalType,
         ModeInv, CallInv, R!KeepsJournal, Known
<1> QED
  BY <1>1, <1>2, <1>3, <1>4, <1>5, <1>6, <1>7 DEF Kept, RegInv, R!TypeOK

(* The old build's journal comes back.                                     *)
LEMMA RolledBackStep ==
  ASSUME R!PlansAssumption, RegInv, R!RolledBack
  PROVE  Kept
<1>1. R!TallyType'
  BY Paid DEF R!RolledBack, R!AllBack, RegInv, R!TypeOK
<1>2. R!SurfaceType' /\ KeyInv' /\ R!KeepsForeign
  BY SurfaceKept DEF R!RolledBack, R!AllBack
<1>3. R!CallType' /\ ModeInv'
  BY DEF R!RolledBack, R!AllBack, RegInv, R!TypeOK, R!CallType, ModeInv
<1>4. record' \in R!JournalType /\ mem' \in R!JournalType
  BY NoneIn DEF R!RolledBack, R!AllBack, RegInv, R!TypeOK, R!JournalType
<1>5. JournalInv'
  BY <1>2, <1>4, NoneIn
     DEF R!RolledBack, R!AllBack, RegInv, R!TypeOK, R!JournalType, R!SurfaceType,
         R!CallType, ModeInv, JournalInv, CallInv, Known
<1>6. CallInv'
  BY <1>2, <1>3, <1>4, NoneIn
     DEF R!RolledBack, R!AllBack, RegInv, R!TypeOK, R!JournalType, R!SurfaceType,
         R!CallType, ModeInv, JournalInv, CallInv, Known
<1>7. R!KeepsJournal
  BY NoneIn
     DEF R!RolledBack, R!AllBack, RegInv, R!TypeOK, R!JournalType, ModeInv, CallInv,
         R!KeepsJournal, Known
<1> QED
  BY <1>1, <1>2, <1>3, <1>4, <1>5, <1>6, <1>7 DEF Kept, RegInv, R!TypeOK

-----------------------------------------------------------------------------
(* What happens beside a transaction.                                      *)

(* A crash leaves the disk as it is.                                       *)
LEMMA CrashStep ==
  ASSUME R!PlansAssumption, RegInv, R!Crash
  PROVE  Kept
<1>1. R!TallyType'
  BY Paid DEF R!Crash, RegInv, R!TypeOK
<1>2. R!SurfaceType' /\ KeyInv' /\ R!KeepsForeign
  BY SurfaceKept DEF R!Crash
<1>3. R!CallType' /\ ModeInv'
  BY DEF R!Crash, RegInv, R!TypeOK, R!CallType, ModeInv
<1>4. record' \in R!JournalType /\ mem' \in R!JournalType
  BY NoneIn DEF R!Crash, RegInv, R!TypeOK, R!JournalType
<1>5. JournalInv'
  BY <1>2, <1>4, NoneIn
     DEF R!Crash, RegInv, R!TypeOK, R!JournalType, R!SurfaceType, R!CallType, ModeInv,
         JournalInv, CallInv, Known
<1>6. CallInv'
  BY <1>2, <1>3, <1>4, NoneIn
     DEF R!Crash, RegInv, R!TypeOK, R!JournalType, R!SurfaceType, R!CallType, ModeInv,
         JournalInv, CallInv, Known
<1>7. R!KeepsJournal
  BY NoneIn
     DEF R!Crash, RegInv, R!TypeOK, R!JournalType, ModeInv, CallInv, R!KeepsJournal,
         Known
<1> QED
  BY <1>1, <1>2, <1>3, <1>4, <1>5, <1>6, <1>7 DEF Kept, RegInv, R!TypeOK

(* A newer build is installed.                                             *)
LEMMA UpgradeStep ==
  ASSUME R!PlansAssumption, RegInv, R!Upgrade
  PROVE  Kept
<1>1. R!TallyType'
  BY DEF R!Upgrade, RegInv, R!TypeOK, R!TallyType
<1>2. R!SurfaceType' /\ KeyInv' /\ R!KeepsForeign
  BY SurfaceKept DEF R!Upgrade
<1>3. R!CallType' /\ ModeInv'
  BY DEF R!Upgrade, RegInv, R!TypeOK, R!CallType, ModeInv
<1>4. record' \in R!JournalType /\ mem' \in R!JournalType
  BY NoneIn DEF R!Upgrade, RegInv, R!TypeOK, R!JournalType
<1>5. JournalInv'
  BY <1>2, <1>4, NoneIn
     DEF R!Upgrade, RegInv, R!TypeOK, R!JournalType, R!SurfaceType, R!CallType,
         ModeInv, JournalInv, CallInv, Known
<1>6. CallInv'
  BY <1>2, <1>3, <1>4, NoneIn
     DEF R!Upgrade, RegInv, R!TypeOK, R!JournalType, R!SurfaceType, R!CallType,
         ModeInv, JournalInv, CallInv, Known
<1>7. R!KeepsJournal
  BY NoneIn
     DEF R!Upgrade, RegInv, R!TypeOK, R!JournalType, ModeInv, CallInv, R!KeepsJournal,
         Known
<1> QED
  BY <1>1, <1>2, <1>3, <1>4, <1>5, <1>6, <1>7 DEF Kept, RegInv, R!TypeOK

(* Whatever others do to the surface, the program has published no more    *)
(* than before.                                                            *)
LEMMA ElsewhereStep ==
  ASSUME R!PlansAssumption, RegInv, R!Elsewhere
  PROVE  Kept
<1>e. /\ R!SurfaceType' /\ KeyInv'
      /\ \A r \in R!Shortcuts : target'[r] > 0 => target[r] > 0
      /\ key'.mark = 1 => key.mark = 1
      /\ UNCHANGED <<record, pc, mode, mem, muts, todo, keyMade, failed>>
  BY ElsewhereMoves
<1>1. R!TallyType'
  BY DEF R!Elsewhere, RegInv, R!TypeOK, R!TallyType, R!PlansAssumption
<1>2. R!SurfaceType' /\ KeyInv' /\ R!KeepsForeign
  BY <1>e DEF R!Elsewhere, R!KeepsForeign, RegInv, R!TypeOK, R!TallyType
<1>3. R!CallType' /\ ModeInv'
  BY <1>e DEF RegInv, R!TypeOK, R!CallType, ModeInv
<1>4. record' \in R!JournalType /\ mem' \in R!JournalType
  BY <1>e DEF RegInv, R!TypeOK
<1>5. JournalInv'
  BY <1>e
     DEF RegInv, R!TypeOK, R!JournalType, R!SurfaceType, R!CallType, ModeInv,
         JournalInv, CallInv, Known
<1>6. CallInv'
  BY <1>e
     DEF RegInv, R!TypeOK, R!JournalType, R!SurfaceType, R!CallType, ModeInv,
         JournalInv, CallInv, Known
<1>7. R!KeepsJournal
  BY <1>e DEF R!KeepsJournal
<1> QED
  BY <1>1, <1>2, <1>3, <1>4, <1>5, <1>6, <1>7 DEF Kept, RegInv, R!TypeOK

-----------------------------------------------------------------------------
(* Nothing is registered at first.                                         *)
LEMMA RegInit ==
  ASSUME R!PlansAssumption, R!Init
  PROVE  RegInv
<1>1. R!TypeOK
  <2>1. R!TallyType
    BY DEF R!PlansAssumption, R!Init, R!TallyType
  <2>2. R!SurfaceType
    BY NoKeyIn DEF R!Init, R!SurfaceType
  <2>3. R!CallType
    BY DEF R!Init, R!CallType
  <2> QED
    BY <2>1, <2>2, <2>3, NoneIn DEF R!Init, R!TypeOK
<1> QED
  BY <1>1, NoneIn, NoKeyIn
     DEF R!Init, RegInv, ModeInv, JournalInv, KeyInv, CallInv, Known

(* A call starts or resumes.                                               *)
LEMMA StartStep ==
  ASSUME R!PlansAssumption, RegInv, R!Start
  PROVE  Kept
BY StartFreshStep, StartMigrationStep, ResumeMigrationStep, ResumeRestoringStep,
   ResumeApplyingStep
   DEF R!Start

(* A transaction makes a step.                                             *)
LEMMA WorkStep ==
  ASSUME R!PlansAssumption, RegInv, R!Work
  PROVE  Kept
<1>1. ASSUME NEW ok \in BOOLEAN,
             \/ R!Generate(ok) \/ R!Record(ok) \/ R!Link(ok) \/ R!Unlink(ok) \/ R!Clean(ok)
             \/ R!Stage(ok) \/ R!Publish(ok) \/ R!Made(ok) \/ R!Finish(ok)
             \/ R!LinkAgain(ok) \/ R!Migrate(ok) \/ R!Stamp(ok) \/ R!Migrated(ok)
             \/ R!Begin(ok) \/ R!DeleteKey(ok) \/ R!Undo(ok) \/ R!Note(ok) \/ R!LastKey(ok)
      PROVE  Kept
  BY <1>1, GenerateStep, RecordStep, LinkStep, UnlinkStep, CleanStep, StageStep,
     PublishStep,
     MadeStep, FinishStep, LinkAgainStep, MigrateStep, StampStep, MigratedStep, BeginStep,
     DeleteKeyStep, UndoStep, NoteStep, LastKeyStep
<1> QED
  BY <1>1, RecoverKeyStep, RecoverMadeStep, RecoverShortcutStep, UnlinkAgainStep,
     BindStep,
     RecoveredStep, CheckMigrationStep, CloseStep, RolledBackStep DEF R!Work

(* Every step preserves the invariant and respects what is foreign and     *)
(* what is published.                                                      *)
LEMMA NextStep ==
  ASSUME R!PlansAssumption, RegInv, [R!Next]_(R!vars)
  PROVE  RegInv' /\ [R!KeepsForeign]_(R!vars) /\ [R!KeepsJournal]_(R!vars)
<1>1. CASE R!Next
  BY <1>1, StartStep, UninstallStep, WorkStep, CrashStep, UpgradeStep, ElsewhereStep
     DEF R!Next, Kept
<1>2. CASE UNCHANGED R!vars
  BY <1>2 DEF R!vars, RegInv, R!TypeOK, R!TallyType, R!SurfaceType, R!CallType,
     ModeInv, JournalInv, KeyInv, CallInv, Known
<1> QED
  BY <1>1, <1>2

(* The invariant holds for any shortcuts, values, builds and bounds.       *)
THEOREM RegistrationInvariant ==
  ASSUME R!PlansAssumption
  PROVE  R!Spec => []RegInv
BY RegInit, NextStep, PTL DEF R!Spec

(* The variables keep their types; that no file the program keeps is       *)
(* foreign is among them.                                                  *)
THEOREM RegistrationTypes ==
  ASSUME R!PlansAssumption
  PROVE  R!Spec => []R!TypeOK
<1>1. RegInv => R!TypeOK
  BY DEF RegInv
<1> QED
  BY <1>1, RegistrationInvariant, PTL

(* The transaction and the promise speak of the same surface and journal.  *)
LEMMA SameSurface ==
  /\ R!KeepsForeign => KeepsForeign
  /\ R!KeepsJournal => KeepsJournal
<1>1. R!Shortcuts = Shortcuts /\ R!Values = Values
  BY DEF R!Shortcuts, R!Values, Shortcuts, Values, R!ToSet, ToSet
<1>2. R!KeepsForeign => KeepsForeign
  BY <1>1 DEF R!KeepsForeign, KeepsForeign, Foreign
<1>3. R!KeepsJournal => KeepsJournal
  BY <1>1 DEF R!KeepsJournal, KeepsJournal
<1> QED
  BY <1>2, <1>3

(* No step of an installation, an upgrade, a recovery or an uninstall      *)
(* overwrites or removes what somebody else put on the surface             *)
(* (_publish_new_shortcut, _restore_shortcut, _restore_registry), whenever *)
(* it appeared between two steps.                                          *)
THEOREM ForeignCorrect ==
  ASSUME R!PlansAssumption
  PROVE  R!Spec => ForeignKept
<1>1. R!PlansAssumption /\ RegInv /\ [R!Next]_(R!vars) => [KeepsForeign]_<<target, key>>
  BY NextStep, SameSurface DEF R!vars
<1> QED
  BY <1>1, RegistrationInvariant, PTL DEF R!Spec, ForeignKept

(* When restore removes the journal, nothing the program published is      *)
(* left, whatever failed or crashed before; the recovery of an interrupted *)
(* rollback is excepted as in JournalLast.                                 *)
THEOREM JournalCorrect ==
  ASSUME R!PlansAssumption
  PROVE  R!Spec => JournalLast
<1>1. R!PlansAssumption /\ RegInv /\ [R!Next]_(R!vars) => [KeepsJournal]_record
  BY NextStep, SameSurface DEF R!vars
<1> QED
  BY <1>1, RegistrationInvariant, PTL DEF R!Spec, JournalLast
=============================================================================
