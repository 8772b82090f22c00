--------------------------- MODULE UpdateCutover ---------------------------
(* One update of the packaged Windows program: the running Core hands the   *)
(* installation over (updater.py), a recovery helper replaces it behind a   *)
(* journal (windows_update_helper.py), and every start of the Core passes a *)
(* guard that reads what the last attempt left on the disk.                 *)
(*                                                                          *)
(* The disk outlives a crash; the processes do not: the Core with its copy  *)
(* of the state, the guard before it, the helper with its copy of the       *)
(* journal.  One operation is followed from "ready" to its end.  Every file *)
(* is written atomically (_atomic_json), a directory tree is not.           *)
EXTENDS Naturals

CONSTANTS None,
          MaxWrites,    \* writes of the Core to its database
          MaxCrashes,   \* power losses
          MaxFailures   \* writes and children that fail

ASSUME CutoverAssumption == /\ MaxWrites \in Nat
                            /\ MaxCrashes \in Nat
                            /\ MaxFailures \in Nat

VARIABLES
  disk,    \* the files, the credential store and the registry
  core,    \* the Core, or the start guard before it
  helper,  \* the recovery helper
  tally    \* acknowledged writes, what went wrong so far

vars == <<disk, core, helper, tally>>

state == disk.state       \* updates/state.json
journal == disk.journal   \* transactions/<operation>/journal.json, or None
tree == disk.tree         \* the other files of the transaction directory
cred == disk.cred         \* the operation's secret is in the credential store
tomb == disk.tomb         \* the retirement tombstone: a terminal phase, or None
bin == disk.bin           \* the four installed executables
db == disk.db             \* the live database: its writes and its schema
backups == disk.backups   \* the writes that each backup file holds, or None

-----------------------------------------------------------------------------
(* Records of the disk *)

TerminalPhases == {"committed", "rolled_back"}

HelperPhases == {"prepared", "waiting_for_parent", "abort_requested",
                 "cutover_started", "binary_replaced", "diagnostics_passed",
                 "health_passed", "rolling_back"} \cup TerminalPhases

(* The digest over every field of the journal that is not progress: of      *)
(* those only the parent process and the database backup ever change.       *)
Identity(j) == <<j.parent, j.backup>>

Versions == {"old", "new"}
Backup == [file : {"initial", "stopped"}, writes : 0..MaxWrites]
Identities == BOOLEAN \X Backup
Journal == [phase : HelperPhases, parent : BOOLEAN, backup : Backup,
            bound : BOOLEAN, seal : TerminalPhases \cup {None}]
UpdatePhases == {"ready", "installing", "restart_required", "error",
                 "installed", "rolled_back"}
State == [phase : UpdatePhases, ptr : BOOLEAN,
          cur : Identities \cup {None}, pend : Identities \cup {None},
          done : Identities \cup {None}]
Disk == [state : State, journal : Journal \cup {None},
         tree : {"none", "some", "all"}, cred : BOOLEAN,
         tomb : TerminalPhases \cup {None}, bin : {"old", "mixed", "new"},
         db : [writes : 0..MaxWrites, schema : Versions],
         backups : [{"initial", "stopped"} -> 0..MaxWrites \cup {None}],
         runonce : BOOLEAN]

Serving == {"idle", "handed", "closing", "leaving"}
Installing == {"backup", "copy", "copied", "journal", "prepare", "secret",
               "bind", "publish", "register", "launch"}
Starting == {"guard", "blocked", "resume", "reclaim", "unlink", "clean",
             "reset", "init"}
Retiring == {"entomb", "rmjournal", "rmtree", "rmsecret", "clear", "rmtomb"}
Waiting == {"wait", "watch", "detach1", "detach2", "detach3", "refresh",
            "rebind1", "rebind2", "rebind3"}
Applying == {"apply", "unpack", "replaced", "diagnose", "migrate", "health",
             "install", "commit"}
RollingBack == {"rollback", "unwind", "restore", "revert", "reversed"}
Aborting == {"abort", "aborting", "aborted"}
Ending == {"finish", "unregister", "relaunch", "record"}

ASSUME NoneAssumption == /\ None \notin Journal /\ None \notin State
                         /\ None \notin Identities /\ None \notin TerminalPhases
                         /\ None \notin 0..MaxWrites

TypeOK ==
  /\ disk \in Disk
  /\ core \in [pc : {"off"} \cup Serving \cup Installing \cup Starting
                    \cup Retiring,
               mem : State \cup {None}, parent : BOOLEAN,
               version : Versions]
  /\ helper \in [pc : {"off", "login", "load"} \cup Waiting \cup Applying
                      \cup RollingBack \cup Aborting \cup Ending,
                 j : Journal \cup {None}, version : Versions,
                 degraded : BOOLEAN]
  /\ tally \in [written : 0..MaxWrites, crashes : 0..MaxCrashes,
                failures : 0..MaxFailures, disturbed : BOOLEAN]

NoHandoff == [phase |-> "ready", ptr |-> FALSE, cur |-> None, pend |-> None,
              done |-> None]
Exited == [pc |-> "off", j |-> None, version |-> "old", degraded |-> FALSE]
NotRunning == [pc |-> "off", mem |-> None, parent |-> FALSE, version |-> "old"]

Init ==
  /\ disk = [state |-> NoHandoff, journal |-> None, tree |-> "none",
             cred |-> FALSE, tomb |-> None, bin |-> "old",
             db |-> [writes |-> 0, schema |-> "old"],
             backups |-> [f \in {"initial", "stopped"} |-> None],
             runonce |-> FALSE]
  /\ core = [NotRunning EXCEPT !.pc = "idle", !.mem = NoHandoff]
  /\ helper = Exited
  /\ tally = [written |-> 0, crashes |-> 0, failures |-> 0,
              disturbed |-> FALSE]

CoreAt(pc) == core' = [core EXCEPT !.pc = pc]
HelperAt(pc) == helper' = [helper EXCEPT !.pc = pc]

Failure == /\ tally.failures < MaxFailures
           /\ tally' = [tally EXCEPT !.failures = @ + 1, !.disturbed = TRUE]

-----------------------------------------------------------------------------
(* What a process reads of the disk *)

Outcome(phase) == IF phase = "committed" THEN "installed" ELSE phase

(* A packaged program reads only the records of its own build: a committed  *)
(* journal is the new build's, every other journal the old one's, and the   *)
(* state carries the commit of the version it calls current.                *)
Accepts(version, j) == (version = "new") = (j.phase = "committed")
StateAccepted(version) == (version = "new") = (state.phase = "installed")

(* The journal is bound to the operation's secret, and sealed exactly when  *)
(* it is terminal.                                                          *)
Authority(j) == /\ j.bound /\ cred
                /\ j.seal = (IF j.phase \in TerminalPhases THEN j.phase
                             ELSE None)

Published(s, j) == /\ s.phase = Outcome(j.phase) /\ ~s.ptr
                   /\ s.cur = None /\ s.pend = None /\ s.done = Identity(j)

(* The state names this journal; a pending identity counts once the old     *)
(* one was there.                                                           *)
HandoffValid(j) ==
  /\ Authority(j)
  /\ IF j.phase \in TerminalPhases
     THEN \/ Published(state, j)
          \/ /\ state.phase = Outcome(j.phase) /\ state.ptr
             /\ state.cur = Identity(j) /\ state.pend = None
             /\ state.done = None
     ELSE state.ptr /\ state.cur # None
          /\ Identity(j) \in {state.cur, state.pend}

Evidence == journal # None \/ tree # "none"

CompletedAuthoritative ==
  /\ journal # None /\ journal.phase \in TerminalPhases
  /\ Authority(journal) /\ Published(state, journal)

TombMatches == /\ tomb # None /\ state.done # None
               /\ state.phase = Outcome(tomb)

(* As the start guard reads it: without the journal the whole directory     *)
(* has to be gone.                                                          *)
TombAuthoritative ==
  /\ TombMatches
  /\ IF journal = None THEN tree = "none"
     ELSE journal.phase = tomb /\ Identity(journal) = state.done

-----------------------------------------------------------------------------
(* The Core: serving and handing over *)

Write == /\ core.pc \in {"idle", "handed"}
         /\ tally.written < MaxWrites
         /\ tally' = [tally EXCEPT !.written = @ + 1]
         /\ disk' = [disk EXCEPT !.db.writes = @ + 1]
         /\ UNCHANGED <<core, helper>>

(* The Core keeps its own copy of the state; a copy it may not write is     *)
(* None.                                                                    *)
Install == /\ core.pc = "idle" /\ core.mem # None /\ core.mem.phase = "ready"
           /\ core' = [core EXCEPT !.pc = "backup", !.mem.phase = "installing"]
           /\ disk' = [disk EXCEPT !.state = core'.mem]
           /\ UNCHANGED <<helper, tally>>

(* The steps between "backup" and "launch", each one a write: the first     *)
(* backup and the pointer, the copies, the journal, the pending identity,   *)
(* the secret, the bound journal, the identity, the RunOnce entry, the      *)
(* helper.                                                                  *)
InstallStep(from, to, effect) ==
  /\ core.pc = from /\ disk' = effect /\ CoreAt(to)
  /\ UNCHANGED <<helper, tally>>

SaveBackup ==
  /\ core.pc = "backup"
  /\ core' = [core EXCEPT !.pc = "copy", !.mem = [NoHandoff EXCEPT
                !.phase = "restart_required", !.ptr = TRUE]]
  /\ disk' = [disk EXCEPT !.backups["initial"] = db.writes,
                          !.state = core'.mem]
  /\ UNCHANGED <<helper, tally>>

Prepared == [phase |-> "prepared", parent |-> TRUE,
             backup |-> [file |-> "initial", writes |-> backups["initial"]],
             bound |-> FALSE, seal |-> None]

WriteJournal == /\ core.pc = "journal"
                /\ disk' = [disk EXCEPT !.journal = Prepared]
                /\ core' = [core EXCEPT !.pc = "prepare", !.parent = TRUE]
                /\ UNCHANGED <<helper, tally>>

LaunchHelper == /\ core.pc = "launch" /\ CoreAt("handed")
                /\ helper' = [Exited EXCEPT !.pc = "load"]
                /\ UNCHANGED <<disk, tally>>

Handoff ==
  \/ SaveBackup \/ WriteJournal \/ LaunchHelper
  \/ InstallStep("copy", "copied", [disk EXCEPT !.tree = "some"])
  \/ InstallStep("copied", "journal", [disk EXCEPT !.tree = "all"])
  \/ InstallStep("prepare", "secret",
                 [disk EXCEPT !.state.pend = Identity(journal)])
  \/ InstallStep("secret", "bind", [disk EXCEPT !.cred = TRUE])
  \/ InstallStep("bind", "publish", [disk EXCEPT !.journal.bound = TRUE])
  \/ InstallStep("publish", "register",
                 [disk EXCEPT !.state.cur = Identity(journal),
                              !.state.pend = None, !.state.done = None])
  \/ InstallStep("register", "launch", [disk EXCEPT !.runonce = TRUE])

(* A step fails: once files of the transaction exist the state is read      *)
(* again and only its phase changes; before that the handoff is forgotten.  *)
HandoffFails ==
  /\ core.pc \in Installing /\ Failure
  /\ core' = [core EXCEPT !.pc = "idle", !.mem =
                [(IF core.mem.ptr /\ Evidence THEN state ELSE NoHandoff)
                   EXCEPT !.phase = "error"]]
  /\ disk' = [disk EXCEPT !.state = core'.mem]
  /\ UNCHANGED helper

(* cancel, and persist_cancel_if_idle when the program shuts down: the      *)
(* copy in memory is written over the file.                                 *)
SavesMemory == /\ core.mem # None
               /\ disk' = [disk EXCEPT !.state = core.mem]
               /\ tally' = [tally EXCEPT !.disturbed = @ \/ state # core.mem]

Cancel == /\ core.pc \in {"idle", "handed"} /\ SavesMemory
          /\ UNCHANGED <<core, helper>>

Close == /\ core.pc \in {"idle", "handed"} /\ CoreAt("closing")
         /\ UNCHANGED <<disk, helper, tally>>

(* The save is skipped when the update thread outlives its join.            *)
LeaveWithSave == /\ core.pc = "closing" /\ SavesMemory /\ CoreAt("leaving")
                 /\ UNCHANGED helper
LeaveWithout == /\ core.pc = "closing" /\ CoreAt("leaving")
                /\ UNCHANGED <<disk, helper, tally>>

Exit == /\ core.pc \in {"leaving", "blocked"} /\ core' = NotRunning
        /\ UNCHANGED <<disk, helper, tally>>

-----------------------------------------------------------------------------
(* The guard before every start of the Core (ensure_recovery_before_core)   *)

Start == /\ core.pc = "off"
         /\ \E v \in IF bin = "mixed" THEN Versions ELSE {bin} :
              core' = [NotRunning EXCEPT !.pc = "guard", !.version = v]
         /\ UNCHANGED <<disk, helper, tally>>

(* A state without a pointer: terminal evidence has to be complete, an      *)
(* active phase may not be left alone.                                      *)
PointerlessPasses ==
  /\ Evidence => CompletedAuthoritative \/ TombAuthoritative
  /\ state.done # None /\ ~Evidence => TombAuthoritative /\ ~cred
  /\ state.phase # "restart_required"
  /\ state.phase = "installing" => state.done = None /\ ~Evidence

(* A handoff that never got its identity: a bound journal is bound again,   *)
(* an exact tree under an unbound one is taken back, so is a missing tree.  *)
Unbound ==
  IF state.phase \notin {"restart_required", "error"} THEN "blocked"
  ELSE IF journal = None THEN IF tree = "none" THEN "reset" ELSE "blocked"
  ELSE IF \/ ~Accepts(core.version, journal)
          \/ state.pend \notin {None, Identity(journal)} THEN "blocked"
  ELSE IF journal.bound
       THEN IF Authority(journal) /\ journal.phase \notin TerminalPhases
            THEN "bind" ELSE "blocked"
       ELSE IF journal.seal = None /\ journal.phase = "prepared" /\ tree = "all"
            THEN "reclaim" ELSE "blocked"

GuardVerdict ==
  IF ~StateAccepted(core.version) THEN "blocked"
  ELSE IF ~state.ptr
       THEN IF ~PointerlessPasses THEN "blocked"
            ELSE IF state.phase = "installing" THEN "reset" ELSE "init"
  ELSE IF state.done # None THEN "blocked"
  ELSE IF state.cur = None THEN Unbound
  ELSE IF /\ journal # None
          /\ Accepts(core.version, journal)
          /\ HandoffValid(journal)
       THEN "resume" ELSE "blocked"

Promoted(s, j) == [s EXCEPT !.cur = Identity(j), !.pend = None]

Guard ==
  /\ core.pc = "guard"
  /\ core' = [core EXCEPT !.pc = IF GuardVerdict = "bind" THEN "resume"
                                 ELSE GuardVerdict]
  /\ disk' = IF \/ GuardVerdict = "bind"
                \/ /\ GuardVerdict = "resume"
                   /\ journal.phase \notin TerminalPhases
             THEN [disk EXCEPT !.state = Promoted(state, journal)]
             ELSE disk
  /\ tally' = [tally EXCEPT !.disturbed =
                 @ \/ (disk' # disk /\ helper.j # None)]
  /\ UNCHANGED helper

(* Mutant of GuardLaunches: the guard leaves the helper to the next login.   *)
GuardLeaves == core.pc = "resume" /\ core' = NotRunning
               /\ UNCHANGED <<disk, helper, tally>>

(* The helper that is started is the new build's once the journal is        *)
(* committed.  A second helper leaves at once: the first holds the lock.    *)
GuardLaunches ==
  /\ core.pc = "resume" /\ core' = NotRunning
  /\ helper' = IF helper.pc \in {"off", "login"} /\ tree = "all"
               THEN [Exited EXCEPT !.pc = "load", !.version =
                      IF journal.phase = "committed" THEN "new" ELSE "old"]
               ELSE helper
  /\ UNCHANGED <<disk, tally>>

GuardStep(from, to, effect) ==
  /\ core.pc = from /\ disk' = effect /\ CoreAt(to)
  /\ UNCHANGED <<helper, tally>>

Reclaim ==
  \/ GuardStep("reclaim", "unlink", [disk EXCEPT !.tree = "some"])
  \/ GuardStep("unlink", "clean", [disk EXCEPT !.journal = None])
  \/ GuardStep("clean", "reset", [disk EXCEPT !.tree = "none"])
  \/ GuardStep("reset", "init",
               [disk EXCEPT !.cred = FALSE,
                            !.state = [NoHandoff EXCEPT !.phase = "error"]])

-----------------------------------------------------------------------------
(* The update manager opens, and retires what a finished update left: the   *)
(* tombstone first, then the tree, the secret, the completed identity.      *)

BindingValid == \/ CompletedAuthoritative
                \/ TombMatches /\ (journal # None =>
                     journal.phase = tomb /\ Identity(journal) = state.done)

Open ==
  /\ core.pc = "init"
  /\ core' = [core EXCEPT
       !.pc = IF state.done # None
              THEN IF BindingValid THEN "entomb" ELSE "idle"
              ELSE IF tomb # None /\ ~Evidence THEN "rmtomb" ELSE "idle",
       !.mem = IF \/ state.done # None /\ ~BindingValid
                  \/ state.done = None /\ Evidence
               THEN None ELSE state]
  /\ UNCHANGED <<disk, helper, tally>>

Retire ==
  \/ GuardStep("entomb", "rmjournal",
       [disk EXCEPT !.tomb = IF tomb # None THEN @ ELSE journal.phase])
  \/ GuardStep("rmjournal", "rmtree", [disk EXCEPT !.journal = None])
  \/ GuardStep("rmtree", "rmsecret", [disk EXCEPT !.tree = "none"])
  \/ GuardStep("rmsecret", "clear", [disk EXCEPT !.cred = FALSE])
  \/ GuardStep("rmtomb", "idle", [disk EXCEPT !.tomb = None])
  \/ /\ core.pc = "clear"
     /\ core' = [core EXCEPT !.pc = "rmtomb", !.mem.done = None]
     /\ disk' = [disk EXCEPT !.state = core'.mem]
     /\ UNCHANGED <<helper, tally>>

(* A file of the tree cannot be removed: the secret is retired all the      *)
(* same, the completed identity stays, the next operation tries again.      *)
RetireFails ==
  /\ core.pc \in {"rmjournal", "rmtree"} /\ Failure
  /\ disk' = [disk EXCEPT !.cred = FALSE,
                          !.tree = IF @ = "all" /\ journal = None
                                   THEN "some" ELSE @]
  /\ CoreAt("idle")
  /\ UNCHANGED helper

RetireAgain == /\ core.pc = "idle" /\ core.mem # None /\ core.mem.done # None
               /\ CoreAt("init") /\ UNCHANGED <<disk, helper, tally>>

-----------------------------------------------------------------------------
(* The helper (run_transaction)                                             *)

HelperExits == helper' = Exited /\ UNCHANGED <<disk, core, tally>>

Resumed(phase) ==
  IF phase \in {"prepared", "waiting_for_parent"} THEN "wait"
  ELSE IF phase = "abort_requested" THEN "abort"
  ELSE IF phase = "rolling_back" THEN "rollback"
  ELSE IF phase = "cutover_started" THEN "apply"
  ELSE IF phase = "binary_replaced" THEN "diagnose"
  ELSE IF phase = "diagnostics_passed" THEN "migrate"
  ELSE IF phase = "health_passed" THEN "install"
  ELSE "finish"

Replays == /\ journal # None /\ journal.phase = "committed"
           /\ helper.version = "old" /\ HandoffValid(journal) /\ bin = "new"

(* A terminal journal is finished.  An open transaction has to be named by  *)
(* the state, and registers itself for the next login before anything else. *)
Readable == /\ journal # None /\ Accepts(helper.version, journal)
            /\ Authority(journal)
            /\ journal.phase \in TerminalPhases \/ HandoffValid(journal)

Load ==
  /\ helper.pc = "load"
  /\ \/ /\ Readable
        /\ helper' = [helper EXCEPT !.pc = Resumed(journal.phase),
                                    !.j = journal]
        /\ disk' = IF journal.phase \in TerminalPhases THEN disk
                   ELSE [disk EXCEPT !.runonce = TRUE,
                                     !.state = Promoted(state, journal)]
        /\ UNCHANGED <<core, tally>>
     \/ /\ Replays /\ helper' = [helper EXCEPT !.version = "new"]
        /\ UNCHANGED <<disk, core, tally>>
     \/ ~Readable /\ ~Replays /\ HelperExits
     \/ /\ Readable /\ journal.phase \notin TerminalPhases
        /\ Failure /\ helper' = Exited /\ UNCHANGED <<disk, core>>

(* Mutant of Recover: a cutover that has just begun is aborted as well.      *)
RecoverLate(j) ==
  IF j.phase \in {"prepared", "waiting_for_parent", "cutover_started"}
  THEN "abort" ELSE "rollback"

(* An exception before the cutover aborts, a later one rolls back: the      *)
(* phase the helper has in memory decides.                                  *)
Recover(j) == IF j.phase \in {"prepared", "waiting_for_parent"}
              THEN "abort" ELSE "rollback"

Escapes(j) == helper' = [helper EXCEPT !.pc = Recover(j), !.j = j]

(* A step of the forward part writes, or fails with the journal j in memory *)
Forward(from, to, j, effect) ==
  /\ helper.pc = from
  /\ \/ disk' = effect /\ UNCHANGED tally
        /\ helper' = [helper EXCEPT !.pc = to, !.j = j]
     \/ Failure /\ Escapes(j) /\ UNCHANGED disk
  /\ UNCHANGED core

Phase(p) == [helper.j EXCEPT !.phase = p]
SavePhase(from, to, p) ==
  Forward(from, to, Phase(p), [disk EXCEPT !.journal = Phase(p)])

(* Mutant of Watch: the helper does not wait for the Core.                   *)
WatchNobody == /\ helper.pc = "watch" /\ HelperAt("detach1")
               /\ UNCHANGED <<disk, core, tally>>

(* The Core that handed over has exited, or the wait runs out.              *)
Watch == /\ helper.pc = "watch"
         /\ \/ ~(helper.j.parent /\ core.parent) /\ HelperAt("detach1")
            \/ helper.j.parent /\ core.parent /\ Escapes(helper.j)
         /\ UNCHANGED <<disk, core, tally>>

(* _transition_handoff_state: the state announces the identity of the new   *)
(* journal, the journal is saved, the state takes the identity over.        *)
Detached == [helper.j EXCEPT !.parent = FALSE]
(* Mutant of Rebacked: the journal keeps naming the backup of the handoff.   *)
RebackedInitial == [helper.j EXCEPT !.backup =
                      [file |-> "initial", writes |-> backups["initial"]]]
Rebacked == [helper.j EXCEPT !.backup =
               [file |-> "stopped", writes |-> backups["stopped"]]]

Names(s, cur, pend) == s.ptr /\ s.cur = cur /\ s.pend = pend

Announce(from, middle, to, next) ==
  /\ helper.pc = from
  /\ IF ~(cred /\ Names(state, Identity(helper.j), None))
     THEN Escapes(helper.j) /\ UNCHANGED <<disk, core, tally>>
     ELSE IF Identity(next) = Identity(helper.j)
     THEN Forward(from, to, helper.j, [disk EXCEPT !.journal = helper.j])
     ELSE Forward(from, middle, helper.j,
                  [disk EXCEPT !.state.pend = Identity(next)])

Switch(from, to, next) ==
  Forward(from, to, helper.j, [disk EXCEPT !.journal = next])

TakeOver(from, to, next) ==
  /\ helper.pc = from
  /\ IF Names(state, Identity(helper.j), Identity(next))
     THEN \/ /\ disk' = [disk EXCEPT !.state = Promoted(state, next)]
             /\ helper' = [helper EXCEPT !.pc = to, !.j = next]
             /\ UNCHANGED tally
          \/ Failure /\ Escapes(helper.j) /\ UNCHANGED disk
     ELSE Escapes(helper.j) /\ UNCHANGED <<disk, tally>>
  /\ UNCHANGED core

Wait ==
  \/ SavePhase("wait", "watch", "waiting_for_parent")
  \/ Watch
  \/ Announce("detach1", "detach2", "refresh", Detached)
  \/ Switch("detach2", "detach3", Detached)
  \/ TakeOver("detach3", "refresh", Detached)
  \/ Forward("refresh", "rebind1", helper.j,
             [disk EXCEPT !.backups["stopped"] = db.writes])
  \/ Announce("rebind1", "rebind2", "apply", Rebacked)
  \/ Switch("rebind2", "rebind3", Rebacked)
  \/ TakeOver("rebind3", "apply", Rebacked)

(* _update_state: the handoff has to be valid for the journal in memory.    *)
Publish(phase) == [Promoted(state, helper.j) EXCEPT !.phase = phase,
                                                    !.done = None]
Publishable == HandoffValid(helper.j) /\ Accepts(helper.version, helper.j)

Seal(p) == [helper.j EXCEPT !.phase = p, !.seal = p]

(* The setup program replaces the executables one by one, the health check  *)
(* opens the database with the new program, which migrates it.              *)
Apply ==
  \/ SavePhase("apply", "unpack", "cutover_started")
  \/ Forward("unpack", IF bin = "mixed" THEN "replaced" ELSE "unpack",
             helper.j,
             [disk EXCEPT !.bin = IF bin = "mixed" THEN "new" ELSE "mixed"])
  \/ SavePhase("replaced", "diagnose", "binary_replaced")
  \/ SavePhase("diagnose", "migrate", "diagnostics_passed")
  \/ Forward("migrate", "health", helper.j, [disk EXCEPT !.db.schema = "new"])
  \/ SavePhase("health", "install", "health_passed")
  \/ /\ helper.pc = "install"
     /\ IF Publishable
        THEN Forward("install", "commit", helper.j,
                     [disk EXCEPT !.state = Publish("installed")])
        ELSE Escapes(helper.j) /\ UNCHANGED <<disk, core, tally>>
  \/ Forward("commit", "finish", Seal("committed"),
             [disk EXCEPT !.journal = Seal("committed")])

(* The rollback keeps its phase and leaves the rest to the next helper.     *)
Retried == /\ disk' = [disk EXCEPT !.journal =
                         [helper.j EXCEPT !.phase = "rolling_back"]]
           /\ helper' = Exited

Backward(from, to, can, effect) ==
  /\ helper.pc = from
  /\ \/ can /\ disk' = effect /\ HelperAt(to) /\ UNCHANGED tally
     \/ can /\ Failure /\ Retried
     \/ ~can /\ Retried /\ UNCHANGED tally
  /\ UNCHANGED core

Restorable == backups[helper.j.backup.file] = helper.j.backup.writes

BeginRollback ==
  /\ helper.pc = "rollback"
  /\ \/ /\ disk' = [disk EXCEPT !.journal = Phase("rolling_back")]
        /\ helper' = [helper EXCEPT !.pc = "unwind", !.j = Phase("rolling_back")]
        /\ UNCHANGED tally
     \/ Failure /\ helper' = Exited /\ UNCHANGED disk
  /\ UNCHANGED core

(* The seal of a terminal phase that could not be saved stays in memory.    *)
DecideRollback ==
  /\ helper.pc = "reversed"
  /\ \/ /\ disk' = [disk EXCEPT !.journal = Seal("rolled_back")]
        /\ helper' = [helper EXCEPT !.pc = "finish", !.j = Seal("rolled_back")]
        /\ UNCHANGED tally
     \/ /\ Failure /\ helper' = Exited
        /\ disk' = [disk EXCEPT !.journal =
              [Seal("rolled_back") EXCEPT !.phase = "rolling_back"]]
  /\ UNCHANGED core

RollBack ==
  \/ BeginRollback \/ DecideRollback
  \/ Backward("unwind", IF bin = "new" THEN "unwind" ELSE "restore", TRUE,
              [disk EXCEPT !.bin = IF bin = "new" THEN "mixed" ELSE "old"])
  \/ Backward("restore", "revert", Restorable,
              [disk EXCEPT !.db = [writes |-> helper.j.backup.writes,
                                   schema |-> "old"]])
  \/ Backward("revert", "reversed", Publishable,
              [disk EXCEPT !.state = Publish("rolled_back")])

(* An abort announces itself before it changes the state.  What fails here  *)
(* ends the helper.                                                         *)
AbortStep(from, to, j, can, effect) ==
  /\ helper.pc = from
  /\ \/ /\ can /\ disk' = effect /\ UNCHANGED tally
        /\ helper' = [helper EXCEPT !.pc = to, !.j = j]
     \/ can /\ Failure /\ helper' = Exited /\ UNCHANGED disk
     \/ ~can /\ helper' = Exited /\ UNCHANGED <<disk, tally>>
  /\ UNCHANGED core

Abort ==
  \/ AbortStep("abort", "aborting", Phase("abort_requested"), TRUE,
               [disk EXCEPT !.journal = Phase("abort_requested")])
  \/ AbortStep("aborting", "aborted", helper.j, Publishable,
               [disk EXCEPT !.state = Publish("rolled_back")])
  \/ AbortStep("aborted", "finish", Seal("rolled_back"), TRUE,
               [disk EXCEPT !.journal = Seal("rolled_back")])

(* The terminal journal stands whatever fails from here on: the pointer is  *)
(* cleared, the RunOnce entry removed, the Core started.                    *)
Cleared == [state EXCEPT !.ptr = FALSE, !.cur = None, !.pend = None,
                         !.done = Identity(helper.j)]

ClearPointer(from, to) ==
  /\ helper.pc = from /\ UNCHANGED core
  /\ \/ /\ Publishable /\ disk' = [disk EXCEPT !.state = Cleared]
        /\ HelperAt(to) /\ UNCHANGED tally
     \/ /\ ~Publishable /\ UNCHANGED <<disk, tally>>
        /\ helper' = [helper EXCEPT !.pc = to, !.degraded = TRUE]
     \/ /\ Failure /\ UNCHANGED disk
        /\ helper' = [helper EXCEPT !.pc = to, !.degraded = TRUE]

Unregister ==
  /\ helper.pc = "unregister" /\ UNCHANGED core
  /\ \/ /\ disk' = [disk EXCEPT !.runonce = FALSE]
        /\ HelperAt("relaunch") /\ UNCHANGED tally
     \/ /\ Failure /\ UNCHANGED disk
        /\ helper' = [helper EXCEPT !.pc = "relaunch", !.degraded = TRUE]

Relaunch ==
  /\ helper.pc = "relaunch" /\ UNCHANGED <<disk, tally>>
  /\ core' = IF /\ core.pc = "off"
                /\ bin = (IF helper.j.phase = "committed" THEN "new" ELSE "old")
             THEN [NotRunning EXCEPT !.pc = "guard", !.version = bin]
             ELSE core
  /\ helper' = IF helper.degraded THEN [helper EXCEPT !.pc = "record"]
               ELSE Exited

Record == /\ helper.pc = "record" /\ UNCHANGED <<core, tally>>
          /\ disk' = IF journal # None /\ Publishable
                     THEN [disk EXCEPT !.state = Cleared] ELSE disk
          /\ helper' = Exited

Finish == ClearPointer("finish", "unregister") \/ Unregister \/ Relaunch
          \/ Record

-----------------------------------------------------------------------------
(* The machine: a power loss ends every process; Windows removes a RunOnce  *)
(* entry before it runs it, at the next login.                              *)

Crash == /\ tally.crashes < MaxCrashes
         /\ tally' = [tally EXCEPT !.crashes = @ + 1]
         /\ core' = NotRunning
         /\ helper' = [Exited EXCEPT !.pc = IF disk.runonce THEN "login"
                                            ELSE "off"]
         /\ UNCHANGED disk

Login == /\ helper.pc = "login"
         /\ disk' = [disk EXCEPT !.runonce = FALSE]
         /\ helper' = IF tree = "all" THEN [Exited EXCEPT !.pc = "load"]
                      ELSE Exited
         /\ UNCHANGED <<core, tally>>

Serves == Write \/ Install \/ HandoffFails \/ Cancel \/ Close
          \/ LeaveWithSave \/ LeaveWithout \/ RetireFails \/ RetireAgain
Starts == Start \/ Guard \/ GuardLaunches \/ Reclaim \/ Open \/ Retire \/ Exit
Helps == Login \/ Load \/ Wait \/ Apply \/ RollBack \/ Abort \/ Finish

Next == Serves \/ Handoff \/ Starts \/ Helps \/ Crash

(* A process that runs goes on; a program that was left off is started      *)
(* again, by the login or by its user.                                      *)
Fairness == WF_vars(Handoff) /\ WF_vars(Starts) /\ WF_vars(Helps)

Spec == Init /\ [][Next]_vars /\ Fairness

-----------------------------------------------------------------------------
(* Properties *)

(* Whatever crashed or failed before it, a Core that serves is one whole    *)
(* version, on the schema of that version, with every write that a Core     *)
(* ever acknowledged, while no helper replaces or restores anything.        *)
ServedIntact ==
  core.pc \in Serving \cup Installing =>
    /\ bin = core.version /\ db.schema = bin
    /\ db.writes = tally.written
    /\ helper.pc \notin Applying \cup RollingBack

(* From the first replaced file to the decision the way back stays whole:   *)
(* the copies, the secret, and the backup of the stopped Core that the      *)
(* journal names, with every acknowledged write.                            *)
RollbackReady ==
  journal # None /\ journal.phase \in {"cutover_started", "binary_replaced",
      "diagnostics_passed", "health_passed", "rolling_back"}
    => /\ tree = "all" /\ cred
       /\ backups[journal.backup.file] = journal.backup.writes
       /\ journal.backup.writes = tally.written

(* The update is atomic to its user.  The journal decides; once it is       *)
(* retired the state without a pointer stands for it.                       *)
Decision ==
  IF journal # None
  THEN IF journal.phase \in TerminalPhases THEN Outcome(journal.phase)
       ELSE "open"
  ELSE IF state.phase \in {"installed", "rolled_back"} /\ ~state.ptr
  THEN state.phase ELSE "open"

Runs == IF core.pc \in Serving \cup Installing THEN core.version
        ELSE "stopped"

Update == INSTANCE AtomicUpdate
            WITH Old <- "old", New <- "new", Stopped <- "stopped",
                 outcome <- Decision, running <- Runs

ImplementsAtomicUpdate == Update!Spec

(* A handoff that was bound comes to its end, a crash at any point          *)
(* included, unless a write failed or another process wrote the state       *)
(* under the helper.                                                        *)
Settles == state.cur # None ~> ~state.ptr \/ tally.disturbed
=============================================================================
