-------------------------- MODULE AppRegistration --------------------------
(***************************************************************************)
(* The Windows application registration (application_install.py): the      *)
(* shortcuts and the uninstall key of All The Context, which one           *)
(* transaction of an installation, an upgrade or an uninstall changes with *)
(* a journal on disk.                                                      *)
(*                                                                         *)
(* A crash loses the memory of the process and keeps files, key and        *)
(* journal; a step that fails (ok = FALSE) goes to the handler the code    *)
(* has for it.  A failure after which the process has nothing to do is a   *)
(* Crash.                                                                  *)
(***************************************************************************)
EXTENDS RegistrationPromise, Sequences

CONSTANTS Builds,     \* the builds, 1 to the newest
          MaxFaults,  \* bound on failed steps and crashes
          MaxActs,    \* bound on changes by the user or another program
          MaxRemovals \* bound on uninstalls

VARIABLES build,                  \* the build that is installed and runs
          temp,                   \* the temporaries of the shortcuts
          pc, mode, muts, todo, keyMade, failed,  \* one transaction, with mem
          faults, removals

ASSUME PlansAssumption ==
    /\ Plans \in Seq(STRING) \ {<<>>} /\ Meta \in Seq(STRING)
    /\ ToSet(Plans) \cap (ToSet(Meta) \cup {"DisplayName"}) = {}
    /\ 1 \in Builds
    /\ MaxFaults \in Nat /\ MaxActs \in Nat /\ MaxRemovals \in Nat

surface == <<target, temp, key>>
process == <<pc, mode, mem, muts, todo, keyMade, failed>>
vars == <<build, surface, record, process, faults, acts, removals>>

None  == 0
Names == Shortcuts \cup Values
Order == Plans \o <<"DisplayName">> \o Meta

Desired(n, b) == IF n \in ToSet(Meta) THEN b ELSE 1
NoKey      == [mark |-> None, val |-> [n \in Values |-> None]]
OwnKey(b)  == [mark |-> 1, val |-> [n \in Values |-> Desired(n, b)]]
ForeignKey == [mark |-> Foreign, val |-> [n \in Values |-> Foreign]]

Journal(p, b) ==
    [phase |-> p, active |-> {}, ids |-> [s \in Shortcuts |-> None],
     native |-> FALSE, created |-> FALSE, build |-> b, before |-> None]
NoJournal == Journal("none", None)

\* A file identity that neither a file nor a journal has.
NewFile ==
    CHOOSE n \in 1 .. 4 * Len(Plans) + 1 :
        \A s \in Shortcuts : n \notin {target[s], temp[s], mem.ids[s], record.ids[s]}

\* The surface journal j describes, exactly, for build b.
Bound(j)      == \A s \in Shortcuts : target[s] # None /\ target[s] = j.ids[s]
Matches(j, b) == j.created /\ j.native /\ key = OwnKey(b) /\ Bound(j)
IsDesired(j)  == j.build = build /\ Matches(j, build)

Init ==
    /\ build = 1
    /\ target = [s \in Shortcuts |-> None] /\ temp = [s \in Shortcuts |-> None]
    /\ key = NoKey /\ record = NoJournal
    /\ pc = "idle" /\ mode = "none" /\ mem = NoJournal
    /\ muts = {} /\ todo = <<>> /\ keyMade = FALSE /\ failed = FALSE
    /\ faults = 0 /\ acts = 0 /\ removals = 0

Outcome(ok) ==
    /\ ok \/ faults < MaxFaults
    /\ faults' = IF ok THEN faults ELSE faults + 1
    /\ UNCHANGED <<build, acts, removals>>

\* The journal is replaced as one durable file; on failure only memory has j.
Persist(ok, p, a, j) ==
    /\ mem' = IF ok THEN [j EXCEPT !.phase = p, !.active = a] ELSE j
    /\ record' = IF ok THEN mem' ELSE record

Reset ==
    /\ pc' = "idle" /\ mode' = "none" /\ mem' = NoJournal
    /\ muts' = {} /\ todo' = <<>> /\ keyMade' = FALSE /\ failed' = FALSE

Goto(p) == pc' = p /\ UNCHANGED <<mode, todo, failed>>
Restore == pc' = "begin" /\ mode' = "restore" /\ UNCHANGED <<todo, failed>>

-----------------------------------------------------------------------------
(* A call of install or uninstall loads the journal and resumes what it says. *)

\* The first installation: the surface has to be empty.
StartFresh ==
    /\ record = NoJournal
    /\ \A s \in Shortcuts : target[s] = None
    /\ \A n \in Values : key.val[n] = None
    /\ pc' = "generate" /\ mode' = "apply" /\ todo' = Plans
    /\ mem' = Journal("applying", build) /\ record' = mem'
    /\ UNCHANGED <<muts, keyMade, failed>>

StartMigration ==
    /\ record.phase = "installed" /\ record.build < build /\ Matches(record, record.build)
    /\ mem' = [record EXCEPT !.build = build, !.before = record.build]
    /\ muts' = ToSet(Meta)
    /\ pc' = "migrate" /\ mode' = "migrate"
    /\ UNCHANGED <<record, todo, keyMade, failed>>

StartUninstall ==
    /\ removals < MaxRemovals /\ removals' = removals + 1
    /\ record.phase = "installed" /\ IsDesired(record)
    /\ mem' = [record EXCEPT !.phase = "uninstalling", !.active = Names] /\ record' = mem'
    /\ muts' = Names /\ keyMade' = TRUE
    /\ pc' = "begin" /\ mode' = "uninstall"
    /\ UNCHANGED <<todo, failed>>

ResumeMigration ==
    /\ record.phase = "migrating"
    /\ pc' = "check" /\ mode' = "remigrate" /\ mem' = record
    /\ UNCHANGED <<record, muts, todo, keyMade, failed>>

ResumeRestoring ==
    /\ record.phase \in {"restoring", "uninstalling"}
    /\ record.phase = "uninstalling" => record.created
    /\ mem' = record /\ muts' = record.active /\ keyMade' = record.created
    /\ pc' = "begin"
    /\ mode' = IF record.phase = "restoring" THEN "restore" ELSE "uninstall"
    /\ UNCHANGED <<record, todo, failed>>

ResumeUncreated ==
    /\ record.phase = "applying" /\ record.native /\ ~record.created
    /\ mem' = record /\ keyMade' = record.created
    /\ pc' = "recover" /\ mode' = "forward" /\ todo' = Plans
    /\ UNCHANGED <<record, muts, failed>>

\* Only a publication whose key was staged goes forward.
ResumeApplying ==
    /\ record.phase = "applying" /\ record.native
    /\ mem' = record /\ keyMade' = record.created
    /\ pc' = "recover" /\ mode' = "forward" /\ todo' = Plans
    /\ UNCHANGED <<record, muts, failed>>

Start ==
    /\ pc = "idle"
    /\ \/ StartFresh \/ StartMigration
       \/ ResumeMigration \/ ResumeRestoring \/ ResumeApplying
    /\ UNCHANGED <<build, surface, faults, acts, removals>>

Uninstall == pc = "idle" /\ StartUninstall /\ UNCHANGED <<build, surface, faults, acts>>

-----------------------------------------------------------------------------
(* The first installation, one shortcut after the other, then the key. *)

\* The shortcut is written beside its place; a failed generator may leave it.
Generate(ok) ==
    /\ pc = "generate" /\ Outcome(ok)
    /\ LET s == Head(todo) IN
       IF target[s] # None \/ temp[s] # None
       THEN ok /\ Restore /\ UNCHANGED temp
       ELSE /\ temp' = [temp EXCEPT ![s] = NewFile]
            /\ Goto(IF ok THEN "record" ELSE "clean")
    /\ UNCHANGED <<target, key, record, mem, muts, keyMade>>

\* The target is looked at again before the journal names the new file.
Record(ok) ==
    /\ pc = "record" /\ Outcome(ok)
    /\ LET s == Head(todo) IN
       IF target[s] # None
       THEN ok /\ Goto("clean") /\ UNCHANGED <<record, mem, muts>>
       ELSE /\ Persist(ok, "applying", mem.active \cup {s}, [mem EXCEPT !.ids[s] = temp[s]])
            /\ muts' = IF ok THEN muts \cup {s} ELSE muts
            /\ Goto(IF ok THEN "link" ELSE "clean")
    /\ UNCHANGED <<surface, keyMade>>

\* os.link refuses a target that is there.
Link(ok) ==
    /\ pc = "link" /\ Outcome(ok)
    /\ LET s == Head(todo) IN
       IF ok /\ target[s] = None
       THEN target' = [target EXCEPT ![s] = temp[s]] /\ Goto("unlink")
       ELSE UNCHANGED target /\ Goto("clean")
    /\ UNCHANGED <<temp, key, record, mem, muts, keyMade>>

Unlink(ok) ==
    /\ pc = "unlink" /\ Outcome(ok)
    /\ LET s == Head(todo) IN
       \/ /\ ok /\ target[s] = mem.ids[s]
          /\ temp' = [temp EXCEPT ![s] = None]
          /\ todo' = Tail(todo)
          /\ pc' = IF Tail(todo) = <<>> THEN "stage" ELSE "generate"
          /\ UNCHANGED <<mode, failed>>
       \/ ok /\ target[s] # mem.ids[s] /\ temp' = [temp EXCEPT ![s] = None] /\ Restore
       \/ ~ok /\ UNCHANGED temp /\ Goto("clean")
    /\ UNCHANGED <<target, key, record, mem, muts, keyMade>>

\* The finally clause of a shortcut that failed.
Clean(ok) ==
    /\ pc = "clean" /\ Outcome(ok)
    /\ temp' = IF ok THEN [temp EXCEPT ![Head(todo)] = None] ELSE temp
    /\ Restore
    /\ UNCHANGED <<target, key, record, mem, muts, keyMade>>

Stage(ok) ==
    /\ pc = "stage" /\ Outcome(ok)
    /\ Persist(ok, "applying", mem.active \cup {"DisplayName"}, [mem EXCEPT !.native = TRUE])
    /\ IF ok THEN Goto("publish") ELSE Restore
    /\ UNCHANGED <<surface, muts, keyMade>>

\* One registry transaction creates the key with all its values.
Publish(ok) ==
    /\ pc = "publish" /\ Outcome(ok)
    /\ IF ok /\ key = NoKey
       THEN key' = OwnKey(mem.build) /\ Goto("made")
       ELSE UNCHANGED key /\ Restore
    /\ UNCHANGED <<target, temp, record, mem, muts, keyMade>>

Made(ok) ==
    /\ pc = "made" /\ Outcome(ok)
    /\ IF key = OwnKey(mem.build)
       THEN /\ keyMade' = TRUE
            /\ Persist(ok, "applying", mem.active, [mem EXCEPT !.created = TRUE])
            /\ IF ok THEN Goto("finish") ELSE Restore
       ELSE ok /\ Restore /\ UNCHANGED <<keyMade, mem, record>>
    /\ UNCHANGED <<surface, muts>>

Finish(ok) ==
    /\ pc = "finish" /\ Outcome(ok)
    /\ IF ok THEN Reset /\ record' = [mem EXCEPT !.phase = "installed", !.active = Names]
             ELSE Restore /\ UNCHANGED <<mem, muts, keyMade, record>>
    /\ UNCHANGED surface

-----------------------------------------------------------------------------
(* Forward recovery of an interrupted first installation. *)

Give == Reset /\ UNCHANGED <<surface, record>>

\* The next shortcut, or the final check.
Advance ==
    /\ todo' = Tail(todo)
    /\ pc' = IF Tail(todo) = <<>> THEN "recovered" ELSE "shortcut"
    /\ UNCHANGED <<mode, failed>>

RecoverKey ==
    /\ pc = "recover" /\ Outcome(TRUE)
    /\ \/ /\ ~mem.created /\ key = NoKey
          /\ key' = OwnKey(mem.build) /\ Goto("recoverMade")
          /\ UNCHANGED <<target, temp, record, mem, muts, keyMade>>
       \/ /\ mem.created /\ key = OwnKey(mem.build)
          /\ Goto("shortcut") /\ UNCHANGED <<surface, record, mem, muts, keyMade>>
       \/ ~mem.created /\ key # NoKey /\ Give
       \/ mem.created /\ key # OwnKey(mem.build) /\ Give

RecoverMade ==
    /\ pc = "recoverMade" /\ Outcome(TRUE)
    /\ IF key = OwnKey(mem.build)
       THEN /\ keyMade' = TRUE /\ Goto("shortcut")
            /\ Persist(TRUE, "applying", mem.active, [mem EXCEPT !.created = TRUE])
            /\ UNCHANGED <<surface, muts>>
       ELSE Give

RecoverShortcut ==
    /\ pc = "shortcut" /\ Outcome(TRUE)
    /\ LET s == Head(todo)
           known == {None, mem.ids[s]}
       IN
       \/ (target[s] \notin known \/ temp[s] \notin known) /\ Give
       \/ /\ target[s] # None /\ target[s] = mem.ids[s] /\ temp[s] = None /\ Advance
          /\ UNCHANGED <<surface, record, mem, muts, keyMade>>
       \/ /\ target[s] \in known /\ temp[s] # None /\ temp[s] = mem.ids[s]
          /\ target' = [target EXCEPT ![s] = temp[s]] /\ Goto("unlinkAgain")
          /\ UNCHANGED <<temp, key, record, mem, muts, keyMade>>
       \/ /\ target[s] = None /\ temp[s] = None
          /\ temp' = [temp EXCEPT ![s] = NewFile] /\ Goto("linkAgain")
          /\ UNCHANGED <<target, key, record, mem, muts, keyMade>>

\* A generated file whose link fails is cleaned up.
LinkAgain(ok) ==
    /\ pc = "linkAgain" /\ Outcome(ok)
    /\ LET s == Head(todo) IN
       IF ok /\ target[s] = None
       THEN /\ target' = [target EXCEPT ![s] = temp[s]] /\ Goto("unlinkAgain")
            /\ UNCHANGED <<temp, mem, muts, keyMade>>
       ELSE temp' = [temp EXCEPT ![s] = None] /\ Reset /\ UNCHANGED target
    /\ UNCHANGED <<key, record>>

UnlinkAgain ==
    /\ pc = "unlinkAgain" /\ Outcome(TRUE)
    /\ temp' = [temp EXCEPT ![Head(todo)] = None]
    /\ Goto("bind")
    /\ UNCHANGED <<target, key, record, mem, muts, keyMade>>

Bind ==
    /\ pc = "bind" /\ Outcome(TRUE)
    /\ LET s == Head(todo) IN
       IF target[s] \in {None, Foreign}
       THEN Give
       ELSE /\ Persist(TRUE, "applying", mem.active, [mem EXCEPT !.ids[s] = target[s]])
            /\ Advance /\ UNCHANGED <<surface, muts, keyMade>>

Recovered ==
    /\ pc = "recovered" /\ Outcome(TRUE) /\ Reset
    /\ record' = IF IsDesired(mem)
               THEN [mem EXCEPT !.phase = "installed", !.active = Names] ELSE record
    /\ UNCHANGED surface

-----------------------------------------------------------------------------
(* An upgrade stamps the values of the new build on an installed key. *)

Compensate ==
    IF mode = "migrate"
    THEN /\ pc' = "begin" /\ mode' = "rollback"
         /\ UNCHANGED <<surface, record, mem, muts, todo, keyMade, failed>>
    ELSE Give

Migrate(ok) ==
    /\ pc = "migrate" /\ Outcome(ok)
    /\ Persist(ok, "migrating", ToSet(Meta), mem)
    /\ pc' = IF ok THEN "check" ELSE "begin"
    /\ mode' = IF ok THEN mode ELSE "rollback"
    /\ UNCHANGED <<surface, muts, todo, keyMade, failed>>

\* The key is exactly the old build's or exactly the new one's.
CheckMigration ==
    /\ pc = "check" /\ Outcome(TRUE)
    /\ IF key \in {OwnKey(mem.before), OwnKey(mem.build)}
       THEN /\ pc' = "stamp" /\ todo' = Meta
            /\ UNCHANGED <<surface, record, mem, mode, muts, keyMade, failed>>
       ELSE Compensate

\* Compare and set of one value.
Stamp(ok) ==
    /\ pc = "stamp" /\ todo # <<>> /\ Outcome(ok)
    /\ LET n == Head(todo) IN
       IF ok /\ key.val[n] \in {mem.before, mem.build}
       THEN /\ key' = [key EXCEPT !.val[n] = mem.build]
            /\ todo' = Tail(todo)
            /\ UNCHANGED <<target, temp, record, pc, mode, mem, muts, keyMade, failed>>
       ELSE Compensate

Migrated(ok) ==
    /\ pc = "stamp" /\ todo = <<>> /\ Outcome(ok)
    /\ IF ok /\ IsDesired(mem)
       THEN /\ record' = [mem EXCEPT !.phase = "installed", !.active = Names, !.before = None]
            /\ Reset /\ UNCHANGED surface
       ELSE Compensate

-----------------------------------------------------------------------------
(* Compensation: the changes in muts are taken back, the last one first. *)

\* Recovery of a journal whose key is staged and not recorded goes forward.
PendingKey == mem.native /\ ~mem.created
Direction ==
    IF mode # "rollback" /\ PendingKey THEN "applying"
    ELSE IF mode = "uninstall" THEN "uninstalling" ELSE "restoring"

Begin(ok) ==
    /\ pc = "begin" /\ Outcome(ok)
    /\ IF muts = {} THEN ok /\ UNCHANGED <<mem, record>> ELSE Persist(ok, Direction, muts, mem)
    /\ failed' = ~ok
    /\ todo' = Reverse(SelectSeq(Order, LAMBDA n : n \in muts))
    /\ pc' = IF mode = "rollback" THEN "undo" ELSE "deleteKey"
    /\ UNCHANGED <<surface, mode, muts, keyMade>>

\* One registry transaction deletes the key if it is exactly the journal's.
KeyDeletable == keyMade /\ key \in {NoKey, OwnKey(mem.build)}

DeleteKey(ok) ==
    /\ pc = "deleteKey" /\ Outcome(ok)
    /\ IF ok /\ KeyDeletable
       THEN /\ key' = NoKey /\ keyMade' = FALSE
            /\ muts' = muts \ Values
            /\ todo' = SelectSeq(todo, LAMBDA n : n \notin Values)
       ELSE (~ok => keyMade) /\ UNCHANGED <<key, keyMade, muts, todo>>
    /\ pc' = "undo"
    /\ UNCHANGED <<target, temp, record, mode, mem, failed>>

Prior(n) == IF n \in ToSet(Meta) /\ mode # "uninstall" THEN mem.before ELSE None

UndoableByPath(n) ==
    n \in Values => (key = NoKey => Prior(n) = None) /\ key.val[n] \in {Prior(n), Desired(n, build)}
\* A shortcut goes only as the file the journal binds, a value only if it is ours.
Undoable(n) ==
    IF n \in Shortcuts
    THEN {temp[n], target[n]} \subseteq {None, mem.ids[n]}
    ELSE (key = NoKey => Prior(n) = None) /\ key.val[n] \in {Prior(n), Desired(n, build)}

Without(f, n) == IF n \in Shortcuts THEN [f EXCEPT ![n] = None] ELSE f

Undo(ok) ==
    /\ pc = "undo" /\ todo # <<>> /\ Outcome(ok)
    /\ LET n == Head(todo) IN
       IF ok /\ Undoable(n)
       THEN /\ target' = Without(target, n) /\ temp' = Without(temp, n)
            /\ key' = IF n \in Values THEN [key EXCEPT !.val[n] = Prior(n)] ELSE key
            /\ muts' = muts \ {n} /\ pc' = "note" /\ UNCHANGED <<todo, failed>>
       ELSE /\ todo' = Tail(todo) /\ failed' = TRUE
            /\ UNCHANGED <<surface, muts, pc>>
    /\ UNCHANGED <<record, mode, mem, keyMade>>

Note(ok) ==
    /\ pc = "note" /\ Outcome(ok)
    /\ Persist(ok, Direction, muts, mem)
    /\ todo' = Tail(todo) /\ failed' = (failed \/ ~ok) /\ pc' = "undo"
    /\ UNCHANGED <<surface, mode, muts, keyMade>>

\* The key is tried once more when nothing else is left.
LastKey(ok) ==
    /\ pc = "undo" /\ todo = <<>> /\ mode # "rollback" /\ Outcome(ok)
    /\ IF ok /\ muts = {} /\ KeyDeletable
       THEN key' = NoKey /\ keyMade' = FALSE
       ELSE (~ok => muts = {} /\ keyMade) /\ UNCHANGED <<key, keyMade>>
    /\ Goto("close")
    /\ UNCHANGED <<target, temp, record, mem, muts>>

ClearedWithMutations == ~keyMade /\ ~PendingKey
\* The journal goes when nothing of the transaction is left.
Cleared == muts = {} /\ ~keyMade /\ ~PendingKey

Close ==
    /\ pc = "close" /\ Outcome(TRUE)
    /\ record' = IF Cleared /\ (~mem.created => key = NoKey) THEN NoJournal ELSE record
    /\ Reset /\ UNCHANGED surface

AllBack == muts = {} /\ ~failed

\* The old build's installed record comes back only if every step succeeded.
RolledBack ==
    /\ pc = "undo" /\ todo = <<>> /\ mode = "rollback" /\ Outcome(TRUE)
    /\ record' = IF AllBack
               THEN [mem EXCEPT !.phase = "installed", !.active = Names,
                                !.build = mem.before, !.before = None]
               ELSE record
    /\ Reset /\ UNCHANGED surface

-----------------------------------------------------------------------------
Crash ==
    /\ pc # "idle" /\ Outcome(FALSE) /\ Reset /\ UNCHANGED <<surface, record>>

\* A newer build is installed while no registration runs.
Upgrade ==
    /\ pc = "idle" /\ build + 1 \in Builds /\ build' = build + 1
    /\ UNCHANGED <<surface, record, process, faults, acts, removals>>

\* The user or another program changes the surface.
Elsewhere ==
    /\ acts < MaxActs /\ acts' = acts + 1
    /\ \/ \E s \in Shortcuts : \E f \in {None, Foreign} :
              target[s] # f /\ target' = [target EXCEPT ![s] = f] /\ UNCHANGED key
       \/ \E n \in Values :
              key.mark = 1 /\ key' = [key EXCEPT !.val[n] = Foreign] /\ UNCHANGED target
       \/ /\ key' = IF key = NoKey THEN ForeignKey ELSE NoKey
          /\ UNCHANGED target
    /\ UNCHANGED <<build, temp, record, process, faults, removals>>

\* The steps of a transaction.
Work ==
    \/ \E ok \in BOOLEAN :
           \/ Generate(ok) \/ Record(ok) \/ Link(ok) \/ Unlink(ok) \/ Clean(ok)
           \/ Stage(ok) \/ Publish(ok) \/ Made(ok) \/ Finish(ok)
           \/ LinkAgain(ok) \/ Migrate(ok) \/ Stamp(ok) \/ Migrated(ok)
           \/ Begin(ok) \/ DeleteKey(ok) \/ Undo(ok) \/ Note(ok) \/ LastKey(ok)
    \/ RecoverKey \/ RecoverMade \/ RecoverShortcut \/ UnlinkAgain \/ Bind \/ Recovered
    \/ CheckMigration \/ Close \/ RolledBack

Next == Start \/ Uninstall \/ Work \/ Crash \/ Upgrade \/ Elsewhere

\* A started call goes on, and the installation is run again.
Spec == Init /\ [][Next]_vars /\ WF_vars(Work) /\ WF_vars(Start)

-----------------------------------------------------------------------------
Phases     == {"applying", "installed", "migrating", "restoring", "uninstalling"}
Applying   == {"generate", "record", "link", "unlink", "clean", "stage", "publish",
               "made", "finish"}
Forwarding == {"recover", "recoverMade", "shortcut", "linkAgain", "unlinkAgain", "bind",
               "recovered"}
Migrating  == {"migrate", "check", "stamp"}
Undoing    == {"begin", "deleteKey", "undo", "note", "close"}

\* The program never takes a foreign file for its own.
Files == Int \ {Foreign}
JournalType ==
    [phase : Phases \cup {"none"}, active : SUBSET Names, ids : [Shortcuts -> Files],
     native : BOOLEAN, created : BOOLEAN, build : Nat, before : Nat]

TallyType ==
    /\ build \in Builds \cap (Nat \ {0}) /\ faults \in 0 .. MaxFaults
    /\ acts \in 0 .. MaxActs /\ removals \in 0 .. MaxRemovals
SurfaceType ==
    /\ target \in [Shortcuts -> Int] /\ temp \in [Shortcuts -> Files]
    /\ key \in [mark : {None, 1, Foreign}, val : [Values -> Int]]
CallType ==
    /\ pc \in {"idle"} \cup Applying \cup Forwarding \cup Migrating \cup Undoing
    /\ muts \subseteq Names /\ keyMade \in BOOLEAN /\ failed \in BOOLEAN

TypeOK == TallyType /\ SurfaceType /\ CallType /\ record \in JournalType /\ mem \in JournalType

Registered == record.phase = "installed" /\ IsDesired(record)

\* The states in which every further call of install is refused.
Refused ==
    \/ acts > 0
    \/ record = NoJournal /\ \E s \in Shortcuts : target[s] # None \/ temp[s] # None
    \/ record.phase = "applying" /\
        \/ ~record.native \/ record.build # build
        \/ key # (IF record.created THEN OwnKey(record.build) ELSE NoKey)
        \/ \E s \in Shortcuts : ~({target[s], temp[s]} \subseteq {None, record.ids[s]})
    \/ record.phase = "migrating" /\
        \/ record.build # build
        \/ key \notin {OwnKey(record.before), OwnKey(record.build)}
    \/ record.phase \in {"restoring", "uninstalling"} /\ key \notin {NoKey, OwnKey(record.build)}

(* Every call comes to an end, and an installation that is run again after *)
(* the last failure or crash ends with the shortcuts and the key of the    *)
(* running build registered, except in the states named Refused.           *)
Settles == []<>(pc = "idle") /\ <>[](pc = "idle" => Registered \/ Refused)
=============================================================================
