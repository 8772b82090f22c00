------------------------ MODULE RegistrationPromise ------------------------
(***************************************************************************)
(* What the registration of the program with Windows promises: it keeps    *)
(* its hands off what others put in its places, and its journal outlives   *)
(* what the journal describes.  Only the shortcuts, the key and the        *)
(* journal are in it; module AppRegistration has the transaction.          *)
(*                                                                         *)
(* A shortcut file is its identity: a number for each file the program     *)
(* generates, Foreign for a file it did not.  A registry value is the      *)
(* build that wrote it (1 for a value every build writes alike).           *)
(***************************************************************************)
EXTENDS Integers, SequencesExt

CONSTANTS Plans,      \* the shortcuts, in the order they are published
          Meta        \* the registry values a build stamps, in order

VARIABLES target, key,    \* the shortcuts and the uninstall key
          record,         \* the journal on disk
          mem,            \* the journal a transaction works from
          acts            \* changes by the user or another program so far

Foreign == -1
Shortcuts == ToSet(Plans)
Values    == ToSet(Meta) \cup {"DisplayName"}

KeepsForeign ==
    acts' = acts =>
        /\ \A s \in Shortcuts : target[s] = Foreign => target'[s] = Foreign
        /\ key.mark = Foreign => key' = key
        /\ \A n \in Values : key.val[n] = Foreign => key'.val[n] = Foreign

(* No step of an installation, an upgrade, a recovery or an uninstall      *)
(* overwrites or removes a shortcut, a key or a value that another program *)
(* or the user put there, whenever it appeared between two steps.          *)
ForeignKept == [][KeepsForeign]_<<target, key>>

KeepsJournal ==
    record.phase # "none" /\ record'.phase = "none" =>
        /\ key.mark # 1
        /\ \A s \in Shortcuts : target[s] > 0 => mem.before # 0

(* The journal goes last: when it is removed, neither a shortcut nor the   *)
(* key the program published is left, whatever failed or crashed before.   *)
(* The recovery of an interrupted rollback of an upgrade is excepted: the  *)
(* code resumes it as the rollback of an installation and, with the key    *)
(* gone, removes the journal while the shortcuts stay.                     *)
JournalLast == [][KeepsJournal]_record
=============================================================================
