--------------------------- MODULE ContextRecords ---------------------------
(***************************************************************************)
(* The life of a context record in the Core vault (CoreStore, storage.py): *)
(* creation from an observation or an approval, automatic updates, user    *)
(* corrections, deletion and restoration, capture withdrawal and revival,  *)
(* source deletion and its undo, source rebuild, and irreversible purge.   *)
(*                                                                         *)
(* Every action is one SQLite write transaction, so a step is the whole    *)
(* transaction.  `row' is table context_records (its domain is the ids     *)
(* present); `versions' is context_record_versions, a snapshot being the   *)
(* row it was taken of; `outbox' is replication_events, kept per record    *)
(* because the order between two records' events is not at issue here.     *)
(* Sensitivity, access lists, slots and text are left out; a content is an *)
(* opaque value and availability is replicated ("always") or not ("core"). *)
(***************************************************************************)
EXTENDS Integers, Sequences, FiniteSets

CONSTANTS Records,     \* record ids (new_id, or the canonical id of a captured item)
          Sources,     \* imported archives
          Contents,
          Channels,    \* the origins of observations considered
          MaxVersion,  \* bound: versions of one record
          NoRecord, NoSource, NoContent

ASSUME VersionAssumption == MaxVersion \in Nat \ {0}
ASSUME NullAssumption == /\ NoRecord \notin Records
                         /\ NoSource \notin Sources
                         /\ NoContent \notin Contents
(* purge_tombstones is keyed by the kind of its target as well as the id:  *)
(* the entry of a source is never taken for that of a record.              *)
ASSUME KindAssumption == Records \cap Sources = {}
ASSUME ChannelAssumption == Channels \subseteq {"client", "archive_import", "registered_source"}

VARIABLES
  row,               \* context_records
  versions,          \* context_record_versions: <<record, snapshot>>
  tombstones,        \* deletion_tombstones
  mutations,         \* context_user_mutations: <<record, kind, evidence_version, restored>>
  fts,               \* context_fts
  purge_tombstones,  \* records and sources
  source_state,      \* source_records: "live", "deleted" or "purged"
  members,           \* source_deletion_members: <<source, record, deleted_version>>
  outbox

vars == <<row, versions, tombstones, mutations, fts, purge_tombstones,
          source_state, members, outbox>>

Versions       == 1 .. MaxVersion
Availabilities == {"always", "core"}
Origins        == {"local_admin"} \cup Channels
MutationKinds  == {"correction", "availability_change", "restore", "delete", "source_delete"}
EventTypes     == {"record_upserted", "record_withdrawn", "record_deleted", "record_purged"}

Row == [version : Versions, content : Contents, availability : Availabilities,
        supersedes : Records \cup {NoRecord}, origin : Origins,
        source : Sources \cup {NoSource}, deleted : BOOLEAN, expired : BOOLEAN]
Tombstone == [deleted_version : Versions, deletion_origin : {"ordinary", "source_rebuild"}]
Event     == [type : EventTypes, content : Contents \cup {NoContent}]

-----------------------------------------------------------------------------
Nothing     == [r \in {} |-> NoRecord]
Known       == DOMAIN row
Live(r)     == r \in Known /\ ~row[r].deleted
Fresh(r)    == r \notin Known \cup purge_tombstones
Room(r, n)  == row[r].version + n <= MaxVersion
Outranks(f, g) == [r \in DOMAIN f \cup DOMAIN g |-> IF r \in DOMAIN f THEN f[r] ELSE g[r]]
Without(f, S)  == [r \in DOMAIN f \ S |-> f[r]]

(* _record_has_user_edit_tx *)
HasUserEdit(r) == \E m \in mutations : m[1] = r

(* No live record supersedes it.                                           *)
Current(r) == Live(r) /\ \A n \in Known : Live(n) => row[n].supersedes # r

(* _validate_supersedes_tx walks the chain from the target: every link     *)
(* exists and none is the record itself.                                   *)
ValidSupersedes(r, target) ==
  target # NoRecord =>
    \E chain \in SUBSET (Known \ {r}) :
      /\ target \in chain
      /\ \A x \in chain : row[x].supersedes \in chain \cup {NoRecord}

(* The rows `changed' are written and a snapshot of each is inserted.      *)
Write(changed) ==
  /\ row' = Outranks(changed, row)
  /\ versions' = versions \cup {<<r, changed[r]>> : r \in DOMAIN changed}

Upsert(x) == [type |-> "record_upserted", content |-> x.content]
Opaque(t) == [type |-> t, content |-> NoContent]

(* _emit_event, for each record of the domain of `posted'.                 *)
Emit(posted) == outbox' = [r \in Records |-> IF r \in DOMAIN posted
                                             THEN Append(outbox[r], posted[r])
                                             ELSE outbox[r]]

(* What most operations tell the relay of a record written from x to y.    *)
Announced(r, x, y) ==
  IF y.availability = "always" THEN [p \in {r} |-> Upsert(y)]
  ELSE IF x.availability = "always" THEN [p \in {r} |-> Opaque("record_withdrawn")]
  ELSE Nothing

Recorded(S, kind, restored) == {<<r, kind, row[r].version + 1, restored>> : r \in S}
Next1(x) == [x EXCEPT !.version = @ + 1]
Gone(x)  == [Next1(x) EXCEPT !.deleted = TRUE]
Back(x)  == [Next1(x) EXCEPT !.deleted = FALSE]

Init == /\ row = Nothing /\ versions = {} /\ tombstones = Nothing /\ mutations = {}
        /\ fts = {} /\ purge_tombstones = {} /\ members = {}
        /\ source_state = [s \in Sources |-> "live"]
        /\ outbox = [r \in Records |-> <<>>]

-----------------------------------------------------------------------------
(* Observations.                                                           *)

NewRow(c, a, target, o, s) ==
  [version |-> 1, content |-> c, availability |-> a, supersedes |-> target,
   origin |-> o, source |-> s, deleted |-> FALSE, expired |-> FALSE]

(* _create_record_from_observation_tx: an observation without a target.    *)
(* The automatic policy never selects "always".                            *)
Create(r, c, o, s) ==
  /\ Fresh(r)
  /\ s # NoSource <=> o = "archive_import"
  /\ s # NoSource => source_state[s] # "purged"
  /\ Write([p \in {r} |-> NewRow(c, "core", NoRecord, o, s)])
  /\ fts' = fts \cup {r}
  /\ UNCHANGED <<tombstones, mutations, purge_tombstones, source_state, members, outbox>>

(* approve_candidate: a pending candidate, with the superseded record, if  *)
(* any, withdrawn from the relay.                                          *)
Approve(r, c, a, target, s) ==
  /\ Fresh(r) /\ ValidSupersedes(r, target)
  /\ s # NoSource => source_state[s] # "purged"
  /\ LET x == NewRow(c, a, target, "local_admin", s)
         old == {t \in {target} : Live(t) /\ row[t].availability = "always"}
     IN /\ Write([p \in {r} |-> x])
        /\ Emit(Outranks([t \in old |-> Opaque("record_withdrawn")], Announced(r, x, x)))
  /\ fts' = fts \cup {r}
  /\ UNCHANGED <<tombstones, mutations, purge_tombstones, source_state, members>>

(* Mutant of Untouched: only the ledger of user mutations is consulted.    *)
UntouchedByLedger(r) == /\ r \in Known \ purge_tombstones /\ ~HasUserEdit(r)
                        /\ row[r].origin = "registered_source" /\ row[r].source = NoSource

(* _registered_source_influence_barrier_tx lets the capture source of the  *)
(* item act on the record.                                                 *)
Untouched(r) == /\ r \in Known \ purge_tombstones
                /\ ~HasUserEdit(r) /\ r \notin DOMAIN tombstones
                /\ row[r].origin = "registered_source" /\ row[r].source = NoSource

(* _update_record_from_observation_tx: an archive observation only targets *)
(* a record of its own source, a captured item only its own record.        *)
Update(r, c, o, keeps) ==
  /\ Current(r) /\ Room(r, 1)
  /\ o = "registered_source" => Untouched(r)
  /\ o = "archive_import" => keeps
  /\ LET x == [Next1(row[r]) EXCEPT !.content = c, !.availability = "core", !.origin = o,
                 !.source = IF keeps THEN @ ELSE NoSource,
                 !.expired = @ /\ keeps]
     IN Write([p \in {r} |-> x]) /\ Emit(Announced(r, row[r], x))
  /\ fts' = fts \cup {r}
  /\ UNCHANGED <<tombstones, mutations, purge_tombstones, source_state, members>>

(* Mutant of Reinforce: the relay is not told that the record is no longer *)
(* replicated.                                                             *)
ReinforceSilently(r) ==
  /\ Current(r) /\ Room(r, 1)
  /\ Write([p \in {r} |-> [Next1(row[r]) EXCEPT !.availability = "core"]])
  /\ UNCHANGED <<fts, tombstones, mutations, purge_tombstones, source_state, members, outbox>>

(* _reinforce_record_tx when the access terms become stricter.             *)
Reinforce(r) ==
  /\ Current(r) /\ Room(r, 1)
  /\ LET x == [Next1(row[r]) EXCEPT !.availability = "core"]
     IN Write([p \in {r} |-> x]) /\ Emit(Announced(r, row[r], x))
  /\ UNCHANGED <<fts, tombstones, mutations, purge_tombstones, source_state, members>>

-----------------------------------------------------------------------------
(* Capture sources.                                                        *)

(* _withdraw_registered_source_record_tx: no tombstone, no event.          *)
WithdrawRegistered(r) ==
  /\ Untouched(r) /\ Live(r) /\ Room(r, 1)
  /\ Write([p \in {r} |-> [Gone(row[r]) EXCEPT !.expired = TRUE]])
  /\ fts' = fts \ {r}
  /\ UNCHANGED <<tombstones, mutations, purge_tombstones, source_state, members, outbox>>

(* _reapply_registered_source_record_tx *)
ReviveRegistered(r, c) ==
  /\ Untouched(r) /\ row[r].deleted /\ Room(r, 1)
  /\ Write([p \in {r} |-> [Back(row[r]) EXCEPT !.content = c, !.availability = "core",
                             !.supersedes = NoRecord, !.expired = FALSE]])
  /\ fts' = fts \cup {r}
  /\ UNCHANGED <<tombstones, mutations, purge_tombstones, source_state, members, outbox>>

-----------------------------------------------------------------------------
(* User operations.                                                        *)

(* correct_record; without a new target the old one is validated again.    *)
Correct(r, c, target) ==
  /\ Live(r) /\ Room(r, 1)
  /\ target # NoRecord \/ row[r].supersedes = NoRecord
  /\ ValidSupersedes(r, target)
  /\ LET x == [Next1(row[r]) EXCEPT !.content = c, !.supersedes = target,
                                    !.origin = "local_admin"]
     IN Write([p \in {r} |-> x]) /\ Emit(Announced(r, x, x))
  /\ mutations' = mutations \cup Recorded({r}, "correction", 0)
  /\ fts' = fts \cup {r}
  /\ UNCHANGED <<tombstones, purge_tombstones, source_state, members>>

ChangeAvailability(r, a) ==
  /\ Live(r) /\ row[r].availability # a /\ Room(r, 1)
  /\ LET x == [Next1(row[r]) EXCEPT !.availability = a]
     IN Write([p \in {r} |-> x]) /\ Emit(Announced(r, row[r], x))
  /\ mutations' = mutations \cup Recorded({r}, "availability_change", 0)
  /\ UNCHANGED <<fts, tombstones, purge_tombstones, source_state, members>>

(* _delete_record_tx for a set of live records, with ordinary tombstones.  *)
Bury(S, origin_of) ==
  /\ fts' = fts \ S
  /\ tombstones' = Outranks([r \in S |-> [deleted_version |-> row[r].version + 1,
                                          deletion_origin |-> origin_of[r]]], tombstones)
  /\ Emit([r \in S |-> Opaque("record_deleted")])

(* delete_record, or an observation that asks to forget the record; only   *)
(* an archive's request is not recorded as the user's.                     *)
Delete(r, users) ==
  /\ Live(r) /\ Room(r, 1)
  /\ Write([p \in {r} |-> Gone(row[r])])
  /\ Bury({r}, [p \in {r} |-> "ordinary"])
  /\ mutations' = IF users THEN mutations \cup Recorded({r}, "delete", 0) ELSE mutations
  /\ UNCHANGED <<purge_tombstones, source_state, members>>

(* _restore_current_record_tx for a set of deleted records.                *)
Unbury(S, users) ==
  /\ Write([r \in S |-> Back(row[r])])
  /\ tombstones' = Without(tombstones, S)
  /\ mutations' = IF users THEN mutations \cup Recorded(S, "restore", 0) ELSE mutations
  /\ fts' = fts \cup S
  /\ Emit([r \in {p \in S : row[p].availability = "always"} |-> Upsert(row[r])])

(* restore_record without a version: an undeleted record gets one version  *)
(* that records the intent, unless that is what its version already is.    *)
RestoreCurrent(r) ==
  /\ r \in Known /\ Room(r, 1)
  /\ \/ /\ row[r].deleted
        /\ Unbury({r}, TRUE)
     \/ /\ ~row[r].deleted
        /\ \A m \in mutations : m[1] = r /\ m[2] = "restore" => m[3] # row[r].version
        /\ Write([p \in {r} |-> Next1(row[r])])
        /\ mutations' = mutations \cup Recorded({r}, "restore", 0)
        /\ UNCHANGED <<fts, tombstones, outbox>>
  /\ UNCHANGED <<purge_tombstones, source_state, members>>

(* A user's restore of version v is already in the ledger.                 *)
AlreadyRestored(r, v) == \E m \in mutations : m[1] = r /\ m[2] = "restore" /\ m[4] = v

(* The row restore_record(version=v) leaves, x being the snapshot of v.    *)
RestoredRow(r, v, x) ==
  IF AlreadyRestored(r, v) THEN row[r]
  ELSE [x EXCEPT !.version = row[r].version + 1, !.deleted = FALSE]

(* Mutants of RestoreVersion: the snapshot's supersedes is not validated   *)
(* again; the tombstone of the deletion stays.                             *)
RestoreVersionUnchecked(r, v) ==
  /\ r \in Known /\ Room(r, 1) /\ ~AlreadyRestored(r, v)
  /\ \E x \in {snap[2] : snap \in {e \in versions : e[1] = r /\ e[2].version = v}} :
       /\ Write([p \in {r} |-> RestoredRow(r, v, x)])
       /\ Emit(Announced(r, row[r], RestoredRow(r, v, x)))
  /\ tombstones' = Without(tombstones, {r})
  /\ mutations' = mutations \cup Recorded({r}, "restore", v)
  /\ fts' = fts \cup {r}
  /\ UNCHANGED <<purge_tombstones, source_state, members>>

RestoreVersionKeepsTombstone(r, v) ==
  /\ r \in Known /\ Room(r, 1) /\ ~AlreadyRestored(r, v)
  /\ \E x \in {snap[2] : snap \in {e \in versions : e[1] = r /\ e[2].version = v}} :
       /\ ValidSupersedes(r, x.supersedes)
       /\ Write([p \in {r} |-> RestoredRow(r, v, x)])
       /\ Emit(Announced(r, row[r], RestoredRow(r, v, x)))
  /\ mutations' = mutations \cup Recorded({r}, "restore", v)
  /\ fts' = fts \cup {r}
  /\ UNCHANGED <<tombstones, purge_tombstones, source_state, members>>

RestoreVersion(r, v) ==
  /\ r \in Known /\ Room(r, 1) /\ ~AlreadyRestored(r, v)
  /\ \E x \in {snap[2] : snap \in {e \in versions : e[1] = r /\ e[2].version = v}} :
       /\ ValidSupersedes(r, x.supersedes)
       /\ Write([p \in {r} |-> RestoredRow(r, v, x)])
       /\ Emit(Announced(r, row[r], RestoredRow(r, v, x)))
  /\ tombstones' = Without(tombstones, {r})
  /\ mutations' = mutations \cup Recorded({r}, "restore", v)
  /\ fts' = fts \cup {r}
  /\ UNCHANGED <<purge_tombstones, source_state, members>>

-----------------------------------------------------------------------------
(* Sources.                                                                *)

SourceRecords(s) == {r \in Known : row[r].source = s}

(* delete_source: its live records go with it and are remembered with the  *)
(* version of that deletion.                                               *)
DeleteSource(s) ==
  /\ source_state[s] = "live"
  /\ source_state' = [source_state EXCEPT ![s] = "deleted"]
  /\ LET S == {r \in SourceRecords(s) : Live(r)}
     IN /\ \A r \in S : Room(r, 1)
        /\ Write([r \in S |-> Gone(row[r])])
        /\ Bury(S, [r \in S |-> "ordinary"])
        /\ mutations' = mutations \cup Recorded(S, "source_delete", 0)
        /\ members' = members \cup {<<s, r, row[r].version + 1>> : r \in S}
  /\ UNCHANGED purge_tombstones

(* Mutant of Undone: any member that is deleted.                           *)
UndoneAnyDeletion(s) == {r \in Known : /\ row[r].deleted /\ r \in DOMAIN tombstones
                                       /\ \E v \in Versions : <<s, r, v>> \in members}

(* The members restore_source brings back: those whose tombstone still is  *)
(* the one the source deletion made.                                       *)
Undone(s) == {r \in Known : /\ row[r].deleted /\ r \in DOMAIN tombstones
                            /\ <<s, r, tombstones[r].deleted_version>> \in members}

(* _restore_source_tx, for the user or for a duplicate import.             *)
RestoreSource(s, users) ==
  /\ source_state[s] = "deleted"
  /\ source_state' = [source_state EXCEPT ![s] = "live"]
  /\ \A r \in Undone(s) : Room(r, 1)
  /\ Unbury(Undone(s), users)
  /\ members' = {m \in members : m[1] # s}
  /\ UNCHANGED purge_tombstones

(* Mutant of Automatic: the ledger of user mutations is not consulted.     *)
AutomaticUnlessCorrected(s) ==
  {r \in SourceRecords(s) : Live(r) /\ row[r].origin = "archive_import"}

(* _withdraw_automatic_source_records_tx takes these.                      *)
Automatic(s) == {r \in SourceRecords(s) : /\ Live(r) /\ row[r].origin = "archive_import"
                                          /\ ~HasUserEdit(r)}

(* publish_source_rebuild, one transaction: the automatic records of the   *)
(* source are deleted; those the new session found again (`kept', among    *)
(* those whose identity is intact, `sound') are reapplied under their id   *)
(* with a second version; the rest stay deleted and `added' are new.       *)
Rebuild(s, sound, kept, added, c) ==
  /\ source_state[s] = "live" /\ "archive_import" \in Channels
  /\ kept \subseteq sound /\ sound \subseteq Automatic(s)
  /\ \A r \in added : Fresh(r)
  /\ \A r \in Automatic(s) : Room(r, IF r \in kept THEN 2 ELSE 1)
  /\ LET gone   == [r \in Automatic(s) |-> Gone(row[r])]
         back   == [r \in kept |-> [Back(gone[r]) EXCEPT !.availability = "core",
                                      !.supersedes = NoRecord, !.expired = FALSE]]
         new    == [r \in added |-> NewRow(c, "core", NoRecord, "archive_import", s)]
     IN /\ row' = Outranks(new, Outranks(back, Outranks(gone, row)))
        /\ versions' = versions \cup {<<r, gone[r]>> : r \in Automatic(s)}
                         \cup {<<r, back[r]>> : r \in kept}
                         \cup {<<r, new[r]>> : r \in added}
        /\ fts' = (fts \ (Automatic(s) \ kept)) \cup added
        /\ tombstones' = Outranks([r \in Automatic(s) \ kept |->
                            [deleted_version |-> gone[r].version,
                             deletion_origin |-> IF r \in sound THEN "source_rebuild"
                                                 ELSE "ordinary"]], tombstones)
        /\ Emit([r \in Automatic(s) |-> Opaque("record_deleted")])
  /\ UNCHANGED <<mutations, purge_tombstones, source_state, members>>

-----------------------------------------------------------------------------
Forgetful(S, x) == IF x.supersedes \in S THEN [x EXCEPT !.supersedes = NoRecord] ELSE x

(* Mutant of Erase: the payloads of the earlier events stay.               *)
EraseKeepsPayloads(S) ==
  /\ row' = [r \in Known \ S |-> Forgetful(S, row[r])]
  /\ versions' = {e \in versions : e[1] \notin S}
  /\ tombstones' = Without(tombstones, S)
  /\ fts' = fts \ S
  /\ Emit([r \in S |-> Opaque("record_purged")])
  /\ UNCHANGED mutations

(* _purge_record_tx for a set of records: their earlier events lose their  *)
(* payload, then each is announced purged; rows that supersede them forget *)
(* it.  The ledger of mutations has no foreign key and stays.              *)
Erase(S) ==
  /\ row' = [r \in Known \ S |-> Forgetful(S, row[r])]
  /\ versions' = {e \in versions : e[1] \notin S}
  /\ tombstones' = Without(tombstones, S)
  /\ fts' = fts \ S
  /\ outbox' = [r \in Records |->
       IF r \in S THEN Append([i \in DOMAIN outbox[r] |-> Opaque("record_withdrawn")],
                              Opaque("record_purged"))
       ELSE outbox[r]]
  /\ UNCHANGED mutations

(* purge("record"): the source goes too when nothing else depends on it;   *)
(* an observation that is no record's may still do.                        *)
PurgeRecord(r, with_source) ==
  /\ r \in Known
  /\ Erase({r})
  /\ LET s == row[r].source
         lost == IF with_source THEN {s} ELSE {}
     IN /\ with_source => s # NoSource /\ SourceRecords(s) = {r}
        /\ purge_tombstones' = purge_tombstones \cup {r} \cup lost
        /\ source_state' = [t \in Sources |-> IF t \in lost THEN "purged" ELSE source_state[t]]
        /\ members' = {m \in members : m[2] # r /\ m[1] \notin lost}

(* purge("source") *)
PurgeSource(s) ==
  /\ source_state[s] # "purged"
  /\ Erase(SourceRecords(s))
  /\ purge_tombstones' = purge_tombstones \cup SourceRecords(s) \cup {s}
  /\ source_state' = [source_state EXCEPT ![s] = "purged"]
  /\ members' = {m \in members : m[1] # s /\ m[2] \notin SourceRecords(s)}

-----------------------------------------------------------------------------
Observe ==
  \E r \in Records, c \in Contents :
    \/ \E o \in Channels, s \in Sources \cup {NoSource} : Create(r, c, o, s)
    \/ \E o \in Channels, keeps \in BOOLEAN : Update(r, c, o, keeps)
    \/ Reinforce(r)
    \/ WithdrawRegistered(r)
    \/ ReviveRegistered(r, c)

Manage ==
  \E r \in Records :
    \/ \E c \in Contents, a \in Availabilities, t \in Records \cup {NoRecord},
          s \in Sources \cup {NoSource} : Approve(r, c, a, t, s)
    \/ \E c \in Contents, t \in Records \cup {NoRecord} : Correct(r, c, t)
    \/ \E a \in Availabilities : ChangeAvailability(r, a)
    \/ \E users \in BOOLEAN : Delete(r, users)
    \/ RestoreCurrent(r)
    \/ \E v \in Versions : RestoreVersion(r, v)
    \/ \E with_source \in BOOLEAN : PurgeRecord(r, with_source)

ManageSource ==
  \E s \in Sources :
    \/ DeleteSource(s)
    \/ \E users \in BOOLEAN : RestoreSource(s, users)
    \/ \E sound, kept \in SUBSET Automatic(s), added \in SUBSET Records, c \in Contents :
         Rebuild(s, sound, kept, added, c)
    \/ PurgeSource(s)

Next == Observe \/ Manage \/ ManageSource

Spec == Init /\ [][Next]_vars
-----------------------------------------------------------------------------
(* Properties.                                                             *)

(* Types, with the search index and the deletion ledger naming only        *)
(* records that exist.                                                     *)
TypeOK ==
  /\ Known \subseteq Records /\ \A r \in Known : row[r] \in Row
  /\ versions \subseteq Records \X Row
  /\ DOMAIN tombstones \subseteq Known /\ \A r \in DOMAIN tombstones : tombstones[r] \in Tombstone
  /\ mutations \subseteq Records \X MutationKinds \X Versions \X (0 .. MaxVersion)
  /\ fts \subseteq Known
  /\ purge_tombstones \subseteq Records \cup Sources
  /\ source_state \in [Sources -> {"live", "deleted", "purged"}]
  /\ members \subseteq Sources \X Known \X Versions
  /\ outbox \in [Records -> Seq(Event)]

(* The history of a record is complete: one snapshot for each version up   *)
(* to the current one, the last of which is the row, except that a purge   *)
(* blanks the row's reference to the purged record.                        *)
HistoryComplete ==
  /\ \A e \in versions : e[1] \in Known /\ e[2].version <= row[e[1]].version
  /\ \A e, f \in versions : e[1] = f[1] /\ e[2].version = f[2].version => e = f
  /\ \A r \in Known : \A v \in 1 .. row[r].version : \E e \in versions :
       /\ e[1] = r /\ e[2].version = v
       /\ v = row[r].version =>
            \/ e[2] = row[r]
            \/ /\ row[r].supersedes = NoRecord /\ e[2].supersedes \in purge_tombstones
               /\ [e[2] EXCEPT !.supersedes = NoRecord] = row[r]

(* Search and deletion agree: the index holds exactly the live records; a  *)
(* deleted record has a tombstone of its current version, unless its       *)
(* capture source withdrew it and no user ever touched it.                 *)
DeletionAccounted ==
  /\ fts = {r \in Known : Live(r)}
  /\ \A r \in Known :
       IF Live(r) THEN r \notin DOMAIN tombstones
       ELSE \/ r \in DOMAIN tombstones /\ tombstones[r].deleted_version = row[r].version
            \/ Untouched(r) /\ row[r].expired

(* However a record came to its current version, its versions tell the     *)
(* whole of it, and its deletion is accounted for in index and tombstones. *)
VaultAccounted == HistoryComplete /\ DeletionAccounted

(* What a user worked on is out of the reach of automation: if it is       *)
(* deleted, the deletion is one only a user's restore can undo.            *)
UserBarrier ==
  \A r \in Known : HasUserEdit(r) /\ row[r].deleted =>
    r \in DOMAIN tombstones /\ tombstones[r].deletion_origin = "ordinary"

(* Supersession links lead to existing records and have no cycle: in every *)
(* set of records some record's link leaves the set.                       *)
SupersessionSound ==
  /\ \A r \in Known : row[r].supersedes \in Known \cup {NoRecord}
  /\ \A S \in SUBSET Known : S # {} => \E r \in S : row[r].supersedes \notin S

(* The relay, having applied the outbox, serves a record only while it is  *)
(* live and replicated, and with its current content.                      *)
Latest(r) == outbox[r][Len(outbox[r])]
Served    == {r \in Records : outbox[r] # <<>> /\ Latest(r).type = "record_upserted"}

RelayCurrent ==
  \A r \in Served : /\ Live(r) /\ row[r].availability = "always"
                    /\ Latest(r).content = row[r].content

(* A purged record has left no row, snapshot, reference of a row, or       *)
(* payload in the outbox, and the relay's last news of it is the purge.    *)
PurgeFinal ==
  \A r \in Records \cap purge_tombstones :
    /\ r \notin Known \cup fts
    /\ \A e \in versions : e[1] # r
    /\ \A n \in Known : row[n].supersedes # r
    /\ Latest(r).type = "record_purged"
    /\ \A i \in DOMAIN outbox[r] : outbox[r][i].content = NoContent

(* A record the user deleted or corrected does not come back by itself: a  *)
(* deleted record with an ordinary tombstone becomes live only with a new  *)
(* restore in the ledger of mutations, or with its whole source.           *)
DeletionStands ==
  [][\A r \in Known :
       /\ row[r].deleted /\ r \in DOMAIN tombstones
       /\ tombstones[r].deletion_origin = "ordinary"
       /\ r \in DOMAIN row' /\ ~row'[r].deleted
       => \/ \E m \in mutations' \ mutations : m[1] = r /\ m[2] = "restore"
          \/ \E s \in Sources : /\ row[r].source = s
                                /\ source_state[s] = "deleted" /\ source_state'[s] = "live"]_vars

(* Restoring a source brings back exactly records whose last deletion is   *)
(* the source's own, by the ledger of mutations: one deleted before it, or *)
(* restored and deleted again since, stays deleted.                        *)
SourceUndoExact ==
  [][\A s \in Sources : source_state[s] = "deleted" /\ source_state'[s] = "live" =>
       \A r \in Known : row'[r] # row[r] =>
         /\ <<r, "source_delete", row[r].version, 0>> \in mutations
         /\ row'[r].deleted = FALSE]_vars
=============================================================================
