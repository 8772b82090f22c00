----------------------------- MODULE Replication -----------------------------
(***************************************************************************)
(* Core's replication log, its synchronisation over HTTP and the Edge that *)
(* applies it: CoreStore's events (storage.py), EdgeSyncManager and        *)
(* CoreRelaySync (edge_connection.py, sync.py), SQLiteRelayStore           *)
(* (relay/service.py).                                                     *)
(*                                                                         *)
(* A Core write is one SQLite transaction that changes a record and        *)
(* appends to `log' (replication_events, the sequence number being the     *)
(* index); ContextRecords has these writes in full, and here they keep     *)
(* what the Edge can tell apart.  A content is named by the version that   *)
(* introduced it.  `edge' is the Edge's database, one transaction a step.  *)
(* A request whose client gave up may still arrive: it moves to `late'.    *)
(* The provider may restore an old snapshot of the Edge's disk, or the     *)
(* Edge may be replaced by an empty one.  Signatures always verify; one    *)
(* vault; the physical compaction after a purge is left out.               *)
(***************************************************************************)
EXTENDS Integers, Sequences, FiniteSets

CONSTANTS Records, NoRecord,
          Tainted,       \* records in which an old Core stored a secret
          BatchLimit,    \* events of one push
          MaxVersion,    \* bound: versions of one record
          MaxEvents,     \* bound: length of the log
          MaxLate,       \* bound: requests still in the network without a client
          MaxRollbacks   \* bound: Edge disks restored or replaced

ASSUME BoundAssumption == /\ MaxVersion \in Nat \ {0} /\ MaxEvents \in Nat
                          /\ BatchLimit \in Nat \ {0}
                          /\ MaxLate \in Nat /\ MaxRollbacks \in Nat
ASSUME RecordAssumption == NoRecord \notin Records /\ Tainted \subseteq Records

VARIABLES
  row,        \* context_records of Core
  purged,     \* purge_tombstones of Core
  log,        \* replication_events
  delivered,  \* the sequence numbers whose delivered_at is set
  edge,       \* the Edge's tables
  snapshot,   \* what the provider may restore
  rollbacks,
  sync,       \* the thread inside EdgeSyncManager.sync_now
  late

core == <<row, purged, log>>
vars == <<core, delivered, edge, snapshot, rollbacks, sync, late>>

Versions == 1 .. MaxVersion
Row == [version : Versions, content : Versions, always : BOOLEAN, deleted : BOOLEAN,
        supersedes : Records \cup {NoRecord}]
Event == {ev \in [type : {"upserted", "withdrawn", "deleted", "purged", "repaired"},
                  record : Records, version : 0 .. MaxVersion, content : 0 .. MaxVersion,
                  supersedes : Records \cup {NoRecord}] :
            /\ ev.type \in {"upserted", "deleted"} <=> ev.version # 0
            /\ ev.type = "upserted" <=> ev.content # 0}
EdgeRow == [version : Versions, content : Versions, supersedes : Records \cup {NoRecord},
            superseded_by : Records \cup {NoRecord}]

-----------------------------------------------------------------------------
(* Core.                                                                   *)

Known   == DOMAIN row
Live(r) == r \in Known /\ ~row[r].deleted
Room(r, n) == row[r].version < MaxVersion /\ Len(log) + n <= MaxEvents
Outranks(f, g) == [r \in DOMAIN f \cup DOMAIN g |-> IF r \in DOMAIN f THEN f[r] ELSE g[r]]
Without(f, S)  == [r \in DOMAIN f \ S |-> f[r]]

Bare(type, r, version) == [type |-> type, record |-> r, version |-> version,
                           content |-> 0, supersedes |-> NoRecord]
Upsert(r, x) == [type |-> "upserted", record |-> r, version |-> x.version,
                 content |-> x.content, supersedes |-> x.supersedes]
Withdrawn(r) == Bare("withdrawn", r, 0)

(* The events of a record that is rewritten to x.                          *)
Announce(r, x) == IF x.always THEN <<Upsert(r, x)>>
                  ELSE IF r \in Known /\ row[r].always THEN <<Withdrawn(r)>>
                  ELSE <<>>

(* _validate_supersedes_tx, as in ContextRecords.                          *)
ValidSupersedes(r, t) ==
  t # NoRecord =>
    \E chain \in SUBSET (Known \ {r}) :
      t \in chain /\ \A x \in chain : row[x].supersedes \in chain \cup {NoRecord}

(* The record becomes x, and `events' are appended to the log.             *)
Rewrite(r, x, events) ==
  /\ row' = Outranks([p \in {r} |-> x], row)
  /\ log' = log \o events
  /\ UNCHANGED <<purged, delivered, edge, snapshot, rollbacks, sync, late>>

(* approve_candidate *)
Approve(r, always, t) ==
  /\ r \notin Known \cup purged /\ Len(log) + 2 <= MaxEvents /\ ValidSupersedes(r, t)
  /\ LET x == [version |-> 1, content |-> 1, always |-> always, deleted |-> FALSE,
               supersedes |-> t]
         old == IF Live(t) /\ row[t].always THEN <<Withdrawn(t)>> ELSE <<>>
     IN Rewrite(r, x, old \o Announce(r, x))

(* correct_record, also with a new record to supersede.                    *)
Correct(r, t) ==
  /\ Live(r) /\ Room(r, 1) /\ ValidSupersedes(r, t)
  /\ t # NoRecord \/ row[r].supersedes = NoRecord
  /\ LET x == [row[r] EXCEPT !.version = @ + 1, !.content = row[r].version + 1,
                             !.supersedes = t]
     IN Rewrite(r, x, Announce(r, x))

(* change_availability, and the automatic updates that make a record local.*)
ChangeAvailability(r) ==
  /\ Live(r) /\ Room(r, 1)
  /\ LET x == [row[r] EXCEPT !.version = @ + 1, !.always = ~@]
     IN Rewrite(r, x, Announce(r, x))

Delete(r) ==
  /\ Live(r) /\ Room(r, 1)
  /\ Rewrite(r, [row[r] EXCEPT !.version = @ + 1, !.deleted = TRUE],
             <<Bare("deleted", r, row[r].version + 1)>>)

(* Mutant of Restore: the version of the deletion is used again.           *)
RestoreSameVersion(r) ==
  /\ r \in Known /\ row[r].deleted /\ Room(r, 1)
  /\ LET x == [row[r] EXCEPT !.deleted = FALSE]
     IN Rewrite(r, x, IF x.always THEN <<Upsert(r, x)>> ELSE <<>>)

(* _restore_current_record_tx; a live record only gets a version.          *)
Restore(r) ==
  /\ r \in Known /\ Room(r, 1)
  /\ LET x == [row[r] EXCEPT !.version = @ + 1, !.deleted = FALSE]
     IN Rewrite(r, x, IF row[r].deleted /\ x.always THEN <<Upsert(r, x)>> ELSE <<>>)

(* The earlier events of a purged record become opaque withdrawals.        *)
Scrubbed(r) == [q \in DOMAIN log |-> IF log[q].record = r THEN Withdrawn(r) ELSE log[q]]

(* _purge_record_tx.  The scope of a purge is the user's, or that of the   *)
(* repair of secrets, which a protocol event cannot carry ("repaired").    *)
Purge(r, type) ==
  /\ r \in Known /\ Len(log) < MaxEvents
  /\ type = "repaired" => r \in Tainted
  /\ row' = [p \in Known \ {r} |-> IF row[p].supersedes = r
                                   THEN [row[p] EXCEPT !.supersedes = NoRecord] ELSE row[p]]
  /\ purged' = purged \cup {r}
  /\ log' = Append(Scrubbed(r), Bare(type, r, 0))
  /\ UNCHANGED <<delivered, edge, snapshot, rollbacks, sync, late>>

-----------------------------------------------------------------------------
(* The Edge.                                                               *)

EmptyEdge == [checkpoint |-> 0, applied |-> [q \in {} |-> 0],
              rows |-> [r \in {} |-> 0], deletions |-> [r \in {} |-> 0], purged |-> {}]

(* from_mapping refuses an event that the protocol does not have; it runs  *)
(* in Core before the request, and again in the Edge.                      *)
WellFormed(ev) == ev.type # "repaired"

NewerThan(e, ev) ==
  /\ ev.record \in DOMAIN e.deletions => ev.version > e.deletions[ev.record]
  /\ ev.record \in DOMAIN e.rows => ev.version >= e.rows[ev.record].version

(* The conditions of _apply_upsert and _reject_transition_after_purge.     *)
Permitted(e, ev) ==
  \/ ev.type = "purged"
  \/ /\ ev.record \notin e.purged
     /\ ev.type = "upserted" => NewerThan(e, ev)

(* Mutant of InOrder: an event that was skipped is no obstacle.            *)
InOrderOrLater(e, q) == q > e.checkpoint

(* apply_event takes the next sequence number only.                        *)
InOrder(e, q) == q = e.checkpoint + 1

(* An event it applied before, and still remembers, succeeds again.        *)
Replays(e, q, ev) == q \in DOMAIN e.applied /\ q <= e.checkpoint /\ e.applied[q] = ev

Accepts(e, q, ev) == InOrder(e, q) /\ Permitted(e, ev)

(* Rows after an upsert: the record it supersedes is marked once, and its  *)
(* own mark survives.                                                      *)
Upserted(rows, ev) ==
  LET marked == [p \in DOMAIN rows |->
                   IF p = ev.supersedes /\ rows[p].superseded_by = NoRecord
                   THEN [rows[p] EXCEPT !.superseded_by = ev.record] ELSE rows[p]]
      new == [version |-> ev.version, content |-> ev.content, supersedes |-> ev.supersedes,
              superseded_by |-> IF ev.record \in DOMAIN rows
                                THEN rows[ev.record].superseded_by ELSE NoRecord]
  IN Outranks([p \in {ev.record} |-> new], marked)

(* Rows after a purge: the record, if it has a row, unmarks the one it     *)
(* supersedes, and is superseded by nobody.                                *)
PurgedRows(rows, r) ==
  [p \in DOMAIN rows \ {r} |->
     [rows[p] EXCEPT
        !.superseded_by = IF @ = r /\ r \in DOMAIN rows /\ rows[r].supersedes = p
                          THEN NoRecord ELSE @,
        !.supersedes = IF @ = r THEN NoRecord ELSE @]]

(* The positions whose fingerprints the purge of r deletes.                *)
Forgotten(e, r) == {q \in DOMAIN e.applied : e.applied[q].record = r}

(* The Edge's tables after the event.                                      *)
Applied(e, q, ev) ==
  LET r == ev.record
      after == CASE ev.type = "upserted" ->
                      [e EXCEPT !.rows = Upserted(@, ev), !.deletions = Without(@, {r})]
                 [] ev.type = "withdrawn" -> [e EXCEPT !.rows = Without(@, {r})]
                 [] ev.type = "deleted" ->
                      [e EXCEPT !.rows = Without(@, {r}),
                                !.deletions = Outranks([p \in {r} |-> ev.version], @)]
                 [] ev.type = "purged" ->
                      [e EXCEPT !.rows = PurgedRows(@, r), !.deletions = Without(@, {r}),
                                !.purged = @ \cup {r},
                                !.applied = Without(@, Forgotten(e, r))]
  IN [after EXCEPT !.checkpoint = q, !.applied = Outranks([n \in {q} |-> ev], @)]

(* apply_event in the request handler, and its answer.                     *)
Handle(q, ev) == edge' = IF Accepts(edge, q, ev) THEN Applied(edge, q, ev) ELSE edge
Answer(q, ev) == IF Accepts(edge, q, ev) \/ Replays(edge, q, ev) THEN "accepted" ELSE "rejected"

-----------------------------------------------------------------------------
(* sync_now: under its lock the thread reads the Edge's checkpoint, then   *)
(* the log after it, and posts those events one by one.                    *)

Idle(pc) == [pc |-> pc, from |-> 0, todo |-> <<>>]
Resting  == sync.pc \in {"idle", "ready", "degraded"}
Next1    == sync.from + 1

ReadStatus ==
  /\ Resting
  /\ sync' = [pc |-> "status", from |-> edge.checkpoint, todo |-> <<>>]
  /\ UNCHANGED <<core, delivered, edge, snapshot, rollbacks, late>>

(* Where the thread goes with `todo' left to push after `from'.            *)
Proceed(from, todo) ==
  IF todo = <<>> THEN Idle("ready")
  ELSE IF ~WellFormed(Head(todo)) THEN Idle("degraded")
  ELSE [pc |-> "wait", from |-> from, todo |-> todo]

Least(m, n) == IF m < n THEN m ELSE n

(* push() reads the log; an Edge checkpoint ahead of it is an error.       *)
ReadLog ==
  /\ sync.pc = "status"
  /\ sync' = IF sync.from > Len(log) THEN Idle("degraded")
             ELSE Proceed(sync.from,
                          SubSeq(log, Next1, Least(Len(log), sync.from + BatchLimit)))
  /\ UNCHANGED <<core, delivered, edge, snapshot, rollbacks, late>>

(* The request arrives while its client waits.                             *)
HandleRequest ==
  /\ sync.pc = "wait"
  /\ Handle(Next1, Head(sync.todo))
  /\ sync' = [sync EXCEPT !.pc = Answer(Next1, Head(sync.todo))]
  /\ UNCHANGED <<core, delivered, snapshot, rollbacks, late>>

(* The response arrives: the event is marked, or the sync fails.           *)
ReceiveResponse ==
  /\ sync.pc \in {"accepted", "rejected"}
  /\ IF sync.pc = "accepted"
     THEN /\ delivered' = delivered \cup {Next1}
          /\ sync' = Proceed(Next1, Tail(sync.todo))
     ELSE sync' = Idle("degraded") /\ UNCHANGED delivered
  /\ UNCHANGED <<core, edge, snapshot, rollbacks, late>>

(* A timeout, stop() closing the client, or a crash of Core: a request     *)
(* that has not arrived is lost, or arrives later.                         *)
Abandon ==
  /\ ~Resting
  /\ sync' = Idle("degraded")
  /\ \/ UNCHANGED late
     \/ /\ sync.pc = "wait" /\ Cardinality(late) < MaxLate
        /\ late' = late \cup {<<Next1, Head(sync.todo)>>}
  /\ UNCHANGED <<core, delivered, edge, snapshot, rollbacks>>

HandleLate(m) ==
  /\ m \in late
  /\ late' = late \ {m}
  /\ Handle(m[1], m[2])
  /\ UNCHANGED <<core, delivered, snapshot, rollbacks, sync>>

(* The provider snapshots the Edge's disk, and later restores it; before   *)
(* the first snapshot this is a fresh Edge.                                *)
TakeSnapshot ==
  /\ rollbacks < MaxRollbacks /\ snapshot # edge
  /\ snapshot' = edge
  /\ UNCHANGED <<core, delivered, edge, rollbacks, sync, late>>

RollBack ==
  /\ rollbacks < MaxRollbacks /\ snapshot # edge
  /\ rollbacks' = rollbacks + 1
  /\ edge' = snapshot
  /\ UNCHANGED <<core, delivered, snapshot, sync, late>>

-----------------------------------------------------------------------------
Init == /\ row = [r \in {} |-> 0] /\ purged = {} /\ log = <<>> /\ delivered = {}
        /\ edge = EmptyEdge /\ snapshot = EmptyEdge /\ rollbacks = 0
        /\ sync = Idle("idle") /\ late = {}

CoreWrite ==
  \E r \in Records :
    \/ \E always \in BOOLEAN, t \in Records \cup {NoRecord} : Approve(r, always, t)
    \/ \E t \in Records \cup {NoRecord} : Correct(r, t)
    \/ ChangeAvailability(r)
    \/ Delete(r)
    \/ Restore(r)
    \/ \E type \in {"purged", "repaired"} : Purge(r, type)

Synchronise == ReadStatus \/ ReadLog \/ ReceiveResponse

Next == \/ CoreWrite
        \/ Synchronise
        \/ HandleRequest
        \/ Abandon
        \/ \E m \in late : HandleLate(m)
        \/ TakeSnapshot
        \/ RollBack

Spec == Init /\ [][Next]_vars

(* The worker synchronises again and again and is not stopped each time    *)
(* before it reads the log; a request repeated for ever arrives, and while *)
(* its client waits, now and then.                                         *)
FairSpec == /\ Spec
            /\ WF_vars(Synchronise)
            /\ SF_vars(ReadLog)
            /\ SF_vars(HandleRequest)

-----------------------------------------------------------------------------
(* Properties.                                                             *)

EdgeTypeOK(e) ==
  /\ e = [checkpoint |-> e.checkpoint, applied |-> e.applied, rows |-> e.rows,
          deletions |-> e.deletions, purged |-> e.purged]
  /\ e.checkpoint \in 0 .. MaxEvents /\ e.purged \subseteq Records
  /\ DOMAIN e.applied \subseteq 1 .. e.checkpoint
  /\ \A q \in DOMAIN e.applied : e.applied[q] \in Event
  /\ DOMAIN e.rows \subseteq Records /\ \A r \in DOMAIN e.rows : e.rows[r] \in EdgeRow
  /\ DOMAIN e.deletions \subseteq Records
  /\ \A r \in DOMAIN e.deletions : e.deletions[r] \in Versions

TypeOK ==
  /\ Known \subseteq Records /\ \A r \in Known : row[r] \in Row
  /\ purged \subseteq Records /\ log \in Seq(Event) /\ Len(log) <= MaxEvents
  /\ delivered \subseteq DOMAIN log
  /\ EdgeTypeOK(edge) /\ EdgeTypeOK(snapshot)
  /\ rollbacks \in 0 .. MaxRollbacks
  /\ sync \in [pc : {"idle", "ready", "degraded", "status", "wait", "accepted", "rejected"},
              from : 0 .. MaxEvents, todo : Seq(Event)]
  /\ late \subseteq (1 .. MaxEvents) \X Event

(* The Edge is never ahead of Core, and every event it remembers is the    *)
(* one Core's log has at that position, unless Core has since blanked it   *)
(* for a purge.                                                            *)
PrefixOfCore ==
  /\ edge.checkpoint <= Len(log)
  /\ \A q \in DOMAIN edge.applied :
       edge.applied[q] = log[q] \/ log[q].record \in purged

CaughtUp == edge.checkpoint = Len(log)

(* Core's last event about r is an upsert.                                 *)
Announced(r) ==
  \E q \in DOMAIN log : /\ log[q].record = r /\ log[q].type = "upserted"
                        /\ \A n \in q + 1 .. Len(log) : log[n].record # r

(* Once it has applied the whole log the Edge holds the live, replicated   *)
(* records of Core and no other, except those Core withdrew from it when   *)
(* it approved a record that supersedes them; each with its content and    *)
(* the record it supersedes.                                               *)
EdgeCurrent ==
  CaughtUp =>
    /\ DOMAIN edge.rows = {r \in Records : Live(r) /\ row[r].always /\ Announced(r)}
    /\ \A r \in DOMAIN edge.rows : /\ edge.rows[r].content = row[r].content
                                   /\ edge.rows[r].supersedes = row[r].supersedes

(* Whatever is replayed, delayed or restored, an Edge that has applied a   *)
(* purge keeps nothing of the record but the purge: no row, no deletion,   *)
(* no event it could be guessed from, no row that names it as superseded.  *)
EdgePurgeFinal ==
  \A r \in edge.purged :
    /\ r \notin DOMAIN edge.rows \cup DOMAIN edge.deletions
    /\ \A p \in DOMAIN edge.rows : edge.rows[p].supersedes # r
    /\ \A q \in DOMAIN edge.applied : edge.applied[q].record = r =>
         edge.applied[q].type = "purged"

(* The Edge mirrors Core: it holds a prefix of Core's log, all of it when  *)
(* it has caught up, and nothing of a record whose purge it has applied.   *)
EdgeMirrors == PrefixOfCore /\ EdgeCurrent /\ EdgePurgeFinal

(* However many synchronisations fail, the Edge accepts what Core sends    *)
(* next and catches up with the log.                                       *)
CatchesUp == []<>CaughtUp
=============================================================================
