-------------------------- MODULE ReplicationProofs --------------------------
(***************************************************************************)
(* For any number of records, versions, requests and restored disks: the   *)
(* Edge holds a prefix of Core's log, mirrors Core once it has applied all *)
(* of it, and keeps nothing of a record whose purge it has applied.        *)
(*                                                                         *)
(* A purge rewrites the log, so what is on its way, and what an Edge or a  *)
(* snapshot of it remembers, may be older than the log: it is a copy of an *)
(* event (Copy).  EdgeOK says what an Edge at its checkpoint has, for the  *)
(* Edge and for its snapshot; CoreOK, how the log tells Core's records.    *)
(***************************************************************************)
EXTENDS Replication, FiniteSetTheorems, TLAPS

PurgeTypes == {"purged", "repaired"}

(* Position n of the log is the purge of a record.                         *)
PurgeAt(n) == log[n].type \in PurgeTypes

(* No record that ev supersedes was purged before position q.              *)
Fresh(q, ev) == \A n \in 1 .. q - 1 : PurgeAt(n) => ev.supersedes # log[n].record

(* Event ev is what the log has at position q, or had before a purge of    *)
(* its record blanked it.                                                  *)
Copy(q, ev) ==
  /\ q \in DOMAIN log
  /\ \/ ev = log[q]
     \/ log[q] = Withdrawn(ev.record) /\ ev.record \in purged /\ ev.type \notin PurgeTypes
  /\ Fresh(q, ev)

(* Of the first n events the q-th is the last about r.                     *)
LastBy(q, r, n) ==
  /\ q \in 1 .. n /\ log[q].record = r
  /\ \A k \in q + 1 .. n : log[k].record # r

Upserts(q, r, n) == LastBy(q, r, n) /\ log[q].type = "upserted"

(* Which record the q-th event supersedes, if it is not among the purged.  *)
Target(q, gone) == IF log[q].supersedes \in gone THEN NoRecord ELSE log[q].supersedes

(* The purges in the log are Core's, each is the last event that speaks of *)
(* its record, and the last event of a record that is not purged tells it. *)
CoreOK ==
  /\ Known \cap purged = {}
  /\ \A r \in Known : row[r].supersedes \notin purged
  /\ \A r \in purged : \E n \in DOMAIN log : log[n].record = r /\ PurgeAt(n)
  /\ \A n \in DOMAIN log : PurgeAt(n) => log[n].record \in purged
  /\ \A m, n \in DOMAIN log : m < n /\ PurgeAt(m) =>
       log[n].record # log[m].record /\ log[n].supersedes # log[m].record
  /\ \A q \in DOMAIN log : \A r \in Records \ purged : Upserts(q, r, Len(log)) =>
       /\ Live(r) /\ row[r].always
       /\ row[r].content = log[q].content /\ row[r].supersedes = Target(q, purged)

(* Edge e has the row of r that the events up to its checkpoint make.      *)
RowOK(e, r) ==
  /\ r \in DOMAIN e.rows => \E q \in 1 .. e.checkpoint : Upserts(q, r, e.checkpoint)
  /\ \A q \in 1 .. e.checkpoint : Upserts(q, r, e.checkpoint) =>
       /\ r \in DOMAIN e.rows
       /\ e.rows[r].content = log[q].content /\ e.rows[r].supersedes = Target(q, e.purged)

(* Nothing of a purged record is left (EdgePurgeFinal).                    *)
Erased(e, r) ==
  /\ r \notin DOMAIN e.rows \cup DOMAIN e.deletions
  /\ \A p \in DOMAIN e.rows : e.rows[p].supersedes # r
  /\ \A q \in DOMAIN e.applied : e.applied[q].record = r => e.applied[q].type = "purged"

EdgeOK(e) ==
  /\ e.checkpoint <= Len(log)
  /\ \A n \in 1 .. e.checkpoint : WellFormed(log[n])
  /\ \A q \in DOMAIN e.applied : Copy(q, e.applied[q])
  /\ \A n \in 1 .. e.checkpoint : PurgeAt(n) => log[n].record \in e.purged
  /\ \A r \in e.purged : /\ Erased(e, r)
                         /\ \E n \in 1 .. e.checkpoint : log[n].record = r /\ PurgeAt(n)
  /\ \A r \in Records \ purged : RowOK(e, r)

EdgesOK == \A e \in {edge, snapshot} : EdgeOK(e)

(* What is on its way is a copy of an event that the protocol has.         *)
Posting == sync.pc \in {"wait", "accepted", "rejected"}
Sending == IF Posting THEN {<<sync.from + i, sync.todo[i]>> : i \in DOMAIN sync.todo} ELSE {}

SyncOK ==
  /\ sync.pc = "status" => sync.from <= Len(log)
  /\ Posting => sync.todo # <<>> /\ WellFormed(sync.todo[1])
  /\ \A m \in late : WellFormed(m[2])
  /\ \A m \in late \cup Sending : Copy(m[1], m[2])

IInv == TypeOK /\ CoreOK /\ EdgesOK /\ SyncOK

-----------------------------------------------------------------------------
(* The Edge's tables after an event.                                       *)

(* What an event does to each table; the rows of the other records keep    *)
(* their contents, and what they supersede unless that is purged.          *)
After(f, q, ev, g) ==
  /\ g = [checkpoint |-> q, applied |-> g.applied, rows |-> g.rows,
          deletions |-> g.deletions, purged |-> g.purged]
  /\ g.purged = IF ev.type = "purged" THEN f.purged \cup {ev.record} ELSE f.purged
  /\ DOMAIN g.rows = IF ev.type = "upserted" THEN DOMAIN f.rows \cup {ev.record}
                     ELSE DOMAIN f.rows \ {ev.record}
  /\ \A p \in DOMAIN g.rows : g.rows[p] \in EdgeRow
  /\ ev.type = "upserted" => /\ g.rows[ev.record].content = ev.content
                             /\ g.rows[ev.record].supersedes = ev.supersedes
  /\ \A p \in DOMAIN f.rows \ {ev.record} :
       /\ g.rows[p].content = f.rows[p].content
       /\ g.rows[p].supersedes = IF ev.type = "purged" /\ f.rows[p].supersedes = ev.record
                                 THEN NoRecord ELSE f.rows[p].supersedes
  /\ DOMAIN g.deletions \subseteq DOMAIN f.deletions \cup {ev.record}
  /\ \A p \in DOMAIN g.deletions : g.deletions[p] \in Versions
  /\ ev.type \in {"upserted", "purged"} => ev.record \notin DOMAIN g.deletions
  /\ DOMAIN g.applied \subseteq DOMAIN f.applied \cup {q} /\ q \in DOMAIN g.applied
  /\ g.applied[q] = ev
  /\ \A k \in DOMAIN g.applied \ {q} :
       /\ g.applied[k] = f.applied[k]
       /\ ev.type = "purged" => f.applied[k].record # ev.record

LEMMA Tables ==
  ASSUME NEW f, EdgeTypeOK(f), NEW q, NEW ev \in Event, WellFormed(ev),
         NEW g, g = Applied(f, q, ev)
  PROVE  After(f, q, ev, g)
<1> DEFINE r == ev.record
<1>1. /\ f = [checkpoint |-> f.checkpoint, applied |-> f.applied, rows |-> f.rows,
              deletions |-> f.deletions, purged |-> f.purged]
      /\ DOMAIN f.rows \subseteq Records
      /\ \A p \in DOMAIN f.rows : f.rows[p] \in EdgeRow
      /\ \A p \in DOMAIN f.deletions : f.deletions[p] \in Versions
  BY DEF EdgeTypeOK
<1>2. /\ ev.type \in {"upserted", "withdrawn", "deleted", "purged"} /\ r \in Records
      /\ ev.version \in 0 .. MaxVersion /\ ev.content \in 0 .. MaxVersion
      /\ ev.supersedes \in Records \cup {NoRecord}
      /\ ev.type \in {"upserted", "deleted"} => ev.version \in Versions
      /\ ev.type = "upserted" => ev.content \in Versions
  BY BoundAssumption DEF Event, WellFormed, Versions
<1>3. CASE ev.type = "upserted"
  <2>1. g = [checkpoint |-> q, applied |-> Outranks([n \in {q} |-> ev], f.applied),
             rows |-> Upserted(f.rows, ev), deletions |-> Without(f.deletions, {r}),
             purged |-> f.purged]
    BY <1>1, <1>3 DEF Applied
  <2> DEFINE marked == [p \in DOMAIN f.rows |->
                          IF p = ev.supersedes /\ f.rows[p].superseded_by = NoRecord
                          THEN [f.rows[p] EXCEPT !.superseded_by = r] ELSE f.rows[p]]
             new == [version |-> ev.version, content |-> ev.content,
                     supersedes |-> ev.supersedes,
                     superseded_by |-> IF r \in DOMAIN f.rows THEN f.rows[r].superseded_by
                                       ELSE NoRecord]
  <2>2. g.rows = Outranks([p \in {r} |-> new], marked)
    BY <2>1 DEF Upserted
  <2>3. new \in EdgeRow
    BY <1>1, <1>2, <1>3 DEF EdgeRow
  <2>4. DOMAIN marked = DOMAIN f.rows
        /\ \A p \in DOMAIN f.rows :
             /\ marked[p] \in EdgeRow /\ marked[p].content = f.rows[p].content
             /\ marked[p].supersedes = f.rows[p].supersedes
    BY <1>1, <1>2 DEF EdgeRow
  <2>5. new.content = ev.content /\ new.supersedes = ev.supersedes
    OBVIOUS
  <2> HIDE DEF marked, new
  <2>6. /\ DOMAIN g.rows = DOMAIN f.rows \cup {r} /\ g.rows[r] = new
        /\ \A p \in DOMAIN f.rows \ {r} : g.rows[p] = marked[p]
    BY <2>2, <2>4 DEF Outranks
  <2>7. /\ DOMAIN g.deletions = DOMAIN f.deletions \ {r}
        /\ \A p \in DOMAIN g.deletions : g.deletions[p] = f.deletions[p]
    BY <2>1 DEF Without
  <2>8. /\ DOMAIN g.applied = DOMAIN f.applied \cup {q} /\ g.applied[q] = ev
        /\ \A n \in DOMAIN f.applied \ {q} : g.applied[n] = f.applied[n]
    BY <2>1 DEF Outranks
  <2>9. g.purged = f.purged
    BY <2>1
  <2>10. g = [checkpoint |-> q, applied |-> g.applied, rows |-> g.rows,
              deletions |-> g.deletions, purged |-> g.purged]
    BY <2>1
  <2> QED
    BY <1>1, <1>3, <2>3, <2>4, <2>5, <2>6, <2>7, <2>8, <2>9, <2>10 DEF After
<1>4. CASE ev.type \in {"withdrawn", "deleted"}
  <2>1. /\ g = [checkpoint |-> q, applied |-> g.applied, rows |-> g.rows,
                deletions |-> g.deletions, purged |-> g.purged]
        /\ g.applied = Outranks([n \in {q} |-> ev], f.applied)
        /\ g.rows = Without(f.rows, {r}) /\ g.purged = f.purged
        /\ g.deletions = IF ev.type = "deleted"
                         THEN Outranks([p \in {r} |-> ev.version], f.deletions)
                         ELSE f.deletions
    <3>1. CASE ev.type = "withdrawn"
      BY <1>1, <3>1 DEF Applied
    <3>2. CASE ev.type = "deleted"
      BY <1>1, <3>2 DEF Applied
    <3> QED
      BY <1>4, <3>1, <3>2
  <2>2. /\ DOMAIN g.rows = DOMAIN f.rows \ {r}
        /\ \A p \in DOMAIN g.rows : g.rows[p] = f.rows[p]
    BY <2>1 DEF Without
  <2>3. /\ DOMAIN g.applied = DOMAIN f.applied \cup {q} /\ g.applied[q] = ev
        /\ \A n \in DOMAIN f.applied \ {q} : g.applied[n] = f.applied[n]
    BY <2>1 DEF Outranks
  <2>4. /\ DOMAIN g.deletions \subseteq DOMAIN f.deletions \cup {r}
        /\ \A p \in DOMAIN g.deletions : g.deletions[p] \in Versions
    <3>1. CASE ev.type = "deleted"
      <4>1. g.deletions = Outranks([p \in {r} |-> ev.version], f.deletions)
        BY <2>1, <3>1
      <4>2. /\ DOMAIN g.deletions = DOMAIN f.deletions \cup {r} /\ g.deletions[r] = ev.version
            /\ \A n \in DOMAIN f.deletions \ {r} : g.deletions[n] = f.deletions[n]
        BY <4>1 DEF Outranks
      <4> QED
        BY <1>1, <1>2, <3>1, <4>2
    <3>2. CASE ev.type = "withdrawn"
      BY <1>1, <2>1, <3>2
    <3> QED
      BY <1>4, <3>1, <3>2
  <2> QED
    BY <1>1, <1>4, <2>1, <2>2, <2>3, <2>4 DEF After
<1>5. CASE ev.type = "purged"
  <2>1. g = [checkpoint |-> q,
             applied |-> Outranks([n \in {q} |-> ev], Without(f.applied, Forgotten(f, r))),
             rows |-> PurgedRows(f.rows, r), deletions |-> Without(f.deletions, {r}),
             purged |-> f.purged \cup {r}]
    BY <1>1, <1>5 DEF Applied
  <2>2. /\ DOMAIN g.rows = DOMAIN f.rows \ {r}
        /\ \A p \in DOMAIN g.rows :
             /\ g.rows[p] \in EdgeRow /\ g.rows[p].content = f.rows[p].content
             /\ g.rows[p].supersedes = IF f.rows[p].supersedes = r THEN NoRecord
                                       ELSE f.rows[p].supersedes
    <3>1. g.rows = PurgedRows(f.rows, r)
      BY <2>1
    <3>2. DOMAIN g.rows = DOMAIN f.rows \ {r}
      BY <3>1 DEF PurgedRows
    <3> SUFFICES ASSUME NEW p \in DOMAIN f.rows \ {r}
                 PROVE  /\ g.rows[p] \in EdgeRow /\ g.rows[p].content = f.rows[p].content
                        /\ g.rows[p].supersedes = IF f.rows[p].supersedes = r THEN NoRecord
                                                  ELSE f.rows[p].supersedes
      BY <3>2
    <3>3. PICK x \in EdgeRow : x = f.rows[p]
      BY <1>1
    <3>4. PICK m \in {x.superseded_by, NoRecord} :
            g.rows[p] = [x EXCEPT !.superseded_by = m,
                                  !.supersedes = IF x.supersedes = r THEN NoRecord
                                                 ELSE x.supersedes]
      BY <3>1, <3>3 DEF PurgedRows
    <3> QED
      BY <3>3, <3>4 DEF EdgeRow
  <2>3. /\ DOMAIN g.deletions = DOMAIN f.deletions \ {r}
        /\ \A p \in DOMAIN g.deletions : g.deletions[p] = f.deletions[p]
    BY <2>1 DEF Without
  <2>4. PICK A : A = [k \in DOMAIN f.applied \ Forgotten(f, r) |-> f.applied[k]]
    OBVIOUS
  <2>5. /\ DOMAIN A = DOMAIN f.applied \ Forgotten(f, r)
        /\ \A n \in DOMAIN A : A[n] = f.applied[n]
    BY <2>4
  <2>6. /\ DOMAIN g.applied = DOMAIN A \cup {q} /\ g.applied[q] = ev
        /\ \A n \in DOMAIN A \ {q} : g.applied[n] = A[n]
    BY <2>1, <2>4 DEF Outranks, Without
  <2>7. \A k \in DOMAIN g.applied \ {q} :
          k \in DOMAIN f.applied /\ g.applied[k] = f.applied[k] /\ f.applied[k].record # r
    BY <2>5, <2>6 DEF Forgotten
  <2>8. /\ g.purged = f.purged \cup {r}
        /\ g = [checkpoint |-> q, applied |-> g.applied, rows |-> g.rows,
                deletions |-> g.deletions, purged |-> g.purged]
    BY <2>1
  <2> QED
    BY <1>1, <1>5, <2>2, <2>3, <2>6, <2>7, <2>8 DEF After
<1> QED
  BY <1>2, <1>3, <1>4, <1>5

LEMMA AppliedTyped ==
  ASSUME NEW f, EdgeTypeOK(f), NEW q \in 0 .. MaxEvents, q = f.checkpoint + 1,
         NEW ev \in Event, WellFormed(ev), NEW g, g = Applied(f, q, ev)
  PROVE  EdgeTypeOK(g) /\ g.checkpoint = q
<1>1. /\ f.checkpoint \in 0 .. MaxEvents /\ f.purged \subseteq Records
      /\ DOMAIN f.applied \subseteq 1 .. f.checkpoint
      /\ \A k \in DOMAIN f.applied : f.applied[k] \in Event
      /\ DOMAIN f.rows \subseteq Records /\ DOMAIN f.deletions \subseteq Records
  BY DEF EdgeTypeOK
<1>0. After(f, q, ev, g)
  BY Tables, Zenon
<1>2. /\ g = [checkpoint |-> q, applied |-> g.applied, rows |-> g.rows,
              deletions |-> g.deletions, purged |-> g.purged]
      /\ g.purged \subseteq f.purged \cup {ev.record}
      /\ DOMAIN g.rows \subseteq DOMAIN f.rows \cup {ev.record}
      /\ \A p \in DOMAIN g.rows : g.rows[p] \in EdgeRow
      /\ DOMAIN g.deletions \subseteq DOMAIN f.deletions \cup {ev.record}
      /\ \A p \in DOMAIN g.deletions : g.deletions[p] \in Versions
      /\ DOMAIN g.applied \subseteq DOMAIN f.applied \cup {q} /\ g.applied[q] = ev
      /\ \A k \in DOMAIN g.applied \ {q} : g.applied[k] = f.applied[k]
  BY <1>0 DEF After
<1>3. ev.record \in Records /\ g.checkpoint = q
  BY <1>2 DEF Event
<1>4. DOMAIN g.applied \subseteq 1 .. q
  BY <1>1, <1>2, BoundAssumption
<1> QED
  BY <1>1, <1>2, <1>3, <1>4 DEF EdgeTypeOK

-----------------------------------------------------------------------------
(* An Edge that applies the next event mirrors a longer prefix.            *)

LEMMA LogTyped ==
  ASSUME TypeOK
  PROVE  /\ Len(log) \in Nat /\ DOMAIN log = 1 .. Len(log)
         /\ \A n \in DOMAIN log : log[n] \in Event
BY DEF TypeOK

LEMMA AppliedOK ==
  ASSUME TypeOK, CoreOK, NEW f, EdgeTypeOK(f), EdgeOK(f), NEW q, q = f.checkpoint + 1,
         NEW ev \in Event, Copy(q, ev), WellFormed(ev), NEW g, g = Applied(f, q, ev)
  PROVE  EdgeOK(g)
<1> DEFINE r == ev.record
<1>1. After(f, q, ev, g)
  BY Tables, Zenon
<1>2. /\ q \in DOMAIN log /\ q \in Nat /\ f.checkpoint \in Nat /\ q <= Len(log)
      /\ g.checkpoint = q
  BY <1>1, LogTyped, BoundAssumption DEF Copy, After, EdgeTypeOK
<1>3. log[q].record = r /\ r \in Records
  BY DEF Copy, Withdrawn, Bare, Event
<1>4. r \notin purged => ev = log[q]
  BY DEF Copy
<1>5. WellFormed(log[q])
  BY DEF Copy, WellFormed, Withdrawn, Bare
<1>6. PurgeAt(q) => ev.type = "purged"
  BY DEF Copy, PurgeAt, PurgeTypes, WellFormed, Withdrawn, Bare
<1>7. ev.type = "purged" => ev = log[q] /\ PurgeAt(q)
  BY DEF Copy, PurgeAt, PurgeTypes
<1>8. /\ g.checkpoint <= Len(log)
      /\ \A n \in 1 .. g.checkpoint : WellFormed(log[n])
  BY <1>2, <1>5 DEF EdgeOK
<1>9. ASSUME NEW k \in DOMAIN g.applied PROVE Copy(k, g.applied[k])
  <2>1. CASE k = q
    BY <1>1, <2>1 DEF After
  <2>2. CASE k # q
    <3>1. k \in DOMAIN f.applied /\ g.applied[k] = f.applied[k]
      BY <1>1, <2>2 DEF After
    <3> QED
      BY <3>1 DEF EdgeOK, Copy
  <2> QED
    BY <2>1, <2>2
<1>10. ASSUME NEW n \in 1 .. g.checkpoint, PurgeAt(n) PROVE log[n].record \in g.purged
  <2>1. CASE n = q
    BY <1>1, <1>3, <1>6, <1>10, <2>1 DEF After
  <2>2. CASE n # q
    BY <1>1, <1>2, <1>10, <2>2 DEF After, EdgeOK
  <2> QED
    BY <2>1, <2>2
<1>11. ASSUME NEW s \in g.purged
       PROVE  Erased(g, s) /\ \E n \in 1 .. g.checkpoint : log[n].record = s /\ PurgeAt(n)
  <2>1. CASE s \in f.purged /\ s # r
    <3>1. /\ Erased(f, s)
          /\ \E n \in 1 .. f.checkpoint : log[n].record = s /\ PurgeAt(n)
      BY <2>1 DEF EdgeOK
    <3>2. \E n \in 1 .. g.checkpoint : log[n].record = s /\ PurgeAt(n)
      BY <1>2, <3>1
    <3>3. ev.supersedes # s
      BY <1>2, <3>1 DEF Copy, Fresh
    <3>4. s \in Records /\ s # NoRecord
      BY <2>1, RecordAssumption DEF EdgeTypeOK
    <3>5. s \notin DOMAIN g.rows \cup DOMAIN g.deletions
      BY <1>1, <2>1, <3>1 DEF After, Erased
    <3>6. ASSUME NEW p \in DOMAIN g.rows PROVE g.rows[p].supersedes # s
      <4>1. CASE p = r
        BY <1>1, <3>3, <3>6, <4>1 DEF After
      <4>2. CASE p # r
        BY <1>1, <3>1, <3>4, <3>6, <4>2 DEF After, Erased
      <4> QED
        BY <4>1, <4>2
    <3>7. ASSUME NEW k \in DOMAIN g.applied, g.applied[k].record = s
          PROVE  g.applied[k].type = "purged"
      <4>1. k # q
        BY <1>1, <2>1, <3>7 DEF After
      <4> QED
        BY <1>1, <3>1, <3>7, <4>1 DEF After, Erased
    <3> QED
      BY <3>2, <3>5, <3>6, <3>7 DEF Erased
  <2>2. CASE s = r
    <3>1. ev.type = "purged"
      <4>1. CASE s \in f.purged
        <5>1. PICK n \in 1 .. f.checkpoint : log[n].record = s /\ PurgeAt(n)
          BY <4>1 DEF EdgeOK
        <5>2. n \in DOMAIN log /\ n < q
          BY <1>2, <5>1, LogTyped
        <5>3. log[q].record # log[n].record
          BY <1>2, <5>1, <5>2 DEF CoreOK
        <5> QED
          BY <1>3, <2>2, <5>1, <5>3
      <4>2. CASE s \notin f.purged
        BY <1>1, <4>2 DEF After
      <4> QED
        BY <4>1, <4>2
    <3>2. \E n \in 1 .. g.checkpoint : log[n].record = s /\ PurgeAt(n)
      BY <1>2, <1>3, <1>7, <2>2, <3>1
    <3>3. s \notin DOMAIN g.rows \cup DOMAIN g.deletions
      BY <1>1, <2>2, <3>1 DEF After
    <3>4. ASSUME NEW p \in DOMAIN g.rows PROVE g.rows[p].supersedes # s
      <4>1. p \in DOMAIN f.rows \ {r}
        BY <1>1, <3>1, <3>4 DEF After
      <4>2. s # NoRecord
        BY <1>3, <2>2, RecordAssumption
      <4> QED
        BY <1>1, <2>2, <3>1, <4>1, <4>2 DEF After
    <3>5. ASSUME NEW k \in DOMAIN g.applied, g.applied[k].record = s
          PROVE  g.applied[k].type = "purged"
      <4>1. CASE k = q
        BY <1>1, <3>1, <4>1 DEF After
      <4>2. CASE k # q
        BY <1>1, <2>2, <3>1, <3>5, <4>2 DEF After
      <4> QED
        BY <4>1, <4>2
    <3> QED
      BY <3>2, <3>3, <3>4, <3>5 DEF Erased
  <2> QED
    BY <1>1, <2>1, <2>2 DEF After
<1>12. ASSUME NEW s \in Records \ purged PROVE RowOK(g, s)
  <2>1. CASE s = r
    <3>1. ev = log[q] /\ ev.type # "purged"
      BY <1>2, <1>4, <1>6, <1>7, <1>12, <2>1 DEF CoreOK
    <3>2. LastBy(q, s, q)
      BY <1>2, <1>3, <2>1 DEF LastBy
    <3>3. ASSUME NEW k \in 1 .. q, LastBy(k, s, q) PROVE k = q
      BY <1>2, <1>3, <2>1, <3>3 DEF LastBy
    <3>4. ev.type = "upserted" => ev.supersedes \notin g.purged
      <4> SUFFICES ASSUME ev.type = "upserted", ev.supersedes \in f.purged PROVE FALSE
        BY <1>1 DEF After
      <4>1. PICK n \in 1 .. f.checkpoint : log[n].record = ev.supersedes /\ PurgeAt(n)
        BY DEF EdgeOK
      <4> QED
        BY <1>2, <4>1 DEF Copy, Fresh
    <3>5. CASE ev.type = "upserted"
      <4>1. /\ s \in DOMAIN g.rows /\ g.rows[s].content = ev.content
            /\ g.rows[s].supersedes = ev.supersedes
        BY <1>1, <2>1, <3>5 DEF After
      <4> QED
        BY <1>2, <3>1, <3>2, <3>3, <3>4, <3>5, <4>1 DEF RowOK, Upserts, Target
    <3>6. CASE ev.type # "upserted"
      <4>1. s \notin DOMAIN g.rows
        BY <1>1, <2>1, <3>6 DEF After
      <4> QED
        BY <1>2, <3>1, <3>3, <3>6, <4>1 DEF RowOK, Upserts
    <3> QED
      BY <3>5, <3>6
  <2>2. CASE s # r
    <3>1. RowOK(f, s)
      BY DEF EdgeOK
    <3>2. \A k \in 1 .. f.checkpoint : LastBy(k, s, f.checkpoint) <=> LastBy(k, s, q)
      BY <1>2, <1>3, <2>2 DEF LastBy
    <3>3. ~LastBy(q, s, q)
      BY <1>3, <2>2 DEF LastBy
    <3>4. \A k \in 1 .. q : Upserts(k, s, q) => k \in 1 .. f.checkpoint /\ Upserts(k, s, f.checkpoint)
      BY <1>2, <3>2, <3>3 DEF Upserts
    <3>5. s \in DOMAIN g.rows <=> s \in DOMAIN f.rows
      BY <1>1, <2>2 DEF After
    <3>6. s \in DOMAIN g.rows => \E k \in 1 .. q : Upserts(k, s, q)
      BY <1>2, <3>1, <3>2, <3>5 DEF RowOK, Upserts
    <3>7. ASSUME NEW k \in 1 .. q, Upserts(k, s, q)
          PROVE  /\ s \in DOMAIN g.rows /\ g.rows[s].content = log[k].content
                 /\ g.rows[s].supersedes = Target(k, g.purged)
      <4>1. k \in 1 .. f.checkpoint /\ Upserts(k, s, f.checkpoint)
        BY <3>4, <3>7
      <4>2. /\ s \in DOMAIN f.rows /\ f.rows[s].content = log[k].content
            /\ f.rows[s].supersedes = Target(k, f.purged)
        BY <3>1, <4>1 DEF RowOK
      <4>3. /\ s \in DOMAIN f.rows \ {ev.record} /\ g.rows[s].content = log[k].content
            /\ g.rows[s].supersedes = IF ev.type = "purged" /\ f.rows[s].supersedes = r
                                      THEN NoRecord ELSE f.rows[s].supersedes
        BY <1>1, <2>2, <4>2 DEF After
      <4>4. g.purged = IF ev.type = "purged" THEN f.purged \cup {r} ELSE f.purged
        BY <1>1 DEF After
      <4>5. r # NoRecord
        BY <1>3, RecordAssumption
      <4> QED
        BY <3>5, <4>2, <4>3, <4>4, <4>5 DEF Target
    <3> QED
      BY <1>2, <3>6, <3>7 DEF RowOK
  <2> QED
    BY <2>1, <2>2
<1> QED
  BY <1>8, <1>9, <1>10, <1>11, <1>12 DEF EdgeOK

-----------------------------------------------------------------------------
(* What a longer or scrubbed log leaves.                                   *)

(* The log grows, and a newly purged record has its events blanked.        *)
LogKept ==
  /\ purged \subseteq purged' /\ Len(log) <= Len(log)'
  /\ \A q \in DOMAIN log :
       \/ log'[q] = log[q]
       \/ /\ log'[q] = Withdrawn(log[q].record) /\ log[q].record \in purged'
          /\ log[q].type \notin PurgeTypes

LEMMA PlaceKept ==
  ASSUME TypeOK, TypeOK', LogKept, NEW q \in DOMAIN log
  PROVE  /\ q \in DOMAIN log' /\ log'[q].record = log[q].record
         /\ log[q].record \notin purged' => log'[q] = log[q]
         /\ PurgeAt(q)' <=> PurgeAt(q)
         /\ WellFormed(log[q]) => WellFormed(log'[q])
<1>1. q \in DOMAIN log'
  BY DEF TypeOK, LogKept
<1>2. CASE log'[q] = log[q]
  BY <1>1, <1>2 DEF PurgeAt, WellFormed
<1>3. CASE /\ log'[q] = Withdrawn(log[q].record) /\ log[q].record \in purged'
           /\ log[q].type \notin PurgeTypes
  BY <1>1, <1>3 DEF PurgeAt, PurgeTypes, WellFormed, Withdrawn, Bare
<1> QED
  BY <1>2, <1>3 DEF LogKept

LEMMA CopyKept ==
  ASSUME TypeOK, TypeOK', LogKept, NEW q, NEW ev, Copy(q, ev)
  PROVE  Copy(q, ev)'
<1>1. q \in DOMAIN log /\ q \in DOMAIN log' /\ log'[q].record = log[q].record
  BY PlaceKept DEF Copy
<1>2. log[q].record = ev.record
  BY DEF Copy, Withdrawn, Bare
<1>3. \/ ev = log'[q]
      \/ log'[q] = Withdrawn(ev.record) /\ ev.record \in purged' /\ ev.type \notin PurgeTypes
  BY <1>1, <1>2 DEF Copy, LogKept, Withdrawn, Bare
<1>4. ASSUME NEW n \in 1 .. q - 1, PurgeAt(n)' PROVE ev.supersedes # log'[n].record
  <2>1. n \in DOMAIN log
    BY <1>1, LogTyped
  <2>2. PurgeAt(n) /\ log'[n].record = log[n].record
    BY <1>4, <2>1, PlaceKept
  <2> QED
    BY <2>2 DEF Copy, Fresh
<1> QED
  BY <1>1, <1>3, <1>4 DEF Copy, Fresh, Withdrawn, Bare

LEMMA EdgeKept ==
  ASSUME TypeOK, TypeOK', LogKept, NEW e, EdgeTypeOK(e), EdgeOK(e)
  PROVE  EdgeOK(e)'
<1>1. e.checkpoint \in Nat /\ e.checkpoint <= Len(log) /\ Len(log) <= Len(log')
  BY DEF EdgeTypeOK, EdgeOK, LogKept
<1>2. \A n \in 1 .. e.checkpoint : n \in DOMAIN log
  BY <1>1, LogTyped
<1>3. \A n \in 1 .. e.checkpoint : WellFormed(log'[n])
  BY <1>2, PlaceKept DEF EdgeOK
<1>4. ASSUME NEW q \in DOMAIN e.applied PROVE Copy(q, e.applied[q])'
  <2>1. Copy(q, e.applied[q])
    BY DEF EdgeOK
  <2> QED
    BY <2>1, CopyKept
<1>5. ASSUME NEW n \in 1 .. e.checkpoint, PurgeAt(n)' PROVE log'[n].record \in e.purged
  BY <1>2, <1>5, PlaceKept DEF EdgeOK
<1>6. ASSUME NEW r \in e.purged
      PROVE  Erased(e, r) /\ \E n \in 1 .. e.checkpoint : log'[n].record = r /\ PurgeAt(n)'
  <2>1. PICK n \in 1 .. e.checkpoint : log[n].record = r /\ PurgeAt(n)
    BY DEF EdgeOK
  <2>2. log'[n].record = r /\ PurgeAt(n)'
    BY <1>2, <2>1, PlaceKept
  <2> QED
    BY <2>2 DEF EdgeOK
<1>7. ASSUME NEW r \in Records \ purged' PROVE RowOK(e, r)'
  <2>1. RowOK(e, r)
    BY DEF EdgeOK, LogKept
  <2>2. \A k \in 1 .. e.checkpoint :
          log'[k].record = log[k].record /\ (log[k].record = r => log'[k] = log[k])
    BY <1>2, PlaceKept
  <2>3. ASSUME NEW q \in 1 .. e.checkpoint
        PROVE  Upserts(q, r, e.checkpoint)' <=> Upserts(q, r, e.checkpoint)
    <3>1. \A k \in q + 1 .. e.checkpoint : k \in 1 .. e.checkpoint
      BY <1>1
    <3>2. LastBy(q, r, e.checkpoint)' <=> LastBy(q, r, e.checkpoint)
      BY <2>2, <3>1 DEF LastBy
    <3>3. LastBy(q, r, e.checkpoint) => log'[q] = log[q]
      BY <2>2 DEF LastBy
    <3> QED
      BY <3>2, <3>3 DEF Upserts
  <2>4. ASSUME NEW q \in 1 .. e.checkpoint, Upserts(q, r, e.checkpoint)
        PROVE  log'[q] = log[q]
    BY <2>2, <2>4 DEF Upserts, LastBy
  <2> QED
    BY <2>1, <2>3, <2>4 DEF RowOK, Target
<1> QED
  BY <1>1, <1>3, <1>4, <1>5, <1>6, <1>7 DEF EdgeOK, Erased

(* A step of Core leaves the Edge and what is on its way as they were.     *)
LEMMA CoreStep ==
  ASSUME IInv, TypeOK', LogKept, UNCHANGED <<edge, snapshot, sync, late>>
  PROVE  EdgesOK' /\ SyncOK'
<1> USE DEF IInv
<1>1. ASSUME NEW e \in {edge, snapshot} PROVE EdgeOK(e)'
  BY EdgeKept DEF EdgesOK, TypeOK
<1>2. ASSUME NEW m \in late \cup Sending PROVE Copy(m[1], m[2])'
  <2>1. Copy(m[1], m[2])
    BY DEF SyncOK
  <2> QED
    BY <2>1, CopyKept
<1>3. Sending' = Sending /\ (Posting' <=> Posting)
  BY DEF Sending, Posting
<1>4. EdgesOK'
  BY <1>1 DEF EdgesOK
<1>5. sync.pc = "status" => sync.from <= Len(log')
  BY DEF SyncOK, TypeOK, LogKept
<1> QED
  BY <1>2, <1>3, <1>4, <1>5 DEF SyncOK

-----------------------------------------------------------------------------
(* Core writes.                                                            *)

(* A write of record r that becomes x: at most the withdrawal of another   *)
(* record, then at most event e.                                           *)
LEMMA RewriteInv ==
  ASSUME IInv, NEW r \in Records \ purged, NEW x \in Row, x.supersedes \notin purged,
         NEW e \in Event, e.record = r, e.type \notin PurgeTypes, e.supersedes \notin purged,
         e.type = "upserted" => e = Upsert(r, x) /\ x.always /\ ~x.deleted,
         NEW old, old = <<>> \/ \E t \in Records \ (purged \cup {r}) : old = <<Withdrawn(t)>>,
         NEW new, new = <<>> \/ new = <<e>>,
         new = <<>> => \A q \in DOMAIN log : Upserts(q, r, Len(log)) =>
                         /\ x.always /\ ~x.deleted /\ x.content = log[q].content
                         /\ x.supersedes = Target(q, purged),
         Len(log) + Len(old \o new) <= MaxEvents,
         Rewrite(r, x, old \o new)
  PROVE  IInv'
<1> USE DEF IInv
<1>1. /\ row' = Outranks([p \in {r} |-> x], row) /\ log' = log \o (old \o new)
      /\ UNCHANGED <<purged, delivered, edge, snapshot, rollbacks, sync, late>>
  BY DEF Rewrite
<1>2. /\ Len(log) \in Nat /\ DOMAIN log = 1 .. Len(log) /\ log \in Seq(Event)
      /\ \A n \in DOMAIN log : log[n] \in Event
  BY LogTyped DEF TypeOK
<1>3. \A t \in Records : Withdrawn(t) \in Event
  BY BoundAssumption DEF Withdrawn, Bare, Event
<1> DEFINE Longer(after) ==
             /\ after \in Seq(Event) /\ Len(log) <= Len(after) /\ Len(after) <= MaxEvents
             /\ \A i \in DOMAIN log : after[i] = log[i]
             /\ \A i \in DOMAIN after \ DOMAIN log :
                  \/ i = Len(after) /\ after[i] = e /\ new = <<e>>
                  \/ \E t \in Records \ (purged \cup {r}) : after[i] = Withdrawn(t)
             /\ new = <<e>> => Len(log) < Len(after) /\ after[Len(after)] = e
<1>4. Longer(log')
  <2>1. PICK after : after = log \o (old \o new)
    OBVIOUS
  <2>2. CASE old = <<>> /\ new = <<>>
    <3>1. after = log
      BY <1>2, <2>1, <2>2
    <3> QED
      BY <1>1, <1>2, <2>1, <2>2, <3>1
  <2>3. CASE old = <<>> /\ new = <<e>>
    <3>1. Len(old \o new) = 1 /\ after = Append(log, e)
      BY <1>2, <2>1, <2>3
    <3> QED
      BY <1>1, <1>2, <2>1, <2>3, <3>1
  <2>4. ASSUME NEW t \in Records \ (purged \cup {r}), old = <<Withdrawn(t)>>, new = <<>>
        PROVE  Longer(after)
    <3>1. PICK w \in Event : w = Withdrawn(t)
      BY <1>3
    <3>2. Len(old \o new) = 1 /\ after = Append(log, w)
      BY <1>2, <2>1, <2>4, <3>1
    <3> QED
      BY <1>2, <2>1, <2>4, <3>1, <3>2
  <2>5. ASSUME NEW t \in Records \ (purged \cup {r}), old = <<Withdrawn(t)>>, new = <<e>>
        PROVE  Longer(after)
    <3>1. PICK w \in Event : w = Withdrawn(t)
      BY <1>3
    <3>2. Len(old \o new) = 2 /\ after = Append(Append(log, w), e)
      BY <1>2, <2>1, <2>5, <3>1
    <3> QED
      BY <1>2, <2>1, <2>5, <3>1, <3>2
  <2> QED
    BY <1>1, <2>1, <2>2, <2>3, <2>4, <2>5
<1>5. /\ log' \in Seq(Event) /\ Len(log') \in Nat /\ DOMAIN log' = 1 .. Len(log')
      /\ Len(log) <= Len(log') /\ Len(log') <= MaxEvents
      /\ \A i \in DOMAIN log : i \in DOMAIN log' /\ log'[i] = log[i]
      /\ \A i \in DOMAIN log' \ DOMAIN log :
           \/ i = Len(log') /\ log'[i] = e /\ new = <<e>>
           \/ \E t \in Records \ (purged \cup {r}) : log'[i] = Withdrawn(t)
      /\ new = <<e>> => Len(log) < Len(log') /\ log'[Len(log')] = e
  BY <1>2, <1>4
<1> HIDE DEF Longer
<1>6. /\ DOMAIN row' = DOMAIN row \cup {r} /\ row'[r] = x
      /\ \A p \in DOMAIN row \ {r} : row'[p] = row[p]
  BY <1>1 DEF Outranks
<1>7. TypeOK'
  BY <1>1, <1>2, <1>5, <1>6 DEF TypeOK, Known
<1>8. LogKept
  BY <1>1, <1>5 DEF LogKept
<1>9. EdgesOK' /\ SyncOK'
  BY <1>1, <1>7, <1>8, CoreStep
<1>10. ASSUME NEW i \in DOMAIN log' \ DOMAIN log
       PROVE  /\ log'[i].type \notin PurgeTypes /\ log'[i].record \notin purged
              /\ log'[i].supersedes \notin purged
  <2>1. NoRecord \notin purged
    BY RecordAssumption DEF TypeOK
  <2> QED
    BY <1>5, <2>1 DEF Withdrawn, Bare, PurgeTypes
<1>11. ASSUME NEW m \in DOMAIN log', NEW n \in DOMAIN log', m < n, PurgeAt(m)'
       PROVE  log'[n].record # log'[m].record /\ log'[n].supersedes # log'[m].record
  <2>1. m \in DOMAIN log /\ log'[m] = log[m] /\ PurgeAt(m)
    BY <1>5, <1>10, <1>11 DEF PurgeAt
  <2>2. log[m].record \in purged
    BY <2>1 DEF CoreOK
  <2>3. CASE n \in DOMAIN log
    BY <1>5, <1>11, <2>1, <2>3 DEF CoreOK
  <2>4. CASE n \notin DOMAIN log
    BY <1>10, <2>1, <2>2, <2>4
  <2> QED
    BY <2>3, <2>4
<1>12. ASSUME NEW q \in DOMAIN log', NEW p \in Records \ purged, Upserts(q, p, Len(log))'
       PROVE  /\ p \in DOMAIN row' /\ ~row'[p].deleted /\ row'[p].always
              /\ row'[p].content = log'[q].content /\ row'[p].supersedes = Target(q, purged)'
  <2>1. /\ log'[q].record = p /\ log'[q].type = "upserted"
        /\ \A k \in q + 1 .. Len(log') : log'[k].record # p
    BY <1>12 DEF Upserts, LastBy
  <2>2. CASE p = r /\ new = <<e>>
    <3>1. q = Len(log') /\ log'[q] = Upsert(r, x)
      BY <1>5, <2>1, <2>2
    <3>2. /\ log'[q].content = x.content /\ log'[q].supersedes = x.supersedes
      BY <3>1 DEF Upsert
    <3> QED
      BY <1>1, <1>5, <1>6, <2>1, <2>2, <3>1, <3>2 DEF Target
  <2>3. CASE p # r \/ new = <<>>
    <3>1. q \in DOMAIN log /\ log'[q] = log[q]
      <4>1. \A t \in Records : log'[q] # Withdrawn(t)
        BY <2>1 DEF Withdrawn, Bare
      <4>2. ~(log'[q] = e /\ new = <<e>>)
        BY <2>1, <2>3
      <4> QED
        BY <1>5, <4>1, <4>2
    <3>2. \A k \in q + 1 .. Len(log) : log[k].record # p
      BY <1>2, <1>5, <2>1, <3>1
    <3>3. Upserts(q, p, Len(log))
      BY <1>2, <2>1, <3>1, <3>2 DEF Upserts, LastBy
    <3>4. Target(q, purged)' = Target(q, purged)
      BY <1>1, <3>1 DEF Target
    <3>5. CASE p = r
      BY <1>6, <2>3, <3>1, <3>3, <3>4, <3>5
    <3>6. CASE p # r
      BY <1>6, <3>1, <3>3, <3>4, <3>6 DEF CoreOK, Live, Known
    <3> QED
      BY <3>5, <3>6
  <2> QED
    BY <2>2, <2>3
<1>13. \A p \in DOMAIN row' : p \notin purged /\ row'[p].supersedes \notin purged
  BY <1>6 DEF CoreOK, Known
<1>14. \A p \in purged : \E n \in DOMAIN log' : log'[n].record = p /\ PurgeAt(n)'
  BY <1>5 DEF CoreOK, PurgeAt
<1>15. \A n \in DOMAIN log' : PurgeAt(n)' => log'[n].record \in purged
  BY <1>5, <1>10 DEF CoreOK, PurgeAt
<1>16. CoreOK'
  BY <1>1, <1>11, <1>12, <1>13, <1>14, <1>15 DEF CoreOK, Known, Live
<1> QED
  BY <1>7, <1>9, <1>16

LEMMA RecordTyped ==
  ASSUME IInv, NEW r, r \in Known
  PROVE  /\ r \in Records \ purged /\ row[r] \in Row /\ row[r].supersedes \notin purged
         /\ row[r].version < MaxVersion =>
              /\ row[r].version + 1 \in Versions /\ row[r].version + 1 # 0
              /\ row[r].version + 1 \in 0 .. MaxVersion
  BY BoundAssumption DEF IInv, TypeOK, CoreOK, Row, Versions

LEMMA UpsertTyped ==
  ASSUME NEW r \in Records, NEW x \in Row
  PROVE  /\ Upsert(r, x) \in Event /\ Upsert(r, x).record = r
         /\ Upsert(r, x).type = "upserted" /\ Upsert(r, x).supersedes = x.supersedes
BY BoundAssumption DEF Upsert, Event, Row, Versions

LEMMA BareTyped ==
  ASSUME NEW r \in Records, NEW type \in {"withdrawn", "deleted", "purged", "repaired"},
         NEW version \in 0 .. MaxVersion, type = "deleted" <=> version # 0
  PROVE  /\ Bare(type, r, version) \in Event /\ Bare(type, r, version).record = r
         /\ Bare(type, r, version).type = type
         /\ Bare(type, r, version).supersedes = NoRecord
BY BoundAssumption DEF Bare, Event

LEMMA WithdrawnTyped ==
  ASSUME NEW r \in Records
  PROVE  /\ Withdrawn(r) \in Event /\ Withdrawn(r).record = r
         /\ Withdrawn(r).type = "withdrawn" /\ Withdrawn(r).supersedes = NoRecord
BY BareTyped, BoundAssumption DEF Withdrawn

LEMMA TargetKnown ==
  ASSUME IInv, NEW r, NEW t \in Records \cup {NoRecord}, ValidSupersedes(r, t)
  PROVE  t \notin purged
BY RecordAssumption DEF ValidSupersedes, IInv, TypeOK, CoreOK

(* A write that announces x, or has nothing to announce.                   *)
LEMMA AnnounceInv ==
  ASSUME IInv, NEW r \in Records \ purged, NEW x \in Row, ~x.deleted, x.supersedes \notin purged,
         NEW old, old = <<>> \/ \E t \in Records \ (purged \cup {r}) : old = <<Withdrawn(t)>>,
         Len(log) + Len(old \o Announce(r, x)) <= MaxEvents,
         Rewrite(r, x, old \o Announce(r, x))
  PROVE  IInv'
<1>1. NoRecord \notin purged
  BY RecordAssumption DEF IInv, TypeOK
<1>2. PICK e \in Event : /\ e = IF x.always THEN Upsert(r, x) ELSE Withdrawn(r)
                         /\ e.record = r /\ e.type \in {"upserted", "withdrawn"}
                         /\ e.type = "upserted" <=> x.always
                         /\ e.supersedes \notin purged
  BY <1>1, UpsertTyped, WithdrawnTyped
<1>3. PICK new : new = Announce(r, x)
  OBVIOUS
<1>4. new = <<>> \/ new = <<e>>
  BY <1>2, <1>3 DEF Announce
<1>5. new = <<>> => ~x.always /\ (r \in Known => ~row[r].always)
  BY <1>3 DEF Announce
<1>6. new = <<>> => \A q \in DOMAIN log : ~Upserts(q, r, Len(log))
  BY <1>5 DEF IInv, CoreOK, Live
<1> QED
  BY <1>2, <1>3, <1>4, <1>6, RewriteInv DEF PurgeTypes

LEMMA ApproveInv ==
  ASSUME IInv, NEW r \in Records, NEW always \in BOOLEAN, NEW t \in Records \cup {NoRecord},
         Approve(r, always, t)
  PROVE  IInv'
<1> DEFINE x == [version |-> 1, content |-> 1, always |-> always, deleted |-> FALSE,
                 supersedes |-> t]
           old == IF Live(t) /\ row[t].always THEN <<Withdrawn(t)>> ELSE <<>>
<1>1. x \in Row /\ ~x.deleted /\ x.supersedes = t
  BY BoundAssumption DEF Row, Versions
<1>2. r \notin Known /\ r \in Records \ purged /\ t \notin purged
      /\ Len(log) + 2 <= MaxEvents /\ Rewrite(r, x, old \o Announce(r, x))
  BY TargetKnown DEF Approve
<1>3. old = <<>> \/ \E p \in Records \ (purged \cup {r}) : old = <<Withdrawn(p)>>
  BY <1>2, RecordTyped DEF Live
<1>4. Len(old \o Announce(r, x)) <= 2
  BY <1>2 DEF Announce
<1>5. Len(log) + Len(old \o Announce(r, x)) <= MaxEvents
  <2>1. PICK n \in Nat : n = Len(old \o Announce(r, x))
    BY <1>2 DEF Announce
  <2> QED
    BY <1>2, <1>4, <2>1, LogTyped, BoundAssumption DEF IInv
<1> HIDE DEF x, old
<1> QED
  BY <1>1, <1>2, <1>3, <1>5, AnnounceInv

LEMMA PlainAnnounce ==
  ASSUME IInv, NEW r, r \in Known, NEW x \in Row, ~x.deleted, x.supersedes \notin purged,
         Room(r, 1), Rewrite(r, x, Announce(r, x))
  PROVE  IInv'
<1>1. r \in Records \ purged
  BY RecordTyped
<1>2. PICK new : new = Announce(r, x) /\ <<>> \o new = new /\ Len(new) \in 0 .. 1
  <2>1. PICK new : new = Announce(r, x)
    OBVIOUS
  <2>2. new = <<>> \/ \E e : new = <<e>>
    BY <2>1 DEF Announce
  <2> QED
    BY <2>1, <2>2
<1>3. Len(log) + Len(new) <= MaxEvents
  <2>1. Len(log) \in Nat /\ Len(log) + 1 <= MaxEvents
    BY LogTyped DEF Room, IInv
  <2>2. PICK k \in 0 .. 1 : k = Len(new)
    BY <1>2
  <2>3. Len(log) + k <= MaxEvents
    BY <2>1, BoundAssumption
  <2> QED
    BY <2>2, <2>3
<1> QED
  BY <1>1, <1>2, <1>3, AnnounceInv

LEMMA CorrectInv ==
  ASSUME IInv, NEW r \in Records, NEW t \in Records \cup {NoRecord}, Correct(r, t)
  PROVE  IInv'
<1> DEFINE x == [row[r] EXCEPT !.version = row[r].version + 1, !.content = row[r].version + 1,
                               !.supersedes = t]
<1>1. /\ r \in Known /\ ~row[r].deleted /\ Room(r, 1) /\ t \notin purged
      /\ Rewrite(r, x, Announce(r, x))
  BY TargetKnown DEF Correct, Live
<1>2. x \in Row /\ ~x.deleted /\ x.supersedes = t
  BY <1>1, RecordTyped DEF Row, Room
<1> HIDE DEF x
<1> QED
  BY <1>1, <1>2, PlainAnnounce

LEMMA ChangeAvailabilityInv ==
  ASSUME IInv, NEW r \in Records, ChangeAvailability(r)
  PROVE  IInv'
<1> DEFINE x == [row[r] EXCEPT !.version = row[r].version + 1, !.always = ~row[r].always]
<1>1. /\ r \in Known /\ ~row[r].deleted /\ Room(r, 1) /\ Rewrite(r, x, Announce(r, x))
  BY DEF ChangeAvailability, Live
<1>2. x \in Row /\ ~x.deleted /\ x.supersedes \notin purged
  BY <1>1, RecordTyped DEF Row, Room
<1> HIDE DEF x
<1> QED
  BY <1>1, <1>2, PlainAnnounce

LEMMA DeleteInv ==
  ASSUME IInv, NEW r \in Records, Delete(r)
  PROVE  IInv'
<1> DEFINE x == [row[r] EXCEPT !.version = row[r].version + 1, !.deleted = TRUE]
<1>1. r \in Known /\ Room(r, 1)
      /\ Rewrite(r, x, <<Bare("deleted", r, row[r].version + 1)>>)
  BY DEF Delete, Live
<1>2. x \in Row /\ x.supersedes \notin purged /\ r \in Records \ purged
  BY <1>1, RecordTyped DEF Row, Room
<1>3. PICK e \in Event : /\ e = Bare("deleted", r, row[r].version + 1) /\ e.record = r
                         /\ e.type = "deleted" /\ e.supersedes = NoRecord
  BY <1>1, RecordTyped, BareTyped DEF Room
<1>4. NoRecord \notin purged
  BY RecordAssumption DEF IInv, TypeOK
<1>5. /\ <<>> \o <<e>> = <<e>> /\ <<e>> # <<>> /\ Len(<<e>>) = 1
  OBVIOUS
<1>6. Len(log) + Len(<<>> \o <<e>>) <= MaxEvents /\ Rewrite(r, x, <<>> \o <<e>>)
  BY <1>1, <1>3, <1>5 DEF Room
<1> HIDE DEF x
<1> QED
  BY <1>2, <1>3, <1>4, <1>5, <1>6, RewriteInv DEF PurgeTypes

LEMMA RestoreInv ==
  ASSUME IInv, NEW r \in Records, Restore(r)
  PROVE  IInv'
<1> DEFINE x == [row[r] EXCEPT !.version = row[r].version + 1, !.deleted = FALSE]
<1>1. /\ r \in Known /\ Room(r, 1)
      /\ Rewrite(r, x, IF row[r].deleted /\ x.always THEN <<Upsert(r, x)>> ELSE <<>>)
  BY DEF Restore
<1>2. /\ x \in Row /\ x.supersedes \notin purged /\ r \in Records \ purged /\ ~x.deleted
      /\ x.always = row[r].always /\ x.content = row[r].content
      /\ x.supersedes = row[r].supersedes
  BY <1>1, RecordTyped DEF Row, Room
<1> HIDE DEF x
<1>3. NoRecord \notin purged
  BY RecordAssumption DEF IInv, TypeOK
<1>4. PICK e \in Event : /\ e.record = r /\ e.supersedes \notin purged
                         /\ e = IF x.always THEN Upsert(r, x) ELSE Withdrawn(r)
                         /\ e.type \in {"upserted", "withdrawn"}
                         /\ e.type = "upserted" <=> x.always
  BY <1>2, <1>3, UpsertTyped, WithdrawnTyped
<1>5. PICK new : new = IF row[r].deleted /\ x.always THEN <<Upsert(r, x)>> ELSE <<>>
  OBVIOUS
<1>6. (new = <<>> \/ new = <<e>>) /\ <<>> \o new = new /\ Len(new) <= 1 /\ Len(new) \in Nat
  BY <1>4, <1>5
<1>7. new = <<>> => ~row[r].deleted \/ ~x.always
  BY <1>5
<1>8. new = <<>> => \A q \in DOMAIN log : Upserts(q, r, Len(log)) =>
                      /\ x.always /\ ~x.deleted /\ x.content = log[q].content
                      /\ x.supersedes = Target(q, purged)
  BY <1>2, <1>7 DEF IInv, CoreOK, Live
<1>9. Len(log) + Len(<<>> \o new) <= MaxEvents /\ Rewrite(r, x, <<>> \o new)
  BY <1>1, <1>5, <1>6, LogTyped, BoundAssumption DEF Room, IInv
<1> QED
  BY <1>2, <1>4, <1>6, <1>8, <1>9, RewriteInv DEF PurgeTypes

(* A purge blanks the events of its record and appends itself.             *)
LEMMA PurgeInv ==
  ASSUME IInv, NEW r \in Records, NEW type \in PurgeTypes, Purge(r, type)
  PROVE  IInv'
<1> USE DEF IInv
<1>1. /\ r \in Known /\ Len(log) < MaxEvents /\ purged' = purged \cup {r}
      /\ row' = [p \in Known \ {r} |-> IF row[p].supersedes = r
                                       THEN [row[p] EXCEPT !.supersedes = NoRecord] ELSE row[p]]
      /\ log' = Append(Scrubbed(r), Bare(type, r, 0))
      /\ UNCHANGED <<delivered, edge, snapshot, rollbacks, sync, late>>
  BY DEF Purge
<1>2. /\ Len(log) \in Nat /\ DOMAIN log = 1 .. Len(log)
      /\ \A n \in DOMAIN log : log[n] \in Event
  BY LogTyped
<1>3. r \notin purged /\ NoRecord \notin purged /\ r # NoRecord
  BY <1>1, RecordTyped, RecordAssumption DEF TypeOK
<1>4. PICK e \in Event : /\ e = Bare(type, r, 0) /\ e.record = r /\ e.type = type
                         /\ e.supersedes = NoRecord
  BY BareTyped, BoundAssumption DEF PurgeTypes
<1>5. PICK w \in Event : w = Withdrawn(r) /\ w.record = r /\ w.type = "withdrawn"
                         /\ w.supersedes = NoRecord
  BY WithdrawnTyped
<1>6. PICK s \in Seq(Event) : s = Scrubbed(r) /\ Len(s) = Len(log)
                              /\ \A q \in DOMAIN log : s[q] = IF log[q].record = r THEN w ELSE log[q]
  <2>1. PICK s : s = [q \in 1 .. Len(log) |-> IF log[q].record = r THEN w ELSE log[q]]
    OBVIOUS
  <2>2. s \in Seq(Event) /\ Len(s) = Len(log)
    BY <1>2, <2>1
  <2> QED
    BY <1>2, <1>5, <2>1, <2>2 DEF Scrubbed
<1>7. /\ log' \in Seq(Event) /\ Len(log') = Len(log) + 1 /\ DOMAIN log' = 1 .. Len(log) + 1
      /\ \A q \in DOMAIN log : log'[q] = IF log[q].record = r THEN w ELSE log[q]
      /\ log'[Len(log) + 1] = e
  BY <1>1, <1>2, <1>4, <1>6
<1>8. \A q \in DOMAIN log : log[q].record = r => log[q].type \notin PurgeTypes
  BY <1>3 DEF CoreOK, PurgeAt
<1>9. \A q \in DOMAIN log : /\ q \in DOMAIN log' /\ log'[q].record = log[q].record
                            /\ log'[q].type \in PurgeTypes <=> log[q].type \in PurgeTypes
                            /\ log'[q].supersedes \in {log[q].supersedes, NoRecord}
  BY <1>2, <1>5, <1>7, <1>8 DEF PurgeTypes
<1>10. TypeOK'
  <2>1. \A p \in DOMAIN row' : p \in Records /\ row'[p] \in Row
    BY <1>1, RecordTyped DEF Row
  <2>2. Len(log') <= MaxEvents /\ delivered' \subseteq DOMAIN log'
    BY <1>1, <1>2, <1>7, BoundAssumption DEF TypeOK
  <2>3. log' \in Seq(Event) /\ purged' \subseteq Records
    BY <1>1, <1>7 DEF TypeOK
  <2> QED
    BY <1>1, <2>1, <2>2, <2>3 DEF TypeOK, Known
<1>11. LogKept
  BY <1>1, <1>2, <1>5, <1>7, <1>8 DEF LogKept
<1>12. EdgesOK' /\ SyncOK'
  BY <1>1, <1>10, <1>11, CoreStep
<1>13. \A p \in DOMAIN row' : p \notin purged' /\ row'[p].supersedes \notin purged'
  <2> SUFFICES ASSUME NEW p \in Known \ {r}
               PROVE  p \notin purged' /\ row'[p].supersedes \notin purged'
    BY <1>1
  <2>1. row[p] \in Row /\ p \notin purged /\ row[p].supersedes \notin purged
    BY RecordTyped
  <2>2. row'[p].supersedes = IF row[p].supersedes = r THEN NoRecord ELSE row[p].supersedes
    BY <1>1, <2>1 DEF Row
  <2> QED
    BY <1>1, <1>3, <2>1, <2>2
<1>14. ASSUME NEW p \in purged' PROVE \E n \in DOMAIN log' : log'[n].record = p /\ PurgeAt(n)'
  <2>1. CASE p = r
    BY <1>2, <1>4, <1>7, <2>1 DEF PurgeAt
  <2>2. CASE p # r
    BY <1>1, <1>9, <2>2 DEF CoreOK, PurgeAt
  <2> QED
    BY <2>1, <2>2
<1>15. ASSUME NEW n \in DOMAIN log', PurgeAt(n)' PROVE log'[n].record \in purged'
  <2>1. CASE n \in DOMAIN log
    BY <1>1, <1>9, <1>15, <2>1 DEF CoreOK, PurgeAt
  <2>2. CASE n \notin DOMAIN log
    BY <1>1, <1>2, <1>4, <1>7, <2>2
  <2> QED
    BY <2>1, <2>2
<1>16. ASSUME NEW m \in DOMAIN log', NEW n \in DOMAIN log', m < n, PurgeAt(m)'
       PROVE  log'[n].record # log'[m].record /\ log'[n].supersedes # log'[m].record
  <2>1. m \in DOMAIN log
    BY <1>2, <1>7, <1>16
  <2>2. PurgeAt(m) /\ log[m].record \in purged /\ log'[m].record = log[m].record
    BY <1>9, <1>16, <2>1 DEF CoreOK, PurgeAt
  <2>3. CASE n \in DOMAIN log
    <3>1. log[n].record # log[m].record /\ log[n].supersedes # log[m].record
      BY <1>16, <2>1, <2>2, <2>3 DEF CoreOK
    <3> QED
      BY <1>3, <1>9, <2>2, <2>3, <3>1
  <2>4. CASE n \notin DOMAIN log
    BY <1>2, <1>3, <1>4, <1>7, <2>2, <2>4
  <2> QED
    BY <2>3, <2>4
<1>17. ASSUME NEW q \in DOMAIN log', NEW p \in Records \ purged', Upserts(q, p, Len(log))'
       PROVE  /\ p \in DOMAIN row' /\ ~row'[p].deleted /\ row'[p].always
              /\ row'[p].content = log'[q].content /\ row'[p].supersedes = Target(q, purged)'
  <2>1. /\ log'[q].record = p /\ log'[q].type = "upserted" /\ p # r /\ p \in Records \ purged
        /\ \A k \in q + 1 .. Len(log') : log'[k].record # p
    BY <1>1, <1>17 DEF Upserts, LastBy
  <2>2. q \in DOMAIN log /\ log'[q] = log[q]
    BY <1>2, <1>4, <1>7, <1>9, <2>1
  <2>3. \A k \in q + 1 .. Len(log) : k \in q + 1 .. Len(log') /\ k \in DOMAIN log
    BY <1>2, <1>7, <2>2
  <2>4. \A k \in q + 1 .. Len(log) : log[k].record # p
    BY <1>9, <2>1, <2>3
  <2>5. Upserts(q, p, Len(log))
    BY <1>2, <2>1, <2>2, <2>4 DEF Upserts, LastBy
  <2>6. /\ p \in Known /\ ~row[p].deleted /\ row[p].always
        /\ row[p].content = log[q].content /\ row[p].supersedes = Target(q, purged)
    BY <2>1, <2>2, <2>5 DEF CoreOK, Live
  <2>7. row[p] \in Row
    BY <2>6, RecordTyped
  <2>8. /\ p \in DOMAIN row' /\ ~row'[p].deleted /\ row'[p].always
        /\ row'[p].content = row[p].content
        /\ row'[p].supersedes = IF row[p].supersedes = r THEN NoRecord ELSE row[p].supersedes
    BY <1>1, <2>1, <2>6, <2>7 DEF Row
  <2>9. Target(q, purged)' = IF log[q].supersedes \in purged \cup {r} THEN NoRecord
                             ELSE log[q].supersedes
    BY <1>1, <2>2 DEF Target
  <2> QED
    BY <1>3, <2>2, <2>6, <2>8, <2>9 DEF Target
<1>18. CoreOK'
  BY <1>13, <1>14, <1>15, <1>16, <1>17 DEF CoreOK, Known, Live
<1> QED
  BY <1>10, <1>12, <1>18

-----------------------------------------------------------------------------
(* The Edge, and what is on its way to it.                                 *)

(* What the log holds now is a copy of itself.                             *)
LEMMA LogCopy ==
  ASSUME IInv, NEW q \in DOMAIN log
  PROVE  Copy(q, log[q]) /\ log[q] \in Event
<1>1. DOMAIN log = 1 .. Len(log) /\ Len(log) \in Nat /\ log[q] \in Event
  BY LogTyped DEF IInv
<1>2. \A n \in 1 .. q - 1 : PurgeAt(n) => log[q].supersedes # log[n].record
  BY <1>1 DEF IInv, CoreOK
<1> QED
  BY <1>1, <1>2 DEF Copy, Fresh

(* A step that leaves Core alone.                                          *)
LEMMA CoreUnchanged ==
  ASSUME IInv, UNCHANGED core
  PROVE  /\ CoreOK' /\ \A q, ev : Copy(q, ev)' <=> Copy(q, ev)
         /\ \A e : EdgeOK(e)' <=> EdgeOK(e)
<1>1. row' = row /\ purged' = purged /\ log' = log
  BY DEF core
<1> QED
  BY <1>1 DEF IInv, CoreOK, Copy, Fresh, PurgeAt, EdgeOK, RowOK, Upserts, LastBy, Target, Known, Live

(* A request that arrives, with a copy of an event.                        *)
LEMMA HandleOK ==
  ASSUME IInv, UNCHANGED <<core, snapshot>>, NEW q, NEW ev \in Event, Copy(q, ev),
         WellFormed(ev), Handle(q, ev)
  PROVE  EdgeTypeOK(edge') /\ EdgesOK'
<1> USE DEF IInv
<1>1. PICK f : f = edge
  OBVIOUS
<1>2. EdgeTypeOK(f) /\ EdgeOK(f) /\ EdgeTypeOK(snapshot) /\ TypeOK /\ CoreOK
  BY <1>1 DEF TypeOK, EdgesOK
<1>3. PICK g : g = edge'
  OBVIOUS
<1>4. EdgeTypeOK(g) /\ EdgeOK(g)
  <2>1. CASE Accepts(f, q, ev)
    <3>1. g = Applied(f, q, ev) /\ q = f.checkpoint + 1
      BY <1>1, <1>3, <2>1 DEF Handle, Accepts, InOrder
    <3>2. q \in 0 .. MaxEvents
      BY <1>2, LogTyped, BoundAssumption DEF Copy, TypeOK
    <3>3. EdgeTypeOK(g)
      BY <1>2, <3>1, <3>2, AppliedTyped
    <3> QED
      BY <1>2, <3>1, <3>3, AppliedOK
  <2>2. CASE ~Accepts(f, q, ev)
    BY <1>1, <1>2, <1>3, <2>2 DEF Handle
  <2> QED
    BY <2>1, <2>2
<1>5. \A e \in {edge, snapshot}' : EdgeOK(e)
  BY <1>2, <1>3, <1>4 DEF EdgesOK
<1>6. EdgesOK'
  BY <1>5, CoreUnchanged DEF EdgesOK
<1> QED
  BY <1>3, <1>4, <1>6

(* A step that only moves requests: copies come from the log or were under *)
(* way before.                                                             *)
LEMMA RequestsOK ==
  ASSUME IInv, UNCHANGED core, EdgesOK', TypeOK',
         sync'.pc = "status" => sync'.from <= Len(log),
         Posting' => sync'.todo # <<>> /\ WellFormed(sync'.todo[1]),
         \A m \in late' : WellFormed(m[2]),
         \A m \in (late \cup Sending)' : Copy(m[1], m[2])
  PROVE  IInv'
<1>1. log' = log /\ CoreOK' /\ \A q, ev : Copy(q, ev)' <=> Copy(q, ev)
  BY CoreUnchanged DEF core
<1> QED
  BY <1>1 DEF IInv, SyncOK

LEMMA EdgesKept ==
  ASSUME IInv, UNCHANGED core, edge' \in {edge, snapshot}, snapshot' \in {edge, snapshot}
  PROVE  EdgesOK'
BY CoreUnchanged DEF IInv, EdgesOK

(* Where the thread goes with what is left to push.                        *)
LEMMA ProceedOK ==
  ASSUME IInv, UNCHANGED <<core, edge, snapshot, rollbacks, late>>,
         delivered' \subseteq DOMAIN log,
         NEW from \in 0 .. MaxEvents, NEW todo \in Seq(Event),
         \A i \in DOMAIN todo : Copy(from + i, todo[i]),
         sync' = Proceed(from, todo)
  PROVE  IInv'
<1> USE DEF IInv
<1>1. \/ sync' \in {Idle("ready"), Idle("degraded")}
      \/ /\ sync' = [pc |-> "wait", from |-> from, todo |-> todo]
         /\ todo # <<>> /\ WellFormed(todo[1])
  BY DEF Proceed
<1>2. EdgesOK'
  BY EdgesKept
<1>3. /\ <<>> \in Seq(Event) /\ 0 \in 0 .. MaxEvents
  BY BoundAssumption
<1>4. sync' \in [pc : {"idle", "ready", "degraded", "status", "wait", "accepted", "rejected"},
                 from : 0 .. MaxEvents, todo : Seq(Event)]
  <2>1. CASE sync' \in {Idle("ready"), Idle("degraded")}
    <3>1. PICK pc \in {"ready", "degraded"} : sync' = [pc |-> pc, from |-> 0, todo |-> <<>>]
      BY <2>1 DEF Idle
    <3> QED
      BY <1>3, <3>1
  <2>2. CASE sync' = [pc |-> "wait", from |-> from, todo |-> todo]
    BY <2>2
  <2> QED
    BY <1>1, <2>1, <2>2
<1>5. TypeOK'
  BY <1>4 DEF TypeOK, core, Known
<1>6. /\ sync'.pc # "status"
      /\ Posting' => sync'.todo # <<>> /\ WellFormed(sync'.todo[1])
  BY <1>1 DEF Idle, Posting
<1>7. ASSUME NEW m \in Sending' PROVE Copy(m[1], m[2])
  <2>1. sync' = [pc |-> "wait", from |-> from, todo |-> todo]
    BY <1>1, <1>7 DEF Sending, Posting, Idle
  <2>2. PICK i \in DOMAIN todo : m = <<from + i, todo[i]>>
    BY <1>7, <2>1 DEF Sending
  <2> QED
    BY <2>2
<1>8. \A m \in (late \cup Sending)' : Copy(m[1], m[2])
  BY <1>7 DEF SyncOK
<1>9. \A m \in late' : WellFormed(m[2])
  BY DEF SyncOK
<1> QED
  BY <1>2, <1>5, <1>6, <1>8, <1>9, RequestsOK

LEMMA ReadStatusInv ==
  ASSUME IInv, ReadStatus
  PROVE  IInv'
<1> USE DEF IInv
<1>1. /\ sync' = [pc |-> "status", from |-> edge.checkpoint, todo |-> <<>>]
      /\ UNCHANGED <<core, delivered, edge, snapshot, rollbacks, late>>
  BY DEF ReadStatus
<1>2. EdgesOK'
  BY <1>1, EdgesKept
<1>3. edge.checkpoint \in 0 .. MaxEvents /\ edge.checkpoint <= Len(log)
  BY DEF TypeOK, EdgeTypeOK, EdgesOK, EdgeOK
<1>4. TypeOK'
  BY <1>1, <1>3 DEF TypeOK, core, Known
<1>5. ~Posting' /\ Sending' = {}
  BY <1>1 DEF Posting, Sending
<1> QED
  BY <1>1, <1>2, <1>3, <1>4, <1>5, RequestsOK DEF SyncOK

LEMMA ReadLogInv ==
  ASSUME IInv, ReadLog
  PROVE  IInv'
<1> USE DEF IInv
<1>1. UNCHANGED <<core, delivered, edge, snapshot, rollbacks, late>> /\ sync.pc = "status"
      /\ sync.from \in Nat /\ sync.from \in 0 .. MaxEvents /\ sync.from <= Len(log)
  BY DEF ReadLog, TypeOK, SyncOK
<1>2. Len(log) \in Nat /\ DOMAIN log = 1 .. Len(log) /\ log \in Seq(Event)
  BY LogTyped DEF TypeOK
<1>3. PICK to \in Nat : to = Least(Len(log), sync.from + BatchLimit) /\ to <= Len(log)
  <2>1. PICK n \in Nat : n = Len(log)
    BY <1>2
  <2>2. PICK b \in Nat : b = sync.from + BatchLimit
    BY <1>1, BoundAssumption
  <2>3. Least(n, b) \in Nat /\ Least(n, b) <= n
    BY DEF Least
  <2> QED
    BY <2>1, <2>2, <2>3
<1>4. PICK todo : todo = SubSeq(log, sync.from + 1, to)
  OBVIOUS
<1>5. /\ todo \in Seq(Event)
      /\ \A i \in DOMAIN todo : sync.from + i \in DOMAIN log /\ todo[i] = log[sync.from + i]
  BY <1>1, <1>2, <1>3, <1>4
<1>6. sync' = Proceed(sync.from, todo)
  BY <1>1, <1>3, <1>4 DEF ReadLog, Next1, TypeOK
<1>7. ASSUME NEW i \in DOMAIN todo PROVE Copy(sync.from + i, todo[i])
  <2>1. PICK q \in DOMAIN log : q = sync.from + i /\ todo[i] = log[q]
    BY <1>5
  <2> QED
    BY <2>1, LogCopy
<1>8. PICK from \in 0 .. MaxEvents : from = sync.from
  BY <1>1
<1>9. delivered' \subseteq DOMAIN log
  BY <1>1 DEF TypeOK
<1> QED
  BY <1>1, <1>5, <1>6, <1>7, <1>8, <1>9, ProceedOK

(* The request under way, of a thread that waits for its answer.           *)
LEMMA HeadOK ==
  ASSUME IInv, Posting
  PROVE  /\ sync.todo \in Seq(Event) /\ Len(sync.todo) \in Nat \ {0} /\ sync.from \in Nat
         /\ DOMAIN sync.todo = 1 .. Len(sync.todo)
         /\ Head(sync.todo) = sync.todo[1] /\ Head(sync.todo) \in Event
         /\ WellFormed(Head(sync.todo)) /\ Copy(Next1, Head(sync.todo))
         /\ <<Next1, Head(sync.todo)>> \in Sending
         /\ Next1 \in 1 .. MaxEvents /\ Next1 \in DOMAIN log
<1> USE DEF IInv
<1>1. sync.todo \in Seq(Event) /\ sync.todo # <<>> /\ sync.from \in Nat
  BY DEF TypeOK, SyncOK
<1>2. /\ Len(sync.todo) \in Nat \ {0} /\ DOMAIN sync.todo = 1 .. Len(sync.todo)
      /\ Head(sync.todo) = sync.todo[1] /\ Head(sync.todo) \in Event
  BY <1>1
<1>3. WellFormed(Head(sync.todo))
  BY <1>2 DEF SyncOK
<1>4. <<sync.from + 1, sync.todo[1]>> \in Sending
  BY <1>2 DEF Sending
<1>5. Copy(sync.from + 1, sync.todo[1])
  BY <1>4 DEF SyncOK
<1>6. sync.from + 1 \in DOMAIN log
  BY <1>5 DEF Copy
<1>7. sync.from + 1 \in 1 .. MaxEvents
  BY <1>1, <1>6, LogTyped, BoundAssumption DEF TypeOK
<1> QED
  BY <1>1, <1>2, <1>3, <1>4, <1>5, <1>6, <1>7 DEF Next1

LEMMA HandleRequestInv ==
  ASSUME IInv, HandleRequest
  PROVE  IInv'
<1> USE DEF IInv
<1>1. /\ sync.pc = "wait" /\ Handle(Next1, Head(sync.todo))
      /\ sync' = [sync EXCEPT !.pc = Answer(Next1, Head(sync.todo))]
      /\ UNCHANGED <<core, delivered, snapshot, rollbacks, late>>
  BY DEF HandleRequest
<1>2. Posting
  BY <1>1 DEF Posting
<1>3. PICK q, ev : q = Next1 /\ ev = Head(sync.todo) /\ ev \in Event /\ Copy(q, ev) /\ WellFormed(ev)
  BY <1>2, HeadOK
<1>4. EdgeTypeOK(edge') /\ EdgesOK'
  BY <1>1, <1>3, HandleOK
<1>5. /\ sync'.pc \in {"accepted", "rejected"} /\ sync'.from = sync.from
      /\ sync'.todo = sync.todo /\ DOMAIN sync' = {"pc", "from", "todo"}
      /\ sync' \in [pc : {"idle", "ready", "degraded", "status", "wait", "accepted", "rejected"},
                    from : 0 .. MaxEvents, todo : Seq(Event)]
  BY <1>1 DEF TypeOK, Answer
<1>6. TypeOK'
  BY <1>1, <1>4, <1>5 DEF TypeOK, core, Known, EdgeTypeOK
<1>7. Posting' /\ Sending' = Sending
  BY <1>2, <1>5 DEF Posting, Sending
<1> QED
  BY <1>1, <1>2, <1>4, <1>5, <1>6, <1>7, RequestsOK DEF SyncOK

LEMMA ReceiveResponseInv ==
  ASSUME IInv, ReceiveResponse
  PROVE  IInv'
<1> USE DEF IInv
<1>1. Posting /\ UNCHANGED <<core, edge, snapshot, rollbacks, late>>
  BY DEF ReceiveResponse, Posting
<1>2. /\ sync.todo \in Seq(Event) /\ Len(sync.todo) \in Nat \ {0} /\ sync.from \in Nat
      /\ DOMAIN sync.todo = 1 .. Len(sync.todo)
      /\ Next1 = sync.from + 1 /\ Next1 \in 1 .. MaxEvents /\ Next1 \in DOMAIN log
  BY <1>1, HeadOK DEF Next1
<1>3. CASE sync.pc = "accepted"
  <2>1. PICK todo : todo = Tail(sync.todo)
    OBVIOUS
  <2>2. /\ todo \in Seq(Event)
        /\ \A i \in DOMAIN todo : i \in Nat /\ i + 1 \in DOMAIN sync.todo
                                  /\ todo[i] = sync.todo[i + 1]
    BY <1>2, <2>1
  <2>3. PICK from \in 0 .. MaxEvents : from = Next1
    BY <1>2, BoundAssumption
  <2>4. ASSUME NEW i \in DOMAIN todo PROVE Copy(from + i, todo[i])
    <3>1. PICK k \in DOMAIN sync.todo : k = i + 1 /\ todo[i] = sync.todo[k]
      BY <2>2
    <3>2. <<sync.from + k, sync.todo[k]>> \in Sending
      BY <1>1 DEF Sending
    <3>3. Copy(sync.from + k, sync.todo[k])
      BY <3>2 DEF SyncOK
    <3>4. sync.from + k = from + i
      <4>1. PICK n \in Nat : n = sync.from /\ from = n + 1
        BY <1>2, <2>3
      <4>2. i \in Nat /\ k = i + 1
        BY <2>2, <3>1
      <4> QED
        BY <4>1, <4>2
    <3> QED
      BY <3>1, <3>3, <3>4
  <2>5. sync' = Proceed(from, todo) /\ delivered' = delivered \cup {Next1}
    BY <1>3, <2>1, <2>3 DEF ReceiveResponse
  <2>6. delivered' \subseteq DOMAIN log
    BY <1>2, <2>5 DEF TypeOK
  <2> QED
    BY <1>1, <2>2, <2>4, <2>5, <2>6, ProceedOK
<1>4. CASE sync.pc # "accepted"
  <2>1. sync' = Idle("degraded") /\ UNCHANGED delivered
    BY <1>4 DEF ReceiveResponse
  <2>2. EdgesOK'
    BY <1>1, EdgesKept
  <2>3. TypeOK'
    BY <1>1, <2>1, BoundAssumption DEF TypeOK, core, Known, Idle
  <2>4. ~Posting' /\ Sending' = {} /\ sync'.pc # "status"
    BY <2>1 DEF Posting, Sending, Idle
  <2> QED
    BY <1>1, <2>2, <2>3, <2>4, RequestsOK DEF SyncOK
<1> QED
  BY <1>3, <1>4

LEMMA AbandonInv ==
  ASSUME IInv, Abandon
  PROVE  IInv'
<1> USE DEF IInv
<1>1. /\ sync' = Idle("degraded")
      /\ UNCHANGED <<core, delivered, edge, snapshot, rollbacks>>
      /\ late' = late \/ (sync.pc = "wait" /\ late' = late \cup {<<Next1, Head(sync.todo)>>})
  BY DEF Abandon
<1>2. ASSUME NEW m \in late' PROVE m \in (1 .. MaxEvents) \X Event /\ WellFormed(m[2]) /\ Copy(m[1], m[2])
  <2>1. CASE m \in late
    BY <2>1 DEF TypeOK, SyncOK
  <2>2. CASE m \notin late
    <3>1. sync.pc = "wait" /\ m = <<Next1, Head(sync.todo)>>
      BY <1>1, <1>2, <2>2
    <3> QED
      BY <3>1, HeadOK DEF Posting
  <2> QED
    BY <2>1, <2>2
<1>3. EdgesOK'
  BY <1>1, EdgesKept
<1>4. TypeOK'
  BY <1>1, <1>2, BoundAssumption DEF TypeOK, core, Known, Idle
<1>5. ~Posting' /\ Sending' = {} /\ sync'.pc # "status"
  BY <1>1 DEF Posting, Sending, Idle
<1> QED
  BY <1>1, <1>2, <1>3, <1>4, <1>5, RequestsOK

LEMMA HandleLateInv ==
  ASSUME IInv, NEW m \in late, HandleLate(m)
  PROVE  IInv'
<1> USE DEF IInv
<1>1. /\ late' = late \ {m} /\ Handle(m[1], m[2])
      /\ UNCHANGED <<core, delivered, snapshot, rollbacks, sync>>
  BY DEF HandleLate
<1>2. PICK q, ev : q = m[1] /\ ev = m[2] /\ ev \in Event /\ Copy(q, ev) /\ WellFormed(ev)
  BY DEF TypeOK, SyncOK
<1>3. EdgeTypeOK(edge') /\ EdgesOK'
  BY <1>1, <1>2, HandleOK
<1>4. TypeOK'
  BY <1>1, <1>3 DEF TypeOK, core, Known, EdgeTypeOK
<1>5. (Posting' <=> Posting) /\ Sending' = Sending
  BY <1>1 DEF Posting, Sending
<1> QED
  BY <1>1, <1>3, <1>4, <1>5, RequestsOK DEF SyncOK

LEMMA DisksInv ==
  ASSUME IInv, TakeSnapshot \/ RollBack
  PROVE  IInv'
<1> USE DEF IInv
<1>1. /\ UNCHANGED <<core, delivered, sync, late>>
      /\ edge' \in {edge, snapshot} /\ snapshot' \in {edge, snapshot}
      /\ rollbacks' \in 0 .. MaxRollbacks
  BY BoundAssumption DEF TakeSnapshot, RollBack, TypeOK
<1>2. EdgesOK'
  BY <1>1, EdgesKept
<1>3. EdgeTypeOK(edge') /\ EdgeTypeOK(snapshot')
  BY <1>1 DEF TypeOK
<1>4. TypeOK'
  BY <1>1, <1>3 DEF TypeOK, core, Known, EdgeTypeOK
<1>5. (Posting' <=> Posting) /\ Sending' = Sending
  BY <1>1 DEF Posting, Sending
<1> QED
  BY <1>1, <1>2, <1>4, <1>5, RequestsOK DEF SyncOK

-----------------------------------------------------------------------------
(* The theorems.                                                           *)

LEMMA InitInv == Init => IInv
<1> SUFFICES ASSUME Init PROVE IInv
  OBVIOUS
<1>1. /\ log = <<>> /\ log \in Seq(Event) /\ Len(log) = 0 /\ DOMAIN log = {}
      /\ row = [r \in {} |-> 0] /\ purged = {} /\ delivered = {}
      /\ edge = EmptyEdge /\ snapshot = EmptyEdge /\ rollbacks = 0
      /\ sync = Idle("idle") /\ late = {}
  BY DEF Init
<1>2. /\ EmptyEdge.checkpoint = 0 /\ DOMAIN EmptyEdge.applied = {} /\ DOMAIN EmptyEdge.rows = {}
      /\ DOMAIN EmptyEdge.deletions = {} /\ EmptyEdge.purged = {}
      /\ EmptyEdge = [checkpoint |-> EmptyEdge.checkpoint, applied |-> EmptyEdge.applied,
                      rows |-> EmptyEdge.rows, deletions |-> EmptyEdge.deletions,
                      purged |-> EmptyEdge.purged]
  BY DEF EmptyEdge
<1>3. EdgeTypeOK(EmptyEdge)
  BY <1>2, BoundAssumption DEF EdgeTypeOK
<1>4. EdgeOK(EmptyEdge)
  BY <1>1, <1>2 DEF EdgeOK, RowOK
<1>5. sync \in [pc : {"idle", "ready", "degraded", "status", "wait", "accepted", "rejected"},
                from : 0 .. MaxEvents, todo : Seq(Event)]
  BY <1>1, BoundAssumption DEF Idle
<1>6. TypeOK
  BY <1>1, <1>3, <1>5, BoundAssumption DEF TypeOK, Known
<1>7. CoreOK
  BY <1>1 DEF CoreOK, Known
<1>8. sync.pc = "idle" /\ ~Posting /\ Sending = {}
  BY <1>1 DEF Idle, Posting, Sending
<1> QED
  BY <1>1, <1>4, <1>6, <1>7, <1>8 DEF IInv, EdgesOK, SyncOK

LEMMA NextInv == IInv /\ [Next]_vars => IInv'
<1> SUFFICES ASSUME IInv, [Next]_vars PROVE IInv'
  OBVIOUS
<1>1. CASE CoreWrite
  BY <1>1, ApproveInv, CorrectInv, ChangeAvailabilityInv, DeleteInv, RestoreInv, PurgeInv
     DEF CoreWrite, PurgeTypes
<1>2. CASE Synchronise
  BY <1>2, ReadStatusInv, ReadLogInv, ReceiveResponseInv DEF Synchronise
<1>3. CASE HandleRequest \/ Abandon \/ \E m \in late : HandleLate(m)
  BY <1>3, HandleRequestInv, AbandonInv, HandleLateInv
<1>4. CASE TakeSnapshot \/ RollBack
  BY <1>4, DisksInv
<1>5. CASE UNCHANGED vars
  <2>1. UNCHANGED <<core, delivered, edge, snapshot, rollbacks, sync, late>>
    BY <1>5 DEF vars
  <2>2. EdgesOK'
    BY <2>1, EdgesKept
  <2>3. TypeOK'
    BY <2>1 DEF IInv, TypeOK, core, Known, EdgeTypeOK
  <2>4. (Posting' <=> Posting) /\ Sending' = Sending
    BY <2>1 DEF Posting, Sending
  <2> QED
    BY <2>1, <2>2, <2>3, <2>4, RequestsOK DEF IInv, SyncOK
<1> QED
  BY <1>1, <1>2, <1>3, <1>4, <1>5 DEF Next

(* The inductive invariant holds of every reachable state.                 *)
THEOREM Invariant == Spec => []IInv
<1> QED
  BY InitInv, NextInv, PTL DEF Spec

(* Core's tables, the log, the Edge, its snapshot and the requests keep    *)
(* their types.                                                            *)
THEOREM TypeCorrect == Spec => []TypeOK
<1>1. IInv => TypeOK
  BY DEF IInv
<1> QED
  BY <1>1, Invariant, PTL

(* An event that is not what the log holds belongs to a purged record.     *)
LEMMA PrefixHolds == IInv => PrefixOfCore
<1> SUFFICES ASSUME IInv PROVE PrefixOfCore
  OBVIOUS
<1>1. EdgeOK(edge)
  BY DEF IInv, EdgesOK
<1>2. ASSUME NEW q \in DOMAIN edge.applied
      PROVE  edge.applied[q] = log[q] \/ log[q].record \in purged
  <2>1. Copy(q, edge.applied[q])
    BY <1>1 DEF EdgeOK
  <2> QED
    BY <2>1 DEF Copy, Withdrawn, Bare
<1> QED
  BY <1>1, <1>2 DEF PrefixOfCore, EdgeOK

LEMMA PurgeHolds == IInv => EdgePurgeFinal
<1> SUFFICES ASSUME IInv, NEW r \in edge.purged
             PROVE  /\ r \notin DOMAIN edge.rows \cup DOMAIN edge.deletions
                    /\ \A p \in DOMAIN edge.rows : edge.rows[p].supersedes # r
                    /\ \A q \in DOMAIN edge.applied : edge.applied[q].record = r =>
                         edge.applied[q].type = "purged"
  BY DEF EdgePurgeFinal
<1>1. EdgeOK(edge)
  BY DEF IInv, EdgesOK
<1>2. Erased(edge, r)
  BY <1>1 DEF EdgeOK
<1> QED
  BY <1>2 DEF Erased

(* With the whole log applied, Core's purges are the Edge's, and what is   *)
(* announced is what both hold.                                            *)
LEMMA CurrentHolds == IInv => EdgeCurrent
<1> SUFFICES ASSUME IInv, edge.checkpoint = Len(log)
             PROVE  /\ DOMAIN edge.rows = {r \in Records : Live(r) /\ row[r].always /\ Announced(r)}
                    /\ \A r \in DOMAIN edge.rows : /\ edge.rows[r].content = row[r].content
                                                   /\ edge.rows[r].supersedes = row[r].supersedes
  BY DEF EdgeCurrent, CaughtUp
<1> USE DEF IInv
<1>1. EdgeOK(edge) /\ EdgeTypeOK(edge) /\ DOMAIN edge.rows \subseteq Records
  BY DEF EdgesOK, TypeOK, EdgeTypeOK
<1>2. DOMAIN log = 1 .. Len(log) /\ Len(log) \in Nat /\ purged \subseteq Records
  BY LogTyped DEF TypeOK
<1>3. edge.purged = purged
  <2>1. ASSUME NEW r \in purged PROVE r \in edge.purged
    <3>1. PICK n \in DOMAIN log : log[n].record = r /\ PurgeAt(n)
      BY DEF CoreOK
    <3> QED
      BY <1>1, <1>2, <3>1 DEF EdgeOK
  <2>2. ASSUME NEW r \in edge.purged PROVE r \in purged
    <3>1. PICK n \in DOMAIN log : log[n].record = r /\ PurgeAt(n)
      BY <1>1, <1>2 DEF EdgeOK
    <3> QED
      BY <3>1 DEF CoreOK
  <2> QED
    BY <2>1, <2>2
<1>4. ASSUME NEW r \in DOMAIN edge.rows PROVE r \in Records \ purged
  BY <1>1, <1>3 DEF EdgeOK, Erased
<1>5. ASSUME NEW r \in Records
      PROVE  Announced(r) <=> \E q \in 1 .. Len(log) : Upserts(q, r, Len(log))
  BY <1>2 DEF Announced, Upserts, LastBy
<1>6. ASSUME NEW r \in Records \ purged PROVE RowOK(edge, r)
  BY <1>1 DEF EdgeOK
<1>7. ASSUME NEW r \in Records \ purged, NEW q \in 1 .. Len(log), Upserts(q, r, Len(log))
      PROVE  /\ r \in DOMAIN edge.rows /\ Live(r) /\ row[r].always
             /\ edge.rows[r].content = row[r].content
             /\ edge.rows[r].supersedes = row[r].supersedes
  <2>1. /\ Live(r) /\ row[r].always
        /\ row[r].content = log[q].content /\ row[r].supersedes = Target(q, purged)
    BY <1>2, <1>7 DEF CoreOK
  <2>2. /\ r \in DOMAIN edge.rows
        /\ edge.rows[r].content = log[q].content
        /\ edge.rows[r].supersedes = Target(q, edge.purged)
    BY <1>6, <1>7 DEF RowOK
  <2> QED
    BY <1>3, <2>1, <2>2
<1>8. ASSUME NEW r \in DOMAIN edge.rows
      PROVE  /\ Live(r) /\ row[r].always /\ Announced(r)
             /\ edge.rows[r].content = row[r].content
             /\ edge.rows[r].supersedes = row[r].supersedes
  <2>1. r \in Records \ purged
    BY <1>4
  <2>2. PICK q \in 1 .. Len(log) : Upserts(q, r, Len(log))
    BY <1>6, <2>1 DEF RowOK
  <2> QED
    BY <1>5, <1>7, <2>1, <2>2
<1>9. ASSUME NEW r \in Records, Live(r), Announced(r) PROVE r \in DOMAIN edge.rows
  <2>1. r \in Records \ purged
    BY <1>9, RecordTyped DEF Live
  <2> QED
    BY <1>5, <1>7, <1>9, <2>1
<1> QED
  BY <1>4, <1>8, <1>9

(* However many synchronisations fail, requests arrive late, disks are     *)
(* restored and purges rewrite the log, the Edge mirrors Core.             *)
THEOREM MirrorsCorrect == Spec => []EdgeMirrors
<1>1. IInv => EdgeMirrors
  BY PrefixHolds, PurgeHolds, CurrentHolds DEF EdgeMirrors
<1> QED
  BY <1>1, Invariant, PTL
=============================================================================
