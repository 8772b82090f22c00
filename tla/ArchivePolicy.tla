--------------------------- MODULE ArchivePolicy ---------------------------
(***************************************************************************)
(* What the automatic policy does to the records of one archive source     *)
(* with an observation of that source, next to what its user does to them. *)
(* An item is one statement of the archive with its provenance: its        *)
(* archive identity.  The parser drops duplicates, so the items of one     *)
(* extraction differ in identity and in value; every item is dated, keeps  *)
(* its slot (entity and attribute) from one parser to the next, and is     *)
(* such that memory_policy applies it.  Two items of a slot are of         *)
(* different messages.  Tentative and ignored observations, access lists,  *)
(* supersession links, unkeyed items and availability are left out.        *)
(***************************************************************************)
EXTENDS Naturals, Sequences, FiniteSets
LOCAL INSTANCE SequencesExt

CONSTANTS Items,
          Slot,        \* the slot of an item
          At,          \* the time an item was observed at
          Now,         \* the time of a user's correction
          Edited,      \* content that a user wrote
          NoSession,
          MaxEdits     \* bound: actions of the user

ASSUME PolicyAssumption ==
  /\ Edited \notin Items /\ MaxEdits \in Nat /\ Now \in Nat
  /\ At \in [Items -> 0 .. Now - 1] /\ DOMAIN Slot = Items

VARIABLES rows,      \* context_records in the order they were created
          barred,    \* archive_purge_barriers
          edits      \* how much of MaxEdits is used

(* past is the archive identity index of a record: what it is and what it  *)
(* was in any version.  A withdrawn record has a tombstone of a source     *)
(* rebuild bound to one session, a deleted one an ordinary tombstone, and  *)
(* touched says that the ledger of user mutations names the record.        *)
Row(i) == [item |-> i, past |-> {i}, at |-> At[i], state |-> "live",
           binding |-> NoSession, touched |-> FALSE]

Live(r) == r.state = "live"
Current(v, i) == {k \in DOMAIN v : Live(v[k]) /\ i \in v[k].past}
InSlot(v, i) == {k \in DOMAIN v : Live(v[k]) /\ \E j \in v[k].past : Slot[j] = Slot[i]}
Latest(v, K) == CHOOSE k \in K : \A j \in K : v[k].at >= v[j].at

-----------------------------------------------------------------------------
(* One observation.                                                        *)

(* An ordinary deletion stands in the way of everything the record ever    *)
(* was; the mutant looks at its last content only.                         *)
DeletedAsCurrent(v, i) == \E k \in DOMAIN v : v[k].state = "deleted" /\ v[k].item = i

DeletedBefore(v, i) == \E k \in DOMAIN v : v[k].state = "deleted" /\ i \in v[k].past
Superseded(v, i) == \E k \in Current(v, i) : v[k].touched

(* The purge, supersession and deletion barriers, in the order of the code.*)
Barred(v, i) == i \in barred \/ Superseded(v, i) \/ DeletedBefore(v, i)

Reinforces(v, i) == \E k \in Current(v, i) : v[k].item = i

(* The record an observation would replace: by identity, else the latest   *)
(* of the slot, unless that one is as old as the observation.              *)
Target(v, i) ==
  IF Current(v, i) # {} THEN {Latest(v, Current(v, i))}
  ELSE {k \in InSlot(v, i) : k = Latest(v, InSlot(v, i)) /\ v[k].at # At[i]}

Took(r, i) == [r EXCEPT !.item = i, !.past = @ \cup {i}, !.at = At[i], !.state = "live",
                        !.binding = NoSession]

(* A record that this very rebuild withdrew is opened again if it is the   *)
(* only one that ever was this item.                                       *)
Reopened(v, i, s) ==
  {k \in DOMAIN v : v[k].state = "withdrawn" /\ i \in v[k].past /\ v[k].binding = s}

Created(v, i, s) ==
  LET K == Reopened(v, i, s)
  IN IF Cardinality(K) = 1 /\ \A k \in K : ~v[k].touched
     THEN [k \in DOMAIN v |-> IF k \in K THEN Took(v[k], i) ELSE v[k]]
     ELSE Append(v, Row(i))

Evaluate(v, i, s) ==
  LET T == Target(v, i)
  IN IF Barred(v, i) \/ Reinforces(v, i) THEN v
     ELSE IF T = {} THEN Created(v, i, s)
     ELSE [k \in DOMAIN v |-> IF k \in T /\ At[i] >= v[k].at THEN Took(v[k], i) ELSE v[k]]

EvaluateAll(v, items, s) == FoldLeft(LAMBDA w, i : Evaluate(w, i, s), v, items)

(* What a source rebuild takes back before it evaluates session s.         *)
Withdrawn(v, s) ==
  [k \in DOMAIN v |-> IF Live(v[k]) /\ v[k].item # Edited /\ ~v[k].touched
                      THEN [v[k] EXCEPT !.state = "withdrawn", !.binding = s] ELSE v[k]]

-----------------------------------------------------------------------------
(* The user.                                                               *)

Edit(k, r) == /\ edits < MaxEdits /\ edits' = edits + 1
              /\ rows' = [rows EXCEPT ![k] = r]

CorrectRecord(k) ==
  /\ Live(rows[k])
  /\ Edit(k, [rows[k] EXCEPT !.item = Edited, !.at = Now, !.touched = TRUE])
  /\ UNCHANGED barred

DeleteRecord(k) ==
  /\ Live(rows[k])
  /\ Edit(k, [rows[k] EXCEPT !.state = "deleted", !.touched = TRUE])
  /\ UNCHANGED barred

(* A restore of a current record is remembered like any other.             *)
RestoreRecord(k) ==
  /\ rows[k].state # "purged" /\ (Live(rows[k]) => ~rows[k].touched)
  /\ Edit(k, [rows[k] EXCEPT !.state = "live", !.binding = NoSession, !.touched = TRUE])
  /\ UNCHANGED barred

(* The barrier of a purge is for the content the record has at its end.    *)
(* The source is purged with its last record; that end is not modelled.    *)
PurgeRecord(k) ==
  /\ rows[k].state # "purged"
  /\ \E j \in DOMAIN rows \ {k} : rows[j].state # "purged"
  /\ Edit(k, [rows[k] EXCEPT !.state = "purged", !.past = {}, !.binding = NoSession])
  /\ barred' = barred \cup {rows[k].item}

UserStep ==
  \E k \in DOMAIN rows :
    CorrectRecord(k) \/ DeleteRecord(k) \/ RestoreRecord(k) \/ PurgeRecord(k)
=============================================================================
