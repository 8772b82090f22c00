------------------------ MODULE ContextRecordsProofs ------------------------
(***************************************************************************)
(* Proofs about context records, for any number of records, sources and    *)
(* versions.  First the types, and that the supersession links stay well   *)
(* founded; that invariant is inductive as it stands: links are only       *)
(* dropped (SoundKept) or redirected after validation (SoundLinked).  Then *)
(* the life of a record, from its first version to its purge (HInv).       *)
(***************************************************************************)
EXTENDS ContextRecords, TLAPS

IInv == TypeOK /\ SupersessionSound

-----------------------------------------------------------------------------
(* Rows.                                                                   *)

(* A version more keeps a row a row, and touches nothing else.             *)
LEMMA NextRow ==
  ASSUME NEW x \in Row, x.version + 1 <= MaxVersion
  PROVE  /\ Next1(x) \in Row /\ Gone(x) \in Row /\ Back(x) \in Row
         /\ Next1(x).supersedes = x.supersedes
         /\ Gone(x).supersedes = x.supersedes
         /\ Back(x).supersedes = x.supersedes
         /\ Gone(x).version = x.version + 1
         /\ x.version + 1 \in Versions
<1>1. Next1(x) \in Row /\ x.version + 1 \in Versions
  BY VersionAssumption DEF Row, Versions, Next1
<1>2. Next1(x).supersedes = x.supersedes /\ Next1(x).version = x.version + 1
  BY DEF Row, Next1
<1>3. ASSUME NEW y \in Row, NEW d \in BOOLEAN
      PROVE  /\ [y EXCEPT !.deleted = d] \in Row
             /\ [y EXCEPT !.deleted = d].supersedes = y.supersedes
             /\ [y EXCEPT !.deleted = d].version = y.version
  BY DEF Row
<1> QED
  BY <1>1, <1>2, <1>3 DEF Gone, Back

(* What Write leaves in the tables when it is given rows.                  *)
LEMMA WriteTyped ==
  ASSUME TypeOK, NEW changed, Write(changed), DOMAIN changed \subseteq Records,
         \A r \in DOMAIN changed : changed[r] \in Row
  PROVE  /\ DOMAIN row' = Known \cup DOMAIN changed
         /\ DOMAIN row' \subseteq Records /\ \A r \in DOMAIN row' : row'[r] \in Row
         /\ \A r \in DOMAIN row' :
              row'[r] = IF r \in DOMAIN changed THEN changed[r] ELSE row[r]
         /\ versions' \subseteq Records \X Row
<1>1. /\ DOMAIN row' = Known \cup DOMAIN changed
      /\ \A r \in DOMAIN row' : row'[r] = IF r \in DOMAIN changed THEN changed[r] ELSE row[r]
  BY DEF Write, Outranks, Known
<1>2. versions' \subseteq Records \X Row
  BY DEF Write, TypeOK
<1> QED
  BY <1>1, <1>2 DEF TypeOK, Known

LEMMA EmitTyped ==
  ASSUME TypeOK, NEW posted, Emit(posted), \A r \in DOMAIN posted : posted[r] \in Event
  PROVE  outbox' \in [Records -> Seq(Event)]
<1>1. ASSUME NEW r \in Records, r \in DOMAIN posted
      PROVE  Append(outbox[r], posted[r]) \in Seq(Event)
  BY <1>1 DEF TypeOK
<1> QED
  BY <1>1 DEF Emit, TypeOK

LEMMA EventTyped ==
  /\ \A x \in Row : Upsert(x) \in Event
  /\ \A t \in EventTypes : Opaque(t) \in Event
BY DEF Upsert, Opaque, Event, EventTypes, Row

LEMMA AnnouncedTyped ==
  ASSUME NEW r, NEW x \in Row, NEW y \in Row
  PROVE  \A p \in DOMAIN Announced(r, x, y) : Announced(r, x, y)[p] \in Event
BY EventTyped DEF Announced, Nothing, EventTypes

-----------------------------------------------------------------------------
(* Supersession links.                                                     *)

(* Links that are only dropped stay sound.                                 *)
LEMMA SoundKept ==
  ASSUME SupersessionSound, DOMAIN row' \subseteq Records,
         \A r \in DOMAIN row' :
           \/ row'[r].supersedes = NoRecord
           \/ /\ r \in Known /\ row'[r].supersedes = row[r].supersedes
              /\ row[r].supersedes \in DOMAIN row'
  PROVE  SupersessionSound'
<1>1. \A r \in DOMAIN row' : row'[r].supersedes \in DOMAIN row' \cup {NoRecord}
  OBVIOUS
<1>2. ASSUME NEW S \in SUBSET DOMAIN row', S # {}
      PROVE  \E r \in S : row'[r].supersedes \notin S
  <2>1. CASE \E r \in S : row'[r].supersedes = NoRecord
    BY <2>1, NullAssumption
  <2>2. CASE \A r \in S : row'[r].supersedes # NoRecord
    <3>1. S \subseteq Known /\ \A r \in S : row'[r].supersedes = row[r].supersedes
      BY <2>2
    <3>2. \E r \in S : row[r].supersedes \notin S
      BY <1>2, <3>1 DEF SupersessionSound
    <3> QED
      BY <3>1, <3>2
  <2> QED
    BY <2>1, <2>2
<1> QED
  BY <1>1, <1>2 DEF SupersessionSound, Known

(* One link that was validated may be redirected: a set without an exit    *)
(* would contain the whole chain of the target, r apart, and that chain    *)
(* had an exit before.                                                     *)
LEMMA SoundLinked ==
  ASSUME SupersessionSound, Known \subseteq Records, NEW r \in Records, NEW target,
         ValidSupersedes(r, target),
         DOMAIN row' = Known \cup {r},
         row'[r].supersedes = target,
         \A p \in Known \ {r} : row'[p] = row[p]
  PROVE  SupersessionSound'
<1>1. PICK chain \in SUBSET (Known \ {r}) :
        /\ target # NoRecord => target \in chain
        /\ \A x \in chain : row[x].supersedes \in chain \cup {NoRecord}
  <2>1. CASE target = NoRecord
    <3> {} \in SUBSET (Known \ {r})
      OBVIOUS
    <3> QED
      BY <2>1
  <2>2. CASE target # NoRecord
    BY <2>2 DEF ValidSupersedes
  <2> QED
    BY <2>1, <2>2
<1>2. \A p \in DOMAIN row' : row'[p].supersedes \in DOMAIN row' \cup {NoRecord}
  BY <1>1 DEF SupersessionSound
<1>3. ASSUME NEW S \in SUBSET DOMAIN row', S # {}
      PROVE  \E p \in S : row'[p].supersedes \notin S
  <2>0. NoRecord \notin S
    BY NullAssumption
  <2>1. CASE r \notin S
    <3>1. S \subseteq Known \ {r}
      BY <2>1
    <3>2. PICK p \in S : row[p].supersedes \notin S
      BY <1>3, <3>1 DEF SupersessionSound
    <3> QED
      BY <3>1, <3>2
  <2>2. CASE r \in S /\ target \notin S
    BY <2>2
  <2>3. CASE r \in S /\ target \in S
    <3>1. target \in S \cap chain
      BY <1>1, <2>0, <2>3
    <3>2. PICK p \in S \cap chain : row[p].supersedes \notin S \cap chain
      BY <1>1, <3>1 DEF SupersessionSound
    <3>3. row[p].supersedes \notin S
      BY <1>1, <2>0, <3>2
    <3> QED
      BY <1>1, <3>2, <3>3
  <2> QED
    BY <2>1, <2>2, <2>3
<1> QED
  BY <1>2, <1>3 DEF SupersessionSound, Known

-----------------------------------------------------------------------------
(* Steps that write rows.                                                  *)

LEMMA RecordedTyped ==
  ASSUME TypeOK, NEW S \in SUBSET Known, \A r \in S : Room(r, 1),
         NEW kind \in MutationKinds, NEW v \in 0 .. MaxVersion
  PROVE  Recorded(S, kind, v) \subseteq
           Records \X MutationKinds \X Versions \X (0 .. MaxVersion)
<1>1. \A r \in S : r \in Records /\ row[r].version + 1 \in Versions
  BY NextRow DEF TypeOK, Room
<1> QED
  BY <1>1 DEF Recorded

LEMMA BuriedTyped ==
  ASSUME TypeOK, NEW S \in SUBSET Known, \A r \in S : Room(r, 1),
         NEW origin_of, \A r \in S : origin_of[r] \in {"ordinary", "source_rebuild"},
         Bury(S, origin_of)
  PROVE  /\ fts' \subseteq Known /\ DOMAIN tombstones' \subseteq Known
         /\ \A r \in DOMAIN tombstones' : tombstones'[r] \in Tombstone
         /\ outbox' \in [Records -> Seq(Event)]
<1>1. \A r \in S : row[r].version + 1 \in Versions
  BY NextRow DEF TypeOK, Room
<1>2. /\ DOMAIN tombstones' = S \cup DOMAIN tombstones
      /\ \A r \in DOMAIN tombstones' :
           tombstones'[r] = IF r \in S THEN [deleted_version |-> row[r].version + 1,
                                             deletion_origin |-> origin_of[r]]
                            ELSE tombstones[r]
  BY DEF Bury, Outranks
<1>3. outbox' \in [Records -> Seq(Event)]
  BY EmitTyped, EventTyped DEF Bury, EventTypes
<1>4. ASSUME NEW r \in DOMAIN tombstones' PROVE tombstones'[r] \in Tombstone
  <2>1. CASE r \in S
    <3> DEFINE v == row[r].version + 1
    <3>1. v \in Versions /\ origin_of[r] \in {"ordinary", "source_rebuild"}
      BY <1>1, <2>1
    <3>2. tombstones'[r] = [deleted_version |-> v, deletion_origin |-> origin_of[r]]
      BY <1>2, <2>1
    <3> HIDE DEF v
    <3> QED
      BY <3>1, <3>2 DEF Tombstone
  <2>2. CASE r \notin S
    BY <1>2, <2>2 DEF TypeOK
  <2> QED
    BY <2>1, <2>2
<1>5. fts' \subseteq Known /\ DOMAIN tombstones' \subseteq Known
  BY <1>2 DEF Bury, TypeOK
<1> QED
  BY <1>3, <1>4, <1>5

(* Rows of known records are written with their old links.                 *)
LEMMA ManyRowsInv ==
  ASSUME IInv, NEW changed, Write(changed), DOMAIN changed \subseteq Known,
         \A r \in DOMAIN changed :
           changed[r] \in Row /\ changed[r].supersedes = row[r].supersedes,
         fts' \subseteq Known, DOMAIN tombstones' \subseteq Known,
         \A r \in DOMAIN tombstones' : tombstones'[r] \in Tombstone,
         mutations' \subseteq Records \X MutationKinds \X Versions \X (0 .. MaxVersion),
         source_state' \in [Sources -> {"live", "deleted", "purged"}],
         members' \subseteq Sources \X Known \X Versions,
         outbox' \in [Records -> Seq(Event)], UNCHANGED purge_tombstones
  PROVE  IInv'
<1>1. TypeOK /\ SupersessionSound /\ Known \subseteq Records
  BY DEF IInv, TypeOK
<1>2. /\ DOMAIN row' = Known
      /\ \A r \in DOMAIN row' : row'[r] \in Row
      /\ \A r \in DOMAIN row' : row'[r] = IF r \in DOMAIN changed THEN changed[r] ELSE row[r]
      /\ versions' \subseteq Records \X Row
  BY <1>1, WriteTyped
<1>3. TypeOK'
  BY <1>1, <1>2 DEF TypeOK, Known
<1>4. \A r \in DOMAIN row' :
        \/ row'[r].supersedes = NoRecord
        \/ /\ r \in Known /\ row'[r].supersedes = row[r].supersedes
           /\ row[r].supersedes \in DOMAIN row'
  BY <1>1, <1>2 DEF SupersessionSound
<1>5. SupersessionSound'
  BY <1>1, <1>2, <1>4, SoundKept
<1> QED
  BY <1>3, <1>5 DEF IInv

(* One row is written, perhaps a new one, and its link is none, its old    *)
(* one, or a validated one.                                                *)
LEMMA OneRowInv ==
  ASSUME IInv, NEW r \in Records, NEW x \in Row, Write([p \in {r} |-> x]),
         \/ x.supersedes = NoRecord
         \/ r \in Known /\ x.supersedes = row[r].supersedes
         \/ ValidSupersedes(r, x.supersedes),
         fts' \subseteq Known \cup {r}, DOMAIN tombstones' \subseteq Known,
         \A p \in DOMAIN tombstones' : tombstones'[p] \in Tombstone,
         mutations' \subseteq Records \X MutationKinds \X Versions \X (0 .. MaxVersion),
         outbox' \in [Records -> Seq(Event)],
         UNCHANGED <<purge_tombstones, source_state, members>>
  PROVE  IInv'
<1> DEFINE changed == [p \in {r} |-> x]
<1>1. TypeOK /\ SupersessionSound /\ Known \subseteq Records
  BY DEF IInv, TypeOK
<1>2. DOMAIN changed = {r} /\ changed[r] = x
  OBVIOUS
<1>3. /\ DOMAIN row' = Known \cup {r}
      /\ \A p \in DOMAIN row' : row'[p] \in Row
      /\ \A p \in DOMAIN row' : row'[p] = IF p \in DOMAIN changed THEN changed[p] ELSE row[p]
      /\ versions' \subseteq Records \X Row
  <2>1. Write(changed) /\ DOMAIN changed \subseteq Records
        /\ \A p \in DOMAIN changed : changed[p] \in Row
    BY <1>2
  <2> HIDE DEF changed
  <2> QED
    BY <1>1, <1>2, <2>1, WriteTyped
<1>4. row'[r] = x /\ \A p \in Known \ {r} : row'[p] = row[p]
  BY <1>2, <1>3
<1>5. TypeOK'
  BY <1>1, <1>3 DEF TypeOK, Known
<1>6. SupersessionSound'
  <2>1. CASE x.supersedes = NoRecord \/ (r \in Known /\ x.supersedes = row[r].supersedes)
    <3>1. \A p \in DOMAIN row' :
            \/ row'[p].supersedes = NoRecord
            \/ /\ p \in Known /\ row'[p].supersedes = row[p].supersedes
               /\ row[p].supersedes \in DOMAIN row'
      BY <1>1, <1>3, <1>4, <2>1 DEF SupersessionSound
    <3> QED
      BY <1>1, <1>3, <3>1, SoundKept
  <2>2. CASE ValidSupersedes(r, x.supersedes)
    BY <1>1, <1>3, <1>4, <2>2, SoundLinked
  <2> QED
    BY <2>1, <2>2
<1> QED
  BY <1>5, <1>6 DEF IInv

-----------------------------------------------------------------------------
(* The operations, one lemma each.                                         *)

LEMMA NewRowTyped ==
  ASSUME NEW c \in Contents, NEW a \in Availabilities, NEW t \in Records \cup {NoRecord},
         NEW o \in Origins, NEW s \in Sources \cup {NoSource}
  PROVE  NewRow(c, a, t, o, s) \in Row /\ NewRow(c, a, t, o, s).supersedes = t
BY VersionAssumption DEF NewRow, Row, Versions

LEMMA CreateInv ==
  ASSUME IInv, NEW r \in Records, NEW c \in Contents, NEW o \in Channels,
         NEW s \in Sources \cup {NoSource}, Create(r, c, o, s)
  PROVE  IInv'
<1> DEFINE x == NewRow(c, "core", NoRecord, o, s)
<1>1. x \in Row /\ x.supersedes = NoRecord
  <2>1. "core" \in Availabilities /\ o \in Origins
    BY DEF Availabilities, Origins
  <2> QED
    BY <2>1, NewRowTyped
<1>2. Write([p \in {r} |-> x]) /\ TypeOK
  BY DEF Create, IInv
<1>3. /\ fts' \subseteq Known \cup {r}
      /\ UNCHANGED <<tombstones, mutations, purge_tombstones, source_state, members, outbox>>
  BY <1>2 DEF Create, TypeOK
<1> HIDE DEF x
<1> QED
  BY <1>1, <1>2, <1>3, OneRowInv DEF TypeOK

LEMMA ApproveInv ==
  ASSUME IInv, NEW r \in Records, NEW c \in Contents, NEW a \in Availabilities,
         NEW t \in Records \cup {NoRecord}, NEW s \in Sources \cup {NoSource},
         Approve(r, c, a, t, s)
  PROVE  IInv'
<1> DEFINE x == NewRow(c, a, t, "local_admin", s)
<1> DEFINE old == {p \in {t} : Live(p) /\ row[p].availability = "always"}
<1> DEFINE posted == Outranks([p \in old |-> Opaque("record_withdrawn")], Announced(r, x, x))
<1>1. x \in Row /\ x.supersedes = t
  BY NewRowTyped DEF Origins
<1>2. /\ Write([p \in {r} |-> x]) /\ Emit(posted) /\ TypeOK
      /\ ValidSupersedes(r, x.supersedes)
  BY <1>1 DEF Approve, IInv
<1>3. \A p \in DOMAIN posted : posted[p] \in Event
  <2>1. \A p \in DOMAIN Announced(r, x, x) : Announced(r, x, x)[p] \in Event
    BY <1>1, AnnouncedTyped
  <2>2. Opaque("record_withdrawn") \in Event
    BY EventTyped DEF EventTypes
  <2> HIDE DEF x, old
  <2> QED
    BY <2>1, <2>2 DEF Outranks
<1>4. outbox' \in [Records -> Seq(Event)]
  <2> HIDE DEF posted
  <2> QED
    BY <1>2, <1>3, EmitTyped
<1>5. /\ fts' \subseteq Known \cup {r}
      /\ UNCHANGED <<tombstones, mutations, purge_tombstones, source_state, members>>
  BY <1>2 DEF Approve, TypeOK
<1> HIDE DEF x, posted
<1> QED
  BY <1>1, <1>2, <1>4, <1>5, OneRowInv DEF TypeOK

(* A change of a record that keeps its link or validates a new one, and    *)
(* may tell the relay of it.                                               *)
LEMMA ChangeInv ==
  ASSUME IInv, NEW r \in Known, NEW x \in Row, NEW y \in Row,
         Write([p \in {r} |-> x]),
         Emit(Announced(r, y, x)) \/ UNCHANGED outbox,
         \/ x.supersedes = NoRecord
         \/ x.supersedes = row[r].supersedes
         \/ ValidSupersedes(r, x.supersedes),
         fts' \subseteq fts \cup {r},
         UNCHANGED tombstones \/ tombstones' = Without(tombstones, {r}),
         mutations' \subseteq Records \X MutationKinds \X Versions \X (0 .. MaxVersion),
         UNCHANGED <<purge_tombstones, source_state, members>>
  PROVE  IInv'
<1>1. TypeOK /\ r \in Records
  BY DEF IInv, TypeOK
<1>2. outbox' \in [Records -> Seq(Event)]
  <2>1. CASE Emit(Announced(r, y, x))
    BY <1>1, <2>1, AnnouncedTyped, EmitTyped
  <2>2. CASE UNCHANGED outbox
    BY <1>1, <2>2 DEF TypeOK
  <2> QED
    BY <2>1, <2>2
<1>3. /\ DOMAIN tombstones' \subseteq Known
      /\ \A p \in DOMAIN tombstones' : tombstones'[p] \in Tombstone
  BY <1>1 DEF Without, TypeOK
<1>4. fts' \subseteq Known \cup {r}
  BY <1>1 DEF TypeOK
<1> QED
  BY <1>1, <1>2, <1>3, <1>4, OneRowInv

LEMMA UpdateInv ==
  ASSUME IInv, NEW r \in Records, NEW c \in Contents, NEW o \in Channels,
         NEW keeps \in BOOLEAN, Update(r, c, o, keeps)
  PROVE  IInv'
<1> DEFINE x == [Next1(row[r]) EXCEPT !.content = c, !.availability = "core", !.origin = o,
                   !.source = IF keeps THEN @ ELSE NoSource, !.expired = @ /\ keeps]
<1>1. TypeOK /\ r \in Known /\ row[r] \in Row /\ row[r].version + 1 <= MaxVersion
  BY DEF Update, Current, Live, Room, IInv, TypeOK
<1>2. Next1(row[r]) \in Row /\ Next1(row[r]).supersedes = row[r].supersedes
  BY <1>1, NextRow
<1>3. ASSUME NEW z \in Row
      PROVE  LET w == [z EXCEPT !.content = c, !.availability = "core", !.origin = o,
                         !.source = IF keeps THEN @ ELSE NoSource, !.expired = @ /\ keeps]
             IN w \in Row /\ w.supersedes = z.supersedes
  BY DEF Row, Availabilities, Origins
<1>4. x \in Row /\ x.supersedes = row[r].supersedes
  BY <1>2, <1>3
<1>5. /\ Write([p \in {r} |-> x]) /\ Emit(Announced(r, row[r], x)) /\ fts' = fts \cup {r}
      /\ UNCHANGED <<tombstones, mutations, purge_tombstones, source_state, members>>
  BY DEF Update
<1> HIDE DEF x
<1> QED
  BY <1>1, <1>4, <1>5, ChangeInv DEF TypeOK

LEMMA ReinforceInv ==
  ASSUME IInv, NEW r \in Records, Reinforce(r)
  PROVE  IInv'
<1> DEFINE x == [Next1(row[r]) EXCEPT !.availability = "core"]
<1>1. TypeOK /\ r \in Known /\ row[r] \in Row /\ row[r].version + 1 <= MaxVersion
  BY DEF Reinforce, Current, Live, Room, IInv, TypeOK
<1>2. Next1(row[r]) \in Row /\ Next1(row[r]).supersedes = row[r].supersedes
  BY <1>1, NextRow
<1>3. x \in Row /\ x.supersedes = row[r].supersedes
  BY <1>2 DEF Row, Availabilities
<1>4. /\ Write([p \in {r} |-> x]) /\ Emit(Announced(r, row[r], x))
      /\ UNCHANGED <<fts, tombstones, mutations, purge_tombstones, source_state, members>>
  BY DEF Reinforce
<1> HIDE DEF x
<1> QED
  BY <1>1, <1>3, <1>4, ChangeInv DEF TypeOK

LEMMA WithdrawInv ==
  ASSUME IInv, NEW r \in Records, WithdrawRegistered(r)
  PROVE  IInv'
<1> DEFINE x == [Gone(row[r]) EXCEPT !.expired = TRUE]
<1>1. TypeOK /\ r \in Known /\ row[r] \in Row /\ row[r].version + 1 <= MaxVersion
  BY DEF WithdrawRegistered, Live, Room, IInv, TypeOK
<1>2. Gone(row[r]) \in Row /\ Gone(row[r]).supersedes = row[r].supersedes
  BY <1>1, NextRow
<1>3. x \in Row /\ x.supersedes = row[r].supersedes
  BY <1>2 DEF Row
<1>4. /\ Write([p \in {r} |-> x]) /\ fts' \subseteq fts
      /\ UNCHANGED <<tombstones, mutations, purge_tombstones, source_state, members, outbox>>
  BY DEF WithdrawRegistered
<1> HIDE DEF x
<1> QED
  BY <1>1, <1>3, <1>4, ChangeInv DEF TypeOK

LEMMA ReviveInv ==
  ASSUME IInv, NEW r \in Records, NEW c \in Contents, ReviveRegistered(r, c)
  PROVE  IInv'
<1> DEFINE x == [Back(row[r]) EXCEPT !.content = c, !.availability = "core",
                   !.supersedes = NoRecord, !.expired = FALSE]
<1>1. TypeOK /\ r \in Known /\ row[r] \in Row /\ row[r].version + 1 <= MaxVersion
  BY DEF ReviveRegistered, Untouched, Room, IInv, TypeOK
<1>2. Back(row[r]) \in Row
  BY <1>1, NextRow
<1>3. x \in Row /\ x.supersedes = NoRecord
  BY <1>2 DEF Row, Availabilities
<1>4. /\ Write([p \in {r} |-> x]) /\ fts' = fts \cup {r}
      /\ UNCHANGED <<tombstones, mutations, purge_tombstones, source_state, members, outbox>>
  BY DEF ReviveRegistered
<1> HIDE DEF x
<1> QED
  BY <1>1, <1>3, <1>4, ChangeInv DEF TypeOK

LEMMA CorrectInv ==
  ASSUME IInv, NEW r \in Records, NEW c \in Contents, NEW t \in Records \cup {NoRecord},
         Correct(r, c, t)
  PROVE  IInv'
<1> DEFINE x == [Next1(row[r]) EXCEPT !.content = c, !.supersedes = t, !.origin = "local_admin"]
<1>1. /\ TypeOK /\ r \in Known /\ row[r] \in Row /\ row[r].version + 1 <= MaxVersion
      /\ Room(r, 1) /\ ValidSupersedes(r, t)
  BY DEF Correct, Live, Room, IInv, TypeOK
<1>2. Next1(row[r]) \in Row
  BY <1>1, NextRow
<1>3. x \in Row /\ x.supersedes = t
  BY <1>2 DEF Row, Origins
<1>4. mutations' \subseteq Records \X MutationKinds \X Versions \X (0 .. MaxVersion)
  <2>1. mutations' = mutations \cup Recorded({r}, "correction", 0)
    BY DEF Correct
  <2>2. 0 \in 0 .. MaxVersion /\ "correction" \in MutationKinds
    BY VersionAssumption DEF MutationKinds
  <2> QED
    BY <1>1, <2>1, <2>2, RecordedTyped DEF TypeOK
<1>5. /\ Write([p \in {r} |-> x]) /\ Emit(Announced(r, x, x)) /\ fts' = fts \cup {r}
      /\ UNCHANGED <<tombstones, purge_tombstones, source_state, members>>
  BY DEF Correct
<1> HIDE DEF x
<1> QED
  BY <1>1, <1>3, <1>4, <1>5, ChangeInv

LEMMA ChangeAvailabilityInv ==
  ASSUME IInv, NEW r \in Records, NEW a \in Availabilities, ChangeAvailability(r, a)
  PROVE  IInv'
<1> DEFINE x == [Next1(row[r]) EXCEPT !.availability = a]
<1>1. /\ TypeOK /\ r \in Known /\ row[r] \in Row /\ row[r].version + 1 <= MaxVersion
      /\ Room(r, 1)
  BY DEF ChangeAvailability, Live, Room, IInv, TypeOK
<1>2. Next1(row[r]) \in Row /\ Next1(row[r]).supersedes = row[r].supersedes
  BY <1>1, NextRow
<1>3. x \in Row /\ x.supersedes = row[r].supersedes
  BY <1>2 DEF Row
<1>4. mutations' \subseteq Records \X MutationKinds \X Versions \X (0 .. MaxVersion)
  <2>1. mutations' = mutations \cup Recorded({r}, "availability_change", 0)
    BY DEF ChangeAvailability
  <2>2. 0 \in 0 .. MaxVersion /\ "availability_change" \in MutationKinds
    BY VersionAssumption DEF MutationKinds
  <2> QED
    BY <1>1, <2>1, <2>2, RecordedTyped DEF TypeOK
<1>5. /\ Write([p \in {r} |-> x]) /\ Emit(Announced(r, row[r], x))
      /\ UNCHANGED <<fts, tombstones, purge_tombstones, source_state, members>>
  BY DEF ChangeAvailability
<1> HIDE DEF x
<1> QED
  BY <1>1, <1>3, <1>4, <1>5, ChangeInv

LEMMA DeleteInv ==
  ASSUME IInv, NEW r \in Records, NEW users \in BOOLEAN, Delete(r, users)
  PROVE  IInv'
<1>1. /\ TypeOK /\ r \in Known /\ row[r] \in Row /\ row[r].version + 1 <= MaxVersion
      /\ Room(r, 1)
  BY DEF Delete, Live, Room, IInv, TypeOK
<1>2. Gone(row[r]) \in Row /\ Gone(row[r]).supersedes = row[r].supersedes
  BY <1>1, NextRow
<1>3. /\ fts' \subseteq Known /\ DOMAIN tombstones' \subseteq Known
      /\ \A p \in DOMAIN tombstones' : tombstones'[p] \in Tombstone
      /\ outbox' \in [Records -> Seq(Event)]
  <2> DEFINE o == [p \in {r} |-> "ordinary"]
  <2>1. /\ Bury({r}, o) /\ {r} \in SUBSET Known
        /\ \A p \in {r} : Room(p, 1) /\ o[p] \in {"ordinary", "source_rebuild"}
    BY <1>1 DEF Delete
  <2> HIDE DEF o
  <2> QED
    BY <1>1, <2>1, BuriedTyped
<1>4. mutations' \subseteq Records \X MutationKinds \X Versions \X (0 .. MaxVersion)
  <2>1. mutations' = mutations \/ mutations' = mutations \cup Recorded({r}, "delete", 0)
    BY DEF Delete
  <2>2. 0 \in 0 .. MaxVersion /\ "delete" \in MutationKinds
    BY VersionAssumption DEF MutationKinds
  <2> QED
    BY <1>1, <2>1, <2>2, RecordedTyped DEF TypeOK
<1>5. /\ Write([p \in {r} |-> Gone(row[r])])
      /\ UNCHANGED <<purge_tombstones, source_state, members>>
  BY DEF Delete
<1> QED
  BY <1>1, <1>2, <1>3, <1>4, <1>5, OneRowInv

(* What Unbury leaves, whoever asked for it.                               *)
LEMMA UnburiedTyped ==
  ASSUME TypeOK, NEW S \in SUBSET Known, \A r \in S : Room(r, 1),
         NEW users \in BOOLEAN, Unbury(S, users)
  PROVE  /\ fts' \subseteq Known /\ DOMAIN tombstones' \subseteq Known
         /\ \A r \in DOMAIN tombstones' : tombstones'[r] \in Tombstone
         /\ mutations' \subseteq Records \X MutationKinds \X Versions \X (0 .. MaxVersion)
         /\ outbox' \in [Records -> Seq(Event)]
         /\ \A r \in S : Back(row[r]) \in Row /\ Back(row[r]).supersedes = row[r].supersedes
<1>1. \A r \in S : row[r] \in Row /\ row[r].version + 1 <= MaxVersion
  BY DEF TypeOK, Room
<1>2. \A r \in S : Back(row[r]) \in Row /\ Back(row[r]).supersedes = row[r].supersedes
  BY <1>1, NextRow
<1>3. mutations' \subseteq Records \X MutationKinds \X Versions \X (0 .. MaxVersion)
  <2>1. mutations' = mutations \/ mutations' = mutations \cup Recorded(S, "restore", 0)
    BY DEF Unbury
  <2>2. 0 \in 0 .. MaxVersion /\ "restore" \in MutationKinds
    BY VersionAssumption DEF MutationKinds
  <2> QED
    BY <2>1, <2>2, RecordedTyped DEF TypeOK
<1>4. outbox' \in [Records -> Seq(Event)]
  <2> DEFINE posted == [r \in {p \in S : row[p].availability = "always"} |-> Upsert(row[r])]
  <2>1. \A r \in DOMAIN posted : posted[r] \in Event
    BY <1>1, EventTyped
  <2>2. Emit(posted)
    BY DEF Unbury
  <2> HIDE DEF posted
  <2> QED
    BY <2>1, <2>2, EmitTyped
<1>5. /\ fts' \subseteq Known /\ DOMAIN tombstones' \subseteq Known
      /\ \A r \in DOMAIN tombstones' : tombstones'[r] \in Tombstone
  BY DEF Unbury, Without, TypeOK
<1> QED
  BY <1>2, <1>3, <1>4, <1>5

LEMMA UnburyInv ==
  ASSUME IInv, NEW S \in SUBSET Known, \A r \in S : Room(r, 1),
         NEW users \in BOOLEAN, Unbury(S, users),
         source_state' \in [Sources -> {"live", "deleted", "purged"}],
         members' \subseteq members, UNCHANGED purge_tombstones
  PROVE  IInv'
<1> DEFINE changed == [r \in S |-> Back(row[r])]
<1>1. TypeOK
  BY DEF IInv
<1>2. /\ fts' \subseteq Known /\ DOMAIN tombstones' \subseteq Known
      /\ \A r \in DOMAIN tombstones' : tombstones'[r] \in Tombstone
      /\ mutations' \subseteq Records \X MutationKinds \X Versions \X (0 .. MaxVersion)
      /\ outbox' \in [Records -> Seq(Event)]
      /\ \A r \in S : Back(row[r]) \in Row /\ Back(row[r]).supersedes = row[r].supersedes
  BY <1>1, UnburiedTyped
<1>3. /\ Write(changed) /\ DOMAIN changed \subseteq Known
      /\ \A r \in DOMAIN changed :
           changed[r] \in Row /\ changed[r].supersedes = row[r].supersedes
  BY <1>2 DEF Unbury
<1>4. members' \subseteq Sources \X Known \X Versions
  BY <1>1 DEF TypeOK
<1> HIDE DEF changed
<1> QED
  BY <1>2, <1>3, <1>4, ManyRowsInv

LEMMA RestoreCurrentInv ==
  ASSUME IInv, NEW r \in Records, RestoreCurrent(r)
  PROVE  IInv'
<1>1. /\ TypeOK /\ r \in Known /\ row[r] \in Row /\ row[r].version + 1 <= MaxVersion
      /\ Room(r, 1) /\ UNCHANGED <<purge_tombstones, source_state, members>>
  BY DEF RestoreCurrent, Room, IInv, TypeOK
<1>2. CASE Unbury({r}, TRUE)
  BY <1>1, <1>2, UnburyInv DEF TypeOK
<1>3. CASE /\ Write([p \in {r} |-> Next1(row[r])])
           /\ mutations' = mutations \cup Recorded({r}, "restore", 0)
           /\ UNCHANGED <<fts, tombstones, outbox>>
  <2>1. Next1(row[r]) \in Row /\ Next1(row[r]).supersedes = row[r].supersedes
    BY <1>1, NextRow
  <2>2. 0 \in 0 .. MaxVersion /\ "restore" \in MutationKinds
    BY VersionAssumption DEF MutationKinds
  <2>3. mutations' \subseteq Records \X MutationKinds \X Versions \X (0 .. MaxVersion)
    BY <1>1, <1>3, <2>2, RecordedTyped DEF TypeOK
  <2> QED
    BY <1>1, <1>3, <2>1, <2>3, ChangeInv
<1> QED
  BY <1>2, <1>3 DEF RestoreCurrent

LEMMA RestoreVersionInv ==
  ASSUME IInv, NEW r \in Records, NEW v \in Versions, RestoreVersion(r, v)
  PROVE  IInv'
<1>1. /\ TypeOK /\ r \in Known /\ row[r] \in Row /\ row[r].version + 1 <= MaxVersion
      /\ Room(r, 1) /\ ~AlreadyRestored(r, v)
  BY DEF RestoreVersion, Room, IInv, TypeOK
<1>2. PICK e \in versions : /\ ValidSupersedes(r, e[2].supersedes)
                            /\ Write([p \in {r} |-> RestoredRow(r, v, e[2])])
                            /\ Emit(Announced(r, row[r], RestoredRow(r, v, e[2])))
  BY DEF RestoreVersion
<1> DEFINE y == e[2]
<1> DEFINE x == RestoredRow(r, v, y)
<1>3. y \in Row
  BY <1>1, <1>2 DEF TypeOK
<1>4. row[r].version + 1 \in Versions
  BY <1>1, NextRow
<1>5. x \in Row /\ x.supersedes = y.supersedes
  <2>1. x = [y EXCEPT !.version = row[r].version + 1, !.deleted = FALSE]
    BY <1>1 DEF RestoredRow
  <2>2. ASSUME NEW z \in Row, NEW n \in Versions
        PROVE  /\ [z EXCEPT !.version = n, !.deleted = FALSE] \in Row
               /\ [z EXCEPT !.version = n, !.deleted = FALSE].supersedes = z.supersedes
    BY DEF Row
  <2> HIDE DEF y, x
  <2> QED
    BY <1>3, <1>4, <2>1, <2>2
<1>6. mutations' \subseteq Records \X MutationKinds \X Versions \X (0 .. MaxVersion)
  <2>1. v \in 0 .. MaxVersion /\ "restore" \in MutationKinds
    BY VersionAssumption DEF MutationKinds, Versions
  <2>2. mutations' = mutations \cup Recorded({r}, "restore", v)
    BY DEF RestoreVersion
  <2> QED
    BY <1>1, <2>1, <2>2, RecordedTyped DEF TypeOK
<1>7. /\ fts' = fts \cup {r} /\ tombstones' = Without(tombstones, {r})
      /\ UNCHANGED <<purge_tombstones, source_state, members>>
  BY DEF RestoreVersion
<1>8. /\ ValidSupersedes(r, x.supersedes) /\ Write([p \in {r} |-> x])
      /\ Emit(Announced(r, row[r], x))
  BY <1>2, <1>5
<1> HIDE DEF x
<1> QED
  BY <1>1, <1>5, <1>6, <1>7, <1>8, ChangeInv

LEMMA DeleteSourceInv ==
  ASSUME IInv, NEW s \in Sources, DeleteSource(s)
  PROVE  IInv'
<1> DEFINE S == {r \in SourceRecords(s) : Live(r)}
<1> DEFINE changed == [r \in S |-> Gone(row[r])]
<1> DEFINE o == [r \in S |-> "ordinary"]
<1>1. /\ TypeOK /\ S \in SUBSET Known /\ \A r \in S : Room(r, 1)
      /\ Write(changed) /\ Bury(S, o) /\ UNCHANGED purge_tombstones
      /\ mutations' = mutations \cup Recorded(S, "source_delete", 0)
      /\ members' = members \cup {<<s, r, row[r].version + 1>> : r \in S}
      /\ source_state' = [source_state EXCEPT ![s] = "deleted"]
  BY DEF DeleteSource, SourceRecords, IInv
<1>2. \A r \in S : /\ row[r].version + 1 \in Versions /\ Gone(row[r]) \in Row
                   /\ Gone(row[r]).supersedes = row[r].supersedes
  BY <1>1, NextRow DEF TypeOK, Room
<1>3. /\ DOMAIN changed \subseteq Known
      /\ \A r \in DOMAIN changed : changed[r] \in Row /\ changed[r].supersedes = row[r].supersedes
  BY <1>1, <1>2
<1>4. \A r \in S : o[r] \in {"ordinary", "source_rebuild"}
  OBVIOUS
<1>5. members' \subseteq Sources \X Known \X Versions
  BY <1>1, <1>2 DEF TypeOK
<1>6. source_state' \in [Sources -> {"live", "deleted", "purged"}]
  BY <1>1 DEF TypeOK
<1>7. 0 \in 0 .. MaxVersion /\ "source_delete" \in MutationKinds
  BY VersionAssumption DEF MutationKinds
<1> HIDE DEF S, changed, o
<1>8. mutations' \subseteq Records \X MutationKinds \X Versions \X (0 .. MaxVersion)
  BY <1>1, <1>7, RecordedTyped DEF TypeOK
<1>9. /\ fts' \subseteq Known /\ DOMAIN tombstones' \subseteq Known
      /\ \A r \in DOMAIN tombstones' : tombstones'[r] \in Tombstone
      /\ outbox' \in [Records -> Seq(Event)]
  BY <1>1, <1>4, BuriedTyped
<1> QED
  BY <1>1, <1>3, <1>5, <1>6, <1>8, <1>9, ManyRowsInv

LEMMA RestoreSourceInv ==
  ASSUME IInv, NEW s \in Sources, NEW users \in BOOLEAN, RestoreSource(s, users)
  PROVE  IInv'
<1>1. /\ Undone(s) \in SUBSET Known /\ \A r \in Undone(s) : Room(r, 1)
      /\ Unbury(Undone(s), users) /\ members' \subseteq members /\ UNCHANGED purge_tombstones
  BY DEF RestoreSource, Undone
<1>2. source_state' \in [Sources -> {"live", "deleted", "purged"}]
  BY DEF RestoreSource, IInv, TypeOK
<1> QED
  BY <1>1, <1>2, UnburyInv

(* The rows a rebuild leaves: a new one, one reapplied with its second     *)
(* version and no link, one withdrawn with its old link, or as it was.     *)
LEMMA RebuildInv ==
  ASSUME IInv, NEW s \in Sources, NEW sound \in SUBSET Automatic(s),
         NEW kept \in SUBSET Automatic(s), NEW added \in SUBSET Records,
         NEW c \in Contents, Rebuild(s, sound, kept, added, c)
  PROVE  IInv'
<1> DEFINE gone == [r \in Automatic(s) |-> Gone(row[r])]
<1> DEFINE again(y) == [Back(y) EXCEPT !.availability = "core", !.supersedes = NoRecord,
                                       !.expired = FALSE]
<1> DEFINE back == [r \in kept |-> again(gone[r])]
<1> DEFINE new == [r \in added |-> NewRow(c, "core", NoRecord, "archive_import", s)]
<1> DEFINE buried == [r \in Automatic(s) \ kept |->
                        [deleted_version |-> gone[r].version,
                         deletion_origin |-> IF r \in sound THEN "source_rebuild" ELSE "ordinary"]]
<1>1. /\ TypeOK /\ SupersessionSound /\ Automatic(s) \subseteq Known /\ Known \subseteq Records
      /\ \A r \in Known : row[r] \in Row
  BY DEF IInv, TypeOK, Automatic, SourceRecords
<1>2. /\ row' = Outranks(new, Outranks(back, Outranks(gone, row)))
      /\ versions' = versions \cup {<<r, gone[r]>> : r \in Automatic(s)}
                       \cup {<<r, back[r]>> : r \in kept} \cup {<<r, new[r]>> : r \in added}
      /\ fts' = (fts \ (Automatic(s) \ kept)) \cup added
      /\ tombstones' = Outranks(buried, tombstones)
      /\ Emit([r \in Automatic(s) |-> Opaque("record_deleted")])
      /\ UNCHANGED <<mutations, purge_tombstones, source_state, members>>
      /\ \A r \in Automatic(s) : Room(r, IF r \in kept THEN 2 ELSE 1)
      /\ "archive_import" \in Channels
  BY DEF Rebuild
<1>3. \A r \in Automatic(s) :
        /\ row[r].version + 1 \in Versions /\ gone[r] \in Row
        /\ gone[r].supersedes = row[r].supersedes /\ gone[r].version = row[r].version + 1
  <2>1. \A r \in Automatic(s) : row[r].version \in Nat /\ row[r].version + 1 <= MaxVersion
    <3> SUFFICES ASSUME NEW r \in Automatic(s)
                 PROVE  row[r].version \in Nat /\ row[r].version + 1 <= MaxVersion
      OBVIOUS
    <3>1. row[r].version \in Nat
      BY <1>1 DEF Row, Versions
    <3>2. Room(r, 1) \/ Room(r, 2)
      BY <1>2
    <3> QED
      BY <3>1, <3>2, VersionAssumption DEF Room
  <2> QED
    BY <1>1, <2>1, NextRow
<1>4. \A r \in kept : back[r] \in Row /\ back[r].supersedes = NoRecord
  <2>1. \A r \in kept : row[r].version \in Nat /\ row[r].version + 2 <= MaxVersion
    <3> SUFFICES ASSUME NEW r \in kept
                 PROVE  row[r].version \in Nat /\ row[r].version + 2 <= MaxVersion
      OBVIOUS
    <3>1. row[r].version \in Nat
      BY <1>1 DEF Row, Versions
    <3>2. Room(r, 2)
      BY <1>2
    <3> QED
      BY <3>1, <3>2 DEF Room
  <2>2. \A r \in kept : gone[r] \in Row /\ gone[r].version + 1 <= MaxVersion
    BY <1>3, <2>1
  <2>3. ASSUME NEW y \in Row
        PROVE  LET z == [y EXCEPT !.availability = "core", !.supersedes = NoRecord,
                                  !.expired = FALSE]
               IN z \in Row /\ z.supersedes = NoRecord
    BY DEF Row, Availabilities
  <2> HIDE DEF gone
  <2> QED
    BY <2>2, <2>3, NextRow
<1>5. \A r \in added : new[r] \in Row /\ new[r].supersedes = NoRecord
  <2>1. "core" \in Availabilities /\ "archive_import" \in Origins
    BY <1>2 DEF Availabilities, Origins
  <2> QED
    BY <2>1, NewRowTyped
<1>6. \A r \in DOMAIN buried : buried[r] \in Tombstone
  <2>1. ASSUME NEW v \in Versions, NEW b \in BOOLEAN
        PROVE  [deleted_version |-> v, deletion_origin |-> IF b THEN "source_rebuild" ELSE "ordinary"]
                 \in Tombstone
    BY DEF Tombstone
  <2> HIDE DEF gone
  <2> QED
    BY <1>3, <2>1
<1>7. /\ DOMAIN gone = Automatic(s) /\ DOMAIN back = kept /\ DOMAIN new = added
      /\ DOMAIN buried \subseteq Known
  BY <1>1
<1> HIDE DEF gone, back, new, buried
<1>8. /\ DOMAIN row' = Known \cup added
      /\ \A r \in DOMAIN row' : row'[r] = IF r \in added THEN new[r]
                                        ELSE IF r \in kept THEN back[r]
                                        ELSE IF r \in Automatic(s) THEN gone[r] ELSE row[r]
  BY <1>1, <1>2, <1>7 DEF Outranks, Known
<1>9. SupersessionSound'
  <2>1. \A r \in DOMAIN row' :
          \/ row'[r].supersedes = NoRecord
          \/ /\ r \in Known /\ row'[r].supersedes = row[r].supersedes
             /\ row[r].supersedes \in DOMAIN row'
    BY <1>1, <1>3, <1>4, <1>5, <1>8 DEF SupersessionSound
  <2> QED
    BY <1>1, <1>8, <2>1, SoundKept
<1>10. outbox' \in [Records -> Seq(Event)]
  <2> DEFINE posted == [r \in Automatic(s) |-> Opaque("record_deleted")]
  <2>1. Emit(posted) /\ \A r \in DOMAIN posted : posted[r] \in Event
    BY <1>2, EventTyped DEF EventTypes
  <2> HIDE DEF posted
  <2> QED
    BY <1>1, <2>1, EmitTyped
<1>11. \A r \in DOMAIN row' : row'[r] \in Row
  BY <1>1, <1>3, <1>4, <1>5, <1>8
<1>12. versions' \subseteq Records \X Row
  BY <1>1, <1>2, <1>3, <1>4, <1>5 DEF TypeOK
<1>13. /\ DOMAIN tombstones' \subseteq Known
       /\ \A r \in DOMAIN tombstones' : tombstones'[r] \in Tombstone
  BY <1>1, <1>2, <1>6, <1>7 DEF TypeOK, Outranks
<1>14. TypeOK'
  BY <1>1, <1>2, <1>8, <1>10, <1>11, <1>12, <1>13 DEF TypeOK, Known
<1> QED
  BY <1>9, <1>14 DEF IInv

(* A purge drops every link to what it removes.                            *)
LEMMA EraseInv ==
  ASSUME IInv, NEW S \in SUBSET Known, Erase(S),
         purge_tombstones' \subseteq Records \cup Sources,
         source_state' \in [Sources -> {"live", "deleted", "purged"}],
         members' \subseteq members, \A e \in members' : e[2] \notin S
  PROVE  IInv'
<1>1. /\ TypeOK /\ SupersessionSound /\ Known \subseteq Records
      /\ \A r \in Known : row[r] \in Row
  BY DEF IInv, TypeOK
<1>2. /\ DOMAIN row' = Known \ S
      /\ \A r \in Known \ S : row'[r] = Forgetful(S, row[r])
  BY DEF Erase, Known
<1>3. \A r \in Known \ S :
        /\ row'[r] \in Row
        /\ row'[r].supersedes = IF row[r].supersedes \in S THEN NoRecord ELSE row[r].supersedes
  BY <1>1, <1>2 DEF Forgetful, Row
<1>4. SupersessionSound'
  <2>1. \A r \in DOMAIN row' :
          \/ row'[r].supersedes = NoRecord
          \/ /\ r \in Known /\ row'[r].supersedes = row[r].supersedes
             /\ row[r].supersedes \in DOMAIN row'
    BY <1>1, <1>2, <1>3 DEF SupersessionSound
  <2> QED
    BY <1>1, <1>2, <2>1, SoundKept
<1>5. outbox' \in [Records -> Seq(Event)]
  <2>1. ASSUME NEW r \in Records
        PROVE  Append([i \in DOMAIN outbox[r] |-> Opaque("record_withdrawn")],
                      Opaque("record_purged")) \in Seq(Event)
    <3>1. Opaque("record_withdrawn") \in Event /\ Opaque("record_purged") \in Event
      BY EventTyped DEF EventTypes
    <3>2. Len(outbox[r]) \in Nat /\ DOMAIN outbox[r] = 1 .. Len(outbox[r])
      BY <1>1 DEF TypeOK
    <3>3. [i \in DOMAIN outbox[r] |-> Opaque("record_withdrawn")] \in Seq(Event)
      BY <3>1, <3>2
    <3> QED
      BY <3>1, <3>3
  <2> QED
    BY <1>1, <2>1 DEF Erase, TypeOK
<1>6. /\ DOMAIN tombstones' \subseteq Known \ S
      /\ \A r \in DOMAIN tombstones' : tombstones'[r] \in Tombstone
      /\ fts' \subseteq Known \ S /\ versions' \subseteq Records \X Row
      /\ UNCHANGED mutations
  BY <1>1 DEF Erase, Without, TypeOK
<1>7. members' \subseteq Sources \X (Known \ S) \X Versions
  BY <1>1 DEF TypeOK
<1>8. TypeOK'
  BY <1>1, <1>2, <1>3, <1>5, <1>6, <1>7 DEF TypeOK, Known
<1> QED
  BY <1>4, <1>8 DEF IInv

LEMMA PurgeRecordInv ==
  ASSUME IInv, NEW r \in Records, NEW with_source \in BOOLEAN, PurgeRecord(r, with_source)
  PROVE  IInv'
<1>1. {r} \in SUBSET Known /\ Erase({r}) /\ row[r] \in Row /\ TypeOK
  BY DEF PurgeRecord, IInv, TypeOK
<1>2. with_source => row[r].source \in Sources
  BY <1>1 DEF PurgeRecord, Row
<1>3. /\ purge_tombstones' \subseteq Records \cup Sources
      /\ source_state' \in [Sources -> {"live", "deleted", "purged"}]
  BY <1>1, <1>2 DEF PurgeRecord, TypeOK
<1>4. members' \subseteq members /\ \A e \in members' : e[2] \notin {r}
  BY DEF PurgeRecord
<1> QED
  BY <1>1, <1>3, <1>4, EraseInv

LEMMA PurgeSourceInv ==
  ASSUME IInv, NEW s \in Sources, PurgeSource(s)
  PROVE  IInv'
<1>1. SourceRecords(s) \in SUBSET Known /\ Erase(SourceRecords(s)) /\ TypeOK
  BY DEF PurgeSource, SourceRecords, IInv
<1>2. /\ purge_tombstones' \subseteq Records \cup Sources
      /\ source_state' \in [Sources -> {"live", "deleted", "purged"}]
  BY <1>1 DEF PurgeSource, TypeOK
<1>3. members' \subseteq members /\ \A e \in members' : e[2] \notin SourceRecords(s)
  BY DEF PurgeSource
<1> QED
  BY <1>1, <1>2, <1>3, EraseInv

-----------------------------------------------------------------------------
LEMMA InitInv == Init => IInv
<1> SUFFICES ASSUME Init PROVE IInv
  OBVIOUS
<1>1. Known = {} /\ DOMAIN tombstones = {}
  BY DEF Init, Nothing, Known
<1>2. outbox \in [Records -> Seq(Event)]
  BY DEF Init
<1>3. TypeOK
  BY <1>1, <1>2 DEF Init, TypeOK
<1> QED
  BY <1>1, <1>3 DEF IInv, SupersessionSound

LEMMA NextInv == IInv /\ [Next]_vars => IInv'
<1> SUFFICES ASSUME IInv, [Next]_vars PROVE IInv'
  OBVIOUS
<1>1. CASE Observe
  BY <1>1, CreateInv, UpdateInv, ReinforceInv, WithdrawInv, ReviveInv DEF Observe
<1>2. CASE Manage
  BY <1>2, ApproveInv, CorrectInv, ChangeAvailabilityInv, DeleteInv, RestoreCurrentInv,
     RestoreVersionInv, PurgeRecordInv DEF Manage
<1>3. CASE ManageSource
  BY <1>3, DeleteSourceInv, RestoreSourceInv, RebuildInv, PurgeSourceInv DEF ManageSource
<1>4. CASE UNCHANGED vars
  BY <1>4 DEF vars, IInv, TypeOK, SupersessionSound, Known
<1> QED
  BY <1>1, <1>2, <1>3, <1>4 DEF Next

(* The types and the supersession links are right in every state.          *)
THEOREM Invariant == Spec => []IInv
BY InitInv, NextInv, PTL DEF Spec

(* Every table keeps its types, and the search index, the tombstones and   *)
(* the members of source deletions name only records that exist.           *)
THEOREM TypeCorrect == Spec => []TypeOK
<1>1. IInv => TypeOK
  BY DEF IInv
<1> QED
  BY <1>1, Invariant, PTL

(* Supersession links lead to existing records and form no cycle, for any  *)
(* number of records and however corrections, version restores, rebuilds   *)
(* and purges follow one another.                                          *)
THEOREM SupersessionCorrect == Spec => []SupersessionSound
<1>1. IInv => SupersessionSound
  BY DEF IInv
<1> QED
  BY <1>1, Invariant, PTL

-----------------------------------------------------------------------------
(* The life of a record: its history, its deletions, the barrier around a  *)
(* user's edits, what the relay serves of it and what a purge leaves.      *)
(*                                                                         *)
(* The invariant is stated record by record (RecordSound).  A step writes  *)
(* few records; for each of the others everything the invariant speaks of  *)
(* is as it was (Framed), a blanked reference to a purged record apart.    *)

(* The invariant.                                                          *)

Snapshots(r) == {x \in Row : <<r, x>> \in versions}

(* V holds one snapshot of each version from 1 to n.                       *)
Gapless(V, n) ==
  /\ \A x \in V : x.version \in 1 .. n
  /\ \A x, y \in V : x.version = y.version => x = y
  /\ \A v \in 1 .. n : \E x \in V : x.version = v

(* Snapshot x tells row y, a reference to a purged record apart.           *)
Tells(x, y) ==
  \/ x = y
  \/ /\ y.supersedes = NoRecord /\ x.supersedes \in purge_tombstones
     /\ [x EXCEPT !.supersedes = NoRecord] = y

HistoryOf(r) ==
  IF r \in Known
  THEN /\ Gapless(Snapshots(r), row[r].version)
       /\ \E x \in Snapshots(r) : x.version = row[r].version /\ Tells(x, row[r])
  ELSE Snapshots(r) = {}

DeletionOf(r) ==
  r \in Known =>
    /\ r \in fts <=> ~row[r].deleted
    /\ IF ~row[r].deleted THEN r \notin DOMAIN tombstones
       ELSE \/ r \in DOMAIN tombstones /\ tombstones[r].deleted_version = row[r].version
            \/ Untouched(r) /\ row[r].expired

BarrierOf(r) ==
  r \in Known /\ HasUserEdit(r) /\ row[r].deleted =>
    r \in DOMAIN tombstones /\ tombstones[r].deletion_origin = "ordinary"

(* What a capture source may withdraw without an event was never           *)
(* replicated.                                                             *)
PrivateOf(r) ==
  r \in Known /\ ~HasUserEdit(r) /\ row[r].origin = "registered_source" =>
    row[r].availability = "core"

RelayOf(r) ==
  r \in Served => /\ Live(r) /\ row[r].availability = "always"
                  /\ Latest(r).content = row[r].content

(* The ledger of mutations speaks of versions that were reached, and of no *)
(* record before its creation.                                             *)
LedgerOf(r) ==
  \A m \in mutations : m[1] = r =>
    IF r \in Known THEN m[3] <= row[r].version ELSE r \in purge_tombstones

(* A member of a source deletion was that source's when it was deleted.    *)
MembersOf(r) ==
  \A m \in members : m[2] = r =>
    /\ m[3] <= row[r].version
    /\ m[3] = row[r].version => row[r].source = m[1]
    /\ <<r, "source_delete", m[3], 0>> \in mutations

PurgedOf(r) ==
  r \in purge_tombstones =>
    /\ r \notin Known /\ outbox[r] # <<>> /\ Latest(r).type = "record_purged"
    /\ \A i \in DOMAIN outbox[r] : outbox[r][i].content = NoContent

RecordSound(r) == /\ HistoryOf(r) /\ DeletionOf(r) /\ BarrierOf(r) /\ PrivateOf(r)
                  /\ RelayOf(r) /\ LedgerOf(r) /\ MembersOf(r) /\ PurgedOf(r)

HInv == IInv /\ \A r \in Records : RecordSound(r)

-----------------------------------------------------------------------------
(* What a step leaves of a record.                                         *)

(* The row as it was, or without its reference to a record now purged.     *)
SameRow(r) ==
  \/ row'[r] = row[r]
  \/ /\ row[r].supersedes \in purge_tombstones'
     /\ row'[r] = [row[r] EXCEPT !.supersedes = NoRecord]

SameTombstone(r) == /\ r \in DOMAIN tombstones' <=> r \in DOMAIN tombstones
                    /\ r \in DOMAIN tombstones => tombstones'[r] = tombstones[r]

(* A record that is superseded may be withdrawn from the relay.            *)
SameNews(r) ==
  \/ outbox'[r] = outbox[r]
  \/ r \in Known /\ outbox'[r] = Append(outbox[r], Opaque("record_withdrawn"))

(* The step did not write record r.                                        *)
Framed(r) ==
  /\ r \in DOMAIN row' <=> r \in Known
  /\ r \in Known => SameRow(r)
  /\ \A x \in Row : <<r, x>> \in versions' <=> <<r, x>> \in versions
  /\ \A m : m[1] = r => (m \in mutations' <=> m \in mutations)
  /\ \A m \in members' : m[2] = r => m \in members
  /\ r \in fts' <=> r \in fts
  /\ SameTombstone(r)
  /\ SameNews(r)
  /\ r \in purge_tombstones' <=> r \in purge_tombstones

(* What blanking a reference leaves alone.                                 *)
LEMMA BlankedRow ==
  ASSUME NEW x \in Row
  PROVE  LET y == [x EXCEPT !.supersedes = NoRecord]
         IN /\ y \in Row /\ y.supersedes = NoRecord /\ y.version = x.version
            /\ y.content = x.content /\ y.availability = x.availability
            /\ y.origin = x.origin /\ y.source = x.source
            /\ y.deleted = x.deleted /\ y.expired = x.expired
BY DEF Row

LEMMA AppendedLatest ==
  ASSUME TypeOK, NEW r \in Records, NEW e, outbox'[r] = Append(outbox[r], e)
  PROVE  Latest(r)' = e /\ outbox'[r] # <<>>
<1>1. outbox[r] \in Seq(Event)
  BY DEF TypeOK
<1> QED
  BY <1>1 DEF Latest

LEMMA FrameSound ==
  ASSUME TypeOK, NEW r \in Records, RecordSound(r), Framed(r),
         purge_tombstones \subseteq purge_tombstones'
  PROVE  RecordSound(r)'
<1>1. CASE r \in Known
  <2>1. row[r] \in Row /\ r \in DOMAIN row'
    BY <1>1 DEF TypeOK, Framed
  <2>2. /\ row'[r].version = row[r].version /\ row'[r].content = row[r].content
        /\ row'[r].availability = row[r].availability /\ row'[r].origin = row[r].origin
        /\ row'[r].source = row[r].source /\ row'[r].deleted = row[r].deleted
        /\ row'[r].expired = row[r].expired
    BY <1>1, <2>1, BlankedRow DEF Framed, SameRow
  <2>3. HasUserEdit(r)' <=> HasUserEdit(r)
    BY DEF Framed, HasUserEdit
  <2>4. Snapshots(r)' = Snapshots(r)
    BY DEF Framed, Snapshots
  <2>5. HistoryOf(r)'
    <3>1. PICK x \in Snapshots(r) : x.version = row[r].version /\ Tells(x, row[r])
      BY <1>1 DEF RecordSound, HistoryOf
    <3>2. Tells(x, row[r])'
      BY <2>1, <3>1, <1>1, BlankedRow, NullAssumption DEF Framed, SameRow, Tells, Snapshots
    <3>3. Gapless(Snapshots(r), row[r].version)
      BY <1>1 DEF RecordSound, HistoryOf
    <3>4. Gapless(Snapshots(r), row[r].version)'
      BY <2>2, <2>4, <3>3 DEF Gapless
    <3> QED
      BY <2>1, <2>2, <2>4, <3>1, <3>2, <3>4 DEF HistoryOf, Known
  <2>6. DeletionOf(r)'
    BY <1>1, <2>1, <2>2, <2>3 DEF Framed, RecordSound, DeletionOf, SameTombstone, Untouched, Known
  <2>7. BarrierOf(r)' /\ PrivateOf(r)'
    BY <1>1, <2>1, <2>2, <2>3 DEF Framed, RecordSound, BarrierOf, PrivateOf, SameTombstone, Known
  <2>8. RelayOf(r)'
    <3>1. CASE outbox'[r] = outbox[r]
      BY <1>1, <2>1, <2>2, <3>1 DEF RecordSound, RelayOf, Served, Latest, Live, Known
    <3>2. CASE outbox'[r] = Append(outbox[r], Opaque("record_withdrawn"))
      <4>1. Latest(r)' = Opaque("record_withdrawn")
        BY <3>2, AppendedLatest
      <4> QED
        BY <4>1 DEF RelayOf, Served, Opaque
    <3> QED
      BY <3>1, <3>2 DEF Framed, SameNews
  <2>9. LedgerOf(r)'
    BY <1>1, <2>1, <2>2 DEF Framed, RecordSound, LedgerOf, Known
  <2>10. MembersOf(r)'
    BY <1>1, <2>1, <2>2 DEF Framed, RecordSound, MembersOf
  <2>11. PurgedOf(r)'
    BY <1>1 DEF Framed, RecordSound, PurgedOf
  <2> QED
    BY <2>5, <2>6, <2>7, <2>8, <2>9, <2>10, <2>11 DEF RecordSound
<1>2. CASE r \notin Known
  <2>1. r \notin Known'
    BY <1>2 DEF Framed, Known
  <2>2. HistoryOf(r)'
    BY <1>2, <2>1 DEF Framed, RecordSound, HistoryOf, Snapshots
  <2>3. DeletionOf(r)' /\ BarrierOf(r)' /\ PrivateOf(r)'
    BY <2>1 DEF DeletionOf, BarrierOf, PrivateOf
  <2>4. RelayOf(r)'
    BY <1>2 DEF Framed, SameNews, RecordSound, RelayOf, Served, Latest, Live
  <2>5. LedgerOf(r)'
    BY <1>2, <2>1 DEF Framed, RecordSound, LedgerOf
  <2>6. MembersOf(r)'
    <3>1. \A m \in members : m[2] # r
      BY <1>2 DEF TypeOK
    <3> QED
      BY <3>1 DEF Framed, MembersOf
  <2>7. PurgedOf(r)'
    BY <1>2, <2>1 DEF Framed, SameNews, RecordSound, PurgedOf, Latest
  <2> QED
    BY <2>2, <2>3, <2>4, <2>5, <2>6, <2>7 DEF RecordSound
<1> QED
  BY <1>1, <1>2

-----------------------------------------------------------------------------
(* Steps that write one record.                                            *)

(* One more version after n leaves no gap.                                 *)
LEMMA GaplessNext ==
  ASSUME NEW V, NEW n \in Nat, Gapless(V, n), NEW x, x.version = n + 1
  PROVE  Gapless(V \cup {x}, n + 1)
<1>1. \A y \in V : y.version \in 1 .. n
  BY DEF Gapless
<1>2. \A y, z \in V \cup {x} : y.version = z.version => y = z
  BY <1>1 DEF Gapless
<1>3. \A v \in 1 .. n + 1 : v \in 1 .. n \/ v = x.version
  OBVIOUS
<1>4. \A v \in 1 .. n + 1 : \E y \in V \cup {x} : y.version = v
  BY <1>3 DEF Gapless
<1> QED
  BY <1>1, <1>2, <1>4 DEF Gapless

(* The row of record r is written as x, its next version.                  *)
Advances(r, x) ==
  \/ Fresh(r) /\ x.version = 1
  \/ r \in Known /\ x.version = row[r].version + 1

LEMMA AdvancedHistory ==
  ASSUME TypeOK, NEW r \in Records, HistoryOf(r), NEW x \in Row, Advances(r, x),
         r \in DOMAIN row', row'[r] = x,
         \A y \in Row : <<r, y>> \in versions' <=> <<r, y>> \in versions \/ y = x
  PROVE  HistoryOf(r)'
<1>1. Snapshots(r)' = Snapshots(r) \cup {x}
  BY DEF Snapshots
<1>2. Gapless(Snapshots(r) \cup {x}, x.version)
  <2>1. CASE Fresh(r) /\ x.version = 1
    <3>1. Snapshots(r) = {}
      BY <2>1 DEF Fresh, HistoryOf
    <3> QED
      BY <2>1, <3>1 DEF Gapless
  <2>2. CASE r \in Known /\ x.version = row[r].version + 1
    <3>1. row[r].version \in Nat
      BY <2>2 DEF TypeOK, Row, Versions
    <3> QED
      BY <2>2, <3>1, GaplessNext DEF HistoryOf
  <2> QED
    BY <2>1, <2>2 DEF Advances
<1>3. Gapless(Snapshots(r), row[r].version)'
  BY <1>1, <1>2 DEF Gapless
<1> QED
  BY <1>1, <1>3 DEF HistoryOf, Known, Tells

(* What remains to be shown of the record that is written.                 *)
LEMMA WrittenSound ==
  ASSUME TypeOK, NEW r \in Records, RecordSound(r), NEW x \in Row,
         r \in DOMAIN row', row'[r] = x, x.version \in Nat,
         \/ Fresh(r)
         \/ r \in Known /\ row[r].version < x.version,
         HistoryOf(r)', DeletionOf(r)', BarrierOf(r)', PrivateOf(r)', RelayOf(r)',
         mutations \subseteq mutations',
         \A m \in mutations' : m[1] = r => m \in mutations \/ m[3] = x.version,
         \A m \in members' : m[2] = r =>
           \/ m \in members
           \/ /\ m[1] = x.source /\ m[3] = x.version
              /\ <<r, "source_delete", m[3], 0>> \in mutations',
         r \in purge_tombstones' <=> r \in purge_tombstones
  PROVE  RecordSound(r)'
<1>1. \A m \in mutations : m[1] = r => r \in Known /\ m[3] <= row[r].version /\ m[3] \in Nat
  BY DEF RecordSound, LedgerOf, Fresh, TypeOK, Versions
<1>2. \A m \in members : m[2] = r => r \in Known /\ m[3] <= row[r].version /\ m[3] \in Nat
  <2>1. \A m \in members : m[2] \in Known /\ m[3] \in Nat
    BY DEF TypeOK, Versions
  <2> QED
    BY <2>1 DEF RecordSound, MembersOf
<1>3. r \in Known => row[r].version \in Nat /\ row[r].version < x.version
  BY DEF TypeOK, Row, Versions, Fresh
<1>4. LedgerOf(r)'
  BY <1>1, <1>3 DEF LedgerOf, Known
<1>5. MembersOf(r)'
  <2>1. \A m \in members : m[2] = r => /\ m[3] < x.version /\ m[3] \in Nat
                                       /\ <<r, "source_delete", m[3], 0>> \in mutations
    BY <1>2, <1>3 DEF RecordSound, MembersOf
  <2> QED
    BY <2>1 DEF MembersOf
<1>6. PurgedOf(r)'
  BY DEF RecordSound, PurgedOf, Fresh
<1> QED
  BY <1>4, <1>5, <1>6 DEF RecordSound

(* A step that writes the rows `changed' and adds what it does to the      *)
(* ledgers for these records only.                                         *)
LEMMA ManySound ==
  ASSUME HInv, IInv', NEW changed, Write(changed), DOMAIN changed \subseteq Records,
         \A r \in DOMAIN changed :
           /\ changed[r] \in Row /\ Advances(r, changed[r])
           /\ DeletionOf(r)' /\ BarrierOf(r)' /\ PrivateOf(r)' /\ RelayOf(r)',
         \A p \in Records \ DOMAIN changed :
           (p \in fts' <=> p \in fts) /\ SameTombstone(p) /\ SameNews(p),
         mutations \subseteq mutations',
         \A m \in mutations' \ mutations :
           m[1] \in DOMAIN changed /\ m[3] = changed[m[1]].version,
         \A m \in members' \ members :
           /\ m[2] \in DOMAIN changed /\ m[1] = changed[m[2]].source
           /\ m[3] = changed[m[2]].version /\ <<m[2], "source_delete", m[3], 0>> \in mutations',
         UNCHANGED purge_tombstones
  PROVE  HInv'
<1>1. TypeOK /\ \A p \in Records : RecordSound(p)
  BY DEF HInv, IInv
<1>2. /\ DOMAIN row' = Known \cup DOMAIN changed
      /\ \A p \in DOMAIN row' : row'[p] = IF p \in DOMAIN changed THEN changed[p] ELSE row[p]
      /\ versions' = versions \cup {<<r, changed[r]>> : r \in DOMAIN changed}
  BY DEF Write, Outranks, Known
<1>3. ASSUME NEW r \in DOMAIN changed PROVE RecordSound(r)'
  <2> DEFINE x == changed[r]
  <2>1. x \in Row /\ Advances(r, x) /\ r \in DOMAIN row' /\ row'[r] = x /\ r \in Records
    BY <1>2
  <2>2. HistoryOf(r)'
    <3>1. \A y \in Row : <<r, y>> \in versions' <=> <<r, y>> \in versions \/ y = x
      BY <1>2
    <3> HIDE DEF x
    <3> QED
      BY <1>1, <2>1, <3>1, AdvancedHistory DEF RecordSound
  <2>3. x.version \in Nat /\ (r \in Known => row[r].version \in Nat)
    BY <1>1, <2>1 DEF TypeOK, Row, Versions
  <2>4. Fresh(r) \/ (r \in Known /\ row[r].version < x.version)
    BY <2>1, <2>3 DEF Advances
  <2>5. \A m \in mutations' : m[1] = r => m \in mutations \/ m[3] = x.version
    OBVIOUS
  <2>6. \A m \in members' : m[2] = r =>
           \/ m \in members
           \/ /\ m[1] = x.source /\ m[3] = x.version
              /\ <<r, "source_delete", m[3], 0>> \in mutations'
    OBVIOUS
  <2> HIDE DEF x
  <2> QED
    BY <1>1, <2>1, <2>2, <2>3, <2>4, <2>5, <2>6, WrittenSound
<1>4. ASSUME NEW p \in Records \ DOMAIN changed PROVE RecordSound(p)'
  <2>1. Framed(p)
    BY <1>2 DEF Framed, SameRow
  <2> QED
    BY <1>1, <2>1, FrameSound
<1> QED
  BY <1>3, <1>4 DEF HInv

(* A step that writes record r alone and leaves it live.                   *)
LEMMA LiveSound ==
  ASSUME HInv, IInv', NEW r \in Records, NEW x \in Row, Write([p \in {r} |-> x]),
         Advances(r, x), ~x.deleted, fts' = fts \cup {r},
         \/ UNCHANGED tombstones /\ r \notin DOMAIN tombstones
         \/ tombstones' = Without(tombstones, {r}),
         mutations \subseteq mutations',
         \A m \in mutations' \ mutations : m[1] = r /\ m[3] = x.version,
         \/ HasUserEdit(r)'
         \/ x.origin # "registered_source"
         \/ x.availability = "core",
         RelayOf(r)', \A p \in Records \ {r} : SameNews(p),
         UNCHANGED <<purge_tombstones, members>>
  PROVE  HInv'
<1> DEFINE changed == [p \in {r} |-> x]
<1>1. Write(changed) /\ DOMAIN changed = {r} /\ changed[r] = x
  OBVIOUS
<1>2. r \in DOMAIN row' /\ row'[r] = x
  BY DEF Write, Outranks
<1> HIDE DEF changed
<1>3. r \notin DOMAIN tombstones'
  BY DEF Without
<1>4. DeletionOf(r)' /\ BarrierOf(r)' /\ PrivateOf(r)'
  BY <1>2, <1>3 DEF DeletionOf, BarrierOf, PrivateOf, Known
<1>5. \A p \in Records \ {r} : (p \in fts' <=> p \in fts) /\ SameTombstone(p)
  BY DEF SameTombstone, Without
<1> QED
  BY <1>1, <1>4, <1>5, ManySound

(* What is announced of a live record is what the relay shall serve.       *)
LEMMA AnnouncedRelay ==
  ASSUME TypeOK, NEW r \in Records, RelayOf(r), NEW x \in Row, NEW y,
         r \in DOMAIN row', row'[r] = x, ~x.deleted, Emit(Announced(r, y, x)),
         Live(r) => row[r].availability = y.availability
  PROVE  RelayOf(r)' /\ \A p \in Records \ {r} : SameNews(p)
<1>1. \A p \in Records \ {r} : SameNews(p)
  BY DEF Emit, Announced, Nothing, SameNews
<1>2. CASE x.availability = "always"
  <2>1. outbox'[r] = Append(outbox[r], Upsert(x))
    BY <1>2 DEF Emit, Announced
  <2>2. Latest(r)' = Upsert(x)
    BY <2>1, AppendedLatest
  <2> QED
    BY <1>1, <1>2, <2>2 DEF RelayOf, Upsert, Live, Known
<1>3. CASE x.availability # "always" /\ y.availability = "always"
  <2>1. outbox'[r] = Append(outbox[r], Opaque("record_withdrawn"))
    BY <1>3 DEF Emit, Announced
  <2>2. Latest(r)' = Opaque("record_withdrawn")
    BY <2>1, AppendedLatest
  <2> QED
    BY <1>1, <2>2 DEF RelayOf, Served, Opaque
<1>4. CASE x.availability # "always" /\ y.availability # "always"
  <2>1. outbox'[r] = outbox[r]
    BY <1>4 DEF Emit, Announced, Nothing
  <2>2. r \notin Served
    BY <1>4 DEF RelayOf
  <2> QED
    BY <1>1, <2>1, <2>2 DEF RelayOf, Served, Latest
<1> QED
  BY <1>2, <1>3, <1>4

(* Next1, Gone and Back change the version and, at most, the deletion.     *)
LEMMA NextFields ==
  ASSUME NEW x \in Row
  PROVE  /\ \A y \in {Next1(x), Gone(x), Back(x)} :
              /\ y.version = x.version + 1 /\ y.content = x.content
              /\ y.availability = x.availability /\ y.origin = x.origin
              /\ y.source = x.source /\ y.expired = x.expired
         /\ Next1(x).deleted = x.deleted /\ Gone(x).deleted /\ ~Back(x).deleted
BY DEF Row, Next1, Gone, Back

-----------------------------------------------------------------------------
(* The operations, one lemma each.                                         *)

LEMMA CreateSound ==
  ASSUME HInv, NEW r \in Records, NEW c \in Contents, NEW o \in Channels,
         NEW s \in Sources \cup {NoSource}, Create(r, c, o, s)
  PROVE  HInv'
<1> DEFINE x == NewRow(c, "core", NoRecord, o, s)
<1>1. /\ IInv' /\ TypeOK /\ RecordSound(r) /\ Fresh(r) /\ Write([p \in {r} |-> x])
      /\ fts' = fts \cup {r}
      /\ UNCHANGED <<tombstones, mutations, purge_tombstones, source_state, members, outbox>>
  BY CreateInv DEF HInv, IInv, Create
<1>2. x \in Row /\ x.version = 1 /\ ~x.deleted /\ x.availability = "core"
  <2>1. "core" \in Availabilities /\ o \in Origins
    BY DEF Availabilities, Origins
  <2> QED
    BY <2>1, NewRowTyped DEF NewRow
<1>3. r \notin Served /\ r \notin DOMAIN tombstones
  BY <1>1 DEF RecordSound, RelayOf, Live, Fresh, TypeOK
<1>4. RelayOf(r)' /\ \A p \in Records \ {r} : SameNews(p)
  BY <1>1, <1>3 DEF RelayOf, Served, Latest, SameNews
<1>5. Advances(r, x)
  BY <1>1, <1>2 DEF Advances
<1> HIDE DEF x
<1> QED
  BY <1>1, <1>2, <1>3, <1>4, <1>5, LiveSound

LEMMA ApproveSound ==
  ASSUME HInv, NEW r \in Records, NEW c \in Contents, NEW a \in Availabilities,
         NEW t \in Records \cup {NoRecord}, NEW s \in Sources \cup {NoSource},
         Approve(r, c, a, t, s)
  PROVE  HInv'
<1> DEFINE x == NewRow(c, a, t, "local_admin", s)
<1> DEFINE old == {p \in {t} : Live(p) /\ row[p].availability = "always"}
<1> DEFINE posted == Outranks([p \in old |-> Opaque("record_withdrawn")], Announced(r, x, x))
<1>1. /\ IInv' /\ TypeOK /\ RecordSound(r) /\ Fresh(r) /\ Write([p \in {r} |-> x])
      /\ fts' = fts \cup {r} /\ Emit(posted)
      /\ UNCHANGED <<tombstones, mutations, purge_tombstones, source_state, members>>
  BY ApproveInv DEF HInv, IInv, Approve
<1>2. /\ x \in Row /\ x.version = 1 /\ ~x.deleted /\ x.availability = a /\ x.content = c
      /\ x.origin = "local_admin"
  BY NewRowTyped DEF Origins, NewRow
<1>3. r \notin Served /\ r \notin DOMAIN tombstones /\ r \notin old
  BY <1>1 DEF RecordSound, RelayOf, Live, Fresh, TypeOK
<1>4. \A p \in Records \ {r} : SameNews(p)
  BY <1>1 DEF SameNews, Emit, Outranks, Announced, Nothing, Live
<1>5. RelayOf(r)'
  <2>1. r \in DOMAIN row' /\ row'[r] = x
    BY <1>1 DEF Write, Outranks
  <2>2. CASE a = "always"
    <3>1. outbox'[r] = Append(outbox[r], Upsert(x))
      BY <1>1, <1>2, <1>3, <2>2 DEF Emit, Outranks, Announced
    <3>2. Latest(r)' = Upsert(x)
      BY <1>1, <3>1, AppendedLatest
    <3> QED
      BY <1>2, <2>1, <2>2, <3>2 DEF RelayOf, Upsert, Live, Known
  <2>3. CASE a # "always"
    <3>1. outbox'[r] = outbox[r]
      BY <1>1, <1>2, <1>3, <2>3 DEF Emit, Outranks, Announced, Nothing
    <3> QED
      BY <1>3, <3>1 DEF RelayOf, Served, Latest
  <2> QED
    BY <2>2, <2>3
<1>6. Advances(r, x)
  BY <1>1, <1>2 DEF Advances
<1> HIDE DEF x, posted, old
<1> QED
  BY <1>1, <1>2, <1>3, <1>4, <1>5, <1>6, LiveSound

(* A live record is indexed and has no tombstone.                          *)
LEMMA LiveRecord ==
  ASSUME HInv, NEW r \in Records, Live(r)
  PROVE  /\ TypeOK /\ RecordSound(r) /\ r \in Known /\ row[r] \in Row /\ ~row[r].deleted
         /\ r \in fts /\ r \notin DOMAIN tombstones
BY DEF HInv, IInv, TypeOK, RecordSound, DeletionOf, Live

LEMMA UpdateSound ==
  ASSUME HInv, NEW r \in Records, NEW c \in Contents, NEW o \in Channels,
         NEW keeps \in BOOLEAN, Update(r, c, o, keeps)
  PROVE  HInv'
<1> DEFINE x == [Next1(row[r]) EXCEPT !.content = c, !.availability = "core", !.origin = o,
                   !.source = IF keeps THEN @ ELSE NoSource, !.expired = @ /\ keeps]
<1>1. /\ IInv' /\ Live(r) /\ row[r].version + 1 <= MaxVersion
      /\ Write([p \in {r} |-> x]) /\ Emit(Announced(r, row[r], x)) /\ fts' = fts \cup {r}
      /\ UNCHANGED <<tombstones, mutations, purge_tombstones, source_state, members>>
  BY UpdateInv DEF HInv, Update, Current, Room
<1>2. /\ TypeOK /\ RecordSound(r) /\ r \in Known /\ row[r] \in Row /\ ~row[r].deleted
      /\ r \notin DOMAIN tombstones
  BY <1>1, LiveRecord
<1>3. Next1(row[r]) \in Row /\ Next1(row[r]).version = row[r].version + 1
      /\ ~Next1(row[r]).deleted
  BY <1>1, <1>2, NextRow, NextFields
<1>4. ASSUME NEW z \in Row
      PROVE  LET w == [z EXCEPT !.content = c, !.availability = "core", !.origin = o,
                         !.source = IF keeps THEN @ ELSE NoSource, !.expired = @ /\ keeps]
             IN /\ w \in Row /\ w.version = z.version /\ w.deleted = z.deleted
                /\ w.availability = "core"
  BY DEF Row, Availabilities, Origins
<1>5. /\ x \in Row /\ x.version = row[r].version + 1 /\ ~x.deleted /\ x.availability = "core"
  BY <1>3, <1>4
<1>6. r \in DOMAIN row' /\ row'[r] = x
  BY <1>1 DEF Write, Outranks
<1> HIDE DEF x
<1>7. RelayOf(r)' /\ \A p \in Records \ {r} : SameNews(p)
  BY <1>1, <1>2, <1>5, <1>6, AnnouncedRelay DEF RecordSound
<1>8. Advances(r, x)
  BY <1>2, <1>5 DEF Advances
<1> QED
  BY <1>1, <1>2, <1>5, <1>7, <1>8, LiveSound

LEMMA ReinforceSound ==
  ASSUME HInv, NEW r \in Records, Reinforce(r)
  PROVE  HInv'
<1> DEFINE x == [Next1(row[r]) EXCEPT !.availability = "core"]
<1>1. /\ IInv' /\ Live(r) /\ row[r].version + 1 <= MaxVersion
      /\ Write([p \in {r} |-> x]) /\ Emit(Announced(r, row[r], x))
      /\ UNCHANGED <<fts, tombstones, mutations, purge_tombstones, source_state, members>>
  BY ReinforceInv DEF HInv, Reinforce, Current, Room
<1>2. /\ TypeOK /\ RecordSound(r) /\ r \in Known /\ row[r] \in Row /\ ~row[r].deleted
      /\ r \in fts /\ r \notin DOMAIN tombstones
  BY <1>1, LiveRecord
<1>3. Next1(row[r]) \in Row /\ Next1(row[r]).version = row[r].version + 1
      /\ ~Next1(row[r]).deleted
  BY <1>1, <1>2, NextRow, NextFields
<1>4. /\ x \in Row /\ x.version = row[r].version + 1 /\ ~x.deleted /\ x.availability = "core"
  BY <1>3 DEF Row, Availabilities
<1>5. r \in DOMAIN row' /\ row'[r] = x
  BY <1>1 DEF Write, Outranks
<1> HIDE DEF x
<1>6. RelayOf(r)' /\ \A p \in Records \ {r} : SameNews(p)
  BY <1>1, <1>2, <1>4, <1>5, AnnouncedRelay DEF RecordSound
<1>7. Advances(r, x) /\ fts' = fts \cup {r}
  BY <1>1, <1>2, <1>4 DEF Advances
<1> QED
  BY <1>1, <1>2, <1>4, <1>6, <1>7, LiveSound

(* No event is emitted: what is withdrawn was never the relay's.           *)
LEMMA WithdrawSound ==
  ASSUME HInv, NEW r \in Records, WithdrawRegistered(r)
  PROVE  HInv'
<1> DEFINE x == [Gone(row[r]) EXCEPT !.expired = TRUE]
<1> DEFINE changed == [p \in {r} |-> x]
<1>1. /\ IInv' /\ Live(r) /\ Untouched(r) /\ row[r].version + 1 <= MaxVersion
      /\ Write(changed) /\ fts' = fts \ {r}
      /\ UNCHANGED <<tombstones, mutations, purge_tombstones, source_state, members, outbox>>
  BY WithdrawInv DEF HInv, WithdrawRegistered, Room
<1>2. /\ TypeOK /\ RecordSound(r) /\ r \in Known /\ row[r] \in Row
  BY <1>1, LiveRecord
<1>3. /\ Gone(row[r]) \in Row /\ Gone(row[r]).version = row[r].version + 1
      /\ Gone(row[r]).deleted /\ Gone(row[r]).availability = row[r].availability
      /\ Gone(row[r]).origin = row[r].origin /\ Gone(row[r]).source = row[r].source
  BY <1>1, <1>2, NextRow, NextFields
<1>4. /\ x \in Row /\ x.version = row[r].version + 1 /\ x.deleted /\ x.expired
      /\ x.availability = row[r].availability /\ x.origin = row[r].origin
      /\ x.source = row[r].source
  BY <1>3 DEF Row
<1>5. /\ DOMAIN row' = Known /\ row'[r] = x /\ DOMAIN changed = {r} /\ changed[r] = x
  BY <1>1, <1>2 DEF Write, Outranks, Known
<1> HIDE DEF x, changed
<1>6. Untouched(r)'
  BY <1>1, <1>4, <1>5 DEF Untouched, HasUserEdit, Known
<1>7. DeletionOf(r)' /\ BarrierOf(r)' /\ PrivateOf(r)'
  <2>1. row[r].availability = "core" /\ ~HasUserEdit(r)' /\ r \notin fts'
    BY <1>1, <1>2, <1>6 DEF RecordSound, PrivateOf, Untouched
  <2> QED
    BY <1>4, <1>5, <1>6, <2>1 DEF DeletionOf, BarrierOf, PrivateOf
<1>8. RelayOf(r)'
  <2>1. row[r].availability = "core"
    BY <1>1, <1>2 DEF RecordSound, PrivateOf, Untouched
  <2>2. r \notin Served
    BY <1>2, <2>1 DEF RecordSound, RelayOf
  <2> QED
    BY <1>1, <2>2 DEF RelayOf, Served, Latest
<1>9. Advances(r, x)
  BY <1>2, <1>4 DEF Advances
<1>10. \A p \in Records \ DOMAIN changed :
         (p \in fts' <=> p \in fts) /\ SameTombstone(p) /\ SameNews(p)
  BY <1>1, <1>5 DEF SameTombstone, SameNews
<1> QED
  BY <1>1, <1>4, <1>5, <1>7, <1>8, <1>9, <1>10, ManySound

LEMMA ReviveSound ==
  ASSUME HInv, NEW r \in Records, NEW c \in Contents, ReviveRegistered(r, c)
  PROVE  HInv'
<1> DEFINE x == [Back(row[r]) EXCEPT !.content = c, !.availability = "core",
                   !.supersedes = NoRecord, !.expired = FALSE]
<1>1. /\ IInv' /\ TypeOK /\ RecordSound(r) /\ Untouched(r) /\ row[r].deleted
      /\ r \in Known /\ row[r] \in Row /\ row[r].version + 1 <= MaxVersion
      /\ Write([p \in {r} |-> x]) /\ fts' = fts \cup {r}
      /\ UNCHANGED <<tombstones, mutations, purge_tombstones, source_state, members, outbox>>
  BY ReviveInv DEF HInv, IInv, TypeOK, ReviveRegistered, Untouched, Room
<1>2. Back(row[r]) \in Row /\ Back(row[r]).version = row[r].version + 1
      /\ ~Back(row[r]).deleted
  BY <1>1, NextRow, NextFields
<1>3. x \in Row /\ x.version = row[r].version + 1 /\ ~x.deleted /\ x.availability = "core"
  BY <1>2 DEF Row, Availabilities
<1> HIDE DEF x
<1>4. RelayOf(r)' /\ \A p \in Records \ {r} : SameNews(p)
  <2>1. r \notin Served
    BY <1>1 DEF RecordSound, RelayOf, Live
  <2> QED
    BY <1>1, <2>1 DEF RelayOf, Served, Latest, SameNews
<1>5. Advances(r, x) /\ r \notin DOMAIN tombstones
  BY <1>1, <1>3 DEF Advances, Untouched
<1> QED
  BY <1>1, <1>3, <1>4, <1>5, LiveSound

LEMMA CorrectSound ==
  ASSUME HInv, NEW r \in Records, NEW c \in Contents, NEW t \in Records \cup {NoRecord},
         Correct(r, c, t)
  PROVE  HInv'
<1> DEFINE x == [Next1(row[r]) EXCEPT !.content = c, !.supersedes = t, !.origin = "local_admin"]
<1>1. /\ IInv' /\ Live(r) /\ row[r].version + 1 <= MaxVersion
      /\ Write([p \in {r} |-> x]) /\ Emit(Announced(r, x, x)) /\ fts' = fts \cup {r}
      /\ mutations' = mutations \cup Recorded({r}, "correction", 0)
      /\ UNCHANGED <<tombstones, purge_tombstones, source_state, members>>
  BY CorrectInv DEF HInv, Correct, Room
<1>2. /\ TypeOK /\ RecordSound(r) /\ r \in Known /\ row[r] \in Row /\ ~row[r].deleted
      /\ r \notin DOMAIN tombstones
  BY <1>1, LiveRecord
<1>3. Next1(row[r]) \in Row /\ Next1(row[r]).version = row[r].version + 1
      /\ ~Next1(row[r]).deleted /\ Next1(row[r]).availability = row[r].availability
  BY <1>1, <1>2, NextRow, NextFields
<1>4. /\ x \in Row /\ x.version = row[r].version + 1 /\ ~x.deleted
      /\ x.availability = row[r].availability
  BY <1>3 DEF Row, Origins
<1>5. r \in DOMAIN row' /\ row'[r] = x
  BY <1>1 DEF Write, Outranks
<1> HIDE DEF x
<1>6. RelayOf(r)' /\ \A p \in Records \ {r} : SameNews(p)
  BY <1>1, <1>2, <1>4, <1>5, AnnouncedRelay DEF RecordSound
<1>7. /\ mutations \subseteq mutations' /\ HasUserEdit(r)'
      /\ \A m \in mutations' \ mutations : m[1] = r /\ m[3] = x.version
  <2>1. <<r, "correction", x.version, 0>> \in mutations'
    BY <1>1, <1>4 DEF Recorded
  <2>2. HasUserEdit(r)'
    BY <2>1 DEF HasUserEdit
  <2> QED
    BY <1>1, <1>4, <2>2 DEF Recorded
<1>8. Advances(r, x)
  BY <1>2, <1>4 DEF Advances
<1> QED
  BY <1>1, <1>2, <1>4, <1>6, <1>7, <1>8, LiveSound

LEMMA ChangeAvailabilitySound ==
  ASSUME HInv, NEW r \in Records, NEW a \in Availabilities, ChangeAvailability(r, a)
  PROVE  HInv'
<1> DEFINE x == [Next1(row[r]) EXCEPT !.availability = a]
<1>1. /\ IInv' /\ Live(r) /\ row[r].version + 1 <= MaxVersion
      /\ Write([p \in {r} |-> x]) /\ Emit(Announced(r, row[r], x))
      /\ mutations' = mutations \cup Recorded({r}, "availability_change", 0)
      /\ UNCHANGED <<fts, tombstones, purge_tombstones, source_state, members>>
  BY ChangeAvailabilityInv DEF HInv, ChangeAvailability, Room
<1>2. /\ TypeOK /\ RecordSound(r) /\ r \in Known /\ row[r] \in Row /\ ~row[r].deleted
      /\ r \in fts /\ r \notin DOMAIN tombstones
  BY <1>1, LiveRecord
<1>3. Next1(row[r]) \in Row /\ Next1(row[r]).version = row[r].version + 1
      /\ ~Next1(row[r]).deleted
  BY <1>1, <1>2, NextRow, NextFields
<1>4. x \in Row /\ x.version = row[r].version + 1 /\ ~x.deleted
  BY <1>3 DEF Row
<1>5. r \in DOMAIN row' /\ row'[r] = x
  BY <1>1 DEF Write, Outranks
<1> HIDE DEF x
<1>6. RelayOf(r)' /\ \A p \in Records \ {r} : SameNews(p)
  BY <1>1, <1>2, <1>4, <1>5, AnnouncedRelay DEF RecordSound
<1>7. /\ mutations \subseteq mutations' /\ HasUserEdit(r)'
      /\ \A m \in mutations' \ mutations : m[1] = r /\ m[3] = x.version
  <2>1. <<r, "availability_change", x.version, 0>> \in mutations'
    BY <1>1, <1>4 DEF Recorded
  <2>2. HasUserEdit(r)'
    BY <2>1 DEF HasUserEdit
  <2> QED
    BY <1>1, <1>4, <2>2 DEF Recorded
<1>8. Advances(r, x) /\ fts' = fts \cup {r}
  BY <1>1, <1>2, <1>4 DEF Advances
<1> QED
  BY <1>1, <1>2, <1>4, <1>6, <1>7, <1>8, LiveSound

(* Live records are deleted with an ordinary tombstone.                    *)
LEMMA BurySound ==
  ASSUME HInv, IInv', NEW S \in SUBSET Known, \A r \in S : Live(r) /\ Room(r, 1),
         NEW o, \A r \in S : o[r] = "ordinary",
         Write([r \in S |-> Gone(row[r])]), Bury(S, o),
         mutations \subseteq mutations',
         \A m \in mutations' \ mutations : m[1] \in S /\ m[3] = row[m[1]].version + 1,
         \A m \in members' \ members :
           /\ m[2] \in S /\ m[1] = row[m[2]].source
           /\ m[3] = row[m[2]].version + 1 /\ <<m[2], "source_delete", m[3], 0>> \in mutations',
         UNCHANGED purge_tombstones
  PROVE  HInv'
<1> DEFINE changed == [r \in S |-> Gone(row[r])]
<1>1. /\ TypeOK /\ Known \subseteq Records /\ \A r \in Records : RecordSound(r)
      /\ Write(changed) /\ DOMAIN changed = S /\ \A r \in S : changed[r] = Gone(row[r])
  BY DEF HInv, IInv, TypeOK
<1>2. \A r \in S : /\ changed[r] \in Row /\ changed[r].version = row[r].version + 1
                   /\ changed[r].deleted /\ changed[r].availability = row[r].availability
                   /\ changed[r].origin = row[r].origin /\ changed[r].source = row[r].source
  <2> SUFFICES ASSUME NEW r \in S
               PROVE  /\ Gone(row[r]) \in Row /\ Gone(row[r]).version = row[r].version + 1
                      /\ Gone(row[r]).deleted
                      /\ Gone(row[r]).availability = row[r].availability
                      /\ Gone(row[r]).origin = row[r].origin
                      /\ Gone(row[r]).source = row[r].source
    BY <1>1
  <2>1. row[r] \in Row /\ row[r].version + 1 <= MaxVersion
    BY <1>1 DEF TypeOK, Room
  <2> QED
    BY <2>1, NextRow, NextFields
<1> HIDE DEF changed
<1>3. \A r \in S : r \in DOMAIN row' /\ row'[r] = changed[r]
  BY <1>1 DEF Write, Outranks
<1>4. /\ fts' = fts \ S
      /\ \A r \in S : /\ r \in DOMAIN tombstones'
                      /\ tombstones'[r] = [deleted_version |-> row[r].version + 1,
                                           deletion_origin |-> "ordinary"]
      /\ \A p \in Records \ S : SameTombstone(p)
  BY DEF Bury, Outranks, SameTombstone
<1>5. /\ \A r \in S : outbox'[r] = Append(outbox[r], Opaque("record_deleted"))
      /\ \A p \in Records \ S : SameNews(p)
  BY <1>1 DEF Bury, Emit, SameNews
<1>6. ASSUME NEW r \in S PROVE DeletionOf(r)' /\ BarrierOf(r)' /\ PrivateOf(r)' /\ RelayOf(r)'
  <2>1. DeletionOf(r)' /\ BarrierOf(r)'
    <3> DEFINE t == tombstones'[r]
    <3>1. t = [deleted_version |-> row[r].version + 1, deletion_origin |-> "ordinary"]
      BY <1>4
    <3>2. t.deleted_version = row[r].version + 1 /\ t.deletion_origin = "ordinary"
      BY <3>1
    <3>3. r \in DOMAIN tombstones' /\ row'[r].deleted /\ r \notin fts'
          /\ row'[r].version = row[r].version + 1
      BY <1>2, <1>3, <1>4
    <3> QED
      BY <3>2, <3>3 DEF DeletionOf, BarrierOf
  <2>2. PrivateOf(r)'
    <3>1. PrivateOf(r) /\ r \in Known
      BY <1>1 DEF RecordSound
    <3>2. HasUserEdit(r) => HasUserEdit(r)'
      BY DEF HasUserEdit
    <3> QED
      BY <1>2, <1>3, <3>1, <3>2 DEF PrivateOf
  <2>3. Latest(r)' = Opaque("record_deleted")
    BY <1>1, <1>5, AppendedLatest
  <2> QED
    BY <2>1, <2>2, <2>3 DEF RelayOf, Served, Opaque
<1>7. \A r \in S : Advances(r, changed[r])
  BY <1>2 DEF Advances
<1>8. \A p \in Records \ S : (p \in fts' <=> p \in fts) /\ SameTombstone(p) /\ SameNews(p)
  BY <1>4, <1>5
<1>9. /\ \A m \in mutations' \ mutations : m[1] \in S /\ m[3] = changed[m[1]].version
      /\ \A m \in members' \ members :
           /\ m[2] \in S /\ m[1] = changed[m[2]].source
           /\ m[3] = changed[m[2]].version /\ <<m[2], "source_delete", m[3], 0>> \in mutations'
  BY <1>2
<1> QED
  BY <1>1, <1>2, <1>6, <1>7, <1>8, <1>9, ManySound

LEMMA DeleteSound ==
  ASSUME HInv, NEW r \in Records, NEW users \in BOOLEAN, Delete(r, users)
  PROVE  HInv'
<1> DEFINE o == [p \in {r} |-> "ordinary"]
<1>1. /\ IInv' /\ Live(r) /\ Room(r, 1) /\ {r} \in SUBSET Known
      /\ Write([p \in {r} |-> Gone(row[p])]) /\ Bury({r}, o) /\ o[r] = "ordinary"
      /\ UNCHANGED <<purge_tombstones, source_state, members>>
  <2>1. [p \in {r} |-> Gone(row[p])] = [p \in {r} |-> Gone(row[r])]
    OBVIOUS
  <2> QED
    BY <2>1, DeleteInv DEF HInv, Delete, Live
<1>2. /\ mutations \subseteq mutations'
      /\ \A m \in mutations' \ mutations : m[1] = r /\ m[3] = row[r].version + 1
  BY DEF Delete, Recorded
<1> HIDE DEF o
<1> QED
  BY <1>1, <1>2, BurySound

LEMMA DeleteSourceSound ==
  ASSUME HInv, NEW s \in Sources, DeleteSource(s)
  PROVE  HInv'
<1> DEFINE S == {r \in SourceRecords(s) : Live(r)}
<1> DEFINE o == [r \in S |-> "ordinary"]
<1>1. /\ IInv' /\ S \in SUBSET Known /\ \A r \in S : Live(r) /\ Room(r, 1) /\ row[r].source = s
      /\ \A r \in S : o[r] = "ordinary"
      /\ Write([r \in S |-> Gone(row[r])]) /\ Bury(S, o) /\ UNCHANGED purge_tombstones
      /\ mutations' = mutations \cup Recorded(S, "source_delete", 0)
      /\ members' = members \cup {<<s, r, row[r].version + 1>> : r \in S}
  BY DeleteSourceInv DEF HInv, DeleteSource, SourceRecords
<1> HIDE DEF S, o
<1>2. /\ mutations \subseteq mutations'
      /\ \A m \in mutations' \ mutations : m[1] \in S /\ m[3] = row[m[1]].version + 1
      /\ \A r \in S : <<r, "source_delete", row[r].version + 1, 0>> \in mutations'
  BY <1>1 DEF Recorded
<1>3. \A m \in members' \ members :
        /\ m[2] \in S /\ m[1] = row[m[2]].source
        /\ m[3] = row[m[2]].version + 1 /\ <<m[2], "source_delete", m[3], 0>> \in mutations'
  BY <1>1, <1>2
<1> QED
  BY <1>1, <1>2, <1>3, BurySound

(* Deleted records come back with their last row.                          *)
LEMMA UnburySound ==
  ASSUME HInv, IInv', NEW S \in SUBSET Known, \A r \in S : row[r].deleted /\ Room(r, 1),
         NEW users \in BOOLEAN, Unbury(S, users),
         members' \subseteq members, UNCHANGED purge_tombstones
  PROVE  HInv'
<1> DEFINE changed == [r \in S |-> Back(row[r])]
<1>1. /\ TypeOK /\ Known \subseteq Records /\ \A r \in Records : RecordSound(r)
      /\ Write(changed) /\ DOMAIN changed = S /\ \A r \in S : changed[r] = Back(row[r])
  BY DEF HInv, IInv, TypeOK, Unbury
<1>2. \A r \in S : /\ changed[r] \in Row /\ changed[r].version = row[r].version + 1
                   /\ ~changed[r].deleted /\ changed[r].availability = row[r].availability
                   /\ changed[r].origin = row[r].origin /\ changed[r].content = row[r].content
  <2> SUFFICES ASSUME NEW r \in S
               PROVE  /\ Back(row[r]) \in Row /\ Back(row[r]).version = row[r].version + 1
                      /\ ~Back(row[r]).deleted
                      /\ Back(row[r]).availability = row[r].availability
                      /\ Back(row[r]).origin = row[r].origin
                      /\ Back(row[r]).content = row[r].content
    BY <1>1
  <2>1. row[r] \in Row /\ row[r].version + 1 <= MaxVersion
    BY <1>1 DEF TypeOK, Room
  <2> QED
    BY <2>1, NextRow, NextFields
<1> HIDE DEF changed
<1>3. \A r \in S : r \in DOMAIN row' /\ row'[r] = changed[r]
  BY <1>1 DEF Write, Outranks
<1>4. /\ fts' = fts \cup S /\ \A r \in S : r \notin DOMAIN tombstones'
      /\ \A p \in Records \ S : SameTombstone(p)
  BY DEF Unbury, Without, SameTombstone
<1>5. /\ mutations \subseteq mutations'
      /\ \A m \in mutations' \ mutations : m[1] \in S /\ m[3] = row[m[1]].version + 1
  BY DEF Unbury, Recorded
<1>6. \A p \in Records \ S : SameNews(p)
  BY DEF Unbury, Emit, SameNews
<1>7. ASSUME NEW r \in S PROVE DeletionOf(r)' /\ BarrierOf(r)' /\ PrivateOf(r)' /\ RelayOf(r)'
  <2>1. DeletionOf(r)' /\ BarrierOf(r)'
    BY <1>2, <1>3, <1>4 DEF DeletionOf, BarrierOf
  <2>2. PrivateOf(r)'
    <3>1. PrivateOf(r) /\ r \in Known
      BY <1>1 DEF RecordSound
    <3>2. HasUserEdit(r) => HasUserEdit(r)'
      BY <1>5 DEF HasUserEdit
    <3> QED
      BY <1>2, <1>3, <3>1, <3>2 DEF PrivateOf
  <2>3. CASE row[r].availability = "always"
    <3>1. outbox'[r] = Append(outbox[r], Upsert(row[r]))
      BY <1>1, <2>3 DEF Unbury, Emit
    <3>2. Latest(r)' = Upsert(row[r])
      BY <1>1, <3>1, AppendedLatest
    <3>3. RelayOf(r)'
      BY <1>2, <1>3, <2>3, <3>2 DEF RelayOf, Upsert, Live, Known
    <3> QED
      BY <2>1, <2>2, <3>3
  <2>4. CASE row[r].availability # "always"
    <3>1. outbox'[r] = outbox[r]
      BY <1>1, <2>4 DEF Unbury, Emit
    <3>2. r \notin Served
      BY <1>1, <2>4 DEF RecordSound, RelayOf
    <3>3. RelayOf(r)'
      BY <3>1, <3>2 DEF RelayOf, Served, Latest
    <3> QED
      BY <2>1, <2>2, <3>3
  <2> QED
    BY <2>3, <2>4
<1>8. \A r \in S : Advances(r, changed[r])
  BY <1>2 DEF Advances
<1>9. /\ \A p \in Records \ S : (p \in fts' <=> p \in fts) /\ SameTombstone(p) /\ SameNews(p)
      /\ \A m \in mutations' \ mutations : m[1] \in S /\ m[3] = changed[m[1]].version
      /\ members' \ members = {}
  BY <1>2, <1>4, <1>5, <1>6
<1> QED
  BY <1>1, <1>2, <1>5, <1>7, <1>8, <1>9, ManySound

LEMMA RestoreSourceSound ==
  ASSUME HInv, NEW s \in Sources, NEW users \in BOOLEAN, RestoreSource(s, users)
  PROVE  HInv'
<1>1. /\ IInv' /\ Undone(s) \in SUBSET Known
      /\ \A r \in Undone(s) : row[r].deleted /\ Room(r, 1)
      /\ Unbury(Undone(s), users) /\ members' \subseteq members /\ UNCHANGED purge_tombstones
  BY RestoreSourceInv DEF HInv, RestoreSource, Undone
<1> QED
  BY <1>1, UnburySound

LEMMA RestoreCurrentSound ==
  ASSUME HInv, NEW r \in Records, RestoreCurrent(r)
  PROVE  HInv'
<1>1. /\ IInv' /\ TypeOK /\ RecordSound(r) /\ r \in Known /\ Room(r, 1)
      /\ row[r] \in Row /\ row[r].version + 1 <= MaxVersion
      /\ UNCHANGED <<purge_tombstones, members>>
  BY RestoreCurrentInv DEF HInv, IInv, TypeOK, RestoreCurrent, Room
<1>2. CASE row[r].deleted /\ Unbury({r}, TRUE)
  BY <1>1, <1>2, UnburySound
<1>3. CASE /\ ~row[r].deleted
           /\ Write([p \in {r} |-> Next1(row[r])])
           /\ mutations' = mutations \cup Recorded({r}, "restore", 0)
           /\ UNCHANGED <<fts, tombstones, outbox>>
  <2> DEFINE x == Next1(row[r])
  <2>1. /\ x \in Row /\ x.version = row[r].version + 1 /\ ~x.deleted
        /\ x.availability = row[r].availability /\ x.content = row[r].content
    BY <1>1, <1>3, NextRow, NextFields
  <2>2. Live(r) /\ r \in fts /\ r \notin DOMAIN tombstones
    BY <1>1, <1>3 DEF Live, RecordSound, DeletionOf
  <2>3. Write([p \in {r} |-> x]) /\ r \in DOMAIN row' /\ row'[r] = x
    BY <1>3 DEF Write, Outranks
  <2> HIDE DEF x
  <2>4. RelayOf(r)' /\ \A p \in Records \ {r} : SameNews(p)
    BY <1>1, <1>3, <2>1, <2>3 DEF RecordSound, RelayOf, Served, Latest, Live, Known, SameNews
  <2>5. /\ mutations \subseteq mutations' /\ HasUserEdit(r)'
        /\ \A m \in mutations' \ mutations : m[1] = r /\ m[3] = x.version
    <3>1. <<r, "restore", x.version, 0>> \in mutations'
      BY <1>3, <2>1 DEF Recorded
    <3>2. HasUserEdit(r)'
      BY <3>1 DEF HasUserEdit
    <3> QED
      BY <1>3, <2>1, <3>2 DEF Recorded
  <2>6. Advances(r, x) /\ fts' = fts \cup {r}
    BY <1>1, <1>3, <2>1, <2>2 DEF Advances
  <2> QED
    BY <1>1, <1>3, <2>1, <2>2, <2>3, <2>4, <2>5, <2>6, LiveSound
<1> QED
  BY <1>2, <1>3 DEF RestoreCurrent

LEMMA RestoreVersionSound ==
  ASSUME HInv, NEW r \in Records, NEW v \in Versions, RestoreVersion(r, v)
  PROVE  HInv'
<1>1. /\ IInv' /\ TypeOK /\ RecordSound(r) /\ r \in Known /\ row[r] \in Row
      /\ row[r].version + 1 <= MaxVersion /\ ~AlreadyRestored(r, v)
      /\ fts' = fts \cup {r} /\ tombstones' = Without(tombstones, {r})
      /\ mutations' = mutations \cup Recorded({r}, "restore", v)
      /\ UNCHANGED <<purge_tombstones, source_state, members>>
  BY RestoreVersionInv DEF HInv, IInv, TypeOK, RestoreVersion, Room
<1>2. PICK e \in versions : /\ Write([p \in {r} |-> RestoredRow(r, v, e[2])])
                            /\ Emit(Announced(r, row[r], RestoredRow(r, v, e[2])))
  BY DEF RestoreVersion
<1> DEFINE y == e[2]
<1> DEFINE x == RestoredRow(r, v, y)
<1>3. y \in Row /\ row[r].version + 1 \in Versions
  BY <1>1, <1>2, NextRow DEF TypeOK
<1>4. x \in Row /\ x.version = row[r].version + 1 /\ ~x.deleted
  <2>1. x = [y EXCEPT !.version = row[r].version + 1, !.deleted = FALSE]
    BY <1>1 DEF RestoredRow
  <2>2. ASSUME NEW z \in Row, NEW n \in Versions
        PROVE  LET w == [z EXCEPT !.version = n, !.deleted = FALSE]
               IN w \in Row /\ w.version = n /\ ~w.deleted
    BY DEF Row
  <2> HIDE DEF y, x
  <2> QED
    BY <1>3, <2>1, <2>2
<1>5. Write([p \in {r} |-> x]) /\ Emit(Announced(r, row[r], x))
  BY <1>2
<1> HIDE DEF x
<1>6. r \in DOMAIN row' /\ row'[r] = x
  BY <1>5 DEF Write, Outranks
<1>7. RelayOf(r)' /\ \A p \in Records \ {r} : SameNews(p)
  BY <1>1, <1>4, <1>5, <1>6, AnnouncedRelay DEF RecordSound
<1>8. /\ mutations \subseteq mutations' /\ HasUserEdit(r)'
      /\ \A m \in mutations' \ mutations : m[1] = r /\ m[3] = x.version
  <2>1. <<r, "restore", x.version, v>> \in mutations'
    BY <1>1, <1>4 DEF Recorded
  <2>2. HasUserEdit(r)'
    BY <2>1 DEF HasUserEdit
  <2> QED
    BY <1>1, <1>4, <2>2 DEF Recorded
<1>9. Advances(r, x)
  BY <1>1, <1>4 DEF Advances
<1> QED
  BY <1>1, <1>4, <1>5, <1>7, <1>8, <1>9, LiveSound

(* Records without a user's edit that no capture source owns: neither the  *)
(* barrier nor the privacy of captured records is at stake.                *)
LEMMA UneditedSound ==
  ASSUME NEW r, ~HasUserEdit(r)', row'[r].origin # "registered_source"
  PROVE  BarrierOf(r)' /\ PrivateOf(r)'
BY DEF BarrierOf, PrivateOf

(* A record the rebuild found again gets two versions at once.             *)
LEMMA TwiceAdvancedHistory ==
  ASSUME TypeOK, NEW r \in Known, HistoryOf(r), NEW x \in Row, NEW y \in Row,
         x.version = row[r].version + 1, y.version = row[r].version + 2,
         r \in DOMAIN row', row'[r] = y,
         \A z \in Row : <<r, z>> \in versions' <=> <<r, z>> \in versions \/ z \in {x, y}
  PROVE  HistoryOf(r)'
<1> DEFINE n == row[r].version
<1>1. n \in Nat /\ n + 1 \in Nat /\ (n + 1) + 1 = n + 2
  BY DEF TypeOK, Row, Versions
<1>2. Gapless(Snapshots(r), n)
  BY DEF HistoryOf
<1> HIDE DEF n
<1>3. Gapless(Snapshots(r) \cup {x}, n + 1)
  BY <1>1, <1>2, GaplessNext DEF n
<1>4. Gapless((Snapshots(r) \cup {x}) \cup {y}, (n + 1) + 1)
  BY <1>1, <1>3, GaplessNext DEF n
<1>5. Snapshots(r)' = (Snapshots(r) \cup {x}) \cup {y}
  BY DEF Snapshots
<1>6. Gapless(Snapshots(r), row[r].version)'
  BY <1>1, <1>4, <1>5 DEF Gapless, n
<1> QED
  BY <1>5, <1>6 DEF HistoryOf, Known, Tells

LEMMA RebuildSound ==
  ASSUME HInv, NEW s \in Sources, NEW sound \in SUBSET Automatic(s),
         NEW kept \in SUBSET Automatic(s), NEW added \in SUBSET Records,
         NEW c \in Contents, Rebuild(s, sound, kept, added, c)
  PROVE  HInv'
<1> DEFINE gone == [r \in Automatic(s) |-> Gone(row[r])]
<1> DEFINE again(y) == [Back(y) EXCEPT !.availability = "core", !.supersedes = NoRecord,
                                       !.expired = FALSE]
<1> DEFINE back == [r \in kept |-> again(gone[r])]
<1> DEFINE new == [r \in added |-> NewRow(c, "core", NoRecord, "archive_import", s)]
<1> DEFINE buried == [r \in Automatic(s) \ kept |->
                        [deleted_version |-> gone[r].version,
                         deletion_origin |-> IF r \in sound THEN "source_rebuild" ELSE "ordinary"]]
<1>1. /\ IInv' /\ TypeOK /\ Known \subseteq Records /\ \A r \in Known : row[r] \in Row
      /\ \A r \in Records : RecordSound(r)
  BY RebuildInv DEF HInv, IInv, TypeOK
<1>2. /\ row' = Outranks(new, Outranks(back, Outranks(gone, row)))
      /\ versions' = versions \cup {<<r, gone[r]>> : r \in Automatic(s)}
                       \cup {<<r, back[r]>> : r \in kept} \cup {<<r, new[r]>> : r \in added}
      /\ fts' = (fts \ (Automatic(s) \ kept)) \cup added
      /\ tombstones' = Outranks(buried, tombstones)
      /\ Emit([r \in Automatic(s) |-> Opaque("record_deleted")])
      /\ UNCHANGED <<mutations, purge_tombstones, source_state, members>>
      /\ \A r \in Automatic(s) : Room(r, IF r \in kept THEN 2 ELSE 1)
      /\ "archive_import" \in Channels /\ \A r \in added : Fresh(r)
  BY DEF Rebuild
<1>3. \A r \in Automatic(s) : /\ r \in Known /\ r \notin added /\ ~row[r].deleted
                              /\ row[r].origin = "archive_import" /\ ~HasUserEdit(r)
                              /\ row[r].version \in Nat
  <2>1. \A r \in Known : row[r].version \in Nat
    BY <1>1 DEF Row, Versions
  <2> QED
    BY <1>2, <2>1 DEF Automatic, SourceRecords, Live, Fresh
<1>4. \A r \in Automatic(s) :
        /\ gone[r] \in Row /\ gone[r].version = row[r].version + 1 /\ gone[r].deleted
        /\ gone[r].origin = "archive_import"
  <2> SUFFICES ASSUME NEW r \in Automatic(s)
               PROVE  /\ Gone(row[r]) \in Row /\ Gone(row[r]).version = row[r].version + 1
                      /\ Gone(row[r]).deleted /\ Gone(row[r]).origin = "archive_import"
    OBVIOUS
  <2>1. row[r] \in Row /\ row[r].origin = "archive_import"
    BY <1>1, <1>3
  <2>2. row[r].version + 1 <= MaxVersion
    <3>1. Room(r, 1) \/ Room(r, 2)
      BY <1>2
    <3> QED
      BY <1>3, <3>1, VersionAssumption DEF Room
  <2> QED
    BY <2>1, <2>2, NextRow, NextFields
<1>5. \A r \in kept : /\ back[r] \in Row /\ back[r].version = row[r].version + 2
                      /\ ~back[r].deleted /\ back[r].origin = "archive_import"
  <2>1. \A r \in kept : /\ gone[r] \in Row /\ gone[r].version = row[r].version + 1
                        /\ gone[r].origin = "archive_import"
                        /\ row[r].version \in Nat /\ row[r].version + 2 <= MaxVersion
    BY <1>2, <1>3, <1>4 DEF Room
  <2>2. ASSUME NEW y \in Row
        PROVE  LET z == [y EXCEPT !.availability = "core", !.supersedes = NoRecord,
                                  !.expired = FALSE]
               IN /\ z \in Row /\ z.version = y.version /\ z.deleted = y.deleted
                  /\ z.origin = y.origin
    BY DEF Row, Availabilities
  <2>3. ASSUME NEW y \in Row, y.version + 1 <= MaxVersion
        PROVE  /\ again(y) \in Row /\ again(y).version = y.version + 1 /\ ~again(y).deleted
               /\ again(y).origin = y.origin
    <3>1. /\ Back(y) \in Row /\ Back(y).version = y.version + 1 /\ ~Back(y).deleted
          /\ Back(y).origin = y.origin
      BY <2>3, NextRow, NextFields
    <3> QED
      BY <2>2, <3>1
  <2> SUFFICES ASSUME NEW r \in kept
               PROVE  LET y == gone[r]
                      IN /\ again(y) \in Row /\ again(y).version = row[r].version + 2
                         /\ ~again(y).deleted /\ again(y).origin = "archive_import"
    OBVIOUS
  <2>4. gone[r] \in Row /\ gone[r].version + 1 = row[r].version + 2
        /\ gone[r].version + 1 <= MaxVersion /\ gone[r].origin = "archive_import"
    BY <2>1
  <2> HIDE DEF gone, again
  <2> QED
    BY <2>3, <2>4
<1>6. \A r \in added : /\ new[r] \in Row /\ new[r].version = 1 /\ ~new[r].deleted
                       /\ new[r].origin = "archive_import"
  <2>1. "core" \in Availabilities /\ "archive_import" \in Origins
    BY <1>2 DEF Availabilities, Origins
  <2>2. LET x == NewRow(c, "core", NoRecord, "archive_import", s)
        IN x \in Row /\ x.version = 1 /\ ~x.deleted /\ x.origin = "archive_import"
    BY <2>1, NewRowTyped DEF NewRow
  <2> QED
    BY <2>2
<1>7. /\ DOMAIN gone = Automatic(s) /\ DOMAIN back = kept /\ DOMAIN new = added
      /\ DOMAIN buried = Automatic(s) \ kept
      /\ \A r \in Automatic(s) \ kept : buried[r].deleted_version = gone[r].version
  OBVIOUS
<1> HIDE DEF gone, back, new, buried, again
<1>8. /\ DOMAIN row' = Known \cup added
      /\ \A r \in DOMAIN row' : row'[r] = IF r \in added THEN new[r]
                                        ELSE IF r \in kept THEN back[r]
                                        ELSE IF r \in Automatic(s) THEN gone[r] ELSE row[r]
  BY <1>3, <1>2, <1>7 DEF Outranks, Known
<1>9. /\ \A r \in Automatic(s) : outbox'[r] = Append(outbox[r], Opaque("record_deleted"))
      /\ \A r \in Records \ Automatic(s) : outbox'[r] = outbox[r]
  BY <1>1, <1>3, <1>2 DEF Emit
<1>10. \A r \in Automatic(s) : RelayOf(r)'
  <2> SUFFICES ASSUME NEW r \in Automatic(s) PROVE RelayOf(r)'
    OBVIOUS
  <2>1. Latest(r)' = Opaque("record_deleted")
    BY <1>1, <1>3, <1>9, AppendedLatest
  <2> QED
    BY <2>1 DEF RelayOf, Served, Opaque
<1>11. ASSUME NEW r \in Automatic(s) \ kept PROVE RecordSound(r)'
  <2>1. /\ r \in Known /\ r \in Records /\ RecordSound(r) /\ row'[r] = gone[r] /\ gone[r] \in Row
        /\ r \in DOMAIN row' /\ row[r].version < gone[r].version /\ gone[r].version \in Nat
        /\ gone[r].version = row[r].version + 1
    BY <1>1, <1>3, <1>4, <1>8
  <2>2. \A z \in Row : <<r, z>> \in versions' <=> <<r, z>> \in versions \/ z = gone[r]
    BY <1>2, <1>3
  <2>3. HistoryOf(r)'
    BY <1>1, <2>1, <2>2, AdvancedHistory DEF Advances, RecordSound
  <2>4. DeletionOf(r)'
    <3>1. /\ r \in DOMAIN tombstones' /\ tombstones'[r].deleted_version = gone[r].version
          /\ r \notin fts' /\ gone[r].deleted
      BY <1>2, <1>3, <1>4, <1>7 DEF Outranks
    <3> QED
      BY <2>1, <3>1 DEF DeletionOf
  <2>5. BarrierOf(r)' /\ PrivateOf(r)'
    <3>1. ~HasUserEdit(r)' /\ row'[r].origin # "registered_source"
      BY <1>2, <1>3, <1>4, <2>1 DEF HasUserEdit
    <3> QED
      BY <3>1, UneditedSound
  <2> QED
    BY <1>1, <1>2, <1>10, <2>1, <2>3, <2>4, <2>5, WrittenSound
<1>12. ASSUME NEW r \in kept PROVE RecordSound(r)'
  <2>1. /\ r \in Known /\ r \in Records /\ RecordSound(r) /\ row'[r] = back[r]
        /\ gone[r] \in Row /\ back[r] \in Row
        /\ r \in DOMAIN row' /\ row[r].version < back[r].version /\ back[r].version \in Nat
        /\ gone[r].version = row[r].version + 1 /\ back[r].version = row[r].version + 2
    BY <1>1, <1>3, <1>4, <1>5, <1>8
  <2>2. \A z \in Row : <<r, z>> \in versions' <=> <<r, z>> \in versions \/ z \in {gone[r], back[r]}
    BY <1>2, <1>3
  <2>3. HistoryOf(r)'
    BY <1>1, <2>1, <2>2, TwiceAdvancedHistory DEF RecordSound
  <2>4. DeletionOf(r)'
    <3>1. r \in fts /\ r \notin DOMAIN tombstones
      BY <1>3, <2>1 DEF RecordSound, DeletionOf
    <3>2. r \notin DOMAIN tombstones' /\ r \in fts' /\ ~back[r].deleted
      BY <1>2, <1>5, <1>7, <3>1 DEF Outranks
    <3> QED
      BY <2>1, <3>2 DEF DeletionOf
  <2>5. BarrierOf(r)' /\ PrivateOf(r)'
    <3>1. ~HasUserEdit(r)' /\ row'[r].origin # "registered_source"
      BY <1>2, <1>3, <1>5, <2>1 DEF HasUserEdit
    <3> QED
      BY <3>1, UneditedSound
  <2> QED
    BY <1>1, <1>2, <1>10, <2>1, <2>3, <2>4, <2>5, WrittenSound
<1>13. ASSUME NEW r \in added PROVE RecordSound(r)'
  <2>1. /\ r \in Records /\ Fresh(r) /\ RecordSound(r) /\ row'[r] = new[r] /\ new[r] \in Row
        /\ r \in DOMAIN row' /\ new[r].version = 1 /\ 1 \in Nat /\ r \notin Automatic(s)
    BY <1>1, <1>2, <1>3, <1>6, <1>8
  <2>2. \A z \in Row : <<r, z>> \in versions' <=> <<r, z>> \in versions \/ z = new[r]
    BY <1>2, <2>1
  <2>3. HistoryOf(r)'
    BY <1>1, <2>1, <2>2, AdvancedHistory DEF Advances, RecordSound
  <2>4. DeletionOf(r)'
    <3>1. r \notin DOMAIN tombstones
      BY <1>1, <2>1 DEF TypeOK, Fresh
    <3>2. r \notin DOMAIN tombstones' /\ r \in fts' /\ ~new[r].deleted
      BY <1>2, <1>6, <1>7, <2>1, <3>1 DEF Outranks
    <3> QED
      BY <2>1, <3>2 DEF DeletionOf
  <2>5. BarrierOf(r)' /\ PrivateOf(r)'
    <3>1. \A m \in mutations : m[1] # r
      BY <2>1 DEF RecordSound, LedgerOf, Fresh
    <3>2. ~HasUserEdit(r)' /\ row'[r].origin # "registered_source"
      BY <1>2, <1>6, <2>1, <3>1 DEF HasUserEdit
    <3> QED
      BY <3>2, UneditedSound
  <2>6. RelayOf(r)'
    <3>1. r \notin Served /\ outbox'[r] = outbox[r]
      BY <1>9, <2>1 DEF RecordSound, RelayOf, Live, Fresh
    <3> QED
      BY <3>1 DEF RelayOf, Served, Latest
  <2> QED
    BY <1>1, <1>2, <2>1, <2>3, <2>4, <2>5, <2>6, WrittenSound
<1>14. ASSUME NEW r \in Records, r \notin Automatic(s), r \notin added PROVE RecordSound(r)'
  <2>1. /\ r \in DOMAIN row' <=> r \in Known
        /\ r \in Known => row'[r] = row[r]
    BY <1>8, <1>14
  <2>2. /\ r \in DOMAIN tombstones' <=> r \in DOMAIN tombstones
        /\ r \in DOMAIN tombstones => tombstones'[r] = tombstones[r]
    BY <1>2, <1>7, <1>14 DEF Outranks
  <2>3. /\ \A x \in Row : <<r, x>> \in versions' <=> <<r, x>> \in versions
        /\ r \in fts' <=> r \in fts
        /\ outbox'[r] = outbox[r]
    BY <1>2, <1>9, <1>14
  <2>4. Framed(r)
    BY <1>2, <2>1, <2>2, <2>3 DEF Framed, SameRow, SameTombstone, SameNews
  <2> QED
    BY <1>1, <1>2, <2>4, FrameSound
<1> QED
  BY <1>1, <1>11, <1>12, <1>13, <1>14 DEF HInv

(* What a purge leaves: the records of S are gone for good, the others are *)
(* as they were but for a reference to one of S.                           *)
LEMMA EraseSound ==
  ASSUME HInv, IInv', NEW S \in SUBSET Known, Erase(S),
         purge_tombstones \subseteq purge_tombstones',
         \A r \in Records : r \in purge_tombstones' <=> r \in purge_tombstones \cup S,
         members' \subseteq members, \A m \in members' : m[2] \notin S
  PROVE  HInv'
<1>1. /\ TypeOK /\ Known \subseteq Records /\ \A r \in Known : row[r] \in Row
      /\ \A r \in Records : RecordSound(r)
  BY DEF HInv, IInv, TypeOK
<1>2. /\ DOMAIN row' = Known \ S /\ \A r \in Known \ S : row'[r] = Forgetful(S, row[r])
      /\ versions' = {e \in versions : e[1] \notin S}
      /\ fts' = fts \ S /\ mutations' = mutations
      /\ DOMAIN tombstones' = DOMAIN tombstones \ S
      /\ \A r \in DOMAIN tombstones \ S : tombstones'[r] = tombstones[r]
      /\ \A r \in Records \ S : outbox'[r] = outbox[r]
      /\ \A r \in S : outbox'[r] = Append([i \in DOMAIN outbox[r] |-> Opaque("record_withdrawn")],
                                          Opaque("record_purged"))
  BY <1>1 DEF Erase, Without, Known
<1>3. ASSUME NEW r \in Records \ S PROVE RecordSound(r)'
  <2>1. r \in Known => SameRow(r)
    BY <1>1, <1>2 DEF SameRow, Forgetful
  <2>2. Framed(r)
    BY <1>2, <2>1 DEF Framed, SameTombstone, SameNews
  <2> QED
    BY <1>1, <2>2, FrameSound
<1>4. ASSUME NEW r \in S PROVE RecordSound(r)'
  <2>1. r \notin Known' /\ r \in purge_tombstones' /\ r \in Records
    BY <1>1, <1>2 DEF Known
  <2>2. HistoryOf(r)'
    BY <1>2, <2>1 DEF HistoryOf, Snapshots
  <2>3. DeletionOf(r)' /\ BarrierOf(r)' /\ PrivateOf(r)'
    BY <2>1 DEF DeletionOf, BarrierOf, PrivateOf
  <2>4. LedgerOf(r)' /\ MembersOf(r)'
    BY <2>1 DEF LedgerOf, MembersOf
  <2>5. PurgedOf(r)' /\ RelayOf(r)'
    <3> DEFINE blank == [i \in DOMAIN outbox[r] |-> Opaque("record_withdrawn")]
    <3>1. Opaque("record_withdrawn") \in Event /\ Opaque("record_purged") \in Event
      BY EventTyped DEF EventTypes
    <3>2. Len(outbox[r]) \in Nat /\ DOMAIN outbox[r] = 1 .. Len(outbox[r])
      BY <1>1, <2>1 DEF TypeOK
    <3>3. blank \in Seq(Event) /\ \A i \in DOMAIN blank : blank[i] = Opaque("record_withdrawn")
      BY <3>1, <3>2
    <3>4. outbox'[r] = Append(blank, Opaque("record_purged"))
      BY <1>2
    <3>5. ASSUME NEW e \in Event, NEW f \in Event, NEW b \in Seq(Event),
                 \A i \in DOMAIN b : b[i] = e
          PROVE  LET o == Append(b, f)
                 IN o[Len(o)] = f /\ o # <<>> /\ \A i \in DOMAIN o : o[i] = e \/ o[i] = f
      BY <3>5
    <3> HIDE DEF blank
    <3>6. /\ Latest(r)' = Opaque("record_purged") /\ outbox'[r] # <<>>
          /\ \A i \in DOMAIN outbox'[r] : \/ outbox'[r][i] = Opaque("record_withdrawn")
                                          \/ outbox'[r][i] = Opaque("record_purged")
      BY <3>1, <3>3, <3>4, <3>5 DEF Latest
    <3> QED
      BY <2>1, <3>6 DEF PurgedOf, RelayOf, Served, Opaque
  <2> QED
    BY <2>2, <2>3, <2>4, <2>5 DEF RecordSound
<1> QED
  BY <1>3, <1>4 DEF HInv

LEMMA PurgeRecordSound ==
  ASSUME HInv, NEW r \in Records, NEW with_source \in BOOLEAN, PurgeRecord(r, with_source)
  PROVE  HInv'
<1>1. IInv' /\ {r} \in SUBSET Known /\ Erase({r}) /\ row[r] \in Row
  BY PurgeRecordInv DEF HInv, PurgeRecord, IInv, TypeOK
<1>2. with_source => row[r].source \in Sources
  BY <1>1 DEF PurgeRecord, Row
<1>3. /\ purge_tombstones \subseteq purge_tombstones'
      /\ \A p \in Records : p \in purge_tombstones' <=> p \in purge_tombstones \cup {r}
  BY <1>2, KindAssumption DEF PurgeRecord
<1>4. members' \subseteq members /\ \A m \in members' : m[2] \notin {r}
  BY DEF PurgeRecord
<1> QED
  BY <1>1, <1>3, <1>4, EraseSound

LEMMA PurgeSourceSound ==
  ASSUME HInv, NEW s \in Sources, PurgeSource(s)
  PROVE  HInv'
<1>1. IInv' /\ SourceRecords(s) \in SUBSET Known /\ Erase(SourceRecords(s))
  BY PurgeSourceInv DEF HInv, PurgeSource, SourceRecords
<1>2. /\ purge_tombstones \subseteq purge_tombstones'
      /\ \A p \in Records : p \in purge_tombstones' <=> p \in purge_tombstones \cup SourceRecords(s)
  BY KindAssumption DEF PurgeSource
<1>3. members' \subseteq members /\ \A m \in members' : m[2] \notin SourceRecords(s)
  BY DEF PurgeSource
<1> QED
  BY <1>1, <1>2, <1>3, EraseSound

-----------------------------------------------------------------------------
LEMMA InitSound == Init => HInv
<1> SUFFICES ASSUME Init PROVE HInv
  OBVIOUS
<1>1. IInv /\ Known = {} /\ \A r \in Records : outbox[r] = <<>>
  BY InitInv DEF Init, Nothing, Known
<1>2. ASSUME NEW r \in Records PROVE RecordSound(r)
  <2>1. HistoryOf(r) /\ DeletionOf(r) /\ BarrierOf(r) /\ PrivateOf(r)
    BY <1>1 DEF Init, HistoryOf, Snapshots, DeletionOf, BarrierOf, PrivateOf
  <2>2. RelayOf(r) /\ LedgerOf(r) /\ MembersOf(r) /\ PurgedOf(r)
    BY <1>1 DEF Init, RelayOf, Served, LedgerOf, MembersOf, PurgedOf
  <2> QED
    BY <2>1, <2>2 DEF RecordSound
<1> QED
  BY <1>1, <1>2 DEF HInv

LEMMA StutterSound ==
  ASSUME HInv, UNCHANGED vars
  PROVE  HInv'
<1>1. IInv'
  BY NextInv DEF HInv
<1>2. TypeOK /\ \A r \in Records : RecordSound(r)
  BY DEF HInv, IInv
<1>3. ASSUME NEW r \in Records PROVE RecordSound(r)'
  <2>1. Framed(r) /\ purge_tombstones \subseteq purge_tombstones'
    BY DEF vars, Framed, SameRow, SameTombstone, SameNews, Known
  <2> QED
    BY <1>2, <2>1, FrameSound
<1> QED
  BY <1>1, <1>3 DEF HInv

LEMMA NextSound == HInv /\ [Next]_vars => HInv'
<1> SUFFICES ASSUME HInv, [Next]_vars PROVE HInv'
  OBVIOUS
<1>1. CASE Observe
  BY <1>1, CreateSound, UpdateSound, ReinforceSound, WithdrawSound, ReviveSound DEF Observe
<1>2. CASE Manage
  BY <1>2, ApproveSound, CorrectSound, ChangeAvailabilitySound, DeleteSound,
     RestoreCurrentSound, RestoreVersionSound, PurgeRecordSound DEF Manage
<1>3. CASE ManageSource
  BY <1>3, DeleteSourceSound, RestoreSourceSound, RebuildSound, PurgeSourceSound
     DEF ManageSource
<1>4. CASE UNCHANGED vars
  BY <1>4, StutterSound
<1> QED
  BY <1>1, <1>2, <1>3, <1>4 DEF Next

(* Whatever happens to it, a record stays sound.                           *)
THEOREM Soundness == Spec => []HInv
BY InitSound, NextSound, PTL DEF Spec

(* The versions of a record tell its whole history, the index holds the    *)
(* live records, and every deletion is accounted for by a tombstone of the *)
(* current version or by the withdrawal of a captured record nobody        *)
(* touched: for any number of records, sources and versions.               *)
THEOREM VaultCorrect == Spec => []VaultAccounted
<1>1. HInv => VaultAccounted
  <2> SUFFICES ASSUME HInv PROVE VaultAccounted
    OBVIOUS
  <2>1. TypeOK /\ Known \subseteq Records /\ \A r \in Records : RecordSound(r)
    BY DEF HInv, IInv, TypeOK
  <2>2. ASSUME NEW e \in versions
        PROVE  /\ e[1] \in Known /\ e[2] \in Snapshots(e[1]) /\ e = <<e[1], e[2]>>
               /\ e[2].version <= row[e[1]].version
    <3>1. e[1] \in Records /\ e[2] \in Row /\ e = <<e[1], e[2]>>
      BY <2>1 DEF TypeOK
    <3>2. e[2] \in Snapshots(e[1])
      BY <3>1 DEF Snapshots
    <3>3. e[1] \in Known
      BY <2>1, <3>1, <3>2 DEF RecordSound, HistoryOf
    <3>4. row[e[1]].version \in Nat
      BY <2>1, <3>3 DEF TypeOK, Row, Versions
    <3> QED
      BY <2>1, <3>1, <3>2, <3>3, <3>4 DEF RecordSound, HistoryOf, Gapless
  <2>3. ASSUME NEW e \in versions, NEW f \in versions, e[1] = f[1], e[2].version = f[2].version
        PROVE  e = f
    <3>1. e[2] = f[2]
      BY <2>1, <2>2, <2>3 DEF RecordSound, HistoryOf, Gapless
    <3> QED
      BY <2>2, <2>3, <3>1
  <2>4. ASSUME NEW r \in Known, NEW v \in 1 .. row[r].version
        PROVE  \E e \in versions :
                 /\ e[1] = r /\ e[2].version = v
                 /\ v = row[r].version => Tells(e[2], row[r])
    <3>1. \E x \in Snapshots(r) : x.version = v /\ (v = row[r].version => Tells(x, row[r]))
      BY <2>1 DEF RecordSound, HistoryOf, Gapless
    <3>2. PICK x \in Snapshots(r) : x.version = v /\ (v = row[r].version => Tells(x, row[r]))
      BY <3>1
    <3>3. <<r, x>> \in versions
      BY DEF Snapshots
    <3> QED
      BY <3>2, <3>3
  <2>5. HistoryComplete
    BY <2>2, <2>3, <2>4 DEF HistoryComplete, Tells
  <2>6. DeletionAccounted
    BY <2>1 DEF DeletionAccounted, RecordSound, DeletionOf, Live, TypeOK
  <2> QED
    BY <2>5, <2>6 DEF VaultAccounted
<1> QED
  BY <1>1, Soundness, PTL

(* Automation never leaves a record a user worked on deleted in a way the  *)
(* user's restore does not undo.                                           *)
THEOREM BarrierCorrect == Spec => []UserBarrier
<1>1. HInv => UserBarrier
  BY DEF HInv, IInv, TypeOK, UserBarrier, RecordSound, BarrierOf
<1> QED
  BY <1>1, Soundness, PTL

(* What the relay serves after the events so far is live, replicated and   *)
(* current, although the withdrawal of a captured record emits no event.   *)
THEOREM RelayCorrect == Spec => []RelayCurrent
<1>1. HInv => RelayCurrent
  BY DEF HInv, RelayCurrent, RecordSound, RelayOf, Served
<1> QED
  BY <1>1, Soundness, PTL

(* A purge is final: nothing of the record is left in any table, and no    *)
(* later operation brings its id, its content or a link to it back.        *)
THEOREM PurgeCorrect == Spec => []PurgeFinal
<1>1. HInv => PurgeFinal
  <2> SUFFICES ASSUME HInv, NEW r \in Records \cap purge_tombstones
               PROVE  /\ r \notin Known \cup fts
                      /\ \A e \in versions : e[1] # r
                      /\ \A n \in Known : row[n].supersedes # r
                      /\ Latest(r).type = "record_purged"
                      /\ \A i \in DOMAIN outbox[r] : outbox[r][i].content = NoContent
    BY DEF PurgeFinal
  <2>1. TypeOK /\ SupersessionSound /\ RecordSound(r)
    BY DEF HInv, IInv
  <2>2. r \notin Known /\ r # NoRecord
    BY <2>1, NullAssumption DEF RecordSound, PurgedOf
  <2>3. \A e \in versions : e[1] # r
    <3>1. \A e \in versions : e = <<e[1], e[2]>> /\ e[2] \in Row
      BY <2>1 DEF TypeOK
    <3>2. Snapshots(r) = {}
      BY <2>1, <2>2 DEF RecordSound, HistoryOf
    <3> QED
      BY <3>1, <3>2 DEF Snapshots
  <2>4. r \notin fts /\ \A n \in Known : row[n].supersedes # r
    BY <2>1, <2>2 DEF TypeOK, SupersessionSound
  <2> QED
    BY <2>1, <2>2, <2>3, <2>4 DEF RecordSound, PurgedOf
<1> QED
  BY <1>1, Soundness, PTL

-----------------------------------------------------------------------------
(* The restore of a source.                                                *)

(* What comes back with its source was its source's when it was deleted,   *)
(* and by the deletion of the source.                                      *)
LEMMA UndoneOwned ==
  ASSUME HInv, NEW s \in Sources, NEW r \in Undone(s)
  PROVE  /\ r \in Known /\ row[r].deleted /\ row[r].source = s
         /\ <<r, "source_delete", row[r].version, 0>> \in mutations
<1>1. /\ r \in Known /\ r \in Records /\ row[r].deleted /\ r \in DOMAIN tombstones
      /\ <<s, r, tombstones[r].deleted_version>> \in members
  BY DEF Undone, HInv, IInv, TypeOK
<1>2. DeletionOf(r) /\ MembersOf(r)
  BY <1>1 DEF HInv, RecordSound
<1>3. tombstones[r].deleted_version = row[r].version
  BY <1>1, <1>2 DEF DeletionOf, Untouched
<1>4. <<s, r, row[r].version>> \in members
  BY <1>1, <1>3
<1> QED
  BY <1>1, <1>2, <1>4 DEF MembersOf

(* A step that takes a source from deleted to live is its restore.         *)
LEMMA SourceRevival ==
  ASSUME Next, NEW s \in Sources, source_state[s] = "deleted", source_state'[s] = "live",
         source_state \in [Sources -> {"live", "deleted", "purged"}]
  PROVE  \E users \in BOOLEAN : RestoreSource(s, users)
<1>1. CASE Observe
  <2>1. ASSUME NEW r, NEW c, NEW o, NEW p, Create(r, c, o, p) \/ Update(r, c, o, p)
        PROVE  FALSE
    BY <2>1 DEF Create, Update
  <2>2. ASSUME NEW r, NEW c,
               Reinforce(r) \/ WithdrawRegistered(r) \/ ReviveRegistered(r, c)
        PROVE  FALSE
    BY <2>2 DEF Reinforce, WithdrawRegistered, ReviveRegistered
  <2> QED
    BY <1>1, <2>1, <2>2 DEF Observe
<1>2. CASE Manage
  <2>1. ASSUME NEW r, NEW with_source, PurgeRecord(r, with_source) PROVE FALSE
    BY <2>1 DEF PurgeRecord
  <2>2. ASSUME NEW r, NEW c, NEW a, NEW t, NEW p, Approve(r, c, a, t, p) \/ Correct(r, c, t)
        PROVE  FALSE
    BY <2>2 DEF Approve, Correct
  <2>3. ASSUME NEW r, NEW a, NEW v,
               \/ ChangeAvailability(r, a) \/ Delete(r, v)
               \/ RestoreCurrent(r) \/ RestoreVersion(r, v)
        PROVE  FALSE
    BY <2>3 DEF ChangeAvailability, Delete, RestoreCurrent, RestoreVersion
  <2> QED
    BY <1>2, <2>1, <2>2, <2>3 DEF Manage
<1>3. CASE ManageSource
  <2>1. ASSUME NEW t \in Sources, DeleteSource(t) \/ PurgeSource(t) PROVE FALSE
    <3>1. source_state'[s] \in {source_state[s], "deleted", "purged"}
      BY <2>1 DEF DeleteSource, PurgeSource
    <3> QED
      BY <3>1
  <2>2. ASSUME NEW t \in Sources, NEW users \in BOOLEAN, RestoreSource(t, users) PROVE t = s
    BY <2>2 DEF RestoreSource
  <2>3. ASSUME NEW t \in Sources, NEW sound, NEW kept, NEW added, NEW c,
               Rebuild(t, sound, kept, added, c)
        PROVE  FALSE
    BY <2>3 DEF Rebuild
  <2> QED
    BY <1>3, <2>1, <2>2, <2>3 DEF ManageSource
<1> QED
  BY <1>1, <1>2, <1>3 DEF Next

(* Restoring a source brings back no record but those whose last deletion  *)
(* was the source's own.                                                   *)
THEOREM SourceUndoCorrect == Spec => SourceUndoExact
<1>1. HInv /\ [Next]_vars =>
        [\A s \in Sources : source_state[s] = "deleted" /\ source_state'[s] = "live" =>
           \A r \in Known : row'[r] # row[r] =>
             /\ <<r, "source_delete", row[r].version, 0>> \in mutations
             /\ row'[r].deleted = FALSE]_vars
  <2> SUFFICES ASSUME HInv, Next, NEW s \in Sources,
                      source_state[s] = "deleted", source_state'[s] = "live",
                      NEW r \in Known, row'[r] # row[r]
               PROVE  /\ <<r, "source_delete", row[r].version, 0>> \in mutations
                      /\ row'[r].deleted = FALSE
    OBVIOUS
  <2>1. TypeOK
    BY DEF HInv, IInv
  <2>2. PICK users \in BOOLEAN : RestoreSource(s, users)
    BY <2>1, SourceRevival DEF TypeOK
  <2>3. Write([p \in Undone(s) |-> Back(row[p])])
    BY <2>2 DEF RestoreSource, Unbury
  <2>4. r \in Undone(s) /\ row'[r] = Back(row[r])
    BY <2>3 DEF Write, Outranks, Known
  <2>5. row'[r].deleted = FALSE
    <3>1. row[r] \in Row
      BY <2>1 DEF TypeOK
    <3>2. Back(row[r]).deleted = FALSE
      BY <3>1 DEF Row, Back, Next1
    <3> QED
      BY <2>4, <3>2
  <2> QED
    BY <2>4, <2>5, UndoneOwned
<1> QED
  BY <1>1, Soundness, PTL DEF Spec, SourceUndoExact

(* A purge leaves the other records deleted as they were.                  *)
LEMMA ErasedRow ==
  ASSUME TypeOK, NEW S, Erase(S), NEW r \in Known, r \in DOMAIN row'
  PROVE  row'[r].deleted = row[r].deleted
<1>1. row[r] \in Row /\ row'[r] = Forgetful(S, row[r])
  BY DEF TypeOK, Erase
<1> QED
  BY <1>1, BlankedRow DEF Forgetful

(* The user's restores are new entries of the ledger: none of the same     *)
(* version was there.                                                      *)
LEMMA RestoreRecorded ==
  ASSUME HInv, NEW r \in Known, NEW v, <<r, "restore", row[r].version + 1, v>> \in mutations'
  PROVE  \E m \in mutations' \ mutations : m[1] = r /\ m[2] = "restore"
<1> DEFINE m == <<r, "restore", row[r].version + 1, v>>
<1>1. TypeOK /\ r \in Records /\ LedgerOf(r)
  BY DEF HInv, IInv, TypeOK, RecordSound
<1>2. row[r].version \in Nat
  BY <1>1 DEF TypeOK, Row, Versions
<1>3. m \notin mutations
  <2>1. m \in mutations => m[3] <= row[r].version
    BY <1>1 DEF LedgerOf
  <2> QED
    BY <1>2, <2>1
<1> QED
  BY <1>3

(* What a user deleted stays deleted until a user restores it, alone or    *)
(* with its source: no observation, capture source, rebuild or duplicate   *)
(* import revives it.                                                      *)
THEOREM DeletionCorrect == Spec => DeletionStands
<1>1. HInv /\ [Next]_vars =>
        [\A r \in Known :
           /\ row[r].deleted /\ r \in DOMAIN tombstones
           /\ tombstones[r].deletion_origin = "ordinary"
           /\ r \in DOMAIN row' /\ ~row'[r].deleted
           => \/ \E m \in mutations' \ mutations : m[1] = r /\ m[2] = "restore"
              \/ \E s \in Sources : /\ row[r].source = s
                                    /\ source_state[s] = "deleted" /\ source_state'[s] = "live"]_vars
  <2> DEFINE Explained(r) ==
        \/ \E m \in mutations' \ mutations : m[1] = r /\ m[2] = "restore"
        \/ \E s \in Sources : /\ row[r].source = s
                              /\ source_state[s] = "deleted" /\ source_state'[s] = "live"
  <2> SUFFICES ASSUME HInv, Next, NEW r \in Known, row[r].deleted, r \in DOMAIN tombstones,
                      r \in DOMAIN row', ~row'[r].deleted
               PROVE  Explained(r)
    OBVIOUS
  <2>0. row'[r] # row[r] /\ ~Live(r) /\ ~Fresh(r) /\ ~Untouched(r) /\ TypeOK /\ row[r] \in Row
    BY DEF Live, Fresh, Untouched, HInv, IInv, TypeOK
  <2> HIDE DEF Explained
  <2>1. CASE Observe
    <3> SUFFICES ASSUME NEW q \in Records, NEW c \in Contents,
                        \/ \E o \in Channels, s \in Sources \cup {NoSource} : Create(q, c, o, s)
                        \/ \E o \in Channels, keeps \in BOOLEAN : Update(q, c, o, keeps)
                        \/ Reinforce(q)
                        \/ WithdrawRegistered(q)
                        \/ ReviveRegistered(q, c)
                 PROVE  FALSE
      BY <2>1 DEF Observe
    <3>1. q # r
      BY <2>0 DEF Create, Update, Reinforce, WithdrawRegistered, ReviveRegistered, Current
    <3>2. \E x : Write([p \in {q} |-> x])
      BY DEF Create, Update, Reinforce, WithdrawRegistered, ReviveRegistered
    <3> QED
      BY <2>0, <3>1, <3>2 DEF Write, Outranks, Known
  <2>2. CASE Manage
    <3> SUFFICES ASSUME NEW q \in Records,
                        \/ \E c \in Contents, a \in Availabilities, t \in Records \cup {NoRecord},
                              s \in Sources \cup {NoSource} : Approve(q, c, a, t, s)
                        \/ \E c \in Contents, t \in Records \cup {NoRecord} : Correct(q, c, t)
                        \/ \E a \in Availabilities : ChangeAvailability(q, a)
                        \/ \E users \in BOOLEAN : Delete(q, users)
                        \/ RestoreCurrent(q)
                        \/ \E v \in Versions : RestoreVersion(q, v)
                        \/ \E with_source \in BOOLEAN : PurgeRecord(q, with_source)
                 PROVE  Explained(r)
      BY <2>2 DEF Manage
    <3>1. ASSUME NEW x, Write([p \in {q} |-> x]) PROVE q = r
      BY <2>0, <3>1 DEF Write, Outranks, Known
    <3>2. CASE \/ \E c \in Contents, a \in Availabilities, t \in Records \cup {NoRecord},
                     s \in Sources \cup {NoSource} : Approve(q, c, a, t, s)
               \/ \E c \in Contents, t \in Records \cup {NoRecord} : Correct(q, c, t)
               \/ \E a \in Availabilities : ChangeAvailability(q, a)
               \/ \E users \in BOOLEAN : Delete(q, users)
      <4>1. q # r
        BY <2>0, <3>2 DEF Approve, Correct, ChangeAvailability, Delete
      <4>2. \E x : Write([p \in {q} |-> x])
        BY <3>2 DEF Approve, Correct, ChangeAvailability, Delete
      <4> QED
        BY <3>1, <4>1, <4>2
    <3>3. CASE RestoreCurrent(q)
      <4>1. Unbury({q}, TRUE) \/ \E x : Write([p \in {q} |-> x])
        BY <3>3 DEF RestoreCurrent
      <4>2. q = r
        <5>1. Unbury({q}, TRUE) => Write([p \in {q} |-> Back(row[p])])
          BY DEF Unbury
        <5>2. [p \in {q} |-> Back(row[p])] = [p \in {q} |-> Back(row[q])]
          OBVIOUS
        <5> QED
          BY <3>1, <4>1, <5>1, <5>2
      <4>3. <<r, "restore", row[r].version + 1, 0>> \in mutations'
        BY <3>3, <4>2 DEF RestoreCurrent, Unbury, Recorded
      <4> QED
        BY <4>3, RestoreRecorded DEF Explained
    <3>4. ASSUME NEW v \in Versions, RestoreVersion(q, v) PROVE Explained(r)
      <4>1. \E x : Write([p \in {q} |-> x])
        BY <3>4 DEF RestoreVersion
      <4>2. q = r
        BY <3>1, <4>1
      <4>3. <<r, "restore", row[r].version + 1, v>> \in mutations'
        BY <3>4, <4>2 DEF RestoreVersion, Recorded
      <4> QED
        BY <4>3, RestoreRecorded DEF Explained
    <3>5. ASSUME NEW with_source \in BOOLEAN, PurgeRecord(q, with_source) PROVE FALSE
      <4>1. Erase({q})
        BY <3>5 DEF PurgeRecord
      <4> QED
        BY <2>0, <4>1, ErasedRow
    <3> QED
      BY <3>2, <3>3, <3>4, <3>5
  <2>3. ASSUME NEW s \in Sources, DeleteSource(s) PROVE FALSE
    <3>1. Write([p \in {q \in SourceRecords(s) : Live(q)} |-> Gone(row[p])])
      BY <2>3 DEF DeleteSource
    <3> QED
      BY <2>0, <3>1 DEF Write, Outranks, Known
  <2>4. ASSUME NEW s \in Sources, NEW users \in BOOLEAN, RestoreSource(s, users)
        PROVE  Explained(r)
    <3>1. Write([p \in Undone(s) |-> Back(row[p])])
      BY <2>4 DEF RestoreSource, Unbury
    <3>2. r \in Undone(s)
      BY <2>0, <3>1 DEF Write, Outranks, Known
    <3>3. row[r].source = s
      BY <3>2, UndoneOwned
    <3>4. source_state[s] = "deleted" /\ source_state'[s] = "live"
      BY <2>0, <2>4 DEF RestoreSource, TypeOK
    <3> QED
      BY <3>3, <3>4 DEF Explained
  <2>5. ASSUME NEW s \in Sources, NEW sound \in SUBSET Automatic(s),
               NEW kept \in SUBSET Automatic(s), NEW added \in SUBSET Records,
               NEW c \in Contents, Rebuild(s, sound, kept, added, c)
        PROVE  FALSE
    <3>1. r \notin Automatic(s) /\ r \notin added
      BY <2>0, <2>5 DEF Automatic, Rebuild
    <3>2. row'[r] = row[r]
      BY <2>5, <3>1 DEF Rebuild, Outranks, Known
    <3> QED
      BY <2>0, <3>2
  <2>6. ASSUME NEW s \in Sources, PurgeSource(s) PROVE FALSE
    <3>1. Erase(SourceRecords(s))
      BY <2>6 DEF PurgeSource
    <3> QED
      BY <2>0, <3>1, ErasedRow
  <2> QED
    BY <2>1, <2>2, <2>3, <2>4, <2>5, <2>6 DEF Next, ManageSource
<1> QED
  BY <1>1, Soundness, PTL DEF Spec, DeletionStands
=============================================================================
