--------------------------- MODULE SourceRebuild ---------------------------
(***************************************************************************)
(* Reprocessing of one archive source: the retry of a failed import, the   *)
(* repair of an incomplete one and the rebuild of a complete one, by       *)
(* threads that may do so at once, while the user edits the records, a     *)
(* cancellation or an import operation's clean-up writes the source's      *)
(* status, and the process restarts, perhaps with a newer parser.  Every   *)
(* action is one transaction of CoreStore, or the thread's work up to its  *)
(* next transaction.  A cancelled source is treated as a failed one.  The  *)
(* threads are those without an import operation: their trackers write the *)
(* source's status, where those of an operation write the operation's row. *)
(***************************************************************************)
EXTENDS ArchivePolicy
LOCAL INSTANCE SequencesExt
LOCAL INSTANCE FiniteSetsExt

CONSTANTS Workers,
          Parsed,        \* what parser p finds in the archive: Parsed[p]
          Covered,       \* the parsers whose coverage is complete
          FirstParser,   \* the one that the Core runs first
          MaxRebuilds,   \* bound: rebuilds that the user asks for
          MaxMishaps     \* bound: edits and failures; a stray write counts as two

Parsers == DOMAIN Parsed

ASSUME RebuildAssumption ==
  /\ Parsers \subseteq Nat /\ FirstParser \in Parsers /\ Covered \subseteq Parsers
  /\ \A p \in Parsers : Parsed[p] \in Seq(Items)
  /\ MaxRebuilds \in Nat /\ MaxMishaps \in Nat

VARIABLES source,    \* source_records: the status and the rebuild fields of its metadata
          finished,  \* ingestion_sessions that are finished, <<parser, generation>>
          decided,   \* those whose observations are no longer staged
          parser,    \* PARSER_VERSION of the running Core
          worker,    \* the threads inside _reprocess_source
          cleanup,   \* a thread between the read and the write of a source's status
          overrun,   \* history: a write without a fence changed the rebuild fields
          spent      \* how much of the bounds is used

vars == <<rows, barred, edits, source, finished, decided, parser, worker, cleanup, overrun, spent>>
policy == <<rows, barred, edits>>
sessions == <<finished, decided>>

(* generation 0 is that of an ordinary import; marker and published are 0  *)
(* where the field is missing.                                             *)
Plain(status, covered) ==
  [status |-> status, covered |-> covered, generation |-> 0, rebuilding |-> FALSE,
   marker |-> 0, published |-> 0, session |-> NoSession]

Idle == [pc |-> "idle", generation |-> 0, seen |-> Plain("none", FALSE)]

(* No mishap follows an overrun.                                           *)
Room(n) == ~overrun /\ edits + spent.mishaps + n <= MaxMishaps

AtStep(w, pc) == worker[w].pc = pc
Session(w) == <<parser, worker[w].generation>>
Goto(w, pc) == worker' = [worker EXCEPT ![w].pc = pc, ![w].seen = Idle.seen]
Hold(w, pc) == worker' = [worker EXCEPT ![w].pc = pc, ![w].seen = source']
End(w) == worker' = [worker EXCEPT ![w] = Idle]

(* An ordinary tracker is still to be closed.                              *)
Finish(w) == IF worker[w].generation = 0 THEN Goto(w, "close") ELSE End(w)

-----------------------------------------------------------------------------
(* update_source_import.                                                   *)

Bound(c, g) == c.published = g /\ c.session # NoSession /\ c.marker # 0
Same(c, r) == c.published = r.published /\ c.session = r.session /\ c.marker = r.marker

(* The write r of generation g is refused by the row c.                    *)
Refused(c, r, g, resume) ==
  \/ r.generation # g \/ c.generation > g
  \/ c.generation = g /\ c.status \in {"complete", "failed"}
       /\ ~(resume /\ r.status = "processing" /\ c.rebuilding /\ Bound(c, g))
  \/ c.generation < g /\ ~(r.status = "processing" /\ r.rebuilding)
  \/ r.status = "complete" /\ ~(Bound(c, g) /\ Same(c, r))
  \/ Bound(c, g) /\ r.status = "processing" /\ ~(resume /\ c.rebuilding)

Merged(c, r, g) ==
  IF Bound(c, g) /\ r.status # "complete"
  THEN [r EXCEPT !.marker = c.marker, !.published = c.published, !.session = c.session]
  ELSE r

Fields(s) == <<s.generation, s.rebuilding, s.marker, s.published, s.session>>
Fence(g) == overrun' = (overrun \/ (g = 0 /\ Fields(source') # Fields(source)))

(* A writer without a generation is not fenced.                            *)
Write(r, g, resume) ==
  /\ source' = IF g = 0 THEN r
               ELSE IF Refused(source, r, g, resume) THEN source ELSE Merged(source, r, g)
  /\ Fence(g)

-----------------------------------------------------------------------------
(* What a request to reprocess makes of the source it read.                *)

Forced(s, rebuild) == rebuild \/ (s.status = "complete" /\ ~s.covered)
PublishedNow(s) == s.rebuilding /\ s.published # 0 /\ s.published = s.generation

(* Mutant: the generation that ended is opened again.                      *)
SameGeneration(s) == IF s.generation = 0 THEN 1 ELSE s.generation

NextGeneration(s) == s.generation + 1

(* A complete source to rebuild, or a rebuild that ended without success.  *)
StartsGeneration(s, rebuild) ==
  /\ ~PublishedNow(s)
  /\ \/ s.status = "complete" /\ (Forced(s, rebuild) \/ s.rebuilding)
     \/ s.status = "failed" /\ s.rebuilding

(* A rebuild that another thread has begun.                                *)
Joins(s) == s.rebuilding /\ s.status = "processing" /\ ~PublishedNow(s)

(* An ordinary import that has not succeeded.                              *)
Retries(s) == ~s.rebuilding /\ s.status # "complete"

(* A rebuild that was published and not completed is completed.  Asking    *)
(* for the rebuild of a source that is not complete is a retry, or refused.*)
Ask(w, rebuild) ==
  /\ AtStep(w, "idle")
  /\ rebuild => source.status = "complete" /\ spent.rebuilds < MaxRebuilds
  /\ spent' = [spent EXCEPT !.rebuilds = @ + (IF rebuild THEN 1 ELSE 0)]
  /\ LET turn(pc, g, s) ==
           worker' = [worker EXCEPT ![w] = [pc |-> pc, generation |-> g, seen |-> s]]
     IN \/ StartsGeneration(source, rebuild) /\ turn("claim", NextGeneration(source), source)
        \/ PublishedNow(source) /\ turn("claim", source.generation, source)
        \/ Joins(source) /\ turn("parse", source.generation, Idle.seen)
        \/ Retries(source) /\ turn("parse", 0, Idle.seen)
  /\ UNCHANGED <<policy, source, sessions, parser, cleanup, overrun>>

Claim(w) ==
  /\ AtStep(w, "claim")
  /\ LET g == worker[w].generation
         s == worker[w].seen
         r == [s EXCEPT !.status = "processing", !.generation = g, !.rebuilding = TRUE,
                        !.marker = IF PublishedNow(s) THEN @ ELSE g]
     IN Write(r, g, PublishedNow(s))
  /\ Goto(w, "reload")
  /\ UNCHANGED <<policy, sessions, parser, cleanup, spent>>

(* The source is read again and, if it is complete now, left alone.  Else  *)
(* the preserved bytes are parsed, while an ordinary tracker shows it as   *)
(* processing, and reclassify_source returns the row.                      *)
Parse(w) ==
  /\ worker[w].pc \in {"reload", "parse"}
  /\ IF AtStep(w, "reload") /\ source.status = "complete" THEN End(w) /\ UNCHANGED source
     ELSE /\ source' = IF worker[w].generation = 0 THEN [source EXCEPT !.status = "processing"]
                       ELSE source
          /\ Hold(w, "record")
  /\ UNCHANGED <<policy, sessions, parser, cleanup, overrun, spent>>

Record(w) ==
  /\ AtStep(w, "record")
  /\ LET g == worker[w].generation
         s == worker[w].seen
         r == Plain("processing", parser \in Covered)
     IN Write(IF g = 0 THEN r
                          ELSE [r EXCEPT !.generation = g, !.rebuilding = TRUE,
                                  !.marker = s.marker, !.published = s.published,
                                  !.session = s.session], g, FALSE)
  /\ Goto(w, "reread")
  /\ UNCHANGED <<policy, sessions, parser, cleanup, spent>>

(* The session is begun, filled and finished; the keys make all three      *)
(* idempotent, and nothing reads that of a rebuild before its publication. *)
Reread(w) ==
  /\ AtStep(w, "reread")
  /\ CASE source.status = "complete"  -> Finish(w) /\ UNCHANGED finished
       [] worker[w].generation = 0 /\ source.status # "complete" ->
            Goto(w, "ingest") /\ UNCHANGED finished
       [] OTHER -> Goto(w, "publish") /\ finished' = finished \cup {Session(w)}
  /\ UNCHANGED <<policy, source, decided, parser, cleanup, overrun, spent>>

Staged(s) == IF s \in decided THEN <<>> ELSE Parsed[s[1]]

(* The finish of an ordinary session evaluates its observations.           *)
Ingest(w) ==
  /\ AtStep(w, "ingest")
  /\ LET s == Session(w)
     IN /\ rows' = EvaluateAll(rows, Staged(s), s)
        /\ finished' = finished \cup {s} /\ decided' = decided \cup {s}
  /\ Goto(w, "complete")
  /\ UNCHANGED <<barred, edits, source, parser, cleanup, overrun, spent>>

-----------------------------------------------------------------------------
(* publish_source_rebuild.                                                 *)

Marked(g) == source.generation = g /\ source.marker = g /\ parser \in Covered

Publishable(g) ==
  /\ source.published < g /\ (source.published = 0 => source.session = NoSession)
  /\ source.status = "processing" /\ source.rebuilding /\ Marked(g)

PublishedBy(w) ==
  source.published = worker[w].generation /\ source.session = Session(w)
    /\ Marked(worker[w].generation)

Publish(w) ==
  /\ AtStep(w, "publish")
  /\ LET g == worker[w].generation
         s == Session(w)
     IN IF Publishable(g)
        THEN /\ rows' = EvaluateAll(Withdrawn(rows, s), Staged(s), s)
             /\ decided' = decided \cup {s}
             /\ source' = [source EXCEPT !.published = g, !.session = s]
             /\ Goto(w, "complete")
        ELSE /\ Goto(w, IF PublishedBy(w) THEN "complete" ELSE "fail")
             /\ UNCHANGED <<rows, decided, source>>
  /\ UNCHANGED <<barred, edits, finished, parser, cleanup, overrun, spent>>

Complete(w) ==
  /\ AtStep(w, "complete")
  /\ LET g == worker[w].generation
         r == Plain("complete", parser \in Covered)
     IN Write(IF g = 0 THEN r
                          ELSE [r EXCEPT !.generation = g, !.marker = g, !.published = g,
                                         !.session = Session(w)], g, FALSE)
  /\ Finish(w)
  /\ UNCHANGED <<policy, sessions, parser, cleanup, spent>>

(* tracker.close *)
Close(w) ==
  /\ AtStep(w, "close") /\ End(w)
  /\ UNCHANGED <<policy, source, sessions, parser, cleanup, overrun, spent>>

-----------------------------------------------------------------------------
(* Failure, cancellation and restart.                                      *)

Fault(w) ==
  /\ worker[w].pc \in {"record", "ingest", "publish"} /\ Room(1)
  /\ Goto(w, "fail") /\ spent' = [spent EXCEPT !.mishaps = @ + 1]
  /\ UNCHANGED <<policy, source, sessions, parser, cleanup, overrun>>

(* _mark_failed and _mark_cancelled read the source and then write it; an  *)
(* ordinary tracker has told the outcome before.                           *)
ReadFailed(w) ==
  /\ AtStep(w, "fail")
  /\ source' = IF worker[w].generation = 0 THEN [source EXCEPT !.status = "failed"]
               ELSE source
  /\ Hold(w, "mark")
  /\ UNCHANGED <<policy, sessions, parser, cleanup, overrun, spent>>

Terminal(s) == [s EXCEPT !.status = "failed", !.covered = FALSE]

MarkFailed(w) ==
  /\ AtStep(w, "mark")
  /\ Write(Terminal(worker[w].seen), worker[w].generation, FALSE)
  /\ End(w)
  /\ UNCHANGED <<policy, sessions, parser, cleanup, spent>>

(* The tracker of an ordinary worker writes its status at every phase and  *)
(* heartbeat until it is closed, and nothing else that is modelled; that   *)
(* of a rebuild leaves the status alone.                                   *)
Beat(w) ==
  /\ worker[w].generation = 0 /\ Room(2)
  /\ \E status \in {"processing", "complete", "failed"} \ {source.status} :
       /\ worker[w].pc \in CASE status = "processing" -> {"record", "reread", "ingest"}
                              [] status = "complete" -> {"complete", "close"}
                              [] status = "failed" -> {"mark"}
       /\ source' = [source EXCEPT !.status = status]
  /\ spent' = [spent EXCEPT !.mishaps = @ + 2]
  /\ UNCHANGED <<policy, sessions, parser, worker, cleanup, overrun>>

(* request_import_cancel keeps the status, _mark_source_terminal of an     *)
(* import operation ends it; both write the metadata they have read.       *)
CleanupRead(kind) ==
  /\ cleanup.kind = "none" /\ source.status = "processing" /\ Room(2)
  /\ cleanup' = [kind |-> kind, seen |-> source]
  /\ spent' = [spent EXCEPT !.mishaps = @ + 2]
  /\ UNCHANGED <<policy, source, sessions, parser, worker, overrun>>

NoCleanup == [kind |-> "none", seen |-> Idle.seen]

CleanupWrite ==
  /\ cleanup.kind # "none"
  /\ source' = IF cleanup.kind = "cancel" THEN cleanup.seen ELSE Terminal(cleanup.seen)
  /\ cleanup' = NoCleanup /\ Fence(0)
  /\ UNCHANGED <<policy, sessions, parser, worker, spent>>

(* evaluate_staged_observations leaves rebuild sessions to their publish.  *)
EligibleWithRebuilds == finished \ decided

Eligible == {s \in finished \ decided : s[2] = 0}

(* The Core starts again: it evaluates what is staged, and if an import    *)
(* operation was running on the source it marks the source failed.         *)
Restart ==
  /\ Room(1) /\ spent' = [spent EXCEPT !.mishaps = @ + 1]
  /\ parser' \in {parser, parser + 1} \cap Parsers
  /\ rows' = FoldSet(LAMBDA s, v : EvaluateAll(v, Parsed[s[1]], s), rows, Eligible)
  /\ decided' = decided \cup Eligible
  /\ \/ source' = source
     \/ source.status = "processing" /\ source' = Terminal(source)
  /\ worker' = [w \in Workers |-> Idle] /\ cleanup' = NoCleanup
  /\ UNCHANGED <<barred, edits, finished, overrun>>

-----------------------------------------------------------------------------
(* The first parser has left an incomplete source or a failed import.      *)
Init ==
  /\ barred = {}
  /\ \/ rows = EvaluateAll(<<>>, Parsed[1], <<1, 0>>) /\ source = Plain("complete", FALSE)
        /\ finished = {<<1, 0>>}
     \/ rows = <<>> /\ source = Plain("failed", FALSE) /\ finished = {}
  /\ decided = finished /\ overrun = FALSE /\ edits = 0 /\ parser = FirstParser
  /\ worker = [w \in Workers |-> Idle] /\ cleanup = NoCleanup
  /\ spent = [rebuilds |-> 0, mishaps |-> 0]

Work(w) == \/ Claim(w) \/ Parse(w) \/ Record(w) \/ Reread(w) \/ Ingest(w)
           \/ Publish(w) \/ Complete(w) \/ Close(w) \/ ReadFailed(w) \/ MarkFailed(w)

Edits == Room(1) /\ UserStep /\ UNCHANGED <<source, sessions, parser, worker, cleanup, overrun, spent>>

Next == \/ \E w \in Workers : \/ \E rebuild \in BOOLEAN : Ask(w, rebuild)
                              \/ Work(w) \/ Fault(w) \/ Beat(w)
        \/ \E kind \in {"cancel", "terminal"} : CleanupRead(kind)
        \/ CleanupWrite \/ Restart \/ Edits

(* A thread runs on, and whoever wants the import asks again while it has  *)
(* not succeeded.                                                          *)
Fairness == /\ WF_vars(\E w \in Workers : Work(w))
            /\ WF_vars(\E w \in Workers : Ask(w, FALSE))

Spec == Init /\ [][Next]_vars /\ Fairness

-----------------------------------------------------------------------------
(* Properties *)

(* What the parser of session s finds.                                     *)
Found(s) == ToSet(Parsed[s[1]])

(* The types of the variables.                                             *)
TypeOK ==
  /\ rows \in Seq([item : Items \cup {Edited}, past : SUBSET Items, at : 0 .. Now,
                   state : {"live", "deleted", "withdrawn", "purged"},
                   binding : {NoSession} \cup decided, touched : BOOLEAN])
  /\ barred \subseteq Items \cup {Edited} /\ edits \in 0 .. MaxEdits
  /\ source \in [status : {"processing", "complete", "failed"}, covered : BOOLEAN,
                 generation : Nat, rebuilding : BOOLEAN, marker : Nat, published : Nat,
                 session : {NoSession} \cup decided]
  /\ decided \subseteq finished /\ finished \subseteq Parsers \X Nat /\ parser \in Parsers

(* Why the archive's item i needs no other record: it was purged, or some  *)
(* record is or was it, or a newer one has its slot.                       *)
Accounted(i) ==
  \/ i \in barred
  \/ \E k \in DOMAIN rows : rows[k].state \in {"live", "deleted"} /\ i \in rows[k].past
  \/ \E k \in InSlot(rows, i) : rows[k].at > At[i]

(* The archive changes the records only by publishing one session, whole   *)
(* and for the first time, and a rebuild leaves exactly what its parser    *)
(* found, next to what the user has touched: no staged session is          *)
(* evaluated at a start of the Core, by a second thread or once more by a  *)
(* retry (publish_source_rebuild, evaluate_staged_observations).  An       *)
(* unfenced write can bring a published session back, see overrun.         *)
RebuildExact ==
  [][edits' = edits /\ rows' # rows /\ ~overrun =>
       \E s \in decided' \ decided :
         /\ decided' = decided \cup {s}
         /\ \A i \in Found(s) : Accounted(i)'
         /\ s[2] > 0 => \A k \in DOMAIN rows' :
              Live(rows'[k]) /\ ~rows'[k].touched => rows'[k].item \in Found(s)]_vars

(* No import, retry, rebuild or restart undoes what the user did: content  *)
(* the user wrote and deletions stay as they are, nothing comes back that  *)
(* was purged as it stood, and no record becomes what another one was that *)
(* the user has changed or deleted, whatever it was changed to since       *)
(* (the barriers of the observation policy).                               *)
UserStands ==
  [][edits' = edits =>
       /\ \A k \in DOMAIN rows :
            rows[k].item = Edited \/ rows[k].state = "deleted" => rows'[k] = rows[k]
       /\ \A k \in DOMAIN rows' :
            Live(rows'[k]) /\ (k \in DOMAIN rows => rows'[k] # rows[k]) =>
              /\ rows'[k].item \notin barred
              /\ \A j \in DOMAIN rows \ {k} :
                   rows'[k].item \in rows[j].past /\ rows[j].touched =>
                     rows[j].state = "withdrawn"]_vars

(* A publication by a parser that the Core no longer runs.                 *)
Stranded == PublishedNow(source) /\ source.session[1] # parser

(* An import that is asked for again ends complete, whatever generation    *)
(* failed, was fenced off or was interrupted by a restart before it        *)
(* (_reprocess_source, update_source_import).                              *)
Recovers == []<>(source.status = "complete" \/ Stranded \/ overrun)
=============================================================================
