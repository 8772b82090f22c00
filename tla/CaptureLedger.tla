---------------------------- MODULE CaptureLedger ----------------------------
(***************************************************************************)
(* The capture ledger of one provider source (CaptureLedger and            *)
(* CaptureCoordinator, capture.py) and the sink that turns its events into *)
(* records (registered_source_admission.py).                               *)
(*                                                                         *)
(* A runner is a process inside CaptureCoordinator.run: the Core's         *)
(* scheduler, or the command line.  A run owns the source through a lease. *)
(* The runner stages a page and a pending marker in one transaction, hands *)
(* each event to the sink, commits it, and then moves the cursor and       *)
(* clears the marker; the runner may fail or die between any two           *)
(* transactions, and the next run finishes the marked page first.          *)
(*                                                                         *)
(* The provider is not trusted: any page of Pages may come at any time.    *)
(* Order keys are numeric; a cursor or order of 0 is NULL.  A transaction  *)
(* reads the clock when it runs, so time is the step a live lease expires. *)
(* Attempts, error codes but one, acknowledgements and payloads are left   *)
(* out; what a user does to a record takes it out of the source's reach.   *)
(***************************************************************************)
EXTENDS Integers, Sequences, FiniteSets

CONSTANTS Runners, Items,
          Pages,      \* what the adapter may return
          MaxRuns,    \* bound: runs of the source
          None

VARIABLES source,      \* capture_sources; unavailable: the last error says so
          run,         \* capture_runs
          checkpoint,  \* capture_checkpoints, with the pending marker
          stored,      \* capture_events: the staged event of an id
          applied,     \* those whose status is applied
          item,        \* capture_items: the last event committed for an item
          candidates,  \* events with a row in context_candidates
          record,      \* the record of an item
          runner       \* the processes

ledger == <<run, checkpoint, stored, applied, item>>
vault  == <<candidates, record>>
vars   == <<source, ledger, vault, runner>>

Runs == 1 .. MaxRuns
EventsOf(page) == {page.events[i] : i \in DOMAIN page.events}
Events == UNION {EventsOf(page) : page \in Pages}
Ids == {e.id : e \in Events}
Generations == {page.generation : page \in Pages} \cup {0}
Cursors == {page.next : page \in Pages} \cup {0}
Orders == {e.order : e \in Events} \cup {0}

Pending == [generation : Generations, cursor : Cursors, events : Seq(Ids)]

ASSUME ConstantAssumption ==
  /\ MaxRuns \in Nat
  /\ None \notin Ids /\ None \notin Pages /\ None \notin Pending
  /\ \A e \in Events : e.item \in Items /\ e.op \in {"upsert", "delete"} /\ e.order \in Nat \ {0}
  /\ \A page \in Pages : /\ page.generation \in Nat /\ page.next \in Nat
                         /\ page.events \in Seq(EventsOf(page))
                         /\ page.done \in BOOLEAN /\ (page.next = 0 => page.done)

Idle == [pc |-> "idle", run |-> 0, recovering |-> FALSE, page |-> None, todo |-> {}]
Absent == [state |-> "none", event |-> None]

-----------------------------------------------------------------------------
(* Leases.  A running run is live until its lease expires.                 *)

Running == {"live", "expired"}

(* _require_active_run; renew_run, which precedes most of the calls below, *)
(* asks the same and leaves a live lease live.                             *)
Owned(p) == source.state = "reconciling" /\ run[runner[p].run] = "live"

EndRuns(S) == run' = [r \in Runs |-> IF r \in S THEN "over" ELSE run[r]]

(* recover_expired_runs *)
RecoverRuns == LET expired == {r \in Runs : run[r] = "expired"} IN
  /\ EndRuns(expired)
  /\ source' = IF expired # {} /\ source.state = "reconciling"
               THEN [state |-> "degraded", unavailable |-> FALSE] ELSE source

-----------------------------------------------------------------------------
(* The beginning of a run.                                                 *)

Goto(p, pc) == runner' = [runner EXCEPT ![p].pc = pc]

(* _run reads the source, then begin_run recovers expired runs.            *)
StartRun(p) ==
  /\ runner[p].pc = "idle" /\ source.state \in {"enabled", "reconciling"}
  /\ RecoverRuns /\ Goto(p, "begin")
  /\ UNCHANGED <<checkpoint, stored, applied, item, vault>>

NewRun(p) == LET r == Cardinality({x \in Runs : run[x] # "none"}) + 1 IN
  /\ r \in Runs /\ run' = [run EXCEPT ![r] = "live"]
  /\ source' = [source EXCEPT !.state = "reconciling"]
  /\ runner' = [runner EXCEPT ![p] = [Idle EXCEPT !.pc = "pending", !.run = r]]
  /\ UNCHANGED <<checkpoint, stored, applied, item, vault>>

BeginRun(p) ==
  /\ runner[p].pc = "begin" /\ source.state \in {"enabled", "reconciling"}
  /\ \A r \in Runs : run[r] # "live"
  /\ NewRun(p)

BeginRefused(p) ==
  /\ runner[p].pc = "begin"
  /\ source.state \notin {"enabled", "reconciling"} \/ \E r \in Runs : run[r] = "live"
  /\ runner' = [runner EXCEPT ![p] = Idle]
  /\ UNCHANGED <<source, ledger, vault>>

At(p, pc) == runner[p].pc = pc

-----------------------------------------------------------------------------
(* Pages.                                                                  *)

(* todo: the positions of the events of the page still to be handed over.  *)
AfterStaging(todo) == IF todo = {} THEN "commit_page" ELSE "event"

Load(p, page, todo, recovering) ==
  runner' = [runner EXCEPT ![p].page = page, ![p].todo = todo, ![p].recovering = recovering,
                           ![p].pc = AfterStaging(todo)]

PendingPage == LET marker == checkpoint.pending IN
  [generation |-> marker.generation, next |-> marker.cursor, done |-> TRUE,
   events |-> [i \in DOMAIN marker.events |-> stored[marker.events[i]]]]

(* Mutant of ReadPending: the marker counts as a page already applied.     *)
ReadPendingTrusts(p) ==
  /\ At(p, "pending") /\ Owned(p) /\ Goto(p, "fetch")
  /\ checkpoint' = IF checkpoint.pending = None THEN checkpoint
                   ELSE [checkpoint EXCEPT !.cursor = checkpoint.pending.cursor, !.pending = None]
  /\ UNCHANGED <<source, run, stored, applied, item, vault>>

(* _recover_pending_page hands every event of the page to the sink again.  *)
ReadPending(p) ==
  /\ At(p, "pending") /\ Owned(p)
  /\ IF checkpoint.pending = None THEN Goto(p, "fetch")
     ELSE Load(p, PendingPage, DOMAIN PendingPage.events, TRUE)
  /\ UNCHANGED <<source, ledger, vault>>

Fetch(p, page) ==
  /\ At(p, "fetch") /\ Owned(p)
  /\ runner' = [runner EXCEPT ![p].pc = "validate", ![p].page = page]
  /\ UNCHANGED <<source, ledger, vault>>

New(page) == {i \in DOMAIN page.events : page.events[i].id \notin applied}

Consistent(page) ==
  /\ \A i, j \in DOMAIN page.events : page.events[i].id = page.events[j].id => i = j
  /\ \A e \in EventsOf(page) : e.id \in DOMAIN stored => stored[e.id] = e

(* _order_before without _order_gap                                        *)
Follows(previous, e) == previous # 0 => e.order = previous + 1

(* The checks of _validate_page_events and of the loop before it.          *)
Valid(page) ==
  /\ page.generation >= checkpoint.generation
  /\ Consistent(page)
  /\ \A e \in EventsOf(page) : e.generation = page.generation
  /\ LET baseline == IF page.generation = checkpoint.generation THEN checkpoint.order ELSE 0
     IN \A i \in New(page) :
          LET before == {j \in New(page) : j < i}
          IN /\ before = {} => Follows(baseline, page.events[i])
             /\ \A j \in before : (\A k \in before : k <= j) =>
                                   Follows(page.events[j].order, page.events[i])

Validate(p) ==
  /\ At(p, "validate") /\ Owned(p) /\ Valid(runner[p].page)
  /\ Goto(p, "stage")
  /\ UNCHANGED <<source, ledger, vault>>

Stage(p) == LET page == runner[p].page IN
  /\ At(p, "stage") /\ Owned(p)
  /\ checkpoint.pending = None /\ Consistent(page)
  /\ stored' = [id \in DOMAIN stored \cup {e.id : e \in EventsOf(page)} |->
                  IF id \in DOMAIN stored THEN stored[id]
                  ELSE CHOOSE e \in EventsOf(page) : e.id = id]
  /\ checkpoint' = [checkpoint EXCEPT !.pending =
                      [generation |-> page.generation, cursor |-> page.next,
                       events |-> [i \in DOMAIN page.events |-> page.events[i].id]]]
  /\ Load(p, page, New(page), FALSE)
  /\ UNCHANGED <<source, run, applied, item, vault>>

-----------------------------------------------------------------------------
(* Events.                                                                 *)

LiveRecord(e) == [state |-> "live", event |-> e.id]

(* Mutant of Projected: an upsert is always projected.                     *)
ProjectedAgain(e, old, new) ==
  \/ /\ old.state = "user" /\ new = old
  \/ /\ old.state # "user" /\ e.id \in applied /\ e.op = "delete" /\ new = old
  \/ /\ old.state # "user" /\ e.id \notin applied /\ e.op = "delete"
     /\ new = IF old.state = "live" THEN [state |-> "withdrawn", event |-> None] ELSE old
  \/ /\ old.state # "user" /\ e.op = "upsert" /\ new = LiveRecord(e)

(* The sink's apply, in one transaction: the record of the item goes from  *)
(* old to new.  An event with a candidate has been projected before, and   *)
(* is refused when the record is no longer what it made of it.             *)
Projected(e, old, new) ==
  \/ /\ old.state = "user" \/ e.id \in applied
     /\ new = old
  \/ /\ old.state # "user" /\ e.id \notin applied /\ e.op = "delete"
     /\ new = IF old.state = "live" THEN [state |-> "withdrawn", event |-> None] ELSE old
  \/ /\ old.state # "user" /\ e.id \notin applied /\ e.op = "upsert"
     /\ e.id \in candidates => old = LiveRecord(e)
     /\ new = LiveRecord(e)

Outcomes(e) == {new \in {record[e.item], Absent, LiveRecord(e)} \cup
                          {[state |-> "withdrawn", event |-> None]} :
                  Projected(e, record[e.item], new)}

(* The event at hand: the first one of the page still to do.               *)
First(S) == {i \in S : \A j \in S : i <= j}
AtHand(p) == {runner[p].page.events[i] : i \in First(runner[p].todo)}

Apply(p) == \E e \in AtHand(p) :
  /\ At(p, "event") /\ Owned(p)
  /\ \E new \in Outcomes(e) : record' = [record EXCEPT ![e.item] = new]
  /\ candidates' = IF e.op = "upsert" THEN candidates \cup {e.id} ELSE candidates
  /\ Goto(p, "commit")
  /\ UNCHANGED <<source, ledger>>

Commit(p) == \E e \in AtHand(p) : LET rest == runner[p].todo \ First(runner[p].todo) IN
  /\ At(p, "commit") /\ Owned(p)
  /\ applied' = applied \cup {e.id}
  /\ item' = [item EXCEPT ![e.item] = e.id]
  /\ checkpoint' =
       IF \/ checkpoint.order = 0 \/ e.generation > checkpoint.generation
          \/ e.generation = checkpoint.generation /\ checkpoint.order < e.order
       THEN [checkpoint EXCEPT !.generation = e.generation, !.order = e.order]
       ELSE checkpoint
  /\ runner' = [runner EXCEPT ![p].todo = rest, ![p].pc = AfterStaging(rest)]
  /\ UNCHANGED <<source, run, stored, vault>>

-----------------------------------------------------------------------------
(* The end of a page.                                                      *)

CursorMoves(page) == checkpoint.cursor # page.next \/ page.done

MoveTo(page, events) ==
  checkpoint' = [generation |-> page.generation, cursor |-> page.next, pending |-> None,
                 order |-> IF page.generation > checkpoint.generation /\ events = <<>>
                           THEN 0 ELSE checkpoint.order]

Matches(marker, page) ==
  /\ marker.generation = page.generation /\ marker.cursor = page.next
  /\ \A i \in DOMAIN marker.events : marker.events[i] \in applied
  /\ page.generation >= checkpoint.generation

(* commit_page_cursor: all events of the marked page are applied.          *)
PageCommitted(page) ==
  /\ Matches(checkpoint.pending, page) /\ CursorMoves(page)
  /\ MoveTo(page, checkpoint.pending.events)

CommitPage(p) == LET page == runner[p].page IN
  /\ At(p, "commit_page") /\ Owned(p)
  /\ PageCommitted(page)
  /\ runner' = [runner EXCEPT
       ![p] = [Idle EXCEPT !.run = runner[p].run,
                 !.pc = IF (IF runner[p].recovering THEN page.next = 0 ELSE page.done)
                        THEN "finish" ELSE "fetch"]]
  /\ UNCHANGED <<source, run, stored, applied, item, vault>>

(* finish_run *)
Finish(p) ==
  /\ At(p, "finish") /\ Owned(p)
  /\ EndRuns({runner[p].run})
  /\ source' = [state |-> "enabled", unavailable |-> FALSE]
  /\ runner' = [runner EXCEPT ![p] = Idle]
  /\ UNCHANGED <<checkpoint, stored, applied, item, vault>>

(* Mutant of FinishFailed: the failed page is forgotten.                   *)
FinishFailedForgets(p) ==
  /\ At(p, "failed") /\ Owned(p)
  /\ EndRuns({runner[p].run})
  /\ source' = [state |-> "degraded", unavailable |-> FALSE]
  /\ checkpoint' = [checkpoint EXCEPT !.pending = None]
  /\ runner' = [runner EXCEPT ![p] = Idle]
  /\ UNCHANGED <<stored, applied, item, vault>>

FinishFailed(p) ==
  /\ At(p, "failed") /\ Owned(p)
  /\ EndRuns({runner[p].run})
  /\ source' = [state |-> "degraded", unavailable |-> FALSE]
  /\ runner' = [runner EXCEPT ![p] = Idle]
  /\ UNCHANGED <<checkpoint, stored, applied, item, vault>>

(* stale_result: the run was lost and nothing is written.                  *)
Stale(p) ==
  /\ At(p, "failed") /\ ~Owned(p)
  /\ runner' = [runner EXCEPT ![p] = Idle]
  /\ UNCHANGED <<source, ledger, vault>>

Working(p) == runner[p].pc \notin {"idle", "begin", "failed"}

Fail(p) == runner' = [runner EXCEPT ![p] = [Idle EXCEPT !.pc = "failed", !.run = runner[p].run]]

(* A call that requires the run finds it lost.                             *)
LoseRun(p) ==
  /\ Working(p) /\ ~Owned(p) /\ Fail(p)
  /\ UNCHANGED <<source, ledger, vault>>

(* The checks of the next step refuse the page, or the event.              *)
Refused(p) == LET page == runner[p].page IN
  /\ Working(p) /\ Owned(p)
  /\ \/ At(p, "validate") /\ ~Valid(page)
     \/ At(p, "stage") /\ ~(checkpoint.pending = None /\ Consistent(page))
     \/ At(p, "event") /\ \E e \in AtHand(p) : Outcomes(e) = {}
     \/ At(p, "commit_page") /\ ~(Matches(checkpoint.pending, page) /\ CursorMoves(page))
  /\ Fail(p)
  /\ UNCHANGED <<source, ledger, vault>>

(* The adapter, the sink or the database fails.                            *)
Fault(p) ==
  /\ Working(p) /\ Fail(p)
  /\ UNCHANGED <<source, ledger, vault>>

(* The process dies; its run stays as it is.                               *)
Crash(p) ==
  /\ runner[p].pc # "idle"
  /\ runner' = [runner EXCEPT ![p] = Idle]
  /\ UNCHANGED <<source, ledger, vault>>

-----------------------------------------------------------------------------
(* Time, the user and the adapter's availability.                          *)

Expire(r) ==
  /\ run[r] = "live" /\ run' = [run EXCEPT ![r] = "expired"]
  /\ UNCHANGED <<source, checkpoint, stored, applied, item, vault, runner>>

(* At the start of the Core and of each scheduler cycle.                   *)
RecoverExpired ==
  /\ (\E r \in Runs : run[r] = "expired") /\ RecoverRuns
  /\ UNCHANGED <<checkpoint, stored, applied, item, vault, runner>>

Allowed == [disabled    |-> {"enabled", "revoked"},
            enabled     |-> {"paused", "disabled", "reconciling", "revoked"},
            paused      |-> {"enabled", "disabled", "revoked"},
            degraded    |-> {"reconciling", "paused", "disabled", "revoked"},
            reconciling |-> {"enabled", "paused", "revoked"},
            revoked     |-> {}]

(* enable, pause, resume, disable and revoke; resume may act on the        *)
(* degraded state it read before.                                          *)
Transition(target) ==
  /\ target \in Allowed[source.state]
  /\ source' = [source EXCEPT !.state = target]
  /\ IF source.state = "reconciling"
     THEN EndRuns({r \in Runs : run[r] \in Running}) ELSE UNCHANGED run
  /\ UNCHANGED <<checkpoint, stored, applied, item, vault, runner>>

(* _mark_unavailable leaves a live run alone.                              *)
MarkUnavailable ==
  /\ source.state \in {"enabled", "degraded", "reconciling"}
  /\ source.state = "reconciling" => \A r \in Runs : run[r] # "live"
  /\ source' = [state |-> "degraded", unavailable |-> TRUE]
  /\ UNCHANGED <<ledger, vault, runner>>

RecoverAdapter ==
  /\ source = [state |-> "degraded", unavailable |-> TRUE]
  /\ source' = [state |-> "enabled", unavailable |-> FALSE]
  /\ UNCHANGED <<ledger, vault, runner>>

(* The user edits, deletes, restores or purges the record of an item.      *)
Touch(i) ==
  /\ record[i].state \in {"live", "withdrawn"}
  /\ record' = [record EXCEPT ![i] = [state |-> "user", event |-> None]]
  /\ UNCHANGED <<source, ledger, candidates, runner>>

-----------------------------------------------------------------------------
Init ==
  /\ source = [state |-> "disabled", unavailable |-> FALSE]
  /\ run = [r \in Runs |-> "none"]
  /\ checkpoint = [generation |-> 0, order |-> 0, cursor |-> 0, pending |-> None]
  /\ stored = [id \in {} |-> None] /\ applied = {} /\ item = [i \in Items |-> None]
  /\ candidates = {} /\ record = [i \in Items |-> Absent]
  /\ runner = [p \in Runners |-> Idle]

Run(p) ==
  \/ StartRun(p) \/ BeginRun(p) \/ BeginRefused(p) \/ ReadPending(p)
  \/ \E page \in Pages : Fetch(p, page)
  \/ Validate(p) \/ Stage(p) \/ Apply(p) \/ Commit(p) \/ CommitPage(p)
  \/ Finish(p) \/ FinishFailed(p) \/ Stale(p)
  \/ LoseRun(p) \/ Refused(p) \/ Fault(p) \/ Crash(p)

Next ==
  \/ \E p \in Runners : Run(p)
  \/ \E r \in Runs : Expire(r)
  \/ RecoverExpired
  \/ \E target \in {"enabled", "paused", "disabled", "revoked", "reconciling"} : Transition(target)
  \/ MarkUnavailable \/ RecoverAdapter
  \/ \E i \in Items : Touch(i)

Spec == Init /\ [][Next]_vars

-----------------------------------------------------------------------------
TypeOK ==
  /\ source \in [state : DOMAIN Allowed, unavailable : BOOLEAN]
  /\ run \in [Runs -> {"none", "live", "expired", "over"}]
  /\ checkpoint.generation \in Generations /\ checkpoint.order \in Orders
  /\ checkpoint.cursor \in Cursors /\ checkpoint.pending \in Pending \cup {None}
  /\ DOMAIN stored \subseteq Ids /\ \A id \in DOMAIN stored : stored[id] \in Events
  /\ applied \subseteq DOMAIN stored /\ candidates \subseteq DOMAIN stored
  /\ item \in [Items -> applied \cup {None}]
  /\ record \in [Items -> [state : {"none", "live", "withdrawn", "user"},
                           event : Ids \cup {None}]]
  /\ \A p \in Runners :
       /\ runner[p].pc \in {"idle", "begin", "pending", "fetch", "validate", "stage", "event",
                            "commit", "commit_page", "finish", "failed"}
       /\ runner[p].run \in 0 .. MaxRuns

(* CAPTURE.md: a committed cursor never moves beyond a failed, unapplied   *)
(* or out-of-order event; it only takes the value of a page all of whose   *)
(* events are applied, and of the marked page if there is one.             *)
CursorBehindApplied ==
  [][checkpoint'.cursor # checkpoint.cursor =>
       /\ \E page \in Pages : /\ page.next = checkpoint'.cursor
                              /\ \A e \in EventsOf(page) : e.id \in applied
       /\ checkpoint.pending # None => checkpoint'.cursor = checkpoint.pending.cursor]_vars

(* A marked page is never overwritten or dropped: failures, crashes, lost  *)
(* leases and newer runs leave the marker until its events are applied.    *)
PendingStands ==
  [][checkpoint.pending # None /\ checkpoint'.pending # checkpoint.pending =>
       /\ checkpoint'.pending = None
       /\ \A i \in DOMAIN checkpoint.pending.events : checkpoint.pending.events[i] \in applied]_vars

(* The last event of an item among those applied.                          *)
Precedes(e, f) == \/ e.generation < f.generation
                  \/ e.generation = f.generation /\ e.order < f.order
LastApplied(i) == {id \in applied : /\ stored[id].item = i
                                    /\ \A old \in applied : stored[old].item = i =>
                                         ~Precedes(stored[id], stored[old])}

(* Whenever no page is pending, a record the user left alone is what the   *)
(* last event of its item made it, although sink and ledger commit         *)
(* separately, a crash may come between them and pages come again.         *)
RecordCurrent ==
  checkpoint.pending = None =>
    \A i \in Items : record[i].state # "user" =>
      /\ LastApplied(i) = {} => record[i] = Absent
      /\ \A id \in LastApplied(i) :
           IF stored[id].op = "upsert" THEN record[i] = LiveRecord(stored[id])
           ELSE record[i].state # "live"

(* No page is poison: whatever crashes left behind, the sink will take     *)
(* the next event of the pending page and the ledger its cursor.           *)
PendingRecoverable ==
  checkpoint.pending # None =>
    /\ checkpoint.pending.generation >= checkpoint.generation
    /\ \A i \in DOMAIN checkpoint.pending.events :
         (\A j \in 1 .. i - 1 : checkpoint.pending.events[j] \in applied)
           => Outcomes(stored[checkpoint.pending.events[i]]) # {}

(* The records are right between two pages, and between them every page    *)
(* can be finished.                                                        *)
RecordsFollow == RecordCurrent /\ PendingRecoverable
=============================================================================
