-------------------------- MODULE ImportOperations --------------------------
(***************************************************************************)
(* Durable import operations of the Core: an operation row, the            *)
(* content-addressed source blob its upload is staged into, the source     *)
(* record linked to the complete blob, and the parser that publishes the   *)
(* source's observations.  Each operation has at most one worker thread.   *)
(* Every action is one database transaction (CoreStore serialises them) or *)
(* one step of a thread between two of them; cancel_operation is called    *)
(* from any number of other threads, and the process may die anywhere.     *)
(*                                                                         *)
(* A source is named by the operation whose worker inserted it.  Archives  *)
(* are of one recognised provider, so the parser always files a source     *)
(* under the service Known.  Rebuilds and deletions of sources, progress   *)
(* figures, staging files and result payloads are left out.                *)
(***************************************************************************)
EXTENDS Naturals, FiniteSets

CONSTANTS Ops, NoOp, Contents,
          Services,                 \* what a request names; "auto" or Known
          Chunks,                   \* chunks of a blob
          MaxCrashes, MaxCancels, MaxRetries      \* bounds of a run

Known == "known"

ASSUME ImportAssumption ==
  /\ NoOp \notin Ops /\ Contents # {} /\ Chunks \in Nat \ {0}
  /\ Services \subseteq {"auto", Known}
  /\ MaxCrashes \in Nat /\ MaxCancels \in Nat /\ MaxRetries \in Nat

VARIABLES op,       \* import_operations: the rows
          blob,     \* source_blobs and source_blob_chunks, by content
          src,      \* source_records, with the state of their observations
          event,    \* ImportCancelRegistry: the event of an operation's key
          alias,    \* ImportCancelRegistry: the operation whose event a source's key has
          worker,   \* the thread that uploads or retries an operation
          caller,   \* a thread inside cancel_operation
          core,     \* "up", or "booting" until recovery has ended
          spent     \* how much of the bounds is used

vars == <<op, blob, src, event, alias, worker, caller, core, spent>>
rows == <<op, blob, src>>
registry == <<event, alias>>

Finished == {"complete", "failed", "cancelled"}
Running == {"uploading", "processing"}
Parsing == {"copy", "classify", "mark", "reread", "ingest", "publish", "finish"}
Staging == {"begin", "chunks", "finalize", "link"}

NoSource == [status |-> "absent", service |-> "auto", data |-> "none"]
NoBlob == [state |-> "absent", chunks |-> {}]
Idle == [pc |-> "idle", source |-> NoOp, outcome |-> "none", chunk |-> 1, retry |-> FALSE]

Present(s) == s \in Ops /\ src[s].status # "absent"
Blob(s) == blob[op[s].content]
Readable(s) == Present(s) /\ Blob(s).state = "complete" /\ Blob(s).chunks = 1 .. Chunks
Referenced(c) == \E s \in Ops : Present(s) /\ op[s].content = c

(* The records of content c filed under a service: there is at most one.   *)
Filed(c, service) ==
  {s \in Ops : Present(s) /\ op[s].content = c /\ src[s].service = service}

-----------------------------------------------------------------------------
(* Helpers of the storage and of the cancel registry.                      *)

OpenAlways(o) == TRUE

Open(o) == op[o].status \notin Finished

(* update_import_operation never moves a finished row to another status.   *)
CanSet(o, status) == Open(o) \/ op[o].status = status

DeletedReferenced(c) ==
  IF blob[c].state # "complete" THEN NoBlob ELSE [blob[c] EXCEPT !.chunks = {}]

(* delete_incomplete_source_blob *)
DeletedIncomplete(c) ==
  CASE blob[c].state # "complete" -> NoBlob
    [] blob[c].state = "complete" /\ Referenced(c) -> blob[c]
    [] OTHER -> [blob[c] EXCEPT !.chunks = {}]

Registered(o) == IF event[o] = "none" THEN [event EXCEPT ![o] = "clear"] ELSE event

Clear(o) == /\ event' = [event EXCEPT ![o] = "none"]
            /\ alias' = [s \in Ops |-> IF alias[s] = o THEN NoOp ELSE alias[s]]

Signalled(keys) == [o \in Ops |-> IF o \in keys THEN "set" ELSE event[o]]
KeyOf(s) == IF s = NoOp THEN {} ELSE {alias[s]} \ {NoOp}

At(o, pc) == core = "up" /\ worker[o].pc = pc
Goto(o, pc) == worker' = [worker EXCEPT ![o].pc = pc]

(* What the calls of worker o's next step check besides its own row.       *)
Accepted(o) ==
  LET w == worker[o]
  IN CASE w.pc = "begin"    -> blob[op[o].content].state # "incomplete"
       [] w.pc = "chunks"   -> blob[op[o].content].state = "incomplete"
       [] w.pc = "finalize" -> \/ blob[op[o].content].state = "complete"
                               \/ /\ blob[op[o].content].state = "incomplete"
                                  /\ blob[op[o].content].chunks = 1 .. Chunks
       [] w.pc = "link"     -> blob[op[o].content].state = "complete"
       [] w.pc = "copy"     -> Readable(w.source)
       [] w.pc = "classify" -> /\ Present(w.source)
                               /\ \/ src[w.source].service = Known
                                  \/ Filed(op[o].content, Known) = {}
                                  \/ src[w.source].data = "none"
       [] w.pc \in {"open", "mark", "reread", "ingest", "publish", "finish"} -> Present(w.source)
       [] OTHER -> TRUE

(* The steps that begin with a write of the operation's row.               *)
Telemetry == {"receive", "begin", "chunks", "link", "bind", "open", "copy",
              "ingest", "publish", "finish", "adopt"}
Ready(o) == (worker[o].pc \in Telemetry => Open(o)) /\ Accepted(o)

-----------------------------------------------------------------------------
(* The upload: accept_upload, up to the link of the source.                *)

StartOperation(o, c, service) ==
  /\ core = "up" /\ op[o].status = "none"
  /\ op' = [op EXCEPT ![o] = [@ EXCEPT !.status = "awaiting_upload", !.content = c,
                                       !.service = service]]
  /\ event' = Registered(o)
  /\ UNCHANGED <<blob, src, alias, worker, caller, core, spent>>

ClaimUpload(o) ==
  /\ At(o, "idle") /\ op[o].status = "awaiting_upload"
  /\ op' = [op EXCEPT ![o].status = "uploading"]
  /\ worker' = [worker EXCEPT ![o] = [Idle EXCEPT !.pc = "receive"]]
  /\ event' = Registered(o)
  /\ UNCHANGED <<blob, src, alias, caller, core, spent>>

(* All declared bytes have arrived; their hash is known and recorded.      *)
Receive(o) ==
  /\ At(o, "receive") /\ Ready(o)
  /\ op' = [op EXCEPT ![o].status = "processing", ![o].hash = TRUE]
  /\ Goto(o, "begin")
  /\ UNCHANGED <<blob, src, registry, caller, core, spent>>

BeginBlob(o) ==
  /\ At(o, "begin") /\ Ready(o)
  /\ LET c == op[o].content
     IN IF blob[c].state = "complete" THEN Goto(o, "link") /\ UNCHANGED blob
        ELSE /\ blob' = [blob EXCEPT ![c].state = "incomplete"]
             /\ Goto(o, "chunks")
  /\ UNCHANGED <<op, src, registry, caller, core, spent>>

WriteChunk(o) ==
  /\ At(o, "chunks") /\ Ready(o)
  /\ blob' = [blob EXCEPT ![op[o].content].chunks = @ \cup {worker[o].chunk}]
  /\ worker' = [worker EXCEPT ![o].chunk = @ + 1,
                              ![o].pc = IF worker[o].chunk = Chunks THEN "finalize" ELSE "chunks"]
  /\ UNCHANGED <<op, src, registry, caller, core, spent>>

Finalize(o) ==
  /\ At(o, "finalize") /\ Ready(o)
  /\ blob' = [blob EXCEPT ![op[o].content].state = "complete"]
  /\ Goto(o, "link")
  /\ UNCHANGED <<op, src, registry, caller, core, spent>>

(* create_source_record_for_blob: the record filed under the requested     *)
(* service, or a new one.                                                  *)
LinkSource(o) ==
  /\ At(o, "link") /\ Ready(o)
  /\ LET filed == Filed(op[o].content, op[o].service)
         s == IF filed = {} THEN o ELSE CHOOSE s \in filed : TRUE
     IN /\ src' = IF filed # {} THEN src
                  ELSE [src EXCEPT ![o] = [status |-> "processing", service |-> op[o].service,
                                           data |-> "none"]]
        /\ worker' = [worker EXCEPT ![o].pc = "bind", ![o].source = s]
        /\ alias' = [alias EXCEPT ![s] = o]
  /\ event' = Registered(o)
  /\ UNCHANGED <<op, blob, caller, core, spent>>

BindSource(o) ==
  /\ At(o, "bind") /\ Ready(o)
  /\ op' = [op EXCEPT ![o].source = worker[o].source]
  /\ Goto(o, "open")
  /\ UNCHANGED <<blob, src, registry, caller, core, spent>>

-----------------------------------------------------------------------------
(* The parser: reprocess_source, for an upload and for a retry.            *)

(* A source that is complete already needs no second parse.                *)
OpenSource(o) ==
  /\ At(o, "open") /\ Ready(o)
  /\ IF src[worker[o].source].status = "complete"
     THEN Goto(o, "adopt") /\ UNCHANGED registry
     ELSE /\ Goto(o, "copy")
          /\ event' = Registered(o) /\ alias' = [alias EXCEPT ![worker[o].source] = o]
  /\ UNCHANGED <<rows, caller, core, spent>>

CopyAndParse(o) ==
  /\ At(o, "copy") /\ Ready(o)
  /\ Goto(o, "classify")
  /\ UNCHANGED <<rows, registry, caller, core, spent>>

(* reclassify_source: the record is refiled under the parsed service, or   *)
(* merged into the one already filed there.  Merging into a complete       *)
(* record ends the parse.                                                  *)
Classify(o) ==
  /\ At(o, "classify") /\ Ready(o)
  /\ LET s == worker[o].source
         known == Filed(op[o].content, Known) \ {s}
         merge == src[s].service # Known /\ known # {}
         e == IF merge THEN CHOOSE k \in known : TRUE ELSE s
         done == merge /\ src[e].status = "complete"
     IN /\ src' = IF merge THEN [src EXCEPT ![s] = NoSource]
                  ELSE [src EXCEPT ![s].service = Known]
        /\ worker' = [worker EXCEPT ![o].source = e, ![o].pc = IF done THEN "adopt" ELSE "mark"]
        /\ IF done THEN Clear(o)
           ELSE event' = Registered(o) /\ alias' = [alias EXCEPT ![e] = o]
  /\ UNCHANGED <<op, blob, caller, core, spent>>

MarkProcessing(o) ==
  /\ At(o, "mark") /\ Ready(o)
  /\ src' = [src EXCEPT ![worker[o].source].status = "processing"]
  /\ Goto(o, "reread")
  /\ UNCHANGED <<op, blob, registry, caller, core, spent>>

(* Another worker may have completed the record in between.                *)
RereadSource(o) ==
  /\ At(o, "reread") /\ Ready(o)
  /\ IF src[worker[o].source].status = "complete" THEN Goto(o, "adopt") /\ Clear(o)
     ELSE Goto(o, "ingest") /\ UNCHANGED registry
  /\ UNCHANGED <<rows, caller, core, spent>>

(* Observations are submitted in batches that replay idempotently.         *)
Submit(o) ==
  /\ At(o, "ingest") /\ Ready(o)
  /\ src' = [src EXCEPT ![worker[o].source].data = IF @ = "none" THEN "staged" ELSE @]
  /\ Goto(o, "publish")
  /\ UNCHANGED <<op, blob, registry, caller, core, spent>>

Publish(o) ==
  /\ At(o, "publish") /\ Ready(o)
  /\ src' = [src EXCEPT ![worker[o].source].data = "published"]
  /\ Goto(o, "finish")
  /\ UNCHANGED <<op, blob, registry, caller, core, spent>>

FinishSource(o) ==
  /\ At(o, "finish") /\ Ready(o)
  /\ src' = [src EXCEPT ![worker[o].source].status = "complete"]
  /\ Goto(o, "adopt") /\ Clear(o)
  /\ UNCHANGED <<op, blob, caller, core, spent>>

(* The operation completes, bound to the source the parser ended with.     *)
CompleteOperation(o) ==
  /\ At(o, "adopt") /\ Ready(o)
  /\ op' = [op EXCEPT ![o].status = "complete", ![o].source = worker[o].source]
  /\ worker' = [worker EXCEPT ![o] = Idle] /\ Clear(o)
  /\ UNCHANGED <<blob, src, caller, core, spent>>

-----------------------------------------------------------------------------
(* A step that ends the attempt.                                           *)

(* An exception leaves the step.  Inside the parser the tracker first      *)
(* writes the outcome to the operation's row, and when the row refuses it, *)
(* that error takes over and the parser leaves the source as it is.  A     *)
(* cancellation is always written to the row before it is raised.          *)
Raise(o, outcome) ==
  LET parser == worker[o].pc \in Parsing
      next == CASE parser /\ CanSet(o, outcome) -> "source"
                [] worker[o].pc \in Staging -> "undo"
                [] OTHER -> "close"
  IN /\ op' = IF (parser /\ CanSet(o, outcome)) \/ outcome = "cancelled"
              THEN [op EXCEPT ![o].status = outcome] ELSE op
     /\ worker' = [worker EXCEPT ![o].pc = next, ![o].outcome = outcome]
     /\ UNCHANGED <<blob, src, registry, caller, core, spent>>

(* The step's own checks refuse it, or the row is already finished.        *)
Refused(o) ==
  /\ core = "up" /\ worker[o].pc \in Telemetry \cup Parsing \cup Staging
  /\ ~Ready(o)
  /\ Raise(o, "failed")

(* A short or broken upload, a failing write, a malformed archive, a       *)
(* refused batch.                                                          *)
Fault(o) ==
  /\ core = "up" /\ worker[o].pc \in {"receive", "chunks", "copy", "ingest", "publish"}
  /\ Raise(o, "failed")

(* check_cancelled *)
SeeCancel(o) ==
  /\ core = "up" /\ event[o] = "set" /\ CanSet(o, "cancelled")
  /\ worker[o].pc \in {"receive", "begin", "chunks", "finalize", "copy", "ingest", "publish"}
  /\ Raise(o, "cancelled")

(* The parser's own _mark_cancelled and _mark_failed.                      *)
MarkSource(o) ==
  /\ At(o, "source")
  /\ LET s == worker[o].source
     IN /\ src' = IF Present(s) THEN [src EXCEPT ![s].status = worker[o].outcome] ELSE src
        /\ worker' = [worker EXCEPT ![o].pc = "close",
                                    ![o].outcome = IF Present(s) THEN @ ELSE "failed"]
  /\ Clear(o)
  /\ UNCHANGED <<op, blob, caller, core, spent>>

(* Mutant of UndoBlob: the incomplete blob stays.                          *)
UndoNothing(o) ==
  /\ At(o, "undo") /\ Goto(o, "close")
  /\ UNCHANGED <<rows, registry, caller, core, spent>>

UndoBlob(o) ==
  /\ At(o, "undo")
  /\ blob' = [blob EXCEPT ![op[o].content] = DeletedIncomplete(op[o].content)]
  /\ Goto(o, "close")
  /\ UNCHANGED <<op, src, registry, caller, core, spent>>

(* The operation's _mark_cancelled and _mark_failed read the row: one that *)
(* has the outcome is bound to the source the parser ended with, one that  *)
(* is finished otherwise keeps its source from a failure ...               *)
CloseRow(o) ==
  /\ At(o, "close")
  /\ LET w == worker[o]
         s == IF w.source = NoOp THEN op[o].source ELSE w.source
         To(pc, t) == worker' = [worker EXCEPT ![o].pc = pc, ![o].source = t]
     IN \/ /\ op[o].status = w.outcome
           /\ op' = [op EXCEPT ![o].source = s] /\ To("settle", s)
        \/ /\ ~Open(o) /\ op[o].status # w.outcome /\ w.outcome = "failed"
           /\ To("settle", NoOp) /\ UNCHANGED op
        \/ /\ op[o].status # w.outcome /\ (Open(o) \/ w.outcome = "cancelled")
           /\ To("write", s) /\ UNCHANGED op
  /\ UNCHANGED <<blob, src, registry, caller, core, spent>>

(* ... and write it in a transaction of its own, which may find it         *)
(* finished by now; ...                                                    *)
WriteRow(o) ==
  /\ At(o, "write")
  /\ LET w == worker[o]
     IN op' = IF CanSet(o, w.outcome)
              THEN [op EXCEPT ![o] = [@ EXCEPT !.status = w.outcome, !.source = w.source,
                     !.cancel = IF w.outcome = "cancelled" THEN TRUE ELSE op[o].cancel]]
              ELSE op
  /\ Goto(o, "settle")
  /\ UNCHANGED <<blob, src, registry, caller, core, spent>>

(* ... and then the source, unless it is finished (_mark_source_terminal): *)
(* it is read ...                                                          *)
SettleSource(o) ==
  /\ worker[o].pc = "settle"
  /\ LET s == worker[o].source
     IN IF Present(s) /\ src[s].status = "processing"
        THEN Goto(o, "downgrade") /\ UNCHANGED registry
        ELSE /\ worker' = [worker EXCEPT ![o] = Idle]
             /\ IF worker[o].retry THEN UNCHANGED registry ELSE Clear(o)
  /\ UNCHANGED <<rows, caller, core, spent>>

(* ... and written, whatever became of it meanwhile.  One that is gone is  *)
(* an error that leaves the registry as it is.                             *)
DowngradeSource(o) ==
  /\ worker[o].pc = "downgrade"
  /\ LET s == worker[o].source
     IN /\ src' = IF Present(s) THEN [src EXCEPT ![s].status = worker[o].outcome] ELSE src
        /\ IF worker[o].retry \/ ~Present(s) THEN UNCHANGED registry ELSE Clear(o)
  /\ worker' = [worker EXCEPT ![o] = Idle]
  /\ UNCHANGED <<op, blob, caller, core, spent>>

-----------------------------------------------------------------------------
(* A retry from the preserved source.                                      *)

RetryOperation(o) ==
  /\ At(o, "idle") /\ spent.retries < MaxRetries
  /\ op[o].status \in {"failed", "cancelled"} /\ op[o].source # NoOp
  /\ op' = [op EXCEPT ![o].status = "processing", ![o].cancel = FALSE]
  /\ worker' = [worker EXCEPT ![o] = [Idle EXCEPT !.pc = "open", !.source = op[o].source,
                                                  !.retry = TRUE]]
  /\ event' = Registered(o) /\ alias' = [alias EXCEPT ![op[o].source] = o]
  /\ spent' = [spent EXCEPT !.retries = @ + 1]
  /\ UNCHANGED <<blob, src, caller, core>>

-----------------------------------------------------------------------------
(* cancel_operation, from another thread.                                  *)

Caller(o, pc, s) == caller' = [caller EXCEPT ![o] = [pc |-> pc, source |-> s]]

(* request_import_operation_cancel reads the row ...                       *)
RequestCancel(o) ==
  /\ core = "up" /\ caller[o].pc = "idle" /\ spent.cancels < MaxCancels
  /\ op[o].status # "none"
  /\ CASE op[o].status \in Finished          -> Caller(o, "signal", op[o].source)
       [] op[o].status = "awaiting_upload"   -> Caller(o, "terminate", NoOp)
       [] OTHER                              -> Caller(o, "flag", NoOp)
  /\ spent' = [spent EXCEPT !.cancels = @ + 1]
  /\ UNCHANGED <<rows, registry, worker, core>>

(* ... and then ends an operation that it saw waiting for its upload,      *)
TerminateWaiting(o) ==
  /\ caller[o].pc = "terminate"
  /\ IF CanSet(o, "cancelled")
     THEN /\ op' = [op EXCEPT ![o].status = "cancelled", ![o].cancel = TRUE]
          /\ Caller(o, "signal", op[o].source)
     ELSE Caller(o, "idle", NoOp) /\ UNCHANGED op
  /\ UNCHANGED <<blob, src, registry, worker, core, spent>>

(* or flags the row.                                                       *)
FlagCancel(o) ==
  /\ caller[o].pc = "flag"
  /\ op' = [op EXCEPT ![o].cancel = TRUE]
  /\ Caller(o, "signal", op[o].source)
  /\ UNCHANGED <<blob, src, registry, worker, core, spent>>

(* The keys of the operation and of its source are signalled, and          *)
(* request_import_cancel reads the source ...                              *)
SignalCancel(o) ==
  /\ caller[o].pc = "signal"
  /\ LET s == caller[o].source
     IN /\ event' = Signalled({o} \cup KeyOf(s))
        /\ IF Present(s) /\ src[s].status = "processing"
           THEN Caller(o, "source", s) ELSE Caller(o, "idle", NoOp)
  /\ UNCHANGED <<rows, alias, worker, core, spent>>

(* ... and writes it back as processing.                                   *)
FlagSource(o) ==
  /\ caller[o].pc = "source"
  /\ LET s == caller[o].source
     IN /\ src' = IF Present(s) THEN [src EXCEPT ![s].status = "processing"] ELSE src
        /\ event' = IF Present(s) THEN Signalled(KeyOf(s)) ELSE event
  /\ Caller(o, "idle", NoOp)
  /\ UNCHANGED <<op, blob, alias, worker, core, spent>>

(* The client of an upload goes away.                                      *)
Disconnect(o) ==
  /\ core = "up" /\ worker[o].pc # "idle" /\ ~worker[o].retry
  /\ spent.cancels < MaxCancels
  /\ event' = Signalled({o})
  /\ spent' = [spent EXCEPT !.cancels = @ + 1]
  /\ UNCHANGED <<rows, alias, worker, caller, core>>

-----------------------------------------------------------------------------
(* The death of the process, and recover_interrupted_operations.           *)

Crash ==
  /\ spent.crashes < MaxCrashes
  /\ core' = "booting" /\ spent' = [spent EXCEPT !.crashes = @ + 1]
  /\ worker' = [o \in Ops |-> Idle]
  /\ caller' = [o \in Ops |-> [pc |-> "idle", source |-> NoOp]]
  /\ event' = [o \in Ops |-> "none"] /\ alias' = [s \in Ops |-> NoOp]
  /\ UNCHANGED rows

(* With a source the row fails first and the source after it; without one  *)
(* the blob goes first, and a recovery that dies there repeats both.       *)
Recover(o) ==
  /\ core = "booting" /\ worker[o].pc = "idle"
  /\ op[o].status \in Running \cup {"awaiting_upload"}
  /\ op' = [op EXCEPT ![o].status = "failed"]
  /\ IF op[o].source # NoOp
     THEN /\ worker' = [worker EXCEPT ![o] = [Idle EXCEPT !.pc = "settle", !.outcome = "failed",
                                                 !.source = op[o].source, !.retry = TRUE]]
          /\ UNCHANGED blob
     ELSE /\ blob' = IF op[o].hash
                     THEN [blob EXCEPT ![op[o].content] = DeletedIncomplete(op[o].content)]
                     ELSE blob
          /\ UNCHANGED worker
  /\ UNCHANGED <<src, registry, caller, core, spent>>

(* cleanup_orphan_incomplete_blobs, and the Core serves requests.          *)
EndRecovery ==
  /\ core = "booting"
  /\ \A o \in Ops : worker[o].pc = "idle" /\ op[o].status \in Finished \cup {"none"}
  /\ blob' = [c \in Contents |->
                IF blob[c].state = "incomplete" /\ ~Referenced(c) THEN NoBlob ELSE blob[c]]
  /\ core' = "up"
  /\ UNCHANGED <<op, src, registry, worker, caller, spent>>

-----------------------------------------------------------------------------
Init ==
  /\ op = [o \in Ops |-> [status |-> "none", content |-> CHOOSE c \in Contents : TRUE,
                          service |-> "auto", hash |-> FALSE, source |-> NoOp,
                          cancel |-> FALSE]]
  /\ blob = [c \in Contents |-> NoBlob] /\ src = [s \in Ops |-> NoSource]
  /\ event = [o \in Ops |-> "none"] /\ alias = [s \in Ops |-> NoOp]
  /\ worker = [o \in Ops |-> Idle]
  /\ caller = [o \in Ops |-> [pc |-> "idle", source |-> NoOp]]
  /\ core = "up" /\ spent = [crashes |-> 0, cancels |-> 0, retries |-> 0]

Upload(o) == \/ Receive(o) \/ BeginBlob(o) \/ WriteChunk(o) \/ Finalize(o)
             \/ LinkSource(o) \/ BindSource(o)

Parse(o) == \/ OpenSource(o) \/ CopyAndParse(o) \/ Classify(o) \/ MarkProcessing(o)
            \/ RereadSource(o) \/ Submit(o) \/ Publish(o) \/ FinishSource(o) \/ CompleteOperation(o)

EndAttempt(o) == \/ Refused(o) \/ Fault(o) \/ SeeCancel(o)
                 \/ MarkSource(o) \/ UndoBlob(o) \/ CloseRow(o) \/ WriteRow(o)
                 \/ SettleSource(o) \/ DowngradeSource(o)

Work(o) == Upload(o) \/ Parse(o) \/ EndAttempt(o)

Cancel(o) == \/ RequestCancel(o) \/ TerminateWaiting(o) \/ FlagCancel(o)
             \/ SignalCancel(o) \/ FlagSource(o) \/ Disconnect(o)

Restart == (\E o \in Ops : Recover(o)) \/ EndRecovery

Next ==
  \/ \E o \in Ops :
       \/ \E c \in Contents, service \in Services : StartOperation(o, c, service)
       \/ ClaimUpload(o) \/ Work(o) \/ RetryOperation(o) \/ Cancel(o)
  \/ Crash \/ Restart

Spec == Init /\ [][Next]_vars

-----------------------------------------------------------------------------
(* Properties.                                                             *)

Statuses == {"awaiting_upload"} \cup Running \cup Finished

TypeOK ==
  /\ op \in [Ops -> [status : Statuses \cup {"none"}, content : Contents,
                     service : {"auto", Known}, hash : BOOLEAN,
                     source : Ops \cup {NoOp}, cancel : BOOLEAN]]
  /\ blob \in [Contents -> [state : {"absent", "incomplete", "complete"},
                            chunks : SUBSET (1 .. Chunks)]]
  /\ \A c \in Contents : blob[c].state = "absent" => blob[c].chunks = {}
  /\ src \in [Ops -> [status : {"absent", "processing"} \cup Finished,
                      service : {"auto", Known}, data : {"none", "staged", "published"}]]
  /\ event \in [Ops -> {"none", "clear", "set"}] /\ alias \in [Ops -> Ops \cup {NoOp}]
  /\ worker \in [Ops -> [pc : Telemetry \cup Parsing \cup Staging
                              \cup {"idle", "source", "undo", "close", "write", "settle",
                                    "downgrade"},
                         source : Ops \cup {NoOp}, outcome : {"none", "failed", "cancelled"},
                         chunk : 1 .. Chunks + 1, retry : BOOLEAN]]
  /\ caller \in [Ops -> [pc : {"idle", "terminate", "flag", "signal", "source"},
                         source : Ops \cup {NoOp}]]
  /\ core \in {"up", "booting"}

(* While the Core is up, an operation that says it is being uploaded or    *)
(* processed has a worker: a client that polls it does not wait for ever.  *)
OperationAttended ==
  core = "up" => \A o \in Ops : op[o].status \in Running => worker[o].pc # "idle"

(* While the Core is up, an incomplete blob is being written or removed:   *)
(* one that nobody attends makes every import of those bytes a conflict.   *)
BlobAttended ==
  core = "up" => \A c \in Contents : blob[c].state = "incomplete" =>
    \E o \in Ops : op[o].content = c /\ worker[o].pc \in {"chunks", "finalize", "undo"}

(* After any cancellation, fault or crash whoever waits for an operation   *)
(* or for a blob waits for a thread that will end it.                      *)
Attended == OperationAttended /\ BlobAttended

(* A complete operation stays complete, and a failed or cancelled one only *)
(* changes by a retry that has the operation to itself.                    *)
TerminalStands ==
  [][\A o \in Ops :
       /\ op[o].status = "complete" => op'[o].status = "complete"
       /\ op[o].status \in Finished /\ op'[o].status # op[o].status =>
            worker[o].pc = "idle" /\ worker'[o].pc = "open"]_vars

(* A complete operation names a source whose observations are published,   *)
(* and the raw bytes of a published source are never lost to the cleanup   *)
(* of another operation that brought the same bytes.                       *)
PublishedReadable ==
  /\ \A o \in Ops : op[o].status = "complete" =>
       Present(op[o].source) /\ src[op[o].source].data = "published"
  /\ \A s \in Ops : src[s].data = "published" => Readable(s)
=============================================================================
