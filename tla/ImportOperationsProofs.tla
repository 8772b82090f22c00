----------------------- MODULE ImportOperationsProofs -----------------------
(***************************************************************************)
(* Proofs about ImportOperations: for any number of operations, contents,  *)
(* chunks, crashes, cancellations and retries, an operation and a blob     *)
(* that are waited for have a thread that will end them, a finished        *)
(* operation stands, and what is published keeps its raw bytes.            *)
(***************************************************************************)
EXTENDS ImportOperations, TLAPS

(* The bytes of content c are whole in the store.                          *)
Full(c) == blob[c].state = "complete" /\ blob[c].chunks = 1 .. Chunks

(* The steps of a parse that has copied the bytes out of the store, ...    *)
Copied == {"classify", "mark", "reread", "ingest", "publish"}
(* ... those that come after its publication, those of an upload that has  *)
(* not filed its source yet, and those that end an attempt.                *)
Parsed == {"finish", "adopt"}
Unlinked == {"receive", "begin", "chunks", "finalize", "link"}
Ending == {"source", "undo", "close", "write", "settle", "downgrade"}

(* Step by step, what a worker relies on.                                  *)
WorkerOK(o) ==
  /\ op[o].status \in {"none", "awaiting_upload"} => worker[o].pc = "idle"
  /\ op[o].status = "none" => op[o].source = NoOp
  /\ worker[o].pc = "idle" => worker[o].source = NoOp
  /\ worker[o].pc \in {"receive", "begin"} => worker[o].chunk = 1
  /\ worker[o].pc = "chunks" => worker[o].chunk <= Chunks
  /\ worker[o].pc \in Copied => worker[o].source # NoOp /\ Full(op[o].content)
  /\ worker[o].pc \in Parsed =>
       worker[o].source # NoOp /\ src[worker[o].source].data = "published"
  /\ worker[o].pc \in Ending => worker[o].outcome \in {"failed", "cancelled"}
  /\ worker[o].pc \in {"settle", "downgrade"} => op[o].status \in Finished

(* The source s that operation o names was filed by an operation that      *)
(* brought the same bytes, and some record of those bytes exists.          *)
Named(o, s) ==
  s # NoOp => /\ op[s].status # "none" /\ op[s].content = op[o].content
              /\ Referenced(op[o].content)

NameInv == \A o \in Ops : Named(o, worker[o].source) /\ Named(o, op[o].source)

(* An operation files its source at most once: before it has linked one,   *)
(* none is named after it.                                                 *)
Unfiled(o) ==
  op[o].status \in {"none", "awaiting_upload"} \/ worker[o].pc \in Unlinked =>
    src[o].status = "absent"

SourceOK(s) ==
  /\ src[s].status = "absent" => src[s].data = "none"
  /\ src[s].status = "complete" => src[s].data = "published"
  /\ src[s].status # "absent" => blob[op[s].content].state = "complete"

WorkerInv == \A o \in Ops : WorkerOK(o)
SourceInv == \A s \in Ops : SourceOK(s) /\ Unfiled(s)

IInv == TypeOK /\ WorkerInv /\ NameInv /\ SourceInv /\ Attended /\ PublishedReadable

-----------------------------------------------------------------------------
(* The types of the rows, one by one.                                      *)

OpRow == [status : Statuses \cup {"none"}, content : Contents, service : {"auto", Known},
          hash : BOOLEAN, source : Ops \cup {NoOp}, cancel : BOOLEAN]
BlobRow == {b \in [state : {"absent", "incomplete", "complete"}, chunks : SUBSET (1 .. Chunks)] :
              b.state = "absent" => b.chunks = {}}
SrcRow == [status : {"absent", "processing"} \cup Finished, service : {"auto", Known},
           data : {"none", "staged", "published"}]
WorkerRow == [pc : Telemetry \cup Parsing \cup Staging
                   \cup {"idle", "source", "undo", "close", "write", "settle", "downgrade"},
              source : Ops \cup {NoOp}, outcome : {"none", "failed", "cancelled"},
              chunk : 1 .. Chunks + 1, retry : BOOLEAN]
CallerRow == [pc : {"idle", "terminate", "flag", "signal", "source"}, source : Ops \cup {NoOp}]

RowType == op \in [Ops -> OpRow] /\ worker \in [Ops -> WorkerRow]
StoreType == blob \in [Contents -> BlobRow] /\ src \in [Ops -> SrcRow]
OtherType == /\ event \in [Ops -> {"none", "clear", "set"}]
             /\ alias \in [Ops -> Ops \cup {NoOp}]
             /\ caller \in [Ops -> CallerRow] /\ core \in {"up", "booting"}

LEMMA Typed == TypeOK <=> RowType /\ StoreType /\ OtherType
  <1>1. blob \in [Contents -> BlobRow]
          <=> /\ blob \in [Contents -> [state : {"absent", "incomplete", "complete"},
                                        chunks : SUBSET (1 .. Chunks)]]
              /\ \A c \in Contents : blob[c].state = "absent" => blob[c].chunks = {}
    BY SMT DEF BlobRow
  <1>2. QED
    BY <1>1 DEF TypeOK, RowType, StoreType, OtherType, OpRow, SrcRow, WorkerRow, CallerRow

LEMMA TypedNext == TypeOK' <=> RowType' /\ StoreType' /\ OtherType'
  BY Typed, PTL

-----------------------------------------------------------------------------
(* A step of one operation.                                                *)

(* Nothing of another operation or its worker changes.                     *)
Elsewhere(o) ==
  core' = core /\ \A x \in Ops \ {o} : op'[x] = op[x] /\ worker'[x] = worker[x]

(* What every step leaves standing.                                        *)
Kept ==
  /\ \A x \in Ops : op[x].status # "none" =>
       op'[x].status # "none" /\ op'[x].content = op[x].content
  /\ \A s \in Ops : src[s].data = "published" => src'[s].data = "published"
  /\ \A c \in Contents : Referenced(c) => Referenced(c)'
  /\ \A c \in Contents : Referenced(c) /\ Full(c) => Full(c)'

(* What the step owes to its own operation.                                *)
Own(o) ==
  /\ WorkerOK(o)' /\ Named(o, worker[o].source)' /\ Named(o, op[o].source)'
  /\ core = "up" /\ op'[o].status \in Running => worker'[o].pc # "idle"

Writing == {"chunks", "finalize", "undo"}

(* No incomplete blob is left to nobody.                                   *)
BlobsOwned(o) ==
  /\ \A c \in Contents : blob'[c].state = "incomplete" =>
       blob[c].state = "incomplete" \/ (op'[o].content = c /\ worker'[o].pc \in Writing)
  /\ worker[o].pc \in Writing =>
       \/ worker'[o].pc \in Writing /\ op'[o].content = op[o].content
       \/ blob'[op[o].content].state # "incomplete"

(* What is complete or published by the step.                              *)
Publishes ==
  /\ \A x \in Ops : op'[x].status = "complete" =>
       \/ op[x].status = "complete" /\ op'[x].source = op[x].source
       \/ op'[x].source \in Ops /\ src'[op'[x].source].data = "published"
  /\ \A s \in Ops : src'[s].data = "published" =>
       src[s].data = "published" \/ Full(op[s].content)'

LEMMA OneStep ==
  ASSUME IInv, TypeOK', SourceInv', NEW o \in Ops, Elsewhere(o), Kept, Own(o),
         BlobsOwned(o), Publishes
  PROVE  IInv'
  <1>1. ASSUME NEW x \in Ops
        PROVE  WorkerOK(x)' /\ Named(x, worker[x].source)' /\ Named(x, op[x].source)'
    <2>1. CASE x = o
      BY <2>1 DEF Own
    <2>2. CASE x # o
      <3>1. op'[x] = op[x] /\ worker'[x] = worker[x]
        BY <2>2 DEF Elsewhere
      <3>2. op[x].content \in Contents /\ op[x].source \in Ops \cup {NoOp}
              /\ worker[x].source \in Ops \cup {NoOp}
        BY DEF IInv, TypeOK
      <3>3. WorkerOK(x) /\ Named(x, worker[x].source) /\ Named(x, op[x].source)
        BY DEF IInv, WorkerInv, NameInv
      <3>4. worker[x].pc \in Copied => Full(op[x].content)'
        BY <3>2, <3>3 DEF WorkerOK, Named, Kept
      <3>5. worker[x].pc \in Parsed => src'[worker[x].source].data = "published"
        BY <3>2, <3>3 DEF WorkerOK, Kept
      <3>6. WorkerOK(x)'
        BY <3>1, <3>3, <3>4, <3>5 DEF WorkerOK
      <3>7. ASSUME NEW s \in Ops \cup {NoOp}, Named(x, s)
            PROVE  Named(x, s)'
        <4>1. CASE s = NoOp
          BY <4>1 DEF Named
        <4>2. CASE s # NoOp
          BY <4>2, <3>1, <3>2, <3>7 DEF Named, Kept
        <4>3. QED
          BY <4>1, <4>2
      <3>8. QED
        BY <3>1, <3>2, <3>3, <3>6, <3>7
    <2>3. QED
      BY <2>1, <2>2
  <1>2. WorkerInv' /\ NameInv'
    BY <1>1 DEF WorkerInv, NameInv
  <1>3. OperationAttended'
    BY DEF OperationAttended, IInv, Attended, Own, Elsewhere
  <1>4. ASSUME core' = "up", NEW c \in Contents, blob'[c].state = "incomplete"
        PROVE  \E x \in Ops : op'[x].content = c /\ worker'[x].pc \in Writing
    <2>1. CASE op'[o].content = c /\ worker'[o].pc \in Writing
      BY <2>1
    <2>2. CASE blob[c].state = "incomplete"
      <3>1. PICK x \in Ops : op[x].content = c /\ worker[x].pc \in Writing
        BY <1>4, <2>2 DEF IInv, Attended, BlobAttended, Elsewhere, Writing
      <3>2. CASE x = o
        BY <1>4, <3>1, <3>2 DEF BlobsOwned
      <3>3. CASE x # o
        BY <3>1, <3>3 DEF Elsewhere
      <3>4. QED
        BY <3>2, <3>3
    <2>3. QED
      BY <1>4, <2>1, <2>2 DEF BlobsOwned
  <1>5. BlobAttended'
    BY <1>4 DEF BlobAttended, Writing
  <1>6. ASSUME NEW s \in Ops, src'[s].data = "published"
        PROVE  Present(s)' /\ Readable(s)'
    <2>1. Present(s)'
      BY <1>6 DEF SourceInv, SourceOK, Present
    <2>2. CASE src[s].data = "published"
      <3>1. Readable(s) /\ op[s].status # "none" /\ op[s].content \in Contents
        BY <2>2 DEF IInv, PublishedReadable, SourceInv, Unfiled, Readable, Present, TypeOK
      <3>2. Referenced(op[s].content) /\ Full(op[s].content)
        BY <3>1 DEF Readable, Referenced, Full, Blob
      <3>3. Full(op[s].content)'
        BY <3>1, <3>2 DEF Kept
      <3>4. QED
        BY <2>1, <3>3 DEF Readable, Full, Blob
    <2>3. CASE Full(op[s].content)'
      BY <2>1, <2>3 DEF Readable, Full, Blob
    <2>4. QED
      BY <1>6, <2>2, <2>3 DEF Publishes
  <1>7. ASSUME NEW x \in Ops, op'[x].status = "complete"
        PROVE  Present(op[x].source)' /\ src'[op'[x].source].data = "published"
    <2>1. op'[x].source \in Ops /\ src'[op'[x].source].data = "published"
      BY <1>7 DEF Publishes, IInv, PublishedReadable, Present, Kept
    <2>2. QED
      BY <2>1, <1>6
  <1>8. PublishedReadable'
    BY <1>6, <1>7 DEF PublishedReadable
  <1>9. QED
    BY <1>2, <1>3, <1>5, <1>8 DEF IInv, Attended

-----------------------------------------------------------------------------
(* The same for a step that leaves the sources, or the store, alone.       *)

(* The operation's row keeps its bytes, and may begin.                     *)
SameBytes(o) == op[o].status # "none" =>
                  op'[o].status # "none" /\ op'[o].content = op[o].content

(* A row that completes names a published source.                          *)
RowPublishes(o) == op'[o].status = "complete" =>
                     \/ op[o].status = "complete" /\ op'[o].source = op[o].source
                     \/ op'[o].source \in Ops /\ src'[op'[o].source].data = "published"

LEMMA Others ==
  ASSUME NEW o \in Ops, Elsewhere(o), NEW x \in Ops, x # o
  PROVE  op'[x] = op[x] /\ worker'[x] = worker[x]
  BY DEF Elsewhere

LEMMA KeptReference ==
  ASSUME IInv, NEW o \in Ops, Elsewhere(o), SameBytes(o),
         \A s \in Ops : src[s].status # "absent" => src'[s].status # "absent",
         NEW c \in Contents, Referenced(c)
  PROVE  Referenced(c)'
  <1>1. PICK s \in Ops : Present(s) /\ op[s].content = c
    BY DEF Referenced
  <1>2. op[s].status # "none"
    BY <1>1 DEF IInv, SourceInv, Unfiled, Present
  <1>3. op'[s].content = c
    BY <1>1, <1>2, Others DEF SameBytes
  <1>4. Present(s)'
    BY <1>1 DEF Present
  <1>5. QED
    BY <1>3, <1>4 DEF Referenced

LEMMA Parts ==
  ASSUME IInv
  PROVE  RowType /\ StoreType /\ OtherType /\ WorkerInv /\ NameInv /\ SourceInv
  BY Typed DEF IInv

LEMMA IdleTyped == Idle \in WorkerRow /\ Idle.pc = "idle" /\ Idle.source = NoOp /\ Idle.chunk = 1
  <1>1. 1 \in 1 .. Chunks + 1
    BY ImportAssumption
  <1>2. QED
    BY <1>1 DEF WorkerRow, Idle

(* What operation o named stays what it was.                               *)
LEMMA NamedKept ==
  ASSUME IInv, NEW o \in Ops, Elsewhere(o), SameBytes(o),
         \A s \in Ops : src[s].status # "absent" => src'[s].status # "absent",
         NEW s \in {op[o].source, worker[o].source, NoOp}
  PROVE  Named(o, s)'
  <1>1. CASE s = NoOp
    BY <1>1 DEF Named
  <1>2. CASE s # NoOp
    <2>1. Named(o, s) /\ s \in Ops /\ op[o].content \in Contents
      BY <1>2 DEF IInv, NameInv, TypeOK
    <2>2. op[o].status # "none"
      BY <1>2 DEF IInv, WorkerInv, WorkerOK
    <2>3. Referenced(op[o].content)'
      <3>1. Referenced(op[o].content) /\ op'[o].content = op[o].content
        BY <1>2, <2>1, <2>2 DEF Named, SameBytes
      <3>2. Referenced(op[o].content)
        BY <3>1
      <3>3. PICK t \in Ops : Present(t) /\ op[t].content = op[o].content
        BY <3>2 DEF Referenced
      <3>4. op[t].status # "none"
        BY <3>3 DEF IInv, SourceInv, Unfiled, Present
      <3>5. op'[t].content = op'[o].content
        BY <3>1, <3>3, <3>4, Others DEF SameBytes
      <3>6. src'[t].status # "absent"
        BY <3>3 DEF Present
      <3>7. QED
        BY <3>5, <3>6 DEF Referenced, Present
    <2>4. op'[s].status # "none" /\ op'[s].content = op'[o].content
      BY <1>2, <2>1, <2>2, Others DEF Named, SameBytes
    <2>5. QED
      BY <2>3, <2>4 DEF Named
  <1>3. QED
    BY <1>1, <1>2

LEMMA RegisteredTyped ==
  ASSUME OtherType, NEW o \in Ops
  PROVE  Registered(o) \in [Ops -> {"none", "clear", "set"}]
  BY DEF OtherType, Registered

LEMMA ClearTyped ==
  ASSUME OtherType, NEW o \in Ops, Clear(o)
  PROVE  /\ event' \in [Ops -> {"none", "clear", "set"}]
         /\ alias' \in [Ops -> Ops \cup {NoOp}]
  BY DEF OtherType, Clear

LEMMA RowStep ==
  ASSUME IInv, RowType', OtherType', UNCHANGED <<blob, src>>, NEW o \in Ops, Elsewhere(o),
         SameBytes(o), Own(o), Unfiled(o)', RowPublishes(o),
         worker[o].pc \in Writing => worker'[o].pc \in Writing /\ op'[o].content = op[o].content
  PROVE  IInv'
  <1>1. TypeOK'
    <2>1. StoreType'
      BY Typed DEF IInv, StoreType
    <2>2. QED
      BY <2>1, TypedNext
  <1>2. SourceInv'
    <2>1. ASSUME NEW x \in Ops PROVE SourceOK(x)' /\ Unfiled(x)'
      <3>1. SourceOK(x) /\ Unfiled(x) /\ op[x].content \in Contents
        BY Parts DEF SourceInv, RowType, OpRow
      <3>2. op[x].status # "none" => op'[x].content = op[x].content
        BY Others DEF SameBytes
      <3>3. SourceOK(x)'
        BY <3>1, <3>2 DEF SourceOK, Unfiled
      <3>4. Unfiled(x)'
        BY <3>1, Others DEF Unfiled
      <3>5. QED
        BY <3>3, <3>4
    <2>2. QED
      BY <2>1 DEF SourceInv
  <1>3. Kept
    <2>1. \A c \in Contents : Referenced(c) => Referenced(c)'
      BY KeptReference
    <2>2. \A x \in Ops : op[x].status # "none" =>
            op'[x].status # "none" /\ op'[x].content = op[x].content
      BY Others DEF SameBytes
    <2>3. \A c \in Contents : Full(c) => Full(c)'
      BY DEF Full
    <2>4. QED
      BY <2>1, <2>2, <2>3 DEF Kept
  <1>4. BlobsOwned(o)
    BY DEF BlobsOwned
  <1>5. Publishes
    BY Others DEF Publishes, RowPublishes
  <1>6. QED
    BY <1>1, <1>2, <1>3, <1>4, <1>5, OneStep

LEMMA BlobStep ==
  ASSUME IInv, RowType', StoreType', OtherType', UNCHANGED src, NEW o \in Ops, Elsewhere(o),
         SameBytes(o), Own(o), Unfiled(o)', RowPublishes(o), BlobsOwned(o),
         \A c \in Contents : blob[c].state = "complete" => blob'[c].state = "complete",
         \A c \in Contents : Referenced(c) /\ Full(c) => Full(c)'
  PROVE  IInv'
  <1>1. TypeOK'
    BY TypedNext
  <1>2. SourceInv'
    <2>1. ASSUME NEW x \in Ops PROVE SourceOK(x)' /\ Unfiled(x)'
      <3>1. SourceOK(x) /\ Unfiled(x) /\ op[x].content \in Contents
        BY Parts DEF SourceInv, RowType, OpRow
      <3>2. op[x].status # "none" => op'[x].content = op[x].content
        BY Others DEF SameBytes
      <3>3. SourceOK(x)'
        BY <3>1, <3>2 DEF SourceOK, Unfiled
      <3>4. Unfiled(x)'
        BY <3>1, Others DEF Unfiled
      <3>5. QED
        BY <3>3, <3>4
    <2>2. QED
      BY <2>1 DEF SourceInv
  <1>3. Kept
    <2>1. \A c \in Contents : Referenced(c) => Referenced(c)'
      BY KeptReference
    <2>2. \A x \in Ops : op[x].status # "none" =>
            op'[x].status # "none" /\ op'[x].content = op[x].content
      BY Others DEF SameBytes
    <2>3. QED
      BY <2>1, <2>2 DEF Kept
  <1>4. Publishes
    BY Others DEF Publishes, RowPublishes
  <1>5. QED
    BY <1>1, <1>2, <1>3, <1>4, OneStep

(* A step on the sources: the row of o stays.                              *)
LEMMA SourceStep ==
  ASSUME IInv, RowType', StoreType', OtherType', UNCHANGED <<op, blob>>, NEW o \in Ops,
         Elsewhere(o), Own(o), SourceInv',
         \A s \in Ops : src[s].data = "published" => src'[s].data = "published",
         \A c \in Contents : Referenced(c) => Referenced(c)',
         \A s \in Ops : src'[s].data = "published" =>
           src[s].data = "published" \/ Full(op[s].content),
         worker[o].pc \in Writing => worker'[o].pc \in Writing
  PROVE  IInv'
  <1>1. TypeOK'
    BY TypedNext
  <1>2. \A c \in Contents : Full(c) => Full(c)'
    BY DEF Full
  <1>3. Kept
    BY <1>2 DEF Kept
  <1>4. BlobsOwned(o)
    BY DEF BlobsOwned
  <1>5. \A s \in Ops : Full(op[s].content) => Full(op[s].content)'
    BY DEF Full
  <1>6. \A x \in Ops : op'[x] = op[x]
    OBVIOUS
  <1>7. Publishes
    BY <1>5, <1>6 DEF Publishes
  <1>8. QED
    BY <1>1, <1>3, <1>4, <1>7, OneStep

-----------------------------------------------------------------------------
(* The steps that write the row of an operation.                           *)

LEMMA StartOperationStep ==
  ASSUME IInv, NEW o \in Ops, NEW c \in Contents, NEW service \in Services,
         StartOperation(o, c, service)
  PROVE  IInv'
  <1> USE DEF StartOperation
  <1>1. RowType /\ OtherType /\ WorkerOK(o) /\ Unfiled(o) /\ service \in {"auto", Known}
    BY Parts, ImportAssumption DEF WorkerInv, SourceInv
  <1>2. op' \in [Ops -> OpRow] /\ worker' \in [Ops -> WorkerRow]
    BY <1>1 DEF RowType, OpRow, Statuses
  <1>3. OtherType'
    BY <1>1, RegisteredTyped DEF OtherType
  <1>4. /\ op'[o].status = "awaiting_upload" /\ op'[o].content = c
        /\ op'[o].source = NoOp /\ worker'[o].pc = "idle" /\ worker'[o].source = NoOp
    BY <1>1 DEF RowType, OpRow, WorkerOK
  <1>5. Elsewhere(o) /\ SameBytes(o) /\ RowPublishes(o) /\ Unfiled(o)'
    BY <1>1, <1>4 DEF Elsewhere, SameBytes, RowPublishes, Unfiled, RowType
  <1>6. Own(o)
    BY <1>4 DEF Own, WorkerOK, Named, Running, Copied, Parsed, Ending
  <1>7. worker[o].pc \notin Writing
    BY <1>4 DEF Writing
  <1>8. QED
    BY <1>2, <1>3, <1>5, <1>6, <1>7, RowStep DEF RowType

LEMMA ClaimUploadStep ==
  ASSUME IInv, NEW o \in Ops, ClaimUpload(o)
  PROVE  IInv'
  <1> USE DEF ClaimUpload, At
  <1>1. RowType /\ OtherType /\ WorkerOK(o) /\ Unfiled(o)
    BY Parts DEF WorkerInv, SourceInv
  <1>2. op' \in [Ops -> OpRow] /\ worker' \in [Ops -> WorkerRow]
    <2>1. op' \in [Ops -> OpRow]
      BY <1>1 DEF RowType, OpRow, Statuses, Running
    <2>2. [Idle EXCEPT !.pc = "receive"] \in WorkerRow
      BY IdleTyped DEF WorkerRow, Telemetry
    <2>3. QED
      BY <1>1, <2>1, <2>2 DEF RowType
  <1>3. OtherType'
    BY <1>1, RegisteredTyped DEF OtherType
  <1>4. /\ op'[o] = [op[o] EXCEPT !.status = "uploading"]
        /\ worker'[o] = [Idle EXCEPT !.pc = "receive"]
    BY <1>1 DEF RowType
  <1>5. Elsewhere(o) /\ SameBytes(o) /\ RowPublishes(o) /\ Unfiled(o)'
    BY <1>1, <1>4 DEF Elsewhere, SameBytes, RowPublishes, Unfiled, RowType, OpRow
  <1>6. Named(o, op[o].source)' /\ Named(o, worker[o].source)'
    BY <1>1, <1>4, <1>5, NamedKept DEF RowType, OpRow, Idle
  <1>7. Own(o)
    BY <1>1, <1>4, <1>6 DEF Own, WorkerOK, Running, Copied, Parsed, Ending, Idle, RowType, OpRow
  <1>8. worker[o].pc \notin Writing
    BY DEF Writing
  <1>9. QED
    BY <1>2, <1>3, <1>5, <1>7, <1>8, RowStep DEF RowType

LEMMA ReceiveStep ==
  ASSUME IInv, NEW o \in Ops, Receive(o)
  PROVE  IInv'
  <1> USE DEF Receive, At, Goto
  <1>1. RowType /\ OtherType /\ WorkerOK(o) /\ Unfiled(o)
    BY Parts DEF WorkerInv, SourceInv
  <1>2. op' \in [Ops -> OpRow] /\ worker' \in [Ops -> WorkerRow]
    <2>1. op' \in [Ops -> OpRow]
      BY <1>1 DEF RowType, OpRow, Statuses, Running
    <2>2. [worker[o] EXCEPT !.pc = "begin"] \in WorkerRow
      BY <1>1 DEF RowType, WorkerRow, Telemetry
    <2>3. QED
      BY <1>1, <2>1, <2>2 DEF RowType
  <1>3. OtherType'
    BY <1>1 DEF OtherType, registry
  <1>4. /\ op'[o] = [op[o] EXCEPT !.status = "processing", !.hash = TRUE]
        /\ worker'[o] = [worker[o] EXCEPT !.pc = "begin"]
    BY <1>1 DEF RowType
  <1>5. Elsewhere(o) /\ SameBytes(o) /\ RowPublishes(o) /\ Unfiled(o)'
    BY <1>1, <1>4 DEF Elsewhere, SameBytes, RowPublishes, Unfiled, RowType, OpRow, Unlinked
  <1>6. Named(o, op[o].source)' /\ Named(o, worker[o].source)'
    BY <1>1, <1>4, <1>5, NamedKept DEF RowType, OpRow, WorkerRow, WorkerOK
  <1>7. Own(o)
    BY <1>1, <1>4, <1>6 DEF Own, WorkerOK, Copied, Parsed, Ending, RowType, OpRow, WorkerRow
  <1>8. worker[o].pc \notin Writing
    BY DEF Writing
  <1>9. QED
    BY <1>2, <1>3, <1>5, <1>7, <1>8, RowStep DEF RowType

(* A worker moves on, the rows stay.                                       *)
LEMMA MoveStep ==
  ASSUME IInv, OtherType', UNCHANGED <<op, blob, src, core>>, NEW o \in Ops,
         NEW w \in WorkerRow, worker' = [worker EXCEPT ![o] = w], w.source = worker[o].source,
         worker[o].pc # "idle", w.pc # "idle", WorkerOK(o)',
         worker[o].pc \in Writing => w.pc \in Writing,
         w.pc \in Unlinked => worker[o].pc \in Unlinked
  PROVE  IInv'
  <1>1. RowType /\ WorkerOK(o) /\ Unfiled(o)
    BY Parts DEF WorkerInv, SourceInv
  <1>2. worker' \in [Ops -> WorkerRow] /\ worker'[o] = w /\ op' \in [Ops -> OpRow]
    BY <1>1 DEF RowType
  <1>3. Elsewhere(o) /\ SameBytes(o) /\ RowPublishes(o) /\ Unfiled(o)'
    BY <1>1, <1>2 DEF Elsewhere, SameBytes, RowPublishes, Unfiled, RowType
  <1>4. op[o].status # "none"
    BY <1>1 DEF WorkerOK
  <1>5. Named(o, op[o].source)' /\ Named(o, worker[o].source)'
    BY <1>2, <1>3, <1>4, NamedKept
  <1>6. Own(o)
    BY <1>2, <1>5 DEF Own
  <1>7. QED
    BY <1>2, <1>3, <1>6, RowStep DEF RowType

LEMMA BindSourceStep ==
  ASSUME IInv, NEW o \in Ops, BindSource(o)
  PROVE  IInv'
  <1> USE DEF BindSource, At, Goto
  <1>1. RowType /\ OtherType /\ WorkerOK(o) /\ Unfiled(o)
    BY Parts DEF WorkerInv, SourceInv
  <1>2. op' \in [Ops -> OpRow] /\ worker' \in [Ops -> WorkerRow]
    <2>1. worker[o].source \in Ops \cup {NoOp}
      BY <1>1 DEF RowType, WorkerRow
    <2>2. op' \in [Ops -> OpRow]
      BY <1>1, <2>1 DEF RowType, OpRow
    <2>3. [worker[o] EXCEPT !.pc = "open"] \in WorkerRow
      BY <1>1 DEF RowType, WorkerRow, Telemetry
    <2>4. QED
      BY <1>1, <2>2, <2>3 DEF RowType
  <1>3. OtherType'
    BY <1>1 DEF OtherType, registry
  <1>4. /\ op'[o] = [op[o] EXCEPT !.source = worker[o].source]
        /\ worker'[o] = [worker[o] EXCEPT !.pc = "open"]
    BY <1>1 DEF RowType
  <1>5. Open(o) /\ op[o].status # "none"
    BY <1>1 DEF Ready, Telemetry, WorkerOK
  <1>6. Elsewhere(o) /\ SameBytes(o) /\ RowPublishes(o) /\ Unfiled(o)'
    BY <1>1, <1>4, <1>5 DEF Elsewhere, SameBytes, RowPublishes, Unfiled, RowType, OpRow,
                            Unlinked, Open, Finished
  <1>7. Named(o, op[o].source)' /\ Named(o, worker[o].source)'
    BY <1>1, <1>4, <1>5, <1>6, NamedKept DEF RowType, OpRow, WorkerRow
  <1>8. Own(o)
    BY <1>1, <1>4, <1>5, <1>7 DEF Own, WorkerOK, Copied, Parsed, Ending, RowType, OpRow, WorkerRow
  <1>9. worker[o].pc \notin Writing
    BY DEF Writing
  <1>10. QED
    BY <1>2, <1>3, <1>6, <1>8, <1>9, RowStep DEF RowType

LEMMA OpenSourceStep ==
  ASSUME IInv, NEW o \in Ops, OpenSource(o)
  PROVE  IInv'
  <1> USE DEF OpenSource, At, Goto
  <1>1. RowType /\ OtherType /\ WorkerOK(o)
    BY Parts DEF WorkerInv
  <1>2. worker[o].source \in Ops
    BY DEF Ready, Accepted, Present
  <1>3. OtherType'
    <2>1. UNCHANGED registry => OtherType'
      BY <1>1 DEF OtherType, registry
    <2>2. event' = Registered(o) /\ alias' = [alias EXCEPT ![worker[o].source] = o] => OtherType'
      BY <1>1, <1>2, RegisteredTyped DEF OtherType
    <2>3. QED
      BY <2>1, <2>2
  <1>4. worker[o].source # NoOp
    BY <1>2, ImportAssumption
  <1>5. CASE src[worker[o].source].status = "complete"
    <2> DEFINE w == [worker[o] EXCEPT !.pc = "adopt"]
    <2>1. w \in WorkerRow /\ w.source = worker[o].source /\ w.pc = "adopt"
            /\ worker' = [worker EXCEPT ![o] = w]
      BY <1>1, <1>5 DEF RowType, WorkerRow, Telemetry
    <2>2. src[worker[o].source].data = "published"
      BY <1>2, <1>5, Parts DEF SourceInv, SourceOK
    <2>3. worker'[o] = w /\ op' = op /\ src' = src
      BY <1>1, <2>1 DEF RowType, rows
    <2>4. WorkerOK(o)'
      BY <1>1, <1>4, <2>1, <2>2, <2>3 DEF WorkerOK, Copied, Parsed, Ending
    <2>5. worker[o].pc \notin Writing /\ w.pc \notin Unlinked
      BY <2>1 DEF Writing, Unlinked
    <2> HIDE DEF w
    <2>6. QED
      BY <1>3, <2>1, <2>4, <2>5, MoveStep DEF rows
  <1>6. CASE src[worker[o].source].status # "complete"
    <2> DEFINE w == [worker[o] EXCEPT !.pc = "copy"]
    <2>1. w \in WorkerRow /\ w.source = worker[o].source /\ w.pc = "copy"
            /\ worker' = [worker EXCEPT ![o] = w]
      BY <1>1, <1>6 DEF RowType, WorkerRow, Telemetry
    <2>2. worker'[o] = w /\ op' = op /\ src' = src
      BY <1>1, <2>1 DEF RowType, rows
    <2>3. WorkerOK(o)'
      BY <1>1, <2>1, <2>2 DEF WorkerOK, Copied, Parsed, Ending
    <2>4. worker[o].pc \notin Writing /\ w.pc \notin Unlinked
      BY <2>1 DEF Writing, Unlinked
    <2> HIDE DEF w
    <2>5. QED
      BY <1>3, <2>1, <2>3, <2>4, MoveStep DEF rows
  <1>7. QED
    BY <1>5, <1>6

LEMMA CopyAndParseStep ==
  ASSUME IInv, NEW o \in Ops, CopyAndParse(o)
  PROVE  IInv'
  <1> USE DEF CopyAndParse, At, Goto
  <1>1. RowType /\ OtherType /\ WorkerOK(o) /\ Named(o, worker[o].source)
    BY Parts DEF WorkerInv, NameInv
  <1>2. OtherType'
    BY <1>1 DEF OtherType, registry
  <1> DEFINE w == [worker[o] EXCEPT !.pc = "classify"]
  <1>3. w \in WorkerRow /\ w.source = worker[o].source /\ w.pc = "classify"
          /\ worker' = [worker EXCEPT ![o] = w]
    BY <1>1 DEF RowType, WorkerRow, Parsing
  <1>4. Readable(worker[o].source) /\ worker[o].source # NoOp
    BY ImportAssumption DEF Ready, Accepted, Readable, Present
  <1>5. Full(op[o].content)
    BY <1>1, <1>4 DEF Named, Readable, Full, Blob
  <1>6. worker'[o] = w /\ op' = op /\ src' = src /\ blob' = blob
    BY <1>1, <1>3 DEF RowType, rows
  <1>7. Full(op[o].content)'
    BY <1>5, <1>6 DEF Full
  <1>8. WorkerOK(o)'
    BY <1>1, <1>3, <1>4, <1>6, <1>7 DEF WorkerOK, Copied, Parsed, Ending
  <1>9. worker[o].pc \notin Writing /\ w.pc \notin Unlinked
    BY <1>3 DEF Writing, Unlinked
  <1> HIDE DEF w
  <1>10. QED
    BY <1>2, <1>3, <1>8, <1>9, MoveStep DEF rows

LEMMA RereadSourceStep ==
  ASSUME IInv, NEW o \in Ops, RereadSource(o)
  PROVE  IInv'
  <1> USE DEF RereadSource, At, Goto
  <1>1. RowType /\ OtherType /\ WorkerOK(o)
    BY Parts DEF WorkerInv
  <1>2. worker[o].source \in Ops /\ worker[o].source # NoOp
    BY ImportAssumption DEF Ready, Accepted, Present
  <1>3. OtherType'
    BY <1>1, ClearTyped DEF OtherType, registry
  <1> DEFINE pc == IF src[worker[o].source].status = "complete" THEN "adopt" ELSE "ingest"
             w == [worker[o] EXCEPT !.pc = pc]
  <1>4. pc \in {"adopt", "ingest"} /\ worker' = [worker EXCEPT ![o].pc = pc]
    OBVIOUS
  <1>5. pc = "adopt" => src[worker[o].source].data = "published"
    BY <1>2, Parts DEF SourceInv, SourceOK
  <1> HIDE DEF pc
  <1>6. w \in WorkerRow /\ w.source = worker[o].source /\ w.pc = pc
          /\ worker' = [worker EXCEPT ![o] = w]
    BY <1>1, <1>4 DEF RowType, WorkerRow, Telemetry
  <1>7. worker'[o] = w /\ op' = op /\ src' = src /\ blob' = blob
    BY <1>1, <1>6 DEF RowType, rows
  <1>8. Full(op[o].content)'
    BY <1>1, <1>7 DEF WorkerOK, Copied, Full
  <1>9. WorkerOK(o)'
    BY <1>1, <1>2, <1>4, <1>5, <1>6, <1>7, <1>8 DEF WorkerOK, Copied, Parsed, Ending
  <1>10. worker[o].pc \notin Writing /\ w.pc \notin Unlinked /\ w.pc # "idle"
    BY <1>4, <1>6 DEF Writing, Unlinked
  <1> HIDE DEF w
  <1>11. QED
    BY <1>3, <1>6, <1>9, <1>10, MoveStep DEF rows

LEMMA CompleteOperationStep ==
  ASSUME IInv, NEW o \in Ops, CompleteOperation(o)
  PROVE  IInv'
  <1> USE DEF CompleteOperation, At
  <1>1. RowType /\ OtherType /\ WorkerOK(o) /\ Unfiled(o)
    BY Parts DEF WorkerInv, SourceInv
  <1>2. worker[o].source \in Ops /\ src[worker[o].source].data = "published"
    BY <1>1 DEF WorkerOK, Parsed, RowType, WorkerRow
  <1>3. op' \in [Ops -> OpRow] /\ worker' \in [Ops -> WorkerRow]
    <2>1. op' \in [Ops -> OpRow]
      BY <1>1, <1>2 DEF RowType, OpRow, Statuses, Finished
    <2>2. QED
      BY <1>1, <2>1, IdleTyped DEF RowType
  <1>4. OtherType'
    BY <1>1, ClearTyped DEF OtherType
  <1>5. /\ op'[o] = [op[o] EXCEPT !.status = "complete", !.source = worker[o].source]
        /\ worker'[o] = Idle
    BY <1>1 DEF RowType
  <1>6. Elsewhere(o) /\ SameBytes(o) /\ RowPublishes(o) /\ Unfiled(o)'
    BY <1>1, <1>2, <1>5, IdleTyped DEF Elsewhere, SameBytes, RowPublishes, Unfiled, RowType, OpRow,
                                       Unlinked
  <1>7. op[o].status # "none"
    BY <1>1 DEF WorkerOK
  <1>8. Named(o, op[o].source)' /\ Named(o, worker[o].source)'
    BY <1>1, <1>5, <1>6, <1>7, NamedKept, IdleTyped DEF RowType, OpRow
  <1>9. Own(o)
    BY <1>1, <1>5, <1>8, IdleTyped DEF Own, WorkerOK, Running, Copied, Parsed, Ending, RowType, OpRow
  <1>10. worker[o].pc \notin Writing
    BY DEF Writing
  <1>11. QED
    BY <1>3, <1>4, <1>6, <1>9, <1>10, RowStep DEF RowType

LEMMA RaiseStep ==
  ASSUME IInv, NEW o \in Ops, NEW outcome \in {"failed", "cancelled"}, core = "up",
         worker[o].pc \in Telemetry \cup Parsing \cup Staging,
         outcome = "cancelled" => CanSet(o, "cancelled"), Raise(o, outcome)
  PROVE  IInv'
  <1> DEFINE written == (worker[o].pc \in Parsing /\ CanSet(o, outcome)) \/ outcome = "cancelled"
             next == CASE worker[o].pc \in Parsing /\ CanSet(o, outcome) -> "source"
                       [] worker[o].pc \in Staging -> "undo"
                       [] OTHER -> "close"
  <1>1. RowType /\ OtherType /\ WorkerOK(o) /\ Unfiled(o)
    BY Parts DEF WorkerInv, SourceInv
  <1>2. /\ op' = IF written THEN [op EXCEPT ![o].status = outcome] ELSE op
        /\ worker' = [worker EXCEPT ![o].pc = next, ![o].outcome = outcome]
        /\ UNCHANGED <<blob, src, registry, caller, core, spent>>
    BY DEF Raise
  <1>3. written => op[o].status = "none" \/ CanSet(o, outcome)
    OBVIOUS
  <1>4. next \in {"source", "undo", "close"} /\ (worker[o].pc \in Writing => next = "undo")
    BY DEF Parsing, Staging, Writing, Telemetry
  <1>5. worker[o].pc # "idle" /\ op[o].status \notin {"none", "awaiting_upload"}
    BY <1>1 DEF WorkerOK, Telemetry, Parsing, Staging
  <1> HIDE DEF written, next
  <1>6. /\ op'[o] = IF written THEN [op[o] EXCEPT !.status = outcome] ELSE op[o]
        /\ worker'[o] = [worker[o] EXCEPT !.pc = next, !.outcome = outcome]
    BY <1>1, <1>2 DEF RowType
  <1>7. op' \in [Ops -> OpRow] /\ worker' \in [Ops -> WorkerRow]
    <2>1. op' \in [Ops -> OpRow]
      BY <1>1, <1>2 DEF RowType, OpRow, Statuses, Finished
    <2>2. worker' \in [Ops -> WorkerRow]
      <3>1. worker'[o] \in WorkerRow
        BY <1>1, <1>4, <1>6 DEF RowType, WorkerRow
      <3>2. QED
        BY <1>1, <1>2, <1>6, <3>1 DEF RowType
    <2>3. QED
      BY <2>1, <2>2
  <1>8. OtherType'
    BY <1>1, <1>2 DEF OtherType, registry
  <1>9. /\ op'[o].content = op[o].content /\ op'[o].source = op[o].source
        /\ op'[o].status \in {op[o].status, outcome}
        /\ worker'[o].pc = next /\ worker'[o].outcome = outcome
        /\ worker'[o].source = worker[o].source
    BY <1>1, <1>6 DEF RowType, OpRow, WorkerRow
  <1>10. Elsewhere(o) /\ SameBytes(o) /\ RowPublishes(o) /\ Unfiled(o)'
    BY <1>1, <1>2, <1>4, <1>5, <1>9 DEF Elsewhere, SameBytes, RowPublishes, Unfiled, RowType, Unlinked
  <1>11. Named(o, op[o].source)' /\ Named(o, worker[o].source)'
    BY <1>2, <1>5, <1>9, <1>10, NamedKept
  <1>12. Own(o)
    BY <1>4, <1>5, <1>9, <1>11 DEF Own, WorkerOK, Copied, Parsed, Ending
  <1>13. worker[o].pc \in Writing => worker'[o].pc \in Writing
    BY <1>4, <1>9 DEF Writing
  <1>14. QED
    BY <1>2, <1>7, <1>8, <1>9, <1>10, <1>12, <1>13, RowStep DEF RowType

(* The row of an attempt that ends is left as it is or gets the outcome.   *)
LEMMA RowEnds ==
  ASSUME IInv, NEW o \in Ops, worker[o].pc \in {"close", "write"},
         NEW r \in OpRow, NEW w \in WorkerRow,
         op' = [op EXCEPT ![o] = r], worker' = [worker EXCEPT ![o] = w],
         UNCHANGED <<blob, src, registry, caller, core, spent>>,
         r = op[o] \/ r.status = worker[o].outcome, r.content = op[o].content,
         r.source \in {op[o].source, worker[o].source},
         w.pc \in {"write", "settle"}, w.outcome = worker[o].outcome,
         w.source \in {op[o].source, worker[o].source, NoOp},
         w.pc = "settle" => r.status \in Finished
  PROVE  IInv'
  <1>1. RowType /\ OtherType /\ WorkerOK(o) /\ Unfiled(o)
    BY Parts DEF WorkerInv, SourceInv
  <1>2. /\ op' \in [Ops -> OpRow] /\ worker' \in [Ops -> WorkerRow]
        /\ op'[o] = r /\ worker'[o] = w /\ Elsewhere(o)
    BY <1>1 DEF RowType, Elsewhere
  <1>3. OtherType'
    BY <1>1 DEF OtherType, registry
  <1>4. worker[o].outcome \in {"failed", "cancelled"} /\ op[o].status \notin {"none", "awaiting_upload"}
    BY <1>1 DEF WorkerOK, Ending
  <1>5. /\ op'[o].status \in {op[o].status, worker[o].outcome} /\ op'[o].content = op[o].content
        /\ op'[o].source \in {op[o].source, worker[o].source}
    BY <1>2
  <1>6. SameBytes(o) /\ RowPublishes(o) /\ Unfiled(o)'
    BY <1>1, <1>2, <1>4, <1>5 DEF SameBytes, RowPublishes, Unfiled, Unlinked
  <1>7. Named(o, op[o].source)' /\ Named(o, worker[o].source)'
    BY <1>2, <1>4, <1>5, <1>6, NamedKept
  <1>8. Own(o)
    BY <1>2, <1>4, <1>5, <1>7 DEF Own, WorkerOK, Copied, Parsed, Ending, Finished
  <1>9. worker[o].pc \notin Writing
    BY DEF Writing
  <1>10. QED
    BY <1>2, <1>3, <1>6, <1>8, <1>9, RowStep DEF RowType

(* The row is read, and at once bound when it has the outcome already.     *)
LEMMA CloseRowStep ==
  ASSUME IInv, NEW o \in Ops, CloseRow(o)
  PROVE  IInv'
  <1> DEFINE s == IF worker[o].source = NoOp THEN op[o].source ELSE worker[o].source
             r == [op[o] EXCEPT !.source = s]
             To(pc, t) == [worker[o] EXCEPT !.pc = pc, !.source = t]
  <1>1. RowType /\ WorkerOK(o) /\ op[o] \in OpRow /\ worker[o] \in WorkerRow
    BY Parts DEF WorkerInv, RowType
  <1>2. /\ worker[o].pc = "close" /\ worker[o].outcome \in {"failed", "cancelled"}
        /\ UNCHANGED <<blob, src, registry, caller, core, spent>>
    BY <1>1 DEF CloseRow, At, WorkerOK, Ending
  <1>3. s \in {op[o].source, worker[o].source} /\ s \in Ops \cup {NoOp}
    BY <1>1 DEF OpRow, WorkerRow
  <1>4. op = [op EXCEPT ![o] = op[o]]
    BY <1>1 DEF RowType
  <1>5. CASE op[o].status = worker[o].outcome
    <2>1. op' = [op EXCEPT ![o] = r] /\ worker' = [worker EXCEPT ![o] = To("settle", s)]
      BY <1>1, <1>2, <1>5 DEF CloseRow, Open, Finished, RowType, OpRow, WorkerRow
    <2> HIDE DEF s
    <2>2. /\ r \in OpRow /\ r.status = op[o].status /\ r.content = op[o].content
          /\ r.source = s /\ r.status \in Finished
      BY <1>1, <1>2, <1>3, <1>5 DEF OpRow, Finished
    <2>3. /\ To("settle", s) \in WorkerRow /\ To("settle", s).pc = "settle"
          /\ To("settle", s).outcome = worker[o].outcome /\ To("settle", s).source = s
      BY <1>1, <1>3 DEF WorkerRow
    <2> HIDE DEF r, To
    <2>4. QED
      BY <1>2, <1>3, <1>5, <2>1, <2>2, <2>3, RowEnds
  <1>6. CASE op[o].status # worker[o].outcome
    <2>1. PICK pc \in {"write", "settle"}, t \in {s, NoOp} :
            /\ op' = op /\ worker' = [worker EXCEPT ![o] = To(pc, t)]
            /\ pc = "settle" => ~Open(o)
      BY <1>1, <1>6 DEF CloseRow, RowType, WorkerRow
    <2> HIDE DEF s
    <2>2. /\ To(pc, t) \in WorkerRow /\ To(pc, t).pc = pc
          /\ To(pc, t).outcome = worker[o].outcome /\ To(pc, t).source = t
      BY <1>1, <1>3 DEF WorkerRow
    <2> HIDE DEF To
    <2>3. pc = "settle" => op[o].status \in Finished
      BY <2>1 DEF Open
    <2>4. op' = [op EXCEPT ![o] = op[o]] /\ t \in {op[o].source, worker[o].source, NoOp}
      BY <1>3, <1>4, <2>1
    <2>5. QED
      BY <1>1, <1>2, <2>1, <2>2, <2>3, <2>4, RowEnds
  <1>7. QED
    BY <1>5, <1>6

(* The row is written, unless somebody else finished it since it was read. *)
LEMMA WriteRowStep ==
  ASSUME IInv, NEW o \in Ops, WriteRow(o)
  PROVE  IInv'
  <1> DEFINE flag == IF worker[o].outcome = "cancelled" THEN TRUE ELSE op[o].cancel
             written == [op[o] EXCEPT !.status = worker[o].outcome, !.source = worker[o].source,
                                      !.cancel = flag]
             r == IF CanSet(o, worker[o].outcome) THEN written ELSE op[o]
             w == [worker[o] EXCEPT !.pc = "settle"]
  <1>1. RowType /\ WorkerOK(o) /\ op[o] \in OpRow /\ worker[o] \in WorkerRow
    BY Parts DEF WorkerInv, RowType
  <1>2. /\ worker[o].pc = "write" /\ worker[o].outcome \in {"failed", "cancelled"}
        /\ UNCHANGED <<blob, src, registry, caller, core, spent>>
    BY <1>1 DEF WriteRow, At, WorkerOK, Ending
  <1>3. op' = [op EXCEPT ![o] = r] /\ worker' = [worker EXCEPT ![o] = w]
    <2>1. worker' = [worker EXCEPT ![o] = w]
      BY <1>1 DEF WriteRow, Goto, RowType, WorkerRow
    <2>2. CASE CanSet(o, worker[o].outcome)
      <3>1. op' = [op EXCEPT ![o] = written]
        BY <2>2 DEF WriteRow
      <3>2. r = written
        BY <2>2
      <3>3. QED
        BY <2>1, <3>1, <3>2
    <2>3. CASE ~CanSet(o, worker[o].outcome)
      <3>1. op' = op
        BY <2>3 DEF WriteRow
      <3>2. QED
        BY <1>1, <2>1, <2>3, <3>1 DEF RowType
    <2>4. QED
      BY <2>2, <2>3
  <1>4. flag \in BOOLEAN
    BY <1>1 DEF OpRow
  <1> HIDE DEF flag
  <1>5. /\ written \in OpRow /\ written.status = worker[o].outcome
        /\ written.content = op[o].content /\ written.source = worker[o].source
    BY <1>1, <1>2, <1>4 DEF OpRow, WorkerRow, Statuses, Finished
  <1>6. ~CanSet(o, worker[o].outcome) => op[o].status \in Finished
    BY DEF CanSet, Open
  <1> HIDE DEF written
  <1>7. /\ r \in OpRow /\ (r = op[o] \/ r.status = worker[o].outcome)
        /\ r.content = op[o].content /\ r.source \in {op[o].source, worker[o].source}
        /\ r.status \in Finished
    BY <1>1, <1>2, <1>5, <1>6 DEF Finished
  <1>8. /\ w \in WorkerRow /\ w.pc = "settle" /\ w.outcome = worker[o].outcome
        /\ w.source = worker[o].source
    BY <1>1 DEF WorkerRow
  <1> HIDE DEF r, w
  <1>9. QED
    BY <1>2, <1>3, <1>7, <1>8, RowEnds

LEMMA RetryOperationStep ==
  ASSUME IInv, NEW o \in Ops, RetryOperation(o)
  PROVE  IInv'
  <1> USE DEF RetryOperation, At
  <1> DEFINE w == [Idle EXCEPT !.pc = "open", !.source = op[o].source, !.retry = TRUE]
  <1>1. RowType /\ OtherType /\ WorkerOK(o) /\ Unfiled(o)
    BY Parts DEF WorkerInv, SourceInv
  <1>2. op[o].source \in Ops
    BY <1>1 DEF RowType, OpRow
  <1>3. w \in WorkerRow /\ w.pc = "open" /\ w.source = op[o].source
    BY <1>2, IdleTyped DEF WorkerRow, Telemetry
  <1>4. worker' = [worker EXCEPT ![o] = w]
    OBVIOUS
  <1> HIDE DEF w
  <1>5. op' \in [Ops -> OpRow] /\ worker' \in [Ops -> WorkerRow]
    <2>1. op'[o] = [op[o] EXCEPT !.status = "processing", !.cancel = FALSE]
      BY <1>1 DEF RowType
    <2>2. op'[o] \in OpRow
      BY <1>1, <2>1 DEF RowType, OpRow, Statuses, Running
    <2>3. op' \in [Ops -> OpRow]
      BY <1>1, <2>1, <2>2 DEF RowType
    <2>4. QED
      BY <1>1, <1>3, <1>4, <2>3 DEF RowType
  <1>6. OtherType'
    BY <1>1, <1>2, RegisteredTyped DEF OtherType
  <1>7. /\ op'[o] = [op[o] EXCEPT !.status = "processing", !.cancel = FALSE]
        /\ worker'[o] = w
    BY <1>1, <1>4 DEF RowType
  <1>8. /\ op'[o].status = "processing" /\ op'[o].content = op[o].content
        /\ op'[o].source = op[o].source
    BY <1>1, <1>7 DEF RowType, OpRow
  <1>9. Elsewhere(o) /\ SameBytes(o) /\ RowPublishes(o) /\ Unfiled(o)'
    BY <1>1, <1>3, <1>4, <1>7, <1>8 DEF Elsewhere, SameBytes, RowPublishes, Unfiled, RowType, Unlinked
  <1>10. Named(o, op[o].source)' /\ Named(o, worker[o].source)'
    BY <1>3, <1>7, <1>8, <1>9, NamedKept
  <1>11. Own(o)
    BY <1>3, <1>7, <1>8, <1>10 DEF Own, WorkerOK, Copied, Parsed, Ending
  <1>12. worker[o].pc \notin Writing
    BY DEF Writing
  <1>13. QED
    BY <1>5, <1>6, <1>9, <1>11, <1>12, RowStep DEF RowType

(* A row is flagged or ended under its worker's feet.                      *)
LEMMA RowOnlyStep ==
  ASSUME IInv, OtherType', UNCHANGED <<blob, src, worker, core>>, NEW o \in Ops,
         NEW r \in OpRow, op' = [op EXCEPT ![o] = r], r.content = op[o].content,
         r.source = op[o].source, r.status \in {op[o].status, "cancelled"}
  PROVE  IInv'
  <1>1. RowType /\ WorkerOK(o) /\ Unfiled(o)
    BY Parts DEF WorkerInv, SourceInv
  <1>2. op'[o] = r /\ op' \in [Ops -> OpRow] /\ worker' \in [Ops -> WorkerRow]
    BY <1>1 DEF RowType
  <1>3. Elsewhere(o) /\ SameBytes(o) /\ RowPublishes(o) /\ Unfiled(o)'
    BY <1>1, <1>2 DEF Elsewhere, SameBytes, RowPublishes, Unfiled, RowType
  <1>4. Named(o, op[o].source)' /\ Named(o, worker[o].source)'
    BY <1>2, <1>3, NamedKept
  <1>5. Full(op[o].content) => Full(op[o].content)'
    BY <1>2 DEF Full
  <1>6. core = "up" /\ op'[o].status \in Running => worker'[o].pc # "idle"
    BY <1>2 DEF IInv, Attended, OperationAttended, Running
  <1>7. WorkerOK(o)'
    BY <1>1, <1>2, <1>5 DEF WorkerOK, Finished
  <1>8. QED
    BY <1>2, <1>3, <1>4, <1>6, <1>7, RowStep DEF RowType, Own

LEMMA CallerTyped ==
  ASSUME OtherType, NEW o \in Ops, NEW pc \in {"idle", "terminate", "flag", "signal", "source"},
         NEW s \in Ops \cup {NoOp}, Caller(o, pc, s)
  PROVE  caller' \in [Ops -> CallerRow]
  BY DEF OtherType, Caller, CallerRow

LEMMA TerminateWaitingStep ==
  ASSUME IInv, NEW o \in Ops, TerminateWaiting(o)
  PROVE  IInv'
  <1> USE DEF TerminateWaiting
  <1>1. RowType /\ OtherType /\ op[o] \in OpRow
    BY Parts DEF RowType
  <1>2. op[o].source \in Ops \cup {NoOp}
    BY <1>1 DEF OpRow
  <1>3. caller' \in [Ops -> CallerRow]
    BY <1>1, <1>2, CallerTyped
  <1>4. OtherType'
    BY <1>1, <1>3 DEF OtherType, registry
  <1> DEFINE r == [op[o] EXCEPT !.status = "cancelled", !.cancel = TRUE]
  <1>5. r \in OpRow
    BY <1>1 DEF OpRow, Statuses, Finished
  <1>6. r.content = op[o].content /\ r.source = op[o].source /\ r.status = "cancelled"
    BY <1>1 DEF OpRow
  <1>7. CASE CanSet(o, "cancelled")
    <2>1. op' = [op EXCEPT ![o] = r]
      BY <1>1, <1>7 DEF RowType
    <2> HIDE DEF r
    <2>2. QED
      BY <1>4, <1>5, <1>6, <2>1, RowOnlyStep
  <1>8. CASE ~CanSet(o, "cancelled")
    <2>1. op' = [op EXCEPT ![o] = op[o]]
      BY <1>1, <1>8 DEF RowType
    <2>2. QED
      BY <1>1, <1>4, <2>1, RowOnlyStep
  <1>9. QED
    BY <1>7, <1>8

LEMMA FlagCancelStep ==
  ASSUME IInv, NEW o \in Ops, FlagCancel(o)
  PROVE  IInv'
  <1> USE DEF FlagCancel
  <1>1. RowType /\ OtherType /\ op[o] \in OpRow
    BY Parts DEF RowType
  <1>2. op[o].source \in Ops \cup {NoOp}
    BY <1>1 DEF OpRow
  <1>3. caller' \in [Ops -> CallerRow]
    BY <1>1, <1>2, CallerTyped
  <1>4. OtherType'
    BY <1>1, <1>3 DEF OtherType, registry
  <1> DEFINE r == [op[o] EXCEPT !.cancel = TRUE]
  <1>5. /\ r \in OpRow /\ r.content = op[o].content /\ r.source = op[o].source
        /\ r.status = op[o].status
    BY <1>1 DEF OpRow
  <1>6. op' = [op EXCEPT ![o] = r]
    BY <1>1 DEF RowType
  <1> HIDE DEF r
  <1>7. QED
    BY <1>4, <1>5, <1>6, RowOnlyStep

(* Only the registry or a caller changes.                                  *)
LEMMA QuietStep ==
  ASSUME IInv, OtherType', UNCHANGED <<op, blob, src, worker, core>>
  PROVE  IInv'
  <1>1. TypeOK'
    <2>1. RowType' /\ StoreType'
      BY Parts DEF RowType, StoreType
    <2>2. QED
      BY <2>1, TypedNext
  <1>2. WorkerInv' /\ NameInv' /\ SourceInv'
    BY DEF IInv, WorkerInv, NameInv, SourceInv, WorkerOK, Named, SourceOK, Unfiled, Full,
           Referenced, Present
  <1>3. Attended' /\ PublishedReadable'
    BY DEF IInv, Attended, OperationAttended, BlobAttended, PublishedReadable, Readable,
           Present, Blob
  <1>4. QED
    BY <1>1, <1>2, <1>3 DEF IInv

LEMMA QuietSteps ==
  ASSUME IInv, NEW o \in Ops, RequestCancel(o) \/ SignalCancel(o) \/ Disconnect(o)
  PROVE  IInv'
  <1>1. OtherType /\ op[o].source \in Ops \cup {NoOp} /\ caller[o].source \in Ops \cup {NoOp}
    BY Parts DEF RowType, OpRow, OtherType, CallerRow
  <1>2. CASE RequestCancel(o)
    <2>1. caller' \in [Ops -> CallerRow]
      BY <1>1, <1>2, CallerTyped DEF RequestCancel
    <2>2. QED
      BY <1>1, <1>2, <2>1, QuietStep DEF RequestCancel, OtherType, rows, registry
  <1>3. CASE SignalCancel(o)
    <2>1. caller' \in [Ops -> CallerRow]
      BY <1>1, <1>3, CallerTyped DEF SignalCancel
    <2>2. event' \in [Ops -> {"none", "clear", "set"}]
      BY <1>1, <1>3 DEF SignalCancel, Signalled, OtherType
    <2>3. QED
      BY <1>1, <1>3, <2>1, <2>2, QuietStep DEF SignalCancel, OtherType, rows
  <1>4. CASE Disconnect(o)
    <2>1. event' \in [Ops -> {"none", "clear", "set"}]
      BY <1>1, <1>4 DEF Disconnect, Signalled, OtherType
    <2>2. QED
      BY <1>1, <1>4, <2>1, QuietStep DEF Disconnect, OtherType, rows
  <1>5. QED
    BY <1>2, <1>3, <1>4

-----------------------------------------------------------------------------
(* The steps that write the blob of an operation's bytes.                  *)

(* The removal of an incomplete blob leaves none, and spares the whole     *)
(* bytes of every record.                                                  *)
LEMMA Deleted ==
  ASSUME StoreType, NEW c \in Contents
  PROVE  /\ DeletedIncomplete(c) \in BlobRow /\ DeletedIncomplete(c).state # "incomplete"
         /\ blob[c].state = "complete" => DeletedIncomplete(c).state = "complete"
         /\ Referenced(c) /\ Full(c) => DeletedIncomplete(c) = blob[c]
  <1>1. CASE blob[c].state # "complete"
    BY <1>1 DEF DeletedIncomplete, NoBlob, BlobRow, Full
  <1>2. CASE blob[c].state = "complete" /\ Referenced(c)
    BY <1>2 DEF DeletedIncomplete, StoreType, BlobRow
  <1>3. CASE blob[c].state = "complete" /\ ~Referenced(c)
    BY <1>3 DEF DeletedIncomplete, StoreType, BlobRow
  <1>4. QED
    BY <1>1, <1>2, <1>3

(* The row of o and its source stay; its worker may move and its blob may  *)
(* change.                                                                 *)
LEMMA BlobMove ==
  ASSUME IInv, OtherType', UNCHANGED <<op, src, core>>, NEW o \in Ops,
         NEW w \in WorkerRow, worker' = [worker EXCEPT ![o] = w], w.source = worker[o].source,
         worker[o].pc # "idle", w.pc # "idle", WorkerOK(o)',
         NEW b \in BlobRow, blob' = [blob EXCEPT ![op[o].content] = b],
         Referenced(op[o].content) /\ Full(op[o].content) => b = blob[op[o].content],
         blob[op[o].content].state = "complete" => b.state = "complete",
         w.pc \in Unlinked => worker[o].pc \in Unlinked,
         b.state = "incomplete" => w.pc \in Writing
  PROVE  IInv'
  <1> DEFINE c == op[o].content
  <1>1. RowType /\ StoreType /\ WorkerOK(o) /\ Unfiled(o) /\ c \in Contents
    BY Parts DEF WorkerInv, SourceInv, RowType, OpRow
  <1>2. worker' \in [Ops -> WorkerRow] /\ worker'[o] = w /\ op' \in [Ops -> OpRow]
          /\ op'[o] = op[o]
    BY <1>1 DEF RowType
  <1>3. Elsewhere(o) /\ SameBytes(o) /\ RowPublishes(o) /\ Unfiled(o)'
    BY <1>1, <1>2 DEF Elsewhere, SameBytes, RowPublishes, Unfiled, RowType
  <1>4. Named(o, op[o].source)' /\ Named(o, worker[o].source)'
    BY <1>2, <1>3, NamedKept
  <1>5. op[o].status # "none"
    BY <1>1 DEF WorkerOK
  <1>6. Own(o)
    BY <1>2, <1>4 DEF Own
  <1>7. StoreType' /\ blob'[c] = b /\ \A d \in Contents \ {c} : blob'[d] = blob[d]
    BY <1>1 DEF StoreType
  <1>8. ASSUME NEW d \in Contents, Referenced(d), Full(d)
        PROVE  Full(d)'
    <2>1. blob'[d] = blob[d]
      BY <1>7, <1>8
    <2>2. QED
      BY <2>1, <1>8 DEF Full
  <1>9. BlobsOwned(o)
    BY <1>2, <1>7 DEF BlobsOwned
  <1>10. RowType' /\ StoreType'
    BY <1>2, <1>7 DEF RowType
  <1>11. \A d \in Contents : blob[d].state = "complete" => blob'[d].state = "complete"
    BY <1>7
  <1>12. QED
    BY <1>3, <1>6, <1>8, <1>9, <1>10, <1>11, BlobStep

LEMMA BeginBlobStep ==
  ASSUME IInv, NEW o \in Ops, BeginBlob(o)
  PROVE  IInv'
  <1> USE DEF BeginBlob, At, Goto
  <1> DEFINE c == op[o].content
  <1>1. RowType /\ StoreType /\ OtherType /\ WorkerOK(o) /\ c \in Contents /\ blob[c] \in BlobRow
          /\ worker[o] \in WorkerRow
    BY Parts DEF WorkerInv, RowType, OpRow, StoreType
  <1>2. OtherType'
    BY <1>1 DEF OtherType, registry
  <1>3. worker[o].chunk = 1 /\ 1 <= Chunks
    BY <1>1, ImportAssumption DEF WorkerOK
  <1>4. CASE blob[c].state = "complete"
    <2> DEFINE w == [worker[o] EXCEPT !.pc = "link"]
    <2>1. /\ w \in WorkerRow /\ w.pc = "link" /\ w.source = worker[o].source
          /\ worker' = [worker EXCEPT ![o] = w] /\ worker'[o] = w
      BY <1>1, <1>4 DEF RowType, WorkerRow, Staging
    <2> HIDE DEF w
    <2>2. WorkerOK(o)'
      BY <1>1, <2>1 DEF WorkerOK, Copied, Parsed, Ending
    <2>3. QED
      BY <1>2, <1>4, <2>1, <2>2, MoveStep DEF Writing, Unlinked
  <1>5. CASE blob[c].state # "complete"
    <2> DEFINE w == [worker[o] EXCEPT !.pc = "chunks"]
               b == [blob[c] EXCEPT !.state = "incomplete"]
    <2>1. /\ w \in WorkerRow /\ w.pc = "chunks" /\ w.source = worker[o].source
          /\ w.chunk = worker[o].chunk
          /\ worker' = [worker EXCEPT ![o] = w] /\ worker'[o] = w
      BY <1>1, <1>5 DEF RowType, WorkerRow, Staging
    <2>2. b \in BlobRow /\ blob' = [blob EXCEPT ![c] = b]
      BY <1>1, <1>5 DEF StoreType, BlobRow
    <2>3. ~Full(c)
      BY <1>5 DEF Full
    <2> HIDE DEF w, b
    <2>4. WorkerOK(o)'
      BY <1>1, <1>3, <2>1 DEF WorkerOK, Copied, Parsed, Ending
    <2>5. QED
      BY <1>2, <1>5, <2>1, <2>2, <2>3, <2>4, BlobMove DEF Writing, Unlinked
  <1>6. QED
    BY <1>4, <1>5

LEMMA WriteChunkStep ==
  ASSUME IInv, NEW o \in Ops, WriteChunk(o)
  PROVE  IInv'
  <1> USE DEF WriteChunk, At
  <1> DEFINE c == op[o].content
             n == worker[o].chunk
             pc == IF n = Chunks THEN "finalize" ELSE "chunks"
             w == [worker[o] EXCEPT !.chunk = n + 1, !.pc = pc]
             b == [blob[c] EXCEPT !.chunks = @ \cup {n}]
  <1>1. RowType /\ StoreType /\ OtherType /\ WorkerOK(o) /\ c \in Contents /\ blob[c] \in BlobRow
          /\ worker[o] \in WorkerRow
    BY Parts DEF WorkerInv, RowType, OpRow, StoreType
  <1>2. OtherType'
    BY <1>1 DEF OtherType, registry
  <1>3. n \in 1 .. Chunks /\ n + 1 \in 1 .. Chunks + 1 /\ (n # Chunks => n + 1 <= Chunks)
    BY <1>1, ImportAssumption DEF WorkerOK, WorkerRow
  <1>4. pc \in {"finalize", "chunks"} /\ (pc = "chunks" => n # Chunks)
    OBVIOUS
  <1>5. worker' = [worker EXCEPT ![o].chunk = n + 1, ![o].pc = pc]
    OBVIOUS
  <1>6. blob[c].state = "incomplete"
    BY DEF Ready, Accepted
  <1>7. b \in BlobRow /\ b.state = "incomplete" /\ blob' = [blob EXCEPT ![c] = b]
    BY <1>1, <1>3, <1>6 DEF StoreType, BlobRow
  <1> HIDE DEF n, pc, b
  <1>8. /\ w \in WorkerRow /\ w.pc = pc /\ w.source = worker[o].source /\ w.chunk = n + 1
        /\ worker' = [worker EXCEPT ![o] = w] /\ worker'[o] = w
    BY <1>1, <1>3, <1>4, <1>5 DEF RowType, WorkerRow, Staging
  <1> HIDE DEF w
  <1>9. WorkerOK(o)'
    BY <1>1, <1>3, <1>4, <1>8 DEF WorkerOK, Copied, Parsed, Ending
  <1>10. ~Full(c)
    BY <1>6 DEF Full
  <1>11. w.pc \in Writing /\ w.pc # "idle" /\ worker[o].pc # "idle" /\ worker[o].pc \in Unlinked
           /\ UNCHANGED <<op, src, core>>
    BY <1>4, <1>8 DEF Writing, Unlinked
  <1> HIDE DEF WriteChunk
  <1>12. QED
    BY <1>2, <1>6, <1>7, <1>8, <1>9, <1>10, <1>11, BlobMove

LEMMA FinalizeStep ==
  ASSUME IInv, NEW o \in Ops, Finalize(o)
  PROVE  IInv'
  <1> USE DEF Finalize, At, Goto
  <1> DEFINE c == op[o].content
             w == [worker[o] EXCEPT !.pc = "link"]
             b == [blob[c] EXCEPT !.state = "complete"]
  <1>1. RowType /\ StoreType /\ OtherType /\ WorkerOK(o) /\ c \in Contents /\ blob[c] \in BlobRow
          /\ worker[o] \in WorkerRow
    BY Parts DEF WorkerInv, RowType, OpRow, StoreType
  <1>2. OtherType'
    BY <1>1 DEF OtherType, registry
  <1>3. /\ w \in WorkerRow /\ w.pc = "link" /\ w.source = worker[o].source
        /\ worker' = [worker EXCEPT ![o] = w] /\ worker'[o] = w
    BY <1>1 DEF RowType, WorkerRow, Staging
  <1>4. b \in BlobRow /\ b.state = "complete" /\ blob' = [blob EXCEPT ![c] = b]
    BY <1>1 DEF StoreType, BlobRow
  <1>5. Full(c) => b = blob[c]
    BY <1>1 DEF Full, BlobRow
  <1> HIDE DEF w, b
  <1>6. WorkerOK(o)'
    BY <1>1, <1>3 DEF WorkerOK, Copied, Parsed, Ending
  <1>7. QED
    BY <1>2, <1>3, <1>4, <1>5, <1>6, BlobMove DEF Writing, Unlinked

LEMMA UndoBlobStep ==
  ASSUME IInv, NEW o \in Ops, UndoBlob(o)
  PROVE  IInv'
  <1> USE DEF UndoBlob, At, Goto
  <1> DEFINE c == op[o].content
             w == [worker[o] EXCEPT !.pc = "close"]
  <1>1. RowType /\ StoreType /\ OtherType /\ WorkerOK(o) /\ c \in Contents
          /\ worker[o] \in WorkerRow
    BY Parts DEF WorkerInv, RowType, OpRow
  <1>2. OtherType'
    BY <1>1 DEF OtherType, registry
  <1>3. /\ w \in WorkerRow /\ w.pc = "close" /\ w.source = worker[o].source
        /\ w.outcome = worker[o].outcome
        /\ worker' = [worker EXCEPT ![o] = w] /\ worker'[o] = w
    BY <1>1 DEF RowType, WorkerRow
  <1> HIDE DEF w
  <1>4. WorkerOK(o)'
    BY <1>1, <1>3 DEF WorkerOK, Copied, Parsed, Ending
  <1>5. QED
    BY <1>1, <1>2, <1>3, <1>4, Deleted, BlobMove DEF Writing, Unlinked

LEMMA RecoverStep ==
  ASSUME IInv, NEW o \in Ops, Recover(o)
  PROVE  IInv'
  <1> USE DEF Recover
  <1> DEFINE c == op[o].content
             r == [op[o] EXCEPT !.status = "failed"]
             v == [Idle EXCEPT !.pc = "settle", !.outcome = "failed",
                               !.source = op[o].source, !.retry = TRUE]
             w == IF op[o].source # NoOp THEN v ELSE worker[o]
             b == IF op[o].source = NoOp /\ op[o].hash THEN DeletedIncomplete(c) ELSE blob[c]
  <1>1. RowType /\ StoreType /\ OtherType /\ WorkerOK(o) /\ Unfiled(o) /\ c \in Contents
          /\ worker[o] \in WorkerRow /\ op[o] \in OpRow /\ blob[c] \in BlobRow
    BY Parts DEF WorkerInv, SourceInv, RowType, StoreType, OpRow
  <1>2. OtherType'
    BY <1>1 DEF OtherType, registry
  <1>3. r \in OpRow /\ r.status = "failed" /\ r.content = c /\ r.source = op[o].source
    BY <1>1 DEF OpRow, Statuses, Finished
  <1>4. /\ v \in WorkerRow /\ v.pc = "settle" /\ v.source = op[o].source
        /\ v.outcome = "failed"
    BY <1>1, IdleTyped DEF WorkerRow, OpRow
  <1>5. /\ w \in WorkerRow /\ w.source \in {op[o].source, worker[o].source}
        /\ w.pc \in {"idle", "settle"} /\ (w.pc = "settle" => w.outcome = "failed")
        /\ (w.pc = "idle" => w.source = NoOp)
    BY <1>1, <1>4 DEF WorkerOK
  <1>6. op' = [op EXCEPT ![o] = r] /\ worker' = [worker EXCEPT ![o] = w]
          /\ blob' = [blob EXCEPT ![c] = b]
    <2>1. op' = [op EXCEPT ![o] = r]
      OBVIOUS
    <2>2. worker' = [worker EXCEPT ![o] = w]
      BY <1>1 DEF RowType
    <2>3. blob' = [blob EXCEPT ![c] = b]
      BY <1>1 DEF StoreType
    <2>4. QED
      BY <2>1, <2>2, <2>3
  <1>7. /\ b \in BlobRow /\ (Referenced(c) /\ Full(c) => b = blob[c])
        /\ (b.state = "incomplete" => blob[c].state = "incomplete")
        /\ (blob[c].state = "complete" => b.state = "complete")
    BY <1>1, Deleted
  <1> HIDE DEF r, v, w, b
  <1>8. /\ op' \in [Ops -> OpRow] /\ worker' \in [Ops -> WorkerRow] /\ op'[o] = r
        /\ worker'[o] = w
    BY <1>1, <1>3, <1>5, <1>6 DEF RowType
  <1>9. blob' \in [Contents -> BlobRow] /\ blob'[c] = b /\ \A d \in Contents \ {c} : blob'[d] = blob[d]
    BY <1>1, <1>6, <1>7 DEF StoreType
  <1>10. Elsewhere(o) /\ SameBytes(o) /\ RowPublishes(o) /\ Unfiled(o)'
    <2>1. op[o].status \notin {"none"} /\ worker[o].pc = "idle"
      BY DEF Running
    <2>2. Elsewhere(o)
      BY <1>1, <1>6 DEF Elsewhere, RowType
    <2>3. QED
      BY <1>3, <1>5, <1>8, <2>1, <2>2 DEF SameBytes, RowPublishes, Unfiled, Unlinked
  <1>11. Named(o, op[o].source)' /\ Named(o, worker[o].source)'
    BY <1>3, <1>5, <1>8, <1>10, NamedKept
  <1>12. Own(o)
    BY <1>3, <1>5, <1>8, <1>11 DEF Own, WorkerOK, Copied, Parsed, Ending, Finished
  <1>13. ASSUME NEW d \in Contents, Referenced(d), Full(d)
         PROVE  Full(d)'
    <2>1. blob'[d] = blob[d]
      BY <1>7, <1>9, <1>13
    <2>2. QED
      BY <2>1, <1>13 DEF Full
  <1>14. BlobsOwned(o)
    BY <1>7, <1>9 DEF BlobsOwned, Writing
  <1>15. RowType' /\ StoreType'
    BY <1>1, <1>8, <1>9 DEF RowType, StoreType
  <1>16. \A d \in Contents : blob[d].state = "complete" => blob'[d].state = "complete"
    BY <1>7, <1>9
  <1>17. QED
    BY <1>2, <1>10, <1>12, <1>13, <1>14, <1>15, <1>16, BlobStep

-----------------------------------------------------------------------------
(* The steps that write a source.                                          *)

(* The source s becomes r and the worker of o moves to w.                  *)
LEMMA SourceMove ==
  ASSUME IInv, OtherType', UNCHANGED <<op, blob, core>>, NEW o \in Ops,
         NEW w \in WorkerRow, worker' = [worker EXCEPT ![o] = w],
         w.source \in {worker[o].source, NoOp}, WorkerOK(o)',
         w.pc = "idle" => op[o].status \notin Running \/ worker[o].pc = "idle",
         worker[o].pc \in Writing => w.pc \in Writing,
         w.pc \in Unlinked => worker[o].pc \in Unlinked,
         NEW s \in Ops, NEW r \in SrcRow, src' = [src EXCEPT ![s] = r],
         src[s].status = "absent" => r = src[s],
         src[s].status # "absent" => r.status # "absent",
         src[s].data = "published" => r.data = "published",
         r.data = "published" => src[s].data = "published" \/ Full(op[s].content),
         r.status = "complete" => r.data = "published"
  PROVE  IInv'
  <1>1. RowType /\ StoreType /\ SourceInv
    BY Parts
  <1>2. worker' \in [Ops -> WorkerRow] /\ worker'[o] = w /\ Elsewhere(o)
    BY <1>1 DEF RowType, Elsewhere
  <1>3. /\ src' \in [Ops -> SrcRow] /\ src'[s] = r
        /\ \A x \in Ops \ {s} : src'[x] = src[x]
    BY <1>1 DEF StoreType
  <1>4. RowType' /\ StoreType'
    BY <1>1, <1>2, <1>3 DEF RowType, StoreType
  <1>5. \A x \in Ops : src[x].status # "absent" => src'[x].status # "absent"
    BY <1>3
  <1>6. SameBytes(o)
    BY DEF SameBytes
  <1>7. Named(o, op[o].source)' /\ Named(o, worker[o].source)'
    BY <1>2, <1>5, <1>6, NamedKept
  <1>8. Own(o)
    BY <1>2, <1>7 DEF Own, IInv, Attended, OperationAttended
  <1>9. ASSUME NEW x \in Ops
        PROVE  SourceOK(x)' /\ Unfiled(x)'
    <2>1. SourceOK(x) /\ Unfiled(x)
      BY <1>1 DEF SourceInv
    <2>2. worker'[x].pc \in Unlinked => worker[x].pc \in Unlinked
      BY <1>2 DEF Elsewhere
    <2>3. src'[x].status = "absent" <=> src[x].status = "absent"
      BY <1>3
    <2>4. Unfiled(x)'
      BY <2>1, <2>2, <2>3 DEF Unfiled
    <2>5. SourceOK(x)'
      BY <1>3, <2>1 DEF SourceOK
    <2>6. QED
      BY <2>4, <2>5
  <1>10. SourceInv'
    BY <1>9 DEF SourceInv
  <1>11. \A x \in Ops : src[x].data = "published" => src'[x].data = "published"
    BY <1>3
  <1>12. \A x \in Ops : src'[x].data = "published" =>
           src[x].data = "published" \/ Full(op[x].content)
    BY <1>3
  <1>13. \A c \in Contents : Referenced(c) => Referenced(c)'
    BY <1>5 DEF Referenced, Present
  <1>14. worker[o].pc \in Writing => worker'[o].pc \in Writing
    BY <1>2
  <1>15. QED
    BY <1>2, <1>4, <1>8, <1>10, <1>11, <1>12, <1>13, <1>14, SourceStep

(* A step of the parser on the source it holds.                            *)
LEMMA ParserMove ==
  ASSUME IInv, OtherType', UNCHANGED <<op, blob, core>>, NEW o \in Ops,
         worker[o].pc \in Copied \cup Parsed, Present(worker[o].source),
         NEW pc \in Copied \cup Parsed, worker' = [worker EXCEPT ![o].pc = pc],
         NEW r \in SrcRow, src' = [src EXCEPT ![worker[o].source] = r],
         pc \in Copied => worker[o].pc \in Copied,
         pc \in Parsed => r.data = "published",
         r.status # "absent", src[worker[o].source].data = "published" => r.data = "published",
         r.data = "published" =>
           src[worker[o].source].data = "published" \/ worker[o].pc \in Copied,
         r.status = "complete" => r.data = "published"
  PROVE  IInv'
  <1> DEFINE s == worker[o].source
             w == [worker[o] EXCEPT !.pc = pc]
  <1>1. RowType /\ StoreType /\ WorkerOK(o) /\ Named(o, s) /\ worker[o] \in WorkerRow
    BY Parts DEF WorkerInv, NameInv, RowType
  <1>2. s \in Ops /\ s # NoOp
    BY ImportAssumption DEF Present
  <1>3. /\ w \in WorkerRow /\ w.pc = pc /\ w.source = s
        /\ worker' = [worker EXCEPT ![o] = w] /\ worker'[o] = w
    BY <1>1 DEF RowType, WorkerRow, Telemetry, Parsing, Copied, Parsed
  <1>4. src'[s] = r
    BY <1>1, <1>2 DEF StoreType
  <1>5. worker[o].pc \in Copied => Full(op[o].content) /\ Full(op[s].content)
    BY <1>1, <1>2 DEF WorkerOK, Named
  <1>6. Full(op[o].content) => Full(op[o].content)'
    BY DEF Full
  <1> HIDE DEF w
  <1>7. WorkerOK(o)'
    <2>1. pc \notin {"idle", "receive", "begin", "chunks", "settle", "downgrade"} \cup Ending
            /\ worker[o].pc # "idle"
      BY DEF Copied, Parsed, Ending
    <2>2. op[o].status \notin {"none", "awaiting_upload"}
      BY <1>1, <2>1 DEF WorkerOK
    <2>3. pc \in Copied => Full(op[o].content)'
      BY <1>5, <1>6
    <2>4. QED
      BY <1>2, <1>3, <1>4, <2>1, <2>2, <2>3 DEF WorkerOK
  <1>8. pc # "idle" /\ worker[o].pc \notin Writing /\ pc \notin Unlinked
    BY DEF Copied, Parsed, Writing, Unlinked
  <1>9. src[s].status # "absent"
    BY DEF Present
  <1>10. QED
    BY <1>2, <1>3, <1>5, <1>7, <1>8, <1>9, SourceMove

LEMMA MarkProcessingStep ==
  ASSUME IInv, NEW o \in Ops, MarkProcessing(o)
  PROVE  IInv'
  <1> USE DEF MarkProcessing, At, Goto
  <1> DEFINE s == worker[o].source
             r == [src[s] EXCEPT !.status = "processing"]
  <1>1. OtherType /\ StoreType
    BY Parts
  <1>2. Present(s) /\ s \in Ops
    BY DEF Ready, Accepted, Present
  <1>3. r \in SrcRow /\ r.status = "processing" /\ r.data = src[s].data
          /\ src' = [src EXCEPT ![s] = r]
    BY <1>1, <1>2 DEF StoreType, SrcRow
  <1>4. OtherType'
    BY <1>1 DEF OtherType, registry
  <1>5. /\ worker[o].pc \in Copied /\ "reread" \in Copied \ Parsed
        /\ worker' = [worker EXCEPT ![o].pc = "reread"] /\ UNCHANGED <<op, blob, core>>
    BY DEF Copied, Parsed
  <1> HIDE DEF r, MarkProcessing
  <1>6. QED
    BY <1>2, <1>3, <1>4, <1>5, ParserMove

LEMMA SubmitStep ==
  ASSUME IInv, NEW o \in Ops, Submit(o)
  PROVE  IInv'
  <1> USE DEF Submit, At, Goto
  <1> DEFINE s == worker[o].source
             r == [src[s] EXCEPT !.data = IF @ = "none" THEN "staged" ELSE @]
  <1>1. OtherType /\ StoreType /\ SourceInv
    BY Parts
  <1>2. Present(s) /\ s \in Ops
    BY DEF Ready, Accepted, Present
  <1>3. /\ r \in SrcRow /\ r.status = src[s].status
        /\ r.data = IF src[s].data = "none" THEN "staged" ELSE src[s].data
        /\ src' = [src EXCEPT ![s] = r]
    BY <1>1, <1>2 DEF StoreType, SrcRow
  <1>4. OtherType'
    BY <1>1 DEF OtherType, registry
  <1>5. SourceOK(s)
    BY <1>1, <1>2 DEF SourceInv
  <1>6. r.status # "absent" /\ (r.status = "complete" => r.data = "published")
          /\ (r.data = "published" <=> src[s].data = "published")
    BY <1>2, <1>3, <1>5 DEF SourceOK, Present
  <1>7. /\ worker[o].pc \in Copied /\ "publish" \in Copied \ Parsed
        /\ worker' = [worker EXCEPT ![o].pc = "publish"] /\ UNCHANGED <<op, blob, core>>
    BY DEF Copied, Parsed
  <1> HIDE DEF r, Submit
  <1>8. QED
    BY <1>2, <1>3, <1>4, <1>6, <1>7, ParserMove

LEMMA PublishStep ==
  ASSUME IInv, NEW o \in Ops, Publish(o)
  PROVE  IInv'
  <1> USE DEF Publish, At, Goto
  <1> DEFINE s == worker[o].source
             r == [src[s] EXCEPT !.data = "published"]
  <1>1. OtherType /\ StoreType
    BY Parts
  <1>2. Present(s) /\ s \in Ops
    BY DEF Ready, Accepted, Present
  <1>3. r \in SrcRow /\ r.status = src[s].status /\ r.data = "published"
          /\ src' = [src EXCEPT ![s] = r]
    BY <1>1, <1>2 DEF StoreType, SrcRow
  <1>4. OtherType'
    BY <1>1 DEF OtherType, registry
  <1> HIDE DEF r
  <1>5. QED
    BY <1>2, <1>3, <1>4, ParserMove DEF Copied, Parsed, Present

LEMMA FinishSourceStep ==
  ASSUME IInv, NEW o \in Ops, FinishSource(o)
  PROVE  IInv'
  <1> USE DEF FinishSource, At, Goto
  <1> DEFINE s == worker[o].source
             r == [src[s] EXCEPT !.status = "complete"]
  <1>1. OtherType /\ StoreType /\ WorkerOK(o)
    BY Parts DEF WorkerInv
  <1>2. Present(s) /\ s \in Ops
    BY DEF Ready, Accepted, Present
  <1>3. src[s].data = "published"
    BY <1>1 DEF WorkerOK, Parsed
  <1>4. r \in SrcRow /\ r.status = "complete" /\ r.data = src[s].data
          /\ src' = [src EXCEPT ![s] = r]
    BY <1>1, <1>2 DEF StoreType, SrcRow, Finished
  <1>5. OtherType'
    BY <1>1, ClearTyped DEF OtherType
  <1> HIDE DEF r
  <1>6. QED
    BY <1>2, <1>3, <1>4, <1>5, ParserMove DEF Copied, Parsed

LEMMA MarkSourceStep ==
  ASSUME IInv, NEW o \in Ops, MarkSource(o)
  PROVE  IInv'
  <1> USE DEF MarkSource, At
  <1> DEFINE s == worker[o].source
             out == IF Present(s) THEN worker[o].outcome ELSE "failed"
             w == [worker[o] EXCEPT !.pc = "close", !.outcome = out]
             r == [src[s] EXCEPT !.status = worker[o].outcome]
  <1>1. RowType /\ StoreType /\ OtherType /\ WorkerOK(o) /\ worker[o] \in WorkerRow
    BY Parts DEF WorkerInv, RowType
  <1>2. OtherType'
    BY <1>1, ClearTyped DEF OtherType
  <1>3. worker[o].outcome \in {"failed", "cancelled"} /\ out \in {"failed", "cancelled"}
    BY <1>1 DEF WorkerOK, Ending
  <1>4. worker' = [worker EXCEPT ![o] = w]
    BY <1>1 DEF RowType, WorkerRow
  <1> HIDE DEF out
  <1>5. /\ w \in WorkerRow /\ w.pc = "close" /\ w.source = s /\ w.outcome = out
        /\ worker'[o] = w
    BY <1>1, <1>3, <1>4 DEF WorkerRow, RowType
  <1> HIDE DEF w
  <1>6. WorkerOK(o)'
    BY <1>1, <1>3, <1>5 DEF WorkerOK, Copied, Parsed, Ending
  <1>7. worker[o].pc \notin Writing /\ w.pc \notin Unlinked
    BY <1>5 DEF Writing, Unlinked
  <1>8. CASE Present(s)
    <2>1. s \in Ops /\ src[s].status # "absent"
      BY <1>8 DEF Present
    <2>2. /\ r \in SrcRow /\ r.status \in {"failed", "cancelled"} /\ r.data = src[s].data
          /\ src' = [src EXCEPT ![s] = r]
      BY <1>1, <1>3, <1>8, <2>1 DEF StoreType, SrcRow, Finished
    <2>3. UNCHANGED <<op, blob, core>> /\ w.pc # "idle"
      BY <1>5
    <2> HIDE DEF r, MarkSource
    <2>4. QED
      BY <1>2, <1>4, <1>5, <1>6, <1>7, <2>1, <2>2, <2>3, SourceMove
  <1>9. CASE ~Present(s)
    <2>1. src' = src
      BY <1>9
    <2>2. QED
      BY <1>2, <1>4, <1>5, <1>6, <1>7, <2>1, MoveStep
  <1>10. QED
    BY <1>8, <1>9

(* A source that is not being processed is left alone.                     *)
LEMMA SettleSourceStep ==
  ASSUME IInv, NEW o \in Ops, SettleSource(o)
  PROVE  IInv'
  <1> DEFINE w == [worker[o] EXCEPT !.pc = "downgrade"]
  <1>1. /\ RowType /\ StoreType /\ OtherType /\ WorkerOK(o) /\ SourceInv
        /\ worker[o] \in WorkerRow
    BY Parts DEF WorkerInv, RowType
  <1>2. OtherType'
    BY <1>1, ClearTyped DEF SettleSource, OtherType, registry
  <1>3. op[o].status \in Finished /\ worker[o].outcome \in {"failed", "cancelled"}
    BY <1>1 DEF SettleSource, WorkerOK, Ending
  <1>4. /\ worker[o].pc = "settle" /\ UNCHANGED <<op, blob, src, core>>
        /\ worker' = [worker EXCEPT ![o] = w] \/ worker' = [worker EXCEPT ![o] = Idle]
    BY <1>1 DEF SettleSource, Goto, RowType, WorkerRow, rows
  <1>5. /\ w \in WorkerRow /\ w.pc = "downgrade" /\ w.source = worker[o].source
        /\ w.outcome = worker[o].outcome
    BY <1>1 DEF WorkerRow
  <1> HIDE DEF w
  <1>6. PICK v \in {w, Idle} : worker' = [worker EXCEPT ![o] = v]
    BY <1>4
  <1>7. /\ v \in WorkerRow /\ worker'[o] = v /\ v.source \in {worker[o].source, NoOp}
        /\ v.pc \in {"downgrade", "idle"} /\ (v.pc = "idle" => v.source = NoOp)
        /\ v.pc = "downgrade" => v.outcome \in {"failed", "cancelled"}
    BY <1>1, <1>3, <1>5, <1>6, IdleTyped DEF RowType
  <1>8. WorkerOK(o)'
    BY <1>1, <1>3, <1>4, <1>7 DEF WorkerOK, Copied, Parsed, Ending, Finished
  <1>9. worker[o].pc \notin Writing /\ v.pc \notin Unlinked /\ op[o].status \notin Running
    BY <1>3, <1>4, <1>7 DEF Writing, Unlinked, Finished, Running
  <1>10. src' = [src EXCEPT ![o] = src[o]] /\ src[o] \in SrcRow /\ SourceOK(o)
    BY <1>1, <1>4 DEF StoreType, SourceInv
  <1>11. QED
    BY <1>2, <1>4, <1>6, <1>7, <1>8, <1>9, <1>10, SourceMove DEF SourceOK

(* A source that is gone, or any that is there: it has the outcome now.    *)
LEMMA DowngradeSourceStep ==
  ASSUME IInv, NEW o \in Ops, DowngradeSource(o)
  PROVE  IInv'
  <1> USE DEF DowngradeSource
  <1> DEFINE s == worker[o].source
             t == IF Present(s) THEN s ELSE o
             r == IF Present(s) THEN [src[s] EXCEPT !.status = worker[o].outcome] ELSE src[o]
  <1>1. RowType /\ StoreType /\ OtherType /\ WorkerOK(o) /\ SourceInv
    BY Parts DEF WorkerInv
  <1>2. OtherType'
    BY <1>1, ClearTyped DEF OtherType, registry
  <1>3. worker' = [worker EXCEPT ![o] = Idle] /\ worker'[o] = Idle
    BY <1>1 DEF RowType
  <1>4. op[o].status \in Finished /\ worker[o].outcome \in {"failed", "cancelled"}
    BY <1>1 DEF WorkerOK, Ending
  <1>5. WorkerOK(o)'
    BY <1>3, <1>4, IdleTyped DEF WorkerOK, Copied, Parsed, Ending, Finished
  <1>6. t \in Ops
    BY DEF Present
  <1>7. src' = [src EXCEPT ![t] = r]
    BY <1>1 DEF StoreType
  <1>8. /\ r \in SrcRow /\ r.data = src[t].data
        /\ r.status = src[t].status \/ (src[t].status # "absent" /\ r.status \in {"failed", "cancelled"})
    BY <1>1, <1>4, <1>6 DEF StoreType, SrcRow, Finished, Present
  <1>9. SourceOK(t)
    BY <1>1, <1>6 DEF SourceInv
  <1>10. src[t].status = "absent" => r = src[t]
    BY DEF Present
  <1> HIDE DEF t, r
  <1>11. worker[o].pc \notin Writing /\ Idle.pc \notin Unlinked /\ op[o].status \notin Running
    BY <1>4, IdleTyped DEF Writing, Unlinked, Finished, Running
  <1>12. UNCHANGED <<op, blob, core>>
    OBVIOUS
  <1> HIDE DEF DowngradeSource
  <1>13. QED
    BY <1>2, <1>3, <1>5, <1>6, <1>7, <1>8, <1>9, <1>10, <1>11, <1>12, IdleTyped, SourceMove DEF SourceOK

LEMMA FlagSourceStep ==
  ASSUME IInv, NEW o \in Ops, FlagSource(o)
  PROVE  IInv'
  <1> USE DEF FlagSource
  <1> DEFINE s == caller[o].source
             t == IF Present(s) THEN s ELSE o
             r == IF Present(s) THEN [src[s] EXCEPT !.status = "processing"] ELSE src[o]
  <1>1. RowType /\ StoreType /\ OtherType /\ WorkerOK(o) /\ SourceInv /\ worker[o] \in WorkerRow
    BY Parts DEF WorkerInv, RowType
  <1>2. OtherType'
    <2>1. caller' \in [Ops -> CallerRow]
      BY <1>1, CallerTyped
    <2>2. event' \in [Ops -> {"none", "clear", "set"}]
      BY <1>1 DEF Signalled, OtherType
    <2>3. QED
      BY <1>1, <2>1, <2>2 DEF OtherType
  <1>3. worker' = [worker EXCEPT ![o] = worker[o]]
    BY <1>1 DEF RowType
  <1>4. Full(op[o].content) => Full(op[o].content)'
    BY DEF Full
  <1>5. t \in Ops
    BY DEF Present
  <1>6. src' = [src EXCEPT ![t] = r]
    BY <1>1 DEF StoreType
  <1>7. /\ r \in SrcRow /\ r.data = src[t].data
        /\ r.status = src[t].status \/ (src[t].status # "absent" /\ r.status = "processing")
    BY <1>1, <1>5 DEF StoreType, SrcRow, Present
  <1>8. SourceOK(t)
    BY <1>1, <1>5 DEF SourceInv
  <1>9. src[t].status = "absent" => r = src[t]
    BY DEF Present
  <1> HIDE DEF t, r
  <1>10. \A x \in Ops : src'[x].data = src[x].data
    BY <1>1, <1>5, <1>6, <1>7 DEF StoreType
  <1>11. WorkerOK(o)'
    <2>1. worker[o].source \in Ops \cup {NoOp}
      BY <1>1 DEF WorkerRow
    <2>2. QED
      BY <1>1, <1>4, <1>10, <2>1 DEF WorkerOK
  <1>12. UNCHANGED <<op, blob, core>>
    OBVIOUS
  <1>13. worker[o].pc = "idle" => op[o].status \notin Running \/ worker[o].pc = "idle"
    OBVIOUS
  <1> HIDE DEF FlagSource
  <1>14. QED
    BY <1>1, <1>2, <1>3, <1>5, <1>6, <1>7, <1>8, <1>9, <1>11, <1>12, SourceMove DEF SourceOK

LEMMA LinkSourceStep ==
  ASSUME IInv, NEW o \in Ops, LinkSource(o)
  PROVE  IInv'
  <1> USE DEF LinkSource, At
  <1> DEFINE c == op[o].content
             filed == Filed(c, op[o].service)
             s == IF filed = {} THEN o ELSE CHOOSE t \in filed : TRUE
             w == [worker[o] EXCEPT !.pc = "bind", !.source = s]
             new == [status |-> "processing", service |-> op[o].service, data |-> "none"]
  <1>1. RowType /\ StoreType /\ OtherType /\ WorkerOK(o) /\ SourceInv /\ worker[o] \in WorkerRow
          /\ op[o] \in OpRow /\ c \in Contents
    BY Parts DEF WorkerInv, RowType, OpRow
  <1>2. s \in Ops /\ (filed # {} => s \in filed) /\ (filed = {} => s = o)
    BY DEF Filed
  <1>3. worker' = [worker EXCEPT ![o] = w] /\ alias' = [alias EXCEPT ![s] = o]
    BY <1>1 DEF RowType, WorkerRow
  <1>4. src' = IF filed # {} THEN src ELSE [src EXCEPT ![o] = new]
    OBVIOUS
  <1>5. filed # {} => /\ Present(s) /\ op[s].content = c /\ op[s].status # "none"
                      /\ Referenced(c)
    BY <1>1, <1>2 DEF Filed, Referenced, SourceInv, Unfiled, Present
  <1>6. new \in SrcRow /\ new.status = "processing" /\ new.data = "none"
    BY <1>1 DEF SrcRow, OpRow
  <1>7. Open(o) /\ op[o].status \notin {"none", "awaiting_upload"}
    BY <1>1 DEF Ready, Telemetry, WorkerOK
  <1>8. UNCHANGED <<op, blob, caller, core, spent>> /\ event' = Registered(o) /\ worker[o].pc = "link"
          /\ blob[c].state = "complete"
    BY DEF Ready, Accepted
  <1> HIDE DEF s, filed, LinkSource
  <1>9. w \in WorkerRow /\ w.pc = "bind" /\ w.source = s
    BY <1>1, <1>2 DEF WorkerRow, Telemetry
  <1> HIDE DEF w, new
  <1>10. /\ worker' \in [Ops -> WorkerRow] /\ worker'[o] = w /\ RowType'
         /\ OtherType' /\ Elsewhere(o) /\ op'[o] = op[o]
    <2>1. event' \in [Ops -> {"none", "clear", "set"}]
      BY <1>8, <1>1, RegisteredTyped
    <2>2. worker' \in [Ops -> WorkerRow] /\ worker'[o] = w /\ Elsewhere(o)
      BY <1>8, <1>1, <1>3, <1>9 DEF RowType, Elsewhere
    <2>3. OtherType'
      BY <1>8, <1>1, <1>2, <1>3, <2>1 DEF OtherType
    <2>4. QED
      BY <1>8, <1>1, <2>2, <2>3 DEF RowType
  <1>11. SameBytes(o) /\ worker[o].pc \notin Writing /\ w.pc \notin Unlinked /\ w.pc # "idle"
    BY <1>8, <1>9 DEF SameBytes, Writing, Unlinked
  <1>12. WorkerOK(o)'
    BY <1>1, <1>7, <1>9, <1>10 DEF WorkerOK, Copied, Parsed, Ending, Finished
  <1>13. src[o].status = "absent" /\ src[o].data = "none"
    BY <1>8, <1>1 DEF SourceInv, SourceOK, Unfiled, Unlinked
  <1>14. /\ src' \in [Ops -> SrcRow] /\ \A x \in Ops \ {o} : src'[x] = src[x]
         /\ filed # {} => src'[o] = src[o]
         /\ filed = {} => src'[o] = new
    BY <1>1, <1>4, <1>6 DEF StoreType
  <1>15. \A x \in Ops : src[x].status # "absent" => src'[x].status # "absent"
    BY <1>13, <1>14
  <1>16. Named(o, op[o].source)'
    BY <1>10, <1>11, <1>15, NamedKept
  <1>17. Named(o, worker[o].source)'
    <2>1. src'[s].status # "absent" /\ op[s].content = c /\ op[s].status # "none"
      BY <1>2, <1>5, <1>6, <1>7, <1>14, <1>15 DEF Present
    <2>2. Referenced(c)'
      BY <1>8, <1>2, <2>1 DEF Referenced, Present
    <2>3. QED
      BY <1>8, <1>9, <1>10, <2>1, <2>2 DEF Named, Referenced, Present
  <1>18. Own(o)
    BY <1>9, <1>10, <1>11, <1>12, <1>16, <1>17 DEF Own
  <1>19. SourceInv'
    <2>1. ASSUME NEW x \in Ops PROVE SourceOK(x)' /\ Unfiled(x)'
      <3>1. SourceOK(x) /\ Unfiled(x)
        BY <1>1 DEF SourceInv
      <3>2. CASE x # o
        BY <1>8, <1>10, <1>14, <3>1, <3>2 DEF SourceOK, Unfiled, Elsewhere
      <3>3. CASE x = o
        BY <1>6, <1>7, <1>8, <1>9, <1>10, <1>11, <1>13, <1>14, <3>3 DEF SourceOK, Unfiled
      <3>4. QED
        BY <3>2, <3>3
    <2>2. QED
      BY <2>1 DEF SourceInv
  <1>20. \A x \in Ops : src'[x].data = "published" <=> src[x].data = "published"
    BY <1>6, <1>13, <1>14
  <1>21. \A d \in Contents : Referenced(d) => Referenced(d)'
    BY <1>8, <1>15 DEF Referenced, Present
  <1>22. StoreType'
    BY <1>8, <1>1, <1>14 DEF StoreType
  <1>23. QED
    BY <1>8, <1>10, <1>11, <1>18, <1>19, <1>20, <1>21, <1>22, SourceStep

LEMMA ClassifyStep ==
  ASSUME IInv, NEW o \in Ops, Classify(o)
  PROVE  IInv'
  <1> USE DEF Classify, At
  <1> DEFINE c == op[o].content
             s == worker[o].source
             known == Filed(c, Known) \ {s}
             merge == src[s].service # Known /\ known # {}
             e == IF merge THEN CHOOSE k \in known : TRUE ELSE s
             done == merge /\ src[e].status = "complete"
             pc == IF done THEN "adopt" ELSE "mark"
             w == [worker[o] EXCEPT !.source = e, !.pc = pc]
  <1>1. RowType /\ StoreType /\ OtherType /\ WorkerOK(o) /\ SourceInv /\ worker[o] \in WorkerRow
          /\ op[o] \in OpRow /\ c \in Contents /\ Named(o, s) /\ Named(o, op[o].source)
    BY Parts DEF WorkerInv, RowType, OpRow, NameInv
  <1>2. Present(s) /\ s \in Ops /\ s # NoOp
    BY ImportAssumption DEF Ready, Accepted, Present
  <1>3. merge => /\ e \in Ops /\ e # s /\ Present(e) /\ op[e].content = c
                 /\ op[e].status # "none" /\ src[s].data = "none"
    <2>1. merge => e \in known
      OBVIOUS
    <2>2. merge => src[s].data = "none"
      BY DEF Ready, Accepted
    <2>3. QED
      BY <1>1, <2>1, <2>2 DEF Filed, SourceInv, Unfiled, Present
  <1>4. ~merge => e = s /\ ~done
    OBVIOUS
  <1>5. e \in Ops /\ e # NoOp
    BY <1>2, <1>3, <1>4, ImportAssumption
  <1>6. worker' = [worker EXCEPT ![o].source = e, ![o].pc = pc]
    OBVIOUS
  <1>7. src' = IF merge THEN [src EXCEPT ![s] = NoSource] ELSE [src EXCEPT ![s].service = Known]
    OBVIOUS
  <1>8. IF done THEN Clear(o) ELSE event' = Registered(o) /\ alias' = [alias EXCEPT ![e] = o]
    OBVIOUS
  <1>9. /\ pc \in {"adopt", "mark"} /\ (pc = "adopt" => done)
        /\ (done => merge /\ src[e].status = "complete")
    OBVIOUS
  <1>10. UNCHANGED <<op, blob, caller, core, spent>> /\ worker[o].pc = "classify"
    OBVIOUS
  <1> HIDE DEF Classify, merge, e, done, pc
  <1>11. OtherType'
    <2>1. CASE done
      BY <1>1, <1>8, <1>10, <2>1, ClearTyped DEF OtherType
    <2>2. CASE ~done
      BY <1>1, <1>5, <1>8, <1>10, <2>2, RegisteredTyped DEF OtherType
    <2>3. QED
      BY <2>1, <2>2
  <1>12. CASE ~merge
    <2> DEFINE r == [src[s] EXCEPT !.service = Known]
    <2>1. /\ r \in SrcRow /\ r.status = src[s].status /\ r.data = src[s].data
          /\ src' = [src EXCEPT ![s] = r]
      BY <1>1, <1>2, <1>7, <1>12 DEF StoreType, SrcRow
    <2>2. worker' = [worker EXCEPT ![o].pc = "mark"]
      BY <1>1, <1>4, <1>6, <1>9, <1>12 DEF RowType, WorkerRow
    <2>3. SourceOK(s) /\ src[s].status # "absent"
      BY <1>1, <1>2 DEF SourceInv, Present
    <2>4. worker[o].pc \in Copied /\ "mark" \in Copied \ Parsed
      BY <1>10 DEF Copied, Parsed
    <2>5. r.status # "absent" /\ (r.status = "complete" => r.data = "published")
      BY <2>1, <2>3 DEF SourceOK
    <2> HIDE DEF r
    <2>6. QED
      BY <1>2, <1>10, <1>11, <2>1, <2>2, <2>4, <2>5, ParserMove
  <1>13. CASE merge
    <2>1. w \in WorkerRow /\ w.source = e /\ w.pc = pc /\ worker' = [worker EXCEPT ![o] = w]
      BY <1>1, <1>5, <1>6, <1>9 DEF RowType, WorkerRow, Telemetry, Parsing
    <2> HIDE DEF w
    <2>2. /\ worker' \in [Ops -> WorkerRow] /\ worker'[o] = w /\ RowType' /\ op' = op
          /\ Elsewhere(o)
      BY <1>1, <1>10, <2>1 DEF RowType, Elsewhere
    <2>3. NoSource \in SrcRow /\ NoSource.status = "absent" /\ NoSource.data = "none"
      BY DEF NoSource, SrcRow
    <2>4. src' \in [Ops -> SrcRow] /\ src'[s] = NoSource /\ \A x \in Ops \ {s} : src'[x] = src[x]
      BY <1>1, <1>2, <1>7, <1>13, <2>3 DEF StoreType
    <2>5. src'[e].status # "absent"
      BY <1>3, <1>13, <2>4 DEF Present
    <2>6. Referenced(c)'
      BY <1>3, <1>10, <1>13, <2>5 DEF Referenced, Present
    <2>7. ASSUME NEW d \in Contents, Referenced(d)
          PROVE  Referenced(d)'
      <3>1. PICK x \in Ops : Present(x) /\ op[x].content = d
        BY <2>7 DEF Referenced
      <3>2. CASE x = s
        <4>1. d = c
          BY <1>1, <1>2, <3>1, <3>2 DEF Named
        <4>2. QED
          BY <1>10, <2>6, <4>1 DEF Referenced, Present
      <3>3. CASE x # s
        BY <1>10, <2>4, <3>1, <3>3 DEF Referenced, Present
      <3>4. QED
        BY <3>2, <3>3
    <2>8. \A x \in Ops : src'[x].data = "published" <=> src[x].data = "published"
      BY <1>3, <1>13, <2>3, <2>4
    <2>9. SourceInv'
      <3>1. ASSUME NEW x \in Ops PROVE SourceOK(x)' /\ Unfiled(x)'
        <4>1. SourceOK(x) /\ Unfiled(x)
          BY <1>1 DEF SourceInv
        <4>2. worker'[x].pc \in Unlinked => worker[x].pc \in Unlinked
          BY <1>9, <2>1, <2>2 DEF Elsewhere, Unlinked
        <4>3. CASE x = s
          BY <2>3, <2>4, <4>3 DEF SourceOK, Unfiled
        <4>4. CASE x # s
          BY <1>10, <2>2, <2>4, <4>1, <4>2, <4>4 DEF SourceOK, Unfiled
        <4>5. QED
          BY <4>3, <4>4
      <3>2. QED
        BY <3>1 DEF SourceInv
    <2>10. Named(o, worker[o].source)'
      BY <1>3, <1>13, <2>1, <2>2, <2>6 DEF Named, Referenced, Present
    <2>11. Named(o, op[o].source)'
      BY <1>1, <2>2, <2>6 DEF Named, Referenced, Present
    <2>12. done => src'[e].data = "published"
      BY <1>1, <1>3, <1>5, <1>9, <1>13, <2>8 DEF SourceInv, SourceOK
    <2>13. Full(op[o].content)'
      BY <1>1, <1>10 DEF WorkerOK, Copied, Full
    <2>14. WorkerOK(o)'
      <3>1. op[o].status \notin {"none", "awaiting_upload"}
        BY <1>1, <1>10 DEF WorkerOK
      <3>2. QED
        BY <1>5, <1>9, <2>1, <2>2, <2>12, <2>13, <3>1 DEF WorkerOK, Copied, Parsed, Ending
    <2>15. Own(o)
      BY <1>9, <2>1, <2>2, <2>10, <2>11, <2>14 DEF Own
    <2>16. StoreType'
      BY <1>1, <1>10, <2>4 DEF StoreType
    <2>17. worker[o].pc \notin Writing
      BY <1>10 DEF Writing
    <2>18. QED
      BY <1>10, <1>11, <2>2, <2>7, <2>8, <2>9, <2>15, <2>16, <2>17, SourceStep
  <1>14. QED
    BY <1>12, <1>13

-----------------------------------------------------------------------------
(* Crash, the end of the recovery, and every step.                         *)

LEMMA EndAttemptStep ==
  ASSUME IInv, NEW o \in Ops, EndAttempt(o)
  PROVE  IInv'
  <1>1. CASE Refused(o)
    BY <1>1, RaiseStep DEF Refused
  <1>2. CASE Fault(o)
    <2>1. worker[o].pc \in Telemetry \cup Parsing \cup Staging
      BY <1>2 DEF Fault, Telemetry, Staging
    <2>2. QED
      BY <1>2, <2>1, RaiseStep DEF Fault
  <1>3. CASE SeeCancel(o)
    <2>1. worker[o].pc \in Telemetry \cup Parsing \cup Staging
      BY <1>3 DEF SeeCancel, Telemetry, Staging
    <2>2. QED
      BY <1>3, <2>1, RaiseStep DEF SeeCancel
  <1>4. QED
    BY <1>1, <1>2, <1>3, MarkSourceStep, UndoBlobStep, CloseRowStep, WriteRowStep,
       SettleSourceStep, DowngradeSourceStep DEF EndAttempt

LEMMA CrashStep ==
  ASSUME IInv, Crash
  PROVE  IInv'
  <1> USE DEF Crash
  <1>1. RowType /\ StoreType /\ OtherType /\ WorkerInv /\ NameInv /\ SourceInv
    BY Parts
  <1>2. \A o \in Ops : worker'[o] = Idle
    OBVIOUS
  <1>3. UNCHANGED <<op, blob, src>> /\ core' = "booting"
    BY DEF rows
  <1>4. TypeOK'
    <2>1. RowType' /\ StoreType'
      BY <1>1, <1>3, IdleTyped DEF RowType, StoreType
    <2>2. caller' \in [Ops -> CallerRow]
      BY DEF CallerRow
    <2>3. OtherType'
      BY <2>2 DEF OtherType
    <2>4. QED
      BY <2>1, <2>3, TypedNext
  <1> HIDE DEF Crash
  <1>5. WorkerInv'
    <2>1. ASSUME NEW o \in Ops PROVE WorkerOK(o)'
      BY <1>1, <1>2, <1>3, IdleTyped DEF WorkerInv, WorkerOK, Copied, Parsed, Ending
    <2>2. QED
      BY <2>1 DEF WorkerInv
  <1>6. NameInv'
    <2>1. ASSUME NEW o \in Ops PROVE Named(o, worker[o].source)' /\ Named(o, op[o].source)'
      BY <1>1, <1>2, <1>3, IdleTyped DEF NameInv, Named, Referenced, Present
    <2>2. QED
      BY <2>1 DEF NameInv
  <1>7. SourceInv'
    BY <1>1, <1>2, <1>3, IdleTyped DEF SourceInv, SourceOK, Unfiled, Unlinked
  <1>8. Attended' /\ PublishedReadable'
    BY <1>3 DEF IInv, Attended, OperationAttended, BlobAttended, PublishedReadable, Readable,
                Present, Blob
  <1>9. QED
    BY <1>4, <1>5, <1>6, <1>7, <1>8 DEF IInv

LEMMA EndRecoveryStep ==
  ASSUME IInv, EndRecovery
  PROVE  IInv'
  <1> USE DEF EndRecovery
  <1>1. RowType /\ StoreType /\ OtherType /\ WorkerInv /\ NameInv /\ SourceInv
    BY Parts
  <1>2. UNCHANGED <<op, src, worker>> /\ core' = "up" /\ UNCHANGED <<event, alias, caller>>
    BY DEF registry
  <1>3. \A c \in Contents : \/ blob'[c] = NoBlob /\ blob[c].state = "incomplete" /\ ~Referenced(c)
                            \/ blob'[c] = blob[c] /\ (blob[c].state # "incomplete" \/ Referenced(c))
    <2>1. ASSUME NEW c \in Contents
          PROVE  \/ blob'[c] = NoBlob /\ blob[c].state = "incomplete" /\ ~Referenced(c)
                 \/ blob'[c] = blob[c] /\ (blob[c].state # "incomplete" \/ Referenced(c))
      <3>1. blob'[c] = IF blob[c].state = "incomplete" /\ ~Referenced(c) THEN NoBlob ELSE blob[c]
        OBVIOUS
      <3> HIDE DEF EndRecovery
      <3>2. QED
        BY <3>1
    <2>2. QED
      BY <2>1
  <1>4. NoBlob \in BlobRow
    BY DEF BlobRow, NoBlob
  <1>5. TypeOK'
    <2>1. blob' \in [Contents -> BlobRow]
      BY <1>1, <1>4 DEF StoreType
    <2>2. RowType' /\ StoreType' /\ OtherType'
      BY <1>1, <1>2, <2>1 DEF RowType, StoreType, OtherType
    <2>3. QED
      BY <2>2, TypedNext
  <1>6. \A o \in Ops : worker[o].pc = "idle" /\ op[o].status \in Finished \cup {"none"}
    OBVIOUS
  <1>7. \A c \in Contents : Full(c) => Full(c)'
    BY <1>3 DEF Full
  <1> HIDE DEF EndRecovery
  <1>8. WorkerInv'
    <2>1. ASSUME NEW o \in Ops PROVE WorkerOK(o)'
      BY <1>1, <1>2, <1>6 DEF WorkerInv, WorkerOK, Copied, Parsed, Ending
    <2>2. QED
      BY <2>1 DEF WorkerInv
  <1>9. NameInv' /\ SourceInv'
    <2>1. NameInv'
      BY <1>1, <1>2 DEF NameInv, Named, Referenced, Present
    <2>2. \A c \in Contents : blob[c].state = "complete" => blob'[c].state = "complete"
      BY <1>3
    <2>3. SourceInv'
      BY <1>1, <1>2, <2>2 DEF SourceInv, SourceOK, Unfiled, RowType, OpRow
    <2>4. QED
      BY <2>1, <2>3
  <1>10. OperationAttended'
    BY <1>2, <1>6 DEF OperationAttended, Finished, Running
  <1>11. BlobAttended'
    <2>1. ASSUME NEW c \in Contents PROVE blob'[c].state # "incomplete"
      <3>1. Referenced(c) => blob[c].state = "complete"
        BY <1>1 DEF Referenced, Present, SourceInv, SourceOK
      <3>2. QED
        BY <1>3, <3>1 DEF NoBlob
    <2>2. QED
      BY <2>1 DEF BlobAttended
  <1>12. PublishedReadable'
    <2>1. \A o \in Ops : op'[o].status = "complete" =>
            Present(op[o].source)' /\ src'[op'[o].source].data = "published"
      BY <1>2 DEF IInv, PublishedReadable, Present
    <2>2. ASSUME NEW s \in Ops, src'[s].data = "published"
          PROVE  Readable(s)'
      <3>1. Readable(s) /\ op[s].content \in Contents
        BY <1>1, <1>2, <2>2 DEF IInv, PublishedReadable, RowType, OpRow
      <3>2. Full(op[s].content)'
        BY <1>2, <1>7, <3>1 DEF Readable, Full, Blob
      <3>3. QED
        BY <1>2, <3>1, <3>2 DEF Readable, Full, Blob, Present
    <2>3. QED
      BY <2>1, <2>2 DEF PublishedReadable
  <1>13. QED
    BY <1>5, <1>8, <1>9, <1>10, <1>11, <1>12 DEF IInv, Attended

LEMMA Initial == Init => IInv
  <1> SUFFICES ASSUME Init PROVE IInv
    OBVIOUS
  <1> USE DEF Init
  <1>1. (CHOOSE c \in Contents : TRUE) \in Contents
    BY ImportAssumption
  <1>2. op \in [Ops -> OpRow] /\ worker \in [Ops -> WorkerRow]
    BY <1>1, IdleTyped DEF OpRow
  <1>3. StoreType
    BY DEF StoreType, BlobRow, SrcRow, NoBlob, NoSource
  <1>4. OtherType
    BY DEF OtherType, CallerRow
  <1>5. TypeOK
    BY <1>2, <1>3, <1>4, Typed DEF RowType
  <1>6. \A o \in Ops : /\ op[o].status = "none" /\ op[o].source = NoOp /\ worker[o] = Idle
                       /\ src[o] = NoSource
    OBVIOUS
  <1>7. WorkerInv
    BY <1>6, IdleTyped DEF WorkerInv, WorkerOK, Copied, Parsed, Ending
  <1>8. NameInv
    BY <1>6, IdleTyped DEF NameInv, Named
  <1>9. SourceInv
    BY <1>6 DEF SourceInv, SourceOK, Unfiled, NoSource
  <1>10. Attended
    BY <1>6 DEF Attended, OperationAttended, BlobAttended, Running, NoBlob
  <1>11. PublishedReadable
    BY <1>6 DEF PublishedReadable, NoSource
  <1>12. QED
    BY <1>5, <1>7, <1>8, <1>9, <1>10, <1>11 DEF IInv

LEMMA UploadStep ==
  ASSUME IInv, NEW o \in Ops, Upload(o)
  PROVE  IInv'
  BY ReceiveStep, BeginBlobStep, WriteChunkStep, FinalizeStep, LinkSourceStep, BindSourceStep
     DEF Upload

LEMMA ParseStep ==
  ASSUME IInv, NEW o \in Ops, Parse(o)
  PROVE  IInv'
  BY OpenSourceStep, CopyAndParseStep, ClassifyStep, MarkProcessingStep, RereadSourceStep,
     SubmitStep, PublishStep, FinishSourceStep, CompleteOperationStep DEF Parse

LEMMA CancelStep ==
  ASSUME IInv, NEW o \in Ops, Cancel(o)
  PROVE  IInv'
  BY QuietSteps, TerminateWaitingStep, FlagCancelStep, FlagSourceStep DEF Cancel

LEMMA Inductive == IInv /\ [Next]_vars => IInv'
  <1> SUFFICES ASSUME IInv, [Next]_vars PROVE IInv'
    OBVIOUS
  <1>1. CASE \E o \in Ops : \E c \in Contents, service \in Services : StartOperation(o, c, service)
    BY <1>1, StartOperationStep
  <1>2. CASE \E o \in Ops : ClaimUpload(o) \/ RetryOperation(o)
    BY <1>2, ClaimUploadStep, RetryOperationStep
  <1>3. CASE \E o \in Ops : Work(o) \/ Cancel(o)
    BY <1>3, UploadStep, ParseStep, EndAttemptStep, CancelStep DEF Work
  <1>4. CASE Crash
    BY <1>4, CrashStep
  <1>5. CASE Restart
    BY <1>5, RecoverStep, EndRecoveryStep DEF Restart
  <1>6. CASE UNCHANGED vars
    <2>1. OtherType'
      BY <1>6, Parts DEF OtherType, vars
    <2>2. QED
      BY <1>6, <2>1, QuietStep DEF vars
  <1>7. QED
    BY <1>1, <1>2, <1>3, <1>4, <1>5, <1>6 DEF Next

-----------------------------------------------------------------------------
(* The inductive invariant holds: every worker has what its step relies    *)
(* on, whatever other workers, callers and restarts have done since.       *)
THEOREM Invariant == Spec => []IInv
  BY Initial, Inductive, PTL DEF Spec

(* The rows, the blobs and the threads keep their types.                   *)
THEOREM TypeCorrect == Spec => []TypeOK
  BY Invariant, PTL DEF IInv

(* An operation that says it runs, and a blob that is incomplete, always   *)
(* have a thread or a recovery that will end them.                         *)
THEOREM AttendedCorrect == Spec => []Attended
  BY Invariant, PTL DEF IInv

(* A complete operation's source is published, and no cleanup of another   *)
(* operation, failure or restart takes its raw bytes.                      *)
THEOREM PublishedCorrect == Spec => []PublishedReadable
  BY Invariant, PTL DEF IInv

(* What a step may do to the status of operation o.                        *)
Stands(o) ==
  /\ op[o].status = "complete" => op'[o].status = "complete"
  /\ op[o].status \in Finished /\ op'[o].status # op[o].status =>
       worker[o].pc = "idle" /\ worker'[o].pc = "open"

LEMMA RowStands ==
  ASSUME RowType, NEW o \in Ops, NEW r, op' = [op EXCEPT ![o] = r],
         r.status = op[o].status \/ Open(o), NEW x \in Ops
  PROVE  Stands(x)
  <1>1. CASE x = o
    BY <1>1 DEF RowType, Stands, Open, Finished
  <1>2. CASE x # o
    BY <1>2 DEF RowType, Stands
  <1>3. QED
    BY <1>1, <1>2

LEMMA RaiseStands ==
  ASSUME RowType, NEW o \in Ops, NEW outcome \in {"failed", "cancelled"}, Raise(o, outcome),
         outcome = "cancelled" => CanSet(o, outcome), NEW x \in Ops
  PROVE  Stands(x)
  <1> DEFINE r == [op[o] EXCEPT !.status = outcome]
  <1>1. op' = op \/ (op' = [op EXCEPT ![o] = r] /\ CanSet(o, outcome))
    BY DEF Raise, RowType
  <1>2. r.status = outcome
    BY DEF RowType, OpRow
  <1>3. CanSet(o, outcome) => r.status = op[o].status \/ Open(o)
    BY <1>2 DEF CanSet
  <1> HIDE DEF r
  <1>4. QED
    BY <1>1, <1>3, RowStands DEF Stands

LEMMA StepStands ==
  ASSUME RowType, Next, NEW x \in Ops
  PROVE  Stands(x)
  <1>1. op' = op => Stands(x)
    BY DEF Stands
  <1>2. ASSUME NEW o \in Ops, NEW c \in Contents, NEW service \in Services,
               StartOperation(o, c, service)
        PROVE  Stands(x)
    BY <1>2, RowStands DEF StartOperation, Open, Finished
  <1>3. ASSUME NEW o \in Ops, ClaimUpload(o) \/ Receive(o) \/ CompleteOperation(o) PROVE Stands(x)
    <2>1. Open(o)
      BY <1>3 DEF ClaimUpload, Receive, CompleteOperation, Ready, Telemetry, At, Open, Finished
    <2>2. PICK r : op' = [op EXCEPT ![o] = r]
      BY <1>3 DEF ClaimUpload, Receive, CompleteOperation, RowType
    <2>3. QED
      BY <2>1, <2>2, RowStands
  <1>4. ASSUME NEW o \in Ops, BindSource(o) \/ FlagCancel(o) PROVE Stands(x)
    <2>1. op' = [op EXCEPT ![o] = op'[o]] /\ op'[o].status = op[o].status
      BY <1>4 DEF BindSource, FlagCancel, RowType, OpRow
    <2>2. QED
      BY <2>1, RowStands
  <1>5. ASSUME NEW o \in Ops, Refused(o) \/ Fault(o) \/ SeeCancel(o) PROVE Stands(x)
    BY <1>5, RaiseStands DEF Refused, Fault, SeeCancel
  <1>6. ASSUME NEW o \in Ops, CloseRow(o) \/ WriteRow(o) PROVE Stands(x)
    <2>1. CASE op' = op
      BY <1>1, <2>1
    <2>2. CASE CloseRow(o) /\ op' # op
      <3>1. op' = [op EXCEPT ![o] = op'[o]] /\ op'[o].status = op[o].status
        BY <2>2 DEF CloseRow, RowType, OpRow
      <3>2. QED
        BY <3>1, RowStands
    <2>3. CASE WriteRow(o) /\ op' # op
      <3>1. CanSet(o, worker[o].outcome)
        BY <2>3 DEF WriteRow
      <3>2. op' = [op EXCEPT ![o] = op'[o]] /\ op'[o].status = worker[o].outcome
        BY <2>3, <3>1 DEF WriteRow, RowType, OpRow
      <3>3. QED
        BY <3>1, <3>2, RowStands DEF CanSet
    <2>4. QED
      BY <1>6, <2>1, <2>2, <2>3
  <1>7. ASSUME NEW o \in Ops, RetryOperation(o) PROVE Stands(x)
    <2>1. CASE x = o
      <3>1. worker[o].pc = "idle" /\ worker'[o].pc = "open"
        BY <1>7, IdleTyped DEF RetryOperation, At, RowType, WorkerRow
      <3>2. op[o].status \in {"failed", "cancelled"}
        BY <1>7 DEF RetryOperation
      <3>3. QED
        BY <2>1, <3>1, <3>2 DEF Stands
    <2>2. CASE x # o
      BY <1>7, <2>2 DEF RetryOperation, Stands, RowType
    <2>3. QED
      BY <2>1, <2>2
  <1>8. ASSUME NEW o \in Ops, TerminateWaiting(o) PROVE Stands(x)
    <2>1. CASE CanSet(o, "cancelled")
      <3>1. op' = [op EXCEPT ![o] = op'[o]] /\ op'[o].status = "cancelled"
        BY <1>8, <2>1 DEF TerminateWaiting, RowType, OpRow
      <3>2. QED
        BY <2>1, <3>1, RowStands DEF CanSet
    <2>2. CASE ~CanSet(o, "cancelled")
      BY <1>1, <1>8, <2>2 DEF TerminateWaiting
    <2>3. QED
      BY <2>1, <2>2
  <1>9. ASSUME NEW o \in Ops, Recover(o) PROVE Stands(x)
    BY <1>9, RowStands DEF Recover, Open, Finished, Running
  <1>10. ASSUME NEW o \in Ops,
                \/ BeginBlob(o) \/ WriteChunk(o) \/ Finalize(o) \/ LinkSource(o) \/ UndoBlob(o)
                \/ OpenSource(o) \/ CopyAndParse(o) \/ Classify(o) \/ MarkProcessing(o)
                \/ RereadSource(o) \/ Submit(o) \/ Publish(o) \/ FinishSource(o) \/ MarkSource(o)
                \/ SettleSource(o) \/ DowngradeSource(o) \/ RequestCancel(o) \/ SignalCancel(o)
                \/ FlagSource(o) \/ Disconnect(o)
         PROVE  Stands(x)
    <2>1. op' = op
      BY <1>10 DEF BeginBlob, WriteChunk, Finalize, LinkSource, UndoBlob, OpenSource, CopyAndParse,
                   Classify, MarkProcessing, RereadSource, Submit, Publish, FinishSource, MarkSource,
                   SettleSource, DowngradeSource, RequestCancel, SignalCancel, FlagSource, Disconnect,
                   rows
    <2>2. QED
      BY <1>1, <2>1
  <1>11. ASSUME Crash \/ EndRecovery PROVE Stands(x)
    BY <1>1, <1>11 DEF Crash, EndRecovery, rows
  <1>12. ASSUME NEW o \in Ops, Upload(o) \/ Parse(o) PROVE Stands(x)
    BY <1>3, <1>4, <1>10, <1>12 DEF Upload, Parse
  <1>13. ASSUME NEW o \in Ops, EndAttempt(o) \/ Cancel(o) PROVE Stands(x)
    BY <1>4, <1>5, <1>6, <1>8, <1>10, <1>13 DEF EndAttempt, Cancel
  <1>14. QED
    BY <1>2, <1>3, <1>7, <1>9, <1>11, <1>12, <1>13 DEF Next, Work, Restart

(* No step but a retry moves a finished row, and none moves a complete     *)
(* one, however late a cancellation, a failure or a worker comes.          *)
THEOREM StandsCorrect == Spec => TerminalStands
  <1>1. RowType /\ [Next]_vars =>
          [\A o \in Ops :
             /\ op[o].status = "complete" => op'[o].status = "complete"
             /\ op[o].status \in Finished /\ op'[o].status # op[o].status =>
                  worker[o].pc = "idle" /\ worker'[o].pc = "open"]_vars
    BY StepStands DEF Stands
  <1>2. IInv => RowType
    BY Parts
  <1>3. QED
    BY <1>1, <1>2, Invariant, PTL DEF Spec, TerminalStands
=============================================================================
