--------------------------- MODULE ProposalIntake --------------------------
(* The queue of proposed memories: a remote client leaves a proposal at the *)
(* Edge under an idempotency key (relay/service.py), the Core pulls what is *)
(* queued (sync.py), imports each proposal once under a receipt             *)
(* (storage.py) and tells the Edge what became of it.                       *)
(*                                                                          *)
(* A proposal's identifier is fresh for every insert; its row, the Core's   *)
(* receipt and the record that grew out of it are kept by identifier.       *)
EXTENDS Naturals, FiniteSets

CONSTANTS Keys,        \* <<client, idempotency key>>
          Values,      \* contents, as far as their hashes differ
          MaxProposals,\* bound: rows ever inserted
          QueueLimit   \* _MAX_QUEUED_PROPOSALS

ASSUME IntakeAssumption == /\ MaxProposals \in Nat
                           /\ QueueLimit \in Nat

Ids == 1..MaxProposals
Decisions == {"imported", "rejected"}

VARIABLES
  queue,    \* pending_memory_proposals: the row of each identifier
  lost,     \* identifiers whose queued row was deleted after thirty days
  pulled,   \* the rows of the current pull the Core has yet to look at
  decided,  \* what the Core is about to report: <<id, decision>>, or <<>>
  astray,   \* reports the Core gave up on that are still on their way
  receipt,  \* the Core's receipts, edge_proposal_receipts
  copies,   \* candidates the Core holds from each identifier
  purged    \* identifiers whose record the user purged

intakeVars == <<queue, lost, pulled, decided, astray, receipt, copies, purged>>

NoRow == [key |-> "none", value |-> "none", status |-> "none"]
Row == [key : Keys, value : Values \cup {"none"}, status : {"queued"} \cup Decisions]

IntakeTypeOK ==
  /\ queue \in [Ids -> Row \cup {NoRow}]
  /\ lost \subseteq Ids
  /\ pulled \subseteq Ids
  /\ decided \in (Ids \X Decisions) \cup {<<>>}
  /\ astray \subseteq Ids \X Decisions
  /\ receipt \subseteq Ids
  /\ copies \in [Ids -> 0..2]
  /\ purged \subseteq Ids

IntakeInit ==
  /\ queue = [i \in Ids |-> NoRow]
  /\ lost = {} /\ pulled = {} /\ decided = <<>> /\ astray = {}
  /\ receipt = {} /\ copies = [i \in Ids |-> 0] /\ purged = {}

Queued == {i \in Ids : queue[i].status = "queued"}
Used == {i \in Ids : queue[i] # NoRow} \cup lost
RowsOf(k) == {i \in Ids : queue[i].key = k}

-----------------------------------------------------------------------------
(* The Edge *)

(* queue_proposal: the row that holds the key already answers a retry, and  *)
(* refuses other content under the key; those two and a full queue change   *)
(* nothing.                                                                 *)
Submit(k, v) ==
  /\ RowsOf(k) = {}
  /\ Cardinality(Queued) < QueueLimit
  /\ LET i == Cardinality(Used) + 1
     IN /\ i \in Ids
        /\ queue' = [queue EXCEPT ![i] = [key |-> k, value |-> v, status |-> "queued"]]
  /\ UNCHANGED <<lost, pulled, decided, astray, receipt, copies, purged>>

(* Only rows that are still queued are ever too old. *)
TooOld(i) ==
  /\ i \in Queued
  /\ queue' = [queue EXCEPT ![i] = NoRow]
  /\ lost' = lost \cup {i}
  /\ UNCHANGED <<pulled, decided, astray, receipt, copies, purged>>

(* update_proposal_status: a queued row takes the decision and is scrubbed; *)
(* the same decision again is acknowledged, any other row is not found.     *)
Takes(i, d) == queue[i].status \in {"queued", d}
Decide(i, d) ==
  queue' = IF i \in Queued
           THEN [queue EXCEPT ![i].status = d, ![i].value = "none"] ELSE queue

PurgeIntake ==
  /\ queue' = [i \in Ids |-> NoRow]
  /\ lost' = Used
  /\ UNCHANGED <<pulled, decided, astray, receipt, copies, purged>>

-----------------------------------------------------------------------------
(* The Core's pull *)

Resting == pulled = {} /\ decided = <<>>

Pull == /\ Resting
        /\ pulled' = Queued
        /\ UNCHANGED <<queue, lost, decided, astray, receipt, copies, purged>>

(* add_edge_candidate, one transaction: a proposal with a receipt is a      *)
(* replay, any other is inserted with its receipt.                          *)
Import(i) ==
  /\ i \in pulled /\ decided = <<>>
  /\ pulled' = pulled \ {i}
  /\ decided' = <<i, "imported">>
  /\ receipt' = receipt \cup {i}
  /\ copies' = IF i \in receipt THEN copies ELSE [copies EXCEPT ![i] = @ + 1]
  /\ UNCHANGED <<queue, lost, astray, purged>>

(* The payload does not make a candidate, or the store refuses it. *)
Reject(i) ==
  /\ i \in pulled /\ decided = <<>>
  /\ i \notin receipt
  /\ pulled' = pulled \ {i}
  /\ decided' = <<i, "rejected">>
  /\ UNCHANGED <<queue, lost, astray, receipt, copies, purged>>

Abandon == pulled' = {} /\ decided' = <<>>

(* The report is answered; 404 for a row that is gone ends the pull. *)
Report ==
  /\ decided # <<>>
  /\ LET i == decided[1]  d == decided[2]
     IN /\ Decide(i, d)
        /\ IF Takes(i, d) THEN decided' = <<>> /\ pulled' = pulled ELSE Abandon
  /\ UNCHANGED <<lost, astray, receipt, copies, purged>>

(* The report or its answer is lost, and the pull ends with it. *)
ReportLost(arrives) ==
  /\ decided # <<>>
  /\ Abandon
  /\ astray' = IF arrives THEN astray \cup {decided} ELSE astray
  /\ UNCHANGED <<queue, lost, receipt, copies, purged>>

Strays(r) ==
  /\ r \in astray
  /\ astray' = astray \ {r}
  /\ Decide(r[1], r[2])
  /\ UNCHANGED <<lost, pulled, decided, receipt, copies, purged>>

(* An irreversible purge takes the candidate and its receipt along. *)
PurgeImported(i) ==
  /\ copies[i] > 0
  /\ copies' = [copies EXCEPT ![i] = 0]
  /\ receipt' = receipt \ {i}
  /\ purged' = purged \cup {i}
  /\ UNCHANGED <<queue, lost, pulled, decided, astray>>

-----------------------------------------------------------------------------
(* Properties *)

(* Whatever reports get lost, and however often a client repeats itself,    *)
(* one submission becomes one candidate of the Core, and the Edge scrubs    *)
(* the submission only when the Core has it or the user purged what became  *)
(* of it; a row that waited for more than thirty days no longer answers a   *)
(* retry, and is the exception (add_edge_candidate in storage.py,           *)
(* queue_proposal and update_proposal_status in relay/service.py).          *)
ImportedOnce ==
  \A i, j \in Ids :
    /\ copies[i] <= 1
    /\ i # j /\ copies[i] > 0 /\ copies[j] > 0 /\ queue[i].key = queue[j].key
         => i \in lost \/ j \in lost
    /\ queue[i].status = "imported" => copies[i] > 0 \/ i \in purged

=============================================================================
