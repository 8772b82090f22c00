-------------------------- MODULE ForwardingBroker -------------------------
(* The Edge's broker of retrieval requests (relay/forwarding.py): a remote  *)
(* client's call becomes a row of the database, the Core claims the row     *)
(* under a lease and posts an answer, and the call that waits consumes the  *)
(* answer once.  The rows are durable; the answers are kept in memory only. *)
(*                                                                          *)
(* Time is kept as the sets of requests whose deadlines have passed: the    *)
(* request's own (12 s), its claim's lease (8 s) and the minute for which a *)
(* finished row is kept.                                                    *)
EXTENDS Naturals, FiniteSets

CONSTANTS Requests,     \* request identifiers, each used for one call
          Clients,      \* logical clients of the Edge
          ClientOf,     \* the client that makes each request
          PerClient,    \* MAX_PENDING_PER_CLIENT
          Global,       \* MAX_PENDING_GLOBAL
          ClaimLimit,   \* MAX_CLAIMS
          MaxClaims     \* bound: claims of one request

ASSUME BrokerAssumption == /\ ClientOf \in [Requests -> Clients]
                           /\ PerClient \in Nat
                           /\ Global \in Nat
                           /\ ClaimLimit \in Nat \ {0}
                           /\ MaxClaims \in Nat

VARIABLES
  row,      \* the state of each request's row, "none" when there is none
  claim,    \* the claim whose token the row carries (claim_hash), 0 if none
  claims,   \* how many claims of the request there have been
  memory,   \* the claim whose answer is kept in memory, 0 if none
  expired,  \* requests past expires_at
  lapsed,   \* claimed rows whose lease has run out
  aged,     \* rows completed more than a minute ago
  caller,   \* the remote call
  work,     \* claims the Core's thread still has to answer
  late      \* answers the Core gave up on that are still on their way

brokerVars == <<row, claim, claims, memory, expired, lapsed, aged, caller,
                work, late>>

Waiting == {"queued", "claimed"}
Pending == Waiting \cup {"answered"}
Results == {"available", "unavailable", "timeout", "refused", "dead"}
Claims == [q : Requests, n : 1..MaxClaims]

BrokerTypeOK ==
  /\ row \in [Requests -> {"none", "cancelled"} \cup Pending]
  /\ claim \in [Requests -> 0..MaxClaims]
  /\ claims \in [Requests -> 0..MaxClaims]
  /\ memory \in [Requests -> 0..MaxClaims]
  /\ caller \in [Requests -> {"idle", "admitted", "waiting"} \cup Results]
  /\ expired \subseteq Requests
  /\ lapsed \subseteq Requests
  /\ aged \subseteq Requests
  /\ work \subseteq Claims
  /\ late \subseteq Claims

BrokerInit ==
  /\ row = [q \in Requests |-> "none"]
  /\ claim = [q \in Requests |-> 0]
  /\ claims = [q \in Requests |-> 0]
  /\ memory = [q \in Requests |-> 0]
  /\ caller = [q \in Requests |-> "idle"]
  /\ expired = {} /\ lapsed = {} /\ aged = {}
  /\ work = {} /\ late = {}

-----------------------------------------------------------------------------
(* What every operation does first *)

(* Mutant: finished rows are never deleted. *)
CleanedButFinished ==
  [q \in Requests |->
     IF row[q] = "cancelled" \/ (q \in expired /\ row[q] \in Waiting) THEN "none"
     ELSE IF row[q] = "claimed" /\ q \in lapsed THEN "queued" ELSE row[q]]

(* An expired row is cancelled and, like every cancelled row and every one  *)
(* that was completed a minute ago, deleted; a claim whose lease ran out    *)
(* goes back to the queue.                                                  *)
Cleaned ==
  [q \in Requests |->
     IF \/ row[q] = "cancelled"
        \/ q \in aged
        \/ q \in expired /\ row[q] \in Waiting
     THEN "none"
     ELSE IF row[q] = "claimed" /\ q \in lapsed THEN "queued" ELSE row[q]]

(* The token of the claim goes with the claimed state. *)
TokenOf(r) == [q \in Requests |-> IF r[q] = "claimed" THEN claim[q] ELSE 0]

CleanedMemory == [q \in Requests |-> IF q \in expired THEN 0 ELSE memory[q]]

(* The database after an operation: the rows r, with the tokens that go     *)
(* with them.                                                               *)
Rows(r) == /\ row' = r
           /\ claim' = TokenOf(r)
           /\ lapsed' = {q \in lapsed : r[q] = "claimed"}
           /\ aged' = {q \in aged : r[q] # "none"}

PendingOf(r, Q) == Cardinality({q \in Q : r[q] \in Pending})
OfClient(c) == {q \in Requests : ClientOf[q] = c}

-----------------------------------------------------------------------------
(* The remote call: enqueue, then wait *)

Enqueue(q) ==
  /\ caller[q] = "admitted"
  /\ PendingOf(Cleaned, Requests) < Global
  /\ PendingOf(Cleaned, OfClient(ClientOf[q])) < PerClient
  /\ Rows([Cleaned EXCEPT ![q] = "queued"])
  /\ memory' = CleanedMemory
  /\ caller' = [caller EXCEPT ![q] = "waiting"]
  /\ UNCHANGED <<claims, expired, work, late>>

(* The Core is offline, the broker is full or the client exceeds its rate:  *)
(* the transaction is rolled back, the purge of the memory is not.          *)
Refuse(q) ==
  /\ caller[q] = "admitted"
  /\ memory' \in {memory, CleanedMemory}
  /\ caller' = [caller EXCEPT ![q] = "refused"]
  /\ UNCHANGED <<row, claim, claims, expired, lapsed, aged, work, late>>

(* One turn of the loop in wait: an answered row is consumed, a row that is *)
(* gone ends the call, anything else is polled again.                       *)
Poll(q) ==
  /\ caller[q] = "waiting"
  /\ LET answered == Cleaned[q] = "answered"
     IN /\ Rows(IF answered THEN [Cleaned EXCEPT ![q] = "none"] ELSE Cleaned)
        /\ memory' = IF answered THEN [CleanedMemory EXCEPT ![q] = 0]
                     ELSE CleanedMemory
        /\ caller' = [caller EXCEPT ![q] =
                        CASE Cleaned[q] = "none" -> "unavailable"
                          [] answered /\ CleanedMemory[q] = 0 -> "unavailable"
                          [] answered /\ CleanedMemory[q] # 0 -> "available"
                          [] OTHER -> "waiting"]
  /\ UNCHANGED <<claims, expired, work, late>>

(* The caller's ten seconds are over: cancel.  A row that was answered in   *)
(* the meantime stays, without its answer.                                  *)
GiveUp(q) ==
  /\ caller[q] = "waiting"
  /\ caller' = [caller EXCEPT ![q] = "timeout"]
  /\ memory' = [memory EXCEPT ![q] = 0]
  /\ Rows(IF row[q] \in Waiting THEN [row EXCEPT ![q] = "cancelled"] ELSE row)
  /\ UNCHANGED <<claims, expired, work, late>>

(* Mutant: only the rows that wait for the Core are cancelled. *)
CancelClientWaiting(c) ==
  LET found == {q \in OfClient(c) : row[q] \in Waiting}
  IN /\ Rows([q \in Requests |-> IF q \in found THEN "cancelled" ELSE row[q]])
     /\ memory' = [q \in Requests |-> IF q \in found THEN 0 ELSE memory[q]]
     /\ UNCHANGED <<claims, expired, caller, work, late>>

(* Every request of the client that is still kept is cancelled, with its    *)
(* answer.                                                                  *)
CancelClient(c) ==
  /\ Rows([q \in Requests |->
             IF q \in OfClient(c) /\ row[q] \in Pending THEN "cancelled"
             ELSE row[q]])
  /\ memory' = [q \in Requests |->
                  IF q \in OfClient(c) /\ row[q] # "none" THEN 0
                  ELSE memory[q]]
  /\ UNCHANGED <<claims, expired, caller, work, late>>

-----------------------------------------------------------------------------
(* The Core: claim, then answer claim by claim *)

Claimable == {q \in Requests : /\ Cleaned[q] = "queued"
                               /\ q \notin expired
                               /\ claims[q] < MaxClaims}

(* The Edge gives as many queued requests to the Core as one call may take, *)
(* the oldest in the code, any here; received says whether its reply        *)
(* arrives.                                                                 *)
Claim(received) ==
  /\ work = {}
  /\ \E given \in SUBSET Claimable :
        /\ Cardinality(given) <= ClaimLimit
        /\ given = Claimable \/ Cardinality(given) = ClaimLimit
        /\ row' = [q \in Requests |-> IF q \in given THEN "claimed"
                                      ELSE Cleaned[q]]
        /\ claims' = [q \in Requests |-> IF q \in given THEN claims[q] + 1
                                         ELSE claims[q]]
        /\ claim' = [q \in Requests |-> IF q \in given THEN claims[q] + 1
                                        ELSE TokenOf(Cleaned)[q]]
        /\ lapsed' = {q \in lapsed \ given : Cleaned[q] = "claimed"}
        /\ aged' = {q \in aged : Cleaned[q] # "none"}
        /\ work' = IF received
                   THEN {[q |-> q, n |-> claims[q] + 1] : q \in given} ELSE {}
  /\ memory' = CleanedMemory
  /\ UNCHANGED <<expired, caller, late>>

(* Mutant: an answer is taken from any claim of the request. *)
AnsweredByAny(a) ==
  IF Cleaned[a.q] = "claimed" /\ a.q \notin expired
  THEN /\ Rows([Cleaned EXCEPT ![a.q] = "answered"])
       /\ memory' = [CleanedMemory EXCEPT ![a.q] = a.n]
  ELSE /\ memory' = CleanedMemory
       /\ UNCHANGED <<row, claim, lapsed, aged>>

(* The Edge takes an answer only from the claim the row carries. *)
Answered(a) ==
  IF Cleaned[a.q] = "claimed" /\ a.q \notin expired /\ claim[a.q] = a.n
  THEN /\ Rows([Cleaned EXCEPT ![a.q] = "answered"])
       /\ memory' = [CleanedMemory EXCEPT ![a.q] = a.n]
  ELSE /\ memory' = CleanedMemory
       /\ UNCHANGED <<row, claim, lapsed, aged>>

Answer(a) ==
  /\ a \in work
  /\ work' = work \ {a}
  /\ Answered(a)
  /\ UNCHANGED <<claims, expired, caller, late>>

(* The post fails or its reply is lost: the Core drops the rest of its      *)
(* batch, and the answer may still arrive.                                  *)
AnswerFails(a, delayed) ==
  /\ a \in work
  /\ work' = {}
  /\ late' = IF delayed THEN late \cup {a} ELSE late
  /\ UNCHANGED <<row, claim, claims, memory, expired, lapsed, aged, caller>>

LateAnswer(a) ==
  /\ a \in late
  /\ late' = late \ {a}
  /\ Answered(a)
  /\ UNCHANGED <<claims, expired, caller, work>>

-----------------------------------------------------------------------------
(* Restarts, decommissioning and time *)

(* The Edge comes back with its rows, without its answers and its calls. *)
BrokerRestart ==
  /\ memory' = [q \in Requests |-> 0]
  /\ caller' = [q \in Requests |->
                  IF caller[q] \in {"admitted", "waiting"} THEN "dead"
                  ELSE caller[q]]
  /\ late' = {}
  /\ UNCHANGED <<row, claim, claims, expired, lapsed, aged, work>>

PurgeBroker ==
  /\ memory' = [q \in Requests |-> 0]
  /\ Rows([q \in Requests |-> "none"])
  /\ UNCHANGED <<claims, expired, caller, work, late>>

Expire(q) ==
  /\ q \notin expired
  /\ row[q] \in Pending
  /\ expired' = expired \cup {q}
  /\ UNCHANGED <<row, claim, claims, memory, lapsed, aged, caller, work, late>>

Lapse(q) ==
  /\ q \notin lapsed
  /\ row[q] = "claimed"
  /\ lapsed' = lapsed \cup {q}
  /\ UNCHANGED <<row, claim, claims, memory, expired, aged, caller, work, late>>

(* A row is completed before it expires, and a minute is longer than the    *)
(* twenty seconds a request can last.                                       *)
GrowOld(q) ==
  /\ q \in expired \ aged
  /\ row[q] = "answered"
  /\ aged' = aged \cup {q}
  /\ UNCHANGED <<row, claim, claims, memory, expired, lapsed, caller, work, late>>

-----------------------------------------------------------------------------
(* Properties *)

(* A private answer is in memory only for a row that says answered, and it  *)
(* is the answer of the latest claim: an answer that arrives after its      *)
(* lease ran out and the request was claimed again is never the one kept    *)
(* (answer in relay/forwarding.py).                                         *)
HeldAnswer ==
  \A q \in Requests : memory[q] # 0 => /\ row[q] = "answered"
                                       /\ memory[q] = claims[q]

=============================================================================
