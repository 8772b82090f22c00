------------------------- MODULE EdgeServiceProofs -------------------------
(* Proofs about the hosted Edge: for any number of clients, requests,       *)
(* grants and proposals, an answer is held only for the claim it was asked  *)
(* under, a proposal is imported once, a family of tokens ends for good, a  *)
(* disconnected client is not answered, a claim is never lost, and what a   *)
(* decommissioned Edge has deleted does not come back.                      *)
(*                                                                          *)
(* The invariant has a part for each component, preserved by that           *)
(* component's actions whoever takes them, and a part that relates the      *)
(* steps of a disconnection and of a decommissioning to the components.     *)
EXTENDS EdgeService, FiniteSetTheorems, TLAPS

-----------------------------------------------------------------------------
(* The invariant.                                                           *)

(* A claimed row carries the token of the latest claim; a request without   *)
(* a row may be one that has not called yet, and only that one can get one. *)
BrokerInv ==
  /\ BrokerTypeOK
  /\ HeldAnswer
  /\ \A q \in Requests : row[q] = "claimed" => claim[q] = claims[q]
  /\ aged \subseteq expired
  /\ \A q \in Requests : caller[q] \in {"idle", "admitted"} => row[q] = "none"

(* Only a family has live tokens, and of refresh tokens it has one.         *)
OAuthInv ==
  /\ OAuthTypeOK
  /\ \A g \in Grants : \A m, n \in Live(refresh[g]) : m = n
  /\ \A g \in Grants : grant[g] # "family" => Live(refresh[g]) = {}

(* Identifiers are used in order and never again, a key has one row, a      *)
(* receipt stands for one candidate, and an import is reported only when    *)
(* it was made.                                                             *)
Accounted(i) == copies[i] > 0 \/ i \in purged
IntakeInv ==
  /\ IntakeTypeOK
  /\ \E n \in 0..MaxProposals : Used = 1..n
  /\ \A i, j \in Ids : i # j /\ queue[i] # NoRow /\ queue[j] # NoRow
                         => queue[i].key # queue[j].key
  /\ \A i \in Ids : copies[i] = IF i \in receipt THEN 1 ELSE 0
  /\ receipt \subseteq Used /\ pulled \subseteq Used
  /\ \A r \in astray : r[2] = "imported" => Accounted(r[1])
  /\ decided # <<>> => decided[1] \in Used
  /\ decided # <<>> /\ decided[2] = "imported" => Accounted(decided[1])
  /\ \A i \in Ids : queue[i].status = "imported" => Accounted(i)

(* Until the acknowledgement the Core's credentials may be replaced, after  *)
(* it neither side changes them.                                            *)
PairingInv ==
  /\ ClaimTypeOK
  /\ edge.secret = edge.runtime
  /\ edge.acked => core.creds = edge.runtime
  /\ core.pc = "save" => ~edge.acked
  /\ core.pc = "forget" => edge.acked
  /\ ~core.key => edge.acked

(* A request that was cut off is over, and a decommissioning is under way   *)
(* only under the terminal flag.                                            *)
ServiceInv ==
  /\ load \in Loads /\ turn \in {"pull", "forward"}
  /\ cutting \subseteq Clients /\ cut \subseteq Requests
  /\ closing \in {"no", "flagged", "cleared", "done"} /\ faults \in 0..load.faults
  /\ \A q \in cut : row[q] \in {"none", "cancelled"} /\ caller[q] \notin {"idle", "admitted"}
  /\ closing # "no" => terminal
  /\ closing \in {"cleared", "done"} => \A q \in Requests : row[q] = "none"
  /\ closing = "done" => \A i \in Ids : queue[i] = NoRow

Inv == BrokerInv /\ OAuthInv /\ IntakeInv /\ PairingInv /\ ServiceInv

-----------------------------------------------------------------------------
(* The broker.                                                              *)

(* No step but a new call gives a row to a request that has none or that is *)
(* cancelled.                                                               *)
Over(q) == row[q] \in {"none", "cancelled"}
Quiet(q) == /\ row[q] = "none" => row'[q] = "none"
            /\ Over(q) => Over(q)'
            /\ caller[q] \notin {"idle", "admitted"} => caller'[q] \notin {"idle", "admitted"}

States == {"none", "cancelled", "queued", "claimed", "answered"}

(* The cleanup keeps an answered row as long as its answer may be taken.    *)
LEMMA CleanedFacts ==
  ASSUME BrokerInv
  PROVE  /\ Cleaned \in [Requests -> States] /\ CleanedMemory \in [Requests -> 0..MaxClaims]
         /\ \A q \in Requests :
              /\ Over(q) => Cleaned[q] = "none"
              /\ Cleaned[q] = "claimed" => row[q] = "claimed"
              /\ Cleaned[q] = "queued" => row[q] \in {"queued", "claimed"}
              /\ Cleaned[q] = "answered" => row[q] = "answered"
              /\ CleanedMemory[q] # 0 => /\ Cleaned[q] = "answered"
                                         /\ CleanedMemory[q] = claims[q]
<1>1. row \in [Requests -> States] /\ memory \in [Requests -> 0..MaxClaims]
  BY DEF BrokerInv, BrokerTypeOK, States, Pending, Waiting
<1>2. Cleaned \in [Requests -> States]
  BY <1>1 DEF Cleaned, States
<1>3. CleanedMemory \in [Requests -> 0..MaxClaims]
  BY <1>1, BrokerAssumption DEF CleanedMemory
<1>4. ASSUME NEW q \in Requests
      PROVE  /\ Over(q) => Cleaned[q] = "none"
             /\ Cleaned[q] = "claimed" => row[q] = "claimed"
             /\ Cleaned[q] = "queued" => row[q] \in {"queued", "claimed"}
             /\ Cleaned[q] = "answered" => row[q] = "answered"
  BY <1>1 DEF Cleaned, Over, Waiting
<1>5. ASSUME NEW q \in Requests, CleanedMemory[q] # 0
      PROVE  Cleaned[q] = "answered" /\ CleanedMemory[q] = claims[q]
  <2>1. q \notin expired /\ CleanedMemory[q] = memory[q]
    BY <1>5 DEF CleanedMemory
  <2>2. row[q] = "answered" /\ memory[q] = claims[q] /\ q \notin aged
    BY <1>5, <2>1 DEF BrokerInv, HeldAnswer
  <2> QED
    BY <2>1, <2>2 DEF Cleaned
<1> QED
  BY <1>2, <1>3, <1>4, <1>5

(* The rows r are written, and no request is claimed by it.                 *)
LEMMA RowsInv ==
  ASSUME BrokerInv, NEW r \in [Requests -> States], Rows(r),
         \A q \in Requests : r[q] = "claimed" => row[q] = "claimed",
         memory' \in [Requests -> 0..MaxClaims],
         \A q \in Requests : memory'[q] # 0 => r[q] = "answered" /\ memory'[q] = claims[q],
         caller' \in [Requests -> {"idle", "admitted", "waiting"} \cup Results],
         \A q \in Requests : caller'[q] \in {"idle", "admitted"} => r[q] = "none",
         UNCHANGED <<claims, expired>>, work' \subseteq Claims, late' \subseteq Claims
  PROVE  BrokerInv'
<1>1. /\ row' = r /\ claim' = [q \in Requests |-> IF r[q] = "claimed" THEN claim[q] ELSE 0]
      /\ lapsed' \subseteq lapsed /\ aged' \subseteq aged
  BY DEF Rows, TokenOf
<1>2. BrokerTypeOK'
  <2>1. claim' \in [Requests -> 0..MaxClaims]
    BY <1>1, BrokerAssumption DEF BrokerInv, BrokerTypeOK
  <2> QED
    BY <1>1, <2>1 DEF BrokerInv, BrokerTypeOK, States, Pending, Waiting
<1>3. HeldAnswer'
  BY <1>1 DEF HeldAnswer
<1>4. \A q \in Requests : row'[q] = "claimed" => claim'[q] = claims'[q]
  BY <1>1 DEF BrokerInv
<1> QED
  BY <1>1, <1>2, <1>3, <1>4 DEF BrokerInv

LEMMA EnqueueInv ==
  ASSUME BrokerInv, NEW q \in Requests, Enqueue(q)
  PROVE  BrokerInv' /\ \A p \in Requests \ {q} : Quiet(p)
<1> DEFINE r == [Cleaned EXCEPT ![q] = "queued"]
<1>1. /\ Rows(r) /\ memory' = CleanedMemory /\ caller' = [caller EXCEPT ![q] = "waiting"]
      /\ caller[q] = "admitted" /\ row[q] = "none"
      /\ UNCHANGED <<claims, expired, work, late>>
  BY DEF Enqueue, BrokerInv
<1>2. r \in [Requests -> States] /\ r[q] = "queued" /\ \A p \in Requests \ {q} : r[p] = Cleaned[p]
  BY CleanedFacts DEF States
<1>3. \A p \in Requests : r[p] = "claimed" => row[p] = "claimed"
  BY <1>2, CleanedFacts
<1>4. \A p \in Requests : memory'[p] # 0 => r[p] = "answered" /\ memory'[p] = claims[p]
  BY <1>1, <1>2, CleanedFacts DEF Over
<1>5. /\ caller' \in [Requests -> {"idle", "admitted", "waiting"} \cup Results]
      /\ \A p \in Requests : caller'[p] \in {"idle", "admitted"} => r[p] = "none"
      /\ work' \subseteq Claims /\ late' \subseteq Claims
  BY <1>1, <1>2, CleanedFacts DEF BrokerInv, BrokerTypeOK, Over
<1>6. memory' \in [Requests -> 0..MaxClaims]
  BY <1>1, CleanedFacts
<1>7. \A p \in Requests \ {q} : Quiet(p)
  BY <1>1, <1>2, CleanedFacts DEF Quiet, Over, Rows, BrokerInv, BrokerTypeOK
<1> HIDE DEF r
<1> QED
  BY <1>1, <1>2, <1>3, <1>4, <1>5, <1>6, <1>7, RowsInv

LEMMA RefuseInv ==
  ASSUME BrokerInv, NEW q \in Requests, Refuse(q)
  PROVE  BrokerInv' /\ \A p \in Requests : Quiet(p)
<1>1. /\ memory' \in [Requests -> 0..MaxClaims]
      /\ \A p \in Requests : memory'[p] # 0 => row[p] = "answered" /\ memory'[p] = claims[p]
  BY CleanedFacts DEF Refuse, BrokerInv, BrokerTypeOK, HeldAnswer
<1>2. /\ caller' \in [Requests -> {"idle", "admitted", "waiting"} \cup Results]
      /\ \A p \in Requests : caller'[p] \in {"idle", "admitted"} => caller[p] = caller'[p]
      /\ \A p \in Requests : caller[p] \notin {"idle", "admitted"} =>
                             caller'[p] \notin {"idle", "admitted"}
  BY DEF Refuse, BrokerInv, BrokerTypeOK, Results
<1> QED
  BY <1>1, <1>2 DEF Refuse, BrokerInv, BrokerTypeOK, HeldAnswer, Quiet, Over

LEMMA PollInv ==
  ASSUME BrokerInv, NEW q \in Requests, Poll(q)
  PROVE  BrokerInv' /\ \A p \in Requests : Quiet(p)
<1> DEFINE answered == Cleaned[q] = "answered"
<1> DEFINE r == IF answered THEN [Cleaned EXCEPT ![q] = "none"] ELSE Cleaned
<1>1. /\ Rows(r) /\ caller[q] = "waiting"
      /\ memory' = IF answered THEN [CleanedMemory EXCEPT ![q] = 0] ELSE CleanedMemory
      /\ \E result \in Results \cup {"waiting"} : caller' = [caller EXCEPT ![q] = result]
      /\ UNCHANGED <<claims, expired, work, late>>
  BY DEF Poll, Results
<1>2. /\ r \in [Requests -> States]
      /\ \A p \in Requests : r[p] = Cleaned[p] \/ (p = q /\ r[p] = "none" /\ memory'[q] = 0)
  BY <1>1, CleanedFacts DEF States
<1>3. \A p \in Requests : r[p] = "claimed" => row[p] = "claimed"
  BY <1>2, CleanedFacts
<1>4. /\ memory' \in [Requests -> 0..MaxClaims]
      /\ \A p \in Requests : memory'[p] # 0 => r[p] = "answered" /\ memory'[p] = claims[p]
  <2>1. memory' \in [Requests -> 0..MaxClaims]
    BY <1>1, CleanedFacts, BrokerAssumption
  <2>2. \A p \in Requests : memory'[p] # 0 => memory'[p] = CleanedMemory[p]
    BY <1>1, CleanedFacts
  <2> QED
    BY <1>2, <2>1, <2>2, CleanedFacts
<1>5. /\ caller' \in [Requests -> {"idle", "admitted", "waiting"} \cup Results]
      /\ \A p \in Requests : caller'[p] \in {"idle", "admitted"} => caller[p] = caller'[p]
      /\ \A p \in Requests : caller[p] \notin {"idle", "admitted"} =>
                             caller'[p] \notin {"idle", "admitted"}
      /\ work' \subseteq Claims /\ late' \subseteq Claims
  BY <1>1 DEF BrokerInv, BrokerTypeOK, Results
<1>6. \A p \in Requests : caller'[p] \in {"idle", "admitted"} => r[p] = "none"
  BY <1>2, <1>5, CleanedFacts DEF BrokerInv, Over
<1>7. \A p \in Requests : Quiet(p)
  BY <1>1, <1>2, <1>5, CleanedFacts DEF Quiet, Over, Rows
<1> HIDE DEF r
<1> QED
  BY <1>1, <1>2, <1>3, <1>4, <1>5, <1>6, <1>7, RowsInv

LEMMA GiveUpInv ==
  ASSUME BrokerInv, NEW q \in Requests, GiveUp(q)
  PROVE  BrokerInv' /\ \A p \in Requests : Quiet(p)
<1> DEFINE r == IF row[q] \in Waiting THEN [row EXCEPT ![q] = "cancelled"] ELSE row
<1>1. /\ Rows(r) /\ caller[q] = "waiting" /\ memory' = [memory EXCEPT ![q] = 0]
      /\ caller' = [caller EXCEPT ![q] = "timeout"]
      /\ UNCHANGED <<claims, expired, work, late>>
  BY DEF GiveUp
<1>2. /\ row \in [Requests -> States] /\ r \in [Requests -> States]
      /\ \A p \in Requests : r[p] = row[p] \/ (p = q /\ r[p] = "cancelled" /\ ~Over(p))
  BY DEF BrokerInv, BrokerTypeOK, States, Pending, Waiting, Over
<1>3. /\ memory' \in [Requests -> 0..MaxClaims]
      /\ \A p \in Requests : memory'[p] # 0 => r[p] = "answered" /\ memory'[p] = claims[p]
  BY <1>1, <1>2, BrokerAssumption DEF BrokerInv, BrokerTypeOK, HeldAnswer
<1>4. /\ caller' \in [Requests -> {"idle", "admitted", "waiting"} \cup Results]
      /\ \A p \in Requests : caller'[p] \in {"idle", "admitted"} => r[p] = "none"
      /\ \A p \in Requests : caller[p] \notin {"idle", "admitted"} =>
                             caller'[p] \notin {"idle", "admitted"}
      /\ work' \subseteq Claims /\ late' \subseteq Claims
  BY <1>1, <1>2 DEF BrokerInv, BrokerTypeOK, Results
<1>5. \A p \in Requests : Quiet(p)
  BY <1>1, <1>2, <1>4 DEF Quiet, Over, Rows
<1> HIDE DEF r
<1> QED
  BY <1>1, <1>2, <1>3, <1>4, <1>5, RowsInv

LEMMA CancelClientInv ==
  ASSUME BrokerInv, NEW c \in Clients, CancelClient(c)
  PROVE  /\ BrokerInv' /\ \A p \in Requests : Quiet(p)
         /\ \A p \in OfClient(c) : Over(p)'
<1> DEFINE r == [p \in Requests |-> IF p \in OfClient(c) /\ row[p] \in Pending THEN "cancelled"
                                    ELSE row[p]]
<1>1. /\ Rows(r) /\ UNCHANGED <<claims, expired, caller, work, late>>
      /\ memory' = [p \in Requests |-> IF p \in OfClient(c) /\ row[p] # "none" THEN 0
                                       ELSE memory[p]]
  BY DEF CancelClient
<1>2. /\ row \in [Requests -> States] /\ r \in [Requests -> States]
      /\ \A p \in Requests : r[p] = row[p] \/ (p \in OfClient(c) /\ r[p] = "cancelled" /\ ~Over(p))
      /\ \A p \in OfClient(c) : p \in Requests /\ r[p] \in {"none", "cancelled"}
  BY DEF BrokerInv, BrokerTypeOK, States, Pending, Waiting, Over, OfClient
<1>3. /\ memory' \in [Requests -> 0..MaxClaims]
      /\ \A p \in Requests : memory'[p] # 0 => r[p] = "answered" /\ memory'[p] = claims[p]
  BY <1>1, <1>2, BrokerAssumption DEF BrokerInv, BrokerTypeOK, HeldAnswer, Over
<1>4. /\ caller' \in [Requests -> {"idle", "admitted", "waiting"} \cup Results]
      /\ \A p \in Requests : caller'[p] \in {"idle", "admitted"} => r[p] = "none"
      /\ work' \subseteq Claims /\ late' \subseteq Claims
  BY <1>1, <1>2 DEF BrokerInv, BrokerTypeOK, Over
<1>5. (\A p \in Requests : Quiet(p)) /\ \A p \in OfClient(c) : Over(p)'
  BY <1>1, <1>2 DEF Quiet, Over, Rows
<1> HIDE DEF r
<1> QED
  BY <1>1, <1>2, <1>3, <1>4, <1>5, RowsInv

LEMMA ClaimInv ==
  ASSUME BrokerInv, NEW received \in BOOLEAN, Claim(received)
  PROVE  BrokerInv' /\ \A p \in Requests : Quiet(p)
<1>1. PICK given \in SUBSET Claimable :
      /\ row' = [q \in Requests |-> IF q \in given THEN "claimed" ELSE Cleaned[q]]
      /\ claims' = [q \in Requests |-> IF q \in given THEN claims[q] + 1 ELSE claims[q]]
      /\ claim' = [q \in Requests |-> IF q \in given THEN claims[q] + 1
                                      ELSE IF Cleaned[q] = "claimed" THEN claim[q] ELSE 0]
      /\ lapsed' \subseteq lapsed /\ aged' \subseteq aged /\ memory' = CleanedMemory
      /\ \/ work' = {[q |-> q, n |-> claims[q] + 1] : q \in given}
         \/ work' = {}
      /\ UNCHANGED <<expired, caller, late>>
  BY DEF Claim, TokenOf
<1>2. \A q \in given : /\ q \in Requests /\ row[q] \in {"queued", "claimed"}
                       /\ Cleaned[q] = "queued" /\ claims[q] + 1 \in 1..MaxClaims
  BY CleanedFacts, BrokerAssumption DEF Claimable, BrokerInv, BrokerTypeOK
<1>3. row' \in [Requests -> States]
  BY <1>1, CleanedFacts DEF States
<1>4. claims' \in [Requests -> 0..MaxClaims] /\ claim' \in [Requests -> 0..MaxClaims]
  BY <1>1, <1>2, BrokerAssumption DEF BrokerInv, BrokerTypeOK
<1>5. work' \subseteq Claims
  BY <1>1, <1>2 DEF Claims
<1>6. BrokerTypeOK'
  BY <1>1, <1>3, <1>4, <1>5, CleanedFacts
     DEF BrokerInv, BrokerTypeOK, States, Pending, Waiting
<1>7. HeldAnswer'
  BY <1>1, <1>2, CleanedFacts DEF HeldAnswer
<1>8. \A q \in Requests : row'[q] = "claimed" => claim'[q] = claims'[q]
  BY <1>1, CleanedFacts DEF BrokerInv
<1>9. \A q \in Requests : /\ caller'[q] \in {"idle", "admitted"} => row'[q] = "none"
                          /\ Quiet(q)
  BY <1>1, <1>2, CleanedFacts DEF BrokerInv, Quiet, Over
<1> QED
  BY <1>1, <1>6, <1>7, <1>8, <1>9 DEF BrokerInv

(* An answer counts only for the claim the row carries.                     *)
LEMMA AnsweredInv ==
  ASSUME BrokerInv, NEW a \in Claims, Answered(a), UNCHANGED <<claims, expired, caller>>,
         work' \subseteq Claims, late' \subseteq Claims
  PROVE  BrokerInv' /\ \A p \in Requests : Quiet(p)
<1>1. a.q \in Requests /\ a.n \in 1..MaxClaims
  BY DEF Claims
<1>2. CASE Cleaned[a.q] = "claimed" /\ a.q \notin expired /\ claim[a.q] = a.n
  <2> DEFINE r == [Cleaned EXCEPT ![a.q] = "answered"]
  <2>1. Rows(r) /\ memory' = [CleanedMemory EXCEPT ![a.q] = a.n]
    BY <1>2 DEF Answered
  <2>2. /\ row[a.q] = "claimed" /\ claims[a.q] = a.n
        /\ r \in [Requests -> States] /\ r[a.q] = "answered"
        /\ \A p \in Requests \ {a.q} : r[p] = Cleaned[p]
    BY <1>1, <1>2, CleanedFacts DEF BrokerInv, States
  <2>3. /\ memory' \in [Requests -> 0..MaxClaims]
        /\ \A p \in Requests : memory'[p] # 0 => r[p] = "answered" /\ memory'[p] = claims[p]
    BY <1>1, <2>1, <2>2, CleanedFacts, BrokerAssumption
  <2>4. /\ \A p \in Requests : r[p] = "claimed" => row[p] = "claimed"
        /\ caller' \in [Requests -> {"idle", "admitted", "waiting"} \cup Results]
        /\ \A p \in Requests : caller'[p] \in {"idle", "admitted"} => r[p] = "none"
    BY <2>2, CleanedFacts DEF BrokerInv, BrokerTypeOK, Over
  <2>5. \A p \in Requests : Quiet(p)
    BY <2>1, <2>2, CleanedFacts DEF Quiet, Over, Rows
  <2> HIDE DEF r
  <2> QED
    BY <2>1, <2>2, <2>3, <2>4, <2>5, RowsInv
<1>3. CASE ~(Cleaned[a.q] = "claimed" /\ a.q \notin expired /\ claim[a.q] = a.n)
  <2>1. memory' = CleanedMemory /\ UNCHANGED <<row, claim, lapsed, aged>>
    BY <1>3 DEF Answered
  <2>2. \A p \in Requests : CleanedMemory[p] # 0 => row[p] = "answered"
    BY CleanedFacts
  <2> QED
    BY <2>1, <2>2, CleanedFacts DEF BrokerInv, BrokerTypeOK, HeldAnswer, Quiet, Over
<1> QED
  BY <1>2, <1>3

(* Steps that leave the rows alone.                                         *)
LEMMA RowsKeptInv ==
  ASSUME BrokerInv,
         UNCHANGED <<row, claim, claims>>, lapsed' \subseteq Requests,
         expired' \subseteq Requests, expired \subseteq expired', aged' \subseteq expired',
         memory' \in [Requests -> 0..MaxClaims],
         \A q \in Requests : memory'[q] \in {0, memory[q]},
         caller' \in [Requests -> {"idle", "admitted", "waiting"} \cup Results],
         \A q \in Requests : caller'[q] \in {"idle", "admitted"} => caller[q] \in {"idle", "admitted"},
         work' \subseteq Claims, late' \subseteq Claims
  PROVE  BrokerInv' /\ \A q \in Requests : Quiet(q)
BY DEF BrokerInv, BrokerTypeOK, HeldAnswer, Quiet, Over

LEMMA AdmitInv ==
  ASSUME BrokerInv, NEW q \in Requests, Admit(q)
  PROVE  BrokerInv' /\ \A p \in Requests : Quiet(p)
<1>1. caller' \in [Requests -> {"idle", "admitted", "waiting"} \cup Results]
      /\ \A p \in Requests : caller'[p] \in {"idle", "admitted"} => caller[p] \in {"idle", "admitted"}
  BY DEF Admit, BrokerInv, BrokerTypeOK
<1> QED
  BY <1>1, RowsKeptInv DEF Admit, BrokerInv, BrokerTypeOK

LEMMA AnswerFailsInv ==
  ASSUME BrokerInv, NEW a \in work, NEW delayed \in BOOLEAN, AnswerFails(a, delayed)
  PROVE  BrokerInv' /\ \A p \in Requests : Quiet(p)
BY RowsKeptInv DEF AnswerFails, BrokerInv, BrokerTypeOK

LEMMA TimeInv ==
  ASSUME BrokerInv, NEW q \in Requests, Expire(q) \/ Lapse(q) \/ GrowOld(q)
  PROVE  BrokerInv' /\ \A p \in Requests : Quiet(p)
<1>1. CASE Expire(q)
  BY <1>1, RowsKeptInv DEF Expire, BrokerInv, BrokerTypeOK
<1>2. CASE Lapse(q)
  BY <1>2, RowsKeptInv DEF Lapse, BrokerInv, BrokerTypeOK
<1>3. CASE GrowOld(q)
  BY <1>3, RowsKeptInv DEF GrowOld, BrokerInv, BrokerTypeOK
<1> QED
  BY <1>1, <1>2, <1>3

LEMMA BrokerRestartInv ==
  ASSUME BrokerInv, BrokerRestart
  PROVE  BrokerInv' /\ \A p \in Requests : Quiet(p)
<1>1. /\ caller' \in [Requests -> {"idle", "admitted", "waiting"} \cup Results]
      /\ \A p \in Requests : caller'[p] \in {"idle", "admitted"} => caller[p] \in {"idle", "admitted"}
      /\ memory' \in [Requests -> 0..MaxClaims] /\ \A p \in Requests : memory'[p] = 0
  BY BrokerAssumption DEF BrokerRestart, BrokerInv, BrokerTypeOK, Results
<1> QED
  BY <1>1, RowsKeptInv DEF BrokerRestart, BrokerInv, BrokerTypeOK

LEMMA PurgeBrokerInv ==
  ASSUME BrokerInv, PurgeBroker
  PROVE  BrokerInv' /\ \A p \in Requests : Quiet(p) /\ row'[p] = "none"
<1> DEFINE r == [q \in Requests |-> "none"]
<1>1. /\ Rows(r) /\ r \in [Requests -> States] /\ UNCHANGED <<claims, expired, caller, work, late>>
      /\ memory' \in [Requests -> 0..MaxClaims] /\ \A p \in Requests : memory'[p] = 0
      /\ \A p \in Requests : r[p] = "none"
  BY BrokerAssumption DEF PurgeBroker, States
<1>2. \A p \in Requests : Quiet(p) /\ row'[p] = "none"
  BY <1>1 DEF Quiet, Over, Rows
<1> HIDE DEF r
<1> QED
  BY <1>1, <1>2, RowsInv DEF BrokerInv, BrokerTypeOK

-----------------------------------------------------------------------------
(* The tokens.                                                              *)

(* A family that has no live refresh token gets none.                       *)
Ends == \A g \in Grants : grant[g] = "family" /\ Live(refresh[g]) = {} => Live(refresh'[g]) = {}

(* Steps that bring no refresh token to life.                               *)
LEMMA FewerTokens ==
  ASSUME OAuthInv, OAuthTypeOK',
         \A g \in Grants : Live(refresh'[g]) \subseteq Live(refresh[g]),
         \A g \in Grants : grant[g] = "family" => grant'[g] = "family"
  PROVE  OAuthInv' /\ Ends
BY DEF OAuthInv, Ends, Live

LEMMA EndedFacts ==
  ASSUME NEW t \in [Tokens -> {"none", "live", "revoked"}]
  PROVE  Ended(t) \in [Tokens -> {"none", "live", "revoked"}] /\ Live(Ended(t)) = {}
BY DEF Ended, Live

LEMMA EndFamiliesFacts ==
  ASSUME OAuthTypeOK, NEW G, EndFamilies(G)
  PROVE  /\ access' \in [Grants -> [Tokens -> {"none", "live", "revoked"}]]
         /\ refresh' \in [Grants -> [Tokens -> {"none", "live", "revoked"}]]
         /\ \A g \in Grants : Live(refresh'[g]) \subseteq Live(refresh[g])
<1>1. \A g \in Grants : /\ access[g] \in [Tokens -> {"none", "live", "revoked"}]
                        /\ refresh[g] \in [Tokens -> {"none", "live", "revoked"}]
  BY DEF OAuthTypeOK
<1>2. \A g \in Grants : Live(Ended(refresh[g])) = {}
  BY <1>1, EndedFacts
<1> QED
  BY <1>1, <1>2, EndedFacts DEF EndFamilies

LEMMA GrantInv ==
  ASSUME OAuthInv, NEW g \in Grants, Authorize(g) \/ Consent(g) \/ Lapsed(g)
  PROVE  OAuthInv' /\ Ends
<1>1. /\ grant' \in [Grants -> {"none", "asked", "code", "over", "family"}]
      /\ \A h \in Grants : grant[h] = "family" => grant'[h] = "family"
      /\ UNCHANGED <<access, refresh, presented, terminal>>
  BY DEF Authorize, Consent, Lapsed, Grant, OAuthInv, OAuthTypeOK
<1> QED
  BY <1>1, FewerTokens DEF OAuthInv, OAuthTypeOK

LEMMA ExchangeInv ==
  ASSUME OAuthInv, NEW g \in Grants, Exchange(g)
  PROVE  OAuthInv' /\ Ends
<1>1. /\ grant[g] = "code" /\ grant' = [grant EXCEPT ![g] = "family"]
      /\ access' = [access EXCEPT ![g][1] = "live"]
      /\ refresh' = [refresh EXCEPT ![g][1] = "live"]
      /\ UNCHANGED <<presented, terminal>> /\ 1 \in Tokens
  BY OAuthAssumption DEF Exchange, Grant, Tokens
<1>2. OAuthTypeOK'
  BY <1>1 DEF OAuthInv, OAuthTypeOK
<1>3. Live(refresh[g]) = {}
  BY <1>1 DEF OAuthInv
<1>4. \A n \in Live(refresh'[g]) : n = 1
  BY <1>1, <1>3 DEF Live, OAuthInv, OAuthTypeOK
<1>5. \A h \in Grants \ {g} : Live(refresh'[h]) = Live(refresh[h]) /\ grant'[h] = grant[h]
  BY <1>1 DEF OAuthInv, OAuthTypeOK
<1>6. grant'[g] = "family"
  BY <1>1 DEF OAuthInv, OAuthTypeOK
<1> QED
  BY <1>1, <1>2, <1>4, <1>5, <1>6 DEF OAuthInv, Ends

LEMMA PresentInv ==
  ASSUME OAuthInv, NEW g \in Grants, NEW n \in Tokens, Present(g, n)
  PROVE  OAuthInv' /\ Ends
BY FewerTokens DEF Present, OAuthInv, OAuthTypeOK

(* The rotated token was the only one that was live, so its successor is.   *)
LEMMA RotateInv ==
  ASSUME OAuthInv, NEW g \in Grants, NEW n \in Tokens, Rotate(g, n)
  PROVE  OAuthInv' /\ Ends
<1>1. presented' \subseteq Grants \X Tokens /\ UNCHANGED <<grant, terminal>>
  BY DEF Rotate, OAuthInv, OAuthTypeOK
<1>2. CASE refresh[g][n] = "live"
  <2>1. PICK next \in Tokens :
              /\ refresh' = [refresh EXCEPT ![g][n] = "revoked", ![g][next] = "live"]
              /\ access' = [access EXCEPT ![g][next] = "live"]
    BY <1>2 DEF Rotate
  <2>2. OAuthTypeOK'
    BY <1>1, <2>1 DEF OAuthInv, OAuthTypeOK
  <2>3. n \in Live(refresh[g]) /\ grant[g] = "family"
    BY <1>2 DEF OAuthInv, Live
  <2>4. \A m \in Live(refresh'[g]) : m = next
    BY <1>2, <2>1, <2>3 DEF OAuthInv, OAuthTypeOK, Live
  <2>5. \A h \in Grants \ {g} : Live(refresh'[h]) = Live(refresh[h])
    BY <2>1 DEF OAuthInv, OAuthTypeOK
  <2> QED
    BY <1>1, <2>2, <2>3, <2>4, <2>5 DEF OAuthInv, Ends
<1>3. CASE refresh[g][n] # "live"
  <2>1. EndFamilies({g})
    BY <1>3 DEF Rotate
  <2> QED
    BY <1>1, <2>1, EndFamiliesFacts, FewerTokens DEF OAuthInv, OAuthTypeOK
<1> QED
  BY <1>2, <1>3

LEMMA ExpireTokenInv ==
  ASSUME OAuthInv, NEW g \in Grants, NEW n \in Tokens, ExpireAccess(g, n) \/ ExpireRefresh(g, n)
  PROVE  OAuthInv' /\ Ends
<1>1. CASE ExpireAccess(g, n)
  BY <1>1, FewerTokens DEF ExpireAccess, OAuthInv, OAuthTypeOK
<1>2. CASE ExpireRefresh(g, n)
  <2>1. refresh' = [refresh EXCEPT ![g][n] = "none"] /\ UNCHANGED <<grant, access, presented, terminal>>
    BY <1>2 DEF ExpireRefresh
  <2>2. OAuthTypeOK'
    BY <2>1 DEF OAuthInv, OAuthTypeOK
  <2>3. \A h \in Grants : Live(refresh'[h]) \subseteq Live(refresh[h])
    BY <2>1 DEF OAuthInv, OAuthTypeOK, Live
  <2> QED
    BY <2>1, <2>2, <2>3, FewerTokens
<1> QED
  BY <1>1, <1>2

LEMMA GiveBackInv ==
  ASSUME OAuthInv, NEW g \in Grants, GiveBack(g)
  PROVE  OAuthInv' /\ Ends
BY EndFamiliesFacts, FewerTokens DEF GiveBack, OAuthInv, OAuthTypeOK

LEMMA RevokeLogicalInv ==
  ASSUME OAuthInv, NEW c \in Clients, RevokeLogical(c)
  PROVE  OAuthInv' /\ Ends /\ UNCHANGED terminal
<1>1. /\ grant' \in [Grants -> {"none", "asked", "code", "over", "family"}]
      /\ \A h \in Grants : grant[h] = "family" => grant'[h] = "family"
      /\ UNCHANGED <<presented, terminal>>
  BY DEF RevokeLogical, OAuthInv, OAuthTypeOK
<1>2. PICK G : EndFamilies(G)
  BY DEF RevokeLogical
<1> QED
  BY <1>1, <1>2, EndFamiliesFacts, FewerTokens DEF OAuthInv, OAuthTypeOK

LEMMA CloseEdgeInv ==
  ASSUME OAuthInv, CloseEdge
  PROVE  OAuthInv' /\ Ends /\ terminal'
<1>1. /\ grant' \in [Grants -> {"none", "asked", "code", "over", "family"}]
      /\ \A h \in Grants : grant[h] = "family" => grant'[h] = "family"
      /\ refresh' = [g \in Grants |-> NoTokens] /\ access' = [g \in Grants |-> NoTokens]
      /\ UNCHANGED presented /\ terminal'
  BY DEF CloseEdge, OAuthInv, OAuthTypeOK
<1>2. \A g \in Grants : Live(refresh'[g]) = {}
  BY <1>1 DEF Live, NoTokens
<1>3. OAuthTypeOK'
  BY <1>1 DEF OAuthInv, OAuthTypeOK, NoTokens
<1> QED
  BY <1>1, <1>2, <1>3, FewerTokens

(* At most one is live.                                                     *)
LEMMA OneLive ==
  ASSUME NEW tokens, \A m, n \in Live(tokens) : m = n
  PROVE  Cardinality(Live(tokens)) <= 1
<1>1. CASE Live(tokens) = {}
  BY <1>1, FS_EmptySet
<1>2. CASE Live(tokens) # {}
  <2>1. PICK n \in Live(tokens) : Live(tokens) = {n}
    BY <1>2
  <2>2. Cardinality({n}) = 1
    BY FS_Singleton
  <2> QED
    BY <2>1, <2>2
<1> QED
  BY <1>1, <1>2

-----------------------------------------------------------------------------
(* The proposals.                                                           *)

(* The number of the next row has not been used.                            *)
LEMMA FreshId ==
  ASSUME IntakeInv
  PROVE  /\ Cardinality(Used) \in Nat
         /\ Used = 1..Cardinality(Used)
         /\ Cardinality(Used) + 1 \notin Used
<1>1. PICK n \in 0..MaxProposals : Used = 1..n
  BY DEF IntakeInv
<1>2. n \in Nat
  BY IntakeAssumption
<1>3. Cardinality(1..n) = n
  BY <1>2, FS_Interval
<1> HIDE DEF Used
<1>4. Cardinality(Used) = n
  BY <1>1, <1>3
<1> QED
  BY <1>1, <1>2, <1>4

(* The rows and what the Core has learned of them are as before.            *)
LEMMA IntakeKept ==
  ASSUME IntakeInv, UNCHANGED <<queue, lost>>, pulled' \subseteq Used,
         IntakeTypeOK', receipt' \subseteq Used,
         \A i \in Ids : /\ copies'[i] = IF i \in receipt' THEN 1 ELSE 0
                        /\ Accounted(i) => Accounted(i)',
         \A r \in astray' : r[2] = "imported" => Accounted(r[1])',
         decided' # <<>> => decided'[1] \in Used,
         decided' # <<>> /\ decided'[2] = "imported" => Accounted(decided[1])'
  PROVE  IntakeInv'
<1>1. Used' = Used
  BY DEF Used
<1>2. \A i \in Ids : queue'[i].status = "imported" => Accounted(i)'
  BY DEF IntakeInv
<1>3. \A i, j \in Ids : i # j /\ queue'[i] # NoRow /\ queue'[j] # NoRow
                        => queue'[i].key # queue'[j].key
  BY DEF IntakeInv
<1>4. \E n \in 0..MaxProposals : Used' = 1..n
  BY <1>1 DEF IntakeInv
<1> HIDE DEF Used
<1> QED
  BY <1>1, <1>2, <1>3, <1>4 DEF IntakeInv, Accounted

LEMMA SubmitInv ==
  ASSUME IntakeInv, NEW k \in Keys, NEW v \in Values, Submit(k, v)
  PROVE  IntakeInv'
<1> DEFINE i == Cardinality(Used) + 1
           new == [key |-> k, value |-> v, status |-> "queued"]
<1>1. /\ i \in Ids /\ queue' = [queue EXCEPT ![i] = new] /\ RowsOf(k) = {}
      /\ UNCHANGED <<lost, pulled, decided, astray, receipt, copies, purged>>
  BY DEF Submit
<1>2. i \notin Used /\ Used = 1..Cardinality(Used) /\ Cardinality(Used) \in Nat
  BY FreshId
<1>3. new \in Row /\ new # NoRow /\ new.key = k /\ new.status = "queued"
  BY DEF Row, NoRow
<1> HIDE DEF new
<1>4. queue \in [Ids -> Row \cup {NoRow}]
  BY DEF IntakeInv, IntakeTypeOK
<1>5. /\ queue'[i] = new /\ \A j \in Ids \ {i} : queue'[j] = queue[j]
      /\ queue' \in [Ids -> Row \cup {NoRow}]
  BY <1>1, <1>3, <1>4
<1> HIDE DEF i
<1>6. Used' = Used \cup {i}
  BY <1>1, <1>3, <1>5 DEF Used
<1>7. Used' = 1..i /\ i \in 0..MaxProposals
  <2>1. 1..i = (1..Cardinality(Used)) \cup {i}
    BY <1>2 DEF i
  <2> QED
    BY <1>1, <1>2, <1>6, <2>1, IntakeAssumption DEF Ids
<1>8. \A j \in Ids : queue[j].key # k
  BY <1>1 DEF RowsOf
<1>9. \A a, b \in Ids : a # b /\ queue'[a] # NoRow /\ queue'[b] # NoRow
                          => queue'[a].key # queue'[b].key
  BY <1>3, <1>5, <1>8 DEF IntakeInv
<1>10. \A j \in Ids : queue'[j].status = "imported" => Accounted(j)'
  BY <1>1, <1>3, <1>5 DEF IntakeInv, Accounted
<1>11. IntakeTypeOK'
  BY <1>1, <1>5 DEF IntakeInv, IntakeTypeOK
<1> QED
  BY <1>1, <1>6, <1>7, <1>9, <1>10, <1>11 DEF IntakeInv, Accounted

(* Rows are deleted, and their identifiers are kept as lost.                *)
LEMMA DeletedInv ==
  ASSUME IntakeInv, queue' \in [Ids -> Row \cup {NoRow}],
         \A i \in Ids : queue'[i] = queue[i] \/ (queue'[i] = NoRow /\ i \in lost'),
         lost \subseteq lost', lost' \subseteq Used,
         UNCHANGED <<pulled, decided, astray, receipt, copies, purged>>
  PROVE  IntakeInv'
<1>1. Used' = Used
  BY DEF Used, IntakeInv, IntakeTypeOK
<1>2. lost' \subseteq Ids
  BY DEF Used, IntakeInv, IntakeTypeOK
<1>3. IntakeTypeOK'
  BY <1>2 DEF IntakeInv, IntakeTypeOK
<1>4. \A i \in Ids : queue'[i].status = "imported" => Accounted(i)'
  BY DEF IntakeInv, Accounted, NoRow
<1>5. \A i, j \in Ids : i # j /\ queue'[i] # NoRow /\ queue'[j] # NoRow
                        => queue'[i].key # queue'[j].key
  BY DEF IntakeInv
<1> QED
  BY <1>1, <1>3, <1>4, <1>5 DEF IntakeInv, Accounted

LEMMA TooOldInv ==
  ASSUME IntakeInv, NEW i \in Ids, TooOld(i)
  PROVE  IntakeInv'
<1>1. /\ queue' = [queue EXCEPT ![i] = NoRow] /\ lost' = lost \cup {i}
      /\ UNCHANGED <<pulled, decided, astray, receipt, copies, purged>>
      /\ queue[i].status = "queued"
  BY DEF TooOld, Queued
<1>2. queue \in [Ids -> Row \cup {NoRow}] /\ i \in Used
  BY <1>1 DEF IntakeInv, IntakeTypeOK, Used, NoRow
<1>3. lost' \subseteq Used
  BY <1>1, <1>2 DEF Used
<1>4. /\ queue' \in [Ids -> Row \cup {NoRow}]
      /\ \A j \in Ids : queue'[j] = queue[j] \/ (queue'[j] = NoRow /\ j \in lost')
  BY <1>1, <1>2
<1> QED
  BY <1>1, <1>3, <1>4, DeletedInv

LEMMA PurgeIntakeInv ==
  ASSUME IntakeInv, PurgeIntake
  PROVE  IntakeInv' /\ \A i \in Ids : queue'[i] = NoRow
<1>1. /\ queue' = [i \in Ids |-> NoRow] /\ lost' = Used
      /\ UNCHANGED <<pulled, decided, astray, receipt, copies, purged>>
  BY DEF PurgeIntake
<1>2. lost \subseteq Used /\ \A i \in Ids : queue[i] # NoRow => i \in Used
  BY DEF Used
<1> QED
  BY <1>1, <1>2, DeletedInv

LEMMA PullInv ==
  ASSUME IntakeInv, Pull
  PROVE  IntakeInv'
<1>1. /\ pulled' = Queued
      /\ UNCHANGED <<queue, lost, decided, astray, receipt, copies, purged>>
  BY DEF Pull
<1>2. Queued \subseteq Used /\ Queued \subseteq Ids
  BY DEF Queued, Used, NoRow
<1>3. IntakeTypeOK'
  BY <1>1, <1>2 DEF IntakeInv, IntakeTypeOK
<1> HIDE DEF Used
<1> QED
  BY <1>1, <1>2, <1>3, IntakeKept DEF IntakeInv, Accounted

(* A first import makes the candidate and its receipt, any later one finds  *)
(* the receipt.                                                             *)
LEMMA ImportInv ==
  ASSUME IntakeInv, NEW i \in Ids, Import(i)
  PROVE  IntakeInv'
<1>1. /\ i \in pulled /\ pulled' = pulled \ {i} /\ decided' = <<i, "imported">>
      /\ receipt' = receipt \cup {i}
      /\ copies' = IF i \in receipt THEN copies ELSE [copies EXCEPT ![i] = copies[i] + 1]
      /\ UNCHANGED <<queue, lost, astray, purged>>
  BY DEF Import
<1>2. \A j \in Ids : copies[j] = IF j \in receipt THEN 1 ELSE 0
  BY DEF IntakeInv
<1>3. /\ copies' \in [Ids -> 0..2] /\ copies'[i] = 1
      /\ \A j \in Ids : /\ copies'[j] = IF j \in receipt' THEN 1 ELSE 0
                        /\ copies[j] > 0 => copies'[j] > 0
  BY <1>1, <1>2 DEF IntakeInv, IntakeTypeOK
<1>4. decided' \in (Ids \X Decisions) \cup {<<>>} /\ decided'[1] = i
  BY <1>1 DEF Decisions
<1>5. IntakeTypeOK'
  BY <1>1, <1>3, <1>4 DEF IntakeInv, IntakeTypeOK
<1>6. i \in Used /\ pulled' \subseteq Used /\ receipt' \subseteq Used
  BY <1>1 DEF IntakeInv
<1>7. /\ \A j \in Ids : Accounted(j) => Accounted(j)'
      /\ Accounted(i)'
  BY <1>1, <1>3 DEF Accounted
<1>8. \A r \in astray' : r[2] = "imported" => Accounted(r[1])'
  BY <1>1, <1>7 DEF IntakeInv, IntakeTypeOK
<1>9. Accounted(decided[1])'
  BY <1>4, <1>7 DEF Accounted
<1> HIDE DEF Used, Accounted
<1> QED
  BY <1>1, <1>3, <1>4, <1>5, <1>6, <1>7, <1>8, <1>9, IntakeKept

LEMMA RejectInv ==
  ASSUME IntakeInv, NEW i \in Ids, Reject(i)
  PROVE  IntakeInv'
<1>1. /\ i \in pulled /\ pulled' = pulled \ {i} /\ decided' = <<i, "rejected">>
      /\ UNCHANGED <<queue, lost, astray, receipt, copies, purged>>
  BY DEF Reject
<1>2. decided' \in (Ids \X Decisions) \cup {<<>>} /\ decided'[1] = i /\ decided'[2] # "imported"
  BY <1>1 DEF Decisions
<1>3. IntakeTypeOK'
  BY <1>1, <1>2 DEF IntakeInv, IntakeTypeOK
<1> HIDE DEF Used
<1> QED
  BY <1>1, <1>2, <1>3, IntakeKept DEF IntakeInv, Accounted

(* A report that arrives: a row that is queued takes the decision.          *)
LEMMA DecidedInv ==
  ASSUME IntakeInv, NEW i \in Ids, NEW d \in Decisions, Decide(i, d),
         d = "imported" => Accounted(i),
         UNCHANGED <<lost, receipt, copies, purged>>,
         pulled' \subseteq pulled, astray' \subseteq astray, decided' \in {decided, <<>>}
  PROVE  IntakeInv'
<1>1. queue \in [Ids -> Row \cup {NoRow}]
  BY DEF IntakeInv, IntakeTypeOK
<1>2. /\ queue' \in [Ids -> Row \cup {NoRow}]
      /\ \A j \in Ids : queue'[j].key = queue[j].key /\ (queue'[j] = NoRow <=> queue[j] = NoRow)
      /\ \A j \in Ids : queue'[j].status = "imported" =>
                        queue[j].status = "imported" \/ (j = i /\ d = "imported")
  <2>1. CASE i \in Queued
    <3> DEFINE new == [queue[i] EXCEPT !.status = d, !.value = "none"]
    <3>1. queue[i] \in Row /\ queue[i] # NoRow
      BY <1>1, <2>1 DEF Queued, NoRow
    <3>2. /\ new \in Row /\ new.key = queue[i].key /\ new.status = d /\ new # NoRow
      BY <3>1 DEF Row, NoRow, Decisions
    <3>3. queue' = [queue EXCEPT ![i] = new]
      BY <1>1, <2>1, <3>1 DEF Decide, Row
    <3> HIDE DEF new
    <3> QED
      BY <1>1, <3>1, <3>2, <3>3
  <2>2. CASE i \notin Queued
    BY <1>1, <2>2 DEF Decide
  <2> QED
    BY <2>1, <2>2
<1>3. Used' = Used
  BY <1>2 DEF Used
<1>4. IntakeTypeOK'
  BY <1>2 DEF IntakeInv, IntakeTypeOK
<1>5. \A j \in Ids : queue'[j].status = "imported" => Accounted(j)'
  BY <1>2 DEF IntakeInv, Accounted
<1>6. \A a, b \in Ids : a # b /\ queue'[a] # NoRow /\ queue'[b] # NoRow
                        => queue'[a].key # queue'[b].key
  BY <1>2 DEF IntakeInv
<1>7. /\ \A r \in astray' : r[2] = "imported" => Accounted(r[1])'
      /\ decided' # <<>> => decided'[1] \in Used'
      /\ decided' # <<>> /\ decided'[2] = "imported" => Accounted(decided[1])'
  BY <1>3 DEF IntakeInv, Accounted
<1> HIDE DEF Used
<1> QED
  BY <1>3, <1>4, <1>5, <1>6, <1>7 DEF IntakeInv, Accounted

LEMMA ReportInv ==
  ASSUME IntakeInv, Report
  PROVE  IntakeInv'
<1>1. /\ decided # <<>> /\ Decide(decided[1], decided[2])
      /\ decided' = <<>> /\ pulled' \subseteq pulled
      /\ UNCHANGED <<lost, astray, receipt, copies, purged>>
  BY DEF Report, Abandon
<1>2. /\ decided[1] \in Ids /\ decided[2] \in Decisions
      /\ decided[2] = "imported" => Accounted(decided[1])
  BY <1>1 DEF IntakeInv, IntakeTypeOK
<1> QED
  BY <1>1, <1>2, DecidedInv

LEMMA StraysInv ==
  ASSUME IntakeInv, NEW r \in astray, Strays(r)
  PROVE  IntakeInv'
<1>1. /\ astray' = astray \ {r} /\ Decide(r[1], r[2])
      /\ UNCHANGED <<lost, pulled, decided, receipt, copies, purged>>
  BY DEF Strays
<1>2. r[1] \in Ids /\ r[2] \in Decisions /\ (r[2] = "imported" => Accounted(r[1]))
  BY DEF IntakeInv, IntakeTypeOK
<1> QED
  BY <1>1, <1>2, DecidedInv

LEMMA ReportLostInv ==
  ASSUME IntakeInv, NEW arrives \in BOOLEAN, ReportLost(arrives)
  PROVE  IntakeInv'
<1>1. /\ decided # <<>> /\ pulled' = {} /\ decided' = <<>>
      /\ astray' = astray \/ astray' = astray \cup {decided}
      /\ UNCHANGED <<queue, lost, receipt, copies, purged>>
  BY DEF ReportLost, Abandon
<1>2. IntakeTypeOK'
  BY <1>1 DEF IntakeInv, IntakeTypeOK
<1> HIDE DEF Used
<1> QED
  BY <1>1, <1>2, IntakeKept DEF IntakeInv, Accounted

(* A step that only forgets the Core's pull and reports under way.          *)
LEMMA AbandonedInv ==
  ASSUME IntakeInv, UNCHANGED <<queue, lost, receipt, copies, purged>>,
         pulled' \subseteq pulled, decided' \in {decided, <<>>}, astray' \subseteq astray
  PROVE  IntakeInv'
<1>1. IntakeTypeOK'
  BY DEF IntakeInv, IntakeTypeOK
<1> HIDE DEF Used
<1> QED
  BY <1>1, IntakeKept DEF IntakeInv, Accounted

LEMMA PurgeImportedInv ==
  ASSUME IntakeInv, NEW i \in Ids, PurgeImported(i)
  PROVE  IntakeInv'
<1>1. /\ copies' = [copies EXCEPT ![i] = 0] /\ receipt' = receipt \ {i}
      /\ purged' = purged \cup {i}
      /\ UNCHANGED <<queue, lost, pulled, decided, astray>>
  BY DEF PurgeImported
<1>2. /\ copies' \in [Ids -> 0..2]
      /\ \A j \in Ids : copies'[j] = IF j \in receipt' THEN 1 ELSE 0
  BY <1>1 DEF IntakeInv, IntakeTypeOK
<1>3. \A j \in Ids : Accounted(j) => Accounted(j)'
  BY <1>1 DEF Accounted, IntakeInv, IntakeTypeOK
<1>4. IntakeTypeOK'
  BY <1>1, <1>2 DEF IntakeInv, IntakeTypeOK
<1>5. /\ \A r \in astray' : r[2] = "imported" => Accounted(r[1])'
      /\ decided' # <<>> /\ decided'[2] = "imported" => Accounted(decided[1])'
  BY <1>1, <1>3 DEF IntakeInv, IntakeTypeOK, Accounted
<1> HIDE DEF Used, Accounted
<1> QED
  BY <1>1, <1>2, <1>3, <1>4, <1>5, IntakeKept DEF IntakeInv

(* Two imported rows that were not lost are two rows, with two keys.        *)
LEMMA Once ==
  ASSUME IntakeInv
  PROVE  ImportedOnce
<1> SUFFICES ASSUME NEW i \in Ids, NEW j \in Ids
             PROVE  /\ copies[i] <= 1
                    /\ i # j /\ copies[i] > 0 /\ copies[j] > 0 /\ queue[i].key = queue[j].key
                         => i \in lost \/ j \in lost
                    /\ queue[i].status = "imported" => copies[i] > 0 \/ i \in purged
  BY DEF ImportedOnce
<1>1. copies[i] <= 1 /\ (queue[i].status = "imported" => copies[i] > 0 \/ i \in purged)
  BY DEF IntakeInv, Accounted
<1>2. ASSUME i # j, copies[i] > 0, copies[j] > 0, i \notin lost, j \notin lost
      PROVE  queue[i].key # queue[j].key
  <2>1. i \in receipt /\ j \in receipt
    BY <1>2 DEF IntakeInv
  <2>2. i \in Used /\ j \in Used
    BY <2>1 DEF IntakeInv
  <2> QED
    BY <1>2, <2>2 DEF IntakeInv, Used
<1> QED
  BY <1>1, <1>2

-----------------------------------------------------------------------------
(* The claim.                                                               *)

LEMMA ClaimStepInv ==
  ASSUME PairingInv, ClaimStep \/ ClaimReplyLost
  PROVE  PairingInv'
<1>1. CASE Connect \/ Verify \/ Recheck
  BY <1>1 DEF Connect, Verify, Recheck, CoreGoes, PairingInv, ClaimTypeOK, Steps
<1>2. ASSUME NEW received \in BOOLEAN, Challenge(received)
      PROVE  PairingInv'
  BY <1>2 DEF Challenge, CoreGoes, PairingInv, ClaimTypeOK, Steps
<1>3. ASSUME NEW received \in BOOLEAN, Prove(received)
      PROVE  PairingInv'
  <2>1. CASE Answers /\ edge.open
    <3> DEFINE n == IF edge.runtime = 0 THEN edge.made + 1 ELSE edge.runtime
         made == IF n > edge.made THEN n ELSE edge.made
         got == IF received THEN n ELSE 0
         pc == IF received THEN "save" ELSE "off"
    <3>1. n \in 0..MaxCredentials
      BY <1>3, <2>1, ClaimAssumption DEF Prove, PairingInv, ClaimTypeOK
    <3>2. /\ made \in 0..MaxCredentials /\ got \in 0..MaxCredentials /\ pc \in {"save", "off"}
          /\ ~edge.acked
      BY <2>1, <3>1, ClaimAssumption DEF Answers, PairingInv, ClaimTypeOK
    <3>3. /\ edge' = [edge EXCEPT !.open = FALSE, !.runtime = n, !.secret = n, !.made = made]
          /\ core' = [core EXCEPT !.got = got, !.pc = pc]
          /\ UNCHANGED overdue
      BY <1>3, <2>1 DEF Prove, PairingInv, ClaimTypeOK
    <3> HIDE DEF n, made, got, pc
    <3> QED
      BY <3>1, <3>2, <3>3 DEF PairingInv, ClaimTypeOK, Steps
  <2>2. CASE ~(Answers /\ edge.open)
    BY <1>3, <2>2 DEF Prove, CoreGoes, PairingInv, ClaimTypeOK, Steps
  <2> QED
    BY <2>1, <2>2
<1>4. CASE Save
  <2> DEFINE got == core.got
  <2>1. /\ core' = [core EXCEPT !.creds = got, !.got = 0, !.pc = "recheck"]
        /\ UNCHANGED <<edge, overdue>> /\ ~edge.acked
    BY <1>4 DEF Save, PairingInv
  <2>2. got \in 0..MaxCredentials /\ 0 \in 0..MaxCredentials
    BY ClaimAssumption DEF PairingInv, ClaimTypeOK
  <2> HIDE DEF got
  <2>4. ClaimTypeOK'
    BY <2>1, <2>2 DEF PairingInv, ClaimTypeOK, Steps
  <2>3. core'.key = core.key /\ core'.pc = "recheck"
    BY <2>1 DEF PairingInv, ClaimTypeOK
  <2> QED
    BY <2>1, <2>3, <2>4 DEF PairingInv
<1>5. ASSUME NEW received \in BOOLEAN, Acknowledge(received)
      PROVE  PairingInv'
  BY <1>5 DEF Acknowledge, CoreGoes, PairingInv, ClaimTypeOK, Steps
<1>6. CASE Forget \/ Final
  BY <1>6 DEF Forget, Final, PairingInv, ClaimTypeOK, Steps, Proves
<1> QED
  BY <1>1, <1>2, <1>3, <1>4, <1>5, <1>6 DEF ClaimStep, ClaimReplyLost

LEMMA ClaimFaultInv ==
  ASSUME PairingInv, ClaimCoreStops \/ ClaimEdgeRestarts \/ ClaimExpires \/ UNCHANGED claimVars
  PROVE  PairingInv'
<1>1. CASE ClaimCoreStops
  <2>1. /\ core' = [core EXCEPT !.pc = "off", !.got = 0] /\ UNCHANGED <<edge, overdue>>
        /\ 0 \in 0..MaxCredentials
    BY <1>1, ClaimAssumption DEF ClaimCoreStops
  <2> QED
    BY <2>1 DEF PairingInv, ClaimTypeOK, Steps
<1>2. CASE ClaimEdgeRestarts
  BY <1>2 DEF ClaimEdgeRestarts, PairingInv, ClaimTypeOK
<1>3. CASE ClaimExpires \/ UNCHANGED claimVars
  BY <1>3 DEF ClaimExpires, claimVars, PairingInv, ClaimTypeOK
<1> QED
  BY <1>1, <1>2, <1>3

-----------------------------------------------------------------------------
(* The whole Edge.                                                          *)

LEMMA BrokerFrame ==
  ASSUME BrokerInv, UNCHANGED brokerVars
  PROVE  BrokerInv' /\ \A q \in Requests : Quiet(q)
BY DEF brokerVars, BrokerInv, BrokerTypeOK, HeldAnswer, Quiet, Over

LEMMA OAuthFrame ==
  ASSUME OAuthInv, UNCHANGED oauthVars
  PROVE  OAuthInv' /\ Ends
BY FewerTokens DEF oauthVars, OAuthInv, OAuthTypeOK

LEMMA IntakeFrame ==
  ASSUME IntakeInv, UNCHANGED intakeVars
  PROVE  IntakeInv'
BY AbandonedInv DEF intakeVars

(* The steps of the other components, as they are seen from one of them.    *)
LEMMA BrokerOnly ==
  ASSUME Inv, OnlyBroker
  PROVE  OAuthInv' /\ Ends /\ IntakeInv' /\ PairingInv' /\ UNCHANGED <<terminal, queue>>
<1>1. UNCHANGED oauthVars /\ UNCHANGED intakeVars /\ UNCHANGED claimVars
  BY DEF OnlyBroker
<1> QED
  BY <1>1, OAuthFrame, IntakeFrame, ClaimFaultInv DEF Inv, oauthVars, intakeVars

LEMMA OAuthOnly ==
  ASSUME Inv, OnlyOAuth
  PROVE  /\ BrokerInv' /\ IntakeInv' /\ PairingInv' /\ UNCHANGED queue
         /\ \A q \in Requests : Quiet(q)
<1>1. UNCHANGED brokerVars /\ UNCHANGED intakeVars /\ UNCHANGED claimVars
  BY DEF OnlyOAuth
<1> QED
  BY <1>1, BrokerFrame, IntakeFrame, ClaimFaultInv DEF Inv, intakeVars

LEMMA IntakeOnly ==
  ASSUME Inv, OnlyIntake
  PROVE  /\ BrokerInv' /\ OAuthInv' /\ Ends /\ PairingInv' /\ UNCHANGED terminal
         /\ \A q \in Requests : Quiet(q)
<1>1. UNCHANGED brokerVars /\ UNCHANGED oauthVars /\ UNCHANGED claimVars
  BY DEF OnlyIntake
<1> QED
  BY <1>1, BrokerFrame, OAuthFrame, ClaimFaultInv DEF Inv, oauthVars

LEMMA ClaimOnly ==
  ASSUME Inv, OnlyClaim
  PROVE  /\ BrokerInv' /\ OAuthInv' /\ Ends /\ IntakeInv' /\ UNCHANGED <<terminal, queue>>
         /\ \A q \in Requests : Quiet(q)
<1>1. UNCHANGED brokerVars /\ UNCHANGED oauthVars /\ UNCHANGED intakeVars
  BY DEF OnlyClaim
<1> QED
  BY <1>1, BrokerFrame, OAuthFrame, IntakeFrame DEF Inv, oauthVars, intakeVars

(* What a step leaves of the disconnections and the decommissioning when it *)
(* is not one of their own steps.                                           *)
LEMMA ServiceKept ==
  ASSUME ServiceInv, UNCHANGED <<load, cut, closing>>, turn' \in {"pull", "forward"},
         faults' \in 0..load.faults, cutting' \subseteq Clients,
         \A q \in Requests : Quiet(q), terminal => terminal',
         closing = "done" => \A i \in Ids : queue'[i] = NoRow
  PROVE  ServiceInv'
BY DEF ServiceInv, Quiet, Over

(* Steps of the broker that make no new row.                                *)
LEMMA BrokerStep ==
  ASSUME Inv, BrokerInv', OnlyBroker, UNCHANGED <<load, cutting, cut, closing>>,
         turn' \in {"pull", "forward"}, faults' \in 0..load.faults,
         \A q \in Requests : Quiet(q)
  PROVE  Inv' /\ Ends
<1>1. OAuthInv' /\ Ends /\ IntakeInv' /\ PairingInv' /\ UNCHANGED <<terminal, queue>>
  BY BrokerOnly
<1>2. ServiceInv'
  BY <1>1, ServiceKept DEF Inv, ServiceInv
<1> QED
  BY <1>1, <1>2 DEF Inv

(* Steps of the intake; a row is written only before a decommissioning.     *)
LEMMA IntakeStep ==
  ASSUME Inv, IntakeInv', OnlyIntake, UNCHANGED <<load, cutting, cut, closing>>,
         turn' \in {"pull", "forward"}, faults' \in 0..load.faults,
         terminal => UNCHANGED queue
  PROVE  Inv' /\ Ends
<1>1. /\ BrokerInv' /\ OAuthInv' /\ Ends /\ PairingInv' /\ UNCHANGED terminal
      /\ \A q \in Requests : Quiet(q)
  BY IntakeOnly
<1>2. ServiceInv'
  BY <1>1, ServiceKept DEF Inv, ServiceInv
<1> QED
  BY <1>1, <1>2 DEF Inv

LEMMA OAuthStep ==
  ASSUME Inv, OAuthInv', Ends, OnlyOAuth, UNCHANGED <<load, cut, closing, turn, faults>>,
         cutting' \subseteq Clients, terminal => terminal'
  PROVE  Inv' /\ Ends
<1>1. /\ BrokerInv' /\ IntakeInv' /\ PairingInv' /\ UNCHANGED queue
      /\ \A q \in Requests : Quiet(q)
  BY OAuthOnly
<1>2. ServiceInv'
  BY <1>1, ServiceKept DEF Inv, ServiceInv
<1> QED
  BY <1>1, <1>2 DEF Inv

LEMMA ClaimOnlyStep ==
  ASSUME Inv, PairingInv', OnlyClaim, UNCHANGED <<load, cutting, cut, closing>>,
         turn' \in {"pull", "forward"}, faults' \in 0..load.faults
  PROVE  Inv' /\ Ends
<1>1. /\ BrokerInv' /\ OAuthInv' /\ Ends /\ IntakeInv' /\ UNCHANGED <<terminal, queue>>
      /\ \A q \in Requests : Quiet(q)
  BY ClaimOnly
<1>2. ServiceInv'
  BY <1>1, ServiceKept DEF Inv, ServiceInv
<1> QED
  BY <1>1, <1>2 DEF Inv

(* A new row is made only before the Edge is decommissioned, and for a      *)
(* request that had not called when its client was cut off.                 *)
LEMMA CallStep ==
  ASSUME Inv, NEW q \in Requests, Call(q)
  PROVE  Inv' /\ Ends
<1>1. OnlyBroker /\ UNCHANGED serviceVars
  BY DEF Call
<1>2. CASE Enqueue(q) /\ ~terminal
  <2>1. BrokerInv' /\ \A p \in Requests \ {q} : Quiet(p)
    BY <1>2, EnqueueInv DEF Inv
  <2>2. OAuthInv' /\ Ends /\ IntakeInv' /\ PairingInv' /\ UNCHANGED <<terminal, queue>>
    BY <1>1, BrokerOnly
  <2>3. closing = "no" /\ q \notin cut
    BY <1>2 DEF Inv, ServiceInv, Enqueue
  <2>4. ServiceInv'
    BY <1>1, <2>1, <2>2, <2>3 DEF Inv, ServiceInv, serviceVars, Quiet, Over
  <2> QED
    BY <2>1, <2>2, <2>4 DEF Inv
<1>3. CASE Refuse(q)
  BY <1>1, <1>3, RefuseInv, BrokerStep DEF Inv, ServiceInv, serviceVars
<1> QED
  BY <1>2, <1>3 DEF Call

LEMMA AdmitStep ==
  ASSUME Inv, NEW q \in Requests, Admit(q)
  PROVE  Inv' /\ Ends
<1>1. OnlyBroker /\ UNCHANGED serviceVars
  BY DEF Admit
<1> QED
  BY <1>1, AdmitInv, BrokerStep DEF Inv, ServiceInv, serviceVars

LEMMA WaitStep ==
  ASSUME Inv, NEW q \in Requests, Wait(q)
  PROVE  Inv' /\ Ends
<1>1. OnlyBroker /\ UNCHANGED serviceVars /\ (Poll(q) \/ GiveUp(q))
  BY DEF Wait
<1> QED
  BY <1>1, PollInv, GiveUpInv, BrokerStep DEF Inv, ServiceInv, serviceVars

LEMMA ProposeStep ==
  ASSUME Inv, NEW k \in Keys, NEW v \in Values, Propose(k, v)
  PROVE  Inv' /\ Ends
<1>1. ~terminal /\ Submit(k, v) /\ OnlyIntake /\ UNCHANGED serviceVars
  BY DEF Propose
<1> QED
  BY <1>1, SubmitInv, IntakeStep DEF Inv, ServiceInv, serviceVars

LEMMA GrantStep ==
  ASSUME Inv, NEW g \in Grants, OAuth(g)
  PROVE  Inv' /\ Ends
<1>1. OnlyOAuth /\ UNCHANGED serviceVars
  BY DEF OAuth
<1>2. OAuthInv' /\ Ends /\ UNCHANGED terminal
  <2>1. CASE Authorize(g) \/ Consent(g) \/ Lapsed(g)
    BY <2>1, GrantInv DEF Inv, Authorize, Consent, Lapsed
  <2>2. CASE Exchange(g)
    BY <2>2, ExchangeInv DEF Inv, Exchange
  <2>3. CASE GiveBack(g)
    BY <2>3, GiveBackInv DEF Inv, GiveBack
  <2>4. ASSUME NEW n \in Tokens,
               Present(g, n) \/ Rotate(g, n) \/ ExpireAccess(g, n) \/ ExpireRefresh(g, n)
        PROVE  OAuthInv' /\ Ends /\ UNCHANGED terminal
    BY <2>4, PresentInv, RotateInv, ExpireTokenInv
       DEF Inv, Present, Rotate, ExpireAccess, ExpireRefresh
  <2> QED
    BY <2>1, <2>2, <2>3, <2>4 DEF OAuth
<1> QED
  BY <1>1, <1>2, OAuthStep DEF Inv, ServiceInv, serviceVars

(* The owner.                                                               *)

LEMMA RevokeStep ==
  ASSUME Inv, NEW c \in Clients, NEW page \in BOOLEAN, RevokeClient(c, page)
  PROVE  Inv' /\ Ends
<1>1. RevokeLogical(c) /\ OnlyOAuth /\ UNCHANGED <<load, turn, cut, closing, faults>>
  BY DEF RevokeClient
<1>2. cutting' \subseteq Clients
  BY DEF RevokeClient, Inv, ServiceInv
<1> QED
  BY <1>1, <1>2, RevokeLogicalInv, OAuthStep DEF Inv

(* Every request of the client that has a row is over from now on; it has   *)
(* called, and does not call again.                                         *)
LEMMA CutStep ==
  ASSUME Inv, NEW c \in Clients, CutRequests(c)
  PROVE  Inv' /\ Ends
<1>1. /\ CancelClient(c) /\ OnlyBroker /\ UNCHANGED <<load, turn, closing, faults>>
      /\ cutting' = cutting \ {c}
      /\ cut' = cut \cup {q \in OfClient(c) : row[q] # "none"}
  BY DEF CutRequests
<1>2. /\ BrokerInv' /\ \A q \in Requests : Quiet(q)
      /\ \A q \in OfClient(c) : Over(q)'
  BY <1>1, CancelClientInv DEF Inv
<1>3. OAuthInv' /\ Ends /\ IntakeInv' /\ PairingInv' /\ UNCHANGED <<terminal, queue>>
  BY <1>1, BrokerOnly
<1>4. \A q \in cut' : q \in Requests /\ Over(q)' /\ caller'[q] \notin {"idle", "admitted"}
  <2>1. \A q \in cut : q \in Requests /\ Over(q)' /\ caller'[q] \notin {"idle", "admitted"}
    BY <1>2 DEF Inv, ServiceInv, Quiet, Over
  <2>2. \A q \in OfClient(c) : /\ q \in Requests
                               /\ row[q] # "none" => caller'[q] \notin {"idle", "admitted"}
    BY <1>1 DEF CancelClient, Inv, BrokerInv, OfClient
  <2> QED
    BY <1>1, <1>2, <2>1, <2>2
<1>5. ServiceInv'
  BY <1>1, <1>2, <1>3, <1>4 DEF Inv, ServiceInv, Quiet, Over
<1> QED
  BY <1>2, <1>3, <1>5 DEF Inv

LEMMA DecommissionStep ==
  ASSUME Inv, Decommission
  PROVE  Inv' /\ Ends
<1>1. /\ closing = "no" /\ closing' = "flagged" /\ OnlyOAuth
      /\ UNCHANGED <<load, turn, cutting, cut, faults>>
  BY DEF Decommission
<1>2. OAuthInv' /\ Ends /\ terminal'
  <2>1. CASE terminal
    BY <2>1, OAuthFrame DEF Decommission, Inv, oauthVars
  <2>2. CASE ~terminal
    BY <2>2, CloseEdgeInv DEF Decommission, Inv
  <2> QED
    BY <2>1, <2>2
<1>3. /\ BrokerInv' /\ IntakeInv' /\ PairingInv' /\ UNCHANGED queue
      /\ \A q \in Requests : Quiet(q)
  BY <1>1, OAuthOnly
<1>4. ServiceInv'
  BY <1>1, <1>2, <1>3 DEF Inv, ServiceInv, Quiet, Over
<1> QED
  BY <1>2, <1>3, <1>4 DEF Inv

LEMMA ClearForwardingStep ==
  ASSUME Inv, ClearForwarding
  PROVE  Inv' /\ Ends
<1>1. /\ closing = "flagged" /\ closing' = "cleared" /\ PurgeBroker /\ OnlyBroker
      /\ UNCHANGED <<load, turn, cutting, cut, faults>>
  BY DEF ClearForwarding
<1>2. BrokerInv' /\ \A q \in Requests : Quiet(q) /\ row'[q] = "none"
  BY <1>1, PurgeBrokerInv DEF Inv
<1>3. OAuthInv' /\ Ends /\ IntakeInv' /\ PairingInv' /\ UNCHANGED <<terminal, queue>>
  BY <1>1, BrokerOnly
<1>4. ServiceInv'
  BY <1>1, <1>2, <1>3 DEF Inv, ServiceInv, Quiet, Over
<1> QED
  BY <1>2, <1>3, <1>4 DEF Inv

LEMMA ClearVaultStep ==
  ASSUME Inv, ClearVault
  PROVE  Inv' /\ Ends
<1>1. /\ closing = "cleared" /\ closing' = "done" /\ PurgeIntake /\ OnlyIntake
      /\ UNCHANGED <<load, turn, cutting, cut, faults>>
  BY DEF ClearVault
<1>2. IntakeInv' /\ \A i \in Ids : queue'[i] = NoRow
  BY <1>1, PurgeIntakeInv DEF Inv
<1>3. /\ BrokerInv' /\ OAuthInv' /\ Ends /\ PairingInv' /\ UNCHANGED terminal
      /\ \A q \in Requests : Quiet(q)
  BY <1>1, IntakeOnly
<1>4. ServiceInv'
  BY <1>1, <1>2, <1>3 DEF Inv, ServiceInv, Quiet, Over
<1> QED
  BY <1>2, <1>3, <1>4 DEF Inv

(* The Core's thread.                                                       *)

LEMMA SyncStepInv ==
  ASSUME Inv, SyncStep
  PROVE  Inv' /\ Ends
<1> USE DEF Inv, ServiceInv, serviceVars
<1>1. CASE StartPull
  BY <1>1, PullInv, IntakeStep DEF StartPull, Pull
<1>2. CASE Process
  <2>1. PICK i \in Ids : Import(i) \/ Reject(i)
    BY <1>2 DEF Process
  <2>2. IntakeInv' /\ UNCHANGED queue
    BY <2>1, ImportInv, RejectInv DEF Import, Reject
  <2> QED
    BY <1>2, <2>2, IntakeStep DEF Process
<1>3. CASE Settle
  <2>1. /\ OnlyIntake /\ UNCHANGED <<load, cutting, cut, closing, faults>>
        /\ turn' \in {"pull", "forward"}
    BY <1>3 DEF Settle
  <2>2. IntakeInv' /\ (terminal => UNCHANGED queue)
    BY <1>3, ReportInv, ReportLostInv DEF Settle, ReportLost
  <2> QED
    BY <2>1, <2>2, IntakeStep
<1>4. CASE StartForward
  BY <1>4, ClaimInv, BrokerStep DEF StartForward
<1>5. CASE Reply
  <2>1. PICK a \in work : IF terminal THEN AnswerFails(a, FALSE) ELSE Answer(a)
    BY <1>5 DEF Reply
  <2>2. a \in Claims /\ work \subseteq Claims /\ late \subseteq Claims
    BY DEF BrokerInv, BrokerTypeOK
  <2>3. BrokerInv' /\ \A q \in Requests : Quiet(q)
    <3>1. CASE terminal
      BY <2>1, <3>1, AnswerFailsInv
    <3>2. CASE ~terminal
      BY <2>1, <2>2, <3>2, AnsweredInv DEF Answer
    <3> QED
      BY <3>1, <3>2
  <2> QED
    BY <1>5, <2>3, BrokerStep DEF Reply
<1> QED
  BY <1>1, <1>2, <1>3, <1>4, <1>5 DEF SyncStep

(* What goes wrong.                                                         *)

LEMMA FaultCount ==
  ASSUME Inv, Fault
  PROVE  faults' \in 0..load.faults
BY LoadAssumption DEF Fault, Inv, ServiceInv

LEMMA MessageLostStep ==
  ASSUME Inv, MessageLost
  PROVE  Inv' /\ Ends
<1>1. /\ faults' \in 0..load.faults /\ UNCHANGED <<load, cutting, cut, closing>>
      /\ turn \in {"pull", "forward"}
  BY FaultCount DEF MessageLost, Inv, ServiceInv
<1>2. CASE Claim(FALSE) /\ turn' = "pull" /\ OnlyBroker
  BY <1>1, <1>2, ClaimInv, BrokerStep DEF Inv
<1>3. ASSUME NEW a \in work, NEW d \in BOOLEAN, AnswerFails(a, d), OnlyBroker, UNCHANGED turn
      PROVE  Inv' /\ Ends
  BY <1>1, <1>3, AnswerFailsInv, BrokerStep DEF Inv
<1>4. ASSUME NEW d \in BOOLEAN, ReportLost(d), turn' = "pull", OnlyIntake
      PROVE  Inv' /\ Ends
  BY <1>1, <1>4, ReportLostInv, IntakeStep DEF Inv, ReportLost
<1>5. CASE ClaimReplyLost /\ OnlyClaim /\ UNCHANGED turn
  BY <1>1, <1>5, ClaimStepInv, ClaimOnlyStep DEF Inv
<1> QED
  BY <1>2, <1>3, <1>4, <1>5 DEF MessageLost

LEMMA LateStep ==
  ASSUME Inv, Late
  PROVE  Inv' /\ Ends
<1>1. UNCHANGED serviceVars
  BY DEF Late
<1>2. ASSUME NEW a \in late, LateAnswer(a), OnlyBroker
      PROVE  Inv' /\ Ends
  <2>1. a \in Claims /\ work \subseteq Claims /\ late \subseteq Claims
    BY DEF Inv, BrokerInv, BrokerTypeOK
  <2>2. BrokerInv' /\ \A q \in Requests : Quiet(q)
    BY <1>2, <2>1, AnsweredInv DEF LateAnswer, Inv
  <2> QED
    BY <1>1, <1>2, <2>2, BrokerStep DEF Inv, ServiceInv, serviceVars
<1>3. ASSUME ~terminal, NEW r \in astray, Strays(r), OnlyIntake
      PROVE  Inv' /\ Ends
  BY <1>1, <1>3, StraysInv, IntakeStep DEF Inv, ServiceInv, serviceVars
<1> QED
  BY <1>2, <1>3 DEF Late

LEMMA EdgeRestartStep ==
  ASSUME Inv, EdgeRestart
  PROVE  Inv' /\ Ends
<1>1. /\ BrokerRestart /\ faults' \in 0..load.faults
      /\ UNCHANGED claimVars \/ ClaimEdgeRestarts
      /\ presented' = {} /\ astray' = {} /\ cutting' = {}
      /\ UNCHANGED <<grant, access, refresh, terminal>>
      /\ UNCHANGED <<queue, lost, receipt, copies, purged>>
      /\ UNCHANGED <<pulled, decided>>
      /\ UNCHANGED <<load, turn, cut>>
      /\ closing' = IF closing = "done" THEN closing ELSE "no"
  BY FaultCount DEF EdgeRestart
<1>2. BrokerInv' /\ \A q \in Requests : Quiet(q)
  BY <1>1, BrokerRestartInv DEF Inv
<1>3. OAuthInv' /\ Ends
  BY <1>1, FewerTokens DEF Inv, OAuthInv, OAuthTypeOK
<1>4. IntakeInv'
  BY <1>1, AbandonedInv DEF Inv
<1>5. PairingInv'
  BY <1>1, ClaimFaultInv DEF Inv
<1>6. ServiceInv'
  BY <1>1, <1>2 DEF Inv, ServiceInv, Quiet, Over
<1> QED
  BY <1>2, <1>3, <1>4, <1>5, <1>6 DEF Inv

LEMMA CoreRestartStep ==
  ASSUME Inv, CoreRestart
  PROVE  Inv' /\ Ends
<1>1. /\ faults' \in 0..load.faults /\ pulled' = {} /\ decided' = <<>>
      /\ work' = {} /\ turn' = "pull"
      /\ UNCHANGED claimVars \/ ClaimCoreStops
      /\ UNCHANGED <<row, claim, claims, memory, expired, lapsed, aged, caller, late>>
      /\ UNCHANGED <<queue, lost, astray, receipt, copies, purged>>
      /\ UNCHANGED oauthVars
      /\ UNCHANGED <<load, cutting, cut, closing>>
  BY FaultCount DEF CoreRestart, Abandon
<1>2. BrokerInv' /\ \A q \in Requests : Quiet(q)
  BY <1>1, RowsKeptInv DEF Inv, BrokerInv, BrokerTypeOK
<1>3. OAuthInv' /\ Ends /\ UNCHANGED terminal
  BY <1>1, OAuthFrame DEF Inv, oauthVars
<1>4. IntakeInv'
  BY <1>1, AbandonedInv DEF Inv
<1>5. PairingInv'
  BY <1>1, ClaimFaultInv DEF Inv
<1>6. ServiceInv'
  BY <1>1, <1>2, <1>3, ServiceKept DEF Inv, ServiceInv
<1> QED
  BY <1>2, <1>3, <1>4, <1>5, <1>6 DEF Inv

LEMMA TimeStep ==
  ASSUME Inv, RequestTime \/ ProposalTime \/ ClaimTime
  PROVE  Inv' /\ Ends
<1> USE DEF Inv, ServiceInv, serviceVars
<1>1. CASE RequestTime
  BY <1>1, TimeInv, BrokerStep DEF RequestTime
<1>2. CASE ProposalTime
  <2>1. PICK i \in Ids : TooOld(i)
    BY <1>2 DEF ProposalTime
  <2>2. IntakeInv'
    BY <2>1, TooOldInv
  <2>3. /\ BrokerInv' /\ OAuthInv' /\ Ends /\ PairingInv' /\ UNCHANGED terminal
        /\ \A q \in Requests : Quiet(q)
    BY <1>2, IntakeOnly DEF ProposalTime
  <2>4. \A j \in Ids : queue[j] = NoRow => queue'[j] = NoRow
    BY <2>1 DEF TooOld, Queued, NoRow, IntakeInv, IntakeTypeOK
  <2> QED
    BY <1>2, <2>2, <2>3, <2>4, ServiceKept DEF ProposalTime
<1>3. CASE ClaimTime
  BY <1>3, ClaimFaultInv, ClaimOnlyStep DEF ClaimTime
<1> QED
  BY <1>1, <1>2, <1>3

-----------------------------------------------------------------------------
(* The invariant holds, and what follows from it.                           *)

LEMMA InitInv == Init => Inv
<1> SUFFICES ASSUME Init PROVE Inv
  OBVIOUS
<1> USE DEF Init
<1>1. BrokerInv
  BY BrokerAssumption DEF BrokerInit, BrokerInv, BrokerTypeOK, HeldAnswer, Claims
<1>2. OAuthInv
  <2> DEFINE first == [g \in Grants |-> IF g \in load.held
                                       THEN [NoTokens EXCEPT ![1] = "live"] ELSE NoTokens]
  <2>1. /\ access = first /\ refresh = first /\ presented = {} /\ terminal = FALSE
        /\ grant = [g \in Grants |-> IF g \in load.held THEN "family" ELSE "none"]
    BY DEF OAuthInit
  <2>2. NoTokens \in [Tokens -> {"none", "live", "revoked"}] /\ \A n \in Tokens : NoTokens[n] = "none"
    BY DEF NoTokens
  <2>3. \A g \in Grants :
           /\ first[g] \in [Tokens -> {"none", "live", "revoked"}]
           /\ \A n \in Tokens : first[g][n] = "live" => n = 1 /\ g \in load.held
    BY <2>2
  <2>4. first \in [Grants -> [Tokens -> {"none", "live", "revoked"}]]
    BY <2>3
  <2> HIDE DEF first
  <2>5. OAuthTypeOK
    BY <2>1, <2>4 DEF OAuthTypeOK
  <2> QED
    BY <2>1, <2>3, <2>5 DEF OAuthInv, Live
<1>3. IntakeInv
  <2>1. Used = 1..0
    BY DEF IntakeInit, Used
  <2>2. 0 \in 0..MaxProposals
    BY IntakeAssumption
  <2>3. IntakeTypeOK
    BY DEF IntakeInit, IntakeTypeOK
  <2> HIDE DEF Used
  <2> QED
    BY <2>1, <2>2, <2>3 DEF IntakeInit, IntakeInv, NoRow
<1>4. PairingInv
  <2>1. load.claimed \in BOOLEAN
    BY LoadAssumption
  <2> DEFINE n == IF load.claimed THEN 1 ELSE 0
  <2>2. n \in 0..MaxCredentials /\ 0 \in 0..MaxCredentials
    BY ClaimAssumption
  <2>3. /\ edge = [runtime |-> n, acked |-> load.claimed, secret |-> n, made |-> n, open |-> FALSE]
        /\ core = [pc |-> "off", got |-> 0, creds |-> n, key |-> ~load.claimed,
                   paired |-> load.claimed]
        /\ overdue = FALSE
    BY DEF ClaimInit
  <2> HIDE DEF n
  <2> QED
    BY <2>1, <2>2, <2>3 DEF PairingInv, ClaimTypeOK, Steps
<1>5. ServiceInv
  BY LoadAssumption DEF ServiceInv
<1> QED
  BY <1>1, <1>2, <1>3, <1>4, <1>5 DEF Inv

LEMMA NextInv ==
  ASSUME Inv, [Next]_vars
  PROVE  Inv' /\ Ends
<1>1. CASE \E q \in Requests : Admit(q) \/ Call(q) \/ Wait(q)
  BY <1>1, AdmitStep, CallStep, WaitStep
<1>2. CASE \E k \in Keys, v \in Values : Propose(k, v)
  BY <1>2, ProposeStep
<1>3. CASE \E g \in Grants : OAuth(g)
  BY <1>3, GrantStep
<1>4. CASE \E c \in Clients : (\E page \in BOOLEAN : RevokeClient(c, page)) \/ CutRequests(c)
  BY <1>4, RevokeStep, CutStep
<1>5. CASE Decommission \/ ClearForwarding \/ ClearVault
  BY <1>5, DecommissionStep, ClearForwardingStep, ClearVaultStep
<1>6. CASE \E i \in Ids : UserPurge(i)
  <2>1. PICK i \in Ids : UserPurge(i)
    BY <1>6
  <2>2. PurgeImported(i) /\ OnlyIntake /\ UNCHANGED serviceVars
    BY <2>1 DEF UserPurge
  <2> QED
    BY <2>2, PurgeImportedInv, IntakeStep DEF Inv, ServiceInv, serviceVars, PurgeImported
<1>7. CASE SyncStep
  BY <1>7, SyncStepInv
<1>8. CASE Pair
  BY <1>8, ClaimStepInv, ClaimOnlyStep DEF Pair, Inv, ServiceInv, serviceVars
<1>9. CASE MessageLost \/ Late \/ EdgeRestart \/ CoreRestart
  BY <1>9, MessageLostStep, LateStep, EdgeRestartStep, CoreRestartStep
<1>10. CASE RequestTime \/ ProposalTime \/ ClaimTime
  BY <1>10, TimeStep
<1>11. CASE UNCHANGED vars
  <2>1. OnlyBroker /\ UNCHANGED brokerVars /\ UNCHANGED serviceVars
    BY <1>11 DEF vars, OnlyBroker
  <2> QED
    BY <2>1, BrokerFrame, BrokerStep DEF Inv, ServiceInv, serviceVars
<1> QED
  BY <1>1, <1>2, <1>3, <1>4, <1>5, <1>6, <1>7, <1>8, <1>9, <1>10, <1>11 DEF Next

(* The invariant, of which the types are a part.                            *)
THEOREM Invariant == Spec => []Inv
<1>1. Init => Inv
  BY InitInv
<1>2. Inv /\ [Next]_vars => Inv'
  BY NextInv
<1> QED
  BY <1>1, <1>2, PTL DEF Spec

(* Every variable of the Edge keeps its type.                               *)
THEOREM TypeCorrect == Spec => []TypeOK
<1>1. Inv => TypeOK
  BY DEF Inv, BrokerInv, OAuthInv, IntakeInv, PairingInv, ServiceInv, TypeOK
<1> QED
  BY <1>1, Invariant, PTL

(* Whatever is sent twice counts once: an answer is held only for the       *)
(* latest claim, a proposal becomes one candidate.                          *)
THEOREM CountedCorrect == Spec => []CountedOnce
<1>1. Inv => CountedOnce
  BY Once DEF Inv, BrokerInv, CountedOnce
<1> QED
  BY <1>1, Invariant, PTL

(* Nothing of the vault comes back to a decommissioned Edge.                *)
THEOREM DecommissionCorrect == Spec => []DecommissionFinal
<1>1. Inv => DecommissionFinal
  <2> SUFFICES ASSUME Inv, closing = "done"
               PROVE  /\ \A q \in Requests : row[q] = "none" /\ memory[q] = 0
                      /\ \A i \in Ids : queue[i] = NoRow
    BY DEF DecommissionFinal
  <2>1. \A q \in Requests : row[q] = "none"
    BY DEF Inv, ServiceInv
  <2>2. \A q \in Requests : memory[q] = 0
    BY <2>1 DEF Inv, BrokerInv, HeldAnswer
  <2> QED
    BY <2>1, <2>2 DEF Inv, ServiceInv
<1> QED
  BY <1>1, Invariant, PTL

(* The Core gives up its key only for an Edge that holds its credentials.   *)
THEOREM PairedCorrect == Spec => []Paired
<1>1. Inv => Paired
  BY DEF Inv, PairingInv, Paired
<1> QED
  BY <1>1, Invariant, PTL

(* A family of tokens has one live refresh token, and none again once it    *)
(* has none.                                                                *)
THEOREM FamiliesCorrect == Spec => FamilyEnds
<1>1. ASSUME Inv, [Next]_vars
      PROVE  \A g \in Grants :
                /\ Cardinality(Live(refresh'[g])) <= 1
                /\ grant[g] = "family" /\ Live(refresh[g]) = {} => Live(refresh'[g]) = {}
  <2>1. OAuthInv' /\ Ends
    BY <1>1, NextInv DEF Inv
  <2>2. \A g \in Grants : \A m, n \in Live(refresh'[g]) : m = n
    BY <2>1 DEF OAuthInv, Live
  <2> HIDE DEF Live
  <2> QED
    BY <2>1, <2>2, OneLive DEF Ends
<1>2. Inv /\ [Next]_vars =>
        [\A g \in Grants :
           /\ Cardinality(Live(refresh'[g])) <= 1
           /\ grant[g] = "family" /\ Live(refresh[g]) = {} => Live(refresh'[g]) = {}]_oauthVars
  BY <1>1
<1> QED
  BY <1>2, Invariant, PTL DEF Spec, FamilyEnds

(* A call ends with an answer only when its loop finds its row answered,    *)
(* which a row that was cut off is not.                                     *)
LEMMA OnlyPoll ==
  ASSUME Inv, [Next]_vars, NEW q \in cut, caller'[q] = "available"
  PROVE  caller[q] = "available"
<1>1. q \in Requests /\ Over(q) /\ caller \in [Requests -> {"idle", "admitted", "waiting"} \cup Results]
  BY DEF Inv, BrokerInv, BrokerTypeOK, ServiceInv, Over
<1>2. ASSUME NEW p \in Requests, Admit(p) \/ Call(p) \/ GiveUp(p)
      PROVE  caller[q] = "available"
  BY <1>1, <1>2 DEF Admit, Call, Enqueue, Refuse, GiveUp
<1>3. ASSUME NEW p \in Requests, Poll(p)
      PROVE  caller[q] = "available"
  <2>1. Cleaned[q] = "none"
    BY <1>1, CleanedFacts DEF Inv
  <2> QED
    BY <1>1, <1>3, <2>1 DEF Poll
<1>4. CASE BrokerRestart
  BY <1>1, <1>4 DEF BrokerRestart
<1>5. CASE UNCHANGED caller
  BY <1>5
<1>6. \/ \E p \in Requests : Admit(p) \/ Call(p) \/ GiveUp(p) \/ Poll(p)
      \/ BrokerRestart \/ UNCHANGED caller
  <2>1. CASE OnlyOAuth \/ OnlyIntake \/ OnlyClaim \/ UNCHANGED vars
    BY <2>1 DEF OnlyOAuth, OnlyIntake, OnlyClaim, vars, brokerVars
  <2>2. CASE \E p \in Requests : Admit(p) \/ Call(p) \/ Wait(p)
    BY <2>2 DEF Wait
  <2>3. CASE \E k \in Keys, v \in Values : Propose(k, v)
    BY <2>1, <2>3 DEF Propose
  <2>4. CASE \E g \in Grants : OAuth(g)
    BY <2>1, <2>4 DEF OAuth
  <2>5. CASE \E c \in Clients : (\E page \in BOOLEAN : RevokeClient(c, page)) \/ CutRequests(c)
    BY <2>1, <2>5 DEF RevokeClient, CutRequests, CancelClient
  <2>6. CASE Decommission \/ ClearForwarding \/ ClearVault \/ \E i \in Ids : UserPurge(i)
    BY <2>1, <2>6 DEF Decommission, ClearForwarding, PurgeBroker, ClearVault, UserPurge
  <2>7. CASE SyncStep
    BY <2>1, <2>7 DEF SyncStep, StartPull, Process, Settle, StartForward, Claim, Reply, Answer,
                      AnswerFails
  <2>8. CASE Pair \/ MessageLost \/ Late
    BY <2>1, <2>8 DEF Pair, MessageLost, Claim, AnswerFails, Late, LateAnswer
  <2>9. CASE EdgeRestart \/ CoreRestart
    BY <2>9 DEF EdgeRestart, CoreRestart
  <2>10. CASE RequestTime \/ ProposalTime \/ ClaimTime
    BY <2>1, <2>10 DEF RequestTime, Expire, Lapse, GrowOld, ProposalTime, ClaimTime
  <2> QED
    BY <2>1, <2>2, <2>3, <2>4, <2>5, <2>6, <2>7, <2>8, <2>9, <2>10 DEF Next
<1> QED
  BY <1>2, <1>3, <1>4, <1>5, <1>6

(* A client that was disconnected gets no answer to a request it had made.  *)
THEOREM RevocationCorrect == Spec => RevokedUnserved
<1>1. Inv /\ [Next]_vars =>
        [\A q \in cut : caller'[q] = "available" => caller[q] = "available"]_vars
  BY OnlyPoll
<1> QED
  BY <1>1, Invariant, PTL DEF Spec, RevokedUnserved
=============================================================================
