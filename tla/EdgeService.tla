---------------------------- MODULE EdgeService ----------------------------
(* The hosted Edge with its clients and the Core's synchronization thread   *)
(* (relay/app.py, relay/mcp.py, edge_connection.py): remote calls pass the  *)
(* token check of EdgeOAuth before they reach the ForwardingBroker or the   *)
(* ProposalIntake, one thread of the Core pulls proposals and answers       *)
(* requests in turn, and disconnecting a client or decommissioning the Edge *)
(* goes through all of them step by step.  Nothing is served before the     *)
(* EdgeClaim is acknowledged, and the Core synchronizes once it is paired.  *)
EXTENDS ForwardingBroker, EdgeOAuth, ProposalIntake, EdgeClaim

(* What may happen in one behaviour: the requests, keys and grants in use,  *)
(* the grants held from before, whether the Edge is claimed already and may *)
(* be decommissioned, and a bound on lost messages and restarts.            *)
CONSTANT Loads

ASSUME LoadAssumption == \A l \in Loads : l.faults \in Nat /\ l.claimed \in BOOLEAN

VARIABLES
  load,     \* the workload of this behaviour
  turn,     \* where the Core's thread stands in sync_now
  cutting,  \* clients whose tokens are ended and whose requests are not yet
  cut,      \* history: requests that cancel_client found
  closing,  \* where decommissioning stands
  faults

serviceVars == <<load, turn, cutting, cut, closing, faults>>
vars == <<brokerVars, oauthVars, intakeVars, claimVars, serviceVars>>

OnlyBroker == UNCHANGED <<oauthVars, intakeVars, claimVars>>
OnlyOAuth == UNCHANGED <<brokerVars, intakeVars, claimVars>>
OnlyIntake == UNCHANGED <<brokerVars, oauthVars, claimVars>>
OnlyClaim == UNCHANGED <<brokerVars, oauthVars, intakeVars>>

TypeOK ==
  /\ BrokerTypeOK /\ OAuthTypeOK /\ IntakeTypeOK /\ ClaimTypeOK
  /\ load \in Loads
  /\ turn \in {"pull", "forward"}
  /\ cutting \subseteq Clients /\ cut \subseteq Requests
  /\ closing \in {"no", "flagged", "cleared", "done"}
  /\ faults \in 0..load.faults

Init ==
  /\ load \in Loads
  /\ BrokerInit /\ OAuthInit(load.held) /\ IntakeInit /\ ClaimInit(load.claimed)
  /\ turn = "pull" /\ cutting = {} /\ cut = {} /\ closing = "no" /\ faults = 0

(* The Edge answers remote clients; the Core's thread has an Edge to ask.   *)
Serves == edge.acked
Syncs == core.paired

-----------------------------------------------------------------------------
(* Remote clients *)

(* The token check of a call; the call itself comes later, on the strength  *)
(* of the identity that was established here.                               *)
Admit(q) == /\ Serves /\ ~terminal /\ q \in load.requests
            /\ caller[q] = "idle" /\ Accepted(ClientOf[q])
            /\ caller' = [caller EXCEPT ![q] = "admitted"]
            /\ UNCHANGED <<row, claim, claims, memory, expired, lapsed, aged, work, late>>
            /\ OnlyBroker /\ UNCHANGED serviceVars

(* Mutant: no trigger guards the table. *)
CallAnyway(q) == (Enqueue(q) \/ Refuse(q)) /\ OnlyBroker /\ UNCHANGED serviceVars

(* The trigger of the database refuses a new row of a decommissioned Edge;  *)
(* the call fails.                                                          *)
Call(q) == /\ (Enqueue(q) /\ ~terminal) \/ Refuse(q)
           /\ OnlyBroker /\ UNCHANGED serviceVars

Wait(q) == (Poll(q) \/ GiveUp(q)) /\ OnlyBroker /\ UNCHANGED serviceVars

(* queue_proposal checks within its transaction that the Edge is active. *)
Propose(k, v) == /\ Serves /\ ~terminal /\ k \in load.keys
                 /\ Submit(k, v)
                 /\ OnlyIntake /\ UNCHANGED serviceVars

OAuth(g) == /\ Serves /\ g \in load.grants
            /\ \/ Authorize(g) \/ Consent(g) \/ Lapsed(g) \/ Exchange(g)
               \/ GiveBack(g)
               \/ \E n \in Tokens : \/ Present(g, n) \/ Rotate(g, n)
                                    \/ ExpireAccess(g, n) \/ ExpireRefresh(g, n)
            /\ OnlyOAuth /\ UNCHANGED serviceVars

-----------------------------------------------------------------------------
(* The owner *)

(* Disconnecting from the Core ends the tokens first and the pending        *)
(* requests in a second transaction; from the Edge's own page it ends the   *)
(* tokens only.                                                             *)
RevokeClient(c, page) ==
  /\ RevokeLogical(c)
  /\ cutting' = IF page THEN cutting ELSE cutting \cup {c}
  /\ OnlyOAuth /\ UNCHANGED <<load, turn, cut, closing, faults>>

CutRequests(c) ==
  /\ c \in cutting
  /\ CancelClient(c)
  /\ cutting' = cutting \ {c}
  /\ cut' = cut \cup {q \in OfClient(c) : row[q] # "none"}
  /\ OnlyBroker /\ UNCHANGED <<load, turn, closing, faults>>

(* decommission_edge: the terminal flag, the broker, the vault's artifacts. *)
Decommission ==
  /\ Syncs /\ load.closes /\ closing = "no"
  /\ IF terminal THEN UNCHANGED oauthVars ELSE CloseEdge
  /\ closing' = "flagged"
  /\ OnlyOAuth /\ UNCHANGED <<load, turn, cutting, cut, faults>>

ClearForwarding ==
  /\ closing = "flagged" /\ closing' = "cleared"
  /\ PurgeBroker
  /\ OnlyBroker /\ UNCHANGED <<load, turn, cutting, cut, faults>>

ClearVault ==
  /\ closing = "cleared" /\ closing' = "done"
  /\ PurgeIntake
  /\ OnlyIntake /\ UNCHANGED <<load, turn, cutting, cut, faults>>

(* The user purges a record that came from a proposal, at the Core. *)
UserPurge(i) == PurgeImported(i) /\ OnlyIntake /\ UNCHANGED serviceVars

-----------------------------------------------------------------------------
(* The Core's thread: sync_now, round after round *)

StartPull == /\ Syncs /\ ~terminal /\ turn = "pull" /\ work = {}
             /\ Pull /\ turn' = "forward"
             /\ OnlyIntake /\ UNCHANGED <<load, cutting, cut, closing, faults>>

Process == /\ \E i \in Ids : Import(i) \/ Reject(i)
           /\ OnlyIntake /\ UNCHANGED serviceVars

(* A report that is refused ends the round, and a decommissioned Edge       *)
(* refuses every one.                                                       *)
Settle == /\ decided # <<>>
          /\ IF terminal THEN ReportLost(FALSE) ELSE Report
          /\ turn' = IF ~terminal /\ Takes(decided[1], decided[2]) THEN turn ELSE "pull"
          /\ OnlyIntake /\ UNCHANGED <<load, cutting, cut, closing, faults>>

StartForward == /\ Syncs /\ ~terminal /\ turn = "forward" /\ Resting
                /\ Claim(TRUE) /\ turn' = "pull"
                /\ OnlyBroker /\ UNCHANGED <<load, cutting, cut, closing, faults>>

Reply == /\ \E a \in work : IF terminal THEN AnswerFails(a, FALSE) ELSE Answer(a)
         /\ OnlyBroker /\ UNCHANGED serviceVars

Pair == ClaimStep /\ OnlyClaim /\ UNCHANGED serviceVars

SyncStep == StartPull \/ Process \/ Settle \/ StartForward \/ Reply

-----------------------------------------------------------------------------
(* What goes wrong *)

Fault == faults < load.faults /\ faults' = faults + 1

MessageLost ==
  /\ Fault
  /\ \/ /\ turn = "forward" /\ Resting /\ Syncs /\ ~terminal
        /\ Claim(FALSE) /\ turn' = "pull" /\ OnlyBroker
     \/ /\ \E a \in work : \E d \in BOOLEAN : AnswerFails(a, d)
        /\ OnlyBroker /\ UNCHANGED turn
     \/ /\ \E d \in BOOLEAN : ReportLost(d)
        /\ turn' = "pull" /\ OnlyIntake
     \/ ClaimReplyLost /\ OnlyClaim /\ UNCHANGED turn
  /\ UNCHANGED <<load, cutting, cut, closing>>

(* A message the sender gave up on arrives after all.  An answer may have   *)
(* been let in before the Edge was decommissioned; a report is refused      *)
(* within its transaction.                                                  *)
Late == /\ \/ (\E a \in late : LateAnswer(a)) /\ OnlyBroker
           \/ ~terminal /\ (\E r \in astray : Strays(r)) /\ OnlyIntake
        /\ UNCHANGED serviceVars

EdgeRestart ==
  /\ Fault
  /\ BrokerRestart
  /\ IF Syncs THEN UNCHANGED claimVars ELSE ClaimEdgeRestarts
  /\ presented' = {} /\ astray' = {}
  /\ UNCHANGED <<grant, access, refresh, terminal, queue, lost, pulled, decided,
                 receipt, copies, purged>>
  /\ cutting' = {}
  /\ closing' = IF closing = "done" THEN closing ELSE "no"
  /\ UNCHANGED <<load, turn, cut>>

CoreRestart ==
  /\ Fault
  /\ Abandon /\ work' = {} /\ turn' = "pull"
  /\ IF Syncs THEN UNCHANGED claimVars
     ELSE ClaimCoreStops \/ (core.pc = "off" /\ UNCHANGED claimVars)
  /\ UNCHANGED <<row, claim, claims, memory, expired, lapsed, aged, caller, late,
                 queue, lost, astray, receipt, copies, purged, oauthVars,
                 load, cutting, cut, closing>>

(* Deadlines pass. *)
RequestTime == /\ \E q \in Requests : Expire(q) \/ Lapse(q) \/ GrowOld(q)
               /\ OnlyBroker /\ UNCHANGED serviceVars
ProposalTime == /\ \E i \in Ids : TooOld(i)
                /\ OnlyIntake /\ UNCHANGED serviceVars
ClaimTime == ClaimExpires /\ OnlyClaim /\ UNCHANGED serviceVars

-----------------------------------------------------------------------------
Next ==
  \/ \E q \in Requests : Admit(q) \/ Call(q) \/ Wait(q)
  \/ \E k \in Keys, v \in Values : Propose(k, v)
  \/ \E g \in Grants : OAuth(g)
  \/ \E c \in Clients : \/ \E page \in BOOLEAN : RevokeClient(c, page)
                        \/ CutRequests(c)
  \/ Decommission \/ ClearForwarding \/ ClearVault
  \/ \E i \in Ids : UserPurge(i)
  \/ SyncStep \/ Pair
  \/ MessageLost \/ Late \/ EdgeRestart \/ CoreRestart
  \/ RequestTime \/ ProposalTime \/ ClaimTime

(* The Core's thread runs every fifteen seconds, the user presses connect   *)
(* again, and the clock does not stop.                                      *)
Fairness == /\ WF_vars(SyncStep)
            /\ WF_vars(Pair)
            /\ WF_vars(RequestTime)

Spec == Init /\ [][Next]_vars /\ Fairness

-----------------------------------------------------------------------------
(* Properties *)

(* A client that was disconnected from the Core never gets the answer to a  *)
(* request that was pending then, whether it was queued, claimed, answered  *)
(* or answered late (revoke_edge_client in relay/app.py).                   *)
RevokedUnserved ==
  [][\A q \in cut : caller'[q] = "available" => caller[q] = "available"]_vars

(* What is sent twice counts once, in both directions: an answer to a       *)
(* request (HeldAnswer) and a proposal for the Core (ImportedOnce).         *)
CountedOnce == HeldAnswer /\ ImportedOnce

(* Once the Edge has reported that it is decommissioned, no call that was   *)
(* let in before, no late answer and no restart puts anything of the vault  *)
(* back (decommission_edge in relay/app.py; ADR-014).                       *)
DecommissionFinal ==
  closing = "done" => /\ \A q \in Requests : row[q] = "none" /\ memory[q] = 0
                      /\ \A i \in Ids : queue[i] = NoRow

(* With the Core online, requests and proposals do not stay at the Edge:    *)
(* also a row whose caller gave up, whose answer came too late or whose     *)
(* process was restarted gives its client's slot back, and a proposal whose *)
(* report was lost is decided in the end (_cleanup in relay/forwarding.py,  *)
(* pull_proposals in sync.py).                                              *)
EdgeDrains == /\ \A q \in Requests : (row[q] # "none") ~> (row[q] = "none" \/ terminal)
              /\ \A i \in Ids : (i \in Queued) ~> (i \notin Queued \/ terminal)

=============================================================================
