----------------------------- MODULE EdgeClaim -----------------------------
(* The one-time claim of a hosted Edge: the Core proves that it holds the   *)
(* claim's private key, the Edge makes its replication credentials and      *)
(* hands them over, the Core saves them and acknowledges, and only then     *)
(* forgets the key (edge_claim.py, edge_connection.py).  Each side keeps    *)
(* what it has to on disk; any reply may be lost and either process may     *)
(* stop between two steps.                                                  *)
EXTENDS Naturals

CONSTANT MaxCredentials   \* bound: credentials the Edge ever makes

ASSUME ClaimAssumption == MaxCredentials \in Nat \ {0}

VARIABLES
  edge,    \* the Edge: its durable claim state, the secret it runs with
  core,    \* the Core: its durable enrollment, where connect stands
  overdue  \* the claim bundle has expired

claimVars == <<edge, core, overdue>>

Steps == {"verify", "challenge", "prove", "save", "recheck", "ack", "forget",
          "final"}

ClaimTypeOK ==
  /\ edge \in [runtime : 0..MaxCredentials,  \* edge_claim_runtime, 0: none
               acked : BOOLEAN,              \* acknowledged_at
               secret : 0..MaxCredentials,   \* pairing_secret, in memory
               made : 0..MaxCredentials,     \* credentials made so far
               open : BOOLEAN]               \* the Core's challenge is unused
  /\ core \in [pc : {"off"} \cup Steps,
               got : 0..MaxCredentials,      \* decrypted, not saved yet
               creds : 0..MaxCredentials,    \* the saved enrollment bundle
               key : BOOLEAN,                \* the claim's private key
               paired : BOOLEAN]             \* edge_url is saved
  /\ overdue \in BOOLEAN

ClaimInit(claimed) ==
  LET n == IF claimed THEN 1 ELSE 0
  IN /\ edge = [runtime |-> n, acked |-> claimed, secret |-> n, made |-> n,
                open |-> FALSE]
     /\ core = [pc |-> "off", got |-> 0, creds |-> n, key |-> ~claimed,
                paired |-> claimed]
     /\ overdue = FALSE

(* healthz: an Edge with credentials proves that it runs with a secret. *)
Proves == edge.runtime # 0 /\ edge.secret = core.creds
Answers == ~edge.acked /\ ~overdue

CoreGoes(pc) == core' = [core EXCEPT !.pc = pc]

Connect == /\ core.pc = "off" /\ ~core.paired
           /\ CoreGoes(IF core.key THEN "verify" ELSE "final")
           /\ UNCHANGED <<edge, overdue>>

(* Mutant: every attempt starts with a challenge. *)
VerifyNothing == /\ core.pc = "verify"
                 /\ CoreGoes("challenge")
                 /\ UNCHANGED <<edge, overdue>>

(* An Edge that already proves itself with the saved secret was claimed by  *)
(* an earlier attempt.                                                      *)
Verify == /\ core.pc = "verify"
          /\ CoreGoes(IF Proves THEN "ack" ELSE "challenge")
          /\ UNCHANGED <<edge, overdue>>

Challenge(received) ==
  /\ core.pc = "challenge"
  /\ edge' = IF Answers THEN [edge EXCEPT !.open = TRUE] ELSE edge
  /\ CoreGoes(IF Answers /\ received THEN "prove" ELSE "off")
  /\ UNCHANGED overdue

(* The challenge is used up; the credentials are made once and handed over  *)
(* again to a Core that asks again.                                         *)
Prove(received) ==
  /\ core.pc = "prove"
  /\ LET accepted == Answers /\ edge.open
         n == IF edge.runtime = 0 THEN edge.made + 1 ELSE edge.runtime
     IN IF accepted
        THEN /\ n <= MaxCredentials
             /\ edge' = [edge EXCEPT !.open = FALSE, !.runtime = n, !.secret = n,
                                     !.made = IF n > @ THEN n ELSE @]
             /\ core' = [core EXCEPT !.got = IF received THEN n ELSE 0,
                                     !.pc = IF received THEN "save" ELSE "off"]
        ELSE CoreGoes("off") /\ UNCHANGED edge
  /\ UNCHANGED overdue

(* Mutant: the claim's private key goes with the old bundle. *)
SaveAlone == /\ core.pc = "save"
             /\ core' = [core EXCEPT !.creds = core.got, !.got = 0, !.key = FALSE,
                                     !.pc = "recheck"]
             /\ UNCHANGED <<edge, overdue>>

(* replace_bundle keeps the claim's private key beside the new credentials. *)
Save == /\ core.pc = "save"
        /\ core' = [core EXCEPT !.creds = core.got, !.got = 0, !.pc = "recheck"]
        /\ UNCHANGED <<edge, overdue>>

Recheck == /\ core.pc = "recheck"
           /\ CoreGoes(IF Proves THEN "ack" ELSE "off")
           /\ UNCHANGED <<edge, overdue>>

Acknowledge(received) ==
  /\ core.pc = "ack"
  /\ edge' = IF edge.secret = core.creds
             THEN [edge EXCEPT !.acked = TRUE, !.open = FALSE] ELSE edge
  /\ CoreGoes(IF edge.secret = core.creds /\ received THEN "forget" ELSE "off")
  /\ UNCHANGED overdue

Forget == /\ core.pc = "forget"
          /\ core' = [core EXCEPT !.key = FALSE, !.pc = "final"]
          /\ UNCHANGED <<edge, overdue>>

Final == /\ core.pc = "final"
         /\ core' = [core EXCEPT !.paired = Proves, !.pc = "off"]
         /\ UNCHANGED <<edge, overdue>>

ClaimStep == \/ Connect \/ Verify \/ Challenge(TRUE) \/ Prove(TRUE) \/ Save
             \/ Recheck \/ Acknowledge(TRUE) \/ Forget \/ Final

(* A reply is lost on its way to the Core. *)
ClaimReplyLost == Challenge(FALSE) \/ Prove(FALSE) \/ Acknowledge(FALSE)

(* The Core stops in the middle of connect. *)
ClaimCoreStops == /\ core.pc # "off"
                  /\ core' = [core EXCEPT !.pc = "off", !.got = 0]
                  /\ UNCHANGED <<edge, overdue>>

(* The Edge comes back and takes its secret from the claim's state; other   *)
(* callers' challenges or five minutes may have taken the Core's away.      *)
ClaimEdgeRestarts == /\ edge' = [edge EXCEPT !.secret = edge.runtime, !.open = FALSE]
                     /\ UNCHANGED <<core, overdue>>

ClaimExpires == /\ ~overdue /\ ~core.paired
                /\ overdue' = TRUE
                /\ UNCHANGED <<edge, core>>

-----------------------------------------------------------------------------
(* Properties *)

(* The Core gives up the claim's private key only when the Edge will never  *)
(* ask for it again, and then both hold the same credentials: no lost reply *)
(* and no stop leaves an Edge that nobody can authenticate to               *)
(* (_connect_locked in edge_connection.py, complete in edge_claim.py).      *)
Paired == ~core.key => edge.acked /\ core.creds = edge.runtime

(* Connecting again and again ends in a paired Edge, unless the claim       *)
(* bundle ran out first; an attempt that stopped after the acknowledgement  *)
(* is taken up where it stopped.                                            *)
PairsInTime == <>(core.paired \/ overdue)

=============================================================================
