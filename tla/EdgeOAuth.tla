----------------------------- MODULE EdgeOAuth -----------------------------
(* The OAuth grants of the Edge (relay/oauth.py): a registered client asks, *)
(* the owner consents, the client exchanges the code for a family of access *)
(* and refresh tokens and rotates the refresh token.  Several registrations *)
(* can be one logical client (every ChatGPT registration is edge:chatgpt),  *)
(* which is what the owner disconnects.                                     *)
(*                                                                          *)
(* Tokens of a family are numbered by the rotation that issued them.  Each  *)
(* action is one transaction; loading a refresh token and rotating it are   *)
(* two.                                                                     *)
EXTENDS Naturals, FiniteSets

CONSTANTS Grants,          \* authorization requests, each used once
          Registrations,   \* OAuth clients
          Logical,         \* the logical client of each registration
          AskedBy,         \* the registration that makes each request
          MaxTokens        \* bound: token pairs of one family

ASSUME OAuthAssumption == /\ AskedBy \in [Grants -> Registrations]
                          /\ DOMAIN Logical = Registrations
                          /\ MaxTokens \in Nat \ {0}

VARIABLES
  grant,      \* how far each authorization is
  access,     \* the access tokens of each family
  refresh,    \* its refresh tokens
  presented,  \* refresh tokens that are loaded and about to be rotated
  terminal    \* the Edge is decommissioned (edge_instance_state)

oauthVars == <<grant, access, refresh, presented, terminal>>

Tokens == 1..MaxTokens
NoTokens == [n \in Tokens |-> "none"]
LogicalOf(g) == Logical[AskedBy[g]]

OAuthTypeOK ==
  /\ grant \in [Grants -> {"none", "asked", "code", "over", "family"}]
  /\ access \in [Grants -> [Tokens -> {"none", "live", "revoked"}]]
  /\ refresh \in [Grants -> [Tokens -> {"none", "live", "revoked"}]]
  /\ presented \subseteq Grants \X Tokens
  /\ terminal \in BOOLEAN

(* The grants in held are there from before. *)
OAuthInit(held) ==
  /\ LET first == [g \in Grants |-> IF g \in held
                                    THEN [NoTokens EXCEPT ![1] = "live"] ELSE NoTokens]
     IN access = first /\ refresh = first
  /\ grant = [g \in Grants |-> IF g \in held THEN "family" ELSE "none"]
  /\ presented = {}
  /\ terminal = FALSE

Grant(g, before, after) ==
  /\ ~terminal
  /\ grant[g] = before
  /\ grant' = [grant EXCEPT ![g] = after]

-----------------------------------------------------------------------------
(* The authorization *)

Authorize(g) == /\ Grant(g, "none", "asked")
                /\ UNCHANGED <<access, refresh, presented, terminal>>

Consent(g) == /\ Grant(g, "asked", "code")
              /\ UNCHANGED <<access, refresh, presented, terminal>>

(* The owner declines, or the request or its code expires. *)
Lapsed(g) == /\ \E s \in {"asked", "code"} : Grant(g, s, "over")
             /\ UNCHANGED <<access, refresh, presented, terminal>>

Exchange(g) == /\ Grant(g, "code", "family")
               /\ access' = [access EXCEPT ![g][1] = "live"]
               /\ refresh' = [refresh EXCEPT ![g][1] = "live"]
               /\ UNCHANGED <<presented, terminal>>

-----------------------------------------------------------------------------
(* The tokens *)

Live(tokens) == {n \in Tokens : tokens[n] = "live"}
Issued(g) == {n \in Tokens : \E m \in Tokens : m >= n /\ refresh[g][m] # "none"}

Ended(tokens) == [n \in Tokens |->
                    IF tokens[n] = "live" THEN "revoked" ELSE tokens[n]]
EndFamilies(G) ==
  /\ access' = [g \in Grants |-> IF g \in G THEN Ended(access[g]) ELSE access[g]]
  /\ refresh' = [g \in Grants |-> IF g \in G THEN Ended(refresh[g]) ELSE refresh[g]]

(* A refresh token is loaded by its hash, whether it is revoked or not. *)
Present(g, n) ==
  /\ refresh[g][n] # "none"
  /\ presented' = presented \cup {<<g, n>>}
  /\ UNCHANGED <<grant, access, refresh, terminal>>

(* Mutant: the token's state is the one seen when it was loaded. *)
RotateBlind(g, n) ==
  /\ ~terminal
  /\ <<g, n>> \in presented
  /\ presented' = presented \ {<<g, n>>}
  /\ LET next == Cardinality(Issued(g)) + 1
     IN /\ next \in Tokens
        /\ refresh' = [refresh EXCEPT ![g][n] = "revoked", ![g][next] = "live"]
        /\ access' = [access EXCEPT ![g][next] = "live"]
  /\ UNCHANGED <<grant, terminal>>

(* rotate_refresh: a live token is spent for the next pair; one that is not *)
(* live any more ends the whole family.                                     *)
Rotate(g, n) ==
  /\ ~terminal
  /\ <<g, n>> \in presented
  /\ presented' = presented \ {<<g, n>>}
  /\ LET next == Cardinality(Issued(g)) + 1
     IN IF refresh[g][n] = "live"
        THEN /\ next \in Tokens
             /\ refresh' = [refresh EXCEPT ![g][n] = "revoked", ![g][next] = "live"]
             /\ access' = [access EXCEPT ![g][next] = "live"]
        ELSE EndFamilies({g})
  /\ UNCHANGED <<grant, terminal>>

ExpireAccess(g, n) ==
  /\ access[g][n] # "none"
  /\ access' = [access EXCEPT ![g][n] = "none"]
  /\ UNCHANGED <<grant, refresh, presented, terminal>>

(* Refresh tokens of a family expire in the order they were issued. *)
ExpireRefresh(g, n) ==
  /\ refresh[g][n] # "none"
  /\ \A m \in Tokens : m < n => refresh[g][m] = "none"
  /\ refresh' = [refresh EXCEPT ![g][n] = "none"]
  /\ UNCHANGED <<grant, access, presented, terminal>>

HasRows(g) == \E n \in Tokens : access[g][n] # "none" \/ refresh[g][n] # "none"

(* The client hands a token back: revoke. *)
GiveBack(g) ==
  /\ ~terminal
  /\ HasRows(g)
  /\ EndFamilies({g})
  /\ UNCHANGED <<grant, presented, terminal>>

(* revoke_logical_client ends every token of the logical client, and        *)
(* deletes the requests and codes of those of its registrations that have   *)
(* a refresh token; a client without any token is not found.                *)
HasTokens(g) == \E n \in Tokens : refresh[g][n] # "none"
RevokeLogical(c) ==
  /\ ~terminal
  /\ \E g \in Grants : LogicalOf(g) = c /\ HasRows(g)
  /\ LET known == {AskedBy[g] : g \in {h \in Grants : LogicalOf(h) = c /\ HasTokens(h)}}
     IN grant' = [g \in Grants |->
                    IF AskedBy[g] \in known /\ grant[g] \in {"asked", "code"}
                    THEN "over" ELSE grant[g]]
  /\ EndFamilies({g \in Grants : LogicalOf(g) = c})
  /\ UNCHANGED <<presented, terminal>>

(* decommission: the registrations go, and with them, by their foreign      *)
(* keys, every request, code and token.                                     *)
CloseEdge ==
  /\ ~terminal
  /\ terminal' = TRUE
  /\ grant' = [g \in Grants |-> IF grant[g] \in {"asked", "code"} THEN "over"
                                ELSE grant[g]]
  /\ access' = [g \in Grants |-> NoTokens]
  /\ refresh' = access'
  /\ UNCHANGED presented

(* load_access_token *)
Accepted(c) == \E g \in Grants : LogicalOf(g) = c /\ Live(access[g]) # {}

-----------------------------------------------------------------------------
(* Properties *)

(* A family has at most one live refresh token, whichever tokens are        *)
(* presented together, and none ever again once it has none: a stolen token *)
(* that is used after the owner's, or before it, ends the family for both   *)
(* (rotate_refresh and _revoke_family in relay/oauth.py).                   *)
FamilyEnds ==
  [][\A g \in Grants :
       /\ Cardinality(Live(refresh'[g])) <= 1
       /\ grant[g] = "family" /\ Live(refresh[g]) = {} => Live(refresh'[g]) = {}]_oauthVars

=============================================================================
