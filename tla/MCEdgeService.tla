--------------------------- MODULE MCEdgeService ---------------------------
(* One workload per initial state: retrieval calls of one client of which   *)
(* the Core takes one at a time, one call through a decommissioning, one    *)
(* authorization and its tokens, proposals with repeated keys, without and  *)
(* with a decommissioning, and an Edge that is still to be claimed and gets *)
(* a proposal as soon as it serves.                                         *)
EXTENDS EdgeService

MCRequests == {"q1", "q2"}
MCClients == {"chatgpt"}
MCClientOf == [q \in MCRequests |-> "chatgpt"]
MCGrants == {"g1", "g2"}
MCRegistrations == {"first", "second"}
MCLogical == [r \in MCRegistrations |-> "chatgpt"]
MCAskedBy == [g \in MCGrants |-> IF g = "g1" THEN "first" ELSE "second"]
MCKeys == {"k1", "k2"}

NoLoad == [claimed |-> TRUE, held |-> {}, requests |-> {}, keys |-> {},
           grants |-> {}, closes |-> FALSE, faults |-> 0]
MCLoads ==
  {[NoLoad EXCEPT !.held = {"g1"}, !.requests = MCRequests, !.faults = 1],
   [NoLoad EXCEPT !.held = {"g1"}, !.requests = {"q1"}, !.closes = TRUE, !.faults = 2],
   [NoLoad EXCEPT !.grants = {"g1"}],
   [NoLoad EXCEPT !.keys = MCKeys, !.faults = 1],
   [NoLoad EXCEPT !.keys = {"k1"}, !.closes = TRUE, !.faults = 1],
   [NoLoad EXCEPT !.claimed = FALSE, !.keys = {"k1"}, !.faults = 2]}
============================================================================
