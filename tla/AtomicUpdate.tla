---------------------------- MODULE AtomicUpdate ----------------------------
(* What an update promises its user: the installation is never seen half    *)
(* changed.  The update is decided at most once, to the new version only    *)
(* while nothing is running, and whatever is started afterwards is the      *)
(* version that was decided.                                                *)
CONSTANTS Old, New, Stopped

VARIABLES outcome,  \* "open", "installed" or "rolled_back"
          running   \* the version of the program that serves, or Stopped

vars == <<outcome, running>>

Init == outcome = "open" /\ running = Old

Install == outcome = "open" /\ running = Stopped
           /\ outcome' = "installed" /\ UNCHANGED running

Abandon == outcome = "open"
           /\ outcome' = "rolled_back" /\ UNCHANGED running

Stop == running' = Stopped /\ UNCHANGED outcome

Start == running = Stopped
         /\ running' = (IF outcome = "installed" THEN New ELSE Old)
         /\ UNCHANGED outcome

Next == Install \/ Abandon \/ Stop \/ Start

Spec == Init /\ [][Next]_vars
=============================================================================
