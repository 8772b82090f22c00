-------------------------- MODULE MCSourceRebuild --------------------------
(* Two statements of one slot, the second one newer, and one of another:   *)
(* each of the three parsers finds two of them.                            *)
EXTENDS SourceRebuild, TLC

CONSTANTS a1, a2, b, w1, w2

MCSlot == (a1 :> "a") @@ (a2 :> "a") @@ (b :> "b")
MCAt == (a1 :> 1) @@ (a2 :> 2) @@ (b :> 1)
MCParsed == <<<<a1, b>>, <<a1, a2>>, <<a2, b>>>>
=============================================================================
