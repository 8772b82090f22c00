-------------------------- MODULE MCCaptureLedger --------------------------
(* One item whose provider sends an upsert with its deletion, a page that  *)
(* leaves a gap, and an empty and a full page of a newer generation, each  *)
(* at any time and any number of times.                                    *)
EXTENDS CaptureLedger, TLC

CONSTANTS p1, p2, i1

Event(id, op, generation, order) ==
  [id |-> id, item |-> i1, op |-> op, generation |-> generation, order |-> order]
Page(generation, events, next, done) ==
  [generation |-> generation, events |-> events, next |-> next, done |-> done]

e1 == Event("e1", "upsert", 0, 1)
e2 == Event("e2", "delete", 0, 2)
e3 == Event("e3", "upsert", 0, 4)
e4 == Event("e4", "upsert", 1, 1)

MCPages == {Page(0, <<e3>>, 3, TRUE), Page(0, <<e1, e2>>, 2, FALSE),
            Page(1, <<>>, 4, TRUE), Page(1, <<e4>>, 0, TRUE)}

MCSymmetry == Permutations(Runners)
=============================================================================
