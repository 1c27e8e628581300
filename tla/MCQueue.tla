------------------------------ MODULE MCQueue ------------------------------
(* Two actors; three writers over two repositories and three readers of    *)
(* the busier one, under limits small enough for every refusal to happen.  *)
EXTENDS Queue

CONSTANTS w1, w2, w3, r1, r2, r3, ka, kb, alice, bob

MCTickets == {w1, w2, w3, r1, r2, r3}
MCKeys == {ka, kb}
MCActorOf == [t \in MCTickets |-> IF t \in {w1, w3, r1} THEN alice ELSE bob]
MCKeyOf == [t \in MCTickets |-> IF t = w3 THEN kb ELSE ka]
MCModeOf == [t \in MCTickets |-> IF t \in {r1, r2, r3} THEN "read" ELSE "write"]
=============================================================================
