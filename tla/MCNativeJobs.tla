---------------------------- MODULE MCNativeJobs ----------------------------
(* One actor, two callers and up to three requests: r1 and r2 write to ka, *)
(* r3 reuses r1's client request id with another payload, for kb.  Callers *)
(* are symmetric; ids are not (the journal orders them).                   *)
EXTENDS NativeJobs, TLC

CONSTANTS c1, c2, r1, r2, r3, ka, kb, alice

OneKey == {r1, r2}
TwoKeys == {r1, r2, r3}
MCActorOf == [r \in Requests |-> alice]
MCCridOf == [r \in Requests |-> IF r = r3 THEN r1 ELSE r]
MCKeyOf == [r \in Requests |-> IF r = r3 THEN kb ELSE ka]
MCSymmetry == Permutations({c1, c2})
=============================================================================
