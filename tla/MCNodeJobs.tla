----------------------------- MODULE MCNodeJobs -----------------------------
(* One request, sent again while its first submission is being written (a  *)
(* second and a third operation), over one repository.                     *)
EXTENDS NodeJobs

CONSTANTS c1, r1, r2, ka, kb

MCKeyOf == [r \in Requests |-> IF r = r1 THEN ka ELSE kb]
MCCridOf == [r \in Requests |-> r]
=============================================================================
