--------------------------- MODULE OperationLedger ---------------------------
(***************************************************************************)
(* What a mutation engine promises about its operations, said without      *)
(* queues, threads, files or processes: the durable life of an operation   *)
(* and the moment Git is first run for it.                                 *)
(*                                                                         *)
(* NativeJobs implements this specification (with the journal's files as   *)
(* the ledger), crashes, restarts and failed writes included.              *)
(***************************************************************************)
CONSTANT Ops

VARIABLES status,    \* [Ops -> Status], as the durable journal tells it
          touched    \* the operations Git was started for

vars == <<status, touched>>

Unfinished == {"accepted", "running"}
Settled == {"succeeded", "failed", "needsAttention", "unknown"}
Status == {"none", "cancelled"} \cup Unfinished \cup Settled

Init ==
    /\ status = [o \in Ops |-> "none"]
    /\ touched = {}

\* Moving every operation of S to status s.
Moved(S, s) == [o \in Ops |-> IF o \in S THEN s ELSE status[o]]

\* Requests become operations; one index write may publish several.
Accept(S) ==
    /\ \A o \in S : status[o] = "none"
    /\ status' = Moved(S, "accepted")
    /\ UNCHANGED touched

Start(o) ==
    /\ status[o] = "accepted"
    /\ status' = Moved({o}, "running")
    /\ UNCHANGED touched

\* Git is started for a running operation, once.
Touch(o) ==
    /\ status[o] = "running"
    /\ o \notin touched
    /\ touched' = touched \cup {o}
    /\ UNCHANGED status

\* An operation Git was started for gets the outcome that was observed.
Settle(o) ==
    /\ status[o] = "running"
    /\ o \in touched
    /\ \E s \in Settled : status' = Moved({o}, s)
    /\ UNCHANGED touched

\* An operation that never started is withdrawn or turned away.
Decline(o) ==
    /\ status[o] = "accepted"
    /\ \E s \in {"cancelled", "failed"} : status' = Moved({o}, s)
    /\ UNCHANGED touched

\* A restart settles what it finds unfinished as unknown: it never guesses.
Interrupt(S) ==
    /\ \A o \in S : status[o] \in Unfinished
    /\ status' = Moved(S, "unknown")
    /\ UNCHANGED touched

Next ==
    \/ \E S \in SUBSET Ops : Accept(S) \/ Interrupt(S)
    \/ \E o \in Ops : Start(o) \/ Touch(o) \/ Settle(o) \/ Decline(o)

Spec == Init /\ [][Next]_vars

TypeOK ==
    /\ status \in [Ops -> Status]
    /\ touched \subseteq Ops
=============================================================================
