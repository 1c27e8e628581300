----------------------------- MODULE NativeJobs -----------------------------
(***************************************************************************)
(* The native host's write path, from a submitted request to a confirmed   *)
(* outcome: MutationEngine, Journal and Recovery                           *)
(* (crates/refyard-host/src/jobs/{mod,journal,recovery,queue}.rs) and the  *)
(* acknowledgement in service.rs, with process crashes, restarts, failed   *)
(* disk writes and panicking effects.                                      *)
(*                                                                         *)
(* The engine is called from many threads and keeps three locks: the       *)
(* journal's, the queue's and the recovery's.  One action is what one call *)
(* does under one lock; between two of them (and across every await) any   *)
(* other call or task may run.  A call's place is in calls, a spawned      *)
(* run_ticket task's place in tasks.                                       *)
(*                                                                         *)
(* Memory (records, blocks, queue, calls, tasks, snaps) is lost in a       *)
(* crash; files and index survive.  A crash between the two file writes of *)
(* one journal call leaves the disk as a failure of the second write does, *)
(* so it is the sequence of those two steps here.                          *)
(***************************************************************************)
EXTENDS Naturals, FiniteSets

CONSTANTS Callers,           \* concurrent calls into the service
          Requests,          \* the distinct requests clients send
          NoReq,             \* not a request
          Keys,              \* repository write keys
          Actors,            \* client sessions
          ActorOf,           \* [Requests -> Actors]
          CridOf,            \* [Requests -> client request ids]
          KeyOf,             \* [Requests -> Keys]
          MaxQueuedPerActor, \* queue limits
          MaxGitProcesses,
          MaxOps,            \* bound: operation ids minted
          MaxCrashes,        \* bound: crashes of the process
          MaxFaults          \* bound: failed writes and panics

ASSUME JobsAssumption ==
    /\ NoReq \notin Requests
    /\ ActorOf \in [Requests -> Actors]
    /\ KeyOf \in [Requests -> Keys]
    /\ DOMAIN CridOf = Requests
    /\ MaxQueuedPerActor \in Nat /\ MaxGitProcesses \in Nat
    /\ MaxOps \in Nat /\ MaxCrashes \in Nat /\ MaxFaults \in Nat

VARIABLES
    up,        \* the process is running
    \* the journal: memory, then disk
    records,   \* [Ids -> Record]
    nextSeq,   \* next_sequence
    files,     \* [Ids -> Record], journal/records/<id>.json
    index,     \* journal/index.json: which records load, and its next_sequence
    \* recovery
    blocks,    \* [Keys -> set of operation ids]; {} is no block
    \* the queue
    arrival,   \* [Ids -> Nat], 0 when not pending, else its place in the order
    arrivals,  \* enqueues so far
    running,   \* the tickets holding a slot
    \* the engine and the service
    nextOp,    \* next_operation
    calls,     \* [Callers -> Call]
    tasks,     \* [Ids -> TaskPc]
    snaps,     \* [Keys -> ids finished when the latest snapshot was read]
    \* history
    ran,       \* [Ids -> Nat], times Git was started for the operation
    answered,  \* [Ids -> what clients were told about the operation]
    lifted,    \* keys whose block a person lifted in this process
    crashes, faults

journalVars == <<records, nextSeq, files, index>>
queueVars == <<arrival, arrivals, running>>
history == <<ran, answered, lifted>>
bounds == <<crashes, faults>>
vars == <<up, journalVars, blocks, queueVars, nextOp, calls, tasks, snaps,
          history, bounds>>

---------------------------------------------------------------------------
Ids == 1..MaxOps

Unfinished == {"accepted", "running"}
Outcomes == {"succeeded", "failed", "needsAttention", "unknown"}
Terminal == Outcomes \cup {"cancelled"}
Status == {"none"} \cup Unfinished \cup Terminal

Record == [status : Status, req : Requests \cup {NoReq}, seq : Nat, acked : BOOLEAN]
NoRecord == [status |-> "none", req |-> NoReq, seq |-> 0, acked |-> FALSE]

CallPc == {"idle", "context", "append", "enqueue", "refuse", "pump", "cancel", "acknowledge"}
Call == [pc : CallPc, req : Requests \cup {NoReq}, op : Nat, blocked : BOOLEAN]
Idle == [pc |-> "idle", req |-> NoReq, op |-> 0, blocked |-> FALSE]
Working(pc, o) == [pc |-> pc, req |-> NoReq, op |-> o, blocked |-> FALSE]

\* The places of run_ticket, from tokio::spawn to the drop of its slot guard.
TaskPc == {"none", "spawned", "started", "effect", "block", "release"}

Known(recs) == {o \in Ids : recs[o].status # "none"}
KeyAt(o) == KeyOf[records[o].req]

\* Mutant: everything but success, failure and cancellation is unfinished.
is_unfinished_Unsettled(rec) ==
    rec.status \in Status \ {"none", "succeeded", "failed", "cancelled"}

is_unfinished(rec) == rec.status \in Unfinished
blocks_writes(rec) == rec.status \in {"unknown", "needsAttention"} /\ ~rec.acked

\* The records of one client request: same actor, same client request id.
SameRequest(r, q) == ActorOf[r] = ActorOf[q] /\ CridOf[r] = CridOf[q]
find_client_request(r) == {o \in Known(records) : SameRequest(records[o].req, r)}

Init ==
    /\ up = TRUE
    /\ records = [o \in Ids |-> NoRecord]
    /\ nextSeq = 1
    /\ files = [o \in Ids |-> NoRecord]
    /\ index = [ids |-> {}, next |-> 0]
    /\ blocks = [k \in Keys |-> {}]
    /\ arrival = [o \in Ids |-> 0]
    /\ arrivals = 0
    /\ running = {}
    /\ nextOp = 0
    /\ calls = [c \in Callers |-> Idle]
    /\ tasks = [o \in Ids |-> "none"]
    /\ snaps = [k \in Keys |-> {}]
    /\ ran = [o \in Ids |-> 0]
    /\ answered = [o \in Ids |-> {}]
    /\ lifted = {}
    /\ crashes = 0
    /\ faults = 0

---------------------------------------------------------------------------
(* Journal writes.  Memory follows the record's file; the index is a file  *)
(* of its own.                                                             *)

\* A write of a file, or an effect, goes wrong.
Fault == faults < MaxFaults /\ faults' = faults + 1 /\ UNCHANGED crashes

\* write_record succeeded and memory took the new record.
Stored(o, rec) ==
    /\ files' = [files EXCEPT ![o] = rec]
    /\ records' = [records EXCEPT ![o] = rec]

\* write_index succeeded: it names every record in memory.
write_index == index' = [ids |-> Known(records'), next |-> nextSeq']

\* A status change of an existing record: only its own file is rewritten.
Rewrite(o, status) ==
    /\ Stored(o, [records[o] EXCEPT !.status = status])
    /\ UNCHANGED <<nextSeq, index>>

Answers == {"accepted", "duplicate", "refused"}
Told(o, answer) == [answered EXCEPT ![o] = @ \cup {answer}]

Goto(c, pc) == calls' = [calls EXCEPT ![c].pc = pc]
Return(c) == calls' = [calls EXCEPT ![c] = Idle]

---------------------------------------------------------------------------
(* submit                                                                  *)

\* The client request id is known: the newest record answers, or the request
\* is refused because its payload differs.
SubmitKnown(c, r) ==
    /\ up /\ calls[c].pc = "idle"
    /\ \E o \in find_client_request(r) :
        /\ \A p \in find_client_request(r) : records[p].seq <= records[o].seq
        /\ answered' = IF records[o].req = r THEN Told(o, "duplicate") ELSE answered
    /\ UNCHANGED <<up, journalVars, blocks, queueVars, nextOp, calls, tasks, snaps,
                   ran, lifted, bounds>>

\* A new request: the block is read, then the fresh context is awaited.  The
\* lookup and the block have a lock each; here one step reads both.
SubmitNew(c, r) ==
    /\ up /\ calls[c].pc = "idle"
    /\ find_client_request(r) = {}
    /\ calls' = [calls EXCEPT ![c] = [pc |-> "context", req |-> r, op |-> 0,
                                      blocked |-> blocks[KeyOf[r]] # {}]]
    /\ UNCHANGED <<up, journalVars, blocks, queueVars, nextOp, tasks, snaps, history, bounds>>

\* Mutant: a blocked request waits where it should be refused.
ContextRefused_Waits(c) ==
    /\ calls[c].pc = "context" /\ ~calls[c].blocked
    /\ Return(c)
    /\ UNCHANGED <<up, journalVars, blocks, queueVars, nextOp, tasks, snaps, history, bounds>>

\* The context could not be read, or check_preconditions refused it: the block
\* that was read, or any other precondition.
ContextRefused(c) ==
    /\ calls[c].pc = "context"
    /\ Return(c)
    /\ UNCHANGED <<up, journalVars, blocks, queueVars, nextOp, tasks, snaps, history, bounds>>

ContextPassed(c) ==
    /\ calls[c].pc = "context"
    /\ ~calls[c].blocked
    /\ nextOp < MaxOps
    /\ nextOp' = nextOp + 1
    /\ calls' = [calls EXCEPT ![c].pc = "append", ![c].op = nextOp + 1]
    /\ UNCHANGED <<up, journalVars, blocks, queueVars, tasks, snaps, history, bounds>>

\* The guard is append's refusal of an id it already holds, which FreshIds shows
\* is never met.
Accepted(c) == [status |-> "accepted", req |-> calls[c].req, seq |-> nextSeq, acked |-> FALSE]

\* Mutant: the record is written and the index is not.
append_NoIndex(c) ==
    /\ calls[c].pc = "append"
    /\ records[calls[c].op].status = "none"
    /\ Stored(calls[c].op, Accepted(c))
    /\ nextSeq' = nextSeq + 1
    /\ Goto(c, "enqueue")
    /\ UNCHANGED <<up, index, blocks, queueVars, nextOp, tasks, snaps, history, bounds>>

append(c) ==
    /\ calls[c].pc = "append"
    /\ records[calls[c].op].status = "none"
    /\ Stored(calls[c].op, Accepted(c))
    /\ nextSeq' = nextSeq + 1
    /\ write_index
    /\ Goto(c, "enqueue")
    /\ UNCHANGED <<up, blocks, queueVars, nextOp, tasks, snaps, history, bounds>>

\* The record's file could not be written: the request is refused.
AppendFailed(c) ==
    /\ calls[c].pc = "append"
    /\ Fault
    /\ answered' = Told(calls[c].op, "refused")
    /\ Return(c)
    /\ UNCHANGED <<up, journalVars, blocks, queueVars, nextOp, tasks, snaps, ran, lifted>>

\* The index could not be written: the request is refused, its record stays.
AppendIndexFailed(c) ==
    /\ calls[c].pc = "append"
    /\ records[calls[c].op].status = "none"
    /\ Fault
    /\ Stored(calls[c].op, Accepted(c))
    /\ nextSeq' = nextSeq + 1
    /\ answered' = Told(calls[c].op, "refused")
    /\ Return(c)
    /\ UNCHANGED <<up, index, blocks, queueVars, nextOp, tasks, snaps, ran, lifted>>

Waiting == {o \in Ids : arrival[o] > 0}
depth_for(a) == Cardinality({o \in Waiting : ActorOf[records[o].req] = a})

HasRoom(c) ==
    depth_for(ActorOf[calls[c].req]) < MaxQueuedPerActor /\ calls[c].op \notin Waiting

enqueue(c) ==
    /\ calls[c].pc = "enqueue"
    /\ HasRoom(c)
    /\ arrivals' = arrivals + 1
    /\ arrival' = [arrival EXCEPT ![calls[c].op] = arrivals + 1]
    /\ Goto(c, "pump")
    /\ UNCHANGED <<up, journalVars, blocks, running, nextOp, tasks, snaps, history, bounds>>

EnqueueRefused(c) ==
    /\ calls[c].pc = "enqueue"
    /\ ~HasRoom(c)
    /\ Goto(c, "refuse")
    /\ UNCHANGED <<up, journalVars, blocks, queueVars, nextOp, tasks, snaps, history, bounds>>

\* The queue refused the ticket.
finish_without_start(c) ==
    /\ calls[c].pc = "refuse"
    /\ records[calls[c].op].status = "accepted"
    /\ Rewrite(calls[c].op, "failed")
    /\ Return(c)
    /\ UNCHANGED <<up, blocks, queueVars, nextOp, tasks, snaps, history, bounds>>

---------------------------------------------------------------------------
(* The queue's pass, for writes: per key only its oldest ticket can start, *)
(* and only while the key has no writer; the limit is spent in order.      *)

BusyKeys == {KeyAt(o) : o \in running}

\* Mutant: a key that has a writer is not passed over.
Startable_BusyToo ==
    {o \in Waiting :
        \A p \in Waiting : KeyAt(p) = KeyAt(o) => arrival[o] <= arrival[p]}

Startable ==
    {o \in Waiting :
        /\ KeyAt(o) \notin BusyKeys
        /\ \A p \in Waiting : KeyAt(p) = KeyAt(o) => arrival[o] <= arrival[p]}
take_startable ==
    {o \in Startable :
        Cardinality(running) + Cardinality({p \in Startable : arrival[p] < arrival[o]})
            < MaxGitProcesses}

\* The pass takes its tickets, each gets a task, and submit answers.
pump(c) ==
    /\ calls[c].pc = "pump"
    /\ running' = running \cup take_startable
    /\ arrival' = [o \in Ids |-> IF o \in take_startable THEN 0 ELSE arrival[o]]
    /\ tasks' = [o \in Ids |-> IF o \in take_startable THEN "spawned" ELSE tasks[o]]
    /\ answered' = Told(calls[c].op, "accepted")
    /\ Return(c)
    /\ UNCHANGED <<up, journalVars, blocks, arrivals, nextOp, snaps, ran, lifted, bounds>>

---------------------------------------------------------------------------
(* cancel: only the queue decides whether the operation is still waiting.  *)

cancel(c, o) ==
    /\ up /\ calls[c].pc = "idle"
    /\ records[o].status = "accepted"
    /\ o \in Waiting
    /\ arrival' = [arrival EXCEPT ![o] = 0]
    /\ calls' = [calls EXCEPT ![c] = Working("cancel", o)]
    /\ UNCHANGED <<up, journalVars, blocks, arrivals, running, nextOp, tasks, snaps,
                   history, bounds>>

mark_cancelled(c) ==
    /\ calls[c].pc = "cancel"
    /\ records[calls[c].op].status = "accepted"
    /\ Rewrite(calls[c].op, "cancelled")
    /\ Return(c)
    /\ UNCHANGED <<up, blocks, queueVars, nextOp, tasks, snaps, history, bounds>>

\* Mutant: memory changes before the write that then fails.
RewriteFailed_MemoryFirst(c) ==
    /\ calls[c].pc \in {"refuse", "cancel"}
    /\ Fault
    /\ records' = [records EXCEPT ![calls[c].op].status = "cancelled"]
    /\ Return(c)
    /\ UNCHANGED <<up, nextSeq, files, index, blocks, queueVars, nextOp, tasks, snaps, history>>

\* The refusal or the cancellation could not be written: the caller gets an
\* error and the record stays accepted, with no ticket.
RewriteFailed(c) ==
    /\ calls[c].pc \in {"refuse", "cancel"}
    /\ Fault
    /\ Return(c)
    /\ UNCHANGED <<up, journalVars, blocks, queueVars, nextOp, tasks, snaps, history>>

---------------------------------------------------------------------------
(* run_ticket                                                              *)

TaskTo(o, pc) == tasks' = [tasks EXCEPT ![o] = pc]

\* Mutant: `running` is in memory only when Git starts.
mark_started_Unwritten(o) ==
    /\ tasks[o] = "spawned"
    /\ records[o].status = "accepted"
    /\ records' = [records EXCEPT ![o].status = "running"]
    /\ TaskTo(o, "started")
    /\ UNCHANGED <<up, nextSeq, files, index, blocks, queueVars, nextOp, calls, snaps,
                   history, bounds>>

mark_started(o) ==
    /\ tasks[o] = "spawned"
    /\ records[o].status = "accepted"
    /\ Rewrite(o, "running")
    /\ TaskTo(o, "started")
    /\ UNCHANGED <<up, blocks, queueVars, nextOp, calls, snaps, history, bounds>>

\* Mutant: the early return is before the slot guard.
MarkStartedFailed_NoGuard(o) ==
    /\ tasks[o] = "spawned"
    /\ Fault
    /\ TaskTo(o, "none")
    /\ UNCHANGED <<up, journalVars, blocks, queueVars, nextOp, calls, snaps, history>>

\* The record could not be rewritten: nothing runs, the record stays accepted.
MarkStartedFailed(o) ==
    /\ tasks[o] = "spawned"
    /\ Fault
    /\ TaskTo(o, "release")
    /\ UNCHANGED <<up, journalVars, blocks, queueVars, nextOp, calls, snaps, history>>

\* Git is started for the operation.
RunEffect(o) ==
    /\ tasks[o] = "started"
    /\ ran' = [ran EXCEPT ![o] = @ + 1]
    /\ TaskTo(o, "effect")
    /\ UNCHANGED <<up, journalVars, blocks, queueVars, nextOp, calls, snaps,
                   answered, lifted, bounds>>

finish(o) ==
    /\ tasks[o] = "effect"
    /\ records[o].status = "running"
    /\ \E outcome \in Outcomes :
        /\ Rewrite(o, outcome)
        /\ TaskTo(o, IF outcome = "unknown" THEN "block" ELSE "release")
    /\ UNCHANGED <<up, blocks, queueVars, nextOp, calls, snaps, history, bounds>>

\* Mutant: an effect that did not report is tried again.
FinishFailed_Retries(o) ==
    /\ tasks[o] = "effect"
    /\ Fault
    /\ TaskTo(o, "started")
    /\ UNCHANGED <<up, journalVars, blocks, queueVars, nextOp, calls, snaps, history>>

\* The effect panicked, or the outcome could not be written: the record stays
\* running and only the slot guard acts.
FinishFailed(o) ==
    /\ tasks[o] = "effect"
    /\ Fault
    /\ TaskTo(o, "release")
    /\ UNCHANGED <<up, journalVars, blocks, queueVars, nextOp, calls, snaps, history>>

\* Mutant: the block names the repository, not the operation.
block_NamesKey(o) ==
    /\ tasks[o] = "block"
    /\ blocks' = [blocks EXCEPT ![KeyAt(o)] = @ \cup {KeyAt(o)}]
    /\ TaskTo(o, "release")
    /\ UNCHANGED <<up, journalVars, queueVars, nextOp, calls, snaps, history, bounds>>

block(o) ==
    /\ tasks[o] = "block"
    /\ blocks' = [blocks EXCEPT ![KeyAt(o)] = @ \cup {o}]
    /\ TaskTo(o, "release")
    /\ UNCHANGED <<up, journalVars, queueVars, nextOp, calls, snaps, history, bounds>>

\* The drop of QueueSlot.
release(o) ==
    /\ tasks[o] = "release"
    /\ running' = running \ {o}
    /\ TaskTo(o, "none")
    /\ UNCHANGED <<up, journalVars, blocks, arrival, arrivals, nextOp, calls, snaps,
                   history, bounds>>

---------------------------------------------------------------------------
(* acknowledge_uncertain_operation                                         *)

\* A client reads the repository: the snapshot is newer than the finish of
\* every operation that has finished by now.
ReadSnapshot(k) ==
    /\ up
    /\ snaps' = [snaps EXCEPT ![k] = {o \in Known(records) :
                    KeyAt(o) = k /\ ~is_unfinished(records[o])}]
    /\ UNCHANGED <<up, journalVars, blocks, queueVars, nextOp, calls, tasks, history, bounds>>

\* The confirmation is checked and the key's whole block is removed.
resolve_block(c, o) ==
    /\ up /\ calls[c].pc = "idle"
    /\ records[o].status = "unknown"
    /\ o \in snaps[KeyAt(o)]
    /\ blocks[KeyAt(o)] # {}
    /\ blocks' = [blocks EXCEPT ![KeyAt(o)] = {}]
    /\ lifted' = lifted \cup {KeyAt(o)}
    /\ calls' = [calls EXCEPT ![c] = Working("acknowledge", o)]
    /\ UNCHANGED <<up, journalVars, queueVars, nextOp, tasks, snaps, ran, answered, bounds>>

\* Then it is recorded, under a sequence of its own.
Acknowledged(c) == [records[calls[c].op] EXCEPT !.acked = TRUE, !.seq = nextSeq]

acknowledge(c) ==
    /\ calls[c].pc = "acknowledge"
    /\ blocks_writes(records[calls[c].op])
    /\ Stored(calls[c].op, Acknowledged(c))
    /\ nextSeq' = nextSeq + 1
    /\ write_index
    /\ Return(c)
    /\ UNCHANGED <<up, blocks, queueVars, nextOp, tasks, snaps, history, bounds>>

\* The record could not be written; its sequence is spent all the same.
AcknowledgeFailed(c) ==
    /\ calls[c].pc = "acknowledge"
    /\ blocks_writes(records[calls[c].op])
    /\ Fault
    /\ nextSeq' = nextSeq + 1
    /\ Return(c)
    /\ UNCHANGED <<up, records, files, index, blocks, queueVars, nextOp, tasks, snaps, history>>

\* The record was written and the index was not.
AcknowledgeIndexFailed(c) ==
    /\ calls[c].pc = "acknowledge"
    /\ blocks_writes(records[calls[c].op])
    /\ Fault
    /\ Stored(calls[c].op, Acknowledged(c))
    /\ nextSeq' = nextSeq + 1
    /\ Return(c)
    /\ UNCHANGED <<up, index, blocks, queueVars, nextOp, tasks, snaps, history>>

\* The record was acknowledged before: the answer is an error.
AcknowledgeRefused(c) ==
    /\ calls[c].pc = "acknowledge"
    /\ ~blocks_writes(records[calls[c].op])
    /\ Return(c)
    /\ UNCHANGED <<up, journalVars, blocks, queueVars, nextOp, tasks, snaps, history, bounds>>

---------------------------------------------------------------------------
(* Crash and restart.                                                      *)

Crash ==
    /\ up
    /\ crashes < MaxCrashes
    /\ crashes' = crashes + 1
    /\ up' = FALSE
    /\ records' = [o \in Ids |-> NoRecord]
    /\ nextSeq' = 0
    /\ blocks' = [k \in Keys |-> {}]
    /\ arrival' = [o \in Ids |-> 0]
    /\ arrivals' = 0
    /\ running' = {}
    /\ nextOp' = 0
    /\ calls' = [c \in Callers |-> Idle]
    /\ tasks' = [o \in Ids |-> "none"]
    /\ snaps' = [k \in Keys |-> {}]
    /\ lifted' = {}
    /\ UNCHANGED <<files, index, ran, answered, faults>>

\* What load reads: the records the index names.
load == [o \in Ids |-> IF o \in index.ids THEN files[o] ELSE NoRecord]
LoadedUnfinished == {o \in index.ids : is_unfinished(files[o])}

LoadedSeqs == {index.next, 1} \cup {files[o].seq + 1 : o \in index.ids}

\* load computes next_sequence above everything it read.
IsMaximum(m, S) == m \in S /\ \A x \in S : x <= m

\* Mutant: the seed is the number of operations, not the highest id.
next_operation_seed_Count(m) == m = Cardinality(index.ids)

next_operation_seed(m) == IsMaximum(m, {0} \cup index.ids)

\* Mutant: the restart guesses that what was interrupted failed.
reconcile_unfinished_Guessed(o, base) ==
    [files[o] EXCEPT
        !.status = "failed",
        !.seq = base + Cardinality({p \in LoadedUnfinished : p < o})]

\* The reconciled records, when sequences are handed out from base in id order.
reconcile_unfinished(o, base) ==
    [files[o] EXCEPT
        !.status = "unknown",
        !.seq = base + Cardinality({p \in LoadedUnfinished : p < o})]

\* Mutant: only what this start reconciled is blocked again.
reconcile_NewOnly(recs) ==
    [k \in Keys |-> {o \in LoadedUnfinished :
        KeyOf[files[o].req] = k /\ blocks_writes(recs[o])}]

\* The blocks a start derives from the records it loaded and reconciled.
reconcile(recs) ==
    [k \in Keys |-> {o \in index.ids :
        KeyOf[files[o].req] = k /\ blocks_writes(recs[o])}]

\* Journal::open, Recovery::reconcile and the engine's id seed, before the
\* service answers anything.
Restart ==
    /\ ~up
    /\ up' = TRUE
    /\ \E base \in LoadedSeqs :
        /\ IsMaximum(base, LoadedSeqs)
        /\ records' = [o \in Ids |-> IF o \in LoadedUnfinished
                                     THEN reconcile_unfinished(o, base) ELSE load[o]]
        /\ files' = [o \in Ids |-> IF o \in LoadedUnfinished
                                   THEN reconcile_unfinished(o, base) ELSE files[o]]
        /\ nextSeq' = base + Cardinality(LoadedUnfinished)
    /\ index' = IF LoadedUnfinished = {} THEN index
                ELSE [ids |-> index.ids, next |-> nextSeq']
    /\ blocks' = reconcile(records')
    /\ nextOp' \in 0..MaxOps /\ next_operation_seed(nextOp')
    /\ UNCHANGED <<queueVars, calls, tasks, snaps, history, bounds>>

\* The start dies (or fails a write) part way through reconciliation.
RestartInterrupted ==
    /\ ~up
    /\ crashes < MaxCrashes
    /\ crashes' = crashes + 1
    /\ \E base \in LoadedSeqs, last \in LoadedUnfinished :
        /\ IsMaximum(base, LoadedSeqs)
        /\ files' = [o \in Ids |-> IF o \in LoadedUnfinished /\ o <= last
                                   THEN reconcile_unfinished(o, base) ELSE files[o]]
    /\ UNCHANGED <<up, records, nextSeq, index, blocks, queueVars, nextOp, calls, tasks,
                   snaps, history, faults>>

---------------------------------------------------------------------------
CallStep(c) ==
    \/ ContextRefused(c) \/ ContextPassed(c)
    \/ append(c) \/ AppendFailed(c) \/ AppendIndexFailed(c)
    \/ enqueue(c) \/ EnqueueRefused(c) \/ finish_without_start(c) \/ pump(c)
    \/ mark_cancelled(c) \/ RewriteFailed(c)
    \/ acknowledge(c) \/ AcknowledgeFailed(c) \/ AcknowledgeIndexFailed(c)
    \/ AcknowledgeRefused(c)

TaskStep(o) ==
    \/ mark_started(o) \/ MarkStartedFailed(o) \/ RunEffect(o)
    \/ finish(o) \/ FinishFailed(o) \/ block(o) \/ release(o)

Next ==
    \/ \E c \in Callers, r \in Requests : SubmitKnown(c, r) \/ SubmitNew(c, r)
    \/ \E c \in Callers, o \in Ids : cancel(c, o) \/ resolve_block(c, o)
    \/ \E c \in Callers : CallStep(c)
    \/ \E o \in Ids : TaskStep(o)
    \/ \E k \in Keys : ReadSnapshot(k)
    \/ Crash \/ Restart \/ RestartInterrupted

Spec == Init /\ [][Next]_vars

\* Tokio runs every task and every call that can go on.  Requests, cancellations,
\* faults and restarts are up to others.
Fairness ==
    /\ \A c \in Callers : WF_vars(CallStep(c))
    /\ \A o \in Ids : WF_vars(TaskStep(o))

FairSpec == Spec /\ Fairness

---------------------------------------------------------------------------
(* Properties.                                                             *)

TypeOK ==
    /\ up \in BOOLEAN
    /\ records \in [Ids -> Record] /\ files \in [Ids -> Record]
    /\ nextSeq \in Nat
    /\ index \in [ids : SUBSET Ids, next : Nat]
    /\ blocks \in [Keys -> SUBSET Ids] /\ snaps \in [Keys -> SUBSET Ids]
    /\ arrival \in [Ids -> Nat] /\ arrivals \in Nat
    /\ running \subseteq Ids
    /\ nextOp \in 0..MaxOps
    /\ calls \in [Callers -> Call] /\ tasks \in [Ids -> TaskPc]
    /\ ran \in [Ids -> Nat]
    /\ answered \in [Ids -> SUBSET Answers] /\ lifted \subseteq Keys
    /\ crashes \in Nat /\ faults \in Nat

\* The engine never races itself (queue.rs: "one writer per write key"): two
\* run_ticket tasks that are alive at once are on different repositories, from
\* the spawn to the drop of the slot guard.
OneWriterPerKey ==
    \A o, p \in Ids :
        tasks[o] # "none" /\ tasks[p] # "none" /\ o # p => KeyAt(o) # KeyAt(p)

\* Git never runs for an operation a restart could not see (mod.rs run_ticket:
\* "`running` on disk, then the effect"): once Git was started, the record the
\* next start loads says so, whatever crashed or failed to be written since,
\* and it never reads accepted or cancelled.
EffectIsOnRecord ==
    \A o \in Ids : ran[o] > 0 =>
        o \in index.ids /\ files[o].status \in {"running"} \cup Outcomes

\* Nothing is retried (recovery.rs: "never retried"): Git is started at most
\* once per operation id, over all restarts of the process.
EffectAtMostOnce == \A o \in Ids : ran[o] <= 1

\* The process never answers from a state the disk does not hold: after every
\* mix of failed writes, what memory says of an operation is what its file
\* says, and memory knows every operation the index names.
MemoryIsDurable ==
    up => /\ \A o \in Known(records) : files[o] = records[o]
          /\ index.ids \subseteq Known(records)

\* The counter seeded at a start (mod.rs next_operation_seed) never mints an id
\* the journal already holds: append's collision refusal is never met.
FreshIds ==
    \A c \in Callers : calls[c].pc = "append" =>
        /\ records[calls[c].op].status = "none"
        /\ \A d \in Callers \ {c} : calls[d].pc = "append" => calls[d].op # calls[c].op

\* A retry after an answer is a duplicate (mod.rs submit): the operation a
\* client was told was accepted has a record every later start will load, for
\* the same client request.  A client that was only told of a duplicate has no
\* such promise: after AppendIndexFailed memory answers for a record that no
\* later start finds.
AnsweredSurvives ==
    \A o \in Ids : "accepted" \in answered[o] =>
        o \in index.ids /\ (up => o \in find_client_request(files[o].req))

\* The block on an outcome nobody established is not forgotten (recovery.rs):
\* unless a person lifted the key's block in this process, an unconfirmed
\* unknown record keeps its key blocked, over any number of restarts; the one
\* gap is run_ticket between its journal and its block.  What was accepted or
\* has read the block before goes on all the same (BlockedAcceptsNothing).
UncertainStaysBlocked ==
    \A o \in Known(records) :
        records[o].status = "unknown" /\ ~records[o].acked =>
            \/ blocks[KeyAt(o)] # {}
            \/ KeyAt(o) \in lifted
            \/ tasks[o] = "block"

\* A published outcome is final (journal.rs: "never rewritten"): a terminal
\* status on disk never changes and a confirmation is never withdrawn.
OutcomeIsFinal ==
    [][ \A o \in index.ids :
        /\ files[o].status \in Terminal => files'[o].status = files[o].status
        /\ files[o].acked => files'[o].acked
        /\ o \in index.ids' ]_vars

\* The journal's files, read through the index, are an operation ledger.
Ledger == INSTANCE OperationLedger WITH
    Ops <- Ids,
    status <- [o \in Ids |-> IF o \in index.ids THEN files[o].status ELSE "none"],
    touched <- {o \in Ids : ran[o] > 0}

\* Every step of the engine, crashes and failed writes included, is a step the
\* ledger allows or leaves it alone.
ImplementsLedger == Ledger!Spec

\* A slot is always given back (mod.rs QueueSlot: "whatever happened"): every
\* ticket the pass started leaves the queue's running set, by its outcome, a
\* failed write, a panic or a crash.
SlotIsReleased == \A o \in Ids : o \in running ~> o \notin running

\* A caller gets an answer: no call is left waiting on the engine.
CallReturns == \A c \in Callers : calls[c].pc # "idle" ~> calls[c].pc = "idle"

---------------------------------------------------------------------------
(* What the repository says and the code does not do; one run each shows   *)
(* the counterexample.                                                     *)

\* A queued write is started once the writes before it finished, without
\* waiting for somebody to submit another request.
QueuedIsStarted == \A o \in Ids : arrival[o] > 0 ~> arrival[o] = 0

\* A retry never becomes a second write: Git is not started for two operations
\* of one request.
RetryIsNotASecondWrite ==
    \A o, p \in Known(records) :
        ran[o] > 0 /\ ran[p] > 0 /\ records[o].req = records[p].req => o = p

\* "A repository an unresolved operation touched accepts nothing until someone
\* confirms its state" (the header of mod.rs): no request passes its
\* preconditions while its repository is blocked.
BlockedAcceptsNothing ==
    [][ \A c \in Callers :
        calls[c].pc = "context" /\ calls'[c].pc = "append" =>
            blocks[KeyOf[calls[c].req]] = {} ]_vars

\* The process that watched an operation end and the one that starts
\* afterwards agree on what blocks: a settled record blocks_writes only if its
\* key is blocked (or a person lifted that block).
BlockRuleAgrees ==
    \A o \in Known(records) :
        blocks_writes(records[o]) /\ tasks[o] = "none" =>
            blocks[KeyAt(o)] # {} \/ KeyAt(o) \in lifted

\* An operation refused because the journal could not record it is not later
\* answered to the same client as an accepted one.
RefusedIsNotAccepted ==
    \A o \in Ids : ~({"refused", "duplicate"} \subseteq answered[o])
=============================================================================
