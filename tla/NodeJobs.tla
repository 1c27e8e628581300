------------------------------ MODULE NodeJobs ------------------------------
(***************************************************************************)
(* The Node host's write path: createJobEngine, createJournalStore,        *)
(* createRecovery and the retention rule                                   *)
(* (packages/host-node/src/coordinator/{jobs,submit}.ts,                   *)
(* journal/{store,recovery,retention}.ts), with crashes, torn writes,      *)
(* failing I/O and a journal at its size limit.                            *)
(*                                                                         *)
(* One JavaScript thread: an action is what runs between two awaits.  The  *)
(* journal is a file of one line per transition; the last line of an       *)
(* operation wins.  Sizes are counted in lines.  An append that finds the  *)
(* file over its limit first compacts it, which takes several awaits       *)
(* during which other appends run.                                         *)
(*                                                                         *)
(* The TTL of a record is the set expired; all requests come from one      *)
(* actor (Queue has several).  The sequence numbers of records only sort   *)
(* lists and are left out.  Two compactions never write the copy at the    *)
(* same instant: each writes all of it in one step.                        *)
(***************************************************************************)
EXTENDS Naturals, FiniteSets, Sequences, SequencesExt

CONSTANTS Callers,           \* concurrent submit calls
          Requests,          \* distinct requests
          NoReq,             \* not a request
          Keys,              \* write keys
          KeyOf,             \* [Requests -> Keys]
          CridOf,            \* [Requests -> client request ids]
          Outcomes,          \* what effects report; the engine treats all alike
          MaxQueuedPerActor, MaxGitProcesses,
          MaxLookup,         \* LIMITS.idempotencyMaxEntries
          MaxLines,          \* retention.maxBytes, in lines
          MaxOps,            \* bound: operation ids
          MaxCrashes,        \* bound: crashes
          MaxFaults          \* bound: failing file operations

ASSUME NodeAssumption ==
    /\ NoReq \notin Requests
    /\ KeyOf \in [Requests -> Keys]
    /\ Outcomes \subseteq {"succeeded", "failed", "needsAttention", "unknown"}
    /\ {MaxQueuedPerActor, MaxGitProcesses, MaxLookup, MaxLines, MaxOps, MaxCrashes, MaxFaults}
         \subseteq Nat

VARIABLES
    up,        \* "down", "recovering", "up", or "refused": load threw
    \* the journal
    file,      \* the lines of journal.jsonl
    torn,      \* its last line has no newline
    tmp,       \* journal.jsonl.compact, NoFile or the records in it
    entries,   \* the map in memory: [Ids -> Record]
    bytes,     \* what the store believes the file holds
    expired,   \* finished operations whose TTL has passed
    \* appends in flight, at most one per operation
    io,        \* [Ids -> IoPc]
    writing,   \* [Ids -> the record being appended]
    kept,      \* [Ids -> the records its compaction keeps]
    \* the engine
    calls,     \* [Callers -> the request whose preconditions are awaited]
    job,       \* [Ids -> JobPc]
    pending,   \* the queue's tickets, in order
    running,   \* the tickets holding a slot
    pumpDue,   \* a setImmediate(pump) is scheduled
    blocks,    \* keys blocked by recovery
    toRecover, \* what recovery.run still has to reconcile
    \* history and bounds
    minted, lost, crashes, faults

\* lost: the operations whose record a compaction overwrote, a torn tail swallowed, or
\* a failed append left on file in part.

journalVars == <<file, torn, tmp, entries, bytes, expired>>
ioVars == <<io, writing, kept>>
queueVars == <<pending, running, pumpDue>>
recoveryVars == <<up, blocks, toRecover, crashes>>
vars == <<journalVars, ioVars, calls, job, queueVars, recoveryVars, minted, lost, faults>>

Ids == 1..MaxOps
Unfinished == {"accepted", "running"}
Terminal == {"succeeded", "failed", "needsAttention", "unknown", "cancelled"}
Record == [status : {"none"} \cup Unfinished \cup Terminal, req : Requests \cup {NoReq}]
NoRecord == [status |-> "none", req |-> NoReq]
Empty == [o \in Ids |-> NoRecord]
Line == [op : Ids, rec : Record] \cup {[op |-> 0, rec |-> NoRecord]}
Unreadable == [op |-> 0, rec |-> NoRecord]
NoFile == <<>>                  \* not a function on Ids

Known(recs) == {o \in Ids : recs[o].status # "none"}
unfinished(recs) == {o \in Ids : recs[o].status \in Unfinished}
KeyAt(recs, o) == KeyOf[recs[o].req]

\* The places of append; from "written" or "full" its caller goes on, from "failed" it
\* hears of the failure.
IoPc == {"none", "compact", "rename", "renamed", "write", "written", "full", "failed"}
JobPc == {"none", "accept", "reject", "start", "effect", "finish", "cancel"}

Init ==
    /\ up = "up"
    /\ file = <<>> /\ torn = FALSE /\ tmp = NoFile
    /\ entries = Empty /\ bytes = 0 /\ expired = {}
    /\ io = [o \in Ids |-> "none"]
    /\ writing = Empty
    /\ kept = [o \in Ids |-> Empty]
    /\ calls = [c \in Callers |-> [req |-> NoReq, blocked |-> FALSE]]
    /\ job = [o \in Ids |-> "none"]
    /\ pending = <<>> /\ running = {} /\ pumpDue = FALSE
    /\ blocks = {} /\ toRecover = {}
    /\ minted = 0 /\ lost = {} /\ crashes = 0 /\ faults = 0

---------------------------------------------------------------------------
(* The journal file.                                                       *)

\* load: the last readable line of each operation.
Loaded(f) ==
    [o \in Ids |->
        LET at == {i \in DOMAIN f : f[i].op = o} IN
        IF at = {} THEN NoRecord
        ELSE f[CHOOSE i \in at : \A j \in at : j <= i].rec]

\* Only the last of the file's pieces between newlines may be unreadable, or
\* the one before it (which is the last line when the file ends in a newline).
Readable(f, unterminated) ==
    \A i \in DOMAIN f : f[i] = Unreadable =>
        i >= Len(f) - (IF unterminated THEN 1 ELSE 0)

\* Every terminal record may go once its TTL has passed, unknown ones too.
mayPruneRecord(recs, o) == recs[o].status \in Terminal /\ o \in expired

Prunable(recs) == {o \in Known(recs) : mayPruneRecord(recs, o)}
Keep(recs) == [o \in Ids |-> IF o \in Prunable(recs) THEN NoRecord ELSE recs[o]]

\* The operations whose record differs after a compaction, pruned ones apart.
Destroyed(before, after) ==
    {o \in Ids : before[o] # after[o] /\ (after[o] = NoRecord => o \notin Prunable(before))}

\* The lines compact writes, one per kept record.  The model orders them by id: no two
\* are about one operation, so their order tells nothing.
Rank(recs, o) == Cardinality({p \in Known(recs) : p <= o})
LinesOf(recs) ==
    [i \in 1 .. Cardinality(Known(recs)) |->
        LET o == CHOOSE p \in Known(recs) : Rank(recs, p) = i
        IN  [op |-> o, rec |-> recs[o]]]

\* appendFile: after an unterminated line the two become one unreadable line.
Appended(o, rec) ==
    IF torn THEN [file EXCEPT ![Len(file)] = Unreadable]
    ELSE Append(file, [op |-> o, rec |-> rec])

\* What one more line destroys on a torn tail.
GluedWith(o) == IF torn THEN {o} \cup ({file[Len(file)].op} \cap Ids) ELSE {}

Full == bytes + 1 > MaxLines

\* The first synchronous part of append, for the operations S and their new
\* records: the write, a compaction of what memory holds now, or the refusal.
AppendPhase == IF ~Full THEN "write" ELSE IF Prunable(entries) = {} THEN "full" ELSE "compact"
append(S, recs) ==
    /\ io' = [o \in Ids |-> IF o \in S THEN AppendPhase' ELSE io[o]]
    /\ writing' = [o \in Ids |-> IF o \in S THEN recs[o] ELSE writing[o]]
    /\ kept' = [o \in Ids |-> IF o \in S /\ Full' THEN Keep(entries)' ELSE kept[o]]

\* Mutant: memory takes a refused record too.
Store_EvenRefused(o) ==
    /\ io[o] \in {"written", "full"}
    /\ entries' = [entries EXCEPT ![o] = writing[o]]
    /\ bytes' = bytes + 1
    /\ expired' = expired \ {o}
    /\ UNCHANGED <<file, torn, tmp>>

\* The last part of append: memory follows the file, unless it was refused.
Store(o) ==
    /\ io[o] \in {"written", "full"}
    /\ IF io[o] = "full" THEN UNCHANGED <<entries, bytes, expired>>
       ELSE /\ entries' = [entries EXCEPT ![o] = writing[o]]
            /\ bytes' = bytes + 1
            /\ expired' = expired \ {o}
    /\ UNCHANGED <<file, torn, tmp>>

\* transition: the operation's own append under a new status.
transition(o, status) == append({o}, [writing EXCEPT ![o].status = status])

---------------------------------------------------------------------------
(* submit                                                                  *)

\* The records the lookup sees: the newest, up to its limit (any, as far as the model
\* tells).
Looked(recs) ==
    {seen \in SUBSET Known(recs) :
        Cardinality(seen) = Min({MaxLookup, Cardinality(Known(recs))})}

\* The client request id is known (the record answers, or a conflict does), or
\* the kind or target is refused: nothing changes.  Otherwise the block is read
\* and the facts are awaited.
Submit(c, r) ==
    /\ up = "up" /\ calls[c].req = NoReq
    /\ \E seen \in Looked(entries) : \A o \in seen : CridOf[entries[o].req] # CridOf[r]
    /\ calls' = [calls EXCEPT ![c] = [req |-> r, blocked |-> KeyOf[r] \in blocks]]
    /\ UNCHANGED <<journalVars, ioVars, job, queueVars, recoveryVars, minted, lost, faults>>

Return(c) == calls' = [calls EXCEPT ![c] = [req |-> NoReq, blocked |-> FALSE]]

\* checkPreconditions refused: the block that was read, or any other fact.
SubmitRefused(c) ==
    /\ calls[c].req # NoReq
    /\ Return(c)
    /\ UNCHANGED <<journalVars, ioVars, job, queueVars, recoveryVars, minted, lost, faults>>

\* The preconditions held: an id is minted and `accepted` is appended.
SubmitPassed(c) ==
    /\ calls[c].req # NoReq /\ ~calls[c].blocked
    /\ minted < MaxOps
    /\ UNCHANGED journalVars
    /\ minted' = minted + 1
    /\ append({minted + 1}, [entries EXCEPT ![minted + 1] =
                                 [status |-> "accepted", req |-> calls[c].req]])
    /\ job' = [job EXCEPT ![minted + 1] = "accept"]
    /\ Return(c)
    /\ UNCHANGED <<queueVars, recoveryVars, lost, faults>>

---------------------------------------------------------------------------
(* compact, and the append that waits for it                               *)

CompactWrite(o) ==
    /\ io[o] = "compact"
    /\ tmp' = kept[o]
    /\ io' = [io EXCEPT ![o] = "rename"]
    /\ UNCHANGED <<file, torn, entries, bytes, expired, writing, kept, calls, job, queueVars,
                   recoveryVars, minted, lost, faults>>

\* The file becomes what the temporary holds: lines appended since that was
\* computed are gone.
CompactRename(o) ==
    /\ io[o] = "rename" /\ tmp # NoFile
    /\ file' = LinesOf(tmp) /\ torn' = FALSE /\ tmp' = NoFile
    /\ io' = [io EXCEPT ![o] = "renamed"]
    /\ lost' = lost \cup Destroyed(Loaded(file), tmp)
    /\ UNCHANGED <<entries, bytes, expired, writing, kept, calls, job, queueVars, recoveryVars,
                   minted, faults>>

\* entries.clear() and the kept records; then the size is looked at again.
CompactDone(o) ==
    LET size == Cardinality(Known(kept[o])) IN
    /\ io[o] = "renamed"
    /\ entries' = kept[o]
    /\ bytes' = size
    /\ lost' = lost \cup Destroyed(entries, kept[o])
    /\ kept' = [kept EXCEPT ![o] = Empty]
    /\ io' = [io EXCEPT ![o] = IF size + 1 > MaxLines THEN "full" ELSE "write"]
    /\ UNCHANGED <<file, torn, tmp, expired, writing, calls, job, queueVars, recoveryVars,
                   minted, faults>>

\* Mutant: the write is not awaited, and the crash comes first.
AppendWrite_Buffered(o) ==
    /\ io[o] = "write"
    /\ io' = [io EXCEPT ![o] = "written"]
    /\ UNCHANGED <<journalVars, writing, kept, calls, job, queueVars, recoveryVars, minted, lost,
                   faults>>

AppendWrite(o) ==
    /\ io[o] = "write"
    /\ file' = Appended(o, writing[o]) /\ torn' = FALSE
    /\ lost' = lost \cup GluedWith(o)
    /\ io' = [io EXCEPT ![o] = "written"]
    /\ UNCHANGED <<tmp, entries, bytes, expired, writing, kept, calls, job, queueVars,
                   recoveryVars, minted, faults>>

\* The caller's continuation: its append is over.
Over(o, pc) == job[o] = pc /\ Store(o)
Idle(o) == io' = [io EXCEPT ![o] = "none"]

---------------------------------------------------------------------------
(* The queue and the tasks it starts.                                      *)

\* Mutant: the pass does not look for a running writer.
Considered_AnyKey(s, o) ==
    IF Cardinality(s.running) >= MaxGitProcesses THEN [s EXCEPT !.pending = Append(@, o)]
    ELSE IF entries'[o] = NoRecord THEN s
    ELSE [s EXCEPT !.running = @ \cup {o}]

\* canStart and start for one ticket: it keeps its place, or its record is gone and
\* it is released at once, or it runs.
Considered(s, o) ==
    IF \/ Cardinality(s.running) >= MaxGitProcesses
       \/ KeyAt(writing, o) \in {KeyAt(writing, p) : p \in s.running}
    THEN [s EXCEPT !.pending = Append(@, o)]
    ELSE IF entries'[o] = NoRecord THEN s
    ELSE [s EXCEPT !.running = @ \cup {o}]

\* queue.run: one pass in order.
Pass(queue) ==
    LET after[i \in 0 .. Len(queue)] ==
            IF i = 0 THEN [pending |-> <<>>, running |-> running]
            ELSE Considered(after[i - 1], queue[i])
    IN  after[Len(queue)]

\* pump on the given queue: each started ticket appends `running`.  done is the
\* operation whose append ended in this step.
pump(queue, done) ==
    LET after == Pass(queue)
        started == after.running \ running IN
    /\ pending' = after.pending
    /\ running' = after.running
    /\ job' = [o \in Ids |-> IF o \in started THEN "start" ELSE IF o \in done THEN "none" ELSE job[o]]
    /\ io' = [o \in Ids |-> IF o \in started THEN AppendPhase' ELSE IF o \in done THEN "none" ELSE io[o]]
    /\ writing' = [o \in Ids |-> IF o \in started THEN [entries'[o] EXCEPT !.status = "running"]
                                                  ELSE writing[o]]
    /\ kept' = [o \in Ids |-> IF o \in started /\ Full' THEN Keep(entries)' ELSE kept[o]]

HasRoom == Len(pending) < MaxQueuedPerActor

\* `accepted` is on disk: the ticket is queued and the queue is pumped.
Enqueue(o) ==
    /\ io[o] = "written" /\ HasRoom
    /\ Over(o, "accept")
    /\ pump(Append(pending, o), {o})
    /\ UNCHANGED <<calls, pumpDue, recoveryVars, minted, lost, faults>>

\* The queue is full: the record becomes `failed`.
EnqueueRefused(o) ==
    /\ io[o] = "written" /\ ~HasRoom
    /\ Over(o, "accept")
    /\ transition(o, "failed")
    /\ job' = [job EXCEPT ![o] = "reject"]
    /\ UNCHANGED <<calls, queueVars, recoveryVars, minted, lost, faults>>

\* submit or cancel returns: the journal was full, or the record is written.
Answered(o) ==
    /\ job[o] \in {"accept", "reject", "cancel"}
    /\ job[o] = "accept" => io[o] = "full"
    /\ Store(o)
    /\ Idle(o)
    /\ job' = [job EXCEPT ![o] = "none"]
    /\ UNCHANGED <<writing, kept, calls, queueVars, recoveryVars, minted, lost, faults>>

\* Git is started: `running` is on disk, or could not be written.
RunEffect(o) ==
    /\ Over(o, "start")
    /\ Idle(o)
    /\ job' = [job EXCEPT ![o] = "effect"]
    /\ UNCHANGED <<writing, kept, calls, queueVars, recoveryVars, minted, lost, faults>>

\* The effect reports its outcome; one that throws is unknown.
EffectEnds(o) ==
    /\ job[o] = "effect"
    /\ UNCHANGED journalVars
    /\ \E outcome \in Outcomes : transition(o, outcome)
    /\ job' = [job EXCEPT ![o] = "finish"]
    /\ UNCHANGED <<calls, queueVars, recoveryVars, minted, lost, faults>>

\* Mutant: the queue is not pumped when a job ends.
Finish_NoPump(o) ==
    /\ Over(o, "finish")
    /\ Idle(o)
    /\ running' = running \ {o}
    /\ job' = [job EXCEPT ![o] = "none"]
    /\ UNCHANGED <<writing, kept, calls, pending, pumpDue, recoveryVars, minted, lost, faults>>

\* The slot is released and a pump is scheduled, whether the outcome could be
\* written or not.
Finish(o) ==
    /\ Over(o, "finish")
    /\ Idle(o)
    /\ running' = running \ {o}
    /\ pumpDue' = TRUE
    /\ job' = [job EXCEPT ![o] = "none"]
    /\ UNCHANGED <<writing, kept, calls, pending, recoveryVars, minted, lost, faults>>

Pump ==
    /\ pumpDue
    /\ UNCHANGED journalVars
    /\ pumpDue' = FALSE
    /\ pump(pending, {})
    /\ UNCHANGED <<calls, recoveryVars, minted, lost, faults>>

\* cancel: answered at once, its append is not awaited.
Cancel(o) ==
    /\ entries[o].status = "accepted"
    /\ UNCHANGED journalVars
    /\ \E i \in DOMAIN pending : pending[i] = o /\ pending' = RemoveAt(pending, i)
    /\ transition(o, "cancelled")
    /\ job' = [job EXCEPT ![o] = "cancel"]
    /\ UNCHANGED <<calls, running, pumpDue, recoveryVars, minted, lost, faults>>

\* The TTL of a finished operation passes: a day, longer than any file
\* operation.
Expire(o) ==
    /\ up = "up" /\ o \notin expired
    /\ \A p \in Ids : io[p] = "none"
    /\ entries[o].status \in Terminal
    /\ expired' = expired \cup {o}
    /\ UNCHANGED <<file, torn, tmp, entries, bytes, ioVars, calls, job, queueVars, recoveryVars,
                   minted, lost, faults>>

---------------------------------------------------------------------------
(* Failing I/O, crash and restart.                                         *)

\* What is left of a write that was cut off, besides nothing at all: part of its line,
\* or the line without its newline.
Torn(o, rec) ==
    {IF torn THEN Appended(o, rec) ELSE Append(file, Unreadable), Appended(o, rec)}

CutOff(o, rec) == torn' = TRUE /\ file' \in Torn(o, rec)

Down ==
    /\ up' = "down"
    /\ entries' = Empty /\ bytes' = 0
    /\ io' = [o \in Ids |-> "none"] /\ writing' = Empty /\ kept' = [o \in Ids |-> Empty]
    /\ calls' = [c \in Callers |-> [req |-> NoReq, blocked |-> FALSE]]
    /\ job' = [o \in Ids |-> "none"]
    /\ pending' = <<>> /\ running' = {} /\ pumpDue' = FALSE
    /\ blocks' = {} /\ toRecover' = {}
    /\ UNCHANGED <<expired, minted, tmp>>

\* The record recovery gives an operation it found unfinished.
Reconciled(o) == [entries[o] EXCEPT !.status = "unknown"]

\* The write that is under way is cut off: one of an append, or recovery's.
Crash ==
    /\ up \in {"up", "recovering"} /\ crashes < MaxCrashes
    /\ crashes' = crashes + 1
    /\ \/ UNCHANGED <<file, torn, lost>>
       \/ \E o \in Ids :
             /\ \/ io[o] = "write" /\ CutOff(o, writing[o])
                \/ o \in toRecover /\ ~Full /\ CutOff(o, Reconciled(o))
             /\ lost' = lost \cup GluedWith(o)
    /\ Down
    /\ UNCHANGED faults

\* A write fails when part of it is in the file.
AppendCut(o) ==
    /\ io[o] = "write" /\ faults < MaxFaults
    /\ faults' = faults + 1
    /\ CutOff(o, writing[o])
    /\ lost' = lost \cup GluedWith(o) \cup {o}
    /\ io' = [io EXCEPT ![o] = "failed"]
    /\ UNCHANGED <<tmp, entries, bytes, expired, writing, kept, calls, job, queueVars,
                   recoveryVars, minted>>

\* A file operation rejects: submit answers with an error; anywhere else the
\* rejection is unhandled and ends the process (one that fails a start ends it as a
\* crash does).  rename also rejects when another compaction has already moved the
\* temporary.
IoFails(o) ==
    /\ \/ io[o] = "failed" /\ UNCHANGED faults
       \/ io[o] = "rename" /\ tmp = NoFile /\ UNCHANGED faults
       \/ /\ io[o] \in {"compact", "rename", "write"}
          /\ faults < MaxFaults /\ faults' = faults + 1
    /\ IF job[o] \in {"accept", "reject"}
       THEN /\ Idle(o)
            /\ job' = [job EXCEPT ![o] = "none"]
            /\ UNCHANGED <<journalVars, writing, kept, calls, queueVars, recoveryVars, minted, lost>>
       ELSE /\ Down
            /\ UNCHANGED <<file, torn, lost, crashes>>

\* load, or the refusal to interpret the file.
Restart ==
    /\ up = "down"
    /\ IF Readable(file, torn)
       THEN /\ up' = "recovering"
            /\ entries' = Loaded(file)
            /\ bytes' = Len(file)
            /\ toRecover' = unfinished(Loaded(file))
       ELSE /\ up' = "refused"
            /\ UNCHANGED <<entries, bytes, toRecover>>
    /\ UNCHANGED <<file, torn, tmp, expired, ioVars, calls, job, queueVars, blocks, crashes, minted,
                   lost, faults>>

\* Mutant: the block is under the operation's id.
Blocked_Operation(o) == blocks \cup {o}

Blocked(o) == blocks \cup {KeyAt(entries, o)}

\* The compaction before one of recovery's appends; nothing else runs, so it is one step.
RecoverCompacts ==
    /\ up = "recovering" /\ toRecover # {}
    /\ Full /\ Prunable(entries) # {}
    /\ entries' = Keep(entries)
    /\ bytes' = Cardinality(Known(Keep(entries)))
    /\ file' = LinesOf(Keep(entries)) /\ torn' = FALSE /\ tmp' = NoFile
    /\ UNCHANGED <<expired, ioVars, calls, job, queueVars, recoveryVars, minted, lost, faults>>

\* recovery.run: `unknown` is appended, a refusal is ignored, and the key is blocked
\* either way.
Recover(o) ==
    /\ up = "recovering" /\ o \in toRecover
    /\ ~Full \/ Prunable(entries) = {}
    /\ toRecover' = toRecover \ {o}
    /\ blocks' = Blocked(o)
    /\ IF Full THEN UNCHANGED <<file, torn, entries, bytes, lost, expired>>
       ELSE /\ entries' = [entries EXCEPT ![o] = Reconciled(o)]
            /\ bytes' = bytes + 1
            /\ file' = Appended(o, Reconciled(o)) /\ torn' = FALSE
            /\ lost' = lost \cup GluedWith(o)
            /\ expired' = expired \ {o}
    /\ UNCHANGED <<up, tmp, ioVars, calls, job, queueVars, crashes, minted, faults>>

Serve ==
    /\ up = "recovering" /\ toRecover = {}
    /\ up' = "up"
    /\ UNCHANGED <<journalVars, ioVars, calls, job, queueVars, blocks, toRecover, crashes, minted,
                   lost, faults>>

---------------------------------------------------------------------------
Next ==
    \/ \E c \in Callers, r \in Requests : Submit(c, r)
    \/ \E c \in Callers : SubmitRefused(c) \/ SubmitPassed(c)
    \/ \E o \in Ids :
          \/ CompactWrite(o) \/ CompactRename(o) \/ CompactDone(o)
          \/ AppendWrite(o)
          \/ Enqueue(o) \/ EnqueueRefused(o) \/ Answered(o)
          \/ RunEffect(o) \/ EffectEnds(o) \/ Finish(o)
          \/ Cancel(o) \/ Expire(o) \/ AppendCut(o) \/ IoFails(o) \/ Recover(o)
    \/ Pump \/ Crash \/ Restart \/ RecoverCompacts \/ Serve

\* File operations complete, continuations and setImmediate callbacks run, and
\* Git processes end (the runner bounds them).  Nothing else is owed.
Fairness ==
    /\ WF_vars(Pump)
    /\ \A o \in Ids :
        /\ WF_vars(CompactWrite(o)) /\ WF_vars(CompactRename(o)) /\ WF_vars(CompactDone(o))
        /\ WF_vars(AppendWrite(o)) /\ WF_vars(IoFails(o))
        /\ WF_vars(RunEffect(o)) /\ WF_vars(EffectEnds(o)) /\ WF_vars(Finish(o))

Spec == Init /\ [][Next]_vars /\ Fairness

---------------------------------------------------------------------------
TypeOK ==
    /\ up \in {"up", "down", "recovering", "refused"}
    /\ file \in Seq(Line) /\ torn \in BOOLEAN
    /\ tmp = NoFile \/ tmp \in [Ids -> Record]
    /\ {entries, writing} \subseteq [Ids -> Record] /\ kept \in [Ids -> [Ids -> Record]]
    /\ bytes \in Nat
    /\ {expired, running, toRecover, lost} \subseteq SUBSET Ids
    /\ io \in [Ids -> IoPc] /\ job \in [Ids -> JobPc]
    /\ calls \in [Callers -> [req : Requests \cup {NoReq}, blocked : BOOLEAN]]
    /\ pending \in Seq(Ids) /\ pumpDue \in BOOLEAN
    /\ blocks \subseteq Keys
    /\ {minted, crashes, faults} \subseteq Nat

\* This service does not race itself: the operations it runs Git for at one
\* time are of different repositories (queue.ts), across journal appends that
\* fail, records a compaction loses and pumps that overlap.
OneWriterPerKey ==
    \A o, p \in Ids :
        o # p /\ {job[o], job[p]} \subseteq {"start", "effect", "finish"} =>
            KeyAt(writing, o) # KeyAt(writing, p)

\* A crash in the middle of an operation is visible to the next process
\* (jobs.ts pump, store.ts header): while Git runs for an operation the file
\* shows it accepted or running, even when the append of `running` was refused.
\* The exceptions are by name: what a compaction overwrote (RunsOnRecord) and what a
\* torn tail destroyed.
EffectIsVisible ==
    \A o \in Ids : job[o] = "effect" =>
        \/ Loaded(file)[o].status \in Unfinished
        \/ o \in lost

\* Memory, from which requests are answered and the queue is run, is the file's
\* (jobs.ts transition): once no append of an operation is under way they agree on
\* it, but for what is lost.  It says nothing of what was answered before an append
\* was over: see CancelledIsRecorded.
MemoryIsDurable ==
    up = "up" => \A o \in Ids :
        \/ entries[o] = Loaded(file)[o]
        \/ io[o] = "written"
        \/ o \in lost
        \/ \E p \in Ids : io[p] = "renamed" /\ kept[p][o] = NoRecord

\* A crash between `running` and the outcome is visible (store.ts header: "write
\* `running` before Git is started"), whatever is compacted meanwhile: while Git runs
\* for an operation the file shows it accepted or running.
RunsOnRecord ==
    \A o \in Ids : job[o] = "effect" => Loaded(file)[o].status \in Unfinished

\* An operation whose cancellation was answered is cancelled once its append is over
\* (jobs.ts transition: no reader is shown "a state that is not on disk"), unless the
\* process ends first.
CancelledIsRecorded ==
    [][\A o \in Ids :
          job[o] = "cancel" /\ job'[o] = "none" /\ up' = "up"
              => Loaded(file')[o].status = "cancelled"]_vars

\* A queued operation is started or cancelled (jobs.ts: "finishing one job may
\* unblock the next"), unless the process ends first.
QueuedIsStarted ==
    \A o \in Ids : []<>(o \notin ToSet(pending))

\* A torn final line "is discarded on load rather than treated as corruption:
\* that is exactly the case the format has to survive" (store.ts header): a
\* journal that only this service wrote, crashing at any point, can be loaded.
CrashLeavesReadable == up # "refused"
=============================================================================
