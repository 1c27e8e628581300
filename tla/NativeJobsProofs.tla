-------------------------- MODULE NativeJobsProofs --------------------------
(***************************************************************************)
(* Proofs about NativeJobs, for every number of callers, requests, keys,   *)
(* operations, crashes and faults: its invariants, and then that it        *)
(* implements OperationLedger.                                             *)
(***************************************************************************)
EXTENDS NativeJobs, FiniteSetTheorems, TLAPS

\* What a crash leaves of memory.
DownIsEmpty ==
    ~up => /\ records = [o \in Ids |-> NoRecord]
           /\ \A o \in Ids : arrival[o] = 0 /\ tasks[o] = "none"
           /\ running = {}
           /\ \A c \in Callers : calls[c] = Idle

\* A record that exists names a request, in memory and on disk.
RecordsNameRequests ==
    /\ \A o \in Known(records) : records[o].req \in Requests
    /\ \A o \in index.ids : files[o].status # "none" /\ files[o].req \in Requests

\* What a failed index write leaves out of the index is accepted and idle.
UnindexedIsAccepted ==
    \A o \in Known(records) \ index.ids : records[o].status = "accepted"

\* The call's own operation, which nothing else works on.
Owns(c) == calls[c].pc \in {"append", "enqueue", "refuse", "cancel"}

OwnedIsAlone ==
    /\ \A c \in Callers : calls[c].pc \notin {"idle", "context"} => calls[c].op \in Ids
    /\ \A c \in Callers : calls[c].pc \in {"context", "append", "enqueue", "pump"} =>
        calls[c].req \in Requests
    /\ \A c \in Callers : Owns(c) =>
        arrival[calls[c].op] = 0 /\ tasks[calls[c].op] = "none"
    /\ \A c, d \in Callers : Owns(c) /\ Owns(d) /\ calls[c].op = calls[d].op => c = d

\* How far each call's operation has come.
CallStages ==
    \A c \in Callers :
        /\ calls[c].pc = "append" =>
            calls[c].op <= nextOp /\ records[calls[c].op].status = "none"
        /\ calls[c].pc \in {"enqueue", "refuse", "cancel"} =>
            calls[c].op \in index.ids /\ records[calls[c].op].status = "accepted"
        /\ calls[c].pc = "enqueue" => records[calls[c].op].req = calls[c].req
        /\ calls[c].pc = "pump" => calls[c].op \in index.ids

\* What waits is accepted, on disk, and nobody else's.
QueueStages ==
    /\ \A o \in Waiting : /\ o \in index.ids
                          /\ records[o].status = "accepted"
                          /\ tasks[o] = "none"
    /\ \A o \in Ids : arrival[o] <= arrivals
    /\ \A o, p \in Waiting : arrival[o] = arrival[p] => o = p

\* How far each task's operation has come.
TaskStages ==
    \A o \in Ids :
        /\ tasks[o] # "none" <=> o \in running
        /\ tasks[o] # "none" => o \in index.ids /\ records[o].status # "none"
        /\ tasks[o] = "spawned" => records[o].status = "accepted"
        /\ tasks[o] \in {"started", "effect"} => records[o].status = "running"
        /\ tasks[o] = "started" => ran[o] = 0
        /\ tasks[o] = "effect" => ran[o] = 1

\* The id counter is above every known operation.
IdsBelowCounter == \A o \in Known(records) : o <= nextOp

\* What was answered is on disk.
AnsweredOnDisk == \A o \in Ids : "accepted" \in answered[o] => o \in index.ids

\* The inductive invariant.
IInv ==
    /\ TypeOK
    /\ DownIsEmpty
    /\ RecordsNameRequests
    /\ MemoryIsDurable
    /\ UnindexedIsAccepted
    /\ OwnedIsAlone
    /\ CallStages
    /\ QueueStages
    /\ TaskStages
    /\ IdsBelowCounter
    /\ OneWriterPerKey
    /\ EffectIsOnRecord
    /\ EffectAtMostOnce
    /\ AnsweredOnDisk

USE DEF journalVars, queueVars, history, bounds

---------------------------------------------------------------------------
(* One lemma per action: it preserves the inductive invariant.             *)

\* A stored record keeps both journal functions typed.
LEMMA StoredTypes ==
    ASSUME TypeOK, NEW o \in Ids, NEW rec \in Record, Stored(o, rec)
    PROVE records' \in [Ids -> Record] /\ files' \in [Ids -> Record]
  BY DEF TypeOK, Stored

\* So does a status rewrite (journal.rs write_record of a changed record).
LEMMA RewriteTypes ==
    ASSUME TypeOK, NEW o \in Ids, NEW s \in Status, Rewrite(o, s)
    PROVE records' \in [Ids -> Record] /\ files' \in [Ids -> Record]
<1>1. records[o] \in Record
  BY DEF TypeOK
<1>2. [records[o] EXCEPT !.status = s] \in Record
  BY <1>1 DEF Record
<1> QED
  BY <1>2, StoredTypes DEF Rewrite

\* The confirmed record of an acknowledge call is a record.
LEMMA AcknowledgedTypes ==
    ASSUME TypeOK, OwnedIsAlone, NEW c \in Callers, calls[c].pc = "acknowledge"
    PROVE calls[c].op \in Ids /\ Acknowledged(c) \in Record
<1>1. calls[c].op \in Ids
  BY DEF OwnedIsAlone
<1>2. records[calls[c].op] \in Record /\ nextSeq \in Nat
  BY <1>1 DEF TypeOK
<1> QED
  BY <1>1, <1>2 DEF Acknowledged, Record

\* A duplicate is answered from memory: only the answer changes.
LEMMA SubmitKnownStep ==
    ASSUME IInv, NEW c \in Callers, NEW r \in Requests, SubmitKnown(c, r) PROVE IInv'
<1> USE DEF IInv, SubmitKnown
<1>1. TypeOK'
  <2>1. answered' \in [Ids -> SUBSET Answers]
    <3>1. PICK o \in Ids : answered' = answered \/ answered' = Told(o, "duplicate")
      BY DEF find_client_request, Known
    <3>2. CASE answered' = Told(o, "duplicate")
      BY <3>2 DEF TypeOK, Told, Answers
    <3> QED
      BY <3>1, <3>2 DEF TypeOK
  <2> QED
    BY <2>1, JobsAssumption DEF TypeOK
<1>2. (DownIsEmpty /\ RecordsNameRequests /\ MemoryIsDurable /\
   UnindexedIsAccepted /\ OwnedIsAlone /\ CallStages /\ QueueStages /\
   TaskStages /\ IdsBelowCounter /\ OneWriterPerKey /\ EffectIsOnRecord /\
   EffectAtMostOnce)'
  BY DEF DownIsEmpty, RecordsNameRequests, MemoryIsDurable,
     UnindexedIsAccepted, OwnedIsAlone, CallStages, QueueStages, TaskStages,
     IdsBelowCounter, OneWriterPerKey, EffectIsOnRecord, EffectAtMostOnce,
     Known, Owns, Waiting, KeyAt
<1>3. AnsweredOnDisk'
  BY JobsAssumption DEF TypeOK, AnsweredOnDisk, CallStages, MemoryIsDurable,
     DownIsEmpty, Idle, Known, Record, Told
<1> QED
  BY <1>1, <1>2, <1>3

\* A new request reads the block and waits for its context.
LEMMA SubmitNewStep ==
    ASSUME IInv, NEW c \in Callers, NEW r \in Requests, SubmitNew(c, r) PROVE IInv'
<1> USE DEF IInv, SubmitNew
<1>1. TypeOK'
  <2>1. calls' \in [Callers -> Call]
    BY JobsAssumption DEF TypeOK, Call, CallPc, Idle
  <2> QED
    BY <2>1, JobsAssumption DEF TypeOK
<1>2. (RecordsNameRequests /\ MemoryIsDurable /\ UnindexedIsAccepted /\
   QueueStages /\ TaskStages /\ IdsBelowCounter /\ OneWriterPerKey /\
   EffectIsOnRecord /\ EffectAtMostOnce /\ AnsweredOnDisk)'
  BY DEF RecordsNameRequests, MemoryIsDurable, UnindexedIsAccepted,
     QueueStages, TaskStages, IdsBelowCounter, OneWriterPerKey,
     EffectIsOnRecord, EffectAtMostOnce, AnsweredOnDisk, Known, Waiting, KeyAt
<1>3. DownIsEmpty'
  BY JobsAssumption DEF TypeOK, DownIsEmpty, Idle, NoRecord
<1>4. OwnedIsAlone'
  BY JobsAssumption DEF TypeOK, OwnedIsAlone, CallStages, QueueStages,
     IdsBelowCounter, TaskStages, Call, Idle, Owns, Waiting
<1>5. CallStages'
  BY JobsAssumption DEF TypeOK, CallStages, OwnedIsAlone, TaskStages,
     IdsBelowCounter, QueueStages, MemoryIsDurable, DownIsEmpty, Record, Call,
     Idle, Owns, Known, Waiting
<1> QED
  BY <1>1, <1>2, <1>3, <1>4, <1>5

\* A refused context only ends the call.
LEMMA ContextRefusedStep ==
    ASSUME IInv, NEW c \in Callers, ContextRefused(c) PROVE IInv'
<1> USE DEF IInv, ContextRefused, Return
<1>1. TypeOK'
  <2>1. calls' \in [Callers -> Call]
    BY JobsAssumption DEF TypeOK, Call, CallPc, Idle
  <2> QED
    BY <2>1, JobsAssumption DEF TypeOK
<1>2. (RecordsNameRequests /\ MemoryIsDurable /\ UnindexedIsAccepted /\
   QueueStages /\ TaskStages /\ IdsBelowCounter /\ OneWriterPerKey /\
   EffectIsOnRecord /\ EffectAtMostOnce /\ AnsweredOnDisk)'
  BY DEF RecordsNameRequests, MemoryIsDurable, UnindexedIsAccepted,
     QueueStages, TaskStages, IdsBelowCounter, OneWriterPerKey,
     EffectIsOnRecord, EffectAtMostOnce, AnsweredOnDisk, Known, Waiting, KeyAt
<1>3. DownIsEmpty'
  BY JobsAssumption DEF TypeOK, DownIsEmpty, Idle, NoRecord
<1>4. OwnedIsAlone'
  BY JobsAssumption DEF TypeOK, OwnedIsAlone, CallStages, QueueStages,
     IdsBelowCounter, TaskStages, Call, Idle, Owns, Waiting
<1>5. CallStages'
  BY JobsAssumption DEF TypeOK, CallStages, OwnedIsAlone, TaskStages,
     IdsBelowCounter, QueueStages, MemoryIsDurable, DownIsEmpty, Record, Call,
     Idle, Owns, Known, Waiting
<1> QED
  BY <1>1, <1>2, <1>3, <1>4, <1>5

\* The minted id is above every id in use, so the call owns it alone.
LEMMA ContextPassedStep ==
    ASSUME IInv, NEW c \in Callers, ContextPassed(c) PROVE IInv'
<1> DEFINE new == nextOp + 1
<1> USE DEF IInv
<1>1. new \in Ids /\ new \in Nat /\ nextOp \in Nat /\ nextOp < new
  BY JobsAssumption DEF TypeOK, Ids, ContextPassed
<1>2. \A o \in Known(records) : o # new /\ o <= new
  BY <1>1 DEF TypeOK, IdsBelowCounter, Known, Ids
<1>3. records[new].status = "none" /\ arrival[new] = 0 /\ tasks[new] = "none"
  BY <1>1, <1>2 DEF TypeOK, QueueStages, TaskStages, Known, Waiting
<1>4. \A d \in Callers : Owns(d) => calls[d].op # new
  BY <1>1, <1>2 DEF TypeOK, OwnedIsAlone, CallStages, Known, Owns, Ids
<1>5. calls' = [calls EXCEPT ![c].pc = "append", ![c].op = new] /\ nextOp' = new
  BY DEF ContextPassed
<1>6. calls[c].pc = "context" /\ calls[c] \in Call /\ calls[c].req \in Requests
  BY DEF ContextPassed, TypeOK, OwnedIsAlone
<1>7. UNCHANGED <<up, journalVars, blocks, queueVars, tasks, snaps, history, bounds>>
  BY DEF ContextPassed
<1> HIDE DEF new
<1>8. TypeOK'
  <2>1. calls' \in [Callers -> Call]
    BY <1>1, <1>5, <1>6 DEF TypeOK, Call, CallPc
  <2>2. nextOp' \in 0..MaxOps
    BY <1>1, <1>5, JobsAssumption DEF Ids
  <2> QED
    BY <1>7, <2>1, <2>2 DEF TypeOK
<1>9. (RecordsNameRequests /\ MemoryIsDurable /\ UnindexedIsAccepted /\
   QueueStages /\ TaskStages /\ OneWriterPerKey /\ EffectIsOnRecord /\
   EffectAtMostOnce /\ AnsweredOnDisk)'
  BY <1>7 DEF RecordsNameRequests, MemoryIsDurable, UnindexedIsAccepted,
     QueueStages, TaskStages, OneWriterPerKey, EffectIsOnRecord,
     EffectAtMostOnce, AnsweredOnDisk, Known, Waiting, KeyAt
<1>10. DownIsEmpty'
  BY <1>6, <1>7 DEF DownIsEmpty, Idle
<1>11. OwnedIsAlone'
  BY <1>1, <1>3, <1>4, <1>5, <1>6, <1>7 DEF TypeOK, OwnedIsAlone, Owns, Call
<1>12. CallStages'
  <2>1. ASSUME NEW d \in Callers, d # c, calls[d].pc = "append"
        PROVE  calls[d].op <= new
    BY <2>1, <1>1 DEF TypeOK, CallStages, OwnedIsAlone, Ids
  <2> QED
    BY <1>1, <1>3, <1>5, <1>6, <1>7, <2>1 DEF TypeOK, CallStages, Call
<1>13. IdsBelowCounter'
  BY <1>2, <1>5, <1>7 DEF IdsBelowCounter, Known
<1> QED
  BY <1>8, <1>9, <1>10, <1>11, <1>12, <1>13

\* append: the new record reaches memory, its file and the index.
LEMMA AppendStep ==
    ASSUME IInv, NEW c \in Callers, append(c) PROVE IInv'
<1> USE DEF IInv, append, Stored, Accepted, write_index, Goto
<1>1. TypeOK'
  <2>1. records' \in [Ids -> Record] /\ files' \in [Ids -> Record]
    BY JobsAssumption DEF TypeOK, OwnedIsAlone, Record, Status, Terminal,
       Outcomes, Unfinished
  <2>2. index' \in [ids : SUBSET Ids, next : Nat]
    BY JobsAssumption DEF TypeOK, Known, Record
  <2>3. calls' \in [Callers -> Call]
    BY JobsAssumption DEF TypeOK, Call, CallPc, Idle
  <2> QED
    BY <2>1, <2>2, <2>3, JobsAssumption DEF TypeOK
<1>2. EffectAtMostOnce'
  BY DEF EffectAtMostOnce
<1>3. DownIsEmpty'
  BY JobsAssumption DEF TypeOK, DownIsEmpty, Idle, NoRecord
<1>4. RecordsNameRequests'
  BY JobsAssumption DEF TypeOK, RecordsNameRequests, OwnedIsAlone, CallStages,
     MemoryIsDurable, DownIsEmpty, Record, Call, Idle, Known
<1>5. MemoryIsDurable'
  BY JobsAssumption DEF TypeOK, MemoryIsDurable, CallStages, OwnedIsAlone,
     DownIsEmpty, Record, Idle, Known
<1>6. UnindexedIsAccepted'
  BY JobsAssumption DEF TypeOK, UnindexedIsAccepted, CallStages, OwnedIsAlone,
     TaskStages, MemoryIsDurable, Record, Known
<1>7. OwnedIsAlone'
  BY JobsAssumption DEF TypeOK, OwnedIsAlone, CallStages, QueueStages,
     IdsBelowCounter, TaskStages, Call, Idle, Owns, Waiting
<1>8. CallStages'
  BY JobsAssumption DEF TypeOK, CallStages, OwnedIsAlone, TaskStages,
     IdsBelowCounter, QueueStages, MemoryIsDurable, DownIsEmpty, Record, Call,
     Idle, Owns, Known, Waiting
<1>9. QueueStages'
  BY JobsAssumption DEF TypeOK, QueueStages, OwnedIsAlone, CallStages,
     TaskStages, MemoryIsDurable, DownIsEmpty, Record, Call, Idle, Owns,
     Known, Waiting
<1>10. TaskStages'
  BY JobsAssumption DEF TypeOK, TaskStages, OwnedIsAlone, CallStages,
     QueueStages, EffectIsOnRecord, MemoryIsDurable, DownIsEmpty, Record,
     Idle, Owns, Known, Waiting
<1>11. IdsBelowCounter'
  BY JobsAssumption DEF TypeOK, IdsBelowCounter, CallStages, OwnedIsAlone,
     Record, Known
<1>12. OneWriterPerKey'
  BY JobsAssumption DEF TypeOK, OneWriterPerKey, TaskStages, OwnedIsAlone,
     CallStages, Record, KeyAt, Owns
<1>13. EffectIsOnRecord'
  BY JobsAssumption DEF TypeOK, EffectIsOnRecord, TaskStages, CallStages,
     OwnedIsAlone, MemoryIsDurable, DownIsEmpty, Record, Idle, Owns, Known
<1>14. AnsweredOnDisk'
  BY JobsAssumption DEF TypeOK, AnsweredOnDisk, CallStages, MemoryIsDurable,
     DownIsEmpty, Idle, Known, Record
<1> QED
  BY <1>1, <1>2, <1>3, <1>4, <1>5, <1>6, <1>7, <1>8, <1>9, <1>10, <1>11,
     <1>12, <1>13, <1>14

\* append's file write failed: nothing was recorded.
LEMMA AppendFailedStep ==
    ASSUME IInv, NEW c \in Callers, AppendFailed(c) PROVE IInv'
<1> USE DEF IInv, AppendFailed, Fault, Return
<1>1. TypeOK'
  <2>1. calls' \in [Callers -> Call]
    BY JobsAssumption DEF TypeOK, Call, CallPc, Idle
  <2>2. answered' \in [Ids -> SUBSET Answers]
    BY JobsAssumption DEF TypeOK, OwnedIsAlone, Answers, Told
  <2> QED
    BY <2>1, <2>2, JobsAssumption DEF TypeOK
<1>2. (RecordsNameRequests /\ MemoryIsDurable /\ UnindexedIsAccepted /\
   QueueStages /\ TaskStages /\ IdsBelowCounter /\ OneWriterPerKey /\
   EffectIsOnRecord /\ EffectAtMostOnce)'
  BY DEF RecordsNameRequests, MemoryIsDurable, UnindexedIsAccepted,
     QueueStages, TaskStages, IdsBelowCounter, OneWriterPerKey,
     EffectIsOnRecord, EffectAtMostOnce, Known, Waiting, KeyAt
<1>3. DownIsEmpty'
  BY JobsAssumption DEF TypeOK, DownIsEmpty, Idle, NoRecord
<1>4. OwnedIsAlone'
  BY JobsAssumption DEF TypeOK, OwnedIsAlone, CallStages, QueueStages,
     IdsBelowCounter, TaskStages, Call, Idle, Owns, Waiting
<1>5. CallStages'
  BY JobsAssumption DEF TypeOK, CallStages, OwnedIsAlone, TaskStages,
     IdsBelowCounter, QueueStages, MemoryIsDurable, DownIsEmpty, Record, Call,
     Idle, Owns, Known, Waiting
<1>6. AnsweredOnDisk'
  BY JobsAssumption DEF TypeOK, AnsweredOnDisk, CallStages, MemoryIsDurable,
     DownIsEmpty, Idle, Known, Record, Told
<1> QED
  BY <1>1, <1>2, <1>3, <1>4, <1>5, <1>6

\* append's index write failed: the record is known but not indexed.
LEMMA AppendIndexFailedStep ==
    ASSUME IInv, NEW c \in Callers, AppendIndexFailed(c) PROVE IInv'
<1> USE DEF IInv, AppendIndexFailed, Fault, Stored, Accepted, Return
<1>1. TypeOK'
  <2>1. records' \in [Ids -> Record] /\ files' \in [Ids -> Record]
    BY JobsAssumption DEF TypeOK, OwnedIsAlone, Record, Status, Terminal,
       Outcomes, Unfinished
  <2>2. calls' \in [Callers -> Call]
    BY JobsAssumption DEF TypeOK, Call, CallPc, Idle
  <2>3. answered' \in [Ids -> SUBSET Answers]
    BY JobsAssumption DEF TypeOK, OwnedIsAlone, Answers, Told
  <2> QED
    BY <2>1, <2>2, <2>3, JobsAssumption DEF TypeOK
<1>2. EffectAtMostOnce'
  BY DEF EffectAtMostOnce
<1>3. DownIsEmpty'
  BY JobsAssumption DEF TypeOK, DownIsEmpty, Idle, NoRecord
<1>4. RecordsNameRequests'
  BY JobsAssumption DEF TypeOK, RecordsNameRequests, OwnedIsAlone, CallStages,
     MemoryIsDurable, DownIsEmpty, Record, Call, Idle, Known
<1>5. MemoryIsDurable'
  BY JobsAssumption DEF TypeOK, MemoryIsDurable, CallStages, OwnedIsAlone,
     DownIsEmpty, Record, Idle, Known
<1>6. UnindexedIsAccepted'
  BY JobsAssumption DEF TypeOK, UnindexedIsAccepted, CallStages, OwnedIsAlone,
     TaskStages, MemoryIsDurable, Record, Known
<1>7. OwnedIsAlone'
  BY JobsAssumption DEF TypeOK, OwnedIsAlone, CallStages, QueueStages,
     IdsBelowCounter, TaskStages, Call, Idle, Owns, Waiting
<1>8. CallStages'
  BY JobsAssumption DEF TypeOK, CallStages, OwnedIsAlone, TaskStages,
     IdsBelowCounter, QueueStages, MemoryIsDurable, DownIsEmpty, Record, Call,
     Idle, Owns, Known, Waiting
<1>9. QueueStages'
  BY JobsAssumption DEF TypeOK, QueueStages, OwnedIsAlone, CallStages,
     TaskStages, MemoryIsDurable, DownIsEmpty, Record, Call, Idle, Owns,
     Known, Waiting
<1>10. TaskStages'
  BY JobsAssumption DEF TypeOK, TaskStages, OwnedIsAlone, CallStages,
     QueueStages, EffectIsOnRecord, MemoryIsDurable, DownIsEmpty, Record,
     Idle, Owns, Known, Waiting
<1>11. IdsBelowCounter'
  BY JobsAssumption DEF TypeOK, IdsBelowCounter, CallStages, OwnedIsAlone,
     Record, Known
<1>12. OneWriterPerKey'
  BY JobsAssumption DEF TypeOK, OneWriterPerKey, TaskStages, OwnedIsAlone,
     CallStages, Record, KeyAt, Owns
<1>13. EffectIsOnRecord'
  BY JobsAssumption DEF TypeOK, EffectIsOnRecord, TaskStages, CallStages,
     OwnedIsAlone, MemoryIsDurable, DownIsEmpty, Record, Idle, Owns, Known
<1>14. AnsweredOnDisk'
  BY JobsAssumption DEF TypeOK, AnsweredOnDisk, CallStages, MemoryIsDurable,
     DownIsEmpty, Idle, Known, Record, Told
<1> QED
  BY <1>1, <1>2, <1>3, <1>4, <1>5, <1>6, <1>7, <1>8, <1>9, <1>10, <1>11,
     <1>12, <1>13, <1>14

\* The ticket gets the next place, which no other ticket has.
LEMMA EnqueueStep ==
    ASSUME IInv, NEW c \in Callers, enqueue(c) PROVE IInv'
<1> USE DEF IInv, enqueue, Goto
<1>1. TypeOK'
  <2>1. calls' \in [Callers -> Call]
    BY DEF TypeOK, Call, CallPc
  <2>2. arrival' \in [Ids -> Nat]
    BY arrivals + 1 \in Nat DEF TypeOK
  <2> QED
    BY <2>1, <2>2, JobsAssumption DEF TypeOK
<1>2. (RecordsNameRequests /\ MemoryIsDurable /\ UnindexedIsAccepted /\
   TaskStages /\ IdsBelowCounter /\ OneWriterPerKey /\ EffectIsOnRecord /\
   EffectAtMostOnce /\ AnsweredOnDisk)'
  BY DEF RecordsNameRequests, MemoryIsDurable, UnindexedIsAccepted,
     TaskStages, IdsBelowCounter, OneWriterPerKey, EffectIsOnRecord,
     EffectAtMostOnce, AnsweredOnDisk, Known, KeyAt
<1>3. DownIsEmpty'
  BY JobsAssumption DEF TypeOK, DownIsEmpty, Idle, NoRecord
<1>4. OwnedIsAlone'
  BY JobsAssumption DEF TypeOK, OwnedIsAlone, CallStages, QueueStages,
     IdsBelowCounter, TaskStages, Call, Idle, Owns, Waiting
<1>5. CallStages'
  BY JobsAssumption DEF TypeOK, CallStages, OwnedIsAlone, TaskStages,
     IdsBelowCounter, QueueStages, MemoryIsDurable, DownIsEmpty, Record, Call,
     Idle, Owns, Known, Waiting
<1>6. QueueStages'
  BY JobsAssumption DEF TypeOK, QueueStages, OwnedIsAlone, CallStages,
     TaskStages, MemoryIsDurable, DownIsEmpty, Record, Call, Idle, Owns,
     Known, Waiting
<1> QED
  BY <1>1, <1>2, <1>3, <1>4, <1>5, <1>6

\* A full queue leaves the queue alone.
LEMMA EnqueueRefusedStep ==
    ASSUME IInv, NEW c \in Callers, EnqueueRefused(c) PROVE IInv'
<1> USE DEF IInv, EnqueueRefused, Goto
<1>1. TypeOK'
  <2>1. calls' \in [Callers -> Call]
    BY JobsAssumption DEF TypeOK, Call, CallPc, Idle
  <2> QED
    BY <2>1, JobsAssumption DEF TypeOK
<1>2. (RecordsNameRequests /\ MemoryIsDurable /\ UnindexedIsAccepted /\
   QueueStages /\ TaskStages /\ IdsBelowCounter /\ OneWriterPerKey /\
   EffectIsOnRecord /\ EffectAtMostOnce /\ AnsweredOnDisk)'
  BY DEF RecordsNameRequests, MemoryIsDurable, UnindexedIsAccepted,
     QueueStages, TaskStages, IdsBelowCounter, OneWriterPerKey,
     EffectIsOnRecord, EffectAtMostOnce, AnsweredOnDisk, Known, Waiting, KeyAt
<1>3. DownIsEmpty'
  BY JobsAssumption DEF TypeOK, DownIsEmpty, Idle, NoRecord
<1>4. OwnedIsAlone'
  BY JobsAssumption DEF TypeOK, OwnedIsAlone, CallStages, QueueStages,
     IdsBelowCounter, TaskStages, Call, Idle, Owns, Waiting
<1>5. CallStages'
  BY JobsAssumption DEF TypeOK, CallStages, OwnedIsAlone, TaskStages,
     IdsBelowCounter, QueueStages, MemoryIsDurable, DownIsEmpty, Record, Call,
     Idle, Owns, Known, Waiting
<1> QED
  BY <1>1, <1>2, <1>3, <1>4, <1>5

\* The refused operation, still its call's own, becomes failed.
LEMMA FinishWithoutStartStep ==
    ASSUME IInv, NEW c \in Callers, finish_without_start(c) PROVE IInv'
<1> USE DEF IInv, finish_without_start, Rewrite, Stored, Return
<1>1. TypeOK'
  <2>1. records' \in [Ids -> Record] /\ files' \in [Ids -> Record]
    BY RewriteTypes, "failed" \in Status DEF OwnedIsAlone, Status, Terminal, Outcomes
  <2>2. calls' \in [Callers -> Call]
    BY JobsAssumption DEF TypeOK, Call, CallPc, Idle
  <2> QED
    BY <2>1, <2>2, JobsAssumption DEF TypeOK
<1>2. (EffectAtMostOnce /\ AnsweredOnDisk)'
  BY DEF EffectAtMostOnce, AnsweredOnDisk
<1>3. DownIsEmpty'
  BY JobsAssumption DEF TypeOK, DownIsEmpty, Idle, NoRecord
<1>4. RecordsNameRequests'
  BY JobsAssumption DEF TypeOK, RecordsNameRequests, OwnedIsAlone, CallStages,
     MemoryIsDurable, DownIsEmpty, Record, Call, Idle, Known
<1>5. MemoryIsDurable'
  BY JobsAssumption DEF TypeOK, MemoryIsDurable, CallStages, OwnedIsAlone,
     DownIsEmpty, Record, Idle, Known
<1>6. UnindexedIsAccepted'
  BY JobsAssumption DEF TypeOK, UnindexedIsAccepted, CallStages, OwnedIsAlone,
     TaskStages, MemoryIsDurable, Record, Known
<1>7. OwnedIsAlone'
  BY JobsAssumption DEF TypeOK, OwnedIsAlone, CallStages, QueueStages,
     IdsBelowCounter, TaskStages, Call, Idle, Owns, Waiting
<1>8. CallStages'
  BY JobsAssumption DEF TypeOK, CallStages, OwnedIsAlone, TaskStages,
     IdsBelowCounter, QueueStages, MemoryIsDurable, DownIsEmpty, Record, Call,
     Idle, Owns, Known, Waiting
<1>9. QueueStages'
  BY JobsAssumption DEF TypeOK, QueueStages, OwnedIsAlone, CallStages,
     TaskStages, MemoryIsDurable, DownIsEmpty, Record, Call, Idle, Owns,
     Known, Waiting
<1>10. TaskStages'
  BY JobsAssumption DEF TypeOK, TaskStages, OwnedIsAlone, CallStages,
     QueueStages, EffectIsOnRecord, MemoryIsDurable, DownIsEmpty, Record,
     Idle, Owns, Known, Waiting
<1>11. IdsBelowCounter'
  BY JobsAssumption DEF TypeOK, IdsBelowCounter, CallStages, OwnedIsAlone,
     Record, Known
<1>12. OneWriterPerKey'
  BY JobsAssumption DEF TypeOK, OneWriterPerKey, TaskStages, OwnedIsAlone,
     CallStages, Record, KeyAt, Owns
<1>13. EffectIsOnRecord'
  BY JobsAssumption DEF TypeOK, EffectIsOnRecord, TaskStages, CallStages,
     OwnedIsAlone, MemoryIsDurable, DownIsEmpty, Outcomes, Record, Idle, Owns,
     Known
<1> QED
  BY <1>1, <1>2, <1>3, <1>4, <1>5, <1>6, <1>7, <1>8, <1>9, <1>10, <1>11,
     <1>12, <1>13

\* The pass: at most one ticket per key, and none of a busy key.
LEMMA PumpStep ==
    ASSUME IInv, NEW c \in Callers, pump(c) PROVE IInv'
<1> USE DEF IInv, pump, Return, take_startable, Startable, BusyKeys
<1>1. TypeOK'
  <2>1. running' \subseteq Ids
    BY DEF TypeOK, Waiting
  <2>2. calls' \in [Callers -> Call]
    BY JobsAssumption DEF TypeOK, Call, CallPc, Idle
  <2>3. answered' \in [Ids -> SUBSET Answers]
    BY JobsAssumption DEF TypeOK, OwnedIsAlone, Answers, Told
  <2>4. tasks' \in [Ids -> TaskPc]
    BY JobsAssumption DEF TypeOK, TaskPc
  <2>5. arrival' \in [Ids -> Nat]
    BY JobsAssumption DEF TypeOK, Waiting
  <2> QED
    BY <2>1, <2>2, <2>3, <2>4, <2>5, JobsAssumption DEF TypeOK
<1>2. (RecordsNameRequests /\ MemoryIsDurable /\ UnindexedIsAccepted /\
   IdsBelowCounter /\ EffectIsOnRecord /\ EffectAtMostOnce)'
  BY DEF RecordsNameRequests, MemoryIsDurable, UnindexedIsAccepted,
     IdsBelowCounter, EffectIsOnRecord, EffectAtMostOnce, Known
<1>3. DownIsEmpty'
  BY JobsAssumption DEF TypeOK, DownIsEmpty, Idle, NoRecord
<1>4. OwnedIsAlone'
  BY JobsAssumption DEF TypeOK, OwnedIsAlone, CallStages, QueueStages,
     IdsBelowCounter, TaskStages, Call, Idle, Owns, Waiting
<1>5. CallStages'
  BY JobsAssumption DEF TypeOK, CallStages, OwnedIsAlone, TaskStages,
     IdsBelowCounter, QueueStages, MemoryIsDurable, DownIsEmpty, Record, Call,
     Idle, Owns, Known, Waiting
<1>6. QueueStages'
  BY JobsAssumption DEF TypeOK, QueueStages, OwnedIsAlone, CallStages,
     TaskStages, MemoryIsDurable, DownIsEmpty, Record, Call, Idle, Owns,
     Known, Waiting
<1>7. TaskStages'
  BY JobsAssumption DEF TypeOK, TaskStages, OwnedIsAlone, CallStages,
     QueueStages, EffectIsOnRecord, MemoryIsDurable, DownIsEmpty, Record,
     Idle, Owns, Known, Waiting
<1>8. OneWriterPerKey'
  <2>1. ASSUME NEW o \in Startable, NEW p \in Startable, KeyAt(o) = KeyAt(p)
        PROVE  o = p
    <3>1. arrival[o] <= arrival[p] /\ arrival[p] <= arrival[o]
      BY <2>1
    <3>2. o \in Waiting /\ p \in Waiting /\ arrival[o] \in Nat /\ arrival[p] \in Nat
      BY DEF Waiting, TypeOK
    <3> QED
      BY <3>1, <3>2 DEF QueueStages
  <2>2. ASSUME NEW o \in take_startable, NEW p \in running
        PROVE  KeyAt(o) # KeyAt(p)
    OBVIOUS
  <2>3. take_startable \subseteq Startable
    OBVIOUS
  <2> HIDE DEF take_startable, Startable, BusyKeys
  <2> QED
    BY <2>1, <2>2, <2>3 DEF OneWriterPerKey, TaskStages, KeyAt
<1>9. AnsweredOnDisk'
  BY JobsAssumption DEF TypeOK, AnsweredOnDisk, CallStages, MemoryIsDurable,
     DownIsEmpty, Idle, Known, Record, Told
<1> QED
  BY <1>1, <1>2, <1>3, <1>4, <1>5, <1>6, <1>7, <1>8, <1>9

\* The ticket leaves the queue and becomes the cancelling call's own.
LEMMA CancelStep ==
    ASSUME IInv, NEW c \in Callers, NEW o \in Ids, cancel(c, o) PROVE IInv'
<1> USE DEF IInv, cancel, Working
<1>1. TypeOK'
  <2>1. calls' \in [Callers -> Call]
    <3>1. Working("cancel", o) \in Call
      BY DEF Call, CallPc, Ids
    <3> QED
      BY <3>1 DEF TypeOK
  <2>2. arrival' \in [Ids -> Nat]
    BY JobsAssumption DEF TypeOK, Waiting
  <2> QED
    BY <2>1, <2>2, JobsAssumption DEF TypeOK
<1>2. (RecordsNameRequests /\ MemoryIsDurable /\ UnindexedIsAccepted /\
   TaskStages /\ IdsBelowCounter /\ OneWriterPerKey /\ EffectIsOnRecord /\
   EffectAtMostOnce /\ AnsweredOnDisk)'
  BY DEF RecordsNameRequests, MemoryIsDurable, UnindexedIsAccepted,
     TaskStages, IdsBelowCounter, OneWriterPerKey, EffectIsOnRecord,
     EffectAtMostOnce, AnsweredOnDisk, Known, KeyAt
<1>3. DownIsEmpty'
  BY JobsAssumption DEF TypeOK, DownIsEmpty, Idle, NoRecord
<1>4. OwnedIsAlone'
  BY JobsAssumption DEF TypeOK, OwnedIsAlone, CallStages, QueueStages,
     IdsBelowCounter, TaskStages, Call, Idle, Owns, Waiting
<1>5. CallStages'
  BY JobsAssumption DEF TypeOK, CallStages, OwnedIsAlone, TaskStages,
     IdsBelowCounter, QueueStages, MemoryIsDurable, DownIsEmpty, Record, Call,
     Idle, Owns, Known, Waiting
<1>6. QueueStages'
  BY JobsAssumption DEF TypeOK, QueueStages, OwnedIsAlone, CallStages,
     TaskStages, MemoryIsDurable, DownIsEmpty, Record, Call, Idle, Owns,
     Known, Waiting
<1> QED
  BY <1>1, <1>2, <1>3, <1>4, <1>5, <1>6

\* The operation its call withdrew becomes cancelled.
LEMMA MarkCancelledStep ==
    ASSUME IInv, NEW c \in Callers, mark_cancelled(c) PROVE IInv'
<1> USE DEF IInv, mark_cancelled, Rewrite, Stored, Return
<1>1. TypeOK'
  <2>1. records' \in [Ids -> Record] /\ files' \in [Ids -> Record]
    BY RewriteTypes, "cancelled" \in Status DEF OwnedIsAlone, Status, Terminal, Outcomes
  <2>2. calls' \in [Callers -> Call]
    BY JobsAssumption DEF TypeOK, Call, CallPc, Idle
  <2> QED
    BY <2>1, <2>2, JobsAssumption DEF TypeOK
<1>2. (EffectAtMostOnce /\ AnsweredOnDisk)'
  BY DEF EffectAtMostOnce, AnsweredOnDisk
<1>3. DownIsEmpty'
  BY JobsAssumption DEF TypeOK, DownIsEmpty, Idle, NoRecord
<1>4. RecordsNameRequests'
  BY JobsAssumption DEF TypeOK, RecordsNameRequests, OwnedIsAlone, CallStages,
     MemoryIsDurable, DownIsEmpty, Record, Call, Idle, Known
<1>5. MemoryIsDurable'
  BY JobsAssumption DEF TypeOK, MemoryIsDurable, CallStages, OwnedIsAlone,
     DownIsEmpty, Record, Idle, Known
<1>6. UnindexedIsAccepted'
  BY JobsAssumption DEF TypeOK, UnindexedIsAccepted, CallStages, OwnedIsAlone,
     TaskStages, MemoryIsDurable, Record, Known
<1>7. OwnedIsAlone'
  BY JobsAssumption DEF TypeOK, OwnedIsAlone, CallStages, QueueStages,
     IdsBelowCounter, TaskStages, Call, Idle, Owns, Waiting
<1>8. CallStages'
  BY JobsAssumption DEF TypeOK, CallStages, OwnedIsAlone, TaskStages,
     IdsBelowCounter, QueueStages, MemoryIsDurable, DownIsEmpty, Record, Call,
     Idle, Owns, Known, Waiting
<1>9. QueueStages'
  BY JobsAssumption DEF TypeOK, QueueStages, OwnedIsAlone, CallStages,
     TaskStages, MemoryIsDurable, DownIsEmpty, Record, Call, Idle, Owns,
     Known, Waiting
<1>10. TaskStages'
  BY JobsAssumption DEF TypeOK, TaskStages, OwnedIsAlone, CallStages,
     QueueStages, EffectIsOnRecord, MemoryIsDurable, DownIsEmpty, Record,
     Idle, Owns, Known, Waiting
<1>11. IdsBelowCounter'
  BY JobsAssumption DEF TypeOK, IdsBelowCounter, CallStages, OwnedIsAlone,
     Record, Known
<1>12. OneWriterPerKey'
  BY JobsAssumption DEF TypeOK, OneWriterPerKey, TaskStages, OwnedIsAlone,
     CallStages, Record, KeyAt, Owns
<1>13. EffectIsOnRecord'
  BY JobsAssumption DEF TypeOK, EffectIsOnRecord, TaskStages, CallStages,
     OwnedIsAlone, MemoryIsDurable, DownIsEmpty, Outcomes, Record, Idle, Owns,
     Known
<1> QED
  BY <1>1, <1>2, <1>3, <1>4, <1>5, <1>6, <1>7, <1>8, <1>9, <1>10, <1>11,
     <1>12, <1>13

\* The rewrite failed: the record stays accepted, owned by nobody.
LEMMA RewriteFailedStep ==
    ASSUME IInv, NEW c \in Callers, RewriteFailed(c) PROVE IInv'
<1> USE DEF IInv, RewriteFailed, Fault, Return
<1>1. TypeOK'
  <2>1. calls' \in [Callers -> Call]
    BY JobsAssumption DEF TypeOK, Call, CallPc, Idle
  <2> QED
    BY <2>1, JobsAssumption DEF TypeOK
<1>2. (RecordsNameRequests /\ MemoryIsDurable /\ UnindexedIsAccepted /\
   QueueStages /\ TaskStages /\ IdsBelowCounter /\ OneWriterPerKey /\
   EffectIsOnRecord /\ EffectAtMostOnce /\ AnsweredOnDisk)'
  BY DEF RecordsNameRequests, MemoryIsDurable, UnindexedIsAccepted,
     QueueStages, TaskStages, IdsBelowCounter, OneWriterPerKey,
     EffectIsOnRecord, EffectAtMostOnce, AnsweredOnDisk, Known, Waiting, KeyAt
<1>3. DownIsEmpty'
  BY JobsAssumption DEF TypeOK, DownIsEmpty, Idle, NoRecord
<1>4. OwnedIsAlone'
  BY JobsAssumption DEF TypeOK, OwnedIsAlone, CallStages, QueueStages,
     IdsBelowCounter, TaskStages, Call, Idle, Owns, Waiting
<1>5. CallStages'
  BY JobsAssumption DEF TypeOK, CallStages, OwnedIsAlone, TaskStages,
     IdsBelowCounter, QueueStages, MemoryIsDurable, DownIsEmpty, Record, Call,
     Idle, Owns, Known, Waiting
<1> QED
  BY <1>1, <1>2, <1>3, <1>4, <1>5

\* `running` reaches the disk before Git is started.
LEMMA MarkStartedStep ==
    ASSUME IInv, NEW o \in Ids, mark_started(o) PROVE IInv'
<1> USE DEF IInv, mark_started, Rewrite, Stored, TaskTo
<1>1. TypeOK'
  <2>1. records' \in [Ids -> Record] /\ files' \in [Ids -> Record]
    BY RewriteTypes, "running" \in Status DEF Status, Unfinished
  <2>2. tasks' \in [Ids -> TaskPc]
    BY JobsAssumption DEF TypeOK, TaskPc
  <2> QED
    BY <2>1, <2>2, JobsAssumption DEF TypeOK
<1>2. (EffectAtMostOnce /\ AnsweredOnDisk)'
  BY DEF EffectAtMostOnce, AnsweredOnDisk
<1>3. DownIsEmpty'
  BY JobsAssumption DEF TypeOK, DownIsEmpty, Idle, NoRecord
<1>4. RecordsNameRequests'
  BY JobsAssumption DEF TypeOK, RecordsNameRequests, OwnedIsAlone, CallStages,
     MemoryIsDurable, DownIsEmpty, Record, Call, Idle, Known
<1>5. MemoryIsDurable'
  BY JobsAssumption DEF TypeOK, MemoryIsDurable, CallStages, OwnedIsAlone,
     DownIsEmpty, Record, Idle, Known
<1>6. UnindexedIsAccepted'
  BY JobsAssumption DEF TypeOK, UnindexedIsAccepted, CallStages, OwnedIsAlone,
     TaskStages, MemoryIsDurable, Record, Known
<1>7. OwnedIsAlone'
  BY JobsAssumption DEF TypeOK, OwnedIsAlone, CallStages, QueueStages,
     IdsBelowCounter, TaskStages, Call, Idle, Owns, Waiting
<1>8. CallStages'
  BY JobsAssumption DEF TypeOK, CallStages, OwnedIsAlone, TaskStages,
     IdsBelowCounter, QueueStages, MemoryIsDurable, DownIsEmpty, Record, Call,
     Idle, Owns, Known, Waiting
<1>9. QueueStages'
  BY JobsAssumption DEF TypeOK, QueueStages, OwnedIsAlone, CallStages,
     TaskStages, MemoryIsDurable, DownIsEmpty, Record, Call, Idle, Owns,
     Known, Waiting
<1>10. TaskStages'
  <2>1. up /\ o \in Known(records) /\ ran[o] = 0
    BY DEF DownIsEmpty, EffectIsOnRecord, MemoryIsDurable, TaskStages, TypeOK,
       Known, Outcomes
  <2> QED
    BY <2>1 DEF TypeOK, TaskStages, Record
<1>11. IdsBelowCounter'
  BY JobsAssumption DEF TypeOK, IdsBelowCounter, CallStages, OwnedIsAlone,
     Record, Known
<1>12. OneWriterPerKey'
  BY JobsAssumption DEF TypeOK, OneWriterPerKey, TaskStages, OwnedIsAlone,
     CallStages, Record, KeyAt, Owns
<1>13. EffectIsOnRecord'
  BY JobsAssumption DEF TypeOK, EffectIsOnRecord, TaskStages, CallStages,
     OwnedIsAlone, MemoryIsDurable, DownIsEmpty, Record, Idle, Owns, Known
<1> QED
  BY <1>1, <1>2, <1>3, <1>4, <1>5, <1>6, <1>7, <1>8, <1>9, <1>10, <1>11,
     <1>12, <1>13

\* A failed mark_started ends the task without an effect.
LEMMA MarkStartedFailedStep ==
    ASSUME IInv, NEW o \in Ids, MarkStartedFailed(o) PROVE IInv'
<1> USE DEF IInv, MarkStartedFailed, Fault, TaskTo
<1>1. TypeOK'
  <2>1. tasks' \in [Ids -> TaskPc]
    BY JobsAssumption DEF TypeOK, TaskPc
  <2> QED
    BY <2>1, JobsAssumption DEF TypeOK
<1>2. (RecordsNameRequests /\ MemoryIsDurable /\ UnindexedIsAccepted /\
   CallStages /\ IdsBelowCounter /\ EffectIsOnRecord /\ EffectAtMostOnce /\
   AnsweredOnDisk)'
  BY DEF RecordsNameRequests, MemoryIsDurable, UnindexedIsAccepted,
     CallStages, IdsBelowCounter, EffectIsOnRecord, EffectAtMostOnce,
     AnsweredOnDisk, Known
<1>3. DownIsEmpty'
  BY JobsAssumption DEF TypeOK, DownIsEmpty, Idle, NoRecord
<1>4. OwnedIsAlone'
  BY JobsAssumption DEF TypeOK, OwnedIsAlone, CallStages, QueueStages,
     IdsBelowCounter, TaskStages, Call, Idle, Owns, Waiting
<1>5. QueueStages'
  BY JobsAssumption DEF TypeOK, QueueStages, OwnedIsAlone, CallStages,
     TaskStages, MemoryIsDurable, DownIsEmpty, Record, Call, Idle, Owns,
     Known, Waiting
<1>6. TaskStages'
  BY JobsAssumption DEF TypeOK, TaskStages, OwnedIsAlone, CallStages,
     QueueStages, EffectIsOnRecord, MemoryIsDurable, DownIsEmpty, Record,
     Idle, Owns, Known, Waiting
<1>7. OneWriterPerKey'
  BY JobsAssumption DEF TypeOK, OneWriterPerKey, TaskStages, OwnedIsAlone,
     CallStages, Record, KeyAt, Owns
<1> QED
  BY <1>1, <1>2, <1>3, <1>4, <1>5, <1>6, <1>7

\* Git is started once, for an operation that is running on disk.
LEMMA RunEffectStep ==
    ASSUME IInv, NEW o \in Ids, RunEffect(o) PROVE IInv'
<1> USE DEF IInv, RunEffect, TaskTo
<1>1. TypeOK'
  <2>1. tasks' \in [Ids -> TaskPc]
    BY JobsAssumption DEF TypeOK, TaskPc
  <2> QED
    BY <2>1, JobsAssumption DEF TypeOK
<1>2. (RecordsNameRequests /\ MemoryIsDurable /\ UnindexedIsAccepted /\
   CallStages /\ IdsBelowCounter /\ AnsweredOnDisk)'
  BY DEF RecordsNameRequests, MemoryIsDurable, UnindexedIsAccepted,
     CallStages, IdsBelowCounter, AnsweredOnDisk, Known
<1>3. DownIsEmpty'
  BY JobsAssumption DEF TypeOK, DownIsEmpty, Idle, NoRecord
<1>4. OwnedIsAlone'
  BY JobsAssumption DEF TypeOK, OwnedIsAlone, CallStages, QueueStages,
     IdsBelowCounter, TaskStages, Call, Idle, Owns, Waiting
<1>5. QueueStages'
  BY JobsAssumption DEF TypeOK, QueueStages, OwnedIsAlone, CallStages,
     TaskStages, MemoryIsDurable, DownIsEmpty, Record, Call, Idle, Owns,
     Known, Waiting
<1>6. TaskStages'
  BY JobsAssumption DEF TypeOK, TaskStages, OwnedIsAlone, CallStages,
     QueueStages, EffectIsOnRecord, MemoryIsDurable, DownIsEmpty, Record,
     Idle, Owns, Known, Waiting
<1>7. OneWriterPerKey'
  BY JobsAssumption DEF TypeOK, OneWriterPerKey, TaskStages, OwnedIsAlone,
     CallStages, Record, KeyAt, Owns
<1>8. EffectIsOnRecord'
  BY JobsAssumption DEF TypeOK, EffectIsOnRecord, TaskStages, CallStages,
     OwnedIsAlone, MemoryIsDurable, DownIsEmpty, Record, Idle, Owns, Known
<1>9. EffectAtMostOnce'
  BY JobsAssumption DEF TypeOK, EffectAtMostOnce, TaskStages
<1> QED
  BY <1>1, <1>2, <1>3, <1>4, <1>5, <1>6, <1>7, <1>8, <1>9

\* The observed outcome replaces `running`.
LEMMA FinishStep ==
    ASSUME IInv, NEW o \in Ids, finish(o) PROVE IInv'
<1> USE DEF IInv, finish, Rewrite, Stored, TaskTo
<1>1. TypeOK'
  <2>1. records' \in [Ids -> Record] /\ files' \in [Ids -> Record]
    BY RewriteTypes, Outcomes \subseteq Status DEF Status, Terminal
  <2>2. tasks' \in [Ids -> TaskPc]
    BY JobsAssumption DEF TypeOK, TaskPc
  <2> QED
    BY <2>1, <2>2, JobsAssumption DEF TypeOK
<1>2. (EffectAtMostOnce /\ AnsweredOnDisk)'
  BY DEF EffectAtMostOnce, AnsweredOnDisk
<1>3. DownIsEmpty'
  BY JobsAssumption DEF TypeOK, DownIsEmpty, Outcomes, Idle, NoRecord
<1>4. RecordsNameRequests'
  BY JobsAssumption DEF TypeOK, RecordsNameRequests, OwnedIsAlone, CallStages,
     MemoryIsDurable, DownIsEmpty, Outcomes, Record, Call, Idle, Known
<1>5. MemoryIsDurable'
  BY JobsAssumption DEF TypeOK, MemoryIsDurable, CallStages, OwnedIsAlone,
     DownIsEmpty, Outcomes, Record, Idle, Known
<1>6. UnindexedIsAccepted'
  BY JobsAssumption DEF TypeOK, UnindexedIsAccepted, CallStages, OwnedIsAlone,
     TaskStages, MemoryIsDurable, Outcomes, Record, Known
<1>7. OwnedIsAlone'
  BY JobsAssumption DEF TypeOK, OwnedIsAlone, CallStages, QueueStages,
     IdsBelowCounter, TaskStages, Outcomes, Call, Idle, Owns, Waiting
<1>8. CallStages'
  BY JobsAssumption DEF TypeOK, CallStages, OwnedIsAlone, TaskStages,
     IdsBelowCounter, QueueStages, MemoryIsDurable, DownIsEmpty, Outcomes,
     Record, Call, Idle, Owns, Known, Waiting
<1>9. QueueStages'
  BY JobsAssumption DEF TypeOK, QueueStages, OwnedIsAlone, CallStages,
     TaskStages, MemoryIsDurable, DownIsEmpty, Outcomes, Record, Call, Idle,
     Owns, Known, Waiting
<1>10. TaskStages'
  BY JobsAssumption DEF TypeOK, TaskStages, OwnedIsAlone, CallStages,
     QueueStages, EffectIsOnRecord, MemoryIsDurable, DownIsEmpty, Outcomes,
     Record, Idle, Owns, Known, Waiting
<1>11. IdsBelowCounter'
  BY JobsAssumption DEF TypeOK, IdsBelowCounter, CallStages, OwnedIsAlone,
     Outcomes, Record, Known
<1>12. OneWriterPerKey'
  BY JobsAssumption DEF TypeOK, OneWriterPerKey, TaskStages, OwnedIsAlone,
     CallStages, Outcomes, Record, KeyAt, Owns
<1>13. EffectIsOnRecord'
  BY JobsAssumption DEF TypeOK, EffectIsOnRecord, TaskStages, CallStages,
     OwnedIsAlone, MemoryIsDurable, DownIsEmpty, Outcomes, Record, Idle, Owns,
     Known
<1> QED
  BY <1>1, <1>2, <1>3, <1>4, <1>5, <1>6, <1>7, <1>8, <1>9, <1>10, <1>11,
     <1>12, <1>13

\* A panic or a failed write leaves the record running.
LEMMA FinishFailedStep ==
    ASSUME IInv, NEW o \in Ids, FinishFailed(o) PROVE IInv'
<1> USE DEF IInv, FinishFailed, Fault, TaskTo
<1>1. TypeOK'
  <2>1. tasks' \in [Ids -> TaskPc]
    BY JobsAssumption DEF TypeOK, TaskPc
  <2> QED
    BY <2>1, JobsAssumption DEF TypeOK
<1>2. (RecordsNameRequests /\ MemoryIsDurable /\ UnindexedIsAccepted /\
   CallStages /\ IdsBelowCounter /\ EffectIsOnRecord /\ EffectAtMostOnce /\
   AnsweredOnDisk)'
  BY DEF RecordsNameRequests, MemoryIsDurable, UnindexedIsAccepted,
     CallStages, IdsBelowCounter, EffectIsOnRecord, EffectAtMostOnce,
     AnsweredOnDisk, Known
<1>3. DownIsEmpty'
  BY JobsAssumption DEF TypeOK, DownIsEmpty, Idle, NoRecord
<1>4. OwnedIsAlone'
  BY JobsAssumption DEF TypeOK, OwnedIsAlone, CallStages, QueueStages,
     IdsBelowCounter, TaskStages, Call, Idle, Owns, Waiting
<1>5. QueueStages'
  BY JobsAssumption DEF TypeOK, QueueStages, OwnedIsAlone, CallStages,
     TaskStages, MemoryIsDurable, DownIsEmpty, Record, Call, Idle, Owns,
     Known, Waiting
<1>6. TaskStages'
  BY JobsAssumption DEF TypeOK, TaskStages, OwnedIsAlone, CallStages,
     QueueStages, EffectIsOnRecord, MemoryIsDurable, DownIsEmpty, Record,
     Idle, Owns, Known, Waiting
<1>7. OneWriterPerKey'
  BY JobsAssumption DEF TypeOK, OneWriterPerKey, TaskStages, OwnedIsAlone,
     CallStages, Record, KeyAt, Owns
<1> QED
  BY <1>1, <1>2, <1>3, <1>4, <1>5, <1>6, <1>7

\* An unknown outcome blocks its key.
LEMMA BlockStep ==
    ASSUME IInv, NEW o \in Ids, block(o) PROVE IInv'
<1> USE DEF IInv, block, TaskTo
<1>1. TypeOK'
  <2>1. blocks' \in [Keys -> SUBSET Ids]
    BY JobsAssumption DEF TypeOK
  <2>2. tasks' \in [Ids -> TaskPc]
    BY JobsAssumption DEF TypeOK, TaskPc
  <2> QED
    BY <2>1, <2>2, JobsAssumption DEF TypeOK
<1>2. (RecordsNameRequests /\ MemoryIsDurable /\ UnindexedIsAccepted /\
   CallStages /\ IdsBelowCounter /\ EffectIsOnRecord /\ EffectAtMostOnce /\
   AnsweredOnDisk)'
  BY DEF RecordsNameRequests, MemoryIsDurable, UnindexedIsAccepted,
     CallStages, IdsBelowCounter, EffectIsOnRecord, EffectAtMostOnce,
     AnsweredOnDisk, Known
<1>3. DownIsEmpty'
  BY JobsAssumption DEF TypeOK, DownIsEmpty, Idle, NoRecord
<1>4. OwnedIsAlone'
  BY JobsAssumption DEF TypeOK, OwnedIsAlone, CallStages, QueueStages,
     IdsBelowCounter, TaskStages, Call, Idle, Owns, Waiting
<1>5. QueueStages'
  BY JobsAssumption DEF TypeOK, QueueStages, OwnedIsAlone, CallStages,
     TaskStages, MemoryIsDurable, DownIsEmpty, Record, Call, Idle, Owns,
     Known, Waiting
<1>6. TaskStages'
  BY JobsAssumption DEF TypeOK, TaskStages, OwnedIsAlone, CallStages,
     QueueStages, EffectIsOnRecord, MemoryIsDurable, DownIsEmpty, Record,
     Idle, Owns, Known, Waiting
<1>7. OneWriterPerKey'
  BY JobsAssumption DEF TypeOK, OneWriterPerKey, TaskStages, OwnedIsAlone,
     CallStages, Record, KeyAt, Owns
<1> QED
  BY <1>1, <1>2, <1>3, <1>4, <1>5, <1>6, <1>7

\* The slot guard gives the slot back with the task.
LEMMA ReleaseStep ==
    ASSUME IInv, NEW o \in Ids, release(o) PROVE IInv'
<1> USE DEF IInv, release, TaskTo
<1>1. TypeOK'
  <2>1. tasks' \in [Ids -> TaskPc]
    BY JobsAssumption DEF TypeOK, TaskPc
  <2> QED
    BY <2>1, JobsAssumption DEF TypeOK
<1>2. (RecordsNameRequests /\ MemoryIsDurable /\ UnindexedIsAccepted /\
   CallStages /\ IdsBelowCounter /\ EffectIsOnRecord /\ EffectAtMostOnce /\
   AnsweredOnDisk)'
  BY DEF RecordsNameRequests, MemoryIsDurable, UnindexedIsAccepted,
     CallStages, IdsBelowCounter, EffectIsOnRecord, EffectAtMostOnce,
     AnsweredOnDisk, Known
<1>3. DownIsEmpty'
  BY JobsAssumption DEF TypeOK, DownIsEmpty, Idle, NoRecord
<1>4. OwnedIsAlone'
  BY JobsAssumption DEF TypeOK, OwnedIsAlone, CallStages, QueueStages,
     IdsBelowCounter, TaskStages, Call, Idle, Owns, Waiting
<1>5. QueueStages'
  BY JobsAssumption DEF TypeOK, QueueStages, OwnedIsAlone, CallStages,
     TaskStages, MemoryIsDurable, DownIsEmpty, Record, Call, Idle, Owns,
     Known, Waiting
<1>6. TaskStages'
  BY JobsAssumption DEF TypeOK, TaskStages, OwnedIsAlone, CallStages,
     QueueStages, EffectIsOnRecord, MemoryIsDurable, DownIsEmpty, Record,
     Idle, Owns, Known, Waiting
<1>7. OneWriterPerKey'
  BY JobsAssumption DEF TypeOK, OneWriterPerKey, TaskStages, OwnedIsAlone,
     CallStages, Record, KeyAt, Owns
<1> QED
  BY <1>1, <1>2, <1>3, <1>4, <1>5, <1>6, <1>7

\* A snapshot changes nothing else.
LEMMA ReadSnapshotStep ==
    ASSUME IInv, NEW k \in Keys, ReadSnapshot(k) PROVE IInv'
<1> USE DEF IInv, ReadSnapshot
<1>1. TypeOK'
  <2>1. snaps' \in [Keys -> SUBSET Ids]
    BY JobsAssumption DEF TypeOK, Known
  <2> QED
    BY <2>1, JobsAssumption DEF TypeOK
<1>2. (DownIsEmpty /\ RecordsNameRequests /\ MemoryIsDurable /\
   UnindexedIsAccepted /\ OwnedIsAlone /\ CallStages /\ QueueStages /\
   TaskStages /\ IdsBelowCounter /\ OneWriterPerKey /\ EffectIsOnRecord /\
   EffectAtMostOnce /\ AnsweredOnDisk)'
  BY DEF DownIsEmpty, RecordsNameRequests, MemoryIsDurable,
     UnindexedIsAccepted, OwnedIsAlone, CallStages, QueueStages, TaskStages,
     IdsBelowCounter, OneWriterPerKey, EffectIsOnRecord, EffectAtMostOnce,
     AnsweredOnDisk, Known, Owns, Waiting, KeyAt
<1> QED
  BY <1>1, <1>2

\* Lifting a block starts an acknowledge call of an existing record.
LEMMA ResolveBlockStep ==
    ASSUME IInv, NEW c \in Callers, NEW o \in Ids, resolve_block(c, o) PROVE IInv'
<1> USE DEF IInv, resolve_block, Working
<1>1. TypeOK'
  <2>1. calls' \in [Callers -> Call]
    <3>1. Working("acknowledge", o) \in Call
      BY DEF Call, CallPc, Ids
    <3> QED
      BY <3>1 DEF TypeOK
  <2>2. blocks' \in [Keys -> SUBSET Ids]
    BY JobsAssumption DEF TypeOK
  <2>3. lifted' \subseteq Keys
    BY JobsAssumption DEF TypeOK, RecordsNameRequests, KeyAt, Known
  <2> QED
    BY <2>1, <2>2, <2>3, JobsAssumption DEF TypeOK
<1>2. (RecordsNameRequests /\ MemoryIsDurable /\ UnindexedIsAccepted /\
   QueueStages /\ TaskStages /\ IdsBelowCounter /\ OneWriterPerKey /\
   EffectIsOnRecord /\ EffectAtMostOnce /\ AnsweredOnDisk)'
  BY DEF RecordsNameRequests, MemoryIsDurable, UnindexedIsAccepted,
     QueueStages, TaskStages, IdsBelowCounter, OneWriterPerKey,
     EffectIsOnRecord, EffectAtMostOnce, AnsweredOnDisk, Known, Waiting, KeyAt
<1>3. DownIsEmpty'
  BY JobsAssumption DEF TypeOK, DownIsEmpty, Idle, NoRecord
<1>4. OwnedIsAlone'
  BY JobsAssumption DEF TypeOK, OwnedIsAlone, CallStages, QueueStages,
     IdsBelowCounter, TaskStages, Call, Idle, Owns, Waiting
<1>5. CallStages'
  BY JobsAssumption DEF TypeOK, CallStages, OwnedIsAlone, TaskStages,
     IdsBelowCounter, QueueStages, MemoryIsDurable, DownIsEmpty, Record, Call,
     Idle, Owns, Known, Waiting
<1> QED
  BY <1>1, <1>2, <1>3, <1>4, <1>5

\* The confirmation is written, then the index, which now names every record.
LEMMA AcknowledgeStep ==
    ASSUME IInv, NEW c \in Callers, acknowledge(c) PROVE IInv'
<1> USE DEF IInv, acknowledge, Acknowledged, Stored, write_index, Return,
   blocks_writes
<1>1. TypeOK'
  <2>1. records' \in [Ids -> Record] /\ files' \in [Ids -> Record]
    BY AcknowledgedTypes, StoredTypes
  <2>2. index' \in [ids : SUBSET Ids, next : Nat]
    BY JobsAssumption DEF TypeOK, Known
  <2>3. calls' \in [Callers -> Call]
    BY JobsAssumption DEF TypeOK, Call, CallPc, Idle
  <2> QED
    BY <2>1, <2>2, <2>3, JobsAssumption DEF TypeOK
<1>2. EffectAtMostOnce'
  BY DEF EffectAtMostOnce
<1>3. DownIsEmpty'
  BY JobsAssumption DEF TypeOK, DownIsEmpty, Idle, NoRecord
<1>4. RecordsNameRequests'
  BY JobsAssumption DEF TypeOK, RecordsNameRequests, OwnedIsAlone, CallStages,
     MemoryIsDurable, DownIsEmpty, Record, Call, Idle, Known
<1>5. MemoryIsDurable'
  BY JobsAssumption DEF TypeOK, MemoryIsDurable, CallStages, OwnedIsAlone,
     DownIsEmpty, Record, Idle, Known
<1>6. UnindexedIsAccepted'
  BY JobsAssumption DEF TypeOK, UnindexedIsAccepted, CallStages, OwnedIsAlone,
     TaskStages, MemoryIsDurable, Record, Known
<1>7. OwnedIsAlone'
  BY JobsAssumption DEF TypeOK, OwnedIsAlone, CallStages, QueueStages,
     IdsBelowCounter, TaskStages, Call, Idle, Owns, Waiting
<1>8. CallStages'
  BY JobsAssumption DEF TypeOK, CallStages, OwnedIsAlone, TaskStages,
     IdsBelowCounter, QueueStages, MemoryIsDurable, DownIsEmpty, Record, Call,
     Idle, Owns, Known, Waiting
<1>9. QueueStages'
  BY JobsAssumption DEF TypeOK, QueueStages, OwnedIsAlone, CallStages,
     TaskStages, MemoryIsDurable, DownIsEmpty, Record, Call, Idle, Owns,
     Known, Waiting
<1>10. TaskStages'
  BY JobsAssumption DEF TypeOK, TaskStages, OwnedIsAlone, CallStages,
     QueueStages, EffectIsOnRecord, MemoryIsDurable, DownIsEmpty, Record,
     Idle, Owns, Known, Waiting
<1>11. IdsBelowCounter'
  BY JobsAssumption DEF TypeOK, IdsBelowCounter, CallStages, OwnedIsAlone,
     Record, Known
<1>12. OneWriterPerKey'
  BY JobsAssumption DEF TypeOK, OneWriterPerKey, TaskStages, OwnedIsAlone,
     CallStages, Record, KeyAt, Owns
<1>13. EffectIsOnRecord'
  BY JobsAssumption DEF TypeOK, EffectIsOnRecord, TaskStages, CallStages,
     OwnedIsAlone, MemoryIsDurable, DownIsEmpty, Record, Idle, Owns, Known
<1>14. AnsweredOnDisk'
  BY JobsAssumption DEF TypeOK, AnsweredOnDisk, CallStages, MemoryIsDurable,
     DownIsEmpty, Idle, Known, Record
<1> QED
  BY <1>1, <1>2, <1>3, <1>4, <1>5, <1>6, <1>7, <1>8, <1>9, <1>10, <1>11,
     <1>12, <1>13, <1>14

\* A confirmation that could not be written only spends its sequence.
LEMMA AcknowledgeFailedStep ==
    ASSUME IInv, NEW c \in Callers, AcknowledgeFailed(c) PROVE IInv'
<1> USE DEF IInv, AcknowledgeFailed, Fault, Return
<1>1. TypeOK'
  <2>1. calls' \in [Callers -> Call]
    BY JobsAssumption DEF TypeOK, Call, CallPc, Idle
  <2> QED
    BY <2>1, JobsAssumption DEF TypeOK
<1>2. (RecordsNameRequests /\ MemoryIsDurable /\ UnindexedIsAccepted /\
   QueueStages /\ TaskStages /\ IdsBelowCounter /\ OneWriterPerKey /\
   EffectIsOnRecord /\ EffectAtMostOnce /\ AnsweredOnDisk)'
  BY DEF RecordsNameRequests, MemoryIsDurable, UnindexedIsAccepted,
     QueueStages, TaskStages, IdsBelowCounter, OneWriterPerKey,
     EffectIsOnRecord, EffectAtMostOnce, AnsweredOnDisk, Known, Waiting, KeyAt
<1>3. DownIsEmpty'
  BY JobsAssumption DEF TypeOK, DownIsEmpty, Idle, NoRecord
<1>4. OwnedIsAlone'
  BY JobsAssumption DEF TypeOK, OwnedIsAlone, CallStages, QueueStages,
     IdsBelowCounter, TaskStages, Call, Idle, Owns, Waiting
<1>5. CallStages'
  BY JobsAssumption DEF TypeOK, CallStages, OwnedIsAlone, TaskStages,
     IdsBelowCounter, QueueStages, MemoryIsDurable, DownIsEmpty, Record, Call,
     Idle, Owns, Known, Waiting
<1> QED
  BY <1>1, <1>2, <1>3, <1>4, <1>5

\* The confirmation was written and the index was not.
LEMMA AcknowledgeIndexFailedStep ==
    ASSUME IInv, NEW c \in Callers, AcknowledgeIndexFailed(c) PROVE IInv'
<1> USE DEF IInv, AcknowledgeIndexFailed, Acknowledged, Stored, Fault, Return,
   blocks_writes
<1>1. TypeOK'
  <2>1. records' \in [Ids -> Record] /\ files' \in [Ids -> Record]
    BY AcknowledgedTypes, StoredTypes
  <2>2. calls' \in [Callers -> Call]
    BY JobsAssumption DEF TypeOK, Call, CallPc, Idle
  <2> QED
    BY <2>1, <2>2, JobsAssumption DEF TypeOK
<1>2. (EffectAtMostOnce /\ AnsweredOnDisk)'
  BY DEF EffectAtMostOnce, AnsweredOnDisk
<1>3. DownIsEmpty'
  BY JobsAssumption DEF TypeOK, DownIsEmpty, Idle, NoRecord
<1>4. RecordsNameRequests'
  BY JobsAssumption DEF TypeOK, RecordsNameRequests, OwnedIsAlone, CallStages,
     MemoryIsDurable, DownIsEmpty, Record, Call, Idle, Known
<1>5. MemoryIsDurable'
  BY JobsAssumption DEF TypeOK, MemoryIsDurable, CallStages, OwnedIsAlone,
     DownIsEmpty, Record, Idle, Known
<1>6. UnindexedIsAccepted'
  BY JobsAssumption DEF TypeOK, UnindexedIsAccepted, CallStages, OwnedIsAlone,
     TaskStages, MemoryIsDurable, Record, Known
<1>7. OwnedIsAlone'
  BY JobsAssumption DEF TypeOK, OwnedIsAlone, CallStages, QueueStages,
     IdsBelowCounter, TaskStages, Call, Idle, Owns, Waiting
<1>8. CallStages'
  BY JobsAssumption DEF TypeOK, CallStages, OwnedIsAlone, TaskStages,
     IdsBelowCounter, QueueStages, MemoryIsDurable, DownIsEmpty, Record, Call,
     Idle, Owns, Known, Waiting
<1>9. QueueStages'
  BY JobsAssumption DEF TypeOK, QueueStages, OwnedIsAlone, CallStages,
     TaskStages, MemoryIsDurable, DownIsEmpty, Record, Call, Idle, Owns,
     Known, Waiting
<1>10. TaskStages'
  BY JobsAssumption DEF TypeOK, TaskStages, OwnedIsAlone, CallStages,
     QueueStages, EffectIsOnRecord, MemoryIsDurable, DownIsEmpty, Record,
     Idle, Owns, Known, Waiting
<1>11. IdsBelowCounter'
  BY JobsAssumption DEF TypeOK, IdsBelowCounter, CallStages, OwnedIsAlone,
     Record, Known
<1>12. OneWriterPerKey'
  BY JobsAssumption DEF TypeOK, OneWriterPerKey, TaskStages, OwnedIsAlone,
     CallStages, Record, KeyAt, Owns
<1>13. EffectIsOnRecord'
  BY JobsAssumption DEF TypeOK, EffectIsOnRecord, TaskStages, CallStages,
     OwnedIsAlone, MemoryIsDurable, DownIsEmpty, Record, Idle, Owns, Known
<1> QED
  BY <1>1, <1>2, <1>3, <1>4, <1>5, <1>6, <1>7, <1>8, <1>9, <1>10, <1>11,
     <1>12, <1>13

\* A second confirmation only ends its call.
LEMMA AcknowledgeRefusedStep ==
    ASSUME IInv, NEW c \in Callers, AcknowledgeRefused(c) PROVE IInv'
<1> USE DEF IInv, AcknowledgeRefused, Return
<1>1. TypeOK'
  <2>1. calls' \in [Callers -> Call]
    BY JobsAssumption DEF TypeOK, Call, CallPc, Idle
  <2> QED
    BY <2>1, JobsAssumption DEF TypeOK
<1>2. (RecordsNameRequests /\ MemoryIsDurable /\ UnindexedIsAccepted /\
   QueueStages /\ TaskStages /\ IdsBelowCounter /\ OneWriterPerKey /\
   EffectIsOnRecord /\ EffectAtMostOnce /\ AnsweredOnDisk)'
  BY DEF RecordsNameRequests, MemoryIsDurable, UnindexedIsAccepted,
     QueueStages, TaskStages, IdsBelowCounter, OneWriterPerKey,
     EffectIsOnRecord, EffectAtMostOnce, AnsweredOnDisk, Known, Waiting, KeyAt
<1>3. DownIsEmpty'
  BY JobsAssumption DEF TypeOK, DownIsEmpty, Idle, NoRecord
<1>4. OwnedIsAlone'
  BY JobsAssumption DEF TypeOK, OwnedIsAlone, CallStages, QueueStages,
     IdsBelowCounter, TaskStages, Call, Idle, Owns, Waiting
<1>5. CallStages'
  BY JobsAssumption DEF TypeOK, CallStages, OwnedIsAlone, TaskStages,
     IdsBelowCounter, QueueStages, MemoryIsDurable, DownIsEmpty, Record, Call,
     Idle, Owns, Known, Waiting
<1> QED
  BY <1>1, <1>2, <1>3, <1>4, <1>5

---------------------------------------------------------------------------
(* Crash and restart.                                                      *)

\* A crash empties memory and leaves the disk.
LEMMA CrashStep == ASSUME IInv, Crash PROVE IInv'
<1> USE DEF IInv, Crash
<1>1. TypeOK'
  <2>1. records' \in [Ids -> Record] /\ calls' \in [Callers -> Call]
    BY DEF Record, NoRecord, Status, Call, CallPc, Idle
  <2>2. nextOp' \in 0..MaxOps /\ nextSeq' \in Nat /\ arrivals' \in Nat
    BY JobsAssumption
  <2>3. crashes' \in Nat
    BY DEF TypeOK
  <2>4. /\ blocks' \in [Keys -> SUBSET Ids] /\ snaps' \in [Keys -> SUBSET Ids]
        /\ arrival' \in [Ids -> Nat] /\ tasks' \in [Ids -> TaskPc]
        /\ running' \subseteq Ids /\ lifted' \subseteq Keys
    BY DEF TaskPc
  <2>5. /\ up' \in BOOLEAN /\ files' \in [Ids -> Record]
        /\ index' \in [ids : SUBSET Ids, next : Nat]
        /\ ran' \in [Ids -> Nat] /\ answered' \in [Ids -> SUBSET Answers]
        /\ faults' \in Nat
    BY DEF TypeOK
  <2> QED
    BY <2>1, <2>2, <2>3, <2>4, <2>5 DEF TypeOK
<1>2. Known(records') = {} /\ \A c \in Callers : calls'[c].pc = "idle"
  BY DEF Known, NoRecord, Idle
<1>3. (DownIsEmpty /\ UnindexedIsAccepted /\ IdsBelowCounter)'
  BY <1>2 DEF DownIsEmpty, UnindexedIsAccepted, IdsBelowCounter
<1>4. (RecordsNameRequests /\ MemoryIsDurable /\ EffectIsOnRecord /\
   EffectAtMostOnce /\ AnsweredOnDisk)'
  BY <1>2 DEF RecordsNameRequests, MemoryIsDurable, EffectIsOnRecord,
     EffectAtMostOnce, AnsweredOnDisk
<1>5. (OwnedIsAlone /\ CallStages)'
  BY <1>2 DEF OwnedIsAlone, CallStages, Owns
<1>6. (QueueStages /\ TaskStages /\ OneWriterPerKey)'
  BY DEF QueueStages, TaskStages, OneWriterPerKey, Waiting
<1> QED
  BY <1>1, <1>3, <1>4, <1>5, <1>6

\* What reconciliation writes for an unfinished record: unknown, under a new
\* sequence, everything else as it was.
LEMMA ReconciledTypes ==
    ASSUME TypeOK, NEW base \in Nat, NEW o \in Ids
    PROVE  /\ reconcile_unfinished(o, base) \in Record
           /\ reconcile_unfinished(o, base).status = "unknown"
           /\ reconcile_unfinished(o, base).req = files[o].req
<1>1. IsFiniteSet({p \in LoadedUnfinished : p < o})
  <2>1. IsFiniteSet(Ids)
    BY FS_Interval, JobsAssumption DEF Ids
  <2> QED
    BY <2>1, FS_Subset DEF LoadedUnfinished, TypeOK
<1>2. base + Cardinality({p \in LoadedUnfinished : p < o}) \in Nat
  BY <1>1, FS_CardinalityType
<1>3. files[o] \in Record /\ "unknown" \in Status
  BY DEF TypeOK, Status, Terminal, Outcomes
<1> QED
  BY <1>2, <1>3 DEF reconcile_unfinished, Record

\* The sequences load takes its maximum of are numbers.
LEMMA LoadedSeqsTypes ==
    ASSUME TypeOK PROVE LoadedSeqs \subseteq Nat
<1>1. \A o \in index.ids : files[o].seq \in Nat
  BY DEF TypeOK, Record
<1> QED
  BY <1>1 DEF LoadedSeqs, TypeOK

\* A start rebuilds memory from the index: unfinished records become unknown.
LEMMA RestartStep == ASSUME IInv, Restart PROVE IInv'
<1> USE DEF IInv
<1>1. PICK base \in Nat :
        /\ records' = [o \in Ids |-> IF o \in LoadedUnfinished
                                     THEN reconcile_unfinished(o, base) ELSE load[o]]
        /\ files' = [o \in Ids |-> IF o \in LoadedUnfinished
                                   THEN reconcile_unfinished(o, base) ELSE files[o]]
        /\ nextSeq' = base + Cardinality(LoadedUnfinished)
  BY LoadedSeqsTypes DEF Restart
<1>2. ~up /\ up' /\ UNCHANGED <<queueVars, calls, tasks, snaps, history, bounds>>
  BY DEF Restart
<1>3. /\ \A o \in Ids : arrival[o] = 0 /\ tasks[o] = "none"
      /\ running = {}
      /\ \A c \in Callers : calls[c] = Idle
  BY <1>2 DEF DownIsEmpty
<1>4. nextSeq' \in Nat
  <2>1. IsFiniteSet(Ids)
    BY FS_Interval, JobsAssumption DEF Ids
  <2>2. IsFiniteSet(LoadedUnfinished)
    BY <2>1, FS_Subset DEF LoadedUnfinished, TypeOK
  <2> QED
    BY <1>1, <2>2, FS_CardinalityType
<1>5. index' \in [ids : SUBSET Ids, next : Nat] /\ index'.ids = index.ids
  BY <1>4 DEF Restart, TypeOK
<1>6. \A o \in Ids :
        /\ records'[o] \in Record /\ files'[o] \in Record
        /\ o \in index.ids => /\ records'[o] = files'[o]
                              /\ files'[o].req = files[o].req
        /\ o \notin index.ids => records'[o] = NoRecord
        /\ IF o \in LoadedUnfinished THEN files'[o].status = "unknown"
                                     ELSE files'[o] = files[o]
  <2> TAKE o \in Ids
  <2>1. files[o] \in Record /\ NoRecord \in Record
    BY DEF TypeOK, Record, NoRecord, Status
  <2>2. LoadedUnfinished \subseteq index.ids
    BY DEF LoadedUnfinished
  <2> QED
    BY <1>1, <2>1, <2>2, ReconciledTypes DEF load
<1>7. Known(records') = index.ids
  BY <1>6, <1>5 DEF Known, NoRecord, RecordsNameRequests, TypeOK
<1>8. \A o \in index.ids : o <= nextOp' /\ nextOp' \in 0..MaxOps
  BY DEF Restart, next_operation_seed, IsMaximum
<1>9. TypeOK'
  <2>1. records' \in [Ids -> Record] /\ files' \in [Ids -> Record]
    BY <1>1, <1>6
  <2>2. nextOp' \in 0..MaxOps
    BY DEF Restart
  <2>3. blocks' \in [Keys -> SUBSET Ids]
    BY DEF Restart, reconcile, TypeOK
  <2> QED
    BY <1>2, <1>4, <1>5, <2>1, <2>2, <2>3 DEF TypeOK
<1>10. (DownIsEmpty /\ RecordsNameRequests /\ MemoryIsDurable /\ UnindexedIsAccepted)'
  BY <1>2, <1>5, <1>6, <1>7 DEF DownIsEmpty, RecordsNameRequests, MemoryIsDurable,
     UnindexedIsAccepted, TypeOK
<1>11. (OwnedIsAlone /\ CallStages)'
  BY <1>2, <1>3 DEF OwnedIsAlone, CallStages, Owns, Idle
<1>12. (QueueStages /\ TaskStages /\ OneWriterPerKey)'
  BY <1>2, <1>3 DEF QueueStages, TaskStages, OneWriterPerKey, Waiting, TypeOK
<1>13. IdsBelowCounter'
  BY <1>7, <1>8 DEF IdsBelowCounter
<1>14. (EffectIsOnRecord /\ EffectAtMostOnce /\ AnsweredOnDisk)'
  BY <1>2, <1>5, <1>6 DEF EffectIsOnRecord, EffectAtMostOnce, AnsweredOnDisk,
     TypeOK, Outcomes
<1> QED
  BY <1>9, <1>10, <1>11, <1>12, <1>13, <1>14

\* A start that dies half way leaves each file either as it was or unknown.
LEMMA RestartInterruptedStep == ASSUME IInv, RestartInterrupted PROVE IInv'
<1> USE DEF IInv
<1>1. PICK base \in Nat, last \in LoadedUnfinished :
        files' = [o \in Ids |-> IF o \in LoadedUnfinished /\ o <= last
                                THEN reconcile_unfinished(o, base) ELSE files[o]]
  BY LoadedSeqsTypes DEF RestartInterrupted
<1>2. ~up /\ UNCHANGED <<up, records, nextSeq, index, blocks, queueVars, nextOp, calls,
                         tasks, snaps, history, faults>> /\ crashes' = crashes + 1
  BY DEF RestartInterrupted
<1>3. \A o \in Ids :
        /\ files'[o] \in Record /\ files'[o].req = files[o].req
        /\ files'[o] = files[o] \/ files'[o].status = "unknown"
  <2> TAKE o \in Ids
  <2>1. files[o] \in Record
    BY DEF TypeOK
  <2> QED
    BY <1>1, <2>1, ReconciledTypes
<1>4. TypeOK'
  BY <1>1, <1>2, <1>3 DEF TypeOK
<1>5. (DownIsEmpty /\ UnindexedIsAccepted /\ OwnedIsAlone /\ CallStages /\
   QueueStages /\ TaskStages /\ IdsBelowCounter /\ OneWriterPerKey /\
   EffectAtMostOnce /\ AnsweredOnDisk)'
  BY <1>2 DEF DownIsEmpty, UnindexedIsAccepted, OwnedIsAlone, CallStages,
     QueueStages, TaskStages, IdsBelowCounter, OneWriterPerKey,
     EffectAtMostOnce, AnsweredOnDisk, Known, Owns, Waiting, KeyAt
<1>6. (RecordsNameRequests /\ MemoryIsDurable /\ EffectIsOnRecord)'
  BY <1>2, <1>3 DEF RecordsNameRequests, MemoryIsDurable, EffectIsOnRecord,
     DownIsEmpty, Known, NoRecord, TypeOK, Outcomes
<1> QED
  BY <1>4, <1>5, <1>6

---------------------------------------------------------------------------
(* The invariant and what follows from it.                                 *)

\* The invariant holds in an empty state root.
LEMMA InitInv == Init => IInv
<1> SUFFICES ASSUME Init PROVE IInv
  OBVIOUS
<1> USE DEF Init
<1>1. TypeOK
  <2>1. NoRecord \in Record /\ Idle \in Call
    BY DEF Record, NoRecord, Status, Call, CallPc, Idle
  <2> QED
    BY <2>1, JobsAssumption DEF TypeOK, TaskPc
<1>2. Known(records) = {} /\ \A c \in Callers : calls[c].pc = "idle"
  BY DEF Known, NoRecord, Idle
<1>3. DownIsEmpty /\ RecordsNameRequests /\ MemoryIsDurable /\ UnindexedIsAccepted
      /\ IdsBelowCounter
  BY <1>2 DEF DownIsEmpty, RecordsNameRequests, MemoryIsDurable, UnindexedIsAccepted,
     IdsBelowCounter
<1>4. OwnedIsAlone /\ CallStages
  BY <1>2 DEF OwnedIsAlone, CallStages, Owns
<1>5. QueueStages /\ TaskStages /\ OneWriterPerKey
  BY DEF QueueStages, TaskStages, OneWriterPerKey, Waiting
<1>6. EffectIsOnRecord /\ EffectAtMostOnce /\ AnsweredOnDisk
  BY DEF EffectIsOnRecord, EffectAtMostOnce, AnsweredOnDisk
<1> QED
  BY <1>1, <1>3, <1>4, <1>5, <1>6 DEF IInv

\* Every step, and stuttering, preserves the invariant.
LEMMA NextInv == ASSUME IInv, [Next]_vars PROVE IInv'
<1>1. CASE UNCHANGED vars
  BY <1>1 DEF IInv, vars, TypeOK, DownIsEmpty, RecordsNameRequests, MemoryIsDurable,
     UnindexedIsAccepted, OwnedIsAlone, CallStages, QueueStages, TaskStages,
     IdsBelowCounter, OneWriterPerKey, EffectIsOnRecord, EffectAtMostOnce,
     AnsweredOnDisk, Known, Waiting, KeyAt, Owns
<1>2. ASSUME NEW c \in Callers, NEW r \in Requests, SubmitKnown(c, r) \/ SubmitNew(c, r)
      PROVE  IInv'
  BY <1>2, SubmitKnownStep, SubmitNewStep
<1>3. ASSUME NEW c \in Callers, NEW o \in Ids, cancel(c, o) \/ resolve_block(c, o)
      PROVE  IInv'
  BY <1>3, CancelStep, ResolveBlockStep
<1>4. ASSUME NEW c \in Callers, CallStep(c) PROVE IInv'
  BY <1>4, ContextRefusedStep, ContextPassedStep, AppendStep, AppendFailedStep,
     AppendIndexFailedStep, EnqueueStep, EnqueueRefusedStep, FinishWithoutStartStep,
     PumpStep, MarkCancelledStep, RewriteFailedStep, AcknowledgeStep,
     AcknowledgeFailedStep, AcknowledgeIndexFailedStep, AcknowledgeRefusedStep
     DEF CallStep
<1>5. ASSUME NEW o \in Ids, TaskStep(o) PROVE IInv'
  BY <1>5, MarkStartedStep, MarkStartedFailedStep, RunEffectStep, FinishStep,
     FinishFailedStep, BlockStep, ReleaseStep DEF TaskStep
<1>6. ASSUME NEW k \in Keys, ReadSnapshot(k) PROVE IInv'
  BY <1>6, ReadSnapshotStep
<1> QED
  BY <1>1, <1>2, <1>3, <1>4, <1>5, <1>6, CrashStep, RestartStep,
     RestartInterruptedStep DEF Next

\* Every reachable state of the engine satisfies the inductive invariant.
THEOREM Invariance == Spec => []IInv
<1> QED
  BY InitInv, NextInv, PTL DEF Spec

\* Every variable keeps its type.
THEOREM TypeCorrect == Spec => []TypeOK
<1>1. IInv => TypeOK
  BY DEF IInv
<1> QED
  BY Invariance, <1>1, PTL

\* The queue and the slot guard of jobs/mod.rs keep one writer per repository.
THEOREM OneWriterAlways == Spec => []OneWriterPerKey
<1>1. IInv => OneWriterPerKey
  BY DEF IInv
<1> QED
  BY Invariance, <1>1, PTL

\* `running` is on disk before Git runs, and stays visible to every restart.
THEOREM EffectAlwaysOnRecord == Spec => []EffectIsOnRecord
<1>1. IInv => EffectIsOnRecord
  BY DEF IInv
<1> QED
  BY Invariance, <1>1, PTL

\* No operation is ever run twice, whatever crashes and restarts happen.
THEOREM EffectNeverRepeated == Spec => []EffectAtMostOnce
<1>1. IInv => EffectAtMostOnce
  BY DEF IInv
<1> QED
  BY Invariance, <1>1, PTL

\* Memory never says more of an operation than the disk does.
THEOREM MemoryAlwaysDurable == Spec => []MemoryIsDurable
<1>1. IInv => MemoryIsDurable
  BY DEF IInv
<1> QED
  BY Invariance, <1>1, PTL

\* The seeded counter never mints an id twice.
THEOREM IdsAlwaysFresh == Spec => []FreshIds
<1>1. IInv => FreshIds
  BY DEF IInv, FreshIds, CallStages, OwnedIsAlone, Owns
<1> QED
  BY Invariance, <1>1, PTL

\* An accepted operation is found again by every later retry.
THEOREM AnsweredAlwaysSurvives == Spec => []AnsweredSurvives
<1>1. IInv => AnsweredSurvives
  BY DEF IInv, AnsweredSurvives, AnsweredOnDisk, MemoryIsDurable, find_client_request,
     SameRequest
<1> QED
  BY Invariance, <1>1, PTL

---------------------------------------------------------------------------
(* NativeJobs implements OperationLedger: every step of the engine, read   *)
(* through the journal's files, is a step of the ledger or leaves it       *)
(* alone.  What follows for published outcomes, and the blocks.            *)

\* The refinement mapping: what the journal's files say, and what Git was run for.
Said == [o \in Ids |-> IF o \in index.ids THEN files[o].status ELSE "none"]
GitRan == {o \in Ids : ran[o] > 0}

\* A confirmation on disk is never withdrawn.
AckKept == \A o \in index.ids : files[o].acked => files'[o].acked

LedgerStep == (Ledger!Next \/ UNCHANGED <<Said, GitRan>>) /\ AckKept

---------------------------------------------------------------------------
(* Steps of the ledger, one lemma per kind.                                *)

LEMMA Stands ==
    ASSUME UNCHANGED <<files, index, ran>> PROVE LedgerStep
BY DEF LedgerStep, Said, GitRan, AckKept

\* Operations that were not in the ledger enter it as accepted.
LEMMA Accepts ==
    ASSUME NEW S \in SUBSET Ids, \A o \in S : Said[o] = "none",
           \A o \in Ids : Said'[o] = IF o \in S THEN "accepted" ELSE Said[o],
           ran' = ran
    PROVE  Ledger!Next
<1>1. Ledger!Accept(S)
  BY DEF Ledger!Accept, Ledger!Moved, Said
<1>2. QED
  BY <1>1 DEF Ledger!Next

\* Operations that were unfinished are settled as unknown.
LEMMA Interrupts ==
    ASSUME NEW S \in SUBSET Ids, \A o \in S : Said[o] \in Unfinished,
           \A o \in Ids : Said'[o] = IF o \in S THEN "unknown" ELSE Said[o],
           ran' = ran
    PROVE  Ledger!Next
<1>1. Ledger!Interrupt(S)
  BY DEF Ledger!Interrupt, Ledger!Moved, Ledger!Unfinished, Unfinished, Said
<1>2. QED
  BY <1>1 DEF Ledger!Next

\* A record that memory and the index hold is rewritten with another status.
LEMMA Rewrites ==
    ASSUME IInv, up, NEW o \in index.ids, NEW s \in Status, Rewrite(o, s), ran' = ran
    PROVE  /\ Said[o] = records[o].status
           /\ \A p \in Ids : Said'[p] = IF p = o THEN s ELSE Said[p]
           /\ AckKept
<1>1. o \in Ids /\ index.ids \subseteq Ids /\ records \in [Ids -> Record]
      /\ files \in [Ids -> Record] /\ index' = index
  BY DEF IInv, TypeOK, Rewrite
<1>2. files[o] = records[o]
  BY DEF IInv, MemoryIsDurable
<1>3. files' = [files EXCEPT ![o] = [records[o] EXCEPT !.status = s]]
  BY DEF Rewrite, Stored
<1>4. records[o] \in Record
  BY <1>1
<1>5. \A p \in Ids : files'[p] = IF p = o THEN [records[o] EXCEPT !.status = s] ELSE files[p]
  BY <1>1, <1>3
<1>6. [records[o] EXCEPT !.status = s].status = s
      /\ [records[o] EXCEPT !.status = s].acked = records[o].acked
  BY <1>4 DEF Record
<1>7. QED
  BY <1>1, <1>2, <1>5, <1>6 DEF Said, AckKept

\* A call or a task is only there while the process is.
LEMMA ActiveIsUp ==
    ASSUME IInv
    PROVE  /\ \A c \in Callers : calls[c].pc # "idle" => up
           /\ \A o \in Ids : tasks[o] # "none" => up
BY DEF IInv, DownIsEmpty, Idle

---------------------------------------------------------------------------
(* One lemma per action that writes the journal or runs Git.               *)

LEMMA AppendLedger == ASSUME IInv, IInv', NEW c \in Callers, append(c) PROVE LedgerStep
<1> DEFINE o == calls[c].op
           S == Known(records') \ index.ids
<1>1. o \in Ids /\ up /\ up' /\ ran' = ran /\ records[o].status = "none"
  BY ActiveIsUp DEF IInv, OwnedIsAlone, append
<1>2. /\ index.ids \subseteq Ids /\ files \in [Ids -> Record] /\ records \in [Ids -> Record]
      /\ index'.ids = Known(records')
  BY DEF IInv, TypeOK, append, write_index
<1>3. index.ids \subseteq Known(records) /\ o \notin index.ids
  BY <1>1 DEF IInv, MemoryIsDurable, Known
<1>4. /\ \A p \in Ids : p # o => files'[p] = files[p] /\ records'[p] = records[p]
      /\ records'[o].status = "accepted"
  BY <1>1, <1>2 DEF append, Stored, Accepted
<1>5. \A p \in Known(records') : files'[p] = records'[p]
  BY <1>1 DEF IInv, MemoryIsDurable
<1>6. \A p \in S : records'[p].status = "accepted" /\ p \in Ids
  BY <1>4 DEF IInv, UnindexedIsAccepted, Known
<1>7. index.ids \subseteq Known(records')
  BY <1>1, <1>2, <1>3, <1>4 DEF Known
<1>8. \A p \in Ids : Said'[p] = IF p \in S THEN "accepted" ELSE Said[p]
  BY <1>2, <1>3, <1>4, <1>5, <1>6, <1>7 DEF Said
<1>9. \A p \in S : Said[p] = "none"
  BY <1>6 DEF Said
<1>10. S \in SUBSET Ids
  BY <1>6
<1>11. AckKept
  BY <1>2, <1>3, <1>4 DEF AckKept
<1> HIDE DEF S
<1>12. QED
  BY <1>1, <1>8, <1>9, <1>10, <1>11, Accepts DEF LedgerStep

LEMMA AppendIndexFailedLedger ==
    ASSUME IInv, NEW c \in Callers, AppendIndexFailed(c) PROVE LedgerStep
<1> DEFINE o == calls[c].op
<1>1. o \in Ids /\ up /\ UNCHANGED <<ran, index>> /\ records[o].status = "none"
  BY ActiveIsUp DEF IInv, OwnedIsAlone, AppendIndexFailed
<1>2. o \notin index.ids /\ index.ids \subseteq Ids /\ files \in [Ids -> Record]
  BY <1>1 DEF IInv, TypeOK, MemoryIsDurable, Known
<1>3. \A p \in Ids : p # o => files'[p] = files[p]
  BY <1>1, <1>2 DEF AppendIndexFailed, Stored
<1>4. Said' = Said /\ AckKept
  BY <1>1, <1>2, <1>3 DEF Said, AckKept
<1>5. QED
  BY <1>1, <1>4 DEF LedgerStep, GitRan

\* The confirmation of an operation changes no status, but its index write may publish.
LEMMA AcknowledgedFile ==
    ASSUME IInv, NEW c \in Callers, calls[c].pc = "acknowledge",
           blocks_writes(records[calls[c].op]), Stored(calls[c].op, Acknowledged(c))
    PROVE  /\ up /\ calls[c].op \in index.ids /\ index.ids \subseteq Ids
           /\ \A p \in Ids : records'[p].status = records[p].status
           /\ \A p \in index.ids : /\ files'[p].status = files[p].status
                                   /\ files[p].acked => files'[p].acked
<1> DEFINE o == calls[c].op
           r == Acknowledged(c)
<1>1. o \in Ids /\ up /\ r \in Record
  BY ActiveIsUp, AcknowledgedTypes DEF IInv
<1>2. /\ records \in [Ids -> Record] /\ files \in [Ids -> Record] /\ index.ids \subseteq Ids
      /\ index.ids \subseteq Known(records)
  BY <1>1 DEF IInv, TypeOK, MemoryIsDurable
<1>3. o \in Known(records) /\ o \in index.ids
  BY <1>1 DEF IInv, UnindexedIsAccepted, Known, blocks_writes
<1>4. records[o] \in Record
  BY <1>1, <1>2
<1>5. r.status = records[o].status /\ r.acked
  BY <1>4 DEF Acknowledged, Record
<1>6. files[o] = records[o]
  BY <1>1, <1>3 DEF IInv, MemoryIsDurable
<1> HIDE DEF r, o
<1>7. \A p \in Ids : /\ records'[p] = IF p = o THEN r ELSE records[p]
                     /\ files'[p] = IF p = o THEN r ELSE files[p]
  BY <1>1, <1>2 DEF Stored, r, o
<1>8. QED
  BY <1>1, <1>2, <1>3, <1>5, <1>6, <1>7 DEF o

LEMMA AcknowledgeLedger ==
    ASSUME IInv, IInv', NEW c \in Callers, acknowledge(c) PROVE LedgerStep
<1> DEFINE S == Known(records') \ index.ids
<1>1. /\ up /\ up' /\ ran' = ran /\ index.ids \subseteq Ids
      /\ \A p \in Ids : records'[p].status = records[p].status
      /\ \A p \in index.ids : /\ files'[p].status = files[p].status
                              /\ files[p].acked => files'[p].acked
  BY AcknowledgedFile DEF acknowledge
<1>2. index'.ids = Known(records') /\ Known(records') = Known(records)
  BY <1>1 DEF acknowledge, write_index, Known
<1>3. /\ index.ids \subseteq Known(records)
      /\ \A p \in Known(records') : files'[p] = records'[p]
  BY <1>1 DEF IInv, MemoryIsDurable
<1>4. \A p \in S : records'[p].status = "accepted" /\ p \in Ids
  BY <1>1, <1>2 DEF IInv, UnindexedIsAccepted, Known
<1>5. \A p \in Ids : Said'[p] = IF p \in S THEN "accepted" ELSE Said[p]
  BY <1>1, <1>2, <1>3, <1>4 DEF Said
<1>6. S \in SUBSET Ids /\ \A p \in S : Said[p] = "none"
  BY <1>4 DEF Said
<1>7. AckKept
  BY <1>1 DEF AckKept
<1> HIDE DEF S
<1>8. QED
  BY <1>1, <1>5, <1>6, <1>7, Accepts DEF LedgerStep

LEMMA AcknowledgeIndexFailedLedger ==
    ASSUME IInv, NEW c \in Callers, AcknowledgeIndexFailed(c) PROVE LedgerStep
<1>1. /\ \A p \in index.ids : /\ files'[p].status = files[p].status
                              /\ files[p].acked => files'[p].acked
      /\ UNCHANGED <<ran, index>>
  BY AcknowledgedFile DEF AcknowledgeIndexFailed
<1>2. QED
  BY <1>1 DEF LedgerStep, Said, GitRan, AckKept

\* An operation that never started is turned away or withdrawn.
LEMMA DeclineLedger ==
    ASSUME IInv, NEW c \in Callers, finish_without_start(c) \/ mark_cancelled(c)
    PROVE  LedgerStep
<1> DEFINE o == calls[c].op
<1>1. o \in index.ids /\ records[o].status = "accepted" /\ up /\ ran' = ran
  BY ActiveIsUp DEF IInv, CallStages, finish_without_start, mark_cancelled
<1>2. PICK s \in {"failed", "cancelled"} : Rewrite(o, s)
  BY DEF finish_without_start, mark_cancelled
<1>3. s \in Status
  BY DEF Status, Terminal, Outcomes
<1>4. /\ Said[o] = "accepted" /\ AckKept
      /\ \A p \in Ids : Said'[p] = IF p = o THEN s ELSE Said[p]
  BY <1>1, <1>2, <1>3, Rewrites
<1>5. o \in Ids
  BY <1>1 DEF IInv, TypeOK
<1> HIDE DEF o
<1>6. \E p \in Ids : Ledger!Decline(p)
  BY <1>1, <1>4, <1>5 DEF Ledger!Decline, Ledger!Moved, Said
<1>7. QED
  BY <1>4, <1>6 DEF LedgerStep, Ledger!Next

LEMMA MarkStartedLedger ==
    ASSUME IInv, NEW o \in Ids, mark_started(o) PROVE LedgerStep
<1>1. o \in index.ids /\ records[o].status = "accepted" /\ up /\ ran' = ran
      /\ Rewrite(o, "running")
  BY ActiveIsUp DEF IInv, TaskStages, mark_started
<1>2. /\ Said[o] = "accepted" /\ AckKept
      /\ \A p \in Ids : Said'[p] = IF p = o THEN "running" ELSE Said[p]
  BY <1>1, Rewrites DEF Status, Unfinished
<1>3. Ledger!Start(o)
  BY <1>1, <1>2 DEF Ledger!Start, Ledger!Moved, Said
<1>4. QED
  BY <1>2, <1>3 DEF LedgerStep, Ledger!Next

\* Git is started once, and only for an operation whose file says running.
LEMMA RunEffectLedger ==
    ASSUME IInv, NEW o \in Ids, RunEffect(o) PROVE LedgerStep
<1>1. /\ o \in index.ids /\ records[o].status = "running" /\ up /\ ran[o] = 0
      /\ ran \in [Ids -> Nat] /\ o \in Known(records)
  BY ActiveIsUp DEF IInv, TypeOK, TaskStages, RunEffect, Known
<1>2. UNCHANGED <<files, index>> /\ ran' = [ran EXCEPT ![o] = ran[o] + 1]
  BY DEF RunEffect
<1>3. Said[o] = "running"
  BY <1>1 DEF IInv, MemoryIsDurable, Said
<1>4. GitRan' = GitRan \union {o} /\ o \notin GitRan
  BY <1>1, <1>2 DEF GitRan
<1>5. Ledger!Touch(o)
  BY <1>2, <1>3, <1>4 DEF Ledger!Touch, Said, GitRan
<1>6. QED
  BY <1>2, <1>5 DEF LedgerStep, Ledger!Next, AckKept

LEMMA FinishLedger ==
    ASSUME IInv, NEW o \in Ids, finish(o) PROVE LedgerStep
<1>1. o \in index.ids /\ records[o].status = "running" /\ up /\ ran' = ran /\ ran[o] = 1
  BY ActiveIsUp DEF IInv, TaskStages, finish
<1>2. PICK s \in Outcomes : Rewrite(o, s)
  BY DEF finish
<1>3. s \in Status
  BY DEF Status, Terminal
<1>4. /\ Said[o] = "running" /\ AckKept
      /\ \A p \in Ids : Said'[p] = IF p = o THEN s ELSE Said[p]
  BY <1>1, <1>2, <1>3, Rewrites
<1>5. Ledger!Settle(o)
  BY <1>1, <1>4 DEF Ledger!Settle, Ledger!Moved, Ledger!Settled, Outcomes, Said
<1>6. QED
  BY <1>4, <1>5 DEF LedgerStep, Ledger!Next

\* A start rewrites what it finds unfinished, all of it or a part.
LEMMA ReconciledLedger ==
    ASSUME IInv, NEW base \in Nat, NEW S \in SUBSET LoadedUnfinished,
           files' = [o \in Ids |-> IF o \in S THEN reconcile_unfinished(o, base) ELSE files[o]],
           index'.ids = index.ids, ran' = ran
    PROVE  LedgerStep
<1>1. /\ S \subseteq index.ids /\ index.ids \subseteq Ids
      /\ \A o \in S : files[o].status \in Unfinished
  BY DEF IInv, TypeOK, LoadedUnfinished, is_unfinished
<1>2. \A o \in Ids : /\ reconcile_unfinished(o, base).status = "unknown"
                     /\ reconcile_unfinished(o, base).acked = files[o].acked
  <2> TAKE o \in Ids
  <2>1. files[o] \in Record
    BY DEF IInv, TypeOK
  <2>2. QED
    BY <2>1 DEF reconcile_unfinished, Record
<1>3. \A o \in Ids : Said'[o] = IF o \in S THEN "unknown" ELSE Said[o]
  BY <1>1, <1>2 DEF Said
<1>4. \A o \in S : Said[o] \in Unfinished
  BY <1>1 DEF Said
<1>5. AckKept
  BY <1>1, <1>2 DEF AckKept
<1>6. S \in SUBSET Ids
  BY <1>1
<1>7. QED
  BY <1>3, <1>4, <1>5, <1>6, Interrupts DEF LedgerStep

LEMMA RestartLedger == ASSUME IInv, Restart PROVE LedgerStep
<1>1. PICK base \in Nat :
        files' = [o \in Ids |-> IF o \in LoadedUnfinished
                                THEN reconcile_unfinished(o, base) ELSE files[o]]
  BY LoadedSeqsTypes DEF IInv, Restart
<1>2. index'.ids = index.ids /\ ran' = ran
  BY DEF Restart
<1>3. QED
  BY <1>1, <1>2, ReconciledLedger

LEMMA RestartInterruptedLedger == ASSUME IInv, RestartInterrupted PROVE LedgerStep
<1>1. PICK base \in Nat, last \in LoadedUnfinished :
        files' = [o \in Ids |-> IF o \in LoadedUnfinished /\ o <= last
                                THEN reconcile_unfinished(o, base) ELSE files[o]]
  BY LoadedSeqsTypes DEF IInv, RestartInterrupted
<1> DEFINE S == {o \in LoadedUnfinished : o <= last}
<1>2. \A o : o \in S <=> o \in LoadedUnfinished /\ o <= last
  OBVIOUS
<1>3. S \in SUBSET LoadedUnfinished
  OBVIOUS
<1> HIDE DEF S
<1>4. files' = [o \in Ids |-> IF o \in S THEN reconcile_unfinished(o, base) ELSE files[o]]
  BY <1>1, <1>2
<1>5. index'.ids = index.ids /\ ran' = ran
  BY DEF RestartInterrupted
<1>6. QED
  BY <1>3, <1>4, <1>5, ReconciledLedger

\* Every step of the engine is a step of the ledger, or none.
LEMMA NextLedger == ASSUME IInv, IInv', [Next]_vars PROVE LedgerStep
<1>1. CASE UNCHANGED vars
  BY <1>1, Stands DEF vars
<1>2. ASSUME NEW c \in Callers, NEW r \in Requests, SubmitKnown(c, r) \/ SubmitNew(c, r)
      PROVE  LedgerStep
  BY <1>2, Stands DEF SubmitKnown, SubmitNew
<1>3. ASSUME NEW c \in Callers, NEW o \in Ids, cancel(c, o) \/ resolve_block(c, o)
      PROVE  LedgerStep
  BY <1>3, Stands DEF cancel, resolve_block
<1>4. ASSUME NEW c \in Callers, CallStep(c) PROVE LedgerStep
  <2>1. CASE append(c) \/ AppendIndexFailed(c)
    BY <2>1, AppendLedger, AppendIndexFailedLedger
  <2>2. CASE finish_without_start(c) \/ mark_cancelled(c)
    BY <2>2, DeclineLedger
  <2>3. CASE acknowledge(c) \/ AcknowledgeIndexFailed(c)
    BY <2>3, AcknowledgeLedger, AcknowledgeIndexFailedLedger
  <2>4. CASE ContextRefused(c) \/ ContextPassed(c) \/ AppendFailed(c) \/ enqueue(c)
             \/ EnqueueRefused(c) \/ pump(c)
    BY <2>4, Stands DEF ContextRefused, ContextPassed, AppendFailed, enqueue,
       EnqueueRefused, pump
  <2>5. CASE RewriteFailed(c) \/ AcknowledgeFailed(c) \/ AcknowledgeRefused(c)
    BY <2>5, Stands DEF RewriteFailed, AcknowledgeFailed, AcknowledgeRefused
  <2>6. QED
    BY <1>4, <2>1, <2>2, <2>3, <2>4, <2>5 DEF CallStep
<1>5. ASSUME NEW o \in Ids, TaskStep(o) PROVE LedgerStep
  <2>1. CASE mark_started(o) \/ RunEffect(o) \/ finish(o)
    BY <2>1, MarkStartedLedger, RunEffectLedger, FinishLedger
  <2>2. CASE MarkStartedFailed(o) \/ FinishFailed(o) \/ block(o) \/ release(o)
    BY <2>2, Stands DEF MarkStartedFailed, FinishFailed, block, release
  <2>3. QED
    BY <1>5, <2>1, <2>2 DEF TaskStep
<1>6. ASSUME NEW k \in Keys, ReadSnapshot(k) PROVE LedgerStep
  BY <1>6, Stands DEF ReadSnapshot
<1>7. CASE Crash
  BY <1>7, Stands DEF Crash
<1>8. QED
  BY <1>1, <1>2, <1>3, <1>4, <1>5, <1>6, <1>7, RestartLedger, RestartInterruptedLedger
     DEF Next

LEMMA InitLedger == Init => Ledger!Init
BY DEF Init, Ledger!Init

\* The journal, read through its index, is an operation ledger: no crash, restart or
\* failed write takes the engine (jobs/mod.rs, journal.rs, recovery.rs) out of it.
THEOREM LedgerImplemented == Spec => ImplementsLedger
<1>1. IInv /\ IInv' /\ [Next]_vars => [Ledger!Next]_(Ledger!vars)
  BY NextLedger DEF LedgerStep, Said, GitRan, Ledger!vars
<1>2. QED
  BY InitLedger, Invariance, <1>1, PTL DEF Spec, ImplementsLedger, Ledger!Spec

---------------------------------------------------------------------------
(* Outcomes.                                                               *)

\* What the ledger's steps leave alone.
LEMMA LedgerIsFinal ==
    ASSUME IInv, LedgerStep, NEW o \in index.ids
    PROVE  /\ o \in index'.ids
           /\ files[o].status \in Terminal => files'[o].status = files[o].status
<1>1. o \in Ids /\ Said[o] = files[o].status /\ Said[o] # "none"
  BY DEF IInv, TypeOK, RecordsNameRequests, Said
<1>2. Said'[o] # "none" /\ (Said[o] \in Terminal => Said'[o] = Said[o])
  <2>1. CASE UNCHANGED <<Said, GitRan>>
    BY <1>1, <2>1
  <2>2. CASE Ledger!Next
    BY <1>1, <2>2 DEF Said, Terminal, Outcomes, Ledger!Next, Ledger!Accept, Ledger!Start,
       Ledger!Touch, Ledger!Settle, Ledger!Decline, Ledger!Interrupt, Ledger!Moved,
       Ledger!Unfinished, Ledger!Settled
  <2>3. QED
    BY <2>1, <2>2 DEF LedgerStep
<1>3. QED
  BY <1>1, <1>2 DEF Said

\* A published outcome never changes and a confirmation is never withdrawn, over any
\* number of restarts (journal.rs: "never rewritten").
THEOREM OutcomeAlwaysFinal == Spec => OutcomeIsFinal
<1>1. ASSUME IInv, IInv', [Next]_vars
      PROVE  \A o \in index.ids :
                /\ files[o].status \in Terminal => files'[o].status = files[o].status
                /\ files[o].acked => files'[o].acked
                /\ o \in index.ids'
  BY <1>1, NextLedger, LedgerIsFinal DEF LedgerStep, AckKept
<1>2. QED
  BY Invariance, <1>1, PTL DEF Spec, OutcomeIsFinal

---------------------------------------------------------------------------
(* Uncertain outcomes.                                                     *)

\* A record nobody confirmed, and what keeps writes from its key.
Uncertain(o) == records[o].status = "unknown" /\ ~records[o].acked
Held(o) == blocks[KeyAt(o)] # {} \/ KeyAt(o) \in lifted \/ tasks[o] = "block"

\* A step that rewrites at most one record, and leaves the others and what holds them.
LEMMA OthersStayHeld ==
    ASSUME IInv, UncertainStaysBlocked, NEW o \in Ids,
           \A p \in Ids : p # o => /\ records'[p] = records[p]
                                   /\ tasks[p] = "block" => tasks'[p] = "block",
           Uncertain(o)' => Held(o)', UNCHANGED <<blocks, lifted>>
    PROVE  UncertainStaysBlocked'
<1> SUFFICES ASSUME NEW p \in Known(records)', Uncertain(p)' PROVE Held(p)'
  BY DEF UncertainStaysBlocked, Uncertain, Held
<1>1. CASE p = o
  BY <1>1
<1>2. CASE p # o
  BY <1>2 DEF UncertainStaysBlocked, Uncertain, Held, Known, KeyAt
<1>3. QED
  BY <1>1, <1>2

\* A step that rewrites no record and takes no task from its block.
LEMMA AllStayHeld ==
    ASSUME UncertainStaysBlocked, UNCHANGED <<records, blocks, lifted>>,
           \A p \in Ids : tasks[p] = "block" => tasks'[p] = "block"
    PROVE  UncertainStaysBlocked'
BY DEF UncertainStaysBlocked, Known, KeyAt

\* A step of a call that writes the record of its operation.
LEMMA CallWritesHeld ==
    ASSUME IInv, UncertainStaysBlocked, NEW c \in Callers,
           \/ append(c) \/ AppendIndexFailed(c) \/ finish_without_start(c)
           \/ mark_cancelled(c) \/ acknowledge(c) \/ AcknowledgeIndexFailed(c)
    PROVE  UncertainStaysBlocked'
<1>o. PICK o \in Ids : o = calls[c].op
  BY DEF IInv, OwnedIsAlone, append, AppendIndexFailed, finish_without_start,
     mark_cancelled, acknowledge, AcknowledgeIndexFailed
<1>1. records \in [Ids -> Record] /\ UNCHANGED <<blocks, lifted, tasks>>
  BY DEF IInv, TypeOK, append, AppendIndexFailed, finish_without_start,
     mark_cancelled, acknowledge, AcknowledgeIndexFailed
<1>2. PICK r : Stored(o, r) /\ (r.status # "unknown" \/ r.acked)
  <2>1. CASE append(c) \/ AppendIndexFailed(c)
    <3>1. Stored(o, Accepted(c)) /\ Accepted(c).status # "unknown"
      BY <1>o, <2>1 DEF append, AppendIndexFailed, Accepted
    <3>2. QED
      BY <3>1
  <2>2. CASE finish_without_start(c) \/ mark_cancelled(c)
    <3>1. PICK s \in {"failed", "cancelled"} : Stored(o, [records[o] EXCEPT !.status = s])
      BY <1>o, <2>2 DEF finish_without_start, mark_cancelled, Rewrite
    <3>2. records[o] \in Record
      BY <1>1
    <3>3. [records[o] EXCEPT !.status = s].status # "unknown"
      BY <3>2 DEF Record
    <3>4. QED
      BY <3>1, <3>3
  <2>3. CASE acknowledge(c) \/ AcknowledgeIndexFailed(c)
    <3>1. Stored(o, Acknowledged(c))
      BY <1>o, <2>3 DEF acknowledge, AcknowledgeIndexFailed
    <3>2. records[o] \in Record
      BY <1>1
    <3>3. Acknowledged(c).acked
      BY <1>o, <3>2 DEF Acknowledged, Record
    <3>4. QED
      BY <3>1, <3>3
  <2>4. QED
    BY <2>1, <2>2, <2>3
<1>3. \A p \in Ids : records'[p] = IF p = o THEN r ELSE records[p]
  BY <1>1, <1>2 DEF Stored
<1>4. ~Uncertain(o)'
  BY <1>1, <1>2, <1>3 DEF Uncertain
<1>5. QED
  BY <1>1, <1>3, <1>4, OthersStayHeld

\* A step of a task: an unknown outcome is blocked before the slot is given back.
LEMMA TaskHeld ==
    ASSUME IInv, UncertainStaysBlocked, NEW o \in Ids, TaskStep(o)
    PROVE  UncertainStaysBlocked'
<1>1. records \in [Ids -> Record] /\ tasks \in [Ids -> TaskPc] /\ records[o] \in Record
      /\ blocks \in [Keys -> SUBSET Ids]
  BY DEF IInv, TypeOK
<1>2. CASE mark_started(o)
  <2>1. /\ Stored(o, [records[o] EXCEPT !.status = "running"])
        /\ \A p \in Ids : p # o => tasks'[p] = tasks[p]
        /\ UNCHANGED <<blocks, lifted>>
    BY <1>1, <1>2 DEF mark_started, Rewrite, TaskTo
  <2>2. ~Uncertain(o)' /\ \A p \in Ids : p # o => records'[p] = records[p]
    BY <1>1, <2>1 DEF Stored, Uncertain, Record
  <2>3. QED
    BY <2>1, <2>2, OthersStayHeld
<1>3. CASE finish(o)
  <2>1. PICK s \in Outcomes :
          /\ Stored(o, [records[o] EXCEPT !.status = s])
          /\ tasks' = [tasks EXCEPT ![o] = IF s = "unknown" THEN "block" ELSE "release"]
    BY <1>3 DEF finish, Rewrite, TaskTo
  <2>2. UNCHANGED <<blocks, lifted>> /\ \A p \in Ids : p # o => tasks'[p] = tasks[p]
    BY <1>1, <1>3, <2>1 DEF finish
  <2>3. records'[o].status = s /\ \A p \in Ids : p # o => records'[p] = records[p]
    BY <1>1, <2>1 DEF Stored, Record
  <2>4. Uncertain(o)' => Held(o)'
    BY <1>1, <2>1, <2>3 DEF Uncertain, Held
  <2>5. QED
    BY <2>2, <2>3, <2>4, OthersStayHeld
<1>4. CASE MarkStartedFailed(o) \/ RunEffect(o) \/ FinishFailed(o) \/ release(o)
  <2>1. tasks[o] # "block" /\ UNCHANGED <<records, blocks, lifted>>
        /\ \A p \in Ids : p # o => tasks'[p] = tasks[p]
    BY <1>1, <1>4 DEF MarkStartedFailed, RunEffect, FinishFailed, release, TaskTo
  <2>2. QED
    BY <2>1, AllStayHeld
<1>5. CASE block(o)
  <2>1. /\ o \in Known(records) /\ KeyAt(o) \in Keys
        /\ blocks' = [blocks EXCEPT ![KeyAt(o)] = blocks[KeyAt(o)] \union {o}]
        /\ UNCHANGED <<records, lifted>> /\ \A p \in Ids : p # o => tasks'[p] = tasks[p]
    BY <1>1, <1>5, JobsAssumption
       DEF IInv, TaskStages, RecordsNameRequests, Known, KeyAt, block, TaskTo
  <2>2. o \in blocks'[KeyAt(o)] /\ \A k \in Keys : blocks[k] \subseteq blocks'[k]
    BY <1>1, <2>1
  <2>3. \A p \in Known(records) : KeyAt(p) \in Keys
    BY JobsAssumption DEF IInv, RecordsNameRequests, KeyAt
  <2>4. QED
    BY <2>1, <2>2, <2>3 DEF UncertainStaysBlocked, Known, KeyAt
<1>6. QED
  BY <1>2, <1>3, <1>4, <1>5 DEF TaskStep

\* A start blocks the key of every record that may not be written over.
LEMMA RestartHeld == ASSUME IInv, IInv', Restart PROVE UncertainStaysBlocked'
<1>1. blocks' = reconcile(records') /\ up'
  BY DEF Restart
<1>2. PICK base \in Nat :
        records' = [o \in Ids |-> IF o \in LoadedUnfinished
                                  THEN reconcile_unfinished(o, base) ELSE load[o]]
  BY LoadedSeqsTypes DEF IInv, Restart
<1>3. \A o \in Known(records') :
        o \in index.ids /\ records'[o].req = files[o].req /\ files[o].req \in Requests
  <2> TAKE o \in Known(records')
  <2>1. o \in Ids /\ files[o] \in Record /\ LoadedUnfinished \subseteq index.ids
    BY DEF Known, IInv, TypeOK, LoadedUnfinished
  <2>2. o \in index.ids
    BY <1>2, <2>1 DEF Known, load, NoRecord
  <2>3. records'[o].req = files[o].req
    BY <1>2, <2>1, <2>2, ReconciledTypes DEF load, IInv
  <2>4. QED
    BY <2>2, <2>3 DEF IInv, RecordsNameRequests
<1>4. \A o \in Known(records') : KeyOf[files[o].req] \in Keys
  BY <1>3, JobsAssumption
<1>5. QED
  BY <1>1, <1>3, <1>4 DEF UncertainStaysBlocked, reconcile, blocks_writes, KeyAt

LEMMA NextHeld ==
    ASSUME IInv, IInv', UncertainStaysBlocked, [Next]_vars PROVE UncertainStaysBlocked'
<1>1. CASE UNCHANGED vars
  BY <1>1, AllStayHeld DEF vars
<1>2. ASSUME NEW c \in Callers, NEW r \in Requests, SubmitKnown(c, r) \/ SubmitNew(c, r)
      PROVE  UncertainStaysBlocked'
  BY <1>2, AllStayHeld DEF SubmitKnown, SubmitNew
<1>3. ASSUME NEW c \in Callers, NEW o \in Ids, cancel(c, o)
      PROVE  UncertainStaysBlocked'
  BY <1>3, AllStayHeld DEF cancel
<1>4. ASSUME NEW c \in Callers, NEW o \in Ids, resolve_block(c, o)
      PROVE  UncertainStaysBlocked'
  <2>1. /\ UNCHANGED <<records, tasks>> /\ lifted' = lifted \union {KeyAt(o)}
        /\ blocks' = [blocks EXCEPT ![KeyAt(o)] = {}]
    BY <1>4 DEF resolve_block
  <2>2. \A p \in Known(records) : KeyAt(p) \in Keys
    BY JobsAssumption DEF IInv, RecordsNameRequests, KeyAt
  <2>3. QED
    BY <2>1, <2>2 DEF UncertainStaysBlocked, Known, KeyAt, IInv, TypeOK
<1>5. ASSUME NEW c \in Callers, CallStep(c) PROVE UncertainStaysBlocked'
  <2>1. CASE \/ append(c) \/ AppendIndexFailed(c) \/ finish_without_start(c)
             \/ mark_cancelled(c) \/ acknowledge(c) \/ AcknowledgeIndexFailed(c)
    BY <2>1, CallWritesHeld
  <2>2. CASE ContextRefused(c) \/ ContextPassed(c) \/ AppendFailed(c) \/ enqueue(c)
             \/ EnqueueRefused(c)
    BY <2>2, AllStayHeld DEF ContextRefused, ContextPassed, AppendFailed, enqueue,
       EnqueueRefused
  <2>3. CASE RewriteFailed(c) \/ AcknowledgeFailed(c) \/ AcknowledgeRefused(c)
    BY <2>3, AllStayHeld DEF RewriteFailed, AcknowledgeFailed, AcknowledgeRefused
  <2>4. CASE pump(c)
    <3>1. \A o \in take_startable : tasks[o] = "none"
      BY DEF IInv, QueueStages, take_startable, Startable
    <3>2. QED
      BY <2>4, <3>1, AllStayHeld DEF pump
  <2>5. QED
    BY <1>5, <2>1, <2>2, <2>3, <2>4 DEF CallStep
<1>6. ASSUME NEW k \in Keys, ReadSnapshot(k) PROVE UncertainStaysBlocked'
  BY <1>6, AllStayHeld DEF ReadSnapshot
<1>7. CASE Crash
  BY <1>7 DEF Crash, UncertainStaysBlocked, Known, NoRecord
<1>8. CASE RestartInterrupted
  BY <1>8, AllStayHeld DEF RestartInterrupted
<1>9. QED
  BY <1>1, <1>2, <1>3, <1>4, <1>5, <1>6, <1>7, <1>8, TaskHeld, RestartHeld DEF Next

\* A block stands for every outcome nobody established until a person lifts it, over any
\* number of restarts (recovery.rs).  It says that the block is there, not that no write
\* is accepted: submit reads the block before it awaits the context.
THEOREM UncertainAlwaysBlocked == Spec => []UncertainStaysBlocked
<1>1. Init => UncertainStaysBlocked
  BY DEF Init, UncertainStaysBlocked, Known, NoRecord
<1>2. IInv /\ IInv' /\ UncertainStaysBlocked /\ [Next]_vars => UncertainStaysBlocked'
  BY NextHeld
<1>3. QED
  BY <1>1, <1>2, Invariance, PTL DEF Spec

=============================================================================
