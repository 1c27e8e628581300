# Refyard: a TLA+ verification project

Refyard is a local-first Git workbench. A host process owns the repositories, runs Git, keeps
a journal of every write and streams hints to its clients. There are two hosts with one
contract: the native one in Rust (`crates/`) and the Node one in TypeScript
(`packages/host-node`). This project models the parts of it that a test reaches with
difficulty: the write path across threads, failed disk writes, crashes and restarts, and the
event stream across lost connections, the Git workflows and what they report when a command
is killed or another program interferes, who may address which repository while it is
registered and revoked, and the terminal from the tab to the shell.

## 1. Inventory

| component | state it keeps | operations | hard behaviour |
|---|---|---|---|
| job queue (`jobs/queue.rs`, `coordinator/queue.ts`) | pending tickets, running map, writer and reader counts per repository | enqueue, cancel, take_startable, release | limits and order under any interleaving, counters that must mirror the running map, starvation |
| mutation engine (`jobs/mod.rs`) | operation id counter, spawned tasks | submit, cancel, pump, run_ticket | checks before an `await`, tasks that fail or panic, retries |
| journal (`jobs/journal.rs`) | records in memory; one file per record; an index file | append, mark_started, finish, mark_cancelled, finish_without_start, acknowledge, reconcile_unfinished, load | two files per change, each of which may fail or be the last before a crash |
| recovery (`jobs/recovery.rs`, `service.rs`) | write blocks per repository | reconcile, block, block_for, resolve_block, acknowledge_uncertain_operation | blocks rebuilt after any number of restarts |
| event stream (`events.rs`, `refyard-http/src/events.rs`, `git-client/src/events.ts`) | ring, sequence, live channel; forwarding task; client cursor | publish, replay, subscribe, recv, connect, handleFrame | mint and send in two steps, lag, gap notices, resume |
| Node engine and journal (`coordinator/jobs.ts`, `submit.ts`, `journal/*.ts`) | jobs, JSONL journal, blocks | submit, pump, transition, append, compact, recover | awaits between check and use, compaction against appends, torn lines, second restart |
| workflows and effects (`git-core/src/workflows`, `coordinator/*-effects.ts`) | none of their own: the worktree, its markers, the stash list | one function per Git operation | several commands per operation, each of which may be killed, cut off or fail to start; other programs in the same worktree |
| repository access (`registry/*.ts`, `journal/access.ts`, `http/auth.ts`, `http/server.ts`) | repositories, worktrees, roots, pins; the access journal; tickets, sessions and their grants | register, revoke, list, read, approve; mint, exchange, authorize, grant | registries that must agree across awaits; grants that live in tickets, sessions and requests under way |
| terminal (`terminal/service.ts`, `http/hono-app.ts`, `git-client/src/terminal.ts`, `terminal-tab-session.ts`) | shells, their buffers and subscribers; the tab | open, input, output, close, sweep | requests that overtake each other, output before the stream, tabs closed half way |
| previews, snapshots (`coordinator/previews.ts`, `files/preview.rs`, `snapshots.rs`) | handles, snapshots, cursors, time to live | mint, redeem, get, resolve_cursor, evict | all-or-nothing redemption, stale entries |
| reads, parsers, planners, graph, processes, SSH, HTTP parsing, providers, apps | none, or the operating system's | | text and I/O |

How they interact: a client calls `submit` over HTTP or Tauri; the engine reads the journal
(idempotency) and the recovery (block), awaits the fresh context, journals the operation,
queues it and pumps; a pumped ticket becomes a Tokio task that journals `running`, runs the
effect, journals the outcome and, if nobody knows it, blocks the repository; every journal
change is published to the event sink, which clients follow with a cursor. At a start the
journal is loaded, what was unfinished becomes `unknown`, the blocks are derived from the
records and the id counter from the highest id. The Node host has the same parts on one
thread: there the interleaving is at awaits, and the journal is one file of lines. An effect is
a workflow of Git commands. Before any of this a request passes the session's grants and the
registry; revoking a repository withdraws both. The terminal is a service beside the write path.

What makes each part correct: the queue never starts two writers of one repository and
starts what can start; the engine runs Git at most once per operation, never before the
disk says so, and tells a client nothing a restart would forget; the journal never rewrites an outcome; the
recovery keeps a block on a repository until a person looked; the stream delivers an event or says it did
not; an outcome says of the worktree what is true of it, and a workflow never ends what another
program began; the registries name the same repositories, and a grant is withdrawn only after
the audit says so; a terminal tab says of its shell what it was told, and takes it
with it.

`PROJECT.json` lists every component, modelled or not, with the reason, and the hazards by line.

## 2. Modules

| module | what it is |
|---|---|
| `Queue` | the bounded queue with reads and writes; one action per operation (each holds the one mutex throughout) |
| `NativeJobs` | engine, journal, recovery and acknowledgement of the native host, with crashes, restarts and faults |
| `OperationLedger` | what the write path promises, without queues, threads or files |
| `NativeJobsProofs` | the inductive invariant of `NativeJobs`, and that it implements `OperationLedger`; outcomes and blocks |
| `EventStream` | sink, forwarding task and reconnecting client |
| `NodeJobs` | engine, journal file, retention and recovery of the Node host, with crashes, torn writes and failing I/O |
| `Workflows` | the Git operations of the Node host, command by command, against a worktree other programs share |
| `Access` | registries, access journal, tickets, sessions and the requests that use them |
| `Terminal` | tab, client, output stream and terminal service |
| `QueueProofs`, `NodeJobsProofs`, `EventStreamProofs`, `WorkflowsProofs`, `AccessProofs`, `TerminalProofs` | the inductive invariants of those modules and the theorems |
| `SequenceInduction` | induction stated without an operator parameter, and what a loop over the naturals computes |
| `MCQueue`, `MCNativeJobs`, `MCNodeJobs`, `MCWorkflows`, `MCAccess` | the instances TLC checks (`EventStream` and `Terminal` are checked directly) |

Operators keep the names of the functions they model; operators with a suffix
(`can_start_OffByOne`) are the mutants: plausible bugs each property is shown to catch.

### Queue

`pending`, `running`, `writers`, `readers` are the fields of `QueueState`. `Pass` is the loop of
`take_startable`: `After[i]` is what it has done when it has `Considered` the first `i` tickets. A ticket may be enqueued again after its release, which stands for
new jobs of the same kind. The map names the TypeScript queue, whose `run` is `take_startable`; the
Rust queue does the same under one mutex. `TypeOK` includes that the counters kept apart from
the running map (`BookkeepingExact`) mirror it. `PassOfWrites` shows the loop equal to the closed form that
`NativeJobs` uses for its pass (all its tickets are writes).

### NativeJobs

One action is what one call does under one lock; a call's place is in `calls`, a `run_ticket`
task's in `tasks`. The state is `records`/`nextSeq` (journal memory), `files` and `index` (disk),
`blocks` (recovery), `arrival`/`running` (queue), `nextOp` (id counter), and history variables
(`ran`, `answered`, `lifted`) that only properties read. `arrival[o]` is the ticket's place in
the pending list, 0 when it has none.

| code | actions |
|---|---|
| `submit` | `SubmitKnown` (idempotent answer) or `SubmitNew` (block read, context awaited); `ContextRefused` / `ContextPassed`; `append` / `AppendFailed` / `AppendIndexFailed`; `enqueue` / `EnqueueRefused` + `finish_without_start`; `pump` |
| `cancel` | `cancel` (queue), `mark_cancelled` / `RewriteFailed` (journal) |
| `run_ticket` | `mark_started` / `MarkStartedFailed`, `RunEffect`, `finish` / `FinishFailed`, `block`, `release` (the slot guard) |
| `acknowledge_uncertain_operation` | `resolve_block`, then `acknowledge` or one of its three failures; `ReadSnapshot` is the read that mints the confirming snapshot |
| `with_state_root` | `Restart` (load, reconcile, blocks, id seed), `RestartInterrupted` (dies part way) |
| the environment | `Crash` |

A failed write (`Fault`) can hit any file write; `FinishFailed` is also a panicking effect. A
crash between a record's file and the index leaves the disk as a failed index write does, so
`AppendIndexFailed` followed by `Crash` is that crash. Files are replaced by a rename
(`write_atomic`), so no record is half written. An effect is any of its four outcomes. All
preconditions other than the block are a free choice between `ContextRefused` and `ContextPassed`.
`SubmitNew` reads the lookup (`mod.rs:1116`) and the block (`mod.rs:1148`), which have a lock
each, in one step. `AnsweredSurvives` is about the answer "accepted": after `AppendIndexFailed` a
retry is told "duplicate" of a record that a restart no longer finds. `UncertainStaysBlocked`
says that the block is there, not that no write is accepted or run: a call that has read the
block before, or a ticket queued before, goes on (`MCNativeAccept.cfg`).

### EventStream

An event is its sequence. `publish` is `Mint` (under the lock) and `Send` (after it). The ring
keeps `oldest..sequence`; the byte limit is a free choice of evicting more. `conn` is the
client's connection and its forwarding task: the frames it is about to send (`out`), the live
channel (`chan`, `lagged`), `delivered` and `pending_gap_from`. The client takes a frame when the
task sends it: a buffer between them would only delay the client, and what it is told does not
depend on when. A restart is left out because sessions live in memory: the old bearer is refused
and the client stops. `owed`, `told`, `overtaken`, `cutShort` are history. `cutShort` is set by
what a cut leaves behind (a frame behind the cursor that was still to be sent), which is wider
than the case the code has, a replay cut after its gap notice.

### NodeJobs

One thread: an action is what runs between two awaits. `file` and `torn` are `journal.jsonl`,
`tmp` the compacted copy before its rename, `entries` and `bytes` the store's memory. An append
that finds the file over its limit compacts first, in three steps (`CompactWrite`,
`CompactRename`, `CompactDone`) between which other appends run; then `AppendWrite` and `Store`.
`io[o]` is where the append of operation `o` stands and `job[o]` what the engine does once it
returns: `Submit`/`SubmitPassed`/`Enqueue` (submit), `Pump` and `RunEffect` (pump and the
transition to running), `EffectEnds`, `Finish` (the transition to an outcome and the next pump),
`Cancel`. `IoFails` is any failing file operation; a write that fails may have left part of its
line (`AppendCut`). `Crash` loses everything but the file, whose last write may be torn
(`CutOff`), recovery's own included; `Restart`, `RecoverCompacts` and `Recover`, `Serve` are load,
recovery (the compaction its append makes, then the append or its refusal) and the first request.
The lookup of a client request id sees `MaxLookup` records, any of them: sequences are left out.
`Pass` is `queue.run`: what is left of the queue and who runs when every ticket was `Considered` in
order. `LinesOf` numbers the records a compaction writes by their `Rank`.
`lost` records what a compaction or a torn line destroyed and what a failed write left in part;
the properties of `node_jobs` except it by name. What is hidden by that, and by looking only at
appends that are over, is in two properties without the exception that the code does not keep:
`RunsOnRecord` and `CancelledIsRecorded`.

### Workflows

Every `engine.run` is a step, so `Outside` (another program) can act between any two. `repo` is
the worktree: HEAD, the open markers, unmerged stages, the stash, one version for the rest. `op`
and `pc` are the operation and its stage: `Probe` the markers, one `Run...` action per family of
operations, `Compare` (commit: did HEAD move), `Reread` (markers again), `Count`, `AutoAbort`,
`ReadHead`, `Report`. A command ends in one of the ways `GitHostPort` reports (`GitRuns`); what
Git does to the worktree in each is external. A HEAD or stash entry that is made is one not used
so far, by number (`NewHead`, `NewEntry`). `blind`, `disturbed`, `mine`, `killed`, `did` are history.

### Access

A request is a slot in `call`, named by the await it stands at: a registration runs `PathResolved`,
`RootApproved`, `LayoutRead`, `Pinned`, then its worktrees and the journal; a revocation waits for
the body, the shared chain and the journal; a list re-reads the worktrees of every record. `registry`
are the maps of the registries, `audit` the journal and its append chain, `auth` the tickets and
sessions with the grants each carries. A request keeps the copy of the grants it was authorised
with. `Expire` is any expiry or eviction, oldest first. One failure of Git, the disk or a client
may hit any await. Whether a list can reconcile the worktrees is asked when it arrives, which the
code asks after its awaits (`repositories.ts:277`). `AuditedWithdrawal` is about grants that name
the repository; access that comes and goes with a root is not in it.

### Terminal

`tab` is the browser's side with its stream (`wire`: frames on the way), `posts` the requests on
their way, which may overtake each other, `shell` the processes and `listed` the service's map.
The actions on the host are `OpenArrives` (sweep, limit, spawn), `InputArrives`, `CloseArrives`,
`StreamArrives` (subscribe), `Detach` (the cleanup of a response), `Write` and `Ends` (the pty's
callbacks, `deliver` and `finish`); those in the browser `StartTab`, `OpenAnswered`, `Type`,
`InputFailed`, `FrameRead`, `Destroy`. What fails on the way is `Fault`: an open that is refused,
or whose answer is lost when the shell runs already (`OpenFails`), an input, an output request or
a close that does not get through or is refused for the login's sake (`InputFails`,
`StreamFails`, `CloseFails`), a frame that cannot be read (`FrameFails`), a stream that drops
(`Drop`). A tab's `fault` says which of its requests failed; an input or an output that fails
shows the tab as ended although its shell may live, a close that fails tells nobody. After an
exit neither side closes the stream, so an exited shell whose tab is still shown keeps its slot.
Exit codes, what a shell does with its input, and resize are left out.

## 3. Runs

| run | bounds | shows |
|---|---|---|
| `queue` | 3 writes and 3 reads over 2 repositories and 2 actors; 2 queued per actor, 3 processes, 2 readers | exact counters (`TypeOK`), the limits (`LimitsHold`), writes of a repository start in order (`WritesKeepTheirOrder`), the closed form (`PassOfWrites`), no starvation (`QueuedJobStarts`) |
| `native_core` | 2 callers, 2 requests on one repository, 2 operations, 2 crashes, 1 fault | `OneWriterPerKey`, `EffectIsOnRecord`, `EffectAtMostOnce`, `MemoryIsDurable`, `FreshIds`, `AnsweredSurvives`, `UncertainStaysBlocked`, `OutcomeIsFinal`, and the refinement `ImplementsLedger` |
| `native_live` | 1 caller, 3 requests on 2 repositories (two share a client request id), 2 operations, 1 crash, 1 fault | `SlotIsReleased`, `CallReturns` |
| `events` | 5 events, ring 2, channel 2, 2 publishers, 2 lost connections | `ConnectedKnowsAll`, `LostOnlyByKnownCauses`, `EventArrives` |
| `node_jobs` | 1 caller, 3 operations on one repository, a journal of 3 lines, 1 crash, 1 fault | `OneWriterPerKey`, `EffectIsVisible`, `MemoryIsDurable`, `QueuedIsStarted` |
| `workflows` | 3 operations in a row of all kinds (less those that differ in name only), 1 command that does not exit, 1 change by another program | `FailedChangedNothing`, `MarkersAgree`, `AbortsOnlyItsOwn`, `KilledIsNotFailed`, `DropsTheNamedEntry` |
| `access` | 3 requests, 2 at a time, 2 tickets minted, 3 paths of 2 repositories (two worktrees of one, another inside), 1 failure | `OneSessionPerTicket`, `NothingOutlivesItsRecord`, `AuditedWithdrawal` |
| `terminal` | 2 tabs, 1 shell at a time, a buffer of 1 piece, 2 pieces of output, 1 input per tab, 1 request or frame that fails or stream that drops | the limit (`TypeOK`), `EndedByExitOrFault`, `EndedShowsTheRest`, `DestroyedTabEndsItsShell` |

The bounds are the smallest at which the cases meet: two operations of one repository contend
for the slot while a third party cancels or acknowledges; two crashes let a restart be
interrupted or repeated (the second restart is where a block could be forgotten and an orphan
file's id is minted again); one fault per run hits each write in turn. The queue limit of 1
makes the queue refuse. Two processes with one repository make the repository, not the limit,
the reason a ticket waits; `queue` covers the limit. In `events`, five events let a client get a
cursor, fall behind the ring of two and lag behind the channel of two, with an overtaking send.
At four events the second loss after a cut replay does not happen; five is needed. In
`node_jobs` three operations and three lines let an append find the journal full, compact it
while another appends, and then fail (half a line written or none) or crash. In `workflows` the third operation meets the
marker the first left and the change made during the second. In `access` two requests cross at
every await and the third observes what they left, with more tickets than the one the store
keeps. In `terminal` two tabs contend for the one slot, and two pieces overflow the buffer.

Fairness. `native_live`: every call and every task that can go on does (Tokio polls what it
spawned; a context read and an effect end). Nothing is assumed of clients, faults, crashes or
restarts. `queue`: whoever holds a slot releases it, and the pass is taken again; the queue
cannot assure the second itself, and `MCNativeStall.cfg` shows the native engine does not either.
`events`: a publisher that minted sends, and the task runs while its client reads. `node_jobs`:
timers, file operations and effects that are under way end. `terminal`: an open and a close that
were sent arrive and are answered or fail, and a killed shell ends; the page stays, or nothing
would close what it opened. Deadlock is not checked in `events`, `node_jobs`, `workflows`, `access` and `terminal`,
where the bounded users may simply have nothing left to do.

### Findings

Each is a run that TLC must find violated, with the line of the repository it contradicts.

- `native_retry` (`RetryIsNotASecondWrite`): the idempotency lookup precedes an `await`; two
  concurrent submissions of one request both run.
- `node_torn` (`CrashLeavesReadable`): a restart appends its recovery record to the torn last
  line of a crash; after a third record the journal cannot be loaded and the service does not start.
- `workflow_foreign` (`EndsNothingForeign`): a probe that was killed reads as "no revert in
  progress", and the workflow then aborts the revert another program began.
- `access_revoked` (`RevokedStaysRevoked`): a list that awaits Git for a record's worktrees
  enters the record again, also when it was revoked meanwhile.

These disagreements have no listed run. Each is a property with a configuration of its own, under
which TLC finds it violated:

| configuration | property | what happens |
|---|---|---|
| `MCNativeStall.cfg` | `QueuedIsStarted` | the native `pump` is only called by `submit`: a write queued behind another starts when somebody submits again |
| `MCNativeAccept.cfg` | `BlockedAcceptsNothing` | the block is read before an `await`: a request is accepted for a repository blocked meanwhile |
| `MCNativeAttention.cfg` | `BlockRuleAgrees` | `needsAttention` does not block the process that saw it, but the next one, which cannot acknowledge it |
| `MCNativeRefusal.cfg` | `RefusedIsNotAccepted` | after a failed index write the client is refused and its retry is told "duplicate" of an operation nobody runs |
| `MCNodeCancel.cfg` | `CancelledIsRecorded` | `cancel` emits and answers "cancelled" without awaiting its append (`jobs.ts:542`); a full journal refuses it and the record stays accepted, in memory and on file, without a ticket: it never runs, cannot be cancelled again, and the next start reports it unknown and blocks its repository. `jobs.ts:234-236` says a transition that could not be recorded is reported as unknown "rather than pretending a state that is not on disk" |
| `MCNodeCompact.cfg` | `RunsOnRecord` | a compaction writes what it kept before its awaits (`store.ts:301-346`): with two of them, the lines of an operation the first let in are gone, and Git runs for it with nothing on file, against the header of `store.ts` |
| `TerminalDrop.cfg` | `DroppedStreamIsReported` | the reader of a stream that drops calls no observer (`git-client/src/terminal.ts:172`) although its header says the observer hears an error: the tab looks alive |
| `EventStreamGap.cfg` | `ResumeLosesNothing` | the gap notice of a replay moves the cursor past the events that follow it; overtaking sends are the other cause `LostOnlyByKnownCauses` names |
| `MCWorkflowsPull.cfg` | `FailedPullKeptBranch` | a killed fast-forward that moved the branch is reported failed with the words that it did not |
| `MCWorkflowsApply.cfg` | `CleanExitChangedNothing` | a stash applied with conflicts is reported as an operation Git refused |
| `MCAccessTwice.cfg` | `OneRecordPerRepository` | two registrations cross between the look-up and the entry: one repository under two ids, hence two writers |

Noticed while modelling, and without a property: a write stopped at the output limit is reported
failed (`effects-support.ts:116`); a continue claims success when another program aborted
(`merge.ts:223`); an input refused after an exit reports the end again; an input or an output
request that fails, after the login expired for one, shows a living shell as ended
(`git-client/src/terminal.ts:108`, `:160`), which `EndedByExitOrFault` therefore allows; an open
whose answer is lost and a close that fails leave the shell in its slot (`terminal.ts:133`); the
header of `terminal/service.ts` (16-18) says the buffer keeps the shell's first bytes, while line
106 and the code keep the last ones, as `EndedShowsTheRest` states it; an exit observed before the stream attached is told without its code
(`terminal/service.ts:308`); a page that goes away leaves its shells in their slots; blocks of the
Node recovery are keyed by ids that a restart gives anew (`recovery.ts:97`), and are forgotten by the second one.

## 4. Proofs

Each theorem below holds for every value of the constants that the module's assumption admits; the
runs show the same properties on one small instance. Every inductive invariant was model-checked
on the instance of the module's run before it was proved.

`NativeJobsProofs` proves, for every number of callers, requests, repositories, operations,
crashes and faults, from `JobsAssumption` alone (what kind of constants they are):

| theorem | statement |
|---|---|
| `Invariance` | `Spec => []IInv` |
| `TypeCorrect`, `OneWriterAlways`, `EffectAlwaysOnRecord`, `EffectNeverRepeated`, `MemoryAlwaysDurable`, `IdsAlwaysFresh`, `AnsweredAlwaysSurvives` | `Spec => []P` for the invariant of `native_core` each is named after |

None of these invariants is inductive alone. `IInv` adds what ties the pieces together: nothing
is left in memory when the process is down (`DownIsEmpty`); a record names its request
(`RecordsNameRequests`); a record the index does not name yet is still `accepted`
(`UnindexedIsAccepted`); an operation belongs to one call or one task or the queue
(`OwnedIsAlone`), and each stage of a call, of the queue and of a task implies the record's
status (`CallStages`, `QueueStages`, `TaskStages`); every id in use is below the counter
(`IdsBelowCounter`); what was answered is on disk (`AnsweredOnDisk`). The heart of the argument
is the last three together: an orphan file whose id is minted again can be overwritten only
because no task ever ran for it, since a task implies an indexed record. Each action has a
lemma, with a step per conjunct it can disturb.

The rest of the module builds on that invariant:

| theorem | statement |
|---|---|
| `LedgerImplemented` | `Spec => ImplementsLedger`, the refinement of `OperationLedger` |
| `OutcomeAlwaysFinal` | `Spec => OutcomeIsFinal` |
| `UncertainAlwaysBlocked` | `Spec => []UncertainStaysBlocked` |

The refinement mapping reads a status only from a file the index names (`Said`). An append or a
confirmation rewrites the index from memory, so it may publish several operations at once, also
those an earlier failed index write left out; they are all `accepted` (`UnindexedIsAccepted`),
which is the ledger's `Accept(S)`. The rewrite of a record is a `Start`, `Decline` or `Settle`
because a task implies the status its stage expects (`TaskStages`), `RunEffect` is a `Touch`
because Git has not run yet, and a restart, also one that dies half way, is an `Interrupt(S)`. That
outcomes are final then follows from the ledger's steps alone, except for confirmations, which the
ledger does not know. `UncertainStaysBlocked`, that a block stands for every outcome nobody
established, is inductive given `IInv`: `finish` leaves an unknown
record to the task's `block` stage, and a start derives the blocks from every record it loaded.

`TerminalProofs` proves, for every number of tabs, shells, pieces of output, inputs and failures
(dropped streams, lost or refused requests, unreadable frames) and for every buffer, from `TerminalAssumption` alone:

| theorem | statement |
|---|---|
| `TerminalInvariance` | `Spec => []IInv` |
| `TerminalTypeCorrect` | `Spec => []TypeOK`: the limit on shells and the bound of each buffer |
| `EndedOnlyByExitOrFault` | `Spec => []EndedByExitOrFault` |
| `TheRestIsAlwaysShown` | `Spec => []EndedShowsTheRest` |

A tab shows its shell as ended because of a frame, of an input the service refused, or of an input
or output of its own that failed; and the service refuses also when the session is no longer in the
map. The property says that nothing another tab does and no order of arrival is ever the reason.
It rests on: tabs and sessions name each other (`SessionsHaveTabs`); a close is only ever sent for
a tab that is gone, and a refusal only once the tab or its shell is over (`RequestsAgree`); a
session that left the map, swept or closed, is over (`UnlistedIsOver`); an exit on a stream belongs
to a shell that ended (`StreamsAgree`); and a tab that shows its end is over for good, or failed
itself (`EndedIsOver`).

`EndedShowsTheRest` needs to know where the rest of the output is at any time, which a second
invariant says (`Rest`, proved on top of `IInv`). Before the stream attaches, the buffer ends with
the last piece written and has no gap (`RunsTo`: `Buffered` gives up the oldest piece first). While
the stream is up, what the tab saw and then what is on the wire continue each other to the last
piece, with the exit as the one frame behind them (`Carries`). A tab that was told its shell ended
on that stream has therefore seen everything since the buffer's first piece.

`AccessProofs` proves, for every number of requests, directories, tickets and sessions, any nesting
of the directories and any mix of failures, from `AccessAssumption` alone:

| theorem | statement |
|---|---|
| `AccessInvariance` | `Spec => []IInv` |
| `AccessTypeCorrect` | `Spec => []TypeOK` |
| `TicketsAreSingleUse` | `Spec => []OneSessionPerTicket` |
| `NothingIsLeftBehind` | `Spec => []NothingOutlivesItsRecord` |
| `WithdrawalsAreAudited` | `Spec => AuditedWithdrawal` |

Requests keep a record over an await and enter it later, also after a revocation took it out, so
the registries stay consistent only because whoever holds a record of an id agrees with the
others and with the registry on its path and root (`HoldersAgree`), a root's list names
repositories registered under it (`AttachedAgree`), and an id that is being registered is held by
one registration and attached nowhere (`FreshIsAlone`): a failed registration can therefore take
back its record and leave nothing. `AuthInv` says of the tickets that those left were never
exchanged. What housekeeping, expiry and an exchange do to a sequence of tickets or sessions is
one relation, `Part`, proved once for `KeepNewest`, `Tail` and `RemoveAt`. That withdrawals are
audited takes no further invariant: a session is known by its id, so a step that keeps or drops
sessions takes nothing from any of them, and the one step that does has written the revocation.
The two findings about this component are outside these theorems: a revoked record that comes back
(`RevokedStaysRevoked`) and a repository under two ids (`OneRecordPerRepository`) break neither.

`QueueProofs` proves, for every set of tickets, repositories and actors and every limit, from
`QueueAssumption` alone:

| theorem | statement |
|---|---|
| `TypeInvariance`, `LimitsAlwaysHold` | `Spec => []TypeOK`, `Spec => []LimitsHold` |
| `WritesStartInOrder` | `Spec => WritesKeepTheirOrder` |
| `PassComputesTheFirstWrites` | `Spec => []PassOfWrites` |

The pass is a recursive function over the pending list, so what is true of it is shown by
induction over the tickets considered. The library's induction takes an operator as its parameter,
which no prover here instantiates; `SequenceInduction` states it for sets of numbers instead
(`NatSetInduction`) and derives what a recursive function over `0..n` computes (`Loop`,
`Iteration`). Every turn keeps the counters equal to what the running map says (`Exact`) and within
the limits (`Within`), and splits the tickets considered into those started and those that wait,
in their order. Order then follows because a turn that leaves a write waiting leaves its
repository without a place for a later one in the same pass (`Waits`); over writes only, the tickets
started are the first of each free repository, which is the closed form `NativeJobs` uses.

`EventStreamProofs` proves, for every size of ring and channel and any number of publishers, events
and lost connections, from `StreamAssumption` alone:

| theorem | statement |
|---|---|
| `TypeInvariance` | `Spec => []TypeOK` |
| `QuietClientKnowsAll` | `Spec => []ConnectedKnowsAll` |
| `LossHasAKnownCause` | `Spec => []LostOnlyByKnownCauses` |

An event a connection owes its client was heard, or is in a frame of the task, in the channel, with
a publisher that minted but has not sent it, or was dropped by a lag that the next frame will name
(`Reaches`). A frame taken from the channel names a gap up to its own sequence, which is right only
because the channel is in order and unsent events come after it (`InOrder`, unless two sends
overtook each other) and because nothing before the start of the gap is missing (`Anchored`).
Across connections the same is said of the client's cursor (`Behind`) and of the cursor each frame
on its way will give it (`Ahead`): a cut with frames behind the cursor unsent breaks the second,
and is the other cause the property names.

`WorkflowsProofs` proves, for any number of operations, of commands that do not end by exiting and
of changes by other programs, from `WorkflowsAssumption` alone:

| theorem | statement |
|---|---|
| `Invariance`, `TypeInvariance` | `Spec => []IInv`, `Spec => []TypeOK` |
| `AFailureLeavesNothing`, `OutcomesTellOfMarkers`, `AbortsAreOwn`, `AKillIsNoFailure`, `OnlyTheNamedEntryGoes` | `Spec => []P` for `FailedChangedNothing`, `MarkersAgree`, `AbortsOnlyItsOwn`, `KilledIsNotFailed`, `DropsTheNamedEntry` |

An outcome is decided several commands after the one that changed the worktree, so the invariant
says, stage by stage, what the worktree is by then: nothing was written before the first write, and
a start whose probes were answered found no marker of its own (`Unwritten`, `Located`); the first of
two writes exited with 0 (`Halfway`); a commit that exited non-zero changed nothing or moved HEAD
(`Comparing`); what a stopped start or a continue left, and that the marker which will be aborted
was opened by this operation (`Judging` with `LeftBehind` and `HeldUp`); that the work was done when
HEAD is read for the report (`Heading`); and that no other stash entry has gone (`StashKept`). The
last step to `done` turns each of these into the property. Operations of several writes
(`Piecemeal`) are outside `FailedChangedNothing` as the code leaves them.

`NodeJobsProofs` proves, for every number of callers, requests, repositories and operations, every
limit of the queue and of the journal, and any number of crashes and failing file operations, from
`NodeAssumption` alone:

| theorem | statement |
|---|---|
| `Invariance`, `TypeInvariance` | `Spec => []IInv`, `Spec => []TypeOK` |
| `OneWriter` | `Spec => []OneWriterPerKey` |
| `EffectsAreVisible` | `Spec => []EffectIsVisible` |
| `MemoryIsOnDisk` | `Spec => []MemoryIsDurable` |

The properties are about `Loaded(file)`, so the proofs begin with what a file says after each way of
writing it: a line appended or glued to a torn tail (`AppendedSays`), a write that a crash or a
failure cut short (`TornSays`), and the lines of a compaction, which say exactly the records they were made from
(`LinesSay`). The invariant then says three things.

- Who waits for what (`Jobs`, `Queued`): an append is under way exactly for a job that waits for
  one, a slot is held exactly by a job that may write, a ticket has no job yet. `OneWriterPerKey`
  follows with an induction over the tickets of one pass (`PassWalks`): the pass compares
  repositories through `writing`, which keeps an operation's request when memory has lost its record.
- What the file owes (`Visible`, `Durable`): what waits for a slot, is about to run or runs is
  unfinished on file, and memory equals the file except between the write and the step that follows it,
  or between a rename and the step that follows it for an operation that is over.
- What a compaction may drop (`Past`): once its TTL has passed, an operation that no compaction
  destroyed has no job, no ticket and no append, and is absent from the copy of every compaction under
  way (`Dropped`). Without this a compaction that began earlier could bring back a record another has
  dropped, or memory and file could part for good.

A step of the engine ends the appends of some operations and begins those of others (`Ends`,
`Begins`); that this keeps the records is proved once (`AppendsKeepRecords`) for all its actions.
`lost` is excepted in all of this as the properties except it: the model has no more to say of an
operation whose line a compaction overtook, a torn tail swallowed or a failed write left in part.
`MemoryIsDurable` speaks of appends that are over: what was answered before, as `cancel` does, is not
in it. `CrashLeavesReadable`, `RunsOnRecord` and `CancelledIsRecorded` are not among the theorems
because they are false (`node_torn`, `MCNodeCompact.cfg`, `MCNodeCancel.cfg`).

Only model-checked: liveness (`QueuedJobStarts`, `SlotIsReleased`, `CallReturns`,
`EventArrives`, `QueuedIsStarted`, `DestroyedTabEndsItsShell`), which is outside what the prover
does. Every invariant and every action property that a passing run checks is a theorem.

## 5. Not modelled

What Git itself does, parsing and planning, graph layout, processes, SSH, HTTP parsing, providers
and the applications: text and I/O, or state outside the process. Most of the repository is user
interface (the Svelte components and stores of `apps/` and `git-ui`), generated code and readers
that turn Git's output into records; none of it holds state that two actors change. Of the Rust
host the effects, the registry, the sessions and the pty are not modelled; the modules model
their Node counterparts. Previews and snapshots are tables under one lock. In the
modelled parts: JSON shapes, messages and times; the rootless in-memory journal; the string
order of ids (the model orders them as numbers, and only the order in which a restart rewrites
records depends on it); the rest of `check_preconditions`.

## 6. Plan

1. Done: `Queue`, `NativeJobs`, `OperationLedger`, `EventStream`, `NodeJobs`, `Workflows`,
   `Access`, `Terminal`, and the proofs of all their safety properties.
2. Proofs: that `NodeJobs` makes the promises of a ledger of its own, with `lost` as the one way
   out: an outcome on file is final, and Git runs once per operation.
3. Previews and snapshots with their time to live (`coordinator/previews.ts`, `snapshots.rs`)
   under `Workflows`, and the blocks of a second Node restart once the code says what they are.
