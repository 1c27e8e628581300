------------------------------- MODULE Queue -------------------------------
(***************************************************************************)
(* The bounded job queue both hosts put in front of Git                    *)
(* (crates/refyard-host/src/jobs/queue.rs and its TypeScript twin          *)
(* packages/host-node/src/coordinator/queue.ts).                           *)
(*                                                                         *)
(* Every operation of the Rust queue holds the one mutex from its first    *)
(* read to its last write, so each is one action here.  The bookkeeping    *)
(* (writers, readers) is kept apart from the running tickets exactly as    *)
(* the code keeps it, because a release that does not mirror the start is  *)
(* what would leave a repository permanently busy.                         *)
(*                                                                         *)
(* A ticket that was released or cancelled may be enqueued again: that     *)
(* stands for the unbounded stream of new jobs of the same actor,          *)
(* repository and mode.                                                    *)
(***************************************************************************)
EXTENDS Naturals, FiniteSets, Sequences, SequencesExt

CONSTANTS Tickets,             \* the jobs a client may have at a time
          Keys,                \* repository write keys
          ActorOf,             \* [Tickets -> actors]
          KeyOf,               \* [Tickets -> Keys]
          ModeOf,              \* [Tickets -> {"read", "write"}]
          MaxQueuedPerActor,   \* max_queued_per_actor
          MaxGitProcesses,     \* max_global_git_processes
          MaxReadersPerKey     \* max_readers_per_repository

ASSUME QueueAssumption ==
    /\ KeyOf \in [Tickets -> Keys]
    /\ ModeOf \in [Tickets -> {"read", "write"}]
    /\ {MaxQueuedPerActor, MaxGitProcesses, MaxReadersPerKey} \subseteq Nat \ {0}

VARIABLES pending,   \* tickets waiting, in queue order
          running,   \* tickets started and not released
          writers,   \* keys with a running writer
          readers    \* running readers per key

vars == <<pending, running, writers, readers>>

Init ==
    /\ pending = <<>>
    /\ running = {}
    /\ writers = {}
    /\ readers = [k \in Keys |-> 0]

depth_for(a) == Cardinality({t \in ToSet(pending) : ActorOf[t] = a})

\* Mutant: the host's limit is off by one.
can_start_OffByOne(s, t) ==
    /\ Cardinality(s.running) <= MaxGitProcesses
    /\ KeyOf[t] \notin s.writers
    /\ ModeOf[t] = "read" => s.readers[KeyOf[t]] < MaxReadersPerKey

\* A write waits for the key's writer only; a read waits for the key's writer
\* and for one of the key's reader places.
can_start(s, t) ==
    /\ Cardinality(s.running) < MaxGitProcesses
    /\ KeyOf[t] \notin s.writers
    /\ ModeOf[t] = "read" => s.readers[KeyOf[t]] < MaxReadersPerKey

\* The state one pass works on: the running tickets, the two counters, and the
\* tickets it leaves waiting.
State == [waiting |-> <<>>, running |-> running, writers |-> writers, readers |-> readers]

\* Recording one ticket as running.
Started(s, t) ==
    [s EXCEPT !.running = @ \cup {t},
              !.writers = IF ModeOf[t] = "write" THEN @ \cup {KeyOf[t]} ELSE @,
              !.readers = IF ModeOf[t] = "read" THEN [s.readers EXCEPT ![KeyOf[t]] = @ + 1]
                                                  ELSE @]

\* Mutant: the pass ends at the first ticket that cannot start.
Considered_HeadOfLine(s, t) ==
    IF s.waiting = <<>> /\ can_start(s, t) THEN Started(s, t)
    ELSE [s EXCEPT !.waiting = Append(@, t)]

\* One turn of the loop: the ticket leaves the queue or keeps its place.
Considered(s, t) ==
    IF can_start(s, t) THEN Started(s, t) ELSE [s EXCEPT !.waiting = Append(@, t)]

\* Mutant: newest first.
Pass_NewestFirst == FoldLeft(Considered, State, Reverse(pending))

\* The state after i turns of the loop.
After[i \in 0 .. Len(pending)] ==
    IF i = 0 THEN State ELSE Considered(After[i - 1], pending[i])

\* One pass in queue order; a ticket that cannot start does not block the one
\* behind it.
Pass == After[Len(pending)]

---------------------------------------------------------------------------
enqueue(t) ==
    /\ t \notin running                  \* ids are minted once
    /\ depth_for(ActorOf[t]) < MaxQueuedPerActor
    /\ t \notin ToSet(pending)
    /\ pending' = Append(pending, t)
    /\ UNCHANGED <<running, writers, readers>>

cancel(t) ==
    /\ \E i \in DOMAIN pending : /\ pending[i] = t
                                /\ pending' = RemoveAt(pending, i)
    /\ UNCHANGED <<running, writers, readers>>

take_startable ==
    LET after == Pass IN
    /\ pending' = after.waiting
    /\ running' = after.running
    /\ writers' = after.writers
    /\ readers' = after.readers

\* Mutant: the writer's place is not given back.
release_KeepsWriter(t) ==
    /\ t \in running
    /\ running' = running \ {t}
    /\ readers' = IF ModeOf[t] = "write" THEN readers
                  ELSE [readers EXCEPT ![KeyOf[t]] = IF @ <= 1 THEN 0 ELSE @ - 1]
    /\ UNCHANGED <<pending, writers>>

release(t) ==
    /\ t \in running
    /\ running' = running \ {t}
    /\ IF ModeOf[t] = "write"
       THEN /\ writers' = writers \ {KeyOf[t]}
            /\ UNCHANGED readers
       ELSE /\ readers' = [readers EXCEPT ![KeyOf[t]] = IF @ <= 1 THEN 0 ELSE @ - 1]
            /\ UNCHANGED writers
    /\ UNCHANGED pending

Next ==
    \/ take_startable
    \/ \E t \in Tickets : enqueue(t) \/ cancel(t) \/ release(t)

\* The queue's contract with its caller: whoever starts a ticket releases it,
\* and the pass is taken again while something could start.
Fairness ==
    /\ WF_vars(take_startable)
    /\ \A t \in Tickets : WF_vars(release(t))

Spec == Init /\ [][Next]_vars /\ Fairness

---------------------------------------------------------------------------
RunningOn(k, mode) == {t \in running : KeyOf[t] = k /\ ModeOf[t] = mode}

\* The counters the starts and releases maintain separately always say what
\* is really running (queue.rs take_startable / release): a release that
\* freed the wrong place would leave a repository busy for ever.
BookkeepingExact ==
    \A k \in Keys :
        /\ k \in writers <=> RunningOn(k, "write") # {}
        /\ readers[k] = Cardinality(RunningOn(k, "read"))

\* The shape of the state, with the counters that mirror the running tickets.
TypeOK ==
    /\ pending \in Seq(Tickets)
    /\ running \subseteq Tickets
    /\ writers \subseteq Keys
    /\ readers \in [Keys -> Nat]
    /\ BookkeepingExact

\* The three limits of the header of queue.rs hold at once: one writer per
\* key, the readers of a key, the Git processes of the whole host.
LimitsHold ==
    /\ Cardinality(running) <= MaxGitProcesses
    /\ \A k \in Keys : /\ Cardinality(RunningOn(k, "write")) <= 1
                       /\ Cardinality(RunningOn(k, "read")) <= MaxReadersPerKey

\* Writes of one repository start in the order they were queued, across any
\* interleaving of enqueues, cancellations, passes and releases.
WritesKeepTheirOrder ==
    [][ \A i, j \in DOMAIN pending :
        (/\ i < j
         /\ {ModeOf[pending[i]], ModeOf[pending[j]]} = {"write"}
         /\ KeyOf[pending[i]] = KeyOf[pending[j]]
         /\ pending[j] \in running')
        => pending[i] \notin ToSet(pending')
      ]_vars

\* What a pass starts when only writes wait, in closed form: per free key its
\* first ticket, in order, while places are left.  NativeJobs takes its pass
\* from this form.
FirstWrites ==
    {i \in DOMAIN pending :
        /\ KeyOf[pending[i]] \notin writers
        /\ \A j \in 1..(i - 1) : KeyOf[pending[j]] # KeyOf[pending[i]]}
WritesTaken ==
    {pending[i] : i \in {n \in FirstWrites :
        Cardinality(running) + Cardinality({j \in FirstWrites : j < n}) < MaxGitProcesses}}

\* The loop of take_startable over queued writes computes exactly the closed
\* form, whatever reads and writes are running.
PassOfWrites ==
    (\A t \in ToSet(pending) : ModeOf[t] = "write") =>
        Pass.running = running \cup WritesTaken

\* No job starves: under passes that keep coming, a queued ticket is started
\* or cancelled, whatever stream of reads and writes competes with it.
QueuedJobStarts ==
    \A t \in Tickets : t \in ToSet(pending) ~> t \notin ToSet(pending)
=============================================================================
