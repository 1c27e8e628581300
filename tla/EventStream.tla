---------------------------- MODULE EventStream ----------------------------
(***************************************************************************)
(* The event stream of the native host, from a published hint to a client  *)
(* that loses its connection and resumes: EventSink                        *)
(* (crates/refyard-host/src/events.rs), the forwarding task of one SSE     *)
(* response (crates/refyard-http/src/events.rs) and the reconnecting       *)
(* client (packages/git-client/src/events.ts).                             *)
(*                                                                         *)
(* An event is its sequence.  publish is two steps, because the sequence   *)
(* is minted and the ring filled under the lock and the live send is made  *)
(* after it.  The frames between the task and the client are a pipe: the   *)
(* client takes a frame when the task sends it, and a connection that      *)
(* drops loses what the task still holds.                                  *)
(*                                                                         *)
(* A service restart is not an action: sessions live in memory (auth.rs),  *)
(* so the old client is answered 401 and stops.                            *)
(***************************************************************************)
EXTENDS Naturals, FiniteSets, Sequences, SequencesExt

CONSTANTS MaxEvents,       \* max_events of the ring
          ChannelCapacity, \* what the broadcast channel keeps for a subscriber
          MaxPublishers,   \* bound: threads inside publish
          MaxSequence,     \* bound: events published
          MaxDrops         \* bound: connections lost

ASSUME StreamAssumption ==
    /\ MaxEvents \in Nat \ {0} /\ ChannelCapacity \in Nat \ {0}
    /\ MaxPublishers \in Nat /\ MaxSequence \in Nat /\ MaxDrops \in Nat

VARIABLES
    sequence,  \* the last sequence minted
    oldest,    \* the ring holds oldest..sequence
    unsent,    \* minted, and not yet sent to the channel
    conn,      \* the client's connection and the task that serves it
    cursor,    \* the client's `sequence`
    \* history
    told,      \* sequences the client got, or was told it missed
    owed,      \* it is owed every event after this one
    overtaken, \* an event was sent to a subscriber before an older one
    cutShort,  \* a connection dropped with frames behind the cursor still to send
    drops

client == <<cursor, told>>
vars == <<sequence, oldest, unsent, conn, cursor, told, owed, overtaken, cutShort, drops>>

Nats == 0..MaxSequence
Option == {{}} \cup {{n} : n \in Nats}     \* Option<u64>
OrElse(o, n) == IF o = {} THEN n ELSE CHOOSE x \in o : TRUE

\* An envelope: its own sequence and the events it tells the client about.
Envelope == [sequence : Nats, tells : SUBSET Nats]
Event(n) == [sequence |-> n, tells |-> {n}]
Gap(n, from, to) == [sequence |-> n, tells |-> from..to]

Down == [state |-> "down", since |-> {}, from |-> 0, out |-> <<>>, delivered |-> 0,
         gapFrom |-> {}, chan |-> <<>>, lagged |-> FALSE, everLagged |-> FALSE,
         heard |-> {}]
Subscribed == conn.state # "down"

Init ==
    /\ sequence = 0 /\ oldest = 1 /\ unsent = {}
    /\ conn = Down
    /\ cursor = 0 /\ told = {} /\ owed = 0
    /\ overtaken = FALSE /\ cutShort = FALSE /\ drops = 0

---------------------------------------------------------------------------
(* EventSink.                                                              *)

\* Mutant: the ring is one event longer than its limit.
Evicted_OneLate(n) == {o \in oldest..(n + 1) : n + 1 - o <= MaxEvents + 1}

\* What the ring may hold after event n: at most MaxEvents, and fewer when the
\* byte limit is met first, down to none.
Evicted(n) == {o \in oldest..(n + 1) : n + 1 - o <= MaxEvents}

\* publish, under the lock.
Mint ==
    /\ sequence < MaxSequence
    /\ Cardinality(unsent) < MaxPublishers
    /\ sequence' = sequence + 1
    /\ oldest' \in Evicted(sequence + 1)
    /\ unsent' = unsent \cup {sequence + 1}
    /\ UNCHANGED <<conn, client, owed, overtaken, cutShort, drops>>

\* The channel drops its oldest event to make room, and the subscriber lags.
Pushed(n) ==
    LET chan == Append(conn.chan, n) IN
    IF Len(chan) <= ChannelCapacity THEN [conn EXCEPT !.chan = chan]
    ELSE [conn EXCEPT !.chan = Tail(chan), !.lagged = TRUE, !.everLagged = TRUE]

\* publish, after the lock.
Send(n) ==
    /\ n \in unsent
    /\ unsent' = unsent \ {n}
    /\ conn' = IF Subscribed THEN Pushed(n) ELSE conn
    /\ overtaken' = (overtaken \/ (Subscribed /\ \E m \in unsent : m < n))
    /\ UNCHANGED <<sequence, oldest, client, owed, cutShort, drops>>

\* The ring's events from n on.
RingFrom(n) == [i \in 1..(sequence + 1 - n) |-> Event(n + i - 1)]

\* Mutant: the event right after the cursor is taken for seen.
replay_SkipsOne(since) ==
    IF oldest > sequence
    THEN IF since < sequence THEN <<Gap(sequence, since + 1, sequence)>> ELSE <<>>
    ELSE IF since + 1 < oldest
         THEN <<Gap(sequence, since + 1, oldest - 1)>> \o RingFrom(oldest)
         ELSE RingFrom(since + 2)

\* The events after since, behind a gap when the ring no longer holds them all.
replay(since) ==
    IF oldest > sequence
    THEN IF since < sequence THEN <<Gap(sequence, since + 1, sequence)>> ELSE <<>>
    ELSE IF since + 1 < oldest
         THEN <<Gap(sequence, since + 1, oldest - 1)>> \o RingFrom(oldest)
         ELSE RingFrom(since + 1)

---------------------------------------------------------------------------
(* One response: connect, subscribe, replay, then live events.             *)

\* The client connects, with its cursor if it has one, and the response
\* subscribes.  Without a cursor the client is owed what comes from here on.
subscribe ==
    /\ conn.state = "down"
    /\ conn' = [Down EXCEPT !.state = "opening",
                            !.since = IF cursor > 0 THEN {cursor} ELSE {},
                            !.from = IF cursor > 0 THEN cursor ELSE sequence]
    /\ owed' = IF cursor > 0 THEN owed ELSE sequence
    /\ told' = IF cursor > 0 THEN told ELSE {}
    /\ UNCHANGED <<sequence, oldest, unsent, cursor, overtaken, cutShort, drops>>

Replay ==
    /\ conn.state = "opening"
    /\ LET frames == IF conn.since = {} THEN <<>> ELSE replay(OrElse(conn.since, 0)) IN
       conn' = [conn EXCEPT
                  !.state = "up",
                  !.out = frames,
                  !.delivered = IF frames = <<>> THEN OrElse(conn.since, 0)
                                ELSE Last(frames).sequence]
    /\ UNCHANGED <<sequence, oldest, unsent, client, owed, overtaken, cutShort, drops>>

\* The task learns that it lagged; the gap is named with the next event.
Missed ==
    /\ conn.state = "up" /\ conn.out = <<>>
    /\ conn.lagged
    /\ conn' = [conn EXCEPT !.lagged = FALSE,
                            !.gapFrom = {OrElse(@, conn.delivered)}]
    /\ UNCHANGED <<sequence, oldest, unsent, client, owed, overtaken, cutShort, drops>>

\* Mutant: the range that was dropped is not named.
LiveFrames_NoGap(n) == <<Event(n)>>

\* The next live event, behind the gap that leads up to it.
LiveFrames(n) ==
    IF conn.gapFrom # {} /\ n > OrElse(conn.gapFrom, 0) + 1
    THEN <<Gap(n - 1, OrElse(conn.gapFrom, 0) + 1, n - 1), Event(n)>>
    ELSE <<Event(n)>>

recv ==
    /\ conn.state = "up" /\ conn.out = <<>>
    /\ ~conn.lagged
    /\ conn.chan # <<>>
    /\ conn' = [conn EXCEPT !.chan = Tail(@),
                            !.out = LiveFrames(Head(conn.chan)),
                            !.gapFrom = {},
                            !.delivered = Head(conn.chan)]
    /\ UNCHANGED <<sequence, oldest, unsent, client, owed, overtaken, cutShort, drops>>

---------------------------------------------------------------------------
(* The client.                                                             *)

\* Mutant: an event the client has a later one of is thrown away.
handleFrame_Newer(e) ==
    /\ cursor' = IF e.sequence > cursor THEN e.sequence ELSE cursor
    /\ told' = IF e.sequence > cursor THEN told \cup e.tells ELSE told

handleFrame(e) ==
    /\ cursor' = IF e.sequence > cursor THEN e.sequence ELSE cursor
    /\ told' = told \cup e.tells

\* The task sends its next frame and the client takes it.
Deliver ==
    /\ conn.out # <<>>
    /\ handleFrame(Head(conn.out))
    /\ conn' = [conn EXCEPT !.out = Tail(@), !.heard = @ \cup Head(conn.out).tells]
    /\ UNCHANGED <<sequence, oldest, unsent, owed, overtaken, cutShort, drops>>

\* Either side loses the connection; reconnectLoop will try again.
Disconnect ==
    /\ Subscribed
    /\ drops < MaxDrops
    /\ drops' = drops + 1
    /\ conn' = Down
    \* as when the replay's first frame carried the last sequence and others follow it
    /\ cutShort' = (cutShort \/ \E i \in DOMAIN conn.out :
                        conn.out[i].sequence <= cursor /\ ~(conn.out[i].tells \subseteq told))
    /\ UNCHANGED <<sequence, oldest, unsent, client, owed, overtaken>>

Next ==
    \/ Mint \/ \E n \in Nats : Send(n)
    \/ subscribe \/ Replay \/ Missed \/ recv
    \/ Deliver \/ Disconnect

\* A publisher that minted sends, and the forwarding task runs while its
\* client reads.  Publishing, connecting and losing a connection are free.
Fairness ==
    /\ \A n \in Nats : WF_vars(Send(n))
    /\ WF_vars(Replay) /\ WF_vars(Missed) /\ WF_vars(recv) /\ WF_vars(Deliver)

Spec == Init /\ [][Next]_vars /\ Fairness

---------------------------------------------------------------------------
\* Types, and the ring within its limit.
TypeOK ==
    /\ sequence \in Nats /\ oldest \in 1..(sequence + 1)
    /\ sequence + 1 - oldest <= MaxEvents
    /\ unsent \subseteq 1..sequence
    /\ conn.state \in {"down", "opening", "up"}
    /\ conn.since \in Option /\ conn.gapFrom \in Option
    /\ conn.out \in Seq(Envelope) /\ conn.chan \in Seq(Nats)
    /\ {conn.from, conn.delivered, cursor, owed} \subseteq Nats
    /\ told \subseteq Nats /\ conn.heard \subseteq Nats
    /\ {conn.lagged, conn.everLagged, overtaken, cutShort} \subseteq BOOLEAN
    /\ drops \in Nat

Quiet ==
    /\ conn.state = "up" /\ unsent = {}
    /\ conn.out = <<>> /\ conn.chan = <<>> /\ ~conn.lagged

\* No event falls between the replay and the live stream, and a lag is always
\* named (http/events.rs response): when nothing is on its way, a connection
\* has told the client of every event after the point it asked for, with one
\* exception the code has: it lagged and events were sent out of order.
ConnectedKnowsAll ==
    Quiet /\ ~(conn.everLagged /\ overtaken) =>
        (conn.from + 1)..sequence \subseteq conn.heard

\* What the current connection will still tell the client.
OnItsWay ==
    UNION {conn.out[i].tells : i \in DOMAIN conn.out} \cup ToSet(conn.chan) \cup unsent

\* Resuming from the last sequence seen replays all that was missed
\* (git-client/src/events.ts): behind its cursor the client was told of every
\* event it is owed, or the connection is about to.
ResumeLosesNothing ==
    (owed + 1)..cursor \subseteq told \cup OnItsWay

\* The two ways an event is lost behind the cursor are the only ones, over any
\* number of reconnections: an older event sent after a newer one, and a
\* connection cut while frames behind the cursor were still to be sent.  The
\* second is known by its effect; the code's case of it is the gap of a replay,
\* which carries the last sequence, cut off from the events it announced.
LostOnlyByKnownCauses == overtaken \/ cutShort \/ ResumeLosesNothing

\* A client that stays connected hears of every event after the point it asked
\* for, or of the gap that holds it, however it lags (http/events.rs).
EventArrives ==
    \A n \in 1..MaxSequence :
        (n \in unsent /\ n > conn.from /\ conn.state = "up") ~>
            (n \in conn.heard \/ conn.state = "down" \/ overtaken)
=============================================================================
