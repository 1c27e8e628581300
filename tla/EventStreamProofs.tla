------------------------- MODULE EventStreamProofs -------------------------
(***************************************************************************)
(* The safety of the event stream, for every size of the ring and of the   *)
(* channel, any number of publishers, events and lost connections.         *)
(*                                                                         *)
(* An event a connection owes its client is in one of five places: heard,  *)
(* in a frame of the task, in the channel, with a publisher that has not   *)
(* sent it yet, or dropped by a lag that the next frame will name.  Reaches *)
(* says so; it needs the order of the channel (InOrder) and that nothing   *)
(* before the point a gap starts at is missing (Anchored).  Across         *)
(* connections, Behind and Ahead say the same of the client's cursor and   *)
(* of the cursors it is about to have.                                     *)
(***************************************************************************)
EXTENDS EventStream, SequenceTheorems, FiniteSetTheorems, TLAPS

ConnType ==
    [state : {"down", "opening", "up"}, since : Option, from : Nats, out : Seq(Envelope),
     delivered : Nats, gapFrom : Option, chan : Seq(Nats), lagged : BOOLEAN,
     everLagged : BOOLEAN, heard : SUBSET Nats]

Types ==
    /\ sequence \in Nats /\ oldest \in 1..(sequence + 1)
    /\ sequence + 1 - oldest <= MaxEvents
    /\ unsent \subseteq 1..sequence
    /\ conn \in ConnType
    /\ cursor \in Nats /\ owed \in Nats /\ told \subseteq Nats
    /\ overtaken \in BOOLEAN /\ cutShort \in BOOLEAN /\ drops \in Nat

\* What the fields of a connection have to do with each other.
Shape ==
    /\ conn.state = "down" => conn = Down
    /\ conn.state = "opening" =>
           /\ conn.out = <<>> /\ conn.heard = {} /\ conn.gapFrom = {} /\ conn.delivered = 0
           /\ conn.since = IF cursor > 0 THEN {cursor} ELSE {}
    /\ Subscribed => \/ conn.since = {} /\ conn.from = owed
                     \/ conn.since = {conn.from} /\ conn.from <= cursor
    /\ conn.lagged \/ conn.gapFrom # {} => conn.everLagged /\ conn.chan # <<>>
    /\ conn.heard \subseteq told
    /\ \A i \in DOMAIN conn.chan : conn.chan[i] \in 1..sequence

\* The channel holds events in their order, and what is unsent comes after.
InOrder ==
    ~overtaken =>
        /\ \A i, j \in DOMAIN conn.chan : i < j => conn.chan[i] < conn.chan[j]
        /\ \A i \in DOMAIN conn.chan : \A m \in unsent : conn.chan[i] < m

Promised(n) ==
    \/ n \in conn.heard
    \/ \E i \in DOMAIN conn.out : n \in conn.out[i].tells

Waiting(n) == n \in unsent \/ \E i \in DOMAIN conn.chan : n = conn.chan[i]

\* Where the gap of a lag starts.
Anchor == OrElse(conn.gapFrom, conn.delivered)

\* A connection that will replay owes nothing before it does.
Owes == conn.state = "up" \/ (conn.state = "opening" /\ conn.since = {})

Anchored ==
    Owes /\ ~overtaken => \A n \in (conn.from + 1)..Anchor : Promised(n)

Dropped(n) ==
    /\ conn.lagged \/ conn.gapFrom # {}
    /\ Anchor < n /\ n < Head(conn.chan)

Reaches ==
    Owes /\ ~(conn.everLagged /\ overtaken) =>
        \A n \in (conn.from + 1)..sequence : Promised(n) \/ Waiting(n) \/ Dropped(n)

Behind ==
    ~overtaken /\ ~cutShort =>
        \A n \in (owed + 1)..cursor :
            \/ n \in told
            \/ \E j \in DOMAIN conn.out : n \in conn.out[j].tells /\ conn.out[j].sequence <= cursor

Ahead ==
    ~overtaken /\ ~cutShort =>
        \A i \in DOMAIN conn.out : \A n \in (owed + 1)..conn.out[i].sequence :
            \/ n \in told
            \/ \E j \in DOMAIN conn.out :
                   n \in conn.out[j].tells /\ (j <= i \/ conn.out[j].sequence <= conn.out[i].sequence)

IInv == Types /\ Shape /\ InOrder /\ Anchored /\ Reaches /\ Behind /\ Ahead

---------------------------------------------------------------------------
(* The operators of the stream.                                            *)

LEMMA OrElseIs ==
    ASSUME NEW n
    PROVE  OrElse({}, n) = n /\ \A m : OrElse({m}, n) = m
  BY DEF OrElse

LEMMA OptionIs ==
    ASSUME NEW o \in Option
    PROVE  o = {} \/ \E m \in Nats : o = {m}
  BY DEF Option

LEMMA EventIs ==
    ASSUME NEW n
    PROVE  Event(n).sequence = n /\ Event(n).tells = {n}
  BY DEF Event

LEMMA GapIs ==
    ASSUME NEW n, NEW from, NEW to
    PROVE  Gap(n, from, to).sequence = n /\ Gap(n, from, to).tells = from..to
  BY DEF Gap

LEMMA EventType ==
    ASSUME NEW n \in Nats
    PROVE  Event(n) \in Envelope
  BY DEF Event, Envelope

LEMMA GapType ==
    ASSUME NEW n \in Nats, NEW from \in Nat, NEW to \in Nats
    PROVE  Gap(n, from, to) \in Envelope
<1>1. from..to \in SUBSET Nats
  BY StreamAssumption DEF Nats
<1>2. QED
  BY <1>1 DEF Gap, Envelope

LEMMA AnchorType == Types => Anchor \in Nats
<1> SUFFICES ASSUME Types PROVE Anchor \in Nats
  OBVIOUS
<1>1. conn.gapFrom \in Option /\ conn.delivered \in Nats
  BY DEF Types, ConnType
<1>2. CASE conn.gapFrom = {}
  BY <1>1, <1>2, OrElseIs DEF Anchor
<1>3. ASSUME NEW m \in Nats, conn.gapFrom = {m} PROVE Anchor \in Nats
  BY <1>3, OrElseIs DEF Anchor
<1>4. QED
  BY <1>1, <1>2, <1>3, OptionIs

\* What a publisher's event does to a channel: it comes last, and the first
\* one may have had to make room.
LEMMA PushedFields ==
    ASSUME Types, Shape, NEW n \in unsent
    PROVE  /\ Pushed(n) \in ConnType
           /\ Pushed(n).state = conn.state /\ Pushed(n).since = conn.since
           /\ Pushed(n).from = conn.from /\ Pushed(n).out = conn.out
           /\ Pushed(n).delivered = conn.delivered /\ Pushed(n).gapFrom = conn.gapFrom
           /\ Pushed(n).heard = conn.heard
           /\ \/ /\ Pushed(n).chan = Append(conn.chan, n)
                 /\ Pushed(n).lagged = conn.lagged
                 /\ Pushed(n).everLagged = conn.everLagged
              \/ /\ conn.chan # <<>>
                 /\ Pushed(n).chan = Tail(Append(conn.chan, n))
                 /\ Pushed(n).lagged = TRUE
                 /\ Pushed(n).everLagged = TRUE
<1>1. n \in Nats /\ conn \in ConnType /\ conn.chan \in Seq(Nats)
  BY StreamAssumption DEF Types, ConnType, Nats
<1> DEFINE q == Append(conn.chan, n)
<1>2. q \in Seq(Nats) /\ Len(q) = Len(conn.chan) + 1 /\ Len(conn.chan) \in Nat
  BY <1>1
<1>3. Tail(q) \in Seq(Nats)
  BY <1>2
<1> HIDE DEF q
<1>4. CASE Len(q) <= ChannelCapacity
  <2>1. Pushed(n) = [conn EXCEPT !.chan = q]
    BY <1>4 DEF Pushed, q
  <2>2. QED
    BY <1>1, <1>2, <2>1 DEF ConnType, q
<1>5. CASE ~ (Len(q) <= ChannelCapacity)
  <2>1. Pushed(n) = [conn EXCEPT !.chan = Tail(q), !.lagged = TRUE, !.everLagged = TRUE]
    BY <1>5 DEF Pushed, q
  <2>2. conn.chan # <<>>
    <3>1. Len(conn.chan) >= 1
      BY <1>2, <1>5, StreamAssumption
    <3>2. Len(<<>>) = 0
      OBVIOUS
    <3>3. QED
      BY <3>1, <3>2
  <2>3. QED
    BY <1>1, <1>3, <2>1, <2>2 DEF ConnType, q
<1>6. QED
  BY <1>4, <1>5

\* The members of the channel after that, d of them gone.
ComesLast(p, n, d) ==
    /\ d = 0 => p.lagged = conn.lagged /\ p.everLagged = conn.everLagged
    /\ d = 1 => conn.chan # <<>> /\ Len(conn.chan) >= 1 /\ p.lagged /\ p.everLagged
    /\ Len(p.chan) = Len(conn.chan) + 1 - d
    /\ p.chan # <<>>
    /\ \A i \in DOMAIN p.chan : i + d \in DOMAIN conn.chan => p.chan[i] = conn.chan[i + d]
    /\ \A i \in DOMAIN p.chan :
           i + d \in DOMAIN conn.chan \/ (i = Len(p.chan) /\ p.chan[i] = n)
    /\ p.chan[Len(p.chan)] = n
    /\ DOMAIN p.chan = 1..Len(p.chan) /\ DOMAIN conn.chan = 1..Len(conn.chan)
    /\ Len(conn.chan) \in Nat /\ Len(p.chan) \in Nat \ {0}

LEMMA PushedChan ==
    ASSUME Types, Shape, NEW n \in unsent
    PROVE  \E d \in {0, 1} : ComesLast(Pushed(n), n, d)
<1> DEFINE p == Pushed(n)
           c == conn.chan
           q == Append(c, n)
<1>1. n \in Nats /\ c \in Seq(Nats)
  BY StreamAssumption DEF Types, ConnType, Nats
<1>2. /\ q \in Seq(Nats) /\ Len(q) = Len(c) + 1 /\ Len(c) \in Nat /\ q[Len(c) + 1] = n
      /\ \A i \in 1..Len(c) : q[i] = c[i]
  BY <1>1
<1>3. /\ Tail(q) \in Seq(Nats) /\ Len(Tail(q)) = Len(c)
      /\ \A i \in 1..Len(c) : Tail(q)[i] = q[i + 1]
  <2> HIDE DEF q
  <2>1. q # <<>>
    <3>1. Len(<<>>) = 0
      OBVIOUS
    <3>2. QED
      BY <3>1, <1>2
  <2>2. QED
    BY <1>2, <2>1
<1>4. \/ p.chan = q /\ p.lagged = conn.lagged /\ p.everLagged = conn.everLagged
      \/ c # <<>> /\ p.chan = Tail(q) /\ p.lagged /\ p.everLagged
  BY PushedFields
<1>e. Len(<<>>) = 0 /\ (c # <<>> => Len(c) >= 1)
  BY <1>1
<1> HIDE DEF p, c, q
<1>5. CASE p.chan = q /\ p.lagged = conn.lagged /\ p.everLagged = conn.everLagged
  <2>1. \A i \in 1..Len(p.chan) :
            /\ i + 0 \in 1..Len(c) => p.chan[i] = c[i + 0]
            /\ i + 0 \in 1..Len(c) \/ (i = Len(p.chan) /\ p.chan[i] = n)
    BY <1>2, <1>5
  <2>2. /\ Len(p.chan) = Len(c) + 1 - 0 /\ p.chan # <<>> /\ p.chan[Len(p.chan)] = n
        /\ DOMAIN p.chan = 1..Len(p.chan) /\ DOMAIN c = 1..Len(c)
    BY <1>1, <1>2, <1>5, <1>e
  <2>3. Len(p.chan) \in Nat \ {0} /\ Len(c) \in Nat /\ 0 # 1
    BY <1>2, <1>5
  <2>5. p.lagged = conn.lagged /\ p.everLagged = conn.everLagged
    BY <1>5
  <2>6. ComesLast(p, n, 0)
    BY <2>1, <2>2, <2>3, <2>5 DEF c, ComesLast
  <2>4. QED
    BY <2>6 DEF p
<1>6. CASE c # <<>> /\ p.chan = Tail(q) /\ p.lagged /\ p.everLagged
  <2>1. \A i \in 1..Len(p.chan) :
            /\ i + 1 \in 1..Len(c) => p.chan[i] = c[i + 1]
            /\ i + 1 \in 1..Len(c) \/ (i = Len(p.chan) /\ p.chan[i] = n)
    BY <1>2, <1>3, <1>6
  <2>2. /\ Len(p.chan) = Len(c) + 1 - 1 /\ p.chan # <<>> /\ p.chan[Len(p.chan)] = n
        /\ DOMAIN p.chan = 1..Len(p.chan) /\ DOMAIN c = 1..Len(c)
    BY <1>1, <1>2, <1>3, <1>6, <1>e
  <2>3. ComesLast(p, n, 1)
    BY <1>2, <1>6, <1>e, <2>1, <2>2, SMTT(30) DEF c, ComesLast
  <2>4. QED
    BY <2>3 DEF p
<1>7. QED
  BY <1>4, <1>5, <1>6

---------------------------------------------------------------------------
(* The invariant holds initially, and publishing keeps it.                 *)

LEMMA InitHolds == Init => IInv
<1> SUFFICES ASSUME Init PROVE IInv
  OBVIOUS
<1> USE DEF Init
<1>1. conn = Down /\ Down.state = "down" /\ Down.chan = <<>> /\ Down.out = <<>> /\ Down.heard = {}
      /\ Down.lagged = FALSE /\ Down.gapFrom = {} /\ Down.delivered = 0
  BY DEF Down
<1>2. Types
  <2>1. 0 \in Nats /\ {} \in Option /\ <<>> \in Seq(Envelope) /\ <<>> \in Seq(Nats)
    BY StreamAssumption DEF Nats, Option
  <2>2. Down \in ConnType
    BY <2>1 DEF Down, ConnType
  <2>3. 1 \in 1..(0 + 1) /\ 0 + 1 - 1 <= MaxEvents
    BY StreamAssumption
  <2>4. QED
    BY <2>1, <2>2, <2>3 DEF Types
<1>3. DOMAIN <<>> = {}
  OBVIOUS
<1>4. Shape
  BY <1>1, <1>3 DEF Shape, Subscribed
<1>5. InOrder
  BY <1>1, <1>3 DEF InOrder
<1>6. ~ Owes
  BY <1>1 DEF Owes
<1>7. Anchored /\ Reaches
  BY <1>6 DEF Anchored, Reaches
<1>8. (owed + 1)..cursor = {}
  OBVIOUS
<1>9. Behind /\ Ahead
  BY <1>1, <1>3, <1>8 DEF Behind, Ahead
<1>10. QED
  BY <1>2, <1>4, <1>5, <1>7, <1>9 DEF IInv

LEMMA MintKeeps ==
    ASSUME IInv, Mint
    PROVE  IInv'
<1>1. /\ conn' = conn /\ cursor' = cursor /\ told' = told /\ owed' = owed
      /\ overtaken' = overtaken /\ cutShort' = cutShort /\ drops' = drops
      /\ sequence' = sequence + 1 /\ unsent' = unsent \cup {sequence + 1}
      /\ sequence < MaxSequence /\ oldest' \in Evicted(sequence + 1)
  BY DEF Mint, client
<1>2. Types /\ Shape /\ InOrder /\ Anchored /\ Reaches /\ Behind /\ Ahead
  BY DEF IInv
<1>3. sequence \in Nat /\ sequence <= MaxSequence /\ sequence' \in Nats /\ oldest \in 1..(sequence + 1)
  BY <1>1, <1>2, StreamAssumption DEF Types, Nats
<1>4. oldest' \in 1..(sequence' + 1) /\ sequence' + 1 - oldest' <= MaxEvents
  BY <1>1, <1>3 DEF Evicted
<1>5. unsent' \subseteq 1..sequence'
  BY <1>1, <1>2, <1>3 DEF Types
<1>6. Types'
  BY <1>1, <1>2, <1>3, <1>4, <1>5 DEF Types
<1>7. \A i \in DOMAIN conn.chan : conn.chan[i] \in 1..sequence
  BY <1>2 DEF Shape
<1>8. \A i \in DOMAIN conn.chan : conn.chan[i] \in 1..sequence' /\ conn.chan[i] < sequence + 1
  BY <1>1, <1>3, <1>7
<1>9. Shape'
  BY <1>1, <1>2, <1>8 DEF Shape, Subscribed
<1>10. InOrder'
  BY <1>1, <1>2, <1>8 DEF InOrder
<1>11. Anchored'
  BY <1>1, <1>2 DEF Anchored, Owes, Anchor, Promised
<1>12. Reaches'
  <2> SUFFICES ASSUME Owes, ~(conn.everLagged /\ overtaken), NEW n \in (conn.from + 1)..sequence'
               PROVE  Promised(n)' \/ Waiting(n)' \/ Dropped(n)'
    BY <1>1 DEF Reaches, Owes
  <2>1. conn.from \in Nat
    BY <1>2, StreamAssumption DEF Types, ConnType, Nats
  <2>2. CASE n = sequence + 1
    BY <1>1, <2>2 DEF Waiting
  <2>3. CASE n # sequence + 1
    <3>1. n \in (conn.from + 1)..sequence
      BY <1>1, <1>3, <2>1, <2>3
    <3>2. Promised(n) \/ Waiting(n) \/ Dropped(n)
      BY <1>2, <3>1 DEF Reaches
    <3>3. QED
      BY <1>1, <3>2 DEF Promised, Waiting, Dropped, Anchor
  <2>4. QED
    BY <2>2, <2>3
<1>13. Behind' /\ Ahead'
  BY <1>1, <1>2 DEF Behind, Ahead
<1>14. QED
  BY <1>6, <1>9, <1>10, <1>11, <1>12, <1>13 DEF IInv

LEMMA SendToNobody ==
    ASSUME IInv, NEW n \in Nats, Send(n), ~ Subscribed
    PROVE  IInv'
<1>1. /\ conn' = conn /\ cursor' = cursor /\ told' = told /\ owed' = owed
      /\ cutShort' = cutShort /\ drops' = drops /\ overtaken' = overtaken
      /\ sequence' = sequence /\ oldest' = oldest /\ unsent' = unsent \ {n}
  <2>1. overtaken \in BOOLEAN
    BY DEF IInv, Types
  <2>2. QED
    BY <2>1 DEF Send, client
<1>2. Types /\ Shape /\ InOrder /\ Behind /\ Ahead
  BY DEF IInv
<1>3. Types' /\ Shape' /\ InOrder'
  BY <1>1, <1>2 DEF Types, Shape, InOrder, Subscribed
<1>4. ~ Owes'
  BY <1>1 DEF Owes, Subscribed
<1>5. Anchored' /\ Reaches'
  BY <1>4 DEF Anchored, Reaches
<1>6. Behind' /\ Ahead'
  BY <1>1, <1>2 DEF Behind, Ahead
<1>7. QED
  BY <1>3, <1>5, <1>6 DEF IInv

LEMMA SendFields ==
    ASSUME IInv, NEW n \in Nats, Send(n), Subscribed
    PROVE  /\ n \in unsent /\ unsent' = unsent \ {n} /\ conn' = Pushed(n)
           /\ overtaken' = (overtaken \/ \E m \in unsent : m < n)
           /\ cursor' = cursor /\ told' = told /\ owed' = owed
           /\ cutShort' = cutShort /\ drops' = drops
           /\ sequence' = sequence /\ oldest' = oldest
           /\ conn' \in ConnType
           /\ conn.state' = conn.state /\ conn.since' = conn.since
           /\ conn.from' = conn.from /\ conn.out' = conn.out
           /\ conn.delivered' = conn.delivered /\ conn.gapFrom' = conn.gapFrom
           /\ conn.heard' = conn.heard
           /\ Anchor' = Anchor
           /\ conn.everLagged => conn'.everLagged
           /\ conn.lagged => conn'.lagged
<1>1. n \in unsent /\ Types /\ Shape
  BY DEF IInv, Send
<1>2. conn' = Pushed(n)
  BY DEF Send
<1>3. /\ unsent' = unsent \ {n} /\ overtaken' = (overtaken \/ \E m \in unsent : m < n)
      /\ cursor' = cursor /\ told' = told /\ owed' = owed
      /\ cutShort' = cutShort /\ drops' = drops
      /\ sequence' = sequence /\ oldest' = oldest
  BY DEF Send, client
<1>4. /\ conn' \in ConnType
      /\ conn.state' = conn.state /\ conn.since' = conn.since
      /\ conn.from' = conn.from /\ conn.out' = conn.out
      /\ conn.delivered' = conn.delivered /\ conn.gapFrom' = conn.gapFrom
      /\ conn.heard' = conn.heard
  BY <1>1, <1>2, PushedFields
<1>5. (conn.everLagged => conn'.everLagged) /\ (conn.lagged => conn'.lagged)
  BY <1>1, <1>2, PushedFields
<1>6. Anchor' = Anchor
  BY <1>4 DEF Anchor
<1>7. QED
  BY <1>1, <1>2, <1>3, <1>4, <1>5, <1>6

LEMMA SendKeepsTypes ==
    ASSUME IInv, NEW n \in Nats, Send(n), Subscribed
    PROVE  Types' /\ Shape' /\ InOrder'
<1>s. /\ n \in unsent /\ unsent' = unsent \ {n} /\ conn' = Pushed(n)
      /\ overtaken' = (overtaken \/ \E m \in unsent : m < n)
      /\ cursor' = cursor /\ told' = told /\ owed' = owed
      /\ cutShort' = cutShort /\ drops' = drops
      /\ sequence' = sequence /\ oldest' = oldest
      /\ conn' \in ConnType
      /\ conn.state' = conn.state /\ conn.since' = conn.since
      /\ conn.from' = conn.from /\ conn.out' = conn.out
      /\ conn.delivered' = conn.delivered /\ conn.gapFrom' = conn.gapFrom
      /\ conn.heard' = conn.heard
      /\ Anchor' = Anchor
      /\ conn.everLagged => conn'.everLagged
      /\ conn.lagged => conn'.lagged
  BY SendFields
<1>1. Types /\ Shape /\ InOrder
  BY <1>s DEF IInv
<1>2. n \in 1..sequence /\ unsent \subseteq 1..sequence /\ sequence \in Nat
  BY <1>s, <1>1, StreamAssumption DEF Types, Nats
<1>3. PICK d \in {0, 1} : ComesLast(conn', n, d)
  BY <1>s, <1>1, PushedChan
<1>4. Types'
  BY <1>s, <1>1 DEF Types
<1>5. \A i \in DOMAIN conn'.chan :
          \/ conn'.chan[i] = n /\ i = Len(conn'.chan)
          \/ i + d \in DOMAIN conn.chan /\ conn'.chan[i] = conn.chan[i + d]
  BY <1>s, <1>3 DEF ComesLast
<1>6. \A i \in DOMAIN conn'.chan : conn'.chan[i] \in 1..sequence
  BY <1>s, <1>1, <1>2, <1>5 DEF Shape
<1>7. Shape'
  <2>1. conn.state' # "down" /\ (conn.state' = "opening" => conn.state = "opening")
    BY <1>s DEF Subscribed
  <2>2. conn.lagged' \/ conn.gapFrom' # {} => conn.everLagged' /\ conn.chan' # <<>>
    BY <1>s, <1>1, <1>3 DEF Shape, ComesLast
  <2>3. QED
    BY <1>s, <1>1, <1>6, <2>1, <2>2 DEF Shape, Subscribed
<1>8. ASSUME ~ overtaken' PROVE InOrder'
  <2>1. ~ overtaken /\ \A m \in unsent : ~ (m < n)
    BY <1>s, <1>8
  <2>2. \A i \in DOMAIN conn'.chan : i + d \in DOMAIN conn.chan => conn'.chan[i] < n
    BY <1>s, <1>1, <1>3, <2>1 DEF InOrder, ComesLast
  <2>3. ASSUME NEW i \in DOMAIN conn'.chan, NEW j \in DOMAIN conn'.chan, i < j
        PROVE  conn'.chan[i] < conn'.chan[j]
    <3>1. i \in Nat /\ j \in Nat /\ d \in Nat /\ i + d \in DOMAIN conn.chan
      BY <1>s, <1>3, <2>3 DEF ComesLast
    <3>2. CASE j + d \in DOMAIN conn.chan
      <4>1. i + d < j + d
        BY <1>s, <2>3, <3>1
      <4>2. conn.chan[i + d] < conn.chan[j + d]
        BY <1>s, <1>1, <2>1, <3>1, <3>2, <4>1 DEF InOrder
      <4>3. conn'.chan[i] = conn.chan[i + d] /\ conn'.chan[j] = conn.chan[j + d]
        BY <1>s, <1>3, <2>3, <3>1, <3>2 DEF ComesLast
      <4>4. QED
        BY <1>s, <4>2, <4>3
    <3>3. CASE j + d \notin DOMAIN conn.chan
      BY <1>s, <1>5, <2>2, <3>1, <3>3
    <3>4. QED
      BY <1>s, <3>2, <3>3
  <2>4. ASSUME NEW i \in DOMAIN conn'.chan, NEW m \in unsent' PROVE conn'.chan[i] < m
    <3>1. m \in unsent /\ n < m
      BY <1>s, <1>2, <2>1
    <3>2. CASE conn'.chan[i] = n
      BY <1>s, <3>1, <3>2
    <3>3. CASE i + d \in DOMAIN conn.chan /\ conn'.chan[i] = conn.chan[i + d]
      BY <1>s, <1>1, <2>1, <3>1, <3>3 DEF InOrder
    <3>4. QED
      BY <1>s, <1>5, <3>2, <3>3
  <2>5. QED
    BY <1>s, <2>3, <2>4 DEF InOrder
<1>9. InOrder'
  BY <1>s, <1>8 DEF InOrder
<1>10. QED
  BY <1>s, <1>4, <1>7, <1>9

LEMMA SendKeepsReaches ==
    ASSUME IInv, NEW n \in Nats, Send(n), Subscribed
    PROVE  Reaches'
<1>s. /\ n \in unsent /\ unsent' = unsent \ {n} /\ conn' = Pushed(n)
      /\ overtaken' = (overtaken \/ \E m \in unsent : m < n)
      /\ cursor' = cursor /\ told' = told /\ owed' = owed
      /\ cutShort' = cutShort /\ drops' = drops
      /\ sequence' = sequence /\ oldest' = oldest
      /\ conn' \in ConnType
      /\ conn.state' = conn.state /\ conn.since' = conn.since
      /\ conn.from' = conn.from /\ conn.out' = conn.out
      /\ conn.delivered' = conn.delivered /\ conn.gapFrom' = conn.gapFrom
      /\ conn.heard' = conn.heard
      /\ Anchor' = Anchor
      /\ conn.everLagged => conn'.everLagged
      /\ conn.lagged => conn'.lagged
  BY SendFields
<1>1. Types /\ Shape /\ InOrder /\ Anchored /\ Reaches
  BY <1>s DEF IInv
<1>2. PICK d \in {0, 1} : ComesLast(conn', n, d)
  BY <1>s, <1>1, PushedChan
<1> SUFFICES ASSUME Owes, ~(conn'.everLagged /\ overtaken'),
                    NEW e \in (conn.from + 1)..sequence
             PROVE  Promised(e)' \/ Waiting(e)' \/ Dropped(e)'
  BY <1>s DEF Reaches, Owes
<1>3. Promised(e)' <=> Promised(e)
  BY <1>s DEF Promised
<1>4. ~ (conn.everLagged /\ overtaken)
  BY <1>s
<1>5. Promised(e) \/ Waiting(e) \/ Dropped(e)
  BY <1>s, <1>1, <1>4 DEF Reaches
<1>6. conn.chan \in Seq(Nats) /\ conn.chan' \in Seq(Nats) /\ Anchor \in Nat /\ e \in Nat /\ n \in Nat
  <2>1. conn.chan \in Seq(Nats) /\ conn.chan' \in Seq(Nats) /\ conn.from \in Nat
    BY <1>s, <1>1, StreamAssumption DEF Types, ConnType, Nats
  <2>2. Anchor \in Nat
    BY <1>1, AnchorType, StreamAssumption DEF Nats
  <2>3. e \in Nat /\ n \in Nat
    BY <2>1, StreamAssumption DEF Nats
  <2>4. QED
    BY <2>1, <2>2, <2>3
<1>7. ASSUME d = 1, conn.chan # <<>> PROVE conn.chan[1] < conn'.chan[1] /\ ~ overtaken
  <2>1. ~ overtaken
    BY <1>s, <1>2, <1>7 DEF ComesLast
  <2>2. Len(conn.chan) \in Nat /\ Len(conn.chan) >= 1 /\ DOMAIN conn.chan = 1..Len(conn.chan)
        /\ Len(conn'.chan) = Len(conn.chan)
    BY <1>s, <1>2, <1>7 DEF ComesLast
  <2>3. CASE Len(conn.chan) >= 2
    <3>1. conn'.chan[1] = conn.chan[2]
      BY <1>s, <1>2, <1>7, <2>2, <2>3 DEF ComesLast
    <3>2. conn.chan[1] < conn.chan[2]
      BY <1>s, <1>1, <2>1, <2>2, <2>3 DEF InOrder
    <3>3. QED
      BY <1>s, <2>1, <3>1, <3>2
  <2>4. CASE Len(conn.chan) = 1
    <3>1. conn'.chan[1] = n
      BY <1>s, <1>2, <2>2, <2>4 DEF ComesLast
    <3>2. conn.chan[1] < n
      BY <1>s, <1>1, <2>1, <2>2, <2>4 DEF InOrder
    <3>3. QED
      BY <1>s, <2>1, <3>1, <3>2
  <2>5. Len(conn.chan) >= 2 \/ Len(conn.chan) = 1
    <3> DEFINE k == Len(conn.chan)
    <3>1. k \in Nat /\ k >= 1
      BY <2>2
    <3> HIDE DEF k
    <3>2. k >= 2 \/ k = 1
      BY <3>1
    <3>3. QED
      BY <3>2 DEF k
  <2>6. QED
    BY <2>3, <2>4, <2>5
<1>8. conn'.chan # <<>> /\ Head(conn'.chan) = conn'.chan[1]
  BY <1>s, <1>2, <1>6 DEF ComesLast
<1>9. CASE Waiting(e)
  <2>1. CASE e \in unsent /\ e # n
    BY <1>s, <2>1 DEF Waiting
  <2>2. CASE e = n
    <3>1. Len(conn'.chan) \in DOMAIN conn'.chan /\ conn'.chan[Len(conn'.chan)] = n
      BY <1>s, <1>2 DEF ComesLast
    <3>2. QED
      BY <1>s, <2>2, <3>1 DEF Waiting
  <2>3. ASSUME NEW i \in DOMAIN conn.chan, e = conn.chan[i], i > d
        PROVE  Waiting(e)'
    <3>0. i \in 1..Len(conn.chan) /\ (i - d) + d = i /\ i - d \in 1..(Len(conn.chan) + 1 - d)
      BY <1>2, <2>3 DEF ComesLast
    <3>1. i - d \in DOMAIN conn'.chan /\ conn'.chan[i - d] = conn.chan[i]
      BY <1>2, <3>0 DEF ComesLast
    <3>2. QED
      BY <1>s, <2>3, <3>1 DEF Waiting
  <2>4. ASSUME d = 1, 1 \in DOMAIN conn.chan, e = conn.chan[1]
        PROVE  Promised(e)' \/ Dropped(e)'
    <3>1. conn.chan # <<>>
      BY <1>s, <1>2, <2>4 DEF ComesLast
    <3>2. ~ overtaken /\ e < Head(conn'.chan)
      BY <1>s, <1>7, <1>8, <2>4, <3>1
    <3>3. CASE e <= Anchor
      <4>1. Promised(e)
        <5>1. e \in (conn.from + 1)..Anchor
          BY <1>s, <1>6, <3>3
        <5>2. QED
          BY <1>s, <5>1, <1>1, <3>2 DEF Anchored
      <4>2. QED
        BY <1>s, <1>3, <4>1
    <3>4. CASE Anchor < e
      <4>1. conn'.lagged
        BY <1>s, <1>2, <2>4 DEF ComesLast
      <4>2. QED
        BY <1>s, <3>2, <3>4, <4>1 DEF Dropped
    <3>5. QED
      BY <1>s, <1>6, <3>3, <3>4
  <2>5. \A i \in DOMAIN conn.chan : i > d \/ (d = 1 /\ i = 1)
    BY <1>s, <1>2 DEF ComesLast
  <2>6. QED
    BY <1>s, <1>9, <2>1, <2>2, <2>3, <2>4, <2>5 DEF Waiting
<1>10. CASE Dropped(e)
  <2>1. conn.chan # <<>> /\ Head(conn.chan) = conn.chan[1] /\ Len(conn.chan) >= 1
    <3>1. conn.chan # <<>>
      BY <1>s, <1>1, <1>10 DEF Dropped, Shape
    <3>2. QED
      BY <1>s, <3>1, <1>6
  <2>2. CASE d = 0
    <3>1. conn'.chan[1] = conn.chan[1]
      BY <1>s, <1>2, <2>1, <2>2 DEF ComesLast
    <3>2. QED
      BY <1>s, <1>8, <1>10, <2>1, <3>1 DEF Dropped
  <2>3. CASE d = 1
    <3>1. conn.chan[1] < conn'.chan[1]
      BY <1>s, <1>7, <2>1, <2>3
    <3>2. conn.chan[1] \in Nat /\ conn'.chan[1] \in Nat
      <4>1. 1 \in 1..Len(conn.chan) /\ 1 \in 1..Len(conn'.chan)
        BY <1>s, <1>2, <2>1, <2>3 DEF ComesLast
      <4>2. QED
        BY <1>s, <1>6, <4>1, StreamAssumption DEF Nats
    <3>3. e < conn'.chan[1]
      BY <1>s, <1>6, <1>10, <2>1, <3>1, <3>2 DEF Dropped
    <3>4. QED
      BY <1>s, <1>8, <1>10, <3>3 DEF Dropped
  <2>4. QED
    BY <1>s, <2>2, <2>3
<1>11. QED
  BY <1>s, <1>3, <1>5, <1>9, <1>10

LEMMA SendKeeps ==
    ASSUME IInv, NEW n \in Nats, Send(n)
    PROVE  IInv'
<1>1. CASE ~ Subscribed
  BY <1>1, SendToNobody
<1>2. CASE Subscribed
  <2> USE <1>2
  <2>1. Types' /\ Shape' /\ InOrder' /\ Reaches'
    BY SendKeepsTypes, SendKeepsReaches
  <2>2. Anchored /\ Behind /\ Ahead /\ (overtaken => overtaken')
    BY SendFields DEF IInv
  <2>3. Anchored'
    BY <2>2, SendFields DEF Anchored, Owes, Promised
  <2>4. Behind' /\ Ahead'
    BY <2>2, SendFields DEF Behind, Ahead
  <2>5. QED
    BY <2>1, <2>3, <2>4 DEF IInv
<1>3. QED
  BY <1>1, <1>2

---------------------------------------------------------------------------
(* Opening a connection.                                                   *)

LEMMA SubscribeKeeps ==
    ASSUME IInv, subscribe
    PROVE  IInv'
<1>1. Types /\ Shape /\ Behind
  BY DEF IInv
<1>2. /\ conn = Down /\ Down.out = <<>> /\ Down.chan = <<>> /\ Down.heard = {}
      /\ Down.gapFrom = {} /\ Down.delivered = 0 /\ Down.lagged = FALSE
  BY <1>1 DEF subscribe, Shape, Down
<1>3. /\ sequence' = sequence /\ oldest' = oldest /\ unsent' = unsent /\ cursor' = cursor
      /\ overtaken' = overtaken /\ cutShort' = cutShort /\ drops' = drops
      /\ owed' = IF cursor > 0 THEN owed ELSE sequence
      /\ told' = IF cursor > 0 THEN told ELSE {}
  BY DEF subscribe
<1> DEFINE since == IF cursor > 0 THEN {cursor} ELSE {}
           from == IF cursor > 0 THEN cursor ELSE sequence
<1>4. /\ sequence \in Nats /\ cursor \in Nats /\ owed \in Nats /\ told \subseteq Nats
      /\ sequence \in Nat /\ cursor \in Nat
  BY <1>1, StreamAssumption DEF Types, Nats
<1>5. since \in Option /\ from \in Nats /\ owed' \in Nats /\ told' \subseteq Nats
  BY <1>3, <1>4 DEF Option
<1>6. conn' = [Down EXCEPT !.state = "opening", !.since = since, !.from = from]
  BY DEF subscribe
<1>7. cursor > 0 \/ cursor = 0
  BY <1>4
<1>8. /\ cursor > 0 => since = {from} /\ from <= cursor
      /\ cursor = 0 => since = {} /\ from = owed'
  BY <1>3, <1>4
<1> HIDE DEF since, from
<1>9. /\ conn'.state = "opening" /\ conn'.since = since /\ conn'.from = from
      /\ conn'.out = <<>> /\ conn'.delivered = 0 /\ conn'.gapFrom = {} /\ conn'.chan = <<>>
      /\ conn'.lagged = FALSE /\ conn'.everLagged = FALSE /\ conn'.heard = {}
  BY <1>6 DEF Down
<1>10. conn' \in ConnType
  <2>1. 0 \in Nats /\ {} \in Option /\ <<>> \in Seq(Envelope) /\ <<>> \in Seq(Nats)
    BY StreamAssumption DEF Nats, Option
  <2>2. QED
    BY <1>5, <1>6, <2>1 DEF Down, ConnType
<1>11. Types'
  BY <1>1, <1>3, <1>5, <1>10 DEF Types
<1>12. DOMAIN <<>> = {}
  OBVIOUS
<1>13. Shape'
  BY <1>3, <1>4, <1>7, <1>8, <1>9, <1>12 DEF Shape, Subscribed, since
<1>14. InOrder'
  BY <1>9, <1>12 DEF InOrder
<1>15. Anchored'
  <2>1. Anchor' = 0 /\ from \in Nat
    BY <1>5, <1>9, OrElseIs, StreamAssumption DEF Anchor, Nats
  <2>2. (from + 1)..0 = {}
    BY <2>1
  <2>3. QED
    BY <1>9, <2>1, <2>2 DEF Anchored
<1>16. Reaches'
  <2>1. CASE cursor > 0
    BY <1>8, <1>9, <2>1 DEF Reaches, Owes
  <2>2. CASE cursor = 0
    <3>1. from = sequence
      BY <2>2, <1>4 DEF from
    <3>2. (from + 1)..sequence = {}
      BY <1>4, <3>1
    <3>3. QED
      BY <1>3, <1>9, <3>2 DEF Reaches
  <2>3. QED
    BY <1>7, <2>1, <2>2
<1>17. Behind'
  <2>1. CASE cursor > 0
    BY <1>1, <1>2, <1>3, <1>9, <1>12, <2>1 DEF Behind
  <2>2. CASE cursor = 0
    <3>1. (owed' + 1)..cursor = {}
      BY <1>3, <1>4, <2>2
    <3>2. QED
      BY <1>3, <3>1 DEF Behind
  <2>3. QED
    BY <1>7, <2>1, <2>2
<1>18. Ahead'
  BY <1>9, <1>12 DEF Ahead
<1>19. QED
  BY <1>11, <1>13, <1>14, <1>15, <1>16, <1>17, <1>18 DEF IInv

LEMMA RingFromIs ==
    ASSUME Types, NEW n \in Nat \ {0}, n <= sequence + 1
    PROVE  /\ RingFrom(n) \in Seq(Envelope)
           /\ Len(RingFrom(n)) = sequence + 1 - n
           /\ DOMAIN RingFrom(n) = 1..(sequence + 1 - n)
           /\ \A i \in 1..(sequence + 1 - n) :
                 RingFrom(n)[i].sequence = n + i - 1 /\ RingFrom(n)[i].tells = {n + i - 1}
<1>1. sequence \in Nat /\ sequence + 1 - n \in Nat /\ sequence <= MaxSequence /\ MaxSequence \in Nat
  BY StreamAssumption DEF Types, Nats
<1>2. \A i \in 1..(sequence + 1 - n) : n + i - 1 \in Nats
  BY <1>1 DEF Nats
<1>3. \A i \in 1..(sequence + 1 - n) : Event(n + i - 1) \in Envelope
  BY <1>2, EventType
<1>4. \A i \in 1..(sequence + 1 - n) : RingFrom(n)[i] = Event(n + i - 1)
  BY DEF RingFrom
<1>5. RingFrom(n) \in [1..(sequence + 1 - n) -> Envelope]
  BY <1>3 DEF RingFrom
<1> HIDE DEF RingFrom
<1>6. QED
  BY <1>1, <1>4, <1>5, EventIs

\* What a replay owes the client: everything after the point it asks for, and
\* nothing in a frame that an earlier frame or an older event does not cover.
Replays(r, since) ==
    /\ r \in Seq(Envelope) /\ DOMAIN r = 1..Len(r)
    /\ r = <<>> => since >= sequence
    /\ r # <<>> => r[Len(r)].sequence = sequence
    /\ \A n \in (since + 1)..sequence : \E j \in DOMAIN r : n \in r[j].tells
    /\ \A i \in DOMAIN r : r[i].sequence <= sequence
    /\ \A i \in DOMAIN r : \A n \in (since + 1)..r[i].sequence :
           \E j \in DOMAIN r : n \in r[j].tells /\ (j <= i \/ r[j].sequence <= r[i].sequence)

LEMMA ReplayNothing ==
    ASSUME Types, NEW since \in Nats, since >= sequence
    PROVE  replay(since) = <<>> /\ Replays(<<>>, since)
<1>1. sequence \in Nat /\ oldest \in 1..(sequence + 1) /\ since \in Nat
  BY StreamAssumption DEF Types, Nats
<1>2. 1..(sequence + 1 - (since + 1)) = {} /\ (since + 1)..sequence = {}
  BY <1>1
<1>3. RingFrom(since + 1) = <<>>
  BY <1>2 DEF RingFrom
<1>4. ~ (since < sequence) /\ ~ (since + 1 < oldest)
  BY <1>1
<1>5. replay(since) = <<>>
  BY <1>3, <1>4 DEF replay
<1>6. <<>> \in Seq(Envelope) /\ Len(<<>>) = 0 /\ DOMAIN <<>> = {} /\ 1..0 = {}
  OBVIOUS
<1>7. QED
  BY <1>2, <1>5, <1>6 DEF Replays

LEMMA ReplayGapOnly ==
    ASSUME Types, NEW since \in Nats, since < sequence, oldest > sequence
    PROVE  Replays(replay(since), since)
<1>1. sequence \in Nat /\ since \in Nat /\ sequence \in Nats
  BY StreamAssumption DEF Types, Nats
<1> DEFINE g == Gap(sequence, since + 1, sequence)
<1>2. replay(since) = <<g>>
  BY DEF replay
<1>3. g \in Envelope /\ g.sequence = sequence /\ g.tells = (since + 1)..sequence
  BY <1>1, GapType, GapIs
<1> HIDE DEF g
<1>4. <<g>> \in Seq(Envelope) /\ Len(<<g>>) = 1 /\ <<g>>[1] = g /\ DOMAIN <<g>> = {1} /\ <<g>> # <<>>
  BY <1>3
<1>5. 1..1 = {1} /\ sequence <= sequence
  BY <1>1
<1>6. QED
  BY <1>2, <1>3, <1>4, <1>5 DEF Replays

LEMMA ReplayRing ==
    ASSUME Types, NEW since \in Nats, since < sequence, ~ (oldest > sequence), ~ (since + 1 < oldest)
    PROVE  Replays(replay(since), since)
<1>1. sequence \in Nat /\ since \in Nat /\ oldest \in 1..(sequence + 1)
  BY StreamAssumption DEF Types, Nats
<1> DEFINE r == RingFrom(since + 1)
           l == sequence - since
<1>2. replay(since) = r
  BY DEF replay
<1>3. since + 1 \in Nat \ {0} /\ since + 1 <= sequence + 1 /\ sequence + 1 - (since + 1) = l
      /\ \A i \in 1..l : since + 1 + i - 1 = since + i
  BY <1>1
<1>4. /\ r \in Seq(Envelope) /\ Len(r) = l /\ DOMAIN r = 1..l
      /\ \A i \in 1..l : r[i].sequence = since + i /\ r[i].tells = {since + i}
  BY <1>3, RingFromIs
<1>5. l \in Nat \ {0} /\ since + l = sequence
  BY <1>1
<1> HIDE DEF r
<1>6. r # <<>> /\ r[Len(r)].sequence = sequence
  BY <1>4, <1>5
<1>7. \A n \in (since + 1)..sequence : n - since \in 1..l /\ since + (n - since) = n
  BY <1>1
<1>8. \A n \in (since + 1)..sequence : n - since \in DOMAIN r /\ n \in r[n - since].tells
                                       /\ r[n - since].sequence = n
  BY <1>4, <1>7
<1>9. \A i \in DOMAIN r : r[i].sequence <= sequence /\ r[i].sequence \in Nat
  BY <1>1, <1>4
<1>10. ASSUME NEW i \in DOMAIN r, NEW n \in (since + 1)..r[i].sequence
       PROVE  \E j \in DOMAIN r : n \in r[j].tells /\ (j <= i \/ r[j].sequence <= r[i].sequence)
  <2>1. n \in (since + 1)..sequence /\ n <= r[i].sequence
    BY <1>1, <1>9
  <2>2. QED
    BY <1>8, <2>1
<1>11. QED
  BY <1>2, <1>4, <1>6, <1>8, <1>9, <1>10 DEF Replays

LEMMA ReplayGapAndRing ==
    ASSUME Types, NEW since \in Nats, since < sequence, ~ (oldest > sequence), since + 1 < oldest
    PROVE  Replays(replay(since), since)
<1>1. sequence \in Nat /\ since \in Nat /\ oldest \in 1..(sequence + 1) /\ sequence \in Nats
      /\ oldest - 1 \in Nats
  BY StreamAssumption DEF Types, Nats
<1> DEFINE g == Gap(sequence, since + 1, oldest - 1)
           r == RingFrom(oldest)
           q == <<g>> \o r
           l == sequence + 1 - oldest
<1>2. replay(since) = q
  BY DEF replay
<1>3. g \in Envelope /\ g.sequence = sequence /\ g.tells = (since + 1)..(oldest - 1)
  BY <1>1, GapType, GapIs
<1>4. oldest \in Nat \ {0} /\ oldest <= sequence + 1 /\ l \in Nat \ {0}
  BY <1>1
<1>5. /\ r \in Seq(Envelope) /\ Len(r) = l /\ DOMAIN r = 1..l
      /\ \A i \in 1..l : r[i].sequence = oldest + i - 1 /\ r[i].tells = {oldest + i - 1}
  BY <1>4, RingFromIs
<1> HIDE DEF r, g
<1>6. <<g>> \in Seq(Envelope) /\ Len(<<g>>) = 1 /\ <<g>>[1] = g
  BY <1>3
<1>7. /\ q \in Seq(Envelope) /\ Len(q) = 1 + l
      /\ \A i \in 1..(1 + l) : q[i] = IF i <= 1 THEN <<g>>[i] ELSE r[i - 1]
  BY <1>5, <1>6, ConcatProperties
<1> HIDE DEF q
<1>8. DOMAIN q = 1..(1 + l) /\ q # <<>> /\ 1 \in 1..(1 + l) /\ q[1] = g
  BY <1>4, <1>6, <1>7
<1>9. \A i \in 2..(1 + l) : q[i] = r[i - 1] /\ i - 1 \in 1..l
  BY <1>4, <1>7
<1>10. \A i \in 2..(1 + l) : /\ i \in DOMAIN q
                             /\ q[i].sequence = oldest + (i - 1) - 1
                             /\ q[i].tells = {oldest + (i - 1) - 1}
  BY <1>4, <1>5, <1>8, <1>9
<1>11. q[Len(q)].sequence = sequence
  <2>1. 1 + l \in 2..(1 + l) /\ oldest + ((1 + l) - 1) - 1 = sequence
    BY <1>1, <1>4
  <2>2. QED
    BY <1>7, <1>10, <2>1
<1>12. \A i \in DOMAIN q : q[i].sequence \in Nat /\ q[i].sequence <= sequence
  <2>1. \A i \in 2..(1 + l) : oldest + (i - 1) - 1 \in Nat /\ oldest + (i - 1) - 1 <= sequence
    BY <1>1, <1>4
  <2>2. \A i \in DOMAIN q : i = 1 \/ i \in 2..(1 + l)
    BY <1>4, <1>8
  <2>3. QED
    BY <1>1, <1>3, <1>8, <1>10, <2>1, <2>2
<1>13. ASSUME NEW n \in (since + 1)..sequence
       PROVE  \E j \in DOMAIN q : n \in q[j].tells /\ (j = 1 \/ q[j].sequence = n)
  <2>1. CASE n < oldest
    <3>1. n \in (since + 1)..(oldest - 1)
      BY <1>1, <2>1
    <3>2. QED
      BY <1>3, <1>8, <3>1
  <2>2. CASE ~ (n < oldest)
    <3>1. n - oldest + 2 \in 2..(1 + l) /\ oldest + ((n - oldest + 2) - 1) - 1 = n
      BY <1>1, <1>4, <2>2
    <3>2. QED
      BY <1>10, <3>1
  <2>3. QED
    BY <2>1, <2>2
<1>14. ASSUME NEW i \in DOMAIN q, NEW n \in (since + 1)..q[i].sequence
       PROVE  \E j \in DOMAIN q : n \in q[j].tells /\ (j <= i \/ q[j].sequence <= q[i].sequence)
  <2>1. n \in (since + 1)..sequence /\ n <= q[i].sequence /\ 1 <= i
    BY <1>1, <1>4, <1>8, <1>12
  <2>2. QED
    BY <1>13, <2>1
<1>15. QED
  BY <1>2, <1>7, <1>8, <1>11, <1>12, <1>13, <1>14 DEF Replays

LEMMA ReplayIs ==
    ASSUME Types, NEW since \in Nats
    PROVE  Replays(replay(since), since)
<1>1. since \in Nat /\ sequence \in Nat
  BY StreamAssumption DEF Types, Nats
<1>2. QED
  BY <1>1, ReplayNothing, ReplayGapOnly, ReplayRing, ReplayGapAndRing

LEMMA ReplayFields ==
    ASSUME IInv, Replay
    PROVE  \E frames \in Seq(Envelope) :
           /\ conn.state = "opening" /\ conn'.state = "up"
           /\ conn.since = {} => frames = <<>> /\ conn'.delivered = 0
           /\ conn.since # {} =>
                  /\ conn.since = {cursor} /\ conn.from = cursor
                  /\ Replays(frames, cursor)
                  /\ conn'.delivered = IF frames = <<>> THEN cursor ELSE sequence
           /\ conn' \in ConnType
           /\ conn'.out = frames /\ conn'.since = conn.since /\ conn'.from = conn.from
           /\ conn'.gapFrom = {} /\ conn'.chan = conn.chan /\ conn'.lagged = conn.lagged
           /\ conn'.everLagged = conn.everLagged /\ conn'.heard = conn.heard
           /\ sequence' = sequence /\ oldest' = oldest /\ unsent' = unsent
           /\ cursor' = cursor /\ told' = told /\ owed' = owed
           /\ overtaken' = overtaken /\ cutShort' = cutShort /\ drops' = drops
<1> DEFINE frames == IF conn.since = {} THEN <<>> ELSE replay(OrElse(conn.since, 0))
           upTo == IF frames = <<>> THEN OrElse(conn.since, 0) ELSE Last(frames).sequence
<1>1. Types /\ Shape /\ conn.state = "opening"
  BY DEF IInv, Replay
<1>2. conn' = [conn EXCEPT !.state = "up", !.out = frames, !.delivered = upTo]
  BY DEF Replay
<1>3. conn \in ConnType /\ cursor \in Nats /\ sequence \in Nats /\ 0 \in Nats
  BY <1>1, StreamAssumption DEF Types, Nats
<1>4. CASE conn.since = {}
  <2>1. frames = <<>> /\ upTo = 0 /\ <<>> \in Seq(Envelope)
    BY <1>4, OrElseIs
  <2>2. QED
    <3> HIDE DEF frames, upTo
    <3>1. conn' \in ConnType /\ conn'.gapFrom = {}
      BY <1>1, <1>2, <1>3, <2>1 DEF ConnType, Shape
    <3>2. /\ conn'.state = "up" /\ conn'.out = <<>> /\ conn'.delivered = 0
          /\ conn'.since = conn.since /\ conn'.from = conn.from /\ conn'.chan = conn.chan
          /\ conn'.lagged = conn.lagged /\ conn'.everLagged = conn.everLagged
          /\ conn'.heard = conn.heard
      BY <1>2, <1>3, <2>1 DEF ConnType
    <3>3. /\ sequence' = sequence /\ oldest' = oldest /\ unsent' = unsent
          /\ cursor' = cursor /\ told' = told /\ owed' = owed
          /\ overtaken' = overtaken /\ cutShort' = cutShort /\ drops' = drops
      BY DEF Replay, client
    <3>4. QED
      BY <1>1, <1>4, <2>1, <3>1, <3>2, <3>3
<1>5. CASE conn.since # {}
  <2>1. conn.since = {cursor}
    BY <1>1, <1>5 DEF Shape
  <2>2. conn.from = cursor
    BY <1>1, <2>1 DEF Shape, Subscribed
  <2>3. OrElse(conn.since, 0) = cursor
    BY <2>1, OrElseIs
  <2>4. frames = replay(cursor) /\ Replays(frames, cursor)
    BY <1>1, <1>3, <1>5, <2>3, ReplayIs
  <2>5. upTo = IF frames = <<>> THEN cursor ELSE sequence
    BY <2>3, <2>4 DEF Replays, Last
  <2>6. upTo \in Nats /\ frames \in Seq(Envelope)
    BY <1>3, <2>4, <2>5 DEF Replays
  <2>7. QED
    <3> HIDE DEF frames, upTo
    <3>1. conn' \in ConnType /\ conn'.gapFrom = {}
      BY <1>1, <1>2, <1>3, <2>6 DEF ConnType, Shape
    <3>2. /\ conn'.state = "up" /\ conn'.out = frames /\ conn'.delivered = upTo
          /\ conn'.since = conn.since /\ conn'.from = conn.from /\ conn'.chan = conn.chan
          /\ conn'.lagged = conn.lagged /\ conn'.everLagged = conn.everLagged
          /\ conn'.heard = conn.heard
      BY <1>2, <1>3 DEF ConnType
    <3>3. /\ sequence' = sequence /\ oldest' = oldest /\ unsent' = unsent
          /\ cursor' = cursor /\ told' = told /\ owed' = owed
          /\ overtaken' = overtaken /\ cutShort' = cutShort /\ drops' = drops
      BY DEF Replay, client
    <3>4. QED
      BY <1>1, <1>5, <2>1, <2>2, <2>4, <2>5, <2>6, <3>1, <3>2, <3>3
<1>6. QED
  BY <1>4, <1>5

LEMMA ReplayKeeps ==
    ASSUME IInv, Replay
    PROVE  IInv'
<1>1. Types /\ Shape /\ InOrder /\ Anchored /\ Reaches /\ Behind
  BY DEF IInv
<1>2. PICK frames \in Seq(Envelope) :
           /\ conn.state = "opening" /\ conn'.state = "up"
           /\ conn.since = {} => frames = <<>> /\ conn'.delivered = 0
           /\ conn.since # {} =>
                  /\ conn.since = {cursor} /\ conn.from = cursor
                  /\ Replays(frames, cursor)
                  /\ conn'.delivered = IF frames = <<>> THEN cursor ELSE sequence
           /\ conn' \in ConnType
           /\ conn'.out = frames /\ conn'.since = conn.since /\ conn'.from = conn.from
           /\ conn'.gapFrom = {} /\ conn'.chan = conn.chan /\ conn'.lagged = conn.lagged
           /\ conn'.everLagged = conn.everLagged /\ conn'.heard = conn.heard
           /\ sequence' = sequence /\ oldest' = oldest /\ unsent' = unsent
           /\ cursor' = cursor /\ told' = told /\ owed' = owed
           /\ overtaken' = overtaken /\ cutShort' = cutShort /\ drops' = drops
  BY ReplayFields
<1>3. /\ conn.out = <<>> /\ conn.heard = {} /\ conn.gapFrom = {} /\ conn.delivered = 0
      /\ sequence \in Nat /\ cursor \in Nat /\ owed \in Nat /\ conn.from \in Nat
      /\ cursor <= sequence \/ cursor > sequence
  BY <1>1, <1>2, StreamAssumption DEF Types, ConnType, Shape, Nats
<1>4. Types'
  BY <1>1, <1>2 DEF Types
<1>6. Shape'
  BY <1>1, <1>2 DEF Shape, Subscribed
<1>7. InOrder'
  BY <1>1, <1>2 DEF InOrder
<1>8. Anchor' = conn'.delivered /\ Anchor = 0
  BY <1>2, <1>3, OrElseIs DEF Anchor
<1>9. conn.since # {} => \A n \in (conn.from + 1)..sequence : Promised(n)'
  BY <1>2 DEF Promised, Replays
<1>10. Anchored'
  <2>1. CASE conn.since = {}
    <3>1. (conn.from + 1)..0 = {}
      BY <1>3
    <3>2. QED
      BY <1>2, <1>8, <2>1, <3>1 DEF Anchored
  <2>2. CASE conn.since # {}
    <3>1. conn'.delivered = cursor \/ conn'.delivered = sequence
      BY <1>2, <2>2
    <3>2. CASE conn'.delivered = cursor
      <4>1. conn.from = cursor /\ (cursor + 1)..cursor = {}
        BY <1>2, <1>3, <2>2
      <4>2. QED
        BY <1>2, <1>8, <3>2, <4>1 DEF Anchored
    <3>3. CASE conn'.delivered = sequence
      BY <1>2, <1>8, <1>9, <2>2, <3>3 DEF Anchored
    <3>4. QED
      BY <3>1, <3>2, <3>3
  <2>3. QED
    BY <2>1, <2>2
<1>11. Reaches'
  <2>1. CASE conn.since = {}
    <3>1. Owes /\ Anchor' = 0
      BY <1>2, <1>8, <2>1 DEF Owes
    <3>2. \A n : (Promised(n)' <=> Promised(n)) /\ (Waiting(n)' <=> Waiting(n))
                 /\ (Dropped(n)' <=> Dropped(n))
      BY <1>2, <1>3, <1>8, <2>1, <3>1 DEF Promised, Waiting, Dropped
    <3>3. QED
      BY <1>1, <1>2, <3>1, <3>2 DEF Reaches
  <2>2. CASE conn.since # {}
    BY <1>2, <1>9, <2>2 DEF Reaches
  <2>3. QED
    BY <2>1, <2>2
<1>12. \A n \in (owed + 1)..cursor : ~ overtaken /\ ~ cutShort => n \in told
  BY <1>1, <1>3 DEF Behind
<1>13. Behind'
  BY <1>2, <1>12 DEF Behind
<1>14. Ahead'
  <2> SUFFICES ASSUME ~ overtaken, ~ cutShort,
                      NEW i \in DOMAIN frames, NEW n \in (owed + 1)..frames[i].sequence
               PROVE  \/ n \in told
                      \/ \E j \in DOMAIN frames :
                             n \in frames[j].tells /\ (j <= i \/ frames[j].sequence <= frames[i].sequence)
    BY <1>2 DEF Ahead
  <2>1. conn.since # {}
    BY <1>2
  <2>2. frames[i].sequence \in Nat
    <3>1. frames[i] \in Envelope
      BY <1>2
    <3>2. QED
      BY <3>1, StreamAssumption DEF Envelope, Nats
  <2>3. CASE n <= cursor
    <3>1. n \in (owed + 1)..cursor
      BY <1>3, <2>2, <2>3
    <3>2. QED
      BY <1>12, <3>1
  <2>4. CASE ~ (n <= cursor)
    <3>1. n \in (cursor + 1)..frames[i].sequence
      BY <1>3, <2>2, <2>4
    <3>2. QED
      BY <1>2, <2>1, <3>1 DEF Replays
  <2>5. QED
    BY <2>3, <2>4
<1>15. QED
  BY <1>4, <1>6, <1>7, <1>10, <1>11, <1>13, <1>14 DEF IInv

---------------------------------------------------------------------------
(* A live event, and the gap a lag leaves.                                 *)

LEMMA MissedKeeps ==
    ASSUME IInv, Missed
    PROVE  IInv'
<1>1. Types /\ Shape /\ InOrder /\ Anchored /\ Reaches /\ Behind /\ Ahead
  BY DEF IInv
<1>2. /\ conn.state = "up" /\ conn.lagged
      /\ conn' = [conn EXCEPT !.lagged = FALSE, !.gapFrom = {Anchor}]
      /\ sequence' = sequence /\ oldest' = oldest /\ unsent' = unsent
      /\ cursor' = cursor /\ told' = told /\ owed' = owed
      /\ overtaken' = overtaken /\ cutShort' = cutShort /\ drops' = drops
  BY DEF Missed, client, Anchor
<1>3. Anchor \in Nats
  BY <1>1, AnchorType
<1> DEFINE a == Anchor
<1> HIDE DEF a
<1>4. conn' = [conn EXCEPT !.lagged = FALSE, !.gapFrom = {a}] /\ a \in Nats
  BY <1>2, <1>3 DEF a
<1>5. /\ conn' \in ConnType
      /\ conn'.state = "up" /\ conn'.since = conn.since /\ conn'.from = conn.from
      /\ conn'.out = conn.out /\ conn'.delivered = conn.delivered /\ conn'.gapFrom = {a}
      /\ conn'.chan = conn.chan /\ conn'.lagged = FALSE /\ conn'.everLagged = conn.everLagged
      /\ conn'.heard = conn.heard
  <2>1. {a} \in Option
    BY <1>4 DEF Option
  <2>2. conn \in ConnType
    BY <1>1 DEF Types
  <2>3. QED
    BY <1>2, <1>4, <2>1, <2>2 DEF ConnType
<1>6. Anchor' = Anchor
  BY <1>5, OrElseIs DEF Anchor, a
<1>7. Types'
  BY <1>1, <1>2, <1>5 DEF Types
<1>8. Shape'
  BY <1>1, <1>2, <1>5 DEF Shape, Subscribed
<1>9. InOrder'
  BY <1>1, <1>2, <1>5 DEF InOrder
<1>10. Owes /\ (Owes' <=> Owes)
  BY <1>2, <1>5 DEF Owes
<1>11. \A n : (Promised(n)' <=> Promised(n)) /\ (Waiting(n)' <=> Waiting(n))
              /\ (Dropped(n)' <=> Dropped(n))
  BY <1>2, <1>5, <1>6 DEF Promised, Waiting, Dropped
<1>12. Anchored'
  BY <1>1, <1>2, <1>5, <1>6, <1>10, <1>11 DEF Anchored
<1>13. Reaches'
  BY <1>1, <1>2, <1>5, <1>10, <1>11 DEF Reaches
<1>14. Behind' /\ Ahead'
  BY <1>1, <1>2, <1>5 DEF Behind, Ahead
<1>15. QED
  BY <1>7, <1>8, <1>9, <1>12, <1>13, <1>14 DEF IInv

\* The frames of a live event h: h, and the events from the anchor to it when
\* some were dropped.
LEMMA LiveFramesIs ==
    ASSUME Types, NEW h \in 1..sequence
    PROVE  LET f == LiveFrames(h) IN
           /\ f \in Seq(Envelope) /\ f # <<>>
           /\ \E j \in DOMAIN f : h \in f[j].tells /\ f[j].sequence = h
           /\ conn.gapFrom # {} =>
                 \A n \in (Anchor + 1)..(h - 1) :
                     \E j \in DOMAIN f : n \in f[j].tells /\ f[j].sequence = h - 1 /\ j = 1
           /\ \A i \in DOMAIN f : f[i].sequence = h \/ (f[i].sequence = h - 1 /\ i = 1)
<1>1. h \in Nats /\ h - 1 \in Nats /\ conn.gapFrom \in Option
  BY StreamAssumption DEF Types, ConnType, Nats
<1>2. Event(h) \in Envelope /\ Event(h).sequence = h /\ Event(h).tells = {h}
  BY <1>1, EventType, EventIs
<1>3. CASE conn.gapFrom = {}
  <2>1. LiveFrames(h) = <<Event(h)>>
    BY <1>3 DEF LiveFrames
  <2>2. QED
    BY <1>2, <1>3, <2>1
<1>4. ASSUME NEW m \in Nats, conn.gapFrom = {m}
      PROVE  LET f == LiveFrames(h) IN
           /\ f \in Seq(Envelope) /\ f # <<>>
           /\ \E j \in DOMAIN f : h \in f[j].tells /\ f[j].sequence = h
           /\ \A n \in (Anchor + 1)..(h - 1) :
                     \E j \in DOMAIN f : n \in f[j].tells /\ f[j].sequence = h - 1 /\ j = 1
           /\ \A i \in DOMAIN f : f[i].sequence = h \/ (f[i].sequence = h - 1 /\ i = 1)
  <2>1. Anchor = m /\ OrElse(conn.gapFrom, 0) = m /\ conn.gapFrom # {} /\ m \in Nat
    BY <1>4, OrElseIs, StreamAssumption DEF Anchor, Nats
  <2>2. CASE h > m + 1
    <3> DEFINE g == Gap(h - 1, m + 1, h - 1)
    <3>1. LiveFrames(h) = <<g, Event(h)>>
      BY <2>1, <2>2 DEF LiveFrames
    <3>2. g \in Envelope /\ g.sequence = h - 1 /\ g.tells = (m + 1)..(h - 1)
      BY <1>1, <2>1, GapType, GapIs
    <3> HIDE DEF g
    <3>3. QED
      BY <1>2, <2>1, <3>1, <3>2
  <2>3. CASE ~ (h > m + 1)
    <3>1. LiveFrames(h) = <<Event(h)>>
      BY <2>1, <2>3 DEF LiveFrames
    <3>2. (m + 1)..(h - 1) = {}
      BY <1>1, <2>1, <2>3
    <3>3. QED
      BY <1>2, <2>1, <3>1, <3>2
  <2>4. QED
    BY <2>2, <2>3
<1>5. QED
  BY <1>1, <1>3, <1>4, OptionIs

LEMMA RecvFields ==
    ASSUME IInv, recv
    PROVE  LET h == Head(conn.chan) IN
           /\ conn.state = "up" /\ conn.out = <<>> /\ ~ conn.lagged
           /\ conn.chan \in Seq(Nats) /\ conn.chan # <<>>
           /\ h \in 1..sequence /\ h = conn.chan[1] /\ 1 \in DOMAIN conn.chan
           /\ DOMAIN conn.chan = 1..Len(conn.chan) /\ DOMAIN Tail(conn.chan) = 1..(Len(conn.chan) - 1)
           /\ \A i \in DOMAIN Tail(conn.chan) : i + 1 \in DOMAIN conn.chan
                                                /\ Tail(conn.chan)[i] = conn.chan[i + 1]
           /\ conn' \in ConnType
           /\ conn'.state = "up" /\ conn'.since = conn.since /\ conn'.from = conn.from
           /\ conn'.out = LiveFrames(h) /\ conn'.delivered = h /\ conn'.gapFrom = {}
           /\ conn'.chan = Tail(conn.chan) /\ conn'.lagged = FALSE
           /\ conn'.everLagged = conn.everLagged /\ conn'.heard = conn.heard
           /\ Anchor' = h
           /\ sequence' = sequence /\ oldest' = oldest /\ unsent' = unsent
           /\ cursor' = cursor /\ told' = told /\ owed' = owed
           /\ overtaken' = overtaken /\ cutShort' = cutShort /\ drops' = drops
<1> DEFINE h == Head(conn.chan)
           c == Tail(conn.chan)
           f == LiveFrames(h)
<1>1. Types /\ Shape
  BY DEF IInv
<1>2. /\ conn.state = "up" /\ conn.out = <<>> /\ ~ conn.lagged /\ conn.chan # <<>>
      /\ conn' = [conn EXCEPT !.chan = c, !.out = f, !.gapFrom = {}, !.delivered = h]
      /\ sequence' = sequence /\ oldest' = oldest /\ unsent' = unsent
      /\ cursor' = cursor /\ told' = told /\ owed' = owed
      /\ overtaken' = overtaken /\ cutShort' = cutShort /\ drops' = drops
  BY DEF recv, client
<1>3. conn \in ConnType /\ conn.chan \in Seq(Nats) /\ conn.lagged = FALSE
  BY <1>1, <1>2 DEF Types, ConnType
<1>4. /\ h = conn.chan[1] /\ DOMAIN conn.chan = 1..Len(conn.chan) /\ 1 \in DOMAIN conn.chan
      /\ c \in Seq(Nats) /\ Len(c) = Len(conn.chan) - 1 /\ DOMAIN c = 1..(Len(conn.chan) - 1)
      /\ \A i \in DOMAIN c : i + 1 \in DOMAIN conn.chan /\ c[i] = conn.chan[i + 1]
  BY <1>2, <1>3
<1>5. h \in 1..sequence
  BY <1>1, <1>4 DEF Shape
<1>6. f \in Seq(Envelope) /\ h \in Nats /\ {} \in Option
  BY <1>1, <1>5, LiveFramesIs, StreamAssumption DEF Types, Nats, Option
<1> HIDE DEF h, c, f
<1>7. /\ conn' \in ConnType
      /\ conn'.state = "up" /\ conn'.since = conn.since /\ conn'.from = conn.from
      /\ conn'.out = f /\ conn'.delivered = h /\ conn'.gapFrom = {}
      /\ conn'.chan = c /\ conn'.lagged = FALSE
      /\ conn'.everLagged = conn.everLagged /\ conn'.heard = conn.heard
  BY <1>2, <1>3, <1>4, <1>6 DEF ConnType
<1>8. Anchor' = h
  BY <1>7, OrElseIs DEF Anchor
<1>9. QED
  BY <1>2, <1>3, <1>4, <1>5, <1>7, <1>8 DEF h, c, f

\* Before the event that is taken nothing is waiting when events come in
\* order, so what it leaves behind was heard or is in the gap before it.
LEMMA RecvLeaves ==
    ASSUME IInv, recv, ~ overtaken, NEW n \in (conn.from + 1)..(Head(conn.chan) - 1)
    PROVE  n \in conn.heard \/ (conn.gapFrom # {} /\ Anchor < n)
<1> DEFINE h == Head(conn.chan)
<1>1. Types /\ Shape /\ InOrder /\ Reaches
  BY DEF IInv
<1>2. /\ conn.state = "up" /\ conn.out = <<>> /\ ~ conn.lagged
      /\ h \in 1..sequence /\ h = conn.chan[1] /\ 1 \in DOMAIN conn.chan
      /\ DOMAIN conn.chan = 1..Len(conn.chan)
  BY RecvFields
<1>3. sequence \in Nat /\ conn.from \in Nat /\ h \in Nat /\ n \in Nat /\ n < h
  BY <1>1, <1>2, StreamAssumption, SMTT(30) DEF Types, ConnType, Nats
<1>4. n \in (conn.from + 1)..sequence
  BY <1>2, <1>3
<1>5. Promised(n) \/ Waiting(n) \/ Dropped(n)
  BY <1>1, <1>2, <1>4 DEF Reaches, Owes
<1>6. ASSUME Waiting(n) PROVE FALSE
  <2>1. CASE n \in unsent
    BY <1>1, <1>2, <1>3, <2>1 DEF InOrder
  <2>2. ASSUME NEW i \in DOMAIN conn.chan, n = conn.chan[i] PROVE FALSE
    <3>1. i = 1 \/ (1 < i)
      BY <1>2
    <3>2. i # 1
      BY <1>2, <1>3, <2>2
    <3>3. conn.chan[1] < conn.chan[i]
      BY <1>1, <1>2, <3>1, <3>2 DEF InOrder
    <3>4. QED
      BY <1>2, <1>3, <2>2, <3>3
  <2>3. QED
    BY <1>6, <2>1, <2>2 DEF Waiting
<1>7. CASE Promised(n)
  BY <1>2, <1>7 DEF Promised
<1>8. CASE Dropped(n)
  BY <1>2, <1>8 DEF Dropped
<1>9. QED
  BY <1>5, <1>6, <1>7, <1>8

LEMMA RecvKeeps ==
    ASSUME IInv, recv
    PROVE  IInv'
<1> DEFINE h == Head(conn.chan)
           f == LiveFrames(h)
<1>1. Types /\ Shape /\ InOrder /\ Anchored /\ Reaches /\ Behind /\ Ahead
  BY DEF IInv
<1>2. /\ conn.state = "up" /\ conn.out = <<>> /\ ~ conn.lagged
      /\ h \in 1..sequence /\ h = conn.chan[1] /\ 1 \in DOMAIN conn.chan
      /\ DOMAIN conn.chan = 1..Len(conn.chan) /\ DOMAIN Tail(conn.chan) = 1..(Len(conn.chan) - 1)
      /\ \A i \in DOMAIN Tail(conn.chan) : i + 1 \in DOMAIN conn.chan
                                           /\ Tail(conn.chan)[i] = conn.chan[i + 1]
      /\ conn' \in ConnType
      /\ conn'.state = "up" /\ conn'.since = conn.since /\ conn'.from = conn.from
      /\ conn'.out = f /\ conn'.delivered = h /\ conn'.gapFrom = {}
      /\ conn'.chan = Tail(conn.chan) /\ conn'.lagged = FALSE
      /\ conn'.everLagged = conn.everLagged /\ conn'.heard = conn.heard
      /\ Anchor' = h
      /\ sequence' = sequence /\ oldest' = oldest /\ unsent' = unsent
      /\ cursor' = cursor /\ told' = told /\ owed' = owed
      /\ overtaken' = overtaken /\ cutShort' = cutShort /\ drops' = drops
  BY RecvFields
<1>3. /\ f \in Seq(Envelope) /\ f # <<>>
      /\ \E j \in DOMAIN f : h \in f[j].tells /\ f[j].sequence = h
      /\ conn.gapFrom # {} =>
            \A n \in (Anchor + 1)..(h - 1) :
                \E j \in DOMAIN f : n \in f[j].tells /\ f[j].sequence = h - 1 /\ j = 1
      /\ \A i \in DOMAIN f : f[i].sequence = h \/ (f[i].sequence = h - 1 /\ i = 1)
  BY <1>1, <1>2, LiveFramesIs
<1>4. /\ sequence \in Nat /\ conn.from \in Nat /\ h \in Nat /\ cursor \in Nat /\ owed \in Nat
      /\ Anchor \in Nat
  BY <1>1, <1>2, AnchorType, StreamAssumption, SMTT(30) DEF Types, ConnType, Nats
<1>5. \A i \in DOMAIN f : 1 <= i /\ i \in Nat
  BY <1>3
<1> HIDE DEF h, f
<1>6. Types'
  BY <1>1, <1>2 DEF Types
<1>7. Shape'
  BY <1>1, <1>2 DEF Shape, Subscribed
<1>8. InOrder'
  <2> SUFFICES ASSUME ~ overtaken
               PROVE  /\ \A i, j \in DOMAIN conn'.chan : i < j => conn'.chan[i] < conn'.chan[j]
                      /\ \A i \in DOMAIN conn'.chan : \A m \in unsent : conn'.chan[i] < m
    BY <1>2 DEF InOrder
  <2>1. ASSUME NEW i \in DOMAIN conn'.chan, NEW j \in DOMAIN conn'.chan, i < j
        PROVE  conn'.chan[i] < conn'.chan[j]
    <3>1. i + 1 \in DOMAIN conn.chan /\ j + 1 \in DOMAIN conn.chan /\ i + 1 < j + 1
      BY <1>2, <2>1
    <3>2. QED
      BY <1>1, <1>2, <3>1 DEF InOrder
  <2>2. QED
    BY <1>1, <1>2, <2>1 DEF InOrder
<1>9. ASSUME ~ overtaken, NEW n \in (conn.from + 1)..(h - 1)
      PROVE  n \in conn.heard \/ \E j \in DOMAIN f : n \in f[j].tells /\ j = 1
  <2>1. n \in conn.heard \/ (conn.gapFrom # {} /\ Anchor < n)
    BY <1>9, RecvLeaves DEF h
  <2>2. CASE conn.gapFrom # {} /\ Anchor < n
    <3>1. n \in (Anchor + 1)..(h - 1)
      BY <1>4, <2>2
    <3>2. QED
      BY <1>3, <2>2, <3>1
  <2>3. QED
    BY <2>1, <2>2
<1>10. \A e : e = h => Promised(e)'
  BY <1>2, <1>3 DEF Promised
<1>11. Anchored'
  <2> SUFFICES ASSUME ~ overtaken, NEW n \in (conn.from + 1)..h
               PROVE  Promised(n)'
    BY <1>2 DEF Anchored
  <2>1. CASE n = h
    BY <1>10, <2>1
  <2>2. CASE n # h
    <3>1. n \in (conn.from + 1)..(h - 1)
      BY <1>4, <2>2
    <3>2. n \in conn.heard \/ \E j \in DOMAIN f : n \in f[j].tells /\ j = 1
      BY <1>9, <3>1
    <3>3. QED
      BY <1>2, <3>2 DEF Promised
  <2>3. QED
    BY <2>1, <2>2
<1>12. Reaches'
  <2> SUFFICES ASSUME ~(conn.everLagged /\ overtaken), NEW n \in (conn.from + 1)..sequence
               PROVE  Promised(n)' \/ Waiting(n)'
    BY <1>2 DEF Reaches
  <2>1. Promised(n) \/ Waiting(n) \/ Dropped(n)
    BY <1>1, <1>2 DEF Reaches, Owes
  <2>2. CASE Promised(n)
    BY <1>2, <2>2 DEF Promised
  <2>3. CASE n \in unsent
    BY <1>2, <2>3 DEF Waiting
  <2>4. ASSUME NEW i \in DOMAIN conn.chan, n = conn.chan[i] PROVE Promised(n)' \/ Waiting(n)'
    <3>1. CASE i = 1
      BY <1>2, <1>10, <2>4, <3>1
    <3>2. CASE i # 1
      <4>1. i - 1 \in DOMAIN conn'.chan /\ (i - 1) + 1 = i
        BY <1>2, <3>2
      <4>2. conn'.chan[i - 1] = conn.chan[i]
        BY <1>2, <4>1
      <4>3. QED
        BY <2>4, <4>1, <4>2 DEF Waiting
    <3>3. QED
      BY <3>1, <3>2
  <2>5. CASE Dropped(n)
    <3>1. conn.gapFrom # {} /\ n \in (Anchor + 1)..(h - 1)
      BY <1>2, <1>4, <2>5 DEF Dropped, h
    <3>2. \E j \in DOMAIN f : n \in f[j].tells
      BY <1>3, <3>1
    <3>3. QED
      BY <1>2, <3>2 DEF Promised
  <2>6. QED
    BY <2>1, <2>2, <2>3, <2>4, <2>5 DEF Waiting
<1>13. ASSUME ~ overtaken, ~ cutShort, NEW n \in (owed + 1)..cursor PROVE n \in told
  <2>1. DOMAIN conn.out = {}
    BY <1>2
  <2>2. QED
    BY <1>1, <1>13, <2>1 DEF Behind
<1>14. Behind'
  BY <1>2, <1>13 DEF Behind
<1>15. Ahead'
  <2> SUFFICES ASSUME ~ overtaken, ~ cutShort,
                      NEW i \in DOMAIN f, NEW n \in (owed + 1)..f[i].sequence
               PROVE  \/ n \in told
                      \/ \E j \in DOMAIN f : n \in f[j].tells /\ (j <= i \/ f[j].sequence <= f[i].sequence)
    BY <1>2 DEF Ahead
  <2>1. (f[i].sequence = h \/ f[i].sequence = h - 1) /\ n \in Nat /\ n > owed /\ n <= f[i].sequence
    BY <1>3, <1>4
  <2>2. CASE n = h
    <3>1. f[i].sequence = h
      BY <1>4, <2>1, <2>2
    <3>2. \E j \in DOMAIN f : n \in f[j].tells /\ f[j].sequence = h
      BY <1>3, <2>2
    <3>3. QED
      BY <1>4, <3>1, <3>2
  <2>3. CASE n # h /\ n <= conn.from
    <3>1. conn.since = {conn.from} /\ conn.from <= cursor
      BY <1>1, <1>2, <1>4, <2>1, <2>3 DEF Shape, Subscribed
    <3>2. n \in (owed + 1)..cursor
      BY <1>4, <2>1, <2>3, <3>1
    <3>3. QED
      BY <1>13, <3>2
  <2>4. CASE n # h /\ ~ (n <= conn.from)
    <3>1. n \in (conn.from + 1)..(h - 1)
      BY <1>4, <2>1, <2>4
    <3>2. n \in conn.heard \/ \E j \in DOMAIN f : n \in f[j].tells /\ j = 1
      BY <1>9, <3>1
    <3>3. CASE n \in conn.heard
      BY <1>1, <3>3 DEF Shape
    <3>4. QED
      BY <1>5, <3>2, <3>3
  <2>5. QED
    BY <2>2, <2>3, <2>4
<1>16. QED
  BY <1>6, <1>7, <1>8, <1>11, <1>12, <1>14, <1>15 DEF IInv

---------------------------------------------------------------------------
(* The client: a frame arrives, a connection is lost.                      *)

LEMMA DeliverFields ==
    ASSUME IInv, Deliver
    PROVE  LET e == Head(conn.out) IN
           /\ conn.out # <<>> /\ e = conn.out[1] /\ 1 \in DOMAIN conn.out
           /\ e.sequence \in Nats /\ e.tells \subseteq Nats
           /\ DOMAIN conn.out = 1..Len(conn.out) /\ DOMAIN Tail(conn.out) = 1..(Len(conn.out) - 1)
           /\ Len(conn.out) \in Nat
           /\ \A i \in DOMAIN Tail(conn.out) : i + 1 \in DOMAIN conn.out
                                               /\ Tail(conn.out)[i] = conn.out[i + 1]
           /\ conn' \in ConnType
           /\ conn'.state = conn.state /\ conn'.since = conn.since /\ conn'.from = conn.from
           /\ conn'.out = Tail(conn.out) /\ conn'.delivered = conn.delivered
           /\ conn'.gapFrom = conn.gapFrom /\ conn'.chan = conn.chan
           /\ conn'.lagged = conn.lagged /\ conn'.everLagged = conn.everLagged
           /\ conn'.heard = conn.heard \cup e.tells
           /\ Anchor' = Anchor
           /\ cursor' = (IF e.sequence > cursor THEN e.sequence ELSE cursor)
           /\ told' = told \cup e.tells
           /\ sequence' = sequence /\ oldest' = oldest /\ unsent' = unsent /\ owed' = owed
           /\ overtaken' = overtaken /\ cutShort' = cutShort /\ drops' = drops
<1> DEFINE e == Head(conn.out)
           t == Tail(conn.out)
<1>1. Types
  BY DEF IInv
<1>2. /\ conn.out # <<>>
      /\ conn' = [conn EXCEPT !.out = t, !.heard = conn.heard \cup e.tells]
      /\ cursor' = (IF e.sequence > cursor THEN e.sequence ELSE cursor)
      /\ told' = told \cup e.tells
      /\ sequence' = sequence /\ oldest' = oldest /\ unsent' = unsent /\ owed' = owed
      /\ overtaken' = overtaken /\ cutShort' = cutShort /\ drops' = drops
  BY DEF Deliver, handleFrame
<1>3. conn \in ConnType /\ conn.out \in Seq(Envelope) /\ conn.heard \subseteq Nats
  BY <1>1 DEF Types, ConnType
<1>4. /\ e = conn.out[1] /\ DOMAIN conn.out = 1..Len(conn.out) /\ 1 \in DOMAIN conn.out
      /\ t \in Seq(Envelope) /\ DOMAIN t = 1..(Len(conn.out) - 1) /\ Len(conn.out) \in Nat
      /\ \A i \in DOMAIN t : i + 1 \in DOMAIN conn.out /\ t[i] = conn.out[i + 1]
  BY <1>2, <1>3
<1>5. e \in Envelope
  BY <1>3, <1>4
<1>6. e.sequence \in Nats /\ e.tells \subseteq Nats
  BY <1>5 DEF Envelope
<1> HIDE DEF e, t
<1>7. /\ conn' \in ConnType
      /\ conn'.state = conn.state /\ conn'.since = conn.since /\ conn'.from = conn.from
      /\ conn'.out = t /\ conn'.delivered = conn.delivered
      /\ conn'.gapFrom = conn.gapFrom /\ conn'.chan = conn.chan
      /\ conn'.lagged = conn.lagged /\ conn'.everLagged = conn.everLagged
      /\ conn'.heard = conn.heard \cup e.tells
  <2>1. conn.heard \cup e.tells \in SUBSET Nats
    BY <1>3, <1>6
  <2>2. QED
    BY <1>2, <1>3, <1>4, <2>1 DEF ConnType
<1>8. Anchor' = Anchor
  BY <1>7 DEF Anchor
<1>9. QED
  BY <1>2, <1>4, <1>6, <1>7, <1>8 DEF e, t

LEMMA DeliverKeeps ==
    ASSUME IInv, Deliver
    PROVE  IInv'
<1> DEFINE e == Head(conn.out)
<1>1. Types /\ Shape /\ InOrder /\ Anchored /\ Reaches /\ Behind /\ Ahead
  BY DEF IInv
<1>2. /\ conn.out # <<>> /\ e = conn.out[1] /\ 1 \in DOMAIN conn.out
      /\ e.sequence \in Nats /\ e.tells \subseteq Nats
      /\ DOMAIN conn.out = 1..Len(conn.out) /\ DOMAIN Tail(conn.out) = 1..(Len(conn.out) - 1)
      /\ Len(conn.out) \in Nat
      /\ \A i \in DOMAIN Tail(conn.out) : i + 1 \in DOMAIN conn.out
                                          /\ Tail(conn.out)[i] = conn.out[i + 1]
      /\ conn' \in ConnType
      /\ conn'.state = conn.state /\ conn'.since = conn.since /\ conn'.from = conn.from
      /\ conn'.out = Tail(conn.out) /\ conn'.delivered = conn.delivered
      /\ conn'.gapFrom = conn.gapFrom /\ conn'.chan = conn.chan
      /\ conn'.lagged = conn.lagged /\ conn'.everLagged = conn.everLagged
      /\ conn'.heard = conn.heard \cup e.tells
      /\ Anchor' = Anchor
      /\ cursor' = (IF e.sequence > cursor THEN e.sequence ELSE cursor)
      /\ told' = told \cup e.tells
      /\ sequence' = sequence /\ oldest' = oldest /\ unsent' = unsent /\ owed' = owed
      /\ overtaken' = overtaken /\ cutShort' = cutShort /\ drops' = drops
  BY DeliverFields
<1> HIDE DEF e
<1>3. cursor \in Nats /\ told \subseteq Nats /\ cursor \in Nat /\ e.sequence \in Nat /\ owed \in Nat
  <2>1. \A n \in Nats : n \in Nat
    BY StreamAssumption DEF Nats
  <2>2. cursor \in Nats /\ told \subseteq Nats /\ owed \in Nats
    BY <1>1 DEF Types
  <2>3. e.sequence \in Nats
    BY <1>2
  <2>4. QED
    BY <2>1, <2>2, <2>3
<1>3a. e.sequence \in Nats
  BY <1>2
<1>4. cursor' \in Nats /\ cursor' \in Nat /\ cursor <= cursor' /\ e.sequence <= cursor'
  <2>1. CASE e.sequence > cursor
    <3>1. cursor' = e.sequence
      BY <1>2, <2>1
    <3>2. QED
      BY <1>3, <1>3a, <2>1, <3>1
  <2>2. CASE ~ (e.sequence > cursor)
    <3>1. cursor' = cursor
      BY <1>2, <2>2
    <3>2. QED
      BY <1>3, <2>2, <3>1
  <2>3. QED
    BY <2>1, <2>2
<1>4a. told' \subseteq Nats
  BY <1>2, <1>3
<1>5. Types'
  BY <1>1, <1>2, <1>4, <1>4a DEF Types
<1>6. conn.state = "up"
  <2>1. conn.state # "down"
    BY <1>1, <1>2 DEF Shape, Down
  <2>2. conn.state # "opening"
    BY <1>1, <1>2 DEF Shape
  <2>3. QED
    BY <1>1, <2>1, <2>2 DEF Types, ConnType
<1>7. Shape'
  <2>1. conn'.heard \subseteq told'
    BY <1>1, <1>2 DEF Shape
  <2>2. \/ conn'.since = {} /\ conn'.from = owed'
        \/ conn'.since = {conn'.from} /\ conn'.from <= cursor'
    <3>1. conn.from \in Nat
      BY <1>1, StreamAssumption DEF Types, ConnType, Nats
    <3>2. QED
      BY <1>1, <1>2, <1>3, <1>4, <1>6, <3>1 DEF Shape, Subscribed
  <2>3. QED
    BY <1>1, <1>2, <1>6, <2>1, <2>2 DEF Shape, Subscribed
<1>8. InOrder'
  BY <1>1, <1>2 DEF InOrder
<1>9. \A i \in DOMAIN conn.out : i = 1 \/ (i - 1 \in DOMAIN conn'.out
                                             /\ conn'.out[i - 1] = conn.out[i])
  <2>1. ASSUME NEW i \in DOMAIN conn.out, i # 1
        PROVE  i - 1 \in DOMAIN conn'.out /\ conn'.out[i - 1] = conn.out[i]
    <3>1. i - 1 \in DOMAIN Tail(conn.out) /\ (i - 1) + 1 = i
      BY <1>2, <2>1
    <3>2. QED
      BY <1>2, <3>1
  <2>2. QED
    BY <2>1
<1>10. \A n : Promised(n) => Promised(n)'
  <2>1. ASSUME NEW n, Promised(n) PROVE Promised(n)'
    <3>1. CASE n \in conn.heard
      BY <1>2, <3>1 DEF Promised
    <3>2. ASSUME NEW i \in DOMAIN conn.out, n \in conn.out[i].tells PROVE Promised(n)'
      BY <1>2, <1>9, <3>2 DEF Promised
    <3>3. QED
      BY <2>1, <3>1, <3>2 DEF Promised
  <2>2. QED
    BY <2>1
<1>11. Anchored'
  BY <1>1, <1>2, <1>10 DEF Anchored, Owes
<1>12. \A n : (Waiting(n)' <=> Waiting(n)) /\ (Dropped(n)' <=> Dropped(n))
  BY <1>2 DEF Waiting, Dropped
<1>13. Reaches'
  BY <1>1, <1>2, <1>10, <1>12 DEF Reaches, Owes
<1>14. Behind'
  <2> SUFFICES ASSUME ~ overtaken, ~ cutShort, NEW n \in (owed + 1)..cursor'
               PROVE  \/ n \in told'
                      \/ \E j \in DOMAIN conn'.out :
                             n \in conn'.out[j].tells /\ conn'.out[j].sequence <= cursor'
    BY <1>2 DEF Behind
  <2>1. \/ n \in told
        \/ \E j \in DOMAIN conn.out :
               n \in conn.out[j].tells /\ (j = 1 \/ conn.out[j].sequence <= cursor')
    <3>0. \A j \in DOMAIN conn.out : conn.out[j].sequence \in Nat /\ j \in Nat
      <4>1. \A j \in DOMAIN conn.out : conn.out[j] \in Envelope
        BY <1>1 DEF Types, ConnType
      <4>2. QED
        BY <1>2, <4>1, StreamAssumption DEF Envelope, Nats
    <3>1. CASE n <= cursor
      <4>1. n \in (owed + 1)..cursor
        BY <1>3, <1>4, <3>1
      <4>2. \/ n \in told
            \/ \E j \in DOMAIN conn.out :
                   n \in conn.out[j].tells /\ conn.out[j].sequence <= cursor
        BY <1>1, <4>1 DEF Behind
      <4>3. QED
        BY <1>3, <1>4, <3>0, <4>2
    <3>2. CASE ~ (n <= cursor)
      <4>1. n \in (owed + 1)..conn.out[1].sequence
        BY <1>2, <1>3, <1>4, <3>2
      <4>2. \/ n \in told
            \/ \E j \in DOMAIN conn.out :
                   n \in conn.out[j].tells /\ (j <= 1 \/ conn.out[j].sequence <= conn.out[1].sequence)
        BY <1>1, <1>2, <4>1 DEF Ahead
      <4>3. \A j \in DOMAIN conn.out : j <= 1 => j = 1
        BY <1>2
      <4>4. QED
        BY <1>2, <1>3, <1>4, <3>0, <4>2, <4>3
    <3>3. QED
      BY <3>1, <3>2
  <2>2. CASE n \in told
    BY <1>2, <2>2
  <2>3. ASSUME NEW j \in DOMAIN conn.out, n \in conn.out[j].tells,
               j = 1 \/ conn.out[j].sequence <= cursor'
        PROVE  \/ n \in told'
               \/ \E k \in DOMAIN conn'.out :
                      n \in conn'.out[k].tells /\ conn'.out[k].sequence <= cursor'
    <3>1. CASE j = 1
      BY <1>2, <2>3, <3>1
    <3>2. CASE j # 1
      BY <1>9, <2>3, <3>2
    <3>3. QED
      BY <3>1, <3>2
  <2>4. QED
    BY <2>1, <2>2, <2>3
<1>15. Ahead'
  <2> SUFFICES ASSUME ~ overtaken, ~ cutShort,
                      NEW i \in DOMAIN conn'.out, NEW n \in (owed + 1)..conn'.out[i].sequence
               PROVE  \/ n \in told'
                      \/ \E j \in DOMAIN conn'.out : n \in conn'.out[j].tells
                             /\ (j <= i \/ conn'.out[j].sequence <= conn'.out[i].sequence)
    BY <1>2 DEF Ahead
  <2>1. i + 1 \in DOMAIN conn.out /\ conn'.out[i] = conn.out[i + 1] /\ i \in Nat
    BY <1>2
  <2>2. \/ n \in told
        \/ \E j \in DOMAIN conn.out : n \in conn.out[j].tells
               /\ (j <= i + 1 \/ conn.out[j].sequence <= conn.out[i + 1].sequence)
    BY <1>1, <2>1 DEF Ahead
  <2>3. CASE n \in told
    BY <1>2, <2>3
  <2>4. ASSUME NEW j \in DOMAIN conn.out, n \in conn.out[j].tells,
               j <= i + 1 \/ conn.out[j].sequence <= conn.out[i + 1].sequence
        PROVE  \/ n \in told'
               \/ \E k \in DOMAIN conn'.out : n \in conn'.out[k].tells
                      /\ (k <= i \/ conn'.out[k].sequence <= conn'.out[i].sequence)
    <3>1. CASE j = 1
      BY <1>2, <2>4, <3>1
    <3>2. CASE j # 1
      <4>1. j - 1 \in DOMAIN conn'.out /\ conn'.out[j - 1] = conn.out[j]
        BY <1>9, <3>2
      <4>2. j \in Nat /\ (j <= i + 1 => j - 1 <= i)
        BY <1>2, <2>1
      <4>3. QED
        BY <2>1, <2>4, <4>1, <4>2
    <3>3. QED
      BY <3>1, <3>2
  <2>5. QED
    BY <2>2, <2>3, <2>4
<1>16. QED
  BY <1>5, <1>7, <1>8, <1>11, <1>13, <1>14, <1>15 DEF IInv

LEMMA DisconnectKeeps ==
    ASSUME IInv, Disconnect
    PROVE  IInv'
<1>1. Types /\ Shape /\ Behind
  BY DEF IInv
<1>2. /\ conn' = Down /\ drops' = drops + 1
      /\ cutShort' = (cutShort \/ \E i \in DOMAIN conn.out :
                         conn.out[i].sequence <= cursor /\ ~(conn.out[i].tells \subseteq told))
      /\ sequence' = sequence /\ oldest' = oldest /\ unsent' = unsent
      /\ cursor' = cursor /\ told' = told /\ owed' = owed /\ overtaken' = overtaken
  BY DEF Disconnect, client
<1>3. /\ Down.state = "down" /\ Down.out = <<>> /\ Down.chan = <<>> /\ Down.heard = {}
      /\ Down.gapFrom = {} /\ Down.lagged = FALSE
  BY DEF Down
<1>4. Down \in ConnType
  <2>1. 0 \in Nats /\ {} \in Option /\ <<>> \in Seq(Envelope) /\ <<>> \in Seq(Nats)
    BY StreamAssumption DEF Nats, Option
  <2>2. QED
    BY <2>1 DEF Down, ConnType
<1>5. Types'
  BY <1>1, <1>2, <1>4 DEF Types
<1>6. DOMAIN <<>> = {}
  OBVIOUS
<1>7. Shape'
  BY <1>1, <1>2, <1>3, <1>6 DEF Shape, Subscribed
<1>8. InOrder'
  BY <1>2, <1>3, <1>6 DEF InOrder
<1>9. Anchored' /\ Reaches'
  BY <1>2, <1>3 DEF Anchored, Reaches, Owes
<1>10. ASSUME ~ overtaken, ~ cutShort', NEW n \in (owed + 1)..cursor
       PROVE  n \in told
  <2>1. ~ cutShort /\ \A i \in DOMAIN conn.out :
            conn.out[i].sequence <= cursor => conn.out[i].tells \subseteq told
    BY <1>2, <1>10
  <2>2. \/ n \in told
        \/ \E j \in DOMAIN conn.out : n \in conn.out[j].tells /\ conn.out[j].sequence <= cursor
    BY <1>1, <1>10, <2>1 DEF Behind
  <2>3. QED
    BY <2>1, <2>2
<1>11. Behind'
  BY <1>2, <1>10 DEF Behind
<1>12. Ahead'
  BY <1>2, <1>3, <1>6 DEF Ahead
<1>13. QED
  BY <1>5, <1>7, <1>8, <1>9, <1>11, <1>12 DEF IInv

LEMMA NextHolds == IInv /\ [Next]_vars => IInv'
<1> SUFFICES ASSUME IInv, [Next]_vars PROVE IInv'
  OBVIOUS
<1>1. CASE Mint
  BY <1>1, MintKeeps
<1>2. ASSUME NEW n \in Nats, Send(n) PROVE IInv'
  BY <1>2, SendKeeps
<1>3. CASE subscribe
  BY <1>3, SubscribeKeeps
<1>4. CASE Replay
  BY <1>4, ReplayKeeps
<1>5. CASE Missed
  BY <1>5, MissedKeeps
<1>6. CASE recv
  BY <1>6, RecvKeeps
<1>7. CASE Deliver
  BY <1>7, DeliverKeeps
<1>8. CASE Disconnect
  BY <1>8, DisconnectKeeps
<1>9. CASE UNCHANGED vars
  BY <1>9 DEF vars, IInv, Types, Shape, Subscribed, InOrder, Anchored, Owes, Anchor,
              Promised, Reaches, Waiting, Dropped, Behind, Ahead
<1>10. QED
  BY <1>1, <1>2, <1>3, <1>4, <1>5, <1>6, <1>7, <1>8, <1>9 DEF Next

THEOREM Invariance == Spec => []IInv
  BY InitHolds, NextHolds, PTL DEF Spec

---------------------------------------------------------------------------
(* What the invariant says of the stream.                                  *)

\* The ring stays within its limit, and every frame and event is one the
\* sink has minted.
THEOREM TypeInvariance == Spec => []TypeOK
<1>1. ASSUME IInv PROVE TypeOK
  <2>1. Types
    BY <1>1 DEF IInv
  <2>2. /\ conn.state \in {"down", "opening", "up"}
        /\ conn.since \in Option /\ conn.gapFrom \in Option
        /\ conn.out \in Seq(Envelope) /\ conn.chan \in Seq(Nats)
        /\ conn.from \in Nats /\ conn.delivered \in Nats /\ conn.heard \subseteq Nats
        /\ conn.lagged \in BOOLEAN /\ conn.everLagged \in BOOLEAN
    BY <2>1 DEF Types, ConnType
  <2>3. QED
    BY <2>1, <2>2 DEF Types, TypeOK
<1>2. QED
  BY <1>1, Invariance, PTL

\* When nothing is on its way, a connection has told its client of every event
\* after the point it asked for, unless it lagged and events overtook.
THEOREM QuietClientKnowsAll == Spec => []ConnectedKnowsAll
<1>1. ASSUME IInv PROVE ConnectedKnowsAll
  <2> SUFFICES ASSUME Quiet, ~(conn.everLagged /\ overtaken), NEW n \in (conn.from + 1)..sequence
               PROVE  n \in conn.heard
    BY DEF ConnectedKnowsAll
  <2>1. conn.state = "up" /\ unsent = {} /\ conn.out = <<>> /\ conn.chan = <<>> /\ ~ conn.lagged
    BY DEF Quiet
  <2>2. Promised(n) \/ Waiting(n) \/ Dropped(n)
    BY <1>1, <2>1 DEF IInv, Reaches, Owes
  <2>3. DOMAIN conn.out = {} /\ DOMAIN conn.chan = {}
    BY <2>1
  <2>4. ~ Waiting(n) /\ ~ Dropped(n)
    BY <1>1, <2>1, <2>3 DEF Waiting, Dropped, IInv, Shape
  <2>5. QED
    BY <2>2, <2>3, <2>4 DEF Promised
<1>2. QED
  BY <1>1, Invariance, PTL

\* Over any number of reconnections, an event behind the client's cursor that
\* it was never told of was overtaken or cut off from the gap before it.
THEOREM LossHasAKnownCause == Spec => []LostOnlyByKnownCauses
<1>1. ASSUME IInv PROVE LostOnlyByKnownCauses
  <2> SUFFICES ASSUME ~ overtaken, ~ cutShort, NEW n \in (owed + 1)..cursor
               PROVE  n \in told \cup OnItsWay
    BY DEF LostOnlyByKnownCauses, ResumeLosesNothing
  <2>1. n \in told \/ \E j \in DOMAIN conn.out : n \in conn.out[j].tells
    BY <1>1 DEF IInv, Behind
  <2>2. QED
    BY <2>1 DEF OnItsWay
<1>2. QED
  BY <1>1, Invariance, PTL
=============================================================================
