---------------------------- MODULE QueueProofs ----------------------------
(***************************************************************************)
(* The safety of the queue, for every set of tickets, repositories and     *)
(* actors and for every value of the three limits.                         *)
(*                                                                         *)
(* The work is in the pass of take_startable: a loop over the waiting      *)
(* tickets.  Its states After[0], After[1], ... are first shown to be what *)
(* the recursive definition says, and Walk is the invariant of the loop;   *)
(* the invariant of the queue follows with one lemma per operation.        *)
(***************************************************************************)
EXTENDS Queue, SequenceInduction, SequenceTheorems, FiniteSetTheorems

PassStates == [waiting : Seq(Tickets), running : SUBSET Tickets,
               writers : SUBSET Keys, readers : [Keys -> Nat]]

On(s, k, mode) == {t \in s.running : KeyOf[t] = k /\ ModeOf[t] = mode}

\* The counters of s say what runs in s.
Exact(s) ==
    /\ IsFiniteSet(s.running)
    /\ \A k \in Keys : k \in s.writers <=> On(s, k, "write") # {}
    /\ \A k \in Keys : s.readers[k] = Cardinality(On(s, k, "read"))

\* The three limits, on the counters.
Within(s) ==
    /\ Cardinality(s.running) <= MaxGitProcesses
    /\ \A k \in Keys : \A t, u \in On(s, k, "write") : t = u
    /\ \A k \in Keys : s.readers[k] <= MaxReadersPerKey

\* The order of the queue: no ticket twice, none that runs.
Waits(q, busy) ==
    /\ \A i, j \in 1 .. Len(q) : i # j => q[i] # q[j]
    /\ \A i \in 1 .. Len(q) : q[i] \notin busy

\* The inductive invariant of the queue.
IInv ==
    /\ pending \in Seq(Tickets)
    /\ State \in PassStates
    /\ Exact(State)
    /\ Within(State)
    /\ Waits(pending, running)

---------------------------------------------------------------------------
(* One turn of the loop.                                                   *)

LEMMA StateFields ==
    /\ State.waiting = <<>>
    /\ State.running = running
    /\ State.writers = writers
    /\ State.readers = readers
  BY DEF State

LEMMA StartedFields ==
    ASSUME NEW s \in PassStates, NEW t \in Tickets
    PROVE  /\ Started(s, t) \in PassStates
           /\ Started(s, t).waiting = s.waiting
           /\ Started(s, t).running = s.running \cup {t}
           /\ Started(s, t).writers = IF ModeOf[t] = "write"
                                      THEN s.writers \cup {KeyOf[t]} ELSE s.writers
           /\ Started(s, t).readers =
                  IF ModeOf[t] = "read"
                  THEN [s.readers EXCEPT ![KeyOf[t]] = s.readers[KeyOf[t]] + 1]
                  ELSE s.readers
<1>1. KeyOf[t] \in Keys
  BY QueueAssumption
<1>2. s.readers[KeyOf[t]] + 1 \in Nat
  BY <1>1 DEF PassStates
<1>3. [s.readers EXCEPT ![KeyOf[t]] = s.readers[KeyOf[t]] + 1] \in [Keys -> Nat]
  BY <1>2 DEF PassStates
<1> DEFINE w == IF ModeOf[t] = "write" THEN s.writers \cup {KeyOf[t]} ELSE s.writers
           r == IF ModeOf[t] = "read"
                THEN [s.readers EXCEPT ![KeyOf[t]] = s.readers[KeyOf[t]] + 1] ELSE s.readers
<1>4. w \in SUBSET Keys /\ r \in [Keys -> Nat]
  BY <1>1, <1>3 DEF PassStates
<1>5. Started(s, t) = [s EXCEPT !.running = s.running \cup {t}, !.writers = w, !.readers = r]
  BY DEF Started
<1>6. QED
  <2> HIDE DEF w, r
  <2>1. /\ Started(s, t) \in PassStates
        /\ Started(s, t).waiting = s.waiting
        /\ Started(s, t).running = s.running \cup {t}
        /\ Started(s, t).writers = w
        /\ Started(s, t).readers = r
    BY <1>4, <1>5, ZenonT(30) DEF PassStates
  <2>2. QED
    BY <2>1 DEF w, r

LEMMA KeptFields ==
    ASSUME NEW s \in PassStates, NEW t \in Tickets
    PROVE  LET k == [s EXCEPT !.waiting = Append(@, t)] IN
           /\ k \in PassStates
           /\ k.waiting = Append(s.waiting, t)
           /\ k.running = s.running
           /\ k.writers = s.writers
           /\ k.readers = s.readers
<1>1. Append(s.waiting, t) \in Seq(Tickets)
  BY DEF PassStates
<1>2. QED
  BY <1>1 DEF PassStates

LEMMA ConsideredType ==
    ASSUME NEW s \in PassStates, NEW t \in Tickets
    PROVE  Considered(s, t) \in PassStates
  BY StartedFields, KeptFields DEF Considered

\* Starting a ticket that may start keeps the counters exact and the limits.
LEMMA StartedExact ==
    ASSUME NEW s \in PassStates, NEW t \in Tickets, t \notin s.running,
           Exact(s), can_start(s, t)
    PROVE  Exact(Started(s, t))
<1> DEFINE z == Started(s, t)
<1>1. /\ z.running = s.running \cup {t}
      /\ z.writers = IF ModeOf[t] = "write" THEN s.writers \cup {KeyOf[t]} ELSE s.writers
      /\ z.readers = IF ModeOf[t] = "read"
                     THEN [s.readers EXCEPT ![KeyOf[t]] = s.readers[KeyOf[t]] + 1]
                     ELSE s.readers
  BY StartedFields
<1>2. KeyOf[t] \in Keys /\ ModeOf[t] \in {"read", "write"}
  BY QueueAssumption
<1> HIDE DEF z
<1>3. IsFiniteSet(z.running)
  BY <1>1, FS_AddElement DEF Exact
<1>4. ASSUME NEW k \in Keys PROVE k \in z.writers <=> On(z, k, "write") # {}
  <2>1. k \in s.writers <=> On(s, k, "write") # {}
    BY DEF Exact
  <2>2. CASE ModeOf[t] = "write"
    BY <2>1, <2>2, <1>1, <1>2 DEF On
  <2>3. CASE ModeOf[t] = "read"
    BY <2>1, <2>3, <1>1, <1>2 DEF On
  <2>4. QED
    BY <2>2, <2>3, <1>2
<1>5. ASSUME NEW k \in Keys PROVE z.readers[k] = Cardinality(On(z, k, "read"))
  <2>1. s.readers[k] = Cardinality(On(s, k, "read"))
    BY DEF Exact
  <2>2. CASE ModeOf[t] = "read" /\ KeyOf[t] = k
    <3>1. On(z, k, "read") = On(s, k, "read") \cup {t} /\ t \notin On(s, k, "read")
      BY <2>2, <1>1 DEF On
    <3>2. IsFiniteSet(On(s, k, "read"))
      <4>1. On(s, k, "read") \subseteq s.running
        BY DEF On
      <4>2. QED
        BY <4>1, FS_Subset DEF Exact
    <3>3. Cardinality(On(z, k, "read")) = Cardinality(On(s, k, "read")) + 1
      BY <3>1, <3>2, FS_AddElement
    <3>4. z.readers[k] = s.readers[k] + 1
      BY <1>1, <2>2 DEF PassStates
    <3>5. QED
      BY <3>3, <3>4, <2>1
  <2>3. CASE ~ (ModeOf[t] = "read" /\ KeyOf[t] = k)
    <3>1. On(z, k, "read") = On(s, k, "read")
      BY <2>3, <1>1 DEF On
    <3>2. z.readers[k] = s.readers[k]
      BY <1>1, <1>2, <2>3 DEF PassStates
    <3>3. QED
      BY <3>1, <3>2, <2>1
  <2>4. QED
    BY <2>2, <2>3
<1>6. QED
  BY <1>3, <1>4, <1>5 DEF Exact, z

LEMMA StartedWithin ==
    ASSUME NEW s \in PassStates, NEW t \in Tickets, t \notin s.running,
           Exact(s), Within(s), can_start(s, t)
    PROVE  Within(Started(s, t))
<1> DEFINE z == Started(s, t)
<1>1. /\ z.running = s.running \cup {t}
      /\ z.readers = IF ModeOf[t] = "read"
                     THEN [s.readers EXCEPT ![KeyOf[t]] = s.readers[KeyOf[t]] + 1]
                     ELSE s.readers
  BY StartedFields
<1>2. KeyOf[t] \in Keys /\ ModeOf[t] \in {"read", "write"}
  BY QueueAssumption
<1>l. {MaxGitProcesses, MaxReadersPerKey} \subseteq Nat
  BY QueueAssumption
<1> HIDE DEF z
<1>3. Cardinality(z.running) <= MaxGitProcesses
  <2>1. Cardinality(s.running) \in Nat /\ Cardinality(z.running) = Cardinality(s.running) + 1
    BY <1>1, FS_AddElement, FS_CardinalityType DEF Exact
  <2>2. Cardinality(s.running) < MaxGitProcesses
    BY DEF can_start
  <2>3. QED
    BY <2>1, <2>2, <1>l
<1>4. ASSUME NEW k \in Keys, NEW u \in On(z, k, "write"), NEW v \in On(z, k, "write")
      PROVE  u = v
  <2>1. CASE ModeOf[t] = "write" /\ KeyOf[t] = k
    <3>1. On(s, k, "write") = {}
      BY <2>1 DEF can_start, Exact
    <3>2. QED
      BY <3>1, <1>1 DEF On
  <2>2. CASE ~ (ModeOf[t] = "write" /\ KeyOf[t] = k)
    <3>1. u \in On(s, k, "write") /\ v \in On(s, k, "write")
      BY <2>2, <1>1 DEF On
    <3>2. QED
      BY <3>1 DEF Within
  <2>3. QED
    BY <2>1, <2>2
<1>5. ASSUME NEW k \in Keys PROVE z.readers[k] <= MaxReadersPerKey
  <2>1. s.readers[k] \in Nat /\ s.readers[k] <= MaxReadersPerKey
    BY DEF Within, PassStates
  <2>2. CASE ModeOf[t] = "read" /\ KeyOf[t] = k
    <3>1. s.readers[k] < MaxReadersPerKey
      BY <2>2 DEF can_start
    <3>2. z.readers[k] = s.readers[k] + 1
      BY <1>1, <2>2 DEF PassStates
    <3>3. QED
      BY <3>1, <3>2, <2>1, <1>l
  <2>3. CASE ~ (ModeOf[t] = "read" /\ KeyOf[t] = k)
    <3>1. z.readers[k] = s.readers[k]
      BY <1>1, <1>2, <2>3 DEF PassStates
    <3>2. QED
      BY <3>1, <2>1
  <2>4. QED
    BY <2>2, <2>3
<1>6. QED
  BY <1>3, <1>4, <1>5 DEF Within, z
---------------------------------------------------------------------------
(* The loop.                                                               *)

\* After is what its definition says: the state, then one turn per ticket.
LEMMA AfterTurns ==
    ASSUME pending \in Seq(Tickets), State \in PassStates
    PROVE  /\ After[0] = State
           /\ \A i \in 1 .. Len(pending) : After[i] = Considered(After[i - 1], pending[i])
<1> DEFINE step == [p \in PassStates \X Tickets |-> Considered(p[1], p[2])]
           D == 0 .. Len(pending)
           Rule(f) == [i \in D |-> IF i = 0 THEN State ELSE Considered(f[i - 1], pending[i])]
<1>1. step \in [PassStates \X Tickets -> PassStates]
  BY ConsideredType
<1>2. PICK f \in [D -> PassStates] :
         f[0] = State /\ \A i \in 1 .. Len(pending) : f[i] = step[<<f[i - 1], pending[i]>>]
  <2> HIDE DEF step
  <2>1. \E f : Loop(f, PassStates, State, step, pending)
    BY <1>1, Iteration
  <2>2. QED
    BY <2>1 DEF Loop
<1>3. Len(pending) \in Nat
  OBVIOUS
<1>4. \A i \in 1 .. Len(pending) : f[i] = Considered(f[i - 1], pending[i])
  <2>1. ASSUME NEW i \in 1 .. Len(pending) PROVE f[i] = Considered(f[i - 1], pending[i])
    <3>1. f[i - 1] \in PassStates /\ pending[i] \in Tickets
      BY <1>3
    <3>2. f[i] = step[<<f[i - 1], pending[i]>>]
      BY <1>2
    <3>3. QED
      BY <3>1, <3>2
  <2>2. QED
    BY <2>1
<1>5. f = Rule(f)
  <2>1. \A i \in D : f[i] = IF i = 0 THEN State ELSE Considered(f[i - 1], pending[i])
    BY <1>2, <1>3, <1>4
  <2>2. QED
    BY <2>1
<1>6. After = CHOOSE g : g = Rule(g)
  BY DEF After
<1>7. After = Rule(After)
  <2> HIDE DEF Rule
  <2>1. QED
    BY <1>5, <1>6
<1>8. 0 \in D /\ \A i \in 1 .. Len(pending) : i \in D /\ i # 0
  BY <1>3
<1>9. \A i \in D : After[i] = IF i = 0 THEN State ELSE Considered(After[i - 1], pending[i])
  <2> HIDE DEF D
  <2>1. QED
    BY <1>7
<1>10. QED
  <2> HIDE DEF D
  <2>1. QED
    BY <1>8, <1>9

\* The invariant of the loop: what the first i turns have made of the state.
Walk(i) ==
    /\ After[i] \in PassStates
    /\ Exact(After[i])
    /\ Within(After[i])
    /\ Waits(After[i].waiting, After[i].running)
    /\ \A n \in 1 .. Len(After[i].waiting) : \E j \in 1 .. i : After[i].waiting[n] = pending[j]
    /\ \A t \in After[i].running : t \in running \/ \E j \in 1 .. i : t = pending[j]

\* What the turns have settled about the writes among them: each runs, or
\* waits for its repository or for a place; and what runs could be started.
Settled(i) ==
    /\ \A j \in 1 .. i : ModeOf[pending[j]] = "write" =>
           \/ KeyOf[pending[j]] \in After[i].writers
           \/ Cardinality(After[i].running) >= MaxGitProcesses
    /\ \A j \in 1 .. i : pending[j] \in After[i].running =>
           can_start(After[j - 1], pending[j])

\* The ticket of the next turn neither runs nor has been kept waiting.
LEMMA NextIsFresh ==
    ASSUME IInv, NEW i \in Nat, i + 1 <= Len(pending), Walk(i)
    PROVE  /\ i + 1 \in 1 .. Len(pending)
           /\ pending[i + 1] \in Tickets
           /\ pending[i + 1] \notin After[i].running
           /\ \A n \in 1 .. Len(After[i].waiting) : After[i].waiting[n] # pending[i + 1]
           /\ After[i + 1] = Considered(After[i], pending[i + 1])
<1>1. Len(pending) \in Nat /\ pending \in Seq(Tickets) /\ State \in PassStates
  BY DEF IInv
<1>2. i + 1 \in 1 .. Len(pending) /\ (i + 1) - 1 = i
  BY <1>1
<1>3. pending[i + 1] \in Tickets
  BY <1>1, <1>2
<1>4. \A j \in 1 .. i : j \in 1 .. Len(pending) /\ j # i + 1
  BY <1>1
<1>5. \A j \in 1 .. i : pending[j] # pending[i + 1]
  BY <1>2, <1>4 DEF IInv, Waits
<1>6. pending[i + 1] \notin running
  BY <1>2 DEF IInv, Waits
<1>7. After[i + 1] = Considered(After[i], pending[i + 1])
  BY <1>1, <1>2, AfterTurns
<1>8. QED
  BY <1>2, <1>3, <1>5, <1>6, <1>7 DEF Walk

LEMMA WalkStart ==
    ASSUME IInv
    PROVE  Walk(0) /\ Settled(0)
<1>1. After[0] = State
  BY AfterTurns DEF IInv
<1>2. State.waiting = <<>> /\ State.running = running /\ Len(<<>>) = 0
  BY DEF State
<1>3. 1 .. 0 = {}
  OBVIOUS
<1>4. Waits(<<>>, running)
  BY <1>3 DEF Waits
<1>5. Walk(0)
  BY <1>1, <1>2, <1>3, <1>4 DEF Walk, IInv
<1>6. QED
  BY <1>3, <1>5 DEF Settled

LEMMA WalkStarts ==
    ASSUME IInv, NEW i \in Nat, i + 1 <= Len(pending), Walk(i),
           can_start(After[i], pending[i + 1])
    PROVE  Walk(i + 1)
<1> DEFINE s == After[i]
           t == pending[i + 1]
<1>1. /\ t \in Tickets /\ t \notin s.running
      /\ \A n \in 1 .. Len(s.waiting) : s.waiting[n] # t
      /\ After[i + 1] = Started(s, t)
  BY NextIsFresh DEF Considered
<1>2. s \in PassStates /\ Exact(s) /\ Within(s) /\ Waits(s.waiting, s.running)
  BY DEF Walk
<1>3. can_start(s, t)
  OBVIOUS
<1> HIDE DEF s, t
<1>4. Started(s, t) \in PassStates /\ Exact(Started(s, t)) /\ Within(Started(s, t))
  BY <1>1, <1>2, <1>3, StartedFields, StartedExact, StartedWithin
<1>5. Started(s, t).waiting = s.waiting /\ Started(s, t).running = s.running \cup {t}
  BY <1>1, <1>2, StartedFields
<1>6. Waits(s.waiting, s.running \cup {t})
  BY <1>1, <1>2 DEF Waits
<1>7. \A j \in 1 .. i : j \in 1 .. (i + 1)
  OBVIOUS
<1>8. \A n \in 1 .. Len(s.waiting) : \E j \in 1 .. (i + 1) : s.waiting[n] = pending[j]
  BY <1>7 DEF Walk, s
<1>9. \A u \in s.running \cup {t} : u \in running \/ \E j \in 1 .. (i + 1) : u = pending[j]
  <2>1. \A u \in s.running : u \in running \/ \E j \in 1 .. (i + 1) : u = pending[j]
    BY <1>7 DEF Walk, s
  <2>2. i + 1 \in 1 .. (i + 1) /\ t = pending[i + 1]
    BY DEF t
  <2>3. QED
    BY <2>1, <2>2
<1>10. QED
  BY <1>1, <1>4, <1>5, <1>6, <1>8, <1>9 DEF Walk

LEMMA WalkKeeps ==
    ASSUME IInv, NEW i \in Nat, i + 1 <= Len(pending), Walk(i),
           ~ can_start(After[i], pending[i + 1])
    PROVE  /\ Walk(i + 1)
           /\ After[i + 1].running = After[i].running
           /\ After[i + 1].writers = After[i].writers
<1> DEFINE s == After[i]
           t == pending[i + 1]
           z == [s EXCEPT !.waiting = Append(@, t)]
<1>1. /\ t \in Tickets /\ t \notin s.running
      /\ \A n \in 1 .. Len(s.waiting) : s.waiting[n] # t
      /\ After[i + 1] = z
  BY NextIsFresh DEF Considered
<1>2. s \in PassStates /\ Exact(s) /\ Within(s) /\ Waits(s.waiting, s.running)
  BY DEF Walk
<1>3. /\ z \in PassStates
      /\ z.waiting = Append(s.waiting, t)
      /\ z.running = s.running /\ z.writers = s.writers /\ z.readers = s.readers
  BY <1>1, <1>2, KeptFields
<1>4. s.waiting \in Seq(Tickets)
  BY <1>2 DEF PassStates
<1> HIDE DEF s, t, z
<1>5. /\ Len(z.waiting) = Len(s.waiting) + 1 /\ Len(s.waiting) \in Nat
      /\ \A n \in 1 .. Len(s.waiting) : z.waiting[n] = s.waiting[n]
      /\ z.waiting[Len(s.waiting) + 1] = t
  BY <1>1, <1>3, <1>4
<1>6. \A n \in 1 .. Len(z.waiting) : n \in 1 .. Len(s.waiting) \/ n = Len(s.waiting) + 1
  BY <1>5
<1>7. Exact(z) /\ Within(z)
  BY <1>2, <1>3 DEF Exact, Within, On
<1>8. Waits(z.waiting, z.running)
  <2>1. \A m, n \in 1 .. Len(z.waiting) : m # n => z.waiting[m] # z.waiting[n]
    <3> SUFFICES ASSUME NEW m \in 1 .. Len(z.waiting), NEW n \in 1 .. Len(z.waiting), m # n
                 PROVE  z.waiting[m] # z.waiting[n]
      OBVIOUS
    <3>1. CASE m \in 1 .. Len(s.waiting) /\ n \in 1 .. Len(s.waiting)
      <4>1. s.waiting[m] # s.waiting[n]
        BY <1>2, <3>1 DEF Waits
      <4>2. QED
        BY <1>5, <3>1, <4>1
    <3>2. CASE m = Len(s.waiting) + 1 /\ n \in 1 .. Len(s.waiting)
      BY <1>1, <1>5, <3>2
    <3>3. CASE n = Len(s.waiting) + 1 /\ m \in 1 .. Len(s.waiting)
      BY <1>1, <1>5, <3>3
    <3>4. QED
      BY <1>6, <3>1, <3>2, <3>3
  <2>2. \A n \in 1 .. Len(z.waiting) : z.waiting[n] \notin z.running
    BY <1>1, <1>2, <1>3, <1>5, <1>6 DEF Waits
  <2>3. QED
    BY <2>1, <2>2 DEF Waits
<1>9. (\A j \in 1 .. i : j \in 1 .. (i + 1)) /\ i + 1 \in 1 .. (i + 1)
  OBVIOUS
<1>10. \A n \in 1 .. Len(z.waiting) : \E j \in 1 .. (i + 1) : z.waiting[n] = pending[j]
  <2>1. \A n \in 1 .. Len(s.waiting) : \E j \in 1 .. (i + 1) : s.waiting[n] = pending[j]
    BY <1>9 DEF Walk, s
  <2>2. t = pending[i + 1]
    BY DEF t
  <2>3. QED
    BY <2>1, <2>2, <1>5, <1>6, <1>9
<1>11. \A u \in z.running : u \in running \/ \E j \in 1 .. (i + 1) : u = pending[j]
  BY <1>3, <1>9 DEF Walk, s
<1>12. Walk(i + 1)
  BY <1>1, <1>3, <1>7, <1>8, <1>10, <1>11 DEF Walk
<1>13. QED
  BY <1>1, <1>3, <1>12 DEF s

LEMMA SettledNext ==
    ASSUME IInv, NEW i \in Nat, i + 1 <= Len(pending), Walk(i), Walk(i + 1), Settled(i)
    PROVE  Settled(i + 1)
<1> DEFINE s == After[i]
           t == pending[i + 1]
           z == After[i + 1]
<1>1. t \in Tickets /\ t \notin s.running /\ z = Considered(s, t)
  BY NextIsFresh
<1>2. s \in PassStates /\ z \in PassStates /\ IsFiniteSet(s.running) /\ IsFiniteSet(z.running)
  BY DEF Walk, Exact
<1>3. (i + 1) - 1 = i /\ \A j \in 1 .. (i + 1) : j \in 1 .. i \/ j = i + 1
  OBVIOUS
<1>4. MaxGitProcesses \in Nat
  BY QueueAssumption
<1>w. ModeOf[t] = "write" => ModeOf[t] # "read"
  OBVIOUS
<1> HIDE DEF s, t, z
<1>5. \/ /\ can_start(s, t)
         /\ z.running = s.running \cup {t}
         /\ z.writers = IF ModeOf[t] = "write" THEN s.writers \cup {KeyOf[t]} ELSE s.writers
      \/ /\ ~ can_start(s, t)
         /\ z.running = s.running /\ z.writers = s.writers
  BY <1>1, <1>2, StartedFields, KeptFields DEF Considered
<1>6. s.writers \subseteq z.writers /\ s.running \subseteq z.running
  BY <1>5
<1>7. /\ Cardinality(s.running) \in Nat /\ Cardinality(z.running) \in Nat
      /\ Cardinality(s.running) <= Cardinality(z.running)
  BY <1>2, <1>6, FS_Subset, FS_CardinalityType
<1>8. ASSUME NEW j \in 1 .. (i + 1), ModeOf[pending[j]] = "write"
      PROVE  \/ KeyOf[pending[j]] \in z.writers
             \/ Cardinality(z.running) >= MaxGitProcesses
  <2>1. CASE j \in 1 .. i
    <3>1. \/ KeyOf[pending[j]] \in s.writers
          \/ Cardinality(s.running) >= MaxGitProcesses
      BY <1>8, <2>1 DEF Settled, s
    <3>2. QED
      BY <3>1, <1>4, <1>6, <1>7
  <2>2. CASE j = i + 1
    <3>1. pending[j] = t /\ ModeOf[t] = "write"
      BY <1>8, <2>2 DEF t
    <3>2. CASE can_start(s, t)
      BY <1>5, <3>1, <3>2
    <3>3. CASE ~ can_start(s, t)
      <4>1. KeyOf[t] \in s.writers \/ ~ (Cardinality(s.running) < MaxGitProcesses)
        BY <1>w, <3>1, <3>3 DEF can_start
      <4>2. QED
        BY <4>1, <3>1, <1>4, <1>6, <1>7
    <3>4. QED
      BY <3>2, <3>3
  <2>3. QED
    BY <1>3, <2>1, <2>2
<1>9. ASSUME NEW j \in 1 .. (i + 1), pending[j] \in z.running
      PROVE  can_start(After[j - 1], pending[j])
  <2>1. CASE j \in 1 .. i /\ pending[j] \in s.running
    BY <2>1 DEF Settled, s
  <2>2. CASE j \in 1 .. i /\ pending[j] \notin s.running
    <3>1. pending[j] = t
      BY <1>5, <1>9, <2>2
    <3>2. j \in 1 .. Len(pending) /\ i + 1 \in 1 .. Len(pending) /\ j # i + 1
      BY <2>2 DEF IInv
    <3>3. QED
      BY <3>1, <3>2 DEF IInv, Waits, t
  <2>3. CASE j = i + 1
    <3>1. pending[j] = t /\ j - 1 = i
      BY <2>3 DEF t
    <3>2. can_start(s, t)
      BY <1>1, <1>5, <1>9, <3>1
    <3>3. QED
      BY <3>1, <3>2 DEF s
  <2>4. QED
    BY <1>3, <2>1, <2>2, <2>3
<1>10. QED
  BY <1>8, <1>9 DEF Settled, z

\* The invariant of the loop holds after every turn.
LEMMA WalkHolds ==
    ASSUME IInv
    PROVE  \A i \in 0 .. Len(pending) : Walk(i) /\ Settled(i)
<1> DEFINE N == {i \in Nat : i <= Len(pending) => Walk(i) /\ Settled(i)}
<1>1. 0 \in N
  BY WalkStart
<1>2. Len(pending) \in Nat
  BY DEF IInv
<1>3. ASSUME NEW i \in Nat, i \in N PROVE i + 1 \in N
  <2> SUFFICES ASSUME i + 1 <= Len(pending) PROVE Walk(i + 1) /\ Settled(i + 1)
    OBVIOUS
  <2>1. Walk(i) /\ Settled(i)
    BY <1>2, <1>3
  <2>2. Walk(i + 1)
    BY <2>1, WalkStarts, WalkKeeps
  <2>3. QED
    BY <2>1, <2>2, SettledNext
<1>4. Nat \subseteq N
  <2> HIDE DEF N
  <2>1. QED
    BY <1>1, <1>3, NatSetInduction
<1>5. QED
  BY <1>2, <1>4

\* So the state a pass leaves is a good one, and the tickets it leaves waiting
\* were waiting before.
LEMMA PassIsSound ==
    ASSUME IInv
    PROVE  /\ Pass \in PassStates
           /\ Exact(Pass)
           /\ Within(Pass)
           /\ Waits(Pass.waiting, Pass.running)
           /\ \A t \in Pass.running : t \in running \/ \E j \in 1 .. Len(pending) : t = pending[j]
<1>1. Len(pending) \in 0 .. Len(pending)
  BY DEF IInv
<1>2. Walk(Len(pending))
  BY <1>1, WalkHolds
<1>3. QED
  BY <1>2 DEF Walk, Pass

---------------------------------------------------------------------------
(* The invariant holds initially and every operation keeps it.             *)

LEMMA InitHolds == Init => IInv
<1> SUFFICES ASSUME Init PROVE IInv
  OBVIOUS
<1> USE DEF Init
<1>1. pending \in Seq(Tickets) /\ <<>> \in Seq(Tickets)
  OBVIOUS
<1>2. State = [waiting |-> <<>>, running |-> {}, writers |-> {}, readers |-> [k \in Keys |-> 0]]
  BY DEF State
<1>3. State \in PassStates
  BY <1>1, <1>2 DEF PassStates
<1>4. \A k \in Keys, m \in {"read", "write"} : On(State, k, m) = {}
  BY <1>2 DEF On
<1>5. IsFiniteSet({}) /\ Cardinality({}) = 0
  BY FS_EmptySet
<1>6. \A k \in Keys : State.readers[k] = 0 /\ k \notin State.writers
  BY <1>2
<1>7. State.running = {} /\ {MaxGitProcesses, MaxReadersPerKey} \subseteq Nat
  BY <1>2, QueueAssumption
<1>8. Exact(State)
  BY <1>4, <1>5, <1>6, <1>7 DEF Exact
<1>9. Within(State)
  BY <1>4, <1>5, <1>6, <1>7 DEF Within
<1>10. Waits(pending, running)
  BY DEF Waits
<1>11. QED
  BY <1>1, <1>3, <1>8, <1>9, <1>10 DEF IInv

\* An operation that only changes the waiting tickets leaves State as it is.
LEMMA SameState ==
    ASSUME UNCHANGED <<running, writers, readers>>
    PROVE  State' = State /\ running' = running
  BY DEF State

LEMMA EnqueueKeeps ==
    ASSUME IInv, NEW t \in Tickets, enqueue(t)
    PROVE  IInv'
<1>1. /\ State' = State /\ running' = running
      /\ pending' = Append(pending, t) /\ t \notin running /\ t \notin ToSet(pending)
  BY SameState DEF enqueue
<1>2. pending \in Seq(Tickets) /\ Waits(pending, running)
  BY DEF IInv
<1>3. \A i \in 1 .. Len(pending) : pending[i] # t
  BY <1>1, <1>2 DEF ToSet
<1>4. /\ pending' \in Seq(Tickets) /\ Len(pending') = Len(pending) + 1 /\ Len(pending) \in Nat
      /\ \A i \in 1 .. Len(pending) : pending'[i] = pending[i]
      /\ pending'[Len(pending) + 1] = t
  BY <1>1, <1>2
<1>5. \A i \in 1 .. Len(pending') : i \in 1 .. Len(pending) \/ i = Len(pending) + 1
  BY <1>4
<1>6. ASSUME NEW i \in 1 .. Len(pending'), NEW j \in 1 .. Len(pending'), i # j
      PROVE  pending'[i] # pending'[j]
  <2>1. CASE i \in 1 .. Len(pending) /\ j \in 1 .. Len(pending)
    BY <1>2, <1>4, <1>6, <2>1 DEF Waits
  <2>2. CASE i = Len(pending) + 1 /\ j \in 1 .. Len(pending)
    BY <1>3, <1>4, <2>2
  <2>3. CASE j = Len(pending) + 1 /\ i \in 1 .. Len(pending)
    BY <1>3, <1>4, <2>3
  <2>4. QED
    BY <1>5, <1>6, <2>1, <2>2, <2>3
<1>7. \A i \in 1 .. Len(pending') : pending'[i] \notin running
  BY <1>1, <1>2, <1>4, <1>5 DEF Waits
<1>8. Waits(pending, running)'
  BY <1>1, <1>6, <1>7 DEF Waits
<1>9. QED
  BY <1>1, <1>4, <1>8 DEF IInv, PassStates, Exact, Within, On

LEMMA CancelKeeps ==
    ASSUME IInv, NEW t \in Tickets, cancel(t)
    PROVE  IInv'
<1>1. State' = State /\ running' = running
  BY SameState DEF cancel
<1>2. pending \in Seq(Tickets) /\ Waits(pending, running)
  BY DEF IInv
<1>3. PICK c \in 1 .. Len(pending) : pending' = RemoveAt(pending, c)
  <2>1. DOMAIN pending = 1 .. Len(pending)
    BY <1>2
  <2>2. QED
    BY <2>1 DEF cancel
<1>4. /\ pending' \in Seq(Tickets) /\ Len(pending') = Len(pending) - 1
      /\ \A i \in 1 .. Len(pending') : pending'[i] = IF i < c THEN pending[i] ELSE pending[i + 1]
  <2> DEFINE A == SubSeq(pending, 1, c - 1)
             B == SubSeq(pending, c + 1, Len(pending))
  <2>1. /\ A \in Seq(Tickets) /\ B \in Seq(Tickets)
        /\ Len(A) = c - 1 /\ Len(B) = Len(pending) - c
        /\ \A i \in 1 .. (c - 1) : A[i] = pending[i]
        /\ \A i \in 1 .. (Len(pending) - c) : B[i] = pending[c + i]
    BY <1>2
  <2>2. pending' = A \o B
    BY <1>3 DEF RemoveAt
  <2> HIDE DEF A, B
  <2>3. /\ pending' \in Seq(Tickets) /\ Len(pending') = Len(A) + Len(B)
        /\ \A i \in 1 .. Len(pending') : pending'[i] = IF i <= Len(A) THEN A[i] ELSE B[i - Len(A)]
    <3>1. /\ A \o B \in Seq(Tickets) /\ Len(A \o B) = Len(A) + Len(B)
          /\ \A i \in 1 .. (Len(A) + Len(B)) :
                 (A \o B)[i] = IF i <= Len(A) THEN A[i] ELSE B[i - Len(A)]
      BY <2>1, ConcatProperties
    <3>2. QED
      BY <2>2, <3>1
  <2>4. Len(pending) \in Nat /\ c \in 1 .. Len(pending)
    BY <1>2
  <2>5. ASSUME NEW i \in 1 .. Len(pending')
        PROVE  pending'[i] = IF i < c THEN pending[i] ELSE pending[i + 1]
    <3>1. CASE i < c
      BY <2>1, <2>3, <2>4, <3>1
    <3>2. CASE ~ (i < c)
      <4>1. i - (c - 1) \in 1 .. (Len(pending) - c) /\ c + (i - (c - 1)) = i + 1
        BY <2>1, <2>3, <2>4, <3>2
      <4>2. B[i - (c - 1)] = pending[i + 1]
        BY <2>1, <4>1
      <4>3. pending'[i] = B[i - (c - 1)]
        BY <2>1, <2>3, <2>4, <3>2
      <4>4. QED
        BY <3>2, <4>2, <4>3
    <3>3. QED
      BY <3>1, <3>2
  <2>6. Len(pending') = Len(pending) - 1
    BY <2>1, <2>3, <2>4
  <2>7. \A i \in 1 .. Len(pending') : pending'[i] = IF i < c THEN pending[i] ELSE pending[i + 1]
    BY <2>5
  <2>8. QED
    BY <2>3, <2>6, <2>7
<1>5. \A i \in 1 .. Len(pending') : \E n \in 1 .. Len(pending) :
          pending'[i] = pending[n] /\ n = IF i < c THEN i ELSE i + 1
  BY <1>2, <1>3, <1>4
<1>6. \A i, j \in 1 .. Len(pending') : i # j => pending'[i] # pending'[j]
  <2> SUFFICES ASSUME NEW i \in 1 .. Len(pending'), NEW j \in 1 .. Len(pending'), i # j
               PROVE  pending'[i] # pending'[j]
    OBVIOUS
  <2>1. PICK m \in 1 .. Len(pending) : pending'[i] = pending[m] /\ m = IF i < c THEN i ELSE i + 1
    BY <1>5
  <2>2. PICK n \in 1 .. Len(pending) : pending'[j] = pending[n] /\ n = IF j < c THEN j ELSE j + 1
    BY <1>5
  <2>3. m # n
    BY <2>1, <2>2
  <2>4. QED
    BY <1>2, <2>1, <2>2, <2>3 DEF Waits
<1>7. \A i \in 1 .. Len(pending') : pending'[i] \notin running
  BY <1>2, <1>5 DEF Waits
<1>8. Waits(pending, running)'
  BY <1>1, <1>6, <1>7 DEF Waits
<1>9. QED
  BY <1>1, <1>4, <1>8 DEF IInv, PassStates, Exact, Within, On

LEMMA TakeKeeps ==
    ASSUME IInv, take_startable
    PROVE  IInv'
<1> DEFINE s == Pass
<1>1. /\ s \in PassStates /\ Exact(s) /\ Within(s) /\ Waits(s.waiting, s.running)
  BY PassIsSound
<1>2. /\ pending' = s.waiting /\ running' = s.running
      /\ writers' = s.writers /\ readers' = s.readers
  BY DEF take_startable
<1> HIDE DEF s
<1>3. /\ pending' \in Seq(Tickets) /\ running' \in SUBSET Tickets
      /\ writers' \in SUBSET Keys /\ readers' \in [Keys -> Nat]
  BY <1>1, <1>2 DEF PassStates
<1>4. /\ State' \in PassStates /\ State.running' = s.running
      /\ State.writers' = s.writers /\ State.readers' = s.readers
  <2>1. State' = [waiting |-> <<>>, running |-> s.running, writers |-> s.writers, readers |-> s.readers]
    BY <1>2 DEF State
  <2>2. <<>> \in Seq(Tickets)
    OBVIOUS
  <2>3. QED
    BY <1>2, <1>3, <2>1, <2>2 DEF PassStates
<1>5. (Exact(State) /\ Within(State))'
  BY <1>1, <1>4 DEF Exact, Within, On
<1>6. Waits(pending, running)'
  BY <1>1, <1>2 DEF Waits
<1>7. QED
  BY <1>3, <1>4, <1>5, <1>6 DEF IInv, PassStates

LEMMA ReleaseKeeps ==
    ASSUME IInv, NEW t \in Tickets, release(t)
    PROVE  IInv'
<1>1. /\ t \in running /\ running' = running \ {t} /\ pending' = pending
      /\ writers' = IF ModeOf[t] = "write" THEN writers \ {KeyOf[t]} ELSE writers
      /\ readers' = IF ModeOf[t] = "write" THEN readers
                    ELSE [readers EXCEPT ![KeyOf[t]] =
                              IF readers[KeyOf[t]] <= 1 THEN 0 ELSE readers[KeyOf[t]] - 1]
  BY DEF release
<1>2. /\ State \in PassStates /\ State' = [waiting |-> <<>>, running |-> running',
                                            writers |-> writers', readers |-> readers']
      /\ running \subseteq Tickets /\ writers \subseteq Keys /\ readers \in [Keys -> Nat]
  BY DEF IInv, State, PassStates
<1>3. /\ KeyOf[t] \in Keys /\ ModeOf[t] \in {"read", "write"}
      /\ {MaxGitProcesses, MaxReadersPerKey} \subseteq Nat
  BY QueueAssumption
<1>4. /\ IsFiniteSet(running)
      /\ \A k \in Keys : k \in writers <=> On(State, k, "write") # {}
      /\ \A k \in Keys : readers[k] = Cardinality(On(State, k, "read"))
      /\ Cardinality(running) <= MaxGitProcesses
      /\ \A k \in Keys : \A u, v \in On(State, k, "write") : u = v
      /\ \A k \in Keys : readers[k] <= MaxReadersPerKey
  BY StateFields DEF IInv, Exact, Within
<1>5. /\ State.running' = running' /\ State.writers' = writers' /\ State.readers' = readers'
  BY <1>2
<1>6. \A k \in Keys, m \in {"read", "write"} : On(State, k, m)' = On(State, k, m) \ {t}
  BY <1>1, <1>5, StateFields DEF On
<1>7. IsFiniteSet(running') /\ Cardinality(running') <= MaxGitProcesses
  <2>1. /\ IsFiniteSet(running') /\ Cardinality(running') <= Cardinality(running)
        /\ Cardinality(running) \in Nat /\ Cardinality(running') \in Nat
    <3>1. running' \subseteq running
      BY <1>1
    <3>2. QED
      BY <3>1, <1>4, FS_Subset, FS_CardinalityType
  <2>2. QED
    BY <2>1, <1>3, <1>4
<1>8. ASSUME NEW k \in Keys PROVE k \in writers' <=> On(State, k, "write")' # {}
  <2>1. CASE ModeOf[t] = "write" /\ KeyOf[t] = k
    <3>1. t \in On(State, k, "write")
      BY <1>1, <1>2, <2>1, StateFields DEF On
    <3>2. On(State, k, "write") \ {t} = {}
      BY <1>4, <3>1
    <3>3. QED
      BY <1>1, <1>6, <2>1, <3>2
  <2>2. CASE ~ (ModeOf[t] = "write" /\ KeyOf[t] = k)
    <3>1. t \notin On(State, k, "write")
      BY <2>2 DEF On
    <3>2. On(State, k, "write")' = On(State, k, "write")
      BY <1>6, <3>1
    <3>3. QED
      BY <1>1, <1>4, <2>2, <3>2
  <2>3. QED
    BY <2>1, <2>2
<1>9. ASSUME NEW k \in Keys PROVE readers'[k] = Cardinality(On(State, k, "read"))'
                                  /\ readers'[k] <= readers[k] /\ readers'[k] \in Nat
  <2>1. IsFiniteSet(On(State, k, "read"))
    <3>1. On(State, k, "read") \subseteq running
      BY StateFields DEF On
    <3>2. QED
      BY <3>1, <1>4, FS_Subset
  <2>2. CASE ModeOf[t] = "read" /\ KeyOf[t] = k
    <3>1. t \in On(State, k, "read")
      BY <1>1, <1>2, <2>2, StateFields DEF On
    <3>2. /\ Cardinality(On(State, k, "read") \ {t}) = Cardinality(On(State, k, "read")) - 1
          /\ IsFiniteSet(On(State, k, "read") \ {t})
      BY <2>1, <3>1, FS_RemoveElement
    <3>3. /\ Cardinality(On(State, k, "read") \ {t}) \in Nat
          /\ Cardinality(On(State, k, "read")) \in Nat
      BY <2>1, <3>2, FS_CardinalityType
    <3>4. readers[k] = Cardinality(On(State, k, "read")) /\ readers[k] >= 1
      BY <1>4, <3>2, <3>3
    <3>5. readers'[k] = readers[k] - 1
      BY <1>1, <1>2, <2>2, <3>3, <3>4
    <3>6. On(State, k, "read")' = On(State, k, "read") \ {t}
      BY <1>6
    <3>7. QED
      BY <3>2, <3>3, <3>4, <3>5, <3>6
  <2>3. CASE ~ (ModeOf[t] = "read" /\ KeyOf[t] = k)
    <3>1. t \notin On(State, k, "read")
      BY <2>3 DEF On
    <3>2. On(State, k, "read")' = On(State, k, "read")
      BY <1>6, <3>1
    <3>3. readers'[k] = readers[k]
      BY <1>1, <1>2, <1>3, <2>3
    <3>4. QED
      BY <1>2, <1>4, <3>2, <3>3
  <2>4. QED
    BY <2>2, <2>3
<1>10. ASSUME NEW k \in Keys PROVE \A u, v \in On(State, k, "write")' : u = v
  BY <1>4, <1>6
<1>11. ASSUME NEW k \in Keys PROVE readers'[k] <= MaxReadersPerKey
  BY <1>2, <1>3, <1>4, <1>9
<1>12. Exact(State)'
  BY <1>5, <1>7, <1>8, <1>9 DEF Exact
<1>13. Within(State)'
  BY <1>5, <1>7, <1>10, <1>11 DEF Within
<1>14. /\ running' \in SUBSET Tickets /\ writers' \in SUBSET Keys
       /\ readers' \in [Keys -> Nat]
  <2>1. running' \in SUBSET Tickets /\ writers' \in SUBSET Keys
    BY <1>1, <1>2
  <2>2. readers[KeyOf[t]] \in Nat
    BY <1>2, <1>3
  <2>3. (IF readers[KeyOf[t]] <= 1 THEN 0 ELSE readers[KeyOf[t]] - 1) \in Nat
    BY <2>2
  <2>4. QED
    BY <2>1, <2>3, <1>1, <1>2
<1>15. State' \in PassStates
  <2>1. <<>> \in Seq(Tickets)
    OBVIOUS
  <2>2. QED
    BY <2>1, <1>2, <1>14 DEF PassStates
<1>16. pending' \in Seq(Tickets) /\ Waits(pending, running)'
  BY <1>1 DEF IInv, Waits
<1>17. QED
  BY <1>12, <1>13, <1>15, <1>16 DEF IInv, PassStates

LEMMA NextHolds == IInv /\ [Next]_vars => IInv'
<1> SUFFICES ASSUME IInv, [Next]_vars PROVE IInv'
  OBVIOUS
<1>1. CASE take_startable
  BY <1>1, TakeKeeps
<1>2. ASSUME NEW t \in Tickets, enqueue(t) PROVE IInv'
  BY <1>2, EnqueueKeeps
<1>3. ASSUME NEW t \in Tickets, cancel(t) PROVE IInv'
  BY <1>3, CancelKeeps
<1>4. ASSUME NEW t \in Tickets, release(t) PROVE IInv'
  BY <1>4, ReleaseKeeps
<1>5. CASE UNCHANGED vars
  BY <1>5 DEF vars, IInv, State, PassStates, Exact, Within, Waits, On
<1>6. QED
  BY <1>1, <1>2, <1>3, <1>4, <1>5 DEF Next

THEOREM Invariance == Spec => []IInv
  BY InitHolds, NextHolds, PTL DEF Spec

---------------------------------------------------------------------------
(* What the invariant says of the queue.                                   *)

\* The counters that starts and releases maintain apart from the running
\* tickets always agree with them, so no release leaves a repository busy.
THEOREM TypeInvariance == Spec => []TypeOK
<1>1. ASSUME IInv PROVE TypeOK
  <2>1. /\ running \subseteq Tickets /\ writers \subseteq Keys /\ readers \in [Keys -> Nat]
        /\ pending \in Seq(Tickets)
    BY <1>1 DEF IInv, State, PassStates
  <2>2. \A k \in Keys, m \in {"read", "write"} : On(State, k, m) = RunningOn(k, m)
    BY StateFields DEF On, RunningOn
  <2>3. BookkeepingExact
    BY <1>1, <2>2, StateFields DEF IInv, Exact, BookkeepingExact
  <2>4. QED
    BY <2>1, <2>3 DEF TypeOK
<1>2. QED
  BY <1>1, Invariance, PTL

\* One writer per repository, the readers of a repository and the Git
\* processes of the host stay within their limits at once.
THEOREM LimitsAlwaysHold == Spec => []LimitsHold
<1>1. ASSUME IInv PROVE LimitsHold
  <2>1. \A k \in Keys, m \in {"read", "write"} : On(State, k, m) = RunningOn(k, m)
    BY StateFields DEF On, RunningOn
  <2>2. Cardinality(running) <= MaxGitProcesses
    BY <1>1, StateFields DEF IInv, Within
  <2>3. ASSUME NEW k \in Keys PROVE Cardinality(RunningOn(k, "write")) <= 1
    <3>1. \A u, v \in RunningOn(k, "write") : u = v
      BY <1>1, <2>1 DEF IInv, Within
    <3>2. CASE RunningOn(k, "write") = {}
      BY <3>2, FS_EmptySet
    <3>3. CASE RunningOn(k, "write") # {}
      <4>1. PICK u : RunningOn(k, "write") = {u}
        BY <3>1, <3>3
      <4>2. QED
        BY <4>1, FS_Singleton
    <3>4. QED
      BY <3>2, <3>3
  <2>4. ASSUME NEW k \in Keys PROVE Cardinality(RunningOn(k, "read")) <= MaxReadersPerKey
    BY <1>1, <2>1, StateFields DEF IInv, Exact, Within
  <2>5. QED
    BY <2>2, <2>3, <2>4 DEF LimitsHold
<1>2. QED
  BY <1>1, Invariance, PTL

\* In one step: a write that starts leaves no earlier write of its repository
\* waiting.
LEMMA OrderOfAStep ==
    ASSUME IInv, [Next]_vars, NEW i \in DOMAIN pending, NEW j \in DOMAIN pending,
           i < j, {ModeOf[pending[i]], ModeOf[pending[j]]} = {"write"},
           KeyOf[pending[i]] = KeyOf[pending[j]], pending[j] \in running'
    PROVE  FALSE
<1>1. /\ pending \in Seq(Tickets) /\ Len(pending) \in Nat /\ DOMAIN pending = 1 .. Len(pending)
      /\ i \in 1 .. Len(pending) /\ j \in 1 .. Len(pending)
  BY DEF IInv
<1>2. pending[j] \notin running
  BY <1>1 DEF IInv, Waits
<1>3. CASE take_startable
  <2>1. running' = After[Len(pending)].running
    BY <1>3 DEF take_startable, Pass
  <2>2. Settled(Len(pending)) /\ Settled(j - 1) /\ Walk(j - 1)
    BY <1>1, WalkHolds
  <2>3. can_start(After[j - 1], pending[j])
    BY <2>1, <2>2, <1>1 DEF Settled
  <2>4. i \in 1 .. (j - 1) /\ ModeOf[pending[i]] = "write"
    <3>1. ModeOf[pending[i]] \in {ModeOf[pending[i]], ModeOf[pending[j]]}
      OBVIOUS
    <3>2. ModeOf[pending[i]] \in {"write"}
      BY <3>1, Zenon
    <3>3. QED
      BY <1>1, <3>2
  <2>5. \/ KeyOf[pending[i]] \in After[j - 1].writers
        \/ Cardinality(After[j - 1].running) >= MaxGitProcesses
    BY <2>2, <2>4 DEF Settled
  <2>6. Cardinality(After[j - 1].running) \in Nat /\ MaxGitProcesses \in Nat
    BY <2>2, FS_CardinalityType, QueueAssumption DEF Walk, Exact
  <2>7. QED
    BY <2>3, <2>5, <2>6 DEF can_start
<1>4. CASE running' \subseteq running
  BY <1>2, <1>4
<1>5. take_startable \/ running' \subseteq running
  BY DEF Next, enqueue, cancel, release, vars
<1>6. QED
  BY <1>3, <1>4, <1>5

\* Writes of one repository start in the order they were queued.
THEOREM WritesStartInOrder == Spec => WritesKeepTheirOrder
<1>1. IInv /\ [Next]_vars =>
         [ \A i, j \in DOMAIN pending :
             (/\ i < j
              /\ {ModeOf[pending[i]], ModeOf[pending[j]]} = {"write"}
              /\ KeyOf[pending[i]] = KeyOf[pending[j]]
              /\ pending[j] \in running')
             => pending[i] \notin ToSet(pending') ]_vars
  BY OrderOfAStep
<1>2. QED
  BY <1>1, Invariance, PTL DEF Spec, WritesKeepTheirOrder

---------------------------------------------------------------------------
(* The pass over queued writes in closed form.                             *)

\* The writes among the first i waiting tickets that come first for a free
\* repository, and those of them a pass starts.
FirstUpTo(i) == {n \in FirstWrites : n < i + 1}
TakenUpTo(i) == {n \in FirstUpTo(i) :
                    Cardinality(running) + Cardinality(FirstUpTo(n - 1)) < MaxGitProcesses}

\* What i turns have made of the running tickets and of the writers.
Computed(i) ==
    /\ After[i].running = running \cup {pending[n] : n \in TakenUpTo(i)}
    /\ After[i].writers = writers \cup {KeyOf[pending[n]] : n \in TakenUpTo(i)}
    /\ Cardinality(After[i].running) =
           IF Cardinality(running) + Cardinality(FirstUpTo(i)) < MaxGitProcesses
           THEN Cardinality(running) + Cardinality(FirstUpTo(i))
           ELSE MaxGitProcesses

AllWrites == \A t \in ToSet(pending) : ModeOf[t] = "write"

LEMMA FirstUpToFinite ==
    ASSUME IInv, NEW i \in Nat
    PROVE  IsFiniteSet(FirstUpTo(i)) /\ Cardinality(FirstUpTo(i)) \in Nat
<1>1. FirstUpTo(i) \subseteq 1 .. Len(pending) /\ Len(pending) \in Nat
  BY DEF IInv, FirstUpTo, FirstWrites
<1>2. IsFiniteSet(1 .. Len(pending))
  BY <1>1, FS_Interval
<1>3. QED
  BY <1>1, <1>2, FS_Subset, FS_CardinalityType

LEMMA ComputedStart ==
    ASSUME IInv
    PROVE  Computed(0)
<1>1. DOMAIN pending = 1 .. Len(pending)
  BY DEF IInv
<1>2. FirstUpTo(0) = {} /\ TakenUpTo(0) = {}
  BY <1>1 DEF FirstUpTo, TakenUpTo, FirstWrites
<1>3. After[0] = State
  BY AfterTurns DEF IInv
<1>4. /\ Cardinality(running) \in Nat /\ MaxGitProcesses \in Nat
      /\ Cardinality(running) <= MaxGitProcesses
  BY FS_CardinalityType, QueueAssumption, StateFields DEF IInv, Exact, Within
<1>5. /\ {pending[n] : n \in TakenUpTo(0)} = {}
      /\ {KeyOf[pending[n]] : n \in TakenUpTo(0)} = {}
      /\ Cardinality(FirstUpTo(0)) = 0
  BY <1>2, FS_EmptySet
<1>6. /\ After[0].running = running /\ After[0].writers = writers
  BY <1>3, StateFields
<1>7. Cardinality(running) = IF Cardinality(running) + Cardinality(FirstUpTo(0)) < MaxGitProcesses
                            THEN Cardinality(running) + Cardinality(FirstUpTo(0))
                            ELSE MaxGitProcesses
  BY <1>4, <1>5
<1>8. /\ After[0].running = running \cup {pending[n] : n \in TakenUpTo(0)}
      /\ After[0].writers = writers \cup {KeyOf[pending[n]] : n \in TakenUpTo(0)}
  <2> HIDE DEF State
  <2>1. QED
    BY <1>5, <1>6
<1>9. QED
  BY <1>6, <1>7, <1>8 DEF Computed

\* A turn takes a ticket exactly when the closed form does.
LEMMA ComputedChoice ==
    ASSUME IInv, AllWrites, NEW i \in Nat, i + 1 <= Len(pending),
           Walk(i), Settled(i), Computed(i)
    PROVE  can_start(After[i], pending[i + 1]) <=>
               /\ i + 1 \in FirstWrites
               /\ Cardinality(running) + Cardinality(FirstUpTo(i)) < MaxGitProcesses
<1> DEFINE s == After[i]
           t == pending[i + 1]
<1>1. /\ pending \in Seq(Tickets) /\ Len(pending) \in Nat /\ DOMAIN pending = 1 .. Len(pending)
      /\ i + 1 \in 1 .. Len(pending) /\ \A j \in 1 .. i : j \in 1 .. Len(pending)
  BY DEF IInv
<1>2. \A j \in 1 .. Len(pending) : ModeOf[pending[j]] = "write"
  BY <1>1 DEF AllWrites, ToSet
<1>3. can_start(s, t) <=> Cardinality(s.running) < MaxGitProcesses /\ KeyOf[t] \notin s.writers
  <2>1. ModeOf[t] # "read"
    BY <1>1, <1>2
  <2>2. QED
    BY <2>1 DEF can_start
<1>4. /\ Cardinality(running) \in Nat /\ MaxGitProcesses \in Nat
      /\ Cardinality(FirstUpTo(i)) \in Nat /\ Cardinality(s.running) \in Nat
  BY FS_CardinalityType, FirstUpToFinite, QueueAssumption, StateFields DEF IInv, Exact, Walk
<1>5. Cardinality(s.running) < MaxGitProcesses <=>
          Cardinality(running) + Cardinality(FirstUpTo(i)) < MaxGitProcesses
  BY <1>4 DEF Computed
<1>6. ASSUME i + 1 \in FirstWrites PROVE KeyOf[t] \notin s.writers
  <2>1. KeyOf[t] \notin writers /\ \A j \in 1 .. i : KeyOf[pending[j]] # KeyOf[t]
    <3>1. (i + 1) - 1 = i
      OBVIOUS
    <3>2. QED
      BY <1>6, <3>1 DEF FirstWrites
  <2>2. \A n \in TakenUpTo(i) : n \in 1 .. i
    BY <1>1 DEF TakenUpTo, FirstUpTo, FirstWrites
  <2>3. QED
    BY <2>1, <2>2 DEF Computed
<1>7. ASSUME i + 1 \notin FirstWrites, Cardinality(s.running) < MaxGitProcesses
      PROVE  KeyOf[t] \in s.writers
  <2>1. KeyOf[t] \in writers \/ \E j \in 1 .. i : KeyOf[pending[j]] = KeyOf[t]
    <3>1. (i + 1) - 1 = i
      OBVIOUS
    <3>2. QED
      BY <1>1, <1>7, <3>1 DEF FirstWrites
  <2>2. CASE KeyOf[t] \in writers
    BY <2>2 DEF Computed
  <2>3. ASSUME NEW j \in 1 .. i, KeyOf[pending[j]] = KeyOf[t] PROVE KeyOf[t] \in s.writers
    <3>1. ModeOf[pending[j]] = "write"
      BY <1>1, <1>2
    <3>2. KeyOf[pending[j]] \in s.writers \/ Cardinality(s.running) >= MaxGitProcesses
      BY <3>1 DEF Settled
    <3>3. QED
      BY <1>4, <1>7, <2>3, <3>2
  <2>4. QED
    BY <2>1, <2>2, <2>3
<1>8. QED
  BY <1>3, <1>5, <1>6, <1>7

LEMMA ComputedNext ==
    ASSUME IInv, AllWrites, NEW i \in Nat, i + 1 <= Len(pending),
           Walk(i), Settled(i), Computed(i)
    PROVE  Computed(i + 1)
<1> DEFINE s == After[i]
           t == pending[i + 1]
           z == After[i + 1]
           c == Cardinality(FirstUpTo(i))
           chosen == i + 1 \in FirstWrites /\ Cardinality(running) + c < MaxGitProcesses
<1>1. /\ t \in Tickets /\ t \notin s.running /\ z = Considered(s, t)
      /\ i + 1 \in 1 .. Len(pending) /\ s \in PassStates /\ IsFiniteSet(s.running)
  BY NextIsFresh DEF Walk, Exact
<1>2. ModeOf[t] = "write"
  BY <1>1 DEF AllWrites, ToSet, IInv
<1>3. can_start(s, t) <=> chosen
  BY ComputedChoice
<1>4. /\ Cardinality(running) \in Nat /\ MaxGitProcesses \in Nat /\ c \in Nat
      /\ IsFiniteSet(FirstUpTo(i)) /\ Cardinality(s.running) \in Nat
  BY <1>1, FS_CardinalityType, FirstUpToFinite, QueueAssumption, StateFields DEF IInv, Exact
<1>5. FirstWrites \subseteq Nat
  BY DEF IInv, FirstWrites
<1>6. FirstUpTo(i + 1) = IF i + 1 \in FirstWrites THEN FirstUpTo(i) \cup {i + 1} ELSE FirstUpTo(i)
  <2>1. \A n \in FirstWrites : n < (i + 1) + 1 <=> n < i + 1 \/ n = i + 1
    BY <1>5
  <2>2. i + 1 < (i + 1) + 1
    OBVIOUS
  <2>3. QED
    BY <2>1, <2>2 DEF FirstUpTo
<1>7. i + 1 \notin FirstUpTo(i)
  BY DEF FirstUpTo
<1>8. Cardinality(FirstUpTo(i + 1)) = IF i + 1 \in FirstWrites THEN c + 1 ELSE c
  BY <1>4, <1>6, <1>7, FS_AddElement
<1>9. TakenUpTo(i + 1) = IF chosen THEN TakenUpTo(i) \cup {i + 1} ELSE TakenUpTo(i)
  <2>1. (i + 1) - 1 = i
    OBVIOUS
  <2>2. \A n : n \in TakenUpTo(i + 1) <=>
            n \in FirstUpTo(i + 1) /\ Cardinality(running) + Cardinality(FirstUpTo(n - 1)) < MaxGitProcesses
    BY DEF TakenUpTo
  <2>3. \A n : n \in TakenUpTo(i) <=>
            n \in FirstUpTo(i) /\ Cardinality(running) + Cardinality(FirstUpTo(n - 1)) < MaxGitProcesses
    BY DEF TakenUpTo
  <2>4. QED
    BY <1>6, <2>1, <2>2, <2>3
<1>10. /\ s.running = running \cup {pending[n] : n \in TakenUpTo(i)}
       /\ s.writers = writers \cup {KeyOf[pending[n]] : n \in TakenUpTo(i)}
       /\ Cardinality(s.running) = IF Cardinality(running) + c < MaxGitProcesses
                                   THEN Cardinality(running) + c ELSE MaxGitProcesses
  BY DEF Computed
<1>11. CASE can_start(s, t)
  <2>1. z.running = s.running \cup {t} /\ z.writers = s.writers \cup {KeyOf[t]}
    <3>1. z = Started(s, t)
      BY <1>1, <1>11 DEF Considered
    <3> HIDE DEF s, t, z
    <3>2. /\ Started(s, t).running = s.running \cup {t}
          /\ Started(s, t).writers = IF ModeOf[t] = "write"
                                     THEN s.writers \cup {KeyOf[t]} ELSE s.writers
      BY <1>1, StartedFields
    <3>3. QED
      BY <1>2, <3>1, <3>2
  <2>2. chosen
    BY <1>3, <1>11
  <2>3. TakenUpTo(i + 1) = TakenUpTo(i) \cup {i + 1}
    BY <1>9, <2>2
  <2>4. Cardinality(z.running) = Cardinality(s.running) + 1
    BY <1>1, <2>1, FS_AddElement
  <2>5. Cardinality(FirstUpTo(i + 1)) = c + 1
    BY <1>8, <2>2
  <2>6. Cardinality(z.running) = IF Cardinality(running) + (c + 1) < MaxGitProcesses
                                 THEN Cardinality(running) + (c + 1) ELSE MaxGitProcesses
    <3> HIDE DEF c
    <3>1. QED
      BY <1>4, <1>10, <2>2, <2>4
  <2>7. z.running = running \cup {pending[n] : n \in TakenUpTo(i + 1)}
    BY <1>10, <2>1, <2>3
  <2>8. z.writers = writers \cup {KeyOf[pending[n]] : n \in TakenUpTo(i + 1)}
    BY <1>10, <2>1, <2>3
  <2>9. QED
    BY <2>5, <2>6, <2>7, <2>8 DEF Computed
<1>12. CASE ~ can_start(s, t)
  <2>1. z.running = s.running /\ z.writers = s.writers
    BY <1>1, <1>12, KeptFields DEF Considered
  <2>2. ~ chosen /\ TakenUpTo(i + 1) = TakenUpTo(i)
    BY <1>3, <1>9, <1>12
  <2>3. Cardinality(z.running) = IF Cardinality(running) + Cardinality(FirstUpTo(i + 1)) < MaxGitProcesses
                                 THEN Cardinality(running) + Cardinality(FirstUpTo(i + 1))
                                 ELSE MaxGitProcesses
    <3>1. CASE i + 1 \in FirstWrites
      <4>1. ~ (Cardinality(running) + c < MaxGitProcesses)
        BY <2>2, <3>1
      <4>2. Cardinality(FirstUpTo(i + 1)) = c + 1
        BY <1>8, <3>1
      <4> HIDE DEF c
      <4>3. QED
        BY <1>4, <1>10, <2>1, <4>1, <4>2
    <3>2. CASE i + 1 \notin FirstWrites
      <4>1. Cardinality(FirstUpTo(i + 1)) = c
        BY <1>8, <3>2
      <4> HIDE DEF c
      <4>2. QED
        BY <1>10, <2>1, <4>1
    <3>3. QED
      BY <3>1, <3>2
  <2>4. QED
    BY <1>10, <2>1, <2>2, <2>3 DEF Computed
<1>13. QED
  BY <1>11, <1>12

LEMMA ComputedHolds ==
    ASSUME IInv, AllWrites
    PROVE  Computed(Len(pending))
<1> DEFINE N == {i \in Nat : i <= Len(pending) => Computed(i)}
<1>1. 0 \in N
  BY ComputedStart
<1>2. Len(pending) \in Nat
  BY DEF IInv
<1>3. ASSUME NEW i \in Nat, i \in N PROVE i + 1 \in N
  <2> SUFFICES ASSUME i + 1 <= Len(pending) PROVE Computed(i + 1)
    OBVIOUS
  <2>1. Computed(i) /\ i \in 0 .. Len(pending)
    BY <1>2, <1>3
  <2>2. Walk(i) /\ Settled(i)
    BY <2>1, WalkHolds
  <2>3. QED
    BY <2>1, <2>2, ComputedNext
<1>4. Nat \subseteq N
  <2> HIDE DEF N
  <2>1. QED
    BY <1>1, <1>3, NatSetInduction
<1>5. QED
  BY <1>2, <1>4

\* Over queued writes the loop of take_startable starts, per free repository,
\* its first ticket while places are left: what NativeJobs takes its pass to be.
THEOREM PassComputesTheFirstWrites == Spec => []PassOfWrites
<1>1. ASSUME IInv PROVE PassOfWrites
  <2> SUFFICES ASSUME AllWrites PROVE Pass.running = running \cup WritesTaken
    BY DEF PassOfWrites, AllWrites
  <2>1. pending \in Seq(Tickets) /\ DOMAIN pending = 1 .. Len(pending) /\ Len(pending) \in Nat
    BY <1>1 DEF IInv
  <2>2. FirstUpTo(Len(pending)) = FirstWrites
    BY <2>1 DEF FirstUpTo, FirstWrites
  <2>3. \A n \in FirstWrites : FirstUpTo(n - 1) = {j \in FirstWrites : j < n}
    <3>1. ASSUME NEW n \in FirstWrites PROVE FirstUpTo(n - 1) = {j \in FirstWrites : j < n}
      <4>1. n \in Nat /\ (n - 1) + 1 = n
        BY <2>1 DEF FirstWrites
      <4>2. QED
        BY <4>1 DEF FirstUpTo
    <3>2. QED
      BY <3>1
  <2>4. TakenUpTo(Len(pending)) =
            {n \in FirstWrites :
                Cardinality(running) + Cardinality({j \in FirstWrites : j < n}) < MaxGitProcesses}
    BY <2>2, <2>3 DEF TakenUpTo
  <2>5. Computed(Len(pending))
    BY <1>1, ComputedHolds
  <2>6. QED
    BY <2>4, <2>5 DEF Computed, Pass, WritesTaken
<1>2. QED
  BY <1>1, Invariance, PTL

============================================================================
