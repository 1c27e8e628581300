---------------------------- MODULE NodeJobsProofs ----------------------------
(***************************************************************************)
(* The safety of the Node engine, for every number of callers, requests,   *)
(* repositories and operations, for every limit, and for any number of     *)
(* crashes and failing file operations.                                    *)
(*                                                                         *)
(* What a file says once it is loaded comes first, then the pass of the    *)
(* queue, then the appends that a step of the engine ends and begins, and  *)
(* last one lemma per action.                                              *)
(***************************************************************************)
EXTENDS NodeJobs, SequenceInduction, SequenceTheorems, FiniteSetTheorems

USE DEF journalVars, ioVars, queueVars, recoveryVars

Whole == [status : Unfinished \cup Terminal, req : Requests]
Rec   == Whole \cup {NoRecord}
Lines == [op : Ids, rec : Whole] \cup {Unreadable}

Active     == {"start", "effect", "finish"}     \* the job holds a slot
Quiet      == {"none", "effect"}                \* the job waits for no append
Compacting == {"compact", "rename", "renamed"}

OnFile == Loaded(file)

Distinct(q) == \A i, j \in DOMAIN q : i # j => q[i] # q[j]

---------------------------------------------------------------------------
(* The inductive invariant.                                                *)

JournalTypes ==
    /\ file \in Seq(Lines) /\ torn \in BOOLEAN /\ (torn => file # <<>>)
    /\ tmp # NoFile => tmp \in [Ids -> Rec]
    /\ entries \in [Ids -> Rec] /\ bytes \in Nat
    /\ expired \subseteq Ids /\ lost \subseteq Ids

IoTypes ==
    io \in [Ids -> IoPc] /\ writing \in [Ids -> Rec] /\ kept \in [Ids -> [Ids -> Rec]]

EngineTypes ==
    /\ calls \in [Callers -> [req : Requests \cup {NoReq}, blocked : BOOLEAN]]
    /\ job \in [Ids -> JobPc]
    /\ pending \in Seq(Ids) /\ running \subseteq Ids /\ pumpDue \in BOOLEAN

RecoveryTypes ==
    /\ up \in {"up", "down", "recovering", "refused"}
    /\ blocks \subseteq Keys /\ toRecover \subseteq Ids
    /\ minted \in Nat /\ crashes \in Nat /\ faults \in Nat

\* An id that was not minted is nowhere.
Unused(o) ==
    /\ writing[o] = NoRecord /\ entries[o] = NoRecord /\ o \notin expired
    /\ \A p \in Ids : kept[p][o] = NoRecord
    /\ tmp # NoFile => tmp[o] = NoRecord
    /\ \A i \in DOMAIN file : file[i].op # o

Fresh == \A o \in Ids : o > minted => Unused(o)

\* A process that is not up, or only recovers, has nothing under way.
Resting ==
    /\ \A o \in Ids : job[o] = "none" /\ io[o] = "none" /\ writing[o] = NoRecord
    /\ pending = <<>> /\ running = {} /\ pumpDue = FALSE
    /\ \A c \in Callers : calls[c].req = NoReq

Steady ==
    /\ up # "up" => Resting
    /\ up # "recovering" => toRecover = {}
    /\ \A o \in toRecover : entries[o].status \in Unfinished

\* Memory and the copies compactions keep agree on what an operation is about.
SameReq ==
    \A o \in Ids : writing[o] # NoRecord =>
        /\ entries[o].req \in {NoReq, writing[o].req}
        /\ \A p \in Ids : kept[p][o].req \in {NoReq, writing[o].req}

\* An append is under way exactly for a job that waits for one, and a slot is held
\* exactly by a job that may write.
Jobs ==
    \A o \in Ids :
        /\ job[o] \in Quiet <=> io[o] = "none"
        /\ o \in running <=> job[o] \in Active
        /\ job[o] # "none" => writing[o] # NoRecord
        /\ job[o] = "accept" => writing[o].status = "accepted"
        /\ job[o] = "start" => writing[o].status = "running"

Queued ==
    /\ Distinct(pending)
    /\ \A i \in DOMAIN pending : job[pending[i]] = "none" /\ writing[pending[i]] # NoRecord

\* What waits for a slot, is about to run or runs is unfinished on disk.
Owed(o) == job[o] \in {"start", "effect"} \/ \E i \in DOMAIN pending : pending[i] = o

Visible == \A o \in Ids \ lost : Owed(o) => OnFile[o].status \in Unfinished

\* Once its TTL has passed an operation is over, and a compaction under way drops it.
OverFor(o) == job[o] = "none" /\ \A i \in DOMAIN pending : pending[i] # o

Dropped(o) ==
    /\ OnFile[o].status \notin Unfinished
    /\ entries[o].status \notin Unfinished
    /\ \A p \in Ids :
        /\ io[p] \in Compacting => kept[p][o] = NoRecord
        /\ io[p] = "rename" /\ tmp # NoFile => tmp[o] = NoRecord
        /\ io[p] = "renamed" => OnFile[o] = NoRecord

Past == \A o \in expired \ lost : OverFor(o) /\ Dropped(o)

\* Memory says what the file says, up to one step of an append or of a compaction.
Durable ==
    up \in {"up", "recovering"} =>
        \A o \in Ids \ lost :
            IF io[o] = "written" THEN OnFile[o] = writing[o]
            ELSE entries[o] = OnFile[o] \/ (o \in expired /\ \E p \in Ids : io[p] = "renamed")

Records == JournalTypes /\ IoTypes /\ Fresh /\ SameReq /\ Durable
Engine  == EngineTypes /\ Jobs /\ Queued /\ Visible /\ Past /\ OneWriterPerKey
IInv    == RecoveryTypes /\ Steady /\ Records /\ Engine


---------------------------------------------------------------------------
(* What a file says.                                                       *)

LEMMA HasLast ==
    ASSUME NEW n \in Nat, NEW T \in SUBSET (1 .. n), T # {}
    PROVE  \E i \in T : \A j \in T : j <= i
<1> DEFINE U == {n - i : i \in T}
<1>1. U \subseteq Nat /\ U # {}
  <2>1. \A i \in T : n - i \in Nat
    OBVIOUS
  <2>2. QED
    BY <2>1
<1>2. \E x \in U : \A y \in U : ~ (<<y, x>> \in OpToRel(<, Nat))
  <2> HIDE DEF U
  <2>1. QED
    BY <1>1, NatLessThanWellFounded, WFMin
<1>3. PICK x \in U : \A y \in U : ~ (y < x)
  BY <1>1, <1>2 DEF OpToRel
<1>4. PICK i \in T : x = n - i
  OBVIOUS
<1>5. \A j \in T : ~ (n - j < n - i)
  BY <1>3, <1>4
<1>6. QED
  BY <1>4, <1>5

At(f, o) == {i \in DOMAIN f : f[i].op = o}

LEMMA LoadedLast ==
    ASSUME NEW f \in Seq(Lines), NEW o \in Ids, NEW i \in At(f, o), \A j \in At(f, o) : j <= i
    PROVE  Loaded(f)[o] = f[i].rec
<1>1. DOMAIN f = 1 .. Len(f) /\ Len(f) \in Nat
  OBVIOUS
<1>2. At(f, o) \subseteq 1 .. Len(f)
  BY <1>1 DEF At
<1>3. \A k \in At(f, o) : (\A j \in At(f, o) : j <= k) => k = i
  BY <1>1, <1>2
<1>4. (CHOOSE k \in At(f, o) : \A j \in At(f, o) : j <= k) = i
  BY <1>3
<1>5. Loaded(f)[o] = IF At(f, o) = {} THEN NoRecord
                     ELSE f[CHOOSE k \in At(f, o) : \A j \in At(f, o) : j <= k].rec
  BY DEF Loaded, At
<1>6. QED
  BY <1>4, <1>5

LEMMA LoadedNone ==
    ASSUME NEW f, NEW o \in Ids, At(f, o) = {}
    PROVE  Loaded(f)[o] = NoRecord
BY DEF Loaded, At

LEMMA LoadedCases ==
    ASSUME NEW f \in Seq(Lines), NEW o \in Ids
    PROVE  \/ At(f, o) = {} /\ Loaded(f)[o] = NoRecord
           \/ \E i \in At(f, o) : /\ \A j \in At(f, o) : j <= i
                                  /\ Loaded(f)[o] = f[i].rec /\ f[i].rec \in Whole
<1>1. CASE At(f, o) = {}
  BY <1>1, LoadedNone
<1>2. CASE At(f, o) # {}
  <2>1. At(f, o) \subseteq 1 .. Len(f) /\ Len(f) \in Nat
    BY DEF At
  <2>2. PICK i \in At(f, o) : \A j \in At(f, o) : j <= i
    BY <1>2, <2>1, HasLast
  <2>3. Loaded(f)[o] = f[i].rec
    BY <2>2, LoadedLast
  <2>4. f[i].rec \in Whole
    <3>1. f[i] \in Lines /\ f[i].op = o
      BY <2>1 DEF At
    <3>2. f[i] # Unreadable
      BY <3>1 DEF Unreadable, Ids
    <3>3. QED
      BY <3>1, <3>2 DEF Lines
  <2>5. QED
    BY <2>2, <2>3, <2>4
<1>3. QED
  BY <1>1, <1>2

LEMMA LoadedType ==
    ASSUME NEW f \in Seq(Lines)
    PROVE  Loaded(f) \in [Ids -> Rec]
<1>1. \A o \in Ids : Loaded(f)[o] \in Rec
  BY LoadedCases DEF Rec
<1>2. Loaded(f) = [o \in Ids |-> Loaded(f)[o]]
  BY DEF Loaded
<1>3. QED
  BY <1>1, <1>2

\* A record is what the file says when the file's last word on it is the same.
LEMMA SameWord ==
    ASSUME NEW f \in Seq(Lines), NEW g \in Seq(Lines), NEW o \in Ids,
           At(f, o) = At(g, o), \A i \in At(f, o) : f[i] = g[i]
    PROVE  Loaded(f)[o] = Loaded(g)[o]
<1>1. CASE At(f, o) = {}
  BY <1>1, LoadedNone
<1>2. CASE At(f, o) # {}
  <2>1. PICK i \in At(f, o) : (\A j \in At(f, o) : j <= i) /\ Loaded(f)[o] = f[i].rec
    BY <1>2, LoadedCases
  <2>2. Loaded(g)[o] = g[i].rec
    BY <2>1, LoadedLast
  <2>3. QED
    BY <2>1, <2>2
<1>3. QED
  BY <1>1, <1>2

\* A line at the end of a file that ended in a newline.
LEMMA LineAppended ==
    ASSUME NEW f \in Seq(Lines), NEW o \in Ids, NEW r \in Whole
    PROVE  LET g == Append(f, [op |-> o, rec |-> r]) IN
           /\ g \in Seq(Lines) /\ g # <<>>
           /\ \A p \in Ids : Loaded(g)[p] = IF p = o THEN r ELSE Loaded(f)[p]
           /\ \A i \in DOMAIN g : g[i].op = o \/ (i \in DOMAIN f /\ g[i] = f[i])
<1> DEFINE l == [op |-> o, rec |-> r]
           g == Append(f, l)
           n == Len(f) + 1
<1>1. l \in Lines /\ l.op = o /\ l.rec = r
  BY DEF Lines
<1> HIDE DEF l
<1>2. /\ g \in Seq(Lines) /\ g # <<>> /\ DOMAIN g = 1 .. n /\ g[n] = l /\ Len(f) \in Nat
      /\ \A i \in 1 .. Len(f) : g[i] = f[i]
      /\ DOMAIN f = 1 .. Len(f)
  BY <1>1
<1> HIDE DEF g
<1>3. \A i \in DOMAIN g : i = n \/ (i \in DOMAIN f /\ g[i] = f[i])
  BY <1>2
<1>4. Loaded(g)[o] = r
  <2>1. n \in At(g, o) /\ \A j \in At(g, o) : j <= n
    BY <1>1, <1>2 DEF At
  <2>2. QED
    BY <1>1, <1>2, <2>1, LoadedLast
<1>5. ASSUME NEW p \in Ids, p # o PROVE Loaded(g)[p] = Loaded(f)[p]
  <2>1. At(g, p) = At(f, p)
    <3>1. \A i \in At(f, p) : i \in DOMAIN g /\ g[i] = f[i]
      BY <1>2 DEF At
    <3>2. \A i \in At(g, p) : i # n
      BY <1>1, <1>2, <1>5 DEF At
    <3>3. QED
      BY <1>3, <3>1, <3>2 DEF At
  <2>2. \A i \in At(g, p) : g[i] = f[i]
    BY <1>2, <2>1 DEF At
  <2>3. QED
    BY <1>2, <2>1, <2>2, SameWord
<1>6. QED
  BY <1>1, <1>2, <1>3, <1>4, <1>5 DEF g, l

\* Part of a line at the end of such a file.
LEMMA PartAppended ==
    ASSUME NEW f \in Seq(Lines)
    PROVE  LET g == Append(f, Unreadable) IN
           /\ g \in Seq(Lines) /\ g # <<>>
           /\ \A p \in Ids : Loaded(g)[p] = Loaded(f)[p]
           /\ \A i \in DOMAIN g : g[i].op = 0 \/ (i \in DOMAIN f /\ g[i] = f[i])
<1> DEFINE g == Append(f, Unreadable)
           n == Len(f) + 1
<1>1. Unreadable \in Lines /\ Unreadable.op = 0
  BY DEF Lines, Unreadable
<1>2. /\ g \in Seq(Lines) /\ g # <<>> /\ DOMAIN g = 1 .. n /\ g[n] = Unreadable
      /\ Len(f) \in Nat /\ \A i \in 1 .. Len(f) : g[i] = f[i]
      /\ DOMAIN f = 1 .. Len(f)
  BY <1>1
<1> HIDE DEF g
<1>3. \A i \in DOMAIN g : i = n \/ (i \in DOMAIN f /\ g[i] = f[i])
  BY <1>2
<1>4. ASSUME NEW p \in Ids PROVE Loaded(g)[p] = Loaded(f)[p]
  <2>1. p # 0
    BY DEF Ids
  <2>2. At(g, p) = At(f, p)
    <3>1. \A i \in At(f, p) : i \in DOMAIN g /\ g[i] = f[i]
      BY <1>2 DEF At
    <3>2. \A i \in At(g, p) : i # n
      BY <1>1, <1>2, <2>1 DEF At
    <3>3. QED
      BY <1>3, <3>1, <3>2 DEF At
  <2>3. \A i \in At(g, p) : g[i] = f[i]
    BY <1>2, <2>2 DEF At
  <2>4. QED
    BY <1>2, <2>2, <2>3, SameWord
<1>5. QED
  BY <1>1, <1>2, <1>3, <1>4 DEF g

\* A file whose last line is glued to another.
Glued(f) == [f EXCEPT ![Len(f)] = Unreadable]

LEMMA LastGlued ==
    ASSUME NEW f \in Seq(Lines), f # <<>>
    PROVE  /\ Glued(f) \in Seq(Lines) /\ Glued(f) # <<>>
           /\ \A p \in Ids : p # f[Len(f)].op => Loaded(Glued(f))[p] = Loaded(f)[p]
           /\ \A i \in DOMAIN Glued(f) :
                  Glued(f)[i].op = 0 \/ (i \in DOMAIN f /\ Glued(f)[i] = f[i])
<1> DEFINE n == Len(f)
           g == Glued(f)
<1>1. Unreadable \in Lines /\ Unreadable.op = 0
  BY DEF Lines, Unreadable
<1>2. /\ g \in Seq(Lines) /\ g # <<>> /\ DOMAIN g = 1 .. n /\ n \in 1 .. n /\ g[n] = Unreadable
      /\ DOMAIN f = 1 .. n /\ \A i \in 1 .. n : i # n => g[i] = f[i]
  BY <1>1 DEF Glued
<1> HIDE DEF g
<1>3. \A i \in DOMAIN g : g[i].op = 0 \/ (i \in DOMAIN f /\ g[i] = f[i])
  BY <1>1, <1>2
<1>4. ASSUME NEW p \in Ids, p # f[n].op PROVE Loaded(g)[p] = Loaded(f)[p]
  <2>1. p # 0
    BY DEF Ids
  <2>2. n \notin At(g, p) /\ n \notin At(f, p)
    BY <1>1, <1>2, <1>4, <2>1 DEF At
  <2>3. At(g, p) = At(f, p) /\ \A i \in At(g, p) : g[i] = f[i]
    BY <1>2, <2>2 DEF At
  <2>4. QED
    BY <1>2, <2>3, SameWord
<1>5. QED
  BY <1>2, <1>4, <1>3 DEF g

\* Every record a compaction keeps has one line, and only those have.
LEMMA RankEnumerates ==
    ASSUME NEW recs \in [Ids -> Rec]
    PROVE  LET K == Known(recs)  n == Cardinality(Known(recs)) IN
           /\ K \subseteq Ids /\ n \in Nat /\ (K = {} <=> n = 0)
           /\ \A o \in K : Rank(recs, o) \in 1 .. n
           /\ \A o, p \in K : Rank(recs, o) = Rank(recs, p) => o = p
           /\ \A i \in 1 .. n : \E o \in K : Rank(recs, o) = i
<1> DEFINE K == Known(recs)
           n == Cardinality(K)
           f == [o \in K |-> Rank(recs, o)]
           Upto(o) == {p \in K : p <= o}
<1>1. K \subseteq Ids /\ K \subseteq Nat /\ \A o \in K : Upto(o) \subseteq K
  BY DEF Known, Ids
<1>2. IsFiniteSet(K)
  <2>1. IsFiniteSet(Ids)
    <3>1. MaxOps \in Nat
      BY NodeAssumption
    <3>2. QED
      BY <3>1, FS_Interval DEF Ids
  <2>2. QED
    BY <1>1, <2>1, FS_Subset
<1>3. n \in Nat /\ (K = {} <=> n = 0)
  BY <1>2, FS_CardinalityType, FS_EmptySet
<1>4. \A o \in K : Rank(recs, o) = Cardinality(Upto(o))
  BY DEF Rank
<1> HIDE DEF K
<1>5. ASSUME NEW o \in K
      PROVE  /\ IsFiniteSet(Upto(o)) /\ Cardinality(Upto(o)) \in 1 .. n
  <2>1. IsFiniteSet(Upto(o)) /\ Cardinality(Upto(o)) <= n
    <3>1. Upto(o) \subseteq K
      BY <1>1
    <3> HIDE DEF Upto
    <3>2. QED
      BY <1>2, <3>1, FS_Subset
  <2>2. o \in Upto(o)
    BY <1>1
  <2> HIDE DEF Upto
  <2>3. Cardinality(Upto(o)) \in Nat /\ Cardinality(Upto(o)) # 0
    BY <2>1, <2>2, FS_CardinalityType, FS_EmptySet
  <2>4. QED
    BY <1>3, <2>1, <2>3
<1>6. ASSUME NEW o \in K, NEW p \in K, o < p PROVE Rank(recs, o) # Rank(recs, p)
  <2>1. Upto(o) \subseteq Upto(p) /\ p \in Upto(p) /\ p \notin Upto(o)
    <3>1. \A q \in K : q \in Nat
      BY <1>1
    <3>2. \A q \in K : q <= o => q <= p
      BY <1>6, <3>1
    <3>3. p <= p /\ ~ (p <= o)
      BY <1>6, <3>1
    <3>4. QED
      BY <3>2, <3>3
  <2>2. IsFiniteSet(Upto(p)) /\ IsFiniteSet(Upto(o))
    BY <1>5
  <2> HIDE DEF Upto
  <2>3. Cardinality(Upto(o)) # Cardinality(Upto(p))
    BY <2>1, <2>2, FS_Subset
  <2>4. QED
    BY <1>4, <2>3
<1>7. \A o, p \in K : Rank(recs, o) = Rank(recs, p) => o = p
  <2> SUFFICES ASSUME NEW o \in K, NEW p \in K, o # p PROVE Rank(recs, o) # Rank(recs, p)
    OBVIOUS
  <2>1. o < p \/ p < o
    BY <1>1
  <2>2. QED
    BY <1>6, <2>1
<1>8. f \in Injection(K, 1 .. n)
  <2> HIDE DEF Upto, n
  <2>1. \A o \in K : Rank(recs, o) \in 1 .. n
    BY <1>4, <1>5
  <2>2. QED
    BY <1>7, <2>1 DEF Injection, IsInjective
<1>9. f \in Surjection(K, 1 .. n)
  <2>1. IsFiniteSet(1 .. n) /\ Cardinality(1 .. n) = n
    <3> HIDE DEF n
    <3>1. QED
      BY <1>3, FS_Interval
  <2>2. QED
    <3> HIDE DEF f
    <3>1. QED
      BY <1>8, <2>1, FS_Injection DEF n
<1>10. \A i \in 1 .. n : \E o \in K : Rank(recs, o) = i
  BY <1>9 DEF Surjection
<1>11. \A o \in K : Rank(recs, o) \in 1 .. n
  <2> HIDE DEF Upto, n
  <2>1. QED
    BY <1>4, <1>5
<1>12. QED
  <2> HIDE DEF Upto, f
  <2>1. QED
    BY <1>1, <1>3, <1>7, <1>10, <1>11 DEF K, n

LEMMA LinesSay ==
    ASSUME NEW recs \in [Ids -> Rec]
    PROVE  /\ LinesOf(recs) \in Seq(Lines)
           /\ Loaded(LinesOf(recs)) = recs
           /\ \A i \in DOMAIN LinesOf(recs) : recs[LinesOf(recs)[i].op] # NoRecord
<1> DEFINE K == Known(recs)
           n == Cardinality(K)
           at(i) == CHOOSE p \in K : Rank(recs, p) = i
           f == LinesOf(recs)
<1>1. /\ K \subseteq Ids /\ n \in Nat
      /\ \A o \in K : Rank(recs, o) \in 1 .. n
      /\ \A o, p \in K : Rank(recs, o) = Rank(recs, p) => o = p
      /\ \A i \in 1 .. n : \E o \in K : Rank(recs, o) = i
  BY RankEnumerates
<1>2. f = [i \in 1 .. n |-> [op |-> at(i), rec |-> recs[at(i)]]]
  BY DEF LinesOf
<1>3. \A o \in Ids : (o \in K => recs[o] \in Whole) /\ (o \notin K => recs[o] = NoRecord)
  BY DEF Known, Rec, Whole, NoRecord, Unfinished, Terminal
<1> HIDE DEF K, n, f
<1>4. \A i \in 1 .. n : at(i) \in K /\ Rank(recs, at(i)) = i
  BY <1>1
<1>5. \A o \in K : at(Rank(recs, o)) = o
  BY <1>1, <1>4
<1> HIDE DEF at
<1>6. \A i \in 1 .. n : f[i] = [op |-> at(i), rec |-> recs[at(i)]] /\ f[i] \in Lines
  BY <1>1, <1>2, <1>3, <1>4 DEF Lines
<1>7. f \in Seq(Lines) /\ DOMAIN f = 1 .. n
  <2>1. f \in [1 .. n -> Lines]
    BY <1>2, <1>6
  <2>2. QED
    BY <1>1, <2>1
<1>8. \A o \in Ids : Loaded(f)[o] = recs[o]
  <2> TAKE o \in Ids
  <2>1. CASE o \in K
    <3>1. Rank(recs, o) \in 1 .. n /\ f[Rank(recs, o)].op = o /\ f[Rank(recs, o)].rec = recs[o]
      <4>1. Rank(recs, o) \in 1 .. n /\ at(Rank(recs, o)) = o
        BY <1>1, <1>5, <2>1
      <4>2. f[Rank(recs, o)] = [op |-> o, rec |-> recs[o]]
        BY <1>6, <4>1
      <4>3. QED
        BY <4>1, <4>2
    <3>2. \A i \in At(f, o) : i = Rank(recs, o)
      BY <1>4, <1>6, <1>7 DEF At
    <3>3. Rank(recs, o) \in At(f, o) /\ \A j \in At(f, o) : j <= Rank(recs, o)
      BY <1>1, <1>7, <3>1, <3>2 DEF At
    <3>4. QED
      BY <1>7, <3>1, <3>3, LoadedLast
  <2>2. CASE o \notin K
    <3>1. At(f, o) = {}
      BY <1>4, <1>6, <1>7, <2>2 DEF At
    <3>2. QED
      BY <1>3, <2>2, <3>1, LoadedNone
  <2>3. QED
    BY <2>1, <2>2
<1>9. Loaded(f) = recs
  <2>1. Loaded(f) \in [Ids -> Rec]
    BY <1>7, LoadedType
  <2>2. QED
    BY <1>8, <2>1
<1>10. \A i \in DOMAIN f : recs[f[i].op] # NoRecord
  <2>1. \A o \in K : recs[o] # NoRecord
    BY DEF K, Known, NoRecord
  <2>2. QED
    BY <1>4, <1>6, <1>7, <2>1
<1>11. QED
  BY <1>7, <1>9, <1>10 DEF f

\* What a write leaves of the records: all but the one it is about stay, and what it is
\* glued with.
LEMMA AppendedSays ==
    ASSUME file \in Seq(Lines), torn => file # <<>>, NEW o \in Ids, NEW r \in Whole
    PROVE  /\ Appended(o, r) \in Seq(Lines) /\ Appended(o, r) # <<>>
           /\ \A p \in Ids : \/ p \in GluedWith(o)
                             \/ Loaded(Appended(o, r))[p] = IF p = o THEN r ELSE Loaded(file)[p]
           /\ \A i \in DOMAIN Appended(o, r) :
                  \/ Appended(o, r)[i].op \in {0, o}
                  \/ i \in DOMAIN file /\ Appended(o, r)[i] = file[i]
<1>1. CASE torn
  <2>1. Appended(o, r) = [file EXCEPT ![Len(file)] = Unreadable]
    BY <1>1 DEF Appended
  <2>2. \A p \in Ids : p \in GluedWith(o) \/ (p # o /\ p # file[Len(file)].op)
    BY <1>1 DEF GluedWith
  <2>3. /\ Appended(o, r) \in Seq(Lines) /\ Appended(o, r) # <<>>
        /\ \A p \in Ids : p # file[Len(file)].op => Loaded(Appended(o, r))[p] = Loaded(file)[p]
        /\ \A i \in DOMAIN Appended(o, r) :
               Appended(o, r)[i].op = 0 \/ (i \in DOMAIN file /\ Appended(o, r)[i] = file[i])
    <3>1. file # <<>> /\ Appended(o, r) = Glued(file)
      BY <1>1, <2>1 DEF Glued
    <3>2. QED
      BY <3>1, LastGlued
  <2>4. QED
    BY <2>2, <2>3
<1>2. CASE ~torn
  <2>1. Appended(o, r) = Append(file, [op |-> o, rec |-> r])
    BY <1>2 DEF Appended
  <2>2. QED
    BY <2>1, LineAppended
<1>3. QED
  BY <1>1, <1>2

LEMMA TornSays ==
    ASSUME file \in Seq(Lines), torn => file # <<>>,
           NEW o \in Ids, NEW rec \in Whole, NEW g \in Torn(o, rec)
    PROVE  /\ g \in Seq(Lines) /\ g # <<>>
           /\ \A p \in Ids : p \in GluedWith(o) \cup {o} \/ Loaded(g)[p] = Loaded(file)[p]
           /\ \A i \in DOMAIN g : g[i].op \in {0, o} \/ (i \in DOMAIN file /\ g[i] = file[i])
<1> DEFINE a == Appended(o, rec)
           b == Append(file, Unreadable)
<1>1. /\ a \in Seq(Lines) /\ a # <<>>
      /\ \A p \in Ids : \/ p \in GluedWith(o)
                        \/ Loaded(a)[p] = IF p = o THEN rec ELSE Loaded(file)[p]
      /\ \A i \in DOMAIN a : a[i].op \in {0, o} \/ (i \in DOMAIN file /\ a[i] = file[i])
  BY AppendedSays
<1>2. /\ b \in Seq(Lines) /\ b # <<>>
      /\ \A p \in Ids : Loaded(b)[p] = Loaded(file)[p]
      /\ \A i \in DOMAIN b : b[i].op = 0 \/ (i \in DOMAIN file /\ b[i] = file[i])
  BY PartAppended
<1>3. g = a \/ g = b
  BY DEF Torn
<1> HIDE DEF a, b
<1>4. CASE g = a
  BY <1>1, <1>4
<1>5. CASE g = b
  BY <1>2, <1>5
<1>6. QED
  BY <1>3, <1>4, <1>5

---------------------------------------------------------------------------
(* The pass of the queue.                                                  *)

\* The tickets that hold a slot write to different repositories.
Apart(S) == \A o, p \in S : o # p => KeyAt(writing, o) # KeyAt(writing, p)

PassStates == [pending : Seq(Ids), running : SUBSET Ids]

\* What the pass has done when it considered the first i tickets of the queue.
Walk(queue, i, s) ==
    /\ s \in PassStates
    /\ running \subseteq s.running
    /\ \A o \in s.running \ running : entries'[o] # NoRecord /\ \E j \in 1 .. i : queue[j] = o
    /\ Apart(s.running)
    /\ Distinct(s.pending)
    /\ \A n \in DOMAIN s.pending :
           s.pending[n] \notin s.running /\ \E j \in 1 .. i : queue[j] = s.pending[n]

LEMMA WalkTurn ==
    ASSUME NEW queue \in Seq(Ids), Distinct(queue), \A n \in DOMAIN queue : queue[n] \notin running,
           NEW i \in Nat, i + 1 <= Len(queue), NEW s, Walk(queue, i, s),
           NEW t, t = Considered(s, queue[i + 1])
    PROVE  Walk(queue, i + 1, t)
<1> DEFINE o == queue[i + 1]
           q == s.pending
<1>1. i + 1 \in DOMAIN queue /\ o \in Ids /\ o \notin running
      /\ \A j \in 1 .. i : j \in DOMAIN queue /\ queue[j] # o
  BY DEF Distinct
<1>2. (\A j \in 1 .. i : j \in 1 .. i + 1) /\ i + 1 \in 1 .. i + 1
  OBVIOUS
<1>3. /\ q \in Seq(Ids) /\ s.running \subseteq Ids /\ o \notin s.running
      /\ \A n \in DOMAIN q : q[n] # o
  BY <1>1 DEF Walk, PassStates
<1>4. s = [pending |-> q, running |-> s.running]
  BY DEF Walk, PassStates
<1>5. \/ t = [pending |-> Append(q, o), running |-> s.running]
      \/ t = s
      \/ /\ t = [pending |-> q, running |-> s.running \cup {o}]
         /\ KeyAt(writing, o) \notin {KeyAt(writing, p) : p \in s.running}
         /\ entries'[o] # NoRecord
  BY <1>4 DEF Considered
<1> HIDE DEF o, q
<1>6. /\ running \subseteq s.running /\ Apart(s.running) /\ Distinct(q)
      /\ \A p \in s.running \ running : entries'[p] # NoRecord /\ \E j \in 1 .. i : queue[j] = p
      /\ \A n \in DOMAIN q : q[n] \notin s.running /\ \E j \in 1 .. i : queue[j] = q[n]
  BY DEF Walk, q
<1>7. CASE t = s
  <2>1. Walk(queue, i, s)
    OBVIOUS
  <2>2. QED
    BY <1>2, <1>7, <2>1 DEF Walk
<1>8. CASE t = [pending |-> Append(q, o), running |-> s.running]
  <2> DEFINE a == Append(q, o)
             n == Len(q) + 1
  <2>1. /\ a \in Seq(Ids) /\ DOMAIN a = 1 .. n /\ a[n] = o /\ Len(q) \in Nat /\ DOMAIN q = 1 .. Len(q)
        /\ \A m \in 1 .. Len(q) : a[m] = q[m]
    BY <1>1, <1>3
  <2>2. t.pending = a /\ t.running = s.running /\ t \in PassStates
    BY <1>3, <1>8, <2>1 DEF PassStates
  <2> HIDE DEF a
  <2>3. \A m \in DOMAIN a : m = n \/ (m \in DOMAIN q /\ a[m] = q[m])
    BY <2>1
  <2>4. Distinct(a)
    BY <1>3, <1>6, <2>1, <2>3 DEF Distinct
  <2>5. \A m \in DOMAIN a : a[m] \notin s.running /\ \E j \in 1 .. i + 1 : queue[j] = a[m]
    <3> TAKE m \in DOMAIN a
    <3>1. CASE m = n
      BY <1>2, <1>3, <2>1, <3>1 DEF o
    <3>2. CASE m \in DOMAIN q /\ a[m] = q[m]
      BY <1>2, <1>6, <3>2
    <3>3. QED
      BY <2>3, <3>1, <3>2
  <2>6. QED
    BY <1>2, <1>6, <2>2, <2>4, <2>5 DEF Walk
<1>9. CASE /\ t = [pending |-> q, running |-> s.running \cup {o}]
           /\ KeyAt(writing, o) \notin {KeyAt(writing, p) : p \in s.running}
           /\ entries'[o] # NoRecord
  <2>1. t.pending = q /\ t.running = s.running \cup {o} /\ t \in PassStates
    BY <1>1, <1>3, <1>9 DEF PassStates
  <2>2. Apart(s.running \cup {o})
    <3>1. \A p \in s.running : KeyAt(writing, p) # KeyAt(writing, o)
      BY <1>9
    <3>2. QED
      BY <1>6, <3>1 DEF Apart
  <2>3. \A p \in (s.running \cup {o}) \ running :
            entries'[p] # NoRecord /\ \E j \in 1 .. i + 1 : queue[j] = p
    BY <1>2, <1>6, <1>9 DEF o
  <2>4. \A n \in DOMAIN q :
            q[n] \notin s.running \cup {o} /\ \E j \in 1 .. i + 1 : queue[j] = q[n]
    BY <1>2, <1>3, <1>6
  <2>5. QED
    BY <1>6, <2>1, <2>2, <2>3, <2>4 DEF Walk
<1>10. QED
  BY <1>5, <1>7, <1>8, <1>9 DEF o

LEMMA ConsideredType ==
    ASSUME NEW s \in PassStates, NEW o \in Ids
    PROVE  Considered(s, o) \in PassStates
<1>1. s = [pending |-> s.pending, running |-> s.running] /\ s.pending \in Seq(Ids)
      /\ s.running \subseteq Ids /\ Append(s.pending, o) \in Seq(Ids)
  BY DEF PassStates
<1>2. \/ Considered(s, o) = [pending |-> Append(s.pending, o), running |-> s.running]
      \/ Considered(s, o) = s
      \/ Considered(s, o) = [pending |-> s.pending, running |-> s.running \cup {o}]
  BY <1>1 DEF Considered
<1>3. QED
  BY <1>1, <1>2 DEF PassStates

\* By induction along the queue: what a whole pass has done.
LEMMA PassWalks ==
    ASSUME NEW queue \in Seq(Ids), Distinct(queue), running \subseteq Ids, Apart(running),
           \A n \in DOMAIN queue : queue[n] \notin running
    PROVE  Walk(queue, Len(queue), Pass(queue))
<1> DEFINE s0 == [pending |-> <<>>, running |-> running]
           step == [p \in PassStates \X Ids |-> Considered(p[1], p[2])]
           D == 0 .. Len(queue)
           Rule(f) == [i \in D |-> IF i = 0 THEN s0 ELSE Considered(f[i - 1], queue[i])]
           after == CHOOSE f : f = Rule(f)
<1>1. step \in [PassStates \X Ids -> PassStates]
  BY ConsideredType
<1>2. s0 \in PassStates
  BY DEF PassStates
<1>3. PICK f \in [D -> PassStates] :
         f[0] = s0 /\ \A i \in 1 .. Len(queue) : f[i] = step[<<f[i - 1], queue[i]>>]
  <2> HIDE DEF step, s0
  <2>1. \E f : Loop(f, PassStates, s0, step, queue)
    BY <1>1, <1>2, Iteration
  <2>2. QED
    BY <2>1 DEF Loop
<1>4. Len(queue) \in Nat
  OBVIOUS
<1>5. \A i \in 1 .. Len(queue) : f[i] = Considered(f[i - 1], queue[i])
  <2>1. ASSUME NEW i \in 1 .. Len(queue) PROVE f[i] = Considered(f[i - 1], queue[i])
    <3>1. f[i - 1] \in PassStates /\ queue[i] \in Ids
      BY <1>4
    <3>2. f[i] = step[<<f[i - 1], queue[i]>>]
      BY <1>3
    <3>3. QED
      BY <3>1, <3>2
  <2>2. QED
    BY <2>1
<1>6. f = Rule(f)
  <2>1. \A i \in D : f[i] = IF i = 0 THEN s0 ELSE Considered(f[i - 1], queue[i])
    BY <1>3, <1>4, <1>5
  <2>2. QED
    BY <2>1
<1>7. after = Rule(after)
  <2> HIDE DEF Rule
  <2>1. QED
    BY <1>6
<1>8. Pass(queue) = after[Len(queue)]
  BY DEF Pass
<1> HIDE DEF after
<1>9. \A i \in D : after[i] = IF i = 0 THEN s0 ELSE Considered(after[i - 1], queue[i])
  <2> HIDE DEF D
  <2>1. QED
    BY <1>7
<1>10. after[0] = s0 /\ \A i \in Nat : i + 1 <= Len(queue) => after[i + 1] = Considered(after[i], queue[i + 1])
  <2>1. 0 \in D /\ \A i \in Nat : i + 1 <= Len(queue) => i + 1 \in D /\ i + 1 # 0 /\ (i + 1) - 1 = i
    BY <1>4
  <2>2. QED
    BY <1>9, <2>1
<1> DEFINE N == {i \in Nat : i <= Len(queue) => Walk(queue, i, after[i])}
<1>11. 0 \in N
  <2>1. Walk(queue, 0, s0)
    BY <1>2 DEF Walk, Distinct
  <2>2. QED
    BY <1>10, <2>1
<1>12. \A i \in Nat : i \in N => i + 1 \in N
  <2> SUFFICES ASSUME NEW i \in Nat, i \in N, i + 1 <= Len(queue)
               PROVE  Walk(queue, i + 1, after[i + 1])
    OBVIOUS
  <2>1. i <= Len(queue) /\ Walk(queue, i, after[i])
    BY <1>4
  <2>2. after[i + 1] = Considered(after[i], queue[i + 1])
    BY <1>10
  <2>3. QED
    BY <2>1, <2>2, WalkTurn
<1>13. Len(queue) \in N
  <2> HIDE DEF N
  <2>1. QED
    BY <1>4, <1>11, <1>12, NatSetInduction
<1>14. QED
  BY <1>4, <1>8, <1>13

---------------------------------------------------------------------------
(* What a step of the engine does to the records: the appends of the       *)
(* operations D end, or are given up, and those of S begin.                *)

Ends(D) ==
    /\ D \subseteq Ids /\ \A o \in D : io[o] \notin {"none", "renamed"}
    /\ entries' = [o \in Ids |-> IF o \in D /\ io[o] = "written" THEN writing[o] ELSE entries[o]]
    /\ expired' = expired \ {o \in D : io[o] = "written"}
    /\ bytes' \in Nat
    /\ UNCHANGED <<file, torn, tmp, lost>>

Begins(D, S) ==
    /\ S \subseteq Ids
    /\ IoTypes'
    /\ \A o \in S :
        /\ io'[o] \in {"write", "full", "compact"} /\ writing'[o] \in Whole
        /\ (kept'[o] = kept[o] /\ io'[o] # "compact") \/ kept'[o] = Keep(entries)'
    /\ \A o \in Ids \ S :
        /\ io'[o] = IF o \in D THEN "none" ELSE io[o]
        /\ writing'[o] = writing[o] /\ kept'[o] = kept[o]

\* Who may begin an append: a job whose last one ended, for the same request, or a new
\* operation.
MayBegin(D, S) ==
    \A o \in S :
        /\ o <= minted' /\ o \notin expired \ lost
        /\ o \in D \/ io[o] = "none"
        /\ \/ writing[o] # NoRecord /\ writing'[o].req = writing[o].req
           \/ o > minted

LEMMA KeepSays ==
    ASSUME NEW recs \in [Ids -> Rec]
    PROVE  /\ Keep(recs) \in [Ids -> Rec]
           /\ \A o \in Ids : /\ Keep(recs)[o] \in {recs[o], NoRecord}
                             /\ recs[o].status \in Unfinished => Keep(recs)[o] = recs[o]
                             /\ o \in expired /\ recs[o].status \notin Unfinished
                                    => Keep(recs)[o] = NoRecord
<1>1. \A o \in Ids : Keep(recs)[o] = IF o \in Prunable(recs) THEN NoRecord ELSE recs[o]
  BY DEF Keep
<1>2. Keep(recs) \in [Ids -> Rec]
  <2>1. \A o \in Ids : (IF o \in Prunable(recs) THEN NoRecord ELSE recs[o]) \in Rec
    BY DEF Rec
  <2>2. QED
    BY <2>1 DEF Keep
<1>3. ASSUME NEW o \in Ids, recs[o].status \in Unfinished PROVE o \notin Prunable(recs)
  BY <1>3 DEF Prunable, mayPruneRecord, Unfinished, Terminal
<1>4. ASSUME NEW o \in Ids, o \in expired, recs[o].status \notin Unfinished
      PROVE  o \in Prunable(recs) \/ recs[o] = NoRecord
  <2>1. recs[o] = NoRecord \/ recs[o].status \in Terminal
    BY <1>4 DEF Rec, Whole
  <2>2. recs[o].status \in Terminal => recs[o].status # "none"
    BY DEF Terminal
  <2>3. QED
    BY <1>4, <2>1, <2>2 DEF Prunable, mayPruneRecord, Known
<1>5. QED
  BY <1>1, <1>2, <1>3, <1>4

\* No operation whose TTL has passed has an append under way.
LEMMA PastIsQuiet ==
    ASSUME IInv, NEW o \in expired \ lost
    PROVE  o \in Ids /\ io[o] = "none" /\ OverFor(o) /\ Dropped(o)
<1>1. o \in Ids /\ OverFor(o) /\ Dropped(o)
  BY DEF IInv, Records, Engine, JournalTypes, Past
<1>2. io[o] = "none"
  BY <1>1 DEF IInv, Engine, Jobs, OverFor, Quiet
<1>3. QED
  BY <1>1, <1>2

LEMMA EndsGives ==
    ASSUME IInv, NEW D, Ends(D)
    PROVE  /\ entries' \in [Ids -> Rec]
           /\ \A o \in Ids : entries'[o] \in {entries[o], writing[o]}
           /\ \A o \in Ids \ D : entries'[o] = entries[o]
           /\ expired' \subseteq expired /\ expired' \ lost' = expired \ lost
           /\ \A o \in D : o \notin expired \ lost
           /\ OnFile' = OnFile
<1>1. entries \in [Ids -> Rec] /\ writing \in [Ids -> Rec]
  BY DEF IInv, Records, JournalTypes, IoTypes
<1>2. entries' = [o \in Ids |-> IF o \in D /\ io[o] = "written" THEN writing[o] ELSE entries[o]]
  BY DEF Ends
<1>3. \A o \in Ids : entries'[o] \in {entries[o], writing[o]} /\ (o \notin D => entries'[o] = entries[o])
  BY <1>2
<1>4. entries' \in [Ids -> Rec]
  BY <1>1, <1>2
<1>5. \A o \in D : o \notin expired \ lost
  <2>1. \A o \in D : io[o] # "none"
    BY DEF Ends
  <2>2. QED
    BY <2>1, PastIsQuiet
<1>6. expired' \subseteq expired /\ expired' \ lost' = expired \ lost
  BY <1>5 DEF Ends
<1>7. OnFile' = OnFile
  BY DEF Ends, OnFile
<1>8. QED
  BY <1>3, <1>4, <1>5, <1>6, <1>7

\* The copies of compactions, after the step.
LEMMA KeptAfter ==
    ASSUME IInv, NEW D, NEW S, Ends(D), Begins(D, S)
    PROVE  /\ \A p, o \in Ids : kept'[p][o] \in {kept[p][o], entries'[o], NoRecord}
           /\ \A p \in Ids, o \in expired \ lost :
                 io'[p] \in Compacting => kept'[p][o] = NoRecord
<1>1. entries' \in [Ids -> Rec]
  BY EndsGives
<1>2. \A o \in Ids : /\ (Keep(entries)')[o] \in {entries'[o], NoRecord}
                     /\ o \in expired' /\ entries'[o].status \notin Unfinished
                            => (Keep(entries)')[o] = NoRecord
  <2>1. \A o \in Ids : (Keep(entries)')[o] = IF o \in Prunable(entries)' THEN NoRecord ELSE entries'[o]
    BY DEF Keep
  <2>2. ASSUME NEW o \in Ids, o \in expired', entries'[o].status \notin Unfinished
        PROVE  o \in Prunable(entries)' \/ entries'[o] = NoRecord
    <3>1. entries'[o] = NoRecord \/ entries'[o].status \in Terminal
      BY <1>1, <2>2 DEF Rec, Whole
    <3>2. entries'[o].status \in Terminal => entries'[o].status # "none"
      BY DEF Terminal
    <3>3. QED
      BY <2>2, <3>1, <3>2 DEF Prunable, mayPruneRecord, Known
  <2>3. QED
    BY <2>1, <2>2
<1>3. \A p, o \in Ids : kept'[p][o] \in {kept[p][o], entries'[o], NoRecord}
  <2> SUFFICES ASSUME NEW p \in Ids, NEW o \in Ids
               PROVE  kept'[p][o] \in {kept[p][o], entries'[o], NoRecord}
    OBVIOUS
  <2>1. kept'[p] = kept[p] \/ kept'[p] = Keep(entries)'
    BY DEF Begins
  <2>2. QED
    BY <1>2, <2>1
<1>4. ASSUME NEW p \in Ids, NEW o \in expired \ lost, io'[p] \in Compacting
      PROVE  kept'[p][o] = NoRecord
  <2>1. o \in Ids /\ Dropped(o) /\ o \notin D /\ o \in expired'
    BY PastIsQuiet, EndsGives
  <2>2. CASE kept'[p] = Keep(entries)'
    <3>1. entries'[o] = entries[o] /\ entries[o].status \notin Unfinished
      BY <2>1, EndsGives DEF Dropped
    <3>2. QED
      BY <1>2, <2>1, <2>2, <3>1
  <2>3. CASE kept'[p] # Keep(entries)'
    <3>1. p \notin S
      BY <1>4, <2>3 DEF Begins, Compacting
    <3>2. io'[p] = io[p] /\ kept'[p] = kept[p]
      BY <1>4, <3>1 DEF Begins, Compacting
    <3>3. QED
      BY <1>4, <2>1, <3>2 DEF Dropped
  <2>4. QED
    BY <2>2, <2>3
<1>5. QED
  BY <1>3, <1>4

LEMMA AppendsKeepRecords ==
    ASSUME IInv, up' = up, up = "up", minted' \in Nat, minted <= minted',
           NEW D, NEW S, Ends(D), Begins(D, S), MayBegin(D, S)
    PROVE  Records' /\ \A o \in expired' \ lost' : Dropped(o)'
<1>1. /\ JournalTypes /\ IoTypes /\ Fresh /\ SameReq /\ Durable /\ minted \in Nat
  BY DEF IInv, Records, RecoveryTypes
<1>2. /\ entries' \in [Ids -> Rec]
      /\ \A o \in Ids : entries'[o] \in {entries[o], writing[o]}
      /\ \A o \in Ids \ D : entries'[o] = entries[o]
      /\ expired' \subseteq expired /\ expired' \ lost' = expired \ lost
      /\ \A o \in D : o \notin expired \ lost
      /\ OnFile' = OnFile
  BY EndsGives
<1>3. /\ \A p, o \in Ids : kept'[p][o] \in {kept[p][o], entries'[o], NoRecord}
      /\ \A p \in Ids, o \in expired \ lost : io'[p] \in Compacting => kept'[p][o] = NoRecord
  BY KeptAfter
<1>4. /\ file' = file /\ torn' = torn /\ tmp' = tmp /\ lost' = lost /\ bytes' \in Nat
      /\ D \subseteq Ids /\ \A o \in D : io[o] \notin {"none", "renamed"}
  BY DEF Ends
<1>5. /\ S \subseteq Ids /\ IoTypes'
      /\ \A o \in S : io'[o] \in {"write", "full", "compact"} /\ writing'[o] \in Whole
      /\ \A o \in Ids \ S : io'[o] = (IF o \in D THEN "none" ELSE io[o]) /\ writing'[o] = writing[o]
  BY DEF Begins
<1>6. JournalTypes'
  BY <1>1, <1>2, <1>4 DEF JournalTypes
<1>7. Fresh'
  <2> SUFFICES ASSUME NEW o \in Ids, o > minted' PROVE Unused(o)'
    BY DEF Fresh
  <2>1. o > minted /\ o \notin S
    BY <1>1 DEF MayBegin, Ids
  <2>2. Unused(o)
    BY <1>1, <2>1 DEF Fresh
  <2>3. entries'[o] = NoRecord /\ writing'[o] = NoRecord
    BY <1>2, <1>5, <2>1, <2>2 DEF Unused
  <2>4. \A p \in Ids : kept'[p][o] = NoRecord
    BY <1>3, <2>2, <2>3 DEF Unused
  <2>5. QED
    BY <1>2, <1>4, <2>2, <2>3, <2>4 DEF Unused
<1>8. SameReq'
  <2> SUFFICES ASSUME NEW o \in Ids, writing'[o] # NoRecord
               PROVE  /\ entries'[o].req \in {NoReq, writing'[o].req}
                      /\ \A p \in Ids : kept'[p][o].req \in {NoReq, writing'[o].req}
    BY DEF SameReq
  <2>0. NoRecord.req = NoReq
    BY DEF NoRecord
  <2>1. CASE writing[o] # NoRecord /\ writing'[o].req = writing[o].req
    <3>1. /\ entries[o].req \in {NoReq, writing[o].req}
          /\ \A p \in Ids : kept[p][o].req \in {NoReq, writing[o].req}
      BY <1>1, <2>1 DEF SameReq
    <3>2. entries'[o].req \in {NoReq, writing[o].req}
      BY <1>2, <3>1
    <3>3. \A p \in Ids : kept'[p][o].req \in {NoReq, writing[o].req}
      BY <1>3, <2>0, <3>1, <3>2
    <3>4. QED
      BY <2>1, <3>2, <3>3
  <2>2. CASE o > minted
    <3>1. Unused(o)
      BY <1>1, <2>2 DEF Fresh
    <3>2. entries'[o] = NoRecord
      BY <1>2, <3>1 DEF Unused
    <3>3. \A p \in Ids : kept'[p][o] = NoRecord
      BY <1>3, <3>1, <3>2 DEF Unused
    <3>4. QED
      BY <2>0, <3>2, <3>3
  <2>3. o \notin S => writing[o] # NoRecord /\ writing'[o].req = writing[o].req
    BY <1>5
  <2>4. QED
    BY <2>1, <2>2, <2>3 DEF MayBegin
<1>9. Durable'
  <2> SUFFICES ASSUME NEW o \in Ids, o \notin lost
               PROVE  IF io'[o] = "written" THEN OnFile'[o] = writing'[o]
                      ELSE \/ entries'[o] = OnFile'[o]
                           \/ o \in expired' /\ \E p \in Ids : io'[p] = "renamed"
    BY <1>4 DEF Durable
  <2>1. IF io[o] = "written" THEN OnFile[o] = writing[o]
        ELSE entries[o] = OnFile[o] \/ (o \in expired /\ \E p \in Ids : io[p] = "renamed")
    BY <1>1 DEF Durable
  <2>2. CASE o \in D
    <3>1. o \notin expired /\ io'[o] # "written"
      BY <1>2, <1>5, <2>2
    <3>2. entries'[o] = IF io[o] = "written" THEN writing[o] ELSE entries[o]
      BY <2>2 DEF Ends
    <3>3. entries'[o] = OnFile[o]
      BY <2>1, <3>1, <3>2
    <3>4. QED
      BY <1>2, <3>1, <3>3
  <2>3. CASE o \in S \ D
    <3>1. o \notin expired /\ io'[o] # "written" /\ io[o] = "none"
      BY <1>5, <2>3 DEF MayBegin
    <3>2. QED
      BY <1>2, <2>1, <2>3, <3>1
  <2>4. CASE o \notin S \cup D
    <3>1. io'[o] = io[o] /\ writing'[o] = writing[o] /\ entries'[o] = entries[o]
      BY <1>2, <1>5, <2>4
    <3>2. o \in expired => o \in expired'
      BY <1>2, <1>4
    <3>3. \A p \in Ids : io[p] = "renamed" => io'[p] = "renamed"
      <4>1. \A p \in Ids : io[p] = "renamed" => p \notin D /\ p \notin S
        BY <1>4 DEF MayBegin
      <4>2. QED
        BY <1>5, <4>1
    <3>4. QED
      BY <1>2, <2>1, <3>1, <3>2, <3>3
  <2>5. QED
    BY <2>2, <2>3, <2>4
<1>10. \A o \in expired' \ lost' : Dropped(o)'
  <2> SUFFICES ASSUME NEW o \in expired \ lost PROVE Dropped(o)'
    BY <1>2
  <2>1. o \in Ids /\ Dropped(o)
    BY PastIsQuiet
  <2>2. OnFile'[o].status \notin Unfinished /\ entries'[o].status \notin Unfinished
    BY <1>2, <2>1 DEF Dropped
  <2>3. ASSUME NEW p \in Ids, io'[p] \in {"rename", "renamed"} PROVE io[p] = io'[p]
    BY <1>5, <2>3
  <2>4. \A p \in Ids : /\ io'[p] \in Compacting => kept'[p][o] = NoRecord
                       /\ io'[p] = "rename" /\ tmp' # NoFile => tmp'[o] = NoRecord
                       /\ io'[p] = "renamed" => OnFile'[o] = NoRecord
    <3> TAKE p \in Ids
    <3>1. io'[p] \in Compacting => kept'[p][o] = NoRecord
      BY <1>3
    <3>2. io'[p] = "rename" /\ tmp' # NoFile => tmp'[o] = NoRecord
      BY <1>4, <2>1, <2>3 DEF Dropped
    <3>3. io'[p] = "renamed" => OnFile'[o] = NoRecord
      BY <1>2, <2>1, <2>3 DEF Dropped
    <3>4. QED
      BY <3>1, <3>2, <3>3
  <2>5. QED
    BY <2>2, <2>4 DEF Dropped, NoFile
<1>11. QED
  BY <1>5, <1>6, <1>7, <1>8, <1>9, <1>10 DEF Records

LEMMA PhaseBegins ==
    ASSUME IInv, NEW D, NEW S, Ends(D), S \subseteq Ids,
           NEW new, \A o \in S : new[o] \in Whole,
           io' = [o \in Ids |-> IF o \in S THEN AppendPhase'
                                ELSE IF o \in D THEN "none" ELSE io[o]],
           writing' = [o \in Ids |-> IF o \in S THEN new[o] ELSE writing[o]],
           kept' = [o \in Ids |-> IF o \in S /\ Full' THEN Keep(entries)' ELSE kept[o]]
    PROVE  Begins(D, S)
<1>1. IoTypes /\ entries' \in [Ids -> Rec]
  BY EndsGives DEF IInv, Records
<1>2. Keep(entries)' \in [Ids -> Rec]
  <2>1. Keep(entries)' = [o \in Ids |-> IF o \in Prunable(entries)' THEN NoRecord ELSE entries'[o]]
    BY DEF Keep
  <2>2. \A o \in Ids : (IF o \in Prunable(entries)' THEN NoRecord ELSE entries'[o]) \in Rec
    BY <1>1 DEF Rec
  <2>3. QED
    BY <2>1, <2>2
<1>3. AppendPhase' \in {"write", "full", "compact"} /\ (~ Full' => AppendPhase' = "write")
  BY DEF AppendPhase
<1>4. io' \in [Ids -> IoPc]
  <2>1. {"write", "full", "compact", "none"} \subseteq IoPc /\ io \in [Ids -> IoPc]
    BY <1>1 DEF IoPc, IoTypes
  <2>2. \A o \in Ids : (IF o \in S THEN AppendPhase' ELSE IF o \in D THEN "none" ELSE io[o]) \in IoPc
    BY <1>3, <2>1
  <2>3. QED
    BY <2>2
<1>5. writing' \in [Ids -> Rec]
  <2>1. \A o \in Ids : (IF o \in S THEN new[o] ELSE writing[o]) \in Rec
    BY <1>1 DEF IoTypes, Rec
  <2>2. QED
    BY <2>1
<1>6. kept' \in [Ids -> [Ids -> Rec]]
  <2>1. \A o \in Ids : (IF o \in S /\ Full' THEN Keep(entries)' ELSE kept[o]) \in [Ids -> Rec]
    BY <1>1, <1>2 DEF IoTypes
  <2>2. QED
    BY <2>1
<1>7. ASSUME NEW o \in S
      PROVE  /\ io'[o] \in {"write", "full", "compact"} /\ writing'[o] \in Whole
             /\ (kept'[o] = kept[o] /\ io'[o] # "compact") \/ kept'[o] = Keep(entries)'
  <2>1. o \in Ids /\ io'[o] = AppendPhase' /\ writing'[o] = new[o]
        /\ kept'[o] = IF Full' THEN Keep(entries)' ELSE kept[o]
    OBVIOUS
  <2>2. QED
    BY <1>3, <2>1
<1>8. ASSUME NEW o \in Ids \ S
      PROVE  /\ io'[o] = (IF o \in D THEN "none" ELSE io[o])
             /\ writing'[o] = writing[o] /\ kept'[o] = kept[o]
  OBVIOUS
<1>9. QED
  BY <1>4, <1>5, <1>6, <1>7, <1>8 DEF Begins, IoTypes

\* An append that begins for an operation whose last one ended in the same step, if it
\* had one.
LEMMA AppendBegins ==
    ASSUME IInv, NEW D, NEW o \in Ids, Ends(D), D \subseteq {o},
           NEW recs, recs[o] \in Whole, append({o}, recs)
    PROVE  Begins(D, {o}) /\ writing'[o] = recs[o]
<1>1. \A p \in Ids : (IF p \in {o} THEN AppendPhase' ELSE IF p \in D THEN "none" ELSE io[p])
                     = (IF p \in {o} THEN AppendPhase' ELSE io[p])
  OBVIOUS
<1>2. io' = [p \in Ids |-> IF p \in {o} THEN AppendPhase'
                           ELSE IF p \in D THEN "none" ELSE io[p]]
  BY <1>1 DEF append
<1>3. /\ writing' = [p \in Ids |-> IF p \in {o} THEN recs[p] ELSE writing[p]]
      /\ kept' = [p \in Ids |-> IF p \in {o} /\ Full' THEN Keep(entries)' ELSE kept[p]]
  BY DEF append
<1>4. QED
  BY <1>2, <1>3, PhaseBegins

LEMMA NoneBegin ==
    ASSUME IInv, NEW o \in Ids, Ends({o}), Idle(o), UNCHANGED <<writing, kept>>
    PROVE  Begins({o}, {}) /\ MayBegin({o}, {}) /\ io'[o] = "none"
<1>1. IoTypes /\ io' = [io EXCEPT ![o] = "none"]
  BY DEF IInv, Records, Idle
<1>2. IoTypes'
  BY <1>1 DEF IoTypes, IoPc
<1>3. \A p \in Ids : io'[p] = IF p \in {o} THEN "none" ELSE io[p]
  BY <1>1 DEF IoTypes
<1>4. QED
  BY <1>2, <1>3 DEF Begins, MayBegin

LEMMA StoreEnds ==
    ASSUME IInv, NEW o \in Ids, Store(o), lost' = lost
    PROVE  Ends({o})
<1>1. entries \in [Ids -> Rec] /\ bytes \in Nat
  BY DEF IInv, Records, JournalTypes
<1>2. io[o] \in {"written", "full"} /\ UNCHANGED <<file, torn, tmp>>
  BY DEF Store
<1>3. CASE io[o] = "full"
  <2>1. entries' = entries /\ bytes' = bytes /\ expired' = expired
    BY <1>3 DEF Store
  <2>2. entries = [p \in Ids |-> IF p \in {o} /\ io[p] = "written" THEN writing[p] ELSE entries[p]]
    BY <1>1, <1>3
  <2>3. {p \in {o} : io[p] = "written"} = {}
    BY <1>3
  <2>4. QED
    BY <1>1, <1>2, <1>3, <2>1, <2>2, <2>3 DEF Ends
<1>4. CASE io[o] = "written"
  <2>1. entries' = [entries EXCEPT ![o] = writing[o]] /\ bytes' = bytes + 1 /\ expired' = expired \ {o}
    BY <1>4 DEF Store
  <2>2. entries' = [p \in Ids |-> IF p \in {o} /\ io[p] = "written" THEN writing[p] ELSE entries[p]]
    BY <1>1, <1>4, <2>1
  <2>3. {p \in {o} : io[p] = "written"} = {o}
    BY <1>4
  <2>4. expired' = expired \ {p \in {o} : io[p] = "written"}
    BY <2>1, <2>3
  <2>5. bytes' \in Nat /\ {o} \subseteq Ids /\ \A p \in {o} : io[p] \notin {"none", "renamed"}
    BY <1>1, <1>4, <2>1
  <2>6. QED
    BY <1>2, <2>2, <2>4, <2>5 DEF Ends
<1>5. QED
  BY <1>2, <1>3, <1>4

LEMMA NothingEnds ==
    ASSUME IInv, UNCHANGED <<journalVars, lost>>
    PROVE  Ends({})
<1>1. entries \in [Ids -> Rec] /\ bytes \in Nat
  BY DEF IInv, Records, JournalTypes
<1>2. entries = [p \in Ids |-> IF p \in {} /\ io[p] = "written" THEN writing[p] ELSE entries[p]]
  BY <1>1
<1>3. QED
  BY <1>1, <1>2 DEF Ends

LEMMA UpIsSteady ==
    ASSUME IInv, up = "up", UNCHANGED recoveryVars, minted' \in Nat, faults' \in Nat
    PROVE  RecoveryTypes' /\ Steady'
<1>1. toRecover = {}
  BY DEF IInv, Steady
<1>2. QED
  BY <1>1 DEF IInv, RecoveryTypes, Steady

\* A step of one job, which does not get a slot in it.
LEMMA StepKeeps ==
    ASSUME IInv, up = "up", UNCHANGED recoveryVars, faults' \in Nat, minted' \in Nat, minted <= minted',
           NEW o \in Ids, NEW D \in SUBSET {o}, NEW S \in SUBSET {o}, o \in D \cup S,
           Ends(D), Begins(D, S), MayBegin(D, S),
           NEW pc \in JobPc \ {"start"}, job' = [job EXCEPT ![o] = pc],
           EngineTypes', Distinct(pending'),
           \A i \in DOMAIN pending' : pending'[i] # o /\ \E j \in DOMAIN pending : pending'[i] = pending[j],
           \A p \in Ids \ {o} : p \in running' <=> p \in running,
           o \in running' <=> pc \in Active,
           pc \in Quiet <=> io'[o] = "none",
           pc # "none" => writing'[o] # NoRecord,
           pc = "accept" => writing'[o].status = "accepted",
           pc = "effect" => job[o] = "start",
           pc \in Active => job[o] \in Active /\ writing'[o].req = writing[o].req
    PROVE  IInv'
<1>1. RecoveryTypes' /\ Steady'
  BY UpIsSteady
<1>2. Records' /\ \A p \in expired' \ lost' : Dropped(p)'
  BY AppendsKeepRecords
<1>3. /\ Jobs /\ Queued /\ Visible /\ Past /\ OneWriterPerKey /\ job \in [Ids -> JobPc]
      /\ pending \in Seq(Ids)
  BY DEF IInv, Engine, EngineTypes
<1>4. job'[o] = pc /\ \A p \in Ids \ {o} : job'[p] = job[p]
  BY <1>3
<1>5. \A p \in Ids \ {o} : io'[p] = io[p] /\ writing'[p] = writing[p]
  BY DEF Begins
<1>6. expired' \ lost' = expired \ lost /\ OnFile' = OnFile /\ lost' = lost
      /\ \A p \in D : p \notin expired \ lost
  BY EndsGives DEF Ends
<1>7. o \notin expired \ lost
  BY <1>6 DEF MayBegin
<1>8. Jobs'
  <2> SUFFICES ASSUME NEW p \in Ids
               PROVE  /\ job'[p] \in Quiet <=> io'[p] = "none"
                      /\ p \in running' <=> job'[p] \in Active
                      /\ job'[p] # "none" => writing'[p] # NoRecord
                      /\ job'[p] = "accept" => writing'[p].status = "accepted"
                      /\ job'[p] = "start" => writing'[p].status = "running"
    BY DEF Jobs
  <2>1. CASE p = o
    BY <1>4, <2>1
  <2>2. CASE p # o
    BY <1>3, <1>4, <1>5, <2>2 DEF Jobs
  <2>3. QED
    BY <2>1, <2>2
<1>9. Queued'
  <2> SUFFICES ASSUME NEW i \in DOMAIN pending'
               PROVE  job'[pending'[i]] = "none" /\ writing'[pending'[i]] # NoRecord
    BY DEF Queued
  <2>1. PICK j \in DOMAIN pending : pending'[i] = pending[j]
    OBVIOUS
  <2>2. pending[j] \in Ids \ {o}
    BY <1>3, <2>1
  <2>3. QED
    BY <1>3, <1>4, <1>5, <2>1, <2>2 DEF Queued
<1>10. \A p \in Ids : Owed(p)' => Owed(p)
  <2> SUFFICES ASSUME NEW p \in Ids, Owed(p)' PROVE Owed(p)
    OBVIOUS
  <2>1. CASE job'[p] \in {"start", "effect"}
    BY <1>4, <2>1 DEF Owed
  <2>2. CASE \E i \in DOMAIN pending' : pending'[i] = p
    BY <2>2 DEF Owed
  <2>3. QED
    BY <2>1, <2>2 DEF Owed
<1>11. Visible'
  BY <1>3, <1>6, <1>10 DEF Visible
<1>12. Past'
  <2> SUFFICES ASSUME NEW p \in expired \ lost PROVE OverFor(p)'
    BY <1>2, <1>6 DEF Past
  <2>1. p \in Ids /\ p # o /\ OverFor(p)
    BY <1>7, PastIsQuiet
  <2>2. QED
    BY <1>4, <2>1 DEF OverFor
<1>13. OneWriterPerKey'
  <2>1. \A p \in Ids : job'[p] \in Active => job[p] \in Active /\ KeyAt(writing', p) = KeyAt(writing, p)
    BY <1>4, <1>5 DEF KeyAt
  <2>2. QED
    BY <1>3, <2>1 DEF OneWriterPerKey, Active
<1>14. QED
  BY <1>1, <1>2, <1>8, <1>9, <1>11, <1>12, <1>13 DEF IInv, Engine

\* A ticket the pass may consider.
Ready(p, D) ==
    /\ job[p] = "none" \/ p \in D
    /\ writing[p] # NoRecord /\ p \notin expired \ lost
    /\ p \notin lost => OnFile[p].status \in Unfinished

LEMMA PendingIsReady ==
    ASSUME IInv, NEW D, NEW i \in DOMAIN pending
    PROVE  pending[i] \in Ids /\ Ready(pending[i], D)
<1>1. pending[i] \in Ids /\ job[pending[i]] = "none" /\ writing[pending[i]] # NoRecord
  BY DEF IInv, Engine, EngineTypes, Queued
<1>2. pending[i] \notin expired \ lost
  BY PastIsQuiet DEF OverFor
<1>3. pending[i] \notin lost => OnFile[pending[i]].status \in Unfinished
  BY <1>1 DEF IInv, Engine, Visible, Owed
<1>4. QED
  BY <1>1, <1>2, <1>3 DEF Ready

\* The pass over the queue, with the appends it begins.
LEMMA PumpKeeps ==
    ASSUME IInv, up = "up", UNCHANGED <<recoveryVars, faults, minted, calls>>, pumpDue' \in BOOLEAN,
           NEW D, Ends(D), \A p \in D : job[p] = "accept",
           NEW queue \in Seq(Ids), Distinct(queue), \A n \in DOMAIN queue : Ready(queue[n], D),
           pump(queue, D)
    PROVE  IInv'
<1> DEFINE after == Pass(queue)
           S == after.running \ running
           new == [o \in Ids |-> [entries'[o] EXCEPT !.status = "running"]]
<1>1. /\ Jobs /\ Queued /\ Visible /\ Past /\ OneWriterPerKey /\ EngineTypes /\ SameReq /\ Fresh
      /\ minted \in Nat /\ JournalTypes /\ IoTypes
  BY DEF IInv, Engine, Records, RecoveryTypes
<1>2. \A n \in DOMAIN queue : queue[n] \in Ids /\ queue[n] \notin running
  <2> TAKE n \in DOMAIN queue
  <2>1. queue[n] \in Ids
    OBVIOUS
  <2>2. job[queue[n]] \notin Active
    BY DEF Ready, Active
  <2>3. QED
    BY <1>1, <2>1, <2>2 DEF Jobs
<1>3. Apart(running)
  BY <1>1 DEF OneWriterPerKey, Jobs, EngineTypes, Apart, Active
<1>4. Walk(queue, Len(queue), after)
  BY <1>1, <1>2, <1>3, PassWalks DEF EngineTypes
<1>5. /\ pending' = after.pending /\ running' = after.running
      /\ job' = [o \in Ids |-> IF o \in S THEN "start" ELSE IF o \in D THEN "none" ELSE job[o]]
      /\ io' = [o \in Ids |-> IF o \in S THEN AppendPhase' ELSE IF o \in D THEN "none" ELSE io[o]]
      /\ kept' = [o \in Ids |-> IF o \in S /\ Full' THEN Keep(entries)' ELSE kept[o]]
  BY DEF pump
<1>6. writing' = [o \in Ids |-> IF o \in S THEN new[o] ELSE writing[o]]
  <2>1. writing' = [o \in Ids |-> IF o \in S THEN [entries'[o] EXCEPT !.status = "running"] ELSE writing[o]]
    BY DEF pump
  <2>2. \A o \in Ids : new[o] = [entries'[o] EXCEPT !.status = "running"]
    OBVIOUS
  <2> HIDE DEF new
  <2>3. QED
    BY <2>1, <2>2
<1> HIDE DEF after
<1>7. /\ after.pending \in Seq(Ids) /\ after.running \subseteq Ids
      /\ running \subseteq after.running
      /\ Apart(after.running) /\ Distinct(after.pending)
      /\ \A n \in DOMAIN after.pending :
            after.pending[n] \notin after.running /\ \E j \in 1 .. Len(queue) : queue[j] = after.pending[n]
  BY <1>4 DEF Walk, PassStates
<1>8. \A o \in S : o \in Ids /\ entries'[o] # NoRecord /\ Ready(o, D)
  <2> TAKE o \in S
  <2>1. entries'[o] # NoRecord /\ \E j \in 1 .. Len(queue) : queue[j] = o
    BY <1>4 DEF Walk
  <2>2. QED
    BY <1>7, <2>1
<1>9. /\ entries' \in [Ids -> Rec]
      /\ \A o \in Ids : entries'[o] \in {entries[o], writing[o]}
      /\ expired' \ lost' = expired \ lost
      /\ \A o \in D : o \notin expired \ lost
      /\ OnFile' = OnFile
  BY EndsGives
<1>10. \A o \in S : /\ entries'[o] \in Whole /\ entries'[o].req = writing[o].req
                    /\ new[o] \in Whole /\ new[o].status = "running" /\ new[o].req = writing[o].req
  <2> TAKE o \in S
  <2>1. entries'[o] \in Whole /\ writing[o] # NoRecord
    BY <1>8, <1>9 DEF Rec, Ready
  <2>2. entries[o].req \in {NoReq, writing[o].req}
    BY <1>1, <1>8, <2>1 DEF SameReq
  <2>3. entries'[o].req \in {NoReq, writing[o].req} /\ entries'[o].req # NoReq
    <3>1. entries'[o].req \in Requests
      BY <2>1 DEF Whole
    <3>2. QED
      BY <1>8, <1>9, <2>2, <3>1, NodeAssumption
  <2>4. new[o] = [entries'[o] EXCEPT !.status = "running"]
    BY <1>8
  <2>5. new[o] \in Whole /\ new[o].status = "running" /\ new[o].req = entries'[o].req
    BY <2>1, <2>4 DEF Whole, Unfinished
  <2>6. QED
    BY <2>1, <2>3, <2>5
<1> HIDE DEF new
<1>11. S \subseteq Ids /\ \A o \in S : new[o] \in Whole
  BY <1>8, <1>10
<1>12. /\ \A o \in S : job'[o] = "start" /\ writing'[o] = new[o]
       /\ \A o \in Ids \ S : job'[o] = (IF o \in D THEN "none" ELSE job[o]) /\ writing'[o] = writing[o]
  BY <1>5, <1>6, <1>11
<1>13. running' = running \cup S
  BY <1>5, <1>7
<1> HIDE DEF S
<1>14. Begins(D, S)
  BY <1>5, <1>6, <1>11, PhaseBegins
<1>15. MayBegin(D, S)
  <2> SUFFICES ASSUME NEW o \in S
               PROVE  /\ o <= minted' /\ o \notin expired \ lost /\ (o \in D \/ io[o] = "none")
                      /\ writing[o] # NoRecord /\ writing'[o].req = writing[o].req
    BY DEF MayBegin
  <2>1. Ready(o, D) /\ o \in Ids
    BY <1>8
  <2>2. o <= minted
    <3>1. ~ Unused(o)
      BY <2>1 DEF Ready, Unused
    <3>2. QED
      BY <1>1, <2>1, <3>1 DEF Fresh, Ids
  <2>3. o \in D \/ io[o] = "none"
    BY <1>1, <2>1 DEF Ready, Jobs, Quiet
  <2>4. QED
    BY <1>10, <1>12, <2>1, <2>2, <2>3 DEF Ready
<1>16. minted' \in Nat /\ minted <= minted' /\ faults' \in Nat
  BY <1>1 DEF IInv, RecoveryTypes
<1>17. RecoveryTypes' /\ Steady'
  BY <1>16, UpIsSteady
<1>18. Records' /\ \A p \in expired' \ lost' : Dropped(p)'
  BY <1>14, <1>15, <1>16, AppendsKeepRecords
<1>19. \A o \in Ids \ S : io'[o] = IF o \in D THEN "none" ELSE io[o]
  BY <1>14 DEF Begins
<1>20. Jobs'
  <2> SUFFICES ASSUME NEW p \in Ids
               PROVE  /\ job'[p] \in Quiet <=> io'[p] = "none"
                      /\ p \in running' <=> job'[p] \in Active
                      /\ job'[p] # "none" => writing'[p] # NoRecord
                      /\ job'[p] = "accept" => writing'[p].status = "accepted"
                      /\ job'[p] = "start" => writing'[p].status = "running"
    BY DEF Jobs
  <2>1. CASE p \in S
    <3>1. job'[p] = "start" /\ io'[p] # "none" /\ p \in running'
      BY <1>12, <1>13, <1>14, <2>1 DEF Begins
    <3>2. writing'[p].status = "running" /\ writing'[p] # NoRecord
      BY <1>10, <1>12, <2>1 DEF NoRecord
    <3>3. QED
      BY <3>1, <3>2 DEF Quiet, Active
  <2>2. CASE p \in D \ S
    <3>1. job'[p] = "none" /\ io'[p] = "none" /\ job[p] = "accept"
      BY <1>12, <1>19, <2>2
    <3>2. p \notin running'
      BY <1>1, <1>13, <2>2, <3>1 DEF Jobs, Active
    <3>3. QED
      BY <3>1, <3>2 DEF Quiet, Active
  <2>3. CASE p \notin D \cup S
    <3>1. job'[p] = job[p] /\ io'[p] = io[p] /\ writing'[p] = writing[p]
      BY <1>12, <1>19, <2>3
    <3>2. p \in running' <=> p \in running
      BY <1>13, <2>3
    <3>3. QED
      BY <1>1, <3>1, <3>2 DEF Jobs
  <2>4. QED
    BY <2>1, <2>2, <2>3
<1>21. \A i \in DOMAIN pending' :
           pending'[i] \in Ids \ S /\ Ready(pending'[i], D) /\ job'[pending'[i]] = "none"
  <2> TAKE i \in DOMAIN pending'
  <2>1. pending'[i] \in Ids /\ pending'[i] \notin running' /\ Ready(pending'[i], D)
    BY <1>5, <1>7
  <2>2. QED
    BY <1>12, <1>13, <2>1 DEF Ready
<1>22. Queued'
  <2>1. Distinct(pending')
    BY <1>5, <1>7
  <2>2. \A i \in DOMAIN pending' : job'[pending'[i]] = "none" /\ writing'[pending'[i]] # NoRecord
    BY <1>12, <1>21 DEF Ready
  <2>3. QED
    BY <2>1, <2>2 DEF Queued, Distinct
<1>23. Visible'
  <2> SUFFICES ASSUME NEW p \in Ids \ lost, Owed(p)' PROVE OnFile[p].status \in Unfinished
    BY <1>9 DEF Visible, Ends
  <2>1. CASE p \in S
    BY <1>8, <2>1 DEF Ready
  <2>2. CASE \E i \in DOMAIN pending' : pending'[i] = p
    BY <1>21, <2>2 DEF Ready
  <2>3. CASE p \notin S /\ job'[p] \in {"start", "effect"}
    <3>1. job[p] \in {"start", "effect"}
      BY <1>12, <2>3
    <3>2. QED
      BY <1>1, <3>1 DEF Visible, Owed
  <2>4. QED
    BY <2>1, <2>2, <2>3 DEF Owed
<1>24. Past'
  <2> SUFFICES ASSUME NEW p \in expired \ lost PROVE OverFor(p)'
    BY <1>9, <1>18 DEF Past
  <2>1. p \in Ids /\ p \notin S /\ p \notin D /\ OverFor(p)
    BY <1>8, <1>9, PastIsQuiet DEF Ready
  <2>2. job'[p] = "none"
    BY <1>12, <2>1 DEF OverFor
  <2>3. \A i \in DOMAIN pending' : pending'[i] # p
    BY <1>21 DEF Ready
  <2>4. QED
    BY <2>2, <2>3 DEF OverFor
<1>25. OneWriterPerKey'
  <2>1. \A p \in Ids : job'[p] \in Active => p \in after.running
    BY <1>5, <1>20 DEF Jobs
  <2>2. \A p \in after.running : p \in Ids /\ KeyAt(writing', p) = KeyAt(writing, p)
    <3> TAKE p \in after.running
    <3>1. p \in Ids
      BY <1>7
    <3>2. writing'[p].req = writing[p].req
      BY <1>10, <1>12, <3>1
    <3>3. QED
      BY <3>1, <3>2 DEF KeyAt
  <2>3. QED
    BY <1>7, <2>1, <2>2 DEF OneWriterPerKey, Apart, Active
<1>26. EngineTypes'
  <2>1. job' \in [Ids -> JobPc]
    <3>1. \A o \in Ids : (IF o \in S THEN "start" ELSE IF o \in D THEN "none" ELSE job[o]) \in JobPc
      BY <1>1 DEF EngineTypes, JobPc
    <3>2. QED
      BY <1>5, <3>1
  <2>2. QED
    BY <1>1, <1>5, <1>7, <2>1 DEF EngineTypes
<1>27. QED
  BY <1>17, <1>18, <1>20, <1>22, <1>23, <1>24, <1>25, <1>26 DEF IInv, Engine

---------------------------------------------------------------------------
(* The actions of the engine.                                              *)

\* A step that leaves the records and the jobs as they are.
LEMMA CallsKeep ==
    ASSUME IInv, up = "up", NEW c \in Callers, NEW x \in [req : Requests \cup {NoReq}, blocked : BOOLEAN],
           calls' = [calls EXCEPT ![c] = x],
           UNCHANGED <<journalVars, ioVars, job, queueVars, recoveryVars, minted, lost, faults>>
    PROVE  IInv'
<1>1. EngineTypes'
  BY DEF IInv, Engine, EngineTypes
<1>2. minted' \in Nat /\ faults' \in Nat
  BY DEF IInv, RecoveryTypes
<1>3. RecoveryTypes' /\ Steady'
  BY <1>2, UpIsSteady
<1>4. OnFile' = OnFile
  BY DEF OnFile
<1>5. JournalTypes' /\ IoTypes' /\ SameReq'
  BY DEF IInv, Records, JournalTypes, IoTypes, SameReq
<1>6. Fresh'
  BY DEF IInv, Records, Fresh, Unused
<1>7. Durable'
  BY <1>4 DEF IInv, Records, Durable
<1>8. Jobs' /\ Queued' /\ OneWriterPerKey'
  BY DEF IInv, Engine, Jobs, Queued, Distinct, OneWriterPerKey, KeyAt
<1>9. Visible'
  BY <1>4 DEF IInv, Engine, Visible, Owed
<1>10. Past'
  BY <1>4 DEF IInv, Engine, Past, OverFor, Dropped
<1>11. QED
  BY <1>1, <1>3, <1>5, <1>6, <1>7, <1>8, <1>9, <1>10 DEF IInv, Records, Engine

LEMMA CallsMeanUp ==
    ASSUME IInv, NEW c \in Callers, calls[c].req # NoReq
    PROVE  up = "up" /\ calls[c].req \in Requests
BY DEF IInv, Steady, Resting, Engine, EngineTypes

LEMMA JobsMeanUp ==
    ASSUME IInv, NEW o \in Ids, job[o] # "none" \/ io[o] # "none"
    PROVE  /\ up = "up" /\ job[o] # "none" /\ writing[o] # NoRecord /\ writing[o] \in Whole
           /\ o <= minted
           /\ \A i \in DOMAIN pending : pending[i] # o
<1>1. up = "up"
  BY DEF IInv, Steady, Resting
<1>2. job[o] # "none" /\ writing[o] # NoRecord
  BY DEF IInv, Engine, Jobs, Quiet
<1>3. writing[o] \in Whole
  BY <1>2 DEF IInv, Records, IoTypes, Rec
<1>4. o <= minted
  BY <1>2 DEF IInv, Records, RecoveryTypes, Fresh, Unused, Ids
<1>5. \A i \in DOMAIN pending : pending[i] # o
  BY <1>2 DEF IInv, Engine, Queued
<1>6. QED
  BY <1>1, <1>2, <1>3, <1>4, <1>5

LEMMA SubmitKeeps ==
    ASSUME IInv, NEW c \in Callers, NEW r \in Requests, Submit(c, r)
    PROVE  IInv'
<1> DEFINE b == KeyOf[r] \in blocks
           x == [req |-> r, blocked |-> b]
<1>1. x \in [req : Requests \cup {NoReq}, blocked : BOOLEAN]
  <2>1. b \in BOOLEAN
    OBVIOUS
  <2> HIDE DEF b
  <2>2. QED
    BY <2>1
<1>2. calls' = [calls EXCEPT ![c] = x] /\ up = "up"
  BY DEF Submit
<1> HIDE DEF x
<1>3. QED
  BY <1>1, <1>2, CallsKeep DEF Submit

LEMMA SubmitRefusedKeeps ==
    ASSUME IInv, NEW c \in Callers, SubmitRefused(c)
    PROVE  IInv'
BY CallsKeep, CallsMeanUp DEF SubmitRefused, Return

LEMMA SubmitPassedKeeps ==
    ASSUME IInv, NEW c \in Callers, SubmitPassed(c)
    PROVE  IInv'
<1> DEFINE o == minted + 1
           r == calls[c].req
           recs == [entries EXCEPT ![o] = [status |-> "accepted", req |-> r]]
<1>1. up = "up" /\ r \in Requests
  BY CallsMeanUp DEF SubmitPassed
<1>2. /\ minted \in Nat /\ faults \in Nat /\ entries \in [Ids -> Rec] /\ Fresh /\ EngineTypes /\ Jobs
  BY DEF IInv, RecoveryTypes, Records, JournalTypes, Engine
<1>3. o \in Ids /\ o > minted /\ minted' = o /\ minted' \in Nat /\ minted <= minted' /\ o <= minted'
  <2>1. MaxOps \in Nat /\ minted < MaxOps
    BY NodeAssumption DEF SubmitPassed
  <2>2. QED
    BY <1>2, <2>1 DEF SubmitPassed, Ids
<1>4. Unused(o)
  BY <1>2, <1>3 DEF Fresh
<1>5. io[o] = "none" /\ job[o] = "none"
  BY <1>2, <1>3, <1>4 DEF Jobs, Unused, Quiet
<1>6. recs[o] = [status |-> "accepted", req |-> r] /\ recs[o] \in Whole
  BY <1>1, <1>2, <1>3 DEF Whole, Unfinished
<1>7. append({o}, recs) /\ job' = [job EXCEPT ![o] = "accept"]
      /\ UNCHANGED <<journalVars, queueVars, recoveryVars, lost, faults>>
  BY DEF SubmitPassed
<1> HIDE DEF recs, o
<1>8. Ends({})
  BY <1>7, NothingEnds
<1>9. Begins({}, {o}) /\ writing'[o] = recs[o]
  BY <1>3, <1>6, <1>7, <1>8, AppendBegins
<1>10. MayBegin({}, {o})
  BY <1>3, <1>4, <1>5 DEF MayBegin, Unused
<1>11. EngineTypes'
  <2>1. job' \in [Ids -> JobPc]
    BY <1>2, <1>7 DEF EngineTypes, JobPc
  <2>2. calls' \in [Callers -> [req : Requests \cup {NoReq}, blocked : BOOLEAN]]
    BY <1>2 DEF EngineTypes, SubmitPassed, Return
  <2>3. QED
    BY <1>2, <1>7, <2>1, <2>2 DEF EngineTypes
<1>12. \A i \in DOMAIN pending : pending[i] # o
  BY <1>4 DEF IInv, Engine, Queued, Unused
<1>13. o \notin running /\ Distinct(pending)
  BY <1>2, <1>3, <1>5 DEF Jobs, Active, IInv, Engine, Queued
<1>14. io'[o] # "none" /\ writing'[o] # NoRecord /\ writing'[o].status = "accepted"
  BY <1>6, <1>9 DEF Begins, NoRecord
<1>15. QED
  <2>1. "accept" \in JobPc \ {"start"} /\ "accept" \notin Quiet /\ "accept" \notin Active
    BY DEF JobPc, Quiet, Active
  <2>2. \A p \in Ids \ {o} : p \in running' <=> p \in running
    BY <1>7
  <2>3. \A i \in DOMAIN pending' : pending'[i] # o /\ \E j \in DOMAIN pending : pending'[i] = pending[j]
    BY <1>7, <1>12
  <2>4. o \notin running' /\ Distinct(pending') /\ faults' \in Nat
    BY <1>2, <1>7, <1>13
  <2>5. {} \in SUBSET {o} /\ {o} \in SUBSET {o} /\ o \in {} \cup {o}
    OBVIOUS
  <2> DEFINE D == {}
             S == {o}
  <2>6. D \in SUBSET {o} /\ S \in SUBSET {o} /\ o \in D \cup S /\ Ends(D) /\ Begins(D, S) /\ MayBegin(D, S)
    BY <1>8, <1>9, <1>10
  <2> HIDE DEF D, S
  <2>7. QED
    BY <1>1, <1>3, <1>7, <1>11, <1>14, <2>1, <2>2, <2>3, <2>4, <2>6, StepKeeps

LEMMA EnqueueKeeps ==
    ASSUME IInv, NEW o \in Ids, Enqueue(o)
    PROVE  IInv'
<1>1. /\ io[o] = "written" /\ job[o] = "accept" /\ Store(o)
      /\ pump(Append(pending, o), {o})
      /\ UNCHANGED <<calls, pumpDue, recoveryVars, minted, lost, faults>>
  BY DEF Enqueue, Over
<1>2. up = "up" /\ writing[o] # NoRecord /\ \A i \in DOMAIN pending : pending[i] # o
  BY <1>1, JobsMeanUp
<1>3. Ends({o})
  BY <1>1, StoreEnds
<1> DEFINE queue == Append(pending, o)
           n == Len(pending) + 1
<1>4. pending \in Seq(Ids) /\ Distinct(pending) /\ pumpDue \in BOOLEAN
  BY DEF IInv, Engine, EngineTypes, Queued
<1>5. /\ queue \in Seq(Ids) /\ DOMAIN queue = 1 .. n /\ queue[n] = o
      /\ \A i \in 1 .. n : i = n \/ (i \in DOMAIN pending /\ queue[i] = pending[i])
  BY <1>4
<1> HIDE DEF queue, n
<1>6. Distinct(queue)
  BY <1>2, <1>4, <1>5 DEF Distinct
<1>7. Ready(o, {o})
  <2>1. o \notin expired \ lost
    BY <1>1, PastIsQuiet
  <2>2. o \notin lost => OnFile[o] = writing[o]
    BY <1>1, <1>2 DEF IInv, Records, Durable
  <2>3. writing[o].status = "accepted"
    BY <1>1 DEF IInv, Engine, Jobs
  <2>4. QED
    BY <1>2, <2>1, <2>2, <2>3 DEF Ready, Unfinished
<1>8. \A i \in DOMAIN queue : Ready(queue[i], {o})
  <2> TAKE i \in DOMAIN queue
  <2>1. CASE i = n
    BY <1>5, <1>7, <2>1
  <2>2. CASE i \in DOMAIN pending /\ queue[i] = pending[i]
    BY <2>2, PendingIsReady
  <2>3. QED
    BY <1>5, <2>1, <2>2
<1>9. pump(queue, {o})
  BY <1>1 DEF queue
<1>10. QED
  BY <1>1, <1>2, <1>3, <1>4, <1>5, <1>6, <1>8, <1>9, PumpKeeps

LEMMA PumpActionKeeps ==
    ASSUME IInv, Pump
    PROVE  IInv'
<1>1. /\ pumpDue /\ pump(pending, {}) /\ pumpDue' = FALSE
      /\ UNCHANGED <<journalVars, calls, recoveryVars, minted, lost, faults>>
  BY DEF Pump
<1>2. up = "up"
  BY <1>1 DEF IInv, Steady, Resting
<1>3. Ends({})
  BY <1>1, NothingEnds
<1>4. pending \in Seq(Ids) /\ Distinct(pending)
  BY DEF IInv, Engine, EngineTypes, Queued
<1>5. \A i \in DOMAIN pending : Ready(pending[i], {})
  BY PendingIsReady
<1>6. QED
  BY <1>1, <1>2, <1>3, <1>4, <1>5, PumpKeeps

\* What a step of one job keeps of the queue.
LEMMA SameQueue ==
    ASSUME IInv, NEW o \in Ids, job[o] # "none", pending' = pending
    PROVE  /\ Distinct(pending')
           /\ \A i \in DOMAIN pending' : pending'[i] # o
                                         /\ \E j \in DOMAIN pending : pending'[i] = pending[j]
<1>1. Distinct(pending) /\ \A i \in DOMAIN pending : pending[i] # o
  BY JobsMeanUp DEF IInv, Engine, Queued
<1>2. QED
  BY <1>1

LEMMA JobTypes ==
    ASSUME IInv, NEW o \in Ids, NEW pc \in JobPc, job' = [job EXCEPT ![o] = pc],
           pending' \in Seq(Ids), running' \subseteq Ids, pumpDue' \in BOOLEAN, calls' = calls
    PROVE  EngineTypes'
BY DEF IInv, Engine, EngineTypes

\* The append of o is over and its job goes on without another.
LEMMA EndKeeps ==
    ASSUME IInv, NEW o \in Ids, Ends({o}), Idle(o), job[o] # "none",
           NEW pc \in {"none", "effect"}, job' = [job EXCEPT ![o] = pc],
           pc = "effect" => job[o] = "start",
           running' = (IF pc = "none" THEN running \ {o} ELSE running), pumpDue' \in BOOLEAN,
           UNCHANGED <<writing, kept, calls, pending, recoveryVars, minted>>, faults' \in Nat
    PROVE  IInv'
<1>1. up = "up" /\ writing[o] # NoRecord
  BY JobsMeanUp
<1>2. Begins({o}, {}) /\ MayBegin({o}, {}) /\ io'[o] = "none"
  BY NoneBegin
<1>3. /\ Distinct(pending')
      /\ \A i \in DOMAIN pending' : pending'[i] # o
                                    /\ \E j \in DOMAIN pending : pending'[i] = pending[j]
  BY SameQueue
<1>4. pc \in JobPc \ {"start"} /\ pc \in Quiet /\ (pc \in Active <=> pc = "effect")
  BY DEF JobPc, Quiet, Active
<1>5. EngineTypes /\ Jobs /\ minted \in Nat
  BY DEF IInv, Engine, RecoveryTypes
<1>6. EngineTypes'
  BY <1>4, <1>5, JobTypes DEF EngineTypes
<1>7. \A p \in Ids \ {o} : p \in running' <=> p \in running
  OBVIOUS
<1>8. o \in running' <=> pc \in Active
  BY <1>4, <1>5 DEF Jobs, Active
<1>9. pc \in Active => job[o] \in Active /\ writing'[o].req = writing[o].req
  BY <1>4 DEF Active
<1>10. minted' \in Nat /\ minted <= minted'
  BY <1>5
<1> DEFINE D == {o}
           S == {}
<1>11. D \in SUBSET {o} /\ S \in SUBSET {o} /\ o \in D \cup S /\ Ends(D) /\ Begins(D, S) /\ MayBegin(D, S)
  BY <1>2
<1> HIDE DEF D, S
<1>12. QED
  BY <1>1, <1>2, <1>3, <1>4, <1>6, <1>7, <1>8, <1>9, <1>10, <1>11, StepKeeps

LEMMA AnsweredKeeps ==
    ASSUME IInv, NEW o \in Ids, Answered(o)
    PROVE  IInv'
<1>1. Ends({o}) /\ pumpDue \in BOOLEAN /\ faults' \in Nat
  BY StoreEnds DEF Answered, IInv, Engine, EngineTypes, RecoveryTypes
<1>2. o \notin running /\ job[o] # "none"
  BY DEF Answered, IInv, Engine, Jobs, Active
<1>3. QED
  BY <1>1, <1>2, EndKeeps DEF Answered

LEMMA RunEffectKeeps ==
    ASSUME IInv, NEW o \in Ids, RunEffect(o)
    PROVE  IInv'
<1>1. Ends({o}) /\ pumpDue \in BOOLEAN /\ faults' \in Nat
  BY StoreEnds DEF RunEffect, Over, IInv, Engine, EngineTypes, RecoveryTypes
<1>2. QED
  BY <1>1, EndKeeps DEF RunEffect, Over

LEMMA FinishKeeps ==
    ASSUME IInv, NEW o \in Ids, Finish(o)
    PROVE  IInv'
<1>1. Ends({o}) /\ faults' \in Nat
  BY StoreEnds DEF Finish, Over, IInv, RecoveryTypes
<1>2. QED
  BY <1>1, EndKeeps DEF Finish, Over

\* A job that appends the next status of its operation.
LEMMA TransitionKeeps ==
    ASSUME IInv, NEW o \in Ids, NEW D \in SUBSET {o}, Ends(D), o \in D \/ io[o] = "none",
           writing[o] # NoRecord, o \notin expired \ lost, up = "up",
           NEW status \in Unfinished \cup Terminal, transition(o, status),
           NEW pc \in {"reject", "finish", "cancel"}, job' = [job EXCEPT ![o] = pc],
           pc = "finish" <=> job[o] \in Active,
           pending' \in Seq(Ids), Distinct(pending'),
           \A i \in DOMAIN pending' : pending'[i] # o /\ \E j \in DOMAIN pending : pending'[i] = pending[j],
           UNCHANGED <<calls, running, pumpDue, recoveryVars, minted, faults>>
    PROVE  IInv'
<1> DEFINE recs == [writing EXCEPT ![o].status = status]
<1>1. EngineTypes /\ Jobs /\ minted \in Nat /\ faults' \in Nat /\ IoTypes /\ Fresh
  BY DEF IInv, Engine, RecoveryTypes, Records
<1>2. writing[o] \in Whole
  BY <1>1 DEF IoTypes, Rec
<1>3. recs[o] \in Whole /\ recs[o].req = writing[o].req /\ recs[o] # NoRecord
  <2>1. recs[o] = [writing[o] EXCEPT !.status = status]
    BY <1>1 DEF IoTypes
  <2>2. [writing[o] EXCEPT !.status = status] = [status |-> status, req |-> writing[o].req]
    BY <1>2 DEF Whole
  <2>3. status # "none" /\ writing[o].req \in Requests
    BY <1>2 DEF Whole, Unfinished, Terminal
  <2> HIDE DEF recs
  <2>4. QED
    BY <2>1, <2>2, <2>3 DEF Whole, NoRecord
<1>4. append({o}, recs)
  BY DEF transition
<1> HIDE DEF recs
<1>5. Begins(D, {o}) /\ writing'[o] = recs[o]
  BY <1>3, <1>4, AppendBegins
<1>6. o <= minted'
  BY <1>1 DEF Fresh, Unused, Ids
<1>7. MayBegin(D, {o})
  BY <1>3, <1>5, <1>6 DEF MayBegin
<1>8. pc \in JobPc \ {"start"} /\ pc \notin Quiet /\ (pc \in Active <=> pc = "finish")
  BY DEF JobPc, Quiet, Active
<1>9. EngineTypes'
  BY <1>1, <1>8, JobTypes DEF EngineTypes
<1>10. \A p \in Ids \ {o} : p \in running' <=> p \in running
  OBVIOUS
<1>11. o \in running' <=> pc \in Active
  BY <1>1, <1>8 DEF Jobs
<1>12. pc \in Active => job[o] \in Active /\ writing'[o].req = writing[o].req
  BY <1>3, <1>5, <1>8
<1>13. minted' \in Nat /\ minted <= minted'
  BY <1>1
<1>14. io'[o] # "none" /\ writing'[o] # NoRecord
  BY <1>3, <1>5 DEF Begins
<1> DEFINE S == {o}
<1>15. S \in SUBSET {o} /\ o \in D \cup S /\ Begins(D, S) /\ MayBegin(D, S)
  BY <1>5, <1>7
<1> HIDE DEF S
<1>16. QED
  BY <1>1, <1>8, <1>9, <1>10, <1>11, <1>12, <1>13, <1>14, <1>15, StepKeeps

LEMMA EnqueueRefusedKeeps ==
    ASSUME IInv, NEW o \in Ids, EnqueueRefused(o)
    PROVE  IInv'
<1>1. /\ job[o] = "accept" /\ Store(o) /\ transition(o, "failed")
      /\ job' = [job EXCEPT ![o] = "reject"]
      /\ UNCHANGED <<calls, queueVars, recoveryVars, minted, lost, faults>>
  BY DEF EnqueueRefused, Over
<1>2. Ends({o})
  BY <1>1, StoreEnds
<1>3. up = "up" /\ writing[o] # NoRecord
  BY <1>1, JobsMeanUp
<1>4. o \notin expired \ lost
  BY <1>1, PastIsQuiet DEF OverFor
<1>5. /\ Distinct(pending')
      /\ \A i \in DOMAIN pending' : pending'[i] # o
                                    /\ \E j \in DOMAIN pending : pending'[i] = pending[j]
  BY <1>1, SameQueue
<1>6. pending' \in Seq(Ids) /\ job[o] \notin Active /\ "failed" \in Unfinished \cup Terminal
  BY <1>1 DEF IInv, Engine, EngineTypes, Active, Terminal
<1>7. QED
  BY <1>1, <1>2, <1>3, <1>4, <1>5, <1>6, TransitionKeeps

LEMMA EffectEndsKeeps ==
    ASSUME IInv, NEW o \in Ids, EffectEnds(o)
    PROVE  IInv'
<1>1. PICK outcome \in Outcomes : transition(o, outcome)
  BY DEF EffectEnds
<1>2. /\ job[o] = "effect" /\ job' = [job EXCEPT ![o] = "finish"]
      /\ UNCHANGED <<journalVars, calls, queueVars, recoveryVars, minted, lost, faults>>
  BY DEF EffectEnds
<1>3. Ends({})
  BY <1>2, NothingEnds
<1>4. up = "up" /\ writing[o] # NoRecord
  BY <1>2, JobsMeanUp
<1>5. o \notin expired \ lost /\ io[o] = "none"
  BY <1>2, PastIsQuiet DEF OverFor, IInv, Engine, Jobs, Quiet
<1>6. /\ Distinct(pending')
      /\ \A i \in DOMAIN pending' : pending'[i] # o
                                    /\ \E j \in DOMAIN pending : pending'[i] = pending[j]
  BY <1>2, SameQueue
<1>7. pending' \in Seq(Ids) /\ job[o] \in Active /\ outcome \in Unfinished \cup Terminal
  BY <1>2, NodeAssumption DEF IInv, Engine, EngineTypes, Active, Terminal
<1> DEFINE D == {}
<1>8. D \in SUBSET {o} /\ Ends(D)
  BY <1>3
<1> HIDE DEF D
<1>9. QED
  BY <1>1, <1>2, <1>4, <1>5, <1>6, <1>7, <1>8, TransitionKeeps

LEMMA OneTaken ==
    ASSUME NEW s \in Seq(Ids), NEW k \in DOMAIN s, NEW q, q = RemoveAt(s, k)
    PROVE  /\ q \in Seq(Ids)
           /\ \A i \in DOMAIN q : \E j \in DOMAIN s :
                  j # k /\ q[i] = s[j] /\ j = IF i < k THEN i ELSE i + 1
<1> DEFINE a == SubSeq(s, 1, k - 1)
           b == SubSeq(s, k + 1, Len(s))
<1>1. k \in 1 .. Len(s) /\ Len(s) \in Nat /\ DOMAIN s = 1 .. Len(s)
  OBVIOUS
<1>2. a \in Seq(Ids) /\ Len(a) = k - 1 /\ \A i \in 1 .. k - 1 : a[i] = s[i]
  BY <1>1, SubSeqProperties
<1>3. b \in Seq(Ids) /\ Len(b) = Len(s) - k /\ \A i \in 1 .. Len(s) - k : b[i] = s[k + i]
  BY <1>1, SubSeqProperties
<1>4. q = a \o b
  BY DEF RemoveAt
<1> HIDE DEF a, b
<1>5. q \in Seq(Ids) /\ DOMAIN q = 1 .. Len(s) - 1
  <2>1. q \in Seq(Ids) /\ Len(q) = Len(a) + Len(b)
    BY <1>2, <1>3, <1>4, ConcatProperties
  <2>2. Len(q) = Len(s) - 1
    BY <1>1, <1>2, <1>3, <2>1
  <2>3. QED
    BY <2>1, <2>2
<1>6. ASSUME NEW i \in DOMAIN q
      PROVE  \E j \in DOMAIN s : j # k /\ q[i] = s[j] /\ j = IF i < k THEN i ELSE i + 1
  <2>1. i \in 1 .. Len(s) - 1
    BY <1>5
  <2>2. CASE i < k
    <3>1. q[i] = a[i] /\ a[i] = s[i]
      BY <1>1, <1>2, <1>3, <1>4, <2>1, <2>2
    <3>2. QED
      BY <1>1, <2>1, <2>2, <3>1
  <2>3. CASE ~ (i < k)
    <3>1. q[i] = b[i - (k - 1)] /\ i - (k - 1) \in 1 .. Len(s) - k
      BY <1>1, <1>2, <1>3, <1>4, <2>1, <2>3, SMTT(30)
    <3>2. b[i - (k - 1)] = s[i + 1]
      <4>1. k + (i - (k - 1)) = i + 1
        BY <1>1, <2>1
      <4>2. QED
        BY <1>3, <3>1, <4>1
    <3>3. QED
      BY <1>1, <2>1, <2>3, <3>1, <3>2
  <2>4. QED
    BY <2>2, <2>3
<1>7. QED
  BY <1>5, <1>6

LEMMA CancelKeeps ==
    ASSUME IInv, NEW o \in Ids, Cancel(o)
    PROVE  IInv'
<1>1. PICK k \in DOMAIN pending : pending[k] = o /\ pending' = RemoveAt(pending, k)
  BY DEF Cancel
<1>2. /\ transition(o, "cancelled") /\ job' = [job EXCEPT ![o] = "cancel"]
      /\ UNCHANGED <<journalVars, calls, running, pumpDue, recoveryVars, minted, lost, faults>>
  BY DEF Cancel
<1>3. Ends({})
  BY <1>2, NothingEnds
<1>4. /\ pending \in Seq(Ids) /\ Distinct(pending)
      /\ job[o] = "none" /\ writing[o] # NoRecord
  BY <1>1 DEF IInv, Engine, EngineTypes, Queued
<1>5. o \notin expired \ lost /\ io[o] = "none" /\ job[o] \notin Active
  BY <1>1, <1>4, PastIsQuiet DEF OverFor, IInv, Engine, Jobs, Quiet, Active
<1>6. up = "up"
  BY <1>1 DEF IInv, Steady, Resting
<1> DEFINE q == RemoveAt(pending, k)
<1>7. q \in Seq(Ids) /\ \A i \in DOMAIN q : \E j \in DOMAIN pending : j # k /\ q[i] = pending[j]
                                           /\ j = IF i < k THEN i ELSE i + 1
  BY <1>4, OneTaken
<1> HIDE DEF q
<1>8. pending' = q
  BY <1>1 DEF q
<1>9. \A i \in DOMAIN q : q[i] # o
  BY <1>1, <1>4, <1>7 DEF Distinct
<1>10. Distinct(q)
  <2> SUFFICES ASSUME NEW i \in DOMAIN q, NEW j \in DOMAIN q, i # j PROVE q[i] # q[j]
    BY DEF Distinct
  <2>1. PICK a \in DOMAIN pending : q[i] = pending[a] /\ a = IF i < k THEN i ELSE i + 1
    BY <1>7
  <2>2. PICK b \in DOMAIN pending : q[j] = pending[b] /\ b = IF j < k THEN j ELSE j + 1
    BY <1>7
  <2>3. i \in Nat /\ j \in Nat /\ k \in Nat
    BY <1>4, <1>7
  <2>4. a # b
    BY <2>1, <2>2, <2>3
  <2>5. QED
    BY <1>4, <2>1, <2>2, <2>4 DEF Distinct
<1>11. "cancelled" \in Unfinished \cup Terminal
  BY DEF Terminal
<1> DEFINE D == {}
<1>12. D \in SUBSET {o} /\ Ends(D)
  BY <1>3
<1> HIDE DEF D
<1>13. /\ pending' \in Seq(Ids) /\ Distinct(pending')
       /\ \A i \in DOMAIN pending' : pending'[i] # o
                                     /\ \E j \in DOMAIN pending : pending'[i] = pending[j]
  BY <1>7, <1>8, <1>9, <1>10
<1>14. QED
  BY <1>2, <1>4, <1>5, <1>6, <1>11, <1>12, <1>13, TransitionKeeps

---------------------------------------------------------------------------
(* The steps of an append, and of the compaction before it.                *)

\* A step that leaves the engine as it is: what is still to be shown are the records.
LEMMA EngineStays ==
    ASSUME IInv, up = "up", UNCHANGED <<calls, job, queueVars, recoveryVars, minted, writing>>,
           faults' \in Nat,
           Records', \A o \in Ids : io'[o] = "none" <=> io[o] = "none",
           \A o \in Ids \ lost' : o \notin lost /\ (Owed(o) => OnFile'[o].status \in Unfinished),
           \A o \in expired' \ lost' : OverFor(o) /\ Dropped(o)'
    PROVE  IInv'
<1>1. toRecover = {}
  BY DEF IInv, Steady
<1>2. RecoveryTypes' /\ Steady'
  BY <1>1 DEF IInv, RecoveryTypes, Steady
<1>3. EngineTypes' /\ Jobs' /\ Queued' /\ OneWriterPerKey'
  BY DEF IInv, Engine, EngineTypes, Jobs, Queued, Distinct, OneWriterPerKey, KeyAt
<1>4. \A o \in Ids : Owed(o)' = Owed(o) /\ OverFor(o)' = OverFor(o)
  BY DEF Owed, OverFor
<1>5. Visible'
  BY <1>4 DEF Visible
<1>6. Past'
  <2>1. expired' \subseteq Ids
    BY DEF Records, JournalTypes
  <2>2. QED
    BY <1>4, <2>1 DEF Past
<1>7. QED
  BY <1>2, <1>3, <1>5, <1>6 DEF IInv, Engine

\* What the invariant says of the records and of what is owed.
LEMMA InvariantSays ==
    ASSUME IInv
    PROVE  /\ JournalTypes /\ IoTypes /\ Fresh /\ SameReq /\ Durable /\ Jobs /\ Visible
           /\ \A o \in expired \ lost : o \in Ids /\ io[o] = "none" /\ OverFor(o) /\ Dropped(o)
           /\ minted \in Nat
BY PastIsQuiet DEF IInv, Records, Engine, RecoveryTypes

LEMMA CompactWriteKeeps ==
    ASSUME IInv, NEW o \in Ids, CompactWrite(o)
    PROVE  IInv'
<1>1. /\ io[o] = "compact" /\ tmp' = kept[o] /\ io' = [io EXCEPT ![o] = "rename"]
      /\ UNCHANGED <<file, torn, entries, bytes, expired, writing, kept, calls, job, queueVars,
                     recoveryVars, minted, lost, faults>>
  BY DEF CompactWrite
<1>2. /\ JournalTypes /\ IoTypes /\ Fresh /\ SameReq /\ Durable /\ Jobs /\ Visible
      /\ \A p \in expired \ lost : p \in Ids /\ io[p] = "none" /\ OverFor(p) /\ Dropped(p)
  BY InvariantSays
<1>3. up = "up" /\ faults \in Nat
  BY <1>1, JobsMeanUp DEF IInv, RecoveryTypes
<1>4. /\ io'[o] = "rename" /\ \A p \in Ids \ {o} : io'[p] = io[p]
      /\ kept[o] \in [Ids -> Rec] /\ OnFile' = OnFile
  BY <1>1, <1>2 DEF IoTypes, OnFile
<1>5. JournalTypes'
  BY <1>1, <1>2, <1>4 DEF JournalTypes
<1>6. IoTypes' /\ SameReq'
  BY <1>1, <1>2 DEF IoTypes, IoPc, SameReq
<1>7. Fresh'
  BY <1>1, <1>2 DEF Fresh, Unused
<1>8. Durable'
  BY <1>1, <1>2, <1>4 DEF Durable
<1>9. \A p \in expired' \ lost' : OverFor(p) /\ Dropped(p)'
  <2> SUFFICES ASSUME NEW p \in expired \ lost PROVE Dropped(p)'
    BY <1>1, <1>2
  <2>1. p \in Ids /\ Dropped(p)
    BY <1>2
  <2>2. kept[o][p] = NoRecord
    BY <1>1, <2>1 DEF Dropped, Compacting
  <2>3. \A q \in Ids : /\ io'[q] \in Compacting => kept'[q][p] = NoRecord
                       /\ io'[q] = "renamed" => OnFile'[p] = NoRecord
    BY <1>1, <1>4, <2>1, <2>2 DEF Dropped
  <2>4. OnFile'[p].status \notin Unfinished /\ entries'[p].status \notin Unfinished
    BY <1>1, <1>4, <2>1 DEF Dropped
  <2>5. tmp'[p] = NoRecord
    BY <1>1, <2>2
  <2>6. QED
    BY <2>3, <2>4, <2>5 DEF Dropped
<1>10. \A p \in Ids : io'[p] = "none" <=> io[p] = "none"
  BY <1>1, <1>4
<1>11. \A p \in Ids \ lost' : p \notin lost /\ (Owed(p) => OnFile'[p].status \in Unfinished)
  BY <1>1, <1>2, <1>4 DEF Visible
<1>12. QED
  BY <1>1, <1>3, <1>5, <1>6, <1>7, <1>8, <1>9, <1>10, <1>11, EngineStays DEF Records

\* A record that one file or map has and the other has not, and that was not destroyed,
\* was one that a compaction may drop.
LEMMA NotDestroyed ==
    ASSUME NEW before, NEW after, NEW o \in Ids, o \notin Destroyed(before, after)
    PROVE  after[o] = before[o] \/ (after[o] = NoRecord /\ o \in expired /\ before[o].status \in Terminal)
BY DEF Destroyed, Prunable, mayPruneRecord

LEMMA CompactRenameKeeps ==
    ASSUME IInv, NEW o \in Ids, CompactRename(o)
    PROVE  IInv'
<1>1. /\ io[o] = "rename" /\ tmp # NoFile
      /\ file' = LinesOf(tmp) /\ torn' = FALSE /\ tmp' = NoFile
      /\ io' = [io EXCEPT ![o] = "renamed"]
      /\ lost' = lost \cup Destroyed(OnFile, tmp)
      /\ UNCHANGED <<entries, bytes, expired, writing, kept, calls, job, queueVars, recoveryVars,
                     minted, faults>>
  BY DEF CompactRename, OnFile
<1>2. /\ JournalTypes /\ IoTypes /\ Fresh /\ SameReq /\ Durable /\ Jobs /\ Visible
      /\ \A p \in expired \ lost : p \in Ids /\ io[p] = "none" /\ OverFor(p) /\ Dropped(p)
  BY InvariantSays
<1>3. up = "up" /\ faults \in Nat
  BY <1>1, JobsMeanUp DEF IInv, RecoveryTypes
<1>4. io'[o] = "renamed" /\ \A p \in Ids \ {o} : io'[p] = io[p]
  BY <1>1, <1>2 DEF IoTypes
<1>5. tmp \in [Ids -> Rec]
  BY <1>1, <1>2 DEF JournalTypes
<1>6. /\ file' \in Seq(Lines) /\ OnFile' = tmp
      /\ \A i \in DOMAIN file' : tmp[file'[i].op] # NoRecord
  BY <1>1, <1>5, LinesSay DEF OnFile
<1>7. JournalTypes'
  <2>1. lost' \subseteq Ids
    BY <1>1, <1>2 DEF JournalTypes, Destroyed
  <2>2. QED
    BY <1>1, <1>2, <1>6, <2>1 DEF JournalTypes
<1>8. IoTypes' /\ SameReq'
  BY <1>1, <1>2 DEF IoTypes, IoPc, SameReq
<1>9. Fresh'
  BY <1>1, <1>2, <1>6 DEF Fresh, Unused
<1>10. \A p \in Ids \ lost' :
           /\ p \notin lost
           /\ \/ tmp[p] = OnFile[p]
              \/ tmp[p] = NoRecord /\ p \in expired /\ OnFile[p].status \in Terminal
  BY <1>1, NotDestroyed
<1>11. Durable'
  <2> SUFFICES ASSUME NEW p \in Ids, p \notin lost'
               PROVE  IF io'[p] = "written" THEN OnFile'[p] = writing'[p]
                      ELSE \/ entries'[p] = OnFile'[p]
                           \/ p \in expired' /\ \E q \in Ids : io'[q] = "renamed"
    BY DEF Durable
  <2>1. CASE p \in expired
    <3>1. io[p] = "none"
      BY <1>2, <1>10, <2>1
    <3>2. QED
      BY <1>1, <1>4, <2>1, <3>1
  <2>2. CASE p \notin expired
    <3>1. OnFile'[p] = OnFile[p] /\ p \notin lost
      BY <1>6, <1>10, <2>2
    <3>2. IF io[p] = "written" THEN OnFile[p] = writing[p] ELSE entries[p] = OnFile[p]
      BY <1>2, <1>3, <2>2, <3>1 DEF Durable
    <3>3. io'[p] = "written" <=> io[p] = "written"
      BY <1>1, <1>4
    <3>4. QED
      BY <1>1, <3>1, <3>2, <3>3
  <2>3. QED
    BY <2>1, <2>2
<1>12. \A p \in expired' \ lost' : OverFor(p) /\ Dropped(p)'
  <2> SUFFICES ASSUME NEW p \in expired, p \notin lost' PROVE OverFor(p) /\ Dropped(p)'
    BY <1>1
  <2>1. p \in Ids /\ OverFor(p) /\ Dropped(p)
    BY <1>1, <1>2
  <2>2. tmp[p] = NoRecord
    BY <1>1, <2>1 DEF Dropped
  <2>3. NoRecord.status \notin Unfinished
    BY DEF NoRecord, Unfinished
  <2>4. \A q \in Ids : io'[q] \in Compacting => kept'[q][p] = NoRecord
    BY <1>1, <1>4, <2>1 DEF Dropped, Compacting
  <2>5. QED
    BY <1>1, <1>6, <2>1, <2>2, <2>3, <2>4 DEF Dropped
<1>13. \A p \in Ids : io'[p] = "none" <=> io[p] = "none"
  BY <1>1, <1>4
<1>14. \A p \in Ids \ lost' : p \notin lost /\ (Owed(p) => OnFile'[p].status \in Unfinished)
  BY <1>2, <1>6, <1>10 DEF Visible, Terminal, Unfinished
<1>15. QED
  BY <1>1, <1>3, <1>7, <1>8, <1>9, <1>11, <1>12, <1>13, <1>14, EngineStays DEF Records

LEMMA CompactDoneKeeps ==
    ASSUME IInv, NEW o \in Ids, CompactDone(o)
    PROVE  IInv'
<1> DEFINE keep == kept[o]
<1>1. /\ io[o] = "renamed" /\ entries' = keep /\ bytes' = Cardinality(Known(keep))
      /\ lost' = lost \cup Destroyed(entries, keep)
      /\ kept' = [kept EXCEPT ![o] = Empty]
      /\ UNCHANGED <<file, torn, tmp, expired, writing, calls, job, queueVars, recoveryVars,
                     minted, faults>>
  BY DEF CompactDone
<1>2. PICK pc \in {"full", "write"} : io' = [io EXCEPT ![o] = pc]
  BY DEF CompactDone
<1>3. /\ JournalTypes /\ IoTypes /\ Fresh /\ SameReq /\ Durable /\ Jobs /\ Visible
      /\ \A p \in expired \ lost : p \in Ids /\ io[p] = "none" /\ OverFor(p) /\ Dropped(p)
  BY InvariantSays
<1>4. up = "up" /\ faults \in Nat
  BY <1>1, JobsMeanUp DEF IInv, RecoveryTypes
<1>5. io'[o] = pc /\ \A p \in Ids \ {o} : io'[p] = io[p]
  BY <1>2, <1>3 DEF IoTypes
<1>6. keep \in [Ids -> Rec] /\ OnFile' = OnFile
  BY <1>1, <1>3 DEF IoTypes, OnFile
<1>7. kept'[o] = Empty /\ \A p \in Ids \ {o} : kept'[p] = kept[p]
  BY <1>1, <1>3 DEF IoTypes
<1>8. \A p \in Ids : Empty[p] = NoRecord
  BY DEF Empty
<1> HIDE DEF keep
<1>9. JournalTypes'
  <2>1. bytes' \in Nat
    BY <1>1, <1>6, RankEnumerates
  <2>2. lost' \subseteq Ids
    BY <1>1, <1>3 DEF JournalTypes, Destroyed
  <2>3. QED
    BY <1>1, <1>3, <1>6, <2>1, <2>2 DEF JournalTypes
<1>10. IoTypes'
  <2>1. Empty \in [Ids -> Rec]
    BY DEF Empty, Rec
  <2>2. {"full", "write"} \subseteq IoPc
    BY DEF IoPc
  <2>3. QED
    BY <1>1, <1>2, <1>3, <2>1, <2>2 DEF IoTypes
<1>11. \A p, q \in Ids : kept'[q][p] \in {kept[q][p], NoRecord}
  <2> TAKE p, q \in Ids
  <2>1. CASE q = o
    BY <1>7, <1>8, <2>1
  <2>2. CASE q # o
    BY <1>7, <2>2
  <2>3. QED
    BY <2>1, <2>2
<1>12. SameReq'
  <2> SUFFICES ASSUME NEW p \in Ids, writing[p] # NoRecord
               PROVE  /\ keep[p].req \in {NoReq, writing[p].req}
                      /\ \A q \in Ids : kept'[q][p].req \in {NoReq, writing[p].req}
    BY <1>1 DEF SameReq
  <2>1. \A q \in Ids : kept[q][p].req \in {NoReq, writing[p].req}
    BY <1>3 DEF SameReq
  <2>2. NoRecord.req = NoReq
    BY DEF NoRecord
  <2>3. QED
    BY <1>11, <2>1, <2>2 DEF keep
<1>13. Fresh'
  <2> SUFFICES ASSUME NEW p \in Ids, p > minted PROVE Unused(p)'
    BY <1>1 DEF Fresh
  <2>1. Unused(p)
    BY <1>3 DEF Fresh
  <2>2. entries'[p] = NoRecord /\ \A q \in Ids : kept'[q][p] = NoRecord
    BY <1>1, <1>11, <2>1 DEF Unused, keep
  <2>3. QED
    BY <1>1, <2>1, <2>2 DEF Unused
<1>14. \A p \in Ids \ lost' :
           /\ p \notin lost
           /\ \/ keep[p] = entries[p]
              \/ keep[p] = NoRecord /\ p \in expired /\ entries[p].status \in Terminal
  BY <1>1, NotDestroyed
<1>15. \A p \in expired \ lost : keep[p] = NoRecord /\ OnFile[p] = NoRecord
  BY <1>1, <1>3 DEF Dropped, Compacting, keep
<1>16. Durable'
  <2> SUFFICES ASSUME NEW p \in Ids, p \notin lost'
               PROVE  IF io'[p] = "written" THEN OnFile'[p] = writing'[p]
                      ELSE \/ entries'[p] = OnFile'[p]
                           \/ p \in expired' /\ \E q \in Ids : io'[q] = "renamed"
    BY DEF Durable
  <2>1. CASE p \in expired
    <3>1. io'[p] # "written"
      BY <1>3, <1>5, <1>14, <2>1
    <3>2. QED
      BY <1>1, <1>6, <1>14, <1>15, <2>1, <3>1
  <2>2. CASE p \notin expired
    <3>1. keep[p] = entries[p] /\ p \notin lost
      BY <1>14, <2>2
    <3>2. IF io[p] = "written" THEN OnFile[p] = writing[p] ELSE entries[p] = OnFile[p]
      BY <1>3, <1>4, <2>2, <3>1 DEF Durable
    <3>3. io'[p] = "written" <=> io[p] = "written"
      BY <1>1, <1>5
    <3>4. QED
      BY <1>1, <1>6, <3>1, <3>2, <3>3
  <2>3. QED
    BY <2>1, <2>2
<1>17. \A p \in expired' \ lost' : OverFor(p) /\ Dropped(p)'
  <2> SUFFICES ASSUME NEW p \in expired, p \notin lost' PROVE OverFor(p) /\ Dropped(p)'
    BY <1>1
  <2>1. p \in Ids /\ OverFor(p) /\ Dropped(p) /\ p \notin lost
    BY <1>1, <1>3
  <2>2. NoRecord.status \notin Unfinished
    BY DEF NoRecord, Unfinished
  <2>3. entries'[p].status \notin Unfinished /\ OnFile'[p].status \notin Unfinished
    BY <1>1, <1>6, <1>15, <2>1, <2>2
  <2>4. \A q \in Ids : io'[q] \in Compacting => q # o /\ io'[q] = io[q] /\ kept'[q] = kept[q]
    BY <1>5, <1>7 DEF Compacting
  <2>5. \A q \in Ids : /\ io'[q] \in Compacting => kept'[q][p] = NoRecord
                       /\ io'[q] = "rename" /\ tmp' # NoFile => tmp'[p] = NoRecord
                       /\ io'[q] = "renamed" => OnFile'[p] = NoRecord
    BY <1>1, <1>6, <2>1, <2>4 DEF Dropped, Compacting
  <2>6. QED
    BY <2>1, <2>3, <2>5 DEF Dropped
<1>18. \A p \in Ids : io'[p] = "none" <=> io[p] = "none"
  BY <1>1, <1>5
<1>19. \A p \in Ids \ lost' : p \notin lost /\ (Owed(p) => OnFile'[p].status \in Unfinished)
  BY <1>3, <1>6, <1>14 DEF Visible
<1>20. QED
  BY <1>1, <1>4, <1>9, <1>10, <1>12, <1>13, <1>16, <1>17, <1>18, <1>19, EngineStays DEF Records

LEMMA AppendWriteKeeps ==
    ASSUME IInv, NEW o \in Ids, AppendWrite(o)
    PROVE  IInv'
<1>1. /\ io[o] = "write" /\ file' = Appended(o, writing[o]) /\ torn' = FALSE
      /\ lost' = lost \cup GluedWith(o) /\ io' = [io EXCEPT ![o] = "written"]
      /\ UNCHANGED <<tmp, entries, bytes, expired, writing, kept, calls, job, queueVars,
                     recoveryVars, minted, faults>>
  BY DEF AppendWrite
<1>2. /\ JournalTypes /\ IoTypes /\ Fresh /\ SameReq /\ Durable /\ Jobs /\ Visible
      /\ \A p \in expired \ lost : p \in Ids /\ io[p] = "none" /\ OverFor(p) /\ Dropped(p)
      /\ minted \in Nat
  BY InvariantSays
<1>3. /\ up = "up" /\ faults \in Nat /\ writing[o] \in Whole /\ o <= minted
      /\ \A i \in DOMAIN pending : pending[i] # o
  BY <1>1, JobsMeanUp DEF IInv, RecoveryTypes
<1>4. io'[o] = "written" /\ \A p \in Ids \ {o} : io'[p] = io[p]
  BY <1>1, <1>2 DEF IoTypes
<1>5. /\ file' \in Seq(Lines) /\ file' # <<>>
      /\ \A p \in Ids : \/ p \in GluedWith(o)
                        \/ OnFile'[p] = IF p = o THEN writing[o] ELSE OnFile[p]
      /\ \A i \in DOMAIN file' : file'[i].op \in {0, o} \/ (i \in DOMAIN file /\ file'[i] = file[i])
  <2> DEFINE g == Appended(o, writing[o])
  <2>1. file \in Seq(Lines) /\ (torn => file # <<>>)
    BY <1>2 DEF JournalTypes
  <2>2. /\ g \in Seq(Lines) /\ g # <<>>
        /\ \A p \in Ids : \/ p \in GluedWith(o)
                          \/ Loaded(g)[p] = IF p = o THEN writing[o] ELSE Loaded(file)[p]
        /\ \A i \in DOMAIN g : g[i].op \in {0, o} \/ (i \in DOMAIN file /\ g[i] = file[i])
    BY <1>3, <2>1, AppendedSays
  <2>3. file' = g
    BY <1>1
  <2> HIDE DEF g
  <2>4. QED
    BY <2>2, <2>3 DEF OnFile
<1>6. \A p \in Ids \ lost' : p \notin lost /\ OnFile'[p] = IF p = o THEN writing[o] ELSE OnFile[p]
  BY <1>1, <1>5
<1>7. JournalTypes'
  <2>1. lost' \subseteq Ids
    BY <1>1, <1>2 DEF JournalTypes, GluedWith
  <2>2. QED
    BY <1>1, <1>2, <1>5, <2>1 DEF JournalTypes
<1>8. IoTypes' /\ SameReq'
  BY <1>1, <1>2 DEF IoTypes, IoPc, SameReq
<1>9. Fresh'
  <2> SUFFICES ASSUME NEW p \in Ids, p > minted PROVE Unused(p)'
    BY <1>1 DEF Fresh
  <2>1. Unused(p) /\ p # 0 /\ p # o
    BY <1>2, <1>3 DEF Fresh, Ids
  <2>2. \A i \in DOMAIN file' : file'[i].op # p
    BY <1>5, <2>1 DEF Unused
  <2>3. QED
    BY <1>1, <2>1, <2>2 DEF Unused
<1>10. Durable'
  <2> SUFFICES ASSUME NEW p \in Ids, p \notin lost'
               PROVE  IF io'[p] = "written" THEN OnFile'[p] = writing'[p]
                      ELSE \/ entries'[p] = OnFile'[p]
                           \/ p \in expired' /\ \E q \in Ids : io'[q] = "renamed"
    BY DEF Durable
  <2>1. CASE p = o
    BY <1>1, <1>4, <1>6, <2>1
  <2>2. CASE p # o
    <3>1. p \notin lost /\ OnFile'[p] = OnFile[p] /\ io'[p] = io[p]
      BY <1>4, <1>6, <2>2
    <3>2. IF io[p] = "written" THEN OnFile[p] = writing[p]
          ELSE entries[p] = OnFile[p] \/ (p \in expired /\ \E q \in Ids : io[q] = "renamed")
      BY <1>2, <1>3, <3>1 DEF Durable
    <3>3. \A q \in Ids : io[q] = "renamed" => io'[q] = "renamed"
      BY <1>1, <1>4
    <3>4. QED
      BY <1>1, <3>1, <3>2, <3>3
  <2>3. QED
    BY <2>1, <2>2
<1>11. \A p \in expired' \ lost' : OverFor(p) /\ Dropped(p)'
  <2> SUFFICES ASSUME NEW p \in expired, p \notin lost' PROVE OverFor(p) /\ Dropped(p)'
    BY <1>1
  <2>1. p \in Ids /\ OverFor(p) /\ Dropped(p) /\ p # o
    BY <1>1, <1>2
  <2>2. OnFile'[p] = OnFile[p]
    BY <1>6, <2>1
  <2>3. \A q \in Ids : io'[q] \in Compacting => io'[q] = io[q]
    BY <1>4 DEF Compacting
  <2>4. \A q \in Ids : /\ io'[q] \in Compacting => kept'[q][p] = NoRecord
                       /\ io'[q] = "rename" /\ tmp' # NoFile => tmp'[p] = NoRecord
                       /\ io'[q] = "renamed" => OnFile'[p] = NoRecord
    BY <1>1, <2>1, <2>2, <2>3 DEF Dropped, Compacting
  <2>5. QED
    BY <1>1, <2>1, <2>2, <2>4 DEF Dropped
<1>12. \A p \in Ids : io'[p] = "none" <=> io[p] = "none"
  BY <1>1, <1>4
<1>13. \A p \in Ids \ lost' : p \notin lost /\ (Owed(p) => OnFile'[p].status \in Unfinished)
  <2> SUFFICES ASSUME NEW p \in Ids \ lost', Owed(p) PROVE OnFile'[p].status \in Unfinished
    BY <1>6
  <2>1. CASE p # o
    BY <1>2, <1>6, <2>1 DEF Visible
  <2>2. CASE p = o
    <3>1. job[o] = "start"
      BY <1>1, <1>2, <1>3, <2>2 DEF Owed, Jobs, Quiet
    <3>2. writing[o].status = "running"
      BY <1>2, <3>1 DEF Jobs
    <3>3. QED
      BY <1>6, <2>2, <3>2 DEF Unfinished
  <2>3. QED
    BY <2>1, <2>2
<1>14. QED
  BY <1>1, <1>3, <1>7, <1>8, <1>9, <1>10, <1>11, <1>12, <1>13, EngineStays DEF Records

LEMMA ExpireKeeps ==
    ASSUME IInv, NEW o \in Ids, Expire(o)
    PROVE  IInv'
<1>1. /\ up = "up" /\ entries[o].status \in Terminal /\ \A p \in Ids : io[p] = "none"
      /\ expired' = expired \cup {o}
      /\ UNCHANGED <<file, torn, tmp, entries, bytes, ioVars, calls, job, queueVars, recoveryVars,
                     minted, lost, faults>>
  BY DEF Expire
<1>2. /\ JournalTypes /\ IoTypes /\ Fresh /\ SameReq /\ Durable /\ Jobs /\ Visible
      /\ \A p \in expired \ lost : p \in Ids /\ io[p] = "none" /\ OverFor(p) /\ Dropped(p)
      /\ EngineTypes
  BY InvariantSays DEF IInv, Engine
<1>3. OnFile' = OnFile
  BY <1>1 DEF OnFile
<1>4. JournalTypes' /\ IoTypes' /\ SameReq'
  BY <1>1, <1>2 DEF JournalTypes, IoTypes, SameReq
<1>5. o \notin lost => OnFile[o].status \notin Unfinished
  <2>1. o \notin lost => entries[o] = OnFile[o]
    BY <1>1, <1>2 DEF Durable
  <2>2. QED
    BY <1>1, <2>1 DEF Terminal, Unfinished
<1>6. Fresh'
  <2>1. entries[o] # NoRecord
    BY <1>1 DEF NoRecord, Terminal
  <2>2. QED
    BY <1>1, <1>2, <2>1 DEF Fresh, Unused
<1>7. Durable'
  BY <1>1, <1>2, <1>3 DEF Durable
<1>8. \A p \in expired' \ lost' : OverFor(p) /\ Dropped(p)'
  <2> SUFFICES ASSUME NEW p \in expired \cup {o}, p \notin lost PROVE OverFor(p) /\ Dropped(p)'
    BY <1>1
  <2>1. \A q \in Ids : io'[q] = "none"
    BY <1>1
  <2>2. CASE p = o
    <3>1. ~ Owed(o)
      BY <1>2, <1>5, <2>2 DEF Visible
    <3>2. job[o] \in Quiet
      BY <1>1, <1>2 DEF Jobs
    <3>3. OverFor(o)
      BY <3>1, <3>2 DEF Owed, OverFor, Quiet
    <3>4. entries'[o].status \notin Unfinished
      BY <1>1 DEF Terminal, Unfinished
    <3>5. QED
      BY <1>3, <1>5, <2>1, <2>2, <3>3, <3>4 DEF Dropped, Compacting
  <2>3. CASE p \in expired
    BY <1>1, <1>2, <1>3, <2>1, <2>3 DEF Dropped, Compacting
  <2>4. QED
    BY <2>2, <2>3
<1>9. \A p \in Ids : io'[p] = "none" <=> io[p] = "none"
  BY <1>1
<1>10. \A p \in Ids \ lost' : p \notin lost /\ (Owed(p) => OnFile'[p].status \in Unfinished)
  BY <1>1, <1>2, <1>3 DEF Visible
<1>11. UNCHANGED <<calls, job, queueVars, recoveryVars, minted, writing>> /\ faults' \in Nat
  BY <1>1 DEF IInv, RecoveryTypes
<1>12. QED
  BY <1>1, <1>4, <1>6, <1>7, <1>8, <1>9, <1>10, <1>11, EngineStays DEF Records


---------------------------------------------------------------------------
(* Failing I/O, crash, restart and recovery.                               *)

\* The process ends: what is left is the file, and what has expired.
LEMMA DownKeeps ==
    ASSUME IInv, Down,
           file' \in Seq(Lines), torn' \in BOOLEAN, torn' => file' # <<>>,
           lost \subseteq lost', lost' \subseteq Ids, crashes' \in Nat, faults' \in Nat,
           \A i \in DOMAIN file' : file'[i].op <= minted \/ (i \in DOMAIN file /\ file'[i] = file[i]),
           \A p \in expired \ lost' : OnFile'[p] = OnFile[p]
    PROVE  IInv'
<1>1. /\ up' = "down" /\ entries' = Empty /\ bytes' = 0
      /\ io' = [o \in Ids |-> "none"] /\ writing' = Empty /\ kept' = [o \in Ids |-> Empty]
      /\ job' = [o \in Ids |-> "none"] /\ pending' = <<>> /\ running' = {} /\ pumpDue' = FALSE
      /\ blocks' = {} /\ toRecover' = {}
      /\ UNCHANGED <<expired, minted, tmp>>
  BY DEF Down
<1>2. calls' = [c \in Callers |-> [req |-> NoReq, blocked |-> FALSE]]
  BY DEF Down
<1>3. /\ JournalTypes /\ Fresh /\ minted \in Nat
      /\ \A p \in expired \ lost : p \in Ids /\ io[p] = "none" /\ OverFor(p) /\ Dropped(p)
  BY InvariantSays
<1>4. /\ Empty \in [Ids -> Rec] /\ \A o \in Ids : Empty[o] = NoRecord
      /\ NoRecord.status = "none" /\ NoRecord.req = NoReq
  BY DEF Empty, Rec, NoRecord
<1>5. RecoveryTypes'
  BY <1>1, <1>3 DEF RecoveryTypes
<1>6. Steady'
  <2>1. Resting'
    BY <1>1, <1>2, <1>4 DEF Resting
  <2>2. QED
    BY <1>1, <2>1 DEF Steady
<1>7. JournalTypes'
  BY <1>1, <1>3, <1>4 DEF JournalTypes
<1>8. IoTypes' /\ SameReq'
  BY <1>1, <1>4 DEF IoTypes, IoPc, SameReq
<1>9. Fresh'
  <2> SUFFICES ASSUME NEW o \in Ids, o > minted PROVE Unused(o)'
    BY <1>1 DEF Fresh
  <2>1. Unused(o)
    BY <1>3 DEF Fresh
  <2>2. \A i \in DOMAIN file' : file'[i].op # o
    <3> SUFFICES ASSUME NEW i \in DOMAIN file', file'[i].op = o PROVE FALSE
      OBVIOUS
    <3>1. ~ (o <= minted)
      BY <1>3 DEF Ids
    <3>2. QED
      BY <2>1, <3>1 DEF Unused
  <2>3. QED
    BY <1>1, <1>4, <2>1, <2>2 DEF Unused
<1>10. Durable'
  BY <1>1 DEF Durable
<1>11. EngineTypes'
  <2>1. <<>> \in Seq(Ids) /\ "none" \in JobPc
    BY DEF JobPc
  <2>2. calls' \in [Callers -> [req : Requests \cup {NoReq}, blocked : BOOLEAN]]
    BY <1>2
  <2>3. QED
    BY <1>1, <2>1, <2>2 DEF EngineTypes
<1>12. DOMAIN pending' = {}
  BY <1>1
<1>13. Jobs'
  BY <1>1 DEF Jobs, Quiet, Active
<1>14. Queued'
  BY <1>12 DEF Queued, Distinct
<1>15. Visible'
  BY <1>1, <1>12 DEF Visible, Owed
<1>16. OneWriterPerKey'
  BY <1>1 DEF OneWriterPerKey
<1>17. Past'
  <2> SUFFICES ASSUME NEW p \in expired, p \notin lost' PROVE OverFor(p)' /\ Dropped(p)'
    BY <1>1 DEF Past
  <2>1. p \in Ids /\ Dropped(p)
    BY <1>3
  <2>2. OverFor(p)'
    BY <1>1, <1>12, <2>1 DEF OverFor
  <2>3. OnFile'[p].status \notin Unfinished /\ entries'[p].status \notin Unfinished
    BY <1>1, <1>4, <2>1 DEF Dropped, Unfinished
  <2>4. \A q \in Ids : io'[q] = "none"
    BY <1>1
  <2>5. QED
    BY <2>2, <2>3, <2>4 DEF Dropped, Compacting
<1>18. QED
  BY <1>5, <1>6, <1>7, <1>8, <1>9, <1>10, <1>11, <1>13, <1>14, <1>15, <1>16, <1>17
     DEF IInv, Records, Engine

\* What recovery has still to reconcile was minted, and its new record is whole.
LEMMA RecoverySays ==
    ASSUME IInv, NEW o \in toRecover
    PROVE  /\ o \in Ids /\ o <= minted
           /\ entries[o].status \in Unfinished /\ entries[o].req \in Requests
           /\ Reconciled(o) = [status |-> "unknown", req |-> entries[o].req]
           /\ Reconciled(o) \in Whole
<1>1. JournalTypes /\ Fresh /\ minted \in Nat /\ toRecover \subseteq Ids
  BY InvariantSays DEF IInv, RecoveryTypes
<1>2. o \in Ids /\ entries[o].status \in Unfinished
  BY <1>1 DEF IInv, Steady
<1>3. entries[o] \in Whole
  BY <1>1, <1>2 DEF JournalTypes, Rec, NoRecord, Unfinished
<1>4. o <= minted
  <2>1. entries[o] # NoRecord
    BY <1>2 DEF NoRecord, Unfinished
  <2>2. QED
    BY <1>1, <1>2, <2>1 DEF Fresh, Unused, Ids
<1>5. entries[o].req \in Requests /\ Reconciled(o) = [status |-> "unknown", req |-> entries[o].req]
  BY <1>3 DEF Whole, Reconciled
<1>6. Reconciled(o) \in Whole
  BY <1>5 DEF Whole, Terminal
<1>7. QED
  BY <1>2, <1>4, <1>5, <1>6

LEMMA CrashKeeps ==
    ASSUME IInv, Crash
    PROVE  IInv'
<1>1. /\ JournalTypes /\ minted \in Nat
      /\ \A p \in expired \ lost : p \in Ids /\ io[p] = "none" /\ OverFor(p) /\ Dropped(p)
  BY InvariantSays
<1>2. Down /\ crashes' \in Nat /\ faults' \in Nat /\ UNCHANGED expired
  BY DEF Crash, Down, IInv, RecoveryTypes
<1>3. CASE UNCHANGED <<file, torn, lost>>
  BY <1>1, <1>2, <1>3, DownKeeps DEF JournalTypes, OnFile
<1>4. ASSUME NEW o \in Ids, NEW rec \in Whole, CutOff(o, rec), lost' = lost \cup GluedWith(o),
             o <= minted, o \notin expired \ lost
      PROVE  IInv'
  <2>1. /\ file' \in Seq(Lines) /\ file' # <<>> /\ torn' = TRUE
        /\ \A p \in Ids : p \in GluedWith(o) \cup {o} \/ OnFile'[p] = OnFile[p]
        /\ \A i \in DOMAIN file' : file'[i].op \in {0, o} \/ (i \in DOMAIN file /\ file'[i] = file[i])
    BY <1>1, <1>4, TornSays DEF CutOff, JournalTypes, OnFile
  <2>2. lost \subseteq lost' /\ lost' \subseteq Ids
    BY <1>1, <1>4 DEF JournalTypes, GluedWith
  <2>3. \A p \in expired \ lost' : OnFile'[p] = OnFile[p]
    BY <1>1, <1>4, <2>1
  <2>4. \A i \in DOMAIN file' : file'[i].op <= minted \/ (i \in DOMAIN file /\ file'[i] = file[i])
    BY <1>1, <1>4, <2>1
  <2>5. QED
    BY <1>2, <2>1, <2>2, <2>3, <2>4, DownKeeps
<1>5. ASSUME NEW o \in Ids, io[o] = "write", CutOff(o, writing[o]), lost' = lost \cup GluedWith(o)
      PROVE  IInv'
  <2>1. writing[o] \in Whole /\ o <= minted
    BY <1>5, JobsMeanUp
  <2>2. o \notin expired \ lost
    BY <1>1, <1>5
  <2>3. QED
    BY <1>4, <1>5, <2>1, <2>2
<1>6. ASSUME NEW o \in toRecover, CutOff(o, Reconciled(o)), lost' = lost \cup GluedWith(o)
      PROVE  IInv'
  <2>1. o \in Ids /\ o <= minted /\ entries[o].status \in Unfinished /\ Reconciled(o) \in Whole
    BY RecoverySays
  <2>2. o \notin expired \ lost
    BY <1>1, <2>1 DEF Dropped
  <2>3. QED
    BY <1>4, <1>6, <2>1, <2>2
<1>7. QED
  BY <1>3, <1>5, <1>6 DEF Crash

\* The operation whose append failed half way is among the lost.
LEMMA AppendCutKeeps ==
    ASSUME IInv, NEW o \in Ids, AppendCut(o)
    PROVE  IInv'
<1>1. /\ io[o] = "write" /\ CutOff(o, writing[o])
      /\ lost' = lost \cup GluedWith(o) \cup {o} /\ io' = [io EXCEPT ![o] = "failed"]
      /\ faults' = faults + 1
      /\ UNCHANGED <<tmp, entries, bytes, expired, writing, kept, calls, job, queueVars,
                     recoveryVars, minted>>
  BY DEF AppendCut
<1>2. /\ JournalTypes /\ IoTypes /\ Fresh /\ SameReq /\ Durable /\ Visible
      /\ \A p \in expired \ lost : p \in Ids /\ io[p] = "none" /\ OverFor(p) /\ Dropped(p)
      /\ minted \in Nat
  BY InvariantSays
<1>3. up = "up" /\ faults' \in Nat /\ writing[o] \in Whole /\ o <= minted
  BY <1>1, JobsMeanUp DEF IInv, RecoveryTypes
<1>4. io'[o] = "failed" /\ \A p \in Ids \ {o} : io'[p] = io[p]
  BY <1>1, <1>2 DEF IoTypes
<1>5. /\ file' \in Seq(Lines) /\ file' # <<>> /\ torn' = TRUE
      /\ \A p \in Ids : p \in GluedWith(o) \cup {o} \/ OnFile'[p] = OnFile[p]
      /\ \A i \in DOMAIN file' : file'[i].op \in {0, o} \/ (i \in DOMAIN file /\ file'[i] = file[i])
  BY <1>1, <1>2, <1>3, TornSays DEF CutOff, JournalTypes, OnFile
<1>6. \A p \in Ids \ lost' : p # o /\ p \notin lost /\ OnFile'[p] = OnFile[p] /\ io'[p] = io[p]
  BY <1>1, <1>4, <1>5
<1>7. JournalTypes'
  <2>1. lost' \subseteq Ids
    BY <1>1, <1>2 DEF JournalTypes, GluedWith
  <2>2. QED
    BY <1>1, <1>2, <1>5, <2>1 DEF JournalTypes
<1>8. IoTypes' /\ SameReq'
  BY <1>1, <1>2 DEF IoTypes, IoPc, SameReq
<1>9. Fresh'
  <2> SUFFICES ASSUME NEW p \in Ids, p > minted PROVE Unused(p)'
    BY <1>1 DEF Fresh
  <2>1. Unused(p) /\ p # 0 /\ p # o
    BY <1>2, <1>3 DEF Fresh, Ids
  <2>2. \A i \in DOMAIN file' : file'[i].op # p
    BY <1>5, <2>1 DEF Unused
  <2>3. QED
    BY <1>1, <2>1, <2>2 DEF Unused
<1>10. \A q \in Ids : /\ io'[q] \in Compacting => io'[q] = io[q]
                      /\ io[q] = "renamed" => io'[q] = "renamed"
  BY <1>1, <1>4 DEF Compacting
<1>11. Durable'
  <2> SUFFICES ASSUME NEW p \in Ids \ lost'
               PROVE  IF io'[p] = "written" THEN OnFile'[p] = writing'[p]
                      ELSE \/ entries'[p] = OnFile'[p]
                           \/ p \in expired' /\ \E q \in Ids : io'[q] = "renamed"
    BY DEF Durable
  <2>1. IF io[p] = "written" THEN OnFile[p] = writing[p]
        ELSE entries[p] = OnFile[p] \/ (p \in expired /\ \E q \in Ids : io[q] = "renamed")
    BY <1>2, <1>3, <1>6 DEF Durable
  <2>2. QED
    BY <1>1, <1>6, <1>10, <2>1
<1>12. \A p \in expired' \ lost' : OverFor(p) /\ Dropped(p)'
  <2> SUFFICES ASSUME NEW p \in expired, p \notin lost' PROVE OverFor(p) /\ Dropped(p)'
    BY <1>1
  <2>1. p \in Ids /\ OverFor(p) /\ Dropped(p) /\ OnFile'[p] = OnFile[p]
    BY <1>1, <1>2, <1>6
  <2>2. \A q \in Ids : /\ io'[q] \in Compacting => kept'[q][p] = NoRecord
                       /\ io'[q] = "rename" /\ tmp' # NoFile => tmp'[p] = NoRecord
                       /\ io'[q] = "renamed" => OnFile'[p] = NoRecord
    BY <1>1, <1>10, <2>1 DEF Dropped, Compacting
  <2>3. QED
    BY <1>1, <2>1, <2>2 DEF Dropped
<1>13. \A p \in Ids : io'[p] = "none" <=> io[p] = "none"
  BY <1>1, <1>4
<1>14. \A p \in Ids \ lost' : p \notin lost /\ (Owed(p) => OnFile'[p].status \in Unfinished)
  BY <1>2, <1>6 DEF Visible
<1>15. QED
  BY <1>1, <1>3, <1>7, <1>8, <1>9, <1>11, <1>12, <1>13, <1>14, EngineStays DEF Records

\* The append is given up: nothing it would have said is in memory or in the file.
LEMMA IoFailsKeeps ==
    ASSUME IInv, NEW o \in Ids, IoFails(o)
    PROVE  IInv'
<1>1. JournalTypes /\ minted \in Nat /\ EngineTypes /\ Jobs /\ RecoveryTypes
  BY InvariantSays DEF IInv, Engine
<1>2. io[o] \in {"compact", "rename", "write", "failed"} /\ faults' \in Nat
  BY <1>1 DEF IoFails, RecoveryTypes
<1>3. CASE job[o] \in {"accept", "reject"}
  <2>1. /\ Idle(o) /\ job' = [job EXCEPT ![o] = "none"]
        /\ UNCHANGED <<journalVars, writing, kept, calls, queueVars, recoveryVars, minted, lost>>
    BY <1>3 DEF IoFails
  <2>2. Ends({o})
    <3>1. entries = [p \in Ids |-> IF p \in {o} /\ io[p] = "written" THEN writing[p] ELSE entries[p]]
      BY <1>1, <1>2 DEF JournalTypes
    <3>2. {p \in {o} : io[p] = "written"} = {}
      BY <1>2
    <3>3. bytes' \in Nat
      BY <1>1, <2>1 DEF JournalTypes
    <3>4. QED
      BY <1>2, <2>1, <3>1, <3>2, <3>3 DEF Ends
  <2>3. o \notin running /\ pumpDue' \in BOOLEAN
    BY <1>1, <1>3, <2>1 DEF Jobs, Active, EngineTypes
  <2>4. QED
    BY <1>2, <1>3, <2>1, <2>2, <2>3, EndKeeps
<1>4. CASE job[o] \notin {"accept", "reject"}
  <2>1. Down /\ UNCHANGED <<file, torn, lost, crashes>>
    BY <1>4 DEF IoFails
  <2>2. QED
    BY <1>1, <1>2, <2>1, DownKeeps DEF JournalTypes, OnFile, RecoveryTypes
<1>5. QED
  BY <1>3, <1>4

\* A step before the service is up, when nothing is under way.
LEMMA RestingKeeps ==
    ASSUME IInv, Resting, UNCHANGED <<ioVars, calls, job, queueVars, minted>>,
           RecoveryTypes', JournalTypes', Fresh', up' # "recovering" => toRecover' = {},
           \A o \in toRecover' : entries'[o].status \in Unfinished,
           up' \in {"up", "recovering"} => \A o \in Ids \ lost' : entries'[o] = OnFile'[o],
           \A o \in expired' \ lost' : /\ OnFile'[o].status \notin Unfinished
                                       /\ entries'[o].status \notin Unfinished
    PROVE  IInv'
<1>1. /\ IoTypes /\ EngineTypes /\ Jobs /\ Queued /\ OneWriterPerKey
      /\ expired' \subseteq Ids
  BY DEF IInv, Records, Engine, JournalTypes
<1>2. \A o \in Ids : job'[o] = "none" /\ io'[o] = "none" /\ writing'[o] = NoRecord
  BY DEF Resting
<1>3. Steady'
  BY DEF Resting, Steady
<1>4. IoTypes' /\ EngineTypes' /\ Jobs' /\ Queued' /\ OneWriterPerKey'
  BY <1>1 DEF IoTypes, EngineTypes, Jobs, Queued, Distinct, OneWriterPerKey, KeyAt
<1>5. SameReq'
  BY <1>2 DEF SameReq
<1>6. Durable'
  BY <1>2 DEF Durable
<1>7. DOMAIN pending' = {}
  BY DEF Resting
<1>8. Visible'
  BY <1>2, <1>7 DEF Visible, Owed
<1>9. Past'
  <2> SUFFICES ASSUME NEW o \in expired' \ lost' PROVE OverFor(o)' /\ Dropped(o)'
    BY DEF Past
  <2>1. o \in Ids /\ OverFor(o)'
    BY <1>1, <1>2, <1>7 DEF OverFor
  <2>2. Dropped(o)'
    BY <1>2 DEF Dropped, Compacting
  <2>3. QED
    BY <2>1, <2>2
<1>10. QED
  BY <1>3, <1>4, <1>5, <1>6, <1>8, <1>9 DEF IInv, Records, Engine

LEMMA RestartKeeps ==
    ASSUME IInv, Restart
    PROVE  IInv'
<1>1. /\ up = "down"
      /\ UNCHANGED <<file, torn, tmp, expired, ioVars, calls, job, queueVars, blocks, crashes, minted,
                     lost, faults>>
  BY DEF Restart
<1>2. /\ JournalTypes /\ Fresh
      /\ \A p \in expired \ lost : p \in Ids /\ io[p] = "none" /\ OverFor(p) /\ Dropped(p)
      /\ RecoveryTypes /\ Resting /\ toRecover = {}
  BY <1>1, InvariantSays DEF IInv, Steady
<1>3. OnFile' = OnFile /\ OnFile \in [Ids -> Rec]
  BY <1>1, <1>2, LoadedType DEF OnFile, JournalTypes
<1>4. CASE Readable(file, torn)
  <2>1. /\ up' = "recovering" /\ entries' = OnFile /\ bytes' = Len(file)
        /\ toRecover' = {o \in Ids : OnFile[o].status \in Unfinished}
    BY <1>4 DEF Restart, OnFile, unfinished
  <2>2. Len(file) \in Nat
    BY <1>2 DEF JournalTypes
  <2>3. JournalTypes'
    BY <1>1, <1>2, <1>3, <2>1, <2>2 DEF JournalTypes
  <2>4. RecoveryTypes'
    BY <1>1, <1>2, <2>1 DEF RecoveryTypes
  <2>5. Fresh'
    <3> SUFFICES ASSUME NEW o \in Ids, o > minted PROVE Unused(o)'
      BY <1>1 DEF Fresh
    <3>1. Unused(o)
      BY <1>2 DEF Fresh
    <3>2. At(file, o) = {}
      BY <3>1 DEF Unused, At
    <3>3. entries'[o] = NoRecord
      BY <2>1, <3>2, LoadedNone DEF OnFile
    <3>4. QED
      BY <1>1, <3>1, <3>3 DEF Unused
  <2>6. \A o \in expired' \ lost' : OnFile'[o].status \notin Unfinished
    BY <1>1, <1>2, <1>3 DEF Dropped
  <2>7. QED
    BY <1>1, <1>2, <1>3, <2>1, <2>3, <2>4, <2>5, <2>6, RestingKeeps
<1>5. CASE ~ Readable(file, torn)
  <2>1. up' = "refused" /\ UNCHANGED <<entries, bytes, toRecover>>
    BY <1>5 DEF Restart
  <2>2. JournalTypes' /\ RecoveryTypes'
    BY <1>1, <1>2, <2>1 DEF JournalTypes, RecoveryTypes
  <2>3. Fresh'
    BY <1>1, <1>2, <2>1 DEF Fresh, Unused
  <2>4. \A o \in expired' \ lost' : /\ OnFile'[o].status \notin Unfinished
                                    /\ entries'[o].status \notin Unfinished
    BY <1>1, <1>2, <1>3, <2>1 DEF Dropped
  <2>5. QED
    BY <1>1, <1>2, <2>1, <2>2, <2>3, <2>4, RestingKeeps
<1>6. QED
  BY <1>4, <1>5

LEMMA ServeKeeps ==
    ASSUME IInv, Serve
    PROVE  IInv'
<1>1. /\ up = "recovering" /\ toRecover = {} /\ up' = "up"
      /\ UNCHANGED <<journalVars, ioVars, calls, job, queueVars, blocks, toRecover, crashes, minted,
                     lost, faults>>
  BY DEF Serve
<1>2. /\ JournalTypes /\ Fresh /\ Durable
      /\ \A p \in expired \ lost : p \in Ids /\ io[p] = "none" /\ OverFor(p) /\ Dropped(p)
      /\ RecoveryTypes /\ Resting
  BY <1>1, InvariantSays DEF IInv, Steady
<1>3. OnFile' = OnFile
  BY <1>1 DEF OnFile
<1>4. JournalTypes' /\ RecoveryTypes'
  BY <1>1, <1>2 DEF JournalTypes, RecoveryTypes
<1>5. Fresh'
  BY <1>1, <1>2 DEF Fresh, Unused
<1>6. \A o \in Ids \ lost' : entries'[o] = OnFile'[o]
  BY <1>1, <1>2, <1>3 DEF Durable, Resting
<1>7. \A o \in expired' \ lost' : /\ OnFile'[o].status \notin Unfinished
                                  /\ entries'[o].status \notin Unfinished
  BY <1>1, <1>2, <1>3 DEF Dropped
<1>8. QED
  BY <1>1, <1>2, <1>4, <1>5, <1>6, <1>7, RestingKeeps

\* The compaction before recovery's next append: it keeps what is unfinished.
LEMMA RecoverCompactsKeeps ==
    ASSUME IInv, RecoverCompacts
    PROVE  IInv'
<1> DEFINE kb == Keep(entries)
<1>1. /\ up = "recovering" /\ entries' = kb /\ bytes' = Cardinality(Known(kb))
      /\ file' = LinesOf(kb) /\ torn' = FALSE /\ tmp' = NoFile
      /\ UNCHANGED <<expired, ioVars, calls, job, queueVars, recoveryVars, minted, lost, faults>>
  BY DEF RecoverCompacts
<1>2. /\ JournalTypes /\ Fresh /\ RecoveryTypes /\ Resting
      /\ \A p \in expired \ lost : p \in Ids /\ io[p] = "none" /\ OverFor(p) /\ Dropped(p)
      /\ \A p \in toRecover : entries[p].status \in Unfinished
  BY <1>1, InvariantSays DEF IInv, Steady
<1>3. kb \in [Ids -> Rec] /\ \A p \in Ids : /\ kb[p] \in {entries[p], NoRecord}
                                            /\ entries[p].status \in Unfinished => kb[p] = entries[p]
  BY <1>2, KeepSays DEF JournalTypes
<1> HIDE DEF kb
<1>4. /\ LinesOf(kb) \in Seq(Lines) /\ Loaded(LinesOf(kb)) = kb
      /\ \A i \in DOMAIN LinesOf(kb) : kb[LinesOf(kb)[i].op] # NoRecord
  BY <1>3, LinesSay
<1>5. OnFile' = kb
  BY <1>1, <1>4 DEF OnFile
<1>6. JournalTypes'
  BY <1>1, <1>2, <1>3, <1>4, RankEnumerates DEF JournalTypes
<1>7. RecoveryTypes'
  BY <1>1, <1>2 DEF RecoveryTypes
<1>8. Fresh'
  <2> SUFFICES ASSUME NEW p \in Ids, p > minted PROVE Unused(p)'
    BY <1>1 DEF Fresh
  <2>1. Unused(p)
    BY <1>2 DEF Fresh
  <2>2. entries'[p] = NoRecord
    BY <1>1, <1>3, <2>1 DEF Unused
  <2>3. \A i \in DOMAIN file' : file'[i].op # p
    BY <1>1, <1>4, <2>2
  <2>4. QED
    BY <1>1, <2>1, <2>2, <2>3 DEF Unused
<1>9. \A p \in toRecover' : entries'[p].status \in Unfinished
  BY <1>1, <1>2, <1>3 DEF RecoveryTypes
<1>10. \A p \in expired' \ lost' : /\ OnFile'[p].status \notin Unfinished
                                   /\ entries'[p].status \notin Unfinished
  <2>1. NoRecord.status \notin Unfinished
    BY DEF NoRecord, Unfinished
  <2>2. QED
    BY <1>1, <1>2, <1>3, <1>5, <2>1 DEF Dropped
<1>11. QED
  BY <1>1, <1>2, <1>5, <1>6, <1>7, <1>8, <1>9, <1>10, RestingKeeps

\* The append of `unknown`, or its refusal.
LEMMA RecoverKeeps ==
    ASSUME IInv, NEW o \in Ids, Recover(o)
    PROVE  IInv'
<1> DEFINE r == Reconciled(o)
<1>1. /\ up = "recovering" /\ o \in toRecover /\ toRecover' = toRecover \ {o}
      /\ blocks' = blocks \cup {KeyAt(entries, o)}
      /\ UNCHANGED <<up, tmp, ioVars, calls, job, queueVars, crashes, minted, faults>>
  BY DEF Recover, Blocked
<1>2. /\ JournalTypes /\ Fresh /\ Durable
      /\ \A p \in expired \ lost : p \in Ids /\ io[p] = "none" /\ OverFor(p) /\ Dropped(p)
      /\ RecoveryTypes /\ Resting /\ \A p \in toRecover : entries[p].status \in Unfinished
      /\ minted \in Nat
  BY <1>1, InvariantSays DEF IInv, Steady
<1>3. o <= minted /\ entries[o].req \in Requests /\ r \in Whole
  BY <1>1, RecoverySays
<1>4. RecoveryTypes'
  <2>1. KeyAt(entries, o) \in Keys
    BY <1>3, NodeAssumption DEF KeyAt
  <2>2. QED
    BY <1>1, <1>2, <2>1 DEF RecoveryTypes
<1>5. \A p \in Ids \ lost : entries[p] = OnFile[p]
  BY <1>1, <1>2 DEF Durable, Resting
<1>6. CASE Full
  <2>1. UNCHANGED <<file, torn, entries, bytes, lost, expired>>
    BY <1>6 DEF Recover
  <2>2. OnFile' = OnFile
    BY <2>1 DEF OnFile
  <2>3. JournalTypes' /\ Fresh'
    BY <1>1, <1>2, <2>1 DEF JournalTypes, Fresh, Unused
  <2>4. \A p \in expired' \ lost' : /\ OnFile'[p].status \notin Unfinished
                                    /\ entries'[p].status \notin Unfinished
    BY <1>2, <2>1, <2>2 DEF Dropped
  <2>5. \A p \in toRecover' : entries'[p].status \in Unfinished
    BY <1>1, <1>2, <2>1
  <2>6. QED
    BY <1>1, <1>2, <1>4, <1>5, <2>1, <2>2, <2>3, <2>4, <2>5, RestingKeeps
<1>7. CASE ~ Full
  <2>1. /\ entries' = [entries EXCEPT ![o] = r] /\ bytes' = bytes + 1
        /\ file' = Appended(o, r)
        /\ torn' = FALSE /\ lost' = lost \cup GluedWith(o) /\ expired' = expired \ {o}
    BY <1>7 DEF Recover
  <2>2. /\ file' \in Seq(Lines)
        /\ \A p \in Ids : \/ p \in GluedWith(o)
                          \/ OnFile'[p] = IF p = o THEN r ELSE OnFile[p]
        /\ \A i \in DOMAIN file' : file'[i].op \in {0, o} \/ (i \in DOMAIN file /\ file'[i] = file[i])
    <3> DEFINE g == Appended(o, r)
    <3>1. file \in Seq(Lines) /\ (torn => file # <<>>)
      BY <1>2 DEF JournalTypes
    <3> HIDE DEF r
    <3>2. /\ g \in Seq(Lines)
          /\ \A p \in Ids : \/ p \in GluedWith(o)
                            \/ Loaded(g)[p] = IF p = o THEN r ELSE Loaded(file)[p]
          /\ \A i \in DOMAIN g : g[i].op \in {0, o} \/ (i \in DOMAIN file /\ g[i] = file[i])
      BY <1>3, <3>1, AppendedSays
    <3>3. file' = g
      BY <2>1
    <3> HIDE DEF g
    <3>4. QED
      BY <3>2, <3>3 DEF OnFile
  <2> HIDE DEF r
  <2>3. entries' \in [Ids -> Rec] /\ \A p \in Ids : entries'[p] = IF p = o THEN r ELSE entries[p]
    BY <1>2, <1>3, <2>1 DEF JournalTypes, Rec
  <2>4. JournalTypes'
    <3>1. bytes' \in Nat /\ lost' \subseteq Ids /\ expired' \subseteq Ids
      BY <1>2, <2>1 DEF JournalTypes, GluedWith
    <3>2. QED
      BY <1>1, <1>2, <2>1, <2>2, <2>3, <3>1 DEF JournalTypes
  <2>5. Fresh'
    <3> SUFFICES ASSUME NEW p \in Ids, p > minted PROVE Unused(p)'
      BY <1>1 DEF Fresh
    <3>1. Unused(p)
      BY <1>2 DEF Fresh
    <3>2. p # o /\ p # 0
      BY <1>2, <1>3 DEF Ids
    <3>3. \A i \in DOMAIN file' : file'[i].op # p
      BY <2>2, <3>1, <3>2 DEF Unused
    <3>4. QED
      BY <1>1, <2>1, <2>3, <3>1, <3>2, <3>3 DEF Unused
  <2>6. \A p \in toRecover' : entries'[p].status \in Unfinished
    BY <1>1, <1>2, <2>3 DEF RecoveryTypes
  <2>7. \A p \in Ids \ lost' : entries'[p] = OnFile'[p]
    BY <1>5, <2>1, <2>2, <2>3
  <2>8. \A p \in expired' \ lost' : /\ OnFile'[p].status \notin Unfinished
                                    /\ entries'[p].status \notin Unfinished
    <3> SUFFICES ASSUME NEW p \in expired \ lost, p \notin lost', p # o
                 PROVE  entries'[p].status \notin Unfinished
      BY <1>2, <2>1, <2>7
    <3>1. p \in Ids /\ entries[p].status \notin Unfinished
      BY <1>2 DEF Dropped
    <3>2. QED
      BY <2>3, <3>1
  <2>9. QED
    BY <1>1, <1>2, <1>4, <2>4, <2>5, <2>6, <2>7, <2>8, RestingKeeps
<1>8. QED
  BY <1>6, <1>7

---------------------------------------------------------------------------
(* The specification.                                                      *)

LEMMA InitHolds ==
    ASSUME Init
    PROVE  IInv
<1>1. /\ up = "up" /\ file = <<>> /\ torn = FALSE /\ tmp = NoFile
      /\ entries = Empty /\ bytes = 0 /\ expired = {}
      /\ io = [o \in Ids |-> "none"] /\ writing = Empty /\ kept = [o \in Ids |-> Empty]
      /\ job = [o \in Ids |-> "none"] /\ pending = <<>> /\ running = {} /\ pumpDue = FALSE
      /\ blocks = {} /\ toRecover = {} /\ minted = 0 /\ lost = {} /\ crashes = 0 /\ faults = 0
  BY DEF Init
<1>2. calls = [c \in Callers |-> [req |-> NoReq, blocked |-> FALSE]]
  BY DEF Init
<1>3. /\ Empty \in [Ids -> Rec] /\ \A o \in Ids : Empty[o] = NoRecord
      /\ DOMAIN file = {} /\ DOMAIN pending = {} /\ file \in Seq(Lines) /\ pending \in Seq(Ids)
  BY <1>1 DEF Empty, Rec
<1>4. RecoveryTypes /\ Steady
  BY <1>1 DEF RecoveryTypes, Steady
<1>5. JournalTypes /\ IoTypes
  BY <1>1, <1>3 DEF JournalTypes, IoTypes, IoPc
<1>6. Fresh /\ SameReq
  BY <1>1, <1>3 DEF Fresh, Unused, SameReq
<1>7. Durable
  <2>1. \A o \in Ids : OnFile[o] = NoRecord
    BY <1>3, LoadedNone DEF OnFile, At
  <2>2. QED
    BY <1>1, <1>3, <2>1 DEF Durable
<1>8. EngineTypes
  <2>1. calls \in [Callers -> [req : Requests \cup {NoReq}, blocked : BOOLEAN]]
    BY <1>2
  <2>2. QED
    BY <1>1, <1>3, <2>1 DEF EngineTypes, JobPc
<1>9. Jobs /\ OneWriterPerKey
  BY <1>1 DEF Jobs, Quiet, Active, OneWriterPerKey
<1>10. Queued /\ Visible
  BY <1>1, <1>3 DEF Queued, Distinct, Visible, Owed
<1>11. Past
  BY <1>1 DEF Past
<1>12. QED
  BY <1>4, <1>5, <1>6, <1>7, <1>8, <1>9, <1>10, <1>11 DEF IInv, Records, Engine

LEMMA StutterKeeps ==
    ASSUME IInv, UNCHANGED vars
    PROVE  IInv'
<1>1. UNCHANGED <<journalVars, ioVars, calls, job, queueVars, recoveryVars, minted, lost, faults>>
  BY DEF vars
<1>2. OnFile' = OnFile
  BY <1>1 DEF OnFile
<1>3. RecoveryTypes' /\ Steady'
  BY <1>1 DEF IInv, RecoveryTypes, Steady, Resting
<1>4. JournalTypes' /\ IoTypes' /\ SameReq'
  BY <1>1 DEF IInv, Records, JournalTypes, IoTypes, SameReq
<1>5. Fresh'
  BY <1>1 DEF IInv, Records, Fresh, Unused
<1>6. Durable'
  BY <1>1, <1>2 DEF IInv, Records, Durable
<1>7. EngineTypes' /\ Jobs' /\ Queued' /\ OneWriterPerKey'
  BY <1>1 DEF IInv, Engine, EngineTypes, Jobs, Queued, Distinct, OneWriterPerKey, KeyAt
<1>8. Visible'
  BY <1>1, <1>2 DEF IInv, Engine, Visible, Owed
<1>9. Past'
  BY <1>1, <1>2 DEF IInv, Engine, Past, OverFor, Dropped
<1>10. QED
  BY <1>3, <1>4, <1>5, <1>6, <1>7, <1>8, <1>9 DEF IInv, Records, Engine

LEMMA NextKeeps ==
    ASSUME IInv, [Next]_vars
    PROVE  IInv'
<1>1. ASSUME NEW c \in Callers, NEW r \in Requests, Submit(c, r) PROVE IInv'
  BY <1>1, SubmitKeeps
<1>2. ASSUME NEW c \in Callers, SubmitRefused(c) PROVE IInv'
  BY <1>2, SubmitRefusedKeeps
<1>3. ASSUME NEW c \in Callers, SubmitPassed(c) PROVE IInv'
  BY <1>3, SubmitPassedKeeps
<1>4. ASSUME NEW o \in Ids, CompactWrite(o) \/ CompactRename(o) \/ CompactDone(o) PROVE IInv'
  BY <1>4, CompactWriteKeeps, CompactRenameKeeps, CompactDoneKeeps
<1>5. ASSUME NEW o \in Ids, AppendWrite(o) \/ AppendCut(o) PROVE IInv'
  BY <1>5, AppendWriteKeeps, AppendCutKeeps
<1>6. ASSUME NEW o \in Ids, Enqueue(o) \/ EnqueueRefused(o) \/ Answered(o) PROVE IInv'
  BY <1>6, EnqueueKeeps, EnqueueRefusedKeeps, AnsweredKeeps
<1>7. ASSUME NEW o \in Ids, RunEffect(o) \/ EffectEnds(o) \/ Finish(o) PROVE IInv'
  BY <1>7, RunEffectKeeps, EffectEndsKeeps, FinishKeeps
<1>8. ASSUME NEW o \in Ids, Cancel(o) \/ Expire(o) PROVE IInv'
  BY <1>8, CancelKeeps, ExpireKeeps
<1>9. ASSUME NEW o \in Ids, IoFails(o) \/ Recover(o) PROVE IInv'
  BY <1>9, IoFailsKeeps, RecoverKeeps
<1>10. CASE Pump \/ Crash
  BY <1>10, PumpActionKeeps, CrashKeeps
<1>11. CASE Restart \/ RecoverCompacts \/ Serve
  BY <1>11, RestartKeeps, RecoverCompactsKeeps, ServeKeeps
<1>12. CASE UNCHANGED vars
  BY <1>12, StutterKeeps
<1>13. QED
  BY <1>1, <1>2, <1>3, <1>4, <1>5, <1>6, <1>7, <1>8, <1>9, <1>10, <1>11, <1>12 DEF Next

\* At every moment of every execution, crashes and restarts included: the file says
\* what is owed, memory says what the file says, and a compaction under way keeps
\* nothing of an operation that is over (store.ts, jobs.ts, recovery.ts).
THEOREM Invariance == Spec => []IInv
<1>1. Init => IInv
  BY InitHolds
<1>2. IInv /\ [Next]_vars => IInv'
  BY NextKeeps
<1>3. QED
  BY <1>1, <1>2, PTL DEF Spec

\* The type invariant of the engine, the journal and recovery.
THEOREM TypeInvariance == Spec => []TypeOK
<1>1. IInv => TypeOK
  <2> SUFFICES ASSUME IInv PROVE TypeOK
    OBVIOUS
  <2>1. RecoveryTypes /\ JournalTypes /\ IoTypes /\ EngineTypes
    BY DEF IInv, Records, Engine
  <2>2. Whole \subseteq Record /\ NoRecord \in Record
    BY DEF Whole, Record, NoRecord
  <2>3. Rec \subseteq Record /\ Lines \subseteq Line
    BY <2>2 DEF Rec, Lines, Line, Unreadable
  <2>4. file \in Seq(Line)
    BY <2>1, <2>3 DEF JournalTypes
  <2>5. [Ids -> Rec] \subseteq [Ids -> Record]
    BY <2>3
  <2>6. kept \in [Ids -> [Ids -> Record]]
    BY <2>1, <2>5 DEF IoTypes
  <2>7. QED
    BY <2>1, <2>4, <2>5, <2>6 DEF TypeOK, RecoveryTypes, JournalTypes, IoTypes, EngineTypes
<1>2. QED
  BY <1>1, Invariance, PTL

\* The service does not race itself (queue.ts): no two operations of one repository are
\* between the start and the end of their Git processes at the same time, whatever
\* appends fail, records are lost and pumps overlap.
THEOREM OneWriter == Spec => []OneWriterPerKey
<1>1. IInv => OneWriterPerKey
  BY DEF IInv, Engine
<1>2. QED
  BY <1>1, Invariance, PTL

\* A crash in the middle of an operation is visible to the next process (jobs.ts pump,
\* store.ts header): while Git runs the file shows the operation unfinished, unless a
\* compaction, a torn tail or a write that failed half way destroyed its line.
THEOREM EffectsAreVisible == Spec => []EffectIsVisible
<1>1. IInv => EffectIsVisible
  BY DEF IInv, Engine, Visible, Owed, EffectIsVisible, OnFile
<1>2. QED
  BY <1>1, Invariance, PTL

\* Memory is the file's (jobs.ts transition): once no append of an operation is under
\* way the two agree on it, but for what a compaction, a torn tail or a write that
\* failed half way destroyed.
THEOREM MemoryIsOnDisk == Spec => []MemoryIsDurable
<1>1. IInv => MemoryIsDurable
  <2> SUFFICES ASSUME IInv, up = "up", NEW o \in Ids, o \notin lost, io[o] # "written"
               PROVE  \/ entries[o] = OnFile[o]
                      \/ \E p \in Ids : io[p] = "renamed" /\ kept[p][o] = NoRecord
    BY DEF MemoryIsDurable, OnFile
  <2>1. entries[o] = OnFile[o] \/ (o \in expired /\ \E p \in Ids : io[p] = "renamed")
    BY DEF IInv, Records, Durable
  <2>2. o \in expired => \A p \in Ids : io[p] = "renamed" => kept[p][o] = NoRecord
    BY PastIsQuiet DEF Dropped, Compacting
  <2>3. QED
    BY <2>1, <2>2
<1>2. QED
  BY <1>1, Invariance, PTL
=============================================================================
