---------------------------- MODULE WorkflowsProofs ----------------------------
(***************************************************************************)
(* Proofs about Workflows, for every set of operations, every number of    *)
(* them, of commands that do not end by exiting and of changes another     *)
(* program makes.                                                          *)
(***************************************************************************)
EXTENDS Workflows, FiniteSetTheorems, SequenceTheorems, TLAPS

\* Nobody interfered, and every read so far was answered.
Clear == ~disturbed /\ ~blind

\* Nothing is known to have been done.
Idle == ~did /\ ~mine /\ ~killed /\ ended = "none"

AtRest == pc \in {"idle", "queued"} => Idle /\ Clear

\* Before its first write an effect has changed nothing, and a start whose probes
\* were answered has found no marker of its own.
Unwritten ==
    pc \in {"check", "write"} =>
        /\ Idle /\ (~disturbed => repo = before)
        /\ op \in Starts /\ Clear /\ Mark(op) \in repo.open
               => pc = "check" /\ Mark(op) \in Range(todo)

\* A stash locator is used only while it names the entry of the request.
Located ==
    pc = "write" /\ op \in Stashes /\ ~disturbed =>
        named.at \in DOMAIN repo.stash /\ repo.stash[named.at] = named.entry

\* The first of two writes ended with exit 0.
Halfway ==
    pc = "write2" => op \in Remotes \cup {"pull", "squashCommit"} /\ ~mine /\ ~killed

\* A commit that exited non-zero changed nothing, or moved HEAD.
Comparing ==
    pc = "compare" =>
        /\ op \in Commits /\ ~mine /\ (killed => ended = "killed") /\ did = (ended = "ok")
        /\ ended = "exit" /\ ~disturbed => repo = before \/ repo.head # before.head

\* A start that Git let begin, and that stopped on the way.
HeldUp ==
    /\ before.open = {} /\ before.conflicts = FALSE
    /\ \E f \in BOOLEAN :
          repo = [before EXCEPT !.open = {Mark(op)}, !.conflicts = f, !.orig = before.head]

\* What a start or a continue that exited non-zero left: nothing new, the stop of the
\* start, or no marker after a continue that a hook finished.
LeftBehind ==
    \/ repo = before
    \/ op \in Starts /\ HeldUp
    \/ op \in Continues /\ (Mark(op) \in repo.open => op = "continueRebase")

Judging ==
    pc \in {"reread", "count", "abort"} =>
        /\ op \in Starts \cup Continues /\ ~killed
        /\ pc = "count" => op \notin {"merge", "revertCommit", "continueMerge"}
        /\ pc = "abort" => op \in Starts \ {"merge"}
        /\ mine => op \in Starts
        /\ ~disturbed => LeftBehind
        /\ Clear /\ op \in Starts /\ Mark(op) \in repo.open
               => mine /\ HeldUp
        /\ Clear /\ pc \in {"count", "abort"} => Mark(op) \in repo.open

\* Git did the work, or a hook finished a continue.
Heading ==
    pc = "head" =>
        /\ op \notin Commits \cup Remotes /\ ~killed
        /\ did \/ op \in Continues
        /\ Clear => Mark(op) \notin repo.open

\* From the effect's first look at the worktree on, no other stash entry is lost.
StashKept ==
    pc \notin {"idle", "queued"} /\ ~disturbed =>
        Range(before.stash) \ Range(repo.stash) \subseteq {named.entry}

IInv ==
    /\ TypeOK /\ AtRest /\ Unwritten /\ Located /\ Halfway /\ Comparing /\ Judging
    /\ Heading /\ StashKept /\ FailedChangedNothing /\ MarkersAgree /\ KilledIsNotFailed

-----------------------------------------------------------------------------
(* What the operators return.                                                *)

\* The commands an effect runs.
Commands == (AllOps \ {"squashCommit"}) \cup {"softReset", "fastForward", "abortRevert"}

LEMMA MarkIsOne ==
    \A o : /\ Mark(o) \in Marks \cup {"none"}
           /\ o \in Starts \cup Continues \cup Aborts \cup {"abortRevert"} <=> Mark(o) \in Marks
BY DEF Mark, Marks, Starts, Continues, Aborts

LEMMA NoneIsNoMark == "none" \notin Marks
BY DEF Marks

\* The numbers that are chosen to be new are there to choose.
LEMMA HeadIsNew ==
    \A r : NewHead(r) \in 0..3 /\ NewHead(r) \notin {r.head, r.orig, before.head}
<1> TAKE r
<1>1. \A a, b, c : \E n \in 0..3 : n \notin {a, b, c}
  <2> TAKE a, b, c
  <2>1. {0, 1, 2, 3} \subseteq 0..3
    OBVIOUS
  <2>2. \E n \in {0, 1, 2, 3} : n # a /\ n # b /\ n # c
    OBVIOUS
  <2>3. QED
    BY <2>1, <2>2
<1>2. QED
  BY <1>1 DEF NewHead

LEMMA RestIsNew == \A r : NewRest(r) \in 0..2
<1> TAKE r
<1>1. \A a, b : \E n \in 0..2 : n \notin {a, b}
  <2> TAKE a, b
  <2>1. \E n \in {0, 1, 2} : n # a /\ n # b
    OBVIOUS
  <2>2. QED
    BY <2>1
<1>2. QED
  BY <1>1 DEF NewRest

\* A sequence has no more elements than places.
LEMMA RangeIsSmall ==
    ASSUME NEW S, NEW s \in Seq(S)
    PROVE  IsFiniteSet(Range(s)) /\ Cardinality(Range(s)) <= Len(s)
<1>1. Len(s) \in Nat /\ s \in [1 .. Len(s) -> S] /\ DOMAIN s = 1 .. Len(s)
  OBVIOUS
<1>2. IsFiniteSet(1 .. Len(s)) /\ Cardinality(1 .. Len(s)) = Len(s)
  <2>1. /\ IsFiniteSet(1 .. Len(s))
        /\ Cardinality(1 .. Len(s)) = IF 1 > Len(s) THEN 0 ELSE Len(s) - 1 + 1
    BY <1>1, FS_Interval
  <2>2. QED
    BY <1>1, <2>1
<1>3. s \in Surjection(1 .. Len(s), Range(s))
  BY <1>1 DEF Surjection, Range
<1>4. QED
  BY <1>2, <1>3, FS_Surjection

LEMMA UnionIsSmall ==
    ASSUME NEW S, IsFiniteSet(S), NEW T, IsFiniteSet(T)
    PROVE  /\ IsFiniteSet(S \cup T) /\ Cardinality(S \cup T) \in Nat
           /\ Cardinality(S \cup T) <= Cardinality(S) + Cardinality(T)
<1>1. /\ IsFiniteSet(S \cup T)
      /\ Cardinality(S \cup T) = Cardinality(S) + Cardinality(T) - Cardinality(S \cap T)
  BY FS_Union
<1>2. IsFiniteSet(S \cap T)
  BY FS_Subset
<1>3. /\ Cardinality(S) \in Nat /\ Cardinality(T) \in Nat /\ Cardinality(S \cap T) \in Nat
      /\ Cardinality(S \cup T) \in Nat
  BY <1>1, <1>2, FS_CardinalityType
<1>4. QED
  BY <1>1, <1>3

LEMMA EntryIsNew ==
    ASSUME NEW r \in Worktree, before \in Worktree
    PROVE  NewEntry(r) \in Nat
<1> DEFINE top == Len(r.stash) + Len(before.stash) + 2
           taken == {named.entry} \cup Range(r.stash) \cup Range(before.stash)
<1>1. r.stash \in Seq(Nat) /\ before.stash \in Seq(Nat)
  BY DEF Worktree
<1>2. Len(r.stash) \in Nat /\ Len(before.stash) \in Nat /\ top \in Nat /\ top >= 1
  <2>1. Len(r.stash) \in Nat /\ Len(before.stash) \in Nat
    BY <1>1
  <2>2. \A a, b \in Nat : a + b + 2 \in Nat /\ a + b + 2 >= 1
    OBVIOUS
  <2>3. QED
    BY <2>1, <2>2
<1>3. IsFiniteSet(taken) /\ Cardinality(taken) \in Nat /\ Cardinality(taken) < top
  <2>1. /\ IsFiniteSet(Range(r.stash)) /\ IsFiniteSet(Range(before.stash))
        /\ Cardinality(Range(r.stash)) <= Len(r.stash)
        /\ Cardinality(Range(before.stash)) <= Len(before.stash)
    BY <1>1, RangeIsSmall
  <2>2. IsFiniteSet({named.entry}) /\ Cardinality({named.entry}) = 1
    BY FS_Singleton
  <2>3. /\ IsFiniteSet({named.entry} \cup Range(r.stash))
        /\ Cardinality({named.entry} \cup Range(r.stash)) <= 1 + Cardinality(Range(r.stash))
    BY <2>1, <2>2, UnionIsSmall
  <2>4. /\ IsFiniteSet(taken) /\ Cardinality(taken) \in Nat
        /\ Cardinality(taken) <= Cardinality({named.entry} \cup Range(r.stash))
                                      + Cardinality(Range(before.stash))
    BY <2>1, <2>3, UnionIsSmall
  <2>5. /\ Cardinality(Range(r.stash)) \in Nat /\ Cardinality(Range(before.stash)) \in Nat
        /\ Cardinality({named.entry} \cup Range(r.stash)) \in Nat
    BY <2>1, <2>3, FS_CardinalityType
  <2>6. \A a, b, c, d, e, f \in Nat :
            a <= b /\ c <= d /\ e <= 1 + a /\ f <= e + c => f < b + d + 2
    OBVIOUS
  <2> HIDE DEF taken
  <2>7. Cardinality(taken) < Len(r.stash) + Len(before.stash) + 2
    BY <1>2, <2>1, <2>3, <2>4, <2>5, <2>6
  <2>8. QED
    BY <2>4, <2>7
<1>4. \E n \in 1 .. top : n \notin taken
  <2> SUFFICES ASSUME 1 .. top \subseteq taken PROVE FALSE
    OBVIOUS
  <2> HIDE DEF taken
  <2> HIDE DEF top
  <2>1. top \in Nat /\ top >= 1
    BY <1>2
  <2>2. Cardinality(1 .. top) = IF 1 > top THEN 0 ELSE top - 1 + 1
    BY <2>1, FS_Interval
  <2>3. Cardinality(1 .. top) <= Cardinality(taken)
    BY <1>3, FS_Subset
  <2>4. QED
    BY <1>3, <2>1, <2>2, <2>3
<1>5. NewEntry(r) \in 1 .. top
  BY <1>4 DEF NewEntry
<1>6. QED
  BY <1>2, <1>5

-----------------------------------------------------------------------------
(* What a command leaves.                                                    *)

LEMMA StashesKeepTheirType ==
    ASSUME NEW S, NEW s \in Seq(S), NEW e \in S
    PROVE  /\ <<e>> \o s \in Seq(S) /\ Range(s) \subseteq Range(<<e>> \o s)
<1>1. /\ <<e>> \o s \in Seq(S) /\ Len(<<e>> \o s) = 1 + Len(s)
      /\ \A i \in 1 .. Len(s) : (<<e>> \o s)[i + 1] = s[i]
  OBVIOUS
<1>2. ASSUME NEW i \in 1 .. Len(s)
      PROVE  s[i] \in Range(<<e>> \o s)
  <2>1. i + 1 \in DOMAIN (<<e>> \o s)
    BY <1>1
  <2>2. QED
    BY <1>1, <2>1 DEF Range
<1>3. QED
  BY <1>1, <1>2 DEF Range

LEMMA RemovedOnlyThere ==
    ASSUME NEW S, NEW s \in Seq(S), NEW n \in 1 .. Len(s)
    PROVE  RemoveAt(s, n) \in Seq(S) /\ Range(s) \ Range(RemoveAt(s, n)) \subseteq {s[n]}
<1> DEFINE A == SubSeq(s, 1, n - 1)
           B == SubSeq(s, n + 1, Len(s))
<1>1. /\ A \in Seq(S) /\ Len(A) = n - 1 /\ \A i \in 1 .. (n - 1) : A[i] = s[i]
      /\ B \in Seq(S) /\ Len(B) = Len(s) - n /\ \A i \in 1 .. (Len(s) - n) : B[i] = s[n + i]
  OBVIOUS
<1>2. RemoveAt(s, n) = A \o B
  BY DEF RemoveAt
<1> HIDE DEF A, B
<1>3. /\ A \o B \in Seq(S) /\ Len(A \o B) = Len(A) + Len(B)
      /\ \A i \in 1 .. Len(A) + Len(B) : (A \o B)[i] = IF i <= Len(A) THEN A[i] ELSE B[i - Len(A)]
  BY <1>1, ConcatProperties
<1>4. ASSUME NEW i \in 1 .. Len(s), i # n
      PROVE  s[i] \in Range(A \o B)
  <2> DEFINE k == IF i < n THEN i ELSE i - 1
  <2>1. k \in 1 .. Len(A) + Len(B)
    BY <1>1, <1>4
  <2>2. (A \o B)[k] = s[i]
    <3>1. CASE i < n
      BY <1>1, <1>3, <3>1
    <3>2. CASE ~ (i < n)
      <4>1. i - n \in 1 .. (Len(s) - n) /\ n + (i - n) = i
        BY <1>4, <3>2
      <4>2. (A \o B)[i - 1] = B[i - n]
        BY <1>1, <1>3, <1>4, <3>2
      <4>3. QED
        BY <1>1, <3>2, <4>1, <4>2
    <3>3. QED
      BY <3>1, <3>2
  <2>3. k \in DOMAIN (A \o B)
    BY <1>3, <2>1
  <2> HIDE DEF k
  <2>4. QED
    BY <2>2, <2>3 DEF Range
<1>5. \A e \in Range(s) : e = s[n] \/ e \in Range(A \o B)
  <2> TAKE e \in Range(s)
  <2>1. PICK i \in 1 .. Len(s) : e = s[i]
    BY DEF Range
  <2>2. QED
    BY <1>4, <2>1
<1>6. QED
  BY <1>2, <1>3, <1>5

Ends == {"ok", "exit", "killed", "limit", "spawn"}

\* How a command ends, and the worktree it leaves.
Ran(c, r, g) ==
    /\ g[1] \in Ends
    /\ g[1] \notin Clean => used.faults < MaxFaults
    /\ g[1] = "ok" => ~Refuses(c, r) /\ g[2] = Done(c, r)
    /\ g[1] = "exit" => g[2] = r \/ (~Refuses(c, r) /\ g[2] \in Stops(c, r))
    /\ g[1] = "spawn" => g[2] = r
    /\ g[2] = r \/ (~Refuses(c, r) /\ g[2] \in {Done(c, r)} \cup Stops(c, r))

LEMMA RunsAsSaid == ASSUME NEW c, NEW r, NEW g \in GitRuns(c, r) PROVE Ran(c, r, g)
<1> DEFINE done  == IF Refuses(c, r) THEN {} ELSE {Done(c, r)}
           stops == IF Refuses(c, r) THEN {} ELSE Stops(c, r)
           ends  == IF used.faults < MaxFaults THEN Ends ELSE Clean
<1>1. /\ g \in ends \X ({r} \cup done \cup stops)
      /\ \/ g[1] = "ok" /\ g[2] \in done
         \/ g[1] = "exit" /\ g[2] \in {r} \cup stops
         \/ g[1] = "spawn" /\ g[2] = r
         \/ g[1] \in Stopped
  BY DEF GitRuns, Ends
<1>2. g[1] \in ends /\ g[2] \in {r} \cup done \cup stops
  BY <1>1
<1>3. "ok" \notin Stopped /\ "exit" \notin Stopped /\ "spawn" \notin Stopped /\ Clean \subseteq Ends
  BY DEF Stopped, Clean, Ends
<1>4. g[1] \in Ends /\ (g[1] \notin Clean => used.faults < MaxFaults)
  BY <1>2, <1>3
<1>5. QED
  BY <1>1, <1>2, <1>3, <1>4 DEF Ran

\* The commands of one write that leave only the rest of the worktree changed.
Others == Branching \cup Trees \cup Modules \cup {"unstagePaths", "discardTrackedPaths"} \cup Tags
            \cup {"applyStash", "removeRemote"} \cup Remotes \cup Network

USE DEF Starts, Commits, Continues, Aborts, Creations, Others, Branching, Trees, Modules, Tags,
        Remotes, Network

LEMMA DoneMoves ==
    ASSUME NEW r, NEW c, c \in Starts \cup {"resetBranch", "softReset", "fastForward"}
    PROVE  Done(c, r) = [r EXCEPT !.head = NewHead(r)]
BY SMT DEF Done

LEMMA DoneCommit ==
    ASSUME NEW r, NEW c, c \in Commits
    PROVE  Done(c, r) = [r EXCEPT !.head = NewHead(r), !.open = @ \cap {"rebase"}]
BY SMT DEF Done

LEMMA DoneContinue ==
    ASSUME NEW r, NEW c, c \in Continues
    PROVE  Done(c, r) = [Closed(r, Mark(c)) EXCEPT !.head = NewHead(r)]
BY SMT DEF Done

LEMMA DoneAbort ==
    ASSUME NEW r, NEW c, c \in Aborts \cup {"abortRevert"}
    PROVE  Done(c, r) = [Closed(r, Mark(c)) EXCEPT !.head = r.orig]
BY SMT DEF Done

LEMMA DoneStage ==
    ASSUME NEW r, NEW c, c = "stagePaths"
    PROVE  Done(c, r) = [r EXCEPT !.conflicts = FALSE, !.rest = NewRest(r)]
BY SMT DEF Done

LEMMA DonePush ==
    ASSUME NEW r, NEW c, c = "createStash"
    PROVE  Done(c, r) = [Pushed(r) EXCEPT !.rest = NewRest(r)]
BY SMT DEF Done

LEMMA DonePop ==
    ASSUME NEW r, NEW c, c = "popStash"
    PROVE  Done(c, r) = [Popped(r) EXCEPT !.rest = NewRest(r)]
BY SMT DEF Done

LEMMA DoneDrop ==
    ASSUME NEW r, NEW c, c = "dropStash"
    PROVE  Done(c, r) = Popped(r)
BY SMT DEF Done

LEMMA DoneCreation ==
    ASSUME NEW r, NEW c, c \in Creations
    PROVE  Done(c, r) = [r EXCEPT !.files = TRUE]
BY SMT DEF Done

LEMMA DoneOther ==
    ASSUME NEW r, NEW c, c \in Others
    PROVE  Done(c, r) = [r EXCEPT !.rest = NewRest(r)]
BY SMT DEF Done

LEMMA StartStops ==
    ASSUME NEW r, NEW c, c \in Starts
    PROVE  Stops(c, r) = {[r EXCEPT !.open = @ \cup {Mark(c)}, !.conflicts = f, !.orig = r.head] :
                                 f \in BOOLEAN}
<1>1. /\ c # "continueRebase" /\ c \notin Continues /\ c \notin {"applyStash", "popStash"}
      /\ c \notin Commits \cup {"switchBranch", "createWorktree"}
      /\ c \notin Network \cup Modules \cup {"removeWorktree"} /\ c \notin Creations
  OBVIOUS
<1> HIDE DEF Starts, Commits, Continues, Creations, Modules, Network
<1>2. QED
  BY <1>1, Zenon DEF Stops

LEMMA RebaseStops ==
    ASSUME NEW r, NEW c, c = "continueRebase"
    PROVE  Stops(c, r) = {[r EXCEPT !.head = NewHead(r), !.conflicts = f] : f \in BOOLEAN}
<1>1. /\ c \notin Starts /\ c \notin {"applyStash", "popStash"}
      /\ c \notin Commits \cup {"switchBranch", "createWorktree"}
      /\ c \notin Network \cup Modules \cup {"removeWorktree"} /\ c \notin Creations
      /\ c \notin Continues \ {"continueRebase"}
  OBVIOUS
<1> HIDE DEF Starts, Commits, Continues, Creations, Modules, Network
<1>2. QED
  BY <1>1, SMT DEF Stops

LEMMA ContinueStops ==
    ASSUME NEW r, NEW c, c \in Continues \ {"continueRebase"}
    PROVE  Stops(c, r) = {Closed(r, Mark(c))}
BY SMT DEF Stops

LEMMA StashStops ==
    ASSUME NEW r, NEW c, c \in {"applyStash", "popStash"}
    PROVE  Stops(c, r) = {[r EXCEPT !.rest = NewRest(r), !.conflicts = TRUE]}
BY SMT DEF Stops

LEMMA HookStops ==
    ASSUME NEW r, NEW c, c \in Commits \cup {"switchBranch", "createWorktree"}
    PROVE  Stops(c, r) = {Done(c, r)}
BY SMT DEF Stops

LEMMA PartStops ==
    ASSUME NEW r, NEW c, c \in Network \cup Modules \cup {"removeWorktree"}
    PROVE  Stops(c, r) = {[r EXCEPT !.rest = NewRest(r)]}
BY SMT DEF Stops

LEMMA CreationStops ==
    ASSUME NEW r, NEW c, c \in Creations
    PROVE  Stops(c, r) = IF r.files THEN {} ELSE {[r EXCEPT !.files = TRUE]}
BY SMT DEF Stops

LEMMA NothingStops ==
    ASSUME NEW r, NEW c, c \in AllOps \cup {"softReset", "fastForward", "abortRevert"},
             c \notin Starts \cup Continues \cup Commits \cup Network \cup Modules
                        \cup Creations \cup {"applyStash", "popStash", "switchBranch",
                                             "createWorktree", "removeWorktree"}
    PROVE  Stops(c, r) = {}
<1>1. /\ c \notin Starts /\ c # "continueRebase" /\ c \notin Continues
      /\ c \notin {"applyStash", "popStash"}
      /\ c \notin Commits \cup {"switchBranch", "createWorktree"}
      /\ c \notin Network \cup Modules \cup {"removeWorktree"} /\ c \notin Creations
  OBVIOUS
<1> HIDE DEF Starts, Commits, Continues, Creations, Modules, Network
<1>2. QED
  BY <1>1, Zenon DEF Stops

HIDE DEF Starts, Commits, Continues, Aborts, Creations, Others, Branching, Trees, Modules, Tags,
         Remotes, Network

LEMMA CommandsAre ==
    Commands \subseteq Starts \cup {"resetBranch", "softReset", "fastForward"} \cup Commits
        \cup Continues \cup Aborts \cup {"abortRevert"}
        \cup {"stagePaths", "createStash", "popStash", "dropStash"} \cup Creations \cup Others
BY DEF Commands, AllOps, Simple, Branching, Trees, Modules, Staging, Commits, Tags, Stashes,
       Remotes, Network, Creations, Starts, Continues, Aborts, Others

\* What no command does but the ones that are there to do it: drop a stash entry, and
\* open a marker.
Keeps(c, r, w) ==
    /\ w \in Worktree
    /\ \/ Range(r.stash) \subseteq Range(w.stash)
       \/ c \in {"popStash", "dropStash"} /\ named.at \in DOMAIN r.stash
              /\ Range(r.stash) \ Range(w.stash) \subseteq {r.stash[named.at]}
    /\ w.open \subseteq r.open \cup (IF c \in Starts THEN {Mark(c)} ELSE {})

LEMMA ClosedIs ==
    ASSUME NEW r \in Worktree, NEW m
    PROVE  /\ Closed(r, m) \in Worktree
           /\ Closed(r, m).open = r.open \ {m} /\ Closed(r, m).conflicts = FALSE
           /\ Closed(r, m).stash = r.stash /\ Closed(r, m).head = r.head
           /\ Closed(r, m).orig = r.orig
           /\ Closed(r, m).rest = r.rest /\ Closed(r, m).files = r.files
BY DEF Closed, Worktree

LEMMA PushedIs ==
    ASSUME NEW r \in Worktree, before \in Worktree
    PROVE  /\ Pushed(r) \in Worktree /\ Range(r.stash) \subseteq Range(Pushed(r).stash)
           /\ Pushed(r).open = r.open
<1>1. NewEntry(r) \in Nat
  BY EntryIsNew
<1>2. r.stash \in Seq(Nat)
  BY DEF Worktree
<1>3. /\ <<NewEntry(r)>> \o r.stash \in Seq(Nat)
      /\ Range(r.stash) \subseteq Range(<<NewEntry(r)>> \o r.stash)
  BY <1>1, <1>2, StashesKeepTheirType
<1>4. Pushed(r) = [r EXCEPT !.stash = <<NewEntry(r)>> \o r.stash]
  BY DEF Pushed
<1>5. QED
  BY <1>3, <1>4 DEF Worktree

LEMMA PoppedIs ==
    ASSUME NEW r \in Worktree, named.at \in DOMAIN r.stash
    PROVE  /\ Popped(r) \in Worktree
           /\ Range(r.stash) \ Range(Popped(r).stash) \subseteq {r.stash[named.at]}
           /\ Popped(r).open = r.open
<1>1. r.stash \in Seq(Nat)
  BY DEF Worktree
<1>2. named.at \in 1 .. Len(r.stash)
  BY <1>1
<1>3. /\ RemoveAt(r.stash, named.at) \in Seq(Nat)
      /\ Range(r.stash) \ Range(RemoveAt(r.stash, named.at)) \subseteq {r.stash[named.at]}
  BY <1>1, <1>2, RemovedOnlyThere
<1>4. Popped(r) = [r EXCEPT !.stash = RemoveAt(r.stash, named.at)]
  BY DEF Popped
<1>5. QED
  BY <1>3, <1>4 DEF Worktree

\* A worktree with one field changed, field by field.
LEMMA WithHead ==
    ASSUME NEW r \in Worktree, NEW h \in 0..3, NEW w, w = [r EXCEPT !.head = h]
    PROVE  /\ w \in Worktree /\ w.head = h
           /\ w.orig = r.orig /\ w.open = r.open /\ w.conflicts = r.conflicts
           /\ w.rest = r.rest /\ w.files = r.files /\ w.stash = r.stash
BY DEF Worktree

LEMMA Rested ==
    ASSUME NEW r, NEW v \in Worktree, NEW w, w = [v EXCEPT !.rest = NewRest(r)]
    PROVE  w \in Worktree /\ w.open = v.open /\ w.stash = v.stash
<1>1. NewRest(r) \in 0..2
  BY RestIsNew
<1> HIDE DEF NewRest
<1>2. QED
  BY <1>1 DEF Worktree

LEMMA WithFiles ==
    ASSUME NEW r \in Worktree, NEW w, w = [r EXCEPT !.files = TRUE]
    PROVE  w \in Worktree /\ w.open = r.open /\ w.stash = r.stash /\ w.files
BY DEF Worktree

LEMMA WithConflicts ==
    ASSUME NEW r \in Worktree, NEW f \in BOOLEAN, NEW w, w = [r EXCEPT !.conflicts = f]
    PROVE  /\ w \in Worktree /\ w.open = r.open /\ w.stash = r.stash /\ w.head = r.head
           /\ w.rest = r.rest
BY DEF Worktree

LEMMA WithCommit ==
    ASSUME NEW r \in Worktree, NEW w,
           w = [r EXCEPT !.head = NewHead(r), !.open = @ \cap {"rebase"}]
    PROVE  /\ w \in Worktree /\ w.open \subseteq r.open /\ w.stash = r.stash
           /\ w.head = NewHead(r)
<1>1. NewHead(r) \in 0..3
  BY HeadIsNew
<1> HIDE DEF NewHead
<1>2. QED
  BY <1>1 DEF Worktree

LEMMA SameStashKeeps ==
    ASSUME NEW c, NEW r, NEW w \in Worktree, w.stash = r.stash, w.open \subseteq r.open
    PROVE  Keeps(c, r, w)
BY DEF Keeps

LEMMA DoneKeeps ==
    ASSUME NEW c \in Commands, NEW r \in Worktree, before \in Worktree, ~Refuses(c, r)
    PROVE  Keeps(c, r, Done(c, r))
<1>0. NewHead(r) \in 0..3
  BY HeadIsNew
<1>1. CASE c \in Starts \cup {"resetBranch", "softReset", "fastForward"}
  <2>1. Done(c, r) = [r EXCEPT !.head = NewHead(r)]
    BY <1>1, DoneMoves
  <2>2. QED
    BY <1>0, <2>1, WithHead, SameStashKeeps
<1>2. CASE c \in Commits
  <2>1. Done(c, r) = [r EXCEPT !.head = NewHead(r), !.open = @ \cap {"rebase"}]
    BY <1>2, DoneCommit
  <2>2. QED
    BY <2>1, WithCommit, SameStashKeeps
<1>3. CASE c \in Continues
  <2>1. Done(c, r) = [Closed(r, Mark(c)) EXCEPT !.head = NewHead(r)]
    BY <1>3, DoneContinue
  <2>2. /\ Closed(r, Mark(c)) \in Worktree /\ Closed(r, Mark(c)).stash = r.stash
        /\ Closed(r, Mark(c)).open \subseteq r.open
    BY ClosedIs
  <2>3. /\ Done(c, r) \in Worktree /\ Done(c, r).stash = Closed(r, Mark(c)).stash
        /\ Done(c, r).open = Closed(r, Mark(c)).open
    BY <1>0, <2>1, <2>2, WithHead
  <2>4. QED
    BY <2>2, <2>3, SameStashKeeps
<1>4. CASE c \in Aborts \cup {"abortRevert"}
  <2>1. Done(c, r) = [Closed(r, Mark(c)) EXCEPT !.head = r.orig]
    BY <1>4, DoneAbort
  <2>2. /\ Closed(r, Mark(c)) \in Worktree /\ Closed(r, Mark(c)).stash = r.stash
        /\ Closed(r, Mark(c)).open \subseteq r.open
    BY ClosedIs
  <2>3. r.orig \in 0..3
    BY DEF Worktree
  <2>4. /\ Done(c, r) \in Worktree /\ Done(c, r).stash = Closed(r, Mark(c)).stash
        /\ Done(c, r).open = Closed(r, Mark(c)).open
    BY <2>1, <2>2, <2>3, WithHead
  <2>5. QED
    BY <2>2, <2>4, SameStashKeeps
<1>5. CASE c = "stagePaths"
  <2> DEFINE w == [r EXCEPT !.conflicts = FALSE]
  <2>1. Done(c, r) = [w EXCEPT !.rest = NewRest(r)]
    BY <1>5, DoneStage
  <2>2. w \in Worktree /\ w.open = r.open /\ w.stash = r.stash
    BY WithConflicts
  <2> HIDE DEF w
  <2>3. QED
    BY <2>1, <2>2, Rested, SameStashKeeps
<1>6. CASE c = "createStash"
  <2>1. Done(c, r) = [Pushed(r) EXCEPT !.rest = NewRest(r)]
    BY <1>6, DonePush
  <2>2. /\ Pushed(r) \in Worktree /\ Range(r.stash) \subseteq Range(Pushed(r).stash)
        /\ Pushed(r).open = r.open
    BY PushedIs
  <2>3. Done(c, r) \in Worktree /\ Done(c, r).open = r.open /\ Done(c, r).stash = Pushed(r).stash
    BY <2>1, <2>2, Rested
  <2>4. QED
    BY <2>2, <2>3 DEF Keeps
<1>7. CASE c \in {"popStash", "dropStash"}
  <2>1. Done(c, r) = Popped(r) \/ Done(c, r) = [Popped(r) EXCEPT !.rest = NewRest(r)]
    BY <1>7, DonePop, DoneDrop
  <2>2. named.at \in DOMAIN r.stash
    BY <1>7 DEF Refuses, Stashes
  <2>3. /\ Popped(r) \in Worktree /\ Popped(r).open = r.open
        /\ Range(r.stash) \ Range(Popped(r).stash) \subseteq {r.stash[named.at]}
    BY <2>2, PoppedIs
  <2>4. Done(c, r) \in Worktree /\ Done(c, r).open = r.open /\ Done(c, r).stash = Popped(r).stash
    BY <2>1, <2>3, Rested
  <2>5. QED
    BY <1>7, <2>2, <2>3, <2>4 DEF Keeps
<1>8. CASE c \in Creations
  <2>1. Done(c, r) = [r EXCEPT !.files = TRUE]
    BY <1>8, DoneCreation
  <2>2. QED
    BY <2>1, WithFiles, SameStashKeeps
<1>9. CASE c \in Others
  <2>1. Done(c, r) = [r EXCEPT !.rest = NewRest(r)]
    BY <1>9, DoneOther
  <2>2. QED
    BY <2>1, Rested, SameStashKeeps
<1>10. QED
  BY <1>1, <1>2, <1>3, <1>4, <1>5, <1>6, <1>7, <1>8, <1>9, CommandsAre

LEMMA StopsKeep ==
    ASSUME NEW c \in Commands, NEW r \in Worktree, before \in Worktree, ~Refuses(c, r),
           NEW w \in Stops(c, r)
    PROVE  Keeps(c, r, w)
<1>1. CASE c \in Starts
  <2>1. PICK f \in BOOLEAN :
          w = [r EXCEPT !.open = @ \cup {Mark(c)}, !.conflicts = f, !.orig = r.head]
    <3>1. w \in {[r EXCEPT !.open = @ \cup {Mark(c)}, !.conflicts = f, !.orig = r.head] :
                     f \in BOOLEAN}
      BY <1>1, StartStops
    <3>2. QED
      BY <3>1
  <2>2. Mark(c) \in Marks
    BY <1>1, MarkIsOne
  <2> DEFINE m == Mark(c)
  <2>3. m \in Marks /\ w = [r EXCEPT !.open = @ \cup {m}, !.conflicts = f, !.orig = r.head]
    BY <2>1, <2>2
  <2> HIDE DEF m
  <2>4. w \in Worktree /\ w.open = r.open \cup {m} /\ w.stash = r.stash
    BY <2>3 DEF Worktree
  <2>5. QED
    BY <1>1, <2>4 DEF Keeps, m
<1>2. CASE c = "continueRebase"
  <2>1. PICK f \in BOOLEAN : w = [r EXCEPT !.head = NewHead(r), !.conflicts = f]
    <3>1. w \in {[r EXCEPT !.head = NewHead(r), !.conflicts = f] : f \in BOOLEAN}
      BY <1>2, RebaseStops
    <3>2. QED
      BY <3>1
  <2> DEFINE v == [r EXCEPT !.head = NewHead(r)]
  <2>2. v \in Worktree /\ v.open = r.open /\ v.stash = r.stash
    BY HeadIsNew, WithHead
  <2>3. w = [v EXCEPT !.conflicts = f]
    BY <2>1
  <2> HIDE DEF v
  <2>4. QED
    BY <2>2, <2>3, WithConflicts, SameStashKeeps
<1>3. CASE c \in Continues \ {"continueRebase"}
  <2>1. w = Closed(r, Mark(c))
    BY <1>3, ContinueStops
  <2>2. QED
    BY <2>1, ClosedIs, SameStashKeeps
<1>4. CASE c \in {"applyStash", "popStash"}
  <2> DEFINE v == [r EXCEPT !.rest = NewRest(r)]
  <2>1. w = [v EXCEPT !.conflicts = TRUE]
    BY <1>4, StashStops
  <2>2. v \in Worktree /\ v.open = r.open /\ v.stash = r.stash
    BY Rested
  <2> HIDE DEF v
  <2>3. QED
    BY <2>1, <2>2, WithConflicts, SameStashKeeps
<1>5. CASE c \in Commits \cup {"switchBranch", "createWorktree"}
  <2>1. w = Done(c, r)
    BY <1>5, HookStops
  <2>2. QED
    BY <2>1, DoneKeeps
<1>6. CASE c \in Network \cup Modules \cup {"removeWorktree"}
  <2>1. w = [r EXCEPT !.rest = NewRest(r)]
    BY <1>6, PartStops
  <2>2. QED
    BY <2>1, Rested, SameStashKeeps
<1>7. CASE c \in Creations
  <2>1. w = [r EXCEPT !.files = TRUE]
    BY <1>7, CreationStops
  <2>2. QED
    BY <2>1, WithFiles, SameStashKeeps
<1>8. QED
  BY <1>1, <1>2, <1>3, <1>4, <1>5, <1>6, <1>7, NothingStops DEF Commands

LEMMA CommandKeeps ==
    ASSUME NEW c \in Commands, repo \in Worktree, before \in Worktree, NEW g, Ran(c, repo, g)
    PROVE  Keeps(c, repo, g[2])
<1>1. CASE g[2] = repo
  BY <1>1 DEF Keeps
<1>2. CASE g[2] # repo
  BY <1>2, DoneKeeps, StopsKeep DEF Ran
<1>3. QED
  BY <1>1, <1>2

-----------------------------------------------------------------------------
(* A read and a write of an effect, whatever follows.                        *)

Places == {"idle", "queued", "check", "write", "write2", "compare", "reread", "count",
           "abort", "head", "done"}

\* What a read saw is the truth unless it says nothing.
Answered(truth, a) ==
    /\ a[1] => truth
    /\ truth /\ ~a[2] => a[1]
    /\ blind' = (blind \/ a[2]) /\ a[2] \in BOOLEAN
    /\ used' = [used EXCEPT !.faults = @ + IF a[2] THEN 1 ELSE 0]
    /\ a[2] => used.faults < MaxFaults
    /\ UNCHANGED <<repo, op, before, named, ended, did, mine, killed, disturbed>>

LEMMA AnswersAsSaid ==
    ASSUME NEW truth \in BOOLEAN, NEW a \in Answers(truth),
           blind' = (blind \/ a[2]),
           used' = [used EXCEPT !.faults = @ + IF a[2] THEN 1 ELSE 0],
           UNCHANGED <<repo, op, before, named, ended, ghosts>>
    PROVE  Answered(truth, a)
<1>1. a = <<truth, FALSE>> \/ (used.faults < MaxFaults /\ a = <<FALSE, TRUE>>)
  BY DEF Answers
<1>2. CASE a = <<truth, FALSE>>
  BY <1>2 DEF Answered, ghosts
<1>3. CASE used.faults < MaxFaults /\ a = <<FALSE, TRUE>>
  BY <1>3 DEF Answered, ghosts
<1>4. QED
  BY <1>1, <1>2, <1>3

\* A write of command c: how it ended and what it left.
Wrote(c, g) ==
    /\ Ran(c, repo, g) /\ Keeps(c, repo, g[2])
    /\ repo' = g[2] /\ ended' = g[1] /\ did' = (g[1] = "ok")
    /\ mine' = (mine \/ Mark(c) \in g[2].open \ repo.open)
    /\ killed' = (killed \/ g[1] = "killed")
    /\ used' = [used EXCEPT !.faults = @ + IF g[1] \in Clean THEN 0 ELSE 1]
    /\ UNCHANGED <<op, before, named, blind, disturbed>>

LEMMA WritesAsSaid ==
    ASSUME TypeOK, NEW c \in Commands, NEW g \in GitRuns(c, repo),
           repo' = g[2], ended' = g[1], did' = (g[1] = "ok"),
           mine' = (mine \/ Mark(c) \in g[2].open \ repo.open),
           killed' = (killed \/ g[1] = "killed"),
           used' = [used EXCEPT !.faults = @ + IF g[1] \in Clean THEN 0 ELSE 1],
           UNCHANGED <<op, before, named, blind, disturbed>>
    PROVE  Wrote(c, g)
<1>1. Ran(c, repo, g)
  BY RunsAsSaid
<1>2. Keeps(c, repo, g[2])
  BY <1>1, CommandKeeps DEF TypeOK
<1>3. QED
  BY <1>1, <1>2 DEF Wrote

\* Where an effect goes next, and what it reports there.
Goes(p, res) == pc' = p /\ result' = res /\ (res # "none") = (p = "done")

LEMMA FaultsCounted ==
    ASSUME TypeOK, NEW n \in {0, 1}, n = 1 => used.faults < MaxFaults,
           used' = [used EXCEPT !.faults = @ + n]
    PROVE  used' \in [ops : 0..MaxOps, faults : 0..MaxFaults, outside : 0..MaxOutside]
<1>1. used \in [ops : 0..MaxOps, faults : 0..MaxFaults, outside : 0..MaxOutside]
  BY DEF TypeOK
<1>2. MaxFaults \in Nat /\ used.faults \in 0..MaxFaults
  BY <1>1, WorkflowsAssumption
<1>3. used.faults + n \in 0..MaxFaults
  BY <1>2
<1>4. QED
  BY <1>1, <1>3

LEMMA ReadTypes ==
    ASSUME TypeOK, NEW truth, NEW a, Answered(truth, a),
           NEW p \in Places, NEW res \in Outcomes, Goes(p, res), todo' \in Seq(Marks)
    PROVE  TypeOK'
<1>1. used' \in [ops : 0..MaxOps, faults : 0..MaxFaults, outside : 0..MaxOutside]
  <2>1. CASE a[2]
    BY <2>1, FaultsCounted DEF Answered
  <2>2. CASE ~a[2]
    BY <2>2, FaultsCounted DEF Answered
  <2>3. QED
    BY <2>1, <2>2
<1>2. blind' \in BOOLEAN
  BY DEF Answered
<1>3. QED
  BY <1>1, <1>2 DEF TypeOK, Answered, Goes, Places

LEMMA WriteTypes ==
    ASSUME TypeOK, NEW c, NEW g, Wrote(c, g),
           NEW p \in Places, NEW res \in Outcomes, Goes(p, res), todo' = todo
    PROVE  TypeOK'
<1>1. used' \in [ops : 0..MaxOps, faults : 0..MaxFaults, outside : 0..MaxOutside]
  <2>1. CASE g[1] \in Clean
    BY <2>1, FaultsCounted DEF Wrote, Ran
  <2>2. CASE g[1] \notin Clean
    BY <2>2, FaultsCounted DEF Wrote, Ran
  <2>3. QED
    BY <2>1, <2>2
<1>2. did' \in BOOLEAN /\ mine' \in BOOLEAN /\ killed' \in BOOLEAN
  BY DEF Wrote
<1>3. repo' \in Worktree /\ ended' \in {"none", "ok", "exit", "killed", "limit", "spawn"}
  BY DEF Wrote, Keeps, Ran, Ends
<1>4. QED
  BY <1>1, <1>2, <1>3 DEF TypeOK, Wrote, Goes, Places

\* No stash entry is lost but the one the request names.
LEMMA WriteStash ==
    ASSUME IInv, NEW c, NEW g, Wrote(c, g),
           pc \notin {"idle", "queued"},
           c \in {"popStash", "dropStash"} => c = op /\ pc = "write"
    PROVE  StashKept'
<1> SUFFICES ASSUME ~disturbed
             PROVE  Range(before.stash) \ Range(repo'.stash) \subseteq {named.entry}
  BY DEF StashKept, Wrote
<1>1. Range(before.stash) \ Range(repo.stash) \subseteq {named.entry}
  BY DEF IInv, StashKept
<1>2. CASE Range(repo.stash) \subseteq Range(g[2].stash)
  BY <1>1, <1>2 DEF Wrote
<1>3. CASE /\ c \in {"popStash", "dropStash"} /\ named.at \in DOMAIN repo.stash
           /\ Range(repo.stash) \ Range(g[2].stash) \subseteq {repo.stash[named.at]}
  <2>1. repo.stash[named.at] = named.entry
    BY <1>3 DEF IInv, Located, Stashes
  <2>2. QED
    BY <1>1, <1>3, <2>1 DEF Wrote
<1>4. QED
  BY <1>2, <1>3 DEF Wrote, Keeps

\* The parts of the invariant that say nothing of an effect that ended, and those
\* that say nothing of one that did not.
EndParts == FailedChangedNothing /\ MarkersAgree /\ KilledIsNotFailed
WayParts == AtRest /\ Unwritten /\ Located /\ Halfway /\ Comparing /\ Judging /\ Heading

LEMMA DoneHasNoWay == ASSUME pc' = "done" PROVE WayParts'
BY DEF WayParts, AtRest, Unwritten, Located, Halfway, Comparing, Judging, Heading

LEMMA WayHasNoEnd == ASSUME pc' # "done" PROVE EndParts'
BY DEF EndParts, FailedChangedNothing, MarkersAgree, KilledIsNotFailed, Settled

LEMMA Parts == IInv <=> TypeOK /\ WayParts /\ StashKept /\ EndParts
BY DEF IInv, WayParts, EndParts

-----------------------------------------------------------------------------
(* The operations without a marker.                                          *)

Marked == Starts \cup Continues \cup Aborts

LEMMA OpsAreKnown == \A o \in Ops : o \in AllOps /\ o # "abortRevert"
<1>1. "abortRevert" \notin AllOps
  BY DEF AllOps, Simple, Branching, Trees, Modules, Staging, Commits, Tags, Stashes,
         Remotes, Network, Creations, Starts, Continues, Aborts
<1>2. QED
  BY <1>1, WorkflowsAssumption

LEMMA UnmarkedAgrees ==
    ASSUME TypeOK', op' \notin Marked, result' = "succeeded" => did'
    PROVE  MarkersAgree'
<1>1. Mark(op') \notin repo'.open
  <2>1. op' # "abortRevert"
    BY OpsAreKnown DEF TypeOK
  <2>2. repo'.open \subseteq Marks
    BY DEF TypeOK, Worktree
  <2>3. QED
    BY <2>1, <2>2, MarkIsOne, NoneIsNoMark DEF Marked
<1>2. op' \notin Starts
  BY DEF Marked
<1>3. QED
  BY <1>1, <1>2 DEF MarkersAgree

\* A command that can only do all or nothing, and did not exit with 0 nor was
\* stopped, left the worktree the effect started on.
LEMMA NothingDone ==
    ASSUME IInv, NEW c, NEW g, Wrote(c, g), pc = "write", ~disturbed,
           g[1] \in {"exit", "spawn"}, g[1] = "exit" => Stops(c, repo) = {}
    PROVE  repo' = before'
<1>1. g[2] = repo
  BY DEF Wrote, Ran
<1>2. repo = before
  BY DEF IInv, Unwritten
<1>3. QED
  BY <1>1, <1>2 DEF Wrote

LEMMA UntouchedIsSame == \A r : SameWorktree(r, r)
BY DEF SameWorktree

\* A write that ends the effect, and one that does not.
LEMMA WriteEnds ==
    ASSUME IInv, NEW c, NEW g, Wrote(c, g), pc \notin {"idle", "queued"},
           c \in {"popStash", "dropStash"} => c = op /\ pc = "write",
           pc' = "done", result' \in Outcomes \ {"none"}, todo' = todo,
           TypeOK' => EndParts'
    PROVE  IInv'
<1>1. TypeOK'
  <2>1. Goes("done", result') /\ TypeOK /\ result' \in Outcomes /\ "done" \in Places
    BY DEF Goes, IInv, Places
  <2>2. QED
    BY <2>1, WriteTypes
<1>2. StashKept'
  BY WriteStash
<1>3. QED
  BY <1>1, <1>2, DoneHasNoWay, Parts DEF EndParts, IInv, WayParts

LEMMA WriteGoesOn ==
    ASSUME IInv, NEW c, NEW g, Wrote(c, g), pc \notin {"idle", "queued", "done"},
           c \in {"popStash", "dropStash"} => c = op /\ pc = "write",
           NEW p \in Places \ {"done"}, pc' = p, result' = result, todo' = todo,
           WayParts'
    PROVE  IInv'
<1>1. TypeOK'
  <2>1. result = "none" /\ "none" \in Outcomes
    BY DEF IInv, TypeOK, Outcomes
  <2>2. Goes(p, "none") /\ TypeOK
    BY <2>1 DEF Goes, IInv
  <2>3. QED
    BY <2>1, <2>2, WriteTypes
<1>2. StashKept'
  BY WriteStash
<1>3. QED
  BY <1>1, <1>2, WayHasNoEnd, Parts DEF EndParts, IInv, WayParts

LEMMA OneCommandKeeps ==
    ASSUME IInv, NEW X, X \subseteq Simple \ Trees, OneCommand(X)
    PROVE  IInv'
<1>0. TypeOK /\ op \in X /\ pc = "write" /\ op \in AllOps
  BY OpsAreKnown DEF IInv, TypeOK, OneCommand, Writing
<1>1. op \in Commands /\ op \notin Marked /\ op # "popStash" /\ op \in Simple
  <2>1. op \in Simple
    BY <1>0
  <2>2. QED
    BY <1>0, <2>1 DEF Commands, Marked, AllOps, Simple, Branching, Trees, Modules, Staging,
         Tags, Starts, Continues, Aborts
<1>2. PICK g \in GitRuns(op, repo) :
        /\ repo' = g[2] /\ ended' = g[1] /\ did' = (g[1] = "ok")
        /\ mine' = (mine \/ Mark(op) \in g[2].open \ repo.open)
        /\ killed' = (killed \/ g[1] = "killed")
        /\ used' = [used EXCEPT !.faults = @ + IF g[1] \in Clean THEN 0 ELSE 1]
        /\ UNCHANGED <<op, before, named, blind, disturbed>>
        /\ pc' = "done" /\ todo' = todo
        /\ result' = IF g[1] = "ok" THEN "succeeded" ELSE GitFailure(g[1])
  BY DEF OneCommand, Write, Finish
<1>3. Wrote(op, g)
  BY <1>0, <1>1, <1>2, WritesAsSaid
<1>4. /\ result' \in Outcomes \ {"none"} /\ (result' = "succeeded" => g[1] = "ok")
      /\ (result' = "failed" => g[1] \notin {"ok", "killed"})
  BY <1>2 DEF GitFailure, Outcomes
<1>5. TypeOK' => MarkersAgree'
  BY <1>1, <1>2, <1>4, UnmarkedAgrees
<1>6. KilledIsNotFailed'
  <2>1. ~killed
    BY <1>0 DEF IInv, Unwritten, Idle
  <2>2. QED
    BY <1>2, <1>4, <2>1 DEF KilledIsNotFailed
<1>7. FailedChangedNothing'
  <2> SUFFICES ASSUME Settled', result' = "failed", op \notin Piecemeal,
                      ended' # "limit"
               PROVE  SameWorktree(repo', before')
    BY <1>1, <1>2 DEF FailedChangedNothing
  <2>1. g[1] \in {"exit", "spawn"}
    BY <1>2, <1>3, <1>4 DEF Wrote, Ran, Ends
  <2>2. Stops(op, repo) = {}
    <3>1. op \notin Starts \cup Continues \cup Commits \cup Network \cup Modules \cup Creations
                    \cup {"applyStash", "popStash", "switchBranch", "createWorktree",
                          "removeWorktree"}
      BY <1>1 DEF Simple, Branching, Trees, Modules, Staging, Tags, Starts, Continues,
                  Commits, Network, Creations, Piecemeal
    <3>2. QED
      BY <1>0, <3>1, NothingStops
  <2>3. repo' = before'
    BY <1>0, <1>2, <1>3, <2>1, <2>2, NothingDone DEF Settled
  <2>4. QED
    BY <2>3, UntouchedIsSame
<1>8. QED
  BY <1>0, <1>1, <1>2, <1>3, <1>4, <1>5, <1>6, <1>7, WriteEnds DEF EndParts

USE DEF Goto, Finish

LEMMA StagesApart ==
    /\ pc' = "head" /\ Heading' => WayParts'
    /\ pc' = "write2" /\ Halfway' => WayParts'
    /\ pc' = "compare" /\ Comparing' => WayParts'
    /\ pc' \in {"reread", "count", "abort"} /\ Judging' => WayParts'
    /\ pc' \in {"check", "write"} /\ Unwritten' /\ Located' => WayParts'
    /\ pc' \in {"idle", "queued"} /\ AtRest' => WayParts'
BY DEF WayParts, AtRest, Unwritten, Located, Halfway, Comparing, Judging, Heading

LEMMA RunTreeKeeps == ASSUME IInv, RunTree PROVE IInv'
<1>0. TypeOK /\ op \in Trees /\ pc = "write" /\ ~killed
  BY DEF IInv, RunTree, Writing, Unwritten, Idle
<1>1. op \in Commands /\ op \notin Marked /\ op \notin Stashes /\ op \notin Commits \cup Remotes
  BY <1>0 DEF Commands, Marked, AllOps, Simple, Branching, Trees, Stashes,
              Starts, Continues, Aborts, Commits, Remotes
<1>2. PICK g \in GitRuns(op, repo) :
        /\ repo' = g[2] /\ ended' = g[1] /\ did' = (g[1] = "ok")
        /\ mine' = (mine \/ Mark(op) \in g[2].open \ repo.open)
        /\ killed' = (killed \/ g[1] = "killed")
        /\ used' = [used EXCEPT !.faults = @ + IF g[1] \in Clean THEN 0 ELSE 1]
        /\ UNCHANGED <<op, before, named, blind, disturbed>>
        /\ IF g[1] = "ok" THEN pc' = "head" /\ UNCHANGED <<todo, result>>
           ELSE pc' = "done" /\ result' = GitFailure(g[1]) /\ UNCHANGED todo
  BY DEF RunTree, Write, HeadOr
<1>3. Wrote(op, g)
  BY <1>0, <1>1, <1>2, WritesAsSaid
<1>4. CASE g[1] = "ok"
  <2>1. Mark(op) \notin repo'.open
    <3>1. repo'.open \subseteq Marks
      BY <1>3 DEF Wrote, Keeps, Worktree
    <3>2. QED
      BY <1>0, <1>1, <1>2, <3>1, MarkIsOne, NoneIsNoMark, OpsAreKnown DEF Marked, TypeOK
  <2>2. Heading'
    BY <1>0, <1>1, <1>2, <1>4, <2>1 DEF Heading
  <2>3. QED
    BY <1>0, <1>1, <1>2, <1>3, <1>4, <2>2, StagesApart, WriteGoesOn DEF Places, Stashes
<1>5. CASE g[1] # "ok"
  <2>1. /\ pc' = "done" /\ result' \in Outcomes \ {"none"} /\ result' # "succeeded"
        /\ (result' = "failed" => g[1] \notin {"ok", "killed"})
    BY <1>2, <1>5 DEF GitFailure, Outcomes
  <2>2. TypeOK' => MarkersAgree'
    BY <1>1, <1>2, <2>1, UnmarkedAgrees
  <2>3. KilledIsNotFailed'
    BY <1>0, <1>2, <2>1 DEF KilledIsNotFailed
  <2>4. FailedChangedNothing'
    <3> SUFFICES ASSUME Settled', result' = "failed", op \notin Piecemeal, ended' # "limit"
                 PROVE  SameWorktree(repo', before')
      BY <1>0, <1>2 DEF FailedChangedNothing, Simple
    <3>1. g[1] \in {"exit", "spawn"}
      BY <1>2, <1>3, <2>1 DEF Wrote, Ran, Ends
    <3>2. Stops(op, repo) = {}
      <4>1. op \notin Starts \cup Continues \cup Commits \cup Network \cup Modules \cup Creations
                        \cup {"applyStash", "popStash", "switchBranch", "createWorktree",
                              "removeWorktree"}
        BY <1>0 DEF Trees, Modules, Starts, Continues, Commits, Network, Creations, Piecemeal
      <4>2. QED
        BY <1>0, <4>1, NothingStops, OpsAreKnown DEF TypeOK
    <3>3. repo' = before'
      BY <1>0, <1>2, <1>3, <3>1, <3>2, NothingDone DEF Settled
    <3>4. QED
      BY <3>3, UntouchedIsSame
  <2>5. QED
    BY <1>0, <1>1, <1>2, <1>3, <1>5, <2>1, <2>2, <2>3, <2>4, WriteEnds DEF EndParts, Stashes
<1>6. QED
  BY <1>4, <1>5

LEMMA RunPopKeeps == ASSUME IInv, RunPop PROVE IInv'
<1>0. TypeOK /\ op = "popStash" /\ pc = "write" /\ ~killed
  BY DEF IInv, RunPop, Writing, Unwritten, Idle
<1>1. op \in Commands /\ op \notin Marked
  BY <1>0 DEF Commands, Marked, AllOps, Stashes, Starts, Continues, Aborts
<1>2. PICK g \in GitRuns(op, repo) :
        /\ repo' = g[2] /\ ended' = g[1] /\ did' = (g[1] = "ok")
        /\ mine' = (mine \/ Mark(op) \in g[2].open \ repo.open)
        /\ killed' = (killed \/ g[1] = "killed")
        /\ used' = [used EXCEPT !.faults = @ + IF g[1] \in Clean THEN 0 ELSE 1]
        /\ UNCHANGED <<op, before, named, blind, disturbed>>
        /\ pc' = "done" /\ UNCHANGED todo
        /\ result' = CASE g[1] = "ok" -> "succeeded"
                       [] g[1] = "exit" -> "needsAttention"
                       [] OTHER -> GitFailure(g[1])
  BY DEF RunPop, Write
<1>3. Wrote(op, g)
  BY <1>0, <1>1, <1>2, WritesAsSaid
<1>4. /\ result' \in Outcomes \ {"none"} /\ (result' = "succeeded" => g[1] = "ok")
      /\ (result' = "failed" => g[1] \in {"spawn", "limit"})
  BY <1>2, <1>3 DEF GitFailure, Outcomes, Wrote, Ran, Ends
<1>5. TypeOK' => MarkersAgree'
  BY <1>1, <1>2, <1>4, UnmarkedAgrees
<1>6. KilledIsNotFailed'
  BY <1>0, <1>2, <1>4 DEF KilledIsNotFailed
<1>7. FailedChangedNothing'
  <2> SUFFICES ASSUME Settled', result' = "failed", ended' # "limit"
               PROVE  SameWorktree(repo', before')
    BY <1>0, <1>2 DEF FailedChangedNothing
  <2>1. g[1] = "spawn"
    BY <1>2, <1>4
  <2>2. repo' = before'
    BY <1>0, <1>2, <1>3, <2>1, NothingDone DEF Settled
  <2>3. QED
    BY <2>2, UntouchedIsSame
<1>8. QED
  BY <1>0, <1>1, <1>2, <1>3, <1>4, <1>5, <1>6, <1>7, WriteEnds DEF EndParts

LEMMA RunResetKeeps == ASSUME IInv, RunReset PROVE IInv'
<1>0. TypeOK /\ op = "resetBranch" /\ pc = "write" /\ ~killed
  BY DEF IInv, RunReset, Writing, Unwritten, Idle
<1>1. op \in Commands /\ op \notin Marked /\ op \notin Commits \cup Remotes
  BY <1>0 DEF Commands, Marked, AllOps, Simple, Branching, Trees, Modules, Staging, Tags, Stashes,
         Network, Creations, Starts, Continues, Aborts, Commits, Remotes
<1>2. PICK g \in GitRuns(op, repo) :
        /\ repo' = g[2] /\ ended' = g[1] /\ did' = (g[1] = "ok")
        /\ mine' = (mine \/ Mark(op) \in g[2].open \ repo.open)
        /\ killed' = (killed \/ g[1] = "killed")
        /\ used' = [used EXCEPT !.faults = @ + IF g[1] \in Clean THEN 0 ELSE 1]
        /\ UNCHANGED <<op, before, named, blind, disturbed>>
        /\ IF g[1] = "ok" THEN pc' = "head" /\ UNCHANGED <<todo, result>>
           ELSE /\ pc' = "done" /\ UNCHANGED todo
                /\ result' = IF g[1] \in Stopped THEN "unknown" ELSE "failed"
  BY DEF RunReset, Write, HeadOr
<1>3. Wrote(op, g)
  BY <1>0, <1>1, <1>2, WritesAsSaid
<1>4. CASE g[1] = "ok"
  <2>1. Mark(op) \notin repo'.open
    <3>1. repo'.open \subseteq Marks
      BY <1>3 DEF Wrote, Keeps, Worktree
    <3>2. QED
      BY <1>0, <1>1, <1>2, <3>1, MarkIsOne, NoneIsNoMark DEF Marked
  <2>2. Heading'
    BY <1>0, <1>1, <1>2, <1>4, <2>1 DEF Heading
  <2>3. QED
    BY <1>0, <1>1, <1>2, <1>3, <1>4, <2>2, StagesApart, WriteGoesOn DEF Places
<1>5. CASE g[1] # "ok"
  <2>1. /\ pc' = "done" /\ result' \in Outcomes \ {"none"} /\ result' # "succeeded"
        /\ (result' = "failed" => g[1] \in {"exit", "spawn"})
    BY <1>2, <1>3, <1>5 DEF Stopped, Outcomes, Wrote, Ran, Ends
  <2>2. TypeOK' => MarkersAgree'
    BY <1>1, <1>2, <2>1, UnmarkedAgrees
  <2>3. KilledIsNotFailed'
    BY <1>0, <1>2, <2>1 DEF KilledIsNotFailed
  <2>4. FailedChangedNothing'
    <3> SUFFICES ASSUME Settled', result' = "failed"
                 PROVE  SameWorktree(repo', before')
      BY DEF FailedChangedNothing
    <3>1. Stops(op, repo) = {}
      BY <1>0, NothingStops, OpsAreKnown
         DEF TypeOK, Starts, Continues, Commits, Network, Modules, Creations
    <3>2. repo' = before'
      BY <1>0, <1>2, <1>3, <2>1, <3>1, NothingDone DEF Settled
    <3>3. QED
      BY <3>2, UntouchedIsSame
  <2>5. QED
    BY <1>0, <1>1, <1>2, <1>3, <1>5, <2>1, <2>2, <2>3, <2>4, WriteEnds DEF EndParts
<1>6. QED
  BY <1>4, <1>5

LEMMA UnmarkedIsNotMine ==
    ASSUME NEW c, NEW g, Wrote(c, g), c \notin Marked, c # "abortRevert"
    PROVE  (mine' => mine) /\ Mark(c) \notin repo'.open
<1>1. repo'.open \subseteq Marks
  BY DEF Wrote, Keeps, Worktree
<1>2. Mark(c) \notin g[2].open
  BY <1>1, MarkIsOne DEF Wrote, Marked
<1>3. QED
  BY <1>1, <1>2 DEF Wrote

LEMMA RunCommitKeeps == ASSUME IInv, RunCommit PROVE IInv'
<1>0. TypeOK /\ op \in Commits /\ pc = "write" /\ ~killed /\ ~mine /\ (~disturbed => repo = before)
  BY DEF IInv, RunCommit, Writing, Unwritten, Idle
<1>1. op \in Commands /\ op \notin Marked /\ op \notin Stashes /\ op # "abortRevert"
  BY <1>0 DEF Commands, Marked, AllOps, Stashes, Starts, Continues, Aborts, Commits
<1>2. PICK g \in GitRuns(op, repo) :
        /\ repo' = g[2] /\ ended' = g[1] /\ did' = (g[1] = "ok")
        /\ mine' = (mine \/ Mark(op) \in g[2].open \ repo.open)
        /\ killed' = (killed \/ g[1] = "killed")
        /\ used' = [used EXCEPT !.faults = @ + IF g[1] \in Clean THEN 0 ELSE 1]
        /\ UNCHANGED <<op, before, named, blind, disturbed>>
        /\ pc' = "compare" /\ UNCHANGED <<todo, result>>
  BY DEF RunCommit, Write
<1>3. Wrote(op, g)
  BY <1>0, <1>1, <1>2, WritesAsSaid
<1>4. ~mine'
  BY <1>0, <1>1, <1>3, UnmarkedIsNotMine
<1>5. ASSUME g[1] = "exit", ~disturbed
      PROVE  repo' = before \/ repo'.head # before.head
  <2>1. CASE g[2] = repo
    BY <1>0, <1>2, <1>5, <2>1
  <2>2. CASE g[2] # repo
    <3>1. g[2] = Done(op, repo)
      BY <1>0, <1>3, <1>5, <2>2, HookStops DEF Wrote, Ran
    <3>2. g[2] = [repo EXCEPT !.head = NewHead(repo), !.open = @ \cap {"rebase"}]
      BY <1>0, <3>1, DoneCommit
    <3>3. g[2].head = NewHead(repo)
      BY <1>0, <3>2, WithCommit DEF TypeOK
    <3>4. QED
      BY <1>2, <3>3, HeadIsNew
  <2>3. QED
    BY <2>1, <2>2
<1>6. Comparing'
  BY <1>0, <1>2, <1>4, <1>5 DEF Comparing
<1>7. QED
  BY <1>0, <1>1, <1>2, <1>3, <1>6, StagesApart, WriteGoesOn DEF Places, Stashes

LEMMA RunSquashKeeps == ASSUME IInv, RunSquash PROVE IInv'
<1>0. TypeOK /\ op = "squashCommit" /\ pc = "write" /\ ~killed /\ ~mine
  BY DEF IInv, RunSquash, Writing, Unwritten, Idle
<1>1. "softReset" \in Commands /\ "softReset" \notin Marked /\ op \notin Marked
  BY <1>0 DEF Commands, Marked, Starts, Continues, Aborts
<1>2. PICK g \in GitRuns("softReset", repo) :
        /\ repo' = g[2] /\ ended' = g[1] /\ did' = (g[1] = "ok")
        /\ mine' = (mine \/ Mark("softReset") \in g[2].open \ repo.open)
        /\ killed' = (killed \/ g[1] = "killed")
        /\ used' = [used EXCEPT !.faults = @ + IF g[1] \in Clean THEN 0 ELSE 1]
        /\ UNCHANGED <<op, before, named, blind, disturbed>>
        /\ \/ g[1] = "ok" /\ pc' = "write2" /\ UNCHANGED <<todo, result>>
           \/ g[1] \in Stopped /\ pc' = "done" /\ result' = "unknown" /\ UNCHANGED todo
           \/ g[1] \notin Stopped \cup {"ok"} /\ pc' = "done" /\ result' = "failed"
                  /\ UNCHANGED todo
  BY DEF RunSquash, Write
<1>3. Wrote("softReset", g)
  BY <1>0, <1>1, <1>2, WritesAsSaid
<1>4. CASE g[1] = "ok" /\ pc' = "write2" /\ UNCHANGED <<todo, result>>
  <2>1. Halfway'
    BY <1>0, <1>1, <1>2, <1>3, <1>4, UnmarkedIsNotMine DEF Halfway
  <2>2. QED
    BY <1>0, <1>3, <1>4, <2>1, StagesApart, WriteGoesOn DEF Places
<1>5. CASE g[1] # "ok" /\ pc' = "done" /\ UNCHANGED todo
           /\ result' \in {"unknown", "failed"} /\ (result' = "failed" => g[1] \notin Stopped)
  <2>1. result' \in Outcomes \ {"none"}
    BY <1>5 DEF Outcomes
  <2>2. TypeOK' => MarkersAgree'
    BY <1>1, <1>2, <1>5, UnmarkedAgrees
  <2>3. KilledIsNotFailed'
    BY <1>0, <1>2, <1>5 DEF KilledIsNotFailed, Stopped
  <2>4. FailedChangedNothing'
    BY <1>0, <1>2 DEF FailedChangedNothing, Piecemeal
  <2>5. QED
    BY <1>0, <1>3, <1>5, <2>1, <2>2, <2>3, <2>4, WriteEnds DEF EndParts
<1>6. QED
  BY <1>2, <1>4, <1>5 DEF Stopped

LEMMA SquashAmendKeeps == ASSUME IInv, SquashAmend PROVE IInv'
<1>0. TypeOK /\ op = "squashCommit" /\ pc = "write2" /\ ~killed /\ ~mine
  BY DEF IInv, SquashAmend, Writing, Halfway
<1>1. /\ "amendCommit" \in Commands /\ "amendCommit" \notin Marked
      /\ op \notin Marked /\ op \notin Commits \cup Remotes /\ op # "abortRevert"
  BY <1>0 DEF Commands, AllOps, Marked, Starts, Continues, Aborts, Commits, Remotes
<1>2. PICK g \in GitRuns("amendCommit", repo) :
        /\ repo' = g[2] /\ ended' = g[1] /\ did' = (g[1] = "ok")
        /\ mine' = (mine \/ Mark("amendCommit") \in g[2].open \ repo.open)
        /\ killed' = (killed \/ g[1] = "killed")
        /\ used' = [used EXCEPT !.faults = @ + IF g[1] \in Clean THEN 0 ELSE 1]
        /\ UNCHANGED <<op, before, named, blind, disturbed>>
        /\ IF g[1] = "ok" THEN pc' = "head" /\ UNCHANGED <<todo, result>>
           ELSE /\ pc' = "done" /\ UNCHANGED todo
                /\ result' = IF g[1] \in Stopped THEN "unknown" ELSE "failed"
  BY DEF SquashAmend, Write, HeadOr
<1>3. Wrote("amendCommit", g)
  BY <1>0, <1>1, <1>2, WritesAsSaid
<1>4. CASE g[1] = "ok"
  <2>1. Mark(op) \notin repo'.open
    <3>1. repo'.open \subseteq Marks
      BY <1>3 DEF Wrote, Keeps, Worktree
    <3>2. QED
      BY <1>1, <3>1, MarkIsOne DEF Marked
  <2>2. Heading'
    BY <1>0, <1>1, <1>2, <1>4, <2>1 DEF Heading
  <2>3. QED
    BY <1>0, <1>2, <1>3, <1>4, <2>2, StagesApart, WriteGoesOn DEF Places
<1>5. CASE g[1] # "ok"
  <2>1. /\ pc' = "done" /\ result' \in Outcomes \ {"none"} /\ result' # "succeeded"
        /\ (result' = "failed" => g[1] \notin Stopped)
    BY <1>2, <1>5 DEF Outcomes
  <2>2. TypeOK' => MarkersAgree'
    BY <1>1, <1>2, <2>1, UnmarkedAgrees
  <2>3. KilledIsNotFailed'
    BY <1>0, <1>2, <2>1 DEF KilledIsNotFailed, Stopped
  <2>4. FailedChangedNothing'
    BY <1>0, <1>2 DEF FailedChangedNothing, Piecemeal
  <2>5. QED
    BY <1>0, <1>2, <1>3, <1>5, <2>1, <2>2, <2>3, <2>4, WriteEnds DEF EndParts
<1>6. QED
  BY <1>4, <1>5

LEMMA RunRemoteKeeps == ASSUME IInv, RunRemote PROVE IInv'
<1>0. TypeOK /\ op \in Remotes /\ pc \in {"write", "write2"} /\ ~killed /\ ~mine
  BY DEF IInv, RunRemote, Writing, Unwritten, Idle, Halfway
<1>1. op \in Commands /\ op \notin Marked /\ op \notin Stashes /\ op # "abortRevert"
  BY <1>0 DEF Commands, Marked, AllOps, Stashes, Starts, Continues, Aborts, Remotes
<1>2. PICK g \in GitRuns(op, repo) :
        /\ repo' = g[2] /\ ended' = g[1] /\ did' = (g[1] = "ok")
        /\ mine' = (mine \/ Mark(op) \in g[2].open \ repo.open)
        /\ killed' = (killed \/ g[1] = "killed")
        /\ used' = [used EXCEPT !.faults = @ + IF g[1] \in Clean THEN 0 ELSE 1]
        /\ UNCHANGED <<op, before, named, blind, disturbed>>
        /\ IF g[1] = "ok"
           THEN \/ pc' = "done" /\ result' = "succeeded" /\ UNCHANGED todo
                \/ pc = "write" /\ pc' = "write2" /\ UNCHANGED <<todo, result>>
           ELSE /\ pc' = "done" /\ UNCHANGED todo
                /\ result' = IF op = "addRemote" THEN GitFailure(g[1]) ELSE "needsAttention"
  BY DEF RunRemote, Write
<1>3. Wrote(op, g)
  BY <1>0, <1>1, <1>2, WritesAsSaid
<1>4. CASE g[1] = "ok" /\ pc' = "write2" /\ UNCHANGED <<todo, result>>
  <2>1. Halfway'
    BY <1>0, <1>1, <1>2, <1>3, <1>4, UnmarkedIsNotMine DEF Halfway
  <2>2. QED
    BY <1>0, <1>1, <1>3, <1>4, <2>1, StagesApart, WriteGoesOn DEF Places, Stashes
<1>5. CASE pc' = "done" /\ UNCHANGED todo
  <2>1. /\ result' \in Outcomes \ {"none"} /\ (result' = "succeeded" => g[1] = "ok")
        /\ (result' = "failed" => g[1] # "killed" /\ op = "addRemote")
    BY <1>2, <1>5 DEF Outcomes, GitFailure
  <2>2. TypeOK' => MarkersAgree'
    BY <1>1, <1>2, <2>1, UnmarkedAgrees
  <2>3. KilledIsNotFailed'
    BY <1>0, <1>2, <2>1 DEF KilledIsNotFailed
  <2>4. FailedChangedNothing'
    BY <1>0, <1>2, <2>1 DEF FailedChangedNothing, Piecemeal
  <2>5. QED
    BY <1>0, <1>1, <1>3, <1>5, <2>1, <2>2, <2>3, <2>4, WriteEnds DEF EndParts, Stashes
<1>6. QED
  BY <1>2, <1>4, <1>5

LEMMA RunNetworkKeeps == ASSUME IInv, RunNetwork PROVE IInv'
<1> DEFINE c == IF op = "pull" THEN "fetch" ELSE op
<1>0. TypeOK /\ op \in Network /\ pc = "write" /\ ~killed /\ ~mine
  BY DEF IInv, RunNetwork, Writing, Unwritten, Idle
<1>1. /\ c \in Commands /\ c \notin Marked /\ c \notin Stashes /\ c # "abortRevert"
      /\ op \notin Marked
  BY <1>0 DEF Commands, Marked, AllOps, Stashes, Starts, Continues, Aborts, Network
<1>2. PICK g \in GitRuns(c, repo) :
        /\ repo' = g[2] /\ ended' = g[1] /\ did' = (g[1] = "ok")
        /\ mine' = (mine \/ Mark(c) \in g[2].open \ repo.open)
        /\ killed' = (killed \/ g[1] = "killed")
        /\ used' = [used EXCEPT !.faults = @ + IF g[1] \in Clean THEN 0 ELSE 1]
        /\ UNCHANGED <<op, before, named, blind, disturbed>>
        /\ \/ g[1] = "ok" /\ IF op = "pull" THEN pc' = "write2" /\ UNCHANGED <<todo, result>>
                             ELSE pc' = "done" /\ result' = "succeeded" /\ UNCHANGED todo
           \/ g[1] # "ok" /\ pc' = "done" /\ result' = GitFailure(g[1]) /\ UNCHANGED todo
           \/ g[1] # "ok" /\ op \in {"push", "pushTag"}
                  /\ pc' = "done" /\ result' = "failed" /\ UNCHANGED todo
           \/ pc' = "done" /\ result' = "unknown" /\ UNCHANGED todo
  BY DEF RunNetwork, Write
<1> HIDE DEF c
<1>3. Wrote(c, g)
  BY <1>0, <1>1, <1>2, WritesAsSaid
<1>4. CASE g[1] = "ok" /\ op = "pull" /\ pc' = "write2" /\ UNCHANGED <<todo, result>>
  <2>1. Halfway'
    BY <1>0, <1>1, <1>2, <1>3, <1>4, UnmarkedIsNotMine DEF Halfway
  <2>2. QED
    BY <1>0, <1>1, <1>3, <1>4, <2>1, StagesApart, WriteGoesOn DEF Places, Stashes
<1>5. CASE pc' = "done" /\ UNCHANGED todo
  <2>1. /\ result' \in Outcomes \ {"none"} /\ (result' = "succeeded" => g[1] = "ok")
        /\ (result' = "failed" => g[1] # "killed" \/ op \in {"push", "pushTag"})
    BY <1>2, <1>5 DEF Outcomes, GitFailure
  <2>2. TypeOK' => MarkersAgree'
    BY <1>1, <1>2, <2>1, UnmarkedAgrees
  <2>3. KilledIsNotFailed'
    BY <1>0, <1>2, <2>1 DEF KilledIsNotFailed
  <2>4. FailedChangedNothing'
    BY <1>0, <1>2 DEF FailedChangedNothing, Piecemeal
  <2>5. QED
    BY <1>0, <1>1, <1>3, <1>5, <2>1, <2>2, <2>3, <2>4, WriteEnds DEF EndParts, Stashes
<1>6. QED
  BY <1>2, <1>4, <1>5

LEMMA FastForwardKeeps == ASSUME IInv, FastForward PROVE IInv'
<1>0. TypeOK /\ op = "pull" /\ pc = "write2"
  BY DEF IInv, FastForward, Writing
<1>1. "fastForward" \in Commands /\ "fastForward" \notin Marked /\ op \notin Marked
  BY <1>0 DEF Commands, Marked, Starts, Continues, Aborts
<1>2. PICK g \in GitRuns("fastForward", repo) :
        /\ repo' = g[2] /\ ended' = g[1] /\ did' = (g[1] = "ok")
        /\ mine' = (mine \/ Mark("fastForward") \in g[2].open \ repo.open)
        /\ killed' = (killed \/ g[1] = "killed")
        /\ used' = [used EXCEPT !.faults = @ + IF g[1] \in Clean THEN 0 ELSE 1]
        /\ UNCHANGED <<op, before, named, blind, disturbed>>
        /\ pc' = "done" /\ UNCHANGED todo
        /\ result' = IF g[1] = "ok" THEN "succeeded" ELSE "failed"
  BY DEF FastForward, Write
<1>3. Wrote("fastForward", g)
  BY <1>0, <1>1, <1>2, WritesAsSaid
<1>4. result' \in Outcomes \ {"none"} /\ (result' = "succeeded" => g[1] = "ok")
  BY <1>2 DEF Outcomes
<1>5. TypeOK' => MarkersAgree'
  BY <1>1, <1>2, <1>4, UnmarkedAgrees
<1>6. KilledIsNotFailed' /\ FailedChangedNothing'
  BY <1>0, <1>2 DEF KilledIsNotFailed, FailedChangedNothing, Piecemeal, Network
<1>7. QED
  BY <1>0, <1>2, <1>3, <1>4, <1>5, <1>6, WriteEnds DEF EndParts

LEMMA RunCreationKeeps == ASSUME IInv, RunCreation PROVE IInv'
<1>0. TypeOK /\ op \in Creations /\ pc = "write" /\ ~killed /\ (~disturbed => repo = before)
  BY DEF IInv, RunCreation, Writing, Unwritten, Idle
<1>1. op \in Commands /\ op \notin Marked /\ op \notin Stashes
  BY <1>0 DEF Commands, Marked, AllOps, Stashes, Starts, Continues, Aborts, Creations
<1>2. PICK g \in GitRuns(op, repo) :
        /\ repo' = g[2] /\ ended' = g[1] /\ did' = (g[1] = "ok")
        /\ mine' = (mine \/ Mark(op) \in g[2].open \ repo.open)
        /\ killed' = (killed \/ g[1] = "killed")
        /\ used' = [used EXCEPT !.faults = @ + IF g[1] \in Clean THEN 0 ELSE 1]
        /\ UNCHANGED <<op, before, named, blind, disturbed>>
        /\ pc' = "done" /\ UNCHANGED todo
        /\ \/ g[1] = "ok" /\ result' \in {"succeeded", "needsAttention"}
           \/ g[1] = "exit"
                 /\ result' = IF ~repo.files /\ g[2].files THEN "needsAttention" ELSE "failed"
           \/ g[1] \notin {"ok", "exit"} /\ result' = "unknown"
  BY DEF RunCreation, Write
<1>3. Wrote(op, g)
  BY <1>0, <1>1, <1>2, WritesAsSaid
<1>4. /\ result' \in Outcomes \ {"none"} /\ (result' = "succeeded" => g[1] = "ok")
      /\ (result' = "failed" => g[1] = "exit" /\ ~(~repo.files /\ g[2].files))
  BY <1>2 DEF Outcomes
<1>5. TypeOK' => MarkersAgree'
  BY <1>1, <1>2, <1>4, UnmarkedAgrees
<1>6. KilledIsNotFailed'
  BY <1>0, <1>2, <1>4 DEF KilledIsNotFailed
<1>7. FailedChangedNothing'
  <2> SUFFICES ASSUME Settled', result' = "failed"
               PROVE  repo' = before'
    BY UntouchedIsSame DEF FailedChangedNothing
  <2>1. g[2] = repo
    <3> SUFFICES ASSUME g[2] # repo PROVE FALSE
      OBVIOUS
    <3>1. g[2] \in Stops(op, repo)
      BY <1>3, <1>4 DEF Wrote, Ran
    <3>2. ~repo.files /\ g[2] = [repo EXCEPT !.files = TRUE]
      <4>1. Stops(op, repo) = IF repo.files THEN {} ELSE {[repo EXCEPT !.files = TRUE]}
        BY <1>0, CreationStops
      <4>2. QED
        BY <3>1, <4>1
    <3>3. g[2].files
      BY <1>0, <3>2, WithFiles DEF TypeOK
    <3>4. QED
      BY <1>4, <3>2, <3>3
  <2>2. QED
    BY <1>0, <1>2, <2>1 DEF Settled
<1>8. QED
  BY <1>0, <1>1, <1>2, <1>3, <1>4, <1>5, <1>6, <1>7, WriteEnds DEF EndParts, Stashes

-----------------------------------------------------------------------------
(* The steps that only look.                                                 *)

LEMMA LookEnds ==
    ASSUME IInv, TypeOK', UNCHANGED <<repo, before, named, disturbed>>,
           pc \notin {"idle", "queued"}, pc' = "done", EndParts'
    PROVE  IInv'
<1>1. StashKept'
  BY DEF IInv, StashKept
<1>2. QED
  BY <1>1, DoneHasNoWay, Parts DEF EndParts, IInv, WayParts

LEMMA LookGoesOn ==
    ASSUME IInv, TypeOK', UNCHANGED <<repo, before, named, disturbed>>,
           pc \notin {"idle", "queued"}, pc' # "done", WayParts'
    PROVE  IInv'
<1>1. StashKept'
  BY DEF IInv, StashKept
<1>2. QED
  BY <1>1, WayHasNoEnd, Parts DEF EndParts, IInv, WayParts

LEMMA CompareKeeps == ASSUME IInv, Compare PROVE IInv'
<1>0. /\ TypeOK /\ op \in Commits /\ pc = "compare" /\ (killed => ended = "killed")
      /\ did = (ended = "ok")
      /\ ended = "exit" /\ ~disturbed => repo = before \/ repo.head # before.head
  BY DEF IInv, Compare, Comparing
<1>1. op \notin Marked
  BY <1>0 DEF Marked, Starts, Continues, Aborts, Commits
<1>2. PICK a \in Answers(TRUE) :
        /\ blind' = (blind \/ a[2])
        /\ used' = [used EXCEPT !.faults = @ + IF a[2] THEN 1 ELSE 0]
        /\ UNCHANGED <<repo, op, before, named, ended, ghosts>>
        /\ pc' = "done" /\ UNCHANGED todo
        /\ result' = CASE ~a[1] -> "unknown"
                       [] a[1] /\ repo.head # before.head ->
                             IF ended = "ok" THEN "succeeded" ELSE "needsAttention"
                       [] a[1] /\ repo.head = before.head /\ ended = "ok" ->
                             IF op = "amendCommit" THEN "succeeded" ELSE "unknown"
                       [] OTHER -> IF ended = "exit" THEN "failed" ELSE "unknown"
  BY DEF Compare, Read
<1>3. Answered(TRUE, a)
  BY <1>2, AnswersAsSaid
<1>4. /\ result' \in Outcomes \ {"none"} /\ (result' = "succeeded" => ended = "ok")
      /\ (result' = "failed" => ended = "exit" /\ repo.head = before.head)
  <2>1. CASE ~a[1]
    BY <1>2, <2>1 DEF Outcomes
  <2>2. CASE a[1] /\ repo.head # before.head
    BY <1>2, <2>2 DEF Outcomes
  <2>3. CASE a[1] /\ repo.head = before.head
    BY <1>2, <2>3 DEF Outcomes
  <2>4. QED
    BY <2>1, <2>2, <2>3
<1>5. TypeOK'
  <2>1. Goes("done", result') /\ todo' \in Seq(Marks)
    BY <1>0, <1>2, <1>4 DEF Goes, TypeOK
  <2>2. QED
    BY <1>0, <1>3, <1>4, <2>1, ReadTypes DEF Places
<1>6. MarkersAgree'
  BY <1>0, <1>1, <1>3, <1>4, <1>5, UnmarkedAgrees DEF Answered
<1>7. KilledIsNotFailed' /\ FailedChangedNothing'
  BY <1>0, <1>3, <1>4, UntouchedIsSame
     DEF KilledIsNotFailed, FailedChangedNothing, Settled, Answered
<1>8. QED
  BY <1>0, <1>2, <1>3, <1>5, <1>6, <1>7, LookEnds DEF EndParts, Answered

LEMMA ReadHeadKeeps == ASSUME IInv, ReadHead PROVE IInv'
<1>0. /\ TypeOK /\ pc = "head" /\ ~killed /\ (did \/ op \in Continues)
      /\ Clear => Mark(op) \notin repo.open
  BY DEF IInv, ReadHead, Heading
<1>1. PICK a \in Answers(TRUE) :
        /\ blind' = (blind \/ a[2])
        /\ used' = [used EXCEPT !.faults = @ + IF a[2] THEN 1 ELSE 0]
        /\ UNCHANGED <<repo, op, before, named, ended, ghosts>>
        /\ pc' = "done" /\ UNCHANGED todo
        /\ result' = IF a[1] THEN "succeeded" ELSE "unknown"
  BY DEF ReadHead, Read
<1>2. Answered(TRUE, a)
  BY <1>1, AnswersAsSaid
<1>3. result' \in {"succeeded", "unknown"} /\ result' \in Outcomes \ {"none"}
  BY <1>1 DEF Outcomes
<1>4. TypeOK'
  <2>1. Goes("done", result') /\ todo' \in Seq(Marks)
    BY <1>0, <1>1, <1>3 DEF Goes, TypeOK
  <2>2. QED
    BY <1>0, <1>2, <1>3, <2>1, ReadTypes DEF Places
<1>5. MarkersAgree'
  BY <1>0, <1>2, <1>3 DEF MarkersAgree, Settled, Clear, Answered
<1>6. KilledIsNotFailed' /\ FailedChangedNothing'
  BY <1>3 DEF KilledIsNotFailed, FailedChangedNothing
<1>7. QED
  BY <1>0, <1>1, <1>2, <1>4, <1>5, <1>6, LookEnds DEF EndParts, Answered

\* A failure before the first write.
LEMMA EarlyFailure ==
    ASSUME IInv, TypeOK', UNCHANGED <<repo, op, before, named, mine, killed, disturbed>>,
           pc \in {"check", "write"}, pc' = "done", result' \in {"failed", "unknown"}
    PROVE  IInv'
<1>1. ~mine /\ ~killed /\ (~disturbed => repo = before)
  BY DEF IInv, Unwritten, Idle
<1>2. MarkersAgree' /\ KilledIsNotFailed'
  BY <1>1 DEF MarkersAgree, KilledIsNotFailed
<1>3. FailedChangedNothing'
  BY <1>1, UntouchedIsSame DEF FailedChangedNothing, Settled
<1>4. QED
  BY <1>2, <1>3, LookEnds DEF EndParts

LEMMA TailHasTheRest ==
    ASSUME NEW S, NEW s \in Seq(S), s # <<>>, NEW e \in Range(s), e # Head(s)
    PROVE  e \in Range(Tail(s))
<1>1. PICK i \in 1 .. Len(s) : e = s[i]
  BY DEF Range
<1>2. i # 1 /\ i - 1 \in 1 .. Len(Tail(s)) /\ Tail(s)[i - 1] = s[i]
  BY <1>1
<1>3. QED
  BY <1>1, <1>2 DEF Range

LEMMA ProbeKeeps == ASSUME IInv, Probe PROVE IInv'
<1>0. TypeOK /\ pc = "check" /\ todo # <<>> /\ todo \in Seq(Marks) /\ result = "none"
  BY DEF IInv, Probe, TypeOK
<1>1. PICK a \in Answers(Head(todo) \in repo.open) :
        /\ blind' = (blind \/ a[2])
        /\ used' = [used EXCEPT !.faults = @ + IF a[2] THEN 1 ELSE 0]
        /\ UNCHANGED <<repo, op, before, named, ended, ghosts>>
        /\ IF a[1] # Needs(op) THEN pc' = "done" /\ result' = "failed" /\ UNCHANGED todo
           ELSE todo' = Tail(todo) /\ UNCHANGED <<pc, result>>
  BY DEF Probe, Read
<1>2. Answered(Head(todo) \in repo.open, a)
  <2> DEFINE there == Head(todo) \in repo.open
  <2>1. there \in BOOLEAN /\ a \in Answers(there)
    BY <1>1
  <2> HIDE DEF there
  <2>2. Answered(there, a)
    BY <1>1, <2>1, AnswersAsSaid
  <2>3. QED
    BY <2>2 DEF there
<1>3. CASE a[1] # Needs(op)
  <2>1. Goes("done", "failed") /\ "failed" \in Outcomes
    BY <1>1, <1>3 DEF Goes, Outcomes
  <2>2. TypeOK'
    BY <1>0, <1>1, <1>2, <1>3, <2>1, ReadTypes DEF Places
  <2>3. QED
    BY <1>0, <1>1, <1>2, <1>3, <2>2, EarlyFailure DEF Answered
<1>4. CASE a[1] = Needs(op)
  <2>1. TypeOK'
    <3>1. Goes("check", "none") /\ "none" \in Outcomes
      BY <1>0, <1>1, <1>4 DEF Goes, Outcomes
    <3>2. todo' \in Seq(Marks)
      BY <1>0, <1>1, <1>4
    <3>3. QED
      BY <1>0, <1>2, <3>1, <3>2, ReadTypes DEF Places
  <2>2. Unwritten'
    <3>1. Idle' /\ (~disturbed' => repo' = before')
      BY <1>0, <1>2 DEF IInv, Unwritten, Idle, Answered
    <3>2. ASSUME op \in Starts, Clear', Mark(op) \in repo.open
          PROVE  Mark(op) \in Range(Tail(todo))
      <4>1. Mark(op) \in Range(todo)
        BY <1>0, <1>2, <3>2 DEF IInv, Unwritten, Clear, Answered
      <4>2. ~Needs(op)
        BY <3>2 DEF Needs, Starts, Continues, Aborts
      <4>3. Head(todo) \notin repo.open
        BY <1>2, <1>4, <3>2, <4>2 DEF Answered, Clear
      <4>4. QED
        BY <1>0, <3>2, <4>1, <4>3, TailHasTheRest
    <3>3. QED
      BY <1>0, <1>1, <1>2, <1>4, <3>1, <3>2 DEF Unwritten, Answered
  <2>3. Located'
    BY <1>0, <1>1, <1>4 DEF Located
  <2>4. QED
    BY <1>0, <1>1, <1>2, <1>4, <2>1, <2>2, <2>3, StagesApart, LookGoesOn DEF Answered
<1>5. QED
  BY <1>3, <1>4

\* A step that goes on without a look.
LEMMA StillTypes ==
    ASSUME TypeOK, UNCHANGED <<repo, op, before, named, ended, blind, used, ghosts>>,
           NEW p \in Places, NEW res \in Outcomes, Goes(p, res), todo' \in Seq(Marks)
    PROVE  TypeOK'
BY DEF TypeOK, ghosts, Goes, Places

LEMMA ToTheWrite ==
    ASSUME IInv, TypeOK', pc = "check", todo = <<>>, pc' = "write",
           UNCHANGED <<repo, op, before, named, ended, did, mine, killed, disturbed>>,
           blind => blind',
           op \in Stashes /\ ~disturbed =>
               named.at \in DOMAIN repo.stash /\ repo.stash[named.at] = named.entry
    PROVE  IInv'
<1>1. ~(op \in Starts /\ Clear /\ Mark(op) \in repo.open)
  <2>1. Mark(op) \notin Range(todo)
    BY DEF Range
  <2>2. QED
    BY <2>1 DEF IInv, Unwritten
<1>2. Unwritten'
  BY <1>1 DEF IInv, Unwritten, Clear, Idle
<1>3. Located'
  BY DEF Located
<1>4. QED
  BY <1>2, <1>3, StagesApart, LookGoesOn

LEMMA LookupKeeps == ASSUME IInv, Lookup PROVE IInv'
<1>0. /\ TypeOK /\ pc = "check" /\ todo = <<>> /\ todo \in Seq(Marks) /\ result = "none"
      /\ {"check", "write", "done"} \subseteq Places
      /\ {"none", "failed", "unknown"} \subseteq Outcomes
  BY DEF IInv, Lookup, TypeOK, Places, Outcomes
<1>1. ASSUME NEW truth \in BOOLEAN, NEW a, Answered(truth, a),
             pc' = "write", UNCHANGED <<todo, result>>,
             op \in Stashes /\ ~disturbed =>
               named.at \in DOMAIN repo.stash /\ repo.stash[named.at] = named.entry
      PROVE  IInv'
  <2>1. TypeOK'
    <3>1. Goes("write", "none")
      BY <1>0, <1>1 DEF Goes
    <3>2. QED
      BY <1>0, <1>1, <3>1, ReadTypes
  <2>2. QED
    BY <1>0, <1>1, <2>1, ToTheWrite DEF Answered
<1>2. ASSUME NEW truth \in BOOLEAN, NEW a, Answered(truth, a),
             pc' = "done", UNCHANGED todo, result' \in {"failed", "unknown"}
      PROVE  IInv'
  <2>1. TypeOK'
    <3>1. Goes("done", result') /\ result' \in Outcomes
      BY <1>0, <1>2 DEF Goes
    <3>2. QED
      BY <1>0, <1>2, <3>1, ReadTypes
  <2>2. QED
    BY <1>0, <1>2, <2>1, EarlyFailure DEF Answered
<1>3. ASSUME UNCHANGED <<repo, op, before, named, ended, blind, used, ghosts>>,
             pc' = "write", UNCHANGED <<todo, result>>, op \notin Stashes
      PROVE  IInv'
  <2>1. TypeOK'
    <3>1. Goes("write", "none")
      BY <1>0, <1>3 DEF Goes
    <3>2. QED
      BY <1>0, <1>3, <3>1, StillTypes
  <2>2. QED
    BY <1>0, <1>3, <2>1, ToTheWrite DEF ghosts
<1>4. ASSUME UNCHANGED <<repo, op, before, named, ended, blind, used, ghosts>>,
             pc' = "done", UNCHANGED todo, result' = "failed"
      PROVE  IInv'
  <2>1. TypeOK'
    <3>1. Goes("done", "failed")
      BY <1>0, <1>4 DEF Goes
    <3>2. QED
      BY <1>0, <1>4, <3>1, StillTypes
  <2>2. QED
    BY <1>0, <1>4, <2>1, EarlyFailure DEF ghosts
<1>5. CASE op \in Stashes
  <2>0. op \notin Commits \cup {"merge", "squashCommit"}
    BY <1>5 DEF Commits, Stashes
  <2> DEFINE same == named.at \in DOMAIN repo.stash /\ repo.stash[named.at] = named.entry
  <2>1. PICK a \in Answers(same) :
          /\ blind' = (blind \/ a[2])
          /\ used' = [used EXCEPT !.faults = @ + IF a[2] THEN 1 ELSE 0]
          /\ UNCHANGED <<repo, op, before, named, ended, ghosts>>
          /\ IF a[1] THEN pc' = "write" /\ UNCHANGED <<todo, result>>
             ELSE pc' = "done" /\ result' = "failed" /\ UNCHANGED todo
    BY <1>5, <2>0 DEF Lookup, Read
  <2>2. same \in BOOLEAN
    OBVIOUS
  <2> HIDE DEF same
  <2>3. Answered(same, a)
    BY <2>1, <2>2, AnswersAsSaid
  <2>4. CASE a[1]
    <3>1. same
      BY <2>3, <2>4 DEF Answered
    <3>2. QED
      BY <1>1, <2>1, <2>2, <2>3, <2>4, <3>1 DEF same
  <2>5. CASE ~a[1]
    BY <1>2, <2>1, <2>2, <2>3, <2>5
  <2>6. QED
    BY <2>4, <2>5
<1>6. CASE op \in Commits \cup {"merge", "squashCommit"}
  <2>0. op \notin Stashes
    BY <1>6 DEF Commits, Stashes
  <2>1. \/ \E a \in Answers(TRUE) :
              /\ blind' = (blind \/ a[2])
              /\ used' = [used EXCEPT !.faults = @ + IF a[2] THEN 1 ELSE 0]
              /\ UNCHANGED <<repo, op, before, named, ended, ghosts>>
              /\ IF a[1] THEN pc' = "write" /\ UNCHANGED <<todo, result>>
                 ELSE pc' = "done" /\ result' = "unknown" /\ UNCHANGED todo
        \/ /\ UNCHANGED <<repo, op, before, named, ended, blind, used, ghosts>>
           /\ pc' = "done" /\ result' = "failed" /\ UNCHANGED todo
    BY <1>6, <2>0 DEF Lookup, Read
  <2>2. ASSUME NEW a \in Answers(TRUE),
               blind' = (blind \/ a[2]),
               used' = [used EXCEPT !.faults = @ + IF a[2] THEN 1 ELSE 0],
               UNCHANGED <<repo, op, before, named, ended, ghosts>>,
               IF a[1] THEN pc' = "write" /\ UNCHANGED <<todo, result>>
               ELSE pc' = "done" /\ result' = "unknown" /\ UNCHANGED todo
        PROVE  IInv'
    <3>1. Answered(TRUE, a)
      BY <2>2, AnswersAsSaid
    <3>2. QED
      BY <1>1, <1>2, <2>0, <2>2, <3>1
  <2>3. QED
    BY <1>4, <2>1, <2>2
<1>7. CASE op \notin Stashes /\ op \notin Commits \cup {"merge", "squashCommit"}
  BY <1>3, <1>4, <1>7 DEF Lookup
<1>8. QED
  BY <1>5, <1>6, <1>7

LEMMA ChecksAre ==
    ASSUME NEW o
    PROVE  Checks(o) \in Seq(Marks) /\ (o \in Starts => Mark(o) \in Range(Checks(o)))
<1>1. /\ <<>> \in Seq(Marks) /\ <<"merge">> \in Seq(Marks)
      /\ <<"merge", "revert">> \in Seq(Marks)
      /\ <<"merge", "revert", "cherryPick">> \in Seq(Marks)
      /\ <<"merge", "revert", "cherryPick", "rebase">> \in Seq(Marks)
  BY DEF Marks
<1>2. CASE o \in Continues \cup Aborts
  <2>1. o \notin Starts /\ Checks(o) = <<Mark(o)>> /\ Mark(o) \in Marks
    BY <1>2, SMT DEF Checks, Starts, Continues, Aborts, Mark, Marks
  <2>2. QED
    BY <2>1
<1>3. CASE o = "merge"
  <2>1. Checks(o) = <<"merge">> /\ Mark(o) = "merge"
    BY <1>3, SMT DEF Checks, Continues, Aborts, Mark
  <2>2. <<"merge">>[1] = "merge" /\ 1 \in DOMAIN <<"merge">>
    OBVIOUS
  <2>3. "merge" \in Range(<<"merge">>)
    BY <2>2 DEF Range
  <2>4. QED
    BY <1>1, <2>1, <2>3
<1>4. CASE o = "cherryPick"
  <2> DEFINE all == <<"merge", "revert", "cherryPick">>
  <2>1. Checks(o) = all /\ Mark(o) = "cherryPick"
    BY <1>4, SMT DEF Checks, Continues, Aborts, Mark
  <2>2. all[3] = "cherryPick" /\ 3 \in DOMAIN all
    OBVIOUS
  <2> HIDE DEF all
  <2>3. "cherryPick" \in Range(all)
    BY <2>2 DEF Range
  <2>4. QED
    BY <1>1, <2>1, <2>3 DEF all
<1>5. CASE o = "revertCommit"
  <2> DEFINE all == <<"merge", "revert">>
  <2>1. Checks(o) = all /\ Mark(o) = "revert"
    BY <1>5, SMT DEF Checks, Continues, Aborts, Mark
  <2>2. all[2] = "revert" /\ 2 \in DOMAIN all
    OBVIOUS
  <2> HIDE DEF all
  <2>3. "revert" \in Range(all)
    BY <2>2 DEF Range
  <2>4. QED
    BY <1>1, <2>1, <2>3 DEF all
<1>6. CASE o \in {"rebase", "dropCommit"}
  <2> DEFINE all == <<"merge", "revert", "cherryPick", "rebase">>
  <2>1. Checks(o) = all /\ Mark(o) = "rebase"
    BY <1>6, SMT DEF Checks, Continues, Aborts, Mark
  <2>2. all[4] = "rebase" /\ 4 \in DOMAIN all
    OBVIOUS
  <2> HIDE DEF all
  <2>3. "rebase" \in Range(all)
    BY <2>2 DEF Range
  <2>4. QED
    BY <1>1, <2>1, <2>3 DEF all
<1>7. CASE o \in {"resetBranch", "squashCommit"}
  <2>1. o \notin Starts
    BY <1>7 DEF Starts
  <2>2. \/ Checks(o) = <<"merge", "revert">>
        \/ Checks(o) = <<"merge", "revert", "cherryPick", "rebase">>
    BY <1>7, SMT DEF Checks, Continues, Aborts
  <2>3. QED
    BY <1>1, <2>1, <2>2
<1>8. CASE o \notin Starts \cup Continues \cup Aborts \cup {"resetBranch", "squashCommit"}
  <2>1. Checks(o) = <<>>
    BY <1>8, SMT DEF Checks, Starts
  <2>2. QED
    BY <1>1, <1>8, <2>1
<1>9. QED
  BY <1>2, <1>3, <1>4, <1>5, <1>6, <1>7, <1>8 DEF Starts

LEMMA ResolveFactsKeeps == ASSUME IInv, ResolveFacts PROVE IInv'
<1>0. /\ TypeOK /\ pc = "queued" /\ todo \in Seq(Marks) /\ result = "none" /\ Idle /\ Clear
      /\ {"check", "done"} \subseteq Places /\ {"none", "failed"} \subseteq Outcomes
      /\ before' = repo /\ UNCHANGED <<repo, op, named, ended, blind, used, ghosts>>
  BY DEF IInv, ResolveFacts, TypeOK, Places, Outcomes, AtRest
<1>1. StashKept'
  BY <1>0 DEF StashKept
<1>2. CASE pc' = "done" /\ result' = "failed" /\ UNCHANGED todo
  <2>1. TypeOK'
    BY <1>0, <1>2 DEF TypeOK, ghosts, Places
  <2>2. MarkersAgree' /\ KilledIsNotFailed' /\ FailedChangedNothing'
    BY <1>0, <1>2, UntouchedIsSame
       DEF MarkersAgree, KilledIsNotFailed, FailedChangedNothing, Idle, ghosts
  <2>3. QED
    BY <1>1, <1>2, <2>1, <2>2, DoneHasNoWay, Parts DEF EndParts, IInv, WayParts
<1>3. CASE pc' = "check" /\ todo' = Checks(op) /\ UNCHANGED result
  <2>1. TypeOK'
    BY <1>0, <1>3, ChecksAre DEF TypeOK, ghosts, Places
  <2>2. Unwritten'
    BY <1>0, <1>3, ChecksAre DEF Unwritten, Idle, ghosts
  <2>3. Located'
    BY <1>3 DEF Located
  <2>4. QED
    BY <1>1, <1>3, <2>1, <2>2, <2>3, StagesApart, WayHasNoEnd, Parts
       DEF EndParts, IInv, WayParts
<1>4. QED
  BY <1>2, <1>3 DEF ResolveFacts

LEMMA SubmitKeeps == ASSUME IInv, NEW o \in Ops, Submit(o) PROVE IInv'
<1>0. /\ TypeOK /\ pc = "idle" /\ used.ops < MaxOps /\ Idle /\ Clear
      /\ op' = o /\ result' = "none" /\ pc' = "queued"
      /\ used' = [used EXCEPT !.ops = @ + 1]
      /\ UNCHANGED <<repo, todo, before, ended, blind, ghosts>>
  BY DEF IInv, Submit, AtRest
<1>1. named' \in [at : Nat, entry : Nat]
  <2>1. repo.stash \in Seq(Nat)
    BY <1>0 DEF TypeOK, Worktree
  <2>2. PICK i \in (IF o \in Stashes THEN DOMAIN repo.stash ELSE {0}) :
          named' = [at |-> i, entry |-> IF i = 0 THEN 0 ELSE repo.stash[i]]
    BY DEF Submit
  <2>3. CASE i = 0
    BY <2>2, <2>3
  <2>4. CASE i # 0
    <3>1. i \in 1 .. Len(repo.stash)
      BY <2>1, <2>2, <2>4
    <3>2. repo.stash[i] \in Nat /\ i \in Nat
      BY <2>1, <3>1
    <3>3. QED
      BY <2>2, <2>4, <3>2
  <2>5. QED
    BY <2>3, <2>4
<1>2. used' \in [ops : 0..MaxOps, faults : 0..MaxFaults, outside : 0..MaxOutside]
  <2>1. used \in [ops : 0..MaxOps, faults : 0..MaxFaults, outside : 0..MaxOutside]
    BY <1>0 DEF TypeOK
  <2>2. used.ops + 1 \in 0..MaxOps
    BY <1>0, <2>1, WorkflowsAssumption
  <2>3. QED
    BY <1>0, <2>1, <2>2
<1>3. TypeOK'
  BY <1>0, <1>1, <1>2 DEF TypeOK, ghosts, Outcomes
<1>4. AtRest'
  BY <1>0 DEF AtRest, Idle, Clear, ghosts
<1>5. StashKept'
  BY <1>0 DEF StashKept
<1>6. QED
  BY <1>0, <1>3, <1>4, <1>5, StagesApart, WayHasNoEnd, Parts DEF EndParts, IInv, WayParts

LEMMA ReportKeeps == ASSUME IInv, Report PROVE IInv'
<1>1. /\ TypeOK /\ pc' = "idle" /\ result' = "none" /\ ended' = "none" /\ todo' = <<>>
      /\ before' = repo /\ named' = [at |-> 0, entry |-> 0]
      /\ did' = FALSE /\ mine' = FALSE /\ killed' = FALSE /\ blind' = FALSE
      /\ disturbed' = FALSE /\ UNCHANGED <<repo, op, used>>
  BY DEF IInv, Report
<1>2. TypeOK'
  <2>1. todo' \in Seq(Marks) /\ named' \in [at : Nat, entry : Nat]
    BY <1>1
  <2>2. QED
    BY <1>1, <2>1 DEF TypeOK, Outcomes
<1>3. AtRest' /\ StashKept'
  BY <1>1 DEF AtRest, Idle, Clear, StashKept
<1>4. QED
  BY <1>1, <1>2, <1>3, StagesApart, WayHasNoEnd, Parts DEF EndParts, IInv, WayParts

LEMMA OutsideKeeps == ASSUME IInv, Outside PROVE IInv'
<1>0. /\ TypeOK /\ used.outside < MaxOutside
      /\ used' = [used EXCEPT !.outside = @ + 1]
      /\ disturbed' = (pc \notin {"idle", "queued"})
      /\ UNCHANGED <<op, pc, todo, before, named, ended, result, did, mine, killed, blind>>
  BY DEF IInv, Outside
<1>1. repo \in Worktree /\ before \in Worktree
  BY <1>0 DEF TypeOK
<1>2. repo' \in Worktree
  <2>1. CASE repo' = [repo EXCEPT !.head = NewHead(repo)]
    BY <1>1, <2>1, HeadIsNew, WithHead
  <2>2. CASE repo' = Pushed(repo)
    BY <1>1, <2>2, PushedIs
  <2>3. ASSUME NEW m \in repo.open, repo' = [Closed(repo, m) EXCEPT !.head = repo.orig]
        PROVE  repo' \in Worktree
    <3>1. Closed(repo, m) \in Worktree /\ repo.orig \in 0..3
      BY <1>1, ClosedIs DEF Worktree
    <3>2. QED
      BY <2>3, <3>1, WithHead
  <2>4. ASSUME NEW m \in Marks,
               repo' = [repo EXCEPT !.open = @ \cup {m}, !.conflicts = TRUE, !.orig = repo.head]
        PROVE  repo' \in Worktree
    BY <1>1, <2>4 DEF Worktree
  <2>5. QED
    BY <2>1, <2>2, <2>3, <2>4 DEF Outside
<1>3. used' \in [ops : 0..MaxOps, faults : 0..MaxFaults, outside : 0..MaxOutside]
  <2>1. used \in [ops : 0..MaxOps, faults : 0..MaxFaults, outside : 0..MaxOutside]
    BY <1>0 DEF TypeOK
  <2>2. used.outside + 1 \in 0..MaxOutside
    BY <1>0, <2>1, WorkflowsAssumption
  <2>3. QED
    BY <1>0, <2>1, <2>2
<1>4. TypeOK'
  BY <1>0, <1>2, <1>3 DEF TypeOK
<1>5. CASE pc \in {"idle", "queued"}
  <2>1. AtRest'
    BY <1>0, <1>5 DEF IInv, AtRest, Idle, Clear
  <2>2. StashKept' /\ pc' # "done"
    BY <1>0, <1>5 DEF StashKept
  <2>3. QED
    BY <1>0, <1>4, <1>5, <2>1, <2>2, StagesApart, WayHasNoEnd, Parts DEF EndParts, IInv, WayParts
<1>6. CASE pc \notin {"idle", "queued"}
  <2>1. AtRest' /\ Unwritten' /\ Located' /\ Halfway'
    BY <1>0, <1>6 DEF IInv, AtRest, Unwritten, Located, Halfway, Idle, Clear
  <2>2. Comparing' /\ Judging' /\ Heading' /\ StashKept'
    BY <1>0, <1>6 DEF IInv, Comparing, Judging, Heading, StashKept, Clear
  <2>3. FailedChangedNothing' /\ MarkersAgree' /\ KilledIsNotFailed'
    BY <1>0, <1>6 DEF IInv, FailedChangedNothing, MarkersAgree, KilledIsNotFailed, Settled
  <2>4. QED
    BY <1>4, <2>1, <2>2, <2>3 DEF IInv
<1>7. QED
  BY <1>5, <1>6

-----------------------------------------------------------------------------
(* The sequencer operations.                                                 *)

LEMMA StartIsMarked == \A o \in Starts : Mark(o) \in Marks /\ o \notin Continues \cup Aborts
BY MarkIsOne DEF Starts, Continues, Aborts

LEMMA RunStartKeeps == ASSUME IInv, RunStart PROVE IInv'
<1>0. /\ TypeOK /\ op \in Starts /\ pc = "write" /\ ~killed /\ ~mine
      /\ (~disturbed => repo = before) /\ ~(Clear /\ Mark(op) \in repo.open)
  BY DEF IInv, RunStart, Writing, Unwritten, Idle
<1>1. /\ op \in Commands /\ op \notin Stashes /\ op \notin Commits \cup Remotes
      /\ op \notin Continues \cup Aborts /\ Mark(op) \in Marks
  BY <1>0, StartIsMarked DEF Commands, AllOps, Stashes, Starts, Commits, Remotes
<1>2. PICK g \in GitRuns(op, repo) :
        /\ repo' = g[2] /\ ended' = g[1] /\ did' = (g[1] = "ok")
        /\ mine' = (mine \/ Mark(op) \in g[2].open \ repo.open)
        /\ killed' = (killed \/ g[1] = "killed")
        /\ used' = [used EXCEPT !.faults = @ + IF g[1] \in Clean THEN 0 ELSE 1]
        /\ UNCHANGED <<op, before, named, blind, disturbed>>
        /\ \/ g[1] = "ok" /\ pc' = "head" /\ UNCHANGED <<todo, result>>
           \/ g[1] \in Stopped /\ pc' = "done" /\ result' = "unknown" /\ UNCHANGED todo
           \/ g[1] \in {"exit", "spawn"} /\ pc' = "reread" /\ UNCHANGED <<todo, result>>
           \/ /\ g[1] = "exit" /\ g[2] = repo
              /\ pc' = "done" /\ result' = "failed" /\ UNCHANGED todo
  BY DEF RunStart, Write
<1>3. Wrote(op, g)
  BY <1>0, <1>1, <1>2, WritesAsSaid
<1>a. repo \in Worktree /\ before \in Worktree
  BY <1>0 DEF TypeOK
<1>4. CASE g[1] = "ok" /\ pc' = "head" /\ UNCHANGED <<todo, result>>
  <2>1. Mark(op) \notin repo'.open
    <3>1. ~Refuses(op, repo) /\ g[2] = Done(op, repo)
      BY <1>3, <1>4 DEF Wrote, Ran
    <3>2. repo.open = {}
      BY <1>0, <3>1 DEF Refuses
    <3>3. Done(op, repo) = [repo EXCEPT !.head = NewHead(repo)]
      BY <1>0, DoneMoves
    <3>4. g[2].open = repo.open
      BY <1>a, <3>1, <3>3, HeadIsNew, WithHead
    <3>5. QED
      BY <1>2, <3>2, <3>4
  <2>2. Heading'
    BY <1>0, <1>1, <1>2, <1>4, <2>1 DEF Heading
  <2>3. QED
    BY <1>0, <1>1, <1>3, <1>4, <2>2, StagesApart, WriteGoesOn DEF Places, Stashes
<1>5. CASE g[1] \in Stopped /\ pc' = "done" /\ result' = "unknown" /\ UNCHANGED todo
  <2>1. EndParts' /\ result' \in Outcomes \ {"none"}
    BY <1>5 DEF EndParts, MarkersAgree, KilledIsNotFailed, FailedChangedNothing, Outcomes
  <2>2. QED
    BY <1>0, <1>1, <1>3, <1>5, <2>1, WriteEnds DEF Stashes
<1>6. CASE g[1] \in {"exit", "spawn"} /\ pc' = "reread" /\ UNCHANGED <<todo, result>>
  <2>1. ASSUME ~disturbed, g[2] # repo
        PROVE  /\ before.open = {} /\ before.conflicts = FALSE
               /\ \E f \in BOOLEAN :
                     g[2] = [before EXCEPT !.open = {Mark(op)}, !.conflicts = f,
                                           !.orig = before.head]
               /\ Mark(op) \in g[2].open \ repo.open
    <3>1. ~Refuses(op, repo) /\ g[2] \in Stops(op, repo) /\ repo = before
      BY <1>0, <1>3, <1>6, <2>1 DEF Wrote, Ran
    <3>2. repo.open = {} /\ ~repo.conflicts
      BY <1>0, <3>1 DEF Refuses
    <3>3. repo.conflicts = FALSE
      BY <1>a, <3>2 DEF Worktree
    <3>4. g[2] \in {[repo EXCEPT !.open = @ \cup {Mark(op)}, !.conflicts = f, !.orig = repo.head] :
                        f \in BOOLEAN}
      <4>1. op \in Starts /\ g[2] \in Stops(op, repo)
        BY <1>0, <3>1
      <4>2. QED
        BY <4>1, StartStops
    <3>5. PICK f \in BOOLEAN :
            g[2] = [repo EXCEPT !.open = @ \cup {Mark(op)}, !.conflicts = f, !.orig = repo.head]
      BY <3>4
    <3>6. g[2] = [repo EXCEPT !.open = {Mark(op)}, !.conflicts = f, !.orig = repo.head]
      BY <1>a, <3>2, <3>5 DEF Worktree
    <3>7. g[2].open = {Mark(op)}
      BY <1>a, <3>6 DEF Worktree
    <3>8. QED
      BY <3>1, <3>2, <3>3, <3>6, <3>7
  <2>2. ~disturbed /\ g[2] # repo => mine' /\ HeldUp'
    BY <1>2, <2>1 DEF HeldUp
  <2>3. ~disturbed /\ g[2] = repo => repo' = before'
    BY <1>0, <1>2
  <2>4. ~disturbed' => LeftBehind'
    BY <1>0, <1>2, <2>2, <2>3 DEF LeftBehind
  <2>5. Clear' /\ Mark(op') \in repo'.open => mine' /\ HeldUp'
    BY <1>0, <1>2, <2>2 DEF Clear
  <2>6. ~killed' /\ op' \in Starts
    BY <1>0, <1>2, <1>6
  <2>7. Judging'
    BY <1>6, <2>4, <2>5, <2>6 DEF Judging
  <2>8. QED
    BY <1>0, <1>1, <1>3, <1>6, <2>7, StagesApart, WriteGoesOn DEF Places, Stashes
<1>7. CASE g[1] = "exit" /\ g[2] = repo /\ pc' = "done" /\ result' = "failed" /\ UNCHANGED todo
  <2>1. ~mine' /\ ~killed' /\ (~disturbed' => repo' = before')
    BY <1>0, <1>2, <1>7
  <2>2. EndParts' /\ result' \in Outcomes \ {"none"}
    BY <1>7, <2>1, UntouchedIsSame
       DEF EndParts, MarkersAgree, KilledIsNotFailed, FailedChangedNothing, Outcomes, Settled
  <2>3. QED
    BY <1>0, <1>1, <1>3, <1>7, <2>2, WriteEnds DEF Stashes
<1>8. QED
  BY <1>2, <1>4, <1>5, <1>6, <1>7

LEMMA RunContinueKeeps == ASSUME IInv, RunContinue PROVE IInv'
<1>0. /\ TypeOK /\ op \in Continues /\ pc = "write" /\ ~killed /\ ~mine
      /\ (~disturbed => repo = before)
  BY DEF IInv, RunContinue, Writing, Unwritten, Idle
<1>1. /\ op \in Commands /\ op \notin Stashes /\ op \notin Commits \cup Remotes
      /\ op \notin Starts
  BY <1>0 DEF Commands, AllOps, Stashes, Continues, Starts, Commits, Remotes
<1>2. PICK g \in GitRuns(op, repo) :
        /\ repo' = g[2] /\ ended' = g[1] /\ did' = (g[1] = "ok")
        /\ mine' = (mine \/ Mark(op) \in g[2].open \ repo.open)
        /\ killed' = (killed \/ g[1] = "killed")
        /\ used' = [used EXCEPT !.faults = @ + IF g[1] \in Clean THEN 0 ELSE 1]
        /\ UNCHANGED <<op, before, named, blind, disturbed>>
        /\ \/ g[1] = "ok" /\ pc' = "head" /\ UNCHANGED <<todo, result>>
           \/ g[1] \in Stopped /\ pc' = "done" /\ result' = "unknown" /\ UNCHANGED todo
           \/ g[1] \notin Stopped \cup {"ok"} /\ pc' = "reread" /\ UNCHANGED <<todo, result>>
  BY DEF RunContinue, Write
<1>3. Wrote(op, g)
  BY <1>0, <1>1, <1>2, WritesAsSaid
<1>a. repo \in Worktree /\ before \in Worktree
  BY <1>0 DEF TypeOK
<1>b. ~mine'
  BY <1>0, <1>1, <1>3 DEF Wrote, Keeps
<1>4. CASE g[1] = "ok" /\ pc' = "head" /\ UNCHANGED <<todo, result>>
  <2>1. Mark(op) \notin repo'.open
    <3>1. g[2] = [Closed(repo, Mark(op)) EXCEPT !.head = NewHead(repo)]
      BY <1>0, <1>3, <1>4, DoneContinue DEF Wrote, Ran
    <3>2. /\ Closed(repo, Mark(op)) \in Worktree
          /\ Closed(repo, Mark(op)).open = repo.open \ {Mark(op)}
      BY <1>a, ClosedIs
    <3>3. g[2].open = Closed(repo, Mark(op)).open
      BY <3>1, <3>2, HeadIsNew, WithHead
    <3>4. QED
      BY <1>2, <3>2, <3>3
  <2>2. Heading'
    BY <1>0, <1>1, <1>2, <1>4, <2>1 DEF Heading
  <2>3. QED
    BY <1>0, <1>1, <1>3, <1>4, <2>2, StagesApart, WriteGoesOn DEF Places, Stashes
<1>5. CASE g[1] \in Stopped /\ pc' = "done" /\ result' = "unknown" /\ UNCHANGED todo
  <2>1. EndParts' /\ result' \in Outcomes \ {"none"}
    BY <1>b, <1>5 DEF EndParts, MarkersAgree, KilledIsNotFailed, FailedChangedNothing, Outcomes
  <2>2. QED
    BY <1>0, <1>1, <1>3, <1>5, <2>1, WriteEnds DEF Stashes
<1>6. CASE g[1] \notin Stopped \cup {"ok"} /\ pc' = "reread" /\ UNCHANGED <<todo, result>>
  <2>0. g[1] \in {"exit", "spawn"}
    BY <1>3, <1>6 DEF Wrote, Ran, Ends, Stopped
  <2>1. g[2] = repo \/ op = "continueRebase" \/ Mark(op) \notin g[2].open
    <3>1. ASSUME g[2] # repo, op # "continueRebase" PROVE Mark(op) \notin g[2].open
      <4>1. g[2] = Closed(repo, Mark(op))
        BY <1>0, <1>3, <2>0, <3>1, ContinueStops DEF Wrote, Ran
      <4>2. Closed(repo, Mark(op)).open = repo.open \ {Mark(op)}
        BY <1>a, ClosedIs
      <4>3. QED
        BY <4>1, <4>2
    <3>2. QED
      BY <3>1
  <2>2. ~disturbed' => LeftBehind'
    BY <1>0, <1>2, <2>1 DEF LeftBehind
  <2>3. Judging'
    BY <1>0, <1>1, <1>2, <1>b, <1>6, <2>0, <2>2 DEF Judging
  <2>4. QED
    BY <1>0, <1>1, <1>3, <1>6, <2>3, StagesApart, WriteGoesOn DEF Places, Stashes
<1>7. QED
  BY <1>2, <1>4, <1>5, <1>6

LEMMA RunAbortKeeps == ASSUME IInv, RunAbort PROVE IInv'
<1>0. TypeOK /\ op \in Aborts /\ pc = "write" /\ ~killed /\ ~mine
  BY DEF IInv, RunAbort, Writing, Unwritten, Idle
<1>1. /\ op \in Commands /\ op \notin Stashes /\ op \notin Commits \cup Remotes
      /\ op \notin Starts
  BY <1>0 DEF Commands, AllOps, Stashes, Aborts, Starts, Commits, Remotes
<1>2. PICK g \in GitRuns(op, repo) :
        /\ repo' = g[2] /\ ended' = g[1] /\ did' = (g[1] = "ok")
        /\ mine' = (mine \/ Mark(op) \in g[2].open \ repo.open)
        /\ killed' = (killed \/ g[1] = "killed")
        /\ used' = [used EXCEPT !.faults = @ + IF g[1] \in Clean THEN 0 ELSE 1]
        /\ UNCHANGED <<op, before, named, blind, disturbed>>
        /\ IF g[1] = "ok" THEN pc' = "head" /\ UNCHANGED <<todo, result>>
           ELSE /\ pc' = "done" /\ UNCHANGED todo
                /\ result' = IF g[1] \in Stopped THEN "unknown" ELSE "failed"
  BY DEF RunAbort, Write, HeadOr
<1>3. Wrote(op, g)
  BY <1>0, <1>1, <1>2, WritesAsSaid
<1>a. repo \in Worktree /\ before \in Worktree
  BY <1>0 DEF TypeOK
<1>b. ~mine'
  BY <1>0, <1>1, <1>3 DEF Wrote, Keeps
<1>4. CASE g[1] = "ok"
  <2>1. Mark(op) \notin repo'.open
    <3>1. g[2] = [Closed(repo, Mark(op)) EXCEPT !.head = repo.orig]
      BY <1>0, <1>3, <1>4, DoneAbort DEF Wrote, Ran
    <3>2. /\ Closed(repo, Mark(op)) \in Worktree /\ repo.orig \in 0..3
          /\ Closed(repo, Mark(op)).open = repo.open \ {Mark(op)}
      BY <1>a, ClosedIs DEF Worktree
    <3>3. g[2].open = Closed(repo, Mark(op)).open
      BY <3>1, <3>2, WithHead
    <3>4. QED
      BY <1>2, <3>2, <3>3
  <2>2. Heading'
    BY <1>0, <1>1, <1>2, <1>4, <2>1 DEF Heading
  <2>3. QED
    BY <1>0, <1>1, <1>2, <1>3, <1>4, <2>2, StagesApart, WriteGoesOn DEF Places, Stashes
<1>5. CASE g[1] # "ok"
  <2>1. /\ pc' = "done" /\ result' \in {"unknown", "failed"} /\ result' \in Outcomes \ {"none"}
        /\ (result' = "failed" => g[1] \in {"exit", "spawn"})
    BY <1>2, <1>3, <1>5 DEF Stopped, Outcomes, Wrote, Ran, Ends
  <2>2. MarkersAgree' /\ KilledIsNotFailed'
    BY <1>0, <1>2, <1>b, <2>1 DEF MarkersAgree, KilledIsNotFailed
  <2>3. FailedChangedNothing'
    <3> SUFFICES ASSUME Settled', result' = "failed"
                 PROVE  SameWorktree(repo', before')
      BY DEF FailedChangedNothing
    <3>1. Stops(op, repo) = {}
      <4>1. op \notin Starts \cup Continues \cup Commits \cup Network \cup Modules \cup Creations
                        \cup {"applyStash", "popStash", "switchBranch", "createWorktree",
                              "removeWorktree"}
        BY <1>0 DEF Aborts, Starts, Continues, Commits, Network, Modules, Creations
      <4>2. QED
        BY <1>0, <4>1, NothingStops, OpsAreKnown DEF TypeOK
    <3>2. repo' = before'
      BY <1>0, <1>2, <1>3, <2>1, <3>1, NothingDone DEF Settled
    <3>3. QED
      BY <3>2, UntouchedIsSame
  <2>4. QED
    BY <1>0, <1>1, <1>2, <1>3, <1>5, <2>1, <2>2, <2>3, WriteEnds DEF EndParts, Stashes
<1>6. QED
  BY <1>4, <1>5

LEMMA RereadKeeps == ASSUME IInv, Reread PROVE IInv'
<1> DEFINE there == Mark(op) \in repo.open
<1>0. /\ TypeOK /\ pc = "reread" /\ op \in Starts \cup Continues /\ ~killed
      /\ (mine => op \in Starts) /\ (~disturbed => LeftBehind)
      /\ (Clear /\ op \in Starts /\ there => mine /\ HeldUp)
      /\ todo \in Seq(Marks) /\ result = "none"
  BY DEF IInv, Reread, Judging, TypeOK
<1>1. PICK a \in Answers(there) :
        /\ blind' = (blind \/ a[2])
        /\ used' = [used EXCEPT !.faults = @ + IF a[2] THEN 1 ELSE 0]
        /\ UNCHANGED <<repo, op, before, named, ended, ghosts>>
        /\ CASE ~a[1] -> IF op \in Starts
                         THEN pc' = "done" /\ result' = "failed" /\ UNCHANGED todo
                         ELSE pc' = "head" /\ UNCHANGED <<todo, result>>
             [] a[1] /\ op = "merge" ->
                  pc' = "done" /\ result' = "needsAttention" /\ UNCHANGED todo
             [] a[1] /\ op = "continueMerge" ->
                  pc' = "done" /\ result' = "failed" /\ UNCHANGED todo
             [] a[1] /\ op = "revertCommit" -> pc' = "abort" /\ UNCHANGED <<todo, result>>
             [] OTHER -> pc' = "count" /\ UNCHANGED <<todo, result>>
  BY DEF Reread, Read
<1>2. there \in BOOLEAN
  OBVIOUS
<1>3. Answered(there, a)
  <2> HIDE DEF there
  <2>1. QED
    BY <1>1, <1>2, AnswersAsSaid
<1>4. /\ UNCHANGED <<repo, op, before, named, ended, did, mine, killed, disturbed>>
      /\ (Clear' => Clear) /\ (a[1] => there) /\ (there /\ Clear' => a[1])
  BY <1>3 DEF Answered, Clear
<1>5. /\ {"done", "head", "abort", "count"} \subseteq Places
      /\ {"none", "failed", "needsAttention"} \subseteq Outcomes
  BY DEF Places, Outcomes
<1>6. ASSUME pc' = "done", result' \in {"failed", "needsAttention"}, UNCHANGED todo, EndParts'
      PROVE  IInv'
  <2>1. TypeOK'
    <3>1. Goes("done", result') /\ todo' \in Seq(Marks) /\ result' \in Outcomes
      BY <1>0, <1>5, <1>6 DEF Goes
    <3>2. QED
      BY <1>0, <1>3, <1>5, <3>1, ReadTypes
  <2>2. QED
    BY <1>0, <1>4, <1>6, <2>1, LookEnds
<1>7. ASSUME pc' \in {"head", "abort", "count"}, UNCHANGED <<todo, result>>, WayParts'
      PROVE  IInv'
  <2>1. TypeOK'
    <3>1. Goes(pc', "none") /\ todo' \in Seq(Marks)
      BY <1>0, <1>7 DEF Goes
    <3>2. pc' \in Places
      BY <1>5, <1>7
    <3>3. QED
      BY <1>0, <1>3, <1>5, <3>1, <3>2, ReadTypes
  <2>2. QED
    BY <1>0, <1>4, <1>7, <2>1, LookGoesOn
<1> HIDE DEF there
<1>8. CASE ~a[1] /\ op \in Starts
  <2>1. pc' = "done" /\ result' = "failed" /\ UNCHANGED todo
    BY <1>1, <1>8
  <2>2. Clear' => Mark(op) \notin repo.open
    BY <1>4, <1>8 DEF there
  <2>3. op \notin Continues
    BY <1>8, StartIsMarked
  <2>4. Clear' => repo = before
    <3> SUFFICES ASSUME Clear' PROVE repo = before
      OBVIOUS
    <3>1. repo = before \/ HeldUp
      BY <1>0, <1>4, <2>3 DEF LeftBehind, Clear
    <3>2. ASSUME HeldUp PROVE FALSE
      <4>1. PICK f \in BOOLEAN :
              repo = [before EXCEPT !.open = {Mark(op)}, !.conflicts = f, !.orig = before.head]
        BY <3>2 DEF HeldUp
      <4>2. repo.open = {Mark(op)}
        BY <1>0, <4>1 DEF TypeOK, Worktree
      <4>3. QED
        BY <2>2, <4>2
    <3>3. QED
      BY <3>1, <3>2
  <2>5. EndParts'
    <3>1. FailedChangedNothing'
      BY <1>4, <2>4, UntouchedIsSame DEF FailedChangedNothing, Settled, Clear
    <3>2. MarkersAgree'
      BY <1>4, <2>1, <2>2 DEF MarkersAgree, Settled, Clear
    <3>3. KilledIsNotFailed'
      BY <1>0, <1>4 DEF KilledIsNotFailed
    <3>4. QED
      BY <3>1, <3>2, <3>3 DEF EndParts
  <2>6. QED
    BY <1>6, <2>1, <2>5
<1>9. CASE ~a[1] /\ op \notin Starts
  <2>1. pc' = "head" /\ UNCHANGED <<todo, result>> /\ op \in Continues
    BY <1>0, <1>1, <1>9
  <2>2. op \notin Commits \cup Remotes
    BY <2>1 DEF Commits, Remotes, Continues
  <2>3. Heading'
    BY <1>0, <1>4, <1>9, <2>1, <2>2 DEF Heading, there
  <2>4. QED
    BY <1>7, <2>1, <2>3, StagesApart
<1>10. CASE a[1] /\ op = "merge"
  <2>1. pc' = "done" /\ result' = "needsAttention" /\ UNCHANGED todo
    BY <1>1, <1>10
  <2>2. Mark(op) \in repo'.open
    BY <1>4, <1>10 DEF there
  <2>3. EndParts'
    BY <1>4, <2>1, <2>2 DEF EndParts, FailedChangedNothing, MarkersAgree, KilledIsNotFailed
  <2>4. QED
    BY <1>6, <2>1, <2>3
<1>11. CASE a[1] /\ op = "continueMerge"
  <2>1. pc' = "done" /\ result' = "failed" /\ UNCHANGED todo
    BY <1>1, <1>11
  <2>2. op \notin Starts
    BY <1>11 DEF Starts
  <2>3. ~disturbed => repo = before
    BY <1>0, <1>4, <1>11, <2>2 DEF LeftBehind, there
  <2>4. FailedChangedNothing'
    BY <1>4, <2>3, UntouchedIsSame DEF FailedChangedNothing, Settled
  <2>5. MarkersAgree' /\ KilledIsNotFailed'
    BY <1>0, <1>4, <2>1, <2>2 DEF MarkersAgree, KilledIsNotFailed
  <2>6. QED
    BY <1>6, <2>1, <2>4, <2>5 DEF EndParts
<1>12. CASE a[1] /\ op = "revertCommit"
  <2>1. pc' = "abort" /\ UNCHANGED <<todo, result>>
    BY <1>1, <1>12
  <2>2. op \in Starts \ {"merge"} /\ Mark(op) \in repo.open
    BY <1>4, <1>12 DEF Starts, there
  <2>3. ~disturbed' => LeftBehind'
    BY <1>0, <1>4 DEF LeftBehind, HeldUp
  <2>4. Clear' => mine' /\ HeldUp'
    BY <1>0, <1>4, <2>2 DEF HeldUp, there
  <2>5. Judging'
    BY <1>0, <1>4, <2>1, <2>2, <2>3, <2>4 DEF Judging
  <2>6. QED
    BY <1>7, <2>1, <2>5, StagesApart
<1>13. CASE a[1] /\ op \notin {"merge", "continueMerge", "revertCommit"}
  <2>1. pc' = "count" /\ UNCHANGED <<todo, result>>
    BY <1>1, <1>13
  <2>2. Mark(op) \in repo.open
    BY <1>4, <1>13 DEF there
  <2>3. ~disturbed' => LeftBehind'
    BY <1>0, <1>4 DEF LeftBehind, HeldUp
  <2>4. Clear' /\ op \in Starts => mine' /\ HeldUp'
    BY <1>0, <1>4, <2>2 DEF HeldUp, there
  <2>5. Judging'
    BY <1>0, <1>4, <1>13, <2>1, <2>2, <2>3, <2>4 DEF Judging
  <2>6. QED
    BY <1>7, <2>1, <2>5, StagesApart
<1>14. QED
  BY <1>8, <1>9, <1>10, <1>11, <1>12, <1>13

LEMMA CountKeeps == ASSUME IInv, Count PROVE IInv'
<1> DEFINE some == repo.conflicts
<1>0. /\ TypeOK /\ pc = "count" /\ op \in Starts \cup Continues /\ ~killed
      /\ op \notin {"merge", "revertCommit", "continueMerge"}
      /\ (mine => op \in Starts) /\ (~disturbed => LeftBehind)
      /\ (Clear /\ op \in Starts /\ Mark(op) \in repo.open => mine /\ HeldUp)
      /\ (Clear => Mark(op) \in repo.open)
      /\ todo \in Seq(Marks) /\ result = "none"
  BY DEF IInv, Count, Judging, TypeOK
<1>1. PICK a \in Answers(some) :
        /\ blind' = (blind \/ a[2])
        /\ used' = [used EXCEPT !.faults = @ + IF a[2] THEN 1 ELSE 0]
        /\ UNCHANGED <<repo, op, before, named, ended, ghosts>>
        /\ CASE a[1] -> pc' = "done" /\ result' = "needsAttention" /\ UNCHANGED todo
             [] ~a[1] /\ op \in Starts -> pc' = "abort" /\ UNCHANGED <<todo, result>>
             [] OTHER -> pc' = "done" /\ result' = "failed" /\ UNCHANGED todo
  BY DEF Count, Read
<1>2. some \in BOOLEAN
  BY <1>0 DEF TypeOK, Worktree
<1>3. Answered(some, a)
  <2> HIDE DEF some
  <2>1. QED
    BY <1>1, <1>2, AnswersAsSaid
<1>4. /\ UNCHANGED <<repo, op, before, named, ended, did, mine, killed, disturbed>>
      /\ (Clear' => Clear)
  BY <1>3 DEF Answered, Clear
<1>5. /\ {"done", "abort"} \subseteq Places
      /\ {"none", "failed", "needsAttention"} \subseteq Outcomes
  BY DEF Places, Outcomes
<1>6. ASSUME pc' = "done", result' \in {"failed", "needsAttention"}, UNCHANGED todo, EndParts'
      PROVE  IInv'
  <2>1. TypeOK'
    <3>1. Goes("done", result') /\ todo' \in Seq(Marks) /\ result' \in Outcomes
      BY <1>0, <1>5, <1>6 DEF Goes
    <3>2. QED
      BY <1>0, <1>3, <1>5, <3>1, ReadTypes
  <2>2. QED
    BY <1>0, <1>4, <1>6, <2>1, LookEnds
<1> HIDE DEF some
<1>7. CASE a[1]
  <2>1. pc' = "done" /\ result' = "needsAttention" /\ UNCHANGED todo
    BY <1>1, <1>7
  <2>2. Clear' => Mark(op) \in repo.open
    BY <1>0, <1>4
  <2>3. MarkersAgree'
    BY <1>4, <2>1, <2>2 DEF MarkersAgree, Settled, Clear
  <2>4. KilledIsNotFailed' /\ FailedChangedNothing'
    BY <2>1 DEF FailedChangedNothing, KilledIsNotFailed
  <2>5. QED
    BY <1>6, <2>1, <2>3, <2>4 DEF EndParts
<1>8. CASE ~a[1] /\ op \in Starts
  <2>1. pc' = "abort" /\ UNCHANGED <<todo, result>>
    BY <1>1, <1>8
  <2>2. TypeOK'
    <3>1. Goes("abort", "none") /\ todo' \in Seq(Marks)
      BY <1>0, <2>1 DEF Goes
    <3>2. QED
      BY <1>0, <1>3, <1>5, <3>1, ReadTypes
  <2>3. ~disturbed' => LeftBehind'
    BY <1>0, <1>4 DEF LeftBehind, HeldUp
  <2>4. Clear' => mine' /\ HeldUp' /\ Mark(op) \in repo.open
    BY <1>0, <1>4, <1>8 DEF HeldUp
  <2>5. Judging'
    BY <1>0, <1>4, <1>8, <2>1, <2>3, <2>4 DEF Judging
  <2>6. QED
    BY <1>0, <1>4, <2>1, <2>2, <2>5, StagesApart, LookGoesOn
<1>9. CASE ~a[1] /\ op \notin Starts
  <2>1. pc' = "done" /\ result' = "failed" /\ UNCHANGED todo
    BY <1>1, <1>9
  <2>2. Clear' => repo = before \/ op = "continueRebase"
    BY <1>0, <1>4, <1>9 DEF LeftBehind, Clear
  <2>3. FailedChangedNothing'
    BY <1>4, <2>2, UntouchedIsSame DEF FailedChangedNothing, Settled, Clear, Piecemeal
  <2>4. MarkersAgree' /\ KilledIsNotFailed'
    BY <1>0, <1>4, <1>9, <2>1 DEF MarkersAgree, KilledIsNotFailed
  <2>5. QED
    BY <1>6, <2>1, <2>3, <2>4 DEF EndParts
<1>10. QED
  BY <1>7, <1>8, <1>9

LEMMA AbortsAre ==
    \A o \in Starts \ {"merge"} :
        /\ AbortOf(o) \in Commands /\ AbortOf(o) \in Aborts \cup {"abortRevert"}
        /\ Mark(AbortOf(o)) = Mark(o)
<1> TAKE o \in Starts \ {"merge"}
<1>1. \/ o = "cherryPick" /\ AbortOf(o) = "abortCherryPick"
      \/ o = "revertCommit" /\ AbortOf(o) = "abortRevert"
      \/ o \in {"rebase", "dropCommit"} /\ AbortOf(o) = "abortRebase"
  BY SMT DEF AbortOf, Starts
<1>2. QED
  BY <1>1, SMT DEF Commands, AllOps, Aborts, Mark

LEMMA AutoAbortKeeps == ASSUME IInv, AutoAbort PROVE IInv'
<1> DEFINE c == AbortOf(op)
<1>0. /\ TypeOK /\ pc = "abort" /\ op \in Starts \ {"merge"} /\ ~killed
      /\ (Clear => mine /\ HeldUp)
  BY DEF IInv, AutoAbort, Judging
<1>1. /\ c \in Commands /\ c \in Aborts \cup {"abortRevert"} /\ Mark(c) = Mark(op)
      /\ c \notin {"popStash", "dropStash"}
  BY <1>0, AbortsAre DEF Aborts
<1>2. PICK g \in GitRuns(c, repo) :
        /\ repo' = g[2] /\ ended' = g[1] /\ did' = (g[1] = "ok")
        /\ mine' = (mine \/ Mark(c) \in g[2].open \ repo.open)
        /\ killed' = (killed \/ g[1] = "killed")
        /\ used' = [used EXCEPT !.faults = @ + IF g[1] \in Clean THEN 0 ELSE 1]
        /\ UNCHANGED <<op, before, named, blind, disturbed>>
        /\ pc' = "done" /\ UNCHANGED todo
        /\ result' = IF g[1] = "ok" THEN "failed" ELSE "unknown"
  BY DEF AutoAbort, Write
<1> HIDE DEF c
<1>3. Wrote(c, g)
  BY <1>0, <1>1, <1>2, WritesAsSaid
<1>a. repo \in Worktree /\ before \in Worktree
  BY <1>0 DEF TypeOK
<1>4. CASE g[1] = "ok"
  <2>1. g[2] = [Closed(repo, Mark(c)) EXCEPT !.head = repo.orig]
    BY <1>1, <1>3, <1>4, DoneAbort DEF Wrote, Ran
  <2> DEFINE r == Closed(repo, Mark(c))
  <2>2. /\ r \in Worktree /\ repo.orig \in 0..3
        /\ r.open = repo.open \ {Mark(c)} /\ r.conflicts = FALSE
        /\ r.stash = repo.stash /\ r.rest = repo.rest /\ r.files = repo.files
    BY <1>a, ClosedIs DEF Worktree
  <2> HIDE DEF r
  <2>3. /\ g[2] \in Worktree /\ g[2].head = repo.orig
        /\ g[2].open = repo.open \ {Mark(c)} /\ g[2].conflicts = FALSE
        /\ g[2].stash = repo.stash /\ g[2].rest = repo.rest /\ g[2].files = repo.files
    <3>1. g[2] = [r EXCEPT !.head = repo.orig]
      BY <2>1 DEF r
    <3>2. QED
      BY <2>2, <3>1, WithHead
  <2>4. Mark(op) \notin repo'.open
    BY <1>1, <1>2, <2>3
  <2>5. ASSUME Clear
        PROVE  SameWorktree(repo', before')
    <3>1. PICK f \in BOOLEAN :
            repo = [before EXCEPT !.open = {Mark(op)}, !.conflicts = f, !.orig = before.head]
      BY <1>0, <2>5 DEF HeldUp
    <3>2. before.open = {} /\ before.conflicts = FALSE
      BY <1>0, <2>5 DEF HeldUp
    <3>3. /\ repo.orig = before.head /\ repo.open = {Mark(op)}
          /\ repo.stash = before.stash /\ repo.rest = before.rest /\ repo.files = before.files
      BY <1>a, <3>1 DEF Worktree
    <3>4. /\ g[2] \in Worktree /\ g[2].head = before.head /\ g[2].open = before.open
          /\ g[2].conflicts = before.conflicts /\ g[2].stash = before.stash
          /\ g[2].rest = before.rest /\ g[2].files = before.files
      BY <1>1, <2>3, <3>2, <3>3
    <3>5. ASSUME NEW v \in Worktree, NEW w \in Worktree, v.head = w.head, v.open = w.open,
                 v.conflicts = w.conflicts, v.stash = w.stash, v.rest = w.rest, v.files = w.files
          PROVE  [v EXCEPT !.orig = 0] = [w EXCEPT !.orig = 0]
      BY <3>5 DEF Worktree
    <3>6. QED
      BY <1>2, <1>a, <3>4, <3>5 DEF SameWorktree
  <2>6. result' = "failed" /\ Clear' = Clear
    BY <1>2, <1>4 DEF Clear
  <2>7. FailedChangedNothing'
    BY <2>5, <2>6 DEF FailedChangedNothing, Settled, Clear
  <2>8. MarkersAgree' /\ KilledIsNotFailed'
    BY <1>0, <1>2, <1>4, <2>4, <2>6 DEF MarkersAgree, KilledIsNotFailed
  <2>9. QED
    BY <1>0, <1>1, <1>2, <1>3, <2>6, <2>7, <2>8, WriteEnds DEF EndParts, Outcomes
<1>5. CASE g[1] # "ok"
  <2>1. result' = "unknown"
    BY <1>2, <1>5
  <2>2. EndParts' /\ result' \in Outcomes \ {"none"}
    BY <2>1 DEF EndParts, MarkersAgree, KilledIsNotFailed, FailedChangedNothing, Outcomes
  <2>3. QED
    BY <1>0, <1>1, <1>2, <1>3, <2>2, WriteEnds
<1>6. QED
  BY <1>4, <1>5

-----------------------------------------------------------------------------
(* The theorems.                                                             *)

HIDE DEF Goto, Finish

\* The inductive invariant holds in every state.
THEOREM Invariance == Spec => []IInv
<1>1. Init => IInv
  <2> SUFFICES ASSUME Init PROVE IInv
    OBVIOUS
  <2>1. op \in Ops
    BY WorkflowsAssumption DEF Init
  <2>2. repo \in Worktree /\ before \in Worktree
    <3>1. <<1, 2>> \in Seq(Nat)
      OBVIOUS
    <3>2. QED
      BY <3>1 DEF Init, Worktree
  <2>3. used \in [ops : 0..MaxOps, faults : 0..MaxFaults, outside : 0..MaxOutside]
    BY WorkflowsAssumption DEF Init
  <2>4. todo \in Seq(Marks) /\ named \in [at : Nat, entry : Nat]
    BY DEF Init
  <2>5. TypeOK
    BY <2>1, <2>2, <2>3, <2>4 DEF Init, TypeOK, Outcomes
  <2>6. AtRest /\ Unwritten /\ Located /\ Halfway /\ Comparing /\ Judging /\ Heading
    BY DEF Init, AtRest, Unwritten, Located, Halfway, Comparing, Judging, Heading, Idle, Clear
  <2>7. StashKept /\ FailedChangedNothing /\ MarkersAgree /\ KilledIsNotFailed
    BY DEF Init, StashKept, FailedChangedNothing, MarkersAgree, KilledIsNotFailed, Settled
  <2>8. QED
    BY <2>5, <2>6, <2>7 DEF IInv
<1>2. IInv /\ [Next]_vars => IInv'
  <2> SUFFICES ASSUME IInv, [Next]_vars PROVE IInv'
    OBVIOUS
  <2>1. ASSUME NEW o \in Ops, Submit(o) PROVE IInv'
    BY <2>1, SubmitKeeps
  <2>2. CASE ResolveFacts \/ Probe \/ Lookup
    BY <2>2, ResolveFactsKeeps, ProbeKeeps, LookupKeeps
  <2>3. CASE RunBranch \/ RunStaging \/ RunModules \/ RunTag \/ RunStash \/ RemoveRemote
    <3>1. \E X : X \subseteq Simple \ Trees /\ OneCommand(X)
      <4>1. /\ Branching \subseteq Simple \ Trees /\ Staging \subseteq Simple \ Trees
            /\ Modules \subseteq Simple \ Trees /\ Tags \subseteq Simple \ Trees
            /\ {"createStash", "applyStash", "dropStash"} \subseteq Simple \ Trees
            /\ {"removeRemote"} \subseteq Simple \ Trees
        BY DEF Simple, Branching, Staging, Modules, Tags, Trees
      <4>2. QED
        BY <2>3, <4>1
           DEF RunBranch, RunStaging, RunModules, RunTag, RunStash, RemoveRemote
    <3>2. QED
      BY <3>1, OneCommandKeeps
  <2>4. CASE RunTree \/ RunPop \/ RunReset \/ RunCommit \/ Compare
    BY <2>4, RunTreeKeeps, RunPopKeeps, RunResetKeeps, RunCommitKeeps, CompareKeeps
  <2>5. CASE RunStart \/ RunContinue \/ RunAbort \/ Reread \/ Count \/ AutoAbort \/ ReadHead
    BY <2>5, RunStartKeeps, RunContinueKeeps, RunAbortKeeps, RereadKeeps, CountKeeps,
       AutoAbortKeeps, ReadHeadKeeps
  <2>6. CASE RunSquash \/ SquashAmend \/ RunRemote \/ RunNetwork \/ FastForward \/ RunCreation
    BY <2>6, RunSquashKeeps, SquashAmendKeeps, RunRemoteKeeps, RunNetworkKeeps,
       FastForwardKeeps, RunCreationKeeps
  <2>7. CASE Report \/ Outside
    BY <2>7, ReportKeeps, OutsideKeeps
  <2>8. CASE UNCHANGED vars
    <3>1. TypeOK'
      BY <2>8 DEF vars, IInv, TypeOK
    <3>2. AtRest' /\ Unwritten' /\ Located' /\ Halfway'
      BY <2>8 DEF vars, IInv, AtRest, Unwritten, Located, Halfway, Idle, Clear
    <3>3. Comparing' /\ Heading' /\ StashKept'
      BY <2>8 DEF vars, IInv, Comparing, Heading, StashKept, Clear
    <3>4. Judging'
      BY <2>8 DEF vars, IInv, Judging, LeftBehind, HeldUp, Clear
    <3>5. FailedChangedNothing' /\ MarkersAgree' /\ KilledIsNotFailed'
      BY <2>8 DEF vars, IInv, FailedChangedNothing, MarkersAgree, KilledIsNotFailed, Settled
    <3>6. QED
      BY <3>1, <3>2, <3>3, <3>4, <3>5 DEF IInv
  <2>9. QED
    BY <2>1, <2>2, <2>3, <2>4, <2>5, <2>6, <2>7, <2>8 DEF Next
<1>3. QED
  BY <1>1, <1>2, PTL DEF Spec

\* The variables keep their types: an effect is in one of its stages and reports one of
\* the outcomes of jobs.ts, and the worktree is one Git can keep.
THEOREM TypeInvariance == Spec => []TypeOK
<1>1. IInv => TypeOK
  BY DEF IInv
<1>2. QED
  BY <1>1, Invariance, PTL

\* An operation that does all or nothing and is reported "failed" left the worktree it
\* started on, also where it was stopped on the way and undone (revert.ts, rebase.ts),
\* when nobody interfered, every read was answered and no output limit cut it off.
THEOREM AFailureLeavesNothing == Spec => []FailedChangedNothing
<1>1. IInv => FailedChangedNothing
  BY DEF IInv
<1>2. QED
  BY <1>1, Invariance, PTL

\* Markers and outcomes agree: no success leaves its own marker, no failure a marker it
\* opened, and attention is asked for a start only where there is something to continue.
THEOREM OutcomesTellOfMarkers == Spec => []MarkersAgree
<1>1. IInv => MarkersAgree
  BY DEF IInv
<1>2. QED
  BY <1>1, Invariance, PTL

\* An effect that aborts on its own account aborts what it started itself.
THEOREM AbortsAreOwn == Spec => []AbortsOnlyItsOwn
<1>1. IInv => AbortsOnlyItsOwn
  BY DEF IInv, Judging, AbortsOnlyItsOwn, Clear
<1>2. QED
  BY <1>1, Invariance, PTL

\* A write that was killed is never reported "failed", but for a pull and a push.
THEOREM AKillIsNoFailure == Spec => []KilledIsNotFailed
<1>1. IInv => KilledIsNotFailed
  BY DEF IInv
<1>2. QED
  BY <1>1, Invariance, PTL

\* No effect drops a stash entry but the one the request names.
THEOREM OnlyTheNamedEntryGoes == Spec => []DropsTheNamedEntry
<1>1. IInv => DropsTheNamedEntry
  BY DEF IInv, StashKept, DropsTheNamedEntry
<1>2. QED
  BY <1>1, Invariance, PTL
=============================================================================
