----------------------------- MODULE AccessProofs -----------------------------
(***************************************************************************)
(* Proofs about Access, for every number of requests, directories, tickets *)
(* and sessions, and for every mix of failures.                            *)
(***************************************************************************)
EXTENDS Access, FiniteSetTheorems, SequenceTheorems, TLAPS

USE DEF registry, auth, audit

\* A request that holds a record of its own, to enter it later.
Holding == {"pin", "worktrees", "reading"}

\* How far each request has come.
CallOK(c) ==
    /\ c.at \in {"path", "root", "layout", "shared"} \union Holding => c.path \in Paths
    /\ c.at \in {"layout", "shared", "journal"} \union Holding => c.root \in DOMAIN roots
    /\ c.at \in {"shared", "journal"} \union Holding => c.repo \in 1 .. lastRepo
CallsOK == \A r \in Requests : CallOK(call[r])

\* A request stands in the journal's line once.
LineOK == \A i, j \in DOMAIN tail : tail[i] = tail[j] => i = j

\* Whoever holds a record of a repository agrees with the others on what it is.
HoldersAgree ==
    /\ \A r \in Requests :
          call[r].at \in Holding /\ call[r].repo \in DOMAIN records =>
              /\ records[call[r].repo].path = call[r].path
              /\ records[call[r].repo].root = call[r].root
    /\ \A r, q \in Requests :
          /\ call[r].at \in Holding /\ call[q].at \in Holding
          /\ call[r].repo = call[q].repo
          => call[r].path = call[q].path /\ call[r].root = call[q].root
    /\ \A id \in DOMAIN records : records[id].common = CommonOf[records[id].path]

\* The repositories of a root are registered under it.
AttachedAgree ==
    /\ attached \subseteq Nat \X Nat
    /\ \A a \in attached : a[2] \in DOMAIN records /\ records[a[2]].root = a[1]

\* A repository that is being registered is attached to no root, and by one request.
FreshIsAlone ==
    \A r \in Requests : call[r].at \in {"pin", "worktrees"} =>
        /\ \A a \in attached : a[2] # call[r].repo
        /\ \A q \in Requests \ {r} :
              call[q].at \in {"pin", "worktrees"} => call[q].repo # call[r].repo

RegistryInv == HoldersAgree /\ AttachedAgree /\ FreshIsAlone /\ NothingOutlivesItsRecord

\* The ids of tickets or sessions.
IdsOf(s) == {s[i].id : i \in DOMAIN s}
Distinct(s) == \A i, j \in DOMAIN s : s[i].id = s[j].id => i = j

\* A ticket that is left was never exchanged, and every id was handed out once.
AuthInv ==
    /\ Distinct(tickets) /\ Distinct(sessions)
    /\ IdsOf(tickets) \subseteq 1 .. used.mints
    /\ IsFiniteSet(paired)
    /\ IdsOf(sessions) \subseteq 1 .. Cardinality(paired)
    /\ \A a \in paired : a[1] \in (1 .. used.mints) \ IdsOf(tickets)
    /\ OneSessionPerTicket

IInv == TypeOK /\ CallsOK /\ LineOK /\ RegistryInv /\ AuthInv

-----------------------------------------------------------------------------
(* Sequences of tickets and sessions.                                        *)

\* What housekeeping, expiry and an exchange leave of a sequence.
Part(t, s) ==
    /\ \A i \in DOMAIN t : \E k \in DOMAIN s : t[i] = s[k]
    /\ Distinct(s) => Distinct(t)
    /\ IdsOf(t) \subseteq IdsOf(s)

LEMMA Monotone == ASSUME NEW S, NEW T, S \subseteq T PROVE Seq(S) \subseteq Seq(T)
OBVIOUS

LEMMA SubSeqPart ==
    ASSUME NEW S, NEW s \in Seq(S), NEW m \in Nat \ {0}
    PROVE  LET t == SubSeq(s, m, Len(s)) IN t \in Seq(S) /\ Part(t, s)
<1> DEFINE t == SubSeq(s, m, Len(s))
<1>1. CASE m <= Len(s)
  <2>1. /\ t \in Seq(S) /\ Len(t) = Len(s) - m + 1 /\ Len(s) \in Nat
        /\ \A i \in 1 .. Len(t) : t[i] = s[m + i - 1]
    BY <1>1, SubSeqProperties
  <2> HIDE DEF t
  <2>2. \A i \in DOMAIN t : m + i - 1 \in DOMAIN s /\ t[i] = s[m + i - 1]
    BY <1>1, <2>1
  <2>3. \A i, j \in DOMAIN t : m + i - 1 = m + j - 1 => i = j
    BY <2>1
  <2>4. Distinct(s) => Distinct(t)
    BY <2>2, <2>3 DEF Distinct
  <2>5. IdsOf(t) \subseteq IdsOf(s) /\ \A i \in DOMAIN t : \E k \in DOMAIN s : t[i] = s[k]
    BY <2>2 DEF IdsOf
  <2>6. QED
    BY <2>1, <2>4, <2>5 DEF Part, t
<1>2. CASE m > Len(s)
  <2>1. t = <<>>
    BY <1>2, SubSeqProperties
  <2>2. QED
    BY <2>1 DEF Part, Distinct, IdsOf
<1>3. QED
  BY <1>1, <1>2

LEMMA KeepNewestPart ==
    ASSUME NEW S, NEW s \in Seq(S), NEW n \in Nat
    PROVE  KeepNewest(s, n) \in Seq(S) /\ Part(KeepNewest(s, n), s)
<1>1. CASE Len(s) > n
  <2>1. Len(s) - n + 1 \in Nat \ {0} /\ KeepNewest(s, n) = SubSeq(s, Len(s) - n + 1, Len(s))
    BY <1>1 DEF KeepNewest
  <2>2. QED
    BY <2>1, SubSeqPart
<1>2. CASE ~(Len(s) > n)
  BY <1>2 DEF KeepNewest, Part
<1>3. QED
  BY <1>1, <1>2

LEMMA TailPart ==
    ASSUME NEW S, NEW s \in Seq(S), s # <<>>
    PROVE  Tail(s) \in Seq(S) /\ Part(Tail(s), s)
<1>1. /\ Tail(s) \in Seq(S)
      /\ \A i \in DOMAIN Tail(s) : i \in Nat /\ i + 1 \in DOMAIN s /\ Tail(s)[i] = s[i + 1]
  OBVIOUS
<1>2. QED
  BY <1>1 DEF Part, Distinct, IdsOf

\* Taking one out takes its id out.
LEMMA RemoveAtPart ==
    ASSUME NEW S, NEW s \in Seq(S), NEW i \in DOMAIN s
    PROVE  LET t == RemoveAt(s, i) IN
           t \in Seq(S) /\ Part(t, s) /\ (Distinct(s) => s[i].id \notin IdsOf(t))
<1> DEFINE t == RemoveAt(s, i)
           a == SubSeq(s, 1, i - 1)
           b == SubSeq(s, i + 1, Len(s))
           at(k) == IF k < i THEN k ELSE k + 1
<1>1. i \in 1 .. Len(s) /\ Len(s) \in Nat
  OBVIOUS
<1>2. a \in Seq(S) /\ Len(a) = i - 1 /\ \A k \in 1 .. i - 1 : a[k] = s[k]
  BY <1>1, SubSeqProperties
<1>3. b \in Seq(S) /\ Len(b) = Len(s) - i /\ \A k \in 1 .. Len(s) - i : b[k] = s[i + k]
  BY <1>1, SubSeqProperties
<1>4. t = a \o b
  BY DEF RemoveAt
<1> HIDE DEF a, b, t
<1>5. t \in Seq(S) /\ Len(t) = Len(s) - 1
  BY <1>1, <1>2, <1>3, <1>4
<1>6. \A k \in DOMAIN t : at(k) \in DOMAIN s /\ at(k) # i /\ t[k] = s[at(k)]
  <2> TAKE k \in DOMAIN t
  <2>1. k \in 1 .. Len(s) - 1
    BY <1>1, <1>5
  <2>2. CASE k < i
    BY <1>1, <1>2, <1>3, <1>4, <2>1, <2>2
  <2>3. CASE k >= i
    <3>1. t[k] = b[k - (i - 1)] /\ k - (i - 1) \in 1 .. Len(s) - i
      BY <1>1, <1>2, <1>3, <1>4, <2>1, <2>3
    <3>2. b[k - (i - 1)] = s[i + (k - (i - 1))] /\ i + (k - (i - 1)) = k + 1
      BY <1>1, <1>3, <2>1, <3>1
    <3>3. QED
      BY <1>1, <2>1, <2>3, <3>1, <3>2
  <2>4. QED
    BY <1>1, <2>1, <2>2, <2>3
<1>7. \A k, l \in DOMAIN t : at(k) = at(l) => k = l
  BY <1>5
<1> HIDE DEF at
<1>8. QED
  BY <1>5, <1>6, <1>7 DEF Part, Distinct, IdsOf, t

LEMMA AppendNew ==
    ASSUME NEW S, NEW s \in Seq(S), NEW x \in S, Distinct(s), x.id \notin IdsOf(s)
    PROVE  /\ Append(s, x) \in Seq(S) /\ Distinct(Append(s, x))
           /\ IdsOf(Append(s, x)) = IdsOf(s) \union {x.id}
<1>1. /\ Append(s, x) \in Seq(S) /\ DOMAIN Append(s, x) = DOMAIN s \union {Len(s) + 1}
      /\ Append(s, x)[Len(s) + 1] = x /\ \A i \in DOMAIN s : Append(s, x)[i] = s[i]
      /\ Len(s) + 1 \notin DOMAIN s
  OBVIOUS
<1>2. QED
  BY <1>1 DEF Distinct, IdsOf

-----------------------------------------------------------------------------
(* What the steps have in common.                                            *)

\* What the housekeeping leaves.
LEMMA PrunedParts ==
    ASSUME TypeOK
    PROVE  /\ PrunedTickets \in Seq(Ticket) /\ Part(PrunedTickets, tickets)
           /\ PrunedSessions \in Seq(Session) /\ Part(PrunedSessions, sessions)
BY KeepNewestPart, AccessAssumption DEF TypeOK, PrunedTickets, PrunedSessions

\* A step that only takes tickets and sessions away, or changes what they carry.
LEMMA AuthShrinks ==
    ASSUME AuthInv, Distinct(tickets'), IdsOf(tickets') \subseteq IdsOf(tickets),
           Distinct(sessions'), IdsOf(sessions') \subseteq IdsOf(sessions),
           paired' = paired, used'.mints = used.mints
    PROVE  AuthInv'
BY DEF AuthInv, OneSessionPerTicket

LEMMA AuthStays ==
    ASSUME AuthInv, UNCHANGED <<tickets, sessions, paired>>, used'.mints = used.mints
    PROVE  AuthInv'
BY AuthShrinks DEF AuthInv

\* New grants for sessions, in their places.
LEMMA Regranted ==
    ASSUME TypeOK, AuthInv, NEW s, s = [i \in DOMAIN sessions |-> s[i]],
           \A i \in DOMAIN sessions : \E g \in Grants : s[i] = WithGrants(sessions[i], g)
    PROVE  s \in Seq(Session) /\ Distinct(s) /\ IdsOf(s) = IdsOf(sessions)
<1>1. sessions \in Seq(Session) /\ DOMAIN s = DOMAIN sessions
  BY DEF TypeOK
<1>2. \A i \in DOMAIN sessions : s[i] \in Session /\ s[i].id = sessions[i].id
  <2> TAKE i \in DOMAIN sessions
  <2>1. PICK g \in Grants : s[i] = WithGrants(sessions[i], g)
    OBVIOUS
  <2>2. sessions[i] \in Session
    BY <1>1
  <2>3. QED
    BY <2>1, <2>2 DEF WithGrants, Session
<1>3. s \in Seq(Session)
  BY <1>1, <1>2
<1>4. QED
  BY <1>1, <1>2, <1>3 DEF AuthInv, Distinct, IdsOf

\* A step of one request: its own place in the line and its own call.
LEMMA OneCall ==
    ASSUME TypeOK, CallsOK, NEW r \in Requests, NEW c \in Call, CallOK(c),
           call' = [call EXCEPT ![r] = c], UNCHANGED <<roots, lastRepo>>
    PROVE  /\ call' \in [Requests -> Call'] /\ CallsOK'
           /\ \A q \in Requests : call'[q] = IF q = r THEN c ELSE call[q]
BY DEF TypeOK, CallsOK, CallOK, Call, Grants

\* A request outside the line stays outside.
LEMMA OffTheLine ==
    ASSUME TypeOK, LineOK, NEW r \in Requests, call[r].at # "journal", tail' = tail,
           \A q \in Requests \ {r} : call'[q] = call[q]
    PROVE  /\ tail' \in Seq(Requests) /\ LineOK'
           /\ \A i \in DOMAIN tail' : call'[tail'[i]].at = "journal"
<1>1. \A i \in DOMAIN tail : tail[i] \in Requests /\ tail[i] # r
  BY DEF TypeOK
<1>2. QED
  BY <1>1 DEF TypeOK, LineOK

\* A request joins the line.
LEMMA JoinsTheLine ==
    ASSUME TypeOK, LineOK, NEW r \in Requests, call[r].at # "journal",
           call'[r].at = "journal", tail' = Append(tail, r),
           \A q \in Requests \ {r} : call'[q] = call[q]
    PROVE  /\ tail' \in Seq(Requests) /\ LineOK'
           /\ \A i \in DOMAIN tail' : call'[tail'[i]].at = "journal"
<1>1. tail \in Seq(Requests) /\ \A i \in DOMAIN tail : tail[i] \in Requests /\ tail[i] # r
  BY DEF TypeOK
<1>2. /\ tail' \in Seq(Requests) /\ DOMAIN tail' = DOMAIN tail \union {Len(tail) + 1}
      /\ tail'[Len(tail) + 1] = r /\ \A i \in DOMAIN tail : tail'[i] = tail[i]
  BY <1>1
<1>3. QED
  BY <1>1, <1>2 DEF TypeOK, LineOK

\* The head of the line leaves it.
LEMMA LeavesTheLine ==
    ASSUME TypeOK, LineOK, NEW r \in Requests, tail # <<>>, Head(tail) = r,
           tail' = Tail(tail), \A q \in Requests \ {r} : call'[q] = call[q]
    PROVE  /\ tail' \in Seq(Requests) /\ LineOK'
           /\ \A i \in DOMAIN tail' : call'[tail'[i]].at = "journal"
<1>1. tail \in Seq(Requests) /\ tail[1] = r /\ 1 \in DOMAIN tail
  BY DEF TypeOK
<1>2. /\ tail' \in Seq(Requests)
      /\ \A i \in DOMAIN tail' : i \in Nat /\ i + 1 \in DOMAIN tail /\ i + 1 # 1
                                 /\ tail'[i] = tail[i + 1]
  BY <1>1
<1>3. \A i \in DOMAIN tail' : tail'[i] # r /\ tail'[i] \in Requests
  BY <1>1, <1>2 DEF LineOK
<1>4. \A i \in DOMAIN tail' : call'[tail'[i]].at = "journal"
  BY <1>2, <1>3 DEF TypeOK
<1>5. LineOK'
  <2>1. \A i, j \in DOMAIN tail' : i + 1 = j + 1 => i = j
    BY <1>2
  <2>2. QED
    BY <1>2, <2>1 DEF LineOK
<1>6. QED
  BY <1>2, <1>4, <1>5

\* A step that touches no record, and starts no registration or listing.
LEMMA RegistryStays ==
    ASSUME RegistryInv, UNCHANGED <<attached, records, byCommon, pins>>,
           \A q \in Requests : call'[q].at \in Holding =>
               /\ call[q].at = call'[q].at /\ call[q].repo = call'[q].repo
               /\ call[q].path = call'[q].path /\ call[q].root = call'[q].root
    PROVE  RegistryInv'
<1>1. HoldersAgree'
  BY DEF RegistryInv, HoldersAgree
<1>2. AttachedAgree' /\ NothingOutlivesItsRecord'
  BY DEF RegistryInv, AttachedAgree, NothingOutlivesItsRecord
<1>3. FreshIsAlone'
  BY DEF RegistryInv, FreshIsAlone, Holding
<1>4. QED
  BY <1>1, <1>2, <1>3 DEF RegistryInv

\* A repository is taken out of every index at once.
LEMMA Unregistered ==
    ASSUME TypeOK, RegistryInv, NEW id, Unregister(id),
           \A q \in Requests : call'[q].at \in Holding =>
               /\ call[q].at = call'[q].at /\ call[q].repo = call'[q].repo
               /\ call[q].path = call'[q].path /\ call[q].root = call'[q].root
    PROVE  /\ RegistryInv'
           /\ DOMAIN records' \subseteq DOMAIN records
           /\ records' \in [DOMAIN records' -> Record]
<1>1. CASE id \notin DOMAIN records
  BY <1>1, RegistryStays DEF Unregister, TypeOK
<1>2. CASE id \in DOMAIN records
  <2>1. /\ records' = Without(records, id) /\ pins' = pins \ {id}
        /\ byCommon' = Without(byCommon, records[id].common)
        /\ attached' = attached \ {<<records[id].root, id>>}
    BY <1>2 DEF Unregister
  <2>2. /\ DOMAIN records' = DOMAIN records \ {id}
        /\ \A x \in DOMAIN records' : records'[x] = records[x]
        /\ DOMAIN byCommon' = DOMAIN byCommon \ {records[id].common}
        /\ \A x \in DOMAIN byCommon' : byCommon'[x] = byCommon[x]
        /\ records' \in [DOMAIN records' -> Record]
    BY <2>1 DEF Without, Restrict, TypeOK
  <2>3. HoldersAgree'
    BY <2>2 DEF RegistryInv, HoldersAgree
  <2>4. AttachedAgree'
    <3>1. \A a \in attached' : a \in attached /\ a[2] # id
      <4> TAKE a \in attached'
      <4>1. a \in attached /\ a \in Nat \X Nat /\ a # <<records[id].root, id>>
        BY <2>1 DEF RegistryInv, AttachedAgree
      <4>2. a = <<a[1], a[2]>>
        BY <4>1
      <4>3. a[2] = id => a[1] = records[id].root
        BY <4>1 DEF RegistryInv, AttachedAgree
      <4>4. QED
        BY <4>1, <4>2, <4>3
    <3>2. QED
      BY <2>2, <3>1 DEF RegistryInv, AttachedAgree
  <2>5. FreshIsAlone'
    BY <2>1 DEF RegistryInv, FreshIsAlone, Holding
  <2>6. NothingOutlivesItsRecord'
    <3>1. \A c \in DOMAIN byCommon' : byCommon[c] # id
      BY <2>2 DEF RegistryInv, NothingOutlivesItsRecord
    <3>2. \A a \in attached' : a[2] \in DOMAIN records'
      BY <2>4 DEF AttachedAgree
    <3>3. QED
      BY <2>1, <2>2, <3>1, <3>2 DEF RegistryInv, NothingOutlivesItsRecord
  <2>7. QED
    BY <2>2, <2>3, <2>4, <2>5, <2>6 DEF RegistryInv
<1>3. QED
  BY <1>1, <1>2

\* A request enters the record it holds, or enters it again.
LEMMA Entered ==
    ASSUME TypeOK, CallsOK, RegistryInv, NEW r \in Requests, NEW b \in BOOLEAN,
           call[r].at \in Holding, records' = Put(records, call[r].repo, RecordOf(r, b)),
           UNCHANGED <<roots, lastRepo>>,
           \A q \in Requests : call'[q].at \in Holding =>
               /\ call[q].at \in Holding /\ call[q].repo = call'[q].repo
               /\ call[q].path = call'[q].path /\ call[q].root = call'[q].root
    PROVE  /\ HoldersAgree' /\ DOMAIN records' \subseteq 1 .. lastRepo
           /\ records' \in [DOMAIN records' -> Record']
           /\ DOMAIN records' = DOMAIN records \union {call[r].repo}
           /\ records'[call[r].repo].common = CommonOf[call[r].path]
           /\ records'[call[r].repo].root = call[r].root
           /\ \A id \in DOMAIN records : /\ records'[id].root = records[id].root
                                         /\ records'[id].common = records[id].common
<1> DEFINE id == call[r].repo
           new == RecordOf(r, b)
<1>1. /\ id \in 1 .. lastRepo /\ call[r].root \in DOMAIN roots /\ call[r].path \in Paths
  BY DEF CallsOK, CallOK, Holding
<1>2. /\ new \in Record /\ new.path = call[r].path /\ new.root = call[r].root
      /\ new.common = CommonOf[call[r].path]
  BY <1>1 DEF RecordOf, Record
<1> HIDE DEF new
<1>3. /\ DOMAIN records' = DOMAIN records \union {id}
      /\ \A x \in DOMAIN records' : records'[x] = IF x = id THEN new ELSE records[x]
  BY DEF Put, new
<1>4. records' \in [DOMAIN records' -> Record']
  BY <1>2, <1>3 DEF TypeOK, Record, Put, new
<1>5. \A x \in DOMAIN records : /\ records'[x].path = records[x].path
                                /\ records'[x].root = records[x].root
                                /\ records'[x].common = records[x].common
  BY <1>2, <1>3 DEF RegistryInv, HoldersAgree
<1>6. HoldersAgree'
  BY <1>2, <1>3, <1>5 DEF RegistryInv, HoldersAgree
<1>7. QED
  BY <1>1, <1>2, <1>3, <1>4, <1>5, <1>6 DEF TypeOK

Used  == [calls : Nat, mints : Nat, faults : Nat]
Entry == [action : {"register", "revoke"}, repo : 1 .. lastRepo]

\* A step that allocates no root and no repository leaves the types alone.
LEMMA SameTypes ==
    ASSUME UNCHANGED <<roots, lastRepo>>
    PROVE  /\ Grants' = Grants /\ Ticket' = Ticket /\ Session' = Session
           /\ Record' = Record /\ Call' = Call /\ Entry' = Entry
BY DEF Grants, Ticket, Session, Record, Call, Entry

\* A request that is answered or moves on.
LEMMA NoCallTypes == TypeOK => NoCall \in Call /\ CallOK(NoCall)
BY DEF NoCall, Call, CallOK, TypeOK, NoGrants, Grants, Stages, Holding

LEMMA MovedTypes ==
    ASSUME TypeOK, NEW r \in Requests, NEW s \in Stages
    PROVE  LET c == [call[r] EXCEPT !.at = s] IN
           /\ c \in Call /\ c.at = s /\ c.repo = call[r].repo
           /\ c.path = call[r].path /\ c.root = call[r].root
BY DEF TypeOK, Call

\* Calls and faults are counted beside the mints.
LEMMA Counted ==
    ASSUME TypeOK,
           \/ used' = used
           \/ used' = [used EXCEPT !.calls = @ + 1]
           \/ used' = [used EXCEPT !.faults = @ + 1]
    PROVE  used' \in Used /\ used'.mints = used.mints
<1>1. used \in Used /\ used.calls + 1 \in Nat /\ used.faults + 1 \in Nat
  BY DEF TypeOK, Used
<1>2. QED
  BY <1>1 DEF Used

\* What a step of one request owes the invariant.
LEMMA RequestStep ==
    ASSUME IInv, NEW r \in Requests, NEW c \in Call, CallOK(c), call' = [call EXCEPT ![r] = c],
           UNCHANGED <<roots, lastRepo>>,
           \/ tail' = tail /\ call[r].at # "journal"
           \/ tail' = Append(tail, r) /\ call[r].at # "journal" /\ c.at = "journal"
           \/ tail # <<>> /\ Head(tail) = r /\ tail' = Tail(tail),
           journal' \in Seq(Entry), used' \in Used, granted' \in Grants,
           tickets' \in Seq(Ticket), sessions' \in Seq(Session),
           DOMAIN records' \subseteq 1 .. lastRepo, records' \in [DOMAIN records' -> Record],
           AuthInv', RegistryInv'
    PROVE  IInv'
<1>1. /\ call' \in [Requests -> Call'] /\ CallsOK'
      /\ \A q \in Requests : call'[q] = IF q = r THEN c ELSE call[q]
  BY OneCall DEF IInv
<1>2. /\ tail' \in Seq(Requests) /\ LineOK'
      /\ \A i \in DOMAIN tail' : call'[tail'[i]].at = "journal"
  BY <1>1, OffTheLine, JoinsTheLine, LeavesTheLine DEF IInv
<1>3. TypeOK'
  BY <1>1, <1>2, SameTypes DEF IInv, TypeOK, Used, Entry
<1>4. QED
  BY <1>1, <1>2, <1>3 DEF IInv

\* A step of one request that leaves tickets, sessions, grants and records alone.
LEMMA QuietStep ==
    ASSUME IInv, NEW r \in Requests, NEW c \in Call, CallOK(c), call' = [call EXCEPT ![r] = c],
           c.at \notin Holding, call[r].at # "journal",
           tail' = tail \/ (tail' = Append(tail, r) /\ c.at = "journal"),
           UNCHANGED <<roots, attached, records, byCommon, pins, lastRepo, auth, journal>>,
           \/ used' = used
           \/ used' = [used EXCEPT !.calls = @ + 1]
           \/ used' = [used EXCEPT !.faults = @ + 1]
    PROVE  IInv'
<1>1. used' \in Used /\ used'.mints = used.mints
  BY Counted DEF IInv
<1>2. AuthInv'
  BY <1>1, AuthStays DEF IInv
<1>3. \A q \in Requests : call'[q] = IF q = r THEN c ELSE call[q]
  BY DEF IInv, TypeOK
<1>4. RegistryInv'
  BY <1>3, RegistryStays DEF IInv
<1>5. QED
  BY <1>1, <1>2, <1>4, RequestStep DEF IInv, TypeOK, Entry

-----------------------------------------------------------------------------
(* Pairing.                                                                  *)

\* A step that touches neither requests nor registry.
LEMMA PairingKeeps ==
    ASSUME IInv, UNCHANGED <<registry, audit, granted, call>>, used' \in Used,
           tickets' \in Seq(Ticket), sessions' \in Seq(Session), AuthInv'
    PROVE  IInv'
<1>1. CallsOK' /\ LineOK'
  BY DEF IInv, CallsOK, CallOK, LineOK
<1>2. RegistryInv'
  BY RegistryStays DEF IInv
<1>3. TypeOK'
  BY SameTypes DEF IInv, TypeOK, Used
<1>4. QED
  BY <1>1, <1>2, <1>3 DEF IInv

LEMMA PairingUrlKeeps == ASSUME IInv, PairingUrl PROVE IInv'
<1> DEFINE t == [id |-> used.mints + 1, grants |-> granted]
           n == used.mints
<1>1. /\ PrunedTickets \in Seq(Ticket) /\ Part(PrunedTickets, tickets)
      /\ PrunedSessions \in Seq(Session) /\ Part(PrunedSessions, sessions)
  BY PrunedParts DEF IInv
<1>2. n \in Nat /\ used' \in Used /\ used'.mints = n + 1 /\ paired' = paired
      /\ tickets' = Append(PrunedTickets, t) /\ sessions' = PrunedSessions
  <2>1. n \in Nat /\ used \in Used
    BY DEF IInv, TypeOK, Used
  <2>2. used' = [used EXCEPT !.mints = @ + 1]
    BY DEF PairingUrl
  <2>3. used' \in Used /\ used'.mints = n + 1
    BY <2>1, <2>2 DEF Used
  <2>4. QED
    BY <2>1, <2>3 DEF PairingUrl
<1>3. t \in Ticket /\ t.id = n + 1
  BY <1>2 DEF IInv, TypeOK, Ticket
<1> HIDE DEF t, n
<1>4. IdsOf(PrunedTickets) \subseteq 1 .. n /\ Distinct(PrunedTickets)
  BY <1>1 DEF IInv, AuthInv, Part, n
<1>5. /\ tickets' \in Seq(Ticket) /\ Distinct(tickets')
      /\ IdsOf(tickets') = IdsOf(PrunedTickets) \union {n + 1}
  <2>1. t.id \notin IdsOf(PrunedTickets)
    BY <1>2, <1>3, <1>4
  <2>2. QED
    BY <1>1, <1>2, <1>3, <1>4, <2>1, AppendNew
<1>6. \A a \in paired : a[1] \in 1 .. n /\ a[1] \notin IdsOf(PrunedTickets)
  BY <1>1 DEF IInv, AuthInv, Part, n
<1>7. Distinct(sessions') /\ IdsOf(sessions') \subseteq IdsOf(sessions)
  BY <1>1, <1>2 DEF IInv, AuthInv, Part
<1>8. AuthInv'
  <2>1. IdsOf(tickets') \subseteq 1 .. n + 1
    BY <1>2, <1>4, <1>5
  <2>2. \A a \in paired : a[1] \in (1 .. n + 1) \ IdsOf(tickets')
    BY <1>2, <1>5, <1>6
  <2>3. QED
    BY <1>2, <1>5, <1>7, <2>1, <2>2 DEF IInv, AuthInv, OneSessionPerTicket
<1>9. QED
  BY <1>1, <1>2, <1>5, <1>8, PairingKeeps DEF PairingUrl

LEMMA ExchangeKeeps == ASSUME IInv, Exchange PROVE IInv'
<1>1. /\ PrunedTickets \in Seq(Ticket) /\ Part(PrunedTickets, tickets)
      /\ PrunedSessions \in Seq(Session) /\ Part(PrunedSessions, sessions)
  BY PrunedParts DEF IInv
<1>2. PICK i \in DOMAIN PrunedTickets :
        LET t == PrunedTickets[i] IN
        /\ tickets' = RemoveAt(PrunedTickets, i)
        /\ sessions' = Append(PrunedSessions, NewSession(t))
        /\ paired' = paired \union {<<t.id, NewSession(t).id>>}
        /\ UNCHANGED <<registry, audit, granted, call, used>>
  BY DEF Exchange
<1> DEFINE t == PrunedTickets[i]
           s == NewSession(t)
           n == Cardinality(paired)
<1>3. t \in Ticket /\ t.id \in IdsOf(PrunedTickets)
  BY <1>1 DEF IdsOf
<1>4. n \in Nat /\ IsFiniteSet(paired)
  BY FS_CardinalityType DEF IInv, AuthInv
<1>5. s \in Session /\ s.id = n + 1
  BY <1>3, <1>4 DEF NewSession, Session, Ticket
<1>6. t.id \in IdsOf(tickets) /\ \A a \in paired : a[1] # t.id
  BY <1>1, <1>3 DEF IInv, AuthInv, Part
<1>7. /\ tickets' \in Seq(Ticket) /\ Part(tickets', PrunedTickets)
      /\ t.id \notin IdsOf(tickets')
  <2>1. Distinct(PrunedTickets)
    BY <1>1 DEF IInv, AuthInv, Part
  <2>2. QED
    BY <1>1, <1>2, <2>1, RemoveAtPart
<1>8. /\ sessions' = Append(PrunedSessions, s) /\ paired' = paired \union {<<t.id, s.id>>}
      /\ UNCHANGED <<registry, audit, granted, call, used>>
  BY <1>2
<1> HIDE DEF t, s, n
<1>9. Distinct(PrunedSessions) /\ IdsOf(PrunedSessions) \subseteq 1 .. n
  BY <1>1 DEF IInv, AuthInv, Part, n
<1>10. /\ sessions' \in Seq(Session) /\ Distinct(sessions')
       /\ IdsOf(sessions') \subseteq 1 .. n + 1
  <2>1. s.id \notin IdsOf(PrunedSessions)
    BY <1>4, <1>5, <1>9
  <2>2. IdsOf(sessions') = IdsOf(PrunedSessions) \union {n + 1}
        /\ sessions' \in Seq(Session) /\ Distinct(sessions')
    BY <1>1, <1>5, <1>8, <1>9, <2>1, AppendNew
  <2>3. QED
    BY <1>4, <1>9, <2>2
<1>11. IsFiniteSet(paired') /\ Cardinality(paired') = n + 1
  <2>1. <<t.id, s.id>> \notin paired
    BY <1>6
  <2>2. QED
    BY <1>4, <1>8, <2>1, FS_AddElement DEF n
<1>12. IdsOf(tickets') \subseteq IdsOf(tickets) /\ Distinct(tickets')
  BY <1>1, <1>7 DEF IInv, AuthInv, Part
<1>13. \A a \in paired' : a[1] \in (1 .. used.mints) \ IdsOf(tickets')
  <2>1. \A a \in paired : a[1] \in (1 .. used.mints) \ IdsOf(tickets')
    BY <1>12 DEF IInv, AuthInv
  <2>2. t.id \in (1 .. used.mints) \ IdsOf(tickets')
    BY <1>6, <1>7 DEF IInv, AuthInv
  <2>3. QED
    BY <1>8, <2>1, <2>2
<1>14. OneSessionPerTicket'
  BY <1>6, <1>8 DEF IInv, AuthInv, OneSessionPerTicket
<1>15. AuthInv'
  BY <1>8, <1>10, <1>11, <1>12, <1>13, <1>14 DEF IInv, AuthInv
<1>16. QED
  BY <1>7, <1>8, <1>10, <1>15, PairingKeeps DEF IInv, TypeOK, Used

LEMMA ExchangeRefusedKeeps == ASSUME IInv, ExchangeRefused PROVE IInv'
<1>1. /\ PrunedTickets \in Seq(Ticket) /\ Part(PrunedTickets, tickets)
      /\ PrunedSessions \in Seq(Session) /\ Part(PrunedSessions, sessions)
  BY PrunedParts DEF IInv
<1>2. PICK i \in DOMAIN PrunedTickets :
        /\ tickets' \in {RemoveAt(PrunedTickets, i), PrunedTickets}
        /\ sessions' = PrunedSessions
        /\ UNCHANGED <<registry, audit, granted, paired, call>>
        /\ used' = [used EXCEPT !.faults = @ + 1]
  BY DEF ExchangeRefused, Faulty
<1>3. tickets' \in Seq(Ticket) /\ Part(tickets', PrunedTickets)
  BY <1>1, <1>2, RemoveAtPart DEF Part
<1>4. used' \in Used /\ used'.mints = used.mints
  BY <1>2, Counted DEF IInv
<1>5. AuthInv'
  BY <1>1, <1>2, <1>3, <1>4, AuthShrinks DEF IInv, AuthInv, Part
<1>6. QED
  BY <1>1, <1>2, <1>3, <1>4, <1>5, PairingKeeps

LEMMA ExpireKeeps == ASSUME IInv, Expire PROVE IInv'
<1>1. UNCHANGED <<registry, audit, granted, paired, call, used>>
  BY DEF Expire
<1>2. /\ tickets' \in Seq(Ticket) /\ Part(tickets', tickets)
      /\ sessions' \in Seq(Session) /\ Part(sessions', sessions)
  <2>1. tickets \in Seq(Ticket) /\ sessions \in Seq(Session)
    BY DEF IInv, TypeOK
  <2>2. Part(tickets, tickets) /\ Part(sessions, sessions)
    BY DEF Part
  <2>3. CASE tickets # <<>> /\ tickets' = Tail(tickets) /\ UNCHANGED sessions
    <3>1. tickets' \in Seq(Ticket) /\ Part(tickets', tickets)
      BY <2>1, <2>3, TailPart
    <3>2. QED
      BY <2>1, <2>2, <2>3, <3>1
  <2>4. CASE sessions # <<>> /\ sessions' = Tail(sessions) /\ UNCHANGED tickets
    <3>1. sessions' \in Seq(Session) /\ Part(sessions', sessions)
      BY <2>1, <2>4, TailPart
    <3>2. QED
      BY <2>1, <2>2, <2>4, <3>1
  <2>5. QED
    BY <2>3, <2>4 DEF Expire
<1>3. AuthInv'
  BY <1>1, <1>2, AuthShrinks DEF IInv, AuthInv, Part
<1>4. QED
  BY <1>1, <1>2, <1>3, PairingKeeps DEF IInv, TypeOK, Used

-----------------------------------------------------------------------------
(* Requests.                                                                 *)

\* A new request holds a record only as it is registered.
LEMMA Arrival ==
    ASSUME IInv, NEW r \in Requests, NEW c, call' = [call EXCEPT ![r] = c],
           c.at \in Holding => /\ c.at = "reading" /\ c.repo \in DOMAIN records
                               /\ records[c.repo].path = c.path
                               /\ records[c.repo].root = c.root,
           UNCHANGED <<attached, records, byCommon, pins>>
    PROVE  RegistryInv'
<1>1. \A q \in Requests : call'[q] = IF q = r THEN c ELSE call[q]
  BY DEF IInv, TypeOK
<1>2. HoldersAgree'
  BY <1>1 DEF IInv, RegistryInv, HoldersAgree
<1>3. AttachedAgree' /\ NothingOutlivesItsRecord'
  BY DEF IInv, RegistryInv, AttachedAgree, NothingOutlivesItsRecord
<1>4. FreshIsAlone'
  BY <1>1 DEF IInv, RegistryInv, FreshIsAlone, Holding
<1>5. QED
  BY <1>2, <1>3, <1>4 DEF RegistryInv

\* Whatever an authorised request is to do, if what it names exists.
LEMMA AuthorizedKeeps ==
    ASSUME IInv, NEW r \in Requests, NEW c \in Call, Authorized(r, c), CallOK(c),
           c.at \in {"path", "body", "reading"},
           c.at = "reading" => /\ c.repo \in DOMAIN records
                               /\ records[c.repo].path = c.path
                               /\ records[c.repo].root = c.root
    PROVE  IInv'
<1>1. /\ PrunedTickets \in Seq(Ticket) /\ Part(PrunedTickets, tickets)
      /\ PrunedSessions \in Seq(Session) /\ Part(PrunedSessions, sessions)
  BY PrunedParts DEF IInv
<1>2. PICK i \in DOMAIN PrunedSessions :
        /\ Start(r, [c EXCEPT !.session = PrunedSessions[i].id,
                              !.seen = PrunedSessions[i].grants])
        /\ sessions' = PrunedSessions /\ tickets' = PrunedTickets
        /\ UNCHANGED <<registry, audit, granted, paired>>
  BY DEF Authorized
<1> DEFINE d == [c EXCEPT !.session = PrunedSessions[i].id, !.seen = PrunedSessions[i].grants]
<1>3. PrunedSessions[i] \in Session
  BY <1>1
<1>4. /\ d \in Call /\ d.at = c.at /\ d.repo = c.repo /\ d.path = c.path /\ d.root = c.root
  BY <1>3 DEF Call, Session
<1>5. call[r] = NoCall /\ call' = [call EXCEPT ![r] = d]
      /\ used' = [used EXCEPT !.calls = @ + 1]
  BY <1>2 DEF Start
<1> HIDE DEF d
<1>6. used' \in Used /\ used'.mints = used.mints
  BY <1>5, Counted DEF IInv
<1>7. AuthInv'
  BY <1>1, <1>2, <1>6, AuthShrinks DEF IInv, AuthInv, Part
<1>8. RegistryInv'
  BY <1>2, <1>4, <1>5, Arrival DEF Holding
<1>9. CallOK(d)
  BY <1>4 DEF CallOK
<1>10. call[r].at # "journal"
  BY <1>5 DEF NoCall
<1>11. QED
  BY <1>1, <1>2, <1>4, <1>5, <1>6, <1>7, <1>8, <1>9, <1>10, RequestStep DEF IInv, TypeOK, Entry

LEMMA ArrivesKeeps == ASSUME IInv, NEW r \in Requests, Arrives(r) PROVE IInv'
<1>1. NoCall \in Call /\ lastRepo \in Nat
  BY NoCallTypes DEF IInv, TypeOK
<1>2. CASE RegisterArrives(r)
  <2>1. PICK p \in Paths :
          Authorized(r, [NoCall EXCEPT !.at = "path", !.kind = "register", !.path = p])
    BY <1>2 DEF RegisterArrives
  <2> DEFINE c == [NoCall EXCEPT !.at = "path", !.kind = "register", !.path = p]
  <2>2. c \in Call /\ c.at = "path" /\ c.path \in Paths
    BY <1>1 DEF Call, NoCall, Stages
  <2> HIDE DEF c
  <2>3. CallOK(c)
    BY <2>2 DEF CallOK, Holding
  <2>4. Authorized(r, c)
    BY <2>1 DEF c
  <2>5. QED
    BY <2>2, <2>3, <2>4, AuthorizedKeeps
<1>3. CASE RevokeArrives(r)
  <2>1. PICK id \in 1 .. lastRepo :
          Authorized(r, [NoCall EXCEPT !.at = "body", !.kind = "revoke", !.repo = id])
    BY <1>3 DEF RevokeArrives
  <2> DEFINE c == [NoCall EXCEPT !.at = "body", !.kind = "revoke", !.repo = id]
  <2>2. c \in Call /\ c.at = "body"
    <3>1. id \in Nat
      BY <1>1
    <3>2. QED
      BY <1>1, <3>1 DEF Call, NoCall, Stages
  <2> HIDE DEF c
  <2>3. CallOK(c)
    BY <2>2 DEF CallOK, Holding
  <2>4. Authorized(r, c)
    BY <2>1 DEF c
  <2>5. QED
    BY <2>2, <2>3, <2>4, AuthorizedKeeps
<1>4. CASE ReadArrives(r)
  <2>1. PICK id \in DOMAIN records :
          Authorized(r, [NoCall EXCEPT !.at = "reading", !.kind = "read", !.repo = id,
                                       !.root = records[id].root, !.path = records[id].path])
    BY <1>4 DEF ReadArrives
  <2> DEFINE c == [NoCall EXCEPT !.at = "reading", !.kind = "read", !.repo = id,
                                 !.root = records[id].root, !.path = records[id].path]
  <2>2. /\ records[id].path \in Paths /\ records[id].root \in DOMAIN roots
        /\ DOMAIN roots \subseteq Nat /\ id \in 1 .. lastRepo /\ id \in Nat
    BY DEF IInv, TypeOK, Record
  <2>3. /\ c \in Call /\ c.at = "reading" /\ c.repo = id
        /\ c.path = records[id].path /\ c.root = records[id].root
    <3>1. records[id].root \in Nat
      BY <2>2
    <3>2. QED
      BY <1>1, <2>2, <3>1 DEF Call, NoCall, Stages
  <2>4. Authorized(r, c)
    BY <2>1
  <2> HIDE DEF c
  <2>5. CallOK(c)
    BY <2>2, <2>3 DEF CallOK, Holding
  <2>6. QED
    BY <2>3, <2>4, <2>5, AuthorizedKeeps
<1>5. CASE ApproveRepository(r)
  <2>1. PICK p \in Paths :
          Start(r, [NoCall EXCEPT !.at = "path", !.kind = "approve", !.path = p])
    BY <1>5 DEF ApproveRepository
  <2> DEFINE c == [NoCall EXCEPT !.at = "path", !.kind = "approve", !.path = p]
  <2>2. c \in Call /\ c.at = "path" /\ c.path \in Paths
    BY <1>1 DEF Call, NoCall, Stages
  <2>3. /\ call[r].at # "journal" /\ call' = [call EXCEPT ![r] = c]
        /\ used' = [used EXCEPT !.calls = @ + 1]
    BY <2>1 DEF Start, NoCall
  <2> HIDE DEF c
  <2>4. CallOK(c) /\ c.at \notin Holding
    BY <2>2 DEF CallOK, Holding
  <2>5. UNCHANGED <<registry, audit, auth>>
    BY <1>5 DEF ApproveRepository
  <2>6. QED
    BY <2>2, <2>3, <2>4, <2>5, QuietStep
<1>6. QED
  BY <1>2, <1>3, <1>4, <1>5 DEF Arrives

\* A request that is answered and changed nothing.
LEMMA AnswersKeeps ==
    ASSUME IInv, NEW r \in Requests, call[r].at # "journal", Answers(r),
           UNCHANGED <<registry, auth, audit>>,
           used' = used \/ used' = [used EXCEPT !.faults = @ + 1]
    PROVE  IInv'
<1>1. NoCall \in Call /\ CallOK(NoCall) /\ NoCall.at \notin Holding
  BY NoCallTypes DEF IInv, NoCall, Holding
<1>2. QED
  BY <1>1, QuietStep DEF Answers

\* A request that moves to a stage at which it has no record to enter.
LEMMA MovesKeeps ==
    ASSUME IInv, NEW r \in Requests, NEW s \in {"root", "lookup", "journal"},
           call[r].at # "journal", Moves(r, s), s = "root" => call[r].path \in Paths,
           s = "journal" => call[r].root \in DOMAIN roots /\ call[r].repo \in 1 .. lastRepo,
           tail' = IF s = "journal" THEN Append(tail, r) ELSE tail,
           UNCHANGED <<roots, attached, records, byCommon, pins, lastRepo, auth, journal, used>>
    PROVE  IInv'
<1> DEFINE c == [call[r] EXCEPT !.at = s]
<1>1. /\ c \in Call /\ c.at = s /\ c.repo = call[r].repo
      /\ c.path = call[r].path /\ c.root = call[r].root
  <2>1. s \in Stages /\ TypeOK
    BY DEF IInv, Stages
  <2>2. QED
    BY <2>1, MovedTypes
<1>2. call' = [call EXCEPT ![r] = c]
  BY DEF Moves, IInv, TypeOK
<1> HIDE DEF c
<1>3. CallOK(c) /\ c.at \notin Holding
  BY <1>1 DEF CallOK, Holding
<1>4. QED
  BY <1>1, <1>2, <1>3, QuietStep

LEMMA GivesUpKeeps == ASSUME IInv, NEW r \in Requests, GivesUp(r) PROVE IInv'
BY AnswersKeeps DEF GivesUp, Faulty

LEMMA RevokeBodyReadKeeps == ASSUME IInv, NEW r \in Requests, RevokeBodyRead(r) PROVE IInv'
<1> DEFINE id == call[r].repo
<1>1. call[r].at # "journal" /\ UNCHANGED <<registry, auth, journal, used>>
  BY DEF RevokeBodyRead
<1>2. CASE Answers(r) /\ UNCHANGED tail
  BY <1>1, <1>2, AnswersKeeps
<1>3. CASE /\ id \in DOMAIN records
           /\ call' = [call EXCEPT ![r].at = "journal", ![r].root = records[id].root,
                                   ![r].keepRoot = \E other \in DOMAIN records \ {id} :
                                                       records[other].root = records[id].root]
           /\ Appends(r)
  <2> DEFINE keep == \E other \in DOMAIN records \ {id} : records[other].root = records[id].root
             c == [call[r] EXCEPT !.at = "journal", !.root = records[id].root, !.keepRoot = keep]
  <2>1. /\ id \in 1 .. lastRepo /\ records[id].root \in DOMAIN roots
        /\ DOMAIN roots \subseteq Nat /\ call[r] \in Call
    BY <1>3 DEF IInv, TypeOK, Record
  <2>2. keep \in BOOLEAN
    OBVIOUS
  <2>3. call' = [call EXCEPT ![r] = c]
    BY <1>3 DEF IInv, TypeOK
  <2> HIDE DEF keep
  <2>4. c \in Call /\ c.at = "journal" /\ c.repo = id /\ c.root = records[id].root
    BY <2>1, <2>2 DEF Call, Stages
  <2> HIDE DEF c
  <2>5. CallOK(c) /\ c.at \notin Holding
    BY <2>1, <2>4 DEF CallOK, Holding
  <2>6. QED
    BY <1>1, <1>3, <2>3, <2>4, <2>5, QuietStep DEF Appends
<1>4. QED
  BY <1>2, <1>3 DEF RevokeBodyRead

LEMMA PathResolvedKeeps == ASSUME IInv, NEW r \in Requests, PathResolved(r) PROVE IInv'
<1>1. /\ call[r].at = "path" /\ call[r].path \in Paths /\ UNCHANGED <<registry, auth, audit, used>>
  BY DEF PathResolved, IInv, CallsOK, CallOK
<1>2. CASE Moves(r, "lookup")
  BY <1>1, <1>2, MovesKeeps
<1>3. CASE Moves(r, "root")
  BY <1>1, <1>3, MovesKeeps
<1>4. CASE Answers(r)
  BY <1>1, <1>4, AnswersKeeps
<1>5. ASSUME NEW id \in DOMAIN roots,
             call' = [call EXCEPT ![r].at = "layout", ![r].root = id, ![r].known = DOMAIN records]
      PROVE  IInv'
  <2> DEFINE c == [call[r] EXCEPT !.at = "layout", !.root = id, !.known = DOMAIN records]
  <2>1. call[r] \in Call /\ DOMAIN records \subseteq 1 .. lastRepo /\ DOMAIN roots \subseteq Nat
    BY DEF IInv, TypeOK
  <2>2. call' = [call EXCEPT ![r] = c]
    BY <1>5 DEF IInv, TypeOK
  <2>3. c \in Call /\ c.at = "layout" /\ c.path = call[r].path /\ c.root = id
    BY <2>1 DEF Call, Stages
  <2> HIDE DEF c
  <2>4. CallOK(c) /\ c.at \notin Holding
    BY <1>1, <2>3 DEF CallOK, Holding
  <2>5. QED
    BY <1>1, <2>2, <2>3, <2>4, QuietStep
<1>6. QED
  BY <1>2, <1>3, <1>4, <1>5 DEF PathResolved

LEMMA SharedReconciledKeeps == ASSUME IInv, NEW r \in Requests, SharedReconciled(r) PROVE IInv'
<1>1. /\ call[r].at = "shared" /\ call[r].root \in DOMAIN roots /\ call[r].repo \in 1 .. lastRepo
      /\ UNCHANGED <<roots, attached, records, byCommon, pins, lastRepo, auth, journal, used>>
  BY DEF SharedReconciled, IInv, CallsOK, CallOK
<1>2. CASE Moves(r, "lookup") /\ UNCHANGED tail
  BY <1>1, <1>2, MovesKeeps
<1>3. CASE Answers(r) /\ UNCHANGED tail
  <2>1. NoCall \in Call /\ CallOK(NoCall) /\ NoCall.at \notin Holding
    BY NoCallTypes DEF IInv, NoCall, Holding
  <2>2. QED
    BY <1>1, <1>3, <2>1, QuietStep DEF Answers
<1>4. CASE Moves(r, "journal") /\ Appends(r)
  BY <1>1, <1>4, MovesKeeps DEF Appends
<1>5. QED
  BY <1>2, <1>3, <1>4 DEF SharedReconciled

-----------------------------------------------------------------------------
(* Roots and repositories are allocated.                                     *)

LEMMA GrowingTypes ==
    ASSUME DOMAIN roots \subseteq DOMAIN roots', lastRepo \in Nat, lastRepo' \in Nat,
           lastRepo <= lastRepo'
    PROVE  /\ 1 .. lastRepo \subseteq 1 .. lastRepo'
           /\ Grants \subseteq Grants' /\ Ticket \subseteq Ticket' /\ Session \subseteq Session'
           /\ Record \subseteq Record' /\ Call \subseteq Call' /\ Entry \subseteq Entry'
<1>1. 1 .. lastRepo \subseteq 1 .. lastRepo'
  OBVIOUS
<1>2. Grants \subseteq Grants'
  BY <1>1 DEF Grants
<1>3. Ticket \subseteq Ticket' /\ Session \subseteq Session'
  BY <1>2 DEF Ticket, Session
<1>4. Record \subseteq Record' /\ Entry \subseteq Entry'
  BY <1>1 DEF Record, Entry
<1>5. Call \subseteq Call'
  BY <1>1, <1>2 DEF Call
<1>6. QED
  BY <1>1, <1>2, <1>3, <1>4, <1>5

\* A request allocates a root or a repository, and nothing else changes.
LEMMA GrowStep ==
    ASSUME IInv, NEW r \in Requests, NEW c \in Call, call' = [call EXCEPT ![r] = c],
           c.at \in {"path", "root", "layout", "shared"} \union Holding => c.path \in Paths,
           c.at \in {"layout", "shared", "journal"} \union Holding => c.root \in DOMAIN roots',
           c.at \in {"shared", "journal"} \union Holding => c.repo \in 1 .. lastRepo',
           roots' \in Seq(Paths), DOMAIN roots \subseteq DOMAIN roots',
           lastRepo' \in Nat, lastRepo <= lastRepo', call[r].at # "journal",
           UNCHANGED <<attached, records, byCommon, pins, auth, audit, used>>, RegistryInv'
    PROVE  IInv'
<1>1. \A q \in Requests : call'[q] = IF q = r THEN c ELSE call[q]
  BY DEF IInv, TypeOK
<1>2. /\ 1 .. lastRepo \subseteq 1 .. lastRepo'
      /\ Grants \subseteq Grants' /\ Ticket \subseteq Ticket' /\ Session \subseteq Session'
      /\ Record \subseteq Record' /\ Call \subseteq Call' /\ Entry \subseteq Entry'
  BY GrowingTypes DEF IInv, TypeOK
<1>3. CallsOK'
  BY <1>1, <1>2 DEF IInv, CallsOK, CallOK
<1>4. /\ tail' \in Seq(Requests) /\ LineOK'
      /\ \A i \in DOMAIN tail' : call'[tail'[i]].at = "journal"
  BY <1>1, OffTheLine DEF IInv
<1>5. AuthInv'
  BY AuthStays DEF IInv
<1>6. TypeOK'
  <2>1. tickets' \in Seq(Ticket') /\ sessions' \in Seq(Session') /\ journal' \in Seq(Entry')
    BY <1>2, Monotone DEF IInv, TypeOK, Entry
  <2>2. call' \in [Requests -> Call']
    BY <1>2 DEF IInv, TypeOK
  <2>3. /\ DOMAIN records' \subseteq 1 .. lastRepo' /\ records' \in [DOMAIN records' -> Record']
        /\ granted' \in Grants'
    BY <1>2 DEF IInv, TypeOK
  <2>4. used' \in Used
    BY DEF IInv, TypeOK, Used
  <2>5. QED
    BY <1>4, <2>1, <2>2, <2>3, <2>4 DEF TypeOK, Used, Entry
<1>7. QED
  BY <1>3, <1>4, <1>5, <1>6 DEF IInv

LEMMA RootApprovedKeeps == ASSUME IInv, NEW r \in Requests, RootApproved(r) PROVE IInv'
<1> DEFINE n == Len(roots) + 1
           c == [call[r] EXCEPT !.at = "layout", !.root = n, !.known = DOMAIN records]
<1>1. /\ call[r].at = "root" /\ call[r].path \in Paths /\ call[r] \in Call
      /\ roots \in Seq(Paths) /\ DOMAIN records \subseteq 1 .. lastRepo /\ lastRepo \in Nat
  BY DEF RootApproved, IInv, TypeOK, CallsOK, CallOK
<1>2. roots' = Append(roots, call[r].path) /\ call' = [call EXCEPT ![r] = c]
  BY DEF RootApproved, IInv, TypeOK
<1>3. n \in Nat /\ roots' \in Seq(Paths) /\ DOMAIN roots' = DOMAIN roots \union {n}
  BY <1>1, <1>2
<1> HIDE DEF n
<1>4. c \in Call /\ c.at = "layout" /\ c.path = call[r].path /\ c.root = n
  BY <1>1, <1>3 DEF Call, Stages
<1> HIDE DEF c
<1>5. UNCHANGED <<attached, records, byCommon, pins, lastRepo, auth, audit, used>>
  BY DEF RootApproved
<1>6. \A q \in Requests : call'[q] = IF q = r THEN c ELSE call[q]
  BY <1>2 DEF IInv, TypeOK
<1>7. RegistryInv'
  <2>1. c.at \notin Holding
    BY <1>4 DEF Holding
  <2>2. QED
    BY <1>5, <1>6, <2>1, RegistryStays DEF IInv
<1>8. c.at \notin {"shared", "journal"} \union Holding
  BY <1>4 DEF Holding
<1>9. c.path \in Paths /\ c.root \in DOMAIN roots'
  BY <1>1, <1>3, <1>4
<1>10. /\ lastRepo' = lastRepo /\ lastRepo' \in Nat /\ lastRepo <= lastRepo'
       /\ call[r].at # "journal" /\ DOMAIN roots \subseteq DOMAIN roots'
  BY <1>1, <1>3, <1>5
<1>11. QED
  BY <1>2, <1>3, <1>4, <1>5, <1>7, <1>8, <1>9, <1>10, GrowStep

\* The id of a new repository is nobody else's.
LEMMA NewRepository ==
    ASSUME IInv, NEW r \in Requests, NEW c, call' = [call EXCEPT ![r] = c],
           c.at = "pin", c.repo = lastRepo + 1,
           UNCHANGED <<attached, records, byCommon, pins>>
    PROVE  RegistryInv'
<1>1. \A q \in Requests : call'[q] = IF q = r THEN c ELSE call[q]
  BY DEF IInv, TypeOK
<1>2. lastRepo + 1 \notin 1 .. lastRepo /\ DOMAIN records \subseteq 1 .. lastRepo
  BY DEF IInv, TypeOK
<1>3. \A q \in Requests : call[q].at \in Holding => call[q].repo # lastRepo + 1
  BY <1>2 DEF IInv, CallsOK, CallOK
<1>4. \A a \in attached : a[2] # lastRepo + 1
  BY <1>2 DEF IInv, RegistryInv, AttachedAgree
<1>5. HoldersAgree'
  BY <1>1, <1>2, <1>3 DEF IInv, RegistryInv, HoldersAgree
<1>6. AttachedAgree' /\ NothingOutlivesItsRecord'
  BY DEF IInv, RegistryInv, AttachedAgree, NothingOutlivesItsRecord
<1>7. FreshIsAlone'
  BY <1>1, <1>3, <1>4 DEF IInv, RegistryInv, FreshIsAlone, Holding
<1>8. QED
  BY <1>5, <1>6, <1>7 DEF RegistryInv

LEMMA LayoutReadKeeps == ASSUME IInv, NEW r \in Requests, LayoutRead(r) PROVE IInv'
<1> DEFINE k == CommonOf[call[r].path]
<1>1. /\ call[r].at = "layout" /\ call[r].path \in Paths /\ call[r].root \in DOMAIN roots
      /\ call[r] \in Call /\ lastRepo \in Nat /\ DOMAIN records \subseteq 1 .. lastRepo
      /\ UNCHANGED <<roots, attached, records, byCommon, pins, auth, audit, used>>
  BY DEF LayoutRead, IInv, TypeOK, CallsOK, CallOK
<1>2. ASSUME byCommon[k] \in DOMAIN records, lastRepo' = lastRepo,
             call' = [call EXCEPT ![r].at = "shared", ![r].repo = byCommon[k]]
      PROVE  IInv'
  <2> DEFINE id == byCommon[k]
             c == [call[r] EXCEPT !.at = "shared", !.repo = id]
  <2>1. call' = [call EXCEPT ![r] = c]
    BY <1>2 DEF IInv, TypeOK
  <2>2. id \in 1 .. lastRepo /\ id \in Nat
    BY <1>1, <1>2
  <2> HIDE DEF id
  <2>3. /\ c \in Call /\ c.at = "shared" /\ c.path = call[r].path /\ c.root = call[r].root
        /\ c.repo = id
    BY <1>1, <2>2 DEF Call, Stages
  <2> HIDE DEF c
  <2>4. CallOK(c) /\ c.at \notin Holding
    BY <1>1, <2>2, <2>3 DEF CallOK, Holding
  <2>5. QED
    BY <1>1, <1>2, <2>1, <2>3, <2>4, QuietStep
<1>3. CASE Answers(r) /\ UNCHANGED lastRepo
  <2>1. NoCall \in Call /\ CallOK(NoCall) /\ NoCall.at \notin Holding
    BY NoCallTypes DEF IInv, NoCall, Holding
  <2>2. QED
    BY <1>1, <1>3, <2>1, QuietStep DEF Answers
<1>4. CASE lastRepo' = lastRepo + 1
           /\ call' = [call EXCEPT ![r].at = "pin", ![r].repo = lastRepo + 1]
  <2> DEFINE n == lastRepo + 1
             c == [call[r] EXCEPT !.at = "pin", !.repo = n]
  <2>1. call' = [call EXCEPT ![r] = c]
    BY <1>4 DEF IInv, TypeOK
  <2>2. n \in Nat /\ n \in 1 .. lastRepo' /\ lastRepo' \in Nat /\ lastRepo <= lastRepo'
    BY <1>1, <1>4
  <2>3. /\ c \in Call /\ c.at = "pin" /\ c.path = call[r].path /\ c.root = call[r].root
        /\ c.repo = n
    BY <1>1, <2>2 DEF Call, Stages
  <2> HIDE DEF c
  <2>4. RegistryInv'
    BY <1>1, <2>1, <2>3, NewRepository
  <2>5. roots' \in Seq(Paths) /\ DOMAIN roots \subseteq DOMAIN roots' /\ call[r].at # "journal"
    BY <1>1 DEF IInv, TypeOK
  <2>6. QED
    BY <1>1, <2>1, <2>2, <2>3, <2>4, <2>5, GrowStep
<1>5. QED
  BY <1>2, <1>3, <1>4 DEF LayoutRead

-----------------------------------------------------------------------------
(* Records are entered and taken back.                                       *)

\* A request that holds a record has a path, a root and an id.
LEMMA HolderKnows ==
    ASSUME IInv, NEW r \in Requests, call[r].at \in Holding
    PROVE  /\ call[r].path \in Paths /\ call[r].root \in DOMAIN roots
           /\ call[r].repo \in 1 .. lastRepo
BY DEF IInv, CallsOK, CallOK

LEMMA PinnedKeeps == ASSUME IInv, NEW r \in Requests, Pinned(r) PROVE IInv'
<1> DEFINE id == call[r].repo
           k == CommonOf[call[r].path]
           c == [call[r] EXCEPT !.at = "worktrees"]
<1>1. /\ call[r].at = "pin" /\ call[r].at \in Holding /\ call[r].at # "journal"
      /\ records' = Put(records, id, RecordOf(r, FALSE))
      /\ byCommon' = Put(byCommon, k, id) /\ pins' = pins \union {id}
      /\ UNCHANGED <<roots, attached, lastRepo, auth, audit, used>>
  BY DEF Pinned, Holding
<1>2. /\ c \in Call /\ c.at = "worktrees" /\ c.repo = id
      /\ c.path = call[r].path /\ c.root = call[r].root
  BY MovedTypes DEF IInv, Stages
<1>3. call' = [call EXCEPT ![r] = c]
  BY DEF Pinned, Moves, IInv, TypeOK
<1> HIDE DEF c
<1>4. CallOK(c)
  BY <1>1, <1>2, HolderKnows DEF CallOK, Holding
<1>5. \A q \in Requests : call'[q] = IF q = r THEN c ELSE call[q]
  BY <1>3 DEF IInv, TypeOK
<1>6. \A q \in Requests : call'[q].at \in Holding =>
         /\ call[q].at \in Holding /\ call[q].repo = call'[q].repo
         /\ call[q].path = call'[q].path /\ call[q].root = call'[q].root
  BY <1>1, <1>2, <1>5
<1>7. /\ HoldersAgree' /\ DOMAIN records' \subseteq 1 .. lastRepo
      /\ records' \in [DOMAIN records' -> Record']
      /\ DOMAIN records' = DOMAIN records \union {id}
      /\ records'[id].common = k
      /\ \A x \in DOMAIN records : /\ records'[x].root = records[x].root
                                   /\ records'[x].common = records[x].common
  BY <1>1, <1>6, Entered DEF IInv
<1>8. AttachedAgree'
  BY <1>1, <1>7 DEF IInv, RegistryInv, AttachedAgree
<1>9. NothingOutlivesItsRecord'
  <2>1. /\ DOMAIN byCommon' = DOMAIN byCommon \union {k}
        /\ \A x \in DOMAIN byCommon' : byCommon'[x] = IF x = k THEN id ELSE byCommon[x]
    BY <1>1 DEF Put
  <2>2. \A x \in DOMAIN byCommon :
           byCommon[x] \in DOMAIN records' /\ records'[byCommon[x]].common = x
    BY <1>7 DEF IInv, RegistryInv, NothingOutlivesItsRecord
  <2>3. \A x \in DOMAIN byCommon' :
           byCommon'[x] \in DOMAIN records' /\ records'[byCommon'[x]].common = x
    <3> HIDE DEF k, id
    <3>1. QED
      BY <1>7, <2>1, <2>2
  <2>4. \A a \in attached' : a[2] \in DOMAIN records'
    BY <1>8 DEF AttachedAgree
  <2>5. pins' \subseteq DOMAIN records'
    BY <1>1, <1>7 DEF IInv, RegistryInv, NothingOutlivesItsRecord
  <2>6. QED
    BY <2>3, <2>4, <2>5 DEF NothingOutlivesItsRecord
<1>10. FreshIsAlone'
  BY <1>1, <1>2, <1>5 DEF IInv, RegistryInv, FreshIsAlone
<1>11. RegistryInv'
  BY <1>7, <1>8, <1>9, <1>10 DEF RegistryInv
<1>12. AuthInv' /\ Record' = Record
  BY <1>1, AuthStays, SameTypes DEF IInv
<1>13. QED
  BY <1>1, <1>2, <1>3, <1>4, <1>7, <1>11, <1>12, RequestStep DEF IInv, TypeOK, Used, Entry

LEMMA WorktreesReadKeeps == ASSUME IInv, NEW r \in Requests, WorktreesRead(r) PROVE IInv'
<1> DEFINE id == call[r].repo
           c == [call[r] EXCEPT !.at = "journal"]
<1>1. /\ call[r].at = "worktrees" /\ call[r].at \in Holding /\ call[r].at # "journal"
      /\ records' = Put(records, id, RecordOf(r, TRUE))
      /\ attached' = attached \union {<<call[r].root, id>>}
      /\ tail' = Append(tail, r)
      /\ UNCHANGED <<roots, byCommon, pins, lastRepo, auth, journal, used>>
  BY DEF WorktreesRead, Holding, Appends
<1>2. /\ c \in Call /\ c.at = "journal" /\ c.repo = id
      /\ c.path = call[r].path /\ c.root = call[r].root
  BY MovedTypes DEF IInv, Stages
<1>3. call' = [call EXCEPT ![r] = c]
  BY DEF WorktreesRead, Moves, IInv, TypeOK
<1> HIDE DEF c
<1>4. CallOK(c) /\ c.at \notin Holding
  BY <1>1, <1>2, HolderKnows DEF CallOK, Holding
<1>5. \A q \in Requests : call'[q] = IF q = r THEN c ELSE call[q]
  BY <1>3 DEF IInv, TypeOK
<1>6. \A q \in Requests : call'[q].at \in Holding => q # r /\ call[q] = call'[q]
  BY <1>4, <1>5
<1>7. /\ HoldersAgree' /\ DOMAIN records' \subseteq 1 .. lastRepo
      /\ records' \in [DOMAIN records' -> Record']
      /\ DOMAIN records' = DOMAIN records \union {id}
      /\ records'[id].root = call[r].root
      /\ \A x \in DOMAIN records : /\ records'[x].root = records[x].root
                                   /\ records'[x].common = records[x].common
  BY <1>1, <1>6, Entered DEF IInv
<1>8. AttachedAgree'
  <2>1. call[r].root \in Nat /\ id \in Nat
    BY <1>1, HolderKnows DEF IInv, TypeOK
  <2>2. \A a \in attached : a[2] \in DOMAIN records' /\ records'[a[2]].root = a[1]
    BY <1>7 DEF IInv, RegistryInv, AttachedAgree
  <2>3. \A a \in attached' : a[2] \in DOMAIN records' /\ records'[a[2]].root = a[1]
    <3>1. \A a \in attached' : a \in attached \/ a = <<call[r].root, id>>
      BY <1>1
    <3> HIDE DEF id
    <3>2. QED
      BY <1>7, <2>2, <3>1
  <2>4. attached' \subseteq Nat \X Nat
    BY <1>1, <2>1 DEF IInv, RegistryInv, AttachedAgree
  <2>5. QED
    BY <2>3, <2>4 DEF AttachedAgree
<1>9. NothingOutlivesItsRecord'
  <2>1. \A a \in attached' : a[2] \in DOMAIN records'
    BY <1>8 DEF AttachedAgree
  <2>2. QED
    BY <1>1, <1>7, <2>1 DEF IInv, RegistryInv, NothingOutlivesItsRecord
<1>10. FreshIsAlone'
  <2>1. \A q \in Requests : call'[q].at \in {"pin", "worktrees"} => call[q].repo # id
    BY <1>1, <1>6 DEF IInv, RegistryInv, FreshIsAlone, Holding
  <2>2. QED
    BY <1>1, <1>6, <2>1 DEF IInv, RegistryInv, FreshIsAlone, Holding
<1>11. RegistryInv'
  BY <1>7, <1>8, <1>9, <1>10 DEF RegistryInv
<1>12. AuthInv' /\ Record' = Record
  BY <1>1, AuthStays, SameTypes DEF IInv
<1>13. QED
  BY <1>1, <1>2, <1>3, <1>4, <1>7, <1>11, <1>12, RequestStep DEF IInv, TypeOK, Used, Entry

LEMMA WorktreesListedKeeps == ASSUME IInv, NEW r \in Requests, WorktreesListed(r) PROVE IInv'
<1> DEFINE id == call[r].repo
<1>1. /\ call[r].at = "reading" /\ call[r].at \in Holding /\ call[r].at # "journal"
      /\ records' = Put(records, id, RecordOf(r, TRUE))
      /\ call' = [call EXCEPT ![r] = NoCall]
      /\ UNCHANGED <<roots, attached, byCommon, pins, lastRepo, auth, audit, used>>
  BY DEF WorktreesListed, Holding, Answers
<1>2. NoCall \in Call /\ CallOK(NoCall) /\ NoCall.at \notin Holding
  BY NoCallTypes DEF IInv, NoCall, Holding
<1>3. \A q \in Requests : call'[q].at \in Holding => q # r /\ call[q] = call'[q]
  BY <1>1, <1>2 DEF IInv, TypeOK
<1>4. /\ HoldersAgree' /\ DOMAIN records' \subseteq 1 .. lastRepo
      /\ records' \in [DOMAIN records' -> Record']
      /\ DOMAIN records' = DOMAIN records \union {id}
      /\ \A x \in DOMAIN records : /\ records'[x].root = records[x].root
                                   /\ records'[x].common = records[x].common
  BY <1>1, <1>3, Entered DEF IInv
<1>5. AttachedAgree' /\ NothingOutlivesItsRecord'
  BY <1>1, <1>4 DEF IInv, RegistryInv, AttachedAgree, NothingOutlivesItsRecord
<1>6. FreshIsAlone'
  BY <1>1, <1>3 DEF IInv, RegistryInv, FreshIsAlone, Holding
<1>7. RegistryInv'
  BY <1>4, <1>5, <1>6 DEF RegistryInv
<1>8. AuthInv' /\ Record' = Record
  BY <1>1, AuthStays, SameTypes DEF IInv
<1>9. QED
  BY <1>1, <1>2, <1>4, <1>7, <1>8, RequestStep DEF IInv, TypeOK, Used, Entry

LEMMA WorktreesUnreadKeeps == ASSUME IInv, NEW r \in Requests, WorktreesUnread(r) PROVE IInv'
<1> DEFINE id == call[r].repo
           k == CommonOf[call[r].path]
<1>1. /\ call[r].at = "worktrees" /\ call[r].at \in Holding /\ call[r].at # "journal"
      /\ records' = Without(records, id) /\ pins' = pins \ {id}
      /\ byCommon' = Without(byCommon, k)
      /\ call' = [call EXCEPT ![r] = NoCall] /\ used' = [used EXCEPT !.faults = @ + 1]
      /\ UNCHANGED <<roots, attached, lastRepo, auth, audit>>
  BY DEF WorktreesUnread, Holding, Answers, Faulty
<1>2. NoCall \in Call /\ CallOK(NoCall) /\ NoCall.at \notin Holding
  BY NoCallTypes DEF IInv, NoCall, Holding
<1>3. \A q \in Requests : call'[q].at \in Holding => q # r /\ call[q] = call'[q]
  BY <1>1, <1>2 DEF IInv, TypeOK
<1>4. /\ DOMAIN records' = DOMAIN records \ {id}
      /\ \A x \in DOMAIN records' : records'[x] = records[x]
      /\ DOMAIN byCommon' = DOMAIN byCommon \ {k}
      /\ \A x \in DOMAIN byCommon' : byCommon'[x] = byCommon[x]
      /\ records' \in [DOMAIN records' -> Record]
  BY <1>1 DEF Without, Restrict, IInv, TypeOK
<1>5. HoldersAgree'
  BY <1>3, <1>4 DEF IInv, RegistryInv, HoldersAgree
<1>6. \A a \in attached : a[2] # id
  BY <1>1 DEF IInv, RegistryInv, FreshIsAlone
<1>7. AttachedAgree'
  BY <1>1, <1>4, <1>6 DEF IInv, RegistryInv, AttachedAgree
<1>8. NothingOutlivesItsRecord'
  <2>1. id \in DOMAIN records => records[id].common = k
    BY <1>1 DEF IInv, RegistryInv, HoldersAgree
  <2>2. \A x \in DOMAIN byCommon' : byCommon[x] # id
    BY <1>4, <2>1 DEF IInv, RegistryInv, NothingOutlivesItsRecord
  <2>3. \A a \in attached' : a[2] \in DOMAIN records'
    BY <1>7 DEF AttachedAgree
  <2>4. QED
    BY <1>1, <1>4, <2>2, <2>3 DEF IInv, RegistryInv, NothingOutlivesItsRecord
<1>9. FreshIsAlone'
  BY <1>1, <1>3 DEF IInv, RegistryInv, FreshIsAlone, Holding
<1>10. RegistryInv'
  BY <1>5, <1>7, <1>8, <1>9 DEF RegistryInv
<1>11. used' \in Used /\ used'.mints = used.mints
  BY <1>1, Counted DEF IInv
<1>12. AuthInv'
  BY <1>1, <1>11, AuthStays DEF IInv
<1>13. DOMAIN records' \subseteq 1 .. lastRepo
  BY <1>4 DEF IInv, TypeOK
<1>14. QED
  BY <1>1, <1>2, <1>4, <1>10, <1>11, <1>12, <1>13, RequestStep DEF IInv, TypeOK, Entry

-----------------------------------------------------------------------------
(* The audit is written or not.                                              *)

\* A request in the line waits for the journal; then it is answered.
LEMMA InLine ==
    ASSUME IInv, NEW r \in Requests, call[r].at = "journal", Answers(r)
    PROVE  /\ NoCall \in Call /\ CallOK(NoCall) /\ call' = [call EXCEPT ![r] = NoCall]
           /\ call[r].root \in DOMAIN roots /\ call[r].repo \in 1 .. lastRepo
           /\ \A q \in Requests : call'[q].at \in Holding => call[q] = call'[q]
<1>1. NoCall \in Call /\ CallOK(NoCall) /\ NoCall.at \notin Holding
  BY NoCallTypes DEF IInv, NoCall, Holding
<1>2. call' = [call EXCEPT ![r] = NoCall]
  BY DEF Answers
<1>3. QED
  BY <1>1, <1>2 DEF IInv, TypeOK, CallsOK, CallOK

\* What a record of the audit may say.
LEMMA WrittenEntry ==
    ASSUME IInv, NEW r \in Requests, NEW a \in {"register", "revoke"}, Written(r, a),
           call[r].repo \in 1 .. lastRepo
    PROVE  journal' \in Seq(Entry)
BY DEF IInv, TypeOK, Written, Entry

LEMMA AddedGrants ==
    ASSUME NEW g \in Grants, NEW x \in DOMAIN roots, NEW y \in 1 .. lastRepo
    PROVE  AddGrant(g, x, y) \in Grants
BY DEF AddGrant, Grants

LEMMA RemovedGrants ==
    ASSUME NEW g \in Grants, NEW x, NEW y, NEW b
    PROVE  RemoveGrant(g, x, y, b) \in Grants
BY DEF RemoveGrant, Grants

\* The sessions are given other grants.
LEMMA SessionsRegranted ==
    ASSUME IInv, NEW s, s = [i \in DOMAIN sessions |-> s[i]], sessions' = s,
           \A i \in DOMAIN sessions : \E g \in Grants : s[i] = WithGrants(sessions[i], g),
           UNCHANGED <<tickets, paired>>, used'.mints = used.mints
    PROVE  sessions' \in Seq(Session) /\ AuthInv'
<1>1. sessions' \in Seq(Session) /\ Distinct(sessions') /\ IdsOf(sessions') = IdsOf(sessions)
  BY Regranted DEF IInv
<1>2. QED
  BY <1>1, AuthShrinks DEF IInv, AuthInv

LEMMA GrantedSessions ==
    ASSUME IInv, NEW x \in DOMAIN roots, NEW y \in 1 .. lastRepo, NEW id,
           sessions' \in {GrantSession(id, x, y), GrantEverySession(x, y)},
           UNCHANGED <<tickets, paired>>, used'.mints = used.mints
    PROVE  sessions' \in Seq(Session) /\ AuthInv'
<1>1. \A i \in DOMAIN sessions :
         /\ sessions[i] \in Session /\ sessions[i].grants \in Grants
         /\ sessions[i] = WithGrants(sessions[i], sessions[i].grants)
         /\ AddGrant(sessions[i].grants, x, y) \in Grants
  <2> TAKE i \in DOMAIN sessions
  <2>1. sessions[i] \in Session
    BY DEF IInv, TypeOK
  <2>2. sessions[i].grants \in Grants
    BY <2>1 DEF Session
  <2>3. sessions[i] = WithGrants(sessions[i], sessions[i].grants)
    BY <2>1 DEF Session, WithGrants
  <2>4. QED
    BY <2>1, <2>2, <2>3, AddedGrants
<1>2. CASE sessions' = GrantEverySession(x, y)
  <2> DEFINE s == GrantEverySession(x, y)
  <2>1. s = [i \in DOMAIN sessions |-> s[i]]
    BY DEF GrantEverySession
  <2>2. \A i \in DOMAIN sessions : \E g \in Grants : s[i] = WithGrants(sessions[i], g)
    BY <1>1 DEF GrantEverySession
  <2> HIDE DEF s
  <2>3. QED
    BY <1>2, <2>1, <2>2, SessionsRegranted DEF s
<1>3. CASE sessions' = GrantSession(id, x, y)
  <2> DEFINE s == GrantSession(id, x, y)
  <2>1. s = [i \in DOMAIN sessions |-> s[i]]
    BY DEF GrantSession
  <2>2. \A i \in DOMAIN sessions : \E g \in Grants : s[i] = WithGrants(sessions[i], g)
    BY <1>1 DEF GrantSession
  <2> HIDE DEF s
  <2>3. QED
    BY <1>3, <2>1, <2>2, SessionsRegranted DEF s
<1>4. QED
  BY <1>2, <1>3

LEMMA RevokedSessions ==
    ASSUME IInv, NEW x, NEW y, NEW b, sessions' = RevokeEverySession(x, y, b),
           UNCHANGED <<tickets, paired>>, used'.mints = used.mints
    PROVE  sessions' \in Seq(Session) /\ AuthInv'
<1> DEFINE s == RevokeEverySession(x, y, b)
<1>1. s = [i \in DOMAIN sessions |-> s[i]]
  BY DEF RevokeEverySession
<1>2. \A i \in DOMAIN sessions : \E g \in Grants : s[i] = WithGrants(sessions[i], g)
  <2> TAKE i \in DOMAIN sessions
  <2>1. sessions[i] \in Session
    BY DEF IInv, TypeOK
  <2>2. sessions[i].grants \in Grants
    BY <2>1 DEF Session
  <2>3. RemoveGrant(sessions[i].grants, x, y, b) \in Grants
    BY <2>2, RemovedGrants
  <2>4. QED
    BY <2>3 DEF RevokeEverySession
<1> HIDE DEF s
<1>3. QED
  BY <1>1, <1>2, SessionsRegranted DEF s

LEMMA RegistrationWrittenKeeps ==
    ASSUME IInv, NEW r \in Requests, RegistrationWritten(r) PROVE IInv'
<1>1. /\ call[r].at = "journal" /\ tail # <<>> /\ Head(tail) = r /\ tail' = Tail(tail)
      /\ Written(r, "register") /\ Answers(r)
      /\ granted' = AddGrant(granted, call[r].root, call[r].repo)
      /\ sessions' \in {GrantSession(call[r].session, call[r].root, call[r].repo),
                        GrantEverySession(call[r].root, call[r].repo)}
      /\ UNCHANGED <<registry, tickets, paired, used>>
  BY DEF RegistrationWritten, Written
<1>2. /\ NoCall \in Call /\ CallOK(NoCall) /\ call' = [call EXCEPT ![r] = NoCall]
      /\ call[r].root \in DOMAIN roots /\ call[r].repo \in 1 .. lastRepo
      /\ \A q \in Requests : call'[q].at \in Holding => call[q] = call'[q]
  BY <1>1, InLine
<1>3. journal' \in Seq(Entry)
  BY <1>1, <1>2, WrittenEntry
<1>4. granted' \in Grants
  BY <1>1, <1>2, AddedGrants DEF IInv, TypeOK
<1>5. sessions' \in Seq(Session) /\ AuthInv'
  BY <1>1, <1>2, GrantedSessions
<1>6. RegistryInv'
  BY <1>1, <1>2, RegistryStays DEF IInv
<1>7. QED
  BY <1>1, <1>2, <1>3, <1>4, <1>5, <1>6, RequestStep DEF IInv, TypeOK, Used

LEMMA RegistrationUnwrittenKeeps ==
    ASSUME IInv, NEW r \in Requests, RegistrationUnwritten(r) PROVE IInv'
<1>1. /\ call[r].at = "journal" /\ tail # <<>> /\ Head(tail) = r /\ tail' = Tail(tail)
      /\ Unregister(call[r].repo) /\ Answers(r)
      /\ used' = [used EXCEPT !.faults = @ + 1]
      /\ UNCHANGED <<roots, lastRepo, auth, journal>>
  BY DEF RegistrationUnwritten, Unwritten, Faulty
<1>2. /\ NoCall \in Call /\ CallOK(NoCall) /\ call' = [call EXCEPT ![r] = NoCall]
      /\ \A q \in Requests : call'[q].at \in Holding => call[q] = call'[q]
  BY <1>1, InLine
<1>3. /\ RegistryInv' /\ DOMAIN records' \subseteq DOMAIN records
      /\ records' \in [DOMAIN records' -> Record]
  BY <1>1, <1>2, Unregistered DEF IInv
<1>4. used' \in Used /\ used'.mints = used.mints
  BY <1>1, Counted DEF IInv
<1>5. AuthInv'
  BY <1>1, <1>4, AuthStays DEF IInv
<1>6. QED
  BY <1>1, <1>2, <1>3, <1>4, <1>5, RequestStep DEF IInv, TypeOK, Entry

LEMMA RevocationWrittenKeeps ==
    ASSUME IInv, NEW r \in Requests, RevocationWritten(r) PROVE IInv'
<1>1. /\ call[r].at = "journal" /\ tail # <<>> /\ Head(tail) = r /\ tail' = Tail(tail)
      /\ Written(r, "revoke") /\ Answers(r) /\ Unregister(call[r].repo)
      /\ granted' = RemoveGrant(granted, call[r].root, call[r].repo, call[r].keepRoot)
      /\ sessions' = RevokeEverySession(call[r].root, call[r].repo, call[r].keepRoot)
      /\ UNCHANGED <<roots, lastRepo, tickets, paired, used>>
  BY DEF RevocationWritten, Written
<1>2. /\ NoCall \in Call /\ CallOK(NoCall) /\ call' = [call EXCEPT ![r] = NoCall]
      /\ call[r].root \in DOMAIN roots /\ call[r].repo \in 1 .. lastRepo
      /\ \A q \in Requests : call'[q].at \in Holding => call[q] = call'[q]
  BY <1>1, InLine
<1>3. journal' \in Seq(Entry)
  BY <1>1, <1>2, WrittenEntry
<1>4. granted' \in Grants
  BY <1>1, RemovedGrants DEF IInv, TypeOK
<1>5. sessions' \in Seq(Session) /\ AuthInv'
  BY <1>1, RevokedSessions
<1>6. /\ RegistryInv' /\ DOMAIN records' \subseteq DOMAIN records
      /\ records' \in [DOMAIN records' -> Record]
  BY <1>1, <1>2, Unregistered DEF IInv
<1>7. QED
  BY <1>1, <1>2, <1>3, <1>4, <1>5, <1>6, RequestStep DEF IInv, TypeOK, Used

LEMMA RevocationUnwrittenKeeps ==
    ASSUME IInv, NEW r \in Requests, RevocationUnwritten(r) PROVE IInv'
<1>1. /\ call[r].at = "journal" /\ tail # <<>> /\ Head(tail) = r /\ tail' = Tail(tail)
      /\ Answers(r) /\ used' = [used EXCEPT !.faults = @ + 1]
      /\ UNCHANGED <<registry, auth, journal>>
  BY DEF RevocationUnwritten, Unwritten, Faulty
<1>2. /\ NoCall \in Call /\ CallOK(NoCall) /\ call' = [call EXCEPT ![r] = NoCall]
      /\ \A q \in Requests : call'[q].at \in Holding => call[q] = call'[q]
  BY <1>1, InLine
<1>3. RegistryInv'
  BY <1>1, <1>2, RegistryStays DEF IInv
<1>4. used' \in Used /\ used'.mints = used.mints
  BY <1>1, Counted DEF IInv
<1>5. AuthInv'
  BY <1>1, <1>4, AuthStays DEF IInv
<1>6. QED
  BY <1>1, <1>2, <1>3, <1>4, <1>5, RequestStep DEF IInv, TypeOK, Entry

LEMMA LookedUpKeeps == ASSUME IInv, NEW r \in Requests, LookedUp(r) PROVE IInv'
<1> DEFINE found == {id \in DOMAIN records : records[id].path = call[r].path}
<1>1. /\ call[r].at # "journal" /\ Answers(r)
      /\ UNCHANGED <<registry, audit, tickets, paired, used>>
  BY DEF LookedUp
<1>2. /\ NoCall \in Call /\ CallOK(NoCall) /\ call' = [call EXCEPT ![r] = NoCall]
      /\ \A q \in Requests : call'[q].at \in Holding => call[q] = call'[q]
  <2>1. NoCall \in Call /\ CallOK(NoCall) /\ NoCall.at \notin Holding
    BY NoCallTypes DEF IInv, NoCall, Holding
  <2>2. QED
    BY <1>1, <2>1 DEF IInv, TypeOK, Answers
<1>3. granted' \in Grants /\ sessions' \in Seq(Session) /\ AuthInv'
  <2>1. CASE UNCHANGED <<granted, sessions>>
    BY <1>1, <2>1, AuthStays DEF IInv, TypeOK
  <2>2. ASSUME NEW id \in DOMAIN records,
               granted' = AddGrant(granted, records[id].root, id),
               sessions' = GrantEverySession(records[id].root, id)
        PROVE  granted' \in Grants /\ sessions' \in Seq(Session) /\ AuthInv'
    <3>1. records[id].root \in DOMAIN roots /\ id \in 1 .. lastRepo
      BY DEF IInv, TypeOK, Record
    <3>2. QED
      BY <1>1, <2>2, <3>1, AddedGrants, GrantedSessions DEF IInv, TypeOK
  <2>3. QED
    BY <2>1, <2>2 DEF LookedUp
<1>4. RegistryInv'
  BY <1>1, <1>2, RegistryStays DEF IInv
<1>5. QED
  BY <1>1, <1>2, <1>3, <1>4, RequestStep DEF IInv, TypeOK, Used, Entry

-----------------------------------------------------------------------------
(* The theorems.                                                             *)

LEMMA InitHolds == Init => IInv
<1> SUFFICES ASSUME Init PROVE IInv
  OBVIOUS
<1> DEFINE D == DOMAIN Startup
<1>1. /\ Startup \in Seq(Paths) /\ D = 1 .. Len(Startup) /\ Len(Startup) \in Nat
      /\ \A i \in D : i \in Nat /\ Startup[i] \in Paths
      /\ \A i, j \in D : CommonOf[Startup[i]] = CommonOf[Startup[j]] => i = j
  BY AccessAssumption
<1>2. /\ roots = Startup /\ lastRepo = Len(Startup) /\ pins = D /\ DOMAIN records = D
      /\ \A i \in D : /\ records[i].path = Startup[i] /\ records[i].root = i
                      /\ records[i].common = CommonOf[Startup[i]]
      /\ attached = {<<i, i>> : i \in D}
      /\ granted = [roots |-> D, repos |-> D]
      /\ tickets = <<>> /\ sessions = <<>> /\ paired = {} /\ journal = <<>> /\ tail = <<>>
      /\ call = [r \in Requests |-> NoCall] /\ used = [calls |-> 0, mints |-> 0, faults |-> 0]
  BY DEF Init, StartupRecords
<1>3. \A r \in Requests : call[r] = NoCall /\ call[r].at = "idle"
  BY <1>2 DEF NoCall
<1>4. records \in [DOMAIN records -> Record]
  BY <1>1, <1>2 DEF Init, StartupRecords, Record
<1>5. /\ DOMAIN byCommon = {CommonOf[Startup[i]] : i \in D}
      /\ \A c \in DOMAIN byCommon : byCommon[c] \in D /\ CommonOf[Startup[byCommon[c]]] = c
  BY DEF Init
<1> HIDE DEF D
<1>6. granted \in Grants
  BY <1>1, <1>2 DEF Grants
<1>7. NoCall \in Call
  BY <1>1, <1>2 DEF NoCall, Call, NoGrants, Grants, Stages
<1>8. TypeOK
  BY <1>1, <1>2, <1>4, <1>6, <1>7 DEF TypeOK
<1>9. CallsOK /\ LineOK
  BY <1>2, <1>3 DEF CallsOK, CallOK, LineOK, Holding
<1>10. HoldersAgree /\ FreshIsAlone
  BY <1>2, <1>3 DEF HoldersAgree, FreshIsAlone, Holding
<1>11. AttachedAgree
  BY <1>1, <1>2 DEF AttachedAgree
<1>12. NothingOutlivesItsRecord
  BY <1>2, <1>5 DEF NothingOutlivesItsRecord
<1>13. AuthInv
  <2>1. Distinct(tickets) /\ Distinct(sessions) /\ IdsOf(tickets) = {} /\ IdsOf(sessions) = {}
    BY <1>2 DEF Distinct, IdsOf
  <2>2. IsFiniteSet(paired)
    BY <1>2, FS_EmptySet
  <2>3. QED
    BY <1>2, <2>1, <2>2 DEF AuthInv, OneSessionPerTicket
<1>14. QED
  BY <1>8, <1>9, <1>10, <1>11, <1>12, <1>13 DEF IInv, RegistryInv

LEMMA ProceedsKeeps == ASSUME IInv, NEW r \in Requests, Proceeds(r) PROVE IInv'
BY RevokeBodyReadKeeps, PathResolvedKeeps, RootApprovedKeeps, LayoutReadKeeps, PinnedKeeps,
   WorktreesReadKeeps, SharedReconciledKeeps, RegistrationWrittenKeeps, RevocationWrittenKeeps,
   LookedUpKeeps, WorktreesListedKeeps DEF Proceeds

LEMMA FailsKeeps == ASSUME IInv, NEW r \in Requests, Fails(r) PROVE IInv'
BY GivesUpKeeps, WorktreesUnreadKeeps, RegistrationUnwrittenKeeps, RevocationUnwrittenKeeps
   DEF Fails

LEMMA StutterKeeps == ASSUME IInv, UNCHANGED vars PROVE IInv'
<1>1. UNCHANGED <<registry, audit, auth, call, used>>
  BY DEF vars
<1>2. AuthInv'
  BY <1>1, AuthStays DEF IInv
<1>3. QED
  BY <1>1, <1>2, PairingKeeps DEF IInv, TypeOK, Used

LEMMA NextHolds == IInv /\ [Next]_vars => IInv'
<1> SUFFICES ASSUME IInv, [Next]_vars PROVE IInv'
  OBVIOUS
<1>1. CASE PairingUrl \/ Exchange \/ ExchangeRefused \/ Expire
  BY <1>1, PairingUrlKeeps, ExchangeKeeps, ExchangeRefusedKeeps, ExpireKeeps
<1>2. ASSUME NEW r \in Requests, Arrives(r) \/ Proceeds(r) \/ Fails(r)
      PROVE  IInv'
  BY <1>2, ArrivesKeeps, ProceedsKeeps, FailsKeeps
<1>3. CASE UNCHANGED vars
  BY <1>3, StutterKeeps
<1>4. QED
  BY <1>1, <1>2, <1>3 DEF Next

\* Whatever the requests, the tickets and the failures do, the registries, the
\* line of the journal and the sessions stay consistent (registry/*.ts,
\* journal/access.ts, http/auth.ts).
THEOREM AccessInvariance == Spec => []IInv
BY InitHolds, NextHolds, PTL DEF Spec

\* Records, grants, tickets and sessions name roots and repositories that were
\* allocated, and only a request that waits for the journal stands in its line.
THEOREM AccessTypeCorrect == Spec => []TypeOK
<1>1. IInv => TypeOK
  BY DEF IInv
<1>2. QED
  BY <1>1, AccessInvariance, PTL

\* A pairing ticket becomes one session at most (auth.ts: "Single use"), for any
\* number of tickets and sessions and any capacity of either store.
THEOREM TicketsAreSingleUse == Spec => []OneSessionPerTicket
<1>1. IInv => OneSessionPerTicket
  BY DEF IInv, AuthInv
<1>2. QED
  BY <1>1, AccessInvariance, PTL

\* No index entry, no attachment and no held descriptor is left behind by a record
\* (repositories.ts register, unregister), for any number of concurrent requests.
THEOREM NothingIsLeftBehind == Spec => []NothingOutlivesItsRecord
<1>1. IInv => NothingOutlivesItsRecord
  BY DEF IInv, RegistryInv
<1>2. QED
  BY <1>1, AccessInvariance, PTL

-----------------------------------------------------------------------------
(* Grants are withdrawn on record.                                           *)

\* No session and no later ticket loses a repository.
NothingWithdrawn ==
    /\ granted.repos \subseteq granted'.repos
    /\ \A i \in DOMAIN sessions, j \in DOMAIN sessions' :
          sessions[i].id = sessions'[j].id =>
              sessions[i].grants.repos \subseteq sessions'[j].grants.repos

LEMMA FewerSessionsKeepTheirs ==
    ASSUME IInv, granted' = granted, Part(sessions', sessions)
    PROVE  NothingWithdrawn
BY DEF IInv, AuthInv, Distinct, Part, NothingWithdrawn

LEMMA SameSessionsKeepTheirs ==
    ASSUME IInv, UNCHANGED <<granted, sessions>> PROVE NothingWithdrawn
BY FewerSessionsKeepTheirs DEF Part

\* An approval adds to what a session and a ticket carry.
LEMMA ApprovalKeepsTheirs ==
    ASSUME IInv, NEW x, NEW y, NEW id, granted' = AddGrant(granted, x, y),
           sessions' \in {GrantSession(id, x, y), GrantEverySession(x, y)}
    PROVE  NothingWithdrawn
<1>1. granted.repos \subseteq granted'.repos
  BY DEF AddGrant
<1>2. /\ DOMAIN sessions' = DOMAIN sessions
      /\ \A i \in DOMAIN sessions :
            \/ sessions'[i] = sessions[i]
            \/ sessions'[i] = WithGrants(sessions[i], AddGrant(sessions[i].grants, x, y))
  BY DEF GrantSession, GrantEverySession
<1>3. \A i \in DOMAIN sessions : sessions[i] \in Session
  BY DEF IInv, TypeOK
<1>4. \A i \in DOMAIN sessions :
         /\ sessions'[i].id = sessions[i].id
         /\ sessions[i].grants.repos \subseteq sessions'[i].grants.repos
  BY <1>2, <1>3 DEF WithGrants, AddGrant, Session
<1>5. QED
  BY <1>1, <1>2, <1>4 DEF IInv, AuthInv, Distinct, NothingWithdrawn

LEMMA PairingWithdrawsNothing ==
    ASSUME IInv, PairingUrl \/ Exchange \/ ExchangeRefused \/ Expire
    PROVE  NothingWithdrawn
<1>1. PrunedSessions \in Seq(Session) /\ Part(PrunedSessions, sessions)
  BY PrunedParts DEF IInv
<1>2. CASE PairingUrl \/ ExchangeRefused
  BY <1>1, <1>2, FewerSessionsKeepTheirs DEF PairingUrl, ExchangeRefused
<1>3. CASE Expire
  <2>1. Part(sessions', sessions) /\ granted' = granted
    <3>1. CASE sessions' = sessions
      BY <1>3, <3>1 DEF Expire, Part
    <3>2. CASE sessions # <<>> /\ sessions' = Tail(sessions)
      BY <1>3, <3>2, TailPart DEF Expire, IInv, TypeOK
    <3>3. QED
      BY <1>3, <3>1, <3>2 DEF Expire
  <2>2. QED
    BY <2>1, FewerSessionsKeepTheirs
<1>4. CASE Exchange
  <2>1. PICK s \in Session :
          /\ s.id = Cardinality(paired) + 1 /\ sessions' = Append(PrunedSessions, s)
          /\ granted' = granted
    <3>1. PICK i \in DOMAIN PrunedTickets :
            /\ sessions' = Append(PrunedSessions, NewSession(PrunedTickets[i]))
            /\ granted' = granted
      BY <1>4 DEF Exchange
    <3>2. PrunedTickets[i] \in Ticket /\ Cardinality(paired) \in Nat
      BY PrunedParts, FS_CardinalityType DEF IInv, AuthInv
    <3>3. NewSession(PrunedTickets[i]) \in Session
      BY <3>2 DEF NewSession, Session, Ticket
    <3>4. QED
      BY <3>1, <3>3 DEF NewSession
  <2>2. /\ DOMAIN sessions' = DOMAIN PrunedSessions \union {Len(PrunedSessions) + 1}
        /\ sessions'[Len(PrunedSessions) + 1] = s
        /\ \A j \in DOMAIN PrunedSessions : sessions'[j] = PrunedSessions[j]
    BY <1>1, <2>1
  <2>3. s.id \notin IdsOf(sessions)
    BY <2>1, FS_CardinalityType DEF IInv, AuthInv
  <2>4. \A j \in DOMAIN sessions' :
         sessions'[j] = s \/ \E k \in DOMAIN sessions : sessions'[j] = sessions[k]
    BY <1>1, <2>2 DEF Part
  <2>5. QED
    BY <2>1, <2>3, <2>4 DEF IInv, AuthInv, Distinct, IdsOf, NothingWithdrawn
<1>5. QED
  BY <1>2, <1>3, <1>4

LEMMA RequestWithdrawsNothing ==
    ASSUME IInv, NEW r \in Requests, Arrives(r) \/ Proceeds(r) \/ Fails(r),
           ~RevocationWritten(r)
    PROVE  NothingWithdrawn
<1>1. Part(PrunedSessions, sessions)
  BY PrunedParts DEF IInv
<1>2. CASE Arrives(r)
  <2>1. granted' = granted /\ (sessions' = PrunedSessions \/ sessions' = sessions)
    BY <1>2 DEF Arrives, RegisterArrives, RevokeArrives, ReadArrives, ApproveRepository, Authorized
  <2>2. QED
    BY <1>1, <2>1, FewerSessionsKeepTheirs, SameSessionsKeepTheirs
<1>3. CASE Fails(r)
  <2>1. UNCHANGED <<granted, sessions>>
    BY <1>3 DEF Fails, GivesUp, WorktreesUnread, RegistrationUnwritten, RevocationUnwritten
  <2>2. QED
    BY <2>1, SameSessionsKeepTheirs
<1>4. CASE RegistrationWritten(r)
  <2>1. /\ granted' = AddGrant(granted, call[r].root, call[r].repo)
        /\ sessions' \in {GrantSession(call[r].session, call[r].root, call[r].repo),
                          GrantEverySession(call[r].root, call[r].repo)}
    BY <1>4 DEF RegistrationWritten
  <2>2. QED
    BY <2>1, ApprovalKeepsTheirs
<1>5. CASE LookedUp(r)
  <2>1. CASE UNCHANGED <<granted, sessions>>
    BY <2>1, SameSessionsKeepTheirs
  <2>2. ASSUME NEW id, granted' = AddGrant(granted, records[id].root, id),
               sessions' = GrantEverySession(records[id].root, id)
        PROVE  NothingWithdrawn
    BY <2>2, ApprovalKeepsTheirs
  <2>3. QED
    BY <1>5, <2>1, <2>2 DEF LookedUp
<1>6. CASE Proceeds(r) /\ ~RegistrationWritten(r) /\ ~LookedUp(r)
  <2>1. UNCHANGED <<granted, sessions>>
    BY <1>6 DEF Proceeds, RevokeBodyRead, PathResolved, RootApproved, LayoutRead, Pinned,
                WorktreesRead, SharedReconciled, WorktreesListed
  <2>2. QED
    BY <2>1, SameSessionsKeepTheirs
<1>7. QED
  BY <1>2, <1>3, <1>4, <1>5, <1>6

\* The revocation that is written withdraws the repository it names, and no other.
LEMMA RevocationIsOnRecord ==
    ASSUME IInv, NEW r \in Requests, RevocationWritten(r), NEW id,
           \/ id \in granted.repos \ granted'.repos
           \/ \E i \in DOMAIN sessions, j \in DOMAIN sessions' :
                 /\ sessions[i].id = sessions'[j].id
                 /\ id \in sessions[i].grants.repos \ sessions'[j].grants.repos
    PROVE  RevokedOnRecord(id)'
<1> DEFINE repo == call[r].repo
           new(i) == RemoveGrant(sessions[i].grants, call[r].root, repo, call[r].keepRoot)
<1>1. /\ granted' = RemoveGrant(granted, call[r].root, repo, call[r].keepRoot)
      /\ sessions' = RevokeEverySession(call[r].root, repo, call[r].keepRoot)
      /\ journal' = Append(journal, [action |-> "revoke", repo |-> repo])
  BY DEF RevocationWritten, Written
<1>2. \E i \in DOMAIN journal' : journal'[i] = [action |-> "revoke", repo |-> repo]
  <2>1. /\ Len(journal) + 1 \in DOMAIN journal'
        /\ journal'[Len(journal) + 1] = [action |-> "revoke", repo |-> repo]
    BY <1>1 DEF IInv, TypeOK
  <2>2. QED
    BY <2>1
<1>3. \A x : x \in granted.repos \ granted'.repos => x = repo
  BY <1>1 DEF RemoveGrant
<1>4. /\ DOMAIN sessions' = DOMAIN sessions
      /\ \A i \in DOMAIN sessions : sessions'[i].id = sessions[i].id
      /\ \A i \in DOMAIN sessions :
            sessions[i].grants.repos \ sessions'[i].grants.repos \subseteq {repo}
  <2>1. \A i \in DOMAIN sessions : sessions[i] \in Session
    BY DEF IInv, TypeOK
  <2>2. DOMAIN sessions' = DOMAIN sessions
        /\ \A i \in DOMAIN sessions : sessions'[i] = WithGrants(sessions[i], new(i))
    BY <1>1 DEF RevokeEverySession
  <2>3. \A i \in DOMAIN sessions : sessions'[i].id = sessions[i].id /\ sessions'[i].grants = new(i)
    <3> HIDE DEF new
    <3>1. QED
      BY <2>1, <2>2 DEF WithGrants, Session
  <2>4. \A i \in DOMAIN sessions : new(i).repos = sessions[i].grants.repos \ {repo}
    BY DEF RemoveGrant
  <2>5. QED
    BY <2>2, <2>3, <2>4
<1>5. id = repo
  BY <1>3, <1>4 DEF IInv, AuthInv, Distinct
<1>6. QED
  BY <1>2, <1>5 DEF RevokedOnRecord

\* A grant disappears only once its revocation is on disk (managed.ts: "The audit is
\* durable before the in-memory grant disappears"), whatever else goes on.
THEOREM WithdrawalsAreAudited == Spec => AuditedWithdrawal
<1> DEFINE W == \A id \in 1 .. lastRepo :
          (\/ id \in granted.repos \ granted'.repos
           \/ \E i \in DOMAIN sessions, j \in DOMAIN sessions' :
                 /\ sessions[i].id = sessions'[j].id
                 /\ id \in sessions[i].grants.repos \ sessions'[j].grants.repos)
          => RevokedOnRecord(id)'
<1>1. ASSUME IInv, [Next]_vars PROVE [W]_vars
  <2>1. NothingWithdrawn => W
    BY DEF NothingWithdrawn
  <2>2. CASE PairingUrl \/ Exchange \/ ExchangeRefused \/ Expire
    BY <1>1, <2>1, <2>2, PairingWithdrawsNothing
  <2>3. ASSUME NEW r \in Requests, Arrives(r) \/ Proceeds(r) \/ Fails(r) PROVE W
    <3>1. CASE ~RevocationWritten(r)
      BY <1>1, <2>1, <2>3, <3>1, RequestWithdrawsNothing
    <3>2. CASE RevocationWritten(r)
      BY <1>1, <3>2, RevocationIsOnRecord
    <3>3. QED
      BY <3>1, <3>2
  <2>4. QED
    BY <1>1, <2>2, <2>3 DEF Next
<1>2. QED
  BY <1>1, AccessInvariance, PTL DEF Spec, AuditedWithdrawal

=============================================================================
