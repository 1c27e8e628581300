-------------------------------- MODULE Access --------------------------------
(***************************************************************************)
(* Who may address which repository of the Node service: the repository    *)
(* and root registries (packages/host-node/src/registry), the approval     *)
(* manager that registers and revokes at run time, the audit journal of    *)
(* those changes (journal/access.ts), and the tickets and sessions of the  *)
(* HTTP host (http/auth.ts, http/server.ts).                               *)
(*                                                                         *)
(* The service is one thread: an action runs from one await to the next,   *)
(* and requests interleave only at awaits.  A request is a slot of         *)
(* Requests; its step is named by call[r].at, the await it stands at.      *)
(*                                                                         *)
(* A directory is a path with the common Git directory it belongs to; two  *)
(* paths of one repository (two worktrees) have the same one.  Expiry is   *)
(* not timed: tickets and sessions live equally long, so they expire, and  *)
(* are evicted, oldest first, at any moment.                               *)
(***************************************************************************)
EXTENDS Integers, Sequences, SequencesExt, Functions, FiniteSets

CONSTANTS Requests,    \* request slots
          Paths,       \* directories that hold a Git worktree
          CommonOf,    \* [Paths -> common Git directories]
          Within,      \* pairs <<p, q>>: q is p or lies inside p
          Startup,     \* the paths the service is started with
          Embedded,    \* a host program approves repositories itself
          MaxTickets,  \* auth.ts maxTickets
          MaxSessions, \* auth.ts maxSessions
          MaxCalls,    \* requests in a behaviour
          MaxMints,    \* tickets minted in a behaviour
          MaxFaults    \* failures of Git, of the disk or of a client

ASSUME AccessAssumption ==
    /\ MaxTickets \in Nat \ {0} /\ MaxSessions \in Nat \ {0}
    /\ Startup \in Seq(Paths)
    /\ \A i, j \in DOMAIN Startup : CommonOf[Startup[i]] = CommonOf[Startup[j]] => i = j
    /\ \A p \in Paths : <<p, p>> \in Within

VARIABLES roots,    \* the paths of the approved roots, by id
          attached, \* pairs <<root, repository>>: RootRecord.repositoryIds
          records,  \* registered repositories: id -> record
          byCommon, \* repositoryIdByCommonDir
          pins,     \* repositories whose directory descriptor is held
          owner,    \* worktrees.ts: the repository a common directory's worktrees are of
          lastRepo, \* nextRepositoryId
          journal,  \* access.jsonl
          tail,     \* appends waiting for the journal, in order
          granted,  \* server.ts currentGrants: what a new ticket carries
          tickets,  \* unspent tickets, oldest first
          sessions, \* live sessions, oldest first
          paired,   \* history: pairs <<ticket, session>>
          call,     \* the requests being handled
          used      \* calls, mints and faults so far

registry == <<roots, attached, records, byCommon, pins, owner, lastRepo>>
auth     == <<granted, tickets, sessions, paired>>
audit    == <<journal, tail>>
vars     == <<registry, auth, audit, call, used>>

-----------------------------------------------------------------------------
(* Grants.                                                                   *)

NoGrants == [roots |-> {}, repos |-> {}]

AddGrant(g, root, repo) == [roots |-> g.roots \union {root}, repos |-> g.repos \union {repo}]

\* The root goes with its last repository.
RemoveGrant(g, root, repo, rootHasRepositories) ==
    [roots |-> IF rootHasRepositories THEN g.roots ELSE g.roots \ {root},
     repos |-> g.repos \ {repo}]

KeepNewest(s, n) == IF Len(s) > n THEN SubSeq(s, Len(s) - n + 1, Len(s)) ELSE s

\* The housekeeping every call of the auth store starts with.
PrunedTickets  == KeepNewest(tickets, MaxTickets)
PrunedSessions == KeepNewest(sessions, MaxSessions)

WithGrants(s, g) == [s EXCEPT !.grants = g]

\* auth.grant: one live session gains an approval; a session that is gone, none.
GrantSession(id, root, repo) ==
    [i \in DOMAIN sessions |->
        IF sessions[i].id = id
        THEN WithGrants(sessions[i], AddGrant(sessions[i].grants, root, repo))
        ELSE sessions[i]]

\* auth.grantRepository: every live session gains it.
GrantEverySession(root, repo) ==
    [i \in DOMAIN sessions |->
        WithGrants(sessions[i], AddGrant(sessions[i].grants, root, repo))]

\* auth.revokeRepository: every live session loses it; a ticket keeps it.
RevokeEverySession(root, repo, rootHasRepositories) ==
    [i \in DOMAIN sessions |->
        WithGrants(sessions[i],
                   RemoveGrant(sessions[i].grants, root, repo, rootHasRepositories))]

\* scopeProblem: the repository itself, or the root it is registered under.
Allows(g, repo) ==
    \/ repo \in g.repos
    \/ repo \in DOMAIN records /\ records[repo].root \in g.roots

-----------------------------------------------------------------------------
(* Requests.                                                                 *)

NoCall == [at |-> "idle", kind |-> "none", session |-> 0, seen |-> NoGrants,
           path |-> "none", root |-> 0, repo |-> 0, known |-> {}, keepRoot |-> FALSE]

Moves(r, at) == call' = [call EXCEPT ![r].at = at]
Answers(r)   == call' = [call EXCEPT ![r] = NoCall]

Faulty == used.faults < MaxFaults /\ used' = [used EXCEPT !.faults = @ + 1]

\* Append to the access journal: the appends run one after the other.
Appends(r) == tail' = Append(tail, r)

Start(r, c) ==
    /\ call[r] = NoCall
    /\ used.calls < MaxCalls
    /\ used' = [used EXCEPT !.calls = @ + 1]
    /\ call' = [call EXCEPT ![r] = c]

StartupRecords == [i \in DOMAIN Startup |->
                      [path |-> Startup[i], common |-> CommonOf[Startup[i]], root |-> i,
                       complete |-> TRUE]]

\* assembly.ts registers every path it is given, each with a root of its own.
Init ==
    /\ roots = Startup
    /\ records = StartupRecords
    /\ attached = {<<i, i>> : i \in DOMAIN Startup}
    /\ byCommon = [c \in {CommonOf[Startup[i]] : i \in DOMAIN Startup} |->
                      CHOOSE i \in DOMAIN Startup : CommonOf[Startup[i]] = c]
    /\ pins = DOMAIN Startup
    /\ owner = byCommon
    /\ lastRepo = Len(Startup)
    /\ journal = <<>> /\ tail = <<>>
    /\ granted = [roots |-> DOMAIN Startup, repos |-> DOMAIN Startup]
    /\ tickets = <<>> /\ sessions = <<>> /\ paired = {}
    /\ call = [r \in Requests |-> NoCall]
    /\ used = [calls |-> 0, mints |-> 0, faults |-> 0]

-----------------------------------------------------------------------------
(* Pairing.                                                                  *)

PairingUrl ==
    /\ used.mints < MaxMints
    /\ used' = [used EXCEPT !.mints = @ + 1]
    /\ tickets' = Append(PrunedTickets, [id |-> used.mints + 1, grants |-> granted])
    /\ sessions' = PrunedSessions
    /\ UNCHANGED <<registry, audit, call, granted, paired>>

\* The session of an exchange carries the grants of its ticket.
NewSession(t) == [id |-> Cardinality(paired) + 1, ticket |-> t.id, grants |-> t.grants]

Exchange_Kept ==
    \E i \in DOMAIN PrunedTickets :
        LET t == PrunedTickets[i] IN
        /\ tickets' = PrunedTickets
        /\ sessions' = Append(PrunedSessions, NewSession(t))
        /\ paired' = paired \union {<<t.id, NewSession(t).id>>}
        /\ UNCHANGED <<registry, audit, granted, call, used>>

Exchange ==
    \E i \in DOMAIN PrunedTickets :
        LET t == PrunedTickets[i] IN
        /\ tickets' = RemoveAt(PrunedTickets, i)
        /\ sessions' = Append(PrunedSessions, NewSession(t))
        /\ paired' = paired \union {<<t.id, NewSession(t).id>>}
        /\ UNCHANGED <<registry, audit, granted, call, used>>

\* A wrong origin or password leaves the ticket; another instance's id spends it.
ExchangeRefused ==
    \E i \in DOMAIN PrunedTickets, spent \in BOOLEAN :
        /\ Faulty
        /\ tickets' = IF spent THEN RemoveAt(PrunedTickets, i) ELSE PrunedTickets
        /\ sessions' = PrunedSessions
        /\ UNCHANGED <<registry, audit, granted, paired, call>>

Expire ==
    /\ \/ tickets # <<>> /\ tickets' = Tail(tickets) /\ UNCHANGED sessions
       \/ sessions # <<>> /\ sessions' = Tail(sessions) /\ UNCHANGED tickets
    /\ UNCHANGED <<registry, audit, granted, paired, call, used>>

-----------------------------------------------------------------------------
(* The route of a request: authorise, read the body, check the scope.        *)

\* auth.authorize: a live session, as it is now; the route keeps that copy.
Authorized(r, c) ==
    \E i \in DOMAIN PrunedSessions :
        /\ Start(r, [c EXCEPT !.session = PrunedSessions[i].id,
                              !.seen = PrunedSessions[i].grants])
        /\ sessions' = PrunedSessions
        /\ tickets' = PrunedTickets
        /\ UNCHANGED <<registry, audit, granted, paired>>

\* A registration reads its body and resolves its path before it looks at
\* anything shared: one wait.
RegisterArrives(r) ==
    \E p \in Paths : Authorized(r, [NoCall EXCEPT !.at = "path", !.kind = "register",
                                                  !.path = p])
RevokeArrives(r) ==
    \E id \in 1 .. lastRepo : Authorized(r, [NoCall EXCEPT !.at = "body", !.kind = "revoke",
                                                           !.repo = id])

\* reconcileWorktrees starts from the primary worktree, which a record without its
\* worktrees does not name, and which another repository may have taken over.
Reconcilable(id) ==
    records[id].complete /\ owner[records[id].common] = id

\* A list of the repositories, or of one repository's worktrees: worktreesOf
\* takes the record and reads the worktrees; a GET has no body.  That the worktrees can
\* be reconciled is asked here, on arrival; the code asks it after its awaits.
ReadArrives(r) ==
    \E id \in DOMAIN records :
        /\ Reconcilable(id)
        /\ Authorized(r, [NoCall EXCEPT !.at = "reading", !.kind = "read", !.repo = id,
                                        !.root = records[id].root, !.path = records[id].path])

\* The embedding host approves a directory, with no session of its own.
ApproveRepository(r) ==
    /\ Embedded
    /\ \E p \in Paths : Start(r, [NoCall EXCEPT !.at = "path", !.kind = "approve", !.path = p])
    /\ UNCHANGED <<registry, audit, auth>>

\* The body of a revocation: the scope is checked against the session as it was
\* when the request arrived, and the roots' repositories as they are now.
RevokeBodyRead(r) ==
    LET id == call[r].repo IN
    /\ call[r].at = "body" /\ call[r].kind = "revoke"
    /\ IF Allows(call[r].seen, id) /\ id \in DOMAIN records
       THEN /\ call' = [call EXCEPT ![r].at = "journal",
                                    ![r].root = records[id].root,
                                    ![r].keepRoot =
                                        \E other \in DOMAIN records \ {id} :
                                            records[other].root = records[id].root]
            /\ Appends(r)
       ELSE Answers(r) /\ UNCHANGED tail
    /\ UNCHANGED <<registry, auth, journal, used>>

\* Whatever a request waits for can fail before it changed anything: a client
\* that goes away, a path that is gone, a Git command that cannot read it.
GivesUp(r) ==
    /\ call[r].at \in {"body", "path", "root", "layout", "shared", "reading", "lookup"}
    /\ Faulty
    /\ Answers(r)
    /\ UNCHANGED <<registry, auth, audit>>

-----------------------------------------------------------------------------
(* Registration: manager.register and registry.register, await by await.     *)

RegisteredPath(p) == \E id \in DOMAIN records : records[id].path = p

\* The approved roots the path lies in, and the innermost of them: the first of equals.
ContainingRoots(p) == {id \in DOMAIN roots : <<p, roots[id]>> \in Within}
ContainingRoot(p, id) ==
    /\ id \in ContainingRoots(p)
    /\ \A other \in ContainingRoots(p) :
          <<roots[id], roots[other]>> \in Within /\ (roots[other] = roots[id] => id <= other)

\* The path is resolved: is it registered already, and under which root is it?
\* An embedding host that is told of a conflict looks the record up.
PathResolved(r) ==
    LET p == call[r].path IN
    /\ call[r].at = "path"
    /\ \/ /\ RegisteredPath(p)
          /\ IF call[r].kind = "approve" THEN Moves(r, "lookup") ELSE Answers(r)
       \/ /\ ~RegisteredPath(p) /\ ContainingRoots(p) = {}
          /\ Moves(r, "root")
       \/ /\ ~RegisteredPath(p)
          /\ \E id \in DOMAIN roots :
                /\ ContainingRoot(p, id)
                /\ call' = [call EXCEPT ![r].at = "layout", ![r].root = id,
                                        ![r].known = DOMAIN records]
    /\ UNCHANGED <<registry, auth, audit, used>>

\* No root holds the path: the directory itself becomes one.  It stays one,
\* whatever becomes of the registration.
RootApproved(r) ==
    /\ call[r].at = "root"
    /\ roots' = Append(roots, call[r].path)
    /\ call' = [call EXCEPT ![r].at = "layout", ![r].root = Len(roots) + 1,
                            ![r].known = DOMAIN records]
    /\ UNCHANGED <<attached, records, byCommon, pins, owner, lastRepo, auth, audit, used>>

\* Git told the common directory.  A repository registered for it is returned
\* after its worktrees are reconciled, and refused when they cannot be; another
\* one gets an id, then a pin.
LayoutRead(r) ==
    LET c == CommonOf[call[r].path] IN
    /\ call[r].at = "layout"
    /\ IF c \in DOMAIN byCommon /\ byCommon[c] \in DOMAIN records
       THEN /\ IF Reconcilable(byCommon[c])
               THEN call' = [call EXCEPT ![r].at = "shared", ![r].repo = byCommon[c]]
               ELSE Answers(r)
            /\ UNCHANGED lastRepo
       ELSE /\ lastRepo' = lastRepo + 1
            /\ call' = [call EXCEPT ![r].at = "pin", ![r].repo = lastRepo + 1]
    /\ UNCHANGED <<roots, attached, records, byCommon, pins, owner, auth, audit, used>>

Put(f, x, y)  == [z \in DOMAIN f \union {x} |-> IF z = x THEN y ELSE f[z]]
Without(f, x) == Restrict(f, DOMAIN f \ {x})

\* The record a request enters, without its worktrees or with them.
RecordOf(r, complete) == [path |-> call[r].path, common |-> CommonOf[call[r].path],
                          root |-> call[r].root, complete |-> complete]

\* The descriptor is held: the record is entered, before its worktrees are read.
Pinned(r) ==
    LET id == call[r].repo IN
    /\ call[r].at = "pin"
    /\ records' = Put(records, id, RecordOf(r, FALSE))
    /\ byCommon' = Put(byCommon, CommonOf[call[r].path], id)
    /\ pins' = pins \union {id}
    /\ Moves(r, "worktrees")
    /\ UNCHANGED <<roots, attached, owner, lastRepo, auth, audit, used>>

\* The worktrees are read: the record is entered again, complete.
WorktreesRead(r) ==
    LET id == call[r].repo IN
    /\ call[r].at = "worktrees"
    /\ records' = Put(records, id, RecordOf(r, TRUE))
    /\ owner' = Put(owner, CommonOf[call[r].path], id)
    /\ attached' = attached \union {<<call[r].root, id>>}
    /\ Moves(r, "journal")
    /\ Appends(r)
    /\ UNCHANGED <<roots, byCommon, pins, lastRepo, auth, journal, used>>

WorktreesUnread_KeepsIndex(r) ==
    LET id == call[r].repo IN
    /\ call[r].at = "worktrees"
    /\ Faulty
    /\ records' = Without(records, id)
    /\ pins' = pins \ {id}
    /\ Answers(r)
    /\ UNCHANGED <<roots, byCommon, attached, owner, lastRepo, auth, audit>>

\* They could not be read: what the registration entered is taken back.
WorktreesUnread(r) ==
    LET id == call[r].repo IN
    /\ call[r].at = "worktrees"
    /\ Faulty
    /\ records' = Without(records, id)
    /\ pins' = pins \ {id}
    /\ byCommon' = Without(byCommon, CommonOf[call[r].path])
    /\ Answers(r)
    /\ UNCHANGED <<roots, attached, owner, lastRepo, auth, audit>>

\* A repository that was there before is a conflict; one that another request
\* entered since is registered a second time.
SharedReconciled(r) ==
    /\ call[r].at = "shared"
    /\ IF call[r].repo \in call[r].known
       THEN /\ IF call[r].kind = "approve" THEN Moves(r, "lookup") ELSE Answers(r)
            /\ UNCHANGED tail
       ELSE Moves(r, "journal") /\ Appends(r)
    /\ owner' = Put(owner, CommonOf[call[r].path], call[r].repo)
    /\ UNCHANGED <<roots, attached, records, byCommon, pins, lastRepo, auth, journal, used>>

\* registry.unregister: the worktree registry keeps what it has.
Unregister(id) ==
    IF id \in DOMAIN records
    THEN /\ records' = Without(records, id)
         /\ pins' = pins \ {id}
         /\ byCommon' = Without(byCommon, records[id].common)
         /\ attached' = attached \ {<<records[id].root, id>>}
    ELSE UNCHANGED <<records, pins, byCommon, attached>>

-----------------------------------------------------------------------------
(* The audit, and what follows it in the same turn.                          *)

Written(r, action) ==
    /\ call[r].at = "journal" /\ tail # <<>> /\ Head(tail) = r
    /\ tail' = Tail(tail)
    /\ journal' = Append(journal, [action |-> action, repo |-> call[r].repo])
    /\ UNCHANGED used

Unwritten_Blocks(r) ==
    /\ call[r].at = "journal" /\ tail # <<>> /\ Head(tail) = r
    /\ Faulty
    /\ UNCHANGED <<tail, journal>>

\* A failed append leaves the journal to the next one.
Unwritten(r) ==
    /\ call[r].at = "journal" /\ tail # <<>> /\ Head(tail) = r
    /\ Faulty
    /\ tail' = Tail(tail)
    /\ UNCHANGED journal

\* The route adds the approval to what tickets carry and to its own session;
\* an embedding host, to every live session.
RegistrationWritten(r) ==
    LET c == call[r] IN
    /\ c.kind \in {"register", "approve"}
    /\ Written(r, "register")
    /\ granted' = AddGrant(granted, c.root, c.repo)
    /\ sessions' = IF c.kind = "approve" THEN GrantEverySession(c.root, c.repo)
                   ELSE GrantSession(c.session, c.root, c.repo)
    /\ Answers(r)
    /\ UNCHANGED <<registry, tickets, paired>>

RegistrationUnwritten(r) ==
    /\ call[r].kind \in {"register", "approve"}
    /\ Unwritten(r)
    /\ Unregister(call[r].repo)
    /\ Answers(r)
    /\ UNCHANGED <<roots, owner, lastRepo, auth>>

RevocationWritten(r) ==
    LET c == call[r] IN
    /\ c.kind = "revoke"
    /\ Written(r, "revoke")
    /\ Unregister(c.repo)
    /\ granted' = RemoveGrant(granted, c.root, c.repo, c.keepRoot)
    /\ sessions' = RevokeEverySession(c.root, c.repo, c.keepRoot)
    /\ Answers(r)
    /\ UNCHANGED <<roots, owner, lastRepo, tickets, paired>>

RevocationUnwritten_Revokes(r) ==
    LET c == call[r] IN
    /\ c.kind = "revoke"
    /\ Unwritten(r)
    /\ Unregister(c.repo)
    /\ granted' = RemoveGrant(granted, c.root, c.repo, c.keepRoot)
    /\ sessions' = RevokeEverySession(c.root, c.repo, c.keepRoot)
    /\ Answers(r)
    /\ UNCHANGED <<roots, owner, lastRepo, tickets, paired>>

RevocationUnwritten(r) ==
    /\ call[r].kind = "revoke"
    /\ Unwritten(r)
    /\ Answers(r)
    /\ UNCHANGED <<registry, auth>>

\* approveRepository after a conflict: the record of that very path, if any.
LookedUp(r) ==
    LET found == {id \in DOMAIN records : records[id].path = call[r].path} IN
    /\ call[r].at = "lookup"
    /\ \/ found = {} /\ UNCHANGED <<granted, sessions>>
       \/ \E id \in found :
             /\ \A other \in found : id <= other
             /\ granted' = AddGrant(granted, records[id].root, id)
             /\ sessions' = GrantEverySession(records[id].root, id)
    /\ Answers(r)
    /\ UNCHANGED <<registry, audit, tickets, paired, used>>

\* worktreesOf ends: the record it took is entered again.
WorktreesListed(r) ==
    /\ call[r].at = "reading"
    /\ records' = Put(records, call[r].repo, RecordOf(r, TRUE))
    /\ owner' = Put(owner, CommonOf[call[r].path], call[r].repo)
    /\ Answers(r)
    /\ UNCHANGED <<roots, attached, byCommon, pins, lastRepo, auth, audit, used>>

-----------------------------------------------------------------------------
Arrives(r) ==
    RegisterArrives(r) \/ RevokeArrives(r) \/ ReadArrives(r) \/ ApproveRepository(r)

Proceeds(r) ==
    \/ RevokeBodyRead(r)
    \/ PathResolved(r) \/ RootApproved(r) \/ LayoutRead(r) \/ Pinned(r)
    \/ WorktreesRead(r) \/ SharedReconciled(r)
    \/ RegistrationWritten(r) \/ RevocationWritten(r)
    \/ LookedUp(r) \/ WorktreesListed(r)

Fails(r) ==
    GivesUp(r) \/ WorktreesUnread(r) \/ RegistrationUnwritten(r) \/ RevocationUnwritten(r)

Next ==
    \/ PairingUrl \/ Exchange \/ ExchangeRefused \/ Expire
    \/ \E r \in Requests : Arrives(r) \/ Proceeds(r) \/ Fails(r)

Spec == Init /\ [][Next]_vars

-----------------------------------------------------------------------------
(* Properties.                                                               *)

Grants  == [roots : SUBSET (DOMAIN roots), repos : SUBSET (1 .. lastRepo)]
Ticket  == [id : Nat, grants : Grants]
Session == [id : Nat, ticket : Nat, grants : Grants]
Record  == [path : Paths, common : {CommonOf[p] : p \in Paths}, root : DOMAIN roots,
            complete : BOOLEAN]
Stages  == {"idle", "path", "root", "layout", "shared", "pin", "worktrees", "journal",
            "body", "reading", "lookup"}
Call    == [at : Stages, kind : {"none", "register", "approve", "revoke", "read"},
            session : Nat, seen : Grants, path : Paths \union {"none"}, root : Nat,
            repo : Nat, known : SUBSET (1 .. lastRepo), keepRoot : BOOLEAN]

\* The shape of the state: records, grants, tickets and sessions name roots and
\* repositories that were allocated, and only a request that waits for the journal
\* stands in its line (access.ts: a failed append leaves the line to the next one).
TypeOK ==
    /\ roots \in Seq(Paths) /\ lastRepo \in Nat
    /\ DOMAIN records \subseteq 1 .. lastRepo
    /\ records \in [DOMAIN records -> Record]
    /\ granted \in Grants
    /\ tickets \in Seq(Ticket) /\ sessions \in Seq(Session)
    /\ call \in [Requests -> Call]
    /\ tail \in Seq(Requests) /\ \A i \in DOMAIN tail : call[tail[i]].at = "journal"
    /\ journal \in Seq([action : {"register", "revoke"}, repo : 1 .. lastRepo])
    /\ used \in [calls : Nat, mints : Nat, faults : Nat]

\* A pairing ticket becomes one session at most, whatever expires, is evicted or
\* is refused in between (auth.ts: "Single use").
OneSessionPerTicket == \A a, b \in paired : a[1] = b[1] => a[2] = b[2]

\* The index by common directory, the repository list of a root and the held
\* descriptors name live records only, however registrations, revocations, reads
\* and their failures interleave: a stale index entry would answer a registration
\* with a repository that is not there, a stale pin would leak a descriptor.
NothingOutlivesItsRecord ==
    /\ \A c \in DOMAIN byCommon :
          byCommon[c] \in DOMAIN records /\ records[byCommon[c]].common = c
    /\ \A a \in attached : a[2] \in DOMAIN records
    /\ pins \subseteq DOMAIN records

RevokedOnRecord(id) == \E i \in DOMAIN journal : journal[i] = [action |-> "revoke", repo |-> id]

\* A session, or the grants of later tickets, lose a repository only after its
\* revocation is on disk (managed.ts: "The audit is durable before the in-memory
\* grant disappears"): a revocation whose audit fails leaves every grant.  Grants
\* are those that name the repository; what a root gives and takes is not here.
AuditedWithdrawal ==
    [][\A id \in 1 .. lastRepo :
          (\/ id \in granted.repos \ granted'.repos
           \/ \E i \in DOMAIN sessions, j \in DOMAIN sessions' :
                 /\ sessions[i].id = sessions'[j].id
                 /\ id \in sessions[i].grants.repos \ sessions'[j].grants.repos)
          => RevokedOnRecord(id)']_vars

\* What the documents promise and the code does not keep.

\* A revoked repository is not available any more (docs/evidence/security.md:
\* "presenting a revoked row as still available").
RevokedStaysRevoked == \A id \in DOMAIN records : ~RevokedOnRecord(id)

\* Two paths to one repository do not become two repositories in the list
\* (registry/repositories.ts), each with a writer of its own.
OneRecordPerRepository ==
    \A a, b \in {id \in DOMAIN records : records[id].complete} :
        records[a].common = records[b].common => a = b
=============================================================================
