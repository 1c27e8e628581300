------------------------------ MODULE Workflows ------------------------------
(***************************************************************************)
(* The Git workflows of the Node engine (packages/git-core/src/workflows)  *)
(* and the effects that turn their answers into operation outcomes         *)
(* (packages/host-node/src/coordinator/*-effects.ts, previews.ts).         *)
(*                                                                         *)
(* One operation runs at a time (the queue is the business of Queue.tla)   *)
(* against one worktree that other programs share.  Every engine.run is a  *)
(* step of its own, so another program can act between any two of them,    *)
(* and every Git command ends in one of the ways GitHostPort reports: exit *)
(* 0, another exit code, killed by the deadline or a signal, stopped at    *)
(* the output limit, or never started.  A command that was stopped may     *)
(* have done nothing, everything, or something in between; so may a write  *)
(* that exits non-zero, where Git's documentation says so.                 *)
(*                                                                         *)
(* A worktree is abstracted to where HEAD stands, which sequencer markers  *)
(* (MERGE_HEAD, ...) exist, whether the index holds unmerged stages, the   *)
(* stash list, and one version number for everything else.                 *)
(***************************************************************************)
EXTENDS Integers, Sequences, SequencesExt

CONSTANTS Ops,         \* the operations users submit, a subset of AllOps
          MaxOps,      \* operations submitted in a behaviour
          MaxFaults,   \* commands that do not end by exiting
          MaxOutside   \* changes another program makes

VARIABLES repo,      \* the worktree, as Git keeps it
          op,        \* the operation being run
          pc,        \* where its effect is
          todo,      \* the markers still to be probed before its first write
          before,    \* the worktree when the effect started
          named,     \* the stash entry the request names
          ended,     \* how the last command of the effect ended
          result,    \* the outcome reported, "none" before
          did,       \* the operation's (last) write command exited 0
          mine,      \* a command of this operation opened the marker
          killed,    \* a write of this operation was killed
          blind,     \* a read of this operation ended without an answer
          disturbed, \* another program changed the worktree while it ran
          used       \* operations, faults and outside changes so far

vars == <<repo, op, pc, todo, before, named, ended, result, did, mine, killed,
          blind, disturbed, used>>
ghosts == <<did, mine, killed, disturbed>>

-----------------------------------------------------------------------------
(* The operations, by the workflow that runs them.                         *)

Branching == {"createBranch", "switchBranch", "renameBranch", "deleteBranch", "setBranchUpstream"}
Trees     == {"createWorktree", "removeWorktree", "lockWorktree", "unlockWorktree"}
Modules   == {"addSubmodule", "updateSubmodule", "syncSubmodule"}
Staging   == {"stagePaths", "unstagePaths", "discardTrackedPaths"}
Commits   == {"commit", "amendCommit"}
Tags      == {"createTag", "deleteTag"}
Stashes   == {"applyStash", "popStash", "dropStash"}
Remotes   == {"addRemote", "updateRemote"}
Network   == {"fetch", "push", "pushTag", "pull"}
Creations == {"initRepository", "cloneRepository"}
Starts    == {"merge", "cherryPick", "revertCommit", "rebase", "dropCommit"}
Continues == {"continueMerge", "continueCherryPick", "continueRebase"}
Aborts    == {"abortMerge", "abortCherryPick", "abortRebase"}

\* One Git command whose exit code is the whole answer.
Simple == Branching \cup Trees \cup Modules \cup Staging \cup Tags
             \cup {"createStash", "applyStash", "dropStash", "removeRemote"}

AllOps == Simple \cup Commits \cup Stashes \cup Remotes \cup Network
             \cup Creations \cup Starts \cup Continues \cup Aborts
             \cup {"squashCommit", "resetBranch"}

ASSUME WorkflowsAssumption ==
    /\ Ops \subseteq AllOps /\ Ops # {}
    /\ {MaxOps, MaxFaults, MaxOutside} \subseteq Nat

Marks == {"merge", "revert", "cherryPick", "rebase"}

Mark(o) ==
    CASE o \in {"merge", "continueMerge", "abortMerge"} -> "merge"
      [] o \in {"cherryPick", "continueCherryPick", "abortCherryPick"} -> "cherryPick"
      [] o \in {"revertCommit", "abortRevert"} -> "revert"
      [] o \in {"rebase", "dropCommit", "continueRebase", "abortRebase"} -> "rebase"
      [] OTHER -> "none"

\* The markers an operation may find at submission (mayRunDuringOperation).
MayRunDuring(o) ==
    CASE o \in {"stagePaths", "unstagePaths"} -> {"merge", "cherryPick", "rebase"}
      [] o \in Continues \cup Aborts -> {Mark(o)}
      [] OTHER -> {}

\* (mutant) The workflows that probe REVERT_HEAD forget to.
Checks_NoRevert(o) == IF o = "revertCommit" THEN <<"merge">> ELSE <<>>

\* The markers the workflow itself probes first, in the order it does.
Checks(o) ==
    CASE o = "merge" -> <<"merge">>
      [] o = "cherryPick" -> <<"merge", "revert", "cherryPick">>
      [] o \in {"revertCommit", "resetBranch"} -> <<"merge", "revert">>
      [] o \in {"rebase", "dropCommit", "squashCommit"} ->
            <<"merge", "revert", "cherryPick", "rebase">>
      [] o \in Continues \cup Aborts -> <<Mark(o)>>
      [] OTHER -> <<>>

\* A continue and an abort need the marker; every other workflow refuses it.
Needs(o) == o \in Continues \cup Aborts

-----------------------------------------------------------------------------
(* Git, as the workflows rely on it.                                       *)

\* A position, a version and a stash entry that are none of those in sight.
NewHead(r)  == CHOOSE n \in 0..3 : n \notin {r.head, r.orig, before.head}
NewRest(r)  == CHOOSE n \in 0..2 : n \notin {r.rest, before.rest}
NewEntry(r) == CHOOSE n \in 1 .. Len(r.stash) + Len(before.stash) + 2 :
                 n \notin {named.entry} \cup Range(r.stash) \cup Range(before.stash)

Closed(r, m) == [r EXCEPT !.open = @ \ {m}, !.conflicts = FALSE]
Pushed(r)    == [r EXCEPT !.stash = <<NewEntry(r)>> \o @]
Popped(r)    == [r EXCEPT !.stash = RemoveAt(@, named.at)]

\* What a command that did all its work leaves.
Done(o, r) ==
    CASE o \in Starts \cup {"resetBranch", "softReset"} ->
            [r EXCEPT !.head = NewHead(r)]
      [] o \in Commits -> [r EXCEPT !.head = NewHead(r), !.open = @ \cap {"rebase"}]
      [] o \in Continues -> [Closed(r, Mark(o)) EXCEPT !.head = NewHead(r)]
      [] o \in Aborts \cup {"abortRevert"} -> [Closed(r, Mark(o)) EXCEPT !.head = r.orig]
      [] o = "stagePaths" -> [r EXCEPT !.conflicts = FALSE, !.rest = NewRest(r)]
      [] o = "createStash" -> [Pushed(r) EXCEPT !.rest = NewRest(r)]
      [] o = "popStash" -> [Popped(r) EXCEPT !.rest = NewRest(r)]
      [] o = "dropStash" -> Popped(r)
      [] o \in Creations -> [r EXCEPT !.files = TRUE]
      [] o = "fastForward" -> [r EXCEPT !.head = NewHead(r)]
      [] OTHER -> [r EXCEPT !.rest = NewRest(r)]

\* What a command that exits non-zero, or is killed, may leave half-done: the
\* stop of a sequencer command, with or without unmerged paths; the conflicts
\* of an applied stash; the refs, submodules or files that were written before
\* the one that failed; a commit or a checkout whose hook complains afterwards
\* (the status of a post-checkout hook is the command's own).  A continue whose hooks finished the operation some
\* other way leaves no marker.
Stops(o, r) ==
    CASE o \in Starts ->
            {[r EXCEPT !.open = @ \cup {Mark(o)}, !.conflicts = c, !.orig = r.head] :
                c \in BOOLEAN}
      [] o = "continueRebase" -> {[r EXCEPT !.head = NewHead(r), !.conflicts = c] : c \in BOOLEAN}
      [] o \in Continues \ {"continueRebase"} -> {Closed(r, Mark(o))}
      [] o \in {"applyStash", "popStash"} -> {[r EXCEPT !.rest = NewRest(r), !.conflicts = TRUE]}
      [] o \in Commits \cup {"switchBranch", "createWorktree"} -> {Done(o, r)}
      [] o \in Network \cup Modules \cup {"removeWorktree"} -> {[r EXCEPT !.rest = NewRest(r)]}
      [] o \in Creations -> IF r.files THEN {} ELSE {[r EXCEPT !.files = TRUE]}
      [] OTHER -> {}

\* Git itself refuses to start on top of a marker or of unmerged paths, to
\* commit or continue with unmerged paths, to finish what is not in progress,
\* and to use a stash entry that is not there.
Refuses(o, r) ==
    \/ o \in Starts \cup {"fastForward"} /\ (r.open # {} \/ r.conflicts)
    \/ o \in Commits \cup Continues \cup {"createStash"} /\ r.conflicts
    \/ o \in Continues \cup Aborts \cup {"abortRevert"} /\ Mark(o) \notin r.open
    \/ o \in Stashes /\ named.at \notin DOMAIN r.stash
    \/ o = "cloneRepository" /\ r.files
    \/ o \in Branching /\ r.open # {}

Clean == {"ok", "exit"}
Stopped == {"killed", "limit"}   \* isUncertain: deadline or signal; output limit

\* The pairs <<how the command ended, the worktree it leaves>>.
GitRuns(o, r) ==
    LET done  == IF Refuses(o, r) THEN {} ELSE {Done(o, r)}
        stops == IF Refuses(o, r) THEN {} ELSE Stops(o, r)
        ends  == IF used.faults < MaxFaults
                   THEN {"ok", "exit", "killed", "limit", "spawn"} ELSE Clean
    IN  {g \in ends \X ({r} \cup done \cup stops) :
            \/ g[1] = "ok" /\ g[2] \in done
            \/ g[1] = "exit" /\ g[2] \in {r} \cup stops
            \/ g[1] = "spawn" /\ g[2] = r
            \/ g[1] \in Stopped}

\* What a probe (rev-parse, ls-files) answers: the truth, or, when the command
\* does not exit, the same FALSE that an absent marker gives.
Answers(truth) ==
    {<<truth, FALSE>>} \cup IF used.faults < MaxFaults THEN {<<FALSE, TRUE>>} ELSE {}

-----------------------------------------------------------------------------
(* The effect.                                                             *)

Finish(r) == pc' = "done" /\ result' = r /\ UNCHANGED todo
Goto(p)   == pc' = p /\ UNCHANGED <<todo, result>>

\* One read of the effect: what it saw, and whether it was an answer at all.
Read(truth, Then(_)) ==
    \E a \in Answers(truth) :
        /\ Then(a[1])
        /\ blind' = (blind \/ a[2])
        /\ used' = [used EXCEPT !.faults = @ + IF a[2] THEN 1 ELSE 0]
        /\ UNCHANGED <<repo, op, before, named, ended, ghosts>>

\* One write of the effect: command c, then what the workflow does with the
\* way it ended and the worktree it left.
Write(c, Then(_, _)) ==
    \E g \in GitRuns(c, repo) :
        /\ repo' = g[2]
        /\ ended' = g[1]
        /\ did' = (g[1] = "ok")
        /\ mine' = (mine \/ Mark(c) \in g[2].open \ repo.open)
        /\ killed' = (killed \/ g[1] = "killed")
        /\ used' = [used EXCEPT !.faults = @ + IF g[1] \in Clean THEN 0 ELSE 1]
        /\ Then(g[1], g[2])
        /\ UNCHANGED <<op, before, named, blind, disturbed>>

\* (mutant) Every end that is not exit 0 is a failure.
GitFailure_Always(t) == "failed"

\* writeOutcomeFromGit: a deadline or a signal leaves the outcome unknown, any
\* other end that is not exit 0 - the output limit included - is "failed".
GitFailure(t) == IF t = "killed" THEN "unknown" ELSE "failed"

\* The request was accepted on a worktree with no operation that forbids it.
\* It waits in the queue, where the worktree may still change.
Submit(o) ==
    /\ pc = "idle"
    /\ used.ops < MaxOps
    /\ repo.open \subseteq MayRunDuring(o)
    /\ \E i \in IF o \in Stashes THEN DOMAIN repo.stash ELSE {0} :
          named' = [at |-> i, entry |-> IF i = 0 THEN 0 ELSE repo.stash[i]]
    /\ op' = o
    /\ result' = "none"
    /\ pc' = "queued"
    /\ used' = [used EXCEPT !.ops = @ + 1]
    /\ UNCHANGED <<repo, todo, before, ended, blind, ghosts>>

\* resolveFacts: any read that fails ends the effect before it wrote anything.
ResolveFacts ==
    /\ pc = "queued"
    /\ before' = repo
    /\ \/ Finish("failed")
       \/ pc' = "check" /\ todo' = Checks(op) /\ UNCHANGED result
    /\ UNCHANGED <<repo, op, named, ended, blind, used, ghosts>>

\* One ...InProgress probe before the first write.
Probe ==
    /\ pc = "check"
    /\ todo # <<>>
    /\ Read(Head(todo) \in repo.open,
            LAMBDA seen : IF seen # Needs(op)
                            THEN Finish("failed")
                            ELSE todo' = Tail(todo) /\ UNCHANGED <<pc, result>>)

\* (mutant) The locator of a stash entry is used as it came.
Lookup_AnyEntry ==
    /\ pc = "check" /\ todo = <<>> /\ Goto("write")
    /\ UNCHANGED <<repo, op, before, named, ended, blind, used, ghosts>>

\* The other reads before the first write.  A stash locator must still name the
\* entry of the request; a workflow that reads HEAD throws when it cannot, and
\* an effect that throws is reported "unknown"; the rest (is the source a
\* commit, is the commit on the branch, is the remote configured and safe, is
\* the tag new) refuse or go on whatever the worktree holds.
Lookup ==
    /\ pc = "check"
    /\ todo = <<>>
    /\ CASE op \in Stashes ->
               Read(named.at \in DOMAIN repo.stash /\ repo.stash[named.at] = named.entry,
                    LAMBDA same : IF same THEN Goto("write") ELSE Finish("failed"))
         [] op \in Commits \cup {"merge", "squashCommit"} ->
               \/ Read(TRUE, LAMBDA seen : IF seen THEN Goto("write") ELSE Finish("unknown"))
               \/ Finish("failed") /\ UNCHANGED <<repo, op, before, named, ended, blind, used, ghosts>>
         [] OTHER ->
               /\ Goto("write") \/ Finish("failed")
               /\ UNCHANGED <<repo, op, before, named, ended, blind, used, ghosts>>

Writing(p, ops) == pc = p /\ op \in ops

\* Git exited 0, and the workflow reads the new HEAD for its report.
HeadOr(t, else) == IF t = "ok" THEN Goto("head") ELSE Finish(else)

\* The effects of one command: exit 0 is success, any other end a Git failure.
OneCommand(ops) ==
    /\ Writing("write", ops)
    /\ Write(op, LAMBDA t, s : Finish(IF t = "ok" THEN "succeeded" ELSE GitFailure(t)))

RunBranch  == OneCommand(Branching)
RunStaging == OneCommand(Staging)
RunModules == OneCommand(Modules)
RunTag     == OneCommand(Tags)
RunStash   == OneCommand({"createStash", "applyStash", "dropStash"})
RemoveRemote == OneCommand({"removeRemote"})

\* A worktree command lists the worktrees again before it reports success.
RunTree ==
    /\ Writing("write", Trees)
    /\ Write(op, LAMBDA t, s : HeadOr(t, GitFailure(t)))

\* A pop that exits non-zero left conflicts; whether the entry is still there
\* is read for the message only.
RunPop ==
    /\ Writing("write", {"popStash"})
    /\ Write(op, LAMBDA t, s : Finish(CASE t = "ok" -> "succeeded"
                                        [] t = "exit" -> "needsAttention"
                                        [] OTHER -> GitFailure(t)))

RunReset ==
    /\ Writing("write", {"resetBranch"})
    /\ Write(op, LAMBDA t, s : HeadOr(t, IF t \in Stopped THEN "unknown" ELSE "failed"))

\* A commit is judged by where HEAD stands afterwards, however Git ended.
RunCommit ==
    /\ Writing("write", Commits)
    /\ Write(op, LAMBDA t, s : Goto("compare"))

\* (mutant) A commit is judged by its exit code alone.
Compare_ByExit ==
    /\ pc = "compare"
    /\ Read(TRUE, LAMBDA seen : Finish(CASE ended = "ok" -> "succeeded"
                                         [] ended = "exit" -> "failed"
                                         [] OTHER -> "unknown"))

Compare ==
    /\ pc = "compare"
    /\ Read(TRUE, LAMBDA seen :
          Finish(CASE ~seen -> "unknown"
                   [] seen /\ repo.head # before.head ->
                         IF ended = "ok" THEN "succeeded" ELSE "needsAttention"
                   [] seen /\ repo.head = before.head /\ ended = "ok" ->
                         IF op = "amendCommit" THEN "succeeded" ELSE "unknown"
                   [] OTHER -> IF ended = "exit" THEN "failed" ELSE "unknown"))

\* merge, cherry-pick, revert, rebase, drop.  A commit that is a merge is
\* recognised by Git's diagnostic and refused without another look.
RunStart ==
    /\ Writing("write", Starts)
    /\ Write(op, LAMBDA t, s :
          \/ t = "ok" /\ Goto("head")
          \/ t \in Stopped /\ Finish("unknown")
          \/ t \in {"exit", "spawn"} /\ Goto("reread")
          \/ t = "exit" /\ s = repo /\ op \in {"cherryPick", "revertCommit"} /\ Finish("failed"))

RunContinue ==
    /\ Writing("write", Continues)
    /\ Write(op, LAMBDA t, s : CASE t = "ok" -> Goto("head")
                                 [] t \in Stopped -> Finish("unknown")
                                 [] OTHER -> Goto("reread"))

RunAbort ==
    /\ Writing("write", Aborts)
    /\ Write(op, LAMBDA t, s : HeadOr(t, IF t \in Stopped THEN "unknown" ELSE "failed"))

\* (mutant) A command that exited non-zero is taken to have done nothing.
Reread_ByExit ==
    /\ pc = "reread"
    /\ Finish("failed")
    /\ UNCHANGED <<repo, op, before, named, ended, blind, used, ghosts>>

\* After a command that exited non-zero the marker is probed again: a start
\* with no marker was refused, a continue with no marker was finished by a hook.
Reread ==
    /\ pc = "reread"
    /\ Read(Mark(op) \in repo.open, LAMBDA seen :
          CASE ~seen -> IF op \in Starts THEN Finish("failed") ELSE Goto("head")
            [] seen /\ op = "merge" -> Finish("needsAttention")
            [] seen /\ op = "continueMerge" -> Finish("failed")
            [] seen /\ op = "revertCommit" -> Goto("abort")
            [] OTHER -> Goto("count"))

\* countConflictedPaths: a list that cannot be read counts as no conflict.
Count ==
    /\ pc = "count"
    /\ Read(repo.conflicts, LAMBDA some :
          CASE some -> Finish("needsAttention")
            [] ~some /\ op \in Starts -> Goto("abort")
            [] OTHER -> Finish("failed"))

AbortOf(o) == CASE o = "cherryPick" -> "abortCherryPick"
                [] o = "revertCommit" -> "abortRevert"
                [] OTHER -> "abortRebase"

\* A stop nobody can continue is aborted before it is reported.
AutoAbort ==
    /\ pc = "abort"
    /\ Write(AbortOf(op), LAMBDA t, s : Finish(IF t = "ok" THEN "failed" ELSE "unknown"))

\* The HEAD read after the work; readHeadFacts throws when it has no answer,
\* and so does the worktree list of createWorktree and removeWorktree.
ReadHead ==
    /\ pc = "head"
    /\ Read(TRUE, LAMBDA seen : Finish(IF seen THEN "succeeded" ELSE "unknown"))

RunSquash ==
    /\ Writing("write", {"squashCommit"})
    /\ Write("softReset", LAMBDA t, s : CASE t = "ok" -> Goto("write2")
                                         [] t \in Stopped -> Finish("unknown")
                                         [] OTHER -> Finish("failed"))

SquashAmend ==
    /\ Writing("write2", {"squashCommit"})
    /\ Write("amendCommit", LAMBDA t, s : HeadOr(t, IF t \in Stopped THEN "unknown" ELSE "failed"))

\* `git remote add` or `rename`, and up to one more `set-url`.
RunRemote ==
    /\ Writing(pc, Remotes)
    /\ pc \in {"write", "write2"}
    /\ Write(op, LAMBDA t, s :
          IF t = "ok" THEN Finish("succeeded") \/ (pc = "write" /\ Goto("write2"))
          ELSE Finish(IF op = "addRemote" THEN GitFailure(t) ELSE "needsAttention"))

\* Fetch and push, and the fetch half of a pull: output that does not parse
\* makes the outcome unknown; a push with a parsed table that did not exit 0
\* is a rejected push.
RunNetwork ==
    /\ Writing("write", Network)
    /\ Write(IF op = "pull" THEN "fetch" ELSE op, LAMBDA t, s :
          \/ t = "ok" /\ IF op = "pull" THEN Goto("write2") ELSE Finish("succeeded")
          \/ t # "ok" /\ Finish(GitFailure(t))
          \/ t # "ok" /\ op \in {"push", "pushTag"} /\ Finish("failed")
          \/ Finish("unknown"))

FastForward ==
    /\ Writing("write2", {"pull"})
    /\ Write("fastForward", LAMBDA t, s : Finish(IF t = "ok" THEN "succeeded" ELSE "failed"))

\* The destination is looked at before and after the command; a repository that
\* was made and cannot be registered needs attention.
RunCreation ==
    /\ Writing("write", Creations)
    /\ Write(op, LAMBDA t, s :
          CASE t = "ok" -> Finish("succeeded") \/ Finish("needsAttention")
            [] t = "exit" -> Finish(IF ~repo.files /\ s.files THEN "needsAttention" ELSE "failed")
            [] OTHER -> Finish("unknown"))

\* (mutant) The outcome outlives its operation.
Report_Kept ==
    /\ pc = "done" /\ pc' = "idle"
    /\ UNCHANGED <<repo, op, todo, before, named, ended, result, blind, used, ghosts>>

Report ==
    /\ pc = "done"
    /\ pc' = "idle" /\ result' = "none" /\ ended' = "none" /\ todo' = <<>>
    /\ before' = repo /\ named' = [at |-> 0, entry |-> 0]
    /\ did' = FALSE /\ mine' = FALSE /\ killed' = FALSE /\ blind' = FALSE /\ disturbed' = FALSE
    /\ UNCHANGED <<repo, op, used>>

\* Another program: a commit, a sequencer command that stops or is finished, a
\* stash that is pushed on top.
Outside ==
    /\ used.outside < MaxOutside
    /\ used' = [used EXCEPT !.outside = @ + 1]
    /\ repo' \in {[repo EXCEPT !.head = NewHead(repo)], Pushed(repo)}
                  \cup {[Closed(repo, m) EXCEPT !.head = repo.orig] : m \in repo.open}
                  \cup {[repo EXCEPT !.open = @ \cup {m}, !.conflicts = TRUE, !.orig = repo.head] :
                           m \in IF repo.open = {} THEN Marks ELSE {}}
    /\ disturbed' = (pc \notin {"idle", "queued"})
    /\ UNCHANGED <<op, pc, todo, before, named, ended, result, did, mine, killed, blind>>

Init ==
    /\ repo = [head |-> 0, orig |-> 0, open |-> {}, conflicts |-> FALSE, rest |-> 0,
               files |-> FALSE, stash |-> <<1, 2>>]
    /\ op = CHOOSE o \in Ops : TRUE
    /\ pc = "idle" /\ todo = <<>> /\ before = repo
    /\ named = [at |-> 0, entry |-> 0]
    /\ ended = "none" /\ result = "none"
    /\ did = FALSE /\ mine = FALSE /\ killed = FALSE /\ blind = FALSE /\ disturbed = FALSE
    /\ used = [ops |-> 0, faults |-> 0, outside |-> 0]

Next ==
    \/ \E o \in Ops : Submit(o)
    \/ ResolveFacts \/ Probe \/ Lookup
    \/ RunBranch \/ RunStaging \/ RunModules \/ RunTag \/ RunStash \/ RemoveRemote \/ RunTree
    \/ RunPop \/ RunReset \/ RunCommit \/ Compare
    \/ RunStart \/ RunContinue \/ RunAbort \/ Reread \/ Count \/ AutoAbort \/ ReadHead
    \/ RunSquash \/ SquashAmend \/ RunRemote \/ RunNetwork \/ FastForward \/ RunCreation
    \/ Report \/ Outside

Spec == Init /\ [][Next]_vars

-----------------------------------------------------------------------------
(* Properties.                                                             *)

Outcomes == {"none", "succeeded", "failed", "needsAttention", "unknown"}

Worktree == [head : 0..3, orig : 0..3, open : SUBSET Marks, conflicts : BOOLEAN,
             rest : 0..2, files : BOOLEAN, stash : Seq(Nat)]

\* What the variables may hold: the stages of an effect, the outcomes an effect
\* may report (EffectOutcome in jobs.ts), a worktree Git can keep.
TypeOK ==
    /\ {repo, before} \subseteq Worktree /\ named \in [at : Nat, entry : Nat]
    /\ op \in Ops /\ result \in Outcomes /\ todo \in Seq(Marks)
    /\ ended \in {"none", "ok", "exit", "killed", "limit", "spawn"}
    /\ {did, mine, killed, blind, disturbed} \subseteq BOOLEAN
    /\ (result # "none") = (pc = "done")
    /\ pc \in {"idle", "queued", "check", "write", "write2", "compare", "reread", "count",
               "abort", "head", "done"}
    /\ used \in [ops : 0..MaxOps, faults : 0..MaxFaults, outside : 0..MaxOutside]

\* The effect ended, nobody interfered and every read was answered.
Settled == pc = "done" /\ ~disturbed /\ ~blind

SameWorktree(r, s) == [r EXCEPT !.orig = 0] = [s EXCEPT !.orig = 0]

\* Operations of several writes, and those whose non-zero exit may leave part of
\* the work; their failures leave what was done (see Stops).
Piecemeal == {"squashCommit", "addRemote", "applyStash", "continueRebase", "switchBranch",
              "createWorktree", "removeWorktree"} \cup Modules \cup Network

\* "failed" means that nothing changed: the worktree is the one the effect
\* started on, also where a stop was aborted on the way (revert.ts:47,
\* rebase.ts:82).  A simple command stopped at the output limit is reported
\* "failed" too (effects-support.ts:116), and is left to the README.
FailedChangedNothing ==
    Settled /\ result = "failed" /\ op \notin Piecemeal
            /\ ~(ended = "limit" /\ op \in Simple \cup {"popStash"})
        => SameWorktree(repo, before)

\* The markers agree with the outcome: a success leaves none of its own and rests
\* on a command that exited 0 unless a hook finished a continue; a marker this
\* operation opened is never left behind a "failed"; attention is asked for a
\* start only where there is something to continue.
MarkersAgree ==
    Settled =>
        /\ result = "succeeded" => Mark(op) \notin repo.open /\ (did \/ op \in Continues)
        /\ mine /\ Mark(op) \in repo.open => result \in {"needsAttention", "unknown"}
        /\ result = "needsAttention" /\ op \in Starts => Mark(op) \in repo.open

\* The automatic abort of a revert, a cherry-pick, a rebase and a drop undoes what
\* this operation started, never an operation that was in progress before it.
AbortsOnlyItsOwn == pc = "abort" /\ ~blind /\ ~disturbed => mine

\* A write that was killed is never called "failed", which would invite a retry
\* (effects-support.ts:92).  Left out are a push and a push of a tag, rejected when
\* the table they printed parses, however they ended, and a pull, whose fast-forward
\* failed however it ended: of a killed one of these this says nothing.
KilledIsNotFailed ==
    pc = "done" /\ killed /\ op \notin {"pull", "push", "pushTag"} => result # "failed"

\* Only the stash entry the request names is ever dropped, although the list may
\* have moved while the request waited.
DropsTheNamedEntry ==
    pc = "done" /\ ~disturbed =>
        Range(before.stash) \ Range(repo.stash) \subseteq {named.entry}

\* "This build must not be the thing that ends" a revert started outside it
\* (preconditions.ts:254): an automatic abort never runs on a marker that this
\* operation did not open, whatever a probe failed to answer.
EndsNothingForeign == pc = "abort" /\ ~disturbed => mine

\* A clean non-zero exit failed without ambiguity (effects-support.ts:92).
CleanExitChangedNothing ==
    Settled /\ result = "failed" /\ ended = "exit" => SameWorktree(repo, before)

\* A failed pull says that the local branch was not moved
\* (repository-effects.ts:529).
FailedPullKeptBranch ==
    Settled /\ op = "pull" /\ result = "failed" => repo.head = before.head
=============================================================================
