------------------------------- MODULE Terminal -------------------------------
(***************************************************************************)
(* The integrated terminal, from the tab to the shell: the tab's session   *)
(* (packages/git-ui/src/lib/terminal-tab-session.ts), the HTTP client      *)
(* (packages/git-client/src/terminal.ts), the output stream of the host    *)
(* (host-node/src/http/hono-app.ts) and the terminal service with its      *)
(* shells (host-node/src/terminal/service.ts).                             *)
(*                                                                         *)
(* Requests travel on connections of their own, so they may overtake each  *)
(* other; the frames of one stream stay in order until the connection      *)
(* drops.  Output is cut into pieces, numbered per shell; input is         *)
(* numbered per tab.                                                       *)
(***************************************************************************)
EXTENDS Integers, Sequences, FiniteSets

CONSTANTS Tabs,      \* terminal tabs; each is opened once
          MaxShells, \* LIMITS.terminalSessionsPerService
          Buffer,    \* pieces that fit LIMITS.terminalPreSubscribeBufferBytes
          MaxOutput, \* pieces a shell writes
          MaxInput,  \* writes of a tab
          MaxFaults  \* connections that drop, requests and frames that fail

ASSUME TerminalAssumption ==
    {MaxShells, Buffer} \subseteq Nat \ {0} /\ {MaxOutput, MaxInput, MaxFaults} \subseteq Nat

VARIABLES tab,    \* the browser's side
          posts,  \* requests on their way to the host
          shell,  \* the shells the host started, by session id
          listed, \* the session ids of the service's map
          faults

vars == <<tab, posts, shell, listed, faults>>

NoShell == 0
Output(n) == [kind |-> "output", n |-> n]
Exit      == [kind |-> "exit", n |-> 0]     \* with or without a code

Post(t, kind, n) == [tab |-> t, kind |-> kind, n |-> n]

\* fault, a history, holds the kinds of the tab's requests that failed.  A tab whose
\* open was answered in vain is "lost" and has a session it never heard of; to
\* itself it is as "failed" as one whose open was refused.
Of(t)   == tab[t].sid
Tab0    == [phase |-> "none", disposed |-> FALSE, sid |-> NoShell, ended |-> FALSE,
            stream |-> "none", wire |-> <<>>, seen |-> <<>>, typed |-> 0, fault |-> {}]

Init ==
    /\ tab = [t \in Tabs |-> Tab0]
    /\ posts = {}
    /\ shell = <<>> /\ listed = {} /\ faults = 0

-----------------------------------------------------------------------------
(* The tab and its client.                                                   *)

\* startTerminalTab: the open request leaves at once.
StartTab(t) ==
    /\ tab[t].phase = "none"
    /\ tab' = [tab EXCEPT ![t].phase = "opening"]
    /\ posts' = posts \union {Post(t, "open", 0)}
    /\ UNCHANGED <<shell, listed, faults>>

\* handle.close: the stream is aborted before the close request is sent.  The
\* emulator goes with what it shows.
Closed(r) == [r EXCEPT !.phase = "closed", !.wire = <<>>, !.seen = <<>>,
                            !.stream = "over"]

\* Mutant: a tab that was destroyed keeps what it was given.
OpenAnswered_KeepsTheShell(t) ==
    /\ tab[t].phase = "opened"
    /\ tab' = [tab EXCEPT ![t].phase = "open", ![t].stream = "asking"]
    /\ posts' = posts \union {Post(t, "output", 0)}
    /\ UNCHANGED <<shell, listed, faults>>

\* The client asks for the output stream before open returns; a tab destroyed in
\* the meantime aborts it and closes what it was given.
OpenAnswered(t) ==
    /\ tab[t].phase = "opened"
    /\ tab' = [tab EXCEPT ![t] =
          IF @.disposed THEN Closed(@)
          ELSE [@ EXCEPT !.phase = "open", !.stream = "asking"]]
    /\ posts' = posts \union {Post(t, "output", 0)}
                     \union (IF tab[t].disposed THEN {Post(t, "close", 0)} ELSE {})
    /\ UNCHANGED <<shell, listed, faults>>

Type(t) ==
    /\ tab[t].phase = "open" /\ ~tab[t].ended
    /\ tab[t].typed < MaxInput
    /\ tab' = [tab EXCEPT ![t].typed = @ + 1]
    /\ posts' = posts \union {Post(t, "input", tab[t].typed + 1)}
    /\ UNCHANGED <<shell, listed, faults>>

\* reportOnce: an input the service refused shows the session as ended.  The tab's
\* session is null from then on, and it types no more.
InputFailed(t) ==
    \E n \in 1 .. MaxInput :
        /\ Post(t, "refused", n) \in posts
        /\ posts' = posts \ {Post(t, "refused", n)}
        /\ tab' = [tab EXCEPT ![t].ended = TRUE]
        /\ UNCHANGED <<shell, listed, faults>>

\* watchOutput reads one frame; after an exit it reads no more, but neither end
\* closes the stream.
Taken(r) ==
    IF Head(r.wire).kind = "output"
    THEN [r EXCEPT !.wire = Tail(r.wire),
                   !.seen = IF r.disposed THEN r.seen ELSE Append(r.seen, Head(r.wire).n)]
    ELSE [r EXCEPT !.wire = <<>>, !.stream = "unread", !.ended = TRUE]

FrameRead(t) ==
    /\ tab[t].stream = "up" /\ tab[t].wire # <<>>
    /\ tab' = [tab EXCEPT ![t] = Taken(tab[t])]
    /\ UNCHANGED <<posts, shell, listed, faults>>

\* destroy, by closing the tab or unmounting it, at any moment.  A tab whose
\* open is still under way has nothing to close yet.
Destroy(t) ==
    /\ tab[t].phase \in {"opening", "opened", "open", "failed", "lost"} /\ ~tab[t].disposed
    /\ tab' = [tab EXCEPT ![t] =
          LET gone == [@ EXCEPT !.disposed = TRUE]
          IN  IF @.phase = "open" THEN Closed(gone) ELSE gone]
    /\ posts' = posts \union (IF tab[t].phase = "open" THEN {Post(t, "close", 0)} ELSE {})
    /\ UNCHANGED <<shell, listed, faults>>

-----------------------------------------------------------------------------
(* What fails on the way.  A request may not get through, its answer may not, or the *)
(* host may refuse it before the service sees it: the login expired (auth.ts) or   *)
(* another login opened the session (service.ts requireLiveSession).               *)

\* The open request, or the answer of a host that has started the shell by then:
\* open rejects, and the tab has neither a session nor a way to close one.
OpenFails(t) ==
    /\ tab[t].phase \in {"opening", "opened"}
    /\ posts' = posts \ {Post(t, "open", 0)}
    /\ tab' = [tab EXCEPT
          ![t].phase = IF @ = "opening" THEN "failed" ELSE "lost",
          ![t].fault = @ \union {"open"}]

\* reportOnce: the tab shows a session as ended whose shell may well run.
InputFails(t) ==
    \E n \in 1 .. MaxInput :
        /\ Post(t, "input", n) \in posts
        /\ posts' = posts \ {Post(t, "input", n)}
        /\ tab' = [tab EXCEPT ![t].ended = TRUE, ![t].fault = @ \union {"input"}]

\* The output request: watchOutput reports one that was refused, and throws, where
\* nobody listens, when it could not be sent.
StreamFails(t) ==
    \E told \in BOOLEAN :
        /\ Post(t, "output", 0) \in posts
        /\ posts' = posts \ {Post(t, "output", 0)}
        /\ tab' = IF tab[t].stream # "asking" THEN tab
                  ELSE [tab EXCEPT ![t].stream = "over", ![t].ended = @ \/ told,
                                   ![t].fault = @ \union {"output"}]

\* A frame the client cannot read is reported, one that is no JSON is thrown; either
\* way it reads no more of a stream that stays open.
FrameFails(t) ==
    \E told \in BOOLEAN :
        /\ tab[t].stream = "up" /\ tab[t].wire # <<>>
        /\ tab' = [tab EXCEPT ![t].stream = "deaf", ![t].wire = <<>>,
                              ![t].ended = @ \/ told,
                              ![t].fault = @ \union {"output"}]
        /\ posts' = posts

\* A close that fails is swallowed and not repeated.
CloseFails(t) ==
    /\ Post(t, "close", 0) \in posts
    /\ posts' = posts \ {Post(t, "close", 0)}
    /\ tab' = [tab EXCEPT ![t].fault = @ \union {"close"}]

\* The stream's connection drops: what was on it is lost, and the client, which
\* does not reconnect, is done.  The host detaches when it notices, if it does.
Drop(t) ==
    /\ tab[t].stream \in {"up", "unread", "deaf"}
    /\ tab' = [tab EXCEPT ![t].stream = "over", ![t].wire = <<>>]
    /\ posts' = posts

Fault(t) ==
    /\ faults < MaxFaults
    /\ faults' = faults + 1
    /\ \/ OpenFails(t) \/ InputFails(t) \/ StreamFails(t)
       \/ FrameFails(t) \/ CloseFails(t) \/ Drop(t)
    /\ UNCHANGED <<shell, listed>>

-----------------------------------------------------------------------------
(* The terminal service.                                                     *)

\* Mutant: the sweep takes whatever nobody watches.
Swept_Unattached == {s \in listed : shell[s].watched}

\* Finished records nobody watches go before the sessions are counted.
Swept == {s \in listed : ~(shell[s].exited /\ ~shell[s].watched)}
\* Mutant: one session too many.
Full_OneMore == Cardinality(Swept) > MaxShells

Full == Cardinality(Swept) >= MaxShells

Session(t) == [owner |-> t, pending |-> <<>>, watched |-> FALSE,
               exited |-> FALSE, killed |-> FALSE, wrote |-> 0]

OpenArrives(t) ==
    LET s == Len(shell) + 1 IN
    /\ Post(t, "open", 0) \in posts
    /\ posts' = posts \ {Post(t, "open", 0)}
    /\ IF Full
       THEN /\ listed' = Swept
            /\ tab' = [tab EXCEPT ![t].phase = "failed"]
            /\ UNCHANGED shell
       ELSE /\ listed' = Swept \union {s}
            /\ shell' = Append(shell, Session(t))
            /\ tab' = [tab EXCEPT ![t].phase = "opened", ![t].sid = s]
    /\ UNCHANGED faults

\* What the shell does with its input is its own affair.
InputArrives(t) ==
    \E n \in 1 .. MaxInput :
        /\ Post(t, "input", n) \in posts
        /\ posts' = (posts \ {Post(t, "input", n)})
                        \union (IF Of(t) \in listed /\ ~shell[Of(t)].exited
                                THEN {} ELSE {Post(t, "refused", n)})
        /\ UNCHANGED <<tab, shell, listed, faults>>

CloseArrives(t) ==
    /\ Post(t, "close", 0) \in posts
    /\ posts' = posts \ {Post(t, "close", 0)}
    /\ IF Of(t) \in listed
       THEN /\ shell' = [shell EXCEPT ![Of(t)].killed = TRUE, ![Of(t)].pending = <<>>]
            /\ listed' = listed \ {Of(t)}
       ELSE UNCHANGED <<shell, listed>>
    /\ UNCHANGED <<tab, faults>>

\* What a new subscriber is sent at once: the buffer, then the exit if there was
\* one.
Backlog(s) ==
    [i \in DOMAIN shell[s].pending |-> Output(shell[s].pending[i])]
        \o (IF shell[s].exited THEN <<Exit>> ELSE <<>>)

\* A stream for a session that is not there stays open and silent; a request that
\* was aborted may still arrive, and finds nobody at the other end.
StreamArrives(t) ==
    LET s == Of(t) IN
    /\ Post(t, "output", 0) \in posts
    /\ posts' = posts \ {Post(t, "output", 0)}
    /\ tab' = IF tab[t].stream # "asking" THEN tab
              ELSE [tab EXCEPT ![t].stream = "up",
                               ![t].wire = IF s \in listed THEN Backlog(s) ELSE <<>>]
    /\ shell' = IF s \notin listed THEN shell
                ELSE [shell EXCEPT ![s].pending = <<>>, ![s].watched = TRUE]
    /\ UNCHANGED <<listed, faults>>

\* A connection that dropped: the response's cleanup detaches the subscriber.
Detach(s) ==
    /\ shell[s].watched /\ tab[shell[s].owner].stream = "over"
    /\ shell' = [shell EXCEPT ![s].watched = FALSE]
    /\ UNCHANGED <<tab, posts, listed, faults>>

\* A frame for the subscriber; one whose connection dropped gets nothing.
Sent(s, frame) ==
    LET t == shell[s].owner IN
    IF shell[s].watched /\ tab[t].stream = "up"
    THEN [tab EXCEPT ![t].wire = Append(@, frame)] ELSE tab

\* Mutant: a full buffer takes nothing more.
Buffered_DropsNewest(pending, n) ==
    IF Len(pending) >= Buffer THEN pending ELSE Append(pending, n)

\* The oldest pieces go when the buffer is full.
Buffered(pending, n) ==
    LET all == Append(pending, n)
    IN  IF Len(all) > Buffer THEN Tail(all) ELSE all

\* deliver: to the subscriber, or to the buffer while there is none.  The buffer of
\* a session that left the map goes with it.
Write(s) ==
    LET n == shell[s].wrote + 1 IN
    /\ ~shell[s].exited /\ n <= MaxOutput
    /\ tab' = Sent(s, Output(n))
    /\ shell' = [shell EXCEPT ![s].wrote = n,
                              ![s].pending = IF shell[s].watched \/ s \notin listed
                                             THEN @ ELSE Buffered(@, n)]
    /\ UNCHANGED <<posts, listed, faults>>

\* finish, when the process has ended.
Ends(s) ==
    /\ ~shell[s].exited
    /\ tab' = Sent(s, Exit)
    /\ shell' = [shell EXCEPT ![s].exited = TRUE]
    /\ UNCHANGED <<posts, listed, faults>>

\* A shell that was killed ends.
Dies(s) == shell[s].killed /\ Ends(s)

-----------------------------------------------------------------------------
\* What arrives is handled, and its answer read.
Handled(t) ==
    \/ OpenArrives(t) \/ OpenAnswered(t) \/ InputArrives(t) \/ InputFailed(t)
    \/ CloseArrives(t) \/ StreamArrives(t) \/ FrameRead(t)

Next ==
    \/ \E t \in Tabs : StartTab(t) \/ Type(t) \/ Destroy(t) \/ Fault(t) \/ Handled(t)
    \/ \E s \in DOMAIN shell : Write(s) \/ Ends(s) \/ Detach(s)

Fairness ==
    /\ \A t \in Tabs : WF_vars(OpenArrives(t)) /\ WF_vars(OpenAnswered(t))
                       /\ WF_vars(CloseArrives(t))
    /\ \A s \in 1 .. Cardinality(Tabs) : WF_vars(s \in DOMAIN shell /\ Dies(s))

Spec == Init /\ [][Next]_vars /\ Fairness

-----------------------------------------------------------------------------
(* Properties.                                                               *)

Frame   == [kind : {"output", "exit"}, n : Nat]
Request == [tab : Tabs, kind : {"open", "output", "input", "refused", "close"}, n : Nat]
Tab     == [phase : {"none", "opening", "opened", "open", "closed", "failed", "lost"},
            disposed : BOOLEAN, ended : BOOLEAN, sid : Nat,
            stream : {"none", "asking", "up", "unread", "deaf", "over"},
            wire : Seq(Frame), seen : Seq(Nat), typed : Nat,
            fault : SUBSET {"open", "output", "input", "close"}]
Record  == [owner : Tabs, pending : Seq(Nat), wrote : Nat,
            watched : BOOLEAN, exited : BOOLEAN, killed : BOOLEAN]

\* The shape of the state, with no more records than the service allows and
\* buffers within their bound.
TypeOK ==
    /\ tab \in [Tabs -> Tab] /\ posts \subseteq Request /\ faults \in Nat
    /\ shell \in Seq(Record)
    /\ \A t \in Tabs : tab[t].sid \in DOMAIN shell \union {NoShell}
    /\ \A s \in DOMAIN shell : Len(shell[s].pending) <= Buffer
    /\ listed \subseteq DOMAIN shell /\ Cardinality(listed) <= MaxShells

\* A tab that is not destroyed shows its session as ended only when the shell has
\* ended or one of the tab's own requests or frames failed: never because of what
\* other tabs open and close meanwhile (service.ts open sweeps finished records,
\* finish keeps the others), nor because a request overtook another.  A failed input
\* or output does show a live shell as ended (terminal-tab-session.ts onError: "the
\* transport died; the exit path renders the tab as dead").
EndedByExitOrFault ==
    \A t \in Tabs :
        tab[t].ended /\ ~tab[t].disposed
            => shell[Of(t)].exited \/ tab[t].fault \cap {"input", "output"} # {}

\* A tab whose stream delivered the exit shows the end of its shell's output without
\* a gap: only the beginning may be missing, from the buffer of the time before the
\* stream (service.ts deliver: the oldest bytes go first; terminal.ts: a terminal
\* that silently skipped output would be a lie).
EndedShowsTheRest ==
    \A t \in Tabs :
        tab[t].stream = "unread"
            => LET seen == tab[t].seen
                   wrote == shell[Of(t)].wrote
               IN  /\ wrote > 0 => seen # <<>>
                   /\ \A i \in DOMAIN seen : seen[i] = wrote - Len(seen) + i

\* A tab that is destroyed, while its open is under way above all, takes its shell
\* with it (terminal-tab-session.ts: it "must not outlive the tab that asked for it"),
\* also one whose input or stream failed before.  Not when the answer to its open or
\* the close itself was lost or refused, after the login expired for one: the client
\* swallows that (terminal.ts close), and the shell keeps its slot.
DestroyedTabEndsItsShell ==
    \A t \in Tabs :
        tab[t].disposed
            ~> \/ \A s \in DOMAIN shell : shell[s].owner = t => shell[s].exited
               \/ tab[t].fault \cap {"open", "close"} # {}

\* A tab whose stream dropped, and that failed at nothing else, hears of it
\* (terminal.ts: "the observer hears an error and the UI shows the session as dead,
\* which is the truth").
DroppedStreamIsReported ==
    \A t \in Tabs :
        tab[t].stream = "over" /\ tab[t].phase = "open" /\ tab[t].fault = {}
            ~> tab[t].ended \/ tab[t].phase = "closed"
=============================================================================
