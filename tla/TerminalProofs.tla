---------------------------- MODULE TerminalProofs ----------------------------
(***************************************************************************)
(* Proofs about Terminal, for every number of tabs, shells, pieces of      *)
(* output, inputs and faults, and for every buffer.                        *)
(***************************************************************************)
EXTENDS Terminal, FiniteSetTheorems, TLAPS

\* A tab that was given a session.
Given == {"opened", "open", "closed", "lost"}

\* Tabs and sessions name each other.
SessionsHaveTabs ==
    /\ \A s \in DOMAIN shell : tab[shell[s].owner].sid = s
    /\ \A t \in Tabs : tab[t].sid # NoShell => shell[tab[t].sid].owner = t
    /\ \A t \in Tabs : tab[t].sid # NoShell <=> tab[t].phase \in Given

\* The tab is gone, or its shell is.
Over(t) == tab[t].disposed \/ shell[tab[t].sid].exited

\* What each request on its way says about its tab.
RequestsAgree ==
    \A m \in posts :
        /\ m.kind = "open" => m.n = 0 /\ tab[m.tab].phase = "opening"
        /\ m.kind \in {"input", "refused"} => tab[m.tab].phase \in {"open", "closed"}
        /\ m.kind = "close" => tab[m.tab].disposed
        /\ m.kind = "refused" => Over(m.tab)

\* A session leaves the service's map only when it is over.
UnlistedIsOver == \A t \in Tabs : tab[t].sid \notin {NoShell} \union listed => Over(t)

\* A stream belongs to a session, and an exit on it to a session that is over.
StreamsAgree ==
    \A t \in Tabs :
        /\ tab[t].stream # "none" => tab[t].phase \in {"open", "closed"}
        /\ \A i \in DOMAIN tab[t].wire :
              tab[t].stream = "up" /\ (tab[t].wire[i].kind = "exit" => Over(t))

\* One of the tab's inputs, its output request or a frame failed.
Failed(t) == tab[t].fault \cap {"input", "output"} # {}

EndedIsOver ==
    \A t \in Tabs :
        tab[t].ended => tab[t].phase \in {"open", "closed"} /\ (Over(t) \/ Failed(t))

IInv ==
    /\ TypeOK /\ SessionsHaveTabs /\ RequestsAgree /\ UnlistedIsOver
    /\ StreamsAgree /\ EndedIsOver

-----------------------------------------------------------------------------
(* The steps of the tab.                                                     *)

\* A step that changes one tab, and neither its session nor the service.
LEMMA TabTypes ==
    ASSUME TypeOK, NEW t \in Tabs, NEW r \in Tab, r.sid = tab[t].sid,
           tab' = [tab EXCEPT ![t] = r], UNCHANGED <<shell, listed>>,
           posts' \subseteq Request, faults' \in Nat
    PROVE  TypeOK'
BY DEF TypeOK, Tab

LEMMA NothingIsSeq == \A S : <<>> \in Seq(S)
OBVIOUS

LEMMA RecordsTyped ==
    ASSUME TypeOK
    PROVE  \A s \in DOMAIN shell : shell[s] \in Record /\ shell[s].owner \in Tabs
<1> TAKE s \in DOMAIN shell
<1>1. shell[s] \in Record
  BY DEF TypeOK
<1>2. QED
  BY <1>1 DEF Record

LEMMA StartTabKeeps == ASSUME IInv, NEW t \in Tabs, StartTab(t) PROVE IInv'
<1> USE DEF IInv, StartTab
<1> DEFINE r == [tab[t] EXCEPT !.phase = "opening"]
<1>a. r \in Tab /\ r.sid = tab[t].sid
  <2>1. tab[t] \in Tab
    BY DEF TypeOK
  <2>2. <<>> \in Seq(Frame) /\ <<>> \in Seq(Nat)
    BY NothingIsSeq
  <2>3. QED
    BY <2>1, <2>2 DEF Tab
<1>b. tab' = [tab EXCEPT ![t] = r]
  BY DEF TypeOK, Tab
<1>c. posts' \subseteq Request
  BY DEF TypeOK, Request, Post, Tab
<1>d. faults' \in Nat
  BY DEF TypeOK
<1>1. TypeOK'
  <2> HIDE DEF r, StartTab
  <2> QED BY <1>a, <1>b, <1>c, <1>d, TabTypes DEF StartTab
<1>2. SessionsHaveTabs'
  BY DEF TypeOK, SessionsHaveTabs, Given, Tab, NoShell
<1>3. RequestsAgree'
  BY DEF TypeOK, RequestsAgree, Over, Request, Post, Tab
<1>4. UnlistedIsOver'
  BY DEF TypeOK, UnlistedIsOver, Over, Tab, NoShell
<1>5. StreamsAgree'
  <2>1. ASSUME NEW u \in Tabs
        PROVE  /\ tab'[u].wire = tab[u].wire /\ tab'[u].stream = tab[u].stream
               /\ tab'[u].sid = tab[u].sid /\ tab'[u].disposed = tab[u].disposed
               /\ u # t => tab'[u].phase = tab[u].phase
    <3>1. /\ r.wire = tab[t].wire /\ r.stream = tab[t].stream
          /\ r.sid = tab[t].sid /\ r.disposed = tab[t].disposed
      BY DEF TypeOK, Tab
    <3>2. tab'[u] = IF u = t THEN r ELSE tab[u]
      <4> HIDE DEF r
      <4> QED BY <1>b DEF TypeOK
    <3> HIDE DEF r
    <3>3. QED
      BY <3>1, <3>2
  <2>2. shell' = shell
    OBVIOUS
  <2>3. tab[t].stream = "none"
    BY DEF StreamsAgree
  <2> HIDE DEF r, StartTab
  <2>4. QED
    BY <2>1, <2>2, <2>3 DEF StreamsAgree, Over
<1>6. EndedIsOver'
  BY DEF TypeOK, EndedIsOver, Over, Failed, Tab
<1>7. QED
  BY <1>1, <1>2, <1>3, <1>4, <1>5, <1>6

LEMMA OpenAnsweredKeeps == ASSUME IInv, NEW t \in Tabs, OpenAnswered(t) PROVE IInv'
<1> USE DEF IInv, OpenAnswered, Closed, Of
<1> DEFINE r == IF tab[t].disposed THEN Closed(tab[t])
                   ELSE [tab[t] EXCEPT !.phase = "open", !.stream = "asking"]
<1>a. r \in Tab /\ r.sid = tab[t].sid
  <2>1. tab[t] \in Tab
    BY DEF TypeOK
  <2>2. <<>> \in Seq(Frame) /\ <<>> \in Seq(Nat)
    BY NothingIsSeq
  <2>3. QED
    BY <2>1, <2>2 DEF Tab
<1>b. tab' = [tab EXCEPT ![t] = r]
  BY DEF TypeOK, Tab
<1>c. posts' \subseteq Request
  BY DEF TypeOK, Request, Post, Tab
<1>d. faults' \in Nat
  BY DEF TypeOK
<1>1. TypeOK'
  <2> HIDE DEF r, OpenAnswered, Closed, Of
  <2> QED BY <1>a, <1>b, <1>c, <1>d, TabTypes DEF OpenAnswered
<1>2. SessionsHaveTabs'
  BY DEF TypeOK, SessionsHaveTabs, Given, Tab, NoShell
<1>3. RequestsAgree'
  BY DEF TypeOK, RequestsAgree, Over, Request, Post, Tab
<1>4. UnlistedIsOver'
  BY DEF TypeOK, UnlistedIsOver, Over, Tab, NoShell
<1>5. StreamsAgree'
  BY DEF TypeOK, StreamsAgree, Over, Tab
<1>6. EndedIsOver'
  BY DEF TypeOK, EndedIsOver, Over, Failed, Tab
<1>7. QED
  BY <1>1, <1>2, <1>3, <1>4, <1>5, <1>6

LEMMA TypeKeeps == ASSUME IInv, NEW t \in Tabs, Type(t) PROVE IInv'
<1> USE DEF IInv, Type
<1> DEFINE r == [tab[t] EXCEPT !.typed = @ + 1]
<1>a. r \in Tab /\ r.sid = tab[t].sid
  <2>1. tab[t] \in Tab
    BY DEF TypeOK
  <2>2. <<>> \in Seq(Frame) /\ <<>> \in Seq(Nat)
    BY NothingIsSeq
  <2>3. QED
    <3>1. tab[t].typed + 1 \in Nat
      BY <2>1 DEF Tab
    <3>2. QED
      BY <2>1, <3>1 DEF Tab
<1>b. tab' = [tab EXCEPT ![t] = r]
  BY DEF TypeOK, Tab
<1>c. posts' \subseteq Request
  BY DEF TypeOK, Request, Post, Tab
<1>d. faults' \in Nat
  BY DEF TypeOK
<1>1. TypeOK'
  <2> HIDE DEF r, Type
  <2> QED BY <1>a, <1>b, <1>c, <1>d, TabTypes DEF Type
<1>2. SessionsHaveTabs'
  BY DEF TypeOK, SessionsHaveTabs, Given, Tab, NoShell
<1>3. RequestsAgree'
  BY SMTT(30) DEF TypeOK, RequestsAgree, Over, Request, Post, Tab
<1>4. UnlistedIsOver'
  BY DEF TypeOK, UnlistedIsOver, Over, Tab, NoShell
<1>5. StreamsAgree'
  BY DEF TypeOK, StreamsAgree, Over, Tab
<1>6. EndedIsOver'
  BY DEF TypeOK, EndedIsOver, Over, Failed, Tab
<1>7. QED
  BY <1>1, <1>2, <1>3, <1>4, <1>5, <1>6

LEMMA InputFailedKeeps == ASSUME IInv, NEW t \in Tabs, InputFailed(t) PROVE IInv'
<1> USE DEF IInv, InputFailed
<1> DEFINE r == [tab[t] EXCEPT !.ended = TRUE]
<1>a. r \in Tab /\ r.sid = tab[t].sid
  <2>1. tab[t] \in Tab
    BY DEF TypeOK
  <2>2. <<>> \in Seq(Frame) /\ <<>> \in Seq(Nat)
    BY NothingIsSeq
  <2>3. QED
    BY <2>1, <2>2 DEF Tab
<1>b. tab' = [tab EXCEPT ![t] = r]
  BY DEF TypeOK, Tab
<1>c. posts' \subseteq Request
  BY DEF TypeOK, Request, Post, Tab
<1>d. faults' \in Nat
  BY DEF TypeOK
<1>1. TypeOK'
  <2> HIDE DEF r, InputFailed
  <2> QED BY <1>a, <1>b, <1>c, <1>d, TabTypes DEF InputFailed
<1>2. SessionsHaveTabs'
  BY DEF TypeOK, SessionsHaveTabs, Given, Tab, NoShell
<1>3. RequestsAgree'
  BY DEF TypeOK, RequestsAgree, Over, Request, Post, Tab
<1>4. UnlistedIsOver'
  BY DEF TypeOK, UnlistedIsOver, Over, Tab, NoShell
<1>5. StreamsAgree'
  BY SMTT(30) DEF TypeOK, StreamsAgree, Over, Tab
<1>6. EndedIsOver'
  <2>1. PICK n \in 1 .. MaxInput : Post(t, "refused", n) \in posts
    OBVIOUS
  <2>2. Over(t) /\ tab[t].phase \in {"open", "closed"}
    BY <2>1 DEF RequestsAgree, Post
  <2>3. QED
    BY <2>2 DEF TypeOK, EndedIsOver, Over, Failed, Tab
<1>7. QED
  BY <1>1, <1>2, <1>3, <1>4, <1>5, <1>6

\* A step that keeps what a tab is, or ends its hope of a session, with requests of its
\* own that are gone.
LEMMA FaultKeeps ==
    ASSUME IInv, NEW t \in Tabs, NEW r \in Tab, tab' = [tab EXCEPT ![t] = r],
           UNCHANGED <<shell, listed>>, posts' \subseteq posts, faults' \in Nat,
           r.sid = tab[t].sid, r.disposed = tab[t].disposed,
           tab[t].fault \subseteq r.fault,
           \/ r.phase = tab[t].phase
           \/ tab[t].phase = "opening" /\ r.phase = "failed" /\ Post(t, "open", 0) \notin posts'
           \/ tab[t].phase = "opened" /\ r.phase = "lost",
           r.stream # "none" => tab[t].stream # "none" /\ r.phase = tab[t].phase,
           (r.wire = tab[t].wire /\ r.stream = tab[t].stream) \/ r.wire = <<>>,
           \/ r.ended = tab[t].ended /\ r.phase = tab[t].phase
           \/ r.ended = tab[t].ended /\ tab[t].phase \in {"opening", "opened"}
           \/ r.phase \in {"open", "closed"} /\ r.fault \cap {"input", "output"} # {}
    PROVE  IInv'
<1> USE DEF IInv
<1>1. TypeOK'
  BY TabTypes DEF TypeOK, Request
<1>2. \A u \in Tabs : tab'[u] = IF u = t THEN r ELSE tab[u]
  BY DEF TypeOK
<1>3. \A u \in Tabs : /\ tab'[u].sid = tab[u].sid /\ tab'[u].disposed = tab[u].disposed
                      /\ Over(u)' <=> Over(u)
  BY <1>2 DEF Over
<1>4. \A u \in Tabs : tab'[u].phase \in Given <=> tab[u].phase \in Given
  BY <1>2 DEF Given
<1>5. SessionsHaveTabs'
  BY <1>3, <1>4, RecordsTyped DEF SessionsHaveTabs
<1>6. \A m \in posts : m.tab \in Tabs
  BY DEF TypeOK, Request
<1>7. RequestsAgree'
  <2> SUFFICES ASSUME NEW m \in posts'
               PROVE  /\ m.kind = "open" => m.n = 0 /\ tab'[m.tab].phase = "opening"
                      /\ m.kind \in {"input", "refused"} => tab'[m.tab].phase \in {"open", "closed"}
                      /\ m.kind = "close" => tab'[m.tab].disposed
                      /\ m.kind = "refused" => Over(m.tab)'
    BY DEF RequestsAgree
  <2>1. /\ m \in posts /\ m.tab \in Tabs
        /\ m.kind = "open" => m.n = 0 /\ tab[m.tab].phase = "opening"
        /\ m.kind \in {"input", "refused"} => tab[m.tab].phase \in {"open", "closed"}
        /\ m.kind = "close" => tab[m.tab].disposed
        /\ m.kind = "refused" => Over(m.tab)
    BY <1>6 DEF RequestsAgree
  <2>2. m.tab = t /\ m.kind = "open" => r.phase = tab[t].phase
    <3>1. m.kind = "open" /\ m.tab = t => m = Post(t, "open", 0)
      BY <2>1 DEF TypeOK, Request, Post
    <3>2. QED
      BY <2>1, <3>1
  <2>3. QED
    BY <1>2, <1>3, <2>1, <2>2
<1>8. UnlistedIsOver'
  BY <1>3 DEF UnlistedIsOver
<1>9. StreamsAgree'
  BY <1>2, <1>3 DEF StreamsAgree
<1>10. EndedIsOver'
  <2>1. tab[t].ended => tab[t].phase \in {"open", "closed"} /\ (Over(t) \/ Failed(t))
    BY DEF EndedIsOver
  <2>2. r.ended => /\ r.phase \in {"open", "closed"}
                   /\ Over(t) \/ r.fault \cap {"input", "output"} # {}
    BY <2>1 DEF Failed
  <2>3. QED
    BY <1>2, <1>3, <2>2 DEF EndedIsOver, Failed
<1>11. QED
  BY <1>1, <1>5, <1>7, <1>8, <1>9, <1>10

LEMMA OpenFailsKeeps ==
    ASSUME IInv, NEW t \in Tabs, OpenFails(t), UNCHANGED <<shell, listed>>, faults' \in Nat
    PROVE  IInv'
<1> DEFINE r == [tab[t] EXCEPT
                   !.phase = IF @ = "opening" THEN "failed" ELSE "lost",
                   !.fault = @ \union {"open"}]
<1>1. /\ tab[t] \in Tab /\ tab' = [tab EXCEPT ![t] = r]
      /\ posts' = posts \ {Post(t, "open", 0)} /\ tab[t].phase \in {"opening", "opened"}
  BY DEF OpenFails, IInv, TypeOK
<1>2. tab[t].stream = "none" /\ ~tab[t].ended
  BY <1>1 DEF IInv, StreamsAgree, EndedIsOver
<1>3. /\ r \in Tab /\ r.sid = tab[t].sid /\ r.disposed = tab[t].disposed
      /\ r.stream = "none" /\ r.wire = tab[t].wire /\ r.ended = tab[t].ended
      /\ r.fault = tab[t].fault \union {"open"}
      /\ r.phase = IF tab[t].phase = "opening" THEN "failed" ELSE "lost"
  BY <1>1, <1>2 DEF Tab
<1> HIDE DEF r
<1>4. QED
  BY <1>1, <1>2, <1>3, FaultKeeps

LEMMA InputFailsKeeps ==
    ASSUME IInv, NEW t \in Tabs, InputFails(t), UNCHANGED <<shell, listed>>, faults' \in Nat
    PROVE  IInv'
<1> DEFINE r == [tab[t] EXCEPT !.ended = TRUE, !.fault = @ \union {"input"}]
<1>1. PICK n \in 1 .. MaxInput :
        Post(t, "input", n) \in posts /\ posts' = posts \ {Post(t, "input", n)}
  BY DEF InputFails
<1>2. tab[t] \in Tab /\ tab' = [tab EXCEPT ![t] = r]
  BY DEF InputFails, IInv, TypeOK
<1>3. tab[t].phase \in {"open", "closed"}
  BY <1>1 DEF IInv, RequestsAgree, Post
<1>4. /\ r \in Tab /\ r.sid = tab[t].sid /\ r.disposed = tab[t].disposed
      /\ r.stream = tab[t].stream /\ r.wire = tab[t].wire /\ r.phase = tab[t].phase
      /\ r.fault = tab[t].fault \union {"input"}
  BY <1>2 DEF Tab
<1> HIDE DEF r
<1>5. posts' \subseteq posts /\ tab[t].fault \subseteq r.fault
      /\ r.fault \cap {"input", "output"} # {}
  BY <1>1, <1>4
<1>6. QED
  BY <1>2, <1>3, <1>4, <1>5, FaultKeeps

LEMMA StreamFailsKeeps ==
    ASSUME IInv, NEW t \in Tabs, StreamFails(t), UNCHANGED <<shell, listed>>, faults' \in Nat
    PROVE  IInv'
<1>1. PICK told \in BOOLEAN :
        /\ posts' = posts \ {Post(t, "output", 0)}
        /\ tab' = IF tab[t].stream # "asking" THEN tab
                  ELSE [tab EXCEPT ![t].stream = "over", ![t].ended = @ \/ told,
                                   ![t].fault = @ \union {"output"}]
  BY DEF StreamFails
<1>2. tab \in [Tabs -> Tab] /\ tab[t] \in Tab
  BY DEF IInv, TypeOK
<1>3. CASE tab[t].stream # "asking"
  <2>1. tab' = [tab EXCEPT ![t] = tab[t]]
    BY <1>1, <1>2, <1>3
  <2>2. posts' \subseteq posts /\ tab[t].fault \subseteq tab[t].fault
    BY <1>1
  <2>3. QED
    BY <1>2, <2>1, <2>2, FaultKeeps
<1>4. CASE tab[t].stream = "asking"
  <2> DEFINE r == [tab[t] EXCEPT !.stream = "over", !.ended = @ \/ told,
                                 !.fault = @ \union {"output"}]
  <2>1. tab' = [tab EXCEPT ![t] = r]
    BY <1>1, <1>2, <1>4
  <2>2. /\ r \in Tab /\ r.sid = tab[t].sid /\ r.disposed = tab[t].disposed
        /\ r.stream = "over" /\ r.wire = tab[t].wire /\ r.phase = tab[t].phase
        /\ r.fault = tab[t].fault \union {"output"}
    BY <1>2 DEF Tab
  <2>3. tab[t].phase \in {"open", "closed"} /\ tab[t].wire = <<>>
    <3>1. tab[t].wire \in Seq(Frame) /\ \A i \in DOMAIN tab[t].wire : FALSE
      BY <1>2, <1>4 DEF IInv, StreamsAgree, Tab
    <3>2. 1 \notin DOMAIN tab[t].wire
      BY <3>1
    <3>3. QED
      BY <1>4, <3>1, <3>2 DEF IInv, StreamsAgree
  <2> HIDE DEF r
  <2>4. posts' \subseteq posts /\ tab[t].fault \subseteq r.fault
        /\ r.fault \cap {"input", "output"} # {}
    BY <1>1, <2>2
  <2>5. QED
    BY <1>4, <2>1, <2>2, <2>3, <2>4, FaultKeeps
<1>5. QED
  BY <1>3, <1>4

LEMMA FrameFailsKeeps ==
    ASSUME IInv, NEW t \in Tabs, FrameFails(t), UNCHANGED <<shell, listed>>, faults' \in Nat
    PROVE  IInv'
<1>1. PICK told \in BOOLEAN :
        tab' = [tab EXCEPT ![t].stream = "deaf", ![t].wire = <<>>, ![t].ended = @ \/ told,
                           ![t].fault = @ \union {"output"}]
  BY DEF FrameFails
<1> DEFINE r == [tab[t] EXCEPT !.stream = "deaf", !.wire = <<>>, !.ended = @ \/ told,
                               !.fault = @ \union {"output"}]
<1>2. /\ tab[t] \in Tab /\ tab' = [tab EXCEPT ![t] = r] /\ posts' = posts
      /\ tab[t].stream = "up" /\ tab[t].phase \in {"open", "closed"}
  BY <1>1 DEF FrameFails, IInv, TypeOK, StreamsAgree
<1>3. /\ r \in Tab /\ r.sid = tab[t].sid /\ r.disposed = tab[t].disposed
      /\ r.stream = "deaf" /\ r.wire = <<>> /\ r.phase = tab[t].phase
      /\ r.fault = tab[t].fault \union {"output"}
  BY <1>2, NothingIsSeq DEF Tab
<1> HIDE DEF r
<1>4. tab[t].fault \subseteq r.fault /\ r.fault \cap {"input", "output"} # {}
  BY <1>3
<1>5. QED
  BY <1>2, <1>3, <1>4, FaultKeeps

LEMMA CloseFailsKeeps ==
    ASSUME IInv, NEW t \in Tabs, CloseFails(t), UNCHANGED <<shell, listed>>, faults' \in Nat
    PROVE  IInv'
<1> DEFINE r == [tab[t] EXCEPT !.fault = @ \union {"close"}]
<1>1. /\ tab[t] \in Tab /\ tab' = [tab EXCEPT ![t] = r] /\ posts' \subseteq posts
  BY DEF CloseFails, IInv, TypeOK
<1>2. /\ r \in Tab /\ r.sid = tab[t].sid /\ r.disposed = tab[t].disposed
      /\ r.stream = tab[t].stream /\ r.wire = tab[t].wire /\ r.phase = tab[t].phase
      /\ r.ended = tab[t].ended /\ r.fault = tab[t].fault \union {"close"}
  BY <1>1 DEF Tab
<1> HIDE DEF r
<1>3. tab[t].fault \subseteq r.fault
  BY <1>2
<1>4. QED
  BY <1>1, <1>2, <1>3, FaultKeeps

LEMMA DropKeeps ==
    ASSUME IInv, NEW t \in Tabs, Drop(t), UNCHANGED <<shell, listed>>, faults' \in Nat
    PROVE  IInv'
<1> DEFINE r == [tab[t] EXCEPT !.stream = "over", !.wire = <<>>]
<1>1. /\ tab[t] \in Tab /\ tab' = [tab EXCEPT ![t] = r] /\ posts' = posts
      /\ tab[t].stream # "none"
  BY DEF Drop, IInv, TypeOK
<1>2. /\ r \in Tab /\ r.sid = tab[t].sid /\ r.disposed = tab[t].disposed
      /\ r.stream = "over" /\ r.wire = <<>> /\ r.phase = tab[t].phase
      /\ r.ended = tab[t].ended /\ r.fault = tab[t].fault
  BY <1>1, NothingIsSeq DEF Tab
<1> HIDE DEF r
<1>3. tab[t].fault \subseteq r.fault
  BY <1>2
<1>4. QED
  BY <1>1, <1>2, <1>3, FaultKeeps

LEMMA AnyFaultKeeps == ASSUME IInv, NEW t \in Tabs, Fault(t) PROVE IInv'
<1>1. UNCHANGED <<shell, listed>> /\ faults' \in Nat
  BY DEF Fault, IInv, TypeOK
<1>2. QED
  BY <1>1, OpenFailsKeeps, InputFailsKeeps, StreamFailsKeeps, FrameFailsKeeps,
     CloseFailsKeeps, DropKeeps DEF Fault

LEMMA DestroyKeeps == ASSUME IInv, NEW t \in Tabs, Destroy(t) PROVE IInv'
<1> USE DEF IInv, Destroy, Closed
<1> DEFINE r == LET gone == [tab[t] EXCEPT !.disposed = TRUE]
                   IN  IF tab[t].phase = "open" THEN Closed(gone) ELSE gone
<1>a. r \in Tab /\ r.sid = tab[t].sid
  <2>1. tab[t] \in Tab
    BY DEF TypeOK
  <2>2. <<>> \in Seq(Frame) /\ <<>> \in Seq(Nat)
    BY NothingIsSeq
  <2>3. QED
    BY <2>1, <2>2 DEF Tab
<1>b. tab' = [tab EXCEPT ![t] = r]
  BY DEF TypeOK, Tab
<1>c. posts' \subseteq Request
  BY DEF TypeOK, Request, Post, Tab
<1>d. faults' \in Nat
  BY DEF TypeOK
<1>1. TypeOK'
  <2> HIDE DEF r, Destroy, Closed
  <2> QED BY <1>a, <1>b, <1>c, <1>d, TabTypes DEF Destroy
<1>2. SessionsHaveTabs'
  BY DEF TypeOK, SessionsHaveTabs, Given, Tab, NoShell
<1>3. RequestsAgree'
  BY DEF TypeOK, RequestsAgree, Over, Request, Post, Tab
<1>4. UnlistedIsOver'
  BY DEF TypeOK, UnlistedIsOver, Over, Tab, NoShell
<1>5. StreamsAgree'
  BY DEF TypeOK, StreamsAgree, Over, Tab
<1>6. EndedIsOver'
  BY DEF TypeOK, EndedIsOver, Over, Failed, Tab
<1>7. QED
  BY <1>1, <1>2, <1>3, <1>4, <1>5, <1>6

LEMMA FrameReadKeeps == ASSUME IInv, NEW t \in Tabs, FrameRead(t) PROVE IInv'
<1> USE DEF IInv, FrameRead
<1> DEFINE r == Taken(tab[t])
<1>a. r \in Tab /\ r.sid = tab[t].sid
  <2>1. tab[t] \in Tab
    BY DEF TypeOK
  <2>2. <<>> \in Seq(Frame) /\ <<>> \in Seq(Nat)
    BY NothingIsSeq
  <2>3. QED
    <3>1. tab[t].wire \in Seq(Frame) /\ tab[t].seen \in Seq(Nat)
      BY <2>1 DEF Tab
    <3>2. Head(tab[t].wire) \in Frame /\ Tail(tab[t].wire) \in Seq(Frame)
      BY <3>1
    <3>3. Head(tab[t].wire).n \in Nat
      BY <3>2 DEF Frame
    <3>4. Append(tab[t].seen, Head(tab[t].wire).n) \in Seq(Nat)
      BY <3>1, <3>3
    <3>5. QED
      BY <2>1, <2>2, <3>2, <3>4 DEF Tab, Taken
<1>b. tab' = [tab EXCEPT ![t] = r]
  OBVIOUS
<1>c. posts' \subseteq Request
  BY DEF TypeOK, Request, Post, Tab
<1>d. faults' \in Nat
  BY DEF TypeOK
<1>1. TypeOK'
  <2> HIDE DEF r, FrameRead
  <2> QED BY <1>a, <1>b, <1>c, <1>d, TabTypes DEF FrameRead
<1>2. SessionsHaveTabs'
  BY DEF TypeOK, SessionsHaveTabs, Given, Tab, NoShell, Taken
<1>3. RequestsAgree'
  <2>1. \A u \in Tabs : /\ tab'[u].phase = tab[u].phase /\ tab'[u].sid = tab[u].sid
                      /\ tab'[u].disposed = tab[u].disposed
    BY <1>b DEF TypeOK, Tab, Taken
  <2>2. \A m \in posts : m.tab \in Tabs
    BY DEF TypeOK, Request
  <2>3. QED
    BY <2>1, <2>2 DEF RequestsAgree, Over
<1>4. UnlistedIsOver'
  BY DEF TypeOK, UnlistedIsOver, Over, Tab, NoShell, Taken
<1>5. StreamsAgree'
  <2>1. tab[t].wire \in Seq(Frame) /\ tab[t].wire # <<>>
    BY DEF TypeOK, Tab
  <2>2. \A i \in DOMAIN Tail(tab[t].wire) :
            i + 1 \in DOMAIN tab[t].wire /\ Tail(tab[t].wire)[i] = tab[t].wire[i + 1]
    BY <2>1
  <2>3. \A i \in DOMAIN r.wire : r.stream = "up" /\ (r.wire[i].kind = "exit" => Over(t))
    BY <2>2 DEF TypeOK, StreamsAgree, Tab, Taken
  <2>4. r.stream # "none" => r.phase \in {"open", "closed"}
    BY DEF TypeOK, StreamsAgree, Tab, Taken
  <2>5. r.disposed = tab[t].disposed /\ tab' = [tab EXCEPT ![t] = r] /\ tab \in [Tabs -> Tab]
    BY <1>b DEF TypeOK, Tab, Taken
  <2> HIDE DEF r, FrameRead
  <2>6. QED
    BY <2>3, <2>4, <2>5, <1>a DEF FrameRead, StreamsAgree, Over
<1>6. EndedIsOver'
  <2>1. tab[t].wire \in Seq(Frame) /\ tab[t].wire # <<>>
    BY DEF TypeOK, Tab
  <2>2. Head(tab[t].wire) \in Frame /\ 1 \in DOMAIN tab[t].wire
    BY <2>1
  <2>3. Head(tab[t].wire).kind # "output" => Over(t)
    BY <2>1, <2>2 DEF StreamsAgree, Frame
  <2>4. tab[t].phase \in {"open", "closed"}
    BY DEF StreamsAgree
  <2>5. QED
    BY <2>3, <2>4 DEF TypeOK, EndedIsOver, Over, Failed, Tab, Taken
<1>7. QED
  BY <1>1, <1>2, <1>3, <1>4, <1>5, <1>6

-----------------------------------------------------------------------------
(* The steps of the service.                                                 *)

\* A step that changes one record.
LEMMA RecordTypes ==
    ASSUME TypeOK, NEW s \in DOMAIN shell, NEW r \in Record, Len(r.pending) <= Buffer,
           shell' = [shell EXCEPT ![s] = r]
    PROVE  /\ shell' \in Seq(Record) /\ DOMAIN shell' = DOMAIN shell
           /\ \A u \in DOMAIN shell : Len(shell'[u].pending) <= Buffer
           /\ \A u \in DOMAIN shell : shell'[u] = IF u = s THEN r ELSE shell[u]
<1>1. shell \in Seq(Record) /\ \A u \in DOMAIN shell : Len(shell[u].pending) <= Buffer
  BY DEF TypeOK
<1>2. shell' \in Seq(Record) /\ DOMAIN shell' = DOMAIN shell
  BY <1>1
<1>3. \A u \in DOMAIN shell : shell'[u] = IF u = s THEN r ELSE shell[u]
  BY <1>1
<1>4. QED
  BY <1>1, <1>2, <1>3

\* A step that leaves the tabs' sessions alone and revives no shell.
LEMMA SameSessions ==
    ASSUME IInv, TypeOK', posts' \subseteq posts, DOMAIN shell' = DOMAIN shell,
           \A u \in Tabs : /\ tab'[u].sid = tab[u].sid /\ tab'[u].phase = tab[u].phase
                           /\ tab'[u].disposed = tab[u].disposed
                           /\ tab'[u].ended = tab[u].ended
                           /\ tab'[u].fault = tab[u].fault,
           \A s \in DOMAIN shell : /\ shell'[s].owner = shell[s].owner
                                   /\ shell[s].exited => shell'[s].exited
    PROVE  /\ SessionsHaveTabs' /\ RequestsAgree' /\ EndedIsOver'
           /\ \A u \in Tabs : tab[u].sid # NoShell /\ Over(u) => Over(u)'
<1> USE DEF IInv
<1>1. \A s \in DOMAIN shell : shell[s].owner \in Tabs
  BY RecordsTyped
<1>2. SessionsHaveTabs'
  <2>1. \A s \in DOMAIN shell' : tab'[shell'[s].owner].sid = s
    BY <1>1 DEF SessionsHaveTabs
  <2>2. \A u \in Tabs : tab'[u].sid # NoShell => shell'[tab'[u].sid].owner = u
    BY DEF TypeOK, SessionsHaveTabs
  <2>3. \A u \in Tabs : tab'[u].sid # NoShell <=> tab'[u].phase \in Given
    BY DEF SessionsHaveTabs
  <2>4. QED
    BY <2>1, <2>2, <2>3 DEF SessionsHaveTabs
<1>3. \A u \in Tabs : tab[u].sid # NoShell /\ Over(u) => Over(u)'
  BY DEF TypeOK, Over
<1>4. \A u \in Tabs : tab[u].phase \in {"open", "closed"} => tab[u].sid # NoShell
  BY DEF SessionsHaveTabs, Given
<1>5. RequestsAgree'
  BY <1>3, <1>4 DEF TypeOK, Request, RequestsAgree
<1>6. EndedIsOver'
  BY <1>3, <1>4 DEF EndedIsOver, Failed
<1>7. QED
  BY <1>2, <1>3, <1>5, <1>6

LEMMA InputArrivesKeeps == ASSUME IInv, NEW t \in Tabs, InputArrives(t) PROVE IInv'
<1> USE DEF IInv, InputArrives, Of
<1>1. PICK n \in 1 .. MaxInput :
        /\ Post(t, "input", n) \in posts
        /\ posts' = (posts \ {Post(t, "input", n)})
                        \union (IF Of(t) \in listed /\ ~shell[Of(t)].exited
                                THEN {} ELSE {Post(t, "refused", n)})
        /\ UNCHANGED <<tab, shell, listed, faults>>
  OBVIOUS
<1>2. tab[t].phase \in {"open", "closed"} /\ tab[t].sid # NoShell
  BY <1>1 DEF RequestsAgree, Post, SessionsHaveTabs, Given
<1>3. ~(Of(t) \in listed /\ ~shell[Of(t)].exited) => Over(t)
  BY <1>2 DEF UnlistedIsOver, Over
<1>4. posts' \subseteq Request /\ TypeOK'
  BY <1>1, TerminalAssumption DEF TypeOK, Request, Post
<1>5. RequestsAgree'
  BY <1>1, <1>2, <1>3 DEF RequestsAgree, Over, Post
<1>6. SessionsHaveTabs' /\ UnlistedIsOver' /\ StreamsAgree' /\ EndedIsOver'
  BY <1>1 DEF SessionsHaveTabs, UnlistedIsOver, StreamsAgree, EndedIsOver, Over, Failed
<1>7. QED
  BY <1>4, <1>5, <1>6

LEMMA CloseArrivesKeeps == ASSUME IInv, NEW t \in Tabs, CloseArrives(t) PROVE IInv'
<1> USE DEF IInv
<1>1. tab[t].disposed /\ posts' \subseteq posts /\ tab' = tab /\ faults' = faults
  BY DEF CloseArrives, RequestsAgree, Post
<1>2. CASE Of(t) \in listed
  <2> DEFINE r == [shell[Of(t)] EXCEPT !.killed = TRUE, !.pending = <<>>]
  <2>1. Of(t) \in DOMAIN shell
    BY <1>2 DEF TypeOK
  <2>2. r \in Record /\ Len(r.pending) <= Buffer /\ r.owner = shell[Of(t)].owner
        /\ r.exited = shell[Of(t)].exited
    <3>1. shell[Of(t)] \in Record
      BY <2>1, RecordsTyped
    <3>2. <<>> \in Seq(Nat) /\ Len(<<>>) <= Buffer
      BY NothingIsSeq, TerminalAssumption
    <3>3. QED
      BY <3>1, <3>2 DEF Record
  <2>3. shell' = [shell EXCEPT ![Of(t)] = r]
    BY <1>2, <2>1 DEF CloseArrives, TypeOK
  <2>4. listed' = listed \ {Of(t)}
    BY <1>2 DEF CloseArrives
  <2>5. Cardinality(listed') <= MaxShells
    <3>1. IsFiniteSet(listed)
      <4>1. listed \subseteq 1 .. Len(shell)
        BY DEF TypeOK
      <4>2. QED
        BY <4>1, FS_Interval, FS_Subset DEF TypeOK
    <3>2. Cardinality(listed') <= Cardinality(listed)
      BY <3>1, <2>4, FS_Subset
    <3>3. QED
      BY <3>1, <3>2, <2>4, FS_CardinalityType, FS_Subset, TerminalAssumption DEF TypeOK
  <2> HIDE DEF r
  <2>6. /\ shell' \in Seq(Record) /\ DOMAIN shell' = DOMAIN shell
        /\ \A u \in DOMAIN shell : Len(shell'[u].pending) <= Buffer
        /\ \A u \in DOMAIN shell : shell'[u] = IF u = Of(t) THEN r ELSE shell[u]
    BY <2>1, <2>2, <2>3, RecordTypes
  <2>7. TypeOK'
    BY <1>1, <2>4, <2>5, <2>6 DEF TypeOK
  <2>8. /\ SessionsHaveTabs' /\ RequestsAgree' /\ EndedIsOver'
        /\ \A u \in Tabs : tab[u].sid # NoShell /\ Over(u) => Over(u)'
    <3>1. \A s \in DOMAIN shell : /\ shell'[s].owner = shell[s].owner
                                  /\ shell[s].exited => shell'[s].exited
      BY <2>2, <2>6
    <3>2. QED
      BY <1>1, <2>6, <2>7, <3>1, SameSessions
  <2>9. UnlistedIsOver'
    <3>1. \A u \in Tabs : tab[u].sid = Of(t) => u = t
      BY <2>1 DEF SessionsHaveTabs, Of, TypeOK, NoShell
    <3>2. Over(t)'
      BY <1>1 DEF Over
    <3>3. QED
      BY <1>1, <2>4, <2>8, <3>1, <3>2 DEF UnlistedIsOver
  <2>10. StreamsAgree'
    <3>1. \A u \in Tabs : tab[u].stream = "up" => tab[u].sid # NoShell
      BY DEF StreamsAgree, SessionsHaveTabs, Given
    <3>2. QED
      BY <1>1, <2>8, <3>1 DEF StreamsAgree
  <2>11. QED
    BY <2>7, <2>8, <2>9, <2>10
<1>3. CASE Of(t) \notin listed
  <2>1. shell' = shell /\ listed' = listed
    BY <1>3 DEF CloseArrives
  <2>2. QED
    BY <1>1, <2>1 DEF TypeOK, SessionsHaveTabs, RequestsAgree, UnlistedIsOver,
                      StreamsAgree, EndedIsOver, Over, Failed
<1>4. QED
  BY <1>2, <1>3

\* What a subscriber is sent at once are frames, with an exit only of a shell that ended.
LEMMA BacklogIsFrames ==
    ASSUME TypeOK, NEW s \in DOMAIN shell
    PROVE  /\ Backlog(s) \in Seq(Frame)
           /\ \A i \in DOMAIN Backlog(s) : Backlog(s)[i].kind = "exit" => shell[s].exited
<1> DEFINE out == [i \in DOMAIN shell[s].pending |-> Output(shell[s].pending[i])]
           end == IF shell[s].exited THEN <<Exit>> ELSE <<>>
<1>1. shell[s].pending \in Seq(Nat)
  BY RecordsTyped DEF Record
<1>2. \A n \in Nat : Output(n) \in Frame /\ Output(n).kind = "output"
  BY DEF Output, Frame
<1>3. out \in Seq(Frame) /\ \A i \in DOMAIN out : out[i].kind = "output"
  BY <1>1, <1>2
<1>4. Exit \in Frame
  BY DEF Exit, Frame
<1>5. end \in Seq(Frame) /\ (Len(end) > 0 => shell[s].exited)
  BY <1>4
<1>6. Backlog(s) = out \o end
  BY DEF Backlog
<1> HIDE DEF out, end
<1>7. QED
  BY <1>3, <1>5, <1>6

LEMMA StreamArrivesKeeps == ASSUME IInv, NEW t \in Tabs, StreamArrives(t) PROVE IInv'
<1> USE DEF IInv
<1> DEFINE s == tab[t].sid
           sent == IF s \in listed THEN Backlog(s) ELSE <<>>
           a == IF tab[t].stream # "asking" THEN tab[t]
                ELSE [tab[t] EXCEPT !.stream = "up", !.wire = sent]
           b == [shell[s] EXCEPT !.pending = <<>>, !.watched = TRUE]
<1>1. posts' \subseteq posts /\ listed' = listed /\ faults' = faults
  BY DEF StreamArrives
<1>2. sent \in Seq(Frame) /\ \A i \in DOMAIN sent : sent[i].kind = "exit" => Over(t)
  BY BacklogIsFrames, NothingIsSeq DEF TypeOK, Over
<1>3. tab[t] \in Tab /\ tab \in [Tabs -> Tab]
  BY DEF TypeOK
<1>4. tab' = [tab EXCEPT ![t] = a]
  <2>1. CASE tab[t].stream # "asking"
    BY <2>1, <1>3 DEF StreamArrives, Of
  <2>2. CASE tab[t].stream = "asking"
    BY <2>2, <1>3 DEF StreamArrives, Of
  <2>3. QED
    BY <2>1, <2>2
<1> HIDE DEF sent
<1>5. /\ a \in Tab /\ a.sid = tab[t].sid /\ a.phase = tab[t].phase
      /\ a.disposed = tab[t].disposed /\ a.ended = tab[t].ended /\ a.fault = tab[t].fault
  BY <1>2, <1>3 DEF Tab
<1>6. /\ shell' \in Seq(Record) /\ DOMAIN shell' = DOMAIN shell
      /\ \A u \in DOMAIN shell : /\ Len(shell'[u].pending) <= Buffer
                                 /\ shell'[u].owner = shell[u].owner
                                 /\ shell'[u].exited = shell[u].exited
  <2>1. CASE s \in listed
    <3>1. s \in DOMAIN shell
      BY <2>1 DEF TypeOK
    <3>2. shell[s] \in Record /\ <<>> \in Seq(Nat) /\ Len(<<>>) <= Buffer
      BY <3>1, RecordsTyped, NothingIsSeq, TerminalAssumption
    <3>3. /\ b \in Record /\ Len(b.pending) <= Buffer /\ b.owner = shell[s].owner
          /\ b.exited = shell[s].exited
      BY <3>2 DEF Record
    <3>4. shell' = [shell EXCEPT ![s] = b]
      BY <2>1, <3>1 DEF StreamArrives, Of, TypeOK
    <3> HIDE DEF b
    <3>5. QED
      BY <3>1, <3>3, <3>4, RecordTypes
  <2>2. CASE s \notin listed
    BY <2>2 DEF StreamArrives, Of, TypeOK
  <2>3. QED
    BY <2>1, <2>2
<1>7. \A u \in Tabs : tab'[u] = IF u = t THEN a ELSE tab[u]
  BY <1>3, <1>4
<1>8. a.stream # "none" => tab[t].phase \in {"open", "closed"}
  BY <1>3 DEF StreamsAgree
<1>9. \A i \in DOMAIN a.wire : a.stream = "up" /\ (a.wire[i].kind = "exit" => Over(t))
  BY <1>2, <1>3 DEF StreamsAgree, Tab
<1> HIDE DEF a, b, s
<1>10. TypeOK'
  BY <1>1, <1>3, <1>4, <1>5, <1>6, <1>7 DEF TypeOK
<1>11. /\ SessionsHaveTabs' /\ RequestsAgree' /\ EndedIsOver'
       /\ \A u \in Tabs : tab[u].sid # NoShell /\ Over(u) => Over(u)'
  <2>1. \A u \in Tabs : /\ tab'[u].sid = tab[u].sid /\ tab'[u].phase = tab[u].phase
                        /\ tab'[u].disposed = tab[u].disposed /\ tab'[u].ended = tab[u].ended
                        /\ tab'[u].fault = tab[u].fault
    BY <1>5, <1>7
  <2>2. QED
    BY <1>1, <1>6, <1>10, <2>1, SameSessions
<1>12. UnlistedIsOver'
  BY <1>1, <1>5, <1>7, <1>11 DEF UnlistedIsOver
<1>13. StreamsAgree'
  <2>1. \A u \in Tabs : tab[u].stream # "none" => tab[u].sid # NoShell
    BY DEF StreamsAgree, SessionsHaveTabs, Given
  <2>2. a.stream # "none" => tab[t].sid # NoShell
    BY <1>8 DEF SessionsHaveTabs, Given
  <2>3. QED
    BY <1>5, <1>7, <1>8, <1>9, <1>11, <2>1, <2>2 DEF StreamsAgree
<1>14. QED
  BY <1>10, <1>11, <1>12, <1>13

\* A frame that is sent goes to the end of the wire of the shell's own tab.
LEMMA SentIsLast ==
    ASSUME IInv, NEW s \in DOMAIN shell, NEW frame \in Frame
    PROVE  LET sent == Sent(s, frame) IN
           /\ sent \in [Tabs -> Tab]
           /\ \A u \in Tabs :
                /\ sent[u].sid = tab[u].sid /\ sent[u].phase = tab[u].phase
                /\ sent[u].disposed = tab[u].disposed /\ sent[u].ended = tab[u].ended
                /\ sent[u].stream = tab[u].stream /\ sent[u].fault = tab[u].fault
                /\ \A i \in DOMAIN sent[u].wire :
                     \/ i \in DOMAIN tab[u].wire /\ sent[u].wire[i] = tab[u].wire[i]
                     \/ tab[u].stream = "up" /\ tab[u].sid = s /\ sent[u].wire[i] = frame
<1> DEFINE t == shell[s].owner
           r == [tab[t] EXCEPT !.wire = Append(@, frame)]
<1>1. t \in Tabs /\ tab \in [Tabs -> Tab] /\ tab[t].sid = s
  BY RecordsTyped DEF IInv, TypeOK, SessionsHaveTabs
<1>2. tab[t] \in Tab /\ tab[t].wire \in Seq(Frame)
  BY <1>1 DEF Tab
<1>3. /\ Append(tab[t].wire, frame) \in Seq(Frame)
      /\ \A i \in DOMAIN Append(tab[t].wire, frame) :
           \/ i \in DOMAIN tab[t].wire /\ Append(tab[t].wire, frame)[i] = tab[t].wire[i]
           \/ Append(tab[t].wire, frame)[i] = frame
  BY <1>2
<1>4. /\ r \in Tab /\ r.sid = tab[t].sid /\ r.phase = tab[t].phase
      /\ r.disposed = tab[t].disposed /\ r.ended = tab[t].ended /\ r.stream = tab[t].stream
      /\ r.wire = Append(tab[t].wire, frame) /\ r.fault = tab[t].fault
  BY <1>2, <1>3 DEF Tab
<1>5. CASE shell[s].watched /\ tab[t].stream = "up"
  <2>1. Sent(s, frame) = [tab EXCEPT ![t] = r]
    BY <1>1, <1>5 DEF Sent
  <2> HIDE DEF r, t
  <2>2. ASSUME NEW u \in Tabs, u # t PROVE Sent(s, frame)[u] = tab[u]
    BY <1>1, <2>1, <2>2
  <2>3. Sent(s, frame)[t] = r /\ Sent(s, frame) \in [Tabs -> Tab]
    BY <1>1, <1>4, <2>1
  <2>4. tab[t].stream = "up"
    BY <1>5
  <2> DEFINE out == Sent(s, frame)
  <2> HIDE DEF out
  <2>5. ASSUME NEW u \in Tabs
        PROVE  /\ out[u].sid = tab[u].sid /\ out[u].phase = tab[u].phase
               /\ out[u].disposed = tab[u].disposed /\ out[u].ended = tab[u].ended
               /\ out[u].stream = tab[u].stream /\ out[u].fault = tab[u].fault
               /\ \A i \in DOMAIN out[u].wire :
                    \/ i \in DOMAIN tab[u].wire /\ out[u].wire[i] = tab[u].wire[i]
                    \/ tab[u].stream = "up" /\ tab[u].sid = s /\ out[u].wire[i] = frame
    <3>1. CASE u = t
      <4>1. out[t] = r
        BY <2>3 DEF out
      <4>2. QED
        BY <1>1, <1>3, <1>4, <2>4, <3>1, <4>1
    <3>2. CASE u # t
      <4>1. out[u] = tab[u]
        BY <2>2, <3>2 DEF out
      <4>2. QED
        BY <4>1
    <3>3. QED
      BY <3>1, <3>2
  <2>6. out \in [Tabs -> Tab]
    BY <2>3 DEF out
  <2>7. QED
    BY <2>5, <2>6, Zenon DEF out
<1>6. CASE ~(shell[s].watched /\ tab[t].stream = "up")
  <2>1. Sent(s, frame) = tab
    BY <1>6 DEF Sent
  <2>2. QED
    BY <1>1, <2>1
<1>7. QED
  BY <1>5, <1>6

\* A step of one shell, which may send one frame.
LEMMA ShellStepKeeps ==
    ASSUME IInv, NEW s \in DOMAIN shell, NEW r \in Record, Len(r.pending) <= Buffer,
           r.owner = shell[s].owner, shell[s].exited => r.exited,
           NEW frame \in Frame, frame.kind = "exit" => r.exited,
           shell' = [shell EXCEPT ![s] = r], tab' = tab \/ tab' = Sent(s, frame),
           UNCHANGED <<posts, listed, faults>>
    PROVE  IInv'
<1> USE DEF IInv
<1>1. /\ shell' \in Seq(Record) /\ DOMAIN shell' = DOMAIN shell
      /\ \A u \in DOMAIN shell : Len(shell'[u].pending) <= Buffer
      /\ \A u \in DOMAIN shell : shell'[u] = IF u = s THEN r ELSE shell[u]
  BY RecordTypes
<1>2. /\ tab' \in [Tabs -> Tab]
      /\ \A u \in Tabs :
           /\ tab'[u].sid = tab[u].sid /\ tab'[u].phase = tab[u].phase
           /\ tab'[u].disposed = tab[u].disposed /\ tab'[u].ended = tab[u].ended
           /\ tab'[u].stream = tab[u].stream /\ tab'[u].fault = tab[u].fault
           /\ \A i \in DOMAIN tab'[u].wire :
                \/ i \in DOMAIN tab[u].wire /\ tab'[u].wire[i] = tab[u].wire[i]
                \/ tab[u].stream = "up" /\ tab[u].sid = s /\ tab'[u].wire[i] = frame
  <2>1. CASE tab' = tab
    BY <2>1 DEF TypeOK
  <2>2. CASE tab' = Sent(s, frame)
    BY <2>2, SentIsLast
  <2>3. QED
    BY <2>1, <2>2
<1>3. TypeOK'
  BY <1>1, <1>2 DEF TypeOK
<1>4. /\ SessionsHaveTabs' /\ RequestsAgree' /\ EndedIsOver'
      /\ \A u \in Tabs : tab[u].sid # NoShell /\ Over(u) => Over(u)'
  <2>1. \A u \in DOMAIN shell : /\ shell'[u].owner = shell[u].owner
                                /\ shell[u].exited => shell'[u].exited
    BY <1>1
  <2>2. QED
    BY <1>1, <1>2, <1>3, <2>1, SameSessions
<1>5. UnlistedIsOver'
  BY <1>2, <1>4 DEF UnlistedIsOver
<1>6. StreamsAgree'
  <2>1. \A u \in Tabs : tab[u].stream = "up" => tab[u].sid # NoShell
    BY DEF StreamsAgree, SessionsHaveTabs, Given
  <2>2. \A u \in Tabs : tab[u].sid = s /\ r.exited => Over(u)'
    BY <1>1, <1>2 DEF Over
  <2>3. QED
    BY <1>2, <1>4, <2>1, <2>2 DEF StreamsAgree
<1>7. QED
  BY <1>3, <1>4, <1>5, <1>6

LEMMA DetachKeeps == ASSUME IInv, NEW s \in DOMAIN shell, Detach(s) PROVE IInv'
<1> DEFINE r == [shell[s] EXCEPT !.watched = FALSE]
<1>1. shell[s] \in Record /\ Len(shell[s].pending) <= Buffer /\ Exit \in Frame
  BY RecordsTyped DEF IInv, TypeOK, Exit, Frame
<1>2. /\ r \in Record /\ r.pending = shell[s].pending /\ r.owner = shell[s].owner
      /\ r.exited = shell[s].exited
  BY <1>1 DEF Record
<1>3. shell' = [shell EXCEPT ![s] = r] /\ UNCHANGED <<tab, posts, listed, faults>>
  BY DEF Detach
<1>4. Output(0) \in Frame /\ Output(0).kind = "output"
  BY DEF Output, Frame
<1> HIDE DEF r
<1>5. QED
  BY <1>1, <1>2, <1>3, <1>4, ShellStepKeeps

LEMMA EndsKeeps == ASSUME IInv, NEW s \in DOMAIN shell, Ends(s) PROVE IInv'
<1> DEFINE r == [shell[s] EXCEPT !.exited = TRUE]
<1>1. shell[s] \in Record /\ Len(shell[s].pending) <= Buffer /\ Exit \in Frame
  BY RecordsTyped DEF IInv, TypeOK, Exit, Frame
<1>2. /\ r \in Record /\ r.pending = shell[s].pending /\ r.owner = shell[s].owner
      /\ r.exited
  BY <1>1 DEF Record
<1>3. shell' = [shell EXCEPT ![s] = r] /\ tab' = Sent(s, Exit)
      /\ UNCHANGED <<posts, listed, faults>>
  BY DEF Ends
<1> HIDE DEF r
<1>4. QED
  BY <1>1, <1>2, <1>3, ShellStepKeeps

LEMMA WriteKeeps == ASSUME IInv, NEW s \in DOMAIN shell, Write(s) PROVE IInv'
<1> DEFINE n == shell[s].wrote + 1
           p == IF shell[s].watched \/ s \notin listed
                THEN shell[s].pending ELSE Buffered(shell[s].pending, n)
           r == [shell[s] EXCEPT !.wrote = n, !.pending = p]
<1>1. shell[s] \in Record /\ Len(shell[s].pending) <= Buffer
  BY RecordsTyped DEF IInv, TypeOK
<1>2. n \in Nat /\ shell[s].pending \in Seq(Nat)
  BY <1>1 DEF Record
<1>3. p \in Seq(Nat) /\ Len(p) <= Buffer
  <2> HIDE DEF n
  <2>1. Append(shell[s].pending, n) \in Seq(Nat)
    BY <1>2
  <2>2. Tail(Append(shell[s].pending, n)) \in Seq(Nat)
        /\ Len(Tail(Append(shell[s].pending, n))) = Len(shell[s].pending)
    BY <1>2, <2>1
  <2>3. QED
    BY <1>1, <1>2, <2>1, <2>2, TerminalAssumption DEF Buffered
<1>4. /\ r \in Record /\ r.pending = p /\ r.owner = shell[s].owner
      /\ r.exited = shell[s].exited
  <2> HIDE DEF p, n
  <2>1. QED
    BY <1>1, <1>2, <1>3 DEF Record
<1>5. Output(n) \in Frame /\ Output(n).kind = "output"
  BY <1>2 DEF Output, Frame
<1>6. shell' = [shell EXCEPT ![s] = r] /\ tab' = Sent(s, Output(n))
      /\ UNCHANGED <<posts, listed, faults>>
  BY DEF Write
<1> HIDE DEF r, p, n
<1>7. QED
  BY <1>3, <1>4, <1>5, <1>6, ShellStepKeeps

\* A request to open finds a tab without a session, and the sweep takes only what ended.
LEMMA OpeningIsNew ==
    ASSUME IInv, NEW t \in Tabs, Post(t, "open", 0) \in posts
    PROVE  /\ tab[t].phase = "opening" /\ tab[t].sid = NoShell /\ tab[t].stream = "none"
           /\ tab[t].wire = <<>> /\ ~tab[t].ended
           /\ \A m \in posts \ {Post(t, "open", 0)} : m.tab = t => m.kind \in {"close", "output"}
           /\ \A s \in DOMAIN shell : shell[s].owner # t
<1> USE DEF IInv
<1>1. tab[t].phase = "opening"
  BY DEF RequestsAgree, Post
<1>2. tab[t].sid = NoShell /\ tab[t].stream = "none" /\ ~tab[t].ended
  BY <1>1 DEF SessionsHaveTabs, StreamsAgree, EndedIsOver, Given
<1>3. tab[t].wire = <<>>
  <2>1. tab[t].wire \in Seq(Frame)
    BY DEF TypeOK, Tab
  <2>2. \A i \in DOMAIN tab[t].wire : FALSE
    BY <1>2 DEF StreamsAgree
  <2>3. 1 \notin DOMAIN tab[t].wire
    BY <2>2
  <2>4. QED
    BY <2>1, <2>3
<1>4. \A m \in posts \ {Post(t, "open", 0)} : m.tab = t => m.kind \in {"close", "output"}
  <2>1. \A m \in posts : m.tab = t /\ m.kind = "open" => m = Post(t, "open", 0)
    BY DEF TypeOK, Request, RequestsAgree, Post
  <2>2. \A m \in posts : m.tab = t => m.kind \notin {"input", "refused"}
    BY <1>1 DEF RequestsAgree
  <2>3. QED
    BY <2>1, <2>2 DEF TypeOK, Request
<1>5. \A s \in DOMAIN shell : shell[s].owner # t
  <2>1. \A s \in DOMAIN shell : s # NoShell
    BY DEF TypeOK, NoShell
  <2>2. QED
    BY <1>2, <2>1 DEF SessionsHaveTabs
<1>6. QED
  BY <1>1, <1>2, <1>3, <1>4, <1>5

LEMMA SweptIsOver ==
    ASSUME TypeOK
    PROVE  /\ Swept \subseteq listed /\ IsFiniteSet(Swept)
           /\ Cardinality(Swept) \in Nat /\ Cardinality(Swept) <= MaxShells
           /\ \A s \in listed \ Swept : shell[s].exited
<1>1. Swept \subseteq listed /\ \A s \in listed \ Swept : shell[s].exited
  BY DEF Swept
<1>2. IsFiniteSet(listed)
  <2>1. listed \subseteq 1 .. Len(shell) /\ Len(shell) \in Int
    BY DEF TypeOK
  <2>2. IsFiniteSet(1 .. Len(shell))
    BY <2>1, FS_Interval
  <2>3. QED
    BY <2>1, <2>2, FS_Subset
<1>3. IsFiniteSet(Swept) /\ Cardinality(Swept) <= Cardinality(listed)
  BY <1>1, <1>2, FS_Subset
<1>4. Cardinality(Swept) \in Nat /\ Cardinality(listed) \in Nat
  BY <1>2, <1>3, FS_CardinalityType
<1>5. QED
  BY <1>1, <1>3, <1>4, TerminalAssumption DEF TypeOK

\* A request to open, refused or not: what holds of every other tab stays.
LEMMA OpenArrivesKeeps == ASSUME IInv, NEW t \in Tabs, OpenArrives(t) PROVE IInv'
<1> USE DEF IInv
<1> DEFINE s == Len(shell) + 1
<1>1. /\ Post(t, "open", 0) \in posts /\ posts' = posts \ {Post(t, "open", 0)}
      /\ faults' = faults
  BY DEF OpenArrives
<1>2. /\ tab[t].phase = "opening" /\ tab[t].sid = NoShell /\ tab[t].stream = "none"
      /\ tab[t].wire = <<>> /\ ~tab[t].ended
      /\ \A m \in posts' : m.tab = t => m.kind \in {"close", "output"}
      /\ \A u \in DOMAIN shell : shell[u].owner # t
  BY <1>1, OpeningIsNew
<1>3. /\ Swept \subseteq listed /\ IsFiniteSet(Swept)
      /\ Cardinality(Swept) \in Nat /\ Cardinality(Swept) <= MaxShells
      /\ \A u \in listed \ Swept : shell[u].exited
  BY SweptIsOver
<1>4. /\ tab \in [Tabs -> Tab] /\ tab[t] \in Tab /\ shell \in Seq(Record)
      /\ Len(shell) \in Nat /\ DOMAIN shell = 1 .. Len(shell) /\ s \notin DOMAIN shell
  BY DEF TypeOK
<1>5. \A m \in posts : m.tab \in Tabs
  BY DEF TypeOK, Request
<1>6. \A u \in DOMAIN shell : shell[u].owner \in Tabs
  BY RecordsTyped
<1>7. CASE Full
  <2> DEFINE r == [tab[t] EXCEPT !.phase = "failed"]
  <2>1. tab' = [tab EXCEPT ![t] = r] /\ shell' = shell /\ listed' = Swept
    BY <1>4, <1>7 DEF OpenArrives
  <2>2. /\ r \in Tab /\ r.sid = NoShell /\ r.stream = "none" /\ r.wire = <<>> /\ ~r.ended
        /\ r.phase = "failed" /\ r.disposed = tab[t].disposed
    BY <1>2, <1>4 DEF Tab
  <2> HIDE DEF r
  <2>3. \A u \in Tabs : tab'[u] = IF u = t THEN r ELSE tab[u]
    BY <1>4, <2>1
  <2>4. TypeOK'
    BY <1>1, <1>3, <1>4, <2>1, <2>2, <2>3 DEF TypeOK
  <2>5. SessionsHaveTabs'
    BY <1>2, <1>6, <2>1, <2>2, <2>3 DEF SessionsHaveTabs, Given
  <2>6. RequestsAgree'
    BY <1>1, <1>2, <1>5, <2>1, <2>2, <2>3 DEF RequestsAgree, Over
  <2>7. UnlistedIsOver'
    BY <1>3, <2>1, <2>2, <2>3 DEF UnlistedIsOver, Over
  <2>8. StreamsAgree' /\ EndedIsOver'
    BY <2>1, <2>2, <2>3 DEF StreamsAgree, EndedIsOver, Over, Failed
  <2>9. QED
    BY <2>4, <2>5, <2>6, <2>7, <2>8
<1>8. CASE ~Full
  <2> DEFINE r == [tab[t] EXCEPT !.phase = "opened", !.sid = s]
  <2>1. /\ tab' = [tab EXCEPT ![t] = r] /\ shell' = Append(shell, Session(t))
        /\ listed' = Swept \union {s}
    BY <1>4, <1>8 DEF OpenArrives
  <2>2. /\ r \in Tab /\ r.sid = s /\ r.stream = "none" /\ r.wire = <<>> /\ ~r.ended
        /\ r.phase = "opened" /\ r.disposed = tab[t].disposed
    <3>1. s \in Nat
      BY <1>4
    <3> HIDE DEF s
    <3>2. QED
      BY <1>2, <1>4, <3>1 DEF Tab
  <2>3. Session(t) \in Record /\ Session(t).pending = <<>> /\ Session(t).owner = t
    BY NothingIsSeq DEF Session, Record
  <2> HIDE DEF r
  <2>4. \A u \in Tabs : tab'[u] = IF u = t THEN r ELSE tab[u]
    BY <1>4, <2>1
  <2>5. /\ shell' \in Seq(Record) /\ DOMAIN shell' = DOMAIN shell \union {s}
        /\ shell'[s] = Session(t) /\ \A u \in DOMAIN shell : shell'[u] = shell[u]
    BY <1>4, <2>1, <2>3
  <2>6. Cardinality(listed') <= MaxShells
    <3> HIDE DEF s
    <3>1. Cardinality(listed') = IF s \in Swept THEN Cardinality(Swept)
                                 ELSE Cardinality(Swept) + 1
      BY <1>3, <2>1, FS_AddElement
    <3>2. Cardinality(listed') <= Cardinality(Swept) + 1
      BY <1>3, <3>1
    <3>3. Cardinality(Swept) < MaxShells
      BY <1>3, <1>8, TerminalAssumption DEF Full
    <3>4. QED
      BY <1>3, <3>1, <3>2, <3>3, TerminalAssumption
  <2>7. \A u \in Tabs : tab[u].sid # NoShell => tab[u].sid \in DOMAIN shell
    BY DEF TypeOK
  <2>8. s # NoShell
    BY <1>4 DEF NoShell
  <2>9. TypeOK'
    <3>1. listed' \subseteq DOMAIN shell'
      BY <1>3, <2>1, <2>5 DEF TypeOK
    <3>2. \A u \in DOMAIN shell' : Len(shell'[u].pending) <= Buffer
      BY <2>3, <2>5, TerminalAssumption DEF TypeOK
    <3>3. \A u \in Tabs : tab'[u].sid \in DOMAIN shell' \union {NoShell}
      BY <2>2, <2>4, <2>5, <2>7
    <3>4. tab' \in [Tabs -> Tab] /\ posts' \subseteq Request /\ faults' \in Nat
      BY <1>1, <1>4, <2>1, <2>2 DEF TypeOK
    <3>5. QED
      BY <2>5, <2>6, <3>1, <3>2, <3>3, <3>4 DEF TypeOK
  <2>10. \A u \in Tabs : tab[u].sid # NoShell /\ Over(u) => Over(u)' /\ u # t
    BY <1>2, <2>4, <2>5, <2>7 DEF Over
  <2> HIDE DEF s
  <2>11. SessionsHaveTabs'
    <3>1. \A u \in DOMAIN shell' : tab'[shell'[u].owner].sid = u
      BY <1>2, <1>6, <2>2, <2>3, <2>4, <2>5 DEF SessionsHaveTabs
    <3>2. \A u \in Tabs : tab'[u].sid # NoShell => shell'[tab'[u].sid].owner = u
      BY <2>2, <2>3, <2>4, <2>5, <2>7 DEF SessionsHaveTabs
    <3>3. \A u \in Tabs : tab'[u].sid # NoShell <=> tab'[u].phase \in Given
      BY <2>2, <2>4, <2>8 DEF SessionsHaveTabs, Given
    <3>4. QED
      BY <3>1, <3>2, <3>3 DEF SessionsHaveTabs
  <2>12. \A u \in Tabs : tab[u].phase \in {"open", "closed"} => tab[u].sid # NoShell
    BY DEF SessionsHaveTabs, Given
  <2>13. RequestsAgree'
    BY <1>1, <1>2, <1>5, <2>2, <2>4, <2>10, <2>12 DEF RequestsAgree
  <2>14. UnlistedIsOver'
    <3>1. \A u \in Tabs : u # t /\ tab[u].sid \notin {NoShell} \union Swept => Over(u)
      BY <1>3 DEF UnlistedIsOver, Over
    <3>2. QED
      BY <2>1, <2>2, <2>4, <2>10, <3>1 DEF UnlistedIsOver
  <2>15. StreamsAgree' /\ EndedIsOver'
    BY <2>2, <2>4, <2>10, <2>12 DEF StreamsAgree, EndedIsOver, Failed
  <2>16. QED
    BY <2>9, <2>11, <2>13, <2>14, <2>15
<1>9. QED
  BY <1>7, <1>8

-----------------------------------------------------------------------------
(* The invariant and its theorems.                                           *)

LEMMA InitKeeps == Init => IInv
<1> SUFFICES ASSUME Init PROVE IInv
  OBVIOUS
<1>1. Tab0 \in Tab /\ shell \in Seq(Record) /\ DOMAIN shell = {}
  BY NothingIsSeq DEF Init, Tab0, Tab, NoShell
<1>2. Cardinality(listed) <= MaxShells
  BY FS_EmptySet, TerminalAssumption DEF Init
<1>3. TypeOK
  BY <1>1, <1>2 DEF Init, TypeOK, Tab0
<1>4. \A t \in Tabs : tab[t] = Tab0 /\ DOMAIN tab[t].wire = {}
  BY DEF Init, Tab0
<1>5. SessionsHaveTabs /\ UnlistedIsOver /\ StreamsAgree /\ EndedIsOver
  BY <1>1, <1>4 DEF SessionsHaveTabs, UnlistedIsOver, StreamsAgree, EndedIsOver, Tab0, Given
<1>6. RequestsAgree
  BY DEF Init, RequestsAgree
<1>7. QED
  BY <1>3, <1>5, <1>6 DEF IInv

LEMMA NextKeeps == IInv /\ [Next]_vars => IInv'
<1> SUFFICES ASSUME IInv, [Next]_vars PROVE IInv'
  OBVIOUS
<1>1. CASE UNCHANGED vars
  BY <1>1 DEF vars, IInv, TypeOK, SessionsHaveTabs, RequestsAgree, UnlistedIsOver,
              StreamsAgree, EndedIsOver, Over, Failed
<1>2. ASSUME NEW t \in Tabs, StartTab(t) \/ Type(t) \/ Destroy(t) \/ Fault(t)
      PROVE  IInv'
  BY <1>2, StartTabKeeps, TypeKeeps, DestroyKeeps, AnyFaultKeeps
<1>3. ASSUME NEW t \in Tabs, Handled(t)
      PROVE  IInv'
  BY <1>3, OpenArrivesKeeps, OpenAnsweredKeeps, InputArrivesKeeps, InputFailedKeeps,
     CloseArrivesKeeps, StreamArrivesKeeps, FrameReadKeeps DEF Handled
<1>4. ASSUME NEW s \in DOMAIN shell, Write(s) \/ Ends(s) \/ Detach(s)
      PROVE  IInv'
  BY <1>4, WriteKeeps, EndsKeeps, DetachKeeps
<1>5. QED
  BY <1>1, <1>2, <1>3, <1>4 DEF Next

\* Every reachable state of the terminal satisfies the inductive invariant.
THEOREM TerminalInvariance == Spec => []IInv
<1> QED
  BY InitKeeps, NextKeeps, PTL DEF Spec

\* The service never keeps more records than it allows, nor a buffer past its bound
\* (service.ts open, deliver).
THEOREM TerminalTypeCorrect == Spec => []TypeOK
<1>1. IInv => TypeOK
  BY DEF IInv
<1> QED
  BY TerminalInvariance, <1>1, PTL

\* No tab that is still there shows a session as ended whose shell runs, unless one of
\* its own requests or frames failed, in whatever order requests arrive and the service
\* sweeps (service.ts open, finish; terminal.ts reportOnce, watchOutput).
THEOREM EndedOnlyByExitOrFault == Spec => []EndedByExitOrFault
<1>1. IInv => EndedByExitOrFault
  BY DEF IInv, EndedIsOver, Over, Failed, EndedByExitOrFault, Of
<1> QED
  BY TerminalInvariance, <1>1, PTL

-----------------------------------------------------------------------------
(* What is still to come of a shell's output.                                *)

\* The pieces of q end with the shell's n-th, without a gap.
RunsTo(q, n) ==
    /\ n > 0 => q # <<>>
    /\ \A i \in DOMAIN q : q[i] = n - Len(q) + i

\* What was seen and then what is on the wire end with the shell's last piece: first
\* k pieces of output, then at most the exit of a shell that ended.
Carries(wire, seen, n, exited) ==
    \E k \in 0 .. Len(wire) :
        /\ k # Len(wire) => exited /\ Len(wire) = k + 1 /\ wire[k + 1].kind # "output"
        /\ \A i \in 1 .. k : wire[i] = Output(n - k + i)
        /\ \A i \in DOMAIN seen : seen[i] = n - k - Len(seen) + i
        /\ n > 0 => Len(seen) + k > 0

\* Where the rest of the output of h is, for its tab r: in the buffer until the stream
\* is there, then on the wire, and at the end with the tab.
RestOf(r, h, kept) ==
    /\ r.stream \in {"none", "asking"}
           => ~h.watched /\ (kept => RunsTo(h.pending, h.wrote))
    /\ r.stream = "up"
           => IF h.watched THEN Carries(r.wire, r.seen, h.wrote, h.exited) ELSE r.wire = <<>>
    /\ r.stream = "unread" => h.exited /\ RunsTo(r.seen, h.wrote)

TabRest(t) ==
    /\ tab[t].stream \in {"none", "asking"} => tab[t].seen = <<>>
    /\ tab[t].stream \in {"asking", "up"} => ~tab[t].disposed
    /\ Post(t, "output", 0) \in posts => tab[t].stream \in {"asking", "over"}
    /\ tab[t].sid # NoShell => RestOf(tab[t], shell[tab[t].sid], tab[t].sid \in listed)

Rest == \A t \in Tabs : TabRest(t)

LEMMA BufferRunsOn ==
    ASSUME NEW q \in Seq(Nat), NEW n \in Nat, RunsTo(q, n)
    PROVE  RunsTo(Buffered(q, n + 1), n + 1)
<1> DEFINE all == Append(q, n + 1)
<1>1. /\ all \in Seq(Nat) /\ Len(all) = Len(q) + 1 /\ Len(q) \in Nat
      /\ \A i \in DOMAIN all : all[i] = IF i = Len(q) + 1 THEN n + 1 ELSE q[i]
  OBVIOUS
<1>2. \A i \in DOMAIN all : all[i] = (n + 1) - Len(all) + i
  BY <1>1 DEF RunsTo
<1> HIDE DEF all
<1>3. CASE Len(all) > Buffer
  <2> DEFINE rest == Tail(all)
  <2>1. Buffer \in Nat \ {0} /\ all # <<>>
    BY <1>1, TerminalAssumption
  <2>2. /\ rest \in Seq(Nat) /\ Len(rest) = Len(q) /\ DOMAIN rest = 1 .. Len(q)
        /\ \A i \in 1 .. Len(q) : rest[i] = all[i + 1]
    BY <1>1, <2>1
  <2> HIDE DEF rest
  <2>3. \A i \in 1 .. Len(q) : i + 1 \in DOMAIN all
    BY <1>1
  <2>4. \A i \in DOMAIN rest : rest[i] = (n + 1) - Len(rest) + i
    <3> TAKE i \in DOMAIN rest
    <3>1. rest[i] = all[i + 1] /\ i \in Nat /\ all[i + 1] = (n + 1) - Len(all) + (i + 1)
      BY <1>1, <1>2, <2>2, <2>3, SMTT(30)
    <3>2. QED
      BY <1>1, <2>2, <3>1
  <2>6. Len(q) > 0
    BY <1>1, <1>3, <2>1
  <2>7. rest # <<>>
    BY <2>2, <2>6
  <2>8. Buffered(q, n + 1) = rest
    BY <1>3 DEF Buffered, all, rest
  <2>9. QED
    BY <2>4, <2>7, <2>8 DEF RunsTo
<1>4. CASE ~(Len(all) > Buffer)
  <2>1. Buffered(q, n + 1) = all
    BY <1>4 DEF Buffered, all
  <2>2. all # <<>>
    BY <1>1
  <2>3. QED
    BY <1>2, <2>1, <2>2 DEF RunsTo
<1>5. QED
  BY <1>3, <1>4

\* A piece that is sent.
LEMMA WireRunsOn ==
    ASSUME NEW wire \in Seq(Frame), NEW seen \in Seq(Nat), NEW n \in Nat,
           Carries(wire, seen, n, FALSE)
    PROVE  Carries(Append(wire, Output(n + 1)), seen, n + 1, FALSE)
<1> DEFINE all == Append(wire, Output(n + 1))
           m == Len(wire) + 1
<1>1. /\ Len(wire) \in Nat /\ Len(all) = m /\ all[m] = Output(n + 1)
      /\ \A i \in 1 .. Len(wire) : all[i] = wire[i]
  OBVIOUS
<1>2. /\ \A i \in 1 .. Len(wire) : wire[i] = Output(n - Len(wire) + i)
      /\ \A i \in DOMAIN seen : seen[i] = n - Len(wire) - Len(seen) + i
  BY DEF Carries
<1> HIDE DEF all
<1>3. \A i \in 1 .. m : all[i] = Output((n + 1) - m + i)
  <2> TAKE i \in 1 .. m
  <2>1. CASE i = m
    <3>1. (n + 1) - m + i = n + 1
      BY <1>1, <2>1
    <3>2. QED
      BY <1>1, <2>1, <3>1
  <2>2. CASE i # m
    <3>1. i \in 1 .. Len(wire) /\ (n + 1) - m + i = n - Len(wire) + i
      BY <1>1, <2>2
    <3>2. QED
      BY <1>1, <1>2, <3>1
  <2>3. QED
    BY <2>1, <2>2
<1>4. \A i \in DOMAIN seen : seen[i] = (n + 1) - m - Len(seen) + i
  BY <1>1, <1>2
<1>5. Len(seen) + m > 0 /\ m \in 0 .. Len(all) /\ m = Len(all)
  BY <1>1
<1> HIDE DEF m
<1>6. QED
  BY <1>3, <1>4, <1>5 DEF Carries, all

\* The exit that is sent.
LEMMA WireEnds ==
    ASSUME NEW wire \in Seq(Frame), NEW seen \in Seq(Nat), NEW n \in Nat,
           Carries(wire, seen, n, FALSE)
    PROVE  Carries(Append(wire, Exit), seen, n, TRUE)
<1> DEFINE all == Append(wire, Exit)
           m == Len(wire)
<1>1. /\ m \in Nat /\ Len(all) = m + 1 /\ all[m + 1] = Exit
      /\ \A i \in 1 .. m : all[i] = wire[i]
  OBVIOUS
<1>2. Exit.kind # "output"
  BY DEF Exit
<1>3. /\ \A i \in 1 .. m : wire[i] = Output(n - m + i)
      /\ \A i \in DOMAIN seen : seen[i] = n - m - Len(seen) + i
      /\ n > 0 => Len(seen) + m > 0
  BY DEF Carries
<1> HIDE DEF all
<1>4. \A i \in 1 .. m : all[i] = Output(n - m + i)
  BY <1>1, <1>3
<1>5. m \in 0 .. Len(all)
  BY <1>1
<1> HIDE DEF m
<1>6. QED
  BY <1>1, <1>2, <1>3, <1>4, <1>5 DEF Carries, all

\* A frame that is read.
LEMMA WireIsRead ==
    ASSUME NEW wire \in Seq(Frame), wire # <<>>, NEW seen \in Seq(Nat), NEW n \in Nat,
           NEW exited \in BOOLEAN, Carries(wire, seen, n, exited)
    PROVE  IF Head(wire).kind = "output"
           THEN Carries(Tail(wire), Append(seen, Head(wire).n), n, exited)
           ELSE exited /\ RunsTo(seen, n)
<1>1. /\ Len(wire) \in Nat \ {0} /\ Head(wire) = wire[1] /\ Len(seen) \in Nat
      /\ Tail(wire) \in Seq(Frame) /\ Len(Tail(wire)) = Len(wire) - 1
      /\ \A i \in 1 .. Len(wire) - 1 : Tail(wire)[i] = wire[i + 1]
  OBVIOUS
<1>2. PICK k \in 0 .. Len(wire) :
        /\ k # Len(wire) => exited /\ Len(wire) = k + 1 /\ wire[k + 1].kind # "output"
        /\ \A i \in 1 .. k : wire[i] = Output(n - k + i)
        /\ \A i \in DOMAIN seen : seen[i] = n - k - Len(seen) + i
        /\ n > 0 => Len(seen) + k > 0
  BY DEF Carries
<1>3. k \in Nat /\ k <= Len(wire)
  <2>1. k \in 0 .. Len(wire) /\ Len(wire) \in Nat
    BY <1>1
  <2>2. QED
    BY <2>1
<1>4. \A i \in Int : Output(i).kind = "output" /\ Output(i).n = i
  BY DEF Output
<1>5. CASE k = 0
  <2>1. wire[1].kind # "output" /\ exited
    BY <1>1, <1>2, <1>5
  <2>2. \A i \in DOMAIN seen : seen[i] = n - Len(seen) + i
    BY <1>1, <1>2, <1>5
  <2>3. n > 0 => seen # <<>>
    BY <1>1, <1>2, <1>5
  <2>4. QED
    BY <1>1, <2>1, <2>2, <2>3 DEF RunsTo
<1>6. CASE k # 0
  <2> DEFINE all == Append(seen, n - k + 1)
             w == Tail(wire)
             j == k - 1
  <2>1. wire[1] = Output(n - k + 1) /\ n - k + 1 \in Int
    BY <1>2, <1>3, <1>6
  <2>2. Head(wire).kind = "output" /\ Head(wire).n = n - k + 1
    BY <1>1, <1>4, <2>1
  <2>3. /\ Len(all) = Len(seen) + 1 /\ DOMAIN all = 1 .. Len(seen) + 1
        /\ \A i \in 1 .. Len(seen) + 1 : all[i] = IF i = Len(seen) + 1 THEN n - k + 1 ELSE seen[i]
    BY <1>1, <2>1
  <2>4. j \in 0 .. Len(w)
    BY <1>1, <1>3, <1>6
  <2>5. \A i \in 1 .. j : w[i] = Output(n - j + i)
    <3> TAKE i \in 1 .. j
    <3>1. i + 1 \in 1 .. k /\ i \in 1 .. Len(wire) - 1 /\ n - k + (i + 1) = n - j + i
      BY <1>1, <1>3
    <3>2. QED
      BY <1>1, <1>2, <3>1
  <2>6. \A i \in DOMAIN all : all[i] = n - j - Len(all) + i
    <3> TAKE i \in DOMAIN all
    <3>1. i \in 1 .. Len(seen) + 1
      BY <2>3
    <3>2. CASE i = Len(seen) + 1
      BY <1>1, <1>3, <2>3, <3>1, <3>2
    <3>3. CASE i # Len(seen) + 1
      <4>1. i \in DOMAIN seen
        BY <1>1, <3>1, <3>3
      <4>2. all[i] = seen[i] /\ seen[i] = n - k - Len(seen) + i
        BY <1>2, <2>3, <3>1, <3>3, <4>1
      <4>3. QED
        BY <1>1, <1>3, <2>3, <3>1, <4>2
    <3>4. QED
      BY <3>2, <3>3
  <2>7. j # Len(w) => exited /\ Len(w) = j + 1 /\ w[j + 1].kind # "output"
    <3> SUFFICES ASSUME j # Len(w)
                 PROVE  exited /\ Len(w) = j + 1 /\ w[j + 1].kind # "output"
      OBVIOUS
    <3>1. exited /\ Len(wire) = k + 1 /\ wire[k + 1].kind # "output"
      BY <1>1, <1>2, <1>3
    <3>2. w[k] = wire[k + 1] /\ k = j + 1 /\ Len(w) = k
      BY <1>1, <1>3, <1>6, <3>1
    <3>3. QED
      BY <3>1, <3>2
  <2>8. n > 0 => Len(all) + j > 0
    BY <1>1, <1>3, <1>6, <2>3
  <2> HIDE DEF all, w, j
  <2>9. Carries(w, all, n, exited)
    BY <2>4, <2>5, <2>6, <2>7, <2>8 DEF Carries
  <2>10. QED
    BY <2>2, <2>9 DEF all, w
<1>7. QED
  BY <1>5, <1>6

\* What a new subscriber is sent carries what the buffer holds.
LEMMA BacklogCarries ==
    ASSUME TypeOK, NEW s \in DOMAIN shell, RunsTo(shell[s].pending, shell[s].wrote)
    PROVE  Carries(Backlog(s), <<>>, shell[s].wrote, shell[s].exited)
<1> DEFINE p == shell[s].pending
           n == shell[s].wrote
           out == [i \in DOMAIN p |-> Output(p[i])]
           end == IF shell[s].exited THEN <<Exit>> ELSE <<>>
           k == Len(p)
<1>1. p \in Seq(Nat) /\ n \in Nat /\ shell[s].exited \in BOOLEAN
  BY RecordsTyped DEF Record
<1>2. (n > 0 => p # <<>>) /\ \A i \in DOMAIN p : p[i] = n - k + i
  BY DEF RunsTo
<1> HIDE DEF p, n
<1>3. \A i \in Nat : Output(i) \in Frame
  BY DEF Output, Frame
<1>4. out \in Seq(Frame) /\ Len(out) = k /\ k \in Nat
      /\ \A i \in 1 .. k : out[i] = Output(n - k + i)
  BY <1>1, <1>2, <1>3
<1>5. Exit \in Frame /\ Exit.kind # "output"
  BY DEF Exit, Frame
<1>6. CASE shell[s].exited
  <2>1. end = <<Exit>>
    BY <1>6
  <2>2. Backlog(s) = out \o <<Exit>>
    BY <2>1 DEF Backlog, p
  <2> HIDE DEF out
  <2>3. /\ Len(out \o <<Exit>>) = k + 1 /\ (out \o <<Exit>>)[k + 1] = Exit
        /\ \A i \in 1 .. k : (out \o <<Exit>>)[i] = out[i]
    BY <1>4, <1>5
  <2>4. (n > 0 => k > 0) /\ Len(<<>>) = 0 /\ k \in 0 .. k + 1 /\ DOMAIN <<>> = {}
    BY <1>1, <1>2, <1>4
  <2> HIDE DEF k
  <2>5. QED
    BY <1>4, <1>5, <1>6, <2>2, <2>3, <2>4 DEF Carries, n
<1>7. CASE ~shell[s].exited
  <2>1. end = <<>>
    BY <1>7
  <2>2. Backlog(s) = out \o <<>>
    BY <2>1 DEF Backlog, p
  <2> HIDE DEF out
  <2>3. Backlog(s) = out
    BY <1>4, <2>2
  <2>4. (n > 0 => k > 0) /\ Len(<<>>) = 0 /\ k \in 0 .. k /\ DOMAIN <<>> = {}
    BY <1>1, <1>2, <1>4
  <2> HIDE DEF k
  <2>5. QED
    BY <1>4, <2>3, <2>4 DEF Carries, n
<1>8. QED
  BY <1>6, <1>7

\* A step of one tab and its shell leaves what is still to come for the others.
LEMMA OthersRest ==
    ASSUME IInv, Rest, NEW t \in Tabs, TabRest(t)',
           \A u \in Tabs \ {t} :
               /\ tab'[u] = tab[u]
               /\ Post(u, "output", 0) \in posts' => Post(u, "output", 0) \in posts,
           \A s \in DOMAIN shell :
               /\ shell[s].owner # t => shell'[s] = shell[s]
               /\ s \in listed' => s \in listed
    PROVE  Rest'
<1> SUFFICES ASSUME NEW u \in Tabs, u # t PROVE TabRest(u)'
  BY DEF Rest
<1>1. TabRest(u) /\ tab'[u] = tab[u]
  BY DEF Rest
<1>2. /\ tab[u].stream \in {"none", "asking"} => tab[u].seen = <<>>
      /\ tab[u].stream \in {"asking", "up"} => ~tab[u].disposed
      /\ Post(u, "output", 0) \in posts' => tab[u].stream \in {"asking", "over"}
  BY <1>1 DEF TabRest
<1>3. ASSUME tab[u].sid # NoShell
      PROVE  RestOf(tab[u], shell'[tab[u].sid], tab[u].sid \in listed')
  <2>1. tab[u].sid \in DOMAIN shell /\ shell[tab[u].sid].owner = u
    BY <1>3 DEF IInv, TypeOK, SessionsHaveTabs
  <2>2. shell'[tab[u].sid] = shell[tab[u].sid] /\ (tab[u].sid \in listed' => tab[u].sid \in listed)
    BY <2>1
  <2>3. RestOf(tab[u], shell[tab[u].sid], tab[u].sid \in listed)
    BY <1>1, <1>3 DEF TabRest
  <2>4. QED
    BY <2>2, <2>3 DEF RestOf
<1>4. QED
  BY <1>1, <1>2, <1>3 DEF TabRest

\* A step of one tab that leaves its shell alone.
LEMMA TabStepRest ==
    ASSUME IInv, Rest, NEW t \in Tabs, NEW r, tab' = [tab EXCEPT ![t] = r],
           UNCHANGED <<shell, listed>>, r.sid = tab[t].sid,
           \A u \in Tabs \ {t} :
               Post(u, "output", 0) \in posts' => Post(u, "output", 0) \in posts,
           r.stream \in {"none", "asking"} => r.seen = <<>>,
           r.stream \in {"asking", "up"} => ~r.disposed,
           Post(t, "output", 0) \in posts' => r.stream \in {"asking", "over"},
           tab[t].sid # NoShell => RestOf(r, shell[tab[t].sid], tab[t].sid \in listed)
    PROVE  Rest'
<1>1. tab \in [Tabs -> Tab]
  BY DEF IInv, TypeOK
<1>2. \A u \in Tabs : tab'[u] = IF u = t THEN r ELSE tab[u]
  BY <1>1
<1>3. TabRest(t)'
  BY <1>2 DEF TabRest
<1>4. QED
  BY <1>2, <1>3, OthersRest

\* The same, when neither the stream nor what came of it changes.
LEMMA QuietTabRest ==
    ASSUME IInv, Rest, NEW t \in Tabs, NEW r, tab' = [tab EXCEPT ![t] = r],
           UNCHANGED <<shell, listed>>, r.sid = tab[t].sid,
           \A u \in Tabs : Post(u, "output", 0) \in posts' => Post(u, "output", 0) \in posts,
           r.stream = tab[t].stream, r.wire = tab[t].wire, r.seen = tab[t].seen,
           r.stream \in {"asking", "up"} => r.disposed = tab[t].disposed
    PROVE  Rest'
<1>1. TabRest(t)
  BY DEF Rest
<1>2. tab[t].sid # NoShell => RestOf(r, shell[tab[t].sid], tab[t].sid \in listed)
  BY <1>1 DEF TabRest, RestOf
<1>3. /\ r.stream \in {"none", "asking"} => r.seen = <<>>
      /\ r.stream \in {"asking", "up"} => ~r.disposed
      /\ Post(t, "output", 0) \in posts' => r.stream \in {"asking", "over"}
  BY <1>1 DEF TabRest
<1>4. QED
  BY <1>2, <1>3, TabStepRest

LEMMA StartTabRest == ASSUME IInv, Rest, NEW t \in Tabs, StartTab(t) PROVE Rest'
<1> DEFINE r == [tab[t] EXCEPT !.phase = "opening"]
<1>1. tab[t] \in Tab /\ tab' = [tab EXCEPT ![t] = r] /\ UNCHANGED <<shell, listed>>
  BY DEF StartTab, IInv, TypeOK
<1>2. /\ r.sid = tab[t].sid /\ r.stream = tab[t].stream /\ r.wire = tab[t].wire
      /\ r.seen = tab[t].seen /\ r.disposed = tab[t].disposed
  BY <1>1 DEF Tab
<1>3. \A u \in Tabs : Post(u, "output", 0) \in posts' => Post(u, "output", 0) \in posts
  BY DEF StartTab, Post
<1> HIDE DEF r
<1>4. QED
  BY <1>1, <1>2, <1>3, QuietTabRest

LEMMA TypeRest == ASSUME IInv, Rest, NEW t \in Tabs, Type(t) PROVE Rest'
<1> DEFINE r == [tab[t] EXCEPT !.typed = @ + 1]
<1>1. tab[t] \in Tab /\ tab' = [tab EXCEPT ![t] = r] /\ UNCHANGED <<shell, listed>>
  BY DEF Type, IInv, TypeOK
<1>2. /\ r.sid = tab[t].sid /\ r.stream = tab[t].stream /\ r.wire = tab[t].wire
      /\ r.seen = tab[t].seen /\ r.disposed = tab[t].disposed
  BY <1>1 DEF Tab
<1>3. \A u \in Tabs : Post(u, "output", 0) \in posts' => Post(u, "output", 0) \in posts
  BY DEF Type, Post
<1> HIDE DEF r
<1>4. QED
  BY <1>1, <1>2, <1>3, QuietTabRest

LEMMA InputFailedRest == ASSUME IInv, Rest, NEW t \in Tabs, InputFailed(t) PROVE Rest'
<1> DEFINE r == [tab[t] EXCEPT !.ended = TRUE]
<1>1. tab[t] \in Tab /\ tab' = [tab EXCEPT ![t] = r] /\ UNCHANGED <<shell, listed>>
  BY DEF InputFailed, IInv, TypeOK
<1>2. /\ r.sid = tab[t].sid /\ r.stream = tab[t].stream /\ r.wire = tab[t].wire
      /\ r.seen = tab[t].seen /\ r.disposed = tab[t].disposed
  BY <1>1 DEF Tab
<1>3. \A u \in Tabs : Post(u, "output", 0) \in posts' => Post(u, "output", 0) \in posts
  BY DEF InputFailed, Post
<1> HIDE DEF r
<1>4. QED
  BY <1>1, <1>2, <1>3, QuietTabRest

LEMMA InputArrivesRest == ASSUME IInv, Rest, NEW t \in Tabs, InputArrives(t) PROVE Rest'
<1>1. tab \in [Tabs -> Tab] /\ UNCHANGED <<tab, shell, listed>>
  BY DEF InputArrives, IInv, TypeOK
<1>2. tab' = [tab EXCEPT ![t] = tab[t]]
  BY <1>1
<1>3. \A u \in Tabs : Post(u, "output", 0) \in posts' => Post(u, "output", 0) \in posts
  BY DEF InputArrives, Post
<1>4. QED
  BY <1>1, <1>2, <1>3, QuietTabRest

\* A stream that is over carries nothing.
LEMMA OverRests == \A r, h, kept : r.stream = "over" => RestOf(r, h, kept)
BY DEF RestOf

\* A stream nobody reads any more holds nothing of the rest.
LEMMA DeafRests == \A r, h, kept : r.stream = "deaf" => RestOf(r, h, kept)
BY DEF RestOf

LEMMA OpenFailsRest ==
    ASSUME IInv, Rest, NEW t \in Tabs, OpenFails(t), UNCHANGED <<shell, listed>>
    PROVE  Rest'
<1> DEFINE r == [tab[t] EXCEPT
                   !.phase = IF @ = "opening" THEN "failed" ELSE "lost",
                   !.fault = @ \union {"open"}]
<1>1. tab[t] \in Tab /\ tab' = [tab EXCEPT ![t] = r]
  BY DEF OpenFails, IInv, TypeOK
<1>2. /\ r.sid = tab[t].sid /\ r.stream = tab[t].stream /\ r.wire = tab[t].wire
      /\ r.seen = tab[t].seen /\ r.disposed = tab[t].disposed
  BY <1>1 DEF Tab
<1>3. \A u \in Tabs : Post(u, "output", 0) \in posts' => Post(u, "output", 0) \in posts
  BY DEF OpenFails
<1> HIDE DEF r
<1>4. QED
  BY <1>1, <1>2, <1>3, QuietTabRest

LEMMA InputFailsRest ==
    ASSUME IInv, Rest, NEW t \in Tabs, InputFails(t), UNCHANGED <<shell, listed>>
    PROVE  Rest'
<1> DEFINE r == [tab[t] EXCEPT !.ended = TRUE, !.fault = @ \union {"input"}]
<1>1. tab[t] \in Tab /\ tab' = [tab EXCEPT ![t] = r]
  BY DEF InputFails, IInv, TypeOK
<1>2. /\ r.sid = tab[t].sid /\ r.stream = tab[t].stream /\ r.wire = tab[t].wire
      /\ r.seen = tab[t].seen /\ r.disposed = tab[t].disposed
  BY <1>1 DEF Tab
<1>3. \A u \in Tabs : Post(u, "output", 0) \in posts' => Post(u, "output", 0) \in posts
  BY DEF InputFails
<1> HIDE DEF r
<1>4. QED
  BY <1>1, <1>2, <1>3, QuietTabRest

LEMMA StreamFailsRest ==
    ASSUME IInv, Rest, NEW t \in Tabs, StreamFails(t), UNCHANGED <<shell, listed>>
    PROVE  Rest'
<1>1. PICK told \in BOOLEAN :
        /\ posts' = posts \ {Post(t, "output", 0)}
        /\ tab' = IF tab[t].stream # "asking" THEN tab
                  ELSE [tab EXCEPT ![t].stream = "over", ![t].ended = @ \/ told,
                                   ![t].fault = @ \union {"output"}]
  BY DEF StreamFails
<1>2. tab \in [Tabs -> Tab] /\ tab[t] \in Tab
  BY DEF IInv, TypeOK
<1>3. \A u \in Tabs : Post(u, "output", 0) \in posts' => Post(u, "output", 0) \in posts
  BY <1>1
<1>4. CASE tab[t].stream # "asking"
  <2>1. tab' = [tab EXCEPT ![t] = tab[t]]
    BY <1>1, <1>2, <1>4
  <2>2. QED
    BY <1>3, <2>1, QuietTabRest
<1>5. CASE tab[t].stream = "asking"
  <2> DEFINE r == [tab[t] EXCEPT !.stream = "over", !.ended = @ \/ told,
                                 !.fault = @ \union {"output"}]
  <2>1. tab' = [tab EXCEPT ![t] = r]
    BY <1>1, <1>2, <1>5
  <2>2. r.sid = tab[t].sid /\ r.stream = "over"
    BY <1>2 DEF Tab
  <2> HIDE DEF r
  <2>3. QED
    BY <1>3, <2>1, <2>2, OverRests, TabStepRest
<1>6. QED
  BY <1>4, <1>5

LEMMA FrameFailsRest ==
    ASSUME IInv, Rest, NEW t \in Tabs, FrameFails(t), UNCHANGED <<shell, listed>>
    PROVE  Rest'
<1>1. PICK told \in BOOLEAN :
        tab' = [tab EXCEPT ![t].stream = "deaf", ![t].wire = <<>>, ![t].ended = @ \/ told,
                           ![t].fault = @ \union {"output"}]
  BY DEF FrameFails
<1> DEFINE r == [tab[t] EXCEPT !.stream = "deaf", !.wire = <<>>, !.ended = @ \/ told,
                               !.fault = @ \union {"output"}]
<1>2. /\ tab[t] \in Tab /\ tab' = [tab EXCEPT ![t] = r] /\ posts' = posts
      /\ tab[t].stream = "up" /\ TabRest(t)
  BY <1>1 DEF FrameFails, IInv, TypeOK, Rest
<1>3. r.sid = tab[t].sid /\ r.stream = "deaf"
  BY <1>2 DEF Tab
<1> HIDE DEF r
<1>4. Post(t, "output", 0) \notin posts'
  BY <1>2 DEF TabRest
<1>5. QED
  BY <1>2, <1>3, <1>4, DeafRests, TabStepRest

LEMMA CloseFailsRest ==
    ASSUME IInv, Rest, NEW t \in Tabs, CloseFails(t), UNCHANGED <<shell, listed>>
    PROVE  Rest'
<1> DEFINE r == [tab[t] EXCEPT !.fault = @ \union {"close"}]
<1>1. tab[t] \in Tab /\ tab' = [tab EXCEPT ![t] = r]
  BY DEF CloseFails, IInv, TypeOK
<1>2. /\ r.sid = tab[t].sid /\ r.stream = tab[t].stream /\ r.wire = tab[t].wire
      /\ r.seen = tab[t].seen /\ r.disposed = tab[t].disposed
  BY <1>1 DEF Tab
<1>3. \A u \in Tabs : Post(u, "output", 0) \in posts' => Post(u, "output", 0) \in posts
  BY DEF CloseFails
<1> HIDE DEF r
<1>4. QED
  BY <1>1, <1>2, <1>3, QuietTabRest

LEMMA DropRest ==
    ASSUME IInv, Rest, NEW t \in Tabs, Drop(t), UNCHANGED <<shell, listed>>
    PROVE  Rest'
<1> DEFINE r == [tab[t] EXCEPT !.stream = "over", !.wire = <<>>]
<1>1. tab[t] \in Tab /\ tab' = [tab EXCEPT ![t] = r]
  BY DEF Drop, IInv, TypeOK
<1>2. r.sid = tab[t].sid /\ r.stream = "over"
  BY <1>1 DEF Tab
<1>3. \A u \in Tabs : Post(u, "output", 0) \in posts' => Post(u, "output", 0) \in posts
  BY DEF Drop
<1> HIDE DEF r
<1>4. QED
  BY <1>1, <1>2, <1>3, OverRests, TabStepRest

LEMMA AnyFaultRest == ASSUME IInv, Rest, NEW t \in Tabs, Fault(t) PROVE Rest'
BY OpenFailsRest, InputFailsRest, StreamFailsRest, FrameFailsRest, CloseFailsRest, DropRest
   DEF Fault

LEMMA DestroyRest == ASSUME IInv, Rest, NEW t \in Tabs, Destroy(t) PROVE Rest'
<1> DEFINE r == LET gone == [tab[t] EXCEPT !.disposed = TRUE]
                IN  IF tab[t].phase = "open" THEN Closed(gone) ELSE gone
<1>1. tab[t] \in Tab /\ tab' = [tab EXCEPT ![t] = r] /\ UNCHANGED <<shell, listed>>
  BY DEF Destroy, IInv, TypeOK
<1>2. \A u \in Tabs : Post(u, "output", 0) \in posts' => Post(u, "output", 0) \in posts
  BY DEF Destroy, Post
<1>3. CASE tab[t].phase = "open"
  <2>1. r.sid = tab[t].sid /\ r.stream = "over"
    BY <1>1, <1>3 DEF Tab, Closed
  <2> HIDE DEF r
  <2>2. QED
    BY <1>1, <1>2, <2>1, OverRests, TabStepRest
<1>4. CASE tab[t].phase # "open"
  <2>1. /\ r.sid = tab[t].sid /\ r.stream = tab[t].stream /\ r.wire = tab[t].wire
        /\ r.seen = tab[t].seen
    BY <1>1, <1>4 DEF Tab
  <2>2. tab[t].stream = "none"
    BY <1>4 DEF Destroy, IInv, StreamsAgree
  <2> HIDE DEF r
  <2>3. QED
    BY <1>1, <1>2, <2>1, <2>2, QuietTabRest
<1>5. QED
  BY <1>3, <1>4

LEMMA OpenAnsweredRest == ASSUME IInv, Rest, NEW t \in Tabs, OpenAnswered(t) PROVE Rest'
<1> DEFINE r == IF tab[t].disposed THEN Closed(tab[t])
                ELSE [tab[t] EXCEPT !.phase = "open", !.stream = "asking"]
<1>1. tab[t] \in Tab /\ tab' = [tab EXCEPT ![t] = r] /\ UNCHANGED <<shell, listed>>
  BY DEF OpenAnswered, IInv, TypeOK
<1>2. \A u \in Tabs \ {t} : Post(u, "output", 0) \in posts' => Post(u, "output", 0) \in posts
  BY DEF OpenAnswered, Post
<1>3. CASE tab[t].disposed
  <2>1. r.sid = tab[t].sid /\ r.stream = "over"
    BY <1>1, <1>3 DEF Tab, Closed
  <2> HIDE DEF r
  <2>2. QED
    BY <1>1, <1>2, <2>1, OverRests, TabStepRest
<1>4. CASE ~tab[t].disposed
  <2>1. tab[t].stream = "none" /\ TabRest(t)
    BY DEF OpenAnswered, IInv, StreamsAgree, Rest
  <2>2. /\ r.sid = tab[t].sid /\ r.stream = "asking" /\ r.seen = tab[t].seen
        /\ ~r.disposed
    BY <1>1, <1>4 DEF Tab
  <2> HIDE DEF r
  <2>3. tab[t].sid # NoShell => RestOf(r, shell[tab[t].sid], tab[t].sid \in listed)
    BY <2>1, <2>2 DEF TabRest, RestOf
  <2>4. r.seen = <<>>
    BY <2>1, <2>2 DEF TabRest
  <2>5. QED
    BY <1>1, <1>2, <2>2, <2>3, <2>4, TabStepRest
<1>5. QED
  BY <1>3, <1>4

LEMMA FrameReadRest == ASSUME IInv, Rest, NEW t \in Tabs, FrameRead(t) PROVE Rest'
<1> DEFINE r == Taken(tab[t])
           h == shell[tab[t].sid]
<1>1. /\ tab[t] \in Tab /\ tab' = [tab EXCEPT ![t] = r] /\ UNCHANGED <<posts, shell, listed>>
      /\ tab[t].stream = "up" /\ tab[t].wire # <<>>
  BY DEF FrameRead, IInv, TypeOK
<1>2. tab[t].sid # NoShell /\ tab[t].sid \in DOMAIN shell
  BY <1>1 DEF IInv, TypeOK, StreamsAgree, SessionsHaveTabs, Given
<1>3. h \in Record
  BY <1>2, RecordsTyped DEF IInv
<1>4. TabRest(t)
  BY DEF Rest
<1>5. ~tab[t].disposed /\ Post(t, "output", 0) \notin posts
  BY <1>1, <1>4 DEF TabRest
<1>6. RestOf(tab[t], h, tab[t].sid \in listed)
  BY <1>2, <1>4 DEF TabRest
<1>7. h.watched /\ Carries(tab[t].wire, tab[t].seen, h.wrote, h.exited)
  BY <1>1, <1>6 DEF RestOf
<1>8. /\ tab[t].wire \in Seq(Frame) /\ tab[t].seen \in Seq(Nat)
      /\ h.wrote \in Nat /\ h.exited \in BOOLEAN
  BY <1>1, <1>3 DEF Tab, Record
<1> HIDE DEF h
<1>9. IF Head(tab[t].wire).kind = "output"
      THEN Carries(Tail(tab[t].wire), Append(tab[t].seen, Head(tab[t].wire).n), h.wrote, h.exited)
      ELSE h.exited /\ RunsTo(tab[t].seen, h.wrote)
  BY <1>1, <1>7, <1>8, WireIsRead
<1>10. CASE Head(tab[t].wire).kind = "output"
  <2>1. /\ r.sid = tab[t].sid /\ r.stream = "up" /\ ~r.disposed /\ r.wire = Tail(tab[t].wire)
        /\ r.seen = Append(tab[t].seen, Head(tab[t].wire).n)
    BY <1>1, <1>5, <1>10 DEF Tab, Taken
  <2> HIDE DEF r
  <2>2. RestOf(r, h, tab[t].sid \in listed)
    BY <1>7, <1>9, <1>10, <2>1 DEF RestOf
  <2>3. QED
    BY <1>1, <1>5, <2>1, <2>2, TabStepRest DEF h
<1>11. CASE Head(tab[t].wire).kind # "output"
  <2>1. r.sid = tab[t].sid /\ r.stream = "unread" /\ r.seen = tab[t].seen
    BY <1>1, <1>11 DEF Tab, Taken
  <2> HIDE DEF r
  <2>2. RestOf(r, h, tab[t].sid \in listed)
    BY <1>9, <1>11, <2>1 DEF RestOf
  <2>3. QED
    BY <1>1, <1>5, <2>1, <2>2, TabStepRest DEF h
<1>12. QED
  BY <1>10, <1>11

\* A step of one shell, by its tab's record r and its own h, either of which may stay.
LEMMA ShellStepRest ==
    ASSUME IInv, Rest, NEW s \in DOMAIN shell, NEW t \in Tabs, tab[t].sid = s,
           NEW r, tab' = [tab EXCEPT ![t] = r], NEW h, shell' = [shell EXCEPT ![s] = h],
           posts' \subseteq posts, listed' \subseteq listed,
           r.sid = s,
           r.stream \in {"none", "asking"} => r.seen = <<>>,
           r.stream \in {"asking", "up"} => ~r.disposed,
           Post(t, "output", 0) \in posts' => r.stream \in {"asking", "over"},
           RestOf(r, h, s \in listed')
    PROVE  Rest'
<1>1. tab \in [Tabs -> Tab] /\ shell \in Seq(Record) /\ s # NoShell
  BY DEF IInv, TypeOK, NoShell
<1>2. \A u \in Tabs : tab'[u] = IF u = t THEN r ELSE tab[u]
  BY <1>1
<1>3. \A u \in DOMAIN shell : shell'[u] = IF u = s THEN h ELSE shell[u]
  BY <1>1
<1>4. shell[s].owner = t
  BY <1>1 DEF IInv, SessionsHaveTabs
<1>5. TabRest(t)'
  BY <1>2, <1>3 DEF TabRest
<1>6. QED
  BY <1>2, <1>3, <1>4, <1>5, OthersRest

LEMMA DetachRest == ASSUME IInv, Rest, NEW s \in DOMAIN shell, Detach(s) PROVE Rest'
<1> DEFINE t == shell[s].owner
           h == [shell[s] EXCEPT !.watched = FALSE]
<1>1. t \in Tabs /\ tab[t].sid = s /\ tab \in [Tabs -> Tab] /\ TabRest(t)
  BY RecordsTyped DEF IInv, TypeOK, SessionsHaveTabs, Rest
<1>2. /\ tab' = [tab EXCEPT ![t] = tab[t]] /\ shell' = [shell EXCEPT ![s] = h]
      /\ UNCHANGED <<posts, listed>> /\ tab[t].stream = "over"
  BY <1>1 DEF Detach
<1> HIDE DEF t, h
<1>3. QED
  BY <1>1, <1>2, OverRests, ShellStepRest

\* What a frame does to the record of the shell's tab.
LEMMA SentTo ==
    ASSUME IInv, NEW s \in DOMAIN shell, NEW frame \in Frame, NEW t \in Tabs,
           t = shell[s].owner
    PROVE  /\ tab[t] \in Tab /\ tab[t].sid = s
           /\ Sent(s, frame) =
                  [tab EXCEPT ![t] =
                      IF shell[s].watched /\ tab[t].stream = "up"
                      THEN [tab[t] EXCEPT !.wire = Append(tab[t].wire, frame)] ELSE tab[t]]
<1>1. tab[t] \in Tab /\ tab[t].sid = s /\ tab \in [Tabs -> Tab]
  BY DEF IInv, TypeOK, SessionsHaveTabs
<1>2. CASE shell[s].watched /\ tab[t].stream = "up"
  BY <1>1, <1>2 DEF Sent
<1>3. CASE ~(shell[s].watched /\ tab[t].stream = "up")
  BY <1>1, <1>3 DEF Sent
<1>4. QED
  BY <1>1, <1>2, <1>3

LEMMA WriteRest == ASSUME IInv, Rest, NEW s \in DOMAIN shell, Write(s) PROVE Rest'
<1> DEFINE t == shell[s].owner
           n == shell[s].wrote + 1
           p == IF shell[s].watched \/ s \notin listed
                THEN shell[s].pending ELSE Buffered(shell[s].pending, n)
           h == [shell[s] EXCEPT !.wrote = n, !.pending = p]
           up == shell[s].watched /\ tab[t].stream = "up"
           r == IF up THEN [tab[t] EXCEPT !.wire = Append(tab[t].wire, Output(n))] ELSE tab[t]
<1>1. shell[s] \in Record /\ t \in Tabs /\ ~shell[s].exited
  BY RecordsTyped DEF IInv, Write
<1>2. /\ shell[s].wrote \in Nat /\ n \in Nat /\ n > 0 /\ shell[s].pending \in Seq(Nat)
      /\ Output(n) \in Frame
  BY <1>1 DEF Record, Output, Frame
<1>3. /\ tab[t] \in Tab /\ tab[t].sid = s /\ tab' = [tab EXCEPT ![t] = r]
      /\ shell' = [shell EXCEPT ![s] = h] /\ UNCHANGED <<posts, listed>>
  <2>1. tab[t] \in Tab /\ tab[t].sid = s /\ Sent(s, Output(n)) = [tab EXCEPT ![t] = r]
    <3> HIDE DEF n
    <3>1. QED
      BY <1>1, <1>2, SentTo
  <2>2. /\ tab' = Sent(s, Output(n)) /\ shell' = [shell EXCEPT ![s] = h]
        /\ UNCHANGED <<posts, listed>>
    BY DEF Write
  <2>3. QED
    BY <2>1, <2>2
<1>4. /\ h.wrote = n /\ h.pending = p /\ h.watched = shell[s].watched
      /\ h.exited = shell[s].exited
  <2> HIDE DEF n, p
  <2>1. QED
    BY <1>1 DEF Record
<1>5. /\ r.sid = s /\ r.stream = tab[t].stream /\ r.seen = tab[t].seen
      /\ r.disposed = tab[t].disposed
      /\ r.wire = IF up THEN Append(tab[t].wire, Output(n)) ELSE tab[t].wire
  <2> HIDE DEF n, up
  <2>1. QED
    BY <1>3 DEF Tab
<1>6. tab[t].wire \in Seq(Frame) /\ tab[t].seen \in Seq(Nat)
  BY <1>3 DEF Tab
<1>7. s # NoShell /\ TabRest(t)
  BY <1>1 DEF IInv, TypeOK, NoShell, Rest
<1>8. RestOf(tab[t], shell[s], s \in listed)
  BY <1>3, <1>7 DEF TabRest
<1> HIDE DEF h, r
<1>9. ASSUME tab[t].stream \in {"none", "asking"}
      PROVE  RestOf(r, h, s \in listed)
  <2>1. ~shell[s].watched /\ (s \in listed => RunsTo(shell[s].pending, shell[s].wrote))
    BY <1>8, <1>9 DEF RestOf
  <2>2. s \in listed => RunsTo(Buffered(shell[s].pending, n), n)
    BY <1>2, <2>1, BufferRunsOn
  <2>3. s \in listed => RunsTo(p, n)
    BY <2>1, <2>2
  <2> HIDE DEF n, p, up, t
  <2>4. QED
    BY <1>3, <1>4, <1>5, <1>9, <2>1, <2>3 DEF RestOf
<1>10. ASSUME tab[t].stream = "up"
       PROVE  RestOf(r, h, s \in listed)
  <2>1. CASE shell[s].watched
    <3>1. Carries(tab[t].wire, tab[t].seen, shell[s].wrote, FALSE)
      <4>1. Carries(tab[t].wire, tab[t].seen, shell[s].wrote, shell[s].exited)
        BY <1>8, <1>10, <2>1 DEF RestOf
      <4>2. shell[s].exited = FALSE
        BY <1>1 DEF Record
      <4>3. QED
        BY <4>1, <4>2
    <3>2. Carries(Append(tab[t].wire, Output(n)), tab[t].seen, n, FALSE)
      BY <1>2, <1>6, <3>1, WireRunsOn
    <3>3. h.exited = FALSE /\ r.wire = Append(tab[t].wire, Output(n))
      BY <1>1, <1>4, <1>5, <1>10, <2>1 DEF Record
    <3> HIDE DEF n, p, up, t
    <3>4. QED
      BY <1>4, <1>5, <1>10, <2>1, <3>2, <3>3 DEF RestOf
  <2>2. CASE ~shell[s].watched
    <3>1. tab[t].wire = <<>>
      BY <1>8, <1>10, <2>2 DEF RestOf
    <3>2. r.wire = <<>>
      BY <1>5, <2>2, <3>1
    <3> HIDE DEF n, p, up, t
    <3>3. QED
      BY <1>4, <1>5, <1>10, <2>2, <3>2 DEF RestOf
  <2>3. QED
    BY <2>1, <2>2
<1>11. ASSUME tab[t].stream \notin {"none", "asking", "up"}
       PROVE  RestOf(r, h, s \in listed)
  <2>1. tab[t].stream # "unread"
    BY <1>1, <1>8 DEF RestOf
  <2> HIDE DEF n, p, up, t
  <2>2. QED
    BY <1>5, <1>11, <2>1 DEF RestOf
<1>12. RestOf(r, h, s \in listed')
  BY <1>3, <1>9, <1>10, <1>11
<1>13. /\ r.stream \in {"none", "asking"} => r.seen = <<>>
       /\ r.stream \in {"asking", "up"} => ~r.disposed
       /\ Post(t, "output", 0) \in posts' => r.stream \in {"asking", "over"}
  BY <1>3, <1>5, <1>7 DEF TabRest
<1> HIDE DEF t, n, p, up
<1>14. QED
  BY <1>1, <1>3, <1>5, <1>12, <1>13, ShellStepRest

LEMMA EndsRest == ASSUME IInv, Rest, NEW s \in DOMAIN shell, Ends(s) PROVE Rest'
<1> DEFINE t == shell[s].owner
           h == [shell[s] EXCEPT !.exited = TRUE]
           up == shell[s].watched /\ tab[t].stream = "up"
           r == IF up THEN [tab[t] EXCEPT !.wire = Append(tab[t].wire, Exit)] ELSE tab[t]
<1>1. shell[s] \in Record /\ t \in Tabs /\ ~shell[s].exited
  BY RecordsTyped DEF IInv, Ends
<1>2. Exit \in Frame /\ shell[s].wrote \in Nat
  BY <1>1 DEF Record, Exit, Frame
<1>3. /\ tab[t] \in Tab /\ tab[t].sid = s /\ tab' = [tab EXCEPT ![t] = r]
      /\ shell' = [shell EXCEPT ![s] = h] /\ UNCHANGED <<posts, listed>>
  BY <1>1, <1>2, SentTo DEF Ends
<1>4. /\ h.wrote = shell[s].wrote /\ h.pending = shell[s].pending
      /\ h.watched = shell[s].watched /\ h.exited = TRUE
  BY <1>1 DEF Record
<1>5. /\ r.sid = s /\ r.stream = tab[t].stream /\ r.seen = tab[t].seen
      /\ r.disposed = tab[t].disposed
      /\ r.wire = IF up THEN Append(tab[t].wire, Exit) ELSE tab[t].wire
  <2> HIDE DEF up
  <2>1. QED
    BY <1>3 DEF Tab
<1>6. tab[t].wire \in Seq(Frame) /\ tab[t].seen \in Seq(Nat)
  BY <1>3 DEF Tab
<1>7. s # NoShell /\ TabRest(t)
  BY <1>1 DEF IInv, TypeOK, NoShell, Rest
<1>8. RestOf(tab[t], shell[s], s \in listed)
  BY <1>3, <1>7 DEF TabRest
<1> HIDE DEF h, r
<1>9. ASSUME tab[t].stream = "up" /\ shell[s].watched
      PROVE  RestOf(r, h, s \in listed)
  <2>1. Carries(tab[t].wire, tab[t].seen, shell[s].wrote, FALSE)
    <3>1. Carries(tab[t].wire, tab[t].seen, shell[s].wrote, shell[s].exited)
      BY <1>8, <1>9 DEF RestOf
    <3>2. shell[s].exited = FALSE
      BY <1>1 DEF Record
    <3>3. QED
      BY <3>1, <3>2
  <2>2. Carries(Append(tab[t].wire, Exit), tab[t].seen, shell[s].wrote, TRUE)
    BY <1>2, <1>6, <2>1, WireEnds
  <2>3. r.wire = Append(tab[t].wire, Exit)
    BY <1>5, <1>9
  <2> HIDE DEF up, t
  <2>4. QED
    BY <1>4, <1>5, <1>9, <2>2, <2>3 DEF RestOf
<1>10. ASSUME ~(tab[t].stream = "up" /\ shell[s].watched)
       PROVE  RestOf(r, h, s \in listed)
  <2>1. r.wire = tab[t].wire
    BY <1>5, <1>10
  <2> HIDE DEF up, t
  <2>2. QED
    BY <1>4, <1>5, <1>8, <1>10, <2>1 DEF RestOf
<1>11. RestOf(r, h, s \in listed')
  BY <1>3, <1>9, <1>10
<1>12. /\ r.stream \in {"none", "asking"} => r.seen = <<>>
       /\ r.stream \in {"asking", "up"} => ~r.disposed
       /\ Post(t, "output", 0) \in posts' => r.stream \in {"asking", "over"}
  BY <1>3, <1>5, <1>7 DEF TabRest
<1> HIDE DEF t, up
<1>13. QED
  BY <1>1, <1>3, <1>5, <1>11, <1>12, ShellStepRest

LEMMA CloseArrivesRest == ASSUME IInv, Rest, NEW t \in Tabs, CloseArrives(t) PROVE Rest'
<1>1. /\ tab \in [Tabs -> Tab] /\ tab' = tab /\ posts' \subseteq posts
      /\ tab' = [tab EXCEPT ![t] = tab[t]] /\ TabRest(t)
  BY DEF CloseArrives, IInv, TypeOK, Rest
<1>2. CASE tab[t].sid \notin listed
  <2>1. UNCHANGED <<shell, listed>>
    BY <1>2 DEF CloseArrives, Of
  <2>2. \A u \in Tabs : Post(u, "output", 0) \in posts' => Post(u, "output", 0) \in posts
    BY <1>1
  <2>3. tab[t].stream \in {"asking", "up"} => tab[t].disposed = tab[t].disposed
    OBVIOUS
  <2>4. QED
    BY <1>1, <2>1, <2>2, <2>3, QuietTabRest
<1>3. CASE tab[t].sid \in listed
  <2> DEFINE s == tab[t].sid
             h == [shell[s] EXCEPT !.killed = TRUE, !.pending = <<>>]
  <2>1. s \in DOMAIN shell /\ shell \in Seq(Record) /\ shell[s] \in Record /\ s # NoShell
    BY <1>3 DEF IInv, TypeOK, NoShell
  <2>2. shell' = [shell EXCEPT ![s] = h] /\ listed' = listed \ {s}
    BY <1>3, <2>1 DEF CloseArrives, Of
  <2>3. h.wrote = shell[s].wrote /\ h.watched = shell[s].watched /\ h.exited = shell[s].exited
    BY <2>1 DEF Record
  <2> HIDE DEF h
  <2>4. RestOf(tab[t], shell[s], s \in listed)
    BY <1>1, <2>1 DEF TabRest
  <2>5. RestOf(tab[t], h, s \in listed')
    BY <2>2, <2>3, <2>4 DEF RestOf
  <2>6. /\ tab[t].stream \in {"none", "asking"} => tab[t].seen = <<>>
        /\ tab[t].stream \in {"asking", "up"} => ~tab[t].disposed
        /\ Post(t, "output", 0) \in posts' => tab[t].stream \in {"asking", "over"}
    BY <1>1 DEF TabRest
  <2>7. listed' \subseteq listed
    BY <2>2
  <2> HIDE DEF s
  <2>8. s = tab[t].sid
    BY DEF s
  <2>9. QED
    BY <1>1, <2>1, <2>2, <2>5, <2>6, <2>7, <2>8, ShellStepRest
<1>4. QED
  BY <1>2, <1>3

LEMMA StreamArrivesRest == ASSUME IInv, Rest, NEW t \in Tabs, StreamArrives(t) PROVE Rest'
<1> DEFINE s == tab[t].sid
           sent == IF s \in listed THEN Backlog(s) ELSE <<>>
           r == IF tab[t].stream # "asking" THEN tab[t]
                ELSE [tab[t] EXCEPT !.stream = "up", !.wire = sent]
           h == IF s \in listed THEN [shell[s] EXCEPT !.pending = <<>>, !.watched = TRUE]
                ELSE shell[s]
<1>1. /\ tab \in [Tabs -> Tab] /\ tab[t] \in Tab /\ TabRest(t) /\ listed' = listed
      /\ Post(t, "output", 0) \in posts /\ posts' = posts \ {Post(t, "output", 0)}
  BY DEF StreamArrives, IInv, TypeOK, Rest
<1>2. tab[t].stream \in {"asking", "over"}
  BY <1>1 DEF TabRest
<1>3. s # NoShell /\ s \in DOMAIN shell /\ shell \in Seq(Record)
  BY <1>2 DEF IInv, TypeOK, StreamsAgree, SessionsHaveTabs, Given
<1>4. shell[s] \in Record
  BY <1>3, RecordsTyped DEF IInv
<1>5. tab' = [tab EXCEPT ![t] = r]
  <2>1. CASE tab[t].stream # "asking"
    BY <1>1, <2>1 DEF StreamArrives, Of
  <2>2. CASE tab[t].stream = "asking"
    BY <1>1, <2>2 DEF StreamArrives, Of
  <2>3. QED
    BY <2>1, <2>2
<1>6. shell' = [shell EXCEPT ![s] = h]
  <2>1. CASE s \in listed
    BY <1>3, <2>1 DEF StreamArrives, Of
  <2>2. CASE s \notin listed
    BY <1>3, <2>2 DEF StreamArrives, Of
  <2>3. QED
    BY <2>1, <2>2
<1>7. RestOf(tab[t], shell[s], s \in listed)
  BY <1>1, <1>3 DEF TabRest
<1>8. /\ h.wrote = shell[s].wrote /\ h.exited = shell[s].exited
      /\ h.watched = IF s \in listed THEN TRUE ELSE shell[s].watched
  BY <1>4 DEF Record
<1>9. CASE tab[t].stream = "asking"
  <2>1. /\ tab[t].seen = <<>> /\ ~tab[t].disposed /\ ~shell[s].watched
        /\ s \in listed => RunsTo(shell[s].pending, shell[s].wrote)
    BY <1>1, <1>7, <1>9 DEF TabRest, RestOf
  <2>2. s \in listed => Carries(Backlog(s), <<>>, shell[s].wrote, shell[s].exited)
    BY <1>3, <2>1, BacklogCarries DEF IInv
  <2> HIDE DEF sent
  <2>3. r.sid = s /\ r.stream = "up" /\ r.wire = sent /\ r.seen = <<>> /\ ~r.disposed
    BY <1>1, <1>9, <2>1 DEF Tab
  <2>4. RestOf(r, h, s \in listed')
    <3> HIDE DEF r, h, s
    <3>1. CASE s \in listed
      <4>1. sent = Backlog(s)
        BY <3>1 DEF sent
      <4>2. QED
        BY <1>8, <2>2, <2>3, <3>1, <4>1 DEF RestOf
    <3>2. CASE s \notin listed
      <4>1. sent = <<>>
        BY <3>2 DEF sent
      <4>2. QED
        BY <1>8, <2>1, <2>3, <3>2, <4>1 DEF RestOf
    <3>3. QED
      BY <3>1, <3>2
  <2>5. Post(t, "output", 0) \notin posts' /\ posts' \subseteq posts /\ listed' \subseteq listed
    BY <1>1
  <2> HIDE DEF r, h, s
  <2>6. s = tab[t].sid
    BY DEF s
  <2>7. QED
    BY <1>3, <1>5, <1>6, <2>3, <2>4, <2>5, <2>6, ShellStepRest
<1>10. CASE tab[t].stream = "over"
  <2>1. r.sid = s /\ r.stream = "over"
    BY <1>10
  <2>2. posts' \subseteq posts /\ listed' \subseteq listed
    BY <1>1
  <2> HIDE DEF r, h, s
  <2>3. s = tab[t].sid
    BY DEF s
  <2>4. QED
    BY <1>3, <1>5, <1>6, <2>1, <2>2, <2>3, OverRests, ShellStepRest
<1>11. QED
  BY <1>2, <1>9, <1>10

LEMMA OpenArrivesRest == ASSUME IInv, Rest, NEW t \in Tabs, OpenArrives(t) PROVE Rest'
<1> DEFINE s == Len(shell) + 1
<1>1. /\ Post(t, "open", 0) \in posts /\ posts' = posts \ {Post(t, "open", 0)}
  BY DEF OpenArrives
<1>2. /\ tab[t].sid = NoShell /\ tab[t].stream = "none"
      /\ \A u \in DOMAIN shell : shell[u].owner # t
  BY <1>1, OpeningIsNew
<1>3. /\ tab \in [Tabs -> Tab] /\ tab[t] \in Tab /\ shell \in Seq(Record) /\ TabRest(t)
      /\ Swept \subseteq listed /\ s \notin DOMAIN shell /\ s # NoShell
  BY SweptIsOver DEF IInv, TypeOK, Rest, NoShell
<1>4. tab[t].seen = <<>> /\ Post(t, "output", 0) \notin posts'
  BY <1>1, <1>2, <1>3 DEF TabRest
<1>5. \A u \in Tabs : Post(u, "output", 0) \in posts' => Post(u, "output", 0) \in posts
  BY <1>1
<1>6. CASE Full
  <2> DEFINE r == [tab[t] EXCEPT !.phase = "failed"]
  <2>1. tab' = [tab EXCEPT ![t] = r] /\ shell' = shell /\ listed' = Swept
    BY <1>3, <1>6 DEF OpenArrives
  <2>2. r.sid = NoShell /\ r.stream = "none" /\ r.seen = <<>>
    BY <1>2, <1>3, <1>4 DEF Tab
  <2> HIDE DEF r
  <2>3. \A u \in Tabs : tab'[u] = IF u = t THEN r ELSE tab[u]
    BY <1>3, <2>1
  <2>4. TabRest(t)'
    BY <1>4, <2>2, <2>3 DEF TabRest
  <2>5. \A u \in DOMAIN shell : u \in listed' => u \in listed
    BY <1>3, <2>1
  <2>6. QED
    BY <1>5, <2>1, <2>3, <2>4, <2>5, OthersRest
<1>7. CASE ~Full
  <2> DEFINE r == [tab[t] EXCEPT !.phase = "opened", !.sid = s]
             h == Session(t)
  <2>1. /\ tab' = [tab EXCEPT ![t] = r] /\ shell' = Append(shell, h)
        /\ listed' = Swept \union {s}
    BY <1>3, <1>7 DEF OpenArrives
  <2>2. r.sid = s /\ r.stream = "none" /\ r.seen = <<>>
    <3> HIDE DEF s
    <3>1. QED
      BY <1>2, <1>3, <1>4 DEF Tab
  <2>3. h.pending = <<>> /\ h.wrote = 0 /\ ~h.watched
    BY DEF Session
  <2>4. RestOf(r, h, s \in listed')
    <3> HIDE DEF r, h, s
    <3>1. RunsTo(<<>>, 0)
      BY DEF RunsTo
    <3>2. QED
      BY <2>2, <2>3, <3>1 DEF RestOf
  <2> HIDE DEF r, h
  <2>5. \A u \in Tabs : tab'[u] = IF u = t THEN r ELSE tab[u]
    BY <1>3, <2>1
  <2>6. shell'[s] = h /\ \A u \in DOMAIN shell : shell'[u] = shell[u]
    BY <1>3, <2>1
  <2> HIDE DEF s
  <2>7. TabRest(t)'
    BY <1>4, <2>2, <2>4, <2>5, <2>6 DEF TabRest
  <2>8. \A u \in DOMAIN shell : u \in listed' => u \in listed
    BY <1>3, <2>1
  <2>9. QED
    BY <1>5, <2>5, <2>6, <2>7, <2>8, OthersRest
<1>8. QED
  BY <1>6, <1>7

LEMMA InitRests == Init => Rest
<1> SUFFICES ASSUME Init PROVE Rest
  OBVIOUS
<1>1. \A t \in Tabs : tab[t] = Tab0 /\ posts = {}
  BY DEF Init
<1>2. QED
  BY <1>1 DEF Rest, TabRest, Tab0

LEMMA NextRests == IInv /\ Rest /\ [Next]_vars => Rest'
<1> SUFFICES ASSUME IInv, Rest, [Next]_vars PROVE Rest'
  OBVIOUS
<1>1. CASE UNCHANGED vars
  BY <1>1 DEF vars, Rest, TabRest
<1>2. ASSUME NEW t \in Tabs, StartTab(t) \/ Type(t) \/ Destroy(t) \/ Fault(t)
      PROVE  Rest'
  BY <1>2, StartTabRest, TypeRest, DestroyRest, AnyFaultRest
<1>3. ASSUME NEW t \in Tabs, Handled(t)
      PROVE  Rest'
  BY <1>3, OpenArrivesRest, OpenAnsweredRest, InputArrivesRest, InputFailedRest,
     CloseArrivesRest, StreamArrivesRest, FrameReadRest DEF Handled
<1>4. ASSUME NEW s \in DOMAIN shell, Write(s) \/ Ends(s) \/ Detach(s)
      PROVE  Rest'
  BY <1>4, WriteRest, EndsRest, DetachRest
<1>5. QED
  BY <1>1, <1>2, <1>3, <1>4 DEF Next

\* A tab whose stream delivered the exit shows the end of its shell's output without a
\* gap, however requests overtook each other and whenever the stream was asked for
\* (service.ts deliver, subscribe and finish; terminal.ts watchOutput).
THEOREM TheRestIsAlwaysShown == Spec => []EndedShowsTheRest
<1>1. IInv /\ Rest => EndedShowsTheRest
  <2> SUFFICES ASSUME IInv, Rest, NEW t \in Tabs, tab[t].stream = "unread"
               PROVE  RunsTo(tab[t].seen, shell[tab[t].sid].wrote)
    BY DEF EndedShowsTheRest, RunsTo, Of
  <2>1. tab[t].sid # NoShell
    BY DEF IInv, StreamsAgree, SessionsHaveTabs, Given
  <2>2. QED
    BY <2>1 DEF Rest, TabRest, RestOf
<1> QED
  BY InitKeeps, NextKeeps, InitRests, NextRests, <1>1, PTL DEF Spec

=============================================================================
