-------------------------- MODULE ChatSummaryProofs --------------------------
(***************************************************************************)
(* Safety of ChatSummary for every set of workers, window length and       *)
(* bound.  TypeOK is inductive; ClaimInv says which claim a worker works   *)
(* under, CallInv how far the call of a window has come and SentInv how    *)
(* often its request may have been sent, all relative to it.               *)
(***************************************************************************)
EXTENDS ChatSummary, TLAPS

\* A worker past its claim, and one past the dispatch of its window.
Engaged == {"sources", "eligible", "dispatch", "call", "retry", "answered", "unanswered", "finish"}
Served == {"retry", "answered", "unanswered", "finish"}

\* A claim is numbered, no later than the newest of its window, and one worker's.
ClaimInv ==
    /\ \A w \in Workers : pc[w] \in Engaged =>
         req[w].attempt \in 1 .. windows[req[w].window].attempt
    /\ \A w, v \in Workers :
         /\ pc[w] \in Engaged /\ pc[v] \in Engaged
         /\ req[w].window = req[v].window /\ req[w].attempt = req[v].attempt
         => w = v

\* A window is closed to new claims for good once its dispatch is recorded.
Dispatched(k) == windows[k].state \in {"dispatched"} \cup Terminal

\* The worker about to call has recorded the dispatch of its own claim, and nobody has
\* called for the window; whoever has called is at most one, and the summary that
\* is published is that worker's.
CallInv ==
    /\ \A k \in Windows : calls[k] = 0 \/ (calls[k] = 1 /\ Dispatched(k))
    /\ \A w \in Workers : pc[w] \in {"call"} \cup Served =>
         /\ Dispatched(req[w].window)
         /\ windows[req[w].window].attempt = req[w].attempt
         /\ calls[req[w].window] = IF pc[w] = "call" THEN 0 ELSE 1
    /\ PublishedByItsCall

\* Nothing is sent before the call of the window.  A worker about to repeat a request
\* has a retry left, and has sent no more than its first request and its retries.
SentInv ==
    /\ \A k \in Windows : /\ sent[k] <= 1 + MaxRetries
                          /\ calls[k] = 0 => sent[k] = 0
    /\ \A w \in Workers : pc[w] = "retry" =>
         sent[req[w].window] <= req[w].retries + 1 /\ req[w].retries < MaxRetries

SummaryInv == ClaimInv /\ CallInv /\ SentInv

------------------------------------------------------------------------------
(***************************************************************************)
(* Types.  A window is opened by the commit of its last turn, so its state *)
(* is tied to the number of turns; no other step opens or closes one.      *)
(***************************************************************************)
Summaries == [state : States, attempt : Attempts, lease : {"none", "live", "expired"},
              due : BOOLEAN]
Passes == [todo : SUBSET Candidates, window : Windows \cup {NoWindow}, attempt : Attempts,
           retries : 0 .. MaxRetries]

\* The state constraint of the table, for one row.
Constrained(s) ==
    /\ s.lease # "none" <=> s.state \in {"claimed", "dispatched"}
    /\ s.due => s.state = "pending"

WindowsTyped ==
    /\ windows \in [Windows -> Summaries]
    /\ \A k \in Windows : Constrained(windows[k])

WindowsOpen ==
    /\ count \in 0 .. WindowTurns * MaxWindow
    /\ \A k \in Windows : windows[k].state # "none" <=> k * WindowTurns <= count

PassesTyped ==
    /\ pc \in [Workers -> Labels]
    /\ req \in [Workers -> Passes]
    /\ \A w \in Workers : req[w].window = NoWindow <=> pc[w] \in {"idle", "next"}

OthersTyped ==
    /\ memories \subseteq Candidates
    /\ calls \in [Windows -> Nat]
    /\ sent \in [Windows -> Nat]

LEMMA TypeParts == TypeOK <=> WindowsTyped /\ WindowsOpen /\ PassesTyped /\ OthersTyped
  BY DEF TypeOK, WindowsTyped, WindowsOpen, PassesTyped, OthersTyped, Summaries, Passes, Constrained

LEMMA TypeAssembled ==
  WindowsTyped' /\ WindowsOpen' /\ PassesTyped' /\ OthersTyped' => TypeOK'
  BY DEF TypeOK, WindowsTyped, WindowsOpen, PassesTyped, OthersTyped, Summaries, Passes, Constrained

\* What the claim of a window may become: any row of the table that is open.
Row(s) == s \in Summaries /\ Constrained(s)

LEMMA WindowStep ==
  ASSUME TypeOK, NEW k \in Windows, NEW s, Row(s),
         s.state # "none", windows[k].state # "none",
         windows' = [windows EXCEPT ![k] = s], count' = count
  PROVE  WindowsTyped' /\ WindowsOpen'
  BY TypeParts DEF WindowsTyped, WindowsOpen, Row

LEMMA WindowsStay ==
  ASSUME TypeOK, windows' = windows, count' = count
  PROVE  WindowsTyped' /\ WindowsOpen'
  BY TypeParts DEF WindowsTyped, WindowsOpen

LEMMA PassStays ==
  ASSUME TypeOK, NEW w \in Workers, NEW label \in Labels, NEW pass \in Passes,
         pass.window = NoWindow <=> label \in {"idle", "next"},
         pc' = [pc EXCEPT ![w] = label], req' = [req EXCEPT ![w] = pass]
  PROVE  PassesTyped'
  BY TypeParts DEF PassesTyped

LEMMA GotoTyped ==
  ASSUME TypeOK, NEW w \in Workers, NEW label \in Labels \ {"idle", "next"}, Goto(w, label),
         pc[w] \notin {"idle", "next"}
  PROVE  PassesTyped'
  BY TypeParts DEF PassesTyped, Goto

LEMMA ContinueTyped == ASSUME TypeOK, NEW w \in Workers, Continue(w) PROVE PassesTyped'
<1>1. [NoPass EXCEPT !.todo = req[w].todo] \in Passes
  BY TypeParts, Assumptions DEF PassesTyped, Passes, NoPass, Attempts
<1>2. [NoPass EXCEPT !.todo = req[w].todo].window = NoWindow
  BY DEF NoPass
<1> QED
  BY <1>1, <1>2, PassStays DEF Continue, Labels

LEMMA StopTyped == ASSUME TypeOK, NEW w \in Workers, Stop(w) PROVE PassesTyped'
<1>1. NoPass \in Passes /\ NoPass.window = NoWindow
  BY Assumptions DEF Passes, NoPass, Attempts
<1> QED
  BY <1>1, PassStays DEF Stop, Labels

------------------------------------------------------------------------------
(* The window that closes with turn c is c \div WindowTurns.               *)
LEMMA Division ==
  ASSUME NEW c \in Nat
  PROVE  /\ c = WindowTurns * (c \div WindowTurns) + (c % WindowTurns)
         /\ c \div WindowTurns \in Int
         /\ c % WindowTurns \in 0 .. WindowTurns - 1
  BY Assumptions

LEMMA Multiples ==
  ASSUME NEW k \in Nat
  PROVE  (k * WindowTurns) % WindowTurns = 0 /\ (k * WindowTurns) \div WindowTurns = k
  BY Assumptions

\* The window that a committed turn closes was not open.
LEMMA CommitOpens ==
  ASSUME TypeOK, CommitTurn, (count + 1) % WindowTurns = 0
  PROVE  LET q == (count + 1) \div WindowTurns
         IN  q \in Windows /\ q * WindowTurns = count + 1 /\ windows[q].state = "none"
<1> DEFINE c == count + 1
           q == c \div WindowTurns
<1>1. c \in 1 .. WindowTurns * MaxWindow /\ count \in Nat /\ c \in Nat
  BY TypeParts, Assumptions DEF WindowsOpen, CommitTurn
<1>2. count < c
  BY <1>1
<1>3. c % WindowTurns = 0
  OBVIOUS
<1> HIDE DEF c
<1>4. q \in Int /\ c = WindowTurns * q
  BY <1>1, <1>3, Division, Assumptions
<1> HIDE DEF q
<1>5. q > 0
  BY <1>4, <1>1, Assumptions
<1>6. q <= MaxWindow
  BY <1>4, <1>1, <1>5, Assumptions
<1>7. q \in Windows /\ q * WindowTurns = c
  BY <1>4, <1>5, <1>6, Assumptions DEF Windows
<1>8. windows[q].state = "none"
  BY <1>1, <1>2, <1>7, TypeParts DEF WindowsOpen
<1> QED
  BY <1>7, <1>8 DEF c, q

LEMMA CommitTyped == ASSUME TypeOK, CommitTurn PROVE TypeOK'
<1> DEFINE c == count + 1
           q == c \div WindowTurns
<1>1. c \in 1 .. WindowTurns * MaxWindow /\ count \in Nat /\ c \in Nat
  BY TypeParts, Assumptions DEF WindowsOpen, CommitTurn
<1>2. \A k \in Windows : k * WindowTurns <= count' <=> k * WindowTurns <= count \/ k * WindowTurns = c
  BY <1>1, Assumptions DEF CommitTurn, Windows
<1>3. \A k \in Windows : k * WindowTurns = c => c % WindowTurns = 0 /\ q = k
  BY <1>1, Multiples DEF Windows
<1>4. ASSUME c % WindowTurns = 0 PROVE q \in Windows /\ q * WindowTurns = c
  BY <1>4, CommitOpens
<1>5. PassesTyped' /\ OthersTyped'
  BY TypeParts DEF CommitTurn, PassesTyped, OthersTyped
<1>6. CASE c % WindowTurns # 0
  <2>1. windows' = windows /\ count' \in 0 .. WindowTurns * MaxWindow
    BY <1>1, <1>6 DEF CommitTurn
  <2>2. WindowsTyped' /\ WindowsOpen'
    BY <2>1, <1>2, <1>3, <1>6, TypeParts DEF WindowsTyped, WindowsOpen
  <2> QED
    BY <2>2, <1>5, TypeAssembled
<1>7. CASE c % WindowTurns = 0
  <2> DEFINE s == [windows[q] EXCEPT !.state = "pending", !.due = TRUE]
  <2>1. windows' = [windows EXCEPT ![q] = s] /\ count' = c
    BY <1>7 DEF CommitTurn
  <2>2. q \in Windows /\ q * WindowTurns = c
    BY <1>4, <1>7
  <2> HIDE DEF q
  <2>3. ~(q * WindowTurns <= count)
    BY <2>2, <1>1
  <2>4. windows[q] \in Summaries /\ windows[q].lease = "none"
    BY <2>2, <2>3, TypeParts DEF WindowsTyped, WindowsOpen, Constrained
  <2>5. Row(s) /\ s.state # "none"
    BY <2>4 DEF Row, Summaries, States, Constrained
  <2> HIDE DEF s
  <2>6. WindowsTyped'
    BY <2>1, <2>2, <2>5, TypeParts DEF WindowsTyped, Row
  <2>7. \A k \in Windows : windows'[k].state # "none" <=> k * WindowTurns <= count'
    <3>1. \A k \in Windows : windows'[k].state # "none" <=> windows[k].state # "none" \/ k = q
      BY <2>1, <2>2, <2>5, TypeParts DEF WindowsTyped
    <3>2. \A k \in Windows : k * WindowTurns = c <=> k = q
      BY <1>3, <2>2 DEF q
    <3> QED
      BY <3>1, <3>2, <1>2, TypeParts DEF WindowsOpen
  <2>8. WindowsOpen'
    BY <2>1, <2>7, <1>1 DEF WindowsOpen
  <2> QED
    BY <2>6, <2>8, <1>5, TypeAssembled
<1> QED
  BY <1>6, <1>7

------------------------------------------------------------------------------
LEMMA ScanTyped == ASSUME TypeOK, NEW w \in Workers, Scan(w) PROVE TypeOK'
<1>1. \A k \in Windows : windows'[k] = IF Expired(k) THEN Swept(k) ELSE windows[k]
  BY DEF Scan
<1>2. ASSUME NEW k \in Windows, Expired(k)
      PROVE  Row(Swept(k)) /\ Swept(k).state # "none" /\ windows[k].state # "none"
  BY <1>2, TypeParts
     DEF Expired, Swept, WindowsTyped, Row, Constrained, Summaries, States, Terminal
<1>3. WindowsTyped'
  BY <1>1, <1>2, TypeParts DEF Scan, WindowsTyped, Row
<1>4. WindowsOpen'
  BY <1>1, <1>2, TypeParts DEF Scan, WindowsOpen
<1>5. PassesTyped'
  <2>1. req'[w].window = req[w].window /\ req[w].window = NoWindow
    BY TypeParts DEF Scan, PassesTyped, Passes
  <2>2. req' \in [Workers -> Passes]
    BY TypeParts DEF Scan, PassesTyped, Passes
  <2> QED
    BY <2>1, <2>2, TypeParts DEF Scan, PassesTyped, Labels
<1> QED
  BY <1>3, <1>4, <1>5, TypeParts, TypeAssembled DEF Scan, OthersTyped

LEMMA TakeTyped == ASSUME TypeOK, NEW w \in Workers, Take(w) PROVE TypeOK'
<1>1. WindowsTyped' /\ WindowsOpen' /\ OthersTyped'
  BY WindowsStay, TypeParts DEF Take, OthersTyped
<1>2. CASE Stop(w)
  BY <1>1, <1>2, StopTyped, TypeAssembled
<1>3. ASSUME NEW c \in req[w].todo,
             req' = [req EXCEPT ![w] = [todo |-> req[w].todo \ {c}, window |-> c.window,
                                        attempt |-> c.attempt, retries |-> 0]],
             pc' = [pc EXCEPT ![w] = "admit"]
      PROVE  PassesTyped'
  <2>1. c \in Candidates /\ req[w].todo \subseteq Candidates
    BY <1>3, TypeParts DEF PassesTyped, Passes
  <2> DEFINE pass == [todo |-> req[w].todo \ {c}, window |-> c.window, attempt |-> c.attempt,
                      retries |-> 0]
  <2>2. pass \in Passes /\ pass.window # NoWindow
    BY <2>1, Assumptions DEF Passes, Candidates, Windows, NoWindow
  <2> QED
    BY <1>3, <2>2, PassStays DEF Labels
<1> QED
  BY <1>1, <1>2, <1>3, TypeAssembled DEF Take

\* A step of a pass that leaves its window alone or gives it another row.
LEMMA PassTyped ==
  ASSUME TypeOK, NEW w \in Workers, PassesTyped', pc[w] \notin {"idle", "next"}, count' = count,
         memories' \subseteq Candidates, calls' \in [Windows -> Nat], sent' \in [Windows -> Nat],
         \/ windows' = windows
         \/ \E s : /\ Row(s) /\ s.state # "none" /\ windows[req[w].window].state # "none"
                   /\ windows' = [windows EXCEPT ![req[w].window] = s]
  PROVE  TypeOK'
<1>1. req[w].window \in Windows
  BY TypeParts DEF PassesTyped, Passes
<1>2. WindowsTyped' /\ WindowsOpen'
  BY <1>1, WindowsStay, WindowStep
<1> QED
  BY <1>2, TypeParts, TypeAssembled DEF OthersTyped

LEMMA HeldRow ==
  ASSUME TypeOK, NEW w \in Workers, NEW from, Holds(w, from), pc[w] \notin {"idle", "next"},
         NEW to \in States \ {"none", "claimed", "dispatched"}
  PROVE  \E s : /\ Row(s) /\ s.state # "none" /\ windows[req[w].window].state # "none"
                /\ Set(w, to) = [windows EXCEPT ![req[w].window] = s]
<1> DEFINE k == req[w].window
           s == [windows[k] EXCEPT !.state = to, !.lease = "none"]
<1>1. k \in Windows
  BY TypeParts DEF PassesTyped, Passes
<1>2. windows[k] \in Summaries /\ Constrained(windows[k]) /\ windows[k].lease = "live"
  BY <1>1, TypeParts DEF WindowsTyped, Holds
<1>3. windows[k].state \in {"claimed", "dispatched"} /\ ~windows[k].due
  BY <1>2 DEF Constrained, Summaries
<1>4. Row(s) /\ s.state # "none" /\ windows[k].state # "none"
  BY <1>2, <1>3 DEF Row, Constrained, Summaries, States, Terminal
<1> QED
  BY <1>4 DEF Set

LEMMA FailTyped ==
  ASSUME TypeOK, NEW w \in Workers, pc[w] \notin {"idle", "next"}, NEW from,
         NEW to \in States \ {"none", "claimed", "dispatched"}, FailFrom(w, from, to),
         UNCHANGED <<count, memories, calls, sent>>
  PROVE  TypeOK'
<1>1. PassesTyped'
  BY ContinueTyped DEF FailFrom
<1>2. memories' \subseteq Candidates /\ calls' \in [Windows -> Nat] /\ sent' \in [Windows -> Nat]
  BY TypeParts DEF OthersTyped
<1> QED
  BY <1>1, <1>2, HeldRow, PassTyped DEF FailFrom

LEMMA DeferredRow ==
  ASSUME TypeOK, NEW k \in Windows, windows[k].state # "none"
  PROVE  Row(Deferred(k)) /\ Deferred(k).state # "none"
  BY TypeParts DEF Deferred, Row, Constrained, WindowsTyped, Summaries, States

\* One request of a call, sent after n retries.
LEMMA RequestTyped ==
  ASSUME TypeOK, NEW w \in Workers, NEW n \in Nat, Request(w, n), pc[w] \notin {"idle", "next"}
  PROVE  PassesTyped' /\ sent' \in [Windows -> Nat]
<1>1. sent' \in [Windows -> Nat]
  <2>1. req[w].window \in Windows /\ sent \in [Windows -> Nat]
    BY TypeParts DEF PassesTyped, Passes, OthersTyped
  <2>2. sent' = [sent EXCEPT ![req[w].window] = sent[req[w].window] + 1]
    BY DEF Request
  <2> QED
    BY <2>1, <2>2
<1>2. ASSUME NEW i \in 0 .. MaxRetries
      PROVE  LET pass == [req[w] EXCEPT !.retries = i]
             IN  pass \in Passes /\ pass.window # NoWindow
  BY TypeParts DEF PassesTyped, Passes
<1>3. \E label \in {"answered", "unanswered", "retry"}, i \in 0 .. MaxRetries :
        pc' = [pc EXCEPT ![w] = label] /\ req' = [req EXCEPT ![w].retries = i]
  <2>1. n < MaxRetries => n \in 0 .. MaxRetries
    BY Assumptions
  <2>2. 0 \in 0 .. MaxRetries
    BY Assumptions
  <2> QED
    BY <2>1, <2>2, Zenon DEF Request, Return
<1>4. PICK label \in {"answered", "unanswered", "retry"}, i \in 0 .. MaxRetries :
        pc' = [pc EXCEPT ![w] = label] /\ req' = [req EXCEPT ![w] = [req[w] EXCEPT !.retries = i]]
  BY <1>3
<1> QED
  BY <1>1, <1>2, <1>4, PassStays DEF Labels

LEMMA PassStepTyped == ASSUME TypeOK, NEW w \in Workers, PassStep(w) PROVE TypeOK'
<1> DEFINE k == req[w].window
<1>1. pc[w] \notin {"idle", "next"} => k \in Windows /\ windows[k] \in Summaries /\ Constrained(windows[k])
  BY TypeParts DEF PassesTyped, Passes, WindowsTyped
<1>2. memories \subseteq Candidates /\ calls \in [Windows -> Nat] /\ sent \in [Windows -> Nat]
  BY TypeParts DEF OthersTyped
<1>3. CASE Take(w)
  BY <1>3, TakeTyped
<1>4. CASE Postpone(w)
  <2>1. PassesTyped'
    BY <1>4, ContinueTyped DEF Postpone
  <2>2. Due(k) => windows[k].state # "none"
    BY DEF Due
  <2> QED
    BY <1>1, <1>2, <1>4, <2>1, <2>2, DeferredRow, PassTyped DEF Postpone
<1>5. CASE Claim(w)
  <2>1. CASE Continue(w) /\ UNCHANGED windows
    BY <1>2, <1>5, <2>1, ContinueTyped, PassTyped DEF Claim
  <2>2. CASE ~(Continue(w) /\ UNCHANGED windows)
    <3> DEFINE s == [state |-> "claimed", attempt |-> windows[k].attempt + 1, lease |-> "live",
                     due |-> FALSE]
               pass == [req[w] EXCEPT !.attempt = @ + 1]
    <3>1. /\ Due(k) /\ windows[k].attempt = req[w].attempt /\ req[w].attempt < MaxAttempt
          /\ windows' = [windows EXCEPT ![k] = s]
          /\ req' = [req EXCEPT ![w] = pass]
          /\ pc' = [pc EXCEPT ![w] = "sources"] /\ pc[w] = "admit"
      BY <1>5, <2>2 DEF Claim
    <3>2. Row(s) /\ s.state # "none" /\ windows[k].state # "none"
      BY <1>1, <3>1, Assumptions DEF Row, Constrained, Summaries, States, Attempts, Due
    <3>3. pass \in Passes /\ pass.window = req[w].window /\ req[w].window # NoWindow
      BY <3>1, TypeParts, Assumptions DEF PassesTyped, Passes, Attempts
    <3> HIDE DEF s, pass
    <3>4. PassesTyped'
      BY <3>1, <3>3, PassStays DEF Labels
    <3> QED
      BY <1>2, <1>5, <3>1, <3>2, <3>4, PassTyped DEF Claim
  <2> QED
    BY <2>1, <2>2
<1>6. CASE ReadSources(w)
  <2>1. CASE Goto(w, "eligible") /\ UNCHANGED windows
    BY <1>2, <1>6, <2>1, GotoTyped, PassTyped DEF ReadSources, Labels
  <2> QED
    BY <1>6, <2>1, FailTyped DEF ReadSources, States, Terminal
<1>7. CASE CheckEligible(w)
  <2>1. CASE Goto(w, "dispatch") /\ UNCHANGED windows
    BY <1>2, <1>7, <2>1, GotoTyped, PassTyped DEF CheckEligible, Labels
  <2>2. CASE Continue(w)
    <3>1. Holds(w, "claimed") => windows[k].state # "none"
      BY DEF Holds
    <3> QED
      BY <1>1, <1>2, <1>7, <2>2, <3>1, ContinueTyped, DeferredRow, PassTyped DEF CheckEligible, Goto
  <2> QED
    BY <1>7, <2>1, <2>2 DEF CheckEligible
<1>8. CASE StartDispatch(w)
  <2>1. PassesTyped'
    BY <1>8, ContinueTyped, StopTyped, GotoTyped DEF StartDispatch, Labels
  <2>2. Holds(w, "claimed") =>
          LET s == [windows[k] EXCEPT !.state = "dispatched", !.lease = "live"]
          IN  Row(s) /\ s.state # "none" /\ windows[k].state # "none"
    BY <1>1, <1>8 DEF StartDispatch, Holds, Row, Constrained, Summaries, States
  <2>3. windows' = windows \/ (Holds(w, "claimed") /\
          windows' = [windows EXCEPT ![k] = [windows[k] EXCEPT !.state = "dispatched", !.lease = "live"]])
    BY <1>8 DEF StartDispatch
  <2> QED
    BY <1>2, <1>8, <2>1, <2>2, <2>3, PassTyped DEF StartDispatch
<1>9. CASE Call(w)
  <2>1. calls' \in [Windows -> Nat] /\ sent' \in [Windows -> Nat] /\ PassesTyped'
    BY <1>1, <1>2, <1>9, RequestTyped, Assumptions DEF Call
  <2> QED
    BY <1>2, <1>9, <2>1, PassTyped DEF Call
<1>13. CASE Resend(w)
  <2>1. req[w].retries + 1 \in Nat
    BY <1>13, TypeParts, Assumptions DEF Resend, PassesTyped, Passes
  <2>2. sent' \in [Windows -> Nat] /\ PassesTyped'
    BY <1>13, <2>1, RequestTyped DEF Resend
  <2> QED
    BY <1>2, <1>13, <2>2, PassTyped DEF Resend
<1>10. CASE GiveUp(w)
  BY <1>10, FailTyped DEF GiveUp, States, Terminal
<1>11. CASE CheckAnswer(w)
  <2>1. CASE Goto(w, "finish") /\ UNCHANGED windows
    BY <1>2, <1>11, <2>1, GotoTyped, PassTyped DEF CheckAnswer, Labels
  <2> QED
    BY <1>11, <2>1, FailTyped DEF CheckAnswer, States, Terminal
<1>12. CASE Finish(w)
  <2>1. PassesTyped'
    BY <1>12, ContinueTyped, StopTyped DEF Finish
  <2>2. memories' \subseteq Candidates
    <3>1. [window |-> k, attempt |-> req[w].attempt] \in Candidates
      BY <1>1, <1>12, TypeParts DEF Finish, Candidates, PassesTyped, Passes
    <3> QED
      BY <1>2, <1>12, <3>1 DEF Finish
  <2>3. windows' = windows \/ (Holds(w, "dispatched") /\ windows' = Set(w, "saved"))
    BY <1>12 DEF Finish, Publishable
  <2> QED
    BY <1>2, <1>12, <2>1, <2>2, <2>3, HeldRow, PassTyped DEF Finish, States, Terminal
<1> QED
  BY <1>3, <1>4, <1>5, <1>6, <1>7, <1>8, <1>9, <1>10, <1>11, <1>12, <1>13 DEF PassStep

LEMMA TimeTyped ==
  ASSUME TypeOK, NEW k \in Windows, ExpireLease(k) \/ FallDue(k) PROVE TypeOK'
<1>1. windows[k] \in Summaries /\ Constrained(windows[k])
  BY TypeParts DEF WindowsTyped
<1>2. \E s : /\ Row(s) /\ s.state # "none" /\ windows[k].state # "none"
             /\ windows' = [windows EXCEPT ![k] = s]
  <2>1. CASE ExpireLease(k)
    <3> DEFINE s == [windows[k] EXCEPT !.lease = "expired"]
    <3>1. Row(s) /\ s.state # "none" /\ windows[k].state # "none"
      BY <1>1, <2>1 DEF ExpireLease, Row, Constrained, Summaries
    <3> QED
      BY <2>1, <3>1 DEF ExpireLease
  <2>2. CASE FallDue(k)
    <3> DEFINE s == [windows[k] EXCEPT !.due = TRUE]
    <3>1. Row(s) /\ s.state # "none" /\ windows[k].state # "none"
      BY <1>1, <2>2 DEF FallDue, Row, Constrained, Summaries
    <3> QED
      BY <2>2, <3>1 DEF FallDue
  <2> QED
    BY <2>1, <2>2
<1>3. WindowsTyped' /\ WindowsOpen'
  BY <1>2, WindowStep DEF ExpireLease, FallDue
<1> QED
  BY <1>3, TypeParts, TypeAssembled DEF ExpireLease, FallDue, PassesTyped, OthersTyped

LEMMA TypeInit == Init => TypeOK
<1>1. \A k \in Windows : ~(k * WindowTurns <= 0)
  BY Assumptions DEF Windows
<1>2. 0 \in 0 .. WindowTurns * MaxWindow
  BY Assumptions
<1> QED
  BY <1>1, <1>2, Assumptions
     DEF Init, TypeOK, NoSummary, NoPass, States, Terminal, Attempts, Labels, Windows, NoWindow

LEMMA TypeStep == TypeOK /\ [Next]_vars => TypeOK'
<1> SUFFICES ASSUME TypeOK, [Next]_vars PROVE TypeOK'
  OBVIOUS
<1>1. ASSUME NEW w \in Workers, Crash(w) PROVE TypeOK'
  BY <1>1, WindowsStay, StopTyped, TypeParts, TypeAssembled DEF Crash, OthersTyped
<1>2. CASE UNCHANGED vars
  BY <1>2, TypeParts, TypeAssembled, WindowsStay DEF vars, OthersTyped, PassesTyped
<1> QED
  BY <1>1, <1>2, ScanTyped, PassStepTyped, TimeTyped, CommitTyped DEF Next

\* Every variable keeps its type and the rows of the windows satisfy the table's
\* constraint; a window is open exactly when the turn that closes it is committed.
THEOREM TypeCorrect == Spec => []TypeOK
  BY TypeInit, TypeStep, PTL DEF Spec

------------------------------------------------------------------------------
(***************************************************************************)
(* Claims.                                                                 *)
(***************************************************************************)
\* What a worker past its claim knows of types.
LEMMA EngagedTyped ==
  ASSUME TypeOK, NEW w \in Workers, pc[w] \in Engaged \cup {"admit"}
  PROVE  /\ req[w].window \in Windows /\ req[w].attempt \in Nat
         /\ windows[req[w].window] \in Summaries /\ windows[req[w].window].attempt \in Nat
  BY TypeParts, Assumptions
     DEF Engaged, PassesTyped, Passes, WindowsTyped, Summaries, Attempts

\* No step but the claim of a window counts it as claimed once more.
Counts(k) == windows'[k].attempt = windows[k].attempt

LEMMA SameAttempt ==
  ASSUME TypeOK, NEW k \in Windows
  PROVE  /\ Swept(k).attempt = windows[k].attempt
         /\ Deferred(k).attempt = windows[k].attempt
         /\ \A state, lease : [windows[k] EXCEPT !.state = state, !.lease = lease].attempt
                               = windows[k].attempt
         /\ \A state, due : [windows[k] EXCEPT !.state = state, !.due = due].attempt
                               = windows[k].attempt
         /\ \A lease : [windows[k] EXCEPT !.lease = lease].attempt = windows[k].attempt
         /\ \A due : [windows[k] EXCEPT !.due = due].attempt = windows[k].attempt
  BY TypeParts DEF Swept, Deferred, WindowsTyped, Summaries

LEMMA RewriteCounts ==
  ASSUME TypeOK, NEW k, NEW s, k \in Windows => s.attempt = windows[k].attempt,
         windows' = [windows EXCEPT ![k] = s]
  PROVE  \A u \in Windows : Counts(u)
  BY TypeParts DEF WindowsTyped, Counts

LEMMA StepCounts ==
  ASSUME TypeOK, NEW w \in Workers, PassStep(w), ~Claim(w) \/ UNCHANGED windows
  PROVE  \A u \in Windows : Counts(u)
<1> DEFINE k == req[w].window
<1>1. CASE windows' = [windows EXCEPT ![k] = Deferred(k)]
  BY <1>1, SameAttempt, RewriteCounts
<1>2. CASE \E state, lease : windows' = [windows EXCEPT ![k] =
                                          [windows[k] EXCEPT !.state = state, !.lease = lease]]
  <2>1. PICK state, lease : windows' = [windows EXCEPT ![k] =
                                          [windows[k] EXCEPT !.state = state, !.lease = lease]]
    BY <1>2
  <2> DEFINE s == [windows[k] EXCEPT !.state = state, !.lease = lease]
  <2>2. k \in Windows => s.attempt = windows[k].attempt
    BY SameAttempt
  <2> HIDE DEF s
  <2> QED
    BY <2>1, <2>2, RewriteCounts DEF s
<1>3. CASE windows' = windows
  BY <1>3 DEF Counts
<1> QED
  BY <1>1, <1>2, <1>3
     DEF PassStep, Claim, Take, Postpone, ReadSources, CheckEligible, StartDispatch, Call, Resend,
         GiveUp, CheckAnswer, Finish, FailFrom, Set

LEMMA OtherCounts ==
  ASSUME TypeOK, \/ \E w \in Workers : Scan(w) \/ Crash(w)
                 \/ \E k \in Windows : ExpireLease(k) \/ FallDue(k)
                 \/ CommitTurn \/ UNCHANGED vars
  PROVE  \A u \in Windows : Counts(u)
<1>1. CASE \E w \in Workers : Scan(w)
  BY <1>1, SameAttempt DEF Scan, Counts
<1>2. ASSUME NEW k \in Windows, ExpireLease(k) PROVE \A u \in Windows : Counts(u)
  BY <1>2, SameAttempt, RewriteCounts DEF ExpireLease
<1>3. ASSUME NEW k \in Windows, FallDue(k) PROVE \A u \in Windows : Counts(u)
  BY <1>3, SameAttempt, RewriteCounts DEF FallDue
<1>4. CASE CommitTurn
  <2> DEFINE q == (count + 1) \div WindowTurns
             s == [windows[q] EXCEPT !.state = "pending", !.due = TRUE]
  <2>1. windows' = windows \/ windows' = [windows EXCEPT ![q] = s]
    BY <1>4 DEF CommitTurn
  <2>2. q \in Windows => s.attempt = windows[q].attempt
    BY SameAttempt
  <2> HIDE DEF q, s
  <2> QED
    BY <2>1, <2>2, RewriteCounts DEF Counts
<1> QED
  BY <1>1, <1>2, <1>3, <1>4 DEF Crash, vars, Counts

\* A worker keeps its claim, or is not past one any longer.
KeepsClaim(w) ==
    pc'[w] \in Engaged => /\ pc[w] \in Engaged
                          /\ req'[w].window = req[w].window
                          /\ req'[w].attempt = req[w].attempt

\* A worker that stays where it is, and one that goes on under its claim or ends it.
LEMMA KeepsClaims ==
  ASSUME TypeOK, NEW w \in Workers,
         \/ Continue(w)
         \/ Stop(w)
         \/ \E label \in Labels : Goto(w, label) /\ pc[w] \in Engaged
         \/ \E n : Request(w, n) /\ pc[w] \in Engaged
  PROVE  \A v \in Workers : KeepsClaim(v)
  BY TypeParts DEF PassesTyped, Passes, Continue, Stop, Goto, Request, Return, KeepsClaim, Engaged

LEMMA ClaimKept ==
  ASSUME TypeOK, ClaimInv, \A k \in Windows : Counts(k), \A w \in Workers : KeepsClaim(w)
  PROVE  ClaimInv'
  BY EngagedTyped DEF ClaimInv, KeepsClaim, Counts

LEMMA ClaimStep == TypeOK /\ ClaimInv /\ [Next]_vars => ClaimInv'
<1> SUFFICES ASSUME TypeOK, ClaimInv, [Next]_vars PROVE ClaimInv'
  OBVIOUS
<1>1. ASSUME NEW w \in Workers, Claim(w), ~(Continue(w) /\ UNCHANGED windows) PROVE ClaimInv'
  <2> DEFINE k == req[w].window
  <2>1. /\ k \in Windows /\ windows[k].attempt \in Nat /\ windows[k].attempt = req[w].attempt
        /\ pc[w] = "admit"
    BY <1>1, EngagedTyped DEF Claim
  <2>2. /\ windows' = [windows EXCEPT ![k] = [state |-> "claimed", lease |-> "live", due |-> FALSE,
                                              attempt |-> windows[k].attempt + 1]]
        /\ req' = [req EXCEPT ![w].attempt = @ + 1]
        /\ pc' = [pc EXCEPT ![w] = "sources"]
    BY <1>1 DEF Claim
  <2>3. /\ windows'[k].attempt = windows[k].attempt + 1
        /\ \A u \in Windows \ {k} : windows'[u] = windows[u]
    BY <2>1, <2>2, TypeParts DEF WindowsTyped
  <2>4. /\ req'[w].window = k /\ req'[w].attempt = windows[k].attempt + 1
        /\ \A v \in Workers \ {w} : req'[v] = req[v] /\ pc'[v] = pc[v]
    BY <2>1, <2>2, TypeParts DEF PassesTyped, Passes
  <2>5. ASSUME NEW v \in Workers \ {w}, pc'[v] \in Engaged
        PROVE  /\ req'[v].attempt \in 1 .. windows'[req'[v].window].attempt
               /\ req'[v].window = k => req'[v].attempt < req'[w].attempt
    <3>1. req[v].attempt \in 1 .. windows[req[v].window].attempt /\ req[v].window \in Windows
      BY <2>4, <2>5, EngagedTyped DEF ClaimInv
    <3>2. windows[req[v].window].attempt \in Nat
      BY <2>4, <2>5, EngagedTyped
    <3> QED
      BY <2>1, <2>3, <2>4, <3>1, <3>2
  <2> QED
    BY <2>1, <2>3, <2>4, <2>5 DEF ClaimInv
<1>2. ASSUME NEW w \in Workers, PassStep(w), ~Claim(w) \/ (Continue(w) /\ UNCHANGED windows)
      PROVE  ClaimInv'
  <2>1. \A k \in Windows : Counts(k)
    BY <1>2, StepCounts
  <2>2. \A v \in Workers : KeepsClaim(v)
    <3>1. CASE Take(w)
      BY <3>1, KeepsClaims, TypeParts DEF Take, KeepsClaim, Engaged, PassesTyped
    <3>2. CASE ~Take(w)
      BY <1>2, <3>2, KeepsClaims
         DEF PassStep, Claim, Postpone, ReadSources, CheckEligible, StartDispatch, Call, Resend,
             GiveUp, CheckAnswer, Finish, FailFrom, Engaged, Labels
    <3> QED
      BY <3>1, <3>2
  <2> QED
    BY <2>1, <2>2, ClaimKept
<1>3. ASSUME NEW w \in Workers, Scan(w) \/ Crash(w) PROVE ClaimInv'
  <2>1. \A k \in Windows : Counts(k)
    BY <1>3, OtherCounts
  <2>2. \A v \in Workers : KeepsClaim(v)
    BY <1>3, KeepsClaims, TypeParts DEF Scan, Crash, KeepsClaim, PassesTyped, Engaged
  <2> QED
    BY <2>1, <2>2, ClaimKept
<1>4. CASE \/ \E k \in Windows : ExpireLease(k) \/ FallDue(k)
           \/ CommitTurn \/ UNCHANGED vars
  <2>1. \A k \in Windows : Counts(k)
    BY <1>4, OtherCounts
  <2>2. \A v \in Workers : KeepsClaim(v)
    BY <1>4 DEF ExpireLease, FallDue, CommitTurn, vars, KeepsClaim
  <2> QED
    BY <2>1, <2>2, ClaimKept
<1> QED
  BY <1>1, <1>2, <1>3, <1>4 DEF Next

------------------------------------------------------------------------------
(***************************************************************************)
(* Calls.                                                                  *)
(***************************************************************************)
\* A summary is published, and its window closed, by the worker that holds it.
Publishes(w) ==
    /\ Finish(w) /\ Publishable(w)
    /\ memories' = memories \cup {[window |-> req[w].window, attempt |-> req[w].attempt]}
    /\ windows' = Set(w, "saved")

\* What one step may do to the state of a window: nothing, move it between the states
\* before the dispatch, record the dispatch, or close it.
StateStep(k) ==
    \/ windows'[k].state = windows[k].state
    \/ ~Dispatched(k) /\ windows'[k].state # "saved"
    \/ windows[k].state = "dispatched" /\ windows'[k].state \in {"failed", "unknown"}
    \/ \E w \in Workers : Publishes(w) /\ req[w].window = k

LEMMA RewriteStep ==
  ASSUME TypeOK, NEW k \in Windows, NEW s, windows' = [windows EXCEPT ![k] = s],
         \/ s.state = windows[k].state
         \/ ~Dispatched(k) /\ s.state # "saved"
         \/ windows[k].state = "dispatched" /\ s.state \in {"failed", "unknown"}
  PROVE  \A u \in Windows : StateStep(u)
  BY TypeParts DEF WindowsTyped, StateStep

LEMMA FailStep ==
  ASSUME TypeOK, NEW w \in Workers, pc[w] \in Engaged, NEW from, NEW to, FailFrom(w, from, to),
         \/ from = "claimed" /\ to = "failed"
         \/ from = "dispatched" /\ to \in {"failed", "unknown"}
  PROVE  \A u \in Windows : StateStep(u)
<1> DEFINE k == req[w].window
           s == [windows[k] EXCEPT !.state = to, !.lease = "none"]
<1>1. k \in Windows /\ windows[k] \in Summaries
  BY EngagedTyped
<1>2. CASE Holds(w, from)
  <2>1. windows' = [windows EXCEPT ![k] = s] /\ s.state = to
    BY <1>1, <1>2 DEF FailFrom, Set, Summaries
  <2>2. windows[k].state = from
    BY <1>2 DEF Holds
  <2> HIDE DEF s
  <2> QED
    BY <1>1, <2>1, <2>2, RewriteStep DEF Dispatched, Terminal
<1>3. CASE ~Holds(w, from)
  BY <1>3 DEF FailFrom, StateStep
<1> QED
  BY <1>2, <1>3

LEMMA StateSteps ==
  ASSUME TypeOK, [Next]_vars PROVE \A u \in Windows : StateStep(u)
<1>1. ASSUME NEW w \in Workers, PassStep(w) PROVE \A u \in Windows : StateStep(u)
  <2> DEFINE k == req[w].window
  <2>1. CASE Postpone(w)
    <3>1. k \in Windows /\ windows[k] \in Summaries
      BY <2>1, EngagedTyped DEF Postpone
    <3>2. Deferred(k).state = "pending"
      BY <3>1 DEF Deferred, Summaries
    <3> QED
      BY <2>1, <3>1, <3>2, RewriteStep DEF Postpone, Due, Dispatched, Terminal, StateStep
  <2>2. CASE Claim(w)
    BY <2>2, EngagedTyped, RewriteStep DEF Claim, Due, Dispatched, Terminal, StateStep
  <2>3. CASE ReadSources(w)
    BY <2>3, FailStep DEF ReadSources, Engaged, StateStep
  <2>4. CASE CheckEligible(w)
    <3>1. k \in Windows /\ windows[k] \in Summaries
      BY <2>4, EngagedTyped DEF CheckEligible, Engaged
    <3>2. Deferred(k).state = "pending"
      BY <3>1 DEF Deferred, Summaries
    <3> QED
      BY <2>4, <3>1, <3>2, RewriteStep DEF CheckEligible, Holds, Dispatched, Terminal, StateStep
  <2>5. CASE StartDispatch(w)
    <3> DEFINE s == [windows[k] EXCEPT !.state = "dispatched", !.lease = "live"]
    <3>1. k \in Windows /\ s.state = "dispatched"
      BY <2>5, EngagedTyped DEF StartDispatch, Engaged, Summaries
    <3>2. windows' = windows \/ (Holds(w, "claimed") /\ windows' = [windows EXCEPT ![k] = s])
      BY <2>5 DEF StartDispatch
    <3> HIDE DEF s
    <3> QED
      BY <3>1, <3>2, RewriteStep DEF Holds, Dispatched, Terminal, StateStep
  <2>6. CASE GiveUp(w)
    BY <2>6, FailStep DEF GiveUp, Engaged, StateStep
  <2>7. CASE CheckAnswer(w)
    BY <2>7, FailStep DEF CheckAnswer, Engaged, StateStep
  <2>8. CASE Finish(w)
    <3>1. CASE Publishes(w)
      <4>1. k \in Windows /\ \A u \in Windows \ {k} : windows'[u] = windows[u]
        BY <2>8, <3>1, EngagedTyped, TypeParts DEF Publishes, Set, Finish, Engaged, WindowsTyped
      <4> QED
        BY <3>1, <4>1 DEF StateStep
    <3> QED
      BY <2>8, <3>1 DEF Finish, Publishes, StateStep
  <2> QED
    BY <1>1, <2>1, <2>2, <2>3, <2>4, <2>5, <2>6, <2>7, <2>8
       DEF PassStep, Take, Call, Resend, StateStep
<1>2. ASSUME NEW w \in Workers, Scan(w) PROVE \A u \in Windows : StateStep(u)
  <2>1. \A u \in Windows : Expired(u) => \/ windows[u].state = "claimed" /\ Swept(u).state = "pending"
                                         \/ windows[u].state = "dispatched" /\ Swept(u).state = "unknown"
    BY TypeParts DEF Expired, Swept, WindowsTyped, Summaries
  <2> QED
    BY <1>2, <2>1 DEF Scan, StateStep, Dispatched, Terminal
<1>3. ASSUME NEW k \in Windows, ExpireLease(k) \/ FallDue(k) PROVE \A u \in Windows : StateStep(u)
  <2>1. windows[k] \in Summaries
    BY TypeParts DEF WindowsTyped
  <2>2. /\ [windows[k] EXCEPT !.lease = "expired"].state = windows[k].state
        /\ [windows[k] EXCEPT !.due = TRUE].state = windows[k].state
    BY <2>1 DEF Summaries
  <2> QED
    BY <1>3, <2>2, RewriteStep DEF ExpireLease, FallDue
<1>4. CASE CommitTurn
  <2> DEFINE q == (count + 1) \div WindowTurns
             s == [windows[q] EXCEPT !.state = "pending", !.due = TRUE]
  <2>1. CASE (count + 1) % WindowTurns = 0
    <3>1. windows' = [windows EXCEPT ![q] = s]
      BY <1>4, <2>1 DEF CommitTurn
    <3>2. q \in Windows /\ windows[q].state = "none"
      BY <1>4, <2>1, CommitOpens
    <3> HIDE DEF q
    <3>3. s.state = "pending"
      BY <3>2, TypeParts DEF WindowsTyped, Summaries
    <3> HIDE DEF s
    <3> QED
      BY <3>1, <3>2, <3>3, RewriteStep DEF Dispatched, Terminal
  <2> QED
    BY <1>4, <2>1 DEF CommitTurn, StateStep
<1> QED
  BY <1>1, <1>2, <1>3, <1>4 DEF Next, Crash, vars, StateStep

\* A closed or dispatched window stays so, under the claim it has.
LEMMA DispatchedStays ==
  ASSUME TypeOK, [Next]_vars, NEW k \in Windows, Dispatched(k)
  PROVE  Dispatched(k)' /\ windows'[k].attempt = windows[k].attempt
<1>1. windows[k] \in Summaries
  BY TypeParts DEF WindowsTyped
<1>2. Dispatched(k)'
  <2>1. CASE \E w \in Workers : Publishes(w) /\ req[w].window = k
    BY <1>1, <2>1, TypeParts DEF Publishes, Set, WindowsTyped, Summaries, Dispatched, Terminal
  <2> QED
    BY <2>1, StateSteps DEF StateStep, Dispatched, Terminal
<1>3. ASSUME NEW w \in Workers, Claim(w) PROVE windows'[k] = windows[k]
  <2>1. ~Due(k)
    BY DEF Due, Dispatched, Terminal
  <2> QED
    BY <1>3, <2>1, TypeParts DEF Claim, WindowsTyped
<1> QED
  BY <1>2, <1>3, StepCounts, OtherCounts DEF Next, Counts

\* What a request of a call changes: its worker goes on with the answer or the error,
\* or to the next retry, under the same claim; one more request is counted.
LEMMA RequestStep ==
  ASSUME TypeOK, NEW w \in Workers, NEW n, Request(w, n), pc[w] \in Engaged
  PROVE  /\ pc'[w] \in {"answered", "unanswered", "retry"}
         /\ req'[w].window = req[w].window /\ req'[w].attempt = req[w].attempt
         /\ pc'[w] = "retry" => req'[w].retries = n /\ n < MaxRetries
         /\ \A v \in Workers \ {w} : pc'[v] = pc[v] /\ req'[v] = req[v]
         /\ sent'[req[w].window] = sent[req[w].window] + 1
         /\ \A u \in Windows \ {req[w].window} : sent'[u] = sent[u]
<1>1. sent' = [sent EXCEPT ![req[w].window] = sent[req[w].window] + 1]
      /\ req[w].window \in Windows /\ sent \in [Windows -> Nat]
  BY EngagedTyped, TypeParts DEF Request, OthersTyped
<1>2. \/ pc' = [pc EXCEPT ![w] = "answered"] /\ req' = [req EXCEPT ![w].retries = 0]
      \/ pc' = [pc EXCEPT ![w] = "unanswered"] /\ req' = [req EXCEPT ![w].retries = 0]
      \/ pc' = [pc EXCEPT ![w] = "retry"] /\ req' = [req EXCEPT ![w].retries = n] /\ n < MaxRetries
  BY DEF Request, Return
<1>3. pc \in [Workers -> Labels] /\ req \in [Workers -> Passes]
  BY TypeParts DEF PassesTyped
<1> QED
  BY <1>1, <1>2, <1>3 DEF Passes

\* Where a worker at or past its call comes from.
Enters(w) ==
    \/ pc[w] = pc'[w] /\ pc[w] \in {"call"} \cup Served
    \/ pc[w] \in Served /\ pc'[w] \in Served
    \/ pc'[w] = "call" /\ StartDispatch(w) /\ Holds(w, "claimed")
    \/ Call(w)

SameClaim(w) == req'[w].window = req[w].window /\ req'[w].attempt = req[w].attempt

LEMMA EntersCall ==
  ASSUME TypeOK, [Next]_vars, NEW w \in Workers, pc'[w] \in {"call"} \cup Served
  PROVE  SameClaim(w) /\ pc[w] \in Engaged /\ Enters(w)
<1>1. ASSUME NEW v \in Workers, Continue(v) \/ Stop(v)
      PROVE  req'[w] = req[w] /\ pc'[w] = pc[w]
  BY <1>1, TypeParts DEF Continue, Stop, PassesTyped, Served
<1>2. ASSUME NEW v \in Workers, PassStep(v), v # w
      PROVE  req'[w] = req[w] /\ pc'[w] = pc[w]
  BY <1>2, TypeParts
     DEF PassStep, Take, Postpone, Claim, ReadSources, CheckEligible, StartDispatch, Call, Resend,
         Request, Return, GiveUp, CheckAnswer, Finish, FailFrom, Continue, Stop, Goto, PassesTyped
<1>3. ASSUME PassStep(w) PROVE SameClaim(w) /\ pc[w] \in Engaged /\ Enters(w)
  <2>1. CASE StartDispatch(w)
    BY <1>1, <2>1, TypeParts
       DEF StartDispatch, Goto, PassesTyped, Enters, SameClaim, Served, Engaged
  <2>2. CASE Call(w)
    BY <2>2, RequestStep DEF Call, Enters, SameClaim, Engaged
  <2>3. CASE Resend(w)
    BY <2>3, RequestStep DEF Resend, Enters, SameClaim, Served, Engaged
  <2>4. CASE CheckAnswer(w)
    BY <1>1, <2>4, TypeParts
       DEF CheckAnswer, FailFrom, Goto, PassesTyped, Enters, SameClaim, Served, Engaged
  <2>5. CASE Take(w)
    BY <1>1, <2>5, TypeParts DEF Take, PassesTyped, Served
  <2>6. CASE Claim(w)
    BY <1>1, <2>6, TypeParts DEF Claim, PassesTyped, Served
  <2> QED
    BY <1>1, <1>3, <2>1, <2>2, <2>3, <2>4, <2>5, <2>6, TypeParts
       DEF PassStep, Postpone, ReadSources, CheckEligible, GiveUp, Finish, FailFrom, Goto,
           PassesTyped, Served, Engaged, Enters, SameClaim
<1>4. ASSUME NEW v \in Workers, Scan(v) \/ Crash(v) PROVE req'[w] = req[w] /\ pc'[w] = pc[w]
  BY <1>1, <1>4, TypeParts DEF Scan, Crash, PassesTyped, Served
<1> QED
  BY <1>2, <1>3, <1>4
     DEF Next, ExpireLease, FallDue, CommitTurn, vars, Enters, SameClaim, Served, Engaged

\* Only a call is counted as one, and only a worker that holds its window publishes.
LEMMA OnlyCalls ==
  ASSUME [Next]_vars, \A w \in Workers : ~Call(w) PROVE calls' = calls
  BY DEF Next, PassStep, Take, Postpone, Claim, ReadSources, CheckEligible, StartDispatch, Resend,
         GiveUp, CheckAnswer, Finish, Scan, Crash, ExpireLease, FallDue, CommitTurn, vars

LEMMA OnlySends ==
  ASSUME [Next]_vars, \A w \in Workers : ~Call(w) /\ ~Resend(w) PROVE sent' = sent
  BY DEF Next, PassStep, Take, Postpone, Claim, ReadSources, CheckEligible, StartDispatch, GiveUp,
         CheckAnswer, Finish, Scan, Crash, ExpireLease, FallDue, CommitTurn, vars

LEMMA OnlyRetries ==
  ASSUME TypeOK, [Next]_vars, \A v \in Workers : ~Call(v) /\ ~Resend(v),
         NEW w \in Workers, pc'[w] = "retry"
  PROVE  pc[w] = "retry" /\ req'[w] = req[w]
<1>1. ASSUME NEW v \in Workers, Continue(v) \/ Stop(v) PROVE pc[w] = "retry" /\ req'[w] = req[w]
  BY <1>1, TypeParts DEF Continue, Stop, PassesTyped
<1>2. ASSUME NEW v \in Workers, NEW label \in Labels \ {"retry"}, Goto(v, label)
      PROVE  pc[w] = "retry" /\ req'[w] = req[w]
  BY <1>2, TypeParts DEF Goto, PassesTyped
<1>3. ASSUME NEW v \in Workers, Scan(v) \/ Take(v) \/ Claim(v)
      PROVE  pc[w] = "retry" /\ req'[w] = req[w]
  BY <1>1, <1>3, TypeParts DEF Scan, Take, Claim, PassesTyped
<1> QED
  BY <1>1, <1>2, <1>3
     DEF Next, PassStep, Postpone, ReadSources, CheckEligible, StartDispatch, GiveUp, CheckAnswer,
         Finish, FailFrom, Crash, ExpireLease, FallDue, CommitTurn, vars, Labels

LEMMA OnlyPublishes ==
  ASSUME [Next]_vars, \A w \in Workers : ~Publishes(w) PROVE memories' = memories
  BY DEF Next, PassStep, Take, Postpone, Claim, ReadSources, CheckEligible, StartDispatch, GiveUp,
         CheckAnswer, Finish, Publishes, Scan, Crash, ExpireLease, FallDue, CommitTurn, vars,
         Call, Resend

LEMMA CallStep == TypeOK /\ ClaimInv /\ CallInv /\ [Next]_vars => CallInv'
<1> SUFFICES ASSUME TypeOK, ClaimInv, CallInv, [Next]_vars PROVE CallInv'
  OBVIOUS
<1>0. memories \subseteq Candidates /\ calls \in [Windows -> Nat] /\ sent \in [Windows -> Nat]
  BY TypeParts DEF OthersTyped
<1>1. ASSUME NEW w \in Workers, Call(w) PROVE CallInv'
  <2> DEFINE k == req[w].window
  <2>1. k \in Windows /\ pc[w] = "call" /\ Dispatched(k) /\ windows[k].attempt = req[w].attempt
    BY <1>1, EngagedTyped DEF Call, CallInv, Engaged
  <2>2. calls[k] = 0
    BY <1>1, <2>1 DEF CallInv
  <2>3. calls'[k] = 1 /\ \A u \in Windows \ {k} : calls'[u] = calls[u]
    BY <1>0, <1>1, <2>1, <2>2 DEF Call
  <2>4. /\ UNCHANGED <<windows, memories>>
        /\ pc'[w] \in {"answered", "unanswered", "retry"} /\ SameClaim(w)
        /\ \A v \in Workers \ {w} : pc'[v] = pc[v] /\ req'[v] = req[v]
    BY <1>1, <2>1, RequestStep DEF Call, Engaged, SameClaim
  <2>5. \A v \in Workers \ {w} : pc[v] \in {"call"} \cup Served => req[v].window # k
    BY <2>1 DEF ClaimInv, CallInv, Engaged, Served
  <2>6. \A v \in Workers : pc[v] \in {"call"} \cup Served => req[v].window \in Windows
    BY EngagedTyped DEF Engaged, Served
  <2>7. \A v \in Workers : pc'[v] \in {"call"} \cup Served =>
          /\ Dispatched(req'[v].window)
          /\ windows[req'[v].window].attempt = req'[v].attempt
          /\ calls'[req'[v].window] = IF pc'[v] = "call" THEN 0 ELSE 1
    BY <2>1, <2>3, <2>4, <2>5, <2>6 DEF CallInv, SameClaim
  <2>8. PublishedByItsCall'
    <3>1. \A m \in memories : m.window # k /\ m.window \in Windows
      BY <1>0, <2>2 DEF CallInv, PublishedByItsCall, Candidates
    <3> QED
      BY <2>3, <2>4, <3>1 DEF CallInv, PublishedByItsCall
  <2>9. \A u \in Windows : calls'[u] = 0 \/ (calls'[u] = 1 /\ Dispatched(u)')
    BY <2>1, <2>3, <2>4 DEF CallInv, Dispatched
  <2> QED
    BY <2>4, <2>7, <2>8, <2>9 DEF CallInv, Dispatched
<1>2. ASSUME \A w \in Workers : ~Call(w) PROVE CallInv'
  <2>1. calls' = calls
    BY <1>2, OnlyCalls
  <2>2. \A u \in Windows : calls'[u] = 0 \/ (calls'[u] = 1 /\ Dispatched(u)')
    BY <2>1, DispatchedStays DEF CallInv
  <2>3. ASSUME NEW w \in Workers, pc'[w] \in {"call"} \cup Served
        PROVE  /\ Dispatched(req[w].window)'
               /\ windows'[req'[w].window].attempt = req'[w].attempt
               /\ calls'[req'[w].window] = IF pc'[w] = "call" THEN 0 ELSE 1
    <3>1. SameClaim(w) /\ Enters(w) /\ req[w].window \in Windows
      BY <2>3, EntersCall, EngagedTyped
    <3>2. CASE pc[w] \in {"call"} \cup Served
      <4>1. calls[req[w].window] = IF pc'[w] = "call" THEN 0 ELSE 1
        BY <1>2, <3>1, <3>2 DEF CallInv, Enters, Served, StartDispatch
      <4> QED
        BY <2>1, <3>1, <3>2, <4>1, DispatchedStays DEF CallInv, SameClaim, Dispatched
    <3>3. CASE pc'[w] = "call" /\ StartDispatch(w) /\ Holds(w, "claimed")
      <4> DEFINE k == req[w].window
      <4>1. windows'[k] = [windows[k] EXCEPT !.state = "dispatched", !.lease = "live"]
        BY <3>1, <3>3, TypeParts DEF StartDispatch, WindowsTyped
      <4>2. windows[k] \in Summaries /\ windows[k].state = "claimed"
            /\ windows[k].attempt = req[w].attempt
        BY <3>1, <3>3, TypeParts DEF WindowsTyped, Holds
      <4>3. windows'[k].state = "dispatched" /\ windows'[k].attempt = req[w].attempt
        BY <4>1, <4>2 DEF Summaries
      <4>4. calls[k] = 0
        BY <3>1, <4>2 DEF CallInv, Dispatched, Terminal
      <4> QED
        BY <2>1, <3>1, <3>3, <4>3, <4>4 DEF Dispatched, SameClaim
    <3> QED
      BY <1>2, <3>1, <3>2, <3>3 DEF Enters, Served
  <2>4. PublishedByItsCall'
    <3>1. ASSUME NEW w \in Workers, Publishes(w) PROVE PublishedByItsCall'
      <4> DEFINE k == req[w].window
                 m0 == [window |-> k, attempt |-> req[w].attempt]
      <4>1. /\ k \in Windows /\ pc[w] = "finish" /\ calls[k] = 1
            /\ windows[k] \in Summaries /\ windows[k].attempt = req[w].attempt
        BY <3>1, EngagedTyped DEF Publishes, Finish, Engaged, CallInv, Served
      <4>2. /\ windows'[k].state = "saved" /\ windows'[k].attempt = req[w].attempt
            /\ \A u \in Windows \ {k} : windows'[u] = windows[u]
        BY <3>1, <4>1, TypeParts DEF Publishes, Set, WindowsTyped, Summaries
      <4>3. memories' = memories \cup {m0} /\ \A m \in memories : m.window # k
        BY <3>1 DEF Publishes, Publishable
      <4>4. \A m \in memories : m.window \in Windows
        BY <1>0 DEF Candidates
      <4>5. m0.window = k /\ m0.attempt = req[w].attempt
        OBVIOUS
      <4> HIDE DEF m0
      <4>6. ASSUME NEW m \in memories'
            PROVE  /\ windows'[m.window].state = "saved"
                   /\ windows'[m.window].attempt = m.attempt
                   /\ calls'[m.window] = 1
        <5>1. CASE m = m0
          BY <2>1, <4>1, <4>2, <4>5, <5>1
        <5>2. CASE m \in memories
          BY <2>1, <4>2, <4>3, <4>4, <5>2 DEF PublishedByItsCall, CallInv
        <5> QED
          BY <4>3, <4>6, <5>1, <5>2
      <4>7. ASSUME NEW u \in Windows, windows'[u].state = "saved"
            PROVE  \E m \in memories' : m.window = u
        <5>1. CASE u = k
          BY <4>3, <4>5, <5>1
        <5>2. CASE u # k
          BY <4>2, <4>3, <4>7, <5>2 DEF PublishedByItsCall, CallInv
        <5> QED
          BY <5>1, <5>2
      <4> QED
        BY <4>6, <4>7 DEF PublishedByItsCall
    <3>2. ASSUME \A w \in Workers : ~Publishes(w) PROVE PublishedByItsCall'
      <4>1. memories' = memories
        BY <3>2, OnlyPublishes
      <4>2. \A u \in Windows : windows'[u].state = "saved" <=> windows[u].state = "saved"
        BY <3>2, StateSteps DEF StateStep, Dispatched, Terminal
      <4>3. \A m \in memories : m.window \in Windows /\ windows[m.window].state = "saved"
        BY <1>0 DEF Candidates, CallInv, PublishedByItsCall
      <4>4. \A m \in memories : windows'[m.window].attempt = windows[m.window].attempt
        BY <4>3, DispatchedStays DEF Dispatched, Terminal
      <4> QED
        BY <2>1, <4>1, <4>2, <4>3, <4>4 DEF CallInv, PublishedByItsCall
    <3> QED
      BY <3>1, <3>2
  <2> QED
    BY <2>2, <2>3, <2>4 DEF CallInv
<1> QED
  BY <1>1, <1>2

------------------------------------------------------------------------------
(***************************************************************************)
(* Requests.                                                               *)
(***************************************************************************)
LEMMA SentStep == TypeOK /\ ClaimInv /\ CallInv /\ SentInv /\ [Next]_vars => SentInv'
<1> SUFFICES ASSUME TypeOK, ClaimInv, CallInv, SentInv, [Next]_vars PROVE SentInv'
  OBVIOUS
<1>0. /\ calls \in [Windows -> Nat] /\ sent \in [Windows -> Nat] /\ MaxRetries \in Nat
      /\ \A v \in Workers : req[v].retries \in Nat
  BY TypeParts, Assumptions DEF OthersTyped, PassesTyped, Passes
\* Of the workers in the call of a window there is one.
<1>1. ASSUME NEW w \in Workers, NEW v \in Workers \ {w},
             pc[w] \in {"call"} \cup Served, pc[v] \in {"call"} \cup Served
      PROVE  req[v].window # req[w].window
  BY <1>1 DEF ClaimInv, CallInv, Engaged, Served
\* A request sent after n retries leaves the invariant with its worker and with the others.
<1>2. ASSUME NEW w \in Workers, NEW n \in Nat, Request(w, n), pc[w] \in {"call", "retry"},
             n <= MaxRetries, sent[req[w].window] <= n, calls'[req[w].window] # 0,
             \A u \in Windows \ {req[w].window} : calls'[u] = calls[u]
      PROVE  SentInv'
  <2> DEFINE k == req[w].window
  <2>1. k \in Windows
    BY <1>2, EngagedTyped DEF Engaged
  <2>2. /\ req'[w].window = k
        /\ pc'[w] = "retry" => req'[w].retries = n /\ n < MaxRetries
        /\ \A v \in Workers \ {w} : pc'[v] = pc[v] /\ req'[v] = req[v]
        /\ sent'[k] = sent[k] + 1
        /\ \A u \in Windows \ {k} : sent'[u] = sent[u]
    BY <1>2, RequestStep DEF Engaged
  <2>3. \A u \in Windows : sent'[u] <= 1 + MaxRetries /\ (calls'[u] = 0 => sent'[u] = 0)
    BY <1>0, <1>2, <2>1, <2>2 DEF SentInv
  <2>4. ASSUME NEW v \in Workers \ {w}, pc'[v] = "retry"
        PROVE  sent'[req'[v].window] <= req'[v].retries + 1 /\ req'[v].retries < MaxRetries
    <3>1. req[v].window \in Windows \ {k}
      BY <1>1, <1>2, <2>2, <2>4, EngagedTyped DEF Engaged, Served
    <3> QED
      BY <2>2, <2>4, <3>1 DEF SentInv
  <2>5. pc'[w] = "retry" =>
          sent'[req'[w].window] <= req'[w].retries + 1 /\ req'[w].retries < MaxRetries
    BY <1>0, <1>2, <2>1, <2>2
  <2> QED
    BY <2>3, <2>4, <2>5 DEF SentInv
<1>3. ASSUME NEW w \in Workers, Call(w) PROVE SentInv'
  <2> DEFINE k == req[w].window
  <2>1. k \in Windows /\ pc[w] = "call" /\ calls[k] = 0 /\ Request(w, 0)
    BY <1>3, EngagedTyped DEF Call, CallInv, Engaged
  <2>2. sent[k] <= 0
    BY <1>0, <2>1 DEF SentInv
  <2>3. calls'[k] # 0 /\ \A u \in Windows \ {k} : calls'[u] = calls[u]
    BY <1>0, <1>3, <2>1 DEF Call
  <2> QED
    BY <1>0, <1>2, <2>1, <2>2, <2>3
<1>4. ASSUME NEW w \in Workers, Resend(w) PROVE SentInv'
  <2> DEFINE k == req[w].window
             n == req[w].retries + 1
  <2>1. k \in Windows /\ pc[w] = "retry" /\ Request(w, n) /\ calls' = calls
    BY <1>4, EngagedTyped DEF Resend, Engaged
  <2>2. sent[k] <= n /\ n <= MaxRetries /\ n \in Nat
    BY <1>0, <2>1 DEF SentInv
  <2>3. calls[k] # 0
    BY <1>0, <2>1 DEF CallInv, Served
  <2> QED
    BY <1>2, <2>1, <2>2, <2>3
<1>5. ASSUME \A w \in Workers : ~Call(w) /\ ~Resend(w) PROVE SentInv'
  <2>1. calls' = calls /\ sent' = sent
    BY <1>5, OnlyCalls, OnlySends
  <2>2. ASSUME NEW w \in Workers, pc'[w] = "retry" PROVE pc[w] = "retry" /\ req'[w] = req[w]
    BY <1>5, <2>2, OnlyRetries
  <2> QED
    BY <2>1, <2>2 DEF SentInv
<1> QED
  BY <1>3, <1>4, <1>5

LEMMA SummaryInit == Init => SummaryInv
  BY Assumptions
     DEF Init, SummaryInv, ClaimInv, CallInv, SentInv, PublishedByItsCall, NoSummary, Engaged, Served

LEMMA SummaryInvariant == Spec => []SummaryInv
<1>1. TypeOK /\ SummaryInv /\ [Next]_vars => SummaryInv'
  BY ClaimStep, CallStep, SentStep DEF SummaryInv
<1> QED
  BY <1>1, TypeInit, TypeStep, SummaryInit, PTL DEF Spec

\* However often a window is claimed, by however many workers, and whatever expires, is
\* lost or dies in between, one logical call is made for it, with no more requests to
\* the provider than its first and its retries.
THEOREM CalledAtMostOnce == Spec => []CalledOnce
<1>1. SummaryInv => CalledOnce
  BY DEF SummaryInv, CallInv, SentInv, CalledOnce
<1> QED
  BY <1>1, SummaryInvariant, PTL

\* finish_summary: what is published for a window is the answer to its one logical call,
\* under the claim that made it, and a window is saved exactly when its summary is
\* published.
THEOREM PublishedFromItsCall == Spec => []PublishedByItsCall
  BY SummaryInvariant, PTL DEF SummaryInv, CallInv
==============================================================================
