----------------------------- MODULE ChatSummary -----------------------------
(***************************************************************************)
(* Conversation summaries of one (user, character, novel) scope of the     *)
(* agent service.  Every WindowTurns-th numbered turn that ChatTurn commits *)
(* opens a window; the summary worker of each service process scans for    *)
(* due windows, claims one, dispatches it to the model, and publishes the  *)
(* answer as a memory.  The call costs money: one logical call is made for *)
(* a window, however uncertain its outcome.  Inside it the client of the   *)
(* model repeats a refused or uncertain request a few times.               *)
(***************************************************************************)
EXTENDS Integers, FiniteSets

CONSTANTS
    Workers,        \* summary workers, one per service process
    WindowTurns,    \* turns per window (10 in the code)
    MaxRetries,     \* requests repeated within one call (MAX_RETRIES, 3 in the code)
    MaxWindow,      \* bound: windows of the scope
    MaxAttempt      \* bound: claims of one window

ASSUME Assumptions ==
    /\ WindowTurns \in Nat \ {0}
    /\ MaxRetries \in Nat
    /\ MaxWindow \in Nat
    /\ MaxAttempt \in Nat

Windows == 1 .. MaxWindow
NoWindow == 0

VARIABLES
    count,      \* numbered turns of the scope
    windows,    \* the summary columns of the turn that closes each window
    memories,   \* published summaries, by window: the attempt that wrote each
    calls,      \* history: logical calls begun for each window
    sent,       \* history: requests that may have reached the provider for each window
    pc,         \* where each worker is in its pass
    req         \* the locals of each worker's pass

vars == <<count, windows, memories, calls, sent, pc, req>>

Attempts == 0 .. MaxAttempt
Terminal == {"saved", "failed", "unknown"}

NoSummary == [state |-> "none", attempt |-> 0, lease |-> "none", due |-> FALSE]
NoPass == [todo |-> {}, window |-> NoWindow, attempt |-> 0, retries |-> 0]

Candidates == [window : Windows, attempt : Attempts]

Init ==
    /\ count = 0
    /\ windows = [k \in Windows |-> NoSummary]
    /\ memories = {}
    /\ calls = [k \in Windows |-> 0]
    /\ sent = [k \in Windows |-> 0]
    /\ pc = [w \in Workers |-> "idle"]
    /\ req = [w \in Workers |-> NoPass]

Goto(w, label) == pc' = [pc EXCEPT ![w] = label] /\ UNCHANGED req

\* The next candidate of the pass, or the end of the pass.
Continue(w) ==
    /\ pc' = [pc EXCEPT ![w] = "next"]
    /\ req' = [req EXCEPT ![w] = [NoPass EXCEPT !.todo = req[w].todo]]

\* An error ends the pass; the next scan starts afresh.
Stop(w) ==
    /\ pc' = [pc EXCEPT ![w] = "idle"]
    /\ req' = [req EXCEPT ![w] = NoPass]

------------------------------------------------------------------------------
\* The summary columns of complete_turn.
CommitTurn ==
    /\ count < WindowTurns * MaxWindow
    /\ count' = count + 1
    /\ windows' = IF (count + 1) % WindowTurns = 0
                  THEN [windows EXCEPT ![(count + 1) \div WindowTurns] =
                          [@ EXCEPT !.state = "pending", !.due = TRUE]]
                  ELSE windows
    /\ UNCHANGED <<memories, calls, sent, pc, req>>

(***************************************************************************)
(* due_windows: expired claims go back, expired dispatches stay uncertain, *)
(* and the due windows are the candidates of this pass.                    *)
(***************************************************************************)
Expired(k) == windows[k].state \in {"claimed", "dispatched"} /\ windows[k].lease = "expired"

Due(k) == windows[k].state = "pending" /\ windows[k].due

\* Fault: an expired dispatch is taken up again.
SweptToPending(k) == [windows[k] EXCEPT !.state = "pending", !.lease = "none", !.due = TRUE]

\* Fault: only expired claims are swept.
SweptClaim(k) ==
    IF windows[k].state = "claimed"
    THEN [windows[k] EXCEPT !.state = "pending", !.lease = "none", !.due = TRUE]
    ELSE windows[k]

Swept(k) ==
    IF windows[k].state = "claimed"
    THEN [windows[k] EXCEPT !.state = "pending", !.lease = "none", !.due = TRUE]
    ELSE [windows[k] EXCEPT !.state = "unknown", !.lease = "none"]

Scan(w) ==
    /\ pc[w] = "idle"
    /\ windows' = [k \in Windows |-> IF Expired(k) THEN Swept(k) ELSE windows[k]]
    /\ req' = [req EXCEPT ![w].todo =
                 {c \in Candidates : Due(c.window)' /\ c.attempt = windows[c.window].attempt}]
    /\ pc' = [pc EXCEPT ![w] = "next"]
    /\ UNCHANGED <<count, memories, calls, sent>>

\* The candidates are taken one after the other, stale as they may be by then.
Take(w) ==
    /\ pc[w] = "next"
    /\ \/ req[w].todo = {} /\ Stop(w)
       \/ \E c \in req[w].todo :
            /\ req' = [req EXCEPT ![w] = [todo |-> req[w].todo \ {c}, window |-> c.window,
                                          attempt |-> c.attempt, retries |-> 0]]
            /\ pc' = [pc EXCEPT ![w] = "admit"]
    /\ UNCHANGED <<count, windows, memories, calls, sent>>

\* A window that must wait is not due for a while.
Deferred(k) == [windows[k] EXCEPT !.state = "pending", !.lease = "none", !.due = FALSE]

\* The user is chatting in this process: the candidate is put off.
Postpone(w) ==
    /\ pc[w] = "admit"
    /\ LET k == req[w].window
       IN  windows' = IF Due(k) /\ windows[k].attempt = req[w].attempt
                      THEN [windows EXCEPT ![k] = Deferred(k)]
                      ELSE windows
    /\ Continue(w)
    /\ UNCHANGED <<count, memories, calls, sent>>

Claim(w) ==
    /\ pc[w] = "admit"
    /\ LET k == req[w].window
       IN  \/ /\ Due(k)
              /\ windows[k].attempt = req[w].attempt
              /\ req[w].attempt < MaxAttempt
              /\ windows' = [windows EXCEPT ![k] =
                   [state |-> "claimed", attempt |-> @.attempt + 1, lease |-> "live", due |-> FALSE]]
              /\ req' = [req EXCEPT ![w].attempt = @ + 1]
              /\ pc' = [pc EXCEPT ![w] = "sources"]
           \/ /\ ~Due(k) \/ windows[k].attempt # req[w].attempt
              /\ Continue(w)
              /\ UNCHANGED windows
    /\ UNCHANGED <<count, memories, calls, sent>>

------------------------------------------------------------------------------
\* Fault: a fence without the attempt.
HoldsState(w, state) ==
    windows[req[w].window].state = state /\ windows[req[w].window].lease = "live"

\* The fence of every later statement: state, attempt and an unexpired lease.
Holds(w, state) ==
    /\ windows[req[w].window].state = state
    /\ windows[req[w].window].attempt = req[w].attempt
    /\ windows[req[w].window].lease = "live"

Set(w, state) == [windows EXCEPT ![req[w].window] = [@ EXCEPT !.state = state, !.lease = "none"]]

\* fail_summary moves a window on only from the state the outcome belongs to.
FailFrom(w, from, to) ==
    /\ windows' = IF Holds(w, from) THEN Set(w, to) ELSE windows
    /\ Continue(w)

ReadSources(w) ==
    /\ pc[w] = "sources"
    /\ \/ Goto(w, "eligible") /\ UNCHANGED windows
       \/ FailFrom(w, "claimed", "failed")
    /\ UNCHANGED <<count, memories, calls, sent>>

\* The other services tell, at each check afresh, whether the reader may see what the
\* window contains.  If not, or if none answers, or at a shutdown, the claim goes back.
CheckEligible(w) ==
    /\ pc[w] = "eligible"
    /\ \/ Goto(w, "dispatch") /\ UNCHANGED windows
       \/ /\ windows' = IF Holds(w, "claimed")
                        THEN [windows EXCEPT ![req[w].window] = Deferred(req[w].window)]
                        ELSE windows
          /\ Continue(w)
    /\ UNCHANGED <<count, memories, calls, sent>>

\* The dispatch is recorded before the call; if the record's acknowledgement is
\* lost the call is not made.
StartDispatch(w) ==
    /\ pc[w] = "dispatch"
    /\ \/ /\ Holds(w, "claimed")
          /\ windows' = [windows EXCEPT ![req[w].window] =
               [@ EXCEPT !.state = "dispatched", !.lease = "live"]]
          /\ Goto(w, "call") \/ Stop(w)
       \/ /\ ~Holds(w, "claimed")
          /\ Continue(w)
          /\ UNCHANGED windows
    /\ UNCHANGED <<count, memories, calls, sent>>

\* chat ends, with an answer or an error; its retry counter ends with it.
Return(w, label) ==
    /\ pc' = [pc EXCEPT ![w] = label]
    /\ req' = [req EXCEPT ![w].retries = 0]

(***************************************************************************)
(* One request of the loop in chat.  A rate limit, a server error and a    *)
(* transport error, after which nobody knows whether the request was       *)
(* served, are retried while retries are left; any other error is final.   *)
(***************************************************************************)
Request(w, retries) ==
    /\ sent' = [sent EXCEPT ![req[w].window] = @ + 1]
    /\ \/ Return(w, "answered")
       \/ Return(w, "unanswered")
       \/ /\ retries < MaxRetries
          /\ pc' = [pc EXCEPT ![w] = "retry"]
          /\ req' = [req EXCEPT ![w].retries = retries]

\* The call begins; one that fails before its first request is counted with it.
Call(w) ==
    /\ pc[w] = "call"
    /\ calls' = [calls EXCEPT ![req[w].window] = @ + 1]
    /\ Request(w, 0)
    /\ UNCHANGED <<count, windows, memories>>

Resend(w) ==
    /\ pc[w] = "retry"
    /\ Request(w, req[w].retries + 1)
    /\ UNCHANGED <<count, windows, memories, calls>>

\* A call that failed, or was cut off by its deadline between two requests, may have
\* been served: its window is unknown.
GiveUp(w) ==
    /\ pc[w] \in {"unanswered", "retry"}
    /\ FailFrom(w, "dispatched", "unknown")
    /\ UNCHANGED <<count, memories, calls, sent>>

\* The answer must be usable and the reader still be allowed to see it.
CheckAnswer(w) ==
    /\ pc[w] = "answered"
    /\ \/ Goto(w, "finish") /\ UNCHANGED windows
       \/ FailFrom(w, "dispatched", "failed")
    /\ UNCHANGED <<count, memories, calls, sent>>

\* One transaction inserts the memory and closes the window; a memory that is
\* already there makes it fail.
Publishable(w) ==
    /\ Holds(w, "dispatched")
    /\ \A m \in memories : m.window # req[w].window

Finish(w) ==
    /\ pc[w] = "finish"
    /\ \/ /\ Publishable(w)
          /\ memories' = memories \cup {[window |-> req[w].window, attempt |-> req[w].attempt]}
          /\ windows' = Set(w, "saved")
          /\ Continue(w)
       \/ /\ ~Publishable(w)
          /\ Continue(w) \/ Stop(w)
          /\ UNCHANGED <<windows, memories>>
    /\ UNCHANGED <<count, calls, sent>>

------------------------------------------------------------------------------
\* A statement fails, or the process dies, anywhere in the pass.
Crash(w) ==
    /\ pc[w] # "idle"
    /\ Stop(w)
    /\ UNCHANGED <<count, windows, memories, calls, sent>>

ExpireLease(k) ==
    /\ windows[k].lease = "live"
    /\ windows' = [windows EXCEPT ![k].lease = "expired"]
    /\ UNCHANGED <<count, memories, calls, sent, pc, req>>

\* Thirty seconds after it was put off, a window is due again.
FallDue(k) ==
    /\ windows[k].state = "pending"
    /\ ~windows[k].due
    /\ windows' = [windows EXCEPT ![k].due = TRUE]
    /\ UNCHANGED <<count, memories, calls, sent, pc, req>>

PassStep(w) ==
    \/ Take(w) \/ Postpone(w) \/ Claim(w) \/ ReadSources(w) \/ CheckEligible(w)
    \/ StartDispatch(w) \/ Call(w) \/ Resend(w) \/ GiveUp(w) \/ CheckAnswer(w) \/ Finish(w)

Next ==
    \/ \E w \in Workers : Scan(w) \/ PassStep(w) \/ Crash(w)
    \/ \E k \in Windows : ExpireLease(k) \/ FallDue(k)
    \/ CommitTurn

Spec == Init /\ [][Next]_vars

------------------------------------------------------------------------------
(***************************************************************************)
(* Properties.                                                             *)
(***************************************************************************)
Labels == {"idle", "next", "admit", "sources", "eligible", "dispatch", "call", "retry",
           "answered", "unanswered", "finish"}
States == {"none", "pending", "claimed", "dispatched"} \cup Terminal

\* Every variable keeps its type, a window is open exactly when its last turn has
\* been committed, and the state constraint of the table holds.
TypeOK ==
    /\ count \in 0 .. WindowTurns * MaxWindow
    /\ windows \in [Windows -> [state : States, attempt : Attempts,
                                lease : {"none", "live", "expired"}, due : BOOLEAN]]
    /\ memories \subseteq Candidates
    /\ calls \in [Windows -> Nat]
    /\ sent \in [Windows -> Nat]
    /\ pc \in [Workers -> Labels]
    /\ req \in [Workers -> [todo : SUBSET Candidates, window : Windows \cup {NoWindow},
                            attempt : Attempts, retries : 0 .. MaxRetries]]
    /\ \A w \in Workers : req[w].window = NoWindow <=> pc[w] \in {"idle", "next"}
    /\ \A k \in Windows :
         /\ windows[k].state # "none" <=> k * WindowTurns <= count
         /\ windows[k].lease # "none" <=> windows[k].state \in {"claimed", "dispatched"}
         /\ windows[k].due => windows[k].state = "pending"

\* start_summary_dispatch, chat: one logical call is ever made for a window, whoever
\* claimed it how often, whatever expired or was lost in between; all requests that
\* reach the provider for it are those of this call, 1 + MaxRetries at the most.
CalledOnce ==
    \A k \in Windows : calls[k] <= 1 /\ sent[k] <= 1 + MaxRetries

\* A published summary comes from the one logical call made for its window under the
\* claim that is recorded, and a window is saved exactly when its summary is published.
PublishedByItsCall ==
    /\ \A m \in memories : /\ windows[m.window].state = "saved"
                           /\ windows[m.window].attempt = m.attempt
                           /\ calls[m.window] = 1
    /\ \A k \in Windows : windows[k].state = "saved" => \E m \in memories : m.window = k

------------------------------------------------------------------------------
(***************************************************************************)
(* Liveness: passes go on, scans come round again, and time passes.        *)
(***************************************************************************)
Fairness ==
    /\ \A w \in Workers : WF_vars(PassStep(w)) /\ SF_vars(Scan(w))
    /\ \A k \in Windows : WF_vars(ExpireLease(k))

LiveSpec == Spec /\ Fairness

\* A dispatched window always ends, and a claimed one ends, is dispatched or is
\* given back, although workers may die at any step.
DispatchSettles ==
    \A k \in Windows :
        /\ windows[k].state = "dispatched" ~> windows[k].state \in Terminal
        /\ windows[k].state = "claimed" ~> windows[k].state # "claimed"
==============================================================================
