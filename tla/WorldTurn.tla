------------------------------ MODULE WorldTurn ------------------------------
(***************************************************************************)
(* World turns of one (user, novel) scope of the narrative service: the    *)
(* turn journal (table world_turns), the authoritative world state it      *)
(* advances (table world_states), the request handlers that claim, narrate *)
(* and commit a turn under a lease, and the projection of each committed   *)
(* turn into the agent's permanent memory.                                 *)
(*                                                                         *)
(* Every action on `rows` and `world` is one database transaction.  The    *)
(* handlers are the futures of submit_world_turn_with_source: they stop at *)
(* every await, so everything they read earlier may be stale.              *)
(***************************************************************************)
EXTENDS Integers, FiniteSets

CONSTANTS
    TurnIds,        \* idempotency keys a client may use for a turn
    NoTurn,         \* the key of a worker that serves nobody
    Workers,        \* concurrent request handlers and recovery scanners
    FreshChecks,    \* action checks a new claim may carry: "none" in narrative
                    \* mode, "pending" or "template" in advanced mode
    Checkpoint,     \* chapter at which the player entered the world
    MaxChapter,     \* bound: last chapter of the novel
    MaxTurn,        \* bound: turns submitted
    MaxAttempt      \* bound: claims of one turn

NoChapter == 0      \* expected_source_chapter = None, the legacy contract

ASSUME Assumptions ==
    /\ NoTurn \notin TurnIds
    /\ FreshChecks \subseteq {"none", "pending", "template"}
    /\ Checkpoint \in Nat \ {0}
    /\ MaxChapter \in Nat
    /\ Checkpoint <= MaxChapter
    /\ MaxTurn \in Nat
    /\ MaxAttempt \in Nat

VARIABLES
    rows,      \* world_turns: the journal row of every key
    world,     \* world_states: the session's turn number and source chapter
    reader,    \* reading progress and identity, kept by the novel service
    memories,  \* keys whose fact the agent service has stored
    asked,     \* history: adjudication requests dispatched for each key
    pc,        \* where each worker is
    req        \* the locals of each worker's request

vars == <<rows, world, reader, memories, asked, pc, req>>

Chapters == Checkpoint .. MaxChapter
Checks == {"none", "pending", "template", "ai"}

NoRow == [status |-> "absent", attempt |-> 0, failure |-> "none",
          turn |-> 0, chapter |-> NoChapter, check |-> "none",
          lease |-> "none", memory |-> "pending", shown |-> Checkpoint]

NoReq == [id |-> NoTurn, caller |-> "player", turn |-> 0, chapter |-> NoChapter,
          check |-> "none", attempt |-> 0, lost |-> FALSE, decision |-> "none",
          seen |-> [turn |-> 0, chapter |-> Checkpoint]]

(***************************************************************************)
(* The route of a handler through its awaits.  After[p] is the label       *)
(* that follows a passed check at p.                                       *)
(***************************************************************************)
IdentityChecks == {"adj_identity", "settle_identity", "commit_identity"}
ProgressChecks == {"visible", "adj_visible", "settle_visible", "commit_visible"}

After == [visible         |-> "begin",
          adj_identity    |-> "adj_visible",     adj_visible    |-> "adjudicate",
          settle_visible  |-> "settle_identity", settle_identity |-> "settle",
          commit_visible  |-> "commit_identity", commit_identity |-> "complete",
          elig_before     |-> "project",         elig_after     |-> "finish"]

\* A claim has been taken, so giving up must go through fail_world_turn.
Claimed == {"prepare", "adj_identity", "adj_visible", "adjudicate", "settle_visible",
            "settle_identity", "settle", "narrate", "commit_visible",
            "commit_identity", "complete", "fail"}

\* The heartbeat task runs beside the handler.
Leased == Claimed \ {"prepare", "fail"}

\* Operations wrapped in WorldTurnLease::run.
LeaseRun == {"adjudicate", "settle", "narrate", "complete"}

Labels == {"idle", "snapshot", "visible", "begin", "elig_before",
           "project", "elig_after", "finish", "reply"} \cup Claimed

------------------------------------------------------------------------------
Init ==
    /\ rows = [t \in TurnIds |-> NoRow]
    /\ world = [turn |-> 0, chapter |-> Checkpoint]
    /\ \E chapter \in Chapters : reader = [self |-> TRUE, chapter |-> chapter]
    /\ memories = {}
    /\ asked = [t \in TurnIds |-> 0]
    /\ pc = [w \in Workers |-> "idle"]
    /\ req = [w \in Workers |-> NoReq]

Goto(w, label) == pc' = [pc EXCEPT ![w] = label] /\ UNCHANGED req

\* The future ends (a response, an error, a dropped connection): locals are gone.
Leave(w) ==
    /\ pc' = [pc EXCEPT ![w] = "idle"]
    /\ req' = [req EXCEPT ![w] = NoReq]

\* Giving up after the claim records the failure first; only the claim's key and
\* attempt are used from there on.
Abandon(w) ==
    /\ pc' = [pc EXCEPT ![w] = "fail"]
    /\ req' = [req EXCEPT ![w] = [NoReq EXCEPT !.id = req[w].id, !.attempt = req[w].attempt]]

GiveUp(w) == IF pc[w] \in Claimed THEN Abandon(w) ELSE Leave(w)

\* From the commit on a handler needs only its key and whom it answers to.
ProjectFor(w, t, caller, label) ==
    /\ pc' = [pc EXCEPT ![w] = label]
    /\ req' = [req EXCEPT ![w] = [NoReq EXCEPT !.id = t, !.caller = caller]]

SourceMatches(chapter, state) ==
    IF chapter = NoChapter THEN state.chapter = Checkpoint ELSE chapter = state.chapter

InProgress(t) == rows[t].status = "in_progress"
Completed(t) == rows[t].status = "completed"
Unprojected(t) == Completed(t) /\ rows[t].memory = "pending"

------------------------------------------------------------------------------
(***************************************************************************)
(* A submission that passes its first identity check.  The client took the *)
(* expected turn and chapter from a world view it was shown, maybe an old  *)
(* one.                                                                    *)
(***************************************************************************)
Submit(w, t) ==
    /\ pc[w] = "idle"
    /\ reader.self
    /\ \E turn \in 0 .. world.turn, chapter \in {NoChapter} \cup (Checkpoint .. world.chapter),
          check \in FreshChecks :
         /\ turn < MaxTurn
         /\ req' = [req EXCEPT ![w] = [NoReq EXCEPT !.id = t, !.turn = turn,
                                          !.chapter = chapter, !.check = check]]
    /\ pc' = [pc EXCEPT ![w] = "snapshot"]
    /\ UNCHANGED <<rows, world, reader, memories, asked>>

CheckIdentity(w) ==
    /\ pc[w] \in IdentityChecks
    /\ IF reader.self THEN Goto(w, After[pc[w]]) ELSE GiveUp(w)
    /\ UNCHANGED <<rows, world, reader, memories, asked>>

ReadSnapshot(w) ==
    /\ pc[w] = "snapshot"
    /\ req' = [req EXCEPT ![w].seen = world]
    /\ pc' = [pc EXCEPT ![w] = "visible"]
    /\ UNCHANGED <<rows, world, reader, memories, asked>>

CheckProgress(w) ==
    /\ pc[w] \in ProgressChecks
    /\ IF reader.chapter >= req[w].seen.chapter THEN Goto(w, After[pc[w]]) ELSE GiveUp(w)
    /\ UNCHANGED <<rows, world, reader, memories, asked>>

------------------------------------------------------------------------------
(***************************************************************************)
(* begin_turn: one transaction that holds the world state's row lock.      *)
(***************************************************************************)
Matches(w) ==
    LET row == rows[req[w].id]
    IN  row.turn = req[w].turn /\ row.chapter = req[w].chapter

Replayable(w) == Completed(req[w].id) /\ Matches(w)

Conflicting(w) ==
    /\ rows[req[w].id].status # "absent"
    /\ ~Matches(w) \/ rows[req[w].id].failure = "superseded"

Current(w) == world.turn = req[w].turn /\ SourceMatches(req[w].chapter, world)

Busy == \E t \in TurnIds : InProgress(t) /\ rows[t].lease = "live"

\* Fault: begin_turn does not wait for the projection of the previous turn.
NeverProjecting == FALSE
Projecting == \E t \in TurnIds : Unprojected(t)

Claimable(w) ==
    /\ ~Replayable(w)
    /\ ~Conflicting(w)
    /\ Current(w)
    /\ ~Busy
    /\ ~Projecting

\* Fault: a completed turn is answered at once, projected or not.
ReplayAtOnce(w) == "reply"

ReplayLabel(w) == IF rows[req[w].id].memory = "pending" THEN "elig_before" ELSE "reply"

BeginReplay(w) ==
    /\ pc[w] = "begin"
    /\ Replayable(w)
    /\ ProjectFor(w, req[w].id, "player", ReplayLabel(w))
    /\ UNCHANGED <<rows, world, reader, memories, asked>>

BeginRefuse(w) ==
    /\ pc[w] = "begin"
    /\ ~Replayable(w)
    /\ ~Claimable(w)
    /\ Leave(w)
    /\ UNCHANGED <<rows, world, reader, memories, asked>>

\* Fault: a reclaim stores the check of the new request.
ReclaimedRow(w) ==
    [rows[req[w].id] EXCEPT !.status = "in_progress", !.attempt = @ + 1, !.lease = "live",
                            !.failure = "none", !.check = req[w].check,
                            !.turn = req[w].turn, !.chapter = req[w].chapter]

\* A new row, or the same row under the next attempt with its stored check.
ClaimedRow(w) ==
    LET old == rows[req[w].id]
    IN  IF old.status = "absent"
        THEN [NoRow EXCEPT !.status = "in_progress", !.attempt = 1, !.turn = req[w].turn,
                           !.chapter = req[w].chapter, !.check = req[w].check,
                           !.lease = "live"]
        ELSE [old EXCEPT !.status = "in_progress", !.attempt = old.attempt + 1,
                         !.lease = "live", !.failure = "none"]

Superseded(row) ==
    [row EXCEPT !.status = "failed", !.lease = "none", !.failure = "superseded"]

\* The handler goes on with the claim as the journal has it.
StoredCheck(w) == ClaimedRow(w).check

BeginClaim(w) ==
    /\ pc[w] = "begin"
    /\ Claimable(w)
    /\ rows[req[w].id].attempt < MaxAttempt
    /\ rows' = [t \in TurnIds |->
                  IF t = req[w].id THEN ClaimedRow(w)
                  ELSE IF InProgress(t) /\ rows[t].lease = "expired" THEN Superseded(rows[t])
                  ELSE rows[t]]
    /\ req' = [req EXCEPT ![w].attempt = ClaimedRow(w).attempt, ![w].check = StoredCheck(w)]
    /\ pc' = [pc EXCEPT ![w] = "prepare"]
    /\ UNCHANGED <<world, reader, memories, asked>>

------------------------------------------------------------------------------
(***************************************************************************)
(* Between claim and commit.                                               *)
(***************************************************************************)
\* The session read before the claim must be the one that was claimed; the
\* action must be valid in it and the journal readable.
Prepare(w) ==
    /\ pc[w] = "prepare"
    /\ \/ Abandon(w)
       \/ /\ req[w].seen.turn = req[w].turn
          /\ SourceMatches(req[w].chapter, req[w].seen)
          /\ Goto(w, IF req[w].check = "pending" THEN "adj_identity" ELSE "narrate")
    /\ UNCHANGED <<rows, world, reader, memories, asked>>

\* Faults: a fence that forgets the status, and one that forgets the attempt.
FencedByAttempt(w) == rows[req[w].id].attempt = req[w].attempt
FencedByStatus(w) == InProgress(req[w].id)

\* The fence of renew_turn and fail_turn.
Fenced(w) == InProgress(req[w].id) /\ rows[req[w].id].attempt = req[w].attempt

\* The heartbeat renews by attempt and status only, an expired lease included.
Heartbeat(w) ==
    /\ pc[w] \in Leased
    /\ ~req[w].lost
    /\ IF Fenced(w)
       THEN /\ rows' = [rows EXCEPT ![req[w].id].lease = "live"]
            /\ UNCHANGED req
       ELSE /\ req' = [req EXCEPT ![w].lost = TRUE]
            /\ UNCHANGED rows
    /\ UNCHANGED <<world, reader, memories, asked, pc>>

\* renew_turn returned an error: the heartbeat gives the lease up.
HeartbeatError(w) ==
    /\ pc[w] \in Leased
    /\ ~req[w].lost
    /\ req' = [req EXCEPT ![w].lost = TRUE]
    /\ UNCHANGED <<rows, world, reader, memories, asked, pc>>

\* WorldTurnLease::run starts nothing once the lease is known to be lost.
LeaseLost(w) ==
    /\ pc[w] \in LeaseRun
    /\ req[w].lost
    /\ Abandon(w)
    /\ UNCHANGED <<rows, world, reader, memories, asked>>

\* Fault: every attempt may ask.
AlwaysAsk(w) == TRUE

\* The first attempt may ask the adjudicator; a reclaimed one never does.
MayAsk(w) == req[w].attempt = 1

Adjudicate(w) ==
    /\ pc[w] = "adjudicate"
    /\ ~req[w].lost
    /\ \/ /\ MayAsk(w)
          /\ asked' = [asked EXCEPT ![req[w].id] = @ + 1]
          /\ \E decision \in {"ai", "template"} :
               req' = [req EXCEPT ![w].decision = decision]
       \/ /\ req' = [req EXCEPT ![w].decision = "template"]
          /\ UNCHANGED asked
    /\ pc' = [pc EXCEPT ![w] = "settle_visible"]
    /\ UNCHANGED <<rows, world, reader, memories>>

HoldsClaim(w) ==
    /\ InProgress(req[w].id)
    /\ Matches(w)
    /\ rows[req[w].id].check = req[w].check
    /\ rows[req[w].id].attempt = req[w].attempt
    /\ rows[req[w].id].lease = "live"

\* settle_adjudication: compare-and-set on the pending check.  A committed
\* update whose acknowledgement is lost looks like a failure to the handler.
Settle(w) ==
    /\ pc[w] = "settle"
    /\ ~req[w].lost
    /\ IF HoldsClaim(w) /\ req[w].check = "pending"
       THEN /\ rows' = [rows EXCEPT ![req[w].id].check = req[w].decision]
            /\ \/ /\ req' = [req EXCEPT ![w].check = req[w].decision]
                  /\ pc' = [pc EXCEPT ![w] = "narrate"]
               \/ Abandon(w)
       ELSE UNCHANGED rows /\ Abandon(w)
    /\ UNCHANGED <<world, reader, memories, asked>>

\* The model call, the prompt it needs and the parsing of its answer.
Narrate(w) ==
    /\ pc[w] = "narrate"
    /\ ~req[w].lost
    /\ \/ Goto(w, "commit_visible")
       \/ Abandon(w)
    /\ UNCHANGED <<rows, world, reader, memories, asked>>

\* complete_turn: journal row and world state move in one transaction.
Committable(w) ==
    /\ HoldsClaim(w)
    /\ req[w].check # "pending"
    /\ Current(w)
    /\ req[w].seen.chapter = world.chapter

NextWorld == [world EXCEPT !.turn = @ + 1]

Complete(w) ==
    /\ pc[w] = "complete"
    /\ ~req[w].lost
    /\ IF Committable(w)
       THEN /\ rows' = [rows EXCEPT ![req[w].id] =
                          [@ EXCEPT !.status = "completed", !.lease = "none",
                                    !.failure = "none", !.shown = world.chapter]]
            /\ world' = NextWorld
            /\ \/ ProjectFor(w, req[w].id, "player", "elig_before")
               \/ Abandon(w)          \* the acknowledgement is lost
       ELSE UNCHANGED <<rows, world>> /\ Abandon(w)
    /\ UNCHANGED <<reader, memories, asked>>

\* fail_turn is fenced by attempt and status; its own error is only logged.
FailTurn(w) ==
    /\ pc[w] = "fail"
    /\ IF Fenced(w)
       THEN rows' = [rows EXCEPT ![req[w].id] =
                       [@ EXCEPT !.status = "failed", !.lease = "none", !.failure = "other"]]
       ELSE UNCHANGED rows
    /\ Leave(w)
    /\ UNCHANGED <<world, reader, memories, asked>>

------------------------------------------------------------------------------
(***************************************************************************)
(* Projection of a committed turn into permanent memory: by the handler    *)
(* that committed it, by a replay of its key, or by the recovery scan.     *)
(***************************************************************************)
\* Fault: the scan passes over turns whose fact the agent has.
RecoverUnstored(w, t) ==
    /\ pc[w] = "idle"
    /\ Unprojected(t)
    /\ t \notin memories
    /\ ProjectFor(w, t, "recovery", "elig_before")
    /\ UNCHANGED <<rows, world, reader, memories, asked>>

Recover(w, t) ==
    /\ pc[w] = "idle"
    /\ Unprojected(t)
    /\ ProjectFor(w, t, "recovery", "elig_before")
    /\ UNCHANGED <<rows, world, reader, memories, asked>>

Eligible(t) == reader.self /\ reader.chapter >= rows[t].shown

CheckEligible(w) ==
    /\ pc[w] \in {"elig_before", "elig_after"}
    /\ IF Eligible(req[w].id) THEN Goto(w, After[pc[w]]) ELSE Leave(w)
    /\ UNCHANGED <<rows, world, reader, memories, asked>>

\* The fact reached the agent, there is none to keep, or nobody can tell:
\* then it may have been stored all the same.
Project(w) ==
    /\ pc[w] = "project"
    /\ \/ /\ memories' = memories \cup {req[w].id}
          /\ req' = [req EXCEPT ![w].decision = "saved"]
          /\ pc' = [pc EXCEPT ![w] = "elig_after"]
       \/ /\ req' = [req EXCEPT ![w].decision = "skipped"]
          /\ pc' = [pc EXCEPT ![w] = "elig_after"]
          /\ UNCHANGED memories
       \/ /\ memories' \in {memories, memories \cup {req[w].id}}
          /\ Leave(w)
    /\ UNCHANGED <<rows, world, reader, asked>>

Finishable(w) ==
    /\ Completed(req[w].id)
    /\ rows[req[w].id].memory \in {"pending", req[w].decision}

FinishProjection(w) ==
    /\ pc[w] = "finish"
    /\ IF Finishable(w)
       THEN /\ rows' = [rows EXCEPT ![req[w].id].memory = req[w].decision]
            /\ IF req[w].caller = "player" THEN Goto(w, "reply") ELSE Leave(w)
       ELSE UNCHANGED rows /\ Leave(w)
    /\ UNCHANGED <<world, reader, memories, asked>>

\* The last eligibility check only decides between success and "unknown".
Reply(w) ==
    /\ pc[w] = "reply"
    /\ Leave(w)
    /\ UNCHANGED <<rows, world, reader, memories, asked>>

------------------------------------------------------------------------------
(***************************************************************************)
(* The rest of the system.                                                 *)
(***************************************************************************)
\* A process dies or a client disconnects: the future is dropped at an await,
\* with the heartbeat.
Crash(w) ==
    /\ pc[w] # "idle"
    /\ Leave(w)
    /\ UNCHANGED <<rows, world, reader, memories, asked>>

\* Two minutes pass without a renewal.
ExpireLease(t) ==
    /\ InProgress(t)
    /\ rows[t].lease = "live"
    /\ rows' = [rows EXCEPT ![t].lease = "expired"]
    /\ UNCHANGED <<world, reader, memories, asked, pc, req>>

\* extend_world_source: refused while any turn is claimed (its lease expired or
\* not) or has a pending projection.
\* Fault: an expired claim does not count as busy.
SourceBusyLive == \E t \in TurnIds : (InProgress(t) /\ rows[t].lease = "live") \/ Unprojected(t)

SourceBusy == \E t \in TurnIds : InProgress(t) \/ Unprojected(t)

ExtendSource ==
    /\ ~SourceBusy
    /\ world.chapter < MaxChapter
    /\ world' = [world EXCEPT !.chapter = @ + 1]
    /\ UNCHANGED <<rows, reader, memories, asked, pc, req>>

\* Progress goes forward and back; an adopted character the new chapter does not
\* know yet gives way to the reader's own identity.
ReaderMoves ==
    /\ \E chapter \in 1 .. MaxChapter, self \in {reader.self, TRUE} :
         reader' = [self |-> self, chapter |-> chapter]
    /\ UNCHANGED <<rows, world, memories, asked, pc, req>>

IdentityChanges ==
    /\ reader' = [reader EXCEPT !.self = ~@]
    /\ UNCHANGED <<rows, world, memories, asked, pc, req>>

WorkerStep(w) ==
    \/ CheckIdentity(w) \/ ReadSnapshot(w) \/ CheckProgress(w)
    \/ BeginReplay(w) \/ BeginRefuse(w) \/ BeginClaim(w)
    \/ Prepare(w) \/ LeaseLost(w) \/ Adjudicate(w) \/ Settle(w) \/ Narrate(w)
    \/ Complete(w) \/ FailTurn(w)
    \/ CheckEligible(w) \/ Project(w) \/ FinishProjection(w) \/ Reply(w)

Next ==
    \/ \E w \in Workers : WorkerStep(w) \/ Heartbeat(w) \/ HeartbeatError(w) \/ Crash(w)
    \/ \E w \in Workers, t \in TurnIds : Submit(w, t) \/ Recover(w, t)
    \/ \E t \in TurnIds : ExpireLease(t)
    \/ ExtendSource \/ ReaderMoves \/ IdentityChanges

Spec == Init /\ [][Next]_vars
------------------------------------------------------------------------------
(***************************************************************************)
(* Properties.                                                             *)
(***************************************************************************)
Rows == [status : {"absent", "in_progress", "completed", "failed"},
         attempt : 0 .. MaxAttempt, failure : {"none", "other", "superseded"},
         turn : 0 .. MaxTurn, chapter : {NoChapter} \cup Chapters, check : Checks,
         lease : {"none", "live", "expired"}, memory : {"pending", "saved", "skipped"},
         shown : Chapters]

Worlds == [turn : 0 .. MaxTurn, chapter : Chapters]

Reqs == [id : TurnIds \cup {NoTurn}, caller : {"player", "recovery"},
         turn : 0 .. MaxTurn, chapter : {NoChapter} \cup Chapters, check : Checks,
         attempt : 0 .. MaxAttempt, lost : BOOLEAN,
         decision : {"none", "ai", "template", "saved", "skipped"}, seen : Worlds]

\* Every variable keeps its type; a worker that is not idle serves a key, and a
\* decision is of the kind its label uses.
TypeOK ==
    /\ rows \in [TurnIds -> Rows]
    /\ world \in Worlds
    /\ reader \in [self : BOOLEAN, chapter : 1 .. MaxChapter]
    /\ memories \subseteq TurnIds
    /\ asked \in [TurnIds -> Nat]
    /\ pc \in [Workers -> Labels]
    /\ req \in [Workers -> Reqs]
    /\ \A w \in Workers : pc[w] # "idle" => req[w].id \in TurnIds

\* At most one turn of the scope is claimed or still owes its projection: the
\* transaction of begin_turn keeps what the partial unique index demands, so an
\* insert or reclaim never trips over the index.
Outstanding(t) == InProgress(t) \/ Unprojected(t)
OneOutstandingTurn == \A t, u \in TurnIds : Outstanding(t) /\ Outstanding(u) => t = u

\* The committed turns are exactly the turns 0 .. turn_number - 1 of the session,
\* one key each, whatever was retried, superseded or lost on the way.
TimelineExact ==
    /\ \A t \in TurnIds : Completed(t) => rows[t].turn < world.turn
    /\ \A t, u \in TurnIds : Completed(t) /\ Completed(u) /\ rows[t].turn = rows[u].turn => t = u
    /\ \A n \in 0 .. world.turn - 1 : \E t \in TurnIds : Completed(t) /\ rows[t].turn = n

\* A claimed turn is always the session's next one and was made against the
\* chapter the session is at: neither another turn nor a source extension slips
\* in between claim and commit.
ClaimIsCurrent ==
    \A t \in TurnIds : InProgress(t) =>
        rows[t].turn = world.turn /\ SourceMatches(rows[t].chapter, world)

\* One key is put to the adjudicator at most once, over all its attempts.
AdjudicatedOnce == \A t \in TurnIds : asked[t] <= 1

\* A caller that gets a success sees a committed turn with a settled projection,
\* and a projection recorded as saved is in the agent's memory.
ReplyIsDurable ==
    /\ \A w \in Workers : pc[w] = "reply" =>
         Completed(req[w].id) /\ rows[req[w].id].memory # "pending"
    /\ \A t \in TurnIds : rows[t].memory = "saved" => Completed(t) /\ t \in memories

\* A completed turn keeps its content and its settled projection, and a
\* superseded key is never used again.
FinalStep(t) ==
    /\ Completed(t) =>
         /\ rows'[t].status = "completed"
         /\ rows'[t].turn = rows[t].turn
         /\ rows'[t].check = rows[t].check
         /\ rows'[t].shown = rows[t].shown
         /\ rows[t].memory # "pending" => rows'[t].memory = rows[t].memory
    /\ rows[t].failure = "superseded" => rows'[t] = rows[t]
TerminalRowsAreFinal == [][\A t \in TurnIds : FinalStep(t)]_vars

\* A check that is no longer pending never changes, so no roll is decided twice.
ChecksAreFrozen ==
    [][\A t \in TurnIds :
         /\ rows[t].status # "absent"
         /\ rows[t].check # "pending"
         => rows'[t].check = rows[t].check]_vars

\* While its lease is live, a claim is ended only by the handler that holds its
\* current attempt: a stalled handler of an earlier attempt cannot end it.
ActsFor(w, t) == pc[w] # pc'[w] /\ req[w].id = t /\ req[w].attempt = rows[t].attempt
OnlyTheHolderEndsAClaim ==
    [][\A t \in TurnIds :
         /\ InProgress(t)
         /\ rows[t].lease = "live"
         /\ rows'[t].status # "in_progress" \/ rows'[t].attempt # rows[t].attempt
         => \E w \in Workers : ActsFor(w, t)]_vars

\* The journal and the world state implement the promised timeline: turns in the
\* order of their numbers, projections that are terminal, and the source chapter.
TurnAt(n) == CHOOSE t \in TurnIds : Completed(t) /\ rows[t].turn = n
Timeline ==
    INSTANCE WorldTimeline
    WITH timeline <- [n \in 1 .. world.turn |-> TurnAt(n - 1)],
         settled <- {t \in TurnIds : Completed(t) /\ rows[t].memory # "pending"},
         chapter <- world.chapter
ImplementsTimeline == Timeline!Spec

------------------------------------------------------------------------------
(***************************************************************************)
(* Liveness.  A service process keeps running its futures, and the         *)
(* recovery scan comes round for ever, so no step of a projection fails    *)
(* every time it is retried: neither the agent's answer nor a process      *)
(* death at the same await.                                                *)
(***************************************************************************)
ProjectionOutcome(w) == Project(w) /\ pc'[w] = "elig_after"

Fairness ==
    /\ \A w \in Workers :
         /\ WF_vars(WorkerStep(w))
         /\ SF_vars(pc[w] = "elig_before" /\ CheckEligible(w))
         /\ SF_vars(ProjectionOutcome(w))
         /\ SF_vars(pc[w] = "elig_after" /\ CheckEligible(w))
         /\ SF_vars(FinishProjection(w))
    /\ \A t \in TurnIds : SF_vars(\E w \in Workers : Recover(w, t))

LiveSpec == Spec /\ Fairness

\* If from some time on the reader stays eligible, every committed turn gets a
\* terminal projection, so it cannot block its scope, although handlers go on
\* failing and processes go on dying.
AlwaysEligible == <>[](reader.self /\ reader.chapter = MaxChapter)
ProjectionSettles ==
    AlwaysEligible => \A t \in TurnIds : Unprojected(t) ~> rows[t].memory # "pending"
==============================================================================
