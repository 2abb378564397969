--------------------------- MODULE WorldTurnProofs ---------------------------
(***************************************************************************)
(* Safety of WorldTurn for every set of keys and workers and every bound.  *)
(* TypeInv is inductive by itself; ScopeInv, about the journal and the     *)
(* world state, is inductive relative to it; WorkerInv, about what workers *)
(* in the projection have seen, is inductive relative to both.  From them  *)
(* follow the fences, which say what may end a claim or decide a check,    *)
(* and that WorldTurn implements WorldTimeline.                            *)
(***************************************************************************)
EXTENDS WorldTurn, Sequences, SequenceTheorems, TLAPS

\* A request that may still become a claim names a turn below the bound.
Claiming == {"snapshot", "visible", "begin"}

\* Where a worker carries the adjudicator's decision, or the projection's outcome.
Deciding == {"settle_visible", "settle_identity", "settle"}
Projected == {"elig_after", "finish"}

RowsTyped ==
    /\ rows \in [TurnIds -> Rows]
    /\ \A t \in TurnIds : InProgress(t) => rows[t].turn < MaxTurn
    /\ \A t \in TurnIds : rows[t].status = "absent" => rows[t].attempt = 0

WorldTyped ==
    /\ world \in Worlds
    /\ reader \in [self : BOOLEAN, chapter : 1 .. MaxChapter]
    /\ memories \subseteq TurnIds
    /\ asked \in [TurnIds -> Nat]

WorkersTyped ==
    /\ pc \in [Workers -> Labels]
    /\ req \in [Workers -> Reqs]
    /\ \A w \in Workers : pc[w] # "idle" => req[w].id \in TurnIds
    /\ \A w \in Workers : pc[w] \in Claiming => req[w].turn < MaxTurn
    /\ \A w \in Workers : pc[w] \in Deciding => req[w].decision \in {"ai", "template"}
    /\ \A w \in Workers : pc[w] \in Projected => req[w].decision \in {"saved", "skipped"}

TypeInv == RowsTyped /\ WorldTyped /\ WorkersTyped

LEMMA Defaults == NoRow \in Rows /\ NoReq \in Reqs
  BY Assumptions DEF NoRow, NoReq, Rows, Reqs, Worlds, Chapters, Checks, NoChapter

LEMMA TypeInit == Init => TypeInv
<1> SUFFICES ASSUME Init PROVE TypeInv
  OBVIOUS
<1>1. RowsTyped
  BY Defaults DEF Init, RowsTyped, InProgress, NoRow
<1>2. WorldTyped
  <2>1. world \in Worlds
    BY Assumptions DEF Init, Worlds, Chapters
  <2>2. reader \in [self : BOOLEAN, chapter : 1 .. MaxChapter]
    BY Assumptions DEF Init, Chapters
  <2> QED
    BY <2>1, <2>2 DEF Init, WorldTyped
<1>3. WorkersTyped
  BY Defaults DEF Init, WorkersTyped, Labels, Claiming, Deciding, Projected
<1> QED
  BY <1>1, <1>2, <1>3 DEF TypeInv

------------------------------------------------------------------------------
(***************************************************************************)
(* How a worker may move.                                                  *)
(***************************************************************************)
LEMMA LeaveTyped ==
  ASSUME TypeInv, NEW w \in Workers, Leave(w)
  PROVE  WorkersTyped'
<1>1. pc' \in [Workers -> Labels] /\ req' \in [Workers -> Reqs]
  BY Defaults DEF TypeInv, WorkersTyped, Leave, Labels
<1> QED
  BY <1>1 DEF TypeInv, WorkersTyped, Leave, Claiming, Deciding, Projected

LEMMA GotoTyped ==
  ASSUME TypeInv, NEW w \in Workers, NEW label \in Labels, Goto(w, label),
         pc[w] # "idle",
         label \in Claiming => pc[w] \in Claiming,
         label \in Deciding => pc[w] \in Deciding,
         label \in Projected => pc[w] \in Projected
  PROVE  WorkersTyped'
<1>1. pc' \in [Workers -> Labels] /\ req' \in [Workers -> Reqs]
  BY DEF TypeInv, WorkersTyped, Goto
<1> QED
  BY <1>1 DEF TypeInv, WorkersTyped, Goto

LEMMA AbandonTyped ==
  ASSUME TypeInv, NEW w \in Workers, Abandon(w), pc[w] # "idle"
  PROVE  WorkersTyped'
<1>1. req[w] \in Reqs
  BY DEF TypeInv, WorkersTyped
<1> DEFINE r == [NoReq EXCEPT !.id = req[w].id, !.attempt = req[w].attempt]
<1>2. r \in Reqs /\ r.id = req[w].id
  BY <1>1, Defaults DEF Reqs, NoReq
<1>3. pc' \in [Workers -> Labels] /\ req' \in [Workers -> Reqs]
  BY <1>2 DEF TypeInv, WorkersTyped, Abandon, Labels, Claimed
<1> QED
  BY <1>2, <1>3 DEF TypeInv, WorkersTyped, Abandon, Claiming, Deciding, Projected

LEMMA ProjectForTyped ==
  ASSUME TypeInv, NEW w \in Workers, NEW t \in TurnIds, NEW caller \in {"player", "recovery"},
         NEW label \in {"elig_before", "reply"}, ProjectFor(w, t, caller, label)
  PROVE  WorkersTyped'
<1> DEFINE r == [NoReq EXCEPT !.id = t, !.caller = caller]
<1>2. r \in Reqs /\ r.id = t
  BY Defaults DEF Reqs, NoReq
<1>3. pc' \in [Workers -> Labels] /\ req' \in [Workers -> Reqs]
  BY <1>2 DEF TypeInv, WorkersTyped, ProjectFor, Labels
<1> QED
  BY <1>2, <1>3 DEF TypeInv, WorkersTyped, ProjectFor, Claiming, Deciding, Projected

LEMMA GiveUpTyped ==
  ASSUME TypeInv, NEW w \in Workers, GiveUp(w), pc[w] # "idle"
  PROVE  WorkersTyped'
  BY LeaveTyped, AbandonTyped DEF GiveUp
LEMMA UnchangedTyped ==
  ASSUME TypeInv, UNCHANGED <<pc, req>>
  PROVE  WorkersTyped'
  BY DEF TypeInv, WorkersTyped

\* A step that leaves the journal, the world and the reader alone.
LEMMA StateTyped ==
  ASSUME TypeInv, UNCHANGED <<rows, world, reader, memories, asked>>
  PROVE  RowsTyped' /\ WorldTyped'
  BY DEF TypeInv, RowsTyped, WorldTyped, InProgress

\* A step that replaces the row of one key, of which the row was in progress or
\* completed, and leaves its turn and attempt alone.
LEMMA RowTyped ==
  ASSUME TypeInv, NEW t \in TurnIds, NEW row \in Rows, rows' = [rows EXCEPT ![t] = row],
         row.status # "absent",
         row.status = "in_progress" => row.turn < MaxTurn
  PROVE  RowsTyped'
  BY DEF TypeInv, RowsTyped, InProgress

------------------------------------------------------------------------------
LEMMA SubmitTyped ==
  ASSUME TypeInv, NEW w \in Workers, NEW t \in TurnIds, Submit(w, t)
  PROVE  TypeInv'
<1>1. PICK turn \in 0 .. world.turn, chapter \in {NoChapter} \cup (Checkpoint .. world.chapter),
           check \in FreshChecks :
        /\ turn < MaxTurn
        /\ req' = [req EXCEPT ![w] = [NoReq EXCEPT !.id = t, !.turn = turn,
                                         !.chapter = chapter, !.check = check]]
  BY DEF Submit
<1> DEFINE r == [NoReq EXCEPT !.id = t, !.turn = turn, !.chapter = chapter, !.check = check]
<1>2. world.turn \in 0 .. MaxTurn /\ world.chapter \in Chapters
  BY DEF TypeInv, WorldTyped, Worlds
<1>3. /\ turn \in 0 .. MaxTurn
      /\ chapter \in {NoChapter} \cup Chapters
      /\ check \in Checks
  BY <1>2, <1>1, Assumptions DEF Chapters, Checks
<1>4. r \in Reqs /\ r.id = t /\ r.turn = turn
  BY <1>3, Defaults DEF Reqs, NoReq
<1>5. pc' \in [Workers -> Labels] /\ req' \in [Workers -> Reqs]
  BY <1>1, <1>4 DEF TypeInv, WorkersTyped, Submit, Labels
<1>6. WorkersTyped'
  BY <1>1, <1>4, <1>5 DEF TypeInv, WorkersTyped, Submit, Claiming, Deciding, Projected
<1> QED
  BY <1>6, StateTyped DEF Submit, TypeInv

LEMMA CheckTyped ==
  ASSUME TypeInv, NEW w \in Workers, CheckIdentity(w) \/ CheckProgress(w) \/ CheckEligible(w)
  PROVE  TypeInv'
<1>1. pc[w] \in IdentityChecks \cup ProgressChecks \cup {"elig_before", "elig_after"}
  BY DEF CheckIdentity, CheckProgress, CheckEligible
<1>2. /\ After[pc[w]] \in Labels
      /\ After[pc[w]] \in Claiming => pc[w] \in Claiming
      /\ After[pc[w]] \in Deciding => pc[w] \in Deciding
      /\ After[pc[w]] \in Projected => pc[w] \in Projected
      /\ pc[w] # "idle"
  BY <1>1 DEF After, Labels, Claimed, Claiming, Deciding, Projected,
            IdentityChecks, ProgressChecks
<1>3. Goto(w, After[pc[w]]) \/ GiveUp(w) \/ Leave(w)
  BY DEF CheckIdentity, CheckProgress, CheckEligible
<1>4. WorkersTyped'
  BY <1>2, <1>3, GotoTyped, GiveUpTyped, LeaveTyped
<1> QED
  BY <1>4, StateTyped DEF CheckIdentity, CheckProgress, CheckEligible, TypeInv

LEMMA ReadSnapshotTyped ==
  ASSUME TypeInv, NEW w \in Workers, ReadSnapshot(w)
  PROVE  TypeInv'
<1>1. [req[w] EXCEPT !.seen = world] \in Reqs
  BY DEF TypeInv, WorkersTyped, WorldTyped, Reqs
<1>2. req' = [req EXCEPT ![w] = [req[w] EXCEPT !.seen = world]]
  BY DEF ReadSnapshot
<1>3. [req[w] EXCEPT !.seen = world].id = req[w].id
      /\ [req[w] EXCEPT !.seen = world].turn = req[w].turn
  BY DEF TypeInv, WorkersTyped, Reqs
<1>4. pc' \in [Workers -> Labels] /\ req' \in [Workers -> Reqs]
  BY <1>1, <1>2 DEF TypeInv, WorkersTyped, ReadSnapshot, Labels
<1>5. WorkersTyped'
  BY <1>1, <1>2, <1>3, <1>4 DEF TypeInv, WorkersTyped, ReadSnapshot, Claiming, Deciding, Projected
<1> QED
  BY <1>5, StateTyped DEF ReadSnapshot, TypeInv

LEMMA BeginTyped ==
  ASSUME TypeInv, NEW w \in Workers, BeginReplay(w) \/ BeginRefuse(w)
  PROVE  TypeInv'
<1>1. req[w].id \in TurnIds /\ pc[w] # "idle"
  BY DEF TypeInv, WorkersTyped, BeginReplay, BeginRefuse
<1>2. CASE BeginReplay(w)
  <2>1. ReplayLabel(w) \in {"elig_before", "reply"}
    BY DEF ReplayLabel
  <2> QED
    BY <1>1, <1>2, <2>1, ProjectForTyped, StateTyped DEF BeginReplay, TypeInv
<1>3. CASE BeginRefuse(w)
  BY <1>3, LeaveTyped, StateTyped DEF BeginRefuse, TypeInv
<1> QED
  BY <1>2, <1>3

LEMMA ClaimedRowTyped ==
  ASSUME TypeInv, NEW w \in Workers, pc[w] = "begin", Claimable(w),
         rows[req[w].id].attempt < MaxAttempt
  PROVE  /\ ClaimedRow(w) \in Rows
         /\ ClaimedRow(w).status = "in_progress"
         /\ ClaimedRow(w).turn = req[w].turn
         /\ ClaimedRow(w).chapter = req[w].chapter
         /\ ClaimedRow(w).memory = IF rows[req[w].id].status = "absent"
                                   THEN "pending" ELSE rows[req[w].id].memory
<1> DEFINE old == rows[req[w].id]
<1>1. req[w] \in Reqs /\ req[w].id \in TurnIds /\ old \in Rows /\ NoRow \in Rows
  BY Defaults DEF TypeInv, WorkersTyped, RowsTyped
<1>2. CASE old.status = "absent"
  <2>1. 1 \in 0 .. MaxAttempt
    BY <1>1, <1>2, Assumptions DEF TypeInv, RowsTyped
  <2> QED
    BY <1>1, <1>2, <2>1 DEF ClaimedRow, Rows, Reqs, NoRow
<1>3. CASE old.status # "absent"
  <2>1. old.attempt + 1 \in 0 .. MaxAttempt
    BY <1>1, Assumptions DEF Rows
  <2>2. Matches(w)
    BY <1>3 DEF Claimable, Conflicting
  <2> QED
    BY <1>1, <1>3, <2>1, <2>2 DEF ClaimedRow, Rows, Matches
<1> QED
  BY <1>2, <1>3

LEMMA SupersededTyped ==
  ASSUME NEW row \in Rows
  PROVE  /\ Superseded(row) \in Rows
         /\ Superseded(row).status = "failed"
         /\ Superseded(row).failure = "superseded"
         /\ Superseded(row).memory = row.memory
  BY DEF Superseded, Rows

LEMMA BeginClaimTyped ==
  ASSUME TypeInv, NEW w \in Workers, BeginClaim(w)
  PROVE  TypeInv'
<1>1. /\ req[w].id \in TurnIds
      /\ req[w] \in Reqs
      /\ req[w].turn < MaxTurn
      /\ ClaimedRow(w) \in Rows
      /\ ClaimedRow(w).status = "in_progress"
      /\ ClaimedRow(w).turn = req[w].turn
  BY ClaimedRowTyped DEF BeginClaim, TypeInv, WorkersTyped, Claiming, Deciding, Projected
<1>2. \A t \in TurnIds : rows[t] \in Rows /\ Superseded(rows[t]) \in Rows
                         /\ Superseded(rows[t]).status = "failed"
  BY SupersededTyped DEF TypeInv, RowsTyped
<1>3. RowsTyped'
  BY <1>1, <1>2 DEF BeginClaim, TypeInv, RowsTyped, InProgress
<1> DEFINE r == [req[w] EXCEPT !.attempt = ClaimedRow(w).attempt, !.check = StoredCheck(w)]
<1>4. r \in Reqs /\ r.id = req[w].id
  BY <1>1 DEF Reqs, Rows, StoredCheck
<1>5. req' = [req EXCEPT ![w] = r]
  BY <1>1 DEF BeginClaim, TypeInv, WorkersTyped
<1>6. pc' \in [Workers -> Labels] /\ req' \in [Workers -> Reqs]
  BY <1>4, <1>5 DEF BeginClaim, TypeInv, WorkersTyped, Labels, Claimed
<1>7. WorkersTyped'
  BY <1>1, <1>4, <1>5, <1>6 DEF BeginClaim, TypeInv, WorkersTyped, Claiming, Deciding, Projected
<1> QED
  BY <1>3, <1>7 DEF BeginClaim, TypeInv, WorldTyped

LEMMA PrepareTyped ==
  ASSUME TypeInv, NEW w \in Workers, Prepare(w) \/ LeaseLost(w) \/ Narrate(w)
  PROVE  TypeInv'
<1>1. pc[w] # "idle"
  BY DEF Prepare, LeaseLost, Narrate, LeaseRun
<1>2. \/ Abandon(w)
      \/ \E label \in {"adj_identity", "narrate", "commit_visible"} : Goto(w, label)
  BY DEF Prepare, LeaseLost, Narrate
<1>3. WorkersTyped'
  BY <1>1, <1>2, AbandonTyped, GotoTyped DEF Labels, Claimed, Claiming, Deciding, Projected
<1> QED
  BY <1>3, StateTyped DEF Prepare, LeaseLost, Narrate, TypeInv

LEMMA HeartbeatTyped ==
  ASSUME TypeInv, NEW w \in Workers, Heartbeat(w) \/ HeartbeatError(w)
  PROVE  TypeInv'
<1>1. req[w] \in Reqs /\ req[w].id \in TurnIds /\ pc[w] # "idle"
  BY DEF TypeInv, WorkersTyped, Heartbeat, HeartbeatError, Leased, Claimed
<1>2. CASE req' = [req EXCEPT ![w].lost = TRUE] /\ UNCHANGED rows
  <2>1. [req[w] EXCEPT !.lost = TRUE] \in Reqs
    BY <1>1 DEF Reqs
  <2>2. WorkersTyped'
    BY <1>1, <1>2, <2>1 DEF TypeInv, WorkersTyped, Heartbeat, HeartbeatError, Reqs
  <2> QED
    BY <1>2, <2>2, StateTyped DEF Heartbeat, HeartbeatError, TypeInv
<1>3. CASE /\ rows' = [rows EXCEPT ![req[w].id].lease = "live"]
           /\ InProgress(req[w].id)
           /\ UNCHANGED req
  <2> DEFINE row == [rows[req[w].id] EXCEPT !.lease = "live"]
  <2>1. row \in Rows /\ row.status = "in_progress" /\ row.turn < MaxTurn
    BY <1>1, <1>3 DEF TypeInv, RowsTyped, Rows, InProgress
  <2>2. RowsTyped'
    BY <1>1, <1>3, <2>1, RowTyped
  <2> QED
    BY <1>3, <2>2, UnchangedTyped DEF Heartbeat, HeartbeatError, TypeInv, WorldTyped
<1> QED
  BY <1>2, <1>3 DEF Heartbeat, HeartbeatError, Fenced

LEMMA AdjudicateTyped ==
  ASSUME TypeInv, NEW w \in Workers, Adjudicate(w)
  PROVE  TypeInv'
<1>1. req[w] \in Reqs /\ req[w].id \in TurnIds
  BY DEF TypeInv, WorkersTyped, Adjudicate
<1>2. PICK d \in {"ai", "template"} : req' = [req EXCEPT ![w].decision = d]
  BY DEF Adjudicate
<1>3. [req[w] EXCEPT !.decision = d] \in Reqs
  BY <1>1 DEF Reqs
<1>4. pc' \in [Workers -> Labels] /\ req' \in [Workers -> Reqs]
  BY <1>2, <1>3 DEF TypeInv, WorkersTyped, Adjudicate, Labels, Claimed
<1>5. WorkersTyped'
  BY <1>1, <1>2, <1>3, <1>4 DEF TypeInv, WorkersTyped, Adjudicate, Claiming, Deciding, Projected, Reqs
<1>6. asked' \in [TurnIds -> Nat]
  BY DEF TypeInv, WorldTyped, Adjudicate
<1> QED
  BY <1>5, <1>6 DEF TypeInv, RowsTyped, WorldTyped, InProgress, Adjudicate

LEMMA SettleTyped ==
  ASSUME TypeInv, NEW w \in Workers, Settle(w)
  PROVE  TypeInv'
<1>1. /\ req[w] \in Reqs /\ req[w].id \in TurnIds /\ pc[w] = "settle"
      /\ req[w].decision \in {"ai", "template"}
  BY DEF TypeInv, WorkersTyped, Settle, Deciding
<1>2. RowsTyped'
  <2>1. CASE UNCHANGED rows
    BY <2>1 DEF TypeInv, RowsTyped, InProgress
  <2>2. CASE /\ HoldsClaim(w)
             /\ rows' = [rows EXCEPT ![req[w].id].check = req[w].decision]
    <3> DEFINE row == [rows[req[w].id] EXCEPT !.check = req[w].decision]
    <3>1. row \in Rows /\ row.status = "in_progress" /\ row.turn < MaxTurn
      BY <1>1, <2>2 DEF TypeInv, RowsTyped, Rows, Checks, InProgress, HoldsClaim
    <3> QED
      BY <1>1, <2>2, <3>1, RowTyped
  <2> QED
    BY <2>1, <2>2 DEF Settle
<1>3. WorkersTyped'
  <2>1. CASE Abandon(w)
    BY <1>1, <2>1, AbandonTyped
  <2>2. CASE /\ req' = [req EXCEPT ![w].check = req[w].decision]
             /\ pc' = [pc EXCEPT ![w] = "narrate"]
    <3>1. [req[w] EXCEPT !.check = req[w].decision] \in Reqs
      BY <1>1 DEF Reqs, Checks
    <3>2. pc' \in [Workers -> Labels] /\ req' \in [Workers -> Reqs]
      BY <2>2, <3>1 DEF TypeInv, WorkersTyped, Labels, Claimed
    <3> QED
      BY <1>1, <2>2, <3>1, <3>2 DEF TypeInv, WorkersTyped, Claiming, Deciding, Projected, Reqs
  <2> QED
    BY <2>1, <2>2 DEF Settle
<1> QED
  BY <1>2, <1>3 DEF Settle, TypeInv, WorldTyped

LEMMA CompleteTyped ==
  ASSUME TypeInv, NEW w \in Workers, Complete(w)
  PROVE  TypeInv'
<1>1. req[w] \in Reqs /\ req[w].id \in TurnIds /\ pc[w] = "complete"
  BY DEF TypeInv, WorkersTyped, Complete
<1>2. WorkersTyped'
  BY <1>1, AbandonTyped, ProjectForTyped DEF Complete
<1>3. RowsTyped' /\ world' \in Worlds
  <2>1. CASE UNCHANGED <<rows, world>>
    BY <2>1 DEF TypeInv, RowsTyped, WorldTyped, InProgress
  <2> DEFINE row == [rows[req[w].id] EXCEPT !.status = "completed", !.lease = "none",
                                            !.failure = "none", !.shown = world.chapter]
  <2>2. CASE /\ Committable(w)
             /\ rows' = [rows EXCEPT ![req[w].id] = row]
             /\ world' = NextWorld
    <3>1. /\ rows[req[w].id] \in Rows /\ rows[req[w].id].turn < MaxTurn
          /\ world \in Worlds /\ world.turn = rows[req[w].id].turn
      BY <1>1, <2>2 DEF TypeInv, RowsTyped, WorldTyped, Committable, HoldsClaim, Matches, Current
    <3>2. row \in Rows /\ row.status = "completed"
      BY <3>1 DEF Rows, Worlds
    <3>3. world.turn + 1 \in 0 .. MaxTurn
      BY <3>1, Assumptions DEF Worlds
    <3>4. world' \in Worlds
      BY <2>2, <3>1, <3>3 DEF Worlds, NextWorld
    <3> QED
      BY <1>1, <2>2, <3>2, <3>4, RowTyped
  <2> QED
    BY <1>1, <2>1, <2>2 DEF Complete, TypeInv, RowsTyped
<1> QED
  BY <1>2, <1>3 DEF Complete, TypeInv, WorldTyped

LEMMA FailTurnTyped ==
  ASSUME TypeInv, NEW w \in Workers, FailTurn(w)
  PROVE  TypeInv'
<1>1. req[w].id \in TurnIds /\ rows[req[w].id] \in Rows
  BY DEF TypeInv, WorkersTyped, RowsTyped, FailTurn
<1> DEFINE row == [rows[req[w].id] EXCEPT !.status = "failed", !.lease = "none",
                                          !.failure = "other"]
<1>2. row \in Rows /\ row.status = "failed"
  BY <1>1 DEF Rows
<1>3. RowsTyped'
  <2>1. CASE UNCHANGED rows
    BY <2>1 DEF TypeInv, RowsTyped, InProgress
  <2>2. CASE rows' = [rows EXCEPT ![req[w].id] = row]
    BY <1>1, <1>2, <2>2, RowTyped
  <2> QED
    BY <1>1, <2>1, <2>2 DEF FailTurn, TypeInv, RowsTyped
<1> QED
  BY <1>3, LeaveTyped DEF FailTurn, TypeInv, WorldTyped

LEMMA RecoverTyped ==
  ASSUME TypeInv, NEW w \in Workers, NEW t \in TurnIds, Recover(w, t)
  PROVE  TypeInv'
  BY ProjectForTyped, StateTyped DEF Recover, TypeInv

LEMMA ProjectTyped ==
  ASSUME TypeInv, NEW w \in Workers, Project(w)
  PROVE  TypeInv'
<1>1. req[w] \in Reqs /\ req[w].id \in TurnIds
  BY DEF TypeInv, WorkersTyped, Project
<1>2. WorkersTyped'
  <2>1. CASE Leave(w)
    BY <2>1, LeaveTyped
  <2>2. ASSUME NEW d \in {"saved", "skipped"},
               req' = [req EXCEPT ![w].decision = d],
               pc' = [pc EXCEPT ![w] = "elig_after"]
        PROVE  WorkersTyped'
    <3>1. [req[w] EXCEPT !.decision = d] \in Reqs
      BY <1>1 DEF Reqs
    <3>2. pc' \in [Workers -> Labels] /\ req' \in [Workers -> Reqs]
      BY <2>2, <3>1 DEF TypeInv, WorkersTyped, Labels
    <3> QED
      BY <1>1, <2>2, <3>1, <3>2 DEF TypeInv, WorkersTyped, Claiming, Deciding, Projected, Reqs
  <2> QED
    BY <2>1, <2>2 DEF Project
<1>3. WorldTyped'
  BY <1>1 DEF Project, TypeInv, WorldTyped
<1>4. RowsTyped'
  BY DEF Project, TypeInv, RowsTyped, InProgress
<1> QED
  BY <1>2, <1>3, <1>4 DEF TypeInv

LEMMA FinishProjectionTyped ==
  ASSUME TypeInv, NEW w \in Workers, FinishProjection(w)
  PROVE  TypeInv'
<1>1. /\ req[w].id \in TurnIds /\ rows[req[w].id] \in Rows /\ pc[w] = "finish"
      /\ req[w].decision \in {"saved", "skipped"}
  BY DEF TypeInv, WorkersTyped, RowsTyped, FinishProjection, Projected
<1>2. WorkersTyped'
  BY <1>1, LeaveTyped, GotoTyped DEF FinishProjection, Labels, Claiming, Deciding, Projected
<1> DEFINE row == [rows[req[w].id] EXCEPT !.memory = req[w].decision]
<1>3. RowsTyped'
  <2>1. CASE UNCHANGED rows
    BY <2>1 DEF TypeInv, RowsTyped, InProgress
  <2>2. CASE Finishable(w) /\ rows' = [rows EXCEPT ![req[w].id].memory = req[w].decision]
    <3>1. row \in Rows /\ row.status = "completed"
      BY <1>1, <2>2 DEF Rows, Finishable, Completed
    <3> QED
      BY <1>1, <2>2, <3>1, RowTyped
  <2> QED
    BY <2>1, <2>2 DEF FinishProjection
<1> QED
  BY <1>2, <1>3 DEF FinishProjection, TypeInv, WorldTyped

LEMMA ExpireLeaseTyped ==
  ASSUME TypeInv, NEW t \in TurnIds, ExpireLease(t)
  PROVE  TypeInv'
<1> DEFINE row == [rows[t] EXCEPT !.lease = "expired"]
<1>1. row \in Rows /\ row.status = "in_progress" /\ row.turn < MaxTurn
  BY DEF ExpireLease, TypeInv, RowsTyped, Rows, InProgress
<1>2. RowsTyped'
  BY <1>1, RowTyped DEF ExpireLease
<1> QED
  BY <1>2, UnchangedTyped DEF ExpireLease, TypeInv, WorldTyped

LEMMA SurroundingsTyped ==
  ASSUME TypeInv, ExtendSource \/ ReaderMoves \/ IdentityChanges
  PROVE  TypeInv'
<1>1. world' \in Worlds
  BY Assumptions DEF ExtendSource, ReaderMoves, IdentityChanges, TypeInv, WorldTyped, Worlds, Chapters
<1>2. reader' \in [self : BOOLEAN, chapter : 1 .. MaxChapter]
  <2>1. CASE ReaderMoves
    <3>1. PICK chapter \in 1 .. MaxChapter, self \in {reader.self, TRUE} :
            reader' = [self |-> self, chapter |-> chapter]
      BY <2>1 DEF ReaderMoves
    <3>2. self \in BOOLEAN
      BY DEF TypeInv, WorldTyped
    <3> QED
      BY <3>1, <3>2
  <2> QED
    BY <2>1 DEF ExtendSource, IdentityChanges, TypeInv, WorldTyped
<1>3. RowsTyped' /\ WorkersTyped'
  BY UnchangedTyped DEF ExtendSource, ReaderMoves, IdentityChanges, TypeInv, RowsTyped, InProgress
<1> QED
  BY <1>1, <1>2, <1>3
     DEF ExtendSource, ReaderMoves, IdentityChanges, TypeInv, WorldTyped

LEMMA TypeStep == TypeInv /\ [Next]_vars => TypeInv'
<1> SUFFICES ASSUME TypeInv, [Next]_vars PROVE TypeInv'
  OBVIOUS
<1>1. CASE UNCHANGED vars
  BY <1>1, StateTyped, UnchangedTyped DEF vars, TypeInv
<1>2. ASSUME NEW w \in Workers, WorkerStep(w) PROVE TypeInv'
  <2>1. CASE Reply(w)
    BY <2>1, LeaveTyped, StateTyped DEF Reply, TypeInv
  <2> QED
    BY <1>2, <2>1, CheckTyped, ReadSnapshotTyped, BeginTyped, BeginClaimTyped, PrepareTyped,
       AdjudicateTyped, SettleTyped, CompleteTyped, FailTurnTyped, ProjectTyped,
       FinishProjectionTyped DEF WorkerStep
<1>3. ASSUME NEW w \in Workers, Heartbeat(w) \/ HeartbeatError(w) \/ Crash(w) PROVE TypeInv'
  <2>1. CASE Crash(w)
    BY <2>1, LeaveTyped, StateTyped DEF Crash, TypeInv
  <2> QED
    BY <1>3, <2>1, HeartbeatTyped
<1>4. ASSUME NEW w \in Workers, NEW t \in TurnIds, Submit(w, t) \/ Recover(w, t) PROVE TypeInv'
  BY <1>4, SubmitTyped, RecoverTyped
<1>5. ASSUME NEW t \in TurnIds, ExpireLease(t) PROVE TypeInv'
  BY <1>5, ExpireLeaseTyped
<1>6. CASE ExtendSource \/ ReaderMoves \/ IdentityChanges
  BY <1>6, SurroundingsTyped
<1> QED
  BY <1>1, <1>2, <1>3, <1>4, <1>5, <1>6 DEF Next

\* Every variable keeps its type, whatever the numbers of keys, workers, turns,
\* attempts and chapters.
THEOREM TypeCorrect == Spec => []TypeOK
<1>1. TypeInv => TypeOK
  BY DEF TypeInv, RowsTyped, WorldTyped, WorkersTyped, TypeOK
<1> QED
  BY <1>1, TypeInit, TypeStep, PTL DEF Spec

------------------------------------------------------------------------------
(***************************************************************************)
(* The journal and the world state.  The three properties of the scope     *)
(* support each other: a claim is current because nothing else may move    *)
(* the session while it stands, and a commit extends the timeline by the   *)
(* next number because its claim is current.                               *)
(***************************************************************************)
RowShape ==
    \A t \in TurnIds :
        /\ InProgress(t) => rows[t].lease # "none"
        /\ rows[t].memory # "pending" => Completed(t)
        /\ rows[t].failure = "superseded" => rows[t].status = "failed"

ScopeInv == RowShape /\ OneOutstandingTurn /\ TimelineExact /\ ClaimIsCurrent

LEMMA ScopeInit == Init => ScopeInv
<1> SUFFICES ASSUME Init PROVE ScopeInv
  OBVIOUS
<1>1. \A t \in TurnIds : rows[t] = NoRow
  BY DEF Init
<1>2. RowShape /\ OneOutstandingTurn /\ ClaimIsCurrent
  BY <1>1 DEF RowShape, OneOutstandingTurn, ClaimIsCurrent, Outstanding, Unprojected,
              InProgress, Completed, NoRow
<1>3. TimelineExact
  BY <1>1 DEF TimelineExact, Completed, NoRow, Init
<1> QED
  BY <1>2, <1>3 DEF ScopeInv

LEMMA ScopeUnchanged ==
  ASSUME ScopeInv, UNCHANGED <<rows, world>>
  PROVE  ScopeInv'
<1>1. RowShape' /\ OneOutstandingTurn' /\ ClaimIsCurrent'
  BY DEF ScopeInv, RowShape, OneOutstandingTurn, ClaimIsCurrent, Outstanding, Unprojected,
         InProgress, Completed, SourceMatches
<1>2. TimelineExact'
  BY DEF ScopeInv, TimelineExact, Completed
<1> QED
  BY <1>1, <1>2 DEF ScopeInv

\* A row that keeps its status, turn and chapter, and whose projection is not
\* taken back: renewals, expiries, settled checks and finished projections.
LEMMA ScopeRowKept ==
  ASSUME TypeInv, ScopeInv, NEW t \in TurnIds, NEW row, rows' = [rows EXCEPT ![t] = row],
         row.status = rows[t].status, row.turn = rows[t].turn, row.chapter = rows[t].chapter,
         row.failure = rows[t].failure,
         row.status = "in_progress" => row.lease # "none",
         row.memory = rows[t].memory \/ (row.status = "completed" /\ row.memory # "pending"),
         UNCHANGED world
  PROVE  ScopeInv'
<1>1. /\ rows'[t] = row
      /\ \A u \in TurnIds : u # t => rows'[u] = rows[u]
  BY DEF TypeInv, RowsTyped
<1>2. \A u \in TurnIds : /\ rows'[u].status = rows[u].status
                         /\ rows'[u].turn = rows[u].turn
                         /\ rows'[u].chapter = rows[u].chapter
                         /\ rows'[u].failure = rows[u].failure
  BY <1>1
<1>3. \A u \in TurnIds : Outstanding(u)' => Outstanding(u)
  BY <1>1, <1>2 DEF Outstanding, Unprojected, InProgress, Completed
<1>4. RowShape'
  BY <1>1, <1>2 DEF ScopeInv, RowShape, InProgress, Completed
<1>5. OneOutstandingTurn'
  BY <1>3 DEF ScopeInv, OneOutstandingTurn
<1>6. TimelineExact'
  BY <1>2 DEF ScopeInv, TimelineExact, Completed
<1>7. ClaimIsCurrent'
  BY <1>2 DEF ScopeInv, ClaimIsCurrent, InProgress, SourceMatches
<1> QED
  BY <1>4, <1>5, <1>6, <1>7 DEF ScopeInv

LEMMA ScopeBeginClaim ==
  ASSUME TypeInv, ScopeInv, NEW w \in Workers, BeginClaim(w)
  PROVE  ScopeInv'
<1> DEFINE id == req[w].id
<1>1. /\ id \in TurnIds
      /\ ClaimedRow(w).status = "in_progress"
      /\ ClaimedRow(w).turn = req[w].turn
      /\ ClaimedRow(w).chapter = req[w].chapter
      /\ ClaimedRow(w).memory = IF rows[id].status = "absent" THEN "pending" ELSE rows[id].memory
  BY ClaimedRowTyped DEF BeginClaim, TypeInv, WorkersTyped
<1>2. ClaimedRow(w).lease = "live" /\ ClaimedRow(w).failure = "none"
  BY <1>1 DEF ClaimedRow, NoRow, TypeInv, RowsTyped, Rows
<1>3. ~Completed(id)
  BY DEF BeginClaim, Claimable, Replayable, Conflicting, Completed
<1>4. rows'[id] = ClaimedRow(w)
  BY <1>1 DEF BeginClaim
<1>5. ASSUME NEW t \in TurnIds, t # id
      PROVE  \/ InProgress(t) /\ rows'[t] = Superseded(rows[t])
             \/ ~InProgress(t) /\ rows'[t] = rows[t]
  <2>1. InProgress(t) => rows[t].lease = "expired"
    BY <1>5 DEF BeginClaim, Claimable, Busy, ScopeInv, RowShape, TypeInv, RowsTyped, Rows
  <2> QED
    BY <1>5, <2>1 DEF BeginClaim
<1>6. \A t \in TurnIds : rows[t] \in Rows
  BY DEF TypeInv, RowsTyped
<1>7. ASSUME NEW t \in TurnIds, t # id
      PROVE  /\ rows'[t].status # "in_progress"
             /\ rows'[t].memory = rows[t].memory
             /\ rows'[t].status = "completed" <=> rows[t].status = "completed"
             /\ rows[t].status = "completed" => rows'[t] = rows[t]
             /\ rows'[t].failure = "superseded" =>
                    rows'[t].status = "failed" \/ rows[t].failure = "superseded"
             /\ rows[t].status = "failed" => rows'[t].status = "failed"
  BY <1>5, <1>6, <1>7, SupersededTyped DEF InProgress
<1>8. \A t \in TurnIds : Completed(t)' <=> Completed(t)
  BY <1>1, <1>3, <1>4, <1>7 DEF Completed
<1>9. \A t \in TurnIds : rows[t].memory = "pending" \/ ~Unprojected(t)
  BY DEF Unprojected
<1>10. RowShape'
  <2>1. rows[id].memory = "pending"
    BY <1>1, <1>3 DEF ScopeInv, RowShape
  <2>2. ASSUME NEW t \in TurnIds, t = id PROVE
          /\ InProgress(t)' => rows'[t].lease # "none"
          /\ rows'[t].memory # "pending" => Completed(t)'
          /\ rows'[t].failure = "superseded" => rows'[t].status = "failed"
    BY <1>1, <1>2, <1>4, <2>1, <2>2
  <2>3. ASSUME NEW t \in TurnIds, t # id PROVE
          /\ InProgress(t)' => rows'[t].lease # "none"
          /\ rows'[t].memory # "pending" => Completed(t)'
          /\ rows'[t].failure = "superseded" => rows'[t].status = "failed"
    BY <1>7, <1>8, <2>3 DEF ScopeInv, RowShape, InProgress
  <2> QED
    BY <2>2, <2>3 DEF RowShape
<1>11. OneOutstandingTurn'
  <2>1. \A t \in TurnIds : ~Unprojected(t)
    BY DEF BeginClaim, Claimable, Projecting
  <2>2. \A t \in TurnIds : t # id => ~Outstanding(t)'
    BY <1>7, <1>8, <2>1 DEF Outstanding, Unprojected, InProgress, Completed
  <2> QED
    BY <2>2 DEF OneOutstandingTurn
<1>12. TimelineExact'
  <2>1. world' = world
    BY DEF BeginClaim
  <2>2. \A t \in TurnIds : Completed(t) => rows'[t].turn = rows[t].turn
    BY <1>3, <1>7 DEF Completed
  <2> QED
    BY <1>8, <2>1, <2>2 DEF ScopeInv, TimelineExact
<1>13. ClaimIsCurrent'
  <2>1. world' = world /\ Current(w)
    BY DEF BeginClaim, Claimable
  <2> QED
    BY <1>1, <1>4, <1>7, <2>1 DEF ClaimIsCurrent, InProgress, Current, SourceMatches
<1> QED
  BY <1>10, <1>11, <1>12, <1>13 DEF ScopeInv

LEMMA ScopeComplete ==
  ASSUME TypeInv, ScopeInv, NEW w \in Workers, Complete(w)
  PROVE  ScopeInv'
<1> DEFINE id == req[w].id
           row == [rows[id] EXCEPT !.status = "completed", !.lease = "none",
                                   !.failure = "none", !.shown = world.chapter]
<1>1. CASE UNCHANGED <<rows, world>>
  BY <1>1, ScopeUnchanged
<1>2. CASE Committable(w) /\ rows' = [rows EXCEPT ![id] = row] /\ world' = NextWorld
  <2>1. /\ id \in TurnIds /\ rows[id] \in Rows /\ world \in Worlds
        /\ InProgress(id) /\ rows[id].turn = world.turn
    BY <1>2 DEF TypeInv, WorkersTyped, RowsTyped, WorldTyped, Complete, Committable, HoldsClaim,
                Matches, Current
  <2>r. row.status = "completed" /\ row.lease = "none" /\ row.failure = "none"
        /\ row.turn = world.turn /\ row.memory = rows[id].memory
    BY <2>1 DEF Rows
  <2>w. rows'[id] = row /\ \A t \in TurnIds : t # id => rows'[t] = rows[t]
    <3>1. rows \in [TurnIds -> Rows]
      BY DEF TypeInv, RowsTyped
    <3> HIDE DEF row
    <3> QED
      BY <1>2, <2>1, <3>1
  <2>2. /\ rows'[id] = row
        /\ row.status = "completed" /\ row.lease = "none" /\ row.failure = "none"
        /\ row.turn = world.turn /\ row.memory = rows[id].memory
        /\ \A t \in TurnIds : t # id => rows'[t] = rows[t]
    BY <2>r, <2>w
  <2> HIDE DEF row
  <2>3. world'.turn = world.turn + 1 /\ world.turn \in Nat
    BY <1>2, <2>1, Assumptions DEF NextWorld, Worlds
  <2>4. \A t \in TurnIds : Outstanding(t) => t = id
    BY <2>1 DEF ScopeInv, OneOutstandingTurn, Outstanding
  <2>5. \A t \in TurnIds : t # id => ~Outstanding(t)'
    BY <2>2, <2>4 DEF Outstanding, InProgress, Unprojected, Completed
  <2>6. \A t \in TurnIds : Completed(t)' <=> Completed(t) \/ t = id
    BY <2>2 DEF Completed
  <2>7. ~Completed(id)
    BY <2>1 DEF InProgress, Completed
  <2>8. RowShape'
    <3>1. ASSUME NEW t \in TurnIds, t # id
          PROVE  /\ InProgress(t)' => rows'[t].lease # "none"
                 /\ rows'[t].memory # "pending" => Completed(t)'
                 /\ rows'[t].failure = "superseded" => rows'[t].status = "failed"
      BY <2>2, <3>1 DEF ScopeInv, RowShape, InProgress, Completed
    <3>2. ASSUME NEW t \in TurnIds, t = id
          PROVE  /\ InProgress(t)' => rows'[t].lease # "none"
                 /\ rows'[t].memory # "pending" => Completed(t)'
                 /\ rows'[t].failure = "superseded" => rows'[t].status = "failed"
      BY <2>2, <3>2 DEF InProgress, Completed
    <3> QED
      BY <3>1, <3>2 DEF RowShape
  <2>9. OneOutstandingTurn'
    BY <2>5 DEF OneOutstandingTurn
  <2>10. ClaimIsCurrent'
    BY <2>2, <2>5 DEF ClaimIsCurrent, Outstanding, InProgress
  <2>11. TimelineExact'
    <3>1. \A t \in TurnIds : Completed(t) => rows[t].turn \in Nat /\ rows[t].turn < world.turn
      BY Assumptions DEF ScopeInv, TimelineExact, TypeInv, RowsTyped, Rows
    <3>0. ASSUME NEW t \in TurnIds, Completed(t)'
          PROVE  \/ t = id /\ rows'[t].turn = world.turn
                 \/ /\ Completed(t) /\ rows'[t].turn = rows[t].turn
                    /\ rows'[t].turn < world.turn /\ rows'[t].turn \in Nat
      <4>1. CASE t = id
        BY <2>2, <4>1
      <4>2. CASE t # id
        <5>1. Completed(t) /\ rows'[t] = rows[t]
          BY <2>2, <2>6, <3>0, <4>2
        <5> QED
          BY <3>1, <5>1
      <4> QED
        BY <4>1, <4>2
    <3>2. \A t \in TurnIds : Completed(t)' => rows'[t].turn < world'.turn
      BY <2>3, <3>0
    <3>3. ASSUME NEW t \in TurnIds, NEW u \in TurnIds, Completed(t)', Completed(u)',
                 rows'[t].turn = rows'[u].turn
          PROVE  t = u
      <4>0. rows'[id].turn = world.turn
        BY <2>2
      <4>1. CASE t = id
        <5>1. u = id \/ rows'[u].turn < world.turn
          BY <3>0, <3>3
        <5>2. rows'[u].turn = world.turn
          BY <3>3, <4>0, <4>1
        <5> QED
          BY <2>3, <4>1, <5>1, <5>2
      <4>2. CASE t # id
        <5>1. Completed(t) /\ rows'[t].turn = rows[t].turn /\ rows'[t].turn < world.turn
          BY <3>0, <3>3, <4>2
        <5>2. u # id
          <6> SUFFICES ASSUME u = id PROVE FALSE
            OBVIOUS
          <6>1. rows'[t].turn = world.turn
            BY <3>3, <4>0
          <6> QED
            BY <2>3, <5>1, <6>1
        <5>3. Completed(u) /\ rows'[u].turn = rows[u].turn
          BY <3>0, <3>3, <5>2
        <5> QED
          BY <3>3, <5>1, <5>3 DEF ScopeInv, TimelineExact
      <4> QED
        BY <4>1, <4>2
    <3>4. ASSUME NEW n \in 0 .. world'.turn - 1
          PROVE  \E t \in TurnIds : Completed(t)' /\ rows'[t].turn = n
      <4>1. CASE n = world.turn
        BY <2>1, <2>2, <2>6, <4>1
      <4>2. CASE n # world.turn
        <5>1. n \in 0 .. world.turn - 1
          BY <2>3, <3>4, <4>2
        <5>2. PICK t \in TurnIds : Completed(t) /\ rows[t].turn = n
          BY <5>1 DEF ScopeInv, TimelineExact
        <5> QED
          BY <2>2, <2>6, <2>7, <5>2
      <4> QED
        BY <4>1, <4>2
    <3> QED
      BY <3>2, <3>3, <3>4 DEF TimelineExact
  <2> QED
    BY <2>8, <2>9, <2>10, <2>11 DEF ScopeInv
<1> QED
  BY <1>1, <1>2 DEF Complete, TypeInv, RowsTyped, WorkersTyped

LEMMA ScopeFailTurn ==
  ASSUME TypeInv, ScopeInv, NEW w \in Workers, FailTurn(w)
  PROVE  ScopeInv'
<1> DEFINE id == req[w].id
           row == [rows[id] EXCEPT !.status = "failed", !.lease = "none", !.failure = "other"]
<1>1. CASE UNCHANGED rows
  BY <1>1, ScopeUnchanged DEF FailTurn
<1>2. CASE Fenced(w) /\ rows' = [rows EXCEPT ![id] = row]
  <2>1. id \in TurnIds /\ rows[id] \in Rows /\ InProgress(id) /\ world' = world
    BY <1>2 DEF TypeInv, WorkersTyped, RowsTyped, FailTurn, Fenced
  <2>2. /\ rows'[id] = row
        /\ row.status = "failed" /\ row.failure = "other" /\ row.memory = rows[id].memory
        /\ \A t \in TurnIds : t # id => rows'[t] = rows[t]
    BY <1>2, <2>1 DEF TypeInv, RowsTyped, Rows
  <2>3. \A t \in TurnIds : Completed(t)' <=> Completed(t)
    BY <2>1, <2>2 DEF Completed, InProgress
  <2>4. \A t \in TurnIds : Completed(t) => rows'[t] = rows[t]
    BY <2>1, <2>2 DEF Completed, InProgress
  <2>5. \A t \in TurnIds : InProgress(t)' => InProgress(t) /\ rows'[t] = rows[t]
    BY <2>2 DEF InProgress
  <2>6. RowShape'
    <3>1. rows[id].memory = "pending"
      BY <2>1 DEF ScopeInv, RowShape, InProgress, Completed
    <3>2. \A t \in TurnIds : t # id =>
            /\ InProgress(t)' => rows'[t].lease # "none"
            /\ rows'[t].memory # "pending" => Completed(t)'
            /\ rows'[t].failure = "superseded" => rows'[t].status = "failed"
      BY <2>2, <2>3 DEF ScopeInv, RowShape, InProgress
    <3> QED
      BY <2>2, <3>1, <3>2 DEF RowShape, InProgress
  <2>7. OneOutstandingTurn'
    BY <2>3, <2>4, <2>5 DEF ScopeInv, OneOutstandingTurn, Outstanding, Unprojected
  <2>8. TimelineExact'
    BY <2>1, <2>3, <2>4 DEF ScopeInv, TimelineExact
  <2>9. ClaimIsCurrent'
    BY <2>1, <2>5 DEF ScopeInv, ClaimIsCurrent, SourceMatches
  <2> QED
    BY <2>6, <2>7, <2>8, <2>9 DEF ScopeInv
<1> QED
  BY <1>1, <1>2 DEF FailTurn, TypeInv, RowsTyped

\* The worker steps that change a row and keep its status.
LEMMA ScopeSameStatus ==
  ASSUME TypeInv, ScopeInv, NEW w \in Workers,
         Heartbeat(w) \/ Settle(w) \/ FinishProjection(w)
  PROVE  ScopeInv'
<1>1. CASE UNCHANGED rows
  BY <1>1, ScopeUnchanged DEF Heartbeat, Settle, FinishProjection
<1>2. world' = world
  BY DEF Heartbeat, Settle, FinishProjection
<1> DEFINE id == req[w].id
<1>4. Heartbeat(w) \/ Settle(w) \/ FinishProjection(w) => id \in TurnIds /\ rows[id] \in Rows
  BY DEF TypeInv, WorkersTyped, RowsTyped, Heartbeat, Settle, FinishProjection, Leased, Claimed
<1>5. CASE Heartbeat(w) /\ rows' = [rows EXCEPT ![id].lease = "live"]
  <2> DEFINE row == [rows[id] EXCEPT !.lease = "live"]
  <2>1. /\ row.status = rows[id].status /\ row.turn = rows[id].turn
        /\ row.chapter = rows[id].chapter /\ row.failure = rows[id].failure
        /\ row.memory = rows[id].memory /\ row.lease = "live"
    BY <1>4, <1>5 DEF Rows
  <2> QED
    BY <1>2, <1>4, <1>5, <2>1, ScopeRowKept
<1>6. CASE Settle(w) /\ HoldsClaim(w) /\ rows' = [rows EXCEPT ![id].check = req[w].decision]
  <2> DEFINE row == [rows[id] EXCEPT !.check = req[w].decision]
  <2>1. /\ row.status = rows[id].status /\ row.turn = rows[id].turn
        /\ row.chapter = rows[id].chapter /\ row.failure = rows[id].failure
        /\ row.memory = rows[id].memory /\ row.lease = rows[id].lease
    BY <1>4, <1>6 DEF Rows
  <2>2. row.lease = "live"
    BY <1>6, <2>1 DEF HoldsClaim
  <2> QED
    BY <1>2, <1>4, <1>6, <2>1, <2>2, ScopeRowKept
<1>7. CASE FinishProjection(w) /\ Finishable(w)
           /\ rows' = [rows EXCEPT ![id].memory = req[w].decision]
  <2> DEFINE row == [rows[id] EXCEPT !.memory = req[w].decision]
  <2>1. /\ row.status = rows[id].status /\ row.turn = rows[id].turn
        /\ row.chapter = rows[id].chapter /\ row.failure = rows[id].failure
        /\ row.memory = req[w].decision /\ row.status = "completed"
    BY <1>4, <1>7 DEF Rows, Finishable, Completed
  <2>2. req[w].decision # "pending"
    BY <1>7 DEF FinishProjection, TypeInv, WorkersTyped, Projected
  <2> QED
    BY <1>2, <1>4, <1>7, <2>1, <2>2, ScopeRowKept
<1> QED
  BY <1>1, <1>5, <1>6, <1>7 DEF Heartbeat, Settle, FinishProjection

LEMMA ScopeExtendSource ==
  ASSUME TypeInv, ScopeInv, ExtendSource
  PROVE  ScopeInv'
<1>1. rows' = rows /\ world'.turn = world.turn
  BY DEF ExtendSource, TypeInv, WorldTyped, Worlds
<1>2. \A t \in TurnIds : ~InProgress(t)
  BY DEF ExtendSource, SourceBusy
<1>3. RowShape' /\ OneOutstandingTurn'
  BY <1>1 DEF ScopeInv, RowShape, OneOutstandingTurn, Outstanding, Unprojected, InProgress,
              Completed
<1>4. TimelineExact'
  BY <1>1 DEF ScopeInv, TimelineExact, Completed
<1>5. ClaimIsCurrent'
  BY <1>1, <1>2 DEF ClaimIsCurrent, InProgress
<1> QED
  BY <1>3, <1>4, <1>5 DEF ScopeInv

LEMMA ScopeStep == TypeInv /\ ScopeInv /\ [Next]_vars => ScopeInv'
<1> SUFFICES ASSUME TypeInv, ScopeInv, [Next]_vars PROVE ScopeInv'
  OBVIOUS
<1>1. CASE UNCHANGED <<rows, world>>
  BY <1>1, ScopeUnchanged
<1>2. ASSUME NEW w \in Workers, WorkerStep(w) PROVE ScopeInv'
  <2>1. CASE BeginClaim(w) \/ Complete(w) \/ FailTurn(w)
    BY <2>1, ScopeBeginClaim, ScopeComplete, ScopeFailTurn
  <2>2. CASE Settle(w) \/ FinishProjection(w)
    BY <2>2, ScopeSameStatus
  <2> QED
    BY <1>1, <1>2, <2>1, <2>2
       DEF WorkerStep, CheckIdentity, ReadSnapshot, CheckProgress, BeginReplay, BeginRefuse,
           Prepare, LeaseLost, Adjudicate, Narrate, CheckEligible, Project, Reply
<1>3. ASSUME NEW w \in Workers, Heartbeat(w) \/ HeartbeatError(w) \/ Crash(w) PROVE ScopeInv'
  <2>1. CASE Heartbeat(w)
    BY <2>1, ScopeSameStatus
  <2> QED
    BY <1>1, <1>3, <2>1 DEF HeartbeatError, Crash
<1>4. ASSUME NEW w \in Workers, NEW t \in TurnIds, Submit(w, t) \/ Recover(w, t) PROVE ScopeInv'
  BY <1>1, <1>4 DEF Submit, Recover
<1>5. ASSUME NEW t \in TurnIds, ExpireLease(t) PROVE ScopeInv'
  <2> DEFINE row == [rows[t] EXCEPT !.lease = "expired"]
  <2>1. /\ row.status = rows[t].status /\ row.turn = rows[t].turn
        /\ row.chapter = rows[t].chapter /\ row.failure = rows[t].failure
        /\ row.memory = rows[t].memory /\ row.lease = "expired"
    BY DEF TypeInv, RowsTyped, Rows
  <2> QED
    BY <1>5, <2>1, ScopeRowKept DEF ExpireLease
<1>6. CASE ExtendSource \/ ReaderMoves \/ IdentityChanges
  BY <1>1, <1>6, ScopeExtendSource DEF ReaderMoves, IdentityChanges
<1> QED
  BY <1>1, <1>2, <1>3, <1>4, <1>5, <1>6 DEF Next, vars

\* At most one turn of the scope is outstanding, the committed turns are exactly
\* those the session has counted, and every claim is for its next turn.
THEOREM ScopeCorrect == Spec => [](OneOutstandingTurn /\ TimelineExact /\ ClaimIsCurrent)
<1>1. ScopeInv => OneOutstandingTurn /\ TimelineExact /\ ClaimIsCurrent
  BY DEF ScopeInv
<1> QED
  BY <1>1, TypeInit, TypeStep, ScopeInit, ScopeStep, PTL DEF Spec

------------------------------------------------------------------------------
(***************************************************************************)
(* What a step may do to a completed or a superseded row.                  *)
(***************************************************************************)
\* A row that is in progress, or completed with its turn, check and shown chapter
\* kept and its projection only settled, satisfies FinalStep.
LEMMA FinalRow ==
  ASSUME TypeInv, ScopeInv, NEW t \in TurnIds, NEW row, rows' = [rows EXCEPT ![t] = row],
         \/ InProgress(t)
         \/ /\ Completed(t)
            /\ row.status = "completed" /\ row.turn = rows[t].turn
            /\ row.check = rows[t].check /\ row.shown = rows[t].shown
            /\ rows[t].memory # "pending" => row.memory = rows[t].memory
  PROVE  \A u \in TurnIds : FinalStep(u)
<1>1. rows'[t] = row /\ \A u \in TurnIds : u # t => rows'[u] = rows[u]
  BY DEF TypeInv, RowsTyped
<1>2. \A u \in TurnIds : u # t => FinalStep(u)
  BY <1>1 DEF FinalStep, Completed
<1>3. rows[t].failure # "superseded"
  BY DEF ScopeInv, RowShape, InProgress, Completed
<1>4. FinalStep(t)
  BY <1>1, <1>3 DEF FinalStep, Completed, InProgress
<1> QED
  BY <1>2, <1>4

LEMMA FinalBeginClaim ==
  ASSUME TypeInv, ScopeInv, NEW w \in Workers, BeginClaim(w)
  PROVE  \A t \in TurnIds : FinalStep(t)
<1> SUFFICES ASSUME NEW t \in TurnIds PROVE FinalStep(t)
  OBVIOUS
<1>1. CASE t = req[w].id
  <2>1. ~Completed(t)
    BY <1>1 DEF BeginClaim, Claimable, Replayable, Conflicting, Completed
  <2>2. rows[t].failure # "superseded"
    BY <1>1 DEF BeginClaim, Claimable, Conflicting, ScopeInv, RowShape
  <2> QED
    BY <2>1, <2>2 DEF FinalStep
<1>2. CASE t # req[w].id
  <2>1. CASE InProgress(t)
    BY <2>1 DEF FinalStep, Completed, InProgress, ScopeInv, RowShape
  <2>2. CASE ~InProgress(t)
    <3>1. rows'[t] = rows[t]
      BY <1>2, <2>2 DEF BeginClaim
    <3> QED
      BY <3>1 DEF FinalStep, Completed
  <2> QED
    BY <2>1, <2>2
<1> QED
  BY <1>1, <1>2

LEMMA FinalStepHolds ==
  TypeInv /\ ScopeInv /\ [Next]_vars => \A t \in TurnIds : FinalStep(t)
<1> SUFFICES ASSUME TypeInv, ScopeInv, [Next]_vars PROVE \A t \in TurnIds : FinalStep(t)
  OBVIOUS
<1>1. CASE UNCHANGED rows
  BY <1>1 DEF FinalStep, Completed
<1>2. ASSUME NEW w \in Workers, NEW row, InProgress(req[w].id),
             rows' = [rows EXCEPT ![req[w].id] = row], pc[w] # "idle"
      PROVE  \A t \in TurnIds : FinalStep(t)
  BY <1>2, FinalRow DEF TypeInv, WorkersTyped
<1>3. ASSUME NEW w \in Workers, WorkerStep(w) PROVE \A t \in TurnIds : FinalStep(t)
  <2>1. CASE BeginClaim(w)
    BY <2>1, FinalBeginClaim
  <2>2. CASE Settle(w)
    BY <1>1, <1>2, <2>2 DEF Settle, HoldsClaim
  <2>3. CASE Complete(w)
    BY <1>1, <1>2, <2>3 DEF Complete, Committable, HoldsClaim
  <2>4. CASE FailTurn(w)
    BY <1>1, <1>2, <2>4 DEF FailTurn, Fenced
  <2>5. CASE FinishProjection(w) /\ Finishable(w)
             /\ rows' = [rows EXCEPT ![req[w].id].memory = req[w].decision]
    <3> DEFINE id == req[w].id
               row == [rows[id] EXCEPT !.memory = req[w].decision]
    <3>1. id \in TurnIds /\ rows[id] \in Rows /\ Completed(id)
      BY <2>5 DEF TypeInv, WorkersTyped, RowsTyped, FinishProjection, Finishable
    <3>2. /\ row.status = "completed" /\ row.turn = rows[id].turn
          /\ row.check = rows[id].check /\ row.shown = rows[id].shown
          /\ row.memory = req[w].decision
      BY <3>1 DEF Rows, Completed
    <3>3. rows[id].memory # "pending" => row.memory = rows[id].memory
      BY <2>5, <3>2 DEF Finishable
    <3> QED
      BY <2>5, <3>1, <3>2, <3>3, FinalRow
  <2> QED
    BY <1>1, <1>3, <2>1, <2>2, <2>3, <2>4, <2>5
       DEF WorkerStep, CheckIdentity, ReadSnapshot, CheckProgress, BeginReplay, BeginRefuse,
           Prepare, LeaseLost, Adjudicate, Narrate, CheckEligible, Project, FinishProjection,
           Reply
<1>4. ASSUME NEW w \in Workers, Heartbeat(w) \/ HeartbeatError(w) \/ Crash(w)
      PROVE  \A t \in TurnIds : FinalStep(t)
  BY <1>1, <1>2, <1>4 DEF Heartbeat, HeartbeatError, Crash, Fenced, Leased, Claimed
<1>5. ASSUME NEW t \in TurnIds, ExpireLease(t) PROVE \A u \in TurnIds : FinalStep(u)
  BY <1>5, FinalRow DEF ExpireLease
<1> QED
  BY <1>1, <1>3, <1>4, <1>5
     DEF Next, vars, Submit, Recover, ExtendSource, ReaderMoves, IdentityChanges

\* A committed turn and a settled projection are never taken back, and a
\* superseded key is never used again.
THEOREM TerminalRowsStayFinal == Spec => TerminalRowsAreFinal
<1>1. Spec => [](TypeInv /\ ScopeInv)
  BY TypeInit, TypeStep, ScopeInit, ScopeStep, PTL DEF Spec
<1>2. TypeInv /\ ScopeInv /\ [Next]_vars => [\A t \in TurnIds : FinalStep(t)]_vars
  BY FinalStepHolds
<1> QED
  BY <1>1, <1>2, PTL DEF Spec, TerminalRowsAreFinal

------------------------------------------------------------------------------
(***************************************************************************)
(* The projection.  A worker in it serves a committed turn, and stays so   *)
(* because committed turns are final.                                      *)
(***************************************************************************)
Serving == {"elig_before", "project", "elig_after", "finish", "reply"}

WorkerGood(w) ==
    /\ pc[w] \in Serving => Completed(req[w].id)
    /\ pc[w] = "reply" => rows[req[w].id].memory # "pending"
    /\ pc[w] \in Projected /\ req[w].decision = "saved" => req[w].id \in memories

StoredInv == \A t \in TurnIds : rows[t].memory = "saved" => t \in memories

WorkerInv == StoredInv /\ \A w \in Workers : WorkerGood(w)

LEMMA WorkerInit == Init => WorkerInv
  BY DEF Init, WorkerInv, StoredInv, WorkerGood, Serving, Projected, NoRow

\* Nothing is ever forgotten by the agent.
LEMMA MemoriesGrow == TypeInv /\ [Next]_vars => memories \subseteq memories'
  BY DEF TypeInv, WorldTyped, Next, vars, WorkerStep, Heartbeat, HeartbeatError, Crash, Submit,
         Recover, ExpireLease, ExtendSource, ReaderMoves, IdentityChanges, CheckIdentity,
         ReadSnapshot, CheckProgress, BeginReplay, BeginRefuse, BeginClaim, Prepare, LeaseLost,
         Adjudicate, Settle, Narrate, Complete, FailTurn, CheckEligible, Project,
         FinishProjection, Reply

\* A worker that stays where it is, with the same key and outcome, stays good; so
\* does one that is outside the projection after the step.
LEMMA StaysGood ==
  ASSUME TypeInv, ScopeInv, WorkerInv, [Next]_vars, NEW w \in Workers,
         \/ pc'[w] \notin Serving
         \/ pc'[w] = pc[w] /\ req'[w] = req[w]
  PROVE  WorkerGood(w)'
<1>1. CASE pc'[w] \notin Serving
  BY <1>1 DEF WorkerGood, Serving, Projected
<1>2. CASE pc'[w] \in Serving /\ pc'[w] = pc[w] /\ req'[w] = req[w]
  <2>1. req[w].id \in TurnIds /\ Completed(req[w].id)
    BY <1>2 DEF TypeInv, WorkersTyped, Serving, WorkerInv, WorkerGood
  <2>2. FinalStep(req[w].id)
    BY <2>1, FinalStepHolds
  <2>3. Completed(req[w].id)'
    BY <1>2, <2>1, <2>2 DEF FinalStep, Completed
  <2>4. rows[req[w].id].memory # "pending" => rows'[req[w].id].memory # "pending"
    BY <2>1, <2>2 DEF FinalStep
  <2>5. memories \subseteq memories'
    BY MemoriesGrow
  <2> QED
    BY <1>2, <2>3, <2>4, <2>5 DEF WorkerInv, WorkerGood
<1> QED
  BY <1>1, <1>2

\* All workers but the one that moves stay good.
LEMMA OthersGood ==
  ASSUME TypeInv, ScopeInv, WorkerInv, [Next]_vars, NEW w \in Workers,
         \A v \in Workers : v # w => pc'[v] = pc[v] /\ req'[v] = req[v],
         WorkerGood(w)'
  PROVE  \A v \in Workers : WorkerGood(v)'
  BY StaysGood

LEMMA StoredStep ==
  TypeInv /\ ScopeInv /\ WorkerInv /\ [Next]_vars => StoredInv'
<1> SUFFICES ASSUME TypeInv, ScopeInv, WorkerInv, [Next]_vars, NEW t \in TurnIds,
                    rows'[t].memory = "saved"
             PROVE  t \in memories'
  BY DEF StoredInv
<1>1. memories \subseteq memories'
  BY MemoriesGrow
<1>2. rows[t].memory = "saved" \/ \E w \in Workers :
        FinishProjection(w) /\ req[w].id = t /\ req[w].decision = "saved"
  <2>1. CASE rows'[t].memory = rows[t].memory
    BY <2>1
  <2>2. CASE rows'[t].memory # rows[t].memory
    <3>1. rows[t] \in Rows
      BY DEF TypeInv, RowsTyped
    <3>2. ASSUME NEW w \in Workers, BeginClaim(w) PROVE FALSE
      <4>1. CASE t = req[w].id
        <5>1. rows'[t] = ClaimedRow(w)
          BY <3>2, <4>1 DEF BeginClaim
        <5>2. ClaimedRow(w).memory = "pending" \/ ClaimedRow(w).memory = rows[t].memory
          BY <3>2, <4>1, ClaimedRowTyped DEF BeginClaim
        <5> QED
          BY <2>2, <5>1, <5>2
      <4>2. CASE t # req[w].id
        <5>1. rows'[t] = rows[t] \/ rows'[t] = Superseded(rows[t])
          BY <3>2, <4>2 DEF BeginClaim
        <5> QED
          BY <2>2, <3>1, <5>1, SupersededTyped
      <4> QED
        BY <4>1, <4>2
    <3>3. rows' # rows
      BY <2>2
    <3>4. ASSUME NEW w \in Workers, FinishProjection(w)
          PROVE  req[w].id = t /\ req[w].decision = "saved"
      BY <2>2, <3>3, <3>4 DEF FinishProjection, TypeInv, RowsTyped, Rows
    <3>5. ASSUME NEW w \in Workers, Heartbeat(w) \/ Settle(w) \/ Complete(w) \/ FailTurn(w)
          PROVE  rows'[t].memory = rows[t].memory
      <4>0. rows \in [TurnIds -> Rows]
        BY DEF TypeInv, RowsTyped
      <4>1. CASE Heartbeat(w)
        <5> DEFINE x == [rows[req[w].id] EXCEPT !.lease = "live"]
        <5>1. rows' = rows \/ rows' = [rows EXCEPT ![req[w].id] = x]
          BY <4>1 DEF Heartbeat
        <5>2. t = req[w].id => x.memory = rows[t].memory
          BY <3>1 DEF Rows
        <5> HIDE DEF x
        <5> QED
          BY <4>0, <5>1, <5>2
      <4>2. CASE Settle(w)
        <5> DEFINE x == [rows[req[w].id] EXCEPT !.check = req[w].decision]
        <5>1. rows' = rows \/ rows' = [rows EXCEPT ![req[w].id] = x]
          BY <4>2 DEF Settle
        <5>2. t = req[w].id => x.memory = rows[t].memory
          BY <3>1 DEF Rows
        <5> HIDE DEF x
        <5> QED
          BY <4>0, <5>1, <5>2
      <4>3. CASE Complete(w)
        <5> DEFINE x == [rows[req[w].id] EXCEPT !.status = "completed", !.lease = "none",
                                               !.failure = "none", !.shown = world.chapter]
        <5>1. rows' = rows \/ rows' = [rows EXCEPT ![req[w].id] = x]
          BY <4>3 DEF Complete
        <5>2. t = req[w].id => x.memory = rows[t].memory
          BY <3>1 DEF Rows
        <5> HIDE DEF x
        <5> QED
          BY <4>0, <5>1, <5>2
      <4>4. CASE FailTurn(w)
        <5> DEFINE x == [rows[req[w].id] EXCEPT !.status = "failed", !.lease = "none", !.failure = "other"]
        <5>1. rows' = rows \/ rows' = [rows EXCEPT ![req[w].id] = x]
          BY <4>4 DEF FailTurn
        <5>2. t = req[w].id => x.memory = rows[t].memory
          BY <3>1 DEF Rows
        <5> HIDE DEF x
        <5> QED
          BY <4>0, <5>1, <5>2
      <4> QED
        BY <3>5, <4>1, <4>2, <4>3, <4>4
    <3>6. ASSUME NEW u \in TurnIds, ExpireLease(u) PROVE rows'[t].memory = rows[t].memory
      BY <3>1, <3>6 DEF ExpireLease, TypeInv, RowsTyped, Rows
    <3>7. ASSUME NEW w \in Workers,
                 \/ HeartbeatError(w) \/ Crash(w) \/ CheckIdentity(w) \/ ReadSnapshot(w)
                 \/ CheckProgress(w) \/ BeginReplay(w) \/ BeginRefuse(w) \/ Prepare(w)
                 \/ LeaseLost(w) \/ Adjudicate(w) \/ Narrate(w) \/ CheckEligible(w)
                 \/ Project(w) \/ Reply(w)
          PROVE  FALSE
      BY <3>3, <3>7
         DEF HeartbeatError, Crash, CheckIdentity, ReadSnapshot, CheckProgress, BeginReplay,
             BeginRefuse, Prepare, LeaseLost, Adjudicate, Narrate, CheckEligible, Project, Reply
    <3> QED
      BY <3>2, <3>3, <3>4, <3>5, <3>6, <3>7, <2>2
         DEF Next, vars, WorkerStep, Submit, Recover, ExtendSource, ReaderMoves,
             IdentityChanges
  <2> QED
    BY <2>1, <2>2
<1>3. ASSUME NEW w \in Workers, FinishProjection(w), req[w].id = t, req[w].decision = "saved"
      PROVE  t \in memories
  BY <1>3 DEF FinishProjection, WorkerInv, WorkerGood, Projected
<1> QED
  BY <1>1, <1>2, <1>3 DEF WorkerInv, StoredInv

LEMMA ActorGood ==
  ASSUME TypeInv, ScopeInv, WorkerInv, [Next]_vars, NEW w \in Workers, WorkerStep(w)
  PROVE  WorkerGood(w)'
<1>0. pc \in [Workers -> Labels] /\ req \in [Workers -> Reqs] /\ rows \in [TurnIds -> Rows]
  BY DEF TypeInv, WorkersTyped, RowsTyped
<1>1. CASE Leave(w) \/ Abandon(w)
  <2>1. pc'[w] \notin Serving
    BY <1>0, <1>1 DEF Leave, Abandon, Serving
  <2> QED
    BY <2>1, StaysGood
<1>2. CASE \E label \in Labels \ Serving : pc' = [pc EXCEPT ![w] = label]
  BY <1>0, <1>2, StaysGood
<1>3. CASE BeginReplay(w)
  <2>1. /\ Completed(req[w].id) /\ UNCHANGED rows
        /\ ProjectFor(w, req[w].id, "player", ReplayLabel(w))
    BY <1>3 DEF BeginReplay, Replayable
  <2>2. pc'[w] = ReplayLabel(w) /\ req'[w].id = req[w].id
    BY <1>0, <2>1 DEF ProjectFor, NoReq
  <2> QED
    BY <2>1, <2>2 DEF WorkerGood, ReplayLabel, Completed, Projected
<1>4. CASE Complete(w) /\ ProjectFor(w, req[w].id, "player", "elig_before") /\ Committable(w)
  <2>1. req[w].id \in TurnIds
    BY <1>4 DEF TypeInv, WorkersTyped, Complete
  <2>2. pc'[w] = "elig_before" /\ req'[w].id = req[w].id
    BY <1>0, <1>4 DEF ProjectFor, NoReq
  <2> DEFINE row == [rows[req[w].id] EXCEPT !.status = "completed", !.lease = "none",
                                            !.failure = "none", !.shown = world.chapter]
  <2>3. rows' = [rows EXCEPT ![req[w].id] = row]
    BY <1>0, <1>4, <2>1 DEF Complete
  <2>4. row.status = "completed" /\ rows'[req[w].id] = row
    BY <1>0, <2>1, <2>3 DEF Rows
  <2> QED
    BY <2>2, <2>4 DEF WorkerGood, Completed, Projected
<1>5. CASE CheckEligible(w) /\ Goto(w, After[pc[w]])
  <2>1. /\ pc[w] \in {"elig_before", "elig_after"}
        /\ pc'[w] = After[pc[w]] /\ UNCHANGED <<rows, memories, req>>
    BY <1>0, <1>5 DEF CheckEligible, Goto
  <2>2. \/ pc[w] = "elig_before" /\ pc'[w] = "project"
        \/ pc[w] = "elig_after" /\ pc'[w] = "finish"
    BY <2>1 DEF After
  <2>3. Completed(req[w].id)
    BY <2>1 DEF WorkerInv, WorkerGood, Serving
  <2>4. pc[w] \in Projected /\ req[w].decision = "saved" => req[w].id \in memories
    BY DEF WorkerInv, WorkerGood
  <2> QED
    BY <2>1, <2>2, <2>3, <2>4 DEF WorkerGood, Completed, Projected
<1>6. CASE Project(w) /\ pc' = [pc EXCEPT ![w] = "elig_after"]
  <2>1. Completed(req[w].id) /\ UNCHANGED rows
    BY <1>6 DEF Project, WorkerInv, WorkerGood, Serving
  <2>2. pc'[w] = "elig_after"
    BY <1>0, <1>6
  <2>3. \E d \in {"saved", "skipped"} :
          /\ req' = [req EXCEPT ![w].decision = d]
          /\ d = "saved" => req[w].id \in memories'
    BY <1>0, <1>6, <2>2 DEF Project, Leave
  <2>4. /\ req'[w].id = req[w].id
        /\ req'[w].decision = "saved" => req[w].id \in memories'
    BY <1>0, <2>3 DEF Reqs
  <2> QED
    BY <2>1, <2>2, <2>4 DEF WorkerGood, Completed
<1>7. CASE FinishProjection(w) /\ Finishable(w) /\ Goto(w, "reply")
           /\ rows' = [rows EXCEPT ![req[w].id].memory = req[w].decision]
  <2>1. req[w].id \in TurnIds /\ req[w].decision \in {"saved", "skipped"}
    BY <1>7 DEF FinishProjection, TypeInv, WorkersTyped, Projected
  <2>2. /\ rows'[req[w].id].status = rows[req[w].id].status
        /\ rows'[req[w].id].memory = req[w].decision
    BY <1>0, <1>7, <2>1 DEF Rows
  <2>3. pc'[w] = "reply" /\ req' = req
    BY <1>0, <1>7 DEF Goto
  <2>4. Completed(req[w].id)
    BY <1>7 DEF Finishable
  <2> QED
    BY <2>1, <2>2, <2>3, <2>4 DEF WorkerGood, Completed, Projected
<1>8. CASE \E label \in {"narrate", "adj_identity", "commit_visible"} : Goto(w, label)
  <2>1. {"narrate", "adj_identity", "commit_visible"} \subseteq Labels \ Serving
    BY DEF Labels, Serving, Claimed
  <2> QED
    BY <1>2, <1>8, <2>1 DEF Goto
<1>9. CASE /\ pc[w] \in IdentityChecks \cup ProgressChecks
           /\ Goto(w, After[pc[w]])
  <2>1. After[pc[w]] \in Labels \ Serving
    BY <1>9 DEF After, IdentityChecks, ProgressChecks, Labels, Serving, Claimed
  <2> QED
    BY <1>2, <1>9, <2>1 DEF Goto
<1>10. {"visible", "prepare", "settle_visible", "narrate"} \subseteq Labels \ Serving
  BY DEF Labels, Serving, Claimed
<1>11. CASE CheckIdentity(w) \/ CheckProgress(w)
  BY <1>1, <1>9, <1>11 DEF CheckIdentity, CheckProgress, GiveUp
<1>12. CASE ReadSnapshot(w) \/ BeginClaim(w) \/ Adjudicate(w)
  BY <1>2, <1>10, <1>12 DEF ReadSnapshot, BeginClaim, Adjudicate
<1>13. CASE BeginRefuse(w) \/ LeaseLost(w) \/ FailTurn(w) \/ Reply(w)
  BY <1>1, <1>13 DEF BeginRefuse, LeaseLost, FailTurn, Reply
<1>14. CASE Prepare(w) \/ Narrate(w)
  BY <1>1, <1>8, <1>14 DEF Prepare, Narrate
<1>15. CASE Settle(w)
  BY <1>1, <1>2, <1>10, <1>15 DEF Settle
<1>16. CASE Complete(w)
  BY <1>1, <1>4, <1>16 DEF Complete
<1>17. CASE CheckEligible(w)
  BY <1>1, <1>5, <1>17 DEF CheckEligible
<1>18. CASE Project(w)
  BY <1>1, <1>6, <1>18 DEF Project
<1>19. CASE FinishProjection(w)
  BY <1>1, <1>7, <1>19 DEF FinishProjection
<1> QED
  BY <1>3, <1>11, <1>12, <1>13, <1>14, <1>15, <1>16, <1>17, <1>18, <1>19 DEF WorkerStep

LEMMA OnlyOneMoves ==
  ASSUME TypeInv, NEW w \in Workers,
         \/ WorkerStep(w) \/ Heartbeat(w) \/ HeartbeatError(w) \/ Crash(w)
         \/ \E t \in TurnIds : Submit(w, t) \/ Recover(w, t)
  PROVE  \A v \in Workers : v # w => pc'[v] = pc[v] /\ req'[v] = req[v]
  BY DEF TypeInv, WorkersTyped, WorkerStep, Heartbeat, HeartbeatError, Crash, Submit, Recover,
         CheckIdentity, ReadSnapshot, CheckProgress, BeginReplay, BeginRefuse, BeginClaim,
         Prepare, LeaseLost, Adjudicate, Settle, Narrate, Complete, FailTurn, CheckEligible,
         Project, FinishProjection, Reply, Goto, Leave, Abandon, GiveUp, ProjectFor

LEMMA WorkerStepInv == TypeInv /\ ScopeInv /\ WorkerInv /\ [Next]_vars => WorkerInv'
<1> SUFFICES ASSUME TypeInv, ScopeInv, WorkerInv, [Next]_vars
             PROVE  \A w \in Workers : WorkerGood(w)'
  BY StoredStep DEF WorkerInv
<1>0. pc \in [Workers -> Labels] /\ req \in [Workers -> Reqs]
  BY DEF TypeInv, WorkersTyped
<1>1. CASE UNCHANGED <<pc, req>>
  BY <1>1, StaysGood
<1>2. ASSUME NEW w \in Workers, WorkerStep(w) PROVE \A v \in Workers : WorkerGood(v)'
  BY <1>2, ActorGood, OnlyOneMoves, OthersGood
<1>3. ASSUME NEW w \in Workers, Heartbeat(w) \/ HeartbeatError(w) \/ Crash(w)
      PROVE  \A v \in Workers : WorkerGood(v)'
  <2>1. pc'[w] \notin Serving
    BY <1>0, <1>3 DEF Heartbeat, HeartbeatError, Crash, Leave, Serving, Leased, Claimed
  <2>2. WorkerGood(w)'
    BY <2>1, StaysGood
  <2> QED
    BY <1>3, <2>2, OnlyOneMoves, OthersGood
<1>4. ASSUME NEW w \in Workers, NEW t \in TurnIds, Submit(w, t)
      PROVE  \A v \in Workers : WorkerGood(v)'
  <2>1. pc'[w] \notin Serving
    BY <1>0, <1>4 DEF Submit, Serving
  <2>2. WorkerGood(w)'
    BY <2>1, StaysGood
  <2> QED
    BY <1>4, <2>2, OnlyOneMoves, OthersGood
<1>5. ASSUME NEW w \in Workers, NEW t \in TurnIds, Recover(w, t)
      PROVE  \A v \in Workers : WorkerGood(v)'
  <2>1. pc'[w] = "elig_before" /\ req'[w].id = t /\ UNCHANGED rows /\ Completed(t)
    BY <1>0, <1>5 DEF Recover, ProjectFor, NoReq, Unprojected
  <2>2. WorkerGood(w)'
    BY <2>1 DEF WorkerGood, Completed, Projected
  <2> QED
    BY <1>5, <2>2, OnlyOneMoves, OthersGood
<1> QED
  BY <1>1, <1>2, <1>3, <1>4, <1>5
     DEF Next, vars, ExpireLease, ExtendSource, ReaderMoves, IdentityChanges

\* A success is only ever answered for a committed turn with a settled projection,
\* and a projection recorded as saved has reached the agent's memory.
THEOREM RepliesAreDurable == Spec => []ReplyIsDurable
<1>1. TypeInv /\ ScopeInv /\ WorkerInv => ReplyIsDurable
  BY DEF ReplyIsDurable, TypeInv, WorkersTyped, ScopeInv, RowShape, WorkerInv, WorkerGood,
         StoredInv, Serving
<1> QED
  BY <1>1, TypeInit, TypeStep, ScopeInit, ScopeStep, WorkerInit, WorkerStepInv, PTL DEF Spec

------------------------------------------------------------------------------
(***************************************************************************)
(* What one step may do to the row of a key.                               *)
(***************************************************************************)
\* Nothing, or its lease is renewed or runs out.
Leases(t) ==
    /\ rows'[t].status = rows[t].status
    /\ rows'[t].attempt = rows[t].attempt
    /\ rows'[t].check = rows[t].check

\* begin_turn inserts or reclaims it, or supersedes it, while no lease is live.
Begins(t) ==
    /\ InProgress(t) => rows[t].lease # "live"
    /\ rows[t].status # "absent" => rows'[t].check = rows[t].check
    /\ rows'[t].status = "absent" => rows[t].status = "absent"
    /\ \/ /\ rows'[t].attempt = rows[t].attempt
          /\ rows[t].status = "absent" => rows'[t].status = "absent"
       \/ rows'[t].attempt = rows[t].attempt + 1

\* settle_adjudication replaces a pending check.
Decides(t) ==
    /\ rows'[t].status = rows[t].status
    /\ rows'[t].attempt = rows[t].attempt
    /\ rows[t].check = "pending"

\* complete_turn or fail_turn of the handler that holds it.
Closes(t) ==
    /\ \E w \in Workers : ActsFor(w, t)
    /\ rows'[t].check = rows[t].check
    /\ rows'[t].attempt = rows[t].attempt
    /\ rows[t].status # "absent" /\ rows'[t].status # "absent"

RowStep(t) == Leases(t) \/ Begins(t) \/ Decides(t) \/ Closes(t)

LEMMA RowsApart ==
  ASSUME TypeInv, NEW t \in TurnIds, NEW row, rows' = [rows EXCEPT ![t] = row]
  PROVE  rows'[t] = row /\ \A u \in TurnIds : u # t => rows'[u] = rows[u]
  BY DEF TypeInv, RowsTyped

LEMMA BeginRowStep ==
  ASSUME TypeInv, NEW w \in Workers, BeginClaim(w), NEW t \in TurnIds
  PROVE  RowStep(t)
<1>1. InProgress(t) => rows[t].lease # "live"
  BY DEF BeginClaim, Claimable, Busy
<1>2. CASE t = req[w].id
  <2> DEFINE old == rows[req[w].id]
  <2>1. rows'[t] = ClaimedRow(w) /\ old = rows[t] /\ old \in Rows
    BY <1>2 DEF BeginClaim, TypeInv, RowsTyped
  <2>2. CASE old.status = "absent"
    <3>1. old.attempt = 0
      BY <1>2, <2>2 DEF TypeInv, RowsTyped
    <3>2. rows'[t].attempt = 1 /\ rows'[t].status = "in_progress"
      BY <2>1, <2>2 DEF ClaimedRow, NoRow
    <3> QED
      BY <1>1, <2>1, <2>2, <3>1, <3>2 DEF RowStep, Begins
  <2>3. CASE old.status # "absent"
    <3>1. /\ rows'[t].attempt = old.attempt + 1 /\ rows'[t].status = "in_progress"
          /\ rows'[t].check = old.check
      BY <2>1, <2>3 DEF ClaimedRow, Rows
    <3> QED
      BY <1>1, <2>1, <2>3, <3>1 DEF RowStep, Begins
  <2> QED
    BY <2>2, <2>3
<1>3. CASE t # req[w].id
  <2>1. rows'[t] = rows[t] \/ (rows'[t] = Superseded(rows[t]) /\ InProgress(t))
    BY <1>3 DEF BeginClaim
  <2>2. /\ rows'[t].check = rows[t].check /\ rows'[t].attempt = rows[t].attempt
        /\ rows[t].status = "absent" <=> rows'[t].status = "absent"
    BY <2>1 DEF Superseded, InProgress, TypeInv, RowsTyped, Rows
  <2> QED
    BY <1>1, <2>2 DEF RowStep, Begins
<1> QED
  BY <1>2, <1>3

LEMMA CloseRowStep ==
  ASSUME TypeInv, NEW w \in Workers, Complete(w) \/ FailTurn(w), NEW t \in TurnIds
  PROVE  RowStep(t)
<1> DEFINE id == req[w].id
<1>0. id \in TurnIds /\ rows[id] \in Rows /\ pc \in [Workers -> Labels]
  BY DEF TypeInv, WorkersTyped, RowsTyped, Complete, FailTurn
<1>1. CASE UNCHANGED rows
  BY <1>1 DEF RowStep, Leases
<1>2. ASSUME NEW row, rows' = [rows EXCEPT ![id] = row], row.check = rows[id].check,
             row.attempt = rows[id].attempt, row.status # "absent", InProgress(id),
             rows[id].attempt = req[w].attempt, pc'[w] # pc[w]
      PROVE  RowStep(t)
  <2>1. CASE t = id
    <3>1. ActsFor(w, t)
      BY <1>2, <2>1 DEF ActsFor
    <3> QED
      BY <1>2, <2>1, <3>1, RowsApart DEF RowStep, Closes, InProgress
  <2>2. CASE t # id
    BY <1>0, <1>2, <2>2, RowsApart DEF RowStep, Leases
  <2> QED
    BY <2>1, <2>2
<1>3. CASE Complete(w) /\ Committable(w)
  <2>1. pc'[w] # pc[w]
    BY <1>0, <1>3 DEF Complete, ProjectFor, Abandon
  <2> DEFINE row == [rows[id] EXCEPT !.status = "completed", !.lease = "none",
                                     !.failure = "none", !.shown = world.chapter]
  <2>2. row.check = rows[id].check /\ row.attempt = rows[id].attempt /\ row.status # "absent"
    BY <1>0 DEF Rows
  <2>3. rows' = [rows EXCEPT ![id] = row]
    BY <1>3 DEF Complete
  <2> HIDE DEF row
  <2> QED
    BY <1>2, <1>3, <2>1, <2>2, <2>3 DEF Committable, HoldsClaim
<1>4. CASE FailTurn(w) /\ Fenced(w)
  <2>1. pc'[w] # pc[w]
    BY <1>0, <1>4 DEF FailTurn, Leave
  <2> DEFINE row == [rows[id] EXCEPT !.status = "failed", !.lease = "none", !.failure = "other"]
  <2>2. row.check = rows[id].check /\ row.attempt = rows[id].attempt /\ row.status # "absent"
    BY <1>0 DEF Rows
  <2>3. rows' = [rows EXCEPT ![id] = row]
    BY <1>4 DEF FailTurn
  <2> HIDE DEF row
  <2> QED
    BY <1>2, <1>4, <2>1, <2>2, <2>3 DEF Fenced
<1> QED
  BY <1>1, <1>3, <1>4 DEF Complete, FailTurn

\* A row that keeps status and attempt, and its check unless that was pending.
LEMMA KeptRowStep ==
  ASSUME TypeInv, NEW u \in TurnIds, NEW row, rows' = [rows EXCEPT ![u] = row],
         row.status = rows[u].status, row.attempt = rows[u].attempt,
         rows[u].check # "pending" => row.check = rows[u].check,
         NEW t \in TurnIds
  PROVE  RowStep(t)
  BY RowsApart DEF RowStep, Leases, Decides

LEMMA RowStepHolds ==
  ASSUME TypeInv, [Next]_vars, NEW t \in TurnIds
  PROVE  RowStep(t)
<1>1. CASE UNCHANGED rows
  BY <1>1 DEF RowStep, Leases
<1>2. ASSUME NEW w \in Workers, WorkerStep(w) PROVE RowStep(t)
  <2> DEFINE id == req[w].id
  <2>1. CASE BeginClaim(w) \/ Complete(w) \/ FailTurn(w)
    BY <2>1, BeginRowStep, CloseRowStep
  <2>2. CASE Settle(w) /\ ~UNCHANGED rows
    <3>1. id \in TurnIds /\ rows[id] \in Rows
      BY <2>2 DEF TypeInv, WorkersTyped, RowsTyped, Settle
    <3> DEFINE row == [rows[id] EXCEPT !.check = req[w].decision]
    <3>2. rows' = [rows EXCEPT ![id] = row] /\ rows[id].check = "pending"
      BY <2>2 DEF Settle, HoldsClaim
    <3>3. row.status = rows[id].status /\ row.attempt = rows[id].attempt
      BY <3>1 DEF Rows
    <3> HIDE DEF row
    <3> QED
      BY <3>1, <3>2, <3>3, KeptRowStep
  <2>3. CASE FinishProjection(w) /\ ~UNCHANGED rows
    <3>1. id \in TurnIds /\ rows[id] \in Rows
      BY <2>3 DEF TypeInv, WorkersTyped, RowsTyped, FinishProjection
    <3> DEFINE row == [rows[id] EXCEPT !.memory = req[w].decision]
    <3>2. rows' = [rows EXCEPT ![id] = row]
      BY <2>3 DEF FinishProjection
    <3>3. /\ row.status = rows[id].status /\ row.attempt = rows[id].attempt
          /\ row.check = rows[id].check
      BY <3>1 DEF Rows
    <3> HIDE DEF row
    <3> QED
      BY <3>1, <3>2, <3>3, KeptRowStep
  <2> QED
    BY <1>1, <1>2, <2>1, <2>2, <2>3
       DEF WorkerStep, CheckIdentity, ReadSnapshot, CheckProgress, BeginReplay, BeginRefuse,
           Prepare, LeaseLost, Adjudicate, Narrate, CheckEligible, Project, Reply
<1>3. ASSUME NEW u \in TurnIds, NEW lease, rows' = [rows EXCEPT ![u].lease = lease]
      PROVE  RowStep(t)
  <2> DEFINE row == [rows[u] EXCEPT !.lease = lease]
  <2>1. row.status = rows[u].status /\ row.attempt = rows[u].attempt /\ row.check = rows[u].check
    BY DEF TypeInv, RowsTyped, Rows
  <2> HIDE DEF row
  <2>2. rows' = [rows EXCEPT ![u] = row]
    BY <1>3 DEF row
  <2> QED
    BY <2>1, <2>2, KeptRowStep
<1>4. ASSUME NEW w \in Workers, Heartbeat(w) \/ HeartbeatError(w) \/ Crash(w) PROVE RowStep(t)
  <2>1. CASE Heartbeat(w) /\ ~UNCHANGED rows
    <3>1. req[w].id \in TurnIds
      BY <2>1 DEF TypeInv, WorkersTyped, Heartbeat, Leased, Claimed
    <3> QED
      BY <1>3, <2>1, <3>1 DEF Heartbeat
  <2> QED
    BY <1>1, <1>4, <2>1 DEF HeartbeatError, Crash
<1>5. ASSUME NEW u \in TurnIds, ExpireLease(u) PROVE RowStep(t)
  BY <1>3, <1>5 DEF ExpireLease
<1> QED
  BY <1>1, <1>2, <1>4, <1>5
     DEF Next, vars, Submit, Recover, ExtendSource, ReaderMoves, IdentityChanges

\* No step of any handler, late or not, changes a check that has been decided.
THEOREM ChecksStayFrozen == Spec => ChecksAreFrozen
<1> DEFINE Frozen(t) == /\ rows[t].status # "absent"
                        /\ rows[t].check # "pending"
                        => rows'[t].check = rows[t].check
<1>1. ASSUME TypeInv, [Next]_vars, NEW t \in TurnIds
      PROVE  Frozen(t)
  BY <1>1, RowStepHolds DEF RowStep, Leases, Begins, Decides, Closes
<1>2. TypeInv /\ [Next]_vars => [\A t \in TurnIds : Frozen(t)]_vars
  BY <1>1
<1> QED
  BY <1>2, TypeInit, TypeStep, PTL DEF Spec, ChecksAreFrozen

\* A claim with a live lease is ended by the handler of its current attempt only:
\* begin_turn waits for the lease, and complete_turn and fail_turn compare.
THEOREM HolderEndsItsClaim == Spec => OnlyTheHolderEndsAClaim
<1> DEFINE Ended(t) == /\ InProgress(t)
                       /\ rows[t].lease = "live"
                       /\ rows'[t].status # "in_progress" \/ rows'[t].attempt # rows[t].attempt
<1>1. ASSUME TypeInv, [Next]_vars, NEW t \in TurnIds, Ended(t)
      PROVE  \E w \in Workers : ActsFor(w, t)
  BY <1>1, RowStepHolds DEF RowStep, Leases, Begins, Decides, Closes, InProgress
<1>2. TypeInv /\ [Next]_vars
        => [\A t \in TurnIds : Ended(t) => \E w \in Workers : ActsFor(w, t)]_vars
  BY <1>1
<1> QED
  BY <1>2, TypeInit, TypeStep, PTL DEF Spec, OnlyTheHolderEndsAClaim

------------------------------------------------------------------------------
(***************************************************************************)
(* The adjudicator.  A first attempt exists once, because the row it       *)
(* inserts stays, and it passes the adjudicator once.                      *)
(***************************************************************************)
Asking == {"prepare", "adj_identity", "adj_visible", "adjudicate"}

\* A handler that holds, or held, a first attempt and may still ask.
First(w) == pc[w] \in Asking /\ req[w].attempt = 1

AskInv ==
    /\ \A t \in TurnIds : rows[t].status = "absent" => asked[t] = 0
    /\ \A t \in TurnIds : rows[t].status # "absent" => rows[t].attempt >= 1
    /\ \A t \in TurnIds : asked[t] <= 1
    /\ \A w \in Workers : First(w) => /\ rows[req[w].id].status # "absent"
                                      /\ asked[req[w].id] = 0
    /\ \A w, v \in Workers : First(w) /\ First(v) /\ req[w].id = req[v].id => w = v

LEMMA AskInit == Init => AskInv
  BY DEF Init, AskInv, First, Asking, NoRow

\* How a handler comes to be one that may ask.
Inserts(w) ==
    /\ rows[req[w].id].status = "absent"
    /\ rows'[req[w].id].status # "absent"
    /\ req'[w].id = req[w].id
    /\ asked' = asked

Stays(w) ==
    /\ First(w)
    /\ req'[w].id = req[w].id
    /\ asked'[req[w].id] = asked[req[w].id]

LEMMA ActorAsks ==
  ASSUME TypeInv, AskInv, NEW w \in Workers, First(w)',
         \/ WorkerStep(w) \/ Heartbeat(w) \/ HeartbeatError(w) \/ Crash(w)
         \/ \E t \in TurnIds : Submit(w, t) \/ Recover(w, t)
  PROVE  Inserts(w) \/ Stays(w)
<1>0. pc \in [Workers -> Labels] /\ req \in [Workers -> Reqs]
  BY DEF TypeInv, WorkersTyped
<1>1. CASE BeginClaim(w)
  <2> DEFINE id == req[w].id
             old == rows[id]
  <2>1. id \in TurnIds /\ old \in Rows
    BY <1>1 DEF TypeInv, WorkersTyped, RowsTyped, BeginClaim
  <2>2. /\ req'[w].id = id /\ req'[w].attempt = ClaimedRow(w).attempt
        /\ rows'[id] = ClaimedRow(w) /\ asked' = asked
    BY <1>0, <1>1, <2>1 DEF BeginClaim, Reqs
  <2>3. old.status = "absent"
    <3>1. SUFFICES ASSUME old.status # "absent" PROVE ClaimedRow(w).attempt # 1
      BY <2>2 DEF First
    <3>2. ClaimedRow(w).attempt = old.attempt + 1 /\ old.attempt >= 1
      BY <2>1, <3>1 DEF ClaimedRow, Rows, AskInv
    <3> QED
      BY <2>1, <3>2 DEF Rows
  <2>4. ClaimedRow(w).status = "in_progress"
    BY <2>3 DEF ClaimedRow, NoRow
  <2> QED
    BY <2>2, <2>3, <2>4 DEF Inserts
<1>2. CASE Prepare(w) \/ CheckIdentity(w) \/ CheckProgress(w)
  <2>1. asked' = asked
    BY <1>2 DEF Prepare, CheckIdentity, CheckProgress
  <2>2. ~Leave(w) /\ ~Abandon(w)
    BY <1>0 DEF First, Asking, Leave, Abandon
  <2>3. \E label \in Asking : Goto(w, label) /\ pc[w] \in Asking
    BY <1>0, <1>2, <2>2
       DEF Prepare, CheckIdentity, CheckProgress, Goto, GiveUp, First, Asking, After,
           IdentityChecks, ProgressChecks
  <2> QED
    BY <1>0, <2>1, <2>3 DEF Goto, First, Stays
<1>3. CASE Heartbeat(w) \/ HeartbeatError(w)
  <2>1. asked' = asked /\ pc' = pc
    BY <1>3 DEF Heartbeat, HeartbeatError
  <2>2. req' = req \/ req' = [req EXCEPT ![w].lost = TRUE]
    BY <1>3 DEF Heartbeat, HeartbeatError
  <2>3. req'[w].id = req[w].id /\ req'[w].attempt = req[w].attempt
    BY <1>0, <2>2 DEF Reqs
  <2> QED
    BY <2>1, <2>3 DEF Stays, First
<1>4. CASE Leave(w) \/ Abandon(w)
  BY <1>0, <1>4 DEF Leave, Abandon, First, Asking
<1>5. ASSUME NEW label, label \notin Asking, pc' = [pc EXCEPT ![w] = label] PROVE FALSE
  BY <1>0, <1>5 DEF First
<1>6. CASE ReadSnapshot(w) \/ Adjudicate(w) \/ Settle(w) \/ Narrate(w)
  BY <1>4, <1>5, <1>6 DEF ReadSnapshot, Adjudicate, Settle, Narrate, Goto, Asking
<1>7. CASE BeginReplay(w) \/ Complete(w) \/ CheckEligible(w) \/ Project(w) \/ FinishProjection(w)
  BY <1>4, <1>5, <1>7 DEF BeginReplay, ReplayLabel, Complete, CheckEligible, Project,
                          FinishProjection, ProjectFor, Goto, After, Asking
<1>8. CASE \E t \in TurnIds : Submit(w, t) \/ Recover(w, t)
  BY <1>5, <1>8 DEF Submit, Recover, ProjectFor, Asking
<1> QED
  BY <1>1, <1>2, <1>3, <1>4, <1>6, <1>7, <1>8
     DEF WorkerStep, BeginRefuse, LeaseLost, FailTurn, Reply, Crash

\* Only a handler with a first attempt asks, and then it may not ask again.
LEMMA WhoAsks ==
  ASSUME TypeInv, [Next]_vars
  PROVE  \/ asked' = asked
         \/ \E w \in Workers :
              /\ Adjudicate(w) /\ First(w) /\ ~First(w)'
              /\ asked' = [asked EXCEPT ![req[w].id] = @ + 1]
<1>1. ASSUME NEW w \in Workers, Adjudicate(w), asked' # asked
      PROVE  /\ First(w) /\ ~First(w)'
             /\ asked' = [asked EXCEPT ![req[w].id] = @ + 1]
  BY <1>1 DEF Adjudicate, MayAsk, First, Asking, TypeInv, WorkersTyped
<1>2. ASSUME NEW w \in Workers, WorkerStep(w), ~Adjudicate(w) PROVE asked' = asked
  BY <1>2 DEF WorkerStep, CheckIdentity, ReadSnapshot, CheckProgress, BeginReplay, BeginRefuse,
              BeginClaim, Prepare, LeaseLost, Settle, Narrate, Complete, FailTurn,
              CheckEligible, Project, FinishProjection, Reply
<1> QED
  BY <1>1, <1>2
     DEF Next, vars, Heartbeat, HeartbeatError, Crash, Submit, Recover, ExpireLease,
         ExtendSource, ReaderMoves, IdentityChanges

LEMMA OnlyOneInserts ==
  ASSUME TypeInv, [Next]_vars, NEW w \in Workers, NEW v \in Workers,
         First(w)', First(v)', Inserts(w), Inserts(v), req[w].id \in TurnIds,
         ~First(w), ~First(v)
  PROVE  w = v
<1>1. pc'[w] # pc[w] \/ req'[w] # req[w]
  BY DEF First
<1>2. pc'[v] # pc[v] \/ req'[v] # req[v]
  BY DEF First
<1>3. PICK u \in Workers : \/ WorkerStep(u) \/ Heartbeat(u) \/ HeartbeatError(u) \/ Crash(u)
                           \/ \E t \in TurnIds : Submit(u, t) \/ Recover(u, t)
  BY <1>1 DEF Next, vars, ExpireLease, ExtendSource, ReaderMoves, IdentityChanges
<1> QED
  BY <1>1, <1>2, <1>3, OnlyOneMoves

LEMMA AskStep == TypeInv /\ AskInv /\ [Next]_vars => AskInv'
<1> SUFFICES ASSUME TypeInv, AskInv, [Next]_vars PROVE AskInv'
  OBVIOUS
<1>0. asked \in [TurnIds -> Nat] /\ \A w \in Workers : First(w) => req[w].id \in TurnIds
  BY DEF TypeInv, WorldTyped, WorkersTyped, First, Asking
<1>1. ASSUME NEW t \in TurnIds
      PROVE  /\ rows'[t].status = "absent" => rows[t].status = "absent"
             /\ rows'[t].status # "absent" => rows'[t].attempt >= 1
  <2>1. RowStep(t) /\ rows[t] \in Rows /\ rows[t].attempt \in Nat
    BY RowStepHolds DEF TypeInv, RowsTyped, Rows
  <2> QED
    BY <2>1 DEF AskInv, RowStep, Leases, Begins, Decides, Closes
\* Whoever may ask after the step could before, or has inserted its row.
<1>2. ASSUME NEW w \in Workers, First(w)' PROVE Inserts(w) \/ Stays(w)
  <2>1. CASE UNCHANGED <<pc, req, asked>>
    BY <1>2, <2>1 DEF Stays, First
  <2>2. ASSUME NEW v \in Workers,
               \/ WorkerStep(v) \/ Heartbeat(v) \/ HeartbeatError(v) \/ Crash(v)
               \/ \E t \in TurnIds : Submit(v, t) \/ Recover(v, t)
        PROVE  Inserts(w) \/ Stays(w)
    <3>1. CASE v = w
      BY <1>2, <2>2, <3>1, ActorAsks
    <3>2. CASE v # w
      <4>1. pc'[w] = pc[w] /\ req'[w] = req[w] /\ First(w)
        BY <1>2, <2>2, <3>2, OnlyOneMoves DEF First
      <4>2. asked'[req[w].id] = asked[req[w].id]
        <5>1. CASE asked' = asked
          BY <5>1
        <5>2. ASSUME NEW u \in Workers, Adjudicate(u), First(u), ~First(u)',
                     asked' = [asked EXCEPT ![req[u].id] = @ + 1]
              PROVE  asked'[req[w].id] = asked[req[w].id]
          <6>1. u # w
            BY <1>2, <5>2
          <6>2. req[u].id # req[w].id
            BY <4>1, <5>2, <6>1 DEF AskInv
          <6> QED
            BY <1>0, <4>1, <5>2, <6>2
        <5> QED
          BY <5>1, <5>2, WhoAsks
      <4> QED
        BY <4>1, <4>2 DEF Stays
    <3> QED
      BY <3>1, <3>2
  <2> QED
    BY <2>1, <2>2 DEF Next, vars, ExpireLease, ExtendSource, ReaderMoves, IdentityChanges
<1>3. ASSUME NEW w \in Workers, First(w)' PROVE req'[w].id = req[w].id /\ req[w].id \in TurnIds
  <2>1. req'[w].id \in TurnIds
    BY <1>3, TypeStep DEF TypeInv, WorkersTyped, First, Asking
  <2> QED
    BY <1>2, <1>3, <2>1 DEF Inserts, Stays
<1>4. ASSUME NEW t \in TurnIds, rows'[t].status = "absent" PROVE asked'[t] = 0
  <2>1. rows[t].status = "absent" /\ asked[t] = 0
    BY <1>1, <1>4 DEF AskInv
  <2>2. \A w \in Workers : First(w) => req[w].id # t
    BY <2>1 DEF AskInv
  <2> QED
    BY <1>0, <2>1, <2>2, WhoAsks
<1>5. ASSUME NEW t \in TurnIds PROVE asked'[t] <= 1
  <2>1. \A w \in Workers : First(w) => asked[req[w].id] = 0
    BY DEF AskInv
  <2> QED
    BY <1>0, <2>1, WhoAsks DEF AskInv
<1>6. ASSUME NEW w \in Workers, First(w)'
      PROVE  rows'[req'[w].id].status # "absent" /\ asked'[req'[w].id] = 0
  BY <1>1, <1>2, <1>3, <1>6 DEF Inserts, Stays, AskInv
<1>7. ASSUME NEW w \in Workers, NEW v \in Workers, First(w)', First(v)', req'[w].id = req'[v].id
      PROVE  w = v
  <2>1. req[w].id = req[v].id
    BY <1>3, <1>7
  <2>2. CASE Stays(w) /\ Stays(v)
    BY <2>1, <2>2 DEF Stays, AskInv
  <2>3. CASE (Inserts(w) /\ Stays(v)) \/ (Stays(w) /\ Inserts(v))
    BY <2>1, <2>3 DEF Inserts, Stays, AskInv
  <2>4. CASE Inserts(w) /\ Inserts(v)
    <3>1. ~First(w) /\ ~First(v)
      BY <2>4 DEF Inserts, AskInv
    <3> QED
      BY <1>3, <1>7, <2>4, <3>1, OnlyOneInserts
  <2>5. Inserts(w) \/ Stays(w)
    BY <1>2, <1>7
  <2>6. Inserts(v) \/ Stays(v)
    BY <1>2, <1>7
  <2> QED
    BY <2>2, <2>3, <2>4, <2>5, <2>6
<1> QED
  BY <1>1, <1>4, <1>5, <1>6, <1>7 DEF AskInv

\* A key is put to the adjudicator at most once, however often its claim expires
\* and is taken up again: only the attempt that inserted the row may ask.
THEOREM AdjudicatedOnceHolds == Spec => []AdjudicatedOnce
<1>1. AskInv => AdjudicatedOnce
  BY DEF AskInv, AdjudicatedOnce
<1> QED
  BY <1>1, TypeInit, TypeStep, AskInit, AskStep, PTL DEF Spec

------------------------------------------------------------------------------
(***************************************************************************)
(* The refinement: the completed rows in turn order are the timeline, a    *)
(* commit appends its key, a finished projection settles it, and a source  *)
(* extension is one of the timeline.                                       *)
(***************************************************************************)
\* What the refinement mapping reads off the state.
Kept == [n \in 1 .. world.turn |-> TurnAt(n - 1)]
Settled == {t \in TurnIds : Completed(t) /\ rows[t].memory # "pending"}
Done == {t \in TurnIds : Completed(t)}

\* The key of a turn number is the one row completed under it, and the timeline
\* is a sequence of such keys.
Numbered ==
    /\ \A t \in TurnIds : Completed(t) => TurnAt(rows[t].turn) = t
    /\ \A n \in 0 .. world.turn - 1 :
         TurnAt(n) \in TurnIds /\ Completed(TurnAt(n)) /\ rows[TurnAt(n)].turn = n

Sequenced ==
    /\ Kept \in Seq(TurnIds)
    /\ Len(Kept) = world.turn
    /\ \A n \in 1 .. world.turn : Kept[n] = TurnAt(n - 1)

LEMMA NumberedHolds == TypeInv /\ ScopeInv => Numbered
<1> SUFFICES ASSUME TypeInv, TimelineExact PROVE Numbered
  BY DEF ScopeInv
<1>1. ASSUME NEW t \in TurnIds, Completed(t) PROVE TurnAt(rows[t].turn) = t
  BY <1>1 DEF TurnAt, TimelineExact
<1>2. ASSUME NEW n \in 0 .. world.turn - 1
      PROVE  TurnAt(n) \in TurnIds /\ Completed(TurnAt(n)) /\ rows[TurnAt(n)].turn = n
  <2>1. PICK t \in TurnIds : Completed(t) /\ rows[t].turn = n
    BY DEF TimelineExact
  <2> QED
    BY <1>1, <2>1
<1> QED
  BY <1>1, <1>2 DEF Numbered

LEMMA SequencedHolds == TypeInv /\ ScopeInv => Sequenced
<1> SUFFICES ASSUME TypeInv, Numbered PROVE Sequenced
  BY NumberedHolds
<1>1. world.turn \in Nat
  BY Assumptions DEF TypeInv, WorldTyped, Worlds
<1>2. \A n \in 1 .. world.turn : TurnAt(n - 1) \in TurnIds
  BY <1>1 DEF Numbered
<1>3. Kept \in [1 .. world.turn -> TurnIds]
  BY <1>2 DEF Kept
<1>4. Kept \in Seq(TurnIds)
  BY <1>1, <1>3, SeqDef
<1>5. DOMAIN Kept = 1 .. Len(Kept) /\ Len(Kept) \in Nat
  BY <1>4, LenProperties
<1>6. Len(Kept) = world.turn
  BY <1>1, <1>3, <1>5
<1> QED
  BY <1>4, <1>6 DEF Kept, Sequenced

\* The keys of the timeline are the completed ones.
LEMMA CommittedIsDone ==
  ASSUME TypeInv, ScopeInv
  PROVE  {Kept[i] : i \in 1 .. Len(Kept)} = Done
<1>0. Numbered /\ Sequenced
  BY NumberedHolds, SequencedHolds
<1>1. world.turn \in Nat /\ Len(Kept) = world.turn
  BY <1>0, Assumptions DEF TypeInv, WorldTyped, Worlds, Sequenced
<1>2. ASSUME NEW n \in 1 .. world.turn PROVE Kept[n] \in Done
  BY <1>0, <1>1 DEF Done, Numbered, Sequenced
<1>3. ASSUME NEW t \in Done PROVE \E n \in 1 .. world.turn : Kept[n] = t
  <2>1. t \in TurnIds /\ Completed(t) /\ rows[t].turn \in Nat /\ rows[t].turn < world.turn
    BY <1>1 DEF Done, ScopeInv, TimelineExact, TypeInv, RowsTyped, Rows
  <2>2. rows[t].turn + 1 \in 1 .. world.turn /\ (rows[t].turn + 1) - 1 = rows[t].turn
    BY <1>1, <2>1
  <2>3. Kept[rows[t].turn + 1] = t
    BY <1>0, <2>1, <2>2 DEF Numbered, Sequenced
  <2> QED
    BY <2>2, <2>3
<1> QED
  BY <1>1, <1>2, <1>3

------------------------------------------------------------------------------
(***************************************************************************)
(* The steps.                                                              *)
(***************************************************************************)
\* A step after which the same rows are completed under the same numbers.
SameTurns ==
    /\ world'.turn = world.turn
    /\ \A t \in TurnIds : /\ Completed(t)' <=> Completed(t)
                          /\ Completed(t) => rows'[t].turn = rows[t].turn

LEMMA SameKept ==
  ASSUME TypeInv, ScopeInv, Numbered', SameTurns
  PROVE  Kept' = Kept
<1>1. Numbered /\ world.turn \in Nat
  BY NumberedHolds, Assumptions DEF TypeInv, WorldTyped, Worlds
<1>2. ASSUME NEW n \in 1 .. world.turn PROVE TurnAt(n - 1)' = TurnAt(n - 1)
  <2>1. PICK t \in TurnIds : t = TurnAt(n - 1) /\ Completed(t) /\ rows[t].turn = n - 1
    BY <1>1 DEF Numbered
  <2>2. Completed(t)' /\ rows'[t].turn = n - 1
    BY <2>1 DEF SameTurns, Completed
  <2> QED
    BY <2>1, <2>2 DEF Numbered
<1> QED
  BY <1>2 DEF Kept, SameTurns

\* The projection of every committed turn is settled, or pending, as before.
SameSettled == \A t \in TurnIds : Completed(t) => rows'[t].memory = rows[t].memory

LEMMA Stutters ==
  ASSUME TypeInv, ScopeInv, Numbered', SameTurns, SameSettled, world' = world
  PROVE  UNCHANGED <<Kept, Settled, world.chapter>>
<1>1. Settled' = Settled
  BY DEF Settled, SameTurns, SameSettled, Completed
<1> QED
  BY <1>1, SameKept

\* Where no projection is pending, every committed turn is settled.
LEMMA AllSettled ==
  ASSUME TypeInv, ScopeInv, \A t \in TurnIds : ~Unprojected(t)
  PROVE  Settled = {Kept[i] : i \in 1 .. Len(Kept)}
<1>1. Settled = Done
  BY DEF Settled, Done, Unprojected
<1> QED
  BY <1>1, CommittedIsDone

\* complete_turn appends the key it commits.
LEMMA CommitAppends ==
  ASSUME TypeInv, ScopeInv, Numbered', Sequenced', NEW w \in Workers, Complete(w), Committable(w)
  PROVE  \E t \in TurnIds : Timeline!Commit(t)
<1>1. PICK id \in TurnIds : id = req[w].id /\ rows[id] \in Rows
  BY DEF TypeInv, WorkersTyped, RowsTyped, Complete
<1> DEFINE row == [rows[id] EXCEPT !.status = "completed", !.lease = "none",
                                   !.failure = "none", !.shown = world.chapter]
<1>2. rows' = [rows EXCEPT ![id] = row] /\ world' = [world EXCEPT !.turn = @ + 1]
  BY <1>1 DEF Complete, NextWorld
<1>3. row.status = "completed" /\ row.turn = rows[id].turn /\ row.memory = rows[id].memory
  BY <1>1 DEF Rows
<1> HIDE DEF row
<1>4. rows'[id] = row /\ \A t \in TurnIds : t # id => rows'[t] = rows[t]
  BY <1>1, <1>2 DEF TypeInv, RowsTyped
<1>5. world'.turn = world.turn + 1 /\ world'.chapter = world.chapter /\ world.turn \in Nat
  BY <1>2, Assumptions DEF TypeInv, WorldTyped, Worlds
<1>6. InProgress(id) /\ rows[id].turn = world.turn /\ rows[id].memory = "pending"
  BY <1>1 DEF Committable, HoldsClaim, ScopeInv, ClaimIsCurrent, RowShape, InProgress, Completed
<1>7. ~Completed(id) /\ Completed(id)' /\ rows'[id].turn = world.turn
  BY <1>3, <1>4, <1>6 DEF Completed, InProgress
<1>8. \A t \in TurnIds : ~Unprojected(t)
  BY <1>1, <1>6, <1>7 DEF ScopeInv, OneOutstandingTurn, Outstanding, Unprojected
<1>9. Settled' = Settled
  BY <1>3, <1>4, <1>6, <1>7 DEF Settled, Completed
<1>10. Kept' = Append(Kept, id)
  <2>1. Numbered /\ Sequenced
    BY NumberedHolds, SequencedHolds
  <2>2. /\ Kept' \in Seq(TurnIds) /\ Len(Kept') = world.turn + 1
        /\ \A n \in 1 .. world.turn + 1 : Kept'[n] = TurnAt(n - 1)'
    BY <1>5 DEF Sequenced
  <2>3. /\ Append(Kept, id) \in Seq(TurnIds) /\ Len(Append(Kept, id)) = world.turn + 1
        /\ \A n \in 1 .. world.turn : Append(Kept, id)[n] = Kept[n]
        /\ Append(Kept, id)[world.turn + 1] = id
    BY <1>1, <2>1, AppendProperties DEF Sequenced
  <2>4. ASSUME NEW n \in 1 .. world.turn PROVE Kept'[n] = Kept[n]
    <3>1. PICK t \in TurnIds : t = TurnAt(n - 1) /\ Completed(t) /\ rows[t].turn = n - 1
      BY <1>5, <2>1 DEF Numbered
    <3>2. rows'[t] = rows[t] /\ Completed(t)'
      BY <1>4, <1>7, <3>1 DEF Completed
    <3>3. TurnAt(n - 1)' = t
      BY <3>1, <3>2 DEF Numbered
    <3>4. Kept'[n] = TurnAt(n - 1)' /\ Kept[n] = TurnAt(n - 1)
      BY <1>5, <2>1, <2>2 DEF Sequenced
    <3> QED
      BY <3>1, <3>3, <3>4
  <2>5. Kept'[world.turn + 1] = id
    BY <1>5, <1>7, <2>2 DEF Numbered
  <2>6. \A n \in 1 .. world.turn + 1 : Kept'[n] = Append(Kept, id)[n]
    BY <1>5, <2>3, <2>4, <2>5
  <2> QED
    BY <1>5, <2>2, <2>3, <2>6, SeqEqual
<1>11. id \notin {Kept[i] : i \in 1 .. Len(Kept)}
  BY <1>7, CommittedIsDone DEF Done, ScopeInv
<1>12. Settled = {Kept[i] : i \in 1 .. Len(Kept)}
  BY <1>8, AllSettled DEF ScopeInv
<1>13. Timeline!Commit(id)
  BY <1>5, <1>9, <1>10, <1>11, <1>12 DEF Timeline!Commit, Timeline!Committed, Kept, Settled
<1> QED
  BY <1>1, <1>13

\* A projection that is finished settles its key, or confirms what is settled.
LEMMA FinishSettles ==
  ASSUME TypeInv, ScopeInv, Numbered', NEW w \in Workers, FinishProjection(w), Finishable(w)
  PROVE  \/ \E t \in TurnIds : Timeline!Settle(t)
         \/ UNCHANGED <<Kept, Settled, world.chapter>>
<1>1. PICK id \in TurnIds : id = req[w].id /\ rows[id] \in Rows
  BY DEF TypeInv, WorkersTyped, RowsTyped, FinishProjection
<1> DEFINE row == [rows[id] EXCEPT !.memory = req[w].decision]
<1>2. rows' = [rows EXCEPT ![id] = row] /\ world' = world
  BY <1>1 DEF FinishProjection
<1>3. /\ row.status = rows[id].status /\ row.turn = rows[id].turn
      /\ row.memory = req[w].decision /\ req[w].decision # "pending"
  BY <1>1 DEF Rows, TypeInv, WorkersTyped, FinishProjection, Projected
<1>4. Completed(id) /\ rows[id].memory \in {"pending", req[w].decision}
  BY <1>1 DEF Finishable
<1> HIDE DEF row
<1>5. rows'[id] = row /\ \A t \in TurnIds : t # id => rows'[t] = rows[t]
  BY <1>2 DEF TypeInv, RowsTyped
<1>6. SameTurns
  BY <1>2, <1>3, <1>5 DEF SameTurns, Completed
<1>7. CASE rows[id].memory = "pending"
  <2>1. Settled' = Settled \cup {id} /\ id \notin Settled
    BY <1>3, <1>4, <1>5, <1>7 DEF Settled, Completed
  <2>2. id \in {Kept[i] : i \in 1 .. Len(Kept)}
    BY <1>4, CommittedIsDone DEF Done
  <2>3. Kept' = Kept
    BY <1>6, SameKept
  <2>4. Timeline!Settle(id)
    BY <1>2, <2>1, <2>2, <2>3 DEF Timeline!Settle, Timeline!Committed, Kept, Settled
  <2> QED
    BY <2>4
<1>8. CASE rows[id].memory = req[w].decision
  <2>1. SameSettled
    BY <1>3, <1>5, <1>8 DEF SameSettled
  <2> QED
    BY <1>2, <1>6, <2>1, Stutters
<1> QED
  BY <1>4, <1>7, <1>8

\* extend_world_source waits for claims and projections.
LEMMA ExtensionExtends ==
  ASSUME TypeInv, ScopeInv, Numbered', ExtendSource
  PROVE  Timeline!Extend
<1>1. rows' = rows /\ world'.turn = world.turn /\ world'.chapter = world.chapter + 1
  BY DEF ExtendSource, TypeInv, WorldTyped, Worlds
<1>2. SameTurns
  BY <1>1 DEF SameTurns, Completed
<1>3. Kept' = Kept
  BY <1>2, SameKept
<1>4. Settled' = Settled
  BY <1>1 DEF Settled, Completed
<1>5. Settled = {Kept[i] : i \in 1 .. Len(Kept)}
  BY AllSettled DEF ExtendSource, SourceBusy
<1> QED
  BY <1>1, <1>3, <1>4, <1>5 DEF Timeline!Extend, Timeline!Committed, Kept, Settled

\* No row becomes completed, and completed rows keep number and projection.
Quiet == SameTurns /\ SameSettled /\ world' = world

LEMMA RowQuiet ==
  ASSUME TypeInv, NEW u \in TurnIds, NEW row, rows' = [rows EXCEPT ![u] = row], world' = world,
         \/ ~Completed(u) /\ row.status # "completed"
         \/ /\ row.status = rows[u].status /\ row.turn = rows[u].turn
            /\ row.memory = rows[u].memory
  PROVE  Quiet
<1>1. rows'[u] = row /\ \A t \in TurnIds : t # u => rows'[t] = rows[t]
  BY DEF TypeInv, RowsTyped
<1> QED
  BY <1>1 DEF Quiet, SameTurns, SameSettled, Completed

LEMMA BeginQuiet ==
  ASSUME TypeInv, NEW w \in Workers, BeginClaim(w)
  PROVE  Quiet
<1>1. world' = world
  BY DEF BeginClaim
<1>2. ASSUME NEW t \in TurnIds
      PROVE  rows'[t] = rows[t] \/ (~Completed(t) /\ rows'[t].status # "completed")
  <2>1. CASE t = req[w].id
    <3>1. ~Completed(t)
      BY <2>1 DEF BeginClaim, Claimable, Replayable, Conflicting, Completed
    <3>2. rows'[t] = ClaimedRow(w) /\ rows[t] \in Rows
      BY <2>1 DEF BeginClaim, TypeInv, RowsTyped
    <3>3. rows'[t].status = "in_progress"
      BY <2>1, <3>2 DEF ClaimedRow, NoRow, Rows
    <3> QED
      BY <3>1, <3>3
  <2>2. CASE t # req[w].id
    <3>1. rows'[t] = rows[t] \/ (InProgress(t) /\ rows'[t] = Superseded(rows[t]))
      BY <2>2 DEF BeginClaim
    <3>2. rows[t] \in Rows
      BY DEF TypeInv, RowsTyped
    <3> QED
      BY <3>1, <3>2 DEF Superseded, InProgress, Completed, Rows
  <2> QED
    BY <2>1, <2>2
<1> QED
  BY <1>1, <1>2 DEF Quiet, SameTurns, SameSettled, Completed

\* Every other step of the system.
Writes(w) == \/ Complete(w) /\ Committable(w)
             \/ FinishProjection(w) /\ Finishable(w)

LEMMA OthersQuiet ==
  ASSUME TypeInv, ScopeInv, [Next]_vars, ~ExtendSource, \A w \in Workers : ~Writes(w)
  PROVE  Quiet
<1>1. CASE UNCHANGED <<rows, world>>
  BY <1>1 DEF Quiet, SameTurns, SameSettled, Completed
<1>2. ASSUME NEW w \in Workers, WorkerStep(w) PROVE Quiet
  <2> DEFINE id == req[w].id
  <2>1. CASE BeginClaim(w)
    BY <2>1, BeginQuiet
  <2>2. CASE Settle(w) /\ ~UNCHANGED rows
    <3>1. id \in TurnIds /\ rows[id] \in Rows
      BY <2>2 DEF TypeInv, WorkersTyped, RowsTyped, Settle
    <3> DEFINE row == [rows[id] EXCEPT !.check = req[w].decision]
    <3>2. rows' = [rows EXCEPT ![id] = row] /\ world' = world
      BY <2>2 DEF Settle
    <3>3. row.status = rows[id].status /\ row.turn = rows[id].turn /\ row.memory = rows[id].memory
      BY <3>1 DEF Rows
    <3> HIDE DEF row
    <3> QED
      BY <3>1, <3>2, <3>3, RowQuiet
  <2>3. CASE FailTurn(w) /\ Fenced(w)
    <3>1. id \in TurnIds /\ rows[id] \in Rows /\ ~Completed(id)
      BY <2>3 DEF TypeInv, WorkersTyped, RowsTyped, FailTurn, Fenced, InProgress, Completed
    <3> DEFINE row == [rows[id] EXCEPT !.status = "failed", !.lease = "none", !.failure = "other"]
    <3>2. rows' = [rows EXCEPT ![id] = row] /\ world' = world
      BY <2>3 DEF FailTurn
    <3>3. row.status # "completed"
      BY <3>1 DEF Rows
    <3> HIDE DEF row
    <3> QED
      BY <3>1, <3>2, <3>3, RowQuiet
  <2>4. ~Writes(w)
    OBVIOUS
  <2> QED
    BY <1>1, <1>2, <2>1, <2>2, <2>3, <2>4
       DEF Writes, WorkerStep, CheckIdentity, ReadSnapshot, CheckProgress, BeginReplay,
           BeginRefuse, Prepare, LeaseLost, Adjudicate, Settle, Narrate, Complete, FailTurn,
           CheckEligible, Project, FinishProjection, Reply
<1>3. ASSUME NEW u \in TurnIds, NEW lease, rows' = [rows EXCEPT ![u].lease = lease], world' = world
      PROVE  Quiet
  <2> DEFINE row == [rows[u] EXCEPT !.lease = lease]
  <2>1. row.status = rows[u].status /\ row.turn = rows[u].turn /\ row.memory = rows[u].memory
    BY DEF TypeInv, RowsTyped, Rows
  <2> HIDE DEF row
  <2>2. rows' = [rows EXCEPT ![u] = row]
    BY <1>3 DEF row
  <2> QED
    BY <1>3, <2>1, <2>2, RowQuiet
<1>4. ASSUME NEW w \in Workers, Heartbeat(w) \/ HeartbeatError(w) \/ Crash(w) PROVE Quiet
  <2>1. CASE Heartbeat(w) /\ ~UNCHANGED rows
    <3>1. req[w].id \in TurnIds
      BY <2>1 DEF TypeInv, WorkersTyped, Heartbeat, Leased, Claimed
    <3> QED
      BY <1>3, <2>1, <3>1 DEF Heartbeat
  <2> QED
    BY <1>1, <1>4, <2>1 DEF Heartbeat, HeartbeatError, Crash
<1>5. ASSUME NEW u \in TurnIds, ExpireLease(u) PROVE Quiet
  BY <1>3, <1>5 DEF ExpireLease
<1> QED
  BY <1>1, <1>2, <1>4, <1>5 DEF Next, vars, Submit, Recover, ReaderMoves, IdentityChanges

------------------------------------------------------------------------------
LEMMA TimelineInit == Init => Timeline!Init
<1> SUFFICES ASSUME Init PROVE Timeline!Init
  OBVIOUS
<1>1. TypeInv /\ ScopeInv
  BY TypeInit, ScopeInit
<1>2. Kept \in Seq(TurnIds) /\ Len(Kept) = 0
  BY <1>1, SequencedHolds DEF Sequenced, Init
<1>3. Kept = <<>>
  BY <1>2, EmptySeq, SeqEqual
<1>4. Settled = {}
  BY DEF Init, Settled, Completed, NoRow
<1> QED
  BY <1>3, <1>4 DEF Timeline!Init, Kept, Settled, Init

LEMMA TimelineStep ==
  ASSUME TypeInv, ScopeInv, TypeInv', ScopeInv', Numbered', Sequenced', [Next]_vars
  PROVE  [Timeline!Next]_<<Kept, Settled, world.chapter>>
<1>1. CASE ExtendSource
  BY <1>1, ExtensionExtends DEF Timeline!Next
<1>2. ASSUME NEW w \in Workers, Writes(w)
      PROVE  [Timeline!Next]_<<Kept, Settled, world.chapter>>
  BY <1>2, CommitAppends, FinishSettles DEF Writes, Timeline!Next
<1>3. CASE ~ExtendSource /\ \A w \in Workers : ~Writes(w)
  <2>1. Quiet
    BY <1>3, OthersQuiet
  <2> QED
    BY <2>1, Stutters DEF Quiet
<1> QED
  BY <1>1, <1>2, <1>3

\* The journal and the world state implement the promised timeline: keys are
\* appended once and in turn order, the newest is projected before anything else
\* is admitted, and nothing is taken back.
THEOREM ImplementsTimelineHolds == Spec => ImplementsTimeline
<1>1. TypeInv /\ ScopeInv => Numbered /\ Sequenced
  BY NumberedHolds, SequencedHolds
<1>2. TypeInv /\ ScopeInv /\ TypeInv' /\ ScopeInv' /\ (Numbered /\ Sequenced)' /\ [Next]_vars
        => [Timeline!Next]_<<Kept, Settled, world.chapter>>
  BY TimelineStep
<1>3. Spec => Timeline!Init /\ [][Timeline!Next]_<<Kept, Settled, world.chapter>>
  BY <1>1, <1>2, TimelineInit, TypeInit, TypeStep, ScopeInit, ScopeStep, PTL DEF Spec
<1> QED
  BY <1>3, PTL DEF ImplementsTimeline, Timeline!Spec, Kept, Settled
==============================================================================
