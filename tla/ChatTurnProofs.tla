---------------------------- MODULE ChatTurnProofs ----------------------------
(***************************************************************************)
(* Safety of ChatTurn for every set of keys, workers and messages and      *)
(* every bound.  Types and the numbering of turns are inductive together,  *)
(* as a number is bounded by the turns that are numbered; the claims, the  *)
(* requests and the history are inductive relative to them.                *)
(***************************************************************************)
EXTENDS ChatTurn, FiniteSetTheorems, TLAPS

\* A worker that claimed a turn, and one whose request was compared with its row.
Holding == {"check", "reject", "fail"} \cup Leased
Compared == {"reclaim", "supersede_reclaim", "check"} \cup Leased
Prompted == {"generate", "recheck", "commit"}

\* The types, with any natural as a sequence number.
StoredRows ==
    [status : {"absent", "in_progress", "completed", "failed"}, attempt : 0 .. MaxAttempt,
     failure : {"none", "other", "superseded"}, lease : {"none", "live", "expired"},
     message : Messages, chapter : Chapters, self : BOOLEAN, revision : Revisions,
     sequence : Nat, answer : Answers]

\* The state constraints of one row.
Constrained(row) ==
    /\ row.lease # "none" <=> row.status = "in_progress"
    /\ row.failure # "none" <=> row.status = "failed"
    /\ row.attempt = 0 <=> row.status = "absent"

RowsTyped ==
    /\ rows \in [TurnIds -> StoredRows]
    /\ \A t \in TurnIds : Constrained(rows[t])

WorkersTyped ==
    /\ pc \in [Workers -> Labels]
    /\ req \in [Workers -> Reqs]
    /\ \A w \in Workers : pc[w] # "idle" => req[w].id \in TurnIds

OthersTyped ==
    /\ reader \in [chapter : Chapters, self : BOOLEAN]
    /\ revision \in Revisions
    /\ told \subseteq [id : TurnIds, message : Messages, chapter : Chapters, answer : Answers]

TypeInv == RowsTyped /\ WorkersTyped /\ OthersTyped

\* The turns that are numbered, and the numbers they have.
Counted == {t \in TurnIds : Completed(t) /\ rows[t].self}
NumberInv ==
    /\ {0} \cup {rows[t].sequence : t \in TurnIds} = 0 .. Cardinality(Counted)
    /\ \A t \in TurnIds : rows[t].sequence = 0 <=> t \notin Counted

\* A claim is numbered, no later than the newest of its row, and one worker's; and
\* one row at most is in progress.
ClaimInv ==
    /\ \A w \in Workers : pc[w] \in Holding => req[w].attempt \in 1 .. rows[req[w].id].attempt
    /\ \A w, v \in Workers :
         /\ pc[w] \in Holding /\ pc[v] \in Holding
         /\ req[w].id = req[v].id /\ req[w].attempt = req[v].attempt
         => w = v
    /\ \A t, u \in TurnIds : InProgress(t) /\ InProgress(u) => t = u

\* A request goes on only with the row that holds its own message, and answers only
\* for the chapter that row was made for.
RequestInv ==
    /\ \A w \in Workers : pc[w] \in Compared =>
         rows[req[w].id].status # "absent" /\ rows[req[w].id].message = req[w].message
    /\ \A w \in Workers : pc[w] \in Leased => rows[req[w].id].chapter = req[w].chapter
    /\ \A e \in told : rows[e.id].status # "absent"
    /\ AnswersTheRequest

\* While its claim stands, nothing is committed behind a worker's prompt.
HistoryInv ==
    /\ \A w \in Workers : pc[w] \in Prompted /\ Fenced(w) =>
         req[w].saw = {t \in TurnIds : Completed(t)}
    /\ HistoryIsLinear
    /\ AnswerOfItsClaim
    /\ \A t, u \in Counted : rows[t].sequence < rows[u].sequence => t \in rows[u].answer.saw

ChatInv == TypeInv /\ NumberInv /\ ClaimInv /\ RequestInv /\ HistoryInv

------------------------------------------------------------------------------
(***************************************************************************)
(* Types.                                                                  *)
(***************************************************************************)
LEMMA NullsTyped ==
  /\ NoAnswer \in Answers
  /\ NoRow \in StoredRows /\ Constrained(NoRow) /\ NoRow.status = "absent" /\ NoRow.sequence = 0
  /\ NoReq \in Reqs /\ NoReq.id = NoTurn
<1>1. PICK m \in Messages : m = CHOOSE n \in Messages : TRUE
  BY Assumptions
<1>2. NoAnswer \in Answers
  BY Assumptions DEF NoAnswer, Answers, Revisions
<1>3. NoRow \in StoredRows /\ Constrained(NoRow) /\ NoRow.status = "absent" /\ NoRow.sequence = 0
  BY <1>1, <1>2, Assumptions DEF NoRow, StoredRows, Constrained, Chapters, Revisions
<1>4. NoReq \in Reqs /\ NoReq.id = NoTurn
  BY <1>1, Assumptions DEF NoReq, Reqs, Chapters, Revisions
<1> QED
  BY <1>2, <1>3, <1>4

LEMMA RowTyped ==
  ASSUME TypeInv, NEW t \in TurnIds
  PROVE  rows[t] \in StoredRows /\ Constrained(rows[t])
  BY DEF TypeInv, RowsTyped

LEMMA BusyTyped ==
  ASSUME TypeInv, NEW w \in Workers, pc[w] # "idle"
  PROVE  /\ req[w] \in Reqs /\ req[w].id \in TurnIds
         /\ rows[req[w].id] \in StoredRows /\ Constrained(rows[req[w].id])
  BY DEF TypeInv, RowsTyped, WorkersTyped

LEMMA RowMoves ==
  ASSUME TypeInv, NEW t \in TurnIds, NEW row \in StoredRows, Constrained(row),
         rows' = [rows EXCEPT ![t] = row]
  PROVE  RowsTyped'
  BY DEF TypeInv, RowsTyped

LEMMA WorkerMoves ==
  ASSUME TypeInv, NEW w \in Workers, NEW label \in Labels, NEW r \in Reqs,
         label # "idle" => r.id \in TurnIds,
         pc' = [pc EXCEPT ![w] = label], req' = [req EXCEPT ![w] = r]
  PROVE  WorkersTyped'
  BY DEF TypeInv, WorkersTyped

LEMMA GotoTyped ==
  ASSUME TypeInv, NEW w \in Workers, pc[w] # "idle", NEW label \in Labels, Goto(w, label)
  PROVE  WorkersTyped'
  BY DEF TypeInv, WorkersTyped, Goto

LEMMA LeaveTyped == ASSUME TypeInv, NEW w \in Workers, Leave(w) PROVE WorkersTyped'
  BY NullsTyped, WorkerMoves DEF Leave, Labels

LEMMA AbandonTyped ==
  ASSUME TypeInv, NEW w \in Workers, pc[w] # "idle", NEW label \in Labels, Abandon(w, label)
  PROVE  WorkersTyped'
<1> DEFINE r == [NoReq EXCEPT !.id = req[w].id, !.attempt = req[w].attempt]
<1>1. r \in Reqs /\ r.id \in TurnIds
  BY NullsTyped, BusyTyped DEF Reqs
<1> HIDE DEF r
<1> QED
  BY <1>1, WorkerMoves DEF Abandon, r

LEMMA RetryTyped ==
  ASSUME TypeInv, NEW w \in Workers, pc[w] # "idle", NEW label \in Labels, Retry(w, label)
  PROVE  WorkersTyped'
<1> DEFINE r == [req[w] EXCEPT !.tries = @ + 1]
<1>1. CASE req[w].tries + 1 < MaxTries
  <2>1. r \in Reqs /\ r.id \in TurnIds
    BY <1>1, BusyTyped, Assumptions DEF Reqs
  <2>2. pc' = [pc EXCEPT ![w] = label] /\ req' = [req EXCEPT ![w] = r]
    BY <1>1 DEF Retry
  <2> HIDE DEF r
  <2> QED
    BY <2>1, <2>2, WorkerMoves
<1> QED
  BY <1>1, LeaveTyped DEF Retry

\* One field of the locals changes.
LEMMA LocalsTyped ==
  ASSUME TypeInv, NEW w \in Workers, pc[w] # "idle"
  PROVE  /\ \A chapter \in Chapters, self \in BOOLEAN :
              LET r == [req[w] EXCEPT !.chapter = chapter, !.self = self]
              IN  r \in Reqs /\ r.id = req[w].id
         /\ \A rev \in Revisions, player \in BOOLEAN :
              LET r == [req[w] EXCEPT !.revision = rev, !.player = player]
              IN  r \in Reqs /\ r.id = req[w].id
         /\ \A attempt \in 0 .. MaxAttempt :
              LET r == [req[w] EXCEPT !.attempt = attempt]
              IN  r \in Reqs /\ r.id = req[w].id
         /\ \A saw \in SUBSET TurnIds :
              LET r == [req[w] EXCEPT !.saw = saw]
              IN  r \in Reqs /\ r.id = req[w].id
         /\ LET r == [req[w] EXCEPT !.tries = 0]
            IN  r \in Reqs /\ r.id = req[w].id
         /\ LET r == [req[w] EXCEPT !.lost = TRUE]
            IN  r \in Reqs /\ r.id = req[w].id
<1>0. req[w] \in Reqs
  BY BusyTyped
<1>1. ASSUME NEW chapter \in Chapters, NEW self \in BOOLEAN
      PROVE  LET r == [req[w] EXCEPT !.chapter = chapter, !.self = self]
             IN  r \in Reqs /\ r.id = req[w].id
  BY <1>0 DEF Reqs
<1>2. ASSUME NEW rev \in Revisions, NEW player \in BOOLEAN
      PROVE  LET r == [req[w] EXCEPT !.revision = rev, !.player = player]
             IN  r \in Reqs /\ r.id = req[w].id
  BY <1>0 DEF Reqs
<1>3. ASSUME NEW attempt \in 0 .. MaxAttempt
      PROVE  LET r == [req[w] EXCEPT !.attempt = attempt]
             IN  r \in Reqs /\ r.id = req[w].id
  BY <1>0 DEF Reqs
<1>4. ASSUME NEW saw \in SUBSET TurnIds
      PROVE  LET r == [req[w] EXCEPT !.saw = saw]
             IN  r \in Reqs /\ r.id = req[w].id
  BY <1>0 DEF Reqs
<1>5. LET r == [req[w] EXCEPT !.tries = 0]
      IN  r \in Reqs /\ r.id = req[w].id
  BY <1>0, Assumptions DEF Reqs
<1>6. LET r == [req[w] EXCEPT !.lost = TRUE]
      IN  r \in Reqs /\ r.id = req[w].id
  BY <1>0 DEF Reqs
<1> QED
  BY <1>1, <1>2, <1>3, <1>4, <1>5, <1>6

------------------------------------------------------------------------------
(***************************************************************************)
(* What one step may do to the rows.  A claim begins, by an insert or a    *)
(* reclaim; the row of a claim changes its lease, fails, or is committed.  *)
(***************************************************************************)
Reclaimed(w) ==
    [rows[req[w].id] EXCEPT !.status = "in_progress", !.lease = "live", !.failure = "none",
                            !.attempt = @ + 1, !.revision = req[w].revision]

Begins(w) ==
    /\ pc'[w] = "check"
    /\ ~ActiveElsewhere(req[w].id)
    /\ \/ /\ Insert(w)
          /\ rows[req[w].id].status = "absent"
          /\ rows' = [rows EXCEPT ![req[w].id] = InsertedRow(w)]
          /\ req' = [req EXCEPT ![w].attempt = 1]
       \/ /\ Reclaim(w) /\ Reclaimable(w)
          /\ rows[req[w].id].attempt < MaxAttempt
          /\ rows' = [rows EXCEPT ![req[w].id] = Reclaimed(w)]
          /\ req' = [req EXCEPT ![w].attempt = @ + 1]

Committed(w) ==
    [rows[req[w].id] EXCEPT !.status = "completed", !.lease = "none", !.failure = "none",
                            !.sequence = IF Numbered(req[w].id) THEN NextSequence ELSE 0,
                            !.answer = Answer(w)]

Commits(w) ==
    /\ Commit(w) /\ Committable(w)
    /\ rows' = [rows EXCEPT ![req[w].id] = Committed(w)]

\* The row of a claim goes on, or ends without an answer.
Leasing(t) == \E lease \in {"live", "expired"} : rows'[t] = [rows[t] EXCEPT !.lease = lease]
Failing(t) == \E code \in {"other", "superseded"} : rows'[t] = Failed(rows[t], code)
Passing ==
    /\ rows' = [t \in TurnIds |-> rows'[t]]
    /\ \A t \in TurnIds : rows'[t] = rows[t] \/ (InProgress(t) /\ (Leasing(t) \/ Failing(t)))

LEMMA InsertTyped ==
  ASSUME TypeInv, NEW w \in Workers, pc[w] # "idle"
  PROVE  /\ InsertedRow(w) \in StoredRows /\ Constrained(InsertedRow(w))
         /\ InsertedRow(w).status = "in_progress" /\ InsertedRow(w).attempt = 1
         /\ InsertedRow(w).message = req[w].message /\ InsertedRow(w).chapter = req[w].chapter
         /\ InsertedRow(w).sequence = 0
<1> DEFINE row == InsertedRow(w)
<1>1. /\ req[w].message \in Messages /\ req[w].chapter \in Chapters /\ req[w].self \in BOOLEAN
      /\ req[w].revision \in Revisions /\ 1 \in 0 .. MaxAttempt
  BY BusyTyped, Assumptions DEF Reqs
<1>2. NoRow \in StoredRows /\ NoRow.sequence = 0 /\ Constrained(NoRow) /\ NoRow.status = "absent"
  BY NullsTyped
<1>3. row \in StoredRows
  BY <1>1, <1>2 DEF InsertedRow, StoredRows
<1>4. /\ row.status = "in_progress" /\ row.attempt = 1 /\ row.lease = "live"
      /\ row.message = req[w].message /\ row.chapter = req[w].chapter
      /\ row.sequence = NoRow.sequence /\ row.failure = NoRow.failure
  BY <1>2 DEF InsertedRow, StoredRows
<1> QED
  BY <1>2, <1>3, <1>4 DEF Constrained

LEMMA ReclaimTyped ==
  ASSUME TypeInv, NEW w \in Workers, pc[w] # "idle", rows[req[w].id].attempt < MaxAttempt
  PROVE  LET row == rows[req[w].id]
         IN  /\ Reclaimed(w) \in StoredRows /\ Constrained(Reclaimed(w))
             /\ Reclaimed(w).status = "in_progress" /\ Reclaimed(w).attempt = row.attempt + 1
             /\ Reclaimed(w).message = row.message /\ Reclaimed(w).chapter = row.chapter
             /\ Reclaimed(w).sequence = row.sequence
<1> DEFINE old == rows[req[w].id]
           row == Reclaimed(w)
<1>1. /\ old \in StoredRows /\ req[w].revision \in Revisions
      /\ old.attempt + 1 \in 0 .. MaxAttempt /\ old.attempt + 1 # 0
  BY BusyTyped, Assumptions DEF Reqs, StoredRows
<1>2. row \in StoredRows
  BY <1>1 DEF Reclaimed, StoredRows
<1>3. /\ row.status = "in_progress" /\ row.attempt = old.attempt + 1 /\ row.lease = "live"
      /\ row.message = old.message /\ row.chapter = old.chapter
      /\ row.sequence = old.sequence /\ row.failure = "none"
  BY <1>1 DEF Reclaimed, StoredRows
<1> QED
  BY <1>1, <1>2, <1>3 DEF Constrained

LEMMA PassingTyped == ASSUME TypeInv, Passing PROVE RowsTyped'
<1>1. ASSUME NEW t \in TurnIds, InProgress(t), Leasing(t)
      PROVE  rows'[t] \in StoredRows /\ Constrained(rows'[t])
  BY <1>1, RowTyped DEF Leasing, StoredRows, Constrained, InProgress
<1>2. ASSUME NEW t \in TurnIds, InProgress(t), Failing(t)
      PROVE  rows'[t] \in StoredRows /\ Constrained(rows'[t])
  BY <1>2, RowTyped DEF Failing, Failed, StoredRows, Constrained, InProgress
<1>3. \A t \in TurnIds : rows'[t] \in StoredRows /\ Constrained(rows'[t])
  BY <1>1, <1>2, RowTyped DEF Passing
<1> QED
  BY <1>3 DEF RowsTyped, Passing

LEMMA RowPasses ==
  ASSUME TypeInv, NEW t \in TurnIds, NEW row, rows' = [rows EXCEPT ![t] = row], InProgress(t),
         \/ \E lease \in {"live", "expired"} : row = [rows[t] EXCEPT !.lease = lease]
         \/ \E code \in {"other", "superseded"} : row = Failed(rows[t], code)
  PROVE  Passing
  BY DEF TypeInv, RowsTyped, Passing, Leasing, Failing

LEMMA RowsPass == ASSUME TypeInv, rows' = rows PROVE Passing
  BY DEF TypeInv, RowsTyped, Passing

LEMMA RowSteps ==
  ASSUME TypeInv, [Next]_vars
  PROVE  Passing \/ \E w \in Workers : Begins(w) \/ Commits(w)
<1>1. ASSUME NEW w \in Workers, WorkerStep(w) PROVE Passing \/ Begins(w) \/ Commits(w)
  <2>1. CASE Insert(w)
    <3>1. CASE rows' = rows
      BY <3>1, RowsPass
    <3>2. CASE rows' # rows
      <4>1. /\ rows[req[w].id].status = "absent" /\ ~ActiveElsewhere(req[w].id)
            /\ rows' = [rows EXCEPT ![req[w].id] = InsertedRow(w)]
            /\ req' = [req EXCEPT ![w].attempt = 1] /\ pc' = [pc EXCEPT ![w] = "check"]
        BY <2>1, <3>2 DEF Insert
      <4>2. pc'[w] = "check"
        BY <4>1 DEF TypeInv, WorkersTyped
      <4> QED
        BY <2>1, <4>1, <4>2 DEF Begins
    <3> QED
      BY <3>1, <3>2
  <2>2. CASE Reclaim(w)
    <3>1. CASE rows' = rows
      BY <3>1, RowsPass
    <3>2. CASE rows' # rows
      <4>0. /\ Reclaimable(w) /\ ~ActiveElsewhere(req[w].id) /\ pc[w] = "reclaim"
            /\ rows[req[w].id].attempt < MaxAttempt
            /\ rows' = [rows EXCEPT ![req[w].id] = Reclaimed(w)]
            /\ req' = [req EXCEPT ![w].attempt = @ + 1] /\ pc' = [pc EXCEPT ![w] = "check"]
        BY <2>2, <3>2 DEF Reclaim, Reclaimed
      <4>2. pc'[w] = "check"
        BY <4>0 DEF TypeInv, WorkersTyped
      <4> QED
        BY <2>2, <4>0, <4>2 DEF Begins
    <3> QED
      BY <3>1, <3>2
  <2>3. CASE SupersedeForInsert(w) \/ SupersedeForReclaim(w)
    BY <2>3 DEF SupersedeForInsert, SupersedeForReclaim, Supersede, Supersedable, Expired, Passing,
                Failing
  <2>4. CASE Commit(w)
    <3>1. rows' = rows \/ Commits(w)
      BY <2>4 DEF Commit, Commits, Committed
    <3> QED
      BY <3>1, RowsPass
  <2>5. CASE FailTurn(w)
    <3>1. CASE Fenced(w)
      BY <2>5, <3>1, BusyTyped, RowPasses DEF FailTurn, Fenced
    <3> QED
      BY <2>5, <3>1, RowsPass DEF FailTurn
  <2> QED
    BY <1>1, <2>1, <2>2, <2>3, <2>4, <2>5, RowsPass
       DEF WorkerStep, ReadContext, ReadRevision, ReadReplay, ReadRow, CheckClaim, LeaseLost,
           BuildPrompt, Generate, Recheck
<1>2. ASSUME NEW w \in Workers, Heartbeat(w) PROVE Passing
  <2>1. CASE Fenced(w)
    BY <1>2, <2>1, BusyTyped, RowPasses DEF Heartbeat, Fenced, Leased
  <2> QED
    BY <1>2, <2>1, RowsPass DEF Heartbeat
<1>3. ASSUME NEW t \in TurnIds, ExpireLease(t) PROVE Passing
  BY <1>3, RowPasses DEF ExpireLease
<1> QED
  BY <1>1, <1>2, <1>3, RowsPass DEF Next, Crash, Request, ReaderMoves, WorldMoves, vars

LEMMA WorkerStepTyped == ASSUME TypeInv, NEW w \in Workers, WorkerStep(w) PROVE WorkersTyped'
<1>1. CASE ReadContext(w)
  <2> DEFINE r == [req[w] EXCEPT !.chapter = reader.chapter, !.self = reader.self]
  <2>0. pc[w] # "idle" /\ reader.chapter \in Chapters /\ reader.self \in BOOLEAN
    BY <1>1 DEF ReadContext, TypeInv, OthersTyped
  <2>1. r \in Reqs /\ r.id \in TurnIds
    BY <2>0, LocalsTyped, BusyTyped
  <2>2. req' = [req EXCEPT ![w] = r] /\ pc' = [pc EXCEPT ![w] = "revision"]
    BY <1>1 DEF ReadContext
  <2> HIDE DEF r
  <2> QED
    BY <2>1, <2>2, WorkerMoves DEF Labels
<1>2. CASE ReadRevision(w)
  <2>1. ASSUME NEW player \in BOOLEAN,
               req' = [req EXCEPT ![w].revision = revision, ![w].player = player],
               pc' = [pc EXCEPT ![w] = "insert"]
        PROVE  WorkersTyped'
    <3> DEFINE r == [req[w] EXCEPT !.revision = revision, !.player = player]
    <3>1. pc[w] # "idle" /\ revision \in Revisions
      BY <1>2 DEF ReadRevision, TypeInv, OthersTyped
    <3>2. r \in Reqs /\ r.id \in TurnIds
      BY <3>1, LocalsTyped, BusyTyped
    <3>3. req' = [req EXCEPT ![w] = r]
      BY <2>1
    <3> HIDE DEF r
    <3> QED
      BY <2>1, <3>2, <3>3, WorkerMoves DEF Labels
  <2>2. {FALSE, reader.self} \subseteq BOOLEAN
    BY DEF TypeInv, OthersTyped
  <2> QED
    BY <1>2, <2>1, <2>2, LeaveTyped DEF ReadRevision
<1>3. CASE Insert(w)
  <2>1. CASE Goto(w, "supersede_insert")
    BY <1>3, <2>1, GotoTyped DEF Insert, Labels
  <2>2. CASE req' = [req EXCEPT ![w].tries = 0] /\ pc' = [pc EXCEPT ![w] = "read"]
    BY <1>3, <2>2, LocalsTyped, BusyTyped, WorkerMoves DEF Insert, Labels
  <2>3. CASE req' = [req EXCEPT ![w].attempt = 1] /\ pc' = [pc EXCEPT ![w] = "check"]
    <3>1. 1 \in 0 .. MaxAttempt
      BY Assumptions
    <3> QED
      BY <1>3, <2>3, <3>1, LocalsTyped, BusyTyped, WorkerMoves DEF Insert, Labels
  <2> QED
    BY <1>3, <2>1, <2>2, <2>3 DEF Insert
<1>4. CASE SupersedeForInsert(w) \/ SupersedeForReclaim(w)
  BY <1>4, RetryTyped, LeaveTyped DEF SupersedeForInsert, SupersedeForReclaim, Supersede, Labels
<1>5. CASE ReadReplay(w)
  BY <1>5, LeaveTyped DEF ReadReplay
<1>6. CASE ReadRow(w)
  <2>1. rows[req[w].id].attempt \in 0 .. MaxAttempt
    BY <1>6, BusyTyped DEF ReadRow, StoredRows
  <2>2. CASE Selected(w)
    <3> DEFINE r == [req[w] EXCEPT !.attempt = rows[req[w].id].attempt]
    <3>1. r \in Reqs /\ r.id \in TurnIds /\ "reclaim" \in Labels
      BY <1>6, <2>1, LocalsTyped, BusyTyped DEF ReadRow, Labels
    <3>2. req' = [req EXCEPT ![w] = r] /\ pc' = [pc EXCEPT ![w] = "reclaim"]
      BY <1>6, <2>2 DEF ReadRow
    <3> HIDE DEF r
    <3> QED
      BY <3>1, <3>2, WorkerMoves
  <2>3. CASE ~Selected(w)
    BY <1>6, <2>3, LeaveTyped DEF ReadRow
  <2> QED
    BY <2>2, <2>3
<1>7. CASE Reclaim(w)
  <2>1. CASE Retry(w, "read") \/ Goto(w, "supersede_reclaim")
    BY <1>7, <2>1, RetryTyped, GotoTyped DEF Reclaim, Labels
  <2>2. CASE /\ Reclaimable(w) /\ rows[req[w].id].attempt < MaxAttempt
             /\ req' = [req EXCEPT ![w].attempt = @ + 1] /\ pc' = [pc EXCEPT ![w] = "check"]
    <3>1. req[w].attempt + 1 \in 0 .. MaxAttempt
      <4>1. pc[w] # "idle" /\ rows[req[w].id].attempt = req[w].attempt
        BY <1>7, <2>2 DEF Reclaim, Reclaimable
      <4>2. rows[req[w].id].attempt \in 0 .. MaxAttempt
        BY <4>1, BusyTyped DEF StoredRows
      <4> QED
        BY <2>2, <4>1, <4>2, Assumptions
    <3> DEFINE r == [req[w] EXCEPT !.attempt = @ + 1]
    <3>2. r \in Reqs /\ r.id \in TurnIds /\ "check" \in Labels
      BY <1>7, <3>1, LocalsTyped, BusyTyped DEF Reclaim, Labels
    <3>3. req' = [req EXCEPT ![w] = r] /\ pc' = [pc EXCEPT ![w] = "check"]
      BY <2>2
    <3> HIDE DEF r
    <3> QED
      BY <3>2, <3>3, WorkerMoves
  <2> QED
    BY <1>7, <2>1, <2>2 DEF Reclaim
<1>8. CASE CheckClaim(w)
  BY <1>8, GotoTyped, AbandonTyped DEF CheckClaim, Labels, Leased
<1>9. CASE LeaseLost(w)
  BY <1>9, AbandonTyped DEF LeaseLost, Labels, Leased
<1>10. CASE BuildPrompt(w)
  <2>1. {t \in TurnIds : Completed(t)} \in SUBSET TurnIds
    OBVIOUS
  <2> QED
    BY <1>10, <2>1, LocalsTyped, BusyTyped, WorkerMoves DEF BuildPrompt, Labels, Leased
<1>11. CASE Generate(w) \/ Recheck(w)
  BY <1>11, GotoTyped, AbandonTyped DEF Generate, Recheck, Labels, Leased
<1>12. CASE Commit(w)
  BY <1>12, LeaveTyped, AbandonTyped DEF Commit, Labels
<1>13. CASE FailTurn(w)
  BY <1>13, LeaveTyped DEF FailTurn
<1> QED
  BY <1>1, <1>2, <1>3, <1>4, <1>5, <1>6, <1>7, <1>8, <1>9, <1>10, <1>11, <1>12, <1>13 DEF WorkerStep

------------------------------------------------------------------------------
(***************************************************************************)
(* Numbers.                                                                *)
(***************************************************************************)
LEMMA CountedFinite == IsFiniteSet(Counted) /\ Cardinality(Counted) \in Nat
                       /\ Cardinality(Counted) <= Cardinality(TurnIds)
  BY Assumptions, FS_Subset, FS_CardinalityType DEF Counted

LEMMA NextNumber == ASSUME TypeInv, NumberInv PROVE NextSequence = Cardinality(Counted) + 1
<1> DEFINE n == Cardinality(Counted)
<1>1. n \in Nat
  BY CountedFinite
<1>2. {0} \cup {rows[t].sequence : t \in TurnIds} = 0 .. n
  BY DEF NumberInv
<1> HIDE DEF n
<1>3. Max(0 .. n) = n
  <2>1. n \in 0 .. n /\ \A y \in 0 .. n : n >= y
    BY <1>1
  <2>2. \A x \in 0 .. n : (\A y \in 0 .. n : x >= y) => x = n
    BY <1>1
  <2> QED
    BY <2>1, <2>2 DEF Max
<1>4. NextSequence = 1 + Max(0 .. n)
  BY <1>2 DEF NextSequence
<1> QED
  BY <1>1, <1>3, <1>4 DEF n

\* Identity and number of a row last while nothing is committed.
LEMMA PassingKeeps ==
  ASSUME TypeInv, Passing, NEW t \in TurnIds
  PROVE  /\ rows'[t].attempt = rows[t].attempt /\ rows'[t].message = rows[t].message
         /\ rows'[t].chapter = rows[t].chapter /\ rows'[t].self = rows[t].self
         /\ rows'[t].sequence = rows[t].sequence /\ rows'[t].answer = rows[t].answer
         /\ rows'[t].revision = rows[t].revision
         /\ rows'[t].status = "absent" <=> rows[t].status = "absent"
         /\ Completed(t)' <=> Completed(t)
         /\ InProgress(t)' => InProgress(t)
<1>1. rows[t] \in StoredRows
  BY RowTyped
<1>2. CASE rows'[t] = rows[t]
  BY <1>2 DEF Completed, InProgress
<1>3. CASE InProgress(t) /\ Leasing(t)
  BY <1>1, <1>3 DEF StoredRows, Leasing, Completed, InProgress
<1>4. CASE InProgress(t) /\ Failing(t)
  BY <1>1, <1>4 DEF StoredRows, Failing, Failed, Completed, InProgress
<1> QED
  BY <1>2, <1>3, <1>4 DEF Passing

\* A claim that begins leaves every other row alone, and its own row without an answer.
LEMMA BeginsRow ==
  ASSUME TypeInv, NEW w \in Workers, Begins(w)
  PROVE  LET t == req[w].id
         IN  /\ t \in TurnIds /\ pc[w] # "idle" /\ pc[w] \notin Holding
             /\ rows'[t] \in StoredRows /\ Constrained(rows'[t])
             /\ \A u \in TurnIds \ {t} : rows'[u] = rows[u]
             /\ rows' \in [TurnIds -> StoredRows]
             /\ ~Completed(t) /\ rows'[t].status = "in_progress"
             /\ rows'[t].attempt = rows[t].attempt + 1
             /\ rows[t].status = "absent" \/ rows'[t].message = rows[t].message
             /\ rows[t].status = "absent" \/ rows'[t].chapter = rows[t].chapter
             /\ rows'[t].sequence = rows[t].sequence \/ rows'[t].sequence = 0
             /\ req'[w].attempt = rows'[t].attempt /\ req'[w].id = t
             /\ req'[w].message = req[w].message
             /\ rows'[t].message = req[w].message \/ pc[w] = "reclaim"
<1> DEFINE t == req[w].id
<1>1. pc[w] \in {"insert", "reclaim"} /\ w \in DOMAIN req
  BY DEF Begins, Insert, Reclaim, TypeInv, WorkersTyped
<1>2. t \in TurnIds /\ rows[t] \in StoredRows /\ Constrained(rows[t]) /\ req[w] \in Reqs
  BY <1>1, BusyTyped
<1>3. \E row : rows' = [rows EXCEPT ![t] = row] /\ row \in StoredRows
  BY <1>1, InsertTyped, ReclaimTyped DEF Begins
<1>4. rows' \in [TurnIds -> StoredRows] /\ \A u \in TurnIds \ {t} : rows'[u] = rows[u]
  BY <1>2, <1>3 DEF TypeInv, RowsTyped
<1>5. CASE rows[t].status = "absent" /\ rows' = [rows EXCEPT ![t] = InsertedRow(w)]
           /\ req' = [req EXCEPT ![w].attempt = 1]
  <2>1. rows'[t] = InsertedRow(w)
    BY <1>2, <1>5 DEF TypeInv, RowsTyped
  <2>2. rows[t].attempt = 0 /\ ~Completed(t)
    BY <1>2, <1>5 DEF Constrained, Completed
  <2>3. req'[w] = [req[w] EXCEPT !.attempt = 1]
    BY <1>1, <1>5
  <2>4. req'[w].attempt = 1 /\ req'[w].id = t /\ req'[w].message = req[w].message
    BY <1>2, <2>3 DEF Reqs
  <2> QED
    BY <1>1, <1>2, <1>4, <1>5, <2>1, <2>2, <2>4, InsertTyped DEF InProgress, Holding, Leased
<1>6. CASE Reclaim(w) /\ Reclaimable(w) /\ rows[t].attempt < MaxAttempt
           /\ rows' = [rows EXCEPT ![t] = Reclaimed(w)]
           /\ req' = [req EXCEPT ![w].attempt = @ + 1]
  <2>1. rows'[t] = Reclaimed(w)
    BY <1>2, <1>6 DEF TypeInv, RowsTyped
  <2>2. rows[t].attempt = req[w].attempt /\ ~Completed(t) /\ pc[w] = "reclaim"
    BY <1>6 DEF Reclaim, Reclaimable, Completed, Expired, InProgress
  <2>3. req'[w] = [req[w] EXCEPT !.attempt = @ + 1]
    BY <1>1, <1>6
  <2>4. req'[w].attempt = req[w].attempt + 1 /\ req'[w].id = t /\ req'[w].message = req[w].message
    BY <1>2, <2>3 DEF Reqs
  <2> QED
    BY <1>1, <1>2, <1>4, <1>6, <2>1, <2>2, <2>4, ReclaimTyped DEF InProgress, Holding, Leased
<1> QED
  BY <1>5, <1>6 DEF Begins

\* A row that a commit completes is a row.
LEMMA CompletedTyped ==
  ASSUME NEW row \in StoredRows, NEW number \in Nat, NEW answer \in Answers
  PROVE  [row EXCEPT !.status = "completed", !.lease = "none", !.failure = "none",
                     !.sequence = number, !.answer = answer] \in StoredRows
  BY DEF StoredRows

\* A commit completes its own row and leaves every other one alone.
LEMMA CommitsRow ==
  ASSUME TypeInv, NumberInv, NEW w \in Workers, Commits(w)
  PROVE  LET t == req[w].id
         IN  /\ t \in TurnIds /\ pc[w] = "commit"
             /\ rows'[t] \in StoredRows /\ Constrained(rows'[t])
             /\ rows' \in [TurnIds -> StoredRows]
             /\ \A u \in TurnIds \ {t} : rows'[u] = rows[u]
             /\ InProgress(t) /\ rows'[t].status = "completed" /\ rows[t].attempt = req[w].attempt
             /\ rows[t].revision = req[w].revision
             /\ rows'[t].attempt = rows[t].attempt /\ rows'[t].message = rows[t].message
             /\ rows'[t].chapter = rows[t].chapter /\ rows'[t].self = rows[t].self
             /\ rows'[t].revision = rows[t].revision
             /\ rows'[t].sequence = IF rows[t].self THEN Cardinality(Counted) + 1 ELSE 0
             /\ rows'[t].answer = Answer(w) /\ Answer(w) \in Answers
<1> DEFINE t == req[w].id
           number == IF Numbered(t) THEN NextSequence ELSE 0
<1>1. pc[w] = "commit" /\ Committable(w)
  BY DEF Commits, Commit
<1>2. t \in TurnIds /\ rows[t] \in StoredRows /\ Constrained(rows[t]) /\ req[w] \in Reqs
  BY <1>1, BusyTyped
<1>3. number \in Nat /\ number = IF rows[t].self THEN Cardinality(Counted) + 1 ELSE 0
  BY CountedFinite, NextNumber DEF Numbered
<1>4. Answer(w) \in Answers
  BY <1>2 DEF Answer, Answers, Reqs
<1>5. rows'[t] = [rows[t] EXCEPT !.status = "completed", !.lease = "none", !.failure = "none",
                                 !.sequence = number, !.answer = Answer(w)]
  BY <1>2 DEF Commits, Committed, TypeInv, RowsTyped
<1> HIDE DEF number
<1>6. /\ rows'[t] \in StoredRows
      /\ rows'[t].status = "completed" /\ rows'[t].lease = "none" /\ rows'[t].failure = "none"
      /\ rows'[t].attempt = rows[t].attempt /\ rows'[t].message = rows[t].message
      /\ rows'[t].chapter = rows[t].chapter /\ rows'[t].self = rows[t].self
      /\ rows'[t].revision = rows[t].revision
      /\ rows'[t].sequence = number /\ rows'[t].answer = Answer(w)
  <2>1. rows'[t] \in StoredRows
    <3>1. [rows[t] EXCEPT !.status = "completed", !.lease = "none", !.failure = "none",
                          !.sequence = number, !.answer = Answer(w)] \in StoredRows
      BY <1>2, <1>3, <1>4, CompletedTyped, Zenon
    <3> QED
      BY <3>1, <1>5, Zenon
  <2>2. /\ rows'[t].status = "completed" /\ rows'[t].lease = "none" /\ rows'[t].failure = "none"
        /\ rows'[t].sequence = number /\ rows'[t].answer = Answer(w)
    BY <1>2, <1>5 DEF StoredRows
  <2>3. /\ rows'[t].attempt = rows[t].attempt /\ rows'[t].message = rows[t].message
        /\ rows'[t].chapter = rows[t].chapter /\ rows'[t].self = rows[t].self
        /\ rows'[t].revision = rows[t].revision
    BY <1>2, <1>5 DEF StoredRows
  <2> QED
    BY <2>1, <2>2, <2>3
<1>7. rows' \in [TurnIds -> StoredRows] /\ \A u \in TurnIds \ {t} : rows'[u] = rows[u]
  BY <1>2, <1>6 DEF Commits, TypeInv, RowsTyped
<1>8. InProgress(t) /\ rows[t].attempt = req[w].attempt /\ rows[t].revision = req[w].revision
  BY <1>1 DEF Committable, Fenced
<1>9. Constrained(rows'[t])
  BY <1>2, <1>6, <1>8 DEF Constrained, Completed, InProgress
<1> QED
  BY <1>1, <1>2, <1>3, <1>4, <1>6, <1>7, <1>8, <1>9

LEMMA TypeInit == Init => TypeInv /\ NumberInv
<1> SUFFICES ASSUME Init PROVE TypeInv /\ NumberInv
  OBVIOUS
<1>1. TypeInv
  BY NullsTyped, Assumptions
     DEF Init, TypeInv, RowsTyped, WorkersTyped, OthersTyped, Revisions, Labels
<1>2. Counted = {} /\ \A t \in TurnIds : rows[t].sequence = 0
  BY NullsTyped DEF Init, Counted, Completed
<1>3. Cardinality(Counted) = 0
  BY <1>2, FS_EmptySet
<1>4. {0} \cup {rows[t].sequence : t \in TurnIds} = 0 .. 0
  BY <1>2
<1> QED
  BY <1>1, <1>2, <1>3, <1>4 DEF NumberInv

LEMMA RowsStepTyped == ASSUME TypeInv, NumberInv, [Next]_vars PROVE RowsTyped'
<1>1. ASSUME NEW w \in Workers, Begins(w) PROVE RowsTyped'
  <2>1. \A t \in TurnIds : Constrained(rows'[t])
    BY <1>1, BeginsRow, RowTyped
  <2> QED
    BY <1>1, <2>1, BeginsRow DEF RowsTyped
<1>2. ASSUME NEW w \in Workers, Commits(w) PROVE RowsTyped'
  <2>1. \A t \in TurnIds : Constrained(rows'[t])
    BY <1>2, CommitsRow, RowTyped
  <2> QED
    BY <1>2, <2>1, CommitsRow DEF RowsTyped
<1> QED
  BY <1>1, <1>2, RowSteps, PassingTyped

\* A final answer is one of the stored ones.
LEMMA FinalTyped ==
  ASSUME TypeInv, NEW w \in Workers, pc[w] # "idle", NEW answer \in Answers
  PROVE  Final(w, answer) \in [id : TurnIds, message : Messages, chapter : Chapters, answer : Answers]
  BY BusyTyped DEF Final, Reqs

LEMMA ToldTyped ==
  ASSUME TypeInv, NumberInv, NEW w \in Workers, ReadReplay(w) \/ Commit(w) PROVE OthersTyped'
<1>1. CASE ReadReplay(w)
  <2>1. rows[req[w].id].answer \in Answers
    BY <1>1, BusyTyped DEF ReadReplay, StoredRows
  <2> QED
    BY <1>1, <2>1, FinalTyped DEF ReadReplay, TypeInv, OthersTyped
<1>2. CASE Commit(w)
  <2>1. Answer(w) \in Answers
    BY <1>2, BusyTyped DEF Commit, Answer, Answers, Reqs
  <2> QED
    BY <1>2, <2>1, FinalTyped DEF Commit, TypeInv, OthersTyped
<1> QED
  BY <1>1, <1>2

LEMMA TypeStep == TypeInv /\ NumberInv /\ [Next]_vars => TypeInv'
<1> SUFFICES ASSUME TypeInv, NumberInv, [Next]_vars PROVE WorkersTyped' /\ OthersTyped'
  BY RowsStepTyped DEF TypeInv
<1>1. ASSUME NEW w \in Workers, WorkerStep(w) PROVE OthersTyped'
  BY <1>1, ToldTyped
     DEF WorkerStep, ReadContext, ReadRevision, Insert, SupersedeForInsert, SupersedeForReclaim,
         Supersede, ReadRow, Reclaim, CheckClaim, LeaseLost, BuildPrompt, Generate, Recheck,
         FailTurn, TypeInv, OthersTyped
<1>2. ASSUME NEW w \in Workers, Heartbeat(w) PROVE WorkersTyped' /\ OthersTyped'
  <2>1. pc[w] # "idle" /\ pc[w] \in Labels
    BY <1>2 DEF Heartbeat, Leased, Labels
  <2>2. CASE req' = [req EXCEPT ![w].lost = TRUE]
    BY <1>2, <2>1, <2>2, LocalsTyped, BusyTyped DEF Heartbeat, TypeInv, OthersTyped, WorkersTyped
  <2> QED
    BY <1>2, <2>2 DEF Heartbeat, TypeInv, OthersTyped, WorkersTyped
<1>3. ASSUME NEW w \in Workers, Crash(w) PROVE WorkersTyped' /\ OthersTyped'
  BY <1>3, LeaveTyped DEF Crash, TypeInv, OthersTyped
<1>4. ASSUME NEW w \in Workers, NEW t \in TurnIds, Request(w, t) PROVE WorkersTyped' /\ OthersTyped'
  <2>1. PICK m \in Messages : req' = [req EXCEPT ![w] = [NoReq EXCEPT !.id = t, !.message = m]]
    BY <1>4 DEF Request
  <2> DEFINE r == [NoReq EXCEPT !.id = t, !.message = m]
  <2>2. r \in Reqs /\ r.id = t
    BY NullsTyped DEF Reqs
  <2>3. req' = [req EXCEPT ![w] = r]
    BY <2>1
  <2> HIDE DEF r
  <2> QED
    BY <1>4, <2>2, <2>3, WorkerMoves DEF Request, TypeInv, OthersTyped, Labels
<1>5. CASE \/ \E t \in TurnIds : ExpireLease(t)
           \/ ReaderMoves \/ WorldMoves \/ UNCHANGED vars
  <2>1. revision' \in Revisions
    BY <1>5, Assumptions
       DEF TypeInv, OthersTyped, ExpireLease, ReaderMoves, WorldMoves, vars, Revisions
  <2> QED
    BY <1>5, <2>1
       DEF TypeInv, OthersTyped, WorkersTyped, ExpireLease, ReaderMoves, WorldMoves, vars
<1> QED
  BY <1>1, <1>2, <1>3, <1>4, <1>5, WorkerStepTyped DEF Next

\* A commit under the reader's own identity takes the number after the last one.
LEMMA NumberStep == TypeInv /\ NumberInv /\ [Next]_vars => NumberInv'
<1> SUFFICES ASSUME TypeInv, NumberInv, [Next]_vars PROVE NumberInv'
  OBVIOUS
<1>1. ASSUME \A t \in TurnIds : rows'[t].sequence = rows[t].sequence, Counted' = Counted
      PROVE  NumberInv'
  BY <1>1 DEF NumberInv
<1>2. CASE Passing
  <2>1. Counted' = Counted
    BY <1>2, PassingKeeps DEF Counted
  <2> QED
    BY <1>1, <1>2, <2>1, PassingKeeps
<1>3. ASSUME NEW w \in Workers, Begins(w) PROVE NumberInv'
  <2> DEFINE t == req[w].id
  <2>1. /\ t \in TurnIds /\ ~Completed(t) /\ rows'[t].status = "in_progress"
        /\ rows'[t].sequence = rows[t].sequence \/ rows'[t].sequence = 0
        /\ \A u \in TurnIds \ {t} : rows'[u] = rows[u]
    BY <1>3, BeginsRow
  <2>2. rows[t].sequence = 0
    BY <2>1 DEF NumberInv, Counted
  <2>3. Counted' = Counted
    BY <2>1 DEF Counted, Completed
  <2>4. \A u \in TurnIds : rows'[u].sequence = rows[u].sequence
    BY <2>1, <2>2
  <2> QED
    BY <1>1, <2>3, <2>4
<1>4. ASSUME NEW w \in Workers, Commits(w) PROVE NumberInv'
  <2> DEFINE t == req[w].id
             n == Cardinality(Counted)
  <2>1. /\ t \in TurnIds /\ InProgress(t) /\ rows'[t].status = "completed"
        /\ rows'[t].self = rows[t].self
        /\ rows'[t].sequence = IF rows[t].self THEN n + 1 ELSE 0
        /\ \A u \in TurnIds \ {t} : rows'[u] = rows[u]
    BY <1>4, CommitsRow
  <2>2. t \notin Counted /\ rows[t].sequence = 0
    BY <2>1 DEF NumberInv, Counted, Completed, InProgress
  <2>3. CASE ~rows[t].self
    <3>1. Counted' = Counted
      BY <2>1, <2>2, <2>3 DEF Counted, Completed
    <3> QED
      BY <1>1, <2>1, <2>2, <2>3, <3>1
  <2>4. CASE rows[t].self
    <3>1. Counted' = Counted \cup {t}
      BY <2>1, <2>4 DEF Counted, Completed
    <3>2. Cardinality(Counted') = n + 1 /\ n \in Nat
      BY <2>2, <3>1, CountedFinite, FS_AddElement
    <3> HIDE DEF n, t
    <3>3. {0} \cup {rows[u].sequence : u \in TurnIds} = 0 .. n
      BY DEF NumberInv, n
    <3>4. {0} \cup {rows'[u].sequence : u \in TurnIds}
            = ({0} \cup {rows[u].sequence : u \in TurnIds}) \cup {n + 1}
      BY <2>1, <2>2, <2>4
    <3>5. {0} \cup {rows'[u].sequence : u \in TurnIds} = 0 .. n + 1
      BY <3>2, <3>3, <3>4
    <3>6. \A u \in TurnIds : rows'[u].sequence = 0 <=> u \notin Counted'
      BY <2>1, <2>4, <3>1, <3>2 DEF NumberInv
    <3> QED
      BY <3>2, <3>5, <3>6 DEF NumberInv
  <2> QED
    BY <2>3, <2>4
<1> QED
  BY <1>2, <1>3, <1>4, RowSteps

------------------------------------------------------------------------------
(***************************************************************************)
(* How a worker comes where it is.                                         *)
(***************************************************************************)
SameRequest(w) ==
    /\ req'[w].id = req[w].id /\ req'[w].attempt = req[w].attempt
    /\ req'[w].message = req[w].message /\ req'[w].chapter = req[w].chapter
    /\ req'[w].revision = req[w].revision /\ req'[w].saw = req[w].saw

\* Nothing but a claim leads to one.
HoldsOn(w) ==
    pc'[w] \in Holding =>
        \/ Begins(w)
        \/ pc[w] \in Holding /\ req'[w].id = req[w].id /\ req'[w].attempt = req[w].attempt

\* A request is compared with its row where it claims, or before it reclaims.
ComparesOn(w) ==
    pc'[w] \in Compared =>
        \/ Begins(w)
        \/ /\ pc[w] \in Compared \/ (pc[w] = "read" /\ Selected(w) /\ rows' = rows)
           /\ req'[w].id = req[w].id /\ req'[w].message = req[w].message

\* A worker streams for the chapter its claim was checked for.
LeasesOn(w) ==
    pc'[w] \in Leased =>
        \/ /\ pc[w] \in Leased
           /\ req'[w].id = req[w].id /\ req'[w].chapter = req[w].chapter
        \/ pc[w] = "check" /\ ~OtherChapter(w) /\ SameRequest(w) /\ rows' = rows

\* It goes on with the prompt it has built.
PromptsOn(w) ==
    pc'[w] \in Prompted =>
        \/ pc[w] \in Prompted /\ SameRequest(w)
        \/ /\ rows' = rows /\ req'[w].id = req[w].id /\ req'[w].attempt = req[w].attempt
           /\ req'[w].saw = {t \in TurnIds : Completed(t)}

GoesOn(w) == HoldsOn(w) /\ ComparesOn(w) /\ LeasesOn(w) /\ PromptsOn(w)

LEMMA StaysOn ==
  ASSUME NEW w \in Workers, pc'[w] = pc[w], SameRequest(w) PROVE GoesOn(w)
  BY DEF GoesOn, HoldsOn, ComparesOn, LeasesOn, PromptsOn, SameRequest

\* Where nothing is held or compared, there is nothing to keep.
LEMMA LeavesOn ==
  ASSUME NEW w \in Workers, pc'[w] \notin Holding \cup Compared PROVE GoesOn(w)
  BY DEF GoesOn, HoldsOn, ComparesOn, LeasesOn, PromptsOn, Holding, Compared, Prompted, Leased

LEMMA GotoGoes ==
  ASSUME TypeInv, NEW w \in Workers, NEW label, Goto(w, label) PROVE pc'[w] = label /\ SameRequest(w)
  BY DEF TypeInv, WorkersTyped, Goto, SameRequest

LEMMA LeaveGoes == ASSUME TypeInv, NEW w \in Workers, Leave(w) PROVE GoesOn(w)
<1>1. pc'[w] = "idle"
  BY DEF Leave, TypeInv, WorkersTyped
<1> QED
  BY <1>1, LeavesOn DEF Holding, Compared, Leased

LEMMA RetryGoes ==
  ASSUME TypeInv, NEW w \in Workers, NEW label \in {"insert", "read"}, Retry(w, label) PROVE GoesOn(w)
<1>1. pc'[w] \in {"idle", "insert", "read"}
  BY DEF Retry, Leave, TypeInv, WorkersTyped
<1> QED
  BY <1>1, LeavesOn DEF Holding, Compared, Leased

LEMMA AbandonGoes ==
  ASSUME TypeInv, NEW w \in Workers, pc[w] \in Holding, NEW label \in {"fail", "reject"},
         Abandon(w, label)
  PROVE  GoesOn(w)
<1>1. pc'[w] = label
  BY DEF Abandon, TypeInv, WorkersTyped
<1>2. req'[w] = [NoReq EXCEPT !.id = req[w].id, !.attempt = req[w].attempt]
  BY DEF Abandon, TypeInv, WorkersTyped
<1>3. req'[w].id = req[w].id /\ req'[w].attempt = req[w].attempt
  BY <1>2, NullsTyped DEF Reqs
<1> QED
  BY <1>1, <1>3 DEF GoesOn, HoldsOn, ComparesOn, LeasesOn, PromptsOn, Compared, Prompted, Leased

LEMMA WorkerGoes == ASSUME TypeInv, NEW w \in Workers, WorkerStep(w) PROVE GoesOn(w)
<1>1. CASE ReadContext(w) \/ ReadRevision(w)
  <2>1. pc'[w] \in {"idle", "revision", "insert"}
    BY <1>1 DEF ReadContext, ReadRevision, Leave, TypeInv, WorkersTyped
  <2> QED
    BY <2>1, LeavesOn DEF Holding, Compared, Leased
<1>2. CASE Insert(w)
  <2>1. CASE rows' = rows
    <3>1. pc'[w] \in {"read", "supersede_insert", "check"}
      BY <1>2 DEF Insert, Goto, TypeInv, WorkersTyped
    <3>2. CASE pc'[w] = "check"
      BY <1>2, <2>1, <3>2 DEF Insert, Goto, TypeInv, WorkersTyped, Begins, GoesOn, HoldsOn,
                              ComparesOn, LeasesOn, PromptsOn, Prompted, Leased
    <3> QED
      BY <3>1, <3>2, LeavesOn DEF Holding, Compared, Leased
  <2>2. CASE rows' # rows
    <3>1. Begins(w) /\ pc'[w] = "check"
      BY <1>2, <2>2 DEF Insert, TypeInv, WorkersTyped, Begins
    <3> QED
      BY <3>1 DEF GoesOn, HoldsOn, ComparesOn, LeasesOn, PromptsOn, Prompted, Leased
  <2> QED
    BY <2>1, <2>2
<1>3. CASE SupersedeForInsert(w) \/ SupersedeForReclaim(w)
  BY <1>3, RetryGoes, LeaveGoes DEF SupersedeForInsert, SupersedeForReclaim, Supersede
<1>4. CASE ReadReplay(w)
  BY <1>4, LeaveGoes DEF ReadReplay
<1>5. CASE ReadRow(w)
  <2>1. CASE Selected(w)
    <3>1. pc[w] = "read" /\ rows' = rows /\ pc'[w] = "reclaim" /\ req[w] \in Reqs
          /\ req'[w] = [req[w] EXCEPT !.attempt = rows[req[w].id].attempt]
      BY <1>5, <2>1 DEF ReadRow, TypeInv, WorkersTyped
    <3>2. req'[w].id = req[w].id /\ req'[w].message = req[w].message
      BY <3>1 DEF Reqs
    <3> QED
      BY <2>1, <3>1, <3>2
         DEF GoesOn, HoldsOn, ComparesOn, LeasesOn, PromptsOn, Holding, Prompted, Leased
  <2> QED
    BY <1>5, <2>1, LeaveGoes DEF ReadRow
<1>6. CASE Reclaim(w)
  <2>1. CASE Retry(w, "read")
    BY <2>1, RetryGoes
  <2>2. CASE Goto(w, "supersede_reclaim")
    BY <1>6, <2>2, GotoGoes
       DEF Reclaim, GoesOn, HoldsOn, ComparesOn, LeasesOn, PromptsOn, Holding, Compared, Prompted,
           Leased, SameRequest
  <2>3. CASE ~Retry(w, "read") /\ ~Goto(w, "supersede_reclaim")
    <3>1. /\ Reclaimable(w) /\ ~ActiveElsewhere(req[w].id)
          /\ rows[req[w].id].attempt < MaxAttempt
          /\ rows' = [rows EXCEPT ![req[w].id] = Reclaimed(w)]
          /\ req' = [req EXCEPT ![w].attempt = @ + 1] /\ pc' = [pc EXCEPT ![w] = "check"]
      BY <1>6, <2>3 DEF Reclaim, Reclaimed
    <3>2. Begins(w) /\ pc'[w] = "check"
      BY <1>6, <3>1 DEF TypeInv, WorkersTyped, Begins
    <3> QED
      BY <3>2 DEF GoesOn, HoldsOn, ComparesOn, LeasesOn, PromptsOn, Prompted, Leased
  <2> QED
    BY <2>1, <2>2, <2>3
<1>7. CASE CheckClaim(w)
  <2>1. CASE Goto(w, "prompt") /\ ~OtherChapter(w)
    BY <1>7, <2>1, GotoGoes
       DEF CheckClaim, GoesOn, HoldsOn, ComparesOn, LeasesOn, PromptsOn, Holding, Compared,
           Prompted, SameRequest
  <2> QED
    BY <1>7, <2>1, AbandonGoes DEF CheckClaim, Holding
<1>8. CASE LeaseLost(w)
  BY <1>8, AbandonGoes DEF LeaseLost, Holding
<1>9. CASE BuildPrompt(w)
  <2>1. pc'[w] = "generate" /\ req[w] \in Reqs /\ rows' = rows /\ pc[w] = "prompt"
        /\ req'[w] = [req[w] EXCEPT !.saw = {t \in TurnIds : Completed(t)}]
    BY <1>9 DEF BuildPrompt, TypeInv, WorkersTyped
  <2>2. /\ req'[w].id = req[w].id /\ req'[w].attempt = req[w].attempt
        /\ req'[w].message = req[w].message /\ req'[w].chapter = req[w].chapter
        /\ req'[w].saw = {t \in TurnIds : Completed(t)}
    BY <2>1 DEF Reqs
  <2> QED
    BY <2>1, <2>2 DEF GoesOn, HoldsOn, ComparesOn, LeasesOn, PromptsOn, Holding, Compared, Leased,
                      SameRequest
<1>10. CASE Generate(w) \/ Recheck(w)
  <2>1. ASSUME NEW label \in {"recheck", "commit"}, Goto(w, label) PROVE GoesOn(w)
    BY <1>10, <2>1, GotoGoes
       DEF Generate, Recheck, GoesOn, HoldsOn, ComparesOn, LeasesOn, PromptsOn, Holding, Compared,
           Leased, Prompted, SameRequest
  <2> QED
    BY <1>10, <2>1, AbandonGoes DEF Generate, Recheck, Holding, Leased
<1>11. CASE Commit(w)
  BY <1>11, LeaveGoes, AbandonGoes DEF Commit, Holding, Leased
<1>12. CASE FailTurn(w)
  BY <1>12, LeaveGoes DEF FailTurn
<1> QED
  BY <1>1, <1>2, <1>3, <1>4, <1>5, <1>6, <1>7, <1>8, <1>9, <1>10, <1>11, <1>12 DEF WorkerStep

\* The step of one worker is not noticed by another.
LEMMA OthersStay ==
  ASSUME TypeInv, NEW w \in Workers, NEW v \in Workers \ {w}, WorkerStep(v)
  PROVE  pc'[w] = pc[w] /\ req'[w] = req[w]
  BY DEF TypeInv, WorkersTyped, WorkerStep, ReadContext, ReadRevision, Insert, SupersedeForInsert,
         SupersedeForReclaim, Supersede, ReadReplay, ReadRow, Reclaim, CheckClaim, LeaseLost,
         BuildPrompt, Generate, Recheck, Commit, FailTurn, Goto, Leave, Abandon, Retry

LEMMA AllGoOn == ASSUME TypeInv, [Next]_vars, NEW w \in Workers PROVE GoesOn(w)
<1>1. ASSUME NEW v \in Workers, WorkerStep(v) PROVE GoesOn(w)
  BY <1>1, WorkerGoes, OthersStay, StaysOn DEF SameRequest
<1>2. ASSUME NEW v \in Workers, Heartbeat(v) PROVE GoesOn(w)
  <2>1. pc'[w] = pc[w] /\ (req'[w] = req[w] \/ req'[w] = [req[w] EXCEPT !.lost = TRUE])
    BY <1>2 DEF Heartbeat, TypeInv, WorkersTyped
  <2>2. SameRequest(w)
    BY <2>1 DEF SameRequest, TypeInv, WorkersTyped, Reqs
  <2> QED
    BY <2>1, <2>2, StaysOn
<1>3. ASSUME NEW v \in Workers, Crash(v) PROVE GoesOn(w)
  <2>1. v = w \/ (pc'[w] = pc[w] /\ req'[w] = req[w])
    BY <1>3 DEF Crash, Leave, TypeInv, WorkersTyped
  <2> QED
    BY <1>3, <2>1, LeaveGoes, StaysOn DEF SameRequest, Crash
<1>4. ASSUME NEW v \in Workers, NEW t \in TurnIds, Request(v, t) PROVE GoesOn(w)
  <2>1. pc'[w] = "context" \/ (pc'[w] = pc[w] /\ req'[w] = req[w])
    BY <1>4 DEF Request, TypeInv, WorkersTyped
  <2> QED
    BY <2>1, LeavesOn, StaysOn DEF SameRequest, Holding, Compared, Leased
<1> QED
  BY <1>1, <1>2, <1>3, <1>4, StaysOn
     DEF Next, ExpireLease, ReaderMoves, WorldMoves, vars, SameRequest

------------------------------------------------------------------------------
(***************************************************************************)
(* Claims.                                                                 *)
(***************************************************************************)
\* What a row is of, and who may have claimed it, lasts whatever happens.
LEMMA RowKeeps ==
  ASSUME TypeInv, NumberInv, [Next]_vars, NEW t \in TurnIds
  PROVE  /\ rows[t].attempt \in Nat /\ rows'[t].attempt \in Nat
         /\ rows[t].attempt <= rows'[t].attempt
         /\ rows[t].status # "absent" =>
              /\ rows'[t].status # "absent"
              /\ rows'[t].message = rows[t].message /\ rows'[t].chapter = rows[t].chapter
<1>1. rows[t].attempt \in Nat
  BY RowTyped, Assumptions DEF StoredRows
<1>2. CASE Passing
  BY <1>1, <1>2, PassingKeeps
<1>3. ASSUME NEW w \in Workers, Begins(w), t = req[w].id
      PROVE  rows'[t].attempt = rows[t].attempt + 1 /\ rows'[t].status # "absent"
             /\ (rows[t].status # "absent" =>
                   rows'[t].message = rows[t].message /\ rows'[t].chapter = rows[t].chapter)
  BY <1>3, BeginsRow
<1>4. ASSUME NEW w \in Workers, Begins(w), t # req[w].id PROVE rows'[t] = rows[t]
  BY <1>4, BeginsRow
<1>5. ASSUME NEW w \in Workers, Commits(w)
      PROVE  rows'[t].attempt = rows[t].attempt
             /\ rows'[t].message = rows[t].message /\ rows'[t].chapter = rows[t].chapter
             /\ (rows[t].status # "absent" => rows'[t].status # "absent")
  BY <1>5, CommitsRow
<1> QED
  BY <1>1, <1>2, <1>3, <1>4, <1>5, RowSteps

\* The claim that begins is a new one.
LEMMA ClaimIsNew ==
  ASSUME TypeInv, NumberInv, ClaimInv, [Next]_vars, NEW w \in Workers, Begins(w),
         NEW v \in Workers \ {w}, pc'[v] \in Holding, req'[v].id = req'[w].id
  PROVE  req'[v].attempt # req'[w].attempt
<1> DEFINE t == req[w].id
<1>1. t \in TurnIds /\ req'[w].id = t /\ req'[w].attempt = rows[t].attempt + 1
  BY BeginsRow
<1>2. pc'[v] = pc[v] /\ req'[v] = req[v]
  BY OthersStay DEF Begins, WorkerStep
<1>3. req[v].attempt \in 1 .. rows[t].attempt /\ rows[t].attempt \in Nat
  BY <1>1, <1>2, RowKeeps DEF ClaimInv
<1> QED
  BY <1>1, <1>2, <1>3

LEMMA ClaimStep == TypeInv /\ NumberInv /\ ClaimInv /\ [Next]_vars => ClaimInv'
<1> SUFFICES ASSUME TypeInv, NumberInv, ClaimInv, [Next]_vars PROVE ClaimInv'
  OBVIOUS
<1>1. ASSUME NEW w \in Workers, pc'[w] \in Holding
      PROVE  req'[w].attempt \in 1 .. rows'[req'[w].id].attempt
  <2>1. CASE Begins(w)
    <3>1. /\ req'[w].id \in TurnIds /\ req'[w].attempt = rows'[req'[w].id].attempt
          /\ req'[w].attempt = rows[req'[w].id].attempt + 1
      BY <2>1, BeginsRow
    <3> QED
      BY <3>1, RowKeeps
  <2>2. CASE pc[w] \in Holding /\ req'[w].id = req[w].id /\ req'[w].attempt = req[w].attempt
    <3>1. req[w].id \in TurnIds
      BY <2>2, BusyTyped DEF Holding, Leased
    <3>2. req[w].attempt \in 1 .. rows[req[w].id].attempt
      BY <2>2 DEF ClaimInv
    <3> QED
      BY <2>2, <3>1, <3>2, RowKeeps
  <2> QED
    BY <1>1, <2>1, <2>2, AllGoOn DEF GoesOn, HoldsOn
<1>2. ASSUME NEW w \in Workers, NEW v \in Workers, pc'[w] \in Holding, pc'[v] \in Holding,
             req'[w].id = req'[v].id, req'[w].attempt = req'[v].attempt
      PROVE  w = v
  <2>1. CASE Begins(w) \/ Begins(v)
    BY <1>2, <2>1, ClaimIsNew
  <2>2. CASE ~Begins(w) /\ ~Begins(v)
    <3>1. /\ pc[w] \in Holding /\ req'[w].id = req[w].id /\ req'[w].attempt = req[w].attempt
          /\ pc[v] \in Holding /\ req'[v].id = req[v].id /\ req'[v].attempt = req[v].attempt
      BY <1>2, <2>2, AllGoOn DEF GoesOn, HoldsOn
    <3> QED
      BY <1>2, <3>1 DEF ClaimInv
  <2> QED
    BY <2>1, <2>2
<1>3. ASSUME NEW t \in TurnIds, NEW u \in TurnIds,
             rows'[t].status = "in_progress", rows'[u].status = "in_progress"
      PROVE  t = u
  <2>1. CASE Passing
    BY <1>3, <2>1, PassingKeeps DEF ClaimInv, InProgress
  <2>2. ASSUME NEW w \in Workers, Begins(w) PROVE t = u
    <3>1. ~ActiveElsewhere(req[w].id) /\ req[w].id \in TurnIds
          /\ \A x \in TurnIds \ {req[w].id} : rows'[x] = rows[x]
      BY <2>2, BeginsRow DEF Begins
    <3>2. \A x \in TurnIds \ {req[w].id} : rows'[x].status # "in_progress"
      BY <3>1 DEF ActiveElsewhere, InProgress
    <3> QED
      BY <1>3, <3>2
  <2>3. ASSUME NEW w \in Workers, Commits(w) PROVE t = u
    BY <1>3, <2>3, CommitsRow DEF ClaimInv, InProgress
  <2> QED
    BY <2>1, <2>2, <2>3, RowSteps
<1> QED
  BY <1>1, <1>2, <1>3 DEF ClaimInv, InProgress

------------------------------------------------------------------------------
(***************************************************************************)
(* Requests and their answers.                                             *)
(***************************************************************************)
\* The client is given an answer by a replay or a commit.
LEMMA ToldSteps ==
  ASSUME TypeInv, [Next]_vars
  PROVE  \/ told' = told
         \/ \E w \in Workers :
              /\ ReadReplay(w) /\ rows[req[w].id].chapter <= req[w].chapter
              /\ told' = told \cup {Final(w, rows[req[w].id].answer)}
         \/ \E w \in Workers : Commits(w) /\ told' = told \cup {Final(w, Answer(w))}
<1>1. ASSUME NEW w \in Workers, ReadReplay(w) PROVE
        told' = told \/ /\ rows[req[w].id].chapter <= req[w].chapter
                        /\ told' = told \cup {Final(w, rows[req[w].id].answer)}
  BY <1>1 DEF ReadReplay
<1>2. ASSUME NEW w \in Workers, Commit(w) PROVE
        told' = told \/ (Commits(w) /\ told' = told \cup {Final(w, Answer(w))})
  <2>1. CASE Committable(w) /\ told' # told
    <3>1. pc[w] # "idle" /\ req[w].id \in TurnIds
      BY <1>2, BusyTyped DEF Commit
    <3>2. told' = told \cup {Final(w, Answer(w))}
      BY <1>2, <2>1 DEF Commit
    <3>3. rows' = [rows EXCEPT ![req[w].id] = Committed(w)]
      BY <1>2, <2>1, <3>1 DEF Commit, Committed, TypeInv, RowsTyped
    <3> QED
      BY <1>2, <2>1, <3>2, <3>3 DEF Commits
  <2> QED
    BY <1>2, <2>1 DEF Commit
<1>3. ASSUME NEW w \in Workers, WorkerStep(w), ~ReadReplay(w), ~Commit(w) PROVE told' = told
  BY <1>3 DEF WorkerStep, ReadContext, ReadRevision, Insert, SupersedeForInsert,
              SupersedeForReclaim, Supersede, ReadRow, Reclaim, CheckClaim, LeaseLost,
              BuildPrompt, Generate, Recheck, FailTurn
<1>4. CASE told' # told
  <2>1. PICK w \in Workers : WorkerStep(w)
    BY <1>4 DEF Next, vars, Heartbeat, Crash, Request, ExpireLease, ReaderMoves, WorldMoves
  <2> QED
    BY <1>1, <1>2, <1>3, <1>4, <2>1
<1> QED
  BY <1>4

LEMMA RequestStep == TypeInv /\ NumberInv /\ RequestInv /\ [Next]_vars => RequestInv'
<1> SUFFICES ASSUME TypeInv, NumberInv, RequestInv, [Next]_vars PROVE RequestInv'
  OBVIOUS
<1>1. ASSUME NEW w \in Workers, pc'[w] \in Compared
      PROVE  rows'[req'[w].id].status # "absent" /\ rows'[req'[w].id].message = req'[w].message
  <2>1. CASE Begins(w)
    <3> DEFINE t == req[w].id
    <3>1. /\ t \in TurnIds /\ req'[w].id = t /\ req'[w].message = req[w].message
          /\ rows'[t].status = "in_progress"
          /\ rows'[t].message = req[w].message \/ pc[w] = "reclaim"
      BY <2>1, BeginsRow
    <3>2. pc[w] = "reclaim" => rows[t].status # "absent" /\ rows[t].message = req[w].message
      BY DEF RequestInv, Compared
    <3> QED
      BY <3>1, <3>2, RowKeeps
  <2>2. CASE pc[w] \in Compared /\ req'[w].id = req[w].id /\ req'[w].message = req[w].message
    <3>1. req[w].id \in TurnIds
      BY <2>2, BusyTyped DEF Compared, Leased
    <3>2. rows[req[w].id].status # "absent" /\ rows[req[w].id].message = req[w].message
      BY <2>2 DEF RequestInv
    <3> QED
      BY <2>2, <3>1, <3>2, RowKeeps
  <2>3. CASE /\ Selected(w) /\ rows' = rows
             /\ req'[w].id = req[w].id /\ req'[w].message = req[w].message
    BY <2>3 DEF Selected, Expired, InProgress
  <2> QED
    BY <1>1, <2>1, <2>2, <2>3, AllGoOn DEF GoesOn, ComparesOn
<1>2. ASSUME NEW w \in Workers, pc'[w] \in Leased PROVE rows'[req'[w].id].chapter = req'[w].chapter
  <2>1. CASE pc[w] \in Leased /\ req'[w].id = req[w].id /\ req'[w].chapter = req[w].chapter
    <3>1. req[w].id \in TurnIds
      BY <2>1, BusyTyped DEF Leased
    <3>2. rows[req[w].id].status # "absent" /\ rows[req[w].id].chapter = req[w].chapter
      BY <2>1 DEF RequestInv, Compared
    <3> QED
      BY <2>1, <3>1, <3>2, RowKeeps
  <2>2. CASE ~OtherChapter(w) /\ SameRequest(w) /\ rows' = rows
    BY <2>2 DEF OtherChapter, SameRequest
  <2> QED
    BY <1>2, <2>1, <2>2, AllGoOn DEF GoesOn, LeasesOn
<1>3. ASSUME NEW e \in told
      PROVE  /\ rows'[e.id].status # "absent"
             /\ rows'[e.id].message = e.message /\ rows'[e.id].chapter <= e.chapter
  <2>1. e.id \in TurnIds
    BY DEF TypeInv, OthersTyped
  <2>2. rows[e.id].status # "absent" /\ rows[e.id].message = e.message /\ rows[e.id].chapter <= e.chapter
    BY DEF RequestInv, AnswersTheRequest
  <2> QED
    BY <2>1, <2>2, RowKeeps
<1>4. ASSUME NEW w \in Workers, NEW answer, rows[req[w].id].status # "absent", pc[w] # "idle",
             rows[req[w].id].message = req[w].message, rows[req[w].id].chapter <= req[w].chapter
      PROVE  LET e == Final(w, answer)
             IN  /\ rows'[e.id].status # "absent"
                 /\ rows'[e.id].message = e.message /\ rows'[e.id].chapter <= e.chapter
  <2>1. req[w].id \in TurnIds
    BY <1>4, BusyTyped
  <2>2. /\ rows'[req[w].id].status # "absent"
        /\ rows'[req[w].id].message = rows[req[w].id].message
        /\ rows'[req[w].id].chapter = rows[req[w].id].chapter
    BY <1>4, <2>1, RowKeeps
  <2> QED
    BY <1>4, <2>2 DEF Final
<1>5. ASSUME NEW e \in told'
      PROVE  /\ rows'[e.id].status # "absent"
             /\ rows'[e.id].message = e.message /\ rows'[e.id].chapter <= e.chapter
  <2>1. ASSUME NEW w \in Workers, ReadReplay(w), rows[req[w].id].chapter <= req[w].chapter,
               e = Final(w, rows[req[w].id].answer)
        PROVE  /\ rows'[e.id].status # "absent"
               /\ rows'[e.id].message = e.message /\ rows'[e.id].chapter <= e.chapter
    BY <1>4, <2>1 DEF ReadReplay, Replayable
  <2>2. ASSUME NEW w \in Workers, Commits(w), e = Final(w, Answer(w))
        PROVE  /\ rows'[e.id].status # "absent"
               /\ rows'[e.id].message = e.message /\ rows'[e.id].chapter <= e.chapter
    <3>1. pc[w] = "commit" /\ rows[req[w].id].status # "absent"
          /\ rows[req[w].id].message = req[w].message /\ rows[req[w].id].chapter = req[w].chapter
      BY <2>2 DEF Commits, Commit, RequestInv, Compared, Leased
    <3>2. req[w].chapter <= req[w].chapter
      BY <3>1, BusyTyped, Assumptions DEF Reqs, Chapters
    <3> QED
      BY <1>4, <2>2, <3>1, <3>2
  <2> QED
    BY <1>3, <1>5, <2>1, <2>2, ToldSteps
<1> QED
  BY <1>1, <1>2, <1>5 DEF RequestInv, AnswersTheRequest

------------------------------------------------------------------------------
(***************************************************************************)
(* The history.                                                            *)
(***************************************************************************)
\* Without a commit the history stays as it is.
LEMMA HistoryWaits ==
  ASSUME TypeInv, NumberInv, Passing \/ \E v \in Workers : Begins(v), NEW t \in TurnIds
  PROVE  /\ rows'[t].status = "completed" <=> rows[t].status = "completed"
         /\ rows[t].status = "completed" =>
              /\ rows'[t].attempt = rows[t].attempt /\ rows'[t].revision = rows[t].revision
              /\ rows'[t].self = rows[t].self /\ rows'[t].sequence = rows[t].sequence
              /\ rows'[t].answer = rows[t].answer
<1>1. CASE Passing
  BY <1>1, PassingKeeps DEF Completed
<1>2. ASSUME NEW v \in Workers, Begins(v)
      PROVE  rows'[t] = rows[t] \/ (rows[t].status # "completed" /\ rows'[t].status = "in_progress")
  BY <1>2, BeginsRow DEF Completed
<1> QED
  BY <1>1, <1>2

\* A claim that stands after a step stood before it, and nothing was committed.
LEMMA ClaimStands ==
  ASSUME TypeInv, NumberInv, ClaimInv, [Next]_vars, NEW w \in Workers, pc[w] \in Holding,
         rows'[req[w].id].status = "in_progress", rows'[req[w].id].attempt = req[w].attempt
  PROVE  Fenced(w) /\ (Passing \/ \E v \in Workers : Begins(v))
<1> DEFINE t == req[w].id
<1>1. t \in TurnIds /\ req[w].attempt <= rows[t].attempt /\ rows[t].attempt \in Nat
      /\ req[w].attempt \in Nat
  <2>1. t \in TurnIds
    BY BusyTyped DEF Holding, Leased
  <2> QED
    BY <2>1, RowKeeps DEF ClaimInv
<1>2. CASE Passing
  BY <1>1, <1>2, PassingKeeps DEF Fenced, InProgress
<1>3. ASSUME NEW v \in Workers, Begins(v) PROVE Fenced(w)
  <2>1. t # req[v].id
    BY <1>1, <1>3, BeginsRow
  <2>2. rows'[t] = rows[t]
    BY <1>1, <1>3, <2>1, BeginsRow
  <2> QED
    BY <2>2 DEF Fenced, InProgress
<1>4. ASSUME NEW v \in Workers, Commits(v) PROVE FALSE
  <2>1. InProgress(req[v].id) /\ rows'[req[v].id].status = "completed" /\ req[v].id \in TurnIds
        /\ \A u \in TurnIds \ {req[v].id} : rows'[u] = rows[u]
    BY <1>4, CommitsRow
  <2>2. InProgress(t)
    BY <1>1, <2>1 DEF InProgress
  <2> QED
    BY <1>1, <2>1, <2>2 DEF ClaimInv
<1> QED
  BY <1>2, <1>3, <1>4, RowSteps

\* Whoever commits has seen every turn committed so far.
LEMMA CommitSawAll ==
  ASSUME TypeInv, NumberInv, HistoryInv, NEW v \in Workers, Commits(v)
  PROVE  LET c == req[v].id
         IN  /\ rows'[c].answer.saw = {t \in TurnIds : Completed(t)}
             /\ rows'[c].answer.attempt = rows'[c].attempt
             /\ rows'[c].answer.revision = rows'[c].revision
<1>1. pc[v] \in Prompted /\ Fenced(v)
  BY DEF Commits, Commit, Committable, Prompted
<1>2. req[v].saw = {t \in TurnIds : Completed(t)}
  BY <1>1 DEF HistoryInv
<1>3. /\ Answer(v).saw = req[v].saw /\ Answer(v).attempt = req[v].attempt
      /\ Answer(v).revision = req[v].revision
  BY DEF Answer
<1> QED
  BY <1>2, <1>3, CommitsRow

LEMMA HistoryStep == TypeInv /\ NumberInv /\ ClaimInv /\ HistoryInv /\ [Next]_vars => HistoryInv'
<1> SUFFICES ASSUME TypeInv, NumberInv, ClaimInv, HistoryInv, [Next]_vars PROVE HistoryInv'
  OBVIOUS
<1>1. ASSUME NEW w \in Workers, pc'[w] \in Prompted, Fenced(w)'
      PROVE  req'[w].saw = {t \in TurnIds : Completed(t)}'
  <2>1. CASE pc[w] \in Prompted /\ SameRequest(w)
    <3>1. /\ rows'[req[w].id].status = "in_progress" /\ rows'[req[w].id].attempt = req[w].attempt
          /\ pc[w] \in Holding
      BY <1>1, <2>1 DEF Fenced, InProgress, SameRequest, Prompted, Holding, Leased
    <3>2. Fenced(w) /\ (Passing \/ \E v \in Workers : Begins(v))
      BY <3>1, ClaimStands
    <3>3. req[w].saw = {t \in TurnIds : Completed(t)}
      BY <2>1, <3>2 DEF HistoryInv
    <3>4. {t \in TurnIds : Completed(t)}' = {t \in TurnIds : Completed(t)}
      BY <3>2, HistoryWaits DEF Completed
    <3> QED
      BY <2>1, <3>3, <3>4 DEF SameRequest
  <2>2. CASE rows' = rows /\ req'[w].saw = {t \in TurnIds : Completed(t)}
    BY <2>2 DEF Completed
  <2> QED
    BY <1>1, <2>1, <2>2, AllGoOn DEF GoesOn, PromptsOn
<1>2. CASE Passing \/ \E v \in Workers : Begins(v)
  <2>1. HistoryIsLinear'
    BY <1>2, HistoryWaits DEF HistoryInv, HistoryIsLinear, Completed
  <2>2. AnswerOfItsClaim'
    BY <1>2, HistoryWaits DEF HistoryInv, AnswerOfItsClaim, Completed
  <2>3. Counted' = Counted
    BY <1>2, HistoryWaits DEF Counted, Completed
  <2>4. \A t, u \in Counted' : rows'[t].sequence < rows'[u].sequence => t \in rows'[u].answer.saw
    BY <1>2, <2>3, HistoryWaits DEF HistoryInv, Counted, Completed
  <2> QED
    BY <1>1, <2>1, <2>2, <2>4 DEF HistoryInv
<1>3. ASSUME NEW v \in Workers, Commits(v) PROVE HistoryInv'
  <2> DEFINE c == req[v].id
  <2>1. /\ c \in TurnIds /\ rows'[c].status = "completed"
        /\ rows'[c].self = rows[c].self
        /\ rows'[c].sequence = IF rows[c].self THEN Cardinality(Counted) + 1 ELSE 0
        /\ \A u \in TurnIds \ {c} : rows'[u] = rows[u]
    BY <1>3, CommitsRow
  <2>2. /\ rows'[c].answer.saw = {t \in TurnIds : Completed(t)}
        /\ rows'[c].answer.attempt = rows'[c].attempt
        /\ rows'[c].answer.revision = rows'[c].revision
    BY <1>3, CommitSawAll
  <2> HIDE DEF c
  <2>3. \A t \in TurnIds \ {c} : rows'[t].status = "completed" => t \in rows'[c].answer.saw
    BY <2>1, <2>2 DEF Completed
  <2>4. HistoryIsLinear'
    BY <2>1, <2>3 DEF HistoryInv, HistoryIsLinear, Completed
  <2>5. AnswerOfItsClaim'
    BY <2>1, <2>2 DEF HistoryInv, AnswerOfItsClaim, Completed
  <2>6. ASSUME NEW t \in Counted', NEW u \in Counted', rows'[t].sequence < rows'[u].sequence
        PROVE  t \in rows'[u].answer.saw
    <3>1. t \in TurnIds /\ u \in TurnIds /\ rows'[t].status = "completed"
          /\ rows'[u].status = "completed" /\ rows'[t].self /\ rows'[u].self
      BY DEF Counted, Completed
    <3>2. Cardinality(Counted) \in Nat
          /\ \A s \in TurnIds : rows[s].sequence \in 0 .. Cardinality(Counted)
      BY CountedFinite DEF NumberInv
    <3>3. t # u
      BY <2>1, <2>6, <3>1, <3>2
    <3>4. CASE t = c
      BY <2>1, <2>6, <3>1, <3>2, <3>3, <3>4
    <3>5. CASE u = c
      BY <2>3, <3>1, <3>3, <3>5
    <3>6. CASE t # c /\ u # c
      BY <2>1, <2>6, <3>1, <3>6 DEF HistoryInv, Counted, Completed
    <3> QED
      BY <3>4, <3>5, <3>6
  <2> QED
    BY <1>1, <2>4, <2>5, <2>6 DEF HistoryInv
<1> QED
  BY <1>2, <1>3, RowSteps

LEMMA ChatInit == Init => ChatInv
<1> SUFFICES ASSUME Init PROVE ClaimInv /\ RequestInv /\ HistoryInv
  BY TypeInit DEF ChatInv
<1>1. /\ \A t \in TurnIds : ~Completed(t) /\ ~InProgress(t)
      /\ \A w \in Workers : pc[w] \notin Holding \cup Compared
      /\ told = {}
  BY NullsTyped DEF Init, Completed, InProgress, Holding, Compared, Leased
<1> QED
  BY <1>1 DEF ClaimInv, RequestInv, HistoryInv, AnswersTheRequest, HistoryIsLinear,
              AnswerOfItsClaim, Counted, Holding, Compared, Prompted, Leased

LEMMA ChatStep == ChatInv /\ [Next]_vars => ChatInv'
  BY TypeStep, NumberStep, ClaimStep, RequestStep, HistoryStep DEF ChatInv

LEMMA ChatInvariant == Spec => []ChatInv
  BY ChatInit, ChatStep, PTL DEF Spec

------------------------------------------------------------------------------
(***************************************************************************)
(* Theorems.                                                               *)
(***************************************************************************)
\* Every variable keeps its type, the constraints of the table hold, and no turn
\* has a number above the number of turns.
THEOREM TypeCorrect == Spec => []TypeOK
<1>1. ASSUME ChatInv PROVE TypeOK
  <2>1. \A t \in TurnIds : rows[t].sequence \in 0 .. Cardinality(TurnIds)
    <3>1. \A t \in TurnIds : rows[t].sequence \in 0 .. Cardinality(Counted)
      BY <1>1 DEF ChatInv, NumberInv
    <3>2. Cardinality(TurnIds) \in Nat
      BY Assumptions, FS_CardinalityType
    <3> QED
      BY <3>1, <3>2, CountedFinite
  <2>2. \A t \in TurnIds : rows[t] \in Rows
    BY <1>1, <2>1, RowTyped DEF ChatInv, StoredRows, Rows
  <2>3. rows \in [TurnIds -> Rows]
    BY <1>1, <2>2 DEF ChatInv, TypeInv, RowsTyped
  <2>4. \A t \in TurnIds : /\ rows[t].lease # "none" <=> InProgress(t)
                           /\ rows[t].failure # "none" <=> rows[t].status = "failed"
    BY <1>1, RowTyped DEF ChatInv, Constrained, InProgress
  <2> QED
    BY <1>1, <2>3, <2>4 DEF ChatInv, TypeInv, WorkersTyped, OthersTyped, TypeOK
<1> QED
  BY <1>1, ChatInvariant, PTL

\* complete_turn: the answers of a scope are one conversation, as of two committed
\* turns one was generated in view of the other.
THEOREM ConversationIsLinear == Spec => []HistoryIsLinear
  BY ChatInvariant, PTL DEF ChatInv, HistoryInv

\* complete_turn: an answer is stored only under the claim and the world revision it
\* was generated for.
THEOREM AnswersAreOfTheirClaim == Spec => []AnswerOfItsClaim
  BY ChatInvariant, PTL DEF ChatInv, HistoryInv

\* complete_turn: the sequence numbers of a scope have no gap and no duplicate, and
\* follow the order in which the turns saw one another.
THEOREM SequenceIsExact == Spec => []SequenceExact
<1>1. ASSUME ChatInv PROVE SequenceExact
  <2> DEFINE n == Cardinality(Counted)
  <2>1. n \in Nat
    BY CountedFinite
  <2>2. {0} \cup {rows[t].sequence : t \in TurnIds} = 0 .. n
        /\ \A t \in TurnIds : rows[t].sequence = 0 <=> t \notin Counted
    BY <1>1 DEF ChatInv, NumberInv
  <2>3. Counted \subseteq TurnIds
    BY DEF Counted
  <2> HIDE DEF n
  <2>4. {rows[t].sequence : t \in Counted} = 1 .. n
    BY <2>1, <2>2, <2>3
  <2>5. \A t, u \in Counted : rows[t].sequence < rows[u].sequence => t \in rows[u].answer.saw
    BY <1>1 DEF ChatInv, HistoryInv
  <2> QED
    BY <2>4, <2>5 DEF SequenceExact, Counted, n
<1> QED
  BY <1>1, ChatInvariant, PTL

\* begin_turn's replay and complete_turn: a final answer belongs to the message that
\* was sent, and to a chapter the reader had reached.
THEOREM AnswersAreForTheirRequest == Spec => []AnswersTheRequest
  BY ChatInvariant, PTL DEF ChatInv, RequestInv

\* begin_turn, complete_turn and fail_turn write no row that is completed or superseded.
THEOREM TerminalRowsStayFinal == Spec => TerminalRowsAreFinal
<1>1. ASSUME ChatInv, [Next]_vars, NEW t \in TurnIds,
             Completed(t) \/ rows[t].failure = "superseded"
      PROVE  rows'[t] = rows[t]
  <2>0. TypeInv /\ NumberInv /\ Constrained(rows[t])
    BY <1>1, RowTyped DEF ChatInv
  <2>1. ~InProgress(t) /\ rows[t].status # "absent"
    BY <1>1, <2>0 DEF Constrained, Completed, InProgress
  <2>2. CASE Passing
    BY <2>1, <2>2 DEF Passing
  <2>3. ASSUME NEW w \in Workers, Begins(w) PROVE rows'[t] = rows[t]
    <3>1. CASE t = req[w].id
      BY <1>1, <2>1, <2>3, <3>1 DEF Begins, Reclaimable, Completed, Expired
    <3> QED
      BY <2>0, <2>3, <3>1, BeginsRow
  <2>4. ASSUME NEW w \in Workers, Commits(w) PROVE rows'[t] = rows[t]
    BY <2>0, <2>1, <2>4, CommitsRow
  <2> QED
    BY <2>0, <1>1, <2>2, <2>3, <2>4, RowSteps
<1>2. ASSUME ChatInv, [Next]_vars
      PROVE  [\A t \in TurnIds :
                Completed(t) \/ rows[t].failure = "superseded" => rows'[t] = rows[t]]_vars
  BY <1>1, <1>2
<1> QED
  BY <1>2, ChatInvariant, PTL DEF Spec, TerminalRowsAreFinal

------------------------------------------------------------------------------
(***************************************************************************)
(* The refinement of Conversation.  A commit replies, a replay repeats, a  *)
(* row that is superseded closes its key, and nothing else is noticed.     *)
(***************************************************************************)
Whole == [t \in Done |-> Said(t)]
Closed == {t \in TurnIds : rows[t].failure = "superseded"}

LEMMA CountsAgree == \A S : Promise!Cardinality(S) = Cardinality(S)
  BY DEF Promise!Cardinality, Cardinality

LEMMA ConversationInit == Init => Promise!Init
<1> SUFFICES ASSUME Init PROVE Promise!Init
  OBVIOUS
<1>1. \A t \in TurnIds : rows[t] = NoRow
  BY DEF Init
<1>2. NoRow.status = "absent" /\ NoRow.failure = "none"
  BY DEF NoRow
<1>3. Done = {} /\ Closed = {} /\ told = {}
  BY <1>1, <1>2 DEF Done, Closed, Completed, Init
<1> QED
  BY <1>3 DEF Promise!Init, Closed

LEMMA ReplyStep ==
  ASSUME ChatInv, ChatInv', NEW w \in Workers, Commits(w)
  PROVE  \E t \in TurnIds \ (Done \cup Closed) : Promise!Reply(t)
<1>1. TypeInv /\ NumberInv /\ RequestInv /\ HistoryInv
  BY DEF ChatInv
<1>t. PICK t \in TurnIds : t = req[w].id
  BY <1>1, CommitsRow
<1>2. /\ t \in TurnIds /\ InProgress(t) /\ rows'[t] \in StoredRows /\ Answer(w) \in Answers
      /\ rows'[t].status = "completed" /\ Constrained(rows[t]) /\ Constrained(rows'[t])
      /\ \A u \in TurnIds \ {t} : rows'[u] = rows[u]
  BY <1>1, <1>t, CommitsRow, RowTyped
<1>3. /\ rows'[t].message = rows[t].message /\ rows'[t].chapter = rows[t].chapter
      /\ rows'[t].self = rows[t].self /\ rows'[t].answer = Answer(w)
      /\ rows'[t].sequence = IF rows[t].self THEN Cardinality(Counted) + 1 ELSE 0
  BY <1>1, <1>t, CommitsRow
<1>4. rows'[t].answer.saw = Done
  BY <1>1, <1>t, CommitSawAll DEF Done
<1>5. rows[t].message = req[w].message /\ rows[t].chapter = req[w].chapter
  BY <1>1, <1>t DEF Commits, Commit, RequestInv, Compared, Leased
<1>6. told' = told \/ told' = told \cup {Final(w, Answer(w))}
  BY DEF Commits, Commit
<1>7. t \notin Done \cup Closed
  BY <1>2 DEF Done, Closed, Completed, InProgress, Constrained
<1>8. Done' = Done \cup {t} /\ Closed' = Closed
  BY <1>2, <1>7 DEF Done, Closed, Completed, InProgress, Constrained
<1>9. Whole' = [u \in Done' |-> IF u = t THEN Said(t)' ELSE Whole[u]]
  <2>1. \A u \in Done : Said(u)' = Said(u)
    BY <1>2, <1>7 DEF Said, Done
  <2> QED
    BY <1>7, <1>8, <2>1 DEF Whole
<1>10. Said(t)' \in Promise!Contents
  BY <1>2 DEF Said, StoredRows, Promise!Contents
<1>11. DOMAIN Whole = Done /\ DOMAIN Whole' = Done' /\ Whole'[t] = Said(t)'
  BY <1>8 DEF Whole
<1>12. {u \in Done : Whole[u].self} = Counted
  BY DEF Whole, Said, Done, Counted
<1>13. Final(w, Answer(w)) =
         [id |-> t, message |-> rows'[t].message, chapter |-> rows'[t].chapter,
          answer |-> rows'[t].answer]
  BY <1>3, <1>5, <1>t DEF Final
<1>14. /\ Said(t)'.answer.saw = Done
       /\ Said(t)'.sequence = IF Said(t)'.self THEN Cardinality(Counted) + 1 ELSE 0
       /\ Said(t)'.message = rows'[t].message /\ Said(t)'.chapter = rows'[t].chapter
       /\ Said(t)'.answer = rows'[t].answer
  BY <1>3, <1>4 DEF Said
<1>15. Promise!Reply(t)
  <2> DEFINE said == Whole'[t]
  <2>1. said \in Promise!Contents /\ said.answer.saw = Done
        /\ said.sequence = IF said.self THEN Cardinality(Counted) + 1 ELSE 0
    BY <1>10, <1>11, <1>14
  <2>2. told' = told \/ told' = told \cup {Promise!Final(t, said, said.chapter)}
    BY <1>6, <1>11, <1>13, <1>14 DEF Promise!Final
  <2> HIDE DEF said
  <2>3. Whole' = [u \in Done' |-> IF u = t THEN said ELSE Whole[u]]
    BY <1>9, <1>11 DEF said
  <2> QED
    BY <1>8, <1>11, <1>12, <2>1, <2>2, <2>3, CountsAgree
       DEF Promise!Reply, Promise!Answered, Promise!Own, Whole, Closed, said
<1> QED
  BY <1>2, <1>7, <1>15

LEMMA RepeatStep ==
  ASSUME ChatInv, NEW w \in Workers, ReadReplay(w), rows[req[w].id].chapter <= req[w].chapter,
         told' = told \cup {Final(w, rows[req[w].id].answer)}
  PROVE  \E t \in Done, chapter \in Chapters : Promise!Repeat(t, chapter)
<1> DEFINE t == req[w].id
<1>1. t \in Done /\ rows[t].message = req[w].message /\ rows' = rows /\ req[w].chapter \in Chapters
  BY BusyTyped DEF ChatInv, ReadReplay, Replayable, Done, Completed, Reqs
<1>2. Whole' = Whole /\ Closed' = Closed
  BY <1>1 DEF Whole, Closed, Done, Completed, Said
<1>3. Whole[t] = Said(t)
  BY <1>1 DEF Whole
<1>4. Promise!Final(t, Whole[t], req[w].chapter) = Final(w, rows[t].answer)
  BY <1>1, <1>3 DEF Promise!Final, Final, Said
<1>5. Promise!Repeat(t, req[w].chapter)
  BY <1>1, <1>2, <1>3, <1>4 DEF Promise!Repeat, Whole, Closed, Said
<1> QED
  BY <1>1, <1>5

\* Without a commit nothing is said, and one key at most is closed.
LEMMA QuietStep ==
  ASSUME ChatInv, [Next]_vars, Passing \/ \E w \in Workers : Begins(w)
  PROVE  /\ Whole' = Whole
         /\ Closed' = Closed \/ \E t \in TurnIds \ (Done \cup Closed) : Closed' = Closed \cup {t}
<1>1. TypeInv /\ NumberInv /\ ClaimInv
  BY DEF ChatInv
<1>2. Whole' = Whole
  <2>1. Done' = Done
    BY <1>1, HistoryWaits DEF Done, Completed
  <2>2. \A t \in Done : Said(t)' = Said(t)
    BY <1>1, HistoryWaits, RowKeeps DEF Done, Completed, Said
  <2> QED
    BY <2>1, <2>2 DEF Whole
<1>3. ASSUME NEW w \in Workers, Begins(w) PROVE Closed' = Closed
  <2> DEFINE t == req[w].id
  <2>1. /\ t \in TurnIds /\ rows'[t].status = "in_progress" /\ Constrained(rows'[t])
        /\ \A u \in TurnIds \ {t} : rows'[u] = rows[u]
    BY <1>1, <1>3, BeginsRow
  <2>2. rows[t].failure # "superseded"
    <3>1. Constrained(rows[t])
      BY <1>1, <2>1, RowTyped
    <3> QED
      BY <1>3, <3>1 DEF Begins, Reclaimable, Expired, InProgress, Constrained
  <2> QED
    BY <2>1, <2>2 DEF Closed, Constrained
<1>4. CASE Passing
  <2>1. ASSUME NEW t \in TurnIds, t \in Closed PROVE t \in Closed'
    <3>1. ~InProgress(t)
      BY <1>1, <2>1, RowTyped DEF Closed, Constrained, InProgress
    <3> QED
      BY <1>4, <2>1, <3>1 DEF Passing, Closed
  <2>2. ASSUME NEW t \in TurnIds, t \in Closed' \ Closed PROVE InProgress(t)
    BY <1>4, <2>2 DEF Passing, Closed
  <2>0. Closed \subseteq TurnIds
    BY DEF Closed
  <2>3. CASE Closed' \subseteq Closed
    BY <2>0, <2>1, <2>3
  <2>4. ASSUME NEW t \in Closed' \ Closed PROVE Closed' = Closed \cup {t} /\ t \in TurnIds \ (Done \cup Closed)
    <3>1. t \in TurnIds /\ InProgress(t)
      BY <2>2, <2>4 DEF Closed
    <3>2. \A u \in TurnIds : u \in Closed' \ Closed => u = t
      BY <1>1, <2>2, <3>1 DEF ClaimInv
    <3>3. Closed' \subseteq TurnIds /\ t \notin Done
      BY <3>1 DEF Closed, Done, Completed, InProgress
    <3> QED
      BY <2>0, <2>1, <2>4, <3>1, <3>2, <3>3
  <2> HIDE DEF Closed
  <2> QED
    BY <1>2, <2>3, <2>4
<1> QED
  BY <1>2, <1>3, <1>4

LEMMA ConversationStep ==
  ChatInv /\ ChatInv' /\ [Next]_vars => [Promise!Next]_<<Whole, Closed, told>>
<1> SUFFICES ASSUME ChatInv, ChatInv', [Next]_vars PROVE [Promise!Next]_<<Whole, Closed, told>>
  OBVIOUS
<1>0. TypeInv /\ NumberInv /\ DOMAIN Whole = Done
  BY DEF ChatInv, Whole
<1>1. ASSUME NEW w \in Workers, Commits(w) PROVE Promise!Next
  BY <1>0, <1>1, ReplyStep DEF Promise!Next, Promise!Answered, Whole, Closed
<1>2. CASE ~\E w \in Workers : Commits(w)
  <2>1. Passing \/ \E w \in Workers : Begins(w)
    BY <1>0, <1>2, RowSteps
  <2>2. ASSUME NEW w \in Workers, ReadReplay(w), rows[req[w].id].chapter <= req[w].chapter,
               told' = told \cup {Final(w, rows[req[w].id].answer)}
        PROVE  Promise!Next
    BY <1>0, <2>2, RepeatStep DEF Promise!Next, Promise!Answered, Whole, Closed
  <2>3. CASE told' = told
    <3>1. ASSUME NEW t \in TurnIds \ (Done \cup Closed), Closed' = Closed \cup {t}, Whole' = Whole
          PROVE  Promise!Next
      <4>1. Promise!Close(t)
        BY <2>3, <3>1 DEF Promise!Close, Whole, Closed
      <4> QED
        BY <1>0, <4>1 DEF Promise!Next, Promise!Answered, Whole, Closed
    <3> QED
      BY <2>1, <2>3, <3>1, QuietStep
  <2> QED
    BY <1>0, <1>2, <2>2, <2>3, ToldSteps
<1> QED
  BY <1>1, <1>2

\* begin_turn, complete_turn and fail_turn: whatever the requests of a scope, the
\* crashes and the reclaims, their statements together keep one conversation.
THEOREM ImplementsConversationHolds == Spec => ImplementsConversation
<1>1. Spec => Promise!Init /\ [][Promise!Next]_<<Whole, Closed, told>>
  BY ConversationInit, ConversationStep, ChatInit, ChatStep, PTL DEF Spec
<1> QED
  BY <1>1, PTL DEF ImplementsConversation, Promise!Spec, Whole, Closed
==============================================================================
