------------------------------- MODULE ChatTurn -------------------------------
(***************************************************************************)
(* Chat turns of one (user, character, novel) scope of the agent service:  *)
(* the table chat_turns with the messages each completed row owns, and the *)
(* request handlers that claim a turn, stream an answer and commit it.     *)
(*                                                                         *)
(* begin_turn is not one transaction but a sequence of statements, each an *)
(* action here.  A worker is one service process: its admission lets a     *)
(* user have one chat turn at a time, so its slot is free when it is idle. *)
(***************************************************************************)
EXTENDS Integers, FiniteSets, FiniteSetsExt

CONSTANTS
    TurnIds,        \* idempotency keys a client may use
    NoTurn,         \* the key of an idle worker
    Workers,        \* service processes
    Messages,       \* what a user may say
    MaxChapter,     \* bound: chapters of the novel
    MaxRevision,    \* bound: changes of the player's world
    MaxAttempt,     \* bound: claims of one turn
    MaxTries        \* rounds of begin_turn's two retry loops (2 in the code)

ASSUME Assumptions ==
    /\ IsFiniteSet(TurnIds)
    /\ NoTurn \notin TurnIds
    /\ Messages # {}
    /\ MaxChapter \in Nat \ {0}
    /\ MaxRevision \in Nat
    /\ MaxAttempt \in Nat \ {0}
    /\ MaxTries \in Nat \ {0}

VARIABLES
    rows,      \* chat_turns joined with chat_messages
    reader,    \* reading progress and identity, kept by the novel service
    revision,  \* fingerprint of the player's world, kept by the narrative service
    told,      \* history: final answers the client was given
    pc,        \* where each worker is
    req        \* the locals of each worker's request

vars == <<rows, reader, revision, told, pc, req>>

Chapters == 1 .. MaxChapter
Revisions == 0 .. MaxRevision

\* An answer is known by who generated it, under which claim and world, and by the
\* turns that were committed when its prompt was built.
NoAnswer == [by |-> {}, attempt |-> 0, revision |-> 0, saw |-> {}]

NoRow == [status |-> "absent", attempt |-> 0, failure |-> "none", lease |-> "none",
          message |-> CHOOSE m \in Messages : TRUE, chapter |-> 1, self |-> TRUE,
          revision |-> 0, sequence |-> 0, answer |-> NoAnswer]

NoReq == [id |-> NoTurn, message |-> CHOOSE m \in Messages : TRUE, chapter |-> 1,
          self |-> TRUE, revision |-> 0, player |-> FALSE, tries |-> 0, attempt |-> 0,
          lost |-> FALSE, saw |-> {}]

Leased == {"prompt", "generate", "recheck", "commit"}
Labels == {"idle", "context", "revision", "insert", "supersede_insert", "read", "reclaim",
           "supersede_reclaim", "check", "reject", "fail"} \cup Leased

------------------------------------------------------------------------------
Init ==
    /\ rows = [t \in TurnIds |-> NoRow]
    /\ \E chapter \in Chapters : reader = [chapter |-> chapter, self |-> TRUE]
    /\ revision = 0
    /\ told = {}
    /\ pc = [w \in Workers |-> "idle"]
    /\ req = [w \in Workers |-> NoReq]

Goto(w, label) == pc' = [pc EXCEPT ![w] = label] /\ UNCHANGED req

Leave(w) ==
    /\ pc' = [pc EXCEPT ![w] = "idle"]
    /\ req' = [req EXCEPT ![w] = NoReq]

\* After the claim, giving up records a failure; key and attempt are all it needs.
Abandon(w, label) ==
    /\ pc' = [pc EXCEPT ![w] = label]
    /\ req' = [req EXCEPT ![w] = [NoReq EXCEPT !.id = req[w].id, !.attempt = req[w].attempt]]

InProgress(t) == rows[t].status = "in_progress"
Completed(t) == rows[t].status = "completed"
Expired(t) == InProgress(t) /\ rows[t].lease = "expired"

\* The partial unique index: a second row in progress cannot be written.
ActiveElsewhere(t) == \E u \in TurnIds \ {t} : InProgress(u)

Failed(row, code) == [row EXCEPT !.status = "failed", !.lease = "none", !.failure = code]

------------------------------------------------------------------------------
(***************************************************************************)
(* What the handler reads before it claims.                                *)
(***************************************************************************)
Request(w, t) ==
    /\ pc[w] = "idle"
    /\ \E m \in Messages :
         req' = [req EXCEPT ![w] = [NoReq EXCEPT !.id = t, !.message = m]]
    /\ pc' = [pc EXCEPT ![w] = "context"]
    /\ UNCHANGED <<rows, reader, revision, told>>

\* Persona and reading progress must agree on the chapter, or the request ends.
ReadContext(w) ==
    /\ pc[w] = "context"
    /\ req' = [req EXCEPT ![w].chapter = reader.chapter, ![w].self = reader.self]
    /\ pc' = [pc EXCEPT ![w] = "revision"]
    /\ UNCHANGED <<rows, reader, revision, told>>

\* The world context holds the player's story, if there is any, only for the
\* reader's own identity; together with an adopted one it is refused.
ReadRevision(w) ==
    /\ pc[w] = "revision"
    /\ \E player \in {FALSE, reader.self} :
         IF player /\ ~req[w].self
         THEN Leave(w)
         ELSE /\ req' = [req EXCEPT ![w].revision = revision, ![w].player = player]
              /\ pc' = [pc EXCEPT ![w] = "insert"]
    /\ UNCHANGED <<rows, reader, revision, told>>

------------------------------------------------------------------------------
(***************************************************************************)
(* begin_turn.                                                             *)
(***************************************************************************)
InsertedRow(w) ==
    [NoRow EXCEPT !.status = "in_progress", !.attempt = 1, !.lease = "live",
                  !.message = req[w].message, !.chapter = req[w].chapter,
                  !.self = req[w].self, !.revision = req[w].revision]

Insert(w) ==
    /\ pc[w] = "insert"
    /\ LET t == req[w].id
       IN  \/ /\ rows[t].status # "absent"
              /\ req' = [req EXCEPT ![w].tries = 0]
              /\ pc' = [pc EXCEPT ![w] = "read"]
              /\ UNCHANGED rows
           \/ /\ rows[t].status = "absent"
              /\ ActiveElsewhere(t)
              /\ Goto(w, "supersede_insert")
              /\ UNCHANGED rows
           \/ /\ rows[t].status = "absent"
              /\ ~ActiveElsewhere(t)
              /\ rows' = [rows EXCEPT ![t] = InsertedRow(w)]
              /\ req' = [req EXCEPT ![w].attempt = 1]
              /\ pc' = [pc EXCEPT ![w] = "check"]
    /\ UNCHANGED <<reader, revision, told>>

\* One more round if an expired claim was in the way and rounds are left.
Retry(w, label) ==
    IF req[w].tries + 1 < MaxTries
    THEN /\ req' = [req EXCEPT ![w].tries = @ + 1]
         /\ pc' = [pc EXCEPT ![w] = label]
    ELSE Leave(w)

Supersedable(t) == Expired(t)

Supersede(w, from, to) ==
    /\ pc[w] = from
    /\ rows' = [t \in TurnIds |-> IF Supersedable(t) THEN Failed(rows[t], "superseded") ELSE rows[t]]
    /\ IF \E t \in TurnIds : Supersedable(t) THEN Retry(w, to) ELSE Leave(w)
    /\ UNCHANGED <<reader, revision, told>>

SupersedeForInsert(w) == Supersede(w, "supersede_insert", "insert")
SupersedeForReclaim(w) == Supersede(w, "supersede_reclaim", "read")

Replayable(w) ==
    LET row == rows[req[w].id]
    IN  row.status = "completed" /\ row.message = req[w].message

\* The final answer to a request, made at the chapter the request has read.
Final(w, answer) == [id |-> req[w].id, message |-> req[w].message,
                     chapter |-> req[w].chapter, answer |-> answer]

\* A completed turn is repeated word for word, unless the reader has gone back.
ReadReplay(w) ==
    /\ pc[w] = "read"
    /\ Replayable(w)
    /\ told' = IF rows[req[w].id].chapter <= req[w].chapter
               THEN told \cup {Final(w, rows[req[w].id].answer)}
               ELSE told
    /\ Leave(w)
    /\ UNCHANGED <<rows, reader, revision>>

\* The row as it was selected may be claimed.
Selected(w) ==
    LET row == rows[req[w].id]
    IN  /\ row.message = req[w].message
        /\ \/ row.status = "failed" /\ row.failure # "superseded"
           \/ Expired(req[w].id)

ReadRow(w) ==
    /\ pc[w] = "read"
    /\ ~Replayable(w)
    /\ IF Selected(w)
       THEN /\ req' = [req EXCEPT ![w].attempt = rows[req[w].id].attempt]
            /\ pc' = [pc EXCEPT ![w] = "reclaim"]
       ELSE Leave(w)
    /\ UNCHANGED <<rows, reader, revision, told>>

\* Fault: the update does not ask for the failure code.
ReclaimableAnyFailure(w) ==
    /\ rows[req[w].id].attempt = req[w].attempt
    /\ rows[req[w].id].status = "failed" \/ Expired(req[w].id)

\* The compare-and-set of the reclaim.
Reclaimable(w) ==
    LET row == rows[req[w].id]
    IN  /\ row.attempt = req[w].attempt
        /\ \/ row.status = "failed" /\ row.failure # "superseded"
           \/ Expired(req[w].id)

Reclaim(w) ==
    /\ pc[w] = "reclaim"
    /\ LET t == req[w].id
       IN  \/ /\ ~Reclaimable(w)
              /\ Retry(w, "read")
              /\ UNCHANGED rows
           \/ /\ Reclaimable(w)
              /\ ActiveElsewhere(t)
              /\ Goto(w, "supersede_reclaim")
              /\ UNCHANGED rows
           \/ /\ Reclaimable(w)
              /\ ~ActiveElsewhere(t)
              /\ rows[t].attempt < MaxAttempt
              /\ rows' = [rows EXCEPT ![t] =
                            [rows[t] EXCEPT !.status = "in_progress", !.lease = "live",
                                            !.failure = "none", !.attempt = @ + 1,
                                            !.revision = req[w].revision]]
              /\ req' = [req EXCEPT ![w].attempt = @ + 1]
              /\ pc' = [pc EXCEPT ![w] = "check"]
    /\ UNCHANGED <<reader, revision, told>>

------------------------------------------------------------------------------
(***************************************************************************)
(* The claim as it is stored against the context the request has read.     *)
(***************************************************************************)
Mixed(w) == ~rows[req[w].id].self /\ req[w].player

\* Fault: a claim made at a later chapter is not told from one made at this one.
NeverOther(w) == FALSE

\* The persona that was read is for one chapter only; a claim made at another one
\* is given up for good.
OtherChapter(w) == rows[req[w].id].chapter # req[w].chapter

CheckClaim(w) ==
    /\ pc[w] = "check"
    /\ IF Mixed(w) THEN Abandon(w, "fail")
       ELSE IF OtherChapter(w) THEN Abandon(w, "reject")
       ELSE Goto(w, "prompt")
    /\ UNCHANGED <<rows, reader, revision, told>>

\* The fence of renew_turn and fail_turn.
Fenced(w) == InProgress(req[w].id) /\ rows[req[w].id].attempt = req[w].attempt

Heartbeat(w) ==
    /\ pc[w] \in Leased
    /\ ~req[w].lost
    /\ IF Fenced(w)
       THEN rows' = [rows EXCEPT ![req[w].id].lease = "live"] /\ UNCHANGED req
       ELSE req' = [req EXCEPT ![w].lost = TRUE] /\ UNCHANGED rows
    /\ UNCHANGED <<reader, revision, told, pc>>

\* A renewal fails, and the handler learns that it must stop.
LeaseLost(w) ==
    /\ pc[w] \in Leased
    /\ Abandon(w, "fail")
    /\ UNCHANGED <<rows, reader, revision, told>>

\* The history is read as it is committed now (a bounded, filtered part of it goes
\* into the prompt); world and character context were read before the claim.
BuildPrompt(w) ==
    /\ pc[w] = "prompt"
    /\ ~req[w].lost
    /\ req' = [req EXCEPT ![w].saw = {t \in TurnIds : Completed(t)}]
    /\ pc' = [pc EXCEPT ![w] = "generate"]
    /\ UNCHANGED <<rows, reader, revision, told>>

\* The answer is streamed to the client, who must not take it for final yet.
Generate(w) ==
    /\ pc[w] = "generate"
    /\ ~req[w].lost
    /\ Goto(w, "recheck") \/ Abandon(w, "fail")
    /\ UNCHANGED <<rows, reader, revision, told>>

Recheck(w) ==
    /\ pc[w] = "recheck"
    /\ ~req[w].lost
    /\ IF revision = req[w].revision THEN Goto(w, "commit") ELSE Abandon(w, "fail")
    /\ UNCHANGED <<rows, reader, revision, told>>

\* Fault: turns under an adopted identity are numbered as well.
AlwaysNumbered(t) == TRUE

\* Only turns under the reader's own identity are numbered for the summaries.
Numbered(t) == rows[t].self

NextSequence == 1 + Max({0} \cup {rows[t].sequence : t \in TurnIds})

Answer(w) == [by |-> {w}, attempt |-> req[w].attempt, revision |-> req[w].revision,
              saw |-> req[w].saw]

\* Fault: the commit does not ask whether the row is still in progress.
CommittableOnce(w) ==
    /\ rows[req[w].id].attempt = req[w].attempt
    /\ rows[req[w].id].revision = req[w].revision

\* Fault: the commit asks neither for the attempt nor for the revision.
CommittableByAnyone(w) == InProgress(req[w].id)

\* The compare-and-set of complete_turn: an expired claim may commit while nobody
\* has taken it over.
Committable(w) == Fenced(w) /\ rows[req[w].id].revision = req[w].revision

Commit(w) ==
    /\ pc[w] = "commit"
    /\ ~req[w].lost
    /\ LET t == req[w].id
       IN  \/ /\ Committable(w)
              /\ rows' = [rows EXCEPT ![t] =
                            [@ EXCEPT !.status = "completed", !.lease = "none", !.failure = "none",
                                      !.sequence = IF Numbered(t) THEN NextSequence ELSE 0,
                                      !.answer = Answer(w)]]
              /\ \/ Leave(w) /\ told' = told \cup {Final(w, Answer(w))}
                 \/ Abandon(w, "fail") /\ UNCHANGED told      \* the acknowledgement is lost
           \/ /\ ~Committable(w)
              /\ Abandon(w, "fail")
              /\ UNCHANGED <<rows, told>>
    /\ UNCHANGED <<reader, revision>>

FailTurn(w) ==
    /\ pc[w] \in {"fail", "reject"}
    /\ rows' = IF Fenced(w)
               THEN [rows EXCEPT ![req[w].id] =
                       Failed(@, IF pc[w] = "reject" THEN "superseded" ELSE "other")]
               ELSE rows
    /\ Leave(w)
    /\ UNCHANGED <<reader, revision, told>>

------------------------------------------------------------------------------
\* A process dies; the future of a request that is not streamed also ends when
\* its client goes away.
Crash(w) ==
    /\ pc[w] # "idle"
    /\ Leave(w)
    /\ UNCHANGED <<rows, reader, revision, told>>

ExpireLease(t) ==
    /\ InProgress(t)
    /\ rows[t].lease = "live"
    /\ rows' = [rows EXCEPT ![t].lease = "expired"]
    /\ UNCHANGED <<reader, revision, told, pc, req>>

ReaderMoves ==
    /\ \E chapter \in Chapters, self \in BOOLEAN : reader' = [chapter |-> chapter, self |-> self]
    /\ UNCHANGED <<rows, revision, told, pc, req>>

WorldMoves ==
    /\ revision < MaxRevision
    /\ revision' = revision + 1
    /\ UNCHANGED <<rows, reader, told, pc, req>>

WorkerStep(w) ==
    \/ ReadContext(w) \/ ReadRevision(w)
    \/ Insert(w) \/ SupersedeForInsert(w) \/ SupersedeForReclaim(w)
    \/ ReadReplay(w) \/ ReadRow(w) \/ Reclaim(w) \/ CheckClaim(w)
    \/ LeaseLost(w) \/ BuildPrompt(w) \/ Generate(w) \/ Recheck(w) \/ Commit(w) \/ FailTurn(w)

Next ==
    \/ \E w \in Workers : WorkerStep(w) \/ Heartbeat(w) \/ Crash(w)
    \/ \E w \in Workers, t \in TurnIds : Request(w, t)
    \/ \E t \in TurnIds : ExpireLease(t)
    \/ ReaderMoves \/ WorldMoves

Spec == Init /\ [][Next]_vars

------------------------------------------------------------------------------
(***************************************************************************)
(* Properties.                                                             *)
(***************************************************************************)
Answers == [by : SUBSET Workers, attempt : 0 .. MaxAttempt, revision : Revisions,
            saw : SUBSET TurnIds]

Rows == [status : {"absent", "in_progress", "completed", "failed"}, attempt : 0 .. MaxAttempt,
         failure : {"none", "other", "superseded"}, lease : {"none", "live", "expired"},
         message : Messages, chapter : Chapters, self : BOOLEAN, revision : Revisions,
         sequence : 0 .. Cardinality(TurnIds), answer : Answers]

Reqs == [id : TurnIds \cup {NoTurn}, message : Messages, chapter : Chapters, self : BOOLEAN,
         revision : Revisions, player : BOOLEAN, tries : 0 .. MaxTries, attempt : 0 .. MaxAttempt,
         lost : BOOLEAN, saw : SUBSET TurnIds]

\* Every variable keeps its type, and the state constraints of the table hold: a
\* row has a lease exactly while it is in progress and a failure code exactly
\* when it has failed.
TypeOK ==
    /\ rows \in [TurnIds -> Rows]
    /\ reader \in [chapter : Chapters, self : BOOLEAN]
    /\ revision \in Revisions
    /\ told \subseteq [id : TurnIds, message : Messages, chapter : Chapters, answer : Answers]
    /\ pc \in [Workers -> Labels]
    /\ req \in [Workers -> Reqs]
    /\ \A w \in Workers : pc[w] # "idle" => req[w].id \in TurnIds
    /\ \A t \in TurnIds : rows[t].lease # "none" <=> InProgress(t)
    /\ \A t \in TurnIds : rows[t].failure # "none" <=> rows[t].status = "failed"

\* A final answer belongs to the message that was sent, and was written for a
\* chapter the reader had reached when asking, also when a key is used again with
\* another message or after the reader has gone back.
AnswersTheRequest ==
    \A e \in told : rows[e.id].message = e.message /\ rows[e.id].chapter <= e.chapter

\* The stored answer was generated under the claim that committed it, for the
\* world revision the row records, not by a stalled handler of an earlier claim.
AnswerOfItsClaim ==
    \A t \in TurnIds : Completed(t) =>
        /\ rows[t].answer.attempt = rows[t].attempt
        /\ rows[t].answer.revision = rows[t].revision

\* The conversation is linear: of two committed turns, one was committed before the
\* prompt of the other was built, so no two answers were generated side by side.
HistoryIsLinear ==
    \A t, u \in TurnIds : Completed(t) /\ Completed(u) /\ t # u =>
        t \in rows[u].answer.saw \/ u \in rows[t].answer.saw

\* The turns under the reader's own identity are numbered 1, 2, ... without gaps or
\* duplicates, in the order in which they saw one another.
SequenceExact ==
    LET self == {t \in TurnIds : Completed(t) /\ rows[t].self}
    IN  /\ {rows[t].sequence : t \in self} = 1 .. Cardinality(self)
        /\ \A t, u \in self : rows[t].sequence < rows[u].sequence => t \in rows[u].answer.saw

\* A completed turn keeps its content, and a superseded key is never used again.
TerminalRowsAreFinal ==
    [][\A t \in TurnIds :
         Completed(t) \/ rows[t].failure = "superseded" => rows'[t] = rows[t]]_vars

------------------------------------------------------------------------------
(***************************************************************************)
(* The abstract specification.                                             *)
(***************************************************************************)
Done == {t \in TurnIds : Completed(t)}

Said(t) == [message |-> rows[t].message, chapter |-> rows[t].chapter, self |-> rows[t].self,
            sequence |-> rows[t].sequence, answer |-> rows[t].answer]

Promise == INSTANCE Conversation WITH
    content <- [t \in Done |-> Said(t)],
    closed <- {t \in TurnIds : rows[t].failure = "superseded"}

\* The interleaved statements of all requests, crashes and reclaims together keep
\* one conversation, answered in order and repeated word for word.
ImplementsConversation == Promise!Spec

==============================================================================
