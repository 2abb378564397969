---------------------------- MODULE SourceRetention ----------------------------
(***************************************************************************)
(* Retained source files: an upload writes an object to S3 and the novel   *)
(* that will own it to PostgreSQL, which no transaction spans.             *)
(*                                                                         *)
(* The upload first reserves the object's key in source_file_deletions,    *)
(* the table a cleanup worker drains; the transaction that creates the     *)
(* novel consumes the reservation.  A reservation nobody consumes comes    *)
(* due after five minutes and its object is deleted; a failed acceptance   *)
(* queues its objects at once; deleting a novel queues its object (a       *)
(* trigger).  Workers claim a due row with a fresh token and give it back, *)
(* or remove it, only under that token.                                    *)
(*                                                                         *)
(* A request uploads the keys of one batch.  Time is abstracted: a row may *)
(* come due at any moment, and `late' remembers the reservations that came *)
(* due under their upload.                                                 *)
(***************************************************************************)
EXTENDS Integers, FiniteSets

CONSTANTS
    Key,            \* object keys, one per uploaded novel
    Batch,          \* Request -> the keys one upload request retains
    Request,        \* upload requests
    Worker,         \* cleanup workers
    NoKey,          \* the key of a request or worker between two objects
    Nobody,         \* who holds an unclaimed row
    MaxFaults       \* bound: crashes, failed puts, failed statements of a request,
                    \* commits whose acknowledgement is lost

ASSUME RetentionConstants ==
    /\ Batch \in [Request -> SUBSET Key]
    /\ \A r \in Request : Batch[r] # {}
    /\ \A r, q \in Request : r # q => Batch[r] \cap Batch[q] = {}
    /\ NoKey \notin Key
    /\ Nobody \notin Worker
    /\ MaxFaults \in Nat

VARIABLES
    object,     \* the keys that exist in the bucket
    flying,     \* puts whose caller is gone and that may still be applied
    row,        \* source_file_deletions: last_error and whether the row is due
    novel,      \* novels by original_file_key; unconfirmed: kept, and its upload
                \* never learned that it was accepted
    request,    \* the upload requests: where they are, which key, what is left
    worker,     \* the cleanup workers: the claims of a pass, and the one in hand
    late,       \* history: the keys whose upload outlived its reservation
    faults      \* bound

vars == <<object, flying, row, novel, request, worker, late, faults>>

--------------------------------------------------------------------------------
(* A row is absent, a reservation, a queued intent, or claimed.  A claim's *)
(* token is drawn afresh for each pass, and a worker that starts a pass    *)
(* holds no older claim: the worker's name stands for the token.           *)
Absent   == [mark |-> "absent", by |-> Nobody, due |-> FALSE]
Reserved == [mark |-> "reserved", by |-> Nobody, due |-> FALSE]
Queued   == [mark |-> "queued", by |-> Nobody, due |-> TRUE]

NoPass == [pc |-> "idle", todo |-> {}, key |-> NoKey]

RequestOf(k) == CHOOSE r \in Request : k \in Batch[r]

Init ==
    /\ object = {}
    /\ flying = {}
    /\ row = [k \in Key |-> Absent]
    /\ novel = [k \in Key |-> "none"]
    /\ request = [r \in Request |-> [pc |-> "reserve", todo |-> Batch[r], key |-> NoKey]]
    /\ worker = [w \in Worker |-> NoPass]
    /\ late = {}
    /\ faults = 0

Fault == faults < MaxFaults /\ faults' = faults + 1

--------------------------------------------------------------------------------
(* The upload request: retain_source_file for each novel, then the batch *)

(* reserve_upload *)
Reserve(r, k) ==
    /\ request[r].pc = "reserve" /\ k \in request[r].todo
    /\ row[k] = Absent
    /\ row' = [row EXCEPT ![k] = Reserved]
    /\ request' = [request EXCEPT ![r] = [@ EXCEPT !.pc = "put", !.key = k]]
    /\ UNCHANGED <<object, flying, novel, worker, late, faults>>

(* The object is stored and the next one reserved, or the batch created. *)
Put(r) ==
    LET k == request[r].key  left == request[r].todo \ {k} IN
    /\ request[r].pc = "put"
    /\ object' = object \cup {k}
    /\ request' = [request EXCEPT ![r] =
                     IF left = {} THEN [pc |-> "create", todo |-> Batch[r], key |-> NoKey]
                                  ELSE [pc |-> "reserve", todo |-> left, key |-> NoKey]]
    /\ UNCHANGED <<flying, row, novel, worker, late, faults>>

(* A put that fails ends the request with an error, and one that timed out *)
(* may be applied later; the reservations stay.                            *)
PutFails(r) ==
    /\ request[r].pc = "put" /\ Fault
    /\ \/ flying' = flying \cup {request[r].key}
       \/ UNCHANGED flying
    /\ request' = [request EXCEPT ![r].pc = "done"]
    /\ UNCHANGED <<object, row, novel, worker, late>>

(* Mutant: a lost reservation is not noticed. *)
ConsumableAlways(k) == TRUE

Consumable(k) == row[k].mark = "reserved"

(* create_import_batch: insert_novel consumes the reservation of every key *)
(* and all the novels are stored, or nothing is and the error is handled;  *)
(* it is handled alike when the commit's acknowledgement is lost.          *)
Create(r) ==
    /\ request[r].pc = "create"
    /\ \A k \in Batch[r] : Consumable(k)
    /\ row' = [k \in Key |-> IF k \in Batch[r] THEN Absent ELSE row[k]]
    /\ \/ /\ novel' = [k \in Key |-> IF k \in Batch[r] THEN "kept" ELSE novel[k]]
          /\ request' = [request EXCEPT ![r].pc = "done"]
          /\ UNCHANGED faults
       \/ /\ Fault
          /\ novel' = [k \in Key |-> IF k \in Batch[r] THEN "unconfirmed" ELSE novel[k]]
          /\ request' = [request EXCEPT ![r].pc = "enqueue"]
    /\ UNCHANGED <<object, flying, worker, late>>

CreateFails(r) ==
    /\ request[r].pc = "create"
    /\ \/ (\E k \in Batch[r] : ~Consumable(k)) /\ UNCHANGED faults
       \/ Fault
    /\ request' = [request EXCEPT ![r].pc = "enqueue"]
    /\ UNCHANGED <<object, flying, row, novel, worker, late>>

(* Mutant: an existing row is left as it is. *)
QueueIfAbsent(k) == row' = [row EXCEPT ![k] = IF @ = Absent THEN Queued ELSE @]

(* enqueue_cleanup for every key of the failed batch: a due row without a  *)
(* mark, which replaces a reservation or a stale claim.                    *)
Queue(k) == row' = [row EXCEPT ![k] = Queued]

Enqueue(r, k) ==
    LET left == request[r].todo \ {k} IN
    /\ request[r].pc = "enqueue" /\ k \in request[r].todo
    /\ \/ Queue(k) /\ UNCHANGED faults
       \/ Fault /\ UNCHANGED row
    /\ request' = [request EXCEPT ![r] =
                     [pc |-> IF left = {} THEN "done" ELSE "enqueue", todo |-> left, key |-> NoKey]]
    /\ UNCHANGED <<object, flying, novel, worker, late>>

(* The process dies; a put under way may still be applied. *)
Crash(r) ==
    /\ request[r].pc # "done" /\ Fault
    /\ \/ request[r].pc = "put" /\ flying' = flying \cup {request[r].key}
       \/ UNCHANGED flying
    /\ request' = [request EXCEPT ![r].pc = "done"]
    /\ UNCHANGED <<object, row, novel, worker, late>>

Land(k) ==
    /\ k \in flying
    /\ flying' = flying \ {k}
    /\ object' = object \cup {k}
    /\ UNCHANGED <<row, novel, request, worker, late, faults>>

Owned(k) == novel[k] \in {"kept", "unconfirmed"}

(* The novel is deleted: the trigger queue_source_file_deletion. *)
DeleteNovel(k) ==
    /\ Owned(k)
    /\ novel' = [novel EXCEPT ![k] = "deleted"]
    /\ row' = [row EXCEPT ![k] = IF @ = Absent THEN Queued ELSE [@ EXCEPT !.due = TRUE]]
    /\ UNCHANGED <<object, flying, request, worker, late, faults>>

--------------------------------------------------------------------------------
(* SourceFileCleanupWorker *)

(* The upload of the key is over: its request, and a put it left behind. *)
Settled(k) == request[RequestOf(k)].pc = "done" /\ k \notin flying

(* Mutant: a claim never runs out. *)
DueUnclaimed(k) ==
    /\ row[k].mark \in {"reserved", "queued"} /\ ~row[k].due
    /\ row' = [row EXCEPT ![k].due = TRUE]
    /\ late' = IF row[k].mark = "reserved" /\ ~Settled(k) THEN late \cup {k} ELSE late
    /\ UNCHANGED <<object, flying, novel, request, worker, faults>>

(* next_attempt_at passes. *)
Due(k) ==
    /\ row[k] # Absent /\ ~row[k].due
    /\ row' = [row EXCEPT ![k].due = TRUE]
    /\ late' = IF row[k].mark = "reserved" /\ ~Settled(k) THEN late \cup {k} ELSE late
    /\ UNCHANGED <<object, flying, novel, request, worker, faults>>

(* due: every due row, under a fresh token and for five minutes. *)
Take(w) ==
    LET due == {k \in Key : row[k].due} IN
    /\ worker[w].pc = "idle" /\ due # {}
    /\ row' = [k \in Key |-> IF k \in due THEN [mark |-> "claimed", by |-> w, due |-> FALSE]
                                         ELSE row[k]]
    /\ worker' = [worker EXCEPT ![w] = [pc |-> "pass", todo |-> due, key |-> NoKey]]
    /\ UNCHANGED <<object, flying, novel, request, late, faults>>

(* drain_once, one object after the other: the storage deletes it, or an   *)
(* error is reported, which may be that of a deletion that happened.       *)
Delete(w, k) ==
    /\ worker[w].pc = "pass" /\ k \in worker[w].todo
    /\ object' = object \ {k}
    /\ worker' = [worker EXCEPT ![w].pc = "complete", ![w].key = k]
    /\ UNCHANGED <<flying, row, novel, request, late, faults>>

DeleteFails(w, k) ==
    /\ worker[w].pc = "pass" /\ k \in worker[w].todo
    /\ object' \in {object, object \ {k}}
    /\ worker' = [worker EXCEPT ![w].pc = "retry", ![w].key = k]
    /\ UNCHANGED <<flying, row, novel, request, late, faults>>

Mine(w, k) == row[k].mark = "claimed" /\ row[k].by = w

Onward(w) ==
    LET left == worker[w].todo \ {worker[w].key} IN
    worker' = [worker EXCEPT ![w] =
                 IF left = {} THEN NoPass ELSE [pc |-> "pass", todo |-> left, key |-> NoKey]]

(* complete: the row goes, if it still carries this claim. *)
Complete(w) ==
    LET k == worker[w].key IN
    /\ worker[w].pc = "complete"
    /\ row' = IF Mine(w, k) THEN [row EXCEPT ![k] = Absent] ELSE row
    /\ Onward(w)
    /\ UNCHANGED <<object, flying, novel, request, late, faults>>

(* retry: the row is given back for later, under the same condition. *)
Retry(w) ==
    LET k == worker[w].key IN
    /\ worker[w].pc = "retry"
    /\ row' = IF Mine(w, k) THEN [row EXCEPT ![k] = [Queued EXCEPT !.due = FALSE]] ELSE row
    /\ Onward(w)
    /\ UNCHANGED <<object, flying, novel, request, late, faults>>

(* The worker's process stops, or a statement fails and ends the pass: the *)
(* claims come due again by themselves.                                    *)
Drop(w) ==
    /\ worker[w].pc # "idle"
    /\ worker' = [worker EXCEPT ![w] = NoPass]
    /\ UNCHANGED <<object, flying, row, novel, request, late, faults>>

Next ==
    \/ \E r \in Request : Put(r) \/ PutFails(r) \/ Create(r) \/ CreateFails(r) \/ Crash(r)
    \/ \E r \in Request, k \in Key : Reserve(r, k) \/ Enqueue(r, k)
    \/ \E k \in Key : Land(k) \/ DeleteNovel(k) \/ Due(k)
    \/ \E w \in Worker : Take(w) \/ Complete(w) \/ Retry(w) \/ Drop(w)
    \/ \E w \in Worker, k \in Key : Delete(w, k) \/ DeleteFails(w, k)

Spec == Init /\ [][Next]_vars

(* A put under way is applied or was never received, rows come due, the    *)
(* worker's loop goes on, and neither the storage nor the database refuses *)
(* for ever.                                                               *)
Fairness ==
    /\ \A k \in Key : WF_vars(Land(k)) /\ WF_vars(Due(k))
    /\ \A w \in Worker :
         /\ SF_vars(Take(w))
         /\ WF_vars(Retry(w))
         /\ SF_vars(Complete(w))
         /\ \A k \in Key : SF_vars(Delete(w, k)) /\ WF_vars(Delete(w, k) \/ DeleteFails(w, k))

LiveSpec == Spec /\ Fairness

--------------------------------------------------------------------------------
(* Properties *)

Row    == [mark : {"absent", "reserved", "queued", "claimed"},
           by : Worker \cup {Nobody}, due : BOOLEAN]
Upload == [pc : {"reserve", "put", "create", "enqueue", "done"},
           todo : SUBSET Key, key : Key \cup {NoKey}]
Pass   == [pc : {"idle", "pass", "complete", "retry"},
           todo : SUBSET Key, key : Key \cup {NoKey}]

(* The types of the tables, the bucket and the processes; a token is on a  *)
(* claimed row and on no other.                                            *)
TypeOK ==
    /\ object \subseteq Key /\ flying \subseteq Key
    /\ row \in [Key -> Row]
    /\ \A k \in Key : row[k].mark = "claimed" <=> row[k].by # Nobody
    /\ novel \in [Key -> {"none", "kept", "unconfirmed", "deleted"}]
    /\ request \in [Request -> Upload]
    /\ worker \in [Worker -> Pass]
    /\ late \subseteq Key
    /\ faults \in 0 .. MaxFaults

(* The source is "stored ... for the lifetime of the shared canonical      *)
(* novel": a novel never names an object that is gone, however the upload, *)
(* its reservation and the cleanup interleave.  An unconfirmed novel has   *)
(* no such promise: its upload queues the source it just gave away.        *)
KeptHasItsSource == \A k \in Key : novel[k] = "kept" => k \in object

(* The upload outlived its reservation and something failed besides: the   *)
(* window in which docs/BACKUP_RESTORE.md accepts an unowned object.       *)
DoublyFailed(k) == k \in late /\ faults > 0

(* Nothing is left in the bucket that nobody answers for: an object, or a  *)
(* put that may still be applied, belongs to a novel, to a row that will   *)
(* have it deleted, or to a request that has yet to hand it over.  A crash *)
(* alone or a slow upload alone does not break this.                       *)
InCharge(k) == LET q == request[RequestOf(k)] IN
    \/ q.pc \in {"reserve", "create"}
    \/ q.pc = "put" /\ (q.key = k \/ k \notin q.todo)
    \/ q.pc = "enqueue" /\ k \in q.todo

NothingIsOrphaned == \A k \in object \cup flying :
    Owned(k) \/ row[k] # Absent \/ InCharge(k) \/ DoublyFailed(k)

(* An upload that was not accepted, and the source of a deleted novel, do  *)
(* not stay in the bucket.                                                 *)
UnownedIsDeleted == \A k \in Key :
    ~Owned(k) /\ request[RequestOf(k)].pc = "done"
      ~> k \notin object \/ DoublyFailed(k)

================================================================================
