------------------------------ MODULE NovelImport ------------------------------
(***************************************************************************)
(* The durable import pipeline of novel-service.                           *)
(*                                                                         *)
(* An accepted novel owns a row of novel_import_jobs.  A process admits    *)
(* the novel's user, claims the job (status in_progress, attempt + 1, a    *)
(* two-minute lease) and runs a task that commits chapters, characters,    *)
(* narrative nodes, the enrichment and the canon model, one transaction    *)
(* each, every one fenced by (novel_id, attempt).  A heartbeat renews the  *)
(* lease; pending jobs and expired leases are found again by a periodic    *)
(* scan, failed ones by the reader's retry, and a job whose attempts are   *)
(* used up is failed for good.                                             *)
(*                                                                         *)
(* Every action is one transaction of the database, or one step between    *)
(* two awaits.  Texts are abstracted to who wrote them: a chapter set is   *)
(* the attempt and repair round that stored it and how many chapters it    *)
(* has, and each derived row names the chapter set it was derived from.    *)
(* Time is abstracted: a lease is live until it is expired, at any moment. *)
(***************************************************************************)
EXTENDS Integers, FiniteSets, FiniteSetsExt

CONSTANTS
    Novel,                  \* novels that may be uploaded
    User,                   \* readers
    Owner,                  \* Novel -> User, novels.user_id
    Proc,                   \* novel-service processes
    NoNovel,                \* what an idle task works on
    MAX_IMPORT_ATTEMPTS,    \* claims a job may have
    IMPORT_PERMITS,         \* imports one process runs at a time
    MAX_BATCH_IMPORTS,      \* novels in one upload request
    REPAIR_ROUNDS,          \* MAX_BOUNDARY_REPAIR_ROUNDS
    MaxCrashes              \* bound: process crashes explored

ASSUME ImportConstants ==
    /\ Owner \in [Novel -> User]
    /\ NoNovel \notin Novel
    /\ MAX_IMPORT_ATTEMPTS \in Nat \ {0}
    /\ IMPORT_PERMITS \in Nat \ {0}
    /\ MAX_BATCH_IMPORTS \in Nat \ {0}
    /\ REPAIR_ROUNDS \in Nat
    /\ MaxCrashes \in Nat

VARIABLES
    job,        \* novel_import_jobs, one row per accepted novel
    novel,      \* novels: status and total_chapters
    text,       \* the chapters, characters, nodes, canon model and checkpoint
    task,       \* the admitted imports of each process, one per permit
    offer,      \* novels a handler is about to ask admission for
    crashes     \* bound

vars == <<job, novel, text, task, offer, crashes>>

--------------------------------------------------------------------------------
(* Rows *)

Stage  == {"source", "chapters", "enriched", "completed"}
Status == {"absent", "pending", "in_progress", "failed", "completed"}
By     == {"accept", "recover", "retry"}

NoChapters == [by |-> 0, round |-> 0, count |-> 0]
NoCast     == [by |-> 0, of |-> NoChapters]
NoCanon    == [of |-> NoChapters, cast |-> NoCast]
NoText     == [chapters |-> NoChapters, characters |-> NoCast, nodes |-> NoChapters,
               canon |-> NoCanon, checkpoint |-> NoChapters]

NoJob == [stage |-> "source", status |-> "absent", attempt |-> 0, lease |-> "none",
          failure |-> "none"]

Idle == [pc |-> "idle", novel |-> NoNovel, by |-> "accept", attempt |-> 0,
         stage |-> "source", chapters |-> NoChapters, cast |-> NoCast, round |-> 0]

Accepted == {n \in Novel : job[n].status # "absent"}

Permit == 1 .. IMPORT_PERMITS

(* The pipeline of process_import, between the claim and its end. *)
Working == {"load", "replay", "repair", "characters", "nodes", "record", "canon",
            "extract", "model", "complete"}

Runs(p, k, n) == task[p][k].novel = n /\ task[p][k].pc \in Working

(* Mutant: the fence forgets the attempt. *)
FencedByStatus(n, attempt) == job[n].status = "in_progress"

(* lock_import and the same test in the other repositories: the row is     *)
(* still held by this attempt.                                             *)
Fenced(n, attempt) == job[n].attempt = attempt /\ job[n].status = "in_progress"

Held(t) == Fenced(t.novel, t.attempt)

(* claim_import's WHERE clause. *)
Claimable(n) == /\ job[n].attempt < MAX_IMPORT_ATTEMPTS
                /\ \/ job[n].status \in {"pending", "failed"}
                   \/ job[n].status = "in_progress" /\ job[n].lease = "expired"

NextAttempt(n) == job[n].attempt + 1

(* Mutant: the scan forgets the expired leases. *)
RecoverablePending(n) == job[n].status = "pending"

Recoverable(n) == \/ job[n].status = "pending"
                  \/ job[n].status = "in_progress" /\ job[n].lease = "expired"

--------------------------------------------------------------------------------
Init ==
    /\ job = [n \in Novel |-> NoJob]
    /\ novel = [n \in Novel |-> [status |-> "pending", total |-> 0]]
    /\ text = [n \in Novel |-> NoText]
    /\ task = [p \in Proc |-> [k \in Permit |-> Idle]]
    /\ offer = {}
    /\ crashes = 0

(* handle_import_batch: the novels of one reader, each with its chapters   *)
(* parsed already or with a retained source to be replayed, and their      *)
(* pending jobs, in one transaction; only the first is offered for a claim. *)
Accept(p, batch, parsed, first) ==
    /\ batch # {} /\ Cardinality(batch) <= MAX_BATCH_IMPORTS
    /\ batch \cap Accepted = {}
    /\ \A m, n \in batch : Owner[m] = Owner[n]
    /\ first \in batch /\ parsed \subseteq batch
    /\ job' = [n \in Novel |->
                 IF n \in batch
                 THEN [NoJob EXCEPT !.status = "pending",
                                    !.stage = IF n \in parsed THEN "chapters" ELSE "source"]
                 ELSE job[n]]
    /\ text' = [n \in Novel |->
                  IF n \in parsed THEN [text[n] EXCEPT !.chapters.count = 1] ELSE text[n]]
    /\ offer' = offer \cup {[proc |-> p, novel |-> first, by |-> "accept"]}
    /\ UNCHANGED <<novel, task, crashes>>

(* recover_imports_once asks recoverable_imports for its candidates; each  *)
(* is claimed in turn before the next scan.                                *)
Scan(p) ==
    /\ \A o \in offer : ~(o.proc = p /\ o.by = "recover")
    /\ \A k \in Permit : ~(task[p][k].by = "recover" /\ task[p][k].pc \in {"claim", "mark"})
    /\ \E n \in Novel : Recoverable(n)
    /\ offer' = offer \cup {[proc |-> p, novel |-> n, by |-> "recover"] :
                               n \in {m \in Novel : Recoverable(m)}}
    /\ UNCHANGED <<job, novel, text, task, crashes>>

(* retry_import up to the admission: only a novel in error, and only one   *)
(* whose chapters or retained source can be used.                          *)
AskRetry(p, n) ==
    /\ novel[n].status = "error"
    /\ offer' = offer \cup {[proc |-> p, novel |-> n, by |-> "retry"]}
    /\ UNCHANGED <<job, novel, text, task, crashes>>

Free(p) == {k \in Permit : task[p][k].pc = "idle"}

(* Mutant: the admission forgets the users. *)
AdmissibleByPermit(p, n) == Free(p) # {}

(* try_import_admission: a permit of the process, and no other import of   *)
(* the same user in it.                                                    *)
Admissible(p, n) ==
    /\ Free(p) # {}
    /\ \A k \in Permit \ Free(p) : Owner[task[p][k].novel] # Owner[n]

(* The recovery loop claims one candidate at a time. *)
InTurn(o) == o.by = "recover" =>
    \A k \in Permit : ~(task[o.proc][k].by = "recover" /\ task[o.proc][k].pc \in {"claim", "mark"})

Admit(o) ==
    /\ o \in offer /\ InTurn(o)
    /\ Admissible(o.proc, o.novel)
    /\ task' = [task EXCEPT ![o.proc][Min(Free(o.proc))] =
                   [Idle EXCEPT !.pc = "claim", !.novel = o.novel, !.by = o.by]]
    /\ offer' = offer \ {o}
    /\ UNCHANGED <<job, novel, text, crashes>>

(* Not admitted: the scan goes on, the upload is left to the scan, the     *)
(* retry is refused.                                                       *)
Decline(o) ==
    /\ o \in offer /\ InTurn(o)
    /\ ~Admissible(o.proc, o.novel)
    /\ offer' = offer \ {o}
    /\ UNCHANGED <<job, novel, text, task, crashes>>

--------------------------------------------------------------------------------
(* The claim *)

(* claim_import's statement. *)
Claim(p, k) ==
    LET t == task[p][k]  n == t.novel IN
    /\ t.pc = "claim"
    /\ IF Claimable(n)
       THEN /\ job' = [job EXCEPT ![n] = [@ EXCEPT !.status = "in_progress", !.attempt = NextAttempt(n),
                                                   !.lease = "live", !.failure = "none"]]
            /\ novel' = [novel EXCEPT ![n].status = "parsing"]
            /\ task' = [task EXCEPT ![p][k] = [@ EXCEPT !.pc = "load", !.attempt = NextAttempt(n),
                                                        !.stage = job[n].stage]]
       ELSE /\ task' = [task EXCEPT ![p][k].pc = "mark"]
            /\ UNCHANGED <<job, novel>>
    /\ UNCHANGED <<text, offer, crashes>>

Exhausted(n) == job[n].status = "failed" /\ job[n].failure = "budget_exhausted"

(* mark_import_budget_exhausted, the transaction claim_import runs when    *)
(* its statement claimed nothing.                                          *)
MarkExhausted(p, k) ==
    LET n == task[p][k].novel IN
    /\ task[p][k].pc = "mark"
    /\ IF /\ job[n].attempt >= MAX_IMPORT_ATTEMPTS
          /\ job[n].status # "completed"
          /\ ~Exhausted(n)
       THEN /\ job' = [job EXCEPT ![n] = [@ EXCEPT !.status = "failed", !.lease = "none",
                                                   !.failure = "budget_exhausted"]]
            /\ novel' = [novel EXCEPT ![n].status = IF @ = "ready" THEN @ ELSE "error"]
       ELSE UNCHANGED <<job, novel>>
    /\ task' = [task EXCEPT ![p][k] = Idle]
    /\ UNCHANGED <<text, offer, crashes>>

(* The database does not answer the claim: the admission is dropped. *)
ClaimErrs(p, k) ==
    /\ task[p][k].pc \in {"claim", "mark"}
    /\ task' = [task EXCEPT ![p][k] = Idle]
    /\ UNCHANGED <<job, novel, text, offer, crashes>>

--------------------------------------------------------------------------------
(* The task *)

Goto(p, k, pc) == task' = [task EXCEPT ![p][k].pc = pc]

(* A write that was fenced ends the task without touching the job. *)
Lost(p, k) ==
    /\ task' = [task EXCEPT ![p][k] = Idle]
    /\ UNCHANGED <<job, novel, text>>

(* process_import: where to resume is the stage the claim returned. *)
Load(p, k) ==
    LET t == task[p][k]  n == t.novel IN
    /\ t.pc = "load"
    /\ task' = [task EXCEPT ![p][k] =
                  CASE t.stage = "source"   -> [t EXCEPT !.pc = "replay"]
                    [] t.stage = "chapters" ->
                         [t EXCEPT !.pc = "repair", !.chapters = text[n].chapters]
                    [] t.stage = "enriched" ->
                         [t EXCEPT !.pc = "canon", !.chapters = text[n].chapters,
                                   !.cast = text[n].characters]]
    /\ UNCHANGED <<job, novel, text, offer, crashes>>

(* replace_import_chapters: the whole chapter set, and with it the nodes   *)
(* that were marked on the old rows.                                       *)
ReplaceChapters(p, k, new, round) ==
    LET t == task[p][k]  n == t.novel IN
    IF Held(t) /\ job[n].stage \in {"source", "chapters"}
    THEN /\ text' = [text EXCEPT ![n] = [@ EXCEPT !.chapters = new, !.nodes = NoChapters]]
         /\ job' = [job EXCEPT ![n].stage = "chapters"]
         /\ task' = [task EXCEPT ![p][k] = [@ EXCEPT !.pc = "repair", !.chapters = new,
                                                     !.round = round]]
         /\ UNCHANGED novel
    ELSE Lost(p, k)

(* replay_source_chapters: the retained object, read, split and committed. *)
Replay(p, k) ==
    /\ task[p][k].pc = "replay"
    /\ ReplaceChapters(p, k, [by |-> task[p][k].attempt, round |-> 0, count |-> 1], 0)
    /\ UNCHANGED <<offer, crashes>>

(* repair_chapter_boundaries: a round that splits a suspicious chapter     *)
(* commits the repaired set; without suspicion the analysis starts.        *)
Repair(p, k) ==
    LET t == task[p][k] IN
    /\ t.pc = "repair"
    /\ t.round < REPAIR_ROUNDS
    /\ ReplaceChapters(p, k, [by |-> t.attempt, round |-> t.round + 1,
                              count |-> t.chapters.count + 1], t.round + 1)
    /\ UNCHANGED <<offer, crashes>>

Repaired(p, k) ==
    /\ task[p][k].pc = "repair"
    /\ Goto(p, k, "characters")
    /\ UNCHANGED <<job, novel, text, offer, crashes>>

(* Mutant: the characters are replaced without a fence. *)
ReplaceCharactersUnfenced(p, k) ==
    LET t == task[p][k]
        cast == [by |-> t.attempt, of |-> t.chapters] IN
    /\ t.pc = "characters"
    /\ text' = [text EXCEPT ![t.novel].characters = cast]
    /\ task' = [task EXCEPT ![p][k] = [@ EXCEPT !.pc = "nodes", !.cast = cast]]
    /\ UNCHANGED <<job, novel, offer, crashes>>

(* enrich_novel_async's first commit, CharacterPgRepository replace_import. *)
ReplaceCharacters(p, k) ==
    LET t == task[p][k]  n == t.novel
        cast == [by |-> t.attempt, of |-> t.chapters] IN
    /\ t.pc = "characters"
    /\ IF Held(t) /\ job[n].stage = "chapters"
       THEN /\ text' = [text EXCEPT ![n].characters = cast]
            /\ task' = [task EXCEPT ![p][k] = [@ EXCEPT !.pc = "nodes", !.cast = cast]]
            /\ UNCHANGED <<job, novel>>
       ELSE Lost(p, k)
    /\ UNCHANGED <<offer, crashes>>

(* replace_import_nodes *)
ReplaceNodes(p, k) ==
    LET t == task[p][k]  n == t.novel IN
    /\ t.pc = "nodes"
    /\ IF Held(t) /\ job[n].stage = "chapters"
       THEN /\ text' = [text EXCEPT ![n].nodes = t.chapters]
            /\ Goto(p, k, "record")
            /\ UNCHANGED <<job, novel>>
       ELSE Lost(p, k)
    /\ UNCHANGED <<offer, crashes>>

(* record_import_enrichment: the count the task analysed must be the count *)
(* of the stored chapters; an unmet condition is an error of the task.     *)
RecordEnrichment(p, k) ==
    LET t == task[p][k]  n == t.novel IN
    /\ t.pc = "record"
    /\ IF ~Held(t) THEN Lost(p, k)
       ELSE IF /\ job[n].stage \in {"chapters", "enriched"}
               /\ text[n].chapters.count = t.chapters.count
               /\ novel[n].status = "parsing"
       THEN /\ novel' = [novel EXCEPT ![n].total = t.chapters.count]
            /\ job' = [job EXCEPT ![n] = [@ EXCEPT !.stage = "enriched", !.lease = "live"]]
            /\ Goto(p, k, "canon")
            /\ UNCHANGED text
       ELSE Goto(p, k, "fail") /\ UNCHANGED <<job, novel, text>>
    /\ UNCHANGED <<offer, crashes>>

(* complete_canon_async: a stored model is not extracted again. *)
FindCanon(p, k) ==
    LET t == task[p][k] IN
    /\ t.pc = "canon"
    /\ Goto(p, k, IF text[t.novel].canon = NoCanon THEN "extract" ELSE "complete")
    /\ UNCHANGED <<job, novel, text, offer, crashes>>

(* The chunks: a checkpoint of the same source text is resumed, anything   *)
(* else is extracted and saved by save_import_checkpoint.                  *)
Extract(p, k) ==
    LET t == task[p][k]  n == t.novel IN
    /\ t.pc = "extract"
    /\ IF text[n].checkpoint = t.chapters
       THEN Goto(p, k, "model") /\ UNCHANGED <<job, novel, text>>
       ELSE IF Held(t) /\ job[n].stage = "enriched"
       THEN /\ text' = [text EXCEPT ![n].checkpoint = t.chapters]
            /\ Goto(p, k, "model")
            /\ UNCHANGED <<job, novel>>
       ELSE Lost(p, k)
    /\ UNCHANGED <<offer, crashes>>

(* insert_import: the novel must be enriched with every chapter stored and *)
(* the model be the first of its version; the checkpoints go with it.      *)
(* What the model quotes is validated against the stored words, which may  *)
(* agree between two chapter sets: that validation is not relied on here,  *)
(* and its failure is one of StepFails.                                    *)
InsertCanon(p, k) ==
    LET t == task[p][k]  n == t.novel IN
    /\ t.pc = "model"
    /\ IF ~(Held(t) /\ job[n].stage = "enriched") THEN Lost(p, k)
       ELSE IF /\ novel[n].status \in {"parsing", "ready"}
               /\ novel[n].total = text[n].chapters.count
               /\ text[n].canon = NoCanon
       THEN /\ text' = [text EXCEPT ![n] = [@ EXCEPT !.canon = [of |-> t.chapters, cast |-> t.cast],
                                                     !.checkpoint = NoChapters]]
            /\ Goto(p, k, "complete")
            /\ UNCHANGED <<job, novel>>
       ELSE Goto(p, k, "fail") /\ UNCHANGED <<job, novel, text>>
    /\ UNCHANGED <<offer, crashes>>

(* complete_import; then lease.stop() and the admission is dropped. *)
Complete(p, k) ==
    LET t == task[p][k]  n == t.novel IN
    /\ t.pc = "complete"
    /\ IF ~Held(t) THEN Lost(p, k)
       ELSE IF /\ job[n].stage = "enriched"
               /\ novel[n].status = "parsing"
               /\ novel[n].total > 0
               /\ novel[n].total = text[n].chapters.count
               /\ text[n].characters # NoCast
               /\ text[n].canon # NoCanon
       THEN /\ novel' = [novel EXCEPT ![n].status = "ready"]
            /\ job' = [job EXCEPT ![n] = [@ EXCEPT !.stage = "completed", !.status = "completed",
                                                   !.lease = "none", !.failure = "none"]]
            /\ task' = [task EXCEPT ![p][k] = Idle]
            /\ UNCHANGED text
       ELSE Goto(p, k, "fail") /\ UNCHANGED <<job, novel, text>>
    /\ UNCHANGED <<offer, crashes>>

(* Any step of the pipeline may fail: the provider, its answers, the       *)
(* stored source, the budget, the database.                                *)
StepFails(p, k) ==
    /\ task[p][k].pc \in Working
    /\ Goto(p, k, "fail")
    /\ UNCHANGED <<job, novel, text, offer, crashes>>

(* Mutant: the failure is recorded whoever holds the row. *)
FailImportUnfenced(p, k) ==
    LET t == task[p][k]  n == t.novel IN
    /\ t.pc = "fail"
    /\ \/ /\ job' = [job EXCEPT ![n] = [@ EXCEPT !.status = "failed", !.lease = "none",
                                                 !.failure = "failed"]]
          /\ novel' = [novel EXCEPT ![n].status = "error"]
       \/ UNCHANGED <<job, novel>>
    /\ task' = [task EXCEPT ![p][k] = Idle]
    /\ UNCHANGED <<text, offer, crashes>>

(* run_claimed_import's error arm: the heartbeat is stopped and            *)
(* fail_import records the failure, if the attempt still holds the row and *)
(* the database answers.                                                   *)
FailImport(p, k) ==
    LET t == task[p][k]  n == t.novel IN
    /\ t.pc = "fail"
    /\ \/ /\ Held(t)
          /\ job' = [job EXCEPT ![n] = [@ EXCEPT !.status = "failed", !.lease = "none",
                                                 !.failure = "failed"]]
          /\ novel' = [novel EXCEPT ![n].status = "error"]
       \/ UNCHANGED <<job, novel>>
    /\ task' = [task EXCEPT ![p][k] = Idle]
    /\ UNCHANGED <<text, offer, crashes>>

--------------------------------------------------------------------------------
(* The lease, and the process *)

(* renew_import: it asks for the attempt, not for the time.  A heartbeat   *)
(* that was fenced, or failed, cancels the task.                           *)
Renew(p, k) ==
    LET t == task[p][k]  n == t.novel IN
    /\ t.pc \in Working
    /\ \/ /\ Held(t)
          /\ job' = [job EXCEPT ![n].lease = "live"]
          /\ UNCHANGED task
       \/ /\ task' = [task EXCEPT ![p][k] = Idle]
          /\ UNCHANGED job
    /\ UNCHANGED <<novel, text, offer, crashes>>

Expire(n) ==
    /\ job[n].lease = "live"
    /\ job' = [job EXCEPT ![n].lease = "expired"]
    /\ UNCHANGED <<novel, text, task, offer, crashes>>

Crash(p) ==
    /\ crashes < MaxCrashes
    /\ crashes' = crashes + 1
    /\ task' = [task EXCEPT ![p] = [k \in Permit |-> Idle]]
    /\ offer' = {o \in offer : o.proc # p}
    /\ UNCHANGED <<job, novel, text>>

Step(p, k) ==
    \/ Claim(p, k) \/ MarkExhausted(p, k) \/ Load(p, k) \/ Replay(p, k)
    \/ Repair(p, k) \/ Repaired(p, k) \/ ReplaceCharacters(p, k)
    \/ ReplaceNodes(p, k) \/ RecordEnrichment(p, k) \/ FindCanon(p, k)
    \/ Extract(p, k) \/ InsertCanon(p, k) \/ Complete(p, k)
    \/ StepFails(p, k) \/ FailImport(p, k)

Next ==
    \/ \E p \in Proc, batch \in SUBSET Novel :
         \E first \in batch, parsed \in SUBSET batch : Accept(p, batch, parsed, first)
    \/ \E p \in Proc : Scan(p) \/ Crash(p)
    \/ \E p \in Proc, n \in Novel : AskRetry(p, n)
    \/ \E o \in offer : Admit(o) \/ Decline(o)
    \/ \E p \in Proc, k \in Permit : Step(p, k) \/ ClaimErrs(p, k) \/ Renew(p, k)
    \/ \E n \in Novel : Expire(n)

Spec == Init /\ [][Next]_vars

(* Tasks make progress (every provider call has a deadline), offers are    *)
(* taken up, the scan comes round every 30 seconds, a lease nobody renews  *)
(* runs out, and the database does not refuse claims for ever (the strong  *)
(* fairness).  Nobody has to upload, retry or crash.                       *)
Abandoned(n) == \A p \in Proc, k \in Permit : ~(Runs(p, k, n) /\ Held(task[p][k]))

Fairness ==
    /\ \A p \in Proc : WF_vars(Scan(p))
    /\ \A p \in Proc, n \in Novel, b \in By :
         LET o == [proc |-> p, novel |-> n, by |-> b] IN WF_vars(Admit(o) \/ Decline(o))
    /\ \A p \in Proc, k \in Permit :
         /\ WF_vars(Step(p, k))
         /\ SF_vars(Claim(p, k))
         /\ SF_vars(MarkExhausted(p, k))
    /\ \A n \in Novel : WF_vars(Abandoned(n) /\ Expire(n))

LiveSpec == Spec /\ Fairness

--------------------------------------------------------------------------------
(* Properties *)

Chapters == [by : 0 .. MAX_IMPORT_ATTEMPTS, round : 0 .. REPAIR_ROUNDS, count : Nat]
Cast     == [by : 0 .. MAX_IMPORT_ATTEMPTS, of : Chapters]

(* The types of the rows and of the tasks. *)
TypeOK ==
    /\ job \in [Novel -> [stage : Stage, status : Status,
                          attempt : 0 .. MAX_IMPORT_ATTEMPTS,
                          lease : {"none", "live", "expired"},
                          failure : {"none", "failed", "budget_exhausted"}]]
    /\ novel \in [Novel -> [status : {"pending", "parsing", "ready", "error"}, total : Nat]]
    /\ text \in [Novel -> [chapters : Chapters, characters : Cast, nodes : Chapters,
                           canon : [of : Chapters, cast : Cast], checkpoint : Chapters]]
    /\ task \in [Proc -> [Permit ->
                   [pc : Working \cup {"idle", "claim", "mark", "fail"},
                    novel : Novel \cup {NoNovel}, by : By,
                    attempt : 0 .. MAX_IMPORT_ATTEMPTS, stage : Stage,
                    chapters : Chapters, cast : Cast, round : 0 .. REPAIR_ROUNDS]]]
    /\ offer \subseteq [proc : Proc, novel : Novel, by : By]
    /\ crashes \in 0 .. MaxCrashes

(* A novel a reader may open is one import: whatever attempts, repairs,    *)
(* cancelled tasks and crashes came before, its characters, its nodes, its *)
(* count and its canon model were all derived from the chapters and the    *)
(* characters that are stored, and no checkpoint of an extraction is left. *)
ReadyIsCoherent == \A n \in Novel : novel[n].status = "ready" =>
    /\ text[n].chapters.count > 0
    /\ novel[n].total = text[n].chapters.count
    /\ text[n].characters.of = text[n].chapters
    /\ text[n].nodes = text[n].chapters
    /\ text[n].canon = [of |-> text[n].chapters, cast |-> text[n].characters]
    /\ text[n].checkpoint = NoChapters

(* The stage a crash resumes from is kept: once it is enriched, nothing    *)
(* an older attempt still does changes the chapters, the characters or the *)
(* nodes, and the stage does not go back.                                  *)
EnrichedIsFrozen == [][\A n \in Novel : job[n].stage \in {"enriched", "completed"} =>
    /\ job'[n].stage \in {job[n].stage, "completed"}
    /\ text'[n].chapters = text[n].chapters
    /\ text'[n].characters = text[n].characters
    /\ text'[n].nodes = text[n].nodes]_vars

(* A completed job and one whose attempts are used up stay as they are,    *)
(* and so do the novel and its text: no late failure, claim or mark of     *)
(* another task takes a ready novel back or revives an exhausted job.      *)
SettledIsFinal == [][\A n \in Novel : job[n].status = "completed" \/ Exhausted(n) =>
    job'[n] = job[n] /\ novel'[n] = novel[n] /\ text'[n] = text[n]]_vars

(* mark_import_budget_exhausted is about "a claimable job at the attempt   *)
(* ceiling": the last attempt, while a task is working under its live      *)
(* lease, is not ended by another claim that came too early.               *)
LastAttemptSurvives == [][\A n \in Novel :
    ~Exhausted(n) /\ Exhausted(n)' /\ job[n].lease = "live" => Abandoned(n)]_vars

(* An accepted import is settled: every claim is one of a bounded number   *)
(* of attempts, and a job whose task died is found again.                  *)
Settles == \A n \in Novel :
    n \in Accepted ~> job[n].status \in {"completed", "failed"}

--------------------------------------------------------------------------------
(* The abstract specification *)

Analysed == {n \in Novel : job[n].stage \in {"enriched", "completed"}}

Modelled == {n \in Novel : text[n].canon # NoCanon}

Book(n) == [chapters |-> text[n].chapters, characters |-> text[n].characters,
            nodes |-> text[n].nodes, total |-> novel[n].total]

Promise == INSTANCE Catalogue WITH
    Limit <- MAX_IMPORT_ATTEMPTS,
    Batch <- MAX_BATCH_IMPORTS,
    accepted <- Accepted,
    tries <- [n \in Novel |-> job[n].attempt],
    book <- [n \in Analysed |-> Book(n)],
    canon <- [n \in Modelled |-> text[n].canon],
    ready <- {n \in Novel : novel[n].status = "ready"},
    lost <- {n \in Novel : Exhausted(n)}

(* All attempts, stalled, cancelled and fenced tasks, repairs and crashes  *)
(* of an import together make one book and one model of it, once, and end  *)
(* once: what is stored beside them is replaced without anybody noticing.  *)
ImplementsCatalogue == Promise!Spec

================================================================================
