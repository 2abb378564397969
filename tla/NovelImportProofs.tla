------------------------- MODULE NovelImportProofs -------------------------
(***************************************************************************)
(* For any number of novels, readers, processes, permits, attempts, repair *)
(* rounds and crashes: a novel that is ready is one import, and what an    *)
(* attempt has settled no other task undoes.                               *)
(***************************************************************************)
EXTENDS NovelImport, FiniteSetTheorems, WellFoundedInduction, TLAPS

(* The rows, by name. *)
JobRow   == [stage : Stage, status : Status, attempt : 0 .. MAX_IMPORT_ATTEMPTS,
             lease : {"none", "live", "expired"}, failure : {"none", "failed", "budget_exhausted"}]
NovelRow == [status : {"pending", "parsing", "ready", "error"}, total : Nat]
TextRow  == [chapters : Chapters, characters : Cast, nodes : Chapters,
             canon : [of : Chapters, cast : Cast], checkpoint : Chapters]
Task     == [pc : Working \cup {"idle", "claim", "mark", "fail"},
             novel : Novel \cup {NoNovel}, by : By,
             attempt : 0 .. MAX_IMPORT_ATTEMPTS, stage : Stage,
             chapters : Chapters, cast : Cast, round : 0 .. REPAIR_ROUNDS]

(* The tasks that have claimed. *)
Claimed == Working \cup {"fail"}

(* What the job of a novel says: a completed job is one of a completed     *)
(* stage, only a claimed one has a lease, an exhausted one has used its    *)
(* attempts up, only a completed one is of a novel that is ready, and      *)
(* nothing is stored before the upload.                                    *)
JobSound(n) ==
    /\ job[n].status = "completed" <=> job[n].stage = "completed"
    /\ job[n].lease # "none" => job[n].status = "in_progress"
    /\ Exhausted(n) => job[n].attempt = MAX_IMPORT_ATTEMPTS
    /\ novel[n].status = "ready" => job[n].status = "completed"
    /\ job[n].status = "absent" => job[n] = NoJob /\ text[n] = NoText

(* A task has a novel; one that claimed it has an attempt that was given,  *)
(* and never resumes a completed import.                                   *)
TaskSound(t) ==
    /\ t.pc # "idle" => t.novel \in Novel
    /\ t.pc \in Claimed => t.attempt <= job[t.novel].attempt
    /\ t.pc = "load" => t.stage # "completed"

TypeInv ==
    /\ TypeOK
    /\ \A n \in Novel : JobSound(n)
    /\ \A p \in Proc, k \in Permit : TaskSound(task[p][k])

(* The text of a stage: chapters once there are any, and from "enriched"   *)
(* on everything derived from them; the canon model comes last and takes   *)
(* the checkpoint with it.                                                 *)
TextSound(n) == LET x == text[n] IN
    /\ job[n].stage # "source" => x.chapters.count > 0
    /\ job[n].stage \in {"source", "chapters"} => x.canon = NoCanon
    /\ job[n].stage \in {"enriched", "completed"} =>
         /\ x.characters.of = x.chapters /\ x.nodes = x.chapters
         /\ novel[n].total = x.chapters.count
         /\ x.canon \in {NoCanon, [of |-> x.chapters, cast |-> x.characters]}
    /\ job[n].stage = "completed" => x.canon # NoCanon
    /\ x.canon # NoCanon => x.checkpoint = NoChapters

(* What a task that holds its row knows of it. *)
FollowsRow(t, stage, x) ==
    /\ t.pc = "load" => t.stage = stage
    /\ t.pc = "replay" => stage = "source"
    /\ t.pc \in {"repair", "characters", "nodes", "record"} => stage = "chapters" /\ t.chapters = x.chapters
    /\ t.pc \in {"nodes", "record"} => t.cast = x.characters /\ x.characters.of = x.chapters
    /\ t.pc = "record" => x.nodes = x.chapters
    /\ t.pc \in {"canon", "extract", "model", "complete"} =>
         stage = "enriched" /\ t.chapters = x.chapters /\ t.cast = x.characters
    /\ t.pc \in {"extract", "model"} => x.canon = NoCanon

Follows(t) == FollowsRow(t, job[t.novel].stage, text[t.novel])

TaskFollows(t) == t.pc \in Working /\ Held(t) => Follows(t)

(* No two tasks have claimed the same attempt. *)
OneHolder == \A p, q \in Proc, k, l \in Permit :
    /\ task[p][k].pc \in Claimed /\ task[q][l].pc \in Claimed
    /\ task[p][k].novel = task[q][l].novel /\ task[p][k].attempt = task[q][l].attempt
    => p = q /\ k = l

ImportInv ==
    /\ TypeInv
    /\ \A n \in Novel : TextSound(n)
    /\ \A p \in Proc, k \in Permit : TaskFollows(task[p][k])
    /\ OneHolder

--------------------------------------------------------------------------------
(* Rows and tasks *)

RowsTyped  == job \in [Novel -> JobRow] /\ novel \in [Novel -> NovelRow] /\ text \in [Novel -> TextRow]
TasksTyped == task \in [Proc -> [Permit -> Task]]
RestTyped  == offer \subseteq [proc : Proc, novel : Novel, by : By] /\ crashes \in 0 .. MaxCrashes

LEMMA TypeParts == TypeOK <=> RowsTyped /\ TasksTyped /\ RestTyped
BY DEF TypeOK, RowsTyped, TasksTyped, RestTyped, JobRow, NovelRow, TextRow, Task

LEMMA TypePartsNext == TypeOK' <=> RowsTyped' /\ TasksTyped' /\ RestTyped'
BY DEF TypeOK, RowsTyped, TasksTyped, RestTyped, JobRow, NovelRow, TextRow, Task

(* The constant rows. *)
LEMMA ConstantRows ==
  /\ NoChapters \in Chapters /\ NoCast \in Cast /\ NoText \in TextRow /\ NoJob \in JobRow /\ Idle \in Task
  /\ NoText.canon = NoCanon /\ NoText.checkpoint = NoChapters /\ NoText.chapters = NoChapters
  /\ NoChapters.count = 0 /\ NoCanon.of = NoChapters
  /\ NoJob.stage = "source" /\ NoJob.status = "absent" /\ NoJob.lease = "none" /\ NoJob.attempt = 0
  /\ Idle.pc = "idle"
<1> USE ImportConstants
<1>1. NoChapters \in Chapters /\ NoChapters.count = 0
  BY DEF NoChapters, Chapters
<1>2. NoCast \in Cast
  BY <1>1 DEF NoCast, Cast
<1>3. NoCanon \in [of : Chapters, cast : Cast] /\ NoCanon.of = NoChapters
  BY <1>1, <1>2 DEF NoCanon
<1>4. NoText \in TextRow /\ NoText.canon = NoCanon /\ NoText.checkpoint = NoChapters /\ NoText.chapters = NoChapters
  BY <1>1, <1>2, <1>3 DEF NoText, TextRow
<1>5. /\ NoJob \in JobRow
      /\ NoJob.stage = "source" /\ NoJob.status = "absent" /\ NoJob.lease = "none" /\ NoJob.attempt = 0
  BY DEF NoJob, JobRow, Stage, Status
<1>6. Idle \in Task /\ Idle.pc = "idle"
  BY <1>1, <1>2 DEF Idle, Task, By, Stage
<1> QED BY <1>1, <1>2, <1>3, <1>4, <1>5, <1>6

(* A set of chapters with something in it is not the empty one. *)
LEMMA SomeChapters ==
  ASSUME NEW x \in Chapters, x.count > 0
  PROVE  x # NoChapters /\ \A c : [of |-> x, cast |-> c] # NoCanon
<1>1. x # NoChapters
  BY ConstantRows
<1>2. \A c : [of |-> x, cast |-> c].of = x
  OBVIOUS
<1> QED BY <1>1, <1>2, ConstantRows

(* A step of one task. *)
OnlyTask(p, k) ==
    /\ TasksTyped'
    /\ \A q \in Proc, l \in Permit : ~(q = p /\ l = k) => task'[q][l] = task[q][l]

LEMMA SetTask ==
  ASSUME TasksTyped, NEW p \in Proc, NEW k \in Permit, NEW t \in Task,
         task' = [task EXCEPT ![p][k] = t]
  PROVE  OnlyTask(p, k) /\ task'[p][k] = t
BY DEF OnlyTask, TasksTyped

(* A step on one novel. *)
OnlyNovel(n) ==
    /\ RowsTyped'
    /\ \A m \in Novel : m # n => job'[m] = job[m] /\ novel'[m] = novel[m] /\ text'[m] = text[m]

RowsStay == UNCHANGED <<job, novel, text>>

(* The fence of an attempt only falls, and attempts only grow. *)
FenceFalls(n) ==
    /\ job'[n].attempt >= job[n].attempt
    /\ \A a \in 0 .. MAX_IMPORT_ATTEMPTS : a <= job[n].attempt /\ Fenced(n, a)' => Fenced(n, a)

(* What a task may become in a step that is not its own progress. *)
Aside(t, u) ==
    \/ u = t
    \/ u.pc \in {"idle", "claim", "mark"} /\ (u.pc # "idle" => u.novel \in Novel)
    \/ u.pc = "fail" /\ t.pc \in Claimed /\ u.novel = t.novel /\ u.attempt = t.attempt

LEMMA Tasks == ASSUME TypeInv, NEW p \in Proc, NEW k \in Permit
               PROVE  task[p][k] \in Task /\ TaskSound(task[p][k])
BY TypeParts DEF TypeInv, TasksTyped

(* Steps that end, renew or refuse something, and store nothing. *)
LEMMA CalmStep ==
  ASSUME ImportInv, TypeOK', \A n \in Novel : JobSound(n)', text' = text,
         \A n \in Novel : /\ job'[n].stage = job[n].stage /\ novel'[n].total = novel[n].total
                          /\ FenceFalls(n),
         \A p \in Proc, k \in Permit : Aside(task[p][k], task'[p][k])
  PROVE  ImportInv'
<1>t. \A p \in Proc, k \in Permit : task[p][k] \in Task /\ TaskSound(task[p][k]) /\ task'[p][k] \in Task
  BY Tasks, TypePartsNext DEF ImportInv, TasksTyped
<1>j. \A n \in Novel : job[n].attempt \in Nat /\ job'[n].attempt \in Nat
  BY TypeParts, TypePartsNext DEF ImportInv, TypeInv, RowsTyped, JobRow
<1>1. ASSUME NEW p \in Proc, NEW k \in Permit PROVE TaskSound(task[p][k])'
  <2> DEFINE t == task[p][k]  u == task'[p][k]
  <2>1. Aside(t, u) /\ TaskSound(t) /\ t \in Task /\ u \in Task
    BY <1>t
  <2>2. CASE u.pc \in {"idle", "claim", "mark"} /\ (u.pc # "idle" => u.novel \in Novel)
    BY <2>2 DEF TaskSound, Claimed, Working
  <2>3. CASE u.pc # "idle" /\ u.novel = t.novel /\ u.attempt = t.attempt /\ t.pc \in Claimed
             /\ (u.pc = "load" => u = t)
    <3>1. t.novel \in Novel /\ t.attempt <= job[t.novel].attempt
      BY <2>1, <2>3 DEF TaskSound, Claimed, Working
    <3>2. t.attempt \in Nat
      BY <2>1 DEF Task
    <3>3. t.attempt <= job'[t.novel].attempt
      BY <1>j, <3>1, <3>2 DEF FenceFalls
    <3> QED BY <2>1, <2>3, <3>1, <3>3 DEF TaskSound
  <2> QED BY <2>1, <2>2, <2>3 DEF Aside, Task, TaskSound, Claimed, Working
<1>2. \A n \in Novel : TextSound(n)'
  BY DEF ImportInv, TextSound
<1>3. ASSUME NEW p \in Proc, NEW k \in Permit PROVE TaskFollows(task[p][k])'
  <2> DEFINE t == task[p][k]  u == task'[p][k]
  <2> SUFFICES ASSUME u.pc \in Working, Held(task[p][k])' PROVE Follows(task[p][k])'
    BY DEF TaskFollows
  <2>1. u = t
    BY DEF Aside, Working
  <2>2. TaskSound(t) /\ t \in Task /\ t.pc \in Working
    BY <1>t, <2>1
  <2>3. t.novel \in Novel /\ t.attempt <= job[t.novel].attempt /\ t.attempt \in 0 .. MAX_IMPORT_ATTEMPTS
    BY <2>2 DEF TaskSound, Claimed, Working, Task
  <2>4. Held(t)
    BY <2>1, <2>3 DEF FenceFalls, Held
  <2>5. Follows(t)
    BY <2>2, <2>4 DEF ImportInv, TaskFollows
  <2> QED BY <2>1, <2>3, <2>5 DEF Follows, FollowsRow
<1>4. OneHolder'
  <2> SUFFICES ASSUME NEW p \in Proc, NEW q \in Proc, NEW k \in Permit, NEW l \in Permit,
                      task'[p][k].pc \in Claimed, task'[q][l].pc \in Claimed,
                      task'[p][k].novel = task'[q][l].novel,
                      task'[p][k].attempt = task'[q][l].attempt
               PROVE  p = q /\ k = l
    BY DEF OneHolder
  <2>1. ASSUME NEW i \in Proc, NEW j \in Permit, task'[i][j].pc \in Claimed
        PROVE  /\ task[i][j].pc \in Claimed /\ task[i][j].novel = task'[i][j].novel
               /\ task[i][j].attempt = task'[i][j].attempt
    BY <2>1 DEF Aside, Claimed, Working
  <2> QED BY <2>1 DEF ImportInv, OneHolder
<1> QED BY <1>1, <1>2, <1>3, <1>4 DEF ImportInv, TypeInv

(* Steps of a task that goes on: it reads, or it writes under its fence. *)
LEMMA OnwardStep ==
  ASSUME ImportInv, NEW p \in Proc, NEW k \in Permit, NEW n \in Novel,
         task[p][k].pc \in Working, task[p][k].novel = n,
         OnlyTask(p, k), UNCHANGED <<offer, crashes>>,
         task'[p][k].pc \in (Working \ {"load"}) \cup {"idle"},
         task'[p][k].pc # "idle" => /\ task'[p][k].novel = n /\ task'[p][k].attempt = task[p][k].attempt
                                    /\ Held(task[p][k])' => Follows(task[p][k])',
         \/ RowsStay
         \/ /\ Held(task[p][k]) /\ OnlyNovel(n) /\ JobSound(n)' /\ TextSound(n)'
            /\ job'[n].attempt = job[n].attempt
  PROVE  ImportInv'
<1> DEFINE t == task[p][k]  u == task'[p][k]
<1>0. RowsTyped /\ TasksTyped /\ RestTyped /\ t \in Task /\ TaskSound(t)
  BY TypeParts, Tasks DEF ImportInv, TypeInv
<1>j. job[n].attempt \in Nat
  BY <1>0 DEF RowsTyped, JobRow
<1>1. TypeOK'
  BY <1>0, TypePartsNext DEF OnlyTask, OnlyNovel, RowsStay, RowsTyped, RestTyped
<1>2. \A m \in Novel : JobSound(m)' /\ TextSound(m)' /\ job'[m].attempt = job[m].attempt
  <2>1. CASE RowsStay
    BY <2>1 DEF ImportInv, TypeInv, RowsStay, JobSound, TextSound, Exhausted
  <2>2. CASE OnlyNovel(n) /\ JobSound(n)' /\ TextSound(n)' /\ job'[n].attempt = job[n].attempt
    BY <2>2 DEF ImportInv, TypeInv, OnlyNovel, JobSound, TextSound, Exhausted
  <2> QED BY <2>1, <2>2
<1>3. ASSUME NEW q \in Proc, NEW l \in Permit PROVE TaskSound(task[q][l])'
  <2>1. TaskSound(task[q][l])
    BY DEF ImportInv, TypeInv
  <2>2. CASE ~(q = p /\ l = k)
    BY <1>2, <2>1, <2>2 DEF OnlyTask, TaskSound, Claimed, Working
  <2>3. CASE q = p /\ l = k
    BY <1>0, <1>2, <2>3 DEF TaskSound, Claimed, Working
  <2> QED BY <2>2, <2>3
<1>4. ASSUME NEW q \in Proc, NEW l \in Permit PROVE TaskFollows(task[q][l])'
  <2>1. CASE q = p /\ l = k
    BY <2>1 DEF TaskFollows, Working
  <2>2. CASE ~(q = p /\ l = k)
    <3> DEFINE w == task[q][l]
    <3> SUFFICES ASSUME w.pc \in Working, Held(task[q][l])' PROVE Follows(task[q][l])'
      BY <2>2 DEF TaskFollows, OnlyTask
    <3>0. task'[q][l] = w
      BY <2>2 DEF OnlyTask
    <3>1. w.novel \in Novel /\ TaskFollows(w)
      BY Tasks DEF ImportInv, TaskSound, Working
    <3>2. CASE RowsStay \/ (OnlyNovel(n) /\ w.novel # n)
      <4>1. job'[w.novel] = job[w.novel] /\ text'[w.novel] = text[w.novel]
        BY <3>1, <3>2 DEF RowsStay, OnlyNovel
      <4>2. Held(w)
        BY <3>0, <4>1 DEF Held, Fenced
      <4>3. Follows(w)
        BY <3>1, <4>2 DEF TaskFollows
      <4> QED BY <3>0, <4>1, <4>3 DEF Follows
    <3>3. CASE Held(t) /\ w.novel = n
      <4>1. w.attempt = t.attempt
        BY <1>2, <3>0, <3>1, <3>3 DEF Held, Fenced
      <4> QED BY <2>2, <3>3, <4>1 DEF ImportInv, OneHolder, Claimed
    <3> QED BY <3>2, <3>3
  <2> QED BY <2>1, <2>2
<1>5. OneHolder'
  <2>1. ASSUME NEW i \in Proc, NEW j \in Permit, task'[i][j].pc \in Claimed
        PROVE  /\ task[i][j].pc \in Claimed /\ task[i][j].novel = task'[i][j].novel
               /\ task[i][j].attempt = task'[i][j].attempt
    BY <2>1 DEF OnlyTask, Claimed, Working
  <2> QED BY <2>1 DEF ImportInv, OneHolder
<1> QED BY <1>1, <1>2, <1>3, <1>4, <1>5 DEF ImportInv, TypeInv

(* How a task moves *)

Steps == Working \cup {"idle", "claim", "mark", "fail"}

LEMMA GotoDoes ==
  ASSUME TasksTyped, NEW p \in Proc, NEW k \in Permit, NEW pc \in Steps, Goto(p, k, pc)
  PROVE  OnlyTask(p, k) /\ task'[p][k] = [task[p][k] EXCEPT !.pc = pc]
<1>0. task[p][k] \in Task
  BY DEF TasksTyped
<1>1. [task[p][k] EXCEPT !.pc = pc] \in Task
  BY <1>0 DEF Task, Steps
<1>2. task' = [task EXCEPT ![p][k] = [task[p][k] EXCEPT !.pc = pc]]
  BY DEF Goto, TasksTyped
<1> QED BY <1>1, <1>2, SetTask

LEMMA LostDoes ==
  ASSUME TasksTyped, NEW p \in Proc, NEW k \in Permit, task' = [task EXCEPT ![p][k] = Idle]
  PROVE  OnlyTask(p, k) /\ task'[p][k] = Idle
BY ConstantRows, SetTask

(* The rows of one novel are set. *)
RowsBecome(n, j, v, x) ==
    /\ job' = [job EXCEPT ![n] = j] \/ (job' = job /\ j = job[n])
    /\ novel' = [novel EXCEPT ![n] = v] \/ (novel' = novel /\ v = novel[n])
    /\ text' = [text EXCEPT ![n] = x] \/ (text' = text /\ x = text[n])

LEMMA RowsSet ==
  ASSUME RowsTyped, NEW n \in Novel, NEW j \in JobRow, NEW v \in NovelRow, NEW x \in TextRow,
         RowsBecome(n, j, v, x)
  PROVE  OnlyNovel(n) /\ job'[n] = j /\ novel'[n] = v /\ text'[n] = x
<1>1. job' \in [Novel -> JobRow] /\ job'[n] = j /\ \A m \in Novel : m # n => job'[m] = job[m]
  BY DEF RowsTyped, RowsBecome
<1>2. novel' \in [Novel -> NovelRow] /\ novel'[n] = v /\ \A m \in Novel : m # n => novel'[m] = novel[m]
  BY DEF RowsTyped, RowsBecome
<1>3. text' \in [Novel -> TextRow] /\ text'[n] = x /\ \A m \in Novel : m # n => text'[m] = text[m]
  BY DEF RowsTyped, RowsBecome
<1> QED BY <1>1, <1>2, <1>3 DEF OnlyNovel, RowsTyped

(* The rows, one by one. *)
LEMMA RowOf ==
  ASSUME ImportInv, NEW n \in Novel
  PROVE  job[n] \in JobRow /\ novel[n] \in NovelRow /\ text[n] \in TextRow /\ JobSound(n) /\ TextSound(n)
BY TypeParts DEF ImportInv, TypeInv, RowsTyped

(* A fence falls when no attempt is added and no job is taken up again. *)
LEMMA SameFence ==
  ASSUME NEW n \in Novel, job[n].attempt \in Nat, job'[n].attempt = job[n].attempt,
         job'[n].status = "in_progress" => job[n].status = "in_progress"
  PROVE  FenceFalls(n)
BY DEF FenceFalls, Fenced

(* A task that stands aside, and leaves the tables alone. *)
LEMMA AsideStep ==
  ASSUME ImportInv, NEW p \in Proc, NEW k \in Permit, OnlyTask(p, k),
         Aside(task[p][k], task'[p][k]), RowsStay, UNCHANGED <<offer, crashes>>
  PROVE  ImportInv'
<1>1. RowsTyped /\ TasksTyped /\ RestTyped
  BY TypeParts DEF ImportInv, TypeInv
<1>2. TypeOK'
  BY <1>1, TypePartsNext DEF OnlyTask, RowsStay, RowsTyped, RestTyped
<1>3. \A n \in Novel : JobSound(n)'
  BY DEF ImportInv, TypeInv, RowsStay, JobSound, Exhausted
<1>4. \A n \in Novel : FenceFalls(n)
  BY <1>1, SameFence DEF RowsStay, RowsTyped, JobRow
<1>5. \A q \in Proc, l \in Permit : Aside(task[q][l], task'[q][l])
  BY DEF OnlyTask, Aside
<1> QED BY <1>2, <1>3, <1>4, <1>5, CalmStep DEF RowsStay

(* A step that ends a job's attempt or touches its lease. *)
LEMMA LeaseStep ==
  ASSUME ImportInv, NEW n \in Novel, OnlyNovel(n), TasksTyped',
         \A q \in Proc, l \in Permit : Aside(task[q][l], task'[q][l]),
         UNCHANGED <<text, offer, crashes>>, JobSound(n)',
         job'[n].stage = job[n].stage, job'[n].attempt = job[n].attempt,
         job'[n].status = "in_progress" => job[n].status = "in_progress",
         novel'[n].total = novel[n].total
  PROVE  ImportInv'
<1>1. RowsTyped /\ TasksTyped /\ RestTyped
  BY TypeParts DEF ImportInv, TypeInv
<1>2. TypeOK'
  BY <1>1, TypePartsNext DEF OnlyNovel, RestTyped
<1>3. \A m \in Novel : JobSound(m)'
  BY DEF ImportInv, TypeInv, OnlyNovel, JobSound, Exhausted
<1>4. \A m \in Novel : FenceFalls(m)
  BY <1>1, SameFence DEF OnlyNovel, RowsTyped, JobRow
<1> QED BY <1>2, <1>3, <1>4, CalmStep DEF OnlyNovel

(* The claim, its refusal, and the steps that end a task. *)
LEMMA ClaimStep ==
  ASSUME ImportInv, NEW p \in Proc, NEW k \in Permit, NEW n \in Novel, task[p][k].novel = n, Claim(p, k)
  PROVE  ImportInv'
<1> DEFINE t == task[p][k]  u == task'[p][k]
<1> USE ImportConstants
<1>0. RowsTyped /\ TasksTyped /\ RestTyped /\ t \in Task /\ t.pc = "claim"
  BY TypeParts, Tasks DEF ImportInv, TypeInv, Claim
<1>u. UNCHANGED <<text, offer, crashes>>
  BY DEF Claim
<1>1. CASE ~Claimable(n)
  <2>1. Goto(p, k, "mark") /\ RowsStay
    BY <1>1, <1>u DEF Claim, Goto, RowsStay
  <2>2. OnlyTask(p, k) /\ u = [t EXCEPT !.pc = "mark"]
    BY <1>0, <2>1, GotoDoes DEF Steps
  <2>3. Aside(t, u)
    BY <1>0, <2>2 DEF Aside, Task
  <2> QED BY <1>u, <2>1, <2>2, <2>3, AsideStep
<1>2. CASE Claimable(n)
  <2> DEFINE j == job[n]
  <2>1. /\ job[n] \in JobRow /\ novel[n] \in NovelRow /\ JobSound(n)
        /\ j.attempt \in 0 .. MAX_IMPORT_ATTEMPTS /\ j.attempt < MAX_IMPORT_ATTEMPTS
        /\ j.status \in {"pending", "failed", "in_progress"} /\ j.stage \in Stage \ {"completed"}
    BY <1>0, <1>2 DEF RowsTyped, JobRow, Claimable, ImportInv, TypeInv, JobSound
  <2>2. j.attempt + 1 \in 0 .. MAX_IMPORT_ATTEMPTS
    BY <2>1
  <2> DEFINE j2 == [j EXCEPT !.status = "in_progress", !.attempt = j.attempt + 1,
                             !.lease = "live", !.failure = "none"]
             v2 == [novel[n] EXCEPT !.status = "parsing"]
  <2>3. j2 \in JobRow /\ v2 \in NovelRow /\ text[n] \in TextRow
    BY <1>0, <2>1, <2>2 DEF JobRow, NovelRow, Status, RowsTyped
  <2>4. RowsBecome(n, j2, v2, text[n])
    BY <1>2 DEF Claim, NextAttempt, RowsBecome
  <2>5. /\ j2.attempt = j.attempt + 1 /\ j2.status = "in_progress" /\ j2.failure = "none"
        /\ j2.lease = "live" /\ j2.stage = j.stage /\ v2.status = "parsing" /\ v2.total = novel[n].total
    BY <2>1 DEF JobRow, NovelRow
  <2> HIDE DEF j2, v2
  <2>6. OnlyNovel(n) /\ job'[n] = j2 /\ novel'[n] = v2
    BY <1>0, <1>u, <2>3, <2>4, RowsSet
  <2>7. /\ job'[n].attempt = j.attempt + 1 /\ job'[n].status = "in_progress"
        /\ job'[n].lease = "live" /\ job'[n].stage = j.stage /\ novel'[n].status = "parsing"
        /\ novel'[n].total = novel[n].total /\ job'[n].failure = "none"
    BY <2>5, <2>6
  <2>8. OnlyTask(p, k) /\ u = [t EXCEPT !.pc = "load", !.attempt = j.attempt + 1, !.stage = j.stage]
    <3> DEFINE v == [t EXCEPT !.pc = "load", !.attempt = j.attempt + 1, !.stage = j.stage]
    <3>1. v \in Task
      BY <1>0, <2>1, <2>2 DEF Task, Working
    <3>2. task' = [task EXCEPT ![p][k] = v]
      BY <1>2 DEF Claim, NextAttempt
    <3> HIDE DEF v
    <3>3. OnlyTask(p, k) /\ u = v
      BY <1>0, <3>1, <3>2, SetTask
    <3> QED BY <3>3 DEF v
  <2>9. u.pc = "load" /\ u.novel = n /\ u.attempt = j.attempt + 1 /\ u.stage = j.stage
    BY <1>0, <2>8 DEF Task
  <2>10. TypeOK'
    BY <1>0, <1>u, <2>6, <2>8, TypePartsNext DEF OnlyTask, OnlyNovel, RestTyped
  <2>11. \A m \in Novel : JobSound(m)' /\ TextSound(m)'
    <3> SUFFICES ASSUME NEW m \in Novel PROVE JobSound(m)' /\ TextSound(m)'
      OBVIOUS
    <3>1. JobSound(m) /\ TextSound(m) /\ text' = text
      BY <1>u DEF ImportInv, TypeInv
    <3>2. CASE m # n
      BY <2>6, <3>1, <3>2 DEF OnlyNovel, JobSound, TextSound, Exhausted
    <3>3. CASE m = n
      <4>1. JobSound(n)'
        BY <2>1, <2>7 DEF JobSound, Exhausted
      <4>2. TextSound(n)'
        BY <2>7, <3>1, <3>3 DEF TextSound
      <4> QED BY <3>3, <4>1, <4>2
    <3> QED BY <3>2, <3>3
  <2>12. \A q \in Proc, l \in Permit : ~(q = p /\ l = k) /\ task[q][l].pc \in Claimed =>
            /\ task[q][l].novel \in Novel /\ task[q][l].attempt \in Nat
            /\ task[q][l].attempt <= job[task[q][l].novel].attempt
    BY Tasks DEF ImportInv, TaskSound, Claimed, Working, Task
  <2>13. ASSUME NEW q \in Proc, NEW l \in Permit PROVE TaskSound(task[q][l])' /\ TaskFollows(task[q][l])'
    <3>1. CASE q = p /\ l = k
      <4>1. TaskSound(task[q][l])'
        BY <1>0, <2>1, <2>7, <2>9, <3>1 DEF TaskSound
      <4>2. TaskFollows(task[q][l])'
        BY <2>7, <2>9, <3>1 DEF TaskFollows, Follows, FollowsRow
      <4> QED BY <4>1, <4>2
    <3>2. CASE ~(q = p /\ l = k)
      <4> DEFINE w == task[q][l]
      <4>1. task'[q][l] = w /\ TaskSound(w) /\ TaskFollows(w) /\ w \in Task
        BY <2>8, <3>2, Tasks DEF OnlyTask, ImportInv
      <4>2. CASE w.novel # n \/ w.pc \notin Claimed
        BY <1>u, <2>6, <4>1, <4>2 DEF OnlyNovel, TaskSound, TaskFollows, Follows, FollowsRow, Held, Fenced, Claimed, Working
      <4>3. CASE w.novel = n /\ w.pc \in Claimed
        <5>1. w.attempt \in Nat /\ w.attempt <= j.attempt
          BY <2>12, <3>2, <4>3
        <5>2. ~Held(task[q][l])'
          BY <2>1, <2>7, <4>1, <4>3, <5>1 DEF Held, Fenced
        <5> QED BY <2>1, <2>7, <4>1, <4>3, <5>1, <5>2 DEF TaskSound, TaskFollows
      <4> QED BY <4>2, <4>3
    <3> QED BY <3>1, <3>2
  <2>14. OneHolder'
    <3> SUFFICES ASSUME NEW q \in Proc, NEW r \in Proc, NEW l \in Permit, NEW m \in Permit,
                        task'[q][l].pc \in Claimed, task'[r][m].pc \in Claimed,
                        task'[q][l].novel = task'[r][m].novel,
                        task'[q][l].attempt = task'[r][m].attempt, ~(r = p /\ m = k)
                 PROVE  q = r /\ l = m
      BY DEF OneHolder
    <3>1. task'[r][m] = task[r][m]
      BY <2>8 DEF OnlyTask
    <3>2. CASE q = p /\ l = k
      BY <2>1, <2>9, <2>12, <3>1, <3>2
    <3>3. CASE ~(q = p /\ l = k)
      BY <2>8, <3>1, <3>3 DEF OnlyTask, ImportInv, OneHolder
    <3> QED BY <3>2, <3>3
  <2> QED BY <2>10, <2>11, <2>13, <2>14 DEF ImportInv, TypeInv
<1> QED BY <1>1, <1>2

LEMMA MarkStep ==
  ASSUME ImportInv, NEW p \in Proc, NEW k \in Permit, NEW n \in Novel, task[p][k].novel = n, MarkExhausted(p, k)
  PROVE  ImportInv'
<1> DEFINE t == task[p][k]
<1> USE ImportConstants
<1>0. RowsTyped /\ TasksTyped /\ RestTyped /\ t \in Task /\ t.pc = "mark"
  BY TypeParts, Tasks DEF ImportInv, TypeInv, MarkExhausted
<1>1. OnlyTask(p, k) /\ task'[p][k] = Idle /\ UNCHANGED <<text, offer, crashes>>
  BY <1>0, LostDoes DEF MarkExhausted
<1>2. \A q \in Proc, l \in Permit : Aside(task[q][l], task'[q][l])
  BY <1>1, ConstantRows DEF Aside, OnlyTask
<1>3. CASE RowsStay
  BY <1>1, <1>2, <1>3, AsideStep
<1>4. CASE ~RowsStay
  <2>1. /\ job[n].attempt >= MAX_IMPORT_ATTEMPTS /\ job[n].status # "completed"
        /\ job' = [job EXCEPT ![n] = [@ EXCEPT !.status = "failed", !.lease = "none",
                                                !.failure = "budget_exhausted"]]
        /\ novel' = [novel EXCEPT ![n].status = IF @ = "ready" THEN @ ELSE "error"]
    BY <1>1, <1>4 DEF MarkExhausted, RowsStay
  <2> DEFINE j == [job[n] EXCEPT !.status = "failed", !.lease = "none", !.failure = "budget_exhausted"]
             v == [novel[n] EXCEPT !.status = IF @ = "ready" THEN @ ELSE "error"]
  <2>2. job[n] \in JobRow /\ novel[n] \in NovelRow /\ text[n] \in TextRow
    BY <1>0 DEF RowsTyped
  <2>3. j \in JobRow /\ v \in NovelRow
    BY <2>2 DEF JobRow, NovelRow, Status
  <2>3a. /\ j.stage = job[n].stage /\ j.attempt = job[n].attempt /\ j.failure = "budget_exhausted"
         /\ j.status = "failed" /\ j.lease = "none"
         /\ v.total = novel[n].total /\ (v.status = "ready" => novel[n].status = "ready")
    BY <2>2 DEF JobRow, NovelRow
  <2>3b. RowsBecome(n, j, v, text[n])
    BY <1>1, <2>1 DEF RowsBecome
  <2> HIDE DEF j, v
  <2>4. OnlyNovel(n) /\ job'[n] = j /\ novel'[n] = v
    BY <1>0, <1>1, <2>2, <2>3, <2>3b, RowsSet
  <2>5. /\ job'[n].stage = job[n].stage /\ job'[n].attempt = job[n].attempt
        /\ job'[n].status = "failed" /\ job'[n].lease = "none" /\ job'[n].failure = "budget_exhausted"
        /\ novel'[n].total = novel[n].total /\ (novel'[n].status = "ready" => novel[n].status = "ready")
    BY <2>3a, <2>4
  <2>6. JobSound(n) /\ job[n].attempt \in 0 .. MAX_IMPORT_ATTEMPTS
    BY <1>0 DEF ImportInv, TypeInv, RowsTyped, JobRow
  <2>7. JobSound(n)'
    BY <2>1, <2>5, <2>6 DEF JobSound, Exhausted
  <2> QED BY <1>0, <1>1, <1>2, <2>4, <2>5, <2>7, LeaseStep DEF OnlyTask
<1> QED BY <1>3, <1>4

LEMMA FailStep ==
  ASSUME ImportInv, NEW p \in Proc, NEW k \in Permit, NEW n \in Novel, task[p][k].novel = n, FailImport(p, k)
  PROVE  ImportInv'
<1> DEFINE t == task[p][k]
<1> USE ImportConstants
<1>0. RowsTyped /\ TasksTyped /\ RestTyped /\ t \in Task /\ t.pc = "fail"
  BY TypeParts, Tasks DEF ImportInv, TypeInv, FailImport
<1>1. OnlyTask(p, k) /\ task'[p][k] = Idle /\ UNCHANGED <<text, offer, crashes>>
  BY <1>0, LostDoes DEF FailImport
<1>2. \A q \in Proc, l \in Permit : Aside(task[q][l], task'[q][l])
  BY <1>1, ConstantRows DEF Aside, OnlyTask
<1>3. CASE RowsStay
  BY <1>1, <1>2, <1>3, AsideStep
<1>4. CASE ~RowsStay
  <2>1. /\ job[n].status = "in_progress"
        /\ job' = [job EXCEPT ![n] = [@ EXCEPT !.status = "failed", !.lease = "none",
                                                !.failure = "failed"]]
        /\ novel' = [novel EXCEPT ![n].status = "error"]
    BY <1>1, <1>4 DEF FailImport, RowsStay, Held, Fenced
  <2> DEFINE j == [job[n] EXCEPT !.status = "failed", !.lease = "none", !.failure = "failed"]
             v == [novel[n] EXCEPT !.status = "error"]
  <2>2. job[n] \in JobRow /\ novel[n] \in NovelRow /\ text[n] \in TextRow
    BY <1>0 DEF RowsTyped
  <2>3. j \in JobRow /\ v \in NovelRow
    BY <2>2 DEF JobRow, NovelRow, Status
  <2>3a. /\ j.stage = job[n].stage /\ j.attempt = job[n].attempt /\ j.failure = "failed"
         /\ j.status = "failed" /\ j.lease = "none"
         /\ v.total = novel[n].total /\ v.status = "error"
    BY <2>2 DEF JobRow, NovelRow
  <2>3b. RowsBecome(n, j, v, text[n])
    BY <1>1, <2>1 DEF RowsBecome
  <2> HIDE DEF j, v
  <2>4. OnlyNovel(n) /\ job'[n] = j /\ novel'[n] = v
    BY <1>0, <1>1, <2>2, <2>3, <2>3b, RowsSet
  <2>5. /\ job'[n].stage = job[n].stage /\ job'[n].attempt = job[n].attempt
        /\ job'[n].status = "failed" /\ job'[n].lease = "none" /\ job'[n].failure = "failed"
        /\ novel'[n].total = novel[n].total /\ novel'[n].status = "error"
    BY <2>3a, <2>4
  <2>6. JobSound(n)
    BY <1>0 DEF ImportInv, TypeInv
  <2>7. JobSound(n)'
    BY <2>1, <2>5, <2>6 DEF JobSound, Exhausted
  <2> QED BY <1>0, <1>1, <1>2, <2>4, <2>5, <2>7, LeaseStep DEF OnlyTask
<1> QED BY <1>3, <1>4

(* Steps that store nothing. *)
LEMMA QuietStep ==
  ASSUME ImportInv, RowsStay, TasksTyped', RestTyped',
         \A q \in Proc, l \in Permit : Aside(task[q][l], task'[q][l])
  PROVE  ImportInv'
<1>1. RowsTyped
  BY TypeParts DEF ImportInv, TypeInv
<1>2. TypeOK'
  BY <1>1, TypePartsNext DEF RowsStay, RowsTyped
<1>3. \A n \in Novel : JobSound(n)'
  BY DEF ImportInv, TypeInv, RowsStay, JobSound, Exhausted
<1>4. \A n \in Novel : FenceFalls(n)
  BY <1>1, SameFence DEF RowsStay, RowsTyped, JobRow
<1> QED BY <1>2, <1>3, <1>4, CalmStep DEF RowsStay

(* The offers. *)
LEMMA OfferStep ==
  ASSUME ImportInv, RowsStay, UNCHANGED <<task, crashes>>, RestTyped'
  PROVE  ImportInv'
<1>1. TasksTyped'
  BY TypeParts DEF ImportInv, TypeInv, TasksTyped
<1> QED BY <1>1, QuietStep DEF Aside

LEMMA ScanStep == ASSUME ImportInv, NEW p \in Proc, Scan(p) PROVE ImportInv'
<1>1. RestTyped'
  BY TypeParts DEF ImportInv, TypeInv, RestTyped, Scan, By
<1> QED BY <1>1, OfferStep DEF Scan, RowsStay

LEMMA AskRetryStep == ASSUME ImportInv, NEW p \in Proc, NEW n \in Novel, AskRetry(p, n) PROVE ImportInv'
<1>1. RestTyped'
  BY TypeParts DEF ImportInv, TypeInv, RestTyped, AskRetry, By
<1> QED BY <1>1, OfferStep DEF AskRetry, RowsStay

LEMMA DeclineStep == ASSUME ImportInv, NEW o \in offer, Decline(o) PROVE ImportInv'
<1>1. RestTyped'
  BY TypeParts DEF ImportInv, TypeInv, RestTyped, Decline
<1> QED BY <1>1, OfferStep DEF Decline, RowsStay

(* An admission takes a permit that is free. *)
LEMMA FreePermit ==
  ASSUME NEW p \in Proc, Free(p) # {}
  PROVE  Min(Free(p)) \in Free(p)
<1>1. Free(p) \in SUBSET Nat /\ Free(p) # {}
  BY ImportConstants DEF Free, Permit
<1>2. \E i \in Free(p) : \A j \in Free(p) : i <= j
  <2> DEFINE T == {1 .. i : i \in Free(p)}
  <2>1. IsWellFoundedOn(StrictSubsetOrdering(Permit), SUBSET Permit)
    <3>1. IsFiniteSet(Permit)
      BY ImportConstants, FS_Interval DEF Permit
    <3>2. FiniteSubsetsOf(Permit) = SUBSET Permit
      BY <3>1, FS_FiniteSubsetsOfFinite, Zenon
    <3>3. IsWellFoundedOn(StrictSubsetOrdering(Permit), FiniteSubsetsOf(Permit))
      BY FS_StrictSubsetOrderingWellFounded, Zenon
    <3> QED BY <3>2, <3>3, Zenon
  <2>2. T \subseteq SUBSET Permit /\ T # {}
    BY <1>1, ImportConstants DEF Free, Permit
  <2>3. PICK U \in T : \A V \in T : ~(<<V, U>> \in StrictSubsetOrdering(Permit))
    <3> HIDE DEF T
    <3> QED BY <2>1, <2>2, WFMin, Zenon
  <2>4. PICK i \in Free(p) : U = 1 .. i
    OBVIOUS
  <2>5. ASSUME NEW j \in Free(p), ~(i <= j) PROVE FALSE
    <3>1. i \in Nat /\ j \in Nat /\ i \in 1 .. i /\ i \notin 1 .. j /\ 1 .. j \subseteq 1 .. i
      BY <1>1, <2>5, ImportConstants DEF Free, Permit
    <3>2. 1 .. j \in T /\ 1 .. j # U /\ 1 .. j \subseteq U
      BY <2>4, <3>1
    <3>3. <<1 .. j, U>> \in StrictSubsetOrdering(Permit)
      BY <2>2, <2>3, <3>2 DEF StrictSubsetOrdering
    <3> QED BY <2>3, <3>2, <3>3
  <2> QED BY <2>5
<1> QED BY <1>2 DEF Min

LEMMA AdmitStep == ASSUME ImportInv, NEW o \in offer, Admit(o) PROVE ImportInv'
<1> DEFINE i == Min(Free(o.proc))
           u == [Idle EXCEPT !.pc = "claim", !.novel = o.novel, !.by = o.by]
<1>0. TasksTyped /\ RestTyped /\ o \in [proc : Proc, novel : Novel, by : By]
  BY TypeParts DEF ImportInv, TypeInv, RestTyped
<1>1. i \in Permit
  BY <1>0, FreePermit DEF Admit, Admissible, Free
<1>2. u \in Task /\ u.pc = "claim" /\ u.novel \in Novel
  BY <1>0, ConstantRows DEF Task
<1>3. task' = [task EXCEPT ![o.proc][i] = u]
  BY DEF Admit
<1> HIDE DEF i, u
<1>4. OnlyTask(o.proc, i) /\ task'[o.proc][i] = u
  BY <1>0, <1>1, <1>2, <1>3, SetTask
<1>5. \A q \in Proc, l \in Permit : Aside(task[q][l], task'[q][l])
  BY <1>2, <1>4 DEF OnlyTask, Aside
<1>6. RestTyped' /\ RowsStay
  BY <1>0 DEF Admit, RestTyped, RowsStay
<1> QED BY <1>4, <1>5, <1>6, QuietStep DEF OnlyTask

LEMMA CrashStep == ASSUME ImportInv, NEW p \in Proc, Crash(p) PROVE ImportInv'
<1>0. TasksTyped /\ RestTyped
  BY TypeParts DEF ImportInv, TypeInv
<1>1. TasksTyped' /\ \A q \in Proc, l \in Permit : task'[q][l] \in {task[q][l], Idle}
  BY <1>0, ConstantRows DEF Crash, TasksTyped
<1>2. \A q \in Proc, l \in Permit : Aside(task[q][l], task'[q][l])
  BY <1>1, ConstantRows DEF Aside
<1>3. RestTyped' /\ RowsStay
  BY <1>0, ImportConstants DEF Crash, RestTyped, RowsStay
<1> QED BY <1>1, <1>2, <1>3, QuietStep

(* A task that goes, and one that fails. *)
LEMMA GoneStep ==
  ASSUME ImportInv, NEW p \in Proc, NEW k \in Permit, task' = [task EXCEPT ![p][k] = Idle],
         RowsStay, UNCHANGED <<offer, crashes>>
  PROVE  ImportInv'
<1>1. OnlyTask(p, k) /\ task'[p][k] = Idle
  BY TypeParts, LostDoes DEF ImportInv, TypeInv
<1>2. Aside(task[p][k], task'[p][k])
  BY <1>1, ConstantRows DEF Aside
<1> QED BY <1>1, <1>2, AsideStep

LEMMA ToFail ==
  ASSUME ImportInv, NEW p \in Proc, NEW k \in Permit, task[p][k].pc \in Working,
         Goto(p, k, "fail"), RowsStay, UNCHANGED <<offer, crashes>>
  PROVE  ImportInv'
<1>0. TasksTyped /\ task[p][k] \in Task
  BY TypeParts, Tasks DEF ImportInv, TypeInv
<1>1. OnlyTask(p, k) /\ task'[p][k] = [task[p][k] EXCEPT !.pc = "fail"]
  BY <1>0, GotoDoes DEF Steps
<1>2. Aside(task[p][k], task'[p][k])
  BY <1>0, <1>1 DEF Aside, Task, Claimed
<1> QED BY <1>1, <1>2, AsideStep

(* The lease. *)
LEMMA RenewStep ==
  ASSUME ImportInv, NEW p \in Proc, NEW k \in Permit, NEW n \in Novel, task[p][k].novel = n, Renew(p, k)
  PROVE  ImportInv'
<1>1. CASE task' = [task EXCEPT ![p][k] = Idle] /\ UNCHANGED job
  BY <1>1, GoneStep DEF Renew, RowsStay
<1>2. CASE Held(task[p][k]) /\ job' = [job EXCEPT ![n].lease = "live"] /\ UNCHANGED task
  <2> DEFINE j == [job[n] EXCEPT !.lease = "live"]
  <2>0. RowsTyped /\ TasksTyped'
    BY <1>2, TypeParts DEF ImportInv, TypeInv, TasksTyped
  <2>1. j \in JobRow /\ j.stage = job[n].stage /\ j.attempt = job[n].attempt /\ j.status = job[n].status
        /\ j.failure = job[n].failure
    BY RowOf DEF JobRow
  <2>2. RowsBecome(n, j, novel[n], text[n])
    BY <1>2 DEF Renew, RowsBecome
  <2> HIDE DEF j
  <2>3. OnlyNovel(n) /\ job'[n] = j /\ novel'[n] = novel[n]
    BY <2>0, <2>1, <2>2, RowOf, RowsSet
  <2>4. job[n].status = "in_progress"
    BY <1>2 DEF Held, Fenced
  <2>5. JobSound(n)'
    BY <2>1, <2>3, <2>4, RowOf DEF JobSound, Exhausted
  <2> QED BY <1>2, <2>0, <2>1, <2>3, <2>5, LeaseStep DEF Renew, Aside
<1> QED BY <1>1, <1>2 DEF Renew

LEMMA ExpireStep == ASSUME ImportInv, NEW n \in Novel, Expire(n) PROVE ImportInv'
<1> DEFINE j == [job[n] EXCEPT !.lease = "expired"]
<1>0. RowsTyped /\ TasksTyped'
  BY TypeParts DEF ImportInv, TypeInv, TasksTyped, Expire
<1>1. j \in JobRow /\ j.stage = job[n].stage /\ j.attempt = job[n].attempt /\ j.status = job[n].status
      /\ j.failure = job[n].failure
  BY RowOf DEF JobRow
<1>2. RowsBecome(n, j, novel[n], text[n])
  BY DEF Expire, RowsBecome
<1> HIDE DEF j
<1>3. OnlyNovel(n) /\ job'[n] = j /\ novel'[n] = novel[n]
  BY <1>0, <1>1, <1>2, RowOf, RowsSet
<1>4. job[n].status = "in_progress"
  BY RowOf DEF Expire, JobSound
<1>5. JobSound(n)'
  BY <1>1, <1>3, <1>4, RowOf DEF JobSound, Exhausted
<1> QED BY <1>0, <1>1, <1>3, <1>5, LeaseStep DEF Expire, Aside

--------------------------------------------------------------------------------
(* The pipeline *)

(* What a task of the pipeline may rely on. *)
LEMMA AtWork ==
  ASSUME ImportInv, NEW p \in Proc, NEW k \in Permit, NEW n \in Novel, task[p][k].novel = n,
         task[p][k].pc \in Working
  PROVE  /\ RowsTyped /\ TasksTyped /\ task[p][k] \in Task
         /\ task[p][k].attempt \in 0 .. MAX_IMPORT_ATTEMPTS
         /\ task[p][k].chapters \in Chapters /\ task[p][k].cast \in Cast
         /\ Held(task[p][k]) => job[n].status = "in_progress" /\ Follows(task[p][k])
<1>1. RowsTyped /\ TasksTyped /\ task[p][k] \in Task
  BY TypeParts, Tasks DEF ImportInv, TypeInv
<1>2. TaskFollows(task[p][k])
  BY DEF ImportInv
<1> QED BY <1>1, <1>2 DEF Task, TaskFollows, Held, Fenced

LEMMA LoadStep ==
  ASSUME ImportInv, NEW p \in Proc, NEW k \in Permit, NEW n \in Novel, task[p][k].novel = n, Load(p, k)
  PROVE  ImportInv'
<1> DEFINE t == task[p][k]
           v == CASE t.stage = "source"   -> [t EXCEPT !.pc = "replay"]
                  [] t.stage = "chapters" -> [t EXCEPT !.pc = "repair", !.chapters = text[n].chapters]
                  [] t.stage = "enriched" -> [t EXCEPT !.pc = "canon", !.chapters = text[n].chapters,
                                                       !.cast = text[n].characters]
<1>0. t.pc = "load" /\ t.pc \in Working /\ RowsStay /\ UNCHANGED <<offer, crashes>>
  BY DEF Load, Working, RowsStay
<1>1. TasksTyped /\ t \in Task /\ (Held(t) => Follows(t))
  BY <1>0, AtWork
<1>2. text[n].chapters \in Chapters /\ text[n].characters \in Cast
  BY RowOf DEF TextRow
<1>3. t.stage \in {"source", "chapters", "enriched"}
  BY <1>0, <1>1 DEF Task, Stage, ImportInv, TypeInv, TaskSound
<1>4. /\ v \in Task /\ v.pc \in {"replay", "repair", "canon"} /\ v.novel = n /\ v.attempt = t.attempt
      /\ v.pc = "replay" => t.stage = "source"
      /\ v.pc = "repair" => t.stage = "chapters" /\ v.chapters = text[n].chapters
      /\ v.pc = "canon" => /\ t.stage = "enriched" /\ v.chapters = text[n].chapters
                           /\ v.cast = text[n].characters
  <2>1. CASE t.stage = "source"
    BY <1>1, <2>1 DEF Task, Working
  <2>2. CASE t.stage = "chapters"
    BY <1>1, <1>2, <2>2 DEF Task, Working
  <2>3. CASE t.stage = "enriched"
    BY <1>1, <1>2, <2>3 DEF Task, Working
  <2> QED BY <1>3, <2>1, <2>2, <2>3
<1>5. task' = [task EXCEPT ![p][k] = v]
  BY DEF Load
<1> HIDE DEF v
<1>6. OnlyTask(p, k) /\ task'[p][k] = v
  BY <1>1, <1>4, <1>5, SetTask
<1>7. Held(task[p][k])' => Follows(task[p][k])'
  BY <1>0, <1>1, <1>4, <1>6 DEF RowsStay, Held, Fenced, Follows, FollowsRow
<1> QED BY <1>0, <1>4, <1>6, <1>7, OnwardStep DEF Working

(* A task that goes on without writing. *)
LEMMA GoOn ==
  ASSUME ImportInv, NEW p \in Proc, NEW k \in Permit, NEW n \in Novel, task[p][k].novel = n,
         task[p][k].pc \in Working, NEW pc \in Working \ {"load"}, Goto(p, k, pc),
         RowsStay, UNCHANGED <<offer, crashes>>,
         \A u : /\ u.pc = pc /\ u.novel = n /\ u.chapters = task[p][k].chapters /\ u.cast = task[p][k].cast
                /\ Follows(task[p][k])
                => Follows(u)
  PROVE  ImportInv'
<1> DEFINE t == task[p][k]  v == [t EXCEPT !.pc = pc]
<1>1. TasksTyped /\ t \in Task /\ (Held(t) => Follows(t))
  BY AtWork
<1>2. OnlyTask(p, k) /\ task'[p][k] = v
  BY <1>1, GotoDoes DEF Steps
<1>3. v.pc = pc /\ v.novel = n /\ v.attempt = t.attempt /\ v.chapters = t.chapters /\ v.cast = t.cast
  BY <1>1 DEF Task
<1> HIDE DEF v
<1>4. Held(task[p][k])' => Follows(task[p][k])'
  <2>1. Held(task[p][k])' => Held(t) /\ Held(v)
    BY <1>2, <1>3 DEF RowsStay, Held, Fenced
  <2>2. Held(t) => Follows(v)
    BY <1>1, <1>3
  <2>3. Follows(v) => Follows(task[p][k])'
    BY <1>2 DEF RowsStay, Follows, FollowsRow
  <2> QED BY <2>1, <2>2, <2>3
<1> QED BY <1>2, <1>3, <1>4, OnwardStep DEF Working

LEMMA RepairedStep ==
  ASSUME ImportInv, NEW p \in Proc, NEW k \in Permit, NEW n \in Novel, task[p][k].novel = n, Repaired(p, k)
  PROVE  ImportInv'
<1>1. \A u : /\ u.pc = "characters" /\ u.novel = n /\ u.chapters = task[p][k].chapters
             /\ u.cast = task[p][k].cast /\ Follows(task[p][k])
             => Follows(u)
  BY DEF Repaired, Follows, FollowsRow
<1> QED BY <1>1, GoOn DEF Repaired, RowsStay, Working

LEMMA FindCanonStep ==
  ASSUME ImportInv, NEW p \in Proc, NEW k \in Permit, NEW n \in Novel, task[p][k].novel = n, FindCanon(p, k)
  PROVE  ImportInv'
<1> DEFINE pc == IF text[n].canon = NoCanon THEN "extract" ELSE "complete"
<1>1. \A u : /\ u.pc = pc /\ u.novel = n /\ u.chapters = task[p][k].chapters
             /\ u.cast = task[p][k].cast /\ Follows(task[p][k])
             => Follows(u)
  BY DEF FindCanon, Follows, FollowsRow
<1>2. pc \in Working \ {"load"} /\ Goto(p, k, pc)
  BY DEF FindCanon, Working
<1> HIDE DEF pc
<1> QED BY <1>1, <1>2, GoOn DEF FindCanon, RowsStay, Working

(* A task that writes under its fence. *)
Lands(p, k, n, j, v, x, u) ==
    job'[n] = j /\ novel'[n] = v /\ text'[n] = x /\ task'[p][k] = u =>
        /\ JobSound(n)' /\ TextSound(n)'
        /\ u.pc # "idle" => Follows(task[p][k])'

LEMMA WriteStep ==
  ASSUME ImportInv, NEW p \in Proc, NEW k \in Permit, NEW n \in Novel, task[p][k].novel = n,
         task[p][k].pc \in Working, Held(task[p][k]),
         NEW j \in JobRow, NEW v \in NovelRow, NEW x \in TextRow, RowsBecome(n, j, v, x),
         NEW u \in Task, task' = [task EXCEPT ![p][k] = u], UNCHANGED <<offer, crashes>>,
         j.attempt = job[n].attempt,
         u.pc \in (Working \ {"load"}) \cup {"idle"},
         u.pc # "idle" => u.novel = n /\ u.attempt = task[p][k].attempt,
         Lands(p, k, n, j, v, x, u)
  PROVE  ImportInv'
<1>1. RowsTyped /\ TasksTyped
  BY AtWork
<1>2. OnlyTask(p, k) /\ task'[p][k] = u
  BY <1>1, SetTask
<1>3. OnlyNovel(n) /\ job'[n] = j /\ novel'[n] = v /\ text'[n] = x
  BY <1>1, RowsSet
<1> QED BY <1>2, <1>3, OnwardStep DEF Lands

(* Once a step of the pipeline has read the rows, by name. *)
LEMMA RowFields ==
  ASSUME ImportInv, NEW n \in Novel
  PROVE  /\ job[n].stage \in Stage /\ job[n].status \in Status
         /\ job[n].attempt \in 0 .. MAX_IMPORT_ATTEMPTS
         /\ novel[n].total \in Nat /\ text[n].chapters \in Chapters /\ text[n].characters \in Cast
         /\ text[n].nodes \in Chapters
BY RowOf DEF JobRow, NovelRow, TextRow

LEMMA ReplaceChaptersStep ==
  ASSUME ImportInv, NEW p \in Proc, NEW k \in Permit, NEW n \in Novel, task[p][k].novel = n,
         task[p][k].pc \in {"replay", "repair"},
         NEW new \in Chapters, new.count > 0, NEW round \in 0 .. REPAIR_ROUNDS,
         ReplaceChapters(p, k, new, round), UNCHANGED <<offer, crashes>>
  PROVE  ImportInv'
<1> DEFINE t == task[p][k]
<1>1. CASE Held(t) /\ job[n].stage \in {"source", "chapters"}
  <2> DEFINE j == [job[n] EXCEPT !.stage = "chapters"]
             x == [text[n] EXCEPT !.chapters = new, !.nodes = NoChapters]
             u == [t EXCEPT !.pc = "repair", !.chapters = new, !.round = round]
  <2>0. t.pc \in Working /\ t \in Task /\ job[n].status = "in_progress"
    BY <1>1, AtWork DEF Working
  <2>1. j \in JobRow /\ j.stage = "chapters" /\ j.attempt = job[n].attempt /\ j.status = job[n].status
        /\ j.failure = job[n].failure /\ j.lease = job[n].lease
    BY RowOf DEF JobRow, Stage
  <2>2. x \in TextRow /\ x.chapters = new /\ x.canon = text[n].canon
    BY RowOf, ConstantRows DEF TextRow
  <2>3. u \in Task /\ u.pc = "repair" /\ u.novel = n /\ u.attempt = t.attempt /\ u.chapters = new
    BY <2>0 DEF Task, Working
  <2>4. RowsBecome(n, j, novel[n], x) /\ task' = [task EXCEPT ![p][k] = u]
    BY <1>1 DEF ReplaceChapters, RowsBecome
  <2> HIDE DEF j, x, u
  <2>5. Lands(p, k, n, j, novel[n], x, u)
    <3>0. SUFFICES ASSUME job'[n] = j, novel'[n] = novel[n], text'[n] = x, task'[p][k] = u
                   PROVE  JobSound(n)' /\ TextSound(n)' /\ Follows(task[p][k])'
      BY DEF Lands
    <3>1. JobSound(n)'
      BY <2>0, <2>1, <3>0, RowOf DEF JobSound, Exhausted
    <3>2. TextSound(n)'
      BY <1>1, <2>1, <2>2, <3>0, RowOf DEF TextSound
    <3>3. Follows(task[p][k])'
      BY <2>1, <2>2, <2>3, <3>0 DEF Follows, FollowsRow
    <3> QED BY <3>1, <3>2, <3>3
  <2> QED BY <1>1, <2>0, <2>1, <2>2, <2>3, <2>4, <2>5, RowOf, WriteStep DEF Working
<1>2. CASE ~(Held(t) /\ job[n].stage \in {"source", "chapters"})
  <2>1. Lost(p, k)
    BY <1>2 DEF ReplaceChapters
  <2> QED BY <2>1, GoneStep DEF Lost, RowsStay
<1> QED BY <1>1, <1>2

LEMMA ReplayStep ==
  ASSUME ImportInv, NEW p \in Proc, NEW k \in Permit, NEW n \in Novel, task[p][k].novel = n, Replay(p, k)
  PROVE  ImportInv'
<1> DEFINE new == [by |-> task[p][k].attempt, round |-> 0, count |-> 1]
<1>1. new \in Chapters /\ new.count > 0 /\ 0 \in 0 .. REPAIR_ROUNDS
  BY AtWork, ImportConstants DEF Replay, Working, Chapters
<1>2. ReplaceChapters(p, k, new, 0)
  BY DEF Replay
<1> HIDE DEF new
<1> QED BY <1>1, <1>2, ReplaceChaptersStep DEF Replay

LEMMA RepairStep ==
  ASSUME ImportInv, NEW p \in Proc, NEW k \in Permit, NEW n \in Novel, task[p][k].novel = n, Repair(p, k)
  PROVE  ImportInv'
<1> DEFINE t == task[p][k]
           round == t.round + 1
           new == [by |-> t.attempt, round |-> t.round + 1, count |-> t.chapters.count + 1]
<1>1. t \in Task /\ t.attempt \in 0 .. MAX_IMPORT_ATTEMPTS /\ t.chapters \in Chapters
  BY AtWork DEF Repair, Working
<1>2. round \in 0 .. REPAIR_ROUNDS
  BY <1>1, ImportConstants DEF Repair, Task
<1>3. t.chapters.count \in Nat
  BY <1>1 DEF Chapters
<1>4. new \in Chapters /\ new.count > 0
  BY <1>1, <1>2, <1>3 DEF Chapters
<1>5. ReplaceChapters(p, k, new, round)
  BY DEF Repair
<1> HIDE DEF new, round
<1> QED BY <1>2, <1>4, <1>5, ReplaceChaptersStep DEF Repair

LEMMA ReplaceCharactersStep ==
  ASSUME ImportInv, NEW p \in Proc, NEW k \in Permit, NEW n \in Novel, task[p][k].novel = n,
         ReplaceCharacters(p, k)
  PROVE  ImportInv'
<1> DEFINE t == task[p][k]  cast == [by |-> t.attempt, of |-> t.chapters]
<1>0. t.pc = "characters" /\ t.pc \in Working
  BY DEF ReplaceCharacters, Working
<1>1. CASE Held(t) /\ job[n].stage = "chapters"
  <2> DEFINE x == [text[n] EXCEPT !.characters = cast]
             u == [t EXCEPT !.pc = "nodes", !.cast = cast]
  <2>0. t \in Task /\ Follows(t) /\ job[n].status = "in_progress"
    BY <1>0, <1>1, AtWork
  <2>1. cast \in Cast /\ cast.of = t.chapters
    BY <1>0, AtWork DEF Cast
  <2>2. x \in TextRow /\ x.chapters = text[n].chapters /\ x.canon = text[n].canon /\ x.characters = cast
    BY <2>1, RowOf DEF TextRow
  <2>3. u \in Task /\ u.pc = "nodes" /\ u.novel = n /\ u.attempt = t.attempt /\ u.chapters = t.chapters
        /\ u.cast = cast
    BY <2>0, <2>1 DEF Task, Working
  <2>4. RowsBecome(n, job[n], novel[n], x) /\ task' = [task EXCEPT ![p][k] = u]
    BY <1>1 DEF ReplaceCharacters, RowsBecome
  <2> HIDE DEF x, u, cast
  <2>5. Lands(p, k, n, job[n], novel[n], x, u)
    <3>0. SUFFICES ASSUME job'[n] = job[n], novel'[n] = novel[n], text'[n] = x, task'[p][k] = u
                   PROVE  JobSound(n)' /\ TextSound(n)' /\ Follows(task[p][k])'
      BY DEF Lands
    <3>1. JobSound(n)'
      BY <2>0, <3>0, RowOf DEF JobSound, Exhausted
    <3>2. TextSound(n)'
      BY <1>1, <2>2, <3>0, RowOf DEF TextSound
    <3>3. Follows(task[p][k])'
      BY <1>0, <1>1, <2>0, <2>1, <2>2, <2>3, <3>0 DEF Follows, FollowsRow
    <3> QED BY <3>1, <3>2, <3>3
  <2> QED BY <1>0, <1>1, <2>2, <2>3, <2>4, <2>5, RowOf, WriteStep DEF ReplaceCharacters, Working
<1>2. CASE ~(Held(t) /\ job[n].stage = "chapters")
  BY <1>2, GoneStep DEF ReplaceCharacters, Lost, RowsStay
<1> QED BY <1>1, <1>2

LEMMA ReplaceNodesStep ==
  ASSUME ImportInv, NEW p \in Proc, NEW k \in Permit, NEW n \in Novel, task[p][k].novel = n,
         ReplaceNodes(p, k)
  PROVE  ImportInv'
<1> DEFINE t == task[p][k]
<1>0. t.pc = "nodes" /\ t.pc \in Working
  BY DEF ReplaceNodes, Working
<1>1. CASE Held(t) /\ job[n].stage = "chapters"
  <2> DEFINE x == [text[n] EXCEPT !.nodes = t.chapters]
             u == [t EXCEPT !.pc = "record"]
  <2>0. t \in Task /\ Follows(t) /\ job[n].status = "in_progress" /\ t.chapters \in Chapters
    BY <1>0, <1>1, AtWork
  <2>2. x \in TextRow /\ x.chapters = text[n].chapters /\ x.canon = text[n].canon
        /\ x.characters = text[n].characters /\ x.nodes = t.chapters
    BY <2>0, RowOf DEF TextRow
  <2>3. u \in Task /\ u.pc = "record" /\ u.novel = n /\ u.attempt = t.attempt /\ u.chapters = t.chapters
        /\ u.cast = t.cast
    BY <2>0 DEF Task, Working
  <2>4. RowsBecome(n, job[n], novel[n], x) /\ task' = [task EXCEPT ![p][k] = u]
    BY <1>1 DEF ReplaceNodes, Goto, RowsBecome
  <2> HIDE DEF x, u
  <2>5. Lands(p, k, n, job[n], novel[n], x, u)
    <3>0. SUFFICES ASSUME job'[n] = job[n], novel'[n] = novel[n], text'[n] = x, task'[p][k] = u
                   PROVE  JobSound(n)' /\ TextSound(n)' /\ Follows(task[p][k])'
      BY DEF Lands
    <3>1. JobSound(n)'
      BY <2>0, <3>0, RowOf DEF JobSound, Exhausted
    <3>2. TextSound(n)'
      BY <1>1, <2>2, <3>0, RowOf DEF TextSound
    <3>3. Follows(task[p][k])'
      BY <1>0, <1>1, <2>0, <2>2, <2>3, <3>0 DEF Follows, FollowsRow
    <3> QED BY <3>1, <3>2, <3>3
  <2> QED BY <1>0, <1>1, <2>2, <2>3, <2>4, <2>5, RowOf, WriteStep DEF ReplaceNodes, Working
<1>2. CASE ~(Held(t) /\ job[n].stage = "chapters")
  BY <1>2, GoneStep DEF ReplaceNodes, Lost, RowsStay
<1> QED BY <1>1, <1>2

LEMMA RecordEnrichmentStep ==
  ASSUME ImportInv, NEW p \in Proc, NEW k \in Permit, NEW n \in Novel, task[p][k].novel = n,
         RecordEnrichment(p, k)
  PROVE  ImportInv'
<1> DEFINE t == task[p][k]
           met == /\ job[n].stage \in {"chapters", "enriched"}
                  /\ text[n].chapters.count = t.chapters.count
                  /\ novel[n].status = "parsing"
<1>0. t.pc = "record" /\ t.pc \in Working
  BY DEF RecordEnrichment, Working
<1>1. CASE Held(t) /\ met
  <2> DEFINE j == [job[n] EXCEPT !.stage = "enriched", !.lease = "live"]
             v == [novel[n] EXCEPT !.total = t.chapters.count]
             u == [t EXCEPT !.pc = "canon"]
  <2>0. t \in Task /\ Follows(t) /\ job[n].status = "in_progress" /\ t.chapters.count \in Nat
    BY <1>0, <1>1, AtWork DEF Chapters
  <2>1. j \in JobRow /\ j.stage = "enriched" /\ j.attempt = job[n].attempt /\ j.status = job[n].status
        /\ j.failure = job[n].failure
    BY RowOf DEF JobRow, Stage
  <2>2. v \in NovelRow /\ v.status = "parsing" /\ v.total = t.chapters.count
    BY <1>1, <2>0, RowOf DEF NovelRow
  <2>3. u \in Task /\ u.pc = "canon" /\ u.novel = n /\ u.attempt = t.attempt /\ u.chapters = t.chapters
        /\ u.cast = t.cast
    BY <2>0 DEF Task, Working
  <2>4. RowsBecome(n, j, v, text[n]) /\ task' = [task EXCEPT ![p][k] = u]
    BY <1>1 DEF RecordEnrichment, Goto, RowsBecome
  <2> HIDE DEF j, v, u
  <2>5. Lands(p, k, n, j, v, text[n], u)
    <3>0. SUFFICES ASSUME job'[n] = j, novel'[n] = v, text'[n] = text[n], task'[p][k] = u
                   PROVE  JobSound(n)' /\ TextSound(n)' /\ Follows(task[p][k])'
      BY DEF Lands
    <3>1. JobSound(n)'
      BY <2>0, <2>1, <2>2, <3>0, RowOf DEF JobSound, Exhausted
    <3>2. TextSound(n)'
      BY <1>0, <2>0, <2>1, <2>2, <3>0, RowOf DEF TextSound, Follows, FollowsRow
    <3>3. Follows(task[p][k])'
      BY <1>0, <2>0, <2>1, <2>3, <3>0 DEF Follows, FollowsRow
    <3> QED BY <3>1, <3>2, <3>3
  <2> QED BY <1>0, <1>1, <2>1, <2>2, <2>3, <2>4, <2>5, RowOf, WriteStep DEF RecordEnrichment, Working
<1>2. CASE ~Held(t)
  BY <1>2, GoneStep DEF RecordEnrichment, Lost, RowsStay
<1>3. CASE Held(t) /\ ~met
  BY <1>0, <1>3, ToFail DEF RecordEnrichment, RowsStay
<1> QED BY <1>1, <1>2, <1>3

LEMMA ExtractStep ==
  ASSUME ImportInv, NEW p \in Proc, NEW k \in Permit, NEW n \in Novel, task[p][k].novel = n, Extract(p, k)
  PROVE  ImportInv'
<1> DEFINE t == task[p][k]
<1>0. t.pc = "extract" /\ t.pc \in Working
  BY DEF Extract, Working
<1>1. CASE text[n].checkpoint = t.chapters
  <2>1. \A u : /\ u.pc = "model" /\ u.novel = n /\ u.chapters = t.chapters /\ u.cast = t.cast /\ Follows(t)
               => Follows(u)
    BY <1>0 DEF Follows, FollowsRow
  <2>2. Goto(p, k, "model") /\ "model" \in Working \ {"load"}
    BY <1>1 DEF Extract, Working
  <2> QED BY <1>0, <1>1, <2>1, <2>2, GoOn DEF Extract, RowsStay
<1>2. CASE text[n].checkpoint # t.chapters /\ Held(t) /\ job[n].stage = "enriched"
  <2> DEFINE x == [text[n] EXCEPT !.checkpoint = t.chapters]
             u == [t EXCEPT !.pc = "model"]
  <2>0. t \in Task /\ Follows(t) /\ job[n].status = "in_progress" /\ t.chapters \in Chapters
    BY <1>0, <1>2, AtWork
  <2>2. x \in TextRow /\ x.chapters = text[n].chapters /\ x.canon = text[n].canon
        /\ x.characters = text[n].characters /\ x.nodes = text[n].nodes
    BY <2>0, RowOf DEF TextRow
  <2>3. u \in Task /\ u.pc = "model" /\ u.novel = n /\ u.attempt = t.attempt /\ u.chapters = t.chapters
        /\ u.cast = t.cast
    BY <2>0 DEF Task, Working
  <2>4. RowsBecome(n, job[n], novel[n], x) /\ task' = [task EXCEPT ![p][k] = u]
    BY <1>2 DEF Extract, Goto, RowsBecome
  <2> HIDE DEF x, u
  <2>5. Lands(p, k, n, job[n], novel[n], x, u)
    <3>0. SUFFICES ASSUME job'[n] = job[n], novel'[n] = novel[n], text'[n] = x, task'[p][k] = u
                   PROVE  JobSound(n)' /\ TextSound(n)' /\ Follows(task[p][k])'
      BY DEF Lands
    <3>1. JobSound(n)'
      BY <2>0, <3>0, RowOf DEF JobSound, Exhausted
    <3>2. TextSound(n)'
      BY <1>0, <1>2, <2>0, <2>2, <3>0, RowOf DEF TextSound, Follows, FollowsRow
    <3>3. Follows(task[p][k])'
      BY <1>0, <1>2, <2>0, <2>2, <2>3, <3>0 DEF Follows, FollowsRow
    <3> QED BY <3>1, <3>2, <3>3
  <2> QED BY <1>0, <1>2, <2>2, <2>3, <2>4, <2>5, RowOf, WriteStep DEF Extract, Working
<1>3. CASE text[n].checkpoint # t.chapters /\ ~(Held(t) /\ job[n].stage = "enriched")
  BY <1>3, GoneStep DEF Extract, Lost, RowsStay
<1> QED BY <1>1, <1>2, <1>3

LEMMA InsertCanonStep ==
  ASSUME ImportInv, NEW p \in Proc, NEW k \in Permit, NEW n \in Novel, task[p][k].novel = n,
         InsertCanon(p, k)
  PROVE  ImportInv'
<1> DEFINE t == task[p][k]
           met == /\ novel[n].status \in {"parsing", "ready"}
                  /\ novel[n].total = text[n].chapters.count
                  /\ text[n].canon = NoCanon
<1>0. t.pc = "model" /\ t.pc \in Working
  BY DEF InsertCanon, Working
<1>1. CASE Held(t) /\ job[n].stage = "enriched" /\ met
  <2> DEFINE canon == [of |-> t.chapters, cast |-> t.cast]
             x == [text[n] EXCEPT !.canon = canon, !.checkpoint = NoChapters]
             u == [t EXCEPT !.pc = "complete"]
  <2>0. t \in Task /\ Follows(t) /\ job[n].status = "in_progress" /\ canon \in [of : Chapters, cast : Cast]
    BY <1>0, <1>1, AtWork
  <2>2. x \in TextRow /\ x.chapters = text[n].chapters /\ x.canon = [of |-> t.chapters, cast |-> t.cast]
        /\ x.characters = text[n].characters /\ x.nodes = text[n].nodes /\ x.checkpoint = NoChapters
    BY <2>0, RowOf, ConstantRows DEF TextRow
  <2>3. u \in Task /\ u.pc = "complete" /\ u.novel = n /\ u.attempt = t.attempt /\ u.chapters = t.chapters
        /\ u.cast = t.cast
    BY <2>0 DEF Task, Working
  <2>4. RowsBecome(n, job[n], novel[n], x) /\ task' = [task EXCEPT ![p][k] = u]
    BY <1>1 DEF InsertCanon, Goto, RowsBecome
  <2> HIDE DEF x, u, canon
  <2>5. Lands(p, k, n, job[n], novel[n], x, u)
    <3>0. SUFFICES ASSUME job'[n] = job[n], novel'[n] = novel[n], text'[n] = x, task'[p][k] = u
                   PROVE  JobSound(n)' /\ TextSound(n)' /\ Follows(task[p][k])'
      BY DEF Lands
    <3>1. JobSound(n)'
      BY <2>0, <3>0, RowOf DEF JobSound, Exhausted
    <3>2. TextSound(n)'
      BY <1>0, <1>1, <2>0, <2>2, <3>0, RowOf DEF TextSound, Follows, FollowsRow
    <3>3. Follows(task[p][k])'
      BY <1>0, <1>1, <2>0, <2>2, <2>3, <3>0 DEF Follows, FollowsRow
    <3> QED BY <3>1, <3>2, <3>3
  <2> QED BY <1>0, <1>1, <2>2, <2>3, <2>4, <2>5, RowOf, WriteStep DEF InsertCanon, Working
<1>2. CASE ~(Held(t) /\ job[n].stage = "enriched")
  BY <1>2, GoneStep DEF InsertCanon, Lost, RowsStay
<1>3. CASE Held(t) /\ job[n].stage = "enriched" /\ ~met
  BY <1>0, <1>3, ToFail DEF InsertCanon, RowsStay
<1> QED BY <1>1, <1>2, <1>3

LEMMA CompleteStep ==
  ASSUME ImportInv, NEW p \in Proc, NEW k \in Permit, NEW n \in Novel, task[p][k].novel = n, Complete(p, k)
  PROVE  ImportInv'
<1> DEFINE t == task[p][k]
           met == /\ job[n].stage = "enriched"
                  /\ novel[n].status = "parsing"
                  /\ novel[n].total > 0
                  /\ novel[n].total = text[n].chapters.count
                  /\ text[n].characters # NoCast
                  /\ text[n].canon # NoCanon
<1>0. t.pc = "complete" /\ t.pc \in Working
  BY DEF Complete, Working
<1>1. CASE Held(t) /\ met
  <2> DEFINE j == [job[n] EXCEPT !.stage = "completed", !.status = "completed",
                                 !.lease = "none", !.failure = "none"]
             v == [novel[n] EXCEPT !.status = "ready"]
  <2>1. j \in JobRow /\ j.stage = "completed" /\ j.attempt = job[n].attempt /\ j.status = "completed"
        /\ j.lease = "none"
    BY RowOf DEF JobRow, Stage, Status
  <2>2. v \in NovelRow /\ v.total = novel[n].total
    BY RowOf DEF NovelRow
  <2>3. Idle \in Task /\ Idle.pc = "idle"
    BY ConstantRows
  <2>4. RowsBecome(n, j, v, text[n]) /\ task' = [task EXCEPT ![p][k] = Idle]
    BY <1>1 DEF Complete, RowsBecome
  <2> HIDE DEF j, v
  <2>5. Lands(p, k, n, j, v, text[n], Idle)
    <3>0. SUFFICES ASSUME job'[n] = j, novel'[n] = v, text'[n] = text[n]
                   PROVE  JobSound(n)' /\ TextSound(n)'
      BY <2>3 DEF Lands
    <3>1. JobSound(n)'
      BY <2>1, <3>0 DEF JobSound, Exhausted
    <3>2. TextSound(n)'
      BY <1>1, <2>1, <2>2, <3>0, RowOf DEF TextSound
    <3> QED BY <3>1, <3>2
  <2> QED BY <1>0, <1>1, <2>1, <2>2, <2>3, <2>4, <2>5, RowOf, WriteStep DEF Complete
<1>2. CASE ~Held(t)
  BY <1>2, GoneStep DEF Complete, Lost, RowsStay
<1>3. CASE Held(t) /\ ~met
  BY <1>0, <1>3, ToFail DEF Complete, RowsStay
<1> QED BY <1>1, <1>2, <1>3

(* The upload: its novels had no rows before. *)
LEMMA AcceptStep ==
  ASSUME ImportInv, NEW p \in Proc, NEW batch \in SUBSET Novel, NEW first \in batch,
         NEW parsed \in SUBSET batch, Accept(p, batch, parsed, first)
  PROVE  ImportInv'
<1> DEFINE J(n) == [NoJob EXCEPT !.status = "pending",
                                 !.stage = IF n \in parsed THEN "chapters" ELSE "source"]
           X(n) == IF n \in parsed THEN [text[n] EXCEPT !.chapters.count = 1] ELSE text[n]
<1>0. RowsTyped /\ TasksTyped /\ RestTyped
  BY TypeParts DEF ImportInv, TypeInv
<1>1. /\ \A n \in batch : job[n] = NoJob /\ text[n] = NoText /\ novel[n].status # "ready"
      /\ task' = task /\ novel' = novel
  <2>1. \A n \in batch : job[n].status = "absent"
    BY DEF Accept, Accepted
  <2> QED BY <2>1, RowOf, ConstantRows DEF JobSound, Accept
<1>2. \A n \in batch : /\ job'[n] = J(n) /\ text'[n] = X(n)
                       /\ J(n) \in JobRow /\ X(n) \in TextRow
  <2> SUFFICES ASSUME NEW n \in batch
               PROVE  job'[n] = J(n) /\ text'[n] = X(n) /\ J(n) \in JobRow /\ X(n) \in TextRow
    OBVIOUS
  <2>1. job'[n] = J(n) /\ text'[n] = X(n)
    BY DEF Accept
  <2>2. J(n) \in JobRow
    BY ConstantRows DEF JobRow, Stage, Status
  <2>3. X(n) \in TextRow
    BY RowOf DEF TextRow, Chapters
  <2> QED BY <2>1, <2>2, <2>3
<1>3. \A n \in batch : /\ J(n).status = "pending" /\ J(n).attempt = 0 /\ J(n).lease = "none"
                       /\ J(n).stage = IF n \in parsed THEN "chapters" ELSE "source"
  BY ConstantRows DEF JobRow
<1>4. \A n \in batch : X(n).canon = NoCanon /\ (n \in parsed => X(n).chapters.count = 1)
  BY <1>1, ConstantRows DEF TextRow, Chapters
<1>5. \A n \in Novel \ batch : job'[n] = job[n] /\ text'[n] = text[n]
  BY DEF Accept
<1>6. RowsTyped'
  <2>1. job' = [n \in Novel |-> job'[n]] /\ text' = [n \in Novel |-> text'[n]]
    BY DEF Accept
  <2>2. \A n \in Novel : job'[n] \in JobRow /\ text'[n] \in TextRow
    <3> HIDE DEF J, X
    <3> QED BY <1>2, <1>5, RowOf
  <2> QED BY <1>0, <1>1, <2>1, <2>2 DEF RowsTyped
<1>7. RestTyped' /\ TasksTyped'
  <2>1. [proc |-> p, novel |-> first, by |-> "accept"] \in [proc : Proc, novel : Novel, by : By]
    BY DEF By
  <2>2. offer' = offer \cup {[proc |-> p, novel |-> first, by |-> "accept"]} /\ UNCHANGED <<task, crashes>>
    BY DEF Accept
  <2> QED BY <1>0, <2>1, <2>2 DEF RestTyped, TasksTyped
<1> HIDE DEF J, X
<1>8. ASSUME NEW n \in Novel PROVE JobSound(n)' /\ TextSound(n)'
  <2>1. CASE n \in batch
    <3>1. JobSound(n)'
      BY <1>1, <1>2, <1>3, <2>1 DEF JobSound, Exhausted
    <3>2. TextSound(n)'
      BY <1>2, <1>3, <1>4, <2>1 DEF TextSound
    <3> QED BY <3>1, <3>2
  <2>2. CASE n \notin batch
    BY <1>1, <1>5, <2>2, RowOf DEF JobSound, TextSound, Exhausted
  <2> QED BY <2>1, <2>2
<1>9. ASSUME NEW q \in Proc, NEW l \in Permit PROVE TaskSound(task[q][l])' /\ TaskFollows(task[q][l])'
  <2> DEFINE t == task[q][l]
  <2>0. TaskSound(t) /\ TaskFollows(t) /\ t \in Task /\ task' = task
    BY <1>1, Tasks DEF ImportInv
  <2>1. CASE t.pc \notin Claimed
    BY <2>0, <2>1 DEF TaskSound, TaskFollows, Claimed, Working
  <2>2. CASE t.pc \in Claimed /\ t.novel \notin batch
    BY <1>1, <1>5, <2>0, <2>2 DEF TaskSound, TaskFollows, Follows, Held, Fenced, Claimed, Working
  <2>3. CASE t.pc \in Claimed /\ t.novel \in batch
    <3>1. job'[t.novel].status = "pending" /\ job[t.novel].attempt = 0 /\ job'[t.novel].attempt = 0
      BY <1>1, <1>2, <1>3, <2>3, ConstantRows
    <3> QED BY <2>0, <2>3, <3>1 DEF TaskSound, TaskFollows, Held, Fenced, Claimed
  <2> QED BY <2>1, <2>2, <2>3
<1>10. OneHolder'
  BY <1>1 DEF ImportInv, OneHolder
<1>11. TypeOK'
  BY <1>6, <1>7, TypePartsNext
<1> QED BY <1>8, <1>9, <1>10, <1>11 DEF ImportInv, TypeInv

--------------------------------------------------------------------------------
(* The invariant *)

LEMMA ImportInit == Init => ImportInv
<1> SUFFICES ASSUME Init PROVE ImportInv
  OBVIOUS
<1>1. TypeOK
  <2>1. RowsTyped
    <3>1. [status |-> "pending", total |-> 0] \in NovelRow
      BY DEF NovelRow
    <3> QED BY <3>1, ConstantRows DEF Init, RowsTyped
  <2>2. TasksTyped
    BY ConstantRows DEF Init, TasksTyped
  <2>3. RestTyped
    BY ImportConstants DEF Init, RestTyped
  <2> QED BY <2>1, <2>2, <2>3, TypeParts
<1>2. \A n \in Novel : job[n] = NoJob /\ novel[n].status = "pending" /\ text[n] = NoText
  BY DEF Init
<1>3. \A q \in Proc, l \in Permit : task[q][l].pc = "idle"
  BY ConstantRows DEF Init
<1>4. \A n \in Novel : JobSound(n) /\ TextSound(n)
  BY <1>2, ConstantRows DEF JobSound, TextSound, Exhausted
<1>5. \A q \in Proc, l \in Permit : TaskSound(task[q][l]) /\ TaskFollows(task[q][l])
  BY <1>3 DEF TaskSound, TaskFollows, Claimed, Working
<1>6. OneHolder
  BY <1>3 DEF OneHolder, Claimed, Working
<1> QED BY <1>1, <1>4, <1>5, <1>6 DEF ImportInv, TypeInv

(* A task that is not idle has a novel. *)
LEMMA OfNovel ==
  ASSUME ImportInv, NEW p \in Proc, NEW k \in Permit, task[p][k].pc # "idle"
  PROVE  task[p][k].novel \in Novel
BY DEF ImportInv, TypeInv, TaskSound

LEMMA StepOfTask ==
  ASSUME ImportInv, NEW p \in Proc, NEW k \in Permit, Step(p, k) \/ ClaimErrs(p, k) \/ Renew(p, k)
  PROVE  ImportInv'
<1>1. task[p][k].pc # "idle"
  BY DEF Step, Claim, MarkExhausted, Load, Replay, Repair, Repaired, ReplaceCharacters, ReplaceNodes,
         RecordEnrichment, FindCanon, Extract, InsertCanon, Complete, StepFails, FailImport,
         ClaimErrs, Renew, Working
<1>2. PICK n \in Novel : task[p][k].novel = n
  BY <1>1, OfNovel
<1>3. CASE Claim(p, k)
  BY <1>2, <1>3, ClaimStep
<1>4. CASE MarkExhausted(p, k)
  BY <1>2, <1>4, MarkStep
<1>5. CASE Load(p, k)
  BY <1>2, <1>5, LoadStep
<1>6. CASE Replay(p, k)
  BY <1>2, <1>6, ReplayStep
<1>7. CASE Repair(p, k)
  BY <1>2, <1>7, RepairStep
<1>8. CASE Repaired(p, k)
  BY <1>2, <1>8, RepairedStep
<1>9. CASE ReplaceCharacters(p, k)
  BY <1>2, <1>9, ReplaceCharactersStep
<1>10. CASE ReplaceNodes(p, k)
  BY <1>2, <1>10, ReplaceNodesStep
<1>11. CASE RecordEnrichment(p, k)
  BY <1>2, <1>11, RecordEnrichmentStep
<1>12. CASE FindCanon(p, k)
  BY <1>2, <1>12, FindCanonStep
<1>13. CASE Extract(p, k)
  BY <1>2, <1>13, ExtractStep
<1>14. CASE InsertCanon(p, k)
  BY <1>2, <1>14, InsertCanonStep
<1>15. CASE Complete(p, k)
  BY <1>2, <1>15, CompleteStep
<1>16. CASE StepFails(p, k)
  BY <1>16, ToFail DEF StepFails, RowsStay
<1>17. CASE FailImport(p, k)
  BY <1>2, <1>17, FailStep
<1>18. CASE ClaimErrs(p, k)
  BY <1>18, GoneStep DEF ClaimErrs, RowsStay
<1>19. CASE Renew(p, k)
  BY <1>2, <1>19, RenewStep
<1> QED BY <1>3, <1>4, <1>5, <1>6, <1>7, <1>8, <1>9, <1>10, <1>11, <1>12, <1>13, <1>14, <1>15,
           <1>16, <1>17, <1>18, <1>19 DEF Step

LEMMA ImportStep == ImportInv /\ [Next]_vars => ImportInv'
<1> SUFFICES ASSUME ImportInv, [Next]_vars PROVE ImportInv'
  OBVIOUS
<1>1. ASSUME NEW p \in Proc, NEW batch \in SUBSET Novel, NEW first \in batch,
             NEW parsed \in SUBSET batch, Accept(p, batch, parsed, first)
      PROVE  ImportInv'
  BY <1>1, AcceptStep
<1>2. ASSUME NEW p \in Proc, Scan(p) PROVE ImportInv'
  BY <1>2, ScanStep
<1>3. ASSUME NEW p \in Proc, Crash(p) PROVE ImportInv'
  BY <1>3, CrashStep
<1>4. ASSUME NEW p \in Proc, NEW n \in Novel, AskRetry(p, n) PROVE ImportInv'
  BY <1>4, AskRetryStep
<1>5. ASSUME NEW o \in offer, Admit(o) PROVE ImportInv'
  BY <1>5, AdmitStep
<1>6. ASSUME NEW o \in offer, Decline(o) PROVE ImportInv'
  BY <1>6, DeclineStep
<1>7. ASSUME NEW p \in Proc, NEW k \in Permit, Step(p, k) \/ ClaimErrs(p, k) \/ Renew(p, k)
      PROVE  ImportInv'
  BY <1>7, StepOfTask
<1>8. ASSUME NEW n \in Novel, Expire(n) PROVE ImportInv'
  BY <1>8, ExpireStep
<1>9. CASE UNCHANGED vars
  <2>1. TypeOK' /\ OneHolder'
    BY <1>9 DEF vars, ImportInv, TypeInv, TypeOK, OneHolder
  <2>2. \A n \in Novel : JobSound(n)' /\ TextSound(n)'
    BY <1>9 DEF vars, ImportInv, TypeInv, JobSound, TextSound, Exhausted
  <2>3. \A p \in Proc, k \in Permit : TaskSound(task[p][k])'
    BY <1>9 DEF vars, ImportInv, TypeInv, TaskSound
  <2>4. \A p \in Proc, k \in Permit : TaskFollows(task[p][k])'
    BY <1>9 DEF vars, ImportInv, TaskFollows, Follows, Held, Fenced
  <2> QED BY <2>1, <2>2, <2>3, <2>4 DEF ImportInv, TypeInv
<1> QED BY <1>1, <1>2, <1>3, <1>4, <1>5, <1>6, <1>7, <1>8, <1>9 DEF Next

LEMMA ImportHolds == Spec => []ImportInv
BY ImportInit, ImportStep, PTL DEF Spec

(* The rows and the tasks of process_import keep their types. *)
THEOREM TypeCorrect == Spec => []TypeOK
<1>1. ImportInv => TypeOK
  BY DEF ImportInv, TypeInv
<1> QED BY <1>1, ImportHolds, PTL

(* complete_import opens a novel only when everything in it was derived    *)
(* from the chapters that are stored, whatever attempts came before.       *)
THEOREM ReadyCoherent == Spec => []ReadyIsCoherent
<1>1. ImportInv => ReadyIsCoherent
  <2> SUFFICES ASSUME ImportInv, NEW n \in Novel, novel[n].status = "ready"
               PROVE  /\ text[n].chapters.count > 0
                      /\ novel[n].total = text[n].chapters.count
                      /\ text[n].characters.of = text[n].chapters
                      /\ text[n].nodes = text[n].chapters
                      /\ text[n].canon = [of |-> text[n].chapters, cast |-> text[n].characters]
                      /\ text[n].checkpoint = NoChapters
    BY DEF ReadyIsCoherent
  <2> QED BY RowOf DEF JobSound, TextSound
<1> QED BY <1>1, ImportHolds, PTL

--------------------------------------------------------------------------------
(* What a step may do to the rows of a novel *)

FrozenStep(n) == job[n].stage \in {"enriched", "completed"} =>
    /\ job'[n].stage \in {job[n].stage, "completed"}
    /\ text'[n].chapters = text[n].chapters
    /\ text'[n].characters = text[n].characters
    /\ text'[n].nodes = text[n].nodes

FinalStep(n) == job[n].status = "completed" \/ Exhausted(n) =>
    job'[n] = job[n] /\ novel'[n] = novel[n] /\ text'[n] = text[n]

(* Only the mark of a refused claim exhausts a job. *)
NotExhausting(n) == Exhausted(n)' => Exhausted(n)

KeepsRows == \A n \in Novel : FrozenStep(n) /\ FinalStep(n)
KeepsAll  == KeepsRows /\ \A n \in Novel : NotExhausting(n)

Elsewhere(n) == \A m \in Novel : m # n => job'[m] = job[m] /\ novel'[m] = novel[m] /\ text'[m] = text[m]

LEMMA RowsStayKeep == RowsStay => KeepsAll
BY DEF RowsStay, KeepsAll, KeepsRows, FrozenStep, FinalStep, NotExhausting, Exhausted

LEMMA WriterKeeps ==
  ASSUME NEW n \in Novel, Elsewhere(n), FrozenStep(n), FinalStep(n), NotExhausting(n)
  PROVE  KeepsAll
BY DEF Elsewhere, KeepsAll, KeepsRows, FrozenStep, FinalStep, NotExhausting, Exhausted

(* A row in progress, written. *)
LEMMA UnderFence ==
  ASSUME NEW n \in Novel, job[n].status = "in_progress", Elsewhere(n), FrozenStep(n),
         ~(job'[n].status = "failed" /\ job'[n].failure = "budget_exhausted")
  PROVE  KeepsAll
BY WriterKeeps DEF FinalStep, NotExhausting, Exhausted

(* The steps of the pipeline. *)
LEMMA PipelineKeeps ==
  ASSUME ImportInv, NEW p \in Proc, NEW k \in Permit, NEW n \in Novel, task[p][k].novel = n,
         Held(task[p][k]),
         \/ Replay(p, k) \/ Repair(p, k) \/ ReplaceCharacters(p, k) \/ ReplaceNodes(p, k)
         \/ RecordEnrichment(p, k) \/ Extract(p, k) \/ InsertCanon(p, k) \/ Complete(p, k)
  PROVE  KeepsAll
<1> DEFINE t == task[p][k]
<1>0. job[n].status = "in_progress" /\ RowsTyped /\ job[n] \in JobRow /\ text[n] \in TextRow
  BY TypeParts, RowOf DEF ImportInv, TypeInv, Held, Fenced
<1>1. ASSUME NEW new, NEW round, ReplaceChapters(p, k, new, round) PROVE KeepsAll
  <2>1. CASE RowsStay
    BY <2>1, RowsStayKeep
  <2>2. CASE ~RowsStay
    <3>1. /\ job[n].stage \in {"source", "chapters"}
          /\ text' = [text EXCEPT ![n] = [@ EXCEPT !.chapters = new, !.nodes = NoChapters]]
          /\ job' = [job EXCEPT ![n].stage = "chapters"] /\ UNCHANGED novel
      BY <1>1, <2>2 DEF ReplaceChapters, Lost, RowsStay
    <3>2. Elsewhere(n) /\ job'[n].status = "in_progress"
      BY <1>0, <3>1 DEF RowsTyped, JobRow, Elsewhere
    <3> QED BY <1>0, <3>1, <3>2, UnderFence DEF FrozenStep
  <2> QED BY <2>1, <2>2
<1>2. CASE Replay(p, k) \/ Repair(p, k)
  BY <1>1, <1>2 DEF Replay, Repair
<1>3. CASE ReplaceCharacters(p, k) \/ ReplaceNodes(p, k)
  <2>1. CASE RowsStay
    BY <2>1, RowsStayKeep
  <2>2. CASE ~RowsStay
    <3>1. job[n].stage = "chapters" /\ UNCHANGED <<job, novel>> /\ Elsewhere(n)
      BY <1>0, <1>3, <2>2 DEF ReplaceCharacters, ReplaceNodes, Lost, RowsStay, RowsTyped, Elsewhere
    <3> QED BY <1>0, <3>1, UnderFence DEF FrozenStep
  <2> QED BY <2>1, <2>2
<1>4. CASE RecordEnrichment(p, k)
  <2>1. CASE RowsStay
    BY <2>1, RowsStayKeep
  <2>2. CASE ~RowsStay
    <3>1. /\ job[n].stage \in {"chapters", "enriched"} /\ UNCHANGED text
          /\ novel' = [novel EXCEPT ![n].total = t.chapters.count]
          /\ job' = [job EXCEPT ![n] = [@ EXCEPT !.stage = "enriched", !.lease = "live"]]
      BY <1>4, <2>2 DEF RecordEnrichment, Lost, RowsStay
    <3>2. Elsewhere(n) /\ job'[n].status = "in_progress" /\ job'[n].stage = "enriched"
      BY <1>0, <3>1 DEF RowsTyped, JobRow, Elsewhere
    <3> QED BY <1>0, <3>1, <3>2, UnderFence DEF FrozenStep
  <2> QED BY <2>1, <2>2
<1>5. CASE Extract(p, k) \/ InsertCanon(p, k)
  <2>1. CASE RowsStay
    BY <2>1, RowsStayKeep
  <2>2. CASE ~RowsStay
    <3>1. /\ UNCHANGED <<job, novel>>
          /\ \/ text' = [text EXCEPT ![n].checkpoint = t.chapters]
             \/ text' = [text EXCEPT ![n] = [@ EXCEPT !.canon = [of |-> t.chapters, cast |-> t.cast],
                                                      !.checkpoint = NoChapters]]
      BY <1>5, <2>2 DEF Extract, InsertCanon, Lost, RowsStay
    <3>2. /\ Elsewhere(n) /\ text'[n].chapters = text[n].chapters
          /\ text'[n].characters = text[n].characters /\ text'[n].nodes = text[n].nodes
      <4>1. text[n] \in TextRow /\ Elsewhere(n)
        BY <1>0, <3>1 DEF RowsTyped, Elsewhere
      <4>2. CASE text' = [text EXCEPT ![n].checkpoint = t.chapters]
        <5>1. text'[n] = [text[n] EXCEPT !.checkpoint = t.chapters]
          BY <1>0, <4>2 DEF RowsTyped
        <5> QED BY <4>1, <5>1 DEF TextRow
      <4>3. CASE text' = [text EXCEPT ![n] = [@ EXCEPT !.canon = [of |-> t.chapters, cast |-> t.cast],
                                                       !.checkpoint = NoChapters]]
        <5>1. text'[n] = [text[n] EXCEPT !.canon = [of |-> t.chapters, cast |-> t.cast],
                                         !.checkpoint = NoChapters]
          BY <1>0, <4>3 DEF RowsTyped
        <5> QED BY <4>1, <5>1 DEF TextRow
      <4> QED BY <3>1, <4>1, <4>2, <4>3
    <3> QED BY <1>0, <3>1, <3>2, UnderFence DEF FrozenStep
  <2> QED BY <2>1, <2>2
<1>6. CASE Complete(p, k)
  <2>1. CASE RowsStay
    BY <2>1, RowsStayKeep
  <2>2. CASE ~RowsStay
    <3>1. /\ UNCHANGED text /\ novel' = [novel EXCEPT ![n].status = "ready"]
          /\ job' = [job EXCEPT ![n] = [@ EXCEPT !.stage = "completed", !.status = "completed",
                                                 !.lease = "none", !.failure = "none"]]
      BY <1>6, <2>2 DEF Complete, Lost, RowsStay
    <3>2. Elsewhere(n) /\ job'[n].status = "completed" /\ job'[n].stage = "completed"
      BY <1>0, <3>1 DEF RowsTyped, JobRow, Elsewhere
    <3> QED BY <1>0, <3>1, <3>2, UnderFence DEF FrozenStep
  <2> QED BY <2>1, <2>2
<1> QED BY <1>2, <1>3, <1>4, <1>5, <1>6

(* The steps around it: the upload, the claim, its failure, the lease. *)
LEMMA AcceptKeeps ==
  ASSUME ImportInv, NEW p \in Proc, NEW batch \in SUBSET Novel, NEW first \in batch,
         NEW parsed \in SUBSET batch, Accept(p, batch, parsed, first)
  PROVE  KeepsAll
<1> SUFFICES ASSUME NEW n \in Novel PROVE FrozenStep(n) /\ FinalStep(n) /\ NotExhausting(n)
  BY DEF KeepsAll, KeepsRows
<1>1. CASE n \in batch
  <2>1. job[n] = NoJob
    BY <1>1, RowOf DEF Accept, Accepted, JobSound
  <2>2. job'[n].status = "pending"
    BY <1>1, ConstantRows DEF Accept, JobRow
  <2> QED BY <2>1, <2>2, ConstantRows DEF FrozenStep, FinalStep, NotExhausting, Exhausted
<1>2. CASE n \notin batch
  <2>1. job'[n] = job[n] /\ text'[n] = text[n] /\ novel'[n] = novel[n]
    BY <1>2 DEF Accept
  <2> QED BY <2>1 DEF FrozenStep, FinalStep, NotExhausting, Exhausted
<1> QED BY <1>1, <1>2

LEMMA ClaimKeeps ==
  ASSUME ImportInv, NEW p \in Proc, NEW k \in Permit, NEW n \in Novel, task[p][k].novel = n, Claim(p, k)
  PROVE  KeepsAll
<1>0. RowsTyped /\ job[n] \in JobRow
  BY TypeParts, RowOf DEF ImportInv, TypeInv
<1>1. CASE RowsStay
  BY <1>1, RowsStayKeep
<1>2. CASE ~RowsStay
  <2>1. /\ Claimable(n) /\ UNCHANGED text /\ novel' = [novel EXCEPT ![n].status = "parsing"]
        /\ job' = [job EXCEPT ![n] = [@ EXCEPT !.status = "in_progress", !.attempt = NextAttempt(n),
                                               !.lease = "live", !.failure = "none"]]
    BY <1>2 DEF Claim, RowsStay
  <2>2. Elsewhere(n) /\ job'[n].stage = job[n].stage /\ job'[n].status = "in_progress"
    BY <1>0, <2>1 DEF RowsTyped, JobRow, Elsewhere
  <2>3. job[n].status # "completed" /\ ~Exhausted(n)
    BY <2>1, RowOf, RowFields, ImportConstants DEF Claimable, JobSound
  <2> QED BY <2>1, <2>2, <2>3, WriterKeeps DEF FrozenStep, FinalStep, NotExhausting, Exhausted
<1> QED BY <1>1, <1>2

LEMMA FailKeeps ==
  ASSUME ImportInv, NEW p \in Proc, NEW k \in Permit, NEW n \in Novel, task[p][k].novel = n, FailImport(p, k)
  PROVE  KeepsAll
<1>0. RowsTyped /\ job[n] \in JobRow
  BY TypeParts, RowOf DEF ImportInv, TypeInv
<1>1. CASE RowsStay
  BY <1>1, RowsStayKeep DEF FailImport
<1>2. CASE ~RowsStay
  <2>1. /\ job[n].status = "in_progress" /\ UNCHANGED text /\ novel' = [novel EXCEPT ![n].status = "error"]
        /\ job' = [job EXCEPT ![n] = [@ EXCEPT !.status = "failed", !.lease = "none", !.failure = "failed"]]
    BY <1>2 DEF FailImport, RowsStay, Held, Fenced
  <2>2. Elsewhere(n) /\ job'[n].stage = job[n].stage /\ job'[n].failure = "failed"
    BY <1>0, <2>1 DEF RowsTyped, JobRow, Elsewhere
  <2> QED BY <2>1, <2>2, UnderFence DEF FrozenStep
<1> QED BY <1>1, <1>2

LEMMA LeaseKeeps ==
  ASSUME ImportInv, NEW n \in Novel, job[n].status = "in_progress", UNCHANGED <<novel, text>>,
         NEW lease, job' = [job EXCEPT ![n].lease = lease]
  PROVE  KeepsAll
<1>0. RowsTyped /\ job[n] \in JobRow
  BY TypeParts, RowOf DEF ImportInv, TypeInv
<1>1. Elsewhere(n) /\ job'[n].stage = job[n].stage /\ job'[n].status = "in_progress"
  BY <1>0 DEF RowsTyped, JobRow, Elsewhere
<1> QED BY <1>1, UnderFence DEF FrozenStep

LEMMA MarkKeeps ==
  ASSUME ImportInv, NEW p \in Proc, NEW k \in Permit, NEW n \in Novel, task[p][k].novel = n,
         MarkExhausted(p, k)
  PROVE  KeepsRows /\ \A m \in Novel : m # n => NotExhausting(m)
<1>0. RowsTyped /\ job[n] \in JobRow
  BY TypeParts, RowOf DEF ImportInv, TypeInv
<1>1. CASE RowsStay
  BY <1>1, RowsStayKeep DEF KeepsAll
<1>2. CASE ~RowsStay
  <2>1. /\ job[n].status # "completed" /\ ~Exhausted(n) /\ UNCHANGED text
        /\ novel' = [novel EXCEPT ![n].status = IF @ = "ready" THEN @ ELSE "error"]
        /\ job' = [job EXCEPT ![n] = [@ EXCEPT !.status = "failed", !.lease = "none",
                                               !.failure = "budget_exhausted"]]
    BY <1>2 DEF MarkExhausted, RowsStay
  <2>2. Elsewhere(n) /\ job'[n].stage = job[n].stage
    BY <1>0, <2>1 DEF RowsTyped, JobRow, Elsewhere
  <2> QED BY <2>1, <2>2 DEF Elsewhere, KeepsRows, FrozenStep, FinalStep, NotExhausting, Exhausted
<1> QED BY <1>1, <1>2

(* Together. *)
LEMMA StepKeeps ==
  ASSUME ImportInv, [Next]_vars
  PROVE  \/ KeepsAll
         \/ \E p \in Proc, k \in Permit : MarkExhausted(p, k)
<1>1. ASSUME NEW p \in Proc, NEW batch \in SUBSET Novel, NEW first \in batch,
             NEW parsed \in SUBSET batch, Accept(p, batch, parsed, first)
      PROVE  KeepsAll
  BY <1>1, AcceptKeeps
<1>2. ASSUME NEW p \in Proc, Scan(p) \/ Crash(p) PROVE KeepsAll
  BY <1>2, RowsStayKeep DEF Scan, Crash, RowsStay
<1>3. ASSUME NEW p \in Proc, NEW n \in Novel, AskRetry(p, n) PROVE KeepsAll
  BY <1>3, RowsStayKeep DEF AskRetry, RowsStay
<1>4. ASSUME NEW o \in offer, Admit(o) \/ Decline(o) PROVE KeepsAll
  BY <1>4, RowsStayKeep DEF Admit, Decline, RowsStay
<1>5. ASSUME NEW p \in Proc, NEW k \in Permit, Step(p, k) \/ ClaimErrs(p, k) \/ Renew(p, k),
             ~MarkExhausted(p, k)
      PROVE  KeepsAll
  <2>1. task[p][k].pc # "idle"
    BY <1>5 DEF Step, Claim, Load, Replay, Repair, Repaired, ReplaceCharacters, ReplaceNodes,
           RecordEnrichment, FindCanon, Extract, InsertCanon, Complete, StepFails, FailImport,
           ClaimErrs, Renew, Working
  <2>2. PICK n \in Novel : task[p][k].novel = n
    BY <2>1, OfNovel
  <2>3. CASE Claim(p, k)
    BY <2>2, <2>3, ClaimKeeps
  <2>4. CASE Load(p, k) \/ Repaired(p, k) \/ FindCanon(p, k) \/ StepFails(p, k) \/ ClaimErrs(p, k)
    BY <2>4, RowsStayKeep DEF Load, Repaired, FindCanon, StepFails, ClaimErrs, RowsStay
  <2>5. CASE \/ Replay(p, k) \/ Repair(p, k) \/ ReplaceCharacters(p, k) \/ ReplaceNodes(p, k)
             \/ RecordEnrichment(p, k) \/ Extract(p, k) \/ InsertCanon(p, k) \/ Complete(p, k)
    <3>1. CASE Held(task[p][k])
      BY <2>2, <2>5, <3>1, PipelineKeeps
    <3>2. CASE ~Held(task[p][k])
      <4>1. RowsStay
        BY <2>5, <3>2 DEF Replay, Repair, ReplaceChapters, ReplaceCharacters, ReplaceNodes,
               RecordEnrichment, Extract, InsertCanon, Complete, Lost, RowsStay
      <4> QED BY <4>1, RowsStayKeep
    <3> QED BY <3>1, <3>2
  <2>6. CASE FailImport(p, k)
    BY <2>2, <2>6, FailKeeps
  <2>7. CASE Renew(p, k)
    <3>1. CASE UNCHANGED job
      BY <2>7, <3>1, RowsStayKeep DEF Renew, RowsStay
    <3>2. CASE Held(task[p][k]) /\ job' = [job EXCEPT ![n].lease = "live"]
      BY <2>2, <2>7, <3>2, LeaseKeeps DEF Renew, Held, Fenced
    <3> QED BY <2>2, <2>7, <3>1, <3>2 DEF Renew
  <2> QED BY <1>5, <2>3, <2>4, <2>5, <2>6, <2>7 DEF Step
<1>6. ASSUME NEW n \in Novel, Expire(n) PROVE KeepsAll
  <2>1. job[n].status = "in_progress"
    BY <1>6, RowOf DEF Expire, JobSound
  <2> QED BY <1>6, <2>1, LeaseKeeps DEF Expire
<1>7. CASE UNCHANGED vars
  BY <1>7, RowsStayKeep DEF vars, RowsStay
<1> QED BY <1>1, <1>2, <1>3, <1>4, <1>5, <1>6, <1>7 DEF Next

LEMMA RowsKept == ImportInv /\ [Next]_vars => KeepsRows
<1> SUFFICES ASSUME ImportInv, [Next]_vars PROVE KeepsRows
  OBVIOUS
<1>1. ASSUME NEW p \in Proc, NEW k \in Permit, MarkExhausted(p, k) PROVE KeepsRows
  <2>1. PICK n \in Novel : task[p][k].novel = n
    BY <1>1, OfNovel DEF MarkExhausted
  <2> QED BY <1>1, <2>1, MarkKeeps
<1> QED BY <1>1, StepKeeps DEF KeepsAll

(* What an attempt has enriched, record_import_enrichment's successors may *)
(* rely on: no older attempt changes it, and the stage does not go back.   *)
THEOREM EnrichedStaysFrozen == Spec => EnrichedIsFrozen
<1>1. ASSUME ImportInv, [Next]_vars, NEW n \in Novel, job[n].stage \in {"enriched", "completed"}
      PROVE  /\ job'[n].stage \in {job[n].stage, "completed"}
             /\ text'[n].chapters = text[n].chapters
             /\ text'[n].characters = text[n].characters
             /\ text'[n].nodes = text[n].nodes
  BY <1>1, RowsKept DEF KeepsRows, FrozenStep
<1>2. ASSUME ImportInv, [Next]_vars
      PROVE  [\A n \in Novel : job[n].stage \in {"enriched", "completed"} =>
                /\ job'[n].stage \in {job[n].stage, "completed"}
                /\ text'[n].chapters = text[n].chapters
                /\ text'[n].characters = text[n].characters
                /\ text'[n].nodes = text[n].nodes]_vars
  BY <1>1, <1>2
<1> QED BY <1>2, ImportHolds, PTL DEF Spec, EnrichedIsFrozen

(* complete_import and mark_import_budget_exhausted are final: no late     *)
(* failure, claim or mark changes the rows of a job they have settled.     *)
THEOREM SettledStaysFinal == Spec => SettledIsFinal
<1>1. ASSUME ImportInv, [Next]_vars, NEW n \in Novel, job[n].status = "completed" \/ Exhausted(n)
      PROVE  job'[n] = job[n] /\ novel'[n] = novel[n] /\ text'[n] = text[n]
  BY <1>1, RowsKept DEF KeepsRows, FinalStep
<1>2. ASSUME ImportInv, [Next]_vars
      PROVE  [\A n \in Novel : job[n].status = "completed" \/ Exhausted(n) =>
                job'[n] = job[n] /\ novel'[n] = novel[n] /\ text'[n] = text[n]]_vars
  BY <1>1, <1>2
<1> QED BY <1>2, ImportHolds, PTL DEF Spec, SettledIsFinal

--------------------------------------------------------------------------------
(* One import per reader in a process *)

Busy(p, k) == task[p][k].pc # "idle"

OneImportPerReader == \A p \in Proc, k, l \in Permit :
    k # l /\ Busy(p, k) /\ Busy(p, l) => Owner[task[p][k].novel] # Owner[task[p][l].novel]

(* A task that is busy after a step was busy with its novel before, or has *)
(* just been admitted to a free permit.                                    *)
StillBusy(p, k) == Busy(p, k)' => Busy(p, k) /\ task'[p][k].novel = task[p][k].novel

LEMMA TaskKeepsItsNovel ==
  ASSUME ImportInv, NEW p \in Proc, NEW k \in Permit, Step(p, k) \/ ClaimErrs(p, k) \/ Renew(p, k)
  PROVE  \A q \in Proc, l \in Permit : StillBusy(q, l)
<1> DEFINE t == task[p][k]
<1>0. TasksTyped /\ t \in Task
  BY TypeParts, Tasks DEF ImportInv, TypeInv
<1>1. t.pc # "idle"
  BY DEF Step, Claim, MarkExhausted, Load, Replay, Repair, Repaired, ReplaceCharacters, ReplaceNodes,
         RecordEnrichment, FindCanon, Extract, InsertCanon, Complete, StepFails, FailImport,
         ClaimErrs, Renew, Working
<1>2. ASSUME NEW u, task' = [task EXCEPT ![p][k] = u], u.pc = "idle" \/ u.novel = t.novel
      PROVE  \A q \in Proc, l \in Permit : StillBusy(q, l)
  BY <1>0, <1>1, <1>2 DEF TasksTyped, StillBusy, Busy
<1>3. ASSUME NEW pc, Goto(p, k, pc) PROVE \A q \in Proc, l \in Permit : StillBusy(q, l)
  <2>1. [t EXCEPT !.pc = pc].novel = t.novel
    BY <1>0 DEF Task
  <2>2. task' = [task EXCEPT ![p][k] = [t EXCEPT !.pc = pc]]
    BY <1>3 DEF Goto
  <2> QED BY <1>2, <2>1, <2>2
<1>4. CASE task' = [task EXCEPT ![p][k] = Idle]
  BY <1>2, <1>4, ConstantRows
<1>5. CASE UNCHANGED task
  BY <1>5 DEF StillBusy, Busy
<1>6. CASE Claim(p, k) /\ ~Goto(p, k, "mark")
  <2> DEFINE u == [t EXCEPT !.pc = "load", !.attempt = NextAttempt(t.novel), !.stage = job[t.novel].stage]
  <2>1. u.novel = t.novel
    BY <1>0 DEF Task
  <2>2. task' = [task EXCEPT ![p][k] = u]
    BY <1>6 DEF Claim, Goto
  <2> HIDE DEF u
  <2> QED BY <1>2, <2>1, <2>2
<1>7. CASE Load(p, k)
  <2> DEFINE u == CASE t.stage = "source"   -> [t EXCEPT !.pc = "replay"]
                    [] t.stage = "chapters" -> [t EXCEPT !.pc = "repair", !.chapters = text[t.novel].chapters]
                    [] t.stage = "enriched" -> [t EXCEPT !.pc = "canon", !.chapters = text[t.novel].chapters,
                                                         !.cast = text[t.novel].characters]
  <2>1. t.stage \in {"source", "chapters", "enriched"}
    BY <1>0, <1>7 DEF Load, Task, Stage, ImportInv, TypeInv, TaskSound
  <2>2. u.novel = t.novel
    <3>1. CASE t.stage = "source"
      BY <1>0, <3>1 DEF Task
    <3>2. CASE t.stage = "chapters"
      BY <1>0, <3>2 DEF Task
    <3>3. CASE t.stage = "enriched"
      BY <1>0, <3>3 DEF Task
    <3> QED BY <2>1, <3>1, <3>2, <3>3
  <2>3. task' = [task EXCEPT ![p][k] = u]
    BY <1>7 DEF Load
  <2> HIDE DEF u
  <2> QED BY <1>2, <2>2, <2>3
<1>8. ASSUME NEW new, NEW round, ReplaceChapters(p, k, new, round)
      PROVE  \A q \in Proc, l \in Permit : StillBusy(q, l)
  <2> DEFINE u == [t EXCEPT !.pc = "repair", !.chapters = new, !.round = round]
  <2>1. u.novel = t.novel
    BY <1>0 DEF Task
  <2>2. task' = [task EXCEPT ![p][k] = u] \/ task' = [task EXCEPT ![p][k] = Idle]
    BY <1>8 DEF ReplaceChapters, Lost
  <2> HIDE DEF u
  <2> QED BY <1>2, <1>4, <2>1, <2>2
<1>9. CASE ReplaceCharacters(p, k)
  <2> DEFINE cast == [by |-> t.attempt, of |-> t.chapters]
             u == [t EXCEPT !.pc = "nodes", !.cast = cast]
  <2>1. u.novel = t.novel
    BY <1>0 DEF Task
  <2>2. task' = [task EXCEPT ![p][k] = u] \/ task' = [task EXCEPT ![p][k] = Idle]
    BY <1>9 DEF ReplaceCharacters, Lost
  <2> HIDE DEF u
  <2> QED BY <1>2, <1>4, <2>1, <2>2
<1>10. CASE \/ MarkExhausted(p, k) \/ FailImport(p, k) \/ ClaimErrs(p, k) \/ Renew(p, k)
  BY <1>4, <1>5, <1>10 DEF MarkExhausted, FailImport, ClaimErrs, Renew
<1>11. CASE \/ Repaired(p, k) \/ ReplaceNodes(p, k) \/ RecordEnrichment(p, k) \/ FindCanon(p, k)
            \/ Extract(p, k) \/ InsertCanon(p, k) \/ Complete(p, k) \/ StepFails(p, k)
  <2>1. task' = [task EXCEPT ![p][k] = Idle] \/ \E pc : Goto(p, k, pc)
    BY <1>11, Zenon DEF Repaired, ReplaceNodes, RecordEnrichment, FindCanon, Extract, InsertCanon, Complete,
           StepFails, Lost
  <2> QED BY <1>3, <1>4, <2>1
<1> QED BY <1>3, <1>6, <1>7, <1>8, <1>9, <1>10, <1>11 DEF Step, Replay, Repair

LEMMA OneImportStep == ImportInv /\ OneImportPerReader /\ [Next]_vars => OneImportPerReader'
<1> SUFFICES ASSUME ImportInv, OneImportPerReader, [Next]_vars PROVE OneImportPerReader'
  OBVIOUS
<1>1. CASE \A q \in Proc, l \in Permit : StillBusy(q, l)
  BY <1>1 DEF OneImportPerReader, StillBusy
<1>2. ASSUME NEW o \in offer, Admit(o) PROVE OneImportPerReader'
  <2> DEFINE i == Min(Free(o.proc))
             u == [Idle EXCEPT !.pc = "claim", !.novel = o.novel, !.by = o.by]
  <2>0. TasksTyped /\ o \in [proc : Proc, novel : Novel, by : By]
    BY TypeParts DEF ImportInv, TypeInv, RestTyped
  <2>1. i \in Free(o.proc) /\ Free(o.proc) \subseteq Permit
    BY <1>2, <2>0, FreePermit DEF Admit, Admissible, Free
  <2>2. u \in Task /\ u.novel = o.novel
    BY <2>0, ConstantRows DEF Task
  <2>3. task' = [task EXCEPT ![o.proc][i] = u]
    BY <1>2 DEF Admit
  <2> HIDE DEF i, u
  <2>4. OnlyTask(o.proc, i) /\ task'[o.proc][i] = u
    BY <2>0, <2>1, <2>2, <2>3, SetTask
  <2>5. \A l \in Permit : l # i /\ Busy(o.proc, l)' =>
           Busy(o.proc, l) /\ task'[o.proc][l].novel = task[o.proc][l].novel
           /\ Owner[task[o.proc][l].novel] # Owner[o.novel]
    BY <1>2, <2>0, <2>4 DEF OnlyTask, Busy, Admit, Admissible, Free
  <2> SUFFICES ASSUME NEW p \in Proc, NEW k \in Permit, NEW l \in Permit, k # l,
                      Busy(p, k)', Busy(p, l)'
               PROVE  Owner[task'[p][k].novel] # Owner[task'[p][l].novel]
    BY DEF OneImportPerReader
  <2>6. CASE p # o.proc
    BY <2>4, <2>6 DEF OnlyTask, OneImportPerReader, Busy
  <2>7. CASE p = o.proc /\ k # i /\ l # i
    BY <2>5, <2>7 DEF OneImportPerReader
  <2>8. CASE p = o.proc /\ (k = i \/ l = i)
    BY <2>2, <2>4, <2>5, <2>8
  <2> QED BY <2>6, <2>7, <2>8
<1>3. ASSUME NEW p \in Proc, NEW k \in Permit, Step(p, k) \/ ClaimErrs(p, k) \/ Renew(p, k)
      PROVE  OneImportPerReader'
  BY <1>1, <1>3, TaskKeepsItsNovel
<1>4. ASSUME NEW p \in Proc, Crash(p) PROVE OneImportPerReader'
  <2>1. \A q \in Proc, l \in Permit : task'[q][l] \in {task[q][l], Idle}
    BY <1>4, TypeParts DEF Crash, ImportInv, TypeInv, TasksTyped
  <2> QED BY <1>1, <2>1, ConstantRows DEF StillBusy, Busy
<1>5. CASE UNCHANGED task
  BY <1>1, <1>5 DEF StillBusy, Busy
<1> QED BY <1>2, <1>3, <1>4, <1>5 DEF Next, Accept, Scan, AskRetry, Decline, Expire, vars

(* claim_import marks a job only when its own claim failed; in one process *)
(* no second import of the reader is admitted while the last attempt runs. *)
THEOREM LastAttemptIsLeft ==
  ASSUME \A p, q \in Proc : p = q
  PROVE  Spec => LastAttemptSurvives
<1>1. Init => OneImportPerReader
  BY ConstantRows DEF Init, OneImportPerReader, Busy
<1>2. ASSUME ImportInv, OneImportPerReader, [Next]_vars, NEW n \in Novel,
             ~Exhausted(n), Exhausted(n)'
      PROVE  Abandoned(n)
  <2>1. PICK p \in Proc, k \in Permit : MarkExhausted(p, k)
    BY <1>2, StepKeeps DEF KeepsAll, NotExhausting
  <2>2. PICK m \in Novel : task[p][k].novel = m
    BY <1>2, <2>1, OfNovel DEF MarkExhausted
  <2>3. m = n
    BY <1>2, <2>1, <2>2, MarkKeeps DEF NotExhausting
  <2>4. ASSUME NEW q \in Proc, NEW l \in Permit, Runs(q, l, n) PROVE FALSE
    <3>1. q = p /\ l # k /\ Busy(p, k) /\ Busy(p, l) /\ task[p][l].novel = n
      BY <2>1, <2>4 DEF Runs, MarkExhausted, Busy, Working
    <3> QED BY <1>2, <2>2, <2>3, <3>1 DEF OneImportPerReader
  <2> QED BY <2>4 DEF Abandoned
<1>3. ASSUME ImportInv, OneImportPerReader, [Next]_vars
      PROVE  [\A n \in Novel : ~Exhausted(n) /\ Exhausted(n)' /\ job[n].lease = "live" => Abandoned(n)]_vars
  BY <1>2, <1>3
<1> QED BY <1>1, <1>3, ImportHolds, OneImportStep, PTL DEF Spec, LastAttemptSurvives

--------------------------------------------------------------------------------
(* The catalogue *)

Attempts == [n \in Novel |-> job[n].attempt]
Books    == [n \in Analysed |-> Book(n)]
Models   == [n \in Modelled |-> text[n].canon]
Opened   == {n \in Novel : novel[n].status = "ready"}
GivenUp  == {n \in Novel : Exhausted(n)}

Seen == <<Accepted, Attempts, Books, Models, Opened, GivenUp>>

(* A step on one novel changes what is seen of that novel at most. *)
LEMMA OneIsSeen ==
  ASSUME NEW n \in Novel, Elsewhere(n)
  PROVE  /\ (n \in Accepted' <=> n \in Accepted) => Accepted' = Accepted
         /\ job'[n].attempt = job[n].attempt => Attempts' = Attempts
         /\ (n \in Analysed' <=> n \in Analysed) => Analysed' = Analysed
         /\ (n \in Modelled' <=> n \in Modelled) => Modelled' = Modelled
         /\ (n \in Opened' <=> n \in Opened) => Opened' = Opened
         /\ (n \in GivenUp' <=> n \in GivenUp) => GivenUp' = GivenUp
         /\ \A m \in Novel : m # n => Book(m)' = Book(m)
<1>1. (n \in Accepted' <=> n \in Accepted) => Accepted' = Accepted
  BY DEF Elsewhere, Accepted
<1>2. job'[n].attempt = job[n].attempt => Attempts' = Attempts
  BY DEF Elsewhere, Attempts
<1>3. (n \in Analysed' <=> n \in Analysed) => Analysed' = Analysed
  BY DEF Elsewhere, Analysed
<1>4. (n \in Modelled' <=> n \in Modelled) => Modelled' = Modelled
  BY DEF Elsewhere, Modelled
<1>5. (n \in Opened' <=> n \in Opened) => Opened' = Opened
  BY DEF Elsewhere, Opened
<1>6. (n \in GivenUp' <=> n \in GivenUp) => GivenUp' = GivenUp
  BY DEF Elsewhere, GivenUp, Exhausted
<1>7. \A m \in Novel : m # n => Book(m)' = Book(m)
  BY DEF Elsewhere, Book
<1> QED BY <1>1, <1>2, <1>3, <1>4, <1>5, <1>6, <1>7

LEMMA BooksStay ==
  ASSUME NEW n \in Novel, Elsewhere(n), n \in Analysed' <=> n \in Analysed,
         n \in Analysed => Book(n)' = Book(n)
  PROVE  Books' = Books
<1>1. Analysed' = Analysed /\ \A m \in Novel : m # n => Book(m)' = Book(m)
  BY OneIsSeen
<1>2. \A m \in Analysed : Book(m)' = Book(m)
  BY <1>1 DEF Analysed
<1> QED BY <1>1, <1>2 DEF Books

LEMMA ModelsStay ==
  ASSUME NEW n \in Novel, Elsewhere(n), text'[n].canon = text[n].canon
  PROVE  Models' = Models
<1>1. Modelled' = Modelled
  BY OneIsSeen DEF Modelled
<1>2. \A m \in Modelled : text'[m].canon = text[m].canon
  BY DEF Elsewhere, Modelled
<1> QED BY <1>1, <1>2 DEF Models

(* Nothing is seen of the step. *)
LEMMA Unseen ==
  ASSUME NEW n \in Novel, Elsewhere(n),
         n \in Accepted' <=> n \in Accepted, job'[n].attempt = job[n].attempt,
         n \in Analysed' <=> n \in Analysed, n \in Analysed => Book(n)' = Book(n),
         text'[n].canon = text[n].canon,
         n \in Opened' <=> n \in Opened, n \in GivenUp' <=> n \in GivenUp
  PROVE  Seen' = Seen
<1>1. Books' = Books /\ Models' = Models
  BY BooksStay, ModelsStay
<1>2. Accepted' = Accepted /\ Attempts' = Attempts /\ Opened' = Opened /\ GivenUp' = GivenUp
  BY OneIsSeen
<1> QED BY <1>1, <1>2 DEF Seen

LEMMA RowsStayUnseen == RowsStay => Seen' = Seen
BY DEF RowsStay, Seen, Accepted, Attempts, Books, Models, Opened, GivenUp, Analysed, Modelled,
       Book, Exhausted

(* The rows of a novel whose import is at work. *)
LEMMA InProgressSeen ==
  ASSUME ImportInv, NEW n \in Novel, job[n].status = "in_progress"
  PROVE  n \in Accepted \ (Opened \cup GivenUp)
BY RowOf DEF JobSound, Accepted, Opened, GivenUp, Exhausted

(* The replay, a repair and the analysis store what is not seen yet. *)
LEMMA AnalysisUnseen ==
  ASSUME ImportInv, NEW p \in Proc, NEW k \in Permit, NEW n \in Novel, task[p][k].novel = n,
         Held(task[p][k]),
         \/ Replay(p, k) \/ Repair(p, k) \/ ReplaceCharacters(p, k) \/ ReplaceNodes(p, k)
  PROVE  Seen' = Seen
<1>0. job[n].status = "in_progress" /\ RowsTyped /\ job[n] \in JobRow /\ text[n] \in TextRow
  BY TypeParts, RowOf DEF ImportInv, TypeInv, Held, Fenced
<1>1. ASSUME NEW new, NEW round, ReplaceChapters(p, k, new, round) PROVE Seen' = Seen
  <2>1. CASE RowsStay
    BY <2>1, RowsStayUnseen
  <2>2. CASE ~RowsStay
    <3>1. /\ job[n].stage \in {"source", "chapters"}
          /\ text' = [text EXCEPT ![n] = [@ EXCEPT !.chapters = new, !.nodes = NoChapters]]
          /\ job' = [job EXCEPT ![n].stage = "chapters"] /\ UNCHANGED novel
      BY <1>1, <2>2 DEF ReplaceChapters, Lost, RowsStay
    <3>2. /\ Elsewhere(n) /\ job'[n].status = "in_progress" /\ job'[n].stage = "chapters"
          /\ job'[n].attempt = job[n].attempt /\ novel' = novel
      BY <1>0, <3>1 DEF RowsTyped, JobRow, Elsewhere
    <3>3. text'[n] = [text[n] EXCEPT !.chapters = new, !.nodes = NoChapters]
      BY <1>0, <3>1 DEF RowsTyped
    <3>4. text'[n].canon = text[n].canon
      BY <1>0, <3>3 DEF TextRow
    <3> QED BY <1>0, <3>1, <3>2, <3>4, Unseen DEF Accepted, Analysed, Opened, GivenUp, Exhausted
  <2> QED BY <2>1, <2>2
<1>2. CASE Replay(p, k) \/ Repair(p, k)
  BY <1>1, <1>2 DEF Replay, Repair
<1>3. CASE ReplaceCharacters(p, k) \/ ReplaceNodes(p, k)
  <2>1. CASE RowsStay
    BY <2>1, RowsStayUnseen
  <2>2. CASE ~RowsStay
    <3>1. /\ job[n].stage = "chapters" /\ UNCHANGED <<job, novel>> /\ Elsewhere(n)
          /\ \/ \E x : text' = [text EXCEPT ![n].characters = x]
             \/ \E x : text' = [text EXCEPT ![n].nodes = x]
      BY <1>0, <1>3, <2>2 DEF ReplaceCharacters, ReplaceNodes, Lost, RowsStay, RowsTyped, Elsewhere
    <3>2. \/ \E x : text'[n] = [text[n] EXCEPT !.characters = x]
          \/ \E x : text'[n] = [text[n] EXCEPT !.nodes = x]
      BY <1>0, <3>1 DEF RowsTyped
    <3>3. text'[n].canon = text[n].canon
      BY <1>0, <3>2 DEF TextRow
    <3> QED BY <3>1, <3>3, Unseen DEF Accepted, Analysed, Opened, GivenUp, Exhausted
  <2> QED BY <2>1, <2>2
<1> QED BY <1>2, <1>3

(* The enrichment shows the book. *)
LEMMA AnalyseStep ==
  ASSUME ImportInv, ImportInv', NEW p \in Proc, NEW k \in Permit, NEW n \in Novel,
         task[p][k].novel = n, Held(task[p][k]), RecordEnrichment(p, k), ~RowsStay
  PROVE  n \in Accepted \ (Opened \cup GivenUp) /\ Promise!Analyse(n)
<1> DEFINE t == task[p][k]
<1>0. /\ job[n].status = "in_progress" /\ RowsTyped /\ job[n] \in JobRow /\ novel[n] \in NovelRow
      /\ job[n].stage = "chapters"
  <2>1. job[n].status = "in_progress" /\ t.pc = "record" /\ t.pc \in Working
    BY DEF Held, Fenced, RecordEnrichment, Working
  <2>2. RowsTyped /\ Follows(t)
    BY <2>1, AtWork
  <2>3. job[n].stage = "chapters"
    BY <2>1, <2>2 DEF Follows, FollowsRow
  <2> QED BY <2>1, <2>2, <2>3, RowOf
<1>1. /\ UNCHANGED text /\ novel' = [novel EXCEPT ![n].total = t.chapters.count]
      /\ job' = [job EXCEPT ![n] = [@ EXCEPT !.stage = "enriched", !.lease = "live"]]
  BY DEF RecordEnrichment, Lost, RowsStay
<1>2. /\ Elsewhere(n) /\ job'[n].status = "in_progress" /\ job'[n].stage = "enriched"
      /\ job'[n].attempt = job[n].attempt
  BY <1>0, <1>1 DEF RowsTyped, JobRow, Elsewhere
<1>3. novel'[n].status = novel[n].status
  BY <1>0, <1>1 DEF RowsTyped, NovelRow
<1>4. /\ Accepted' = Accepted /\ Attempts' = Attempts /\ Opened' = Opened /\ GivenUp' = GivenUp
      /\ \A m \in Novel : m # n => Book(m)' = Book(m)
  BY <1>0, <1>2, <1>3, OneIsSeen DEF Accepted, Opened, GivenUp, Exhausted
<1>5. Models' = Models
  BY <1>1, <1>2, ModelsStay
<1>6. n \notin Analysed /\ Analysed' = Analysed \cup {n}
  BY <1>0, <1>2 DEF Analysed, Elsewhere
<1>7. Books' = [m \in Analysed' |-> IF m = n THEN Book(n)' ELSE Books[m]]
  BY <1>4, <1>6 DEF Books, Analysed
<1>8. DOMAIN Books = Analysed /\ DOMAIN Books' = Analysed' /\ Books'[n] = Book(n)'
  BY <1>6, <1>7 DEF Books
<1>9. Promise!Whole(Book(n)')
  <2>1. TextSound(n)'
    BY DEF ImportInv
  <2> QED BY <1>2, <2>1 DEF TextSound, Promise!Whole, Book
<1>10. Promise!Analyse(n)
  <2>1. /\ n \notin DOMAIN Books /\ DOMAIN Books' = DOMAIN Books \cup {n}
        /\ Books' = [m \in DOMAIN Books' |-> IF m = n THEN Books'[n] ELSE Books[m]]
        /\ Promise!Whole(Books'[n])
    BY <1>6, <1>7, <1>8, <1>9
  <2> QED BY <1>4, <1>5, <2>1 DEF Promise!Analyse, Books, Attempts, Models, Opened, GivenUp
<1> QED BY <1>0, <1>10, InProgressSeen

(* A checkpoint is not seen, the model is. *)
LEMMA ExtractUnseen ==
  ASSUME ImportInv, NEW p \in Proc, NEW k \in Permit, NEW n \in Novel, task[p][k].novel = n,
         Held(task[p][k]), Extract(p, k)
  PROVE  Seen' = Seen
<1>0. RowsTyped /\ text[n] \in TextRow
  BY TypeParts, RowOf DEF ImportInv, TypeInv
<1>1. CASE RowsStay
  BY <1>1, RowsStayUnseen
<1>2. CASE ~RowsStay
  <2>1. UNCHANGED <<job, novel>> /\ \E x : text' = [text EXCEPT ![n].checkpoint = x]
    BY <1>2 DEF Extract, Lost, RowsStay
  <2>2. Elsewhere(n) /\ \E x : text'[n] = [text[n] EXCEPT !.checkpoint = x]
    BY <1>0, <2>1 DEF RowsTyped, Elsewhere
  <2>3. /\ text'[n].canon = text[n].canon /\ text'[n].chapters = text[n].chapters
        /\ text'[n].characters = text[n].characters /\ text'[n].nodes = text[n].nodes
    BY <1>0, <2>2 DEF TextRow
  <2> QED BY <2>1, <2>2, <2>3, Unseen DEF Accepted, Analysed, Opened, GivenUp, Exhausted, Book
<1> QED BY <1>1, <1>2

LEMMA ModelStep ==
  ASSUME ImportInv, NEW p \in Proc, NEW k \in Permit, NEW n \in Novel,
         task[p][k].novel = n, Held(task[p][k]), InsertCanon(p, k), ~RowsStay
  PROVE  n \in Accepted \ (Opened \cup GivenUp) /\ Promise!Model(n)
<1> DEFINE t == task[p][k]
           model == [of |-> t.chapters, cast |-> t.cast]
<1>0. /\ job[n].status = "in_progress" /\ RowsTyped /\ text[n] \in TextRow /\ t.pc = "model"
      /\ t.chapters = text[n].chapters /\ t.cast = text[n].characters
  <2>1. job[n].status = "in_progress" /\ t.pc = "model" /\ t.pc \in Working
    BY DEF Held, Fenced, InsertCanon, Working
  <2>2. RowsTyped /\ Follows(t)
    BY <2>1, AtWork
  <2>3. t.chapters = text[n].chapters /\ t.cast = text[n].characters
    BY <2>1, <2>2 DEF Follows, FollowsRow
  <2> QED BY <2>1, <2>2, <2>3, RowOf
<1>1. /\ UNCHANGED <<job, novel>> /\ job[n].stage = "enriched" /\ text[n].canon = NoCanon
      /\ text' = [text EXCEPT ![n] = [@ EXCEPT !.canon = model, !.checkpoint = NoChapters]]
  BY DEF InsertCanon, Lost, RowsStay
<1>2. Elsewhere(n) /\ text'[n] = [text[n] EXCEPT !.canon = model, !.checkpoint = NoChapters]
  BY <1>0, <1>1 DEF RowsTyped, Elsewhere
<1>3. /\ text'[n].canon = model /\ text'[n].chapters = text[n].chapters
      /\ text'[n].characters = text[n].characters /\ text'[n].nodes = text[n].nodes
  BY <1>0, <1>2 DEF TextRow
<1>4. /\ Accepted' = Accepted /\ Attempts' = Attempts /\ Opened' = Opened /\ GivenUp' = GivenUp
  BY <1>1, <1>2, OneIsSeen DEF Accepted, Opened, GivenUp, Exhausted
<1>5. Books' = Books
  BY <1>1, <1>2, <1>3, BooksStay DEF Analysed, Book
<1>6. model # NoCanon
  <2>1. text[n].chapters.count > 0
    BY <1>1, RowOf DEF TextSound
  <2> QED BY <1>0, <2>1, SomeChapters, RowFields
<1>7. n \in Analysed /\ n \notin Modelled /\ Modelled' = Modelled \cup {n}
  BY <1>1, <1>2, <1>3, <1>6 DEF Analysed, Modelled, Elsewhere
<1>8. Models' = [m \in Modelled' |-> IF m = n THEN model ELSE Models[m]]
  BY <1>2, <1>3, <1>7 DEF Models, Modelled, Elsewhere
<1>9. DOMAIN Books = Analysed /\ DOMAIN Models = Modelled /\ Books[n] = Book(n)
  BY <1>7 DEF Books, Models
<1>10. Promise!ModelOf(Books[n]) = model
  BY <1>0, <1>9 DEF Promise!ModelOf, Book
<1>11. Promise!Model(n)
  <2> HIDE DEF model
  <2>1. /\ n \in DOMAIN Books \ DOMAIN Models
        /\ Models' = [m \in DOMAIN Models \cup {n} |->
                        IF m = n THEN Promise!ModelOf(Books[n]) ELSE Models[m]]
    BY <1>7, <1>8, <1>9, <1>10
  <2> QED BY <1>4, <1>5, <2>1 DEF Promise!Model, Books, Attempts, Models, Opened, GivenUp
<1> QED BY <1>0, <1>11, InProgressSeen

(* The end of an import. *)
LEMMA FinishStep ==
  ASSUME ImportInv, ImportInv', NEW p \in Proc, NEW k \in Permit, NEW n \in Novel,
         task[p][k].novel = n, Held(task[p][k]), Complete(p, k), ~RowsStay
  PROVE  n \in Accepted \ (Opened \cup GivenUp) /\ Promise!Finish(n)
<1>0. job[n].status = "in_progress" /\ RowsTyped /\ job[n] \in JobRow /\ novel[n] \in NovelRow
  BY TypeParts, RowOf DEF ImportInv, TypeInv, Held, Fenced
<1>1. /\ UNCHANGED text /\ novel' = [novel EXCEPT ![n].status = "ready"]
      /\ job' = [job EXCEPT ![n] = [@ EXCEPT !.stage = "completed", !.status = "completed",
                                             !.lease = "none", !.failure = "none"]]
      /\ job[n].stage = "enriched" /\ text[n].canon # NoCanon
  BY DEF Complete, Lost, RowsStay
<1>2. /\ Elsewhere(n) /\ job'[n].status = "completed" /\ job'[n].stage = "completed"
      /\ job'[n].attempt = job[n].attempt
  BY <1>0, <1>1 DEF RowsTyped, JobRow, Elsewhere
<1>3. novel'[n].status = "ready" /\ novel'[n].total = novel[n].total
  BY <1>0, <1>1 DEF RowsTyped, NovelRow
<1>4. Accepted' = Accepted /\ Attempts' = Attempts /\ GivenUp' = GivenUp
  BY <1>0, <1>2, OneIsSeen DEF Accepted, GivenUp, Exhausted
<1>5. Books' = Books /\ Models' = Models
  BY <1>1, <1>2, <1>3, BooksStay, ModelsStay DEF Analysed, Book
<1>6. Opened' = Opened \cup {n}
  BY <1>2, <1>3 DEF Opened, Elsewhere
<1>7. n \in DOMAIN Models
  BY <1>1 DEF Models, Modelled
<1>8. Promise!Finish(n)
  BY <1>4, <1>5, <1>6, <1>7 DEF Promise!Finish, Books, Attempts, Models, Opened, GivenUp
<1> QED BY <1>0, <1>8, InProgressSeen

LEMMA GiveUpStep ==
  ASSUME ImportInv, NEW p \in Proc, NEW k \in Permit, NEW n \in Novel, task[p][k].novel = n,
         MarkExhausted(p, k), ~RowsStay
  PROVE  n \in Accepted \ (Opened \cup GivenUp) /\ Promise!GiveUp(n)
<1>0. /\ RowsTyped /\ job[n] \in JobRow /\ novel[n] \in NovelRow /\ JobSound(n)
      /\ job[n].attempt \in 0 .. MAX_IMPORT_ATTEMPTS
  BY TypeParts, RowOf, RowFields DEF ImportInv, TypeInv
<1>1. /\ job[n].attempt >= MAX_IMPORT_ATTEMPTS /\ job[n].status # "completed" /\ ~Exhausted(n)
      /\ UNCHANGED text /\ novel' = [novel EXCEPT ![n].status = IF @ = "ready" THEN @ ELSE "error"]
      /\ job' = [job EXCEPT ![n] = [@ EXCEPT !.status = "failed", !.lease = "none",
                                             !.failure = "budget_exhausted"]]
  BY DEF MarkExhausted, RowsStay
<1>2. job[n].attempt = MAX_IMPORT_ATTEMPTS /\ job[n].status # "absent"
  BY <1>0, <1>1, ImportConstants, ConstantRows DEF JobSound
<1>3. /\ Elsewhere(n) /\ job'[n].status = "failed" /\ job'[n].failure = "budget_exhausted"
      /\ job'[n].stage = job[n].stage /\ job'[n].attempt = job[n].attempt
  BY <1>0, <1>1 DEF RowsTyped, JobRow, Elsewhere
<1>4. novel[n].status # "ready" /\ novel'[n].status # "ready" /\ novel'[n].total = novel[n].total
  BY <1>0, <1>1 DEF RowsTyped, NovelRow, JobSound
<1>5. Accepted' = Accepted /\ Attempts' = Attempts /\ Opened' = Opened
  BY <1>2, <1>3, <1>4, OneIsSeen DEF Accepted, Opened
<1>6. Books' = Books /\ Models' = Models
  BY <1>1, <1>3, <1>4, BooksStay, ModelsStay DEF Analysed, Book
<1>7. GivenUp' = GivenUp \cup {n}
  BY <1>3 DEF GivenUp, Exhausted, Elsewhere
<1>8. Attempts[n] = MAX_IMPORT_ATTEMPTS
  BY <1>2 DEF Attempts
<1>9. Promise!GiveUp(n)
  BY <1>5, <1>6, <1>7, <1>8 DEF Promise!GiveUp, Books, Attempts, Models, Opened, GivenUp
<1>10. n \in Accepted \ (Opened \cup GivenUp)
  BY <1>1, <1>2, <1>4 DEF Accepted, Opened, GivenUp
<1> QED BY <1>9, <1>10

(* A claim is another try. *)
LEMMA TryStep ==
  ASSUME ImportInv, NEW p \in Proc, NEW k \in Permit, NEW n \in Novel, task[p][k].novel = n,
         Claim(p, k), ~RowsStay
  PROVE  n \in Accepted \ (Opened \cup GivenUp) /\ Promise!Try(n)
<1>0. /\ RowsTyped /\ job[n] \in JobRow /\ novel[n] \in NovelRow /\ JobSound(n)
      /\ job[n].attempt \in 0 .. MAX_IMPORT_ATTEMPTS
  BY TypeParts, RowOf, RowFields DEF ImportInv, TypeInv
<1>1. /\ Claimable(n) /\ UNCHANGED text /\ novel' = [novel EXCEPT ![n].status = "parsing"]
      /\ job' = [job EXCEPT ![n] = [@ EXCEPT !.status = "in_progress", !.attempt = NextAttempt(n),
                                             !.lease = "live", !.failure = "none"]]
  BY DEF Claim, RowsStay
<1>2. /\ job[n].attempt < MAX_IMPORT_ATTEMPTS /\ job[n].status \notin {"absent", "completed"}
      /\ ~Exhausted(n) /\ novel[n].status # "ready"
  BY <1>0, <1>1, ImportConstants DEF Claimable, JobSound
<1>3. /\ Elsewhere(n) /\ job'[n].status = "in_progress" /\ job'[n].stage = job[n].stage
      /\ job'[n].attempt = job[n].attempt + 1
  BY <1>0, <1>1 DEF RowsTyped, JobRow, Elsewhere, NextAttempt
<1>4. novel'[n].status = "parsing" /\ novel'[n].total = novel[n].total
  BY <1>0, <1>1 DEF RowsTyped, NovelRow
<1>5. Accepted' = Accepted /\ Opened' = Opened /\ GivenUp' = GivenUp
  BY <1>2, <1>3, <1>4, OneIsSeen DEF Accepted, Opened, GivenUp, Exhausted
<1>6. Books' = Books /\ Models' = Models
  BY <1>1, <1>3, <1>4, BooksStay, ModelsStay DEF Analysed, Book
<1>7. Attempts[n] < MAX_IMPORT_ATTEMPTS /\ Attempts' = [Attempts EXCEPT ![n] = @ + 1]
  BY <1>2, <1>3 DEF Attempts, Elsewhere
<1>8. Promise!Try(n)
  BY <1>5, <1>6, <1>7 DEF Promise!Try, Books, Attempts, Models, Opened, GivenUp
<1>9. n \in Accepted \ (Opened \cup GivenUp)
  BY <1>2 DEF Accepted, Opened, GivenUp
<1> QED BY <1>8, <1>9

(* A failure, and the lease, are not seen. *)
LEMMA FailUnseen ==
  ASSUME ImportInv, NEW p \in Proc, NEW k \in Permit, NEW n \in Novel, task[p][k].novel = n,
         FailImport(p, k)
  PROVE  Seen' = Seen
<1>0. RowsTyped /\ job[n] \in JobRow /\ novel[n] \in NovelRow /\ JobSound(n)
  BY TypeParts, RowOf DEF ImportInv, TypeInv
<1>1. CASE RowsStay
  BY <1>1, RowsStayUnseen
<1>2. CASE ~RowsStay
  <2>1. /\ job[n].status = "in_progress" /\ UNCHANGED text /\ novel' = [novel EXCEPT ![n].status = "error"]
        /\ job' = [job EXCEPT ![n] = [@ EXCEPT !.status = "failed", !.lease = "none", !.failure = "failed"]]
    BY <1>2 DEF FailImport, RowsStay, Held, Fenced
  <2>2. /\ Elsewhere(n) /\ job'[n].stage = job[n].stage /\ job'[n].status = "failed"
        /\ job'[n].failure = "failed" /\ job'[n].attempt = job[n].attempt
    BY <1>0, <2>1 DEF RowsTyped, JobRow, Elsewhere
  <2>3. novel'[n].status = "error" /\ novel'[n].total = novel[n].total /\ novel[n].status # "ready"
    BY <1>0, <2>1 DEF RowsTyped, NovelRow, JobSound
  <2> QED BY <2>1, <2>2, <2>3, Unseen DEF Accepted, Analysed, Opened, GivenUp, Exhausted, Book
<1> QED BY <1>1, <1>2

LEMMA LeaseUnseen ==
  ASSUME ImportInv, NEW n \in Novel, UNCHANGED <<novel, text>>,
         NEW lease, job' = [job EXCEPT ![n].lease = lease]
  PROVE  Seen' = Seen
<1>0. RowsTyped /\ job[n] \in JobRow
  BY TypeParts, RowOf DEF ImportInv, TypeInv
<1>1. /\ Elsewhere(n) /\ job'[n].stage = job[n].stage /\ job'[n].status = job[n].status
      /\ job'[n].failure = job[n].failure /\ job'[n].attempt = job[n].attempt
  BY <1>0 DEF RowsTyped, JobRow, Elsewhere
<1> QED BY <1>1, Unseen DEF Accepted, Analysed, Opened, GivenUp, Exhausted, Book

(* An upload shows its whole batch, and nothing of it but that. *)
LEMMA CountsAgree == \A S : Promise!Cardinality(S) = Cardinality(S)
BY DEF Promise!Cardinality, Cardinality

LEMMA AcceptShown ==
  ASSUME ImportInv, NEW p \in Proc, NEW batch \in SUBSET Novel, NEW first \in batch,
         NEW parsed \in SUBSET batch, Accept(p, batch, parsed, first)
  PROVE  Promise!Accept(batch)
<1>0. RowsTyped
  BY TypeParts DEF ImportInv, TypeInv
<1>1. \A n \in batch : job[n] = NoJob /\ text[n] = NoText
  BY RowOf DEF Accept, Accepted, JobSound
<1>2. ASSUME NEW n \in batch
      PROVE  /\ job'[n].status = "pending" /\ job'[n].attempt = job[n].attempt
             /\ job[n].stage \notin {"enriched", "completed"}
             /\ job'[n].stage \notin {"enriched", "completed"}
  <2>1. job'[n] = [NoJob EXCEPT !.status = "pending",
                                !.stage = IF n \in parsed THEN "chapters" ELSE "source"]
    BY DEF Accept
  <2>2. job'[n].status = "pending" /\ job'[n].attempt = NoJob.attempt
        /\ job'[n].stage \in {"chapters", "source"}
    BY <2>1, ConstantRows DEF JobRow
  <2> QED BY <1>1, <2>2, ConstantRows
<1>3. \A n \in Novel : n \notin batch => job'[n] = job[n]
  BY DEF Accept
<1>4. \A n \in Novel : text'[n].canon = text[n].canon
  <2>1. ASSUME NEW n \in parsed PROVE text'[n].canon = text[n].canon
    <3>1. n \in Novel /\ text[n] \in TextRow /\ text'[n] = [text[n] EXCEPT !.chapters.count = 1]
      BY <1>0, <2>1 DEF Accept, RowsTyped
    <3> QED BY <3>1 DEF TextRow
  <2>2. \A n \in Novel : n \notin parsed => text'[n] = text[n]
    BY DEF Accept
  <2> QED BY <2>1, <2>2
<1>5. \A n \in Analysed : n \notin batch /\ text'[n] = text[n]
  <2>1. \A n \in Analysed : n \in Novel /\ n \notin batch
    BY <1>2 DEF Analysed
  <2> QED BY <2>1 DEF Accept
<1>6. Attempts' = Attempts
  BY <1>2, <1>3 DEF Attempts
<1>7. Books' = Books
  <2>1. Analysed' = Analysed
    BY <1>2, <1>3 DEF Analysed
  <2>2. \A n \in Analysed : Book(n)' = Book(n)
    BY <1>5 DEF Accept, Book
  <2> QED BY <2>1, <2>2 DEF Books
<1>8. Models' = Models
  BY <1>4 DEF Models, Modelled
<1>9. Opened' = Opened
  BY DEF Accept, Opened
<1>10. GivenUp' = GivenUp
  BY <1>1, <1>2, <1>3, ConstantRows DEF GivenUp, Exhausted
<1>11. Accepted' = Accepted \cup batch
  BY <1>2, <1>3 DEF Accepted
<1>12. /\ batch # {} /\ Cardinality(batch) <= MAX_BATCH_IMPORTS
       /\ \A m, n \in batch : Owner[m] = Owner[n]
       /\ batch \cap Accepted = {}
  BY DEF Accept
<1> QED BY <1>6, <1>7, <1>8, <1>9, <1>10, <1>11, <1>12, CountsAgree
        DEF Promise!Accept, Books, Attempts, Models, Opened, GivenUp

LEMMA CatalogueInit == Init => Promise!Init
<1> SUFFICES ASSUME Init PROVE Promise!Init
  OBVIOUS
<1>1. \A n \in Novel : job[n] = NoJob /\ text[n] = NoText /\ novel[n].status = "pending"
  BY DEF Init
<1>2. Accepted = {} /\ Opened = {} /\ GivenUp = {} /\ Analysed = {} /\ Modelled = {}
  BY <1>1, ConstantRows DEF Accepted, Opened, GivenUp, Exhausted, Analysed, Modelled
<1>3. Attempts = [n \in Novel |-> 0]
  BY <1>1, ConstantRows DEF Attempts
<1> QED BY <1>2, <1>3 DEF Promise!Init, Attempts, Opened, GivenUp

LEMMA TaskShown ==
  ASSUME ImportInv, ImportInv', NEW p \in Proc, NEW k \in Permit,
         Step(p, k) \/ ClaimErrs(p, k) \/ Renew(p, k)
  PROVE  Promise!Next \/ Seen' = Seen
<1>1. task[p][k].pc # "idle"
  BY DEF Step, Claim, MarkExhausted, Load, Replay, Repair, Repaired, ReplaceCharacters, ReplaceNodes,
         RecordEnrichment, FindCanon, Extract, InsertCanon, Complete, StepFails, FailImport,
         ClaimErrs, Renew, Working
<1>2. PICK n \in Novel : task[p][k].novel = n
  BY <1>1, OfNovel
<1>3. ASSUME n \in Accepted \ (Opened \cup GivenUp),
             \/ Promise!Try(n) \/ Promise!Analyse(n) \/ Promise!Model(n)
             \/ Promise!Finish(n) \/ Promise!GiveUp(n)
      PROVE  Promise!Next
  <2>1. n \in Promise!Open
    BY <1>3 DEF Promise!Open, Opened, GivenUp
  <2> QED BY <1>3, <2>1 DEF Promise!Next
<1>4. CASE RowsStay
  BY <1>4, RowsStayUnseen
<1>5. CASE ~RowsStay
  <2>1. CASE Claim(p, k) \/ MarkExhausted(p, k)
    BY <1>2, <1>3, <1>5, <2>1, TryStep, GiveUpStep
  <2>2. CASE Load(p, k) \/ Repaired(p, k) \/ FindCanon(p, k) \/ StepFails(p, k) \/ ClaimErrs(p, k)
    BY <1>5, <2>2 DEF Load, Repaired, FindCanon, StepFails, ClaimErrs, RowsStay
  <2>3. CASE \/ Replay(p, k) \/ Repair(p, k) \/ ReplaceCharacters(p, k) \/ ReplaceNodes(p, k)
             \/ RecordEnrichment(p, k) \/ Extract(p, k) \/ InsertCanon(p, k) \/ Complete(p, k)
    <3>1. Held(task[p][k])
      BY <1>5, <2>3 DEF Replay, Repair, ReplaceChapters, ReplaceCharacters, ReplaceNodes,
             RecordEnrichment, Extract, InsertCanon, Complete, Lost, RowsStay
    <3>2. CASE Replay(p, k) \/ Repair(p, k) \/ ReplaceCharacters(p, k) \/ ReplaceNodes(p, k)
      BY <1>2, <3>1, <3>2, AnalysisUnseen
    <3>3. CASE Extract(p, k)
      BY <1>2, <3>1, <3>3, ExtractUnseen
    <3>4. CASE RecordEnrichment(p, k) \/ InsertCanon(p, k) \/ Complete(p, k)
      BY <1>2, <1>3, <1>5, <3>1, <3>4, AnalyseStep, ModelStep, FinishStep
    <3> QED BY <2>3, <3>2, <3>3, <3>4
  <2>4. CASE FailImport(p, k)
    BY <1>2, <2>4, FailUnseen
  <2>5. CASE Renew(p, k)
    <3>1. UNCHANGED <<novel, text>> /\ job' = [job EXCEPT ![n].lease = "live"]
      BY <1>2, <1>5, <2>5 DEF Renew, RowsStay
    <3> QED BY <3>1, LeaseUnseen
  <2> QED BY <2>1, <2>2, <2>3, <2>4, <2>5 DEF Step
<1> QED BY <1>4, <1>5

LEMMA CatalogueStep == ImportInv /\ ImportInv' /\ [Next]_vars => [Promise!Next]_Seen
<1> SUFFICES ASSUME ImportInv, ImportInv', [Next]_vars PROVE Promise!Next \/ Seen' = Seen
  OBVIOUS
<1>1. ASSUME NEW p \in Proc, NEW batch \in SUBSET Novel, NEW first \in batch,
             NEW parsed \in SUBSET batch, Accept(p, batch, parsed, first)
      PROVE  Promise!Next
  BY <1>1, AcceptShown DEF Promise!Next
<1>2. ASSUME NEW n \in Novel, Expire(n) PROVE Seen' = Seen
  BY <1>2, LeaseUnseen DEF Expire
<1>3. CASE \/ \E p \in Proc : Scan(p) \/ Crash(p)
           \/ \E p \in Proc, n \in Novel : AskRetry(p, n)
           \/ \E o \in offer : Admit(o) \/ Decline(o)
           \/ UNCHANGED vars
  <2>1. RowsStay
    BY <1>3 DEF Scan, Crash, AskRetry, Admit, Decline, vars, RowsStay
  <2> QED BY <2>1, RowsStayUnseen
<1> QED BY <1>1, <1>2, <1>3, TaskShown DEF Next

(* handle_import_batch, claim_import and the tasks, of any number of       *)
(* processes: together they keep the catalogue.                            *)
THEOREM ImplementsCatalogueHolds == Spec => ImplementsCatalogue
<1>1. ImportInv /\ ImportInv' /\ [Next]_vars => [Promise!Next]_Seen
  BY CatalogueStep
<1>2. Spec => Promise!Init /\ [][Promise!Next]_Seen
  BY <1>1, CatalogueInit, ImportHolds, PTL DEF Spec
<1> QED BY <1>2, PTL
        DEF ImplementsCatalogue, Promise!Spec, Promise!vars, Seen, Attempts, Books, Models, Opened, GivenUp

================================================================================
