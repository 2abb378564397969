# NovelWorld in TLA+

NovelWorld is a self-hosted reading application: a gateway in front of four Rust
services that share one PostgreSQL database, a shared LLM client, and a web and
desktop frontend. This directory holds TLA+ modules of its protocols, the TLC
configurations that check them on small instances, and TLAPS proofs of the
theorems that matter most.

Paths below are relative to `src/`. `world_turn_repo` stands for
`services/narrative-service/src/infrastructure/persistence/pg_world_turn_repo.rs`.

## 1. The system

| component | state it keeps | operations | talks to |
|---|---|---|---|
| world turns (narrative-service) | `world_turns` journal, `world_states.open_world`, a lease per claim | submit, renew, settle adjudication, complete, fail, project, recovery scan | novel-service (progress, identity), LLM, agent-service |
| world source (narrative-service) | `source_context` of the session, `world_source_operations` | extend the admitted chapter | novel-service, excluded by open turns |
| branch choices (narrative-service) | `user_choices`, `player_chapters`, `world_states.choices` | generate a node, commit a choice | LLM, world state |
| chat turns (agent-service) | `chat_turns`, `chat_messages`, an admission set per process | begin, renew, stream, complete, fail, replay | novel- and narrative-service, LLM |
| summaries (agent-service) | summary columns of `chat_turns`, `memory_facts` | scan, claim, defer, dispatch, finish, fail | LLM |
| imports (novel-service) | `novels.status`, `novel_import_jobs`, chapters, characters, canon model, checkpoints, an admission set per process | upload, claim, renew, replay, repair, enrich, extract, complete, fail, retry, recovery scan | object storage, LLM |
| retained sources (novel-service) | objects in S3, `source_file_deletions` | reserve, put, accept or queue, claim due rows, delete, complete, retry | object storage, imports |
| world series, translations, canon models (novel-service) | their own tables, some with claims | generate, confirm, replace | LLM, laya |
| accounts (user-service) | users, refresh tokens, runtime configuration | set up, register, login, refresh, log out, delete the account | all; agent-service for the erasure |
| privacy erasure (user-, novel- and agent-service) | cached turns and tombstones in Redis | raise, scan, drop, lower | erasing requests, chat turns |
| diagnostic budget (user-service, llm-client) | one row per campaign, attempts | provision, reserve, settle, seal | every LLM caller |
| gateway | in-memory admission counters, metrics | authenticate, proxy | services |
| frontend | a token pair in `localStorage` that all tabs share, what each tab shows, retry keys | send, rotate, invalidate, sign in, log out | gateway |
| release, backup, restore (`infra/`) | files and containers | shell procedures | - |

What is hard in it is the same everywhere: a request claims a row under a lease,
lets go of the database for minutes while a model answers, and then commits.
Meanwhile the process may die, the client may retry under the same idempotency
key, another request may reclaim the row, reading progress may be rewound, and
the acknowledgement of a committed transaction may be lost.  `PROJECT.json` lists
these hazards at the lines where they bite.

What makes each component correct:

* world turns: one outstanding turn per scope; committed turns numbered without
  gaps, one key each; a claim is never committed against another turn number or
  chapter than it was made for; one roll per key; a success reply is durable;
  projections settle.
* chat turns: the stored answer is the one the claim's holder generated from the
  history it saw; turn sequence without gaps; replays answer the same request.
* summaries: one logical model call per window, which the model client may send up to
  1 + MAX_RETRIES times; only its own answer is published;
  no window is stuck.
* diagnostic budget: limits never exceeded; totals equal the receipts; no provider
  work outside a receipt; no answer without a settlement.
* imports: a ready novel is the result of one import, whatever attempts came
  before; job and novel agree; settled imports stay settled; accepted ones settle.
* retained sources: a novel's object exists as long as the novel; no object is left
  without a novel or a row that will have it deleted; unowned objects go.
* branch choices: every choice is made on the choices before it and on the text it
  replaces; the three tables that record it agree; the generated text has no gap.
* accounts: an installation with accounts has one administrator; a refresh token is
  exchanged at most once, whoever races for it.
* sessions: a session that was ended does not come back, a live one stays usable, and
  a late failure ends no newer session.
* world series and translations: a result is stored only for the inputs it was
  computed from.
* privacy erasure: nothing a turn in flight writes survives an erasure.
* gateway: admission counters return to zero.

## 2. Plan

Done:

1. `WorldTurn`, `WorldTimeline`, `WorldTurnProofs` - the authoritative story of a player,
   its abstract promise, and eight theorems, the refinement among them.
2. `ChatTurn`, `Conversation`, `ChatTurnProofs`, `ChatSummary`, `ChatSummaryProofs` -
   conversations, their abstract promise and their summaries; ten theorems, the refinement
   among them.
3. `DiagnosticBudget`, `DiagnosticBudgetProofs` - the ledger, its callers, seven
   theorems.
4. `NovelImport`, `Catalogue`, `NovelImportProofs` - the import pipeline from upload to
   completion and its abstract promise; six theorems, the refinement among them.
5. `SourceRetention`, `SourceRetentionProofs` - uploads to the object store and their
   cleanup, three theorems.
6. `BranchChoice`, `BranchChoiceProofs` - the other writer of `world_states`, up to
   the entry into the open world; four theorems.
7. `Sessions` - token rotation, from the tabs of a browser to the `refresh_tokens` table.
8. `Accounts`, `UserServiceProofs` - setup, registration and deletion of accounts, and the
   erasure of what chat turns leave in the cache; with `Sessions`, nine theorems.

Left, in this order:

9. The world-source journal, with its own operation keys (in `WorldTurn`,
   `ExtendSource` is one atomic step).
10. `WorldSeries`, `ChapterTranslation`, game-rule generation - claims over model calls
   in the novel service.
11. The retry keys of the frontend as clients of `WorldTurn` and `ChatTurn`; the
   gateway's admission counters.
12. Proofs: that `BranchChoice` and `WorldTurn` hand the player over to one another in one
    direction only; the theorems of the modules 9 to 11.

## 3. Modules and the code

`PROJECT.json` maps every definition to its lines. Throughout, a database
transaction (or a single statement outside one) is one action; a request handler
is a *worker* whose `pc` names the await at which it stands and whose `req` or
`call` holds its locals, which may be stale; a lease is `live` or `expired`, and
time is only the action that expires it. Texts, prompts and model answers are
abstracted to who produced them, under which claim, and from which state.
An operator that the specification does not use and that stands before another with the
same parameters (`LockFree` before `Excluded`) is a plausible mistake in that definition:
with it in place, the property named with it in `PROJECT.json` fails.

**WorldTurn** - one (user, novel) scope of
`narrative-service`. `rows` is the table `world_turns`, `world` the turn number
and source chapter in `world_states`, `reader` the progress and identity kept by
the novel service, `memories` what the agent service has stored. `Submit`,
`CheckIdentity`, `ReadSnapshot`, `CheckProgress`, `Begin*`, `Prepare`, `Adjudicate`,
`Settle`, `Narrate`, `Complete`, `FailTurn` follow `submit_world_turn_with_source`
from await to await; `CheckEligible`, `Project`, `FinishProjection`, `Reply` are the
projection, entered by the player's own request or by `Recover`, the recovery scan.
`Heartbeat` and `HeartbeatError` are the lease task, `LeaseLost` its signal. `Crash`
ends a worker at any await. `ExtendSource`, `ReaderMoves` and `IdentityChanges` are
what others do meanwhile. Transactions are atomic because every writer first locks
the scope's `world_states` row.

**WorldTimeline** - the promise: a sequence of keys that only grows, of which the
next is appended only when every earlier one is projected, and a source chapter
that advances only then. The refinement mapping reads the timeline off the
completed rows in turn order.

**ChatTurn** - one (user, character, novel) scope of `agent-service`. Unlike the
world turn, `begin_turn` is a sequence of separate statements, so `Insert`,
`SupersedeForInsert`, `ReadRow`, `Reclaim` and `SupersedeForReclaim` are separate
actions with the code's bounded retry loops. The answer stored in a row records the
worker, attempt and world revision it was generated under and the committed turns
its prompt saw. The reply to a commit may be lost (`Commit` may end without telling
the client). The Redis copy of recent messages is written and never read on these
paths, and is left out.

**Conversation** - the promise: a turn is answered once, in view of exactly the turns
answered before it and numbered after them; the client is told nothing but these answers,
by the reply or a repetition; a key that is given up is never answered. The refinement
mapping reads what was said off the completed rows and takes the superseded ones for given
up. Claims, leases, attempts and other failures have no counterpart.

**ChatSummary** - the summary columns of the same table and the worker loop of
`summary_recovery.rs`: scan, take, postpone, claim, read sources, check eligibility,
dispatch, call, finish. Windows open when `ChatTurn` numbers a turn that closes one
(`CommitTurn`). The call is the request loop of `llm-client` (`chat`), for which the
adapter sets no allowance: a rate limit, a server error or a transport error sends the
request again, up to `MaxRetries` times within the same claim (`Resend`), also when the
first was served and only its answer is lost. So a window is paid for once as a logical
call and possibly several times as requests, which is what ADR 0005 promises ("never
authorizes another logical summary call", "transport retries remain"); the two are
counted apart (`calls`, `sent`). Whether the reader may see the window is asked of other
services at each check and may be answered either way. Source validation refuses nondeterministically: the rows these
modules commit always pass it. Promotion of a published summary into other memories
is not modelled.

**DiagnosticBudget** - the owner in `user-service` (`Reserve`, `Settle`, `Close`;
each one transaction on the locked budget row), the clients in `llm-client`
(`Start` ... `GetSettled`, the loop of `chat_with_deadline`, which streams and
embeddings shorten), and the network between them. A control message lives in
`wire[a]`, one per attempt because attempts carry fresh identities and control
calls are never repeated; a message may stay there after its sender has gone, and
be processed late. `Dispatch` lets the provider do any admissible amount of work
whatever the client then sees of it; `spent` and `returned` are history variables.
`Close` stands for sealing and for expiry. Provisioning is `Init`.

**NovelImport** - `job` is `novel_import_jobs`, `novel` the status and chapter count in
`novels`, `text` what an import writes (chapters, characters, nodes, canon model,
checkpoints), each piece recorded as the attempt and the chapter set it came from.
`offer` holds what a handler is about to ask admission for: the first novel of an upload
(`Accept`), the candidates of a scan (`Scan`), a retry (`AskRetry`). `Admit` and `Decline`
are `try_import_admission`, `Claim` and `MarkExhausted` the two statements of
`claim_import`, `Load` ... `Complete` the pipeline of `process_import`, one action per
transaction, `FailImport` its error arm, `Renew` the heartbeat. `task` keeps what the
pipeline read and may be stale. Avatars, drawn after completion, are left out; so is the
acceptance semaphore, which only refuses uploads.

**Catalogue** - the promise: a batch is accepted as a whole, each of its novels is tried a
limited number of times and ends once, ready or given up, and given up only after the last
try; its book (chapters, characters, nodes and count that fit together) is made once, and
once its canon model from that book. The refinement mapping shows the book from the stage
"enriched" on and counts claims as tries. Leases, tasks, repairs, checkpoints and failures
that may be retried have no counterpart.

**SourceRetention** - `object` is the bucket, `row` the table `source_file_deletions`,
`novel` the novels that own a key. `Reserve`, `Put`, `Create`, `Enqueue` are one upload
request (`retain_source_file`, `create_import_batch` and the error arm of
`handle_import_batch`); `Take`, `Delete`, `Complete`, `Retry` the cleanup worker;
`DeleteNovel` the trigger. A put may be applied after its caller is gone (`Land`), a
refused deletion may have happened, an accepting commit may go unacknowledged, and a
request may outlive its five-minute reservations; `late` remembers the keys to which
that happened. A key whose upload outlived its reservation and met another fault as
well is exempt from `NothingIsOrphaned` and `UnownedIsDeleted` (`DoublyFailed`): its row
may be gone before a late put lands; `docs/BACKUP_RESTORE.md` accepts an unowned object
in that window. The worker's limit of 32 rows a pass is not reached.

**BranchChoice** - one reader in one novel. `choices` is `user_choices`, `nodes` the
text that the options in `narrative_nodes` were made from, `prose` the table
`player_chapters`, `world` what `world_states` says of player, entry and projected
choices. A text is the name of the request that wrote it, or `Source`. Requests read a
chapter, ask for options, or submit a choice, and all of them first resolve the chapter's
text (`FindProse`, `FindChoices`, `GeneratePlayerChapter` are `resolve_chapter`); then
`FindNode` and `SaveNode` generate options, `Draft` and `CommitChoice` rewrite the chapter,
`FindUserChoice` and `ReplayChoice` answer a repeated choice. `Ends` is any failure,
refusal or timeout, and what the novel service says of progress and identity. A choice
of another option of a chosen node is a conflict and ends too, so the option chosen is
not told apart. Options are only asked for while a player exists; `nodes` starts with
options that may have been generated before.

**Sessions** - `rows` is `refresh_tokens`; a pair of tokens is the number of its row.
`FindToken` and `RotateToken` are the two database steps of `/auth/refresh`. A tab has two
kinds of protected request, `fetchMe` and any other; `Send`, `Served`, `Unauthorized`,
`RefreshAnswered`, `RefreshRefused`, `RefreshLost`, `RefusedAgain`, `RequestLost` are the
interceptors of `client.ts` from await to await, `SignIn`, `SignedIn`, `Logout` and the
actions on `me` those of `useAuthStore.ts`. `posts` are rotations at the server, which
outlive the tab that asked. `fresh` says whether `principalRevision` and the shown
account are still those of the beginning. `SignIn` asks only that no sign-in of the tab is
under way: the sign-in page opens, and stores its pair, whoever is signed in, and an answer
that a logout has outdated is ignored even if a second sign-in is under way by then. Access tokens expire in the order in which they
were issued. Registration in the browser is a sign-in; deletion of the account from the
settings page, which clears the session like a logout, is left out.

**Accounts** - `account` and `admin` are the `users` table, `joining` the registrations and
setups between their check and their commit, whose lock modes are `Sharing` and
`Excluded`. `cached` and `tomb` are the readers' text and the tombstones in Redis, `chat`
the committed turns that are still to be projected. A `request` is an account deletion,
the removal of a novel from the shelf, or an attachment; `Mark`, `Scan`, `Drop` are
`clear_user` and `clear_novel`, `EraseAccount` and `Detach` the database steps, `Allow` the
lowering of the tombstone. `late` are calls whose caller gave up after five seconds.

## 4. Runs

| run | question | bounds |
|---|---|---|
| `turn_claims` | two handlers over two keys through claim, expiry, reclaim, supersession, commit, projection, crash: fenced claims, final rows, durable replies; implements `WorldTimeline`, which contains the gapless order of the turns | 2 turns, 2 attempts, 1 chapter |
| `turn_retry` | the adjudicated check over three attempts of one key, while the source chapter is extended and the reader moves: one logical call, one decision, no claim over an extension | 1 key, 3 attempts, 2 chapters |
| `turn_live` | every committed turn's projection settles | 1 key, 2 handlers, 2 attempts |
| `chat` | two processes, all statements of `begin_turn` interleaved: linear history, fenced claims, an answer to what was asked; implements `Conversation` | 2 attempts, 2 rounds, one variation at a time (below) |
| `summary` | two workers with stale candidate lists over two windows: one logical call each, only its answer, none stuck | windows of 2 turns, 2 attempts, 1 retry |
| `budget_shared` | two processes, one budget that holds two worst-case chats; plain and JSON chats, embeddings | 3 attempts, 1 retry, allowance 2, usages 0..1 |
| `import_fence` | two processes on one novel, with stale tasks, cancellation, retry and crash: a ready novel is one import, settled jobs stay; implements `Catalogue` | 2 attempts, 1 repair round, 1 crash |
| `import_node` | one process through all attempts: is the last one left to finish, and does every accepted import settle? | 3 attempts, 2 permits, 1 crash |
| `source` | an upload of two files that is slow, crashes, fails or goes unacknowledged anywhere, against a cleanup worker that may stop | 2 faults, 1 worker |
| `sessions` | two tabs of one browser through expiry, joined and competing rotations, lost answers, reloads, sign-in and logout | 3 pairs, 2 sign-ins, 1 fault; one tab is restored and works on, the other is being restored |
| `accounts` | setups, registrations, overlapping erasures, removals and attachments, with chat turns that are projected late | 2 accounts, 2 requests, 1 fault |
| `choice` | three requests of any kind at once, while the player is sealed and the open world begins | 3 chapters, 3 requests |

Why the bounds suffice for the cases of interest: a stale holder needs two attempts
and two workers; supersession and the index on open turns need two keys; a re-used
check needs a third attempt after a reclaim; a claim that straddles an extension
needs two chapters; a budget race needs two clients of which only one may still be
granted, and a third attempt that fits only after a settlement. `MaxAttempt`,
`MaxTurn`, `MaxChapter`, `MaxRevision`, `MaxWindow` cap counters that are unbounded
in the code; `MaxTries`, `MaxRetries` and `WindowTurns` are the code's constants
(2, 3, 10) made small. Symmetry is used only in runs without liveness.
A stale import task needs two attempts and a second process or a cancelled
task; a half-accepted batch needs two files. Of three token pairs, one is rotated by both
tabs, the second is the answer, and the third a new sign-in, over the stored session or
after a logout, or a second rotation; the session theorems cover a third
sign-in and every other number. A gap in
the generated text needs a chapter between two others; a commit on a stale world needs the
request that is stale, the one that overtakes it, and a third to write text in between.
One fault in `accounts` reaches every error path of an erasure while the other request
overlaps it; that a reader's removal and deletion overlap needs two requests.

In `chat`, both keys, both messages, a moving reader and a moving world together are too
many for one run. The constraint `OneVariation` of `MCChatTurn` keeps the behaviours with
two keys over one message, chapter and world (of which one key is claimed once only), or
two messages of one key, or one key whose reader or world moves. Each property is about
one of these variations: linear history about two keys, a claim's answer about a moved
world, the request answered about messages and a reader who moves. It is the only state
constraint, and that run checks no liveness.

In the budget, import, source, session, account and choice runs, identities, pairs or
requests are eventually used up, so the system may stop and deadlock is not an error
there; every other run checks that it cannot stop.

**Fairness.** `turn_live`: a runtime keeps polling its futures (weak fairness of
worker steps), and the recovery scan comes round for ever, so that no step of a
projection fails at every retry (strong fairness of recovery, the two eligibility
checks, the agent's outcome and the final update). Nothing is assumed about crashes,
heartbeats or new requests, which may go on for ever. The property assumes that the
reader stays eligible from some time on: `project_world_turn` deliberately leaves a
projection pending while the reader has rewound. `summary`: passes go on (weak),
each process scans again and again (strong: a worker may die at any step and its
successor scans), and leases expire because time passes (weak). `import_node`: provider
calls have deadlines (weak fairness of the task), the scan comes round every 30 seconds,
a lease nobody renews runs out, and the database does not refuse every claim (strong).
It has one novel: with two novels of one reader, retries of the one may keep taking the
reader's only admission whenever the scan comes to the other. `source`: the worker's
loop goes on, and neither storage nor database refuses for ever (strong for the claim,
the deletion and the removal of the row), while it may refuse, or the worker stop, any
number of times.

### Observations

What the code does that a reader may not expect, met while modelling. No run is expected to
fail because of them; where a property holds only with an exemption for one, its
definition says so.

* **A lost acknowledgement can cost a source.** When the commit that accepts an upload is
  applied but reported as an error, `handle_import_batch`
  (`services/novel-service/src/application/handlers/mod.rs:2017`) queues the objects of
  novels that now exist, and the worker deletes them without asking for an owner, though
  `docs/DATA_RETENTION.md:11` keeps the source as long as the novel. `KeptHasItsSource`
  therefore speaks of novels whose upload was acknowledged; with `Owned(k) => k \in object`
  in its place, TLC finds the loss.
* **An embedding of price zero is refused.** The receipt table wants a reservation to cost at
  least 1 (`infra/postgres/init.sql:942`), while the profiles v3 and v4 price a local
  embedding at 0, so the insert fails and no embedding can be sent under them. The model has
  the table's check (`Storable`).
* **A tombstone may be lowered over an erasure that stands**: by the rollback of an
  overlapping deletion, by an attachment, or by an `allow` that is applied late.
  `ErasedStaysErased` exempts what enters the cache by then (`lowered`).
* **A logout that races a rotation** revokes the old refresh token and leaves the
  replacement's row live until it expires; the browser has forgotten it.
* **Two tabs that rotate one pair may lose the session**: the loser's 401 clears the storage
  if it is handled before the winner's answer is stored.
* **fetchMe may sign out a newer session**: its `catch` (`useAuthStore.ts:117`) clears the
  storage on a 401 without comparing pairs, unlike the interceptor, for which
  "A late response from an older principal is inert" (`client.ts:205`).
  `OnlyFetchMeOversteps` shows that it is the only one.
* **Options may be anchored in a text that is gone**: a node is returned for a chapter whose
  continuation no longer contains its anchor, and submitting it fails (`MayHold`).
* **A continuation outlives a choice before it**: a choice rewrites chapter c while a
  generated chapter c + 1 stays as it was written from the old c. `NoGaps` asks for text, not
  for text that fits.
* **Runtime LLM settings** are read, changed and written by separate steps, so of two
  concurrent updates one may be lost, and one that ends after the last account was deleted
  leaves a platform key behind. Not modelled.
* **`mark_import_budget_exhausted`** is documented for "a claimable job at the attempt
  ceiling", but its statement does not ask whether the job is claimable, so a second claim
  while the last attempt runs under a live lease would fail the job for good. In one process
  the per-user admission prevents that second claim (`LastAttemptSurvives`, which `import_node`
  checks for one process); with two processes over one database, a deployment
  `docs/ARCHITECTURE.md` does not support, the model reaches it.

## 5. Proofs

All theorems hold for every value of the constants that satisfies the modules'
assumptions: finiteness of identity sets, a null identity outside them, naturals
as bounds and prices, at least one attempt, permit and novel per upload where the code's
constants have it (`ChatTurn` needs `MaxAttempt` of 1 or more: a turn is inserted as its
first attempt). The bounds of the runs, on crashes, faults, pairs or attempts, are
constants like the others, so the theorems hold for each of them, however large.

**WorldTurnProofs.** `TypeInv` strengthens the type invariant with what guards rely on
(a claim is below the turn bound, a decision is of the kind its label uses) and is
inductive by itself. `ScopeInv` joins `OneOutstandingTurn`, `TimelineExact` and
`ClaimIsCurrent` with the shape of rows, because none is inductive alone: a commit
extends the timeline by the next number only because its claim is current, a claim
stays current only because no other turn is outstanding, and the source moves only
when none is. `WorkerInv` adds that a worker in the projection serves a committed
turn, which lasts because committed rows are final. Results: `TypeCorrect`,
`ScopeCorrect`, `TerminalRowsStayFinal`, `RepliesAreDurable`.

What one step may do to the row of a key is said by `RowStepHolds`: renew or lose its
lease, begin an attempt (only while no lease is live), replace a pending check, or close it
by a handler acting for its attempt. `ChecksStayFrozen` and `HolderEndsItsClaim` are read
off it. `AdjudicatedOnceHolds` needs `AskInv`: only a first attempt asks, a row keeps its
attempt count above zero, so a key has one first attempt, one handler inserted it, and that
handler passes its adjudication step once.

For the refinement of `WorldTimeline`, the mapping reads the timeline off the completed
rows with a `CHOOSE`; `TimelineExact` makes the choice unique (`Numbered`), so the mapped
value is a sequence (`Sequenced`). A commit appends its key because the claim is current
and the key's row was not completed before, a finished projection adds its key to
`settled`, an extension is the abstract one because it waits for every projection, and
every other step leaves the mapped state alone (`OthersQuiet`).

**ChatTurnProofs.** `ChatInv` adds four parts to the types. `NumberInv`: the numbers of the
turns that advance the conversation are exactly one to their count, which bounds a sequence
number that the code computes as a maximum plus one. `ClaimInv`: an attempt of a row belongs
to one worker and at most one row is in progress, although insertion, supersession and
reclaim are separate statements. `RequestInv`: from the comparison on, the row holds the
message and the chapter the request asked about. `HistoryInv`: while a claim stands, nothing
is committed behind the history its prompt saw. Together they give `ConversationIsLinear`,
`SequenceIsExact`, `AnswersAreOfTheirClaim`, `AnswersAreForTheirRequest` and
`TerminalRowsStayFinal`, for any number of keys, messages and processes at once, where the
run varies one of them at a time.

They are also what the refinement of `Conversation` rests on. A commit is the abstract
`Reply`: by `HistoryInv` its prompt saw every turn answered before it, by `NumberInv` the
number it computes is the count plus one, and by `RequestInv` what it tells the client is
for the message and chapter of the row (`ReplyStep`). A replay is a `Repeat`. A step that
supersedes a row is a `Close`, of one key, since `ClaimInv` allows one row in progress
(`QuietStep`); it was never answered, and a reclaim does not take a superseded row. Every
other step leaves the mapped state alone. An instance has its own copy of `Cardinality`, of
which `CountsAgree` says that it is the same.

**ChatSummaryProofs.** `ClaimInv` is as in `ChatTurn`. `CallInv` follows the call: until the
dispatch of a window is recorded there is none, the worker that recorded it is the only one
to call, and a recorded dispatch closes the window to claims for good. `SentInv` counts the
requests of that one call: none before it, and a worker about to repeat one has a retry
left. Hence `CalledAtMostOnce` and `PublishedFromItsCall`, for any windows, workers and crashes.

**DiagnosticBudgetProofs.** Three lemmas on amounts carry the arithmetic: a larger
count costs no less (`Monotone`), an admissible usage costs no more than its quote
(`QuoteCovers`), so settling lowers totals and never below zero (`SettlingFalls`).
`TypeOK` is inductive with them and gives `TypeCorrect`, `LimitsHold` and
`ClosedFalls`. `SpendIsCharged` is not inductive: that a dispatch happens under a
receipt depends on what the client was told, so `EvidenceInv` records for every
attempt how message, receipt and provider work agree, for every call what its label
lets it conclude, and that no two calls work on one attempt. It gives `SpendCharged`
and `ReturnedSettled`. `CountInv` counts every attempt of a call as a retry, as the one
fallback or as the attempt that was just answered; an answer is empty only in JSON mode,
which a call leaves once. It gives `CallsAreBounded`, for any number of retries, where the
run's three attempts reach the allowance only. `TotalsAreExact` says that the charged
totals are the sum of what every receipt is charged. The sum is a fold over a finite set, and
induction over finite sets is out of reach, so the argument goes by a least counterexample:
the strict subsets of a finite set are well founded (`SmallestSet`), therefore the recursive
equation of the fold has a solution, and two sums that differ in the charge of one attempt
differ by it (`SumOver`). `LedgerInv` says that the totals are that sum and that the ordinals
number the receipts: a reservation and a settlement move a total and its receipt together.

**NovelImportProofs.** `ImportInv` joins three things. What the rows of a novel say of one
another (`JobSound`, `TextSound`): a stage has the text it promises, and a canon model is
of the chapters and characters that are stored. What a task knows (`TaskFollows`): as long as
its attempt holds the row, what it read is still what is stored, each step adding what it
wrote. And `OneHolder`: no two tasks have claimed the same attempt of a novel, because a
claim increments it. Steps then are of three kinds: they store nothing and only lower a fence
(`CalmStep`), they are the task's own reading or fenced writing (`OnwardStep`, `WriteStep`),
or they are an upload of novels that had no rows. It gives `ReadyCoherent`,
`EnrichedStaysFrozen` and `SettledStaysFinal` for any number of processes.
The refinement of `Catalogue` has one lemma per kind of step. What one step on one novel
leaves as it was is not seen (`Unseen`, and nothing of other novels is, `OneIsSeen`): this
covers replay, repair and analysis, since a task that holds its row is at a stage before
"enriched", checkpoints, failures and leases. An upload, a claim, the mark of an exhausted job,
the enrichment, the insertion of a model and the completion are `Accept`, `Try`, `GiveUp`,
`Analyse`, `Model` and `Finish`. That the book shown is whole is `TextSound` after the
step; that the model is of the book shown is what the task follows before it; and a novel that
is in progress is open because `JobSound` excludes a ready or exhausted one.

`LastAttemptIsLeft` needs `OneImportPerReader`, which the admission of one process keeps, and
is stated for one process: with two, TLC finds the opposite (observations above).

**SourceRetentionProofs.** `TypeInv` is inductive and holds whatever is lost
(`TypeCorrect`). `KeptHasItsSource` is not inductive: that nobody is about to delete a
novel's object depends on who has heard of its key. `KeepInv` follows the key: unknown to
all but its request until reserved (`Untouched`), in no worker's hands while its
reservation stands and stored once its put is acknowledged (`ReservationHolds`), and
without a row or a worker once a novel owns it and its upload was told so (`NovelHolds`).
The step from the second to the third is the acceptance, which consumes a reservation and
nothing else. For any number of workers, for slow uploads and whatever other
acknowledgements are lost, this gives `SourcesAreKept`; the run has one worker.
`NothingOrphaned` needs the converse, `OrphanInv`: what is stored, or may still be put by a
call nobody waits for, has a novel, a row, or a request that will hand it over. A key whose
puts have not begun is new; one that has begun keeps a reservation or a queued row; a worker
completes only a row whose object it has deleted; and a batch is accepted or queued as a
whole. A key that failed twice (`DoublyFailed`) is outside it, as in the property.

**BranchChoiceProofs.** None of the four properties is inductive: that the text replaced is
the text drafted from rests on what the request read long before. `Timeline` joins what
carries them: choices, their projection and their prose agree (`Projected`); generated text
begins at a choice and is contiguous; what a submission remembers of the world is still so
(`Remembers`); and as long as the choices it read are all there are, the text it holds is
the one stored, or the source behind which no choice lies (`Based`). A continuation is saved
only where nothing is, and only behind a choice, so it cannot replace what a draft read; only
another choice can, and that changes the fingerprint.

**UserServiceProofs**, for `Accounts`. `Roster` adds to `OneAdministrator` that a
registration past its check has seen an administrator who is still there, since its lock
holds off deletion and setup. For the erasure, `Forgotten` says where each request stands
(`Advanced`: the tombstone is up before the scan, and from then on either the scan found the
reader's text or nothing is cached and nothing can enter) and what an account without the
novel leaves behind (`Past`): nothing cached and no turn to project, or a standing tombstone,
or a tombstone whose lowering `lowered` records. It lasts because a tombstone expires only
when no turn, request or call of the account is under way. `KeptIsProjectedHolds` is the
other direction: as long as no call has failed, every tombstone is of an erasure that stands
or of a request that will erase or lower it (`Answered`), whichever requests overlap.

For `Sessions`, `SessionInv` joins the types, `OneLivePerSignIn` and `RotatesOnce` with four
parts: an answer under way at the server is awaited by the call that asked (`PostInv`), that
answer is of the sign-in it was asked for, and a sign-in under way is neither the stored one
nor another tab's, so that no logout can have ended it (`AuthInv`), a pair nobody has stored
yet is live and unknown to every tab (`FreshInv`), and, while no answer was missed and no refresh token expired, the
stored pair is a live row or its replacement is on its way (`UsableInv`). It holds for any
number of tabs and pairs and gives `OneLiveRow`, `TabRotatesOnce`, `LogoutIsFinal` and
`StoredStaysUsable`. `RemovalIsExplained` is read off the steps that clear the storage.

**Only model-checked.** Liveness: `ProjectionSettles`, `DispatchSettles`, `Settles` and
`UnownedIsDeleted` rest on fairness and on what is enabled, and are out of the prover's
reach. Every safety and action property of every run is the statement of a theorem.

## 6. What is not modelled

`PROJECT.json` gives the reason for every component. Left for later, as planned above:
the world-source journal, world series, translations, gateway admission, retry keys of the
frontend. In `BranchChoice`: choices of older releases that have no stored prose
(`reconstruct_choice_chapter`), the final re-read before options are returned, and the content
of a transition. In `Accounts`: profiles, passwords and the runtime configuration. Left out
for good: document parsing and object storage formats, prompt construction and answer
parsing, provider wire formats, telemetry, rendering, release procedures. Of the modelled
components, clocks are reduced to expiry, texts to their provenance, and token counts to the
ceilings and prices of a profile.
