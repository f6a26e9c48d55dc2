# Verification of wikiagent

wikiagent compiles a directory of source files into a wiki with the help of a
language model, and answers questions from it. This directory holds TLA+
models of the program, the TLC runs that check them, and TLAPS proofs about
them. Paths below are relative to `src/wiki_agent/` of the repository.

## 1. The system

### Components, their state and how they meet

| component | state | operations | meets the others through |
|---|---|---|---|
| jobs queue (`queue/`) | SQLite table `jobs`; the worker's current row | enqueue, claim, progress, finalize, cancel, recover | every submission inserts rows; the worker runs handlers; outcome rules run inside the final transaction |
| wiki write session (`queue/wiki_write.py`) | settled flag of the row being run | open (reset), commit, abort, restore | wraps every handler that writes the wiki |
| sync line (`sync/`) | `state.json`, in memory and on disk | submit_sync; compile and delete handlers; outcome rules | snapshots, queue, issues, git |
| snapshots (`snapshots.py`) | one directory per batch | capture, drop, sweep of orphans | submissions create, the queue drops, the constructor sweeps |
| execution lock (`exec_lock.py`) | `flock` on the workspace | acquire, release | whoever writes the wiki holds it: the web server or one script |
| issues (`issues/`) | tables of issues and events | report (merge by fingerprint), transition, retry, rescan, correction | the sync line reports and resolves; a retry queues a compile |
| maintenance (`maintenance/`) | table of proposals | preview, submit, dismiss; restructure and link rows | the gate it shares with sync; the queue |
| versioning (`versioning/`) | git repository of the wiki | restore, commit, revert | the write session; the user |
| runtime (`application/runtime.py`, `queue_pump.py`) | process state | construct, start, run, close, drain | owns all of the above in one process |
| agent, sessions, context (`agent/`, `conversation/`, `context/`) | history and metadata files, cursors | turn, checkpoint, consolidate, finalize | memory; llm; tools |
| memory (`memory/`) | history, two cursors, event stream | append, dream, sweep, fold | sessions |
| llm, tools (`llm/`, `tools/`) | limiter windows and slots; breaker state | reserve, acquire, retry; allow, record | every call of the model or of a tool |
| compiler (`compiler/`) | none between calls | extract, search, plan, execute, check | called by the compile handler |
| wiki, materials | none | pure functions on pages and files | compiler, maintenance |
| entry points, logging, events, frontend, evals | views | – | – |

`PROJECT.json` lists every component with its files and what is modelled of it.

### What is hard

* **One writer, several processes.** The web server and the scripts open the
  same workspace. Only the holder of the execution lock may run rows, but the
  constructor already does work (loads `state.json`, sweeps snapshots) before
  the lock is taken.
* **Four stores, no common transaction.** A success is a git commit, then a
  SQLite transaction, then a provenance page, then `state.json`, then the
  removal of the snapshot directory. A process can die between any two.
* **Inputs that move.** The user edits sources while a submission scans and
  copies them and while the worker compiles the copies.
* **Rows without owner.** Recovery goes by age (300 s without a report), so a
  result can be late and a row can be executed twice.
* **Batches.** Copies are shared by the rows of one batch and removed by the
  last of them. A sync is one batch; a retry of several issues makes a batch of
  its own for each and queues all of them in one transaction, so that several
  are in flight together. The gate refuses a submission while rows of an earlier
  one are in flight.
* Elsewhere: two-transaction updates of an issue; a proposal superseded while
  it is decided; history appended before the metadata that counts it; cursors
  written after the lines they count; quotas reserved before a slot is free;
  breaker probes that are cancelled.

The list of hazards in `PROJECT.json` gives each with its line, the properties
that watch it, or the reason why none does yet.

### What makes each part correct

* queue: one in-flight row per resource; an outcome is applied once per row and
  only with its verdict; rows start in the order they were queued; every row
  ends.
* sync line: HEAD holds complete pages of the content that was copied; a source
  that sync considers up to date is in the wiki as it is; rows that are queued
  have their input; nothing is left behind.
* lock: one writer.
* issues: the failure records tell how the last run of each source ended; a
  decision of the user is not overwritten by what was under way; a rescan is
  about what the scan saw.
* maintenance: references stay whole; a unit loses no section and no source; a
  proposal is decided once; a batch is one piece of history.
* conversation: disk and memory agree between turns; a compaction is never
  half kept; every request is one the API accepts.
* memory: no record is passed that the model gave no answer about, unless its
  request is too large to be sent; expired facts stay expired.
* compiler: the index names the pages that exist; a run makes no dead link; a
  source stays named.
* llm and tools: a slot is returned on every path; the rate stays bounded; a
  failing tool is left alone and then tried once.

## 2. The modules

| module | role |
|---|---|
| `JobLedger` | what the jobs table promises: rows get one verdict, once |
| `JobQueue` | the table and its protocol, one transaction per action |
| `SyncPipeline` | processes, submissions, worker and files around `JobQueue` |
| `IssueLedger` | the issue records and everything that changes them |
| `WikiMaintenance` | proposals, units, links, commits and reverts |
| `SourceCompiler` | how one source becomes pages |
| `Conversation` | a session: turns, compaction, checkpoints, closing |
| `MemoryLedger` | history, the Dreamer and the memory items |
| `GuardedCalls` | limiter, retries, circuit breaker, tool servers |
| `JobQueueProofs`, `SyncPipelineProofs`, `IssueLedgerProofs`, `WikiMaintenanceProofs`, `SourceCompilerProofs`, `ConversationProofs`, `MemoryLedgerProofs`, `GuardedCallsProofs` | theorems |
| `MC...` | instances for TLC |

`SyncPipeline` contains `JobQueue` and its proofs carry the theorems of
`JobQueue` over. The other modules describe one subsystem each and cut at the
interface to the next: what `SyncPipeline` calls the content of the tree is the
set of pages of `SourceCompiler` and the set of lines of `WikiMaintenance`; the
record that `Conversation` hands over in one await is the two steps of an
append in `MemoryLedger`; a model call that ends somehow in any of them is a
request of `GuardedCalls`.

### JobQueue

`rows` is the table. SQLite never deletes from it and hands out increasing
rowids, so a row is its position. `claim_next` orders by `created_at`, then
`rowid`; positions are that order as long as the clock does not run backwards.
A row keeps what decisions read: `status`, `kind`, `resource`, `key`
(idempotency key), `payload`, whether `updated_at` is older than 300 s
(`stale`) and whether it was ever claimed (`tried`). `exec[w]` is the row that
an execution of `run_once` works on; the table itself has no owner column.
`journal` is a history variable: the rows whose outcome was applied.

| action | code |
|---|---|
| `Submit(reqs)` | one transaction that inserts a sequence of rows (`store.enqueue`, called in a loop by the coordinators); one duplicate rolls all of them back |
| `Claim(w)` | `store.claim_next` with the kinds the worker registered |
| `MarkStage(w)` | `queue.mark_stage`: refreshes `updated_at` |
| `Finish(w, status)` | `queue.complete_with_outcome`: `try_finalize`, and only if it hit, the outcome |
| `Cancel(w)` | `queue.cancel_terminal` on the cancellation path of `run_once` |
| `Age(i)`, `RecoverStale` | 300 s pass; `store.recover_stale` |
| `Crash(w)` | the process dies; the row stays running |

A call whose key is already in flight inserts nothing and returns that row, so
it is no step. `RecoverStale` may run at any time here, with executions still
going on: the table must stay correct without help from the execution lock.

### SyncPipeline

`SyncPipeline` instantiates `JobQueue` with processes as workers, the kinds
compile and delete, and sources as resources, and adds

* on disk: `disk` (the sources), `snaps` (batches that have a directory),
  `file` (`state.json`), `pages` (provenance pages, outside the repository),
  `head` and `tree` (what the wiki holds of each source: a content, nothing, or
  `Partial`, pages of unfinished work);
* per process: `mode`, `mem` (`SyncState` in memory), `keep` (what the
  constructor read before it sweeps), `sub` (a submission in progress),
  `phase` and `result` (where the worker is in its row);
* `pending`, the sources with an open or blocked failure record; `lock`.

`ahead` is a history variable: sources whose last commit changed the wiki and has
not been recorded since. A delete records only if the source has a provenance
page, and only what it records counts (`RecordsCommit`).

A process goes through `Construct`, `Sweep`, `Start` (or `Refused`), and ends by
`Close`, `CloseCompiling` or `Crash`. A submission is `Inspect`, `Capture`,
`Enqueue` for a sync. A retry takes its issues one after the other:
`RetryCapture` copies the source of one into a new batch, `RetryBroken` ends the
request when a source is gone by then, `RetryEnqueue` queues a row for each or
none; a second issue of the same source gets a copy too (`spare`), which is
removed once the first has its row. A row is
`Begin` (claim, reset, entry checks), any number of `Report` and `WritePages`,
then `CompileSucceeds`, `DeleteSucceeds` or `HandlerFails`, `Settle` (the
transaction), `Book` (or `BookingFails`), `DropBatch`.

In one process everything runs on one event loop. A submission is synchronous
and can only start while the worker waits for a compile or has no row
(`Yielded`); the worker does not move while a submission is half way
(`Working`). Their steps are still separate, because a crash, an edit of the
disk, or another process can fall between them.

The processes in `Retrier` run `retry_failures.py`: they take the lock but do not
call `recover_stale`, and end without draining the queue when there is nothing
to retry or the request is refused.

Contents of a snapshot never change, so the copy of a row is its `digest` as
long as its batch is in `snaps`.

Abstractions a reader should know:

* All dirty files of a batch are copied in one step. Sources are independent:
  an edit between two copies equals an edit before or after both.
* `Construct` reads the records and the live batches in one step; `Sweep` is
  separate because that is where another process gets in.
* The second check of the gate inside the submitting transaction is not
  modelled: only the lock holder submits, and it does not yield in between.
* A sync queues its compiles in the order of their paths and its deletes in any
  order: they come in the order in which `state.json` lists them.
* The key of a retry is one per source; the unavailable mark of an issue whose
  source is gone is in `IssueLedger`.
* A delete takes the references to a source out of the pages that name it; the
  pages stay. `head[s]` is what the wiki holds *in the name of* `s`, and
  `head[s] = Null` means that no page names it any more.
* A source has a provenance page of its own.
* The user's edits of wiki pages, the revert commands, and maintenance rows are
  not in this module.
* `BookingFails` covers the failing file actions after the commit, which the
  code logs and passes over.

### IssueLedger

A record is its fingerprint, since a report with the same fingerprint merges
into it. `status` and `ruling` (who wrote the resolution), `flagged` (the
unavailable mark of a failure), `hits` (occurrences of a finding) are the
tables; `row` and `link` are the rows of the sources and the record each was
submitted for; `task` is what a process has read and will still write. `last`
(how the last row of a source ended) and `revived` (records made active by
other than a failure) are history variables.

The lock holder runs one operation at a time, but an operation is several
transactions and may die between them: marking a record unavailable is
`WriteFlag`, `WriteStatus`; accepting a correction is `Accept`,
`ResolveAccepted`; a rescan is `StartRescan`, one `ReportFinding` per page,
`EndRescan`. Every process that constructs an `AppRuntime` reconciles the retry
inputs without the lock (`Reconcile`, `Probe`), between any two of those.

### WikiMaintenance

The wiki is a set of lines: a page exists, has a section, names a source, links
to a page, is named by `index.md`. An analysis (`PreviewEnds`) suggests units
that merge, split, rewrite or delete pages; `Analyses` is the way from a
suggestion to a proposal: `Picks` are the parts of an answer that may be left
when some of its units are dropped, and `Resolve` gives a page to the first unit
that names it and drops the others (`Fits`). The user
submits some of the units (`SubmitProposal`), a script all of them
(`SubmitUnits`). A row of the queue says what it is, its unit and its batch. The
worker prepares a unit from the tree (`PrepareUnit`), writes it (`ApplyUnit`),
commits, and ends the row; link and compile rows go the same way. `log` keeps of
each commit its batch and HEAD before it; `RevertBatch` and `RevertCommit` take
commits out (`Reverted`: a line is as it was before the oldest of them that
changed it).
git refuses a revert that would put lines into a file that is gone, and so does
the model. `Crash` leaves the row to a later `Recover`.

`Scan` is the `/scan` command of a terminal. It merges pages that are the same
file (`Text`, `Merged`) in the working tree, takes no lock, asks no gate and
commits nothing. It may come at any moment: under a unit that has been read but
not written, between two rows, or before a submission, which then checks its
units against the merged tree while the first row takes the merge back. Two
history variables tell what that may have cost. `moved` is up while the units in
flight may not fit HEAD: a `/scan` changed the tree since they were checked, or
the tree differed from HEAD when they were. `mixed` is up once a `/scan` fell
between the reading and the writing of a unit, or commits were reverted from
under later ones.

### SourceCompiler

`head` and `tree` are wikis of pages (links, related field, sources named) and
an index. A run passes the stages, gets any plan the checks let through
(`PlanMade`), and writes the pages in any order (`TargetWritten`,
`TargetFails`), each against the plan, before it is known which of the others
will exist. `AllWritten` and `SomeFailed` are the two ends. With `guarded` the
caller is the sync handler, in a write session; without it the caller is the
recompile command, and what a failed run wrote stays. `Scan` merges duplicate
pages in the working tree between any two pages of a run.

### Conversation

`log` and `meta` are the two files of a session, `mem` the cached object with
the fields `lc` (last consolidated), `archived`, `status`, `titled`. `turn` is
what holds the session lock and how far it is. A checkpoint runs in a thread in
two steps (`SaveWrite` appends, `SaveReplace` replaces the fields); `Saver`
names who started it, and `"orphan"` is one whose turn was cancelled and that
goes on (`Detached`).

`tail` says how the last line of the message file ends: with its newline, in the
middle of a message (`"half"`), or with a complete message and no newline
(`"open"`; a reader still finds that one). A death or an `OSError` during an
append leaves any number of the messages and any of the three endings (`Begun`).
The next append continues the unfinished line with its first message, and neither
can be read from then on. `hole` remembers which messages of the cached object
went that way, `parted` the sessions of which a *failed* checkpoint wrote a part,
which is then written a second time. `brokenOff` is the cursor a closing had set
in memory when handing its summary to the memory raised (`RecordFails`).

`FirstLegal`, `Window`, `Repair` and `Snips` are the algorithms that
cut a request, as operators on sequences of messages; `Requests` is everything
they can produce in a state. The loops of `find_first_legal_idx`,
`_repair_orphan_tool_call` and `_remove_orphan_tool_result` are stated by the
places of the list: `FirstLegal` is the first place with nothing open behind it,
and a repaired list is the set of its places, each message with the placeholders
behind it (`Filled`), without the results whose call is gone (`Standing`), put
in order (`Listed`). `MCConversation` has the same functions as the loops they
are in the code, and its assumption `LoopsAsPlaces` compares the two on every
list of at most four messages of two turns.

### MemoryLedger

`lines` and `cursor` are `history.jsonl` and its cursor, written one after the
other (`AppendLine`, `AppendMark`); `dreamed` is the second cursor, `dream` the
batch under way: `DreamRead` takes the lines, `DreamAsk` the other cursor and
builds the request, which fits the limiter or does not. An attempt ends in
`DreamRefused` (the limiter raises `ValueError` for a request above its capacity,
nothing is sent), `DreamUnreachable` (the call fails; the cycle ends and nothing
moves), `DreamIllegal` or `DreamAnswered`. Refusals and illegal answers count as
attempts (`Rejected`), and the last one passes the batch. `DreamApply` does one
operation, `DreamDone` moves the cursor. `items` is the fold of the event stream.
`looping` says that `dream_loop` runs: the first turn after a start of the
process starts it. `heard` (the records in a request the model answered, legally
or not), `refused` (the records of a batch that was given up unsent) and `raced`
are history variables.

### GuardedCalls

`reserved` is the limiter's window of reservations with their ages, `active`
its count of slots, `breaker` the breaker of each tool, `tools` and `server`
the registry and the MCP connection, `call[c]` what each task waits for. A
request is `Ask`, `Reserve`, `TakeSlot`, then `Replied` or `RequestFails`, and
`Resume` for the next attempt. `Resend` is the SDK's own retry: the clients are
built without `max_retries`, so it repeats a request that failed (`SdkRetries`
times, 2 by default) inside the same slot and reservation, unseen by the limiter;
`resent[c]` counts that. The model lets it happen at any time within
the slot. A tool call is `Execute`, then `ToolAnswers`, `ToolRetries` or `ToolFails`. `Cancel` hits wherever a task waits. Time is
`Tick`, which ages reservations, sent requests and open breakers; an age stops
growing where the code no longer tells it apart. `Spent` has one element for each
token that is reserved, so that `Tokens` is a count; `Pruned` is the `popleft` of
`_prune`, once for each entry that leaves the window. `sent` and `past` (what was
recorded of a tool since its last success) are history variables.

### What these modules leave out

A reader should know the following of them.

* `IssueLedger`: run-failure records; lists, counts and cards.
* `WikiMaintenance`: what the rewriting call makes of the sections is input, and
  `Rewritten` assumes that it keeps each section it was given: the code checks
  that every section is routed to a page (`route.py:89-99`), not that the text
  comes back. `/scan` merges one group of pages at a time; its rewriting of links is
  idealised (below). The check of the disk and the submitting transaction are
  one step, since the submission does not yield in between; the units of a
  decided proposal are forgotten; a page that is missing and a page that does
  not match end a row in the same way (`Mismatch`).
* `SourceCompiler`: the stages before the plan only succeed or fail; the text
  of a page matters only for equality (`Scan`); one group of duplicates per
  scan, which leads all links to the page that stays (`Led`), while
  `cleanup_exact_duplicates` does not find links written as `[[slug.md]]`
  (`quality.py:545-557`), which `fix_wikilinks` keeps; the index is a set, is there,
  names exactly the pages when the first run begins (`StartAssumption`), and has
  no links in its summaries. The recompile command neither dies nor is
  interrupted: it has no session, so an interrupted source leaves pages without a
  line in the index, and `--resume` (`recompile.py:260-266`) skips that source and
  does not repair it. `IndexWhole` does not hold of such a wiki.
* `Conversation`: the estimates of tokens and the outcomes of model calls are
  open; at most one orphaned save at a time; one title task stands for all; an
  object is evicted only when nothing holds it, while `session.py:136` asks only
  whether the session is locked, so that a title task or a turn that has not
  taken the lock may go on with an object the cache has dropped; two threads that
  append at once write one after the other and do not mix their bytes; a file
  cut inside a character cannot be decoded and its session not be loaded
  (`session.py:151`); the ids of calls are distinct and a turn has one round of
  tools; the content of messages, the
  merging of neighbours with one role, expiry by time or space, and a session
  whose creation fails are left out.
* `MemoryLedger`: an operation that is refused is left out; a session appends
  once at a time; the clock of the sweep is open; whether a request fits the
  limiter is left open, and is the same for every attempt at a batch; a line
  is written whole.
* `GuardedCalls`: waiting is a guard that does not hold yet; results of calls
  are not kept; the synchronous and the streaming call go through the same
  limiter and are not separate; a limiter that is replaced by a change of
  configuration is left out; a call to an unknown or forbidden tool changes
  nothing and is no step.

## 3. The runs

| run | instance | states | time | shows |
|---|---|---|---|---|
| `job_queue` | 2 executions, 2 kinds (one execution handles both, one handles one), 2 resources, 1 key, 3 rows | 185,633 | 15 s | the table protocol and its refinement of `JobLedger` |
| `sync_one` | 1 process, 2 sources, 2 contents, 4 rows, 3 batches, 3 edits, 1 fault | 3,444,698 | 50 s | the pipeline through stops, a crash or failed record, and restarts |
| `sync_live` | 2 processes, one of them `retry_failures.py`, 2 sources, 1 content, 2 rows, 2 batches, 2 edits, 1 fault | 35,436 | 5 s | exclusion and that every row ends |
| `issue_ledger` | the lock holder and one visitor, 1 source with 2 stages, 1 page, 1 correction, 7 user actions, 1 fault | 773,532 | 15 s | the records against manual decisions, retries and rescans |
| `wiki_maintenance` | 3 pages, 2 sections, 2 sources, 4 suggestions, 3 proposals, 3 commits, 2 batches, 1 death or /scan | 1,636,506 | 80 s | units on a wiki that moves, /scan, reverts |
| `conversation` | 1 session, 2 turns with tools, window of 4, tail of 1, 1 loop, up to 3 messages of a broken append, 1 fault | 7,339,437 | 120 s | checkpoints, compaction, requests |
| `memory_ledger` | 2 sessions, 2 facts, 3 records, 2 items, 2 operations, 2 attempts, 1 death | 2,147,651 | 145 s | cursors and the Dreamer, with liveness |
| `source_compiler` | 3 pages, 2 sources, 3 starting wikis, plans of 2, 2 runs, 1 fault | 2,190,826 | 30 s | pages, links and index |
| `guarded_calls` | 2 tasks, 1 built-in and 1 remote tool, 2 requests and 3 tokens a window of 2 ticks, 1 slot, 2 attempts, 1 repeat by the SDK, threshold 2, recovery 1 | 9,847,176 | 155 s | limiter and breaker |
| `sweep_finding`, `record_finding`, `recover_finding` | small | – | 1 s | section 5 |

Properties of `job_queue`:

* `OneInFlightPerResource`: the promise of the partial unique index, through
  inserts, rollbacks, recoveries, late results.
* `SettledOnce`: outcomes and terminal verdicts agree, one to one.
* `StartOrder`: no row is tried before an earlier one its workers also handle.
* `ImplementsLedger`: claims, recoveries and late results are invisible.

Properties of `sync_one`:

* `HeadWhole`, `OwnCommitOnly`: HEAD never holds unfinished pages, and a commit
  carries the pages of its own row and nothing else, made from its own copy.
* `InputPresent`, `NoLeftoverCopies`: the copies of a sync and of all batches of
  a retry are there as long as a row needs them and are removed with the last,
  whether the request is accepted, refused or breaks off at a source that is gone.
* `QuietMeansConverged`: with nothing in flight, a source the next sync would
  leave alone is in the wiki as it is, or its commit was never recorded.
* `RecordedAtRest`: that last case needs a crash or a failed write.

The other runs:

* `issue_ledger`. `FailuresOnBooks`: the records of a source and the end of its
  last row agree, through retries, marks, dismissals and vanished files.
  `DecisionStands`: what the user closed stays closed, except for the one race
  section 5 names. `AcceptLeavesRepair`: no correction is accepted without its
  repair, through a death between the two transactions. `RescanSound`: a rescan
  resolves a finding exactly when the scan did not see it.
* `wiki_maintenance`. `RefsWhole`: links, lines and index in HEAD fit together,
  except after the two things `mixed` stands for. `UnitsFindPages`: units of one
  submission never take each other's pages away; a row finds its pages missing
  only when it had been applied before a death (`redo`) or a `/scan` changed the
  tree without a commit (`moved`). `NothingLost`: a merge or split keeps sections
  and sources, although it is prepared from one tree and committed on another
  step, with a `/scan` in between or not. `DecidedOnce`: a
  proposal is queued at most once. `BatchesContiguous`: the commits of a batch
  are neighbours.
* `conversation`. `DiskMirrors`: the file holds the beginning of what was said
  at all times, and all of it whenever no checkpoint is under way, less the one or
  two messages of a line that a death had left unfinished (`hole`).
  `CompactionKept`: a compaction is on disk or was never made, through
  cancellation at every await, but for the cursor of a closing that was broken
  off. `RequestLegal`: every call of a tool in a request is followed at once by its
  results, and every result stands behind its call, whatever of the history a
  compaction, a window, a snip, a checkpoint torn in the middle of a line or one
  written twice has left (but not for sessions in `parted`).
* `memory_ledger`. `NothingPassed`: the dream cursor passes no record the model
  gave no answer about, except a batch whose request never fitted the limiter.
  `EveryRecordHeard` (liveness): each one gets its answer or is given up that way,
  in the end. `ExpiredForGood`: an expired item stays as it is.
* `source_compiler`. `IndexWhole`, `NoNewDeadLinks`, `SourcesStayNamed`.
* `guarded_calls`. `Paced`: in a window the provider gets no more requests than
  `(1 + SdkRetries) * (RequestsPerMinute + tasks)` (section 5), and slots and
  tokens keep their limits. `Quarantined`: who may reach a tool that keeps failing.

The bounds of `job_queue` and the sync runs: three rows are the least with which
a row can be claimed past another, a key can be released, and a recovered row
can be run by two executions. Two sources are the least with which a batch has a sibling that still needs the copies and
a commit could take foreign pages; two contents the least with which a source
can go back to what is recorded; three batches let a retry be refused beside a
sync and be followed by another. One fault already reaches every fault point;
`sync_one` was also run with two (10.4 million states) with the same result, and
so was `wiki_maintenance` with a fourth commit and a third batch, as far as TLC
came in five minutes.
Contents are interchangeable and are the symmetry of the safety runs; sources
are not, because submissions sort them. The liveness run uses no symmetry.

Every exception a property states is needed: TLC violates it on the same instance
without `moved`, `mixed`, `hole`, `parted`, `brokenOff`, `refused` or the factor of
the SDK.

The others: two stages let a second failure of a source appear beside the first
that is being marked, and seven user actions let a decision, a reopening and a
new failure meet one reconciliation. Three pages with three commits let a unit
create a page that a compile also wants, and let a batch be interrupted and
reverted; the compile can make a page equal to an old one, which is what a
`/scan` merges. The fault is a death or a `/scan`, not both: a death leaves the
tree to the next reset as a `/scan` does. A window of four messages with two turns
of four or five (`TurnShapes`: a turn with tools, with and without an answer)
makes turns compact, and cuts fall inside a round of tool calls; three begun
messages let an append break off before, between and behind the results of a
call. Three records give an
append that overlaps a batch and one after it. Two targets in a plan and three
pages give a page named twice, one that fails beside one that links to it, and
an old page that is not planned. Two tasks and one slot let a request wait for
its slot past the window; sizes 1, 2 and 4 fit, fit once, and never fit. One
repeat by the SDK shows that the limiter does not see it; with two the bound is
the same formula, which is proved for any number. A recovery time of one tick
separates a breaker that opened just now from one that may be tried.

Deadlock is checked in the runs of `JobQueue`, `SyncPipeline` and `GuardedCalls`: a
process can always be started, and a task can always call. The other modules bound
turns, user actions or commits and stop when these are used up.

Fairness of `sync_live` (`FairSpec`): the server or `sync.py` is started again and
again and, once running, pumps until nothing is left to claim (`Lifecycle`, `Begin`,
`Settle`, `Book`, `DropBatch`); a compile ends in success or failure (the model
calls have timeouts); a submission that started finishes; 300 s pass. No
fairness is assumed of edits, submissions, or crashes. `Resident` is FALSE
there: the program does not recover a row while a web server stays up, it
recovers rows when a process starts. `retry_failures.py` recovers nothing and may
end without draining, so the property must not lean on it: a run of it uses up one
of the `MaxEdits` edits, after which only the other process starts, while the
rows its runs left behind, or died with, still have to end.

Fairness of `memory_ledger` (`FairSpec`): once started, `dream_loop` comes round
again, the two reads follow each other, a call of the model ends in some way because
it has a timeout, and what was answered is finished. All this is of the code. One
assumption is about the provider: one that is asked for ever answers now and then
(strong fairness of `DreamIllegal` or `DreamAnswered`), because a batch whose every call
fails is read again in every cycle and moves nothing. The loop is only started by
the first turn after a start of the process, so the property speaks of records that are
there while it runs and gives up its promise when the process dies. Nothing is assumed of
that turn, the applying of operations, appends, the sweep or a death.

Each property is also broken once on purpose: `PROJECT.json` names, for each, a
definition and a faulty form of it that sits just before it in the module
(`InsertableByKey`, `WinsAlways`, `ResetSkipped`, `SourceRead`, ...). These
forms are used by nothing else.

## 4. The proofs

Each inductive invariant below was also checked by TLC, as an invariant, on the
instance of its run.

`JobQueueProofs` proves for every set of workers, kinds, resources and keys and
every bound:

| theorem | states |
|---|---|
| `TypeCorrect` | `QSpec => []QTypeOK` |
| `OccupiedOnce` | `QSpec => []OneInFlightPerResource` |
| `OutcomeOnce` | `QSpec => []SettledOnce` |
| `StartsInOrder` | `QSpec => []StartOrder` |
| `QueueImplementsLedger` | `QSpec => ImplementsLedger` |

Assumptions: `QueueAssumption` only (the kinds a worker registers are kinds,
`NoKey` is no key, the bound is a natural number).

The inductive invariant `QInv` is `QTypeOK`, `OneInFlightPerResource`,
`SettledOnce`, `StartOrder` and `Started`. `Started` (a row that left the queue
was tried) is what the others lack: the claim of a row looks for earlier rows
that are queued, and only `Started` says that an earlier row which is not queued
was tried, so `StartOrder` would not survive `Claim` without it. The step lemma `StepInv`
has one step per action of `QNext`; most actions change one row, so the lemmas
`RowUpdates`, `WriteRow` and `TurnFacts` say once what writing one row does to
the sequence, and the cases cite them. Refinement uses `LedgerShape` (the
verdicts of the table after one row is written, after a batch is appended) and
`StepRefines` (each action is a ledger step or a stutter).

`SyncPipelineProofs` proves, for every set of processes and contents and every
number of sources, rows, batches, edits and faults:

| theorem | states |
|---|---|
| `PipelineTypeCorrect` | `Spec => []TypeOK` |
| `OneWriter` | `Spec => []ExclusiveWriter` |
| `HeadStaysWhole` | `Spec => []HeadWhole` |
| `CommitsAreOwn` | `Spec => OwnCommitOnly` |
| `PipelineDrivesQueue` | `Spec => JQ!QSpec` |
| `PipelineSettlesOnce` | `Spec => [](JQ!SettledOnce /\ JQ!OneInFlightPerResource)` |
| `CommitsGetRecorded` | `Spec => []RecordedAtRest` |
| `QuietIsConverged` | `Spec /\ [][RecordsRest]_vars => []QuietMeansConverged` |
| `InputIsThere` | `Spec /\ []SweepsApart => []InputPresent` |
| `NothingLeftOver` | `Spec /\ [][HoldsOn]_vars => []NoLeftoverCopies` |
| `TurnsAreSafe` | `Spec /\ [][Alone]_vars => []` of the three |

Assumptions: `PipelineAssumption` (the bounds are natural numbers; `Null` and
`Partial` differ, are no contents, and `Null` is neither a process nor a source).
There may be any number of processes everywhere.

The last four have a condition on how processes overlap, because a constructor
works without the lock: it reads `state.json` and the live batches, and sweeps
the copies (`runtime.py:66`, `queue/queue.py:52`). Each condition names one overlap that
the code does not prevent:

* `RecordsRest`: no record is written between the moment a process loads the
  records and the moment it takes the lock. Otherwise it later saves its old map.
* `SweepsApart`: no constructor sweeps while another process has made the copies
  of a submission and not yet queued its rows. Otherwise they are swept away
  (`sweep_finding`).
* `HoldsOn`: the holder of the lock does not end while another process is being
  constructed. Otherwise the copies it leaves behind are no longer swept.
* `Alone`: a process is constructed only when no other lives. `TurnsAreSafe`
  shows that the three others follow from it. It covers the usual life of a
  workspace, a server that is restarted or killed and scripts run in between.

With one process all four hold of themselves. None can be left out: with two
processes TLC violates each property without its condition, and finds each with
it, together with the inductive invariants below (two processes, two sources,
three rows, one fault; up to 700,343 states). Those instances are not among the
runs of section 3.

The argument has five layers.

1. `QueueMoves`: each step of the pipeline is a transaction of the table or
   leaves it alone. So the lemmas of `JobQueueProofs` apply to the table of the
   pipeline: its shape (`StepType`), and that the kind, resource and payload of
   a row never change (`RowsKept`). The second is what makes "the source of the
   row being executed" a stable notion.
2. The inductive invariant `PInv`: `TypeOK`, `HeadWhole` and
   * `Placed`: a worker has a row exactly between claim and verdict, and the row
     it books is in the table;
   * `Owner`: a process is up exactly while it holds the lock, and does nothing
     otherwise. With `Placed` this is `ExclusiveWriter`;
   * `Deletions`: a row that deletes names no content;
   * `OwnPages`: during a compile the working tree is HEAD except under the
     source of the row, during a delete likewise, and where that source has no
     provenance page nothing is written at all.
   `HeadWhole` alone is not inductive: a commit takes over the whole tree. It
   needs `OwnPages`, which in turn needs the reset in `Begin`, the resets of the
   failure and cancellation paths (or that the next `Begin` comes first), and
   `Owner`, because a second worker would write the same tree.
   `CommitsOwn` then gives both `HeadWhole` and `OwnCommitOnly`.
3. `Together`, inductive on top of `PInv`: nothing is in flight while a sync is
   between its look at the gate and its transaction. `LiveShrinks` (only a submission
   puts a row in flight) and `Owner` (only one process submits) keep it true. A retry
   has no such property: each of its rows has a batch of its own, and they are in
   flight together.
4. `RInv` adds what a row knows of its commit, for any number of processes.
   `Runs`: nobody but the worker ends the row it executes while it lives, so a
   verdict is never lost to a recovery and every commit of a living process is
   booked. `Compiles`: a compile has a content. `Carried`: what a handler left in
   HEAD is still there when the outcome is booked, because nobody else commits in
   between. `Unrecorded`: without a fault, a source is in `ahead` only while its
   row is on its way to the record. The last is `RecordedAtRest` with the way
   there; it needs `Carried` to know that booking takes the right source out.
   `Agree`, on top of it and with `RecordsRest`: of a source that is not in
   `ahead`, `state.json`, provenance page, HEAD and the memory of the process that
   is up say the same. It needs `Loaded` beside it (what a process has loaded is
   what is recorded), for memory to agree when a constructed process takes the lock.
   `QuietMeansConverged` compares the disk to the record and HEAD to the disk,
   and `Agree` is the middle that both share.
5. The copies. A sync takes one batch, a retry one for each copy it makes (`Taken`).
   `Fresh` (no row belongs to a batch that a submission has taken) needs no
   condition. `Copied` (what is about to be queued has been copied, and is not
   among the spare copies a retry removes), `Kept` (a sweep keeps what a row in flight
   needs) and `InputPresent` are inductive together, with `SweepsApart`. `DropBatch`
   would break `InputPresent` if a submission could be half way in the same batch;
   `Fresh` says it cannot.
   `Accounted` (while a process is up, a directory belongs to rows in flight, to the
   submission that made it, `Made`, or to the row that is being booked; while none is,
   the next sweep keeps exactly the live batches) is inductive with `HoldsOn` and implies
   `NoLeftoverCopies`. `RowEnds` is the lemma it rests on: a row that ends takes
   only itself out of flight.

The invariants of layers 1 to 4 were checked by TLC on the instances of `sync_one`
and `sync_live`, `Agree` and those of layer 5 on `sync_one` and with two processes
under their conditions.

`IssueLedgerProofs` proves, for any sources, stages, pages, corrections,
processes and bounds:

| theorem | states |
|---|---|
| `LedgerTypeCorrect` | `Spec => []ITypeOK` |
| `FailuresAreOnBooks` | `Spec => []FailuresOnBooks` |
| `AcceptedHasRepair` | `Spec => []AcceptLeavesRepair` |
| `RescanIsSound` | `Spec => RescanSound` |
| `DecisionsStand` | `Spec => DecisionStands` |

Assumptions: `LedgerAssumption` only (the lock holder is no visitor, bounds are
numbers). What makes the properties hard is that an operation reads, is
overtaken, and writes; so the invariant `IInv` says of each half-done operation
what may still be relied on. `TodoKnown`: a reconciliation looks only at records
that exist, so it never makes a failure out of nothing. `AcceptUnderWay`: whoever
is about to resolve an accepted correction has its repair already, which is why
dying in between leaves the correction open and not lost. `RescanUnderWay`: from
its first report to its end a rescan keeps its issue active, its row in the
table, and has added one occurrence to its own page at most, by its own report;
comparing the occurrences at the end with those at the start (`EndRescan`) is
sound because of that. The steps are proved by what they touch: first the tasks
(`StepTasks`), then failures, corrections, rescans.

`WikiMaintenanceProofs` proves, for any pages, sections, sources, answers of the
model, start wikis and bounds:

| theorem | states |
|---|---|
| `MaintenanceTypeCorrect` | `Spec => []MTypeOK` |
| `WikiStaysWhole` | `Spec => []RefsWhole` |
| `UnitsFindTheirPages` | `Spec => []UnitsFindPages` |
| `NothingGetsLost` | `Spec => NothingLost` |
| `DecidedOnlyOnce` | `Spec => []DecidedOnce` |
| `BatchesStayTogether` | `Spec => []BatchesContiguous` |

Assumptions: `MaintenanceAssumption` (finitely many pages, bounds are numbers,
answers are sequences of suggestions) and `StartAssumption` (the first wiki is
whole). Of the parts of the invariant `MInv`, these carry the argument:

* `WikiWhole`: HEAD is whole, *and so is every HEAD a commit in the log was made
  on*, unless `mixed`; that each line is in the file of a page needs no exception. The
  first part alone does not survive a revert; a revert of the last
  commits gives back a wiki of the second part (`LogInOrder` and
  `BatchesContiguous` say that the commits of the last batch are the last ones).
* `OneSubmission`: the units in flight come from one submission and touch
  different pages; `Resolve` establishes it. Without it a unit could take away
  the pages of the next, and `UnitsStand` (each unit in the queue fits HEAD, or
  was applied before a death, or `moved`) would not survive a commit.
* `InSession`: what the tree and the plan are at each step of a row (`SessionAt`).
  After a `/scan` the tree is not HEAD, but it is `Alike`: it has the same sections and
  sources, and is whole if HEAD is. `PlanOf` is what a prepared unit promises of
  the tree *and* of HEAD, `PlanFits` what it promises besides while nothing was merged
  since the unit was read, `WrittenBy` what it made of the wiki; `NothingLost` follows
  from the last at the commit, `mixed` or not.

A `/scan` may come at each of these steps. `MergeKeeps` says what it does to any set of
pages: it puts nothing there that was not there, and what it takes away is on the page
that stays. `PagesMerged` and `ScanStep` carry this to `SessionAt`.

That `Resolve` keeps the suggestions apart needs that a set of numbers has a
smallest element (`Smallest`), which follows from the well-foundedness of `<`
without induction.

`SourceCompilerProofs` proves, for any pages, sources, start wikis, answers and
bounds:

| theorem | states |
|---|---|
| `CompilerTypeCorrect` | `Spec => []PTypeOK` |
| `IndexStaysWhole` | `Spec => []IndexWhole` |
| `SourcesKept` | `Spec => SourcesStayNamed` |
| `LinksKept` | `Spec => NoNewDeadLinks` |

Assumptions: `CompilerAssumption` (bounds are numbers, answers link to pages)
and `StartAssumption` (a run finds a wiki whose index is exact and whose related
fields come from its links: an empty one, or one that a run left).

None of the three properties is inductive: they speak of HEAD, and what HEAD
becomes is decided by the tree, page by page. `CInv` says of the tree

* `IndexOK`: a page without a line is one the run has planned. So the lines
  `_append_index` adds for planned pages complete the index, whichever pages
  were written before the run ended;
* `SourceOK`: nothing HEAD names is unnamed in the tree, and what the next write
  of a page will name covers what it names now. The second part is needed
  because all targets read before any of them writes, and a plan may name a
  page twice;
* `LinkOK`: a page the run has not written is no deader than in HEAD; a page it
  has written relates to all it links to, and, with nobody else at the tree,
  links only to pages that exist or are planned. The first part gives the pages
  outside of the plan, the second the last check of the session, the third the
  recompile command, which has no such check.

`PutFacts`, `CleanedFacts`, `IndexedFacts` and `MergedFacts` say once what each
change of a wiki does; there is one lemma per kind of step, and `EveryStep` puts
them together with what the step may do to HEAD (`HeadStep`). 

`ConversationProofs` proves, for any sessions, window, tail and bounds:

| theorem | states |
|---|---|
| `ConversationTypeCorrect` | `Spec => []CTypeOK` |
| `DiskAndMemoryAgree` | `Spec => []DiskMirrors` |
| `CompactionsKept` | `Spec => []CompactionKept` |
| `RequestsLegal` | `Spec => []RequestLegal` |

Assumptions: `ConversationAssumption` only (the window is at least one message,
bounds are numbers). The invariant `CInv` is the shapes (`Shaped`) and, session by
session, `Held` and, while no checkpoint failed or overlapped another (`clean`),
`Kept`. `Held` ties the lock to what its holder may be in the middle of: whoever
has the lock or runs a checkpoint has the object in memory, and a turn waits for
a checkpoint exactly while its own is under way. `Kept` follows a checkpoint
through its two steps. `Mirrored`: before the append the file ends where `saved`
says, after it the file is the history, although `saved` and the fields are not
yet replaced. Both are said with `Holds`: the file is that history without its `hole`,
and *a file that ends in an unfinished line has no hole yet*. This is the part
that makes an append after a death provable: the first one meets the line the death
left, closes it and makes the hole, and there is no second such line, since an append
that breaks off ends the life of the cached object or of `clean`. `Covered`: a
compaction that a turn must not lose is in the fields a checkpoint has taken, or, when
none is under way, on disk, or is that of the closing that broke off (`brokenOff`);
that is what a cancellation between the steps leaves to the orphaned save. Neither
property is inductive without these: `DiskMirrors` says nothing about a checkpoint half
way, and `CompactionKept` nothing about a turn that has not come to its save.

`RequestLegal` rests on a second invariant, `SInv`, and on lemmas about the
algorithms that need no induction because they speak of the places of a list.

1. What Repair needs. Not every list can be made legal by filling in results: a
   result that comes late, behind other messages, is neither lost nor in place.
   `Mendable` is the condition: a result stands right behind its call, among
   other results, and the result of a call is there or nowhere behind it.
   `RepairLegal`: what `Repair` makes of a mendable list is legal. A call that
   was lost has its placeholder (`PlaceOfLost`), with only results between the
   two (`Adjoined`), `Standing` takes out nothing, and `ListedInOrder` and
   `ListedLegal` carry this from the places to the sequence.
2. What cuts keep. `SliceMendable` and `CutMendable`: a piece of a mendable list
   that begins with something other than a result (`Opens`) is mendable, and
   `FirstLegal` gives such a beginning (`Beginning`; `Smallest` is that there is
   a least place). `SnipsLegal` and `SentLegal`
   put window, repair, snip and repair together, in the order of
   `prepare_for_llm`.
3. What is stored. `SInv` says of each session that is not in `parted` (`Told`) that
   the file and the history in memory can be mended, that the part not yet saved is
   legal by itself and begins with a question, and that it answers nothing the file
   leaves open (`Apart`). The last makes the file mendable when a checkpoint
   appends, also when two checkpoints append the same part or one dies between
   its steps. Behind an unfinished line more is needed, because the append takes a
   message away from either side of the seam: there all that is unsaved is of later
   turns than all of the file (`Fresh`, from which `FreshApart` gives the other). A
   call that lost its results to a torn line is then a call without results, which
   `Repair` fills. `BegunTold` says this of an append that stops anywhere; the
   checkpoint (`WriteTold`), its failure (`FailureTold`) and the death (`DieTold`) are its
   cases. A failed checkpoint is the one thing that breaks it: its messages are
   written a second time behind the part it left, which is what `parted` excepts.
   `StoryMoves` reduces a step to the session it is about; `QuietSteps` and
   `LoadingSteps` are the steps that say nothing new, `AnswerTold`, `ReplaceTold` and
   `EvictTold` the others that do or that lose something.

`SInv` was checked by TLC on the instance of the run `conversation` before it
was proved.

`MemoryLedgerProofs` proves, for any sessions, facts and bounds:

| theorem | states |
|---|---|
| `MemoryTypeCorrect` | `Spec => []LTypeOK` |
| `NothingIsPassed` | `Spec => []NothingPassed` |
| `ExpiredStays` | `Spec => ExpiredForGood` |

Assumptions: `MemoryAssumption` only. The invariant `LInv` is the shapes,
`Numbered` (no number, cursor or batch points behind the end of the history, with
overlaps too) and, as long as nothing overlapped, `Orderly` (one append at a time
is under way, and its number is not below the cursor) and `Complete`: before the
model is asked the batch is all that is above the dream cursor; from then on what
the batch reaches up to is heard, refused or in the batch; and what is applied was
answered. The halves exclude each other in time: `Complete` says why the cursor
may move at the end of a batch, or when its last attempt is filed
(`AttemptRejected`), and `Orderly` why the number of an append that comes later is
above it. That a call which fails moves nothing is not a clause of the invariant but
the case of the proof that its mutant breaks: the batch is in neither set then, so a cursor
that moved would pass it.

`GuardedCallsProofs` proves, for any tasks, tools, sizes, limits and times:

| theorem | states |
|---|---|
| `CallsTypeCorrect` | `Spec => []RTypeOK` |
| `RateIsPaced` | `Spec => []Paced` |
| `SlotsReturned` | `active` is the number of requests on the wire, and at most `MaxConcurrency` |
| `FailingToolLeftAlone` | `Spec => Quarantined` |

Assumptions: `GuardedAssumption` only (limits are numbers, requests have at least
one token, the tasks are finitely many). The inductive invariant has two layers.

1. `GuardedInv`. `CallsOK` is the shape of the calls and the count: `OneMoves`
   says what a step of one task does to the number of tasks on the wire, and
   every action of a task is an instance of it. `BInv` ties the breaker of a tool
   to what was recorded of it: closed exactly while the failures are below the
   threshold; open with the age of the last failure; half open only with the
   probe flag up. The last part is why nobody passes a half-open breaker, and it
   is what the mutant that forgets the flag breaks. `AdmitKeeps`, `SuccessKeeps`,
   `FailureKeeps` and `TickKeeps` are the four things that happen to a breaker.
2. `LimitsInv` adds `AttemptsOK` (where a call is, how many attempts it can have
   used; what may have had an effect never waits for another one) and `RateInv`.
   `Paced` alone is not inductive: it says nothing of the requests that wait for
   their slot, nor of what will be left of the window after the next tick.
   What a reservation stands for is `1 + SdkRetries` requests, those the SDK repeats
   included; `Quota(n)` is what `n` reservations and one earlier one of each task may
   send, and `Owed` are the requests that may still go out on reservations made: all of a
   task that waits for its slot, the repeats left of one that is on the wire.
   `RateInv` says: *for every age `a`, the requests sent in the last `a` ticks and those
   owed are at most the quota of the reservations of the last `a` ticks.* A reservation
   adds the quota of one and owes as much, for every `a`; a request that goes out, for the
   first time or again, leaves the owed and joins the sent; one that ends takes its
   repeats with it; a tick turns the statement for `a - 1` into the one for `a`, and the
   one for 0 is that each task owes no more than the quota of one. `Paced` is the case of
   the whole window. For the ticks both deques are kept in order of age, so that
   `popleft` takes what has left the window and nothing else (`TheFirstLeave`,
   `OneTickOlder`); the tokens are counted by `SpendMore` and `SpendLess`.

Model-checked only:

* liveness, `EveryRowEnds` and `EveryRecordHeard`, which is beyond the prover;
* that the loops of the code compute what `FirstLegal` and `Repair` state
  (`LoopsAsPlaces`): what a loop computes for every list is an induction over
  data, so it is compared on short lists;
* that the conditions of `QuietIsConverged`, `InputIsThere` and `NothingLeftOver`
  cannot be left out (TLC's counterexamples with two processes).

## 5. Where the code departs from its own words

* `sweep_finding`. The constructor reads the live batches and then sweeps,
  without the lock. A batch that another process queues in between loses its
  copies, against "copy first, then queue, so that a task that exists has its
  input" (`sync/coordinator.py:55`).
* `record_finding`. A commit whose record is lost is redone only if the disk
  still differs from the old record at the next sync, against "a crash only
  leads to a redo" (`sync/handlers.py:269`).
* `recover_finding`. A restart within 300 s leaves the interrupted row running
  and the gate closed, against "rows left running are recovered first"
  (`application/queue_pump.py:18`).

What follows was met while modelling, contradicts no sentence of the repository,
and is stated here because a property carries an exception for it or a model
takes it as given.

* Limits count reservations: `RequestLimiter` reserves before it waits for a
  slot, so a window can carry as many sends more than the limit as there are
  tasks waiting. The OpenAI clients are built without `max_retries` (`client.py:79-84`),
  so the SDK sends a failing request up to three times inside one slot and one
  reservation: what the provider sees may be three times the limit that is configured.
  `Paced` has both, the slack and the factor, and fails without either.
* The `ValueError` of a request larger than the minute's budget (`rate_limit.py:56-60`) is
  retried with backoff although it can never fit. The Dreamer takes it for an illegal
  answer (`dreamer.py:207`) and after its last attempt passes the batch, whose records no
  model has seen (`refused` in `NothingPassed`).
* A probe of a breaker that is cancelled, or refused for parameters the tool
  does not know, leaves the breaker half open with its probe flag up; it then
  rejects every call until some earlier call succeeds. A success that was under
  way before closes an open breaker.
* An MCP server whose connection fails after its tools were registered leaves
  them in the registry (`ConnectFails`).
* `clear_retry_unavailable` has no compare-and-set: it reopens a record the user
  dismissed between its two transactions (the exception in `DecisionStands`).
  A rescan of a repair record always resolves it, and a scan reopens a finding
  that was dismissed.
* Two saves of one session in two threads (a turn's and the title's) both
  append: lines are lost or doubled (`clean` in `DiskMirrors`). After a
  compaction in a turn `archived` counts messages that were not summarised.
* The message file is opened to append and written through a buffer
  (`session.py:264-266`). A death in between leaves a line without its end; the next
  checkpoint continues it, and its first message is lost with it (`hole` in
  `DiskMirrors`). An `OSError` in between leaves a part of the messages that the next
  checkpoint writes again behind it (`parted` in `RequestLegal`: the results of the copy
  answer the call of the part).
* Closing an idle session moves its cursor before the summary is handed to the memory
  (`react.py:762-769`); when that raises, the cursor stays in memory and no checkpoint
  follows (`brokenOff` in `CompactionKept`).
* Two appends to the history at the same time give two records one number, and
  an append beside the Dreamer's two reads can be passed by its cursor (`raced`
  in `EveryRecordHeard`). After a death between a line and the cursor the last
  records are put before the model in every cycle. One line that is not JSON
  hides all unprocessed records.
* `revise` and `invalidate` are not held to the evidence the other operations
  need.
* A run that knows no page at all leaves every link in its pages
  (`fix_wikilinks` with an empty set; the exception in `NoNewDeadLinks`).
  `check_plan_json` compares spellings, so a page can be two targets of a plan.
  An extraction round with an empty answer wipes the digest. `/scan` changes
  the tree without a commit: the next session takes the merge back. Units of a
  proposal that were checked against the merged tree can then miss their pages on their
  first run (`moved` in `UnitsFindPages`), and a unit that is written after a merge
  replaced the page it was read from may leave links without a page, or a page without
  a line in the index (`apply.py:142-145`; `mixed` in `RefsWhole`).
* A source that has no provenance page (its booking failed) is deleted without
  touching the wiki: the references to it stay (`DeleteSucceeds`).
* A crash after the commit of a restructure row makes it run again and end as
  failed, although it was applied (`redo` in `UnitsFindPages`). Reverting
  something other than the last commits can leave links to pages that are gone
  (`mixed` too). git refuses a revert that would change a file that is
  gone, and the user is told to resolve it. A reverted batch stays recorded as processed, so
  the sync that `versioning/git_manager.py:302` asks for finds nothing to do.
* `BatchedSync` submits a large sync in parts; a later part queues deletes for
  the files of the earlier ones. It is not modelled.

## 6. What is left

Every safety invariant and action property of the passing runs is stated by a
theorem. What remains to prove is out of the prover's reach (end of section 4).

Further modelling: `BatchedSync`; provenance pages shared by sources;
sub-agents of a turn; the chunkers as algorithms.

## 7. Not modelled

* Prompts, and the text a model writes: input to the models above.
* Readers and converters of file formats, chunking, similarity search: they
  transform data and keep no state.
* Fan-out of events, logging, tracing: output that nothing reads back.
* Configuration, construction of clients, HTTP routes, terminal, browser code:
  they call the services modelled above or display what those keep.
* Lists, counts, cards, diffs and other views of the tables and of git.
* Judging of model output in the evaluations.
