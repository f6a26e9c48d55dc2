---------------------------- MODULE SyncPipeline -----------------------------
(***************************************************************************)
(* How a source file reaches the wiki.  A submission (sync/coordinator.py, *)
(* issues/coordinator.py) compares the disk with the records of completed  *)
(* work, copies what changed into a snapshot directory and queues one row  *)
(* per source.  The worker compiles the copy into the wiki working tree,   *)
(* commits it, ends the row with its outcome in one transaction, and only  *)
(* then writes the record to state.json.  The jobs table is JobQueue;      *)
(* this module adds the processes around it, everything they keep on disk, *)
(* and the points where a process can die, be stopped, or be overtaken by  *)
(* the user's edits or by the constructor of another process.              *)
(*                                                                         *)
(* Inside one process everything runs on one event loop: submissions are   *)
(* synchronous, and the worker yields only while a source is compiled.     *)
(* Steps between two yields are separate here only where a crash, an edit  *)
(* of the disk or another process can fall between them.                   *)
(***************************************************************************)
EXTENDS Integers, Sequences, FiniteSets

CONSTANTS
  Proc,        \* processes that construct an AppRuntime on the workspace
  NumSources,  \* sources are numbered in the order of their paths
  Content,     \* what a source file can contain
  Null,        \* no content, no record, no lock holder
  Partial,     \* pages written by an unfinished compile or cleanup
  Retrier,     \* those of them that run retry_failures.py by hand
  Resident,    \* TRUE: the others can stop at any time (the web server)
               \* FALSE: they stop when the queue is drained (sync.py)
  MaxRows, MaxBatches, MaxEdits, MaxFaults  \* bounds

ASSUME PipelineAssumption ==
  /\ NumSources \in Nat /\ MaxRows \in Nat /\ MaxBatches \in Nat
  /\ MaxEdits \in Nat /\ MaxFaults \in Nat
  /\ Resident \in BOOLEAN /\ Retrier \subseteq Proc
  /\ Null # Partial /\ Content \cap {Null, Partial} = {}
  /\ Null \notin Proc /\ Null \notin 1..NumSources

Source == 1..NumSources
Batch == 1..MaxBatches
Recorded == [Source -> Content \cup {Null}]

VARIABLES
  \* the database
  rows, exec, journal,  \* see JobQueue; exec[p] is the row p's worker executes
  pending,   \* sources with an active (open or blocked) failure record
  \* the files
  disk,      \* the source directory: content of each source, Null if absent
  snaps,     \* the batches that have a snapshot directory
  file,      \* state.json: the content recorded as processed
  pages,     \* sources with a provenance page (outside the wiki repository)
  head,      \* wiki HEAD: the content of each source its pages were made from
  tree,      \* the same for the working tree
  \* the processes
  lock,      \* holder of the execution lock
  mode,      \* "down", "sweeping", "built" (constructed), "up" (holds the lock)
  keep,      \* batches the constructor read as in flight
  mem,       \* SyncState in memory
  sub,       \* the submission in progress
  phase,     \* where the worker is in its row
  result,    \* what the handler reported
  done,      \* the row whose outcome is being booked
  \* history and bounds
  ahead,     \* sources whose last commit to the wiki has not been recorded
  nbatch, faults,
  edits      \* what the user does by hand: edits, and runs of retry_failures.py

database == <<rows, exec, journal, pending>>
wiki == <<head, tree>>
records == <<file, pages, ahead>>
bounds == <<nbatch, edits, faults>>
process == <<lock, mode, keep, mem>>
worker == <<phase, result, done>>
vars == <<database, disk, snaps, records, wiki, process, sub, worker, bounds>>

Payload == [batch : Batch, digest : Content \cup {Null}]

JQ == INSTANCE JobQueue WITH
        Worker <- Proc, Kind <- {"compile", "delete"},
        Registered <- [p \in Proc |-> {"compile", "delete"}],
        Resource <- Source, Key <- Source, NoKey <- Null

Live == JQ!Live
BatchOf(i) == rows[i].payload.batch
LiveBatches == {BatchOf(i) : i \in Live}

\* a compile that a retry asks for
RetryRequests ==
  [kind : {"compile"}, resource : Source, key : Source,
   payload : [batch : Batch, digest : Content]]

NoSub == [step |-> "none"]
SubState ==
  {NoSub}
  \cup [step : {"scanned"}, batch : Batch, dirty : SUBSET Source, removed : SUBSET Source,
        scan : Recorded]
  \cup [step : {"captured"}, batch : Batch, removed : SUBSET Source, scan : Recorded,
        digest : UNION {[S -> Content] : S \in SUBSET Source}]
  \cup [step : {"retry"}, asked : Seq(RetryRequests), spare : SUBSET Batch]

Idle(p) == sub[p] = NoSub /\ phase[p] = "idle"

\* where the worker is in its row, and what the handler of the row reports
Phase == {"idle", "compiling", "deleting", "settling", "booking", "dropping"}
Result == {"none", "ingested", "already_ingested", "delete_applied",
           "snapshot_error", "ingest_error", "raised"}

\* the event loop of p can run a submission: the worker is between rows or
\* waits for a compile
Yielded(p) == mode[p] = "up" /\ sub[p] = NoSub /\ phase[p] \in {"idle", "compiling"}

\* the event loop of p can run the worker: no submission is half way
Working(p, ph) == phase[p] = ph /\ sub[p] = NoSub

Job(p) == rows[exec[p]]
Subject(p) == Job(p).resource

-----------------------------------------------------------------------------
(* Construction, start and end of a process                                *)

\* AppRuntime.__init__ up to the sweep: the records are loaded and the batches
\* in flight are read, without the execution lock
Construct(p) ==
  /\ mode[p] = "down"
  /\ mode' = [mode EXCEPT ![p] = "sweeping"]
  /\ mem' = [mem EXCEPT ![p] = file]
  /\ keep' = [keep EXCEPT ![p] = LiveBatches]
  /\ \/ p \notin Retrier /\ UNCHANGED edits
     \/ p \in Retrier /\ edits < MaxEdits /\ edits' = edits + 1
  /\ UNCHANGED <<database, disk, snaps, records, wiki, lock, sub, worker, nbatch, faults>>

\* the rest of it: directories whose batch was not in flight are removed
Sweep(p) ==
  /\ mode[p] = "sweeping"
  /\ snaps' = snaps \cap keep[p]
  /\ mode' = [mode EXCEPT ![p] = "built"]
  /\ UNCHANGED <<database, disk, records, wiki, lock, keep, mem, sub, worker, bounds>>

\* exec_lock: the lock of the workspace can be taken
LockIgnored(p) == TRUE
LockFree(p) == lock = Null

\* take the lock, then recover the rows a dead process left running, which
\* retry_failures.py does not do
Start(p) ==
  /\ mode[p] = "built"
  /\ LockFree(p)
  /\ lock' = p
  /\ mode' = [mode EXCEPT ![p] = "up"]
  /\ \/ p \notin Retrier /\ JQ!RecoverStale
     \/ p \in Retrier /\ UNCHANGED <<rows, exec, journal>>
  /\ UNCHANGED <<pending, disk, snaps, records, wiki, keep, mem, sub, worker, bounds>>

\* everything a process holds in memory goes, and the kernel frees its lock
Gone(p) ==
  /\ mode' = [mode EXCEPT ![p] = "down"]
  /\ lock' = IF lock = p THEN Null ELSE lock
  /\ mem' = [mem EXCEPT ![p] = [s \in Source |-> Null]]
  /\ keep' = [keep EXCEPT ![p] = {}]
  /\ sub' = [sub EXCEPT ![p] = NoSub]
  /\ phase' = [phase EXCEPT ![p] = "idle"]
  /\ result' = [result EXCEPT ![p] = "none"]
  /\ done' = [done EXCEPT ![p] = 0]

\* ExecutionBusy: another process holds the lock
Refused(p) ==
  /\ mode[p] = "built"
  /\ ~LockFree(p)
  /\ Gone(p)
  /\ UNCHANGED <<database, disk, snaps, records, wiki, bounds>>

\* an orderly end between two rows.  retry_failures.py drains the queue only when
\* its request is accepted, and can be interrupted.
Close(p) ==
  /\ mode[p] = "up"
  /\ Idle(p)
  /\ Resident \/ p \in Retrier \/ \A i \in DOMAIN rows : ~JQ!NextFor(p, i)
  /\ Gone(p)
  /\ UNCHANGED <<database, disk, snaps, records, wiki, bounds>>

\* an end while a source is compiled: the task is cancelled, the row with it,
\* and the working tree goes back to HEAD
CloseCompiling(p) ==
  /\ mode[p] = "up"
  /\ Working(p, "compiling")
  /\ JQ!Cancel(p)
  /\ tree' = head
  /\ Gone(p)
  /\ UNCHANGED <<pending, disk, snaps, records, head, bounds>>

Crash(p) ==
  /\ mode[p] # "down"
  /\ faults < MaxFaults
  /\ faults' = faults + 1
  /\ \/ JQ!Crash(p)
     \/ exec[p] = 0 /\ UNCHANGED <<rows, exec, journal>>
  /\ Gone(p)
  /\ UNCHANGED <<pending, disk, snaps, records, wiki, nbatch, edits>>

-----------------------------------------------------------------------------
(* Submissions                                                             *)

\* SyncState.diff
Dirty(p) == {s \in Source : disk[s] # Null /\ mem[p][s] # disk[s]}
Removed(p) == {s \in Source : disk[s] = Null /\ mem[p][s] # Null}

\* failure records of sources that are neither on the scanned disk nor recorded
VanishedClosed(p, scan) ==
  {s \in pending : scan[s] # Null \/ mem[p][s] # Null}

\* the mutual exclusion gate: no row that writes the wiki is in flight
GateOpen == Live = {}

\* submit_sync up to the copy.  With nothing to do it only closes failure
\* records; with any row in flight it is refused.
Inspect(p) ==
  /\ Yielded(p) /\ p \notin Retrier
  /\ \/ /\ Dirty(p) \cup Removed(p) = {}
        /\ pending' = VanishedClosed(p, disk)
        /\ UNCHANGED <<sub, nbatch>>
     \/ /\ Dirty(p) \cup Removed(p) # {}
        /\ GateOpen
        /\ nbatch < MaxBatches
        /\ Len(rows) + Cardinality(Dirty(p) \cup Removed(p)) <= MaxRows
        /\ nbatch' = nbatch + 1
        /\ sub' = [sub EXCEPT ![p] =
                     [step |-> "scanned", batch |-> nbatch', dirty |-> Dirty(p),
                      removed |-> Removed(p), scan |-> disk]]
        /\ UNCHANGED pending
  /\ UNCHANGED <<rows, exec, journal, disk, snaps, records, wiki, process, worker, edits, faults>>

\* SnapshotStore.capture: a copy of each dirty source as it is now; a source
\* that is gone by then fails the submission, which removes the directory
Capture(p) ==
  /\ sub[p].step = "scanned"
  /\ \/ /\ \E s \in sub[p].dirty : disk[s] = Null
        /\ sub' = [sub EXCEPT ![p] = NoSub]
        /\ UNCHANGED snaps
     \/ /\ \A s \in sub[p].dirty : disk[s] # Null
        /\ snaps' = IF sub[p].dirty = {} THEN snaps ELSE snaps \cup {sub[p].batch}
        /\ sub' = [sub EXCEPT ![p] =
                     [step |-> "captured", batch |-> sub[p].batch, removed |-> sub[p].removed,
                      scan |-> sub[p].scan, digest |-> [s \in sub[p].dirty |-> disk[s]]]]
  /\ UNCHANGED <<database, disk, records, wiki, process, worker, bounds>>

SyncRequests(x) ==
  {[kind |-> "compile", resource |-> s, key |-> Null,
    payload |-> [batch |-> x.batch, digest |-> x.digest[s]]] : s \in DOMAIN x.digest}
  \cup
  {[kind |-> "delete", resource |-> s, key |-> Null,
    payload |-> [batch |-> x.batch, digest |-> Null]] : s \in x.removed}

\* the order they are queued in: the compiles, in the order of their paths, then
\* the deletes, in the order in which state.json happens to list them
SyncOrders(x) ==
  {reqs \in [1 .. Cardinality(DOMAIN x.digest) + Cardinality(x.removed) -> SyncRequests(x)] :
     \A m, n \in DOMAIN reqs : m < n =>
       /\ reqs[m].resource # reqs[n].resource
       /\ reqs[n].kind = "compile" =>
            reqs[m].kind = "compile" /\ reqs[m].resource < reqs[n].resource}

\* the transaction of submit_sync.  Nothing can have been queued since the
\* refusal was decided: only the holder of the lock submits.
Enqueue(p) ==
  /\ sub[p].step = "captured"
  /\ \E reqs \in SyncOrders(sub[p]) : JQ!Submit(reqs)
  /\ pending' = VanishedClosed(p, sub[p].scan)
  /\ sub' = [sub EXCEPT ![p] = NoSub]
  /\ UNCHANGED <<disk, snaps, records, wiki, process, worker, bounds>>

\* submit_issue_retry_batch up to its transaction: the sources of some active
\* failure records are copied one after the other, each into a batch of its own,
\* whether or not the gate will let them in.  Records of one source that differ
\* in stage or error can be asked for together; the later ones get a copy too.
Asking(p) ==
  IF sub[p].step = "retry" THEN sub[p] ELSE [step |-> "retry", asked |-> <<>>, spare |-> {}]

RetryRequest(s, b) ==
  [kind |-> "compile", resource |-> s, key |-> s, payload |-> [batch |-> b, digest |-> disk[s]]]

RetryCapture(p, s) ==
  /\ Yielded(p) \/ sub[p].step = "retry"
  /\ s \in pending
  /\ disk[s] # Null
  /\ nbatch < MaxBatches
  /\ Len(rows) + Len(Asking(p).asked) < MaxRows
  /\ nbatch' = nbatch + 1
  /\ snaps' = snaps \cup {nbatch'}
  /\ \E x \in {Asking(p)} :
       \/ /\ \A n \in DOMAIN x.asked : x.asked[n].resource # s
          /\ sub' = [sub EXCEPT ![p] =
                       [x EXCEPT !.asked = Append(x.asked, RetryRequest(s, nbatch'))]]
       \/ /\ \E n \in DOMAIN x.asked : x.asked[n].resource = s
          /\ sub' = [sub EXCEPT ![p] = [x EXCEPT !.spare = x.spare \cup {nbatch'}]]
  /\ UNCHANGED <<database, disk, records, wiki, process, worker, edits, faults>>

\* the copies a request has made, and those that stay when it is refused
Copies(x) == {x.asked[n].payload.batch : n \in DOMAIN x.asked} \cup x.spare
RefusedFirstOnly(p) == snaps \ {sub[p].asked[1].payload.batch}
RefusedCopies(p) == snaps \ Copies(sub[p])

\* a source of the request is gone when its turn comes: all or nothing
RetryBroken(p) ==
  /\ sub[p].step = "retry"
  /\ \E s \in pending : disk[s] = Null
  /\ snaps' = RefusedCopies(p)
  /\ sub' = [sub EXCEPT ![p] = NoSub]
  /\ UNCHANGED <<database, disk, records, wiki, process, worker, bounds>>

\* its transaction: rows in flight are either the answer (they occupy the
\* sources) or a refusal, and all copies are removed in both cases.  Otherwise
\* every source gets its row, and the copies beyond the first of a source go.
RetryEnqueue(p) ==
  /\ sub[p].step = "retry"
  /\ \/ /\ ~GateOpen
        /\ snaps' = RefusedCopies(p)
        /\ UNCHANGED <<rows, exec, journal>>
     \/ /\ GateOpen
        /\ JQ!Submit(sub[p].asked)
        /\ snaps' = snaps \ sub[p].spare
  /\ sub' = [sub EXCEPT ![p] = NoSub]
  /\ UNCHANGED <<pending, disk, records, wiki, process, worker, bounds>>

-----------------------------------------------------------------------------
(* The worker                                                              *)

\* what the handler finds before it starts to compile: the row cannot run
\* without its copy, and needs not when its content is already recorded
Entry(p, row) ==
  CASE row.kind = "delete" -> [phase |-> "deleting", result |-> "none"]
    [] row.kind = "compile" /\ row.payload.batch \notin snaps ->
         [phase |-> "settling", result |-> "snapshot_error"]
    [] row.kind = "compile" /\ row.payload.batch \in snaps /\ mem[p][row.resource] = row.payload.digest ->
         [phase |-> "settling", result |-> "already_ingested"]
    [] OTHER -> [phase |-> "compiling", result |-> "none"]

\* WikiWriteSession.open: what a dead or failed job wrote is taken back
ResetSkipped == tree' = tree
PreReset == tree' = head

\* claim the oldest row and reset the working tree to HEAD
Begin(p) ==
  /\ mode[p] = "up"
  /\ Working(p, "idle")
  /\ JQ!Claim(p)
  /\ PreReset
  /\ LET entry == Entry(p, rows[exec'[p]])
     IN  /\ phase' = [phase EXCEPT ![p] = entry.phase]
         /\ result' = [result EXCEPT ![p] = entry.result]
  /\ UNCHANGED <<pending, disk, snaps, records, head, process, sub, done, bounds>>

\* a stage of the compile is reported
Report(p) ==
  /\ Working(p, "compiling")
  /\ Job(p).stale
  /\ JQ!MarkStage(p)
  /\ UNCHANGED <<pending, disk, snaps, records, wiki, process, sub, worker, bounds>>

\* some pages of the source are written (a compile), or some of the links to
\* its provenance page are removed (a delete)
WritePages(p) ==
  /\ \/ Working(p, "compiling")
     \/ Working(p, "deleting") /\ Subject(p) \in pages
  /\ tree[Subject(p)] # Partial
  /\ tree' = [tree EXCEPT ![Subject(p)] = Partial]
  /\ UNCHANGED <<database, disk, snaps, records, head, process, sub, worker, bounds>>

Reports(p, r) ==
  /\ phase' = [phase EXCEPT ![p] = "settling"]
  /\ result' = [result EXCEPT ![p] = r]
  /\ UNCHANGED <<database, disk, snaps, file, pages, process, sub, done, bounds>>

\* commit_all takes everything the working tree has
Commit(p, pagesOfSubject) ==
  /\ tree' = [tree EXCEPT ![Subject(p)] = pagesOfSubject]
  /\ head' = tree'
  /\ ahead' = ahead \cup {Subject(p)}

\* what the compile reads: the copy of the batch, never the source itself
SourceRead(p) == disk[Subject(p)]
CopyRead(p) == Job(p).payload.digest

CompileSucceeds(p) ==
  /\ Working(p, "compiling")
  /\ Commit(p, CopyRead(p))
  /\ Reports(p, "ingested")

\* the references to a source go with its provenance page.  Without one the
\* handler finds nothing to take out of the wiki, and commits nothing of its own
DeleteSucceeds(p) ==
  /\ Working(p, "deleting")
  /\ \/ /\ Subject(p) \in pages
        /\ Commit(p, Null)
     \/ /\ Subject(p) \notin pages
        /\ head' = tree
        /\ UNCHANGED <<tree, ahead>>
  /\ Reports(p, "delete_applied")

\* the pipeline refuses the source (a failure record will say so) or the
\* handler raises (it will not): what was written is taken back
HandlerFails(p, r) ==
  /\ \/ Working(p, "compiling") /\ r \in {"ingest_error", "raised"}
     \/ Working(p, "deleting") /\ r = "raised"
  /\ tree' = head
  /\ Reports(p, r)
  /\ UNCHANGED <<head, ahead>>

Succeeded(p) == result[p] \in {"ingested", "already_ingested", "delete_applied"}

\* the failure records after the verdict: a success resolves those of the
\* source, a refusal by the pipeline reports one, any other failure none
PendingByRow(p) ==
  CASE Succeeded(p) -> pending \ {Subject(p)}
    [] result[p] = "ingest_error" -> pending \cup {exec[p]}
    [] OTHER -> pending
PendingAfter(p) ==
  CASE Succeeded(p) -> pending \ {Subject(p)}
    [] result[p] = "ingest_error" -> pending \cup {Subject(p)}
    [] OTHER -> pending

\* complete_with_outcome, the transaction: verdict and failure records
Settle(p) ==
  /\ Working(p, "settling")
  /\ JQ!Finish(p, IF Succeeded(p) THEN "succeeded" ELSE "failed")
  /\ LET won == JQ!WinsRow(exec[p])
     IN  /\ pending' = IF won THEN PendingAfter(p) ELSE pending
         /\ phase' = [phase EXCEPT ![p] = IF won THEN "booking" ELSE "idle"]
         /\ done' = [done EXCEPT ![p] = IF won THEN exec[p] ELSE 0]
  /\ UNCHANGED <<disk, snaps, records, wiki, process, sub, result, bounds>>

\* the row whose outcome is being booked, and the record its success writes
DoneRow(p) == rows[done[p]]
RecordOfDisk(p) == [mem[p] EXCEPT ![DoneRow(p).resource] = disk[DoneRow(p).resource]]
BookedMem(p) == [mem[p] EXCEPT ![DoneRow(p).resource] = DoneRow(p).payload.digest]
BookedPages(p) == IF result[p] = "ingested" THEN pages \cup {DoneRow(p).resource}
                                            ELSE pages \ {DoneRow(p).resource}
DeletesUnbooked(p) == result[p] = "ingested"
HasBooking(p) == result[p] \in {"ingested", "delete_applied"}

\* the booking records the last commit of its source: that of the row, unless
\* the row found nothing to commit
RecordsCommit(p) == result[p] = "ingested" \/ DoneRow(p).resource \in pages

\* complete_with_outcome, the actions after the commit: provenance page first,
\* then the record, in memory and on disk
Book(p) ==
  /\ Working(p, "booking")
  /\ \/ /\ HasBooking(p)
        /\ pages' = BookedPages(p)
        /\ mem' = [mem EXCEPT ![p] = BookedMem(p)]
        /\ file' = mem'[p]
        /\ ahead' = IF RecordsCommit(p) THEN ahead \ {DoneRow(p).resource} ELSE ahead
     \/ /\ ~HasBooking(p)
        /\ UNCHANGED <<records, mem>>
  /\ phase' = [phase EXCEPT ![p] = "dropping"]
  /\ UNCHANGED <<database, disk, snaps, wiki, lock, mode, keep, sub, result, done, bounds>>

\* one of these actions raises, which is logged: the page could not be written,
\* or the record could not be saved
BookingFails(p) ==
  /\ Working(p, "booking")
  /\ HasBooking(p)
  /\ faults < MaxFaults
  /\ faults' = faults + 1
  /\ \/ UNCHANGED <<pages, mem>>
     \/ /\ pages' = BookedPages(p)
        /\ mem' = [mem EXCEPT ![p] = BookedMem(p)]
  /\ phase' = [phase EXCEPT ![p] = "dropping"]
  /\ UNCHANGED <<database, disk, snaps, file, ahead, wiki, lock, mode, keep, sub, result, done,
                 nbatch, edits>>

\* rows of the batch are still to run, so its copies are needed
NeededByRunning(b) == \E i \in Live : BatchOf(i) = b /\ rows[i].status = "running"
StillNeeded(b) == \E i \in Live : BatchOf(i) = b

\* the last row of a batch to end removes the snapshot directory
DropBatch(p) ==
  /\ Working(p, "dropping")
  /\ snaps' = IF StillNeeded(BatchOf(done[p])) THEN snaps ELSE snaps \ {BatchOf(done[p])}
  /\ phase' = [phase EXCEPT ![p] = "idle"]
  /\ result' = [result EXCEPT ![p] = "none"]
  /\ done' = [done EXCEPT ![p] = 0]
  /\ UNCHANGED <<database, disk, records, wiki, process, sub, bounds>>

-----------------------------------------------------------------------------
(* The environment                                                         *)

\* the user writes, replaces or deletes a source
Edit(s) ==
  /\ edits < MaxEdits
  /\ edits' = edits + 1
  /\ \E c \in Content \cup {Null} : c # disk[s] /\ disk' = [disk EXCEPT ![s] = c]
  /\ UNCHANGED <<database, snaps, records, wiki, process, sub, worker, nbatch, faults>>

\* 300 s pass without a report on a running row
Elapse(i) ==
  /\ ~rows[i].stale
  /\ JQ!Age(i)
  /\ UNCHANGED <<pending, disk, snaps, records, wiki, process, sub, worker, bounds>>

-----------------------------------------------------------------------------
Init ==
  /\ JQ!QInit
  /\ pending = {} /\ disk = [s \in Source |-> Null] /\ snaps = {}
  /\ file = [s \in Source |-> Null] /\ pages = {}
  /\ head = [s \in Source |-> Null] /\ tree = head
  /\ lock = Null
  /\ mode = [p \in Proc |-> "down"]
  /\ keep = [p \in Proc |-> {}]
  /\ mem = [p \in Proc |-> [s \in Source |-> Null]]
  /\ sub = [p \in Proc |-> NoSub]
  /\ phase = [p \in Proc |-> "idle"]
  /\ result = [p \in Proc |-> "none"]
  /\ done = [p \in Proc |-> 0]
  /\ ahead = {}
  /\ nbatch = 0 /\ edits = 0 /\ faults = 0

Lifecycle(p) ==
  Construct(p) \/ Sweep(p) \/ Start(p) \/ Refused(p) \/ Close(p)

Submission(p) ==
  Inspect(p) \/ Capture(p) \/ Enqueue(p) \/ RetryBroken(p) \/ RetryEnqueue(p)

WorkerStep(p) ==
  \/ Begin(p) \/ Report(p) \/ WritePages(p)
  \/ CompileSucceeds(p) \/ DeleteSucceeds(p)
  \/ \E r \in {"ingest_error", "raised"} : HandlerFails(p, r)
  \/ Settle(p) \/ Book(p) \/ BookingFails(p) \/ DropBatch(p)

Next ==
  \/ \E p \in Proc :
       \/ Lifecycle(p) \/ CloseCompiling(p) \/ Crash(p)
       \/ Submission(p) \/ \E s \in Source : RetryCapture(p, s)
       \/ WorkerStep(p)
  \/ \E s \in Source : Edit(s)
  \/ \E i \in DOMAIN rows : Elapse(i)

Spec == Init /\ [][Next]_vars

-----------------------------------------------------------------------------
\* Shapes only: every variable within its values.
TypeOK ==
  /\ JQ!QTypeOK
  /\ pending \subseteq Source /\ pages \subseteq Source /\ ahead \subseteq Source
  /\ disk \in Recorded /\ file \in Recorded /\ mem \in [Proc -> Recorded]
  /\ snaps \subseteq Batch /\ keep \in [Proc -> SUBSET Batch]
  /\ head \in [Source -> Content \cup {Null, Partial}]
  /\ tree \in [Source -> Content \cup {Null, Partial}]
  /\ lock \in Proc \cup {Null}
  /\ mode \in [Proc -> {"down", "sweeping", "built", "up"}]
  /\ sub \in [Proc -> SubState]
  /\ phase \in [Proc -> Phase]
  /\ result \in [Proc -> Result]
  /\ done \in [Proc -> 0..MaxRows]
  /\ nbatch \in 0..MaxBatches /\ edits \in 0..MaxEdits /\ faults \in 0..MaxFaults

\* HEAD never holds the pages of an unfinished compile or cleanup, whichever
\* job commits next and however the unfinished one ended: commit_all takes the
\* whole working tree, so only the resets keep foreign work out of it.
HeadWhole == \A s \in Source : head[s] # Partial

\* A commit carries the pages of the row that made it and of no other source
\* (exec_lock.py: a second writer would take foreign pages into its commit).
OwnCommitOnly ==
  [][head' # head =>
       \E p \in Proc : /\ exec[p] # 0
                       /\ head' = [head EXCEPT ![Subject(p)] = head'[Subject(p)]]
                       /\ head'[Subject(p)] = Job(p).payload.digest]_vars

\* The lock has one holder, and whoever runs a row or a submission is it.
ExclusiveWriter ==
  \A p \in Proc : (~Idle(p) \/ exec[p] # 0) => lock = p

\* A queued or running compile finds its copy (sync/coordinator.py:55: copy
\* first, then queue, so a task that exists has its input).
InputPresent == \A i \in Live : rows[i].kind = "compile" => BatchOf(i) \in snaps

\* A process at rest has no snapshot directory that no row needs any more:
\* refused submissions, failed rows, cancellations and crashes leave nothing.
NoLeftoverCopies ==
  \A p \in Proc : mode[p] = "up" /\ Idle(p) => snaps \subseteq LiveBatches

Quiet == Live = {} /\ \A p \in Proc : Idle(p)

\* what the next sync of p would leave alone
UpToDate(p, s) == mode[p] = "up" /\ mem[p][s] = disk[s]

\* When nothing is in flight and a sync would not touch a source, the wiki has
\* the source's present content, or its last commit was never recorded.
QuietMeansConverged ==
  Quiet => \A p \in Proc, s \in Source : UpToDate(p, s) => head[s] = disk[s] \/ s \in ahead

\* A commit stays unrecorded only after a crash or a failed write of the record.
RecordedAtRest ==
  Live = {} /\ faults = 0 /\ (\E p \in Proc : mode[p] = "up" /\ Idle(p)) => ahead = {}

\* What handlers.py:269-270 says of a crash: the work is done again, and no
\* content is lost.  A source a sync would not touch is in the wiki as it is.
CrashOnlyRedoes ==
  Quiet => \A p \in Proc, s \in Source : UpToDate(p, s) => head[s] = disk[s]

\* What queue_pump.py:18-19 says of entering the pump: the running rows a dead
\* process left behind are recovered first, or the queue could not be drained.
StartRecoversAll ==
  [][\A p \in Proc : mode[p] = "built" /\ mode'[p] = "up" =>
       \A i \in DOMAIN rows' : rows'[i].status # "running"]_vars

-----------------------------------------------------------------------------
\* The server or sync.py is run again and again, and pumps until nothing is left
\* to claim; retry_failures.py only a number of times, as it need not pump.  A
\* compile ends; the 300 s of a row without a worker pass.
Fairness ==
  /\ \A p \in Proc : /\ WF_vars(Lifecycle(p))
                     /\ WF_vars(Capture(p) \/ Enqueue(p) \/ RetryEnqueue(p))
                     /\ WF_vars(Begin(p))
                     /\ WF_vars(CompileSucceeds(p) \/ DeleteSucceeds(p)
                                \/ \E r \in {"ingest_error", "raised"} : HandlerFails(p, r))
                     /\ WF_vars(Settle(p) \/ Book(p) \/ DropBatch(p))
  /\ \A i \in 1..MaxRows : WF_vars(i \in DOMAIN rows /\ Elapse(i))

FairSpec == Spec /\ Fairness

\* A queued row ends, through crashes, stops and recoveries.
EveryRowEnds ==
  \A i \in 1..MaxRows : (i \in Live) ~> (i \in DOMAIN rows /\ rows[i].status \in JQ!Terminal)
==============================================================================
