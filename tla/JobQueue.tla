------------------------------ MODULE JobQueue -------------------------------
(***************************************************************************)
(* The jobs table (queue/store.py) and the execution protocol around it    *)
(* (queue/queue.py, queue/worker.py): one SQLite transaction is one        *)
(* action.  Rows are never deleted and SQLite gives them increasing rowids *)
(* so a row is its position in `rows', and the claim order (created_at,    *)
(* then rowid) is the order of positions as long as the clock does not run *)
(* backwards.  What a handler does between its claim and its result is not *)
(* here: SyncPipeline composes this module with the handlers.              *)
(*                                                                         *)
(* A worker is one run of JobWorker.run_once.  The table knows no owner:   *)
(* recover_stale looks only at the age of a running row, so at this level  *)
(* a row can be executed again while its first worker still works on it.   *)
(***************************************************************************)
EXTENDS Integers, Sequences, FiniteSets

CONSTANTS
  Worker,      \* executions of run_once that can be going on at once
  Kind,        \* job types
  Registered,  \* Registered[w]: the kinds w has a handler for
  Resource,    \* what a row occupies: a source path, an issue, a page
  Key, NoKey,  \* idempotency keys, and the absence of one
  Payload,     \* what the handler is given
  MaxRows      \* bound: rows ever inserted

\* each worker has handlers for some kinds; NoKey is none of the keys
ASSUME QueueAssumption ==
  /\ Registered \in [Worker -> SUBSET Kind]
  /\ NoKey \notin Key
  /\ MaxRows \in Nat

VARIABLES
  rows,     \* the table
  exec,     \* exec[w]: the row w executes, 0 when it executes none
  journal   \* history: rows whose outcome was applied, oldest first

qvars == <<rows, exec, journal>>

InFlight == {"queued", "running"}
Terminal == {"succeeded", "failed", "cancelled"}

Request == [kind : Kind, resource : Resource, key : Key \cup {NoKey}, payload : Payload]

\* `stale': updated_at is more than 300 s old; `tried': attempts > 0
Row == [status : InFlight \cup Terminal, kind : Kind, resource : Resource,
        key : Key \cup {NoKey}, payload : Payload, stale : BOOLEAN, tried : BOOLEAN]

Live == {i \in DOMAIN rows : rows[i].status \in InFlight}

\* the row that occupies a resource, as a set of at most one
Occupants(r) == {i \in Live : rows[i].resource = r}

-----------------------------------------------------------------------------
NewRow(req) ==
  [status |-> "queued", kind |-> req.kind, resource |-> req.resource, key |-> req.key,
   payload |-> req.payload, stale |-> FALSE, tried |-> FALSE]

\* history rows give their key up to the new row, and are kept
ReleaseKey(row, reqs) ==
  IF row.key # NoKey /\ \E n \in DOMAIN reqs : reqs[n].key = row.key
  THEN [row EXCEPT !.key = NoKey] ELSE row

\* one request can be inserted: its key is held by no in-flight row (the store
\* would return that row instead) and its resource is free (unique index)
InsertableByKey(req) == req.key # NoKey => \A i \in Live : rows[i].key # req.key
Insertable(req) ==
  /\ req.key # NoKey => \A i \in Live : rows[i].key # req.key
  /\ Occupants(req.resource) = {}

\* One transaction inserts a sequence of requests.  It commits only if every
\* one can be inserted; a duplicate raises and rolls the whole batch back.  A
\* request whose key is in flight inserts nothing, so it is not in `reqs'.
Submit(reqs) ==
  /\ Len(reqs) > 0
  /\ Len(rows) + Len(reqs) <= MaxRows
  /\ \A n \in DOMAIN reqs : Insertable(reqs[n])
  /\ \A m, n \in DOMAIN reqs : m # n =>
       /\ reqs[m].resource # reqs[n].resource
       /\ reqs[m].key # NoKey => reqs[m].key # reqs[n].key
  /\ rows' = [i \in 1 .. Len(rows) + Len(reqs) |->
                IF i <= Len(rows) THEN ReleaseKey(rows[i], reqs)
                ELSE NewRow(reqs[i - Len(rows)])]
  /\ UNCHANGED <<exec, journal>>

-----------------------------------------------------------------------------
\* the update of a status: updated_at is refreshed with it, and the claim, the
\* only update to running, counts an attempt
Turn(row, status) ==
  [status |-> status, kind |-> row.kind, resource |-> row.resource, key |-> row.key,
   payload |-> row.payload, stale |-> FALSE, tried |-> row.tried \/ status = "running"]

\* i is the oldest queued row among the kinds w handles
AnyFor(w, i) == rows[i].status = "queued" /\ rows[i].kind \in Registered[w]
NextFor(w, i) ==
  /\ rows[i].status = "queued"
  /\ rows[i].kind \in Registered[w]
  /\ \A j \in 1..i-1 : ~(rows[j].status = "queued" /\ rows[j].kind \in Registered[w])

\* select the oldest row and flip it to running in one transaction; the
\* attempt is counted and updated_at refreshed
Claim(w) ==
  /\ exec[w] = 0
  /\ \E i \in DOMAIN rows :
       /\ NextFor(w, i)
       /\ rows' = [rows EXCEPT ![i] = Turn(rows[i], "running")]
       /\ exec' = [exec EXCEPT ![w] = i]
  /\ UNCHANGED journal

\* a progress report refreshes updated_at, whatever the status of the row
MarkStage(w) ==
  /\ exec[w] # 0
  /\ rows' = [rows EXCEPT ![exec[w]].stale = FALSE]
  /\ UNCHANGED <<exec, journal>>

\* the compare-and-set every end of a row goes through
WinsAlways(i) == TRUE
WinsRow(i) == rows[i].status = "running"

StageForStatus(i, status) ==
  rows' = IF WinsRow(i) THEN [rows EXCEPT ![i] = Turn(rows[i], "done")] ELSE rows
UpdateStatus(i, status) == rows' = [rows EXCEPT ![i] = Turn(rows[i], status)]
TryFinalize(i, status) ==
  rows' = IF WinsRow(i) THEN [rows EXCEPT ![i] = Turn(rows[i], status)] ELSE rows

\* the handler returned: flip the row and apply its outcome in one
\* transaction; a late result finds the row no longer running and is dropped
Finish(w, status) ==
  /\ exec[w] # 0
  /\ TryFinalize(exec[w], status)
  /\ journal' = IF WinsRow(exec[w]) THEN Append(journal, exec[w]) ELSE journal
  /\ exec' = [exec EXCEPT ![w] = 0]

\* the task of the worker was cancelled inside the handler: no outcome
Cancel(w) ==
  /\ exec[w] # 0
  /\ TryFinalize(exec[w], "cancelled")
  /\ exec' = [exec EXCEPT ![w] = 0]
  /\ UNCHANGED journal

-----------------------------------------------------------------------------
\* 300 s pass without a progress report
Age(i) ==
  /\ rows[i].status = "running"
  /\ rows' = [rows EXCEPT ![i].stale = TRUE]
  /\ UNCHANGED <<exec, journal>>

\* every running row that is too old goes back to the queue
NotRecovered(row) == row
Recovered(row) ==
  IF row.status = "running" /\ row.stale THEN Turn(row, "queued") ELSE row

RecoverStale ==
  /\ rows' = [i \in DOMAIN rows |-> Recovered(rows[i])]
  /\ UNCHANGED <<exec, journal>>

\* the process of the worker dies; its row stays as it is
Crash(w) ==
  /\ exec[w] # 0
  /\ exec' = [exec EXCEPT ![w] = 0]
  /\ UNCHANGED <<rows, journal>>

-----------------------------------------------------------------------------
QInit ==
  /\ rows = <<>>
  /\ exec = [w \in Worker |-> 0]
  /\ journal = <<>>

\* a transaction submits one request (issue actions, retries) or several
Batches == UNION {[1..n -> Request] : n \in 1..MaxRows}

QNext ==
  \/ \E reqs \in Batches : Submit(reqs)
  \/ \E w \in Worker :
       \/ Claim(w)
       \/ MarkStage(w)
       \/ Finish(w, "succeeded")
       \/ Finish(w, "failed")
       \/ Cancel(w)
       \/ Crash(w)
  \/ \E i \in DOMAIN rows : Age(i)
  \/ RecoverStale

QSpec == QInit /\ [][QNext]_qvars

-----------------------------------------------------------------------------
\* Shapes only: the table, the executions and the journal.
QTypeOK ==
  /\ rows \in Seq(Row)
  /\ Len(rows) <= MaxRows
  /\ exec \in [Worker -> 0..Len(rows)]
  /\ journal \in Seq(1..Len(rows))

\* A resource is occupied by at most one in-flight row, through inserts,
\* recoveries and late results (the promise of the partial unique index).
OneInFlightPerResource ==
  \A i, j \in Live : rows[i].resource = rows[j].resource => i = j

\* The outcome of a row is applied exactly once if it ended with a result and
\* never otherwise, however often it was claimed, recovered or executed.
SettledOnce ==
  /\ \A m, n \in DOMAIN journal : journal[m] = journal[n] => m = n
  /\ \A i \in DOMAIN rows :
       rows[i].status \in {"succeeded", "failed"} <=> \E n \in DOMAIN journal : journal[n] = i

\* every worker that handles the kind of row j handles the kind of row i
SharedWorkers(i, j) ==
  \A w \in Worker : rows[j].kind \in Registered[w] => rows[i].kind \in Registered[w]

\* Rows start in the order they were queued: a row was tried only after every
\* earlier row its workers also handle (the rowid tie-break of claim_next).
StartOrder ==
  \A i, j \in DOMAIN rows :
    (i < j /\ rows[j].tried /\ SharedWorkers(i, j)) => rows[i].tried

-----------------------------------------------------------------------------
\* the table as the abstract ledger sees it
VerdictOf(row) == IF row.status \in InFlight THEN "pending" ELSE row.status

Ledger == INSTANCE JobLedger WITH ledger <- [i \in DOMAIN rows |-> VerdictOf(rows[i])]

\* The table implements the ledger: no claim, recovery or late result shows.
ImplementsLedger == Ledger!LSpec
==============================================================================
