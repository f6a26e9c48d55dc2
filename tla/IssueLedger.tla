----------------------------- MODULE IssueLedger ------------------------------
(***************************************************************************)
(* The issues table: failure records of sources, findings of the quality   *)
(* scan, corrections reported by the user, and the repair records that     *)
(* accepted corrections turn into.  A record is its fingerprint: a report  *)
(* with the same fingerprint merges into it (issues/store.py).             *)
(*                                                                         *)
(* The process that holds the execution lock (Owner) serves requests and   *)
(* runs jobs on one event loop, so its operations never overlap; they are  *)
(* still several transactions, and it may die between two of them.  Every  *)
(* other process that constructs an AppRuntime (Visitor) reconciles the    *)
(* retry inputs in its constructor, without the lock, and so between any   *)
(* two transactions of the owner.                                          *)
(***************************************************************************)
EXTENDS Integers, FiniteSets

CONSTANTS
  Owner, Visitor,   \* the lock holder; the processes being constructed
  Source, Stage,    \* source files; stages of ingestion that can fail
  Page,             \* wiki pages the scan may complain about
  Correction,       \* corrections the user may report
  NoIssue,
  MaxHits,          \* bound: occurrences of a finding
  MaxActs,          \* bound: user requests and edits
  MaxFaults         \* bound: deaths of a process

ASSUME LedgerAssumption ==
  /\ Owner \notin Visitor
  /\ MaxHits \in Nat /\ MaxActs \in Nat /\ MaxFaults \in Nat

\* the fingerprints, by kind of record
Failure == [kind : {"failure"}, source : Source, stage : Stage]
Finding == [kind : {"finding"}, page : Page]
Report  == [kind : {"correction"}, of : Correction]
Repair  == [kind : {"repair"}, of : Correction]
Quality == Finding \cup Repair      \* both are quality_issue records
Issue   == Failure \cup Report \cup Quality
RepairOf(c) == [kind |-> "repair", of |-> c.of]

VARIABLES
  status,   \* status of each record, "none" before its first report
  ruling,   \* who wrote its resolution
  flagged,  \* failure records with retry.unavailable_reason
  hits,     \* occurrences of the quality records
  row,      \* the row of each source that is queued or running
  link,     \* the record that row was submitted for
  rescans,  \* quality records with a rescan row in flight
  present,  \* source files on disk
  recorded, \* sources with a record of completed work
  defects,  \* pages the scan would complain about now
  task,     \* what each process is in the middle of
  last,     \* history: how the last row of each source ended
  revived,  \* history: failure records made active by other than a failure
  acts, faults

books == <<status, ruling, flagged, hits>>
queue == <<row, link, rescans>>
world == <<present, recorded, defects>>
vars == <<books, queue, world, task, last, revived, acts, faults>>

Actor == {Owner} \cup Visitor
Active(i) == status[i] \in {"open", "blocked"}
Terminal(i) == status[i] \in {"resolved", "dismissed"}
FailuresOf(s) == {f \in Failure : f.source = s}

-----------------------------------------------------------------------------
(* The store: one transaction each                                         *)

AllowedTo(from) ==
  CASE from = "open" -> {"open", "blocked", "resolved", "dismissed"}
    [] from = "blocked" -> {"open", "blocked", "resolved", "dismissed"}
    [] from = "resolved" -> {"resolved", "open"}
    [] from = "dismissed" -> {"dismissed", "open"}
    [] OTHER -> {}

\* transition without a resolution keeps the one the record has
Move(i, to) ==
  /\ to \in AllowedTo(status[i])
  /\ status' = [status EXCEPT ![i] = to]
  /\ UNCHANGED ruling

\* transition with a resolution
Rule(S, to, by) ==
  /\ \A i \in S : to \in AllowedTo(status[i])
  /\ status' = [i \in Issue |-> IF i \in S THEN to ELSE status[i]]
  /\ ruling' = [i \in Issue |-> IF i \in S THEN by ELSE ruling[i]]

\* report: a new record, or a merge that reopens a terminal one
Reported(i) == IF status[i] = "blocked" THEN "blocked" ELSE "open"
Enter(i) ==
  /\ status' = [status EXCEPT ![i] = Reported(i)]
  /\ ruling' = [ruling EXCEPT ![i] = IF Active(i) THEN @ ELSE "none"]
  /\ hits' = [q \in Quality |-> hits[q] + IF q = i THEN 1 ELSE 0]

CanEnter(i) == i \in Quality => hits[i] < MaxHits

-----------------------------------------------------------------------------
(* Tasks: what a process has read and will still do                        *)

Idle == [do |-> "idle"]
NoFlip == [part |-> "none"]
Flip == {NoFlip}
        \cup [part : {"payload", "status"}, issue : Failure, missing : BOOLEAN,
              seen : {"open", "blocked", "resolved", "dismissed"}]
Reconciling == [do : {"reconcile"}, todo : SUBSET Failure, known : SUBSET Failure, flip : Flip]
Retrying == [do : {"retry"}, todo : SUBSET Failure, ready : SUBSET Failure, flip : Flip]
Accepting == [do : {"accept"}, issue : Report]
Rescanning == [do : {"rescan"}, issue : Quality, before : 0..MaxHits, found : SUBSET Page,
               left : SUBSET Page]
Task == {Idle} \cup Reconciling \cup Retrying \cup Accepting \cup Rescanning

Free(a) == task[a] = Idle
Drop(a) == task' = [task EXCEPT ![a] = Idle]

\* a user's request or an edit reaches the owner between two operations
Ask ==
  /\ Free(Owner) /\ acts < MaxActs
  /\ acts' = acts + 1

-----------------------------------------------------------------------------
(* Rows of the sources: sync, retry and their outcomes                     *)

\* submit_sync closes the records of sources that are gone for good, and
\* queues the differences; refused while a row of a source is in flight
Busy == \E s \in Source : row[s] # "none"
SubmitSync ==
  /\ Ask /\ ~Busy
  /\ LET gone == {f \in Failure : Active(f) /\ f.source \notin present \cup recorded}
     IN Rule(gone, "resolved", "vanished")
  /\ \E dirty \in SUBSET present :
       row' = [s \in Source |-> IF s \in dirty THEN "compile"
                                ELSE IF s \in recorded \ present THEN "delete" ELSE "none"]
  /\ UNCHANGED <<flagged, hits, link, rescans, world, task, last, revived, faults>>

\* the row of s ends well: every pending failure of s is resolved, not only the
\* one the row was submitted for
LinkedOnly(s) == FailuresOf(s) \cap {link[s]}
Settled(s) == {f \in FailuresOf(s) : Active(f)}
StillLinked(s) == link
Unlinked(s) == [link EXCEPT ![s] = NoIssue]
RowSucceeds(s) ==
  /\ Free(Owner) /\ row[s] # "none"
  /\ Rule(Settled(s), "resolved", "job")
  /\ recorded' = IF row[s] = "delete" THEN recorded \ {s} ELSE recorded \cup {s}
  /\ last' = [last EXCEPT ![s] = "ok"]
  /\ row' = [row EXCEPT ![s] = "none"]
  /\ link' = Unlinked(s)
  /\ revived' = revived \ Settled(s)
  /\ UNCHANGED <<flagged, hits, rescans, present, defects, task, acts, faults>>

\* the compile of s fails at a stage: report_failure keeps the flag
RowFails(s, stage) ==
  /\ Free(Owner) /\ row[s] = "compile"
  /\ LET f == [kind |-> "failure", source |-> s, stage |-> stage]
     IN Enter(f) /\ revived' = revived \ {f}
  /\ last' = [last EXCEPT ![s] = "failed"]
  /\ row' = [row EXCEPT ![s] = "none"]
  /\ link' = Unlinked(s)
  /\ UNCHANGED <<flagged, rescans, world, task, acts, faults>>

\* the row ends with a failure no issue rule is registered for, or cancelled
RowVoid(s) ==
  /\ Free(Owner) /\ row[s] # "none"
  /\ row' = [row EXCEPT ![s] = "none"]
  /\ link' = Unlinked(s)
  /\ UNCHANGED <<books, rescans, world, task, last, revived, acts, faults>>

\* submit_issue_retry_batch: one record after the other is checked and probed
RetryBatch(S) ==
  /\ Ask
  /\ task' = [task EXCEPT ![Owner] = [do |-> "retry", todo |-> S, ready |-> {}, flip |-> NoFlip]]
  /\ UNCHANGED <<books, queue, world, last, revived, faults>>

\* ... then, in one transaction, every record gets the row of its source that
\* is in flight, or a new one unless other rows were in flight before
QueueRetries ==
  /\ task[Owner].do = "retry"
  /\ task[Owner].todo = {} /\ task[Owner].flip = NoFlip
  /\ LET ready == {f \in task[Owner].ready : \A s \in Source : link[s] # f}
         fresh == {s \in Source : row[s] = "none" /\ \E f \in ready : f.source = s}
     IN IF Busy /\ fresh # {}
        THEN UNCHANGED <<row, link>>
        ELSE /\ row' = [s \in Source |-> IF s \in fresh THEN "compile" ELSE row[s]]
             /\ \E pick \in [Source -> ready \cup {NoIssue}] :
                  /\ \A s \in Source :
                       IF link[s] = NoIssue /\ \E f \in ready : f.source = s
                       THEN pick[s] \in ready /\ pick[s].source = s
                       ELSE pick[s] = NoIssue
                  /\ link' = [s \in Source |-> IF pick[s] # NoIssue THEN pick[s] ELSE link[s]]
  /\ Drop(Owner)
  /\ UNCHANGED <<books, rescans, world, last, revived, acts, faults>>

-----------------------------------------------------------------------------
(* Retry inputs: probe, flag, unflag                                       *)

\* reconcile_retry_sources lists the active failure records; the constructor
\* of every process does it, and so does every look at the retry candidates
Reconcile(a) ==
  /\ Free(a) /\ acts < MaxActs
  /\ acts' = acts + 1
  /\ LET listed == {f \in Failure : Active(f)}
     IN task' = [task EXCEPT ![a] = [do |-> "reconcile", todo |-> listed,
                                     known |-> listed \cap flagged, flip |-> NoFlip]]
  /\ UNCHANGED <<books, queue, world, last, revived, faults>>

\* resolve_retry_source: the recorded path is no file any more
Missing(f) == f.source \notin present

\* the next record: the file is probed, and if the mark is wrong the record is
\* read again to change it
Starting(f, missing) ==
  [part |-> "payload", issue |-> f, missing |-> missing, seen |-> status[f]]
Probe(a, f) ==
  /\ task[a].do = "reconcile" /\ task[a].flip = NoFlip /\ f \in task[a].todo
  /\ LET missing == Missing(f)
         wrong == missing # (f \in task[a].known) /\ (missing \/ f \in flagged)
     IN task' = [task EXCEPT ![a] =
          [do |-> "reconcile", todo |-> task[a].todo \ {f}, known |-> task[a].known,
           flip |-> IF wrong THEN Starting(f, missing) ELSE NoFlip]]
  /\ UNCHANGED <<books, queue, world, last, revived, acts, faults>>

\* a record of a retry: not active is a refusal, a missing file flags it and
\* refuses the batch, a file that is back unflags it
ProbeRetry(f) ==
  /\ task[Owner].do = "retry" /\ task[Owner].flip = NoFlip /\ f \in task[Owner].todo
  /\ LET missing == Missing(f)
         flip == IF missing \/ f \in flagged THEN Starting(f, missing) ELSE NoFlip
     IN task' = [task EXCEPT ![Owner] =
          IF ~Active(f) THEN Idle
          ELSE [do |-> "retry", todo |-> IF missing THEN {} ELSE task[Owner].todo \ {f},
                ready |-> IF missing THEN {} ELSE task[Owner].ready \cup {f}, flip |-> flip]]
  /\ UNCHANGED <<books, queue, world, last, revived, acts, faults>>

\* update_payloads, the first transaction of mark_ and clear_retry_unavailable
WriteFlag(a) ==
  /\ task[a].do \in {"reconcile", "retry"} /\ task[a].flip.part = "payload"
  /\ LET f == task[a].flip.issue
     IN flagged' = IF task[a].flip.missing THEN flagged \cup {f} ELSE flagged \ {f}
  /\ task' = [task EXCEPT ![a].flip.part = "status"]
  /\ UNCHANGED <<status, ruling, hits, queue, world, last, revived, acts, faults>>

\* the second one moves the status, by what was read before the first one;
\* a status that does not allow the move raises out of the operation
StatusFor(flip) == IF flip.missing THEN "blocked" ELSE "open"
MovesAny(flip) == {"open", "blocked", "resolved", "dismissed"}
MovesFrom(flip) == IF flip.missing THEN {"open"} ELSE {"blocked"}
WriteStatus(a) ==
  /\ task[a].do \in {"reconcile", "retry"} /\ task[a].flip.part = "status"
  /\ LET flip == task[a].flip
         f == flip.issue
         moves == flip.seen \in MovesFrom(flip)
         raises == moves /\ StatusFor(flip) \notin AllowedTo(status[f])
     IN /\ IF moves /\ ~raises
           THEN /\ Move(f, StatusFor(flip))
                /\ revived' = IF Terminal(f) THEN revived \cup {f} ELSE revived
           ELSE UNCHANGED <<status, ruling, revived>>
        /\ task' = [task EXCEPT ![a] =
             IF raises \/ (task[a].do = "retry" /\ flip.missing)
             THEN Idle ELSE [@ EXCEPT !.flip = NoFlip]]
  /\ UNCHANGED <<flagged, hits, queue, world, last, acts, faults>>

ReconcileEnds(a) ==
  /\ task[a].do = "reconcile" /\ task[a].todo = {} /\ task[a].flip = NoFlip
  /\ Drop(a)
  /\ UNCHANGED <<books, queue, world, last, revived, acts, faults>>

-----------------------------------------------------------------------------
(* The user's decisions                                                    *)

Dismiss(i) ==
  /\ Ask /\ Active(i)
  /\ Rule({i}, "dismissed", "user")
  /\ UNCHANGED <<flagged, hits, queue, world, task, last, revived, faults>>

Reopen(i) ==
  /\ Ask /\ Terminal(i)
  /\ Rule({i}, "open", "none")
  /\ revived' = IF i \in Failure THEN revived \cup {i} ELSE revived
  /\ UNCHANGED <<flagged, hits, queue, world, task, last, faults>>

FalsePositive(q) ==
  /\ Ask /\ Active(q)
  /\ Rule({q}, "dismissed", "user")
  /\ UNCHANGED <<flagged, hits, queue, world, task, last, revived, faults>>

\* RecordCorrection: every correction is a record of its own
ReportCorrection(c) ==
  /\ Ask /\ status[c] = "none"
  /\ Enter(c)
  /\ UNCHANGED <<flagged, queue, world, task, last, revived, faults>>

Reject(c) ==
  /\ Ask /\ Active(c)
  /\ Rule({c}, "resolved", "user")
  /\ UNCHANGED <<flagged, hits, queue, world, task, last, revived, faults>>

KeepUncertain(c) ==
  /\ Ask /\ Active(c)
  /\ Rule({c}, "blocked", "user")
  /\ UNCHANGED <<flagged, hits, queue, world, task, last, revived, faults>>

\* (the other order, resolve first)
AcceptFirst(c) ==
  /\ Ask /\ Active(c)
  /\ Rule({c}, "resolved", "accept")
  /\ task' = [task EXCEPT ![Owner] = [do |-> "accept", issue |-> c]]
  /\ UNCHANGED <<flagged, hits, queue, world, last, revived, faults>>
\* accepting reports a repair record and then resolves the correction, if it
\* is still active
Accept(c) ==
  /\ Ask /\ Active(c) /\ CanEnter(RepairOf(c))
  /\ Enter(RepairOf(c))
  /\ task' = [task EXCEPT ![Owner] = [do |-> "accept", issue |-> c]]
  /\ UNCHANGED <<flagged, queue, world, last, revived, faults>>

ResolveAccepted ==
  /\ task[Owner].do = "accept"
  /\ LET c == task[Owner].issue
     IN IF Active(c) THEN Rule({c}, "resolved", "accept") ELSE UNCHANGED <<status, ruling>>
  /\ Drop(Owner)
  /\ UNCHANGED <<flagged, hits, queue, world, last, revived, acts, faults>>

-----------------------------------------------------------------------------
(* Rescan: a row of its own, outside the gate of the wiki writers          *)

RequestRescan(q) ==
  /\ Ask /\ Active(q)
  /\ rescans' = rescans \cup {q}
  /\ UNCHANGED <<books, row, link, world, task, last, revived, faults>>

\* the row starts: the action must still be allowed, else the row fails
StartRescan(q) ==
  /\ Free(Owner) /\ q \in rescans
  /\ IF Active(q)
     THEN /\ task' = [task EXCEPT ![Owner] =
               [do |-> "rescan", issue |-> q, before |-> hits[q],
                found |-> defects, left |-> defects]]
          /\ UNCHANGED rescans
     ELSE /\ rescans' = rescans \ {q}
          /\ UNCHANGED task
  /\ UNCHANGED <<books, row, link, world, last, revived, acts, faults>>

\* each finding is reported in a transaction of its own
ReportFinding(p) ==
  /\ task[Owner].do = "rescan" /\ p \in task[Owner].left
  /\ CanEnter([kind |-> "finding", page |-> p])
  /\ Enter([kind |-> "finding", page |-> p])
  /\ task' = [task EXCEPT ![Owner].left = @ \ {p}]
  /\ UNCHANGED <<flagged, queue, world, last, revived, acts, faults>>

NeverGone(q, before) == hits[q] >= before
StillPresent(q, before) == hits[q] > before
Verdict(q, before) == IF StillPresent(q, before) THEN "blocked" ELSE "resolved"

\* the row ends, and its verdict with it, unless a person has decided
EndRescan ==
  /\ task[Owner].do = "rescan" /\ task[Owner].left = {}
  /\ LET q == task[Owner].issue
     IN /\ rescans' = rescans \ {q}
        /\ IF Active(q)
           THEN Rule({q}, Verdict(q, task[Owner].before), "rescan")
           ELSE UNCHANGED <<status, ruling>>
  /\ Drop(Owner)
  /\ UNCHANGED <<flagged, hits, row, link, world, last, revived, acts, faults>>

\* scripts/sync.py ends with a scan of its own
ScanAtEnd(p) ==
  /\ Ask /\ ~Busy /\ p \in defects
  /\ CanEnter([kind |-> "finding", page |-> p])
  /\ Enter([kind |-> "finding", page |-> p])
  /\ UNCHANGED <<flagged, queue, world, task, last, revived, faults>>

-----------------------------------------------------------------------------
(* The surroundings                                                        *)

\* the user removes a file or puts it back, edits a page for better or worse
EditFile(s) ==
  /\ acts < MaxActs /\ acts' = acts + 1
  /\ present' = IF s \in present THEN present \ {s} ELSE present \cup {s}
  /\ UNCHANGED <<books, queue, recorded, defects, task, last, revived, faults>>
EditPage(p) ==
  /\ acts < MaxActs /\ acts' = acts + 1
  /\ defects' = IF p \in defects THEN defects \ {p} ELSE defects \cup {p}
  /\ UNCHANGED <<books, queue, present, recorded, task, last, revived, faults>>

\* a process dies; rows stay in the table and are recovered later
Crash(a) ==
  /\ ~Free(a) /\ faults < MaxFaults
  /\ faults' = faults + 1
  /\ Drop(a)
  /\ UNCHANGED <<books, queue, world, last, revived, acts>>

Init ==
  /\ status = [i \in Issue |-> "none"] /\ ruling = [i \in Issue |-> "none"]
  /\ flagged = {} /\ hits = [q \in Quality |-> 0]
  /\ row = [s \in Source |-> "none"] /\ link = [s \in Source |-> NoIssue]
  /\ rescans = {}
  /\ present = Source /\ recorded = {} /\ defects = Page
  /\ task = [a \in Actor |-> Idle]
  /\ last = [s \in Source |-> "none"] /\ revived = {}
  /\ acts = 0 /\ faults = 0

Next ==
  \/ SubmitSync \/ QueueRetries \/ ResolveAccepted \/ EndRescan
  \/ \E s \in Source :
       RowSucceeds(s) \/ RowVoid(s) \/ EditFile(s) \/ \E stage \in Stage : RowFails(s, stage)
  \/ \E S \in SUBSET Failure \ {{}} : RetryBatch(S)
  \/ \E f \in Failure : ProbeRetry(f) \/ \E a \in Actor : Probe(a, f)
  \/ \E a \in Actor :
       Reconcile(a) \/ WriteFlag(a) \/ WriteStatus(a) \/ ReconcileEnds(a) \/ Crash(a)
  \/ \E i \in Issue : Dismiss(i) \/ Reopen(i)
  \/ \E q \in Quality : FalsePositive(q) \/ RequestRescan(q) \/ StartRescan(q)
  \/ \E c \in Report : ReportCorrection(c) \/ Reject(c) \/ KeepUncertain(c) \/ Accept(c)
  \/ \E p \in Page : ReportFinding(p) \/ ScanAtEnd(p) \/ EditPage(p)

Spec == Init /\ [][Next]_vars

-----------------------------------------------------------------------------
(* Properties                                                              *)

\* Statuses, rulings, marks, rows and tasks have the shapes the code gives them.
ITypeOK ==
  /\ status \in [Issue -> {"none", "open", "blocked", "resolved", "dismissed"}]
  /\ ruling \in [Issue -> {"none", "job", "vanished", "rescan", "user", "accept"}]
  /\ flagged \subseteq Failure
  /\ hits \in [Quality -> 0..MaxHits]
  /\ row \in [Source -> {"none", "compile", "delete"}]
  /\ link \in [Source -> Failure \cup {NoIssue}]
  /\ \A s \in Source : link[s] # NoIssue => row[s] # "none" /\ link[s].source = s
  /\ rescans \subseteq Quality
  /\ present \subseteq Source /\ recorded \subseteq Source /\ defects \subseteq Page
  /\ task \in [Actor -> Task]
  /\ \A v \in Visitor : task[v].do \in {"idle", "reconcile"}
  /\ revived \subseteq Failure
  /\ last \in [Source -> {"none", "ok", "failed"}]
  /\ acts \in 0..MaxActs /\ faults \in 0..MaxFaults

\* The failure records tell how the last run of each source ended, whatever
\* stages failed in between and whoever marked, dismissed or retried them: an
\* active record means the last settled run failed (a reopened one aside), and
\* after a failed run there is a record, active or closed by the user or because
\* the source is gone.
FailuresOnBooks ==
  \A s \in Source :
    /\ \A f \in FailuresOf(s) \ revived : Active(f) => last[s] = "failed"
    /\ last[s] = "failed" =>
         \E f \in FailuresOf(s) : Active(f) \/ ruling[f] \in {"user", "vanished"}

\* A decision of the user that closed a record holds until the problem is
\* reported again, the user reopens the record, or a clearing of the unavailable
\* mark that read the record as blocked before the decision writes its status.
DecisionStands ==
  [][\A i \in Issue :
       Terminal(i) /\ ruling[i] = "user" /\ <<status[i], ruling[i]>>' # <<status[i], ruling[i]>> =>
         /\ status'[i] = "open"
         /\ \/ ruling'[i] = "none"
            \/ \E a \in Actor : /\ task[a].do \in {"reconcile", "retry"}
                               /\ task[a].flip.part = "status"
                               /\ task[a].flip.issue = i
                               /\ task[a].flip.seen = "blocked"]_vars

\* A correction that was resolved by accepting it left a repair record behind;
\* a death between the two transactions leaves the correction to be decided.
AcceptLeavesRepair ==
  \A c \in Report : ruling[c] = "accept" => status[RepairOf(c)] # "none"

\* A rescan resolves a finding exactly when the scan did not see it, also after
\* its row ran twice and with reports by other scans in between.
RescanSound ==
  [][\A p \in Page : LET q == [kind |-> "finding", page |-> p] IN
       task[Owner].do = "rescan" /\ task[Owner].issue = q /\ q \notin rescans' =>
         (status'[q] = "resolved" <=> p \notin task[Owner].found)]_vars

=============================================================================
