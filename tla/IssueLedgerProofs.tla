-------------------------- MODULE IssueLedgerProofs --------------------------
(***************************************************************************)
(* Proofs about IssueLedger for any sources, stages, pages, corrections,   *)
(* processes and bounds.                                                   *)
(***************************************************************************)
EXTENDS IssueLedger, TLAPS

\* What a process still has to look at was reported before.
TodoKnown ==
  \A a \in Actor : task[a].do = "reconcile" => \A f \in task[a].todo : status[f] # "none"

\* A correction that is being accepted has its repair record.
AcceptUnderWay ==
  task[Owner].do = "accept" => status[RepairOf(task[Owner].issue)] # "none"

\* While a rescan reports what it found, its issue stays active and its row in
\* the table, and its occurrences grow by the report about itself only.
RescanUnderWay ==
  task[Owner].do = "rescan" =>
    /\ task[Owner].issue \in rescans /\ Active(task[Owner].issue)
    /\ task[Owner].left \subseteq task[Owner].found
    /\ \A p \in Page : task[Owner].issue = [kind |-> "finding", page |-> p] =>
         hits[task[Owner].issue] =
           task[Owner].before + IF p \in task[Owner].found \ task[Owner].left THEN 1 ELSE 0

IInv == /\ ITypeOK /\ TodoKnown /\ FailuresOnBooks
        /\ AcceptLeavesRepair /\ AcceptUnderWay /\ RescanUnderWay

Status == {"none", "open", "blocked", "resolved", "dismissed"}
Ruling == {"none", "job", "vanished", "rescan", "user", "accept"}

\* The tables of the records, as far as their shape goes.
BooksOK(st, ru, hi) ==
  st \in [Issue -> Status] /\ ru \in [Issue -> Ruling] /\ hi \in [Quality -> 0 .. MaxHits]

-----------------------------------------------------------------------------
(* The fingerprints                                                        *)

\* The kinds of records have no fingerprint in common.
LEMMA KindsApart ==
  /\ \A f \in Failure : f \in Issue /\ f \notin Quality /\ f \notin Report /\ f.source \in Source
  /\ \A q \in Quality : q \in Issue /\ q \notin Failure /\ q \notin Report
  /\ \A c \in Report : c \in Issue /\ c \notin Failure /\ c \notin Quality
  /\ \A c \in Report : RepairOf(c) \in Quality
  /\ \A p \in Page : [kind |-> "finding", page |-> p] \in Quality
  /\ \A s \in Source, g \in Stage : [kind |-> "failure", source |-> s, stage |-> g] \in Failure
<1>1. \A f \in Failure : f.kind = "failure" /\ f.source \in Source
  BY DEF Failure
<1>2. \A q \in Quality : q.kind \in {"finding", "repair"}
  BY DEF Quality, Finding, Repair
<1>3. \A c \in Report : c.kind = "correction" /\ c.of \in Correction
  BY DEF Report
<1>4. \A c \in Report : RepairOf(c) \in Repair
  BY <1>3 DEF RepairOf, Repair
<1>5. \A p \in Page : [kind |-> "finding", page |-> p] \in Finding
  BY DEF Finding
<1>6. \A s \in Source, g \in Stage : [kind |-> "failure", source |-> s, stage |-> g] \in Failure
  BY DEF Failure
<1> QED BY <1>1, <1>2, <1>3, <1>4, <1>5, <1>6 DEF Issue, Quality

-----------------------------------------------------------------------------
(* What one transaction does to the records                                *)

\* A report makes its record active, takes a ruling away that closed it, counts
\* one more occurrence and touches no other record.
LEMMA EnterFacts ==
  ASSUME BooksOK(status, ruling, hits), NEW i \in Issue, CanEnter(i), Enter(i)
  PROVE  /\ BooksOK(status', ruling', hits')
         /\ status'[i] \in {"open", "blocked"}
         /\ Terminal(i) => status'[i] = "open" /\ ruling'[i] = "none"
         /\ \A j \in Issue : j # i => status'[j] = status[j] /\ ruling'[j] = ruling[j]
         /\ \A q \in Quality : hits'[q] = hits[q] + IF q = i THEN 1 ELSE 0
<1>1. /\ status' = [status EXCEPT ![i] = Reported(i)]
      /\ ruling' = [ruling EXCEPT ![i] = IF Active(i) THEN ruling[i] ELSE "none"]
      /\ hits' = [q \in Quality |-> hits[q] + IF q = i THEN 1 ELSE 0]
  BY DEF Enter
<1>2. Reported(i) \in {"open", "blocked"} /\ (Terminal(i) => Reported(i) = "open" /\ ~Active(i))
  BY DEF Reported, Terminal, Active
<1>3. status' \in [Issue -> Status] /\ ruling' \in [Issue -> Ruling]
  BY <1>1, <1>2 DEF BooksOK, Status, Ruling
<1>4. hits' \in [Quality -> 0 .. MaxHits]
  <2>1. \A q \in Quality : hits[q] + (IF q = i THEN 1 ELSE 0) \in 0 .. MaxHits
    BY LedgerAssumption DEF BooksOK, CanEnter
  <2> QED BY <1>1, <2>1
<1> QED BY <1>1, <1>2, <1>3, <1>4 DEF BooksOK

\* A transition with a resolution changes the records it names and no other.
LEMMA RuleFacts ==
  ASSUME BooksOK(status, ruling, hits), NEW S, NEW to \in Status \ {"none"}, NEW by \in Ruling,
         Rule(S, to, by)
  PROVE  /\ status' \in [Issue -> Status] /\ ruling' \in [Issue -> Ruling]
         /\ \A i \in Issue : i \in S => status'[i] = to /\ ruling'[i] = by
         /\ \A i \in Issue : i \notin S => status'[i] = status[i] /\ ruling'[i] = ruling[i]
  BY DEF Rule, BooksOK

\* A transition needs a record that exists and leads to where it is allowed.
LEMMA AllowedFacts ==
  ASSUME NEW from, NEW to \in AllowedTo(from)
  PROVE  /\ from \in {"open", "blocked", "resolved", "dismissed"}
         /\ to \in {"open", "blocked", "resolved", "dismissed"}
         /\ from \in {"resolved", "dismissed"} => to \in {from, "open"}
<1>1. CASE from = "open"
  BY <1>1 DEF AllowedTo
<1>2. CASE from = "blocked"
  BY <1>2 DEF AllowedTo
<1>3. CASE from = "resolved"
  BY <1>3 DEF AllowedTo
<1>4. CASE from = "dismissed"
  BY <1>4 DEF AllowedTo
<1>5. CASE from \notin {"open", "blocked", "resolved", "dismissed"}
  BY <1>5 DEF AllowedTo
<1> QED BY <1>1, <1>2, <1>3, <1>4, <1>5

-----------------------------------------------------------------------------
(* The tasks                                                               *)

\* What a process is in the middle of tells the shape of what it has read.
LEMMA TaskShape ==
  ASSUME NEW t \in Task
  PROVE  /\ t.do = "reconcile" => t \in Reconciling
         /\ t.do = "retry" => t \in Retrying
         /\ t.do = "accept" => t \in Accepting
         /\ t.do = "rescan" => t \in Rescanning
<1>1. Idle.do = "idle"
  BY DEF Idle
<1>2. \A r \in Reconciling : r.do = "reconcile"
  BY DEF Reconciling
<1>3. \A r \in Retrying : r.do = "retry"
  BY DEF Retrying
<1>4. \A r \in Accepting : r.do = "accept"
  BY DEF Accepting
<1>5. \A r \in Rescanning : r.do = "rescan"
  BY DEF Rescanning
<1> QED BY <1>1, <1>2, <1>3, <1>4, <1>5 DEF Task

\* Replacing the task of one process.
LEMMA TaskSet ==
  ASSUME ITypeOK, NEW a \in Actor, NEW t \in Task, task' = [task EXCEPT ![a] = t],
         a \in Visitor => t.do \in {"idle", "reconcile"}
  PROVE  /\ task' \in [Actor -> Task] /\ task'[a] = t
         /\ \A b \in Actor : b # a => task'[b] = task[b]
         /\ \A v \in Visitor : task'[v].do \in {"idle", "reconcile"}
  BY DEF ITypeOK, Actor

\* The flip that a probe starts.
LEMMA FlipShape ==
  ASSUME ITypeOK, NEW f \in Failure, status[f] # "none", NEW missing \in BOOLEAN
  PROVE  Starting(f, missing) \in Flip
<1>1. status[f] \in {"open", "blocked", "resolved", "dismissed"}
  BY KindsApart DEF ITypeOK
<1> QED BY <1>1 DEF Starting, Flip

\* The steps that look at one record leave a task of the same kind, or none.
LEMMA ProbeTask ==
  ASSUME ITypeOK, TodoKnown, NEW a \in Actor, NEW f \in Failure, Probe(a, f)
  PROVE  \E flip \in Flip :
           task' = [task EXCEPT ![a] = [do |-> "reconcile", todo |-> task[a].todo \ {f},
                                        known |-> task[a].known, flip |-> flip]]
<1> DEFINE missing == Missing(f)
           wrong == missing # (f \in task[a].known) /\ (missing \/ f \in flagged)
           flip == IF wrong THEN Starting(f, missing) ELSE NoFlip
           t == [do |-> "reconcile", todo |-> task[a].todo \ {f}, known |-> task[a].known,
                 flip |-> flip]
<1>1. task[a] \in Reconciling
  BY TaskShape DEF Probe, ITypeOK
<1>2. status[f] # "none"
  BY DEF Probe, TodoKnown
<1>3. flip \in Flip
  BY <1>2, FlipShape DEF Missing, Flip
<1> QED BY <1>3 DEF Probe

\* The first look at a failure to retry moves only its owner.
LEMMA ProbeRetryTask ==
  ASSUME ITypeOK, NEW f \in Failure, ProbeRetry(f)
  PROVE  \E t \in {Idle} \cup Retrying : task' = [task EXCEPT ![Owner] = t]
<1> DEFINE missing == Missing(f)
           flip == IF missing \/ f \in flagged THEN Starting(f, missing) ELSE NoFlip
           t == [do |-> "retry", todo |-> IF missing THEN {} ELSE task[Owner].todo \ {f},
                 ready |-> IF missing THEN {} ELSE task[Owner].ready \cup {f}, flip |-> flip]
<1>1. task[Owner] \in Retrying
  BY TaskShape DEF ProbeRetry, ITypeOK, Actor
<1>2. CASE ~Active(f)
  BY <1>2 DEF ProbeRetry
<1>3. CASE Active(f)
  <2>1. status[f] # "none"
    BY <1>3 DEF Active
  <2>2. flip \in Flip
    BY <2>1, FlipShape DEF Missing, Flip
  <2>3. t \in Retrying
    BY <1>1, <2>2 DEF Retrying
  <2>4. task' = [task EXCEPT ![Owner] = t]
    BY <1>3 DEF ProbeRetry
  <2> QED BY <2>3, <2>4
<1> QED BY <1>2, <1>3

\* The two transactions of a flip go on with the same records to look at.
LEMMA WriteFlagTask ==
  ASSUME ITypeOK, NEW a \in Actor, WriteFlag(a)
  PROVE  \E t \in Reconciling \cup Retrying :
           /\ task' = [task EXCEPT ![a] = t]
           /\ t.do = task[a].do /\ t.todo = task[a].todo
<1> DEFINE flip == [task[a].flip EXCEPT !.part = "status"]
           t == [task[a] EXCEPT !.flip = flip]
<1>1. task[a] \in Reconciling \cup Retrying /\ task[a].flip.part = "payload"
  BY TaskShape DEF WriteFlag, ITypeOK
<1>2. task[a].flip \in Flip
  BY <1>1 DEF Reconciling, Retrying
<1>3. flip \in Flip
  BY <1>1, <1>2 DEF Flip, NoFlip
<1>4. t \in Reconciling \cup Retrying /\ t.do = task[a].do /\ t.todo = task[a].todo
  BY <1>1, <1>3 DEF Reconciling, Retrying
<1>5. task' = [task EXCEPT ![a] = t]
  BY DEF WriteFlag
<1> QED BY <1>4, <1>5

\* Writing a status moves its actor on.
LEMMA WriteStatusTask ==
  ASSUME ITypeOK, NEW a \in Actor, WriteStatus(a)
  PROVE  \E t \in {Idle} \cup Reconciling \cup Retrying :
           /\ task' = [task EXCEPT ![a] = t]
           /\ t = Idle \/ (t.do = task[a].do /\ t.todo = task[a].todo)
<1> DEFINE t == [task[a] EXCEPT !.flip = NoFlip]
<1>1. task[a] \in Reconciling \cup Retrying
  BY TaskShape DEF WriteStatus, ITypeOK
<1>2. t \in Reconciling \cup Retrying /\ t.do = task[a].do /\ t.todo = task[a].todo
  BY <1>1 DEF Reconciling, Retrying, Flip
<1>3. task' = [task EXCEPT ![a] = t] \/ task' = [task EXCEPT ![a] = Idle]
  BY DEF WriteStatus
<1> QED BY <1>2, <1>3

-----------------------------------------------------------------------------
(* The steps, by what they do to the records                               *)

\* A report of something that is no failure of a source.
Reporting ==
  \E i \in Issue \ Failure : CanEnter(i) /\ Enter(i) /\ UNCHANGED <<last, revived>>

\* A ruling on active records; failures are closed by the user or because the
\* source is gone, and only the second half of accepting rules "accept".
Closing ==
  \E S \in SUBSET {i \in Issue : Active(i)}, to \in {"blocked", "resolved", "dismissed"},
     by \in Ruling \ {"none"} :
       /\ Rule(S, to, by) /\ UNCHANGED <<hits, last, revived>>
       /\ \A f \in S \cap Failure : by \in {"user", "vanished"}
       /\ by = "accept" => ResolveAccepted /\ S = {task[Owner].issue}

\* The second transaction of a flip moves its record.
Flipping ==
  \E a \in Actor :
    /\ WriteStatus(a)
    /\ Move(task[a].flip.issue, StatusFor(task[a].flip))
    /\ task[a].flip.issue \in Failure /\ task[a].flip.missing \in BOOLEAN
    /\ task[a].flip.seen \in MovesFrom(task[a].flip)
    /\ revived' = IF Terminal(task[a].flip.issue) THEN revived \cup {task[a].flip.issue}
                  ELSE revived
    /\ UNCHANGED <<hits, last>>

\* Every step reports, rules, reopens, flips, ends a row, or leaves the records.
LEMMA RecordMoves ==
  ASSUME ITypeOK, [Next]_vars
  PROVE  \/ UNCHANGED <<status, ruling, hits, last, revived>>
         \/ Reporting \/ Closing \/ Flipping
         \/ \E i \in Issue : Reopen(i)
         \/ \E s \in Source : RowSucceeds(s) \/ \E stage \in Stage : RowFails(s, stage)
<1> DEFINE Goal == \/ UNCHANGED <<status, ruling, hits, last, revived>>
                   \/ Reporting \/ Closing \/ Flipping
                   \/ \E i \in Issue : Reopen(i)
                   \/ \E s \in Source : RowSucceeds(s) \/ \E stage \in Stage : RowFails(s, stage)
<1> SUFFICES Goal
  OBVIOUS
<1>0. {"job", "vanished", "rescan", "user", "accept"} = Ruling \ {"none"}
  BY DEF Ruling
<1>1. CASE SubmitSync
  <2> DEFINE gone == {f \in Failure : Active(f) /\ f.source \notin present \cup recorded}
  <2>1. Rule(gone, "resolved", "vanished") /\ UNCHANGED <<hits, last, revived>>
    BY <1>1 DEF SubmitSync, Ask
  <2>2. gone \in SUBSET {i \in Issue : Active(i)}
    BY KindsApart
  <2> HIDE DEF gone
  <2>3. Closing
    BY <1>0, <2>1, <2>2 DEF Closing
  <2> QED BY <2>3
<1>2. ASSUME NEW i \in Issue, Dismiss(i) \/ (i \in Quality /\ FalsePositive(i))
                                \/ (i \in Report /\ (Reject(i) \/ KeepUncertain(i)))
      PROVE  Goal
  <2>1. \E to \in {"blocked", "resolved", "dismissed"} : Rule({i}, to, "user")
    BY <1>2 DEF Dismiss, FalsePositive, Reject, KeepUncertain
  <2>2. Active(i) /\ UNCHANGED <<hits, last, revived>>
    BY <1>2 DEF Dismiss, FalsePositive, Reject, KeepUncertain, Ask
  <2>3. {i} \in SUBSET {j \in Issue : Active(j)}
    BY <2>2
  <2>4. Closing
    BY <1>0, <2>1, <2>2, <2>3 DEF Closing
  <2> QED BY <2>4
<1>3. CASE ResolveAccepted
  <2> DEFINE c == task[Owner].issue
  <2>1. task[Owner].do = "accept" /\ task[Owner] \in Task /\ UNCHANGED <<hits, last, revived>>
    BY <1>3 DEF ResolveAccepted, ITypeOK, Actor
  <2>2. c \in Report
    BY <2>1, TaskShape DEF Accepting
  <2>3. CASE ~Active(c)
    BY <1>3, <2>1, <2>3 DEF ResolveAccepted
  <2>4. CASE Active(c)
    <3>1. Rule({c}, "resolved", "accept")
      BY <1>3, <2>4 DEF ResolveAccepted
    <3>2. {c} \in SUBSET {j \in Issue : Active(j)} /\ {c} \cap Failure = {}
      BY <2>2, <2>4, KindsApart
    <3>3. Closing
      BY <1>0, <1>3, <2>1, <3>1, <3>2 DEF Closing
    <3> QED BY <3>3
  <2> QED BY <2>3, <2>4
<1>4. CASE EndRescan
  <2> DEFINE q == task[Owner].issue
             to == Verdict(q, task[Owner].before)
  <2>1. task[Owner].do = "rescan" /\ task[Owner] \in Task /\ UNCHANGED <<hits, last, revived>>
    BY <1>4 DEF EndRescan, ITypeOK, Actor
  <2>2. q \in Quality /\ to \in {"blocked", "resolved", "dismissed"}
    BY <2>1, TaskShape DEF Rescanning, Verdict
  <2>3. CASE ~Active(q)
    BY <1>4, <2>1, <2>3 DEF EndRescan
  <2>4. CASE Active(q)
    <3>1. Rule({q}, to, "rescan")
      BY <1>4, <2>4 DEF EndRescan
    <3>2. {q} \in SUBSET {j \in Issue : Active(j)} /\ {q} \cap Failure = {}
      BY <2>2, <2>4, KindsApart
    <3> HIDE DEF q, to
    <3>3. Closing
      BY <1>0, <2>1, <2>2, <3>1, <3>2 DEF Closing
    <3> QED BY <3>3
  <2> QED BY <2>3, <2>4
<1>5. ASSUME NEW c \in Report, ReportCorrection(c) \/ Accept(c) PROVE Goal
  <2>1. c \in Issue \ Failure /\ RepairOf(c) \in Issue \ Failure /\ CanEnter(c)
    BY KindsApart DEF CanEnter
  <2>2. \E i \in {c, RepairOf(c)} : CanEnter(i) /\ Enter(i) /\ UNCHANGED <<last, revived>>
    BY <1>5, <2>1 DEF ReportCorrection, Accept, Ask
  <2>3. Reporting
    BY <2>1, <2>2 DEF Reporting
  <2> QED BY <2>3
<1>6. ASSUME NEW p \in Page, ReportFinding(p) \/ ScanAtEnd(p) PROVE Goal
  <2>1. [kind |-> "finding", page |-> p] \in Issue \ Failure
    BY KindsApart
  <2>2. Reporting
    BY <1>6, <2>1 DEF ReportFinding, ScanAtEnd, Reporting, Ask
  <2> QED BY <2>2
<1>7. ASSUME NEW a \in Actor, WriteStatus(a) PROVE Goal
  <2> DEFINE flip == task[a].flip
             moves == flip.seen \in MovesFrom(flip)
             raises == moves /\ StatusFor(flip) \notin AllowedTo(status[flip.issue])
  <2>1. task[a] \in Reconciling \cup Retrying /\ flip.part = "status"
        /\ UNCHANGED <<hits, last>>
    BY <1>7, TaskShape DEF WriteStatus, ITypeOK
  <2>2. flip \in Flip
    BY <2>1 DEF Reconciling, Retrying
  <2>3. flip.issue \in Failure /\ flip.missing \in BOOLEAN
    BY <2>1, <2>2 DEF Flip, NoFlip
  <2>4. CASE moves /\ ~raises
    <3>1. /\ Move(flip.issue, StatusFor(flip))
          /\ revived' = IF Terminal(flip.issue) THEN revived \cup {flip.issue} ELSE revived
      BY <1>7, <2>4 DEF WriteStatus
    <3>2. Flipping
      BY <1>7, <2>1, <2>3, <2>4, <3>1 DEF Flipping
    <3> QED BY <3>2
  <2>5. CASE ~(moves /\ ~raises)
    BY <1>7, <2>1, <2>5 DEF WriteStatus
  <2> QED BY <2>4, <2>5
<1>8. CASE UNCHANGED vars
  BY <1>8 DEF vars, books
<1>9. CASE QueueRetries
  BY <1>9 DEF QueueRetries, books
<1>10. ASSUME NEW s \in Source, RowVoid(s) \/ EditFile(s) PROVE Goal
  BY <1>10 DEF RowVoid, EditFile, books
<1>11. ASSUME NEW S, RetryBatch(S) PROVE Goal
  BY <1>11 DEF RetryBatch, books
<1>12. ASSUME NEW f \in Failure, ProbeRetry(f) \/ \E a \in Actor : Probe(a, f) PROVE Goal
  BY <1>12 DEF ProbeRetry, Probe, books
<1>13. ASSUME NEW a \in Actor, Reconcile(a) \/ WriteFlag(a) \/ ReconcileEnds(a) \/ Crash(a)
       PROVE  Goal
  BY <1>13 DEF Reconcile, WriteFlag, ReconcileEnds, Crash, books
<1>14. ASSUME NEW q \in Quality, RequestRescan(q) \/ StartRescan(q) PROVE Goal
  BY <1>14 DEF RequestRescan, StartRescan, books
<1>15. ASSUME NEW p \in Page, EditPage(p) PROVE Goal
  BY <1>15 DEF EditPage, books
<1>16. ASSUME NEW q \in Quality, FalsePositive(q) PROVE Goal
  BY <1>2, <1>16, KindsApart
<1>17. ASSUME NEW c \in Report, Reject(c) \/ KeepUncertain(c) PROVE Goal
  BY <1>2, <1>17, KindsApart
<1> HIDE DEF Goal
<1>18. ASSUME NEW i \in Issue, Dismiss(i) PROVE Goal
  BY <1>2, <1>18
<1>19. ASSUME NEW s \in Source, RowSucceeds(s) \/ \E stage \in Stage : RowFails(s, stage)
       PROVE  Goal
  BY <1>19 DEF Goal
<1>20. ASSUME NEW i \in Issue, Reopen(i) PROVE Goal
  BY <1>20 DEF Goal
<1>21. CASE SubmitSync \/ QueueRetries \/ ResolveAccepted \/ EndRescan
  BY <1>1, <1>3, <1>4, <1>9, <1>21
<1>22. ASSUME NEW s \in Source,
              RowSucceeds(s) \/ RowVoid(s) \/ EditFile(s) \/ \E stage \in Stage : RowFails(s, stage)
       PROVE  Goal
  BY <1>10, <1>19, <1>22
<1>23. ASSUME NEW a \in Actor,
              Reconcile(a) \/ WriteFlag(a) \/ WriteStatus(a) \/ ReconcileEnds(a) \/ Crash(a)
       PROVE  Goal
  BY <1>7, <1>13, <1>23
<1>24. ASSUME NEW i \in Issue, Dismiss(i) \/ Reopen(i) PROVE Goal
  BY <1>18, <1>20, <1>24
<1>25. ASSUME NEW q \in Quality, FalsePositive(q) \/ RequestRescan(q) \/ StartRescan(q) PROVE Goal
  BY <1>14, <1>16, <1>25
<1>26. ASSUME NEW c \in Report, ReportCorrection(c) \/ Reject(c) \/ KeepUncertain(c) \/ Accept(c)
       PROVE  Goal
  BY <1>5, <1>17, <1>26
<1>27. ASSUME NEW p \in Page, ReportFinding(p) \/ ScanAtEnd(p) \/ EditPage(p) PROVE Goal
  BY <1>6, <1>15, <1>27
<1>28. Goal
  BY <1>8, <1>11, <1>12, <1>21, <1>22, <1>23, <1>24, <1>25, <1>26, <1>27 DEF Next
<1> QED BY <1>28

\* Ending a row well is one ruling.
LEMMA SucceedsRules ==
  ASSUME ITypeOK, NEW s \in Source, RowSucceeds(s)
  PROVE  /\ Rule(Settled(s), "resolved", "job") /\ hits' = hits
         /\ Settled(s) \in SUBSET {i \in Issue : Active(i)}
  BY KindsApart DEF RowSucceeds, Settled, FailuresOf

\* A failed row reports the failure of its source and stage.
LEMMA FailsReports ==
  ASSUME ITypeOK, NEW s \in Source, NEW stage \in Stage, RowFails(s, stage)
  PROVE  \E f \in FailuresOf(s) : CanEnter(f) /\ Enter(f) /\ revived' = revived \ {f}
<1> DEFINE f == [kind |-> "failure", source |-> s, stage |-> stage]
<1>1. f \in Failure /\ f.source = s /\ f \notin Quality
  BY KindsApart
<1>2. Enter(f) /\ revived' = revived \ {f}
  BY DEF RowFails
<1> QED BY <1>1, <1>2 DEF FailuresOf, CanEnter

\* No step spoils the shape of the records, and no record that was reported is
\* ever as if it had not been.
LEMMA RecordsShape ==
  ASSUME ITypeOK, [Next]_vars
  PROVE  /\ BooksOK(status', ruling', hits')
         /\ \A i \in Issue : status[i] # "none" => status'[i] # "none"
<1> DEFINE Goal == /\ BooksOK(status', ruling', hits')
                   /\ \A i \in Issue : status[i] # "none" => status'[i] # "none"
<1> SUFFICES Goal
  OBVIOUS
<1>0. BooksOK(status, ruling, hits)
  BY DEF ITypeOK, BooksOK, Status, Ruling
<1>1. ASSUME NEW i \in Issue, CanEnter(i), Enter(i) PROVE Goal
  BY <1>0, <1>1, EnterFacts
<1>2. ASSUME NEW S, NEW to \in {"blocked", "resolved", "dismissed", "open"}, NEW by \in Ruling,
             Rule(S, to, by), hits' = hits
      PROVE  Goal
  <2>1. to \in Status \ {"none"}
    BY DEF Status
  <2>2. /\ status' \in [Issue -> Status] /\ ruling' \in [Issue -> Ruling]
        /\ \A i \in Issue : i \in S => status'[i] = to
        /\ \A i \in Issue : i \notin S => status'[i] = status[i]
    BY <1>0, <1>2, <2>1, RuleFacts
  <2> QED BY <1>0, <1>2, <2>2 DEF BooksOK
<1>3. CASE Flipping
  <2>1. PICK a \in Actor : /\ Move(task[a].flip.issue, StatusFor(task[a].flip))
                           /\ task[a].flip.issue \in Failure /\ hits' = hits
    BY <1>3 DEF Flipping
  <2> DEFINE to == StatusFor(task[a].flip)
             f == task[a].flip.issue
  <2>2. to \in {"blocked", "open"} /\ f \in Issue
    BY <2>1, KindsApart DEF StatusFor
  <2>3. status' = [status EXCEPT ![f] = to] /\ ruling' = ruling
    BY <2>1 DEF Move
  <2> HIDE DEF to, f
  <2> QED BY <1>0, <2>1, <2>2, <2>3 DEF BooksOK, Status
<1> HIDE DEF Goal
<1>4. CASE Reporting
  BY <1>1, <1>4 DEF Reporting
<1>5. CASE Closing
  BY <1>2, <1>5 DEF Closing
<1>6. ASSUME NEW i \in Issue, Reopen(i) PROVE Goal
  BY <1>2, <1>6 DEF Reopen, Ask, Ruling
<1>7. ASSUME NEW s \in Source, RowSucceeds(s) PROVE Goal
  BY <1>2, <1>7, SucceedsRules DEF Ruling
<1>8. ASSUME NEW s \in Source, NEW stage \in Stage, RowFails(s, stage) PROVE Goal
  BY <1>1, <1>8, FailsReports, KindsApart DEF FailuresOf
<1>9. CASE UNCHANGED <<status, ruling, hits, last, revived>>
  BY <1>0, <1>9 DEF Goal, BooksOK
<1> QED BY <1>3, <1>4, <1>5, <1>6, <1>7, <1>8, <1>9, RecordMoves

\* The failure records keep telling how the last row of each source ended.
LEMMA StepFailures ==
  ASSUME ITypeOK, FailuresOnBooks, [Next]_vars
  PROVE  FailuresOnBooks'
<1> DEFINE Closed(f) == ruling[f] \in {"user", "vanished"}
           Right(s) == /\ \A f \in FailuresOf(s) \ revived : Active(f) => last[s] = "failed"
                       /\ last[s] = "failed" =>
                            \E f \in FailuresOf(s) : Active(f) \/ Closed(f)
           Told(s) == /\ \A f \in FailuresOf(s) \ revived' : Active(f)' => last'[s] = "failed"
                      /\ last'[s] = "failed" =>
                           \E f \in FailuresOf(s) : Active(f)' \/ Closed(f)'
<1> SUFFICES ASSUME NEW s \in Source PROVE Told(s)
  BY DEF FailuresOnBooks, FailuresOf
<1>0. /\ BooksOK(status, ruling, hits) /\ last \in [Source -> {"none", "ok", "failed"}]
      /\ Right(s) /\ \A f \in FailuresOf(s) : f \in Failure /\ f \in Issue /\ f.source = s
  BY KindsApart DEF ITypeOK, BooksOK, Status, Ruling, FailuresOnBooks, FailuresOf
<1>1. ASSUME \A f \in FailuresOf(s) : status'[f] = status[f] /\ ruling'[f] = ruling[f],
             UNCHANGED <<last, revived>>
      PROVE  Told(s)
  BY <1>0, <1>1 DEF Active
<1>2. CASE Reporting
  <2>1. \A f \in FailuresOf(s) : status'[f] = status[f] /\ ruling'[f] = ruling[f]
    BY <1>0, <1>2, EnterFacts DEF Reporting
  <2> QED BY <1>1, <1>2, <2>1 DEF Reporting
<1>3. CASE Closing
  <2>1. PICK S \in SUBSET {i \in Issue : Active(i)}, to \in {"blocked", "resolved", "dismissed"},
             by \in Ruling \ {"none"} :
               /\ Rule(S, to, by) /\ UNCHANGED <<hits, last, revived>>
               /\ \A f \in S \cap Failure : by \in {"user", "vanished"}
    BY <1>3 DEF Closing
  <2>2. to \in Status \ {"none"} /\ by \in Ruling /\ Rule(S, to, by)
    BY <2>1 DEF Status
  <2>3. /\ \A i \in Issue : i \in S => status'[i] = to /\ ruling'[i] = by
        /\ \A i \in Issue : i \notin S => status'[i] = status[i] /\ ruling'[i] = ruling[i]
    <3> HIDE DEF Right, Told, Closed
    <3>1. BooksOK(status, ruling, hits)
      BY <1>0
    <3> QED BY <2>2, <3>1, RuleFacts
  <2>4. ASSUME NEW f \in FailuresOf(s), f \in S
        PROVE  Active(f) /\ ruling'[f] \in {"user", "vanished"}
    <3>1. f \in Issue /\ f \in S \cap Failure /\ Active(f)
      BY <1>0, <2>4
    <3>2. ruling'[f] = by /\ by \in {"user", "vanished"}
      BY <2>1, <2>3, <3>1
    <3> QED BY <3>1, <3>2
  <2> QED BY <1>0, <2>1, <2>3, <2>4 DEF Active
<1>4. CASE Flipping
  <2>1. PICK a \in Actor :
          /\ Move(task[a].flip.issue, StatusFor(task[a].flip))
          /\ revived' = IF Terminal(task[a].flip.issue) THEN revived \cup {task[a].flip.issue}
                        ELSE revived
          /\ task[a].flip.issue \in Failure /\ last' = last
    BY <1>4 DEF Flipping
  <2> DEFINE to == StatusFor(task[a].flip)
             i == task[a].flip.issue
  <2>2. /\ to \in {"blocked", "open"} /\ i \in Issue
        /\ status' = [status EXCEPT ![i] = to] /\ ruling' = ruling
        /\ status[i] \in {"open", "blocked", "resolved", "dismissed"}
    BY <2>1, KindsApart, AllowedFacts DEF StatusFor, Move
  <2> HIDE DEF to, i
  <2>3. \A f \in FailuresOf(s) : /\ f # i => status'[f] = status[f]
                                 /\ f = i => status'[f] \in {"open", "blocked"}
    BY <1>0, <2>2 DEF BooksOK
  <2>4. \A f \in FailuresOf(s) \ revived' : f # i \/ Active(f)
    BY <2>1, <2>2 DEF Active, Terminal, i
  <2> QED BY <1>0, <2>1, <2>2, <2>3, <2>4 DEF Active, i
<1>5. ASSUME NEW i \in Issue, Reopen(i) PROVE Told(s)
  <2>1. /\ Rule({i}, "open", "none") /\ last' = last
        /\ revived' = IF i \in Failure THEN revived \cup {i} ELSE revived
    BY <1>5 DEF Reopen, Ask
  <2>2. "open" \in Status \ {"none"} /\ "none" \in Ruling
    BY DEF Status, Ruling
  <2>3. /\ \A j \in Issue : j \in {i} => status'[j] = "open"
        /\ \A j \in Issue : j \notin {i} => status'[j] = status[j] /\ ruling'[j] = ruling[j]
    BY <1>0, <2>1, <2>2, RuleFacts
  <2> QED BY <1>0, <2>1, <2>3 DEF Active
<1>6. ASSUME NEW r \in Source, RowSucceeds(r) PROVE Told(s)
  <2>1. /\ Rule(Settled(r), "resolved", "job") /\ last' = [last EXCEPT ![r] = "ok"]
        /\ revived' = revived \ Settled(r)
    BY <1>6, SucceedsRules DEF RowSucceeds
  <2>2. "resolved" \in Status \ {"none"} /\ "job" \in Ruling
    BY DEF Status, Ruling
  <2>3. \A f \in FailuresOf(s) :
          /\ f \in Settled(r) => status'[f] = "resolved"
          /\ f \notin Settled(r) => status'[f] = status[f] /\ ruling'[f] = ruling[f]
    BY <1>0, <2>1, <2>2, RuleFacts
  <2>4. CASE r = s
    <3>1. \A f \in FailuresOf(s) : f \in Settled(r) <=> Active(f)
      BY <1>0, <2>4 DEF Settled
    <3> QED BY <1>0, <2>1, <2>3, <2>4, <3>1 DEF Active
  <2>5. CASE r # s
    <3>1. \A f \in FailuresOf(s) : f \notin Settled(r)
      BY <1>0, <2>5 DEF Settled, FailuresOf
    <3> QED BY <1>0, <2>1, <2>3, <2>5, <3>1 DEF Active
  <2> QED BY <2>4, <2>5
<1>7. ASSUME NEW r \in Source, NEW stage \in Stage, RowFails(r, stage) PROVE Told(s)
  <2>1. PICK g \in FailuresOf(r) : CanEnter(g) /\ Enter(g) /\ revived' = revived \ {g}
    BY <1>7, FailsReports
  <2>2. last' = [last EXCEPT ![r] = "failed"] /\ g \in Issue /\ g.source = r
    BY <1>7, KindsApart DEF RowFails, FailuresOf
  <2>3. /\ status'[g] \in {"open", "blocked"}
        /\ \A f \in FailuresOf(s) : f # g => status'[f] = status[f] /\ ruling'[f] = ruling[f]
    BY <1>0, <2>1, <2>2, EnterFacts
  <2>4. CASE r = s
    BY <1>0, <2>1, <2>2, <2>3, <2>4 DEF Active
  <2>5. CASE r # s
    BY <1>0, <2>1, <2>2, <2>3, <2>5 DEF Active
  <2> QED BY <2>4, <2>5
<1>8. CASE UNCHANGED <<status, ruling, hits, last, revived>>
  BY <1>1, <1>8
<1> HIDE DEF Told
<1> QED BY <1>2, <1>3, <1>4, <1>5, <1>6, <1>7, <1>8, RecordMoves

-----------------------------------------------------------------------------
(* The steps, by what they do to the tasks                                 *)

\* A task that ends, or that looks at failure records that were reported.
Looking ==
  \E a \in Actor, t \in {Idle} \cup Reconciling \cup Retrying :
    /\ task' = [task EXCEPT ![a] = t]
    /\ a \in Visitor => t.do \in {"idle", "reconcile"}
    /\ t.do = "reconcile" => \A f \in t.todo : status[f] # "none"

\* A rescan starts on an issue that is active.
RescanStarts ==
  \E q \in Quality :
    /\ StartRescan(q) /\ Active(q) /\ q \in rescans
    /\ task' = [task EXCEPT ![Owner] = [do |-> "rescan", issue |-> q, before |-> hits[q],
                                        found |-> defects, left |-> defects]]
    /\ UNCHANGED rescans

\* Every step ends a task, looks at records, accepts, goes on with a rescan, or
\* leaves the tasks.
LEMMA TaskMoves ==
  ASSUME ITypeOK, TodoKnown, [Next]_vars
  PROVE  \/ UNCHANGED task
         \/ Looking \/ RescanStarts
         \/ \E c \in Report : Accept(c)
         \/ \E p \in Page : ReportFinding(p)
<1> DEFINE Goal == \/ UNCHANGED task
                   \/ Looking \/ RescanStarts
                   \/ \E c \in Report : Accept(c)
                   \/ \E p \in Page : ReportFinding(p)
<1> SUFFICES Goal
  OBVIOUS
<1>0. /\ Owner \in Actor /\ \A v \in Visitor : v \in Actor /\ v # Owner
      /\ \A a \in Actor : a \in Visitor => task[a].do \in {"idle", "reconcile"}
      /\ Idle.do = "idle" /\ task \in [Actor -> Task]
  BY LedgerAssumption DEF Actor, ITypeOK, Idle
<1>1. ASSUME NEW a \in Actor, NEW t \in {Idle} \cup Reconciling \cup Retrying,
             task' = [task EXCEPT ![a] = t], a \in Visitor => t.do \in {"idle", "reconcile"},
             t.do = "reconcile" => \A f \in t.todo : status[f] # "none"
      PROVE  Goal
  BY <1>1 DEF Looking
<1>2. ASSUME NEW a \in Actor, Drop(a) PROVE Goal
  BY <1>0, <1>1, <1>2 DEF Drop
<1> HIDE DEF Goal
<1>3. CASE SubmitSync \/ UNCHANGED vars
  BY <1>3 DEF SubmitSync, Ask, vars, Goal
<1>4. CASE QueueRetries \/ ResolveAccepted \/ EndRescan
  BY <1>0, <1>2, <1>4 DEF QueueRetries, ResolveAccepted, EndRescan
<1>5. ASSUME NEW s \in Source,
             RowSucceeds(s) \/ RowVoid(s) \/ EditFile(s) \/ \E stage \in Stage : RowFails(s, stage)
      PROVE  Goal
  BY <1>5 DEF RowSucceeds, RowVoid, EditFile, RowFails, Goal
<1>6. ASSUME NEW S \in SUBSET Failure \ {{}}, RetryBatch(S) PROVE Goal
  <2> DEFINE t == [do |-> "retry", todo |-> S, ready |-> {}, flip |-> NoFlip]
  <2>1. t \in Retrying /\ t.do # "reconcile"
    BY DEF Retrying, Flip
  <2>2. task' = [task EXCEPT ![Owner] = t]
    BY <1>6 DEF RetryBatch
  <2> HIDE DEF t
  <2> QED BY <1>0, <1>1, <2>1, <2>2
<1>7. ASSUME NEW f \in Failure, ProbeRetry(f) PROVE Goal
  <2>1. PICK t \in {Idle} \cup Retrying : task' = [task EXCEPT ![Owner] = t]
    BY <1>7, ProbeRetryTask
  <2>2. t.do # "reconcile"
    BY <1>0, <2>1 DEF Retrying
  <2> QED BY <1>0, <1>1, <2>1, <2>2
<1>8. ASSUME NEW f \in Failure, NEW a \in Actor, Probe(a, f) PROVE Goal
  <2>1. PICK flip \in Flip :
          task' = [task EXCEPT ![a] = [do |-> "reconcile", todo |-> task[a].todo \ {f},
                                       known |-> task[a].known, flip |-> flip]]
    BY <1>8, ProbeTask
  <2> DEFINE t == [do |-> "reconcile", todo |-> task[a].todo \ {f},
                   known |-> task[a].known, flip |-> flip]
  <2>2. task[a] \in Reconciling
    BY <1>0, <1>8, TaskShape DEF Probe
  <2>3. t \in Reconciling /\ t.do = "reconcile" /\ t.todo \subseteq task[a].todo
    BY <2>2 DEF Reconciling
  <2>4. \A g \in t.todo : status[g] # "none"
    BY <1>8, <2>3 DEF Probe, TodoKnown
  <2>5. task' = [task EXCEPT ![a] = t]
    BY <2>1
  <2> HIDE DEF t
  <2> QED BY <1>1, <2>3, <2>4, <2>5
<1>9. ASSUME NEW a \in Actor, Reconcile(a) PROVE Goal
  <2> DEFINE listed == {f \in Failure : Active(f)}
             t == [do |-> "reconcile", todo |-> listed, known |-> listed \cap flagged,
                   flip |-> NoFlip]
  <2>1. t \in Reconciling /\ t.do = "reconcile" /\ \A f \in t.todo : status[f] # "none"
    BY DEF Reconciling, Flip, Active
  <2>2. task' = [task EXCEPT ![a] = t]
    BY <1>9 DEF Reconcile
  <2> HIDE DEF t
  <2> QED BY <1>1, <2>1, <2>2
<1>10. ASSUME NEW a \in Actor, WriteFlag(a) PROVE Goal
  <2>1. PICK t \in Reconciling \cup Retrying :
          task' = [task EXCEPT ![a] = t] /\ t.do = task[a].do /\ t.todo = task[a].todo
    BY <1>10, WriteFlagTask
  <2> QED BY <1>0, <1>1, <2>1 DEF TodoKnown
<1>11. ASSUME NEW a \in Actor, WriteStatus(a) PROVE Goal
  <2>1. PICK t \in {Idle} \cup Reconciling \cup Retrying :
          task' = [task EXCEPT ![a] = t] /\ (t = Idle \/ (t.do = task[a].do /\ t.todo = task[a].todo))
    BY <1>11, WriteStatusTask
  <2> QED BY <1>0, <1>1, <2>1 DEF TodoKnown
<1>12. ASSUME NEW a \in Actor, ReconcileEnds(a) \/ Crash(a) PROVE Goal
  BY <1>2, <1>12 DEF ReconcileEnds, Crash
<1>13. ASSUME NEW i \in Issue, Dismiss(i) \/ Reopen(i) PROVE Goal
  BY <1>13 DEF Dismiss, Reopen, Goal
<1>14. ASSUME NEW q \in Quality, FalsePositive(q) \/ RequestRescan(q) PROVE Goal
  BY <1>14 DEF FalsePositive, RequestRescan, Goal
<1>15. ASSUME NEW q \in Quality, StartRescan(q) PROVE Goal
  <2>1. CASE Active(q)
    BY <1>15, <2>1 DEF StartRescan, RescanStarts, Goal
  <2>2. CASE ~Active(q)
    BY <1>15, <2>2 DEF StartRescan, Goal
  <2> QED BY <2>1, <2>2
<1>16. ASSUME NEW c \in Report, ReportCorrection(c) \/ Reject(c) \/ KeepUncertain(c) PROVE Goal
  BY <1>16 DEF ReportCorrection, Reject, KeepUncertain, Goal
<1>17. ASSUME NEW c \in Report, Accept(c) PROVE Goal
  BY <1>17 DEF Goal
<1>18. ASSUME NEW p \in Page, ReportFinding(p) PROVE Goal
  BY <1>18 DEF Goal
<1>19. ASSUME NEW p \in Page, ScanAtEnd(p) \/ EditPage(p) PROVE Goal
  BY <1>19 DEF ScanAtEnd, EditPage, Goal
<1>20. ASSUME NEW a \in Actor,
              Reconcile(a) \/ WriteFlag(a) \/ WriteStatus(a) \/ ReconcileEnds(a) \/ Crash(a)
       PROVE  Goal
  BY <1>9, <1>10, <1>11, <1>12, <1>20
<1>21. ASSUME NEW q \in Quality, FalsePositive(q) \/ RequestRescan(q) \/ StartRescan(q) PROVE Goal
  BY <1>14, <1>15, <1>21
<1>22. ASSUME NEW c \in Report, ReportCorrection(c) \/ Reject(c) \/ KeepUncertain(c) \/ Accept(c)
       PROVE  Goal
  BY <1>16, <1>17, <1>22
<1>23. ASSUME NEW p \in Page, ReportFinding(p) \/ ScanAtEnd(p) \/ EditPage(p) PROVE Goal
  BY <1>18, <1>19, <1>23
<1> QED BY <1>3, <1>4, <1>5, <1>6, <1>7, <1>8, <1>13, <1>20, <1>21, <1>22, <1>23 DEF Next

-----------------------------------------------------------------------------
(* Type correctness                                                        *)

\* The rows and what they were submitted for.
RowsOK ==
  /\ row \in [Source -> {"none", "compile", "delete"}]
  /\ link \in [Source -> Failure \cup {NoIssue}]
  /\ \A s \in Source : link[s] # NoIssue => row[s] # "none" /\ link[s].source = s

\* A row keeps its record until it ends; a retry links only to rows of its source.
LEMMA StepRows ==
  ASSUME ITypeOK, [Next]_vars
  PROVE  RowsOK'
<1>0. RowsOK
  BY DEF ITypeOK, RowsOK
<1>1. ASSUME UNCHANGED <<row, link>> PROVE RowsOK'
  BY <1>0, <1>1 DEF RowsOK
<1>2. CASE SubmitSync
  <2>1. link' = link /\ \A s \in Source : row[s] = "none"
    BY <1>2 DEF SubmitSync, Busy
  <2>2. row' \in [Source -> {"none", "compile", "delete"}]
    BY <1>2 DEF SubmitSync
  <2> QED BY <1>0, <2>1, <2>2 DEF RowsOK
<1>3. ASSUME NEW s \in Source, row' = [row EXCEPT ![s] = "none"], link' = Unlinked(s)
      PROVE  RowsOK'
  BY <1>0, <1>3 DEF RowsOK, Unlinked
<1>4. CASE QueueRetries
  <2> DEFINE ready == {f \in task[Owner].ready : \A s \in Source : link[s] # f}
             fresh == {s \in Source : row[s] = "none" /\ \E f \in ready : f.source = s}
  <2>1. ready \subseteq Failure
    <3>1. task[Owner] \in Retrying
      BY <1>4, TaskShape DEF QueueRetries, ITypeOK, Actor
    <3> QED BY <3>1 DEF Retrying
  <2>2. CASE Busy /\ fresh # {}
    BY <1>1, <1>4, <2>2 DEF QueueRetries
  <2>3. CASE ~(Busy /\ fresh # {})
    <3>1. row' = [s \in Source |-> IF s \in fresh THEN "compile" ELSE row[s]]
      BY <1>4, <2>3 DEF QueueRetries
    <3>2. PICK pick \in [Source -> ready \cup {NoIssue}] :
            /\ \A s \in Source : IF link[s] = NoIssue /\ \E f \in ready : f.source = s
                                 THEN pick[s] \in ready /\ pick[s].source = s
                                 ELSE pick[s] = NoIssue
            /\ link' = [s \in Source |-> IF pick[s] # NoIssue THEN pick[s] ELSE link[s]]
      BY <1>4, <2>3 DEF QueueRetries
    <3>3. row' \in [Source -> {"none", "compile", "delete"}]
      BY <1>0, <3>1 DEF RowsOK
    <3>4. link' \in [Source -> Failure \cup {NoIssue}]
      BY <1>0, <2>1, <3>2 DEF RowsOK
    <3>5. ASSUME NEW s \in Source, link'[s] # NoIssue
          PROVE  row'[s] # "none" /\ link'[s].source = s
      <4>1. CASE pick[s] = NoIssue
        BY <1>0, <3>1, <3>2, <3>5, <4>1 DEF RowsOK
      <4>2. CASE pick[s] # NoIssue
        <5>1. link'[s] = pick[s] /\ pick[s] \in ready /\ pick[s].source = s
          BY <3>2, <4>2
        <5>2. row[s] = "none" => s \in fresh
          BY <5>1
        <5> HIDE DEF fresh
        <5> QED BY <1>0, <3>1, <5>1, <5>2
      <4> QED BY <4>1, <4>2
    <3> QED BY <3>3, <3>4, <3>5 DEF RowsOK
  <2> QED BY <2>2, <2>3
<1>5. ASSUME NEW s \in Source,
             RowSucceeds(s) \/ RowVoid(s) \/ EditFile(s) \/ \E stage \in Stage : RowFails(s, stage)
      PROVE  RowsOK'
  BY <1>1, <1>3, <1>5 DEF RowSucceeds, RowVoid, RowFails, EditFile, queue
<1>6. ASSUME NEW S, RetryBatch(S) PROVE RowsOK'
  BY <1>1, <1>6 DEF RetryBatch, queue
<1>7. ASSUME NEW f \in Failure, ProbeRetry(f) \/ \E a \in Actor : Probe(a, f) PROVE RowsOK'
  BY <1>1, <1>7 DEF ProbeRetry, Probe, queue
<1>8. ASSUME NEW a \in Actor,
             Reconcile(a) \/ WriteFlag(a) \/ WriteStatus(a) \/ ReconcileEnds(a) \/ Crash(a)
      PROVE  RowsOK'
  BY <1>1, <1>8 DEF Reconcile, WriteFlag, WriteStatus, ReconcileEnds, Crash, queue
<1>9. ASSUME NEW i \in Issue, Dismiss(i) \/ Reopen(i) PROVE RowsOK'
  BY <1>1, <1>9 DEF Dismiss, Reopen, queue
<1>10. ASSUME NEW q \in Quality, FalsePositive(q) \/ RequestRescan(q) \/ StartRescan(q)
       PROVE  RowsOK'
  BY <1>1, <1>10 DEF FalsePositive, RequestRescan, StartRescan, queue
<1>11. ASSUME NEW c \in Report, ReportCorrection(c) \/ Reject(c) \/ KeepUncertain(c) \/ Accept(c)
       PROVE  RowsOK'
  BY <1>1, <1>11 DEF ReportCorrection, Reject, KeepUncertain, Accept, queue
<1>12. ASSUME NEW p \in Page, ReportFinding(p) \/ ScanAtEnd(p) \/ EditPage(p) PROVE RowsOK'
  BY <1>1, <1>12 DEF ReportFinding, ScanAtEnd, EditPage, queue
<1>13. CASE ResolveAccepted \/ EndRescan \/ UNCHANGED vars
  BY <1>1, <1>13 DEF ResolveAccepted, EndRescan, vars, queue
<1> HIDE DEF RowsOK
<1> QED BY <1>2, <1>4, <1>5, <1>6, <1>7, <1>8, <1>9, <1>10, <1>11, <1>12, <1>13 DEF Next

\* The rest of the state, each part in its range.
RestOK ==
  /\ flagged \subseteq Failure /\ rescans \subseteq Quality
  /\ present \subseteq Source /\ recorded \subseteq Source /\ defects \subseteq Page
  /\ revived \subseteq Failure
  /\ last \in [Source -> {"none", "ok", "failed"}]
  /\ acts \in 0 .. MaxActs /\ faults \in 0 .. MaxFaults

\* The variables no task shares keep their types.
LEMMA StepRest ==
  ASSUME ITypeOK, [Next]_vars
  PROVE  RestOK'
<1>0. RestOK
  BY DEF ITypeOK, RestOK
<1>1. ASSUME acts < MaxActs, acts' = acts + 1 PROVE acts' \in 0 .. MaxActs
  BY <1>0, <1>1, LedgerAssumption DEF RestOK
<1>2. CASE SubmitSync \/ QueueRetries \/ ResolveAccepted \/ EndRescan \/ UNCHANGED vars
  BY <1>0, <1>1, <1>2 DEF SubmitSync, QueueRetries, ResolveAccepted, EndRescan, Ask, RestOK,
                          world, queue, vars, books
<1>3. ASSUME NEW s \in Source, RowSucceeds(s) PROVE RestOK'
  BY <1>0, <1>3 DEF RowSucceeds, RestOK
<1>4. ASSUME NEW s \in Source, NEW stage \in Stage, RowFails(s, stage) PROVE RestOK'
  BY <1>0, <1>4 DEF RowFails, RestOK, world
<1>5. ASSUME NEW s \in Source, RowVoid(s) \/ EditFile(s) PROVE RestOK'
  BY <1>0, <1>1, <1>5 DEF RowVoid, EditFile, RestOK, world, books, queue
<1>6. ASSUME NEW S, RetryBatch(S) PROVE RestOK'
  BY <1>0, <1>1, <1>6 DEF RetryBatch, Ask, RestOK, world, books, queue
<1>7. ASSUME NEW f \in Failure, ProbeRetry(f) \/ \E a \in Actor : Probe(a, f) PROVE RestOK'
  BY <1>0, <1>7 DEF ProbeRetry, Probe, RestOK, world, books, queue
<1>8. ASSUME NEW a \in Actor, WriteFlag(a) PROVE RestOK'
  <2>1. task[a] \in Reconciling \cup Retrying /\ task[a].flip.part = "payload"
    BY <1>8, TaskShape DEF WriteFlag, ITypeOK
  <2>2. task[a].flip \in Flip
    BY <2>1 DEF Reconciling, Retrying
  <2>3. task[a].flip.issue \in Failure
    BY <2>1, <2>2 DEF Flip, NoFlip
  <2> QED BY <1>0, <1>8, <2>3 DEF WriteFlag, RestOK, world, queue
<1>9. ASSUME NEW a \in Actor, WriteStatus(a) PROVE RestOK'
  <2>1. task[a] \in Reconciling \cup Retrying /\ task[a].flip.part = "status"
    BY <1>9, TaskShape DEF WriteStatus, ITypeOK
  <2>2. task[a].flip \in Flip
    BY <2>1 DEF Reconciling, Retrying
  <2>3. task[a].flip.issue \in Failure
    BY <2>1, <2>2 DEF Flip, NoFlip
  <2> QED BY <1>0, <1>9, <2>3 DEF WriteStatus, RestOK, world, queue
<1>10. ASSUME NEW a \in Actor, Reconcile(a) PROVE RestOK'
  BY <1>0, <1>1, <1>10 DEF Reconcile, RestOK, world, books, queue
<1>11. ASSUME NEW a \in Actor, ReconcileEnds(a) \/ Crash(a) PROVE RestOK'
  BY <1>0, <1>11, LedgerAssumption DEF ReconcileEnds, Crash, RestOK, world, books, queue
<1>12. ASSUME NEW i \in Issue, Dismiss(i) \/ Reopen(i) PROVE RestOK'
  BY <1>0, <1>1, <1>12 DEF Dismiss, Reopen, Ask, RestOK, world, queue
<1>13. ASSUME NEW q \in Quality, FalsePositive(q) \/ RequestRescan(q) \/ StartRescan(q)
       PROVE  RestOK'
  BY <1>0, <1>1, <1>13 DEF FalsePositive, RequestRescan, StartRescan, Ask, RestOK, world, queue,
                           books
<1>14. ASSUME NEW c \in Report, ReportCorrection(c) \/ Reject(c) \/ KeepUncertain(c) \/ Accept(c)
       PROVE  RestOK'
  BY <1>0, <1>1, <1>14 DEF ReportCorrection, Reject, KeepUncertain, Accept, Ask, RestOK, world,
                           queue
<1>15. ASSUME NEW p \in Page, ReportFinding(p) \/ ScanAtEnd(p) \/ EditPage(p) PROVE RestOK'
  BY <1>0, <1>1, <1>15 DEF ReportFinding, ScanAtEnd, EditPage, Ask, RestOK, world, queue, books
<1>16. ASSUME NEW s \in Source,
              RowSucceeds(s) \/ RowVoid(s) \/ EditFile(s) \/ \E stage \in Stage : RowFails(s, stage)
       PROVE  RestOK'
  BY <1>3, <1>4, <1>5, <1>16
<1>17. ASSUME NEW a \in Actor,
              Reconcile(a) \/ WriteFlag(a) \/ WriteStatus(a) \/ ReconcileEnds(a) \/ Crash(a)
       PROVE  RestOK'
  BY <1>8, <1>9, <1>10, <1>11, <1>17
<1> QED BY <1>2, <1>6, <1>7, <1>12, <1>13, <1>14, <1>15, <1>16, <1>17 DEF Next

\* What the processes are in the middle of keeps its shape, and what they look at
\* or accept was reported.
LEMMA StepTasks ==
  ASSUME ITypeOK, TodoKnown, AcceptUnderWay, [Next]_vars
  PROVE  /\ task' \in [Actor -> Task] /\ \A v \in Visitor : task'[v].do \in {"idle", "reconcile"}
         /\ TodoKnown' /\ AcceptUnderWay'
<1> DEFINE Goal == /\ task' \in [Actor -> Task]
                   /\ \A v \in Visitor : task'[v].do \in {"idle", "reconcile"}
                   /\ TodoKnown' /\ AcceptUnderWay'
<1> SUFFICES Goal
  OBVIOUS
<1>0. /\ Owner \in Actor /\ \A v \in Visitor : v \in Actor /\ v # Owner
      /\ \A v \in Visitor : task[v].do \in {"idle", "reconcile"}
      /\ Idle.do = "idle" /\ task \in [Actor -> Task] /\ {Idle} \cup Reconciling \cup Retrying \subseteq Task
  BY LedgerAssumption DEF Actor, ITypeOK, Idle, Task
<1>1. \A i \in Issue : status[i] # "none" => status'[i] # "none"
  BY RecordsShape
<1>2. \A a \in Actor : task[a].do = "reconcile" => task[a].todo \subseteq Failure
  <2> TAKE a \in Actor
  <2> SUFFICES ASSUME task[a].do = "reconcile" PROVE task[a].todo \subseteq Failure
    OBVIOUS
  <2>1. task[a] \in Reconciling
    BY <1>0, TaskShape
  <2> QED BY <2>1 DEF Reconciling
<1>3. task[Owner].do = "accept" => RepairOf(task[Owner].issue) \in Issue
  BY <1>0, TaskShape, KindsApart DEF Accepting
\* a process whose task is left alone
<1>4. ASSUME NEW a \in Actor, task'[a] = task[a]
      PROVE  /\ task'[a].do = "reconcile" => \A f \in task'[a].todo : status'[f] # "none"
             /\ a = Owner /\ task'[a].do = "accept" => status'[RepairOf(task'[a].issue)] # "none"
  BY <1>1, <1>2, <1>3, <1>4, KindsApart DEF TodoKnown, AcceptUnderWay
<1>5. ASSUME NEW a \in Actor, NEW t \in Task, task' = [task EXCEPT ![a] = t],
             a \in Visitor => t.do \in {"idle", "reconcile"},
             t.do = "reconcile" => \A f \in t.todo : f \in Issue /\ status[f] # "none",
             a = Owner /\ t.do = "accept" => status'[RepairOf(t.issue)] # "none"
      PROVE  Goal
  <2>1. /\ task' \in [Actor -> Task] /\ task'[a] = t
        /\ \A b \in Actor : b # a => task'[b] = task[b]
        /\ \A v \in Visitor : task'[v].do \in {"idle", "reconcile"}
    BY <1>5, TaskSet
  <2>2. TodoKnown'
    BY <1>1, <1>4, <1>5, <2>1 DEF TodoKnown
  <2>3. AcceptUnderWay'
    BY <1>0, <1>4, <1>5, <2>1 DEF AcceptUnderWay
  <2> QED BY <2>1, <2>2, <2>3
<1>6. CASE UNCHANGED task
  BY <1>0, <1>4, <1>6 DEF TodoKnown, AcceptUnderWay
<1> HIDE DEF Goal
<1>7. CASE Looking
  <2>1. PICK a \in Actor, t \in {Idle} \cup Reconciling \cup Retrying :
          /\ task' = [task EXCEPT ![a] = t]
          /\ a \in Visitor => t.do \in {"idle", "reconcile"}
          /\ t.do = "reconcile" => \A f \in t.todo : status[f] # "none"
    BY <1>7 DEF Looking
  <2>2. t \in Task /\ t.do # "accept"
    BY <1>0, <2>1 DEF Reconciling, Retrying
  <2>3. t.do = "reconcile" => \A f \in t.todo : f \in Issue
    BY <2>2, TaskShape, KindsApart DEF Reconciling
  <2> QED BY <1>5, <2>1, <2>2, <2>3
<1>8. CASE RescanStarts
  <2>1. PICK q \in Quality :
          task' = [task EXCEPT ![Owner] = [do |-> "rescan", issue |-> q, before |-> hits[q],
                                           found |-> defects, left |-> defects]]
    BY <1>8 DEF RescanStarts
  <2> DEFINE t == [do |-> "rescan", issue |-> q, before |-> hits[q], found |-> defects,
                   left |-> defects]
  <2>2. t \in Rescanning
    BY DEF Rescanning, ITypeOK
  <2>3. t \in Task /\ t.do = "rescan"
    BY <2>2 DEF Task
  <2>4. task' = [task EXCEPT ![Owner] = t] /\ Owner \notin Visitor
    BY <2>1, LedgerAssumption
  <2> HIDE DEF t
  <2> QED BY <1>0, <1>5, <2>3, <2>4
<1>9. ASSUME NEW c \in Report, Accept(c) PROVE Goal
  <2> DEFINE t == [do |-> "accept", issue |-> c]
  <2>1. t \in Task /\ t.do = "accept" /\ t.issue = c
    BY DEF Task, Accepting
  <2>2. task' = [task EXCEPT ![Owner] = t] /\ Owner \notin Visitor
    BY <1>9, LedgerAssumption DEF Accept
  <2>3. status'[RepairOf(c)] # "none"
    <3>1. /\ RepairOf(c) \in Issue /\ CanEnter(RepairOf(c)) /\ Enter(RepairOf(c))
          /\ BooksOK(status, ruling, hits)
      BY <1>9, KindsApart DEF Accept, ITypeOK, BooksOK, Status, Ruling
    <3> QED BY <3>1, EnterFacts
  <2> HIDE DEF t
  <2> QED BY <1>0, <1>5, <2>1, <2>2, <2>3
<1>10. ASSUME NEW p \in Page, ReportFinding(p) PROVE Goal
  <2> DEFINE t == [task[Owner] EXCEPT !.left = task[Owner].left \ {p}]
  <2>1. task[Owner] \in Rescanning
    BY <1>0, <1>10, TaskShape DEF ReportFinding
  <2>2. t \in Rescanning /\ t.do = "rescan"
    BY <2>1 DEF Rescanning
  <2>3. task' = [task EXCEPT ![Owner] = t] /\ Owner \notin Visitor /\ t \in Task
    BY <1>10, <2>2, LedgerAssumption DEF ReportFinding, Task
  <2> HIDE DEF t
  <2> QED BY <1>0, <1>5, <2>2, <2>3
<1> QED BY <1>6, <1>7, <1>8, <1>9, <1>10, TaskMoves

\* The types hold on.
LEMMA StepTypes ==
  ASSUME ITypeOK, TodoKnown, AcceptUnderWay, [Next]_vars
  PROVE  ITypeOK'
  BY StepTasks, StepRows, StepRest, RecordsShape DEF ITypeOK, RowsOK, RestOK, BooksOK, Status, Ruling

-----------------------------------------------------------------------------
(* Accepting, rescanning                                                   *)

\* The ruling "accept" is written by the second half of accepting only, and the
\* repair record that the first half made is there for good.
LEMMA StepAccepted ==
  ASSUME ITypeOK, AcceptLeavesRepair, AcceptUnderWay, [Next]_vars
  PROVE  AcceptLeavesRepair'
<1> SUFFICES ASSUME NEW c \in Report, ruling'[c] = "accept"
             PROVE  status'[RepairOf(c)] # "none"
  BY DEF AcceptLeavesRepair
<1>0. /\ BooksOK(status, ruling, hits) /\ c \in Issue /\ RepairOf(c) \in Issue
      /\ \A i \in Issue : status[i] # "none" => status'[i] # "none"
  BY RecordsShape, KindsApart DEF ITypeOK, BooksOK, Status, Ruling
<1>1. ASSUME ruling[c] = "accept" PROVE status'[RepairOf(c)] # "none"
  BY <1>0, <1>1 DEF AcceptLeavesRepair
<1>2. ASSUME NEW i \in Issue, CanEnter(i), Enter(i) PROVE ruling[c] = "accept"
  BY <1>0, <1>2 DEF Enter, BooksOK
<1>3. ASSUME NEW S, NEW to \in {"open", "blocked", "resolved", "dismissed"},
             NEW by \in Ruling, Rule(S, to, by)
      PROVE  ruling[c] = "accept" \/ (by = "accept" /\ c \in S)
  BY <1>0, <1>3 DEF Rule
<1>4. CASE Closing
  <2>1. PICK S \in SUBSET {i \in Issue : Active(i)}, to \in {"blocked", "resolved", "dismissed"},
             by \in Ruling \ {"none"} :
               /\ Rule(S, to, by)
               /\ by = "accept" => ResolveAccepted /\ S = {task[Owner].issue}
    BY <1>4 DEF Closing
  <2>2. CASE ruling[c] = "accept"
    BY <1>1, <2>2
  <2>3. CASE by = "accept" /\ c \in S
    <3>1. task[Owner].do = "accept" /\ task[Owner].issue = c
      BY <2>1, <2>3 DEF ResolveAccepted
    <3> QED BY <1>0, <3>1 DEF AcceptUnderWay
  <2> QED BY <1>3, <2>1, <2>2, <2>3
<1>5. CASE Reporting
  BY <1>1, <1>2, <1>5 DEF Reporting
<1>6. CASE Flipping \/ UNCHANGED <<status, ruling, hits, last, revived>>
  BY <1>1, <1>6 DEF Flipping, Move
<1>7. ASSUME NEW i \in Issue, Reopen(i) PROVE status'[RepairOf(c)] # "none"
  BY <1>1, <1>3, <1>7 DEF Reopen, Ruling
<1>8. ASSUME NEW s \in Source, RowSucceeds(s) PROVE status'[RepairOf(c)] # "none"
  BY <1>1, <1>3, <1>8, SucceedsRules DEF Ruling
<1>9. ASSUME NEW s \in Source, NEW stage \in Stage, RowFails(s, stage)
      PROVE  status'[RepairOf(c)] # "none"
  BY <1>1, <1>2, <1>9, FailsReports, KindsApart DEF FailuresOf
<1> QED BY <1>4, <1>5, <1>6, <1>7, <1>8, <1>9, RecordMoves

\* Nobody but the process that rescans touches findings and rescan rows meanwhile.
LEMMA RescanAlone ==
  ASSUME ITypeOK, task[Owner].do = "rescan", [Next]_vars
  PROVE  \/ EndRescan \/ Crash(Owner)
         \/ \E p \in Page : ReportFinding(p)
         \/ /\ UNCHANGED <<rescans, hits>> /\ task'[Owner] = task[Owner]
            /\ \A q \in Quality : status'[q] = status[q]
<1> DEFINE Same == /\ UNCHANGED <<rescans, hits>> /\ task'[Owner] = task[Owner]
                   /\ \A q \in Quality : status'[q] = status[q]
           Goal == EndRescan \/ Crash(Owner) \/ (\E p \in Page : ReportFinding(p)) \/ Same
<1> SUFFICES Goal
  OBVIOUS
<1>0. ~Free(Owner) /\ task \in [Actor -> Task] /\ Owner \in Actor
  BY DEF Free, Idle, ITypeOK, Actor
<1>1. ASSUME NEW a \in Actor, a # Owner,
             Reconcile(a) \/ WriteFlag(a) \/ ReconcileEnds(a) \/ Crash(a)
                \/ \E f \in Failure : Probe(a, f)
      PROVE  Same
  BY <1>0, <1>1 DEF Reconcile, WriteFlag, ReconcileEnds, Crash, Probe, Drop, queue, books
<1>2. ASSUME NEW a \in Actor, WriteStatus(a) PROVE Same
  <2>1. task[a] \in Reconciling \cup Retrying /\ task[a].flip.part = "status"
    BY <1>2, TaskShape DEF WriteStatus, ITypeOK
  <2>2. task[a].flip \in Flip
    BY <2>1 DEF Reconciling, Retrying
  <2>3. task[a].flip.issue \in Failure
    BY <2>1, <2>2 DEF Flip, NoFlip
  <2>4. a # Owner /\ UNCHANGED <<rescans, hits>>
    BY <1>2 DEF WriteStatus, queue
  <2>5. task'[Owner] = task[Owner]
    BY <1>0, <1>2, <2>4 DEF WriteStatus
  <2>6. \A q \in Quality : status'[q] = status[q]
    BY <1>2, <2>3, KindsApart DEF WriteStatus, Move, ITypeOK
  <2> QED BY <2>4, <2>5, <2>6
<1>3. ASSUME NEW a \in Actor,
             Reconcile(a) \/ WriteFlag(a) \/ WriteStatus(a) \/ ReconcileEnds(a) \/ Crash(a)
                \/ \E f \in Failure : Probe(a, f)
      PROVE  Goal
  <2>1. CASE a = Owner
    BY <1>0, <1>2, <1>3, <2>1 DEF Reconcile, WriteFlag, ReconcileEnds, Probe
  <2>2. CASE a # Owner
    <3> HIDE DEF Same
    <3> QED BY <1>1, <1>2, <1>3, <2>2
  <2> QED BY <2>1, <2>2
<1>4. ASSUME (\E s \in Source : EditFile(s)) \/ (\E p \in Page : EditPage(p)) \/ UNCHANGED vars
      PROVE  Same
  BY <1>4 DEF EditFile, EditPage, vars, queue, books
<1>5. ~SubmitSync /\ ~QueueRetries /\ ~ResolveAccepted
  BY <1>0 DEF SubmitSync, Ask, QueueRetries, ResolveAccepted
<1>6. ASSUME NEW s \in Source
      PROVE  ~RowSucceeds(s) /\ ~RowVoid(s) /\ \A stage \in Stage : ~RowFails(s, stage)
  BY <1>0 DEF RowSucceeds, RowVoid, RowFails
<1>7. /\ \A S \in SUBSET Failure \ {{}} : ~RetryBatch(S)
      /\ \A f \in Failure : ~ProbeRetry(f)
      /\ \A i \in Issue : ~Dismiss(i) /\ ~Reopen(i)
  BY <1>0 DEF RetryBatch, Ask, ProbeRetry, Dismiss, Reopen
<1>8. /\ \A q \in Quality : ~FalsePositive(q) /\ ~RequestRescan(q) /\ ~StartRescan(q)
      /\ \A c \in Report : ~ReportCorrection(c) /\ ~Reject(c) /\ ~KeepUncertain(c) /\ ~Accept(c)
      /\ \A p \in Page : ~ScanAtEnd(p)
  BY <1>0 DEF FalsePositive, RequestRescan, StartRescan, ReportCorrection, Reject, KeepUncertain,
              Accept, ScanAtEnd, Ask
<1> HIDE DEF Same
<1> QED BY <1>3, <1>4, <1>5, <1>6, <1>7, <1>8 DEF Next

\* During a rescan the issue stays active and its count grows by the report of
\* the rescan itself.
LEMMA StepRescan ==
  ASSUME ITypeOK, TodoKnown, RescanUnderWay, [Next]_vars
  PROVE  RescanUnderWay'
<1>0. /\ Owner \in Actor /\ task \in [Actor -> Task] /\ BooksOK(status, ruling, hits)
      /\ Idle.do = "idle"
  BY DEF Actor, ITypeOK, BooksOK, Status, Ruling, Idle
<1>1. CASE task[Owner].do = "rescan"
  <2> DEFINE q == task[Owner].issue
             Before == task[Owner].before
             Found == task[Owner].found
             Left == task[Owner].left
  <2>0. /\ q \in Quality /\ Before \in 0 .. MaxHits /\ task[Owner] \in Rescanning
        /\ q \in rescans /\ Active(q) /\ Left \subseteq Found
        /\ \A p \in Page : q = [kind |-> "finding", page |-> p] =>
             hits[q] = Before + IF p \in Found \ Left THEN 1 ELSE 0
    BY <1>0, <1>1, TaskShape DEF Rescanning, RescanUnderWay
  <2>1. CASE EndRescan \/ Crash(Owner)
    <3>1. task'[Owner].do = "idle"
      BY <1>0, <2>1 DEF EndRescan, Crash, Drop
    <3> QED BY <3>1 DEF RescanUnderWay
  <2>2. CASE UNCHANGED <<rescans, hits>> /\ task'[Owner] = task[Owner]
             /\ \A x \in Quality : status'[x] = status[x]
    BY <1>1, <2>0, <2>2 DEF RescanUnderWay, Active
  <2>3. ASSUME NEW p \in Page, ReportFinding(p) PROVE RescanUnderWay'
    <3> DEFINE r == [kind |-> "finding", page |-> p]
    <3>1. /\ r \in Issue /\ r \in Quality /\ CanEnter(r) /\ Enter(r) /\ p \in Left
          /\ task' = [task EXCEPT ![Owner].left = task[Owner].left \ {p}] /\ rescans' = rescans
      BY <2>3, KindsApart DEF ReportFinding, queue
    <3>2. /\ task'[Owner].do = "rescan" /\ task'[Owner].issue = q /\ task'[Owner].before = Before
          /\ task'[Owner].found = Found /\ task'[Owner].left = Left \ {p}
      BY <1>0, <1>1, <2>0, <3>1 DEF Rescanning
    <3>3. /\ status'[r] \in {"open", "blocked"}
          /\ \A j \in Issue : j # r => status'[j] = status[j]
          /\ \A x \in Quality : hits'[x] = hits[x] + IF x = r THEN 1 ELSE 0
      BY <1>0, <3>1, EnterFacts
    <3>4. status'[q] \in {"open", "blocked"}
      BY <2>0, <3>3, KindsApart DEF Active
    <3>5. ASSUME NEW o \in Page, q = [kind |-> "finding", page |-> o]
          PROVE  hits'[q] = Before + IF o \in Found \ (Left \ {p}) THEN 1 ELSE 0
      <4>1. hits[q] = Before + IF o \in Found \ Left THEN 1 ELSE 0
        BY <2>0, <3>5
      <4>2. hits'[q] = hits[q] + IF q = r THEN 1 ELSE 0
        BY <2>0, <3>3
      <4>3. CASE o = p
        <5>1. q = r /\ o \notin Found \ Left /\ o \in Found \ (Left \ {p})
          BY <2>0, <3>1, <3>5, <4>3
        <5> HIDE DEF q, r, Before, Found, Left
        <5> QED BY <2>0, <4>1, <4>2, <5>1
      <4>4. CASE o # p
        <5>1. q # r
          BY <3>5, <4>4
        <5>2. o \in Found \ Left <=> o \in Found \ (Left \ {p})
          BY <4>4
        <5> HIDE DEF q, r, Before, Found, Left
        <5> QED BY <2>0, <4>1, <4>2, <5>1, <5>2
      <4> QED BY <4>3, <4>4
    <3> QED BY <2>0, <3>1, <3>2, <3>4, <3>5 DEF RescanUnderWay, Active
  <2> QED BY <1>1, <2>1, <2>2, <2>3, RescanAlone
<1>2. CASE task[Owner].do # "rescan"
  <2>1. CASE UNCHANGED task
    BY <1>2, <2>1 DEF RescanUnderWay
  <2>2. CASE Looking
    <3>1. task'[Owner].do # "rescan"
      BY <1>0, <1>2, <2>2 DEF Looking, Reconciling, Retrying
    <3> QED BY <3>1 DEF RescanUnderWay
  <2>3. CASE RescanStarts
    <3>1. PICK q \in Quality :
            /\ StartRescan(q) /\ Active(q) /\ q \in rescans /\ rescans' = rescans
            /\ task' = [task EXCEPT ![Owner] = [do |-> "rescan", issue |-> q,
                          before |-> hits[q], found |-> defects, left |-> defects]]
      BY <2>3 DEF RescanStarts
    <3>2. UNCHANGED <<status, hits>> /\ hits[q] \in Nat
      BY <1>0, <3>1, LedgerAssumption DEF StartRescan, books, BooksOK
    <3>3. task'[Owner] = [do |-> "rescan", issue |-> q, before |-> hits[q],
                          found |-> defects, left |-> defects]
      BY <1>0, <3>1
    <3> QED BY <3>1, <3>2, <3>3 DEF RescanUnderWay, Active
  <2>4. ASSUME NEW c \in Report, Accept(c) PROVE RescanUnderWay'
    <3>1. task'[Owner].do = "accept"
      BY <1>0, <2>4 DEF Accept
    <3> QED BY <3>1 DEF RescanUnderWay
  <2>5. ASSUME NEW p \in Page, ReportFinding(p) PROVE FALSE
    BY <1>2, <2>5 DEF ReportFinding
  <2> QED BY <2>1, <2>2, <2>3, <2>4, <2>5, TaskMoves
<1> QED BY <1>1, <1>2

-----------------------------------------------------------------------------
(* The invariant and the theorems                                          *)

\* Nothing is on the books at the start.
LEMMA InitEstablishesIInv == Init => IInv
<1> SUFFICES ASSUME Init PROVE IInv
  OBVIOUS
<1>0. Idle.do = "idle" /\ Idle \in Task
  BY DEF Idle, Task
<1>1. \A a \in Actor : task[a].do = "idle"
  BY <1>0 DEF Init
<1>2. ITypeOK
  BY <1>0, LedgerAssumption DEF Init, ITypeOK, Actor
<1>3. TodoKnown /\ AcceptUnderWay /\ RescanUnderWay
  BY <1>1 DEF TodoKnown, AcceptUnderWay, RescanUnderWay, Actor
<1>4. FailuresOnBooks
  BY KindsApart DEF Init, FailuresOnBooks, FailuresOf, Active
<1>5. AcceptLeavesRepair
  BY KindsApart DEF Init, AcceptLeavesRepair
<1> QED BY <1>2, <1>3, <1>4, <1>5 DEF IInv

\* The five parts, each kept by its own lemma.
LEMMA NextKeepsIInv == IInv /\ [Next]_vars => IInv'
  BY StepTypes, StepTasks, StepFailures, StepAccepted, StepRescan DEF IInv

\* The books are always in order.
LEMMA AlwaysIInv == Spec => []IInv
  BY InitEstablishesIInv, NextKeepsIInv, PTL DEF Spec

\* Statuses, rulings, marks, rows and tasks keep their shapes, for any sources,
\* stages, pages, corrections, visitors and bounds.
THEOREM LedgerTypeCorrect == Spec => []ITypeOK
<1>1. IInv => ITypeOK
  BY DEF IInv
<1> QED BY <1>1, AlwaysIInv, PTL

\* The failure records tell how the last run of every source ended, whoever marks,
\* dismisses, reopens or retries them from whatever process.
THEOREM FailuresAreOnBooks == Spec => []FailuresOnBooks
<1>1. IInv => FailuresOnBooks
  BY DEF IInv
<1> QED BY <1>1, AlwaysIInv, PTL

\* A correction resolved by accepting it has its repair record, although the two
\* are separate transactions and the process may die between them.
THEOREM AcceptedHasRepair == Spec => []AcceptLeavesRepair
<1>1. IInv => AcceptLeavesRepair
  BY DEF IInv
<1> QED BY <1>1, AlwaysIInv, PTL

\* A rescan resolves a finding exactly when the scan did not see its page.
THEOREM RescanIsSound == Spec => RescanSound
<1> DEFINE Sound == \A p \in Page : LET q == [kind |-> "finding", page |-> p] IN
             task[Owner].do = "rescan" /\ task[Owner].issue = q /\ q \notin rescans' =>
               (status'[q] = "resolved" <=> p \notin task[Owner].found)
<1>1. IInv /\ [Next]_vars => [Sound]_vars
  <2> SUFFICES ASSUME IInv, [Next]_vars, NEW p \in Page,
                      task[Owner].do = "rescan",
                      task[Owner].issue = [kind |-> "finding", page |-> p],
                      [kind |-> "finding", page |-> p] \notin rescans'
               PROVE  status'[[kind |-> "finding", page |-> p]] = "resolved"
                        <=> p \notin task[Owner].found
    OBVIOUS
  <2> DEFINE q == [kind |-> "finding", page |-> p]
             before == task[Owner].before
  <2>0. ITypeOK /\ RescanUnderWay
    BY DEF IInv
  <2>1. q \in rescans /\ Active(q) /\ q \in Issue
    BY <2>0, KindsApart DEF RescanUnderWay
  <2>2. EndRescan
    <3>1. ~Crash(Owner) /\ ~(\E o \in Page : ReportFinding(o)) /\ rescans' # rescans
      BY <2>1 DEF Crash, ReportFinding, queue
    <3> QED BY <2>0, <3>1, RescanAlone
  <2>3. before \in Nat /\ hits[q] = before + IF p \in task[Owner].found THEN 1 ELSE 0
    <3>1. task[Owner] \in Rescanning /\ task[Owner].left = {}
      BY <2>0, <2>2, TaskShape DEF EndRescan, ITypeOK, Actor
    <3> QED BY <2>0, <3>1, LedgerAssumption DEF RescanUnderWay, Rescanning
  <2>4. Verdict(q, before) = IF p \in task[Owner].found THEN "blocked" ELSE "resolved"
    <3> HIDE DEF q, before
    <3> QED BY <2>3 DEF Verdict, StillPresent
  <2>5. Rule({q}, Verdict(q, before), "rescan")
    BY <2>1, <2>2 DEF EndRescan
  <2>6. status'[q] = Verdict(q, before)
    <3> HIDE DEF q, before
    <3> QED BY <2>1, <2>5 DEF Rule
  <2> QED BY <2>4, <2>6
<1>2. Spec => [][Sound]_vars
  BY <1>1, AlwaysIInv, PTL DEF Spec
<1> QED BY <1>2 DEF RescanSound

\* A record the user closed stays closed until the problem is reported again, the
\* user reopens it, or a flip that read it as blocked before writes its status.
THEOREM DecisionsStand == Spec => DecisionStands
<1> DEFINE Stands == \A i \in Issue :
       Terminal(i) /\ ruling[i] = "user" /\ <<status[i], ruling[i]>>' # <<status[i], ruling[i]>> =>
         /\ status'[i] = "open"
         /\ \/ ruling'[i] = "none"
            \/ \E a \in Actor : /\ task[a].do \in {"reconcile", "retry"}
                               /\ task[a].flip.part = "status"
                               /\ task[a].flip.issue = i
                               /\ task[a].flip.seen = "blocked"
<1>1. IInv /\ [Next]_vars => [Stands]_vars
  <2> SUFFICES ASSUME IInv, [Next]_vars, NEW i \in Issue, Terminal(i), ruling[i] = "user",
                      status'[i] # status[i] \/ ruling'[i] # ruling[i]
               PROVE  /\ status'[i] = "open"
                      /\ \/ ruling'[i] = "none"
                         \/ \E a \in Actor : /\ task[a].do \in {"reconcile", "retry"}
                                            /\ task[a].flip.part = "status"
                                            /\ task[a].flip.issue = i
                                            /\ task[a].flip.seen = "blocked"
    OBVIOUS
  <2> DEFINE Goal == /\ status'[i] = "open"
                     /\ \/ ruling'[i] = "none"
                        \/ \E a \in Actor : /\ task[a].do \in {"reconcile", "retry"}
                                           /\ task[a].flip.part = "status"
                                           /\ task[a].flip.issue = i
                                           /\ task[a].flip.seen = "blocked"
  <2> SUFFICES Goal
    OBVIOUS
  <2>0. /\ ITypeOK /\ BooksOK(status, ruling, hits) /\ ~Active(i)
    BY DEF IInv, ITypeOK, BooksOK, Status, Ruling, Terminal, Active
  <2>1. ASSUME NEW j \in Issue, CanEnter(j), Enter(j) PROVE Goal
    BY <2>0, <2>1, EnterFacts
  <2>2. ASSUME NEW S \in SUBSET {j \in Issue : Active(j)},
               NEW to \in {"blocked", "resolved", "dismissed"}, NEW by \in Ruling, Rule(S, to, by)
        PROVE  FALSE
    BY <2>0, <2>2 DEF Rule
  <2>3. CASE Flipping
    <3>1. PICK a \in Actor :
            /\ WriteStatus(a)
            /\ Move(task[a].flip.issue, StatusFor(task[a].flip))
            /\ task[a].flip.issue \in Failure /\ task[a].flip.missing \in BOOLEAN
            /\ task[a].flip.seen \in MovesFrom(task[a].flip)
      BY <2>3 DEF Flipping
    <3>2. task[a].flip.issue = i /\ status'[i] = StatusFor(task[a].flip)
      BY <2>0, <3>1 DEF Move, BooksOK
    <3>3. status'[i] = "open"
      BY <3>1, <3>2, AllowedFacts DEF Move, StatusFor, Terminal
    <3>4. task[a].flip.seen = "blocked"
      BY <3>1, <3>2, <3>3 DEF StatusFor, MovesFrom
    <3> QED BY <3>1, <3>2, <3>3, <3>4 DEF WriteStatus
  <2>4. ASSUME NEW j \in Issue, Reopen(j) PROVE Goal
    BY <2>0, <2>4 DEF Reopen, Rule
  <2> HIDE DEF Goal
  <2>5. CASE Reporting
    BY <2>1, <2>5 DEF Reporting
  <2>6. CASE Closing
    BY <2>2, <2>6 DEF Closing
  <2>7. ASSUME NEW s \in Source, RowSucceeds(s) PROVE Goal
    BY <2>0, <2>2, <2>7, SucceedsRules DEF Ruling
  <2>8. ASSUME NEW s \in Source, NEW stage \in Stage, RowFails(s, stage) PROVE Goal
    BY <2>0, <2>1, <2>8, FailsReports, KindsApart DEF FailuresOf
  <2>9. CASE UNCHANGED <<status, ruling, hits, last, revived>>
    BY <2>9
  <2> QED BY <2>0, <2>3, <2>4, <2>5, <2>6, <2>7, <2>8, <2>9, RecordMoves
<1>2. Spec => [][Stands]_vars
  BY <1>1, AlwaysIInv, PTL DEF Spec
<1> QED BY <1>2 DEF DecisionStands
==============================================================================
