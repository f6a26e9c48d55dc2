------------------------- MODULE SyncPipelineProofs --------------------------
(***************************************************************************)
(* Proofs about SyncPipeline for any processes, sources, contents and      *)
(* bounds.  Its jobs table is a JobQueue: every step of the pipeline is a  *)
(* step of the table or leaves it alone, so what JobQueueProofs proves of  *)
(* the table holds here.                                                   *)
(***************************************************************************)
EXTENDS SyncPipeline, FiniteSetTheorems, SequenceTheorems, TLAPS

QP == INSTANCE JobQueueProofs WITH
        Worker <- Proc, Kind <- {"compile", "delete"},
        Registered <- [p \in Proc |-> {"compile", "delete"}],
        Resource <- Source, Key <- Source, NoKey <- Null

\* The two instances of the table are the same table.
LEMMA SameQueue ==
  /\ JQ!QInit <=> QP!QInit
  /\ JQ!QNext <=> QP!QNext
  /\ JQ!qvars = QP!qvars
  /\ JQ!QTypeOK <=> QP!QTypeOK
<1>1. JQ!QInit <=> QP!QInit
  BY DEF JQ!QInit, QP!QInit
<1>2. JQ!QNext <=> QP!QNext
  BY DEF JQ!QNext, QP!QNext, JQ!Batches, QP!Batches, JQ!Request, QP!Request,
         JQ!Submit, QP!Submit, JQ!Insertable, QP!Insertable, JQ!Occupants, QP!Occupants,
         JQ!Live, QP!Live, JQ!InFlight, QP!InFlight, JQ!NewRow, QP!NewRow,
         JQ!ReleaseKey, QP!ReleaseKey, JQ!Claim, QP!Claim, JQ!NextFor, QP!NextFor,
         JQ!Turn, QP!Turn, JQ!MarkStage, QP!MarkStage, JQ!Finish, QP!Finish,
         JQ!TryFinalize, QP!TryFinalize, JQ!WinsRow, QP!WinsRow, JQ!Cancel, QP!Cancel,
         JQ!Crash, QP!Crash, JQ!Age, QP!Age, JQ!RecoverStale, QP!RecoverStale,
         JQ!Recovered, QP!Recovered
<1>3. JQ!qvars = QP!qvars
  BY DEF JQ!qvars, QP!qvars
<1>4. JQ!QTypeOK <=> QP!QTypeOK
  BY DEF JQ!QTypeOK, QP!QTypeOK, JQ!Row, QP!Row, JQ!InFlight, QP!InFlight,
         JQ!Terminal, QP!Terminal
<1> QED
  BY <1>1, <1>2, <1>3, <1>4

\* What the table asks of its constants is true of the pipeline's.
LEMMA QueueAssumed == QP!QueueAssumption
  BY PipelineAssumption DEF QP!QueueAssumption, Source

\* A step of the table keeps its shape and what its rows are for.
LEMMA QueueStep ==
  JQ!QTypeOK /\ [JQ!QNext]_(JQ!qvars) =>
    /\ JQ!QTypeOK'
    /\ Len(rows) <= Len(rows')
    /\ \A i \in DOMAIN rows : /\ i \in DOMAIN rows'
                              /\ rows'[i].kind = rows[i].kind
                              /\ rows'[i].resource = rows[i].resource
                              /\ rows'[i].payload = rows[i].payload
<1> SUFFICES ASSUME JQ!QTypeOK, [JQ!QNext]_(JQ!qvars)
             PROVE  /\ JQ!QTypeOK'
                    /\ Len(rows) <= Len(rows')
                    /\ \A i \in DOMAIN rows : /\ i \in DOMAIN rows'
                                              /\ rows'[i].kind = rows[i].kind
                                              /\ rows'[i].resource = rows[i].resource
                                              /\ rows'[i].payload = rows[i].payload
  OBVIOUS
<1>1. QP!QTypeOK /\ [QP!QNext]_(QP!qvars)
  BY SameQueue DEF JQ!qvars, QP!qvars
<1>2. QP!QTypeOK'
  BY <1>1, QueueAssumed, QP!StepType
<1>3. JQ!QTypeOK' <=> QP!QTypeOK'
  BY DEF JQ!QTypeOK, QP!QTypeOK, JQ!Row, QP!Row, JQ!InFlight, QP!InFlight,
         JQ!Terminal, QP!Terminal
<1> QED
  BY <1>1, <1>2, <1>3, QueueAssumed, QP!RowsKept

-----------------------------------------------------------------------------
\* What a submission knows once the disk was read, and once its copies are made.
LEMMA ScannedShape ==
  ASSUME TypeOK, NEW p \in Proc, sub[p].step = "scanned"
  PROVE  /\ sub[p].batch \in Batch /\ sub[p].removed \in SUBSET Source
         /\ sub[p].dirty \in SUBSET Source /\ sub[p].scan \in Recorded
<1>1. sub[p] \in SubState
  BY DEF TypeOK
<1> QED
  BY <1>1 DEF SubState, NoSub

\* What a submission has captured.
LEMMA CapturedShape ==
  ASSUME TypeOK, NEW p \in Proc, sub[p].step = "captured"
  PROVE  /\ sub[p].batch \in Batch /\ sub[p].removed \in SUBSET Source
         /\ \E S \in SUBSET Source : sub[p].digest \in [S -> Content]
<1>1. sub[p] \in SubState
  BY DEF TypeOK
<1>2. sub[p] \in [step : {"captured"}, batch : Batch, removed : SUBSET Source, scan : Recorded,
                  digest : UNION {[S -> Content] : S \in SUBSET Source}]
  BY <1>1 DEF SubState, NoSub
<1> QED
  BY <1>2

\* What a retry holds: the requests it has prepared, and the copies it will not
\* use.
LEMMA RetryShape ==
  ASSUME TypeOK, NEW p \in Proc, sub[p].step = "retry"
  PROVE  /\ sub[p] \in [step : {"retry"}, asked : Seq(RetryRequests), spare : SUBSET Batch]
         /\ sub[p].asked \in Seq(RetryRequests) /\ sub[p].spare \in SUBSET Batch
         /\ Len(sub[p].asked) \in Nat /\ DOMAIN sub[p].asked = 1..Len(sub[p].asked)
         /\ \A n \in DOMAIN sub[p].asked :
              /\ sub[p].asked[n] \in RetryRequests
              /\ sub[p].asked[n].kind = "compile" /\ sub[p].asked[n].payload.batch \in Batch
              /\ sub[p].asked[n].payload.digest \in Content
<1>1. sub[p] \in SubState
  BY DEF TypeOK
<1>2. sub[p] \in [step : {"retry"}, asked : Seq(RetryRequests), spare : SUBSET Batch]
  BY <1>1 DEF SubState, NoSub
<1>3. sub[p].asked \in Seq(RetryRequests) /\ sub[p].spare \in SUBSET Batch
  BY <1>2
<1>4. Len(sub[p].asked) \in Nat /\ DOMAIN sub[p].asked = 1..Len(sub[p].asked)
  BY <1>3
<1>5. \A n \in DOMAIN sub[p].asked : sub[p].asked[n] \in RetryRequests
  BY <1>3, <1>4
<1> QED
  BY <1>2, <1>3, <1>4, <1>5 DEF RetryRequests

\* What a retry submits is a batch of the table.
LEMMA RetryIsBatch ==
  ASSUME TypeOK, NEW p \in Proc, sub[p].step = "retry", JQ!Submit(sub[p].asked)
  PROVE  sub[p].asked \in JQ!Batches
<1> USE PipelineAssumption
<1> DEFINE n == Len(sub[p].asked)
<1>1. n \in 1..MaxRows
  BY RetryShape DEF TypeOK, JQ!QTypeOK, JQ!Submit
<1>2. RetryRequests \subseteq JQ!Request
  BY DEF RetryRequests, JQ!Request, Payload
<1>3. sub[p].asked \in [1..n -> JQ!Request]
  BY <1>2, RetryShape
<1> QED
  BY <1>1, <1>3 DEF JQ!Batches

\* A request grows by a copy under the next number, and keeps what it has.
LEMMA RetryGrows ==
  ASSUME TypeOK, NEW p \in Proc, NEW s \in Source, RetryCapture(p, s)
  PROVE  /\ \A q \in Proc : q # p => sub'[q] = sub[q]
         /\ sub'[p] \in [step : {"retry"}, asked : Seq(RetryRequests), spare : SUBSET Batch]
         /\ nbatch' = nbatch + 1 /\ snaps' = snaps \cup {nbatch'}
         /\ \/ /\ \A n \in DOMAIN sub'[p].asked :
                    \/ n \in DOMAIN Asking(p).asked /\ sub'[p].asked[n] = Asking(p).asked[n]
                    \/ sub'[p].asked[n].payload.batch = nbatch'
               /\ sub'[p].spare = Asking(p).spare
               /\ Copies(sub'[p]) = Copies(Asking(p)) \cup {nbatch'}
            \/ /\ sub'[p].asked = Asking(p).asked
               /\ sub'[p].spare = Asking(p).spare \cup {nbatch'}
               /\ Copies(sub'[p]) = Copies(Asking(p)) \cup {nbatch'}
<1> USE PipelineAssumption
<1> DEFINE x == Asking(p)
           b == nbatch + 1
           R == [step : {"retry"}, asked : Seq(RetryRequests), spare : SUBSET Batch]
<1>1. x \in R
  <2>1. CASE sub[p].step = "retry"
    BY <2>1, RetryShape DEF Asking
  <2>2. CASE sub[p].step # "retry"
    BY <2>2 DEF Asking
  <2> QED BY <2>1, <2>2
<1>2. /\ nbatch \in Nat /\ b \in Batch /\ nbatch' = b /\ snaps' = snaps \cup {b}
      /\ disk[s] \in Content /\ sub \in [Proc -> SubState]
  BY DEF RetryCapture, TypeOK, Recorded, Batch
<1> DEFINE req == RetryRequest(s, b)
<1>3. req \in RetryRequests /\ req.payload.batch = b
  BY <1>2 DEF RetryRequest, RetryRequests
<1>4. \/ sub' = [sub EXCEPT ![p] = [x EXCEPT !.asked = Append(x.asked, req)]]
      \/ sub' = [sub EXCEPT ![p] = [x EXCEPT !.spare = x.spare \cup {b}]]
  BY <1>2 DEF RetryCapture
<1> HIDE DEF x, b, req
<1>5. CASE sub' = [sub EXCEPT ![p] = [x EXCEPT !.asked = Append(x.asked, req)]]
  <2>1. sub'[p] = [x EXCEPT !.asked = Append(x.asked, req)]
    BY <1>2, <1>5
  <2>2. /\ x.asked \in Seq(RetryRequests) /\ Len(x.asked) \in Nat
        /\ DOMAIN x.asked = 1..Len(x.asked)
    BY <1>1
  <2>3. /\ sub'[p].asked = Append(x.asked, req) /\ sub'[p].spare = x.spare
        /\ sub'[p] \in R
    <3>1. Append(x.asked, req) \in Seq(RetryRequests)
      BY <1>3, <2>2, AppendProperties
    <3>2. \A y \in R, a \in Seq(RetryRequests) :
            LET z == [y EXCEPT !.asked = a]
            IN  z.asked = a /\ z.spare = y.spare /\ z \in R
      OBVIOUS
    <3> QED BY <1>1, <2>1, <3>1, <3>2
  <2>4. /\ DOMAIN sub'[p].asked = 1 .. Len(x.asked) + 1
        /\ sub'[p].asked[Len(x.asked) + 1] = req
        /\ \A n \in DOMAIN x.asked : sub'[p].asked[n] = x.asked[n]
    <3> DEFINE a == x.asked
               c == Append(a, req)
    <3>1. a \in Seq(RetryRequests) /\ req \in RetryRequests
      BY <1>3, <2>2
    <3> HIDE DEF a, req
    <3>2. /\ c \in Seq(RetryRequests) /\ Len(c) = Len(a) + 1
          /\ \A n \in 1..Len(a) : c[n] = a[n]
          /\ c[Len(a) + 1] = req
      BY <3>1, AppendProperties
    <3>3. DOMAIN c = 1 .. Len(a) + 1
      BY <3>2
    <3> QED BY <2>2, <2>3, <3>2, <3>3 DEF a
  <2>5. \A n \in DOMAIN sub'[p].asked : n \in DOMAIN x.asked \/ n = Len(x.asked) + 1
    BY <2>2, <2>4
  <2>6. req.payload.batch = b
    BY <1>3
  <2>7. {sub'[p].asked[n].payload.batch : n \in DOMAIN sub'[p].asked}
          = {x.asked[n].payload.batch : n \in DOMAIN x.asked} \cup {b}
    <3>1. \A n \in DOMAIN x.asked : n \in DOMAIN sub'[p].asked
      BY <2>2, <2>4
    <3>2. Len(x.asked) + 1 \in DOMAIN sub'[p].asked
      BY <2>2, <2>4
    <3> QED BY <2>4, <2>5, <2>6, <3>1, <3>2
  <2>8. Copies(sub'[p]) = Copies(x) \cup {b}
    BY <2>3, <2>7 DEF Copies
  <2> QED
    <3>1. \A q \in Proc : q # p => sub'[q] = sub[q]
      BY <1>2, <1>5
    <3>2. sub'[p] \in [step : {"retry"}, asked : Seq(RetryRequests), spare : SUBSET Batch]
      BY <2>3
    <3>3. \A n \in DOMAIN sub'[p].asked :
            \/ n \in DOMAIN x.asked /\ sub'[p].asked[n] = x.asked[n]
            \/ sub'[p].asked[n].payload.batch = nbatch'
      BY <1>2, <2>4, <2>5, <2>6
    <3>4. nbatch' = nbatch + 1 /\ snaps' = snaps \cup {nbatch'}
      BY <1>2 DEF b
    <3> QED
      BY <1>2, <2>3, <2>8, <3>1, <3>2, <3>3, <3>4 DEF x
<1>6. CASE sub' = [sub EXCEPT ![p] = [x EXCEPT !.spare = x.spare \cup {b}]]
  <2>1. sub'[p] = [x EXCEPT !.spare = x.spare \cup {b}]
    BY <1>2, <1>6
  <2>2. sub'[p].asked = x.asked /\ sub'[p].spare = x.spare \cup {b} /\ sub'[p] \in R
    BY <1>1, <1>2, <2>1
  <2>3. Copies(sub'[p]) = Copies(x) \cup {b}
    BY <2>2 DEF Copies
  <2> QED
    <3>1. \A q \in Proc : q # p => sub'[q] = sub[q]
      BY <1>2, <1>6
    <3>2. nbatch' = nbatch + 1 /\ snaps' = snaps \cup {nbatch'}
      BY <1>2 DEF b
    <3> QED
      BY <1>2, <2>2, <2>3, <3>1, <3>2 DEF x
<1> QED
  BY <1>4, <1>5, <1>6

\* Sets of sources are finite, so they have a size.
LEMMA SourcesFinite ==
  ASSUME NEW S \in SUBSET Source
  PROVE  IsFiniteSet(S) /\ Cardinality(S) \in Nat
<1>1. IsFiniteSet(Source)
  BY PipelineAssumption, FS_Interval DEF Source
<1> QED
  BY <1>1, FS_Subset, FS_CardinalityType

\* A submission queues requests of the table, at least one and not too many.
LEMMA OrdersAreBatches ==
  ASSUME TypeOK, NEW p \in Proc, sub[p].step = "captured",
         NEW reqs \in SyncOrders(sub[p]), JQ!Submit(reqs)
  PROVE  /\ reqs \in JQ!Batches
         /\ \A m \in DOMAIN reqs : reqs[m].kind = "delete" => reqs[m].payload.digest = Null
<1> USE PipelineAssumption
<1> DEFINE n == Cardinality(DOMAIN sub[p].digest) + Cardinality(sub[p].removed)
           R == SyncRequests(sub[p])
<1>1. PICK S \in SUBSET Source : sub[p].digest \in [S -> Content]
  BY CapturedShape
<1>2. n \in Nat
  BY <1>1, CapturedShape, SourcesFinite
<1>3. R \subseteq JQ!Request
  BY <1>1, CapturedShape DEF SyncRequests, JQ!Request, Payload
<1>4. \A req \in R : req.kind = "delete" => req.payload.digest = Null
  BY DEF SyncRequests
<1>5. reqs \in [1..n -> R]
  BY DEF SyncOrders
<1> HIDE DEF n, R
<1>6. Len(reqs) = n /\ DOMAIN reqs = 1..n
  BY <1>2, <1>5
<1>7. n \in 1..MaxRows
  <2>1. Len(rows) \in Nat
    BY DEF TypeOK, JQ!QTypeOK
  <2> QED
    BY <1>2, <1>6, <2>1 DEF JQ!Submit
<1>8. reqs \in [1..n -> JQ!Request]
  BY <1>3, <1>5
<1>9. \A m \in 1..n : reqs[m] \in R
  BY <1>5
<1> QED
  BY <1>4, <1>6, <1>7, <1>8, <1>9 DEF JQ!Batches

\* Every step of the pipeline is one transaction of the table or none.
LEMMA QueueMoves == TypeOK /\ [Next]_vars => [JQ!QNext]_(JQ!qvars)
<1> SUFFICES ASSUME TypeOK, [Next]_vars
             PROVE  [JQ!QNext]_(JQ!qvars)
  OBVIOUS
<1> USE PipelineAssumption
<1>1. ASSUME NEW p \in Proc, Lifecycle(p)
      PROVE  [JQ!QNext]_(JQ!qvars)
  BY <1>1 DEF Lifecycle, Construct, Sweep, Start, Refused, Close, database,
              JQ!QNext, JQ!qvars
<1>2. ASSUME NEW p \in Proc, CloseCompiling(p) \/ Crash(p)
      PROVE  [JQ!QNext]_(JQ!qvars)
  BY <1>2 DEF CloseCompiling, Crash, JQ!QNext, JQ!qvars
<1>3. ASSUME NEW p \in Proc, Inspect(p) \/ Capture(p)
      PROVE  [JQ!QNext]_(JQ!qvars)
  BY <1>3 DEF Inspect, Capture, database, JQ!qvars
<1>4. ASSUME NEW p \in Proc, Enqueue(p)
      PROVE  [JQ!QNext]_(JQ!qvars)
  BY <1>4, OrdersAreBatches DEF Enqueue, JQ!QNext
<1>5. ASSUME NEW p \in Proc, RetryBroken(p) \/ \E s \in Source : RetryCapture(p, s)
      PROVE  [JQ!QNext]_(JQ!qvars)
  BY <1>5 DEF RetryBroken, RetryCapture, database, JQ!qvars
<1>6. ASSUME NEW p \in Proc, RetryEnqueue(p)
      PROVE  [JQ!QNext]_(JQ!qvars)
  <2>1. CASE UNCHANGED <<rows, exec, journal>>
    BY <2>1 DEF JQ!qvars
  <2>2. CASE JQ!Submit(sub[p].asked)
    BY <1>6, <2>2, RetryIsBatch DEF RetryEnqueue, JQ!QNext
  <2> QED
    BY <1>6, <2>1, <2>2 DEF RetryEnqueue
<1>7. ASSUME NEW p \in Proc, WorkerStep(p)
      PROVE  [JQ!QNext]_(JQ!qvars)
  <2>1. CASE Begin(p) \/ Report(p)
    BY <2>1 DEF Begin, Report, JQ!QNext
  <2>2. CASE Settle(p)
    BY <2>2 DEF Settle, JQ!QNext
  <2>3. CASE WritePages(p) \/ Book(p) \/ BookingFails(p) \/ DropBatch(p)
    BY <2>3 DEF WritePages, Book, BookingFails, DropBatch, database, JQ!qvars
  <2>4. CASE CompileSucceeds(p) \/ DeleteSucceeds(p)
               \/ \E r \in {"ingest_error", "raised"} : HandlerFails(p, r)
    BY <2>4 DEF CompileSucceeds, DeleteSucceeds, HandlerFails, Reports, database, JQ!qvars
  <2> QED
    BY <1>7, <2>1, <2>2, <2>3, <2>4 DEF WorkerStep
<1>8. ASSUME NEW s \in Source, Edit(s)
      PROVE  [JQ!QNext]_(JQ!qvars)
  BY <1>8 DEF Edit, database, JQ!qvars
<1>9. ASSUME NEW i \in DOMAIN rows, Elapse(i)
      PROVE  [JQ!QNext]_(JQ!qvars)
  BY <1>9 DEF Elapse, JQ!QNext
<1>10. CASE UNCHANGED vars
  BY <1>10 DEF vars, database, JQ!qvars
<1> QED
  BY <1>1, <1>2, <1>3, <1>4, <1>5, <1>6, <1>7, <1>8, <1>9, <1>10 DEF Next, Submission

-----------------------------------------------------------------------------
\* The worker executes a row exactly while it is between the claim and the
\* verdict, and the outcome it books is one of the table's.
Placed ==
  \A p \in Proc :
    /\ phase[p] \in {"compiling", "deleting", "settling"} <=> exec[p] # 0
    /\ phase[p] \in {"booking", "dropping"} => done[p] \in DOMAIN rows

\* A process is up exactly while it holds the lock, and does nothing otherwise.
Owner ==
  \A p \in Proc :
    /\ mode[p] = "up" <=> lock = p
    /\ mode[p] # "up" => Idle(p)

\* A row that deletes names no content.
Deletions ==
  \A i \in DOMAIN rows : rows[i].kind = "delete" => rows[i].payload.digest = Null

\* What is written and not committed belongs to the row that is executed.
OwnPages ==
  \A p \in Proc, s \in Source :
    /\ phase[p] = "compiling" /\ s # Subject(p) => tree[s] = head[s]
    /\ phase[p] = "deleting" =>
         /\ Job(p).kind = "delete"
         /\ s # Subject(p) \/ s \notin pages => tree[s] = head[s]

PInv == TypeOK /\ Placed /\ Owner /\ Deletions /\ OwnPages /\ HeadWhole

\* The invariant holds before any process is started.
LEMMA InitPInv == Init => PInv
<1> SUFFICES ASSUME Init PROVE PInv
  OBVIOUS
<1> USE PipelineAssumption
<1>1. TypeOK
  <2>1. JQ!QTypeOK
    BY SameQueue, QueueAssumed, QP!InitType DEF Init
  <2> QED
    BY <2>1 DEF Init, TypeOK, Recorded, SubState, Result, Phase
<1>2. Placed
  BY DEF Init, JQ!QInit, Placed
<1>3. Owner
  BY DEF Init, Owner, Idle
<1>4. Deletions
  BY DEF Init, JQ!QInit, Deletions
<1>5. OwnPages /\ HeadWhole
  BY DEF Init, OwnPages, HeadWhole
<1> QED
  BY <1>1, <1>2, <1>3, <1>4, <1>5 DEF PInv

-----------------------------------------------------------------------------
\* Who is up holds the lock: it is taken in Start and given back in Gone only.
LEMMA StepOwner == TypeOK /\ Owner /\ [Next]_vars => Owner'
<1> SUFFICES ASSUME TypeOK, Owner, [Next]_vars
             PROVE  Owner'
  OBVIOUS
<1> USE PipelineAssumption
<1>1. ASSUME NEW p \in Proc, Gone(p)
      PROVE  Owner'
  BY <1>1 DEF Gone, Owner, Idle, TypeOK
<1>2. ASSUME NEW p \in Proc, mode[p] = "up", UNCHANGED <<lock, mode>>,
             \A q \in Proc : q # p => sub'[q] = sub[q] /\ phase'[q] = phase[q]
      PROVE  Owner'
  BY <1>2 DEF Owner, Idle
<1>3. ASSUME NEW p \in Proc, Lifecycle(p)
      PROVE  Owner'
  <2>1. CASE Construct(p) \/ Sweep(p)
    BY <2>1 DEF Construct, Sweep, Owner, Idle, TypeOK, worker
  <2>2. CASE Start(p)
    BY <2>2 DEF Start, LockFree, Owner, Idle, TypeOK, worker
  <2>3. CASE Refused(p) \/ Close(p)
    BY <1>1, <2>3 DEF Refused, Close
  <2> QED
    BY <1>3, <2>1, <2>2, <2>3 DEF Lifecycle
<1>4. ASSUME NEW p \in Proc, CloseCompiling(p) \/ Crash(p)
      PROVE  Owner'
  BY <1>1, <1>4 DEF CloseCompiling, Crash
<1>5. ASSUME NEW p \in Proc, Submission(p) \/ \E s \in Source : RetryCapture(p, s)
      PROVE  Owner'
  <2>1. mode[p] = "up"
    BY <1>5 DEF Submission, Inspect, Capture, Enqueue, RetryBroken, RetryEnqueue, RetryCapture, Yielded,
                Owner, Idle, NoSub
  <2>2. UNCHANGED <<lock, mode>>
    BY <1>5 DEF Submission, Inspect, Capture, Enqueue, RetryBroken, RetryEnqueue, RetryCapture, process
  <2>3. UNCHANGED phase
    BY <1>5 DEF Submission, Inspect, Capture, Enqueue, RetryBroken, RetryEnqueue, RetryCapture, worker
  <2>4. \A q \in Proc : q # p => sub'[q] = sub[q]
    BY <1>5 DEF Submission, Inspect, Capture, Enqueue, RetryBroken, RetryEnqueue, RetryCapture, TypeOK
  <2> QED
    BY <1>2, <2>1, <2>2, <2>3, <2>4
<1>6. ASSUME NEW p \in Proc, WorkerStep(p)
      PROVE  Owner'
  <2>1. mode[p] = "up"
    BY <1>6 DEF WorkerStep, Begin, Report, WritePages, CompileSucceeds, DeleteSucceeds,
                HandlerFails, Settle, Book, BookingFails, DropBatch, Working, Owner, Idle
  <2>2. UNCHANGED <<lock, mode, sub>>
    BY <1>6 DEF WorkerStep, Begin, Report, WritePages, CompileSucceeds, DeleteSucceeds,
                HandlerFails, Reports, Settle, Book, BookingFails, DropBatch, process
  <2>3. \A q \in Proc : q # p => phase'[q] = phase[q]
    BY <1>6 DEF WorkerStep, Begin, Report, WritePages, CompileSucceeds, DeleteSucceeds,
                HandlerFails, Reports, Settle, Book, BookingFails, DropBatch, worker, TypeOK
  <2> QED
    BY <1>2, <2>1, <2>2, <2>3
<1>7. ASSUME UNCHANGED <<process, sub, worker>>
      PROVE  Owner'
  BY <1>7 DEF process, worker, Owner, Idle
<1> QED
  BY <1>3, <1>4, <1>5, <1>6, <1>7 DEF Next, Edit, Elapse, vars

-----------------------------------------------------------------------------
\* The rows there were are still there, for the same work.
LEMMA RowsStay ==
  TypeOK /\ [Next]_vars =>
    /\ JQ!QTypeOK'
    /\ \A i \in DOMAIN rows : /\ i \in DOMAIN rows'
                              /\ rows'[i].kind = rows[i].kind
                              /\ rows'[i].resource = rows[i].resource
                              /\ rows'[i].payload = rows[i].payload
  BY QueueMoves, QueueStep DEF TypeOK

\* A row is for a source, and carries the batch and the content of its copy.
LEMMA RowShape ==
  ASSUME TypeOK, NEW i \in DOMAIN rows
  PROVE  /\ rows[i].resource \in Source
         /\ rows[i].payload.batch \in Batch
         /\ rows[i].payload.digest \in Content \cup {Null}
<1>1. rows[i] \in JQ!Row
  BY DEF TypeOK, JQ!QTypeOK
<1> QED
  BY <1>1 DEF JQ!Row, Payload

\* The row a process executes is in the table.
LEMMA ExecutedRow ==
  ASSUME TypeOK, NEW p \in Proc, exec[p] # 0
  PROVE  /\ exec[p] \in DOMAIN rows /\ exec[p] \in 1..MaxRows
         /\ Subject(p) \in Source
         /\ Job(p).payload.digest \in Content \cup {Null}
<1>1. exec[p] \in DOMAIN rows /\ exec[p] \in 1..MaxRows
  BY PipelineAssumption DEF TypeOK, JQ!QTypeOK
<1> QED
  BY <1>1, RowShape DEF Subject, Job

\* A row is executed from Begin to Settle, CloseCompiling or Crash.
LEMMA StepPlaced == TypeOK /\ Placed /\ Owner /\ [Next]_vars => Placed'
<1> SUFFICES ASSUME TypeOK, Placed, Owner, [Next]_vars
             PROVE  Placed'
  OBVIOUS
<1> USE PipelineAssumption
<1>0. \A i \in DOMAIN rows : i \in DOMAIN rows'
  BY RowsStay
<1>1. ASSUME NEW p \in Proc, phase' = [phase EXCEPT ![p] = "idle"], exec'[p] = 0,
             \A q \in Proc : q # p => exec'[q] = exec[q] /\ done'[q] = done[q]
      PROVE  Placed'
  BY <1>0, <1>1 DEF Placed, TypeOK
<1>2. ASSUME UNCHANGED <<phase, exec, done>>
      PROVE  Placed'
  BY <1>0, <1>2 DEF Placed
<1>3. ASSUME NEW p \in Proc, NEW to \in {"settling", "dropping"},
             phase' = [phase EXCEPT ![p] = to], UNCHANGED <<exec, done>>,
             phase[p] \in (IF to = "settling" THEN {"compiling", "deleting"} ELSE {"booking"})
      PROVE  Placed'
  BY <1>0, <1>3 DEF Placed, TypeOK
<1>4. ASSUME NEW p \in Proc, Lifecycle(p)
      PROVE  Placed'
  <2>1. CASE Construct(p) \/ Sweep(p) \/ Start(p)
    BY <1>2, <2>1 DEF Construct, Sweep, Start, database, worker, JQ!RecoverStale
  <2>2. CASE Refused(p) \/ Close(p)
    <3>1. exec[p] = 0
      BY <2>2 DEF Refused, Close, Idle, Placed, Owner
    <3> QED
      BY <1>1, <2>2, <3>1 DEF Refused, Close, Gone, database, TypeOK
  <2> QED
    BY <1>4, <2>1, <2>2 DEF Lifecycle
<1>5. ASSUME NEW p \in Proc, CloseCompiling(p) \/ Crash(p)
      PROVE  Placed'
  BY <1>1, <1>5 DEF CloseCompiling, Crash, Gone, JQ!Cancel, JQ!Crash, TypeOK, JQ!QTypeOK
<1>6. ASSUME NEW p \in Proc, Submission(p) \/ \E s \in Source : RetryCapture(p, s)
      PROVE  Placed'
  BY <1>2, <1>6 DEF Submission, Inspect, Capture, Enqueue, RetryBroken, RetryEnqueue, RetryCapture,
                    database, worker, JQ!Submit
<1>7. ASSUME NEW p \in Proc, WorkerStep(p)
      PROVE  Placed'
  <2>1. CASE Begin(p)
    <3>1. PICK i \in DOMAIN rows : exec' = [exec EXCEPT ![p] = i]
      BY <2>1 DEF Begin, JQ!Claim
    <3>2. i # 0
      BY DEF TypeOK, JQ!QTypeOK
    <3>3. /\ phase'[p] \in {"compiling", "deleting", "settling"}
          /\ \A q \in Proc : q # p => phase'[q] = phase[q] /\ exec'[q] = exec[q]
          /\ exec'[p] = i
          /\ UNCHANGED done
      BY <2>1, <3>1 DEF Begin, Entry, TypeOK, JQ!QTypeOK
    <3> QED
      BY <1>0, <3>2, <3>3 DEF Placed
  <2>2. CASE Report(p) \/ WritePages(p)
    BY <1>2, <2>2 DEF Report, WritePages, database, worker, JQ!MarkStage
  <2>3. CASE CompileSucceeds(p) \/ DeleteSucceeds(p)
               \/ \E r \in {"ingest_error", "raised"} : HandlerFails(p, r)
    <3>1. phase[p] \in {"compiling", "deleting"} /\ phase' = [phase EXCEPT ![p] = "settling"]
      BY <2>3 DEF CompileSucceeds, DeleteSucceeds, HandlerFails, Reports, Working
    <3>2. UNCHANGED <<exec, done>>
      BY <2>3 DEF CompileSucceeds, DeleteSucceeds, HandlerFails, Reports, database
    <3> QED
      BY <1>3, <3>1, <3>2
  <2>4. CASE Settle(p)
    <3>1. exec[p] \in DOMAIN rows
      BY <2>4, ExecutedRow DEF Settle, Working, Placed
    <3>2. /\ phase'[p] = "idle" \/ (phase'[p] = "booking" /\ done'[p] = exec[p])
          /\ exec'[p] = 0
          /\ \A q \in Proc : q # p => /\ phase'[q] = phase[q]
                                      /\ exec'[q] = exec[q]
                                      /\ done'[q] = done[q]
      BY <2>4 DEF Settle, JQ!Finish, TypeOK, JQ!QTypeOK
    <3> QED
      BY <1>0, <3>1, <3>2 DEF Placed
  <2>5. CASE Book(p) \/ BookingFails(p)
    BY <1>3, <2>5 DEF Book, BookingFails, Working, database
  <2>6. CASE DropBatch(p)
    <3>1. exec[p] = 0
      BY <2>6 DEF DropBatch, Working, Placed
    <3> QED
      BY <1>1, <2>6, <3>1 DEF DropBatch, database, TypeOK
  <2> QED
    BY <1>7, <2>1, <2>2, <2>3, <2>4, <2>5, <2>6 DEF WorkerStep
<1>8. CASE (\E s \in Source : Edit(s)) \/ (\E i \in DOMAIN rows : Elapse(i)) \/ UNCHANGED vars
  BY <1>2, <1>8 DEF Edit, Elapse, JQ!Age, vars, database, worker
<1> QED
  BY <1>4, <1>5, <1>6, <1>7, <1>8 DEF Next

-----------------------------------------------------------------------------
\* Every step keeps every variable within its values.
LEMMA StepPipelineType == TypeOK /\ Placed /\ [Next]_vars => TypeOK'
<1> SUFFICES ASSUME TypeOK, Placed, [Next]_vars
             PROVE  TypeOK'
  OBVIOUS
<1> USE PipelineAssumption
<1>0. JQ!QTypeOK'
  BY RowsStay
<1>1. ASSUME NEW p \in Proc, Gone(p)
      PROVE  /\ lock' \in Proc \cup {Null}
             /\ mode' \in [Proc -> {"down", "sweeping", "built", "up"}]
             /\ mem' \in [Proc -> Recorded] /\ keep' \in [Proc -> SUBSET Batch]
             /\ sub' \in [Proc -> SubState]
             /\ phase' \in [Proc -> Phase]
             /\ result' \in [Proc -> Result] /\ done' \in [Proc -> 0..MaxRows]
  BY <1>1 DEF Gone, TypeOK, Recorded, SubState, Result, Phase
<1>2. ASSUME NEW p \in Proc, Lifecycle(p)
      PROVE  TypeOK'
  <2>1. CASE Construct(p)
    <3>1. LiveBatches \in SUBSET Batch
      BY RowShape DEF LiveBatches, BatchOf, Live, JQ!Live
    <3> QED
      BY <1>0, <2>1, <3>1 DEF Construct, TypeOK, database, records, wiki, worker, bounds
  <2>2. CASE Sweep(p)
    BY <1>0, <2>2 DEF Sweep, TypeOK, database, records, wiki, worker, bounds
  <2>3. CASE Start(p)
    BY <1>0, <2>3 DEF Start, TypeOK, records, wiki, worker, bounds
  <2>4. CASE Refused(p) \/ Close(p)
    BY <1>0, <1>1, <2>4 DEF Refused, Close, TypeOK, database, records, wiki, bounds
  <2> QED
    BY <1>2, <2>1, <2>2, <2>3, <2>4 DEF Lifecycle
<1>3. ASSUME NEW p \in Proc, CloseCompiling(p)
      PROVE  TypeOK'
  BY <1>0, <1>1, <1>3 DEF CloseCompiling, TypeOK, records, bounds
<1>4. ASSUME NEW p \in Proc, Crash(p)
      PROVE  TypeOK'
  BY <1>0, <1>1, <1>4 DEF Crash, TypeOK, records, wiki
<1>5. ASSUME NEW p \in Proc, Submission(p) \/ \E s \in Source : RetryCapture(p, s)
      PROVE  TypeOK'
  <2>1. CASE Inspect(p)
    <3>1. Dirty(p) \in SUBSET Source /\ Removed(p) \in SUBSET Source
      BY DEF Dirty, Removed
    <3>2. pending' \subseteq Source
      BY <2>1 DEF Inspect, VanishedClosed, TypeOK
    <3>3. nbatch' \in 0..MaxBatches
      BY <2>1 DEF Inspect, TypeOK
    <3>4. sub' \in [Proc -> SubState]
      <4>1. CASE UNCHANGED sub
        BY <4>1 DEF TypeOK
      <4>2. ASSUME nbatch < MaxBatches, nbatch' = nbatch + 1
            PROVE  [step |-> "scanned", batch |-> nbatch', dirty |-> Dirty(p),
                    removed |-> Removed(p), scan |-> disk] \in SubState
        BY <3>1, <4>2 DEF SubState, Batch, TypeOK
      <4> QED
        BY <2>1, <4>1, <4>2 DEF Inspect, TypeOK
    <3> QED
      BY <1>0, <2>1, <3>2, <3>3, <3>4 DEF Inspect, TypeOK, records, wiki, process, worker
  <2>2. CASE Capture(p)
    <3>1. /\ sub[p].batch \in Batch /\ sub[p].removed \in SUBSET Source
          /\ sub[p].dirty \in SUBSET Source /\ sub[p].scan \in Recorded
      BY <2>2, ScannedShape DEF Capture
    <3>2. snaps' \in SUBSET Batch
      BY <2>2, <3>1 DEF Capture, TypeOK
    <3>3. ASSUME \A s \in sub[p].dirty : disk[s] # Null
          PROVE  [step |-> "captured", batch |-> sub[p].batch, removed |-> sub[p].removed,
                  scan |-> sub[p].scan, digest |-> [s \in sub[p].dirty |-> disk[s]]] \in SubState
      <4>1. [s \in sub[p].dirty |-> disk[s]] \in [sub[p].dirty -> Content]
        BY <3>1, <3>3 DEF TypeOK, Recorded
      <4> QED
        BY <3>1, <4>1 DEF SubState
    <3>4. sub' \in [Proc -> SubState]
      BY <2>2, <3>3 DEF Capture, TypeOK, SubState
    <3> QED
      BY <1>0, <2>2, <3>2, <3>4
         DEF Capture, TypeOK, database, records, wiki, process, worker, bounds
  <2>3. CASE Enqueue(p) \/ RetryBroken(p) \/ RetryEnqueue(p)
    <3>1. pending' \subseteq Source /\ snaps' \subseteq Batch
      BY <2>3 DEF Enqueue, RetryBroken, RetryEnqueue, VanishedClosed, RefusedCopies, TypeOK,
                  database
    <3>2. sub' \in [Proc -> SubState]
      BY <2>3 DEF Enqueue, RetryBroken, RetryEnqueue, TypeOK, SubState
    <3> QED
      BY <1>0, <2>3, <3>1, <3>2 DEF Enqueue, RetryBroken, RetryEnqueue, TypeOK, database,
                                    records, wiki, process, worker, bounds
  <2>4. ASSUME NEW s \in Source, RetryCapture(p, s)
        PROVE  TypeOK'
    <3>1. nbatch' \in Batch /\ nbatch' \in 0..MaxBatches
      BY <2>4 DEF RetryCapture, TypeOK, Batch
    <3>2. sub'[p] \in SubState /\ \A q \in Proc : q # p => sub'[q] = sub[q]
      BY <2>4, RetryGrows DEF SubState
    <3>3. sub' \in [Proc -> SubState]
      <4>1. \E y : sub' = [sub EXCEPT ![p] = y]
        BY <2>4 DEF RetryCapture
      <4> QED BY <3>2, <4>1 DEF TypeOK
    <3> QED
      BY <1>0, <2>4, <3>1, <3>3 DEF RetryCapture, TypeOK, database, records, wiki, process,
                                    worker
  <2> QED
    BY <1>5, <2>1, <2>2, <2>3, <2>4 DEF Submission
<1>6. ASSUME NEW p \in Proc, WorkerStep(p)
      PROVE  TypeOK'
  <2>1. CASE Begin(p)
    <3>1. ASSUME NEW row
          PROVE  /\ Entry(p, row).phase \in {"compiling", "deleting", "settling"}
                 /\ Entry(p, row).result \in Result
      BY DEF Entry, Result
    <3>2. /\ phase' \in [Proc -> Phase]
          /\ result' \in [Proc -> Result]
      BY <2>1, <3>1 DEF Begin, TypeOK, Phase
    <3> QED
      BY <1>0, <2>1, <3>2 DEF Begin, PreReset, TypeOK, records, process, bounds
  <2>2. CASE Report(p)
    BY <1>0, <2>2 DEF Report, TypeOK, records, wiki, process, worker, bounds
  <2>3. CASE WritePages(p)
    <3>1. tree' \in [Source -> Content \cup {Null, Partial}]
      BY <2>3 DEF WritePages, TypeOK
    <3> QED
      BY <1>0, <2>3, <3>1 DEF WritePages, TypeOK, database, records, process, worker, bounds
  <2>4. CASE CompileSucceeds(p) \/ DeleteSucceeds(p)
    <3>1. exec[p] # 0
      BY <2>4 DEF CompileSucceeds, DeleteSucceeds, Working, Placed
    <3>2. Subject(p) \in Source /\ CopyRead(p) \in Content \cup {Null}
      BY <3>1, ExecutedRow DEF CopyRead
    <3>3. tree[Subject(p)] \in Content \cup {Null, Partial}
      BY <3>2 DEF TypeOK
    <3>4. /\ tree' \in [Source -> Content \cup {Null, Partial}]
          /\ head' = tree'
          /\ ahead' \subseteq Source
      BY <2>4, <3>2, <3>3 DEF CompileSucceeds, DeleteSucceeds, Commit, TypeOK, wiki
    <3>5. /\ phase' \in [Proc -> Phase]
          /\ result' \in [Proc -> Result]
      BY <2>4 DEF CompileSucceeds, DeleteSucceeds, Reports, TypeOK, Result, Phase
    <3> QED
      BY <1>0, <2>4, <3>4, <3>5 DEF CompileSucceeds, DeleteSucceeds, Reports, TypeOK, database,
                                    process, bounds
  <2>5. ASSUME NEW r \in {"ingest_error", "raised"}, HandlerFails(p, r)
        PROVE  TypeOK'
    <3>1. /\ phase' \in [Proc -> Phase]
          /\ result' \in [Proc -> Result]
      BY <2>5 DEF HandlerFails, Reports, TypeOK, Result, Phase
    <3> QED
      BY <1>0, <2>5, <3>1 DEF HandlerFails, Reports, TypeOK, database, process, bounds
  <2>6. CASE Settle(p)
    <3>1. exec[p] \in 1..MaxRows /\ Subject(p) \in Source
      BY <2>6, ExecutedRow DEF Settle, Working, Placed
    <3>2. pending' \subseteq Source
      BY <2>6, <3>1 DEF Settle, PendingAfter, TypeOK
    <3>3. /\ phase' \in [Proc -> Phase]
          /\ done' \in [Proc -> 0..MaxRows]
      BY <2>6, <3>1 DEF Settle, TypeOK, Phase
    <3> QED
      BY <1>0, <2>6, <3>2, <3>3 DEF Settle, TypeOK, records, wiki, process, bounds
  <2>7. CASE Book(p) \/ BookingFails(p)
    <3>1. /\ DoneRow(p).resource \in Source
          /\ DoneRow(p).payload.digest \in Content \cup {Null}
      BY <2>7, RowShape DEF Book, BookingFails, Working, Placed, DoneRow
    <3>2. BookedPages(p) \subseteq Source
      BY <3>1 DEF BookedPages, TypeOK
    <3>3. BookedMem(p) \in Recorded
      BY <3>1 DEF BookedMem, TypeOK, Recorded
    <3>4. /\ pages' \subseteq Source /\ ahead' \subseteq Source
          /\ mem' \in [Proc -> Recorded] /\ file' \in Recorded
      BY <2>7, <3>2, <3>3 DEF Book, BookingFails, records, TypeOK
    <3>5. phase' \in [Proc -> Phase]
      BY <2>7 DEF Book, BookingFails, TypeOK, Phase
    <3>6. faults' \in 0..MaxFaults
      BY <2>7 DEF Book, BookingFails, bounds, TypeOK
    <3> QED
      BY <1>0, <2>7, <3>4, <3>5, <3>6 DEF Book, BookingFails, TypeOK, database, wiki, bounds
  <2>8. CASE DropBatch(p)
    <3>1. /\ phase' \in [Proc -> Phase]
          /\ result' \in [Proc -> Result]
          /\ done' \in [Proc -> 0..MaxRows]
      BY <2>8 DEF DropBatch, TypeOK, Result, Phase
    <3>2. snaps' \subseteq Batch
      BY <2>8 DEF DropBatch, TypeOK
    <3> QED
      BY <1>0, <2>8, <3>1, <3>2 DEF DropBatch, TypeOK, database, records, wiki, process, bounds
  <2> QED
    BY <1>6, <2>1, <2>2, <2>3, <2>4, <2>5, <2>6, <2>7, <2>8 DEF WorkerStep
<1>7. ASSUME NEW s \in Source, Edit(s)
      PROVE  TypeOK'
  <2>1. disk' \in Recorded /\ edits' \in 0..MaxEdits
    BY <1>7 DEF Edit, TypeOK, Recorded
  <2> QED
    BY <1>0, <1>7, <2>1 DEF Edit, TypeOK, database, records, wiki, process, worker
<1>8. ASSUME NEW i \in DOMAIN rows, Elapse(i)
      PROVE  TypeOK'
  BY <1>0, <1>8 DEF Elapse, TypeOK, records, wiki, process, worker, bounds
<1>9. CASE UNCHANGED vars
  BY <1>0, <1>9 DEF TypeOK, vars, database, records, wiki, process, worker, bounds
<1> QED
  BY <1>2, <1>3, <1>4, <1>5, <1>6, <1>7, <1>8, <1>9 DEF Next

-----------------------------------------------------------------------------
\* Only the rows of a submission are new, and its deletes name no content.
LEMMA StepDeletions == TypeOK /\ Deletions /\ [Next]_vars => Deletions'
<1> SUFFICES ASSUME TypeOK, Deletions, [Next]_vars
             PROVE  Deletions'
  OBVIOUS
<1>0. /\ rows \in Seq(JQ!Row) /\ Len(rows) \in Nat /\ DOMAIN rows = 1..Len(rows)
      /\ \A i \in DOMAIN rows : rows'[i].kind = rows[i].kind /\ rows'[i].payload = rows[i].payload
  BY RowsStay DEF TypeOK, JQ!QTypeOK
<1>1. ASSUME DOMAIN rows' = DOMAIN rows
      PROVE  Deletions'
  BY <1>0, <1>1 DEF Deletions
<1>2. ASSUME NEW p \in Proc, Enqueue(p)
      PROVE  Deletions'
  <2>1. PICK reqs \in SyncOrders(sub[p]) : JQ!Submit(reqs)
    BY <1>2 DEF Enqueue
  <2>2. /\ Len(reqs) \in Nat /\ DOMAIN reqs = 1..Len(reqs)
        /\ \A m \in DOMAIN reqs : reqs[m].kind = "delete" => reqs[m].payload.digest = Null
    BY <1>2, <2>1, OrdersAreBatches DEF Enqueue, JQ!Batches
  <2>3. DOMAIN rows' = 1 .. Len(rows) + Len(reqs)
    BY <2>1 DEF JQ!Submit
  <2>4. ASSUME NEW i \in DOMAIN rows', i \notin DOMAIN rows
        PROVE  rows'[i].kind = "delete" => rows'[i].payload.digest = Null
    <3>1. i - Len(rows) \in DOMAIN reqs /\ rows'[i] = JQ!NewRow(reqs[i - Len(rows)])
      BY <1>0, <2>1, <2>2, <2>3, <2>4 DEF JQ!Submit
    <3> QED
      BY <2>2, <3>1 DEF JQ!NewRow
  <2> QED
    BY <1>0, <2>4 DEF Deletions
<1>3. ASSUME NEW p \in Proc, RetryEnqueue(p)
      PROVE  Deletions'
  <2>1. CASE UNCHANGED <<rows, exec, journal>>
    BY <1>1, <2>1
  <2>2. CASE JQ!Submit(sub[p].asked)
    <3>1. /\ Len(sub[p].asked) \in Nat /\ DOMAIN sub[p].asked = 1..Len(sub[p].asked)
          /\ \A n \in DOMAIN sub[p].asked : sub[p].asked[n].kind = "compile"
      BY <1>3, RetryShape DEF RetryEnqueue
    <3> DEFINE reqs == sub[p].asked
    <3> HIDE DEF reqs
    <3>2. ASSUME NEW i \in DOMAIN rows', i \notin DOMAIN rows
          PROVE  i - Len(rows) \in DOMAIN reqs /\ rows'[i] = JQ!NewRow(reqs[i - Len(rows)])
      BY <1>0, <2>2, <3>1, <3>2 DEF JQ!Submit, reqs
    <3>3. \A i \in DOMAIN rows' : i \notin DOMAIN rows => rows'[i].kind = "compile"
      BY <3>1, <3>2 DEF JQ!NewRow, reqs
    <3> QED
      BY <1>0, <3>3 DEF Deletions
  <2> QED
    BY <1>3, <2>1, <2>2 DEF RetryEnqueue
<1>4. ASSUME NEW p \in Proc,
             \/ Lifecycle(p) \/ CloseCompiling(p) \/ Crash(p) \/ Inspect(p) \/ Capture(p)
             \/ RetryBroken(p) \/ \E s \in Source : RetryCapture(p, s)
      PROVE  Deletions'
  BY <1>1, <1>4 DEF Lifecycle, Construct, Sweep, Start, Refused, Close, CloseCompiling, Crash,
                    Inspect, Capture, RetryBroken, RetryCapture, database, JQ!RecoverStale, JQ!Cancel,
                    JQ!TryFinalize, JQ!Crash
<1>5. ASSUME NEW p \in Proc, WorkerStep(p)
      PROVE  Deletions'
  BY <1>1, <1>5 DEF WorkerStep, Begin, Report, WritePages, CompileSucceeds, DeleteSucceeds,
                    HandlerFails, Reports, Settle, Book, BookingFails, DropBatch, database,
                    JQ!Claim, JQ!MarkStage, JQ!Finish, JQ!TryFinalize
<1>6. CASE (\E s \in Source : Edit(s)) \/ (\E i \in DOMAIN rows : Elapse(i)) \/ UNCHANGED vars
  BY <1>1, <1>6 DEF Edit, Elapse, JQ!Age, vars, database
<1> QED
  BY <1>2, <1>3, <1>4, <1>5, <1>6 DEF Next, Submission

-----------------------------------------------------------------------------
\* The only two steps that commit take over what is written for their own row.
LEMMA CommitsOwn ==
  ASSUME TypeOK, Placed, Deletions, OwnPages, NEW p \in Proc,
         CompileSucceeds(p) \/ DeleteSucceeds(p)
  PROVE  /\ exec[p] # 0
         /\ \A s \in Source : s # Subject(p) => head'[s] = head[s]
         /\ head'[Subject(p)] \in {head[Subject(p)], Job(p).payload.digest}
         /\ head' # head => head'[Subject(p)] = Job(p).payload.digest
         /\ head' \in [Source -> Content \cup {Null, Partial}]
<1>1. exec[p] # 0 /\ phase[p] \in {"compiling", "deleting"}
  BY DEF CompileSucceeds, DeleteSucceeds, Working, Placed
<1>2. Subject(p) \in Source /\ exec[p] \in DOMAIN rows
      /\ Job(p).payload.digest \in Content \cup {Null}
  BY <1>1, ExecutedRow
<1>3. head \in [Source -> Content \cup {Null, Partial}]
      /\ tree \in [Source -> Content \cup {Null, Partial}]
  BY DEF TypeOK
<1>4. CASE CompileSucceeds(p)
  <2>1. /\ \A s \in Source : s # Subject(p) => tree[s] = head[s]
        /\ head' = [tree EXCEPT ![Subject(p)] = Job(p).payload.digest]
    BY <1>4 DEF CompileSucceeds, Working, Commit, CopyRead, OwnPages
  <2> QED
    BY <1>1, <1>2, <1>3, <2>1
<1>5. CASE DeleteSucceeds(p)
  <2>1. /\ Job(p).kind = "delete"
        /\ \A s \in Source : s # Subject(p) \/ s \notin pages => tree[s] = head[s]
    BY <1>2, <1>5 DEF DeleteSucceeds, Working, OwnPages
  <2>2. Job(p).payload.digest = Null
    BY <1>2, <2>1 DEF Deletions, Job
  <2>3. CASE Subject(p) \in pages
    <3>1. head' = [tree EXCEPT ![Subject(p)] = Null]
      BY <1>5, <2>3 DEF DeleteSucceeds, Commit
    <3> QED
      BY <1>1, <1>2, <1>3, <2>1, <2>2, <3>1
  <2>4. CASE Subject(p) \notin pages
    <3>1. head' = tree
      BY <1>5, <2>4 DEF DeleteSucceeds
    <3>2. \A s \in Source : tree[s] = head[s]
      BY <2>1, <2>4
    <3>3. head' = head
      BY <1>3, <3>1, <3>2
    <3> QED
      BY <1>1, <1>2, <1>3, <3>3
  <2> QED
    BY <2>3, <2>4
<1> QED
  BY <1>4, <1>5

\* No other step commits.
LEMMA OnlyCommits ==
  [Next]_vars /\ head' # head => \E p \in Proc : CompileSucceeds(p) \/ DeleteSucceeds(p)
<1> SUFFICES ASSUME [Next]_vars, ~ \E p \in Proc : CompileSucceeds(p) \/ DeleteSucceeds(p)
             PROVE  head' = head
  OBVIOUS
<1>1. ASSUME NEW p \in Proc, Lifecycle(p) \/ CloseCompiling(p) \/ Crash(p)
      PROVE  head' = head
  BY <1>1 DEF Lifecycle, Construct, Sweep, Start, Refused, Close, CloseCompiling, Crash, wiki
<1>2. ASSUME NEW p \in Proc, Submission(p) \/ \E s \in Source : RetryCapture(p, s)
      PROVE  head' = head
  BY <1>2 DEF Submission, Inspect, Capture, Enqueue, RetryBroken, RetryEnqueue, RetryCapture, wiki
<1>3. ASSUME NEW p \in Proc, WorkerStep(p)
      PROVE  head' = head
  BY <1>3 DEF WorkerStep, Begin, Report, WritePages, HandlerFails, Settle, Book, BookingFails,
              DropBatch, wiki
<1>4. CASE (\E s \in Source : Edit(s)) \/ (\E i \in DOMAIN rows : Elapse(i)) \/ UNCHANGED vars
  BY <1>4 DEF Edit, Elapse, vars, wiki
<1> QED
  BY <1>1, <1>2, <1>3, <1>4 DEF Next

\* A commit takes over whole pages only.
LEMMA StepHeadWhole == PInv /\ [Next]_vars => HeadWhole'
<1> SUFFICES ASSUME PInv, [Next]_vars
             PROVE  HeadWhole'
  OBVIOUS
<1>1. CASE head' = head
  BY <1>1 DEF PInv, HeadWhole
<1>2. CASE head' # head
  <2>1. PICK p \in Proc : CompileSucceeds(p) \/ DeleteSucceeds(p)
    BY <1>2, OnlyCommits
  <2>2. /\ \A s \in Source : s # Subject(p) => head'[s] = head[s]
        /\ head'[Subject(p)] = Job(p).payload.digest
        /\ Job(p).payload.digest \in Content \cup {Null}
    BY <1>2, <2>1, CommitsOwn, ExecutedRow DEF PInv
  <2> QED
    BY <2>2, PipelineAssumption DEF PInv, HeadWhole
<1> QED
  BY <1>1, <1>2

\* A commit is made by the process that executes the row it is for.
LEMMA StepCommits ==
  PInv /\ [Next]_vars =>
    [head' # head =>
       \E p \in Proc : /\ exec[p] # 0
                       /\ head' = [head EXCEPT ![Subject(p)] = head'[Subject(p)]]
                       /\ head'[Subject(p)] = Job(p).payload.digest]_vars
<1> SUFFICES ASSUME PInv, [Next]_vars, head' # head
             PROVE  \E p \in Proc : /\ exec[p] # 0
                                    /\ head' = [head EXCEPT ![Subject(p)] = head'[Subject(p)]]
                                    /\ head'[Subject(p)] = Job(p).payload.digest
  OBVIOUS
<1>1. PICK p \in Proc : CompileSucceeds(p) \/ DeleteSucceeds(p)
  BY OnlyCommits
<1>2. /\ exec[p] # 0
      /\ \A s \in Source : s # Subject(p) => head'[s] = head[s]
      /\ head'[Subject(p)] = Job(p).payload.digest
      /\ head' \in [Source -> Content \cup {Null, Partial}]
      /\ head \in [Source -> Content \cup {Null, Partial}]
  BY <1>1, CommitsOwn DEF PInv, TypeOK
<1>3. Subject(p) \in Source
  BY <1>2, ExecutedRow DEF PInv
<1>4. head' = [head EXCEPT ![Subject(p)] = head'[Subject(p)]]
  BY <1>2, <1>3
<1> QED
  BY <1>2, <1>4

-----------------------------------------------------------------------------
\* Work on the pages starts from HEAD, and stays under the row's source.
LEMMA StepOwnPages == PInv /\ [Next]_vars => OwnPages'
<1> SUFFICES ASSUME PInv, [Next]_vars
             PROVE  OwnPages'
  OBVIOUS
<1> USE PipelineAssumption
<1>0. /\ TypeOK /\ Placed /\ Owner /\ OwnPages
      /\ \A i \in DOMAIN rows : /\ rows'[i].kind = rows[i].kind
                                /\ rows'[i].resource = rows[i].resource
      /\ \A p \in Proc : phase[p] \in {"compiling", "deleting"} => exec[p] \in DOMAIN rows
  BY RowsStay, ExecutedRow DEF PInv, Placed
<1> DEFINE Executes(p) == phase[p] \in {"compiling", "deleting"}
\* Nothing is written, and no process starts to execute a row.
<1>1. ASSUME UNCHANGED <<tree, head, pages>>,
             \A q \in Proc : Executes(q)' => phase'[q] = phase[q] /\ exec'[q] = exec[q]
      PROVE  OwnPages'
  BY <1>0, <1>1 DEF OwnPages, Subject, Job
\* Only the process that is up executes a row.
<1>2. ASSUME NEW p \in Proc, mode[p] = "up", ~Executes(p)',
             \A q \in Proc : q # p => phase'[q] = phase[q]
      PROVE  OwnPages'
  BY <1>0, <1>2 DEF OwnPages, Owner, Idle
<1>3. ASSUME NEW p \in Proc, Lifecycle(p) \/ Crash(p)
      PROVE  OwnPages'
  <2>1. UNCHANGED <<tree, head, pages>>
    BY <1>3 DEF Lifecycle, Construct, Sweep, Start, Refused, Close, Crash, wiki, records
  <2>2. \A q \in Proc : Executes(q)' => phase'[q] = phase[q] /\ exec'[q] = exec[q]
    BY <1>0, <1>3 DEF Lifecycle, Construct, Sweep, Start, Refused, Close, Crash, Gone, database,
                      worker, JQ!RecoverStale, JQ!Crash, TypeOK, JQ!QTypeOK
  <2> QED
    BY <1>1, <2>1, <2>2
<1>4. ASSUME NEW p \in Proc, CloseCompiling(p)
      PROVE  OwnPages'
  BY <1>0, <1>2, <1>4 DEF CloseCompiling, Gone, TypeOK
<1>5. ASSUME NEW p \in Proc, Submission(p) \/ \E s \in Source : RetryCapture(p, s)
      PROVE  OwnPages'
  BY <1>1, <1>5 DEF Submission, Inspect, Capture, Enqueue, RetryBroken, RetryEnqueue, RetryCapture, database,
                    wiki, records, worker, JQ!Submit
<1>6. ASSUME NEW p \in Proc, WorkerStep(p)
      PROVE  OwnPages'
  <2>0. mode[p] = "up" /\ \A q \in Proc : q # p => ~Executes(q)
    BY <1>0, <1>6 DEF WorkerStep, Begin, Report, WritePages, CompileSucceeds, DeleteSucceeds,
                      HandlerFails, Settle, Book, BookingFails, DropBatch, Working, Owner, Idle
  <2>1. CASE Begin(p)
    <3>1. PICK i \in DOMAIN rows : exec' = [exec EXCEPT ![p] = i]
      BY <2>1 DEF Begin, JQ!Claim
    <3>2. exec'[p] = i /\ phase'[p] = Entry(p, rows[i]).phase
      BY <1>0, <2>1, <3>1 DEF Begin, TypeOK, JQ!QTypeOK
    <3>3. phase'[p] = "deleting" => rows'[i].kind = "delete"
      BY <1>0, <3>2 DEF Entry
    <3>4. tree' = head' /\ \A q \in Proc : q # p => ~Executes(q)'
      BY <1>0, <2>0, <2>1 DEF Begin, PreReset, TypeOK
    <3> QED
      BY <3>2, <3>3, <3>4 DEF OwnPages, Job
  <2>2. CASE Report(p)
    BY <1>1, <2>2 DEF Report, JQ!MarkStage, wiki, records, worker
  <2>3. CASE WritePages(p)
    <3>1. /\ tree' = [tree EXCEPT ![Subject(p)] = Partial]
          /\ phase[p] = "deleting" => Subject(p) \in pages
          /\ UNCHANGED <<rows, exec, phase, head, pages>>
      BY <2>3 DEF WritePages, Working, database, records, worker
    <3>2. \A s \in Source : s # Subject(p) => tree'[s] = tree[s]
      BY <1>0, <3>1 DEF TypeOK
    <3> QED
      BY <1>0, <2>0, <3>1, <3>2 DEF OwnPages, Subject, Job
  <2>4. CASE CompileSucceeds(p) \/ DeleteSucceeds(p)
               \/ \E r \in {"ingest_error", "raised"} : HandlerFails(p, r)
    BY <1>0, <1>2, <2>0, <2>4 DEF CompileSucceeds, DeleteSucceeds, HandlerFails, Reports, TypeOK
  <2>5. CASE Settle(p) \/ Book(p) \/ BookingFails(p) \/ DropBatch(p)
    BY <1>0, <1>2, <2>0, <2>5 DEF Settle, Book, BookingFails, DropBatch, TypeOK
  <2> QED
    BY <1>6, <2>1, <2>2, <2>3, <2>4, <2>5 DEF WorkerStep
<1>7. CASE (\E s \in Source : Edit(s)) \/ (\E i \in DOMAIN rows : Elapse(i)) \/ UNCHANGED vars
  BY <1>1, <1>7 DEF Edit, Elapse, JQ!Age, vars, database, records, wiki, worker
<1> QED
  BY <1>3, <1>4, <1>5, <1>6, <1>7 DEF Next

-----------------------------------------------------------------------------
\* The invariant is inductive.
LEMMA StepPInv == PInv /\ [Next]_vars => PInv'
  BY StepPipelineType, StepPlaced, StepOwner, StepDeletions, StepOwnPages, StepHeadWhole DEF PInv

\* So it holds in every reachable state.
LEMMA AlwaysPInv == Spec => []PInv
  BY InitPInv, StepPInv, PTL DEF Spec

\* Every variable keeps to its values.
THEOREM PipelineTypeCorrect == Spec => []TypeOK
<1>1. PInv => TypeOK
  BY DEF PInv
<1> QED
  BY <1>1, AlwaysPInv, PTL

\* The lock of the workspace has one holder, and only the holder runs a row or
\* a submission (exec_lock.py).
THEOREM OneWriter == Spec => []ExclusiveWriter
<1>1. PInv => ExclusiveWriter
  BY DEF PInv, ExclusiveWriter, Owner, Placed, Idle
<1> QED
  BY <1>1, AlwaysPInv, PTL

\* HEAD never holds the pages of an unfinished compile or cleanup: the resets of
\* WikiWriteSession are where they have to be.
THEOREM HeadStaysWhole == Spec => []HeadWhole
<1>1. PInv => HeadWhole
  BY DEF PInv
<1> QED
  BY <1>1, AlwaysPInv, PTL

\* A commit carries the pages of the row that made it and of no other source.
THEOREM CommitsAreOwn == Spec => OwnCommitOnly
  BY AlwaysPInv, StepCommits, PTL DEF Spec, OwnCommitOnly

\* The pipeline uses its table as JobQueue says: nothing it does is anything but
\* a transaction of the table.
THEOREM PipelineDrivesQueue == Spec => JQ!QSpec
<1>1. Init => JQ!QInit
  BY DEF Init
<1> QED
  BY <1>1, PipelineTypeCorrect, QueueMoves, PTL DEF Spec, JQ!QSpec

\* So the outcome of a row is applied once through crashes, stops and
\* recoveries, and a source has at most one row in flight.
THEOREM PipelineSettlesOnce == Spec => [](JQ!SettledOnce /\ JQ!OneInFlightPerResource)
<1>1. QP!QInit <=> JQ!QInit
  BY SameQueue
<1>2. [QP!QNext]_(QP!qvars) <=> [JQ!QNext]_(JQ!qvars)
  BY SameQueue DEF JQ!qvars, QP!qvars
<1>3. QP!SettledOnce <=> JQ!SettledOnce
  BY DEF JQ!SettledOnce, QP!SettledOnce
<1>4. QP!OneInFlightPerResource <=> JQ!OneInFlightPerResource
  BY DEF JQ!OneInFlightPerResource, QP!OneInFlightPerResource, JQ!Live, QP!Live, JQ!InFlight,
         QP!InFlight
<1>5. QP!QSpec => [](QP!SettledOnce /\ QP!OneInFlightPerResource)
  <2>1. QP!QSpec => []QP!SettledOnce
    BY QueueAssumed, QP!OutcomeOnce
  <2>2. QP!QSpec => []QP!OneInFlightPerResource
    BY QueueAssumed, QP!OccupiedOnce
  <2> QED
    BY <2>1, <2>2, PTL
<1>6. JQ!QSpec <=> QP!QSpec
  BY <1>1, <1>2, PTL DEF JQ!QSpec, QP!QSpec
<1> QED
  BY <1>3, <1>4, <1>5, <1>6, PipelineDrivesQueue, PTL

-----------------------------------------------------------------------------
\* Nothing is in flight while a sync is between its look at the gate and its
\* transaction: nobody else can queue, and the rows in flight only get fewer.
Together ==
  \A p \in Proc : sub[p].step \in {"scanned", "captured"} => Live = {}

\* Only a submission puts a row in flight.
LEMMA LiveShrinks ==
  TypeOK /\ [Next]_vars /\ ~(\E p \in Proc : Enqueue(p) \/ RetryEnqueue(p))
    => Live' \subseteq Live
<1> SUFFICES ASSUME TypeOK, [Next]_vars, ~ \E p \in Proc : Enqueue(p) \/ RetryEnqueue(p)
             PROVE  Live' \subseteq Live
  OBVIOUS
<1>0. /\ rows \in Seq(JQ!Row) /\ DOMAIN rows = 1..Len(rows) /\ Len(rows) \in Nat
      /\ \A p \in Proc : exec[p] # 0 => exec[p] \in DOMAIN rows
  BY ExecutedRow DEF TypeOK, JQ!QTypeOK
<1>1. ASSUME NEW i \in DOMAIN rows, rows' = [rows EXCEPT ![i] = rows'[i]],
             rows'[i].status \in {"queued", "running"} => rows[i].status \in {"queued", "running"}
      PROVE  Live' \subseteq Live
  BY <1>0, <1>1 DEF Live, JQ!Live, JQ!InFlight
<1>2. ASSUME UNCHANGED rows
      PROVE  Live' \subseteq Live
  BY <1>2 DEF Live, JQ!Live
<1>3. ASSUME NEW i \in DOMAIN rows, NEW status \in {"succeeded", "failed", "cancelled"},
             JQ!TryFinalize(i, status)
      PROVE  Live' \subseteq Live
  <2>1. CASE JQ!WinsRow(i)
    <3>1. rows' = [rows EXCEPT ![i] = JQ!Turn(rows[i], status)]
      BY <1>3, <2>1 DEF JQ!TryFinalize
    <3>2. rows'[i] = JQ!Turn(rows[i], status)
      BY <1>0, <3>1
    <3>3. rows'[i].status = status
      BY <3>2 DEF JQ!Turn
    <3> QED
      BY <1>1, <3>1, <3>2, <3>3
  <2> QED
    BY <1>2, <1>3, <2>1 DEF JQ!TryFinalize
<1>4. ASSUME NEW p \in Proc, Lifecycle(p) \/ CloseCompiling(p) \/ Crash(p)
      PROVE  Live' \subseteq Live
  <2>1. CASE Start(p)
    <3>1. UNCHANGED rows \/ rows' = [i \in DOMAIN rows |-> JQ!Recovered(rows[i])]
      BY <2>1 DEF Start, JQ!RecoverStale
    <3>2. \A i \in DOMAIN rows : JQ!Recovered(rows[i]).status # rows[i].status
                                   => rows[i].status = "running"
      BY DEF JQ!Recovered
    <3> QED
      BY <1>2, <3>1, <3>2 DEF Live, JQ!Live, JQ!InFlight
  <2>2. CASE CloseCompiling(p)
    BY <1>0, <1>3, <2>2 DEF CloseCompiling, JQ!Cancel
  <2>3. CASE Construct(p) \/ Sweep(p) \/ Refused(p) \/ Close(p) \/ Crash(p)
    BY <1>2, <2>3 DEF Construct, Sweep, Refused, Close, Crash, JQ!Crash, database
  <2> QED
    BY <1>4, <2>1, <2>2, <2>3 DEF Lifecycle
<1>5. ASSUME NEW p \in Proc, \/ Inspect(p) \/ Capture(p) \/ RetryBroken(p)
                             \/ \E s \in Source : RetryCapture(p, s)
      PROVE  Live' \subseteq Live
  BY <1>2, <1>5 DEF Inspect, Capture, RetryBroken, RetryCapture, database
<1>6. ASSUME NEW p \in Proc, WorkerStep(p)
      PROVE  Live' \subseteq Live
  <2>1. CASE Begin(p)
    <3>1. PICK i \in DOMAIN rows : /\ rows[i].status = "queued"
                                   /\ rows' = [rows EXCEPT ![i] = JQ!Turn(rows[i], "running")]
      BY <2>1 DEF Begin, JQ!Claim, JQ!NextFor
    <3>2. rows' = [rows EXCEPT ![i] = rows'[i]]
      BY <1>0, <3>1
    <3> QED
      BY <1>1, <3>1, <3>2
  <2>2. CASE Report(p)
    <3>1. /\ exec[p] \in DOMAIN rows
          /\ rows' = [rows EXCEPT ![exec[p]] = [rows[exec[p]] EXCEPT !.stale = FALSE]]
      BY <1>0, <2>2 DEF Report, JQ!MarkStage
    <3>2. [rows[exec[p]] EXCEPT !.stale = FALSE].status = rows[exec[p]].status
      BY <1>0, <3>1 DEF JQ!Row
    <3>3. rows'[exec[p]] = [rows[exec[p]] EXCEPT !.stale = FALSE]
      BY <1>0, <3>1
    <3> QED
      BY <1>1, <3>1, <3>2, <3>3
  <2>3. CASE Settle(p)
    BY <1>0, <1>3, <2>3 DEF Settle, JQ!Finish
  <2>4. CASE ~(Begin(p) \/ Report(p) \/ Settle(p))
    BY <1>2, <1>6, <2>4 DEF WorkerStep, WritePages, CompileSucceeds, DeleteSucceeds, HandlerFails,
                            Reports, Book, BookingFails, DropBatch, database
  <2> QED
    BY <2>1, <2>2, <2>3, <2>4
<1>7. ASSUME NEW i \in DOMAIN rows, Elapse(i)
      PROVE  Live' \subseteq Live
  <2>1. rows' = [rows EXCEPT ![i] = [rows[i] EXCEPT !.stale = TRUE]] /\ rows[i].status = "running"
    BY <1>7 DEF Elapse, JQ!Age
  <2>2. rows' = [rows EXCEPT ![i] = rows'[i]]
    BY <1>0, <2>1
  <2> QED
    BY <1>1, <2>1, <2>2
<1>8. CASE (\E s \in Source : Edit(s)) \/ UNCHANGED vars
  BY <1>2, <1>8 DEF Edit, vars, database
<1> QED
  BY <1>4, <1>5, <1>6, <1>7, <1>8 DEF Next, Submission

\* A sync that has begun finds the queue as empty as it was.
LEMMA StepTogether == TypeOK /\ Owner /\ Together /\ [Next]_vars => Together'
<1> SUFFICES ASSUME TypeOK, Owner, Together, [Next]_vars
             PROVE  Together'
  OBVIOUS
<1> USE PipelineAssumption
<1>1. ASSUME NEW p \in Proc, Enqueue(p) \/ RetryEnqueue(p)
      PROVE  Together'
  <2>1. \A q \in Proc : sub'[q] = NoSub
    BY <1>1 DEF Enqueue, RetryEnqueue, Owner, Idle, TypeOK, NoSub
  <2> QED
    BY <2>1 DEF Together, NoSub
<1>2. ASSUME Live' \subseteq Live,
             \A q \in Proc : sub'[q].step \in {"scanned", "captured"} =>
                               sub[q].step \in {"scanned", "captured"} \/ Live = {}
      PROVE  Together'
  BY <1>2 DEF Together
<1>3. CASE ~ \E p \in Proc : Enqueue(p) \/ RetryEnqueue(p)
  <2>1. Live' \subseteq Live
    BY <1>3, LiveShrinks
  <2>2. ASSUME NEW p \in Proc, Inspect(p)
        PROVE  \A q \in Proc : sub'[q].step \in {"scanned", "captured"} =>
                                 sub[q].step \in {"scanned", "captured"} \/ Live = {}
    BY <2>2 DEF Inspect, GateOpen
  <2>3. ASSUME NEW p \in Proc, Capture(p)
        PROVE  \A q \in Proc : sub'[q].step \in {"scanned", "captured"} =>
                                 sub[q].step \in {"scanned", "captured"} \/ Live = {}
    BY <2>3 DEF Capture, TypeOK
  <2>4. ASSUME NEW p \in Proc, Lifecycle(p) \/ CloseCompiling(p) \/ Crash(p) \/ RetryBroken(p)
        PROVE  \A q \in Proc : sub'[q].step \in {"scanned", "captured"} =>
                                 sub[q].step \in {"scanned", "captured"} \/ Live = {}
    BY <2>4 DEF Lifecycle, Construct, Sweep, Start, Refused, Close, CloseCompiling, Crash, Gone,
                RetryBroken, TypeOK, NoSub
  <2>5. ASSUME NEW p \in Proc, NEW s \in Source, RetryCapture(p, s)
        PROVE  \A q \in Proc : sub'[q].step \in {"scanned", "captured"} =>
                                 sub[q].step \in {"scanned", "captured"} \/ Live = {}
    BY <2>5, RetryGrows DEF TypeOK
  <2>6. ASSUME UNCHANGED sub
        PROVE  \A q \in Proc : sub'[q].step \in {"scanned", "captured"} =>
                                 sub[q].step \in {"scanned", "captured"} \/ Live = {}
    BY <2>6
  <2>7. ASSUME NEW p \in Proc, WorkerStep(p)
        PROVE  UNCHANGED sub
    BY <2>7 DEF WorkerStep, Begin, Report, WritePages, CompileSucceeds, DeleteSucceeds,
                HandlerFails, Reports, Settle, Book, BookingFails, DropBatch
  <2>8. ASSUME (\E s \in Source : Edit(s)) \/ (\E i \in DOMAIN rows : Elapse(i)) \/ UNCHANGED vars
        PROVE  UNCHANGED sub
    BY <2>8 DEF Edit, Elapse, vars
  <2> QED
    BY <1>2, <1>3, <2>1, <2>2, <2>3, <2>4, <2>5, <2>6, <2>7, <2>8 DEF Next, Submission
<1> QED
  BY <1>1, <1>3

-----------------------------------------------------------------------------
\* While its process lives, nobody but the worker ends the row it executes.
Runs == \A p \in Proc : exec[p] # 0 => Job(p).status = "running"

\* A compile has a content to write, and only compiles are compiled.
Compiles ==
  /\ \A i \in DOMAIN rows : rows[i].kind = "compile" => rows[i].payload.digest # Null
  /\ \A p \in Proc : phase[p] = "compiling" => Job(p).kind = "compile"

\* What a handler that reported success has left in HEAD for row i.
InHead(p, i) ==
  /\ result[p] = "ingested" =>
       /\ rows[i].kind = "compile"
       /\ head[rows[i].resource] = rows[i].payload.digest
       /\ rows[i].resource \in ahead
  /\ result[p] = "delete_applied" =>
       /\ rows[i].kind = "delete"
       /\ rows[i].resource \in pages =>
            head[rows[i].resource] = Null /\ rows[i].resource \in ahead

\* It is still there when the outcome of the row is booked.
Carried ==
  \A p \in Proc : /\ phase[p] = "settling" => InHead(p, exec[p])
                  /\ phase[p] = "booking" => InHead(p, done[p])

\* p is about to record the last commit of s.
WillRecord(p, s) ==
  /\ result[p] = "ingested" \/ (result[p] = "delete_applied" /\ s \in pages)
  /\ \/ phase[p] = "settling" /\ s = Subject(p)
     \/ phase[p] = "booking" /\ s = DoneRow(p).resource

\* Without a fault, a commit is only unrecorded while its row is on the way.
Unrecorded == faults = 0 => \A s \in ahead : \E p \in Proc : WillRecord(p, s)

\* Only the process that holds the lock runs submissions and rows.
LEMMA BusyIsUp ==
  ASSUME Owner, NEW p \in Proc,
         \/ WorkerStep(p) \/ Submission(p) \/ CloseCompiling(p) \/ Close(p)
         \/ \E s \in Source : RetryCapture(p, s)
  PROVE  mode[p] = "up" /\ \A q \in Proc : q # p => Idle(q) /\ mode[q] # "up"
<1>1. mode[p] = "up" \/ ~Idle(p)
  BY DEF WorkerStep, Begin, Report, WritePages, CompileSucceeds, DeleteSucceeds, HandlerFails,
         Settle, Book, BookingFails, DropBatch, Submission, Inspect, Capture, Enqueue,
         RetryBroken, RetryEnqueue, RetryCapture, CloseCompiling, Close, Yielded, Working, Idle,
         NoSub
<1> QED
  BY <1>1 DEF Owner

\* When the lock is free, nobody executes a row.
LEMMA NobodyExecutes ==
  ASSUME Placed, Owner, lock = Null
  PROVE  \A q \in Proc : Idle(q) /\ exec[q] = 0
  BY PipelineAssumption DEF Placed, Owner, Idle

\* A submission does not touch the status of the rows there are.
LEMMA SubmitKeepsStatus ==
  ASSUME TypeOK, NEW reqs, Len(reqs) \in Nat, JQ!Submit(reqs), NEW i \in DOMAIN rows
  PROVE  i \in DOMAIN rows' /\ rows'[i].status = rows[i].status
<1>1. rows[i] \in JQ!Row /\ DOMAIN rows = 1..Len(rows) /\ Len(rows) \in Nat
  BY DEF TypeOK, JQ!QTypeOK
<1>2. i \in DOMAIN rows' /\ rows'[i] = JQ!ReleaseKey(rows[i], reqs)
  BY <1>1 DEF JQ!Submit
<1> QED
  BY <1>1, <1>2 DEF JQ!ReleaseKey, JQ!Row

\* The requests of a sync are for its batch, and its compiles have a content.
LEMMA SyncRequestsShape ==
  ASSUME TypeOK, NEW p \in Proc, sub[p].step = "captured",
         NEW reqs \in SyncOrders(sub[p]), NEW m \in DOMAIN reqs
  PROVE  /\ reqs[m].payload.batch = sub[p].batch
         /\ reqs[m].kind = "compile" => reqs[m].payload.digest # Null /\ DOMAIN sub[p].digest # {}
<1>1. PICK S \in SUBSET Source : sub[p].digest \in [S -> Content]
  BY CapturedShape
<1>2. \A req \in SyncRequests(sub[p]) :
        /\ req.payload.batch = sub[p].batch
        /\ req.kind = "compile" => req.payload.digest # Null /\ DOMAIN sub[p].digest # {}
  BY <1>1, PipelineAssumption DEF SyncRequests
<1>3. reqs[m] \in SyncRequests(sub[p])
  BY DEF SyncOrders
<1> QED
  BY <1>2, <1>3

\* The row that is executed is running: recovery needs the lock to be free.
LEMMA StepRuns == TypeOK /\ Placed /\ Owner /\ Runs /\ [Next]_vars => Runs'
<1> SUFFICES ASSUME TypeOK, Placed, Owner, Runs, [Next]_vars
             PROVE  Runs'
  OBVIOUS
<1>0. /\ rows \in Seq(JQ!Row) /\ exec \in [Proc -> 0..Len(rows)]
      /\ \A q \in Proc : exec[q] # 0 => exec[q] \in DOMAIN rows
      /\ \A q \in Proc : Idle(q) => exec[q] = 0
  BY ExecutedRow DEF TypeOK, JQ!QTypeOK, Placed, Idle
<1>1. ASSUME UNCHANGED exec, \A i \in DOMAIN rows : rows'[i].status = rows[i].status
      PROVE  Runs'
  BY <1>0, <1>1 DEF Runs, Job
<1>2. ASSUME NEW p \in Proc, exec' = [exec EXCEPT ![p] = 0], \A q \in Proc : q # p => Idle(q)
      PROVE  Runs'
  BY <1>0, <1>2 DEF Runs
<1>3. ASSUME NEW p \in Proc, Lifecycle(p)
      PROVE  Runs'
  <2>1. CASE Start(p)
    BY <1>1, <2>1, NobodyExecutes DEF Start, LockFree, JQ!RecoverStale, Runs
  <2>2. CASE Construct(p) \/ Sweep(p) \/ Refused(p) \/ Close(p)
    BY <1>1, <2>2 DEF Construct, Sweep, Refused, Close, database
  <2> QED
    BY <1>3, <2>1, <2>2 DEF Lifecycle
<1>4. ASSUME NEW p \in Proc, CloseCompiling(p)
      PROVE  Runs'
  BY <1>2, <1>4, BusyIsUp DEF CloseCompiling, JQ!Cancel
<1>5. ASSUME NEW p \in Proc, Crash(p)
      PROVE  Runs'
  BY <1>0, <1>5 DEF Crash, JQ!Crash, Runs, Job
<1>6. ASSUME NEW p \in Proc, Enqueue(p)
      PROVE  Runs'
  <2>1. PICK reqs \in SyncOrders(sub[p]) : JQ!Submit(reqs)
    BY <1>6 DEF Enqueue
  <2>2. Len(reqs) \in Nat
    BY <1>6, <2>1, OrdersAreBatches DEF Enqueue, JQ!Batches
  <2> QED
    BY <1>1, <2>1, <2>2, SubmitKeepsStatus DEF JQ!Submit
<1>7. ASSUME NEW p \in Proc, RetryEnqueue(p)
      PROVE  Runs'
  <2>1. CASE JQ!Submit(sub[p].asked)
    <3>1. Len(sub[p].asked) \in Nat
      BY <1>7, RetryShape DEF RetryEnqueue
    <3> QED
      BY <1>1, <2>1, <3>1, SubmitKeepsStatus DEF JQ!Submit
  <2>2. CASE UNCHANGED <<rows, exec, journal>>
    BY <1>1, <2>2
  <2> QED
    BY <1>7, <2>1, <2>2 DEF RetryEnqueue
<1>8. ASSUME NEW p \in Proc, \/ Inspect(p) \/ Capture(p) \/ RetryBroken(p)
                             \/ \E s \in Source : RetryCapture(p, s)
      PROVE  Runs'
  BY <1>1, <1>8 DEF Inspect, Capture, RetryBroken, RetryCapture, database
<1>9. ASSUME NEW p \in Proc, WorkerStep(p)
      PROVE  Runs'
  <2>0. \A q \in Proc : q # p => exec[q] = 0
    BY <1>0, <1>9, BusyIsUp
  <2>1. CASE Begin(p)
    <3>1. PICK i \in DOMAIN rows : /\ rows' = [rows EXCEPT ![i] = JQ!Turn(rows[i], "running")]
                                   /\ exec' = [exec EXCEPT ![p] = i]
      BY <2>1 DEF Begin, JQ!Claim
    <3>2. rows'[i] = JQ!Turn(rows[i], "running") /\ exec'[p] = i
          /\ \A q \in Proc : q # p => exec'[q] = exec[q]
      BY <1>0, <3>1
    <3>3. rows'[i].status = "running"
      BY <3>2 DEF JQ!Turn
    <3> QED
      BY <2>0, <3>2, <3>3 DEF Runs, Job
  <2>2. CASE Report(p)
    <3>1. /\ exec[p] \in DOMAIN rows /\ UNCHANGED exec
          /\ rows' = [rows EXCEPT ![exec[p]] = [rows[exec[p]] EXCEPT !.stale = FALSE]]
      BY <1>0, <2>2 DEF Report, JQ!MarkStage
    <3>2. [rows[exec[p]] EXCEPT !.stale = FALSE].status = rows[exec[p]].status
      BY <1>0, <3>1 DEF JQ!Row
    <3> QED
      BY <1>0, <1>1, <3>1, <3>2
  <2>3. CASE Settle(p)
    BY <1>2, <1>9, <2>3, BusyIsUp DEF Settle, JQ!Finish
  <2>4. CASE ~(Begin(p) \/ Report(p) \/ Settle(p))
    BY <1>1, <1>9, <2>4 DEF WorkerStep, WritePages, CompileSucceeds, DeleteSucceeds, HandlerFails,
                            Reports, Book, BookingFails, DropBatch, database
  <2> QED
    BY <2>1, <2>2, <2>3, <2>4
<1>10. ASSUME NEW i \in DOMAIN rows, Elapse(i)
       PROVE  Runs'
  <2>1. rows' = [rows EXCEPT ![i] = [rows[i] EXCEPT !.stale = TRUE]] /\ UNCHANGED exec
    BY <1>10 DEF Elapse, JQ!Age
  <2>2. [rows[i] EXCEPT !.stale = TRUE].status = rows[i].status
    BY <1>0 DEF JQ!Row
  <2> QED
    BY <1>0, <1>1, <2>1, <2>2
<1>11. CASE (\E s \in Source : Edit(s)) \/ UNCHANGED vars
  BY <1>1, <1>11 DEF Edit, vars, database
<1> QED
  BY <1>3, <1>4, <1>5, <1>6, <1>7, <1>8, <1>9, <1>10, <1>11 DEF Next, Submission

\* A submission brings the content of its compiles; a claim reads the kind.
LEMMA StepCompiles == TypeOK /\ Placed /\ Owner /\ Compiles /\ [Next]_vars => Compiles'
<1> SUFFICES ASSUME TypeOK, Placed, Owner, Compiles, [Next]_vars
             PROVE  Compiles'
  OBVIOUS
<1> USE PipelineAssumption
<1>0. /\ rows \in Seq(JQ!Row) /\ Len(rows) \in Nat /\ DOMAIN rows = 1..Len(rows)
      /\ \A i \in DOMAIN rows : rows'[i].kind = rows[i].kind /\ rows'[i].payload = rows[i].payload
      /\ \A q \in Proc : phase[q] = "compiling" => exec[q] \in DOMAIN rows
  BY RowsStay, ExecutedRow DEF TypeOK, JQ!QTypeOK, Placed
<1> DEFINE Kept == \A q \in Proc : phase'[q] = "compiling" =>
                                     phase[q] = "compiling" /\ exec'[q] = exec[q]
           Added == \A i \in DOMAIN rows' : i \notin DOMAIN rows /\ rows'[i].kind = "compile" =>
                                              rows'[i].payload.digest # Null
<1>1. ASSUME Kept, Added
      PROVE  Compiles'
  BY <1>0, <1>1 DEF Compiles, Job
<1>2. ASSUME DOMAIN rows' = DOMAIN rows
      PROVE  Added
  BY <1>2
<1>3. ASSUME NEW p \in Proc, Lifecycle(p) \/ CloseCompiling(p) \/ Crash(p)
      PROVE  Compiles'
  <2>1. DOMAIN rows' = DOMAIN rows
    BY <1>3 DEF Lifecycle, Construct, Sweep, Start, Refused, Close, CloseCompiling, Crash,
                database, JQ!RecoverStale, JQ!Cancel, JQ!TryFinalize, JQ!Crash
  <2>2. Kept
    BY <1>3 DEF Lifecycle, Construct, Sweep, Start, Refused, Close, CloseCompiling, Crash, Gone,
                database, worker, JQ!RecoverStale, JQ!Cancel, JQ!Crash, TypeOK, JQ!QTypeOK
  <2> QED
    BY <1>1, <1>2, <2>1, <2>2
<1>4. ASSUME NEW p \in Proc, Submission(p) \/ \E s \in Source : RetryCapture(p, s)
      PROVE  Compiles'
  <2>1. Kept
    BY <1>4 DEF Submission, Inspect, Capture, Enqueue, RetryBroken, RetryEnqueue, RetryCapture, database,
                worker, JQ!Submit
  <2>2. CASE Enqueue(p)
    <3>1. PICK reqs \in SyncOrders(sub[p]) : JQ!Submit(reqs)
      BY <2>2 DEF Enqueue
    <3>2. Len(reqs) \in Nat /\ DOMAIN reqs = 1..Len(reqs)
      BY <2>2, <3>1, OrdersAreBatches DEF Enqueue, JQ!Batches
    <3>3. \A m \in DOMAIN reqs : reqs[m].kind = "compile" => reqs[m].payload.digest # Null
      BY <2>2, <3>1, SyncRequestsShape DEF Enqueue
    <3>4. ASSUME NEW i \in DOMAIN rows', i \notin DOMAIN rows
          PROVE  i - Len(rows) \in DOMAIN reqs /\ rows'[i] = JQ!NewRow(reqs[i - Len(rows)])
      BY <1>0, <3>1, <3>2, <3>4 DEF JQ!Submit
    <3>5. Added
      BY <3>3, <3>4 DEF JQ!NewRow
    <3> QED
      BY <1>1, <2>1, <3>5
  <2>3. CASE RetryEnqueue(p) /\ JQ!Submit(sub[p].asked)
    <3> DEFINE reqs == sub[p].asked
    <3>1. /\ Len(reqs) \in Nat /\ DOMAIN reqs = 1..Len(reqs) /\ JQ!Submit(reqs)
          /\ \A n \in DOMAIN reqs : reqs[n].payload.digest \in Content
      BY <2>3, RetryShape DEF RetryEnqueue
    <3> HIDE DEF reqs
    <3>2. ASSUME NEW i \in DOMAIN rows', i \notin DOMAIN rows
          PROVE  i - Len(rows) \in DOMAIN reqs /\ rows'[i] = JQ!NewRow(reqs[i - Len(rows)])
      BY <1>0, <3>1, <3>2 DEF JQ!Submit
    <3>3. \A n \in DOMAIN reqs : reqs[n].payload.digest # Null
      BY <3>1
    <3>4. Added
      BY <3>2, <3>3 DEF JQ!NewRow
    <3> QED
      BY <1>1, <2>1, <3>4
  <2>4. CASE UNCHANGED rows
    BY <1>1, <1>2, <2>1, <2>4
  <2> QED
    BY <1>4, <2>2, <2>3, <2>4 DEF Submission, Inspect, Capture, RetryBroken, RetryEnqueue,
                                  RetryCapture, database
<1>5. ASSUME NEW p \in Proc, WorkerStep(p)
      PROVE  Compiles'
  <2>1. DOMAIN rows' = DOMAIN rows
    BY <1>5 DEF WorkerStep, Begin, Report, WritePages, CompileSucceeds, DeleteSucceeds,
                HandlerFails, Reports, Settle, Book, BookingFails, DropBatch, database,
                JQ!Claim, JQ!MarkStage, JQ!Finish, JQ!TryFinalize
  <2>2. CASE Begin(p)
    <3>1. PICK i \in DOMAIN rows : exec' = [exec EXCEPT ![p] = i]
      BY <2>2 DEF Begin, JQ!Claim
    <3>2. /\ exec'[p] = i /\ phase'[p] = Entry(p, rows[i]).phase
          /\ \A q \in Proc : q # p => exec'[q] = exec[q] /\ phase'[q] = phase[q]
      BY <2>2, <3>1 DEF Begin, TypeOK, JQ!QTypeOK
    <3>3. rows[i] \in JQ!Row
      BY <1>0
    <3>4. rows[i].kind \in {"compile", "delete"}
      BY <3>3 DEF JQ!Row
    <3>5. phase'[p] = "compiling" => rows[i].kind = "compile"
      BY <3>2, <3>4 DEF Entry
    <3> QED
      BY <1>0, <2>1, <3>2, <3>5 DEF Compiles, Job
  <2>3. CASE ~Begin(p)
    <3>1. Kept
      BY <1>5, <2>3 DEF WorkerStep, Report, WritePages, CompileSucceeds, DeleteSucceeds,
                        HandlerFails, Reports, Settle, Book, BookingFails, DropBatch, database,
                        worker, JQ!MarkStage, JQ!Finish, TypeOK, JQ!QTypeOK
    <3> QED
      BY <1>1, <1>2, <2>1, <3>1
  <2> QED
    BY <2>2, <2>3
<1>6. CASE (\E s \in Source : Edit(s)) \/ (\E i \in DOMAIN rows : Elapse(i)) \/ UNCHANGED vars
  <2>1. DOMAIN rows' = DOMAIN rows
    BY <1>6 DEF Edit, Elapse, JQ!Age, vars, database
  <2>2. Kept
    BY <1>6 DEF Edit, Elapse, JQ!Age, vars, database, worker
  <2> QED
    BY <1>1, <1>2, <2>1, <2>2
<1> QED
  BY <1>3, <1>4, <1>5, <1>6 DEF Next

\* What a handler reports is in HEAD, and nothing takes it out before the booking.
LEMMA StepCarried == PInv /\ Compiles /\ Carried /\ [Next]_vars => Carried'
<1> SUFFICES ASSUME PInv, Compiles, Carried, [Next]_vars
             PROVE  Carried'
  OBVIOUS
<1> USE PipelineAssumption
<1>0. /\ TypeOK /\ Placed /\ Owner /\ Deletions /\ OwnPages
      /\ \A i \in DOMAIN rows : /\ rows'[i].kind = rows[i].kind
                                /\ rows'[i].resource = rows[i].resource
                                /\ rows'[i].payload = rows[i].payload
      /\ \A q \in Proc : exec[q] # 0 => exec[q] \in DOMAIN rows
      /\ \A q \in Proc : phase[q] = "settling" => exec[q] \in DOMAIN rows
      /\ \A q \in Proc : phase[q] = "booking" => done[q] \in DOMAIN rows
  BY RowsStay, ExecutedRow DEF PInv, Placed
<1>1. ASSUME NEW q \in Proc, NEW i \in DOMAIN rows, InHead(q, i), result'[q] = result[q],
             UNCHANGED <<head, pages, ahead>>
      PROVE  InHead(q, i)'
  BY <1>0, <1>1 DEF InHead
<1>2. ASSUME UNCHANGED <<head, pages, ahead>>,
             \A q \in Proc : phase'[q] \in {"settling", "booking"} =>
               phase'[q] = phase[q] /\ result'[q] = result[q] /\ exec'[q] = exec[q]
                 /\ done'[q] = done[q]
      PROVE  Carried'
  BY <1>0, <1>1, <1>2 DEF Carried
<1>3. ASSUME NEW p \in Proc, \A q \in Proc : q # p => phase'[q] = "idle",
             phase'[p] \notin {"settling", "booking"}
      PROVE  Carried'
  BY <1>3 DEF Carried
<1>4. ASSUME NEW p \in Proc, Lifecycle(p) \/ CloseCompiling(p) \/ Crash(p)
      PROVE  Carried'
  <2>1. UNCHANGED <<head, pages, ahead>>
    BY <1>4 DEF Lifecycle, Construct, Sweep, Start, Refused, Close, CloseCompiling, Crash, wiki,
                records
  <2>2. \A q \in Proc : phase'[q] \in {"settling", "booking"} =>
               phase'[q] = phase[q] /\ result'[q] = result[q] /\ exec'[q] = exec[q]
                 /\ done'[q] = done[q]
    BY <1>0, <1>4 DEF Lifecycle, Construct, Sweep, Start, Refused, Close, CloseCompiling, Crash,
                      Gone, database, worker, JQ!RecoverStale, JQ!Cancel, JQ!Crash, TypeOK,
                      JQ!QTypeOK
  <2> QED
    BY <1>2, <2>1, <2>2
<1>5. ASSUME NEW p \in Proc, Submission(p) \/ \E s \in Source : RetryCapture(p, s)
      PROVE  Carried'
  BY <1>2, <1>5 DEF Submission, Inspect, Capture, Enqueue, RetryBroken, RetryEnqueue, RetryCapture, database,
                    wiki, records, worker, JQ!Submit
<1>6. ASSUME NEW p \in Proc, WorkerStep(p)
      PROVE  Carried'
  <2>0. \A q \in Proc : q # p => phase[q] = "idle"
    BY <1>0, <1>6, BusyIsUp DEF Idle
  <2>1. CASE Begin(p)
    <3>1. PICK i \in DOMAIN rows : exec'[p] = i
      BY <1>0, <2>1 DEF Begin, JQ!Claim, TypeOK, JQ!QTypeOK
    <3>2. /\ result'[p] = Entry(p, rows[i]).result /\ phase'[p] = Entry(p, rows[i]).phase
          /\ \A q \in Proc : q # p => phase'[q] = phase[q]
      BY <1>0, <2>1, <3>1 DEF Begin, TypeOK
    <3>3. result'[p] \notin {"ingested", "delete_applied"} /\ phase'[p] # "booking"
      BY <3>2 DEF Entry
    <3> QED
      BY <2>0, <3>2, <3>3 DEF Carried, InHead
  <2>2. CASE Report(p) \/ WritePages(p)
    BY <1>2, <2>2 DEF Report, WritePages, JQ!MarkStage, database, wiki, records, worker
  <2>3. CASE CompileSucceeds(p)
    <3>1. /\ exec[p] # 0 /\ Subject(p) \in Source /\ exec[p] \in DOMAIN rows
          /\ Job(p).kind = "compile"
      BY <1>0, <2>3, ExecutedRow DEF CompileSucceeds, Working, Placed, Compiles
    <3>2. head'[Subject(p)] = Job(p).payload.digest /\ Subject(p) \in ahead'
      BY <1>0, <2>3, <3>1 DEF CompileSucceeds, Commit, CopyRead, TypeOK
    <3>3. /\ exec'[p] = exec[p] /\ phase'[p] = "settling" /\ result'[p] = "ingested"
          /\ \A q \in Proc : q # p => phase'[q] = phase[q]
      BY <1>0, <2>3 DEF CompileSucceeds, Reports, database, TypeOK
    <3>4. InHead(p, exec[p])'
      BY <1>0, <3>1, <3>2, <3>3 DEF InHead, Subject, Job
    <3> QED
      BY <2>0, <3>3, <3>4 DEF Carried
  <2>4. CASE DeleteSucceeds(p)
    <3>1. /\ exec[p] # 0 /\ Subject(p) \in Source /\ exec[p] \in DOMAIN rows
          /\ Job(p).kind = "delete"
      BY <1>0, <2>4, ExecutedRow DEF DeleteSucceeds, Working, Placed, OwnPages
    <3>2. Subject(p) \in pages => head'[Subject(p)] = Null /\ Subject(p) \in ahead'
      BY <1>0, <2>4, <3>1 DEF DeleteSucceeds, Commit, TypeOK
    <3>3. /\ exec'[p] = exec[p] /\ phase'[p] = "settling" /\ result'[p] = "delete_applied"
          /\ \A q \in Proc : q # p => phase'[q] = phase[q]
          /\ pages' = pages
      BY <1>0, <2>4 DEF DeleteSucceeds, Reports, database, TypeOK
    <3>4. InHead(p, exec[p])'
      BY <1>0, <3>1, <3>2, <3>3 DEF InHead, Subject, Job
    <3> QED
      BY <2>0, <3>3, <3>4 DEF Carried
  <2>5. ASSUME NEW r \in {"ingest_error", "raised"}, HandlerFails(p, r)
        PROVE  Carried'
    <3>1. /\ phase'[p] = "settling" /\ result'[p] = r
          /\ \A q \in Proc : q # p => phase'[q] = phase[q]
      BY <1>0, <2>5 DEF HandlerFails, Reports, TypeOK
    <3> QED
      BY <2>0, <3>1 DEF Carried, InHead
  <2>6. CASE Settle(p)
    <3>1. PICK i \in DOMAIN rows : i = exec[p] /\ InHead(p, i)
      BY <1>0, <2>6 DEF Settle, Working, Carried
    <3>2. /\ phase'[p] = "idle" \/ (phase'[p] = "booking" /\ done'[p] = i)
          /\ \A q \in Proc : q # p => phase'[q] = phase[q]
          /\ UNCHANGED <<head, pages, ahead, result>>
      BY <1>0, <2>6, <3>1 DEF Settle, wiki, records, TypeOK
    <3>3. InHead(p, i)'
      BY <1>1, <3>1, <3>2
    <3>4. phase'[p] = "booking" => InHead(p, done[p])'
      BY <3>2, <3>3 DEF InHead
    <3> QED
      BY <2>0, <3>2, <3>4 DEF Carried
  <2>7. CASE Book(p) \/ BookingFails(p) \/ DropBatch(p)
    BY <1>0, <1>3, <2>0, <2>7 DEF Book, BookingFails, DropBatch, TypeOK
  <2> QED
    BY <1>6, <2>1, <2>2, <2>3, <2>4, <2>5, <2>6, <2>7 DEF WorkerStep
<1>7. CASE (\E s \in Source : Edit(s)) \/ (\E i \in DOMAIN rows : Elapse(i)) \/ UNCHANGED vars
  BY <1>2, <1>7 DEF Edit, Elapse, JQ!Age, vars, database, wiki, records, worker
<1> QED
  BY <1>4, <1>5, <1>6, <1>7 DEF Next

\* Without a fault the row of a commit comes to its booking: its worker wins the
\* row, because it is still running.
LEMMA StepUnrecorded ==
  PInv /\ Runs /\ Carried /\ Unrecorded /\ [Next]_vars => Unrecorded'
<1> SUFFICES ASSUME PInv, Runs, Carried, Unrecorded, [Next]_vars, faults' = 0
             PROVE  \A s \in ahead' : (\E p \in Proc : WillRecord(p, s))'
  BY DEF Unrecorded
<1> USE PipelineAssumption
<1>0. /\ TypeOK /\ Placed /\ Owner /\ OwnPages
      /\ \A i \in DOMAIN rows : rows'[i].resource = rows[i].resource
      /\ \A q \in Proc : exec[q] # 0 => exec[q] \in DOMAIN rows
      /\ \A q \in Proc : phase[q] = "settling" => exec[q] \in DOMAIN rows
      /\ \A q \in Proc : phase[q] = "booking" => done[q] \in DOMAIN rows
  BY RowsStay, ExecutedRow DEF PInv, Placed
<1>a. CASE \E p \in Proc : Crash(p) \/ BookingFails(p)
  BY <1>0, <1>a DEF Crash, BookingFails, TypeOK
<1>b. CASE ~ \E p \in Proc : Crash(p) \/ BookingFails(p)
  <2>1. faults = 0
    BY <1>b DEF Next, Lifecycle, Construct, Sweep, Start, Refused, Close, CloseCompiling,
                Submission, Inspect, Capture, Enqueue, RetryBroken, RetryEnqueue, RetryCapture, WorkerStep,
                Begin, Report, WritePages, CompileSucceeds, DeleteSucceeds, HandlerFails, Reports,
                Settle, Book, DropBatch, Edit, Elapse, bounds, vars
  <2>2. \A s \in ahead : \E p \in Proc : WillRecord(p, s)
    BY <2>1 DEF Unrecorded
  \* a process with another phase has nothing to record, and nobody else has
  <2>3. ASSUME NEW p \in Proc, \A q \in Proc : q # p => Idle(q),
               phase[p] \notin {"settling", "booking"}
        PROVE  ahead = {}
    BY <2>2, <2>3 DEF WillRecord, Idle
  <2>4. ASSUME UNCHANGED <<ahead, pages, phase, result, exec, done>>
        PROVE  \A s \in ahead' : (\E p \in Proc : WillRecord(p, s))'
    BY <1>0, <2>2, <2>4 DEF WillRecord, Subject, Job, DoneRow
  <2>5. ASSUME NEW p \in Proc, Lifecycle(p)
        PROVE  \A s \in ahead' : (\E q \in Proc : WillRecord(q, s))'
    <3>1. CASE Construct(p) \/ Sweep(p) \/ Start(p)
      BY <2>4, <3>1 DEF Construct, Sweep, Start, database, records, worker, JQ!RecoverStale
    <3>2. CASE Refused(p)
      <4>1. /\ UNCHANGED <<ahead, pages, exec>>
            /\ \A q \in Proc : q # p => phase'[q] = phase[q] /\ result'[q] = result[q]
                                          /\ done'[q] = done[q]
        BY <1>0, <3>2 DEF Refused, Gone, database, records, TypeOK
      <4>2. phase[p] = "idle"
        BY <1>0, <3>2 DEF Refused, Owner, Idle
      <4>3. ASSUME NEW s \in ahead, NEW q \in Proc, WillRecord(q, s)
            PROVE  WillRecord(q, s)'
        BY <1>0, <4>1, <4>2, <4>3 DEF WillRecord, Subject, Job, DoneRow
      <4> QED
        BY <2>2, <4>1, <4>3
    <3>3. CASE Close(p)
      <4>1. ahead = {}
        BY <1>0, <2>3, <3>3, BusyIsUp DEF Close, Idle
      <4> QED
        BY <3>3, <4>1 DEF Close, records
    <3> QED
      BY <2>5, <3>1, <3>2, <3>3 DEF Lifecycle
  <2>6. ASSUME NEW p \in Proc, CloseCompiling(p)
        PROVE  ahead' = {}
    BY <1>0, <2>3, <2>6, BusyIsUp DEF CloseCompiling, Working, records
  <2>7. ASSUME NEW p \in Proc, Submission(p) \/ \E s \in Source : RetryCapture(p, s)
        PROVE  \A s \in ahead' : (\E q \in Proc : WillRecord(q, s))'
    BY <2>4, <2>7 DEF Submission, Inspect, Capture, Enqueue, RetryBroken, RetryEnqueue, RetryCapture, database,
                      records, worker, JQ!Submit
  <2>8. ASSUME NEW p \in Proc, WorkerStep(p)
        PROVE  \A s \in ahead' : (\E q \in Proc : WillRecord(q, s))'
    <3>0. \A q \in Proc : q # p => Idle(q) /\ phase[q] = "idle"
      BY <1>0, <2>8, BusyIsUp DEF Idle
    <3>1. CASE Begin(p) \/ DropBatch(p) \/ \E r \in {"ingest_error", "raised"} : HandlerFails(p, r)
      <4>1. phase[p] \notin {"settling", "booking"} /\ ahead' = ahead
        BY <3>1 DEF Begin, DropBatch, HandlerFails, Working, records
      <4> QED
        BY <2>3, <3>0, <4>1
    <3>2. CASE Report(p) \/ WritePages(p)
      BY <2>4, <3>2 DEF Report, WritePages, JQ!MarkStage, database, records, worker
    <3>3. CASE CompileSucceeds(p) \/ DeleteSucceeds(p)
      <4>1. ahead = {} /\ exec[p] \in DOMAIN rows
        BY <1>0, <2>3, <3>0, <3>3 DEF CompileSucceeds, DeleteSucceeds, Working, Placed
      <4>2. /\ phase'[p] = "settling" /\ exec'[p] = exec[p] /\ Subject(p)' = Subject(p)
            /\ pages' = pages
        BY <1>0, <3>3, <4>1 DEF CompileSucceeds, DeleteSucceeds, Reports, database, TypeOK,
                                Subject, Job
      <4>3. CASE CompileSucceeds(p)
        <5>1. ahead' = {Subject(p)} /\ result'[p] = "ingested"
          BY <1>0, <4>1, <4>3 DEF CompileSucceeds, Commit, Reports, TypeOK
        <5> QED
          BY <4>2, <5>1 DEF WillRecord
      <4>4. CASE DeleteSucceeds(p)
        <5>1. result'[p] = "delete_applied"
          BY <1>0, <4>4 DEF DeleteSucceeds, Reports, TypeOK
        <5>2. \A s \in ahead' : s = Subject(p) /\ s \in pages
          BY <4>1, <4>4 DEF DeleteSucceeds, Commit
        <5> QED
          BY <4>2, <5>1, <5>2 DEF WillRecord
      <4> QED
        BY <3>3, <4>3, <4>4
    <3>4. CASE Settle(p)
      <4>1. PICK i \in DOMAIN rows : i = exec[p] /\ rows[i].status = "running"
        BY <1>0, <3>4 DEF Settle, Working, Placed, Runs, Job
      <4>2. /\ phase'[p] = "booking" /\ done'[p] = i
            /\ UNCHANGED <<ahead, pages, result>>
        BY <1>0, <3>4, <4>1 DEF Settle, JQ!WinsRow, records, TypeOK
      <4>3. DoneRow(p)'.resource = rows[i].resource /\ Subject(p) = rows[i].resource
        BY <1>0, <4>1, <4>2 DEF DoneRow, Subject, Job
      <4>4. ASSUME NEW s \in ahead
            PROVE  WillRecord(p, s)'
        <5>1. WillRecord(p, s)
          BY <2>2, <3>0 DEF WillRecord
        <5> QED
          BY <3>4, <4>2, <4>3, <5>1 DEF WillRecord, Settle, Working
      <4> QED
        BY <4>2, <4>4
    <3>5. CASE Book(p)
      <4>1. ASSUME NEW s \in ahead
            PROVE  HasBooking(p) /\ RecordsCommit(p) /\ s = DoneRow(p).resource
        <5>1. WillRecord(p, s)
          BY <2>2, <3>0 DEF WillRecord
        <5> QED
          BY <3>5, <5>1 DEF WillRecord, Book, Working, HasBooking, RecordsCommit
      <4>2. ahead' = {}
        BY <3>5, <4>1 DEF Book, records
      <4> QED
        BY <4>2
    <3> QED
      BY <1>b, <2>8, <3>1, <3>2, <3>3, <3>4, <3>5 DEF WorkerStep
  <2>9. CASE (\E s \in Source : Edit(s)) \/ (\E i \in DOMAIN rows : Elapse(i)) \/ UNCHANGED vars
    BY <2>4, <2>9 DEF Edit, Elapse, JQ!Age, vars, database, records, worker
  <2> QED
    BY <1>b, <2>5, <2>6, <2>7, <2>8, <2>9 DEF Next
<1> QED
  BY <1>a, <1>b

\* What holds of rows and commits, whichever processes there are.
RInv == PInv /\ Runs /\ Compiles /\ Carried /\ Unrecorded

\* The invariant of rows and commits is inductive.
LEMMA AlwaysRInv == Spec => []RInv
<1>1. Init => RInv
  <2>1. Init => Runs /\ Compiles /\ Carried /\ Unrecorded
    BY DEF Init, JQ!QInit, Runs, Compiles, Carried, Unrecorded
  <2> QED
    BY <2>1, InitPInv DEF RInv
<1>2. RInv /\ [Next]_vars => RInv'
  <2>1. RInv => TypeOK /\ Placed /\ Owner
    BY DEF RInv, PInv
  <2> QED
    BY <2>1, StepPInv, StepRuns, StepCompiles, StepCarried, StepUnrecorded DEF RInv
<1> QED
  BY <1>1, <1>2, PTL DEF Spec

\* A commit stays unrecorded only after a crash or a failed write: whatever other
\* processes do beside it, a worker that is not interrupted records what it
\* committed (queue.py:135, handlers.py:269).
THEOREM CommitsGetRecorded == Spec => []RecordedAtRest
<1>1. RInv => RecordedAtRest
  BY DEF RInv, PInv, Owner, Idle, Unrecorded, WillRecord, RecordedAtRest
<1> QED
  BY <1>1, AlwaysRInv, PTL


-----------------------------------------------------------------------------
\* What a process reads while it is constructed can be out of date when it takes the
\* lock.  The rest of the module says when it is not, for any number of them.
Beginning(p) == mode[p] \in {"sweeping", "built"}

\* Whoever works is up, and nobody else is.
LEMMA OneUp ==
  ASSUME Owner, NEW p \in Proc, mode[p] = "up", NEW q \in Proc, q # p
  PROVE  mode[q] # "up" /\ sub[q] = NoSub /\ phase[q] = "idle"
BY DEF Owner, Idle

-----------------------------------------------------------------------------
\* Of a source whose last commit is recorded, state.json, the provenance pages
\* and HEAD say the same, and so does the memory of the process that is up.
Agree ==
  \A s \in Source : s \notin ahead =>
    /\ head[s] = file[s]
    /\ head[s] # Null <=> s \in pages
    /\ \A p \in Proc : mode[p] = "up" => mem[p][s] = file[s]

\* What a process has loaded is what is recorded.
Loaded == \A p \in Proc : Beginning(p) => mem[p] = file

\* No record is written between the loading of the records and the lock.
RecordsRest == file' # file => \A p \in Proc : ~Beginning(p)

\* A commit puts its source ahead of the records, and the booking, in memory and
\* on disk, brings the two together again.
LEMMA StepAgree == RInv /\ Agree /\ Loaded /\ [Next]_vars /\ RecordsRest => Agree' /\ Loaded'
<1> SUFFICES ASSUME RInv, Agree, Loaded, [Next]_vars, RecordsRest
             PROVE  Agree' /\ Loaded'
  OBVIOUS
<1> USE PipelineAssumption
<1>0. /\ PInv /\ TypeOK /\ Placed /\ Owner /\ OwnPages /\ Deletions /\ Carried /\ Compiles
      /\ head \in [Source -> Content \cup {Null, Partial}]
      /\ mem \in [Proc -> Recorded] /\ mode \in [Proc -> {"down", "sweeping", "built", "up"}]
  BY DEF RInv, PInv, TypeOK
\* the records stay, and who is up has been up or has been constructed
<1>1. ASSUME UNCHANGED <<head, pages, file, ahead>>,
             \A q \in Proc : mode'[q] # "down" =>
               \/ mode'[q] = "sweeping" /\ mem'[q] = file
               \/ /\ mem'[q] = mem[q] /\ mode[q] # "down"
                  /\ mode[q] = "up" => mode'[q] = "up"
      PROVE  Agree' /\ Loaded'
  <2>1. ASSUME NEW q \in Proc, Beginning(q)' PROVE mem'[q] = file'
    BY <1>0, <1>1, <2>1 DEF Beginning, Loaded
  <2>2. ASSUME NEW s \in Source, s \notin ahead, NEW q \in Proc, mode'[q] = "up"
        PROVE  mem'[q][s] = file[s]
    BY <1>0, <1>1, <2>2 DEF Beginning, Loaded, Agree
  <2>3. Loaded'
    BY <2>1 DEF Loaded
  <2>4. Agree'
    BY <1>1, <2>2 DEF Agree
  <2> QED BY <2>3, <2>4
<1>2. ASSUME NEW p \in Proc, Lifecycle(p) \/ CloseCompiling(p) \/ Crash(p)
      PROVE  Agree' /\ Loaded'
  <2>1. UNCHANGED <<head, pages, file, ahead>>
    BY <1>2 DEF Lifecycle, Construct, Sweep, Start, Refused, Close, CloseCompiling, Crash, wiki,
                records
  <2>2. \A q \in Proc : q # p => mode'[q] = mode[q] /\ mem'[q] = mem[q]
    BY <1>0, <1>2 DEF Lifecycle, Construct, Sweep, Start, Refused, Close, CloseCompiling, Crash,
                      Gone
  <2>3. CASE Construct(p)
    <3>1. mem'[p] = file /\ mode'[p] = "sweeping"
      BY <1>0, <2>3 DEF Construct
    <3> QED
      BY <1>0, <1>1, <2>1, <2>2, <3>1
  <2>4. CASE Sweep(p) \/ Start(p)
    <3>1. mem'[p] = mem[p] /\ mode[p] \in {"sweeping", "built"}
      BY <1>0, <2>4 DEF Sweep, Start
    <3> QED
      BY <1>0, <1>1, <2>1, <2>2, <3>1
  <2>5. CASE Refused(p) \/ Close(p) \/ CloseCompiling(p) \/ Crash(p)
    <3>1. mode'[p] = "down"
      BY <1>0, <2>5 DEF Refused, Close, CloseCompiling, Crash, Gone
    <3> QED
      BY <1>0, <1>1, <2>1, <2>2, <3>1
  <2> QED
    BY <1>2, <2>3, <2>4, <2>5 DEF Lifecycle
<1>3. ASSUME NEW p \in Proc, Submission(p) \/ \E s \in Source : RetryCapture(p, s)
      PROVE  Agree' /\ Loaded'
  BY <1>1, <1>3 DEF Submission, Inspect, Capture, Enqueue, RetryBroken, RetryEnqueue, RetryCapture, wiki,
                    records, process
<1>4. ASSUME NEW p \in Proc, WorkerStep(p)
      PROVE  Agree' /\ Loaded'
  <2>1. CASE \/ Begin(p) \/ Report(p) \/ WritePages(p) \/ Settle(p) \/ DropBatch(p)
             \/ \E r \in {"ingest_error", "raised"} : HandlerFails(p, r)
    BY <1>1, <2>1 DEF Begin, Report, WritePages, Settle, DropBatch, HandlerFails, Reports, wiki,
                      records, process
  <2>2. CASE CompileSucceeds(p)
    <3>1. /\ Subject(p) \in ahead' /\ ahead \subseteq ahead'
          /\ UNCHANGED <<pages, file, mem, mode>>
      BY <2>2 DEF CompileSucceeds, Commit, Reports, process
    <3>2. \A s \in Source : s # Subject(p) => head'[s] = head[s]
      BY <1>0, <2>2, CommitsOwn
    <3> QED
      BY <3>1, <3>2 DEF Agree, Loaded, Beginning
  <2>3. CASE DeleteSucceeds(p)
    <3>1. /\ ahead \subseteq ahead' /\ UNCHANGED <<pages, file, mem, mode>>
          /\ Subject(p) \in pages => Subject(p) \in ahead'
      BY <2>3 DEF DeleteSucceeds, Commit, Reports, process
    <3>2. \A s \in Source : s # Subject(p) => head'[s] = head[s]
      BY <1>0, <2>3, CommitsOwn
    <3>3. Job(p).payload.digest = Null
      BY <1>0, <2>3, ExecutedRow DEF DeleteSucceeds, Working, Placed, OwnPages, Deletions, Job
    <3>4. head'[Subject(p)] \in {head[Subject(p)], Null}
      BY <1>0, <2>3, <3>3, CommitsOwn
    <3>5. ASSUME Subject(p) \in Source, Subject(p) \notin ahead'
          PROVE  head'[Subject(p)] = head[Subject(p)]
      BY <3>1, <3>4, <3>5 DEF Agree
    <3> QED
      BY <3>1, <3>2, <3>5 DEF Agree, Loaded, Beginning
  <2>4. CASE Book(p) \/ BookingFails(p)
    <3>1. /\ DoneRow(p) = rows[done[p]] /\ done[p] \in DOMAIN rows /\ InHead(p, done[p])
          /\ DoneRow(p).resource \in Source /\ UNCHANGED <<head, mode>>
      BY <1>0, <2>4, RowShape DEF Book, BookingFails, Working, Placed, Carried, DoneRow, wiki
    <3>2. mode[p] = "up" /\ \A q \in Proc : q # p => mode[q] # "up"
      BY <1>0, <1>4, BusyIsUp
    <3>a. \A q \in Proc : q # p => mem'[q] = mem[q]
      BY <1>0, <2>4 DEF Book, BookingFails
    <3>b. Loaded'
      <4>1. ASSUME NEW q \in Proc, Beginning(q) PROVE mem'[q] = file'
        BY <3>2, <3>a, <4>1 DEF Loaded, RecordsRest, Beginning
      <4> QED BY <3>1, <4>1 DEF Loaded, Beginning
    <3> DEFINE r == DoneRow(p).resource
               c == DoneRow(p).payload.digest
    <3>3. /\ result[p] = "ingested" => head[r] = c /\ c # Null /\ r \in ahead
          /\ result[p] = "delete_applied" =>
               c = Null /\ (r \in pages => head[r] = Null /\ r \in ahead)
      BY <1>0, <3>1 DEF InHead, Compiles, Deletions
    <3>4. \A s \in Source : BookedMem(p)[s] = IF s = r THEN c ELSE mem[p][s]
      BY <1>0 DEF BookedMem, Recorded
    <3>5. \A s \in Source : s # r => (s \in BookedPages(p) <=> s \in pages)
      BY DEF BookedPages
    <3> HIDE DEF r, c
    <3>6. CASE Book(p) /\ ~HasBooking(p)
      BY <1>1, <3>1, <3>6 DEF Book, records
    <3>7. CASE Book(p) /\ HasBooking(p)
      <4>1. /\ pages' = BookedPages(p) /\ file' = BookedMem(p) /\ mem'[p] = BookedMem(p)
            /\ ahead' = IF RecordsCommit(p) THEN ahead \ {r} ELSE ahead
        BY <1>0, <3>7 DEF Book, r
      <4>2. ASSUME NEW s \in Source, s \notin ahead', s # r
            PROVE  head'[s] = file'[s] /\ (head'[s] # Null <=> s \in pages')
                   /\ mem'[p][s] = file'[s]
        <5>1. s \notin ahead
          BY <4>1, <4>2
        <5>2. head[s] = file[s] /\ (head[s] # Null <=> s \in pages) /\ mem[p][s] = file[s]
          BY <3>2, <5>1 DEF Agree
        <5> QED
          BY <3>1, <3>4, <3>5, <4>1, <4>2, <5>2
      <4>3. ASSUME r \notin ahead'
            PROVE  head'[r] = file'[r] /\ (head'[r] # Null <=> r \in pages')
                   /\ mem'[p][r] = file'[r]
        <5>1. file'[r] = c /\ mem'[p][r] = c
          BY <3>1, <3>4, <4>1 DEF r
        <5>2. CASE result[p] = "ingested"
          <6>1. pages' = pages \cup {r}
            BY <4>1, <5>2 DEF BookedPages, r
          <6> QED
            BY <3>1, <3>3, <5>1, <5>2, <6>1
        <5>3. CASE result[p] = "delete_applied"
          <6>1. pages' = pages \ {r}
            BY <4>1, <5>3 DEF BookedPages, r
          <6>2. CASE r \in pages
            BY <3>1, <3>3, <5>1, <5>3, <6>1, <6>2
          <6>3. CASE r \notin pages
            <7>1. r \notin ahead
              BY <4>1, <4>3, <5>3, <6>3 DEF RecordsCommit, r
            <7>2. head[r] = Null
              BY <3>1, <6>3, <7>1 DEF Agree, r
            <7> QED
              BY <3>1, <3>3, <5>1, <5>3, <6>1, <7>2
          <6> QED
            BY <6>2, <6>3
        <5> QED
          BY <3>7, <5>2, <5>3 DEF HasBooking
      <4>4. Agree'
        BY <3>1, <3>2, <4>2, <4>3 DEF Agree
      <4> QED
        BY <3>b, <4>4
    <3>8. CASE BookingFails(p)
      <4>1. UNCHANGED <<file, ahead>> /\ HasBooking(p)
        BY <3>8 DEF BookingFails
      <4>2. CASE UNCHANGED <<pages, mem>>
        BY <1>1, <3>1, <4>1, <4>2
      <4>3. CASE pages' = BookedPages(p) /\ mem'[p] = BookedMem(p)
        <5>1. ASSUME NEW s \in Source, s \notin ahead, s # r
              PROVE  mem'[p][s] = file[s] /\ (head[s] # Null <=> s \in pages')
          BY <3>2, <3>4, <3>5, <4>3, <5>1 DEF Agree
        <5>2. ASSUME r \notin ahead
              PROVE  mem'[p][r] = file[r] /\ (head[r] # Null <=> r \in pages')
          <6>1. result[p] = "delete_applied" /\ r \notin pages /\ c = Null
            BY <3>3, <4>1, <5>2 DEF HasBooking
          <6>2. head[r] = Null /\ file[r] = Null
            BY <3>1, <5>2, <6>1 DEF Agree, r
          <6>3. r \notin pages' /\ mem'[p][r] = c
            BY <3>1, <3>4, <4>3, <6>1 DEF BookedPages, r
          <6> QED
            BY <6>1, <6>2, <6>3
        <5>3. Agree'
          BY <3>1, <3>2, <4>1, <5>1, <5>2 DEF Agree
        <5> QED
          BY <3>b, <5>3
      <4> QED
        BY <1>0, <3>8, <4>2, <4>3 DEF BookingFails
    <3> QED
      BY <2>4, <3>6, <3>7, <3>8
  <2> QED
    BY <1>4, <2>1, <2>2, <2>3, <2>4 DEF WorkerStep
<1>5. CASE (\E s \in Source : Edit(s)) \/ (\E i \in DOMAIN rows : Elapse(i)) \/ UNCHANGED vars
  BY <1>1, <1>5 DEF Edit, Elapse, vars, wiki, records, process
<1> QED
  BY <1>2, <1>3, <1>4, <1>5 DEF Next

\* When nothing is in flight and a sync would not touch a source, the wiki has
\* the source's present content, or its last commit was never recorded: with any
\* number of processes, as long as none writes a record while another is between
\* the loading of the records and the lock (application/runtime.py:66).
THEOREM QuietIsConverged == Spec /\ [][RecordsRest]_vars => []QuietMeansConverged
<1>1. Init => Agree /\ Loaded
  BY DEF Init, Agree, Loaded, Beginning
<1>2. RInv /\ Agree /\ Loaded /\ [Next]_vars /\ [RecordsRest]_vars => Agree' /\ Loaded'
  <2> SUFFICES ASSUME RInv, Agree, Loaded, [Next]_vars, [RecordsRest]_vars
               PROVE  Agree' /\ Loaded'
    OBVIOUS
  <2>1. RecordsRest
    BY DEF RecordsRest, vars, records
  <2> QED BY <2>1, StepAgree
<1>3. Agree => QuietMeansConverged
  BY DEF Agree, QuietMeansConverged, UpToDate
<1> QED
  BY <1>1, <1>2, <1>3, AlwaysRInv, PTL DEF Spec

-----------------------------------------------------------------------------
\* A submission that goes through adds a row for each request, and keeps the others.
LEMMA SubmittedRows ==
  ASSUME TypeOK, NEW reqs, JQ!Submit(reqs), Len(reqs) \in Nat, DOMAIN reqs = 1..Len(reqs)
  PROVE  /\ \A i \in DOMAIN rows : i \in Live' <=> i \in Live
         /\ \A i \in DOMAIN rows' : i \notin DOMAIN rows =>
              /\ i - Len(rows) \in DOMAIN reqs
              /\ rows'[i].kind = reqs[i - Len(rows)].kind
              /\ BatchOf(i)' = reqs[i - Len(rows)].payload.batch
         /\ \A m \in DOMAIN reqs : \E i \in Live' : BatchOf(i)' = reqs[m].payload.batch
         /\ DOMAIN reqs # {}
<1>0. rows \in Seq(JQ!Row) /\ DOMAIN rows = 1..Len(rows) /\ Len(rows) \in Nat
  BY DEF TypeOK, JQ!QTypeOK
<1>1. DOMAIN rows' = 1 .. Len(rows) + Len(reqs) /\ Len(reqs) > 0
  BY DEF JQ!Submit
<1>2. ASSUME NEW i \in DOMAIN rows', i \notin DOMAIN rows
      PROVE  i - Len(rows) \in DOMAIN reqs /\ rows'[i] = JQ!NewRow(reqs[i - Len(rows)])
  BY <1>0, <1>1, <1>2 DEF JQ!Submit
<1>3. \A i \in DOMAIN rows' : i \notin DOMAIN rows =>
        /\ rows'[i].payload.batch = reqs[i - Len(rows)].payload.batch
        /\ rows'[i].status = "queued" /\ rows'[i].kind = reqs[i - Len(rows)].kind
  BY <1>2 DEF JQ!NewRow
<1>4. \A i \in DOMAIN rows : i \in DOMAIN rows' /\ rows'[i].status = rows[i].status
  BY SubmitKeepsStatus
<1>5. ASSUME NEW m \in DOMAIN reqs
      PROVE  \E i \in Live' : BatchOf(i)' = reqs[m].payload.batch
  <2> DEFINE i == Len(rows) + m
  <2>1. i \in DOMAIN rows' /\ i \notin DOMAIN rows /\ i - Len(rows) = m
    BY <1>0, <1>1
  <2> HIDE DEF i
  <2>2. rows'[i].payload.batch = reqs[m].payload.batch /\ rows'[i].status = "queued"
    BY <1>3, <2>1
  <2> QED
    BY <2>1, <2>2 DEF Live, JQ!Live, JQ!InFlight, BatchOf
<1>6. DOMAIN reqs # {}
  <2>1. 1 \in DOMAIN reqs
    BY <1>1
  <2> QED BY <2>1
<1>7. \A i \in DOMAIN rows : i \in Live' <=> i \in Live
  BY <1>4 DEF Live, JQ!Live, JQ!InFlight
<1>8. \A i \in DOMAIN rows' : i \notin DOMAIN rows =>
        BatchOf(i)' = reqs[i - Len(rows)].payload.batch
  BY <1>3 DEF BatchOf
<1> QED
  BY <1>2, <1>3, <1>5, <1>6, <1>7, <1>8

\* The rows keep their batch, and without an end, a submission or a new row the
\* batches in flight stay what they are.
LEMMA SameBatches ==
  ASSUME TypeOK, [Next]_vars, Live' = Live
  PROVE  LiveBatches' = LiveBatches /\ \A i \in DOMAIN rows : BatchOf(i)' = BatchOf(i)
<1>1. \A i \in DOMAIN rows : BatchOf(i)' = BatchOf(i)
  BY RowsStay DEF BatchOf
<1>2. \A i \in Live : i \in DOMAIN rows
  BY DEF Live, JQ!Live
<1> QED
  BY <1>1, <1>2 DEF LiveBatches

\* Only the end of a row takes it out of flight.
LEMMA LiveStays ==
  ASSUME TypeOK, [Next]_vars, ~ \E p \in Proc : Settle(p) \/ CloseCompiling(p)
  PROVE  Live \subseteq Live'
<1>0. /\ rows \in Seq(JQ!Row) /\ DOMAIN rows = 1..Len(rows) /\ Len(rows) \in Nat
      /\ \A p \in Proc : exec[p] # 0 => exec[p] \in DOMAIN rows
  BY ExecutedRow DEF TypeOK, JQ!QTypeOK
<1>1. ASSUME NEW i \in DOMAIN rows, rows' = [rows EXCEPT ![i] = rows'[i]],
             rows'[i].status \in {"queued", "running"}
      PROVE  Live \subseteq Live'
  BY <1>0, <1>1 DEF Live, JQ!Live, JQ!InFlight
<1>2. ASSUME UNCHANGED rows
      PROVE  Live \subseteq Live'
  BY <1>2 DEF Live, JQ!Live
<1>3. ASSUME NEW reqs, Len(reqs) \in Nat, JQ!Submit(reqs)
      PROVE  Live \subseteq Live'
  BY <1>3, SubmitKeepsStatus DEF Live, JQ!Live
<1>4. ASSUME NEW p \in Proc, Lifecycle(p) \/ Crash(p)
      PROVE  Live \subseteq Live'
  <2>1. CASE Start(p)
    <3>1. UNCHANGED rows \/ rows' = [i \in DOMAIN rows |-> JQ!Recovered(rows[i])]
      BY <2>1 DEF Start, JQ!RecoverStale
    <3>2. \A i \in DOMAIN rows : JQ!Recovered(rows[i]).status \in {"queued", rows[i].status}
      BY DEF JQ!Recovered, JQ!Turn
    <3> QED
      BY <1>2, <3>1, <3>2 DEF Live, JQ!Live, JQ!InFlight
  <2>2. CASE Construct(p) \/ Sweep(p) \/ Refused(p) \/ Close(p) \/ Crash(p)
    BY <1>2, <2>2 DEF Construct, Sweep, Refused, Close, Crash, JQ!Crash, database
  <2> QED
    BY <1>4, <2>1, <2>2 DEF Lifecycle
<1>5. ASSUME NEW p \in Proc, Enqueue(p)
      PROVE  Live \subseteq Live'
  <2>1. PICK reqs \in SyncOrders(sub[p]) : JQ!Submit(reqs)
    BY <1>5 DEF Enqueue
  <2>2. Len(reqs) \in Nat
    BY <1>5, <2>1, OrdersAreBatches DEF Enqueue, JQ!Batches
  <2> QED
    BY <1>3, <2>1, <2>2
<1>6. ASSUME NEW p \in Proc, RetryEnqueue(p)
      PROVE  Live \subseteq Live'
  <2>1. Len(sub[p].asked) \in Nat
    BY <1>6, RetryShape DEF RetryEnqueue
  <2> QED
    BY <1>2, <1>3, <1>6, <2>1 DEF RetryEnqueue
<1>7. ASSUME NEW p \in Proc, \/ Inspect(p) \/ Capture(p) \/ RetryBroken(p)
                             \/ \E s \in Source : RetryCapture(p, s)
      PROVE  Live \subseteq Live'
  BY <1>2, <1>7 DEF Inspect, Capture, RetryBroken, RetryCapture, database
<1>8. ASSUME NEW p \in Proc, WorkerStep(p), ~Settle(p)
      PROVE  Live \subseteq Live'
  <2>1. CASE Begin(p)
    <3>1. PICK i \in DOMAIN rows : rows' = [rows EXCEPT ![i] = JQ!Turn(rows[i], "running")]
      BY <2>1 DEF Begin, JQ!Claim
    <3>2. rows'[i] = JQ!Turn(rows[i], "running")
      BY <1>0, <3>1
    <3>3. rows'[i].status = "running"
      BY <3>2 DEF JQ!Turn
    <3> QED
      BY <1>1, <3>1, <3>2, <3>3
  <2>2. CASE Report(p)
    <3>1. /\ exec[p] \in DOMAIN rows
          /\ rows' = [rows EXCEPT ![exec[p]] = [rows[exec[p]] EXCEPT !.stale = FALSE]]
      BY <1>0, <2>2 DEF Report, JQ!MarkStage
    <3>2. [rows[exec[p]] EXCEPT !.stale = FALSE].status = rows[exec[p]].status
      BY <1>0, <3>1 DEF JQ!Row
    <3> QED
      BY <1>0, <3>1, <3>2 DEF Live, JQ!Live, JQ!InFlight
  <2>3. CASE ~(Begin(p) \/ Report(p))
    BY <1>2, <1>8, <2>3 DEF WorkerStep, WritePages, CompileSucceeds, DeleteSucceeds, HandlerFails,
                            Reports, Book, BookingFails, DropBatch, database
  <2> QED
    BY <2>1, <2>2, <2>3
<1>9. ASSUME NEW i \in DOMAIN rows, Elapse(i)
      PROVE  Live \subseteq Live'
  <2>1. rows' = [rows EXCEPT ![i] = [rows[i] EXCEPT !.stale = TRUE]]
    BY <1>9 DEF Elapse, JQ!Age
  <2>2. [rows[i] EXCEPT !.stale = TRUE].status = rows[i].status
    BY <1>0 DEF JQ!Row
  <2> QED
    BY <1>0, <2>1, <2>2 DEF Live, JQ!Live, JQ!InFlight
<1>10. CASE (\E s \in Source : Edit(s)) \/ UNCHANGED vars
  BY <1>2, <1>10 DEF Edit, vars, database
<1> QED
  BY <1>4, <1>5, <1>6, <1>7, <1>8, <1>9, <1>10 DEF Next, Submission

\* Rows come from submissions only.
LEMMA NoNewRows ==
  ASSUME TypeOK, [Next]_vars, ~ \E p \in Proc : Enqueue(p) \/ RetryEnqueue(p)
  PROVE  DOMAIN rows' = DOMAIN rows
<1>1. ASSUME NEW p \in Proc,
             \/ Lifecycle(p) \/ CloseCompiling(p) \/ Crash(p) \/ Inspect(p) \/ Capture(p)
             \/ RetryBroken(p) \/ \E s \in Source : RetryCapture(p, s)
      PROVE  DOMAIN rows' = DOMAIN rows
  BY <1>1 DEF Lifecycle, Construct, Sweep, Start, Refused, Close, CloseCompiling, Crash,
              Inspect, Capture, RetryBroken, RetryCapture, database, JQ!RecoverStale, JQ!Cancel,
              JQ!TryFinalize, JQ!Crash
<1>2. ASSUME NEW p \in Proc, WorkerStep(p)
      PROVE  DOMAIN rows' = DOMAIN rows
  BY <1>2 DEF WorkerStep, Begin, Report, WritePages, CompileSucceeds, DeleteSucceeds,
              HandlerFails, Reports, Settle, Book, BookingFails, DropBatch, database,
              JQ!Claim, JQ!MarkStage, JQ!Finish, JQ!TryFinalize
<1>3. CASE (\E s \in Source : Edit(s)) \/ (\E i \in DOMAIN rows : Elapse(i)) \/ UNCHANGED vars
  BY <1>3 DEF Edit, Elapse, JQ!Age, vars, database
<1> QED
  BY <1>1, <1>2, <1>3 DEF Next, Submission

\* The batches of a submission: a sync has one, a retry one for each copy.
Taken(p) ==
  IF sub[p].step \in {"scanned", "captured"} THEN {sub[p].batch}
  ELSE IF sub[p].step = "retry" THEN Copies(sub[p]) ELSE {}

\* A retry takes one batch more.
LEMMA RetryTakes ==
  ASSUME TypeOK, NEW p \in Proc, NEW s \in Source, RetryCapture(p, s)
  PROVE  /\ Copies(sub'[p]) = Taken(p) \cup {nbatch'}
         /\ sub[p].step \in {"none", "retry"}
<1>1. CASE sub[p].step = "retry"
  BY <1>1, RetryGrows DEF Asking, Taken
<1>2. CASE sub[p].step # "retry"
  <2>1. sub[p] = NoSub
    BY <1>2 DEF RetryCapture, Yielded
  <2>2. Asking(p).asked = <<>> /\ Asking(p).spare = {}
    BY <1>2 DEF Asking
  <2>3. Copies(Asking(p)) = {}
    BY <2>2 DEF Copies
  <2> QED
    BY <2>1, <2>3, RetryGrows DEF Taken, NoSub
<1> QED BY <1>1, <1>2

\* They are batches.
LEMMA TakenShape ==
  ASSUME TypeOK, NEW p \in Proc
  PROVE  Taken(p) \subseteq Nat
<1>1. sub[p].step \in {"scanned", "captured"} => sub[p].batch \in Nat
  BY ScannedShape, CapturedShape DEF Batch
<1>2. sub[p].step = "retry" => Copies(sub[p]) \subseteq Nat
  BY RetryShape DEF Copies, Batch
<1> QED
  BY <1>1, <1>2 DEF Taken

\* Batches are numbered as they come, so a submission shares its with no row.
Fresh ==
  /\ \A i \in DOMAIN rows : BatchOf(i) <= nbatch
  /\ \A p \in Proc : \A b \in Taken(p) : b <= nbatch /\ \A i \in DOMAIN rows : BatchOf(i) # b

\* A submission takes the next number, and its rows take it over.
LEMMA StepFresh == TypeOK /\ Owner /\ Fresh /\ [Next]_vars => Fresh'
<1> SUFFICES ASSUME TypeOK, Owner, Fresh, [Next]_vars
             PROVE  Fresh'
  OBVIOUS
<1> USE PipelineAssumption
<1>a. /\ rows \in Seq(JQ!Row) /\ DOMAIN rows = 1..Len(rows) /\ Len(rows) \in Nat
      /\ nbatch \in Nat /\ sub \in [Proc -> SubState]
  BY DEF TypeOK, JQ!QTypeOK
<1>b. \A i \in DOMAIN rows : i \in DOMAIN rows' /\ BatchOf(i)' = BatchOf(i)
  BY RowsStay DEF BatchOf
<1>c. \A i \in DOMAIN rows : BatchOf(i) \in Nat
  BY RowShape DEF BatchOf, Batch
<1>0. /\ rows \in Seq(JQ!Row) /\ DOMAIN rows = 1..Len(rows) /\ Len(rows) \in Nat
      /\ nbatch \in Nat /\ sub \in [Proc -> SubState]
      /\ \A i \in DOMAIN rows : i \in DOMAIN rows' /\ BatchOf(i)' = BatchOf(i)
      /\ \A i \in DOMAIN rows : BatchOf(i) \in Nat
  BY <1>a, <1>b, <1>c
<1>1. ASSUME DOMAIN rows' = DOMAIN rows, nbatch' = nbatch,
             \A q \in Proc : Taken(q)' \subseteq Taken(q)
      PROVE  Fresh'
  BY <1>0, <1>1 DEF Fresh
<1>2. ASSUME NEW p \in Proc, DOMAIN rows' = DOMAIN rows, nbatch' = nbatch + 1,
             Taken(p)' \subseteq Taken(p) \cup {nbatch'},
             \A q \in Proc : q # p => Taken(q)' = {}
      PROVE  Fresh'
  <2>1. \A i \in DOMAIN rows : BatchOf(i)' <= nbatch
    BY <1>0 DEF Fresh
  <2>2. \A i \in DOMAIN rows : BatchOf(i)' <= nbatch' /\ BatchOf(i)' # nbatch'
    BY <1>0, <1>2, <2>1
  <2>3. Taken(p) \subseteq Nat
    BY TakenShape
  <2>4. \A b \in Taken(p) : b <= nbatch' /\ \A i \in DOMAIN rows : BatchOf(i)' # b
    BY <1>0, <1>2, <2>3 DEF Fresh
  <2>5. \A b \in Taken(p)' : b <= nbatch' /\ \A i \in DOMAIN rows : BatchOf(i)' # b
    BY <1>0, <1>2, <2>2, <2>4
  <2> QED
    BY <1>0, <1>2, <2>2, <2>5 DEF Fresh
<1>3. ASSUME NEW p \in Proc, Submission(p) \/ \E s \in Source : RetryCapture(p, s)
      PROVE  mode[p] = "up" /\ \A q \in Proc : q # p => sub'[q] = NoSub /\ Taken(q)' = {}
  <2>1. mode[p] = "up" /\ \A q \in Proc : q # p => sub[q] = NoSub
    BY <1>3, BusyIsUp DEF Idle
  <2>2. \A q \in Proc : q # p => sub'[q] = sub[q]
    <3>1. ASSUME NEW s \in Source, RetryCapture(p, s) PROVE \A q \in Proc : q # p => sub'[q] = sub[q]
      BY <3>1, RetryGrows
    <3> QED
      BY <1>0, <1>3, <3>1 DEF Submission, Inspect, Capture, Enqueue, RetryBroken, RetryEnqueue
  <2> QED BY <2>1, <2>2 DEF Taken, NoSub
<1>4. ASSUME NEW p \in Proc, Enqueue(p) \/ RetryEnqueue(p), DOMAIN rows' # DOMAIN rows
      PROVE  Fresh'
  <2>1. sub'[p] = NoSub /\ nbatch' = nbatch
    BY <1>0, <1>4 DEF Enqueue, RetryEnqueue, bounds, NoSub
  <2>2. \A i \in DOMAIN rows' : i \notin DOMAIN rows => BatchOf(i)' \in Taken(p)
    <3>1. CASE Enqueue(p)
      <4>1. PICK reqs \in SyncOrders(sub[p]) : JQ!Submit(reqs)
        BY <3>1 DEF Enqueue
      <4>2. Len(reqs) \in Nat /\ DOMAIN reqs = 1..Len(reqs)
        BY <3>1, <4>1, OrdersAreBatches DEF Enqueue, JQ!Batches
      <4>3. \A m \in DOMAIN reqs : reqs[m].payload.batch \in Taken(p)
        BY <3>1, <4>1, SyncRequestsShape DEF Enqueue, Taken
      <4> QED
        BY <4>1, <4>2, <4>3, SubmittedRows
    <3>2. CASE RetryEnqueue(p)
      <4> DEFINE reqs == sub[p].asked
      <4>1. JQ!Submit(reqs) /\ Len(reqs) \in Nat /\ DOMAIN reqs = 1..Len(reqs)
        BY <1>4, <3>2, RetryShape DEF RetryEnqueue
      <4>2. \A m \in DOMAIN reqs : reqs[m].payload.batch \in Taken(p)
        BY <3>2 DEF RetryEnqueue, Taken, Copies
      <4> HIDE DEF reqs
      <4> QED
        BY <4>1, <4>2, SubmittedRows
    <3> QED
      BY <1>4, <3>1, <3>2
  <2>3. \A q \in Proc : Taken(q)' = {}
    BY <1>3, <1>4, <2>1 DEF Submission, Taken, NoSub
  <2> QED
    BY <1>0, <2>1, <2>2, <2>3 DEF Fresh
<1>5. ASSUME NEW p \in Proc, Enqueue(p) \/ RetryEnqueue(p), DOMAIN rows' = DOMAIN rows
      PROVE  Fresh'
  <2>1. nbatch' = nbatch /\ sub'[p] = NoSub
    BY <1>0, <1>5 DEF Enqueue, RetryEnqueue, bounds
  <2>2. \A q \in Proc : Taken(q)' = {}
    BY <1>3, <1>5, <2>1 DEF Submission, Taken, NoSub
  <2> QED
    BY <1>1, <1>5, <2>1, <2>2
<1>6. CASE ~ \E p \in Proc : Enqueue(p) \/ RetryEnqueue(p)
  <2>0. DOMAIN rows' = DOMAIN rows
    BY <1>6, NoNewRows
  <2>1. ASSUME NEW p \in Proc, Inspect(p)
        PROVE  Fresh'
    <3>1. CASE UNCHANGED <<sub, nbatch>>
      BY <1>1, <2>0, <3>1 DEF Taken
    <3>2. CASE ~UNCHANGED <<sub, nbatch>>
      <4>1. nbatch' = nbatch + 1 /\ sub'[p].batch = nbatch' /\ sub'[p].step = "scanned"
        BY <1>0, <2>1, <3>2 DEF Inspect
      <4>2. Taken(p)' = {nbatch'}
        BY <4>1 DEF Taken
      <4> QED
        BY <1>2, <1>3, <2>0, <2>1, <4>1, <4>2 DEF Submission
    <3> QED
      BY <3>1, <3>2
  <2>2. ASSUME NEW p \in Proc, NEW s \in Source, RetryCapture(p, s)
        PROVE  Fresh'
    <3>1. nbatch' = nbatch + 1 /\ Taken(p)' = Taken(p) \cup {nbatch'}
      BY <2>2, RetryGrows, RetryTakes DEF Taken
    <3> QED
      BY <1>2, <1>3, <2>0, <2>2, <3>1
  <2>3. ASSUME NEW p \in Proc, Capture(p) \/ RetryBroken(p)
        PROVE  Fresh'
    <3>1. Taken(p)' \subseteq Taken(p)
      BY <1>0, <2>3 DEF Capture, RetryBroken, NoSub, Taken
    <3>2. nbatch' = nbatch /\ \A q \in Proc : q # p => Taken(q)' = {}
      BY <1>3, <2>3 DEF Capture, RetryBroken, bounds, Submission
    <3> QED
      BY <1>1, <2>0, <3>1, <3>2
  <2>4. ASSUME NEW p \in Proc, Lifecycle(p) \/ CloseCompiling(p) \/ Crash(p)
        PROVE  Fresh'
    <3>1. sub' = sub \/ sub' = [sub EXCEPT ![p] = NoSub]
      BY <2>4 DEF Lifecycle, Construct, Sweep, Start, Refused, Close, CloseCompiling, Crash, Gone
    <3>2. nbatch' = nbatch
      BY <2>4 DEF Lifecycle, Construct, Sweep, Start, Refused, Close, CloseCompiling, Crash, bounds
    <3>3. \A q \in Proc : sub'[q] = sub[q] \/ sub'[q] = NoSub
      BY <1>0, <3>1
    <3>4. \A q \in Proc : Taken(q)' \subseteq Taken(q)
      BY <3>3 DEF Taken, NoSub
    <3> QED
      BY <1>1, <2>0, <3>2, <3>4
  <2>5. ASSUME NEW p \in Proc, WorkerStep(p)
        PROVE  UNCHANGED <<sub, nbatch>>
    BY <2>5 DEF WorkerStep, Begin, Report, WritePages, CompileSucceeds, DeleteSucceeds,
                HandlerFails, Reports, Settle, Book, BookingFails, DropBatch, bounds
  <2>6. CASE (\E s \in Source : Edit(s)) \/ (\E i \in DOMAIN rows : Elapse(i)) \/ UNCHANGED vars
    <3>1. UNCHANGED <<sub, nbatch>>
      BY <2>6 DEF Edit, Elapse, bounds, vars
    <3> QED BY <1>1, <2>0, <3>1 DEF Taken
  <2>7. ASSUME UNCHANGED <<sub, nbatch>>
        PROVE  Fresh'
    BY <1>1, <2>0, <2>7 DEF Taken
  <2> QED
    BY <1>6, <2>1, <2>2, <2>3, <2>4, <2>5, <2>6, <2>7 DEF Next, Submission
<1> QED
  BY <1>4, <1>5, <1>6

\* What is submitted has been copied, and its copies are not among the spare ones.
HasCopies(x) ==
  /\ x.step = "captured" => DOMAIN x.digest = {} \/ x.batch \in snaps
  /\ x.step = "retry" => \A n \in DOMAIN x.asked : x.asked[n].payload.batch \in snaps \ x.spare

Copied == \A p \in Proc : HasCopies(sub[p])

\* The sweep of a constructor keeps what a row in flight needs.
Kept == \A p \in Proc : mode[p] = "sweeping" => LiveBatches \subseteq keep[p]

\* No constructor sweeps while another process has made the copies of a submission
\* and not yet queued its rows.
SweepsApart ==
  \A p, q \in Proc : mode[p] = "sweeping" => sub[q].step \notin {"captured", "retry"}

\* Rows keep their batch, so with fewer rows in flight there are no more batches.
LEMMA FewerBatches ==
  ASSUME TypeOK, [Next]_vars, Live' \subseteq Live
  PROVE  LiveBatches' \subseteq LiveBatches
<1>1. \A i \in DOMAIN rows : BatchOf(i)' = BatchOf(i)
  BY RowsStay DEF BatchOf
<1>2. \A i \in Live : i \in DOMAIN rows
  BY DEF Live, JQ!Live
<1> QED
  BY <1>1, <1>2 DEF LiveBatches

\* The copies a submission or a row needs are made before it, and taken away after.
LEMMA StepCopies ==
  /\ RInv /\ Together /\ Fresh /\ Copied /\ Kept /\ InputPresent
  /\ SweepsApart /\ [Next]_vars
  => Copied' /\ Kept' /\ InputPresent'
<1> SUFFICES ASSUME RInv, Together, Fresh, Copied, Kept, InputPresent, SweepsApart, [Next]_vars
             PROVE  Copied' /\ Kept' /\ InputPresent'
  OBVIOUS
<1> USE PipelineAssumption
<1>0. /\ TypeOK /\ Placed /\ Owner /\ Runs /\ Compiles
      /\ rows \in Seq(JQ!Row) /\ DOMAIN rows = 1..Len(rows) /\ Len(rows) \in Nat
      /\ sub \in [Proc -> SubState] /\ keep \in [Proc -> SUBSET Batch]
      /\ mode \in [Proc -> {"down", "sweeping", "built", "up"}]
      /\ \A i \in Live : i \in DOMAIN rows
      /\ \A i \in DOMAIN rows : /\ i \in DOMAIN rows' /\ BatchOf(i)' = BatchOf(i)
                                /\ rows'[i].kind = rows[i].kind
                                /\ rows'[i].payload = rows[i].payload
  BY RowsStay DEF RInv, PInv, TypeOK, JQ!QTypeOK, BatchOf, Live, JQ!Live
\* no copy goes and no row comes; what is submitted by now has been copied
<1>1. ASSUME Live' \subseteq Live, snaps \subseteq snaps',
             \A q \in Proc : mode'[q] = "sweeping" =>
               (mode[q] = "sweeping" /\ keep'[q] = keep[q]) \/ keep'[q] = LiveBatches,
             \A q \in Proc : sub'[q] = sub[q] \/ HasCopies(sub[q])'
      PROVE  Copied' /\ Kept' /\ InputPresent'
  <2>1. LiveBatches' \subseteq LiveBatches
    BY <1>0, <1>1, FewerBatches
  <2>2. Kept'
    BY <1>1, <2>1 DEF Kept
  <2>3. InputPresent'
    BY <1>0, <1>1 DEF InputPresent
  <2>4. Copied'
    BY <1>1 DEF Copied, HasCopies
  <2> QED BY <2>2, <2>3, <2>4
\* a submission ends in its transaction: nobody sweeps, and nobody else submits
<1>2. ASSUME NEW p \in Proc, sub[p].step \in {"captured", "retry"},
             Enqueue(p) \/ RetryEnqueue(p) \/ RetryBroken(p)
      PROVE  Copied' /\ Kept'
  <2>1. \A q \in Proc : sub'[q] = NoSub
    <3>1. \A q \in Proc : q # p => sub[q] = NoSub
      BY <1>2, <1>0, BusyIsUp DEF Submission, Idle
    <3> QED BY <1>0, <1>2, <3>1 DEF Enqueue, RetryEnqueue, RetryBroken
  <2>2. \A q \in Proc : mode'[q] # "sweeping"
    BY <1>2 DEF SweepsApart, Enqueue, RetryEnqueue, RetryBroken, process
  <2> QED BY <2>1, <2>2 DEF Copied, HasCopies, Kept, NoSub
\* its rows come into flight
<1>3. ASSUME NEW p \in Proc, NEW reqs, JQ!Submit(reqs),
             Len(reqs) \in Nat, DOMAIN reqs = 1..Len(reqs), Live = {},
             \A m \in DOMAIN reqs : reqs[m].kind = "compile" => reqs[m].payload.batch \in snaps'
      PROVE  InputPresent'
  <2>1. /\ \A i \in DOMAIN rows : i \in Live' <=> i \in Live
        /\ \A i \in DOMAIN rows' : i \notin DOMAIN rows =>
             /\ i - Len(rows) \in DOMAIN reqs
             /\ rows'[i].kind = reqs[i - Len(rows)].kind
             /\ BatchOf(i)' = reqs[i - Len(rows)].payload.batch
    BY <1>0, <1>3, SubmittedRows
  <2>2. \A i \in Live' : i \in DOMAIN rows' /\ i \notin DOMAIN rows
    BY <1>3, <2>1 DEF Live, JQ!Live
  <2>3. \A i \in Live' : rows'[i].kind = "compile" => BatchOf(i)' \in snaps'
    BY <1>3, <2>1, <2>2
  <2> QED
    BY <2>3 DEF InputPresent
<1>4. ASSUME NEW p \in Proc, Enqueue(p)
      PROVE  Copied' /\ Kept' /\ InputPresent'
  <2>1. PICK reqs \in SyncOrders(sub[p]) : JQ!Submit(reqs)
    BY <1>4 DEF Enqueue
  <2>2. Len(reqs) \in Nat /\ DOMAIN reqs = 1..Len(reqs)
    BY <1>0, <1>4, <2>1, OrdersAreBatches DEF Enqueue, JQ!Batches
  <2>3. sub[p].step = "captured" /\ Live = {}
    BY <1>4 DEF Enqueue, Together
  <2>4. \A m \in DOMAIN reqs : /\ reqs[m].payload.batch = sub[p].batch
                               /\ reqs[m].kind = "compile" => DOMAIN sub[p].digest # {}
    BY <1>0, <2>1, <2>3, SyncRequestsShape
  <2>5. \A m \in DOMAIN reqs : reqs[m].kind = "compile" => sub[p].batch \in snaps
    BY <2>3, <2>4 DEF Copied, HasCopies
  <2>6. snaps' = snaps
    BY <1>4 DEF Enqueue
  <2>7. InputPresent'
    BY <1>3, <2>1, <2>2, <2>3, <2>4, <2>5, <2>6
  <2> QED
    BY <1>2, <1>4, <2>3, <2>7
<1>5. ASSUME NEW p \in Proc, RetryEnqueue(p) \/ RetryBroken(p)
      PROVE  Copied' /\ Kept' /\ InputPresent'
  <2>0. sub[p].step = "retry" /\ sub[p] # NoSub
    BY <1>5 DEF RetryEnqueue, RetryBroken, NoSub
  <2>1. CASE GateOpen /\ JQ!Submit(sub[p].asked) /\ snaps' = snaps \ sub[p].spare
    <3> DEFINE reqs == sub[p].asked
    <3>1. /\ JQ!Submit(reqs) /\ Live = {} /\ Len(reqs) \in Nat /\ DOMAIN reqs = 1..Len(reqs)
          /\ \A m \in DOMAIN reqs : reqs[m].payload.batch \in snaps'
      BY <1>0, <2>0, <2>1, RetryShape DEF GateOpen, Copied, HasCopies
    <3> HIDE DEF reqs
    <3>2. InputPresent'
      BY <1>3, <3>1
    <3>3. RetryEnqueue(p) \/ RetryBroken(p)
      BY <1>5
    <3> QED
      BY <1>2, <2>0, <3>2, <3>3
  <2>2. CASE snaps' = RefusedCopies(p) /\ UNCHANGED <<rows, exec, journal>>
    <3>1. Live' = Live
      BY <2>2 DEF Live, JQ!Live
    <3>2. \A i \in Live : BatchOf(i) \notin Copies(sub[p])
      BY <1>0, <2>0 DEF Fresh, Taken
    <3>3. InputPresent'
      BY <1>0, <2>2, <3>1, <3>2 DEF InputPresent, RefusedCopies
    <3> QED
      BY <1>2, <1>5, <2>0, <3>3
  <2> QED
    BY <1>5, <2>1, <2>2 DEF RetryEnqueue, RetryBroken, database
<1>6. CASE ~ \E p \in Proc : Enqueue(p) \/ RetryEnqueue(p)
  <2>0. Live' \subseteq Live
    BY <1>0, <1>6, LiveShrinks
  <2>1. ASSUME NEW p \in Proc, Lifecycle(p) \/ CloseCompiling(p) \/ Crash(p), ~Sweep(p)
        PROVE  Copied' /\ Kept' /\ InputPresent'
    <3>1. snaps' = snaps /\ \A q \in Proc : sub'[q] = sub[q] \/ sub'[q] = NoSub
      BY <1>0, <2>1 DEF Lifecycle, Construct, Start, Refused, Close, CloseCompiling, Crash, Gone
    <3>2. \A q \in Proc : mode'[q] = "sweeping" =>
               (mode[q] = "sweeping" /\ keep'[q] = keep[q]) \/ keep'[q] = LiveBatches
      BY <1>0, <2>1 DEF Lifecycle, Construct, Start, Refused, Close, CloseCompiling, Crash, Gone
    <3>3. \A q \in Proc : sub'[q] = sub[q] \/ HasCopies(sub[q])'
      BY <3>1 DEF HasCopies, NoSub
    <3> QED
      BY <1>1, <2>0, <3>1, <3>2, <3>3
  <2>2. ASSUME NEW p \in Proc, Sweep(p)
        PROVE  Copied' /\ Kept' /\ InputPresent'
    <3>1. /\ mode[p] = "sweeping" /\ snaps' = snaps \cap keep[p] /\ UNCHANGED <<rows, sub, keep>>
          /\ \A q \in Proc : mode'[q] = "sweeping" => mode[q] = "sweeping"
      BY <1>0, <2>2 DEF Sweep, database
    <3>2. LiveBatches \subseteq keep[p] /\ LiveBatches' \subseteq LiveBatches
      BY <1>0, <2>0, <3>1, FewerBatches DEF Kept
    <3>3. Copied'
      BY <3>1 DEF Copied, HasCopies, SweepsApart
    <3>4. Kept'
      BY <3>1, <3>2 DEF Kept
    <3>5. InputPresent'
      BY <1>0, <2>0, <3>1, <3>2 DEF InputPresent, LiveBatches
    <3> QED BY <3>3, <3>4, <3>5
  <2>3. ASSUME NEW p \in Proc, Inspect(p) \/ Capture(p)
        PROVE  Copied' /\ Kept' /\ InputPresent'
    <3>1. UNCHANGED <<mode, keep>> /\ snaps \subseteq snaps'
      BY <2>3 DEF Inspect, Capture, process
    <3>2. \/ sub'[p] = sub[p]
          \/ sub'[p].step \in {"none", "scanned"}
          \/ sub'[p].step = "captured" /\ DOMAIN sub'[p].digest = {}
          \/ sub'[p].step = "captured" /\ sub'[p].batch \in snaps'
      BY <1>0, <2>3 DEF Inspect, Capture, NoSub
    <3>3. \A q \in Proc : q # p => sub'[q] = sub[q]
      BY <1>0, <2>3 DEF Inspect, Capture
    <3>4. \A q \in Proc : sub'[q] = sub[q] \/ HasCopies(sub[q])'
      BY <3>2, <3>3 DEF HasCopies
    <3> QED
      BY <1>1, <2>0, <3>1, <3>4
  <2>7. ASSUME NEW p \in Proc, NEW s \in Source, RetryCapture(p, s)
        PROVE  Copied' /\ Kept' /\ InputPresent'
    <3> DEFINE x == Asking(p)
               y == sub'[p]
    <3>1. UNCHANGED <<mode, keep>>
      BY <2>7 DEF RetryCapture, process
    <3>2. /\ nbatch \in Nat /\ nbatch' = nbatch + 1 /\ snaps' = snaps \cup {nbatch'}
          /\ y.step = "retry" /\ \A q \in Proc : q # p => sub'[q] = sub[q]
      BY <1>0, <2>7, RetryGrows DEF TypeOK
    <3>3. Taken(p) \subseteq Nat /\ \A b \in Taken(p) : b <= nbatch
      BY <1>0, TakenShape DEF Fresh
    <3>4. nbatch' \notin Taken(p)
      BY <3>2, <3>3
    <3>5. /\ \A n \in DOMAIN x.asked : x.asked[n].payload.batch \in snaps \ x.spare
          /\ \A n \in DOMAIN x.asked : x.asked[n].payload.batch \in Taken(p)
          /\ x.spare \subseteq Taken(p)
      <4>1. CASE sub[p].step = "retry"
        BY <4>1 DEF Asking, Copied, HasCopies, Taken, Copies
      <4>2. CASE sub[p].step # "retry"
        BY <4>2 DEF Asking
      <4> QED BY <4>1, <4>2
    <3>6. \/ /\ \A n \in DOMAIN y.asked : \/ n \in DOMAIN x.asked /\ y.asked[n] = x.asked[n]
                                          \/ y.asked[n].payload.batch = nbatch'
             /\ y.spare = x.spare
          \/ y.asked = x.asked /\ y.spare = x.spare \cup {nbatch'}
      BY <1>0, <2>7, RetryGrows
    <3> HIDE DEF x, y
    <3>7. \A n \in DOMAIN y.asked : y.asked[n].payload.batch \in snaps' \ y.spare
      BY <3>2, <3>4, <3>5, <3>6
    <3>8. \A q \in Proc : sub'[q] = sub[q] \/ HasCopies(sub[q])'
      BY <3>2, <3>7 DEF HasCopies, y
    <3> QED
      BY <1>1, <2>0, <3>1, <3>2, <3>8
  <2>4. ASSUME NEW p \in Proc, WorkerStep(p), ~DropBatch(p)
        PROVE  Copied' /\ Kept' /\ InputPresent'
    <3>1. UNCHANGED <<sub, mode, keep, snaps>>
      BY <2>4 DEF WorkerStep, Begin, Report, WritePages, CompileSucceeds, DeleteSucceeds,
                  HandlerFails, Reports, Settle, Book, BookingFails, process
    <3> QED
      BY <1>1, <2>0, <3>1
  \* the copies go only when no row of their batch is in flight
  <2>5. ASSUME NEW p \in Proc, DropBatch(p)
        PROVE  Copied' /\ Kept' /\ InputPresent'
    <3>1. UNCHANGED <<sub, mode, keep>> /\ \A q \in Proc : sub[q] = NoSub
      BY <1>0, <2>5, BusyIsUp DEF DropBatch, Working, process, WorkerStep, Idle
    <3>2. LiveBatches' \subseteq LiveBatches
      BY <1>0, <2>0, FewerBatches
    <3>3. InputPresent'
      BY <1>0, <2>0, <2>5 DEF InputPresent, DropBatch, StillNeeded
    <3>4. Copied' /\ Kept'
      BY <3>1, <3>2 DEF Copied, HasCopies, Kept, NoSub
    <3> QED BY <3>3, <3>4
  <2>6. CASE (\E s \in Source : Edit(s)) \/ (\E i \in DOMAIN rows : Elapse(i)) \/ UNCHANGED vars
    <3>1. UNCHANGED <<snaps, sub, mode, keep>>
      BY <2>6 DEF Edit, Elapse, vars, process
    <3> QED
      BY <1>1, <2>0, <3>1
  <2> QED
    BY <1>5, <1>6, <2>1, <2>2, <2>3, <2>4, <2>5, <2>6, <2>7 DEF Next, Submission, Lifecycle
<1> QED
  BY <1>4, <1>5, <1>6

\* A row that is queued or running has its input (sync/coordinator.py:55: copy
\* first, then queue), through edits, refusals, retries, crashes and restarts and with
\* any number of processes, as long as no constructor sweeps in the middle of a
\* submission of another process (queue/queue.py:52).
THEOREM InputIsThere == Spec /\ []SweepsApart => []InputPresent
<1> DEFINE I == Together /\ Fresh /\ Copied /\ Kept /\ InputPresent
<1>1. Init => I
  <2>1. Init => Live = {} /\ DOMAIN rows = {} /\ LiveBatches = {}
    BY DEF Init, JQ!QInit, Live, JQ!Live, LiveBatches
  <2> QED
    BY <2>1 DEF Init, Together, Fresh, Taken, Copied, HasCopies, Kept, InputPresent, NoSub
<1>2. RInv /\ I /\ SweepsApart /\ [Next]_vars => I'
  BY StepTogether, StepFresh, StepCopies DEF RInv, PInv
<1>3. I => InputPresent
  OBVIOUS
<1> QED
  BY <1>1, <1>2, <1>3, AlwaysRInv, PTL DEF Spec

-----------------------------------------------------------------------------
\* The copies a submission has made.
Made(p) ==
  IF sub[p].step = "captured" THEN {sub[p].batch}
  ELSE IF sub[p].step = "retry" THEN Copies(sub[p]) ELSE {}

\* The batches of a submission or a row that is still being looked after.
InHand(p) ==
  Made(p) \cup (IF phase[p] \in {"booking", "dropping"} THEN {BatchOf(done[p])} ELSE {})

\* Every directory has somebody who will remove it: a row, the process that is up, or,
\* while none is, the sweep of the one that is being constructed.
Accounted ==
  /\ \A p \in Proc : mode[p] = "up" => snaps \subseteq LiveBatches \cup InHand(p)
  /\ (\A p \in Proc : mode[p] # "up") =>
       \A p \in Proc : /\ mode[p] = "sweeping" => snaps \cap keep[p] \subseteq LiveBatches
                       /\ mode[p] = "built" => snaps \subseteq LiveBatches

\* Whoever holds the lock does not end while another process is being constructed.
HoldsOn ==
  (\E p \in Proc : mode[p] = "up" /\ mode'[p] # "up") => \A p \in Proc : ~Beginning(p)

\* A row that ends takes nothing but itself out of flight.
LEMMA RowEnds ==
  ASSUME TypeOK, Runs, NEW p \in Proc, NEW i \in DOMAIN rows,
         NEW to \in {"succeeded", "failed", "cancelled"},
         i = exec[p], i # 0, JQ!TryFinalize(i, to)
  PROVE  \A j \in Live : j # i => j \in Live'
<1>0. /\ rows \in Seq(JQ!Row) /\ DOMAIN rows = 1..Len(rows)
      /\ \A j \in Live : j \in DOMAIN rows
  BY DEF TypeOK, JQ!QTypeOK, Live, JQ!Live
<1>1. rows[i].status = "running"
  BY DEF Runs, Job
<1>2. rows' = [rows EXCEPT ![i] = JQ!Turn(rows[i], to)]
  BY <1>1 DEF JQ!TryFinalize, JQ!WinsRow
<1>3. DOMAIN rows' = DOMAIN rows /\ \A j \in DOMAIN rows : j # i => rows'[j] = rows[j]
  BY <1>0, <1>2
<1> QED
  BY <1>0, <1>3 DEF Live, JQ!Live, JQ!InFlight

\* Directories come and go with the rows and submissions that need them.
LEMMA StepAccounted ==
  RInv /\ Together /\ Accounted /\ HoldsOn /\ [Next]_vars => Accounted'
<1> SUFFICES ASSUME RInv, Together, Accounted, HoldsOn, [Next]_vars
             PROVE  Accounted'
  OBVIOUS
<1> USE PipelineAssumption
<1>0. /\ TypeOK /\ Placed /\ Owner /\ Runs
      /\ rows \in Seq(JQ!Row) /\ DOMAIN rows = 1..Len(rows) /\ Len(rows) \in Nat
      /\ sub \in [Proc -> SubState] /\ phase \in [Proc -> Phase] /\ done \in [Proc -> 0..MaxRows]
      /\ mode \in [Proc -> {"down", "sweeping", "built", "up"}] /\ keep \in [Proc -> SUBSET Batch]
      /\ \A i \in Live : i \in DOMAIN rows
      /\ \A i \in DOMAIN rows : i \in DOMAIN rows' /\ BatchOf(i)' = BatchOf(i)
  BY RowsStay DEF RInv, PInv, TypeOK, JQ!QTypeOK, BatchOf, Live, JQ!Live
\* the process that is up accounts for all
<1>1. ASSUME NEW p \in Proc, mode[p] = "up", mode' = mode,
             snaps' \subseteq LiveBatches' \cup InHand(p)'
      PROVE  Accounted'
  <2>1. \A q \in Proc : mode'[q] = "up" => q = p
    BY <1>0, <1>1, OneUp
  <2> QED BY <1>1, <2>1 DEF Accounted
\* it keeps its work in hand
<1>2. ASSUME NEW p \in Proc, mode[p] = "up", mode' = mode, Live \subseteq Live', snaps' = snaps,
             InHand(p) \subseteq InHand(p)'
      PROVE  Accounted'
  <2>1. LiveBatches \subseteq LiveBatches'
    BY <1>0, <1>2 DEF LiveBatches
  <2>2. snaps \subseteq LiveBatches \cup InHand(p)
    BY <1>2 DEF Accounted
  <2> QED BY <1>1, <1>2, <2>1, <2>2
\* somebody goes; whoever was up leaves nobody behind who is under construction
<1>3. ASSUME NEW p \in Proc, mode'[p] = "down", snaps' = snaps,
             \A q \in Proc : q # p => /\ mode'[q] = mode[q] /\ keep'[q] = keep[q]
                                      /\ sub'[q] = sub[q] /\ phase'[q] = phase[q]
                                      /\ done'[q] = done[q],
             mode[p] # "up" => Live' = Live
      PROVE  Accounted'
  <2>1. CASE mode[p] = "up"
    <3>1. \A q \in Proc : mode'[q] # "up" /\ mode'[q] \notin {"sweeping", "built"}
      BY <1>0, <1>3, <2>1, OneUp DEF HoldsOn, Beginning
    <3> QED BY <3>1 DEF Accounted
  <2>2. CASE mode[p] # "up"
    <3>1. LiveBatches' = LiveBatches
      BY <1>0, <1>3, <2>2, SameBatches
    <3>2. ASSUME NEW q \in Proc, mode'[q] = "up" PROVE snaps' \subseteq LiveBatches' \cup InHand(q)'
      <4>1. q # p /\ mode[q] = "up"
        BY <1>3, <3>2
      <4>2. phase[q] \in {"booking", "dropping"} => BatchOf(done[q])' = BatchOf(done[q])
        BY <1>0, <1>3, <4>1 DEF Placed, BatchOf
      <4>3. InHand(q)' = InHand(q)
        BY <1>3, <4>1, <4>2 DEF InHand, Made
      <4> QED BY <1>3, <3>1, <4>1, <4>3 DEF Accounted
    <3>3. ASSUME \A q \in Proc : mode'[q] # "up", NEW q \in Proc
          PROVE  /\ mode'[q] = "sweeping" => snaps' \cap keep'[q] \subseteq LiveBatches'
                 /\ mode'[q] = "built" => snaps' \subseteq LiveBatches'
      <4>1. \A x \in Proc : mode[x] # "up"
        BY <1>3, <2>2, <3>3
      <4> QED BY <1>3, <3>1, <4>1 DEF Accounted
    <3> QED BY <3>2, <3>3 DEF Accounted
  <2> QED BY <2>1, <2>2
\* the batch of a row that ends is looked after by its booking
<1>4. ASSUME NEW p \in Proc, Settle(p)
      PROVE  Accounted'
  <2>0. mode[p] = "up" /\ sub[p] = NoSub /\ UNCHANGED <<mode, sub, snaps>>
    BY <1>0, <1>4 DEF Settle, Working, Owner, Idle, process
  <2>1. PICK i \in DOMAIN rows : i = exec[p] /\ i # 0
    BY <1>0, <1>4, ExecutedRow DEF Settle, Working, Placed
  <2>2. rows[i].status = "running"
    BY <1>0, <2>1 DEF Runs, Job
  <2>3. \A j \in Live : j # i => j \in Live'
    BY <1>0, <1>4, <2>1, RowEnds DEF Settle, JQ!Finish
  <2>4. phase'[p] = "booking" /\ done'[p] = i
    BY <1>0, <1>4, <2>1, <2>2 DEF Settle, JQ!WinsRow
  <2>5. BatchOf(i) \in InHand(p)'
    BY <1>0, <2>0, <2>4 DEF InHand, Made, BatchOf, NoSub
  <2>6. \A b \in LiveBatches : b \in LiveBatches' \/ b = BatchOf(i)
    BY <1>0, <2>3 DEF LiveBatches
  <2>7. InHand(p) = {}
    BY <1>4, <2>0 DEF InHand, Made, Settle, Working, NoSub
  <2>8. snaps' \subseteq LiveBatches' \cup InHand(p)'
    BY <2>0, <2>5, <2>6, <2>7 DEF Accounted
  <2> QED
    BY <1>1, <2>0, <2>8
\* rows of the submission come into flight: there were none
<1>5. ASSUME NEW p \in Proc, NEW reqs, sub[p].step \in {"captured", "retry"}, JQ!Submit(reqs),
             Len(reqs) \in Nat, DOMAIN reqs = 1..Len(reqs), Live = {}, snaps' \subseteq snaps,
             \A b \in Made(p) : b \notin snaps' \/ \E m \in DOMAIN reqs : reqs[m].payload.batch = b,
             sub'[p] = NoSub, UNCHANGED <<phase, done, mode>>
      PROVE  Accounted'
  <2>0. mode[p] = "up"
    BY <1>0, <1>5 DEF Owner, Idle, NoSub
  <2>1. \A m \in DOMAIN reqs : \E i \in Live' : BatchOf(i)' = reqs[m].payload.batch
    BY <1>0, <1>5, SubmittedRows
  <2>2. \A b \in Made(p) : b \notin snaps' \/ b \in LiveBatches'
    BY <1>5, <2>1 DEF LiveBatches
  <2>3. snaps \subseteq InHand(p)
    BY <1>5, <2>0 DEF Accounted, LiveBatches
  <2>4. InHand(p) \subseteq Made(p) \cup InHand(p)'
    <3>1. ASSUME phase[p] \in {"booking", "dropping"} PROVE BatchOf(done[p])' = BatchOf(done[p])
      BY <1>0, <1>5, <3>1 DEF Placed, BatchOf
    <3> QED
      BY <1>5, <3>1 DEF InHand, BatchOf
  <2>5. snaps' \subseteq LiveBatches' \cup InHand(p)'
    BY <1>5, <2>2, <2>3, <2>4
  <2> QED
    BY <1>1, <1>5, <2>0, <2>5
<1>6. ASSUME NEW p \in Proc, Enqueue(p)
      PROVE  Accounted'
  <2>1. PICK reqs \in SyncOrders(sub[p]) : JQ!Submit(reqs)
    BY <1>6 DEF Enqueue
  <2>2. Len(reqs) \in Nat /\ DOMAIN reqs = 1..Len(reqs)
    BY <1>0, <1>6, <2>1, OrdersAreBatches DEF Enqueue, JQ!Batches
  <2>3. sub[p].step = "captured" /\ Live = {}
    BY <1>6 DEF Enqueue, Together
  <2>4. \A m \in DOMAIN reqs : reqs[m].payload.batch = sub[p].batch
    BY <1>0, <2>1, <2>3, SyncRequestsShape
  <2>5. sub'[p] = NoSub /\ UNCHANGED <<snaps, phase, done, mode>>
    BY <1>0, <1>6 DEF Enqueue, process, worker
  <2>6. Made(p) = {sub[p].batch} /\ DOMAIN reqs # {}
    BY <1>0, <2>1, <2>2, <2>3, SubmittedRows DEF Made
  <2>7. \A b \in Made(p) : \E m \in DOMAIN reqs : reqs[m].payload.batch = b
    BY <2>4, <2>6
  <2> QED
    BY <1>5, <2>1, <2>2, <2>3, <2>5, <2>7
<1>7. ASSUME NEW p \in Proc, RetryEnqueue(p) \/ RetryBroken(p)
      PROVE  Accounted'
  <2>0. /\ sub[p].step = "retry" /\ sub'[p] = NoSub /\ UNCHANGED <<phase, done, mode>>
        /\ mode[p] = "up" /\ Made(p) = Copies(sub[p])
    BY <1>0, <1>7 DEF RetryEnqueue, RetryBroken, process, worker, Owner, Idle, NoSub, Made
  <2>1. CASE GateOpen /\ JQ!Submit(sub[p].asked) /\ snaps' = snaps \ sub[p].spare
    <3> DEFINE reqs == sub[p].asked
    <3>1. JQ!Submit(reqs) /\ Live = {} /\ Len(reqs) \in Nat /\ DOMAIN reqs = 1..Len(reqs)
      BY <1>0, <2>0, <2>1, RetryShape DEF GateOpen
    <3>2. \A b \in Made(p) : b \notin snaps' \/ \E m \in DOMAIN reqs : reqs[m].payload.batch = b
      BY <2>0, <2>1 DEF Copies
    <3>3. snaps' \subseteq snaps
      BY <2>1
    <3> HIDE DEF reqs
    <3> QED
      BY <1>5, <2>0, <3>1, <3>2, <3>3
  <2>2. CASE snaps' = RefusedCopies(p) /\ UNCHANGED <<rows, exec, journal>>
    <3>1. LiveBatches' = LiveBatches
      BY <2>2 DEF LiveBatches, Live, JQ!Live, BatchOf
    <3>2. snaps \subseteq LiveBatches \cup InHand(p)
      BY <2>0 DEF Accounted
    <3>3. InHand(p) \subseteq Copies(sub[p]) \cup InHand(p)'
      BY <2>0, <2>2 DEF InHand, BatchOf
    <3>4. snaps' \subseteq LiveBatches' \cup InHand(p)'
      BY <2>2, <3>1, <3>2, <3>3 DEF RefusedCopies
    <3> QED
      BY <1>1, <2>0, <3>4
  <2> QED
    BY <1>7, <2>1, <2>2 DEF RetryEnqueue, RetryBroken, database
<1>8. ASSUME NEW p \in Proc, CloseCompiling(p)
      PROVE  Accounted'
  <2>1. mode[p] = "up"
    BY <1>8 DEF CloseCompiling
  <2>2. /\ mode'[p] = "down" /\ snaps' = snaps
        /\ \A q \in Proc : q # p => /\ mode'[q] = mode[q] /\ keep'[q] = keep[q]
                                    /\ sub'[q] = sub[q] /\ phase'[q] = phase[q]
                                    /\ done'[q] = done[q]
    BY <1>0, <1>8 DEF CloseCompiling, Gone, TypeOK
  <2> QED BY <1>3, <2>1, <2>2
<1>9. CASE ~ \E p \in Proc : Settle(p) \/ CloseCompiling(p) \/ Enqueue(p) \/ RetryEnqueue(p)
  <2>0. Live' = Live /\ LiveBatches' = LiveBatches
    BY <1>0, <1>9, LiveStays, LiveShrinks, SameBatches
  <2>1. ASSUME NEW p \in Proc, Refused(p) \/ Close(p) \/ Crash(p)
        PROVE  Accounted'
    <3>1. /\ mode'[p] = "down" /\ snaps' = snaps
          /\ \A q \in Proc : q # p => /\ mode'[q] = mode[q] /\ keep'[q] = keep[q]
                                      /\ sub'[q] = sub[q] /\ phase'[q] = phase[q]
                                      /\ done'[q] = done[q]
      BY <1>0, <2>1 DEF Refused, Close, Crash, Gone, TypeOK
    <3> QED BY <1>3, <2>0, <3>1
  \* a step of the construction of p, after which p is not up
  <2>2. ASSUME NEW p \in Proc, snaps' \subseteq snaps, UNCHANGED <<sub, phase, done>>,
               mode[p] # "up", mode'[p] # "up",
               mode'[p] = "sweeping" => snaps' \cap keep'[p] \subseteq LiveBatches,
               mode'[p] = "built" /\ (\A q \in Proc : mode[q] # "up") => snaps' \subseteq LiveBatches,
               \A q \in Proc : q # p => mode'[q] = mode[q] /\ keep'[q] = keep[q]
        PROVE  Accounted'
    <3>1. ASSUME NEW q \in Proc, mode'[q] = "up" PROVE snaps' \subseteq LiveBatches' \cup InHand(q)'
      <4>1. q # p /\ mode[q] = "up"
        BY <2>2, <3>1
      <4>2. phase[q] \in {"booking", "dropping"} => BatchOf(done[q])' = BatchOf(done[q])
        BY <1>0, <2>2, <4>1 DEF Placed, BatchOf
      <4>3. InHand(q)' = InHand(q)
        BY <2>2, <4>1, <4>2 DEF InHand, Made
      <4> QED BY <2>0, <2>2, <4>1, <4>3 DEF Accounted
    <3>2. ASSUME \A q \in Proc : mode'[q] # "up", NEW q \in Proc
          PROVE  /\ mode'[q] = "sweeping" => snaps' \cap keep'[q] \subseteq LiveBatches'
                 /\ mode'[q] = "built" => snaps' \subseteq LiveBatches'
      <4>1. \A x \in Proc : mode[x] # "up"
        BY <2>2, <3>2
      <4> QED BY <2>0, <2>2, <4>1 DEF Accounted
    <3> QED BY <3>1, <3>2 DEF Accounted
  <2>3. ASSUME NEW p \in Proc, Construct(p)
        PROVE  Accounted'
    <3>1. /\ mode[p] = "down" /\ mode'[p] = "sweeping" /\ keep'[p] = LiveBatches
          /\ UNCHANGED <<snaps, sub, phase, done>>
          /\ \A q \in Proc : q # p => mode'[q] = mode[q] /\ keep'[q] = keep[q]
      BY <1>0, <2>3 DEF Construct, worker
    <3> QED BY <2>2, <3>1
  <2>4. ASSUME NEW p \in Proc, Sweep(p)
        PROVE  Accounted'
    <3>1. /\ mode[p] = "sweeping" /\ mode'[p] = "built" /\ snaps' = snaps \cap keep[p]
          /\ UNCHANGED <<keep, sub, phase, done>>
          /\ \A q \in Proc : q # p => mode'[q] = mode[q]
      BY <1>0, <2>4 DEF Sweep, worker
    <3>2. (\A q \in Proc : mode[q] # "up") => snaps' \subseteq LiveBatches
      BY <3>1 DEF Accounted
    <3> QED BY <2>2, <3>1, <3>2
  <2>5. ASSUME NEW p \in Proc, Start(p)
        PROVE  Accounted'
    <3>1. /\ mode'[p] = "up" /\ mode[p] = "built" /\ snaps' = snaps
          /\ \A q \in Proc : q # p => mode'[q] = mode[q]
      BY <1>0, <2>5 DEF Start
    <3>2. \A q \in Proc : mode[q] # "up"
      BY <1>0, <2>5 DEF Start, LockFree, Owner
    <3>3. snaps' \subseteq LiveBatches'
      BY <2>0, <3>1, <3>2 DEF Accounted
    <3>4. \A q \in Proc : mode'[q] = "up" => q = p
      BY <3>1, <3>2
    <3> QED BY <3>1, <3>3, <3>4 DEF Accounted
  \* a submission goes on: what it has copied is in hand
  <2>6. ASSUME NEW p \in Proc, UNCHANGED <<phase, done, mode>>, mode[p] = "up",
               Made(p) \subseteq Made(p)', snaps' \subseteq snaps \cup Made(p)'
        PROVE  Accounted'
    <3>1. InHand(p) \subseteq InHand(p)'
      <4>1. ASSUME phase[p] \in {"booking", "dropping"} PROVE BatchOf(done[p])' = BatchOf(done[p])
        BY <1>0, <2>6, <4>1 DEF Placed, BatchOf
      <4> QED
        BY <2>6, <4>1 DEF InHand, BatchOf
    <3>2. snaps' \subseteq snaps \cup InHand(p)'
      BY <2>6 DEF InHand
    <3>3. snaps \subseteq LiveBatches \cup InHand(p)
      BY <2>6 DEF Accounted
    <3>4. snaps' \subseteq LiveBatches' \cup InHand(p)'
      BY <2>0, <3>1, <3>2, <3>3
    <3> QED
      BY <1>1, <2>6, <3>4
  <2>7. ASSUME NEW p \in Proc, Inspect(p)
        PROVE  Accounted'
    <3>1. UNCHANGED <<phase, done, mode, snaps>> /\ mode[p] = "up" /\ sub[p] = NoSub
      BY <1>0, <2>7 DEF Inspect, Yielded, process, worker
    <3> QED
      BY <2>6, <3>1 DEF NoSub, Made
  <2>8. ASSUME NEW p \in Proc, Capture(p)
        PROVE  Accounted'
    <3>1. UNCHANGED <<phase, done, mode>> /\ mode[p] = "up" /\ sub[p].step = "scanned"
      BY <1>0, <2>8 DEF Capture, process, worker, Owner, Idle, NoSub
    <3>2. \/ snaps' = snaps
          \/ sub'[p].step = "captured" /\ snaps' = snaps \cup {sub'[p].batch}
      BY <1>0, <2>8 DEF Capture
    <3>3. Made(p) = {} /\ snaps' \subseteq snaps \cup Made(p)'
      BY <3>1, <3>2 DEF Made
    <3> QED
      BY <2>6, <3>1, <3>3
  <2>9. ASSUME NEW p \in Proc, NEW s \in Source, RetryCapture(p, s)
        PROVE  Accounted'
    <3>1. UNCHANGED <<phase, done, mode>> /\ mode[p] = "up"
      BY <1>0, <2>9 DEF RetryCapture, Yielded, process, worker, Owner, Idle, NoSub
    <3>2. /\ Made(p)' = Taken(p) \cup {nbatch'} /\ snaps' = snaps \cup {nbatch'}
          /\ Made(p) \subseteq Taken(p)
      BY <1>0, <2>9, RetryGrows, RetryTakes DEF Made, Taken
    <3>3. Made(p) \subseteq Made(p)' /\ snaps' \subseteq snaps \cup Made(p)'
      BY <3>2
    <3> QED
      BY <2>6, <3>1, <3>3
  <2>10. ASSUME NEW p \in Proc, WorkerStep(p), ~DropBatch(p), ~Settle(p)
         PROVE  Accounted'
    <3>1. mode[p] = "up"
      BY <1>0, <2>10, BusyIsUp
    <3>2. UNCHANGED <<sub, mode, keep, done, snaps>>
      BY <2>10 DEF WorkerStep, Begin, Report, WritePages, CompileSucceeds, DeleteSucceeds,
                   HandlerFails, Reports, Book, BookingFails, process, worker
    <3>3. phase[p] \in {"booking", "dropping"} => phase'[p] \in {"booking", "dropping"}
      BY <1>0, <2>10 DEF WorkerStep, Begin, Report, WritePages, CompileSucceeds, DeleteSucceeds,
                         HandlerFails, Reports, Book, BookingFails, Working, worker
    <3>4. phase[p] \in {"booking", "dropping"} => BatchOf(done[p])' = BatchOf(done[p])
      BY <1>0, <3>2 DEF Placed, BatchOf
    <3>5. InHand(p) \subseteq InHand(p)'
      BY <3>2, <3>3, <3>4 DEF InHand, Made
    <3> QED
      BY <1>2, <2>0, <3>1, <3>2, <3>5
  <2>11. ASSUME NEW p \in Proc, DropBatch(p)
         PROVE  Accounted'
    <3>1. /\ mode[p] = "up" /\ sub[p] = NoSub /\ UNCHANGED <<mode, sub>> /\ phase[p] = "dropping"
      BY <1>0, <2>11 DEF DropBatch, Working, Owner, Idle, process
    <3>2. InHand(p) = {BatchOf(done[p])}
      BY <3>1 DEF InHand, Made, NoSub
    <3>3. snaps \subseteq LiveBatches \cup {BatchOf(done[p])}
      BY <3>1, <3>2 DEF Accounted
    <3>4. snaps' \subseteq LiveBatches
      <4>1. CASE StillNeeded(BatchOf(done[p]))
        <5>1. BatchOf(done[p]) \in LiveBatches
          BY <4>1 DEF StillNeeded, LiveBatches
        <5> QED
          BY <2>11, <3>3, <4>1, <5>1 DEF DropBatch
      <4>2. CASE ~StillNeeded(BatchOf(done[p]))
        BY <2>11, <3>3, <4>2 DEF DropBatch
      <4> QED
        BY <4>1, <4>2
    <3> QED
      BY <1>1, <2>0, <3>1, <3>4
  <2>12. CASE (\E s \in Source : Edit(s)) \/ (\E i \in DOMAIN rows : Elapse(i)) \/ UNCHANGED vars
    <3>1. UNCHANGED <<snaps, sub, phase, done, mode, keep>>
      BY <2>12 DEF Edit, Elapse, vars, process, worker
    <3>2. ASSUME NEW p \in Proc PROVE InHand(p)' = InHand(p)
      <4>1. phase[p] \in {"booking", "dropping"} => BatchOf(done[p])' = BatchOf(done[p])
        BY <1>0, <3>1 DEF Placed, BatchOf
      <4> QED BY <3>1, <4>1 DEF InHand, Made
    <3> QED
      BY <2>0, <3>1, <3>2 DEF Accounted
  <2> QED
    BY <1>7, <1>9, <2>1, <2>3, <2>4, <2>5, <2>7, <2>8, <2>9, <2>10, <2>11, <2>12
       DEF Next, Submission, WorkerStep, Lifecycle
<1> QED
  BY <1>4, <1>6, <1>7, <1>8, <1>9

\* A process at rest has no snapshot directory that no row needs any more, with any
\* number of processes, as long as whoever holds the lock does not end while another is
\* being constructed.
THEOREM NothingLeftOver == Spec /\ [][HoldsOn]_vars => []NoLeftoverCopies
<1>1. Init => Together /\ Accounted
  <2>1. Init => Live = {} /\ DOMAIN rows = {}
    BY DEF Init, JQ!QInit, Live, JQ!Live
  <2> QED
    BY <2>1 DEF Init, Together, Accounted, NoSub
<1>2. RInv /\ Together /\ Accounted /\ [Next]_vars /\ [HoldsOn]_vars => Together' /\ Accounted'
  <2> SUFFICES ASSUME RInv, Together, Accounted, [Next]_vars, [HoldsOn]_vars
               PROVE  Together' /\ Accounted'
    OBVIOUS
  <2>1. HoldsOn
    BY DEF HoldsOn, vars, process
  <2> QED
    BY <2>1, StepTogether, StepAccounted DEF RInv, PInv
<1>3. Accounted => NoLeftoverCopies
  BY DEF Accounted, InHand, Made, NoLeftoverCopies, Idle, NoSub
<1> QED
  BY <1>1, <1>2, <1>3, AlwaysRInv, PTL DEF Spec

-----------------------------------------------------------------------------
\* A process is constructed only when all others have ended.
Alone ==
  \A p \in Proc : mode[p] = "down" /\ mode'[p] # "down" => \A q \in Proc : mode[q] = "down"

OneLives == \A p, q \in Proc : mode[p] # "down" /\ mode[q] # "down" => p = q

\* Nobody appears beside a process that lives.
LEMMA StepOneLives == TypeOK /\ OneLives /\ [Next]_vars /\ [Alone]_vars => OneLives'
<1> SUFFICES ASSUME TypeOK, OneLives, [Next]_vars, [Alone]_vars
             PROVE  OneLives'
  OBVIOUS
<1>1. Alone
  BY DEF Alone, vars, process
<1>2. ASSUME NEW p \in Proc, Lifecycle(p) \/ CloseCompiling(p) \/ Crash(p)
      PROVE  \A q \in Proc : q # p => mode'[q] = mode[q]
  BY <1>2 DEF Lifecycle, Construct, Sweep, Start, Refused, Close, CloseCompiling, Crash, Gone,
              TypeOK
<1>3. ASSUME NEW p \in Proc, \/ Submission(p) \/ WorkerStep(p)
                             \/ \E s \in Source : RetryCapture(p, s)
      PROVE  mode' = mode
  BY <1>3 DEF Submission, Inspect, Capture, Enqueue, RetryBroken, RetryEnqueue, RetryCapture, WorkerStep,
              Begin, Report, WritePages, CompileSucceeds, DeleteSucceeds, HandlerFails, Reports,
              Settle, Book, BookingFails, DropBatch, process
<1>4. CASE (\E s \in Source : Edit(s)) \/ (\E i \in DOMAIN rows : Elapse(i)) \/ UNCHANGED vars
  BY <1>4 DEF Edit, Elapse, vars, process, OneLives
<1> QED
  BY <1>1, <1>2, <1>3, <1>4 DEF Next, OneLives, Alone

\* Whoever writes a record holds the lock.
LEMMA RecordsAreTheHolders ==
  ASSUME RInv, [Next]_vars, file' # file
  PROVE  \E p \in Proc : mode[p] = "up"
<1>1. Owner
  BY DEF RInv, PInv
<1>2. \E p \in Proc : WorkerStep(p)
  BY DEF Next, Lifecycle, Construct, Sweep, Start, Refused, Close, CloseCompiling, Crash,
         Submission, Inspect, Capture, Enqueue, RetryBroken, RetryEnqueue, RetryCapture, Edit, Elapse, vars,
         records
<1> QED
  BY <1>1, <1>2, BusyIsUp

\* The usual case of the three: processes that take turns, as scripts do that are run
\* one after the other, or a server that is restarted, see one consistent workspace.
THEOREM TurnsAreSafe ==
  Spec /\ [][Alone]_vars => [](InputPresent /\ NoLeftoverCopies /\ QuietMeansConverged)
<1>1. Init => OneLives
  BY DEF Init, OneLives
<1>2. RInv /\ OneLives /\ [Next]_vars /\ [Alone]_vars => OneLives'
  BY StepOneLives DEF RInv, PInv
<1>3. RInv /\ OneLives => SweepsApart
  BY DEF RInv, PInv, OneLives, SweepsApart, Owner, Idle, NoSub
<1>4. RInv /\ OneLives /\ [Next]_vars => [RecordsRest]_vars /\ [HoldsOn]_vars
  <2> SUFFICES ASSUME RInv, OneLives, [Next]_vars
               PROVE  RecordsRest /\ HoldsOn
    OBVIOUS
  <2>1. RecordsRest
    BY RecordsAreTheHolders DEF RecordsRest, OneLives, Beginning
  <2>2. HoldsOn
    BY DEF HoldsOn, OneLives, Beginning
  <2> QED BY <2>1, <2>2
<1> QED
  BY <1>1, <1>2, <1>3, <1>4, AlwaysRInv, InputIsThere, NothingLeftOver, QuietIsConverged, PTL
     DEF Spec
==============================================================================
