--------------------------- MODULE JobQueueProofs ----------------------------
(***************************************************************************)
(* Proofs about JobQueue for any workers, kinds, resources, keys, payloads *)
(* and bound on the rows.                                                  *)
(***************************************************************************)
EXTENDS JobQueue, TLAPS

Status == InFlight \cup Terminal

\* What a sequence of rows is, for the provers: a function on 1..n.
LEMMA SeqFacts ==
  ASSUME NEW S
  PROVE  /\ \A s \in Seq(S) : /\ Len(s) \in Nat
                              /\ DOMAIN s = 1..Len(s)
                              /\ s \in [1..Len(s) -> S]
         /\ \A n \in Nat : \A f \in [1..n -> S] : f \in Seq(S) /\ Len(f) = n
  OBVIOUS

\* Appending to a sequence adds one position at its end.
LEMMA AppendFacts ==
  ASSUME NEW S, NEW s \in Seq(S), NEW e \in S
  PROVE  /\ Append(s, e) \in Seq(S)
         /\ DOMAIN Append(s, e) = 1 .. Len(s) + 1
         /\ \A n \in 1..Len(s) : Append(s, e)[n] = s[n]
         /\ Append(s, e)[Len(s) + 1] = e
  OBVIOUS

\* A row changed only in what the actions assign is still a row.
LEMMA RowUpdates ==
  ASSUME NEW row \in Row
  PROVE  /\ \A status \in Status : Turn(row, status) \in Row
         /\ \A stale \in BOOLEAN : [row EXCEPT !.stale = stale] \in Row
         /\ [row EXCEPT !.key = NoKey] \in Row
         /\ Recovered(row) \in Row
  BY DEF Row, Turn, Status, InFlight, Terminal, Recovered

\* The types hold in an empty table,
LEMMA InitType == QInit => QTypeOK
  BY QueueAssumption DEF QInit, QTypeOK

\* Only a claim changes whether a row was tried, and nothing its kind.
LEMMA TurnFacts ==
  ASSUME NEW row, NEW status
  PROVE  /\ Turn(row, status).status = status
         /\ Turn(row, status).kind = row.kind
         /\ Turn(row, status).tried <=> (row.tried \/ status = "running")
  <1>1. Turn(row, status).tried = (row.tried \/ status = "running")
    BY DEF Turn
  <1> QED
    BY <1>1 DEF Turn

-----------------------------------------------------------------------------
\* Writing one row keeps the table a table of the same length.
LEMMA WriteRow ==
  ASSUME NEW table \in Seq(Row), NEW i \in DOMAIN table, NEW row \in Row
  PROVE  LET written == [table EXCEPT ![i] = row]
         IN  /\ written \in Seq(Row)
             /\ Len(written) = Len(table)
             /\ DOMAIN written = DOMAIN table
             /\ \A j \in DOMAIN table : written[j] = IF j = i THEN row ELSE table[j]
  OBVIOUS

\* and every step of a process keeps them.
LEMMA StepType == QTypeOK /\ [QNext]_qvars => QTypeOK'
<1> SUFFICES ASSUME QTypeOK, [QNext]_qvars
             PROVE  QTypeOK'
  OBVIOUS
<1> USE QueueAssumption
<1>0. /\ Len(rows) \in Nat
      /\ DOMAIN rows = 1..Len(rows)
      /\ \A i \in DOMAIN rows : rows[i] \in Row
      /\ \A w \in Worker : exec[w] \in 0..Len(rows)
  BY SeqFacts DEF QTypeOK
<1>1. ASSUME NEW reqs \in Batches, Submit(reqs)
      PROVE  QTypeOK'
  <2>1. PICK n \in 1..MaxRows : reqs \in [1..n -> Request]
    BY <1>1 DEF Batches
  <2>2. Len(reqs) = n /\ DOMAIN reqs = 1..n
    BY <2>1, SeqFacts
  <2>3. \A i \in 1..n : NewRow(reqs[i]) \in Row
    BY <2>1 DEF NewRow, Row, Request, InFlight
  <2>4. \A i \in DOMAIN rows : ReleaseKey(rows[i], reqs) \in Row
    BY <1>0, RowUpdates DEF ReleaseKey
  <2>5. rows' \in [1 .. Len(rows) + n -> Row]
    BY <1>0, <1>1, <2>2, <2>3, <2>4 DEF Submit
  <2>6. rows' \in Seq(Row) /\ Len(rows') = Len(rows) + n
    BY <1>0, <2>5, SeqFacts
  <2>7. exec' \in [Worker -> 0..Len(rows')]
    BY <1>0, <1>1, <2>6 DEF QTypeOK, Submit
  <2>8. journal' \in Seq(1..Len(rows'))
    BY <1>0, <1>1, <2>6, SeqFacts DEF QTypeOK, Submit
  <2> QED
    BY <1>1, <2>2, <2>6, <2>7, <2>8 DEF QTypeOK, Submit
<1>2. ASSUME NEW w \in Worker, Claim(w)
      PROVE  QTypeOK'
  <2>1. PICK i \in DOMAIN rows :
          /\ rows' = [rows EXCEPT ![i] = Turn(rows[i], "running")]
          /\ exec' = [exec EXCEPT ![w] = i]
    BY <1>2 DEF Claim
  <2>2. Turn(rows[i], "running") \in Row
    BY <1>0, RowUpdates DEF Status, InFlight
  <2> QED
    BY <1>0, <1>2, <2>1, <2>2, WriteRow DEF QTypeOK, Claim
<1>3. ASSUME NEW w \in Worker, MarkStage(w)
      PROVE  QTypeOK'
  <2>1. exec[w] \in DOMAIN rows
    BY <1>0, <1>3 DEF MarkStage
  <2>2. [rows[exec[w]] EXCEPT !.stale = FALSE] \in Row
    BY <1>0, <2>1, RowUpdates
  <2> QED
    BY <1>3, <2>1, <2>2, WriteRow DEF QTypeOK, MarkStage
<1>4. ASSUME NEW w \in Worker, exec[w] # 0, NEW status \in Terminal, TryFinalize(exec[w], status)
      PROVE  rows' \in Seq(Row) /\ Len(rows') = Len(rows)
  <2>1. exec[w] \in DOMAIN rows
    BY <1>0, <1>4
  <2>2. Turn(rows[exec[w]], status) \in Row
    BY <1>0, <2>1, RowUpdates DEF Status
  <2> QED
    BY <1>4, <2>1, <2>2, WriteRow DEF QTypeOK, TryFinalize
<1>5. ASSUME NEW w \in Worker, NEW status \in {"succeeded", "failed"}, Finish(w, status)
      PROVE  QTypeOK'
  <2>1. rows' \in Seq(Row) /\ Len(rows') = Len(rows)
    BY <1>4, <1>5 DEF Finish, Terminal
  <2>2. exec[w] \in 1..Len(rows)
    BY <1>0, <1>5 DEF Finish
  <2>3. exec' \in [Worker -> 0..Len(rows)]
    BY <1>0, <1>5 DEF QTypeOK, Finish
  <2>4. Append(journal, exec[w]) \in Seq(1..Len(rows)) /\ journal \in Seq(1..Len(rows))
    BY <2>2, AppendFacts DEF QTypeOK
  <2>5. journal' \in Seq(1..Len(rows))
    BY <1>5, <2>4 DEF Finish
  <2> QED
    BY <2>1, <2>3, <2>5 DEF QTypeOK
<1>6. ASSUME NEW w \in Worker, Cancel(w)
      PROVE  QTypeOK'
  <2>1. rows' \in Seq(Row) /\ Len(rows') = Len(rows)
    BY <1>4, <1>6 DEF Cancel, Terminal
  <2> QED
    BY <1>0, <1>6, <2>1 DEF QTypeOK, Cancel
<1>7. ASSUME NEW w \in Worker, Crash(w)
      PROVE  QTypeOK'
  BY <1>0, <1>7 DEF QTypeOK, Crash
<1>8. ASSUME NEW i \in DOMAIN rows, Age(i)
      PROVE  QTypeOK'
  <2>1. [rows[i] EXCEPT !.stale = TRUE] \in Row
    BY <1>0, RowUpdates
  <2> QED
    BY <1>8, <2>1, WriteRow DEF QTypeOK, Age
<1>9. ASSUME RecoverStale
      PROVE  QTypeOK'
  <2>1. rows' \in [1..Len(rows) -> Row]
    BY <1>0, <1>9, RowUpdates DEF RecoverStale
  <2>2. rows' \in Seq(Row) /\ Len(rows') = Len(rows)
    BY <1>0, <2>1, SeqFacts
  <2> QED
    BY <1>9, <2>2 DEF QTypeOK, RecoverStale
<1>10. ASSUME UNCHANGED qvars
       PROVE  QTypeOK'
  BY <1>10 DEF QTypeOK, qvars
<1> QED
  BY <1>1, <1>2, <1>3, <1>5, <1>6, <1>7, <1>8, <1>9, <1>10 DEF QNext

\* The variables keep their shapes: the table is a sequence of rows within its
\* bound, and executions and the journal only name rows that exist.
THEOREM TypeCorrect == QSpec => []QTypeOK
  BY InitType, StepType, PTL DEF QSpec

-----------------------------------------------------------------------------
\* What a row is for never changes: its kind, its resource and its payload.
LEMMA RowsKept ==
  QTypeOK /\ [QNext]_qvars =>
    /\ Len(rows) <= Len(rows')
    /\ \A i \in DOMAIN rows : /\ i \in DOMAIN rows'
                              /\ rows'[i].kind = rows[i].kind
                              /\ rows'[i].resource = rows[i].resource
                              /\ rows'[i].payload = rows[i].payload
<1> DEFINE Same(new, old) == /\ new.kind = old.kind
                             /\ new.resource = old.resource
                             /\ new.payload = old.payload
<1> SUFFICES ASSUME QTypeOK, [QNext]_qvars
             PROVE  /\ Len(rows) <= Len(rows')
                    /\ \A i \in DOMAIN rows : i \in DOMAIN rows' /\ Same(rows'[i], rows[i])
  OBVIOUS
<1> USE QueueAssumption
<1>0. /\ QTypeOK'
      /\ Len(rows) \in Nat /\ Len(rows') \in Nat
      /\ DOMAIN rows = 1..Len(rows) /\ DOMAIN rows' = 1..Len(rows')
      /\ \A i \in DOMAIN rows : rows[i] \in Row
      /\ \A w \in Worker : exec[w] \in 0..Len(rows)
  BY StepType, SeqFacts DEF QTypeOK
<1>1. \A row \in Row, status \in Status : Same(Turn(row, status), row)
  BY DEF Turn
<1>2. ASSUME NEW reqs \in Batches, Submit(reqs)
      PROVE  /\ Len(rows) <= Len(rows')
             /\ \A i \in DOMAIN rows : i \in DOMAIN rows' /\ Same(rows'[i], rows[i])
  <2>1. PICK n \in 1..MaxRows : reqs \in [1..n -> Request]
    BY <1>2 DEF Batches
  <2>2. Len(reqs) = n
    BY <2>1, SeqFacts
  <2>3. DOMAIN rows' = 1 .. Len(rows) + n
    BY <1>2, <2>2 DEF Submit
  <2>4. \A i \in DOMAIN rows : i \in DOMAIN rows' /\ rows'[i] = ReleaseKey(rows[i], reqs)
    BY <1>0, <1>2, <2>1, <2>2 DEF Submit
  <2>5. \A i \in DOMAIN rows : Same(ReleaseKey(rows[i], reqs), rows[i])
    BY <1>0 DEF ReleaseKey, Row
  <2>6. Len(rows) <= Len(rows')
    BY <1>0, <2>1, <2>3
  <2> QED
    BY <2>4, <2>5, <2>6
\* the steps that write one row
<1>3. ASSUME NEW j \in DOMAIN rows, NEW row \in Row, Same(row, rows[j]),
             rows' = [rows EXCEPT ![j] = row]
      PROVE  /\ Len(rows) <= Len(rows')
             /\ \A i \in DOMAIN rows : i \in DOMAIN rows' /\ Same(rows'[i], rows[i])
  BY <1>0, <1>3, WriteRow DEF QTypeOK
<1>4. ASSUME rows' = rows
      PROVE  /\ Len(rows) <= Len(rows')
             /\ \A i \in DOMAIN rows : i \in DOMAIN rows' /\ Same(rows'[i], rows[i])
  BY <1>0, <1>4
<1>5. ASSUME NEW w \in Worker, Claim(w)
      PROVE  /\ Len(rows) <= Len(rows')
             /\ \A i \in DOMAIN rows : i \in DOMAIN rows' /\ Same(rows'[i], rows[i])
  <2>1. PICK i \in DOMAIN rows : rows' = [rows EXCEPT ![i] = Turn(rows[i], "running")]
    BY <1>5 DEF Claim
  <2> QED
    BY <1>0, <1>1, <1>3, <2>1, RowUpdates DEF Status, InFlight
<1>6. ASSUME NEW w \in Worker, exec[w] # 0,
             \/ MarkStage(w)
             \/ \E status \in Terminal : TryFinalize(exec[w], status)
      PROVE  /\ Len(rows) <= Len(rows')
             /\ \A i \in DOMAIN rows : i \in DOMAIN rows' /\ Same(rows'[i], rows[i])
  <2>1. exec[w] \in DOMAIN rows
    BY <1>0, <1>6
  <2>2. CASE MarkStage(w)
    <3>1. [rows[exec[w]] EXCEPT !.stale = FALSE] \in Row
      BY <1>0, <2>1, RowUpdates
    <3>2. Same([rows[exec[w]] EXCEPT !.stale = FALSE], rows[exec[w]])
      BY <1>0, <2>1 DEF Row
    <3> QED
      BY <1>3, <2>1, <2>2, <3>1, <3>2 DEF MarkStage
  <2>3. ASSUME NEW status \in Terminal, TryFinalize(exec[w], status)
        PROVE  /\ Len(rows) <= Len(rows')
               /\ \A i \in DOMAIN rows : i \in DOMAIN rows' /\ Same(rows'[i], rows[i])
    <3>1. Turn(rows[exec[w]], status) \in Row /\ Same(Turn(rows[exec[w]], status), rows[exec[w]])
      BY <1>0, <1>1, <2>1, RowUpdates DEF Status
    <3> QED
      BY <1>3, <1>4, <2>1, <2>3, <3>1 DEF TryFinalize
  <2> QED
    BY <1>6, <2>2, <2>3
<1>7. ASSUME NEW i \in DOMAIN rows, Age(i)
      PROVE  /\ Len(rows) <= Len(rows')
             /\ \A j \in DOMAIN rows : j \in DOMAIN rows' /\ Same(rows'[j], rows[j])
  <2>1. [rows[i] EXCEPT !.stale = TRUE] \in Row
    BY <1>0, RowUpdates
  <2>2. Same([rows[i] EXCEPT !.stale = TRUE], rows[i])
    BY <1>0 DEF Row
  <2> QED
    BY <1>3, <1>7, <2>1, <2>2 DEF Age
<1>8. ASSUME RecoverStale
      PROVE  /\ Len(rows) <= Len(rows')
             /\ \A i \in DOMAIN rows : i \in DOMAIN rows' /\ Same(rows'[i], rows[i])
  <2>1. DOMAIN rows' = DOMAIN rows
    BY <1>8 DEF RecoverStale
  <2>2. \A i \in DOMAIN rows : Same(rows'[i], rows[i])
    BY <1>0, <1>8 DEF RecoverStale, Recovered, Turn
  <2> QED
    BY <1>0, <2>1, <2>2
<1> QED
  BY <1>2, <1>4, <1>5, <1>6, <1>7, <1>8 DEF QNext, qvars, Finish, Cancel, MarkStage, Crash, Terminal

-----------------------------------------------------------------------------
\* A row that left the queue was tried, which StartOrder needs to survive the
\* claim of a later row; SettledOnce and OneInFlightPerResource are inductive
\* beside it.
Started == \A i \in DOMAIN rows : rows[i].status # "queued" => rows[i].tried

QInv ==
  /\ QTypeOK
  /\ OneInFlightPerResource
  /\ Started
  /\ StartOrder
  /\ SettledOnce

\* The invariant holds in an empty table,
LEMMA InitInv == QInit => QInv
  BY InitType DEF QInit, QInv, OneInFlightPerResource, Live, Started, StartOrder, SettledOnce

\* and every step keeps it.
LEMMA StepInv == QInv /\ [QNext]_qvars => QInv'
<1> SUFFICES ASSUME QInv, [QNext]_qvars
             PROVE  QInv'
  OBVIOUS
<1> USE QueueAssumption
<1>0. /\ QTypeOK
      /\ QTypeOK'
      /\ Len(rows) \in Nat
      /\ DOMAIN rows = 1..Len(rows)
      /\ \A i \in DOMAIN rows : rows[i] \in Row
      /\ \A w \in Worker : exec[w] \in 0..Len(rows)
      /\ DOMAIN journal = 1..Len(journal)
      /\ Len(journal) \in Nat
  BY StepType, SeqFacts DEF QInv, QTypeOK
\* the steps that write one row keep the rest of the table and leave kind and
\* resource alone
<1>1. ASSUME NEW i \in DOMAIN rows, NEW row \in Row, rows' = [rows EXCEPT ![i] = row]
      PROVE  /\ DOMAIN rows' = DOMAIN rows
             /\ \A j \in DOMAIN rows : rows'[j] = IF j = i THEN row ELSE rows[j]
  BY <1>0, <1>1
<1>2. ASSUME NEW reqs \in Batches, Submit(reqs)
      PROVE  QInv'
  <2>1. PICK n \in 1..MaxRows : reqs \in [1..n -> Request]
    BY <1>2 DEF Batches
  <2>2. Len(reqs) = n /\ DOMAIN reqs = 1..n
    BY <2>1, SeqFacts
  <2>3. /\ DOMAIN rows' = 1 .. Len(rows) + n
        /\ \A i \in DOMAIN rows : /\ rows'[i].status = rows[i].status
                                  /\ rows'[i].kind = rows[i].kind
                                  /\ rows'[i].resource = rows[i].resource
                                  /\ rows'[i].tried = rows[i].tried
        /\ \A i \in Len(rows)+1 .. Len(rows)+n : /\ rows'[i].status = "queued"
                                                 /\ rows'[i].resource = reqs[i - Len(rows)].resource
                                                 /\ rows'[i].tried = FALSE
    BY <1>0, <1>2, <2>2 DEF Submit, ReleaseKey, NewRow, Row
  <2>4. OneInFlightPerResource'
    <3>1. \A i \in Live, m \in 1..n : rows[i].resource # reqs[m].resource
      BY <1>2, <2>2 DEF Submit, Insertable, Occupants
    <3>2. \A m, k \in 1..n : m # k => reqs[m].resource # reqs[k].resource
      BY <1>2, <2>2 DEF Submit
    <3>3. SUFFICES ASSUME NEW i \in Live', NEW j \in Live', rows'[i].resource = rows'[j].resource
                   PROVE  i = j
      BY DEF OneInFlightPerResource
    <3>4. /\ i \in Live \/ i - Len(rows) \in 1..n
          /\ j \in Live \/ j - Len(rows) \in 1..n
      BY <1>0, <2>1, <2>3 DEF Live
    <3>5. CASE i \in Live /\ j \in Live
      BY <2>3, <3>3, <3>5 DEF QInv, OneInFlightPerResource, Live
    <3>6. CASE i \in Live /\ j \notin Live
      BY <1>0, <2>1, <2>3, <3>1, <3>3, <3>4, <3>6 DEF Live
    <3>7. CASE i \notin Live /\ j \in Live
      BY <1>0, <2>1, <2>3, <3>1, <3>3, <3>4, <3>7 DEF Live
    <3>8. CASE i \notin Live /\ j \notin Live
      BY <1>0, <2>1, <2>3, <3>2, <3>3, <3>4, <3>8 DEF Live
    <3> QED
      BY <3>5, <3>6, <3>7, <3>8
  <2>5. Started'
    BY <1>0, <2>3 DEF QInv, Started
  <2>6. StartOrder'
    BY <1>0, <2>1, <2>3 DEF QInv, StartOrder, SharedWorkers
  <2>7. SettledOnce'
    <3>1. journal' = journal /\ \A m \in DOMAIN journal : journal[m] \in DOMAIN rows
      BY <1>0, <1>2, SeqFacts DEF QTypeOK, Submit
    <3>2. \A i \in DOMAIN rows' : i \in DOMAIN rows \/ rows'[i].status = "queued"
      BY <1>0, <2>1, <2>3
    <3>3. DOMAIN rows \subseteq DOMAIN rows'
      BY <1>0, <2>1, <2>3
    <3> QED
      BY <2>3, <3>1, <3>2, <3>3 DEF QInv, SettledOnce
  <2> QED
    BY <1>0, <2>4, <2>5, <2>6, <2>7 DEF QInv
<1>3. ASSUME NEW w \in Worker, Claim(w)
      PROVE  QInv'
  <2>1. PICK i \in DOMAIN rows :
          /\ NextFor(w, i)
          /\ rows' = [rows EXCEPT ![i] = Turn(rows[i], "running")]
    BY <1>3 DEF Claim
  <2>2. /\ DOMAIN rows' = DOMAIN rows
        /\ \A j \in DOMAIN rows : rows'[j] = IF j = i THEN Turn(rows[i], "running") ELSE rows[j]
    BY <1>0, <2>1
  <2>3. OneInFlightPerResource'
    BY <2>1, <2>2 DEF QInv, OneInFlightPerResource, Live, NextFor, Turn, InFlight
  <2>4. \A j \in DOMAIN rows : rows'[j].kind = rows[j].kind /\ (rows'[j].tried <=> rows[j].tried \/ j = i)
    BY <2>2, TurnFacts DEF Turn
  <2>5. Started'
    BY <2>2, <2>4 DEF QInv, Started
  <2>6. StartOrder'
    <3>1. \A j \in 1..i-1 : SharedWorkers(j, i) => rows[j].status # "queued"
      BY <2>1 DEF NextFor, SharedWorkers
    <3>2. \A j \in DOMAIN rows : j < i /\ SharedWorkers(j, i) => rows[j].tried
      BY <1>0, <3>1 DEF QInv, Started
    <3> QED
      BY <2>2, <2>4, <3>2 DEF QInv, StartOrder, SharedWorkers
  <2>7. SettledOnce'
    BY <1>3, <2>1, <2>2 DEF QInv, SettledOnce, Claim, NextFor, Turn
  <2> QED
    BY <1>0, <2>3, <2>5, <2>6, <2>7 DEF QInv
\* a change of updated_at alone
<1>4. ASSUME NEW i \in DOMAIN rows, NEW stale \in BOOLEAN,
             rows' = [rows EXCEPT ![i].stale = stale], UNCHANGED journal
      PROVE  QInv'
  <2>1. /\ DOMAIN rows' = DOMAIN rows
        /\ \A j \in DOMAIN rows : /\ rows'[j].status = rows[j].status
                                  /\ rows'[j].kind = rows[j].kind
                                  /\ rows'[j].resource = rows[j].resource
                                  /\ rows'[j].tried = rows[j].tried
    BY <1>0, <1>4 DEF Row
  <2>2. OneInFlightPerResource'
    BY <2>1 DEF QInv, OneInFlightPerResource, Live
  <2>3. Started' /\ StartOrder'
    BY <2>1 DEF QInv, Started, StartOrder, SharedWorkers
  <2>4. SettledOnce'
    BY <1>4, <2>1 DEF QInv, SettledOnce
  <2> QED
    BY <1>0, <2>2, <2>3, <2>4 DEF QInv
<1>5. ASSUME NEW w \in Worker, MarkStage(w)
      PROVE  QInv'
  <2>1. exec[w] \in DOMAIN rows
    BY <1>0, <1>5 DEF MarkStage
  <2> QED
    BY <1>4, <1>5, <2>1 DEF MarkStage
<1>6. ASSUME NEW i \in DOMAIN rows, Age(i)
      PROVE  QInv'
  BY <1>4, <1>6 DEF Age
<1>7. ASSUME NEW w \in Worker, exec[w] # 0, NEW status \in Terminal, TryFinalize(exec[w], status)
      PROVE  /\ OneInFlightPerResource' /\ Started' /\ StartOrder'
             /\ DOMAIN rows' = DOMAIN rows
             /\ \A j \in DOMAIN rows :
                  rows'[j].status = IF j = exec[w] /\ WinsRow(j) THEN status ELSE rows[j].status
  <2>1. exec[w] \in DOMAIN rows
    BY <1>0, <1>7
  <2>2. /\ DOMAIN rows' = DOMAIN rows
        /\ \A j \in DOMAIN rows :
             rows'[j] = IF j = exec[w] /\ WinsRow(j) THEN Turn(rows[j], status) ELSE rows[j]
    BY <1>0, <1>7, <2>1 DEF TryFinalize
  <2>3. OneInFlightPerResource'
    BY <2>2 DEF QInv, OneInFlightPerResource, Live, Turn, InFlight, WinsRow
  <2>4. \A j \in DOMAIN rows :
          /\ rows'[j].kind = rows[j].kind
          /\ rows'[j].tried <=> rows[j].tried
          /\ rows'[j].status = "queued" <=> rows[j].status = "queued"
    BY <2>2, TurnFacts DEF WinsRow, Terminal
  <2>5. Started' /\ StartOrder'
    BY <2>2, <2>4 DEF QInv, Started, StartOrder, SharedWorkers
  <2> QED
    BY <2>2, <2>3, <2>5 DEF Turn
<1>8. ASSUME NEW w \in Worker, NEW status \in {"succeeded", "failed"}, Finish(w, status)
      PROVE  QInv'
  <2>1. /\ OneInFlightPerResource' /\ Started' /\ StartOrder'
        /\ DOMAIN rows' = DOMAIN rows
        /\ \A j \in DOMAIN rows :
             rows'[j].status = IF j = exec[w] /\ WinsRow(j) THEN status ELSE rows[j].status
    BY <1>7, <1>8 DEF Finish, Terminal
  <2>2. SettledOnce'
    <3>1. CASE WinsRow(exec[w])
      <4>1. /\ DOMAIN journal' = 1 .. Len(journal) + 1
            /\ \A n \in 1..Len(journal) : journal'[n] = journal[n]
            /\ journal'[Len(journal) + 1] = exec[w]
        BY <1>0, <1>8, <3>1, AppendFacts DEF Finish, QTypeOK
      <4>2. \A n \in DOMAIN journal : journal[n] # exec[w]
        BY <1>0, <1>8, <3>1 DEF QInv, SettledOnce, WinsRow, Finish
      <4> QED
        BY <1>0, <1>8, <2>1, <3>1, <4>1, <4>2 DEF QInv, SettledOnce, Finish
    <3>2. CASE ~WinsRow(exec[w])
      BY <1>8, <2>1, <3>2 DEF QInv, SettledOnce, Finish
    <3> QED
      BY <3>1, <3>2
  <2> QED
    BY <1>0, <2>1, <2>2 DEF QInv
<1>9. ASSUME NEW w \in Worker, Cancel(w)
      PROVE  QInv'
  <2>1. /\ OneInFlightPerResource' /\ Started' /\ StartOrder'
        /\ DOMAIN rows' = DOMAIN rows
        /\ \A j \in DOMAIN rows :
             rows'[j].status = IF j = exec[w] /\ WinsRow(j) THEN "cancelled" ELSE rows[j].status
    BY <1>7, <1>9 DEF Cancel, Terminal
  <2>2. SettledOnce'
    BY <1>9, <2>1 DEF QInv, SettledOnce, Cancel, WinsRow
  <2> QED
    BY <1>0, <2>1, <2>2 DEF QInv
<1>10. ASSUME RecoverStale
       PROVE  QInv'
  <2>1. /\ DOMAIN rows' = DOMAIN rows
        /\ \A j \in DOMAIN rows : rows'[j] = Recovered(rows[j])
    BY <1>10 DEF RecoverStale
  <2>2. OneInFlightPerResource'
    BY <2>1 DEF QInv, OneInFlightPerResource, Live, Recovered, Turn, InFlight
  <2>3. Started' /\ StartOrder'
    <3>1. \A j \in DOMAIN rows :
            /\ rows'[j].kind = rows[j].kind
            /\ rows'[j].tried <=> rows[j].tried
            /\ rows'[j].status # "queued" => rows[j].status # "queued"
      BY <2>1, TurnFacts DEF Recovered
    <3> QED
      BY <2>1, <3>1 DEF QInv, Started, StartOrder, SharedWorkers
  <2>4. SettledOnce'
    BY <1>10, <2>1 DEF QInv, SettledOnce, RecoverStale, Recovered, Turn
  <2> QED
    BY <1>0, <2>2, <2>3, <2>4 DEF QInv
<1>11. ASSUME UNCHANGED <<rows, journal>>
       PROVE  QInv'
  BY <1>0, <1>11 DEF QInv, OneInFlightPerResource, Live, Started, StartOrder, SharedWorkers, SettledOnce
<1> QED
  BY <1>2, <1>3, <1>5, <1>6, <1>8, <1>9, <1>10, <1>11 DEF QNext, qvars, Crash

\* A resource is never occupied by two in-flight rows, however submissions,
\* claims, recoveries and late results interleave.
THEOREM OccupiedOnce == QSpec => []OneInFlightPerResource
  BY InitInv, StepInv, PTL DEF QSpec, QInv

\* The outcome of a row is applied exactly once if it ended with a result and
\* never otherwise, even when a recovered row is executed by two workers.
THEOREM OutcomeOnce == QSpec => []SettledOnce
  BY InitInv, StepInv, PTL DEF QSpec, QInv

\* Rows that the same workers handle start in the order they were queued.
THEOREM StartsInOrder == QSpec => []StartOrder
  BY InitInv, StepInv, PTL DEF QSpec, QInv

-----------------------------------------------------------------------------
\* The ledger's view of the table: as many verdicts as rows.
LEMMA LedgerShape ==
  ASSUME NEW table \in Seq(Row)
  PROVE  LET seen == [i \in DOMAIN table |-> VerdictOf(table[i])]
         IN  /\ DOMAIN seen = 1..Len(table)
             /\ Len(seen) = Len(table)
             /\ Len(seen) \in Nat
             /\ \A i \in DOMAIN table : seen[i] = VerdictOf(table[i])
<1> DEFINE seen == [i \in DOMAIN table |-> VerdictOf(table[i])]
<1>1. Len(table) \in Nat /\ DOMAIN table = 1..Len(table)
  OBVIOUS
<1>2. seen \in [1..Len(table) -> {VerdictOf(table[i]) : i \in DOMAIN table}]
  BY <1>1
<1>3. Len(seen) = Len(table)
  BY <1>1, <1>2, SeqFacts
<1> QED
  BY <1>1, <1>3

\* Every step of the queue is a step of the ledger, or none.
LEMMA StepRefines == QInv /\ QInv' /\ [QNext]_qvars => [Ledger!LNext]_(Ledger!lvars)
<1> SUFFICES ASSUME QInv, QInv', [QNext]_qvars
             PROVE  [Ledger!LNext]_(Ledger!lvars)
  OBVIOUS
<1> DEFINE seen == [i \in DOMAIN rows |-> VerdictOf(rows[i])]
<1>0. /\ Len(rows) \in Nat
      /\ DOMAIN rows = 1..Len(rows)
      /\ DOMAIN seen = 1..Len(rows) /\ Len(seen) = Len(rows)
      /\ DOMAIN seen' = DOMAIN rows' /\ DOMAIN rows' = 1..Len(rows') /\ Len(seen') = Len(rows')
      /\ \A i \in DOMAIN rows : seen[i] = VerdictOf(rows[i])
      /\ \A i \in DOMAIN rows' : seen'[i] = VerdictOf(rows'[i])
      /\ \A w \in Worker : exec[w] \in 0..Len(rows)
  BY LedgerShape, SeqFacts DEF QInv, QTypeOK
\* a step no verdict shows
<1>1. ASSUME DOMAIN rows' = DOMAIN rows,
             \A i \in DOMAIN rows : VerdictOf(rows'[i]) = VerdictOf(rows[i]),
             UNCHANGED journal
      PROVE  UNCHANGED Ledger!lvars
  BY <1>0, <1>1 DEF Ledger!lvars
<1>2. ASSUME NEW reqs \in Batches, Submit(reqs)
      PROVE  Ledger!Open
  <2>1. PICK n \in 1..MaxRows : reqs \in [1..n -> Request]
    BY <1>2 DEF Batches
  <2>2. Len(reqs) = n
    BY <2>1, SeqFacts, QueueAssumption
  <2>3. /\ DOMAIN rows' = 1 .. Len(rows) + n
        /\ \A i \in DOMAIN rows : rows'[i].status = rows[i].status
        /\ \A i \in Len(rows)+1 .. Len(rows)+n : rows'[i].status = "queued"
    BY <1>0, <1>2, <2>2, QueueAssumption, SeqFacts DEF Submit, ReleaseKey, NewRow, Row, QInv, QTypeOK
  <2>4. Len(rows') = Len(rows) + n
    <3>1. rows' \in [1 .. Len(rows) + n -> Row]
      BY <1>0, <2>3, SeqFacts DEF QInv, QTypeOK
    <3>2. Len(rows) + n \in Nat
      BY <1>0, <2>1, QueueAssumption
    <3> QED
      BY <3>1, <3>2, SeqFacts
  <2>5. \A i \in 1..Len(seen) : seen'[i] = seen[i]
    BY <1>0, <2>1, <2>3, QueueAssumption DEF VerdictOf
  <2>6. \A i \in Len(seen)+1 .. Len(seen') : seen'[i] = "pending"
    BY <1>0, <2>1, <2>3, <2>4, QueueAssumption DEF VerdictOf, InFlight
  <2>7. Len(seen') > Len(seen) /\ journal' = journal
    BY <1>0, <1>2, <2>1, <2>4, QueueAssumption DEF Submit
  <2> QED
    BY <2>5, <2>6, <2>7 DEF Ledger!Open
<1>3. ASSUME NEW w \in Worker, Claim(w)
      PROVE  UNCHANGED Ledger!lvars
  <2>1. PICK i \in DOMAIN rows :
          /\ NextFor(w, i)
          /\ rows' = [rows EXCEPT ![i] = Turn(rows[i], "running")]
    BY <1>3 DEF Claim
  <2>2. \A j \in DOMAIN rows : VerdictOf(rows'[j]) = VerdictOf(rows[j])
    BY <1>0, <2>1 DEF NextFor, Turn, VerdictOf, InFlight
  <2> QED
    BY <1>0, <1>1, <1>3, <2>1, <2>2 DEF Claim
<1>4. ASSUME NEW i \in DOMAIN rows, NEW stale \in BOOLEAN,
             rows' = [rows EXCEPT ![i].stale = stale], UNCHANGED journal
      PROVE  UNCHANGED Ledger!lvars
  <2>1. \A j \in DOMAIN rows : rows'[j].status = rows[j].status
    BY <1>0, <1>4, SeqFacts DEF QInv, QTypeOK, Row
  <2> QED
    BY <1>1, <1>4, <2>1 DEF VerdictOf
<1>5. ASSUME NEW w \in Worker, MarkStage(w)
      PROVE  UNCHANGED Ledger!lvars
  <2>1. exec[w] \in DOMAIN rows
    BY <1>0, <1>5 DEF MarkStage
  <2> QED
    BY <1>4, <1>5, <2>1 DEF MarkStage
<1>6. ASSUME NEW i \in DOMAIN rows, Age(i)
      PROVE  UNCHANGED Ledger!lvars
  BY <1>4, <1>6 DEF Age
\* a row that is still running gets its verdict, or nothing is written
<1>7. ASSUME NEW w \in Worker, exec[w] # 0, NEW status \in Terminal, TryFinalize(exec[w], status)
      PROVE  /\ exec[w] \in 1..Len(rows)
             /\ WinsRow(exec[w]) => /\ seen[exec[w]] = "pending"
                                    /\ seen' = [seen EXCEPT ![exec[w]] = status]
             /\ ~WinsRow(exec[w]) => rows' = rows
  <2>1. exec[w] \in DOMAIN rows
    BY <1>0, <1>7
  <2>2. ASSUME WinsRow(exec[w])
        PROVE  /\ seen[exec[w]] = "pending"
               /\ seen' = [seen EXCEPT ![exec[w]] = status]
    <3>1. /\ DOMAIN rows' = DOMAIN rows
          /\ \A j \in DOMAIN rows :
               rows'[j] = IF j = exec[w] THEN Turn(rows[j], status) ELSE rows[j]
      BY <1>0, <1>7, <2>1, <2>2 DEF TryFinalize
    <3>2. \A j \in DOMAIN rows :
            VerdictOf(rows'[j]) = IF j = exec[w] THEN status ELSE VerdictOf(rows[j])
      BY <3>1 DEF VerdictOf, Turn, InFlight, Terminal
    <3> QED
      BY <1>0, <2>1, <2>2, <3>1, <3>2 DEF VerdictOf, WinsRow, InFlight
  <2> QED
    BY <1>0, <1>7, <2>1, <2>2 DEF TryFinalize
<1>8. ASSUME NEW w \in Worker, NEW status \in {"succeeded", "failed"}, Finish(w, status)
      PROVE  [Ledger!LNext]_(Ledger!lvars)
  <2>1. CASE WinsRow(exec[w])
    <3>1. Ledger!Settle(exec[w], status)
      BY <1>7, <1>8, <2>1 DEF Ledger!Settle, Finish, Terminal
    <3> QED
      BY <1>0, <1>7, <1>8, <3>1 DEF Ledger!LNext, Finish, Terminal
  <2>2. CASE ~WinsRow(exec[w])
    BY <1>7, <1>8, <2>2 DEF Ledger!lvars, Finish, Terminal
  <2> QED
    BY <2>1, <2>2
<1>9. ASSUME NEW w \in Worker, Cancel(w)
      PROVE  [Ledger!LNext]_(Ledger!lvars)
  <2>1. CASE WinsRow(exec[w])
    <3>1. Ledger!Withdraw(exec[w])
      BY <1>7, <1>9, <2>1 DEF Ledger!Withdraw, Cancel, Terminal
    <3> QED
      BY <1>0, <1>7, <1>9, <3>1 DEF Ledger!LNext, Cancel, Terminal
  <2>2. CASE ~WinsRow(exec[w])
    BY <1>7, <1>9, <2>2 DEF Ledger!lvars, Cancel, Terminal
  <2> QED
    BY <2>1, <2>2
<1>10. ASSUME RecoverStale
       PROVE  UNCHANGED Ledger!lvars
  <2>1. DOMAIN rows' = DOMAIN rows /\ \A j \in DOMAIN rows : VerdictOf(rows'[j]) = VerdictOf(rows[j])
    BY <1>10 DEF RecoverStale, Recovered, Turn, VerdictOf, InFlight
  <2> QED
    BY <1>1, <1>10, <2>1 DEF RecoverStale
<1>11. ASSUME UNCHANGED <<rows, journal>>
       PROVE  UNCHANGED Ledger!lvars
  BY <1>1, <1>11
<1> QED
  BY <1>2, <1>3, <1>5, <1>6, <1>8, <1>9, <1>10, <1>11 DEF QNext, qvars, Crash, Ledger!LNext

\* The jobs table implements the ledger: whatever crashes, recoveries, late
\* results and duplicate executions happen, outside nothing shows but rows
\* that open, end once, and have their outcome applied in the same step.
THEOREM QueueImplementsLedger == QSpec => ImplementsLedger
<1>1. QInit => Ledger!LInit
  BY DEF QInit, Ledger!LInit
<1> QED
  BY <1>1, InitInv, StepInv, StepRefines, PTL DEF QSpec, ImplementsLedger, Ledger!LSpec
==============================================================================
