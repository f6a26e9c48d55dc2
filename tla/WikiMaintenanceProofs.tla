------------------------- MODULE WikiMaintenanceProofs -------------------------
(***************************************************************************)
(* Proofs about WikiMaintenance for any pages, answers, start and bounds.  *)
(***************************************************************************)
EXTENDS WikiMaintenance, FiniteSetTheorems, WellFoundedInduction, TLAPS

\* The shapes of rows, commits and proposals.
QueueRow == [kind : Writers \cup {"preview"}, unit : Unit, batch : 0..MaxBatches,
             redo : BOOLEAN, stale : BOOLEAN]
CommitRecord == [batch : 0..MaxBatches, before : SUBSET Line]
Proposal ==
  [units : Seq(Unit), resolution : {"pending", "submitted", "dismissed", "superseded"}]

Shapes ==
  /\ head \subseteq Line /\ tree \subseteq Line /\ plan \subseteq Line
  /\ log \in Seq(CommitRecord) /\ Len(log) <= MaxCommits
  /\ queue \in Seq(QueueRow)
  /\ step \in {"idle", "started", "prepared", "written", "committed"}
  /\ proposals \in Seq(Proposal)
  /\ sent \in Seq(Nat) /\ Len(sent) = Len(proposals)
  /\ lag \in BOOLEAN /\ mixed \in BOOLEAN /\ moved \in BOOLEAN
  /\ batches \in 0..MaxBatches /\ faults \in 0..MaxFaults

\* Of the proposals one is pending at most.
OnePending ==
  \A i, j \in 1..Len(proposals) :
    proposals[i].resolution = "pending" /\ proposals[j].resolution = "pending" => i = j

\* The rows in flight that write the wiki are one submission, the last one: a
\* compile, or units that keep to different pages and links.
OneSubmission ==
  /\ \A i, j \in 1..Len(queue) :
       queue[i].kind = "compile" /\ queue[j].kind \in Writers => i = j
  /\ \A i \in 1..Len(queue) :
       queue[i].kind \in Writers => queue[i].batch = batches /\ batches # 0
  /\ \A i, j \in 1..Len(queue) :
       i # j /\ queue[i].kind = "restructure" /\ queue[j].kind = "restructure" =>
         Touched(queue[i].unit) \cap Touched(queue[j].unit) = {}

\* The commits of the last batch are the last commits as long as its rows are in
\* flight.
LogInOrder ==
  /\ \A k \in 1..Len(log) : log[k].batch <= batches
  /\ InFlight(Writers) =>
       \A i, j \in 1..Len(log) : i < j /\ log[i].batch = batches => log[j].batch = batches

\* HEAD keeps every line in the file of a page, and is whole with all its past
\* unless a batch in the middle was taken out.
WikiWhole ==
  /\ InFiles(head)
  /\ ~mixed => Whole(head) /\ \A k \in 1..Len(log) : Whole(log[k].before)

\* A wiki that is whole but for the entries of index.md, and the sections it has.
Linked(w) == \A l \in w : l[2] \in Pages(w) /\ (l[1] = "link" => l[3] \in Pages(w))
Texts(w, P) == {l[3] : l \in SectionsOf(w, P)}

\* Wiki t has the sections and sources of HEAD w, and is whole if w is.
Alike(w, t, whole) ==
  /\ InFiles(t) /\ (whole => Whole(t))
  /\ Texts(t, Slug) = Texts(w, Slug) /\ SourcesOf(t, Slug) = SourcesOf(w, Slug)

\* What unit u is about to write into wiki t: its output pages, and with the pages it
\* leaves alone the sections and sources of HEAD w; what the pages it replaces still
\* have is in what it writes.
PlanOf(u, w, t, written) ==
  /\ \A l \in written : l[1] # "index" /\ l[2] \in u.out
  /\ \A p \in u.out : <<"page", p>> \in written
  /\ u.out # {} =>
       /\ Texts(w, Slug) = Texts(t, Slug \ Touched(u)) \cup Texts(written, Slug)
       /\ Texts(t, Touched(u)) \subseteq Texts(written, Slug)
       /\ SourcesOf(w, Slug) = SourcesOf(t, Slug \ Touched(u)) \cup SourcesOf(written, Slug)
       /\ SourcesOf(t, Touched(u)) \subseteq SourcesOf(written, Slug)

\* Nothing was merged since the unit was read: its links lead to pages that will be
\* there, and it fits.
PlanFits(u, t, written) ==
  /\ Whole(t) /\ ValidUnit(u, Pages(t))
  /\ \A l \in written : l[1] = "link" => l[3] \in (Pages(t) \ Vanished(u)) \cup u.out

\* What unit u made of HEAD w: the pages it declared, unless a /scan was there, and
\* nothing is lost.
WrittenBy(u, w, made, same) ==
  /\ same => Pages(made) = (Pages(w) \ Touched(u)) \cup u.out
  /\ u.out # {} => /\ Texts(made, Slug) = Texts(w, Slug)
                   /\ SourcesOf(made, Slug) = SourcesOf(w, Slug)

\* The working tree t and the plan at step s of row r, when HEAD is w.
SessionAt(s, r, w, t, written, whole, same) ==
  /\ s = "started" => (r.kind \in Writers => Alike(w, t, whole) /\ (same => Pages(t) = Pages(w)))
  /\ s = "prepared" =>
       \/ /\ r.kind = "restructure" /\ InFiles(t) /\ PlanOf(r.unit, w, t, written)
          /\ whole => PlanFits(r.unit, t, written)
          /\ same => Pages(t) = Pages(w)
       \/ r.kind = "compile" /\ InFiles(t) /\ (whole => Linked(t))
  /\ s = "written" =>
       /\ r.kind \in Writers /\ InFiles(t) /\ (whole => Whole(t))
       /\ r.kind = "link" /\ same => Pages(t) = Pages(w)
       /\ r.kind = "restructure" => WrittenBy(r.unit, w, t, same)
  /\ s = "committed" => r.kind \in Writers

\* Who is not idle has a row, and the tree is where its step left it.
HasRow == \E i \in 1..Len(queue) : Claimable(i)
InSession ==
  step # "idle" => HasRow /\ SessionAt(step, Job, head, tree, plan, ~mixed, ~moved)

\* A unit in the queue fits the committed wiki, or it has been applied, or a /scan
\* changed the tree.
UnitsStand ==
  \A i \in 1..Len(queue) : queue[i].kind = "restructure" =>
    \/ queue[i].redo \/ moved
    \/ step = "committed" /\ i = Current
    \/ ValidUnit(queue[i].unit, Pages(head))

MInv ==
  /\ Shapes /\ OnePending /\ DecidedOnce
  /\ OneSubmission /\ LogInOrder /\ BatchesContiguous
  /\ WikiWhole /\ InSession /\ UnitsStand

-----------------------------------------------------------------------------
(* Lines and pages                                                         *)

\* A line is one of five kinds and belongs to a page.
LEMMA LineKinds ==
  /\ \A l \in Line :
       /\ l[1] \in {"page", "index", "section", "source", "link"} /\ l[2] \in Slug
       /\ l[1] = "page" => l = <<"page", l[2]>>
       /\ l[1] = "index" => l = <<"index", l[2]>>
       /\ l[1] = "section" => l = <<"section", l[2], l[3]>> /\ l[3] \in Section
       /\ l[1] = "source" => l = <<"source", l[2], l[3]>> /\ l[3] \in Source
       /\ l[1] = "link" => l = <<"link", l[2], l[3]>> /\ l[3] \in Slug
  /\ \A p \in Slug : <<"page", p>> \in Line /\ <<"index", p>> \in Line
  /\ \A p \in Slug, s \in Section : <<"section", p, s>> \in Line
  /\ \A p \in Slug, s \in Source : <<"source", p, s>> \in Line
  /\ \A p, q \in Slug : <<"link", p, q>> \in Line
BY DEF Line

\* The pages of a wiki, the texts on some pages and the sources they name.
LEMMA Reading ==
  ASSUME NEW w, w \subseteq Line, NEW P, P \subseteq Slug
  PROVE  /\ Pages(w) \subseteq Slug
         /\ \A x : x \in Texts(w, P) <=> \E p \in P : <<"section", p, x>> \in w
         /\ \A x : x \in SourcesOf(w, P) <=> \E p \in P : <<"source", p, x>> \in w
<1>1. Pages(w) \subseteq Slug
  BY DEF Pages
<1>2. ASSUME NEW x PROVE x \in Texts(w, P) <=> \E p \in P : <<"section", p, x>> \in w
  BY LineKinds DEF Texts, SectionsOf
<1>3. ASSUME NEW x PROVE x \in SourcesOf(w, P) <=> \E p \in P : <<"source", p, x>> \in w
  BY LineKinds DEF SourcesOf
<1> QED BY <1>1, <1>2, <1>3

-----------------------------------------------------------------------------
(* Lists of units                                                          *)

\* Any non-empty set of numbers has a smallest one.
LEMMA Smallest ==
  ASSUME NEW S, S \subseteq Nat, S # {}
  PROVE  \E m \in S : \A n \in S : m <= n
<1> DEFINE R == {p \in Nat \X Nat : p[1] < p[2]}
<1>1. IsWellFoundedOn(R, Nat)
  BY NatLessThanWellFounded DEF OpToRel
<1>2. \A m, n \in Nat : <<n, m>> \in R <=> n < m
  OBVIOUS
<1> HIDE DEF R
<1>3. \E m \in S : \A n \in S : ~(<<n, m>> \in R)
  BY <1>1, WFMin
<1>4. PICK m \in S : \A n \in S : ~(<<n, m>> \in R)
  BY <1>3
<1>5. ASSUME NEW n \in S PROVE m <= n
  <2>1. m \in Nat /\ n \in Nat
    BY <1>4
  <2>2. ~(n < m)
    BY <1>2, <1>4, <2>1
  <2> QED BY <2>1, <2>2
<1> QED BY <1>4, <1>5

\* Dropping units of a list leaves a list of units.
LEMMA Dropping ==
  ASSUME NEW units \in Seq(Unit), NEW f \in Selections(Len(units))
  PROVE  /\ Selected(units, f) \in Seq(Unit)
         /\ \A i \in 1..Len(Selected(units, f)) :
              f[i] \in 1..Len(units) /\ Selected(units, f)[i] = units[f[i]]
<1>1. PICK m \in 0..Len(units) : f \in [1..m -> 1..Len(units)]
  BY DEF Selections
<1>2. Selected(units, f) = [i \in 1..m |-> units[f[i]]]
  BY <1>1 DEF Selected
<1>3. \A i \in 1..m : units[f[i]] \in Unit
  BY <1>1
<1>4. m \in Nat
  OBVIOUS
<1>5. /\ [i \in 1..m |-> units[f[i]]] \in Seq(Unit)
      /\ Len([i \in 1..m |-> units[f[i]]]) = m
  BY <1>3, <1>4
<1> QED BY <1>1, <1>2, <1>5

\* What an analysis comes to, and what a user picks, are lists of units.
LEMMA ListsOfUnits ==
  ASSUME NEW units \in Seq(Unit), NEW existing
  PROVE  /\ Picks(units) \subseteq Seq(Unit)
         /\ Analyses(units, existing) \subseteq Seq(Unit)
<1>1. \A list \in Seq(Unit) : Picks(list) \subseteq Seq(Unit)
  BY Dropping DEF Picks
<1>2. \A list \in Seq(Unit) : Resolve(list, existing) \subseteq Seq(Unit)
  BY Dropping DEF Resolve
<1>3. Rechecked(units, existing) \subseteq Seq(Unit)
  BY <1>1 DEF Rechecked
<1> QED BY <1>1, <1>2, <1>3 DEF Analyses

-----------------------------------------------------------------------------
(* Rows                                                                    *)

\* The row being executed is the first one that is not left over from a crash.
LEMMA TheRow ==
  ASSUME queue \in Seq(QueueRow)
  PROVE  /\ \A i \in 1..Len(queue) : Claimable(i) => Current = i
         /\ HasRow => /\ Current \in 1..Len(queue) /\ Claimable(Current)
                      /\ Job = queue[Current] /\ Job \in QueueRow
<1>1. ASSUME HasRow PROVE Current \in 1..Len(queue) /\ Claimable(Current)
  BY <1>1 DEF HasRow, Current
<1>2. ASSUME NEW i \in 1..Len(queue), Claimable(i) PROVE Current = i
  <2>1. Current \in 1..Len(queue) /\ Claimable(Current)
    BY <1>1, <1>2 DEF HasRow
  <2>2. ~(Current < i) /\ ~(i < Current)
    BY <1>2, <2>1 DEF Claimable
  <2> QED BY <2>1, <2>2
<1> QED BY <1>1, <1>2 DEF Job

\* Nothing about the rows changes while the queue stays as it is.
LEMMA SameQueue ==
  ASSUME UNCHANGED queue
  PROVE  /\ Current' = Current /\ Job' = Job /\ HasRow' = HasRow
         /\ InFlight(Writers)' = InFlight(Writers)
BY DEF Current, Job, HasRow, Claimable, InFlight

\* Rows that are added come behind those that are there.
LEMMA RowsAdded ==
  ASSUME queue \in Seq(QueueRow), NEW rows \in Seq(QueueRow), queue' = queue \o rows
  PROVE  /\ queue' \in Seq(QueueRow) /\ Len(queue') = Len(queue) + Len(rows)
         /\ \A i \in 1..Len(queue) : queue'[i] = queue[i]
         /\ \A i \in 1..Len(queue') :
              i \in 1..Len(queue) \/ (i - Len(queue) \in 1..Len(rows)
                                      /\ queue'[i] = rows[i - Len(queue)])
         /\ HasRow => HasRow' /\ Current' = Current /\ Job' = Job
<1>1. /\ queue' \in Seq(QueueRow) /\ Len(queue') = Len(queue) + Len(rows)
      /\ \A i \in 1..Len(queue) : queue'[i] = queue[i]
      /\ \A i \in 1..Len(queue') :
              i \in 1..Len(queue) \/ (i - Len(queue) \in 1..Len(rows)
                                      /\ queue'[i] = rows[i - Len(queue)])
  OBVIOUS
<1>2. ASSUME HasRow PROVE HasRow' /\ Current' = Current /\ Job' = Job
  <2>1. Current \in 1..Len(queue) /\ Claimable(Current)
    BY <1>2, TheRow
  <2> DEFINE c == Current
  <2>2. c \in 1..Len(queue') /\ ~queue'[c].stale /\ \A j \in 1..c-1 : queue'[j].stale
    BY <1>1, <2>1 DEF Claimable
  <2>3. \A i \in 1..Len(queue') :
          ~queue'[i].stale /\ (\A j \in 1..i-1 : queue'[j].stale) => i = c
    <3>1. SUFFICES ASSUME NEW i \in 1..Len(queue'), ~queue'[i].stale,
                          \A j \in 1..i-1 : queue'[j].stale
                   PROVE  i = c
      OBVIOUS
    <3>2. ~(i < c) /\ ~(c < i)
      BY <2>2, <3>1
    <3> HIDE DEF c
    <3> QED BY <2>2, <3>2
  <2>4. Current' = c
    BY <2>2, <2>3 DEF Current, Claimable
  <2> QED BY <1>1, <2>1, <2>2, <2>4 DEF HasRow, Claimable, Job
<1> QED BY <1>1, <1>2

\* The entries of two lists, one behind the other.
LEMMA Joined ==
  ASSUME NEW S, NEW s \in Seq(S), NEW t \in Seq(S)
  PROVE  /\ s \o t \in Seq(S) /\ Len(s \o t) = Len(s) + Len(t)
         /\ \A i \in 1..Len(s) : (s \o t)[i] = s[i]
         /\ \A i \in Len(s)+1..Len(s)+Len(t) : (s \o t)[i] = t[i - Len(s)]
OBVIOUS

\* The rows that are left when the executed one has ended.
LEMMA RowGone ==
  ASSUME queue \in Seq(QueueRow), HasRow, queue' = Without(Current)
  PROVE  /\ queue' \in Seq(QueueRow) /\ Len(queue') = Len(queue) - 1
         /\ \A i \in 1..Len(queue') : i < Current => queue'[i] = queue[i]
         /\ \A i \in 1..Len(queue') : i >= Current => queue'[i] = queue[i+1]
<1>1. Current \in 1..Len(queue)
  BY TheRow
<1>2. /\ SubSeq(queue, 1, Current-1) \in Seq(QueueRow)
      /\ Len(SubSeq(queue, 1, Current-1)) = Current - 1
      /\ \A i \in 1..Current-1 : SubSeq(queue, 1, Current-1)[i] = queue[i]
  BY <1>1
<1>3. /\ SubSeq(queue, Current+1, Len(queue)) \in Seq(QueueRow)
      /\ Len(SubSeq(queue, Current+1, Len(queue))) = Len(queue) - Current
      /\ \A i \in 1..Len(queue)-Current :
           SubSeq(queue, Current+1, Len(queue))[i] = queue[Current+i]
  BY <1>1
<1> DEFINE before == SubSeq(queue, 1, Current-1)
           after == SubSeq(queue, Current+1, Len(queue))
<1>4. queue' = before \o after
  BY DEF Without
<1> HIDE DEF before, after
<1>5. Len(before) = Current - 1 /\ Len(after) = Len(queue) - Current
  BY <1>2, <1>3 DEF before, after
<1>6. before \in Seq(QueueRow) /\ after \in Seq(QueueRow)
  BY <1>2, <1>3 DEF before, after
<1>joined. /\ queue' \in Seq(QueueRow) /\ Len(queue') = Len(before) + Len(after)
           /\ \A i \in 1..Len(before) : queue'[i] = before[i]
           /\ \A i \in Len(before)+1..Len(before)+Len(after) :
                queue'[i] = after[i - Len(before)]
  BY <1>4, <1>6, Joined
<1>7. queue' \in Seq(QueueRow) /\ Len(queue') = Len(queue) - 1
  BY <1>1, <1>5, <1>joined
<1>8. ASSUME NEW i \in 1..Len(queue'), i < Current PROVE queue'[i] = queue[i]
  <2>1. queue'[i] = before[i]
    BY <1>1, <1>5, <1>joined, <1>8
  <2> QED BY <1>1, <1>2, <1>8, <2>1 DEF before
<1>9. ASSUME NEW i \in 1..Len(queue'), i >= Current PROVE queue'[i] = queue[i+1]
  <2>1. queue'[i] = after[i - (Current - 1)]
    BY <1>1, <1>5, <1>joined, <1>7, <1>9
  <2>2. i - (Current - 1) \in 1..Len(queue)-Current /\ Current + (i - (Current - 1)) = i + 1
    BY <1>1, <1>7, <1>9
  <2> QED BY <1>3, <2>1, <2>2 DEF after
<1> QED BY <1>7, <1>8, <1>9

\* What one submission is survives any step whose rows are rows that were there.
LEMMA RowsFromRows ==
  ASSUME queue \in Seq(QueueRow), queue' \in Seq(QueueRow), UNCHANGED batches,
         NEW place \in [1..Len(queue') -> 1..Len(queue)],
         \A i, j \in 1..Len(queue') : place[i] = place[j] => i = j,
         \A i \in 1..Len(queue') :
           /\ queue'[i].kind = queue[place[i]].kind
           /\ queue'[i].unit = queue[place[i]].unit
           /\ queue'[i].batch = queue[place[i]].batch
  PROVE  /\ OneSubmission => OneSubmission'
         /\ InFlight(Writers)' => InFlight(Writers)
<1>1. ASSUME InFlight(Writers)' PROVE InFlight(Writers)
  <2>1. PICK i \in 1..Len(queue') : queue'[i].kind \in Writers
    BY <1>1 DEF InFlight, Writers
  <2>2. place[i] \in 1..Len(queue) /\ queue[place[i]].kind \in Writers
    BY <2>1
  <2> QED BY <2>2 DEF InFlight
<1>2. ASSUME OneSubmission PROVE OneSubmission'
  <2>1. \A i, j \in 1..Len(queue') :
          queue'[i].kind = "compile" /\ queue'[j].kind \in Writers => i = j
    BY <1>2 DEF OneSubmission
  <2>2. \A i \in 1..Len(queue') :
          queue'[i].kind \in Writers => queue'[i].batch = batches' /\ batches' # 0
    BY <1>2 DEF OneSubmission
  <2>3. ASSUME NEW i \in 1..Len(queue'), NEW j \in 1..Len(queue'), i # j,
               queue'[i].kind = "restructure", queue'[j].kind = "restructure"
        PROVE  Touched(queue'[i].unit) \cap Touched(queue'[j].unit) = {}
    <3>1. /\ place[i] \in 1..Len(queue) /\ place[j] \in 1..Len(queue) /\ place[i] # place[j]
          /\ queue[place[i]].kind = "restructure" /\ queue[place[j]].kind = "restructure"
      BY <2>3
    <3>2. Touched(queue[place[i]].unit) \cap Touched(queue[place[j]].unit) = {}
      BY <1>2, <3>1 DEF OneSubmission
    <3> QED BY <3>2
  <2> QED BY <2>1, <2>2, <2>3 DEF OneSubmission, Writers, Touched
<1> QED BY <1>1, <1>2

\* The rows that go over the links of some pages.
LEMMA LinkRows ==
  ASSUME NEW b \in 0..MaxBatches, NEW P \in SUBSET Slug
  PROVE  LET rows == SetToSeq({LinkRow(p, b) : p \in P})
         IN rows \in Seq(QueueRow)
            /\ \A i \in 1..Len(rows) : rows[i].kind = "link" /\ rows[i].batch = b
<1> DEFINE S == {LinkRow(p, b) : p \in P}
           rows == SetToSeq(S)
<1>1. \A r \in S : r \in QueueRow /\ r.kind = "link" /\ r.batch = b
  <2>1. ASSUME NEW p \in P PROVE LinkRow(p, b) \in QueueRow
    <3>1. [in |-> {p}, out |-> {p}] \in Unit
      BY DEF Unit
    <3> QED BY <3>1 DEF LinkRow, Row, QueueRow, Writers
  <2> QED BY <2>1 DEF LinkRow, Row
<1>2. IsFiniteSet(S)
  <2>1. IsFiniteSet(P)
    BY MaintenanceAssumption, FS_Subset
  <2>2. [p \in P |-> LinkRow(p, b)] \in Surjection(P, S)
    BY DEF Surjection
  <2> HIDE DEF S
  <2> QED BY <2>1, <2>2, FS_Surjection
<1> HIDE DEF S
<1>3. PICK f : f \in Bijection(1..Cardinality(S), S)
  BY <1>2, FS_CardinalityType DEF ExistsBijection
<1>4. f \in [1..Cardinality(S) -> S] /\ IsInjective(f)
  BY <1>3 DEF Bijection, Injection
<1>5. rows \in [1..Cardinality(S) -> S]
  BY <1>4 DEF SetToSeq
<1>6. Cardinality(S) \in Nat
  BY <1>2, FS_CardinalityType
<1>7. rows \in Seq(QueueRow) /\ \A i \in 1..Len(rows) : rows[i] \in S
  BY <1>1, <1>5, <1>6
<1> QED BY <1>1, <1>7 DEF S

-----------------------------------------------------------------------------
(* The start                                                               *)

\* Initially nothing is in flight and the wiki is whole.
LEMMA InitEstablishesMInv == Init => MInv
<1> SUFFICES ASSUME Init PROVE MInv
  OBVIOUS
<1>1. PICK legacy \in {<<>>, <<"undecided", "undecided">>} :
        proposals = Migrated(legacy) /\ sent = [i \in 1..Len(legacy) |-> 0]
  BY DEF Init
<1>2. Len(legacy) \in Nat /\ Len(legacy) <= 2
  <2>1. CASE legacy = <<>>
    BY <2>1
  <2>2. CASE legacy = <<"undecided", "undecided">>
    BY <2>2
  <2> QED BY <1>1, <2>1, <2>2
<1>3. /\ proposals \in Seq(Proposal) /\ Len(proposals) = Len(legacy)
      /\ OnePending
      /\ \A i \in 1..Len(proposals) : proposals[i].resolution \in {"superseded", "pending"}
  <2> DEFINE last == [units |-> <<>>, resolution |-> "pending"]
             more(i) == \E j \in i+1..Len(legacy) : legacy[j] = "undecided"
  <2>1. \A i \in 1..Len(legacy) : legacy[i] = "undecided"
    BY <1>1
  <2>2. proposals = [i \in 1..Len(legacy) |-> IF more(i) THEN Decided("superseded") ELSE last]
    BY <1>1, <2>1 DEF Migrated
  <2>3. Decided("superseded") \in Proposal /\ last \in Proposal
    <3>1. <<>> \in Seq(Unit)
      OBVIOUS
    <3> QED BY <3>1 DEF Proposal, Decided
  <2>4. \A i \in 1..Len(legacy) : ~more(i) => i = Len(legacy)
    BY <1>2, <2>1
  <2> HIDE DEF more, last
  <2>5. /\ proposals \in Seq(Proposal) /\ Len(proposals) = Len(legacy)
        /\ \A i \in 1..Len(legacy) :
             proposals[i] = IF more(i) THEN Decided("superseded") ELSE last
    BY <1>2, <2>2, <2>3
  <2>6. OnePending
    BY <2>4, <2>5 DEF OnePending, Decided
  <2>7. \A i \in 1..Len(proposals) : proposals[i].resolution \in {"superseded", "pending"}
    BY <2>5 DEF Decided, last
  <2> QED BY <2>5, <2>6, <2>7
<1>4. sent \in Seq(Nat) /\ Len(sent) = Len(legacy) /\ \A i \in 1..Len(sent) : sent[i] = 0
  BY <1>1, <1>2
<1>5. Shapes
  <2>1. /\ log = <<>> /\ queue = <<>> /\ head = Start /\ tree = Start /\ plan = {}
        /\ step = "idle" /\ lag = FALSE /\ mixed = FALSE /\ moved = FALSE /\ batches = 0 /\ faults = 0
    BY DEF Init, NoPlan
  <2>2. log \in Seq(CommitRecord) /\ Len(log) = 0 /\ queue \in Seq(QueueRow)
    BY <2>1
  <2>3. MaxCommits \in Nat /\ MaxBatches \in Nat /\ MaxFaults \in Nat
    BY MaintenanceAssumption
  <2>4. Start \subseteq Line
    BY StartAssumption
  <2>5. head \subseteq Line /\ tree \subseteq Line /\ plan \subseteq Line
    BY <2>1, <2>4
  <2>6. Len(log) <= MaxCommits /\ batches \in 0..MaxBatches /\ faults \in 0..MaxFaults
    BY <2>1, <2>2, <2>3
  <2>7. /\ step \in {"idle", "started", "prepared", "written", "committed"}
        /\ lag \in BOOLEAN /\ mixed \in BOOLEAN /\ moved \in BOOLEAN
    BY <2>1
  <2>8. Len(sent) = Len(proposals)
    BY <1>3, <1>4
  <2> QED BY <1>3, <1>4, <2>2, <2>5, <2>6, <2>7, <2>8 DEF Shapes
<1>6. DecidedOnce
  BY <1>3, <1>4 DEF DecidedOnce
<1>7. WikiWhole
  BY StartAssumption DEF Init, WikiWhole, Whole, InFiles
<1>8. OneSubmission /\ LogInOrder /\ BatchesContiguous /\ InSession /\ UnitsStand
  BY DEF Init, OneSubmission, LogInOrder, BatchesContiguous, InSession, UnitsStand, InFlight
<1> QED BY <1>3, <1>5, <1>6, <1>7, <1>8 DEF MInv

-----------------------------------------------------------------------------
(* Submissions                                                             *)

\* Where wiki, plan and the executed row stay as they are, so does the session.
LEMMA SessionStays ==
  ASSUME InSession, UNCHANGED <<head, tree, plan, step, mixed, moved>>,
         HasRow => HasRow' /\ Job' = Job
  PROVE  InSession'
BY DEF InSession

\* A row that does not write the wiki asks nothing of the tree.
LEMMA NoWriterStays ==
  ASSUME InSession, UNCHANGED step, HasRow => HasRow' /\ Job' = Job,
         HasRow => Job.kind \notin Writers
  PROVE  InSession'
<1>1. SUFFICES ASSUME step' # "idle"
               PROVE  HasRow' /\ SessionAt(step', Job', head', tree', plan', ~mixed', ~moved')
  BY DEF InSession
<1>2. HasRow /\ SessionAt(step, Job, head, tree, plan, ~mixed, ~moved)
  BY <1>1 DEF InSession
<1>3. step \notin {"prepared", "written", "committed"}
  BY <1>2 DEF SessionAt, Writers
<1>4. step' \notin {"prepared", "written", "committed"} /\ Job'.kind \notin Writers /\ HasRow'
  BY <1>2, <1>3
<1> QED BY <1>4 DEF SessionAt

\* The commits and HEAD stay as they are.
LEMMA HistoryStays ==
  ASSUME UNCHANGED <<head, log, mixed>>
  PROVE  /\ WikiWhole => WikiWhole'
         /\ BatchesContiguous => BatchesContiguous'
BY DEF WikiWhole, BatchesContiguous

\* With the gate open nothing that writes the wiki is in the queue, and a
\* submission of rows that fit the wiki leaves everything in order.
LEMMA WritersQueued ==
  ASSUME MInv, GateOpen, NewBatch, NEW rows \in Seq(QueueRow), queue' = queue \o rows,
         UNCHANGED <<head, tree, log, step, plan, mixed>>,
         \A i \in 1..Len(rows) : rows[i].kind \in Writers /\ rows[i].batch = batches',
         \A i, j \in 1..Len(rows) : rows[i].kind = "compile" => i = j,
         \A i, j \in 1..Len(rows) :
           i # j /\ rows[i].kind = "restructure" /\ rows[j].kind = "restructure" =>
             Touched(rows[i].unit) \cap Touched(rows[j].unit) = {},
         \A i \in 1..Len(rows) :
           rows[i].kind = "restructure" => ValidUnit(rows[i].unit, Pages(tree))
  PROVE  /\ queue' \in Seq(QueueRow) /\ batches' \in 0..MaxBatches /\ moved' \in BOOLEAN
         /\ OneSubmission' /\ LogInOrder' /\ BatchesContiguous'
         /\ WikiWhole' /\ InSession' /\ UnitsStand'
<1>0. /\ queue \in Seq(QueueRow) /\ batches \in 0..MaxBatches /\ log \in Seq(CommitRecord)
      /\ MaxBatches \in Nat
  BY MaintenanceAssumption DEF MInv, Shapes
<1>1. \A i \in 1..Len(queue) : queue[i].kind \notin Writers
  BY DEF GateOpen, InFlight
<1>2. batches' = batches + 1 /\ batches' \in 0..MaxBatches /\ batches' # 0
  BY <1>0 DEF NewBatch
<1>tree. moved' = (tree # head)
  BY DEF NewBatch
<1>3. /\ queue' \in Seq(QueueRow) /\ Len(queue') = Len(queue) + Len(rows)
      /\ \A i \in 1..Len(queue) : queue'[i] = queue[i]
      /\ \A i \in 1..Len(queue') :
           i \in 1..Len(queue) \/ (i - Len(queue) \in 1..Len(rows)
                                   /\ queue'[i] = rows[i - Len(queue)])
      /\ HasRow => HasRow' /\ Current' = Current /\ Job' = Job
  BY <1>0, RowsAdded
<1> DEFINE n == Len(queue)
<1>4. n \in Nat
  BY <1>0
<1>5. \A i \in 1..Len(queue') : queue'[i].kind \in Writers =>
        i - n \in 1..Len(rows) /\ queue'[i] = rows[i - n]
  BY <1>1, <1>3
<1> HIDE DEF n
<1>6. OneSubmission'
  <2>1. ASSUME NEW i \in 1..Len(queue'), NEW j \in 1..Len(queue'),
               queue'[i].kind = "compile", queue'[j].kind \in Writers
        PROVE  i = j
    <3>1. i - n \in 1..Len(rows) /\ rows[i - n].kind = "compile" /\ j - n \in 1..Len(rows)
      BY <1>5, <2>1 DEF Writers
    <3>2. i - n = j - n
      BY <3>1
    <3> QED BY <1>3, <1>4, <3>2
  <2>2. \A i \in 1..Len(queue') :
          queue'[i].kind \in Writers => queue'[i].batch = batches' /\ batches' # 0
    BY <1>2, <1>5
  <2>3. ASSUME NEW i \in 1..Len(queue'), NEW j \in 1..Len(queue'), i # j,
               queue'[i].kind = "restructure", queue'[j].kind = "restructure"
        PROVE  Touched(queue'[i].unit) \cap Touched(queue'[j].unit) = {}
    <3>1. /\ i - n \in 1..Len(rows) /\ queue'[i] = rows[i - n]
          /\ j - n \in 1..Len(rows) /\ queue'[j] = rows[j - n]
      BY <1>5, <2>3 DEF Writers
    <3>2. i - n # j - n
      BY <1>3, <1>4, <2>3
    <3> QED BY <2>3, <3>1, <3>2
  <2> QED BY <2>1, <2>2, <2>3 DEF OneSubmission, Writers, Touched
<1>7. LogInOrder'
  <2>0. \A k \in 1..Len(log) : log[k] \in CommitRecord
    BY <1>0
  <2>1. \A k \in 1..Len(log) : log[k].batch \in 0..MaxBatches /\ log[k].batch <= batches
    BY <2>0 DEF MInv, LogInOrder, CommitRecord
  <2>2. \A k \in 1..Len(log) : log[k].batch <= batches' /\ log[k].batch # batches'
    BY <1>0, <1>2, <2>1
  <2> QED BY <2>2 DEF LogInOrder
<1>8. BatchesContiguous' /\ WikiWhole'
  BY HistoryStays DEF MInv
<1>9. InSession'
  <2>1. HasRow => Job.kind \notin Writers
    BY <1>0, <1>1, TheRow
  <2>2. InSession /\ step' = step
    BY DEF MInv
  <2> QED BY <1>3, <2>1, <2>2, NoWriterStays
<1>10. UnitsStand'
  <2>1. ~moved' => tree = head
    BY <1>tree
  <2>2. ASSUME NEW i \in 1..Len(queue'), queue'[i].kind = "restructure", ~moved'
        PROVE  ValidUnit(queue'[i].unit, Pages(head'))
    <3>1. i - n \in 1..Len(rows) /\ queue'[i] = rows[i - n]
      BY <1>5, <2>2 DEF Writers
    <3>2. ValidUnit(rows[i - n].unit, Pages(tree))
      BY <2>2, <3>1
    <3>3. head' = tree
      BY <2>1, <2>2
    <3> QED BY <3>1, <3>2, <3>3
  <2> QED BY <2>2 DEF UnitsStand
<1> QED BY <1>2, <1>tree, <1>3, <1>6, <1>7, <1>8, <1>9, <1>10

\* The rows of a restructuring: its units keep to different pages and fit the
\* wiki, and the rows behind them go over links.
LEMMA UnitsAndLinks ==
  ASSUME tree \subseteq Line, NEW units \in Seq(Unit), AllValid(units, Pages(tree)),
         batches' \in 0..MaxBatches
  PROVE  LET rows == BatchRows(units)
         IN /\ rows \in Seq(QueueRow)
            /\ \A i \in 1..Len(rows) : /\ rows[i].kind \in {"restructure", "link"}
                                       /\ rows[i].batch = batches'
            /\ \A i, j \in 1..Len(rows) :
                 i # j /\ rows[i].kind = "restructure" /\ rows[j].kind = "restructure" =>
                   Touched(rows[i].unit) \cap Touched(rows[j].unit) = {}
            /\ \A i \in 1..Len(rows) :
                 rows[i].kind = "restructure" => ValidUnit(rows[i].unit, Pages(tree))
<1> DEFINE n == Len(units)
           moves == [i \in 1..n |-> UnitRow(units[i], batches')]
           links == SetToSeq({LinkRow(p, batches') : p \in LinkTargets(units, tree)})
           rows == moves \o links
<1>1. n \in Nat /\ \A i \in 1..n : units[i] \in Unit
  OBVIOUS
<1>2. \A i \in 1..n : UnitRow(units[i], batches') \in QueueRow
  BY <1>1 DEF UnitRow, Row, QueueRow, Writers
<1>3. moves \in Seq(QueueRow) /\ Len(moves) = n /\ \A i \in 1..n : moves[i] = UnitRow(units[i], batches')
  BY <1>1, <1>2
<1>4. LinkTargets(units, tree) \in SUBSET Slug
  BY <1>1 DEF LinkTargets, Unit, Pages
<1>5. links \in Seq(QueueRow) /\ \A i \in 1..Len(links) : links[i].kind = "link" /\ links[i].batch = batches'
  BY <1>4, LinkRows
<1>6. BatchRows(units) = rows
  BY DEF BatchRows
<1>7. \A i \in 1..n : ValidUnit(units[i], Pages(tree))
  BY DEF AllValid, Fits
<1>8. \A i, j \in 1..n : i # j => Touched(units[i]) \cap Touched(units[j]) = {}
  <2>1. ASSUME NEW i \in 1..n, NEW j \in 1..n, j < i
        PROVE  Touched(units[i]) \cap Touched(units[j]) = {}
    <3>1. j \in 1..i-1
      BY <1>1, <2>1
    <3> QED BY <3>1 DEF AllValid, Fits
  <2>2. ASSUME NEW i \in 1..n, NEW j \in 1..n, i # j
        PROVE  Touched(units[i]) \cap Touched(units[j]) = {}
    <3>1. j < i \/ i < j
      BY <1>1, <2>2
    <3> QED BY <2>1, <3>1
  <2> QED BY <2>2
<1> HIDE DEF moves, links, n
<1>9. /\ rows \in Seq(QueueRow) /\ Len(rows) = n + Len(links)
      /\ \A i \in 1..n : rows[i] = moves[i]
      /\ \A i \in n+1..n+Len(links) : rows[i] = links[i - n]
  BY <1>3, <1>5, Joined
<1> HIDE DEF rows
<1>10. \A i \in 1..Len(rows) :
         \/ i \in 1..n /\ rows[i] = UnitRow(units[i], batches')
         \/ rows[i].kind = "link" /\ rows[i].batch = batches'
  <2>1. ASSUME NEW i \in n+1..n+Len(links) PROVE i - n \in 1..Len(links)
    BY <1>1, <1>5, <2>1 DEF n
  <2>2. \A i \in 1..Len(rows) : i \in 1..n \/ i \in n+1..n+Len(links)
    BY <1>1, <1>5, <1>9 DEF n
  <2> QED BY <1>3, <1>5, <1>9, <2>1, <2>2
<1>11. \A i \in 1..n : /\ UnitRow(units[i], batches').kind = "restructure"
                       /\ UnitRow(units[i], batches').unit = units[i]
                       /\ UnitRow(units[i], batches').batch = batches'
  BY DEF UnitRow, Row
<1>12. \A i \in 1..Len(rows) :
         rows[i].kind = "restructure" => i \in 1..n /\ rows[i].unit = units[i]
  BY <1>10, <1>11
<1>13. /\ \A i \in 1..Len(rows) : rows[i].kind \in {"restructure", "link"} /\ rows[i].batch = batches'
       /\ \A i, j \in 1..Len(rows) :
            i # j /\ rows[i].kind = "restructure" /\ rows[j].kind = "restructure" =>
              Touched(rows[i].unit) \cap Touched(rows[j].unit) = {}
       /\ \A i \in 1..Len(rows) :
            rows[i].kind = "restructure" => ValidUnit(rows[i].unit, Pages(tree))
  <2>1. \A i \in 1..Len(rows) : rows[i].kind \in {"restructure", "link"} /\ rows[i].batch = batches'
    BY <1>10, <1>11
  <2>2. \A i, j \in 1..Len(rows) :
          i # j /\ rows[i].kind = "restructure" /\ rows[j].kind = "restructure" =>
            Touched(rows[i].unit) \cap Touched(rows[j].unit) = {}
    BY <1>8, <1>12
  <2> QED BY <1>7, <1>12, <2>1, <2>2
<1> QED BY <1>6, <1>9, <1>13

\* A submission of units, of a proposal or of an analysis of their own.
LEMMA QueueStep ==
  ASSUME MInv, NEW units \in Seq(Unit), Queue(units),
         UNCHANGED <<head, tree, log, step, plan, mixed>>
  PROVE  /\ queue' \in Seq(QueueRow) /\ batches' \in 0..MaxBatches /\ moved' \in BOOLEAN
         /\ OneSubmission' /\ LogInOrder' /\ BatchesContiguous'
         /\ WikiWhole' /\ InSession' /\ UnitsStand'
<1>1. /\ AllValid(units, Pages(tree)) /\ GateOpen /\ NewBatch
      /\ queue' = queue \o BatchRows(units)
  BY DEF Queue
<1>2. tree \subseteq Line /\ batches' \in 0..MaxBatches
  BY <1>1, MaintenanceAssumption DEF MInv, Shapes, NewBatch
<1> DEFINE rows == BatchRows(units)
<1>3. /\ rows \in Seq(QueueRow)
      /\ \A i \in 1..Len(rows) : rows[i].kind \in {"restructure", "link"} /\ rows[i].batch = batches'
      /\ \A i, j \in 1..Len(rows) :
           i # j /\ rows[i].kind = "restructure" /\ rows[j].kind = "restructure" =>
             Touched(rows[i].unit) \cap Touched(rows[j].unit) = {}
      /\ \A i \in 1..Len(rows) :
           rows[i].kind = "restructure" => ValidUnit(rows[i].unit, Pages(tree))
  BY <1>1, <1>2, UnitsAndLinks
<1>4. queue' = queue \o rows
  BY <1>1
<1> HIDE DEF rows
<1>5. /\ \A i \in 1..Len(rows) : rows[i].kind \in Writers /\ rows[i].batch = batches'
      /\ \A i, j \in 1..Len(rows) : rows[i].kind = "compile" => i = j
  BY <1>3 DEF Writers
<1> QED BY <1>1, <1>3, <1>4, <1>5, WritersQueued

\* A submission of rows that go over the links of some pages.
LEMMA LinksStep ==
  ASSUME MInv, NEW P \in SUBSET Slug, GateOpen, NewBatch,
         queue' = queue \o SetToSeq({LinkRow(p, batches') : p \in P}),
         UNCHANGED <<head, tree, log, step, plan, mixed>>
  PROVE  /\ queue' \in Seq(QueueRow) /\ batches' \in 0..MaxBatches /\ moved' \in BOOLEAN
         /\ OneSubmission' /\ LogInOrder' /\ BatchesContiguous'
         /\ WikiWhole' /\ InSession' /\ UnitsStand'
<1>1. batches' \in 0..MaxBatches
  BY MaintenanceAssumption DEF MInv, Shapes, NewBatch
<1> DEFINE rows == SetToSeq({LinkRow(p, batches') : p \in P})
<1>2. /\ rows \in Seq(QueueRow)
      /\ \A i \in 1..Len(rows) : rows[i].kind = "link" /\ rows[i].batch = batches'
  BY <1>1, LinkRows
<1>3. queue' = queue \o rows
  OBVIOUS
<1> HIDE DEF rows
<1>4. /\ \A i \in 1..Len(rows) : rows[i].kind \in Writers /\ rows[i].batch = batches'
      /\ \A i \in 1..Len(rows) : rows[i].kind # "compile" /\ rows[i].kind # "restructure"
  BY <1>2 DEF Writers
<1> QED BY <1>2, <1>3, <1>4, WritersQueued

\* A submission of a compile.
LEMMA CompileStep ==
  ASSUME MInv, SubmitSync
  PROVE  /\ queue' \in Seq(QueueRow) /\ batches' \in 0..MaxBatches /\ moved' \in BOOLEAN
         /\ OneSubmission' /\ LogInOrder' /\ BatchesContiguous'
         /\ WikiWhole' /\ InSession' /\ UnitsStand'
<1> DEFINE r == OtherRow("compile", batches')
           rows == <<r>>
<1>1. GateOpen /\ NewBatch /\ queue' = Append(queue, r)
  BY DEF SubmitSync
<1>2. batches' \in 0..MaxBatches /\ queue \in Seq(QueueRow)
  BY <1>1, MaintenanceAssumption DEF MInv, Shapes, NewBatch
<1>3. r \in QueueRow /\ r.kind = "compile" /\ r.batch = batches'
  <2>1. NoUnit \in Unit
    BY DEF NoUnit, Unit
  <2> QED BY <1>2, <2>1 DEF OtherRow, Row, QueueRow, Writers
<1> HIDE DEF r
<1>4. /\ rows \in Seq(QueueRow) /\ Len(rows) = 1 /\ rows[1] = r
      /\ queue' = queue \o rows
  BY <1>1, <1>2, <1>3
<1> HIDE DEF rows
<1>5. /\ \A i \in 1..Len(rows) : rows[i].kind \in Writers /\ rows[i].batch = batches'
      /\ \A i, j \in 1..Len(rows) : rows[i].kind = "compile" => i = j
      /\ \A i \in 1..Len(rows) : rows[i].kind # "restructure"
  BY <1>3, <1>4 DEF Writers
<1>6. UNCHANGED <<head, tree, log, step, plan, mixed>>
  BY DEF SubmitSync
<1> QED BY <1>1, <1>4, <1>5, <1>6, WritersQueued

\* An analysis is queued: it is no writer.
LEMMA PreviewStep ==
  ASSUME MInv, SubmitPreview
  PROVE  /\ queue' \in Seq(QueueRow)
         /\ OneSubmission' /\ LogInOrder' /\ BatchesContiguous'
         /\ WikiWhole' /\ InSession' /\ UnitsStand'
<1> DEFINE r == OtherRow("preview", 0)
           rows == <<r>>
<1>1. /\ GateOpen /\ queue' = Append(queue, r)
      /\ UNCHANGED <<head, tree, log, step, plan, mixed, moved, batches>>
  BY DEF SubmitPreview
<1>2. queue \in Seq(QueueRow) /\ MaxBatches \in Nat
  BY MaintenanceAssumption DEF MInv, Shapes
<1>3. r \in QueueRow /\ r.kind = "preview"
  <2>1. NoUnit \in Unit
    BY DEF NoUnit, Unit
  <2> QED BY <1>2, <2>1 DEF OtherRow, Row, QueueRow, Writers
<1> HIDE DEF r
<1>4. /\ rows \in Seq(QueueRow) /\ Len(rows) = 1 /\ rows[1] = r
      /\ queue' = queue \o rows
  BY <1>1, <1>2, <1>3
<1> HIDE DEF rows
<1>5. /\ queue' \in Seq(QueueRow)
      /\ \A i \in 1..Len(queue) : queue'[i] = queue[i]
      /\ \A i \in 1..Len(queue') :
           i \in 1..Len(queue) \/ (i - Len(queue) \in 1..Len(rows)
                                   /\ queue'[i] = rows[i - Len(queue)])
      /\ HasRow => HasRow' /\ Job' = Job
  BY <1>2, <1>4, RowsAdded
<1>6. \A i \in 1..Len(queue') : queue'[i].kind \notin Writers
  <2>1. \A i \in 1..Len(queue) : queue[i].kind \notin Writers
    BY <1>1 DEF GateOpen, InFlight
  <2>2. \A i \in 1..Len(rows) : rows[i].kind \notin Writers
    BY <1>3, <1>4 DEF Writers
  <2> QED BY <1>5, <2>1, <2>2
<1>7. ~InFlight(Writers)'
  BY <1>6 DEF InFlight, Writers
<1>8. OneSubmission' /\ UnitsStand'
  BY <1>6 DEF OneSubmission, UnitsStand, Writers
<1>9. LogInOrder'
  BY <1>1, <1>7 DEF MInv, LogInOrder
<1>10. InSession'
  BY <1>1, <1>5, SessionStays DEF MInv
<1>11. BatchesContiguous' /\ WikiWhole'
  BY <1>1, HistoryStays DEF MInv
<1> QED BY <1>5, <1>8, <1>9, <1>10, <1>11

-----------------------------------------------------------------------------
(* The proposal ledger                                                     *)

\* The proposals with what was queued of each.
Ledger ==
  /\ proposals \in Seq(Proposal) /\ sent \in Seq(Nat) /\ Len(sent) = Len(proposals)
  /\ OnePending /\ DecidedOnce

\* One decision: the proposal was pending, and only a submission queues its units.
LEMMA OneDecided ==
  ASSUME Ledger, NEW i \in 1..Len(proposals), Undecided(i),
         NEW r \in {"submitted", "dismissed"},
         proposals' = [proposals EXCEPT ![i] = Decided(r)],
         sent' = IF r = "submitted" THEN [sent EXCEPT ![i] = @ + 1] ELSE sent
  PROVE  Ledger'
<1>1. Decided(r) \in Proposal /\ Decided(r).resolution = r
  <2>1. <<>> \in Seq(Unit)
    OBVIOUS
  <2> QED BY <2>1 DEF Decided, Proposal
<1>2. /\ proposals' \in Seq(Proposal) /\ Len(proposals') = Len(proposals)
      /\ proposals'[i].resolution = r
      /\ \A j \in 1..Len(proposals) : j # i => proposals'[j] = proposals[j]
  BY <1>1 DEF Ledger
<1>3. sent[i] = 0
  BY DEF Ledger, DecidedOnce, Undecided
<1>4. /\ sent' \in Seq(Nat) /\ Len(sent') = Len(sent)
      /\ sent'[i] = IF r = "submitted" THEN 1 ELSE 0
      /\ \A j \in 1..Len(sent) : j # i => sent'[j] = sent[j]
  BY <1>3 DEF Ledger
<1>5. OnePending'
  BY <1>2 DEF Ledger, OnePending
<1>6. DecidedOnce'
  BY <1>2, <1>4 DEF Ledger, DecidedOnce
<1> QED BY <1>2, <1>4, <1>5, <1>6 DEF Ledger

\* A finished analysis takes the place of what was pending.
LEMMA NewProposal ==
  ASSUME Ledger, NEW units \in Seq(Unit), sent' = Append(sent, 0),
         proposals' = Append(Superseded(proposals), [units |-> units, resolution |-> "pending"])
  PROVE  Ledger'
<1> DEFINE n == Len(proposals)
           last == [units |-> units, resolution |-> "pending"]
           old == Superseded(proposals)
<1>1. n \in Nat /\ Decided("superseded") \in Proposal /\ last \in Proposal
  <2>1. <<>> \in Seq(Unit)
    OBVIOUS
  <2> QED BY <2>1 DEF Decided, Proposal, Ledger
<1>2. /\ old \in Seq(Proposal) /\ Len(old) = n
      /\ \A i \in 1..n : old[i] = IF proposals[i].resolution = "pending"
                                  THEN Decided("superseded") ELSE proposals[i]
  BY <1>1 DEF Superseded, Ledger
<1>4. proposals' = Append(old, last) /\ last.resolution = "pending"
  OBVIOUS
<1> HIDE DEF old, last
<1>3. \A i \in 1..n : /\ old[i].resolution # "pending"
                      /\ old[i].resolution = "submitted" <=> proposals[i].resolution = "submitted"
  <2>1. Decided("superseded").resolution = "superseded"
    BY DEF Decided
  <2> QED BY <1>2, <2>1
<1>new. /\ Append(old, last) \in Seq(Proposal) /\ Len(Append(old, last)) = Len(old) + 1
        /\ \A i \in 1..Len(old) : Append(old, last)[i] = old[i]
        /\ Append(old, last)[Len(old) + 1] = last
  BY <1>1, <1>2
<1>5. /\ proposals' \in Seq(Proposal) /\ Len(proposals') = n + 1
      /\ \A i \in 1..n : proposals'[i] = old[i]
      /\ proposals'[n + 1] = last
  BY <1>2, <1>4, <1>new
<1>6. /\ sent' \in Seq(Nat) /\ Len(sent') = n + 1
      /\ \A i \in 1..n : sent'[i] = sent[i]
      /\ sent'[n + 1] = 0
  BY DEF Ledger
<1>7. \A i \in 1..Len(proposals') : i \in 1..n \/ i = n + 1
  BY <1>1, <1>5
<1> HIDE DEF n
<1>8. \A i \in 1..Len(proposals') : proposals'[i].resolution = "pending" => i = n + 1
  BY <1>3, <1>5, <1>7
<1>9. OnePending'
  BY <1>8 DEF OnePending
<1>10. \A i \in 1..n : sent[i] <= 1 /\ (sent[i] = 1 <=> proposals[i].resolution = "submitted")
  BY DEF Ledger, DecidedOnce, n
<1>11. DecidedOnce'
  BY <1>3, <1>4, <1>5, <1>6, <1>7, <1>10 DEF DecidedOnce
<1> QED BY <1>5, <1>6, <1>9, <1>11 DEF Ledger

-----------------------------------------------------------------------------
(* The worker                                                              *)

\* A row ends, its commit made or everything taken back: the other rows stand
\* as before.
LEMMA RowEnds ==
  ASSUME MInv, HasRow, Ends, UNCHANGED <<head, log, mixed, moved, batches>>
  PROVE  /\ queue' \in Seq(QueueRow)
         /\ OneSubmission' /\ LogInOrder' /\ BatchesContiguous'
         /\ WikiWhole' /\ InSession' /\ UnitsStand'
<1>0. queue \in Seq(QueueRow) /\ queue' = Without(Current) /\ step' = "idle"
  BY DEF MInv, Shapes, Ends
<1>1. Current \in 1..Len(queue) /\ Job = queue[Current]
  BY <1>0, TheRow
<1>2. /\ queue' \in Seq(QueueRow) /\ Len(queue') = Len(queue) - 1
      /\ \A i \in 1..Len(queue') : i < Current => queue'[i] = queue[i]
      /\ \A i \in 1..Len(queue') : i >= Current => queue'[i] = queue[i+1]
  BY <1>0, RowGone
<1> DEFINE place == [i \in 1..Len(queue') |-> IF i < Current THEN i ELSE i + 1]
<1>3. place \in [1..Len(queue') -> 1..Len(queue)]
  BY <1>0, <1>1, <1>2
<1>4. \A i, j \in 1..Len(queue') : place[i] = place[j] => i = j
  BY <1>1
<1>5. \A i \in 1..Len(queue') : queue'[i] = queue[place[i]] /\ place[i] # Current
  BY <1>1, <1>2
<1> HIDE DEF place
<1>6. OneSubmission' /\ (InFlight(Writers)' => InFlight(Writers))
  BY <1>0, <1>2, <1>3, <1>4, <1>5, RowsFromRows DEF MInv
<1>7. LogInOrder'
  BY <1>6 DEF MInv, LogInOrder
<1>8. BatchesContiguous' /\ WikiWhole'
  BY HistoryStays DEF MInv
<1>9. UnitsStand'
  <2>1. ASSUME NEW i \in 1..Len(queue'), queue'[i].kind = "restructure"
        PROVE  queue'[i].redo \/ moved' \/ ValidUnit(queue'[i].unit, Pages(head'))
    <3>1. /\ place[i] \in 1..Len(queue) /\ queue'[i] = queue[place[i]] /\ place[i] # Current
          /\ head' = head /\ moved' = moved
      BY <1>3, <1>5
    <3> QED BY <2>1, <3>1 DEF MInv, UnitsStand
  <2> QED BY <2>1 DEF UnitsStand
<1>10. InSession'
  BY <1>0 DEF InSession
<1> QED BY <1>2, <1>6, <1>7, <1>8, <1>9, <1>10

\* A step of the row that leaves queue and history alone: what is to be shown is
\* where the working tree stands after it.
LEMMA RowMoves ==
  ASSUME MInv, HasRow, UNCHANGED <<head, log, queue, mixed, moved, batches>>,
         step # "committed", step' \in {"started", "prepared", "written"},
         SessionAt(step', Job, head, tree', plan', ~mixed, ~moved)
  PROVE  /\ OneSubmission' /\ LogInOrder' /\ BatchesContiguous'
         /\ WikiWhole' /\ InSession' /\ UnitsStand'
<1>1. /\ Current' = Current /\ Job' = Job /\ HasRow' = HasRow
      /\ InFlight(Writers)' = InFlight(Writers)
  BY SameQueue
<1>2. OneSubmission'
  BY DEF MInv, OneSubmission
<1>3. LogInOrder'
  BY <1>1 DEF MInv, LogInOrder
<1>4. BatchesContiguous' /\ WikiWhole'
  BY HistoryStays DEF MInv
<1>5. InSession'
  <2>1. SessionAt(step', Job', head', tree', plan', ~mixed', ~moved')
    BY <1>1
  <2> QED BY <1>1, <2>1 DEF InSession
<1>6. UnitsStand'
  <2>1. \A i \in 1..Len(queue) : queue[i].kind = "restructure" =>
          queue[i].redo \/ moved \/ ValidUnit(queue[i].unit, Pages(head))
    BY DEF MInv, UnitsStand
  <2>2. queue' = queue /\ head' = head /\ moved' = moved
    OBVIOUS
  <2> QED BY <2>1, <2>2 DEF UnitsStand
<1> QED BY <1>2, <1>3, <1>4, <1>5, <1>6

-----------------------------------------------------------------------------
(* What the rows make of a wiki                                            *)

\* What is planned for unit u on wiki t when it is read: links to pages that will be
\* there, and the sections and sources of its inputs.
FreshPlan(u, t, written) ==
  /\ \A l \in written : l[1] # "index" /\ l[2] \in u.out
  /\ \A p \in u.out : <<"page", p>> \in written
  /\ \A l \in written : l[1] = "link" => l[3] \in (Pages(t) \ Vanished(u)) \cup u.out
  /\ u.out # {} => /\ Texts(written, Slug) = Texts(t, u.in)
                   /\ SourcesOf(written, Slug) = SourcesOf(t, u.in)

\* What is planned for a unit is about its output pages, and has all the sections
\* and sources of its inputs.
LEMMA PlanMade ==
  ASSUME tree \subseteq Line, NEW u \in Unit,
         NEW assign \in [IF u.out = {} THEN {} ELSE SectionsOf(tree, u.in) -> u.out],
         NEW links, \A l \in links : \E p \in u.out :
                      \E q \in ((Pages(tree) \ Vanished(u)) \cup u.out) \cap Slug : l = <<"link", p, q>>
  PROVE  /\ Rewritten(u, assign, links) \subseteq Line
         /\ FreshPlan(u, tree, Rewritten(u, assign, links))
<1> DEFINE pages == {<<"page", p>> : p \in u.out}
           sections == {<<"section", assign[l], l[3]>> : l \in DOMAIN assign}
           sources == UNION {{<<"source", p, s>> : s \in SourcesFor(u, p)} : p \in u.out}
           W == Rewritten(u, assign, links)
<1>0. u.in \subseteq Slug /\ u.out \subseteq Slug
  BY DEF Unit
<1>1. W = pages \cup sections \cup sources \cup links
  BY DEF Rewritten
<1>2. \A l \in pages : l \in Line /\ l[1] = "page" /\ l[2] \in u.out
  BY <1>0, LineKinds
<1>3. ASSUME NEW l \in DOMAIN assign
      PROVE  /\ l \in SectionsOf(tree, u.in) /\ assign[l] \in u.out
             /\ l = <<"section", l[2], l[3]>> /\ l[2] \in u.in /\ l[3] \in Section
  BY <1>3, LineKinds DEF SectionsOf
<1>4. \A l \in sections : l \in Line /\ l[1] = "section" /\ l[2] \in u.out
  BY <1>0, <1>3, LineKinds
<1>5. \A s : s \in SourcesOf(tree, u.in) => s \in Source
  BY LineKinds DEF SourcesOf
<1>6. \A l \in sources : l \in Line /\ l[1] = "source" /\ l[2] \in u.out
  BY <1>0, <1>5, LineKinds DEF SourcesFor
<1>7. \A l \in links : /\ l \in Line /\ l[1] = "link" /\ l[2] \in u.out
                       /\ l[3] \in (Pages(tree) \ Vanished(u)) \cup u.out
  BY <1>0, LineKinds
<1>8. \A p \in u.out : <<"page", p>> \in pages
  OBVIOUS
<1>9. \A p, x : <<"section", p, x>> \in sections <=>
        \E l \in DOMAIN assign : assign[l] = p /\ l[3] = x
  OBVIOUS
<1>10. \A p, x : <<"source", p, x>> \in sources <=> p \in u.out /\ x \in SourcesOf(tree, u.in)
  BY DEF SourcesFor
<1> HIDE DEF pages, sections, sources, W
<1>11. W \subseteq Line
  BY <1>1, <1>2, <1>4, <1>6, <1>7
<1>12. /\ \A l \in W : l[1] # "index" /\ l[2] \in u.out
       /\ \A p \in u.out : <<"page", p>> \in W
       /\ \A l \in W : l[1] = "link" => l[3] \in (Pages(tree) \ Vanished(u)) \cup u.out
  <2>1. \A l \in W : l[1] # "index" /\ l[2] \in u.out
    BY <1>1, <1>2, <1>4, <1>6, <1>7
  <2>2. \A l \in W : l[1] = "link" => l[3] \in (Pages(tree) \ Vanished(u)) \cup u.out
    BY <1>1, <1>2, <1>4, <1>6, <1>7
  <2> QED BY <1>1, <1>8, <2>1, <2>2
<1>13. /\ \A p, x : <<"section", p, x>> \in W <=> <<"section", p, x>> \in sections
       /\ \A p, x : <<"source", p, x>> \in W <=> <<"source", p, x>> \in sources
  <2>1. \A p, x : <<"section", p, x>>[1] = "section" /\ <<"source", p, x>>[1] = "source"
    OBVIOUS
  <2> QED BY <1>1, <1>2, <1>4, <1>6, <1>7, <2>1
<1>14. ASSUME u.out # {} PROVE Texts(W, Slug) = Texts(tree, u.in)
  <2>1. DOMAIN assign = SectionsOf(tree, u.in)
    BY <1>14
  <2>2. ASSUME NEW x PROVE x \in Texts(W, Slug) <=> x \in Texts(tree, u.in)
    <3>1. x \in Texts(W, Slug) <=> \E p \in Slug : <<"section", p, x>> \in W
      BY <1>11, Reading
    <3>2. x \in Texts(W, Slug) <=> \E l \in DOMAIN assign : l[3] = x
      BY <1>0, <1>3, <1>9, <1>13, <3>1
    <3> QED BY <2>1, <3>2 DEF Texts
  <2> QED BY <2>2
<1>15. ASSUME u.out # {} PROVE SourcesOf(W, Slug) = SourcesOf(tree, u.in)
  <2>1. ASSUME NEW x PROVE x \in SourcesOf(W, Slug) <=> x \in SourcesOf(tree, u.in)
    <3>1. x \in SourcesOf(W, Slug) <=> \E p \in Slug : <<"source", p, x>> \in W
      BY <1>11, Reading
    <3> QED BY <1>0, <1>10, <1>13, <1>15, <3>1
  <2> QED BY <2>1
<1>16. FreshPlan(u, tree, W)
  BY <1>12, <1>14, <1>15 DEF FreshPlan
<1> QED BY <1>11, <1>16 DEF W

\* Where the tree has what HEAD has and the unit fits it, the plan is as it should be.
LEMMA PlanStands ==
  ASSUME NEW w, NEW t, t \subseteq Line, NEW whole, Alike(w, t, whole), NEW u \in Unit,
         NEW written, FreshPlan(u, t, written), ValidUnit(u, Pages(t))
  PROVE  PlanOf(u, w, t, written) /\ (whole => PlanFits(u, t, written))
<1>0. u.in \subseteq Slug /\ Touched(u) \subseteq Slug /\ Slug \ Touched(u) \subseteq Slug
      /\ u.in \subseteq Touched(u)
  BY DEF Unit, Touched
<1>1. ASSUME u.out # {}
      PROVE  /\ Texts(w, Slug) = Texts(t, Slug \ Touched(u)) \cup Texts(written, Slug)
             /\ Texts(t, Touched(u)) \subseteq Texts(written, Slug)
  <2>1. \A p, x : <<"section", p, x>>[1] = "section" /\ <<"section", p, x>>[2] = p
    OBVIOUS
  <2>2. \A p \in Touched(u) : \A x : <<"section", p, x>> \in t => p \in u.in
    BY <2>1 DEF Alike, InFiles, ValidUnit, Touched
  <2>3. \A x : x \in Texts(t, Touched(u)) <=> x \in Texts(t, u.in)
    BY <1>0, <2>2, Reading
  <2>4. \A x : x \in Texts(t, Slug) <=> x \in Texts(t, Slug \ Touched(u)) \/ x \in Texts(t, Touched(u))
    BY <1>0, Reading
  <2>5. Texts(w, Slug) = Texts(t, Slug) /\ Texts(written, Slug) = Texts(t, u.in)
    BY <1>1 DEF Alike, FreshPlan
  <2> QED BY <2>3, <2>4, <2>5
<1>2. ASSUME u.out # {}
      PROVE  /\ SourcesOf(w, Slug) = SourcesOf(t, Slug \ Touched(u)) \cup SourcesOf(written, Slug)
             /\ SourcesOf(t, Touched(u)) \subseteq SourcesOf(written, Slug)
  <2>1. \A p, x : <<"source", p, x>>[1] = "source" /\ <<"source", p, x>>[2] = p
    OBVIOUS
  <2>2. \A p \in Touched(u) : \A x : <<"source", p, x>> \in t => p \in u.in
    BY <2>1 DEF Alike, InFiles, ValidUnit, Touched
  <2>3. \A x : x \in SourcesOf(t, Touched(u)) <=> x \in SourcesOf(t, u.in)
    BY <1>0, <2>2, Reading
  <2>4. \A x : x \in SourcesOf(t, Slug) <=>
                 x \in SourcesOf(t, Slug \ Touched(u)) \/ x \in SourcesOf(t, Touched(u))
    BY <1>0, Reading
  <2>5. SourcesOf(w, Slug) = SourcesOf(t, Slug) /\ SourcesOf(written, Slug) = SourcesOf(t, u.in)
    BY <1>2 DEF Alike, FreshPlan
  <2> QED BY <2>3, <2>4, <2>5
<1>3. PlanOf(u, w, t, written)
  BY <1>1, <1>2 DEF PlanOf, FreshPlan
<1>4. whole => PlanFits(u, t, written)
  BY DEF PlanFits, FreshPlan, Alike
<1> QED BY <1>3, <1>4

\* Wiki w after unit u has been applied with the lines that were planned for it.
Applied(w, u, written) ==
  (Cleaned({l \in w : l[1] = "index" \/ l[2] \notin Touched(u)} \cup written, Vanished(u))
     \ {<<"index", p>> : p \in Vanished(u)})
  \cup {<<"index", p>> : p \in u.out \ u.in}

\* Applying a unit to wiki t gives the pages it declared and loses no section and no
\* source of HEAD w, and leaves a whole wiki whole that it fits.
LEMMA UnitApplied ==
  ASSUME NEW w, NEW t, t \subseteq Line, NEW u \in Unit, NEW written, written \subseteq Line,
         PlanOf(u, w, t, written), InFiles(t), NEW same, same => Pages(t) = Pages(w)
  PROVE  /\ Applied(t, u, written) \subseteq Line
         /\ WrittenBy(u, w, Applied(t, u, written), same)
         /\ InFiles(Applied(t, u, written))
         /\ PlanFits(u, t, written) => Whole(Applied(t, u, written))
<1> DEFINE M == Applied(t, u, written)
           gone == Vanished(u)
           others == {l \in t : l[1] = "index" \/ l[2] \notin Touched(u)}
           dropped == {<<"index", p>> : p \in gone}
           added == {<<"index", p>> : p \in u.out \ u.in}
<1>0. /\ u.in \subseteq Slug /\ u.out \subseteq Slug
      /\ gone = u.in \ u.out /\ Touched(u) = u.in \cup u.out
  BY DEF Unit, Touched, Vanished
<1>1. \A l : l \in M <=>
        \/ (l \in others \/ l \in written) /\ ~(l[1] = "link" /\ l[3] \in gone) /\ l \notin dropped
        \/ l \in added
  BY DEF Applied, Cleaned
<1>2. \A l \in dropped \cup added : l[1] = "index" /\ l[2] \in Slug /\ l = <<"index", l[2]>> /\ l \in Line
  <2>1. \A p \in Slug : LET l == <<"index", p>>
                       IN l[1] = "index" /\ l[2] = p /\ l = <<"index", l[2]>> /\ l \in Line
    BY LineKinds
  <2>2. gone \subseteq Slug /\ u.out \ u.in \subseteq Slug
    BY <1>0
  <2> QED BY <2>1, <2>2
<1>3. M \subseteq Line
  BY <1>1, <1>2
<1>4. \A p : <<"index", p>> \in dropped <=> p \in gone
  OBVIOUS
<1>5. \A p : <<"index", p>> \in added <=> p \in u.out \ u.in
  OBVIOUS
<1>6. \A l : l \in others <=> l \in t /\ (l[1] = "index" \/ l[2] \notin Touched(u))
  OBVIOUS
<1> HIDE DEF M, others, dropped, added, gone
\* line by line
<1>7. \A l \in M : l[1] # "index" =>
        /\ (l \in t /\ l[2] \notin Touched(u)) \/ (l \in written /\ l[2] \in u.out)
        /\ l[1] = "link" => l[3] \notin gone
  <2>1. ASSUME NEW l \in M, l[1] # "index"
        PROVE  (l \in others \/ l \in written) /\ ~(l[1] = "link" /\ l[3] \in gone)
    BY <1>1, <1>2, <2>1
  <2>2. \A l \in written : l[2] \in u.out
    BY DEF PlanOf
  <2> QED BY <1>6, <2>1, <2>2
<1>8. \A l \in t \cup written :
        l[1] \notin {"index", "link"} /\ (l \in written \/ l[2] \notin Touched(u)) => l \in M
  BY <1>1, <1>2, <1>6
<1>9. \A p \in Slug : <<"index", p>> \in M <=>
        (<<"index", p>> \in t /\ p \notin gone) \/ p \in u.out \ u.in
  <2>1. ASSUME NEW p \in Slug PROVE <<"index", p>>[1] = "index" /\ <<"index", p>>[2] = p
    OBVIOUS
  <2>2. \A p \in Slug : <<"index", p>> \notin written
    BY <2>1 DEF PlanOf
  <2> QED BY <1>1, <1>4, <1>5, <1>6, <2>1, <2>2
<1>10. Pages(M) = (Pages(t) \ Touched(u)) \cup u.out
  <2>1. ASSUME NEW p \in Slug
        PROVE  <<"page", p>> \in M <=> (<<"page", p>> \in t /\ p \notin Touched(u)) \/ p \in u.out
    <3>1. <<"page", p>>[1] = "page" /\ <<"page", p>>[2] = p
      OBVIOUS
    <3>2. p \in u.out => <<"page", p>> \in written
      BY DEF PlanOf
    <3> QED BY <1>7, <1>8, <3>1, <3>2
  <2> QED BY <1>0, <2>1 DEF Pages
<1>11. ASSUME NEW l \in M, l[1] # "index" PROVE l[2] \in Pages(M)
  <2>1. l \in t => l[2] \in Pages(t)
    BY <1>11 DEF InFiles
  <2> QED BY <1>7, <1>10, <1>11, <2>1
<1>12. InFiles(M)
  BY <1>11 DEF InFiles
<1>rest. Slug \ Touched(u) \subseteq Slug
  OBVIOUS
<1>13. ASSUME u.out # {} PROVE Texts(M, Slug) = Texts(w, Slug)
  <2>1. ASSUME NEW x PROVE x \in Texts(M, Slug) <=> x \in Texts(w, Slug)
    <3>1. /\ x \in Texts(M, Slug) <=> \E p \in Slug : <<"section", p, x>> \in M
          /\ x \in Texts(t, Slug \ Touched(u)) <=> \E p \in Slug \ Touched(u) : <<"section", p, x>> \in t
          /\ x \in Texts(written, Slug) <=> \E p \in Slug : <<"section", p, x>> \in written
      BY <1>rest, <1>3, Reading
    <3>2. x \in Texts(w, Slug) <=> x \in Texts(t, Slug \ Touched(u)) \/ x \in Texts(written, Slug)
      BY <1>13 DEF PlanOf
    <3>3. \A p : <<"section", p, x>>[1] = "section" /\ <<"section", p, x>>[2] = p
      OBVIOUS
    <3>4. ASSUME NEW p \in Slug
          PROVE  <<"section", p, x>> \in M <=>
                   (<<"section", p, x>> \in t /\ p \notin Touched(u)) \/ <<"section", p, x>> \in written
      BY <1>7, <1>8, <3>3
    <3> QED BY <3>1, <3>2, <3>4
  <2> QED BY <2>1 DEF Texts
<1>14. ASSUME u.out # {} PROVE SourcesOf(M, Slug) = SourcesOf(w, Slug)
  <2>1. ASSUME NEW x PROVE x \in SourcesOf(M, Slug) <=> x \in SourcesOf(w, Slug)
    <3>1. /\ x \in SourcesOf(M, Slug) <=> \E p \in Slug : <<"source", p, x>> \in M
          /\ x \in SourcesOf(t, Slug \ Touched(u)) <=> \E p \in Slug \ Touched(u) : <<"source", p, x>> \in t
          /\ x \in SourcesOf(written, Slug) <=> \E p \in Slug : <<"source", p, x>> \in written
      BY <1>rest, <1>3, Reading
    <3>2. x \in SourcesOf(w, Slug) <=> x \in SourcesOf(t, Slug \ Touched(u)) \/ x \in SourcesOf(written, Slug)
      BY <1>14 DEF PlanOf
    <3>3. \A p : <<"source", p, x>>[1] = "source" /\ <<"source", p, x>>[2] = p
      OBVIOUS
    <3>4. ASSUME NEW p \in Slug
          PROVE  <<"source", p, x>> \in M <=>
                   (<<"source", p, x>> \in t /\ p \notin Touched(u)) \/ <<"source", p, x>> \in written
      BY <1>7, <1>8, <3>3
    <3> QED BY <3>1, <3>2, <3>4
  <2> QED BY <2>1 DEF SourcesOf
<1>15. ASSUME PlanFits(u, t, written) PROVE Whole(M)
  <2>0. Whole(t) /\ u.in \subseteq Pages(t) /\ u.out \cap Pages(t) \subseteq u.in
    BY <1>15 DEF PlanFits, ValidUnit
  <2>1. ASSUME NEW l \in M PROVE l[2] \in Pages(M)
    <3>1. CASE l[1] # "index"
      BY <1>11, <3>1
    <3>2. CASE l[1] = "index"
      <4>1. l = <<"index", l[2]>> /\ l[2] \in Slug
        BY <1>3, <3>2, LineKinds
      <4>2. (l \in t /\ l[2] \notin gone) \/ l[2] \in u.out \ u.in
        BY <1>9, <4>1
      <4>3. l \in t => l[2] \in Pages(t)
        BY <2>0 DEF Whole
      <4> QED BY <1>0, <1>10, <4>2, <4>3
    <3> QED BY <3>1, <3>2
  <2>2. ASSUME NEW l \in M, l[1] = "link" PROVE l[3] \in Pages(M)
    <3>1. l[3] \notin gone /\ (l \in t \/ l \in written)
      BY <1>7, <2>2
    <3>2. l \in t => l[3] \in Pages(t)
      BY <2>0, <2>2 DEF Whole
    <3>3. l \in written => l[3] \in (Pages(t) \ Vanished(u)) \cup u.out
      BY <1>15, <2>2 DEF PlanFits
    <3> QED BY <1>0, <1>10, <3>1, <3>2, <3>3 DEF gone
  <2>3. ASSUME NEW p \in Pages(M) PROVE <<"index", p>> \in M
    <3>1. p \in Slug
      BY <2>3 DEF Pages
    <3>2. p \in Pages(t) => <<"index", p>> \in t
      BY <2>0 DEF Whole
    <3> QED BY <1>0, <1>9, <1>10, <2>0, <2>3, <3>1, <3>2
  <2> QED BY <2>1, <2>2, <2>3 DEF Whole
<1>16. WrittenBy(u, w, M, same)
  BY <1>10, <1>13, <1>14 DEF WrittenBy
<1> QED BY <1>3, <1>12, <1>15, <1>16 DEF M

\* A link between two pages of a wiki added or removed.
LEMMA LinkToggled ==
  ASSUME NEW w, w \subseteq Line, InFiles(w), NEW p \in Pages(w), NEW q \in Pages(w),
         NEW made, made = w \ {<<"link", p, q>>} \/ made = w \cup {<<"link", p, q>>}
  PROVE  /\ made \subseteq Line /\ Pages(made) = Pages(w) /\ InFiles(made)
         /\ Whole(w) => Whole(made)
<1> DEFINE l == <<"link", p, q>>
<1>1. l \in Line /\ l[1] = "link" /\ l[2] = p /\ l[3] = q
  BY LineKinds DEF Pages
<1>2. \A x \in Slug : <<"page", x>>[1] = "page" /\ <<"index", x>>[1] = "index"
  OBVIOUS
<1>3. made = w \ {l} \/ made = w \cup {l}
  OBVIOUS
<1> HIDE DEF l
<1>4. /\ \A x \in Slug : <<"page", x>> \in made <=> <<"page", x>> \in w
      /\ \A x \in Slug : <<"index", x>> \in made <=> <<"index", x>> \in w
  BY <1>1, <1>2, <1>3
<1>5. Pages(made) = Pages(w)
  BY <1>4 DEF Pages
<1>6. InFiles(made)
  BY <1>1, <1>3, <1>5 DEF InFiles
<1>7. ASSUME Whole(w) PROVE Whole(made)
  <2>1. \A x \in made : x[2] \in Pages(made) /\ (x[1] = "link" => x[3] \in Pages(made))
    BY <1>1, <1>3, <1>5, <1>7 DEF Whole
  <2>2. \A x \in Pages(made) : <<"index", x>> \in made
    <3>1. \A x \in Pages(w) : x \in Slug /\ <<"index", x>> \in w
      BY <1>7 DEF Whole, Pages
    <3> QED BY <1>4, <1>5, <3>1
  <2> QED BY <2>1, <2>2 DEF Whole
<1> QED BY <1>1, <1>3, <1>5, <1>6, <1>7

\* A compile adds a page with a section and a source ...
LEMMA PageAdded ==
  ASSUME NEW w, w \subseteq Line, InFiles(w), NEW c \in Compiled,
         NEW made, made = w \cup {<<"page", c[1]>>, <<"section", c[1], c[2]>>, <<"source", c[1], c[3]>>}
  PROVE  /\ made \subseteq Line /\ InFiles(made)
         /\ Whole(w) => Linked(made)
<1>1. c[1] \in Slug /\ c[2] \in Section /\ c[3] \in Source
  BY MaintenanceAssumption
<1> DEFINE p == <<"page", c[1]>>
           s == <<"section", c[1], c[2]>>
           f == <<"source", c[1], c[3]>>
<1>2. /\ p \in Line /\ s \in Line /\ f \in Line
      /\ p[1] = "page" /\ s[1] = "section" /\ f[1] = "source"
      /\ p[2] = c[1] /\ s[2] = c[1] /\ f[2] = c[1]
  BY <1>1, LineKinds
<1>3. made = w \cup {p, s, f}
  OBVIOUS
<1>4. Pages(w) \subseteq Pages(made) /\ c[1] \in Pages(made)
  BY <1>1 DEF Pages
<1> HIDE DEF p, s, f
<1>5. \A l \in made : l \in w \/ (l[1] \in {"page", "section", "source"} /\ l[2] = c[1])
  BY <1>2, <1>3
<1>6. InFiles(made)
  BY <1>4, <1>5 DEF InFiles
<1>7. Whole(w) => Linked(made)
  BY <1>4, <1>5 DEF Whole, Linked
<1> QED BY <1>2, <1>3, <1>6, <1>7

\* ... and then what index.md lacks.
LEMMA IndexAdded ==
  ASSUME NEW w, w \subseteq Line, InFiles(w),
         NEW made, made = w \cup {<<"index", p>> : p \in Pages(w)}
  PROVE  /\ made \subseteq Line /\ InFiles(made)
         /\ Linked(w) => Whole(made)
<1> DEFINE added == {<<"index", p>> : p \in Pages(w)}
<1>1. \A l \in added : l \in Line /\ l[1] = "index" /\ l[2] \in Pages(w)
  BY LineKinds DEF Pages
<1>2. \A p \in Pages(w) : <<"index", p>> \in added
  OBVIOUS
<1>3. made = w \cup added
  OBVIOUS
<1> HIDE DEF added
<1>4. \A p \in Slug : <<"page", p>>[1] = "page"
  OBVIOUS
<1>5. Pages(made) = Pages(w)
  BY <1>1, <1>3, <1>4 DEF Pages
<1>6. InFiles(made)
  BY <1>1, <1>3, <1>5 DEF InFiles
<1>7. Linked(w) => Whole(made)
  BY <1>1, <1>2, <1>3, <1>5 DEF Linked, Whole
<1> QED BY <1>1, <1>3, <1>6, <1>7

\* Merging pages of the same text takes away the others' files and nothing else.
LEMMA PagesMerged ==
  ASSUME NEW t, t \subseteq Line, NEW group, NEW keep \in group, group \subseteq Pages(t),
         \A p \in group : Text(t, p) = Text(t, keep),
         NEW m, m = Merged(t, group, keep)
  PROVE  /\ m \subseteq Line /\ Pages(m) = Pages(t) \ (group \ {keep})
         /\ \A p, x : /\ <<"section", p, x>> \in m <=> <<"section", p, x>> \in t /\ p \notin group \ {keep}
                      /\ <<"source", p, x>> \in m <=> <<"source", p, x>> \in t /\ p \notin group \ {keep}
         /\ \A p \in group : \A x : /\ <<"section", p, x>> \in t => <<"section", keep, x>> \in t
                                    /\ <<"source", p, x>> \in t => <<"source", keep, x>> \in t
         /\ InFiles(t) => InFiles(m)
         /\ Linked(t) => Linked(m)
         /\ Whole(t) => Whole(m)
<1> DEFINE gone == group \ {keep}
           led(p) == IF p \in group THEN keep ELSE p
           files == {l \in t : l[1] \notin {"index", "link"} /\ l[2] \notin gone}
           entries == {<<"index", led(l[2])>> : l \in {k \in t : k[1] = "index"}}
           links == {<<"link", l[2], led(l[3])>> : l \in {k \in t : k[1] = "link" /\ k[2] \notin gone}}
<1>0. keep \in Pages(t) /\ Pages(t) \subseteq Slug
  BY DEF Pages
<1>1. m = files \cup entries \cup links
  BY DEF Merged, Led
<1>2. \A p \in Slug : led(p) \in Slug /\ led(p) \notin gone
  BY <1>0
<1>3. \A p \in Pages(t) : led(p) \in Pages(t) \ gone
  BY <1>0
<1>4. \A p : led(p) # p => led(p) = keep /\ p \in gone
  OBVIOUS
<1> HIDE DEF gone, led
<1>5. \A l \in files : l \in t /\ l \in Line /\ l[1] \in {"page", "section", "source"} /\ l[2] \notin gone
  BY LineKinds
<1>6. \A l \in entries : \E k \in t : /\ k[1] = "index" /\ k[2] \in Slug /\ l = <<"index", led(k[2])>>
                                      /\ l \in Line /\ l[1] = "index" /\ l[2] = led(k[2])
  <2>1. ASSUME NEW k \in t, k[1] = "index"
        PROVE  LET l == <<"index", led(k[2])>> IN k[2] \in Slug /\ l \in Line /\ l[1] = "index" /\ l[2] = led(k[2])
    BY <1>2, <2>1, LineKinds
  <2> QED BY <2>1
<1>7. \A l \in links : \E k \in t : /\ k[1] = "link" /\ k[2] \notin gone /\ l \in Line /\ l[1] = "link"
                                    /\ l[2] = k[2] /\ l[3] = led(k[3])
  <2>1. ASSUME NEW k \in t, k[1] = "link"
        PROVE  LET l == <<"link", k[2], led(k[3])>> IN l \in Line /\ l[1] = "link" /\ l[2] = k[2] /\ l[3] = led(k[3])
    BY <1>2, <2>1, LineKinds
  <2> QED BY <2>1
<1>8. \A l : l[1] \in {"page", "section", "source"} => (l \in m <=> l \in t /\ l[2] \notin gone)
  <2>1. \A l : l[1] \in {"page", "section", "source"} => (l \in files <=> l \in t /\ l[2] \notin gone)
    OBVIOUS
  <2> HIDE DEF files, entries, links
  <2> QED BY <1>1, <1>6, <1>7, <2>1
<1>9. \A p \in Slug : <<"index", p>> \in t => <<"index", led(p)>> \in m
  <2>1. ASSUME NEW p \in Slug, <<"index", p>> \in t PROVE <<"index", led(p)>> \in entries
    <3>1. <<"index", p>>[1] = "index" /\ <<"index", p>>[2] = p
      OBVIOUS
    <3> QED BY <2>1, <3>1
  <2> HIDE DEF files, entries, links
  <2> QED BY <1>1, <2>1
<1> HIDE DEF files, entries, links
<1>10. m \subseteq Line
  BY <1>1, <1>5, <1>6, <1>7
<1>11. Pages(m) = Pages(t) \ gone
  <2>1. \A p \in Slug : <<"page", p>>[1] = "page" /\ <<"page", p>>[2] = p
    OBVIOUS
  <2>2. \A p \in Slug : <<"page", p>> \in m <=> <<"page", p>> \in t /\ p \notin gone
    BY <1>8, <2>1
  <2> QED BY <2>2 DEF Pages
<1>12. \A p, x : /\ <<"section", p, x>> \in m <=> <<"section", p, x>> \in t /\ p \notin gone
                 /\ <<"source", p, x>> \in m <=> <<"source", p, x>> \in t /\ p \notin gone
  <2>1. \A p, x : /\ <<"section", p, x>>[1] = "section" /\ <<"section", p, x>>[2] = p
                  /\ <<"source", p, x>>[1] = "source" /\ <<"source", p, x>>[2] = p
    OBVIOUS
  <2> QED BY <1>8, <2>1
<1>13. ASSUME NEW p \in group, NEW k \in {"section", "source"}, NEW x, <<k, p, x>> \in t
       PROVE  <<k, keep, x>> \in t
  <2>1. <<k, p, x>>[1] = k /\ <<k, p, x>>[2] = p /\ <<k, p, x>>[3] = x
    OBVIOUS
  <2>2. <<k, x>> \in Text(t, p)
    BY <1>13, <2>1 DEF Text
  <2>3. <<k, x>> \in Text(t, keep)
    BY <2>2
  <2>4. PICK l \in t : l[1] \in {"section", "source", "link"} /\ l[2] = keep /\ <<k, x>> = <<l[1], l[3]>>
    BY <2>3 DEF Text
  <2>5. l[1] = k /\ l[3] = x
    BY <2>4
  <2>6. l = <<k, keep, x>>
    BY <2>4, <2>5, LineKinds
  <2> QED BY <2>4, <2>6
<1>14. ASSUME InFiles(t) PROVE InFiles(m)
  <2>1. ASSUME NEW l \in m, l[1] # "index" PROVE l[2] \in Pages(m)
    <3>1. CASE l \in files
      BY <1>5, <1>11, <1>14, <2>1, <3>1 DEF InFiles
    <3>2. CASE l \in links
      <4>1. PICK k \in t : k[1] = "link" /\ k[2] \notin gone /\ l[2] = k[2]
        BY <1>7, <3>2
      <4> QED BY <1>11, <1>14, <4>1 DEF InFiles
    <3> QED BY <1>1, <1>6, <2>1, <3>1, <3>2
  <2> QED BY <2>1 DEF InFiles
<1>15. ASSUME Linked(t) PROVE Linked(m)
  <2>1. ASSUME NEW l \in m PROVE l[2] \in Pages(m) /\ (l[1] = "link" => l[3] \in Pages(m))
    <3>1. CASE l \in files
      BY <1>5, <1>11, <1>15, <3>1 DEF Linked
    <3>2. CASE l \in links
      <4>1. PICK k \in t : k[1] = "link" /\ k[2] \notin gone /\ l[2] = k[2] /\ l[3] = led(k[3])
        BY <1>7, <3>2
      <4> QED BY <1>3, <1>11, <1>15, <4>1 DEF Linked
    <3>3. CASE l \in entries
      <4>1. PICK k \in t : l[1] = "index" /\ l[2] = led(k[2])
        BY <1>6, <3>3
      <4> QED BY <1>3, <1>11, <1>15, <4>1 DEF Linked
    <3> QED BY <1>1, <3>1, <3>2, <3>3
  <2> QED BY <2>1 DEF Linked
<1>16. ASSUME Whole(t) PROVE Whole(m)
  <2>1. Linked(m)
    BY <1>15, <1>16 DEF Whole, Linked
  <2>2. ASSUME NEW p \in Pages(m) PROVE <<"index", p>> \in m
    <3>1. p \in Pages(t) /\ p \in Slug /\ p \notin gone /\ led(p) = p
      BY <1>0, <1>4, <1>11, <2>2
    <3>2. <<"index", p>> \in t
      BY <1>16, <3>1 DEF Whole
    <3> QED BY <1>9, <3>1, <3>2
  <2> QED BY <2>1, <2>2 DEF Whole, Linked
<1> QED BY <1>10, <1>11, <1>12, <1>13, <1>14, <1>15, <1>16 DEF gone

-----------------------------------------------------------------------------
(* The steps of a row                                                      *)

\* What is kept while a row is on its way, besides the ledger of proposals.
RowInv ==
  /\ head \subseteq Line /\ tree \subseteq Line /\ plan \subseteq Line
  /\ log \in Seq(CommitRecord) /\ Len(log) <= MaxCommits
  /\ queue \in Seq(QueueRow)
  /\ step \in {"idle", "started", "prepared", "written", "committed"}
  /\ lag \in BOOLEAN /\ mixed \in BOOLEAN /\ moved \in BOOLEAN
  /\ batches \in 0..MaxBatches /\ faults \in 0..MaxFaults
  /\ OneSubmission /\ LogInOrder /\ BatchesContiguous /\ WikiWhole /\ InSession /\ UnitsStand

\* The invariant is that and the ledger, before a step and after it.
LEMMA PartsOfMInv ==
  /\ MInv <=> RowInv /\ Ledger
  /\ MInv' <=> RowInv' /\ Ledger'
BY DEF MInv, RowInv, Ledger, Shapes

\* A row that is at a step is there, and the tree is where the step left it.
LEMMA AtStep ==
  ASSUME MInv, NEW s, Running(s)
  PROVE  /\ step = s /\ HasRow /\ Job \in QueueRow /\ Job.unit \in Unit
         /\ Current \in 1..Len(queue) /\ Job = queue[Current] /\ Claimable(Current)
         /\ s # "idle" => SessionAt(s, Job, head, tree, plan, ~mixed, ~moved)
         /\ Job.kind \in Writers => InFlight(Writers)
<1>1. step = s /\ HasRow /\ queue \in Seq(QueueRow)
  BY DEF Running, HasRow, MInv, Shapes
<1>2. Current \in 1..Len(queue) /\ Claimable(Current) /\ Job = queue[Current] /\ Job \in QueueRow
  BY <1>1, TheRow
<1>3. s # "idle" => SessionAt(s, Job, head, tree, plan, ~mixed, ~moved)
  BY <1>1 DEF MInv, InSession
<1>4. Job.unit \in Unit
  BY <1>2 DEF QueueRow
<1>5. Job.kind \in Writers => InFlight(Writers)
  BY <1>2 DEF InFlight
<1> QED BY <1>1, <1>2, <1>3, <1>4, <1>5

\* A row is claimed: what an earlier one left in the tree is taken back.
LEMMA StartRowStep == ASSUME MInv, StartRow PROVE RowInv'
<1>1. step = "idle" /\ HasRow
  BY AtStep DEF StartRow
<1>2. /\ step' = "started" /\ tree' = IF Job.kind \in Writers THEN head ELSE tree
      /\ UNCHANGED <<head, log, queue, plan, lag, mixed, moved, batches, faults>>
  BY DEF StartRow
<1>3. SessionAt(step', Job, head, tree', plan', ~mixed, ~moved)
  BY <1>2 DEF SessionAt, Alike, MInv, WikiWhole
<1>4. /\ OneSubmission' /\ LogInOrder' /\ BatchesContiguous'
      /\ WikiWhole' /\ InSession' /\ UnitsStand'
  BY <1>1, <1>2, <1>3, RowMoves
<1> QED BY <1>2, <1>4 DEF RowInv, MInv, Shapes

\* A unit is planned.
LEMMA PrepareUnitStep == ASSUME MInv, PrepareUnit PROVE RowInv'
<1> DEFINE u == Job.unit
           final == (Pages(tree) \ Vanished(u)) \cup u.out
           linked == {l[3] : l \in {m \in tree : m[1] = "link" /\ m[2] \in u.in}} \cap final
<1>1. /\ step = "started" /\ HasRow /\ u \in Unit /\ Job.kind = "restructure"
      /\ Alike(head, tree, ~mixed) /\ (~moved => Pages(tree) = Pages(head))
  BY AtStep DEF PrepareUnit, SessionAt, Writers
<1>2. /\ step' = "prepared" /\ ValidUnit(u, Pages(tree))
      /\ UNCHANGED <<head, tree, log, queue, lag, mixed, moved, batches, faults>>
  BY DEF PrepareUnit
<1>3. PICK assign \in [IF u.out = {} THEN {} ELSE SectionsOf(tree, u.in) -> u.out], keep \in BOOLEAN :
        plan' = Rewritten(u, assign,
                          IF keep THEN {<<"link", p, q>> : p \in u.out, q \in linked} ELSE {})
  BY DEF PrepareUnit
<1> DEFINE links == IF keep THEN {<<"link", p, q>> : p \in u.out, q \in linked} ELSE {}
<1>4. \A l \in links : \E p \in u.out : \E q \in final \cap Slug : l = <<"link", p, q>>
  <2>1. linked \subseteq final \cap Slug
    BY <1>1 DEF Unit, Pages
  <2> HIDE DEF linked, final
  <2> QED BY <2>1
<1>5. tree \subseteq Line
  BY DEF MInv, Shapes
<1>6. plan' = Rewritten(u, assign, links)
  BY <1>3
<1> HIDE DEF links, u
<1>7. plan' \subseteq Line /\ FreshPlan(u, tree, plan')
  BY <1>1, <1>3, <1>4, <1>5, <1>6, PlanMade
<1>fit. PlanOf(u, head, tree, plan') /\ (~mixed => PlanFits(u, tree, plan'))
  BY <1>1, <1>2, <1>5, <1>7, PlanStands
<1>8. SessionAt(step', Job, head, tree', plan', ~mixed, ~moved)
  BY <1>1, <1>2, <1>fit DEF SessionAt, Alike, u
<1>9. /\ OneSubmission' /\ LogInOrder' /\ BatchesContiguous'
      /\ WikiWhole' /\ InSession' /\ UnitsStand'
  BY <1>1, <1>2, <1>8, RowMoves
<1> QED BY <1>2, <1>7, <1>9 DEF RowInv, MInv, Shapes

\* A unit is applied to the working tree.
LEMMA ApplyUnitStep == ASSUME MInv, ApplyUnit PROVE RowInv'
<1> DEFINE u == Job.unit
<1>1. /\ step = "prepared" /\ HasRow /\ u \in Unit /\ Job.kind = "restructure"
      /\ InFlight(Writers) /\ SessionAt("prepared", Job, head, tree, plan, ~mixed, ~moved)
  BY AtStep DEF ApplyUnit, Writers
<1>2. /\ InFiles(tree) /\ PlanOf(u, head, tree, plan) /\ (~mixed => PlanFits(u, tree, plan))
      /\ ~moved => Pages(tree) = Pages(head)
  BY <1>1 DEF SessionAt
<1>3. /\ step' = "written" /\ tree' = Applied(tree, u, plan)
      /\ UNCHANGED <<head, log, queue, plan, lag, mixed, moved, batches, faults>>
  BY DEF ApplyUnit, Applied
<1>4. tree \subseteq Line /\ plan \subseteq Line
  BY DEF MInv, Shapes
<1> HIDE DEF u
<1>5. /\ tree' \subseteq Line /\ WrittenBy(u, head, tree', ~moved) /\ InFiles(tree')
      /\ ~mixed => Whole(tree')
  BY <1>1, <1>2, <1>3, <1>4, UnitApplied
<1>6. SessionAt(step', Job, head, tree', plan', ~mixed, ~moved)
  BY <1>1, <1>3, <1>5 DEF SessionAt, u, Writers
<1>7. /\ OneSubmission' /\ LogInOrder' /\ BatchesContiguous'
      /\ WikiWhole' /\ InSession' /\ UnitsStand'
  BY <1>1, <1>3, <1>6, RowMoves
<1> QED BY <1>3, <1>4, <1>5, <1>7 DEF RowInv, MInv, Shapes

\* A link row adds or removes one link.
LEMMA WriteLinksStep == ASSUME MInv, WriteLinks PROVE RowInv'
<1>1. /\ step = "started" /\ HasRow /\ Job.kind = "link"
      /\ Alike(head, tree, ~mixed) /\ (~moved => Pages(tree) = Pages(head))
  BY AtStep DEF WriteLinks, SessionAt, Writers
<1>2. /\ step' = "written"
      /\ UNCHANGED <<head, log, queue, plan, lag, mixed, moved, batches, faults>>
  BY DEF WriteLinks
<1>3. PICK p \in Pages(tree), q \in Pages(tree) :
        tree' = tree \ {<<"link", p, q>>} \/ tree' = tree \cup {<<"link", p, q>>}
  BY DEF WriteLinks
<1>4. tree \subseteq Line /\ InFiles(tree) /\ (~mixed => Whole(tree))
  BY <1>1 DEF MInv, Shapes, Alike
<1>5. /\ tree' \subseteq Line /\ Pages(tree') = Pages(tree) /\ InFiles(tree')
      /\ ~mixed => Whole(tree')
  BY <1>1, <1>3, <1>4, LinkToggled
<1>6. SessionAt(step', Job, head, tree', plan', ~mixed, ~moved)
  BY <1>1, <1>2, <1>5 DEF SessionAt, Writers
<1>7. /\ OneSubmission' /\ LogInOrder' /\ BatchesContiguous'
      /\ WikiWhole' /\ InSession' /\ UnitsStand'
  BY <1>1, <1>2, <1>6, RowMoves
<1> QED BY <1>2, <1>5, <1>7 DEF RowInv, MInv, Shapes

\* A compile writes its page ...
LEMMA CompilePageStep == ASSUME MInv, NEW c \in Compiled, CompilePage(c) PROVE RowInv'
<1>1. /\ step = "started" /\ HasRow /\ Job.kind = "compile"
      /\ Alike(head, tree, ~mixed) /\ (~moved => Pages(tree) = Pages(head))
  BY AtStep DEF CompilePage, SessionAt, Writers
<1>2. /\ step' = "prepared"
      /\ tree' = tree \cup {<<"page", c[1]>>, <<"section", c[1], c[2]>>, <<"source", c[1], c[3]>>}
      /\ UNCHANGED <<head, log, queue, plan, lag, mixed, moved, batches, faults>>
  BY DEF CompilePage
<1>3. tree \subseteq Line /\ InFiles(tree) /\ (~mixed => Whole(tree))
  BY <1>1 DEF MInv, Shapes, Alike
<1>4. tree' \subseteq Line /\ InFiles(tree') /\ (~mixed => Linked(tree'))
  BY <1>1, <1>2, <1>3, PageAdded
<1>5. SessionAt(step', Job, head, tree', plan', ~mixed, ~moved)
  BY <1>1, <1>2, <1>4 DEF SessionAt
<1>6. /\ OneSubmission' /\ LogInOrder' /\ BatchesContiguous'
      /\ WikiWhole' /\ InSession' /\ UnitsStand'
  BY <1>1, <1>2, <1>5, RowMoves
<1> QED BY <1>2, <1>4, <1>6 DEF RowInv, MInv, Shapes

\* ... and the index.
LEMMA CompileIndexStep == ASSUME MInv, CompileIndex PROVE RowInv'
<1>1. /\ step = "prepared" /\ HasRow /\ Job.kind = "compile" /\ InFlight(Writers)
      /\ InFiles(tree) /\ (~mixed => Linked(tree))
  BY AtStep DEF CompileIndex, SessionAt, Writers
<1>2. /\ step' = "written" /\ tree' = tree \cup {<<"index", p>> : p \in Pages(tree)}
      /\ UNCHANGED <<head, log, queue, plan, lag, mixed, moved, batches, faults>>
  BY DEF CompileIndex
<1>3. tree \subseteq Line
  BY DEF MInv, Shapes
<1>4. tree' \subseteq Line /\ InFiles(tree') /\ (~mixed => Whole(tree'))
  BY <1>1, <1>2, <1>3, IndexAdded
<1>5. SessionAt(step', Job, head, tree', plan', ~mixed, ~moved)
  BY <1>1, <1>2, <1>4 DEF SessionAt, Writers
<1>6. /\ OneSubmission' /\ LogInOrder' /\ BatchesContiguous'
      /\ WikiWhole' /\ InSession' /\ UnitsStand'
  BY <1>1, <1>2, <1>5, RowMoves
<1> QED BY <1>2, <1>4, <1>6 DEF RowInv, MInv, Shapes

\* A unit still fits after another one that keeps to other pages.
LEMMA ValidStays ==
  ASSUME NEW u \in Unit, NEW v \in Unit, Touched(v) \cap Touched(u) = {},
         NEW P, ValidUnit(v, P)
  PROVE  ValidUnit(v, (P \ Touched(u)) \cup u.out)
BY DEF ValidUnit, Touched, Unit

\* Everything in the tree is committed as the work of the row.
LEMMA CommitStep == ASSUME MInv, Commit PROVE RowInv'
<1>1. /\ step = "written" /\ HasRow /\ Job \in QueueRow /\ Job.unit \in Unit
      /\ Current \in 1..Len(queue) /\ Job = queue[Current]
      /\ SessionAt("written", Job, head, tree, plan, ~mixed, ~moved)
  BY AtStep DEF Commit
<1>2. /\ head' = tree /\ tree' = tree /\ step' = "committed" /\ Len(log) < MaxCommits
      /\ log' = IF tree = head THEN log ELSE Append(log, [batch |-> Job.batch, before |-> head])
      /\ UNCHANGED <<queue, plan, lag, mixed, moved, batches, faults>>
  BY DEF Commit
<1>3. Job.kind \in Writers /\ InFlight(Writers)
  BY <1>1, AtStep DEF SessionAt, Commit
<1>4. Job.batch = batches /\ batches # 0
  BY <1>1, <1>3 DEF MInv, OneSubmission
<1>5. /\ Current' = Current /\ Job' = Job /\ HasRow' = HasRow
      /\ InFlight(Writers)' = InFlight(Writers)
  BY <1>2, SameQueue
<1>6. OneSubmission'
  BY <1>2 DEF MInv, OneSubmission
<1>7. /\ head \subseteq Line /\ tree \subseteq Line /\ log \in Seq(CommitRecord)
      /\ queue \in Seq(QueueRow) /\ batches \in 0..MaxBatches
  BY DEF MInv, Shapes
<1> DEFINE new == [batch |-> Job.batch, before |-> head]
<1>8. new \in CommitRecord /\ new.batch = batches /\ new.before = head
  BY <1>4, <1>7 DEF CommitRecord
<1> HIDE DEF new
<1>9. log' = log \/ log' = Append(log, new)
  BY <1>2 DEF new
<1>10. /\ log' \in Seq(CommitRecord) /\ Len(log') <= MaxCommits
       /\ \A k \in 1..Len(log') :
            \/ k \in 1..Len(log) /\ log'[k] = log[k]
            \/ k = Len(log) + 1 /\ k = Len(log') /\ log'[k] = new
  <2>0. MaxCommits \in Nat
    BY MaintenanceAssumption
  <2>1. CASE log' = log
    BY <1>2, <1>7, <2>0, <2>1
  <2>2. CASE log' = Append(log, new)
    BY <1>2, <1>7, <1>8, <2>0, <2>2
  <2> QED BY <1>9, <2>1, <2>2
<1>11. LogInOrder'
  <2>1. \A k \in 1..Len(log) : log[k].batch <= batches
    BY DEF MInv, LogInOrder
  <2>2. \A k \in 1..Len(log') : log'[k].batch <= batches
    BY <1>7, <1>8, <1>10, <2>1
  <2>3. ASSUME NEW i \in 1..Len(log'), NEW j \in 1..Len(log'), i < j, log'[i].batch = batches
        PROVE  log'[j].batch = batches
    <3>1. i \in 1..Len(log) /\ log'[i] = log[i]
      BY <1>7, <1>10, <2>3
    <3>2. CASE j \in 1..Len(log) /\ log'[j] = log[j]
      BY <1>3, <2>3, <3>1, <3>2 DEF MInv, LogInOrder
    <3> QED BY <1>8, <1>10, <3>2
  <2> QED BY <1>2, <2>2, <2>3 DEF LogInOrder
<1>12. BatchesContiguous'
  <2>1. ASSUME NEW i \in 1..Len(log'), NEW j \in 1..Len(log'), NEW k \in 1..Len(log'),
               i < j, j < k, log'[i].batch = log'[k].batch, log'[i].batch # 0
        PROVE  log'[j].batch = log'[i].batch
    <3>1. /\ i \in 1..Len(log) /\ log'[i] = log[i]
          /\ j \in 1..Len(log) /\ log'[j] = log[j]
      BY <1>7, <1>10, <2>1
    <3>2. CASE k \in 1..Len(log) /\ log'[k] = log[k]
      BY <2>1, <3>1, <3>2 DEF MInv, BatchesContiguous
    <3>3. CASE log'[k] = new
      BY <1>3, <1>8, <2>1, <3>1, <3>3 DEF MInv, LogInOrder
    <3> QED BY <1>10, <3>2, <3>3
  <2> QED BY <2>1 DEF BatchesContiguous
<1>13. WikiWhole'
  <2>1. InFiles(tree) /\ (~mixed => Whole(tree))
    BY <1>1 DEF SessionAt
  <2>2. ASSUME ~mixed, NEW k \in 1..Len(log') PROVE Whole(log'[k].before)
    BY <1>8, <1>10, <2>2 DEF MInv, WikiWhole
  <2> QED BY <1>2, <2>1, <2>2 DEF WikiWhole
<1>14. InSession'
  <2>1. SessionAt(step', Job', head', tree', plan', ~mixed', ~moved')
    BY <1>2, <1>3, <1>5 DEF SessionAt
  <2> QED BY <1>1, <1>2, <1>5, <2>1 DEF InSession
<1>15. UnitsStand'
  <2>1. ASSUME NEW i \in 1..Len(queue), queue[i].kind = "restructure", i # Current,
               ~queue[i].redo, ~moved
        PROVE  ValidUnit(queue[i].unit, Pages(tree))
    <3>1. ValidUnit(queue[i].unit, Pages(head))
      BY <2>1 DEF MInv, UnitsStand
    <3>2. CASE Job.kind = "compile"
      BY <1>1, <2>1, <3>2 DEF MInv, OneSubmission, Writers
    <3>3. CASE Job.kind = "link"
      BY <1>1, <2>1, <3>1, <3>3 DEF SessionAt
    <3>4. CASE Job.kind = "restructure"
      <4>1. Pages(tree) = (Pages(head) \ Touched(Job.unit)) \cup Job.unit.out
        BY <1>1, <2>1, <3>4 DEF SessionAt, WrittenBy
      <4>2. Touched(queue[i].unit) \cap Touched(Job.unit) = {}
        BY <1>1, <2>1, <3>4 DEF MInv, OneSubmission
      <4>3. queue[i] \in QueueRow
        BY <1>7, <2>1
      <4>4. queue[i].unit \in Unit
        BY <4>3 DEF QueueRow
      <4> QED BY <1>1, <3>1, <4>1, <4>2, <4>4, ValidStays
    <3> QED BY <1>3, <3>2, <3>3, <3>4 DEF Writers
  <2> QED BY <1>2, <1>5, <2>1 DEF UnitsStand
<1> QED BY <1>2, <1>6, <1>7, <1>10, <1>11, <1>12, <1>13, <1>14, <1>15 DEF RowInv, MInv, Shapes

\* A row ends: its pages are gone, there is nothing to change, it failed, its
\* commit is made, or it is an analysis.
LEMMA EndStep ==
  ASSUME MInv, Mismatch \/ SkipLinks \/ Finish \/ RowFails \/ PreviewFails
  PROVE  RowInv'
<1>1. /\ HasRow /\ Ends /\ UNCHANGED <<head, log, mixed, moved, batches, faults>>
      /\ (tree' = head \/ tree' = tree) /\ lag' \in BOOLEAN
  <2>1. CASE Mismatch
    BY <2>1, AtStep DEF Mismatch, MInv, Shapes
  <2>2. CASE SkipLinks
    BY <2>2, AtStep DEF SkipLinks, MInv, Shapes
  <2>3. CASE Finish
    BY <2>3, AtStep DEF Finish, MInv, Shapes
  <2>4. CASE RowFails
    <3>1. HasRow
      BY <2>4, AtStep DEF RowFails
    <3> QED BY <2>4, <3>1 DEF RowFails
  <2>5. CASE PreviewFails
    BY <2>5, AtStep DEF PreviewFails, MInv, Shapes
  <2> QED BY <2>1, <2>2, <2>3, <2>4, <2>5
<1>2. /\ queue' \in Seq(QueueRow)
      /\ OneSubmission' /\ LogInOrder' /\ BatchesContiguous'
      /\ WikiWhole' /\ InSession' /\ UnitsStand'
  BY <1>1, RowEnds
<1>3. step' = "idle" /\ plan' \subseteq Line
  BY <1>1 DEF Ends, NoPlan
<1>4. tree' \subseteq Line
  BY <1>1 DEF MInv, Shapes
<1> QED BY <1>1, <1>2, <1>3, <1>4 DEF RowInv, MInv, Shapes

\* An analysis ends with a new proposal.
LEMMA PreviewEndsStep ==
  ASSUME MInv, NEW answer \in Answers, PreviewEnds(answer)
  PROVE  RowInv' /\ Ledger'
<1>1. /\ Running("started") /\ Job.kind = "preview" /\ Ends
      /\ UNCHANGED <<head, tree, log, lag, mixed, moved, batches, faults>>
  BY DEF PreviewEnds
<1>2. HasRow
  BY <1>1, AtStep
<1>3. /\ queue' \in Seq(QueueRow)
      /\ OneSubmission' /\ LogInOrder' /\ BatchesContiguous'
      /\ WikiWhole' /\ InSession' /\ UnitsStand'
  BY <1>1, <1>2, RowEnds
<1>4. step' = "idle" /\ plan' \subseteq Line
  BY <1>1 DEF Ends, NoPlan
<1>5. RowInv'
  BY <1>1, <1>3, <1>4 DEF RowInv, MInv, Shapes
<1>6. PICK units \in Analyses(answer, Pages(tree)) :
        proposals' = Append(Superseded(proposals), [units |-> units, resolution |-> "pending"])
  BY DEF PreviewEnds
<1>7. units \in Seq(Unit)
  BY <1>6, ListsOfUnits, MaintenanceAssumption
<1>8. sent' = Append(sent, 0)
  BY DEF PreviewEnds
<1>9. Ledger'
  BY <1>6, <1>7, <1>8, NewProposal, PartsOfMInv
<1> QED BY <1>5, <1>9

\* The process dies: the row stays where it is, and has been applied when its
\* commit was made.
LEMMA CrashStep == ASSUME MInv, Crash PROVE RowInv'
<1>0. /\ queue \in Seq(QueueRow) /\ step # "idle"
      /\ step' = "idle" /\ plan' = {} /\ faults' = faults + 1 /\ faults < MaxFaults
      /\ UNCHANGED <<head, tree, log, lag, mixed, moved, batches>>
  BY DEF MInv, Shapes, Crash, NoPlan
<1>1. HasRow /\ SessionAt(step, Job, head, tree, plan, ~mixed, ~moved)
  BY <1>0 DEF MInv, InSession
<1>2. Current \in 1..Len(queue) /\ Job = queue[Current] /\ Job \in QueueRow
  BY <1>0, <1>1, TheRow
<1> DEFINE left == [kind |-> Job.kind, unit |-> Job.unit, batch |-> Job.batch,
                    redo |-> Job.redo \/ step = "committed", stale |-> TRUE]
<1>3. /\ left \in QueueRow /\ left.kind = Job.kind /\ left.unit = Job.unit
      /\ left.batch = Job.batch /\ (left.redo <=> (Job.redo \/ step = "committed"))
  <2>1. /\ Job.kind \in Writers \cup {"preview"} /\ Job.unit \in Unit
        /\ Job.batch \in 0..MaxBatches
    BY <1>2 DEF QueueRow
  <2>2. (Job.redo \/ step = "committed") \in BOOLEAN
    OBVIOUS
  <2> QED BY <2>1, <2>2 DEF QueueRow
<1>4. queue' = [queue EXCEPT ![Current] = left]
  BY DEF Crash
<1> HIDE DEF left
<1>5. /\ queue' \in Seq(QueueRow) /\ Len(queue') = Len(queue)
      /\ queue'[Current] = left
      /\ \A i \in 1..Len(queue) : i # Current => queue'[i] = queue[i]
  BY <1>0, <1>2, <1>3, <1>4
<1>6. \A i \in 1..Len(queue') :
        /\ queue'[i].kind = queue[i].kind /\ queue'[i].unit = queue[i].unit
        /\ queue'[i].batch = queue[i].batch
  BY <1>2, <1>3, <1>5
<1> DEFINE place == [i \in 1..Len(queue') |-> i]
<1>7. /\ place \in [1..Len(queue') -> 1..Len(queue)]
      /\ \A i, j \in 1..Len(queue') : place[i] = place[j] => i = j
      /\ \A i \in 1..Len(queue') : place[i] = i
  BY <1>5
<1> HIDE DEF place
<1>8. OneSubmission' /\ (InFlight(Writers)' => InFlight(Writers))
  BY <1>0, <1>5, <1>6, <1>7, RowsFromRows DEF MInv
<1>10. LogInOrder'
  BY <1>0, <1>8 DEF MInv, LogInOrder
<1>11. BatchesContiguous' /\ WikiWhole'
  BY <1>0, HistoryStays DEF MInv
<1>12. InSession'
  BY <1>0 DEF InSession
<1>13. UnitsStand'
  <2>1. ASSUME NEW i \in 1..Len(queue), queue'[i].kind = "restructure", ~queue'[i].redo, ~moved
        PROVE  ValidUnit(queue[i].unit, Pages(head))
    <3>1. CASE i = Current
      BY <1>2, <1>3, <1>5, <2>1, <3>1 DEF MInv, UnitsStand
    <3>2. CASE i # Current
      BY <1>5, <2>1, <3>2 DEF MInv, UnitsStand
    <3> QED BY <3>1, <3>2
  <2> QED BY <1>0, <1>5, <1>6, <2>1 DEF UnitsStand
<1>14. faults' \in 0..MaxFaults
  BY <1>0, MaintenanceAssumption DEF MInv, Shapes
<1> QED BY <1>0, <1>5, <1>8, <1>10, <1>11, <1>12, <1>13, <1>14 DEF RowInv, MInv, Shapes

\* A start puts the rows that were left over back: nothing else about them changes.
LEMMA RecoverStep == ASSUME MInv, Recover PROVE RowInv'
<1>0. /\ queue \in Seq(QueueRow) /\ step = "idle"
      /\ queue' = [i \in 1..Len(queue) |-> [queue[i] EXCEPT !.stale = FALSE]]
      /\ UNCHANGED <<head, tree, log, step, plan, lag, mixed, moved, batches, faults>>
  BY DEF MInv, Shapes, Recover
<1>1. \A i \in 1..Len(queue) : [queue[i] EXCEPT !.stale = FALSE] \in QueueRow
  <2>1. \A r \in QueueRow : [r EXCEPT !.stale = FALSE] \in QueueRow
    BY DEF QueueRow
  <2>2. \A i \in 1..Len(queue) : queue[i] \in QueueRow
    BY <1>0
  <2> QED BY <2>1, <2>2
<1>2. /\ queue' \in Seq(QueueRow) /\ Len(queue') = Len(queue)
      /\ \A i \in 1..Len(queue) : queue'[i] = [queue[i] EXCEPT !.stale = FALSE]
  BY <1>0, <1>1
<1>3. \A i \in 1..Len(queue) :
        /\ queue'[i].kind = queue[i].kind /\ queue'[i].unit = queue[i].unit
        /\ queue'[i].batch = queue[i].batch /\ queue'[i].redo = queue[i].redo
  <2>1. ASSUME NEW i \in 1..Len(queue)
        PROVE  /\ queue'[i].kind = queue[i].kind /\ queue'[i].unit = queue[i].unit
               /\ queue'[i].batch = queue[i].batch /\ queue'[i].redo = queue[i].redo
    <3>1. queue[i] \in QueueRow /\ queue'[i] = [queue[i] EXCEPT !.stale = FALSE]
      BY <1>0, <1>2
    <3> QED BY <3>1 DEF QueueRow
  <2> QED BY <2>1
<1> DEFINE place == [i \in 1..Len(queue') |-> i]
<1>4. /\ place \in [1..Len(queue') -> 1..Len(queue)]
      /\ \A i, j \in 1..Len(queue') : place[i] = place[j] => i = j
      /\ \A i \in 1..Len(queue') : place[i] = i
  BY <1>2
<1> HIDE DEF place
<1>5. OneSubmission' /\ (InFlight(Writers)' => InFlight(Writers))
  BY <1>0, <1>2, <1>3, <1>4, RowsFromRows DEF MInv
<1>7. LogInOrder'
  BY <1>0, <1>5 DEF MInv, LogInOrder
<1>8. BatchesContiguous' /\ WikiWhole'
  BY <1>0, HistoryStays DEF MInv
<1>9. InSession'
  BY <1>0 DEF InSession
<1>10. UnitsStand'
  BY <1>0, <1>2, <1>3 DEF MInv, UnitsStand
<1> QED BY <1>0, <1>2, <1>5, <1>7, <1>8, <1>9, <1>10 DEF RowInv, MInv, Shapes

-----------------------------------------------------------------------------
(* Reverts                                                                 *)

\* The wiki between the commits: before commit k, and HEAD after the last one.
Between(k) == IF k = Len(log) + 1 THEN head ELSE log[k].before

\* A line that the commits before c did not change is at c as it was.
LEMMA UnchangedUntil ==
  ASSUME log \in Seq(CommitRecord), NEW m \in 1..Len(log), NEW c \in m..Len(log)+1,
         NEW l, \A k \in m..Len(log) : k < c => l \notin Changed(k)
  PROVE  l \in Between(c) <=> l \in Between(m)
<1> DEFINE same(k) == l \in Between(k) <=> l \in Between(m)
           Odd == {k \in m..c : ~same(k)}
<1>0. Len(log) \in Nat
  OBVIOUS
<1>1. \A k \in m..Len(log) : k < c => (l \in Between(k) <=> l \in Between(k+1))
  <2>1. ASSUME NEW k \in m..Len(log), k < c PROVE l \in Between(k) <=> l \in Between(k+1)
    <3>1. l \notin Changed(k) /\ k # Len(log) + 1
      BY <1>0, <2>1
    <3>2. Between(k) = log[k].before
      BY <3>1 DEF Between
    <3>3. Between(k+1) = After(k)
      BY <1>0 DEF Between, After
    <3> QED BY <3>1, <3>2, <3>3 DEF Changed
  <2> QED BY <2>1
<1>2. ASSUME Odd # {} PROVE FALSE
  <2>1. Odd \subseteq Nat
    BY <1>0
  <2>2. PICK b \in Odd : \A n \in Odd : b <= n
    BY <1>2, <2>1, Smallest
  <2>3. b \in m..c /\ ~same(b)
    BY <2>2
  <2>4. b # m
    BY <2>3
  <2>5. b - 1 \in m..Len(log) /\ b - 1 < c /\ b - 1 \in m..c /\ (b - 1) + 1 = b
    BY <1>0, <2>3, <2>4
  <2>6. l \in Between(b - 1) <=> l \in Between(b)
    BY <1>1, <2>5
  <2>7. b - 1 \in Odd
    BY <2>3, <2>5, <2>6
  <2>8. b <= b - 1
    BY <2>2, <2>7
  <2> QED BY <2>3, <2>8
<1>3. c \in m..c
  BY <1>0
<1> QED BY <1>2, <1>3

\* Taking out the last commits gives the wiki as it was before the first of them.
LEMMA LastOnesTakenOut ==
  ASSUME MInv, NEW K, K \subseteq 1..Len(log), K # {}, LastOnes(K)
  PROVE  \E m \in 1..Len(log) : Reverted(K) = log[m].before
<1>0. Len(log) \in Nat /\ log \in Seq(CommitRecord) /\ head \subseteq Line
  BY DEF MInv, Shapes
<1>1. K \subseteq Nat
  BY <1>0
<1>2. PICK m \in K : \A k \in K : m <= k
  BY <1>1, Smallest
<1>3. m \in 1..Len(log)
  OBVIOUS
<1>4. \A k : k \in K <=> k \in m..Len(log)
  <2>1. ASSUME NEW k \in m..Len(log) PROVE k \in K
    <3>1. k \in 1..Len(log) /\ m <= k
      BY <1>0, <1>3
    <3> QED BY <3>1 DEF LastOnes
  <2>2. ASSUME NEW k \in K PROVE k \in m..Len(log)
    <3>1. k \in 1..Len(log) /\ m <= k
      BY <1>2
    <3> QED BY <1>0, <1>3, <3>1
  <2> QED BY <2>1, <2>2
<1>5. Between(m) = log[m].before /\ Between(Len(log) + 1) = head
  BY <1>0, <1>3 DEF Between
<1>6. log[m].before \subseteq Line
  <2>1. log[m] \in CommitRecord
    BY <1>0, <1>3
  <2> QED BY <2>1 DEF CommitRecord
<1>7. \A l, c : c \in m..Len(log)+1 /\ (\A k \in K : k < c => l \notin Changed(k)) =>
        (l \in Between(c) <=> l \in log[m].before)
  BY <1>0, <1>3, <1>4, <1>5, UnchangedUntil
<1>8. ASSUME NEW l \in Reverted(K) PROVE l \in log[m].before
  <2>1. CASE l \in head /\ \A k \in K : l \notin Changed(k)
    <3>1. Len(log) + 1 \in m..Len(log)+1
      BY <1>0, <1>3
    <3> QED BY <1>5, <1>7, <2>1, <3>1
  <2>2. ASSUME NEW k \in K, l \in log[k].before, \A j \in K : j < k => l \notin Changed(j)
        PROVE  l \in log[m].before
    <3>1. k \in m..Len(log)+1 /\ Between(k) = log[k].before
      BY <1>0, <1>3, <1>4 DEF Between
    <3> QED BY <1>7, <2>2, <3>1
  <2> QED BY <2>1, <2>2 DEF Reverted
<1>9. ASSUME NEW l \in log[m].before PROVE l \in Reverted(K)
  <2> DEFINE C == {k \in K : l \in Changed(k)}
  <2>1. l \in Line
    BY <1>6
  <2>2. CASE C = {}
    <3>1. Len(log) + 1 \in m..Len(log)+1
      BY <1>0, <1>3
    <3>2. \A k \in K : l \notin Changed(k)
      BY <2>2
    <3>3. l \in head
      BY <1>5, <1>7, <3>1, <3>2
    <3> QED BY <2>1, <3>2, <3>3 DEF Reverted
  <2>3. CASE C # {}
    <3>1. C \subseteq Nat
      BY <1>1
    <3>2. PICK c \in C : \A k \in C : c <= k
      BY <2>3, <3>1, Smallest
    <3>3. c \in K /\ l \in Changed(c) /\ c \in Nat
      BY <1>1, <3>2
    <3>4. \A j \in K : j < c => l \notin Changed(j)
      <4>1. ASSUME NEW j \in K, j < c, l \in Changed(j) PROVE FALSE
        <5>1. c <= j /\ j \in Nat
          BY <1>1, <3>2, <4>1
        <5> QED BY <3>3, <4>1, <5>1
      <4> QED BY <4>1
    <3>5. c \in m..Len(log)+1 /\ Between(c) = log[c].before
      BY <1>0, <1>3, <1>4, <3>3 DEF Between
    <3>6. l \in log[c].before
      BY <1>7, <3>4, <3>5
    <3> QED BY <2>1, <3>3, <3>4, <3>6 DEF Reverted
  <2> QED BY <2>2, <2>3
<1>10. Reverted(K) = log[m].before
  BY <1>8, <1>9
<1> QED BY <1>3, <1>10

\* Commits are taken out: no row that writes the wiki is in flight, so that only
\* the wiki and its log change.
LEMMA RevertStep ==
  ASSUME MInv, NEW K, K \subseteq 1..Len(log), Revert(K)
  PROVE  RowInv'
<1>0. /\ GateOpen /\ Len(log) < MaxCommits /\ K # {} /\ InFiles(Reverted(K))
      /\ head' = Reverted(K) /\ tree' = head'
      /\ log' = Append(log, [batch |-> 0, before |-> head])
      /\ mixed' = (mixed \/ ~LastOnes(K))
      /\ UNCHANGED <<queue, step, plan, lag, moved, batches, faults>>
  BY DEF Revert
<1>1. /\ log \in Seq(CommitRecord) /\ head \subseteq Line /\ queue \in Seq(QueueRow)
      /\ Len(log) \in Nat /\ MaxCommits \in Nat /\ MaxBatches \in Nat /\ batches \in 0..MaxBatches
  BY MaintenanceAssumption DEF MInv, Shapes
<1>2. head' \subseteq Line
  BY <1>0 DEF Reverted
<1> DEFINE new == [batch |-> 0, before |-> head]
<1>3. new \in CommitRecord /\ new.batch = 0 /\ new.before = head
  BY <1>1 DEF CommitRecord
<1>4. log' = Append(log, new)
  BY <1>0
<1> HIDE DEF new
<1>5. /\ log' \in Seq(CommitRecord) /\ Len(log') = Len(log) + 1 /\ Len(log') <= MaxCommits
      /\ \A k \in 1..Len(log) : log'[k] = log[k]
      /\ log'[Len(log) + 1] = new
  BY <1>0, <1>1, <1>3, <1>4
<1>6. \A k \in 1..Len(log') : (k \in 1..Len(log) /\ log'[k] = log[k]) \/ (k = Len(log') /\ log'[k] = new)
  BY <1>1, <1>5
<1>7. \A i \in 1..Len(queue) : queue[i].kind \notin Writers
  BY <1>0 DEF GateOpen, InFlight
<1>8. OneSubmission' /\ UnitsStand'
  BY <1>0, <1>7 DEF OneSubmission, UnitsStand, Writers, Touched
<1>9. ~InFlight(Writers)'
  BY <1>0, <1>7 DEF InFlight, Writers
<1>10. LogInOrder'
  <2>1. ASSUME NEW k \in 1..Len(log') PROVE log'[k].batch <= batches
    <3>1. CASE k \in 1..Len(log) /\ log'[k] = log[k]
      BY <3>1 DEF MInv, LogInOrder
    <3>2. CASE log'[k] = new
      BY <1>1, <1>3, <3>2
    <3> QED BY <1>6, <3>1, <3>2
  <2> QED BY <1>0, <1>9, <2>1 DEF LogInOrder
<1>11. BatchesContiguous'
  <2>1. ASSUME NEW i \in 1..Len(log'), NEW j \in 1..Len(log'), NEW k \in 1..Len(log'),
               i < j, j < k, log'[i].batch = log'[k].batch, log'[i].batch # 0
        PROVE  log'[j].batch = log'[i].batch
    <3>1. k \in 1..Len(log) /\ log'[k] = log[k]
      BY <1>3, <1>6, <2>1
    <3>2. i \in 1..Len(log) /\ j \in 1..Len(log) /\ log'[i] = log[i] /\ log'[j] = log[j]
      BY <1>1, <1>5, <2>1, <3>1
    <3> QED BY <2>1, <3>1, <3>2 DEF MInv, BatchesContiguous
  <2> QED BY <2>1 DEF BatchesContiguous
<1>12. WikiWhole'
  <2>1. ASSUME ~mixed' PROVE Whole(head') /\ \A k \in 1..Len(log') : Whole(log'[k].before)
    <3>1. ~mixed /\ LastOnes(K)
      BY <1>0, <2>1
    <3>2. Whole(head) /\ \A k \in 1..Len(log) : Whole(log[k].before)
      BY <3>1 DEF MInv, WikiWhole
    <3>3. PICK m \in 1..Len(log) : Reverted(K) = log[m].before
      BY <1>0, <3>1, LastOnesTakenOut
    <3>4. Whole(head')
      BY <1>0, <3>2, <3>3
    <3>5. ASSUME NEW k \in 1..Len(log') PROVE Whole(log'[k].before)
      BY <1>3, <1>6, <3>2
    <3> QED BY <3>4, <3>5
  <2>2. InFiles(head')
    BY <1>0
  <2> QED BY <2>1, <2>2 DEF WikiWhole
<1>13. InSession'
  <2>1. Job' = Job /\ HasRow' = HasRow
    BY <1>0, SameQueue
  <2>2. HasRow => Job.kind \notin Writers
    BY <1>1, <1>7, TheRow
  <2> QED BY <1>0, <2>1, <2>2, NoWriterStays DEF MInv
<1>14. mixed' \in BOOLEAN
  BY <1>0
<1> QED BY <1>0, <1>2, <1>5, <1>8, <1>10, <1>11, <1>12, <1>13, <1>14 DEF RowInv, MInv, Shapes

-----------------------------------------------------------------------------
(* The /scan command                                                       *)

\* A merge takes nothing into pages of P that was not there, and what it takes out of
\* them is on the page it leaves.
Keeps(t, m, P, keep) ==
  /\ Texts(m, P) \subseteq Texts(t, P) /\ SourcesOf(m, P) \subseteq SourcesOf(t, P)
  /\ Texts(t, P) \subseteq Texts(m, P) \cup (IF keep \in P THEN {} ELSE Texts(t, Slug \ P))
  /\ SourcesOf(t, P) \subseteq SourcesOf(m, P) \cup (IF keep \in P THEN {} ELSE SourcesOf(t, Slug \ P))
LEMMA MergeKeeps ==
  ASSUME NEW t, t \subseteq Line, NEW group, NEW keep \in group, group \subseteq Pages(t),
         \A p \in group : Text(t, p) = Text(t, keep),
         NEW m, m = Merged(t, group, keep), NEW P, P \subseteq Slug
  PROVE  Keeps(t, m, P, keep)
<1>1. /\ m \subseteq Line
      /\ \A p, x : /\ <<"section", p, x>> \in m <=> <<"section", p, x>> \in t /\ p \notin group \ {keep}
                   /\ <<"source", p, x>> \in m <=> <<"source", p, x>> \in t /\ p \notin group \ {keep}
      /\ \A p \in group : \A x : /\ <<"section", p, x>> \in t => <<"section", keep, x>> \in t
                                 /\ <<"source", p, x>> \in t => <<"source", keep, x>> \in t
  BY PagesMerged
<1>2. keep \in Slug /\ Slug \ P \subseteq Slug
  BY DEF Pages
<1>3. ASSUME NEW x
      PROVE  /\ x \in Texts(m, P) <=> \E p \in P : <<"section", p, x>> \in m
             /\ x \in Texts(t, P) <=> \E p \in P : <<"section", p, x>> \in t
             /\ x \in Texts(t, Slug \ P) <=> \E p \in Slug \ P : <<"section", p, x>> \in t
             /\ x \in SourcesOf(m, P) <=> \E p \in P : <<"source", p, x>> \in m
             /\ x \in SourcesOf(t, P) <=> \E p \in P : <<"source", p, x>> \in t
             /\ x \in SourcesOf(t, Slug \ P) <=> \E p \in Slug \ P : <<"source", p, x>> \in t
  BY <1>1, <1>2, Reading
<1>4. ASSUME NEW x \in Texts(t, P)
      PROVE  x \in Texts(m, P) \cup (IF keep \in P THEN {} ELSE Texts(t, Slug \ P))
  <2>1. PICK p \in P : <<"section", p, x>> \in t
    BY <1>3
  <2>2. CASE p \notin group \ {keep}
    BY <1>1, <1>3, <2>1, <2>2
  <2>3. CASE p \in group \ {keep}
    <3>1. <<"section", keep, x>> \in t /\ <<"section", keep, x>> \in m
      BY <1>1, <2>1, <2>3
    <3> QED BY <1>2, <1>3, <3>1
  <2> QED BY <2>2, <2>3
<1>5. ASSUME NEW x \in SourcesOf(t, P)
      PROVE  x \in SourcesOf(m, P) \cup (IF keep \in P THEN {} ELSE SourcesOf(t, Slug \ P))
  <2>1. PICK p \in P : <<"source", p, x>> \in t
    BY <1>3
  <2>2. CASE p \notin group \ {keep}
    BY <1>1, <1>3, <2>1, <2>2
  <2>3. CASE p \in group \ {keep}
    <3>1. <<"source", keep, x>> \in t /\ <<"source", keep, x>> \in m
      BY <1>1, <2>1, <2>3
    <3> QED BY <1>2, <1>3, <3>1
  <2> QED BY <2>2, <2>3
<1>6. Texts(m, P) \subseteq Texts(t, P) /\ SourcesOf(m, P) \subseteq SourcesOf(t, P)
  BY <1>1, <1>3
<1> QED BY <1>4, <1>5, <1>6 DEF Keeps

\* Pages are merged under whatever row is on its way.
LEMMA ScanStep ==
  ASSUME MInv, NEW group \in SUBSET Pages(tree), NEW keep \in group, Scan(group, keep)
  PROVE  RowInv'
<1>0. /\ \A p \in group : Text(tree, p) = Text(tree, keep)
      /\ faults < MaxFaults /\ faults' = faults + 1
      /\ tree' = Merged(tree, group, keep) /\ moved' = TRUE
      /\ mixed' = (mixed \/ (step = "prepared" /\ Job.kind = "restructure"))
      /\ UNCHANGED <<head, log, queue, step, plan, lag, batches>>
  BY DEF Scan
<1>1. tree \subseteq Line /\ MaxFaults \in Nat /\ faults \in 0..MaxFaults
  BY MaintenanceAssumption DEF MInv, Shapes
<1>2. /\ tree' \subseteq Line /\ (InFiles(tree) => InFiles(tree'))
      /\ (Linked(tree) => Linked(tree')) /\ (Whole(tree) => Whole(tree'))
  BY <1>0, <1>1, PagesMerged
<1>3. /\ Current' = Current /\ Job' = Job /\ HasRow' = HasRow
      /\ InFlight(Writers)' = InFlight(Writers)
  BY <1>0, SameQueue
<1>4. ASSUME NEW P, P \subseteq Slug
      PROVE  /\ Texts(tree', P) \subseteq Texts(tree, P)
             /\ SourcesOf(tree', P) \subseteq SourcesOf(tree, P)
             /\ Texts(tree, P) \subseteq
                  Texts(tree', P) \cup (IF keep \in P THEN {} ELSE Texts(tree, Slug \ P))
             /\ SourcesOf(tree, P) \subseteq
                  SourcesOf(tree', P) \cup (IF keep \in P THEN {} ELSE SourcesOf(tree, Slug \ P))
  <2>1. group \subseteq Pages(tree)
    OBVIOUS
  <2>2. /\ \A p \in group : Text(tree, p) = Text(tree, keep)
        /\ tree' = Merged(tree, group, keep)
    BY <1>0
  <2>3. tree \subseteq Line
    BY <1>1
  <2>4. Keeps(tree, tree', P, keep)
    BY ONLY P \subseteq Slug, keep \in group, <2>1, <2>2, <2>3, MergeKeeps, Zenon
  <2> QED BY <2>4 DEF Keeps
<1>14. Texts(tree', Slug) = Texts(tree, Slug) /\ SourcesOf(tree', Slug) = SourcesOf(tree, Slug)
  <2>1. keep \in Slug /\ Slug \subseteq Slug
    BY DEF Pages
  <2> QED BY <2>1, <1>4
<1>5. ASSUME step # "idle"
      PROVE  SessionAt(step, Job, head, tree', plan, ~mixed', ~moved')
  <2>1. HasRow /\ SessionAt(step, Job, head, tree, plan, ~mixed, ~moved)
    BY <1>5 DEF MInv, InSession
  <2>2. ~moved' <=> FALSE
    BY <1>0
  <2>3. ~mixed' => ~mixed
    BY <1>0
  <2>4. CASE step = "started"
    <3>1. Job.kind \in Writers => Alike(head, tree, ~mixed)
      BY <2>1, <2>4 DEF SessionAt
    <3>2. Job.kind \in Writers => Alike(head, tree', ~mixed')
      BY <1>2, <1>14, <2>3, <3>1 DEF Alike
    <3> QED BY <2>2, <2>4, <3>2 DEF SessionAt
  <2>5. CASE step = "prepared" /\ Job.kind = "restructure"
    <3> DEFINE u == Job.unit
    <3>1. u \in Unit
      <4>1. queue \in Seq(QueueRow)
        BY DEF MInv, Shapes
      <4>2. Job \in QueueRow
        BY <2>1, <4>1, TheRow
      <4> QED BY <4>2 DEF QueueRow
    <3>2. InFiles(tree) /\ PlanOf(u, head, tree, plan)
      BY <2>1, <2>5 DEF SessionAt
    <3> HIDE DEF u
    <3>3. Touched(u) \subseteq Slug /\ Slug \ Touched(u) \subseteq Slug
          /\ Slug \ (Slug \ Touched(u)) = Touched(u)
      <4>1. u.in \subseteq Slug /\ u.out \subseteq Slug
        BY <3>1 DEF Unit
      <4> QED BY <4>1 DEF Touched
    <3>4. /\ Texts(tree', Touched(u)) \subseteq Texts(tree, Touched(u))
          /\ SourcesOf(tree', Touched(u)) \subseteq SourcesOf(tree, Touched(u))
      BY <1>4, <3>3
    <3> DEFINE R == Slug \ Touched(u)
    <3>5. /\ Texts(tree', R) \subseteq Texts(tree, R)
          /\ SourcesOf(tree', R) \subseteq SourcesOf(tree, R)
          /\ Texts(tree, R) \subseteq Texts(tree', R) \cup Texts(tree, Touched(u))
          /\ SourcesOf(tree, R) \subseteq SourcesOf(tree', R) \cup SourcesOf(tree, Touched(u))
      <4>1. R \subseteq Slug /\ Slug \ R = Touched(u)
        BY <3>3
      <4> HIDE DEF R
      <4>2. /\ Texts(tree', R) \subseteq Texts(tree, R) /\ SourcesOf(tree', R) \subseteq SourcesOf(tree, R)
            /\ Texts(tree, R) \subseteq
                 Texts(tree', R) \cup (IF keep \in R THEN {} ELSE Texts(tree, Slug \ R))
            /\ SourcesOf(tree, R) \subseteq
                 SourcesOf(tree', R) \cup (IF keep \in R THEN {} ELSE SourcesOf(tree, Slug \ R))
        BY <1>4, <4>1
      <4> QED BY <4>1, <4>2
    <3>6. PlanOf(u, head, tree', plan)
      BY <3>2, <3>4, <3>5 DEF PlanOf
    <3>7. ~mixed' <=> FALSE
      BY <1>0, <2>5
    <3> QED BY <1>2, <2>2, <2>5, <3>2, <3>6, <3>7 DEF SessionAt, u
  <2>6. CASE step = "prepared" /\ Job.kind # "restructure"
    <3>1. Job.kind = "compile" /\ InFiles(tree) /\ (~mixed => Linked(tree))
      BY <2>1, <2>6 DEF SessionAt
    <3> QED BY <1>2, <2>3, <2>6, <3>1 DEF SessionAt
  <2>7. CASE step = "written"
    <3>1. /\ Job.kind \in Writers /\ InFiles(tree) /\ (~mixed => Whole(tree))
          /\ Job.kind = "restructure" => WrittenBy(Job.unit, head, tree, ~moved)
      BY <2>1, <2>7 DEF SessionAt
    <3>2. Job.kind = "restructure" => WrittenBy(Job.unit, head, tree', ~moved')
      BY <1>14, <2>2, <3>1 DEF WrittenBy
    <3> QED BY <1>2, <2>2, <2>3, <2>7, <3>1, <3>2 DEF SessionAt
  <2>8. CASE step = "committed"
    BY <2>1, <2>8 DEF SessionAt
  <2> QED BY <1>5, <2>4, <2>5, <2>6, <2>7, <2>8 DEF MInv, Shapes
<1>6. InSession'
  <2>1. step # "idle" => HasRow
    BY DEF MInv, InSession
  <2>2. step' = step /\ head' = head /\ plan' = plan
    BY <1>0
  <2> QED BY <1>3, <1>5, <2>1, <2>2 DEF InSession
<1>7. OneSubmission' /\ BatchesContiguous'
  BY <1>0 DEF MInv, OneSubmission, BatchesContiguous
<1>8. LogInOrder'
  BY <1>0, <1>3 DEF MInv, LogInOrder
<1>9. WikiWhole'
  BY <1>0 DEF MInv, WikiWhole
<1>10. UnitsStand'
  BY <1>0 DEF UnitsStand
<1>11. /\ faults' \in 0..MaxFaults /\ moved' \in BOOLEAN /\ mixed' \in BOOLEAN
  BY <1>0, <1>1
<1> QED BY <1>0, <1>2, <1>6, <1>7, <1>8, <1>9, <1>10, <1>11 DEF RowInv, MInv, Shapes

-----------------------------------------------------------------------------
(* Every step keeps the invariant                                          *)

\* The ledger is not touched.
LEMMA LedgerStays == ASSUME Ledger, UNCHANGED <<proposals, sent>> PROVE Ledger'
BY DEF Ledger, OnePending, DecidedOnce

\* Units of a proposal are queued, and the proposal is decided with them.
LEMMA SubmitProposalStep ==
  ASSUME MInv, NEW i \in 1..Len(proposals), NEW units \in Picks(proposals[i].units),
         SubmitProposal(i, units)
  PROVE  MInv'
<1>1. /\ Undecided(i) /\ Queue(units)
      /\ proposals' = [proposals EXCEPT ![i] = Decided("submitted")]
      /\ sent' = [sent EXCEPT ![i] = @ + 1]
      /\ UNCHANGED <<head, tree, log, step, plan, lag, mixed, faults>>
  BY DEF SubmitProposal
<1>2. units \in Seq(Unit)
  <2>1. proposals[i] \in Proposal
    BY DEF MInv, Shapes
  <2>2. proposals[i].units \in Seq(Unit)
    BY <2>1 DEF Proposal
  <2> QED BY <2>2, ListsOfUnits
<1>3. /\ queue' \in Seq(QueueRow) /\ batches' \in 0..MaxBatches /\ moved' \in BOOLEAN
      /\ OneSubmission' /\ LogInOrder' /\ BatchesContiguous'
      /\ WikiWhole' /\ InSession' /\ UnitsStand'
  BY <1>1, <1>2, QueueStep
<1>4. RowInv'
  BY <1>1, <1>3 DEF RowInv, MInv, Shapes
<1>5. Ledger'
  BY <1>1, OneDecided, PartsOfMInv
<1> QED BY <1>4, <1>5, PartsOfMInv

\* Units of an analysis of its own, or links, are queued.
LEMMA OtherSubmissions ==
  ASSUME MInv, \/ \E answer \in Answers : SubmitUnits(answer)
               \/ \E P \in Targets : SubmitLinks(P)
               \/ SubmitSync \/ SubmitPreview
  PROVE  MInv'
<1>1. CASE \E answer \in Answers : SubmitUnits(answer)
  <2>1. PICK answer \in Answers : SubmitUnits(answer)
    BY <1>1
  <2>2. PICK units \in Analyses(answer, Pages(tree)) : Queue(units)
    BY <2>1 DEF SubmitUnits
  <2>3. units \in Seq(Unit)
    BY <2>2, ListsOfUnits, MaintenanceAssumption
  <2>4. UNCHANGED <<head, tree, log, step, plan, proposals, sent, lag, mixed, faults>>
    BY <2>1 DEF SubmitUnits
  <2>5. /\ queue' \in Seq(QueueRow) /\ batches' \in 0..MaxBatches /\ moved' \in BOOLEAN
        /\ OneSubmission' /\ LogInOrder' /\ BatchesContiguous'
        /\ WikiWhole' /\ InSession' /\ UnitsStand'
    BY <2>2, <2>3, <2>4, QueueStep
  <2>6. RowInv'
    BY <2>4, <2>5 DEF RowInv, MInv, Shapes
  <2> QED BY <2>4, <2>6, LedgerStays, PartsOfMInv
<1>2. CASE \E P \in Targets : SubmitLinks(P)
  <2>1. PICK P \in Targets : SubmitLinks(P)
    BY <1>2
  <2>2. /\ P \in SUBSET Slug /\ GateOpen /\ NewBatch
        /\ queue' = queue \o SetToSeq({LinkRow(p, batches') : p \in P})
        /\ UNCHANGED <<head, tree, log, step, plan, proposals, sent, lag, mixed, faults>>
    BY <2>1, MaintenanceAssumption DEF SubmitLinks
  <2>3. /\ queue' \in Seq(QueueRow) /\ batches' \in 0..MaxBatches /\ moved' \in BOOLEAN
        /\ OneSubmission' /\ LogInOrder' /\ BatchesContiguous'
        /\ WikiWhole' /\ InSession' /\ UnitsStand'
    BY <2>2, LinksStep
  <2>4. RowInv'
    BY <2>2, <2>3 DEF RowInv, MInv, Shapes
  <2> QED BY <2>2, <2>4, LedgerStays, PartsOfMInv
<1>3. CASE SubmitSync
  <2>1. UNCHANGED <<head, tree, log, step, plan, proposals, sent, lag, mixed, faults>>
    BY <1>3 DEF SubmitSync
  <2>2. /\ queue' \in Seq(QueueRow) /\ batches' \in 0..MaxBatches /\ moved' \in BOOLEAN
        /\ OneSubmission' /\ LogInOrder' /\ BatchesContiguous'
        /\ WikiWhole' /\ InSession' /\ UnitsStand'
    BY <1>3, CompileStep
  <2>3. RowInv'
    BY <2>1, <2>2 DEF RowInv, MInv, Shapes
  <2> QED BY <2>1, <2>3, LedgerStays, PartsOfMInv
<1>4. CASE SubmitPreview
  <2>1. UNCHANGED <<head, tree, log, step, plan, proposals, sent, lag, mixed, moved, batches, faults>>
    BY <1>4 DEF SubmitPreview
  <2>2. /\ queue' \in Seq(QueueRow)
        /\ OneSubmission' /\ LogInOrder' /\ BatchesContiguous'
        /\ WikiWhole' /\ InSession' /\ UnitsStand'
    BY <1>4, PreviewStep
  <2>3. RowInv'
    BY <2>1, <2>2 DEF RowInv, MInv, Shapes
  <2> QED BY <2>1, <2>3, LedgerStays, PartsOfMInv
<1> QED BY <1>1, <1>2, <1>3, <1>4

\* A decision, an edit of a source, or nothing: the wiki and its rows stay.
LEMMA RowsStay ==
  ASSUME MInv, UNCHANGED <<head, tree, log, queue, step, plan, mixed, moved, batches, faults>>,
         lag' \in BOOLEAN
  PROVE  RowInv'
<1>1. /\ Current' = Current /\ Job' = Job /\ HasRow' = HasRow
      /\ InFlight(Writers)' = InFlight(Writers)
  BY SameQueue
<1>2. BatchesContiguous' /\ WikiWhole'
  BY HistoryStays DEF MInv
<1>3. InSession'
  BY <1>1, SessionStays DEF MInv
<1>4. OneSubmission'
  BY DEF MInv, OneSubmission
<1>5. LogInOrder'
  BY <1>1 DEF MInv, LogInOrder
<1>6. UnitsStand'
  BY <1>1 DEF MInv, UnitsStand
<1> QED BY <1>2, <1>3, <1>4, <1>5, <1>6 DEF RowInv, MInv, Shapes

\* Each step, and each stutter, keeps the invariant.
LEMMA NextKeepsMInv == MInv /\ [Next]_vars => MInv'
<1> SUFFICES ASSUME MInv, [Next]_vars PROVE MInv'
  OBVIOUS
<1>1. CASE \E i \in 1..Len(proposals) :
             Dismiss(i) \/ \E units \in Picks(proposals[i].units) : SubmitProposal(i, units)
  <2>1. PICK i \in 1..Len(proposals) :
             Dismiss(i) \/ \E units \in Picks(proposals[i].units) : SubmitProposal(i, units)
    BY <1>1
  <2>2. CASE Dismiss(i)
    <3>1. /\ Undecided(i) /\ proposals' = [proposals EXCEPT ![i] = Decided("dismissed")]
          /\ UNCHANGED <<head, tree, log, queue, step, plan, sent, lag, mixed, moved, batches, faults>>
      BY <2>2 DEF Dismiss
    <3>2. Ledger'
      BY <3>1, OneDecided, PartsOfMInv
    <3>3. RowInv'
      BY <3>1, RowsStay DEF MInv, Shapes
    <3> QED BY <3>2, <3>3, PartsOfMInv
  <2>3. CASE \E units \in Picks(proposals[i].units) : SubmitProposal(i, units)
    BY <2>3, SubmitProposalStep
  <2> QED BY <2>1, <2>2, <2>3
<1>2. CASE \/ \E answer \in Answers : SubmitUnits(answer)
           \/ \E P \in Targets : SubmitLinks(P)
           \/ SubmitSync \/ SubmitPreview
  BY <1>2, OtherSubmissions
<1>3. CASE \E answer \in Answers : PreviewEnds(answer)
  BY <1>3, PreviewEndsStep, PartsOfMInv
<1>4. CASE StartRow \/ PrepareUnit \/ ApplyUnit \/ WriteLinks \/ CompileIndex
  <2>1. RowInv'
    BY <1>4, StartRowStep, PrepareUnitStep, ApplyUnitStep, WriteLinksStep, CompileIndexStep
  <2>2. UNCHANGED <<proposals, sent>>
    BY <1>4 DEF StartRow, PrepareUnit, ApplyUnit, WriteLinks, CompileIndex
  <2> QED BY <2>1, <2>2, LedgerStays, PartsOfMInv
<1>5. CASE \E c \in Compiled : CompilePage(c)
  <2>1. UNCHANGED <<proposals, sent>>
    BY <1>5 DEF CompilePage
  <2> QED BY <1>5, <2>1, CompilePageStep, LedgerStays, PartsOfMInv
<1>6. CASE Commit
  <2>1. UNCHANGED <<proposals, sent>>
    BY <1>6 DEF Commit
  <2> QED BY <1>6, <2>1, CommitStep, LedgerStays, PartsOfMInv
<1>7. CASE Mismatch \/ SkipLinks \/ Finish \/ RowFails \/ PreviewFails
  <2>1. UNCHANGED <<proposals, sent>>
    BY <1>7 DEF Mismatch, SkipLinks, Finish, RowFails, PreviewFails
  <2> QED BY <1>7, <2>1, EndStep, LedgerStays, PartsOfMInv
<1>8. CASE (\E b \in 1..MaxBatches : RevertBatch(b)) \/ (\E k \in 1..MaxCommits : RevertCommit(k))
  <2>1. PICK K : K \subseteq 1..Len(log) /\ Revert(K)
    <3>1. ASSUME NEW b \in 1..MaxBatches, RevertBatch(b)
          PROVE  \E K : K \subseteq 1..Len(log) /\ Revert(K)
      <4>1. CommitsOf(b) \subseteq 1..Len(log) /\ Revert(CommitsOf(b))
        BY <3>1 DEF RevertBatch, CommitsOf
      <4> QED BY <4>1
    <3>2. ASSUME NEW k \in 1..MaxCommits, RevertCommit(k)
          PROVE  \E K : K \subseteq 1..Len(log) /\ Revert(K)
      <4>1. Len(log) \in Nat /\ k <= Len(log) /\ Revert({k})
        BY <3>2 DEF RevertCommit, MInv, Shapes
      <4>2. {k} \subseteq 1..Len(log)
        BY <4>1
      <4> QED BY <4>1, <4>2
    <3> QED BY <1>8, <3>1, <3>2
  <2>2. UNCHANGED <<proposals, sent>>
    BY <2>1 DEF Revert
  <2> QED BY <2>1, <2>2, RevertStep, LedgerStays, PartsOfMInv
<1>9. CASE Crash \/ Recover
  <2>1. UNCHANGED <<proposals, sent>>
    BY <1>9 DEF Crash, Recover
  <2> QED BY <1>9, <2>1, CrashStep, RecoverStep, LedgerStays, PartsOfMInv
<1>scan. CASE \E group \in SUBSET Pages(tree) : \E keep \in group : Scan(group, keep)
  <2>1. UNCHANGED <<proposals, sent>>
    BY <1>scan DEF Scan
  <2> QED BY <1>scan, <2>1, ScanStep, LedgerStays, PartsOfMInv
<1>10. CASE EditSource
  <2>1. /\ lag' = TRUE
        /\ UNCHANGED <<head, tree, log, queue, step, plan, proposals, sent, mixed, moved, batches, faults>>
    BY <1>10 DEF EditSource
  <2> QED BY <2>1, RowsStay, LedgerStays, PartsOfMInv
<1>11. CASE UNCHANGED vars
  <2>1. UNCHANGED <<head, tree, log, queue, step, plan, proposals, sent, lag, mixed, moved, batches, faults>>
    BY <1>11 DEF vars
  <2>2. lag' \in BOOLEAN
    BY <2>1 DEF MInv, Shapes
  <2> QED BY <2>1, <2>2, RowsStay, LedgerStays, PartsOfMInv
<1> QED BY <1>1, <1>2, <1>3, <1>4, <1>5, <1>6, <1>7, <1>8, <1>9, <1>scan, <1>10, <1>11 DEF Next

\* The invariant holds in every reachable state.
LEMMA MInvHolds == Spec => []MInv
BY InitEstablishesMInv, NextKeepsMInv, PTL DEF Spec

-----------------------------------------------------------------------------
(* What it says                                                            *)

\* Wiki, log, rows and ledger have their shapes, and one proposal is pending at
\* most.
THEOREM MaintenanceTypeCorrect == Spec => []MTypeOK
<1>1. ASSUME MInv PROVE MTypeOK
  <2>1. Shapes /\ OnePending
    BY <1>1 DEF MInv
  <2>2. \A k \in 1..Len(log) : log[k].before \subseteq Line
    <3>1. ASSUME NEW k \in 1..Len(log) PROVE log[k].before \subseteq Line
      <4>1. log[k] \in CommitRecord
        BY <2>1 DEF Shapes
      <4> QED BY <4>1 DEF CommitRecord
    <3> QED BY <3>1
  <2>3. \A i \in 1..Len(queue) :
          queue[i].kind \in Writers \cup {"preview"} /\ queue[i].batch \in 0..MaxBatches
    <3>1. ASSUME NEW i \in 1..Len(queue)
          PROVE  queue[i].kind \in Writers \cup {"preview"} /\ queue[i].batch \in 0..MaxBatches
      <4>1. queue[i] \in QueueRow
        BY <2>1 DEF Shapes
      <4> QED BY <4>1 DEF QueueRow
    <3> QED BY <3>1
  <2> QED BY <2>1, <2>2, <2>3 DEF MTypeOK, Shapes, OnePending
<1> QED BY <1>1, MInvHolds, PTL

\* No unit, link row, compile, failure, death or revert of the last batch leaves a
\* link in HEAD that leads nowhere, a line without its page or an index.md that
\* does not list the pages.
THEOREM WikiStaysWhole == Spec => []RefsWhole
<1>1. MInv => RefsWhole
  BY DEF MInv, WikiWhole, RefsWhole
<1> QED BY <1>1, MInvHolds, PTL

\* The units accepted together keep out of each other's way: a row finds its pages
\* unless it had committed before the process died, or a /scan changed the tree.
THEOREM UnitsFindTheirPages == Spec => []UnitsFindPages
<1>1. ASSUME MInv PROVE UnitsFindPages
  <2>1. SUFFICES ASSUME Running("started"), Job.kind = "restructure",
                        ~ValidUnit(Job.unit, Pages(tree))
                 PROVE  Job.redo \/ moved
    BY DEF UnitsFindPages
  <2>2. /\ step = "started" /\ Current \in 1..Len(queue) /\ Job = queue[Current]
        /\ SessionAt("started", Job, head, tree, plan, ~mixed, ~moved)
    BY <1>1, <2>1, AtStep
  <2>3. ~moved => Pages(tree) = Pages(head)
    BY <2>1, <2>2 DEF SessionAt, Writers
  <2> QED BY <1>1, <2>1, <2>2, <2>3 DEF MInv, UnitsStand
<1> QED BY <1>1, MInvHolds, PTL

\* The units of a proposal are queued once at most, and exactly when it ends as
\* submitted.
THEOREM DecidedOnlyOnce == Spec => []DecidedOnce
<1>1. MInv => DecidedOnce
  BY DEF MInv
<1> QED BY <1>1, MInvHolds, PTL

\* Between two commits of a batch there is none of another batch and no revert.
THEOREM BatchesStayTogether == Spec => []BatchesContiguous
<1>1. MInv => BatchesContiguous
  BY DEF MInv
<1> QED BY <1>1, MInvHolds, PTL

\* The commit of a unit that is no deletion keeps all sections and sources.
THEOREM NothingGetsLost == Spec => NothingLost
<1> DEFINE Preserved ==
      Commit /\ Job.kind = "restructure" /\ Job.unit.out # {} =>
        /\ {l[3] : l \in SectionsOf(head, Slug)} = {l[3] : l \in SectionsOf(head', Slug)}
        /\ SourcesOf(head, Slug) = SourcesOf(head', Slug)
<1>1. ASSUME MInv PROVE Preserved
  <2>1. SUFFICES ASSUME Commit, Job.kind = "restructure", Job.unit.out # {}
                 PROVE  /\ {l[3] : l \in SectionsOf(head, Slug)} = {l[3] : l \in SectionsOf(head', Slug)}
                        /\ SourcesOf(head, Slug) = SourcesOf(head', Slug)
    OBVIOUS
  <2>2. SessionAt("written", Job, head, tree, plan, ~mixed, ~moved) /\ head' = tree
    BY <1>1, <2>1, AtStep DEF Commit
  <2>3. WrittenBy(Job.unit, head, tree, ~moved)
    BY <2>1, <2>2 DEF SessionAt
  <2>4. Texts(tree, Slug) = Texts(head, Slug) /\ SourcesOf(tree, Slug) = SourcesOf(head, Slug)
    BY <2>1, <2>3 DEF WrittenBy
  <2> QED BY <2>2, <2>4 DEF Texts
<1>2. MInv => [Preserved]_vars
  BY <1>1
<1> QED BY <1>2, MInvHolds, PTL DEF NothingLost
==============================================================================
