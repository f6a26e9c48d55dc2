--------------------------- MODULE WikiMaintenance ----------------------------
(***************************************************************************)
(* The maintenance line: an analysis proposes units that merge, split,     *)
(* rewrite or delete pages, the user accepts some of them, and the worker  *)
(* applies them one by one, followed by a link row for every page they     *)
(* touched.  Sync rows write the same wiki, reverts take commits back.     *)
(*                                                                         *)
(* A wiki is a set of lines: a page, a section on it, a source it names, a *)
(* link it has, its entry in index.md.  What the language model writes is  *)
(* input; what the code does with it is the model.  One process holds the  *)
(* execution lock and may die; requests are served while the worker waits  *)
(* for the language model.  The /scan command of a terminal merges         *)
(* duplicate pages in the working tree at any time and commits nothing:    *)
(* the next row that writes starts by taking the merge back.               *)
(***************************************************************************)
EXTENDS Integers, Sequences, FiniteSets, SequencesExt

CONSTANTS
  Slug, Section, Source,  \* page names, section contents, source files
  Answers,                \* the sequences of units an analysis may suggest
  Compiled,               \* what a compile may add: a page, a section on it, its source
  Targets,                \* sets of pages a user may ask links for
  Start,                  \* lines of the wiki at the start
  MaxProposals, MaxCommits, MaxBatches, MaxFaults   \* bounds

Unit == [in : SUBSET Slug, out : SUBSET Slug]

ASSUME MaintenanceAssumption ==
  /\ IsFiniteSet(Slug)
  /\ MaxProposals \in Nat /\ MaxCommits \in Nat /\ MaxBatches \in Nat /\ MaxFaults \in Nat
  /\ Answers \subseteq Seq(Unit)
  /\ Compiled \subseteq Slug \X Section \X Source
  /\ Targets \subseteq SUBSET Slug

Line ==
  ({"page", "index"} \X Slug) \cup ({"section"} \X Slug \X Section)
  \cup ({"source"} \X Slug \X Source) \cup ({"link"} \X Slug \X Slug)

Pages(w) == {p \in Slug : <<"page", p>> \in w}
SectionsOf(w, P) == {l \in w : l[1] = "section" /\ l[2] \in P}
SourcesOf(w, P) == {l[3] : l \in {m \in w : m[1] = "source" /\ m[2] \in P}}
Vanished(u) == u.in \ u.out
Touched(u) == u.in \cup u.out

\* every line but those of index.md is in the file of a page
InFiles(w) == \A l \in w : l[1] # "index" => l[2] \in Pages(w)

\* every link leads to a page, every line belongs to a page, and index.md lists
\* exactly the pages
Whole(w) ==
  /\ \A l \in w : l[2] \in Pages(w) /\ (l[1] = "link" => l[3] \in Pages(w))
  /\ \A p \in Pages(w) : <<"index", p>> \in w

ASSUME StartAssumption == Start \subseteq Line /\ Whole(Start)

VARIABLES
  head, tree,  \* wiki HEAD and working tree
  log,         \* the commits, oldest first: the batch, HEAD before it
  queue,       \* rows in flight, in queue order
  step,        \* how far the row being executed is
  plan,        \* the pages the row will write, made from the tree when it was read
  proposals,   \* the proposal ledger
  sent,        \* history: how often the units of each proposal were queued
  lag,         \* a source differs from its record
  moved,       \* history: a /scan changed the tree since the units in flight were
               \* checked, or had changed it when they were
  mixed,       \* history: commits were reverted from under later ones, or a /scan
               \* merged pages between the reading and the writing of a unit
  batches, faults

vars == <<head, tree, log, queue, step, plan, proposals, sent, lag, mixed, moved, batches, faults>>

NoPlan == {}
NoUnit == [in |-> {}, out |-> {}]
Row(k, u, b) == [kind |-> k, unit |-> u, batch |-> b, redo |-> FALSE, stale |-> FALSE]
UnitRow(u, b) == Row("restructure", u, b)
LinkRow(p, b) == Row("link", [in |-> {p}, out |-> {p}], b)
OtherRow(k, b) == Row(k, NoUnit, b)

-----------------------------------------------------------------------------
(* Units                                                                   *)

\* validate_unit: the inputs exist, and no page is overwritten that is no input
ValidUnit(u, existing) ==
  /\ u.in # {}
  /\ u.in \subseteq existing
  /\ u.out \cap existing \subseteq u.in

\* the lists that are left when some of n units are dropped, as places in order
Selections(n) ==
  {f \in UNION {[1..m -> 1..n] : m \in 0..n} :
     \A i, j \in DOMAIN f : i < j => f[i] < f[j]}
Selected(units, f) == [i \in DOMAIN f |-> units[f[i]]]
Picks(units) == {Selected(units, f) : f \in Selections(Len(units))}

\* resolve_unit_conflicts reads the units in order: a page belongs to the first
\* one that names it and is kept
FitsAlone(u, kept, existing) == ValidUnit(u, existing)
Fits(u, kept, existing) ==
  ValidUnit(u, existing) /\ \A v \in kept : Touched(u) \cap Touched(v) = {}
Resolve(units, existing) ==
  {Selected(units, f) : f \in
     {g \in Selections(Len(units)) : \A k \in 1..Len(units) :
        k \in Range(g) <=>
          Fits(units[k], {units[j] : j \in {i \in Range(g) : i < k}}, existing)}}

\* assert_units_valid: nothing would be dropped
AllValid(units, existing) ==
  \A k \in 1..Len(units) : Fits(units[k], {units[j] : j \in 1..k-1}, existing)

\* the steps of an analysis: units that name unknown pages are dropped, a second
\* look at each unit may drop it, conflicts are resolved
Proposed(u, existing) == u.in \subseteq existing
Rechecked(units, existing) ==
  {kept \in Picks(units) : \A i \in DOMAIN kept : Proposed(kept[i], existing)}
Analyses(units, existing) ==
  UNION {Resolve(kept, existing) : kept \in Rechecked(units, existing)}

\* plan_restructure: the tail links all output pages and the pages that link to
\* a page that vanishes
LinkTargets(units, w) ==
  (UNION {units[i].out : i \in 1..Len(units)})
  \cup {p \in Pages(w) : \E i \in 1..Len(units) :
          p \notin Vanished(units[i]) /\ \E q \in Vanished(units[i]) : <<"link", p, q>> \in w}

-----------------------------------------------------------------------------
(* The gate and the submissions                                            *)

Writers == {"restructure", "link", "compile"}
InFlight(kinds) == \E i \in 1..Len(queue) : queue[i].kind \in kinds
GateForUnits == ~InFlight({"restructure"})
GateOpen == ~InFlight(Writers)

\* _submit_unless_blocked: the rows that are queued were checked on the tree as it is
NewBatch ==
  /\ batches < MaxBatches
  /\ batches' = batches + 1
  /\ moved' = (tree # head)

\* scan_disk: the user edited a source
EditSource ==
  /\ ~lag /\ batches < MaxBatches
  /\ lag' = TRUE
  /\ UNCHANGED <<head, tree, log, queue, step, plan, proposals, sent, mixed, moved, batches, faults>>

SubmitSync ==
  /\ lag /\ GateOpen /\ NewBatch
  /\ queue' = Append(queue, OtherRow("compile", batches'))
  /\ UNCHANGED <<head, tree, log, step, plan, proposals, sent, lag, mixed, faults>>

SubmitPreview ==
  /\ GateOpen /\ ~lag /\ ~InFlight({"preview"}) /\ Len(proposals) < MaxProposals
  /\ queue' = Append(queue, OtherRow("preview", 0))
  /\ UNCHANGED <<head, tree, log, step, plan, proposals, sent, lag, mixed, moved, batches, faults>>

\* submit_restructure: the units are checked against the wiki on disk, and
\* queued with the tail in one transaction; with a proposal they must be among
\* its units and the proposal becomes submitted
BatchRows(units) ==
  [i \in 1..Len(units) |-> UnitRow(units[i], batches')]
  \o SetToSeq({LinkRow(p, batches') : p \in LinkTargets(units, tree)})
Queue(units) ==
  /\ units # <<>> /\ AllValid(units, Pages(tree))
  /\ GateOpen /\ ~lag /\ NewBatch
  /\ queue' = queue \o BatchRows(units)

AnyState(i) == i \in 1..Len(proposals)
Undecided(i) == proposals[i].resolution = "pending"

\* nobody reads the units of a decided proposal again, the model forgets them
Decided(r) == [units |-> <<>>, resolution |-> r]
SubmitProposal(i, units) ==
  /\ Undecided(i)
  /\ Queue(units)
  /\ proposals' = [proposals EXCEPT ![i] = Decided("submitted")]
  /\ sent' = [sent EXCEPT ![i] = @ + 1]
  /\ UNCHANGED <<head, tree, log, step, plan, lag, mixed, faults>>

\* /maintain and the script: their own analysis, no entry in the ledger; what is
\* left valid of an analysis of an older wiki is among those of this one
SubmitUnits(answer) ==
  /\ \E units \in Analyses(answer, Pages(tree)) : Queue(units)
  /\ UNCHANGED <<head, tree, log, step, plan, proposals, sent, lag, mixed, faults>>

SubmitLinks(P) ==
  /\ P # {} /\ P \subseteq Pages(tree)
  /\ GateOpen /\ ~lag /\ NewBatch
  /\ queue' = queue \o SetToSeq({LinkRow(p, batches') : p \in P})
  /\ UNCHANGED <<head, tree, log, step, plan, proposals, sent, lag, mixed, faults>>

Dismiss(i) ==
  /\ Undecided(i)
  /\ proposals' = [proposals EXCEPT ![i] = Decided("dismissed")]
  /\ UNCHANGED <<head, tree, log, queue, step, plan, sent, lag, mixed, moved, batches, faults>>

-----------------------------------------------------------------------------
(* The worker                                                              *)

\* the row being executed is the first one that is not left over from a crash
Claimable(i) == ~queue[i].stale /\ \A j \in 1..i-1 : queue[j].stale
Current == CHOOSE i \in 1..Len(queue) : Claimable(i)
Job == queue[Current]
Running(s) == step = s /\ \E i \in 1..Len(queue) : Claimable(i)
Without(i) == SubSeq(queue, 1, i-1) \o SubSeq(queue, i+1, Len(queue))
Ends == queue' = Without(Current) /\ step' = "idle" /\ plan' = NoPlan

\* WikiWriteSession.open: whatever an earlier row left is taken back
StartRow ==
  /\ Running("idle")
  /\ step' = "started"
  /\ tree' = IF Job.kind \in Writers THEN head ELSE tree
  /\ UNCHANGED <<head, log, queue, plan, proposals, sent, lag, mixed, moved, batches, faults>>

\* prepare_unit and the rewriting: every section of the inputs goes to one
\* output and no output stays empty; the outputs name the sources of all inputs
OwnSources(u, p) == SourcesOf(tree, {p} \cap u.in)
SourcesFor(u, p) == SourcesOf(tree, u.in)
Rewritten(u, assign, links) ==
  {<<"page", p>> : p \in u.out}
  \cup {<<"section", assign[l], l[3]>> : l \in DOMAIN assign}
  \cup (UNION {{<<"source", p, s>> : s \in SourcesFor(u, p)} : p \in u.out})
  \cup links
PrepareUnit ==
  /\ Running("started") /\ Job.kind = "restructure"
  /\ LET u == Job.unit
         final == (Pages(tree) \ Vanished(u)) \cup u.out
         sections == SectionsOf(tree, u.in)
         linked == {l[3] : l \in {m \in tree : m[1] = "link" /\ m[2] \in u.in}} \cap final
     IN /\ ValidUnit(u, Pages(tree))
        /\ \E assign \in [IF u.out = {} THEN {} ELSE sections -> u.out], keep \in BOOLEAN :
             /\ \A p \in u.out : \E l \in DOMAIN assign : assign[l] = p
             /\ plan' = Rewritten(u, assign,
                          IF keep THEN {<<"link", p, q>> : p \in u.out, q \in linked} ELSE {})
  /\ step' = "prepared"
  /\ UNCHANGED <<head, tree, log, queue, proposals, sent, lag, mixed, moved, batches, faults>>

\* apply_unit: outputs written, vanished pages deleted, links to them taken out
\* of the whole wiki, index.md brought up to date
LinksKept(w, gone) == w
Cleaned(w, gone) == {l \in w : ~(l[1] = "link" /\ l[3] \in gone)}
ApplyUnit ==
  /\ Running("prepared") /\ Job.kind = "restructure"
  /\ LET u == Job.unit
         others == {l \in tree : l[1] = "index" \/ l[2] \notin Touched(u)}
     IN tree' = (Cleaned(others \cup plan, Vanished(u)) \ {<<"index", p>> : p \in Vanished(u)})
                \cup {<<"index", p>> : p \in u.out \ u.in}
  /\ step' = "written"
  /\ UNCHANGED <<head, log, queue, plan, proposals, sent, lag, mixed, moved, batches, faults>>

\* the declared pages are not there (any more): the row ends, the wiki stays
Mismatch ==
  /\ Running("started") /\ Job.kind = "restructure"
  /\ ~ValidUnit(Job.unit, Pages(tree))
  /\ tree' = head
  /\ Ends
  /\ UNCHANGED <<head, log, proposals, sent, lag, mixed, moved, batches, faults>>

\* handle_link: one link is added or removed, checked against the pages of now
WriteLinks ==
  /\ Running("started") /\ Job.kind = "link"
  /\ \E p \in Job.unit.in \cap Pages(tree) : \E q \in Pages(tree) \ {p} :
       LET l == <<"link", p, q>>
       IN tree' = IF l \in tree THEN tree \ {l} ELSE tree \cup {l}
  /\ step' = "written"
  /\ UNCHANGED <<head, log, queue, plan, proposals, sent, lag, mixed, moved, batches, faults>>

\* the page is gone or there is nothing to change
SkipLinks ==
  /\ Running("started") /\ Job.kind = "link"
  /\ tree' = head
  /\ Ends
  /\ UNCHANGED <<head, log, proposals, sent, lag, mixed, moved, batches, faults>>

\* a compile writes page, section and source, and the index entry last
CompilePage(c) ==
  /\ Running("started") /\ Job.kind = "compile"
  /\ tree' = tree \cup {<<"page", c[1]>>, <<"section", c[1], c[2]>>, <<"source", c[1], c[3]>>}
  /\ step' = "prepared"
  /\ UNCHANGED <<head, log, queue, plan, proposals, sent, lag, mixed, moved, batches, faults>>
CompileIndex ==
  /\ Running("prepared") /\ Job.kind = "compile"
  /\ tree' = tree \cup {<<"index", p>> : p \in Pages(tree)}
  /\ step' = "written"
  /\ UNCHANGED <<head, log, queue, plan, proposals, sent, lag, mixed, moved, batches, faults>>

\* commit_all: one commit of everything, none when nothing changed
Commit ==
  /\ Running("written") /\ Len(log) < MaxCommits
  /\ log' = IF tree = head THEN log ELSE Append(log, [batch |-> Job.batch, before |-> head])
  /\ head' = tree
  /\ step' = "committed"
  /\ UNCHANGED <<tree, queue, plan, proposals, sent, lag, mixed, moved, batches, faults>>

\* the row ends after its commit; a compiled source is recorded
Finish ==
  /\ Running("committed")
  /\ lag' = (lag /\ Job.kind # "compile")
  /\ Ends
  /\ UNCHANGED <<head, tree, log, proposals, sent, mixed, moved, batches, faults>>

\* the model's answer does not pass, or the scan finds errors: the session takes
\* everything back; a failed compile leaves an issue and no longer holds the gate
RowFails ==
  /\ \E s \in {"started", "prepared", "written"} : Running(s)
  /\ Job.kind \in Writers
  /\ tree' = head
  /\ lag' = (lag /\ Job.kind # "compile")
  /\ Ends
  /\ UNCHANGED <<head, log, proposals, sent, mixed, moved, batches, faults>>

\* the analysis ends: what is pending is superseded in the transaction that
\* ends the row
Kept(ps) == ps
Superseded(ps) ==
  [i \in 1..Len(ps) |-> IF ps[i].resolution = "pending" THEN Decided("superseded") ELSE ps[i]]
PreviewEnds(answer) ==
  /\ Running("started") /\ Job.kind = "preview" /\ Len(proposals) < MaxProposals
  /\ \E units \in Analyses(answer, Pages(tree)) :
       proposals' = Append(Superseded(proposals), [units |-> units, resolution |-> "pending"])
  /\ sent' = Append(sent, 0)
  /\ Ends
  /\ UNCHANGED <<head, tree, log, lag, mixed, moved, batches, faults>>

PreviewFails ==
  /\ Running("started") /\ Job.kind = "preview"
  /\ Ends
  /\ UNCHANGED <<head, tree, log, proposals, sent, lag, mixed, moved, batches, faults>>

-----------------------------------------------------------------------------
(* The /scan command                                                       *)

\* what two pages share that are the same file byte by byte
Text(w, p) == {<<l[1], l[3]>> : l \in {m \in w : m[1] \in {"section", "source", "link"} /\ m[2] = p}}

\* cleanup_exact_duplicates: one page of the group stays, entries and links of the
\* others lead to it
Led(p, group, keep) == IF p \in group THEN keep ELSE p
Merged(w, group, keep) ==
  {l \in w : l[1] \notin {"index", "link"} /\ l[2] \notin group \ {keep}}
  \cup {<<"index", Led(l[2], group, keep)>> : l \in {m \in w : m[1] = "index"}}
  \cup {<<"link", l[2], Led(l[3], group, keep)>> :
          l \in {m \in w : m[1] = "link" /\ m[2] \notin group \ {keep}}}

\* Nothing is committed, and nobody asks whether a row is being executed.  (Bound:
\* one group at a time.)
Scan(group, keep) ==
  /\ faults < MaxFaults
  /\ Cardinality(group) > 1 /\ \A p \in group : Text(tree, p) = Text(tree, keep)
  /\ faults' = faults + 1
  /\ tree' = Merged(tree, group, keep)
  /\ moved' = TRUE
  /\ mixed' = (mixed \/ (step = "prepared" /\ Job.kind = "restructure"))
  /\ UNCHANGED <<head, log, queue, step, plan, proposals, sent, lag, batches>>

-----------------------------------------------------------------------------
(* Reverts, deaths                                                         *)

\* git revert -n: the changes of the commits are taken out, newest first, so that a
\* line is as it was before the oldest of them that changed it
After(k) == IF k = Len(log) THEN head ELSE log[k+1].before
Changed(k) == (After(k) \ log[k].before) \cup (log[k].before \ After(k))
CommitsOf(b) == {k \in 1..Len(log) : log[k].batch = b}
Reverted(K) ==
  {l \in Line :
     \/ l \in head /\ \A k \in K : l \notin Changed(k)
     \/ \E k \in K : /\ l \in Changed(k) /\ l \in log[k].before
                    /\ \A j \in K : j < k => l \notin Changed(j)}
LastOnes(K) == \A k \in 1..Len(log) : (\E j \in K : j <= k) => k \in K

\* /wiki revert-batch: refused while a row that writes the wiki is in flight; git
\* may refuse when a file was changed since, and does when lines would go into a
\* file that was deleted since
Revert(K) ==
  /\ GateOpen /\ Len(log) < MaxCommits
  /\ K # {} /\ Reverted(K) # head /\ InFiles(Reverted(K))
  /\ head' = Reverted(K)
  /\ tree' = head'
  /\ log' = Append(log, [batch |-> 0, before |-> head])
  /\ mixed' = (mixed \/ ~LastOnes(K))
  /\ UNCHANGED <<queue, step, plan, proposals, sent, lag, moved, batches, faults>>
RevertBatch(b) == Revert(CommitsOf(b))
RevertCommit(k) == k <= Len(log) /\ Revert({k})

\* the process dies; its row stays running until a recovery puts it back
Crash ==
  /\ step # "idle" /\ faults < MaxFaults
  /\ faults' = faults + 1
  /\ queue' = [queue EXCEPT ![Current] =
                 [kind |-> Job.kind, unit |-> Job.unit, batch |-> Job.batch,
                  redo |-> Job.redo \/ step = "committed", stale |-> TRUE]]
  /\ step' = "idle" /\ plan' = NoPlan
  /\ UNCHANGED <<head, tree, log, proposals, sent, lag, mixed, moved, batches>>

Recover ==
  /\ step = "idle" /\ \E i \in 1..Len(queue) : queue[i].stale
  /\ queue' = [i \in 1..Len(queue) |-> [queue[i] EXCEPT !.stale = FALSE]]
  /\ UNCHANGED <<head, tree, log, step, plan, proposals, sent, lag, mixed, moved, batches, faults>>

\* _migrate_legacy_previews: results that an earlier version kept in the rows; the
\* last undecided one stays pending, those before it count as superseded
Migrated(previews) ==
  [i \in 1..Len(previews) |->
     IF previews[i] # "undecided" THEN Decided(previews[i])
     ELSE IF \E j \in i+1..Len(previews) : previews[j] = "undecided" THEN Decided("superseded")
     ELSE [units |-> <<>>, resolution |-> "pending"]]

Init ==
  /\ head = Start /\ tree = Start /\ log = <<>>
  /\ queue = <<>> /\ step = "idle" /\ plan = NoPlan
  /\ \E legacy \in {<<>>, <<"undecided", "undecided">>} :
       proposals = Migrated(legacy) /\ sent = [i \in 1..Len(legacy) |-> 0]
  /\ lag = FALSE /\ mixed = FALSE /\ moved = FALSE /\ batches = 0 /\ faults = 0

Next ==
  \/ EditSource \/ SubmitSync \/ SubmitPreview
  \/ \E i \in 1..Len(proposals) :
       Dismiss(i) \/ \E units \in Picks(proposals[i].units) : SubmitProposal(i, units)
  \/ \E answer \in Answers : SubmitUnits(answer) \/ PreviewEnds(answer)
  \/ \E P \in Targets : SubmitLinks(P)
  \/ StartRow \/ PrepareUnit \/ ApplyUnit \/ Mismatch \/ WriteLinks \/ SkipLinks
  \/ \E c \in Compiled : CompilePage(c)
  \/ CompileIndex \/ Commit \/ Finish \/ RowFails \/ PreviewFails
  \/ \E b \in 1..MaxBatches : RevertBatch(b)
  \/ \E k \in 1..MaxCommits : RevertCommit(k)
  \/ \E group \in SUBSET Pages(tree) : \E keep \in group : Scan(group, keep)
  \/ Crash \/ Recover

Spec == Init /\ [][Next]_vars

-----------------------------------------------------------------------------
(* Properties                                                              *)

\* Wiki, log, rows and ledger have the shapes the code gives them, and a
\* pending proposal is unique, as the partial index demands.
MTypeOK ==
  /\ head \subseteq Line /\ tree \subseteq Line /\ plan \subseteq Line
  /\ Len(log) <= MaxCommits /\ \A k \in 1..Len(log) : log[k].before \subseteq Line
  /\ step \in {"idle", "started", "prepared", "written", "committed"}
  /\ \A i \in 1..Len(queue) : /\ queue[i].kind \in Writers \cup {"preview"}
                              /\ queue[i].batch \in 0..MaxBatches
  /\ Len(sent) = Len(proposals)
  /\ \A i, j \in 1..Len(proposals) :
       proposals[i].resolution = "pending" /\ proposals[j].resolution = "pending" => i = j
  /\ lag \in BOOLEAN /\ mixed \in BOOLEAN /\ moved \in BOOLEAN
  /\ batches \in 0..MaxBatches /\ faults \in 0..MaxFaults

\* In HEAD every link leads to a page, every line belongs to a page, and index.md
\* lists exactly the pages: through merges, splits and deletions, rows that died
\* half way and ran again, merges by /scan, and reverts of the last batch.  (A unit
\* that was read before a /scan and written after it may bring a page back whose
\* entry the /scan has moved: apply_unit indexes only pages that are no input.)
RefsWhole == ~mixed => Whole(head)

\* The units of one submission do not get into each other's way, and no other line
\* writes between them: a row ends because its pages are not there only when it had
\* committed before and died, or when a /scan merged pages without a commit.
UnitsFindPages ==
  Running("started") /\ Job.kind = "restructure" /\ ~ValidUnit(Job.unit, Pages(tree)) =>
    Job.redo \/ moved

\* A unit that is no deletion moves sections between pages and loses none of
\* them, and no source stops being named by a page: what it wrote was made from
\* the wiki it is committed on, though a /scan may have merged pages meanwhile.
NothingLost ==
  [][Commit /\ Job.kind = "restructure" /\ Job.unit.out # {} =>
       /\ {l[3] : l \in SectionsOf(head, Slug)} = {l[3] : l \in SectionsOf(head', Slug)}
       /\ SourcesOf(head, Slug) = SourcesOf(head', Slug)]_vars

\* The units of a proposal are queued at most once, and only if it ends as
\* submitted, however analyses, decisions and submissions overlap.
DecidedOnce ==
  \A i \in 1..Len(proposals) :
    /\ sent[i] <= 1
    /\ sent[i] = 1 <=> proposals[i].resolution = "submitted"

\* The commits of a batch follow each other without a foreign commit in between,
\* also when one of its rows died and ran late: a revert of the batch takes them
\* out as one piece.
BatchesContiguous ==
  \A i, j, k \in 1..Len(log) :
    i < j /\ j < k /\ log[i].batch = log[k].batch /\ log[i].batch # 0 => log[j].batch = log[i].batch
==============================================================================
