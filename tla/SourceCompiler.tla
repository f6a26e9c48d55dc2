---------------------------- MODULE SourceCompiler ----------------------------
(***************************************************************************)
(* How one source becomes wiki pages (compiler/).  CompilePipeline takes a *)
(* source through its stages; the plan names pages to create or update,    *)
(* execute has the LLM write all of them at the same time, every page for  *)
(* itself, and the index gets a line for each page that reached the disk.  *)
(* Pages, index and links are what SyncPipeline calls the content of the   *)
(* working tree, seen from inside.                                         *)
(*                                                                         *)
(* There are two callers.  The sync handler compiles inside a write        *)
(* session: what a failed run wrote is taken back, and a last check of the *)
(* written pages stands before the commit.  The recompile command of the   *)
(* evaluations compiles straight into a directory: what a failed run wrote *)
(* stays.  Meanwhile the /scan command of a terminal may remove duplicate  *)
(* pages from the working tree between any two pages of the run.           *)
(*                                                                         *)
(* A page is its links, the related field made from them and the sources   *)
(* it names.  Pages are numbered in the order of their paths.              *)
(***************************************************************************)
EXTENDS Integers, Sequences, FiniteSets

CONSTANTS
  NumPages,   \* names of pages, in order
  Source,     \* source files
  StartWikis, \* wikis a run may find
  LinkSets,   \* what the text of an answer may link to
  MaxTargets, \* bound: pages in one plan
  MaxRuns,    \* bound: runs
  MaxFaults   \* bound: deaths of the process, /scan commands

Page == 1..NumPages

ASSUME CompilerAssumption ==
  /\ NumPages \in Nat /\ MaxTargets \in Nat /\ MaxRuns \in Nat /\ MaxFaults \in Nat
  /\ LinkSets \subseteq SUBSET Page

VARIABLES
  guarded,  \* TRUE: the sync handler; FALSE: the recompile command
  head,     \* the wiki as the last run to end left it (HEAD of its repository)
  tree,     \* the working tree
  run,      \* the run in progress
  runs, faults

vars == <<guarded, head, tree, run, runs, faults>>

\* a wiki has pages and an index, the pages index.md names (load_valid_slugs)
OnDisk(w) == DOMAIN w.pages

PageRec == [links : SUBSET Page, related : SUBSET Page, sources : SUBSET Source]

WikiOK(w) ==
  /\ OnDisk(w) \subseteq Page /\ w.index \subseteq Page
  /\ \A s \in OnDisk(w) : w.pages[s] \in PageRec

\* The wiki a run may find is empty or what a run left.
ASSUME StartAssumption ==
  \A w \in StartWikis :
    /\ w = [pages |-> [s \in OnDisk(w) |-> w.pages[s]], index |-> w.index]
    /\ WikiOK(w) /\ w.index = OnDisk(w)
    /\ \A s \in OnDisk(w) : w.pages[s].related \subseteq w.pages[s].links

Target == [slug : Page, kind : {"new", "update"}]
Plans == UNION {[1..n -> Target] : n \in 0..MaxTargets}
Planned(plan) == {plan[i].slug : i \in DOMAIN plan}
Created(plan) == {plan[i].slug : i \in {j \in DOMAIN plan : plan[j].kind = "new"}}

Stages == {"convert", "extract", "search", "analyze", "plan"}

NoRun == [stage |-> "idle", source |-> "none", plan |-> <<>>, todo |-> {},
          failed |-> {}, valid |-> {}, seen |-> <<>>]

Init ==
  /\ guarded \in BOOLEAN
  /\ head \in StartWikis /\ tree = head
  /\ run = NoRun
  /\ runs = 0 /\ faults = 0

-----------------------------------------------------------------------------
(* The stages before any page is written                                   *)

\* ingest_one; WikiWriteSession.open has taken the tree back to HEAD
Begin(src) ==
  /\ run.stage = "idle" /\ runs < MaxRuns
  /\ run' = [NoRun EXCEPT !.stage = "convert", !.source = src]
  /\ tree' = head
  /\ runs' = runs + 1
  /\ UNCHANGED <<guarded, head, faults>>

\* A stage ends with what the next one needs.
Goes(from, to) ==
  /\ run.stage = from /\ run' = [run EXCEPT !.stage = to]
  /\ UNCHANGED <<guarded, head, tree, runs, faults>>

Converted == Goes("convert", "extract")
Extracted == Goes("extract", "search")
Searched == Goes("search", "analyze")
Analyzed == Goes("analyze", "plan")

\* The run is over; the pages are w, or those of HEAD if it failed in a session
Ends(w) == run' = NoRun /\ head' = w /\ tree' = w

\* An LLM answer the checks refuse, a file without text, a summary without
\* text, a stage that raises: IngestError, before anything is written.
StageFails ==
  /\ run.stage \in Stages
  /\ Ends(IF guarded THEN head ELSE tree)
  /\ UNCHANGED <<guarded, runs, faults>>

\* The task is cancelled; the session takes back what was written.
Cancelled ==
  /\ guarded /\ run.stage = "execute"
  /\ Ends(head)
  /\ UNCHANGED <<guarded, runs, faults>>

\* mutant of Passes: the last check does not look at links
PassesAlways(w) == Planned(run.plan) \cap OnDisk(w) \subseteq OnDisk(w)

\* scan_source: the pages that were written relate to pages that exist
Passes(w) ==
  \A s \in Planned(run.plan) \cap OnDisk(w) : w.pages[s].related \subseteq OnDisk(w)

\* A run that got through: the session commits if the last check passes.  The
\* check also looks at the text of the pages and of the provenance page.
Settles(w) ==
  \/ guarded /\ Passes(w) /\ Ends(w)
  \/ guarded /\ Ends(head)
  \/ ~guarded /\ Ends(w)

\* parse_plan and Executor.execute up to the first request.  A plan without
\* pages ends the run.  The same page may be named twice, in two spellings.
\* All targets read the page they are to update before any of them writes.
PlanMade(plan) ==
  /\ run.stage = "plan"
  /\ IF plan = <<>>
     THEN Settles(tree)
     ELSE /\ run' = [run EXCEPT !.stage = "execute", !.plan = plan,
                                !.todo = DOMAIN plan,
                                !.valid = tree.index \cup Created(plan),
                                !.seen = [s \in Planned(plan) \cap OnDisk(tree)
                                            |-> tree.pages[s].sources]]
          /\ UNCHANGED <<head, tree>>
  /\ UNCHANGED <<guarded, runs, faults>>

-----------------------------------------------------------------------------
(* Writing the pages                                                       *)

\* fix_wikilinks: with no page to link to it leaves the text as it is
FixedLinks(links, valid) == IF valid = {} THEN links ELSE links \cap valid

\* mutant of Related: the links are collected before they are fixed
RelatedUnfixed(links, valid) == links

\* extract_related
Related(links, valid) == links \cap valid

\* mutant of SourcesNamed: the model's own frontmatter is kept
SourcesOfAnswer(s) == {run.source}

\* inject_metadata
SourcesNamed(s) ==
  {run.source} \cup (IF s \in DOMAIN run.seen THEN run.seen[s] ELSE {})

Put(w, s, page) ==
  [w EXCEPT !.pages = [t \in OnDisk(w) \cup {s} |->
                         IF t = s THEN page ELSE w.pages[t]]]

\* _execute_target: the answer passed its check and is on disk
TargetWritten(i, links) ==
  LET s == run.plan[i].slug IN
  /\ run.stage = "execute" /\ i \in run.todo
  /\ run' = [run EXCEPT !.todo = @ \ {i}]
  /\ tree' = Put(tree, s, [links |-> FixedLinks(links, run.valid),
                           related |-> Related(links, run.valid),
                           sources |-> SourcesNamed(s)])
  /\ UNCHANGED <<guarded, head, runs, faults>>

\* _execute_target: no good answer, a page of bad quality, a failed write
TargetFails(i) ==
  /\ run.stage = "execute" /\ i \in run.todo
  /\ run' = [run EXCEPT !.todo = @ \ {i}, !.failed = @ \cup {i}]
  /\ UNCHANGED <<guarded, head, tree, runs, faults>>

\* The links of the plan's pages to pages that were not written become text.
CleanedUp(w) ==
  LET actual == w.index \cup (Planned(run.plan) \cap OnDisk(w)) IN
  [w EXCEPT !.pages = [s \in OnDisk(w) |->
     IF s \notin Planned(run.plan) THEN w.pages[s]
     ELSE [links |-> FixedLinks(w.pages[s].links, actual),
           related |-> Related(w.pages[s].links, actual),
           sources |-> w.pages[s].sources]]]

\* _append_index: a line for every target on disk the index did not name
WithIndexLines(w) == [w EXCEPT !.index = @ \cup (Planned(run.plan) \cap OnDisk(w))]

\* All targets have ended.  Nothing awaits between here and the commit.
AllWritten ==
  /\ run.stage = "execute" /\ run.todo = {} /\ run.failed = {}
  /\ Settles(WithIndexLines(tree))
  /\ UNCHANGED <<guarded, runs, faults>>

\* mutant of PartlyDone: only a complete run is entered in the index
PartlyUnindexed(w) == CleanedUp(w)

\* what a run leaves whose pages were not all written
PartlyDone(w) == WithIndexLines(CleanedUp(w))

\* execute raises; the session takes everything back, without one the pages
\* that were written stay
SomeFailed ==
  /\ run.stage = "execute" /\ run.todo = {} /\ run.failed # {}
  /\ Ends(IF guarded THEN head ELSE PartlyDone(tree))
  /\ UNCHANGED <<guarded, runs, faults>>

-----------------------------------------------------------------------------
(* Around the run                                                          *)

\* The process dies; what it wrote stays in the tree until the next run.
Dies ==
  /\ guarded /\ run.stage # "idle" /\ faults < MaxFaults
  /\ faults' = faults + 1
  /\ run' = NoRun
  /\ UNCHANGED <<guarded, head, tree, runs>>

\* links and index lines to a page of the group lead to the one that is kept
Led(links, group, keep) == {IF l \in group THEN keep ELSE l : l \in links}

Merged(w, group, keep) ==
  [pages |-> [s \in OnDisk(w) \ (group \ {keep}) |->
                [links |-> Led(w.pages[s].links, group, keep),
                 related |-> Led(w.pages[s].related, group, keep),
                 sources |-> w.pages[s].sources]],
   index |-> Led(w.index, group, keep)]

\* The /scan command finds that the pages of a group have the same text: the
\* first stays.  (Bound: one group at a time.)
Scan(group, keep) ==
  /\ guarded /\ faults < MaxFaults
  /\ Cardinality(group) > 1
  /\ \A s \in group : keep <= s /\ tree.pages[s] = tree.pages[keep]
  /\ faults' = faults + 1
  /\ tree' = Merged(tree, group, keep)
  /\ UNCHANGED <<guarded, head, run, runs>>

-----------------------------------------------------------------------------

Next ==
  \/ \E src \in Source : Begin(src)
  \/ Converted \/ Extracted \/ Searched \/ Analyzed \/ StageFails \/ Cancelled
  \/ \E plan \in Plans : PlanMade(plan)
  \/ \E i \in run.todo : TargetFails(i) \/ \E links \in LinkSets : TargetWritten(i, links)
  \/ AllWritten \/ SomeFailed
  \/ Dies
  \/ \E group \in SUBSET OnDisk(tree) : \E keep \in group : Scan(group, keep)

Spec == Init /\ [][Next]_vars

-----------------------------------------------------------------------------
(* Properties                                                              *)

\* The state is what _ingest_one and Executor.execute can leave: a target waits
\* only while pages are written, none waits and has failed, and the related
\* field of a page names only pages its text links to.
PTypeOK ==
  /\ guarded \in BOOLEAN /\ WikiOK(head) /\ WikiOK(tree)
  /\ run.stage \in {"idle", "execute"} \cup Stages
  /\ run.todo \cup run.failed \subseteq DOMAIN run.plan
  /\ run.todo \cap run.failed = {}
  /\ \A s \in OnDisk(tree) : tree.pages[s].related \subseteq tree.pages[s].links

\* Whatever a run leaves, complete, failed halfway or taken back, and whatever
\* was merged meanwhile, the index names the pages that exist and no other: a
\* page without a line would never be a candidate again, a line without a page
\* would let later pages link to nothing (_append_index, the handling of a
\* partial failure in _ingest_one, cleanup_exact_duplicates).
IndexWhole == head.index = OnDisk(head)

Dead(w) == {d \in OnDisk(w) \X Page : d[2] \in w.pages[d[1]].links \ OnDisk(w)}

\* A run makes no dead link, although every page is written against the plan,
\* before it is known which of its pages will exist.  The exception is a run
\* that knew no page at all: fix_wikilinks then leaves every link in the text.
NoNewDeadLinks ==
  [][run.valid # {} => Dead(head') \subseteq Dead(head)]_head

Named(w) == UNION {w.pages[s].sources : s \in OnDisk(w)}

\* A source some page names stays named by some page, through updates that
\* rewrite the page, through two targets that are the same page, and through
\* the merging of duplicates while a run is under way (inject_metadata).
SourcesStayNamed == [][Named(head) \subseteq Named(head')]_head

==============================================================================
