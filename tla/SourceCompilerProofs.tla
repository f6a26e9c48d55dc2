------------------------- MODULE SourceCompilerProofs -------------------------
(***************************************************************************)
(* Proofs about SourceCompiler for any pages, sources, start wikis, links  *)
(* and bounds: the index is exact, no source is forgotten and no run makes *)
(* a dead link.                                                            *)
(***************************************************************************)
EXTENDS SourceCompiler, TLAPS

\* A wiki as the code keeps it: pages and an index, and the related field of a
\* page made from its links.
Shaped(w) ==
  /\ w = [pages |-> [s \in OnDisk(w) |-> w.pages[s]], index |-> w.index]
  /\ WikiOK(w)
  /\ \A s \in OnDisk(w) : w.pages[s].related \subseteq w.pages[s].links

\* A page that is written replaces itself and nothing else.
LEMMA PutFacts ==
  ASSUME NEW w, Shaped(w), NEW s \in Page, NEW page \in PageRec,
         page.related \subseteq page.links
  PROVE  /\ Shaped(Put(w, s, page))
         /\ OnDisk(Put(w, s, page)) = OnDisk(w) \cup {s}
         /\ Put(w, s, page).index = w.index
         /\ Put(w, s, page).pages[s] = page
         /\ \A t \in OnDisk(w) \ {s} : Put(w, s, page).pages[t] = w.pages[t]
<1> DEFINE p == [t \in OnDisk(w) \cup {s} |-> IF t = s THEN page ELSE w.pages[t]]
<1>1. Put(w, s, page) = [pages |-> p, index |-> w.index]
  BY DEF Shaped, Put
<1>2. DOMAIN p = OnDisk(w) \cup {s}
  OBVIOUS
<1>3. p[s] = page /\ \A t \in OnDisk(w) \ {s} : p[t] = w.pages[t]
  OBVIOUS
<1>4. p = [t \in DOMAIN p |-> p[t]]
  OBVIOUS
<1>5. \A t \in DOMAIN p : p[t] \in PageRec /\ p[t].related \subseteq p[t].links
  BY <1>2, <1>3 DEF Shaped, WikiOK
<1>6. DOMAIN p \subseteq Page /\ w.index \subseteq Page
  BY <1>2 DEF Shaped, WikiOK
<1> HIDE DEF p
<1> QED
  BY <1>1, <1>2, <1>3, <1>4, <1>5, <1>6 DEF Shaped, WikiOK, OnDisk

\* Cleaning up after an execution keeps the wiki whole.
LEMMA CleanedFacts ==
  ASSUME NEW w, Shaped(w)
  PROVE  /\ Shaped(CleanedUp(w))
         /\ OnDisk(CleanedUp(w)) = OnDisk(w)
         /\ CleanedUp(w).index = w.index
         /\ \A s \in OnDisk(w) :
              /\ CleanedUp(w).pages[s].sources = w.pages[s].sources
              /\ CleanedUp(w).pages[s].links =
                   IF s \in Planned(run.plan)
                   THEN FixedLinks(w.pages[s].links,
                                   w.index \cup (Planned(run.plan) \cap OnDisk(w)))
                   ELSE w.pages[s].links
<1> DEFINE actual == w.index \cup (Planned(run.plan) \cap OnDisk(w))
           p == [s \in OnDisk(w) |->
                   IF s \notin Planned(run.plan) THEN w.pages[s]
                   ELSE [links |-> FixedLinks(w.pages[s].links, actual),
                         related |-> Related(w.pages[s].links, actual),
                         sources |-> w.pages[s].sources]]
<1>1. CleanedUp(w) = [pages |-> p, index |-> w.index]
  <2>1. CleanedUp(w) = [w EXCEPT !.pages = p]
    BY DEF CleanedUp
  <2> HIDE DEF p
  <2> QED
    BY <2>1 DEF Shaped
<1>2. DOMAIN p = OnDisk(w)
  OBVIOUS
<1>3. \A s \in OnDisk(w) : s \notin Planned(run.plan) => p[s] = w.pages[s]
  OBVIOUS
<1>4. \A s \in OnDisk(w) : s \in Planned(run.plan) =>
        p[s] = [links |-> FixedLinks(w.pages[s].links, actual),
                related |-> Related(w.pages[s].links, actual),
                sources |-> w.pages[s].sources]
  OBVIOUS
<1>5. p = [s \in DOMAIN p |-> p[s]]
  OBVIOUS
<1>6. \A s \in DOMAIN p : p[s] \in PageRec /\ p[s].related \subseteq p[s].links
  BY <1>2, <1>3, <1>4 DEF Shaped, WikiOK, PageRec, FixedLinks, Related
<1>7. DOMAIN p \subseteq Page /\ w.index \subseteq Page
  BY <1>2 DEF Shaped, WikiOK
<1> HIDE DEF p
<1>8. Shaped(CleanedUp(w)) /\ OnDisk(CleanedUp(w)) = OnDisk(w)
                           /\ CleanedUp(w).index = w.index
  BY <1>1, <1>2, <1>5, <1>6, <1>7 DEF Shaped, WikiOK, OnDisk
<1>9. CleanedUp(w).pages = p
  BY <1>1
<1> HIDE DEF actual
<1>10. \A s \in OnDisk(w) :
         /\ p[s].sources = w.pages[s].sources
         /\ p[s].links = IF s \in Planned(run.plan)
                         THEN FixedLinks(w.pages[s].links, actual) ELSE w.pages[s].links
  <2> TAKE s \in OnDisk(w)
  <2>1. CASE s \notin Planned(run.plan)
    BY <2>1, <1>3
  <2>2. CASE s \in Planned(run.plan)
    <3>1. p[s] = [links |-> FixedLinks(w.pages[s].links, actual),
                  related |-> Related(w.pages[s].links, actual),
                  sources |-> w.pages[s].sources]
      BY <2>2, <1>4
    <3> QED
      BY <2>2, <3>1
  <2> QED
    BY <2>1, <2>2
<1> QED
  BY <1>8, <1>9, <1>10 DEF actual

\* Appending the missing lines makes the index the list of pages.
LEMMA IndexedFacts ==
  ASSUME NEW w, Shaped(w)
  PROVE  /\ Shaped(WithIndexLines(w))
         /\ WithIndexLines(w).pages = w.pages
         /\ WithIndexLines(w).index = w.index \cup (Planned(run.plan) \cap OnDisk(w))
<1>1. WithIndexLines(w) = [pages |-> w.pages,
                           index |-> w.index \cup (Planned(run.plan) \cap OnDisk(w))]
  BY DEF Shaped, WithIndexLines
<1>2. w.index \cup (Planned(run.plan) \cap OnDisk(w)) \subseteq Page
  BY DEF Shaped, WikiOK
<1>3. w.pages = [s \in OnDisk(w) |-> w.pages[s]]
  BY DEF Shaped
<1> QED
  BY <1>1, <1>2, <1>3 DEF Shaped, WikiOK, OnDisk

\* Merging duplicates leaves one page of the group and leads every link to it.
LEMMA MergedFacts ==
  ASSUME NEW w, Shaped(w), NEW group \in SUBSET OnDisk(w), NEW keep \in group
  PROVE  /\ Shaped(Merged(w, group, keep))
         /\ OnDisk(Merged(w, group, keep)) = OnDisk(w) \ (group \ {keep})
         /\ Merged(w, group, keep).index = Led(w.index, group, keep)
         /\ \A s \in OnDisk(w) \ (group \ {keep}) :
              /\ Merged(w, group, keep).pages[s].links = Led(w.pages[s].links, group, keep)
              /\ Merged(w, group, keep).pages[s].related =
                   Led(w.pages[s].related, group, keep)
              /\ Merged(w, group, keep).pages[s].sources = w.pages[s].sources
<1> DEFINE p == [s \in OnDisk(w) \ (group \ {keep}) |->
                   [links |-> Led(w.pages[s].links, group, keep),
                    related |-> Led(w.pages[s].related, group, keep),
                    sources |-> w.pages[s].sources]]
<1>1. Merged(w, group, keep) = [pages |-> p, index |-> Led(w.index, group, keep)]
  BY DEF Merged
<1>2. DOMAIN p = OnDisk(w) \ (group \ {keep})
  OBVIOUS
<1>3. \A s \in OnDisk(w) \ (group \ {keep}) :
        p[s] = [links |-> Led(w.pages[s].links, group, keep),
                related |-> Led(w.pages[s].related, group, keep),
                sources |-> w.pages[s].sources]
  OBVIOUS
<1>4. p = [s \in DOMAIN p |-> p[s]]
  OBVIOUS
<1>5. keep \in Page
  BY DEF Shaped, WikiOK
<1>6. \A S \in SUBSET Page : Led(S, group, keep) \subseteq Page
  BY <1>5 DEF Led
<1>7. \A S, T : S \subseteq T => Led(S, group, keep) \subseteq Led(T, group, keep)
  BY DEF Led
<1>8. \A s \in DOMAIN p : p[s] \in PageRec
  BY <1>2, <1>3, <1>6 DEF Shaped, WikiOK, PageRec
<1>9. \A s \in DOMAIN p : p[s].related \subseteq p[s].links
  BY <1>2, <1>3, <1>7 DEF Shaped
<1>10. DOMAIN p \subseteq Page /\ Led(w.index, group, keep) \subseteq Page
  BY <1>2, <1>6 DEF Shaped, WikiOK
<1> HIDE DEF p
<1>11. Shaped(Merged(w, group, keep))
  BY <1>1, <1>4, <1>8, <1>9, <1>10 DEF Shaped, WikiOK, OnDisk
<1>12. Merged(w, group, keep).pages = p
       /\ Merged(w, group, keep).index = Led(w.index, group, keep)
  BY <1>1
<1>13. OnDisk(Merged(w, group, keep)) = OnDisk(w) \ (group \ {keep})
  BY <1>2, <1>12 DEF OnDisk
<1>14. \A s \in OnDisk(w) \ (group \ {keep}) :
         /\ p[s].links = Led(w.pages[s].links, group, keep)
         /\ p[s].related = Led(w.pages[s].related, group, keep)
         /\ p[s].sources = w.pages[s].sources
  <2> TAKE s \in OnDisk(w) \ (group \ {keep})
  <2> DEFINE page == [links |-> Led(w.pages[s].links, group, keep),
                     related |-> Led(w.pages[s].related, group, keep),
                     sources |-> w.pages[s].sources]
  <2>1. p[s] = page
    BY <1>3
  <2> QED
    BY <2>1
<1> QED
  BY <1>11, <1>12, <1>13, <1>14

-----------------------------------------------------------------------------
(* The inductive invariant                                                 *)

\* The run and its numbers are what the steps leave; without a session the tree
\* is what the last run left until pages are written.
RunOK ==
  /\ guarded \in BOOLEAN
  /\ run = [stage |-> run.stage, source |-> run.source, plan |-> run.plan,
            todo |-> run.todo, failed |-> run.failed, valid |-> run.valid,
            seen |-> run.seen]
  /\ run.stage \in {"idle", "execute"} \cup Stages
  /\ run.stage = "idle" => run = NoRun
  /\ run.stage # "idle" => run.source \in Source
  /\ run.stage \in Stages =>
       run.plan = <<>> /\ run.valid = {} /\ run.todo = {} /\ run.failed = {}
  /\ \A i \in DOMAIN run.plan : run.plan[i].slug \in Page
  /\ \A s \in DOMAIN run.seen : run.seen[s] \in SUBSET Source
  /\ run.valid \in SUBSET Page
  /\ run.todo \cup run.failed \subseteq DOMAIN run.plan
  /\ run.todo \cap run.failed = {}
  /\ ~guarded /\ run.stage # "execute" => tree = head

WikisOK == Shaped(head) /\ Shaped(tree)

\* A page of the tree that has no line yet is one the run has planned.
IndexOK ==
  /\ head.index = OnDisk(head)
  /\ tree.index \subseteq OnDisk(tree)
  /\ run.stage # "idle" => OnDisk(tree) \subseteq tree.index \cup Planned(run.plan)

\* The next write to a page keeps every source the page has now.
SourceOK ==
  /\ run.stage # "idle" => Named(head) \subseteq Named(tree)
  /\ run.stage = "execute" =>
       \A s \in Planned(run.plan) \cap OnDisk(tree) :
         tree.pages[s].sources \subseteq SourcesNamed(s)

Written(s) == \E i \in DOMAIN run.plan \ (run.todo \cup run.failed) : run.plan[i].slug = s

\* What the run has not written is as dead as it was; what it has written
\* relates to all it links to and, with no one else at the tree, links only to
\* pages that exist or are planned.
LinkOK ==
  /\ run.stage # "idle" =>
       \A s \in OnDisk(tree) : Written(s) \/
         \A l \in tree.pages[s].links : l \in OnDisk(tree) \/ <<s, l>> \in Dead(head)
  /\ run.valid # {} =>
       \A s \in OnDisk(tree) : Written(s) => tree.pages[s].links = tree.pages[s].related
  /\ ~guarded =>
       /\ run.valid \subseteq OnDisk(tree) \cup Planned(run.plan)
       /\ \A s \in Page : Written(s) =>
            s \in OnDisk(tree) /\ (run.valid # {} => tree.pages[s].links \subseteq run.valid)

CInv == RunOK /\ WikisOK /\ IndexOK /\ SourceOK /\ LinkOK

\* The first wiki.
LEMMA CInvInit == Init => CInv
<1> SUFFICES ASSUME Init PROVE CInv
  OBVIOUS
<1>1. Shaped(head) /\ head.index = OnDisk(head) /\ tree = head
  BY StartAssumption DEF Init, Shaped
<1>2. RunOK
  BY <1>1 DEF Init, RunOK, NoRun
<1>3. LinkOK
  BY DEF Init, LinkOK, NoRun, Written, Planned
<1>4. IndexOK /\ SourceOK
  BY <1>1 DEF Init, IndexOK, SourceOK, NoRun
<1> QED
  BY <1>1, <1>2, <1>3, <1>4 DEF CInv, WikisOK

\* The run is over and has left a wiki with an exact index.
LEMMA EndsKeeps ==
  ASSUME NEW w, CInv, Ends(w), guarded' = guarded, Shaped(w), w.index = OnDisk(w)
  PROVE  CInv'
<1>1. RunOK'
  BY DEF CInv, RunOK, Ends, NoRun
<1>2. WikisOK' /\ IndexOK' /\ SourceOK'
  BY DEF WikisOK, IndexOK, SourceOK, Ends, NoRun
<1>3. LinkOK'
  BY DEF LinkOK, Ends, NoRun, Written
<1> QED
  BY <1>1, <1>2, <1>3 DEF CInv

\* Before the first page the tree differs from HEAD only by what /scan merged.
LEMMA EarlyFacts ==
  ASSUME CInv, run.stage \in Stages
  PROVE  /\ Shaped(tree) /\ tree.index = OnDisk(tree)
         /\ Named(head) \subseteq Named(tree)
         /\ run.valid = {}
<1>1. run.stage # "idle" /\ run.plan = <<>> /\ run.valid = {}
  BY DEF CInv, RunOK, Stages
<1>2. Planned(run.plan) = {}
  BY <1>1 DEF Planned
<1> QED
  BY <1>1, <1>2 DEF CInv, WikisOK, IndexOK, SourceOK

\* What a complete run leaves.
LEMMA DoneFacts ==
  ASSUME CInv, run.stage = "execute", run.todo = {}, run.failed = {}
  PROVE  LET w == WithIndexLines(tree) IN
         /\ Shaped(w) /\ w.index = OnDisk(w)
         /\ Named(head) \subseteq Named(w)
         /\ run.valid # {} /\ (guarded => Passes(w)) => Dead(w) \subseteq Dead(head)
<1> DEFINE w == WithIndexLines(tree)
<1>1. /\ Shaped(tree) /\ Shaped(w) /\ w.pages = tree.pages
      /\ w.index = tree.index \cup (Planned(run.plan) \cap OnDisk(tree))
  BY IndexedFacts DEF CInv, WikisOK
<1>2. OnDisk(w) = OnDisk(tree)
  BY <1>1 DEF OnDisk
<1> HIDE DEF w
<1>3. w.index = OnDisk(w)
  BY <1>1, <1>2 DEF CInv, IndexOK
<1>4. Named(w) = Named(tree)
  BY <1>1, <1>2 DEF Named
<1>5. Named(head) \subseteq Named(w)
  BY <1>4 DEF CInv, SourceOK
<1>6. ASSUME run.valid # {}, guarded => Passes(w)
      PROVE  Dead(w) \subseteq Dead(head)
  <2> SUFFICES ASSUME NEW s \in OnDisk(tree), NEW l \in Page,
                      l \in tree.pages[s].links, l \notin OnDisk(tree)
               PROVE  <<s, l>> \in Dead(head)
    BY <1>1, <1>2 DEF Dead
  <2>1. CASE ~Written(s)
    BY <2>1 DEF CInv, LinkOK
  <2>2. CASE Written(s)
    <3>1. s \in Planned(run.plan) /\ tree.pages[s].links = tree.pages[s].related
      BY <2>2, <1>6 DEF CInv, LinkOK, Written, Planned
    <3>2. CASE guarded
      BY <3>1, <3>2, <1>1, <1>2, <1>6 DEF Passes
    <3>3. CASE ~guarded
      <4>1. l \in OnDisk(tree) \cup Planned(run.plan)
        BY <3>3, <2>2, <1>1, <1>6 DEF CInv, LinkOK, Shaped, WikiOK
      <4>2. PICK i \in DOMAIN run.plan : run.plan[i].slug = l
        BY <4>1 DEF Planned
      <4>3. Written(l)
        BY <4>2 DEF Written
      <4> QED
        BY <4>3, <3>3 DEF CInv, LinkOK
    <3> QED
      BY <3>2, <3>3
  <2> QED
    BY <2>1, <2>2
<1> QED
  BY <1>1, <1>3, <1>5, <1>6 DEF w

\* What a run leaves that was not complete, when nothing takes it back.
LEMMA PartlyFacts ==
  ASSUME CInv, run.stage = "execute"
  PROVE  LET w == PartlyDone(tree) IN
         /\ Shaped(w) /\ w.index = OnDisk(w)
         /\ Named(head) \subseteq Named(w)
         /\ Dead(w) \subseteq Dead(head)
<1> DEFINE c == CleanedUp(tree)
           w == PartlyDone(tree)
           actual == tree.index \cup (Planned(run.plan) \cap OnDisk(tree))
<1>1. /\ Shaped(c) /\ OnDisk(c) = OnDisk(tree) /\ c.index = tree.index
      /\ \A s \in OnDisk(tree) :
           /\ c.pages[s].sources = tree.pages[s].sources
           /\ c.pages[s].links = IF s \in Planned(run.plan)
                                 THEN FixedLinks(tree.pages[s].links, actual)
                                 ELSE tree.pages[s].links
  BY CleanedFacts DEF CInv, WikisOK
<1> HIDE DEF c
<1>2. /\ Shaped(w) /\ w.pages = c.pages
      /\ w.index = c.index \cup (Planned(run.plan) \cap OnDisk(c))
  BY <1>1, IndexedFacts DEF PartlyDone, c
<1> HIDE DEF w
<1>3. OnDisk(w) = OnDisk(tree)
  BY <1>1, <1>2 DEF OnDisk
<1>4. w.index = OnDisk(w) /\ actual = OnDisk(tree)
  BY <1>1, <1>2, <1>3 DEF CInv, IndexOK
<1>5. Named(w) = Named(tree)
  BY <1>1, <1>2, <1>3 DEF Named
<1>6. Named(head) \subseteq Named(w)
  BY <1>5 DEF CInv, SourceOK
<1>7. Dead(w) \subseteq Dead(head)
  <2> SUFFICES ASSUME NEW s \in OnDisk(tree), NEW l \in Page,
                      l \in c.pages[s].links, l \notin OnDisk(tree)
               PROVE  <<s, l>> \in Dead(head)
    BY <1>2, <1>3 DEF Dead
  <2>1. s \notin Planned(run.plan)
    BY <1>1, <1>4 DEF FixedLinks
  <2>2. ~Written(s) /\ l \in tree.pages[s].links
    BY <2>1, <1>1 DEF Written, Planned
  <2> QED
    BY <2>2 DEF CInv, LinkOK
<1> QED
  BY <1>2, <1>4, <1>6, <1>7 DEF w

-----------------------------------------------------------------------------
(* The steps of a run                                                      *)

\* A run starts.
LEMMA BeginKeeps ==
  ASSUME CInv, NEW src \in Source, Begin(src)
  PROVE  CInv'
<1>1. /\ run' = [stage |-> "convert", source |-> src, plan |-> <<>>, todo |-> {},
                 failed |-> {}, valid |-> {}, seen |-> <<>>]
      /\ tree' = head /\ head' = head /\ guarded' = guarded
  BY DEF Begin, NoRun
<1>2. RunOK'
  BY <1>1 DEF CInv, RunOK, Stages
<1>3. WikisOK' /\ IndexOK' /\ SourceOK'
  BY <1>1 DEF CInv, WikisOK, IndexOK, SourceOK
<1>4. \A s \in OnDisk(head) : \A l \in head.pages[s].links :
        l \in OnDisk(head) \/ <<s, l>> \in Dead(head)
  BY DEF CInv, WikisOK, Shaped, WikiOK, PageRec, Dead
<1>5. LinkOK'
  BY <1>1, <1>4 DEF LinkOK, Written
<1> QED
  BY <1>2, <1>3, <1>5 DEF CInv

\* A step that only moves the run on.
LEMMA GoesKeeps ==
  ASSUME CInv, NEW from \in Stages, NEW to \in Stages, Goes(from, to)
  PROVE  CInv'
<1>1. /\ run' = [stage |-> to, source |-> run.source, plan |-> run.plan,
                 todo |-> run.todo, failed |-> run.failed, valid |-> run.valid,
                 seen |-> run.seen]
      /\ run.stage = from /\ UNCHANGED <<guarded, head, tree>>
  BY DEF Goes, CInv, RunOK
<1>2. to # "idle" /\ to # "execute" /\ from # "idle" /\ from # "execute"
  BY DEF Stages
<1>3. RunOK'
  BY <1>1, <1>2 DEF CInv, RunOK
<1>4. WikisOK' /\ IndexOK' /\ SourceOK'
  BY <1>1, <1>2 DEF CInv, WikisOK, IndexOK, SourceOK, Planned
<1>5. LinkOK'
  BY <1>1, <1>2 DEF CInv, LinkOK, Written, Planned
<1> QED
  BY <1>3, <1>4, <1>5 DEF CInv

\* The requests of a plan are sent.
LEMMA PlanMadeKeeps ==
  ASSUME CInv, NEW plan \in Plans, PlanMade(plan), plan # <<>>
  PROVE  CInv'
<1> DEFINE seen == [s \in Planned(plan) \cap OnDisk(tree) |-> tree.pages[s].sources]
<1>1. /\ run' = [stage |-> "execute", source |-> run.source, plan |-> plan,
                 todo |-> DOMAIN plan, failed |-> run.failed,
                 valid |-> tree.index \cup Created(plan), seen |-> seen]
      /\ run.stage \in Stages /\ run.stage # "idle" /\ run.failed = {}
      /\ UNCHANGED <<guarded, head, tree>>
  BY DEF PlanMade, CInv, RunOK, Stages
<1>2. \A i \in DOMAIN plan : plan[i].slug \in Page
  BY DEF Plans, Target
<1>3. Created(plan) \subseteq Planned(plan) /\ Planned(plan) \subseteq Page
  BY <1>2 DEF Created, Planned
<1>4. DOMAIN seen = Planned(plan) \cap OnDisk(tree)
      /\ \A s \in DOMAIN seen : seen[s] = tree.pages[s].sources
                               /\ seen[s] \in SUBSET Source
  BY DEF CInv, WikisOK, Shaped, WikiOK, PageRec
<1> HIDE DEF seen
<1>5. tree.index = OnDisk(tree) /\ tree.index \subseteq Page
  BY <1>1, EarlyFacts DEF Shaped, WikiOK
<1>6. RunOK'
  <2>1. run'.valid \in SUBSET Page
    BY <1>1, <1>3, <1>5
  <2>2. \A s \in DOMAIN run'.seen : run'.seen[s] \in SUBSET Source
    BY <1>1, <1>4
  <2>3. /\ run'.todo \cup run'.failed \subseteq DOMAIN run'.plan
        /\ run'.todo \cap run'.failed = {}
        /\ \A i \in DOMAIN run'.plan : run'.plan[i].slug \in Page
    BY <1>1, <1>2
  <2>4. /\ run'.stage = "execute" /\ run'.source = run.source /\ run.source \in Source
        /\ guarded' \in BOOLEAN
        /\ run' = [stage |-> run'.stage, source |-> run'.source, plan |-> run'.plan,
                   todo |-> run'.todo, failed |-> run'.failed, valid |-> run'.valid,
                   seen |-> run'.seen]
    BY <1>1 DEF CInv, RunOK
  <2> QED
    BY <2>1, <2>2, <2>3, <2>4 DEF RunOK, Stages
<1>7. WikisOK' /\ IndexOK'
  BY <1>1, <1>5 DEF CInv, WikisOK, IndexOK
<1>8. SourceOK'
  BY <1>1, <1>4 DEF CInv, SourceOK, SourcesNamed
<1>9. \A s : ~Written(s)' /\ ~Written(s)
  BY <1>1, EarlyFacts DEF Written, CInv, RunOK
<1>10. LinkOK'
  BY <1>1, <1>3, <1>5, <1>9 DEF CInv, LinkOK
<1> QED
  BY <1>6, <1>7, <1>8, <1>10 DEF CInv

\* A page that cannot be generated leaves the wiki as it is.
LEMMA TargetFailsKeeps ==
  ASSUME CInv, NEW i \in run.todo, TargetFails(i)
  PROVE  CInv'
<1>1. /\ run' = [stage |-> run.stage, source |-> run.source, plan |-> run.plan,
                 todo |-> run.todo \ {i}, failed |-> run.failed \cup {i},
                 valid |-> run.valid, seen |-> run.seen]
      /\ run.stage = "execute" /\ UNCHANGED <<guarded, head, tree>>
  BY DEF TargetFails, CInv, RunOK
<1>2. RunOK'
  BY <1>1 DEF CInv, RunOK
<1>3. WikisOK' /\ IndexOK'
  BY <1>1 DEF CInv, WikisOK, IndexOK, Planned
<1>4. SourceOK'
  BY <1>1 DEF CInv, SourceOK, Planned, SourcesNamed
<1>5. run'.todo \cup run'.failed = run.todo \cup run.failed
  BY <1>1
<1>6. \A s : Written(s)' <=> Written(s)
  BY <1>1, <1>5 DEF Written
<1>7. Planned(run'.plan) = Planned(run.plan) /\ run'.valid = run.valid
      /\ run'.stage = run.stage
  BY <1>1 DEF Planned
<1>8. LinkOK'
  BY <1>1, <1>6, <1>7 DEF CInv, LinkOK
<1> QED
  BY <1>2, <1>3, <1>4, <1>8 DEF CInv

\* The session puts back what it saved.
LEMMA DiesKeeps ==
  ASSUME CInv, Dies
  PROVE  CInv'
<1>1. run' = NoRun /\ guarded = TRUE /\ UNCHANGED <<guarded, head, tree>>
  BY DEF Dies, CInv, RunOK
<1>2. RunOK'
  BY <1>1 DEF RunOK, NoRun
<1>3. WikisOK' /\ IndexOK' /\ SourceOK'
  BY <1>1 DEF CInv, WikisOK, IndexOK, SourceOK, NoRun
<1>4. LinkOK'
  BY <1>1 DEF LinkOK, NoRun, Written
<1> QED
  BY <1>2, <1>3, <1>4 DEF CInv

\* One page is on disk.
LEMMA TargetWrittenKeeps ==
  ASSUME CInv, NEW i \in run.todo, NEW links \in LinkSets, TargetWritten(i, links)
  PROVE  CInv'
<1> DEFINE s == run.plan[i].slug
           page == [links |-> FixedLinks(links, run.valid),
                    related |-> Related(links, run.valid),
                    sources |-> SourcesNamed(s)]
<1>1. /\ run' = [stage |-> run.stage, source |-> run.source, plan |-> run.plan,
                 todo |-> run.todo \ {i}, failed |-> run.failed,
                 valid |-> run.valid, seen |-> run.seen]
      /\ run.stage = "execute" /\ UNCHANGED <<guarded, head>>
      /\ tree' = Put(tree, s, page)
  BY DEF TargetWritten, CInv, RunOK
<1>2. s \in Page /\ s \in Planned(run.plan) /\ i \in DOMAIN run.plan
  BY DEF CInv, RunOK, Planned
<1>3. page.links \in SUBSET Page /\ page.related \in SUBSET Page
      /\ page.related \subseteq page.links
  BY CompilerAssumption DEF FixedLinks, Related
<1>4. SourcesNamed(s) \in SUBSET Source
  BY <1>1 DEF SourcesNamed, CInv, RunOK
<1>5. page \in PageRec
  BY <1>3, <1>4 DEF PageRec
<1>6. page.sources = SourcesNamed(s)
  OBVIOUS
<1>7. run.valid # {} => page.links = page.related /\ page.links \subseteq run.valid
  BY DEF FixedLinks, Related
<1> HIDE DEF s, page
<1>8. /\ Shaped(tree') /\ OnDisk(tree') = OnDisk(tree) \cup {s}
      /\ tree'.index = tree.index /\ tree'.pages[s] = page
      /\ \A t \in OnDisk(tree) \ {s} : tree'.pages[t] = tree.pages[t]
  BY <1>1, <1>2, <1>3, <1>5, PutFacts DEF CInv, WikisOK
<1>9. RunOK'
  BY <1>1 DEF CInv, RunOK
<1>10. WikisOK'
  BY <1>1, <1>8 DEF CInv, WikisOK
<1>11. run'.plan = run.plan /\ run'.stage = run.stage /\ run'.valid = run.valid
       /\ run'.seen = run.seen /\ run'.source = run.source
       /\ run'.todo \cup run'.failed = (run.todo \cup run.failed) \ {i}
  BY <1>1 DEF CInv, RunOK
<1>12. IndexOK'
  BY <1>1, <1>2, <1>8, <1>11 DEF CInv, IndexOK
<1>13. \A t : SourcesNamed(t)' = SourcesNamed(t)
  BY <1>11 DEF SourcesNamed
<1>14. \A t \in Planned(run.plan) \cap OnDisk(tree') :
         tree'.pages[t].sources \subseteq SourcesNamed(t)
  BY <1>1, <1>6, <1>8 DEF CInv, SourceOK
<1>15. Named(tree) \subseteq Named(tree')
  <2> SUFFICES ASSUME NEW t \in OnDisk(tree), NEW x \in tree.pages[t].sources
               PROVE  \E u \in OnDisk(tree') : x \in tree'.pages[u].sources
    BY DEF Named
  <2>1. CASE t = s
    BY <2>1, <1>1, <1>2, <1>6, <1>8 DEF CInv, SourceOK
  <2>2. CASE t # s
    BY <2>2, <1>8
  <2> QED
    BY <2>1, <2>2
<1>16. SourceOK'
  BY <1>1, <1>11, <1>13, <1>14, <1>15 DEF CInv, SourceOK
<1>17. \A t : Written(t)' <=> Written(t) \/ t = s
  <2>1. DOMAIN run'.plan \ (run'.todo \cup run'.failed)
          = (DOMAIN run.plan \ (run.todo \cup run.failed)) \cup {i}
    BY <1>2, <1>11
  <2> QED
    BY <2>1, <1>11 DEF Written, s
<1>18. LinkOK'
  <2>1. \A t \in OnDisk(tree') : Written(t)' \/
          \A l \in tree'.pages[t].links : l \in OnDisk(tree') \/ <<t, l>> \in Dead(head)
    BY <1>1, <1>8, <1>17 DEF CInv, LinkOK
  <2>2. run.valid # {} =>
          \A t \in OnDisk(tree') : Written(t)' => tree'.pages[t].links = tree'.pages[t].related
    BY <1>7, <1>8, <1>17 DEF CInv, LinkOK
  <2>3. ~guarded =>
          /\ run.valid \subseteq OnDisk(tree') \cup Planned(run.plan)
          /\ \A t \in Page : Written(t)' =>
               t \in OnDisk(tree')
               /\ (run.valid # {} => tree'.pages[t].links \subseteq run.valid)
    BY <1>7, <1>8, <1>17 DEF CInv, LinkOK
  <2> QED
    BY <2>1, <2>2, <2>3, <1>1, <1>11 DEF LinkOK
<1> QED
  BY <1>9, <1>10, <1>12, <1>16, <1>18 DEF CInv

\* Duplicates are merged, before or in the middle of a run.
LEMMA ScanKeeps ==
  ASSUME CInv, NEW group \in SUBSET OnDisk(tree), NEW keep \in group, Scan(group, keep)
  PROVE  CInv'
<1> DEFINE m == Merged(tree, group, keep)
<1>1. /\ tree' = m /\ guarded = TRUE /\ UNCHANGED <<guarded, head, run>>
      /\ \A s \in group : tree.pages[s] = tree.pages[keep]
  BY DEF Scan, CInv, RunOK
<1>2. /\ Shaped(m) /\ OnDisk(m) = OnDisk(tree) \ (group \ {keep})
      /\ m.index = Led(tree.index, group, keep)
      /\ \A s \in OnDisk(m) :
           /\ m.pages[s].links = Led(tree.pages[s].links, group, keep)
           /\ m.pages[s].related = Led(tree.pages[s].related, group, keep)
           /\ m.pages[s].sources = tree.pages[s].sources
  <2>1. Shaped(tree)
    BY DEF CInv, WikisOK
  <2>2. /\ Shaped(m) /\ OnDisk(m) = OnDisk(tree) \ (group \ {keep})
        /\ m.index = Led(tree.index, group, keep)
        /\ \A s \in OnDisk(tree) \ (group \ {keep}) :
             /\ m.pages[s].links = Led(tree.pages[s].links, group, keep)
             /\ m.pages[s].related = Led(tree.pages[s].related, group, keep)
             /\ m.pages[s].sources = tree.pages[s].sources
    BY <2>1, MergedFacts
  <2> HIDE DEF m
  <2> QED
    BY <2>2
<1> HIDE DEF m
<1>3. keep \in OnDisk(m)
  BY <1>2
<1>4. RunOK'
  BY <1>1 DEF CInv, RunOK
<1>5. WikisOK'
  BY <1>1, <1>2 DEF CInv, WikisOK
<1>6. IndexOK'
  <2>1. m.index \subseteq OnDisk(m)
    BY <1>2, <1>3 DEF CInv, IndexOK, Led
  <2>2. ASSUME NEW S, NEW T, OnDisk(tree) \subseteq S \cup T, S = tree.index
        PROVE  OnDisk(m) \subseteq m.index \cup T
    BY <2>2, <1>2 DEF Led
  <2> QED
    BY <2>1, <2>2, <1>1 DEF CInv, IndexOK
<1>7. SourceOK'
  <2>1. Named(tree) \subseteq Named(m)
    <3> SUFFICES ASSUME NEW t \in OnDisk(tree), NEW x \in tree.pages[t].sources
                 PROVE  \E u \in OnDisk(m) : x \in m.pages[u].sources
      BY DEF Named
    <3>1. CASE t \in group
      BY <3>1, <1>1, <1>2, <1>3
    <3>2. CASE t \notin group
      BY <3>2, <1>2
    <3> QED
      BY <3>1, <3>2
  <2>2. run.stage # "idle" => Named(head) \subseteq Named(m)
    BY <2>1 DEF CInv, SourceOK
  <2>3. run.stage = "execute" => \A s \in Planned(run.plan) \cap OnDisk(m) :
          m.pages[s].sources \subseteq SourcesNamed(s)
    BY <1>2 DEF CInv, SourceOK
  <2> QED
    BY <2>2, <2>3, <1>1 DEF SourceOK, SourcesNamed
<1>8. LinkOK'
  <2>1. run.stage # "idle" => \A s \in OnDisk(m) : Written(s) \/
          \A l \in m.pages[s].links : l \in OnDisk(m) \/ <<s, l>> \in Dead(head)
    <3> SUFFICES ASSUME run.stage # "idle", NEW s \in OnDisk(m), ~Written(s),
                        NEW k \in m.pages[s].links
                 PROVE  k \in OnDisk(m) \/ <<s, k>> \in Dead(head)
      OBVIOUS
    <3>1. k \in Led(tree.pages[s].links, group, keep) /\ s \in OnDisk(tree)
      BY <1>2
    <3>2. PICK l \in tree.pages[s].links : k = IF l \in group THEN keep ELSE l
      BY <3>1 DEF Led
    <3>3. CASE l \in group
      BY <3>2, <3>3, <1>3
    <3>4. CASE l \notin group
      BY <3>1, <3>2, <3>4, <1>2 DEF CInv, LinkOK
    <3> QED
      BY <3>3, <3>4
  <2>2. run.valid # {} => \A s \in OnDisk(m) : Written(s) => m.pages[s].links = m.pages[s].related
    BY <1>2 DEF CInv, LinkOK
  <2>3. \A s : Written(s)' <=> Written(s)
    BY <1>1 DEF Written
  <2> QED
    BY <2>1, <2>2, <2>3, <1>1 DEF LinkOK
<1> QED
  BY <1>4, <1>5, <1>6, <1>7, <1>8 DEF CInv

-----------------------------------------------------------------------------
(* The theorems                                                            *)

\* What a step may do to HEAD.
HeadStep ==
  \/ head' = head
  \/ /\ Named(head) \subseteq Named(head')
     /\ run.valid # {} => Dead(head') \subseteq Dead(head)

\* A run ends with a commit.
LEMMA SettlesKeeps ==
  ASSUME CInv, NEW w, Settles(w), guarded' = guarded, Shaped(w), w.index = OnDisk(w),
         Named(head) \subseteq Named(w),
         run.valid # {} /\ (guarded => Passes(w)) => Dead(w) \subseteq Dead(head)
  PROVE  CInv' /\ HeadStep
<1>1. CASE Ends(head)
  <2>1. Shaped(head) /\ head.index = OnDisk(head)
    BY DEF CInv, WikisOK, IndexOK
  <2> QED
    BY <1>1, <2>1, EndsKeeps DEF HeadStep, Ends
<1>2. CASE Ends(w) /\ (guarded => Passes(w))
  BY <1>2, EndsKeeps DEF HeadStep, Ends
<1> QED
  BY <1>1, <1>2 DEF Settles, CInv, RunOK

\* Every step keeps the invariant and moves the commits as promised.
LEMMA EveryStep ==
  ASSUME CInv, [Next]_vars
  PROVE  CInv' /\ HeadStep
<1> USE DEF HeadStep
<1>1. ASSUME NEW src \in Source, Begin(src) PROVE CInv' /\ HeadStep
  BY <1>1, BeginKeeps DEF Begin
<1>2. CASE Converted \/ Extracted \/ Searched \/ Analyzed
  <2>1. PICK from \in Stages, to \in Stages : Goes(from, to)
    BY <1>2 DEF Converted, Extracted, Searched, Analyzed, Stages
  <2> QED
    BY <2>1, GoesKeeps DEF Goes
<1>3. CASE StageFails
  <2>1. /\ Shaped(tree) /\ tree.index = OnDisk(tree) /\ run.valid = {}
        /\ Named(head) \subseteq Named(tree)
    BY <1>3, EarlyFacts DEF StageFails
  <2>2. Shaped(head) /\ head.index = OnDisk(head)
    BY DEF CInv, WikisOK, IndexOK
  <2>3. CASE guarded
    <3>1. Ends(head) /\ guarded' = guarded
      BY <1>3, <2>3 DEF StageFails
    <3> QED
      BY <3>1, <2>2, EndsKeeps DEF Ends
  <2>4. CASE ~guarded
    <3>1. Ends(tree) /\ guarded' = guarded
      BY <1>3, <2>4 DEF StageFails
    <3> QED
      BY <3>1, <2>1, EndsKeeps DEF Ends
  <2> QED
    BY <2>3, <2>4
<1>4. CASE Cancelled
  <2>1. Shaped(head) /\ head.index = OnDisk(head)
    BY DEF CInv, WikisOK, IndexOK
  <2>2. Ends(head) /\ guarded' = guarded
    BY <1>4 DEF Cancelled
  <2> QED
    BY <2>1, <2>2, EndsKeeps DEF Ends
<1>5. ASSUME NEW plan \in Plans, PlanMade(plan) PROVE CInv' /\ HeadStep
  <2>1. CASE plan = <<>>
    <3>1. run.stage \in Stages /\ Settles(tree) /\ guarded' = guarded
      BY <1>5, <2>1 DEF PlanMade, Stages
    <3> QED
      BY <3>1, EarlyFacts, SettlesKeeps
  <2>2. CASE plan # <<>>
    BY <1>5, <2>2, PlanMadeKeeps DEF PlanMade
  <2> QED
    BY <2>1, <2>2
<1>6. ASSUME NEW i \in run.todo, TargetFails(i) PROVE CInv' /\ HeadStep
  BY <1>6, TargetFailsKeeps DEF TargetFails
<1>7. ASSUME NEW i \in run.todo, NEW links \in LinkSets, TargetWritten(i, links)
      PROVE  CInv' /\ HeadStep
  BY <1>7, TargetWrittenKeeps DEF TargetWritten
<1>8. CASE AllWritten
  <2>1. /\ run.stage = "execute" /\ run.todo = {} /\ run.failed = {}
        /\ Settles(WithIndexLines(tree)) /\ guarded' = guarded
    BY <1>8 DEF AllWritten
  <2> QED
    BY <2>1, DoneFacts, SettlesKeeps
<1>9. CASE SomeFailed
  <2>1. CASE guarded
    <3>1. Shaped(head) /\ head.index = OnDisk(head)
      BY DEF CInv, WikisOK, IndexOK
    <3>2. Ends(head) /\ guarded' = guarded
      BY <1>9, <2>1 DEF SomeFailed
    <3> QED
      BY <3>1, <3>2, EndsKeeps DEF Ends
  <2>2. CASE ~guarded
    <3>1. run.stage = "execute" /\ Ends(PartlyDone(tree)) /\ guarded' = guarded
      BY <1>9, <2>2 DEF SomeFailed
    <3> QED
      BY <3>1, PartlyFacts, EndsKeeps DEF Ends
  <2> QED
    BY <2>1, <2>2
<1>10. CASE Dies
  BY <1>10, DiesKeeps DEF Dies
<1>11. ASSUME NEW group \in SUBSET OnDisk(tree), NEW keep \in group, Scan(group, keep)
       PROVE  CInv' /\ HeadStep
  BY <1>11, ScanKeeps DEF Scan
<1>12. CASE UNCHANGED vars
  BY <1>12 DEF vars, CInv, RunOK, WikisOK, IndexOK, SourceOK, LinkOK, Written, SourcesNamed
<1> QED
  BY <1>1, <1>2, <1>3, <1>4, <1>5, <1>6, <1>7, <1>8, <1>9, <1>10, <1>11, <1>12 DEF Next

\* The inductive invariant of a compilation.
THEOREM Invariant == Spec => []CInv
<1>1. CInv /\ [Next]_vars => CInv'
  BY EveryStep
<1> QED
  BY CInvInit, <1>1, PTL DEF Spec

\* The compiler's state stays what its steps can leave, and the related field
\* of every page is made from its links.
THEOREM CompilerTypeCorrect == Spec => []PTypeOK
<1>1. CInv => PTypeOK
  BY DEF CInv, RunOK, WikisOK, Shaped, PTypeOK
<1> QED
  BY Invariant, <1>1, PTL

\* Whatever way a run ends, the index names exactly the pages that exist.
THEOREM IndexStaysWhole == Spec => []IndexWhole
<1>1. CInv => IndexWhole
  BY DEF CInv, IndexOK, IndexWhole
<1> QED
  BY Invariant, <1>1, PTL

\* No run, merge or crash makes the wiki forget a source.
THEOREM SourcesKept == Spec => SourcesStayNamed
<1>1. CInv /\ [Next]_vars => [Named(head) \subseteq Named(head')]_head
  BY EveryStep DEF HeadStep
<1> QED
  BY Invariant, <1>1, PTL DEF Spec, SourcesStayNamed

\* No run that knew a page makes a link that leads nowhere.
THEOREM LinksKept == Spec => NoNewDeadLinks
<1>1. CInv /\ [Next]_vars => [run.valid # {} => Dead(head') \subseteq Dead(head)]_head
  BY EveryStep DEF HeadStep
<1> QED
  BY Invariant, <1>1, PTL DEF Spec, NoNewDeadLinks
=============================================================================
