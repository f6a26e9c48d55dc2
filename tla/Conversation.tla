----------------------------- MODULE Conversation -----------------------------
(***************************************************************************)
(* A conversation: the turns the user takes, the compaction that moves     *)
(* last_consolidated (lc), the checkpoints written in worker threads, the  *)
(* title task and the closing of idle conversations.  Handing a summary to *)
(* the memory is one await here; MemoryLedger has its steps.               *)
(*                                                                         *)
(* A turn and the closing of an idle session hold the session lock; the    *)
(* title task does not.  A checkpoint appends the messages not yet on disk *)
(* and then replaces the file with the other fields; it runs in a thread   *)
(* and goes on when the coroutine that waits for it is cancelled.          *)
(***************************************************************************)
EXTENDS Integers, Sequences, FiniteSets, SequencesExt

CONSTANTS
  Session,    \* conversations
  Replay,     \* max_messages_length: messages a request replays
  KeepTail,   \* session_tail_messages: messages an idle session keeps
  MaxLoops,   \* _MAX_CONSOLIDATE_LOOP
  Shapes,     \* what turns may add, of the three kinds below
  MaxTurns,   \* bound: turns of a conversation that reach the model
  MaxPart,    \* bound: messages that an append that breaks off has begun
  MaxFaults   \* bound: deaths, failed checkpoints and appends, cancellations

ASSUME ConversationAssumption ==
  /\ Replay \in Nat \ {0} /\ KeepTail \in Nat /\ MaxLoops \in Nat
  /\ MaxTurns \in Nat /\ MaxPart \in Nat /\ MaxFaults \in Nat

VARIABLES
  log,     \* the messages a reader finds in <session>.jsonl
  tail,    \* how the last line of that file ends
  meta,    \* <session>.meta.json
  mem,     \* the Session object in the cache
  turn,    \* what holds the session lock, and how far it is
  turns,   \* turns that have reached the model, to tell messages apart
  saves,   \* the checkpoints that are in a thread, by who started them
  titling, \* sessions whose title task is waiting for the model
  clean,   \* history: since the session was loaded, none of its checkpoints failed or
           \* overlapped another
  hole,    \* history: what of its messages was written onto an unfinished line
  brokenOff, \* history: the cursor that a closing had set when it was broken off
  parted,  \* history: sessions of which a failed checkpoint left a part of its messages
  faults

vars == <<log, tail, meta, mem, turn, turns, saves, titling, clean, hole, brokenOff, parted, faults>>

\* What a turn adds: an answer, an answer after a round of two tool calls, or
\* such a round with nothing after it because max_loop was reached.
Plain == <<"user", "assistant">>
Tooled == <<"user", "call", "tool1", "tool2", "assistant">>
Cut == <<"user", "call", "tool1", "tool2">>
ASSUME ShapesAssumption == Shapes \subseteq {Plain, Tooled, Cut}
Msg == [of : 1 .. MaxTurns + 1, role : Range(Tooled)]
Said(n, shape) == [i \in DOMAIN shape |-> [of |-> n, role |-> shape[i]]]

Fields == [lc : Nat, archived : Nat, status : {"active", "closed"}, titled : BOOLEAN]
NewFields == [lc |-> 0, archived |-> 0, status |-> "active", titled |-> FALSE]
NotLoaded == [hist |-> <<>>, saved |-> 0, loaded |-> FALSE, f |-> NewFields]
Free == [pc |-> "free", lc |-> 0, kept |-> FALSE, loops |-> 0]
NoSave == [pc |-> "none", f |-> NewFields]
NoHole == [at |-> 0, size |-> 0]
Saver == {"turn", "title", "orphan"}   \* orphan: the turn was cancelled

\* save_checkpoint of create_session
Init ==
  /\ log = [s \in Session |-> <<>>]
  /\ meta = [s \in Session |-> NewFields]
  /\ mem = [s \in Session |-> NotLoaded]
  /\ turn = [s \in Session |-> Free]
  /\ turns = [s \in Session |-> 0]
  /\ saves = [s \in Session |-> [b \in Saver |-> NoSave]]
  /\ titling = {}
  /\ tail = [s \in Session |-> "end"]
  /\ clean = [s \in Session |-> TRUE]
  /\ hole = [s \in Session |-> NoHole] /\ brokenOff = [s \in Session |-> 0] /\ parted = {}
  /\ faults = 0

Fault == faults < MaxFaults /\ faults' = faults + 1
Saving(s) == \E b \in Saver : saves[s][b].pc # "none"

\* the next value of mem, turn and saves for session s
Mem(s, m) == mem' = [mem EXCEPT ![s] = m]
With(m, f) == [hist |-> m.hist, saved |-> m.saved, loaded |-> m.loaded, f |-> f]
At(s, pc) == turn' = [turn EXCEPT ![s] = [@ EXCEPT !.pc = pc]]
Unlock(s) == turn' = [turn EXCEPT ![s] = Free]
Put(s, b, x) == saves' = [saves EXCEPT ![s] = [@ EXCEPT ![b] = x]]

-----------------------------------------------------------------------------
(* Loading and checkpoints                                                 *)

\* mutant of FromDisk: a loaded history does not count as saved
FromDiskUnsaved(s) == [hist |-> log[s], saved |-> 0, loaded |-> TRUE, f |-> meta[s]]

\* _load and get_or_create; a line that cannot be parsed is skipped.  (A file with a part
\* of a character in it cannot be read at all: its session then takes no step.)
FromDisk(s) == [hist |-> log[s], saved |-> Len(log[s]), loaded |-> TRUE, f |-> meta[s]]
Cached(s) == IF mem[s].loaded THEN mem[s] ELSE FromDisk(s)

StartSave(s, b) ==
  /\ Put(s, b, [pc |-> "write", f |-> NewFields])
  /\ clean' = [clean EXCEPT ![s] = @ /\ ~Saving(s)]

\* The thread takes the fields and the messages as they are now and appends.
Unsaved(s) == SubSeq(mem[s].hist, mem[s].saved + 1, Len(mem[s].hist))

\* How a line ends: with its newline, before the message is complete, with the message
\* complete and no newline.
Ends == {"end", "half", "open"}

\* The file after n more lines were begun, of which the last one ends as e.  The file is
\* opened to append: the first of them continues a line that was left unfinished, and
\* nobody can read that line any more.
Begun(s, n, e) ==
  LET old == tail[s]
  IN [log |-> (IF n > 0 /\ old = "open" THEN Front(log[s]) ELSE log[s])
              \o SubSeq(Unsaved(s), IF old = "end" THEN 1 ELSE 2,
                        IF e = "half" THEN n - 1 ELSE n),
      tail |-> IF n = 0 THEN old
               ELSE IF e = "open" /\ n = 1 /\ old # "end" THEN "half" ELSE e]
Lengthen(s, n, e) ==
  /\ log' = [log EXCEPT ![s] = Begun(s, n, e).log]
  /\ tail' = [tail EXCEPT ![s] = Begun(s, n, e).tail]

\* an append of which nothing or everything is in the file, or that broke off between
Whole(s, n, e) == n = 0 \/ (n = Len(Unsaved(s)) /\ e = "end")
Breaks(s, n, e) == n <= Len(Unsaved(s)) /\ (Whole(s, n, e) \/ n <= MaxPart)

SaveWrite(s, b) ==
  /\ saves[s][b].pc = "write"
  /\ Lengthen(s, Len(Unsaved(s)), "end")
  /\ hole' = [hole EXCEPT ![s] =
       CASE Unsaved(s) = <<>> \/ tail[s] = "end" -> @
         [] Unsaved(s) # <<>> /\ tail[s] = "open" -> [at |-> mem[s].saved - 1, size |-> 2]
         [] Unsaved(s) # <<>> /\ tail[s] = "half" -> [at |-> mem[s].saved, size |-> 1]]
  /\ Put(s, b, [pc |-> "replace", f |-> mem[s].f])
  /\ UNCHANGED <<meta, mem, turn, turns, titling, clean, brokenOff, parted, faults>>

\* After a turn of an untitled session the title task starts.  (A second task finds
\* the title set and returns; one stands for all.)
TitleDue(s) == titling' = IF Cached(s).f.titled THEN titling ELSE titling \cup {s}

\* What the turn that waited does next; a lost checkpoint does not stop it.
Resume(s, b, ok) ==
  IF b # "turn" THEN UNCHANGED <<turn, titling>>
  ELSE CASE turn[s].pc = "saveCompaction" ->
              /\ turn' = [turn EXCEPT ![s] =
                   [pc |-> "record", lc |-> turn[s].lc, kept |-> ok, loops |-> turn[s].loops]]
              /\ UNCHANGED titling
         [] turn[s].pc = "saveAnswer" ->
              Unlock(s) /\ TitleDue(s)
         [] turn[s].pc = "saveClosed" -> Unlock(s) /\ UNCHANGED titling

\* Only now is everything in memory taken to be on disk.
SaveReplace(s, b) ==
  /\ saves[s][b].pc = "replace"
  /\ meta' = [meta EXCEPT ![s] = saves[s][b].f]
  /\ Mem(s, [mem[s] EXCEPT !.saved = Len(mem[s].hist)])
  /\ Put(s, b, NoSave)
  /\ Resume(s, b, TRUE)
  /\ UNCHANGED <<log, tail, turns, clean, hole, brokenOff, parted, faults>>

\* OSError: with any part of the messages in the file, or behind them.  They count as
\* unsaved and are written again.
SaveFails(s, b) ==
  /\ saves[s][b].pc # "none"
  /\ Fault
  /\ \E n \in 0 .. Len(Unsaved(s)), e \in Ends :
       /\ Breaks(s, n, e) /\ (saves[s][b].pc = "replace" => n = 0)
       /\ Lengthen(s, n, e)
       /\ parted' = IF Whole(s, n, e) THEN parted ELSE parted \cup {s}
  /\ Put(s, b, NoSave)
  /\ clean' = [clean EXCEPT ![s] = FALSE]
  /\ Resume(s, b, FALSE)
  /\ UNCHANGED <<meta, mem, turns, hole, brokenOff>>

-----------------------------------------------------------------------------
(* What is sent to the model                                               *)

IsTool(m) == m.role \in {"tool1", "tool2"}
Calls(m) == IF m.role = "call" THEN {<<m.of, "tool1">>, <<m.of, "tool2">>} ELSE {}
Answers(m, id) == m.of = id[1] /\ m.role = id[2]
From(h, i) == SubSeq(h, i, Len(h))

Called(h, i, j) == \E k \in i .. j - 1 : \E id \in Calls(h[k]) : Answers(h[j], id)

\* find_first_legal_idx: the first question; without one, the first place from which
\* on every result stands behind its call (a result is forgotten with its call)
FirstLegal(h) ==
  LET asked == {i \in DOMAIN h : h[i].role = "user"}
      closed == {i \in 1 .. Len(h) + 1 :
                   \A j \in i .. Len(h) : IsTool(h[j]) => Called(h, i, j)}
      first(S) == CHOOSE i \in S : \A j \in S : i <= j
  IN IF asked # {} THEN first(asked) ELSE first(closed)

Window(m) ==
  LET open == From(m.hist, m.f.lc + 1)
      near == IF Len(open) < Replay THEN open ELSE From(open, Len(open) - Replay + 1)
  IN From(near, FirstLegal(near))

\* the calls that have no result behind them (after the last time they are made)
Lost(h) ==
  UNION {{id \in Calls(h[i]) : \A j \in i + 1 .. Len(h) : ~Answers(h[j], id)} : i \in DOMAIN h}

\* A repaired history by its places: <<i, 0>> is message i, <<i, 1>> and <<i, 2>> are
\* the placeholders behind it, one for each of its calls that is lost.
Placeholder(m, k) == [of |-> m.of, role |-> <<"tool1", "tool2">>[k]]
Placed(h, x) == IF x[2] = 0 THEN h[x[1]] ELSE Placeholder(h[x[1]], x[2])
Before(x, y) == x[1] < y[1] \/ (x[1] = y[1] /\ x[2] < y[2])
Filled(h) ==
  LET lost == Lost(h)
  IN {x \in (DOMAIN h) \X (0 .. 2) :
        x[2] = 0 \/ \E id \in lost \cap Calls(h[x[1]]) : Answers(Placed(h, x), id)}

\* without the results that have no call before them
Standing(h, S) ==
  {x \in S : IsTool(Placed(h, x)) =>
     \E y \in S : Before(y, x) /\ \E id \in Calls(Placed(h, y)) : Answers(Placed(h, x), id)}

\* what stands in the places of S, in their order: p - 1 of them come before the p-th
Listed(h, S) ==
  LET ahead == [x \in S |-> Cardinality({y \in S : Before(y, x)})]
  IN [p \in 1 .. Cardinality(S) |-> Placed(h, CHOOSE x \in S : ahead[x] = p - 1)]

\* mutant of Repair: only results without a call go
DropResults(h) == Listed(h, Standing(h, (DOMAIN h) \X {0}))

\* _repair_broken_history: calls without a result get a placeholder, results
\* without a call go
Repair(h) == Listed(h, Standing(h, Filled(h)))

\* _snip_by_tokens keeps some number of the last messages
Snips(h) ==
  {h} \cup {LET kept == From(h, i) IN From(kept, FirstLegal(kept)) : i \in DOMAIN h}

\* build_messages: the window, the question, and what the turn has said so far
Assembled(s) ==
  {Window(mem[s]) \o Said(turns[s] + 1, SubSeq(Tooled, 1, n)) : n \in {1, 4}}

\* what run_loop sends (prepare_for_llm)
Requests(s) == {Repair(cut) : cut \in UNION {Snips(Repair(h)) : h \in Assembled(s)}}

-----------------------------------------------------------------------------
(* A turn                                                                  *)

\* more messages are open than a request replays
Overflow(m) == Len(m.hist) - m.f.lc > Replay

Reopened(m) == With(m, [m.f EXCEPT !.status = "active"])
TurnStart(s) ==
  /\ turn[s].pc = "free"
  /\ LET m == Reopened(Cached(s))
     IN /\ Mem(s, m)
        /\ turn' = [turn EXCEPT ![s] =
             [pc |-> IF m.hist = <<>> THEN "loop" ELSE IF Overflow(m) THEN "overflow" ELSE "tokens",
              lc |-> m.f.lc, kept |-> FALSE, loops |-> 0]]
  /\ UNCHANGED <<log, tail, meta, turns, saves, titling, clean, hole, brokenOff, parted, faults>>

\* A slash command is answered before anything else; nothing is saved.
TurnCommand(s) ==
  /\ turn[s].pc = "free"
  /\ Mem(s, Reopened(Cached(s)))
  /\ TitleDue(s)
  /\ UNCHANGED <<log, tail, meta, turn, turns, saves, clean, hole, brokenOff, parted, faults>>

\* a summary has been made of everything up to there
Compacted(s, upTo) == Mem(s, With(mem[s], [mem[s].f EXCEPT !.lc = upTo]))

\* Strategy 1: what is out of the window is summarised, or the call fails and
\* the second strategy is not tried.
CompactOverflow(s) ==
  /\ turn[s].pc = "overflow"
  /\ \/ /\ Compacted(s, Len(mem[s].hist) - Replay)
        /\ At(s, "tokens")
     \/ At(s, "compacted") /\ UNCHANGED mem
  /\ UNCHANGED <<log, tail, meta, turns, saves, titling, clean, hole, brokenOff, parted, faults>>

\* where a compaction by tokens may end: just after a question
Boundaries(m) == {i \in m.f.lc + 1 .. Len(m.hist) : m.hist[i].role = "user"}

\* Strategy 2: as long as the estimate is over the budget, everything up to a
\* question is summarised.  The estimates are left open.
CompactTokens(s) ==
  /\ turn[s].pc = "tokens"
  /\ \/ At(s, "compacted") /\ UNCHANGED mem
     \/ /\ turn[s].loops < MaxLoops
        /\ \E i \in Boundaries(mem[s]) : Compacted(s, i)
        /\ turn' = [turn EXCEPT ![s] = [@ EXCEPT !.loops = turn[s].loops + 1]]
  /\ UNCHANGED <<log, tail, meta, turns, saves, titling, clean, hole, brokenOff, parted, faults>>

\* A compaction that moved the cursor is saved at once.
CompactionEnds(s) ==
  /\ turn[s].pc = "compacted"
  /\ IF mem[s].f.lc > turn[s].lc
     THEN StartSave(s, "turn") /\ At(s, "saveCompaction")
     ELSE At(s, "loop") /\ UNCHANGED <<saves, clean>>
  /\ UNCHANGED <<log, tail, meta, mem, turns, titling, hole, brokenOff, parted, faults>>

\* Its summary is handed to the memory and all messages so far count as archived.
TurnRecorded(s) ==
  /\ turn[s].pc = "record"
  /\ Mem(s, With(mem[s], [mem[s].f EXCEPT !.archived = Len(mem[s].hist)]))
  /\ At(s, "loop")
  /\ UNCHANGED <<log, tail, meta, turns, saves, titling, clean, hole, brokenOff, parted, faults>>

\* The model has answered: the messages of the turn enter the history together.
TurnAnswers(s) ==
  /\ turn[s].pc = "loop" /\ turns[s] < MaxTurns
  /\ turns' = [turns EXCEPT ![s] = @ + 1]
  /\ \E shape \in Shapes :
       Mem(s, [mem[s] EXCEPT !.hist = @ \o Said(turns[s] + 1, shape)])
  /\ StartSave(s, "turn")
  /\ At(s, "saveAnswer")
  /\ UNCHANGED <<log, tail, meta, titling, hole, brokenOff, parted, faults>>

\* The model cannot be reached: the turn leaves what it has done so far.
TurnFails(s) ==
  /\ turn[s].pc = "loop"
  /\ Unlock(s)
  /\ UNCHANGED <<log, tail, meta, mem, turns, saves, titling, clean, hole, brokenOff, parted, faults>>

TurnPc == {"overflow", "tokens", "compacted", "saveCompaction", "record", "loop",
           "saveAnswer"}

\* what the cancelled turn has in a thread goes on there
Detached(s) ==
  saves' = [saves EXCEPT ![s] =
    [b \in Saver |-> CASE b = "orphan" -> saves[s]["turn"]
                      [] b = "turn" -> NoSave
                      [] b = "title" -> saves[s]["title"]]]

\* mutant of TurnCancelled: what the compaction moved stays moved
CancelledAsItIs(s) ==
  /\ turn[s].pc \in TurnPc \ {"compacted"}
  /\ saves[s]["orphan"].pc = "none"
  /\ Fault
  /\ Detached(s)
  /\ Unlock(s)
  /\ UNCHANGED <<log, tail, meta, mem, turns, titling, clean, hole, brokenOff, parted>>

\* The user cancels at an await: unless its checkpoint is down, the compaction
\* is taken back.
TurnCancelled(s) ==
  /\ turn[s].pc \in TurnPc \ {"compacted"}
  /\ saves[s]["orphan"].pc = "none"
  /\ Fault
  /\ IF turn[s].kept THEN UNCHANGED mem
     ELSE Compacted(s, turn[s].lc)
  /\ Detached(s)
  /\ Unlock(s)
  /\ UNCHANGED <<log, tail, meta, turns, titling, clean, hole, brokenOff, parted>>

\* append_history raises: a turn ends with an error; closing ends with its cursor in
\* memory only, and takes the messages for archived from then on.
RecordFails(s) ==
  /\ turn[s].pc \in {"record", "closeRecord"}
  /\ Fault
  /\ brokenOff' = IF turn[s].pc = "record" THEN brokenOff ELSE [brokenOff EXCEPT ![s] = mem[s].f.lc]
  /\ Unlock(s)
  /\ UNCHANGED <<log, tail, meta, mem, turns, saves, titling, clean, hole, parted>>

-----------------------------------------------------------------------------
(* The title                                                               *)

\* The model has named the session, or its first question does: the name is
\* saved, without the session lock.
TitleSave(s) ==
  /\ s \in titling /\ mem[s].loaded
  /\ titling' = titling \ {s}
  /\ IF mem[s].f.titled THEN UNCHANGED <<mem, saves, clean>>
     ELSE /\ Mem(s, With(mem[s], [mem[s].f EXCEPT !.titled = TRUE]))
          /\ StartSave(s, "title")
  /\ UNCHANGED <<log, tail, meta, turn, turns, hole, brokenOff, parted, faults>>

-----------------------------------------------------------------------------
(* Closing idle sessions; the background task does this and the dreaming   *)

Closing(s) == turn[s].pc \in {"closing", "closeRecord", "saveClosed"}

CloseStart(s) ==
  /\ \A t \in Session : ~Closing(t)
  /\ turn[s].pc = "free"
  /\ mem[s].loaded /\ mem[s].f.status = "active"
  /\ At(s, "closing")
  /\ UNCHANGED <<log, tail, meta, mem, turns, saves, titling, clean, hole, brokenOff, parted, faults>>

\* What has not been archived is summarised; only a tail stays open.
CloseSummarises(s) ==
  /\ turn[s].pc = "closing"
  /\ LET m == mem[s] n == Len(m.hist)
     IN /\ m.f.archived < n
        /\ At(s, "closeRecord")
        /\ Mem(s, With(m, [lc |-> IF n - KeepTail > m.f.lc THEN n - KeepTail ELSE m.f.lc,
                           archived |-> n, status |-> m.f.status, titled |-> m.f.titled]))
  /\ UNCHANGED <<log, tail, meta, turns, saves, titling, clean, hole, brokenOff, parted, faults>>

\* Closed: with a new summary handed to the memory, with none to make, or without
\* the one that failed.
CloseEnds(s) ==
  /\ turn[s].pc \in {"closing", "closeRecord"}
  /\ Mem(s, With(mem[s], [mem[s].f EXCEPT !.status = "closed"]))
  /\ StartSave(s, "turn")
  /\ At(s, "saveClosed")
  /\ UNCHANGED <<log, tail, meta, turns, titling, hole, brokenOff, parted, faults>>

-----------------------------------------------------------------------------
(* The cache and the process                                               *)

\* an object that is loaded anew knows what is in the file
Forgotten(s) ==
  /\ clean' = [clean EXCEPT ![s] = TRUE]
  /\ hole' = [hole EXCEPT ![s] = NoHole]
  /\ brokenOff' = [brokenOff EXCEPT ![s] = 0]

\* mutant of Evict: a session in the middle of a turn is dropped
EvictLocked(s) ==
  /\ mem[s].loaded /\ s \notin titling /\ ~Saving(s)
  /\ Mem(s, NotLoaded) /\ Forgotten(s)
  /\ UNCHANGED <<log, tail, meta, turn, turns, saves, titling, parted, faults>>

\* Other sessions fill the cache (128): an unlocked one is dropped.  That its
\* title task or a thread still holds the object then is left out.
Evict(s) ==
  /\ mem[s].loaded /\ turn[s].pc = "free" /\ s \notin titling /\ ~Saving(s)
  /\ Mem(s, NotLoaded) /\ Forgotten(s)
  /\ UNCHANGED <<log, tail, meta, turn, turns, saves, titling, parted, faults>>

\* The process dies; a checkpoint in its first half leaves any part of its messages.
Die ==
  /\ Fault
  /\ \E n \in [Session -> 0 .. Len(Tooled) * MaxTurns], e \in [Session -> Ends] :
       /\ \A s \in Session : /\ Breaks(s, n[s], e[s])
                             /\ n[s] > 0 => \E b \in Saver : saves[s][b].pc = "write"
       /\ log' = [s \in Session |-> Begun(s, n[s], e[s]).log]
       /\ tail' = [s \in Session |-> Begun(s, n[s], e[s]).tail]
  /\ mem' = [s \in Session |-> NotLoaded]
  /\ turn' = [s \in Session |-> Free]
  /\ saves' = [s \in Session |-> [b \in Saver |-> NoSave]]
  /\ titling' = {}
  /\ clean' = [s \in Session |-> TRUE]
  /\ hole' = [s \in Session |-> NoHole]
  /\ brokenOff' = [s \in Session |-> 0]
  /\ UNCHANGED <<meta, turns, parted>>

Next ==
  \/ \E s \in Session :
       \/ TurnStart(s) \/ TurnCommand(s) \/ CompactOverflow(s) \/ CompactTokens(s)
       \/ CompactionEnds(s) \/ TurnRecorded(s) \/ TurnAnswers(s)
       \/ TurnFails(s) \/ TurnCancelled(s) \/ RecordFails(s)
       \/ TitleSave(s) \/ Evict(s)
       \/ CloseStart(s) \/ CloseSummarises(s) \/ CloseEnds(s)
       \/ \E b \in Saver : SaveWrite(s, b) \/ SaveReplace(s, b) \/ SaveFails(s, b)
  \/ Die

Spec == Init /\ [][Next]_vars

-----------------------------------------------------------------------------
(* Properties                                                              *)

\* Types and ranges of the state.
CTypeOK ==
  /\ \A s \in Session :
       /\ log[s] \in Seq(Msg) /\ mem[s].hist \in Seq(Msg)
       /\ tail[s] \in Ends /\ (tail[s] = "open" => log[s] # <<>>)
       /\ meta[s] \in Fields /\ mem[s].f \in Fields
       /\ mem[s].saved \in 0 .. Len(mem[s].hist)
       /\ turn[s].pc # "free" => mem[s].loaded
       /\ Saving(s) => mem[s].loaded

\* What SessionManager and every reader of the files rely on: while no checkpoint has
\* failed and none has run beside another, the file holds the beginning of what was
\* said, in order and once each, and all of it when no checkpoint is under way:
\* nothing is lost or doubled by a cancelled, failed or closed turn.  After a death in
\* the middle of an append, it lacks exactly the message that continued the unfinished
\* line, and the one on that line if only its newline was missing.
Found(h, g) == SubSeq(h, 1, g.at) \o SubSeq(h, g.at + g.size + 1, Len(h))
DiskMirrors ==
  \A s \in Session : clean[s] /\ mem[s].loaded =>
    /\ IsPrefix(log[s], Found(mem[s].hist, hole[s])) /\ hole[s].size <= 2
    /\ ~Saving(s) => /\ log[s] = Found(mem[s].hist, hole[s])
                     /\ mem[s].saved = Len(mem[s].hist)

\* A compaction that is in memory between turns is on disk: whichever await a turn was
\* cancelled or broken off at, the session never skips messages whose summary a restart
\* would not find.  (The one exception: handing the summary of an idle session to the
\* memory raised, which leaves the cursor of that closing in memory.)
CompactionKept ==
  \A s \in Session : clean[s] /\ mem[s].loaded /\ turn[s].pc = "free" /\ ~Saving(s) =>
    mem[s].f.lc <= meta[s].lc \/ mem[s].f.lc = brokenOff[s]

\* Every request is legal for the API, after any compaction, cut of the window,
\* snip, checkpoint torn by a death and restart: a call is followed at once by all its
\* results and a result stands behind its call.  (Not when a checkpoint failed in the
\* middle of its messages: they are written again behind that part, and a call that
\* lost its results there is taken to have those of its copy.)
Joined(h, i, j) == i < j /\ \A k \in i + 1 .. j : IsTool(h[k])
Answered(h, i, id) == \E j \in DOMAIN h : Joined(h, i, j) /\ Answers(h[j], id)
HasCall(h, j) ==
  \E i \in DOMAIN h : Joined(h, i, j) /\ \E id \in Calls(h[i]) : Answers(h[j], id)
Legal(h) ==
  \A i \in DOMAIN h : /\ \A id \in Calls(h[i]) : Answered(h, i, id)
                      /\ IsTool(h[i]) => HasCall(h, i)

RequestLegal ==
  \A s \in Session \ parted : turn[s].pc = "loop" => \A h \in Requests(s) : Legal(h)
=============================================================================
