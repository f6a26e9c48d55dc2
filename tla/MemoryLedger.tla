----------------------------- MODULE MemoryLedger -----------------------------
(***************************************************************************)
(* The long-term memory of the assistant (memory/).  Compactions of the    *)
(* conversations are appended to history.jsonl as numbered records; the    *)
(* Dreamer hands the records above its own cursor to the LLM, applies the  *)
(* operations it answers with to the memory items and moves the cursor.    *)
(*                                                                         *)
(* An append runs in a worker thread and is three file operations (the     *)
(* number is read from cursor.txt, the line is appended, cursor.txt is     *)
(* replaced), so it interleaves with the Dreamer, which runs on the event  *)
(* loop, and with the append of another session.  memory.jsonl, the event  *)
(* stream, is represented by its fold: every operation appends one event   *)
(* and the items are the events folded in order.                           *)
(***************************************************************************)
EXTENDS Integers, Sequences, FiniteSets

CONSTANTS
  Session,      \* conversations
  Text,         \* facts the LLM may record
  MaxTries,     \* MEMORY_MAX_ATTEMPTS: illegal answers before a batch is given up
  MaxRecords,   \* bound: records of history.jsonl
  MaxItems,     \* bound: memory items
  MaxBatchOps,  \* bound: operations in one answer
  MaxDeaths     \* bound: deaths of the process

ASSUME MemoryAssumption ==
  /\ MaxTries \in Nat \ {0} /\ MaxRecords \in Nat
  /\ MaxItems \in Nat /\ MaxBatchOps \in Nat /\ MaxDeaths \in Nat

VARIABLES
  lines,    \* history.jsonl: the number of each record
  cursor,   \* cursor.txt, 0 when it does not exist
  dreamed,  \* dream_cursor.txt
  writer,   \* the append_history of each session that is in its thread
  items,    \* the memory items, by id
  dream,    \* the batch the Dreamer is working on
  looping,  \* dream_loop runs in this process
  heard,    \* history: the records in a request the LLM answered
  refused,  \* history: the records given up because their request was refused unsent
  raced,    \* history: an append overlapped another or the Dreamer's reads
  deaths

vars == <<lines, cursor, dreamed, writer, items, dream, looping, heard, refused, raced,
          deaths>>

NoWriter == [pc |-> "idle", num |-> 0]
NoDream == [pc |-> "idle", batch |-> {}, lo |-> 0, hi |-> 0, fits |-> TRUE,
            tries |-> 0, left |-> 0]

Init ==
  /\ lines = <<>> /\ cursor = 0 /\ dreamed = 0
  /\ writer = [s \in Session |-> NoWriter]
  /\ items = <<>> /\ dream = NoDream
  /\ looping = FALSE /\ heard = {} /\ refused = {} /\ raced = FALSE /\ deaths = 0

\* The first turn after a start of the process starts dream_loop.
TurnStarts ==
  /\ ~looping /\ looping' = TRUE
  /\ UNCHANGED <<lines, cursor, dreamed, writer, items, dream, heard, refused, raced>>

-----------------------------------------------------------------------------
(* history.jsonl                                                           *)

\* the number of the last record: cursor.txt, or the count of the lines when
\* the file is missing or holds nothing positive
Cursor == IF cursor > 0 THEN cursor ELSE Len(lines)

\* The first half of append_history: the record gets the next number and its
\* line is in the file.  Whoever appends, a turn or the close of an idle session,
\* comes after a turn of this process.  (Bound: one append of a session at a time.)
AppendLine(s) ==
  /\ looping /\ writer[s].pc = "idle" /\ Len(lines) < MaxRecords
  /\ lines' = Append(lines, Cursor + 1)
  /\ writer' = [writer EXCEPT ![s] = [pc |-> "mark", num |-> Cursor + 1]]
  /\ raced' = (raced \/ dream.pc = "read" \/ \E t \in Session : writer[t].pc = "mark")
  /\ UNCHANGED <<cursor, dreamed, items, dream, looping, heard, refused>>

\* The second half: cursor.txt is replaced.
AppendMark(s) ==
  /\ writer[s].pc = "mark"
  /\ cursor' = writer[s].num
  /\ writer' = [writer EXCEPT ![s] = NoWriter]
  /\ raced' = (raced \/ dream.pc = "read")
  /\ UNCHANGED <<lines, dreamed, items, dream, looping, heard, refused>>

-----------------------------------------------------------------------------
(* The items                                                               *)

Active(i) == items[i].status = "active"
Expired(i) == items[i].status = "expired"

\* evidence the program accepts: numbers of records of this batch, inside the
\* range between the two cursors
Evidence ==
  {c \in {lines[l] : l \in dream.batch} : dream.lo < c /\ c <= dream.hi}

\* MemoryOps.confirm
Confirm(i, c) ==
  /\ ~Expired(i) /\ c \in Evidence
  /\ UNCHANGED items

\* MemoryOps.add: a fact some active item already states only confirms it
Add(t, lasting, c) ==
  /\ c \in Evidence
  /\ IF \E i \in DOMAIN items : Active(i) /\ items[i].text = t
     THEN \E i \in DOMAIN items :
            /\ Active(i) /\ items[i].text = t
            /\ \A j \in DOMAIN items : Active(j) /\ items[j].text = t => i <= j
            /\ Confirm(i, c)
     ELSE /\ Len(items) < MaxItems
          /\ items' = Append(items, [status |-> "active", text |-> t,
                                     lasting |-> lasting])

\* MemoryOps.revise
Revise(i, t) ==
  /\ ~Expired(i)
  /\ items' = [items EXCEPT ![i].text = t]

\* MemoryOps.invalidate: by names the successor, if any, which must be active
Invalidate(i, by) ==
  /\ Active(i)
  /\ \A j \in by : Active(j)
  /\ items' = [items EXCEPT ![i].status = "invalid"]

\* mutant of Reactivate: the window does not close
ReactivateAny(i, c) ==
  /\ items[i].status # "active"
  /\ c \in Evidence
  /\ items' = [items EXCEPT ![i].status = "active"]

\* MemoryOps.reactivate
Reactivate(i, c) ==
  /\ items[i].status = "invalid"
  /\ c \in Evidence
  /\ items' = [items EXCEPT ![i].status = "active"]

\* Dreamer.sweep: invalid items whose time is over expire; permanent ones have
\* no time limit.  The clock is left open.
Sweep ==
  /\ looping /\ dream.pc = "idle"
  /\ \E i \in DOMAIN items :
       /\ items[i].status = "invalid" /\ ~items[i].lasting
       /\ items' = [items EXCEPT ![i].status = "expired"]
  /\ UNCHANGED <<lines, cursor, dreamed, writer, dream, looping, heard, refused, raced>>

-----------------------------------------------------------------------------
(* The Dreamer                                                             *)

\* mutant of Unprocessed: the other cursor bounds the batch
Counted == {l \in DOMAIN lines : dreamed < lines[l] /\ lines[l] <= Cursor}

Unprocessed == {l \in DOMAIN lines : lines[l] > dreamed}

\* dream_loop finds records above the dream cursor and dream() reads them ...
DreamRead ==
  /\ looping /\ dream.pc = "idle" /\ Unprocessed # {}
  /\ dream' = [NoDream EXCEPT !.pc = "read", !.batch = Unprocessed, !.lo = dreamed]
  /\ UNCHANGED <<lines, cursor, dreamed, writer, items, looping, heard, refused, raced>>

\* ... and then reads the other cursor and builds the request.  Every attempt sends
\* the same one: whether it fits the token budget of the limiter is decided here.
DreamAsk ==
  /\ dream.pc = "read"
  /\ \E fits \in BOOLEAN :
       dream' = [dream EXCEPT !.pc = "asked", !.hi = Cursor, !.fits = fits, !.tries = 1]
  /\ UNCHANGED <<lines, cursor, dreamed, writer, items, looping, heard, refused, raced>>

\* An attempt that gave no operations is filed as rejected and repeated; after the
\* last one the batch is given up and the dream cursor passes it.
Rejected ==
  IF dream.tries >= MaxTries
  THEN dreamed' = dream.hi /\ dream' = NoDream
  ELSE dream' = [dream EXCEPT !.tries = @ + 1] /\ UNCHANGED dreamed

\* mutant of DreamUnreachable: a failing call is an attempt as well
UnreachableCounts ==
  /\ dream.pc = "asked" /\ dream.fits
  /\ Rejected
  /\ UNCHANGED <<lines, cursor, writer, items, looping, heard, refused, raced>>

\* The call fails, before the provider has the request or after: nothing moves, the
\* next cycle reads again.
DreamUnreachable ==
  /\ dream.pc = "asked" /\ dream.fits
  /\ dream' = NoDream
  /\ UNCHANGED <<lines, cursor, dreamed, writer, items, looping, heard, refused, raced>>

\* The limiter refuses a request above its capacity with a ValueError before it is
\* sent, which counts as an attempt like an illegal answer does.
DreamRefused ==
  /\ dream.pc = "asked" /\ ~dream.fits
  /\ Rejected
  /\ refused' = IF dream.tries >= MaxTries THEN refused \cup dream.batch ELSE refused
  /\ UNCHANGED <<lines, cursor, writer, items, looping, heard, raced>>

\* The answer is no list of operations.
DreamIllegal ==
  /\ dream.pc = "asked" /\ dream.fits
  /\ Rejected
  /\ heard' = heard \cup dream.batch
  /\ UNCHANGED <<lines, cursor, writer, items, looping, refused, raced>>

\* A legal answer is applied one operation after the other; a rejected
\* operation changes nothing and is left out.
DreamAnswered ==
  /\ dream.pc = "asked" /\ dream.fits
  /\ \E n \in 0 .. MaxBatchOps : dream' = [dream EXCEPT !.pc = "apply", !.left = n]
  /\ heard' = heard \cup dream.batch
  /\ UNCHANGED <<lines, cursor, dreamed, writer, items, looping, refused, raced>>

Operation ==
  \/ \E t \in Text, lasting \in BOOLEAN, c \in Evidence : Add(t, lasting, c)
  \/ \E i \in DOMAIN items :
       \/ \E t \in Text : Revise(i, t)
       \/ \E c \in Evidence : Confirm(i, c) \/ Reactivate(i, c)
       \/ \E by \in {{}} \cup {{j} : j \in DOMAIN items} : Invalidate(i, by)

DreamApply ==
  /\ dream.pc = "apply" /\ dream.left > 0
  /\ dream' = [dream EXCEPT !.left = @ - 1]
  /\ Operation
  /\ UNCHANGED <<lines, cursor, dreamed, writer, looping, heard, refused, raced>>

\* memory.md is rendered and the dream cursor moves to where the batch ended.
DreamDone ==
  /\ dream.pc = "apply"
  /\ dreamed' = dream.hi
  /\ dream' = NoDream
  /\ UNCHANGED <<lines, cursor, writer, items, looping, heard, refused, raced>>

\* The process dies, or the turn whose thread appends is torn down with it: what
\* is in the files stays, what was under way is gone.
Die ==
  /\ deaths < MaxDeaths /\ deaths' = deaths + 1
  /\ writer' = [s \in Session |-> NoWriter]
  /\ dream' = NoDream /\ looping' = FALSE
  /\ UNCHANGED <<lines, cursor, dreamed, items, heard, refused, raced>>

Next ==
  \/ /\ \/ \E s \in Session : AppendLine(s) \/ AppendMark(s)
        \/ TurnStarts \/ Sweep
        \/ DreamRead \/ DreamAsk \/ DreamUnreachable \/ DreamRefused \/ DreamIllegal
        \/ DreamAnswered \/ DreamApply \/ DreamDone
     /\ UNCHANGED deaths
  \/ Die

Spec == Init /\ [][Next]_vars

\* Once started, dream_loop comes round every interval, and a call of the model
\* ends (it has a timeout), in whatever way.  That a provider asked for ever
\* answers now and then is assumed of it.
DreamEnds == DreamUnreachable \/ DreamRefused \/ DreamIllegal \/ DreamAnswered
Fairness ==
  /\ WF_vars(DreamRead /\ UNCHANGED deaths) /\ WF_vars(DreamAsk /\ UNCHANGED deaths)
  /\ WF_vars(DreamEnds /\ UNCHANGED deaths) /\ WF_vars(DreamDone /\ UNCHANGED deaths)
  /\ SF_vars((DreamIllegal \/ DreamAnswered) /\ UNCHANGED deaths)

FairSpec == Spec /\ Fairness

-----------------------------------------------------------------------------
(* Properties                                                              *)

\* Types and ranges of the state (proved in MemoryLedgerProofs).
LTypeOK ==
  /\ \A l \in DOMAIN lines : lines[l] \in 1 .. Len(lines)
  /\ cursor \in 0 .. Len(lines) /\ dreamed \in 0 .. Len(lines)
  /\ heard \cup refused \cup dream.batch \subseteq DOMAIN lines
  /\ dream.hi \in 0 .. Len(lines) /\ dream.tries \in 0 .. MaxTries
  /\ \A i \in DOMAIN items :
       items[i].status \in {"active", "invalid", "expired"} /\ items[i].text \in Text

\* The Dreamer's cursor stands on or above no record the model gave no answer
\* about, however appends, deaths, failing calls and illegal answers come between
\* its steps, except for a batch whose request never fitted the limiter, unless an
\* append overlapped another append or the Dreamer's two reads.
NothingPassed ==
  ~raced => \A l \in DOMAIN lines : lines[l] <= dreamed => l \in heard \cup refused

\* As long as the process with a running dream_loop does not die, every record gets
\* an answer of the model or is given up as too large in the end, although answers
\* may be illegal and calls may fail, unless an append overlapped another append or
\* the Dreamer's two reads.
EveryRecordHeard ==
  \A l \in 1 .. MaxRecords :
    l \in DOMAIN lines /\ looping ~> l \in heard \cup refused \/ raced \/ ~looping

\* An expired item stays as it is and no new item takes its place, in this
\* process and in those that fold the event stream after it.
ExpiredForGood ==
  [][\A i \in DOMAIN items : Expired(i) =>
       i \in DOMAIN items' /\ items'[i] = items[i]]_vars
=============================================================================
