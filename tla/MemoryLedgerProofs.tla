-------------------------- MODULE MemoryLedgerProofs --------------------------
(***************************************************************************)
(* Proofs about MemoryLedger for any sessions, facts and bounds.           *)
(***************************************************************************)
EXTENDS MemoryLedger, TLAPS

\* Shapes of the files and of what is under way.
Shapes ==
  /\ lines \in Seq(Nat) /\ looping \in BOOLEAN
  /\ cursor \in Nat /\ dreamed \in Nat
  /\ writer \in [Session -> [pc : {"idle", "mark"}, num : Nat]]
  /\ items \in Seq([status : {"active", "invalid", "expired"}, text : Text, lasting : BOOLEAN])
  /\ dream \in [pc : {"idle", "read", "asked", "apply"}, batch : SUBSET Nat, lo : Nat, hi : Nat,
                fits : BOOLEAN, tries : 0 .. MaxTries, left : Nat]

\* No number is higher than the count of the records.
Numbered ==
  /\ \A l \in DOMAIN lines : lines[l] \in 1 .. Len(lines)
  /\ cursor <= Len(lines) /\ dreamed <= Len(lines) /\ dream.hi <= Len(lines)
  /\ \A s \in Session : writer[s].num <= Len(lines)
  /\ heard \cup refused \cup dream.batch \subseteq DOMAIN lines

\* As long as nothing overlapped, one append at a time is under way and its
\* number is not below the cursor, so the cursor never goes back ...
Orderly ==
  /\ \A s, t \in Session : writer[s].pc = "mark" /\ writer[t].pc = "mark" => s = t
  /\ \A s \in Session : writer[s].pc = "mark" => Cursor <= writer[s].num
  /\ dreamed <= Cursor

\* ... and what is above the dream cursor is in the batch before the LLM is
\* asked, what the batch reaches up to is in it or done with from then on, and
\* what is applied was answered.
Complete ==
  /\ dream.pc = "read" => dream.batch = Unprocessed
  /\ dream.pc \in {"asked", "apply"} =>
       /\ dream.hi <= Cursor
       /\ \A l \in DOMAIN lines :
            lines[l] <= dream.hi => l \in heard \cup refused \cup dream.batch
  /\ dream.pc = "apply" => dream.batch \subseteq heard

LInv == Shapes /\ Numbered /\ (~raced => Orderly /\ Complete) /\ NothingPassed

\* The records the event stream and the Dreamer hold.
ItemRecord == [status : {"active", "invalid", "expired"}, text : Text, lasting : BOOLEAN]
Batch == [pc : {"idle", "read", "asked", "apply"}, batch : SUBSET Nat, lo : Nat, hi : Nat,
          fits : BOOLEAN, tries : 0 .. MaxTries, left : Nat]

\* A sequence with one entry replaced is one over the same set.
LEMMA Replaced ==
  ASSUME NEW S, NEW q \in Seq(S), NEW i \in DOMAIN q, NEW x \in S
  PROVE  /\ [q EXCEPT ![i] = x] \in Seq(S)
         /\ DOMAIN [q EXCEPT ![i] = x] = DOMAIN q
  OBVIOUS

\* Confirming, revising, setting a status and appending keep the items in shape,
\* and an item that has expired stays as it is.
LEMMA ItemsAfter ==
  ASSUME Shapes, Operation
  PROVE  /\ items' \in Seq(ItemRecord)
         /\ \A i \in DOMAIN items : Expired(i) => i \in DOMAIN items' /\ items'[i] = items[i]
<1>0. items \in Seq(ItemRecord)
  BY DEF Shapes, ItemRecord
<1> DEFINE Fine == /\ items' \in Seq(ItemRecord)
                   /\ \A i \in DOMAIN items : Expired(i) =>
                        i \in DOMAIN items' /\ items'[i] = items[i]
<1>same. ASSUME UNCHANGED items PROVE Fine
  BY <1>0, <1>same
<1>set. ASSUME NEW i \in DOMAIN items, ~Expired(i), NEW x \in ItemRecord,
               items' = [items EXCEPT ![i] = x]
        PROVE  Fine
  <2>1. /\ items' \in Seq(ItemRecord) /\ DOMAIN items' = DOMAIN items
    BY <1>0, <1>set, Replaced
  <2>2. \A j \in DOMAIN items : j # i => items'[j] = items[j]
    BY <1>0, <1>set
  <2> QED BY <2>1, <2>2, <1>set
<1>1. ASSUME NEW t \in Text, NEW lasting \in BOOLEAN, NEW c \in Evidence, Add(t, lasting, c)
      PROVE  Fine
  <2>1. CASE \E i \in DOMAIN items : Active(i) /\ items[i].text = t
    BY <1>1, <2>1, <1>same DEF Add, Confirm
  <2>2. CASE ~\E i \in DOMAIN items : Active(i) /\ items[i].text = t
    <3>1. items' = Append(items, [status |-> "active", text |-> t, lasting |-> lasting])
      BY <1>1, <2>2 DEF Add
    <3>2. [status |-> "active", text |-> t, lasting |-> lasting] \in ItemRecord
      BY DEF ItemRecord
    <3> QED BY <1>0, <3>1, <3>2
  <2> QED BY <2>1, <2>2
<1>2. ASSUME NEW i \in DOMAIN items, NEW t \in Text, Revise(i, t)
      PROVE  Fine
  <2>1. items[i] \in ItemRecord
    BY <1>0
  <2>2. [items[i] EXCEPT !.text = t] \in ItemRecord
    BY <2>1 DEF ItemRecord
  <2>3. items' = [items EXCEPT ![i] = [items[i] EXCEPT !.text = t]] /\ ~Expired(i)
    BY <1>2 DEF Revise
  <2> QED BY <2>2, <2>3, <1>set
<1>3. ASSUME NEW i \in DOMAIN items, NEW v \in {"active", "invalid", "expired"}, ~Expired(i),
             items' = [items EXCEPT ![i].status = v]
      PROVE  Fine
  <2>1. items[i] \in ItemRecord
    BY <1>0
  <2>2. [items[i] EXCEPT !.status = v] \in ItemRecord
    BY <2>1 DEF ItemRecord
  <2>3. items' = [items EXCEPT ![i] = [items[i] EXCEPT !.status = v]]
    BY <1>3
  <2> QED BY <1>3, <2>2, <2>3, <1>set
<1>4. ASSUME NEW i \in DOMAIN items, NEW c \in Evidence, Confirm(i, c) \/ Reactivate(i, c)
      PROVE  Fine
  <2>1. CASE Confirm(i, c)
    BY <2>1, <1>same DEF Confirm
  <2>2. CASE Reactivate(i, c)
    <3>1. ~Expired(i) /\ items' = [items EXCEPT ![i].status = "active"]
      BY <2>2 DEF Reactivate, Expired
    <3> QED BY <3>1, <1>3
  <2> QED BY <1>4, <2>1, <2>2
<1>5. ASSUME NEW i \in DOMAIN items, NEW by \in {{}} \cup {{j} : j \in DOMAIN items},
             Invalidate(i, by)
      PROVE  Fine
  <2>1. ~Expired(i) /\ items' = [items EXCEPT ![i].status = "invalid"]
    BY <1>5 DEF Invalidate, Active, Expired
  <2> QED BY <2>1, <1>3
<1> HIDE DEF Fine
<1>6. Fine
  BY <1>1, <1>2, <1>4, <1>5 DEF Operation
<1> QED BY <1>6 DEF Fine

\* An empty memory is in order.
LEMMA InitEstablishesLInv == Init => LInv
<1> SUFFICES ASSUME Init PROVE LInv
  OBVIOUS
<1>0. MaxTries \in Nat
  BY MemoryAssumption
<1>1. Shapes
  <2>1. NoDream \in Batch
    BY <1>0 DEF NoDream, Batch
  <2>2. lines \in Seq(Nat) /\ items \in Seq(ItemRecord)
    BY DEF Init
  <2> QED BY <2>1, <2>2 DEF Init, Shapes, NoWriter, Batch, ItemRecord
<1>2. Numbered
  BY DEF Init, Numbered, NoWriter, NoDream
<1>3. Orderly /\ Complete
  BY DEF Init, Orderly, Complete, NoWriter, NoDream, Cursor
<1>4. NothingPassed
  BY DEF Init, NothingPassed
<1> QED BY <1>1, <1>2, <1>3, <1>4 DEF LInv

\* A step of the Dreamer or of the items that touches neither the history nor its
\* cursors keeps what is known of the appends.
LEMMA OrderlyKept ==
  ASSUME Orderly, dreamed' <= Cursor', UNCHANGED <<lines, cursor, writer>>
  PROVE  Orderly'
  BY DEF Orderly, Cursor

\* A record is appended, numbered after the cursor.
LEMMA AppendLineStep ==
  ASSUME LInv, NEW s \in Session, AppendLine(s), UNCHANGED deaths
  PROVE  LInv'
<1> DEFINE r == Cursor + 1
<1>0. /\ lines \in Seq(Nat) /\ cursor \in Nat /\ dreamed \in Nat
      /\ writer \in [Session -> [pc : {"idle", "mark"}, num : Nat]]
      /\ Cursor \in Nat /\ Cursor <= Len(lines) /\ cursor <= Len(lines) /\ Len(lines) \in Nat
  BY DEF LInv, Shapes, Numbered, Cursor
<1>1. /\ lines' = Append(lines, r) /\ r \in Nat
      /\ writer' = [writer EXCEPT ![s] = [pc |-> "mark", num |-> Cursor + 1]]
      /\ UNCHANGED <<cursor, dreamed, items, dream, looping, heard, refused>>
      /\ raced' = (raced \/ dream.pc = "read" \/ \E t \in Session : writer[t].pc = "mark")
  BY <1>0 DEF AppendLine
<1>2. /\ lines' \in Seq(Nat) /\ Len(lines') = Len(lines) + 1
      /\ DOMAIN lines = 1 .. Len(lines) /\ DOMAIN lines' = 1 .. (Len(lines) + 1)
      /\ \A l \in DOMAIN lines : lines'[l] = lines[l]
      /\ lines'[Len(lines) + 1] = r
  BY <1>0, <1>1
<1>3. Shapes'
  <2>1. writer' \in [Session -> [pc : {"idle", "mark"}, num : Nat]]
    BY <1>0, <1>1
  <2> QED BY <1>0, <1>1, <1>2, <2>1 DEF LInv, Shapes
<1>4. Numbered'
  <2>1. \A l \in DOMAIN lines' : lines'[l] \in 1 .. Len(lines')
    <3>1. r \in 1 .. (Len(lines) + 1) /\ \A l \in DOMAIN lines : lines[l] \in 1 .. Len(lines)
      BY <1>0 DEF LInv, Numbered
    <3> HIDE DEF r
    <3>2. \A l \in DOMAIN lines : lines'[l] \in 1 .. (Len(lines) + 1)
      BY <1>0, <1>2, <3>1
    <3>3. \A l \in DOMAIN lines' : l \in DOMAIN lines \/ l = Len(lines) + 1
      BY <1>0, <1>2
    <3> QED BY <1>2, <3>1, <3>2, <3>3
  <2>2. \A t \in Session : writer'[t].num <= Len(lines')
    BY <1>0, <1>1, <1>2 DEF LInv, Numbered
  <2>3. cursor' <= Len(lines') /\ dreamed' <= Len(lines') /\ dream'.hi <= Len(lines')
    BY <1>0, <1>1, <1>2 DEF LInv, Numbered, Shapes
  <2>4. heard' \cup refused' \cup dream'.batch \subseteq DOMAIN lines'
    BY <1>0, <1>1, <1>2 DEF LInv, Numbered
  <2> QED BY <2>1, <2>2, <2>3, <2>4 DEF Numbered
<1>5. ASSUME ~raced'
      PROVE  Orderly' /\ Complete' /\ NothingPassed'
  <2>1. ~raced /\ dream.pc # "read" /\ \A t \in Session : writer[t].pc # "mark"
    BY <1>1, <1>5
  <2>2. Orderly /\ Complete /\ NothingPassed
    BY <2>1 DEF LInv
  <2>3. Cursor' \in Nat /\ Cursor <= Cursor' /\ Cursor' <= Cursor + 1
    BY <1>0, <1>1, <1>2 DEF Cursor
  <2>4. \A t \in Session : writer'[t].pc = "mark" => t = s
    BY <1>0, <1>1, <2>1
  <2>5. Orderly'
    BY <1>0, <1>1, <2>2, <2>3, <2>4 DEF Orderly
  <2>6. Complete'
    <3>1. dream'.pc \in {"asked", "apply"} =>
            /\ dream.hi <= Cursor'
            /\ \A l \in DOMAIN lines :
                 lines[l] <= dream.hi => l \in heard \cup refused \cup dream.batch
            /\ r > dream.hi
      BY <1>0, <1>1, <2>2, <2>3 DEF Complete, LInv, Shapes
    <3>2. dream'.pc # "read" /\ dream' = dream /\ heard' = heard /\ refused' = refused
      BY <1>1, <2>1
    <3>3. dream'.pc \in {"asked", "apply"} =>
            \A l \in DOMAIN lines' :
              lines'[l] <= dream'.hi => l \in heard' \cup refused' \cup dream'.batch
      <4>1. dream.hi \in Nat /\ r \in Nat
        BY <1>0 DEF LInv, Shapes
      <4> HIDE DEF r
      <4> QED BY <1>2, <3>1, <3>2, <4>1
    <3>4. dream'.pc = "apply" => dream'.batch \subseteq heard'
      BY <2>2, <3>2 DEF Complete
    <3> QED BY <3>1, <3>2, <3>3, <3>4 DEF Complete
  <2>7. NothingPassed'
    <3>1. dreamed' < r
      BY <1>0, <1>1, <2>2 DEF Orderly
    <3> QED BY <1>0, <1>1, <1>2, <2>1, <2>2, <3>1 DEF NothingPassed
  <2> QED BY <2>5, <2>6, <2>7
<1> QED BY <1>3, <1>4, <1>5 DEF LInv, NothingPassed

\* cursor.txt takes the number of the record.
LEMMA AppendMarkStep ==
  ASSUME LInv, NEW s \in Session, AppendMark(s), UNCHANGED deaths
  PROVE  LInv'
<1>0. /\ lines \in Seq(Nat) /\ cursor \in Nat /\ dreamed \in Nat
      /\ writer \in [Session -> [pc : {"idle", "mark"}, num : Nat]]
      /\ Cursor \in Nat /\ Len(lines) \in Nat
  BY DEF LInv, Shapes, Numbered, Cursor
<1>1. /\ cursor' = writer[s].num /\ cursor' \in Nat /\ cursor' <= Len(lines)
      /\ writer' = [writer EXCEPT ![s] = NoWriter]
      /\ UNCHANGED <<lines, dreamed, items, dream, looping, heard, refused>>
      /\ raced' = (raced \/ dream.pc = "read") /\ writer[s].pc = "mark"
  BY <1>0 DEF AppendMark, LInv, Numbered
<1>2. Shapes'
  BY <1>0, <1>1 DEF LInv, Shapes, NoWriter
<1>3. Numbered'
  BY <1>0, <1>1 DEF LInv, Numbered, NoWriter
<1>4. ASSUME ~raced'
      PROVE  Orderly' /\ Complete' /\ NothingPassed'
  <2>1. ~raced /\ dream.pc # "read" /\ Orderly /\ Complete /\ NothingPassed
    BY <1>1, <1>4 DEF LInv
  <2>2. Cursor' \in Nat /\ Cursor <= Cursor'
    BY <1>0, <1>1, <2>1 DEF Cursor, Orderly
  <2>3. \A t \in Session : writer'[t].pc # "mark"
    BY <1>0, <1>1, <2>1 DEF Orderly, NoWriter
  <2>4. Orderly'
    BY <1>0, <1>1, <2>1, <2>2, <2>3 DEF Orderly
  <2>5. Complete'
    BY <1>0, <1>1, <2>1, <2>2 DEF Complete, LInv, Shapes
  <2>6. NothingPassed'
    BY <1>1, <2>1, <1>4 DEF NothingPassed
  <2> QED BY <2>4, <2>5, <2>6
<1> QED BY <1>2, <1>3, <1>4 DEF LInv, NothingPassed

\* Dream reads the records its cursor has not passed.
LEMMA DreamReadStep ==
  ASSUME LInv, DreamRead, UNCHANGED deaths
  PROVE  LInv'
<1>0. /\ dreamed \in Nat /\ Unprocessed \subseteq DOMAIN lines
      /\ DOMAIN lines = 1 .. Len(lines) /\ Len(lines) \in Nat /\ MaxTries \in Nat
  BY MemoryAssumption DEF LInv, Shapes, Unprocessed
<1>1. /\ dream' = [pc |-> "read", batch |-> Unprocessed, lo |-> dreamed, hi |-> 0,
                   fits |-> TRUE, tries |-> 0, left |-> 0]
      /\ UNCHANGED <<lines, cursor, dreamed, writer, items, looping, heard, refused, raced>>
  BY DEF DreamRead, NoDream
<1>2. dream' \in Batch
  BY <1>0, <1>1 DEF Batch
<1>3. Shapes'
  BY <1>1, <1>2 DEF LInv, Shapes, Batch
<1>4. Numbered'
  BY <1>0, <1>1 DEF LInv, Numbered
<1>5. ~raced => Orderly' /\ Complete'
  <2>1. ~raced => Orderly'
    BY <1>1, OrderlyKept DEF LInv, Orderly, Cursor
  <2>2. Complete'
    BY <1>1 DEF Complete, Unprocessed
  <2> QED BY <2>1, <2>2
<1> QED BY <1>1, <1>3, <1>4, <1>5 DEF LInv, NothingPassed

\* What Dream read goes into the request, whether it fits the limiter or not.
LEMMA DreamAskStep ==
  ASSUME LInv, DreamAsk, UNCHANGED deaths
  PROVE  LInv'
<1>0. /\ dream \in Batch /\ Cursor \in Nat /\ Cursor <= Len(lines) /\ 1 \in 0 .. MaxTries
      /\ DOMAIN lines = 1 .. Len(lines) /\ Len(lines) \in Nat
  BY MemoryAssumption DEF LInv, Shapes, Batch, Cursor, Numbered
<1>f. PICK fits \in BOOLEAN :
        dream' = [dream EXCEPT !.pc = "asked", !.hi = Cursor, !.fits = fits, !.tries = 1]
  BY DEF DreamAsk
<1>1. /\ dream' = [pc |-> "asked", batch |-> dream.batch, lo |-> dream.lo, hi |-> Cursor,
                   fits |-> fits, tries |-> 1, left |-> dream.left]
      /\ dream.pc = "read"
      /\ UNCHANGED <<lines, cursor, dreamed, writer, items, looping, heard, refused, raced>>
  BY <1>0, <1>f DEF DreamAsk, Batch
<1>2. dream' \in Batch
  BY <1>0, <1>1 DEF Batch
<1>3. Shapes'
  BY <1>1, <1>2 DEF LInv, Shapes, Batch
<1>4. Numbered'
  BY <1>0, <1>1 DEF LInv, Numbered
<1>5. ~raced => Orderly' /\ Complete' /\ NothingPassed'
  <2> SUFFICES ASSUME ~raced PROVE Orderly' /\ Complete' /\ NothingPassed'
    OBVIOUS
  <2>1. Orderly /\ Complete /\ NothingPassed
    BY DEF LInv
  <2>2. Orderly'
    BY <1>1, <2>1, OrderlyKept DEF Orderly, Cursor
  <2>3. \A l \in DOMAIN lines : l \in heard' \cup refused' \cup dream'.batch
    <3> TAKE l \in DOMAIN lines
    <3>1. lines[l] \in Nat /\ dreamed \in Nat
      BY DEF LInv, Shapes
    <3>2. CASE lines[l] <= dreamed
      BY <1>1, <2>1, <3>2 DEF NothingPassed
    <3>3. CASE lines[l] > dreamed
      BY <1>1, <2>1, <3>3 DEF Complete, Unprocessed
    <3> QED BY <3>1, <3>2, <3>3
  <2>4. Complete'
    BY <1>0, <1>1, <2>3 DEF Complete, Cursor
  <2>5. NothingPassed'
    BY <1>1, <2>1 DEF NothingPassed
  <2> QED BY <2>2, <2>4, <2>5
<1> QED BY <1>1, <1>3, <1>4, <1>5 DEF LInv, NothingPassed

\* Whatever ends the batch without moving the dream cursor, and whatever leaves
\* the hi and the records of the batch as they are, keeps the invariant, whether
\* the batch is heard with it or not.
LEMMA DreamLeft ==
  ASSUME LInv, dream' \in Batch,
         dream' = NoDream \/ /\ dream'.hi = dream.hi /\ dream'.batch = dream.batch
                             /\ dream.pc \in {"asked", "apply"}
                             /\ dream'.pc \in {"asked", "apply"}
                             /\ dream'.pc = "apply" => dream.pc = "apply" \/ dream.batch \subseteq heard',
         items' \in Seq(ItemRecord), looping' \in BOOLEAN,
         heard' = heard \/ heard' = heard \cup dream.batch,
         UNCHANGED <<lines, cursor, dreamed, refused, raced>>,
         writer' = writer \/ writer' = [s \in Session |-> NoWriter]
  PROVE  LInv'
<1>1. writer' \in [Session -> [pc : {"idle", "mark"}, num : Nat]]
  BY DEF LInv, Shapes, NoWriter
<1>2. Shapes'
  BY <1>1 DEF LInv, Shapes, Batch, ItemRecord
<1>3. Numbered'
  <2>1. /\ dream'.hi <= Len(lines) /\ dream'.batch \subseteq DOMAIN lines
        /\ heard' \cup refused' \subseteq DOMAIN lines
        /\ \A s \in Session : writer'[s].num <= Len(lines)
    BY DEF LInv, Shapes, Numbered, NoDream, NoWriter
  <2> QED BY <2>1 DEF LInv, Numbered
<1>4. ~raced => Orderly'
  <2>1. ~raced => Orderly /\ Cursor' = Cursor
    BY DEF LInv, Cursor
  <2> QED BY <2>1 DEF Orderly, NoWriter
<1>5. ~raced => Complete'
  <2>1. ~raced => Complete /\ Cursor' = Cursor
    BY DEF LInv, Cursor
  <2> QED BY <2>1 DEF Complete, NoDream
<1>6. NothingPassed'
  BY DEF LInv, NothingPassed
<1> QED BY <1>2, <1>3, <1>4, <1>5, <1>6 DEF LInv

\* The batch is done with, answered or refused: the dream cursor moves to where it
\* ended.
LEMMA DreamMoves ==
  ASSUME LInv, dream.pc \in {"asked", "apply"}, dreamed' = dream.hi, dream' = NoDream,
         heard' \cup refused' \subseteq heard \cup refused \cup dream.batch,
         heard \cup refused \subseteq heard' \cup refused',
         dream.pc = "asked" => dream.batch \subseteq heard' \cup refused',
         UNCHANGED <<lines, cursor, writer, items, looping, raced, deaths>>
  PROVE  LInv'
<1>0. dream \in Batch /\ NoDream \in Batch
  BY MemoryAssumption DEF LInv, Shapes, Batch, NoDream
<1>1. Shapes'
  BY <1>0 DEF LInv, Shapes, Batch
<1>2. Numbered'
  BY DEF LInv, Shapes, Numbered, NoDream
<1>3. ~raced => Orderly' /\ Complete' /\ NothingPassed'
  <2>1. ~raced => Orderly /\ Complete
    BY DEF LInv
  <2>2. ~raced => Orderly'
    BY <2>1, OrderlyKept DEF Complete, Cursor
  <2>3. Complete'
    BY DEF Complete, NoDream
  <2>4. ~raced => NothingPassed'
    BY <2>1 DEF Complete, NothingPassed
  <2> QED BY <2>2, <2>3, <2>4
<1> QED BY <1>1, <1>2, <1>3 DEF LInv, NothingPassed

\* An attempt gave no operations: the request is repeated, or the batch is given
\* up and its records are with the heard or the refused ones.
LEMMA AttemptRejected ==
  ASSUME LInv, dream.pc = "asked", Rejected,
         \/ heard' = heard \cup dream.batch /\ refused' = refused
         \/ /\ heard' = heard
            /\ refused' = IF dream.tries >= MaxTries THEN refused \cup dream.batch ELSE refused,
         UNCHANGED <<lines, cursor, writer, items, looping, raced, deaths>>
  PROVE  LInv'
<1>0. /\ dream \in Batch /\ items \in Seq(ItemRecord) /\ looping \in BOOLEAN
  BY DEF LInv, Shapes, Batch, ItemRecord
<1>1. CASE dream.tries >= MaxTries
  BY <1>1, DreamMoves DEF Rejected
<1>2. CASE ~(dream.tries >= MaxTries)
  <2>1. dream' = [dream EXCEPT !.tries = dream.tries + 1] /\ UNCHANGED dreamed
    BY <1>2 DEF Rejected
  <2>2. dream.tries + 1 \in 0 .. MaxTries
    BY <1>0, <1>2, MemoryAssumption DEF Batch
  <2>3. /\ dream' \in Batch /\ dream'.hi = dream.hi /\ dream'.batch = dream.batch
        /\ dream'.pc = "asked"
    BY <1>0, <2>1, <2>2 DEF Batch
  <2> QED BY <1>0, <1>2, <2>1, <2>3, DreamLeft
<1> QED BY <1>1, <1>2

\* Every step keeps the ledger in order, a crash included.
LEMMA NextKeepsLInv == LInv /\ [Next]_vars => LInv'
<1> SUFFICES ASSUME LInv, [Next]_vars PROVE LInv'
  OBVIOUS
<1>0. /\ dream \in Batch /\ NoDream \in Batch /\ items \in Seq(ItemRecord)
      /\ looping \in BOOLEAN
  BY MemoryAssumption DEF LInv, Shapes, Batch, NoDream, ItemRecord
<1>1. ASSUME NEW s \in Session, AppendLine(s), UNCHANGED deaths PROVE LInv'
  BY <1>1, AppendLineStep
<1>2. ASSUME NEW s \in Session, AppendMark(s), UNCHANGED deaths PROVE LInv'
  BY <1>2, AppendMarkStep
<1>3. CASE Sweep
  <2>1. PICK i \in DOMAIN items : items' = [items EXCEPT ![i].status = "expired"]
    BY <1>3 DEF Sweep
  <2>2. items[i] \in ItemRecord
    BY <1>0
  <2>3. [items[i] EXCEPT !.status = "expired"] \in ItemRecord
    BY <2>2 DEF ItemRecord
  <2>4. items' \in Seq(ItemRecord)
    BY <1>0, <2>1, <2>3, Replaced
  <2>5. UNCHANGED <<lines, cursor, dreamed, writer, dream, looping, heard, refused, raced>> /\ dream.pc = "idle"
    BY <1>3 DEF Sweep
  <2>6. Shapes'
    BY <2>4, <2>5 DEF LInv, Shapes, ItemRecord
  <2>7. Numbered' /\ (~raced' => Orderly' /\ Complete') /\ NothingPassed'
    BY <2>5 DEF LInv, Numbered, Orderly, Complete, NothingPassed, Cursor, Unprocessed
  <2> QED BY <2>6, <2>7 DEF LInv
<1>4. CASE DreamRead /\ UNCHANGED deaths
  BY <1>4, DreamReadStep
<1>5. CASE DreamAsk /\ UNCHANGED deaths
  BY <1>5, DreamAskStep
<1>6. CASE DreamUnreachable
  BY <1>0, <1>6, DreamLeft DEF DreamUnreachable
<1>7. CASE (DreamIllegal \/ DreamRefused) /\ UNCHANGED deaths
  BY <1>7, AttemptRejected DEF DreamIllegal, DreamRefused
<1>8. CASE DreamAnswered
  <2>1. PICK n \in 0 .. MaxBatchOps :
          dream' = [pc |-> "apply", batch |-> dream.batch, lo |-> dream.lo, hi |-> dream.hi,
                    fits |-> dream.fits, tries |-> dream.tries, left |-> n]
    BY <1>0, <1>8 DEF DreamAnswered, Batch
  <2>2. n \in Nat
    BY MemoryAssumption
  <2>3. dream' \in Batch
    BY <1>0, <2>1, <2>2 DEF Batch
  <2> QED BY <1>0, <1>8, <2>1, <2>3, DreamLeft DEF DreamAnswered
<1>9. CASE DreamApply
  <2>1. dream' = [dream EXCEPT !.left = dream.left - 1] /\ dream.pc = "apply" /\ dream.left > 0
        /\ UNCHANGED <<lines, cursor, dreamed, writer, looping, heard, refused, raced>>
        /\ Operation
    BY <1>9 DEF DreamApply
  <2>2. dream.left - 1 \in Nat
    BY <1>0, <2>1 DEF Batch
  <2>3. /\ dream' \in Batch /\ dream'.hi = dream.hi /\ dream'.batch = dream.batch
        /\ dream'.pc = "apply"
    BY <1>0, <2>1, <2>2 DEF Batch
  <2>4. items' \in Seq(ItemRecord)
    BY <2>1, ItemsAfter DEF LInv
  <2> QED BY <1>0, <2>1, <2>3, <2>4, DreamLeft
<1>10. CASE DreamDone /\ UNCHANGED deaths
  BY <1>10, DreamMoves DEF DreamDone
<1>11. CASE Die
  BY <1>0, <1>11, DreamLeft DEF Die
<1>12. CASE TurnStarts
  BY <1>12 DEF TurnStarts, LInv, Shapes, Numbered, Orderly, Complete, NothingPassed, Cursor,
               Unprocessed
<1>13. CASE UNCHANGED vars
  BY <1>13 DEF vars, LInv, Shapes, Numbered, Orderly, Complete, NothingPassed, Cursor, Unprocessed
<1> QED BY <1>1, <1>2, <1>3, <1>4, <1>5, <1>6, <1>7, <1>8, <1>9, <1>10, <1>11, <1>12, <1>13 DEF Next

\* The ledger is always in order.
LEMMA AlwaysLInv == Spec => []LInv
<1> QED BY InitEstablishesLInv, NextKeepsLInv, PTL DEF Spec

\* Every reachable state of the memory has its types and ranges, for any
\* sessions, facts and bounds: numbers, cursors and what was heard never point
\* behind the end of the history, however appends overlap or die half way.
THEOREM MemoryTypeCorrect == Spec => []LTypeOK
<1>1. LInv => LTypeOK
  <2> SUFFICES ASSUME LInv PROVE LTypeOK
    OBVIOUS
  <2>0. lines \in Seq(Nat) /\ items \in Seq(ItemRecord) /\ dream \in Batch
    BY DEF LInv, Shapes, ItemRecord, Batch
  <2>1. \A l \in DOMAIN lines : lines[l] \in 1 .. Len(lines)
    BY DEF LInv, Numbered
  <2>2. /\ cursor \in 0 .. Len(lines) /\ dreamed \in 0 .. Len(lines)
        /\ heard \cup refused \cup dream.batch \subseteq DOMAIN lines
        /\ dream.hi \in 0 .. Len(lines) /\ dream.tries \in 0 .. MaxTries
    BY <2>0 DEF LInv, Shapes, Numbered, Batch
  <2>3. \A i \in DOMAIN items :
          items[i].status \in {"active", "invalid", "expired"} /\ items[i].text \in Text
    <3> TAKE i \in DOMAIN items
    <3>1. items[i] \in ItemRecord
      BY <2>0
    <3> QED BY <3>1 DEF ItemRecord
  <2> QED BY <2>1, <2>2, <2>3 DEF LTypeOK
<1> QED BY <1>1, AlwaysLInv, PTL

\* The dream cursor passes no record of which the model gave no answer, however
\* often the process dies, calls fail or answers are illegal, except in a batch whose
\* request the limiter refused at every attempt, as long as no append overlapped
\* another or the Dreamer's reads.
THEOREM NothingIsPassed == Spec => []NothingPassed
<1>1. LInv => NothingPassed
  BY DEF LInv
<1> QED BY <1>1, AlwaysLInv, PTL

\* No operation of any answer, no sweep and no restart changes an expired item.
THEOREM ExpiredStays == Spec => ExpiredForGood
<1> DEFINE Stays == \A i \in DOMAIN items : Expired(i) =>
                      i \in DOMAIN items' /\ items'[i] = items[i]
<1>1. LInv /\ [Next]_vars => [Stays]_vars
  <2> SUFFICES ASSUME LInv, Next PROVE Stays
    BY DEF vars
  <2>0. items \in Seq(ItemRecord) /\ Shapes
    BY DEF LInv, Shapes, ItemRecord
  <2>1. CASE UNCHANGED items
    BY <2>1
  <2>2. CASE Sweep
    BY <2>0, <2>2 DEF Sweep, Expired
  <2>3. CASE DreamApply
    BY <2>0, <2>3, ItemsAfter DEF DreamApply
  <2> QED BY <2>1, <2>2, <2>3 DEF Next, AppendLine, AppendMark, TurnStarts, DreamRead,
             DreamAsk, DreamUnreachable, DreamRefused, DreamIllegal, DreamAnswered, DreamDone, Die
<1>2. Spec => [][Stays]_vars
  BY <1>1, AlwaysLInv, PTL DEF Spec
<1> QED BY <1>2 DEF ExpiredForGood
==============================================================================
