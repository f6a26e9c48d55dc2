-------------------------- MODULE ConversationProofs ---------------------------
(***************************************************************************)
(* Proofs about Conversation for any sessions, window, tail and bounds.    *)
(* CInv is about files, caches and locks; SInv is about what they say, and *)
(* with the lemmas on the repair of a list gives the legality of requests. *)
(***************************************************************************)
EXTENDS Conversation, FiniteSetTheorems, SequenceTheorems, WellFoundedInduction, TLAPS

\* Where the lock of a session is held, and where its holder waits for a checkpoint.
Pcs == TurnPc \cup {"free", "closing", "closeRecord", "saveClosed"}
WaitPc == {"saveCompaction", "saveAnswer", "saveClosed"}

\* Where a compaction may be in memory only, and where it must have been saved.
OpenPc == {"overflow", "tokens", "compacted", "saveCompaction"}
SettledPc == {"free", "record", "loop", "saveAnswer"}

\* The shapes of the cached object, of the holder of the lock and of a checkpoint.
Memory == [hist : Seq(Msg), saved : Nat, loaded : BOOLEAN, f : Fields]
Holder == [pc : Pcs, lc : Nat, kept : BOOLEAN, loops : Nat]
Checkpoint == [pc : {"none", "write", "replace"}, f : Fields]
Holes == [at : Int, size : 0 .. 2]

Shaped ==
  /\ log \in [Session -> Seq(Msg)] /\ tail \in [Session -> Ends] /\ meta \in [Session -> Fields]
  /\ mem \in [Session -> Memory] /\ turn \in [Session -> Holder]
  /\ turns \in [Session -> 0 .. MaxTurns]
  /\ saves \in [Session -> [Saver -> Checkpoint]]
  /\ titling \subseteq Session /\ clean \in [Session -> BOOLEAN] /\ faults \in Nat
  /\ hole \in [Session -> Holes] /\ brokenOff \in [Session -> Nat] /\ parted \subseteq Session

\* Who holds the lock, or waits for a checkpoint, has a session in memory; a turn
\* never goes back behind the cursor it found.
Held(m, t, sv) ==
  /\ m.saved <= Len(m.hist)
  /\ t.pc # "free" => m.loaded
  /\ \A b \in Saver : sv[b].pc # "none" => m.loaded
  /\ sv["turn"].pc # "none" <=> t.pc \in WaitPc
  /\ t.pc = "overflow" => Len(m.hist) - m.f.lc > Replay
  /\ t.pc \in TurnPc => t.lc <= m.f.lc
  /\ t.pc \in OpenPc => ~t.kept

\* The files of a session, and what is remembered of them.
Disk(s) ==
  [log |-> log[s], tail |-> tail[s], meta |-> meta[s], hole |-> hole[s], off |-> brokenOff[s]]

\* The cursor x is covered: by the checkpoint that is being written, or by the fields on
\* disk when there is none.  (One that has not taken its fields will.)  Or it is the one
\* of a closing that broke off.
Covered(x, d, sv) ==
  \/ x = d.off
  \/ /\ \A b \in Saver : sv[b].pc = "replace" => x <= sv[b].f.lc
     /\ (\A b \in Saver : sv[b].pc = "none") => x <= d.meta.lc

\* The file holds the messages h, but for those that were written onto an unfinished
\* line; one that still ends in such a line has not been written to since it was loaded.
Holds(d, h) ==
  /\ d.log = Found(h, d.hole) /\ 0 <= d.hole.at /\ d.hole.at + d.hole.size <= Len(h)
  /\ d.tail # "end" => d.hole = NoHole

\* The file against memory, as far as the one checkpoint under way has come.
Mirrored(d, m, sv) ==
  /\ (\E b \in Saver : sv[b].pc = "write") => Holds(d, SubSeq(m.hist, 1, m.saved))
  /\ (\E b \in Saver : sv[b].pc = "replace") => Holds(d, m.hist)
  /\ (\A b \in Saver : sv[b].pc = "none") => Holds(d, m.hist) /\ m.saved = Len(m.hist)

\* What disk and memory of a session have to do with each other while no
\* checkpoint failed or overlapped another.
Kept(d, m, t, sv) ==
  /\ \A a, b \in Saver : sv[a].pc # "none" /\ sv[b].pc # "none" => a = b
  /\ m.loaded =>
       /\ Mirrored(d, m, sv)
       /\ t.pc \in SettledPc => Covered(m.f.lc, d, sv)
       /\ t.pc \in TurnPc => Covered(t.lc, d, sv)
       /\ sv["turn"].pc = "replace" => m.f.lc <= sv["turn"].f.lc

CInv ==
  /\ Shaped
  /\ \A s \in Session :
       /\ tail[s] = "open" => log[s] # <<>>
       /\ ~mem[s].loaded => hole[s] = NoHole
       /\ Held(mem[s], turn[s], saves[s])
       /\ clean[s] => Kept(Disk(s), mem[s], turn[s], saves[s])

-----------------------------------------------------------------------------
(* Sequences and sessions                                                  *)

\* A history is what is saved of it and the rest; what is added comes behind.
LEMMA Histories ==
  ASSUME NEW h \in Seq(Msg), NEW k \in 0 .. Len(h), NEW x \in Seq(Msg)
  PROVE  /\ SubSeq(h, 1, k) \in Seq(Msg) /\ Len(SubSeq(h, 1, k)) = k
         /\ SubSeq(h, k + 1, Len(h)) \in Seq(Msg)
         /\ SubSeq(h, 1, k) \o SubSeq(h, k + 1, Len(h)) = h
         /\ h \o x \in Seq(Msg) /\ Len(h \o x) = Len(h) + Len(x)
         /\ SubSeq(h \o x, 1, Len(h)) = h
<1>1. /\ SubSeq(h, 1, k) \in Seq(Msg) /\ Len(SubSeq(h, 1, k)) = k
      /\ SubSeq(h, k + 1, Len(h)) \in Seq(Msg)
  OBVIOUS
<1>2. SubSeq(h, 1, k) \o SubSeq(h, k + 1, Len(h)) = SubSeq(h, 1, Len(h))
  <2>1. 1 \in 1 .. Len(h) + 1 /\ k \in 1 - 1 .. Len(h) /\ Len(h) \in k .. Len(h)
    OBVIOUS
  <2> QED BY <2>1, ConcatAdjacentSubSeq
<1>3. SubSeq(h, 1, Len(h)) = h
  BY SubSeqFull
<1>4. h \o x \in Seq(Msg) /\ Len(h \o x) = Len(h) + Len(x)
  BY ConcatProperties
<1>5. SubSeq(h \o x, 1, Len(h)) = h
  <2> DEFINE c == h \o x
             a == SubSeq(c, 1, Len(h))
  <2>1. c \in Seq(Msg) /\ Len(c) = Len(h) + Len(x) /\ \A i \in 1 .. Len(h) : c[i] = h[i]
    BY ConcatProperties
  <2>2. Len(h) \in Nat /\ Len(x) \in Nat
    OBVIOUS
  <2> HIDE DEF c
  <2>3. a \in Seq(Msg) /\ Len(a) = Len(h) /\ \A i \in 1 .. Len(h) : a[i] = c[i]
    BY <2>1, <2>2
  <2> HIDE DEF a
  <2>4. a = h
    BY <2>1, <2>3, SeqEqual
  <2> QED BY <2>4 DEF a, c
<1> QED BY <1>1, <1>2, <1>3, <1>4, <1>5

\* A part of a history.
LEMMA PartOf ==
  ASSUME NEW h \in Seq(Msg), NEW m \in Nat \ {0}, NEW n \in 0 .. Len(h)
  PROVE  /\ SubSeq(h, m, n) \in Seq(Msg)
         /\ Len(SubSeq(h, m, n)) = IF m <= n THEN n - m + 1 ELSE 0
         /\ \A i \in 1 .. n - m + 1 : SubSeq(h, m, n)[i] = h[m + i - 1]
<1>1. \A i \in m .. n : h[i] \in Msg
  OBVIOUS
<1>2. m \in Int /\ n \in Int
  OBVIOUS
<1> QED BY <1>1, <1>2, SubSeqProperties

\* What was not written onto an unfinished line: everything, if nothing was; and what is
\* added to a history comes behind.
LEMMA FoundAll == ASSUME NEW h \in Seq(Msg) PROVE Found(h, NoHole) = h
<1>1. SubSeq(h, 1, 0) = <<>>
  BY SubSeqEmpty
<1>2. SubSeq(h, 1, Len(h)) = h
  BY SubSeqFull
<1>3. <<>> \o h = h
  BY ConcatEmptySeq
<1> QED BY <1>1, <1>2, <1>3 DEF Found, NoHole

LEMMA WithoutPart ==
  ASSUME NEW h \in Seq(Msg), NEW x \in Seq(Msg), NEW m \in 0 .. Len(h), NEW k \in 0 .. Len(h)
  PROVE  /\ SubSeq(h, 1, m) \o SubSeq(h, k + 1, Len(h)) \in Seq(Msg)
         /\ SubSeq(h \o x, 1, m) \o SubSeq(h \o x, k + 1, Len(h \o x))
              = (SubSeq(h, 1, m) \o SubSeq(h, k + 1, Len(h))) \o x
<1> DEFINE c == h \o x
           a == SubSeq(h, 1, m)
           b == SubSeq(h, k + 1, Len(h))
           d == SubSeq(c, 1, m)
           e == SubSeq(c, k + 1, Len(c))
<1>1. m \in Nat /\ k \in Nat /\ k + 1 \in Nat \ {0} /\ Len(h) \in Nat /\ Len(x) \in Nat
  OBVIOUS
<1>2. /\ c \in Seq(Msg) /\ Len(c) = Len(h) + Len(x)
      /\ \A i \in 1 .. Len(h) + Len(x) : c[i] = IF i <= Len(h) THEN h[i] ELSE x[i - Len(h)]
  BY ConcatProperties
<1> HIDE DEF c
<1>3. m \in 0 .. Len(c) /\ Len(c) \in 0 .. Len(c) /\ Len(h) \in 0 .. Len(h)
  BY <1>1, <1>2
<1>4. /\ a \in Seq(Msg) /\ Len(a) = m /\ \A i \in 1 .. m : a[i] = h[i]
  BY <1>1, PartOf
<1>5. /\ b \in Seq(Msg) /\ Len(b) = Len(h) - k
      /\ \A i \in 1 .. Len(h) - k : b[i] = h[k + i]
  <2>1. /\ b \in Seq(Msg) /\ Len(b) = IF k + 1 <= Len(h) THEN Len(h) - (k + 1) + 1 ELSE 0
        /\ \A i \in 1 .. Len(h) - (k + 1) + 1 : b[i] = h[(k + 1) + i - 1]
    BY <1>1, <1>3, PartOf
  <2> HIDE DEF b
  <2> QED BY <1>1, <2>1
<1>6. /\ d \in Seq(Msg) /\ Len(d) = m /\ \A i \in 1 .. m : d[i] = c[i]
  BY <1>1, <1>2, <1>3, PartOf
<1>7. /\ e \in Seq(Msg) /\ Len(e) = Len(c) - k
      /\ \A i \in 1 .. Len(c) - k : e[i] = c[k + i]
  <2>1. /\ e \in Seq(Msg) /\ Len(e) = IF k + 1 <= Len(c) THEN Len(c) - (k + 1) + 1 ELSE 0
        /\ \A i \in 1 .. Len(c) - (k + 1) + 1 : e[i] = c[(k + 1) + i - 1]
    BY <1>1, <1>2, <1>3, PartOf
  <2> HIDE DEF e
  <2> QED BY <1>1, <1>2, <2>1
<1> HIDE DEF a, b, d, e
<1>8. d = a
  <2>1. \A i \in 1 .. m : d[i] = a[i]
    BY <1>1, <1>2, <1>4, <1>6
  <2> QED BY <1>4, <1>6, <2>1, SeqEqual
<1>9. e = b \o x
  <2>1. /\ b \o x \in Seq(Msg) /\ Len(b \o x) = Len(b) + Len(x)
        /\ \A i \in 1 .. Len(b) + Len(x) : (b \o x)[i] = IF i <= Len(b) THEN b[i] ELSE x[i - Len(b)]
    BY <1>5, ConcatProperties
  <2>2. Len(e) = Len(b \o x)
    BY <1>1, <1>2, <1>5, <1>7, <2>1
  <2>3. ASSUME NEW i \in 1 .. Len(e) PROVE e[i] = (b \o x)[i]
    <3>1. i \in 1 .. Len(b) + Len(x) /\ e[i] = c[k + i] /\ i \in Nat
      BY <1>1, <1>2, <1>5, <1>7
    <3>2. k + i \in 1 .. Len(h) + Len(x)
      BY <1>1, <1>5, <3>1
    <3>3. c[k + i] = IF k + i <= Len(h) THEN h[k + i] ELSE x[k + i - Len(h)]
      BY <1>2, <3>2
    <3>4. CASE i <= Len(b)
      <4>1. i \in 1 .. Len(h) - k /\ k + i <= Len(h)
        BY <1>1, <1>5, <3>1, <3>4
      <4> QED BY <1>5, <2>1, <3>1, <3>3, <3>4, <4>1
    <3>5. CASE ~(i <= Len(b))
      <4>1. k + i - Len(h) = i - Len(b) /\ ~(k + i <= Len(h))
        BY <1>1, <1>5, <3>1, <3>5
      <4> QED BY <2>1, <3>1, <3>3, <3>5, <4>1
    <3> QED BY <3>4, <3>5
  <2> QED BY <1>7, <2>1, <2>2, <2>3, SeqEqual
<1>10. a \o (b \o x) = (a \o b) \o x
  BY <1>4, <1>5, ConcatAssociative
<1>11. a \o b \in Seq(Msg)
  BY <1>4, <1>5, ConcatProperties
<1> QED BY <1>8, <1>9, <1>10, <1>11 DEF a, b, c, d, e

LEMMA FoundGrows ==
  ASSUME NEW h \in Seq(Msg), NEW x \in Seq(Msg), NEW g \in Holes,
         0 <= g.at, g.at + g.size <= Len(h)
  PROVE  Found(h, g) \in Seq(Msg) /\ Found(h \o x, g) = Found(h, g) \o x
<1>1. g.at \in 0 .. Len(h) /\ g.at + g.size \in 0 .. Len(h)
  BY DEF Holes
<1> QED BY <1>1, WithoutPart DEF Found

\* What is written behind an unfinished line d of whose messages could have been read.
LEMMA Glued ==
  ASSUME NEW h \in Seq(Msg), NEW k \in Nat, k + 1 <= Len(h), NEW d \in 0 .. 1, d <= k
  PROVE  SubSeq(SubSeq(h, 1, k), 1, k - d) \o SubSeq(SubSeq(h, k + 1, Len(h)), 2, Len(h) - k)
           = Found(h, [at |-> k - d, size |-> d + 1])
<1> DEFINE p == SubSeq(h, 1, k)
           u == SubSeq(h, k + 1, Len(h))
           n == k - d
           x == SubSeq(p, 1, n)
           y == SubSeq(h, 1, n)
           v == SubSeq(u, 2, Len(h) - k)
           w == SubSeq(h, k + 2, Len(h))
<1>1. /\ Len(h) \in Nat /\ k \in 0 .. Len(h) /\ n \in 0 .. Len(h) /\ n \in 0 .. k /\ n \in Nat
      /\ k + 1 \in Nat \ {0} /\ k + 2 \in Nat \ {0} /\ 2 \in Nat \ {0}
      /\ Len(h) \in 0 .. Len(h) /\ Len(h) - k \in Nat
  OBVIOUS
<1>2. p \in Seq(Msg) /\ Len(p) = k /\ \A i \in 1 .. k : p[i] = h[i]
  BY <1>1, PartOf
<1>3. u \in Seq(Msg) /\ Len(u) = Len(h) - k /\ \A i \in 1 .. Len(h) - k : u[i] = h[k + i]
  <2>1. /\ u \in Seq(Msg) /\ Len(u) = IF k + 1 <= Len(h) THEN Len(h) - (k + 1) + 1 ELSE 0
        /\ \A i \in 1 .. Len(h) - (k + 1) + 1 : u[i] = h[(k + 1) + i - 1]
    BY <1>1, PartOf
  <2> HIDE DEF u
  <2> QED BY <1>1, <2>1
<1> HIDE DEF p, u, n
<1>4. x = y
  <2>1. x \in Seq(Msg) /\ Len(x) = n /\ \A i \in 1 .. n : x[i] = p[i]
    BY <1>1, <1>2, PartOf
  <2>2. y \in Seq(Msg) /\ Len(y) = n /\ \A i \in 1 .. n : y[i] = h[i]
    BY <1>1, PartOf
  <2> HIDE DEF x, y
  <2>3. \A i \in 1 .. Len(x) : x[i] = y[i]
    BY <1>1, <1>2, <2>1, <2>2
  <2> QED BY <2>1, <2>2, <2>3, SeqEqual
<1>5. v = w
  <2>1. /\ v \in Seq(Msg) /\ Len(v) = IF 2 <= Len(h) - k THEN Len(h) - k - 2 + 1 ELSE 0
        /\ \A i \in 1 .. Len(h) - k - 2 + 1 : v[i] = u[2 + i - 1]
    <3>1. Len(h) - k \in 0 .. Len(u)
      BY <1>1, <1>3
    <3> QED BY <1>1, <1>3, <3>1, PartOf
  <2>2. /\ w \in Seq(Msg) /\ Len(w) = IF k + 2 <= Len(h) THEN Len(h) - (k + 2) + 1 ELSE 0
        /\ \A i \in 1 .. Len(h) - (k + 2) + 1 : w[i] = h[(k + 2) + i - 1]
    BY <1>1, PartOf
  <2> HIDE DEF v, w
  <2>3. Len(v) = Len(w) /\ Len(v) = Len(h) - k - 1
    BY <1>1, <2>1, <2>2
  <2>4. ASSUME NEW i \in 1 .. Len(v) PROVE v[i] = w[i]
    <3>1. i \in 1 .. Len(h) - k - 2 + 1 /\ i + 1 \in 1 .. Len(h) - k /\ i \in 1 .. Len(h) - (k + 2) + 1
      BY <1>1, <2>3
    <3>2. 2 + i - 1 = i + 1 /\ (k + 2) + i - 1 = k + (i + 1)
      BY <1>1, <3>1
    <3> QED BY <1>3, <2>1, <2>2, <3>1, <3>2
  <2> QED BY <2>1, <2>2, <2>3, <2>4, SeqEqual
<1>6. [at |-> n, size |-> d + 1].at + [at |-> n, size |-> d + 1].size + 1 = k + 2
  BY <1>1 DEF n
<1>7. Found(h, [at |-> n, size |-> d + 1]) = y \o w
  BY <1>6 DEF Found
<1> QED BY <1>4, <1>5, <1>7 DEF n, p, u

\* What begins a list is at the beginning of it.
LEMMA Leads ==
  ASSUME NEW h \in Seq(Msg), NEW x \in Seq(Msg)
  PROVE  IsPrefix(h, h \o x)
<1>1. Len(h) \in 0 .. Len(h) /\ Len(h) \in Nat /\ Len(x) \in Nat
  OBVIOUS
<1>2. SubSeq(h \o x, 1, Len(h)) = h /\ Len(h \o x) = Len(h) + Len(x)
  BY <1>1, Histories
<1>3. SubSeq(h, 1, Len(h)) = h
  BY SubSeqFull
<1> QED BY <1>1, <1>2, <1>3 DEF IsPrefix

\* What a turn says is a list of messages.
LEMMA WhatIsSaid ==
  ASSUME NEW n \in 1 .. MaxTurns + 1, NEW shape \in Shapes
  PROVE  Said(n, shape) \in Seq(Msg)
<1>1. Range(Tooled) = {"user", "call", "tool1", "tool2", "assistant"}
  BY DEF Range, Tooled
<1>3. shape = Plain \/ shape = Tooled \/ shape = Cut
  BY ShapesAssumption
<1>4. shape \in Seq(Range(Tooled))
  <2>1. /\ Plain \in Seq(Range(Tooled)) /\ Tooled \in Seq(Range(Tooled))
        /\ Cut \in Seq(Range(Tooled))
    BY <1>1 DEF Plain, Tooled, Cut
  <2> QED BY <1>3, <2>1
<1>5. \A i \in 1 .. Len(shape) : [of |-> n, role |-> shape[i]] \in Msg
  BY <1>4 DEF Msg
<1>6. DOMAIN shape = 1 .. Len(shape) /\ Len(shape) \in Nat
  BY <1>4
<1> QED BY <1>5, <1>6 DEF Said

\* Everything about one session.
LEMMA OfSession ==
  ASSUME CInv, NEW s \in Session
  PROVE  /\ log[s] \in Seq(Msg) /\ Len(log[s]) \in Nat
         /\ tail[s] \in Ends /\ (tail[s] = "open" => log[s] # <<>>)
         /\ hole[s] \in Holes /\ brokenOff[s] \in Nat /\ (~mem[s].loaded => hole[s] = NoHole)
         /\ meta[s] \in Fields /\ meta[s].lc \in Nat
         /\ mem[s] \in Memory /\ mem[s].hist \in Seq(Msg) /\ Len(mem[s].hist) \in Nat
         /\ mem[s].saved \in Nat /\ mem[s].f \in Fields /\ mem[s].f.lc \in Nat
         /\ turn[s] \in Holder /\ turn[s].pc \in Pcs /\ turn[s].lc \in Nat
         /\ turn[s].kept \in BOOLEAN /\ turn[s].loops \in Nat
         /\ saves[s] \in [Saver -> Checkpoint]
         /\ \A b \in Saver : /\ saves[s][b] \in Checkpoint /\ saves[s][b].f \in Fields
                             /\ saves[s][b].pc \in {"none", "write", "replace"}
                             /\ saves[s][b].f.lc \in Nat
         /\ turns[s] \in 0 .. MaxTurns /\ clean[s] \in BOOLEAN
         /\ Held(mem[s], turn[s], saves[s])
         /\ clean[s] => Kept(Disk(s), mem[s], turn[s], saves[s])
<1>1. /\ log[s] \in Seq(Msg) /\ meta[s] \in Fields /\ mem[s] \in Memory /\ turn[s] \in Holder
      /\ saves[s] \in [Saver -> Checkpoint] /\ turns[s] \in 0 .. MaxTurns /\ clean[s] \in BOOLEAN
  BY DEF CInv, Shaped
<1>2. /\ mem[s].hist \in Seq(Msg) /\ mem[s].saved \in Nat /\ mem[s].f \in Fields
  BY <1>1 DEF Memory
<1>3. /\ turn[s].pc \in Pcs /\ turn[s].lc \in Nat /\ turn[s].kept \in BOOLEAN /\ turn[s].loops \in Nat
  BY <1>1 DEF Holder
<1>4. \A f \in Fields : f.lc \in Nat
  BY DEF Fields
<1>5. \A c \in Checkpoint : c.f \in Fields /\ c.pc \in {"none", "write", "replace"}
  BY DEF Checkpoint
<1>6. \A h \in Seq(Msg) : Len(h) \in Nat
  OBVIOUS
<1>7. /\ Held(mem[s], turn[s], saves[s])
      /\ clean[s] => Kept(Disk(s), mem[s], turn[s], saves[s])
  BY DEF CInv
<1>8. /\ tail[s] \in Ends /\ (tail[s] = "open" => log[s] # <<>>)
      /\ hole[s] \in Holes /\ brokenOff[s] \in Nat /\ (~mem[s].loaded => hole[s] = NoHole)
  BY DEF CInv, Shaped
<1> QED BY <1>1, <1>2, <1>3, <1>4, <1>5, <1>6, <1>7, <1>8

\* All other sessions stay as they are.
OthersStay(s) ==
  \A x \in Session \ {s} :
    /\ log'[x] = log[x] /\ meta'[x] = meta[x] /\ mem'[x] = mem[x] /\ turn'[x] = turn[x]
    /\ saves'[x] = saves[x] /\ clean'[x] = clean[x] /\ tail'[x] = tail[x]
    /\ hole'[x] = hole[x] /\ brokenOff'[x] = brokenOff[x]

\* A step of one session is right when it is right for that session.
LEMMA OneMoves ==
  ASSUME CInv, NEW s \in Session, Shaped', OthersStay(s),
         tail'[s] = "open" => log'[s] # <<>>, ~mem'[s].loaded => hole'[s] = NoHole,
         Held(mem'[s], turn'[s], saves'[s]),
         clean'[s] => Kept(Disk(s)', mem'[s], turn'[s], saves'[s])
  PROVE  CInv'
<1>1. ASSUME NEW x \in Session
      PROVE  /\ tail'[x] = "open" => log'[x] # <<>>
             /\ ~mem'[x].loaded => hole'[x] = NoHole
             /\ Held(mem'[x], turn'[x], saves'[x])
             /\ clean'[x] => Kept(Disk(x)', mem'[x], turn'[x], saves'[x])
  <2>1. CASE x = s
    BY <2>1
  <2>2. CASE x # s
    <3>1. /\ log'[x] = log[x] /\ meta'[x] = meta[x] /\ mem'[x] = mem[x] /\ turn'[x] = turn[x]
          /\ saves'[x] = saves[x] /\ clean'[x] = clean[x] /\ tail'[x] = tail[x]
          /\ hole'[x] = hole[x] /\ Disk(x)' = Disk(x)
      BY <2>2 DEF OthersStay, Disk
    <3>2. /\ tail[x] = "open" => log[x] # <<>>
          /\ ~mem[x].loaded => hole[x] = NoHole
          /\ Held(mem[x], turn[x], saves[x])
          /\ clean[x] => Kept(Disk(x), mem[x], turn[x], saves[x])
      BY DEF CInv
    <3> QED BY <3>1, <3>2
  <2> QED BY <2>1, <2>2
<1> QED BY <1>1 DEF CInv

\* Initially every session is empty and saved.
LEMMA InitEstablishesCInv == Init => CInv
<1> SUFFICES ASSUME Init PROVE CInv
  OBVIOUS
<1>1. NewFields \in Fields
  BY DEF NewFields, Fields
<1>2. NotLoaded \in Memory /\ NoSave \in Checkpoint /\ Free \in Holder
  <2>1. <<>> \in Seq(Msg)
    OBVIOUS
  <2> QED BY <1>1, <2>1 DEF NotLoaded, Memory, NoSave, Checkpoint, Free, Holder, Pcs
<1>3. Shaped
  <2>1. "end" \in Ends /\ NoHole \in Holes
    BY DEF Ends, NoHole, Holes
  <2> QED BY <1>1, <1>2, <2>1, ConversationAssumption DEF Init, Shaped
<1>4. ASSUME NEW s \in Session
      PROVE  /\ tail[s] # "open" /\ hole[s] = NoHole /\ Held(mem[s], turn[s], saves[s])
             /\ Kept(Disk(s), mem[s], turn[s], saves[s])
  <2>1. /\ log[s] = <<>> /\ meta[s] = NewFields /\ mem[s] = NotLoaded /\ turn[s] = Free
        /\ \A b \in Saver : saves[s][b] = NoSave
    BY <1>4 DEF Init
  <2>2. "turn" \in Saver
    BY DEF Saver
  <2>3. Held(mem[s], turn[s], saves[s])
    BY <2>1, <2>2 DEF Held, NotLoaded, Free, NoSave, TurnPc, OpenPc, WaitPc
  <2>4. Kept(Disk(s), mem[s], turn[s], saves[s])
    BY <2>1 DEF Kept, NotLoaded, NoSave
  <2>5. tail[s] # "open" /\ hole[s] = NoHole
    BY DEF Init
  <2> QED BY <2>3, <2>4, <2>5
<1> QED BY <1>3, <1>4 DEF CInv

-----------------------------------------------------------------------------
(* What the parts of a step do                                             *)

\* A new value of the cached object.
LEMMA NewMemory ==
  ASSUME CInv, NEW s \in Session, NEW m \in Memory, Mem(s, m)
  PROVE  /\ mem' \in [Session -> Memory] /\ mem'[s] = m
         /\ \A x \in Session \ {s} : mem'[x] = mem[x]
BY DEF CInv, Shaped, Mem

\* A new value of the holder of the lock.
LEMMA NewHolder ==
  ASSUME CInv, NEW s \in Session, NEW t \in Holder, turn' = [turn EXCEPT ![s] = t]
  PROVE  /\ turn' \in [Session -> Holder] /\ turn'[s] = t
         /\ \A x \in Session \ {s} : turn'[x] = turn[x]
BY DEF CInv, Shaped

\* A new value of one checkpoint of the session.
LEMMA NewCheckpoint ==
  ASSUME CInv, NEW s \in Session, NEW b \in Saver, NEW x \in Checkpoint, Put(s, b, x)
  PROVE  /\ saves' \in [Session -> [Saver -> Checkpoint]]
         /\ saves'[s][b] = x
         /\ \A a \in Saver \ {b} : saves'[s][a] = saves[s][a]
         /\ \A y \in Session \ {s} : saves'[y] = saves[y]
<1>1. saves[s] \in [Saver -> Checkpoint]
  BY OfSession
<1> DEFINE sv == [saves[s] EXCEPT ![b] = x]
<1>2. /\ sv \in [Saver -> Checkpoint] /\ sv[b] = x
      /\ \A a \in Saver \ {b} : sv[a] = saves[s][a]
  BY <1>1
<1>3. saves \in [Session -> [Saver -> Checkpoint]] /\ saves' = [saves EXCEPT ![s] = sv]
  BY DEF CInv, Shaped, Put
<1> HIDE DEF sv
<1>4. /\ saves' \in [Session -> [Saver -> Checkpoint]] /\ saves'[s] = sv
      /\ \A y \in Session \ {s} : saves'[y] = saves[y]
  BY <1>2, <1>3
<1> QED BY <1>2, <1>4

\* The holder goes on to another place.
LEMMA Onward ==
  ASSUME CInv, NEW s \in Session, NEW pc \in Pcs, At(s, pc)
  PROVE  /\ turn' \in [Session -> Holder]
         /\ turn'[s].pc = pc /\ turn'[s].lc = turn[s].lc /\ turn'[s].kept = turn[s].kept
         /\ \A x \in Session \ {s} : turn'[x] = turn[x]
<1> DEFINE t == [turn[s] EXCEPT !.pc = pc]
<1>1. turn[s] \in Holder
  BY OfSession
<1>2. t \in Holder /\ t.pc = pc /\ t.lc = turn[s].lc /\ t.kept = turn[s].kept
  BY <1>1 DEF Holder
<1>3. turn' = [turn EXCEPT ![s] = t]
  BY DEF At
<1> HIDE DEF t
<1>4. turn'[s] = t /\ turn' \in [Session -> Holder] /\ \A x \in Session \ {s} : turn'[x] = turn[x]
  BY <1>2, <1>3, NewHolder
<1> QED BY <1>2, <1>4

\* The lock is given back.
LEMMA GivenBack ==
  ASSUME CInv, NEW s \in Session, Unlock(s)
  PROVE  /\ turn' \in [Session -> Holder] /\ turn'[s].pc = "free"
         /\ \A x \in Session \ {s} : turn'[x] = turn[x]
<1>1. Free \in Holder /\ Free.pc = "free"
  BY DEF Free, Holder, Pcs
<1> QED BY <1>1, NewHolder DEF Unlock

\* A checkpoint starts: beside another one the session is no longer clean.
LEMMA SaveStarted ==
  ASSUME CInv, NEW s \in Session, NEW b \in Saver, StartSave(s, b)
  PROVE  /\ saves' \in [Session -> [Saver -> Checkpoint]]
         /\ saves'[s][b].pc = "write"
         /\ \A a \in Saver \ {b} : saves'[s][a] = saves[s][a]
         /\ \A y \in Session \ {s} : saves'[y] = saves[y]
         /\ clean' \in [Session -> BOOLEAN]
         /\ \A y \in Session \ {s} : clean'[y] = clean[y]
         /\ clean'[s] => clean[s] /\ \A a \in Saver : saves[s][a].pc = "none"
<1> DEFINE x == [pc |-> "write", f |-> NewFields]
<1>1. x \in Checkpoint /\ x.pc = "write"
  BY DEF Checkpoint, NewFields, Fields
<1>2. Put(s, b, x)
  BY DEF StartSave
<1> HIDE DEF x
<1>3. /\ saves' \in [Session -> [Saver -> Checkpoint]]
      /\ saves'[s][b] = x
      /\ \A a \in Saver \ {b} : saves'[s][a] = saves[s][a]
      /\ \A y \in Session \ {s} : saves'[y] = saves[y]
  BY <1>1, <1>2, NewCheckpoint
<1>4. clean \in [Session -> BOOLEAN] /\ clean' = [clean EXCEPT ![s] = clean[s] /\ ~Saving(s)]
  BY DEF CInv, Shaped, StartSave
<1>5. /\ clean' \in [Session -> BOOLEAN]
      /\ \A y \in Session \ {s} : clean'[y] = clean[y]
      /\ clean'[s] => clean[s] /\ ~Saving(s)
  BY <1>4
<1> QED BY <1>1, <1>3, <1>5 DEF Saving

\* A checkpoint failed.
LEMMA NoLongerClean ==
  ASSUME CInv, NEW s \in Session, clean' = [clean EXCEPT ![s] = FALSE]
  PROVE  /\ clean' \in [Session -> BOOLEAN] /\ ~clean'[s]
         /\ \A y \in Session \ {s} : clean'[y] = clean[y]
BY DEF CInv, Shaped

\* What an append that has begun n messages leaves is a list of messages, and there is one
\* if the newline of its last one is missing.
LEMMA BegunLines ==
  ASSUME CInv, NEW s \in Session, NEW n \in 0 .. Len(Unsaved(s)), NEW e \in Ends
  PROVE  /\ Begun(s, n, e).log \in Seq(Msg) /\ Begun(s, n, e).tail \in Ends
         /\ Begun(s, n, e).tail = "open" => Begun(s, n, e).log # <<>>
<1> DEFINE u == Unsaved(s)
           from == IF tail[s] = "end" THEN 1 ELSE 2
           to == IF e = "half" THEN n - 1 ELSE n
           l == IF n > 0 /\ tail[s] = "open" THEN Front(log[s]) ELSE log[s]
           x == SubSeq(u, from, to)
<1>1. /\ log[s] \in Seq(Msg) /\ tail[s] \in Ends /\ (tail[s] = "open" => log[s] # <<>>)
      /\ mem[s].hist \in Seq(Msg) /\ mem[s].saved \in 0 .. Len(mem[s].hist)
  BY OfSession DEF Held
<1>2. u \in Seq(Msg) /\ Len(u) \in Nat
  BY <1>1, Histories DEF Unsaved
<1>3. l \in Seq(Msg)
  <2>1. CASE n > 0 /\ tail[s] = "open"
    <3>1. Len(log[s]) - 1 \in 0 .. Len(log[s])
      BY <1>1, <2>1
    <3> QED BY <1>1, <2>1, <3>1, Histories DEF Front
  <2> QED BY <1>1, <2>1
<1>4. /\ x \in Seq(Msg)
      /\ from <= to => Len(x) = to - from + 1
  <2>1. CASE n = 0 /\ e = "half"
    <3>1. to < from /\ to \in Int /\ from \in Int
      BY <2>1
    <3>2. x = <<>>
      BY <3>1, SubSeqEmpty
    <3> QED BY <3>1, <3>2
  <2>2. CASE ~(n = 0 /\ e = "half")
    <3>1. to \in 0 .. Len(u) /\ from \in Nat \ {0}
      BY <1>2, <2>2
    <3> HIDE DEF from, to, u
    <3> QED BY <1>2, <3>1, PartOf
  <2> QED BY <2>1, <2>2
<1>5. Begun(s, n, e).log = l \o x
  BY DEF Begun
<1>6. Begun(s, n, e).tail = IF n = 0 THEN tail[s]
                            ELSE IF e = "open" /\ n = 1 /\ tail[s] # "end" THEN "half" ELSE e
  BY DEF Begun
<1>7. Begun(s, n, e).tail = "open" => (n = 0 /\ tail[s] = "open") \/ from <= to
  BY <1>2, <1>6 DEF Ends
<1>8. n = 0 /\ tail[s] = "open" => l # <<>>
  BY <1>1
<1>9. from <= to => x # <<>>
  <2>1. from \in Int /\ to \in Int
    BY <1>2
  <2> HIDE DEF x, from, to
  <2> QED BY <1>4, <2>1
<1> HIDE DEF l, x, from, to
<1>10. l \o x \in Seq(Msg) /\ (l # <<>> \/ x # <<>> => l \o x # <<>>)
  BY <1>3, <1>4, ConcatProperties, ConcatEqualIffEmpty
<1>11. Begun(s, n, e).tail \in Ends
  BY <1>1, <1>6 DEF Ends
<1> QED BY <1>5, <1>7, <1>8, <1>9, <1>10, <1>11

-----------------------------------------------------------------------------
(* Checkpoints                                                             *)

\* A file that holds what counts as saved holds the history when the rest is appended.
LEMMA WrittenOut ==
  ASSUME CInv, NEW s \in Session, NEW b \in Saver, SaveWrite(s, b),
         Holds(Disk(s), SubSeq(mem[s].hist, 1, mem[s].saved))
  PROVE  Holds(Disk(s)', mem[s].hist)
<1> DEFINE h == mem[s].hist
           k == mem[s].saved
           p == SubSeq(h, 1, k)
           u == SubSeq(h, k + 1, Len(h))
           g == hole[s]
<1>1. /\ h \in Seq(Msg) /\ k \in 0 .. Len(h) /\ g \in Holes /\ log[s] \in Seq(Msg)
      /\ tail[s] \in Ends /\ (tail[s] = "open" => log[s] # <<>>)
      /\ log \in [Session -> Seq(Msg)] /\ tail \in [Session -> Ends]
      /\ hole \in [Session -> Holes]
  BY OfSession DEF Held, CInv, Shaped
<1>2. Unsaved(s) = u
  BY DEF Unsaved
<1>3. /\ log[s] = Found(p, g) /\ 0 <= g.at /\ (tail[s] # "end" => g = NoHole)
      /\ g.at + g.size <= Len(p)
  BY DEF Holds, Disk
<1>4. /\ log'[s] = Begun(s, Len(u), "end").log /\ tail'[s] = Begun(s, Len(u), "end").tail
  BY <1>1, <1>2 DEF SaveWrite, Lengthen
<1>5. hole'[s] = CASE u = <<>> \/ tail[s] = "end" -> g
                   [] u # <<>> /\ tail[s] = "open" -> [at |-> k - 1, size |-> 2]
                   [] u # <<>> /\ tail[s] = "half" -> [at |-> k, size |-> 1]
  BY <1>1, <1>2 DEF SaveWrite
<1> HIDE DEF h, k
<1>6. p \in Seq(Msg) /\ Len(p) = k /\ u \in Seq(Msg) /\ p \o u = h
  BY <1>1, Histories
<1>7. Len(u) = Len(h) - k
  <2>1. k + 1 \in Nat \ {0} /\ Len(h) \in 0 .. Len(h) /\ Len(h) \in Nat
    BY <1>1
  <2>2. Len(u) = IF k + 1 <= Len(h) THEN Len(h) - (k + 1) + 1 ELSE 0
    BY <1>1, <2>1, PartOf
  <2> HIDE DEF u
  <2> QED BY <1>1, <2>1, <2>2
<1> HIDE DEF u, p, g
<1>8. k \in Nat /\ Len(h) \in Nat /\ Len(u) \in Nat /\ (u # <<>> => k + 1 <= Len(h) /\ Len(u) # 0)
  BY <1>1, <1>6, <1>7
<1>9. /\ log'[s] = Found(h, hole'[s])
      /\ 0 <= hole'[s].at /\ hole'[s].at + hole'[s].size <= Len(h)
  <2>1. CASE u = <<>>
    <3>1. hole'[s] = g /\ Len(u) = 0 /\ p = h
      BY <1>5, <1>6, <2>1, ConcatEmptySeq
    <3>2. Begun(s, 0, "end").log = log[s] \o SubSeq(u, IF tail[s] = "end" THEN 1 ELSE 2, 0)
      <4>1. Begun(s, 0, "end").log =
              (IF 0 > 0 /\ tail[s] = "open" THEN Front(log[s]) ELSE log[s])
              \o SubSeq(Unsaved(s), IF tail[s] = "end" THEN 1 ELSE 2,
                        IF "end" = "half" THEN 0 - 1 ELSE 0)
        BY DEF Begun
      <4>2. ~(0 > 0) /\ "end" # "half"
        OBVIOUS
      <4> QED BY <1>2, <4>1, <4>2
    <3>3. SubSeq(u, IF tail[s] = "end" THEN 1 ELSE 2, 0) = <<>>
      BY SubSeqEmpty
    <3>4. log[s] \o <<>> = log[s]
      BY <1>1, ConcatEmptySeq
    <3>5. log'[s] = log[s]
      BY <1>4, <3>1, <3>2, <3>3, <3>4
    <3> QED BY <1>3, <3>1, <3>5
  <2>2. CASE u # <<>> /\ tail[s] = "end"
    <3>1. Begun(s, Len(u), "end").log = log[s] \o SubSeq(u, 1, Len(u))
      BY <1>2, <2>2 DEF Begun
    <3>2. SubSeq(u, 1, Len(u)) = u
      BY <1>6, SubSeqFull
    <3>3. hole'[s] = g
      BY <1>5, <2>2
    <3>4. Found(p \o u, g) = Found(p, g) \o u
      BY <1>1, <1>3, <1>6, FoundGrows
    <3>5. g.at + g.size <= Len(h)
      BY <1>1, <1>3, <1>6, <1>7, <1>8 DEF Holes
    <3> QED BY <1>3, <1>4, <1>6, <3>1, <3>2, <3>3, <3>4, <3>5
  <2>3. CASE u # <<>> /\ tail[s] = "half"
    <3>1. Begun(s, Len(u), "end").log = log[s] \o SubSeq(u, 2, Len(u))
      BY <1>2, <2>3 DEF Begun
    <3>2. log[s] = p
      BY <1>3, <1>6, <2>3, FoundAll
    <3>3. SubSeq(p, 1, k) = p
      BY <1>6, SubSeqFull
    <3>4. SubSeq(p, 1, k - 0) \o SubSeq(u, 2, Len(h) - k)
            = Found(h, [at |-> k - 0, size |-> 0 + 1])
      <4>1. 0 \in 0 .. 1 /\ 0 <= k /\ k + 1 <= Len(h)
        BY <1>8, <2>3
      <4> QED BY <1>1, <1>8, <4>1, Glued DEF p, u
    <3>5. SubSeq(p, 1, k) \o SubSeq(u, 2, Len(h) - k) = Found(h, [at |-> k, size |-> 1])
      <4>1. k - 0 = k /\ 0 + 1 = 1
        BY <1>8
      <4> QED BY <3>4, <4>1
    <3>6. hole'[s] = [at |-> k, size |-> 1]
      BY <1>5, <2>3
    <3>7. hole'[s].at = k /\ hole'[s].size = 1
      BY <3>6
    <3>8. 0 <= hole'[s].at /\ hole'[s].at + hole'[s].size <= Len(h)
      BY <1>8, <2>3, <3>7
    <3> QED BY <1>4, <1>7, <3>1, <3>2, <3>3, <3>5, <3>6, <3>8
  <2>4. CASE u # <<>> /\ tail[s] = "open"
    <3>1. Len(u) > 0
      BY <1>8, <2>4
    <3>2. Begun(s, Len(u), "end").log = Front(log[s]) \o SubSeq(u, 2, Len(u))
      BY <1>2, <2>4, <3>1 DEF Begun
    <3>3. log[s] = p
      BY <1>3, <1>6, <2>4, FoundAll
    <3>4. Front(log[s]) = SubSeq(p, 1, k - 1) /\ 1 <= k
      BY <1>1, <1>6, <1>8, <2>4, <3>3 DEF Front
    <3>5. SubSeq(p, 1, k - 1) \o SubSeq(u, 2, Len(h) - k)
            = Found(h, [at |-> k - 1, size |-> 1 + 1])
      <4>1. 1 \in 0 .. 1 /\ k + 1 <= Len(h)
        BY <1>8, <2>4
      <4> QED BY <1>1, <1>8, <3>4, <4>1, Glued DEF p, u
    <3>6. SubSeq(p, 1, k - 1) \o SubSeq(u, 2, Len(h) - k) = Found(h, [at |-> k - 1, size |-> 2])
      <4>1. 1 + 1 = 2
        OBVIOUS
      <4> QED BY <3>5, <4>1
    <3>7. hole'[s] = [at |-> k - 1, size |-> 2]
      BY <1>5, <2>4
    <3>8. hole'[s].at = k - 1 /\ hole'[s].size = 2
      BY <3>7
    <3>9. 0 <= hole'[s].at /\ hole'[s].at + hole'[s].size <= Len(h)
      BY <1>8, <2>4, <3>4, <3>8
    <3> QED BY <1>4, <1>7, <3>2, <3>4, <3>6, <3>7, <3>9
  <2> QED BY <1>1, <2>1, <2>2, <2>3, <2>4 DEF Ends
<1>10. tail'[s] # "end" => hole'[s] = NoHole
  <2>1. CASE u = <<>>
    <3>1. Len(u) = 0
      BY <2>1
    <3>2. Begun(s, 0, "end").tail = tail[s]
      BY DEF Begun
    <3> QED BY <1>3, <1>4, <1>5, <2>1, <3>1, <3>2
  <2>2. CASE u # <<>>
    <3>1. Len(u) # 0
      BY <1>8, <2>2
    <3> QED BY <1>4, <3>1 DEF Begun
  <2> QED BY <2>1, <2>2
<1> QED BY <1>9, <1>10 DEF Holds, Disk, h

\* The thread appends what is not saved: the file holds the history.
LEMMA SaveWriteStep ==
  ASSUME CInv, NEW s \in Session, NEW b \in Saver, SaveWrite(s, b)
  PROVE  CInv'
<1> DEFINE x == [pc |-> "replace", f |-> mem[s].f]
           n == Len(Unsaved(s))
<1>1. /\ saves[s][b].pc = "write" /\ Put(s, b, x)
      /\ Lengthen(s, n, "end")
      /\ UNCHANGED <<meta, mem, turn, turns, titling, clean, brokenOff, parted, faults>>
  BY DEF SaveWrite
<1>2. /\ mem[s].hist \in Seq(Msg) /\ mem[s].saved \in 0 .. Len(mem[s].hist)
      /\ mem[s].f \in Fields
      /\ \A a \in Saver : saves[s][a].pc \in {"none", "write", "replace"}
  BY OfSession DEF Held
<1>3. Unsaved(s) \in Seq(Msg)
  BY <1>2, Histories DEF Unsaved
<1>4. n \in 0 .. n /\ "end" \in Ends
  BY <1>3 DEF Ends
<1>5. /\ Begun(s, n, "end").log \in Seq(Msg) /\ Begun(s, n, "end").tail \in Ends
      /\ Begun(s, n, "end").tail = "open" => Begun(s, n, "end").log # <<>>
  BY <1>4, BegunLines
<1> HIDE DEF n
<1>6. /\ log' \in [Session -> Seq(Msg)] /\ tail' \in [Session -> Ends]
      /\ tail'[s] = "open" => log'[s] # <<>>
      /\ \A y \in Session \ {s} : log'[y] = log[y] /\ tail'[y] = tail[y]
  BY <1>1, <1>5 DEF CInv, Shaped, Lengthen
<1>7. /\ hole' \in [Session -> Holes] /\ \A y \in Session \ {s} : hole'[y] = hole[y]
  <2> DEFINE w == CASE Unsaved(s) = <<>> \/ tail[s] = "end" -> hole[s]
                    [] Unsaved(s) # <<>> /\ tail[s] = "open" -> [at |-> mem[s].saved - 1, size |-> 2]
                    [] Unsaved(s) # <<>> /\ tail[s] = "half" -> [at |-> mem[s].saved, size |-> 1]
  <2>1. hole' = [hole EXCEPT ![s] = w] /\ hole \in [Session -> Holes]
    BY DEF SaveWrite, CInv, Shaped
  <2>2. w \in Holes
    <3>1. tail[s] \in Ends /\ hole[s] \in Holes
      BY OfSession
    <3>2. CASE Unsaved(s) = <<>> \/ tail[s] = "end"
      BY <3>1, <3>2
    <3>3. CASE Unsaved(s) # <<>> /\ tail[s] = "half"
      BY <1>2, <3>3 DEF Holes
    <3>4. CASE Unsaved(s) # <<>> /\ tail[s] = "open"
      <4>1. mem[s].saved - 1 \in Int
        BY <1>2
      <4> QED BY <3>4, <4>1 DEF Holes
    <3> QED BY <3>1, <3>2, <3>3, <3>4 DEF Ends
  <2> HIDE DEF w
  <2> QED BY <2>1, <2>2
<1>8. x \in Checkpoint /\ x.pc = "replace" /\ x.f = mem[s].f
  BY <1>2 DEF Checkpoint
<1> HIDE DEF x
<1>9. /\ saves' \in [Session -> [Saver -> Checkpoint]] /\ saves'[s][b] = x
      /\ \A a \in Saver \ {b} : saves'[s][a] = saves[s][a]
      /\ \A y \in Session \ {s} : saves'[y] = saves[y]
  BY <1>1, <1>8, NewCheckpoint
<1>10. Shaped' /\ OthersStay(s)
  BY <1>1, <1>6, <1>7, <1>9 DEF CInv, Shaped, OthersStay
<1>11. Held(mem[s], turn[s], saves'[s]) /\ mem[s].loaded
  <2>1. Held(mem[s], turn[s], saves[s])
    BY OfSession
  <2> QED BY <1>1, <1>8, <1>9, <2>1 DEF Held, Saver
<1>12. ASSUME clean[s] PROVE Kept(Disk(s)', mem[s], turn[s], saves'[s])
  <2>1. Kept(Disk(s), mem[s], turn[s], saves[s]) /\ mem[s].loaded
    BY <1>1, <1>12, OfSession DEF Held
  <2>2. \A a \in Saver \ {b} : saves[s][a].pc = "none"
    BY <1>1, <2>1 DEF Kept
  <2>3. Holds(Disk(s)', mem[s].hist)
    <3>1. Holds(Disk(s), SubSeq(mem[s].hist, 1, mem[s].saved))
      BY <1>1, <2>1 DEF Kept, Mirrored
    <3> QED BY <3>1, WrittenOut
  <2>4. turn[s].pc \in TurnPc => turn[s].lc <= mem[s].f.lc
    BY OfSession DEF Held
  <2>5. mem[s].f.lc \in Nat
    BY OfSession
  <2>6. \A a \in Saver : /\ saves'[s][a].pc = IF a = b THEN "replace" ELSE "none"
                         /\ a = b => saves'[s][a].f = mem[s].f
    BY <1>8, <1>9, <2>2
  <2>7. Mirrored(Disk(s)', mem[s], saves'[s])
    BY <2>3, <2>6 DEF Mirrored
  <2>8. \A y : y <= mem[s].f.lc => Covered(y, Disk(s)', saves'[s])
    BY <2>6 DEF Covered
  <2>9. saves'[s]["turn"].pc = "replace" => mem[s].f.lc <= saves'[s]["turn"].f.lc
    BY <2>5, <2>6 DEF Saver
  <2> QED BY <2>4, <2>5, <2>6, <2>7, <2>8, <2>9 DEF Kept
<1> QED BY <1>1, <1>6, <1>10, <1>11, <1>12, OneMoves

\* What the holder does when its checkpoint is down or has failed.
LEMMA Resumed ==
  ASSUME CInv, NEW s \in Session, NEW b \in Saver, saves[s][b].pc # "none",
         NEW ok \in BOOLEAN, Resume(s, b, ok)
  PROVE  /\ turn' \in [Session -> Holder] /\ titling' \subseteq Session
         /\ \A x \in Session \ {s} : turn'[x] = turn[x]
         /\ b # "turn" => turn'[s] = turn[s]
         /\ b = "turn" => \/ turn'[s].pc = "free"
                          \/ /\ turn'[s].pc = "record" /\ turn'[s].lc = turn[s].lc
                             /\ turn[s].pc = "saveCompaction"
<1>0. turn \in [Session -> Holder] /\ titling \subseteq Session
  BY DEF CInv, Shaped
<1>1. CASE b # "turn"
  BY <1>0, <1>1 DEF Resume
<1>2. CASE b = "turn"
  <2>1. turn[s].pc \in WaitPc
    BY <1>2, OfSession DEF Held
  <2>2. CASE turn[s].pc = "saveCompaction"
    <3> DEFINE t == [pc |-> "record", lc |-> turn[s].lc, kept |-> ok, loops |-> turn[s].loops]
    <3>1. t \in Holder /\ t.pc = "record" /\ t.lc = turn[s].lc
      BY OfSession DEF Holder, Pcs, TurnPc
    <3>2. turn' = [turn EXCEPT ![s] = t] /\ titling' = titling
      BY <1>2, <2>2 DEF Resume
    <3> HIDE DEF t
    <3>3. /\ turn' \in [Session -> Holder] /\ turn'[s] = t
          /\ \A x \in Session \ {s} : turn'[x] = turn[x]
      BY <3>1, <3>2, NewHolder
    <3> QED BY <1>0, <1>2, <2>2, <3>1, <3>2, <3>3
  <2>3. CASE turn[s].pc = "saveAnswer"
    <3>1. Unlock(s) /\ TitleDue(s)
      BY <1>2, <2>3 DEF Resume
    <3>2. titling' \subseteq Session
      BY <1>0, <3>1 DEF TitleDue
    <3> QED BY <1>2, <3>1, <3>2, GivenBack
  <2>4. CASE turn[s].pc = "saveClosed"
    <3>1. Unlock(s) /\ titling' = titling
      BY <1>2, <2>4 DEF Resume
    <3> QED BY <1>0, <1>2, <3>1, GivenBack
  <2> QED BY <2>1, <2>2, <2>3, <2>4 DEF WaitPc
<1> QED BY <1>1, <1>2

\* The fields are down: everything in memory counts as saved.
LEMMA SaveReplaceStep ==
  ASSUME CInv, NEW s \in Session, NEW b \in Saver, SaveReplace(s, b)
  PROVE  CInv'
<1> DEFINE m == [mem[s] EXCEPT !.saved = Len(mem[s].hist)]
           f == saves[s][b].f
<1>1. /\ saves[s][b].pc = "replace" /\ Put(s, b, NoSave) /\ Mem(s, m)
      /\ meta' = [meta EXCEPT ![s] = f] /\ Resume(s, b, TRUE)
      /\ UNCHANGED <<log, tail, turns, clean, hole, brokenOff, parted, faults>>
  BY DEF SaveReplace
<1>2. /\ mem[s] \in Memory /\ Len(mem[s].hist) \in Nat /\ f \in Fields
      /\ Held(mem[s], turn[s], saves[s])
  BY OfSession
<1>3. /\ m \in Memory /\ m.hist = mem[s].hist /\ m.saved = Len(mem[s].hist)
      /\ m.loaded = mem[s].loaded /\ m.f = mem[s].f
  BY <1>2 DEF Memory
<1>4. NoSave \in Checkpoint /\ NoSave.pc = "none"
  BY DEF NoSave, Checkpoint, NewFields, Fields
<1> HIDE DEF m, f
<1>5. /\ mem' \in [Session -> Memory] /\ mem'[s] = m /\ \A x \in Session \ {s} : mem'[x] = mem[x]
  BY <1>1, <1>3, NewMemory
<1>6. /\ saves' \in [Session -> [Saver -> Checkpoint]] /\ saves'[s][b] = NoSave
      /\ \A a \in Saver \ {b} : saves'[s][a] = saves[s][a]
      /\ \A y \in Session \ {s} : saves'[y] = saves[y]
  BY <1>1, <1>4, NewCheckpoint
<1>7. /\ turn' \in [Session -> Holder] /\ titling' \subseteq Session
      /\ \A x \in Session \ {s} : turn'[x] = turn[x]
      /\ b # "turn" => turn'[s] = turn[s]
      /\ b = "turn" => \/ turn'[s].pc = "free"
                       \/ /\ turn'[s].pc = "record" /\ turn'[s].lc = turn[s].lc
                          /\ turn[s].pc = "saveCompaction"
  BY <1>1, Resumed
<1>8. /\ meta' \in [Session -> Fields] /\ meta'[s] = f
      /\ \A x \in Session \ {s} : meta'[x] = meta[x]
  BY <1>1, <1>2 DEF CInv, Shaped
<1>9. Shaped' /\ OthersStay(s)
  BY <1>1, <1>5, <1>6, <1>7, <1>8 DEF CInv, Shaped, OthersStay
<1>10. Held(m, turn'[s], saves'[s])
  <2>1. m.saved <= Len(m.hist) /\ m.loaded
    BY <1>1, <1>2, <1>3 DEF Held
  <2>2. CASE b # "turn"
    BY <1>2, <1>3, <1>6, <1>7, <2>1, <2>2 DEF Held, Saver
  <2>3. CASE b = "turn"
    <3>1. saves'[s]["turn"].pc = "none"
      BY <1>4, <1>6, <2>3
    <3>2. turn'[s].pc \in TurnPc => turn'[s].lc <= m.f.lc
      BY <1>2, <1>3, <1>7, <2>3 DEF Held, TurnPc
    <3> QED BY <1>7, <2>1, <2>3, <3>1, <3>2 DEF Held, WaitPc, OpenPc
  <2> QED BY <2>2, <2>3
<1>11. ASSUME clean[s] PROVE Kept(Disk(s)', m, turn'[s], saves'[s])
  <2> DEFINE d == Disk(s)
             e == Disk(s)'
  <2>1. Kept(d, mem[s], turn[s], saves[s]) /\ mem[s].loaded
    BY <1>1, <1>2, <1>11, OfSession DEF Held
  <2>2. \A a \in Saver : saves'[s][a].pc = "none"
    BY <1>1, <1>4, <1>6, <2>1 DEF Kept
  <2>3. /\ e.log = d.log /\ e.tail = d.tail /\ e.hole = d.hole /\ e.off = d.off /\ e.meta = f
    BY <1>1, <1>8 DEF Disk
  <2> HIDE DEF d, e
  <2>4. Holds(d, m.hist) /\ m.saved = Len(m.hist)
    BY <1>1, <1>3, <2>1 DEF Kept, Mirrored
  <2>5. Mirrored(e, m, saves'[s])
    BY <2>2, <2>3, <2>4 DEF Mirrored, Holds
  <2>6. \A y : y = d.off \/ y <= f.lc => Covered(y, e, saves'[s])
    BY <2>2, <2>3 DEF Covered
  <2>7. \A y : Covered(y, d, saves[s]) => y = d.off \/ y <= f.lc
    BY <1>1 DEF Covered, f
  <2>8. b = "turn" => m.f.lc <= f.lc
    BY <1>1, <1>3, <2>1 DEF Kept, f
  <2>9. turn'[s].pc \in SettledPc => Covered(m.f.lc, e, saves'[s])
    <3>1. CASE b # "turn"
      BY <1>3, <1>7, <2>1, <2>6, <2>7, <3>1 DEF Kept
    <3>2. CASE b = "turn"
      BY <2>6, <2>8, <3>2
    <3> QED BY <3>1, <3>2
  <2>10. turn'[s].pc \in TurnPc => Covered(turn'[s].lc, e, saves'[s])
    <3>1. CASE b # "turn"
      BY <1>7, <2>1, <2>6, <2>7, <3>1 DEF Kept
    <3>2. CASE b = "turn"
      BY <1>7, <2>1, <2>6, <2>7, <3>2 DEF Kept, TurnPc
    <3> QED BY <3>1, <3>2
  <2>11. saves'[s]["turn"].pc = "none"
    BY <2>2 DEF Saver
  <2>12. Kept(e, m, turn'[s], saves'[s])
    BY <2>2, <2>5, <2>9, <2>10, <2>11 DEF Kept
  <2> QED BY <2>12 DEF e
<1>12. (tail'[s] = "open" => log'[s] # <<>>) /\ m.loaded
  BY <1>1, <1>2, <1>3, OfSession DEF Held
<1> QED BY <1>1, <1>5, <1>9, <1>10, <1>11, <1>12, OneMoves

\* A checkpoint fails, with any part of its messages in the file.
LEMMA SaveFailsStep ==
  ASSUME CInv, NEW s \in Session, NEW b \in Saver, SaveFails(s, b)
  PROVE  CInv'
<1>1. /\ saves[s][b].pc # "none" /\ Put(s, b, NoSave) /\ Resume(s, b, FALSE)
      /\ clean' = [clean EXCEPT ![s] = FALSE] /\ faults' = faults + 1
      /\ UNCHANGED <<meta, mem, turns, hole, brokenOff>>
  BY DEF SaveFails, Fault
<1>2. Held(mem[s], turn[s], saves[s])
  BY OfSession
<1>3. NoSave \in Checkpoint /\ NoSave.pc = "none"
  BY DEF NoSave, Checkpoint, NewFields, Fields
<1>4. /\ saves' \in [Session -> [Saver -> Checkpoint]] /\ saves'[s][b] = NoSave
      /\ \A a \in Saver \ {b} : saves'[s][a] = saves[s][a]
      /\ \A y \in Session \ {s} : saves'[y] = saves[y]
  BY <1>1, <1>3, NewCheckpoint
<1>5. /\ turn' \in [Session -> Holder] /\ titling' \subseteq Session
      /\ \A x \in Session \ {s} : turn'[x] = turn[x]
      /\ b # "turn" => turn'[s] = turn[s]
      /\ b = "turn" => \/ turn'[s].pc = "free"
                       \/ /\ turn'[s].pc = "record" /\ turn'[s].lc = turn[s].lc
                          /\ turn[s].pc = "saveCompaction"
  BY <1>1, Resumed
<1>6. /\ clean' \in [Session -> BOOLEAN] /\ ~clean'[s]
      /\ \A y \in Session \ {s} : clean'[y] = clean[y]
  BY <1>1, NoLongerClean
<1>7. PICK n \in 0 .. Len(Unsaved(s)), e \in Ends :
        Lengthen(s, n, e) /\ parted' = IF Whole(s, n, e) THEN parted ELSE parted \cup {s}
  BY DEF SaveFails
<1>8. /\ Begun(s, n, e).log \in Seq(Msg) /\ Begun(s, n, e).tail \in Ends
      /\ Begun(s, n, e).tail = "open" => Begun(s, n, e).log # <<>>
  BY BegunLines
<1>9. /\ log' \in [Session -> Seq(Msg)] /\ tail' \in [Session -> Ends]
      /\ tail'[s] = "open" => log'[s] # <<>>
      /\ \A y \in Session \ {s} : log'[y] = log[y] /\ tail'[y] = tail[y]
  BY <1>7, <1>8 DEF CInv, Shaped, Lengthen
<1>10. Shaped' /\ OthersStay(s)
  BY <1>1, <1>4, <1>5, <1>6, <1>7, <1>9 DEF CInv, Shaped, OthersStay
<1>11. Held(mem[s], turn'[s], saves'[s]) /\ mem[s].loaded
  <2>1. mem[s].loaded
    BY <1>1, <1>2 DEF Held
  <2>2. CASE b # "turn"
    BY <1>2, <1>4, <1>5, <2>1, <2>2 DEF Held, Saver
  <2>3. CASE b = "turn"
    <3>1. saves'[s]["turn"].pc = "none"
      BY <1>3, <1>4, <2>3
    <3>2. turn'[s].pc \in TurnPc => turn'[s].lc <= mem[s].f.lc
      BY <1>2, <1>5, <2>3 DEF Held, TurnPc
    <3> QED BY <1>2, <1>5, <2>1, <2>3, <3>1, <3>2 DEF Held, WaitPc, OpenPc
  <2> QED BY <2>2, <2>3
<1> QED BY <1>1, <1>6, <1>9, <1>10, <1>11, OneMoves

-----------------------------------------------------------------------------
(* Turns                                                                   *)

\* A step that touches no file and no checkpoint: what is to be shown is that its
\* new object and its new place fit together.
LEMMA NoFiles ==
  ASSUME CInv, NEW s \in Session, UNCHANGED <<log, tail, meta, saves, turns, clean, hole, brokenOff, parted>>,
         titling' \subseteq Session, faults' \in Nat,
         mem' \in [Session -> Memory], \A x \in Session \ {s} : mem'[x] = mem[x],
         turn' \in [Session -> Holder], \A x \in Session \ {s} : turn'[x] = turn[x],
         turn[s].pc \notin WaitPc, turn'[s].pc \notin WaitPc,
         mem'[s].loaded, mem'[s].saved <= Len(mem'[s].hist),
         turn'[s].pc = "overflow" => Len(mem'[s].hist) - mem'[s].f.lc > Replay,
         turn'[s].pc \in TurnPc => turn'[s].lc <= mem'[s].f.lc,
         turn'[s].pc \in OpenPc => ~turn'[s].kept,
         clean[s] => /\ Mirrored(Disk(s), mem'[s], saves[s])
                     /\ turn'[s].pc \in SettledPc => Covered(mem'[s].f.lc, Disk(s), saves[s])
                     /\ turn'[s].pc \in TurnPc => Covered(turn'[s].lc, Disk(s), saves[s])
  PROVE  CInv'
<1>1. Shaped' /\ OthersStay(s)
  BY DEF CInv, Shaped, OthersStay
<1>2. saves[s]["turn"].pc = "none"
  BY OfSession DEF Held
<1>3. Held(mem'[s], turn'[s], saves[s])
  BY <1>2 DEF Held
<1>4. ASSUME clean[s] PROVE Kept(Disk(s), mem'[s], turn'[s], saves[s])
  <2>1. Kept(Disk(s), mem[s], turn[s], saves[s])
    BY <1>4, OfSession
  <2> QED BY <1>2, <1>4, <2>1 DEF Kept
<1>5. Disk(s)' = Disk(s) /\ (tail'[s] = "open" => log'[s] # <<>>)
  BY OfSession DEF Disk
<1> QED BY <1>1, <1>3, <1>4, <1>5, OneMoves

\* The object of a session, from the cache or from disk.
LEMMA TheObject ==
  ASSUME CInv, NEW s \in Session
  PROVE  LET m == Reopened(Cached(s))
         IN /\ m \in Memory /\ m.loaded /\ m.saved <= Len(m.hist) /\ m.hist \in Seq(Msg)
            /\ m.f.lc \in Nat /\ m.f.lc = Cached(s).f.lc /\ m.hist = Cached(s).hist
            /\ clean[s] => /\ Mirrored(Disk(s), m, saves[s])
                           /\ turn[s].pc = "free" => Covered(m.f.lc, Disk(s), saves[s])
<1> DEFINE c == Cached(s)
           m == Reopened(c)
<1>1. /\ c \in Memory /\ c.loaded /\ c.saved <= Len(c.hist)
      /\ clean[s] => /\ Mirrored(Disk(s), c, saves[s])
                     /\ turn[s].pc = "free" => Covered(c.f.lc, Disk(s), saves[s])
  <2>1. CASE mem[s].loaded
    <3>1. c = mem[s]
      BY <2>1 DEF Cached
    <3> HIDE DEF c
    <3> QED BY <2>1, <3>1, OfSession DEF Held, Kept, SettledPc
  <2>2. CASE ~mem[s].loaded
    <3>1. c = [hist |-> log[s], saved |-> Len(log[s]), loaded |-> TRUE, f |-> meta[s]]
      BY <2>2 DEF Cached, FromDisk
    <3>2. /\ c \in Memory /\ c.loaded /\ c.saved = Len(c.hist) /\ c.hist = log[s]
          /\ c.f = meta[s] /\ Len(log[s]) \in Nat
      BY <3>1, OfSession DEF Memory
    <3> HIDE DEF c
    <3>3. \A b \in Saver : saves[s][b].pc = "none"
      BY <2>2, OfSession DEF Held
    <3>4. hole[s] = NoHole
      BY <2>2, OfSession
    <3>5. Mirrored(Disk(s), c, saves[s])
      <4>1. Found(log[s], NoHole) = log[s] /\ log[s] \in Seq(Msg)
        BY OfSession, FoundAll
      <4> QED BY <3>2, <3>3, <3>4, <4>1 DEF Mirrored, Holds, Disk, NoHole
    <3>6. Covered(c.f.lc, Disk(s), saves[s])
      <4>1. meta[s].lc \in Nat
        BY OfSession
      <4> QED BY <3>2, <3>3, <4>1 DEF Covered, Disk
    <3> QED BY <3>2, <3>4, <3>5, <3>6
  <2> QED BY <2>1, <2>2
<1> HIDE DEF c
<1>2. /\ c.hist \in Seq(Msg) /\ c.saved \in Nat /\ c.f \in Fields
      /\ Len(c.hist) \in Nat
  BY <1>1 DEF Memory
<1> DEFINE f == [c.f EXCEPT !.status = "active"]
<1>3. f \in Fields /\ f.lc = c.f.lc /\ f.lc \in Nat
  BY <1>2 DEF Fields
<1>4. m = [hist |-> c.hist, saved |-> c.saved, loaded |-> c.loaded, f |-> f]
  BY DEF Reopened, With
<1> HIDE DEF f
<1>5. /\ m \in Memory /\ m.loaded /\ m.saved = c.saved /\ m.hist = c.hist /\ m.f = f
  BY <1>1, <1>2, <1>3, <1>4 DEF Memory
<1> HIDE DEF m
<1>6. Mirrored(Disk(s), c, saves[s]) => Mirrored(Disk(s), m, saves[s])
  BY <1>5 DEF Mirrored
<1>7. /\ m \in Memory /\ m.loaded /\ m.saved <= Len(m.hist) /\ m.hist \in Seq(Msg)
      /\ m.f.lc \in Nat /\ m.f.lc = c.f.lc /\ m.hist = c.hist
      /\ clean[s] => /\ Mirrored(Disk(s), m, saves[s])
                     /\ turn[s].pc = "free" => Covered(m.f.lc, Disk(s), saves[s])
  BY <1>1, <1>2, <1>3, <1>5, <1>6
<1> QED BY <1>7 DEF m, c

\* A turn takes the lock and remembers the cursor it found.
LEMMA TurnStartStep ==
  ASSUME CInv, NEW s \in Session, TurnStart(s)
  PROVE  CInv'
<1> DEFINE m == Reopened(Cached(s))
           pc == IF m.hist = <<>> THEN "loop" ELSE IF Overflow(m) THEN "overflow" ELSE "tokens"
           t == [pc |-> pc, lc |-> m.f.lc, kept |-> FALSE, loops |-> 0]
<1>1. /\ turn[s].pc = "free" /\ Mem(s, m) /\ turn' = [turn EXCEPT ![s] = t]
      /\ UNCHANGED <<log, tail, meta, turns, saves, titling, clean, hole, brokenOff, parted, faults>>
  BY DEF TurnStart
<1>2. /\ m \in Memory /\ m.loaded /\ m.saved <= Len(m.hist) /\ m.hist \in Seq(Msg)
      /\ m.f.lc \in Nat
      /\ clean[s] => /\ Mirrored(Disk(s), m, saves[s])
                     /\ Covered(m.f.lc, Disk(s), saves[s])
  BY <1>1, TheObject
<1>3. pc \in {"loop", "overflow", "tokens"} /\ (pc = "overflow" => Len(m.hist) - m.f.lc > Replay)
  BY DEF Overflow
<1> HIDE DEF m, pc
<1>4. t \in Holder /\ t.pc = pc /\ t.lc = m.f.lc /\ t.kept = FALSE
  BY <1>2, <1>3 DEF Holder, Pcs, TurnPc
<1> HIDE DEF t
<1>5. /\ mem' \in [Session -> Memory] /\ mem'[s] = m /\ \A x \in Session \ {s} : mem'[x] = mem[x]
  BY <1>1, <1>2, NewMemory
<1>6. /\ turn' \in [Session -> Holder] /\ turn'[s] = t
      /\ \A x \in Session \ {s} : turn'[x] = turn[x]
  BY <1>1, <1>4, NewHolder
<1>7. pc \notin WaitPc /\ turn[s].pc \notin WaitPc
  BY <1>1, <1>3 DEF WaitPc
<1>8. titling' \subseteq Session /\ faults' \in Nat
  BY <1>1 DEF CInv, Shaped
<1> QED BY <1>1, <1>2, <1>3, <1>4, <1>5, <1>6, <1>7, <1>8, NoFiles

\* A command is answered.
LEMMA TurnCommandStep ==
  ASSUME CInv, NEW s \in Session, TurnCommand(s)
  PROVE  CInv'
<1> DEFINE m == Reopened(Cached(s))
<1>1. /\ turn[s].pc = "free" /\ Mem(s, m) /\ TitleDue(s)
      /\ UNCHANGED <<log, tail, meta, turn, turns, saves, clean, hole, brokenOff, parted, faults>>
  BY DEF TurnCommand
<1>2. /\ m \in Memory /\ m.loaded /\ m.saved <= Len(m.hist)
      /\ clean[s] => /\ Mirrored(Disk(s), m, saves[s])
                     /\ Covered(m.f.lc, Disk(s), saves[s])
  BY <1>1, TheObject
<1> HIDE DEF m
<1>3. /\ mem' \in [Session -> Memory] /\ mem'[s] = m /\ \A x \in Session \ {s} : mem'[x] = mem[x]
  BY <1>1, <1>2, NewMemory
<1>4. /\ turn' \in [Session -> Holder] /\ \A x \in Session \ {s} : turn'[x] = turn[x]
      /\ titling' \subseteq Session /\ faults' \in Nat
  BY <1>1 DEF CInv, Shaped, TitleDue
<1>5. turn'[s].pc = "free" /\ "free" \notin WaitPc /\ "free" \notin TurnPc /\ "free" \notin OpenPc
  BY <1>1 DEF WaitPc, TurnPc, OpenPc
<1> QED BY <1>1, <1>2, <1>3, <1>4, <1>5, NoFiles

\* New fields: history and what counts as saved stay.
LEMMA NewFieldsOnly ==
  ASSUME CInv, NEW s \in Session, NEW f \in Fields
  PROVE  LET m == With(mem[s], f)
         IN /\ m \in Memory /\ m.hist = mem[s].hist /\ m.saved = mem[s].saved
            /\ m.loaded = mem[s].loaded /\ m.f = f
            /\ Mirrored(Disk(s), mem[s], saves[s]) => Mirrored(Disk(s), m, saves[s])
<1> DEFINE m == With(mem[s], f)
<1>1. mem[s] \in Memory
  BY OfSession
<1>2. /\ m \in Memory /\ m.hist = mem[s].hist /\ m.saved = mem[s].saved
      /\ m.loaded = mem[s].loaded /\ m.f = f
  BY <1>1 DEF With, Memory
<1> HIDE DEF m
<1>3. Mirrored(Disk(s), mem[s], saves[s]) => Mirrored(Disk(s), m, saves[s])
  BY <1>2 DEF Mirrored
<1>4. /\ m \in Memory /\ m.hist = mem[s].hist /\ m.saved = mem[s].saved
      /\ m.loaded = mem[s].loaded /\ m.f = f
      /\ Mirrored(Disk(s), mem[s], saves[s]) => Mirrored(Disk(s), m, saves[s])
  BY <1>2, <1>3
<1> QED BY <1>4 DEF m

\* A compaction moves the cursor and nothing else.
LEMMA CursorMoved ==
  ASSUME CInv, NEW s \in Session, NEW to \in Nat, Compacted(s, to)
  PROVE  /\ mem' \in [Session -> Memory]
         /\ mem'[s].hist = mem[s].hist /\ mem'[s].saved = mem[s].saved
         /\ mem'[s].loaded = mem[s].loaded /\ mem'[s].f.lc = to
         /\ Mirrored(Disk(s), mem[s], saves[s]) => Mirrored(Disk(s), mem'[s], saves[s])
         /\ \A x \in Session \ {s} : mem'[x] = mem[x]
<1> DEFINE f == [mem[s].f EXCEPT !.lc = to]
           m == With(mem[s], f)
<1>1. mem[s].f \in Fields
  BY OfSession
<1>2. f \in Fields /\ f.lc = to
  BY <1>1 DEF Fields
<1>3. Mem(s, m)
  BY DEF Compacted
<1> HIDE DEF f
<1>4. /\ m \in Memory /\ m.hist = mem[s].hist /\ m.saved = mem[s].saved
      /\ m.loaded = mem[s].loaded /\ m.f = f
      /\ Mirrored(Disk(s), mem[s], saves[s]) => Mirrored(Disk(s), m, saves[s])
  BY <1>2, NewFieldsOnly
<1> HIDE DEF m
<1>5. /\ mem' \in [Session -> Memory] /\ mem'[s] = m /\ \A x \in Session \ {s} : mem'[x] = mem[x]
  BY <1>3, <1>4, NewMemory
<1> QED BY <1>2, <1>4, <1>5

\* A compaction goes forward, and no further than the history; what the turn found is
\* still covered.
LEMMA CompactionGoesOn ==
  ASSUME CInv, NEW s \in Session, NEW to \in Nat, Compacted(s, to),
         turn[s].pc \in {"overflow", "tokens"}, mem[s].f.lc <= to, to <= Len(mem[s].hist),
         turn' \in [Session -> Holder], \A x \in Session \ {s} : turn'[x] = turn[x],
         turn'[s].pc = "tokens", turn'[s].lc = turn[s].lc, turn'[s].kept = turn[s].kept,
         UNCHANGED <<log, tail, meta, turns, saves, titling, clean, hole, brokenOff, parted, faults>>
  PROVE  CInv'
<1>1. /\ mem' \in [Session -> Memory]
      /\ mem'[s].hist = mem[s].hist /\ mem'[s].saved = mem[s].saved
      /\ mem'[s].loaded = mem[s].loaded /\ mem'[s].f.lc = to
      /\ Mirrored(Disk(s), mem[s], saves[s]) => Mirrored(Disk(s), mem'[s], saves[s])
      /\ \A x \in Session \ {s} : mem'[x] = mem[x]
  BY CursorMoved
<1>2. /\ "tokens" \notin WaitPc /\ turn[s].pc \notin WaitPc /\ turn[s].pc # "free"
      /\ turn[s].pc \in TurnPc /\ turn[s].pc \in OpenPc /\ "tokens" \notin SettledPc
  BY DEF WaitPc, TurnPc, OpenPc, SettledPc
<1>3. /\ mem[s].loaded /\ mem[s].saved <= Len(mem[s].hist) /\ ~turn[s].kept
      /\ turn[s].lc <= mem[s].f.lc
  BY <1>2, OfSession DEF Held
<1>4. turn[s].lc <= to
  BY <1>3, OfSession
<1>5. clean[s] => /\ Mirrored(Disk(s), mem'[s], saves[s])
                  /\ Covered(turn'[s].lc, Disk(s), saves[s])
  BY <1>1, <1>2, <1>3, OfSession DEF Kept
<1>6. titling' \subseteq Session /\ faults' \in Nat
  BY DEF CInv, Shaped
<1> QED BY <1>1, <1>2, <1>3, <1>4, <1>5, <1>6, NoFiles

\* The turn stops compacting: nothing else changes.
LEMMA PlaceOnly ==
  ASSUME CInv, NEW s \in Session, turn[s].pc \in {"overflow", "tokens"},
         At(s, "compacted"), UNCHANGED mem,
         UNCHANGED <<log, tail, meta, turns, saves, titling, clean, hole, brokenOff, parted, faults>>
  PROVE  CInv'
<1>1. "compacted" \in Pcs
  BY DEF Pcs, TurnPc
<1>2. /\ turn' \in [Session -> Holder] /\ turn'[s].pc = "compacted"
      /\ turn'[s].lc = turn[s].lc /\ turn'[s].kept = turn[s].kept
      /\ \A x \in Session \ {s} : turn'[x] = turn[x]
  BY <1>1, Onward
<1>3. /\ "compacted" \notin WaitPc /\ turn[s].pc \notin WaitPc /\ turn[s].pc # "free"
      /\ turn[s].pc \in TurnPc /\ turn[s].pc \in OpenPc /\ "compacted" \notin SettledPc
  BY DEF WaitPc, TurnPc, OpenPc, SettledPc
<1>4. /\ mem[s].loaded /\ mem[s].saved <= Len(mem[s].hist) /\ ~turn[s].kept
      /\ turn[s].lc <= mem[s].f.lc
  BY <1>3, OfSession DEF Held
<1>5. clean[s] => /\ Mirrored(Disk(s), mem[s], saves[s])
                  /\ Covered(turn[s].lc, Disk(s), saves[s])
  BY <1>3, <1>4, OfSession DEF Kept
<1>6. /\ mem' \in [Session -> Memory] /\ mem'[s] = mem[s] /\ titling' \subseteq Session
      /\ faults' \in Nat /\ \A x \in Session \ {s} : mem'[x] = mem[x]
  BY DEF CInv, Shaped
<1> QED BY <1>2, <1>3, <1>4, <1>5, <1>6, NoFiles

\* What is out of the window has been summarised, or not.
LEMMA CompactOverflowStep ==
  ASSUME CInv, NEW s \in Session, CompactOverflow(s)
  PROVE  CInv'
<1>1. /\ turn[s].pc = "overflow"
      /\ UNCHANGED <<log, tail, meta, turns, saves, titling, clean, hole, brokenOff, parted, faults>>
  BY DEF CompactOverflow
<1>2. CASE Compacted(s, Len(mem[s].hist) - Replay) /\ At(s, "tokens")
  <2>1. Len(mem[s].hist) - mem[s].f.lc > Replay
    BY <1>1, OfSession DEF Held
  <2>2. /\ Len(mem[s].hist) - Replay \in Nat /\ mem[s].f.lc <= Len(mem[s].hist) - Replay
        /\ Len(mem[s].hist) - Replay <= Len(mem[s].hist)
    <3>1. Len(mem[s].hist) \in Nat /\ mem[s].f.lc \in Nat /\ Replay \in Nat
      BY OfSession, ConversationAssumption
    <3> QED BY <2>1, <3>1
  <2>3. "tokens" \in Pcs
    BY DEF Pcs, TurnPc
  <2>4. /\ turn' \in [Session -> Holder] /\ turn'[s].pc = "tokens" /\ turn'[s].lc = turn[s].lc
        /\ turn'[s].kept = turn[s].kept /\ \A x \in Session \ {s} : turn'[x] = turn[x]
    BY <1>2, <2>3, Onward
  <2> QED BY <1>1, <1>2, <2>2, <2>4, CompactionGoesOn
<1>3. CASE At(s, "compacted") /\ UNCHANGED mem
  BY <1>1, <1>3, PlaceOnly
<1> QED BY <1>1, <1>2, <1>3 DEF CompactOverflow

\* Everything up to a question has been summarised, or the turn stops compacting.
LEMMA CompactTokensStep ==
  ASSUME CInv, NEW s \in Session, CompactTokens(s)
  PROVE  CInv'
<1>1. /\ turn[s].pc = "tokens"
      /\ UNCHANGED <<log, tail, meta, turns, saves, titling, clean, hole, brokenOff, parted, faults>>
  BY DEF CompactTokens
<1>2. CASE At(s, "compacted") /\ UNCHANGED mem
  BY <1>1, <1>2, PlaceOnly
<1>3. CASE /\ \E i \in Boundaries(mem[s]) : Compacted(s, i)
           /\ turn' = [turn EXCEPT ![s] = [@ EXCEPT !.loops = turn[s].loops + 1]]
  <2>1. PICK i \in Boundaries(mem[s]) : Compacted(s, i)
    BY <1>3
  <2>2. i \in Nat /\ mem[s].f.lc <= i /\ i <= Len(mem[s].hist)
    <3>1. i \in mem[s].f.lc + 1 .. Len(mem[s].hist)
      BY DEF Boundaries
    <3>2. mem[s].f.lc \in Nat /\ Len(mem[s].hist) \in Nat
      BY OfSession
    <3> QED BY <3>1, <3>2
  <2> DEFINE t == [turn[s] EXCEPT !.loops = turn[s].loops + 1]
  <2>3. turn[s] \in Holder
    BY OfSession
  <2>4. t \in Holder /\ t.pc = turn[s].pc /\ t.lc = turn[s].lc /\ t.kept = turn[s].kept
    BY <2>3 DEF Holder
  <2>5. turn' = [turn EXCEPT ![s] = t]
    BY <1>3
  <2> HIDE DEF t
  <2>6. /\ turn' \in [Session -> Holder] /\ turn'[s] = t
        /\ \A x \in Session \ {s} : turn'[x] = turn[x]
    BY <2>4, <2>5, NewHolder
  <2> QED BY <1>1, <2>1, <2>2, <2>4, <2>6, CompactionGoesOn
<1> QED BY <1>2, <1>3 DEF CompactTokens

\* A session that a checkpoint is started for: what has to hold of its new object and
\* its new place.
LEMMA NewSave ==
  ASSUME CInv, NEW s \in Session, NEW b \in Saver, StartSave(s, b),
         UNCHANGED <<log, tail, meta, hole, brokenOff, parted>>, titling' \subseteq Session, faults' \in Nat,
         turns' \in [Session -> 0 .. MaxTurns],
         mem' \in [Session -> Memory], \A x \in Session \ {s} : mem'[x] = mem[x],
         turn' \in [Session -> Holder], \A x \in Session \ {s} : turn'[x] = turn[x],
         b = "turn" <=> turn[s].pc \notin WaitPc /\ turn'[s].pc \in WaitPc,
         b # "turn" => turn'[s] = turn[s],
         mem'[s].loaded, mem'[s].saved <= Len(mem'[s].hist),
         turn'[s].pc = "overflow" => Len(mem'[s].hist) - mem'[s].f.lc > Replay,
         turn'[s].pc \in TurnPc => turn'[s].lc <= mem'[s].f.lc,
         turn'[s].pc \in OpenPc => ~turn'[s].kept,
         clean[s] /\ (\A a \in Saver : saves[s][a].pc = "none") =>
            Holds(Disk(s), SubSeq(mem'[s].hist, 1, mem'[s].saved))
  PROVE  CInv'
<1>1. /\ saves' \in [Session -> [Saver -> Checkpoint]]
      /\ saves'[s][b].pc = "write"
      /\ \A a \in Saver \ {b} : saves'[s][a] = saves[s][a]
      /\ \A y \in Session \ {s} : saves'[y] = saves[y]
      /\ clean' \in [Session -> BOOLEAN]
      /\ \A y \in Session \ {s} : clean'[y] = clean[y]
      /\ clean'[s] => clean[s] /\ \A a \in Saver : saves[s][a].pc = "none"
  BY SaveStarted
<1>2. Shaped' /\ OthersStay(s)
  BY <1>1 DEF CInv, Shaped, OthersStay
<1>3. saves'[s]["turn"].pc # "none" <=> turn'[s].pc \in WaitPc
  <2>1. saves[s]["turn"].pc # "none" <=> turn[s].pc \in WaitPc
    BY OfSession DEF Held
  <2>2. CASE b = "turn"
    BY <1>1, <2>2
  <2>3. CASE b # "turn"
    BY <1>1, <2>1, <2>3 DEF Saver
  <2> QED BY <2>2, <2>3
<1>4. Held(mem'[s], turn'[s], saves'[s])
  BY <1>3 DEF Held
<1>5. ASSUME clean'[s] PROVE Kept(Disk(s), mem'[s], turn'[s], saves'[s])
  <2>1. clean[s] /\ \A a \in Saver : saves[s][a].pc = "none"
    BY <1>1, <1>5
  <2>2. ASSUME NEW a \in Saver PROVE saves'[s][a].pc = IF a = b THEN "write" ELSE "none"
    <3>1. CASE a = b
      BY <1>1, <3>1, Zenon
    <3>2. CASE a # b
      <4>1. saves'[s][a] = saves[s][a]
        BY <1>1, <3>2, Zenon
      <4>2. saves[s][a].pc = "none"
        BY <2>1, Zenon
      <4> QED BY <3>2, <4>1, <4>2
    <3> QED BY <3>1, <3>2
  <2>4. Mirrored(Disk(s), mem'[s], saves'[s])
    BY <2>1, <2>2 DEF Mirrored
  <2>5. \A y : Covered(y, Disk(s), saves'[s])
    BY <2>2 DEF Covered
  <2>6. saves'[s]["turn"].pc # "replace"
    BY <2>2 DEF Saver
  <2> QED BY <2>1, <2>2, <2>4, <2>5, <2>6 DEF Kept
<1>6. Disk(s)' = Disk(s) /\ (tail'[s] = "open" => log'[s] # <<>>)
  BY OfSession DEF Disk
<1> QED BY <1>2, <1>4, <1>5, <1>6, OneMoves

\* The compaction is over: it is saved if it moved the cursor.
LEMMA CompactionEndsStep ==
  ASSUME CInv, NEW s \in Session, CompactionEnds(s)
  PROVE  CInv'
<1>1. /\ turn[s].pc = "compacted"
      /\ UNCHANGED <<log, tail, meta, mem, turns, titling, hole, brokenOff, parted, faults>>
  BY DEF CompactionEnds
<1>2. /\ turn[s].pc \notin WaitPc /\ turn[s].pc # "free" /\ turn[s].pc \in TurnPc
      /\ turn[s].pc \in OpenPc
  BY <1>1 DEF WaitPc, TurnPc, OpenPc
<1>3. /\ mem[s].loaded /\ mem[s].saved <= Len(mem[s].hist) /\ ~turn[s].kept
      /\ turn[s].lc <= mem[s].f.lc
  BY <1>2, OfSession DEF Held
<1>4. /\ mem' \in [Session -> Memory] /\ mem'[s] = mem[s] /\ titling' \subseteq Session
      /\ faults' \in Nat /\ \A x \in Session \ {s} : mem'[x] = mem[x]
      /\ turns' \in [Session -> 0 .. MaxTurns]
  BY <1>1 DEF CInv, Shaped
<1>5. clean[s] => /\ Mirrored(Disk(s), mem[s], saves[s])
                  /\ Covered(turn[s].lc, Disk(s), saves[s])
  BY <1>2, <1>3, OfSession DEF Kept
<1>6. CASE StartSave(s, "turn") /\ At(s, "saveCompaction")
  <2>1. "saveCompaction" \in Pcs /\ "saveCompaction" \in WaitPc /\ "turn" \in Saver
    BY DEF Pcs, TurnPc, WaitPc, Saver
  <2>2. /\ turn' \in [Session -> Holder] /\ turn'[s].pc = "saveCompaction"
        /\ turn'[s].lc = turn[s].lc /\ turn'[s].kept = turn[s].kept
        /\ \A x \in Session \ {s} : turn'[x] = turn[x]
    BY <1>6, <2>1, Onward
  <2>3. ASSUME clean[s], \A a \in Saver : saves[s][a].pc = "none"
        PROVE  Holds(Disk(s), SubSeq(mem[s].hist, 1, mem[s].saved))
    <3>1. Holds(Disk(s), mem[s].hist) /\ mem[s].saved = Len(mem[s].hist)
      BY <1>5, <2>3 DEF Mirrored
    <3> QED BY <3>1, OfSession, SubSeqFull
  <2> QED BY <1>1, <1>2, <1>3, <1>4, <1>5, <1>6, <2>1, <2>2, <2>3, NewSave
<1>7. CASE ~(mem[s].f.lc > turn[s].lc) /\ At(s, "loop") /\ UNCHANGED <<saves, clean>>
  <2>1. "loop" \in Pcs /\ "loop" \notin WaitPc /\ "loop" \notin OpenPc
    BY DEF Pcs, TurnPc, WaitPc, OpenPc
  <2>2. /\ turn' \in [Session -> Holder] /\ turn'[s].pc = "loop"
        /\ turn'[s].lc = turn[s].lc /\ turn'[s].kept = turn[s].kept
        /\ \A x \in Session \ {s} : turn'[x] = turn[x]
    BY <1>7, <2>1, Onward
  <2>3. mem[s].f.lc = turn[s].lc
    BY <1>3, <1>7, OfSession
  <2> QED BY <1>1, <1>2, <1>3, <1>4, <1>5, <1>7, <2>1, <2>2, <2>3, NoFiles
<1> QED BY <1>6, <1>7 DEF CompactionEnds

\* The summary has been handed to the memory.
LEMMA TurnRecordedStep ==
  ASSUME CInv, NEW s \in Session, TurnRecorded(s)
  PROVE  CInv'
<1> DEFINE f == [mem[s].f EXCEPT !.archived = Len(mem[s].hist)]
           m == With(mem[s], f)
<1>1. /\ turn[s].pc = "record" /\ Mem(s, m) /\ At(s, "loop")
      /\ UNCHANGED <<log, tail, meta, turns, saves, titling, clean, hole, brokenOff, parted, faults>>
  BY DEF TurnRecorded
<1>2. mem[s].f \in Fields /\ Len(mem[s].hist) \in Nat
  BY OfSession
<1>3. f \in Fields /\ f.lc = mem[s].f.lc
  BY <1>2 DEF Fields
<1> HIDE DEF f
<1>4. /\ m \in Memory /\ m.hist = mem[s].hist /\ m.saved = mem[s].saved
      /\ m.loaded = mem[s].loaded /\ m.f = f
      /\ Mirrored(Disk(s), mem[s], saves[s]) => Mirrored(Disk(s), m, saves[s])
  BY <1>3, NewFieldsOnly
<1> HIDE DEF m
<1>5. /\ mem' \in [Session -> Memory] /\ mem'[s] = m /\ \A x \in Session \ {s} : mem'[x] = mem[x]
  BY <1>1, <1>4, NewMemory
<1>6. /\ "loop" \in Pcs /\ "loop" \notin WaitPc /\ "loop" \notin OpenPc /\ "record" \notin WaitPc
      /\ "record" \in SettledPc /\ "record" \in TurnPc
  BY DEF Pcs, TurnPc, WaitPc, OpenPc, SettledPc
<1>7. /\ turn' \in [Session -> Holder] /\ turn'[s].pc = "loop"
      /\ turn'[s].lc = turn[s].lc /\ \A x \in Session \ {s} : turn'[x] = turn[x]
  BY <1>1, <1>6, Onward
<1>8. /\ mem[s].loaded /\ mem[s].saved <= Len(mem[s].hist) /\ turn[s].lc <= mem[s].f.lc
  BY <1>1, <1>6, OfSession DEF Held
<1>9. clean[s] => /\ Mirrored(Disk(s), mem[s], saves[s])
                  /\ Covered(mem[s].f.lc, Disk(s), saves[s])
                  /\ Covered(turn[s].lc, Disk(s), saves[s])
  BY <1>1, <1>6, <1>8, OfSession DEF Kept
<1>10. titling' \subseteq Session /\ faults' \in Nat
  BY <1>1 DEF CInv, Shaped
<1> QED BY <1>1, <1>3, <1>4, <1>5, <1>6, <1>7, <1>8, <1>9, <1>10, NoFiles

\* The answer is in the history, and is being saved.
LEMMA TurnAnswersStep ==
  ASSUME CInv, NEW s \in Session, TurnAnswers(s)
  PROVE  CInv'
<1>1. /\ turn[s].pc = "loop" /\ turns[s] < MaxTurns
      /\ turns' = [turns EXCEPT ![s] = turns[s] + 1]
      /\ StartSave(s, "turn") /\ At(s, "saveAnswer")
      /\ UNCHANGED <<log, tail, meta, titling, hole, brokenOff, parted, faults>>
  BY DEF TurnAnswers
<1>2. PICK shape \in Shapes : Mem(s, [mem[s] EXCEPT !.hist = @ \o Said(turns[s] + 1, shape)])
  BY DEF TurnAnswers
<1> DEFINE x == Said(turns[s] + 1, shape)
           h == mem[s].hist
           m == [mem[s] EXCEPT !.hist = h \o x]
<1>3. turns[s] + 1 \in 1 .. MaxTurns + 1 /\ turns[s] + 1 \in 0 .. MaxTurns
  <2>1. turns[s] \in 0 .. MaxTurns /\ MaxTurns \in Nat
    BY OfSession, ConversationAssumption
  <2> QED BY <1>1, <2>1
<1>4. x \in Seq(Msg)
  BY <1>3, WhatIsSaid
<1>5. Mem(s, m)
  BY <1>2
<1> HIDE DEF x
<1>6. mem[s] \in Memory /\ h \in Seq(Msg) /\ Len(h) \in Nat /\ Len(x) \in Nat
  BY <1>4, OfSession
<1>7. /\ h \o x \in Seq(Msg) /\ Len(h \o x) = Len(h) + Len(x) /\ SubSeq(h \o x, 1, Len(h)) = h
  <2>1. Len(h) \in 0 .. Len(h)
    BY <1>6
  <2> QED BY <1>4, <1>6, <2>1, Histories
<1>8. /\ m \in Memory /\ m.hist = h \o x /\ m.saved = mem[s].saved /\ m.loaded = mem[s].loaded
      /\ m.f = mem[s].f
  BY <1>6, <1>7 DEF Memory
<1> HIDE DEF m
<1>9. /\ mem' \in [Session -> Memory] /\ mem'[s] = m /\ \A y \in Session \ {s} : mem'[y] = mem[y]
  BY <1>5, <1>8, NewMemory
<1>10. /\ "saveAnswer" \in Pcs /\ "saveAnswer" \in WaitPc /\ "turn" \in Saver
       /\ "loop" \notin WaitPc /\ "loop" \in TurnPc /\ "loop" \in SettledPc
       /\ "saveAnswer" \notin OpenPc
  BY DEF Pcs, TurnPc, WaitPc, OpenPc, SettledPc, Saver
<1>11. /\ turn' \in [Session -> Holder] /\ turn'[s].pc = "saveAnswer"
       /\ turn'[s].lc = turn[s].lc /\ \A y \in Session \ {s} : turn'[y] = turn[y]
  BY <1>1, <1>10, Onward
<1>12. mem[s].loaded /\ mem[s].saved <= Len(h) /\ turn[s].lc <= mem[s].f.lc
  BY <1>1, <1>10, OfSession DEF Held
<1>13. /\ titling' \subseteq Session /\ faults' \in Nat /\ turns' \in [Session -> 0 .. MaxTurns]
  BY <1>1, <1>3 DEF CInv, Shaped
<1>14. m.loaded /\ m.saved <= Len(m.hist) /\ turn[s].lc <= m.f.lc
  <2>1. mem[s].saved \in Nat
    BY OfSession
  <2> QED BY <1>6, <1>7, <1>8, <1>12, <2>1
<1>15. ASSUME clean[s], \A a \in Saver : saves[s][a].pc = "none"
       PROVE  Holds(Disk(s), SubSeq(m.hist, 1, m.saved))
  <2>1. Mirrored(Disk(s), mem[s], saves[s])
    BY <1>12, <1>15, OfSession DEF Kept
  <2>2. Holds(Disk(s), h) /\ mem[s].saved = Len(h)
    BY <1>15, <2>1 DEF Mirrored
  <2> QED BY <1>7, <1>8, <2>2
<1> QED BY <1>1, <1>9, <1>10, <1>11, <1>13, <1>14, <1>15, NewSave

\* The turn ends without an answer.
LEMMA TurnFailsStep ==
  ASSUME CInv, NEW s \in Session, TurnFails(s)
  PROVE  CInv'
<1>1. /\ turn[s].pc = "loop" /\ Unlock(s)
      /\ UNCHANGED <<log, tail, meta, mem, turns, saves, titling, clean, hole, brokenOff, parted, faults>>
  BY DEF TurnFails
<1>2. /\ turn' \in [Session -> Holder] /\ turn'[s].pc = "free"
      /\ \A x \in Session \ {s} : turn'[x] = turn[x]
  BY <1>1, GivenBack
<1>3. /\ "free" \notin WaitPc /\ "loop" \notin WaitPc /\ "free" \notin TurnPc /\ "free" \notin OpenPc
      /\ "loop" \in SettledPc
  BY DEF WaitPc, TurnPc, OpenPc, SettledPc
<1>4. mem[s].loaded /\ mem[s].saved <= Len(mem[s].hist)
  BY <1>1, OfSession DEF Held
<1>5. clean[s] => /\ Mirrored(Disk(s), mem[s], saves[s])
                  /\ Covered(mem[s].f.lc, Disk(s), saves[s])
  BY <1>1, <1>3, <1>4, OfSession DEF Kept
<1>6. /\ mem' \in [Session -> Memory] /\ mem'[s] = mem[s] /\ titling' \subseteq Session
      /\ faults' \in Nat /\ \A x \in Session \ {s} : mem'[x] = mem[x]
  BY <1>1 DEF CInv, Shaped
<1> QED BY <1>1, <1>2, <1>3, <1>4, <1>5, <1>6, NoFiles

\* append_history raises.
LEMMA RecordFailsStep ==
  ASSUME CInv, NEW s \in Session, RecordFails(s)
  PROVE  CInv'
<1> DEFINE o == IF turn[s].pc = "record" THEN brokenOff[s] ELSE mem[s].f.lc
<1>1. /\ turn[s].pc \in {"record", "closeRecord"} /\ Unlock(s) /\ faults' = faults + 1
      /\ UNCHANGED <<log, tail, meta, mem, turns, saves, titling, clean, hole, parted>>
  BY DEF RecordFails, Fault
<1>2. /\ turn' \in [Session -> Holder] /\ turn'[s].pc = "free"
      /\ \A x \in Session \ {s} : turn'[x] = turn[x]
  BY <1>1, GivenBack
<1>3. /\ brokenOff' \in [Session -> Nat] /\ brokenOff'[s] = o
      /\ \A y \in Session \ {s} : brokenOff'[y] = brokenOff[y]
  <2>1. brokenOff \in [Session -> Nat] /\ o \in Nat
    BY OfSession DEF CInv, Shaped
  <2>2. brokenOff' = [brokenOff EXCEPT ![s] = o]
    BY <2>1 DEF RecordFails
  <2> HIDE DEF o
  <2> QED BY <2>1, <2>2
<1>4. Shaped' /\ OthersStay(s)
  BY <1>1, <1>2, <1>3 DEF CInv, Shaped, OthersStay
<1>5. Held(mem[s], turn'[s], saves[s])
  <2>1. Held(mem[s], turn[s], saves[s])
    BY OfSession
  <2> QED BY <1>1, <1>2, <2>1 DEF Held, WaitPc, TurnPc, OpenPc
<1>6. ASSUME clean[s] PROVE Kept(Disk(s)', mem[s], turn'[s], saves[s])
  <2> DEFINE d == Disk(s)
             e == Disk(s)'
  <2>1. Kept(d, mem[s], turn[s], saves[s])
    BY <1>6, OfSession
  <2>2. /\ e.log = d.log /\ e.tail = d.tail /\ e.hole = d.hole /\ e.meta = d.meta
        /\ e.off = o /\ d.off = brokenOff[s]
    BY <1>1, <1>3 DEF Disk
  <2> HIDE DEF d, e
  <2>3. Mirrored(d, mem[s], saves[s]) => Mirrored(e, mem[s], saves[s])
    BY <2>2 DEF Mirrored, Holds
  <2>4. mem[s].loaded => Covered(mem[s].f.lc, e, saves[s])
    <3>1. CASE turn[s].pc = "record"
      <4>1. mem[s].loaded => Covered(mem[s].f.lc, d, saves[s])
        BY <2>1, <3>1 DEF Kept, SettledPc
      <4> QED BY <2>2, <3>1, <4>1 DEF Covered
    <3>2. CASE turn[s].pc # "record"
      BY <2>2, <3>2 DEF Covered
    <3> QED BY <3>1, <3>2
  <2>5. Kept(e, mem[s], turn'[s], saves[s])
    BY <1>2, <2>1, <2>3, <2>4 DEF Kept, TurnPc
  <2> QED BY <2>5 DEF e
<1>7. (tail'[s] = "open" => log'[s] # <<>>) /\ (~mem[s].loaded => hole'[s] = NoHole)
  BY <1>1, OfSession
<1> QED BY <1>1, <1>4, <1>5, <1>6, <1>7, OneMoves

\* What runs for a turn goes on without it: the checkpoints are the same ones.
LEMMA SameCheckpoints ==
  ASSUME CInv, NEW s \in Session, saves[s]["orphan"].pc = "none", Detached(s)
  PROVE  /\ saves' \in [Session -> [Saver -> Checkpoint]]
         /\ \A x \in Session \ {s} : saves'[x] = saves[x]
         /\ saves'[s]["turn"].pc = "none"
         /\ \A b \in Saver : saves'[s][b].pc # "none" =>
              \E a \in Saver : saves'[s][b] = saves[s][a]
         /\ \A b \in Saver : saves[s][b].pc # "none" =>
              \E a \in Saver : saves'[s][a] = saves[s][b]
         /\ \A a, b \in Saver : saves'[s][a].pc # "none" /\ saves'[s][b].pc # "none" /\ a # b =>
              \E c, d \in Saver : c # d /\ saves[s][c].pc # "none" /\ saves[s][d].pc # "none"
<1> DEFINE sv == [b \in Saver |-> CASE b = "orphan" -> saves[s]["turn"]
                                    [] b = "turn" -> NoSave
                                    [] b = "title" -> saves[s]["title"]]
<1>1. saves' = [saves EXCEPT ![s] = sv]
  BY DEF Detached
<1>2. saves[s] \in [Saver -> Checkpoint] /\ NoSave \in Checkpoint /\ NoSave.pc = "none"
  BY OfSession DEF NoSave, Checkpoint, NewFields, Fields
<1>3. /\ "orphan" \in Saver /\ "turn" \in Saver /\ "title" \in Saver
      /\ \A b \in Saver : b = "orphan" \/ b = "turn" \/ b = "title"
  BY DEF Saver
<1>4. sv["orphan"] = saves[s]["turn"] /\ sv["turn"] = NoSave /\ sv["title"] = saves[s]["title"]
  BY <1>3
<1>5. sv \in [Saver -> Checkpoint]
  BY <1>2, <1>3
<1> HIDE DEF sv
<1>6. /\ saves' \in [Session -> [Saver -> Checkpoint]] /\ saves'[s] = sv
      /\ \A x \in Session \ {s} : saves'[x] = saves[x]
  BY <1>1, <1>5 DEF CInv, Shaped
<1>7. \A b \in Saver : sv[b].pc # "none" => \E a \in Saver : sv[b] = saves[s][a]
  BY <1>2, <1>3, <1>4
<1>8. \A b \in Saver : saves[s][b].pc # "none" => \E a \in Saver : sv[a] = saves[s][b]
  BY <1>3, <1>4
<1>9. \A a, b \in Saver : sv[a].pc # "none" /\ sv[b].pc # "none" /\ a # b =>
        \E c, d \in Saver : c # d /\ saves[s][c].pc # "none" /\ saves[s][d].pc # "none"
  <2>1. "turn" # "title"
    OBVIOUS
  <2>2. ASSUME NEW a \in Saver, NEW b \in Saver, sv[a].pc # "none", sv[b].pc # "none", a # b
        PROVE  saves[s]["turn"].pc # "none" /\ saves[s]["title"].pc # "none"
    BY <1>2, <1>3, <1>4, <2>2
  <2> QED BY <1>3, <2>1, <2>2
<1> QED BY <1>2, <1>4, <1>6, <1>7, <1>8, <1>9

\* A cancelled turn: what stays of its compaction is on disk, or is being written.
LEMMA TurnCancelledStep ==
  ASSUME CInv, NEW s \in Session, TurnCancelled(s)
  PROVE  CInv'
<1>1. /\ turn[s].pc \in TurnPc \ {"compacted"} /\ saves[s]["orphan"].pc = "none"
      /\ IF turn[s].kept THEN UNCHANGED mem ELSE Compacted(s, turn[s].lc)
      /\ Detached(s) /\ Unlock(s) /\ faults' = faults + 1
      /\ UNCHANGED <<log, tail, meta, turns, titling, clean, hole, brokenOff, parted>>
  BY DEF TurnCancelled, Fault
<1>2. /\ turn' \in [Session -> Holder] /\ turn'[s].pc = "free"
      /\ \A x \in Session \ {s} : turn'[x] = turn[x]
  BY <1>1, GivenBack
<1>3. /\ saves' \in [Session -> [Saver -> Checkpoint]]
      /\ \A x \in Session \ {s} : saves'[x] = saves[x]
      /\ saves'[s]["turn"].pc = "none"
      /\ \A b \in Saver : saves'[s][b].pc # "none" => \E a \in Saver : saves'[s][b] = saves[s][a]
      /\ \A b \in Saver : saves[s][b].pc # "none" => \E a \in Saver : saves'[s][a] = saves[s][b]
      /\ \A a, b \in Saver : saves'[s][a].pc # "none" /\ saves'[s][b].pc # "none" /\ a # b =>
           \E c, d \in Saver : c # d /\ saves[s][c].pc # "none" /\ saves[s][d].pc # "none"
  BY <1>1, SameCheckpoints
<1>4. /\ turn[s].lc \in Nat /\ mem[s].f.lc \in Nat /\ mem[s].hist \in Seq(Msg)
      /\ Len(mem[s].hist) \in Nat /\ turn[s].kept \in BOOLEAN
  BY OfSession
<1>5. /\ mem[s].loaded /\ mem[s].saved <= Len(mem[s].hist) /\ turn[s].lc <= mem[s].f.lc
      /\ turn[s].pc \in OpenPc => ~turn[s].kept
      /\ turn[s].pc \in OpenPc \/ turn[s].pc \in SettledPc
  <2>1. Held(mem[s], turn[s], saves[s])
    BY OfSession
  <2> QED BY <1>1, <2>1 DEF Held, TurnPc, OpenPc, SettledPc
<1>6. /\ mem' \in [Session -> Memory] /\ \A x \in Session \ {s} : mem'[x] = mem[x]
      /\ mem'[s].hist = mem[s].hist /\ mem'[s].saved = mem[s].saved
      /\ mem'[s].loaded = mem[s].loaded
      /\ mem'[s].f.lc = IF turn[s].kept THEN mem[s].f.lc ELSE turn[s].lc
  <2>1. CASE turn[s].kept
    BY <1>1, <2>1 DEF CInv, Shaped
  <2>2. CASE ~turn[s].kept
    <3>1. Compacted(s, turn[s].lc)
      BY <1>1, <2>2
    <3> QED BY <1>4, <2>2, <3>1, CursorMoved
  <2> QED BY <2>1, <2>2
<1>7. Shaped' /\ OthersStay(s)
  BY <1>1, <1>2, <1>3, <1>6 DEF CInv, Shaped, OthersStay
<1>8. Held(mem'[s], turn'[s], saves'[s])
  BY <1>2, <1>3, <1>5, <1>6 DEF Held, WaitPc, TurnPc, OpenPc
<1>9. ASSUME clean[s] PROVE Kept(Disk(s), mem'[s], turn'[s], saves'[s])
  <2>1. Kept(Disk(s), mem[s], turn[s], saves[s])
    BY <1>9, OfSession
  <2>2. /\ \A a, b \in Saver : saves[s][a].pc # "none" /\ saves[s][b].pc # "none" => a = b
        /\ Mirrored(Disk(s), mem[s], saves[s])
        /\ turn[s].pc \in SettledPc => Covered(mem[s].f.lc, Disk(s), saves[s])
        /\ Covered(turn[s].lc, Disk(s), saves[s])
    BY <1>1, <1>5, <2>1 DEF Kept
  <2>3. \A a, b \in Saver : saves'[s][a].pc # "none" /\ saves'[s][b].pc # "none" => a = b
    BY <1>3, <2>2
  <2>4. Mirrored(Disk(s), mem'[s], saves'[s])
    <3>1. (\E b \in Saver : saves'[s][b].pc = "write") => \E b \in Saver : saves[s][b].pc = "write"
      BY <1>3
    <3>2. (\E b \in Saver : saves'[s][b].pc = "replace") => \E b \in Saver : saves[s][b].pc = "replace"
      BY <1>3
    <3>3. (\A b \in Saver : saves'[s][b].pc = "none") => \A b \in Saver : saves[s][b].pc = "none"
      BY <1>3
    <3> QED BY <1>6, <2>2, <3>1, <3>2, <3>3 DEF Mirrored
  <2>5. Covered(mem'[s].f.lc, Disk(s), saves[s])
    <3>1. CASE turn[s].kept
      BY <1>5, <1>6, <2>2, <3>1
    <3>2. CASE ~turn[s].kept
      BY <1>6, <2>2, <3>2
    <3> QED BY <1>4, <3>1, <3>2
  <2>6. Covered(mem'[s].f.lc, Disk(s), saves'[s])
    <3>1. (\A b \in Saver : saves'[s][b].pc = "none") => \A b \in Saver : saves[s][b].pc = "none"
      BY <1>3
    <3>2. \A b \in Saver : saves'[s][b].pc = "replace" =>
            \E a \in Saver : saves'[s][b] = saves[s][a]
      BY <1>3
    <3> QED BY <2>5, <3>1, <3>2 DEF Covered
  <2> QED BY <1>2, <1>3, <2>3, <2>4, <2>6 DEF Kept, TurnPc
<1>10. Disk(s)' = Disk(s) /\ (tail'[s] = "open" => log'[s] # <<>>) /\ mem'[s].loaded
  BY <1>1, <1>5, <1>6, OfSession DEF Disk
<1> QED BY <1>1, <1>7, <1>8, <1>9, <1>10, OneMoves

-----------------------------------------------------------------------------
(* Titles, closing, the cache and the process                              *)

\* The name is set and saved, or had been.
LEMMA TitleSaveStep ==
  ASSUME CInv, NEW s \in Session, TitleSave(s)
  PROVE  CInv'
<1>1. /\ mem[s].loaded /\ titling' = titling \ {s}
      /\ UNCHANGED <<log, tail, meta, turn, turns, hole, brokenOff, parted, faults>>
  BY DEF TitleSave
<1>2. /\ titling' \subseteq Session /\ faults' \in Nat /\ turns' \in [Session -> 0 .. MaxTurns]
      /\ turn' \in [Session -> Holder] /\ turn'[s] = turn[s]
      /\ \A x \in Session \ {s} : turn'[x] = turn[x]
  BY <1>1 DEF CInv, Shaped
<1>3. CASE UNCHANGED <<mem, saves, clean>>
  <2>1. Shaped' /\ OthersStay(s)
    BY <1>1, <1>2, <1>3 DEF CInv, Shaped, OthersStay
  <2>2. Disk(s)' = Disk(s)
    BY <1>1 DEF Disk
  <2> QED BY <1>1, <1>3, <2>1, <2>2, OfSession, OneMoves
<1>4. CASE /\ Mem(s, With(mem[s], [mem[s].f EXCEPT !.titled = TRUE]))
           /\ StartSave(s, "title")
  <2> DEFINE f == [mem[s].f EXCEPT !.titled = TRUE]
             m == With(mem[s], f)
  <2>1. mem[s].f \in Fields
    BY OfSession
  <2>2. f \in Fields /\ f.lc = mem[s].f.lc
    BY <2>1 DEF Fields
  <2> HIDE DEF f
  <2>3. /\ m \in Memory /\ m.hist = mem[s].hist /\ m.saved = mem[s].saved
        /\ m.loaded = mem[s].loaded /\ m.f = f
    BY <2>2, NewFieldsOnly
  <2>4. Mem(s, m)
    BY <1>4 DEF f
  <2> HIDE DEF m
  <2>5. /\ mem' \in [Session -> Memory] /\ mem'[s] = m /\ \A x \in Session \ {s} : mem'[x] = mem[x]
    BY <2>3, <2>4, NewMemory
  <2>6. "title" \in Saver /\ "title" # "turn"
    BY DEF Saver
  <2>7. Held(mem[s], turn[s], saves[s]) /\ mem[s].hist \in Seq(Msg)
    BY OfSession
  <2>8. ASSUME clean[s], \A a \in Saver : saves[s][a].pc = "none"
        PROVE  Holds(Disk(s), SubSeq(mem[s].hist, 1, mem[s].saved))
    <3>1. Mirrored(Disk(s), mem[s], saves[s])
      BY <1>1, <2>8, OfSession DEF Kept
    <3>2. Holds(Disk(s), mem[s].hist) /\ mem[s].saved = Len(mem[s].hist)
      BY <2>8, <3>1 DEF Mirrored
    <3> QED BY <2>7, <3>1, <3>2, SubSeqFull
  <2>9. /\ m.loaded /\ m.saved <= Len(m.hist)
        /\ turn[s].pc = "overflow" => Len(m.hist) - m.f.lc > Replay
        /\ turn[s].pc \in TurnPc => turn[s].lc <= m.f.lc
        /\ turn[s].pc \in OpenPc => ~turn[s].kept
    BY <1>1, <2>2, <2>3, <2>7 DEF Held
  <2> QED BY <1>1, <1>2, <1>4, <2>2, <2>3, <2>5, <2>6, <2>8, <2>9, NewSave
<1> QED BY <1>3, <1>4 DEF TitleSave

\* An idle session starts to close.
LEMMA CloseStartStep ==
  ASSUME CInv, NEW s \in Session, CloseStart(s)
  PROVE  CInv'
<1>1. /\ turn[s].pc = "free" /\ mem[s].loaded /\ At(s, "closing")
      /\ UNCHANGED <<log, tail, meta, mem, turns, saves, titling, clean, hole, brokenOff, parted, faults>>
  BY DEF CloseStart
<1>2. /\ "closing" \in Pcs /\ "closing" \notin WaitPc /\ "closing" \notin OpenPc
      /\ "closing" \notin TurnPc /\ "closing" \notin SettledPc /\ "free" \notin WaitPc
  BY DEF Pcs, TurnPc, WaitPc, OpenPc, SettledPc
<1>3. /\ turn' \in [Session -> Holder] /\ turn'[s].pc = "closing"
      /\ \A x \in Session \ {s} : turn'[x] = turn[x]
  BY <1>1, <1>2, Onward
<1>4. mem[s].saved <= Len(mem[s].hist)
  BY OfSession DEF Held
<1>5. clean[s] => Mirrored(Disk(s), mem[s], saves[s])
  BY <1>1, OfSession DEF Kept
<1>6. /\ mem' \in [Session -> Memory] /\ mem'[s] = mem[s] /\ titling' \subseteq Session
      /\ faults' \in Nat /\ \A x \in Session \ {s} : mem'[x] = mem[x]
  BY <1>1 DEF CInv, Shaped
<1> QED BY <1>1, <1>2, <1>3, <1>4, <1>5, <1>6, NoFiles

\* Its last summary: the cursor moves to the tail.
LEMMA CloseSummarisesStep ==
  ASSUME CInv, NEW s \in Session, CloseSummarises(s)
  PROVE  CInv'
<1> DEFINE n == Len(mem[s].hist)
           to == IF n - KeepTail > mem[s].f.lc THEN n - KeepTail ELSE mem[s].f.lc
           f == [lc |-> to, archived |-> n, status |-> mem[s].f.status,
                 titled |-> mem[s].f.titled]
           m == With(mem[s], f)
<1>1. /\ turn[s].pc = "closing" /\ At(s, "closeRecord") /\ Mem(s, m)
      /\ UNCHANGED <<log, tail, meta, turns, saves, titling, clean, hole, brokenOff, parted, faults>>
  BY DEF CloseSummarises
<1>2. mem[s].f \in Fields /\ n \in Nat /\ mem[s].f.lc \in Nat /\ KeepTail \in Nat
  BY OfSession, ConversationAssumption
<1>3. to \in Nat
  BY <1>2
<1> HIDE DEF to
<1>4. f \in Fields /\ f.lc = to
  BY <1>2, <1>3 DEF Fields
<1> HIDE DEF f
<1>5. /\ m \in Memory /\ m.hist = mem[s].hist /\ m.saved = mem[s].saved
      /\ m.loaded = mem[s].loaded /\ m.f = f
      /\ Mirrored(Disk(s), mem[s], saves[s]) => Mirrored(Disk(s), m, saves[s])
  BY <1>4, NewFieldsOnly
<1> HIDE DEF m
<1>6. /\ mem' \in [Session -> Memory] /\ mem'[s] = m /\ \A x \in Session \ {s} : mem'[x] = mem[x]
  BY <1>1, <1>5, NewMemory
<1>7. /\ "closeRecord" \in Pcs /\ "closeRecord" \notin WaitPc /\ "closeRecord" \notin OpenPc
      /\ "closeRecord" \notin TurnPc /\ "closeRecord" \notin SettledPc /\ "closing" \notin WaitPc
  BY DEF Pcs, TurnPc, WaitPc, OpenPc, SettledPc
<1>8. /\ turn' \in [Session -> Holder] /\ turn'[s].pc = "closeRecord"
      /\ \A x \in Session \ {s} : turn'[x] = turn[x]
  BY <1>1, <1>7, Onward
<1>9. mem[s].loaded /\ mem[s].saved <= Len(mem[s].hist)
  BY <1>1, OfSession DEF Held
<1>10. clean[s] => Mirrored(Disk(s), mem[s], saves[s])
  BY <1>9, OfSession DEF Kept
<1>11. titling' \subseteq Session /\ faults' \in Nat
  BY <1>1 DEF CInv, Shaped
<1> QED BY <1>1, <1>3, <1>4, <1>5, <1>6, <1>7, <1>8, <1>9, <1>10, <1>11, NoFiles

\* The closed session is saved.
LEMMA CloseEndsStep ==
  ASSUME CInv, NEW s \in Session, CloseEnds(s)
  PROVE  CInv'
<1> DEFINE f == [mem[s].f EXCEPT !.status = "closed"]
           m == With(mem[s], f)
<1>1. /\ turn[s].pc \in {"closing", "closeRecord"} /\ Mem(s, m)
      /\ StartSave(s, "turn") /\ At(s, "saveClosed")
      /\ UNCHANGED <<log, tail, meta, turns, titling, hole, brokenOff, parted, faults>>
  BY DEF CloseEnds
<1>2. mem[s].f \in Fields
  BY OfSession
<1>3. f \in Fields /\ f.lc = mem[s].f.lc
  BY <1>2 DEF Fields
<1> HIDE DEF f
<1>4. /\ m \in Memory /\ m.hist = mem[s].hist /\ m.saved = mem[s].saved
      /\ m.loaded = mem[s].loaded /\ m.f = f
  BY <1>3, NewFieldsOnly
<1> HIDE DEF m
<1>5. /\ mem' \in [Session -> Memory] /\ mem'[s] = m /\ \A x \in Session \ {s} : mem'[x] = mem[x]
  BY <1>1, <1>4, NewMemory
<1>6. /\ "saveClosed" \in Pcs /\ "saveClosed" \in WaitPc /\ "saveClosed" \notin OpenPc
      /\ "saveClosed" \notin TurnPc /\ turn[s].pc \notin WaitPc /\ "turn" \in Saver
  BY <1>1 DEF Pcs, TurnPc, WaitPc, OpenPc, Saver
<1>7. /\ turn' \in [Session -> Holder] /\ turn'[s].pc = "saveClosed"
      /\ \A x \in Session \ {s} : turn'[x] = turn[x]
  BY <1>1, <1>6, Onward
<1>8. mem[s].loaded /\ mem[s].saved <= Len(mem[s].hist) /\ mem[s].hist \in Seq(Msg)
  BY <1>1, OfSession DEF Held
<1>9. ASSUME clean[s], \A a \in Saver : saves[s][a].pc = "none"
      PROVE  Holds(Disk(s), SubSeq(mem[s].hist, 1, mem[s].saved))
  <2>1. Mirrored(Disk(s), mem[s], saves[s])
    BY <1>8, <1>9, OfSession DEF Kept
  <2>2. Holds(Disk(s), mem[s].hist) /\ mem[s].saved = Len(mem[s].hist)
    BY <1>9, <2>1 DEF Mirrored
  <2> QED BY <1>8, <2>1, <2>2, SubSeqFull
<1>10. titling' \subseteq Session /\ faults' \in Nat /\ turns' \in [Session -> 0 .. MaxTurns]
  BY <1>1 DEF CInv, Shaped
<1> QED BY <1>1, <1>3, <1>4, <1>5, <1>6, <1>7, <1>8, <1>9, <1>10, NewSave

\* An unlocked session leaves the cache.
LEMMA EvictStep ==
  ASSUME CInv, NEW s \in Session, Evict(s)
  PROVE  CInv'
<1>1. /\ turn[s].pc = "free" /\ ~Saving(s) /\ Mem(s, NotLoaded) /\ Forgotten(s)
      /\ UNCHANGED <<log, tail, meta, turn, turns, saves, titling, parted, faults>>
  BY DEF Evict
<1>2. NotLoaded \in Memory /\ ~NotLoaded.loaded /\ NotLoaded.saved <= Len(NotLoaded.hist)
  <2>1. <<>> \in Seq(Msg) /\ Len(<<>>) = 0
    OBVIOUS
  <2> QED BY <2>1 DEF NotLoaded, Memory, NewFields, Fields
<1>3. /\ mem' \in [Session -> Memory] /\ mem'[s] = NotLoaded
      /\ \A x \in Session \ {s} : mem'[x] = mem[x]
  BY <1>1, <1>2, NewMemory
<1>4. NoHole \in Holes
  BY DEF NoHole, Holes
<1>5. /\ Shaped' /\ OthersStay(s) /\ hole'[s] = NoHole
  BY <1>1, <1>3, <1>4 DEF CInv, Shaped, OthersStay, Forgotten
<1>6. Held(NotLoaded, turn[s], saves[s])
  <2>1. Held(mem[s], turn[s], saves[s])
    BY OfSession
  <2> QED BY <1>1, <1>2, <2>1 DEF Held, Saving, TurnPc, OpenPc
<1>7. Kept(Disk(s)', NotLoaded, turn[s], saves[s])
  BY <1>1, <1>2 DEF Kept, Saving
<1>8. tail'[s] = "open" => log'[s] # <<>>
  BY <1>1, OfSession
<1> QED BY <1>1, <1>3, <1>5, <1>6, <1>7, <1>8, OneMoves

\* The process dies: the files are what is left, with any part of what a checkpoint was
\* appending.
LEMMA DieStep == ASSUME CInv, Die PROVE CInv'
<1>1. /\ mem' = [s \in Session |-> NotLoaded] /\ turn' = [s \in Session |-> Free]
      /\ saves' = [s \in Session |-> [b \in Saver |-> NoSave]]
      /\ titling' = {} /\ faults' = faults + 1 /\ UNCHANGED <<meta, turns, parted>>
      /\ clean' = [s \in Session |-> TRUE] /\ hole' = [s \in Session |-> NoHole]
      /\ brokenOff' = [s \in Session |-> 0]
  BY DEF Die, Fault
<1>2. PICK n \in [Session -> 0 .. Len(Tooled) * MaxTurns], e \in [Session -> Ends] :
        /\ \A s \in Session : Breaks(s, n[s], e[s])
        /\ log' = [s \in Session |-> Begun(s, n[s], e[s]).log]
        /\ tail' = [s \in Session |-> Begun(s, n[s], e[s]).tail]
  BY DEF Die
<1>3. ASSUME NEW s \in Session
      PROVE  /\ log'[s] \in Seq(Msg) /\ tail'[s] \in Ends
             /\ tail'[s] = "open" => log'[s] # <<>>
  <2>1. mem[s].hist \in Seq(Msg) /\ mem[s].saved \in 0 .. Len(mem[s].hist)
    BY OfSession DEF Held
  <2>2. Unsaved(s) \in Seq(Msg)
    BY <2>1, Histories DEF Unsaved
  <2>3. Len(Tooled) * MaxTurns \in Nat
    BY ConversationAssumption DEF Tooled
  <2>4. n[s] \in 0 .. Len(Tooled) * MaxTurns /\ n[s] <= Len(Unsaved(s))
    BY <1>2 DEF Breaks
  <2>5. n[s] \in 0 .. Len(Unsaved(s)) /\ e[s] \in Ends
    BY <2>2, <2>3, <2>4
  <2> QED BY <1>2, <2>5, BegunLines
<1>4. /\ NotLoaded \in Memory /\ ~NotLoaded.loaded /\ NotLoaded.saved <= Len(NotLoaded.hist)
      /\ Free \in Holder /\ Free.pc = "free" /\ NoSave \in Checkpoint /\ NoSave.pc = "none"
      /\ NoHole \in Holes
  <2>1. <<>> \in Seq(Msg) /\ Len(<<>>) = 0
    OBVIOUS
  <2> QED BY <2>1 DEF NotLoaded, Memory, NewFields, Fields, Free, Holder, Pcs, NoSave, Checkpoint,
                      NoHole, Holes
<1>5. Shaped'
  <2>1. log' \in [Session -> Seq(Msg)] /\ tail' \in [Session -> Ends]
    BY <1>2, <1>3
  <2> QED BY <1>1, <1>4, <2>1 DEF CInv, Shaped
<1>6. ASSUME NEW s \in Session
      PROVE  /\ tail'[s] = "open" => log'[s] # <<>>
             /\ ~mem'[s].loaded => hole'[s] = NoHole
             /\ Held(mem'[s], turn'[s], saves'[s])
             /\ clean'[s] => Kept(Disk(s)', mem'[s], turn'[s], saves'[s])
  <2>1. /\ mem'[s] = NotLoaded /\ turn'[s] = Free /\ \A b \in Saver : saves'[s][b] = NoSave
        /\ hole'[s] = NoHole /\ "turn" \in Saver
    BY <1>1 DEF Saver
  <2>2. Held(NotLoaded, Free, saves'[s])
    BY <1>4, <2>1 DEF Held, WaitPc, TurnPc, OpenPc
  <2>3. Kept(Disk(s)', NotLoaded, Free, saves'[s])
    BY <1>4, <2>1 DEF Kept
  <2> QED BY <1>3, <2>1, <2>2, <2>3
<1> QED BY <1>5, <1>6 DEF CInv

-----------------------------------------------------------------------------
(* The invariant and what follows from it                                  *)

\* Every step keeps the invariant.
LEMMA NextKeepsCInv == CInv /\ [Next]_vars => CInv'
<1> SUFFICES ASSUME CInv, [Next]_vars PROVE CInv'
  OBVIOUS
<1>1. CASE UNCHANGED vars
  BY <1>1 DEF vars, CInv, Shaped, Disk
<1>2. CASE Die
  BY <1>2, DieStep
<1>3. ASSUME NEW s \in Session,
             \/ TurnStart(s) \/ TurnCommand(s) \/ CompactOverflow(s) \/ CompactTokens(s)
             \/ CompactionEnds(s) \/ TurnRecorded(s) \/ TurnAnswers(s)
             \/ TurnFails(s) \/ TurnCancelled(s) \/ RecordFails(s)
      PROVE  CInv'
  BY <1>3, TurnStartStep, TurnCommandStep, CompactOverflowStep, CompactTokensStep,
     CompactionEndsStep, TurnRecordedStep, TurnAnswersStep, TurnFailsStep,
     TurnCancelledStep, RecordFailsStep
<1>4. ASSUME NEW s \in Session,
             TitleSave(s) \/ Evict(s) \/ CloseStart(s) \/ CloseSummarises(s) \/ CloseEnds(s)
      PROVE  CInv'
  BY <1>4, TitleSaveStep, EvictStep, CloseStartStep, CloseSummarisesStep, CloseEndsStep
<1>5. ASSUME NEW s \in Session, NEW b \in Saver,
             SaveWrite(s, b) \/ SaveReplace(s, b) \/ SaveFails(s, b)
      PROVE  CInv'
  BY <1>5, SaveWriteStep, SaveReplaceStep, SaveFailsStep
<1> QED BY <1>1, <1>2, <1>3, <1>4, <1>5 DEF Next

\* The invariant holds throughout.
LEMMA CInvHolds == Spec => []CInv
BY InitEstablishesCInv, NextKeepsCInv, PTL DEF Spec

\* Files, cached objects and locks are always of their types; no more counts as saved
\* than there is, and nothing holds a lock or writes for a session not in memory.
THEOREM ConversationTypeCorrect == Spec => []CTypeOK
<1>1. CInv => CTypeOK
  <2> SUFFICES ASSUME CInv, NEW s \in Session
               PROVE  /\ log[s] \in Seq(Msg) /\ mem[s].hist \in Seq(Msg)
                      /\ tail[s] \in Ends /\ (tail[s] = "open" => log[s] # <<>>)
                      /\ meta[s] \in Fields /\ mem[s].f \in Fields
                      /\ mem[s].saved \in 0 .. Len(mem[s].hist)
                      /\ turn[s].pc # "free" => mem[s].loaded
                      /\ Saving(s) => mem[s].loaded
    BY DEF CTypeOK
  <2>1. /\ log[s] \in Seq(Msg) /\ mem[s].hist \in Seq(Msg) /\ Len(mem[s].hist) \in Nat
        /\ tail[s] \in Ends /\ (tail[s] = "open" => log[s] # <<>>)
        /\ meta[s] \in Fields /\ mem[s].f \in Fields /\ mem[s].saved \in Nat
        /\ Held(mem[s], turn[s], saves[s])
    BY OfSession
  <2> QED BY <2>1 DEF Held, Saving
<1> QED BY <1>1, CInvHolds, PTL

\* While no checkpoint has failed or overlapped another, the file of a session in
\* memory holds the beginning of what was said, and all of it when no checkpoint is
\* under way: whatever turns, cancellations, closings, evictions and deaths there were.
\* After a death in the middle of an append only the message on the unfinished line, or
\* the two on it, can be missing.
THEOREM DiskAndMemoryAgree == Spec => []DiskMirrors
<1>1. CInv => DiskMirrors
  <2> SUFFICES ASSUME CInv, NEW s \in Session, clean[s], mem[s].loaded
               PROVE  /\ IsPrefix(log[s], Found(mem[s].hist, hole[s])) /\ hole[s].size <= 2
                      /\ ~Saving(s) => /\ log[s] = Found(mem[s].hist, hole[s])
                                       /\ mem[s].saved = Len(mem[s].hist)
    BY DEF DiskMirrors
  <2> DEFINE h == mem[s].hist
             g == hole[s]
             p == SubSeq(h, 1, mem[s].saved)
             u == SubSeq(h, mem[s].saved + 1, Len(h))
  <2>1. /\ h \in Seq(Msg) /\ Mirrored(Disk(s), mem[s], saves[s]) /\ g \in Holes
        /\ mem[s].saved \in 0 .. Len(h) /\ log[s] \in Seq(Msg)
        /\ \A b \in Saver : saves[s][b].pc \in {"none", "write", "replace"}
    BY OfSession DEF Kept, Held
  <2>2. \A x : Holds(Disk(s), x) => log[s] = Found(x, g) /\ 0 <= g.at /\ g.at + g.size <= Len(x)
    BY DEF Holds, Disk
  <2>3. ~Saving(s) => log[s] = Found(h, g) /\ mem[s].saved = Len(h)
    BY <2>1, <2>2 DEF Mirrored, Saving
  <2>4. g.size <= 2
    BY <2>1 DEF Holes
  <2>5. p \in Seq(Msg) /\ u \in Seq(Msg) /\ p \o u = h
    BY <2>1, Histories
  <2> HIDE DEF p, u, h, g
  <2>6. IsPrefix(log[s], Found(h, g))
    <3>1. CASE \E b \in Saver : saves[s][b].pc = "write"
      <4>1. log[s] = Found(p, g) /\ 0 <= g.at /\ g.at + g.size <= Len(p)
        BY <2>1, <2>2, <3>1 DEF Mirrored, p, h
      <4>2. Found(h, g) = log[s] \o u
        <5>1. g \in Holes
          BY <2>1
        <5>2. Found(p \o u, g) = Found(p, g) \o u
          BY <2>5, <4>1, <5>1, FoundGrows
        <5> QED BY <2>5, <4>1, <5>2
      <4> QED BY <2>1, <2>5, <4>2, Leads
    <3>2. CASE ~ \E b \in Saver : saves[s][b].pc = "write"
      <4>1. log[s] = Found(h, g)
        BY <2>1, <2>2, <3>2 DEF Mirrored, h
      <4>2. log[s] \o <<>> = log[s] /\ <<>> \in Seq(Msg)
        BY <2>1, ConcatEmptySeq
      <4>3. IsPrefix(log[s], log[s] \o <<>>)
        BY <2>1, <4>2, Leads
      <4> QED BY <4>1, <4>2, <4>3
    <3> QED BY <3>1, <3>2
  <2> QED BY <2>3, <2>4, <2>6 DEF h, g
<1> QED BY <1>1, CInvHolds, PTL

\* A compaction that is in memory between turns is on disk, at whichever await the
\* turn that made it was cancelled or broken off; but for that of a closing whose summary
\* could not be handed over.
THEOREM CompactionsKept == Spec => []CompactionKept
<1>1. CInv => CompactionKept
  <2> SUFFICES ASSUME CInv, NEW s \in Session, clean[s], mem[s].loaded,
                      turn[s].pc = "free", ~Saving(s)
               PROVE  mem[s].f.lc <= meta[s].lc \/ mem[s].f.lc = brokenOff[s]
    BY DEF CompactionKept
  <2>1. Covered(mem[s].f.lc, Disk(s), saves[s])
    BY OfSession DEF Kept, SettledPc
  <2>2. \A b \in Saver : saves[s][b].pc = "none"
    BY DEF Saving
  <2> QED BY <2>1, <2>2 DEF Covered, Disk
<1> QED BY <1>1, CInvHolds, PTL

-----------------------------------------------------------------------------
(* Calls and their results in a list of messages                           *)

\* A list in which a result stands right behind its call, among other results, and a
\* call has its result there or nowhere behind it: one that Repair makes legal.
Mendable(h) ==
  \A i \in DOMAIN h :
    /\ IsTool(h[i]) => HasCall(h, i)
    /\ \A id \in Calls(h[i]) : Answered(h, i, id) \/ \A j \in i + 1 .. Len(h) : ~Answers(h[j], id)

\* x is what stands in h from place d + 1 on.
Slice(x, h, d) == Len(x) + d <= Len(h) /\ \A k \in 1 .. Len(x) : x[k] = h[k + d]

\* A call is no result, and its results are those of its turn.
LEMMA CallsAndResults ==
  ASSUME NEW m, NEW id \in Calls(m)
  PROVE  ~IsTool(m) /\ id[1] = m.of /\ \A r : Answers(r, id) => IsTool(r) /\ r.of = m.of
BY DEF Calls, IsTool, Answers

\* Results stay joined to their call in a part that begins with something else.
LEMMA SliceCalls ==
  ASSUME NEW h \in Seq(Msg), NEW x \in Seq(Msg), NEW d \in Nat, Slice(x, h, d),
         \A i \in DOMAIN h : IsTool(h[i]) => HasCall(h, i),
         NEW j \in 1 .. Len(x), IsTool(x[j]), \E k \in 1 .. j : ~IsTool(x[k])
  PROVE  HasCall(x, j)
<1>1. /\ Len(x) \in Nat /\ Len(h) \in Nat /\ DOMAIN x = 1 .. Len(x) /\ DOMAIN h = 1 .. Len(h)
      /\ Len(x) + d <= Len(h) /\ \A k \in 1 .. Len(x) : x[k] = h[k + d]
  BY DEF Slice
<1>2. j + d \in DOMAIN h /\ IsTool(h[j + d])
  BY <1>1
<1>3. PICK i \in DOMAIN h : Joined(h, i, j + d) /\ \E id \in Calls(h[i]) : Answers(h[j + d], id)
  BY <1>2 DEF HasCall
<1>4. PICK k \in 1 .. j : ~IsTool(x[k])
  OBVIOUS
<1>5. i < j + d /\ \A n \in i + 1 .. j + d : IsTool(h[n])
  BY <1>3 DEF Joined
<1>6. i > d
  <2>1. k \in 1 .. Len(x) /\ ~IsTool(h[k + d])
    BY <1>1, <1>4
  <2>2. ~(k + d \in i + 1 .. j + d)
    BY <1>5, <2>1
  <2> QED BY <1>1, <1>4, <2>2
<1>7. i - d \in 1 .. Len(x) /\ x[i - d] = h[i] /\ x[j] = h[j + d]
  <2>1. i - d \in 1 .. Len(x) /\ (i - d) + d = i
    BY <1>1, <1>5, <1>6
  <2> QED BY <1>1, <2>1
<1>8. Joined(x, i - d, j)
  <2>1. i - d < j
    BY <1>1, <1>5
  <2>2. ASSUME NEW n \in (i - d) + 1 .. j PROVE IsTool(x[n])
    <3>1. n \in 1 .. Len(x) /\ n + d \in i + 1 .. j + d
      BY <1>1, <1>6
    <3> QED BY <1>1, <1>5, <3>1
  <2> QED BY <2>1, <2>2 DEF Joined
<1> QED BY <1>1, <1>3, <1>7, <1>8 DEF HasCall

\* A call of a part is answered there when it is answered in the whole by something
\* that is still in the part.
LEMMA SliceAnswers ==
  ASSUME NEW h \in Seq(Msg), NEW x \in Seq(Msg), NEW d \in Nat, Slice(x, h, d),
         NEW i \in 1 .. Len(x), NEW id, NEW n \in 1 .. Len(x), NEW j \in DOMAIN h,
         Joined(h, i + d, j), i < n, n + d <= j, Answers(x[n], id)
  PROVE  Answered(x, i, id)
<1>1. /\ Len(x) \in Nat /\ Len(h) \in Nat /\ DOMAIN x = 1 .. Len(x) /\ DOMAIN h = 1 .. Len(h)
      /\ \A k \in 1 .. Len(x) : x[k] = h[k + d]
  BY DEF Slice
<1>2. \A k \in i + d + 1 .. j : IsTool(h[k])
  BY DEF Joined
<1>3. ASSUME NEW k \in i + 1 .. n PROVE IsTool(x[k])
  <2>1. k \in 1 .. Len(x) /\ k + d \in i + d + 1 .. j
    BY <1>1
  <2> QED BY <1>1, <1>2, <2>1
<1>4. Joined(x, i, n)
  BY <1>3 DEF Joined
<1> QED BY <1>1, <1>4 DEF Answered

\* Such a part of a list that can be mended can be mended.
LEMMA SliceMendable ==
  ASSUME NEW h \in Seq(Msg), NEW x \in Seq(Msg), NEW d \in Nat, Slice(x, h, d), Mendable(h),
         \A j \in 1 .. Len(x) : IsTool(x[j]) => \E k \in 1 .. j : ~IsTool(x[k])
  PROVE  Mendable(x)
<1>1. /\ Len(x) \in Nat /\ Len(h) \in Nat /\ DOMAIN x = 1 .. Len(x) /\ DOMAIN h = 1 .. Len(h)
      /\ Len(x) + d <= Len(h) /\ \A k \in 1 .. Len(x) : x[k] = h[k + d]
  BY DEF Slice
<1>2. ASSUME NEW i \in 1 .. Len(x), IsTool(x[i]) PROVE HasCall(x, i)
  <2>1. \A k \in DOMAIN h : IsTool(h[k]) => HasCall(h, k)
    BY DEF Mendable
  <2> QED BY <1>2, <2>1, SliceCalls
<1>3. ASSUME NEW i \in 1 .. Len(x), NEW id \in Calls(x[i]),
             NEW n \in i + 1 .. Len(x), Answers(x[n], id)
      PROVE  Answered(x, i, id)
  <2>1. i + d \in DOMAIN h /\ id \in Calls(h[i + d]) /\ n \in 1 .. Len(x) /\ i < n
    BY <1>1
  <2>2. n + d \in i + d + 1 .. Len(h) /\ Answers(h[n + d], id)
    BY <1>1, <1>3, <2>1
  <2>3. Answered(h, i + d, id)
    BY <2>1, <2>2 DEF Mendable
  <2>4. PICK j \in DOMAIN h : Joined(h, i + d, j) /\ Answers(h[j], id)
    BY <2>3 DEF Answered
  <2>5. CASE n + d <= j
    BY <1>3, <2>1, <2>4, <2>5, SliceAnswers
  <2>6. CASE j < n + d
    <3>1. i + d < j
      BY <2>4 DEF Joined
    <3>2. j - d \in 1 .. Len(x) /\ i < j - d /\ (j - d) + d <= j /\ (j - d) + d = j
      BY <1>1, <2>1, <2>6, <3>1
    <3>3. Answers(x[j - d], id)
      BY <1>1, <2>4, <3>2
    <3> QED BY <2>1, <2>4, <3>2, <3>3, SliceAnswers
  <2> QED BY <1>1, <2>1, <2>5, <2>6
<1> QED BY <1>1, <1>2, <1>3 DEF Mendable

\* The end of a legal list, from something that is no result on, is legal.
LEMMA EndLegal ==
  ASSUME NEW h \in Seq(Msg), NEW x \in Seq(Msg), NEW d \in Nat, Slice(x, h, d), Legal(h),
         Len(x) + d = Len(h),
         \A j \in 1 .. Len(x) : IsTool(x[j]) => \E k \in 1 .. j : ~IsTool(x[k])
  PROVE  Legal(x)
<1>1. /\ Len(x) \in Nat /\ Len(h) \in Nat /\ DOMAIN x = 1 .. Len(x) /\ DOMAIN h = 1 .. Len(h)
      /\ \A k \in 1 .. Len(x) : x[k] = h[k + d]
  BY DEF Slice
<1>2. ASSUME NEW i \in 1 .. Len(x), IsTool(x[i]) PROVE HasCall(x, i)
  <2>1. \A k \in DOMAIN h : IsTool(h[k]) => HasCall(h, k)
    BY DEF Legal
  <2> QED BY <1>2, <2>1, SliceCalls
<1>3. ASSUME NEW i \in 1 .. Len(x), NEW id \in Calls(x[i])
      PROVE  Answered(x, i, id)
  <2>1. i + d \in DOMAIN h /\ id \in Calls(h[i + d])
    BY <1>1
  <2>2. PICK j \in DOMAIN h : Joined(h, i + d, j) /\ Answers(h[j], id)
    BY <2>1 DEF Legal, Answered
  <2>3. j - d \in 1 .. Len(x) /\ i < j - d /\ (j - d) + d = j /\ (j - d) + d <= j
    BY <1>1, <2>2 DEF Joined
  <2>4. Answers(x[j - d], id)
    BY <1>1, <2>2, <2>3
  <2> QED BY <1>1, <2>2, <2>3, <2>4, SliceAnswers
<1> QED BY <1>1, <1>2, <1>3 DEF Legal

\* A legal list needs no mending.
LEMMA LegalMendable == ASSUME NEW h, Legal(h) PROVE Mendable(h)
BY DEF Legal, Mendable

\* Two lists that can be mended can be mended together when the second answers no call
\* that the first leaves open.
LEMMA TogetherMendable ==
  ASSUME NEW h \in Seq(Msg), NEW x \in Seq(Msg), Mendable(h), Mendable(x),
         \A i \in DOMAIN h : \A id \in Calls(h[i]) :
           (\A j \in i + 1 .. Len(h) : ~Answers(h[j], id)) => \A j \in DOMAIN x : ~Answers(x[j], id)
  PROVE  /\ h \o x \in Seq(Msg) /\ Mendable(h \o x)
         /\ Legal(h) /\ Legal(x) => Legal(h \o x)
<1> DEFINE c == h \o x
           n == Len(h)
<1>1. /\ c \in Seq(Msg) /\ Len(c) = n + Len(x)
      /\ \A k \in 1 .. n : c[k] = h[k]
      /\ \A k \in 1 .. Len(x) : c[k + n] = x[k]
  BY ConcatProperties
<1>2. /\ n \in Nat /\ Len(x) \in Nat /\ DOMAIN h = 1 .. n /\ DOMAIN x = 1 .. Len(x)
      /\ DOMAIN c = 1 .. n + Len(x)
  BY <1>1
<1> HIDE DEF c
<1>3. ASSUME NEW i \in 1 .. n, NEW j \in 1 .. n, Joined(h, i, j) PROVE Joined(c, i, j)
  BY <1>1, <1>2, <1>3 DEF Joined
<1>4. ASSUME NEW i \in 1 .. Len(x), NEW j \in 1 .. Len(x), Joined(x, i, j)
      PROVE  Joined(c, i + n, j + n)
  <2>1. ASSUME NEW k \in i + n + 1 .. j + n PROVE IsTool(c[k])
    <3>1. k - n \in i + 1 .. j /\ k - n \in 1 .. Len(x) /\ (k - n) + n = k
      BY <1>2
    <3> QED BY <1>1, <1>4, <3>1 DEF Joined
  <2>2. i + n < j + n
    BY <1>2, <1>4 DEF Joined
  <2> QED BY <2>1, <2>2 DEF Joined
<1>5. ASSUME NEW i \in 1 .. n
      PROVE  /\ IsTool(c[i]) => HasCall(c, i)
             /\ \A id \in Calls(c[i]) :
                  Answered(c, i, id) \/ \A j \in i + 1 .. Len(c) : ~Answers(c[j], id)
             /\ Legal(h) => \A id \in Calls(c[i]) : Answered(c, i, id)
  <2>1. c[i] = h[i]
    BY <1>1
  <2>2. ASSUME IsTool(c[i]) PROVE HasCall(c, i)
    <3>1. PICK k \in 1 .. n : Joined(h, k, i) /\ \E id \in Calls(h[k]) : Answers(h[i], id)
      BY <1>2, <2>1, <2>2 DEF Mendable, HasCall
    <3>2. k \in DOMAIN c /\ c[k] = h[k] /\ Joined(c, k, i)
      BY <1>1, <1>2, <1>3, <3>1
    <3> QED BY <2>1, <3>1, <3>2 DEF HasCall
  <2>3. ASSUME NEW id \in Calls(c[i]), Answered(h, i, id) PROVE Answered(c, i, id)
    <3>1. PICK j \in 1 .. n : Joined(h, i, j) /\ Answers(h[j], id)
      BY <1>2, <2>3 DEF Answered
    <3>2. j \in DOMAIN c /\ c[j] = h[j] /\ Joined(c, i, j)
      BY <1>1, <1>2, <1>3, <3>1
    <3> QED BY <3>1, <3>2 DEF Answered
  <2>4. ASSUME NEW id \in Calls(c[i]), ~Answered(h, i, id), NEW j \in i + 1 .. Len(c)
        PROVE  ~Answers(c[j], id)
    <3>1. \A k \in i + 1 .. n : ~Answers(h[k], id)
      BY <1>2, <2>1, <2>4 DEF Mendable
    <3>2. \A k \in 1 .. Len(x) : ~Answers(x[k], id)
      BY <1>2, <2>1, <3>1
    <3>3. CASE j <= n
      BY <1>1, <1>2, <3>1, <3>3
    <3>4. CASE j > n
      <4>1. j - n \in 1 .. Len(x) /\ (j - n) + n = j
        BY <1>1, <1>2, <3>4
      <4> QED BY <1>1, <3>2, <4>1
    <3> QED BY <1>2, <3>3, <3>4
  <2>5. ASSUME Legal(h), NEW id \in Calls(c[i]) PROVE Answered(h, i, id)
    BY <1>2, <2>1, <2>5 DEF Legal
  <2> QED BY <2>2, <2>3, <2>4, <2>5
<1>6. ASSUME NEW i \in 1 .. Len(x)
      PROVE  /\ IsTool(c[i + n]) => HasCall(c, i + n)
             /\ \A id \in Calls(c[i + n]) :
                  \/ Answered(c, i + n, id)
                  \/ \A j \in i + n + 1 .. Len(c) : ~Answers(c[j], id)
             /\ Legal(x) => \A id \in Calls(c[i + n]) : Answered(c, i + n, id)
  <2>1. c[i + n] = x[i]
    BY <1>1
  <2>2. ASSUME IsTool(c[i + n]) PROVE HasCall(c, i + n)
    <3>1. PICK k \in 1 .. Len(x) : Joined(x, k, i) /\ \E id \in Calls(x[k]) : Answers(x[i], id)
      BY <1>2, <2>1, <2>2 DEF Mendable, HasCall
    <3>2. k + n \in DOMAIN c /\ c[k + n] = x[k] /\ Joined(c, k + n, i + n)
      BY <1>1, <1>2, <1>4, <3>1
    <3> QED BY <2>1, <3>1, <3>2 DEF HasCall
  <2>3. ASSUME NEW id \in Calls(c[i + n]), Answered(x, i, id) PROVE Answered(c, i + n, id)
    <3>1. PICK j \in 1 .. Len(x) : Joined(x, i, j) /\ Answers(x[j], id)
      BY <1>2, <2>3 DEF Answered
    <3>2. j + n \in DOMAIN c /\ c[j + n] = x[j] /\ Joined(c, i + n, j + n)
      BY <1>1, <1>2, <1>4, <3>1
    <3> QED BY <3>1, <3>2 DEF Answered
  <2>4. ASSUME NEW id \in Calls(c[i + n]), ~Answered(x, i, id), NEW j \in i + n + 1 .. Len(c)
        PROVE  ~Answers(c[j], id)
    <3>1. \A k \in i + 1 .. Len(x) : ~Answers(x[k], id)
      BY <1>2, <2>1, <2>4 DEF Mendable
    <3>2. j - n \in i + 1 .. Len(x) /\ j - n \in 1 .. Len(x) /\ (j - n) + n = j
      BY <1>1, <1>2
    <3> QED BY <1>1, <3>1, <3>2
  <2>5. ASSUME Legal(x), NEW id \in Calls(c[i + n]) PROVE Answered(x, i, id)
    BY <1>2, <2>1, <2>5 DEF Legal
  <2> QED BY <2>2, <2>3, <2>4, <2>5
<1>7. ASSUME NEW k \in DOMAIN c PROVE k \in 1 .. n \/ (k - n \in 1 .. Len(x) /\ (k - n) + n = k)
  BY <1>2
<1>8. Mendable(c)
  <2> SUFFICES ASSUME NEW k \in DOMAIN c
               PROVE  /\ IsTool(c[k]) => HasCall(c, k)
                      /\ \A id \in Calls(c[k]) :
                           Answered(c, k, id) \/ \A j \in k + 1 .. Len(c) : ~Answers(c[j], id)
    BY DEF Mendable
  <2>1. CASE k \in 1 .. n
    BY <1>5, <2>1
  <2>2. CASE k - n \in 1 .. Len(x) /\ (k - n) + n = k
    BY <1>6, <2>2
  <2> QED BY <1>7, <2>1, <2>2
<1>9. ASSUME Legal(h), Legal(x) PROVE Legal(c)
  <2> SUFFICES ASSUME NEW k \in DOMAIN c
               PROVE  /\ \A id \in Calls(c[k]) : Answered(c, k, id)
                      /\ IsTool(c[k]) => HasCall(c, k)
    BY DEF Legal
  <2>1. CASE k \in 1 .. n
    BY <1>5, <1>9, <2>1
  <2>2. CASE k - n \in 1 .. Len(x) /\ (k - n) + n = k
    BY <1>6, <1>9, <2>2
  <2> QED BY <1>7, <2>1, <2>2
<1> QED BY <1>1, <1>8, <1>9 DEF c

-----------------------------------------------------------------------------
(* Where a request begins                                                  *)

\* A set of natural numbers that is not empty has a least one.
LEMMA Smallest ==
  ASSUME NEW S, S \subseteq Nat, S # {}
  PROVE  \E m \in S : \A n \in S : m <= n
<1> DEFINE R == {p \in Nat \X Nat : p[1] < p[2]}
<1>1. IsWellFoundedOn(R, Nat)
  BY NatLessThanWellFounded DEF OpToRel
<1>2. \A m, n \in Nat : <<n, m>> \in R <=> n < m
  OBVIOUS
<1> HIDE DEF R
<1>3. PICK m \in S : \A n \in S : ~(<<n, m>> \in R)
  BY <1>1, WFMin
<1>4. ASSUME NEW n \in S PROVE m <= n
  <2>1. m \in Nat /\ n \in Nat
    BY <1>3
  <2>2. ~(n < m)
    BY <1>2, <1>3, <2>1
  <2> QED BY <2>1, <2>2
<1> QED BY <1>3, <1>4

\* What FirstLegal leaves begins with something that is no result.
Opens(x) == \A j \in 1 .. Len(x) : IsTool(x[j]) => \E k \in 1 .. j : ~IsTool(x[k])

\* The end of a list, from some place on.
LEMMA EndOf ==
  ASSUME NEW h \in Seq(Msg), NEW i \in 1 .. Len(h) + 1
  PROVE  /\ From(h, i) \in Seq(Msg) /\ Len(From(h, i)) = Len(h) - i + 1
         /\ i - 1 \in Nat /\ Slice(From(h, i), h, i - 1)
<1>1. Len(h) \in Nat
  OBVIOUS
<1>2. From(h, i) \in Seq(Msg) /\ Len(From(h, i)) = Len(h) - i + 1
  BY DEF From
<1>3. \A k \in 1 .. Len(From(h, i)) : From(h, i)[k] = h[k + (i - 1)]
  BY <1>1, <1>2 DEF From
<1> QED BY <1>1, <1>2, <1>3 DEF Slice

\* A list cut at its first legal place begins as a request may begin.
LEMMA Beginning ==
  ASSUME NEW h \in Seq(Msg)
  PROVE  FirstLegal(h) \in 1 .. Len(h) + 1 /\ Opens(From(h, FirstLegal(h)))
<1> DEFINE asked == {i \in DOMAIN h : h[i].role = "user"}
           closed == {i \in 1 .. Len(h) + 1 :
                        \A j \in i .. Len(h) : IsTool(h[j]) => Called(h, i, j)}
           least(S) == CHOOSE i \in S : \A j \in S : i <= j
<1>1. FirstLegal(h) = IF asked # {} THEN least(asked) ELSE least(closed)
  BY DEF FirstLegal
<1>2. Len(h) \in Nat /\ DOMAIN h = 1 .. Len(h)
  OBVIOUS
<1>3. asked \subseteq Nat /\ closed \subseteq Nat
  BY <1>2
<1>4. Len(h) + 1 \in closed
  BY <1>2
<1>5. CASE asked # {}
  <2>1. \E i \in asked : \A j \in asked : i <= j
    BY <1>3, <1>5, Smallest
  <2>2. least(asked) \in asked
    BY <2>1
  <2> DEFINE f == FirstLegal(h)
  <2>3. f \in 1 .. Len(h) /\ h[f].role = "user"
    BY <1>1, <1>2, <1>5, <2>2
  <2> HIDE DEF f
  <2>4. /\ From(h, f) \in Seq(Msg) /\ Len(From(h, f)) = Len(h) - f + 1
        /\ Slice(From(h, f), h, f - 1)
    BY <1>2, <2>3, EndOf
  <2>5. 1 \in 1 .. Len(From(h, f)) /\ 1 + (f - 1) = f
    BY <1>2, <2>3, <2>4
  <2>6. From(h, f)[1] = h[f]
    BY <2>4, <2>5 DEF Slice
  <2>7. ~IsTool(From(h, f)[1])
    BY <2>3, <2>6 DEF IsTool
  <2>8. Opens(From(h, f))
    BY <2>7 DEF Opens
  <2> QED BY <1>2, <2>3, <2>8 DEF f
<1>6. CASE asked = {}
  <2>1. \E i \in closed : \A j \in closed : i <= j
    BY <1>3, <1>4, Smallest
  <2>2. least(closed) \in closed
    BY <2>1
  <2> DEFINE f == FirstLegal(h)
  <2>3. f \in 1 .. Len(h) + 1 /\ \A j \in f .. Len(h) : IsTool(h[j]) => Called(h, f, j)
    BY <1>1, <1>6, <2>2
  <2> HIDE DEF f
  <2> DEFINE x == From(h, f)
  <2>4. x \in Seq(Msg) /\ Len(x) = Len(h) - f + 1 /\ \A k \in 1 .. Len(x) : x[k] = h[k + (f - 1)]
    BY <2>3, EndOf DEF Slice
  <2> HIDE DEF x
  <2>5. ASSUME NEW j \in 1 .. Len(x), IsTool(x[j]) PROVE \E k \in 1 .. j : ~IsTool(x[k])
    <3>1. j + (f - 1) \in f .. Len(h) /\ IsTool(h[j + (f - 1)])
      BY <1>2, <2>3, <2>4, <2>5
    <3>2. PICK n \in f .. (j + (f - 1)) - 1 :
            \E id \in Calls(h[n]) : Answers(h[j + (f - 1)], id)
      BY <2>3, <3>1 DEF Called
    <3>3. ~IsTool(h[n])
      BY <3>2, CallsAndResults
    <3>4. n - (f - 1) \in 1 .. j /\ n - (f - 1) \in 1 .. Len(x) /\ (n - (f - 1)) + (f - 1) = n
      BY <1>2, <2>3, <2>4
    <3>5. x[n - (f - 1)] = h[n]
      BY <2>4, <3>4
    <3> QED BY <3>3, <3>4, <3>5
  <2>6. Opens(x)
    BY <2>5 DEF Opens
  <2> QED BY <1>2, <2>3, <2>6 DEF f, x
<1> QED BY <1>5, <1>6

-----------------------------------------------------------------------------
(* The repair of a list                                                    *)

\* e lists the n places of S in their order, each once, and r what stands there.
InOrder(h, S, n, e, r) ==
  /\ \A p, q \in 1 .. n : p < q => Before(e[p], e[q])
  /\ \A x \in S : \E p \in 1 .. n : e[p] = x
  /\ DOMAIN r = 1 .. n /\ \A p \in 1 .. n : r[p] = Placed(h, e[p])
  /\ r = [p \in 1 .. n |-> r[p]]

\* Listed lists the places of a finite set in their order, each once.
LEMMA ListedInOrder ==
  ASSUME NEW h, NEW S, IsFiniteSet(S), S \subseteq Nat \X Nat
  PROVE  \E n \in Nat : \E e \in [1 .. n -> S] : InOrder(h, S, n, e, Listed(h, S))
<1> DEFINE n == Cardinality(S)
           Ahead(x) == {y \in S : Before(y, x)}
           ahead == [x \in S |-> Cardinality(Ahead(x))]
<1>1. n \in Nat
  BY FS_CardinalityType
<1>2. /\ \A x \in S : ~Before(x, x)
      /\ \A x, y, z \in S : Before(x, y) /\ Before(y, z) => Before(x, z)
      /\ \A x, y \in S : x = y \/ Before(x, y) \/ Before(y, x)
  <2>1. \A x \in S : x[1] \in Nat /\ x[2] \in Nat /\ x = <<x[1], x[2]>>
    OBVIOUS
  <2> QED BY <2>1 DEF Before
<1>3. ASSUME NEW x \in S
      PROVE  IsFiniteSet(Ahead(x)) /\ Cardinality(Ahead(x)) \in 0 .. n - 1
  <2>1. Ahead(x) \in SUBSET S /\ x \notin Ahead(x)
    BY <1>2
  <2>2. /\ IsFiniteSet(Ahead(x)) /\ Cardinality(Ahead(x)) <= n
        /\ n = Cardinality(Ahead(x)) => S = Ahead(x)
    BY <2>1, FS_Subset
  <2>3. Cardinality(Ahead(x)) \in Nat
    BY <2>2, FS_CardinalityType
  <2>4. Cardinality(Ahead(x)) # n
    BY <2>1, <2>2
  <2> QED BY <1>1, <2>2, <2>3, <2>4
<1>4. ASSUME NEW x \in S, NEW y \in S, Before(x, y)
      PROVE  Cardinality(Ahead(x)) < Cardinality(Ahead(y))
  <2>1. Ahead(x) \in SUBSET Ahead(y) /\ x \in Ahead(y) /\ x \notin Ahead(x)
    BY <1>2, <1>4
  <2>2. /\ Cardinality(Ahead(x)) <= Cardinality(Ahead(y))
        /\ Cardinality(Ahead(y)) = Cardinality(Ahead(x)) => Ahead(y) = Ahead(x)
    BY <1>3, <2>1, FS_Subset
  <2>3. Cardinality(Ahead(x)) \in Nat /\ Cardinality(Ahead(y)) \in Nat
    BY <1>3, FS_CardinalityType
  <2>4. Cardinality(Ahead(y)) # Cardinality(Ahead(x))
    BY <2>1, <2>2
  <2> QED BY <2>2, <2>3, <2>4
<1>5. /\ \A x \in S : ahead[x] \in 0 .. n - 1
      /\ \A x, y \in S : Before(x, y) => ahead[x] < ahead[y]
  BY <1>3, <1>4
<1>6. DOMAIN ahead = S /\ ahead \in [S -> 0 .. n - 1]
  BY <1>3
<1> HIDE DEF ahead, Ahead
<1>7. \A x, y \in S : ahead[x] = ahead[y] => x = y
  <2> SUFFICES ASSUME NEW x \in S, NEW y \in S, ahead[x] = ahead[y], x # y PROVE FALSE
    OBVIOUS
  <2>1. Before(x, y) \/ Before(y, x)
    BY <1>2
  <2>2. ahead[x] \in Nat /\ ahead[y] \in Nat
    BY <1>1, <1>5
  <2> QED BY <1>5, <2>1, <2>2
<1>8. ASSUME NEW p \in 1 .. n PROVE \E x \in S : ahead[x] = p - 1
  <2> SUFFICES ASSUME \A x \in S : ahead[x] # p - 1 PROVE FALSE
    OBVIOUS
  <2> DEFINE T == (0 .. n - 1) \ {p - 1}
  <2>1. ahead \in [S -> T]
    BY <1>6
  <2>2. IsFiniteSet(0 .. n - 1) /\ Cardinality(0 .. n - 1) = n
    <3>1. 0 \in Int /\ n - 1 \in Int /\ (0 > n - 1 => n = 0) /\ (n - 1) - 0 + 1 = n
      BY <1>1
    <3> QED BY <3>1, <1>1, FS_Interval
  <2>3. p - 1 \in 0 .. n - 1
    BY <1>1
  <2> DEFINE Z == 0 .. n - 1
  <2>4. IsFiniteSet(T) /\ Cardinality(T) = n - 1
    <3>1. IsFiniteSet(Z) /\ Cardinality(Z) = n /\ p - 1 \in Z /\ T = Z \ {p - 1}
      BY <2>2, <2>3
    <3> HIDE DEF Z, T
    <3>2. IsFiniteSet(Z \ {p - 1}) /\ Cardinality(Z \ {p - 1}) = Cardinality(Z) - 1
      BY <3>1, FS_RemoveElement
    <3> QED BY <3>1, <3>2
  <2>5. Cardinality(T) < Cardinality(S)
    BY <1>1, <2>4
  <2> HIDE DEF T
  <2>6. \E x, y \in S : x # y /\ ahead[x] = ahead[y]
    BY <2>1, <2>4, <2>5, FS_PigeonHole
  <2> QED BY <1>7, <2>6
<1> DEFINE Nth(p) == CHOOSE x \in S : ahead[x] = p - 1
           e == [p \in 1 .. n |-> Nth(p)]
<1>9. \A p \in 1 .. n : Nth(p) \in S /\ ahead[Nth(p)] = p - 1
  BY <1>8
<1>10. Listed(h, S) = [p \in 1 .. n |-> Placed(h, Nth(p))]
  BY DEF Listed, ahead, Ahead
<1> HIDE DEF Nth
<1>11. e \in [1 .. n -> S] /\ \A p \in 1 .. n : e[p] = Nth(p) /\ ahead[e[p]] = p - 1
  BY <1>9
<1>12. Listed(h, S) = [p \in 1 .. n |-> Placed(h, e[p])]
  BY <1>10
<1> HIDE DEF e
<1>13. ASSUME NEW p \in 1 .. n, NEW q \in 1 .. n, p < q PROVE Before(e[p], e[q])
  <2>1. e[p] \in S /\ e[q] \in S /\ ahead[e[p]] = p - 1 /\ ahead[e[q]] = q - 1
    BY <1>11
  <2>2. ~(e[p] = e[q]) /\ ~Before(e[q], e[p])
    BY <1>1, <1>5, <1>13, <2>1
  <2> QED BY <1>2, <2>1, <2>2
<1>14. ASSUME NEW x \in S PROVE \E p \in 1 .. n : e[p] = x
  <2>1. ahead[x] + 1 \in 1 .. n /\ (ahead[x] + 1) - 1 = ahead[x] /\ ahead[x] \in Nat
    BY <1>1, <1>5
  <2>2. e[ahead[x] + 1] \in S /\ ahead[e[ahead[x] + 1]] = ahead[x]
    BY <1>11, <2>1
  <2> QED BY <1>7, <2>1, <2>2
<1>15. InOrder(h, S, n, e, Listed(h, S))
  BY <1>12, <1>13, <1>14 DEF InOrder
<1> QED BY <1>1, <1>11, <1>15

\* All places up to y behind x hold results.
Adjoined(h, S, x, y) ==
  Before(x, y) /\ \A z \in S : Before(x, z) /\ (z = y \/ Before(z, y)) => IsTool(Placed(h, z))

\* A list with every call before its results and every result behind its call, in the
\* order of places, is legal.
LEMMA ListedLegal ==
  ASSUME NEW h, NEW S, IsFiniteSet(S), S \subseteq Nat \X Nat,
         \A x \in S : Placed(h, x) \in Msg,
         \A x \in S : \A id \in Calls(Placed(h, x)) :
           \E y \in S : Adjoined(h, S, x, y) /\ Answers(Placed(h, y), id),
         \A x \in S : IsTool(Placed(h, x)) =>
           \E y \in S : /\ Adjoined(h, S, y, x)
                        /\ \E id \in Calls(Placed(h, y)) : Answers(Placed(h, x), id)
  PROVE  Listed(h, S) \in Seq(Msg) /\ Legal(Listed(h, S))
<1> DEFINE r == Listed(h, S)
<1>1. PICK n \in Nat : \E e \in [1 .. n -> S] : InOrder(h, S, n, e, r)
  BY ListedInOrder
<1>2. PICK e \in [1 .. n -> S] : InOrder(h, S, n, e, r)
  BY <1>1
<1> HIDE DEF r
<1>3. /\ DOMAIN r = 1 .. n /\ \A p \in 1 .. n : r[p] = Placed(h, e[p]) /\ e[p] \in S
      /\ \A p, q \in 1 .. n : p < q => Before(e[p], e[q])
      /\ \A x \in S : \E p \in 1 .. n : e[p] = x
  BY <1>2 DEF InOrder
<1>4. r \in Seq(Msg)
  <2>1. r = [p \in 1 .. n |-> r[p]] /\ \A p \in 1 .. n : r[p] \in Msg
    BY <1>2, <1>3 DEF InOrder
  <2> QED BY <2>1
<1>5. ASSUME NEW p \in 1 .. n, NEW q \in 1 .. n, Adjoined(h, S, e[p], e[q])
      PROVE  Joined(r, p, q)
  <2>1. \A x, y \in Nat \X Nat : ~(Before(x, y) /\ Before(y, x))
    BY DEF Before
  <2>2. e[p] \in Nat \X Nat /\ e[q] \in Nat \X Nat
    BY <1>3
  <2>3. p < q
    <3>1. ~(q < p)
      BY <1>3, <1>5, <2>1, <2>2 DEF Adjoined
    <3>2. p # q
      BY <1>5, <2>1, <2>2 DEF Adjoined
    <3> QED BY <3>1, <3>2
  <2>4. ASSUME NEW k \in p + 1 .. q PROVE IsTool(r[k])
    <3>1. k \in 1 .. n /\ p < k /\ (k = q \/ k < q)
      BY <1>1
    <3>2. e[k] \in S /\ Before(e[p], e[k]) /\ (e[k] = e[q] \/ Before(e[k], e[q]))
      BY <1>1, <1>3, <3>1
    <3> QED BY <1>3, <1>5, <3>1, <3>2 DEF Adjoined
  <2> QED BY <2>3, <2>4 DEF Joined
<1>6. ASSUME NEW p \in 1 .. n, NEW id \in Calls(r[p]) PROVE Answered(r, p, id)
  <2>1. e[p] \in S /\ id \in Calls(Placed(h, e[p]))
    BY <1>3
  <2>2. PICK y \in S : Adjoined(h, S, e[p], y) /\ Answers(Placed(h, y), id)
    BY <2>1
  <2>3. PICK q \in 1 .. n : e[q] = y
    BY <1>3
  <2> QED BY <1>3, <1>5, <2>2, <2>3 DEF Answered
<1>7. ASSUME NEW p \in 1 .. n, IsTool(r[p]) PROVE HasCall(r, p)
  <2>1. e[p] \in S /\ IsTool(Placed(h, e[p]))
    BY <1>3, <1>7
  <2>2. PICK y \in S : /\ Adjoined(h, S, y, e[p])
                       /\ \E id \in Calls(Placed(h, y)) : Answers(Placed(h, e[p]), id)
    BY <2>1
  <2>3. PICK q \in 1 .. n : e[q] = y
    BY <1>3
  <2>4. \E id \in Calls(r[q]) : Answers(r[p], id)
    BY <1>3, <2>2, <2>3
  <2>5. Joined(r, q, p)
    BY <1>5, <2>2, <2>3
  <2> QED BY <1>3, <2>4, <2>5 DEF HasCall
<1>8. Legal(r)
  BY <1>3, <1>6, <1>7 DEF Legal
<1> QED BY <1>4, <1>8 DEF r

\* What stands in the places of a repaired history.
LEMMA Places ==
  ASSUME NEW h \in Seq(Msg)
  PROVE  /\ Filled(h) \subseteq Nat \X Nat /\ IsFiniteSet(Filled(h))
         /\ \A i \in DOMAIN h : <<i, 0>> \in Filled(h) /\ Placed(h, <<i, 0>>) = h[i]
         /\ \A x \in Filled(h) :
              /\ x[1] \in DOMAIN h /\ Placed(h, x) \in Msg
              /\ x[2] = 0 \/ (x[2] \in 1 .. 2 /\ IsTool(Placed(h, x)))
<1>1. DOMAIN h = 1 .. Len(h) /\ Len(h) \in Nat /\ \A i \in DOMAIN h : h[i] \in Msg
  OBVIOUS
<1>2. Filled(h) \subseteq (1 .. Len(h)) \X (0 .. 2)
  BY <1>1 DEF Filled
<1>3. IsFiniteSet(Filled(h))
  <2>1. IsFiniteSet(1 .. Len(h)) /\ IsFiniteSet(0 .. 2)
    <3>1. 1 \in Int /\ Len(h) \in Int /\ 0 \in Int /\ 2 \in Int
      BY <1>1
    <3>2. IsFiniteSet(1 .. Len(h))
      BY <3>1, FS_Interval
    <3>3. IsFiniteSet(0 .. 2)
      BY <3>1, FS_Interval
    <3> QED BY <3>2, <3>3
  <2>2. IsFiniteSet((1 .. Len(h)) \X (0 .. 2))
    BY <2>1, FS_Product
  <2> QED BY <1>2, <2>2, FS_Subset
<1>4. ASSUME NEW i \in DOMAIN h PROVE <<i, 0>> \in Filled(h) /\ Placed(h, <<i, 0>>) = h[i]
  BY <1>1 DEF Filled, Placed
<1>5. Range(Tooled) = {"user", "call", "tool1", "tool2", "assistant"}
  BY DEF Range, Tooled
<1>6. \A m \in Msg : \A k \in 1 .. 2 : Placeholder(m, k) \in Msg /\ IsTool(Placeholder(m, k))
  BY <1>5 DEF Msg, Placeholder, IsTool
<1>7. ASSUME NEW x \in Filled(h)
      PROVE  /\ x[1] \in DOMAIN h /\ Placed(h, x) \in Msg
             /\ x[2] = 0 \/ (x[2] \in 1 .. 2 /\ IsTool(Placed(h, x)))
  <2>1. x[1] \in 1 .. Len(h) /\ x[2] \in 0 .. 2
    BY <1>2
  <2>2. CASE x[2] = 0
    BY <1>1, <2>1, <2>2 DEF Placed
  <2>3. CASE x[2] \in 1 .. 2
    BY <1>1, <1>6, <2>1, <2>3 DEF Placed
  <2> QED BY <2>1, <2>2, <2>3
<1>8. Filled(h) \subseteq Nat \X Nat
  BY <1>1, <1>2
<1> QED BY <1>3, <1>4, <1>7, <1>8

\* A call that is lost has its placeholder.
LEMMA PlaceOfLost ==
  ASSUME NEW h \in Seq(Msg), NEW i \in DOMAIN h, NEW id \in Calls(h[i]),
         \A j \in i + 1 .. Len(h) : ~Answers(h[j], id)
  PROVE  \E k \in 1 .. 2 : <<i, k>> \in Filled(h) /\ Answers(Placed(h, <<i, k>>), id)
<1>1. id \in Lost(h)
  BY DEF Lost
<1>2. id = <<h[i].of, "tool1">> \/ id = <<h[i].of, "tool2">>
  BY DEF Calls
<1>3. PICK k \in 1 .. 2 : Answers(Placed(h, <<i, k>>), id)
  <2>1. /\ Placed(h, <<i, 1>>) = Placeholder(h[i], 1)
        /\ Placed(h, <<i, 2>>) = Placeholder(h[i], 2)
    BY DEF Placed
  <2>2. /\ Answers(Placeholder(h[i], 1), <<h[i].of, "tool1">>)
        /\ Answers(Placeholder(h[i], 2), <<h[i].of, "tool2">>)
    BY DEF Placeholder, Answers
  <2>3. CASE id = <<h[i].of, "tool1">>
    <3>1. Answers(Placed(h, <<i, 1>>), id) /\ 1 \in 1 .. 2
      BY <2>1, <2>2, <2>3
    <3> QED BY <3>1
  <2>4. CASE id = <<h[i].of, "tool2">>
    <3>1. Answers(Placed(h, <<i, 2>>), id) /\ 2 \in 1 .. 2
      BY <2>1, <2>2, <2>4
    <3> QED BY <3>1
  <2> QED BY <1>2, <2>3, <2>4
<1>4. <<i, k>> \in Filled(h)
  <2>1. <<i, k>> \in (DOMAIN h) \X (0 .. 2) /\ <<i, k>>[1] = i
    OBVIOUS
  <2> QED BY <1>1, <1>3, <2>1 DEF Filled
<1> QED BY <1>3, <1>4

\* Repair makes a list legal that can be mended.
LEMMA RepairLegal ==
  ASSUME NEW h \in Seq(Msg), Mendable(h)
  PROVE  Repair(h) \in Seq(Msg) /\ Legal(Repair(h))
<1> DEFINE F == Filled(h)
<1>1. /\ F \subseteq Nat \X Nat /\ IsFiniteSet(F)
      /\ \A i \in DOMAIN h : <<i, 0>> \in F /\ Placed(h, <<i, 0>>) = h[i]
      /\ \A x \in F : /\ x[1] \in DOMAIN h /\ Placed(h, x) \in Msg
                      /\ x[2] = 0 \/ (x[2] \in 1 .. 2 /\ IsTool(Placed(h, x)))
  BY Places
<1>2. DOMAIN h = 1 .. Len(h) /\ Len(h) \in Nat
  OBVIOUS
<1>3. \A i \in DOMAIN h : \A k \in 1 .. 2 : <<i, k>> \in F =>
        \E id \in Calls(h[i]) : Answers(Placed(h, <<i, k>>), id)
  BY DEF Filled
<1>4. ASSUME NEW i \in DOMAIN h, NEW id \in Calls(h[i]),
             \A j \in i + 1 .. Len(h) : ~Answers(h[j], id)
      PROVE  \E k \in 1 .. 2 : <<i, k>> \in F /\ Answers(Placed(h, <<i, k>>), id)
  BY <1>4, PlaceOfLost
<1> HIDE DEF F
<1>5. \A x \in F : x = <<x[1], x[2]>> /\ x[1] \in Nat /\ x[2] \in Nat
  BY <1>1
<1>6. ASSUME NEW i \in DOMAIN h, NEW j \in DOMAIN h, Joined(h, i, j)
      PROVE  Adjoined(h, F, <<i, 0>>, <<j, 0>>)
  <2>1. i < j /\ \A k \in i + 1 .. j : IsTool(h[k])
    BY <1>6 DEF Joined
  <2>2. Before(<<i, 0>>, <<j, 0>>)
    BY <2>1 DEF Before
  <2>3. ASSUME NEW z \in F, Before(<<i, 0>>, z), z = <<j, 0>> \/ Before(z, <<j, 0>>)
        PROVE  IsTool(Placed(h, z))
    <3>1. CASE z[2] # 0
      BY <1>1, <3>1
    <3>2. CASE z[2] = 0
      <4>1. z[1] \in DOMAIN h /\ z[1] \in i + 1 .. j
        BY <1>1, <1>2, <1>5, <2>3, <3>2 DEF Before
      <4>2. Placed(h, z) = h[z[1]]
        BY <3>2 DEF Placed
      <4> QED BY <2>1, <4>1, <4>2
    <3> QED BY <3>1, <3>2
  <2> QED BY <2>2, <2>3 DEF Adjoined
<1>7. ASSUME NEW i \in DOMAIN h, NEW k \in 1 .. 2, <<i, k>> \in F
      PROVE  Adjoined(h, F, <<i, 0>>, <<i, k>>)
  <2>1. Before(<<i, 0>>, <<i, k>>)
    BY DEF Before
  <2>2. ASSUME NEW z \in F, Before(<<i, 0>>, z), z = <<i, k>> \/ Before(z, <<i, k>>)
        PROVE  IsTool(Placed(h, z))
    <3>1. z[2] # 0
      BY <1>2, <1>5, <2>2 DEF Before
    <3> QED BY <1>1, <3>1
  <2> QED BY <2>1, <2>2 DEF Adjoined
<1>8. ASSUME NEW x \in F, NEW id \in Calls(Placed(h, x))
      PROVE  \E y \in F : Adjoined(h, F, x, y) /\ Answers(Placed(h, y), id)
  <2>1. ~IsTool(Placed(h, x))
    BY CallsAndResults
  <2>2. PICK i \in DOMAIN h : x = <<i, 0>>
    BY <1>1, <1>5, <2>1
  <2>3. id \in Calls(h[i])
    BY <1>1, <2>2
  <2>4. CASE Answered(h, i, id)
    <3>1. PICK j \in DOMAIN h : Joined(h, i, j) /\ Answers(h[j], id)
      BY <2>4 DEF Answered
    <3> QED BY <1>1, <1>6, <2>2, <3>1
  <2>5. CASE \A j \in i + 1 .. Len(h) : ~Answers(h[j], id)
    <3>1. PICK k \in 1 .. 2 : <<i, k>> \in F /\ Answers(Placed(h, <<i, k>>), id)
      BY <1>4, <2>3, <2>5
    <3> QED BY <1>7, <2>2, <3>1
  <2> QED BY <2>3, <2>4, <2>5 DEF Mendable
<1>9. ASSUME NEW x \in F, IsTool(Placed(h, x))
      PROVE  \E y \in F : /\ Adjoined(h, F, y, x)
                          /\ \E id \in Calls(Placed(h, y)) : Answers(Placed(h, x), id)
  <2>1. PICK i \in DOMAIN h : x[1] = i
    BY <1>1
  <2>2. CASE x[2] = 0
    <3>1. x = <<i, 0>> /\ Placed(h, x) = h[i]
      BY <1>1, <1>5, <2>1, <2>2
    <3>2. PICK j \in DOMAIN h : Joined(h, j, i) /\ \E id \in Calls(h[j]) : Answers(h[i], id)
      BY <1>9, <3>1 DEF Mendable, HasCall
    <3>3. <<j, 0>> \in F /\ Placed(h, <<j, 0>>) = h[j] /\ Adjoined(h, F, <<j, 0>>, x)
      BY <1>1, <1>6, <3>1, <3>2
    <3> QED BY <3>1, <3>2, <3>3
  <2>3. CASE x[2] \in 1 .. 2
    <3>1. PICK k \in 1 .. 2 : x = <<i, k>>
      BY <1>5, <2>1, <2>3
    <3>2. Adjoined(h, F, <<i, 0>>, x) /\ \E id \in Calls(h[i]) : Answers(Placed(h, x), id)
      BY <1>3, <1>7, <3>1
    <3> QED BY <1>1, <3>2
  <2> QED BY <1>1, <2>2, <2>3
<1>10. Standing(h, F) = F
  <2>1. ASSUME NEW x \in F, IsTool(Placed(h, x))
        PROVE  \E y \in F : Before(y, x) /\ \E id \in Calls(Placed(h, y)) : Answers(Placed(h, x), id)
    BY <1>9, <2>1 DEF Adjoined
  <2> QED BY <2>1 DEF Standing
<1>11. Listed(h, F) \in Seq(Msg) /\ Legal(Listed(h, F))
  BY <1>1, <1>8, <1>9, ListedLegal
<1>12. Repair(h) = Listed(h, F)
  BY <1>10 DEF Repair, F
<1> QED BY <1>11, <1>12

-----------------------------------------------------------------------------
(* Requests                                                                *)

\* What is left of the end of a list that can be mended can be mended.
LEMMA CutMendable ==
  ASSUME NEW h \in Seq(Msg), Mendable(h), NEW i \in 1 .. Len(h) + 1
  PROVE  LET kept == From(h, i) x == From(kept, FirstLegal(kept))
         IN /\ x \in Seq(Msg) /\ Mendable(x)
            /\ \A k \in DOMAIN x : \E j \in DOMAIN h : x[k] = h[j]
            /\ Legal(h) => Legal(x)
<1> DEFINE kept == From(h, i)
           f == FirstLegal(kept)
           x == From(kept, f)
           d == (i - 1) + (f - 1)
<1>1. /\ kept \in Seq(Msg) /\ Len(kept) = Len(h) - i + 1 /\ Slice(kept, h, i - 1)
      /\ Len(h) \in Nat /\ Len(kept) \in Nat
  BY EndOf
<1> HIDE DEF kept
<1>2. f \in 1 .. Len(kept) + 1 /\ Opens(x)
  BY <1>1, Beginning
<1> HIDE DEF f
<1>3. x \in Seq(Msg) /\ Len(x) = Len(kept) - f + 1 /\ Slice(x, kept, f - 1)
  BY <1>1, <1>2, EndOf
<1> HIDE DEF x
<1>4. d \in Nat /\ Len(x) + d = Len(h) /\ Len(x) + d <= Len(h) /\ Len(x) \in Nat
  BY <1>1, <1>2, <1>3
<1>5. Slice(x, h, d)
  <2>1. ASSUME NEW k \in 1 .. Len(x) PROVE x[k] = h[k + d]
    <3>1. x[k] = kept[k + (f - 1)] /\ k + (f - 1) \in 1 .. Len(kept)
      BY <1>1, <1>2, <1>3 DEF Slice
    <3>2. kept[k + (f - 1)] = h[(k + (f - 1)) + (i - 1)]
      BY <1>1, <3>1 DEF Slice
    <3>3. (k + (f - 1)) + (i - 1) = k + d
      BY <1>1, <1>2
    <3> QED BY <3>1, <3>2, <3>3
  <2> QED BY <1>4, <2>1 DEF Slice
<1> HIDE DEF d
<1>6. Mendable(x)
  BY <1>2, <1>3, <1>4, <1>5, SliceMendable DEF Opens
<1>7. Legal(h) => Legal(x)
  BY <1>2, <1>3, <1>4, <1>5, EndLegal DEF Opens
<1>8. ASSUME NEW k \in DOMAIN x PROVE \E j \in DOMAIN h : x[k] = h[j]
  <2>1. k \in 1 .. Len(x)
    BY <1>3
  <2>2. k + d \in DOMAIN h /\ x[k] = h[k + d]
    BY <1>1, <1>4, <1>5, <2>1 DEF Slice
  <2> QED BY <2>2
<1> QED BY <1>3, <1>6, <1>7, <1>8 DEF x, f, kept

\* A snip of a legal list is legal.
LEMMA SnipsLegal ==
  ASSUME NEW h \in Seq(Msg), Legal(h), NEW x \in Snips(h)
  PROVE  x \in Seq(Msg) /\ Legal(x)
<1>1. CASE x = h
  BY <1>1
<1>2. ASSUME NEW i \in DOMAIN h, x = From(From(h, i), FirstLegal(From(h, i)))
      PROVE  x \in Seq(Msg) /\ Legal(x)
  <2>1. i \in 1 .. Len(h) + 1
    OBVIOUS
  <2> QED BY <1>2, <2>1, LegalMendable, CutMendable
<1> QED BY <1>1, <1>2 DEF Snips

\* Whatever is assembled is sent as a legal list when it can be mended.
LEMMA SentLegal ==
  ASSUME NEW h \in Seq(Msg), Mendable(h), NEW x \in Snips(Repair(h))
  PROVE  Legal(Repair(x))
<1>1. Repair(h) \in Seq(Msg) /\ Legal(Repair(h))
  BY RepairLegal
<1>2. x \in Seq(Msg) /\ Legal(x)
  BY <1>1, SnipsLegal
<1> QED BY <1>2, LegalMendable, RepairLegal

-----------------------------------------------------------------------------
(* What a turn says                                                        *)

\* What is assembled of the turn under way: the question, or a round of calls with it.
Asked == <<"user">>
Sayings == {Plain, Tooled, Cut, Asked}

\* What a turn says is of that turn, and legal by itself.
LEMMA SayingLegal ==
  ASSUME NEW n \in 1 .. MaxTurns + 1, NEW shape \in Sayings
  PROVE  /\ Said(n, shape) \in Seq(Msg) /\ Legal(Said(n, shape))
         /\ \A i \in DOMAIN Said(n, shape) : Said(n, shape)[i].of = n
<1> DEFINE x == Said(n, shape)
           R == {"user", "call", "tool1", "tool2", "assistant"}
<1>1. Range(Tooled) = R
  BY DEF Range, Tooled
<1>2. shape = Plain \/ shape = Tooled \/ shape = Cut \/ shape = Asked
  BY DEF Sayings
<1>3. shape \in Seq(R) /\ DOMAIN shape = 1 .. Len(shape)
  <2>1. Plain \in Seq(R) /\ Tooled \in Seq(R) /\ Cut \in Seq(R) /\ Asked \in Seq(R)
    BY DEF Plain, Tooled, Cut, Asked
  <2> QED BY <1>2, <2>1
<1>4. /\ DOMAIN x = 1 .. Len(shape)
      /\ \A i \in 1 .. Len(shape) : x[i] = [of |-> n, role |-> shape[i]]
  BY <1>3 DEF Said
<1>5. \A i \in 1 .. Len(shape) : x[i].of = n /\ x[i].role = shape[i] /\ x[i] \in Msg
  BY <1>1, <1>3, <1>4 DEF Msg
<1>6. x \in Seq(Msg)
  <2>1. x = [i \in 1 .. Len(shape) |-> x[i]] /\ Len(shape) \in Nat
    BY <1>3, <1>4 DEF Said
  <2> HIDE DEF x
  <2> QED BY <1>5, <2>1
<1> HIDE DEF x
<1>7. CASE shape = Plain \/ shape = Asked
  <2>1. \A i \in 1 .. Len(shape) : x[i].role \in {"user", "assistant"}
    BY <1>5, <1>7 DEF Plain, Asked
  <2>2. \A i \in 1 .. Len(shape) : ~IsTool(x[i]) /\ Calls(x[i]) = {}
    BY <2>1 DEF IsTool, Calls
  <2> QED BY <1>4, <1>5, <1>6, <2>2 DEF Legal, x
<1>8. CASE shape = Tooled \/ shape = Cut
  <2>1. /\ Len(shape) \in {4, 5} /\ shape[1] = "user" /\ shape[2] = "call"
        /\ shape[3] = "tool1" /\ shape[4] = "tool2"
        /\ (Len(shape) = 5 => shape[5] = "assistant")
    BY <1>8 DEF Tooled, Cut
  <2>2. /\ x[1].role = "user" /\ x[2].role = "call" /\ x[3].role = "tool1"
        /\ x[4].role = "tool2"
        /\ (Len(shape) = 5 => x[5].role = "assistant")
    BY <1>5, <2>1
  <2>3. x[2].of = n /\ x[3].of = n /\ x[4].of = n
    BY <1>5, <2>1
  <2>4. Calls(x[2]) = {<<n, "tool1">>, <<n, "tool2">>} /\ ~IsTool(x[1]) /\ ~IsTool(x[2])
    BY <2>2, <2>3 DEF Calls, IsTool
  <2>5. /\ Answers(x[3], <<n, "tool1">>) /\ Answers(x[4], <<n, "tool2">>)
        /\ IsTool(x[3]) /\ IsTool(x[4])
    BY <2>2, <2>3 DEF Answers, IsTool
  <2>6. Joined(x, 2, 3) /\ Joined(x, 2, 4)
    <3>1. \A k \in 2 + 1 .. 4 : k = 3 \/ k = 4
      OBVIOUS
    <3>2. \A k \in 2 + 1 .. 3 : k = 3
      OBVIOUS
    <3> QED BY <2>5, <3>1, <3>2 DEF Joined
  <2>7. 2 \in DOMAIN x /\ 3 \in DOMAIN x /\ 4 \in DOMAIN x
    BY <1>4, <2>1
  <2>8. \A id \in Calls(x[2]) : Answered(x, 2, id)
    <3>1. Answered(x, 2, <<n, "tool1">>) /\ Answered(x, 2, <<n, "tool2">>)
      BY <2>5, <2>6, <2>7 DEF Answered
    <3> QED BY <2>4, <3>1
  <2>9. HasCall(x, 3) /\ HasCall(x, 4)
    BY <2>4, <2>5, <2>6, <2>7 DEF HasCall
  <2>10. Calls(x[1]) = {} /\ Calls(x[3]) = {} /\ Calls(x[4]) = {}
    BY <2>2 DEF Calls
  <2>11. Len(shape) = 5 => Calls(x[5]) = {} /\ ~IsTool(x[5])
    BY <2>2 DEF Calls, IsTool
  <2>12. ASSUME NEW i \in DOMAIN x
         PROVE  (\A id \in Calls(x[i]) : Answered(x, i, id)) /\ (IsTool(x[i]) => HasCall(x, i))
    <3>1. i = 1 \/ i = 2 \/ i = 3 \/ i = 4 \/ (i = 5 /\ Len(shape) = 5)
      BY <1>4, <2>1
    <3>2. CASE i = 1
      BY <2>4, <2>10, <3>2
    <3>3. CASE i = 2
      BY <2>4, <2>8, <3>3
    <3>4. CASE i = 3 \/ i = 4
      BY <2>9, <2>10, <3>4
    <3>5. CASE i = 5 /\ Len(shape) = 5
      BY <2>11, <3>5
    <3> QED BY <3>1, <3>2, <3>3, <3>4, <3>5
  <2>13. Legal(x)
    BY <2>12 DEF Legal
  <2> QED BY <1>4, <1>5, <1>6, <2>13 DEF x
<1> QED BY <1>2, <1>7, <1>8

\* It begins with the question.
LEMMA SayingAsks ==
  ASSUME NEW n \in 1 .. MaxTurns + 1, NEW shape \in Sayings
  PROVE  Len(Said(n, shape)) \in Nat \ {0} /\ Said(n, shape)[1].role = "user"
<1>1. shape = Plain \/ shape = Tooled \/ shape = Cut \/ shape = Asked
  BY DEF Sayings
<1>2. Len(shape) \in Nat \ {0} /\ DOMAIN shape = 1 .. Len(shape) /\ shape[1] = "user"
  BY <1>1 DEF Plain, Tooled, Cut, Asked
<1> DEFINE x == Said(n, shape)
<1>3. x \in Seq(Msg)
  BY SayingLegal
<1>4. DOMAIN x = 1 .. Len(shape) /\ \A i \in 1 .. Len(shape) : x[i].role = shape[i]
  BY <1>2 DEF Said
<1> HIDE DEF x
<1>5. Len(x) = Len(shape)
  BY <1>2, <1>3, <1>4
<1> QED BY <1>2, <1>4, <1>5 DEF x

\* The second list answers no call that the first leaves open.
Apart(l, x) ==
  \A i \in DOMAIN l : \A id \in Calls(l[i]) :
    (\A j \in i + 1 .. Len(l) : ~Answers(l[j], id)) => \A j \in DOMAIN x : ~Answers(x[j], id)

\* What a later turn says answers no call of an earlier one.
LEMMA LaterApart ==
  ASSUME NEW l, NEW x, NEW n \in Nat, \A i \in DOMAIN l : l[i].of \in Nat /\ l[i].of <= n,
         \A j \in DOMAIN x : x[j].of = n + 1
  PROVE  Apart(l, x)
<1>1. ASSUME NEW i \in DOMAIN l, NEW id \in Calls(l[i]), NEW j \in DOMAIN x, Answers(x[j], id)
      PROVE  FALSE
  <2>1. x[j].of = l[i].of
    BY <1>1, CallsAndResults
  <2>2. l[i].of \in Nat /\ l[i].of <= n /\ x[j].of = n + 1
    OBVIOUS
  <2> QED BY <2>1, <2>2
<1> QED BY <1>1 DEF Apart

-----------------------------------------------------------------------------
(* Every request is legal                                                  *)

\* All of a list is of later turns than what is in another.
Fresh(l, u) == \A i \in DOMAIN l, j \in DOMAIN u : l[i].of < u[j].of

LEMMA FreshApart ==
  ASSUME NEW l \in Seq(Msg), NEW u \in Seq(Msg), Fresh(l, u)
  PROVE  Apart(l, u)
<1>1. ASSUME NEW i \in DOMAIN l, NEW id \in Calls(l[i]), NEW j \in DOMAIN u, Answers(u[j], id)
      PROVE  FALSE
  <2>1. u[j].of = l[i].of
    BY <1>1, CallsAndResults
  <2>2. l[i] \in Msg /\ u[j] \in Msg
    OBVIOUS
  <2>3. l[i].of \in Int /\ u[j].of \in Int /\ l[i].of < u[j].of
    BY <2>2, ConversationAssumption DEF Fresh, Msg
  <2> QED BY <2>1, <2>3
<1> QED BY <1>1 DEF Apart

\* Of a session whose turns so far are n: file l, whose last line ends as e, history h and
\* what of it is not saved, u.  Both lists can be mended, what is not saved begins with a
\* question, is legal by itself and does not answer what the file leaves open; behind an
\* unfinished line there are only new turns to save.
Told(l, e, h, u, n) ==
  /\ Mendable(l) /\ Mendable(h) /\ Legal(u) /\ Apart(l, u)
  /\ u # <<>> => u[1].role = "user"
  /\ e # "end" => Fresh(l, u)
  /\ \A i \in DOMAIN l : l[i].of <= n
  /\ \A i \in DOMAIN h : h[i].of <= n
  /\ \A i \in DOMAIN u : u[i].of <= n

SInv ==
  \A s \in Session \ parted : Told(log[s], tail[s], mem[s].hist, Unsaved(s), turns[s])

\* What there is of a session.
LEMMA OfStory ==
  ASSUME CInv, SInv, NEW s \in Session
  PROVE  /\ log[s] \in Seq(Msg) /\ mem[s].hist \in Seq(Msg) /\ Unsaved(s) \in Seq(Msg)
         /\ mem[s].saved \in 0 .. Len(mem[s].hist) /\ turns[s] \in 0 .. MaxTurns
         /\ turns[s] \in Nat
         /\ s \notin parted => Told(log[s], tail[s], mem[s].hist, Unsaved(s), turns[s])
<1>1. /\ log[s] \in Seq(Msg) /\ mem[s].hist \in Seq(Msg) /\ turns[s] \in 0 .. MaxTurns
      /\ mem[s].saved \in 0 .. Len(mem[s].hist)
  BY OfSession DEF Held
<1>2. Unsaved(s) \in Seq(Msg)
  BY <1>1, Histories DEF Unsaved
<1>3. turns[s] \in Nat
  BY <1>1, ConversationAssumption
<1> QED BY <1>1, <1>2, <1>3 DEF SInv

\* Nothing is legal, can be mended and answers nothing.
LEMMA Nothing ==
  /\ <<>> \in Seq(Msg) /\ Len(<<>>) = 0 /\ DOMAIN <<>> = {}
  /\ Legal(<<>>) /\ Mendable(<<>>) /\ \A l : Apart(l, <<>>) /\ Fresh(l, <<>>)
<1>1. <<>> \in Seq(Msg) /\ Len(<<>>) = 0 /\ DOMAIN <<>> = {}
  OBVIOUS
<1> QED BY <1>1 DEF Legal, Mendable, Apart, Fresh

\* What is not saved of a history that is all saved.
LEMMA AllSaved ==
  ASSUME NEW h \in Seq(Msg)
  PROVE  SubSeq(h, Len(h) + 1, Len(h)) = <<>>
<1>1. Len(h) \in Nat /\ Len(h) + 1 > Len(h)
  OBVIOUS
<1> QED BY <1>1

\* The front of a list.
LEMMA FirstOf ==
  ASSUME NEW S, NEW q \in Seq(S), NEW k \in 0 .. Len(q)
  PROVE  /\ SubSeq(q, 1, k) \in Seq(S) /\ Len(SubSeq(q, 1, k)) = k
         /\ \A i \in 1 .. k : SubSeq(q, 1, k)[i] = q[i]
OBVIOUS

\* A turn behind a history comes behind what is not saved of it.
LEMMA UnsavedGrows ==
  ASSUME NEW h \in Seq(Msg), NEW k \in 0 .. Len(h), NEW x \in Seq(Msg)
  PROVE  SubSeq(h \o x, k + 1, Len(h \o x)) = SubSeq(h, k + 1, Len(h)) \o x
<1> DEFINE c == h \o x
           u == SubSeq(h, k + 1, Len(h))
           a == SubSeq(c, k + 1, Len(c))
           b == u \o x
<1>1. /\ c \in Seq(Msg) /\ Len(c) = Len(h) + Len(x) /\ \A i \in 1 .. Len(h) : c[i] = h[i]
      /\ \A i \in 1 .. Len(x) : c[Len(h) + i] = x[i]
  BY ConcatProperties
<1>2. Len(h) \in Nat /\ Len(x) \in Nat /\ k \in Nat /\ k <= Len(h)
  OBVIOUS
<1>3. u \in Seq(Msg) /\ Len(u) = Len(h) - k /\ \A i \in 1 .. Len(h) - k : u[i] = h[i + k]
  BY <1>2
<1> HIDE DEF u, c
<1>4. a \in Seq(Msg) /\ Len(a) = Len(c) - k /\ \A i \in 1 .. Len(c) - k : a[i] = c[i + k]
  BY <1>1, <1>2
<1>5. /\ b \in Seq(Msg) /\ Len(b) = Len(u) + Len(x) /\ \A i \in 1 .. Len(u) : b[i] = u[i]
      /\ \A i \in 1 .. Len(x) : b[Len(u) + i] = x[i]
  <2>1. u \in Seq(Msg)
    BY <1>3
  <2> QED BY <2>1, ConcatProperties
<1> HIDE DEF a, b
<1>6. Len(a) = Len(b)
  BY <1>1, <1>2, <1>3, <1>4, <1>5
<1>7. ASSUME NEW i \in 1 .. Len(a) PROVE a[i] = b[i]
  <2>1. a[i] = c[i + k]
    BY <1>4
  <2>2. CASE i <= Len(u)
    <3>1. i \in 1 .. Len(u) /\ i + k \in 1 .. Len(h)
      BY <1>2, <1>3, <2>2
    <3> QED BY <1>1, <1>3, <1>5, <2>1, <3>1
  <2>3. CASE i > Len(u)
    <3>1. /\ i - Len(u) \in 1 .. Len(x) /\ Len(u) + (i - Len(u)) = i
          /\ Len(h) + (i - Len(u)) = i + k
      BY <1>1, <1>2, <1>3, <1>4, <2>3
    <3> QED BY <1>1, <1>5, <2>1, <3>1
  <2> QED BY <1>2, <1>3, <2>2, <2>3
<1>8. a = b
  BY <1>4, <1>5, <1>6, <1>7, SeqEqual
<1> QED BY <1>8 DEF a, b, c, u

\* What comes behind a list and is legal keeps it as it should be.
LEMMA Appended ==
  ASSUME NEW l \in Seq(Msg), NEW x \in Seq(Msg), NEW n \in Nat, Mendable(l), Mendable(x),
         Apart(l, x), \A i \in DOMAIN l : l[i].of <= n, \A i \in DOMAIN x : x[i].of <= n
  PROVE  /\ l \o x \in Seq(Msg) /\ Mendable(l \o x)
         /\ Legal(l) /\ Legal(x) => Legal(l \o x)
         /\ \A i \in DOMAIN (l \o x) : (l \o x)[i].of <= n
         /\ \A y \in Seq(Msg) : Legal(x) /\ Apart(l, y) => Apart(l \o x, y)
<1>1. /\ l \o x \in Seq(Msg) /\ Mendable(l \o x) /\ (Legal(l) /\ Legal(x) => Legal(l \o x))
  BY TogetherMendable DEF Apart
<1> DEFINE c == l \o x
<1>2. /\ Len(c) = Len(l) + Len(x) /\ \A i \in 1 .. Len(l) : c[i] = l[i]
      /\ \A i \in 1 .. Len(x) : c[Len(l) + i] = x[i]
  BY ConcatProperties
<1>3. /\ Len(l) \in Nat /\ Len(x) \in Nat /\ DOMAIN l = 1 .. Len(l) /\ DOMAIN x = 1 .. Len(x)
      /\ DOMAIN c = 1 .. Len(c)
  BY <1>1
<1> HIDE DEF c
<1>4. ASSUME NEW i \in DOMAIN c
      PROVE  i \in 1 .. Len(l) \/ (i - Len(l) \in 1 .. Len(x) /\ Len(l) + (i - Len(l)) = i)
  BY <1>2, <1>3
<1>5. ASSUME NEW i \in DOMAIN c PROVE c[i].of <= n
  <2>1. CASE i \in 1 .. Len(l)
    BY <1>2, <1>3, <2>1
  <2>2. CASE i - Len(l) \in 1 .. Len(x) /\ Len(l) + (i - Len(l)) = i
    BY <1>2, <1>3, <2>2
  <2> QED BY <1>4, <2>1, <2>2
<1>6. ASSUME NEW y \in Seq(Msg), Legal(x), Apart(l, y),
             NEW i \in DOMAIN c, NEW id \in Calls(c[i]),
             \A j \in i + 1 .. Len(c) : ~Answers(c[j], id), NEW j \in DOMAIN y
      PROVE  ~Answers(y[j], id)
  <2>1. CASE i \in 1 .. Len(l)
    <3>1. ASSUME NEW k \in i + 1 .. Len(l) PROVE ~Answers(l[k], id)
      <4>1. k \in i + 1 .. Len(c) /\ c[k] = l[k]
        BY <1>2, <1>3, <2>1
      <4> QED BY <1>6, <4>1
    <3>2. i \in DOMAIN l /\ id \in Calls(l[i])
      BY <1>2, <1>3, <2>1
    <3> QED BY <1>6, <3>1, <3>2 DEF Apart
  <2>2. CASE i - Len(l) \in 1 .. Len(x) /\ Len(l) + (i - Len(l)) = i
    <3>1. id \in Calls(x[i - Len(l)])
      BY <1>2, <2>2
    <3>2. PICK k \in DOMAIN x : Joined(x, i - Len(l), k) /\ Answers(x[k], id)
      BY <1>3, <1>6, <2>2, <3>1 DEF Legal, Answered
    <3>3. Len(l) + k \in i + 1 .. Len(c) /\ c[Len(l) + k] = x[k]
      BY <1>2, <1>3, <2>2, <3>2 DEF Joined
    <3> QED BY <1>6, <3>2, <3>3
  <2> QED BY <1>4, <2>1, <2>2
<1> QED BY <1>1, <1>5, <1>6 DEF Apart, c

\* A step after which everything is right for the session that moves.
LEMMA StoryMoves ==
  ASSUME CInv, SInv, NEW s \in Session, parted \subseteq parted', parted' \subseteq parted \cup {s},
         \A x \in Session \ {s} : /\ log'[x] = log[x] /\ tail'[x] = tail[x]
                                  /\ mem'[x] = mem[x] /\ turns'[x] = turns[x],
         s \notin parted' => Told(log'[s], tail'[s], mem'[s].hist, Unsaved(s)', turns'[s])
  PROVE  SInv'
<1>1. ASSUME NEW x \in Session, x \notin parted'
      PROVE  Told(log'[x], tail'[x], mem'[x].hist, Unsaved(x)', turns'[x])
  <2>1. CASE x = s
    BY <1>1, <2>1
  <2>2. CASE x # s
    <3>1. /\ log'[x] = log[x] /\ tail'[x] = tail[x] /\ mem'[x] = mem[x] /\ turns'[x] = turns[x]
          /\ Told(log[x], tail[x], mem[x].hist, Unsaved(x), turns[x])
      BY <1>1, <2>2 DEF SInv
    <3>2. Unsaved(x)' = Unsaved(x)
      BY <3>1 DEF Unsaved
    <3> QED BY <3>1, <3>2
  <2> QED BY <2>1, <2>2
<1> QED BY <1>1 DEF SInv

\* A step that says and saves nothing.
LEMMA NothingSaid ==
  ASSUME CInv, SInv, NEW s \in Session, UNCHANGED <<log, tail, turns, parted>>,
         \/ mem' = mem
         \/ \E m : Mem(s, m) /\ m.hist = mem[s].hist /\ m.saved = mem[s].saved
  PROVE  SInv'
<1>1. CASE mem' = mem
  <2>1. Unsaved(s)' = Unsaved(s)
    BY <1>1 DEF Unsaved
  <2> QED BY <1>1, <2>1, StoryMoves DEF SInv
<1>2. ASSUME NEW m, Mem(s, m), m.hist = mem[s].hist, m.saved = mem[s].saved PROVE SInv'
  <2>1. mem'[s] = m /\ \A x \in Session \ {s} : mem'[x] = mem[x]
    BY <1>2 DEF CInv, Shaped, Mem
  <2>2. Unsaved(s)' = Unsaved(s) /\ mem'[s].hist = mem[s].hist
    BY <1>2, <2>1 DEF Unsaved
  <2> QED BY <2>1, <2>2, StoryMoves DEF SInv
<1> QED BY <1>1, <1>2

\* Loading a session, or having it, before it is used.
LEMMA CachedStory ==
  ASSUME CInv, SInv, NEW s \in Session, NEW m, Mem(s, m), UNCHANGED <<log, tail, turns, parted>>,
         m.hist = Cached(s).hist, m.saved = Cached(s).saved
  PROVE  SInv'
<1>1. CASE mem[s].loaded
  BY <1>1, NothingSaid DEF Cached
<1>2. CASE ~mem[s].loaded
  <2>1. m.hist = log[s] /\ m.saved = Len(log[s])
    BY <1>2 DEF Cached, FromDisk
  <2>2. mem'[s] = m /\ \A x \in Session \ {s} : mem'[x] = mem[x]
    BY DEF CInv, Shaped, Mem
  <2>3. /\ log[s] \in Seq(Msg)
        /\ s \notin parted => Told(log[s], tail[s], mem[s].hist, Unsaved(s), turns[s])
    BY OfStory
  <2>4. Unsaved(s)' = <<>>
    <3>1. Unsaved(s)' = SubSeq(log[s], Len(log[s]) + 1, Len(log[s]))
      BY <2>1, <2>2 DEF Unsaved
    <3> QED BY <2>3, <3>1, AllSaved
  <2>5. s \notin parted => Told(log'[s], tail'[s], mem'[s].hist, Unsaved(s)', turns'[s])
    BY <2>1, <2>2, <2>3, <2>4, Nothing DEF Told
  <2> QED BY <2>2, <2>5, StoryMoves
<1> QED BY <1>1, <1>2

\* The steps that say and save nothing.
LEMMA QuietSteps ==
  ASSUME CInv, SInv, NEW s \in Session,
         \/ CompactOverflow(s) \/ CompactTokens(s) \/ CompactionEnds(s) \/ TurnRecorded(s)
         \/ TurnFails(s) \/ TurnCancelled(s) \/ RecordFails(s) \/ TitleSave(s)
         \/ CloseStart(s) \/ CloseSummarises(s) \/ CloseEnds(s)
  PROVE  SInv'
<1>1. \A f : With(mem[s], f).hist = mem[s].hist /\ With(mem[s], f).saved = mem[s].saved
  BY DEF With
<1>2. UNCHANGED <<log, tail, turns, parted>>
  BY DEF CompactOverflow, CompactTokens, CompactionEnds, TurnRecorded, TurnFails,
         TurnCancelled, RecordFails, TitleSave, CloseStart, CloseSummarises, CloseEnds
<1>3. mem' = mem \/ \E f : Mem(s, With(mem[s], f))
  <2>1. CASE CompactOverflow(s) \/ CompactTokens(s) \/ TurnCancelled(s)
    BY <2>1 DEF CompactOverflow, CompactTokens, TurnCancelled, Compacted
  <2>2. CASE \/ CompactionEnds(s) \/ TurnFails(s) \/ RecordFails(s) \/ CloseStart(s)
    BY <2>2 DEF CompactionEnds, TurnFails, RecordFails, CloseStart
  <2>3. CASE TurnRecorded(s) \/ TitleSave(s) \/ CloseSummarises(s) \/ CloseEnds(s)
    BY <2>3 DEF TurnRecorded, TitleSave, CloseSummarises, CloseEnds
  <2> QED BY <2>1, <2>2, <2>3
<1> QED BY <1>1, <1>2, <1>3, NothingSaid

\* A turn begins, or a command is answered: the session is in memory.
LEMMA LoadingSteps ==
  ASSUME CInv, SInv, NEW s \in Session, TurnStart(s) \/ TurnCommand(s)
  PROVE  SInv'
<1> DEFINE m == Reopened(Cached(s))
<1>1. Mem(s, m) /\ UNCHANGED <<log, tail, turns, parted>>
  BY DEF TurnStart, TurnCommand
<1>2. m.hist = Cached(s).hist /\ m.saved = Cached(s).saved
  BY DEF Reopened, With
<1> QED BY <1>1, <1>2, CachedStory

\* The turn has its answer.
LEMMA AnswerTold ==
  ASSUME CInv, SInv, NEW s \in Session, TurnAnswers(s)
  PROVE  SInv'
<1> DEFINE n == turns[s]
           h == mem[s].hist
           u == Unsaved(s)
<1>1. /\ log[s] \in Seq(Msg) /\ h \in Seq(Msg) /\ u \in Seq(Msg)
      /\ mem[s].saved \in 0 .. Len(h) /\ n \in Nat
      /\ s \notin parted => Told(log[s], tail[s], h, u, n)
  BY OfStory
<1>2. n < MaxTurns /\ turns' = [turns EXCEPT ![s] = turns[s] + 1]
      /\ UNCHANGED <<log, tail, parted>>
  BY DEF TurnAnswers
<1>3. PICK shape \in Shapes :
        Mem(s, [mem[s] EXCEPT !.hist = mem[s].hist \o Said(turns[s] + 1, shape)])
  BY DEF TurnAnswers
<1> DEFINE x == Said(n + 1, shape)
<1>4. n + 1 \in 1 .. MaxTurns + 1 /\ n + 1 \in Nat
  BY <1>1, <1>2, ConversationAssumption
<1>5. x \in Seq(Msg) /\ Legal(x) /\ \A i \in DOMAIN x : x[i].of = n + 1
  <2>1. shape \in Sayings
    BY ShapesAssumption DEF Sayings
  <2> QED BY <1>4, <2>1, SayingLegal
<1>19. Len(x) \in Nat \ {0} /\ x[1].role = "user"
  <2>1. shape \in Sayings
    BY ShapesAssumption DEF Sayings
  <2> QED BY <1>4, <2>1, SayingAsks
<1>6. mem'[s].hist = h \o x /\ mem'[s].saved = mem[s].saved
  <2>1. mem \in [Session -> Memory] /\ mem[s] \in Memory
    BY DEF CInv, Shaped
  <2>2. mem'[s] = [mem[s] EXCEPT !.hist = mem[s].hist \o Said(turns[s] + 1, shape)]
    BY <1>3, <2>1 DEF Mem
  <2> QED BY <2>1, <2>2 DEF Memory
<1>7. /\ turns'[s] = n + 1
      /\ \A y \in Session \ {s} : /\ log'[y] = log[y] /\ tail'[y] = tail[y]
                                  /\ mem'[y] = mem[y] /\ turns'[y] = turns[y]
  BY <1>2, <1>3 DEF CInv, Shaped, Mem
<1> SUFFICES ASSUME s \notin parted
             PROVE  Told(log'[s], tail'[s], mem'[s].hist, Unsaved(s)', turns'[s])
  BY <1>2, <1>7, StoryMoves
<1> HIDE DEF x, n
<1>8. Unsaved(s)' = u \o x
  <2>1. Unsaved(s)' = SubSeq(h \o x, mem[s].saved + 1, Len(h \o x))
    BY <1>6 DEF Unsaved
  <2> QED BY <1>1, <1>5, <2>1, UnsavedGrows DEF Unsaved
<1>9. \A m \in Msg : m.of \in Nat
  BY DEF Msg
<1> HIDE DEF h, u
<1>10. /\ \A i \in DOMAIN log[s] : log[s][i].of \in Nat /\ log[s][i].of <= n
       /\ \A i \in DOMAIN h : h[i].of \in Nat /\ h[i].of <= n
       /\ \A i \in DOMAIN u : u[i].of \in Nat /\ u[i].of <= n
  <2>1. /\ \A i \in DOMAIN log[s] : log[s][i] \in Msg
        /\ \A i \in DOMAIN h : h[i] \in Msg
        /\ \A i \in DOMAIN u : u[i] \in Msg
    BY <1>1
  <2> QED BY <1>1, <1>9, <2>1 DEF Told
<1>11. Apart(log[s], x) /\ Apart(h, x) /\ Apart(u, x)
  <2>1. n \in Nat /\ \A j \in DOMAIN x : x[j].of = n + 1
    BY <1>1, <1>5
  <2>2. \A i \in DOMAIN log[s] : log[s][i].of \in Nat /\ log[s][i].of <= n
    BY <1>10
  <2>3. \A i \in DOMAIN h : h[i].of \in Nat /\ h[i].of <= n
    BY <1>10
  <2>4. \A i \in DOMAIN u : u[i].of \in Nat /\ u[i].of <= n
    BY <1>10
  <2>5. Apart(log[s], x)
    BY <2>1, <2>2, LaterApart
  <2>6. Apart(h, x)
    BY <2>1, <2>3, LaterApart
  <2>7. Apart(u, x)
    BY <2>1, <2>4, LaterApart
  <2> QED BY <2>5, <2>6, <2>7
<1>12. /\ \A i \in DOMAIN log[s] : log[s][i].of <= n + 1
       /\ \A i \in DOMAIN h : h[i].of <= n + 1
       /\ \A i \in DOMAIN u : u[i].of <= n + 1
       /\ \A i \in DOMAIN x : x[i].of <= n + 1
  BY <1>1, <1>4, <1>5, <1>10
<1>13. Mendable(x) /\ Mendable(u) /\ Mendable(h) /\ Legal(u)
  BY <1>1, <1>5, LegalMendable DEF Told
<1>14. Mendable(h \o x) /\ \A i \in DOMAIN (h \o x) : (h \o x)[i].of <= n + 1
  BY <1>1, <1>4, <1>5, <1>11, <1>12, <1>13, Appended
<1>15. Legal(u \o x) /\ \A i \in DOMAIN (u \o x) : (u \o x)[i].of <= n + 1
  BY <1>1, <1>4, <1>5, <1>11, <1>12, <1>13, Appended
<1>16. Apart(log[s], u \o x)
  <2>1. Apart(log[s], u)
    BY <1>1 DEF Told
  <2>2. /\ Len(u \o x) = Len(u) + Len(x) /\ \A i \in 1 .. Len(u) : (u \o x)[i] = u[i]
        /\ \A i \in 1 .. Len(x) : (u \o x)[Len(u) + i] = x[i]
        /\ u \o x \in Seq(Msg)
    BY <1>1, <1>5, ConcatProperties
  <2> DEFINE c == u \o x
  <2>3. ASSUME NEW i \in DOMAIN c
        PROVE  (\E j \in DOMAIN u : c[i] = u[j]) \/ (\E j \in DOMAIN x : c[i] = x[j])
    <3>1. /\ DOMAIN c = 1 .. Len(u) + Len(x) /\ Len(u) \in Nat /\ Len(x) \in Nat
          /\ DOMAIN u = 1 .. Len(u) /\ DOMAIN x = 1 .. Len(x)
      BY <1>1, <1>5, <2>2
    <3> HIDE DEF c
    <3>2. i \in 1 .. Len(u) \/ (i - Len(u) \in 1 .. Len(x) /\ Len(u) + (i - Len(u)) = i)
      BY <3>1
    <3> QED BY <2>2, <3>1, <3>2 DEF c
  <2> HIDE DEF c
  <2>4. Apart(log[s], c)
    BY <1>11, <2>1, <2>3 DEF Apart
  <2> QED BY <2>4 DEF c
<1>18. (tail[s] # "end" => Fresh(log[s], u \o x)) /\ (u \o x)[1].role = "user"
  <2>1. (tail[s] # "end" => Fresh(log[s], u)) /\ (u # <<>> => u[1].role = "user")
    BY <1>1 DEF Told
  <2>2. /\ Len(u \o x) = Len(u) + Len(x) /\ \A i \in 1 .. Len(u) : (u \o x)[i] = u[i]
        /\ \A i \in 1 .. Len(x) : (u \o x)[Len(u) + i] = x[i]
        /\ u \o x \in Seq(Msg)
    BY <1>1, <1>5, ConcatProperties
  <2> DEFINE c == u \o x
  <2>3. ASSUME NEW i \in DOMAIN c
        PROVE  (\E j \in DOMAIN u : c[i] = u[j]) \/ (\E j \in DOMAIN x : c[i] = x[j])
    <3>1. /\ DOMAIN c = 1 .. Len(u) + Len(x) /\ Len(u) \in Nat /\ Len(x) \in Nat
          /\ DOMAIN u = 1 .. Len(u) /\ DOMAIN x = 1 .. Len(x)
      BY <1>1, <1>5, <2>2
    <3> HIDE DEF c
    <3>2. i \in 1 .. Len(u) \/ (i - Len(u) \in 1 .. Len(x) /\ Len(u) + (i - Len(u)) = i)
      BY <3>1
    <3> QED BY <2>2, <3>1, <3>2 DEF c
  <2>4. Fresh(log[s], x)
    <3>1. \A i \in DOMAIN log[s], j \in DOMAIN x : log[s][i].of <= n /\ x[j].of = n + 1
      BY <1>5, <1>10
    <3> QED BY <1>1, <1>10, <3>1 DEF Fresh
  <2>5. c[1].role = "user"
    <3>1. CASE u = <<>>
      <4>1. Len(u) + 1 = 1 /\ 1 \in 1 .. Len(x)
        BY <1>19, <3>1
      <4>2. c[Len(u) + 1] = x[1]
        BY <2>2, <4>1
      <4> QED BY <1>19, <4>1, <4>2
    <3>2. CASE u # <<>>
      <4>1. 1 \in 1 .. Len(u)
        BY <1>1, <3>2
      <4> QED BY <2>1, <2>2, <3>2, <4>1
    <3> QED BY <3>1, <3>2
  <2> HIDE DEF c
  <2>6. tail[s] # "end" => Fresh(log[s], c)
    BY <2>1, <2>3, <2>4 DEF Fresh
  <2> QED BY <2>5, <2>6 DEF c
<1> QED
  <2>1. Mendable(log[s])
    BY <1>1 DEF Told
  <2> QED BY <1>2, <1>6, <1>7, <1>8, <1>12, <1>14, <1>15, <1>16, <1>18, <2>1 DEF Told, h

\* What a checkpoint has begun of the messages not saved: a file that can be mended, and
\* that tells the same story if it is all of them or none.
LEMMA BegunTold ==
  ASSUME CInv, SInv, NEW s \in Session \ parted, NEW k \in 0 .. Len(Unsaved(s)), NEW e \in Ends
  PROVE  /\ Mendable(Begun(s, k, e).log)
         /\ \A i \in DOMAIN Begun(s, k, e).log : Begun(s, k, e).log[i].of <= turns[s]
         /\ Whole(s, k, e) =>
              Told(Begun(s, k, e).log, Begun(s, k, e).tail, mem[s].hist, Unsaved(s), turns[s])
<1> DEFINE n == turns[s]
           l == log[s]
           u == Unsaved(s)
           from == IF tail[s] = "end" THEN 1 ELSE 2
           to == IF e = "half" THEN k - 1 ELSE k
           p == IF k > 0 /\ tail[s] = "open" THEN Front(l) ELSE l
           x == SubSeq(u, from, to)
<1>1. /\ l \in Seq(Msg) /\ u \in Seq(Msg) /\ n \in Nat /\ Told(l, tail[s], mem[s].hist, u, n)
      /\ (tail[s] = "open" => l # <<>>) /\ tail[s] \in Ends
  BY OfStory, OfSession
<1>2. /\ Mendable(l) /\ Mendable(mem[s].hist) /\ Legal(u) /\ Apart(l, u)
      /\ (u # <<>> => u[1].role = "user") /\ (tail[s] # "end" => Fresh(l, u))
      /\ \A i \in DOMAIN l : l[i].of <= n
      /\ \A i \in DOMAIN mem[s].hist : mem[s].hist[i].of <= n
      /\ \A i \in DOMAIN u : u[i].of <= n
  BY <1>1 DEF Told
<1>3. Begun(s, k, e).log = p \o x
  BY DEF Begun
<1>4. Begun(s, k, e).tail = IF k = 0 THEN tail[s]
                            ELSE IF e = "open" /\ k = 1 /\ tail[s] # "end" THEN "half" ELSE e
  BY DEF Begun
<1>5. k \in 0 .. Len(u) /\ Len(u) \in Nat /\ e \in Ends /\ (Whole(s, k, e) <=> k = 0 \/ (k = Len(u) /\ e = "end"))
  BY <1>1 DEF Whole
<1> HIDE DEF l, u, n
<1>6. /\ p \in Seq(Msg) /\ Mendable(p) /\ \A i \in DOMAIN p : i \in DOMAIN l /\ p[i] = l[i]
      /\ (k = 0 \/ tail[s] = "end") => p = l
  <2>1. CASE ~(k > 0 /\ tail[s] = "open")
    BY <1>1, <1>2, <2>1
  <2>2. CASE k > 0 /\ tail[s] = "open"
    <3> DEFINE q == SubSeq(l, 1, Len(l) - 1)
    <3>1. Len(l) \in Nat \ {0} /\ p = q
      BY <1>1, <2>2 DEF Front
    <3>2. /\ q \in Seq(Msg) /\ Len(q) = Len(l) - 1 /\ \A i \in 1 .. Len(l) - 1 : q[i] = l[i]
      <4>1. Len(l) - 1 \in 0 .. Len(l)
        BY <3>1
      <4> QED BY <1>1, <4>1, FirstOf
    <3> HIDE DEF q
    <3>3. /\ DOMAIN q = 1 .. Len(l) - 1 /\ DOMAIN l = 1 .. Len(l) /\ 1 .. Len(l) - 1 \subseteq 1 .. Len(l)
      BY <1>1, <3>1, <3>2
    <3>4. Slice(q, l, 0)
      BY <3>1, <3>2 DEF Slice
    <3>5. \A j \in 1 .. Len(q) : IsTool(q[j]) => \E i \in 1 .. j : ~IsTool(q[i])
      <4> SUFFICES ASSUME NEW j \in 1 .. Len(q) PROVE ~IsTool(q[1]) /\ 1 \in 1 .. j
        OBVIOUS
      <4>1. 1 \in 1 .. Len(l) - 1 /\ 1 \in DOMAIN l /\ q[1] = l[1] /\ 1 \in 1 .. j
        BY <3>1, <3>2, <3>3
      <4>2. ~HasCall(l, 1)
        BY <3>3 DEF HasCall, Joined
      <4> QED BY <1>2, <4>1, <4>2 DEF Mendable
    <3>6. Mendable(q)
      <4>1. 0 \in Nat
        OBVIOUS
      <4> QED BY <1>1, <1>2, <3>2, <3>4, <3>5, <4>1, SliceMendable
    <3> QED BY <2>2, <3>1, <3>2, <3>3, <3>6
  <2> QED BY <2>1, <2>2
<1>7. x = <<>> \/ (k > 0 /\ to \in 1 .. Len(u) /\ from <= to)
  <2>1. to \in Int /\ from \in Int /\ to <= Len(u) /\ (to >= 1 => k > 0) /\ from >= 1
    BY <1>5
  <2>2. CASE from <= to
    BY <1>5, <2>1, <2>2
  <2>3. CASE ~(from <= to)
    <3>1. to < from
      BY <2>1, <2>3
    <3> HIDE DEF from, to
    <3>2. x = <<>>
      BY <2>1, <3>1, SubSeqEmpty
    <3> QED BY <3>2, Nothing
  <2> QED BY <2>2, <2>3
<1>8. /\ x \in Seq(Msg) /\ Mendable(x) /\ \A i \in DOMAIN x : \E j \in DOMAIN u : x[i] = u[j]
      /\ Whole(s, k, e) => Legal(x)
  <2>1. CASE x = <<>>
    <3> HIDE DEF x
    <3> QED BY <2>1, Nothing
  <2>2. CASE k > 0 /\ to \in 1 .. Len(u) /\ from <= to
    <3>1. from \in {1, 2} /\ from \in Nat \ {0} /\ to \in 0 .. Len(u) /\ from - 1 \in Nat
      BY <1>5, <2>2
    <3>2. to = Len(u) \/ ~Whole(s, k, e)
      <4>1. ASSUME Whole(s, k, e) PROVE to = k /\ k = Len(u)
        BY <1>5, <2>2, <4>1
      <4> QED BY <4>1
    <3> HIDE DEF from, to
    <3>3. /\ x \in Seq(Msg) /\ Len(x) = to - from + 1
          /\ \A i \in 1 .. to - from + 1 : x[i] = u[from + i - 1]
      BY <1>1, <2>2, <3>1, PartOf
    <3> HIDE DEF x
    <3>4. /\ DOMAIN x = 1 .. to - from + 1 /\ DOMAIN u = 1 .. Len(u) /\ Len(x) \in Nat \ {0}
          /\ \A i \in DOMAIN x : from + i - 1 \in DOMAIN u
      BY <1>1, <1>5, <2>2, <3>1, <3>3
    <3>5. Slice(x, u, from - 1)
      <4>1. Len(x) + (from - 1) <= Len(u)
        BY <1>5, <2>2, <3>1, <3>3
      <4>2. \A i \in 1 .. Len(x) : x[i] = u[i + (from - 1)]
        <5>1. \A i \in 1 .. to - from + 1 : from + i - 1 = i + (from - 1)
          BY <2>2, <3>1
        <5> QED BY <3>3, <5>1
      <4> QED BY <4>1, <4>2 DEF Slice
    <3>6. u # <<>> /\ u[1].role = "user"
      <4>1. Len(u) # 0
        BY <1>5, <2>2
      <4>2. u # <<>>
        BY <4>1, Nothing
      <4> QED BY <1>2, <4>2
    <3>7. ~IsTool(u[1]) /\ Calls(u[1]) = {}
      BY <3>6 DEF IsTool, Calls
    <3>8. ~IsTool(x[1])
      <4>1. 1 \in 1 .. to - from + 1 /\ x[1] = u[from] /\ from \in DOMAIN u
        <5>1. 1 \in 1 .. to - from + 1 /\ from + 1 - 1 = from /\ from \in 1 .. Len(u)
          BY <1>5, <2>2, <3>1
        <5> QED BY <3>3, <3>4, <5>1
      <4>2. CASE from = 1
        BY <3>7, <4>1, <4>2
      <4>3. CASE from = 2
        <5>1. ASSUME HasCall(u, 2) PROVE FALSE
          <6>1. PICK i \in DOMAIN u : Joined(u, i, 2) /\ Calls(u[i]) # {}
            BY <5>1 DEF HasCall
          <6>2. i = 1
            BY <3>4, <6>1 DEF Joined
          <6> QED BY <3>7, <6>1, <6>2
        <5>2. IsTool(u[2]) => HasCall(u, 2)
          BY <1>2, <4>1, <4>3 DEF Legal
        <5> QED BY <4>1, <4>3, <5>1, <5>2
      <4> QED BY <3>1, <4>2, <4>3
    <3>9. \A j \in 1 .. Len(x) : IsTool(x[j]) => \E i \in 1 .. j : ~IsTool(x[i])
      <4> SUFFICES ASSUME NEW j \in 1 .. Len(x) PROVE 1 \in 1 .. j
        BY <3>8
      <4> QED BY <3>4
    <3>10. Mendable(x)
      <4>1. Mendable(u)
        BY <1>2, LegalMendable
      <4> QED BY <1>1, <3>1, <3>3, <3>5, <3>9, <4>1, SliceMendable
    <3>11. Whole(s, k, e) => Legal(x)
      <4> SUFFICES ASSUME Whole(s, k, e) PROVE Legal(x)
        OBVIOUS
      <4>1. Len(x) + (from - 1) = Len(u)
        BY <1>5, <3>1, <3>2, <3>3
      <4> QED BY <1>1, <1>2, <3>1, <3>3, <3>5, <3>9, <4>1, EndLegal
    <3> QED BY <3>3, <3>4, <3>10, <3>11
  <2> QED BY <1>7, <2>1, <2>2
<1>9. k = 0 => x = <<>>
  BY <1>7
<1> HIDE DEF p, x, from, to
<1>10. Apart(p, u)
  <2>1. CASE tail[s] = "end"
    BY <1>2, <1>6, <2>1
  <2>2. CASE tail[s] # "end"
    <3>1. Fresh(p, u)
      BY <1>2, <1>6, <2>2 DEF Fresh
    <3> QED BY <1>1, <1>6, <3>1, FreshApart
  <2> QED BY <2>1, <2>2
<1>11. Apart(p, x)
  BY <1>8, <1>10 DEF Apart
<1>12. /\ \A i \in DOMAIN p : p[i].of <= n
       /\ \A i \in DOMAIN x : x[i].of <= n
  BY <1>2, <1>6, <1>8
<1>13. /\ Mendable(p \o x) /\ \A i \in DOMAIN (p \o x) : (p \o x)[i].of <= n
       /\ Legal(x) => Apart(p \o x, u)
  BY <1>1, <1>6, <1>8, <1>10, <1>11, <1>12, Appended
<1>14. ASSUME Whole(s, k, e)
       PROVE  Told(p \o x, Begun(s, k, e).tail, mem[s].hist, u, n)
  <2>1. Begun(s, k, e).tail # "end" => Fresh(p \o x, u)
    <3>1. CASE k = 0
      <4>1. p \o x = l
        BY <1>1, <1>6, <1>9, <3>1, ConcatEmptySeq
      <4> QED BY <1>2, <1>4, <3>1, <4>1
    <3>2. CASE k # 0
      BY <1>4, <1>5, <1>14, <3>2
    <3> QED BY <3>1, <3>2
  <2> QED BY <1>2, <1>8, <1>13, <1>14, <2>1 DEF Told
<1> QED BY <1>3, <1>13, <1>14 DEF u, n

\* The thread appends what is not saved.
LEMMA WriteTold ==
  ASSUME CInv, SInv, NEW s \in Session, NEW b \in Saver, SaveWrite(s, b)
  PROVE  SInv'
<1>1. Lengthen(s, Len(Unsaved(s)), "end") /\ UNCHANGED <<mem, turns, parted>>
  BY DEF SaveWrite
<1>2. /\ log'[s] = Begun(s, Len(Unsaved(s)), "end").log
      /\ tail'[s] = Begun(s, Len(Unsaved(s)), "end").tail
      /\ \A x \in Session \ {s} : log'[x] = log[x] /\ tail'[x] = tail[x]
  BY <1>1 DEF CInv, Shaped, Lengthen
<1>3. Unsaved(s)' = Unsaved(s)
  BY <1>1 DEF Unsaved
<1>4. ASSUME s \notin parted PROVE Told(log'[s], tail'[s], mem'[s].hist, Unsaved(s)', turns'[s])
  <2>1. Unsaved(s) \in Seq(Msg)
    BY OfStory
  <2>2. Len(Unsaved(s)) \in 0 .. Len(Unsaved(s)) /\ "end" \in Ends
    BY <2>1 DEF Ends
  <2>3. Whole(s, Len(Unsaved(s)), "end")
    BY DEF Whole
  <2> QED BY <1>1, <1>2, <1>3, <1>4, <2>2, <2>3, BegunTold
<1> QED BY <1>1, <1>2, <1>4, StoryMoves

\* A checkpoint fails: unless everything or nothing is in the file, a part is left there.
LEMMA FailureTold ==
  ASSUME CInv, SInv, NEW s \in Session, NEW b \in Saver, SaveFails(s, b)
  PROVE  SInv'
<1>1. UNCHANGED <<mem, turns>>
  BY DEF SaveFails
<1>2. PICK n \in 0 .. Len(Unsaved(s)), e \in Ends :
        /\ Lengthen(s, n, e)
        /\ parted' = IF Whole(s, n, e) THEN parted ELSE parted \cup {s}
  BY DEF SaveFails
<1>3. /\ log'[s] = Begun(s, n, e).log /\ tail'[s] = Begun(s, n, e).tail
      /\ \A x \in Session \ {s} : log'[x] = log[x] /\ tail'[x] = tail[x]
  BY <1>2 DEF CInv, Shaped, Lengthen
<1>4. Unsaved(s)' = Unsaved(s)
  BY <1>1 DEF Unsaved
<1>5. ASSUME s \notin parted' PROVE Told(log'[s], tail'[s], mem'[s].hist, Unsaved(s)', turns'[s])
  <2>1. Whole(s, n, e) /\ s \in Session \ parted
    BY <1>2, <1>5
  <2> QED BY <1>1, <1>3, <1>4, <2>1, BegunTold
<1> QED BY <1>1, <1>2, <1>3, <1>5, StoryMoves

\* With nothing left that is not saved, only file and history count.
LEMMA NoneUnsaved ==
  ASSUME CInv, SInv, NEW s \in Session, Unsaved(s)' = <<>>, UNCHANGED <<log, tail, turns, parted>>,
         mem'[s].hist \in {mem[s].hist, <<>>}, \A x \in Session \ {s} : mem'[x] = mem[x]
  PROVE  SInv'
<1>1. s \notin parted => Told(log[s], tail[s], mem[s].hist, Unsaved(s), turns[s])
  BY OfStory
<1>2. s \notin parted => Told(log'[s], tail'[s], mem'[s].hist, Unsaved(s)', turns'[s])
  BY <1>1, Nothing DEF Told
<1> QED BY <1>2, StoryMoves

\* The checkpoint is down: everything in memory counts as saved.
LEMMA ReplaceTold ==
  ASSUME CInv, SInv, NEW s \in Session, NEW b \in Saver, SaveReplace(s, b)
  PROVE  SInv'
<1>1. /\ Mem(s, [mem[s] EXCEPT !.saved = Len(mem[s].hist)])
      /\ UNCHANGED <<log, tail, turns, parted>>
  BY DEF SaveReplace
<1>2. mem \in [Session -> Memory] /\ mem[s] \in Memory /\ mem[s].hist \in Seq(Msg)
  BY OfSession DEF CInv, Shaped
<1>3. mem'[s].hist = mem[s].hist /\ mem'[s].saved = Len(mem[s].hist)
  <2>1. mem'[s] = [mem[s] EXCEPT !.saved = Len(mem[s].hist)]
    BY <1>1, <1>2 DEF Mem
  <2> QED BY <1>2, <2>1 DEF Memory
<1>4. \A x \in Session \ {s} : mem'[x] = mem[x]
  BY <1>1, <1>2 DEF Mem
<1>5. Unsaved(s)' = <<>>
  <2>1. Unsaved(s)' = SubSeq(mem[s].hist, Len(mem[s].hist) + 1, Len(mem[s].hist))
    BY <1>3 DEF Unsaved
  <2> QED BY <1>2, <2>1, AllSaved
<1> QED BY <1>1, <1>3, <1>4, <1>5, NoneUnsaved

\* A session not in memory has no history there.
LEMMA NotLoadedUnsaved ==
  /\ NotLoaded.hist = <<>>
  /\ SubSeq(NotLoaded.hist, NotLoaded.saved + 1, Len(NotLoaded.hist)) = <<>>
<1>1. NotLoaded.hist = <<>> /\ NotLoaded.saved = 0
  BY DEF NotLoaded
<1>2. SubSeq(<<>>, Len(<<>>) + 1, Len(<<>>)) = <<>>
  BY Nothing, AllSaved
<1> QED BY <1>1, <1>2, Nothing

\* The session leaves the cache.
LEMMA EvictTold ==
  ASSUME CInv, SInv, NEW s \in Session, Evict(s)
  PROVE  SInv'
<1>1. Mem(s, NotLoaded) /\ UNCHANGED <<log, tail, turns, parted>>
  BY DEF Evict
<1>2. mem'[s] = NotLoaded /\ \A x \in Session \ {s} : mem'[x] = mem[x]
  BY <1>1 DEF CInv, Shaped, Mem
<1>3. Unsaved(s)' = <<>>
  BY <1>2, NotLoadedUnsaved DEF Unsaved
<1> QED BY <1>1, <1>2, <1>3, NotLoadedUnsaved, NoneUnsaved

\* The process dies; of what was not saved a beginning may be in the file.
LEMMA DieTold == ASSUME CInv, SInv, Die PROVE SInv'
<1>1. mem' = [s \in Session |-> NotLoaded] /\ UNCHANGED <<turns, parted>>
  BY DEF Die
<1>2. PICK k \in [Session -> 0 .. Len(Tooled) * MaxTurns], e \in [Session -> Ends] :
        /\ \A s \in Session : Breaks(s, k[s], e[s])
        /\ log' = [s \in Session |-> Begun(s, k[s], e[s]).log]
        /\ tail' = [s \in Session |-> Begun(s, k[s], e[s]).tail]
  BY DEF Die
<1>3. ASSUME NEW s \in Session \ parted
      PROVE  Told(log'[s], tail'[s], mem'[s].hist, Unsaved(s)', turns'[s])
  <2>1. Unsaved(s) \in Seq(Msg) /\ Len(Tooled) * MaxTurns \in Nat
    BY OfStory, ConversationAssumption DEF Tooled
  <2>2. k[s] \in 0 .. Len(Tooled) * MaxTurns /\ k[s] <= Len(Unsaved(s)) /\ e[s] \in Ends
    BY <1>2 DEF Breaks
  <2>3. k[s] \in 0 .. Len(Unsaved(s))
    BY <2>1, <2>2
  <2>4. log'[s] = Begun(s, k[s], e[s]).log /\ turns'[s] = turns[s] /\ mem'[s] = NotLoaded
    BY <1>1, <1>2
  <2>5. Mendable(log'[s]) /\ \A i \in DOMAIN log'[s] : log'[s][i].of <= turns[s]
    BY <2>2, <2>3, <2>4, BegunTold
  <2>6. Unsaved(s)' = <<>> /\ mem'[s].hist = <<>>
    BY <2>4, NotLoadedUnsaved DEF Unsaved
  <2> QED BY <2>4, <2>5, <2>6, Nothing DEF Told
<1> QED BY <1>1, <1>3 DEF SInv

\* Every step keeps it.
LEMMA NextKeepsSInv == CInv /\ SInv /\ [Next]_vars => SInv'
<1> SUFFICES ASSUME CInv, SInv, [Next]_vars PROVE SInv'
  OBVIOUS
<1>1. CASE UNCHANGED vars
  <2>1. UNCHANGED <<log, tail, mem, turns, parted>>
    BY <1>1 DEF vars
  <2>2. \A s \in Session : Unsaved(s)' = Unsaved(s)
    BY <2>1 DEF Unsaved
  <2> QED BY <2>1, <2>2 DEF SInv
<1>2. CASE Die
  BY <1>2, DieTold
<1>3. ASSUME NEW s \in Session,
             TurnStart(s) \/ TurnCommand(s) \/ TurnAnswers(s) \/ Evict(s)
      PROVE  SInv'
  BY <1>3, LoadingSteps, AnswerTold, EvictTold
<1>4. ASSUME NEW s \in Session,
             \/ CompactOverflow(s) \/ CompactTokens(s) \/ CompactionEnds(s) \/ TurnRecorded(s)
             \/ TurnFails(s) \/ TurnCancelled(s) \/ RecordFails(s) \/ TitleSave(s)
             \/ CloseStart(s) \/ CloseSummarises(s) \/ CloseEnds(s)
      PROVE  SInv'
  BY <1>4, QuietSteps
<1>5. ASSUME NEW s \in Session, NEW b \in Saver, SaveFails(s, b) PROVE SInv'
  BY <1>5, FailureTold
<1>6. ASSUME NEW s \in Session, NEW b \in Saver, SaveWrite(s, b) \/ SaveReplace(s, b)
      PROVE  SInv'
  BY <1>6, WriteTold, ReplaceTold
<1> QED BY <1>1, <1>2, <1>3, <1>4, <1>5, <1>6 DEF Next

\* At the start nothing has been said, on disk or in memory.
LEMMA InitEstablishesSInv == Init => SInv
<1> SUFFICES ASSUME Init, NEW s \in Session
             PROVE  Told(log[s], tail[s], mem[s].hist, Unsaved(s), turns[s])
  BY DEF SInv
<1>1. log[s] = <<>> /\ mem[s] = NotLoaded
  BY DEF Init
<1>2. mem[s].hist = <<>> /\ Unsaved(s) = <<>>
  BY <1>1, NotLoadedUnsaved DEF Unsaved
<1> QED BY <1>1, <1>2, Nothing DEF Told

\* In every reachable state log, memory and the open checkpoint tell one story.
LEMMA SInvHolds == Spec => []SInv
BY InitEstablishesSInv, NextKeepsSInv, CInvHolds, PTL DEF Spec

\* What is assembled for a request can be mended.
LEMMA AssembledMendable ==
  ASSUME CInv, SInv, NEW s \in Session \ parted, NEW h \in Assembled(s)
  PROVE  h \in Seq(Msg) /\ Mendable(h)
<1> DEFINE m == mem[s]
           n == turns[s]
           open == From(m.hist, m.f.lc + 1)
           near == IF Len(open) < Replay THEN open ELSE From(open, Len(open) - Replay + 1)
           w == Window(m)
<1>1. /\ m.hist \in Seq(Msg) /\ n \in 0 .. MaxTurns /\ n \in Nat /\ m.f.lc \in Nat
      /\ Mendable(m.hist) /\ \A i \in DOMAIN m.hist : m.hist[i].of <= n
  BY OfStory, OfSession DEF Told
<1>2. w = From(near, FirstLegal(near))
  BY DEF Window
<1>3. \E i \in 1 .. Len(m.hist) + 1 : near = From(m.hist, i)
  <2>1. Replay \in Nat /\ Replay > 0 /\ Len(m.hist) \in Nat
    BY <1>1, ConversationAssumption
  <2>2. CASE m.f.lc + 1 \in 1 .. Len(m.hist) + 1
    <3>1. open \in Seq(Msg) /\ Len(open) = Len(m.hist) - m.f.lc
      <4> DEFINE i == m.f.lc + 1
      <4>1. i \in 1 .. Len(m.hist) + 1
        BY <2>2
      <4> HIDE DEF i
      <4>2. From(m.hist, i) \in Seq(Msg) /\ Len(From(m.hist, i)) = Len(m.hist) - i + 1
        BY <1>1, <4>1, EndOf
      <4>3. Len(m.hist) - i + 1 = Len(m.hist) - m.f.lc
        BY <1>1, <2>1 DEF i
      <4> QED BY <4>2, <4>3 DEF i
    <3>2. CASE Len(open) < Replay
      BY <2>2, <3>2
    <3>3. CASE ~(Len(open) < Replay)
      <4> DEFINE a == Len(open) - Replay + 1
                 c == m.f.lc + a
      <4>1. a \in 1 .. Len(open) + 1 /\ c \in 1 .. Len(m.hist) + 1
        <5> DEFINE lo == Len(open)
                   lh == Len(m.hist)
                   lc == m.f.lc
        <5>1. lo \in Nat /\ lh \in Nat /\ lc \in Nat /\ lo = lh - lc /\ ~(lo < Replay)
          BY <1>1, <2>1, <3>1, <3>3
        <5> HIDE DEF lo, lh, lc
        <5>2. /\ lo - Replay + 1 \in 1 .. lo + 1
              /\ lc + (lo - Replay + 1) \in 1 .. lh + 1
          BY <2>1, <5>1
        <5> QED BY <5>2 DEF lo, lh, lc
      <4>2. From(open, a) = From(m.hist, c)
        <5>1. /\ Slice(open, m.hist, (m.f.lc + 1) - 1) /\ From(open, a) \in Seq(Msg)
              /\ Len(From(open, a)) = Len(open) - a + 1 /\ Slice(From(open, a), open, a - 1)
          BY <1>1, <2>2, <3>1, <4>1, EndOf
        <5>2. /\ From(m.hist, c) \in Seq(Msg) /\ Len(From(m.hist, c)) = Len(m.hist) - c + 1
              /\ Slice(From(m.hist, c), m.hist, c - 1)
          BY <1>1, <4>1, EndOf
        <5> DEFINE p == From(open, a)
                   q == From(m.hist, c)
        <5>3. Len(p) = Len(q)
          BY <1>1, <2>1, <3>1, <5>1, <5>2
        <5>4. ASSUME NEW k \in 1 .. Len(p) PROVE p[k] = q[k]
          <6>1. p[k] = open[k + (a - 1)] /\ q[k] = m.hist[k + (c - 1)]
            BY <5>1, <5>2, <5>3, <5>4 DEF Slice
          <6>2. k + (a - 1) \in 1 .. Len(open)
            BY <2>1, <3>1, <4>1, <5>1, <5>4
          <6>3. open[k + (a - 1)] = m.hist[(k + (a - 1)) + ((m.f.lc + 1) - 1)]
            BY <5>1, <6>2 DEF Slice
          <6>4. (k + (a - 1)) + ((m.f.lc + 1) - 1) = k + (c - 1)
            BY <1>1, <2>1, <3>1
          <6> QED BY <6>1, <6>3, <6>4
        <5> HIDE DEF p, q
        <5>5. p \in Seq(Msg) /\ q \in Seq(Msg)
          BY <5>1, <5>2 DEF p, q
        <5>6. p = q
          BY <5>3, <5>4, <5>5, SeqEqual
        <5> QED BY <5>6 DEF p, q
      <4> QED BY <3>3, <4>1, <4>2
    <3> QED BY <3>2, <3>3
  <2>3. CASE m.f.lc + 1 > Len(m.hist) + 1
    <3>1. open = <<>> /\ Len(m.hist) + 1 \in 1 .. Len(m.hist) + 1
      BY <1>1, <2>1, <2>3 DEF From
    <3>2. From(m.hist, Len(m.hist) + 1) = <<>>
      BY <1>1, AllSaved DEF From
    <3>3. near = open
      BY <2>1, <3>1, Nothing
    <3> QED BY <3>1, <3>2, <3>3
  <2> QED BY <1>1, <2>1, <2>2, <2>3
<1>4. PICK at \in 1 .. Len(m.hist) + 1 : near = From(m.hist, at)
  BY <1>3
<1> HIDE DEF near
<1>5. /\ w \in Seq(Msg) /\ Mendable(w)
      /\ \A k \in DOMAIN w : \E j \in DOMAIN m.hist : w[k] = m.hist[j]
  BY <1>1, <1>2, <1>4, CutMendable
<1> HIDE DEF w
<1>6. \A k \in DOMAIN w : w[k].of \in Nat /\ w[k].of <= n
  <2>1. \A j \in DOMAIN m.hist : m.hist[j] \in Msg /\ m.hist[j].of <= n
    BY <1>1
  <2> QED BY <1>5, <2>1 DEF Msg
<1>7. PICK k \in {1, 4} : h = w \o Said(n + 1, SubSeq(Tooled, 1, k))
  BY DEF Assembled, w
<1>8. SubSeq(Tooled, 1, k) \in Sayings
  <2> DEFINE R == {"user", "call", "tool1", "tool2", "assistant"}
             a == SubSeq(Tooled, 1, 1)
             c == SubSeq(Tooled, 1, 4)
  <2>3. /\ Tooled \in Seq(R) /\ 1 \in 0 .. Len(Tooled) /\ 4 \in 0 .. Len(Tooled)
        /\ Asked \in Seq(R) /\ Cut \in Seq(R)
    BY DEF Tooled, Asked, Cut
  <2> HIDE DEF R
  <2>4. a \in Seq(R) /\ Len(a) = 1 /\ \A i \in 1 .. 1 : a[i] = Tooled[i]
    BY <2>3, FirstOf
  <2>5. c \in Seq(R) /\ Len(c) = 4 /\ \A i \in 1 .. 4 : c[i] = Tooled[i]
    BY <2>3, FirstOf
  <2> HIDE DEF a, c
  <2>6. Len(Asked) = 1 /\ Len(Cut) = 4 /\ \A i \in 1 .. 1 : Asked[i] = Tooled[i]
    BY DEF Tooled, Asked, Cut
  <2>7. \A i \in 1 .. 4 : Cut[i] = Tooled[i]
    BY DEF Tooled, Cut
  <2>1. a = Asked
    BY <2>3, <2>4, <2>6, SeqEqual
  <2>2. c = Cut
    <3> HIDE DEF Cut
    <3>1. Len(c) = Len(Cut) /\ \A i \in 1 .. Len(c) : c[i] = Cut[i]
      BY <2>5, <2>6, <2>7
    <3> QED BY <2>3, <2>5, <3>1, SeqEqual
  <2>8. SubSeq(Tooled, 1, 1) \in Sayings /\ SubSeq(Tooled, 1, 4) \in Sayings
    BY <2>1, <2>2 DEF Sayings, a, c
  <2>9. k = 1 \/ k = 4
    BY <1>7
  <2> HIDE DEF Sayings
  <2> QED BY <2>8, <2>9
<1> DEFINE x == Said(n + 1, SubSeq(Tooled, 1, k))
<1>9. x \in Seq(Msg) /\ Legal(x) /\ \A i2 \in DOMAIN x : x[i2].of = n + 1
  <2>1. n + 1 \in 1 .. MaxTurns + 1
    BY <1>1, ConversationAssumption
  <2> QED BY <1>8, <2>1, SayingLegal
<1> HIDE DEF x, n
<1>10. Apart(w, x)
  BY <1>1, <1>6, <1>9, LaterApart
<1>11. w \o x \in Seq(Msg) /\ Mendable(w \o x)
  BY <1>5, <1>9, <1>10, LegalMendable, TogetherMendable DEF Apart
<1> QED BY <1>7, <1>11 DEF x, n

\* Every request a turn may send is legal for the API: after any compaction, cut of the
\* window, snip by tokens, checkpoint torn by a death and restart, a call is followed at
\* once by all its results and a result stands behind its call.  (Not for a session of
\* which a failed checkpoint left a part in the file.)
THEOREM RequestsLegal == Spec => []RequestLegal
<1>1. CInv /\ SInv => RequestLegal
  <2> SUFFICES ASSUME CInv, SInv, NEW s \in Session \ parted, NEW r \in Requests(s)
               PROVE  Legal(r)
    BY DEF RequestLegal
  <2>1. PICK cut \in UNION {Snips(Repair(h)) : h \in Assembled(s)} : r = Repair(cut)
    BY DEF Requests
  <2>2. PICK h \in Assembled(s) : cut \in Snips(Repair(h))
    OBVIOUS
  <2>3. h \in Seq(Msg) /\ Mendable(h)
    BY AssembledMendable
  <2> QED BY <2>1, <2>2, <2>3, SentLegal
<1> QED BY <1>1, CInvHolds, SInvHolds, PTL
==============================================================================
