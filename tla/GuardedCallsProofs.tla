-------------------------- MODULE GuardedCallsProofs --------------------------
(***************************************************************************)
(* Proofs about GuardedCalls for any tasks, tools, limits and times: slots *)
(* are counted exactly, a tool that keeps failing is left alone, attempts  *)
(* are bounded, and requests go out at the rate of the limits.             *)
(***************************************************************************)
EXTENDS GuardedCalls, FiniteSetTheorems, FunctionTheorems, SequenceTheorems,
        WellFoundedInduction, TLAPS

-----------------------------------------------------------------------------
(* The breaker                                                             *)

\* The breaker of a tool and what was recorded of it: closed below the
\* threshold; open for as long as the last failure is old; half open while a
\* call tries it.
BreakerOK(t) ==
  /\ breaker[t] = [state |-> breaker[t].state, failures |-> breaker[t].failures,
                   age |-> breaker[t].age, probe |-> breaker[t].probe]
  /\ past[t] = [failures |-> past[t].failures, age |-> past[t].age,
                tried |-> past[t].tried]
  /\ breaker[t].state \in {"closed", "open", "half_open"}
  /\ breaker[t].failures \in 0 .. FailureThreshold /\ breaker[t].age \in 0 .. RecoveryTime
  /\ breaker[t].probe \in BOOLEAN /\ past[t].tried \in BOOLEAN
  /\ past[t].failures = breaker[t].failures
  /\ breaker[t].state = "closed" <=> breaker[t].failures < FailureThreshold
  /\ breaker[t].state = "open" => past[t].tried = FALSE /\ past[t].age = breaker[t].age
  /\ breaker[t].state = "half_open" => breaker[t].probe = TRUE

BInv ==
  /\ breaker = [t \in Tool |-> breaker[t]] /\ past = [t \in Tool |-> past[t]]
  /\ \A t \in Tool : BreakerOK(t)

\* A call that passes allow.
LEMMA AdmitKeeps ==
  ASSUME BInv, NEW t \in Tool, Admit(t)
  PROVE  BInv'
<1> USE GuardedAssumption
<1>1. Allows(t) /\ BreakerOK(t)
  BY DEF Admit, BInv
<1>2. /\ breaker' = [breaker EXCEPT ![t] = Admitted(breaker[t])]
      /\ past' = [past EXCEPT ![t].tried = past[t].failures >= FailureThreshold]
  BY DEF Admit
<1>3. \A u \in Tool \ {t} : breaker'[u] = breaker[u] /\ past'[u] = past[u]
  BY <1>2 DEF BInv
<1>4. breaker'[t] = Admitted(breaker[t])
  BY <1>2 DEF BInv
<1> DEFINE tried == past[t].failures >= FailureThreshold
<1>5. past'[t] = [failures |-> past[t].failures, age |-> past[t].age, tried |-> tried]
      /\ tried \in BOOLEAN
  <2>1. tried \in BOOLEAN
    OBVIOUS
  <2>2. past' = [past EXCEPT ![t].tried = tried]
    BY <1>2
  <2> HIDE DEF tried
  <2>3. past'[t] = [past[t] EXCEPT !.tried = tried]
    BY <2>2 DEF BInv
  <2>4. past[t] = [failures |-> past[t].failures, age |-> past[t].age,
                   tried |-> past[t].tried]
    BY <1>1 DEF BreakerOK
  <2>5. [past[t] EXCEPT !.tried = tried]
          = [failures |-> past[t].failures, age |-> past[t].age, tried |-> tried]
    BY <2>4
  <2> QED
    BY <2>1, <2>3, <2>5
<1>6. Admitted(breaker[t]) = IF breaker[t].state = "closed" THEN breaker[t]
        ELSE [state |-> "half_open", failures |-> breaker[t].failures,
              age |-> breaker[t].age, probe |-> TRUE]
  BY <1>1 DEF Admitted, BreakerOK
<1> HIDE DEF tried
<1>7. BreakerOK(t)'
  <2>1. CASE breaker[t].state = "closed"
    BY <2>1, <1>1, <1>4, <1>5, <1>6 DEF BreakerOK
  <2>2. CASE breaker[t].state # "closed"
    BY <2>2, <1>1, <1>4, <1>5, <1>6 DEF BreakerOK
  <2> QED
    BY <2>1, <2>2
<1>8. \A u \in Tool \ {t} : BreakerOK(u)'
  BY <1>3 DEF BInv, BreakerOK
<1>9. breaker' = [u \in Tool |-> breaker'[u]] /\ past' = [u \in Tool |-> past'[u]]
  BY <1>2 DEF BInv
<1> QED
  BY <1>7, <1>8, <1>9 DEF BInv

\* A result closes the breaker.
LEMMA SuccessKeeps ==
  ASSUME BInv, NEW t \in Tool, RecordSuccess(t)
  PROVE  BInv'
<1> USE GuardedAssumption
<1>1. /\ breaker' = [breaker EXCEPT ![t] = Closed]
      /\ past' = [past EXCEPT ![t] = CleanRecord]
  BY DEF RecordSuccess
<1>2. \A u \in Tool \ {t} : breaker'[u] = breaker[u] /\ past'[u] = past[u]
  BY <1>1 DEF BInv
<1>3. breaker'[t] = Closed /\ past'[t] = CleanRecord
  BY <1>1 DEF BInv
<1>4. BreakerOK(t)'
  BY <1>3 DEF BreakerOK, Closed, CleanRecord
<1>5. \A u \in Tool \ {t} : BreakerOK(u)'
  BY <1>2 DEF BInv, BreakerOK
<1>6. breaker' = [u \in Tool |-> breaker'[u]] /\ past' = [u \in Tool |-> past'[u]]
  BY <1>1 DEF BInv
<1> QED
  BY <1>4, <1>5, <1>6 DEF BInv

\* A failure counts, or opens the breaker.
LEMMA FailureKeeps ==
  ASSUME BInv, NEW t \in Tool, RecordFailure(t)
  PROVE  BInv'
<1> USE GuardedAssumption
<1>1. /\ breaker' = [breaker EXCEPT ![t] = Failed(breaker[t])]
      /\ past' = [past EXCEPT ![t] =
                    [failures |-> Up(past[t].failures, FailureThreshold),
                     age |-> 0, tried |-> FALSE]]
  BY DEF RecordFailure
<1>2. BreakerOK(t)
  BY DEF BInv
<1>3. \A u \in Tool \ {t} : breaker'[u] = breaker[u] /\ past'[u] = past[u]
  BY <1>1 DEF BInv
<1>4. /\ breaker'[t] = Failed(breaker[t])
      /\ past'[t] = [failures |-> Up(past[t].failures, FailureThreshold),
                     age |-> 0, tried |-> FALSE]
  BY <1>1 DEF BInv
<1> DEFINE more == Up(breaker[t].failures, FailureThreshold)
<1>5. more \in 0 .. FailureThreshold /\ (more < FailureThreshold => more = breaker[t].failures + 1)
      /\ (breaker[t].failures = FailureThreshold => more = FailureThreshold)
  BY <1>2 DEF Up, BreakerOK
<1>6. ASSUME breaker[t].state = "closed" PROVE BreakerOK(t)'
  <2>1. Failed(breaker[t]) =
          IF more >= FailureThreshold
          THEN [state |-> "open", failures |-> more, age |-> 0, probe |-> FALSE]
          ELSE [state |-> "closed", failures |-> more, age |-> breaker[t].age,
                probe |-> FALSE]
    BY <1>2, <1>6 DEF Failed, BreakerOK
  <2> HIDE DEF more
  <2>2. past'[t] = [failures |-> more, age |-> 0, tried |-> FALSE]
    BY <1>2, <1>4 DEF BreakerOK, more
  <2>3. more \in Int /\ breaker[t].age \in 0 .. RecoveryTime
    BY <1>2, <1>5 DEF BreakerOK
  <2>4. CASE more >= FailureThreshold
    BY <2>4, <1>4, <1>5, <2>1, <2>2 DEF BreakerOK
  <2>5. CASE more < FailureThreshold
    <3>1. breaker'[t] = [state |-> "closed", failures |-> more, age |-> breaker[t].age,
                         probe |-> FALSE]
      BY <2>5, <1>4, <2>1, <2>3
    <3> QED
      BY <2>3, <2>5, <3>1, <1>5, <2>2 DEF BreakerOK
  <2> QED
    BY <2>3, <2>4, <2>5
<1>7. ASSUME breaker[t].state # "closed" PROVE BreakerOK(t)'
  <2>1. breaker[t].failures = FailureThreshold /\ more = FailureThreshold
    BY <1>2, <1>5, <1>7 DEF BreakerOK
  <2>2. Failed(breaker[t]) =
          [state |-> "open", failures |-> FailureThreshold, age |-> 0, probe |-> FALSE]
    BY <2>1 DEF Failed
  <2>3. past'[t] = [failures |-> FailureThreshold, age |-> 0, tried |-> FALSE]
    BY <1>2, <1>4, <2>1 DEF BreakerOK
  <2> QED
    BY <1>4, <2>2, <2>3 DEF BreakerOK
<1>8. BreakerOK(t)'
  BY <1>6, <1>7
<1>9. \A u \in Tool \ {t} : BreakerOK(u)'
  BY <1>3 DEF BInv, BreakerOK
<1>10. breaker' = [u \in Tool |-> breaker'[u]] /\ past' = [u \in Tool |-> past'[u]]
  BY <1>1 DEF BInv
<1> QED
  BY <1>8, <1>9, <1>10 DEF BInv

\* Time ages an open breaker and the last failure alike.
LEMMA TickKeeps ==
  ASSUME BInv, Tick
  PROVE  BInv'
<1> USE GuardedAssumption
<1>1. breaker' = [t \in Tool |-> IF breaker[t].state = "open"
                    THEN [breaker[t] EXCEPT !.age = Up(breaker[t].age, RecoveryTime)]
                    ELSE breaker[t]]
      /\ past' = [t \in Tool |-> IF past[t].failures > 0
                    THEN [past[t] EXCEPT !.age = Up(past[t].age, RecoveryTime)]
                    ELSE past[t]]
  BY DEF Tick
<1>2. ASSUME NEW t \in Tool PROVE BreakerOK(t)'
  <2>1. BreakerOK(t)
    BY DEF BInv
  <2>2. /\ breaker'[t] = [state |-> breaker[t].state, failures |-> breaker[t].failures,
                          age |-> breaker'[t].age, probe |-> breaker[t].probe]
        /\ breaker'[t].age = IF breaker[t].state = "open"
                             THEN Up(breaker[t].age, RecoveryTime) ELSE breaker[t].age
    BY <1>1, <2>1 DEF BreakerOK
  <2>3. /\ past'[t] = [failures |-> past[t].failures, age |-> past'[t].age,
                       tried |-> past[t].tried]
        /\ past'[t].age = IF past[t].failures > 0
                          THEN Up(past[t].age, RecoveryTime) ELSE past[t].age
    BY <1>1, <2>1 DEF BreakerOK
  <2>4. breaker'[t].age \in 0 .. RecoveryTime
    BY <2>1, <2>2 DEF Up, BreakerOK
  <2>5. breaker[t].state = "open" => past'[t].age = breaker'[t].age
    BY <2>1, <2>2, <2>3 DEF BreakerOK
  <2> QED
    BY <2>1, <2>2, <2>3, <2>4, <2>5 DEF BreakerOK
<1> QED
  BY <1>1, <1>2 DEF BInv

-----------------------------------------------------------------------------
(* The calls                                                               *)

Wire == {c \in Caller : call[c].stage = "wire"}

\* What a task waits for.
Call == [stage : {"idle", "budget", "slot", "wire", "backoff", "tool", "toolBackoff"},
         attempt : Nat, size : Nat, tool : SUBSET Tool]

\* The calls, and how many requests are on the wire.
CallsOK ==
  /\ call \in [Caller -> Call]
  /\ tools \subseteq Tool
  /\ active = Cardinality(Wire) /\ active <= MaxConcurrency

\* The requests on the wire can be counted.
LEMMA WireFinite == IsFiniteSet(Wire) /\ Cardinality(Wire) \in Nat
<1>1. IsFiniteSet(Wire)
  <2>1. Wire \subseteq Caller /\ IsFiniteSet(Caller)
    BY GuardedAssumption DEF Wire
  <2> QED
    BY <2>1, FS_Subset
<1> QED
  BY <1>1, FS_CardinalityType

\* A step that moves one task and takes or gives back its slot.
LEMMA OneMoves ==
  ASSUME CallsOK, NEW c \in Caller, NEW new \in Call,
         call' = [call EXCEPT ![c] = new], tools' \subseteq Tool,
         active' = active - (IF call[c].stage = "wire" THEN 1 ELSE 0)
                          + (IF new.stage = "wire" THEN 1 ELSE 0),
         new.stage = "wire" => active < MaxConcurrency
  PROVE  CallsOK'
<1>1. call' \in [Caller -> Call] /\ call'[c] = new
      /\ \A d \in Caller \ {c} : call'[d] = call[d]
  BY DEF CallsOK
<1> DEFINE Others == Wire \ {c}
<1>2. IsFiniteSet(Others) /\ Cardinality(Others) =
        Cardinality(Wire) - (IF call[c].stage = "wire" THEN 1 ELSE 0)
  <2>1. CASE c \in Wire
    <3>1. call[c].stage = "wire"
      BY <2>1 DEF Wire
    <3> QED
      BY <2>1, <3>1, WireFinite, FS_RemoveElement
  <2>2. CASE c \notin Wire
    <3>1. call[c].stage # "wire" /\ Others = Wire
      BY <2>2 DEF Wire
    <3> QED
      BY <3>1, WireFinite
  <2> QED
    BY <2>1, <2>2
<1>3. Wire' = IF new.stage = "wire" THEN Others \cup {c} ELSE Others
  BY <1>1 DEF Wire
<1>4. Cardinality(Wire') = Cardinality(Others) + (IF new.stage = "wire" THEN 1 ELSE 0)
  <2> HIDE DEF Others
  <2>1. c \notin Others
    BY DEF Others
  <2>2. Cardinality(Others) \in Nat
    BY <1>2, FS_CardinalityType
  <2>3. Cardinality(Others \cup {c}) = Cardinality(Others) + 1
    BY <1>2, <2>1, FS_AddElement
  <2> QED
    BY <1>3, <2>2, <2>3
<1>5. active' = Cardinality(Wire)' /\ active' <= MaxConcurrency
  BY <1>2, <1>4, WireFinite, GuardedAssumption DEF CallsOK
<1> QED
  BY <1>1, <1>5 DEF CallsOK

\* A step of no task.
LEMMA NobodyMoves ==
  ASSUME CallsOK, call' = call, active' = active, tools' \subseteq Tool
  PROVE  CallsOK'
BY DEF CallsOK, Wire

\* A task that goes on to wait for something else than a reply, or returns.
LEMMA Rests ==
  ASSUME CallsOK, NEW c \in Caller, NEW new \in Call, call' = [call EXCEPT ![c] = new],
         new.stage # "wire", ReleaseSlot(c), tools' \subseteq Tool
  PROVE  CallsOK'
<1>1. active' = active - (IF call[c].stage = "wire" THEN 1 ELSE 0)
      /\ active \in Nat
  BY WireFinite DEF ReleaseSlot, CallsOK
<1>2. active' = active - (IF call[c].stage = "wire" THEN 1 ELSE 0)
                       + (IF new.stage = "wire" THEN 1 ELSE 0)
  BY <1>1
<1> QED
  BY <1>2, OneMoves

\* A task that is not on the wire has no slot to give back.
LEMMA KeepsSlot ==
  ASSUME CallsOK, NEW c \in Caller, call[c].stage # "wire", active' = active
  PROVE  ReleaseSlot(c)
<1>1. active \in Nat
  BY WireFinite DEF CallsOK
<1>2. active' = active - 0
  BY <1>1
<1> QED
  BY <1>2 DEF ReleaseSlot

Later == {"slot", "backoff", "toolBackoff", "budget", "tool"}

\* What a call is made of.
LEMMA CallShape ==
  ASSUME CallsOK, NEW c \in Caller
  PROVE  /\ call[c] = [stage |-> call[c].stage, attempt |-> call[c].attempt,
                       size |-> call[c].size, tool |-> call[c].tool]
         /\ call[c].attempt \in Nat /\ call[c].size \in Nat /\ call[c].tool \in SUBSET Tool
BY DEF CallsOK, Call

\* A call that waits keeps its attempt, its size and its tool.
LEMMA WaitsMeans ==
  ASSUME CallsOK, NEW c \in Caller, NEW stage \in Later \cup {"wire"}, Waits(c, stage)
  PROVE  \E new \in Call : /\ call' = [call EXCEPT ![c] = new]
                           /\ new = [stage |-> stage, attempt |-> call[c].attempt,
                                     size |-> call[c].size, tool |-> call[c].tool]
<1> DEFINE new == [stage |-> stage, attempt |-> call[c].attempt, size |-> call[c].size,
                   tool |-> call[c].tool]
<1>1. new \in Call
  <2>1. call[c].attempt \in Nat
    BY CallShape
  <2>2. call[c].size \in Nat
    BY CallShape
  <2>3. call[c].tool \in SUBSET Tool
    BY CallShape
  <2>4. stage \in {"idle", "budget", "slot", "wire", "backoff", "tool", "toolBackoff"}
    BY DEF Later
  <2> QED
    BY <2>1, <2>2, <2>3, <2>4 DEF Call
<1>2. [call[c] EXCEPT !.stage = stage] = new
  <2>1. call[c] = [stage |-> call[c].stage, attempt |-> call[c].attempt,
                   size |-> call[c].size, tool |-> call[c].tool]
    BY CallShape
  <2> QED
    BY <2>1
<1>3. call' = [call EXCEPT ![c] = [call[c] EXCEPT !.stage = stage]]
  BY DEF Waits
<1> QED
  BY <1>1, <1>2, <1>3

\* A task that waits elsewhere keeps the count.
LEMMA WaitsKeeps ==
  ASSUME CallsOK, NEW c \in Caller, NEW stage \in Later, Waits(c, stage),
         ReleaseSlot(c), tools' \subseteq Tool
  PROVE  CallsOK'
<1>1. PICK new \in Call : /\ call' = [call EXCEPT ![c] = new]
                          /\ new = [stage |-> stage, attempt |-> call[c].attempt,
                                    size |-> call[c].size, tool |-> call[c].tool]
  BY WaitsMeans
<1>2. new.stage # "wire"
  BY <1>1 DEF Later
<1> QED
  BY <1>1, <1>2, Rests

\* So does one that returns,
LEMMA ReturnsKeeps ==
  ASSUME CallsOK, NEW c \in Caller, Returns(c), ReleaseSlot(c), tools' \subseteq Tool
  PROVE  CallsOK'
<1> DEFINE new == NoCall
<1>1. new \in Call /\ new.stage # "wire"
  BY DEF NoCall, Call
<1>2. call' = [call EXCEPT ![c] = new]
  BY DEF Returns
<1> HIDE DEF new
<1> QED
  BY <1>1, <1>2, Rests

\* and one that tries again.
LEMMA NextAttemptKeeps ==
  ASSUME CallsOK, NEW c \in Caller, NEW stage \in Later, NextAttempt(c, stage),
         ReleaseSlot(c), tools' \subseteq Tool
  PROVE  CallsOK'
<1> DEFINE new == [stage |-> stage, attempt |-> call[c].attempt + 1,
                   size |-> call[c].size, tool |-> call[c].tool]
<1>1. new \in Call /\ new.stage # "wire"
  <2>1. call[c].attempt \in Nat
    BY CallShape
  <2>3. call[c].attempt + 1 \in Nat
    BY <2>1
  <2>4. call[c].size \in Nat
    BY CallShape
  <2>5. call[c].tool \in SUBSET Tool
    BY CallShape
  <2>2. stage \in {"idle", "budget", "slot", "wire", "backoff", "tool", "toolBackoff"}
        /\ stage # "wire"
    BY DEF Later
  <2> QED
    BY <2>2, <2>3, <2>4, <2>5 DEF Call
<1>2. call' = [call EXCEPT ![c] = new]
  BY DEF NextAttempt
<1> HIDE DEF new
<1> QED
  BY <1>1, <1>2, Rests

\* The initial state.
LEMMA CallsInit == Init => CallsOK /\ BInv
<1> SUFFICES ASSUME Init PROVE CallsOK /\ BInv
  OBVIOUS
<1>1. Wire = {}
  BY DEF Init, Wire, NoCall
<1>2. CallsOK
  BY <1>1, FS_EmptySet, GuardedAssumption DEF Init, CallsOK, Call, NoCall, Tool
<1>3. BInv
  <2>1. breaker = [t \in Tool |-> breaker[t]] /\ past = [t \in Tool |-> past[t]]
        /\ \A t \in Tool : breaker[t] = Closed /\ past[t] = CleanRecord
    BY DEF Init
  <2>2. ASSUME NEW t \in Tool PROVE BreakerOK(t)
    <3>1. breaker[t] = [state |-> "closed", failures |-> 0, age |-> 0, probe |-> FALSE]
      BY <2>1 DEF Closed
    <3>2. past[t] = [failures |-> 0, age |-> 0, tried |-> FALSE]
      BY <2>1 DEF CleanRecord
    <3>3. /\ breaker[t].state = "closed" /\ breaker[t].failures = 0
          /\ breaker[t].age = 0 /\ breaker[t].probe = FALSE
      BY <3>1
    <3>4. past[t].failures = 0 /\ past[t].age = 0 /\ past[t].tried = FALSE
      BY <3>2
    <3>5. 0 \in 0 .. FailureThreshold /\ 0 \in 0 .. RecoveryTime /\ 0 < FailureThreshold
      BY GuardedAssumption
    <3>6. breaker[t].probe \in BOOLEAN /\ past[t].tried \in BOOLEAN
      BY <3>3, <3>4
    <3> QED
      BY <3>1, <3>2, <3>3, <3>4, <3>5, <3>6 DEF BreakerOK
  <2> QED
    BY <2>1, <2>2 DEF BInv
<1> QED
  BY <1>2, <1>3

\* Every step keeps the count of slots and the calls.
LEMMA CallsStep ==
  ASSUME CallsOK, [Next]_vars
  PROVE  CallsOK'
<1> USE GuardedAssumption
<1>0. active \in Nat /\ tools \subseteq Tool
  BY WireFinite DEF CallsOK
<1>1. ASSUME NEW c \in Caller, Ask(c) PROVE CallsOK'
  <2>1. PICK size \in Sizes : call' = [call EXCEPT ![c] =
          [stage |-> "budget", attempt |-> 1, size |-> size, tool |-> {}]]
    BY <1>1 DEF Ask
  <2> DEFINE new == [stage |-> "budget", attempt |-> 1, size |-> size, tool |-> {}]
  <2>2. new \in Call /\ new.stage # "wire"
    BY DEF Call
  <2>3. ReleaseSlot(c) /\ tools' \subseteq Tool
    BY <1>0, <1>1, KeepsSlot DEF Ask, NoCall, limiter, registry
  <2>4. call' = [call EXCEPT ![c] = new]
    BY <2>1
  <2> HIDE DEF new
  <2> QED
    BY <2>2, <2>3, <2>4, Rests
<1>2. ASSUME NEW c \in Caller, Reserve(c) PROVE CallsOK'
  <2>1. Waits(c, "slot") /\ ReleaseSlot(c) /\ tools' \subseteq Tool
    BY <1>0, <1>2, KeepsSlot DEF Reserve, registry
  <2> QED
    BY <2>1, WaitsKeeps DEF Later
<1>3. ASSUME NEW c \in Caller, TakeSlot(c) PROVE CallsOK'
  <2>1. /\ Waits(c, "wire") /\ call[c].stage = "slot" /\ active' = active + 1
        /\ active < MaxConcurrency /\ tools' \subseteq Tool
    BY <1>0, <1>3 DEF TakeSlot, registry
  <2>2. PICK new \in Call : /\ call' = [call EXCEPT ![c] = new]
                            /\ new = [stage |-> "wire", attempt |-> call[c].attempt,
                                      size |-> call[c].size, tool |-> call[c].tool]
    BY <2>1, WaitsMeans
  <2>3. new.stage = "wire"
    BY <2>2
  <2>4. active' = active - (IF call[c].stage = "wire" THEN 1 ELSE 0)
                         + (IF new.stage = "wire" THEN 1 ELSE 0)
    BY <2>1, <2>3, <1>0
  <2> QED
    BY <2>1, <2>2, <2>4, OneMoves
<1>4. ASSUME NEW c \in Caller, Replied(c) \/ Cancel(c) PROVE CallsOK'
  <2>1. ReleaseSlot(c) /\ Returns(c) /\ tools' \subseteq Tool
    BY <1>0, <1>4 DEF Replied, Cancel, registry
  <2> QED
    BY <2>1, ReturnsKeeps
<1>5. ASSUME NEW c \in Caller, RequestFails(c) PROVE CallsOK'
  <2>1. ReleaseSlot(c) /\ tools' \subseteq Tool /\ (Waits(c, "backoff") \/ Returns(c))
    BY <1>0, <1>5 DEF RequestFails, Retries, registry
  <2> QED
    BY <2>1, WaitsKeeps, ReturnsKeeps DEF Later
<1>6. ASSUME NEW c \in Caller, OversizedFails(c) PROVE CallsOK'
  <2>1. ReleaseSlot(c) /\ tools' \subseteq Tool
    BY <1>0, <1>6, KeepsSlot DEF OversizedFails, limiter, registry
  <2>2. Waits(c, "backoff") \/ Returns(c)
    BY <1>6 DEF OversizedFails, Retries
  <2> QED
    BY <2>1, <2>2, WaitsKeeps, ReturnsKeeps DEF Later
<1>7. ASSUME NEW c \in Caller, Resume(c) PROVE CallsOK'
  <2>1. NextAttempt(c, "budget") /\ ReleaseSlot(c) /\ tools' \subseteq Tool
    BY <1>0, <1>7, KeepsSlot DEF Resume, limiter, registry
  <2> QED
    BY <2>1, NextAttemptKeeps DEF Later
<1>8. ASSUME NEW c \in Caller, ToolResumes(c) PROVE CallsOK'
  <2>1. NextAttempt(c, "tool") /\ ReleaseSlot(c) /\ tools' \subseteq Tool
    BY <1>0, <1>8, KeepsSlot DEF ToolResumes, limiter, registry
  <2> QED
    BY <2>1, NextAttemptKeeps DEF Later
<1>9. ASSUME NEW c \in Caller, NEW t \in Tool, Execute(c, t) PROVE CallsOK'
  <2> DEFINE new == [stage |-> "tool", attempt |-> 1, size |-> 0, tool |-> {t}]
  <2>1. call' = [call EXCEPT ![c] = new]
    BY <1>9 DEF Execute
  <2>2. new \in Call /\ new.stage # "wire"
    BY DEF Call
  <2>3. ReleaseSlot(c) /\ tools' \subseteq Tool
    BY <1>0, <1>9, KeepsSlot DEF Execute, NoCall, limiter, registry
  <2> HIDE DEF new
  <2> QED
    BY <2>1, <2>2, <2>3, Rests
<1>10. ASSUME NEW c \in Caller, NEW t \in Tool, UnknownParams(c, t) PROVE CallsOK'
  BY <1>0, <1>10, NobodyMoves DEF UnknownParams, limiter, registry
<1>11. ASSUME NEW c \in Caller, NEW t \in Tool, ToolAnswers(c, t) \/ ToolFails(c, t)
       PROVE  CallsOK'
  <2>1. Returns(c) /\ ReleaseSlot(c) /\ tools' \subseteq Tool
    BY <1>0, <1>11, KeepsSlot DEF ToolAnswers, ToolFails, limiter, registry
  <2> QED
    BY <2>1, ReturnsKeeps
<1>12. ASSUME NEW c \in Caller, NEW t \in Tool, ToolRetries(c, t) PROVE CallsOK'
  <2>1. Waits(c, "toolBackoff") /\ ReleaseSlot(c) /\ tools' \subseteq Tool
    BY <1>0, <1>12, KeepsSlot DEF ToolRetries, limiter, registry
  <2> QED
    BY <2>1, WaitsKeeps DEF Later
<1>13. CASE Connect \/ ConnectFails \/ Disconnect
  BY <1>0, <1>13, NobodyMoves DEF Connect, ConnectFails, Disconnect, Tool, limiter
<1>14. CASE Tick
  BY <1>0, <1>14, NobodyMoves DEF Tick, registry
<1>15. CASE UNCHANGED vars
  BY <1>0, <1>15, NobodyMoves DEF vars, limiter, registry
<1>16. ASSUME NEW c \in Caller, Resend(c) PROVE CallsOK'
  BY <1>0, <1>16, NobodyMoves DEF Resend, registry
<1> QED
  BY <1>1, <1>2, <1>3, <1>4, <1>5, <1>6, <1>7, <1>8, <1>9, <1>10, <1>11, <1>12, <1>13,
     <1>14, <1>15, <1>16 DEF Next

\* Every step keeps the breakers.
LEMMA BreakerStep ==
  ASSUME BInv, CallsOK, [Next]_vars
  PROVE  BInv'
<1>1. ASSUME NEW c \in Caller, NEW t \in Tool, Execute(c, t) \/ UnknownParams(c, t)
      PROVE  BInv'
  BY <1>1, AdmitKeeps DEF Execute, UnknownParams
<1>2. ASSUME NEW c \in Caller, NEW t \in Tool, ToolAnswers(c, t) PROVE BInv'
  BY <1>2, SuccessKeeps DEF ToolAnswers
<1>3. ASSUME NEW c \in Caller, NEW t \in Tool, ToolFails(c, t) PROVE BInv'
  BY <1>3, FailureKeeps DEF ToolFails
<1>4. CASE Tick
  BY <1>4, TickKeeps
<1>5. ASSUME guards' = guards PROVE BInv'
  BY <1>5 DEF BInv, BreakerOK, guards
<1>6. ASSUME NEW c \in Caller,
             \/ Ask(c) \/ Reserve(c) \/ TakeSlot(c) \/ Resend(c) \/ Replied(c)
             \/ RequestFails(c) \/ OversizedFails(c) \/ Resume(c) \/ ToolResumes(c)
             \/ Cancel(c)
      PROVE  guards' = guards
  BY <1>6 DEF Ask, Reserve, TakeSlot, Resend, Replied, RequestFails, OversizedFails, Resume,
              ToolResumes, Cancel
<1>7. ASSUME NEW c \in Caller, NEW t \in Tool, ToolRetries(c, t) PROVE guards' = guards
  BY <1>7 DEF ToolRetries
<1>8. ASSUME Connect \/ ConnectFails \/ Disconnect \/ UNCHANGED vars
      PROVE  guards' = guards
  BY <1>8 DEF Connect, ConnectFails, Disconnect, vars, guards
<1> QED
  BY <1>1, <1>2, <1>3, <1>4, <1>5, <1>6, <1>7, <1>8 DEF Next

-----------------------------------------------------------------------------
(* The theorems                                                            *)

GuardedInv == CallsOK /\ BInv

\* The inductive invariant: slots, calls and breakers together.
THEOREM GuardedInvariant == Spec => []GuardedInv
<1>1. Init => GuardedInv
  BY CallsInit DEF GuardedInv
<1>2. GuardedInv /\ [Next]_vars => GuardedInv'
  BY CallsStep, BreakerStep DEF GuardedInv
<1> QED
  BY <1>1, <1>2, PTL DEF Spec

\* LLMRateLimiter._active is at all times the number of requests on the wire,
\* whatever failed or was cancelled in between, and never above the limit.
THEOREM SlotsReturned ==
  Spec => [](/\ active = Cardinality({c \in Caller : call[c].stage = "wire"})
             /\ active <= MaxConcurrency)
<1>1. GuardedInv => /\ active = Cardinality({c \in Caller : call[c].stage = "wire"})
                    /\ active <= MaxConcurrency
  BY DEF GuardedInv, CallsOK, Wire
<1> QED
  BY <1>1, GuardedInvariant, PTL

\* A call that starts passed allow: its tool has failed less often than the
\* threshold, or its last failure is RecoveryTime old and nobody tries it.
LEMMA AllowedMeans ==
  ASSUME BInv, NEW t \in Tool, Allows(t)
  PROVE  \/ past[t].failures < FailureThreshold
         \/ past[t].age = RecoveryTime /\ ~past[t].tried
<1>1. BreakerOK(t)
  BY DEF BInv
<1>2. CASE breaker[t].state = "closed"
  BY <1>1, <1>2 DEF BreakerOK
<1>3. CASE Recovered(breaker[t])
  <2>1. breaker[t].age = RecoveryTime /\ past[t].tried = FALSE
        /\ past[t].age = breaker[t].age
    BY <1>1, <1>3, GuardedAssumption DEF Recovered, BreakerOK
  <2> QED
    BY <2>1
<1>4. CASE breaker[t].state = "half_open" /\ ~breaker[t].probe
  <2>1. breaker[t].probe = TRUE
    BY <1>1, <1>4 DEF BreakerOK
  <2> QED
    BY <2>1, <1>4
<1> QED
  BY <1>2, <1>3, <1>4 DEF Allows

\* A tool that failed FailureThreshold times in a row is left alone for
\* RecoveryTime and then tried by one call (CircuitBreaker.allow), for any
\* number of tasks, tools and failures.
THEOREM FailingToolLeftAlone == Spec => Quarantined
<1>1. ASSUME GuardedInv, [Next]_vars, NEW c \in Caller, NEW t \in Tool,
             call[c].stage = "idle", call'[c].stage = "tool", t \in call'[c].tool
      PROVE  \/ past[t].failures < FailureThreshold
             \/ past[t].age = RecoveryTime /\ ~past[t].tried
  <2>1. call \in [Caller -> Call] /\ BInv
    BY <1>1 DEF GuardedInv, CallsOK
  <2>2. ASSUME NEW d \in Caller, NEW u \in Tool, Execute(d, u) PROVE Allows(t)
    <3> DEFINE new == [stage |-> "tool", attempt |-> 1, size |-> 0, tool |-> {u}]
    <3>1. call' = [call EXCEPT ![d] = new]
      BY <2>2 DEF Execute
    <3>2. new.tool = {u}
      OBVIOUS
    <3> HIDE DEF new
    <3>3. c = d
      BY <3>1, <2>1, <1>1
    <3>4. call'[c] = new
      BY <3>1, <3>3, <2>1
    <3>5. t = u
      BY <3>4, <3>2, <1>1
    <3> QED
      BY <3>5, <2>2 DEF Execute, Admit
  <2>3. Allows(t)
    <3>1. ASSUME \/ \E d \in Caller :
                      \/ Ask(d) \/ Reserve(d) \/ TakeSlot(d) \/ Resend(d) \/ Replied(d)
                      \/ RequestFails(d) \/ OversizedFails(d) \/ Resume(d)
                      \/ ToolResumes(d) \/ Cancel(d)
                 \/ \E d \in Caller, u \in Tool :
                      \/ UnknownParams(d, u) \/ ToolAnswers(d, u)
                      \/ ToolRetries(d, u) \/ ToolFails(d, u)
                 \/ Connect \/ ConnectFails \/ Disconnect \/ Tick \/ UNCHANGED vars
          PROVE  FALSE
      <4>1. ASSUME NEW d \in Caller, Ask(d) PROVE FALSE
        <5>1. PICK size \in Sizes : call' = [call EXCEPT ![d] =
                [stage |-> "budget", attempt |-> 1, size |-> size, tool |-> {}]]
          BY <4>1 DEF Ask
        <5>2. call'[c] = call[c]
              \/ call'[c] = [stage |-> "budget", attempt |-> 1, size |-> size, tool |-> {}]
          BY <5>1, <2>1
        <5> QED
          BY <5>2, <1>1
      <4>2. ASSUME NEW d \in Caller, NEW stage \in Later \cup {"wire"}, Waits(d, stage),
                   call[d].stage # "idle"
            PROVE  FALSE
        <5>1. c # d
          BY <4>2, <1>1
        <5>2. call'[c] = call[c]
          BY <5>1, <4>2, <2>1 DEF Waits
        <5> QED
          BY <5>2, <1>1
      <4>3. ASSUME NEW d \in Caller, Returns(d) PROVE FALSE
        <5>1. call'[c] = call[c] \/ call'[c] = NoCall
          BY <4>3, <2>1 DEF Returns
        <5> QED
          BY <5>1, <1>1 DEF NoCall
      <4>4. ASSUME NEW d \in Caller, NEW stage \in Later, NextAttempt(d, stage),
                   call[d].stage # "idle"
            PROVE  FALSE
        <5>1. c # d
          BY <4>4, <1>1
        <5>2. call'[c] = call[c]
          BY <5>1, <4>4, <2>1 DEF NextAttempt
        <5> QED
          BY <5>2, <1>1
      <4>5. ASSUME call' = call PROVE FALSE
        BY <4>5, <1>1
      <4>6. ASSUME NEW d \in Caller,
                   \/ Reserve(d) \/ TakeSlot(d) \/ Resend(d) \/ Replied(d)
                   \/ RequestFails(d) \/ Cancel(d)
            PROVE  FALSE
        BY <4>6, <4>2, <4>3, <4>5 DEF Reserve, TakeSlot, Resend, Replied, RequestFails, Cancel, Retries,
                                Later
      <4>7. ASSUME NEW d \in Caller, OversizedFails(d) \/ Resume(d) \/ ToolResumes(d)
            PROVE  FALSE
        BY <4>7, <4>2, <4>3, <4>4 DEF OversizedFails, Resume, ToolResumes, Retries, Later
      <4>8. ASSUME NEW d \in Caller, NEW u \in Tool,
                   \/ UnknownParams(d, u) \/ ToolAnswers(d, u)
                   \/ ToolRetries(d, u) \/ ToolFails(d, u)
            PROVE  FALSE
        BY <4>8, <4>2, <4>3, <4>5 DEF UnknownParams, ToolAnswers, ToolRetries, ToolFails,
                                      Later
      <4>9. ~(Connect \/ ConnectFails \/ Disconnect \/ Tick \/ UNCHANGED vars)
        BY <4>5 DEF Connect, ConnectFails, Disconnect, Tick, vars
      <4> QED
        BY <3>1, <4>1, <4>6, <4>7, <4>8, <4>9
    <3> QED
      BY <3>1, <2>2, <1>1 DEF Next
  <2> QED
    BY <2>1, <2>3, <1>1, AllowedMeans
<1>2. GuardedInv /\ [Next]_vars =>
        [\A c \in Caller, t \in Tool :
           call[c].stage = "idle" /\ call'[c].stage = "tool" /\ t \in call'[c].tool =>
             \/ past[t].failures < FailureThreshold
             \/ past[t].age = RecoveryTime /\ ~past[t].tried]_vars
  BY <1>1
<1> QED
  BY <1>2, GuardedInvariant, PTL DEF Spec, Quarantined

-----------------------------------------------------------------------------
(* The budget of the minute                                                *)

\* Oldest first; the places whose entry leaves with this tick; how many entries are
\* not older than a.
Sorted(ages) == \A i, j \in DOMAIN ages : i < j => ages[j] <= ages[i]
Leaving(ages) == {i \in DOMAIN ages : ages[i] + 1 >= Window}
Count(ages, a) == Cardinality({i \in DOMAIN ages : ages[i] <= a})

\* Any non-empty set of numbers has a smallest one.
LEMMA Smallest ==
  ASSUME NEW S, S \subseteq Nat, S # {}
  PROVE  \E m \in S : \A n \in S : m <= n
<1> DEFINE R == {p \in Nat \X Nat : p[1] < p[2]}
<1>1. IsWellFoundedOn(R, Nat)
  BY NatLessThanWellFounded DEF OpToRel
<1>2. \A m, n \in Nat : <<n, m>> \in R <=> n < m
  OBVIOUS
<1> HIDE DEF R
<1>3. \E m \in S : \A n \in S : ~(<<n, m>> \in R)
  BY <1>1, WFMin
<1>4. PICK m \in S : \A n \in S : ~(<<n, m>> \in R)
  BY <1>3
<1>5. ASSUME NEW n \in S PROVE m <= n
  <2>1. m \in Nat /\ n \in Nat
    BY <1>4
  <2>2. ~(n < m)
    BY <1>2, <1>4, <2>1
  <2> QED BY <2>1, <2>2
<1> QED BY <1>4, <1>5

\* Some places of a queue are finitely many.
LEMMA SomePlaces ==
  ASSUME NEW n \in Nat, NEW S, S \subseteq 1 .. n
  PROVE  IsFiniteSet(S)
<1>1. IsFiniteSet(1 .. n)
  BY FS_Interval
<1> QED BY <1>1, FS_Subset

\* The entries that leave are the first ones, so popleft takes just these.
LEMMA TheFirstLeave ==
  ASSUME NEW ages \in Seq(Nat), Sorted(ages)
  PROVE  \E k \in 0 .. Len(ages) :
           Leaving(ages) = 1 .. k /\ Cardinality(Leaving(ages)) = k
<1> DEFINE n == Len(ages)
           Stays == (1 .. n + 1) \ Leaving(ages)
<1>1. n \in Nat /\ DOMAIN ages = 1 .. n /\ (\A i \in 1 .. n : ages[i] \in Nat) /\ Window \in Nat
  BY GuardedAssumption
<1>2. Stays \subseteq Nat /\ n + 1 \in Stays
  BY <1>1 DEF Leaving
<1>3. PICK m \in Stays : \A i \in Stays : m <= i
  BY <1>2, Smallest
<1>4. m \in 1 .. n + 1 /\ m \notin Leaving(ages)
  BY <1>3
<1>5. \A i \in 1 .. m - 1 : i \in Leaving(ages)
  BY <1>1, <1>3, <1>4
<1>6. ASSUME NEW i \in Leaving(ages) PROVE i \in 1 .. m - 1
  <2>1. i \in 1 .. n /\ ages[i] + 1 >= Window
    BY <1>1 DEF Leaving
  <2>2. CASE m <= i
    <3>1. m \in 1 .. n /\ ages[i] <= ages[m]
      BY <1>1, <1>4, <2>1, <2>2 DEF Sorted
    <3>2. ages[m] \in Nat /\ ages[i] \in Nat
      BY <1>1, <2>1, <3>1
    <3>3. ages[m] + 1 >= Window
      BY <1>1, <2>1, <3>1, <3>2
    <3> QED BY <1>1, <1>4, <3>1, <3>3 DEF Leaving
  <2> QED BY <1>1, <1>4, <2>1, <2>2
<1>7. Leaving(ages) = 1 .. m - 1
  BY <1>5, <1>6
<1>8. Cardinality(1 .. m - 1) = m - 1
  BY <1>1, <1>4, FS_Interval
<1> QED BY <1>1, <1>4, <1>7, <1>8

\* What stays in the window, one tick older.
LEMMA OneTickOlder ==
  ASSUME NEW f \in Seq(Nat), Sorted(f), NEW k \in 0 .. Len(f), Leaving(f) = 1 .. k,
         NEW g \in [1 .. Len(f) - k -> Nat], \A i \in 1 .. Len(f) - k : g[i] = f[i + k] + 1
  PROVE  /\ g \in Seq(0 .. Window - 1) /\ Len(g) = Len(f) - k /\ Sorted(g) /\ Count(g, 0) = 0
         /\ \A a \in 1 .. Window - 1 : Count(g, a) = Count(f, a - 1)
<1> DEFINE n == Len(f)
<1>1. /\ n \in Nat /\ DOMAIN f = 1 .. n /\ (\A i \in 1 .. n : f[i] \in Nat)
      /\ Window \in Nat /\ Window > 0 /\ n - k \in Nat
  BY GuardedAssumption
<1>2. \A i \in 1 .. n - k : i + k \in 1 .. n /\ i + k \notin Leaving(f)
  BY <1>1
<1>3. \A i \in 1 .. n - k : g[i] = f[i + k] + 1 /\ g[i] \in 0 .. Window - 1 /\ g[i] > 0
  BY <1>1, <1>2 DEF Leaving
<1>4. g \in Seq(0 .. Window - 1) /\ Len(g) = n - k /\ DOMAIN g = 1 .. n - k
  <2> DEFINE m == n - k
             V == 0 .. Window - 1
  <2>1. m \in Nat /\ g \in [1 .. m -> Nat]
    BY <1>1
  <2>2. \A i \in 1 .. m : g[i] \in V
    BY <1>3
  <2> HIDE DEF m, V
  <2>3. g \in Seq(V)
    <3>1. g \in [1 .. m -> V]
      BY <2>1, <2>2
    <3> QED BY <2>1, <3>1, SeqDef
  <2>4. Len(g) = m /\ DOMAIN g = 1 .. m
    BY <2>1
  <2> QED BY <2>3, <2>4 DEF m, V
<1>5. Sorted(g)
  <2>1. ASSUME NEW i \in 1 .. n - k, NEW j \in 1 .. n - k, i < j PROVE g[j] <= g[i]
    <3>1. i + k \in DOMAIN f /\ j + k \in DOMAIN f /\ i + k < j + k
      BY <1>1, <1>2, <2>1
    <3>2. f[j + k] <= f[i + k] /\ f[j + k] \in Nat /\ f[i + k] \in Nat
      BY <1>1, <3>1 DEF Sorted
    <3>3. g[i] = f[i + k] + 1 /\ g[j] = f[j + k] + 1
      BY <1>3
    <3> QED BY ONLY <3>2, <3>3
  <2> QED BY <1>4, <2>1 DEF Sorted
<1>6. Count(g, 0) = 0
  <2>1. ASSUME NEW i \in DOMAIN g PROVE ~(g[i] <= 0)
    <3>1. g[i] \in Nat /\ g[i] > 0
      BY <1>1, <1>3, <1>4
    <3> QED BY ONLY <3>1
  <2>2. {i \in DOMAIN g : g[i] <= 0} = {}
    BY ONLY <2>1
  <2> QED BY <2>2, FS_EmptySet DEF Count
<1>7. ASSUME NEW a \in 1 .. Window - 1 PROVE Count(g, a) = Count(f, a - 1)
  <2> DEFINE S == {i \in DOMAIN g : g[i] <= a}
             T == {i \in DOMAIN f : f[i] <= a - 1}
             h == [i \in S |-> i + k]
  <2>1. S \subseteq 1 .. n - k
    BY <1>4
  <2>2. \A i \in S : i + k \in T
    BY <1>1, <1>2, <1>3, <1>4
  <2>3. \A j \in T : j - k \in S /\ (j - k) + k = j
    <3> SUFFICES ASSUME NEW j \in T PROVE j - k \in S /\ (j - k) + k = j
      OBVIOUS
    <3>1. j \in 1 .. n /\ f[j] <= a - 1 /\ f[j] \in Nat
      BY <1>1
    <3>2. j \notin Leaving(f)
      BY <1>1, <3>1 DEF Leaving
    <3>3. j - k \in 1 .. n - k /\ (j - k) + k = j
      BY <1>1, <3>1, <3>2
    <3>4. g[j - k] = f[j] + 1
      BY <1>3, <3>3
    <3> QED BY <1>1, <1>4, <3>1, <3>3, <3>4
  <2>4. \A i, j \in S : i + k = j + k => i = j
    <3> SUFFICES ASSUME NEW i \in S, NEW j \in S, i + k = j + k PROVE i = j
      OBVIOUS
    <3>1. i \in Int /\ j \in Int /\ k \in Int
      BY <1>1, <2>1
    <3> QED BY <3>1
  <2>5. IsFiniteSet(S)
    BY <1>1, <2>1, SomePlaces
  <2> HIDE DEF S, T
  <2>6. h \in Bijection(S, T)
    <3>1. h \in [S -> T]
      BY <2>2
    <3>2. \A i, j \in S : h[i] = h[j] => i = j
      BY <2>4
    <3>3. \A j \in T : \E i \in S : h[i] = j
      BY <2>3
    <3> QED BY <3>1, <3>2, <3>3, Fun_IsBij
  <2>7. ExistsBijection(S, T)
    BY <2>6 DEF ExistsBijection
  <2>8. Cardinality(T) = Cardinality(S)
    BY <2>5, <2>7, FS_Bijection
  <2> QED BY <2>8 DEF Count, S, T
<1> QED BY <1>4, <1>5, <1>6, <1>7

\* A new entry.
LEMMA OneMore ==
  ASSUME NEW f \in Seq(0 .. Window - 1), Sorted(f)
  PROVE  /\ Append(f, 0) \in Seq(0 .. Window - 1) /\ Sorted(Append(f, 0))
         /\ \A a \in Nat : Count(Append(f, 0), a) = Count(f, a) + 1 /\ Count(f, a) \in Nat
<1> DEFINE n == Len(f)
           g == Append(f, 0)
<1>1. /\ n \in Nat /\ DOMAIN f = 1 .. n /\ (\A i \in 1 .. n : f[i] \in 0 .. Window - 1)
      /\ Window \in Nat /\ Window > 0
  BY GuardedAssumption
<1>2. /\ g \in Seq(0 .. Window - 1) /\ DOMAIN g = 1 .. n + 1 /\ g[n + 1] = 0
      /\ \A i \in 1 .. n : g[i] = f[i]
  <2>1. 0 \in 0 .. Window - 1
    BY <1>1
  <2> DEFINE V == 0 .. Window - 1
  <2>2. f \in Seq(V) /\ 0 \in V
    BY <2>1
  <2> HIDE DEF V
  <2>3. g \in Seq(V) /\ Len(g) = n + 1
    BY <2>2
  <2>5. g[n + 1] = 0 /\ \A i \in 1 .. n : g[i] = f[i]
    BY <2>2
  <2>4. DOMAIN g = 1 .. n + 1
    BY <2>3
  <2> QED BY <2>3, <2>4, <2>5 DEF V
<1> HIDE DEF g
<1>3. Sorted(g)
  BY <1>1, <1>2 DEF Sorted
<1>4. ASSUME NEW a \in Nat PROVE Count(g, a) = Count(f, a) + 1 /\ Count(f, a) \in Nat
  <2> DEFINE T == {i \in DOMAIN f : f[i] <= a}
  <2>1. {i \in DOMAIN g : g[i] <= a} = T \cup {n + 1} /\ n + 1 \notin T
    BY <1>1, <1>2
  <2>2. T \subseteq 1 .. n
    BY <1>1
  <2>3. IsFiniteSet(T)
    BY <1>1, <2>2, SomePlaces
  <2> HIDE DEF T
  <2>4. Cardinality(T \cup {n + 1}) = Cardinality(T) + 1 /\ Cardinality(T) \in Nat
    BY <2>1, <2>3, FS_AddElement, FS_CardinalityType
  <2> QED BY <2>1, <2>4 DEF Count, T
<1> QED BY <1>2, <1>3, <1>4 DEF g

\* A reservation and what it may be.
Entry == [age : 0 .. Window - 1, size : Sizes]

\* What a token that is spent is made of.
LEMMA SpentMeans ==
  ASSUME NEW q \in Seq(Entry)
  PROVE  /\ DOMAIN q = 1 .. Len(q) /\ Len(q) \in Nat
         /\ \A i \in 1 .. Len(q) : q[i].age \in 0 .. Window - 1 /\ q[i].size \in Sizes /\ q[i].size \in Nat
         /\ \A p : p \in Spent(q) <=>
              \E i \in 1 .. Len(q) : \E x \in 1 .. q[i].size : p = <<i, x>>
<1>1. DOMAIN q = 1 .. Len(q) /\ Len(q) \in Nat /\ \A i \in 1 .. Len(q) : q[i] \in Entry
  OBVIOUS
<1>2. \A e \in Entry : e.age \in 0 .. Window - 1 /\ e.size \in Sizes /\ e.size \in Nat
  BY GuardedAssumption DEF Entry
<1>3. ASSUME NEW p
      PROVE  p \in Spent(q) <=> \E i \in 1 .. Len(q) : \E x \in 1 .. q[i].size : p = <<i, x>>
  <2>1. p \in Spent(q) <=> \E i \in 1 .. Len(q) : p \in {i} \X (1 .. q[i].size)
    BY <1>1 DEF Spent
  <2>2. \A i \in 1 .. Len(q) :
          p \in {i} \X (1 .. q[i].size) <=> \E x \in 1 .. q[i].size : p = <<i, x>>
    OBVIOUS
  <2> QED BY <2>1, <2>2
<1> QED BY <1>1, <1>2, <1>3

\* A reservation spends its size.
LEMMA SpendMore ==
  ASSUME NEW q \in Seq(Entry), IsFiniteSet(Spent(q)), NEW size \in Sizes
  PROVE  LET r == Append(q, [age |-> 0, size |-> size])
         IN /\ r \in Seq(Entry) /\ Len(r) = Len(q) + 1
            /\ IsFiniteSet(Spent(r)) /\ Cardinality(Spent(r)) = Cardinality(Spent(q)) + size
            /\ [i \in DOMAIN r |-> r[i].age] = Append([i \in DOMAIN q |-> q[i].age], 0)
<1> DEFINE e == [age |-> 0, size |-> size]
           r == Append(q, e)
           n == Len(q)
           New == {n + 1} \X (1 .. size)
<1>1. e \in Entry /\ e.age = 0 /\ e.size = size
  BY GuardedAssumption DEF Entry
<1>2. size \in Nat
  BY GuardedAssumption
<1> HIDE DEF e
<1>3. /\ r \in Seq(Entry) /\ Len(r) = n + 1 /\ n \in Nat /\ DOMAIN r = 1 .. n + 1 /\ DOMAIN q = 1 .. n
      /\ r[n + 1] = e /\ \A i \in 1 .. n : r[i] = q[i]
  <2>1. r \in Seq(Entry) /\ Len(r) = n + 1 /\ n \in Nat /\ DOMAIN q = 1 .. n
    BY <1>1
  <2>2. DOMAIN r = 1 .. n + 1
    BY <2>1
  <2>3. r[n + 1] = e /\ \A i \in 1 .. n : r[i] = q[i]
    BY <1>1
  <2> QED BY <2>1, <2>2, <2>3
<1> HIDE DEF r
<1>4. /\ \A p : p \in Spent(q) <=> \E i \in 1 .. n : \E x \in 1 .. q[i].size : p = <<i, x>>
      /\ \A p : p \in Spent(r) <=> \E i \in 1 .. n + 1 : \E x \in 1 .. r[i].size : p = <<i, x>>
  BY <1>3, SpentMeans
<1>5. Spent(r) = Spent(q) \cup New
  <2>1. ASSUME NEW p PROVE p \in Spent(r) <=> p \in Spent(q) \/ p \in New
    <3>1. p \in New <=> \E x \in 1 .. size : p = <<n + 1, x>>
      OBVIOUS
    <3>2. (\E i \in 1 .. n + 1 : \E x \in 1 .. r[i].size : p = <<i, x>>) <=>
            \/ \E i \in 1 .. n : \E x \in 1 .. q[i].size : p = <<i, x>>
            \/ \E x \in 1 .. size : p = <<n + 1, x>>
      <4>1. \A i : i \in 1 .. n + 1 <=> i \in 1 .. n \/ i = n + 1
        BY <1>3
      <4>2. r[n + 1].size = size /\ \A i \in 1 .. n : r[i].size = q[i].size
        BY <1>1, <1>3
      <4> HIDE DEF n
      <4> QED BY <4>1, <4>2
    <3> QED BY <1>4, <3>1, <3>2
  <2> QED BY <2>1
<1>6. Spent(q) \cap New = {}
  <2> SUFFICES ASSUME NEW p, p \in Spent(q), p \in New PROVE FALSE
    OBVIOUS
  <2>1. PICK i \in 1 .. n : \E x \in 1 .. q[i].size : p = <<i, x>>
    BY <1>4
  <2>2. p[1] = i /\ p[1] = n + 1
    BY <2>1
  <2> QED BY <1>3, <2>1, <2>2
<1>7. IsFiniteSet(New) /\ Cardinality(New) = size
  <2>1. IsFiniteSet({n + 1}) /\ Cardinality({n + 1}) = 1
    BY FS_Singleton
  <2>2. IsFiniteSet(1 .. size) /\ Cardinality(1 .. size) = size
    BY <1>2, FS_Interval
  <2>3. IsFiniteSet(New) /\ Cardinality(New) = 1 * size
    BY <2>1, <2>2, FS_Product
  <2> QED BY <1>2, <2>3
<1> HIDE DEF New
<1>8. IsFiniteSet(Spent(r)) /\ Cardinality(Spent(r)) = Cardinality(Spent(q)) + size
  <2>1. /\ IsFiniteSet(Spent(q) \cup New)
        /\ Cardinality(Spent(q) \cup New) =
             Cardinality(Spent(q)) + Cardinality(New) - Cardinality(Spent(q) \cap New)
    BY <1>7, FS_Union
  <2>2. Cardinality(Spent(q) \cap New) = 0 /\ Cardinality(Spent(q)) \in Nat
    BY <1>6, FS_EmptySet, FS_CardinalityType
  <2> QED BY <1>2, <1>5, <1>7, <2>1, <2>2
<1>9. [i \in DOMAIN r |-> r[i].age] = Append([i \in DOMAIN q |-> q[i].age], 0)
  <2> DEFINE f == [i \in DOMAIN q |-> q[i].age]
             g == [i \in DOMAIN r |-> r[i].age]
             h == Append(f, 0)
  <2>1. f \in Seq(0 .. Window - 1) /\ Len(f) = n
    <3> DEFINE V == 0 .. Window - 1
    <3>1. f \in [1 .. n -> V]
      BY <1>3, SpentMeans
    <3> HIDE DEF f, V
    <3>2. f \in Seq(V)
      BY <1>3, <3>1, SeqDef
    <3>3. Len(f) = n
      BY <1>3, <3>1, <3>2
    <3> QED BY <3>2, <3>3 DEF V
  <2>2. \A i \in 1 .. n : f[i] = q[i].age
    BY <1>3
  <2>3. DOMAIN g = 1 .. n + 1 /\ \A i \in 1 .. n + 1 : g[i] = r[i].age
    BY <1>3
  <2>4. g = [i \in 1 .. n + 1 |-> g[i]]
    BY <1>3
  <2> HIDE DEF f, g
  <2>5. /\ Len(h) = n + 1 /\ h[n + 1] = 0 /\ \A i \in 1 .. n : h[i] = f[i]
        /\ h = [i \in 1 .. n + 1 |-> h[i]]
    <3> DEFINE V == 0 .. Window - 1
    <3>1. f \in Seq(V) /\ 0 \in V
      BY <2>1, GuardedAssumption
    <3> HIDE DEF V
    <3>2. h \in Seq(V) /\ Len(h) = Len(f) + 1
      BY <3>1
    <3>3. h[Len(f) + 1] = 0 /\ \A i \in 1 .. Len(f) : h[i] = f[i]
      BY <3>1
    <3>4. h = [i \in 1 .. Len(h) |-> h[i]]
      <4> HIDE DEF h
      <4> QED BY <3>2
    <3> QED BY <2>1, <3>2, <3>3, <3>4
  <2> HIDE DEF h
  <2>7. \A i \in 1 .. n + 1 : g[i] = h[i]
    <3>1. ASSUME NEW i \in 1 .. n PROVE g[i] = h[i]
      <4>1. g[i] = r[i].age
        BY <1>3, <2>3
      <4>2. r[i] = q[i] /\ f[i] = q[i].age
        BY <1>3, <2>2
      <4>3. h[i] = f[i]
        BY <2>5
      <4> QED BY <4>1, <4>2, <4>3
    <3>2. g[n + 1] = h[n + 1]
      BY <1>1, <1>3, <2>3, <2>5
    <3> QED BY <1>3, <3>1, <3>2
  <2>8. g = h
    BY <2>4, <2>5, <2>7
  <2> QED BY <2>8 DEF f, g, h
<1> QED BY <1>3, <1>8, <1>9 DEF r, e

\* What leaves the window gives its tokens back, and nothing else does.
LEMMA SpendLess ==
  ASSUME NEW q \in Seq(Entry), IsFiniteSet(Spent(q)), NEW k \in 0 .. Len(q),
         NEW r \in Seq(Entry), Len(r) = Len(q) - k,
         \A i \in 1 .. Len(q) - k : r[i].size = q[i + k].size
  PROVE  IsFiniteSet(Spent(r)) /\ Cardinality(Spent(r)) <= Cardinality(Spent(q))
<1> DEFINE h == [p \in Spent(r) |-> <<p[1] + k, p[2]>>]
           m == Len(q) - k
<1>1. /\ Len(q) \in Nat /\ m \in Nat /\ k \in Nat /\ Len(r) = m
      /\ \A i \in 1 .. m : i + k \in 1 .. Len(q) /\ r[i].size = q[i + k].size
  OBVIOUS
<1> HIDE DEF m
<1>2. /\ \A p : p \in Spent(q) <=> \E i \in 1 .. Len(q) : \E x \in 1 .. q[i].size : p = <<i, x>>
      /\ \A p : p \in Spent(r) <=> \E i \in 1 .. m : \E x \in 1 .. r[i].size : p = <<i, x>>
  BY <1>1, SpentMeans
<1>3. ASSUME NEW p \in Spent(r)
      PROVE  <<p[1] + k, p[2]>> \in Spent(q) /\ p[1] \in 1 .. m /\ p = <<p[1], p[2]>>
  <2>0. PICK i \in 1 .. m : \E x \in 1 .. r[i].size : p = <<i, x>>
    BY <1>2
  <2>1. PICK x \in 1 .. r[i].size : p = <<i, x>>
    BY <2>0
  <2>2. p[1] = i /\ p[2] = x
    BY <2>1
  <2>3. i + k \in 1 .. Len(q) /\ x \in 1 .. q[i + k].size
    BY <1>1, <2>1
  <2>4. <<i + k, x>> \in Spent(q)
    BY <1>2, <2>3
  <2>5. <<p[1] + k, p[2]>> = <<i + k, x>> /\ <<p[1], p[2]>> = <<i, x>>
    BY <2>2
  <2> QED BY <2>1, <2>2, <2>4, <2>5
<1>4. h \in [Spent(r) -> Spent(q)]
  BY <1>3
<1>5. ASSUME NEW p \in Spent(r), NEW o \in Spent(r), h[p] = h[o] PROVE p = o
  <2>1. <<p[1] + k, p[2]>> = <<o[1] + k, o[2]>>
    BY <1>5
  <2>2. p[1] + k = o[1] + k /\ p[2] = o[2]
    BY <2>1
  <2>3. p[1] \in Int /\ o[1] \in Int
    <3>1. p[1] \in 1 .. m /\ o[1] \in 1 .. m
      BY <1>3
    <3> HIDE DEF h
    <3> QED BY <1>1, <3>1
  <2>4. p[1] = o[1]
    BY <1>1, <2>2, <2>3
  <2> QED BY <1>3, <2>2, <2>4
<1>6. h \in Injection(Spent(r), Spent(q))
  BY <1>4, <1>5, Fun_IsInj
<1> QED BY <1>6, FS_Injection

-----------------------------------------------------------------------------
(* Attempts                                                                *)

\* What a call may still do: its attempts are counted from its first one, also while it
\* waits for the next; what may have had an effect has one attempt.
Bounded(x) ==
  /\ x.stage = "idle" => x = NoCall
  /\ x.stage \in {"budget", "slot", "wire", "backoff"} =>
       x.tool = {} /\ x.size \in Sizes /\ x.attempt <= LLMAttempts
  /\ x.stage = "backoff" => x.attempt < LLMAttempts
  /\ x.stage \in {"tool", "toolBackoff"} =>
       \E t \in Tool : /\ x.tool = {t} /\ x.attempt <= ToolAttempts
                       /\ t \in Remote => x.attempt <= 1 /\ x.stage = "tool"
  /\ x.stage = "toolBackoff" => x.attempt < ToolAttempts

AttemptsOK == \A c \in Caller : Bounded(call[c])

\* Every step moves at most one call, and keeps it within its attempts; only a
\* reservation makes a task wait for a slot, only a slot puts it on the wire.
LEMMA CallMoves ==
  ASSUME CallsOK, AttemptsOK, [Next]_vars
  PROVE  \/ call' = call
         \/ \E c \in Caller : \E new \in Call :
              /\ call' = [call EXCEPT ![c] = new] /\ Bounded(new)
              /\ new.stage = "slot" => Reserve(c)
              /\ new.stage = "wire" => TakeSlot(c)
<1> DEFINE Moves(c) == \E new \in Call : /\ call' = [call EXCEPT ![c] = new] /\ Bounded(new)
                                         /\ new.stage = "slot" => Reserve(c)
                                         /\ new.stage = "wire" => TakeSlot(c)
<1>1. ASSUME NEW c \in Caller, Returns(c) PROVE Moves(c)
  <2>1. NoCall \in Call /\ Bounded(NoCall) /\ NoCall.stage \notin {"slot", "wire"}
    BY DEF NoCall, Call, Bounded
  <2> QED BY <1>1, <2>1 DEF Returns
<1>2. ASSUME NEW c \in Caller, NEW stage \in Later \cup {"wire"}, Waits(c, stage),
             Bounded([stage |-> stage, attempt |-> call[c].attempt,
                      size |-> call[c].size, tool |-> call[c].tool]),
             stage = "slot" => Reserve(c), stage = "wire" => TakeSlot(c)
      PROVE  Moves(c)
  <2>1. PICK new \in Call : /\ call' = [call EXCEPT ![c] = new]
                            /\ new = [stage |-> stage, attempt |-> call[c].attempt,
                                      size |-> call[c].size, tool |-> call[c].tool]
    BY <1>2, WaitsMeans
  <2>2. new.stage = stage
    BY <2>1
  <2> QED BY <1>2, <2>1, <2>2
<1>3. ASSUME NEW c \in Caller, NEW stage \in Later, NextAttempt(c, stage),
             Bounded([stage |-> stage, attempt |-> call[c].attempt + 1,
                      size |-> call[c].size, tool |-> call[c].tool]),
             stage \notin {"slot", "wire"}
      PROVE  Moves(c)
  <2> DEFINE new == [stage |-> stage, attempt |-> call[c].attempt + 1,
                     size |-> call[c].size, tool |-> call[c].tool]
  <2>1. call[c].attempt \in Nat /\ call[c].size \in Nat /\ call[c].tool \in SUBSET Tool
    BY CallShape
  <2>2. new \in Call /\ new.stage = stage
    <3>1. call[c].attempt + 1 \in Nat
      BY <2>1
    <3> QED BY <2>1, <3>1 DEF Call, Later
  <2>3. call' = [call EXCEPT ![c] = new] /\ Bounded(new)
    BY <1>3 DEF NextAttempt
  <2> HIDE DEF new
  <2> QED BY <1>3, <2>2, <2>3
<1> HIDE DEF Moves
<1>4. ASSUME NEW c \in Caller
      PROVE  Bounded(call[c]) /\ call[c].attempt \in Nat /\ call[c].size \in Nat
  BY CallShape DEF AttemptsOK
<1>5. ASSUME NEW c \in Caller, Ask(c) PROVE Moves(c)
  <2>1. PICK size \in Sizes : call' = [call EXCEPT ![c] =
          [stage |-> "budget", attempt |-> 1, size |-> size, tool |-> {}]]
    BY <1>5 DEF Ask
  <2> DEFINE new == [stage |-> "budget", attempt |-> 1, size |-> size, tool |-> {}]
  <2>2. new \in Call /\ new.stage = "budget" /\ Bounded(new)
    BY GuardedAssumption DEF Call, Bounded
  <2>3. call' = [call EXCEPT ![c] = new]
    BY <2>1
  <2> HIDE DEF new
  <2> QED BY <2>2, <2>3 DEF Moves
<1>6. ASSUME NEW c \in Caller, Reserve(c) PROVE Moves(c)
  <2>1. Waits(c, "slot") /\ call[c].stage = "budget"
    BY <1>6 DEF Reserve
  <2> QED BY <1>2, <1>4, <1>6, <2>1 DEF Bounded, Later
<1>7. ASSUME NEW c \in Caller, TakeSlot(c) PROVE Moves(c)
  <2>1. Waits(c, "wire") /\ call[c].stage = "slot"
    BY <1>7 DEF TakeSlot
  <2> QED BY <1>2, <1>4, <1>7, <2>1 DEF Bounded, Later
<1>8. ASSUME NEW c \in Caller, RequestFails(c) \/ OversizedFails(c) PROVE Moves(c)
  <2>1. Retries(c, LLMAttempts) /\ call[c].stage \in {"wire", "budget"}
    BY <1>8 DEF RequestFails, OversizedFails
  <2>2. CASE Returns(c)
    BY <1>1, <2>2
  <2>3. CASE call[c].attempt < LLMAttempts /\ Waits(c, "backoff")
    BY <1>2, <1>4, <2>1, <2>3 DEF Bounded, Later
  <2> QED BY <2>1, <2>2, <2>3 DEF Retries
<1>9. ASSUME NEW c \in Caller, Resume(c) PROVE Moves(c)
  <2>1. NextAttempt(c, "budget") /\ call[c].stage = "backoff"
    BY <1>9 DEF Resume
  <2>2. call[c].attempt + 1 <= LLMAttempts
    BY <1>4, <2>1, GuardedAssumption DEF Bounded
  <2> QED BY <1>3, <1>4, <2>1, <2>2 DEF Bounded, Later
<1>10. ASSUME NEW c \in Caller, ToolResumes(c) PROVE Moves(c)
  <2>1. NextAttempt(c, "tool") /\ call[c].stage = "toolBackoff"
    BY <1>10 DEF ToolResumes
  <2>2. call[c].attempt + 1 <= ToolAttempts
    BY <1>4, <2>1, GuardedAssumption DEF Bounded
  <2> QED BY <1>3, <1>4, <2>1, <2>2 DEF Bounded, Later
<1>11. ASSUME NEW c \in Caller, NEW t \in Tool, Execute(c, t) PROVE Moves(c)
  <2> DEFINE new == [stage |-> "tool", attempt |-> 1, size |-> 0, tool |-> {t}]
  <2>1. call' = [call EXCEPT ![c] = new]
    BY <1>11 DEF Execute
  <2>2. new \in Call /\ new.stage = "tool" /\ Bounded(new)
    BY GuardedAssumption DEF Call, Bounded
  <2> HIDE DEF new
  <2> QED BY <2>1, <2>2 DEF Moves
<1>12. ASSUME NEW c \in Caller, NEW t \in Tool, ToolRetries(c, t) PROVE Moves(c)
  <2>1. /\ Waits(c, "toolBackoff") /\ call[c].stage = "tool" /\ t \in call[c].tool
        /\ t \in BuiltIn /\ call[c].attempt < ToolAttempts
    BY <1>12 DEF ToolRetries, RetryAllowed
  <2>2. t \notin Remote
    BY <2>1, GuardedAssumption
  <2>3. \E u \in Tool : call[c].tool = {u} /\ call[c].attempt <= ToolAttempts
    BY <1>4, <2>1 DEF Bounded
  <2>4. call[c].tool = {t}
    BY <2>1, <2>3
  <2> QED BY <1>2, <1>4, <2>1, <2>2, <2>3, <2>4 DEF Bounded, Later
<1>13. ASSUME NEW c \in Caller, Replied(c) \/ Cancel(c) PROVE Moves(c)
  BY <1>1, <1>13 DEF Replied, Cancel
<1>14. ASSUME NEW c \in Caller, NEW t \in Tool, ToolAnswers(c, t) \/ ToolFails(c, t)
       PROVE  Moves(c)
  BY <1>1, <1>14 DEF ToolAnswers, ToolFails
<1>15. ASSUME NEW c \in Caller, NEW t \in Tool, UnknownParams(c, t) PROVE call' = call
  BY <1>15 DEF UnknownParams
<1>16. ASSUME Connect \/ ConnectFails \/ Disconnect \/ Tick \/ UNCHANGED vars
       PROVE  call' = call
  BY <1>16 DEF Connect, ConnectFails, Disconnect, Tick, vars
<1>r. ASSUME NEW c \in Caller, Resend(c) PROVE call' = call
  BY <1>r DEF Resend
<1>17. ASSUME NEW c \in Caller,
              \/ Ask(c) \/ Reserve(c) \/ TakeSlot(c) \/ Replied(c) \/ RequestFails(c)
              \/ OversizedFails(c) \/ Resume(c) \/ ToolResumes(c) \/ Cancel(c)
       PROVE  Moves(c)
  BY <1>5, <1>6, <1>7, <1>8, <1>9, <1>10, <1>13, <1>17
<1>18. ASSUME NEW c \in Caller, NEW t \in Tool,
              \/ Execute(c, t) \/ UnknownParams(c, t) \/ ToolAnswers(c, t)
              \/ ToolRetries(c, t) \/ ToolFails(c, t)
       PROVE  Moves(c) \/ call' = call
  BY <1>11, <1>12, <1>14, <1>15, <1>18
<1>19. call' = call \/ \E c \in Caller : Moves(c)
  <2>1. CASE UNCHANGED vars
    BY <1>16, <2>1
  <2>2. CASE Connect \/ ConnectFails \/ Disconnect \/ Tick
    BY <1>16, <2>2
  <2>3. ASSUME NEW c \in Caller,
               \/ Ask(c) \/ Reserve(c) \/ TakeSlot(c) \/ Replied(c) \/ RequestFails(c)
               \/ OversizedFails(c) \/ Resume(c) \/ ToolResumes(c) \/ Cancel(c)
        PROVE  \E d \in Caller : Moves(d)
    BY <1>17, <2>3
  <2>4. ASSUME NEW c \in Caller, NEW t \in Tool,
               \/ Execute(c, t) \/ UnknownParams(c, t) \/ ToolAnswers(c, t)
               \/ ToolRetries(c, t) \/ ToolFails(c, t)
        PROVE  (\E d \in Caller : Moves(d)) \/ call' = call
    BY <1>18, <2>4
  <2> QED BY <1>r, <2>1, <2>2, <2>3, <2>4 DEF Next
<1> QED BY <1>19 DEF Moves

-----------------------------------------------------------------------------
(* The rate                                                                *)

Ages == [i \in DOMAIN reserved |-> reserved[i].age]

\* The requests that may still go to the provider on reservations made: those of the
\* tasks that wait for a slot and the repetitions of those that are on the wire.
Owes(c, k) ==
  \/ call[c].stage = "slot" /\ resent[c] <= k
  \/ call[c].stage = "wire" /\ resent[c] < k
Owed == {p \in Caller \X (0 .. SdkRetries) : Owes(p[1], p[2])}

\* What so many reservations of a window, and one of each task from before, may send.
Quota(n) == (1 + SdkRetries) * (n + Cardinality(Caller))

\* The queues are sorted and within their budget; and for every age, the requests sent
\* since then and those that may go out at any moment are no more than the reservations
\* since then and one for each task may send.
RateInv ==
  /\ reserved \in Seq(Entry) /\ sent \in Seq(0 .. Window - 1)
  /\ resent \in [Caller -> 0 .. SdkRetries]
  /\ Sorted(Ages) /\ Sorted(sent)
  /\ RequestsPerMinute # 0 => Len(reserved) <= RequestsPerMinute
  /\ IsFiniteSet(Spent(reserved)) /\ (TokensPerMinute # 0 => Tokens <= TokensPerMinute)
  /\ \A a \in 0 .. Window - 1 : Count(sent, a) + Cardinality(Owed) <= Quota(Count(Ages, a))

\* The quota grows by what one reservation may send.
LEMMA QuotaGrows ==
  /\ Cardinality(Caller) \in Nat
  /\ \A n \in Nat : Quota(n) \in Nat /\ Quota(n + 1) = Quota(n) + 1 + SdkRetries
  /\ \A m, n \in Nat : m <= n => Quota(m) <= Quota(n)
<1>1. Cardinality(Caller) \in Nat /\ SdkRetries \in Nat
  BY GuardedAssumption, FS_CardinalityType
<1> DEFINE C == Cardinality(Caller)
<1> HIDE DEF C
<1>2. C \in Nat /\ \A n \in Nat : Quota(n) = (1 + SdkRetries) * (n + C)
  BY <1>1 DEF Quota, C
<1>3. \A n \in Nat : Quota(n) \in Nat /\ Quota(n + 1) = Quota(n) + 1 + SdkRetries
  BY <1>1, <1>2
<1>4. ASSUME NEW m \in Nat, NEW n \in Nat, m <= n PROVE Quota(m) <= Quota(n)
  <2>1. n - m \in Nat /\ (1 + SdkRetries) * (n - m) \in Nat
    BY <1>1, <1>4
  <2>2. Quota(n) = Quota(m) + (1 + SdkRetries) * (n - m)
    BY <1>1, <1>2
  <2> QED BY <1>3, <2>1, <2>2
<1> QED BY <1>1, <1>3, <1>4

\* What is owed, pair by pair.
LEMMA OwedMeans ==
  /\ \A c \in Caller, k \in 0 .. SdkRetries : <<c, k>> \in Owed <=> Owes(c, k)
  /\ \A p \in Owed : \E c \in Caller, k \in 0 .. SdkRetries : p = <<c, k>> /\ Owes(c, k)
BY DEF Owed

\* The ages of the reservations.
LEMMA AgesAre ==
  ASSUME NEW q \in Seq(Entry)
  PROVE  LET f == [i \in DOMAIN q |-> q[i].age]
         IN f \in Seq(0 .. Window - 1) /\ Len(f) = Len(q) /\ \A i \in 1 .. Len(q) : f[i] = q[i].age
<1> DEFINE V == 0 .. Window - 1
           f == [i \in DOMAIN q |-> q[i].age]
<1>1. DOMAIN q = 1 .. Len(q) /\ Len(q) \in Nat /\ \A i \in 1 .. Len(q) : q[i].age \in V
  BY SpentMeans
<1> HIDE DEF V
<1>2. f \in [1 .. Len(q) -> V] /\ \A i \in 1 .. Len(q) : f[i] = q[i].age
  BY <1>1
<1> HIDE DEF f
<1>3. f \in Seq(V)
  BY <1>1, <1>2, SeqDef
<1>4. Len(f) = Len(q)
  BY <1>1, <1>2, <1>3
<1> QED BY <1>2, <1>3, <1>4 DEF f, V

\* How many entries, how many tasks: they can be counted.
LEMMA CountIsNat ==
  ASSUME NEW f \in Seq(0 .. Window - 1), NEW a
  PROVE  Count(f, a) \in Nat /\ Count(f, a) <= Len(f)
<1>1. DOMAIN f = 1 .. Len(f) /\ Len(f) \in Nat
  OBVIOUS
<1> DEFINE T == {i \in DOMAIN f : f[i] <= a}
<1>2. T \in SUBSET (1 .. Len(f)) /\ T \subseteq 1 .. Len(f)
  BY <1>1
<1> HIDE DEF T
<1>3. IsFiniteSet(1 .. Len(f)) /\ Cardinality(1 .. Len(f)) = Len(f)
  BY <1>1, FS_Interval
<1>4. IsFiniteSet(T) /\ Cardinality(T) <= Len(f)
  BY <1>2, <1>3, FS_Subset
<1> QED BY <1>4, FS_CardinalityType DEF Count, T

\* What is owed can be counted, and is never more than the quota of no reservation.
LEMMA OwedIsFinite ==
  /\ IsFiniteSet(Owed) /\ Cardinality(Owed) \in Nat /\ Cardinality(Owed) <= Quota(0)
<1>1. IsFiniteSet(Caller) /\ SdkRetries \in Nat
  BY GuardedAssumption
<1>2. IsFiniteSet(0 .. SdkRetries) /\ Cardinality(0 .. SdkRetries) = 1 + SdkRetries
  BY <1>1, FS_Interval
<1> DEFINE K == 0 .. SdkRetries
<1> HIDE DEF K
<1>3. /\ IsFiniteSet(Caller \X K)
      /\ Cardinality(Caller \X K) = Cardinality(Caller) * (1 + SdkRetries)
  BY <1>1, <1>2, FS_Product DEF K
<1>4. Cardinality(Caller) * (1 + SdkRetries) = Quota(0)
  BY <1>1, QuotaGrows DEF Quota
<1>5. Owed \in SUBSET (Caller \X K)
  BY DEF Owed, K
<1> QED BY <1>3, <1>4, <1>5, FS_Subset, FS_CardinalityType

\* A step of one call that neither waits for a slot nor takes one owes no more.
LEMMA OwesNoMore ==
  ASSUME CallsOK, RateInv, NEW c \in Caller, NEW new \in Call,
         call' = [call EXCEPT ![c] = new], new.stage \notin {"slot", "wire"},
         resent' = resent \/ resent' = [resent EXCEPT ![c] = 0]
  PROVE  Owed' \subseteq Owed /\ resent' \in [Caller -> 0 .. SdkRetries]
<1>1. call'[c] = new /\ \A d \in Caller \ {c} : call'[d] = call[d] /\ resent'[d] = resent[d]
  BY DEF CallsOK, RateInv
<1>2. resent' \in [Caller -> 0 .. SdkRetries]
  BY GuardedAssumption DEF RateInv
<1>3. ASSUME NEW d \in Caller, NEW k \in 0 .. SdkRetries, Owes(d, k)' PROVE Owes(d, k)
  BY <1>1, <1>3 DEF Owes
<1> QED BY <1>2, <1>3 DEF Owed

\* A reservation: one more on either side.
LEMMA ReserveKeepsRate ==
  ASSUME CallsOK, RateInv, AttemptsOK, NEW c \in Caller, Reserve(c)
  PROVE  RateInv'
<1> DEFINE size == call[c].size
           r == Append(reserved, [age |-> 0, size |-> size])
<1>1. /\ call[c].stage = "budget" /\ Fits(size) /\ reserved' = r /\ sent' = sent
      /\ Waits(c, "slot") /\ resent' = resent
  BY DEF Reserve
<1>2. size \in Sizes /\ size \in Nat
  BY <1>1, GuardedAssumption DEF AttemptsOK, Bounded
<1>3. /\ reserved \in Seq(Entry) /\ sent \in Seq(0 .. Window - 1)
      /\ IsFiniteSet(Spent(reserved)) /\ Sorted(Ages) /\ Sorted(sent)
      /\ resent \in [Caller -> 0 .. SdkRetries]
  BY DEF RateInv
<1>4. /\ reserved' \in Seq(Entry) /\ Len(reserved') = Len(reserved) + 1
      /\ IsFiniteSet(Spent(reserved')) /\ Cardinality(Spent(reserved')) = Tokens + size
      /\ Ages' = Append(Ages, 0)
  BY <1>1, <1>2, <1>3, SpendMore DEF Tokens, Ages
<1> HIDE DEF r, size
<1>5. Ages \in Seq(0 .. Window - 1)
  BY <1>3, AgesAre DEF Ages
<1>6. Sorted(Ages') /\ \A a \in Nat : Count(Ages', a) = Count(Ages, a) + 1 /\ Count(Ages, a) \in Nat
  BY <1>3, <1>4, <1>5, OneMore
<1>7. Cardinality(Owed') <= Cardinality(Owed) + 1 + SdkRetries /\ Cardinality(Owed') \in Nat
  <2>1. PICK new \in Call : call' = [call EXCEPT ![c] = new] /\ new.stage = "slot"
    BY <1>1, WaitsMeans DEF Later
  <2>2. \A d \in Caller \ {c} : call'[d] = call[d]
    BY <2>1 DEF CallsOK
  <2> DEFINE Own == {c} \X (0 .. SdkRetries)
  <2>3. Owed' \subseteq Owed \cup Own
    <3>1. ASSUME NEW p \in Owed' PROVE p \in Owed \cup Own
      <4>1. PICK d \in Caller, k \in 0 .. SdkRetries : p = <<d, k>> /\ Owes(d, k)'
        BY OwedMeans, <3>1 DEF Owed
      <4>2. CASE d = c
        BY <4>1, <4>2
      <4>3. CASE d # c
        BY <1>1, <2>2, <4>1, <4>3, OwedMeans DEF Owes
      <4> QED BY <4>2, <4>3
    <3> QED BY <3>1
  <2>4. IsFiniteSet(Own) /\ Cardinality(Own) = 1 + SdkRetries
    <3>1. IsFiniteSet({c}) /\ Cardinality({c}) = 1
      BY FS_Singleton
    <3>2. /\ IsFiniteSet(0 .. SdkRetries) /\ Cardinality(0 .. SdkRetries) = 1 + SdkRetries
      BY FS_Interval, GuardedAssumption
    <3>3. IsFiniteSet(Own) /\ Cardinality(Own) = Cardinality({c}) * Cardinality(0 .. SdkRetries)
      BY <3>1, <3>2, FS_Product
    <3> QED BY <3>1, <3>2, <3>3, GuardedAssumption
  <2> HIDE DEF Own
  <2>5. /\ IsFiniteSet(Owed \cup Own)
        /\ Cardinality(Owed \cup Own) <= Cardinality(Owed) + Cardinality(Own)
    <3>1. /\ IsFiniteSet(Owed \cup Own)
          /\ Cardinality(Owed \cup Own)
               = Cardinality(Owed) + Cardinality(Own) - Cardinality(Owed \cap Own)
      BY <2>4, OwedIsFinite, FS_Union
    <3>2. Cardinality(Owed \cap Own) \in Nat
      <4>1. Owed \cap Own \in SUBSET Owed
        OBVIOUS
      <4> QED BY <4>1, OwedIsFinite, FS_Subset, FS_CardinalityType
    <3>3. Cardinality(Owed) \in Nat /\ Cardinality(Own) \in Nat
      BY <2>4, OwedIsFinite, FS_CardinalityType
    <3> QED BY <3>1, <3>2, <3>3
  <2>6. Cardinality(Owed') <= Cardinality(Owed \cup Own) /\ Cardinality(Owed') \in Nat
        /\ Cardinality(Owed \cup Own) \in Nat
    <3>1. Owed' \in SUBSET (Owed \cup Own)
      BY <2>3
    <3> QED BY <2>5, <3>1, FS_Subset, FS_CardinalityType
  <2> QED BY <2>4, <2>5, <2>6, OwedIsFinite, GuardedAssumption
<1>8. RequestsPerMinute # 0 => Len(reserved') <= RequestsPerMinute
  BY <1>1, <1>3, <1>4, GuardedAssumption DEF Fits
<1>9. TokensPerMinute # 0 => Cardinality(Spent(reserved')) <= TokensPerMinute
  BY <1>1, <1>4 DEF Fits
<1>10. ASSUME NEW a \in 0 .. Window - 1
       PROVE  Count(sent', a) + Cardinality(Owed') <= Quota(Count(Ages', a))
  <2>1. Count(sent, a) + Cardinality(Owed) <= Quota(Count(Ages, a))
    BY DEF RateInv
  <2>2. /\ Count(sent, a) \in Nat /\ Count(Ages, a) \in Nat
        /\ Cardinality(Owed) \in Nat /\ a \in Nat
    BY <1>3, <1>5, CountIsNat, OwedIsFinite
  <2>3. Count(Ages', a) = Count(Ages, a) + 1 /\ Count(sent', a) = Count(sent, a)
    BY <1>1, <1>6, <2>2
  <2>4. Quota(Count(Ages', a)) = Quota(Count(Ages, a)) + 1 + SdkRetries
        /\ Quota(Count(Ages, a)) \in Nat /\ SdkRetries \in Nat
    BY <2>2, <2>3, QuotaGrows, GuardedAssumption
  <2> QED BY <1>7, <2>1, <2>2, <2>3, <2>4
<1>11. resent' \in [Caller -> 0 .. SdkRetries]
  BY <1>1, <1>3
<1> QED BY <1>1, <1>3, <1>4, <1>6, <1>8, <1>9, <1>10, <1>11 DEF RateInv, Tokens

\* A request goes out, for the first time or once more: it was owed before.
LEMMA SendKeepsRate ==
  ASSUME CallsOK, RateInv, NEW c \in Caller, TakeSlot(c) \/ Resend(c)
  PROVE  RateInv'
<1>0. SdkRetries \in Nat /\ resent \in [Caller -> 0 .. SdkRetries]
  BY GuardedAssumption DEF RateInv
<1>1. /\ reserved' = reserved /\ sent' = Append(sent, 0)
      /\ resent' \in [Caller -> 0 .. SdkRetries]
  BY <1>0 DEF TakeSlot, Resend
<1>2. /\ reserved \in Seq(Entry) /\ sent \in Seq(0 .. Window - 1) /\ Sorted(sent)
  BY DEF RateInv
<1>3. /\ sent' \in Seq(0 .. Window - 1) /\ Sorted(sent')
      /\ \A a \in Nat : Count(sent', a) = Count(sent, a) + 1 /\ Count(sent, a) \in Nat
  BY <1>1, <1>2, OneMore
<1>4. \E p \in Owed : Owed' \subseteq Owed \ {p}
  <2>1. CASE TakeSlot(c)
    <3>1. PICK new \in Call : call' = [call EXCEPT ![c] = new] /\ new.stage = "wire"
      BY <2>1, WaitsMeans DEF TakeSlot
    <3>2. /\ call'[c].stage = "wire" /\ call[c].stage = "slot" /\ resent' = resent
          /\ \A d \in Caller \ {c} : call'[d] = call[d]
      BY <2>1, <3>1 DEF CallsOK, TakeSlot
    <3>3. <<c, resent[c]>> \in Owed
      BY <1>0, <3>2, OwedMeans DEF Owes
    <3>4. ASSUME NEW d \in Caller, NEW k \in 0 .. SdkRetries, Owes(d, k)'
          PROVE  Owes(d, k) /\ <<d, k>> # <<c, resent[c]>>
      <4>1. CASE d = c
        BY <1>0, <3>2, <3>4, <4>1 DEF Owes
      <4>2. CASE d # c
        BY <3>2, <3>4, <4>2 DEF Owes
      <4> QED BY <4>1, <4>2
    <3>5. Owed' \subseteq Owed \ {<<c, resent[c]>>}
      BY <3>4 DEF Owed
    <3> QED BY <3>3, <3>5
  <2>2. CASE Resend(c)
    <3>1. /\ call' = call /\ call[c].stage = "wire" /\ resent[c] + 1 \in 0 .. SdkRetries
          /\ resent'[c] = resent[c] + 1 /\ \A d \in Caller \ {c} : resent'[d] = resent[d]
      BY <1>0, <2>2 DEF Resend
    <3>2. <<c, resent[c] + 1>> \in Owed
      <4>1. resent[c] < resent[c] + 1
        BY <1>0
      <4> QED BY <3>1, <4>1, OwedMeans DEF Owes
    <3>3. ASSUME NEW d \in Caller, NEW k \in 0 .. SdkRetries, Owes(d, k)'
          PROVE  Owes(d, k) /\ <<d, k>> # <<c, resent[c] + 1>>
      <4>1. CASE d = c
        BY <1>0, <3>1, <3>3, <4>1 DEF Owes
      <4>2. CASE d # c
        BY <3>1, <3>3, <4>2 DEF Owes
      <4> QED BY <4>1, <4>2
    <3>4. Owed' \subseteq Owed \ {<<c, resent[c] + 1>>}
      BY <3>3 DEF Owed
    <3> QED BY <3>2, <3>4
  <2> QED BY <2>1, <2>2
<1>5. Cardinality(Owed') + 1 <= Cardinality(Owed) /\ Cardinality(Owed') \in Nat
  <2>1. PICK p \in Owed : Owed' \subseteq Owed \ {p}
    BY <1>4
  <2>2. IsFiniteSet(Owed \ {p}) /\ Cardinality(Owed \ {p}) = Cardinality(Owed) - 1
    BY <2>1, OwedIsFinite, FS_RemoveElement
  <2>3. Owed' \in SUBSET (Owed \ {p})
    BY <2>1
  <2>4. IsFiniteSet(Owed') /\ Cardinality(Owed') <= Cardinality(Owed \ {p})
    BY <2>2, <2>3, FS_Subset
  <2>5. Cardinality(Owed') \in Nat
    BY <2>4, FS_CardinalityType
  <2> QED BY <2>2, <2>4, <2>5, OwedIsFinite
<1>6. Ages' = Ages /\ Tokens' = Tokens /\ Spent(reserved') = Spent(reserved)
  BY <1>1 DEF Ages, Tokens, Spent
<1>7. ASSUME NEW a \in 0 .. Window - 1
      PROVE  Count(sent', a) + Cardinality(Owed') <= Quota(Count(Ages', a))
  <2>1. Count(sent, a) + Cardinality(Owed) <= Quota(Count(Ages, a))
    BY DEF RateInv
  <2>2. Count(Ages, a) \in Nat /\ a \in Nat
    BY <1>2, AgesAre, CountIsNat DEF Ages
  <2>3. Count(sent', a) = Count(sent, a) + 1 /\ Count(sent, a) \in Nat
    BY <1>3, <2>2
  <2>4. Quota(Count(Ages, a)) \in Nat
    BY <2>2, QuotaGrows
  <2> QED BY <1>5, <1>6, <2>1, <2>3, <2>4, OwedIsFinite
<1> QED BY <1>1, <1>2, <1>3, <1>6, <1>7 DEF RateInv

\* A step that reserves and sends nothing, and after which no more is owed.
LEMMA NothingSent ==
  ASSUME RateInv, reserved' = reserved, sent' = sent, Owed' \subseteq Owed,
         resent' \in [Caller -> 0 .. SdkRetries]
  PROVE  RateInv'
<1>1. Ages' = Ages /\ Tokens' = Tokens /\ Spent(reserved') = Spent(reserved)
  BY DEF Ages, Tokens, Spent
<1>2. Cardinality(Owed') <= Cardinality(Owed) /\ Cardinality(Owed') \in Nat
  BY OwedIsFinite, FS_Subset, FS_CardinalityType
<1>3. ASSUME NEW a \in 0 .. Window - 1
      PROVE  Count(sent', a) + Cardinality(Owed') <= Quota(Count(Ages', a))
  <2>1. Count(sent, a) + Cardinality(Owed) <= Quota(Count(Ages, a))
    BY DEF RateInv
  <2>2. /\ Count(sent, a) \in Nat /\ Count(Ages, a) \in Nat
        /\ Cardinality(Owed) \in Nat /\ Quota(Count(Ages, a)) \in Nat
    BY AgesAre, CountIsNat, OwedIsFinite, QuotaGrows DEF Ages, RateInv
  <2>3. Count(sent', a) = Count(sent, a) /\ Count(Ages', a) = Count(Ages, a)
    BY <1>1
  <2> QED BY <1>1, <1>2, <2>1, <2>2, <2>3
<1> QED BY <1>1, <1>3 DEF RateInv

\* The ages in a queue, and a queue after a tick.
AgesOf(q) == [i \in DOMAIN q |-> q[i].age]
Older(q) ==
  LET rest == Pruned(q, {i \in DOMAIN q : q[i].age + 1 >= Window})
  IN [i \in DOMAIN rest |-> [age |-> rest[i].age + 1, size |-> rest[i].size]]

\* What popleft leaves: the entries from the one after those that leave.
LEMMA Remains ==
  ASSUME NEW S, NEW q \in Seq(S), NEW leaving, NEW k \in 0 .. Len(q),
         Cardinality(leaving) = k, NEW rest, rest = Pruned(q, leaving)
  PROVE  DOMAIN rest = 1 .. Len(q) - k /\ \A i \in 1 .. Len(q) - k : rest[i] = q[i + k]
<1>1. k \in Nat /\ Len(q) \in Nat /\ k <= Len(q)
  OBVIOUS
<1>2. Pruned(q, leaving) = [i \in 1 .. Len(q) - k |-> q[i + k]]
  <2>1. Pruned(q, leaving) = SubSeq(q, k + 1, Len(q))
    BY DEF Pruned
  <2>2. /\ SubSeq(q, k + 1, Len(q)) \in Seq(S)
        /\ Len(SubSeq(q, k + 1, Len(q))) = Len(q) - k
        /\ \A i \in 1 .. Len(q) - k : SubSeq(q, k + 1, Len(q))[i] = q[i + k]
    BY <1>1
  <2> QED BY <2>1, <2>2
<1> QED BY <1>2

\* Ages are numbers.
LEMMA AgesAreNumbers ==
  ASSUME NEW f \in Seq(0 .. Window - 1)
  PROVE  f \in Seq(Nat) /\ Len(f) \in Nat
<1> DEFINE V == 0 .. Window - 1
<1>1. f \in Seq(V) /\ \A i \in V : i \in Nat
  BY GuardedAssumption
<1> HIDE DEF V
<1>2. Len(f) \in Nat /\ f \in [1 .. Len(f) -> V]
  BY <1>1
<1>3. f \in [1 .. Len(f) -> Nat]
  BY <1>1, <1>2
<1> QED BY <1>2, <1>3, SeqDef

\* The budget after a tick.
LEMMA BudgetAges ==
  ASSUME NEW q \in Seq(Entry), IsFiniteSet(Spent(q)), Sorted(AgesOf(q))
  PROVE  /\ Older(q) \in Seq(Entry) /\ Len(Older(q)) <= Len(q)
         /\ IsFiniteSet(Spent(Older(q))) /\ Cardinality(Spent(Older(q))) <= Cardinality(Spent(q))
         /\ Sorted(AgesOf(Older(q))) /\ Count(AgesOf(Older(q)), 0) = 0
         /\ \A a \in 1 .. Window - 1 : Count(AgesOf(Older(q)), a) = Count(AgesOf(q), a - 1)
<1> DEFINE f == AgesOf(q)
           gone == {i \in DOMAIN q : q[i].age + 1 >= Window}
           rest == Pruned(q, gone)
           r == [i \in DOMAIN rest |-> [age |-> rest[i].age + 1, size |-> rest[i].size]]
           g == AgesOf(r)
<1>0. Older(q) = r /\ g = [i \in DOMAIN r |-> r[i].age] /\ f = [i \in DOMAIN q |-> q[i].age]
  BY DEF Older, AgesOf
<1> HIDE DEF f, g, rest
<1>1. f \in Seq(0 .. Window - 1) /\ Len(f) = Len(q) /\ \A i \in 1 .. Len(q) : f[i] = q[i].age
  BY AgesAre DEF f, AgesOf
<1>2. /\ DOMAIN q = 1 .. Len(q) /\ Len(q) \in Nat /\ Window \in Nat
      /\ \A i \in 1 .. Len(q) : q[i].age \in 0 .. Window - 1 /\ q[i].size \in Sizes
  BY SpentMeans, GuardedAssumption
<1>3. f \in Seq(Nat)
  BY <1>1, AgesAreNumbers
<1>4. DOMAIN f = DOMAIN q
  BY <1>1, <1>2
<1>5. Leaving(f) = {i \in DOMAIN q : q[i].age + 1 >= Window}
  BY <1>1, <1>2, <1>4 DEF Leaving
<1>6. PICK k \in 0 .. Len(f) : Leaving(f) = 1 .. k /\ Cardinality(Leaving(f)) = k
  BY <1>3, TheFirstLeave DEF f
<1> DEFINE n == Len(q) - k
<1>7. n \in Nat /\ k \in Nat /\ k \in 0 .. Len(q) /\ n <= Len(q) /\ \A i \in 1 .. n : i + k \in 1 .. Len(q)
  BY <1>1, <1>2, <1>6
<1>8. DOMAIN rest = 1 .. n /\ \A i \in 1 .. n : rest[i] = q[i + k]
  <2>1. Cardinality(gone) = k /\ rest = Pruned(q, gone)
    BY <1>5, <1>6 DEF rest
  <2> HIDE DEF gone
  <2>2. DOMAIN rest = 1 .. Len(q) - k /\ \A i \in 1 .. Len(q) - k : rest[i] = q[i + k]
    BY <1>7, <2>1, Remains
  <2> QED BY <2>2
<1> HIDE DEF n, gone
<1>9. DOMAIN r = 1 .. n /\ \A i \in 1 .. n : r[i] = [age |-> q[i + k].age + 1, size |-> q[i + k].size]
  BY <1>8
<1>10. g \in [1 .. Len(f) - k -> Nat] /\ \A i \in 1 .. Len(f) - k : g[i] = f[i + k] + 1
  <2>1. Len(f) - k = n
    BY <1>1 DEF n
  <2>2. ASSUME NEW i \in 1 .. n PROVE r[i].age = f[i + k] + 1 /\ r[i].age \in Nat
    <3>1. r[i] = [age |-> q[i + k].age + 1, size |-> q[i + k].size] /\ i + k \in 1 .. Len(q)
      BY <1>7, <1>9
    <3>2. r[i].age = q[i + k].age + 1
      BY <3>1
    <3>3. q[i + k].age \in 0 .. Window - 1 /\ f[i + k] = q[i + k].age
      BY <1>1, <1>2, <3>1
    <3> QED BY <1>2, <3>2, <3>3
  <2>3. g \in [1 .. n -> Nat] /\ \A i \in 1 .. n : g[i] = r[i].age
    <3>1. g = [i \in 1 .. n |-> r[i].age]
      BY <1>0, <1>9
    <3> HIDE DEF r
    <3> QED BY <2>2, <3>1
  <2> HIDE DEF r
  <2> QED BY <2>1, <2>2, <2>3
<1>11. /\ g \in Seq(0 .. Window - 1) /\ Len(g) = Len(f) - k /\ Sorted(g) /\ Count(g, 0) = 0
       /\ \A a \in 1 .. Window - 1 : Count(g, a) = Count(f, a - 1)
  BY <1>3, <1>6, <1>10, OneTickOlder DEF f
<1>12. r \in Seq(Entry) /\ Len(r) = n /\ \A i \in 1 .. n : r[i].size = q[i + k].size
  <2>1. ASSUME NEW i \in 1 .. n PROVE r[i] \in Entry
    <3>1. g[i] \in 0 .. Window - 1
      <4> DEFINE V == 0 .. Window - 1
      <4>1. g \in Seq(V) /\ Len(g) = n
        BY <1>1, <1>11 DEF n
      <4> HIDE DEF V
      <4>2. g[i] \in V
        BY <4>1
      <4> QED BY <4>2 DEF V
    <3>2. g[i] = r[i].age
      BY <1>0, <1>9
    <3>3. r[i].age = q[i + k].age + 1 /\ q[i + k].size \in Sizes
      BY <1>2, <1>7, <1>9
    <3> QED BY <1>9, <3>1, <3>2, <3>3 DEF Entry
  <2>2. r \in [1 .. n -> Entry]
    <3>1. r = [i \in 1 .. n |-> r[i]]
      BY <1>9
    <3> QED BY <2>1, <3>1
  <2>3. r \in Seq(Entry)
    BY <1>7, <2>2, SeqDef
  <2>4. Len(r) = n
    BY <1>7, <2>2
  <2> QED BY <1>9, <2>3, <2>4
<1>13. IsFiniteSet(Spent(r)) /\ Cardinality(Spent(r)) <= Cardinality(Spent(q))
  <2> HIDE DEF r
  <2> QED BY <1>7, <1>12, SpendLess DEF n
<1> HIDE DEF r
<1> QED BY <1>0, <1>7, <1>11, <1>12, <1>13 DEF f, g

\* The wire after a tick.
LEMMA SentAges ==
  ASSUME NEW f \in Seq(0 .. Window - 1), Sorted(f),
         NEW rest, rest = Pruned(f, {i \in DOMAIN f : f[i] + 1 >= Window}),
         NEW g, g = [i \in DOMAIN rest |-> rest[i] + 1]
  PROVE  /\ g \in Seq(0 .. Window - 1) /\ Sorted(g) /\ Count(g, 0) = 0
         /\ \A a \in 1 .. Window - 1 : Count(g, a) = Count(f, a - 1)
<1>1. f \in Seq(Nat) /\ Len(f) \in Nat
  BY AgesAreNumbers
<1>2. PICK k \in 0 .. Len(f) : Leaving(f) = 1 .. k /\ Cardinality(Leaving(f)) = k
  BY <1>1, TheFirstLeave
<1>3. DOMAIN rest = 1 .. Len(f) - k /\ \A i \in 1 .. Len(f) - k : rest[i] = f[i + k]
  <2> DEFINE gone == {i \in DOMAIN f : f[i] + 1 >= Window}
  <2>1. Cardinality(gone) = k /\ rest = Pruned(f, gone)
    BY <1>2 DEF Leaving
  <2> HIDE DEF gone
  <2>2. f \in Seq(Nat) /\ k \in 0 .. Len(f)
    BY <1>1, <1>2
  <2>3. DOMAIN rest = 1 .. Len(f) - k /\ \A i \in 1 .. Len(f) - k : rest[i] = f[i + k]
    BY ONLY <2>1, <2>2, Remains
  <2> QED BY <2>3
<1>4. g \in [1 .. Len(f) - k -> Nat] /\ \A i \in 1 .. Len(f) - k : g[i] = f[i + k] + 1
  <2>1. \A i \in 1 .. Len(f) - k : f[i + k] + 1 \in Nat
    BY <1>1, <1>2
  <2> QED BY <1>3, <2>1
<1> QED BY <1>1, <1>2, <1>4, OneTickOlder

\* A tick: both queues lose what leaves the window, and every age grows by one.
LEMMA TickKeepsRate ==
  ASSUME RateInv, Tick
  PROVE  RateInv'
<1>1. /\ reserved \in Seq(Entry) /\ sent \in Seq(0 .. Window - 1)
      /\ IsFiniteSet(Spent(reserved)) /\ Sorted(Ages) /\ Sorted(sent)
  BY DEF RateInv
<1> DEFINE left == Pruned(sent, {i \in DOMAIN sent : sent[i] + 1 >= Window})
<1>2. reserved' = Older(reserved) /\ sent' = [i \in DOMAIN left |-> left[i] + 1]
      /\ call' = call /\ resent' = resent
  BY DEF Tick, Older
<1> HIDE DEF left
<1>3. /\ reserved' \in Seq(Entry) /\ Len(reserved') <= Len(reserved)
      /\ IsFiniteSet(Spent(reserved')) /\ Cardinality(Spent(reserved')) <= Tokens
      /\ Sorted(Ages') /\ Count(Ages', 0) = 0
      /\ \A a \in 1 .. Window - 1 : Count(Ages', a) = Count(Ages, a - 1)
  <2>1. Ages' = AgesOf(reserved') /\ Ages = AgesOf(reserved) /\ Tokens = Cardinality(Spent(reserved))
    BY DEF Ages, AgesOf, Tokens
  <2> QED BY <1>1, <1>2, <2>1, BudgetAges
<1>4. /\ sent' \in Seq(0 .. Window - 1) /\ Sorted(sent') /\ Count(sent', 0) = 0
      /\ \A a \in 1 .. Window - 1 : Count(sent', a) = Count(sent, a - 1)
  BY <1>1, <1>2, SentAges DEF left
<1>5. Owed' = Owed /\ resent' \in [Caller -> 0 .. SdkRetries]
  BY <1>2 DEF Owed, Owes, RateInv
<1>6. ASSUME NEW a \in 0 .. Window - 1
      PROVE  Count(sent', a) + Cardinality(Owed') <= Quota(Count(Ages', a))
  <2>1. CASE a = 0
    BY <1>3, <1>4, <1>5, <2>1, OwedIsFinite
  <2>2. CASE a # 0
    <3>1. a \in 1 .. Window - 1 /\ a - 1 \in 0 .. Window - 1
      BY <2>2, GuardedAssumption
    <3>2. Count(sent, a - 1) + Cardinality(Owed) <= Quota(Count(Ages, a - 1))
      BY <3>1 DEF RateInv
    <3>3. Count(sent', a) = Count(sent, a - 1) /\ Count(Ages', a) = Count(Ages, a - 1)
      BY <1>3, <1>4, <3>1
    <3> QED BY <1>5, <3>2, <3>3
  <2> QED BY <2>1, <2>2
<1>7. Len(reserved) \in Nat /\ Len(reserved') \in Nat
  BY <1>1, <1>3
<1>8. RequestsPerMinute # 0 => Len(reserved') <= RequestsPerMinute
  BY <1>3, <1>7, GuardedAssumption DEF RateInv
<1>9. TokensPerMinute # 0 => Cardinality(Spent(reserved')) <= TokensPerMinute
  <2>1. Tokens \in Nat /\ Cardinality(Spent(reserved')) \in Nat
    BY <1>1, <1>3, FS_CardinalityType DEF Tokens
  <2> QED BY <1>3, <2>1, GuardedAssumption DEF RateInv
<1> QED BY <1>3, <1>4, <1>5, <1>6, <1>8, <1>9 DEF RateInv, Tokens

\* Any other step takes nothing from the budget and sends nothing.
LEMMA RateStep ==
  ASSUME CallsOK, AttemptsOK, RateInv, [Next]_vars
  PROVE  RateInv'
<1>1. ASSUME NEW c \in Caller, Reserve(c) PROVE RateInv'
  BY <1>1, ReserveKeepsRate
<1>2. ASSUME NEW c \in Caller, TakeSlot(c) \/ Resend(c) PROVE RateInv'
  BY <1>2, SendKeepsRate
<1>3. CASE Tick
  BY <1>3, TickKeepsRate
<1>4. ASSUME reserved' = reserved, sent' = sent, resent' = resent,
             ~(\E c \in Caller : Reserve(c) \/ TakeSlot(c))
      PROVE  RateInv'
  <2>1. resent' \in [Caller -> 0 .. SdkRetries]
    BY <1>4 DEF RateInv
  <2>2. Owed' \subseteq Owed
    <3>1. CASE call' = call
      BY <1>4, <3>1 DEF Owed, Owes
    <3>2. ASSUME NEW c \in Caller, NEW new \in Call, call' = [call EXCEPT ![c] = new],
                 new.stage \notin {"slot", "wire"}
          PROVE  Owed' \subseteq Owed
      BY <1>4, <3>2, OwesNoMore
    <3> QED BY <1>4, <3>1, <3>2, CallMoves
  <2> QED BY <1>4, <2>1, <2>2, NothingSent
<1>5. ASSUME NEW c \in Caller, Replied(c) \/ RequestFails(c) \/ Cancel(c) PROVE RateInv'
  <2>1. /\ reserved' = reserved /\ sent' = sent /\ resent' = [resent EXCEPT ![c] = 0]
        /\ Returns(c) \/ Waits(c, "backoff")
    BY <1>5 DEF Replied, RequestFails, Cancel, Forgets, Retries
  <2>2. \E new \in Call : call' = [call EXCEPT ![c] = new] /\ new.stage \notin {"slot", "wire"}
    <3>1. CASE Returns(c)
      <4>1. NoCall \in Call /\ NoCall.stage = "idle"
        BY DEF NoCall, Call
      <4> QED BY <3>1, <4>1 DEF Returns
    <3>2. CASE Waits(c, "backoff")
      <4>1. PICK new \in Call : /\ call' = [call EXCEPT ![c] = new]
                                /\ new = [stage |-> "backoff", attempt |-> call[c].attempt,
                                          size |-> call[c].size, tool |-> call[c].tool]
        BY <3>2, WaitsMeans DEF Later
      <4>2. new.stage = "backoff"
        BY <4>1
      <4> QED BY <4>1, <4>2
    <3> QED BY <2>1, <3>1, <3>2
  <2> QED BY <2>1, <2>2, OwesNoMore, NothingSent
<1>6. ASSUME NEW c \in Caller,
             Ask(c) \/ OversizedFails(c) \/ Resume(c) \/ ToolResumes(c)
      PROVE  reserved' = reserved /\ sent' = sent /\ resent' = resent
  BY <1>6 DEF Ask, OversizedFails, Resume, ToolResumes, limiter
<1>7. ASSUME NEW c \in Caller, NEW t \in Tool,
             \/ Execute(c, t) \/ UnknownParams(c, t) \/ ToolAnswers(c, t)
             \/ ToolRetries(c, t) \/ ToolFails(c, t)
      PROVE  reserved' = reserved /\ sent' = sent /\ resent' = resent
  BY <1>7 DEF Execute, UnknownParams, ToolAnswers, ToolRetries, ToolFails, limiter
<1>8. ASSUME Connect \/ ConnectFails \/ Disconnect \/ UNCHANGED vars
      PROVE  reserved' = reserved /\ sent' = sent /\ resent' = resent
  BY <1>8 DEF Connect, ConnectFails, Disconnect, limiter, vars
<1> QED BY <1>1, <1>2, <1>3, <1>4, <1>5, <1>6, <1>7, <1>8 DEF Next

\* Every step keeps the attempts of every call within their budget.
LEMMA AttemptsStep ==
  ASSUME CallsOK, AttemptsOK, [Next]_vars
  PROVE  AttemptsOK'
<1>1. CASE call' = call
  BY <1>1 DEF AttemptsOK, Bounded
<1>2. ASSUME NEW c \in Caller, NEW new \in Call, call' = [call EXCEPT ![c] = new], Bounded(new)
      PROVE  AttemptsOK'
  <2>1. call'[c] = new /\ \A d \in Caller \ {c} : call'[d] = call[d]
    BY <1>2 DEF CallsOK
  <2> QED BY <1>2, <2>1 DEF AttemptsOK
<1> QED BY <1>1, <1>2, CallMoves

\* The connection to the MCP server.
ServerOK == server \in {"none", "up", "ended"}

\* The initial state.
LEMMA RateInit == Init => AttemptsOK /\ RateInv /\ ServerOK
<1> SUFFICES ASSUME Init PROVE AttemptsOK /\ RateInv /\ ServerOK
  OBVIOUS
<1>1. AttemptsOK
  BY DEF Init, NoCall, AttemptsOK, Bounded
<1>2. reserved = <<>> /\ sent = <<>> /\ DOMAIN reserved = {} /\ DOMAIN sent = {}
  BY DEF Init
<1>3. reserved \in Seq(Entry) /\ sent \in Seq(0 .. Window - 1) /\ Len(reserved) = 0
  BY <1>2
<1>4. DOMAIN Ages = {} /\ Sorted(Ages) /\ Sorted(sent)
  BY <1>2 DEF Ages, Sorted
<1>5. Spent(reserved) = {}
  BY <1>2 DEF Spent
<1>6. IsFiniteSet(Spent(reserved)) /\ Tokens = 0
  BY <1>5, FS_EmptySet DEF Tokens
<1>7. ASSUME NEW a \in 0 .. Window - 1
      PROVE  Count(sent, a) + Cardinality(Owed) <= Quota(Count(Ages, a))
  <2>1. {i \in DOMAIN sent : sent[i] <= a} = {} /\ {i \in DOMAIN Ages : Ages[i] <= a} = {}
    BY <1>2, <1>4
  <2>2. Count(sent, a) = 0 /\ Count(Ages, a) = 0
    BY <2>1, FS_EmptySet DEF Count
  <2> QED BY <2>2, OwedIsFinite
<1>r. resent \in [Caller -> 0 .. SdkRetries]
  BY GuardedAssumption DEF Init
<1>8. RateInv
  BY <1>3, <1>4, <1>6, <1>7, <1>r, GuardedAssumption DEF RateInv
<1> QED BY <1>1, <1>8 DEF Init, ServerOK

LimitsInv == GuardedInv /\ AttemptsOK /\ RateInv /\ ServerOK

\* The inductive invariant of the limits.
THEOREM LimitsInvariant == Spec => []LimitsInv
<1>1. Init => LimitsInv
  BY CallsInit, RateInit DEF LimitsInv, GuardedInv
<1>2. LimitsInv /\ [Next]_vars => LimitsInv'
  <2> SUFFICES ASSUME LimitsInv, [Next]_vars PROVE LimitsInv'
    OBVIOUS
  <2>1. GuardedInv'
    BY CallsStep, BreakerStep DEF LimitsInv, GuardedInv
  <2>2. AttemptsOK' /\ RateInv'
    BY AttemptsStep, RateStep DEF LimitsInv, GuardedInv
  <2>3. ServerOK'
    BY DEF LimitsInv, ServerOK, Next, vars, Ask, Reserve, TakeSlot, Resend, Replied,
           RequestFails, OversizedFails, Resume, ToolResumes, Cancel, Execute, UnknownParams, ToolAnswers,
           ToolRetries, ToolFails, Connect, ConnectFails, Disconnect, Tick, registry
  <2> QED BY <2>1, <2>2, <2>3 DEF LimitsInv
<1> QED
  BY <1>1, <1>2, PTL DEF Spec

\* The types of limiter, breaker, registry and calls; a request to the model is tried
\* LLMAttempts times at most, a call of a tool that may not be repeated once
\* (async_invoke_with_retry, ToolRegistry.execute).
THEOREM CallsTypeCorrect == Spec => []RTypeOK
<1>1. ASSUME LimitsInv PROVE RTypeOK
  <2>1. \A i \in DOMAIN reserved : reserved[i] \in [age : 0 .. Window - 1, size : Sizes]
    <3>1. reserved \in Seq(Entry)
      BY <1>1 DEF LimitsInv, RateInv
    <3>2. \A i \in DOMAIN reserved : reserved[i] \in Entry
      BY <3>1
    <3> QED BY <3>2 DEF Entry
  <2>2. ASSUME NEW t \in Tool
        PROVE  breaker[t] \in [state : {"closed", "open", "half_open"},
                               failures : 0 .. FailureThreshold,
                               age : 0 .. RecoveryTime, probe : BOOLEAN]
    BY <1>1 DEF LimitsInv, GuardedInv, BInv, BreakerOK
  <2>3. /\ tools \subseteq Tool /\ server \in {"none", "up", "ended"}
        /\ active = Cardinality({c \in Caller : call[c].stage = "wire"})
        /\ resent \in [Caller -> 0 .. SdkRetries]
    BY <1>1 DEF LimitsInv, GuardedInv, CallsOK, Wire, ServerOK, RateInv
  <2>4. ASSUME NEW c \in Caller
        PROVE  call[c].attempt <= IF call[c].tool = {} THEN LLMAttempts
                                  ELSE IF call[c].tool \subseteq Remote THEN 1 ELSE ToolAttempts
    <3>1. Bounded(call[c]) /\ call[c].stage \in {"idle", "budget", "slot", "wire", "backoff"}
                                                 \cup {"tool", "toolBackoff"}
      BY <1>1 DEF LimitsInv, AttemptsOK, GuardedInv, CallsOK, Call
    <3>2. CASE call[c].stage \in {"idle", "budget", "slot", "wire", "backoff"}
      <4>1. call[c].tool = {} /\ call[c].attempt <= LLMAttempts
        <5>1. CASE call[c].stage = "idle"
          <6>1. call[c] = NoCall
            BY <3>1, <5>1 DEF Bounded
          <6>2. call[c].tool = {} /\ call[c].attempt = 0
            BY <6>1 DEF NoCall
          <6> QED BY <6>2, GuardedAssumption
        <5>2. CASE call[c].stage # "idle"
          BY <3>1, <3>2, <5>2 DEF Bounded
        <5> QED BY <5>1, <5>2
      <4> QED BY <4>1
    <3>3. CASE call[c].stage \in {"tool", "toolBackoff"}
      <4>1. PICK t \in Tool : /\ call[c].tool = {t} /\ call[c].attempt <= ToolAttempts
                              /\ t \in Remote => call[c].attempt <= 1
        BY <3>1, <3>3 DEF Bounded
      <4> QED BY <4>1
    <3> QED BY <3>1, <3>2, <3>3
  <2> QED BY <2>1, <2>2, <2>3, <2>4 DEF RTypeOK
<1> QED
  BY <1>1, LimitsInvariant, PTL

\* The rate the provider sees (RequestLimiter, and the repetitions of the SDK which it
\* does not count): MaxConcurrency requests at once; in a window 1 + SdkRetries times
\* the limit of requests and one more for each task; the limit of tokens reserved.
THEOREM RateIsPaced == Spec => []Paced
<1>1. ASSUME LimitsInv PROVE Paced
  <2>1. /\ reserved \in Seq(Entry) /\ sent \in Seq(0 .. Window - 1)
        /\ RequestsPerMinute # 0 => Len(reserved) <= RequestsPerMinute
        /\ TokensPerMinute # 0 => Tokens <= TokensPerMinute
        /\ active <= MaxConcurrency
    BY <1>1 DEF LimitsInv, RateInv, GuardedInv, CallsOK
  <2> DEFINE a == Window - 1
  <2>2. a \in 0 .. Window - 1
    BY GuardedAssumption
  <2>3. Count(sent, a) + Cardinality(Owed) <= Quota(Count(Ages, a))
    BY <1>1, <2>2 DEF LimitsInv, RateInv
  <2>4. Count(sent, a) = Len(sent) /\ Len(sent) \in Nat
    <3> DEFINE V == 0 .. Window - 1
    <3>1. sent \in Seq(V)
      BY <2>1
    <3>2. \A x \in V : x <= a
      BY GuardedAssumption
    <3> HIDE DEF V, a
    <3>3. DOMAIN sent = 1 .. Len(sent) /\ Len(sent) \in Nat /\ \A i \in 1 .. Len(sent) : sent[i] \in V
      BY <3>1
    <3>4. {i \in DOMAIN sent : sent[i] <= a} = 1 .. Len(sent)
      BY <3>2, <3>3
    <3>5. Cardinality(1 .. Len(sent)) = Len(sent)
      BY <3>3, FS_Interval
    <3> QED BY <3>3, <3>4, <3>5 DEF Count
  <2>5. Ages \in Seq(0 .. Window - 1) /\ Len(Ages) = Len(reserved) /\ Len(reserved) \in Nat
    BY <2>1, AgesAre DEF Ages
  <2>6. Count(Ages, a) \in Nat /\ Count(Ages, a) <= Len(reserved)
    BY <2>5, CountIsNat
  <2> HIDE DEF a
  <2>7. ASSUME RequestsPerMinute # 0 PROVE Len(sent) <= Quota(RequestsPerMinute)
    <3>1. RequestsPerMinute \in Nat /\ Count(Ages, a) <= RequestsPerMinute
      BY <2>1, <2>5, <2>6, <2>7, GuardedAssumption
    <3>2. Quota(Count(Ages, a)) <= Quota(RequestsPerMinute)
          /\ Quota(Count(Ages, a)) \in Nat /\ Quota(RequestsPerMinute) \in Nat
      BY <2>6, <3>1, QuotaGrows
    <3> QED BY <2>3, <2>4, <3>2, OwedIsFinite
  <2> QED BY <2>1, <2>7 DEF Paced, Quota
<1> QED
  BY <1>1, LimitsInvariant, PTL
=============================================================================
