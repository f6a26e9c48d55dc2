----------------------------- MODULE GuardedCalls -----------------------------
(***************************************************************************)
(* What stands between a task of the program and the services it calls.   *)
(* A request to the model (llm/) reserves its share of the minute's        *)
(* budget, waits for one of the concurrency slots, and is retried within   *)
(* one budget of attempts for failures and rejected replies; inside one    *)
(* attempt the SDK of the provider sends a failing request again by        *)
(* itself.  A tool call                                                    *)
(* (tools/) passes the circuit breaker of its tool, is retried when that   *)
(* is safe, and only its last outcome is recorded in the breaker.  The     *)
(* tools of an MCP server are in the registry while its connection lives.  *)
(*                                                                         *)
(* Time is a tick that ages what the code stamps with the clock: an entry  *)
(* of the budget and the opening of a breaker carry their age, which stops *)
(* growing where the code no longer tells it apart.  All tasks of a        *)
(* process share the budget and the breakers.  The code between two awaits *)
(* that can suspend is one step; the breaker's own lock is never held      *)
(* across an await, so nobody waits for it.                                *)
(***************************************************************************)
EXTENDS Integers, Sequences, FiniteSets

CONSTANTS
  Caller,             \* the tasks
  BuiltIn,            \* read-only tools of the program
  Remote,             \* tools of the MCP server, irreversible as far as anyone knows
  Sizes,              \* estimated tokens of a request
  RequestsPerMinute,  \* 0: no limit
  TokensPerMinute,    \* 0: no limit
  MaxConcurrency,
  Window,             \* window_seconds, in ticks
  LLMAttempts,        \* llm_max_attempts
  SdkRetries,         \* max_retries of the OpenAI client, which is left at its default
  ToolAttempts,       \* max_attempts of a tool
  FailureThreshold,
  RecoveryTime        \* recovery_seconds, in ticks

Tool == BuiltIn \cup Remote

ASSUME GuardedAssumption ==
  /\ IsFiniteSet(Caller) /\ BuiltIn \cap Remote = {} /\ Sizes \subseteq Nat \ {0}
  /\ RequestsPerMinute \in Nat /\ TokensPerMinute \in Nat
  /\ MaxConcurrency \in Nat \ {0} /\ Window \in Nat \ {0}
  /\ LLMAttempts \in Nat \ {0} /\ SdkRetries \in Nat /\ ToolAttempts \in Nat \ {0}
  /\ FailureThreshold \in Nat \ {0} /\ RecoveryTime \in Nat

VARIABLES
  reserved,  \* the limiter's deques: age and tokens of each reservation
  active,    \* the limiter's _active
  breaker,   \* the breaker of each tool
  tools,     \* the registry
  server,    \* the MCP connection: "none", "up" or "ended"
  call,      \* what each task is waiting for
  resent,    \* how often the SDK repeated the request each task has on the wire
  sent,      \* history: ages of the requests that went to the provider in the window
  past       \* history: what was recorded of each tool since its last success

limiter == <<reserved, active, resent, sent>>
guards == <<breaker, past>>
registry == <<tools, server>>
vars == <<reserved, active, breaker, tools, server, call, resent, sent, past>>

NoCall == [stage |-> "idle", attempt |-> 0, size |-> 0, tool |-> {}]
Closed == [state |-> "closed", failures |-> 0, age |-> 0, probe |-> FALSE]
CleanRecord == [failures |-> 0, age |-> 0, tried |-> FALSE]

Init ==
  /\ reserved = <<>> /\ active = 0 /\ sent = <<>>
  /\ breaker = [t \in Tool |-> Closed] /\ past = [t \in Tool |-> CleanRecord]
  /\ tools = BuiltIn /\ server = "none"
  /\ call = [c \in Caller |-> NoCall] /\ resent = [c \in Caller |-> 0]

\* a value that stops growing at a limit
Up(n, limit) == IF n < limit THEN n + 1 ELSE limit

Waits(c, stage) == call' = [call EXCEPT ![c].stage = stage]
Returns(c) == call' = [call EXCEPT ![c] = NoCall]
NextAttempt(c, stage) ==
  call' = [call EXCEPT ![c] = [stage |-> stage, attempt |-> call[c].attempt + 1,
                               size |-> call[c].size, tool |-> call[c].tool]]

-----------------------------------------------------------------------------
(* Requests to the model                                                   *)

\* one element for each token of each reservation
Spent(queue) == UNION {{i} \X (1 .. queue[i].size) : i \in DOMAIN queue}
Tokens == Cardinality(Spent(reserved))

Fits(size) ==
  /\ RequestsPerMinute = 0 \/ Len(reserved) < RequestsPerMinute
  /\ TokensPerMinute = 0 \/ Tokens + size <= TokensPerMinute

\* larger than the whole minute's budget: _reservation_wait raises
TooLarge(size) == TokensPerMinute # 0 /\ size > TokensPerMinute

Ask(c) ==
  /\ call[c] = NoCall
  /\ \E size \in Sizes :
       call' = [call EXCEPT ![c] = [stage |-> "budget", attempt |-> 1, size |-> size,
                                    tool |-> {}]]
  /\ UNCHANGED <<limiter, guards, registry>>

\* _reserve_async: the budget is spent here, whatever becomes of the request
Reserve(c) ==
  /\ call[c].stage = "budget" /\ ~TooLarge(call[c].size) /\ Fits(call[c].size)
  /\ reserved' = Append(reserved, [age |-> 0, size |-> call[c].size])
  /\ Waits(c, "slot")
  /\ UNCHANGED <<active, resent, sent, guards, registry>>

\* _acquire_async, and the request goes out
TakeSlot(c) ==
  /\ call[c].stage = "slot" /\ active < MaxConcurrency
  /\ active' = active + 1 /\ sent' = Append(sent, 0)
  /\ Waits(c, "wire")
  /\ UNCHANGED <<reserved, resent, guards, registry>>

\* the SDK meets a connection error, a timeout or a status it holds for passing and
\* sends the request again, in the same slot and on the same reservation
Resend(c) ==
  /\ call[c].stage = "wire" /\ resent[c] < SdkRetries
  /\ resent' = [resent EXCEPT ![c] = @ + 1] /\ sent' = Append(sent, 0)
  /\ UNCHANGED <<reserved, active, call, guards, registry>>

Forgets(c) == resent' = [resent EXCEPT ![c] = 0]

ReleaseSlot(c) == active' = active - (IF call[c].stage = "wire" THEN 1 ELSE 0)

\* the attempt failed in a way that is retried while attempts are left
Retries(c, attempts) ==
  IF call[c].attempt < attempts THEN Waits(c, "backoff") ELSE Returns(c)

\* a reply that is accepted, or an error that is final
Replied(c) ==
  /\ call[c].stage = "wire" /\ ReleaseSlot(c) /\ Returns(c) /\ Forgets(c)
  /\ UNCHANGED <<reserved, sent, guards, registry>>

\* a passing failure, or (async_invoke_with_retry) a reply that is empty or does
\* not pass its check: both take from the same attempts
RequestFails(c) ==
  /\ call[c].stage = "wire" /\ ReleaseSlot(c) /\ Retries(c, LLMAttempts)
  /\ Forgets(c)
  /\ UNCHANGED <<reserved, sent, guards, registry>>

\* the ValueError of an oversized request is retried like any unknown error
OversizedFails(c) ==
  /\ call[c].stage = "budget" /\ TooLarge(call[c].size) /\ Retries(c, LLMAttempts)
  /\ UNCHANGED <<limiter, guards, registry>>

\* mutant: the next attempt goes out on the reservation of the one before
ResumeAtSlot(c) ==
  /\ call[c].stage = "backoff"
  /\ NextAttempt(c, "slot")
  /\ UNCHANGED <<limiter, guards, registry>>

Resume(c) ==
  /\ call[c].stage = "backoff"
  /\ NextAttempt(c, "budget")
  /\ UNCHANGED <<limiter, guards, registry>>

-----------------------------------------------------------------------------
(* The circuit breaker                                                     *)

Recovered(b) == b.state = "open" /\ b.age >= RecoveryTime

\* allow: a closed breaker lets every call pass, one that is not closed lets
\* one probe pass once it has recovered
Allows(t) ==
  \/ breaker[t].state = "closed"
  \/ Recovered(breaker[t]) /\ ~breaker[t].probe
  \/ breaker[t].state = "half_open" /\ ~breaker[t].probe

\* mutant: nothing marks the probe
AdmittedUnmarked(b) ==
  IF b.state = "closed" THEN b ELSE [b EXCEPT !.state = "half_open"]

\* what allow leaves behind when it returns true
Admitted(b) ==
  IF b.state = "closed" THEN b
  ELSE [state |-> "half_open", failures |-> b.failures, age |-> b.age, probe |-> TRUE]

\* An open breaker whose probe flag is up would turn half-open and reject;
\* every way to open it puts the flag down, so that never happens.
Admit(t) ==
  /\ Allows(t)
  /\ breaker' = [breaker EXCEPT ![t] = Admitted(@)]
  /\ past' = [past EXCEPT ![t].tried = past[t].failures >= FailureThreshold]

RecordSuccess(t) ==
  /\ breaker' = [breaker EXCEPT ![t] = Closed]
  /\ past' = [past EXCEPT ![t] = CleanRecord]

\* a failure of a probe, or the failure that reaches the threshold, opens it
Failed(b) ==
  LET failures == IF b.state = "half_open" THEN b.failures
                  ELSE Up(b.failures, FailureThreshold)
  IN IF b.state = "half_open" \/ failures >= FailureThreshold
     THEN [state |-> "open", failures |-> failures, age |-> 0, probe |-> FALSE]
     ELSE [state |-> b.state, failures |-> failures, age |-> b.age, probe |-> FALSE]

RecordFailure(t) ==
  /\ breaker' = [breaker EXCEPT ![t] = Failed(@)]
  /\ past' = [past EXCEPT ![t] = [failures |-> Up(@.failures, FailureThreshold),
                                  age |-> 0, tried |-> FALSE]]

-----------------------------------------------------------------------------
(* Tool calls                                                              *)

\* _retry_is_allowed: what may have had an effect is not done again
RetryAllowed(t) == t \in BuiltIn

\* ToolRegistry.execute up to the first await: a tool that is not registered
\* or not allowed is answered with a text and changes nothing.  The call keeps
\* the tool it found, even when its server goes away.
Execute(c, t) ==
  /\ call[c] = NoCall /\ t \in tools /\ Admit(t)
  /\ call' = [call EXCEPT ![c] = [stage |-> "tool", attempt |-> 1, size |-> 0,
                                  tool |-> {t}]]
  /\ UNCHANGED <<limiter, registry>>

\* Parameters the tool does not know: the call ends after allow, and nothing
\* is recorded in the breaker.
UnknownParams(c, t) ==
  /\ call[c] = NoCall /\ t \in tools /\ Admit(t)
  /\ UNCHANGED <<limiter, registry, call>>

\* a result, or an error that says nothing against the service
ToolAnswers(c, t) ==
  /\ call[c].stage = "tool" /\ t \in call[c].tool
  /\ RecordSuccess(t) /\ Returns(c)
  /\ UNCHANGED <<limiter, registry>>

\* a timeout or another transient error: once more if that is safe
ToolRetries(c, t) ==
  /\ call[c].stage = "tool" /\ t \in call[c].tool
  /\ RetryAllowed(t) /\ call[c].attempt < ToolAttempts
  /\ Waits(c, "toolBackoff")
  /\ UNCHANGED <<limiter, guards, registry>>

ToolFails(c, t) ==
  /\ call[c].stage = "tool" /\ t \in call[c].tool
  /\ ~(RetryAllowed(t) /\ call[c].attempt < ToolAttempts)
  /\ RecordFailure(t) /\ Returns(c)
  /\ UNCHANGED <<limiter, registry>>

\* the next attempt does not ask the breaker
ToolResumes(c) ==
  /\ call[c].stage = "toolBackoff"
  /\ NextAttempt(c, "tool")
  /\ UNCHANGED <<limiter, guards, registry>>

\* mutant: the slot is not given back
CancelKeepsSlot(c) ==
  /\ call[c].stage # "idle" /\ Returns(c) /\ Forgets(c)
  /\ UNCHANGED <<active, reserved, sent, guards, registry>>

\* A task is cancelled wherever it waits: the slot is given back, what it
\* reserved is not, and the breaker of the tool hears nothing.
Cancel(c) ==
  /\ call[c].stage # "idle" /\ ReleaseSlot(c) /\ Returns(c) /\ Forgets(c)
  /\ UNCHANGED <<reserved, sent, guards, registry>>

-----------------------------------------------------------------------------
(* The MCP server                                                          *)

\* open_single_server: the tools are registered once they are listed
Connect ==
  /\ server = "none" /\ server' = "up" /\ tools' = tools \cup Remote
  /\ UNCHANGED <<limiter, guards, call>>

\* The server is skipped.  When a step after the registration fails (the
\* listing of resources or prompts), the tools stay behind: the owner never
\* learns their names.
ConnectFails ==
  /\ server = "none" /\ server' = "ended"
  /\ tools' \in {tools, tools \cup Remote}
  /\ UNCHANGED <<limiter, guards, call>>

\* a ping fails or the program closes the connection: the owner takes the
\* tools away
Disconnect ==
  /\ server = "up" /\ server' = "ended" /\ tools' = tools \ Remote
  /\ UNCHANGED <<limiter, guards, call>>

-----------------------------------------------------------------------------
(* Time                                                                    *)

\* popleft, once for each entry that leaves the window with this tick.  The code does
\* it at the next reservation, the only place that reads the deques.
Pruned(queue, leaving) == SubSeq(queue, Cardinality(leaving) + 1, Len(queue))

Tick ==
  /\ LET rest == Pruned(reserved, {i \in DOMAIN reserved : reserved[i].age + 1 >= Window})
     IN reserved' = [i \in DOMAIN rest |-> [age |-> rest[i].age + 1, size |-> rest[i].size]]
  /\ LET rest == Pruned(sent, {i \in DOMAIN sent : sent[i] + 1 >= Window})
     IN sent' = [i \in DOMAIN rest |-> rest[i] + 1]
  /\ breaker' = [t \in Tool |-> IF breaker[t].state = "open"
                                THEN [breaker[t] EXCEPT !.age = Up(@, RecoveryTime)]
                                ELSE breaker[t]]
  /\ past' = [t \in Tool |-> IF past[t].failures > 0
                             THEN [past[t] EXCEPT !.age = Up(@, RecoveryTime)]
                             ELSE past[t]]
  /\ UNCHANGED <<active, resent, registry, call>>

Next ==
  \/ \E c \in Caller :
       \/ Ask(c) \/ Reserve(c) \/ TakeSlot(c) \/ Resend(c) \/ Replied(c)
       \/ RequestFails(c) \/ OversizedFails(c) \/ Resume(c) \/ ToolResumes(c) \/ Cancel(c)
  \/ \E c \in Caller, t \in Tool :
       \/ Execute(c, t) \/ UnknownParams(c, t) \/ ToolAnswers(c, t)
       \/ ToolRetries(c, t) \/ ToolFails(c, t)
  \/ Connect \/ ConnectFails \/ Disconnect
  \/ Tick

Spec == Init /\ [][Next]_vars

-----------------------------------------------------------------------------
(* Properties                                                              *)

\* The types; the limiter counts exactly the requests on the wire, through
\* every failure and cancellation; a call that may not be repeated is at its
\* first attempt.
RTypeOK ==
  /\ \A i \in DOMAIN reserved : reserved[i] \in [age : 0 .. Window - 1, size : Sizes]
  /\ \A t \in Tool :
       breaker[t] \in [state : {"closed", "open", "half_open"},
                       failures : 0 .. FailureThreshold,
                       age : 0 .. RecoveryTime, probe : BOOLEAN]
  /\ tools \subseteq Tool /\ server \in {"none", "up", "ended"}
  /\ active = Cardinality({c \in Caller : call[c].stage = "wire"})
  /\ resent \in [Caller -> 0 .. SdkRetries]
  /\ \A c \in Caller :
       call[c].attempt <= IF call[c].tool = {} THEN LLMAttempts
                          ELSE IF call[c].tool \subseteq Remote THEN 1 ELSE ToolAttempts

\* The rate the provider sees.  What a reservation stands for goes out at most
\* 1 + SdkRetries times, so in every window no more requests reach the provider than
\* that many times the limit and one for each task that reserved before the window
\* and still had to send; never more than MaxConcurrency are open at once, and the
\* tokens reserved stay within their limit.
Paced ==
  /\ active <= MaxConcurrency
  /\ RequestsPerMinute # 0 =>
       Len(sent) <= (1 + SdkRetries) * (RequestsPerMinute + Cardinality(Caller))
  /\ TokensPerMinute # 0 => Tokens <= TokensPerMinute

\* A tool that failed FailureThreshold times with no success in between is left
\* alone for RecoveryTime after its last failure, and then one call tries it:
\* until that call, or one that was under way before, has recorded its outcome
\* nobody else reaches the tool.
Quarantined ==
  [][\A c \in Caller, t \in Tool :
       call[c].stage = "idle" /\ call'[c].stage = "tool" /\ t \in call'[c].tool =>
         \/ past[t].failures < FailureThreshold
         \/ past[t].age = RecoveryTime /\ ~past[t].tried]_vars
=============================================================================
