------------------------------ MODULE JobLedger ------------------------------
(***************************************************************************)
(* What the jobs table promises to the rest of wikiagent, with the way it  *)
(* keeps the promise left out: a row is opened once, ends once, and never  *)
(* moves again; the outcome of a row (the issue and state changes that go  *)
(* with it, queue/outcomes.py) is applied exactly when the row ends as     *)
(* succeeded or failed, and at most once.  Claims, retries after a crash,  *)
(* timeouts and duplicate executions are not visible here.                 *)
(***************************************************************************)
EXTENDS Naturals, Sequences

VARIABLES ledger,   \* the verdict of each row, in the order the rows were opened
          journal   \* the rows whose outcome was applied, oldest first

lvars == <<ledger, journal>>

Verdict == {"pending", "succeeded", "failed", "cancelled"}

LInit == ledger = <<>> /\ journal = <<>>

\* a submission opens one or more rows
Open ==
  /\ Len(ledger') > Len(ledger)
  /\ \A i \in 1..Len(ledger) : ledger'[i] = ledger[i]
  /\ \A i \in Len(ledger)+1 .. Len(ledger') : ledger'[i] = "pending"
  /\ UNCHANGED journal

\* a row ends with a result and its outcome is applied in the same step
Settle(i, verdict) ==
  /\ ledger[i] = "pending"
  /\ ledger' = [ledger EXCEPT ![i] = verdict]
  /\ journal' = Append(journal, i)

\* a row ends without an outcome: the process was told to stop
Withdraw(i) ==
  /\ ledger[i] = "pending"
  /\ ledger' = [ledger EXCEPT ![i] = "cancelled"]
  /\ UNCHANGED journal

LNext ==
  \/ Open
  \/ \E i \in 1..Len(ledger) :
       \/ Settle(i, "succeeded")
       \/ Settle(i, "failed")
       \/ Withdraw(i)

LSpec == LInit /\ [][LNext]_lvars
==============================================================================
