------------------------------ MODULE RetryLoop ------------------------------
(* Client::execute (src/client.rs): several requests of one client at a time, *)
(* each in its loop of attempts under one deadline, sharing the RetryBudget   *)
(* of the client's policy (src/retry.rs).  An attempt is execute_inner, here  *)
(* only its outcome (module Exchange has the rest); all of it happens within  *)
(* one slot of the budget (RetryBudget has what passing time does to it).     *)
(* Definitions named Bug... are faulty variants of the ones that follow them. *)
EXTENDS RetryBudget, FiniteSets

CONSTANTS
  Requests,    \* the requests, each executed once
  InScope,     \* those the policy's scope accepts
  Body,        \* "none", "bytes" or "stream", of each request
  MaxRetries,  \* max_retries_per_request
  HasBudget,   \* whether the policy has a budget
  Retryable,   \* the outcomes the policy's classifier retries
  HasDeadline  \* whether requests have a total timeout

ASSUME RequestsOK ==
  /\ IsFiniteSet(Requests) /\ InScope \subseteq Requests
  /\ Body \in [Requests -> {"none", "bytes", "stream"}]
ASSUME PolicyOK ==
  /\ MaxRetries \in Nat /\ HasBudget \in BOOLEAN /\ HasDeadline \in BOOLEAN
  /\ Retryable \subseteq {"ok", "busy", "timeout"}

VARIABLES
  pc,         \* of each request: where its execute is
  remaining,  \* remaining_retries
  canRetry,   \* whether the attempt under way may be followed by another
  body,       \* whether `body` still holds the request's body
  outcome,    \* of the last attempt: what the caller gets in the end
  expired,    \* whether the deadline is over
  attempts,   \* attempts so far (history)
  sent,       \* those that got past the deadline check, to WinHTTP (history)
  hollow      \* whether one was made without the request's body (history)

loopVars == <<pc, remaining, canRetry, body, outcome, expired, attempts, sent, hollow>>
vars == <<loopVars, budgetVars>>

Outcomes == {"ok", "busy", "timeout", "dropped"}
Places == {"new", "loop", "attempt", "answered", "leaving", "done"}

Init ==
  /\ pc = [r \in Requests |-> "new"]
  /\ remaining = [r \in Requests |-> MaxRetries]
  /\ canRetry = [r \in Requests |-> FALSE]
  /\ body = [r \in Requests |-> Body[r] # "none"]
  /\ outcome = [r \in Requests |-> "dropped"]
  /\ expired = [r \in Requests |-> FALSE]
  /\ attempts = [r \in Requests |-> 0]
  /\ sent = [r \in Requests |-> 0]
  /\ hollow = [r \in Requests |-> FALSE]
  /\ BudgetInit

Goto(r, from, to) == pc[r] = from /\ pc' = [pc EXCEPT ![r] = to]

\* execute is first polled: the guard that deposits is set up, the deadline
\* starts to run.
Begin(r) ==
  /\ Goto(r, "new", "loop")
  /\ UNCHANGED <<remaining, canRetry, body, outcome, expired, attempts, sent, hollow, budgetVars>>

\* A stream is taken for one attempt and retried all the same.
BugRetryStream(r) == remaining[r] > 0

\* try_clone: a stream cannot be kept for another attempt.
MayFollow(r) == remaining[r] > 0 /\ Body[r] # "stream"

\* One attempt: the body is cloned, or taken when this is the last; with no
\* time left execute_inner fails before it sends anything.
Attempt(r) ==
  /\ Goto(r, "loop", IF expired[r] THEN "answered" ELSE "attempt")
  /\ canRetry' = [canRetry EXCEPT ![r] = MayFollow(r)]
  /\ body' = [body EXCEPT ![r] = @ /\ Body[r] = "bytes" /\ remaining[r] > 0]
  /\ hollow' = [hollow EXCEPT ![r] = @ \/ (Body[r] # "none" /\ ~body[r])]
  /\ attempts' = [attempts EXCEPT ![r] = @ + 1]
  /\ sent' = IF expired[r] THEN sent ELSE [sent EXCEPT ![r] = @ + 1]
  /\ outcome' = IF expired[r] THEN [outcome EXCEPT ![r] = "timeout"] ELSE outcome
  /\ UNCHANGED <<remaining, expired, budgetVars>>

\* The attempt ends, in a response or an error the classifier would not retry
\* ("ok"), in one it may ("busy": a 503, a connection reset), or in the timeout.
Answer(r) ==
  /\ Goto(r, "attempt", "answered")
  /\ \E o \in {"ok", "busy"} \cup IF expired[r] THEN {"timeout"} ELSE {} :
       outcome' = [outcome EXCEPT ![r] = o]
  /\ UNCHANGED <<remaining, canRetry, body, expired, attempts, sent, hollow, budgetVars>>

\* classify_result, for an attempt that may be followed by another.
WantsRetry(r) == canRetry[r] /\ r \in InScope /\ outcome[r] \in Retryable

\* The retry is not counted.
BugRetryForever(r) ==
  /\ WantsRetry(r)
  /\ Goto(r, "answered", "loop")
  /\ IF HasBudget THEN Withdraw ELSE UNCHANGED budgetVars
  /\ UNCHANGED <<remaining, canRetry, body, outcome, expired, attempts, sent, hollow>>

\* Each attempt gets the whole timeout again.
BugFreshDeadline(r) ==
  /\ WantsRetry(r)
  /\ Goto(r, "answered", "loop")
  /\ IF HasBudget THEN Withdraw ELSE UNCHANGED budgetVars
  /\ remaining' = [remaining EXCEPT ![r] = @ - 1]
  /\ expired' = [expired EXCEPT ![r] = FALSE]
  /\ UNCHANGED <<canRetry, body, outcome, attempts, sent, hollow>>

Retry(r) ==
  /\ WantsRetry(r)
  /\ Goto(r, "answered", "loop")
  /\ IF HasBudget THEN Withdraw ELSE UNCHANGED budgetVars
  /\ remaining' = [remaining EXCEPT ![r] = @ - 1]
  /\ UNCHANGED <<canRetry, body, outcome, expired, attempts, sent, hollow>>

\* The request waits for the budget to fill.
BugDeniedWaits(r) ==
  /\ WantsRetry(r) /\ HasBudget
  /\ Goto(r, "answered", "answered")
  /\ Refuse
  /\ UNCHANGED <<remaining, canRetry, body, outcome, expired, attempts, sent, hollow>>

\* The budget is empty: the caller gets the outcome there is.
RetryDenied(r) ==
  /\ WantsRetry(r) /\ HasBudget
  /\ Goto(r, "answered", "leaving")
  /\ Refuse
  /\ UNCHANGED <<remaining, canRetry, body, outcome, expired, attempts, sent, hollow>>

GiveAnswer(r) ==
  /\ ~WantsRetry(r)
  /\ Goto(r, "answered", "leaving")
  /\ UNCHANGED <<remaining, canRetry, body, outcome, expired, attempts, sent, hollow, budgetVars>>

\* The future is dropped in its only await.
DropFuture(r) ==
  /\ Goto(r, "attempt", "leaving")
  /\ outcome' = [outcome EXCEPT ![r] = "dropped"]
  /\ UNCHANGED <<remaining, canRetry, body, expired, attempts, sent, hollow, budgetVars>>

\* Only a success is deposited.
BugLeave(r) ==
  /\ Goto(r, "leaving", "done")
  /\ IF HasBudget /\ outcome[r] = "ok" THEN Deposit ELSE UNCHANGED budgetVars
  /\ UNCHANGED <<remaining, canRetry, body, outcome, expired, attempts, sent, hollow>>

\* The guard set up at the start deposits, however execute is left.
Leave(r) ==
  /\ Goto(r, "leaving", "done")
  /\ IF HasBudget THEN Deposit ELSE UNCHANGED budgetVars
  /\ UNCHANGED <<remaining, canRetry, body, outcome, expired, attempts, sent, hollow>>

Expire(r) ==
  /\ HasDeadline /\ pc[r] \notin {"new", "done"} /\ ~expired[r]
  /\ expired' = [expired EXCEPT ![r] = TRUE]
  /\ UNCHANGED <<pc, remaining, canRetry, body, outcome, attempts, sent, hollow, budgetVars>>

Step(r) ==
  \/ Begin(r) \/ Attempt(r) \/ Answer(r)
  \/ Retry(r) \/ RetryDenied(r) \/ GiveAnswer(r) \/ Leave(r)

Done == (\A r \in Requests : pc[r] = "done") /\ UNCHANGED vars

Next ==
  \/ \E r \in Requests : Step(r) \/ DropFuture(r) \/ Expire(r)
  \/ Done

\* Every execute is polled on, and every attempt ends (Exchange!AttemptEnds).
Fairness == \A r \in Requests : WF_vars(Step(r))

Spec == Init /\ [][Next]_vars /\ Fairness

-----------------------------------------------------------------------------
(* Properties.                                                               *)

\* Every variable stays in its type; no counter passes its bound.
TypeOK ==
  /\ pc \in [Requests -> Places]
  /\ remaining \in [Requests -> 0 .. MaxRetries]
  /\ canRetry \in [Requests -> BOOLEAN] /\ body \in [Requests -> BOOLEAN]
  /\ outcome \in [Requests -> Outcomes]
  /\ expired \in [Requests -> BOOLEAN] /\ hollow \in [Requests -> BOOLEAN]
  /\ attempts \in [Requests -> 0 .. MaxRetries + 1]
  /\ sent \in [Requests -> 0 .. MaxRetries + 1]
  /\ BudgetTypeOK

\* No attempt goes out without the body the request was given: a stream that
\* was consumed is never sent again, a body in memory is sent whole each time.
NoHollowAttempt == \A r \in Requests : ~hollow[r]

\* An attempt that was not sent came too late, and so did what is told of it.
LateIsTimeout ==
  \A r \in Requests :
    /\ sent[r] < attempts[r] => expired[r] /\ outcome[r] = "timeout"
    /\ outcome[r] = "timeout" => expired[r]

\* The deadline covers the retries: once it is over it stays over, and nothing
\* more is sent. Whoever goes on to another attempt after it ends in the
\* timeout, and is not given the outcome of an earlier attempt; and no timeout
\* is told before it (execute's deadline, execute_inner's remaining_timeout).
\* An attempt that was sent in time may still answer late: select polls it first.
DeadlineCoversRetries ==
  [][/\ \A r \in Requests : expired[r] => expired'[r] /\ sent'[r] = sent[r]
     /\ LateIsTimeout']_vars

Retries(r) ==
  IF attempts[r] = 0 THEN 0 ELSE attempts[r] - 1 + IF pc[r] = "loop" THEN 1 ELSE 0
RetriesMade == {m \in Requests \X (1 .. MaxRetries) : m[2] <= Retries(m[1])}
AllRetries == Cardinality(RetriesMade)
Finished == {r \in Requests : pc[r] = "done"}

\* No retry storm: however the requests of a client interleave, the books
\* balance, with one deposit for each execute that was left, whichever way (the
\* comment on the guard in Client::execute), and one withdrawal for each retry;
\* and the retries exceed the baseline by no more than the fraction the
\* finished ones allow.
NoRetryStorm ==
  HasBudget =>
    /\ Recent("deposit", LongestLife) = Cardinality(Finished)
    /\ Recent("withdraw", LongestLife) = AllRetries
    /\ 1000 * (AllRetries - Baseline) <= Permille * Cardinality(Finished)

\* Every execute ends, with an outcome for its caller.
ExecuteEnds == \A r \in Requests : pc[r] = "loop" ~> pc[r] = "done"
=============================================================================
