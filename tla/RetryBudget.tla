----------------------------- MODULE RetryBudget -----------------------------
(* The retry budget of a client (src/retry.rs, mod budget): a ring of slots   *)
(* that deposits fill, withdrawals empty, and passing time clears.  deposit() *)
(* and withdraw() hold the mutex throughout and read the clock under it, so   *)
(* each is one step.  Time is counted in ticks, SlotTime of them to a slot.   *)
(* The amounts stay far from isize::MAX: saturation is left out.              *)
(* Definitions named Bug... are faulty variants of the ones that follow them. *)
EXTENDS Integers, Sequences, SequencesExt, Functions

CONSTANTS
  Slots,     \* NUM_SLOTS
  SlotTime,  \* ticks per slot: Slots * SlotTime ticks are the ttl
  Permille,  \* retry_percent, in thousandths
  Baseline,  \* min_per_sec * ttl_secs
  MaxLog     \* bound on the calls remembered at a time

ASSUME SlotsOK == Slots \in Nat \ {0} /\ SlotTime \in Nat \ {0}
ASSUME LoadOK ==
  /\ Permille \in Nat /\ Permille <= 1000000
  /\ Baseline \in Nat /\ MaxLog \in Nat

VARIABLES
  buckets,   \* BudgetState.buckets
  writer,    \* BudgetState.writer
  genIndex,  \* BudgetState.gen_index
  since,     \* ticks since BudgetState.gen_time, up to what clears the ring
  log        \* the deposits and granted withdrawals that may still count,
             \* with their ages (history, not in the code)

budgetVars == <<buckets, writer, genIndex, since, log>>

Ttl == Slots * SlotTime
\* A slot is only given up when it comes round again.
LongestLife == (Slots + 1) * SlotTime
\* A call just after a slot is over skips the next one.
ShortestLife == (Slots \div 2) * SlotTime

DepositAmount == IF Permille = 0 THEN 0 ELSE IF Permille <= 1000 THEN 1 ELSE 1000
WithdrawAmount ==
  IF Permille = 0 THEN 1 ELSE (DepositAmount * 1000) \div Permille
Reserve == Baseline * WithdrawAmount

BudgetInit ==
  /\ buckets = [i \in 0 .. Slots - 1 |-> 0]
  /\ writer = 0 /\ genIndex = 0 /\ since = 0
  /\ log = <<>>

-----------------------------------------------------------------------------
\* Slots passed whole after the one just written, all cleared.
BugClearNone == 0
ClearedSlots ==
  LET passed == (since - 1) \div SlotTime
  IN  IF passed <= Slots THEN passed ELSE Slots

NextIndex == (genIndex + 1 + ClearedSlots) % Slots

\* advance(): what the ring is once the writer is committed to its slot and
\* the slots passed are cleared.
Advanced ==
  IF since < SlotTime
  THEN [buckets |-> buckets, writer |-> writer, genIndex |-> genIndex, since |-> since]
  ELSE [buckets |->
          [i \in 0 .. Slots - 1 |->
             IF \E k \in 1 .. ClearedSlots : i = (genIndex + k) % Slots THEN 0
             ELSE IF i = genIndex THEN writer ELSE buckets[i]],
        writer |-> 0,
        genIndex |-> NextIndex,
        since |-> 0]

\* sum() after advance().
Balance == Advanced.writer + SumFunction(Advanced.buckets) + Reserve

Commit(amount) ==
  /\ buckets' = Advanced.buckets
  /\ writer' = Advanced.writer + amount
  /\ genIndex' = Advanced.genIndex
  /\ since' = Advanced.since

Remember(kind) == log' = Append(log, [kind |-> kind, age |-> 0])

Deposit == Commit(DepositAmount) /\ Remember("deposit")

\* Anything left will do.
BugAnyBalance == Balance >= 0
Affordable == Balance >= WithdrawAmount

\* withdraw() that returns true ...
Withdraw == Affordable /\ Commit(- WithdrawAmount) /\ Remember("withdraw")

\* ... and false.
Refuse == ~Affordable /\ Commit(0) /\ UNCHANGED log

\* A tick of the clock.  What is older than LongestLife is forgotten: the log
\* is in the order of the calls, so that is the first n of it.
Tick ==
  /\ since' = IF since <= Ttl THEN since + 1 ELSE since
  /\ \E n \in 0 .. Len(log) :
       /\ \A i \in DOMAIN log : i <= n <=> log[i].age + 1 >= LongestLife
       /\ log' = [i \in 1 .. Len(log) - n |->
                    [kind |-> log[i + n].kind, age |-> log[i + n].age + 1]]
  /\ UNCHANGED <<buckets, writer, genIndex>>

BudgetNext ==
  \/ Len(log) < MaxLog /\ Deposit
  \/ Len(log) < MaxLog /\ Withdraw
  \/ Refuse
  \/ Tick

BudgetSpec == BudgetInit /\ [][BudgetNext]_budgetVars

-----------------------------------------------------------------------------
(* Properties.                                                               *)

\* How many calls of a kind are younger than so many ticks.
Recent(kind, ticks) ==
  Cardinality({i \in DOMAIN log : log[i].kind = kind /\ log[i].age < ticks})

\* Every variable stays in its type.
BudgetTypeOK ==
  /\ buckets \in [0 .. Slots - 1 -> Int] /\ writer \in Int
  /\ genIndex \in 0 .. Slots - 1 /\ since \in 0 .. Ttl + 1
  /\ log \in Seq([kind : {"deposit", "withdraw"}, age : 0 .. LongestLife - 1])

\* The balance is that of the calls themselves: each counts for ShortestLife
\* at least and LongestLife at most, once, and in between either way (the
\* ring of mod budget is a sliding window).
LedgerExact ==
  LET Maybe(kind) == Recent(kind, LongestLife) - Recent(kind, ShortestLife)
  IN  \E d \in 0 .. Maybe("deposit"), w \in 0 .. Maybe("withdraw") :
        Balance = Reserve + DepositAmount * (Recent("deposit", ShortestLife) + d)
                          - WithdrawAmount * (Recent("withdraw", ShortestLife) + w)

\* What the budget is for ("the maximum extra load the budget will allow",
\* Builder::max_extra_load): whenever a retry is granted, the retries granted of
\* late are, beyond the baseline, at most the configured fraction of the
\* requests, rounded up to a whole retry.
Granted == Len(log') > Len(log) /\ Last(log').kind = "withdraw"
ExtraLoad ==
  [][Granted => 1000 * (Recent("withdraw", ShortestLife)' - Baseline)
                  < Permille * Recent("deposit", LongestLife)' + 1000]_budgetVars
=============================================================================
