--------------------------- MODULE RetryLoop_proofs ---------------------------
(* Proofs about RetryBudget and RetryLoop.                                    *)
(* The budget, for any number and length of slots and any max_extra_load: the *)
(* inductive invariant gives every call of the log the slot its amount is in, *)
(* counted back from the writer, and says how old the calls of a slot can be: *)
(* the ring then holds the calls of a window, and what it gives up or clears  *)
(* is older than that.                                                        *)
(* The loop, for any requests, any number of retries and any budget: the      *)
(* inductive invariant ties the counters of a request to where its loop is,   *)
(* says when its body is still there, and keeps the budget's books: one       *)
(* deposit for each execute that was left, one withdrawal for each retry, and *)
(* never more spent than there was.                                           *)
EXTENDS RetryLoop, FiniteSetTheorems, WellFoundedInduction, TLAPS

-----------------------------------------------------------------------------
(* THE BUDGET *)

\* ClearedSlots, s ticks after gen_time.
ClearedBy(s) ==
  LET passed == (s - 1) \div SlotTime
  IN  IF passed <= Slots THEN passed ELSE Slots

\* How far back slot k will be once advance() has been called.
Seen(s, k) == IF s < SlotTime THEN k ELSE k + 1 + ClearedBy(s)

\* Slot 0 is the writer, and Slots the oldest that the ring still has.
Living(s, k) == Seen(s, k) <= Slots

\* How far back buckets[i] is: the one at gen_index is written over next.
Back(g, i) == IF i < g THEN g - i ELSE g - i + Slots

OfKind(L, S, kind) == {j \in S : L[j].kind = kind}

Amount(L, S) ==
  DepositAmount * Cardinality(OfKind(L, S, "deposit"))
    - WithdrawAmount * Cardinality(OfKind(L, S, "withdraw"))

\* The calls of log L that are in slot k, by f.
At(L, f, k) == {j \in 1 .. Len(L) : f[j] = k}

\* The ages a call can have in slot k.
AgeFits(s, k, a) ==
  /\ k = 0 => a + SlotTime > s
  /\ k > 0 => a >= s + ((k - 1) \div 2) * SlotTime
  /\ Living(s, k) => a <= s + k * SlotTime

\* Ring b, w, g, s is what the calls of L came to, each in the slot f gives it.
Fits(b, w, g, s, L, f) ==
  /\ f \in [1 .. Len(L) -> Nat]
  /\ Living(s, 0) => w = Amount(L, At(L, f, 0))
  /\ \A i \in 0 .. Slots - 1 : Living(s, Back(g, i)) => b[i] = Amount(L, At(L, f, Back(g, i)))
  /\ \A j \in 1 .. Len(L) : AgeFits(s, f[j], L[j].age)

BudgetInv == BudgetTypeOK /\ \E f : Fits(buckets, writer, genIndex, since, log, f)

Calls == [kind : {"deposit", "withdraw"}, age : 0 .. LongestLife - 1]

-----------------------------------------------------------------------------
(* Slots and ages.                                                           *)

LEMMA TimesSlotTime ==
  /\ \A a \in Int : a * SlotTime \in Int
  /\ \A a, b \in Int : a <= b => a * SlotTime <= b * SlotTime
  /\ \A a, b \in Int : (a + b) * SlotTime = a * SlotTime + b * SlotTime
  /\ 0 * SlotTime = 0 /\ 1 * SlotTime = SlotTime
  /\ SlotTime \in Nat \ {0} /\ Slots \in Nat \ {0}
  /\ Ttl = Slots * SlotTime /\ LongestLife = Slots * SlotTime + SlotTime
<1> USE SlotsOK
<1>1. \A a, t \in Int : a * t \in Int
  OBVIOUS
<1>2. \A a, b \in Int, t \in Nat : a <= b => a * t <= b * t
  OBVIOUS
<1>3. \A a, b, t \in Int : (a + b) * t = a * t + b * t
  OBVIOUS
<1>4. \A t \in Int : 0 * t = 0 /\ 1 * t = t
  OBVIOUS
<1> QED BY <1>1, <1>2, <1>3, <1>4 DEF Ttl, LongestLife

\* The slots passed whole after the current one.
LEMMA ClearedOK ==
  ASSUME NEW s \in 0 .. Ttl + 1, s >= SlotTime
  PROVE  /\ ClearedBy(s) \in 0 .. Slots
         /\ s > ClearedBy(s) * SlotTime
         /\ s <= (ClearedBy(s) + 1) * SlotTime
<1> DEFINE p == (s - 1) \div SlotTime
<1>1. \A n \in Nat, t \in Nat \ {0} :
        n \div t \in Nat /\ n >= (n \div t) * t /\ n < (n \div t) * t + t
  OBVIOUS
<1>2. s \in Int /\ s - 1 \in Nat /\ s - 1 <= Slots * SlotTime
  BY TimesSlotTime
<1>3. p \in Nat /\ s - 1 >= p * SlotTime /\ s - 1 < p * SlotTime + SlotTime
  BY <1>1, <1>2, TimesSlotTime
<1> HIDE DEF p
<1>4. (p + 1) * SlotTime = p * SlotTime + SlotTime /\ p * SlotTime \in Int
  BY <1>3, TimesSlotTime
<1>5. p <= Slots
  <2>1. p >= Slots + 1 => p * SlotTime >= (Slots + 1) * SlotTime
    BY <1>3, TimesSlotTime
  <2>2. (Slots + 1) * SlotTime = Slots * SlotTime + SlotTime /\ Slots * SlotTime \in Int
    BY TimesSlotTime
  <2> QED BY <1>2, <1>3, <1>4, <2>1, <2>2, TimesSlotTime
<1>6. ClearedBy(s) = p
  BY <1>5 DEF ClearedBy, p
<1> QED BY <1>2, <1>3, <1>4, <1>5, <1>6, TimesSlotTime

\* advance() keeps the ages of a call in the slot it is then in.
LEMMA AgeAdvances ==
  ASSUME NEW s \in 0 .. Ttl + 1, s >= SlotTime,
         NEW k \in Nat, NEW a \in Int, AgeFits(s, k, a)
  PROVE  AgeFits(0, Seen(s, k), a) /\ Seen(s, k) = k + 1 + ClearedBy(s)
<1> DEFINE c == ClearedBy(s)
           m == k + 1 + c
<1>1. c \in 0 .. Slots /\ s > c * SlotTime /\ s <= (c + 1) * SlotTime
  BY ClearedOK
<1>2. Seen(s, k) = m /\ Seen(0, m) = m /\ s \in Int
  BY TimesSlotTime DEF Seen
<1> HIDE DEF c
<1>3. a >= ((m - 1) \div 2) * SlotTime
  <2>1. CASE k = 0
    <3>1. a + SlotTime > s
      BY <2>1 DEF AgeFits
    <3>2. CASE c <= 1
      <4>1. (m - 1) \div 2 = 0
        BY <1>1, <2>1, <3>2
      <4> QED BY <1>2, <3>1, <4>1, TimesSlotTime
    <3>3. CASE c > 1
      <4>1. (m - 1) \div 2 \in Int /\ (m - 1) \div 2 <= c - 1
        BY <1>1, <2>1, <3>3
      <4>2. ((m - 1) \div 2) * SlotTime <= (c - 1) * SlotTime
        BY <1>1, <4>1, TimesSlotTime
      <4>3. c * SlotTime = (c - 1) * SlotTime + SlotTime
        <5>1. c = (c - 1) + 1 /\ c - 1 \in Int
          BY <1>1
        <5> QED BY <5>1, TimesSlotTime
      <4>4. (c - 1) * SlotTime \in Int /\ ((m - 1) \div 2) * SlotTime \in Int
        BY <1>1, <4>1, TimesSlotTime
      <4> QED BY <1>1, <1>2, <3>1, <4>2, <4>3, <4>4, TimesSlotTime
    <3> QED BY <1>1, <3>2, <3>3
  <2>2. CASE k > 0
    <3> DEFINE h == (k - 1) \div 2
               d == IF c = 0 THEN 1 ELSE c
    <3>1. a >= s + h * SlotTime
      BY <2>2 DEF AgeFits
    <3>2. h \in Int /\ d \in Int /\ (m - 1) \div 2 \in Int /\ (m - 1) \div 2 <= h + d
      BY <1>1, <2>2
    <3>3. s >= d * SlotTime
      BY <1>1, <1>2, TimesSlotTime
    <3> HIDE DEF h, d
    <3>4. ((m - 1) \div 2) * SlotTime <= (h + d) * SlotTime
      BY <3>2, TimesSlotTime
    <3>5. /\ (h + d) * SlotTime = h * SlotTime + d * SlotTime
          /\ h * SlotTime \in Int /\ d * SlotTime \in Int /\ ((m - 1) \div 2) * SlotTime \in Int
      BY <3>2, TimesSlotTime
    <3> QED BY <1>2, <3>1, <3>3, <3>4, <3>5
  <2> QED BY <2>1, <2>2
<1>4. ASSUME Living(0, m) PROVE a <= m * SlotTime
  <2>1. a <= s + k * SlotTime
    BY <1>2, <1>4 DEF Living, AgeFits
  <2>2. m = k + (c + 1) /\ k \in Int /\ c + 1 \in Int
    BY <1>1
  <2>3. m * SlotTime = k * SlotTime + (c + 1) * SlotTime
    BY <2>2, TimesSlotTime
  <2>4. k * SlotTime \in Int /\ (c + 1) * SlotTime \in Int
    BY <2>2, TimesSlotTime
  <2> QED BY <1>1, <1>2, <2>1, <2>3, <2>4
<1>5. m \in Nat /\ m > 0 /\ m * SlotTime \in Int /\ ((m - 1) \div 2) * SlotTime \in Int
  BY <1>1, TimesSlotTime
<1> HIDE DEF m
<1>6. AgeFits(0, m, a)
  BY <1>3, <1>4, <1>5 DEF AgeFits
<1> QED BY <1>2, <1>6 DEF c, m

\* No slot counts again once it does not.
LEMMA LivingBefore ==
  ASSUME NEW s \in 0 .. Ttl + 1, NEW k \in Nat,
         NEW t, t = IF s <= Ttl THEN s + 1 ELSE s, Living(t, k)
  PROVE  Living(s, k) /\ s <= Ttl
<1> USE TimesSlotTime
<1>0. t \in 0 .. Ttl + 1 /\ s <= t /\ t <= s + 1 /\ s \in Int
  OBVIOUS
<1>1. CASE t < SlotTime
  <2>1. s < SlotTime /\ SlotTime <= Ttl
    BY <1>0, <1>1
  <2> QED BY <1>0, <1>1, <2>1 DEF Living, Seen
<1>2. CASE t >= SlotTime /\ s < SlotTime
  <2>1. ClearedBy(t) \in 0 .. Slots /\ k + 1 + ClearedBy(t) <= Slots
    BY <1>0, <1>2, ClearedOK DEF Living, Seen
  <2>2. Slots >= 1 /\ SlotTime <= Slots * SlotTime
    OBVIOUS
  <2> QED BY <1>0, <1>2, <2>1, <2>2 DEF Living, Seen
<1>3. CASE s >= SlotTime
  <2> DEFINE c == ClearedBy(s)
             d == ClearedBy(t)
  <2>1. c \in 0 .. Slots /\ s > c * SlotTime
    BY <1>3, ClearedOK
  <2>2. d \in 0 .. Slots /\ t <= (d + 1) * SlotTime
    <3>1. t >= SlotTime
      BY <1>0, <1>3
    <3> QED BY <1>0, <3>1, ClearedOK
  <2>3. k + 1 + d <= Slots
    BY <1>0, <1>3 DEF Living, Seen
  <2> HIDE DEF c, d
  <2>4. c <= d
    <3>1. d + 1 <= c => (d + 1) * SlotTime <= c * SlotTime
      BY <2>1, <2>2
    <3>2. (d + 1) * SlotTime \in Int /\ c * SlotTime \in Int
      BY <2>1, <2>2
    <3> QED BY <1>0, <2>1, <2>2, <3>1, <3>2
  <2>5. Living(s, k)
    BY <1>0, <1>3, <2>1, <2>2, <2>3, <2>4 DEF Living, Seen, c
  <2>6. (d + 1) * SlotTime <= Slots * SlotTime /\ (d + 1) * SlotTime \in Int
    BY <2>2, <2>3
  <2> QED BY <1>0, <2>2, <2>5, <2>6
<1> QED BY <1>0, <1>1, <1>2, <1>3

\* A tick later the call is as much older as its slot.
LEMMA AgeTicks ==
  ASSUME NEW s \in 0 .. Ttl + 1, NEW k \in Nat, NEW a \in Int, AgeFits(s, k, a),
         NEW t, t = IF s <= Ttl THEN s + 1 ELSE s
  PROVE  AgeFits(t, k, a + 1)
<1>1. s \in Int /\ k * SlotTime \in Int /\ ((k - 1) \div 2) * SlotTime \in Int
      /\ SlotTime \in Int
  BY TimesSlotTime
<1>2. t = s + 1 \/ t = s
  OBVIOUS
<1>3. Living(t, k) => Living(s, k) /\ s <= Ttl
  BY LivingBefore
<1> QED BY <1>1, <1>2, <1>3 DEF AgeFits

\* A call is only forgotten once its slot is no longer counted ...
LEMMA LivingIsYoung ==
  ASSUME NEW s \in 0 .. Ttl + 1, NEW k \in Nat, NEW a \in Int, AgeFits(s, k, a),
         Living(s, k)
  PROVE  a < LongestLife
<1> USE TimesSlotTime
<1>1. a <= s + k * SlotTime /\ k * SlotTime \in Int /\ s \in Int
  BY DEF AgeFits
<1>2. CASE s < SlotTime
  <2>1. k * SlotTime <= Slots * SlotTime /\ Slots * SlotTime \in Int
    BY <1>2 DEF Living, Seen
  <2> QED BY <1>1, <1>2, <2>1
<1>3. CASE s >= SlotTime
  <2> DEFINE c == ClearedBy(s)
  <2>1. c \in 0 .. Slots /\ s <= (c + 1) * SlotTime
    BY <1>3, ClearedOK
  <2>2. k + (c + 1) <= Slots
    BY <1>1, <1>3, <2>1 DEF Living, Seen
  <2> HIDE DEF c
  <2>3. (k + (c + 1)) * SlotTime = k * SlotTime + (c + 1) * SlotTime
    BY <2>1
  <2>4. (k + (c + 1)) * SlotTime <= Slots * SlotTime
    BY <2>1, <2>2
  <2>5. (c + 1) * SlotTime \in Int /\ Slots * SlotTime \in Int
    BY <2>1
  <2> QED BY <1>1, <2>1, <2>3, <2>4, <2>5
<1> QED BY <1>1, <1>2, <1>3

\* ... and its slot is counted for half the ring at least.
LEMMA DeadIsOld ==
  ASSUME NEW s \in 0 .. Ttl + 1, NEW k \in Nat, NEW a \in Int, AgeFits(s, k, a),
         ~Living(s, k)
  PROVE  a >= ShortestLife
<1> DEFINE h == (Slots \div 2) * SlotTime
<1>1. s \in Int /\ Slots \in Nat \ {0} /\ SlotTime \in Nat \ {0} /\ h \in Int
      /\ Slots \div 2 \in Nat /\ Slots \div 2 <= Slots - 1
  BY TimesSlotTime
<1>2. \A i \in Int : i >= Slots \div 2 => i * SlotTime >= h /\ i * SlotTime \in Int
  BY <1>1, TimesSlotTime
<1>3. CASE s < SlotTime
  <2>1. k > Slots
    BY <1>1, <1>3 DEF Living, Seen
  <2>2. (k - 1) \div 2 \in Int /\ (k - 1) \div 2 >= Slots \div 2
    BY <1>1, <2>1
  <2>3. a >= s + ((k - 1) \div 2) * SlotTime
    BY <1>1, <2>1 DEF AgeFits
  <2> QED BY <1>1, <1>2, <2>2, <2>3 DEF ShortestLife
<1>4. CASE s >= SlotTime
  <2> DEFINE c == ClearedBy(s)
  <2>1. c \in 0 .. Slots /\ s > c * SlotTime
    BY <1>4, ClearedOK
  <2>2. k + 1 + c > Slots
    BY <1>1, <1>4, <2>1 DEF Living, Seen
  <2> HIDE DEF c
  <2>3. CASE k = 0
    <3>1. c = Slots /\ a + SlotTime > s
      BY <1>1, <2>1, <2>2, <2>3 DEF AgeFits
    <3>2. Slots * SlotTime = (Slots - 1) * SlotTime + SlotTime
      <4>1. Slots = (Slots - 1) + 1 /\ Slots - 1 \in Int
        BY <1>1
      <4> QED BY <4>1, TimesSlotTime
    <3>3. (Slots - 1) * SlotTime >= h /\ (Slots - 1) * SlotTime \in Int
      BY <1>1, <1>2
    <3> QED BY <1>1, <2>1, <3>1, <3>2, <3>3 DEF ShortestLife
  <2>4. CASE k > 0
    <3> DEFINE d == IF c = 0 THEN 1 ELSE c
               m == (k - 1) \div 2
    <3>1. a >= s + m * SlotTime
      BY <2>4 DEF AgeFits
    <3>2. s >= d * SlotTime /\ d \in Int /\ m \in Int /\ d + m >= Slots \div 2
      BY <1>1, <1>4, <2>1, <2>2, <2>4, TimesSlotTime
    <3> HIDE DEF d, m
    <3>3. (d + m) * SlotTime = d * SlotTime + m * SlotTime
          /\ d * SlotTime \in Int /\ m * SlotTime \in Int
      BY <3>2, TimesSlotTime
    <3>4. (d + m) * SlotTime >= h
      BY <1>2, <3>2
    <3> QED BY <1>1, <3>1, <3>2, <3>3, <3>4 DEF ShortestLife
  <2> QED BY <1>1, <2>3, <2>4
<1> QED BY <1>1, <1>3, <1>4

-----------------------------------------------------------------------------
(* The ring and what its slots add up to.                                    *)

LEMMA BackOK ==
  ASSUME NEW g \in 0 .. Slots - 1
  PROVE  /\ \A i \in 0 .. Slots - 1 : Back(g, i) \in 1 .. Slots
         /\ \A i, j \in 0 .. Slots - 1 : Back(g, i) = Back(g, j) => i = j
         /\ \A k \in 1 .. Slots : \E i \in 0 .. Slots - 1 : Back(g, i) = k
<1> DEFINE place(k) == IF k <= g THEN g - k ELSE g - k + Slots
<1>1. \A k \in 1 .. Slots : place(k) \in 0 .. Slots - 1 /\ Back(g, place(k)) = k
  BY SlotsOK DEF Back
<1>2. /\ \A i \in 0 .. Slots - 1 : Back(g, i) \in 1 .. Slots
      /\ \A i, j \in 0 .. Slots - 1 : Back(g, i) = Back(g, j) => i = j
  BY SlotsOK DEF Back
<1> HIDE DEF place
<1> QED BY <1>1, <1>2

LEMMA AmountsOK ==
  /\ DepositAmount \in Nat /\ WithdrawAmount \in Nat \ {0} /\ Reserve \in Nat
  /\ LongestLife \in Nat \ {0} /\ Ttl \in Nat
<1>1. DepositAmount \in Nat
  BY DEF DepositAmount
<1>2. WithdrawAmount \in Nat \ {0}
  <2>1. \A m, n \in Nat \ {0} : m >= n => m \div n \in Nat \ {0}
    OBVIOUS
  <2>2. Permille # 0 => DepositAmount * 1000 \in Nat \ {0} /\ DepositAmount * 1000 >= Permille
    BY LoadOK, SMT DEF DepositAmount
  <2>3. Permille \in Nat
    BY LoadOK, SMT
  <2> QED BY <2>1, <2>2, <2>3 DEF WithdrawAmount
<1>3. Reserve \in Nat
  <2>1. \A m, n \in Nat : m * n \in Nat
    OBVIOUS
  <2>2. Baseline \in Nat
    BY LoadOK, SMT
  <2> QED BY <1>2, <2>1, <2>2 DEF Reserve
<1>4. LongestLife \in Nat \ {0} /\ Ttl \in Nat
  <2>1. \A m, n \in Nat \ {0} : m * n \in Nat /\ (m + 1) * n \in Nat \ {0}
    OBVIOUS
  <2> QED BY <2>1, SlotsOK DEF LongestLife, Ttl
<1> QED BY <1>1, <1>2, <1>3, <1>4


\* The fold that sums the buckets adds up any measure of the sets of them.
\* What the recursion of the fold gives is followed along the subsets of S, a
\* smallest one that is wrong being the contradiction.
LEMMA SumIsMeasure ==
  ASSUME NEW S, IsFiniteSet(S), NEW b \in [S -> Int], NEW v \in [SUBSET S -> Int],
         v[{}] = 0,
         \A s \in SUBSET S : \A i \in s : v[s] = b[i] + v[s \ {i}]
  PROVE  SumFunction(b) = v[S]
<1> DEFINE choice(s) == CHOOSE x \in s : TRUE
           Sums(f) == f = [s \in SUBSET S |->
             IF s = {} THEN 0 ELSE b[choice(s)] + f[s \ {choice(s)}]]
           sum == CHOOSE f : Sums(f)
           Wrong == {s \in SUBSET S : sum[s] # v[s]}
<1>1. Sums(v)
  <2>1. \A s \in SUBSET S : s # {} => choice(s) \in s
    OBVIOUS
  <2>2. \A s \in SUBSET S : s # {} => v[s] = b[choice(s)] + v[s \ {choice(s)}]
    BY <2>1
  <2> HIDE DEF choice
  <2> QED BY <2>2
<1>2. Sums(sum)
  <2> HIDE DEF Sums
  <2> QED BY <1>1
<1>3. SumFunction(b) = sum[S]
  BY DEF SumFunction, SumFunctionOnSet, FoldFunctionOnSet, MapThenFoldSet
<1> HIDE DEF sum
<1>4. ASSUME NEW s \in Wrong PROVE \E t \in Wrong : t \subseteq s /\ t # s
  <2>1. s # {} /\ choice(s) \in s /\ s \in SUBSET S
    BY <1>2, <1>4
  <2>2. sum[s] = b[choice(s)] + sum[s \ {choice(s)}]
    BY <1>2, <2>1
  <2>3. v[s] = b[choice(s)] + v[s \ {choice(s)}]
    BY <2>1
  <2>4. sum[s \ {choice(s)}] # v[s \ {choice(s)}]
    BY <2>2, <2>3, <1>4
  <2> QED BY <2>1, <2>4
<1>5. Wrong = {}
  <2>1. Wrong \subseteq FiniteSubsetsOf(S)
    BY FS_Subset DEF FiniteSubsetsOf
  <2>2. ASSUME Wrong # {}
        PROVE  \E s \in Wrong : \A t \in Wrong : ~(<<t, s>> \in StrictSubsetOrdering(S))
    <3> HIDE DEF Wrong
    <3> QED BY <2>1, <2>2, FS_StrictSubsetOrderingWellFounded, WFMin
  <2>3. Wrong \subseteq SUBSET S
    OBVIOUS
  <2> HIDE DEF Wrong
  <2> SUFFICES ASSUME NEW s \in Wrong,
                      \A t \in Wrong : ~(<<t, s>> \in StrictSubsetOrdering(S))
               PROVE  FALSE
    BY <2>2
  <2>4. PICK t \in Wrong : t \subseteq s /\ t # s
    BY <1>4
  <2> QED BY <2>3, <2>4 DEF StrictSubsetOrdering
<1> QED BY <1>3, <1>5

\* Amounts add up over disjoint sets of calls.
LEMMA AmountAdds ==
  ASSUME NEW L \in Seq(Calls), NEW S \in SUBSET (1 .. Len(L)), NEW T \in SUBSET (1 .. Len(L)),
         S \cap T = {}
  PROVE  /\ Amount(L, S) \in Int
         /\ Amount(L, S \cup T) = Amount(L, S) + Amount(L, T)
<1>1. ASSUME NEW kind
      PROVE  /\ Cardinality(OfKind(L, S, kind)) \in Nat
             /\ Cardinality(OfKind(L, T, kind)) \in Nat
             /\ Cardinality(OfKind(L, S \cup T, kind))
                  = Cardinality(OfKind(L, S, kind)) + Cardinality(OfKind(L, T, kind))
  <2>1. IsFiniteSet(1 .. Len(L))
    BY FS_Interval
  <2>2. OfKind(L, S, kind) \subseteq 1 .. Len(L) /\ OfKind(L, T, kind) \subseteq 1 .. Len(L)
    BY DEF OfKind
  <2>3. IsFiniteSet(OfKind(L, S, kind)) /\ IsFiniteSet(OfKind(L, T, kind))
    BY <2>1, <2>2, FS_Subset
  <2>4. /\ OfKind(L, S \cup T, kind) = OfKind(L, S, kind) \cup OfKind(L, T, kind)
        /\ OfKind(L, S, kind) \cap OfKind(L, T, kind) = {}
    BY DEF OfKind
  <2>5. /\ Cardinality(OfKind(L, S, kind)) \in Nat
        /\ Cardinality(OfKind(L, T, kind)) \in Nat
    BY <2>3, FS_CardinalityType
  <2>6. Cardinality(OfKind(L, S, kind) \cup OfKind(L, T, kind))
          = Cardinality(OfKind(L, S, kind)) + Cardinality(OfKind(L, T, kind))
            - Cardinality(OfKind(L, S, kind) \cap OfKind(L, T, kind))
    BY <2>3, FS_Union
  <2>7. Cardinality(OfKind(L, S, kind) \cap OfKind(L, T, kind)) = 0
    BY <2>4, FS_EmptySet
  <2>8. Cardinality(OfKind(L, S \cup T, kind))
          = Cardinality(OfKind(L, S, kind) \cup OfKind(L, T, kind))
    BY <2>4, Zenon
  <2>9. \A m, n \in Nat : m + n - 0 = m + n
    OBVIOUS
  <2> QED BY <2>5, <2>6, <2>7, <2>8, <2>9, Zenon
<1>2. \A d, w, i, j, m, n \in Int :
        /\ d * i - w * j \in Int
        /\ d * (i + m) - w * (j + n) = (d * i - w * j) + (d * m - w * n)
  OBVIOUS
<1> DEFINE n(U, kind) == Cardinality(OfKind(L, U, kind))
<1>3. \A kind : /\ n(S, kind) \in Nat /\ n(T, kind) \in Nat
                /\ n(S \cup T, kind) = n(S, kind) + n(T, kind)
  BY <1>1, Zenon
<1>4. \A U : Amount(L, U) = DepositAmount * n(U, "deposit") - WithdrawAmount * n(U, "withdraw")
  BY DEF Amount
<1> HIDE DEF n
<1>5. n(S, "deposit") \in Int /\ n(T, "deposit") \in Int
      /\ n(S, "withdraw") \in Int /\ n(T, "withdraw") \in Int
      /\ DepositAmount \in Int /\ WithdrawAmount \in Int
  BY <1>3, AmountsOK
<1>6. Amount(L, S \cup T)
        = DepositAmount * (n(S, "deposit") + n(T, "deposit"))
          - WithdrawAmount * (n(S, "withdraw") + n(T, "withdraw"))
  BY <1>3, <1>4, Zenon
<1> QED BY <1>2, <1>4, <1>5, <1>6

LEMMA AmountOfNone ==
  ASSUME NEW L
  PROVE  Amount(L, {}) = 0
<1>1. \A kind : OfKind(L, {}, kind) = {}
  BY DEF OfKind
<1> QED BY <1>1, FS_EmptySet, AmountsOK DEF Amount

\* The buckets add up to the calls of the slots they are.
LEMMA SumIsAmount ==
  ASSUME NEW L \in Seq(Calls), NEW f \in [1 .. Len(L) -> Nat], NEW g \in 0 .. Slots - 1,
         NEW b \in [0 .. Slots - 1 -> Int],
         \A i \in 0 .. Slots - 1 : b[i] = Amount(L, At(L, f, Back(g, i)))
  PROVE  SumFunction(b) = Amount(L, {j \in 1 .. Len(L) : f[j] \in 1 .. Slots})
<1> DEFINE S == 0 .. Slots - 1
           Held(s) == {j \in 1 .. Len(L) : \E i \in s : f[j] = Back(g, i)}
           v == [s \in SUBSET S |-> Amount(L, Held(s))]
<1>1. IsFiniteSet(S)
  BY FS_Interval, SlotsOK
<1>2. v \in [SUBSET S -> Int]
  <2>1. \A s : Held(s) \in SUBSET (1 .. Len(L)) /\ {} \in SUBSET (1 .. Len(L))
    OBVIOUS
  <2> HIDE DEF Held
  <2>2. \A s : Held(s) \cap {} = {}
    OBVIOUS
  <2>3. \A s : Amount(L, Held(s)) \in Int
    BY <2>1, <2>2, AmountAdds
  <2> QED BY <2>3
<1>3. v[{}] = 0
  <2>1. Held({}) = {}
    OBVIOUS
  <2> QED BY <2>1, AmountOfNone
<1>4. ASSUME NEW s \in SUBSET S, NEW i \in s PROVE v[s] = b[i] + v[s \ {i}]
  <2> DEFINE A == At(L, f, Back(g, i))
             B == Held(s \ {i})
  <2>1. Held(s) = A \cup B
    BY DEF At
  <2>2. A \cap B = {}
    BY BackOK DEF At
  <2>3. A \in SUBSET (1 .. Len(L)) /\ B \in SUBSET (1 .. Len(L))
    BY DEF At
  <2>4. b[i] = Amount(L, A) /\ s \ {i} \in SUBSET S
    OBVIOUS
  <2> HIDE DEF A, B, Held
  <2>5. Amount(L, A \cup B) = Amount(L, A) + Amount(L, B)
    BY <2>2, <2>3, AmountAdds
  <2> QED BY <2>1, <2>4, <2>5 DEF B
<1>5. Held(S) = {j \in 1 .. Len(L) : f[j] \in 1 .. Slots}
  BY BackOK
<1> HIDE DEF Held
<1>6. v[S] = Amount(L, Held(S))
  OBVIOUS
<1>7. \A s \in SUBSET S : \A i \in s : v[s] = b[i] + v[s \ {i}]
  BY <1>4
<1>8. b \in [S -> Int]
  OBVIOUS
<1> HIDE DEF v, S
<1>9. SumFunction(b) = v[S]
  BY <1>1, <1>2, <1>3, <1>7, <1>8, SumIsMeasure
<1> QED BY <1>5, <1>6, <1>9

\* Where advance() leaves a bucket: cleared ones hold none of the calls, and
\* the others are as much further back as gen_index went on.
LEMMA RingTurns ==
  ASSUME NEW g \in 0 .. Slots - 1, NEW i \in 0 .. Slots - 1, NEW c \in 0 .. Slots
  PROVE  /\ (g + 1 + c) % Slots \in 0 .. Slots - 1
         /\ (\E k \in 1 .. c : i = (g + k) % Slots) => Back((g + 1 + c) % Slots, i) <= c
         /\ ~(\E k \in 1 .. c : i = (g + k) % Slots) =>
              /\ c < Slots
              /\ Back((g + 1 + c) % Slots, i) = (IF i = g THEN 0 ELSE Back(g, i)) + 1 + c
<1> DEFINE n == Slots
           h == (g + 1 + c) % n
           cleared == \E k \in 1 .. c : i = (g + k) % n
<1>1. n \in Nat \ {0} /\ g \in 0 .. n - 1 /\ i \in 0 .. n - 1 /\ c \in 0 .. n
  BY SlotsOK
<1>2. /\ \A a \in Nat, m \in Nat \ {0} : a % m \in 0 .. m - 1
      /\ \A a \in Nat, m \in Nat \ {0} : a < m => a % m = a
      /\ \A a \in Nat, m \in Nat \ {0} : m <= a /\ a < m + m => a % m = a - m
  OBVIOUS
<1>3. h \in 0 .. n - 1
  BY <1>1, <1>2
<1> HIDE DEF n
<1>4. ASSUME NEW a \in 0 .. n + n - 1
      PROVE  (a < n => a % n = a) /\ (~(a < n) => a % n = a - n)
  <2>1. a \in Nat /\ n \in Nat \ {0} /\ a < n + n
    BY <1>1
  <2>2. a < n => a % n = a
    BY <1>2, <2>1, Zenon
  <2>3. ASSUME ~(a < n) PROVE a % n = a - n
    <3>1. n <= a
      BY <2>1, <2>3
    <3> QED BY <1>2, <2>1, <3>1, Zenon
  <2> QED BY <2>2, <2>3, Zenon
<1>5. ASSUME c < n
      PROVE  h = IF g + 1 + c < n THEN g + 1 + c ELSE g + 1 + c - n
  <2> DEFINE a == g + 1 + c
  <2>1. a \in 0 .. n + n - 1 /\ h = a % n
    BY <1>1, <1>5
  <2> HIDE DEF a, h
  <2>2. (a < n => a % n = a) /\ (~(a < n) => a % n = a - n)
    BY <1>4, <2>1
  <2>3. h = IF a < n THEN a ELSE a - n
    BY <2>1, <2>2
  <2> QED BY <1>1, <2>3 DEF a
<1> HIDE DEF h
<1>6. ASSUME cleared PROVE Back(h, i) <= c
  <2>1. CASE c = n
    BY <1>1, <1>3, <2>1 DEF Back, n
  <2>2. CASE c < n
    <3>1. PICK k \in 1 .. c : i = (g + k) % n
      BY <1>6
    <3> DEFINE a == g + k
    <3>2. a \in 0 .. n + n - 1 /\ i = a % n
      BY <1>1, <3>1
    <3> HIDE DEF a
    <3>3. (a < n => a % n = a) /\ (~(a < n) => a % n = a - n)
      BY <1>4, <3>2
    <3>4. i = IF a < n THEN a ELSE a - n
      BY <3>2, <3>3
    <3> QED BY <1>1, <1>5, <2>2, <3>4 DEF Back, n, a
  <2> QED BY <1>1, <2>1, <2>2
<1>7. ASSUME ~cleared
      PROVE  c < n /\ Back(h, i) = (IF i = g THEN 0 ELSE Back(g, i)) + 1 + c
  <2> DEFINE k == IF i > g THEN i - g ELSE i - g + n
             a == g + k
  <2>1. k \in 1 .. n /\ a \in 0 .. n + n - 1 /\ i = IF a < n THEN a ELSE a - n
    BY <1>1
  <2> HIDE DEF k, a
  <2>2. i = (g + k) % n
    <3>1. (a < n => a % n = a) /\ (~(a < n) => a % n = a - n)
      BY <1>4, <2>1
    <3>2. i = a % n
      BY <2>1, <3>1
    <3> QED BY <3>2 DEF a
  <2>3. k \notin 1 .. c
    BY <1>7, <2>2
  <2>4. k > c
    BY <1>1, <2>1, <2>3
  <2>5. c < n
    BY <1>1, <2>1, <2>4
  <2> QED BY <1>1, <1>5, <2>4, <2>5 DEF Back, n, k, a
<1> QED BY <1>3, <1>6, <1>7 DEF h, n

LEMMA AdvancedOK ==
  ASSUME BudgetTypeOK
  PROVE  /\ Advanced.buckets \in [0 .. Slots - 1 -> Int] /\ Advanced.writer \in Int
         /\ Advanced.genIndex \in 0 .. Slots - 1
         /\ Advanced.since \in 0 .. Ttl + 1 /\ Advanced.since < SlotTime
<1>1. CASE since < SlotTime
  BY <1>1 DEF Advanced, BudgetTypeOK
<1>2. CASE ~(since < SlotTime)
  <2>1. ClearedSlots \in 0 .. Slots
    <3>1. since \in 0 .. Ttl + 1 /\ since >= SlotTime
      BY <1>2, TimesSlotTime DEF BudgetTypeOK
    <3>2. ClearedBy(since) \in 0 .. Slots
      BY <3>1, ClearedOK
    <3> QED BY <3>2 DEF ClearedBy, ClearedSlots
  <2>2. NextIndex \in 0 .. Slots - 1
    BY <2>1, RingTurns DEF BudgetTypeOK, NextIndex
  <2>3. 0 \in 0 .. Ttl + 1 /\ 0 < SlotTime
    BY TimesSlotTime
  <2> QED BY <1>2, <2>2, <2>3 DEF Advanced, BudgetTypeOK
<1> QED BY <1>1, <1>2

\* advance() moves every call as far back as it moves the writer.
LEMMA AdvanceFits ==
  ASSUME BudgetTypeOK, NEW f, Fits(buckets, writer, genIndex, since, log, f)
  PROVE  \E h : Fits(Advanced.buckets, Advanced.writer, Advanced.genIndex, Advanced.since, log, h)
<1>1. CASE since < SlotTime
  BY <1>1 DEF Advanced
<1>2. CASE ~(since < SlotTime)
  <2> DEFINE c == ClearedBy(since)
             h == [j \in 1 .. Len(log) |-> Seen(since, f[j])]
             new == Advanced
  <2>1. /\ c \in 0 .. Slots /\ c = ClearedSlots
        /\ since \in 0 .. Ttl + 1 /\ since >= SlotTime
    <3>1. since \in 0 .. Ttl + 1 /\ since >= SlotTime
      BY <1>2, TimesSlotTime DEF BudgetTypeOK
    <3>2. ClearedBy(since) \in 0 .. Slots
      BY <3>1, ClearedOK
    <3> QED BY <3>1, <3>2 DEF ClearedBy, ClearedSlots
  <2>2. \A k \in Nat : Seen(since, k) = k + 1 + c
    BY <1>2 DEF Seen
  <2>3. \A k \in Nat : Seen(0, k) = k
    BY TimesSlotTime DEF Seen
  <2>4. f \in [1 .. Len(log) -> Nat] /\ log \in Seq(Calls)
    BY DEF Fits, BudgetTypeOK, Calls
  <2> HIDE DEF c
  <2>5. h \in [1 .. Len(log) -> Nat]
        /\ \A j \in 1 .. Len(log) : f[j] \in Nat /\ h[j] = f[j] + 1 + c
    <3>1. \A j \in 1 .. Len(log) : f[j] \in Nat
      BY <2>4
    <3>2. \A k \in Nat : k + 1 + c \in Nat
      BY <2>1
    <3> QED BY <2>2, <3>1, <3>2
  <2> HIDE DEF h
  <2>6. /\ \A k \in Nat : k <= c => At(log, h, k) = {}
        /\ \A k \in Nat : At(log, h, k + 1 + c) = At(log, f, k)
    BY <2>1, <2>5 DEF At
  <2>7. /\ new.writer = 0 /\ new.since = 0
        /\ new.genIndex = (genIndex + 1 + c) % Slots
        /\ \A i \in 0 .. Slots - 1 : new.buckets[i] =
             IF \E k \in 1 .. c : i = (genIndex + k) % Slots THEN 0
             ELSE IF i = genIndex THEN writer ELSE buckets[i]
    BY <1>2, <2>1 DEF Advanced, NextIndex
  <2> HIDE DEF new
  <2>8. 0 = Amount(log, At(log, h, 0))
    BY <2>1, <2>6, AmountOfNone
  <2>9. ASSUME NEW i \in 0 .. Slots - 1
        PROVE  new.buckets[i] = Amount(log, At(log, h, Back(new.genIndex, i)))
    <3> DEFINE b == Back(new.genIndex, i)
               cleared == \E k \in 1 .. c : i = (genIndex + k) % Slots
    <3>1. /\ new.genIndex \in 0 .. Slots - 1
          /\ cleared => b <= c
          /\ ~cleared => c < Slots /\ b = (IF i = genIndex THEN 0 ELSE Back(genIndex, i)) + 1 + c
      <4>1. genIndex \in 0 .. Slots - 1 /\ new.genIndex = (genIndex + 1 + c) % Slots
        BY <2>7 DEF BudgetTypeOK
      <4> DEFINE next == (genIndex + 1 + c) % Slots
      <4>2. /\ next \in 0 .. Slots - 1
            /\ cleared => Back(next, i) <= c
            /\ ~cleared => c < Slots /\ Back(next, i) = (IF i = genIndex THEN 0 ELSE Back(genIndex, i)) + 1 + c
        <5>1. genIndex \in 0 .. Slots - 1 /\ i \in 0 .. Slots - 1 /\ c \in 0 .. Slots
          BY <2>1, <4>1
        <5> QED BY <5>1, RingTurns, Zenon
      <4>3. new.genIndex = next
        BY <4>1
      <4> HIDE DEF next
      <4> QED BY <4>2, <4>3
    <3>2. b \in 1 .. Slots /\ Back(genIndex, i) \in 1 .. Slots
      BY <3>1, BackOK DEF BudgetTypeOK
    <3> HIDE DEF b
    <3>3. CASE cleared
      <4>1. At(log, h, b) = {}
        BY <2>6, <3>1, <3>2, <3>3
      <4> QED BY <2>7, <3>3, <4>1, AmountOfNone DEF b
    <3>4. CASE ~cleared /\ i = genIndex
      <4>1. Living(since, 0)
        <5>1. Seen(since, 0) = 1 + c /\ c + 1 <= Slots
          BY <2>1, <2>2, <3>1, <3>4, TimesSlotTime
        <5> QED BY <2>1, <5>1 DEF Living
      <4>2. At(log, h, b) = At(log, f, 0)
        BY <2>6, <3>1, <3>4
      <4> QED BY <2>7, <3>4, <4>1, <4>2 DEF Fits, b
    <3>5. CASE ~cleared /\ i # genIndex
      <4>1. Living(since, Back(genIndex, i))
        BY <2>1, <2>2, <3>1, <3>2, <3>5 DEF Living
      <4>2. At(log, h, b) = At(log, f, Back(genIndex, i))
        BY <2>6, <3>1, <3>2, <3>5
      <4> QED BY <2>7, <3>5, <4>1, <4>2 DEF Fits, b
    <3> QED BY <3>3, <3>4, <3>5
  <2>10. ASSUME NEW j \in 1 .. Len(log) PROVE AgeFits(0, h[j], log[j].age)
    <3>1. AgeFits(since, f[j], log[j].age) /\ log[j].age \in Int /\ f[j] \in Nat
      <4>1. log[j] \in Calls
        BY <2>4
      <4>2. log[j].age \in Int
        BY <4>1, TimesSlotTime DEF Calls
      <4> QED BY <2>5, <4>2 DEF Fits
    <3>2. AgeFits(0, Seen(since, f[j]), log[j].age)
      BY <2>1, <3>1, AgeAdvances
    <3> QED BY <3>2 DEF h
  <2>11. Fits(new.buckets, new.writer, new.genIndex, new.since, log, h)
    BY <2>5, <2>7, <2>8, <2>9, <2>10 DEF Fits
  <2> QED BY <2>11 DEF new
<1> QED BY <1>1, <1>2

\* A call is written to the writer.
LEMMA AppendFits ==
  ASSUME NEW L \in Seq(Calls), NEW b, NEW w \in Int, NEW g \in 0 .. Slots - 1,
         NEW s \in Nat, s < SlotTime, NEW f, Fits(b, w, g, s, L, f),
         NEW kind \in {"deposit", "withdraw"}
  PROVE  LET amount == IF kind = "deposit" THEN DepositAmount ELSE - WithdrawAmount
             M == Append(L, [kind |-> kind, age |-> 0])
         IN  M \in Seq(Calls) /\ \E h : Fits(b, w + amount, g, s, M, h)
<1> DEFINE amount == IF kind = "deposit" THEN DepositAmount ELSE - WithdrawAmount
           M == Append(L, [kind |-> kind, age |-> 0])
           n == Len(L) + 1
           h == [j \in 1 .. n |-> IF j = n THEN 0 ELSE f[j]]
<1>1. [kind |-> kind, age |-> 0] \in Calls
  BY TimesSlotTime DEF Calls
<1>2. /\ M \in Seq(Calls) /\ Len(L) \in Nat /\ Len(M) = n
      /\ M[n] = [kind |-> kind, age |-> 0]
      /\ \A j \in 1 .. Len(L) : M[j] = L[j]
  BY <1>1
<1>3. f \in [1 .. Len(L) -> Nat]
  BY DEF Fits
<1>4. /\ h \in [1 .. n -> Nat] /\ h[n] = 0
      /\ \A j \in 1 .. Len(L) : h[j] = f[j]
  BY <1>2, <1>3
<1> HIDE DEF M, h
<1>5. \A S \in SUBSET (1 .. Len(L)) : Amount(M, S) = Amount(L, S)
  <2>1. \A S \in SUBSET (1 .. Len(L)) : \A k : OfKind(M, S, k) = OfKind(L, S, k)
    BY <1>2 DEF OfKind
  <2> QED BY <2>1, Zenon DEF Amount
<1>6. \A k : At(L, f, k) \in SUBSET (1 .. Len(L))
  BY DEF At
<1>7. \A k \in Nat \ {0} : At(M, h, k) = At(L, f, k)
  BY <1>2, <1>4 DEF At
<1>8. At(M, h, 0) = At(L, f, 0) \cup {n} /\ At(L, f, 0) \cap {n} = {}
  BY <1>2, <1>4 DEF At
<1>9. Amount(M, {n}) = amount
  <2>1. \A k : OfKind(M, {n}, k) = IF k = kind THEN {n} ELSE {}
    BY <1>2 DEF OfKind
  <2>2. Cardinality({n}) = 1 /\ Cardinality({}) = 0
    BY FS_Singleton, FS_EmptySet
  <2>3. CASE kind = "deposit"
    <3>1. OfKind(M, {n}, "deposit") = {n} /\ OfKind(M, {n}, "withdraw") = {}
      BY <2>1, <2>3
    <3>2. Amount(M, {n}) = DepositAmount * 1 - WithdrawAmount * 0
      BY <2>2, <3>1, Zenon DEF Amount
    <3> QED BY <2>3, <3>2, AmountsOK
  <2>4. CASE kind = "withdraw"
    <3>1. OfKind(M, {n}, "deposit") = {} /\ OfKind(M, {n}, "withdraw") = {n}
      BY <2>1, <2>4
    <3>2. Amount(M, {n}) = DepositAmount * 0 - WithdrawAmount * 1
      BY <2>2, <3>1, Zenon DEF Amount
    <3> QED BY <2>4, <3>2, AmountsOK
  <2> QED BY <2>3, <2>4
<1>10. w + amount = Amount(M, At(M, h, 0))
  <2>1. Living(s, 0)
    BY TimesSlotTime DEF Living, Seen
  <2>2. w = Amount(M, At(L, f, 0))
    BY <1>5, <1>6, <2>1 DEF Fits
  <2>3. At(L, f, 0) \in SUBSET (1 .. Len(M)) /\ {n} \in SUBSET (1 .. Len(M))
    BY <1>2, <1>6
  <2>4. Amount(M, At(L, f, 0) \cup {n}) = Amount(M, At(L, f, 0)) + Amount(M, {n})
    BY <1>2, <1>8, <2>3, AmountAdds
  <2> QED BY <1>8, <1>9, <2>2, <2>4
<1>11. ASSUME NEW i \in 0 .. Slots - 1, Living(s, Back(g, i))
       PROVE  b[i] = Amount(M, At(M, h, Back(g, i)))
  <2>1. Back(g, i) \in Nat \ {0}
    <3>1. Back(g, i) \in 1 .. Slots
      BY BackOK
    <3> QED BY <3>1, TimesSlotTime
  <2>2. b[i] = Amount(L, At(L, f, Back(g, i)))
    BY <1>11 DEF Fits
  <2> QED BY <1>5, <1>6, <1>7, <2>1, <2>2
<1>12. ASSUME NEW j \in 1 .. Len(M) PROVE AgeFits(s, h[j], M[j].age)
  <2>1. CASE j = n
    BY <1>2, <1>4, <2>1, TimesSlotTime DEF AgeFits
  <2>2. CASE j # n
    <3>1. j \in 1 .. Len(L)
      BY <1>2, <2>2
    <3>2. AgeFits(s, f[j], L[j].age)
      BY <3>1 DEF Fits
    <3> QED BY <1>2, <1>4, <3>1, <3>2
  <2> QED BY <2>1, <2>2
<1>13. Fits(b, w + amount, g, s, M, h)
  BY <1>2, <1>4, <1>10, <1>11, <1>12 DEF Fits
<1> QED BY <1>2, <1>13 DEF M

\* A bijection of the calls that keeps their kinds keeps their amount.
LEMMA AmountKept ==
  ASSUME NEW L, NEW M, NEW R, NEW S, IsFiniteSet(R), NEW d \in Bijection(R, S),
         \A i \in R : M[i].kind = L[d[i]].kind
  PROVE  Amount(M, R) = Amount(L, S)
<1>1. /\ d \in [R -> S]
      /\ \A i, j \in R : d[i] = d[j] => i = j
      /\ \A k \in S : \E i \in R : d[i] = k
  BY DEF Bijection, Injection, Surjection, IsInjective
<1>2. ASSUME NEW kind
      PROVE  Cardinality(OfKind(M, R, kind)) = Cardinality(OfKind(L, S, kind))
  <2> DEFINE from == OfKind(M, R, kind)
             to == OfKind(L, S, kind)
             e == [i \in from |-> d[i]]
  <2>1. from \subseteq R /\ IsFiniteSet(from)
    BY FS_Subset DEF OfKind
  <2>2. /\ \A i \in R : i \in from <=> d[i] \in to
        /\ to \subseteq S
    BY <1>1 DEF OfKind
  <2> HIDE DEF from, to
  <2>3. e \in [from -> to]
    BY <2>1, <2>2
  <2>4. \A i, j \in from : e[i] = e[j] => i = j
    BY <1>1, <2>1
  <2>5. \A k \in to : \E i \in from : e[i] = k
    BY <1>1, <2>2
  <2> HIDE DEF e
  <2>6. e \in Bijection(from, to)
    BY <2>3, <2>4, <2>5 DEF Bijection, Injection, Surjection, IsInjective
  <2>7. ExistsBijection(from, to)
    BY <2>6 DEF ExistsBijection
  <2> QED BY <2>1, <2>7, FS_Bijection DEF from, to
<1>3. /\ Cardinality(OfKind(M, R, "deposit")) = Cardinality(OfKind(L, S, "deposit"))
      /\ Cardinality(OfKind(M, R, "withdraw")) = Cardinality(OfKind(L, S, "withdraw"))
  BY <1>2
<1> QED BY <1>3 DEF Amount

LEMMA FunctionIsSeq ==
  ASSUME NEW S, NEW m \in Nat, NEW F \in [1 .. m -> S]
  PROVE  F \in Seq(S) /\ Len(F) = m
OBVIOUS

\* What a tick does to the log: the first n calls are forgotten.
LEMMA LogTicks ==
  ASSUME NEW L \in Seq(Calls), NEW n \in 0 .. Len(L),
         \A i \in DOMAIN L : i <= n <=> L[i].age + 1 >= LongestLife,
         NEW M, M = [i \in 1 .. Len(L) - n |-> [kind |-> L[i + n].kind, age |-> L[i + n].age + 1]]
  PROVE  /\ M \in Seq(Calls) /\ Len(M) = Len(L) - n
         /\ \A i \in 1 .. Len(M) :
              i + n \in 1 .. Len(L) /\ M[i].kind = L[i + n].kind /\ M[i].age = L[i + n].age + 1
<1>a. Len(L) \in Nat /\ DOMAIN L = 1 .. Len(L) /\ Len(L) - n \in Nat
  OBVIOUS
<1>b. ASSUME NEW j \in 1 .. Len(L) PROVE L[j] \in Calls /\ L[j].age \in Nat
  <2>1. L[j] \in Calls
    OBVIOUS
  <2> QED BY <2>1, AmountsOK DEF Calls
<1>1. ASSUME NEW i \in 1 .. Len(L) - n
      PROVE  /\ i + n \in 1 .. Len(L) /\ M[i] \in Calls
             /\ M[i].kind = L[i + n].kind /\ M[i].age = L[i + n].age + 1
  <2>1. i + n \in 1 .. Len(L) /\ i + n > n
    OBVIOUS
  <2>2. L[i + n] \in Calls /\ L[i + n].age + 1 < LongestLife
    <3>1. L[i + n] \in Calls /\ L[i + n].age \in Nat
      BY <1>b, <2>1
    <3>2. ~(i + n <= n)
      BY <2>1
    <3>3. ~(L[i + n].age + 1 >= LongestLife)
      BY <1>a, <2>1, <3>2
    <3>4. LongestLife \in Nat
      BY AmountsOK
    <3>5. \A x, y \in Nat : ~(x + 1 >= y) => x + 1 < y
      OBVIOUS
    <3> QED BY <3>1, <3>3, <3>4, <3>5, Zenon
  <2>3. M[i] = [kind |-> L[i + n].kind, age |-> L[i + n].age + 1]
    OBVIOUS
  <2>4. L[i + n].age + 1 \in 0 .. LongestLife - 1
    <3>1. L[i + n].age \in Nat /\ LongestLife \in Nat
      BY <1>b, <2>1, AmountsOK
    <3> QED BY <2>2, <3>1
  <2> QED BY <2>1, <2>2, <2>3, <2>4 DEF Calls
<1>2. DOMAIN M = 1 .. Len(L) - n
  OBVIOUS
<1>3. M \in [1 .. Len(L) - n -> Calls]
  BY <1>1, Zenon
<1>4. M \in Seq(Calls) /\ Len(M) = Len(L) - n
  BY <1>a, <1>3, FunctionIsSeq
<1> QED BY <1>1, <1>4

\* A tick makes the calls older, and those it forgets are in no slot that counts.
LEMMA TickFits ==
  ASSUME NEW L \in Seq(Calls), NEW b, NEW w, NEW g \in 0 .. Slots - 1,
         NEW s \in 0 .. Ttl + 1, NEW f, Fits(b, w, g, s, L, f),
         NEW t, t = IF s <= Ttl THEN s + 1 ELSE s,
         NEW n \in 0 .. Len(L),
         \A i \in DOMAIN L : i <= n <=> L[i].age + 1 >= LongestLife,
         NEW M \in Seq(Calls), Len(M) = Len(L) - n,
         \A i \in 1 .. Len(M) :
           i + n \in 1 .. Len(L) /\ M[i].kind = L[i + n].kind /\ M[i].age = L[i + n].age + 1
  PROVE  \E h : Fits(b, w, g, t, M, h)
<1> DEFINE h == [i \in 1 .. Len(M) |-> f[i + n]]
<1>1. Len(L) \in Nat /\ DOMAIN L = 1 .. Len(L) /\ Len(L) - n \in Nat
  OBVIOUS
<1>2. ASSUME NEW j \in 1 .. Len(L)
      PROVE  /\ L[j] \in Calls /\ L[j].age \in Nat /\ f[j] \in Nat
             /\ AgeFits(s, f[j], L[j].age)
             /\ AgeFits(t, f[j], L[j].age + 1)
             /\ Living(t, f[j]) => j > n
  <2>1. L[j] \in Calls /\ L[j].age \in Nat /\ f[j] \in Nat /\ AgeFits(s, f[j], L[j].age)
    <3>1. L[j] \in Calls
      OBVIOUS
    <3>2. L[j].age \in Nat
      BY <3>1, AmountsOK DEF Calls
    <3> QED BY <3>1, <3>2 DEF Fits
  <2>2. AgeFits(t, f[j], L[j].age + 1)
    BY <2>1, AgeTicks
  <2>3. t \in 0 .. Ttl + 1
    BY AmountsOK
  <2>4. Living(t, f[j]) => L[j].age + 1 < LongestLife
    BY <2>1, <2>2, <2>3, LivingIsYoung
  <2>5. j <= n <=> L[j].age + 1 >= LongestLife
    BY <1>1
  <2>6. LongestLife \in Int
    BY AmountsOK
  <2> QED BY <2>1, <2>2, <2>4, <2>5, <2>6
<1>4. /\ h \in [1 .. Len(M) -> Nat]
      /\ \A i \in 1 .. Len(M) : h[i] = f[i + n]
  BY <1>2
<1> HIDE DEF h
<1>5. ASSUME NEW k \in Nat, Living(t, k)
      PROVE  Living(s, k) /\ Amount(M, At(M, h, k)) = Amount(L, At(L, f, k))
  <2>1. At(L, f, k) \in SUBSET ((n + 1) .. Len(L))
    BY <1>1, <1>2, <1>5 DEF At
  <2>2. Amount(M, At(M, h, k)) = Amount(L, At(L, f, k))
    <3> DEFINE R == At(M, h, k)
               S == At(L, f, k)
               d == [i \in R |-> i + n]
    <3>1. R \subseteq 1 .. Len(M) /\ \A i \in 1 .. Len(M) : i \in R <=> i + n \in S
      BY <1>4 DEF At
    <3>2. IsFiniteSet(R)
      <4>1. IsFiniteSet(1 .. Len(M))
        BY FS_Interval, Len(M) \in Nat
      <4> QED BY <3>1, <4>1, FS_Subset
    <3>3. S \subseteq (n + 1) .. Len(L)
      BY <2>1
    <3> HIDE DEF R, S
    <3>4. d \in Bijection(R, S)
      <4>1. d \in [R -> S]
        BY <3>1
      <4>2. \A i, j \in R : d[i] = d[j] => i = j
        BY <3>1
      <4>3. ASSUME NEW j \in S PROVE \E i \in R : d[i] = j
        <5>1. j - n \in 1 .. Len(M) /\ (j - n) + n = j
          BY <1>1, <3>3
        <5>2. j - n \in R
          BY <3>1, <5>1
        <5> QED BY <5>1, <5>2
      <4> QED BY <4>1, <4>2, <4>3 DEF Bijection, Injection, Surjection, IsInjective
    <3>5. \A i \in R : M[i].kind = L[d[i]].kind
      BY <3>1
    <3> HIDE DEF d
    <3>6. Amount(M, R) = Amount(L, S)
      BY <3>2, <3>4, <3>5, AmountKept
    <3> QED BY <3>6 DEF R, S
  <2>3. Living(s, k)
    BY <1>5, LivingBefore
  <2> QED BY <2>2, <2>3
<1>6. ASSUME NEW i \in 1 .. Len(M) PROVE AgeFits(t, h[i], M[i].age)
  BY <1>2, <1>4
<1>7. ASSUME NEW i \in 0 .. Slots - 1, Living(t, Back(g, i))
      PROVE  b[i] = Amount(M, At(M, h, Back(g, i)))
  <2>1. Back(g, i) \in Nat
    <3>1. Back(g, i) \in 1 .. Slots
      BY BackOK
    <3> QED BY <3>1, TimesSlotTime
  <2> QED BY <1>5, <1>7, <2>1 DEF Fits
<1>8. Living(t, 0) => w = Amount(M, At(M, h, 0))
  BY <1>5 DEF Fits
<1>9. Fits(b, w, g, t, M, h)
  BY <1>4, <1>6, <1>7, <1>8 DEF Fits
<1> QED BY <1>9

-----------------------------------------------------------------------------
(* The balance.                                                              *)

\* What sum() adds up, once advance() has been called, are the calls of the
\* slots the ring has: all that are young, none that is old.
LEMMA BalanceOfCalls ==
  ASSUME BudgetInv
  PROVE  \E S \in SUBSET DOMAIN log :
           /\ Balance = Reserve + Amount(log, S)
           /\ \A j \in DOMAIN log : log[j].age < ShortestLife => j \in S
<1>1. PICK h : Fits(Advanced.buckets, Advanced.writer, Advanced.genIndex, Advanced.since, log, h)
  BY AdvanceFits DEF BudgetInv
<1> DEFINE S == {j \in 1 .. Len(log) : h[j] <= Slots}
           A == At(log, h, 0)
           B == {j \in 1 .. Len(log) : h[j] \in 1 .. Slots}
<1>2. /\ log \in Seq(Calls) /\ DOMAIN log = 1 .. Len(log)
      /\ h \in [1 .. Len(log) -> Nat]
  BY <1>1 DEF BudgetInv, BudgetTypeOK, Calls, Fits
<1>3. \A k \in Nat : Living(Advanced.since, k) <=> k <= Slots
  BY AdvancedOK DEF BudgetInv, Living, Seen
<1>4. Advanced.writer = Amount(log, A)
  BY <1>1, <1>3, TimesSlotTime DEF Fits
<1>5. SumFunction(Advanced.buckets) = Amount(log, B)
  <2>1. \A i \in 0 .. Slots - 1 : Back(Advanced.genIndex, i) \in 1 .. Slots
    BY AdvancedOK, BackOK DEF BudgetInv
  <2>2. \A i \in 0 .. Slots - 1 :
          Advanced.buckets[i] = Amount(log, At(log, h, Back(Advanced.genIndex, i)))
    BY <1>1, <1>3, <2>1, TimesSlotTime DEF Fits
  <2>3. Advanced.buckets \in [0 .. Slots - 1 -> Int] /\ Advanced.genIndex \in 0 .. Slots - 1
    BY AdvancedOK DEF BudgetInv
  <2> QED BY <1>2, <2>2, <2>3, SumIsAmount
<1>6. S = A \cup B /\ A \cap B = {} /\ A \in SUBSET (1 .. Len(log)) /\ B \in SUBSET (1 .. Len(log))
  BY <1>2, TimesSlotTime DEF At
<1> HIDE DEF S, A, B
<1>7. /\ Amount(log, S) = Amount(log, A) + Amount(log, B)
      /\ Amount(log, A) \in Int
  BY <1>2, <1>6, AmountAdds
<1>8. Amount(log, B) \in Int
  BY <1>2, <1>6, AmountAdds
<1>9. Balance = Reserve + Amount(log, S)
  BY <1>4, <1>5, <1>7, <1>8, AmountsOK DEF Balance
<1>10. ASSUME NEW j \in DOMAIN log, log[j].age < ShortestLife PROVE j \in S
  <2>1. /\ log[j] \in Calls /\ h[j] \in Nat
        /\ AgeFits(Advanced.since, h[j], log[j].age)
    BY <1>1, <1>2 DEF Fits
  <2>2. log[j].age \in Int /\ ShortestLife \in Int
    BY <2>1, TimesSlotTime, AmountsOK DEF Calls, ShortestLife
  <2>3. Living(Advanced.since, h[j])
    BY <1>10, <2>1, <2>2, AdvancedOK, DeadIsOld DEF BudgetInv
  <2> QED BY <1>2, <1>3, <2>1, <2>3 DEF S
<1> QED BY <1>2, <1>6, <1>9, <1>10

LEMMA CallsOfAKind ==
  ASSUME BudgetTypeOK, NEW kind, NEW S \in SUBSET DOMAIN log,
         \A j \in DOMAIN log : log[j].age < ShortestLife => j \in S
  PROVE  /\ Recent(kind, ShortestLife) \in Nat /\ Recent(kind, LongestLife) \in Nat
         /\ \E d \in 0 .. Recent(kind, LongestLife) - Recent(kind, ShortestLife) :
              Cardinality(OfKind(log, S, kind)) = Recent(kind, ShortestLife) + d
<1> DEFINE all == {i \in DOMAIN log : log[i].kind = kind /\ log[i].age < LongestLife}
           young == {i \in DOMAIN log : log[i].kind = kind /\ log[i].age < ShortestLife}
           held == OfKind(log, S, kind)
<1>1. /\ DOMAIN log = 1 .. Len(log) /\ IsFiniteSet(1 .. Len(log))
      /\ \A j \in DOMAIN log : log[j].age < LongestLife
  <2>1. log \in Seq(Calls)
    BY DEF BudgetTypeOK, Calls
  <2>2. \A j \in DOMAIN log : log[j] \in Calls
    BY <2>1
  <2>3. \A j \in DOMAIN log : log[j].age < LongestLife
    BY <2>2, AmountsOK DEF Calls
  <2> QED BY <2>1, <2>3, FS_Interval
<1>2. young \subseteq held /\ held \subseteq all /\ all \subseteq 1 .. Len(log)
  BY <1>1 DEF OfKind
<1>3. Recent(kind, ShortestLife) = Cardinality(young) /\ Recent(kind, LongestLife) = Cardinality(all)
  BY DEF Recent
<1> HIDE DEF all, young, held
<1>4. IsFiniteSet(all)
  BY <1>1, <1>2, FS_Subset
<1>5. IsFiniteSet(held) /\ Cardinality(held) <= Cardinality(all)
  BY <1>2, <1>4, FS_Subset
<1>6. IsFiniteSet(young) /\ Cardinality(young) <= Cardinality(held)
  BY <1>2, <1>5, FS_Subset
<1>7. Cardinality(young) \in Nat /\ Cardinality(held) \in Nat /\ Cardinality(all) \in Nat
  BY <1>4, <1>5, <1>6, FS_CardinalityType
<1>8. LET d == Cardinality(held) - Cardinality(young)
      IN  /\ d \in 0 .. Cardinality(all) - Cardinality(young)
          /\ Cardinality(held) = Cardinality(young) + d
  BY <1>5, <1>6, <1>7
<1> QED BY <1>3, <1>7, <1>8 DEF held

LEMMA InvLedger == BudgetInv => LedgerExact
<1> SUFFICES ASSUME BudgetInv PROVE LedgerExact
  OBVIOUS
<1>1. PICK S \in SUBSET DOMAIN log :
        /\ Balance = Reserve + Amount(log, S)
        /\ \A j \in DOMAIN log : log[j].age < ShortestLife => j \in S
  BY BalanceOfCalls
<1>2. \A kind : /\ Recent(kind, ShortestLife) \in Nat /\ Recent(kind, LongestLife) \in Nat
               /\ \E d \in 0 .. Recent(kind, LongestLife) - Recent(kind, ShortestLife) :
                    Cardinality(OfKind(log, S, kind)) = Recent(kind, ShortestLife) + d
  BY <1>1, CallsOfAKind DEF BudgetInv
<1>3. PICK d \in 0 .. Recent("deposit", LongestLife) - Recent("deposit", ShortestLife) :
        Cardinality(OfKind(log, S, "deposit")) = Recent("deposit", ShortestLife) + d
  BY <1>2
<1>4. PICK w \in 0 .. Recent("withdraw", LongestLife) - Recent("withdraw", ShortestLife) :
        Cardinality(OfKind(log, S, "withdraw")) = Recent("withdraw", ShortestLife) + w
  BY <1>2
<1>5. \A r, m, n \in Int : r + (m - n) = r + m - n
  OBVIOUS
<1>6. \A m, n \in Int : m * n \in Int
  OBVIOUS
<1>7. Balance = Reserve + DepositAmount * (Recent("deposit", ShortestLife) + d)
                        - WithdrawAmount * (Recent("withdraw", ShortestLife) + w)
  BY <1>1, <1>2, <1>3, <1>4, <1>5, <1>6, AmountsOK DEF Amount
<1> QED BY <1>3, <1>4, <1>7 DEF LedgerExact

-----------------------------------------------------------------------------
(* The invariant.                                                            *)

LEMMA InitBudgetInv == BudgetInit => BudgetInv
<1> SUFFICES ASSUME BudgetInit PROVE BudgetInv
  OBVIOUS
<1> DEFINE f == [j \in 1 .. 0 |-> 0]
<1>1. BudgetTypeOK
  BY SlotsOK, AmountsOK DEF BudgetInit, BudgetTypeOK
<1>2. log = <<>> /\ Len(log) = 0
  BY DEF BudgetInit
<1>3. \A k : At(log, f, k) = {}
  BY <1>2 DEF At
<1>4. f \in [1 .. 0 -> Nat]
  OBVIOUS
<1> HIDE DEF f
<1>5. /\ writer = Amount(log, At(log, f, 0))
      /\ \A i \in 0 .. Slots - 1 : buckets[i] = Amount(log, At(log, f, Back(genIndex, i)))
  BY <1>3, AmountOfNone DEF BudgetInit
<1>6. Fits(buckets, writer, genIndex, since, log, f)
  BY <1>2, <1>4, <1>5 DEF Fits
<1> QED BY <1>1, <1>6 DEF BudgetInv

\* What a call does: advance(), then the writer.
LEMMA CallKeepsInv ==
  ASSUME BudgetInv, NEW kind \in {"deposit", "withdraw"},
         Commit(IF kind = "deposit" THEN DepositAmount ELSE - WithdrawAmount),
         Remember(kind)
  PROVE  BudgetInv'
<1> DEFINE amount == IF kind = "deposit" THEN DepositAmount ELSE - WithdrawAmount
           new == Advanced
<1>1. PICK f : Fits(new.buckets, new.writer, new.genIndex, new.since, log, f)
  BY AdvanceFits DEF BudgetInv
<1>2. /\ new.buckets \in [0 .. Slots - 1 -> Int] /\ new.writer \in Int
      /\ new.genIndex \in 0 .. Slots - 1
      /\ new.since \in 0 .. Ttl + 1 /\ new.since < SlotTime
  BY AdvancedOK DEF BudgetInv
<1>3. /\ buckets' = new.buckets /\ writer' = new.writer + amount
      /\ genIndex' = new.genIndex /\ since' = new.since
      /\ log' = Append(log, [kind |-> kind, age |-> 0])
  BY DEF Commit, Remember
<1>4. log \in Seq(Calls)
  BY DEF BudgetInv, BudgetTypeOK, Calls
<1>5. amount \in Int
  BY AmountsOK
<1>6. new.since \in Nat
  BY <1>2, AmountsOK
<1> HIDE DEF new
<1>7. /\ log' \in Seq(Calls)
      /\ \E h : Fits(new.buckets, new.writer + amount, new.genIndex, new.since, log', h)
  BY <1>1, <1>2, <1>3, <1>4, <1>6, AppendFits
<1>8. \E h : Fits(buckets', writer', genIndex', since', log', h)
  BY <1>3, <1>7
<1>9. BudgetTypeOK'
  BY <1>2, <1>3, <1>5, <1>7 DEF BudgetTypeOK, Calls
<1> QED BY <1>8, <1>9 DEF BudgetInv

LEMMA RefuseKeepsInv ==
  ASSUME BudgetInv, Refuse
  PROVE  BudgetInv'
<1>1. PICK f : Fits(Advanced.buckets, Advanced.writer, Advanced.genIndex, Advanced.since, log, f)
  BY AdvanceFits DEF BudgetInv
<1>2. /\ Advanced.buckets \in [0 .. Slots - 1 -> Int] /\ Advanced.writer \in Int
      /\ Advanced.genIndex \in 0 .. Slots - 1 /\ Advanced.since \in 0 .. Ttl + 1
  BY AdvancedOK DEF BudgetInv
<1>3. /\ buckets' = Advanced.buckets /\ writer' = Advanced.writer
      /\ genIndex' = Advanced.genIndex /\ since' = Advanced.since /\ log' = log
  BY <1>2 DEF Refuse, Commit
<1>4. \E h : Fits(buckets', writer', genIndex', since', log', h)
  BY <1>1, <1>3
<1>5. BudgetTypeOK'
  BY <1>2, <1>3 DEF BudgetInv, BudgetTypeOK
<1> QED BY <1>4, <1>5 DEF BudgetInv

LEMMA TickKeepsInv ==
  ASSUME BudgetInv, Tick
  PROVE  BudgetInv'
<1>1. PICK f : Fits(buckets, writer, genIndex, since, log, f)
  BY DEF BudgetInv
<1>2. PICK n \in 0 .. Len(log) :
        /\ \A i \in DOMAIN log : i <= n <=> log[i].age + 1 >= LongestLife
        /\ log' = [i \in 1 .. Len(log) - n |->
                     [kind |-> log[i + n].kind, age |-> log[i + n].age + 1]]
  BY DEF Tick
<1>3. /\ since' = IF since <= Ttl THEN since + 1 ELSE since
      /\ buckets' = buckets /\ writer' = writer /\ genIndex' = genIndex
  BY DEF Tick
<1>4. log \in Seq(Calls) /\ genIndex \in 0 .. Slots - 1 /\ since \in 0 .. Ttl + 1
  BY DEF BudgetInv, BudgetTypeOK, Calls
<1>5. log' \in Seq(Calls) /\ \E h : Fits(buckets, writer, genIndex, since', log', h)
  <2>1. /\ log' \in Seq(Calls) /\ Len(log') = Len(log) - n
        /\ \A i \in 1 .. Len(log') :
             /\ i + n \in 1 .. Len(log) /\ log'[i].kind = log[i + n].kind
             /\ log'[i].age = log[i + n].age + 1
    BY <1>2, <1>4, LogTicks
  <2> QED BY <1>1, <1>2, <1>3, <1>4, <2>1, TickFits
<1>6. since' \in 0 .. Ttl + 1
  BY <1>3, <1>4, AmountsOK
<1>7. BudgetTypeOK'
  BY <1>3, <1>5, <1>6 DEF BudgetInv, BudgetTypeOK, Calls
<1> QED BY <1>3, <1>5, <1>7 DEF BudgetInv

LEMMA NextBudgetInv == BudgetInv /\ [BudgetNext]_budgetVars => BudgetInv'
<1> SUFFICES ASSUME BudgetInv, [BudgetNext]_budgetVars PROVE BudgetInv'
  OBVIOUS
<1>1. CASE Deposit
  <2>1. Commit(IF "deposit" = "deposit" THEN DepositAmount ELSE - WithdrawAmount)
        /\ Remember("deposit")
    BY <1>1 DEF Deposit
  <2> QED BY <2>1, CallKeepsInv
<1>2. CASE Withdraw
  <2>1. Commit(IF "withdraw" = "deposit" THEN DepositAmount ELSE - WithdrawAmount)
        /\ Remember("withdraw")
    BY <1>2 DEF Withdraw
  <2> QED BY <2>1, CallKeepsInv
<1>3. CASE Refuse
  BY <1>3, RefuseKeepsInv
<1>4. CASE Tick
  BY <1>4, TickKeepsInv
<1>5. CASE UNCHANGED budgetVars
  BY <1>5 DEF budgetVars, BudgetInv, BudgetTypeOK
<1> QED BY <1>1, <1>2, <1>3, <1>4, <1>5 DEF BudgetNext

\* The invariant holds throughout every behaviour.
THEOREM BudgetInvariance == BudgetSpec => []BudgetInv
BY InitBudgetInv, NextBudgetInv, PTL DEF BudgetSpec

\* The writer, the buckets and gen_index stay what advance() and sum() take
\* them for, however long the client is left alone.
THEOREM BudgetTypeCorrect == BudgetSpec => []BudgetTypeOK
<1>1. BudgetInv => BudgetTypeOK
  BY DEF BudgetInv
<1> QED BY <1>1, BudgetInvariance, PTL

\* advance() neither loses a call early, nor counts one twice, nor keeps one
\* for more than a turn of the ring and one slot: what withdraw() compares is
\* the balance of a window of the calls.
THEOREM LedgerIsExact == BudgetSpec => []LedgerExact
BY InvLedger, BudgetInvariance, PTL

-----------------------------------------------------------------------------
(* The load.                                                                 *)

\* A withdrawal is granted to Withdraw alone, and is one call more.
LEMMA GrantIsWithdraw ==
  ASSUME BudgetTypeOK, BudgetNext, Granted
  PROVE  /\ Withdraw
         /\ Recent("deposit", LongestLife)' = Recent("deposit", LongestLife)
         /\ Recent("withdraw", ShortestLife)' \in Nat
         /\ Recent("withdraw", ShortestLife)' <= Recent("withdraw", ShortestLife) + 1
<1> DEFINE n == Len(log) + 1
<1>1. log \in Seq(Calls) /\ Len(log) \in Nat /\ DOMAIN log = 1 .. Len(log)
  BY DEF BudgetTypeOK, Calls
<1>2. ASSUME NEW kind \in {"deposit", "withdraw"}, Remember(kind)
      PROVE  /\ log' \in Seq(Calls) /\ Len(log') = n /\ DOMAIN log' = 1 .. n
             /\ log'[n] = [kind |-> kind, age |-> 0]
             /\ \A i \in 1 .. Len(log) : log'[i] = log[i]
  <2>1. [kind |-> kind, age |-> 0] \in Calls
    BY AmountsOK DEF Calls
  <2> QED BY <1>1, <1>2, <2>1 DEF Remember
<1>3. Withdraw
  <2>1. ~Tick
    <3> SUFFICES ASSUME Tick PROVE FALSE
      OBVIOUS
    <3>1. PICK m \in 0 .. Len(log) :
            log' = [i \in 1 .. Len(log) - m |->
                     [kind |-> log[i + m].kind, age |-> log[i + m].age + 1]]
      BY DEF Tick
    <3>2. Len(log') = Len(log) - m
      <4>1. Len(log) - m \in Nat
        BY <1>1
      <4> QED BY <3>1, <4>1
    <3> QED BY <1>1, <3>2 DEF Granted
  <2>2. ~Refuse
    BY <1>1 DEF Granted, Refuse
  <2>3. ~Deposit
    <3> SUFFICES ASSUME Deposit PROVE FALSE
      OBVIOUS
    <3>1. Remember("deposit")
      BY DEF Deposit
    <3> QED BY <1>2, <3>1 DEF Granted, Last
  <2> QED BY <2>1, <2>2, <2>3 DEF BudgetNext
<1>4. /\ log' \in Seq(Calls) /\ Len(log') = n /\ DOMAIN log' = 1 .. n
      /\ log'[n] = [kind |-> "withdraw", age |-> 0]
      /\ \A i \in 1 .. Len(log) : log'[i] = log[i]
  <2>1. Remember("withdraw")
    BY <1>3 DEF Withdraw
  <2> QED BY <1>2, <2>1
<1> DEFINE deposits == {i \in DOMAIN log : log[i].kind = "deposit" /\ log[i].age < LongestLife}
           spent == {i \in DOMAIN log : log[i].kind = "withdraw" /\ log[i].age < ShortestLife}
<1>5. deposits' = deposits
  BY <1>1, <1>4
<1>6. spent' \subseteq spent \cup {n}
  BY <1>1, <1>4
<1>7. IsFiniteSet(spent)
  <2>1. IsFiniteSet(1 .. Len(log))
    BY <1>1, FS_Interval
  <2>2. spent \subseteq 1 .. Len(log)
    BY <1>1
  <2> QED BY <2>1, <2>2, FS_Subset
<1>8. /\ Recent("deposit", LongestLife) = Cardinality(deposits)
      /\ Recent("deposit", LongestLife)' = Cardinality(deposits')
      /\ Recent("withdraw", ShortestLife) = Cardinality(spent)
      /\ Recent("withdraw", ShortestLife)' = Cardinality(spent')
  BY DEF Recent
<1> HIDE DEF deposits, spent, n
<1>9. /\ IsFiniteSet(spent \cup {n})
      /\ Cardinality(spent \cup {n}) <= Cardinality(spent) + 1
  <2>1. Cardinality(spent) \in Nat
    BY <1>7, FS_CardinalityType
  <2>2. /\ IsFiniteSet(spent \cup {n})
        /\ Cardinality(spent \cup {n})
             = IF n \in spent THEN Cardinality(spent) ELSE Cardinality(spent) + 1
    BY <1>7, FS_AddElement
  <2> QED BY <2>1, <2>2
<1>10. IsFiniteSet(spent') /\ Cardinality(spent') <= Cardinality(spent \cup {n})
  BY <1>6, <1>9, FS_Subset
<1>11. Cardinality(spent') \in Nat /\ Cardinality(spent) \in Nat
       /\ Cardinality(spent \cup {n}) \in Nat
  BY <1>7, <1>9, <1>10, FS_CardinalityType
<1> QED BY <1>3, <1>5, <1>8, <1>9, <1>10, <1>11

\* A withdrawal is paid for by the deposits of the window and the baseline.
LEMMA WithdrawIsPaidFor ==
  ASSUME BudgetInv, Affordable
  PROVE  WithdrawAmount * (Recent("withdraw", ShortestLife) + 1 - Baseline)
           <= DepositAmount * Recent("deposit", LongestLife)
<1> DEFINE x == Recent("withdraw", ShortestLife)
           a == Recent("deposit", ShortestLife)
           n == Recent("deposit", LongestLife)
           z == Recent("withdraw", LongestLife)
<1>1. x \in Nat /\ a \in Nat /\ n \in Nat /\ z \in Nat
  BY CallsOfAKind, BalanceOfCalls DEF BudgetInv
<1>2. PICK d \in 0 .. n - a, w \in 0 .. z - x :
        Balance = Reserve + DepositAmount * (a + d) - WithdrawAmount * (x + w)
  BY InvLedger DEF LedgerExact
<1> HIDE DEF x, a, n, z
<1>3. Reserve + DepositAmount * (a + d) - WithdrawAmount * (x + w) >= WithdrawAmount
  BY <1>2 DEF Affordable
<1>4. a + d \in Nat /\ a + d <= n /\ x + w \in Nat /\ x <= x + w
  BY <1>1, <1>2
<1>5. \A p, i, j \in Nat : i <= j => p * i <= p * j
  OBVIOUS
<1>6. \A i, j \in Nat : i * j \in Nat
  OBVIOUS
<1>7. DepositAmount * (a + d) <= DepositAmount * n /\ WithdrawAmount * x <= WithdrawAmount * (x + w)
  BY <1>1, <1>4, <1>5, AmountsOK
<1>8. Baseline \in Nat /\ Reserve = Baseline * WithdrawAmount /\ WithdrawAmount \in Nat
  BY LoadOK, AmountsOK, SMT DEF Reserve
<1>9. /\ DepositAmount * (a + d) \in Nat /\ DepositAmount * n \in Nat
      /\ WithdrawAmount * x \in Nat /\ WithdrawAmount * (x + w) \in Nat
      /\ Baseline * WithdrawAmount \in Nat
  BY <1>1, <1>4, <1>6, <1>8, AmountsOK
<1>10. WithdrawAmount * x + WithdrawAmount - Baseline * WithdrawAmount <= DepositAmount * n
  BY <1>3, <1>7, <1>8, <1>9
<1>11. \A p, i, j \in Int : p * (i + 1 - j) = p * i + p - j * p
  OBVIOUS
<1>12. WithdrawAmount * (x + 1 - Baseline) <= DepositAmount * n
  BY <1>1, <1>8, <1>10, <1>11
<1> QED BY <1>12 DEF x, n

\* e retries at w each, paid for by i deposits of d.
LEMMA LoadOfCost ==
  ASSUME NEW w \in Nat \ {0}, NEW d \in Nat, NEW p \in Nat, NEW i \in Nat, NEW e \in Int,
         1000 * d <= p * w, w * e <= d * i
  PROVE  1000 * e <= p * i
<1>1. w * (1000 * e) <= w * (p * i)
  <2>1. w * (1000 * e) <= (1000 * d) * i
    OBVIOUS
  <2>2. (1000 * d) * i <= (p * w) * i
    OBVIOUS
  <2> QED BY <2>1, <2>2
<1>2. 1000 * e \in Int /\ p * i \in Int
  OBVIOUS
<1>3. \A x, y \in Int : w * x <= w * y => x <= y
  OBVIOUS
<1> QED BY <1>1, <1>2, <1>3

\* max_extra_load is kept when a retry costs what it should: without the
\* hypothesis it is not, 1 / max_extra_load being truncated (run budget_load).
THEOREM ExtraLoadIsBounded ==
  ASSUME 1000 * DepositAmount <= Permille * WithdrawAmount
  PROVE  BudgetSpec => ExtraLoad
<1>2. ASSUME BudgetInv, BudgetNext, Granted
      PROVE  1000 * (Recent("withdraw", ShortestLife)' - Baseline)
               < Permille * Recent("deposit", LongestLife)' + 1000
  <2> DEFINE x == Recent("withdraw", ShortestLife)
             y == Recent("withdraw", ShortestLife)'
             n == Recent("deposit", LongestLife)
  <2>1. Withdraw /\ y \in Nat /\ y <= x + 1 /\ Recent("deposit", LongestLife)' = n
    BY <1>2, GrantIsWithdraw DEF BudgetInv
  <2>2. WithdrawAmount * (x + 1 - Baseline) <= DepositAmount * n
    BY <1>2, <2>1, WithdrawIsPaidFor DEF Withdraw
  <2>3. x \in Nat /\ n \in Nat
    BY <1>2, CallsOfAKind, BalanceOfCalls DEF BudgetInv
  <2>4. Permille \in Nat /\ Baseline \in Nat
    BY LoadOK, SMT
  <2> HIDE DEF x, y, n
  <2>5. 1000 * (x + 1 - Baseline) <= Permille * n
    <3>1. x + 1 - Baseline \in Int
      BY <2>3, <2>4
    <3> QED BY LoadOfCost, <2>2, <2>3, <2>4, <3>1, AmountsOK
  <2>6. Permille * n \in Int
    BY <2>3, <2>4
  <2>7. 1000 * (y - Baseline) < Permille * n + 1000
    BY <2>1, <2>3, <2>4, <2>5, <2>6
  <2> QED BY <2>1, <2>7 DEF y, n
<1>3. BudgetInv /\ [BudgetNext]_budgetVars =>
        [Granted => 1000 * (Recent("withdraw", ShortestLife)' - Baseline)
                      < Permille * Recent("deposit", LongestLife)' + 1000]_budgetVars
  BY <1>2
<1> QED BY <1>3, BudgetInvariance, PTL DEF BudgetSpec, ExtraLoad

-----------------------------------------------------------------------------
(* THE LOOP *)

\* The retries a request has left and those it made are MaxRetries together.
Counters ==
  \A r \in Requests :
    /\ remaining[r] + Retries(r) = MaxRetries
    /\ pc[r] = "new" => attempts[r] = 0
    /\ pc[r] \notin {"new", "loop"} => attempts[r] > 0
    /\ sent[r] <= attempts[r]
    /\ pc[r] \in {"attempt", "answered"} /\ canRetry[r] => remaining[r] > 0

\* An attempt that another may follow has left the body where it was.
BodyThere ==
  \A r \in Requests :
    /\ ~hollow[r]
    /\ pc[r] \in {"new", "loop"} /\ Body[r] # "none" => body[r]
    /\ pc[r] \in {"attempt", "answered"} /\ canRetry[r] /\ Body[r] # "none" => body[r]

\* Within one slot the ring stays as it was made, and no call gets older.
OneSlot ==
  /\ since = 0 /\ buckets = [i \in 0 .. Slots - 1 |-> 0]
  /\ \A i \in DOMAIN log : log[i].age = 0

Booked(kind) == {i \in DOMAIN log : log[i].kind = kind /\ log[i].age < LongestLife}

Books ==
  HasBudget =>
    /\ Cardinality(Booked("deposit")) = Cardinality(Finished)
    /\ Cardinality(Booked("withdraw")) = AllRetries
    /\ writer = DepositAmount * Cardinality(Finished)
                - WithdrawAmount * AllRetries
    /\ writer + Reserve >= 0

IInv == TypeOK /\ Counters /\ BodyThere /\ OneSlot /\ Books

-----------------------------------------------------------------------------
(* The budget within one slot.                                               *)

LEMMA SumOfZeros ==
  ASSUME NEW S, IsFiniteSet(S)
  PROVE  SumFunction([i \in S |-> 0]) = 0
<1> DEFINE b == [i \in S |-> 0]
           v == [s \in SUBSET S |-> 0]
<1>1. b \in [S -> Int] /\ v \in [SUBSET S -> Int] /\ v[{}] = 0 /\ v[S] = 0
  OBVIOUS
<1>2. \A s \in SUBSET S : \A i \in s : v[s] = b[i] + v[s \ {i}]
  OBVIOUS
<1> HIDE DEF b, v
<1>3. SumFunction(b) = v[S]
  BY <1>1, <1>2, SumIsMeasure
<1> QED BY <1>1, <1>3 DEF b

\* What advance() and sum() come to, and what a call leaves.
LEMMA RingInOneSlot ==
  ASSUME BudgetTypeOK, OneSlot
  PROVE  /\ Balance = writer + Reserve
         /\ \A amount \in Int : Commit(amount) =>
              buckets' = buckets /\ writer' = writer + amount
              /\ genIndex' = genIndex /\ since' = since
<1>1. Advanced = [buckets |-> buckets, writer |-> writer, genIndex |-> genIndex, since |-> since]
  BY SlotsOK DEF Advanced, OneSlot
<1>2. SumFunction(buckets) = 0
  BY SumOfZeros, FS_Interval, SlotsOK DEF OneSlot
<1>3. Balance = writer + Reserve
  BY <1>1, <1>2, AmountsOK DEF Balance, BudgetTypeOK
<1> QED BY <1>1, <1>3 DEF Commit

LEMMA BookedFinite ==
  ASSUME BudgetTypeOK, NEW kind
  PROVE  IsFiniteSet(Booked(kind)) /\ Cardinality(Booked(kind)) \in Nat
<1>1. IsFiniteSet(1 .. Len(log))
  BY FS_Interval DEF BudgetTypeOK
<1>2. Booked(kind) \subseteq 1 .. Len(log)
  BY DEF Booked, BudgetTypeOK
<1> QED BY <1>1, <1>2, FS_Subset, FS_CardinalityType

\* A call is booked once, and no other with it.
LEMMA CallBooked ==
  ASSUME BudgetTypeOK, OneSlot, NEW kind \in {"deposit", "withdraw"}, Remember(kind)
  PROVE  /\ log' \in Seq([kind : {"deposit", "withdraw"}, age : 0 .. LongestLife - 1])
         /\ \A i \in DOMAIN log' : log'[i].age = 0
         /\ Cardinality(Booked(kind)') = Cardinality(Booked(kind)) + 1
         /\ \A other \in {"deposit", "withdraw"} \ {kind} : Booked(other)' = Booked(other)
<1> DEFINE call == [kind |-> kind, age |-> 0]
<1>1. call \in [kind : {"deposit", "withdraw"}, age : 0 .. LongestLife - 1]
  BY AmountsOK
<1>2. /\ log' = Append(log, call)
      /\ log' \in Seq([kind : {"deposit", "withdraw"}, age : 0 .. LongestLife - 1])
      /\ Len(log') = Len(log) + 1 /\ log'[Len(log) + 1] = call
      /\ \A i \in 1 .. Len(log) : log'[i] = log[i]
  BY <1>1 DEF Remember, BudgetTypeOK
<1>3. DOMAIN log = 1 .. Len(log) /\ DOMAIN log' = 1 .. Len(log) + 1 /\ Len(log) \in Nat
  BY <1>2 DEF BudgetTypeOK
<1>4. \A i \in DOMAIN log' : log'[i].age = 0
  BY <1>2, <1>3 DEF OneSlot
<1>5. Booked(kind)' = Booked(kind) \cup {Len(log) + 1} /\ Len(log) + 1 \notin Booked(kind)
  BY <1>2, <1>3, AmountsOK DEF Booked
<1>6. \A other \in {"deposit", "withdraw"} \ {kind} : Booked(other)' = Booked(other)
  BY <1>2, <1>3, AmountsOK DEF Booked
<1> QED BY <1>2, <1>4, <1>5, <1>6, BookedFinite, FS_AddElement

-----------------------------------------------------------------------------
(* The requests' own variables.                                              *)

LoopTypeOK ==
  /\ pc \in [Requests -> Places]
  /\ remaining \in [Requests -> 0 .. MaxRetries]
  /\ canRetry \in [Requests -> BOOLEAN] /\ body \in [Requests -> BOOLEAN]
  /\ outcome \in [Requests -> Outcomes]
  /\ expired \in [Requests -> BOOLEAN] /\ hollow \in [Requests -> BOOLEAN]
  /\ attempts \in [Requests -> 0 .. MaxRetries + 1]
  /\ sent \in [Requests -> 0 .. MaxRetries + 1]

LEMMA TypeParts == TypeOK <=> LoopTypeOK /\ BudgetTypeOK
  BY DEF TypeOK, LoopTypeOK

LEMMA StepKeepsLoop ==
  ASSUME LoopTypeOK, Counters, BodyThere,
         NEW r \in Requests, Step(r) \/ DropFuture(r) \/ Expire(r)
  PROVE  LoopTypeOK' /\ Counters' /\ BodyThere'
<1> USE RequestsOK, PolicyOK
    DEF LoopTypeOK, Places, Outcomes, Counters, Retries, BodyThere, Goto
<1>1. CASE Begin(r)
  BY <1>1 DEF Begin
<1>2. CASE Attempt(r)
  BY <1>2 DEF Attempt, MayFollow
<1>3. CASE Answer(r)
  BY <1>3 DEF Answer
<1>4. CASE Retry(r)
  BY <1>4 DEF Retry, WantsRetry
<1>5. CASE RetryDenied(r) \/ GiveAnswer(r) \/ Leave(r)
  BY <1>5 DEF RetryDenied, GiveAnswer, Leave
<1>6. CASE DropFuture(r)
  BY <1>6 DEF DropFuture
<1>7. CASE Expire(r)
  BY <1>7 DEF Expire
<1> QED
  BY <1>1, <1>2, <1>3, <1>4, <1>5, <1>6, <1>7 DEF Step

-----------------------------------------------------------------------------
(* The books.                                                                *)

LEMMA SetsFinite ==
  /\ IsFiniteSet(Finished) /\ Cardinality(Finished) \in Nat
  /\ IsFiniteSet(RetriesMade) /\ AllRetries \in Nat
<1>1. IsFiniteSet(Finished)
  BY RequestsOK, FS_Subset DEF Finished
<1>2. IsFiniteSet(1 .. MaxRetries)
  BY FS_Interval, PolicyOK
<1>3. IsFiniteSet(Requests \X (1 .. MaxRetries))
  BY <1>2, RequestsOK, FS_Product
<1>4. IsFiniteSet(RetriesMade)
  BY <1>3, FS_Subset DEF RetriesMade
<1> QED BY <1>1, <1>4, FS_CardinalityType DEF AllRetries

\* Retry makes one retry, no other step does.
LEMMA RetriesCounted ==
  ASSUME LoopTypeOK, Counters, NEW r \in Requests,
         Step(r) \/ DropFuture(r) \/ Expire(r)
  PROVE  AllRetries' = IF Retry(r) THEN AllRetries + 1 ELSE AllRetries
<1> USE PolicyOK DEF LoopTypeOK, Places, Counters, Retries, Goto
<1>1. CASE Retry(r)
  <2>1. Retries(r) + 1 \in 1 .. MaxRetries
    BY <1>1 DEF Retry, WantsRetry
  <2>2. \A x \in Requests : Retries(x)' = IF x = r THEN Retries(x) + 1 ELSE Retries(x)
    BY <1>1 DEF Retry
  <2>3. \A x \in Requests : Retries(x) \in Int
    OBVIOUS
  <2> HIDE DEF Retries
  <2>4. RetriesMade' = RetriesMade \cup {<<r, Retries(r) + 1>>}
        /\ <<r, Retries(r) + 1>> \notin RetriesMade
    BY <2>1, <2>2, <2>3 DEF RetriesMade
  <2> QED BY <1>1, <2>4, SetsFinite, FS_AddElement DEF AllRetries
<1>2. CASE ~Retry(r)
  <2>1. \A x \in Requests : Retries(x)' = Retries(x)
    <3>1. CASE Attempt(r)
      BY <3>1 DEF Attempt
    <3>2. CASE Begin(r) \/ Answer(r) \/ RetryDenied(r) \/ GiveAnswer(r) \/ Leave(r)
      BY <3>2 DEF Begin, Answer, RetryDenied, GiveAnswer, Leave
    <3>3. CASE DropFuture(r) \/ Expire(r)
      BY <3>3 DEF DropFuture, Expire
    <3> QED BY <1>2, <3>1, <3>2, <3>3 DEF Step
  <2> HIDE DEF Retries
  <2>2. RetriesMade' = RetriesMade
    BY <2>1 DEF RetriesMade
  <2> QED BY <1>2, <2>2 DEF AllRetries
<1> QED BY <1>1, <1>2

\* Leave finishes one execute, no other step does.
LEMMA LeavesCounted ==
  ASSUME LoopTypeOK, NEW r \in Requests, Step(r) \/ DropFuture(r) \/ Expire(r)
  PROVE  Cardinality(Finished') = IF Leave(r) THEN Cardinality(Finished) + 1
                                  ELSE Cardinality(Finished)
<1> USE DEF LoopTypeOK, Places, Goto
<1>1. CASE Leave(r)
  <2>1. Finished' = Finished \cup {r} /\ r \notin Finished
    BY <1>1 DEF Leave, Finished
  <2> QED BY <1>1, <2>1, SetsFinite, FS_AddElement
<1>2. CASE ~Leave(r)
  <2>1. Finished' = Finished
    <3>1. CASE Begin(r) \/ Answer(r) \/ Retry(r) \/ RetryDenied(r) \/ GiveAnswer(r)
      BY <3>1 DEF Begin, Answer, Retry, RetryDenied, GiveAnswer, Finished
    <3>2. CASE Attempt(r) \/ DropFuture(r) \/ Expire(r)
      BY <3>2 DEF Attempt, DropFuture, Expire, Finished
    <3> QED BY <1>2, <3>1, <3>2 DEF Step
  <2> QED BY <1>2, <2>1
<1> QED BY <1>1, <1>2

LEMMA StepKeepsBooks ==
  ASSUME IInv, NEW r \in Requests, Step(r) \/ DropFuture(r) \/ Expire(r)
  PROVE  BudgetTypeOK' /\ OneSlot' /\ Books'
<1>1. BudgetTypeOK /\ LoopTypeOK /\ Counters /\ OneSlot /\ Books
  BY TypeParts DEF IInv
<1>2. /\ Leave(r) => ~Retry(r)
      /\ AllRetries' = IF Retry(r) THEN AllRetries + 1 ELSE AllRetries
      /\ Cardinality(Finished') = IF Leave(r) THEN Cardinality(Finished) + 1
                                  ELSE Cardinality(Finished)
  BY <1>1, RetriesCounted, LeavesCounted DEF Leave, Retry, Goto
<1>3. CASE UNCHANGED budgetVars /\ ~(HasBudget /\ (Retry(r) \/ Leave(r)))
  BY <1>1, <1>2, <1>3 DEF budgetVars, BudgetTypeOK, OneSlot, Books, Booked
<1> DEFINE n == Cardinality(Finished)
<1>4. n \in Nat /\ AllRetries \in Nat /\ writer \in Int
  BY <1>1, SetsFinite DEF BudgetTypeOK
<1>5. \A d, w, i, j \in Int : d * (i + 1) - w * j = (d * i - w * j) + d
                             /\ d * i - w * (j + 1) = (d * i - w * j) - w
  OBVIOUS
<1>6. CASE Retry(r) /\ HasBudget
  <2>1. Withdraw
    BY <1>6 DEF Retry
  <2>2. /\ buckets' = buckets /\ writer' = writer - WithdrawAmount
        /\ genIndex' = genIndex /\ since' = since /\ writer' + Reserve >= 0
    BY <1>1, <1>4, <2>1, RingInOneSlot, AmountsOK DEF Withdraw, Affordable
  <2>3. BudgetTypeOK' /\ OneSlot'
    BY <1>1, <1>4, <2>1, <2>2, CallBooked, AmountsOK DEF Withdraw, BudgetTypeOK, OneSlot
  <2>4. /\ Cardinality(Booked("deposit")') = Cardinality(Booked("deposit"))
        /\ Cardinality(Booked("withdraw")') = Cardinality(Booked("withdraw")) + 1
    BY <1>1, <2>1, CallBooked DEF Withdraw
  <2>5. writer' = DepositAmount * Cardinality(Finished') - WithdrawAmount * AllRetries'
    BY <1>1, <1>2, <1>4, <1>5, <1>6, <2>2, AmountsOK DEF Books
  <2> QED BY <1>1, <1>2, <1>6, <2>2, <2>3, <2>4, <2>5 DEF Books
<1>7. CASE Leave(r) /\ HasBudget
  <2>1. Deposit
    BY <1>7 DEF Leave
  <2>2. /\ buckets' = buckets /\ writer' = writer + DepositAmount
        /\ genIndex' = genIndex /\ since' = since
    BY <1>1, <2>1, RingInOneSlot, AmountsOK DEF Deposit
  <2>3. BudgetTypeOK' /\ OneSlot'
    BY <1>1, <1>4, <2>1, <2>2, CallBooked, AmountsOK DEF Deposit, BudgetTypeOK, OneSlot
  <2>4. /\ Cardinality(Booked("deposit")') = Cardinality(Booked("deposit")) + 1
        /\ Cardinality(Booked("withdraw")') = Cardinality(Booked("withdraw"))
    BY <1>1, <2>1, CallBooked DEF Deposit
  <2>5. writer' = DepositAmount * Cardinality(Finished') - WithdrawAmount * AllRetries'
    BY <1>1, <1>2, <1>4, <1>5, <1>7, <2>2, AmountsOK DEF Books
  <2>6. writer' + Reserve >= 0
    BY <1>1, <1>4, <1>7, <2>2, AmountsOK DEF Books
  <2> QED BY <1>1, <1>2, <1>7, <2>3, <2>4, <2>5, <2>6 DEF Books
<1>8. CASE RetryDenied(r)
  <2>1. UNCHANGED budgetVars
    BY <1>1, <1>4, <1>8, RingInOneSlot DEF RetryDenied, Refuse, budgetVars
  <2> QED BY <1>1, <1>3, <1>8, <2>1 DEF RetryDenied, Retry, Leave, Goto, LoopTypeOK
<1> QED
  BY <1>3, <1>6, <1>7, <1>8 DEF Step, Begin, Attempt, Answer, Retry, GiveAnswer, Leave,
     DropFuture, Expire, Goto

-----------------------------------------------------------------------------
LEMMA InitIInv == Init => IInv
<1> SUFFICES ASSUME Init PROVE IInv
  OBVIOUS
<1>1. LoopTypeOK /\ Counters /\ BodyThere
  <2>1. LoopTypeOK
    BY PolicyOK DEF Init, LoopTypeOK, Places, Outcomes
  <2>2. Counters
    BY PolicyOK DEF Init, Counters, Retries
  <2>3. BodyThere
    BY DEF Init, BodyThere
  <2> QED BY <2>1, <2>2, <2>3
<1>2. BudgetTypeOK /\ OneSlot
  BY SlotsOK, AmountsOK DEF Init, BudgetInit, BudgetTypeOK, OneSlot
<1>3. Books
  <2>1. Booked("deposit") = {} /\ Booked("withdraw") = {} /\ Finished = {} /\ RetriesMade = {}
    BY PolicyOK DEF Init, BudgetInit, Booked, Finished, RetriesMade, Retries
  <2>2. /\ Cardinality(Booked("deposit")) = 0 /\ Cardinality(Booked("withdraw")) = 0
        /\ Cardinality(Finished) = 0 /\ AllRetries = 0
    BY <2>1, FS_EmptySet DEF AllRetries
  <2>3. writer = 0 /\ writer = DepositAmount * 0 - WithdrawAmount * 0
    BY AmountsOK DEF Init, BudgetInit
  <2> QED BY <2>2, <2>3, AmountsOK DEF Books
<1> QED BY <1>1, <1>2, <1>3, TypeParts DEF IInv

LEMMA NextIInv == IInv /\ [Next]_vars => IInv'
<1> SUFFICES ASSUME IInv, [Next]_vars PROVE IInv'
  OBVIOUS
<1>1. ASSUME NEW r \in Requests, Step(r) \/ DropFuture(r) \/ Expire(r) PROVE IInv'
  <2>1. LoopTypeOK' /\ Counters' /\ BodyThere'
    BY <1>1, TypeParts, StepKeepsLoop DEF IInv
  <2>2. BudgetTypeOK' /\ OneSlot' /\ Books'
    BY <1>1, StepKeepsBooks
  <2> QED BY <2>1, <2>2 DEF IInv, TypeOK, LoopTypeOK
<1>2. CASE UNCHANGED vars
  BY <1>2 DEF vars, loopVars, budgetVars, IInv, TypeOK, BudgetTypeOK, Counters, Retries,
     BodyThere, OneSlot, Books, Booked, Finished, AllRetries, RetriesMade
<1> QED
  BY <1>1, <1>2 DEF Next, Done

\* The invariant holds throughout every behaviour.
THEOREM Invariance == Spec => []IInv
BY InitIInv, NextIInv, PTL DEF Spec

\* No counter of Client::execute passes its bound, remaining_retries least of
\* all, whatever the requests and however they interleave.
THEOREM TypeCorrect == Spec => []TypeOK
<1>1. IInv => TypeOK
  BY DEF IInv
<1> QED BY <1>1, Invariance, PTL

\* Every attempt of a request that was given a body has it (try_clone, and the
\* body taken for the last attempt).
THEOREM BodiesGoOut == Spec => []NoHollowAttempt
<1>1. IInv => NoHollowAttempt
  BY DEF IInv, BodyThere, NoHollowAttempt
<1> QED BY <1>1, Invariance, PTL

\* What makes LateIsTimeout inductive: an attempt under way was sent.
Punctual ==
  /\ LateIsTimeout
  /\ \A r \in Requests : pc[r] = "attempt" => sent[r] = attempts[r]
  /\ \A r \in Requests : sent[r] <= attempts[r]

LEMMA StepKeepsPunctual ==
  ASSUME LoopTypeOK, Punctual, NEW r \in Requests, Step(r) \/ DropFuture(r) \/ Expire(r)
  PROVE  Punctual'
<1> USE DEF LoopTypeOK, Punctual, LateIsTimeout, Goto
<1>1. CASE Begin(r)
  BY <1>1 DEF Begin
<1>2. CASE Attempt(r)
  <2>1. CASE expired[r]
    BY <1>2, <2>1 DEF Attempt
  <2>2. CASE ~expired[r]
    BY <1>2, <2>2 DEF Attempt
  <2> QED BY <2>1, <2>2
<1>3. CASE Answer(r)
  BY <1>3 DEF Answer
<1>4. CASE Retry(r) \/ RetryDenied(r) \/ GiveAnswer(r) \/ Leave(r)
  BY <1>4 DEF Retry, RetryDenied, GiveAnswer, Leave
<1>5. CASE DropFuture(r)
  BY <1>5 DEF DropFuture
<1>6. CASE Expire(r)
  BY <1>6 DEF Expire
<1> QED BY <1>1, <1>2, <1>3, <1>4, <1>5, <1>6 DEF Step

\* Once the deadline is over no retry sends anything any more, and whoever goes
\* on ends in the timeout: for any requests, retries and interleaving.
THEOREM DeadlineHolds == Spec => DeadlineCoversRetries
<1>1. IInv /\ [Next]_vars =>
        [\A r \in Requests : expired[r] => expired'[r] /\ sent'[r] = sent[r]]_vars
  <2> SUFFICES ASSUME IInv, NEW s \in Requests, Step(s) \/ DropFuture(s) \/ Expire(s),
                      NEW r \in Requests, expired[r]
               PROVE  expired'[r] /\ sent'[r] = sent[r]
    BY DEF Next, Done, vars
  <2>1. LoopTypeOK
    BY TypeParts DEF IInv
  <2> QED
    BY <2>1 DEF LoopTypeOK, Step, Begin, Attempt, Answer, Retry, RetryDenied, GiveAnswer, Leave,
       DropFuture, Expire
<1>2. Init => Punctual
  BY DEF Init, Punctual, LateIsTimeout
<1>3. IInv /\ Punctual /\ [Next]_vars => Punctual'
  <2>1. ASSUME IInv, Punctual, NEW r \in Requests, Step(r) \/ DropFuture(r) \/ Expire(r)
        PROVE  Punctual'
    BY <2>1, TypeParts, StepKeepsPunctual DEF IInv
  <2>2. ASSUME Punctual, UNCHANGED vars PROVE Punctual'
    BY <2>2 DEF vars, loopVars, Punctual, LateIsTimeout
  <2> QED BY <2>1, <2>2 DEF Next, Done
<1>4. Punctual' => LateIsTimeout'
  BY DEF Punctual
<1>5. IInv /\ Punctual /\ [Next]_vars =>
        [/\ \A r \in Requests : expired[r] => expired'[r] /\ sent'[r] = sent[r]
         /\ LateIsTimeout']_vars
  BY <1>1, <1>3, <1>4
<1> QED BY <1>2, <1>3, <1>5, Invariance, PTL DEF Spec, DeadlineCoversRetries

LEMMA PaidFor ==
  ASSUME IInv, HasBudget
  PROVE  WithdrawAmount * (AllRetries - Baseline) <= DepositAmount * Cardinality(Finished)
<1>1. writer = DepositAmount * Cardinality(Finished) - WithdrawAmount * AllRetries
      /\ writer + Baseline * WithdrawAmount >= 0
  BY DEF IInv, Books, Reserve
<1>2. AllRetries \in Int /\ Cardinality(Finished) \in Int
  BY SetsFinite
<1>3. Baseline \in Nat
  BY LoadOK, SMT
<1>4. \A d, w, b, i, j \in Int : (d * i - w * j) + b * w >= 0 => w * (j - b) <= d * i
  OBVIOUS
<1> QED BY <1>1, <1>2, <1>3, <1>4, AmountsOK

\* What is spent was deposited or is the baseline: for any max_extra_load the
\* retries beyond the baseline cost no more than the finished ones paid for.
THEOREM RetriesArePaidFor ==
  Spec => [](HasBudget =>
               WithdrawAmount * (AllRetries - Baseline)
                 <= DepositAmount * Cardinality(Finished))
<1>1. IInv => (HasBudget => WithdrawAmount * (AllRetries - Baseline)
                               <= DepositAmount * Cardinality(Finished))
  BY PaidFor
<1> QED BY <1>1, Invariance, PTL

\* max_extra_load is kept when a retry costs what it should: without the
\* hypothesis it is not, 1 / max_extra_load being truncated (run budget_load).
THEOREM LoadIsBounded ==
  ASSUME 1000 * DepositAmount <= Permille * WithdrawAmount
  PROVE  Spec => []NoRetryStorm
<1> DEFINE n == Cardinality(Finished)
<1>1. IInv => (HasBudget =>
                 WithdrawAmount * (AllRetries - Baseline) <= DepositAmount * n)
  BY PaidFor
<1>2. /\ AllRetries - Baseline \in Int /\ n \in Nat
      /\ Permille \in Nat /\ DepositAmount \in Nat /\ WithdrawAmount \in Nat \ {0}
  <2>1. Permille \in Nat /\ Baseline \in Nat
    BY LoadOK, SMT
  <2> QED BY <2>1, SetsFinite, AmountsOK
<1>3. IInv => NoRetryStorm
  <2> SUFFICES ASSUME IInv, HasBudget
               PROVE  /\ Recent("deposit", LongestLife) = n
                      /\ Recent("withdraw", LongestLife) = AllRetries
                      /\ 1000 * (AllRetries - Baseline) <= Permille * n
    BY DEF NoRetryStorm
  <2>1. Recent("deposit", LongestLife) = n /\ Recent("withdraw", LongestLife) = AllRetries
    BY DEF IInv, Books, Booked, Recent
  <2>2. 1000 * (AllRetries - Baseline) <= Permille * n
    BY <1>1, <1>2, LoadOfCost
  <2> QED BY <2>1, <2>2
<1> QED BY <1>3, Invariance, PTL
=============================================================================
