-------------------------- MODULE FairQueueProofs --------------------------
(***************************************************************************)
(* TLAPS proofs about FairQueue, for every finite set of contracts and     *)
(* every value of the capacities and of the starvation floor.              *)
(***************************************************************************)
EXTENDS FairQueue, FiniteSetTheorems, SequenceTheorems, TLAPS

Distinct(s) == \A i, j \in DOMAIN s : s[i] = s[j] => i = j

Occurs(s, x) == \E i \in DOMAIN s : s[i] = x

\* Whatever the places of x and y in s, x comes first.
Before(s, x, y) == \A p, q \in DOMAIN s : s[p] = x /\ s[q] = y => p < q

Rotated(s, keep) ==
    LET rest == SubSeq(s, 2, Len(s)) IN IF keep THEN Append(rest, s[1]) ELSE rest

\* Taking the first key of the rotation, and putting it back at the end if
\* there is more for it, keeps the others in order and puts it behind them.
LEMMA RotationOrder ==
    ASSUME NEW S, NEW s \in Seq(S), s # <<>>, Distinct(s), NEW keep \in BOOLEAN
    PROVE  /\ Rotated(s, keep) \in Seq(S)
           /\ Distinct(Rotated(s, keep))
           /\ \A x : Occurs(Rotated(s, keep), x) <=> Occurs(s, x) /\ (keep \/ x # s[1])
           /\ \A x, y : x # s[1] /\ Before(s, x, y) => Before(Rotated(s, keep), x, y)
           /\ \A x : x # s[1] => Before(Rotated(s, keep), x, s[1])
<1>. DEFINE n == Len(s)
            rest == SubSeq(s, 2, n)
            r == Rotated(s, keep)
<1>1. n \in Nat \ {0} /\ DOMAIN s = 1 .. n /\ s[1] \in S /\ \A i \in 1 .. n : s[i] \in S
  BY LenProperties, EmptySeq
<1>2. rest \in Seq(S) /\ Len(rest) = n - 1 /\ \A i \in 1 .. (n - 1) : rest[i] = s[i + 1]
  <2>1. /\ rest \in Seq(S)
        /\ Len(rest) = IF 2 <= n THEN n - 2 + 1 ELSE 0
        /\ \A i \in 1 .. n - 2 + 1 : rest[i] = s[2 + i - 1]
    BY <1>1, SubSeqProperties
  <2>. HIDE DEF rest, n
  <2>2. n - 2 + 1 = n - 1 /\ (IF 2 <= n THEN n - 2 + 1 ELSE 0) = n - 1
    BY <1>1
  <2>3. ASSUME NEW i \in 1 .. (n - 1) PROVE rest[i] = s[i + 1]
    <3>1. 2 + i - 1 = i + 1 /\ i \in 1 .. n - 2 + 1
      BY <1>1, <2>2
    <3>. QED BY <2>1, <3>1
  <2>. QED BY <2>1, <2>2, <2>3
<1>3. CASE ~keep
  <2>1. r = rest
    BY <1>3 DEF Rotated
  <2>2. DOMAIN rest = 1 .. (n - 1)
    BY <1>1, <1>2, LenProperties
  <2>. HIDE DEF r, rest, n
  <2>3. ASSUME NEW i \in 1 .. (n - 1), NEW j \in 1 .. (n - 1), rest[i] = rest[j] PROVE i = j
    <3>1. i + 1 \in 1 .. n /\ j + 1 \in 1 .. n /\ s[i + 1] = s[j + 1]
      BY <1>1, <1>2, <2>3
    <3>2. i + 1 = j + 1
      BY <1>1, <3>1 DEF Distinct
    <3>. QED BY <3>2
  <2>4. ASSUME NEW x PROVE Occurs(rest, x) <=> Occurs(s, x) /\ x # s[1]
    <3>1. ASSUME NEW i \in 1 .. (n - 1), rest[i] = x PROVE Occurs(s, x) /\ x # s[1]
      <4>1. i + 1 \in 1 .. n /\ i + 1 # 1 /\ s[i + 1] = x
        BY <1>1, <1>2, <3>1
      <4>. QED BY <1>1, <4>1 DEF Occurs, Distinct
    <3>2. ASSUME NEW i \in 1 .. n, s[i] = x, x # s[1] PROVE Occurs(rest, x)
      <4>1. i - 1 \in 1 .. (n - 1) /\ rest[i - 1] = x
        BY <1>1, <1>2, <3>2
      <4>. QED BY <4>1, <2>2 DEF Occurs
    <3>. QED BY <1>1, <2>2, <3>1, <3>2 DEF Occurs
  <2>5. ASSUME NEW x, NEW y, Before(s, x, y) PROVE Before(rest, x, y)
    <3>1. ASSUME NEW p \in 1 .. (n - 1), NEW q \in 1 .. (n - 1), rest[p] = x, rest[q] = y
          PROVE  p < q
      <4>1. p + 1 \in 1 .. n /\ q + 1 \in 1 .. n /\ s[p + 1] = x /\ s[q + 1] = y
        BY <1>1, <1>2, <3>1
      <4>2. p + 1 < q + 1
        BY <4>1, <1>1, <2>5 DEF Before
      <4>. QED BY <4>2
    <3>. QED BY <2>2, <3>1 DEF Before
  <2>6. ASSUME NEW x PROVE Before(rest, x, s[1])
    <3>1. ~Occurs(rest, s[1])
      BY <2>4
    <3>. QED BY <3>1 DEF Before, Occurs
  <2>. QED BY <1>2, <1>3, <2>1, <2>2, <2>3, <2>4, <2>5, <2>6 DEF Distinct, r
<1>4. CASE keep
  <2>1. r = Append(rest, s[1])
    BY <1>4 DEF Rotated
  <2>. HIDE DEF rest
  <2>2. /\ r \in Seq(S)
        /\ Len(r) = n
        /\ \A i \in 1 .. (n - 1) : r[i] = s[i + 1]
        /\ r[n] = s[1]
    <3>1. /\ r \in Seq(S)
          /\ Len(r) = Len(rest) + 1
          /\ \A i \in 1 .. Len(rest) : r[i] = rest[i]
          /\ r[Len(rest) + 1] = s[1]
      <4>. HIDE DEF r
      <4>1. rest \in Seq(S) /\ s[1] \in S
        BY <1>1, <1>2
      <4>. QED BY <2>1, <4>1, AppendProperties
    <3>. HIDE DEF r
    <3>. HIDE DEF n
    <3>2. Len(rest) + 1 = n
      BY <1>1, <1>2
    <3>. QED BY <1>1, <1>2, <3>1, <3>2
  <2>. HIDE DEF r
  <2>3. DOMAIN r = 1 .. n
    BY <2>2, LenProperties
  <2>. HIDE DEF n
  <2>4. \A i \in 1 .. (n - 1) : r[i] # s[1]
    BY <1>1, <2>2 DEF Distinct
  <2>5. ASSUME NEW i \in 1 .. n, NEW j \in 1 .. n, r[i] = r[j] PROVE i = j
    <3>1. CASE i = n \/ j = n
      BY <1>1, <2>2, <2>4, <2>5, <3>1
    <3>2. CASE i # n /\ j # n
      <4>1. i + 1 \in 1 .. n /\ j + 1 \in 1 .. n /\ s[i + 1] = s[j + 1]
        BY <1>1, <2>2, <2>5, <3>2
      <4>2. i + 1 = j + 1
        BY <4>1, <1>1 DEF Distinct
      <4>. QED BY <4>2
    <3>. QED BY <3>1, <3>2
  <2>6. ASSUME NEW x PROVE Occurs(r, x) <=> Occurs(s, x)
    <3>1. ASSUME NEW i \in 1 .. n, r[i] = x PROVE Occurs(s, x)
      <4>1. CASE i = n
        BY <1>1, <2>2, <3>1, <4>1 DEF Occurs
      <4>2. CASE i # n
        <5>1. i + 1 \in 1 .. n /\ s[i + 1] = x
          BY <1>1, <2>2, <3>1, <4>2
        <5>. QED BY <1>1, <5>1 DEF Occurs
      <4>. QED BY <4>1, <4>2
    <3>2. ASSUME NEW i \in 1 .. n, s[i] = x PROVE Occurs(r, x)
      <4>1. CASE i = 1
        BY <1>1, <2>2, <2>3, <3>2, <4>1 DEF Occurs
      <4>2. CASE i # 1
        <5>1. i - 1 \in 1 .. n /\ i - 1 \in 1 .. (n - 1) /\ (i - 1) + 1 = i
          BY <1>1, <4>2
        <5>2. r[i - 1] = x
          BY <2>2, <3>2, <5>1
        <5>. QED BY <2>3, <5>1, <5>2 DEF Occurs
      <4>. QED BY <4>1, <4>2
    <3>. QED BY <1>1, <2>3, <3>1, <3>2 DEF Occurs
  <2>7. ASSUME NEW x, NEW y, x # s[1], y = s[1] \/ Before(s, x, y) PROVE Before(r, x, y)
    <3>1. ASSUME NEW p \in 1 .. n, NEW q \in 1 .. n, r[p] = x, r[q] = y
          PROVE  p < q
      <4>1. p # n /\ p \in 1 .. (n - 1)
        BY <1>1, <2>2, <2>7, <3>1
      <4>2. CASE q = n
        BY <1>1, <4>1, <4>2
      <4>3. CASE q # n
        <5>1. q \in 1 .. (n - 1) /\ y # s[1]
          BY <1>1, <2>4, <3>1, <4>3
        <5>2. p + 1 \in 1 .. n /\ q + 1 \in 1 .. n /\ s[p + 1] = x /\ s[q + 1] = y
          BY <1>1, <2>2, <3>1, <4>1, <5>1
        <5>3. p + 1 < q + 1
          BY <1>1, <2>7, <5>1, <5>2 DEF Before
        <5>. QED BY <5>3
      <4>. QED BY <4>2, <4>3
    <3>. QED BY <2>3, <3>1 DEF Before
  <2>. QED BY <1>4, <2>2, <2>3, <2>5, <2>6, <2>7 DEF Distinct, r
<1>. QED BY <1>3, <1>4

\* A key registered at the end comes behind every key already there.
LEMMA RegistrationOrder ==
    ASSUME NEW S, NEW s \in Seq(S), NEW e \in S, Distinct(s), ~Occurs(s, e)
    PROVE  /\ Append(s, e) \in Seq(S)
           /\ Distinct(Append(s, e))
           /\ \A x : Occurs(Append(s, e), x) <=> Occurs(s, x) \/ x = e
           /\ \A x, y : x # e /\ Before(s, x, y) => Before(Append(s, e), x, y)
<1>. DEFINE n == Len(s)
            r == Append(s, e)
<1>1. n \in Nat /\ DOMAIN s = 1 .. n
  BY LenProperties
<1>2. /\ r \in Seq(S)
      /\ Len(r) = n + 1
      /\ \A i \in 1 .. n : r[i] = s[i]
      /\ r[n + 1] = e
  BY AppendProperties
<1>. HIDE DEF r
<1>3. DOMAIN r = 1 .. (n + 1)
  BY <1>2, LenProperties
<1>. HIDE DEF n
<1>4. \A i \in 1 .. n : r[i] # e
  BY <1>1, <1>2 DEF Occurs
<1>5. Distinct(r)
  BY <1>1, <1>2, <1>3, <1>4 DEF Distinct
<1>6. ASSUME NEW x PROVE Occurs(r, x) <=> Occurs(s, x) \/ x = e
  <2>1. ASSUME NEW i \in 1 .. (n + 1), r[i] = x PROVE Occurs(s, x) \/ x = e
    BY <1>1, <1>2, <2>1 DEF Occurs
  <2>2. ASSUME NEW i \in 1 .. n, s[i] = x PROVE Occurs(r, x)
    BY <1>1, <1>2, <1>3, <2>2 DEF Occurs
  <2>3. Occurs(r, e)
    BY <1>1, <1>2, <1>3 DEF Occurs
  <2>. QED BY <1>1, <1>3, <2>1, <2>2, <2>3 DEF Occurs
<1>7. ASSUME NEW x, NEW y, x # e, Before(s, x, y) PROVE Before(r, x, y)
  <2>1. ASSUME NEW p \in 1 .. (n + 1), NEW q \in 1 .. (n + 1), r[p] = x, r[q] = y
        PROVE  p < q
    <3>1. p \in 1 .. n /\ s[p] = x
      BY <1>1, <1>2, <1>7, <2>1
    <3>2. CASE q = n + 1
      BY <1>1, <3>1, <3>2
    <3>3. CASE q \in 1 .. n
      <4>1. s[q] = y
        BY <1>2, <2>1, <3>3
      <4>. QED BY <1>1, <1>7, <3>1, <3>3, <4>1 DEF Before
    <3>. QED BY <1>1, <3>2, <3>3
  <2>. QED BY <1>3, <2>1 DEF Before
<1>. QED BY <1>2, <1>5, <1>6, <1>7 DEF r

-----------------------------------------------------------------------------
\* Why no key is overtaken twice: a key that had its turn while another waited
\* is behind that other one, or has nothing queued.
TurnOrder ==
    \A t \in Priority, k, j \in QueueKey :
        turns[t][k][j] # 0 =>
            /\ turns[t][k][j] = 1
            /\ len[t][k] > 0
            /\ Before(round_robin[t], k, j)

\* Why starvation is bounded: the streak the code keeps is never shorter than
\* the wait it stands for.
StreakCovers == lowerWait <= client_streak /\ client_streak <= RELAY_STARVATION_FLOOR

LowerFits == queued["Background"] + queued["NetworkRelay"] <= soft_cap

\* What the queue operations alone keep.
TierInv == TurnsAreExact /\ (\A t \in Priority : queued[t] = Cardinality(Slots(t))) /\ TurnOrder

TotalInv ==
    /\ total_queued = queued["Background"] + queued["NetworkRelay"] + queued["ClientLocal"]
    /\ LowerFits

QueueInv == QueueTypeOK /\ TierInv /\ TotalInv /\ StreakCovers

QueueVarsType ==
    /\ len \in [Priority -> [QueueKey -> 0 .. MAX_QUEUED_PER_CONTRACT]]
    /\ round_robin \in [Priority -> Seq(QueueKey)]
    /\ queued \in [Priority -> Nat]
    /\ turns \in [Priority -> [QueueKey -> [QueueKey -> Nat]]]

\* The same in terms of the sequence predicates.
LEMMA ExactTurns ==
    TurnsAreExact <=> \A t \in Priority :
                          /\ Distinct(round_robin[t])
                          /\ \A k \in QueueKey : len[t][k] > 0 <=> Occurs(round_robin[t], k)
  BY DEF TurnsAreExact, Distinct, Occurs

\* The events of a tier are finitely many, and there are none exactly when
\* the tier's count is zero.
LEMMA SlotsFinite ==
    ASSUME NEW t \in Priority
    PROVE  IsFiniteSet(Slots(t)) /\ Cardinality(Slots(t)) \in Nat
<1>1. IsFiniteSet(1 .. MAX_QUEUED_PER_CONTRACT)
  BY QueueConstants, FS_Interval
<1>2. IsFiniteSet(QueueKey \X (1 .. MAX_QUEUED_PER_CONTRACT))
  BY <1>1, QueueConstants, FS_Product
<1>3. Slots(t) \in SUBSET (QueueKey \X (1 .. MAX_QUEUED_PER_CONTRACT))
  BY DEF Slots
<1>4. IsFiniteSet(Slots(t))
  BY <1>2, <1>3, FS_Subset
<1>. QED BY <1>4, FS_CardinalityType

\* A count is positive exactly when its tier has an event.
LEMMA CountMeansItem ==
    ASSUME QueueVarsType, NEW t \in Priority, queued[t] = Cardinality(Slots(t))
    PROVE  queued[t] > 0 <=> HasItem(t)
<1>1. Slots(t) = {} <=> ~HasItem(t)
  <2>1. ASSUME NEW k \in QueueKey, len[t][k] > 0 PROVE Slots(t) # {}
    <3>1. <<k, 1>> \in QueueKey \X (1 .. MAX_QUEUED_PER_CONTRACT) /\ 1 <= len[t][k]
      BY <2>1, QueueConstants DEF QueueVarsType
    <3>2. <<k, 1>> \in Slots(t)
      BY <3>1 DEF Slots
    <3>. QED BY <3>2
  <2>2. ASSUME NEW s \in Slots(t) PROVE HasItem(t)
    <3>1. s[1] \in QueueKey /\ s[2] \in 1 .. MAX_QUEUED_PER_CONTRACT /\ s[2] <= len[t][s[1]]
      BY DEF Slots
    <3>2. len[t][s[1]] > 0
      BY <3>1, QueueConstants DEF QueueVarsType
    <3>. QED BY <3>1, <3>2 DEF HasItem
  <2>. QED BY <2>1, <2>2 DEF HasItem
<1>2. Cardinality(Slots(t)) = 0 <=> Slots(t) = {}
  BY SlotsFinite, FS_EmptySet
<1>. QED BY <1>1, <1>2, SlotsFinite
-----------------------------------------------------------------------------
\* PriorityTier::push on a queue below its cap.
LEMMA PushKeeps ==
    ASSUME QueueVarsType, TierInv, NEW t \in Priority, NEW k \in QueueKey,
           ~PerContract(t, k), TierPush(t, k)
    PROVE  /\ QueueVarsType'
           /\ TierInv'
           /\ queued' = [queued EXCEPT ![t] = @ + 1]
<1>. DEFINE s == round_robin[t]
<1>. USE QueueConstants
<1>0. len[t][k] \in 0 .. MAX_QUEUED_PER_CONTRACT /\ len[t][k] < MAX_QUEUED_PER_CONTRACT
      /\ s \in Seq(QueueKey) /\ Distinct(s)
      /\ \A w \in QueueKey : len[t][w] > 0 <=> Occurs(s, w)
  BY ExactTurns DEF QueueVarsType, PerContract, TierInv
<1>1. /\ len' = [len EXCEPT ![t] = [len[t] EXCEPT ![k] = len[t][k] + 1]]
      /\ round_robin' = [round_robin EXCEPT ![t] = IF len[t][k] = 0 THEN Append(s, k) ELSE s]
      /\ queued' = [queued EXCEPT ![t] = queued[t] + 1]
      /\ turns' = turns
  BY DEF TierPush
<1>2. /\ \A u \in Priority \ {t} : len'[u] = len[u] /\ round_robin'[u] = round_robin[u]
      /\ \A w \in QueueKey : len'[t][w] = IF w = k THEN len[t][k] + 1 ELSE len[t][w]
      /\ round_robin'[t] = IF len[t][k] = 0 THEN Append(s, k) ELSE s
      /\ queued'[t] = queued[t] + 1
  BY <1>1 DEF QueueVarsType
<1>3. /\ round_robin'[t] \in Seq(QueueKey)
      /\ Distinct(round_robin'[t])
      /\ \A w \in QueueKey : len'[t][w] > 0 <=> Occurs(round_robin'[t], w)
      /\ \A x, y : len[t][x] > 0 /\ x \in QueueKey /\ Before(s, x, y)
                       => Before(round_robin'[t], x, y)
  <2>1. CASE len[t][k] = 0
    <3>1. ~Occurs(s, k)
      BY <1>0, <2>1
    <3>2. /\ Append(s, k) \in Seq(QueueKey)
          /\ Distinct(Append(s, k))
          /\ \A x : Occurs(Append(s, k), x) <=> Occurs(s, x) \/ x = k
          /\ \A x, y : x # k /\ Before(s, x, y) => Before(Append(s, k), x, y)
      BY <1>0, <3>1, RegistrationOrder
    <3>3. round_robin'[t] = Append(s, k)
      BY <1>2, <2>1
    <3>4. ASSUME NEW w \in QueueKey PROVE len'[t][w] > 0 <=> Occurs(Append(s, k), w)
      <4>1. CASE w = k
        BY <1>0, <1>2, <2>1, <3>2, <4>1
      <4>2. CASE w # k
        BY <1>0, <1>2, <3>2, <4>2
      <4>. QED BY <4>1, <4>2
    <3>. QED BY <2>1, <3>2, <3>3, <3>4
  <2>2. CASE len[t][k] # 0
    <3>1. round_robin'[t] = s
      BY <1>2, <2>2
    <3>2. ASSUME NEW w \in QueueKey PROVE len'[t][w] > 0 <=> len[t][w] > 0
      BY <1>0, <1>2, <2>2
    <3>. QED BY <1>0, <3>1, <3>2
  <2>. QED BY <2>1, <2>2
<1>4. QueueVarsType'
  <2>1. len' \in [Priority -> [QueueKey -> 0 .. MAX_QUEUED_PER_CONTRACT]]
    <3>1. len[t][k] + 1 \in 0 .. MAX_QUEUED_PER_CONTRACT
      BY <1>0
    <3>. QED BY <1>1, <3>1 DEF QueueVarsType
  <2>2. round_robin' \in [Priority -> Seq(QueueKey)]
    BY <1>1, <1>2, <1>3 DEF QueueVarsType
  <2>3. queued' \in [Priority -> Nat]
    BY <1>1 DEF QueueVarsType
  <2>. QED BY <1>1, <2>1, <2>2, <2>3 DEF QueueVarsType
<1>5. TurnsAreExact'
  <2>1. ASSUME NEW u \in Priority
        PROVE  /\ Distinct(round_robin'[u])
               /\ \A w \in QueueKey : len'[u][w] > 0 <=> Occurs(round_robin'[u], w)
    BY <1>2, <1>3, ExactTurns DEF TierInv
  <2>. QED BY <2>1 DEF TurnsAreExact, Distinct, Occurs
<1>6. ASSUME NEW u \in Priority PROVE queued'[u] = Cardinality(Slots(u)')
  <2>1. CASE u # t
    <3>1. Slots(u)' = Slots(u)
      BY <1>2, <2>1 DEF Slots
    <3>2. queued'[u] = queued[u]
      BY <1>1, <2>1 DEF QueueVarsType
    <3>. QED BY <3>1, <3>2 DEF TierInv
  <2>2. CASE u = t
    <3>. DEFINE x == <<k, len[t][k] + 1>>
    <3>1. x \in QueueKey \X (1 .. MAX_QUEUED_PER_CONTRACT) /\ x \notin Slots(t)
      BY <1>0 DEF Slots
    <3>2. Slots(t)' = Slots(t) \cup {x}
      <4>1. ASSUME NEW y \in QueueKey \X (1 .. MAX_QUEUED_PER_CONTRACT)
            PROVE  y[2] <= len'[t][y[1]] <=> y[2] <= len[t][y[1]] \/ y = x
        <5>0. PICK a \in QueueKey, b \in 1 .. MAX_QUEUED_PER_CONTRACT : y = <<a, b>>
          OBVIOUS
        <5>1. CASE a = k
          BY <1>0, <1>2, <5>0, <5>1
        <5>2. CASE a # k
          BY <1>2, <5>0, <5>2
        <5>. QED BY <5>1, <5>2
      <4>. HIDE DEF x
      <4>. QED BY <3>1, <4>1 DEF Slots
    <3>3. Cardinality(Slots(t) \cup {x}) = Cardinality(Slots(t)) + 1
      <4>. HIDE DEF x
      <4>. QED BY <3>1, SlotsFinite, FS_AddElement
    <3>. QED BY <1>2, <2>2, <3>2, <3>3 DEF TierInv
  <2>. QED BY <2>1, <2>2
<1>7. TurnOrder'
  <2>1. ASSUME NEW u \in Priority, NEW w \in QueueKey, NEW j \in QueueKey, turns[u][w][j] # 0
        PROVE  /\ turns[u][w][j] = 1
               /\ len'[u][w] > 0
               /\ Before(round_robin'[u], w, j)
    <3>0. turns[u][w][j] = 1 /\ len[u][w] > 0 /\ Before(round_robin[u], w, j)
      BY <2>1 DEF TierInv, TurnOrder
    <3>1. len'[u][w] > 0
      <4>1. CASE u = t /\ w = k
        BY <1>0, <1>2, <4>1
      <4>2. CASE ~(u = t /\ w = k)
        BY <1>2, <3>0, <4>2
      <4>. QED BY <4>1, <4>2
    <3>2. Before(round_robin'[u], w, j)
      BY <1>2, <1>3, <3>0
    <3>. QED BY <3>0, <3>1, <3>2
  <2>. QED BY <1>1, <2>1 DEF TurnOrder, Before
<1>. QED BY <1>1, <1>4, <1>5, <1>6, <1>7 DEF TierInv
\* PriorityTier::pop: the key served is the first of the rotation.
LEMMA PopKeeps ==
    ASSUME QueueVarsType, TierInv, NEW t \in Priority, TierPop(t)
    PROVE  /\ QueueVarsType'
           /\ TierInv'
           /\ HasItem(t)
           /\ queued[t] > 0
           /\ queued' = [queued EXCEPT ![t] = @ - 1]
<1>. DEFINE s == round_robin[t]
            k == s[1]
            more == len[t][k] # 1
<1>. USE QueueConstants
<1>0. /\ s \in Seq(QueueKey) /\ Len(s) \in Nat /\ DOMAIN s = 1 .. Len(s)
      /\ Distinct(s)
      /\ \A w \in QueueKey : len[t][w] > 0 <=> Occurs(s, w)
      /\ \A i \in DOMAIN s : s[i] \in QueueKey
  BY ExactTurns, LenProperties, ElementOfSeq DEF QueueVarsType, TierInv
<1>a. PICK i \in DOMAIN s :
        /\ Turn(t, i)
        /\ len' = [len EXCEPT ![t][s[i]] = @ - 1]
        /\ round_robin' = [round_robin EXCEPT ![t] =
              IF len[t][s[i]] = 1 THEN SubSeq(s, i + 1, Len(s))
                                  ELSE Append(SubSeq(s, i + 1, Len(s)), s[i])]
        /\ queued' = [queued EXCEPT ![t] = saturating_sub(@)]
        /\ CountTurn(t, s[i])
  BY DEF TierPop
<1>b. i = 1
  <2>1. SUFFICES ASSUME i # 1 PROVE FALSE
    OBVIOUS
  <2>2. 1 \in 1 .. (i - 1) /\ 1 \in DOMAIN s
    BY <1>0, <2>1
  <2>3. len[t][s[1]] = 0
    BY <1>a, <2>2 DEF Turn
  <2>4. len[t][s[1]] > 0
    BY <1>0, <2>2 DEF Occurs
  <2>. QED BY <2>3, <2>4
<1>1. /\ k \in QueueKey
      /\ len[t][k] \in 1 .. MAX_QUEUED_PER_CONTRACT
      /\ s # <<>>
      /\ len' = [len EXCEPT ![t] = [len[t] EXCEPT ![k] = len[t][k] - 1]]
      /\ round_robin' = [round_robin EXCEPT ![t] = Rotated(s, more)]
      /\ queued' = [queued EXCEPT ![t] = saturating_sub(queued[t])]
      /\ CountTurn(t, k)
  <2>1. k \in QueueKey /\ len[t][k] > 0 /\ s # <<>>
    BY <1>0, <1>a, <1>b, EmptySeq DEF Turn
  <2>2. len[t][k] \in 1 .. MAX_QUEUED_PER_CONTRACT
    <3>. HIDE DEF k
    <3>1. len[t][k] \in 0 .. MAX_QUEUED_PER_CONTRACT
      BY <2>1 DEF QueueVarsType
    <3>. QED BY <2>1, <3>1
  <2>3. round_robin' = [round_robin EXCEPT ![t] = Rotated(s, more)]
    <3>1. i + 1 = 2 /\ s[i] = k
      BY <1>b
    <3>2. (IF len[t][k] = 1 THEN SubSeq(s, 2, Len(s)) ELSE Append(SubSeq(s, 2, Len(s)), k))
          = Rotated(s, more)
      BY DEF Rotated
    <3>. HIDE DEF k, more
    <3>. QED BY <1>a, <3>1, <3>2
  <2>4. len' = [len EXCEPT ![t] = [len[t] EXCEPT ![k] = len[t][k] - 1]]
    BY <1>a, <1>b
  <2>5. queued' = [queued EXCEPT ![t] = saturating_sub(queued[t])]
    BY <1>a
  <2>. QED BY <1>a, <1>b, <2>1, <2>2, <2>3, <2>4, <2>5
<1>. HIDE DEF k
<1>c. HasItem(t) /\ queued[t] > 0
  <2>1. HasItem(t)
    BY <1>1 DEF HasItem
  <2>. QED BY <2>1, CountMeansItem DEF TierInv
<1>2. /\ \A u \in Priority \ {t} : /\ len'[u] = len[u]
                                   /\ round_robin'[u] = round_robin[u]
                                   /\ queued'[u] = queued[u]
                                   /\ turns'[u] = turns[u]
      /\ \A w \in QueueKey : len'[t][w] = IF w = k THEN len[t][k] - 1 ELSE len[t][w]
      /\ round_robin'[t] = Rotated(s, more)
      /\ queued'[t] = queued[t] - 1
      /\ \A w, j \in QueueKey :
            turns'[t][w][j] = IF w = k THEN 0
                              ELSE IF j = k /\ len[t][w] > 0
                                   THEN turns[t][w][j] + 1
                                   ELSE turns[t][w][j]
  <2>1. queued[t] \in Nat /\ saturating_sub(queued[t]) = queued[t] - 1
    BY <1>c DEF saturating_sub, QueueVarsType
  <2>2. /\ \A u \in Priority \ {t} : turns'[u] = turns[u]
        /\ \A w, j \in QueueKey :
            turns'[t][w][j] = IF w = k THEN 0
                              ELSE IF j = k /\ len[t][w] > 0
                                   THEN turns[t][w][j] + 1
                                   ELSE turns[t][w][j]
    BY <1>1 DEF CountTurn, QueueVarsType
  <2>. QED BY <1>1, <2>1, <2>2 DEF QueueVarsType
<1>3. /\ round_robin'[t] \in Seq(QueueKey)
      /\ Distinct(round_robin'[t])
      /\ \A x : Occurs(round_robin'[t], x) <=> Occurs(s, x) /\ (more \/ x # k)
      /\ \A x, y : x # k /\ Before(s, x, y) => Before(round_robin'[t], x, y)
      /\ \A x : x # k => Before(round_robin'[t], x, k)
  <2>1. more \in BOOLEAN
    OBVIOUS
  <2>2. /\ Rotated(s, more) \in Seq(QueueKey)
        /\ Distinct(Rotated(s, more))
        /\ \A x : Occurs(Rotated(s, more), x) <=> Occurs(s, x) /\ (more \/ x # s[1])
        /\ \A x, y : x # s[1] /\ Before(s, x, y) => Before(Rotated(s, more), x, y)
        /\ \A x : x # s[1] => Before(Rotated(s, more), x, s[1])
    <3>. HIDE DEF more, s
    <3>. QED BY <1>0, <1>1, <2>1, RotationOrder
  <2>3. round_robin'[t] = Rotated(s, more) /\ s[1] = k
    BY <1>2 DEF k
  <2>. HIDE DEF more
  <2>. QED BY <2>2, <2>3
<1>4. QueueVarsType'
  <2>1. len' \in [Priority -> [QueueKey -> 0 .. MAX_QUEUED_PER_CONTRACT]]
    <3>1. len[t][k] - 1 \in 0 .. MAX_QUEUED_PER_CONTRACT
      BY <1>1
    <3>. QED BY <1>1, <3>1 DEF QueueVarsType
  <2>2. round_robin' \in [Priority -> Seq(QueueKey)]
    BY <1>1, <1>2, <1>3 DEF QueueVarsType
  <2>3. queued' \in [Priority -> Nat]
    <3>1. queued[t] \in Nat /\ saturating_sub(queued[t]) \in Nat
      BY SMTT(30) DEF QueueVarsType, saturating_sub
    <3>. QED BY <1>1, <3>1 DEF QueueVarsType
  <2>4. turns' \in [Priority -> [QueueKey -> [QueueKey -> Nat]]]
    <3>. DEFINE row == [w \in QueueKey |->
                          [j \in QueueKey |->
                              IF w = k THEN 0
                              ELSE IF j = k /\ len[t][w] > 0
                                   THEN turns[t][w][j] + 1
                                   ELSE turns[t][w][j]]]
    <3>1. row \in [QueueKey -> [QueueKey -> Nat]]
      <4>1. ASSUME NEW w \in QueueKey, NEW j \in QueueKey
            PROVE  turns[t][w][j] \in Nat /\ turns[t][w][j] + 1 \in Nat
        <5>1. turns[t] \in [QueueKey -> [QueueKey -> Nat]]
          BY DEF QueueVarsType
        <5>2. turns[t][w] \in [QueueKey -> Nat]
          BY <5>1
        <5>3. turns[t][w][j] \in Nat
          BY <5>2
        <5>. QED BY <5>3
      <4>. QED BY <4>1
    <3>2. turns' = [turns EXCEPT ![t] = row]
      BY <1>1 DEF CountTurn
    <3>. HIDE DEF row
    <3>. QED BY <3>1, <3>2 DEF QueueVarsType
  <2>. QED BY <2>1, <2>2, <2>3, <2>4 DEF QueueVarsType
<1>5. TurnsAreExact'
  <2>1. ASSUME NEW u \in Priority
        PROVE  /\ Distinct(round_robin'[u])
               /\ \A w \in QueueKey : len'[u][w] > 0 <=> Occurs(round_robin'[u], w)
    <3>1. CASE u # t
      BY <1>2, <3>1, ExactTurns DEF TierInv
    <3>2. CASE u = t
      <4>1. ASSUME NEW w \in QueueKey PROVE len'[t][w] > 0 <=> Occurs(round_robin'[t], w)
        <5>1. CASE w = k
          BY <1>0, <1>1, <1>2, <1>3, <5>1
        <5>2. CASE w # k
          BY <1>0, <1>2, <1>3, <5>2
        <5>. QED BY <5>1, <5>2
      <4>. QED BY <1>3, <3>2, <4>1
    <3>. QED BY <3>1, <3>2
  <2>. QED BY <2>1 DEF TurnsAreExact, Distinct, Occurs
<1>6. ASSUME NEW u \in Priority PROVE queued'[u] = Cardinality(Slots(u)')
  <2>1. CASE u # t
    <3>1. Slots(u)' = Slots(u)
      BY <1>2, <2>1 DEF Slots
    <3>. QED BY <1>2, <2>1, <3>1 DEF TierInv
  <2>2. CASE u = t
    <3>. DEFINE x == <<k, len[t][k]>>
    <3>1. x \in Slots(t)
      BY <1>1 DEF Slots
    <3>2. Slots(t)' = Slots(t) \ {x}
      <4>1. ASSUME NEW y \in QueueKey \X (1 .. MAX_QUEUED_PER_CONTRACT)
            PROVE  y[2] <= len'[t][y[1]] <=> y[2] <= len[t][y[1]] /\ y # x
        <5>0. PICK a \in QueueKey, b \in 1 .. MAX_QUEUED_PER_CONTRACT : y = <<a, b>>
          OBVIOUS
        <5>1. CASE a = k
          BY <1>1, <1>2, <5>0, <5>1
        <5>2. CASE a # k
          BY <1>2, <5>0, <5>2
        <5>. QED BY <5>1, <5>2
      <4>. HIDE DEF x
      <4>. QED BY <4>1 DEF Slots
    <3>3. Cardinality(Slots(t) \ {x}) = Cardinality(Slots(t)) - 1
      <4>. HIDE DEF x
      <4>. QED BY <3>1, SlotsFinite, FS_RemoveElement
    <3>. QED BY <1>2, <2>2, <3>2, <3>3 DEF TierInv
  <2>. QED BY <2>1, <2>2
<1>7. TurnOrder'
  <2>1. ASSUME NEW u \in Priority, NEW w \in QueueKey, NEW j \in QueueKey, turns'[u][w][j] # 0
        PROVE  /\ turns'[u][w][j] = 1
               /\ len'[u][w] > 0
               /\ Before(round_robin'[u], w, j)
    <3>1. CASE u # t
      BY <1>2, <2>1, <3>1 DEF TierInv, TurnOrder
    <3>2. CASE u = t
      <4>0. w # k
        BY <1>2, <2>1, <3>2
      <4>1. CASE j = k /\ len[t][w] > 0
        <5>1. turns[t][w][k] = 0
          <6>1. SUFFICES ASSUME turns[t][w][k] # 0 PROVE FALSE
            OBVIOUS
          <6>2. Before(s, w, k)
            BY <1>1, <6>1 DEF TierInv, TurnOrder
          <6>3. PICK p \in DOMAIN s : s[p] = w
            BY <1>0, <4>1 DEF Occurs
          <6>4. 1 \in DOMAIN s /\ s[1] = k
            BY <1>0, <6>3 DEF k
          <6>5. p < 1
            BY <6>2, <6>3, <6>4 DEF Before
          <6>. QED BY <1>0, <6>5
        <5>2. turns'[t][w][j] = 1
          BY <1>2, <4>0, <4>1, <5>1
        <5>3. len'[t][w] > 0
          BY <1>2, <4>0, <4>1
        <5>. QED BY <1>3, <3>2, <4>0, <4>1, <5>2, <5>3
      <4>2. CASE ~(j = k /\ len[t][w] > 0)
        <5>1. turns'[t][w][j] = turns[t][w][j]
          BY <1>2, <4>0, <4>2
        <5>2. turns[t][w][j] = 1 /\ len[t][w] > 0 /\ Before(s, w, j)
          BY <2>1, <3>2, <5>1 DEF TierInv, TurnOrder
        <5>3. len'[t][w] > 0
          BY <1>2, <4>0, <5>2
        <5>. QED BY <1>3, <3>2, <4>0, <5>1, <5>2, <5>3
      <4>. QED BY <4>1, <4>2
    <3>. QED BY <3>1, <3>2
  <2>. QED BY <2>1 DEF TurnOrder, Before
<1>8. queued' = [queued EXCEPT ![t] = @ - 1]
  <2>1. saturating_sub(queued[t]) = queued[t] - 1
    BY <1>c DEF QueueVarsType, saturating_sub
  <2>. QED BY <1>1, <2>1
<1>. QED BY <1>4, <1>5, <1>6, <1>7, <1>8, <1>c DEF TierInv
\* FairEventQueue::try_push when it admits: the total and the reserve hold.
LEMMA AdmissionKeeps ==
    ASSUME QueueTypeOK, TierInv, TotalInv, NEW t \in Priority, NEW k \in QueueKey,
           try_push(t, k)
    PROVE  QueueVarsType' /\ TierInv' /\ TotalInv'
           /\ total_queued' \in 0 .. MAX_TOTAL_FAIR_QUEUE
<1>. USE QueueConstants
<1>1. QueueVarsType /\ total_queued \in 0 .. MAX_TOTAL_FAIR_QUEUE
  BY DEF QueueTypeOK, QueueVarsType
<1>2. /\ QueueVarsType' /\ TierInv'
      /\ queued' = [queued EXCEPT ![t] = @ + 1]
      /\ total_queued' = total_queued + 1
      /\ total_queued < MAX_TOTAL_FAIR_QUEUE
      /\ t # "ClientLocal" => total_queued < soft_cap
  <2>1. ~PerContract(t, k) /\ TierPush(t, k) /\ ~GlobalCapacity(t) /\ total_queued' = total_queued + 1
    BY DEF try_push
  <2>2. QueueVarsType' /\ TierInv' /\ queued' = [queued EXCEPT ![t] = @ + 1]
    BY <1>1, <2>1, PushKeeps
  <2>. QED BY <1>1, <2>1, <2>2 DEF GlobalCapacity, soft_cap
<1>3. total_queued' \in 0 .. MAX_TOTAL_FAIR_QUEUE
  BY <1>1, <1>2
<1>4. TotalInv'
  <2>. DEFINE b == queued["Background"]
              r == queued["NetworkRelay"]
              c == queued["ClientLocal"]
  <2>0. b \in Nat /\ r \in Nat /\ c \in Nat /\ total_queued = b + r + c /\ b + r <= soft_cap
        /\ soft_cap \in Int
    BY <1>1 DEF QueueVarsType, TotalInv, LowerFits, Priority, soft_cap
  <2>1. CASE t = "Background"
    <3>1. queued'["Background"] = b + 1 /\ queued'["NetworkRelay"] = r /\ queued'["ClientLocal"] = c
      BY <1>1, <1>2, <2>1 DEF QueueVarsType, Priority
    <3>. QED BY <1>2, <2>0, <2>1, <3>1 DEF TotalInv, LowerFits, soft_cap
  <2>2. CASE t = "NetworkRelay"
    <3>1. queued'["Background"] = b /\ queued'["NetworkRelay"] = r + 1 /\ queued'["ClientLocal"] = c
      BY <1>1, <1>2, <2>2 DEF QueueVarsType, Priority
    <3>. QED BY <1>2, <2>0, <2>2, <3>1 DEF TotalInv, LowerFits, soft_cap
  <2>3. CASE t = "ClientLocal"
    <3>1. queued'["Background"] = b /\ queued'["NetworkRelay"] = r /\ queued'["ClientLocal"] = c + 1
      BY <1>1, <1>2, <2>3 DEF QueueVarsType, Priority
    <3>. QED BY <1>2, <2>0, <3>1 DEF TotalInv, LowerFits, soft_cap
  <2>. QED BY <2>1, <2>2, <2>3 DEF Priority
<1>. QED BY <1>2, <1>3, <1>4

\* A pop or an eviction: the total never has to saturate.
LEMMA RemovalKeeps ==
    ASSUME QueueTypeOK, TierInv, TotalInv, NEW t \in Priority, TierPop(t),
           total_queued' = saturating_sub(total_queued)
    PROVE  /\ QueueVarsType' /\ TierInv' /\ TotalInv' /\ HasItem(t)
           /\ total_queued' \in 0 .. MAX_TOTAL_FAIR_QUEUE
<1>. USE QueueConstants
<1>1. QueueVarsType /\ total_queued \in 0 .. MAX_TOTAL_FAIR_QUEUE
  BY DEF QueueTypeOK, QueueVarsType
<1>2. /\ QueueVarsType' /\ TierInv' /\ HasItem(t)
      /\ queued[t] > 0
      /\ queued' = [queued EXCEPT ![t] = @ - 1]
  BY <1>1, PopKeeps
<1>. DEFINE b == queued["Background"]
            r == queued["NetworkRelay"]
            c == queued["ClientLocal"]
<1>3. b \in Nat /\ r \in Nat /\ c \in Nat /\ total_queued = b + r + c /\ b + r <= soft_cap
      /\ soft_cap \in Int
  BY <1>1 DEF QueueVarsType, TotalInv, LowerFits, Priority, soft_cap
<1>4. total_queued > 0
  BY <1>2, <1>3 DEF Priority
<1>5. total_queued' = total_queued - 1
  BY <1>1, <1>4 DEF saturating_sub
<1>6. TotalInv'
  <2>1. CASE t = "Background"
    <3>1. queued'["Background"] = b - 1 /\ queued'["NetworkRelay"] = r /\ queued'["ClientLocal"] = c
      BY <1>1, <1>2, <2>1 DEF QueueVarsType, Priority
    <3>. QED BY <1>3, <1>5, <3>1 DEF TotalInv, LowerFits, soft_cap
  <2>2. CASE t = "NetworkRelay"
    <3>1. queued'["Background"] = b /\ queued'["NetworkRelay"] = r - 1 /\ queued'["ClientLocal"] = c
      BY <1>1, <1>2, <2>2 DEF QueueVarsType, Priority
    <3>. QED BY <1>3, <1>5, <3>1 DEF TotalInv, LowerFits, soft_cap
  <2>3. CASE t = "ClientLocal"
    <3>1. queued'["Background"] = b /\ queued'["NetworkRelay"] = r /\ queued'["ClientLocal"] = c - 1
      BY <1>1, <1>2, <2>3 DEF QueueVarsType, Priority
    <3>. QED BY <1>3, <1>5, <3>1 DEF TotalInv, LowerFits, soft_cap
  <2>. QED BY <2>1, <2>2, <2>3 DEF Priority
<1>. QED BY <1>1, <1>2, <1>4, <1>5, <1>6

\* FairEventQueue::pop: the streak it leaves stays at or below the floor, and
\* covers the wait of lower-tier work.
LEMMA StreakKept ==
    ASSUME QueueInv, NEW t \in Priority, Serve(t)
    PROVE  StreakCovers' /\ client_streak' \in Nat /\ lowerWait' \in Nat
<1>. USE QueueConstants
<1>1. QueueVarsType /\ client_streak \in Nat /\ lowerWait \in Nat /\ StreakCovers /\ TierInv
  BY DEF QueueInv, QueueTypeOK, QueueVarsType
<1>2. /\ lower_nonempty <=> LowerWaits
      /\ queued["ClientLocal"] > 0 <=> HasItem("ClientLocal")
  <2>1. \A u \in Priority : queued[u] > 0 <=> HasItem(u)
    BY <1>1, CountMeansItem DEF TierInv
  <2>. QED BY <2>1 DEF lower_nonempty, LowerWaits, Priority
<1>3. /\ client_streak' = NextStreak(t)
      /\ lowerWait' = IF t = "ClientLocal" /\ LowerWaits THEN lowerWait + 1 ELSE 0
  BY DEF Serve
<1>4. CASE ~(t = "ClientLocal" /\ LowerWaits)
  BY <1>1, <1>2, <1>3, <1>4 DEF NextStreak, StreakCovers
<1>5. CASE t = "ClientLocal" /\ LowerWaits
  <2>1. HasItem("ClientLocal")
    BY <1>1, <1>5, PopKeeps DEF Serve
  <2>2. ~force_lower
    <3>1. SUFFICES ASSUME force_lower PROVE FALSE
      OBVIOUS
    <3>2. PICK p \in 1 .. 3 : Order[p] = t /\ \A q \in 1 .. (p - 1) : ~HasItem(Order[q])
      BY DEF Serve
    <3>3. Order = <<"NetworkRelay", "Background", "ClientLocal">>
      BY <3>1 DEF Order
    <3>4. p = 3
      BY <1>5, <3>2, <3>3
    <3>5. 1 \in 1 .. (p - 1) /\ 2 \in 1 .. (p - 1)
      BY <3>4
    <3>6. ~HasItem("NetworkRelay") /\ ~HasItem("Background")
      BY <3>2, <3>3, <3>5
    <3>. QED BY <1>5, <3>6 DEF LowerWaits
  <2>3. client_streak < RELAY_STARVATION_FLOOR
    BY <1>1, <1>2, <1>5, <2>1, <2>2 DEF force_lower
  <2>4. client_streak' = client_streak + 1 /\ lowerWait' = lowerWait + 1
    BY <1>2, <1>3, <1>5 DEF NextStreak
  <2>. QED BY <1>1, <2>3, <2>4 DEF StreakCovers
<1>. QED BY <1>4, <1>5

\* A step that leaves the queue and the streak alone.
LEMMA QuietKeeps ==
    ASSUME QueueInv, UNCHANGED <<queueVars, client_streak, lowerWait>>
    PROVE  /\ QueueVarsType' /\ TierInv' /\ TotalInv' /\ StreakCovers'
           /\ total_queued' \in 0 .. MAX_TOTAL_FAIR_QUEUE
           /\ client_streak' \in Nat /\ lowerWait' \in Nat
<1>1. /\ len' = len /\ round_robin' = round_robin /\ queued' = queued /\ turns' = turns
      /\ total_queued' = total_queued /\ client_streak' = client_streak /\ lowerWait' = lowerWait
  BY DEF queueVars
<1>2. QueueVarsType /\ TierInv /\ TotalInv /\ StreakCovers
      /\ total_queued \in 0 .. MAX_TOTAL_FAIR_QUEUE /\ client_streak \in Nat /\ lowerWait \in Nat
  BY DEF QueueInv, QueueTypeOK, QueueVarsType
<1>3. QueueVarsType' /\ TotalInv' /\ StreakCovers'
  BY <1>1, <1>2 DEF QueueVarsType, TotalInv, LowerFits, StreakCovers, soft_cap
<1>4. TurnsAreExact' /\ TurnOrder'
  BY <1>1, <1>2 DEF TierInv, TurnsAreExact, TurnOrder, Before
<1>5. \A t \in Priority : (queued[t] = Cardinality(Slots(t)))'
  BY <1>1, <1>2 DEF TierInv, Slots
<1>. QED BY <1>1, <1>2, <1>3, <1>4, <1>5 DEF TierInv

\* The control part of the type invariant.
LoopType ==
    /\ pc \in {"drain", "evict", "retry", "select", "stopped"}
    /\ drained \in 0 .. MAX_DRAIN_BATCH
    /\ IF pc \in {"evict", "retry"}
       THEN pending \in {"NetworkRelay", "ClientLocal"} \X QueueKey
       ELSE pending = NoEvent
    /\ shed \in 0 .. CLIENT_LOCAL_RESERVE

\* Every step of the loop keeps the control part.
LEMMA LoopTypeKept ==
    ASSUME QueueTypeOK, QueueNext PROVE LoopType'
<1>. USE QueueConstants
<1>0. LoopType
  BY DEF QueueTypeOK, LoopType
<1>1. ASSUME NEW t \in Priority, NEW k \in QueueKey, NEW at \in {"drain", "select"},
             Admit(t, k, at) \/ Refuse(t, k, at)
      PROVE  LoopType'
  BY <1>0, <1>1 DEF LoopType, Admit, Refuse, Received
<1>2. ASSUME NEW t \in Priority, NEW k \in QueueKey, NEW at \in {"drain", "select"},
             StartEviction(t, k, at)
      PROVE  LoopType'
  <2>1. t \in {"NetworkRelay", "ClientLocal"}
    BY <1>2 DEF StartEviction, EvictionCanHelp, Priority
  <2>. QED BY <1>0, <1>2, <2>1 DEF LoopType, StartEviction, Received
<1>3. CASE evict_background
  <2>1. shed' \in 0 .. CLIENT_LOCAL_RESERVE
    <3>1. shed \in 0 .. CLIENT_LOCAL_RESERVE /\ shed < CLIENT_LOCAL_RESERVE /\ shed' = shed + 1
      BY <1>0, <1>3 DEF LoopType, evict_background
    <3>. QED BY <3>1
  <2>2. pc' = pc /\ drained' = drained /\ pending' = pending
    BY <1>3 DEF evict_background
  <2>. QED BY <1>0, <2>1, <2>2 DEF LoopType
<1>4. CASE EvictionEnds
  BY <1>0, <1>4 DEF LoopType, EvictionEnds
<1>5. CASE RetryAdmits \/ RetryRefused
  BY <1>0, <1>5 DEF LoopType, RetryAdmits, RetryRefused, RetryDone
<1>6. ASSUME NEW t \in Priority, Serve(t) PROVE LoopType'
  BY <1>0, <1>6 DEF LoopType, Serve
<1>7. CASE Park \/ InlineDisconnect \/ OtherWork \/ FatalError
  BY <1>0, <1>7 DEF LoopType, Park, InlineDisconnect, OtherWork, FatalError, Received
<1>. QED BY <1>1, <1>2, <1>3, <1>4, <1>5, <1>6, <1>7 DEF QueueNext, LoopStep

\* The inductive step.
LEMMA QueueInvStep ==
    ASSUME QueueInv, [QueueNext]_vars PROVE QueueInv'
<1>. USE QueueConstants
<1>. DEFINE Parts == /\ QueueVarsType' /\ TierInv' /\ TotalInv' /\ StreakCovers'
                     /\ total_queued' \in 0 .. MAX_TOTAL_FAIR_QUEUE
                     /\ client_streak' \in Nat /\ lowerWait' \in Nat
<1>0. QueueTypeOK /\ TierInv /\ TotalInv /\ StreakCovers /\ client_streak \in Nat /\ lowerWait \in Nat
  BY DEF QueueInv, QueueTypeOK
<1>1. ASSUME NEW t \in Priority, NEW k \in QueueKey, try_push(t, k),
             UNCHANGED <<client_streak, lowerWait>>
      PROVE  Parts
  BY <1>0, <1>1, AdmissionKeeps DEF StreakCovers
<1>2. ASSUME evict_background PROVE Parts
  <2>1. TierPop("Background") /\ total_queued' = saturating_sub(total_queued)
        /\ "Background" \in Priority /\ client_streak' = client_streak
        /\ (lowerWait' = lowerWait \/ lowerWait' = 0)
    BY <1>2 DEF evict_background, Priority
  <2>2. StreakCovers' /\ client_streak' \in Nat /\ lowerWait' \in Nat
    BY <1>0, <2>1 DEF StreakCovers
  <2>3. /\ QueueVarsType' /\ TierInv' /\ TotalInv'
        /\ total_queued' \in 0 .. MAX_TOTAL_FAIR_QUEUE
    BY <1>0, <2>1, RemovalKeeps
  <2>. QED BY <2>2, <2>3
<1>3. ASSUME NEW t \in Priority, Serve(t) PROVE Parts
  <2>1. TierPop(t) /\ total_queued' = saturating_sub(total_queued)
    BY <1>3 DEF Serve
  <2>. QED BY <1>0, <1>3, <2>1, RemovalKeeps, StreakKept
<1>4. ASSUME UNCHANGED <<queueVars, client_streak, lowerWait>> PROVE Parts
  BY <1>4, QuietKeeps
<1>5. CASE QueueNext
  <2>. HIDE DEF Parts
  <2>1. ASSUME NEW t \in Priority, NEW k \in QueueKey, NEW at \in {"drain", "select"},
               Admit(t, k, at) \/ Refuse(t, k, at) \/ StartEviction(t, k, at)
        PROVE  Parts
    BY <1>1, <1>4, <2>1 DEF Admit, Refuse, StartEviction
  <2>2. ASSUME RetryAdmits PROVE Parts
    <3>1. pending \in {"NetworkRelay", "ClientLocal"} \X QueueKey
      BY <1>0, <2>2 DEF QueueTypeOK, RetryAdmits, RetryDone
    <3>2. pending[1] \in Priority /\ pending[2] \in QueueKey
      BY <3>1 DEF Priority
    <3>3. try_push(pending[1], pending[2]) /\ UNCHANGED <<client_streak, lowerWait>>
      BY <2>2 DEF RetryAdmits, RetryDone
    <3>. QED BY <1>1, <3>2, <3>3
  <2>3. ASSUME RetryRefused \/ EvictionEnds \/ Park \/ InlineDisconnect \/ OtherWork \/ FatalError
        PROVE  Parts
    <3>1. UNCHANGED <<queueVars, client_streak, lowerWait>>
      BY <2>3 DEF RetryRefused, RetryDone, EvictionEnds, Park, InlineDisconnect, OtherWork,
                  FatalError
    <3>. QED BY <1>4, <3>1
  <2>4. Parts
    BY <1>2, <1>3, <1>5, <2>1, <2>2, <2>3 DEF QueueNext, LoopStep
  <2>5. LoopType'
    BY <1>0, <1>5, LoopTypeKept
  <2>6. QueueTypeOK'
    BY <2>4, <2>5 DEF Parts, QueueTypeOK, QueueVarsType, LoopType
  <2>. QED BY <2>4, <2>6 DEF Parts, QueueInv
<1>6. CASE UNCHANGED vars
  <2>1. Parts
    BY <1>4, <1>6 DEF vars
  <2>2. LoopType'
    BY <1>0, <1>6 DEF QueueTypeOK, LoopType, vars, loopVars
  <2>3. QueueTypeOK'
    BY <2>1, <2>2 DEF QueueTypeOK, QueueVarsType, LoopType
  <2>. QED BY <2>1, <2>3 DEF QueueInv
<1>. QED BY <1>5, <1>6

\* The empty queue satisfies the invariant.
LEMMA QueueInvInit ==
    QueueInit => QueueInv
<1>. SUFFICES ASSUME QueueInit PROVE QueueInv
  OBVIOUS
<1>. USE QueueConstants
<1>1. QueueTypeOK
  BY DEF QueueInit, QueueTypeOK, NoEvent
<1>2. TurnsAreExact /\ TurnOrder
  BY DEF QueueInit, TurnsAreExact, TurnOrder
<1>3. ASSUME NEW t \in Priority PROVE queued[t] = Cardinality(Slots(t))
  <2>1. Slots(t) = {}
    BY DEF Slots, QueueInit
  <2>. QED BY <2>1, FS_EmptySet DEF QueueInit
<1>4. TotalInv
  <2>1. queued["Background"] = 0 /\ queued["NetworkRelay"] = 0 /\ queued["ClientLocal"] = 0
        /\ total_queued = 0
    BY DEF QueueInit, Priority
  <2>. QED BY <2>1 DEF TotalInv, LowerFits, soft_cap
<1>5. StreakCovers
  BY DEF StreakCovers, QueueInit
<1>. QED BY <1>1, <1>2, <1>3, <1>4, <1>5 DEF QueueInv, TierInv

\* What the invariant says of admission, fairness and starvation.
LEMMA QueueInvMeans ==
    ASSUME QueueInv
    PROVE  /\ QueueTypeOK /\ TurnsAreExact /\ CountsAreExact /\ ReserveIsKept
           /\ StarvationIsBounded /\ NoKeyOvertakesTwice
<1>. USE QueueConstants
<1>1. QueueTypeOK /\ TurnsAreExact /\ CountsAreExact
  BY DEF QueueInv, TierInv, TotalInv, CountsAreExact
<1>2. ReserveIsKept
  <2>1. queued["Background"] \in Nat /\ queued["NetworkRelay"] \in Nat /\ queued["ClientLocal"] \in Nat
    BY <1>1 DEF QueueTypeOK, Priority
  <2>. QED BY <2>1 DEF QueueInv, TotalInv, LowerFits, ReserveIsKept, soft_cap
<1>3. StarvationIsBounded
  BY <1>1 DEF QueueInv, StreakCovers, StarvationIsBounded, QueueTypeOK
<1>4. NoKeyOvertakesTwice
  <2>1. ASSUME NEW t \in Priority, NEW k \in QueueKey, NEW j \in QueueKey PROVE turns[t][k][j] <= 1
    <3>1. turns[t][k][j] = 0 \/ turns[t][k][j] = 1
      BY DEF QueueInv, TierInv, TurnOrder
    <3>. QED BY <3>1
  <2>. QED BY <2>1 DEF NoKeyOvertakesTwice
<1>. QED BY <1>1, <1>2, <1>3, <1>4

\* For every set of contracts and every capacity, whatever arrives and in
\* whatever order: the counts and the rotation match the queues, the client
\* reserve is never taken by lower work, lower work is passed over at most
\* RELAY_STARVATION_FLOOR times, and no contract overtakes another twice.
THEOREM QueueSafety ==
    QueueSpec => [](/\ QueueTypeOK /\ TurnsAreExact /\ CountsAreExact /\ ReserveIsKept
                    /\ StarvationIsBounded /\ NoKeyOvertakesTwice)
<1>1. QueueInit => QueueInv
  BY QueueInvInit
<1>2. QueueInv /\ [QueueNext]_vars => QueueInv'
  BY QueueInvStep
<1>3. QueueInv => /\ QueueTypeOK /\ TurnsAreExact /\ CountsAreExact /\ ReserveIsKept
                  /\ StarvationIsBounded /\ NoKeyOvertakesTwice
  BY QueueInvMeans
<1>. QED BY <1>1, <1>2, <1>3, PTL DEF QueueSpec

\* The parts of QueueSafety, one by one.

\* Every field keeps its type: in particular total_queued never passes the hard cap.
COROLLARY QueueTypeCorrect == QueueSpec => []QueueTypeOK
BY QueueSafety, PTL

\* A contract is in a tier's rotation, once, exactly when its queue there holds something.
COROLLARY TurnsCorrect == QueueSpec => []TurnsAreExact
BY QueueSafety, PTL

\* total_queued and the count of each tier are the numbers of events in the queues.
COROLLARY CountsCorrect == QueueSpec => []CountsAreExact
BY QueueSafety, PTL

\* Relay and background events never take the slots reserved for clients.
COROLLARY ReserveCorrect == QueueSpec => []ReserveIsKept
BY QueueSafety, PTL

\* Waiting work below ClientLocal is passed over at most RELAY_STARVATION_FLOOR times in a row.
COROLLARY StarvationCorrect == QueueSpec => []StarvationIsBounded
BY QueueSafety, PTL
=============================================================================
