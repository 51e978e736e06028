--------------------- MODULE SmartRewardsPaymentsProofs ---------------------
(***************************************************************************)
(* Proofs about the payments of SmartRewards: the slices of a list, the    *)
(* counters of a round, who is due, and what two nodes agree on.           *)
(***************************************************************************)
EXTENDS SmartRewardsProofs, SmartRewardsPair

-----------------------------------------------------------------------------
(* Arithmetic *)

LEMMA DivMod ==
  ASSUME NEW a \in Int, NEW d \in Nat \ {0}
  PROVE  /\ a \div d \in Int /\ a % d \in 0 .. d - 1
         /\ a = d * (a \div d) + (a % d)
  OBVIOUS

\* The quotient is the only one.
LEMMA DivUnique ==
  ASSUME NEW q \in Int, NEW r \in Nat, NEW d \in Nat \ {0}, r < d
  PROVE  (d * q + r) \div d = q
<1> DEFINE p == (d * q + r) \div d
           s == (d * q + r) % d
<1>1. p \in Int /\ s \in 0 .. d - 1 /\ d * q + r = d * p + s
  BY DivMod
<1> HIDE DEF p, s
<1>2. d * q \in Int /\ d * p \in Int
  BY <1>1
<1>3. d * (q - p) = s - r
  BY <1>1, <1>2
<1>4. CASE q - p >= 1
  BY <1>1, <1>3, <1>4
<1>5. CASE q - p <= -1
  BY <1>1, <1>3, <1>5
<1> QED
  BY <1>1, <1>4, <1>5 DEF p

\* Multiplication by a natural number is monotone.
LEMMA TimesMonotone ==
  ASSUME NEW i \in Int, NEW j \in Int, NEW d \in Nat \ {0}
  PROVE  /\ i * d \in Int /\ j * d \in Int
         /\ i <= j => i * d <= j * d
         /\ i < j => i * d < j * d
         /\ (j - 1) * d = j * d - d
  OBVIOUS

-----------------------------------------------------------------------------
(* The slices of a list *)

RoundType ==
    \A r \in Round : /\ r.number \in Nat /\ r.start \in Nat /\ r.end \in Nat
                     /\ PayeeCount(r) \in Int

LEMMA RoundFields == RoundType
  BY DEF RoundType, Round, PayeeCount

\* There are as many reward blocks as it takes, and the last one has the rest.
LEMMA RewardBlocksExact ==
  ASSUME NEW r \in Round, PayeeCount(r) > 0
  PROVE  /\ RewardBlocks(r) \in Nat \ {0}
         /\ (RewardBlocks(r) - 1) * BlockPayees \in Int
         /\ (RewardBlocks(r) - 1) * BlockPayees < PayeeCount(r)
         /\ PayeeCount(r) = (RewardBlocks(r) - 1) * BlockPayees +
                IF PayeeCount(r) % BlockPayees # 0 THEN PayeeCount(r) % BlockPayees
                                                   ELSE BlockPayees
<1> DEFINE c == PayeeCount(r)
           p == BlockPayees
           n == RewardBlocks(r)
           m == (c + p - 1) % p
           q == c \div p
           x == c % p
<1>1. c \in Int /\ c > 0 /\ p \in Nat \ {0} /\ c + p - 1 \in Int
  BY RoundFields, RewardsAssumption DEF RoundType
<1>2. n = (c + p - 1) \div p
  BY DEF RewardBlocks
<1> HIDE DEF c, p, n
<1>3. n \in Int /\ m \in 0 .. p - 1 /\ c + p - 1 = p * n + m
  BY <1>1, <1>2, DivMod
<1>4. q \in Int /\ x \in 0 .. p - 1 /\ c = p * q + x
  BY <1>1, DivMod
<1> HIDE DEF m, q, x
<1>5. n * p \in Int /\ n * p = p * n /\ (n - 1) * p = n * p - p /\ q * p = p * q
      /\ q * p \in Int /\ (q - 1) * p = q * p - p
  BY <1>1, <1>3, <1>4
<1>6. (n - 1) * p < c /\ c <= n * p
  BY <1>1, <1>3, <1>5
<1>7. n >= 1
  <2>1. ~(n <= 0)
    BY <1>1, <1>3, <1>6, TimesMonotone
  <2> QED
    BY <1>3, <2>1
<1>8. CASE x = 0
  <2>1. q = n
    <3>1. ~(q < n) /\ ~(n < q)
      <4>1. (n - 1) * p < q * p /\ q * p <= n * p
        BY <1>4, <1>5, <1>6, <1>8
      <4>2. ~(n < q)
        BY <1>1, <1>3, <1>4, <4>1, TimesMonotone
      <4>3. ~(q <= n - 1)
        <5>1. n - 1 \in Int
          BY <1>3
        <5>2. q <= n - 1 => q * p <= (n - 1) * p
          BY <5>1, <1>1, <1>4, TimesMonotone
        <5> QED
          BY <4>1, <5>2, <1>1, <1>5
      <4> QED
        BY <4>2, <4>3, <1>3, <1>4
    <3> QED
      BY <3>1, <1>3, <1>4
  <2>2. c = (n - 1) * p + p
    BY <1>1, <1>4, <1>5, <1>8, <2>1
  <2> QED
    BY <1>1, <1>3, <1>5, <1>6, <1>7, <1>8, <2>2 DEF c, p, n, x
<1>9. CASE x # 0
  <2>1. q = n - 1
    <3>1. q * p < c /\ c < q * p + p
      BY <1>1, <1>4, <1>5, <1>9
    <3>2. q * p < n * p /\ (n - 1) * p < (q + 1) * p /\ (q + 1) * p = q * p + p
      BY <3>1, <1>1, <1>3, <1>4, <1>5, <1>6
    <3>3. q < n
      BY <3>2, <1>1, <1>3, <1>4, TimesMonotone
    <3>4. n - 1 < q + 1
      <4>1. q + 1 \in Int /\ n - 1 \in Int
        BY <1>3, <1>4
      <4>2. q + 1 <= n - 1 => (q + 1) * p <= (n - 1) * p
        BY <4>1, <1>1, TimesMonotone
      <4> QED
        BY <3>2, <4>1, <4>2, <1>1, <1>4, <1>5
    <3> QED
      BY <3>3, <3>4, <1>3, <1>4
  <2>2. c = (n - 1) * p + x
    BY <1>4, <1>5, <2>1
  <2> QED
    BY <1>1, <1>3, <1>5, <1>6, <1>7, <1>9, <2>2 DEF c, p, n, x
<1> QED
  BY <1>8, <1>9

\* The k-th reward block is k - 1 intervals after the first one.
LEMMA RewardBlockAt ==
  ASSUME NEW r \in Round, NEW h \in Int, IsRewardBlock(r, h)
  PROVE  /\ PayeeCount(r) > 0
         /\ h > r.end
         /\ RewardBlock(r, h) \in 1 .. RewardBlocks(r)
         /\ h = r.end + StartDelay + (RewardBlock(r, h) - 1) * BlockInterval
<1> DEFINE n == RewardBlocks(r)
           d == BlockInterval
           f == r.end + StartDelay
           l == LastRoundBlock(r)
           q == (l - h) \div d
           k == RewardBlock(r, h)
<1>1. /\ PayeeCount(r) > 0 /\ n \in Nat \ {0} /\ d \in Nat \ {0} /\ f \in Nat /\ f > r.end
      /\ r.end \in Nat
  BY RewardBlocksExact, RoundFields, RewardsAssumption DEF IsRewardBlock, RoundType
<1>2. l = f + (n - 1) * d /\ h \in f .. l /\ (l - h) % d = 0 /\ k = n - q
  BY <1>1 DEF LastRoundBlock, IsRewardBlock, RewardBlock
<1> HIDE DEF n, d, f, l, k
<1>3. (n - 1) * d \in Int /\ l - h \in Int /\ l \in Int
  BY <1>1, <1>2
<1>4. q \in Int /\ l - h = d * q + ((l - h) % d)
  BY <1>1, <1>3, DivMod
<1> HIDE DEF q
<1>5. d * q \in Int /\ d * q = q * d /\ l - h = q * d
  BY <1>1, <1>2, <1>3, <1>4
<1>6. 0 <= q * d /\ q * d <= (n - 1) * d
  BY <1>1, <1>2, <1>3, <1>5
<1>7. q >= 0
  BY <1>1, <1>4, <1>6
<1>8. q <= n - 1
  <2>1. n - 1 \in Int
    BY <1>1
  <2>2. n - 1 < q => (n - 1) * d < q * d
    BY <2>1, <1>1, <1>4, TimesMonotone
  <2> QED
    BY <1>4, <1>6, <2>1, <2>2, <1>3, <1>5
<1>9. k \in 1 .. n
  BY <1>1, <1>2, <1>4, <1>7, <1>8
<1>10. (n - 1) * d - q * d = (n - 1 - q) * d
  BY <1>1, <1>4
<1>11. h = f + (k - 1) * d
  BY <1>1, <1>2, <1>3, <1>4, <1>5, <1>10
<1>12. h > r.end
  BY <1>1, <1>2
<1> QED
  BY <1>1, <1>9, <1>11, <1>12 DEF n, d, f, k

\* A slice ends with the list, and where the next one begins.
LEMMA SliceBounds ==
  ASSUME NEW r \in Round, NEW h \in Int, IsRewardBlock(r, h)
  PROVE  /\ StartIndex(r, h) \in Int /\ EndIndex(r, h) \in Int
         /\ StartIndex(r, h) = (RewardBlock(r, h) - 1) * BlockPayees
         /\ EndIndex(r, h) <= RewardBlock(r, h) * BlockPayees
         /\ EndIndex(r, h) <= PayeeCount(r)
         /\ \A i \in Int : i <= RewardBlock(r, h) * BlockPayees /\ i <= PayeeCount(r)
                => i <= EndIndex(r, h)
<1> DEFINE c == PayeeCount(r)
           p == BlockPayees
           n == RewardBlocks(r)
           k == RewardBlock(r, h)
           x == c % p
<1>1. c \in Int /\ c > 0 /\ p \in Nat \ {0} /\ n \in Nat \ {0} /\ k \in 1 .. n
  BY RewardBlockAt, RewardBlocksExact, RoundFields, RewardsAssumption DEF RoundType
<1>2. /\ (n - 1) * p \in Int /\ (n - 1) * p < c
      /\ c = (n - 1) * p + IF x # 0 THEN x ELSE p
  BY <1>1, RewardBlocksExact
<1>3. /\ StartIndex(r, h) = (k - 1) * p
      /\ EndIndex(r, h) = (k - 1) * p + IF k = n /\ x # 0 THEN x ELSE p
  BY DEF StartIndex, EndIndex
<1>4. x \in 0 .. p - 1
  BY <1>1, DivMod
<1> HIDE DEF c, p, n, k, x
<1>5. (k - 1) * p \in Int /\ k * p \in Int /\ k * p = (k - 1) * p + p
  BY <1>1
<1>6. CASE k = n
  BY <1>1, <1>2, <1>3, <1>4, <1>5, <1>6 DEF c, p, k
<1>7. CASE k # n
  <2>1. k <= n - 1 /\ k \in Int /\ n - 1 \in Int
    BY <1>1, <1>7
  <2>2. k * p <= (n - 1) * p
    BY <2>1, <1>1, TimesMonotone
  <2>3. EndIndex(r, h) = k * p
    BY <1>3, <1>5, <1>7
  <2> QED
    BY <1>1, <1>2, <1>3, <1>5, <2>2, <2>3 DEF c, p, k
<1> QED
  BY <1>6, <1>7

\* Reward blocks at different heights pay different places of the list.
LEMMA SlicesApart ==
  ASSUME NEW r \in Round, NEW g \in Int, NEW h \in Int, g < h,
         IsRewardBlock(r, g), IsRewardBlock(r, h)
  PROVE  EndIndex(r, g) <= StartIndex(r, h)
<1> DEFINE p == BlockPayees
           d == BlockInterval
           j == RewardBlock(r, g)
           k == RewardBlock(r, h)
           f == r.end + StartDelay
<1>1. /\ j \in Int /\ k \in Int /\ g = f + (j - 1) * d /\ h = f + (k - 1) * d
      /\ p \in Nat \ {0} /\ d \in Nat \ {0} /\ f \in Int
  <2>1. RewardBlocks(r) \in Nat
    BY RewardBlockAt, RewardBlocksExact
  <2> QED
    BY <2>1, RewardBlockAt, RewardsAssumption, RoundFields DEF RoundType
<1>2. EndIndex(r, g) <= j * p /\ StartIndex(r, h) = (k - 1) * p /\ EndIndex(r, g) \in Int
  BY SliceBounds
<1> HIDE DEF p, d, j, k, f
<1>3. j < k
  <2>1. j - 1 \in Int /\ k - 1 \in Int /\ (j - 1) * d \in Int /\ (k - 1) * d \in Int
    BY <1>1
  <2>2. (j - 1) * d < (k - 1) * d
    BY <1>1, <2>1
  <2>3. k - 1 <= j - 1 => (k - 1) * d <= (j - 1) * d
    BY <1>1, <2>1, TimesMonotone
  <2> QED
    BY <1>1, <2>1, <2>2, <2>3
<1>4. j * p <= (k - 1) * p /\ j * p \in Int /\ (k - 1) * p \in Int
  BY <1>1, <1>3, TimesMonotone
<1> QED
  BY <1>2, <1>4

\* Every place of the list is in the slice of some reward block.
LEMMA SlicesCover ==
  ASSUME NEW r \in Round, NEW i \in 1 .. PayeeCount(r)
  PROVE  \E h \in r.end + 1 .. LastRoundBlock(r) :
             IsRewardBlock(r, h) /\ i \in StartIndex(r, h) + 1 .. EndIndex(r, h)
<1> DEFINE c == PayeeCount(r)
           p == BlockPayees
           d == BlockInterval
           n == RewardBlocks(r)
           f == r.end + StartDelay
           l == LastRoundBlock(r)
           q == (i - 1) \div p
           m == (i - 1) % p
           h == f + q * d
<1>1. /\ c \in Int /\ c > 0 /\ i \in Int /\ 1 <= i /\ i <= c /\ p \in Nat \ {0} /\ d \in Nat \ {0}
      /\ r.end \in Nat /\ f \in Nat /\ f >= r.end + 1
  BY RoundFields, RewardsAssumption DEF RoundType
<1>2. n \in Nat \ {0} /\ (n - 1) * p \in Int /\ c <= (n - 1) * p + p
  <2>1. c % p \in 0 .. p - 1
    BY <1>1, DivMod
  <2> QED
    BY <1>1, <2>1, RewardBlocksExact
<1>3. l = f + (n - 1) * d
  BY <1>1 DEF LastRoundBlock
<1> HIDE DEF c, p, d, n, f, l, q, m
<1>4. q \in Int /\ m \in 0 .. p - 1 /\ i - 1 = p * q + m
  <2>1. i - 1 \in Int
    BY <1>1
  <2> QED
    BY <1>1, <2>1, DivMod DEF q, m
<1>5. q * p \in Int /\ q * p = p * q /\ (q + 1) * p = q * p + p
  BY <1>1, <1>4
<1>6. q >= 0
  <2>1. q <= -1 => q * p <= (-1) * p
    BY <1>1, <1>4, TimesMonotone
  <2> QED
    BY <1>1, <1>4, <1>5, <2>1
<1>7. q <= n - 1
  <2>1. q * p < (n - 1) * p + p /\ (n - 1) * p + p = n * p /\ n * p \in Int
    BY <1>1, <1>2, <1>4, <1>5
  <2>2. n <= q => n * p <= q * p
    BY <1>1, <1>2, <1>4, TimesMonotone
  <2> QED
    BY <1>2, <1>4, <1>5, <2>1, <2>2
<1>8. q * d \in Int /\ (n - 1) * d \in Int /\ 0 <= q * d /\ q * d <= (n - 1) * d
  <2>1. n - 1 \in Int /\ 0 * d = 0
    BY <1>1, <1>2
  <2> QED
    BY <2>1, <1>1, <1>4, <1>6, <1>7, TimesMonotone
<1>9. h \in f .. l /\ h \in r.end + 1 .. l /\ h \in Int
  BY <1>1, <1>3, <1>8
<1>10. l - h = d * (n - 1 - q) + 0
  BY <1>1, <1>2, <1>3, <1>4, <1>8
<1> HIDE DEF h
<1>11. (l - h) \div d = n - 1 - q
  <2>1. n - 1 - q \in Int
    BY <1>2, <1>4
  <2> QED
    BY <1>1, <1>10, <2>1, DivUnique
<1>12. (l - h) % d = 0
  <2> DEFINE v == l - h
  <2>1. v \in Int /\ v = d * (n - 1 - q) /\ v \div d = n - 1 - q
    BY <1>1, <1>3, <1>8, <1>9, <1>10, <1>11
  <2> HIDE DEF v
  <2>2. v % d \in 0 .. d - 1 /\ v = d * (v \div d) + (v % d)
    BY <1>1, <2>1, DivMod
  <2>3. v % d = 0
    BY <1>1, <1>2, <1>4, <2>1, <2>2
  <2> QED
    BY <2>3 DEF v
<1>13. IsRewardBlock(r, h)
  BY <1>1, <1>9, <1>12 DEF IsRewardBlock, c, d, l, f
<1>14. RewardBlock(r, h) = q + 1
  <2>1. RewardBlock(r, h) = n - (n - 1 - q)
    BY <1>11 DEF RewardBlock, n, d, l
  <2> QED
    BY <1>2, <1>4, <2>1
<1>15. StartIndex(r, h) = q * p /\ i <= EndIndex(r, h) /\ EndIndex(r, h) \in Int
  <2>1. /\ StartIndex(r, h) = (q + 1 - 1) * p /\ EndIndex(r, h) \in Int
        /\ (i <= (q + 1) * p /\ i <= c) => i <= EndIndex(r, h)
    <3>1. /\ StartIndex(r, h) = (RewardBlock(r, h) - 1) * p /\ EndIndex(r, h) \in Int
          /\ \A j \in Int : j <= RewardBlock(r, h) * p /\ j <= c => j <= EndIndex(r, h)
      BY <1>9, <1>13, SliceBounds DEF p, c
    <3>2. i \in Int
      BY <1>1
    <3>3. i <= RewardBlock(r, h) * p /\ i <= c => i <= EndIndex(r, h)
      BY <3>1, <3>2
    <3> QED
      BY <1>1, <1>4, <1>14, <3>1, <3>3
  <2>2. q + 1 - 1 = q
    BY <1>4
  <2> QED
    BY <1>1, <1>4, <1>5, <2>1, <2>2
<1>16. i \in StartIndex(r, h) + 1 .. EndIndex(r, h)
  BY <1>1, <1>4, <1>5, <1>15
<1> QED
  BY <1>9, <1>13, <1>16 DEF l

\* Who is due at height h for the round r with the list S.
Slice(r, S, h) ==
    IF IsRewardBlock(r, h)
    THEN {a \in S : Place(S, a) \in StartIndex(r, h) + 1 .. EndIndex(r, h)}
    ELSE {}

LEMMA PaymentsAreSlices ==
  ASSUME NEW res, NEW h
  PROVE  GetPayments(res, h) = IF res = NoResult THEN {} ELSE Slice(res.round, res.payouts, h)
  BY DEF GetPayments, Slice

\* Nobody is in two slices of a list.
LEMMA SlicesDisjoint ==
  ASSUME NEW r \in Round, NEW S, NEW g \in Int, NEW h \in Int,
         NEW a \in Slice(r, S, g), a \in Slice(r, S, h)
  PROVE  g = h
<1>1. /\ IsRewardBlock(r, g) /\ IsRewardBlock(r, h)
      /\ Place(S, a) \in StartIndex(r, g) + 1 .. EndIndex(r, g)
      /\ Place(S, a) \in StartIndex(r, h) + 1 .. EndIndex(r, h)
  BY DEF Slice
<1>2. /\ StartIndex(r, g) \in Int /\ EndIndex(r, g) \in Int
      /\ StartIndex(r, h) \in Int /\ EndIndex(r, h) \in Int
  BY <1>1, SliceBounds
<1>3. g < h => EndIndex(r, g) <= StartIndex(r, h)
  BY <1>1, SlicesApart
<1>4. h < g => EndIndex(r, h) <= StartIndex(r, g)
  BY <1>1, SlicesApart
<1> QED
  BY <1>1, <1>2, <1>3, <1>4

\* Who is in a slice is on the list, and the block is after the round.
LEMMA SliceAfterEnd ==
  ASSUME NEW r \in Round, NEW S, NEW h \in Int, NEW a \in Slice(r, S, h)
  PROVE  a \in S /\ h > r.end /\ h <= LastRoundBlock(r)
<1>1. IsRewardBlock(r, h) /\ a \in S
  BY DEF Slice
<1>2. h > r.end
  BY <1>1, RewardBlockAt
<1> QED
  BY <1>1, <1>2 DEF IsRewardBlock

LEMMA PlaceBounds ==
  ASSUME NEW S \in SUBSET Addr, NEW a \in S
  PROVE  Place(S, a) \in 1 .. Cardinality(S)
<1> DEFINE T == {b \in S : b <= a}
<1>1. IsFiniteSet(S)
  BY RewardsAssumption, FS_Subset
<1>2. IsFiniteSet(T) /\ Cardinality(T) <= Cardinality(S) /\ Cardinality(S) \in Nat
  BY <1>1, FS_Subset, FS_CardinalityType
<1>3. a \in T
  BY RewardsAssumption
<1>4. Cardinality(T) \in Nat /\ Cardinality(T) # 0
  BY <1>2, <1>3, FS_CardinalityType, FS_EmptySet
<1> QED
  BY <1>2, <1>4 DEF Place

\* Everyone on a list that is as long as the counters say is in a slice.
LEMMA SlicesExhaustive ==
  ASSUME NEW r \in Round, NEW S \in SUBSET Addr, PayeeCount(r) = Cardinality(S), NEW a \in S
  PROVE  \E h \in r.end + 1 .. LastRoundBlock(r) : a \in Slice(r, S, h)
<1>1. Place(S, a) \in 1 .. PayeeCount(r)
  BY PlaceBounds
<1>2. PICK h \in r.end + 1 .. LastRoundBlock(r) :
          IsRewardBlock(r, h) /\ Place(S, a) \in StartIndex(r, h) + 1 .. EndIndex(r, h)
  BY <1>1, SlicesCover
<1> QED
  BY <1>2 DEF Slice

-----------------------------------------------------------------------------
(* Rounds and records *)

\* Each round begins where the one before ended; r is the current one.
Linked(rs, r) ==
    /\ r.start <= r.end
    /\ \A n \in DOMAIN rs :
           LET next == IF n = Len(rs) THEN r ELSE rs[n + 1]
           IN  /\ rs[n].start <= rs[n].end
               /\ next.start = rs[n].end + 1
               /\ next.end = rs[n].end + BlocksPerRound

\* The result is that of the last finished round, or of one that was undone.
ResultOK ==
    result # NoResult =>
        /\ result.payouts = Payouts(result.results)
        /\ result.round.number >= Len(rounds)
        /\ result.round.number >= 1
        /\ result.round.number = Len(rounds) =>
               /\ result.round = rounds[Len(rounds)]
               /\ ~Pending(result) => result.results = db.results[Len(rounds)]

\* The database differs from the cache by the round that waits to be written.
RecordsOK ==
    /\ ~NeedsSync => rounds = db.rounds
    /\ Pending(result) =>
           /\ ~Pending(undoResult)
           /\ rounds = Append(db.rounds, result.round)
    /\ Pending(undoResult) => undoResult.round.number = round.number
    /\ ResultOK
    /\ Linked(rounds, round)
    /\ Linked(db.rounds, db.round)

\* What only the end of a round, a recovered round, a write and a start change.
recordVars == <<round, rounds, result, undoResult, db>>

LEMMA Untouched ==
  ASSUME [Next]_vars
  PROVE  \/ UNCHANGED recordVars
         \/ CommitBlock
         \/ CommitUndoBlock
         \/ \E full \in BOOLEAN : SyncCached(full)
         \/ Restart
<1>1. ASSUME NEW b \in Blocks, ConnectTip(b) PROVE UNCHANGED recordVars
  BY <1>1 DEF ConnectTip, recordVars, cacheVars, diskVars
<1>2. ProcessInput \/ ProcessOutput \/ UndoInput \/ UndoOutput => UNCHANGED recordVars
  BY DEF ProcessInput, ProcessOutput, UndoInput, UndoOutput, recordVars, diskVars
<1>3. RejectBlock \/ DisconnectTip \/ CommitUndoBlockRefused => UNCHANGED recordVars
  BY DEF RejectBlock, DisconnectTip, CommitUndoBlockRefused, recordVars, cacheVars, diskVars
<1>4. CommitBlockRefused \/ FlushCoins => UNCHANGED recordVars
  BY DEF CommitBlockRefused, BlockConnected, FlushCoins, recordVars, cacheVars, diskVars
<1>5. UNCHANGED vars => UNCHANGED recordVars
  BY DEF vars, recordVars, cacheVars, diskVars
<1> QED
  BY <1>1, <1>2, <1>3, <1>4, <1>5 DEF Next

\* Rounds stay linked when one is added or the last one is taken back.
LEMMA LinkedAppend ==
  ASSUME NEW rs \in Seq(Round), NEW r \in Round, NEW s \in Round, Linked(rs, r),
         s.start = r.end + 1, s.end = r.end + BlocksPerRound
  PROVE  Linked(Append(rs, r), s)
<1> DEFINE q == Append(rs, r)
<1>1. Len(q) = Len(rs) + 1 /\ DOMAIN q = 1 .. Len(rs) + 1 /\ Len(rs) \in Nat
      /\ DOMAIN rs = 1 .. Len(rs)
  OBVIOUS
<1>2. q[Len(rs) + 1] = r /\ \A n \in 1 .. Len(rs) : q[n] = rs[n]
  OBVIOUS
<1> HIDE DEF q
<1>3. r.end \in Nat /\ r.start \in Nat /\ BlocksPerRound \in Nat \ {0}
  BY RoundFields, RewardsAssumption DEF RoundType
<1>4. s.start <= s.end
  BY <1>3
<1>5. ASSUME NEW n \in DOMAIN q
      PROVE  LET next == IF n = Len(q) THEN s ELSE q[n + 1]
             IN  /\ q[n].start <= q[n].end
                 /\ next.start = q[n].end + 1
                 /\ next.end = q[n].end + BlocksPerRound
  <2>1. CASE n = Len(q)
    BY <1>1, <1>2, <2>1 DEF Linked
  <2>2. CASE n # Len(q)
    <3>1. n \in DOMAIN rs /\ q[n] = rs[n] /\ n + 1 \in 1 .. Len(rs) + 1
      BY <1>1, <1>2, <2>2
    <3>2. q[n + 1] = IF n = Len(rs) THEN r ELSE rs[n + 1]
      BY <1>1, <1>2, <3>1
    <3> QED
      BY <2>2, <3>1, <3>2 DEF Linked
  <2> QED
    BY <2>1, <2>2
<1> QED
  BY <1>4, <1>5 DEF Linked, q

LEMMA LinkedShorter ==
  ASSUME NEW rs \in Seq(Round), rs # <<>>, NEW r, Linked(rs, r)
  PROVE  Linked(SubSeq(rs, 1, Len(rs) - 1), rs[Len(rs)])
<1> DEFINE q == SubSeq(rs, 1, Len(rs) - 1)
<1>0. Len(rs) \in Nat /\ Len(rs) # 0
  OBVIOUS
<1>1. /\ Len(rs) \in Nat \ {0} /\ Len(q) = Len(rs) - 1 /\ DOMAIN q = 1 .. Len(rs) - 1
      /\ DOMAIN rs = 1 .. Len(rs) /\ \A n \in 1 .. Len(rs) - 1 : q[n] = rs[n]
  <2>1. Len(rs) \in Nat \ {0} /\ DOMAIN rs = 1 .. Len(rs) /\ 1 + (Len(rs) - 1) - 1 = Len(rs) - 1
    BY <1>0
  <2>2. q \in Seq(Round) /\ Len(q) = Len(rs) - 1
    BY <2>1
  <2>3. \A n \in 1 .. Len(rs) - 1 : q[n] = rs[n]
    BY <2>1
  <2> QED
    BY <2>1, <2>2, <2>3
<1> HIDE DEF q
<1>2. ASSUME NEW n \in DOMAIN q
      PROVE  LET next == IF n = Len(q) THEN rs[Len(rs)] ELSE q[n + 1]
             IN  /\ q[n].start <= q[n].end
                 /\ next.start = q[n].end + 1
                 /\ next.end = q[n].end + BlocksPerRound
  <2>1. n \in DOMAIN rs /\ n # Len(rs) /\ q[n] = rs[n]
    BY <1>1
  <2>2. (IF n = Len(q) THEN rs[Len(rs)] ELSE q[n + 1]) = rs[n + 1]
    BY <1>1, <2>1
  <2> QED
    BY <2>1, <2>2 DEF Linked
<1>3. rs[Len(rs)].start <= rs[Len(rs)].end
  BY <1>1 DEF Linked
<1> QED
  BY <1>2, <1>3 DEF Linked, q

\* The counters of the current round do not matter.
LEMMA LinkedSame ==
  ASSUME NEW rs, NEW r, NEW s, Linked(rs, r), s.start = r.start, s.end = r.end
  PROVE  Linked(rs, s)
<1>1. ASSUME NEW n \in DOMAIN rs
      PROVE  LET next == IF n = Len(rs) THEN s ELSE rs[n + 1]
             IN  /\ rs[n].start <= rs[n].end
                 /\ next.start = rs[n].end + 1
                 /\ next.end = rs[n].end + BlocksPerRound
  BY DEF Linked
<1> QED
  BY <1>1 DEF Linked

LEMMA RecordsInit == Init => RecordsOK
<1> SUFFICES ASSUME Init PROVE RecordsOK
  OBVIOUS
<1>1. /\ rounds = <<>> /\ db.rounds = <<>> /\ result = NoResult /\ undoResult = NoResult
      /\ round.start = 1 /\ round.end = FirstEnd /\ db.round = round
  BY DEF Init
<1>2. Linked(<<>>, round)
  BY <1>1, RewardsAssumption DEF Linked
<1> QED
  BY <1>1, <1>2 DEF RecordsOK, ResultOK, NeedsSync, Pending

\* A block that does not end the round.
LEMMA MidRoundEffect ==
  ASSUME Shape, CommitBlock, NextHeight # round.end
  PROVE  /\ result' = NoResult \/ result' = result
         /\ ~NeedsSync /\ ~NeedsSync'
         /\ round' \in Round /\ round'.number = round.number /\ round'.start = round.start
         /\ round'.end = round.end
         /\ UNCHANGED <<rounds, db, cache>>
<1>1. TypeOK /\ BlockConnected /\ job.kind = "connect" /\ ~NeedsSync
  BY DEF Shape, CommitBlock, BlockConnected, JobOK
<1>2. /\ result' = IF Outdated(result) THEN NoResult ELSE result
      /\ undoResult' = IF Outdated(result) THEN NoResult ELSE undoResult
      /\ round' = UpdatedRound /\ UNCHANGED <<rounds, cache>>
  BY DEF CommitBlock
<1>3. ~NeedsSync'
  BY <1>1, <1>2 DEF NeedsSync, Pending
<1> QED
  BY <1>1, <1>2, <1>3, UpdatedRoundType, BlockConnectedType

\* The block that ends the round.
LEMMA RoundEndEffect ==
  ASSUME Shape, CommitBlock, NextHeight = round.end
  PROVE  /\ result' # NoResult /\ result' \in Result /\ ~result'.synced
         /\ result'.round = UpdatedRound /\ result'.results = AllEntries
         /\ result'.payouts = Payouts(AllEntries)
         /\ Pending(result') /\ NeedsSync' /\ ~Pending(undoResult')
         /\ ~NeedsSync
         /\ UpdatedRound \in Round /\ UpdatedRound.number = round.number
         /\ UpdatedRound.start = round.start /\ UpdatedRound.end = round.end
         /\ rounds' = Append(rounds, UpdatedRound)
         /\ round' = NextRound(UpdatedRound) /\ round' \in Round
         /\ round'.number = round.number + 1
         /\ round'.start = round.end + 1 /\ round'.end = round.end + BlocksPerRound
         /\ UNCHANGED db
<1>1. TypeOK /\ BlockConnected /\ job.kind = "connect" /\ ~NeedsSync
  BY DEF Shape, CommitBlock, BlockConnected, JobOK
<1>2. EvaluateRound(UpdatedRound)
  BY DEF CommitBlock
<1>3. result' \in Result /\ ~result'.synced /\ result' # NoResult
  BY <1>1, <1>2, EvaluateRoundType, SentinelAssumption
<1>4. undoResult' = NoResult \/ undoResult' = undoResult
  BY DEF CommitBlock
<1>5. ~Pending(undoResult')
  BY <1>1, <1>4 DEF NeedsSync, Pending
<1>6. Pending(result') /\ NeedsSync'
  BY <1>3 DEF NeedsSync, Pending
<1>7. /\ UpdatedRound \in Round /\ UpdatedRound.number = round.number
      /\ UpdatedRound.start = round.start /\ UpdatedRound.end = round.end
  BY <1>1, UpdatedRoundType
<1>8. /\ round' = NextRound(UpdatedRound) /\ round' \in Round
      /\ round'.number = round.number + 1
      /\ round'.start = round.end + 1 /\ round'.end = round.end + BlocksPerRound
  BY <1>1, <1>2, <1>7, EvaluateRoundType, NextRoundType
<1> QED
  BY <1>1, <1>2, <1>3, <1>5, <1>6, <1>7, <1>8, EvaluateRoundType, BlockConnectedType

\* What is disconnected is inside the round, or the round before comes back.
LEMMA UndoEffect ==
  ASSUME Shape, CommitUndoBlock
  PROVE  /\ ~NeedsSync /\ UNCHANGED <<result, db>>
         /\ \/ UNCHANGED <<round, rounds, undoResult>>
            \/ /\ Len(chain) = round.start
               /\ rounds \in Seq(Round) /\ rounds # <<>> /\ Len(rounds) = round.number - 1
               /\ round' = rounds[Len(rounds)] /\ round' \in Round
               /\ round'.number = Len(rounds)
               /\ rounds' = SubSeq(rounds, 1, Len(rounds) - 1)
               /\ Pending(undoResult') /\ undoResult'.round = round'
<1>1. ~NeedsSync /\ UNCHANGED <<result, db>>
  BY DEF Shape, JobOK, CommitUndoBlock, diskVars
<1>2. CASE round.number > 1 /\ Len(chain) = round.start /\ RecoverRound
  <2>1. rounds \in Seq(Round) /\ round.number \in Nat /\ Len(rounds) = round.number - 1
    BY DEF Shape, TypeOK, RoundsOK, Round
  <2>2. Len(rounds) \in Nat \ {0} /\ rounds # <<>>
    BY <1>2, <2>1
  <2> DEFINE prev == rounds[round.number - 1]
  <2>3. prev = rounds[Len(rounds)] /\ prev \in Round /\ prev.number = Len(rounds)
    BY <2>1, <2>2 DEF Shape, RoundsOK
  <2>4. /\ round' = prev /\ rounds' = SubSeq(rounds, 1, prev.number - 1)
        /\ undoResult' = [round |-> prev, results |-> db.results[prev.number],
                          payouts |-> {}, synced |-> FALSE]
    BY <1>2 DEF RecoverRound
  <2>5. undoResult'.round = prev /\ ~undoResult'.synced
    BY <2>4
  <2>6. undoResult' \in Result
    <3>1. db.results \in Seq(Entries) /\ prev.number \in 1 .. Len(db.results)
      BY <1>1, <2>1, <2>2, <2>3 DEF Shape, SnapshotsOK, NeedsSync, TypeOK, Database
    <3>2. db.results[prev.number] \in Entries
      BY <3>1
    <3> QED
      BY <2>3, <2>4, <3>2 DEF Result
  <2>7. Pending(undoResult')
    BY <2>5, <2>6, SentinelAssumption DEF Pending
  <2> QED
    BY <1>1, <1>2, <2>1, <2>2, <2>3, <2>4, <2>5, <2>7
<1>3. CASE UNCHANGED <<round, rounds, undoResult>>
  BY <1>1, <1>3
<1> QED
  BY <1>2, <1>3 DEF CommitUndoBlock

\* What a write leaves in the database.
LEMMA SyncEffect ==
  ASSUME Shape, RecordsOK, NEW full \in BOOLEAN, SyncCached(full)
  PROVE  /\ db'.rounds = rounds /\ db'.round = round /\ db'.height = height
         /\ result' = Stored(result) /\ undoResult' = Stored(undoResult)
         /\ ~NeedsSync' /\ ~Pending(result') /\ ~Pending(undoResult')
         /\ UNCHANGED <<height, round, rounds, onDisk, chain, coins, job, due, happened>>
         /\ \A n \in DOMAIN rounds :
                db'.results[n] = IF Pending(result) /\ n = Len(rounds)
                                 THEN result.results ELSE db.results[n]
<1>1. /\ db' = [entries |-> [a \in Addr |-> SyncedEntry(a)], height |-> height,
                round |-> round, rounds |-> rounds, results |-> SyncedResults]
      /\ result' = Stored(result) /\ undoResult' = Stored(undoResult)
      /\ UNCHANGED <<height, round, rounds, onDisk, chain, coins, job, due, happened>>
  BY DEF SyncCached, chainVars
<1>2. ~Pending(result') /\ ~Pending(undoResult') /\ ~NeedsSync'
  <2>1. ASSUME NEW res \in Result \cup {NoResult} PROVE ~Pending(Stored(res))
    BY SentinelAssumption DEF Stored, Result, Pending
  <2> QED
    BY <1>1, <2>1 DEF Shape, TypeOK, NeedsSync
<1> DEFINE kept == [n \in DOMAIN db.results |->
                      IF Pending(undoResult) /\ n = undoResult.round.number
                      THEN NoEntries ELSE db.results[n]]
<1>3. /\ rounds \in Seq(Round) /\ Len(rounds) \in Nat /\ DOMAIN rounds = 1 .. Len(rounds)
      /\ db.results \in Seq(Entries) /\ Len(db.results) \in Nat
      /\ DOMAIN db.results = 1 .. Len(db.results)
  BY DEF Shape, TypeOK, Database
<1>4. kept \in Seq(Entries) /\ Len(kept) = Len(db.results)
  <2>1. NoEntries \in Entries
    BY DEF NoEntries, Entries
  <2> QED
    BY <1>3, <2>1
<1>5. ASSUME NEW n \in DOMAIN rounds, n \in DOMAIN db.results PROVE kept[n] = db.results[n]
  <2>1. Pending(undoResult) => n # undoResult.round.number
    <3>1. round.number \in Nat /\ Len(rounds) = round.number - 1
      BY DEF Shape, RoundsOK, TypeOK, Round
    <3>2. Pending(undoResult) => undoResult.round.number = round.number
      BY DEF RecordsOK
    <3> QED
      BY <1>3, <3>1, <3>2
  <2> QED
    BY <1>5, <2>1
<1>6. ASSUME NEW n \in DOMAIN rounds
      PROVE  SyncedResults[n] = IF Pending(result) /\ n = Len(rounds)
                                THEN result.results ELSE db.results[n]
  <2>1. CASE ~Pending(result)
    <3>1. SyncedResults = kept /\ n \in DOMAIN db.results
      BY <1>3, <2>1 DEF SyncedResults, Shape, SnapshotsOK
    <3> QED
      BY <1>5, <2>1, <3>1
  <2>2. CASE Pending(result)
    <3> DEFINE q == SubSeq(kept, 1, Len(rounds) - 1)
    <3>1. result.round.number = Len(rounds) /\ Len(kept) + 1 >= Len(rounds) /\ Len(rounds) >= 1
      BY <1>4, <2>2 DEF Shape, SnapshotsOK
    <3>2. SyncedResults = Append(q, result.results)
      BY <2>2, <3>1 DEF SyncedResults
    <3> HIDE DEF kept
    <3>3. q \in Seq(Entries) /\ Len(q) = Len(rounds) - 1
          /\ \A i \in 1 .. Len(rounds) - 1 : q[i] = kept[i]
      BY <1>3, <1>4, <3>1
    <3> HIDE DEF q
    <3>4. CASE n = Len(rounds)
      BY <1>3, <2>2, <3>2, <3>3, <3>4
    <3>5. CASE n # Len(rounds)
      <4>1. n \in 1 .. Len(rounds) - 1 /\ n \in DOMAIN db.results
        BY <1>3, <1>4, <3>1, <3>5
      <4>2. SyncedResults[n] = q[n]
        BY <1>3, <3>2, <3>3, <4>1
      <4> QED
        BY <1>5, <3>3, <3>5, <4>1, <4>2
    <3> QED
      BY <3>4, <3>5
  <2> QED
    BY <2>1, <2>2
<1> QED
  BY <1>1, <1>2, <1>6

\* What a start reads back.
LEMMA RestartEffect ==
  ASSUME Shape, Restart
  PROVE  /\ cache' = NoEntries /\ height' = db.height /\ round' = db.round
         /\ rounds' = db.rounds /\ undoResult' = NoResult /\ chain' = onDisk.chain
         /\ due' = onDisk.due /\ job' = Idle /\ UNCHANGED <<db, onDisk>>
         /\ ~NeedsSync'
         /\ result' # NoResult =>
                /\ ~Pending(result')
                /\ result'.round.number = Len(db.rounds) /\ Len(db.rounds) >= 1
                /\ result'.round = db.rounds[Len(db.rounds)]
                /\ result'.results = db.results[Len(db.rounds)]
                /\ result'.payouts = Payouts(result'.results)
         /\ result' = NoResult => db.rounds = <<>>
<1> DEFINE n == db.round.number - 1
<1>1. /\ cache' = NoEntries /\ height' = db.height /\ round' = db.round
      /\ rounds' = db.rounds /\ undoResult' = NoResult /\ chain' = onDisk.chain
      /\ due' = onDisk.due /\ job' = Idle /\ UNCHANGED <<db, onDisk>>
      /\ result' = LoadedResult
  BY DEF Restart, diskVars
<1>2. db.rounds \in Seq(Round) /\ n = Len(db.rounds) /\ Len(db.rounds) \in Nat
      /\ \A i \in DOMAIN db.rounds : db.rounds[i].number = i
  <2>1. db.rounds \in Seq(Round) /\ db.round \in Round
    BY DEF Shape, TypeOK, Database
  <2>2. db.round.number \in Nat
    BY <2>1 DEF Round
  <2> QED
    BY <2>1, <2>2 DEF Shape, DatabaseOK
<1>3. ~Pending(result') /\ ~NeedsSync'
  BY <1>1, LoadedResultType DEF NeedsSync, Pending
<1>4. CASE n = 0
  <2>1. result' = NoResult /\ db.rounds = <<>>
    BY <1>1, <1>2, <1>4 DEF LoadedResult
  <2> QED
    BY <1>1, <1>3, <2>1
<1>5. CASE n # 0
  <2>1. result' = [round |-> db.rounds[n], results |-> db.results[n],
                   payouts |-> Payouts(db.results[n]), synced |-> TRUE]
    BY <1>1, <1>5 DEF LoadedResult
  <2>2. /\ result'.round = db.rounds[n] /\ result'.results = db.results[n]
        /\ result'.payouts = Payouts(db.results[n]) /\ result'.synced
    BY <2>1
  <2> HIDE DEF n
  <2>3. n \in DOMAIN db.rounds /\ n >= 1
    BY <1>2, <1>5
  <2>4. db.rounds[n].number = n
    BY <1>2, <2>3
  <2>5. result' \in Result
    <3>1. db.results \in Seq(Entries) /\ n \in 1 .. Len(db.results)
      BY <1>2, <2>3 DEF Shape, TypeOK, Database, DatabaseOK
    <3>2. db.rounds[n] \in Round /\ db.results[n] \in Entries
      BY <1>2, <2>3, <3>1
    <3>3. Payouts(db.results[n]) \in SUBSET Addr
      BY DEF Payouts
    <3> QED
      BY <2>1, <3>2, <3>3 DEF Result
  <2> QED
    BY <1>1, <1>2, <1>3, <2>2, <2>3, <2>4, <2>5, SentinelAssumption
<1> QED
  BY <1>4, <1>5

LEMMA RecordsCommitBlock ==
  ASSUME Shape, RecordsOK, CommitBlock
  PROVE  RecordsOK'
<1>1. CASE NextHeight # round.end
  <2>1. Linked(rounds, round)' /\ Linked(db.rounds, db.round)'
    BY <1>1, MidRoundEffect, LinkedSame DEF RecordsOK
  <2>2. ResultOK'
    BY <1>1, MidRoundEffect DEF RecordsOK, ResultOK, Pending
  <2> QED
    BY <1>1, <2>1, <2>2, MidRoundEffect DEF RecordsOK, NeedsSync
<1>2. CASE NextHeight = round.end
  <2>1. rounds \in Seq(Round) /\ Len(rounds) = round.number - 1 /\ round.number \in Nat
        /\ round.number >= 1
    BY DEF Shape, TypeOK, RoundsOK, Round
  <2>2. Linked(rounds, UpdatedRound)
    BY <1>2, RoundEndEffect, LinkedSame DEF RecordsOK
  <2>3. Linked(rounds, round)'
    BY <1>2, <2>1, <2>2, RoundEndEffect, LinkedAppend
  <2>4. Linked(db.rounds, db.round)'
    BY <1>2, RoundEndEffect DEF RecordsOK
  <2>5. /\ Len(rounds') = round.number /\ rounds'[Len(rounds')] = UpdatedRound
        /\ UpdatedRound.number = round.number
    BY <1>2, <2>1, RoundEndEffect
  <2>6. ResultOK'
    BY <1>2, <2>1, <2>5, RoundEndEffect DEF ResultOK
  <2>7. rounds' = Append(db'.rounds, result'.round)
    BY <1>2, RoundEndEffect DEF RecordsOK
  <2> QED
    BY <1>2, <2>3, <2>4, <2>6, <2>7, RoundEndEffect DEF RecordsOK
<1> QED
  BY <1>1, <1>2

LEMMA RecordsCommitUndoBlock ==
  ASSUME Shape, RecordsOK, CommitUndoBlock
  PROVE  RecordsOK'
<1>1. ~NeedsSync /\ UNCHANGED <<result, db>>
  BY UndoEffect
<1>2. CASE UNCHANGED <<round, rounds, undoResult>>
  BY <1>1, <1>2 DEF RecordsOK, ResultOK, NeedsSync, Pending
<1>3. CASE ~UNCHANGED <<round, rounds, undoResult>>
  <2>1. /\ rounds \in Seq(Round) /\ rounds # <<>> /\ Len(rounds) = round.number - 1
        /\ round' = rounds[Len(rounds)] /\ round'.number = Len(rounds)
        /\ rounds' = SubSeq(rounds, 1, Len(rounds) - 1)
        /\ Pending(undoResult') /\ undoResult'.round = round'
    BY <1>3, UndoEffect
  <2>2. Len(rounds) \in Nat /\ Len(rounds) # 0
    BY <2>1
  <2>3. Len(rounds') = Len(rounds) - 1
    BY <2>1, <2>2
  <2>4. Linked(rounds, round)'
    BY <2>1, LinkedShorter DEF RecordsOK
  <2>5. result.round.number \in Int \/ result = NoResult
    BY DEF Shape, TypeOK, Result, Round
  <2>6. ResultOK'
    BY <1>1, <2>2, <2>3, <2>5 DEF RecordsOK, ResultOK
  <2>7. ~Pending(result') /\ NeedsSync'
    BY <1>1, <2>1 DEF NeedsSync, Pending
  <2> QED
    BY <1>1, <2>1, <2>4, <2>6, <2>7 DEF RecordsOK
<1> QED
  BY <1>2, <1>3

\* Marking a result as written changes nothing else of it.
LEMMA StoredFields ==
  ASSUME NEW res \in Result
  PROVE  /\ Stored(res).round = res.round /\ Stored(res).results = res.results
         /\ Stored(res).payouts = res.payouts
  BY SentinelAssumption DEF Stored, Result

LEMMA RecordsSyncCached ==
  ASSUME Shape, RecordsOK, NEW full \in BOOLEAN, SyncCached(full)
  PROVE  RecordsOK'
<1>1. /\ db'.rounds = rounds /\ db'.round = round /\ ~NeedsSync' /\ ~Pending(result')
      /\ ~Pending(undoResult') /\ UNCHANGED <<round, rounds>> /\ result' = Stored(result)
  BY SyncEffect
<1>2. \A n \in DOMAIN rounds :
          db'.results[n] = IF Pending(result) /\ n = Len(rounds)
                           THEN result.results ELSE db.results[n]
  BY SyncEffect
<1>3. ASSUME result' # NoResult
      PROVE  /\ result'.payouts = Payouts(result'.results)
             /\ result'.round.number >= Len(rounds)
             /\ result'.round.number >= 1
             /\ result'.round.number = Len(rounds) =>
                    /\ result'.round = rounds[Len(rounds)]
                    /\ result'.results = db'.results[Len(rounds)]
  <2>1. result # NoResult /\ result \in Result
    BY <1>1, <1>3 DEF Stored, Shape, TypeOK
  <2>2. /\ result'.round = result.round /\ result'.results = result.results
        /\ result'.payouts = result.payouts
    BY <1>1, <2>1, StoredFields
  <2>3. rounds \in Seq(Round) /\ (Len(rounds) >= 1 => Len(rounds) \in DOMAIN rounds)
    BY DEF Shape, TypeOK
  <2> QED
    BY <1>2, <2>1, <2>2, <2>3 DEF RecordsOK, ResultOK
<1>4. ResultOK'
  BY <1>1, <1>3 DEF ResultOK
<1> QED
  BY <1>1, <1>4 DEF RecordsOK

LEMMA RecordsRestart ==
  ASSUME Shape, RecordsOK, Restart
  PROVE  RecordsOK'
<1>1. /\ round' = db.round /\ rounds' = db.rounds /\ undoResult' = NoResult
      /\ UNCHANGED db /\ ~NeedsSync' /\ ~Pending(result') /\ ~Pending(undoResult')
  BY RestartEffect DEF NeedsSync
<1>2. Len(db.rounds) \in Nat
  BY DEF Shape, TypeOK, Database
<1>3. ResultOK'
  BY <1>1, <1>2, RestartEffect DEF ResultOK
<1> QED
  BY <1>1, <1>3 DEF RecordsOK

LEMMA RecordsNext ==
  ASSUME Shape, RecordsOK, [Next]_vars
  PROVE  RecordsOK'
<1>1. CASE UNCHANGED recordVars
  BY <1>1 DEF recordVars, RecordsOK, ResultOK, NeedsSync, Pending
<1> QED
  BY <1>1, Untouched, RecordsCommitBlock, RecordsCommitUndoBlock, RecordsSyncCached,
     RecordsRestart

-----------------------------------------------------------------------------
(* Nobody is due twice *)

\* The record p was taken from the list S of the round r.
From(p, r, S) == p.addr \in Slice(r, S, p.height)

\* While no end of a round is undone, records are taken from what the
\* database holds, which is only added to.
DueFromDatabase ==
    "crossing" \notin happened =>
        /\ job.kind = "disconnect" => Len(chain) > round.start
        /\ ~Pending(undoResult)
        /\ result # NoResult => result.round.number = Len(rounds)
        /\ \A p \in due \cup onDisk.due :
               /\ p.round \in DOMAIN db.rounds
               /\ From(p, db.rounds[p.round], Payouts(db.results[p.round]))

\* Records of a round that is no longer finished come from one result.
DueFromUndone(r, S) ==
    /\ r.end >= round.end
    /\ result # NoResult /\ result.round.number >= round.number =>
           r = result.round /\ S = result.payouts
    /\ \A p \in due : p.round >= round.number => p.round = r.number /\ From(p, r, S)

\* While no state is lost, records of a round are undone with its end.
DueAfterEnd ==
    "crash" \notin happened =>
        /\ height = Len(chain)
        /\ \A p \in due :
               /\ p.height <= height
               /\ p.round >= 1
               /\ p.round < round.number => From(p, rounds[p.round], ListOf(p.round))
        /\ \E r \in Round, S \in SUBSET Addr : DueFromUndone(r, S)

DueInv == RecordsOK /\ DueFromDatabase /\ DueAfterEnd

\* A fault stays on record.
LEMMA HappenedGrows ==
  ASSUME [Next]_vars
  PROVE  happened \subseteq happened'
<1>1. ASSUME NEW b \in Blocks, ConnectTip(b) PROVE UNCHANGED happened
  BY <1>1 DEF ConnectTip, boundVars
<1>2. ProcessInput \/ ProcessOutput \/ UndoInput \/ UndoOutput => UNCHANGED happened
  BY DEF ProcessInput, ProcessOutput, UndoInput, UndoOutput, boundVars
<1>3. CommitBlock \/ CommitBlockRefused \/ CommitUndoBlock \/ CommitUndoBlockRefused =>
          UNCHANGED happened
  BY DEF CommitBlock, CommitBlockRefused, BlockConnected, CommitUndoBlock,
     CommitUndoBlockRefused, boundVars
<1>4. RejectBlock \/ DisconnectTip => happened \subseteq happened'
  BY DEF RejectBlock, DisconnectTip, Fault, Count
<1>5. ASSUME NEW full \in BOOLEAN, SyncCached(full) PROVE UNCHANGED happened
  BY <1>5 DEF SyncCached
<1>6. FlushCoins \/ UNCHANGED vars => UNCHANGED happened
  BY DEF FlushCoins, vars, boundVars
<1>7. Restart => happened \subseteq happened'
  BY DEF Restart, Fault, Count
<1> QED
  BY <1>1, <1>2, <1>3, <1>4, <1>5, <1>6, <1>7 DEF Next

\* Who is due at the height of a connected block.
LEMMA PaymentsMade ==
  ASSUME Shape, RecordsOK, BlockConnected, NEW p \in due', p \notin due
  PROVE  /\ result # NoResult /\ result.round \in Round /\ result.payouts \in SUBSET Addr
         /\ ~Pending(result) /\ rounds = db.rounds
         /\ p.round = result.round.number /\ p.height = NextHeight /\ p.round \in Nat
         /\ From(p, result.round, result.payouts)
         /\ NextHeight > result.round.end
         /\ p.round >= 1 /\ p.round >= Len(rounds)
         /\ p.round = Len(rounds) =>
                /\ p.round \in DOMAIN rounds
                /\ result.round = rounds[p.round]
                /\ result.payouts = Payouts(db.results[p.round])
<1>1. TypeOK /\ job.kind = "connect" /\ ~NeedsSync /\ NextHeight \in Int
  BY DEF Shape, BlockConnected, JobOK, NextHeight, TypeOK
<1>2. PICK a \in GetPayments(result, NextHeight) :
          p = [round |-> result.round.number, addr |-> a, height |-> NextHeight]
  BY DEF BlockConnected, FillPayments
<1>3. p.round = result.round.number /\ p.height = NextHeight /\ p.addr = a
  BY <1>2
<1>4. result # NoResult /\ a \in Slice(result.round, result.payouts, NextHeight)
  BY <1>2, PaymentsAreSlices
<1>5. /\ result \in Result /\ result.round \in Round /\ result.payouts \in SUBSET Addr
      /\ result.round.number \in Nat
  BY <1>1, <1>4 DEF TypeOK, Result, Round
<1>6. NextHeight > result.round.end
  BY <1>1, <1>4, <1>5, SliceAfterEnd
<1>7. From(p, result.round, result.payouts)
  BY <1>3, <1>4 DEF From
<1>8. ~Pending(result) /\ rounds = db.rounds
  BY <1>1 DEF NeedsSync, RecordsOK
<1>9. /\ result.payouts = Payouts(result.results) /\ p.round >= 1 /\ p.round >= Len(rounds)
      /\ p.round = Len(rounds) =>
             result.round = rounds[p.round] /\ result.results = db.results[p.round]
  BY <1>3, <1>4, <1>8 DEF RecordsOK, ResultOK
<1>10. rounds \in Seq(Round) /\ Len(rounds) \in Nat
  BY <1>1 DEF TypeOK
<1>11. p.round = Len(rounds) => p.round \in DOMAIN rounds
  BY <1>9, <1>10
<1> QED
  BY <1>3, <1>4, <1>5, <1>6, <1>7, <1>8, <1>9, <1>11

\* DueFromDatabase by parts: what is undone, and what is due.
ResultLast ==
    /\ job.kind = "disconnect" => Len(chain) > round.start
    /\ ~Pending(undoResult)
    /\ result # NoResult => result.round.number = Len(rounds)

AllStored ==
    \A p \in due \cup onDisk.due :
        /\ p.round \in DOMAIN db.rounds
        /\ From(p, db.rounds[p.round], Payouts(db.results[p.round]))

LEMMA DueFromDatabaseParts ==
  DueFromDatabase <=> ("crossing" \notin happened => ResultLast /\ AllStored)
  BY DEF DueFromDatabase, ResultLast, AllStored

LEMMA ResultLastNext ==
  ASSUME Shape, RecordsOK, ResultLast, [Next]_vars, "crossing" \notin happened'
  PROVE  ResultLast'
<1>1. CASE CommitBlock
  <2>1. job'.kind = "idle"
    BY <1>1 DEF CommitBlock, BlockConnected, Idle
  <2>2. CASE NextHeight # round.end
    BY <1>1, <2>1, <2>2, MidRoundEffect DEF ResultLast, NeedsSync
  <2>3. CASE NextHeight = round.end
    <3>1. /\ Len(rounds') = round.number /\ result'.round.number = round.number
          /\ ~Pending(undoResult')
      <4>1. /\ rounds \in Seq(Round) /\ Len(rounds) = round.number - 1
            /\ round.number \in Nat
        BY DEF Shape, TypeOK, RoundsOK, Round
      <4> QED
        BY <1>1, <2>3, <4>1, RoundEndEffect
    <3> QED
      BY <2>1, <3>1 DEF ResultLast
  <2> QED
    BY <2>2, <2>3
<1>2. CASE CommitUndoBlock
  <2>1. job'.kind = "idle" /\ Len(chain) > round.start
    BY <1>2 DEF CommitUndoBlock, Idle, ResultLast
  <2>2. UNCHANGED <<round, rounds, undoResult, result>>
    <3>1. Len(chain) \in Nat /\ round.start \in Nat
      BY DEF Shape, TypeOK, Round
    <3>2. Len(chain) # round.start
      BY <2>1, <3>1
    <3> QED
      BY <1>2, <3>2, UndoEffect
  <2> QED
    BY <2>1, <2>2 DEF ResultLast, Pending
<1>3. ASSUME NEW full \in BOOLEAN, SyncCached(full) PROVE ResultLast'
  <2>1. /\ UNCHANGED <<job, chain, round, rounds>> /\ ~Pending(undoResult')
        /\ result' = Stored(result)
    BY <1>3, SyncEffect
  <2>2. result' # NoResult => result # NoResult /\ result \in Result
    BY <2>1 DEF Stored, Shape, TypeOK
  <2>3. result' # NoResult => result'.round = result.round
    BY <2>1, <2>2, StoredFields
  <2> QED
    BY <2>1, <2>2, <2>3 DEF ResultLast
<1>4. CASE Restart
  BY <1>4, RestartEffect DEF ResultLast, Idle, NeedsSync
<1>5. CASE UNCHANGED recordVars
  <2>1. job'.kind = "disconnect" => Len(chain') > round.start
    <3>0. TypeOK
      BY DEF Shape
    <3>1. ASSUME NEW b \in Blocks, ConnectTip(b) PROVE job'.kind = "connect"
      BY <3>1 DEF ConnectTip, Work
    <3>2. ProcessInput \/ ProcessOutput => job'.kind = "connect"
      <4>1. ASSUME job.kind = "connect", NEW d, NEW q, NEW v, StepDone(d, q, v)
            PROVE  job'.kind = "connect"
        BY <3>0, <4>1, JobType DEF StepDone
      <4> QED
        BY <4>1 DEF ProcessInput, ProcessOutput, At
    <3>3. UndoInput \/ UndoOutput => job.kind = "disconnect" /\ UNCHANGED chain
      BY DEF UndoInput, UndoOutput, At, chainVars
    <3>4. RejectBlock \/ CommitBlockRefused \/ CommitUndoBlockRefused => job'.kind # "disconnect"
      BY DEF RejectBlock, CommitBlockRefused, BlockConnected, CommitUndoBlockRefused, Idle,
         Aborted
    <3>5. DisconnectTip => Len(chain) > round.start /\ UNCHANGED chain
      BY DEF DisconnectTip, Fault, Count, chainVars
    <3>6. FlushCoins \/ UNCHANGED vars => UNCHANGED <<job, chain>>
      BY DEF FlushCoins, vars, chainVars
    <3>7. CASE UNCHANGED <<job, chain>>
      BY <3>7 DEF ResultLast
    <3> QED
      BY <1>1, <1>2, <1>3, <1>4, <1>5, <3>1, <3>2, <3>3, <3>4, <3>5, <3>6, <3>7
         DEF Next, ResultLast, recordVars
  <2> QED
    BY <1>5, <2>1 DEF ResultLast, recordVars, Pending
<1> QED
  BY <1>1, <1>2, <1>3, <1>4, <1>5, Untouched

\* While no round is undone, the database is only added to.
LEMMA DatabaseGrows ==
  ASSUME Shape, RecordsOK, ~Pending(undoResult), [Next]_vars, NEW n \in DOMAIN db.rounds
  PROVE  /\ n \in DOMAIN db'.rounds
         /\ db'.rounds[n] = db.rounds[n]
         /\ db'.results[n] = db.results[n]
<1>1. CASE UNCHANGED db
  BY <1>1
<1>2. ASSUME NEW full \in BOOLEAN, SyncCached(full)
      PROVE  /\ n \in DOMAIN db'.rounds
             /\ db'.rounds[n] = db.rounds[n]
             /\ db'.results[n] = db.results[n]
  <2>1. /\ db'.rounds = rounds
        /\ \A i \in DOMAIN rounds :
               db'.results[i] = IF Pending(result) /\ i = Len(rounds)
                                THEN result.results ELSE db.results[i]
    BY <1>2, SyncEffect
  <2>2. db.rounds \in Seq(Round) /\ result \in Result \cup {NoResult}
    BY DEF Shape, TypeOK, Database
  <2>3. CASE ~Pending(result)
    <3>1. rounds = db.rounds
      BY <2>3 DEF RecordsOK, NeedsSync
    <3> QED
      BY <2>1, <2>3, <3>1
  <2>4. CASE Pending(result)
    <3>1. rounds = Append(db.rounds, result.round)
      BY <2>4 DEF RecordsOK
    <3>2. /\ n \in DOMAIN rounds /\ rounds[n] = db.rounds[n] /\ n # Len(rounds)
      BY <2>2, <3>1
    <3> QED
      BY <2>1, <3>2
  <2> QED
    BY <2>3, <2>4
<1>3. CommitBlock \/ CommitUndoBlock \/ Restart => UNCHANGED db
  BY DEF CommitBlock, BlockConnected, CommitUndoBlock, Restart, diskVars
<1> QED
  BY <1>1, <1>2, <1>3, Untouched DEF recordVars

\* Payments are made by a block, read back from the disk or kept.
LEMMA DueOrigin ==
  ASSUME [Next]_vars
  PROVE  /\ due' = due \/ BlockConnected \/ CommitUndoBlock \/ Restart
         /\ BlockConnected => UNCHANGED <<onDisk, db>> /\ due \subseteq due'
         /\ CommitUndoBlock => UNCHANGED onDisk /\ due' \subseteq due
         /\ Restart => UNCHANGED onDisk /\ due' = onDisk.due
         /\ onDisk' = onDisk \/ (onDisk'.due = due /\ due' = due)
<1>1. ASSUME NEW b \in Blocks, ConnectTip(b) PROVE UNCHANGED <<due, onDisk>>
  BY <1>1 DEF ConnectTip, diskVars
<1>2. ProcessInput \/ ProcessOutput \/ UndoInput \/ UndoOutput => UNCHANGED <<due, onDisk>>
  BY DEF ProcessInput, ProcessOutput, UndoInput, UndoOutput, diskVars
<1>3. RejectBlock \/ DisconnectTip \/ CommitUndoBlockRefused => UNCHANGED <<due, onDisk>>
  BY DEF RejectBlock, DisconnectTip, CommitUndoBlockRefused, diskVars
<1>4. BlockConnected => UNCHANGED <<onDisk, db>> /\ due \subseteq due'
  BY DEF BlockConnected, diskVars
<1>5. CommitBlock \/ CommitBlockRefused => BlockConnected
  BY DEF CommitBlock, CommitBlockRefused
<1>6. CommitUndoBlock => UNCHANGED onDisk /\ due' \subseteq due
  BY DEF CommitUndoBlock, diskVars
<1>7. Restart => UNCHANGED onDisk /\ due' = onDisk.due
  BY DEF Restart, diskVars
<1>8. ASSUME NEW full \in BOOLEAN, SyncCached(full) PROVE UNCHANGED <<due, onDisk>>
  BY <1>8 DEF SyncCached
<1>9. FlushCoins => onDisk'.due = due /\ due' = due
  BY DEF FlushCoins
<1>10. UNCHANGED vars => UNCHANGED <<due, onDisk>>
  BY DEF vars, diskVars
<1> QED
  BY <1>1, <1>2, <1>3, <1>4, <1>5, <1>6, <1>7, <1>8, <1>9, <1>10 DEF Next

LEMMA AllStoredNext ==
  ASSUME Shape, RecordsOK, ResultLast, AllStored, [Next]_vars
  PROVE  AllStored'
<1>1. ASSUME NEW p \in (due \cup onDisk.due)'
      PROVE  /\ p.round \in DOMAIN db'.rounds
             /\ From(p, db'.rounds[p.round], Payouts(db'.results[p.round]))
  <2>1. CASE p \in due \cup onDisk.due
    <3>1. /\ p.round \in DOMAIN db.rounds
          /\ From(p, db.rounds[p.round], Payouts(db.results[p.round]))
      BY <2>1 DEF AllStored
    <3> QED
      BY <3>1, DatabaseGrows DEF ResultLast
  <2>2. CASE p \notin due \cup onDisk.due
    <3>1. BlockConnected /\ p \in due' /\ p \notin due /\ UNCHANGED db
      BY <1>1, <2>2, DueOrigin
    <3>2. /\ rounds = db.rounds /\ From(p, result.round, result.payouts)
          /\ p.round = result.round.number /\ result # NoResult
          /\ p.round = Len(rounds) =>
                /\ p.round \in DOMAIN rounds
                /\ result.round = rounds[p.round]
                /\ result.payouts = Payouts(db.results[p.round])
      BY <3>1, PaymentsMade
    <3>3. p.round = Len(rounds)
      BY <3>2 DEF ResultLast
    <3> QED
      BY <3>1, <3>2, <3>3
  <2> QED
    BY <2>1, <2>2
<1> QED
  BY <1>1 DEF AllStored

LEMMA DueFromDatabaseInit == Init => DueFromDatabase
<1> SUFFICES ASSUME Init PROVE DueFromDatabase
  OBVIOUS
<1>1. /\ due = {} /\ onDisk.due = {} /\ result = NoResult /\ undoResult = NoResult
      /\ job.kind = "idle"
  BY DEF Init, Idle
<1> QED
  BY <1>1 DEF DueFromDatabase, Pending

LEMMA DueFromDatabaseNext ==
  ASSUME Shape, RecordsOK, DueFromDatabase, [Next]_vars
  PROVE  DueFromDatabase'
<1> SUFFICES ASSUME "crossing" \notin happened' PROVE (ResultLast /\ AllStored)'
  BY DEF DueFromDatabase, ResultLast, AllStored
<1>1. "crossing" \notin happened
  BY HappenedGrows
<1>2. ResultLast /\ AllStored
  BY <1>1, DueFromDatabaseParts
<1> QED
  BY <1>2, ResultLastNext, AllStoredNext

\* DueAfterEnd for one payment.
Known(p) ==
    /\ p.height <= height
    /\ p.round >= 1
    /\ p.round < round.number => From(p, rounds[p.round], ListOf(p.round))

AfterEnd ==
    /\ height = Len(chain)
    /\ \A p \in due : Known(p)
    /\ \E r \in Round, S \in SUBSET Addr : DueFromUndone(r, S)

LEMMA DueAfterEndParts == DueAfterEnd <=> ("crash" \notin happened => AfterEnd)
  BY DEF DueAfterEnd, AfterEnd, Known

LEMMA AfterEndTypes ==
  ASSUME Shape
  PROVE  /\ height \in Nat /\ round \in Round /\ round.number \in Nat /\ round.start \in Nat
         /\ round.end \in Nat /\ round.number >= 1
         /\ rounds \in Seq(Round) /\ Len(rounds) = round.number - 1 /\ Len(rounds) \in Nat
         /\ DOMAIN rounds = 1 .. Len(rounds)
         /\ chain \in Seq(Block) /\ Len(chain) \in Nat
         /\ \A p \in due : p.round \in Nat /\ p.height \in Nat /\ p.addr \in Addr
  BY DEF Shape, TypeOK, RoundsOK, Round

\* A payment from a list is made after the round ended.
LEMMA FromAfterEnd ==
  ASSUME NEW p, p.height \in Nat, NEW r \in Round, NEW S, From(p, r, S)
  PROVE  p.height > r.end
  BY SliceAfterEnd DEF From

\* A payment that is known stays known when its round and its list stay.
LEMMA KnownStays ==
  ASSUME Shape, NEW p \in due, Known(p), p.height <= height',
         p.round < round'.number =>
             /\ p.round < round.number
             /\ rounds'[p.round] = rounds[p.round]
             /\ ListOf(p.round)' = ListOf(p.round)
  PROVE  Known(p)'
  BY DEF Known

LEMMA AfterEndMidRound ==
  ASSUME Shape, RecordsOK, AfterEnd, CommitBlock, NextHeight # round.end
  PROVE  AfterEnd'
<1> USE AfterEndTypes
<1>1. BlockConnected /\ TypeOK
  BY DEF CommitBlock, Shape
<1>2. /\ height' = height + 1 /\ height' = NextHeight /\ Len(chain') = NextHeight
      /\ due \subseteq due'
  BY <1>1, BlockConnectedType DEF CommitBlock, BlockConnected
<1>3. /\ result' = NoResult \/ result' = result
      /\ ~NeedsSync /\ ~NeedsSync'
      /\ round'.number = round.number /\ round'.end = round.end /\ UNCHANGED <<rounds, db>>
  BY MidRoundEffect
<1>4. ASSUME NEW n PROVE ListOf(n) = Payouts(db.results[n]) /\ ListOf(n)' = ListOf(n)
  BY <1>3 DEF ListOf, NeedsSync
<1>5. ASSUME NEW p \in due' PROVE Known(p)'
  <2>1. CASE p \in due
    <3>1. p.height <= height'
      BY <1>2, <2>1 DEF AfterEnd, Known
    <3> QED
      BY <1>3, <1>4, <2>1, <3>1, KnownStays DEF AfterEnd
  <2>2. CASE p \notin due
    <3>1. /\ p.height = NextHeight /\ p.round \in Nat /\ p.round >= 1 /\ p.round >= Len(rounds)
          /\ From(p, result.round, result.payouts)
          /\ p.round = Len(rounds) =>
                /\ result.round = rounds[p.round]
                /\ result.payouts = Payouts(db.results[p.round])
      BY <1>1, <1>5, <2>2, PaymentsMade
    <3>2. p.round < round'.number => p.round = Len(rounds)
      BY <1>3, <3>1
    <3>3. p.round < round'.number => From(p, rounds'[p.round], ListOf(p.round)')
      BY <1>3, <1>4, <3>1, <3>2
    <3> QED
      BY <1>2, <3>1, <3>3 DEF Known
  <2> QED
    BY <2>1, <2>2
<1>6. PICK r \in Round, S \in SUBSET Addr : DueFromUndone(r, S)
  BY DEF AfterEnd
<1>7. DueFromUndone(r, S)'
  <2>1. ASSUME NEW p \in due', p.round >= round.number
        PROVE  p.round = r.number /\ From(p, r, S)
    <3>1. CASE p \in due
      BY <1>6, <2>1, <3>1 DEF DueFromUndone
    <3>2. CASE p \notin due
      <4>1. /\ result # NoResult /\ p.round = result.round.number
            /\ From(p, result.round, result.payouts)
        BY <1>1, <2>1, <3>2, PaymentsMade
      <4>2. r = result.round /\ S = result.payouts
        BY <1>6, <2>1, <4>1 DEF DueFromUndone
      <4> QED
        BY <4>1, <4>2
    <3> QED
      BY <3>1, <3>2
  <2> QED
    BY <1>3, <1>6, <2>1 DEF DueFromUndone
<1> QED
  BY <1>2, <1>5, <1>7 DEF AfterEnd

LEMMA AfterEndRoundEnd ==
  ASSUME Shape, RecordsOK, AfterEnd, CommitBlock, NextHeight = round.end
  PROVE  AfterEnd'
<1> USE AfterEndTypes
<1>1. BlockConnected /\ TypeOK
  BY DEF CommitBlock, Shape
<1>2. /\ height' = height + 1 /\ height' = NextHeight /\ Len(chain') = NextHeight
  BY <1>1, BlockConnectedType DEF CommitBlock
<1>3. /\ result'.round.number = round.number /\ ~NeedsSync
      /\ rounds' = Append(rounds, UpdatedRound) /\ round' \in Round
      /\ round'.number = round.number + 1 /\ UNCHANGED db
  BY RoundEndEffect
<1>4. PICK r \in Round, S \in SUBSET Addr : DueFromUndone(r, S)
  BY DEF AfterEnd
<1>5. r.end \in Nat /\ r.end >= NextHeight /\ height + 1 = NextHeight
  BY <1>2, <1>4, RoundFields DEF DueFromUndone, RoundType
<1>6. ASSUME NEW p \in due' PROVE p.round < round.number /\ p.round \in Nat
  <2>1. CASE p \in due
    <3>1. SUFFICES ASSUME p.round >= round.number PROVE FALSE
      BY <2>1
    <3>2. From(p, r, S) /\ p.height <= height
      BY <1>4, <2>1, <3>1 DEF DueFromUndone, AfterEnd, Known
    <3>3. p.height > r.end
      BY <2>1, <3>2, FromAfterEnd
    <3> QED
      BY <1>5, <2>1, <3>2, <3>3
  <2>2. CASE p \notin due
    <3>1. /\ result # NoResult /\ p.round = result.round.number /\ p.round \in Nat
          /\ NextHeight > result.round.end
      BY <1>1, <1>6, <2>2, PaymentsMade
    <3>2. p.round >= round.number => r = result.round
      BY <1>4, <3>1 DEF DueFromUndone
    <3> QED
      BY <1>2, <1>5, <3>1, <3>2
  <2> QED
    BY <2>1, <2>2
<1>7. ASSUME NEW p \in due' PROVE Known(p)'
  <2>1. p.round < round.number /\ p.round \in Nat
    BY <1>6, <1>7
  <2>2. ListOf(p.round)' = Payouts(db.results[p.round])
        /\ ListOf(p.round) = Payouts(db.results[p.round])
    BY <1>3, <2>1 DEF ListOf, NeedsSync
  <2>3. p.round >= 1 => rounds'[p.round] = rounds[p.round]
    BY <1>3, <2>1
  <2>4. CASE p \in due
    <3>1. p.height <= height' /\ p.round >= 1
      BY <1>2, <2>4 DEF AfterEnd, Known
    <3> QED
      BY <2>1, <2>2, <2>3, <2>4, <3>1, KnownStays DEF AfterEnd
  <2>5. CASE p \notin due
    <3>1. /\ p.height = NextHeight /\ p.round >= 1 /\ p.round >= Len(rounds)
          /\ From(p, result.round, result.payouts)
          /\ p.round = Len(rounds) =>
                /\ result.round = rounds[p.round]
                /\ result.payouts = Payouts(db.results[p.round])
      BY <1>1, <1>7, <2>5, PaymentsMade
    <3>2. p.round = Len(rounds)
      BY <2>1, <3>1
    <3>3. From(p, rounds'[p.round], ListOf(p.round)')
      BY <2>2, <2>3, <3>1, <3>2
    <3> QED
      BY <1>2, <3>1, <3>3 DEF Known
  <2> QED
    BY <2>4, <2>5
<1>8. DueFromUndone(round, {})' /\ {} \in SUBSET Addr
  <2>1. round'.end \in Nat /\ ~(round.number >= round.number + 1)
    BY <1>3, RoundFields DEF RoundType
  <2>2. ASSUME NEW p \in due' PROVE ~(p.round >= round.number + 1)
    BY <1>6, <2>2
  <2> QED
    BY <1>3, <2>1, <2>2 DEF DueFromUndone
<1> QED
  BY <1>2, <1>3, <1>7, <1>8 DEF AfterEnd

LEMMA AfterEndCommitUndoBlock ==
  ASSUME Shape, RecordsOK, AfterEnd, CommitUndoBlock
  PROVE  AfterEnd'
<1> USE AfterEndTypes
<1>1. /\ height' = height - 1 /\ chain' = SubSeq(chain, 1, Len(chain) - 1)
      /\ due' = {p \in due : p.height # Len(chain)} /\ Len(chain) = height /\ chain # <<>>
      /\ ~NeedsSync /\ UNCHANGED <<result, db>>
  BY UndoEffect DEF CommitUndoBlock, Shape, JobOK
<1>2. Len(chain') = height'
  BY <1>1
<1>3. ASSUME NEW p \in due'
      PROVE  /\ p \in due /\ Known(p) /\ p.height <= height' /\ p.height \in Nat
             /\ p.round \in Nat /\ p.round >= 1
  <2>1. p \in due /\ p.height # height
    BY <1>1, <1>3
  <2>2. Known(p) /\ p.height <= height /\ p.round >= 1
    BY <2>1 DEF AfterEnd, Known
  <2> QED
    BY <1>1, <2>1, <2>2
<1>4. PICK r \in Round, S \in SUBSET Addr : DueFromUndone(r, S)
  BY DEF AfterEnd
<1>5. ASSUME NEW n PROVE ListOf(n)' = ListOf(n)
  BY <1>1 DEF ListOf, Pending
<1>6. CASE UNCHANGED <<round, rounds, undoResult>>
  <2>1. ASSUME NEW p \in due' PROVE Known(p)'
    BY <1>3, <1>5, <1>6, <2>1, KnownStays
  <2>2. DueFromUndone(r, S)'
    BY <1>1, <1>3, <1>4, <1>6 DEF DueFromUndone
  <2> QED
    BY <1>2, <2>1, <2>2 DEF AfterEnd
<1>7. CASE ~UNCHANGED <<round, rounds, undoResult>>
  <2>1. /\ Len(chain) = round.start /\ rounds # <<>>
        /\ round' = rounds[Len(rounds)] /\ round' \in Round
        /\ round'.number = Len(rounds)
        /\ rounds' = SubSeq(rounds, 1, Len(rounds) - 1)
    BY <1>7, UndoEffect
  <2>2. Len(rounds) \in DOMAIN rounds
    BY <2>1
  <2>3. /\ round.start = round'.end + 1 /\ round.end = round'.end + BlocksPerRound
        /\ round.start <= round.end /\ round'.end \in Nat /\ BlocksPerRound \in Nat
    BY <2>1, <2>2, RoundFields, RewardsAssumption DEF RecordsOK, Linked, RoundType
  <2>4. r.end \in Nat /\ r.end >= round.end
    BY <1>4, RoundFields DEF DueFromUndone, RoundType
  <2>5. ASSUME NEW p \in due' PROVE p.round < Len(rounds)
    <3>1. p.height <= round'.end
      BY <1>1, <1>3, <2>1, <2>3
    <3>2. ~(p.round >= round.number)
      <4>1. SUFFICES ASSUME p.round >= round.number PROVE FALSE
        OBVIOUS
      <4>2. From(p, r, S)
        BY <1>3, <1>4, <4>1 DEF DueFromUndone
      <4>3. p.height > r.end
        BY <1>3, <4>2, FromAfterEnd
      <4> QED
        BY <1>3, <2>3, <2>4, <3>1, <4>3
    <3>3. p.round # Len(rounds)
      <4>1. SUFFICES ASSUME p.round = Len(rounds) PROVE FALSE
        OBVIOUS
      <4>2. p.round < round.number
        BY <4>1
      <4>3. From(p, round', ListOf(p.round))
        BY <1>3, <2>1, <4>1, <4>2 DEF Known
      <4>4. p.height > round'.end
        BY <1>3, <2>1, <4>3, FromAfterEnd
      <4> QED
        BY <1>3, <2>3, <3>1, <4>4
    <3> QED
      BY <1>3, <3>2, <3>3
  <2>6. ASSUME NEW p \in due' PROVE Known(p)'
    <3>1. p.round \in 1 .. Len(rounds) - 1 /\ p.round < round.number
      BY <1>3, <2>5, <2>6
    <3>2. rounds'[p.round] = rounds[p.round]
      BY <2>1, <2>2, <3>1
    <3> QED
      BY <1>3, <1>5, <2>6, <3>1, <3>2, KnownStays
  <2>7. ASSUME NEW p \in due' PROVE ~(p.round >= round'.number)
    BY <1>3, <2>1, <2>5, <2>7
  <2>8. CASE result = NoResult
    <3>1. DueFromUndone(round, {})' /\ {} \in SUBSET Addr
      BY <1>1, <2>3, <2>7, <2>8 DEF DueFromUndone
    <3> QED
      BY <1>2, <2>1, <2>6, <3>1 DEF AfterEnd
  <2>9. CASE result # NoResult
    <3>1. result.round \in Round /\ result.payouts \in SUBSET Addr
          /\ result.round.number \in Nat /\ result.round.end \in Nat
      BY <2>9 DEF Shape, TypeOK, Result, Round
    <3>2. result.round.number >= Len(rounds)
          /\ (result.round.number = Len(rounds) => result.round = round')
      BY <2>1, <2>9 DEF RecordsOK, ResultOK
    <3>3. result.round.end >= round'.end
      <4>1. CASE result.round.number = Len(rounds)
        BY <2>3, <3>2, <4>1
      <4>2. CASE result.round.number # Len(rounds)
        <5>1. result.round.number >= round.number
          BY <3>1, <3>2, <4>2
        <5>2. r = result.round
          BY <1>4, <2>9, <5>1 DEF DueFromUndone
        <5> QED
          BY <2>3, <2>4, <5>2
      <4> QED
        BY <4>1, <4>2
    <3>4. DueFromUndone(result.round, result.payouts)'
      BY <1>1, <2>7, <3>3 DEF DueFromUndone
    <3>5. result'.round \in Round /\ result'.payouts \in SUBSET Addr
      BY <1>1, <3>1
    <3> QED
      BY <1>2, <2>6, <3>4, <3>5 DEF AfterEnd
  <2> QED
    BY <2>8, <2>9
<1> QED
  BY <1>6, <1>7

\* A write keeps the lists of the finished rounds.
LEMMA ListsKept ==
  ASSUME Shape, RecordsOK, NEW full \in BOOLEAN, SyncCached(full), NEW n \in DOMAIN rounds
  PROVE  ListOf(n)' = ListOf(n)
<1>0. /\ UNCHANGED rounds /\ ~Pending(result')
      /\ db'.results[n] = IF Pending(result) /\ n = Len(rounds)
                          THEN result.results ELSE db.results[n]
  BY SyncEffect
<1>1. ListOf(n)' = Payouts(db'.results[n])
  BY <1>0 DEF ListOf
<1>2. CASE Pending(result) /\ n = Len(rounds)
  <2>1. result.round.number = Len(rounds) /\ result.payouts = Payouts(result.results)
    BY <1>2 DEF Shape, SnapshotsOK, RecordsOK, ResultOK, Pending
  <2> QED
    BY <1>0, <1>1, <1>2, <2>1 DEF ListOf
<1>3. CASE ~(Pending(result) /\ n = Len(rounds))
  <2>1. Pending(result) => result.round.number = Len(rounds)
    BY DEF Shape, SnapshotsOK
  <2> QED
    BY <1>0, <1>1, <1>3, <2>1 DEF ListOf
<1> QED
  BY <1>2, <1>3

LEMMA AfterEndSyncCached ==
  ASSUME Shape, RecordsOK, AfterEnd, NEW full \in BOOLEAN, SyncCached(full)
  PROVE  AfterEnd'
<1> USE AfterEndTypes
<1>1. /\ UNCHANGED <<height, round, rounds, chain, due>> /\ result' = Stored(result)
      /\ ~Pending(result')
      /\ \A n \in DOMAIN rounds :
             db'.results[n] = IF Pending(result) /\ n = Len(rounds)
                              THEN result.results ELSE db.results[n]
  BY SyncEffect
<1>2. ASSUME NEW n \in DOMAIN rounds PROVE ListOf(n)' = ListOf(n)
  BY <1>2, ListsKept
<1>3. ASSUME NEW p \in due' PROVE Known(p)'
  <2>1. p \in due /\ Known(p) /\ p.height <= height /\ p.round >= 1
    BY <1>1, <1>3 DEF AfterEnd, Known
  <2>2. p.round < round.number => p.round \in DOMAIN rounds
    BY <2>1
  <2> QED
    BY <1>1, <1>2, <2>1, <2>2, KnownStays
<1>4. PICK r \in Round, S \in SUBSET Addr : DueFromUndone(r, S)
  BY DEF AfterEnd
<1>5. result' # NoResult =>
          /\ result # NoResult
          /\ result'.round = result.round /\ result'.payouts = result.payouts
  <2>1. result' # NoResult => result # NoResult /\ result \in Result
    BY <1>1 DEF Stored, Shape, TypeOK
  <2> QED
    BY <1>1, <2>1, StoredFields
<1>6. DueFromUndone(r, S)'
  BY <1>1, <1>4, <1>5 DEF DueFromUndone
<1> QED
  BY <1>1, <1>3, <1>6 DEF AfterEnd

LEMMA AfterEndRestart ==
  ASSUME Shape, RecordsOK, AfterEnd, Restart, CleanShutdown
  PROVE  AfterEnd'
<1> USE AfterEndTypes
<1>1. /\ db.height = height /\ db.round = round /\ onDisk.chain = chain
      /\ onDisk.due = due /\ ~NeedsSync /\ rounds = db.rounds
  BY DEF CleanShutdown, RecordsOK
<1>2. /\ UNCHANGED <<height, round, rounds, chain, due, db>> /\ ~NeedsSync'
      /\ result' # NoResult => result'.round.number = Len(rounds)
  BY <1>1, RestartEffect
<1>3. ASSUME NEW n PROVE ListOf(n)' = ListOf(n)
  BY <1>1, <1>2 DEF ListOf, NeedsSync
<1>4. ASSUME NEW p \in due' PROVE Known(p)'
  BY <1>2, <1>3, <1>4 DEF AfterEnd, Known
<1>5. PICK r \in Round, S \in SUBSET Addr : DueFromUndone(r, S)
  BY DEF AfterEnd
<1>6. result' # NoResult => ~(result'.round.number >= round.number)
  BY <1>2
<1>7. DueFromUndone(r, S)'
  BY <1>2, <1>5, <1>6 DEF DueFromUndone
<1> QED
  BY <1>2, <1>4, <1>7 DEF AfterEnd

\* What else a step may do.
LEMMA Quiet ==
  ASSUME [Next]_vars
  PROVE  \/ UNCHANGED <<recordVars, height, chain, due>>
         \/ CommitBlock \/ CommitBlockRefused
         \/ CommitUndoBlock
         \/ \E full \in BOOLEAN : SyncCached(full)
         \/ Restart
<1>1. ASSUME NEW b \in Blocks, ConnectTip(b) PROVE UNCHANGED <<recordVars, height, chain, due>>
  BY <1>1 DEF ConnectTip, recordVars, cacheVars, diskVars, chainVars
<1>2. ProcessInput \/ ProcessOutput \/ UndoInput \/ UndoOutput =>
          UNCHANGED <<recordVars, height, chain, due>>
  BY DEF ProcessInput, ProcessOutput, UndoInput, UndoOutput, recordVars, diskVars, chainVars
<1>3. RejectBlock \/ DisconnectTip \/ CommitUndoBlockRefused \/ FlushCoins =>
          UNCHANGED <<recordVars, height, chain, due>>
  BY DEF RejectBlock, DisconnectTip, CommitUndoBlockRefused, FlushCoins, recordVars, cacheVars,
     diskVars, chainVars
<1>4. UNCHANGED vars => UNCHANGED <<recordVars, height, chain, due>>
  BY DEF vars, recordVars, cacheVars, diskVars, chainVars
<1> QED
  BY <1>1, <1>2, <1>3, <1>4 DEF Next

LEMMA DueAfterEndInit == Init => DueAfterEnd
<1> SUFFICES ASSUME Init PROVE AfterEnd
  BY DueAfterEndParts
<1>1. due = {} /\ height = 0 /\ chain = <<>> /\ result = NoResult /\ round \in Round
  BY ShapeInit DEF Init, Shape, TypeOK
<1>2. DueFromUndone(round, {}) /\ {} \in SUBSET Addr
  BY <1>1, RoundFields DEF DueFromUndone, RoundType
<1> QED
  BY <1>1, <1>2 DEF AfterEnd

LEMMA DueAfterEndNext ==
  ASSUME Shape, RecordsOK, DueAfterEnd, [Next]_vars
  PROVE  DueAfterEnd'
<1> SUFFICES ASSUME "crash" \notin happened' PROVE AfterEnd'
  BY DEF DueAfterEnd, AfterEnd, Known
<1>1. AfterEnd
  BY HappenedGrows, DueAfterEndParts
<1>2. CASE UNCHANGED <<recordVars, height, chain, due>>
  <2>1. ASSUME NEW n PROVE ListOf(n)' = ListOf(n)
    BY <1>2 DEF ListOf, Pending, recordVars
  <2>2. ASSUME NEW p \in due' PROVE Known(p)'
    BY <1>1, <1>2, <2>1, <2>2 DEF AfterEnd, Known, recordVars
  <2>3. PICK r \in Round, S \in SUBSET Addr : DueFromUndone(r, S)
    BY <1>1 DEF AfterEnd
  <2>4. DueFromUndone(r, S)'
    BY <1>2, <2>3 DEF DueFromUndone, recordVars
  <2> QED
    BY <1>1, <1>2, <2>2, <2>4 DEF AfterEnd
<1>3. ~CommitBlockRefused
  BY <1>1 DEF CommitBlockRefused, AfterEnd, NextHeight
<1>4. Restart => CleanShutdown
  BY DEF Restart, Fault, Count
<1> QED
  BY <1>1, <1>2, <1>3, <1>4, Quiet, AfterEndMidRound, AfterEndRoundEnd,
     AfterEndCommitUndoBlock, AfterEndSyncCached, AfterEndRestart

\* Two payments for a round from the same list are one.
LEMMA DueOnce ==
  ASSUME NEW p, NEW q, p.height \in Nat, q.height \in Nat, p.addr = q.addr,
         NEW r \in Round, NEW S, From(p, r, S), From(q, r, S)
  PROVE  p.height = q.height
  BY SlicesDisjoint DEF From

LEMMA DueInvSuffices ==
  ASSUME Shape, DueInv
  PROVE  NobodyDueTwice
<1> SUFFICES ASSUME ~({"crossing", "crash"} \subseteq happened),
                    NEW p \in due, NEW q \in due, p.round = q.round, p.addr = q.addr
             PROVE  p.height = q.height
  BY DEF NobodyDueTwice
<1>1. p.height \in Nat /\ q.height \in Nat /\ p.round \in Nat
  BY AfterEndTypes
<1>2. CASE "crossing" \notin happened
  <2>1. AllStored
    BY <1>2, DueFromDatabaseParts DEF DueInv
  <2>2. /\ p.round \in DOMAIN db.rounds
        /\ From(p, db.rounds[p.round], Payouts(db.results[p.round]))
        /\ From(q, db.rounds[p.round], Payouts(db.results[p.round]))
    BY <2>1 DEF AllStored
  <2>3. db.rounds[p.round] \in Round
    BY <2>2 DEF Shape, TypeOK, Database
  <2> QED
    BY <1>1, <2>2, <2>3, DueOnce
<1>3. CASE "crash" \notin happened
  <2>1. AfterEnd
    BY <1>3, DueAfterEndParts DEF DueInv
  <2>2. CASE p.round < round.number
    <3>1. /\ From(p, rounds[p.round], ListOf(p.round))
          /\ From(q, rounds[p.round], ListOf(p.round)) /\ p.round >= 1
      BY <2>1, <2>2 DEF AfterEnd, Known
    <3>2. rounds[p.round] \in Round
      BY <1>1, <2>2, <3>1, AfterEndTypes
    <3> QED
      BY <1>1, <3>1, <3>2, DueOnce
  <2>3. CASE ~(p.round < round.number)
    <3>1. p.round >= round.number
      BY <1>1, <2>3, AfterEndTypes
    <3>2. PICK r \in Round, S \in SUBSET Addr : DueFromUndone(r, S)
      BY <2>1 DEF AfterEnd
    <3>3. From(p, r, S) /\ From(q, r, S)
      BY <3>1, <3>2 DEF DueFromUndone
    <3> QED
      BY <1>1, <3>3, DueOnce
  <2> QED
    BY <2>2, <2>3
<1> QED
  BY <1>2, <1>3

(***************************************************************************)
(* Nobody is due twice for a round on one chain: GetPaymentsForBlock cuts  *)
(* disjoint slices for different heights, and a list changes under them    *)
(* neither when blocks are undone or rejected nor in a crash, unless a     *)
(* crash follows the undoing of the end of a round.  So coinbases filled   *)
(* by FillPayments pay nobody twice.                                       *)
(***************************************************************************)
THEOREM DueAtMostOnce == Spec => []NobodyDueTwice
<1>1. Init => Shape /\ DueInv
  BY ShapeInit, RecordsInit, DueFromDatabaseInit, DueAfterEndInit DEF DueInv
<1>2. (Shape /\ DueInv) /\ [Next]_vars => (Shape /\ DueInv)'
  BY ShapeNext, RecordsNext, DueFromDatabaseNext, DueAfterEndNext DEF DueInv
<1>3. Shape /\ DueInv => NobodyDueTwice
  BY DueInvSuffices
<1> QED
  BY <1>1, <1>2, <1>3, PTL DEF Spec

-----------------------------------------------------------------------------
(* The counters of a round agree with the entries *)

\* An entry that takes part loses its activation only with a mark.
Marked(e) ==
    e.enrolled => \/ e.activationTx # NoTx
                  \/ e.disqualifyingTx # NoTx
                  \/ e.smartnodePaymentTx # NoTx

\* The output of an activation follows its input.
Paired(todo) ==
    \A i \in DOMAIN todo :
        todo[i].type = "in" /\ todo[i].tx \in Activations =>
            /\ i + 1 \in DOMAIN todo
            /\ todo[i + 1].type = "out" /\ todo[i + 1].tx \in Activations
            /\ todo[i + 1].addr = todo[i].addr /\ ~todo[i + 1].locked

\* The next step gives a back what its activation has spent.
Refills(a) ==
    /\ job.kind = "connect" /\ job.todo # <<>>
    /\ Head(job.todo).type = "out" /\ Head(job.todo).tx \in Activations
    /\ Head(job.todo).addr = a /\ ~Head(job.todo).locked

EntriesOK ==
    /\ \A a \in Addr : Found(a) # NoEntry => Marked(Found(a))
    /\ \A a \in Payouts(AllEntries) : Found(a).balance > 0 \/ Refills(a)

\* What the block under way has counted.
Counted == IF job.kind = "connect" THEN job.qualified - job.disqualified ELSE 0

\* The list is as long as the counters say.
Exact(r, S) == PayeeCount(r) = Cardinality(S)

Counters ==
    /\ job.kind # "disconnect"
    /\ job.kind = "connect" => Paired(job.todo)
    /\ PayeeCount(round) + Counted = Cardinality(Payouts(AllEntries))
    /\ result # NoResult => Exact(result.round, result.payouts)
    /\ \A n \in DOMAIN db.rounds : Exact(db.rounds[n], Payouts(db.results[n]))

CountersOK == happened = {} => EntriesOK /\ Counters

\* Spending and receiving end an eligibility exactly when they count it.
LEMMA SpentEligible ==
  ASSUME NEW e \in Entry, NEW s \in Step, Marked(e)
  PROVE  /\ IsEligible(Spent(e, s)) <=> IsEligible(e) /\ s.tx \in Activations
         /\ SpendDisqualifies(e, s) <=> IsEligible(e) /\ s.tx \notin Activations
         /\ Marked(Spent(e, s))
<1>1. s.tx # NoTx
  BY RewardsAssumption DEF Step
<1> DEFINE f == Spent(e, s)
<1>2. /\ f.activationTx = IF s.tx \notin Activations THEN NoTx
                          ELSE IF e.activationTx = NoTx THEN s.tx ELSE e.activationTx
      /\ f.disqualifyingTx = IF s.tx \notin Activations /\ e.disqualifyingTx = NoTx
                             THEN s.tx ELSE e.disqualifyingTx
      /\ f.enrolled = e.enrolled /\ f.smartnodePaymentTx = e.smartnodePaymentTx
  BY DEF Spent, Entry
<1> HIDE DEF f
<1>3. IsEligible(f) <=> IsEligible(e) /\ s.tx \in Activations
  BY <1>1, <1>2 DEF IsEligible, Marked
<1>4. Marked(f)
  BY <1>1, <1>2 DEF Marked
<1> QED
  BY <1>3, <1>4 DEF SpendDisqualifies, f

LEMMA ReceivedEligible ==
  ASSUME NEW e \in Entry, NEW s \in Step, Marked(e)
  PROVE  /\ IsEligible(Received(e, s)) <=> IsEligible(e) /\ ~PaysNode(e, s)
         /\ OutputDisqualifies(e, s) <=> IsEligible(e) /\ PaysNode(e, s)
         /\ ~OutputQualifies(e, s)
         /\ Marked(Received(e, s))
         /\ Received(e, s).balance = IF s.tx \in Coinbases \/ s.locked THEN e.balance
                                     ELSE e.balance + s.value
<1>1. s.tx # NoTx
  BY RewardsAssumption DEF Step
<1>2. s.tx \in Activations => s.tx \notin Coinbases
  BY RewardsAssumption
<1> DEFINE f == Received(e, s)
<1>3. /\ f.activationTx = IF Activates(e, s) THEN s.tx
                          ELSE IF PaysNode(e, s) /\ IsEligible(e) THEN NoTx
                          ELSE e.activationTx
      /\ f.smartnodePaymentTx = IF PaysNode(e, s) THEN s.tx ELSE e.smartnodePaymentTx
      /\ f.enrolled = e.enrolled /\ f.disqualifyingTx = e.disqualifyingTx
      /\ f.balance = IF s.tx \in Coinbases \/ s.locked THEN e.balance ELSE e.balance + s.value
  BY DEF Received, Entry
<1> HIDE DEF f
<1>4. IsEligible(f) <=> IsEligible(e) /\ ~PaysNode(e, s)
  BY <1>1, <1>2, <1>3 DEF IsEligible, Marked, Activates, PaysNode
<1>5. Marked(f)
  BY <1>1, <1>2, <1>3 DEF IsEligible, Marked, Activates, PaysNode
<1>6. ~OutputQualifies(e, s)
  <2> DEFINE g == [e EXCEPT !.activationTx = s.tx]
  <2>1. /\ g.smartnodePaymentTx = e.smartnodePaymentTx /\ g.enrolled = e.enrolled
        /\ g.disqualifyingTx = e.disqualifyingTx
    BY DEF Entry
  <2> HIDE DEF g
  <2>2. Activates(e, s) => ~IsEligible(g)
    BY <2>1 DEF Activates, Marked, IsEligible
  <2> QED
    BY <2>2 DEF OutputQualifies, g
<1> QED
  BY <1>3, <1>4, <1>5, <1>6 DEF OutputDisqualifies, f

\* The eligible entries when the entry of a becomes f.
LEMMA OneEntryChanges ==
  ASSUME TypeOK, NEW a \in Addr, NEW f \in Entry, cache' = [cache EXCEPT ![a] = f], db' = db
  PROVE  /\ Found(a)' = f
         /\ \A b \in Addr \ {a} : Found(b)' = Found(b)
         /\ Payouts(AllEntries)' =
                IF IsEligible(f) THEN Payouts(AllEntries) \cup {a} ELSE Payouts(AllEntries) \ {a}
         /\ Cardinality(Payouts(AllEntries)) \in Nat
         /\ Cardinality(Payouts(AllEntries)') =
                Cardinality(Payouts(AllEntries)) + One(IsEligible(f))
                    - One(a \in Payouts(AllEntries))
<1> DEFINE P == Payouts(AllEntries)
<1>1. cache \in [Addr -> Entry \cup {NoEntry}] /\ f # NoEntry
  BY SentinelAssumption DEF TypeOK, Entries
<1>2. cache'[a] = f /\ \A b \in Addr \ {a} : cache'[b] = cache[b]
  BY <1>1
<1>3. Found(a)' = f /\ \A b \in Addr \ {a} : Found(b)' = Found(b)
  BY <1>1, <1>2 DEF Found
<1>4. \A b \in Addr : AllEntries[b] = Found(b) /\ AllEntries'[b] = Found(b)'
  BY DEF AllEntries
<1>5. P' = IF IsEligible(f) THEN P \cup {a} ELSE P \ {a}
  <2>1. a \in P' <=> IsEligible(f)
    BY <1>1, <1>3, <1>4 DEF Payouts
  <2>2. \A b \in Addr \ {a} : b \in P' <=> b \in P
    BY <1>3, <1>4 DEF Payouts
  <2>3. P \subseteq Addr /\ P' \subseteq Addr
    BY DEF Payouts
  <2> QED
    BY <2>1, <2>2, <2>3
<1>6. IsFiniteSet(P) /\ Cardinality(P) \in Nat
  BY RewardsAssumption, FS_Subset, FS_CardinalityType DEF Payouts
<1> HIDE DEF P
<1>7. Cardinality(P') = Cardinality(P) + One(IsEligible(f)) - One(a \in P)
  <2>1. Cardinality(P \cup {a}) = IF a \in P THEN Cardinality(P) ELSE Cardinality(P) + 1
    BY <1>6, FS_AddElement
  <2>2. Cardinality(P \ {a}) = IF a \in P THEN Cardinality(P) - 1 ELSE Cardinality(P)
    BY <1>6, FS_RemoveElement
  <2> QED
    BY <1>5, <1>6, <2>1, <2>2 DEF One
<1> QED
  BY <1>3, <1>5, <1>6, <1>7 DEF P

LEMMA PairedTail ==
  ASSUME NEW todo \in Seq(Step), todo # <<>>, Paired(todo)
  PROVE  Paired(Tail(todo))
<1>1. /\ Len(todo) \in Nat \ {0} /\ DOMAIN todo = 1 .. Len(todo)
      /\ DOMAIN Tail(todo) = 1 .. Len(todo) - 1
      /\ \A i \in 1 .. Len(todo) - 1 : Tail(todo)[i] = todo[i + 1]
  OBVIOUS
<1>2. ASSUME NEW i \in DOMAIN Tail(todo), Tail(todo)[i].type = "in",
             Tail(todo)[i].tx \in Activations
      PROVE  /\ i + 1 \in DOMAIN Tail(todo)
             /\ Tail(todo)[i + 1].type = "out" /\ Tail(todo)[i + 1].tx \in Activations
             /\ Tail(todo)[i + 1].addr = Tail(todo)[i].addr /\ ~Tail(todo)[i + 1].locked
  <2>1. i + 1 \in DOMAIN todo /\ Tail(todo)[i] = todo[i + 1]
    BY <1>1
  <2>2. i + 1 + 1 \in DOMAIN todo
        /\ todo[i + 1 + 1].type = "out" /\ todo[i + 1 + 1].tx \in Activations
        /\ todo[i + 1 + 1].addr = todo[i + 1].addr /\ ~todo[i + 1 + 1].locked
    BY <1>2, <2>1 DEF Paired
  <2>3. i + 1 \in DOMAIN Tail(todo) /\ Tail(todo)[i + 1] = todo[i + 1 + 1]
    BY <1>1, <2>2
  <2> QED
    BY <2>1, <2>2, <2>3
<1> QED
  BY <1>2 DEF Paired

\* The head of the work, when it is the input of an activation, and what follows.
LEMMA PairedHead ==
  ASSUME NEW todo \in Seq(Step), todo # <<>>, Paired(todo),
         Head(todo).type = "in", Head(todo).tx \in Activations
  PROVE  /\ Tail(todo) # <<>>
         /\ Head(Tail(todo)).type = "out" /\ Head(Tail(todo)).tx \in Activations
         /\ Head(Tail(todo)).addr = Head(todo).addr /\ ~Head(Tail(todo)).locked
<1>1. Len(todo) \in Nat /\ Len(todo) # 0 /\ DOMAIN todo = 1 .. Len(todo) /\ Head(todo) = todo[1]
  OBVIOUS
<1>2. 1 \in DOMAIN todo
  BY <1>1
<1>3. /\ 1 + 1 \in DOMAIN todo
      /\ todo[1 + 1].type = "out" /\ todo[1 + 1].tx \in Activations
      /\ todo[1 + 1].addr = todo[1].addr /\ ~todo[1 + 1].locked
  BY <1>1, <1>2 DEF Paired
<1>4. Len(todo) >= 2
  BY <1>1, <1>3
<1>5. Tail(todo) # <<>> /\ Head(Tail(todo)) = todo[1 + 1]
  <2>1. Tail(todo) \in Seq(Step) /\ Len(Tail(todo)) = Len(todo) - 1
    BY <1>1
  <2>2. Len(Tail(todo)) >= 1 /\ 1 \in 1 .. Len(todo) - 1
    BY <1>1, <1>4, <2>1
  <2>3. Tail(todo)[1] = todo[1 + 1]
    BY <1>1, <2>2
  <2>4. Tail(todo) # <<>>
    <3>1. ASSUME NEW x \in Seq(Step), Len(x) >= 1 PROVE x # <<>>
      BY <3>1
    <3> QED
      BY <2>1, <2>2, <3>1
  <2> QED
    BY <2>1, <2>3, <2>4
<1> QED
  BY <1>1, <1>3, <1>5

LEMMA PairedTransaction ==
  ASSUME NEW t \in Txs
  PROVE  Paired(Steps[t])
<1>1. Steps[t] \in Seq(Step) /\ \A i \in DOMAIN Steps[t] : Steps[t][i].tx = t
  BY RewardsAssumption
<1>2. ASSUME NEW i \in DOMAIN Steps[t], Steps[t][i].type = "in", Steps[t][i].tx \in Activations
      PROVE  /\ i + 1 \in DOMAIN Steps[t]
             /\ Steps[t][i + 1].type = "out" /\ Steps[t][i + 1].tx \in Activations
             /\ Steps[t][i + 1].addr = Steps[t][i].addr /\ ~Steps[t][i + 1].locked
  <2>1. t \in Activations
    BY <1>1, <1>2
  <2>2. /\ Len(Steps[t]) = 2 /\ Steps[t][2].type = "out"
        /\ Steps[t][1].addr = Steps[t][2].addr /\ ~Steps[t][2].locked
    BY <2>1, ActivationAssumption
  <2>3. DOMAIN Steps[t] = 1 .. 2
    BY <1>1, <2>2
  <2>4. i = 1 /\ i + 1 = 2 /\ 2 \in DOMAIN Steps[t]
    BY <1>2, <2>2, <2>3
  <2> QED
    BY <1>1, <2>1, <2>2, <2>4
<1> QED
  BY <1>2 DEF Paired

LEMMA PairedBlock ==
  ASSUME NEW h \in Nat, NEW b \in Block
  PROVE  Paired(BlockSteps(h, b))
<1> DEFINE c == CoinbaseSteps(h, b.payee)
           q == IF b.tx = NoTx THEN <<>> ELSE Steps[b.tx]
           k == Len(c)
<1>1. c \in Seq(Step) /\ (\A i \in DOMAIN c : c[i].type = "out")
  <2>1. CASE b.payee = NoAddr
    BY <2>1 DEF CoinbaseSteps
  <2>2. CASE b.payee # NoAddr
    <3> DEFINE x == [type |-> "out", tx |-> [height |-> h, payee |-> b.payee],
                     addr |-> b.payee, value |-> CoinbaseValue, locked |-> FALSE]
    <3>1. c = <<x>> /\ x.type = "out"
      BY <2>2 DEF CoinbaseSteps
    <3>2. x \in Step
      BY <2>2, RewardsAssumption DEF Block, Step, TxIds, Coinbases
    <3> HIDE DEF x, c
    <3> QED
      BY <3>1, <3>2
  <2> QED
    BY <2>1, <2>2
<1>2. q \in Seq(Step) /\ Paired(q)
  <2>1. CASE b.tx = NoTx
    BY <2>1 DEF Paired
  <2>2. CASE b.tx # NoTx
    BY <2>2, RewardsAssumption, PairedTransaction DEF Block
  <2> QED
    BY <2>1, <2>2
<1>3. BlockSteps(h, b) = c \o q
  BY DEF BlockSteps
<1> HIDE DEF c, q
<1> DEFINE w == c \o q
<1>4. /\ k \in Nat /\ Len(q) \in Nat /\ DOMAIN w = 1 .. k + Len(q)
      /\ DOMAIN c = 1 .. k /\ DOMAIN q = 1 .. Len(q)
  BY <1>1, <1>2
<1>5. /\ \A i \in 1 .. k : w[i] = c[i]
      /\ \A i \in 1 .. Len(q) : w[k + i] = q[i]
  BY <1>1, <1>2
<1> HIDE DEF w, k
<1>6. ASSUME NEW i \in DOMAIN w, w[i].type = "in", w[i].tx \in Activations
      PROVE  /\ i + 1 \in DOMAIN w
             /\ w[i + 1].type = "out" /\ w[i + 1].tx \in Activations
             /\ w[i + 1].addr = w[i].addr /\ ~w[i + 1].locked
  <2>1. i \notin 1 .. k
    BY <1>1, <1>4, <1>5, <1>6
  <2> DEFINE j == i - k
  <2>2. j \in DOMAIN q /\ i = k + j /\ i + 1 = k + (j + 1)
    BY <1>4, <2>1
  <2>3. w[i] = q[j]
    BY <1>4, <1>5, <2>2
  <2>4. /\ j + 1 \in DOMAIN q
        /\ q[j + 1].type = "out" /\ q[j + 1].tx \in Activations
        /\ q[j + 1].addr = q[j].addr /\ ~q[j + 1].locked
    BY <1>2, <1>6, <2>2, <2>3 DEF Paired
  <2>5. w[i + 1] = q[j + 1] /\ i + 1 \in DOMAIN w
    BY <1>4, <1>5, <2>2, <2>4
  <2> QED
    BY <2>3, <2>4, <2>5
<1> QED
  BY <1>3, <1>6 DEF Paired, w

\* A block that is begun: nothing is counted yet.
LEMMA CountersConnectTip ==
  ASSUME Shape, EntriesOK, Counters, NEW b \in Blocks, ConnectTip(b)
  PROVE  EntriesOK' /\ Counters'
<1>1. b \in Block /\ Len(chain) + 1 \in Nat
  BY RewardsAssumption DEF Shape, TypeOK
<1>2. /\ job'.kind = "connect" /\ job'.qualified = 0 /\ job'.disqualified = 0
      /\ job'.todo = BlockSteps(Len(chain) + 1, b) /\ job.kind = "idle"
      /\ UNCHANGED <<cache, round, result, db>>
  BY DEF ConnectTip, Work, Ready, Idle, cacheVars, diskVars
<1>3. \A a \in Addr : Found(a)' = Found(a)
  BY <1>2 DEF Found
<1>4. AllEntries' = AllEntries /\ Payouts(AllEntries) \subseteq Addr
  BY <1>2 DEF AllEntries, Found, Payouts
<1>5. EntriesOK'
  BY <1>2, <1>3, <1>4 DEF EntriesOK, Refills
<1>6. Paired(job'.todo)
  BY <1>1, <1>2, PairedBlock
<1> QED
  BY <1>2, <1>4, <1>5, <1>6 DEF Counters, Counted

LEMMA StepCounted ==
  ASSUME Shape, Counters, job.kind = "connect", job.todo # <<>>,
         NEW d \in Nat, NEW q \in Nat, NEW v \in Int, StepDone(d, q, v)
  PROVE  /\ Counted \in Int /\ Counted' = Counted + q - d
         /\ job'.kind = "connect" /\ job'.todo = Tail(job.todo) /\ Paired(job'.todo)
<1>1. TypeOK
  BY DEF Shape
<1>2. /\ job'.kind = "connect" /\ job'.todo = Tail(job.todo)
      /\ job'.disqualified = job.disqualified + d /\ job'.qualified = job.qualified + q
  BY <1>1, StepDoneType
<1>3. job.disqualified \in Nat /\ job.qualified \in Nat /\ job.todo \in Seq(Step)
  BY <1>1, JobType
<1>4. Paired(job'.todo)
  BY <1>2, <1>3, PairedTail DEF Counters
<1> QED
  BY <1>2, <1>3, <1>4 DEF Counted

LEMMA CountersProcessInput ==
  ASSUME Shape, EntriesOK, Counters, ProcessInput
  PROVE  EntriesOK' /\ Counters'
<1>0. /\ TypeOK /\ job.kind = "connect" /\ job.todo # <<>> /\ Head(job.todo).type = "in"
      /\ UNCHANGED <<round, result, db>>
  BY DEF Shape, ProcessInput, At, diskVars
<1>s. PICK s \in Step : s = Head(job.todo)
  BY <1>0, HeadType
<1>a. PICK a \in Addr : a = s.addr
  BY <1>0, <1>s, HeadType
<1> DEFINE e == Found(a)
           P == Payouts(AllEntries)
<1>1. /\ TypeOK /\ job.kind = "connect" /\ job.todo # <<>> /\ s.type = "in"
      /\ UNCHANGED <<round, result, db>>
  BY <1>0, <1>s
<1>2. s = Head(job.todo) /\ a = s.addr /\ -s.value \in Int /\ job.todo \in Seq(Step)
  BY <1>0, <1>s, <1>a, HeadType, JobType
<1>3. PayeeCount(round) \in Int
  BY <1>1, RoundFields DEF TypeOK, RoundType
<1>4. \A b \in P : Found(b).balance > 0
  BY <1>1, <1>2 DEF EntriesOK, Refills
<1>5. CASE e = NoEntry
  <2>1. StepDone(0, 0, -s.value) /\ UNCHANGED cache
    BY <1>2, <1>5 DEF ProcessInput
  <2>2. Counted \in Int /\ Counted' = Counted + 0 - 0 /\ job'.kind = "connect" /\ Paired(job'.todo)
    BY <1>1, <1>2, <2>1, StepCounted
  <2>3. (\A b \in Addr : Found(b)' = Found(b)) /\ AllEntries' = AllEntries /\ P \subseteq Addr
    BY <1>1, <2>1 DEF Found, AllEntries, Payouts
  <2>4. EntriesOK'
    BY <1>4, <2>3 DEF EntriesOK
  <2>5. Counters'
    BY <1>1, <1>3, <2>2, <2>3 DEF Counters
  <2> QED
    BY <2>4, <2>5
<1>6. CASE e # NoEntry
  <2> DEFINE f == Spent(e, s)
             d == One(SpendDisqualifies(e, s))
  <2>1. StepDone(d, 0, -s.value) /\ cache' = [cache EXCEPT ![a] = f]
    BY <1>2, <1>6 DEF ProcessInput
  <2>2. e \in Entry /\ f \in Entry /\ Marked(e) /\ d \in Nat
    BY <1>1, <1>2, <1>6, FoundType, EntryOperations DEF EntriesOK, One
  <2>3. /\ IsEligible(f) <=> IsEligible(e) /\ s.tx \in Activations
        /\ SpendDisqualifies(e, s) <=> IsEligible(e) /\ s.tx \notin Activations
        /\ Marked(f)
    BY <1>2, <2>2, SpentEligible
  <2>4. a \in P <=> IsEligible(e)
    BY <1>2, <1>6 DEF Payouts, AllEntries
  <2>5. /\ Found(a)' = f /\ (\A b \in Addr \ {a} : Found(b)' = Found(b))
        /\ P' = (IF IsEligible(f) THEN P \cup {a} ELSE P \ {a})
        /\ Cardinality(P) \in Nat
        /\ Cardinality(P') = Cardinality(P) + One(IsEligible(f)) - One(a \in P)
    BY <1>1, <1>2, <2>1, <2>2, OneEntryChanges
  <2>6. /\ Counted \in Int /\ Counted' = Counted + 0 - d /\ job'.kind = "connect"
        /\ job'.todo = Tail(job.todo) /\ Paired(job'.todo)
    BY <1>1, <1>2, <2>1, <2>2, StepCounted
  <2>7. One(IsEligible(f)) - One(a \in P) = 0 - d
    BY <2>3, <2>4 DEF One
  <2>8. P \subseteq Addr
    BY DEF Payouts
  <2> HIDE DEF f, P, d
  <2>9. Counters'
    <3>1. One(IsEligible(f)) \in Nat /\ One(a \in P) \in Nat
      BY DEF One
    <3>2. PayeeCount(round)' + Counted' = Cardinality(P')
      BY <1>1, <1>3, <2>2, <2>5, <2>6, <2>7, <3>1 DEF Counters, P
    <3> QED
      BY <1>1, <2>6, <3>2 DEF Counters, P
  <2>10. ASSUME NEW b \in P' PROVE Found(b)'.balance > 0 \/ Refills(b)'
    <3>1. CASE b # a
      <4>1. b \in P /\ b \in Addr \ {a}
        BY <2>5, <2>8, <2>10, <3>1
      <4> QED
        BY <1>4, <2>5, <4>1
    <3>2. CASE b = a
      <4>1. s.tx \in Activations
        BY <2>3, <2>5, <2>10, <3>2
      <4>2. /\ Tail(job.todo) # <<>>
            /\ Head(Tail(job.todo)).type = "out" /\ Head(Tail(job.todo)).tx \in Activations
            /\ Head(Tail(job.todo)).addr = a /\ ~Head(Tail(job.todo)).locked
        BY <1>1, <1>2, <4>1, PairedHead DEF Counters
      <4> QED
        BY <2>6, <3>2, <4>2 DEF Refills
    <3> QED
      BY <3>1, <3>2
  <2>11. ASSUME NEW b \in Addr, Found(b)' # NoEntry PROVE Marked(Found(b)')
    <3>1. CASE b = a
      BY <2>3, <2>5, <3>1
    <3>2. CASE b # a
      BY <2>5, <2>11, <3>2 DEF EntriesOK
    <3> QED
      BY <3>1, <3>2
  <2>12. EntriesOK'
    BY <2>10, <2>11 DEF EntriesOK, P
  <2> QED
    BY <2>9, <2>12
<1> QED
  BY <1>5, <1>6

LEMMA CountersProcessOutput ==
  ASSUME Shape, EntriesOK, Counters, ProcessOutput
  PROVE  EntriesOK' /\ Counters'
<1>0. /\ TypeOK /\ job.kind = "connect" /\ job.todo # <<>> /\ Head(job.todo).type = "out"
      /\ UNCHANGED <<round, result, db>>
  BY DEF Shape, ProcessOutput, At, diskVars
<1>s. PICK s \in Step : s = Head(job.todo)
  BY <1>0, HeadType
<1>a. PICK a \in Addr : a = s.addr
  BY <1>0, <1>s, HeadType
<1> DEFINE e == GetRewardEntry(a)
           P == Payouts(AllEntries)
           f == Received(e, s)
           d == One(OutputDisqualifies(e, s))
           q == One(OutputQualifies(e, s))
<1>1. StepDone(d, q, s.value) /\ cache' = [cache EXCEPT ![a] = f]
  BY <1>s, <1>a DEF ProcessOutput
<1>2. PayeeCount(round) \in Int /\ s.value \in Nat \ {0}
  BY <1>0, RoundFields DEF TypeOK, RoundType, Step
<1>3. e \in Entry /\ f \in Entry /\ Marked(e) /\ d \in Nat /\ q \in Nat
  <2>1. e \in Entry /\ f \in Entry
    BY <1>0, FoundType, EntryOperations
  <2>2. Marked(e)
    BY DEF GetRewardEntry, EntriesOK, Marked, NewEntry
  <2> QED
    BY <2>1, <2>2 DEF One
<1>4. /\ IsEligible(f) <=> IsEligible(e) /\ ~PaysNode(e, s)
      /\ OutputDisqualifies(e, s) <=> IsEligible(e) /\ PaysNode(e, s)
      /\ ~OutputQualifies(e, s)
      /\ Marked(f)
      /\ f.balance = IF s.tx \in Coinbases \/ s.locked THEN e.balance ELSE e.balance + s.value
  BY <1>3, ReceivedEligible
<1>5. /\ a \in P <=> IsEligible(e)
      /\ a \in P => e = Found(a)
  <2>1. CASE Found(a) # NoEntry
    BY <2>1 DEF GetRewardEntry, Payouts, AllEntries
  <2>2. CASE Found(a) = NoEntry
    BY <2>2 DEF GetRewardEntry, Payouts, AllEntries, NewEntry, IsEligible
  <2> QED
    BY <2>1, <2>2
<1>6. /\ Found(a)' = f /\ (\A b \in Addr \ {a} : Found(b)' = Found(b))
      /\ P' = (IF IsEligible(f) THEN P \cup {a} ELSE P \ {a})
      /\ Cardinality(P) \in Nat
      /\ Cardinality(P') = Cardinality(P) + One(IsEligible(f)) - One(a \in P)
  BY <1>0, <1>1, <1>3, OneEntryChanges
<1>7. /\ Counted \in Int /\ Counted' = Counted + q - d /\ job'.kind = "connect"
      /\ Paired(job'.todo)
  <2>1. s.value \in Int
    BY <1>2
  <2> QED
    BY <1>0, <1>1, <1>3, <2>1, StepCounted
<1>8. One(IsEligible(f)) - One(a \in P) = q - d
  BY <1>4, <1>5 DEF One
<1>9. P \subseteq Addr /\ e.balance \in Nat
  BY <1>3 DEF Payouts, Entry
<1> HIDE DEF f, P, d, q, e
<1>10. Counters'
  <2>1. One(IsEligible(f)) \in Nat /\ One(a \in P) \in Nat
    BY DEF One
  <2>2. PayeeCount(round)' + Counted' = Cardinality(P')
    BY <1>0, <1>2, <1>3, <1>6, <1>7, <1>8, <2>1 DEF Counters, P
  <2> QED
    BY <1>0, <1>7, <2>2 DEF Counters, P
<1>11. ASSUME NEW b \in P' PROVE Found(b)'.balance > 0
  <2>1. b \in P
    BY <1>4, <1>5, <1>6, <1>11
  <2>2. CASE b # a
    <3>1. ~Refills(b) /\ b \in Addr \ {a}
      BY <1>s, <1>a, <1>9, <2>1, <2>2 DEF Refills
    <3>2. Found(b)' = Found(b) /\ Found(b).balance > 0
      BY <1>6, <2>1, <3>1 DEF EntriesOK, P
    <3> QED
      BY <3>2
  <2>3. CASE b = a
    <3>1. e.balance > 0 \/ Refills(a)
      BY <1>5, <2>1, <2>3 DEF EntriesOK, P
    <3>2. Refills(a) => ~s.locked /\ s.tx \notin Coinbases
      BY <1>s, RewardsAssumption DEF Refills
    <3>3. f.balance > 0
      BY <1>2, <1>4, <1>9, <3>1, <3>2
    <3> QED
      BY <1>6, <2>3, <3>3
  <2> QED
    BY <2>2, <2>3
<1>12. ASSUME NEW b \in Addr, Found(b)' # NoEntry PROVE Marked(Found(b)')
  <2>1. CASE b = a
    BY <1>4, <1>6, <2>1
  <2>2. CASE b # a
    <3>1. Found(b)' = Found(b)
      BY <1>6, <2>2
    <3> QED
      BY <1>12, <3>1 DEF EntriesOK
  <2> QED
    BY <2>1, <2>2
<1>13. EntriesOK'
  BY <1>11, <1>12 DEF EntriesOK, P
<1> QED
  BY <1>10, <1>13

\* The block is done: its result is added to the round.
LEMMA CountersMidRound ==
  ASSUME Shape, EntriesOK, Counters, CommitBlock, NextHeight # round.end
  PROVE  EntriesOK' /\ Counters'
<1>1. /\ TypeOK /\ job.kind = "connect" /\ job.todo = <<>> /\ job'.kind = "idle"
      /\ round' = UpdatedRound
  BY DEF Shape, CommitBlock, BlockConnected, Idle
<1>2. UNCHANGED <<db, cache>> /\ (result' = NoResult \/ result' = result)
  BY MidRoundEffect
<1>3. PayeeCount(round)' = PayeeCount(round) + job.qualified - job.disqualified
      /\ PayeeCount(round) \in Int /\ job.qualified \in Nat /\ job.disqualified \in Nat
  BY <1>1, UpdatedRoundType, JobType, RoundFields DEF TypeOK, RoundType
<1>4. (\A b \in Addr : Found(b)' = Found(b)) /\ AllEntries' = AllEntries
      /\ Payouts(AllEntries) \subseteq Addr
  BY <1>2 DEF Found, AllEntries, Payouts
<1>5. EntriesOK'
  BY <1>1, <1>4 DEF EntriesOK, Refills
<1>6. PayeeCount(round)' + Counted' = Cardinality(Payouts(AllEntries)')
  BY <1>1, <1>3, <1>4 DEF Counters, Counted
<1>7. Counters'
  BY <1>1, <1>2, <1>6 DEF Counters
<1> QED
  BY <1>5, <1>7

\* The entries of the next round are counted as they are chosen.
LEMMA NextRoundEligible ==
  ASSUME NEW e \in Entry \cup {NoEntry}
  PROVE  /\ NextRoundEntry(e) = NoEntry <=> e = NoEntry
         /\ e # NoEntry => /\ IsEligible(NextRoundEntry(e)) <=> Chosen(e)
                           /\ Marked(NextRoundEntry(e))
                           /\ NextRoundEntry(e).balance = e.balance
<1>1. CASE e = NoEntry
  BY <1>1 DEF NextRoundEntry
<1>2. CASE e # NoEntry
  <2>1. e \in Entry /\ NoEntry \notin Entry
    BY <1>2, SentinelAssumption
  <2> DEFINE f == NextRoundEntry(e)
  <2>2. CASE Chosen(e)
    <3>1. f = [e EXCEPT !.enrolled = TRUE]
      BY <1>2, <2>2 DEF NextRoundEntry
    <3>2. f \in Entry /\ f.enrolled = TRUE /\ f.activationTx = e.activationTx
          /\ f.disqualifyingTx = e.disqualifyingTx /\ f.balance = e.balance
          /\ f.smartnodePaymentTx = e.smartnodePaymentTx
      BY <2>1, <3>1 DEF Entry
    <3> HIDE DEF f
    <3>3. IsEligible(f) /\ Marked(f)
      BY <2>2, <3>2 DEF IsEligible, Marked, Chosen
    <3> QED
      BY <1>2, <2>1, <2>2, <3>2, <3>3 DEF f
  <2>3. CASE ~Chosen(e)
    <3>1. f = [e EXCEPT !.enrolled = FALSE, !.disqualifyingTx = NoTx,
                        !.smartnodePaymentTx = NoTx]
      BY <1>2, <2>3 DEF NextRoundEntry
    <3>2. f \in Entry /\ f.enrolled = FALSE /\ f.balance = e.balance
      BY <2>1, <3>1 DEF Entry
    <3> HIDE DEF f
    <3>3. ~IsEligible(f) /\ Marked(f)
      BY <3>2 DEF IsEligible, Marked
    <3> QED
      BY <1>2, <2>1, <2>3, <3>2, <3>3 DEF f
  <2> QED
    BY <2>2, <2>3
<1> QED
  BY <1>1, <1>2

LEMMA CountersRoundEnd ==
  ASSUME Shape, EntriesOK, Counters, CommitBlock, NextHeight = round.end
  PROVE  EntriesOK' /\ Counters'
<1>1. /\ TypeOK /\ job.kind = "connect" /\ job.todo = <<>> /\ job'.kind = "idle"
      /\ cache' = [a \in Addr |-> NextRoundEntry(Found(a))]
  BY DEF Shape, CommitBlock, BlockConnected, Idle, EvaluateRound
<1>2. /\ UNCHANGED db /\ round' = NextRound(UpdatedRound) /\ UpdatedRound \in Round
      /\ result'.round = UpdatedRound /\ result'.payouts = Payouts(AllEntries)
  BY RoundEndEffect
<1>3. Exact(result'.round, result'.payouts)
  <2>1. /\ PayeeCount(UpdatedRound) = PayeeCount(round) + job.qualified - job.disqualified
        /\ PayeeCount(round) \in Int /\ job.qualified \in Nat /\ job.disqualified \in Nat
    BY <1>1, UpdatedRoundType, JobType, RoundFields DEF TypeOK, RoundType
  <2> QED
    BY <1>1, <1>2, <2>1 DEF Counters, Counted, Exact
<1>4. ASSUME NEW a \in Addr
      PROVE  /\ Found(a) \in Entry \cup {NoEntry}
             /\ Found(a)' = NextRoundEntry(Found(a))
  <2>1. Found(a) \in Entry \cup {NoEntry}
    BY <1>1, FoundType
  <2>2. cache'[a] = NextRoundEntry(Found(a))
    BY <1>1
  <2>3. Found(a) = NoEntry => db.entries[a] = NoEntry
    BY DEF Found
  <2> QED
    BY <1>2, <2>1, <2>2, <2>3, NextRoundEligible DEF Found
<1>5. ASSUME NEW a \in Addr PROVE a \in Payouts(AllEntries)' <=> Chosen(Found(a))
  <2>1. a \in Payouts(AllEntries)' <=> Found(a)' # NoEntry /\ IsEligible(Found(a)')
    BY DEF Payouts, AllEntries
  <2>2. Chosen(Found(a)) => Found(a) # NoEntry
    BY DEF Chosen
  <2> QED
    BY <1>4, <2>1, <2>2, NextRoundEligible
<1>6. Payouts(AllEntries)' = {a \in Addr : Chosen(Found(a))}
  <2>1. Payouts(AllEntries)' \subseteq Addr
    BY DEF Payouts
  <2> QED
    BY <1>5, <2>1
<1>7. EntriesOK'
  <2>1. ASSUME NEW a \in Addr, Found(a)' # NoEntry PROVE Marked(Found(a)')
    BY <1>4, <2>1, NextRoundEligible
  <2>2. ASSUME NEW a \in Payouts(AllEntries)' PROVE Found(a)'.balance > 0
    <3>1. a \in Addr /\ Chosen(Found(a))
      BY <1>6, <2>2
    <3>2. Found(a) \in Entry /\ Found(a).balance >= MinBalance
          /\ Found(a)'.balance = Found(a).balance
      BY <1>4, <3>1, NextRoundEligible DEF Chosen
    <3> QED
      BY <3>2, RewardsAssumption DEF Entry
  <2> QED
    BY <2>1, <2>2 DEF EntriesOK
<1>8. PayeeCount(round)' = Cardinality(Payouts(AllEntries)')
  BY <1>2, <1>6, NextRoundType
<1>9. Cardinality(Payouts(AllEntries)') \in Nat
  BY <1>6, RewardsAssumption, FS_Subset, FS_CardinalityType
<1>10. Counters'
  BY <1>1, <1>2, <1>3, <1>8, <1>9 DEF Counters, Counted
<1> QED
  BY <1>7, <1>10

\* A write erases no eligible entry.
LEMMA CountersSyncCached ==
  ASSUME Shape, RecordsOK, ResultLast, EntriesOK, Counters, NEW full \in BOOLEAN,
         SyncCached(full)
  PROVE  EntriesOK' /\ Counters'
<1>1. /\ TypeOK /\ job.kind \notin {"connect", "disconnect"} /\ ~Pending(undoResult)
      /\ cache' = NoEntries
      /\ db'.entries = [a \in Addr |-> SyncedEntry(a)]
  BY DEF Shape, SyncCached, Idle, Aborted, ResultLast
<1>2. /\ db'.rounds = rounds /\ result' = Stored(result) /\ UNCHANGED <<round, job>>
      /\ \A n \in DOMAIN rounds :
             db'.results[n] = IF Pending(result) /\ n = Len(rounds)
                              THEN result.results ELSE db.results[n]
  BY SyncEffect
<1>3. ASSUME NEW a \in Addr
      PROVE  Found(a)' = IF cache[a] # NoEntry /\ cache[a].balance = 0 THEN NoEntry ELSE Found(a)
  <2>1. Found(a)' = SyncedEntry(a)
    BY <1>1 DEF Found, NoEntries
  <2> QED
    BY <1>1, <2>1 DEF SyncedEntry, Found
<1>4. ASSUME NEW a \in Addr PROVE a \in Payouts(AllEntries)' <=> a \in Payouts(AllEntries)
  <2>1. /\ a \in Payouts(AllEntries) <=> Found(a) # NoEntry /\ IsEligible(Found(a))
        /\ a \in Payouts(AllEntries)' <=> Found(a)' # NoEntry /\ IsEligible(Found(a)')
    BY DEF Payouts, AllEntries
  <2>2. a \in Payouts(AllEntries) => Found(a).balance > 0
    BY <1>1 DEF EntriesOK, Refills
  <2>3. cache[a] # NoEntry => Found(a) = cache[a]
    BY DEF Found
  <2> QED
    BY <1>3, <2>1, <2>2, <2>3
<1>5. Payouts(AllEntries)' = Payouts(AllEntries) /\ Payouts(AllEntries) \subseteq Addr
  <2>1. Payouts(AllEntries)' \subseteq Addr /\ Payouts(AllEntries) \subseteq Addr
    BY DEF Payouts
  <2> QED
    BY <1>4, <2>1
<1>6. EntriesOK'
  <2>1. ASSUME NEW a \in Addr, Found(a)' # NoEntry PROVE Marked(Found(a)')
    BY <1>3, <2>1 DEF EntriesOK
  <2>2. ASSUME NEW a \in Payouts(AllEntries)' PROVE Found(a)'.balance > 0
    <3>1. a \in Addr /\ a \in Payouts(AllEntries) /\ Found(a).balance > 0
      BY <1>1, <1>5, <2>2 DEF EntriesOK, Refills
    <3>2. Found(a)' # NoEntry
      BY <2>2 DEF Payouts, AllEntries
    <3> QED
      BY <1>3, <3>1, <3>2
  <2> QED
    BY <2>1, <2>2 DEF EntriesOK
<1>7. result' # NoResult => Exact(result'.round, result'.payouts)
  <2>1. result' # NoResult => result # NoResult /\ result \in Result
    BY <1>1, <1>2 DEF Stored, TypeOK
  <2> QED
    BY <1>2, <2>1, StoredFields DEF Counters
<1>8. ASSUME NEW n \in DOMAIN rounds PROVE Exact(rounds[n], Payouts(db'.results[n]))
  <2>0. db.rounds \in Seq(Round)
    BY <1>1 DEF TypeOK, Database
  <2>1. CASE ~Pending(result)
    <3>1. rounds = db.rounds
      BY <1>1, <2>1 DEF RecordsOK, NeedsSync
    <3> QED
      BY <1>2, <2>1, <3>1 DEF Counters
  <2>2. CASE Pending(result)
    <3>1. /\ rounds = Append(db.rounds, result.round) /\ result # NoResult
          /\ result.payouts = Payouts(result.results)
      BY <2>2 DEF RecordsOK, ResultOK, Pending
    <3>2. CASE n = Len(rounds)
      <4>1. rounds[n] = result.round
        BY <2>0, <3>1, <3>2
      <4> QED
        BY <1>2, <2>2, <3>1, <3>2, <4>1 DEF Counters
    <3>3. CASE n # Len(rounds)
      <4>1. n \in DOMAIN db.rounds /\ rounds[n] = db.rounds[n]
        BY <2>0, <3>1, <3>3
      <4> QED
        BY <1>2, <3>3, <4>1 DEF Counters
    <3> QED
      BY <3>2, <3>3
  <2> QED
    BY <2>1, <2>2
<1>9. Counters'
  BY <1>1, <1>2, <1>5, <1>7, <1>8 DEF Counters, Counted
<1> QED
  BY <1>6, <1>9

LEMMA CountersRestart ==
  ASSUME Shape, RecordsOK, EntriesOK, Counters, Restart, CleanShutdown
  PROVE  EntriesOK' /\ Counters'
<1>1. /\ cache = NoEntries /\ db.round = round /\ job.kind \notin {"connect", "disconnect"}
  BY DEF CleanShutdown, Idle, Aborted
<1>2. /\ cache' = NoEntries /\ UNCHANGED <<db, round>> /\ job'.kind = "idle"
      /\ result' # NoResult =>
             /\ result'.round = db.rounds[Len(db.rounds)] /\ Len(db.rounds) >= 1
             /\ result'.payouts = Payouts(db.results[Len(db.rounds)])
  BY <1>1, RestartEffect DEF Idle
<1>3. (\A b \in Addr : Found(b)' = Found(b)) /\ AllEntries' = AllEntries
      /\ Payouts(AllEntries) \subseteq Addr
  BY <1>1, <1>2 DEF Found, AllEntries, Payouts
<1>4. EntriesOK'
  BY <1>1, <1>2, <1>3 DEF EntriesOK, Refills
<1>5. result' # NoResult => Exact(result'.round, result'.payouts)
  <2>1. db.rounds \in Seq(Round)
    BY DEF Shape, TypeOK, Database
  <2>2. Len(db.rounds) >= 1 => Len(db.rounds) \in DOMAIN db.rounds
    BY <2>1
  <2> QED
    BY <1>2, <2>2 DEF Counters
<1>6. Counters'
  BY <1>1, <1>2, <1>3, <1>5 DEF Counters, Counted
<1> QED
  BY <1>4, <1>6

LEMMA CountersInit == Init => CountersOK
<1> SUFFICES ASSUME Init PROVE EntriesOK /\ Counters
  BY DEF CountersOK
<1> USE RewardsAssumption
<1>1. PICK active \in Active :
          /\ round = [number |-> 1, start |-> 1, end |-> FirstEnd,
                      eligible |-> Cardinality({a \in active : Owned[a] >= MinBalance}),
                      disqualified |-> 0]
          /\ db = [entries |-> [a \in Addr |-> FirstEntry(a, active)], height |-> 0,
                   round |-> round, rounds |-> <<>>, results |-> <<>>]
  BY DEF Init
<1> DEFINE E == {a \in active : Owned[a] >= MinBalance}
<1>2. /\ cache = NoEntries /\ job.kind = "idle" /\ result = NoResult
      /\ db.entries = [a \in Addr |-> FirstEntry(a, active)] /\ db.rounds = <<>>
      /\ active \subseteq Addr
  BY <1>1 DEF Init, Idle
<1>3. \A a \in Addr : Found(a) = FirstEntry(a, active)
  BY <1>2 DEF Found, NoEntries
<1>4. Earlier # NoTx /\ NewEntry \in Entry /\ NoEntry \notin Entry
  BY NewEntryType, SentinelAssumption DEF TxIds
<1>5. ASSUME NEW a \in Addr
      PROVE  /\ a \in Payouts(AllEntries) <=> a \in E
             /\ a \in E => Found(a).balance > 0
             /\ Found(a) # NoEntry => Marked(Found(a))
  <2>0. Owned[a] \in Nat /\ MinBalance \in Nat \ {0}
    OBVIOUS
  <2>1. CASE Owned[a] = 0
    <3>1. Found(a) = NoEntry
      BY <1>3, <2>1 DEF FirstEntry
    <3>2. a \notin E
      BY <2>0, <2>1
    <3> HIDE DEF E
    <3> QED
      BY <3>1, <3>2 DEF Payouts, AllEntries
  <2>2. CASE Owned[a] # 0
    <3> DEFINE e == Found(a)
    <3>1. e = [NewEntry EXCEPT !.balance = Owned[a],
                               !.activationTx = IF a \in active THEN Earlier ELSE NoTx,
                               !.enrolled = a \in active /\ Owned[a] >= MinBalance]
      BY <1>3, <2>2 DEF FirstEntry
    <3>2. /\ e.balance = Owned[a]
          /\ e.activationTx = (IF a \in active THEN Earlier ELSE NoTx)
          /\ e.enrolled = (a \in active /\ Owned[a] >= MinBalance)
          /\ e.disqualifyingTx = NoTx /\ e.smartnodePaymentTx = NoTx
      BY <3>1 DEF NewEntry
    <3>3. e # NoEntry
      <4>1. /\ Owned[a] \in Nat /\ (IF a \in active THEN Earlier ELSE NoTx) \in TxIds \cup {NoTx}
        BY DEF TxIds
      <4>2. (a \in active /\ Owned[a] >= MinBalance) \in BOOLEAN
        OBVIOUS
      <4>3. ASSUME NEW v \in Nat, NEW t \in TxIds \cup {NoTx}, NEW x \in BOOLEAN
            PROVE  [NewEntry EXCEPT !.balance = v, !.activationTx = t, !.enrolled = x] \in Entry
        BY <1>4 DEF Entry
      <4>4. e \in Entry
        <5> DEFINE t == IF a \in active THEN Earlier ELSE NoTx
                   x == a \in active /\ Owned[a] >= MinBalance
        <5>1. /\ t \in TxIds \cup {NoTx} /\ Owned[a] \in Nat
              /\ e = [NewEntry EXCEPT !.balance = Owned[a], !.activationTx = t, !.enrolled = x]
          BY <3>1, <4>1
        <5>2. x \in BOOLEAN
          BY <4>2
        <5> HIDE DEF t, x, e
        <5> QED
          BY <4>3, <5>1, <5>2
      <4> QED
        BY <1>4, <4>4
    <3>4. a \in Payouts(AllEntries) <=> IsEligible(e)
      BY <3>3 DEF Payouts, AllEntries
    <3> HIDE DEF e
    <3>5. IsEligible(e) <=> a \in E
      BY <1>4, <3>2 DEF IsEligible
    <3>6. Marked(e)
      BY <1>4, <3>2 DEF Marked
    <3>7. e.balance > 0
      BY <2>0, <2>2, <3>2
    <3> QED
      BY <3>4, <3>5, <3>6, <3>7 DEF e
  <2> QED
    BY <2>1, <2>2
<1>6. Payouts(AllEntries) = E
  <2>1. Payouts(AllEntries) \subseteq Addr /\ E \subseteq Addr
    BY <1>2 DEF Payouts
  <2> QED
    BY <1>5, <2>1
<1>7. EntriesOK
  BY <1>2, <1>5, <1>6 DEF EntriesOK
<1>8. Cardinality(E) \in Nat
  BY <1>2, FS_Subset, FS_CardinalityType
<1>9. PayeeCount(round) = Cardinality(E)
  BY <1>1, <1>8 DEF PayeeCount
<1>10. Counters
  BY <1>2, <1>6, <1>8, <1>9 DEF Counters, Counted
<1> QED
  BY <1>7, <1>10

LEMMA CountersNext ==
  ASSUME Shape, DueInv, CountersOK, [Next]_vars
  PROVE  CountersOK'
<1> SUFFICES ASSUME happened' = {} PROVE EntriesOK' /\ Counters'
  BY DEF CountersOK
<1>1. /\ happened = {} /\ EntriesOK /\ Counters /\ RecordsOK /\ ResultLast /\ AfterEnd
  BY HappenedGrows, DueFromDatabaseParts, DueAfterEndParts DEF CountersOK, DueInv
<1>2. ~RejectBlock /\ ~DisconnectTip
  BY DEF RejectBlock, DisconnectTip, Fault, Count
<1>3. ~UndoInput /\ ~UndoOutput /\ ~CommitUndoBlock /\ ~CommitUndoBlockRefused
  BY <1>1 DEF UndoInput, UndoOutput, CommitUndoBlock, CommitUndoBlockRefused, At, Counters
<1>4. ~CommitBlockRefused
  BY <1>1 DEF CommitBlockRefused, AfterEnd, NextHeight
<1>5. Restart => CleanShutdown
  BY DEF Restart, Fault, Count
<1>6. CASE UNCHANGED <<cache, round, result, db, job>>
  <2>1. (\A b \in Addr : Found(b)' = Found(b)) /\ AllEntries' = AllEntries
    BY <1>6 DEF Found, AllEntries
  <2>2. EntriesOK'
    BY <1>1, <1>6, <2>1 DEF EntriesOK, Refills, Payouts
  <2>3. Counters'
    BY <1>1, <1>6, <2>1 DEF Counters, Counted
  <2> QED
    BY <2>2, <2>3
<1>7. FlushCoins \/ UNCHANGED vars => UNCHANGED <<cache, round, result, db, job>>
  BY DEF FlushCoins, vars, cacheVars, diskVars
<1> QED
  BY <1>1, <1>2, <1>3, <1>4, <1>5, <1>6, <1>7, CountersConnectTip, CountersProcessInput,
     CountersProcessOutput, CountersMidRound, CountersRoundEnd, CountersSyncCached,
     CountersRestart DEF Next

(***************************************************************************)
(* GetPayments never runs past the list of payouts while no block is       *)
(* undone or rejected and no state lost: the counters of a round, kept by  *)
(* ProcessInput, ProcessOutput and ApplyRoundUpdateResult, are exactly the *)
(* number of eligible entries, through writes and clean restarts.          *)
(***************************************************************************)
THEOREM CountersMatchLists == Spec => []PaymentsAvailable
<1>1. Init => Shape /\ DueInv /\ CountersOK
  BY ShapeInit, RecordsInit, DueFromDatabaseInit, DueAfterEndInit, CountersInit DEF DueInv
<1>2. (Shape /\ DueInv /\ CountersOK) /\ [Next]_vars => (Shape /\ DueInv /\ CountersOK)'
  BY ShapeNext, RecordsNext, DueFromDatabaseNext, DueAfterEndNext, CountersNext DEF DueInv
<1>3. Shape /\ DueInv /\ CountersOK => PaymentsAvailable
  <2>1. SUFFICES ASSUME Shape, CountersOK, happened = {}, result # NoResult,
                        NEW h \in result.round.end + StartDelay .. LastRoundBlock(result.round)
                 PROVE  ~DatabaseError(result, h)
    BY DEF PaymentsAvailable, ListCoversSlices
  <2>2. result.round \in Round /\ h \in Int
    BY <2>1 DEF Shape, TypeOK, Result
  <2>3. PayeeCount(result.round) = Cardinality(result.payouts)
        /\ PayeeCount(result.round) \in Int
    BY <2>1, <2>2, RoundFields DEF CountersOK, Counters, Exact, RoundType
  <2>4. IsRewardBlock(result.round, h) =>
            /\ EndIndex(result.round, h) \in Int
            /\ EndIndex(result.round, h) <= PayeeCount(result.round)
    BY <2>2, SliceBounds
  <2> QED
    BY <2>3, <2>4 DEF DatabaseError
<1> QED
  BY <1>1, <1>2, <1>3, PTL DEF Spec

-----------------------------------------------------------------------------
(* Everyone on a list is due *)

\* The payouts of a round are over when the next round ends, even if every
\* address is on the list.
PayoutsFit ==
    StartDelay + ((Cardinality(Addr) + BlockPayees - 1) \div BlockPayees - 1) * BlockInterval
        <= BlocksPerRound

\* The slices of the rounds before the last one are over, those of the last one
\* are over or still to be cut from the result, and none was left out.
Delivered ==
    /\ \A n \in DOMAIN rounds :
           n < Len(rounds) \/ result = NoResult => LastRoundBlock(rounds[n]) <= height
    /\ \A n \in DOMAIN rounds : \A g \in rounds[n].end + 1 .. height :
           \A a \in Slice(rounds[n], ListOf(n), g) :
               [round |-> n, addr |-> a, height |-> g] \in due

DeliveredOK == happened = {} => Delivered

LEMMA DivMonotone ==
  ASSUME NEW i \in Int, NEW j \in Int, i <= j, NEW d \in Nat \ {0}
  PROVE  i \div d <= j \div d
<1> DEFINE p == i \div d
           q == j \div d
           s == i % d
           t == j % d
<1>1. p \in Int /\ s \in 0 .. d - 1 /\ i = d * p + s
  BY DivMod
<1>2. q \in Int /\ t \in 0 .. d - 1 /\ j = d * q + t
  BY DivMod
<1> HIDE DEF p, q, s, t
<1>3. d * p \in Int /\ d * q \in Int /\ d * p = p * d /\ d * q = q * d
  BY <1>1, <1>2
<1>4. ~(q + 1 <= p)
  <2>1. q + 1 \in Int /\ (q + 1) * d = q * d + d
    BY <1>2
  <2>2. q + 1 <= p => (q + 1) * d <= p * d
    BY <1>1, <2>1, TimesMonotone
  <2> QED
    BY <1>1, <1>2, <1>3, <2>1, <2>2
<1> QED
  BY <1>1, <1>2, <1>4 DEF p, q

LEMMA LastBlockFits ==
  ASSUME PayoutsFit, NEW r \in Round, NEW S \in SUBSET Addr, Exact(r, S)
  PROVE  LastRoundBlock(r) \in Int /\ LastRoundBlock(r) <= r.end + BlocksPerRound
<1> DEFINE c == Cardinality(S)
           m == Cardinality(Addr)
           p == BlockPayees
           d == BlockInterval
           n == (c + p - 1) \div p
           k == (m + p - 1) \div p
<1>1. c \in Nat /\ m \in Nat /\ c <= m
  BY RewardsAssumption, FS_Subset, FS_CardinalityType
<1>2. /\ p \in Nat \ {0} /\ d \in Nat \ {0} /\ r.end \in Nat /\ StartDelay \in Nat
      /\ BlocksPerRound \in Nat
  BY RewardsAssumption, RoundFields DEF RoundType
<1>3. PayeeCount(r) = c /\ RewardBlocks(r) = n
  BY DEF Exact, RewardBlocks
<1>4. StartDelay + (k - 1) * d <= BlocksPerRound
  BY DEF PayoutsFit
<1> HIDE DEF c, m, p, d
<1>5. c + p - 1 \in Int /\ m + p - 1 \in Int /\ c + p - 1 <= m + p - 1
  BY <1>1, <1>2
<1>6. n \in Int /\ k \in Int /\ n <= k
  BY <1>2, <1>5, DivMod, DivMonotone
<1> HIDE DEF n, k
<1>7. (n - 1) * d \in Int /\ (k - 1) * d \in Int /\ (n - 1) * d <= (k - 1) * d
  <2>1. n - 1 \in Int /\ k - 1 \in Int /\ n - 1 <= k - 1
    BY <1>6
  <2> QED
    BY <1>2, <2>1, TimesMonotone
<1>8. LastRoundBlock(r) = IF c > 0 THEN r.end + StartDelay + (n - 1) * d ELSE 0
  BY <1>3 DEF LastRoundBlock, d
<1> QED
  BY <1>1, <1>2, <1>4, <1>7, <1>8

LEMMA LastBlockType ==
  ASSUME NEW r \in Round
  PROVE  LastRoundBlock(r) \in Int
<1>1. CASE PayeeCount(r) > 0
  BY <1>1, RewardBlocksExact, RoundFields, RewardsAssumption DEF LastRoundBlock, RoundType
<1>2. CASE ~(PayeeCount(r) > 0)
  BY <1>2 DEF LastRoundBlock
<1> QED
  BY <1>1, <1>2

\* A list is as long as the counters of its round say.
LEMMA ListsExact ==
  ASSUME Shape, RecordsOK, ResultLast, Counters, NEW n \in DOMAIN rounds
  PROVE  Exact(rounds[n], ListOf(n)) /\ ListOf(n) \in SUBSET Addr
<1>0. db.rounds \in Seq(Round) /\ (result # NoResult => result \in Result)
  BY DEF Shape, TypeOK, Database
<1>1. CASE ~Pending(result)
  <2>1. rounds = db.rounds /\ ListOf(n) = Payouts(db.results[n])
    BY <1>1 DEF RecordsOK, ResultLast, NeedsSync, ListOf
  <2> QED
    BY <2>1 DEF Counters, Payouts
<1>2. CASE Pending(result)
  <2>1. /\ rounds = Append(db.rounds, result.round) /\ result # NoResult
        /\ result.round.number = Len(rounds)
    BY <1>2 DEF RecordsOK, ResultLast, Pending
  <2>2. CASE n = Len(rounds)
    <3>1. rounds[n] = result.round /\ ListOf(n) = result.payouts
      BY <1>0, <1>2, <2>1, <2>2 DEF ListOf
    <3> QED
      BY <1>0, <2>1, <3>1 DEF Counters, Result
  <2>3. CASE n # Len(rounds)
    <3>1. n \in DOMAIN db.rounds /\ rounds[n] = db.rounds[n] /\ ListOf(n) = Payouts(db.results[n])
      BY <1>0, <2>1, <2>3 DEF ListOf
    <3> QED
      BY <3>1 DEF Counters, Payouts
  <2> QED
    BY <2>2, <2>3
<1> QED
  BY <1>1, <1>2

\* Everyone of the slice of a block's height is recorded with it.
LEMMA DeliveredBlock ==
  ASSUME Shape, RecordsOK, ResultLast, Delivered, BlockConnected, NextHeight = height + 1,
         NEW n \in DOMAIN rounds, NEW g \in rounds[n].end + 1 .. NextHeight,
         NEW a \in Slice(rounds[n], ListOf(n), g)
  PROVE  [round |-> n, addr |-> a, height |-> g] \in due'
<1> USE AfterEndTypes
<1>1. /\ rounds[n] \in Round /\ rounds[n].end \in Nat /\ n \in Nat /\ NextHeight \in Nat
      /\ ~NeedsSync /\ g \in Int
  <2>1. rounds[n] \in Round /\ n \in Nat
    OBVIOUS
  <2>2. ~NeedsSync
    BY DEF BlockConnected, Shape, JobOK
  <2> QED
    BY <2>1, <2>2, RoundFields DEF RoundType
<1>2. CASE g <= height
  BY <1>1, <1>2 DEF Delivered, BlockConnected
<1>3. CASE ~(g <= height)
  <2>1. g = NextHeight
    BY <1>1, <1>3
  <2>2. g <= LastRoundBlock(rounds[n]) /\ LastRoundBlock(rounds[n]) \in Int
    BY <1>1, SliceAfterEnd, LastBlockType
  <2>3. n = Len(rounds) /\ result # NoResult
    BY <1>1, <1>3, <2>2 DEF Delivered
  <2>4. /\ result.round = rounds[n] /\ result.round.number = n
        /\ result.payouts = Payouts(db.results[n])
    BY <1>1, <2>3 DEF ResultLast, RecordsOK, ResultOK, NeedsSync
  <2>5. ListOf(n) = result.payouts
    BY <1>1, <2>4 DEF ListOf, NeedsSync
  <2>6. a \in GetPayments(result, NextHeight)
    BY <2>1, <2>3, <2>4, <2>5, PaymentsAreSlices
  <2> QED
    BY <2>1, <2>4, <2>6 DEF BlockConnected, FillPayments
<1> QED
  BY <1>2, <1>3

LEMMA DeliveredMidRound ==
  ASSUME Shape, RecordsOK, ResultLast, Delivered, CommitBlock, NextHeight # round.end
  PROVE  Delivered'
<1> USE AfterEndTypes
<1>1. /\ BlockConnected /\ height' = NextHeight /\ NextHeight = height + 1
      /\ result' = IF Outdated(result) THEN NoResult ELSE result
  BY DEF CommitBlock
<1>2. ~NeedsSync /\ ~NeedsSync' /\ UNCHANGED <<rounds, db>>
  BY MidRoundEffect
<1>3. ASSUME NEW n PROVE ListOf(n)' = ListOf(n)
  BY <1>2 DEF ListOf, NeedsSync
<1>4. ASSUME NEW n \in DOMAIN rounds, n < Len(rounds) \/ result' = NoResult
      PROVE  LastRoundBlock(rounds[n]) <= height'
  <2>1. rounds[n] \in Round /\ LastRoundBlock(rounds[n]) \in Int /\ n \in Nat
    BY LastBlockType
  <2>2. CASE n < Len(rounds) \/ result = NoResult
    BY <1>1, <2>1, <2>2 DEF Delivered
  <2>3. CASE ~(n < Len(rounds)) /\ result # NoResult
    <3>1. NextHeight > LastRoundBlock(result.round)
      BY <1>1, <1>4, <2>3 DEF Outdated
    <3>2. n = Len(rounds)
      BY <2>1, <2>3
    <3>3. result.round = rounds[n]
      BY <2>3, <3>2 DEF ResultLast, RecordsOK, ResultOK
    <3> QED
      BY <1>1, <2>1, <3>1, <3>3
  <2> QED
    BY <2>2, <2>3
<1>5. ASSUME NEW n \in DOMAIN rounds, NEW g \in rounds[n].end + 1 .. NextHeight,
             NEW a \in Slice(rounds[n], ListOf(n), g)
      PROVE  [round |-> n, addr |-> a, height |-> g] \in due'
  BY <1>1, <1>5, DeliveredBlock
<1> QED
  BY <1>1, <1>2, <1>3, <1>4, <1>5 DEF Delivered

LEMMA DeliveredRoundEnd ==
  ASSUME PayoutsFit, Shape, RecordsOK, ResultLast, Counters, Delivered, CommitBlock,
         NextHeight = round.end
  PROVE  Delivered'
<1> USE AfterEndTypes
<1>1. BlockConnected /\ height' = NextHeight /\ NextHeight = height + 1
  BY DEF CommitBlock
<1>2. /\ ~NeedsSync /\ UNCHANGED db
      /\ result' # NoResult /\ result'.round.number = round.number
      /\ rounds' = Append(rounds, UpdatedRound) /\ UpdatedRound.end = round.end
  BY RoundEndEffect
<1>3. /\ DOMAIN rounds' = 1 .. Len(rounds) + 1 /\ Len(rounds') = Len(rounds) + 1
      /\ \A n \in DOMAIN rounds : rounds'[n] = rounds[n]
      /\ rounds'[Len(rounds) + 1] = UpdatedRound
  BY <1>2, UpdatedRoundType DEF Shape
<1>4. ASSUME NEW n \in DOMAIN rounds PROVE ListOf(n)' = ListOf(n)
  <2>1. n # round.number
    OBVIOUS
  <2> QED
    BY <1>2, <2>1 DEF ListOf, NeedsSync
<1>5. ASSUME NEW n \in DOMAIN rounds PROVE LastRoundBlock(rounds[n]) <= height'
  <2>1. rounds[n] \in Round /\ LastRoundBlock(rounds[n]) \in Int /\ n \in Nat
    BY LastBlockType
  <2>2. CASE n < Len(rounds)
    BY <1>1, <2>1, <2>2 DEF Delivered
  <2>3. CASE ~(n < Len(rounds))
    <3>1. n = Len(rounds)
      BY <2>1, <2>3
    <3>2. rounds[n].end + BlocksPerRound = round.end
      BY <3>1 DEF RecordsOK, Linked
    <3>3. Exact(rounds[n], ListOf(n)) /\ ListOf(n) \in SUBSET Addr
      BY ListsExact
    <3>4. LastRoundBlock(rounds[n]) <= rounds[n].end + BlocksPerRound
      BY <2>1, <3>3, LastBlockFits
    <3> QED
      BY <1>1, <3>2, <3>4
  <2> QED
    BY <2>2, <2>3
<1>6. ASSUME NEW n \in DOMAIN rounds', n < Len(rounds') \/ result' = NoResult
      PROVE  LastRoundBlock(rounds'[n]) <= height'
  <2>1. n \in DOMAIN rounds
    BY <1>2, <1>3, <1>6
  <2> QED
    BY <1>3, <1>5, <2>1
<1>7. ASSUME NEW n \in DOMAIN rounds', NEW g \in rounds'[n].end + 1 .. height',
             NEW a \in Slice(rounds'[n], ListOf(n)', g)
      PROVE  [round |-> n, addr |-> a, height |-> g] \in due'
  <2>1. CASE n \in DOMAIN rounds
    <3>1. g \in rounds[n].end + 1 .. NextHeight /\ a \in Slice(rounds[n], ListOf(n), g)
      BY <1>1, <1>3, <1>4, <1>7, <2>1
    <3> QED
      BY <1>1, <2>1, <3>1, DeliveredBlock
  <2>2. CASE n \notin DOMAIN rounds
    <3>1. n = Len(rounds) + 1
      BY <1>3, <2>2
    <3>2. g \in NextHeight + 1 .. NextHeight
      BY <1>1, <1>2, <1>3, <1>7, <3>1
    <3> QED
      BY <1>1, <3>2
  <2> QED
    BY <2>1, <2>2
<1> QED
  BY <1>6, <1>7 DEF Delivered

LEMMA DeliveredSyncCached ==
  ASSUME Shape, RecordsOK, Delivered, NEW full \in BOOLEAN, SyncCached(full)
  PROVE  Delivered'
<1>1. /\ UNCHANGED <<height, rounds, due>> /\ result' = Stored(result)
  BY SyncEffect
<1>2. ASSUME NEW n \in DOMAIN rounds PROVE ListOf(n)' = ListOf(n)
  BY <1>2, ListsKept
<1>3. result' = NoResult => result = NoResult
  BY <1>1, SentinelAssumption DEF Stored, Shape, TypeOK, Result
<1> QED
  BY <1>1, <1>2, <1>3 DEF Delivered

LEMMA DeliveredRestart ==
  ASSUME Shape, RecordsOK, Delivered, Restart, CleanShutdown
  PROVE  Delivered'
<1>1. /\ db.height = height /\ db.round = round /\ onDisk.due = due
      /\ ~NeedsSync /\ rounds = db.rounds
  BY DEF CleanShutdown, RecordsOK
<1>2. /\ UNCHANGED <<height, rounds, due, db>> /\ ~NeedsSync'
      /\ result' = NoResult => rounds = <<>>
  BY <1>1, RestartEffect
<1>3. ASSUME NEW n PROVE ListOf(n)' = ListOf(n)
  BY <1>1, <1>2 DEF ListOf, NeedsSync
<1>4. ASSUME NEW n \in DOMAIN rounds, n < Len(rounds) \/ result' = NoResult
      PROVE  LastRoundBlock(rounds[n]) <= height
  <2>1. rounds # <<>>
    BY <1>4
  <2> QED
    BY <1>2, <1>4, <2>1 DEF Delivered
<1> QED
  BY <1>2, <1>3, <1>4 DEF Delivered

LEMMA DeliveredInit == Init => DeliveredOK
  BY DEF Init, DeliveredOK, Delivered

LEMMA DeliveredNext ==
  ASSUME PayoutsFit, Shape, DueInv, CountersOK, DeliveredOK, [Next]_vars
  PROVE  DeliveredOK'
<1> SUFFICES ASSUME happened' = {} PROVE Delivered'
  BY DEF DeliveredOK
<1>1. /\ happened = {} /\ Delivered /\ Counters /\ RecordsOK /\ ResultLast /\ AfterEnd
  BY HappenedGrows, DueFromDatabaseParts, DueAfterEndParts DEF CountersOK, DeliveredOK, DueInv
<1>2. ~CommitUndoBlock /\ ~CommitBlockRefused
  BY <1>1 DEF CommitUndoBlock, Counters, CommitBlockRefused, AfterEnd, NextHeight
<1>3. Restart => CleanShutdown
  BY DEF Restart, Fault, Count
<1>4. CASE UNCHANGED <<recordVars, height, chain, due>>
  <2>1. ASSUME NEW n PROVE ListOf(n)' = ListOf(n)
    BY <1>4 DEF ListOf, Pending, recordVars
  <2> QED
    BY <1>1, <1>4, <2>1 DEF Delivered, recordVars
<1> QED
  BY <1>1, <1>2, <1>3, <1>4, Quiet, DeliveredMidRound, DeliveredRoundEnd,
     DeliveredSyncCached, DeliveredRestart

(***************************************************************************)
(* Once the last reward block of a round is connected, exactly the         *)
(* addresses on its list were due, while no block is undone or rejected    *)
(* and no state lost: the slices of GetPaymentsForBlock cover the list,    *)
(* FillPayments finds its slice at each payout height, and CommitBlock     *)
(* drops the result or replaces it by the next one only after the last     *)
(* slice.  The premise is that the payouts of a round end within the next. *)
(***************************************************************************)
THEOREM EveryoneOnListDue ==
  ASSUME PayoutsFit
  PROVE  Spec => []EveryPayeeDue
<1> DEFINE Inv == Shape /\ DueInv /\ CountersOK /\ DeliveredOK
<1>1. Init => Inv
  BY ShapeInit, RecordsInit, DueFromDatabaseInit, DueAfterEndInit, CountersInit,
     DeliveredInit DEF DueInv
<1>2. Inv /\ [Next]_vars => Inv'
  BY ShapeNext, RecordsNext, DueFromDatabaseNext, DueAfterEndNext, CountersNext,
     DeliveredNext DEF DueInv
<1>3. Inv => EveryPayeeDue
  <2> SUFFICES ASSUME Shape, DueInv, CountersOK, DeliveredOK, happened = {},
                      NEW n \in DOMAIN rounds, height >= LastRoundBlock(rounds[n])
               PROVE  ListOf(n) = {p.addr : p \in {q \in due : q.round = n}}
    BY DEF EveryPayeeDue
  <2> USE AfterEndTypes
  <2>1. Counters /\ Delivered /\ RecordsOK /\ ResultLast /\ AfterEnd
    BY DueFromDatabaseParts, DueAfterEndParts DEF CountersOK, DeliveredOK, DueInv
  <2>2. /\ rounds[n] \in Round /\ rounds[n].end \in Nat /\ n \in Nat /\ n < round.number
        /\ LastRoundBlock(rounds[n]) \in Int
    <3>1. rounds[n] \in Round /\ n \in Nat /\ n < round.number
      OBVIOUS
    <3>2. rounds[n].end \in Nat
      BY <3>1, RoundFields DEF RoundType
    <3> QED
      BY <3>1, <3>2, LastBlockType
  <2>3. PayeeCount(rounds[n]) = Cardinality(ListOf(n)) /\ ListOf(n) \in SUBSET Addr
    BY <2>1, ListsExact DEF Exact
  <2>4. ASSUME NEW a \in ListOf(n) PROVE \E p \in due : p.round = n /\ p.addr = a
    <3>1. PICK g \in rounds[n].end + 1 .. LastRoundBlock(rounds[n]) :
              a \in Slice(rounds[n], ListOf(n), g)
      BY <2>2, <2>3, <2>4, SlicesExhaustive
    <3>2. g \in rounds[n].end + 1 .. height
      BY <2>2
    <3>3. [round |-> n, addr |-> a, height |-> g] \in due
      BY <2>1, <3>1, <3>2 DEF Delivered
    <3> QED
      BY <3>3
  <2>5. ASSUME NEW p \in due, p.round = n PROVE p.addr \in ListOf(n)
    <3>1. p.addr \in Slice(rounds[n], ListOf(n), p.height) /\ p.height \in Int
      BY <2>1, <2>2, <2>5 DEF AfterEnd, Known, From
    <3> QED
      BY <2>2, <3>1, SliceAfterEnd
  <2> QED
    BY <2>4, <2>5
<1> QED
  BY <1>1, <1>2, <1>3, PTL DEF Spec

-----------------------------------------------------------------------------
(* Two nodes *)

\* A step erases no entry of either node.
EntriesKept ==
    \A a \in Addr : /\ Found(a) # NoEntry => Found(a)' # NoEntry
                    /\ Peer!Found(a) # NoEntry => Peer!Found(a)' # NoEntry

\* SyncCached meets no entry of the cache whose balance is zero.
NothingErased == [][EntriesKept]_<<vars, peerVars>>

\* The nodes agree on a result, stored or not.
SameResult ==
    /\ result2 \in Result \cup {NoResult}
    /\ (result = NoResult) <=> (result2 = NoResult)
    /\ result # NoResult => /\ result2.round = result.round
                            /\ result2.results = result.results
                            /\ result2.payouts = result.payouts

\* While a block is under way nothing is pending on either node.
SameJob ==
    /\ job2 = job
    /\ job.kind = "connect" => ~Pending(result) /\ ~Pending(result2)

SameEntries ==
    /\ cache2 \in Entries
    /\ \A a \in Addr : Peer!Found(a) = Found(a)

SameChain ==
    /\ height2 = height /\ round2 = round /\ rounds2 = rounds
    /\ chain2 = chain /\ coins2 = coins
    /\ undoResult = NoResult /\ undoResult2 = NoResult

PairInv == SameResult /\ SameJob /\ SameEntries /\ SameChain

LEMMA PairInitOK == PairInit => PairInv
<1> SUFFICES ASSUME PairInit PROVE PairInv
  OBVIOUS
<1>1. /\ cache = NoEntries /\ cache2 = NoEntries /\ db2 = db
      /\ round = db.round /\ round2 = db2.round
      /\ result = NoResult /\ result2 = NoResult
      /\ undoResult = NoResult /\ undoResult2 = NoResult
      /\ job = Idle /\ job2 = Idle
      /\ height = 0 /\ height2 = 0 /\ rounds = <<>> /\ rounds2 = <<>>
      /\ chain = <<>> /\ chain2 = <<>> /\ coins = Owned /\ coins2 = Owned
  <2>1. Init /\ Peer!Init /\ db2 = db
    BY DEF PairInit
  <2>2. round = db.round
    BY <2>1 DEF Init
  <2>3. round2 = db2.round
    BY <2>1 DEF Peer!Init
  <2> QED
    BY <2>1, <2>2, <2>3 DEF Init, Peer!Init, NoEntries, Peer!NoEntries, Idle, Peer!Idle
<1>2. SameEntries
  BY <1>1 DEF SameEntries, NoEntries, Entries, Found, Peer!Found
<1> QED
  BY <1>1, <1>2 DEF PairInv, SameResult, SameJob, SameChain, Idle

LEMMA PairConnectTip ==
  ASSUME Shape, PairInv, NEW b \in Blocks, ConnectTip(b), Peer!ConnectTip(b)
  PROVE  PairInv'
<1>1. /\ ~Pending(result) /\ ~Pending(result2)
      /\ job' = Work("connect", b, BlockSteps(Len(chain) + 1, b))
      /\ job2' = Peer!Work("connect", b, Peer!BlockSteps(Len(chain2) + 1, b))
      /\ UNCHANGED <<cache, height, round, rounds, result, undoResult, db, chain, coins>>
      /\ UNCHANGED <<cache2, height2, round2, rounds2, result2, undoResult2, db2,
                     chain2, coins2>>
  BY DEF ConnectTip, Peer!ConnectTip, Ready, Peer!Ready, NeedsSync, Peer!NeedsSync, Pending,
         Peer!Pending, cacheVars, diskVars, chainVars, Peer!cacheVars, Peer!diskVars,
         Peer!chainVars
<1>2. job2' = job'
  BY <1>1 DEF PairInv, SameChain, Work, Peer!Work, BlockSteps, Peer!BlockSteps,
              CoinbaseSteps, Peer!CoinbaseSteps
<1> QED
  BY <1>1, <1>2 DEF PairInv, SameResult, SameJob, SameEntries, SameChain, Pending, Found,
                    Peer!Found

\* The rest of the state when a step of the block is processed.
LEMMA PairStepRest ==
  ASSUME PairInv, job.kind = "connect", job2' = job', job'.kind = "connect",
         UNCHANGED <<height, round, rounds, result, undoResult, chain, coins>>,
         UNCHANGED <<height2, round2, rounds2, result2, undoResult2, chain2, coins2>>,
         SameEntries'
  PROVE  PairInv'
  BY DEF PairInv, SameResult, SameJob, SameChain, Pending

\* Both nodes give the entry of a the same value.
LEMMA PairUpdate ==
  ASSUME TypeOK, SameEntries, NEW a \in Addr, NEW e \in Entry,
         cache' = [cache EXCEPT ![a] = e], cache2' = [cache2 EXCEPT ![a] = e],
         UNCHANGED <<db, db2>>
  PROVE  SameEntries'
<1>1. cache \in [Addr -> Entry \cup {NoEntry}] /\ cache2 \in [Addr -> Entry \cup {NoEntry}]
  BY DEF TypeOK, SameEntries, Entries
<1>2. e # NoEntry
  BY SentinelAssumption
<1>3. cache2' \in Entries
  BY <1>1 DEF Entries
<1>4. ASSUME NEW x \in Addr PROVE Peer!Found(x)' = Found(x)'
  BY <1>1, <1>2 DEF Found, Peer!Found, SameEntries
<1> QED
  BY <1>3, <1>4 DEF SameEntries

\* What the nodes compute from the same arguments.
LEMMA PeerOperations ==
  /\ \A e, s : Peer!Spent(e, s) = Spent(e, s)
  /\ \A e, s : Peer!Received(e, s) = Received(e, s)
  /\ \A e, s : Peer!SpendDisqualifies(e, s) = SpendDisqualifies(e, s)
  /\ \A e, s : Peer!OutputDisqualifies(e, s) = OutputDisqualifies(e, s)
  /\ \A e, s : Peer!OutputQualifies(e, s) = OutputQualifies(e, s)
  /\ \A b : Peer!One(b) = One(b)
  /\ \A r : Peer!LastRoundBlock(r) = LastRoundBlock(r)
  /\ \A e : Peer!Chosen(e) = Chosen(e)
  /\ \A e : Peer!NextRoundEntry(e) = NextRoundEntry(e)
  /\ \A es : Peer!Payouts(es) = Payouts(es)
<1>1. \A n, k : Peer!Less(n, k) = Less(n, k)
  BY DEF Less, Peer!Less
<1>2. \A e : Peer!IsEligible(e) = IsEligible(e)
  BY DEF IsEligible, Peer!IsEligible
<1>3. \A e, s : Peer!PaysNode(e, s) = PaysNode(e, s)
  BY DEF PaysNode, Peer!PaysNode, Coinbases, Peer!Coinbases
<1>4. \A e, s : Peer!Activates(e, s) = Activates(e, s)
  BY DEF Activates, Peer!Activates
<1>5. \A e, s : Peer!Spent(e, s) = Spent(e, s)
  BY <1>1 DEF Spent, Peer!Spent
<1>6. \A e, s : Peer!Received(e, s) = Received(e, s)
  BY <1>2, <1>3, <1>4 DEF Received, Peer!Received, Coinbases, Peer!Coinbases
<1>7. \A e, s : Peer!SpendDisqualifies(e, s) = SpendDisqualifies(e, s)
  BY <1>2 DEF SpendDisqualifies, Peer!SpendDisqualifies
<1>8. \A e, s : Peer!OutputDisqualifies(e, s) = OutputDisqualifies(e, s)
  BY <1>2, <1>3 DEF OutputDisqualifies, Peer!OutputDisqualifies
<1>9. \A e, s : Peer!OutputQualifies(e, s) = OutputQualifies(e, s)
  BY <1>2, <1>4 DEF OutputQualifies, Peer!OutputQualifies
<1>10. \A b : Peer!One(b) = One(b)
  BY DEF One, Peer!One
<1>11. \A r : Peer!LastRoundBlock(r) = LastRoundBlock(r)
  BY DEF LastRoundBlock, Peer!LastRoundBlock, PayeeCount, Peer!PayeeCount, RewardBlocks,
         Peer!RewardBlocks
<1>12. \A e : Peer!Chosen(e) = Chosen(e)
  BY DEF Chosen, Peer!Chosen
<1>13. \A e : Peer!NextRoundEntry(e) = NextRoundEntry(e)
  BY <1>12 DEF NextRoundEntry, Peer!NextRoundEntry
<1>14. \A es : Peer!Payouts(es) = Payouts(es)
  BY <1>2 DEF Payouts, Peer!Payouts
<1> QED
  BY <1>5, <1>6, <1>7, <1>8, <1>9, <1>10, <1>11, <1>12, <1>13, <1>14

LEMMA PeerCardinality ==
  ASSUME NEW S PROVE Peer!Cardinality(S) = Cardinality(S)
  BY DEF Cardinality, Peer!Cardinality

LEMMA PairStepDone ==
  ASSUME job2 = job, NEW d, NEW q, NEW v, StepDone(d, q, v), Peer!StepDone(d, q, v)
  PROVE  job2' = job'
  BY DEF StepDone, Peer!StepDone

LEMMA PairProcessInput ==
  ASSUME Shape, PairInv, ProcessInput, Peer!ProcessInput
  PROVE  PairInv'
<1> DEFINE s == Head(job.todo)
           e == Found(s.addr)
<1>1. /\ job.kind = "connect" /\ job.todo # <<>> /\ job2 = job /\ TypeOK
      /\ UNCHANGED <<height, round, rounds, result, undoResult, db, chain, coins>>
      /\ UNCHANGED <<height2, round2, rounds2, result2, undoResult2, db2, chain2, coins2>>
  BY DEF ProcessInput, Peer!ProcessInput, At, PairInv, SameJob, Shape,
         diskVars, chainVars, Peer!diskVars, Peer!chainVars
<1>2. /\ s \in Step /\ s.addr \in Addr /\ -s.value \in Int
      /\ e \in Entry \cup {NoEntry} /\ Peer!Found(s.addr) = e
  BY <1>1, HeadType, FoundType DEF PairInv, SameEntries
<1>3. CASE e = NoEntry
  <2>1. StepDone(0, 0, -s.value) /\ Peer!StepDone(0, 0, -s.value) /\ UNCHANGED <<cache, cache2>>
    BY <1>1, <1>2, <1>3 DEF ProcessInput, Peer!ProcessInput
  <2>2. job2' = job' /\ job'.kind = "connect"
    BY <1>1, <1>2, <2>1, StepDoneType, PairStepDone
  <2>3. SameEntries'
    BY <1>1, <2>1 DEF PairInv, SameEntries, Found, Peer!Found
  <2> QED
    BY <1>1, <2>2, <2>3, PairStepRest
<1>4. CASE e # NoEntry
  <2> DEFINE d == One(SpendDisqualifies(e, s))
  <2>1. /\ StepDone(d, 0, -s.value) /\ Peer!StepDone(d, 0, -s.value)
        /\ cache' = [cache EXCEPT ![s.addr] = Spent(e, s)]
        /\ cache2' = [cache2 EXCEPT ![s.addr] = Spent(e, s)]
    BY <1>1, <1>2, <1>4, PeerOperations DEF ProcessInput, Peer!ProcessInput
  <2>2. d \in Nat
    BY DEF One
  <2>3. job2' = job' /\ job'.kind = "connect"
    <3> HIDE DEF d
    <3> QED
      BY <1>1, <1>2, <2>1, <2>2, StepDoneType, PairStepDone
  <2>4. Spent(e, s) \in Entry
    BY <1>2, <1>4, EntryOperations
  <2>5. SameEntries'
    BY <1>1, <1>2, <2>1, <2>4, PairUpdate DEF PairInv
  <2> QED
    BY <1>1, <2>3, <2>5, PairStepRest
<1> QED
  BY <1>3, <1>4

LEMMA PairProcessOutput ==
  ASSUME Shape, PairInv, ProcessOutput, Peer!ProcessOutput
  PROVE  PairInv'
<1> DEFINE s == Head(job.todo)
           e == GetRewardEntry(s.addr)
           d == One(OutputDisqualifies(e, s))
           q == One(OutputQualifies(e, s))
<1>1. /\ job.kind = "connect" /\ job.todo # <<>> /\ job2 = job /\ TypeOK
      /\ UNCHANGED <<height, round, rounds, result, undoResult, db, chain, coins>>
      /\ UNCHANGED <<height2, round2, rounds2, result2, undoResult2, db2, chain2, coins2>>
  BY DEF ProcessOutput, Peer!ProcessOutput, At, PairInv, SameJob, Shape,
         diskVars, chainVars, Peer!diskVars, Peer!chainVars
<1>2. s \in Step /\ s.addr \in Addr /\ s.value \in Int /\ e \in Entry
  BY <1>1, HeadType, FoundType
<1>3. Peer!GetRewardEntry(s.addr) = e
  BY <1>2 DEF PairInv, SameEntries, GetRewardEntry, Peer!GetRewardEntry, NewEntry,
              Peer!NewEntry
<1>4. /\ StepDone(d, q, s.value) /\ Peer!StepDone(d, q, s.value)
      /\ cache' = [cache EXCEPT ![s.addr] = Received(e, s)]
      /\ cache2' = [cache2 EXCEPT ![s.addr] = Received(e, s)]
  BY <1>1, <1>3, PeerOperations DEF ProcessOutput, Peer!ProcessOutput
<1>5. d \in Nat /\ q \in Nat
  BY DEF One
<1>6. Received(e, s) \in Entry
  BY <1>2, EntryOperations
<1> HIDE DEF d, q
<1>7. job2' = job' /\ job'.kind = "connect"
  BY <1>1, <1>2, <1>4, <1>5, StepDoneType, PairStepDone
<1>8. SameEntries'
  BY <1>1, <1>2, <1>4, <1>6, PairUpdate DEF PairInv
<1> QED
  BY <1>1, <1>7, <1>8, PairStepRest

LEMMA PairCommitBlock ==
  ASSUME Shape, PairInv, CommitBlock, Peer!CommitBlock
  PROVE  PairInv'
<1>1. /\ job.kind = "connect" /\ job2 = job
      /\ chain' = Append(chain, job.block) /\ chain2' = Append(chain2, job2.block)
      /\ coins' = job.coins /\ coins2' = job2.coins
      /\ height' = NextHeight /\ height2' = Peer!NextHeight
      /\ job' = Idle /\ job2' = Peer!Idle
      /\ UNCHANGED <<db, db2>>
  BY DEF CommitBlock, Peer!CommitBlock, BlockConnected, Peer!BlockConnected, PairInv, SameJob,
         diskVars, Peer!diskVars
<1>2. /\ Peer!NextHeight = NextHeight /\ Peer!UpdatedRound = UpdatedRound
      /\ Peer!Outdated(result2) = Outdated(result)
      /\ \A a \in Addr : Peer!Found(a) = Found(a)
      /\ Peer!AllEntries = AllEntries
  <2>1. Peer!NextHeight = NextHeight
    BY DEF PairInv, SameChain, NextHeight, Peer!NextHeight
  <2>2. Peer!UpdatedRound = UpdatedRound
    BY <1>1 DEF PairInv, SameChain, UpdatedRound, Peer!UpdatedRound
  <2>3. \A a \in Addr : Peer!Found(a) = Found(a)
    BY DEF PairInv, SameEntries
  <2>4. ~Pending(result) /\ ~Pending(result2)
    BY <1>1 DEF PairInv, SameJob
  <2>5. Peer!Outdated(result2) = Outdated(result)
    BY <2>1, <2>4, PeerOperations DEF PairInv, SameResult, Pending, Outdated, Peer!Outdated
  <2>6. Peer!AllEntries = AllEntries
    BY <2>3 DEF AllEntries, Peer!AllEntries
  <2> QED
    BY <2>1, <2>2, <2>3, <2>5, <2>6
<1>3. undoResult' = NoResult /\ undoResult2' = NoResult
  BY DEF CommitBlock, Peer!CommitBlock, PairInv, SameChain
<1>4. SameJob' /\ height2' = height' /\ chain2' = chain' /\ coins2' = coins'
  BY <1>1, <1>2 DEF SameJob, Idle, Peer!Idle, PairInv, SameChain
<1>5. CASE NextHeight # round.end
  <2>1. /\ result' = IF Outdated(result) THEN NoResult ELSE result
        /\ round' = UpdatedRound /\ UNCHANGED <<cache, rounds>>
    BY <1>5 DEF CommitBlock
  <2>2. /\ result2' = IF Outdated(result) THEN NoResult ELSE result2
        /\ round2' = UpdatedRound /\ UNCHANGED <<cache2, rounds2>>
    BY <1>2, <1>5 DEF Peer!CommitBlock, PairInv, SameChain
  <2>3. SameEntries'
    BY <1>1, <2>1, <2>2 DEF PairInv, SameEntries, Found, Peer!Found
  <2>4. SameResult' /\ round2' = round' /\ rounds2' = rounds'
    BY <2>1, <2>2 DEF PairInv, SameResult, SameChain
  <2> QED
    BY <1>3, <1>4, <2>3, <2>4 DEF PairInv, SameChain
<1>6. CASE NextHeight = round.end
  <2>1. EvaluateRound(UpdatedRound)
    BY <1>6 DEF CommitBlock
  <2>2. Peer!EvaluateRound(UpdatedRound)
    BY <1>2, <1>6 DEF Peer!CommitBlock, PairInv, SameChain
  <2>3. /\ cache' = [a \in Addr |-> NextRoundEntry(Found(a))]
        /\ cache2' = cache'
    BY <1>2, <2>1, <2>2, PeerOperations DEF EvaluateRound, Peer!EvaluateRound
  <2>4. SameEntries'
    <3>1. cache' \in Entries
      BY <2>3, NextEntries DEF Shape
    <3>2. ASSUME NEW x \in Addr PROVE Peer!Found(x)' = Found(x)'
      <4>1. CASE Found(x) = NoEntry
        <5>1. db.entries[x] = NoEntry /\ db2.entries[x] = NoEntry
          BY <1>2, <4>1 DEF Found, Peer!Found
        <5> QED
          BY <1>1, <2>3, <5>1 DEF Found, Peer!Found
      <4>2. CASE Found(x) # NoEntry
        <5>1. NextRoundEntry(Found(x)) \in Entry
          BY <4>2, FoundType DEF Shape, NextRoundEntry, Entry
        <5>2. cache'[x] # NoEntry
          BY <2>3, <5>1, SentinelAssumption
        <5> QED
          BY <2>3, <5>2 DEF Found, Peer!Found
      <4> QED
        BY <4>1, <4>2
    <3> QED
      BY <2>3, <3>1, <3>2 DEF SameEntries
  <2>5. SameResult'
    <3>1. result' \in Result
      BY <1>1, <2>1, EvaluateRoundType
    <3>2. result2' = result'
      BY <1>2, <2>1, <2>2, PeerOperations DEF EvaluateRound, Peer!EvaluateRound
    <3> QED
      BY <3>1, <3>2 DEF SameResult
  <2>6. round2' = round' /\ rounds2' = rounds'
    <3>1. {a \in Addr : Peer!Chosen(Peer!Found(a))} = {a \in Addr : Chosen(Found(a))}
      BY <1>2, PeerOperations
    <3>2. Peer!NextRound(UpdatedRound) = NextRound(UpdatedRound)
      BY <3>1, PeerCardinality DEF NextRound, Peer!NextRound
    <3>3. round2' = round'
      BY <2>1, <2>2, <3>2 DEF EvaluateRound, Peer!EvaluateRound
    <3>4. rounds2' = rounds'
      BY <2>1, <2>2 DEF EvaluateRound, Peer!EvaluateRound, PairInv, SameChain
    <3> QED
      BY <3>3, <3>4
  <2> QED
    BY <1>3, <1>4, <2>4, <2>5, <2>6 DEF PairInv, SameChain
<1> QED
  BY <1>5, <1>6

\* A write of the first node that erases nothing.
LEMMA PairSyncCached ==
  ASSUME Shape, PairInv, NEW full \in BOOLEAN, SyncCached(full), UNCHANGED peerVars,
         \A a \in Addr : Found(a) # NoEntry => Found(a)' # NoEntry
  PROVE  PairInv'
<1>1. /\ db'.entries = [a \in Addr |-> SyncedEntry(a)]
      /\ cache' = NoEntries /\ job \in {Idle, Aborted}
      /\ result' = Stored(result) /\ undoResult' = Stored(undoResult)
      /\ UNCHANGED <<height, round, rounds, chain, coins, job>>
      /\ UNCHANGED peerVars
  BY DEF SyncCached, chainVars
<1>2. ASSUME NEW a \in Addr PROVE Found(a)' = Found(a)
  <2>1. Found(a)' = SyncedEntry(a)
    BY <1>1 DEF Found, NoEntries
  <2>2. ~Pending(undoResult)
    BY DEF PairInv, SameChain, Pending
  <2> QED
    BY <2>1, <2>2 DEF SyncedEntry, Found
<1>3. SameEntries'
  BY <1>1, <1>2 DEF PairInv, SameEntries, Found, Peer!Found, peerVars
<1>4. result = NoResult \/ result \in Result
  BY DEF Shape, TypeOK
<1>5. SameResult'
  <2>1. CASE result = NoResult
    BY <1>1, <2>1 DEF PairInv, SameResult, Stored, peerVars
  <2>2. CASE result \in Result
    <3>1. result' \in Result /\ result # NoResult /\ result' # NoResult
      BY <1>1, <2>2, SentinelAssumption DEF Stored, Result
    <3>2. /\ result'.round = result.round /\ result'.results = result.results
          /\ result'.payouts = result.payouts
      BY <1>1, <2>2, <3>1 DEF Stored, Result
    <3> QED
      BY <1>1, <3>1, <3>2 DEF PairInv, SameResult, peerVars
  <2> QED
    BY <1>4, <2>1, <2>2
<1>6. SameJob' /\ SameChain'
  BY <1>1 DEF PairInv, SameJob, SameChain, Stored, peerVars, Idle, Aborted
<1> QED
  BY <1>3, <1>5, <1>6 DEF PairInv

\* A write of the second node that erases nothing.
LEMMA PairPeerSyncCached ==
  ASSUME Shape, PairInv, NEW full \in BOOLEAN, Peer!SyncCached(full), UNCHANGED vars,
         \A a \in Addr : Peer!Found(a) # NoEntry => Peer!Found(a)' # NoEntry
  PROVE  PairInv'
<1>1. /\ db2'.entries = [a \in Addr |-> Peer!SyncedEntry(a)]
      /\ cache2' = NoEntries /\ job2 \in {Idle, Aborted}
      /\ result2' = Peer!Stored(result2) /\ undoResult2' = Peer!Stored(undoResult2)
      /\ UNCHANGED <<height2, round2, rounds2, chain2, coins2, job2>>
      /\ UNCHANGED <<cache, height, round, rounds, result, undoResult, db, chain, coins, job>>
  BY DEF Peer!SyncCached, Peer!chainVars, vars, cacheVars, diskVars, chainVars, NoEntries,
         Peer!NoEntries, Idle, Peer!Idle, Aborted, Peer!Aborted
<1>2. ASSUME NEW a \in Addr PROVE Peer!Found(a)' = Peer!Found(a)
  <2>1. Peer!Found(a)' = Peer!SyncedEntry(a)
    BY <1>1 DEF Peer!Found, NoEntries
  <2>2. ~Peer!Pending(undoResult2)
    BY DEF PairInv, SameChain, Peer!Pending
  <2> QED
    BY <2>1, <2>2 DEF Peer!SyncedEntry, Peer!Found
<1>3. SameEntries'
  <2>1. cache2' \in Entries
    BY <1>1 DEF NoEntries, Entries
  <2>2. \A a \in Addr : Found(a)' = Found(a)
    BY <1>1 DEF Found
  <2> QED
    BY <1>2, <2>1, <2>2 DEF PairInv, SameEntries
<1>4. SameResult'
  <2>1. CASE result2 = NoResult
    BY <1>1, <2>1 DEF PairInv, SameResult, Peer!Stored
  <2>2. CASE result2 # NoResult
    <3>1. result2 \in Result /\ result2' = [result2 EXCEPT !.synced = TRUE]
      BY <1>1, <2>2 DEF PairInv, SameResult, Peer!Stored
    <3>2. /\ result2' \in Result /\ result2' # NoResult
          /\ result2'.round = result2.round /\ result2'.results = result2.results
          /\ result2'.payouts = result2.payouts
      BY <3>1, SentinelAssumption DEF Result
    <3> QED
      BY <1>1, <2>2, <3>2 DEF PairInv, SameResult
  <2> QED
    BY <2>1, <2>2
<1>5. SameJob' /\ SameChain'
  BY <1>1 DEF PairInv, SameJob, SameChain, Peer!Stored, Idle, Aborted
<1> QED
  BY <1>3, <1>4, <1>5 DEF PairInv

LEMMA PairFlushCoins ==
  ASSUME PairInv,
         \/ FlushCoins /\ UNCHANGED peerVars
         \/ Peer!FlushCoins /\ UNCHANGED vars
         \/ UNCHANGED <<vars, peerVars>>
  PROVE  PairInv'
<1>1. /\ UNCHANGED <<cache, height, round, rounds, result, undoResult, db, chain, coins, job>>
      /\ UNCHANGED <<cache2, height2, round2, rounds2, result2, undoResult2, db2, chain2,
                     coins2, job2>>
  BY DEF FlushCoins, Peer!FlushCoins, vars, peerVars, cacheVars, diskVars, chainVars,
         Peer!cacheVars, Peer!chainVars
<1>2. SameEntries'
  BY <1>1 DEF PairInv, SameEntries, Found, Peer!Found
<1> QED
  BY <1>1, <1>2 DEF PairInv, SameResult, SameJob, SameChain, Pending

LEMMA PairNextOK ==
  ASSUME Shape, PairInv, [PairNext]_<<vars, peerVars>>, [EntriesKept]_<<vars, peerVars>>
  PROVE  PairInv'
<1>1. CASE UNCHANGED <<vars, peerVars>>
  BY <1>1, PairFlushCoins
<1>2. CASE BlockStep
  BY <1>2, PairConnectTip, PairProcessInput, PairProcessOutput, PairCommitBlock DEF BlockStep
<1>3. CASE Write /\ EntriesKept
  <2>1. CASE (\E full \in BOOLEAN : SyncCached(full)) /\ UNCHANGED peerVars
    BY <1>3, <2>1, PairSyncCached DEF EntriesKept
  <2>2. CASE (\E full \in BOOLEAN : Peer!SyncCached(full)) /\ UNCHANGED vars
    BY <1>3, <2>2, PairPeerSyncCached DEF EntriesKept
  <2>3. CASE \/ FlushCoins /\ UNCHANGED peerVars
             \/ Peer!FlushCoins /\ UNCHANGED vars
    BY <2>3, PairFlushCoins
  <2> QED
    BY <1>3, <2>1, <2>2, <2>3 DEF Write
<1> QED
  BY <1>1, <1>2, <1>3 DEF PairNext

\* The first node of a pair behaves as any node does.
LEMMA PairShape == PairSpec => []Shape
<1>1. PairInit => Shape
  BY ShapeInit DEF PairInit
<1>2. [PairNext]_<<vars, peerVars>> => [Next]_vars
  <2>1. BlockStep => Next
    BY DEF BlockStep, Next
  <2>2. Write => [Next]_vars
    BY DEF Write, Next
  <2> QED
    BY <2>1, <2>2 DEF PairNext
<1> QED
  BY <1>1, <1>2, ShapeNext, PTL DEF PairSpec

\* Two nodes with the same chain have the same list of payouts for a round
\* whenever each of them wrote its rewards ("to make sure the slices are the
\* same network wide", rewards.cpp), unless a write erased an entry: SyncCached
\* removes those with a balance of zero, and with them their activation.  The
\* run rewards_pair shows that one erased entry is enough.
THEOREM OnlyErasedEntriesSplitPayouts == PairSpec /\ NothingErased => []SamePayouts
<1>1. PairInit => PairInv
  BY PairInitOK
<1>2. /\ Shape /\ PairInv
      /\ [PairNext]_<<vars, peerVars>> /\ [EntriesKept]_<<vars, peerVars>>
      => PairInv'
  BY PairNextOK
<1>3. PairInv => SamePayouts
  BY DEF PairInv, SameResult, SamePayouts
<1> QED
  BY <1>1, <1>2, <1>3, PairShape, PTL DEF PairSpec, NothingErased
=============================================================================
