------------------------- MODULE RateLimiterProofs -------------------------
(***************************************************************************)
(* The rate limit holds for every limit, window and clock: no window ever  *)
(* holds more than Limit orders.  The argument: the stamps that are kept   *)
(* are a suffix of all slots ever taken, so when n more are taken, the     *)
(* slot Limit places before each of them has already left the window.      *)
(***************************************************************************)
EXTENDS RateLimiter, WellFoundedInduction, FiniteSetTheorems, TLAPS

\* Stale is well defined: some prefix of q is exactly what left the window.
LEMMA StaleExists ==
    ASSUME NEW q \in Seq(Nat), NEW t \in Int
    PROVE  /\ Stale(q, t) \in 0 .. Len(q)
           /\ \A i \in 1 .. Stale(q, t) : q[i] <= t - Window
           /\ Stale(q, t) < Len(q) => q[Stale(q, t) + 1] > t - Window
  <1> DEFINE fresh == {k \in 0 .. Len(q) : k = Len(q) \/ q[k + 1] > t - Window}
  <1>1. fresh \subseteq Nat /\ Len(q) \in fresh
    OBVIOUS
  <1>2. PICK k \in fresh : \A m \in fresh : ~(m < k)
    <2>1. \E k \in fresh : \A m \in fresh : ~(<<m, k>> \in OpToRel(<, Nat))
      BY <1>1, NatLessThanWellFounded, WFMin, Zenon
    <2> QED BY <1>1, <2>1 DEF OpToRel
  <1>3. \A i \in 1 .. k : q[i] <= t - Window
    <2> TAKE i \in 1 .. k
    <2>1. i - 1 \in 0 .. Len(q) /\ i - 1 < k /\ i - 1 # Len(q)
      OBVIOUS
    <2>2. i - 1 \notin fresh
      BY <1>2, <2>1
    <2>3. ~(q[(i - 1) + 1] > t - Window)
      BY <2>1, <2>2
    <2>4. q[i] \in Nat /\ (i - 1) + 1 = i
      OBVIOUS
    <2> QED BY <2>3, <2>4, LimiterAssumption
  <1> QED BY <1>2, <1>3 DEF Stale

\* What expiring leaves: the most recent slots, and the newest one dropped has
\* left the window.
LEMMA CurrentIsRecent ==
    ASSUME TypeOK, StampsAreTheRecent
    PROVE  LET dropped == Len(taken) - Len(Current)
           IN  /\ Current \in Seq(Nat)
               /\ dropped >= 0
               /\ \A j \in 1 .. Len(Current) : Current[j] = taken[dropped + j]
               /\ dropped > 0 => taken[dropped] <= now - Window
               /\ Len(Current) <= Limit
  <1> DEFINE k == Stale(stamps, now)
             old == Len(taken) - Len(stamps)
             dropped == Len(taken) - Len(Current)
  <1> USE LimiterAssumption DEF TypeOK, StampsAreTheRecent
  <1>0. stamps \in Seq(Nat) /\ now \in Int
    OBVIOUS
  <1>1. /\ k \in 0 .. Len(stamps)
        /\ \A i \in 1 .. k : stamps[i] <= now - Window
    BY ONLY <1>0, StaleExists, Zenon
  <1>2. Current = SubSeq(stamps, k + 1, Len(stamps))
    BY DEF Current, Expired
  <1> HIDE DEF k
  <1>3. /\ Current \in Seq(Nat)
        /\ Len(Current) = Len(stamps) - k
        /\ \A j \in 1 .. Len(Current) : Current[j] = stamps[k + j]
    BY ONLY <1>0, <1>1, <1>2
  <1>4. dropped = old + k
    BY <1>1, <1>3
  <1>5. \A j \in 1 .. Len(Current) : Current[j] = taken[dropped + j]
    BY <1>1, <1>3, <1>4, SMTT(30)
  <1>6. ASSUME dropped > 0 PROVE taken[dropped] <= now - Window
    <2>1. CASE k = 0
      BY <2>1, <1>4, <1>6
    <2>2. CASE k > 0
      <3>1. k \in 1 .. Len(stamps) /\ stamps[k] = taken[old + k]
        BY <1>1, <2>2
      <3>2. stamps[k] <= now - Window
        BY <1>1, <3>1
      <3> QED BY ONLY <3>1, <3>2, <1>4
    <2> QED BY <1>1, <2>1, <2>2
  <1> QED BY <1>1, <1>3, <1>4, <1>5, <1>6

\* A call that takes no slot keeps the invariant.
LEMMA ExpiryKeeps ==
    ASSUME IInv, stamps' = Current, taken' = taken, now' = now
    PROVE  IInv'
  <1> USE DEF IInv
  <1>1. TypeOK' /\ StampsAreTheRecent'
    BY CurrentIsRecent DEF TypeOK, StampsAreTheRecent
  <1>2. NeverTooMany'
    BY DEF NeverTooMany
  <1> QED BY <1>1, <1>2

\* Taking n slots that fit keeps the invariant.
LEMMA TakingKeeps ==
    ASSUME IInv, NEW n \in Counts, NEW d \in Steps, Acquire(n, d), Fits(n)
    PROVE  IInv'
  <1> DEFINE new == [i \in 1 .. n |-> now + d]
             dropped == Len(taken) - Len(Current)
  <1> USE LimiterAssumption DEF IInv, TypeOK, Counts, Steps
  <1>1. /\ now' = now + d
        /\ stamps' = Current \o new
        /\ taken' = taken \o new
        /\ Len(Current) + n <= Limit
    BY DEF Acquire, Fits, FitsAt, Current
  <1>2. /\ now' \in Nat /\ now' >= now
        /\ new \in Seq(Nat) /\ Len(new) = n
    BY <1>1
  <1>3. /\ Current \in Seq(Nat)
        /\ dropped >= 0
        /\ \A j \in 1 .. Len(Current) : Current[j] = taken[dropped + j]
        /\ dropped > 0 => taken[dropped] <= now - Window
    BY CurrentIsRecent
  <1>4. /\ Len(taken') = Len(taken) + n
        /\ \A i \in 1 .. Len(taken) : taken'[i] = taken[i]
        /\ \A i \in Len(taken) + 1 .. Len(taken') : taken'[i] = now'
    BY <1>1, <1>2
  <1>5. /\ Len(stamps') = Len(Current) + n
        /\ \A j \in 1 .. Len(Current) : stamps'[j] = Current[j]
        /\ \A j \in Len(Current) + 1 .. Len(stamps') : stamps'[j] = now'
    BY <1>1, <1>2, <1>3
  <1>6. TypeOK'
    BY <1>1, <1>2, <1>3
  <1> HIDE DEF new
  <1>7. /\ n \in Nat /\ Limit \in Nat /\ Window \in Nat /\ now \in Nat
        /\ Len(taken) \in Nat
        /\ \A i \in 1 .. Len(taken) : taken[i] \in Nat
        /\ \A i, j \in 1 .. Len(taken) : i <= j => taken[i] <= taken[j]
        /\ \A i \in 1 .. Len(taken) : taken[i] <= now
    <2>1. taken \in Seq(Nat) /\ Len(taken) \in Nat
      OBVIOUS
    <2>2. \A i \in 1 .. Len(taken) : taken[i] \in Nat
      BY ONLY <2>1
    <2> QED BY <2>1, <2>2 DEF StampsAreTheRecent
  <1> HIDE DEF dropped
  <1>8. StampsAreTheRecent'
    <2>1. Len(taken') - Len(stamps') = dropped /\ Len(stamps') <= Limit
      BY <1>1, <1>3, <1>4, <1>5 DEF dropped
    <2>2. \A i \in 1 .. Len(taken') : taken'[i] <= now'
      <3> SUFFICES ASSUME NEW i \in 1 .. Len(taken') PROVE taken'[i] <= now'
        OBVIOUS
      <3>1. CASE i \in 1 .. Len(taken)
        BY ONLY <3>1, <1>2, <1>4, <1>7
      <3>2. CASE i \in Len(taken) + 1 .. Len(taken')
        BY ONLY <3>2, <1>2, <1>4
      <3> QED BY ONLY <3>1, <3>2, <1>4, <1>7
    <2>3. \A i, j \in 1 .. Len(taken') : i <= j => taken'[i] <= taken'[j]
      <3> SUFFICES ASSUME NEW i \in 1 .. Len(taken'), NEW j \in 1 .. Len(taken'), i <= j
                   PROVE  taken'[i] <= taken'[j]
        OBVIOUS
      <3>1. CASE j \in 1 .. Len(taken)
        <4>1. i \in 1 .. Len(taken)
          BY ONLY <3>1, <1>7, i \in 1 .. Len(taken'), i <= j
        <4> QED BY ONLY <4>1, <3>1, <1>4, <1>7, i <= j
      <3>2. CASE j \in Len(taken) + 1 .. Len(taken')
        BY ONLY <3>2, <1>4, <2>2
      <3> QED BY ONLY <3>1, <3>2, <1>4, <1>7
    <2>4. \A j \in 1 .. Len(stamps') : stamps'[j] = taken'[dropped + j]
      <3>1. dropped \in Nat /\ Len(taken) = dropped + Len(Current)
        BY <1>3 DEF dropped
      <3> SUFFICES ASSUME NEW j \in 1 .. Len(stamps')
                   PROVE  stamps'[j] = taken'[dropped + j]
        OBVIOUS
      <3>2. CASE j \in 1 .. Len(Current)
        <4>1. dropped + j \in 1 .. Len(taken)
          BY ONLY <3>1, <3>2, <1>3
        <4> QED BY ONLY <4>1, <3>2, <1>3, <1>4, <1>5
      <3>3. CASE j \in Len(Current) + 1 .. Len(stamps')
        <4>1. dropped + j \in Len(taken) + 1 .. Len(taken')
          BY ONLY <3>1, <3>3, <1>3, <1>4, <1>5, <1>7
        <4> QED BY ONLY <4>1, <3>3, <1>4, <1>5
      <3> QED BY ONLY <3>2, <3>3, <1>3, <1>5, <1>7
    <2>5. dropped > 0 => taken'[dropped] <= now' - Window
      <3> SUFFICES ASSUME dropped > 0 PROVE taken'[dropped] <= now' - Window
        OBVIOUS
      <3>1. dropped \in 1 .. Len(taken)
        BY <1>3 DEF dropped
      <3> QED BY ONLY <1>2, <1>3, <1>4, <1>7, <3>1, SMTT(30)
    <2> QED BY <1>3, <2>1, <2>2, <2>3, <2>4, <2>5 DEF StampsAreTheRecent
  <1>9. NeverTooMany'
    <2> SUFFICES ASSUME NEW i \in 1 .. Len(taken'), i + Limit <= Len(taken')
                 PROVE  taken'[i + Limit] >= taken'[i] + Window
      BY DEF NeverTooMany
    <2>1. CASE i + Limit <= Len(taken)
      <3>1. i \in 1 .. Len(taken) /\ i + Limit \in 1 .. Len(taken)
        BY <2>1, <1>7
      <3>2. taken[i + Limit] >= taken[i] + Window
        BY <2>1, <3>1 DEF NeverTooMany
      <3> QED BY ONLY <1>4, <3>1, <3>2
    <2>2. CASE i + Limit > Len(taken)
      <3>1. taken'[i + Limit] = now'
        BY <2>2, <1>4, <1>7
      <3>2. i <= dropped /\ dropped \in 1 .. Len(taken)
        BY <1>1, <1>3, <1>4, <1>7 DEF dropped
      <3>3. taken[i] <= taken[dropped] /\ taken'[i] = taken[i]
        BY ONLY <3>2, <1>4, <1>7
      <3>4. taken[dropped] <= now - Window /\ taken[i] \in Nat /\ taken[dropped] \in Nat
        BY ONLY <3>2, <1>3, <1>7
      <3> QED BY ONLY <3>1, <3>3, <3>4, <1>2, <1>7, SMTT(30)
    <2> QED BY <1>7, <2>1, <2>2
  <1> QED BY <1>6, <1>8, <1>9

\* The invariant of the limiter (RateLimiter.check, acquire, reset, _expire).
THEOREM LimiterInvariant == Spec => []IInv
  <1>1. Init => IInv
    BY LimiterAssumption DEF Init, IInv, TypeOK, StampsAreTheRecent, NeverTooMany
  <1>2. IInv /\ [Next]_vars => IInv'
    <2> SUFFICES ASSUME IInv, [Next]_vars PROVE IInv'
      OBVIOUS
    <2>1. ASSUME NEW n \in Counts, Check(n) PROVE IInv'
      BY <2>1, ExpiryKeeps DEF Check
    <2>2. ASSUME NEW n \in Counts, NEW d \in Steps, Acquire(n, d) PROVE IInv'
      <3>1. CASE Fits(n)
        BY <2>2, <3>1, TakingKeeps
      <3>2. CASE ~Fits(n)
        BY <2>2, <3>2, ExpiryKeeps DEF Acquire
      <3> QED BY <3>1, <3>2
    <2>3. CASE Query
      BY <2>3, ExpiryKeeps DEF Query
    <2>4. CASE Reset
      BY <2>4, LimiterAssumption
         DEF Reset, IInv, TypeOK, StampsAreTheRecent, NeverTooMany
    <2>5. ASSUME NEW d \in Steps, Tick(d) PROVE IInv'
      <3>1. now' = now + d /\ d \in Nat /\ UNCHANGED <<stamps, taken>>
        BY <2>5 DEF Tick, Steps
      <3>2. TypeOK'
        BY <3>1 DEF IInv, TypeOK
      <3>3. \A i \in 1 .. Len(taken) : taken[i] <= now'
        <4>1. /\ taken \in Seq(Nat) /\ now \in Nat
              /\ \A i \in 1 .. Len(taken) : taken[i] <= now
          BY DEF IInv, TypeOK, StampsAreTheRecent
        <4>2. \A i \in 1 .. Len(taken) : taken[i] \in Nat
          BY ONLY <4>1
        <4> QED BY ONLY <4>1, <4>2, <3>1
      <3>4. LET dropped == Len(taken) - Len(stamps)
            IN  dropped > 0 => taken[dropped] <= now' - Window
        <4> DEFINE dropped == Len(taken) - Len(stamps)
        <4> SUFFICES ASSUME dropped > 0 PROVE taken[dropped] <= now' - Window
          OBVIOUS
        <4>1. /\ taken \in Seq(Nat) /\ dropped \in 1 .. Len(taken)
              /\ taken[dropped] <= now - Window
              /\ now \in Nat /\ Window \in Nat
          BY LimiterAssumption DEF IInv, TypeOK, StampsAreTheRecent
        <4> HIDE DEF dropped
        <4>2. taken[dropped] \in Nat
          BY ONLY <4>1
        <4> QED BY ONLY <4>1, <4>2, <3>1
      <3>5. StampsAreTheRecent'
        BY <3>1, <3>3, <3>4 DEF IInv, StampsAreTheRecent
      <3> QED BY <3>1, <3>2, <3>5 DEF IInv, NeverTooMany
    <2>6. CASE UNCHANGED vars
      BY <2>6 DEF vars, IInv, TypeOK, StampsAreTheRecent, NeverTooMany
    <2> QED BY <2>1, <2>2, <2>3, <2>4, <2>5, <2>6 DEF Next
  <1> QED BY <1>1, <1>2, PTL DEF Spec

\* Type correctness of the limiter's state.
THEOREM LimiterTypeCorrect == Spec => []TypeOK
  <1>1. IInv => TypeOK
    BY DEF IInv
  <1> QED BY <1>1, LimiterInvariant, PTL

\* No rolling window ever holds more than Limit orders, for every limit, window
\* length and sequence of calls.
THEOREM LimitHolds == Spec => []NeverTooMany
  <1>1. IInv => NeverTooMany
    BY DEF IInv
  <1> QED BY <1>1, LimiterInvariant, PTL

\* Counting the stamps that are kept counts the orders of the window.
THEOREM StampsAreTheWindow == Spec => []StampsAreTheRecent
  <1>1. IInv => StampsAreTheRecent
    BY DEF IInv
  <1> QED BY <1>1, LimiterInvariant, PTL

-----------------------------------------------------------------------------
(* The announced wait, and slots that were found free *)

\* The slots are taken in the order of the clock, so the ones that count at a later
\* time t are all after the first k, where the k-th has left the window by then and
\* the next has not.
LEMMA CountTaken ==
    ASSUME IInv, NEW t \in Nat, t >= now, NEW k \in 0 .. Len(taken)
    PROVE  /\ Cardinality(TakenAt(t)) \in Nat
           /\ (k > 0 => taken[k] <= t - Window)
                  => Cardinality(TakenAt(t)) <= Len(taken) - k
           /\ (k < Len(taken) => taken[k + 1] > t - Window)
                  => Cardinality(TakenAt(t)) >= Len(taken) - k
  <1> USE LimiterAssumption
  <1>1. /\ taken \in Seq(Nat) /\ Len(taken) \in Nat /\ now \in Nat /\ Window \in Nat
        /\ \A i \in 1 .. Len(taken) : taken[i] \in Nat /\ taken[i] <= now
        /\ \A i, j \in 1 .. Len(taken) : i <= j => taken[i] <= taken[j]
    BY SMTT(30) DEF IInv, TypeOK, StampsAreTheRecent
  <1>2. TakenAt(t) \subseteq 1 .. Len(taken)
    BY DEF TakenAt
  <1>3. /\ IsFiniteSet(1 .. Len(taken)) /\ IsFiniteSet((k + 1) .. Len(taken))
        /\ Cardinality((k + 1) .. Len(taken)) = Len(taken) - k
    BY <1>1, FS_Interval
  <1>4. IsFiniteSet(TakenAt(t)) /\ Cardinality(TakenAt(t)) \in Nat
    BY <1>2, <1>3, FS_Subset, FS_CardinalityType
  <1>5. ASSUME k > 0 => taken[k] <= t - Window
        PROVE  Cardinality(TakenAt(t)) <= Len(taken) - k
    <2>1. TakenAt(t) \subseteq (k + 1) .. Len(taken)
      <3> SUFFICES ASSUME NEW i \in TakenAt(t), i <= k PROVE FALSE
        BY <1>1, <1>2
      <3>1. i \in 1 .. Len(taken) /\ k \in 1 .. Len(taken) /\ taken[i] > t - Window
        BY <1>2 DEF TakenAt
      <3>2. taken[i] <= taken[k] /\ taken[k] <= t - Window
        BY <1>1, <1>5, <3>1
      <3> QED BY ONLY <1>1, <3>1, <3>2, t \in Nat
    <2> QED BY <1>3, <2>1, FS_Subset
  <1>6. ASSUME k < Len(taken) => taken[k + 1] > t - Window
        PROVE  Cardinality(TakenAt(t)) >= Len(taken) - k
    <2>1. (k + 1) .. Len(taken) \subseteq TakenAt(t)
      <3> SUFFICES ASSUME NEW i \in (k + 1) .. Len(taken) PROVE i \in TakenAt(t)
        OBVIOUS
      <3>1. i \in 1 .. Len(taken) /\ k + 1 \in 1 .. Len(taken) /\ k + 1 <= i
        BY <1>1
      <3>2. taken[k + 1] <= taken[i] /\ taken[k + 1] > t - Window /\ taken[i] <= now
        BY <1>1, <1>6, <3>1
      <3>3. taken[i] > t - Window /\ taken[i] <= t
        BY ONLY <1>1, <3>1, <3>2, t \in Nat, t >= now
      <3> QED BY <3>1, <3>3 DEF TakenAt
    <2> QED BY <1>3, <1>4, <2>1, FS_Subset
  <1> QED BY <1>4, <1>5, <1>6

\* What Current keeps is still in the window.
LEMMA CurrentIsInside ==
    ASSUME IInv, NEW j \in 1 .. Len(Current)
    PROVE  Current[j] > now - Window
  <1> DEFINE k == Stale(stamps, now)
             old == Len(taken) - Len(stamps)
  <1> USE LimiterAssumption
  <1>0. /\ stamps \in Seq(Nat) /\ taken \in Seq(Nat) /\ now \in Nat /\ now \in Int
        /\ Window \in Nat /\ Len(stamps) \in Nat /\ Len(taken) \in Nat
    BY DEF IInv, TypeOK
  <1>1. /\ old \in Nat /\ old + Len(stamps) = Len(taken)
        /\ \A i \in 1 .. Len(stamps) : stamps[i] = taken[old + i]
        /\ \A i, m \in 1 .. Len(taken) : i <= m => taken[i] <= taken[m]
    BY <1>0 DEF IInv, StampsAreTheRecent
  <1>2. k \in 0 .. Len(stamps) /\ (k < Len(stamps) => stamps[k + 1] > now - Window)
    BY ONLY <1>0, StaleExists, Zenon
  <1>3. Current = SubSeq(stamps, k + 1, Len(stamps))
    BY DEF Current, Expired
  <1> HIDE DEF k, old
  <1>4. j \in Nat \ {0} /\ k + j \in 1 .. Len(stamps) /\ Current[j] = stamps[k + j]
    BY ONLY <1>0, <1>2, <1>3, j \in 1 .. Len(Current), SMTT(30)
  <1>5. /\ k + 1 \in 1 .. Len(stamps) /\ k + 1 <= k + j
        /\ old + (k + 1) \in 1 .. Len(taken) /\ old + (k + j) \in 1 .. Len(taken)
    <2>1. k \in Nat /\ old \in Nat /\ Len(stamps) \in Nat /\ Len(taken) = old + Len(stamps)
      BY ONLY <1>0, <1>1, <1>2
    <2>2. j \in Nat \ {0} /\ k + j <= Len(stamps)
      BY ONLY <1>4, <2>1
    <2> QED BY ONLY <2>1, <2>2
  <1>6. stamps[k + 1] <= stamps[k + j]
    BY ONLY <1>0, <1>1, <1>2, <1>4, <1>5
  <1>7. stamps[k + 1] \in Nat /\ stamps[k + j] \in Nat
    BY ONLY <1>0, <1>4, <1>5, SMTT(30)
  <1>8. stamps[k + 1] > now - Window
    <2>1. k \in Nat /\ Len(stamps) \in Nat /\ k < Len(stamps)
      BY ONLY <1>0, <1>2, <1>5
    <2> QED BY <1>2, <2>1
  <1> QED BY ONLY <1>0, <1>4, <1>6, <1>7, <1>8

\* With too little room for n orders there is room once the stamp that is in their way
\* leaves the window, which is after this many seconds, and not before.
LEMMA RoomAfterTheWait ==
    ASSUME IInv, NEW n \in 1 .. Limit, Len(Current) + n > Limit
    PROVE  LET w == Current[Len(Current) + n - Limit] + Window - now
           IN  w \in Nat /\ w > 0 /\ Opens(n, w)
  <1> DEFINE c == Len(Current)
             dropped == Len(taken) - c
             m == c + n - Limit
             e == Current[m]
             w == e + Window - now
  <1>0. n \in 1 .. Limit /\ Len(Current) + n > Limit
    OBVIOUS
  <1> USE LimiterAssumption
  <1>1. /\ Current \in Seq(Nat) /\ dropped >= 0
        /\ \A j \in 1 .. c : Current[j] = taken[dropped + j]
        /\ c <= Limit
    BY CurrentIsRecent DEF IInv
  <1>2. /\ taken \in Seq(Nat) /\ Len(taken) \in Nat /\ now \in Nat
        /\ Window \in Nat /\ Limit \in Nat
    BY DEF IInv, TypeOK
  <1>3. c \in Nat /\ m \in 1 .. c /\ dropped \in Nat /\ dropped + m \in 1 .. Len(taken)
    BY <1>0, <1>1, <1>2
  <1>4. e \in Nat /\ e = taken[dropped + m] /\ e > now - Window
    BY <1>1, <1>3, CurrentIsInside, SMTT(30)
  <1> HIDE DEF e, dropped, m
  <1>5. w \in Nat /\ w > 0
    BY ONLY <1>2, <1>4
  <1>6. Cardinality(TakenAt(now + w)) + n <= Limit
    <2>1. now + w \in Nat /\ now + w >= now /\ (now + w) - Window = e
      BY ONLY <1>2, <1>4, <1>5, SMTT(30)
    <2>2. dropped + m \in 0 .. Len(taken) /\ taken[dropped + m] <= (now + w) - Window
      BY ONLY <1>2, <1>3, <1>4, <2>1
    <2>3. /\ Cardinality(TakenAt(now + w)) \in Nat
          /\ Cardinality(TakenAt(now + w)) <= Len(taken) - (dropped + m)
      BY ONLY <2>1, <2>2, CountTaken, IInv
    <2> QED BY <1>0, <1>2, <1>3, <2>3 DEF dropped, m
  <1>7. ASSUME NEW d \in 0 .. w - 1 PROVE Cardinality(TakenAt(now + d)) + n > Limit
    <2>1. now + d \in Nat /\ now + d >= now /\ e > (now + d) - Window
      BY ONLY <1>2, <1>4, <1>5, d \in 0 .. w - 1
    <2>2. /\ dropped + m - 1 \in 0 .. Len(taken) /\ (dropped + m - 1) + 1 = dropped + m
          /\ taken[(dropped + m - 1) + 1] > (now + d) - Window
      BY ONLY <1>2, <1>3, <1>4, <2>1
    <2>3. /\ Cardinality(TakenAt(now + d)) \in Nat
          /\ Cardinality(TakenAt(now + d)) >= Len(taken) - (dropped + m - 1)
      BY ONLY <2>1, <2>2, CountTaken, IInv
    <2> QED BY <1>0, <1>2, <1>3, <2>3 DEF dropped, m
  <1> QED BY <1>5, <1>6, <1>7 DEF Opens, e, m

\* While the stamps that are kept leave room there is room at once.
LEMMA RoomNow ==
    ASSUME IInv, Len(Current) < Limit
    PROVE  Opens(1, 0)
  <1> DEFINE dropped == Len(taken) - Len(Current)
  <1> USE LimiterAssumption
  <1>1. /\ Current \in Seq(Nat) /\ dropped >= 0
        /\ dropped > 0 => taken[dropped] <= now - Window
    BY CurrentIsRecent DEF IInv
  <1>2. taken \in Seq(Nat) /\ now \in Nat /\ dropped \in 0 .. Len(taken)
    BY <1>1 DEF IInv, TypeOK
  <1>3. /\ Cardinality(TakenAt(now)) \in Nat
        /\ Cardinality(TakenAt(now)) <= Len(taken) - dropped
    BY <1>1, <1>2, CountTaken
  <1>4. Cardinality(TakenAt(now)) + 1 <= Limit /\ now + 0 = now /\ 0 .. 0 - 1 = {}
    BY <1>1, <1>2, <1>3
  <1> QED BY <1>4 DEF Opens

\* A refusal tells the wait that is needed.
LEMMA RefusalIsExact ==
    ASSUME IInv, NEW n \in Counts, ~Fits(n), reply' = Refusal(n), taken' = taken, now' = now
    PROVE  WaitIsExact'
  <1> USE LimiterAssumption DEF Counts
  <1>1. \A m, w : Opens(m, w)' <=> Opens(m, w)
    BY DEF Opens, TakenAt
  <1>2. CASE n > Limit
    BY <1>2 DEF Refusal, WaitIsExact
  <1>3. CASE n <= Limit
    <2>1. n \in 1 .. Limit /\ Len(Current) + n > Limit
      <3>1. Len(Current) \in Nat
        BY CurrentIsRecent DEF IInv
      <3> QED BY <1>3, <3>1 DEF Fits, FitsAt, Current
    <2>2. Wait(n) \in Nat /\ Opens(n, Wait(n))
      BY <2>1, RoomAfterTheWait DEF Wait
    <2>3. reply' = [answer |-> "wait", count |-> n, seconds |-> Wait(n)]
      BY <1>3 DEF Refusal
    <2> QED BY <1>1, <2>2, <2>3 DEF WaitIsExact
  <1> QED BY <1>2, <1>3

\* So does an answer to remaining and retry_after.
LEMMA QueryIsExact ==
    ASSUME IInv, Query
    PROVE  WaitIsExact'
  <1> USE LimiterAssumption
  <1>1. \A m, w : Opens(m, w)' <=> Opens(m, w)
    BY DEF Query, Opens, TakenAt
  <1>2. /\ reply'.answer = "query"
        /\ reply'.seconds = IF Len(Current) < Limit THEN 0
                            ELSE IF Current[1] + Window > now
                                 THEN Current[1] + Window - now ELSE 0
    BY DEF Query
  <1>3. Opens(1, reply'.seconds)
    <2>1. CASE Len(Current) < Limit
      BY <1>2, <2>1, RoomNow
    <2>2. CASE ~(Len(Current) < Limit)
      <3>1. Len(Current) \in Nat /\ Len(Current) <= Limit
        BY CurrentIsRecent DEF IInv
      <3>2. Len(Current) = Limit /\ Len(Current) + 1 - Limit = 1 /\ 1 \in 1 .. Limit
        BY <2>2, <3>1
      <3>3. Current[1] + Window - now > 0 /\ Opens(1, Current[1] + Window - now)
        BY <3>2, RoomAfterTheWait
      <3>4. Current[1] + Window > now
        <4>1. Current[1] \in Nat /\ now \in Nat
          BY <3>2, CurrentIsRecent DEF IInv, TypeOK
        <4> QED BY <3>3, <4>1
      <3> QED BY <1>2, <2>2, <3>3, <3>4
    <2> QED BY <2>1, <2>2
  <1> QED BY <1>1, <1>2, <1>3 DEF WaitIsExact

\* A caller told to wait finds room after exactly that many seconds if nobody takes a
\* slot meanwhile, and not a second earlier, for every limit, window and history
\* (RateLimiter.check, retry_after).
THEOREM WaitsAreExact == Spec => []WaitIsExact
  <1>1. Init => WaitIsExact
    BY DEF Init, WaitIsExact
  <1>2. IInv /\ WaitIsExact /\ [Next]_vars => WaitIsExact'
    <2> SUFFICES ASSUME IInv, WaitIsExact, [Next]_vars PROVE WaitIsExact'
      OBVIOUS
    <2>1. ASSUME NEW n \in Counts, Check(n) PROVE WaitIsExact'
      <3>1. CASE Fits(n)
        BY <2>1, <3>1 DEF Check, WaitIsExact
      <3>2. CASE ~Fits(n)
        BY <2>1, <3>2, RefusalIsExact DEF Check
      <3> QED BY <3>1, <3>2
    <2>2. ASSUME NEW n \in Counts, NEW d \in Steps, Acquire(n, d) PROVE WaitIsExact'
      <3>1. CASE Fits(n)
        BY <2>2, <3>1 DEF Acquire, WaitIsExact
      <3>2. CASE ~Fits(n)
        BY <2>2, <3>2, RefusalIsExact DEF Acquire
      <3> QED BY <3>1, <3>2
    <2>3. CASE Query
      BY <2>3, QueryIsExact
    <2>4. CASE Reset \/ (\E d \in Steps : Tick(d))
      BY <2>4 DEF Reset, Tick, WaitIsExact
    <2>5. CASE UNCHANGED vars
      BY <2>5 DEF vars, WaitIsExact, Opens, TakenAt
    <2> QED BY <2>1, <2>2, <2>3, <2>4, <2>5 DEF Next
  <1> QED BY <1>1, <1>2, LimiterInvariant, PTL DEF Spec

\* Slots found free stay free while nobody takes any, at every later reading of the
\* clock: the acquire that follows a check in one submit is not refused by time alone
\* (RateLimiter.check, acquire).
THEOREM SlotsStayFree == Spec => []CheckedSlotsStayFree
  <1>1. IInv => CheckedSlotsStayFree
    <2> SUFFICES ASSUME IInv, NEW n \in Counts, NEW d \in 0 .. Window, Fits(n)
                 PROVE  FitsAt(n, now + d)
      BY DEF CheckedSlotsStayFree
    <2> DEFINE k == Stale(stamps, now)
               l == Stale(stamps, now + d)
    <2>1. /\ stamps \in Seq(Nat) /\ Len(stamps) \in Nat /\ now \in Int /\ now + d \in Int
          /\ now \in Nat /\ d \in Nat /\ Window \in Nat /\ n \in Nat /\ Limit \in Nat
      BY LimiterAssumption DEF IInv, TypeOK, Counts
    <2>2. k \in 0 .. Len(stamps) /\ \A i \in 1 .. k : stamps[i] <= now - Window
      BY ONLY <2>1, StaleExists, Zenon
    <2>3. /\ l \in 0 .. Len(stamps)
          /\ l < Len(stamps) => stamps[l + 1] > (now + d) - Window
      BY ONLY <2>1, StaleExists, Zenon
    <2>4. /\ Expired(stamps, now) = SubSeq(stamps, k + 1, Len(stamps))
          /\ Expired(stamps, now + d) = SubSeq(stamps, l + 1, Len(stamps))
      BY DEF Expired
    <2> HIDE DEF k, l
    <2>5. k <= l
      <3> SUFFICES ASSUME l < k PROVE FALSE
        BY <2>2, <2>3
      <3>1. l + 1 \in 1 .. k /\ l < Len(stamps) /\ stamps[l + 1] \in Nat
        BY <2>1, <2>2, <2>3
      <3>2. stamps[l + 1] <= now - Window /\ stamps[l + 1] > (now + d) - Window
        BY <2>2, <2>3, <3>1
      <3> QED BY ONLY <2>1, <3>1, <3>2
    <2>6. /\ Len(Expired(stamps, now)) = Len(stamps) - k
          /\ Len(Expired(stamps, now + d)) = Len(stamps) - l
      BY ONLY <2>1, <2>2, <2>3, <2>4
    <2> QED BY <2>1, <2>2, <2>3, <2>5, <2>6 DEF Fits, FitsAt
  <1> QED BY <1>1, LimiterInvariant, PTL
=============================================================================
