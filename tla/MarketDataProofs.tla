-------------------------- MODULE MarketDataProofs --------------------------
(***************************************************************************)
(* Theorems about the market-data part of the API process, for every set   *)
(* of series, threads, lookbacks and faults: that a backfill plan makes    *)
(* progress, that a stored row is a closed bar of its market, and that a   *)
(* signal finds the bars of its window stored and is handed no hole.       *)
(***************************************************************************)
EXTENDS MarketData, BarIntervalsProofs, FiniteSetTheorems

Opening(ts) == \E k \in Int : ts = k * Period

-----------------------------------------------------------------------------
(* Bars in a range.                                                        *)

\* A product with a positive factor is ordered as the other one.
LEMMA ProductOrder ==
    ASSUME NEW a \in Int, NEW b \in Int, NEW p \in Nat \ {0}
    PROVE  a * p \in Int /\ (a <= b <=> a * p <= b * p)
<1>1. CASE a <= b
  <2>1. b - a \in Nat /\ p \in Nat
    BY <1>1
  <2>2. (b - a) * p >= 0 /\ (b - a) * p = b * p - a * p
    BY <2>1
  <2> QED BY <1>1, <2>2
<1>2. CASE a > b
  <2>1. a - b - 1 \in Nat /\ p \in Nat
    BY <1>2
  <2>2. (a - b - 1) * p >= 0 /\ (a - b - 1) * p = a * p - b * p - p
    BY <2>1
  <2> QED BY <1>2, <2>2
<1> QED BY <1>1, <1>2

\* The quotient counts the multiples.
LEMMA QuotientOrder ==
    ASSUME NEW k \in Int, NEW x \in Int, NEW p \in Nat \ {0}
    PROVE  x \div p \in Int /\ (k <= x \div p <=> k * p <= x)
<1>1. PICK q \in Int : q = x \div p /\ q * p \in Int /\ q * p <= x /\ x < q * p + p
  OBVIOUS
<1>2. (q + 1) * p = q * p + p
  OBVIOUS
<1>3. k <= q => k * p <= x
  BY <1>1, ProductOrder
<1>4. ~(k <= q) => q + 1 <= k
  OBVIOUS
<1>5. q + 1 <= k => (q + 1) * p <= k * p
  BY ProductOrder
<1>6. k * p \in Int
  OBVIOUS
<1> QED BY <1>1, <1>2, <1>3, <1>4, <1>5, <1>6

\* bar_starts is the openings between its ends, both included.
LEMMA BarStarts ==
    ASSUME NEW start \in Int, NEW end \in Int
    PROVE  bar_starts(start, end, Period) = {ts \in Int : Opening(ts) /\ start <= ts /\ ts <= end}
<1>p. Period \in Nat \ {0}
  BY BarsAssumption
<1>1. PICK f : f = floor_to_period(start, Period)
  OBVIOUS
<1>2. f \in Int /\ f <= start /\ start < f + Period /\ \E k \in Int : f = k * Period
  BY <1>p, <1>1, FloorOpensBar
<1>3. PICK first : first = IF f < start THEN f + Period ELSE f
  OBVIOUS
<1>4. first \in Int /\ start <= first /\ first < start + Period
  BY <1>p, <1>2, <1>3
<1>5. PICK a \in Int : first = a * Period
  <2>1. PICK k \in Int : f = k * Period
    BY <1>2
  <2>2. (k + 1) * Period = f + Period
    BY <2>1, <1>p
  <2> QED BY <1>3, <2>1, <2>2
<1>6. bar_starts(start, end, Period) = {first + k * Period : k \in 0 .. ((end - first) \div Period)}
  BY <1>1, <1>3 DEF bar_starts
<1>7. (end - first) \div Period \in Int
  BY <1>p, <1>4
<1>8. ASSUME NEW k \in 0 .. ((end - first) \div Period)
      PROVE  first + k * Period \in {ts \in Int : Opening(ts) /\ start <= ts /\ ts <= end}
  <2>1. k \in Int /\ 0 <= k /\ k <= (end - first) \div Period
    BY <1>7
  <2>x. end - first \in Int
    BY <1>4
  <2>y. k * Period <= end - first
    BY <1>p, <2>x, <2>1, QuotientOrder
  <2>z. 0 * Period = 0 /\ 0 * Period <= k * Period /\ k * Period \in Int
    BY <1>p, <2>1, ProductOrder
  <2>2. k * Period <= end - first /\ 0 <= k * Period /\ k * Period \in Int
    BY <2>y, <2>z
  <2>3. (a + k) * Period = first + k * Period /\ a + k \in Int
    BY <1>p, <1>5, <2>1
  <2> QED BY <1>4, <2>2, <2>3 DEF Opening
<1>9. ASSUME NEW ts \in Int, Opening(ts), start <= ts, ts <= end
      PROVE  \E k \in 0 .. ((end - first) \div Period) : ts = first + k * Period
  <2>1. PICK m \in Int : ts = m * Period
    BY <1>9 DEF Opening
  <2>2. (a - 1) * Period = first - Period
    BY <1>p, <1>5
  <2>3. a - 1 < m
    <3>1. ~(m * Period <= (a - 1) * Period)
      BY <1>p, <1>4, <1>9, <2>1, <2>2
    <3>2. ~(m <= a - 1)
      BY <1>p, <3>1, ProductOrder
    <3> QED BY <3>2
  <2>4. (m - a) * Period = ts - first /\ m - a \in Int /\ 0 <= m - a
    BY <1>p, <1>5, <2>1, <2>3
  <2>5. m - a <= (end - first) \div Period
    <3>1. (m - a) * Period <= end - first
      BY <1>4, <1>9, <2>4
    <3> QED BY <1>p, <1>4, <2>4, <3>1, QuotientOrder
  <2> QED BY <1>4, <1>7, <2>4, <2>5
<1> QED BY <1>6, <1>8, <1>9

-----------------------------------------------------------------------------
(* Backfill plans.                                                         *)

\* Min returns the least of a set of instants.
LEMMA LeastInstant ==
    ASSUME NEW T \in SUBSET Int, NEW x \in T, \A y \in T : x <= y
    PROVE  Min(T) = x
<1>1. Min(T) \in T /\ \A y \in T : Min(T) <= y
  BY DEF Min
<1>2. Min(T) <= x /\ x <= Min(T) /\ Min(T) \in Int /\ x \in Int
  BY <1>1
<1> QED BY <1>2

\* The later of two instants.
LEMMA LaterOfTwo ==
    ASSUME NEW a \in Int, NEW b \in Int
    PROVE  Max({a, b}) = IF a >= b THEN a ELSE b
<1>1. \E x \in {a, b} : \A y \in {a, b} : x >= y
  OBVIOUS
<1>2. Max({a, b}) \in {a, b} /\ \A y \in {a, b} : Max({a, b}) >= y
  BY <1>1 DEF Max
<1> QED BY <1>2

\* From where a pass toward the g-th opening starts when it ends at the e-th.
PassStart(e, g) == IF e - g < MaxBackfillBars THEN g ELSE e - (MaxBackfillBars - 1)

\* A pass, counted in bars.
LEMMA PassInBars ==
    ASSUME NEW e \in Int, NEW g \in Int, g <= e
    PROVE  pass_toward(e * Period, g * Period) =
              [start |-> PassStart(e, g) * Period, end |-> e * Period,
               passes |-> (e - g + MaxBackfillBars) \div MaxBackfillBars]
<1>p. Period \in Nat \ {0} /\ MaxBackfillBars \in Nat \ {0}
  BY BarsAssumption
<1>1. e * Period \in Int /\ g * Period \in Int /\ (e - g) * Period = e * Period - g * Period
      /\ (e - g + 1) * Period = e * Period - g * Period + Period
  BY <1>p
<1>2. PICK m \in Int : m = e - (MaxBackfillBars - 1)
  BY <1>p
<1>3. m * Period = e * Period - Period * (MaxBackfillBars - 1) /\ m * Period \in Int
  BY <1>p, <1>2
<1>4. Max({g * Period, m * Period}) = PassStart(e, g) * Period
  <2>1. Max({g * Period, m * Period}) = IF g * Period >= m * Period THEN g * Period ELSE m * Period
    BY <1>1, <1>3, LaterOfTwo
  <2>2. m <= g <=> m * Period <= g * Period
    BY <1>p, <1>2, ProductOrder
  <2>3. g * Period = m * Period => g = m
    <3>1. g <= m <=> g * Period <= m * Period
      BY <1>p, <1>2, ProductOrder
    <3> QED BY <2>2, <3>1, <1>1, <1>3, <1>2
  <2>4. m <= g <=> e - g < MaxBackfillBars
    BY <1>p, <1>2
  <2>5. PassStart(e, g) = IF m <= g THEN g ELSE m
    BY <1>2, <2>4 DEF PassStart
  <2> QED BY <1>1, <1>3, <2>1, <2>2, <2>5
<1>5. span_of(g * Period, e * Period) = e - g + 1
  <2>1. PICK x \in Int : x = e * Period - g * Period
    BY <1>1
  <2>2. PICK q \in Int : q = x \div Period
    BY <1>p, <2>1
  <2>3. e - g <= q
    <3>1. e - g \in Int /\ (e - g) * Period <= x
      BY <1>1, <2>1
    <3> QED BY <1>p, <2>1, <2>2, <3>1, QuotientOrder
  <2>4. ~(e - g + 1 <= q)
    <3>1. e - g + 1 \in Int /\ ~((e - g + 1) * Period <= x)
      BY <1>p, <1>1, <2>1
    <3> QED BY <1>p, <2>1, <2>2, <3>1, QuotientOrder
  <2> QED BY <2>1, <2>2, <2>3, <2>4 DEF span_of
<1>6. e - g + 1 + MaxBackfillBars - 1 = e - g + MaxBackfillBars
  BY <1>p
<1> QED BY <1>2, <1>3, <1>4, <1>5, <1>6 DEF pass_toward

\* A pass fewer than before is left, none after the last one.
LEMMA PassesCount ==
    ASSUME NEW j \in Nat
    PROVE  LET passes == (j + MaxBackfillBars) \div MaxBackfillBars
           IN  IF j < MaxBackfillBars THEN passes = 1
               ELSE passes # 1 /\ j \div MaxBackfillBars = passes - 1
<1>p. MaxBackfillBars \in Nat \ {0}
  BY BarsAssumption
<1>1. PICK M \in Nat \ {0} : M = MaxBackfillBars
  BY <1>p
<1>2. PICK q \in Int : q = j \div M
  BY <1>1
<1>3. PICK r \in Int : r = (j + M) \div M
  BY <1>1
<1>4. /\ r <= q + 1 <=> ~(q + 2 <= r)
      /\ q + 1 <= r <=> ~(r <= q)
  OBVIOUS
<1>5. q * M <= j
  BY <1>2, QuotientOrder
<1>6. ~((q + 1) * M <= j)
  <2>1. q + 1 \in Int /\ ~(q + 1 <= q)
    OBVIOUS
  <2> QED BY <1>2, <2>1, QuotientOrder
<1>7. (q + 1) * M = q * M + M /\ (q + 2) * M = q * M + M + M /\ q * M \in Int
  OBVIOUS
<1>8. q + 1 <= r
  <2>1. (q + 1) * M <= j + M /\ q + 1 \in Int /\ j + M \in Int
    BY <1>5, <1>7
  <2> QED BY <1>3, <2>1, QuotientOrder
<1>9. ~(q + 2 <= r)
  <2>1. ~((q + 2) * M <= j + M) /\ q + 2 \in Int /\ j + M \in Int
    BY <1>6, <1>7
  <2> QED BY <1>3, <2>1, QuotientOrder
<1>10. r = q + 1
  BY <1>8, <1>9
<1>11. j < M => q = 0
  <2>1. 0 <= q
    <3>1. 0 * M = 0
      OBVIOUS
    <3> QED BY <1>2, <3>1, QuotientOrder
  <2>2. 1 <= q => 1 * M <= j
    BY <1>2, QuotientOrder
  <2> QED BY <2>1, <2>2
<1>12. ~(j < M) => 1 <= q
  <2>1. 1 * M = M
    OBVIOUS
  <2> QED BY <1>2, <2>1, QuotientOrder
<1> QED BY <1>1, <1>2, <1>3, <1>10, <1>11, <1>12

\* The openings from the a-th to the b-th.
LEMMA OpeningsBetween ==
    ASSUME NEW a \in Int, NEW b \in Int, a <= b
    PROVE  LET asked == bar_starts(a * Period, b * Period, Period)
           IN  /\ asked \in SUBSET Int /\ a * Period \in asked
               /\ \A ts \in asked : a * Period <= ts /\ ts <= b * Period
               /\ Cardinality(asked) <= b - a + 1
<1>p. Period \in Nat \ {0}
  BY BarsAssumption
<1>1. PICK A : A = bar_starts(a * Period, b * Period, Period)
  OBVIOUS
<1>2. a * Period \in Int /\ b * Period \in Int /\ a * Period <= b * Period
  BY <1>p, ProductOrder
<1>3. A = {ts \in Int : Opening(ts) /\ a * Period <= ts /\ ts <= b * Period}
  BY <1>1, <1>2, BarStarts
<1>4. Opening(a * Period)
  BY DEF Opening
<1>5. Cardinality(A) <= b - a + 1
  <2>1. PICK n \in Nat : n = b - a + 1
    OBVIOUS
  <2>2. PICK f : f = [i \in 1 .. n |-> (a + (i - 1)) * Period]
    OBVIOUS
  <2>3. ASSUME NEW i \in 1 .. n PROVE f[i] \in A
    <3>1. a + (i - 1) \in Int /\ a <= a + (i - 1) /\ a + (i - 1) <= b
      BY <2>1
    <3>2. PICK k \in Int : k = a + (i - 1)
      BY <3>1
    <3>3. a * Period <= k * Period /\ k * Period <= b * Period /\ k * Period \in Int
      BY <1>p, <3>1, <3>2, ProductOrder
    <3>4. Opening(k * Period)
      BY DEF Opening
    <3> QED BY <1>3, <2>2, <3>2, <3>3, <3>4
  <2>4. ASSUME NEW ts \in A PROVE \E i \in 1 .. n : f[i] = ts
    <3>1. PICK k \in Int : ts = k * Period
      BY <1>3 DEF Opening
    <3>2. a * Period <= k * Period /\ k * Period <= b * Period
      BY <1>3, <3>1
    <3>3. a <= k /\ k <= b
      BY <1>p, <3>2, ProductOrder
    <3>4. k - a + 1 \in 1 .. n /\ a + ((k - a + 1) - 1) = k
      BY <2>1, <3>3
    <3> QED BY <2>2, <3>1, <3>4
  <2>5. f \in Surjection(1 .. n, A)
    <3>1. f \in [1 .. n -> A]
      BY <2>2, <2>3
    <3> QED BY <2>4, <3>1 DEF Surjection
  <2>6. ExistsSurjection(1 .. n, A)
    BY <2>5, Zenon DEF ExistsSurjection
  <2> QED BY <2>1, <2>6, FS_SurjCardinalityBound
<1> QED BY <1>1, <1>2, <1>3, <1>4, <1>5

\* What is asked of a plan toward target, with what is stored.
Converges(stored, target, ts) ==
    LET plan  == plan_backfill(stored, target, ts)
        asked == bar_starts(plan.start, plan.end, Period)
        after == plan_backfill(stored \cup asked, target, ts)
    IN  plan # NoPlan =>
          /\ asked # {} /\ Cardinality(asked) <= MaxBackfillBars
          /\ asked \cap stored = {}
          /\ IF plan.passes = 1 THEN after = NoPlan ELSE after.passes = plan.passes - 1

\* A plan is a pass from the newest bar the store lacks back to the target.
LEMMA PlanIsPass ==
    ASSUME NEW stored \in SUBSET Nat, \A x \in stored : Opening(x), NEW ts \in Nat,
           NEW g \in Int, g * Period <= newest_at(ts),
           plan_backfill(stored, g * Period, ts) # NoPlan
    PROVE  \E e \in Int : /\ g <= e
                          /\ plan_backfill(stored, g * Period, ts) = pass_toward(e * Period, g * Period)
                          /\ \A x \in stored : e * Period < x
<1>p. Period \in Nat \ {0}
  BY BarsAssumption
<1>1. newest_at(ts) \in Int /\ \E k \in Int : newest_at(ts) = k * Period
  <2>t. ts \in Int
    OBVIOUS
  <2>1. PICK k \in Int : floor_to_period(ts, Period) = k * Period
    BY <1>p, <2>t, FloorOpensBar
  <2>2. (k - 1) * Period = k * Period - Period /\ k - 1 \in Int /\ k * Period \in Int
    BY <1>p
  <2> QED BY <1>p, <2>1, <2>2 DEF newest_at, last_closed_bar
<1>2. g * Period \in Int
  BY <1>p
<1>3. CASE stored = {}
  <2>1. plan_backfill(stored, g * Period, ts) = pass_toward(newest_at(ts), g * Period)
    <3>1. ~(g * Period > newest_at(ts))
      BY <1>1, <1>2
    <3>2. stored_bounds(stored) = << >>
      BY <1>3 DEF stored_bounds
    <3> QED BY <3>1, <3>2 DEF plan_backfill
  <2>2. PICK e \in Int : newest_at(ts) = e * Period
    BY <1>1
  <2>3. g <= e
    BY <1>p, <2>2, ProductOrder
  <2> QED BY <1>3, <2>1, <2>2, <2>3
<1>4. CASE stored # {}
  <2>1. Min(stored) \in stored /\ \A y \in stored : Min(stored) <= y
    BY <1>4, MinOfNats
  <2>2. PICK f \in Int : Min(stored) = f * Period
    BY <2>1 DEF Opening
  <2>3. ~(Min(stored) <= g * Period)
    BY <1>1, <1>2, <1>4 DEF plan_backfill, stored_bounds
  <2>4. plan_backfill(stored, g * Period, ts) = pass_toward(Min(stored) - Period, g * Period)
    BY <1>1, <1>2, <1>4, <2>3 DEF plan_backfill, stored_bounds
  <2>5. (f - 1) * Period = Min(stored) - Period /\ f - 1 \in Int
    BY <1>p, <2>2
  <2>6. g <= f - 1
    <3>1. ~(f <= g)
      BY <1>p, <2>2, <2>3, ProductOrder
    <3> QED BY <3>1
  <2>7. \A x \in stored : (f - 1) * Period < x
    <3>m. Min(stored) \in Nat
      BY <2>1
    <3>1. PICK m \in Nat : m = Min(stored)
      BY <3>m, Zenon
    <3>2. (f - 1) * Period = m - Period /\ \A y \in stored : y \in Int /\ m <= y
      BY <2>1, <2>5, <3>1
    <3>3. PICK d \in Int : d = m - Period /\ d < m
      BY <1>p
    <3>4. \A y \in stored : d < y
      BY <3>2, <3>3
    <3>5. (f - 1) * Period = d
      BY <3>2, <3>3, Zenon
    <3> QED BY <3>4, <3>5, Zenon
  <2> QED BY <2>4, <2>5, <2>6, <2>7
<1> QED BY <1>3, <1>4

\* A plan asks for absent bars, at most as many as one fill may span; served, it
\* leaves one pass fewer, and none after the last (plan_backfill).
LEMMA PlanConverges ==
    ASSUME NEW stored \in SUBSET Nat, \A x \in stored : Opening(x), NEW ts \in Nat,
           NEW g \in Int, g * Period <= newest_at(ts)
    PROVE  Converges(stored, g * Period, ts)
<1>p. Period \in Nat \ {0} /\ MaxBackfillBars \in Nat \ {0}
  BY BarsAssumption
<1>1. SUFFICES ASSUME plan_backfill(stored, g * Period, ts) # NoPlan
               PROVE  Converges(stored, g * Period, ts)
  BY DEF Converges
<1>2. PICK e \in Int : /\ g <= e
                       /\ plan_backfill(stored, g * Period, ts) = pass_toward(e * Period, g * Period)
                       /\ \A x \in stored : e * Period < x
  BY <1>1, PlanIsPass
<1>3. PICK s \in Int : s = PassStart(e, g)
  <2>1. PassStart(e, g) \in Int
    BY <1>p DEF PassStart
  <2> QED BY <2>1, Zenon
<1>4. g <= s /\ s <= e /\ e - s + 1 <= MaxBackfillBars
  BY <1>p, <1>2, <1>3 DEF PassStart
<1>5. PICK passes : passes = (e - g + MaxBackfillBars) \div MaxBackfillBars
  OBVIOUS
<1>6. plan_backfill(stored, g * Period, ts) = [start |-> s * Period, end |-> e * Period, passes |-> passes]
  BY <1>2, <1>3, <1>5, PassInBars
<1>7. PICK asked : asked = bar_starts(s * Period, e * Period, Period)
  OBVIOUS
<1>8. /\ asked \in SUBSET Int /\ s * Period \in asked /\ \A t \in asked : s * Period <= t /\ t <= e * Period
      /\ Cardinality(asked) <= e - s + 1
  BY <1>4, <1>7, OpeningsBetween
<1>9. Cardinality(asked) \in Nat
  <2>1. asked = {t \in Int : Opening(t) /\ s * Period <= t /\ t <= e * Period}
    BY <1>p, <1>7, BarStarts, ProductOrder
  <2>2. IsFiniteSet((s * Period) .. (e * Period)) /\ asked \subseteq (s * Period) .. (e * Period)
    BY <1>p, <2>1, FS_Interval, ProductOrder
  <2> QED BY <2>2, FS_Subset, FS_CardinalityType
<1>10. asked \cap stored = {}
  <2>1. e * Period \in Int
    BY <1>p
  <2>2. \A t \in stored : t \in Int /\ e * Period < t
    BY <1>2
  <2> QED BY <1>8, <2>1, <2>2
<1>11. Cardinality(asked) <= MaxBackfillBars
  BY <1>p, <1>4, <1>8, <1>9
<1>12. PICK after : after = plan_backfill(stored \cup asked, g * Period, ts)
  OBVIOUS
<1>13. after = IF s * Period <= g * Period THEN NoPlan ELSE pass_toward(s * Period - Period, g * Period)
  <2>1. Min(stored \cup asked) = s * Period
    <3>1. \A t \in stored \cup asked : s * Period <= t
      <4>1. \A t \in stored : t \in Int /\ e * Period < t
        BY <1>2
      <4>2. s * Period <= e * Period /\ s * Period \in Int /\ e * Period \in Int
        BY <1>p, <1>4, ProductOrder
      <4> QED BY <1>8, <4>1, <4>2
    <3>s. stored \cup asked \in SUBSET Int
      BY <1>8
    <3>2. PICK T \in SUBSET Int : T = stored \cup asked
      BY <3>s, Zenon
    <3>t. s * Period \in T
      BY <1>8, <3>2
    <3>3. PICK x \in T : x = s * Period
      BY <3>t, Zenon
    <3>4. \A y \in T : x <= y
      BY <3>1, <3>2, <3>3, Zenon
    <3>5. Min(T) = x
      BY <3>4, LeastInstant
    <3> QED BY <3>2, <3>3, <3>5
  <2>2. stored_bounds(stored \cup asked) # << >> /\ stored_bounds(stored \cup asked)[1] = s * Period
    BY <1>8, <2>1 DEF stored_bounds
  <2>3. ~(g * Period > newest_at(ts))
    <3>1. g * Period \in Int /\ newest_at(ts) \in Int
      <4>1. ts \in Int
        OBVIOUS
      <4> QED BY <1>p, <4>1, FloorOpensBar DEF newest_at, last_closed_bar
    <3> QED BY <3>1
  <2> QED BY <1>12, <2>2, <2>3 DEF plan_backfill
<1>14. IF passes = 1 THEN after = NoPlan ELSE after.passes = passes - 1
  <2>1. PICK j \in Nat : j = e - g
    BY <1>2
  <2>2. IF j < MaxBackfillBars THEN passes = 1
        ELSE passes # 1 /\ j \div MaxBackfillBars = passes - 1
    BY <1>5, <2>1, PassesCount
  <2>3. CASE j < MaxBackfillBars
    <3>1. s = g
      BY <1>3, <2>1, <2>3 DEF PassStart
    <3>2. after = NoPlan
      BY <1>p, <1>13, <3>1
    <3> QED BY <2>2, <2>3, <3>2
  <2>4. CASE ~(j < MaxBackfillBars)
    <3>1. s = e - (MaxBackfillBars - 1) /\ g <= s - 1 /\ s - 1 \in Int
      BY <1>p, <1>3, <2>1, <2>4 DEF PassStart
    <3>2. (s - 1) * Period = s * Period - Period
      BY <1>p
    <3>3. ~(s * Period <= g * Period)
      BY <1>p, <3>1, ProductOrder
    <3>4. after = pass_toward((s - 1) * Period, g * Period)
      BY <1>13, <3>2, <3>3
    <3>e. PICK b \in Int : b = s - 1
      OBVIOUS
    <3>f. pass_toward(b * Period, g * Period) =
              [start |-> PassStart(b, g) * Period, end |-> b * Period,
               passes |-> (b - g + MaxBackfillBars) \div MaxBackfillBars]
      BY <3>1, <3>e, PassInBars
    <3>5. after.passes = (s - 1 - g + MaxBackfillBars) \div MaxBackfillBars
      BY <3>4, <3>e, <3>f
    <3>6. s - 1 - g + MaxBackfillBars = j
      BY <1>p, <2>1, <3>1
    <3> QED BY <2>2, <2>4, <3>5, <3>6
  <2> QED BY <2>3, <2>4
<1>15. asked # {}
  BY <1>8
<1> QED
  BY <1>6, <1>7, <1>10, <1>11, <1>12, <1>14, <1>15 DEF Converges

-----------------------------------------------------------------------------
(* Calls.                                                                  *)

Bar == [ts : Nat, market : Market \cup {NoMarket}, final : BOOLEAN, open_end : BOOLEAN]

CallRecord ==
    [op : {"window", "sync", "backfill"},
     at : {"next", "coverage", "gaps", "select", "page", "store", "read", "serve", "served"},
     goal : {"gaps", "forming"}, s : Series, todo : SUBSET Series, lookback : Nat, begun : Int,
     missing : SUBSET Int, cursor : Int, until : Int, got : SUBSET Bar, closed : SUBSET Int,
     open_end : BOOLEAN]

\* All series of the venue are of one market type, so it does not matter which
\* thread set the default type of the shared client last.
SharedMarket == \A s, u \in Series : MarketOf[s] = MarketOf[u]

RightMarket(s, m) == SharedMarket => m = MarketOf[s]

\* A bar of a series that may be stored.
BarOK(s, row) == Opening(row.ts) /\ RightMarket(s, row.market) /\ (row.final \/ row.open_end)

\* A call fetches closed bars only, unless its caller asked for an end past the
\* last close, and under the default type of its series.
CallOK(c, cl, ts) ==
    /\ c.begun + Period <= ts
    /\ c.at \in {"select", "page"} /\ c.goal = "gaps" => c.open_end \/ c.until + Period <= ts
    /\ c.at = "store" \/ (c.at \in {"select", "page"} /\ c.goal = "gaps") =>
          \A row \in c.got : BarOK(c.s, row)
    /\ c.at = "page" => RightMarket(c.s, cl)
    /\ c.at = "store" => c.got # {}

BarsTypeOK == now \in Nat /\ client \in Market \cup {NoMarket} /\ bars \in [Series -> SUBSET Bar]

StoredOK == \A s \in Series : \A row \in bars[s] : BarOK(s, row)

MarketInv ==
    /\ BarsTypeOK /\ StoredOK
    /\ call \in [Thread -> CallRecord \cup {NoCall}]
    /\ \A t \in Thread : call[t] # NoCall => CallOK(call[t], client, now)

\* A call goes on from one sound state to another, or is over.
Goes(t) ==
    \E d \in CallRecord \cup {NoCall} :
        call' = [call EXCEPT ![t] = d] /\ (d # NoCall => CallOK(d, client, now))

\* Only the thread's own call changes.
LEMMA QuietCall ==
    ASSUME MarketInv, NEW t \in Thread, Goes(t), UNCHANGED <<now, bars, client>>
    PROVE  MarketInv'
<1>1. PICK d \in CallRecord \cup {NoCall} :
          call' = [call EXCEPT ![t] = d] /\ (d # NoCall => CallOK(d, client, now))
  BY DEF Goes
<1>2. call' \in [Thread -> CallRecord \cup {NoCall}]
  BY <1>1 DEF MarketInv
<1>3. ASSUME NEW u \in Thread, call'[u] # NoCall PROVE CallOK(call'[u], client, now)
  <2>1. CASE u = t
    <3>1. call'[u] = d
      BY <1>1, <2>1 DEF MarketInv
    <3> QED BY <1>1, <1>3, <3>1
  <2>2. CASE u # t
    <3>1. call'[u] = call[u]
      BY <1>1, <2>2 DEF MarketInv
    <3> QED BY <1>3, <3>1 DEF MarketInv
  <2> QED BY <2>1, <2>2
<1> QED BY <1>2, <1>3 DEF MarketInv, BarsTypeOK, StoredOK

\* A call is over, or goes back to its next instrument.
LEMMA EndsGoes ==
    ASSUME MarketInv, NEW t \in Thread, NEW c \in CallRecord, c = call[t], CallOK(c, client, now), Ends(t)
    PROVE  Goes(t)
<1>1. CASE c.op # "sync"
  <2>1. call' = [call EXCEPT ![t] = NoCall]
    BY <1>1 DEF Ends
  <2> QED BY <2>1 DEF Goes
<1>2. CASE c.op = "sync"
  <2>1. PICK e \in SUBSET Int : e = {}
    OBVIOUS
  <2>2. PICK b \in SUBSET Bar : b = {}
    OBVIOUS
  <2>3. PICK z \in Int : z = 0
    OBVIOUS
  <2>4. PICK d \in CallRecord :
            d = [c EXCEPT !.at = "next", !.missing = e, !.got = b, !.cursor = z, !.until = z]
    BY DEF CallRecord
  <2>5. d.at = "next" /\ d.begun = c.begun
    BY <2>4 DEF CallRecord
  <2>6. call' = [call EXCEPT ![t] = [c EXCEPT !.at = "next", !.missing = {}, !.got = {}, !.cursor = 0, !.until = 0]]
    BY <1>2 DEF Ends
  <2>7. call' = [call EXCEPT ![t] = d]
    BY <2>1, <2>2, <2>3, <2>4, <2>6, Zenon
  <2>8. CallOK(d, client, now)
    BY <2>5 DEF CallOK
  <2> QED BY <2>7, <2>8 DEF Goes
<1> QED BY <1>1, <1>2

\* ensure_fresh returns.
LEMMA FreshGoes ==
    ASSUME MarketInv, NEW t \in Thread, NEW c \in CallRecord, c = call[t], CallOK(c, client, now), Fresh(t)
    PROVE  Goes(t)
<1>1. CASE c.op # "window"
  <2>1. Ends(t)
    BY <1>1 DEF Fresh
  <2> QED BY <2>1, EndsGoes
<1>2. CASE c.op = "window"
  <2>1. PICK e \in SUBSET Int : e = {}
    OBVIOUS
  <2>2. PICK b \in SUBSET Bar : b = {}
    OBVIOUS
  <2>3. PICK z \in Int : z = 0
    OBVIOUS
  <2>4. PICK d \in CallRecord :
            d = [c EXCEPT !.at = "read", !.got = b, !.missing = e, !.cursor = z, !.until = z]
    BY DEF CallRecord
  <2>5. d.at = "read" /\ d.begun = c.begun
    BY <2>4 DEF CallRecord
  <2>6. call' = [call EXCEPT ![t].at = "read", ![t].got = b, ![t].missing = e, ![t].cursor = z, ![t].until = z]
    BY <1>2, <2>1, <2>2, <2>3 DEF Fresh
  <2>7. call' = [call EXCEPT ![t] = d]
    BY <2>4, <2>6 DEF MarketInv
  <2>8. CallOK(d, client, now)
    BY <2>5 DEF CallOK
  <2> QED BY <2>7, <2>8 DEF Goes
<1> QED BY <1>1, <1>2

\* A page, a bar or a store that fails ends the call.
LEMMA RaiseGoes ==
    ASSUME MarketInv, NEW t \in Thread, NEW c \in CallRecord, c = call[t], CallOK(c, client, now), Raise(t)
    PROVE  Goes(t)
BY EndsGoes DEF Raise

\* _store returns.
LEMMA StoreOverGoes ==
    ASSUME MarketInv, NEW t \in Thread, NEW c \in CallRecord, c = call[t], CallOK(c, client, now), StoreOver(t)
    PROVE  Goes(t)
BY EndsGoes, FreshGoes DEF StoreOver

\* The newest closed bar.
LEMMA NewestIsClosed ==
    ASSUME MarketInv
    PROVE  newest_at(now) \in Int /\ newest_at(now) + Period <= now
<1>1. Period \in Nat \ {0} /\ now \in Int /\ now \in Nat
  BY BarsAssumption DEF MarketInv, BarsTypeOK
<1>2. last_closed_bar(now, Period) + Period <= now
  BY <1>1, LastClosedBarIsOver
<1>3. floor_to_period(now, Period) \in Int
  BY <1>1, FloorOpensBar
<1> QED BY <1>1, <1>2, <1>3 DEF newest_at, last_closed_bar

\* A call that starts.
LEMMA NewCallIs ==
    ASSUME MarketInv, NEW op \in {"window", "sync", "backfill"}, NEW s \in Series, NEW lookback \in Nat
    PROVE  \E n \in CallRecord :
              /\ n = NewCall(op, s, lookback)
              /\ n.begun = newest_at(now) /\ n.at = "coverage" /\ n.s = s
              /\ n.goal = "gaps" /\ n.got = {} /\ n.op = op /\ n.lookback = lookback
<1>1. PICK e \in SUBSET Int : e = {}
  OBVIOUS
<1>2. PICK b \in SUBSET Bar : b = {}
  OBVIOUS
<1>3. PICK z \in Int : z = 0
  OBVIOUS
<1>4. PICK u \in SUBSET Series : u = {}
  OBVIOUS
<1>5. PICK f \in BOOLEAN : f = FALSE
  OBVIOUS
<1>6. PICK m \in Int : m = newest_at(now)
  BY NewestIsClosed
<1>7. PICK n \in CallRecord :
          n = [op |-> op, at |-> "coverage", goal |-> "gaps", s |-> s, todo |-> u,
               lookback |-> lookback, begun |-> m, missing |-> e,
               cursor |-> z, until |-> z, got |-> b, closed |-> e, open_end |-> f]
  BY DEF CallRecord
<1>8. n.begun = m /\ n.at = "coverage" /\ n.s = s /\ n.goal = "gaps" /\ n.got = b
      /\ n.op = op /\ n.lookback = lookback
  BY <1>7
<1>9. n = NewCall(op, s, lookback)
  BY <1>1, <1>2, <1>3, <1>4, <1>5, <1>6, <1>7, Zenon DEF NewCall
<1> QED BY <1>2, <1>6, <1>8, <1>9, Zenon

\* The least of the missing bars.
LEMMA FirstMissing ==
    ASSUME NEW start \in Int, NEW end \in Int, NEW missing, missing # {},
           missing \subseteq bar_starts(start, end, Period)
    PROVE  /\ missing \in SUBSET Int /\ Min(missing) \in Int
           /\ Min(missing) \in missing /\ \A y \in missing : Min(missing) <= y
<1>1. missing \in SUBSET Int /\ \A y \in missing : start <= y
  BY BarStarts
<1>2. PICK U \in SUBSET Nat : U = {y - start : y \in missing}
  <2>1. {y - start : y \in missing} \in SUBSET Nat
    BY <1>1
  <2> QED BY <2>1, Zenon
<1>3. U # {}
  BY <1>2
<1>4. Min(U) \in U /\ \A y \in U : Min(U) <= y
  BY <1>3, MinOfNats
<1>5. PICK x \in missing : Min(U) = x - start
  BY <1>2, <1>4
<1>6. \A y \in missing : x <= y
  <2> TAKE y \in missing
  <2>1. y - start \in U
    BY <1>2
  <2>2. x - start <= y - start
    BY <1>4, <1>5, <2>1
  <2> QED BY <1>1, <2>2
<1>7. Min(missing) = x
  BY <1>1, <1>6, LeastInstant
<1> QED BY <1>1, <1>6, <1>7

\* The greatest of a set of instants that ends.
LEMMA LastOfPage ==
    ASSUME NEW T \in SUBSET Int, T # {}, NEW b \in Int, \A y \in T : y <= b
    PROVE  Max(T) \in T /\ \A y \in T : y <= Max(T)
<1>2. PICK U \in SUBSET Nat : U = {b - y : y \in T}
  <2>1. {b - y : y \in T} \in SUBSET Nat
    OBVIOUS
  <2> QED BY <2>1, Zenon
<1>3. U # {}
  BY <1>2
<1>4. Min(U) \in U /\ \A y \in U : Min(U) <= y
  BY <1>3, MinOfNats
<1>5. PICK x \in T : Min(U) = b - x
  BY <1>2, <1>4
<1>6. \A y \in T : x >= y
  <2> TAKE y \in T
  <2>1. b - y \in U
    BY <1>2
  <2>2. b - x <= b - y
    BY <1>4, <1>5, <2>1
  <2> QED BY <2>2
<1>7. Max(T) \in T /\ \A y \in T : Max(T) >= y
  BY <1>6 DEF Max
<1> QED BY <1>7

-----------------------------------------------------------------------------
(* The requests.                                                           *)

\* A signal's window, a warm pass and a backfill start.
LEMMA RequestsGo ==
    ASSUME MarketInv, NEW t \in Thread
    PROVE  /\ \A s \in Series : LoadWindow(t, s) => Goes(t)
           /\ \A instruments \in SUBSET Series : Sync(t, instruments) => Goes(t)
           /\ \A s \in Series, start \in BackfillStarts, end \in BackfillEnds :
                 Backfill(t, s, start, end) => Goes(t)
<1>n. newest_at(now) \in Int /\ newest_at(now) + Period <= now
  BY NewestIsClosed
<1>1. ASSUME NEW s \in Series, LoadWindow(t, s) PROVE Goes(t)
  <2>1. PICK n \in CallRecord : n = NewCall("window", s, Lookback) /\ n.begun = newest_at(now) /\ n.at = "coverage"
    BY BarsAssumption, NewCallIs
  <2>2. call' = [call EXCEPT ![t] = n]
    BY <1>1, <2>1, Zenon DEF LoadWindow
  <2>3. CallOK(n, client, now)
    BY <1>n, <2>1 DEF CallOK
  <2> QED BY <2>2, <2>3 DEF Goes
<1>2. ASSUME NEW instruments \in SUBSET Series, Sync(t, instruments) PROVE Goes(t)
  <2>1. PICK first \in Series : first = CHOOSE s \in instruments : TRUE
    BY <1>2 DEF Sync
  <2>2. PICK n \in CallRecord : n = NewCall("sync", first, WarmLookback) /\ n.begun = newest_at(now)
    BY BarsAssumption, NewCallIs
  <2>3. PICK d \in CallRecord : d = [n EXCEPT !.at = "next", !.todo = instruments]
    BY DEF CallRecord
  <2>4. d.at = "next" /\ d.begun = n.begun
    BY <2>3 DEF CallRecord
  <2>5. call' = [call EXCEPT ![t] = [NewCall("sync", first, WarmLookback) EXCEPT !.at = "next", !.todo = instruments]]
    BY <1>2, <2>1, Zenon DEF Sync
  <2>6. call' = [call EXCEPT ![t] = d]
    BY <2>2, <2>3, <2>5, Zenon
  <2>7. CallOK(d, client, now)
    BY <1>n, <2>2, <2>4 DEF CallOK
  <2> QED BY <2>6, <2>7 DEF Goes
<1>3. ASSUME NEW s \in Series, NEW start \in BackfillStarts, NEW end \in BackfillEnds,
             Backfill(t, s, start, end)
      PROVE  Goes(t)
  <2>1. PICK last \in Int : last = IF end = NoEnd THEN newest_at(now) ELSE end
    <3>1. CASE end = NoEnd
      BY <1>n, <3>1, Zenon
    <3>2. CASE end # NoEnd
      BY <3>2, BarsAssumption
    <3> QED BY <3>1, <3>2
  <2>2. PICK missing : missing = find_gaps(s, start, last)
    OBVIOUS
  <2>3. /\ missing # {}
        /\ call' = [call EXCEPT ![t] =
             [NewCall("backfill", s, 1) EXCEPT
                !.at = "select", !.missing = missing, !.cursor = Min(missing),
                !.until = last, !.open_end = last > newest_at(now)]]
    BY <1>3, <2>1, <2>2, Zenon DEF Backfill
  <2>4. missing \in SUBSET Int /\ Min(missing) \in Int
    <3>1. start \in Int
      BY BarsAssumption
    <3>2. missing \subseteq bar_starts(start, last, Period)
      BY <2>2 DEF find_gaps
    <3>3. PICK from \in Int : from = start
      BY <3>1
    <3>4. missing \subseteq bar_starts(from, last, Period)
      BY <3>2, <3>3
    <3> QED BY <2>3, <3>4, FirstMissing
  <2>5. PICK one \in Nat : one = 1
    OBVIOUS
  <2>6. PICK n \in CallRecord :
            /\ n = NewCall("backfill", s, one)
            /\ n.begun = newest_at(now) /\ n.at = "coverage" /\ n.s = s
            /\ n.goal = "gaps" /\ n.got = {}
    BY NewCallIs
  <2>7. PICK m \in Int : m = Min(missing)
    BY <2>4, Zenon
  <2>w. PICK w \in Int : w = newest_at(now) /\ w + Period <= now
    BY <1>n
  <2>o. PICK open \in BOOLEAN : open <=> last > w
    OBVIOUS
  <2>8. open = (last > newest_at(now))
    <3>1. open = (last > w)
      BY <2>o
    <3> QED BY <2>w, <3>1, Zenon
  <2>9. PICK d \in CallRecord :
            d = [n EXCEPT !.at = "select", !.missing = missing, !.cursor = m, !.until = last, !.open_end = open]
    BY <2>4 DEF CallRecord
  <2>10. d.at = "select" /\ d.begun = n.begun /\ d.until = last /\ d.open_end = open /\ d.got = n.got
    BY <2>9 DEF CallRecord
  <2>11. call' = [call EXCEPT ![t] = d]
    BY <2>3, <2>5, <2>6, <2>7, <2>8, <2>9, Zenon
  <2>12. open \/ last + Period <= now
    <3>1. Period \in Int /\ now \in Int
      BY BarsAssumption DEF MarketInv, BarsTypeOK
    <3> QED BY <2>w, <2>o, <3>1
  <2>13. CallOK(d, client, now)
    BY <1>n, <2>6, <2>10, <2>12 DEF CallOK
  <2> QED BY <2>11, <2>13 DEF Goes
<1> QED BY <1>1, <1>2, <1>3

-----------------------------------------------------------------------------
(* The steps of a call that leave client and rows alone.                   *)

\* Where a call stands changes, and nothing else.
LEMMA GotoGoes ==
    ASSUME MarketInv, NEW t \in Thread, NEW c \in CallRecord, c = call[t], CallOK(c, client, now),
           NEW step \in {"gaps", "coverage"}, Goto(t, step)
    PROVE  Goes(t)
<1>1. PICK d \in CallRecord : d = [c EXCEPT !.at = step]
  BY DEF CallRecord
<1>2. d.at = step /\ d.begun = c.begun
  BY <1>1 DEF CallRecord
<1>3. call' = [call EXCEPT ![t] = d]
  BY <1>1 DEF Goto, MarketInv
<1>4. CallOK(d, client, now)
  BY <1>2 DEF CallOK
<1> QED BY <1>3, <1>4 DEF Goes

\* The next instrument of a warm pass, the gate, the gaps, and the reads.
LEMMA ReadsGo ==
    ASSUME MarketInv, NEW t \in Thread
    PROVE  /\ SyncNext(t) => Goes(t)
           /\ EnsureCoverage(t) => Goes(t)
           /\ EnsureGaps(t) => Goes(t)
           /\ ReadBars(t) => Goes(t)
           /\ Serve(t) => Goes(t)
           /\ Return(t) => Goes(t)
           /\ FetchFails(t) => Goes(t)
           /\ StoreFails(t) => Goes(t)
<1>c. ASSUME NEW step, At(t, step)
      PROVE  call[t] \in CallRecord /\ call[t].at = step /\ CallOK(call[t], client, now)
  BY <1>c DEF At, MarketInv
<1>p. Period \in Nat \ {0} /\ now \in Nat /\ now \in Int
  BY BarsAssumption DEF MarketInv, BarsTypeOK
<1>1. ASSUME SyncNext(t) PROVE Goes(t)
  <2>1. PICK c \in CallRecord : c = call[t] /\ c.at = "next" /\ CallOK(c, client, now)
    BY <1>1, <1>c DEF SyncNext
  <2>2. CASE call' = [call EXCEPT ![t] = NoCall]
    BY <2>2 DEF Goes
  <2>3. ASSUME NEW s \in c.todo,
               call' = [call EXCEPT ![t].s = s, ![t].todo = c.todo \ {s}, ![t].at = "coverage"]
        PROVE  Goes(t)
    <3>1. s \in Series /\ c.todo \in SUBSET Series
      BY DEF CallRecord
    <3>2. PICK d \in CallRecord : d = [c EXCEPT !.s = s, !.todo = c.todo \ {s}, !.at = "coverage"]
      BY <3>1 DEF CallRecord
    <3>3. d.at = "coverage" /\ d.begun = c.begun
      BY <3>2 DEF CallRecord
    <3>4. call' = [call EXCEPT ![t] = d]
      BY <2>1, <2>3, <3>2 DEF MarketInv
    <3>5. CallOK(d, client, now)
      BY <2>1, <3>3 DEF CallOK
    <3> QED BY <3>4, <3>5 DEF Goes
  <2> QED BY <1>1, <2>1, <2>2, <2>3 DEF SyncNext, MarketInv
<1>2. ASSUME EnsureCoverage(t) PROVE Goes(t)
  <2>1. PICK c \in CallRecord : c = call[t] /\ CallOK(c, client, now)
    BY <1>2, <1>c DEF EnsureCoverage
  <2>2. Fresh(t) \/ Goto(t, "gaps")
    BY <1>2 DEF EnsureCoverage
  <2> QED BY <2>1, <2>2, FreshGoes, GotoGoes
<1>3. ASSUME EnsureGaps(t) PROVE Goes(t)
  <2>1. PICK c \in CallRecord : c = call[t] /\ CallOK(c, client, now)
    BY <1>3, <1>c DEF EnsureGaps
  <2>2. PICK start \in Int : start = c.begun - Period * (c.lookback - 1)
    BY <1>p DEF CallRecord
  <2>3. PICK newest \in Int : newest = c.begun
    BY DEF CallRecord
  <2>4. PICK missing : missing = find_gaps(c.s, start, newest)
    OBVIOUS
  <2>5. Fresh(t) \/ (missing # {} /\ Fetching(t, "gaps", missing, Min(missing), newest))
    BY <1>3, <2>1, <2>2, <2>3, <2>4 DEF EnsureGaps
  <2>6. CASE missing # {} /\ Fetching(t, "gaps", missing, Min(missing), newest)
    <3>1. missing \subseteq bar_starts(start, newest, Period)
      BY <2>4 DEF find_gaps
    <3>2. missing \in SUBSET Int /\ Min(missing) \in Int
      BY <2>6, <3>1, FirstMissing
    <3>3. PICK m \in Int : m = Min(missing)
      BY <3>2, Zenon
    <3>4. PICK b \in SUBSET Bar : b = {}
      OBVIOUS
    <3>5. PICK d \in CallRecord :
              d = [c EXCEPT !.at = "select", !.goal = "gaps", !.missing = missing,
                            !.cursor = m, !.until = newest, !.got = b]
      BY <3>2 DEF CallRecord
    <3>6. d.at = "select" /\ d.begun = c.begun /\ d.until = newest /\ d.got = b
      BY <3>5 DEF CallRecord
    <3>7. call' = [call EXCEPT ![t].at = "select", ![t].goal = "gaps", ![t].missing = missing,
                               ![t].cursor = m, ![t].until = newest, ![t].got = b]
      BY <2>6, <3>3, <3>4, Zenon DEF Fetching
    <3>8. call' = [call EXCEPT ![t] = d]
      BY <2>1, <3>5, <3>7 DEF MarketInv
    <3>9. CallOK(d, client, now)
      BY <2>1, <2>3, <3>4, <3>6 DEF CallOK
    <3> QED BY <3>8, <3>9 DEF Goes
  <2> QED BY <2>1, <2>5, <2>6, FreshGoes
<1>4. ASSUME ReadBars(t) PROVE Goes(t)
  <2>1. PICK c \in CallRecord : c = call[t] /\ CallOK(c, client, now)
    BY <1>4, <1>c DEF ReadBars
  <2>2. PICK forming \in Int : forming = floor_to_period(now, Period)
    <3>1. floor_to_period(now, Period) \in Int
      BY <1>p, FloorOpensBar
    <3> QED BY <3>1, Zenon
  <2>3. PICK closed : /\ closed = IF c.lookback - 1 < 1 THEN {}
                                  ELSE window(newest_at(now), c.lookback - 1) \cap Stored(c.s)
                      /\ call' = [call EXCEPT ![t].at = "select", ![t].goal = "forming", ![t].missing = {},
                                              ![t].closed = closed, ![t].got = {},
                                              ![t].cursor = forming, ![t].until = forming]
    BY <1>4, <2>1, <2>2 DEF ReadBars
  <2>4. closed \in SUBSET Int
    <3>1. Stored(c.s) \in SUBSET Int
      <4>1. \A row \in bars[c.s] : row.ts \in Int
        BY DEF MarketInv, BarsTypeOK, CallRecord, Bar
      <4> QED BY <4>1 DEF Stored
    <3> QED BY <2>3, <3>1
  <2>5. PICK e \in SUBSET Int : e = {}
    OBVIOUS
  <2>6. PICK b \in SUBSET Bar : b = {}
    OBVIOUS
  <2>7. PICK d \in CallRecord :
            d = [c EXCEPT !.at = "select", !.goal = "forming", !.missing = e, !.closed = closed,
                          !.got = b, !.cursor = forming, !.until = forming]
    BY <2>4 DEF CallRecord
  <2>8. d.at = "select" /\ d.goal = "forming" /\ d.begun = c.begun
    BY <2>7 DEF CallRecord
  <2>9. call' = [call EXCEPT ![t].at = "select", ![t].goal = "forming", ![t].missing = e,
                             ![t].closed = closed, ![t].got = b,
                             ![t].cursor = forming, ![t].until = forming]
    BY <2>3, <2>5, <2>6, Zenon
  <2>10. call' = [call EXCEPT ![t] = d]
    BY <2>1, <2>7, <2>9 DEF MarketInv
  <2>11. CallOK(d, client, now)
    BY <2>1, <2>8 DEF CallOK
  <2> QED BY <2>10, <2>11 DEF Goes
<1>5. ASSUME Serve(t) PROVE Goes(t)
  <2>1. PICK c \in CallRecord : c = call[t] /\ CallOK(c, client, now)
    BY <1>5, <1>c DEF Serve
  <2>2. PICK w : w = c.closed \cup {row.ts : row \in c.got}
    OBVIOUS
  <2>3. \/ Raise(t)
        \/ call' = [call EXCEPT ![t].at = "served", ![t].closed = w, ![t].got = {}]
    BY <1>5, <2>1, <2>2 DEF Serve
  <2>4. CASE call' = [call EXCEPT ![t].at = "served", ![t].closed = w, ![t].got = {}]
    <3>1. w \in SUBSET Int
      BY <2>2 DEF CallRecord, Bar
    <3>2. PICK b \in SUBSET Bar : b = {}
      OBVIOUS
    <3>3. PICK d \in CallRecord : d = [c EXCEPT !.at = "served", !.closed = w, !.got = b]
      BY <3>1 DEF CallRecord
    <3>4. d.at = "served" /\ d.begun = c.begun
      BY <3>3 DEF CallRecord
    <3>5. call' = [call EXCEPT ![t] = d]
      BY <2>1, <2>4, <3>2, <3>3 DEF MarketInv
    <3>6. CallOK(d, client, now)
      BY <2>1, <3>4 DEF CallOK
    <3> QED BY <3>5, <3>6 DEF Goes
  <2> QED BY <2>1, <2>3, <2>4, RaiseGoes
<1>6. ASSUME Return(t) PROVE Goes(t)
  <2>1. PICK c \in CallRecord : c = call[t] /\ CallOK(c, client, now)
    BY <1>6, <1>c DEF Return
  <2> QED BY <1>6, <2>1, EndsGoes DEF Return
<1>7. ASSUME FetchFails(t) \/ StoreFails(t) PROVE Goes(t)
  <2>1. PICK c \in CallRecord : c = call[t] /\ CallOK(c, client, now)
    BY <1>7, <1>c DEF FetchFails, StoreFails
  <2> QED BY <1>7, <2>1, RaiseGoes DEF FetchFails, StoreFails
<1> QED BY <1>1, <1>2, <1>3, <1>4, <1>5, <1>6, <1>7

-----------------------------------------------------------------------------
(* Pages and rows.                                                         *)

\* The default type of the shared client is set to the one every call needs.
LEMMA SelectKeeps ==
    ASSUME MarketInv, NEW t \in Thread, SelectType(t)
    PROVE  MarketInv'
<1>1. PICK c \in CallRecord : c = call[t] /\ c.at = "select" /\ CallOK(c, client, now) /\ call[t] # NoCall
  BY DEF SelectType, At, MarketInv
<1>2. \A s \in Series : RightMarket(s, MarketOf[c.s])
  BY DEF RightMarket, SharedMarket, CallRecord
<1>3. client' = MarketOf[c.s] /\ c.s \in Series /\ MarketOf[c.s] \in Market
  BY <1>1, BarsAssumption DEF SelectType, CallRecord
<1>4. PICK d \in CallRecord : d = [c EXCEPT !.at = "page"]
  BY DEF CallRecord
<1>5. d.at = "page" /\ d.begun = c.begun /\ d.goal = c.goal /\ d.s = c.s /\ d.until = c.until
      /\ d.got = c.got /\ d.open_end = c.open_end
  BY <1>4 DEF CallRecord
<1>6. call' = [call EXCEPT ![t] = d]
  BY <1>1, <1>4 DEF SelectType, Goto, MarketInv
<1>7. CallOK(d, client', now)
  BY <1>1, <1>2, <1>3, <1>5 DEF CallOK
<1>8. UNCHANGED <<now, bars>>
  BY DEF SelectType
<1>9. call' \in [Thread -> CallRecord \cup {NoCall}]
  BY <1>6 DEF MarketInv
<1>10. ASSUME NEW u \in Thread, call'[u] # NoCall PROVE CallOK(call'[u], client', now)
  <2>1. CASE u = t
    <3>1. call'[u] = d
      BY <1>6, <2>1 DEF MarketInv
    <3> QED BY <1>7, <3>1
  <2>2. CASE u # t
    <3>1. PICK e \in CallRecord : e = call[u] /\ e = call'[u] /\ CallOK(e, client, now)
      BY <1>6, <1>10, <2>2 DEF MarketInv
    <3>2. e.s \in Series
      BY DEF CallRecord
    <3> QED BY <1>2, <1>3, <3>1, <3>2 DEF CallOK
  <2> QED BY <2>1, <2>2
<1>11. BarsTypeOK' /\ StoredOK'
  BY <1>3, <1>8 DEF MarketInv, BarsTypeOK, StoredOK
<1> QED BY <1>8, <1>9, <1>10, <1>11 DEF MarketInv

\* What a page holds from its cursor on are bars of the venue.
LEMMA PagesHoldBars ==
    ASSUME MarketInv, NEW cursor \in Int, NEW batch \in Pages(cursor)
    PROVE  /\ batch \in SUBSET Int
           /\ batch # {} => Max(batch) \in Int
           /\ \A ts \in batch : ts >= cursor => ts \in Nat /\ Opening(ts)
<1>1. now \in Int /\ now \in Nat /\ Listed \in Int /\ Listed \in Nat /\ Period \in Nat \ {0}
  BY BarsAssumption DEF MarketInv, BarsTypeOK
<1>2. PICK printed \in SUBSET Int : printed = {ts \in bar_starts(Listed, now, Period) : ts >= cursor}
  <2>1. {ts \in bar_starts(Listed, now, Period) : ts >= cursor} \in SUBSET Int
    BY <1>1, BarStarts
  <2> QED BY <2>1, Zenon
<1>3. \A ts \in printed : ts \in Nat /\ Opening(ts) /\ ts <= now
  <2>1. printed \subseteq {ts \in Int : Opening(ts) /\ Listed <= ts /\ ts <= now}
    BY <1>1, <1>2, BarStarts
  <2> QED BY <1>1, <2>1
<1>4. batch \subseteq printed \/ batch = {cursor - Period}
  BY <1>2 DEF Pages
<1>5. batch \in SUBSET Int
  <2>1. PICK x \in Int : x = cursor - Period
    BY <1>1
  <2>2. CASE batch \subseteq printed
    BY <2>2
  <2>3. CASE batch = {x}
    BY <2>3
  <2> QED BY <1>4, <2>1, <2>2, <2>3
<1>6. batch # {} => Max(batch) \in Int
  <2>1. PICK b \in Int : \A y \in batch : y <= b
    <3>1. CASE batch \subseteq printed
      BY <1>1, <1>3, <3>1
    <3>2. CASE batch = {cursor - Period}
      <4>1. cursor - Period \in Int
        BY <1>1
      <4> QED BY <3>2, <4>1
    <3> QED BY <1>4, <3>1, <3>2
  <2> QED BY <1>5, <2>1, LastOfPage
<1>7. ASSUME NEW ts \in batch, ts >= cursor PROVE ts \in Nat /\ Opening(ts)
  <2>1. ~(cursor - Period >= cursor)
    BY <1>1
  <2> QED BY <1>3, <1>4, <1>7, <2>1
<1> QED BY <1>5, <1>6, <1>7

\* fetch_bars returned.
LEMMA FetchedGoes ==
    ASSUME MarketInv, NEW t \in Thread, NEW c \in CallRecord, c = call[t], CallOK(c, client, now),
           NEW got \in SUBSET Bar, c.goal = "gaps" => \A row \in got : BarOK(c.s, row),
           Fetched(t, got)
    PROVE  Goes(t)
<1>1. PICK rws \in SUBSET Bar : rws = {row \in got : row.ts \in c.missing}
  OBVIOUS
<1>2. \/ Raise(t) \/ StoreOver(t)
      \/ call' = [call EXCEPT ![t].at = "serve", ![t].got = got]
      \/ /\ c.goal # "forming" /\ rws # {}
         /\ call' = [call EXCEPT ![t].at = "store", ![t].got = rws,
                                 ![t].missing = {}, ![t].cursor = 0, ![t].until = 0]
  BY <1>1 DEF Fetched
<1>3. CASE call' = [call EXCEPT ![t].at = "serve", ![t].got = got]
  <2>1. PICK d \in CallRecord : d = [c EXCEPT !.at = "serve", !.got = got]
    BY DEF CallRecord
  <2>2. d.at = "serve" /\ d.begun = c.begun
    BY <2>1 DEF CallRecord
  <2>3. call' = [call EXCEPT ![t] = d]
    BY <1>3, <2>1 DEF MarketInv
  <2>4. CallOK(d, client, now)
    BY <2>2 DEF CallOK
  <2> QED BY <2>3, <2>4 DEF Goes
<1>4. CASE /\ c.goal # "forming" /\ rws # {}
           /\ call' = [call EXCEPT ![t].at = "store", ![t].got = rws,
                                   ![t].missing = {}, ![t].cursor = 0, ![t].until = 0]
  <2>1. PICK e \in SUBSET Int : e = {}
    OBVIOUS
  <2>2. PICK z \in Int : z = 0
    OBVIOUS
  <2>3. PICK d \in CallRecord :
            d = [c EXCEPT !.at = "store", !.got = rws, !.missing = e, !.cursor = z, !.until = z]
    BY DEF CallRecord
  <2>4. d.at = "store" /\ d.begun = c.begun /\ d.got = rws /\ d.s = c.s
    BY <2>3 DEF CallRecord
  <2>5. call' = [call EXCEPT ![t].at = "store", ![t].got = rws,
                             ![t].missing = e, ![t].cursor = z, ![t].until = z]
    BY <1>4, <2>1, <2>2, Zenon
  <2>6. call' = [call EXCEPT ![t] = d]
    BY <2>3, <2>5 DEF MarketInv
  <2>7. c.goal = "gaps"
    BY <1>4 DEF CallRecord
  <2>8. CallOK(d, client, now)
    BY <1>1, <1>4, <2>4, <2>7 DEF CallOK
  <2> QED BY <2>6, <2>8 DEF Goes
<1> QED BY <1>2, <1>3, <1>4, RaiseGoes, StoreOverGoes

\* A page answered.
LEMMA FetchPageGoes ==
    ASSUME MarketInv, NEW t \in Thread, FetchPage(t)
    PROVE  Goes(t)
<1>1. PICK c \in CallRecord : c = call[t] /\ c.at = "page" /\ CallOK(c, client, now)
  BY DEF FetchPage, At, MarketInv
<1>2. PICK batch \in Pages(c.cursor) :
          LET got == c.got \cup {Row(t, ts) : ts \in {u \in batch : u \in c.cursor..c.until}}
          IN  \/ Fetched(t, got)
              \/ /\ batch # {}
                 /\ call' = [call EXCEPT ![t].at = "select", ![t].got = got,
                                         ![t].cursor = Max(batch) + Period]
  BY <1>1 DEF FetchPage
<1>3. /\ batch \in SUBSET Int
      /\ batch # {} => Max(batch) \in Int
      /\ \A ts \in batch : ts >= c.cursor => ts \in Nat /\ Opening(ts)
  <2>1. c.cursor \in Int
    BY DEF CallRecord
  <2> QED BY <2>1, PagesHoldBars
<1>4. Period \in Nat \ {0} /\ now \in Int /\ client \in Market \cup {NoMarket} /\ c.open_end \in BOOLEAN
      /\ c.until \in Int /\ c.cursor \in Int /\ c.got \in SUBSET Bar
  BY BarsAssumption DEF MarketInv, BarsTypeOK, CallRecord
<1>5. ASSUME NEW ts \in batch, ts \in c.cursor .. c.until
      PROVE  Row(t, ts) \in Bar /\ (c.goal = "gaps" => BarOK(c.s, Row(t, ts)))
  <2>1. ts \in Nat /\ Opening(ts) /\ ts <= c.until
    BY <1>3, <1>4, <1>5
  <2>2. PICK final \in BOOLEAN : final <=> ts + Period <= now
    OBVIOUS
  <2>3. PICK m \in Market \cup {NoMarket} : m = client
    BY <1>4
  <2>4. PICK open \in BOOLEAN : open = c.open_end
    BY <1>4
  <2>5. PICK row \in Bar : row = [ts |-> ts, market |-> m, final |-> final, open_end |-> open]
    BY <2>1 DEF Bar
  <2>6. final = (ts + Period <= now)
    BY <1>4, <2>1, <2>2
  <2>7. row = Row(t, ts)
    BY <1>1, <2>3, <2>4, <2>5, <2>6, Zenon DEF Row
  <2>8. row.ts = ts /\ row.market = m /\ row.final = final /\ row.open_end = open
    BY <2>5 DEF Bar
  <2>9. c.goal = "gaps" => open \/ final
    BY <1>1, <1>4, <2>1, <2>2, <2>4 DEF CallOK
  <2>10. RightMarket(c.s, m)
    BY <1>1, <2>3 DEF CallOK
  <2>11. c.goal = "gaps" => BarOK(c.s, row)
    BY <2>1, <2>8, <2>9, <2>10 DEF BarOK
  <2> QED BY <2>7, <2>11, Zenon
<1>6. PICK got : got = c.got \cup {Row(t, ts) : ts \in {u \in batch : u \in c.cursor..c.until}}
  OBVIOUS
<1>7. got \in SUBSET Bar
  BY <1>4, <1>5, <1>6
<1>8. c.goal = "gaps" => \A row \in got : BarOK(c.s, row)
  <2>1. c.goal = "gaps" => \A row \in c.got : BarOK(c.s, row)
    BY <1>1 DEF CallOK
  <2> QED BY <1>5, <1>6, <2>1
<1>9. CASE Fetched(t, got)
  BY <1>1, <1>7, <1>8, <1>9, FetchedGoes
<1>10. CASE /\ batch # {}
            /\ call' = [call EXCEPT ![t].at = "select", ![t].got = got,
                                    ![t].cursor = Max(batch) + Period]
  <2>1. PICK x \in Int : x = Max(batch) + Period
    <3>1. Max(batch) + Period \in Int
      BY <1>3, <1>4, <1>10
    <3> QED BY <3>1, Zenon
  <2>2. PICK d \in CallRecord : d = [c EXCEPT !.at = "select", !.got = got, !.cursor = x]
    BY <1>7 DEF CallRecord
  <2>3. d.at = "select" /\ d.begun = c.begun /\ d.got = got /\ d.s = c.s /\ d.goal = c.goal
        /\ d.until = c.until /\ d.open_end = c.open_end
    BY <2>2 DEF CallRecord
  <2>4. call' = [call EXCEPT ![t].at = "select", ![t].got = got, ![t].cursor = x]
    BY <1>10, <2>1, Zenon
  <2>5. call' = [call EXCEPT ![t] = d]
    BY <1>1, <2>2, <2>4 DEF MarketInv
  <2>6. CallOK(d, client, now)
    BY <1>1, <1>8, <2>3 DEF CallOK
  <2> QED BY <2>5, <2>6 DEF Goes
<1> QED BY <1>2, <1>6, <1>9, <1>10

\* The oldest of the bars fetched.
LEMMA OldestRow ==
    ASSUME NEW rows \in SUBSET Bar, rows # {}
    PROVE  Oldest(rows) \in rows /\ \A other \in rows : Oldest(rows).ts <= other.ts
<1>1. PICK T \in SUBSET Nat : T = {row.ts : row \in rows}
  <2>1. {row.ts : row \in rows} \in SUBSET Nat
    BY DEF Bar
  <2> QED BY <2>1, Zenon
<1>2. T # {}
  BY <1>1
<1>3. Min(T) \in T /\ \A y \in T : Min(T) <= y
  BY <1>2, MinOfNats
<1>4. \E row \in rows : \A other \in rows : row.ts <= other.ts
  BY <1>1, <1>3
<1> QED BY <1>4 DEF Oldest

\* A row is stored.
LEMMA StoreBarKeeps ==
    ASSUME MarketInv, NEW t \in Thread, StoreBar(t)
    PROVE  MarketInv'
<1>1. PICK c \in CallRecord : c = call[t] /\ c.at = "store" /\ CallOK(c, client, now)
  BY DEF StoreBar, At, MarketInv
<1>2. c.got \in SUBSET Bar /\ c.got # {} /\ c.s \in Series /\ \A row \in c.got : BarOK(c.s, row)
  BY <1>1 DEF CallOK, CallRecord
<1>3. PICK row \in c.got : row = Oldest(c.got)
  BY <1>2, OldestRow
<1>4. Insert(c.s, row) /\ Inserted(t, row) /\ UNCHANGED <<now, client>>
  BY <1>1, <1>3 DEF StoreBar
<1>5. Goes(t)
  <2>1. PICK left \in SUBSET Bar : left = c.got \ {row}
    BY <1>2
  <2>2. CASE left # {} /\ call' = [call EXCEPT ![t].got = left]
    <3>1. PICK d \in CallRecord : d = [c EXCEPT !.got = left]
      BY DEF CallRecord
    <3>2. d.at = "store" /\ d.begun = c.begun /\ d.got = left /\ d.s = c.s
      BY <1>1, <3>1 DEF CallRecord
    <3>3. call' = [call EXCEPT ![t] = d]
      BY <1>1, <2>2, <3>1 DEF MarketInv
    <3>4. CallOK(d, client, now)
      BY <1>1, <1>2, <2>1, <2>2, <3>2 DEF CallOK
    <3> QED BY <3>3, <3>4 DEF Goes
  <2>3. CASE StoreOver(t)
    BY <1>1, <2>3, StoreOverGoes
  <2> QED BY <1>1, <1>4, <2>1, <2>2, <2>3 DEF Inserted
<1>6. bars' \in [Series -> SUBSET Bar] /\ \A s \in Series : bars'[s] \subseteq bars[s] \cup (IF s = c.s THEN {row} ELSE {})
  BY <1>2, <1>3, <1>4 DEF Insert, MarketInv, BarsTypeOK
<1>7. BarsTypeOK' /\ StoredOK'
  BY <1>2, <1>3, <1>4, <1>6 DEF MarketInv, BarsTypeOK, StoredOK
<1>8. PICK d \in CallRecord \cup {NoCall} :
          call' = [call EXCEPT ![t] = d] /\ (d # NoCall => CallOK(d, client, now))
  BY <1>5 DEF Goes
<1>9. call' \in [Thread -> CallRecord \cup {NoCall}]
  BY <1>8 DEF MarketInv
<1>10. ASSUME NEW u \in Thread, call'[u] # NoCall PROVE CallOK(call'[u], client, now)
  <2>1. call'[u] = IF u = t THEN d ELSE call[u]
    BY <1>8 DEF MarketInv
  <2> QED BY <1>8, <1>10, <2>1 DEF MarketInv
<1> QED BY <1>4, <1>7, <1>9, <1>10 DEF MarketInv

-----------------------------------------------------------------------------
\* The process starts.
LEMMA MarketInitially == Init => MarketInv
<1> SUFFICES ASSUME Init PROVE MarketInv
  OBVIOUS
<1>1. /\ now = FirstNow /\ bars = [s \in Series |-> {}] /\ client = NoMarket
      /\ call = [t \in Thread |-> NoCall]
  BY DEF Init, BarsInit
<1>2. BarsTypeOK /\ StoredOK
  <2>1. PICK b \in SUBSET Bar : b = {}
    OBVIOUS
  <2>2. bars = [s \in Series |-> b]
    BY <1>1, <2>1, Zenon
  <2>3. bars \in [Series -> SUBSET Bar] /\ \A s \in Series : bars[s] = b
    BY <2>2
  <2> QED BY <1>1, <2>1, <2>3, BarsAssumption DEF BarsTypeOK, StoredOK
<1> QED BY <1>1, <1>2 DEF MarketInv

\* Every step preserves the invariant.
LEMMA MarketStep ==
    ASSUME MarketInv, [Next]_vars
    PROVE  MarketInv'
<1>1. ASSUME NEW t \in Thread, Step(t) PROVE MarketInv'
  <2>1. CASE SelectType(t)
    BY <2>1, SelectKeeps
  <2>2. CASE StoreBar(t)
    BY <2>2, StoreBarKeeps
  <2>3. CASE FetchPage(t)
    <3>1. UNCHANGED <<now, bars, client>>
      BY <2>3 DEF FetchPage
    <3> QED BY <2>3, <3>1, FetchPageGoes, QuietCall
  <2>4. CASE \/ SyncNext(t) \/ EnsureCoverage(t) \/ EnsureGaps(t) \/ FetchFails(t)
             \/ StoreFails(t) \/ ReadBars(t) \/ Serve(t) \/ Return(t)
    <3>1. UNCHANGED <<now, bars, client>>
      BY <2>4 DEF SyncNext, EnsureCoverage, EnsureGaps, FetchFails, StoreFails, ReadBars, Serve, Return
    <3> QED BY <2>4, <3>1, ReadsGo, QuietCall
  <2> QED BY <1>1, <2>1, <2>2, <2>3, <2>4 DEF Step
<1>2. CASE Request
  <2>1. ASSUME NEW t \in Signal, NEW s \in Series, LoadWindow(t, s) PROVE MarketInv'
    <3>1. t \in Thread /\ UNCHANGED <<now, bars, client>>
      BY <2>1 DEF LoadWindow, Thread
    <3> QED BY <2>1, <3>1, RequestsGo, QuietCall
  <2>2. ASSUME NEW t \in Job, NEW instruments \in SUBSET Series, Sync(t, instruments) PROVE MarketInv'
    <3>1. t \in Thread /\ UNCHANGED <<now, bars, client>>
      BY <2>2 DEF Sync, Thread
    <3> QED BY <2>2, <3>1, RequestsGo, QuietCall
  <2>3. ASSUME NEW t \in Job, NEW s \in Series, NEW start \in BackfillStarts, NEW end \in BackfillEnds,
               Backfill(t, s, start, end)
        PROVE  MarketInv'
    <3>1. t \in Thread /\ UNCHANGED <<now, bars, client>>
      BY <2>3, Zenon DEF Backfill, Thread
    <3>2. Goes(t)
      BY <2>3, <3>1, RequestsGo
    <3> QED BY <3>1, <3>2, QuietCall
  <2> QED BY <1>2, <2>1, <2>2, <2>3 DEF Request, WarmRun
<1>3. CASE Restart
  <2>1. client' = NoMarket /\ call' = [t \in Thread |-> NoCall] /\ UNCHANGED <<now, bars>>
    BY <1>3 DEF Restart
  <2>2. BarsTypeOK' /\ StoredOK'
    BY <2>1 DEF MarketInv, BarsTypeOK, StoredOK
  <2> QED BY <2>1, <2>2 DEF MarketInv
<1>4. CASE Clock
  <2>1. now' = now + 1 /\ UNCHANGED <<bars, client, call>>
    BY <1>4 DEF Clock
  <2>2. BarsTypeOK' /\ StoredOK' /\ now \in Nat /\ Period \in Int
    BY <2>1, BarsAssumption DEF MarketInv, BarsTypeOK, StoredOK
  <2>3. ASSUME NEW t \in Thread, call[t] # NoCall PROVE CallOK(call[t], client, now')
    <3>1. PICK c \in CallRecord : c = call[t] /\ CallOK(c, client, now)
      BY <2>3 DEF MarketInv
    <3>2. c.begun \in Int /\ c.until \in Int
      BY DEF CallRecord
    <3> QED BY <2>1, <2>2, <3>1, <3>2 DEF CallOK
  <2> QED BY <2>1, <2>2, <2>3 DEF MarketInv
<1>5. CASE UNCHANGED vars
  BY <1>5 DEF vars, MarketInv, BarsTypeOK, StoredOK
<1> QED BY <1>1, <1>2, <1>3, <1>4, <1>5 DEF Next

\* The invariant always holds.
LEMMA MarketAlways == Spec => []MarketInv
BY MarketInitially, MarketStep, PTL DEF Spec

(* Every stored row was closed when it was fetched, unless its backfill     *)
(* asked for an end past the last close, and at a venue whose series share  *)
(* one market type it is of the market of its series: whatever the venue    *)
(* answers, whichever threads share the client (_apply_default_type), and   *)
(* wherever a call fails or the process dies.                               *)
THEOREM RowsAreTrue ==
    /\ Spec => [](\A s \in Series : \A row \in bars[s] : row.final \/ row.open_end)
    /\ SharedMarket => (Spec => []RowsTrue)
<1>1. MarketInv => \A s \in Series : \A row \in bars[s] : row.final \/ row.open_end
  BY DEF MarketInv, StoredOK, BarOK
<1>2. ASSUME SharedMarket PROVE MarketInv => RowsTrue
  BY <1>2 DEF MarketInv, StoredOK, BarOK, RightMarket, RowsTrue
<1>3. Spec => [](\A s \in Series : \A row \in bars[s] : row.final \/ row.open_end)
  BY <1>1, MarketAlways, PTL
<1>4. ASSUME SharedMarket PROVE Spec => []RowsTrue
  <2>1. MarketInv => RowsTrue
    BY <1>2, <1>4
  <2> QED BY <2>1, MarketAlways, PTL
<1> QED BY <1>3, <1>4

(* Whatever is stored and however far back the target lies, a plan asks for *)
(* absent bars that one fill may span, and each pass that is served leaves  *)
(* one fewer, so the passes run out at the target (plan_backfill).          *)
THEOREM PlansAlwaysConverge == Spec => []PlansConverge
<1>1. ASSUME MarketInv PROVE PlansConverge
  <2>p. Period \in Nat \ {0} /\ MaxBackfillBars \in Nat \ {0} /\ now \in Nat /\ now \in Int
    BY <1>1, BarsAssumption DEF MarketInv, BarsTypeOK
  <2>1. ASSUME NEW s \in Series, NEW target \in window(newest_at(now), 2 * MaxBackfillBars)
        PROVE  Converges(Stored(s), target, now)
    <3>1. Stored(s) \in SUBSET Nat /\ \A x \in Stored(s) : Opening(x)
      <4>1. \A row \in bars[s] : row.ts \in Nat /\ Opening(row.ts)
        BY <1>1 DEF MarketInv, BarsTypeOK, StoredOK, BarOK, Bar
      <4> QED BY <4>1 DEF Stored
    <3>2. PICK n \in Int : n = newest_at(now)
      BY <1>1, NewestIsClosed
    <3>3. PICK from \in Int : from = n - Period * (2 * MaxBackfillBars - 1)
      BY <2>p
    <3>4. target \in bar_starts(from, n, Period)
      BY <3>2, <3>3 DEF window
    <3>5. target \in Int /\ Opening(target) /\ target <= n
      BY <3>4, BarStarts
    <3>6. PICK g \in Int : target = g * Period
      BY <3>5 DEF Opening
    <3>7. g * Period <= newest_at(now)
      BY <3>2, <3>5, <3>6
    <3>8. Converges(Stored(s), g * Period, now)
      BY <2>p, <3>1, <3>7, PlanConverges
    <3> QED BY <3>6, <3>8
  <2> QED BY <2>1 DEF PlansConverge, Converges
<1> QED BY <1>1, MarketAlways, PTL

-----------------------------------------------------------------------------
(* Windows.                                                                *)

Times(rows) == {row.ts : row \in rows}

\* A bar the venue has that a signal's window reaches when n is the newest
\* closed bar.
Wanted(x, n) == x \in Int /\ Opening(x) /\ Listed <= x /\ n - Period * (Lookback - 1) <= x

\* A bar the venue has printed.
Printed(x, n) == Listed <= x /\ x <= n + Period

\* Behind a stored bar, every wanted bar is stored.
NoHoles(stored, n) ==
    \A b \in stored : Printed(b, n) /\ \A x : Wanted(x, n) /\ x <= b => x \in stored

\* What of missing the venue has before k was fetched, and nothing from k on.
Runs(missing, got, k, n) ==
    /\ \A x \in missing : Listed <= x /\ x < k => x \in Times(got)
    /\ \A row \in got : Printed(row.ts, n) /\ row.ts < k

\* A fetch asks for every wanted bar up to until that is not stored.
Asks(c, stored, n) ==
    /\ \A x \in c.missing : Opening(x) /\ x <= c.until
    /\ \A x : Wanted(x, n) /\ x <= c.until => x \in stored \/ x \in c.missing
    /\ c.op # "backfill" => c.until = c.begun
    /\ Runs(c.missing, c.got, c.cursor, n)

\* A store has every wanted bar behind the ones it is about to write, and a
\* signal's store the newest bar it was begun for.
Stores(c, stored, n) ==
    /\ \A row \in c.got :
          /\ Printed(row.ts, n)
          /\ \A x : Wanted(x, n) /\ x <= row.ts => x \in stored \/ x \in Times(c.got)
    /\ c.op = "window" /\ Wanted(c.begun, n) => c.begun \in stored \/ c.begun \in Times(c.got)

\* A signal reads a window whose newest bar is stored.
Reads(c, stored, n) == c.op = "window" /\ (Wanted(c.begun, n) => c.begun \in stored)

\* The closed bars of a window join the forming one, unless a bar closed since
\* the call began.
Joins(closed, until, begun) ==
    /\ Opening(until) /\ \A y \in closed : Opening(y) /\ Listed <= y /\ y < until
    /\ \/ begun < until - Period
       \/ \A y \in closed, x \in Int : Opening(x) /\ y <= x /\ x < until => x \in closed

Forms(c) == c.got = {} /\ c.cursor = c.until /\ Joins(c.closed, c.until, c.begun)

Serves(c) == c.got # {} /\ (\A row \in c.got : row.ts = c.until) /\ Joins(c.closed, c.until, c.begun)

Whole(w, begun) == bar_starts(Min(w), Max(w), Period) = w \/ begun < Max(w) - Period

\* What a call was begun with.
Begun(c, n) ==
    /\ Opening(c.begun) /\ c.begun <= n
    /\ c.op = "window" => c.lookback = Lookback
    /\ c.op = "sync" => c.lookback = WarmLookback

Covers(c, stored, n) ==
    /\ Begun(c, n)
    /\ c.at \in {"next", "coverage", "gaps"} => c.op # "backfill"
    /\ c.at \in {"select", "page"} /\ c.goal = "gaps" => Asks(c, stored, n)
    /\ c.at \in {"select", "page"} /\ c.goal = "forming" => Forms(c)
    /\ c.at = "store" => Stores(c, stored, n)
    /\ c.at = "read" => Reads(c, stored, n)
    /\ c.at = "serve" => Serves(c)
    /\ c.at = "served" => Whole(c.closed, c.begun)

WindowInv ==
    /\ newest_at(FirstNow) <= newest_at(now)
    /\ \A s \in Series : NoHoles(Times(bars[s]), newest_at(now))
    /\ \A t \in Thread : call[t] # NoCall => Covers(call[t], Times(bars[call[t].s]), newest_at(now))

\* A warm pass keeps as much as a signal reads, and no backfill starts inside a
\* window: at or before the venue's first bar, or before any window.
Deep ==
    /\ Lookback <= WarmLookback
    /\ \A start \in BackfillStarts :
          start <= Listed \/ start <= newest_at(FirstNow) - Period * (Lookback - 1)

\* A call goes on from one such state to another over the given rows, or is over.
Proceeds(t, rows) ==
    \E d \in CallRecord \cup {NoCall} :
        /\ call' = [call EXCEPT ![t] = d]
        /\ d # NoCall => Covers(d, Times(rows[d.s]), newest_at(now))
        /\ d # NoCall /\ d.at = "read" =>
              d.s = call[t].s /\ d.begun = call[t].begun /\ d.lookback = call[t].lookback

\* Openings are a period apart.
LEMMA OpeningsApart ==
    ASSUME NEW x \in Int, NEW y \in Int, Opening(x), Opening(y), x < y + Period
    PROVE  x <= y
<1>p. Period \in Nat \ {0}
  BY BarsAssumption
<1>1. PICK a \in Int : x = a * Period
  BY DEF Opening
<1>2. PICK b \in Int : y = b * Period
  BY DEF Opening
<1>3. (b + 1) * Period = y + Period
  BY <1>p, <1>2
<1>4. ~(b + 1 <= a)
  BY <1>p, <1>1, <1>3, ProductOrder
<1> QED BY <1>p, <1>1, <1>2, <1>4, ProductOrder

\* The newest closed bar opens a bar, before the one that is forming.
LEMMA NewestOpens ==
    ASSUME NEW ts \in Nat
    PROVE  /\ newest_at(ts) \in Int /\ Opening(newest_at(ts))
           /\ floor_to_period(ts, Period) = newest_at(ts) + Period
           /\ Opening(newest_at(ts) + Period)
           /\ newest_at(ts) + Period <= ts /\ ts < newest_at(ts) + Period + Period
<1>p. Period \in Nat \ {0} /\ ts \in Int
  BY BarsAssumption
<1>1. PICK f \in Int : f = floor_to_period(ts, Period) /\ f <= ts /\ ts < f + Period /\ \E k \in Int : f = k * Period
  BY <1>p, FloorOpensBar, Zenon
<1>2. PICK k \in Int : f = k * Period
  BY <1>1
<1>3. (k - 1) * Period = f - Period
  BY <1>p, <1>2
<1>4. newest_at(ts) = f - Period
  BY <1>1 DEF newest_at, last_closed_bar
<1>5. f = f - Period + Period
  BY <1>p, <1>1
<1> QED BY <1>p, <1>1, <1>2, <1>3, <1>4, <1>5 DEF Opening

\* The newest closed bar never goes back.
LEMMA NewestGrows ==
    ASSUME NEW a \in Nat, NEW b \in Nat, a <= b
    PROVE  newest_at(a) <= newest_at(b)
<1>p. Period \in Nat \ {0}
  BY BarsAssumption
<1>1. PICK m \in Int : m = newest_at(a) /\ Opening(m) /\ m + Period <= a
  BY NewestOpens
<1>2. PICK n \in Int : n = newest_at(b) /\ Opening(n) /\ b < n + Period + Period
  BY NewestOpens
<1>3. m < n + Period
  BY <1>p, <1>1, <1>2
<1> QED BY <1>1, <1>2, <1>3, OpeningsApart

\* A later window wants no older bar.
LEMMA WantedLess ==
    ASSUME NEW n \in Int, NEW m \in Int, n <= m, NEW x, Wanted(x, m)
    PROVE  Wanted(x, n)
<1>1. PICK span \in Int : span = Period * (Lookback - 1)
  BY BarsAssumption
<1> QED BY <1>1 DEF Wanted

\* More rows and a later clock take nothing away.
LEMMA CoversStay ==
    ASSUME NEW c \in CallRecord, NEW stored, NEW more, stored \subseteq more,
           NEW n \in Int, NEW m \in Int, n <= m, Covers(c, stored, n)
    PROVE  Covers(c, more, m)
<1>1. \A x : Wanted(x, m) => Wanted(x, n)
  BY WantedLess
<1>2. Begun(c, m)
  BY DEF Covers, Begun, CallRecord
<1>p. \A row \in c.got : Printed(row.ts, n) => Printed(row.ts, m)
  BY BarsAssumption DEF Printed, CallRecord, Bar
<1>3. Asks(c, stored, n) => Asks(c, more, m)
  BY <1>1, <1>p DEF Asks, Runs
<1>4. Stores(c, stored, n) => Stores(c, more, m)
  BY <1>1, <1>p DEF Stores
<1>5. Reads(c, stored, n) => Reads(c, more, m)
  BY <1>1 DEF Reads
<1> QED BY <1>2, <1>3, <1>4, <1>5 DEF Covers

\* A call that is over leaves nothing behind; a warm pass goes to its next
\* instrument.
LEMMA EndsProceeds ==
    ASSUME MarketInv, NEW t \in Thread, NEW c \in CallRecord, c = call[t],
           Begun(c, newest_at(now)), Ends(t), NEW rows
    PROVE  Proceeds(t, rows)
<1>1. CASE c.op # "sync"
  <2>1. call' = [call EXCEPT ![t] = NoCall]
    BY <1>1 DEF Ends
  <2> QED BY <2>1 DEF Proceeds
<1>2. CASE c.op = "sync"
  <2>1. PICK e \in SUBSET Int : e = {}
    OBVIOUS
  <2>2. PICK b \in SUBSET Bar : b = {}
    OBVIOUS
  <2>3. PICK z \in Int : z = 0
    OBVIOUS
  <2>4. PICK d \in CallRecord :
            d = [c EXCEPT !.at = "next", !.missing = e, !.got = b, !.cursor = z, !.until = z]
    BY DEF CallRecord
  <2>5. d.at = "next" /\ d.begun = c.begun /\ d.op = c.op /\ d.lookback = c.lookback
    BY <2>4 DEF CallRecord
  <2>6. call' = [call EXCEPT ![t] = [c EXCEPT !.at = "next", !.missing = {}, !.got = {}, !.cursor = 0, !.until = 0]]
    BY <1>2 DEF Ends
  <2>7. call' = [call EXCEPT ![t] = d]
    BY <2>1, <2>2, <2>3, <2>4, <2>6, Zenon
  <2>8. Covers(d, Times(rows[d.s]), newest_at(now))
    BY <1>2, <2>5 DEF Covers, Begun
  <2> QED BY <2>5, <2>7, <2>8 DEF Proceeds
<1> QED BY <1>1, <1>2

\* ensure_fresh returns: a signal goes on to read.
LEMMA FreshProceeds ==
    ASSUME MarketInv, NEW t \in Thread, NEW c \in CallRecord, c = call[t],
           Begun(c, newest_at(now)), Fresh(t), NEW rows,
           c.op = "window" => Reads(c, Times(rows[c.s]), newest_at(now))
    PROVE  Proceeds(t, rows)
<1>1. CASE c.op # "window"
  <2>1. Ends(t)
    BY <1>1 DEF Fresh
  <2> QED BY <2>1, EndsProceeds
<1>2. CASE c.op = "window"
  <2>1. PICK e \in SUBSET Int : e = {}
    OBVIOUS
  <2>2. PICK b \in SUBSET Bar : b = {}
    OBVIOUS
  <2>3. PICK z \in Int : z = 0
    OBVIOUS
  <2>4. PICK d \in CallRecord :
            d = [c EXCEPT !.at = "read", !.got = b, !.missing = e, !.cursor = z, !.until = z]
    BY DEF CallRecord
  <2>5. d.at = "read" /\ d.begun = c.begun /\ d.op = c.op /\ d.lookback = c.lookback /\ d.s = c.s
    BY <2>4 DEF CallRecord
  <2>6. call' = [call EXCEPT ![t].at = "read", ![t].got = b, ![t].missing = e, ![t].cursor = z, ![t].until = z]
    BY <1>2, <2>1, <2>2, <2>3 DEF Fresh
  <2>7. call' = [call EXCEPT ![t] = d]
    BY <2>4, <2>6 DEF MarketInv
  <2>8. Covers(d, Times(rows[d.s]), newest_at(now))
    BY <1>2, <2>5 DEF Covers, Begun, Reads
  <2> QED BY <2>5, <2>7, <2>8 DEF Proceeds
<1> QED BY <1>1, <1>2

\* _store returns.
LEMMA StoreOverProceeds ==
    ASSUME MarketInv, NEW t \in Thread, NEW c \in CallRecord, c = call[t],
           Begun(c, newest_at(now)), StoreOver(t), NEW rows,
           c.op = "window" => Reads(c, Times(rows[c.s]), newest_at(now))
    PROVE  Proceeds(t, rows)
BY EndsProceeds, FreshProceeds DEF StoreOver

\* The bars a range lacks.
LEMMA GapsAre ==
    ASSUME NEW s \in Series, NEW start \in Int, NEW end \in Int
    PROVE  find_gaps(s, start, end)
             = {ts \in Int : Opening(ts) /\ start <= ts /\ ts <= end} \ Times(bars[s])
BY BarStarts DEF find_gaps, Stored, Times

\* A request for the holes of a range that reaches back far enough.
LEMMA AsksForHoles ==
    ASSUME MarketInv, NEW s \in Series, NEW start \in Int, NEW end \in Int,
           NEW missing, missing = find_gaps(s, start, end), missing # {},
           NEW n, start <= Listed \/ start <= n - Period * (Lookback - 1),
           n \in Int,
           NEW c \in CallRecord, c.missing = missing, c.cursor = Min(missing), c.until = end, c.got = {},
           c.op # "backfill" => c.until = c.begun
    PROVE  Asks(c, Times(bars[s]), n)
<1>1. missing = {ts \in Int : Opening(ts) /\ start <= ts /\ ts <= end} \ Times(bars[s])
  BY GapsAre
<1>2. PICK span \in Int : span = Period * (Lookback - 1)
  BY BarsAssumption
<1>3. \A x : Wanted(x, n) /\ x <= c.until => x \in Times(bars[s]) \/ x \in c.missing
  BY <1>1, <1>2, BarsAssumption DEF Wanted
<1>4. missing \subseteq bar_starts(start, end, Period)
  BY DEF find_gaps
<1>5. \A x \in missing : Min(missing) <= x /\ Min(missing) \in Int
  BY <1>4, FirstMissing
<1>6. Runs(c.missing, c.got, c.cursor, n)
  <2>1. \A x \in missing : x \in Int
    BY <1>1
  <2>2. \A x \in missing : ~(x < Min(missing))
    BY <1>5, <2>1
  <2> QED BY <2>2 DEF Runs
<1> QED BY <1>1, <1>3, <1>6 DEF Asks

\* A signal's window, a warm pass and a backfill start.
LEMMA RequestsProceed ==
    ASSUME MarketInv, WindowInv, Deep, NEW t \in Thread
    PROVE  /\ \A s \in Series : LoadWindow(t, s) => Proceeds(t, bars)
           /\ \A instruments \in SUBSET Series : Sync(t, instruments) => Proceeds(t, bars)
           /\ \A s \in Series, start \in BackfillStarts, end \in BackfillEnds :
                 Backfill(t, s, start, end) => Proceeds(t, bars)
<1>p. now \in Nat
  BY DEF MarketInv, BarsTypeOK
<1>w. PICK w \in Int : w = newest_at(now) /\ Opening(w) /\ w + Period <= now
  BY <1>p, NewestOpens
<1>1. ASSUME NEW s \in Series, LoadWindow(t, s) PROVE Proceeds(t, bars)
  <2>1. PICK n \in CallRecord : /\ n = NewCall("window", s, Lookback) /\ n.begun = newest_at(now)
                                /\ n.at = "coverage" /\ n.op = "window" /\ n.lookback = Lookback
    BY BarsAssumption, NewCallIs
  <2>2. call' = [call EXCEPT ![t] = n]
    BY <1>1, <2>1, Zenon DEF LoadWindow
  <2>3. Covers(n, Times(bars[n.s]), newest_at(now))
    BY <1>w, <2>1 DEF Covers, Begun
  <2> QED BY <2>1, <2>2, <2>3 DEF Proceeds
<1>2. ASSUME NEW instruments \in SUBSET Series, Sync(t, instruments) PROVE Proceeds(t, bars)
  <2>1. PICK first \in Series : first = CHOOSE s \in instruments : TRUE
    BY <1>2 DEF Sync
  <2>2. PICK n \in CallRecord : /\ n = NewCall("sync", first, WarmLookback) /\ n.begun = newest_at(now)
                                /\ n.op = "sync" /\ n.lookback = WarmLookback
    BY BarsAssumption, NewCallIs
  <2>3. PICK d \in CallRecord : d = [n EXCEPT !.at = "next", !.todo = instruments]
    BY DEF CallRecord
  <2>4. d.at = "next" /\ d.begun = n.begun /\ d.op = n.op /\ d.lookback = n.lookback
    BY <2>3 DEF CallRecord
  <2>5. call' = [call EXCEPT ![t] = [NewCall("sync", first, WarmLookback) EXCEPT !.at = "next", !.todo = instruments]]
    BY <1>2, <2>1, Zenon DEF Sync
  <2>6. call' = [call EXCEPT ![t] = d]
    BY <2>2, <2>3, <2>5, Zenon
  <2>7. Covers(d, Times(bars[d.s]), newest_at(now))
    BY <1>w, <2>2, <2>4 DEF Covers, Begun
  <2> QED BY <2>4, <2>6, <2>7 DEF Proceeds
<1>3. ASSUME NEW s \in Series, NEW start \in BackfillStarts, NEW end \in BackfillEnds,
             Backfill(t, s, start, end)
      PROVE  Proceeds(t, bars)
  <2>1. PICK last \in Int : last = IF end = NoEnd THEN newest_at(now) ELSE end
    <3>1. CASE end = NoEnd
      BY <1>w, <3>1, Zenon
    <3>2. CASE end # NoEnd
      BY <3>2, BarsAssumption
    <3> QED BY <3>1, <3>2
  <2>2. PICK missing : missing = find_gaps(s, start, last)
    OBVIOUS
  <2>3. /\ missing # {}
        /\ call' = [call EXCEPT ![t] =
             [NewCall("backfill", s, 1) EXCEPT
                !.at = "select", !.missing = missing, !.cursor = Min(missing),
                !.until = last, !.open_end = last > newest_at(now)]]
    BY <1>3, <2>1, <2>2, Zenon DEF Backfill
  <2>s. PICK from \in Int : from = start
    BY BarsAssumption
  <2>4. missing \in SUBSET Int /\ Min(missing) \in Int
    <3>1. missing \subseteq bar_starts(from, last, Period)
      BY <2>2, <2>s DEF find_gaps
    <3> QED BY <2>3, <3>1, FirstMissing
  <2>5. PICK one \in Nat : one = 1
    OBVIOUS
  <2>6. PICK n \in CallRecord :
            /\ n = NewCall("backfill", s, one)
            /\ n.begun = newest_at(now) /\ n.s = s /\ n.goal = "gaps" /\ n.got = {} /\ n.op = "backfill"
    BY NewCallIs
  <2>7. PICK m \in Int : m = Min(missing)
    BY <2>4, Zenon
  <2>o. PICK open \in BOOLEAN : open = (last > w)
    <3>1. (last > w) \in BOOLEAN
      OBVIOUS
    <3> QED BY <3>1, Zenon
  <2>9. PICK d \in CallRecord :
            d = [n EXCEPT !.at = "select", !.missing = missing, !.cursor = m, !.until = last, !.open_end = open]
    BY <2>4 DEF CallRecord
  <2>10. /\ d.at = "select" /\ d.begun = n.begun /\ d.until = last /\ d.got = n.got /\ d.s = n.s
         /\ d.op = n.op /\ d.goal = n.goal /\ d.missing = missing /\ d.cursor = m
    BY <2>9 DEF CallRecord
  <2>11. call' = [call EXCEPT ![t] = d]
    BY <1>w, <2>3, <2>5, <2>6, <2>7, <2>o, <2>9, Zenon
  <2>12. from <= Listed \/ from <= w - Period * (Lookback - 1)
    <3>1. PICK f \in Int : f = newest_at(FirstNow)
      BY BarsAssumption, NewestOpens
    <3>2. PICK span \in Int : span = Period * (Lookback - 1)
      BY BarsAssumption
    <3>3. start <= Listed \/ start <= f - span
      BY <3>1, <3>2 DEF Deep
    <3>4. f <= w
      BY <1>w, <3>1 DEF WindowInv
    <3> QED BY <2>s, <3>2, <3>3, <3>4
  <2>13. Asks(d, Times(bars[s]), w)
    BY <2>2, <2>3, <2>s, <2>6, <2>7, <2>10, <2>12, AsksForHoles
  <2>14. Covers(d, Times(bars[d.s]), newest_at(now))
    BY <1>w, <2>6, <2>10, <2>13 DEF Covers, Begun
  <2> QED BY <2>10, <2>11, <2>14 DEF Proceeds
<1> QED BY <1>1, <1>2, <1>3

\* The next instrument of a warm pass.
LEMMA SyncNextProceeds ==
    ASSUME MarketInv, WindowInv, NEW t \in Thread, SyncNext(t)
    PROVE  Proceeds(t, bars)
<1>1. PICK c \in CallRecord : c = call[t] /\ c.at = "next" /\ Covers(c, Times(bars[c.s]), newest_at(now))
  BY DEF SyncNext, At, MarketInv, WindowInv
<1>2. CASE call' = [call EXCEPT ![t] = NoCall]
  BY <1>2 DEF Proceeds
<1>3. ASSUME NEW s \in c.todo,
             call' = [call EXCEPT ![t].s = s, ![t].todo = c.todo \ {s}, ![t].at = "coverage"]
      PROVE  Proceeds(t, bars)
  <2>1. s \in Series /\ c.todo \in SUBSET Series
    BY DEF CallRecord
  <2>2. PICK d \in CallRecord : d = [c EXCEPT !.s = s, !.todo = c.todo \ {s}, !.at = "coverage"]
    BY <2>1 DEF CallRecord
  <2>3. d.at = "coverage" /\ d.begun = c.begun /\ d.op = c.op /\ d.lookback = c.lookback
    BY <2>2 DEF CallRecord
  <2>4. call' = [call EXCEPT ![t] = d]
    BY <1>1, <1>3, <2>2 DEF MarketInv
  <2>5. Covers(d, Times(bars[d.s]), newest_at(now))
    BY <1>1, <2>3 DEF Covers, Begun
  <2> QED BY <2>3, <2>4, <2>5 DEF Proceeds
<1> QED BY <1>1, <1>2, <1>3 DEF SyncNext, MarketInv

\* The freshness gate: what a signal is begun for is behind the newest row.
LEMMA CoverageProceeds ==
    ASSUME MarketInv, WindowInv, NEW t \in Thread, EnsureCoverage(t)
    PROVE  Proceeds(t, bars)
<1>1. PICK c \in CallRecord : c = call[t] /\ c.at = "coverage" /\ Covers(c, Times(bars[c.s]), newest_at(now))
  BY DEF EnsureCoverage, At, MarketInv, WindowInv
<1>2. PICK T : T = Times(bars[c.s])
  OBVIOUS
<1>3. T \in SUBSET Int /\ NoHoles(T, newest_at(now))
  <2>1. \A row \in bars[c.s] : row.ts \in Int
    BY DEF MarketInv, BarsTypeOK, CallRecord, Bar
  <2> QED BY <1>2, <2>1 DEF Times, WindowInv, CallRecord
<1>4. CASE Goto(t, "gaps")
  <2>1. PICK d \in CallRecord : d = [c EXCEPT !.at = "gaps"]
    BY DEF CallRecord
  <2>2. d.at = "gaps" /\ d.begun = c.begun /\ d.op = c.op /\ d.lookback = c.lookback
    BY <2>1 DEF CallRecord
  <2>3. call' = [call EXCEPT ![t] = d]
    BY <1>1, <1>4, <2>1 DEF Goto, MarketInv
  <2>4. Covers(d, Times(bars[d.s]), newest_at(now))
    BY <1>1, <2>2 DEF Covers, Begun
  <2> QED BY <2>2, <2>3, <2>4 DEF Proceeds
<1>5. CASE Fresh(t) /\ T # {} /\ Max(T) >= c.begun
  <2>1. Max(T) \in T
    <3>1. PICK k \in Int : k = newest_at(now) + Period
      BY BarsAssumption, NewestIsClosed
    <3>2. \A y \in T : y <= k
      BY <1>3, <3>1 DEF NoHoles, Printed
    <3> QED BY <1>3, <1>5, <3>2, LastOfPage
  <2>2. Wanted(c.begun, newest_at(now)) => c.begun \in T
    BY <1>3, <1>5, <2>1 DEF NoHoles
  <2>3. c.op = "window" => Reads(c, T, newest_at(now))
    BY <2>2 DEF Reads
  <2> QED BY <1>1, <1>2, <1>5, <2>3, FreshProceeds DEF Covers
<1>6. Stored(c.s) = T
  BY <1>2 DEF Stored, Times
<1> QED BY <1>1, <1>4, <1>5, <1>6 DEF EnsureCoverage, get_coverage

\* What a fetch of gaps is begun with.
LEMMA GapsProceed ==
    ASSUME MarketInv, WindowInv, Deep, NEW t \in Thread, EnsureGaps(t)
    PROVE  Proceeds(t, bars)
<1>1. PICK c \in CallRecord : c = call[t] /\ c.at = "gaps" /\ Covers(c, Times(bars[c.s]), newest_at(now))
  BY DEF EnsureGaps, At, MarketInv, WindowInv
<1>p. Period \in Nat \ {0} /\ now \in Nat /\ Lookback \in Nat /\ WarmLookback \in Nat
  BY BarsAssumption DEF MarketInv, BarsTypeOK
<1>w. PICK w \in Int : w = newest_at(now) /\ Opening(w)
  BY <1>p, NewestOpens
<1>2. PICK start \in Int : start = c.begun - Period * (c.lookback - 1)
  BY <1>p DEF CallRecord
<1>3. PICK newest \in Int : newest = c.begun
  BY DEF CallRecord
<1>4. PICK missing : missing = find_gaps(c.s, start, newest)
  OBVIOUS
<1>5. (Fresh(t) /\ missing = {}) \/ (missing # {} /\ Fetching(t, "gaps", missing, Min(missing), newest))
  BY <1>1, <1>2, <1>3, <1>4 DEF EnsureGaps
<1>6. c.op # "backfill" /\ Begun(c, w) /\ c.s \in Series
  BY <1>1, <1>w DEF Covers, CallRecord
<1>7. start <= w - Period * (Lookback - 1)
  <2>1. Period * (Lookback - 1) \in Int /\ Period * (c.lookback - 1) \in Int
    BY <1>p DEF CallRecord
  <2>2. Lookback <= c.lookback /\ c.lookback \in Nat
    BY <1>p, <1>6 DEF Deep, Begun, CallRecord
  <2>3. (Lookback - 1) * Period <= (c.lookback - 1) * Period
    <3>1. Lookback - 1 \in Int /\ c.lookback - 1 \in Int /\ Lookback - 1 <= c.lookback - 1
      BY <1>p, <2>2
    <3> QED BY <1>p, <3>1, ProductOrder
  <2>4. Period * (Lookback - 1) <= Period * (c.lookback - 1)
    BY <1>p, <2>2, <2>3
  <2> QED BY <1>2, <1>3, <1>6, <2>1, <2>4 DEF Begun
<1>8. CASE missing # {} /\ Fetching(t, "gaps", missing, Min(missing), newest)
  <2>1. missing \subseteq bar_starts(start, newest, Period)
    BY <1>4 DEF find_gaps
  <2>2. missing \in SUBSET Int /\ Min(missing) \in Int
    BY <1>8, <2>1, FirstMissing
  <2>3. PICK m \in Int : m = Min(missing)
    BY <2>2, Zenon
  <2>4. PICK b \in SUBSET Bar : b = {}
    OBVIOUS
  <2>5. PICK d \in CallRecord :
            d = [c EXCEPT !.at = "select", !.goal = "gaps", !.missing = missing,
                          !.cursor = m, !.until = newest, !.got = b]
    BY <2>2 DEF CallRecord
  <2>6. /\ d.at = "select" /\ d.begun = c.begun /\ d.until = newest /\ d.got = b /\ d.s = c.s
        /\ d.op = c.op /\ d.goal = "gaps" /\ d.missing = missing /\ d.cursor = m /\ d.lookback = c.lookback
    BY <2>5 DEF CallRecord
  <2>7. call' = [call EXCEPT ![t].at = "select", ![t].goal = "gaps", ![t].missing = missing,
                             ![t].cursor = m, ![t].until = newest, ![t].got = b]
    BY <1>8, <2>3, <2>4, Zenon DEF Fetching
  <2>8. call' = [call EXCEPT ![t] = d]
    BY <1>1, <2>5, <2>7 DEF MarketInv
  <2>9. Asks(d, Times(bars[c.s]), w)
    BY <1>3, <1>4, <1>6, <1>7, <1>8, <2>3, <2>4, <2>6, AsksForHoles
  <2>10. Covers(d, Times(bars[d.s]), newest_at(now))
    BY <1>6, <1>w, <2>6, <2>9 DEF Covers, Begun
  <2> QED BY <2>6, <2>8, <2>10 DEF Proceeds
<1>9. CASE Fresh(t) /\ missing = {}
  <2>1. {ts \in Int : Opening(ts) /\ start <= ts /\ ts <= newest} \subseteq Times(bars[c.s])
    <3>1. missing = {ts \in Int : Opening(ts) /\ start <= ts /\ ts <= newest} \ Times(bars[c.s])
      BY <1>4, <1>6, GapsAre
    <3> QED BY <1>9, <3>1
  <2>2. PICK span \in Int : span = Period * (Lookback - 1)
    BY <1>p
  <2>3. Wanted(c.begun, w) => c.begun \in Times(bars[c.s])
    BY <1>3, <1>7, <2>1, <2>2 DEF Wanted
  <2>4. c.op = "window" => Reads(c, Times(bars[c.s]), newest_at(now))
    BY <1>w, <2>3 DEF Reads
  <2> QED BY <1>1, <1>9, <2>4, FreshProceeds DEF Covers
<1> QED BY <1>5, <1>8, <1>9

\* A page begins: the default type is set.
LEMMA SelectProceeds ==
    ASSUME MarketInv, WindowInv, NEW t \in Thread, SelectType(t)
    PROVE  Proceeds(t, bars)
<1>1. PICK c \in CallRecord : c = call[t] /\ c.at = "select" /\ Covers(c, Times(bars[c.s]), newest_at(now))
  BY DEF SelectType, At, MarketInv, WindowInv
<1>2. PICK d \in CallRecord : d = [c EXCEPT !.at = "page"]
  BY DEF CallRecord
<1>3. /\ d.at = "page" /\ d.begun = c.begun /\ d.op = c.op /\ d.lookback = c.lookback /\ d.s = c.s
      /\ d.goal = c.goal /\ d.missing = c.missing /\ d.got = c.got /\ d.cursor = c.cursor
      /\ d.until = c.until /\ d.closed = c.closed
  BY <1>2 DEF CallRecord
<1>4. call' = [call EXCEPT ![t] = d]
  BY <1>1, <1>2 DEF SelectType, Goto, MarketInv
<1>5. Covers(d, Times(bars[d.s]), newest_at(now))
  <2>1. c.goal = "gaps" => Asks(d, Times(bars[c.s]), newest_at(now))
    BY <1>1, <1>3 DEF Covers, Asks
  <2>2. c.goal = "forming" => Forms(d)
    BY <1>1, <1>3 DEF Covers, Forms
  <2> QED BY <1>1, <1>3, <2>1, <2>2 DEF Covers, Begun
<1> QED BY <1>3, <1>4, <1>5 DEF Proceeds

\* A page is a run of the printed bars: it leaves none out between the cursor and
\* its last bar.  A replayed page has nothing from the cursor on.
LEMMA PagesAreRuns ==
    ASSUME now \in Nat, NEW cursor \in Int, NEW batch \in Pages(cursor)
    PROVE  /\ batch \in SUBSET Int
           /\ batch # {} => Max(batch) \in batch /\ \A y \in batch : y <= Max(batch)
           /\ \A y \in batch : y >= cursor => Opening(y) /\ Printed(y, newest_at(now))
           /\ \A y \in batch, x \in Int :
                 Opening(x) /\ Listed <= x /\ cursor <= x /\ x <= y => x \in batch
<1>1. Period \in Nat \ {0} /\ now \in Int /\ now \in Nat /\ Listed \in Int /\ Listed \in Nat
  BY BarsAssumption
<1>2. PICK n \in Int : n = newest_at(now) /\ Opening(n + Period) /\ n + Period <= now /\ now < n + Period + Period
  BY <1>1, NewestOpens
<1>3. PICK printed \in SUBSET Int : printed = {ts \in bar_starts(Listed, now, Period) : ts >= cursor}
  <2>1. bar_starts(Listed, now, Period) \in SUBSET Int
    BY <1>1, BarStarts
  <2> QED BY <2>1
<1>4. printed = {ts \in Int : Opening(ts) /\ Listed <= ts /\ ts <= now /\ ts >= cursor}
  <2>1. bar_starts(Listed, now, Period) = {ts \in Int : Opening(ts) /\ Listed <= ts /\ ts <= now}
    BY <1>1, BarStarts
  <2> QED BY <1>3, <2>1
<1>5. ASSUME NEW y \in printed PROVE Opening(y) /\ Printed(y, n)
  <2>1. y \in Int /\ Opening(y) /\ Listed <= y /\ y < n + Period + Period
    BY <1>1, <1>2, <1>4, <1>5
  <2>2. y <= n + Period
    <3>1. PICK f \in Int : f = n + Period
      BY <1>1
    <3> QED BY <1>2, <2>1, <3>1, OpeningsApart
  <2> QED BY <2>1, <2>2 DEF Printed
<1>6. ASSUME NEW S \in SUBSET printed, \A y \in S, x \in printed : x <= y => x \in S,
             batch = {ts \in S : Cardinality({u \in S : u <= ts}) <= PageLimit}
      PROVE  \A y \in batch, x \in printed : x <= y => x \in batch
  <2> SUFFICES ASSUME NEW y \in batch, NEW x \in printed, x <= y PROVE x \in batch
    OBVIOUS
  <2>1. y \in S /\ x \in S /\ x \in Int /\ y \in Int
    BY <1>6
  <2>0. \A u \in S : u \in Int /\ u \in Listed .. now
    <3>1. \A u \in printed : u \in Int /\ Listed <= u /\ u <= now
      BY <1>4
    <3> QED BY <1>1, <3>1
  <2>2. {u \in S : u <= y} \subseteq Listed .. now
    BY <2>0
  <2>3. IsFiniteSet({u \in S : u <= y})
    <3>1. IsFiniteSet(Listed .. now)
      BY <1>1, FS_Interval
    <3> QED BY <2>2, <3>1, FS_Subset
  <2>4. {u \in S : u <= x} \subseteq {u \in S : u <= y}
    <3>1. \A u \in S : u <= x => u <= y
      BY <2>0, <2>1
    <3> QED BY <3>1
  <2>5. /\ Cardinality({u \in S : u <= x}) <= Cardinality({u \in S : u <= y})
        /\ IsFiniteSet({u \in S : u <= x})
    BY <2>3, <2>4, FS_Subset
  <2>6. Cardinality({u \in S : u <= x}) \in Nat /\ Cardinality({u \in S : u <= y}) \in Nat
    BY <2>3, <2>5, FS_CardinalityType
  <2>7. Cardinality({u \in S : u <= y}) <= PageLimit /\ PageLimit \in Nat
    BY <1>6, BarsAssumption
  <2>8. Cardinality({u \in S : u <= x}) <= PageLimit
    BY <2>5, <2>6, <2>7
  <2> QED BY <1>6, <2>1, <2>8
<1>7. \/ batch \subseteq printed /\ \A y \in batch, x \in printed : x <= y => x \in batch
      \/ batch = {cursor - Period}
  <2>1. CASE batch = {ts \in printed : Cardinality({u \in printed : u <= ts}) <= PageLimit}
    <3>1. PICK S \in SUBSET printed : S = printed
      OBVIOUS
    <3>2. batch \subseteq printed
      BY <2>1
    <3> QED BY <1>6, <2>1, <3>1, <3>2
  <2>2. ASSUME NEW S \in SUBSET printed, S = {ts \in printed : ts < n},
               batch = {ts \in S : Cardinality({u \in S : u <= ts}) <= PageLimit}
        PROVE  batch \subseteq printed /\ \A y \in batch, x \in printed : x <= y => x \in batch
    <3>1. \A y \in S, x \in printed : x <= y => x \in S
      BY <1>2, <2>2
    <3>2. batch \subseteq printed
      BY <2>2
    <3> QED BY <1>6, <2>2, <3>1, <3>2
  <2>3. PICK S \in SUBSET printed : S = {ts \in printed : ts < n}
    OBVIOUS
  <2>4. \/ batch = {ts \in printed : Cardinality({u \in printed : u <= ts}) <= PageLimit}
        \/ batch = {ts \in S : Cardinality({u \in S : u <= ts}) <= PageLimit}
        \/ batch = {cursor - Period}
    BY <1>2, <1>3, <2>3, Zenon DEF Pages
  <2> QED BY <2>1, <2>2, <2>3, <2>4
<1>8. CASE batch = {cursor - Period}
  <2>1. PICK z \in Int : z = cursor - Period /\ z < cursor
    BY <1>1
  <2>2. batch = {z}
    BY <1>8, <2>1
  <2>3. Max(batch) \in batch /\ \A y \in batch : y <= Max(batch)
    BY <2>2, LastOfPage
  <2> QED BY <2>1, <2>2, <2>3
<1>9. CASE batch \subseteq printed /\ \A y \in batch, x \in printed : x <= y => x \in batch
  <2>1. batch \in SUBSET Int /\ \A y \in batch : y <= now
    BY <1>4, <1>9
  <2>2. batch # {} => Max(batch) \in batch /\ \A y \in batch : y <= Max(batch)
    BY <1>1, <2>1, LastOfPage
  <2>3. \A y \in batch, x \in Int : Opening(x) /\ Listed <= x /\ cursor <= x /\ x <= y => x \in batch
    <3> SUFFICES ASSUME NEW y \in batch, NEW x \in Int, Opening(x), Listed <= x, cursor <= x, x <= y
                 PROVE  x \in batch
      OBVIOUS
    <3>1. y \in Int /\ y <= now
      BY <2>1
    <3>2. x \in printed
      BY <1>1, <1>4, <3>1
    <3> QED BY <1>9, <3>2
  <2> QED BY <1>2, <1>5, <1>9, <2>1, <2>2, <2>3
<1> QED BY <1>7, <1>8, <1>9

\* What was fetched stays a run when a page is added to it.
LEMMA PageRuns ==
    ASSUME now \in Nat, NEW t \in Thread, NEW c \in CallRecord, NEW batch \in Pages(c.cursor),
           NEW got, got = c.got \cup {Row(t, ts) : ts \in {u \in batch : u \in c.cursor..c.until}},
           \A x \in c.missing : Opening(x) /\ x <= c.until,
           NEW n \in Int, n = newest_at(now), Runs(c.missing, c.got, c.cursor, n)
    PROVE  \E k \in Int : /\ Runs(c.missing, got, k, n)
                          /\ batch # {} /\ Max(batch) >= c.cursor => k = Max(batch) + Period
<1>1. c.cursor \in Int /\ c.until \in Int /\ c.missing \in SUBSET Int /\ Period \in Nat \ {0} /\ Listed \in Int
  BY BarsAssumption DEF CallRecord
<1>2. PICK from \in Int : from = c.cursor
  BY <1>1
<1>3. /\ batch \in SUBSET Int
      /\ batch # {} => Max(batch) \in batch /\ \A y \in batch : y <= Max(batch)
      /\ \A y \in batch : y >= from => Opening(y) /\ Printed(y, n)
      /\ \A y \in batch, x \in Int : Opening(x) /\ Listed <= x /\ from <= x /\ x <= y => x \in batch
  <2>1. batch \in Pages(from)
    BY <1>2
  <2> QED BY <2>1, PagesAreRuns
<1>4. \A ts : Row(t, ts).ts = ts
  BY DEF Row
<1>5. \A x \in Times(c.got) : x \in Times(got)
  BY DEF Times
<1>6. \A ts \in batch : from <= ts /\ ts <= c.until => ts \in Times(got)
  <2> SUFFICES ASSUME NEW ts \in batch, from <= ts, ts <= c.until PROVE ts \in Times(got)
    OBVIOUS
  <2>1. ts \in c.cursor .. c.until
    BY <1>1, <1>2, <1>3
  <2>2. Row(t, ts) \in got
    BY <2>1
  <2> QED BY <1>4, <2>2 DEF Times
<1>7. ASSUME NEW row \in got
      PROVE  row \in c.got \/ (row.ts \in batch /\ from <= row.ts)
  <2>1. CASE row \in c.got
    BY <2>1
  <2>2. ASSUME NEW ts \in batch, ts \in c.cursor .. c.until, row = Row(t, ts)
        PROVE  row.ts \in batch /\ from <= row.ts
    <3>1. row.ts = ts
      BY <1>4, <2>2
    <3> QED BY <1>1, <1>2, <2>2, <3>1
  <2> QED BY <1>7, <2>1, <2>2
<1>8. CASE batch = {} \/ ~(Max(batch) >= c.cursor)
  <2>1. ASSUME NEW ts \in batch PROVE ~(from <= ts)
    <3>1. PICK last \in Int : last = Max(batch) /\ ts <= last
      BY <1>3
    <3>2. ~(last >= from) /\ ts \in Int
      BY <1>2, <1>3, <1>8, <3>1
    <3> QED BY <3>1, <3>2
  <2>2. Runs(c.missing, got, from, n)
    BY <1>2, <1>5, <1>7, <2>1 DEF Runs
  <2> QED BY <1>8, <2>2
<1>9. CASE batch # {} /\ Max(batch) >= c.cursor
  <2>1. PICK last \in Int : last = Max(batch) /\ last \in batch /\ last >= from /\ Opening(last)
    BY <1>2, <1>3, <1>9
  <2>2. PICK k \in Int : k = last + Period
    BY <1>1
  <2>3. ASSUME NEW x \in c.missing, Listed <= x, x < k PROVE x \in Times(got)
    <3>1. x \in Int /\ Opening(x) /\ x <= c.until
      BY <1>1
    <3>2. CASE x < from
      BY <1>2, <1>5, <2>3, <3>2 DEF Runs
    <3>3. CASE from <= x
      <4>1. x <= last
        BY <2>1, <2>2, <2>3, <3>1, OpeningsApart
      <4>2. x \in batch
        BY <1>3, <2>1, <2>3, <3>1, <3>3, <4>1
      <4> QED BY <1>6, <3>1, <3>3, <4>2
    <3> QED BY <1>2, <3>1, <3>2, <3>3
  <2>4. ASSUME NEW row \in got PROVE Printed(row.ts, n) /\ row.ts < k
    <3>1. CASE row \in c.got
      <4>1. row.ts \in Int
        BY <3>1 DEF CallRecord, Bar
      <4>2. Printed(row.ts, n) /\ row.ts < from
        BY <1>2, <3>1 DEF Runs
      <4> QED BY <1>1, <2>1, <2>2, <4>1, <4>2
    <3>2. CASE row.ts \in batch /\ from <= row.ts
      <4>1. PICK z \in Int : z = row.ts /\ z \in batch /\ from <= z
        BY <1>3, <3>2
      <4>2. z <= last /\ Printed(z, n)
        BY <1>3, <2>1, <4>1
      <4> QED BY <1>1, <2>1, <2>2, <4>1, <4>2
    <3> QED BY <1>7, <3>1, <3>2
  <2>5. Runs(c.missing, got, k, n)
    BY <2>3, <2>4 DEF Runs
  <2> QED BY <2>1, <2>2, <2>5
<1> QED BY <1>8, <1>9

\* fetch_bars returned the bars of a range.
LEMMA GapsFetched ==
    ASSUME MarketInv, NEW t \in Thread, NEW c \in CallRecord, c = call[t], c.goal = "gaps",
           NEW n \in Int, n = newest_at(now), Begun(c, n), Asks(c, Times(bars[c.s]), n),
           NEW got \in SUBSET Bar, NEW k \in Int, Runs(c.missing, got, k, n), Fetched(t, got)
    PROVE  Proceeds(t, bars)
<1>1. PICK rws \in SUBSET Bar : rws = {row \in got : row.ts \in c.missing}
  OBVIOUS
<1>2. c.begun \in Int /\ c.until \in Int /\ c.missing \in SUBSET Int
  BY DEF CallRecord
<1>3. \/ Raise(t)
      \/ /\ c.op = "backfill" \/ ~reject_incomplete(c.missing, got, c.begun)
         /\ \/ rws = {} /\ StoreOver(t)
            \/ /\ rws # {}
               /\ call' = [call EXCEPT ![t].at = "store", ![t].got = rws,
                                       ![t].missing = {}, ![t].cursor = 0, ![t].until = 0]
  BY <1>1 DEF Fetched
<1>4. \A x \in c.missing : x \in Times(got) => x \in Times(rws)
  BY <1>1 DEF Times
<1>5. ~reject_incomplete(c.missing, got, c.begun) => c.begun \notin c.missing \/ c.begun \in Times(rws)
  <2>1. ~reject_incomplete(c.missing, got, c.begun) => c.begun \notin c.missing \ Times(got)
    BY DEF reject_incomplete, Times
  <2> QED BY <1>4, <2>1
<1>6. c.op = "window" /\ ~reject_incomplete(c.missing, got, c.begun) /\ Wanted(c.begun, n)
         => c.begun \in Times(bars[c.s]) \/ c.begun \in Times(rws)
  BY <1>2, <1>5 DEF Asks
<1>7. CASE Raise(t)
  BY <1>7, EndsProceeds DEF Raise
<1>8. CASE rws = {} /\ StoreOver(t) /\ (c.op = "backfill" \/ ~reject_incomplete(c.missing, got, c.begun))
  <2>1. Times(rws) = {}
    BY <1>8 DEF Times
  <2>2. c.op = "window" => Reads(c, Times(bars[c.s]), newest_at(now))
    BY <1>6, <1>8, <2>1 DEF Reads
  <2> QED BY <1>8, <2>2, StoreOverProceeds
<1>9. CASE /\ rws # {} /\ (c.op = "backfill" \/ ~reject_incomplete(c.missing, got, c.begun))
           /\ call' = [call EXCEPT ![t].at = "store", ![t].got = rws,
                                   ![t].missing = {}, ![t].cursor = 0, ![t].until = 0]
  <2>1. PICK e \in SUBSET Int : e = {}
    OBVIOUS
  <2>2. PICK z \in Int : z = 0
    OBVIOUS
  <2>3. PICK d \in CallRecord :
            d = [c EXCEPT !.at = "store", !.got = rws, !.missing = e, !.cursor = z, !.until = z]
    BY DEF CallRecord
  <2>4. d.at = "store" /\ d.begun = c.begun /\ d.got = rws /\ d.s = c.s /\ d.op = c.op /\ d.lookback = c.lookback
    BY <2>3 DEF CallRecord
  <2>5. call' = [call EXCEPT ![t].at = "store", ![t].got = rws,
                             ![t].missing = e, ![t].cursor = z, ![t].until = z]
    BY <1>9, <2>1, <2>2, Zenon
  <2>6. call' = [call EXCEPT ![t] = d]
    BY <2>3, <2>5 DEF MarketInv
  <2>7. ASSUME NEW row \in rws
        PROVE  /\ Printed(row.ts, n)
               /\ \A x : Wanted(x, n) /\ x <= row.ts => x \in Times(bars[c.s]) \/ x \in Times(rws)
    <3>1. row \in got /\ row.ts \in c.missing /\ row.ts \in Int
      BY <1>1, <1>2
    <3>2. Printed(row.ts, n) /\ row.ts < k /\ row.ts <= c.until
      BY <3>1 DEF Runs, Asks
    <3>3. ASSUME NEW x, Wanted(x, n), x <= row.ts PROVE x \in Times(bars[c.s]) \/ x \in Times(rws)
      <4>1. x \in Int /\ Listed <= x
        BY <3>3 DEF Wanted
      <4>2. x <= c.until /\ x < k
        BY <1>2, <3>1, <3>2, <3>3, <4>1
      <4>3. x \in Times(bars[c.s]) \/ x \in c.missing
        BY <3>3, <4>2 DEF Asks
      <4> QED BY <1>4, <4>1, <4>2, <4>3 DEF Runs
    <3> QED BY <3>2, <3>3
  <2>8. Stores(d, Times(bars[c.s]), n)
    BY <1>6, <1>9, <2>4, <2>7 DEF Stores
  <2>9. Covers(d, Times(bars[d.s]), newest_at(now))
    BY <2>4, <2>8 DEF Covers, Begun
  <2> QED BY <2>4, <2>6, <2>9 DEF Proceeds
<1> QED BY <1>3, <1>7, <1>8, <1>9

\* fetch_bars returned the forming bar.
LEMMA FormingFetched ==
    ASSUME MarketInv, NEW t \in Thread, NEW c \in CallRecord, c = call[t], c.goal = "forming",
           Begun(c, newest_at(now)), Joins(c.closed, c.until, c.begun),
           NEW got \in SUBSET Bar, \A row \in got : row.ts = c.until, Fetched(t, got)
    PROVE  Proceeds(t, bars)
<1>1. CASE Raise(t)
  BY <1>1, EndsProceeds DEF Raise
<1>2. CASE got # {} /\ call' = [call EXCEPT ![t].at = "serve", ![t].got = got]
  <2>1. PICK d \in CallRecord : d = [c EXCEPT !.at = "serve", !.got = got]
    BY DEF CallRecord
  <2>2. /\ d.at = "serve" /\ d.begun = c.begun /\ d.got = got /\ d.op = c.op /\ d.lookback = c.lookback
        /\ d.closed = c.closed /\ d.until = c.until
    BY <2>1 DEF CallRecord
  <2>3. call' = [call EXCEPT ![t] = d]
    BY <1>2, <2>1 DEF MarketInv
  <2>4. Covers(d, Times(bars[d.s]), newest_at(now))
    BY <1>2, <2>2 DEF Covers, Begun, Serves
  <2> QED BY <2>2, <2>3, <2>4 DEF Proceeds
<1> QED BY <1>1, <1>2 DEF Fetched

\* A page answered.
LEMMA PageProceeds ==
    ASSUME MarketInv, WindowInv, NEW t \in Thread, FetchPage(t)
    PROVE  Proceeds(t, bars)
<1>p. Period \in Nat \ {0} /\ now \in Nat
  BY BarsAssumption DEF MarketInv, BarsTypeOK
<1>w. PICK n \in Int : n = newest_at(now)
  BY <1>p, NewestOpens
<1>1. PICK c \in CallRecord : /\ c = call[t] /\ c.at = "page" /\ CallOK(c, client, now)
                              /\ Covers(c, Times(bars[c.s]), n)
  BY <1>w DEF FetchPage, At, MarketInv, WindowInv
<1>2. PICK batch \in Pages(c.cursor) :
          LET got == c.got \cup {Row(t, ts) : ts \in {u \in batch : u \in c.cursor..c.until}}
          IN  \/ Fetched(t, got)
              \/ /\ ~(batch = {} \/ Max(batch) < c.cursor \/ Max(batch) + Period > c.until)
                 /\ call' = [call EXCEPT ![t].at = "select", ![t].got = got,
                                         ![t].cursor = Max(batch) + Period]
  BY <1>1 DEF FetchPage
<1>3. PICK from \in Int, until \in Int : from = c.cursor /\ until = c.until
  BY DEF CallRecord
<1>4. /\ batch \in SUBSET Int
      /\ batch # {} => Max(batch) \in batch /\ \A y \in batch : y <= Max(batch)
      /\ \A y \in batch : y >= from => Opening(y) /\ Printed(y, n)
  <2>1. batch \in Pages(from)
    BY <1>3
  <2> QED BY <1>p, <1>w, <2>1, PagesAreRuns
<1>5. PICK got : got = c.got \cup {Row(t, ts) : ts \in {u \in batch : u \in c.cursor..c.until}}
  OBVIOUS
<1>6. \A ts : Row(t, ts).ts = ts
  BY DEF Row
<1>7. got \in SUBSET Bar
  <2>1. ASSUME NEW ts \in batch, ts \in c.cursor .. c.until PROVE Row(t, ts) \in Bar
    <3>1. ts \in Int /\ from <= ts
      BY <1>3, <1>4, <2>1
    <3>2. Listed <= ts /\ Listed \in Nat
      BY <1>4, <3>1, BarsAssumption DEF Printed
    <3>3. ts \in Nat
      BY <3>1, <3>2
    <3>4. client \in Market \cup {NoMarket} /\ call[t].open_end \in BOOLEAN
      BY <1>1 DEF MarketInv, BarsTypeOK, CallRecord
    <3>5. (ts + Period <= now) \in BOOLEAN
      OBVIOUS
    <3> QED BY <3>3, <3>4, <3>5 DEF Row, Bar
  <2>2. c.got \in SUBSET Bar
    BY DEF CallRecord
  <2> QED BY <1>5, <2>1, <2>2
<1>8. Begun(c, n)
  BY <1>1 DEF Covers
<1>9. CASE c.goal = "gaps"
  <2>1. Asks(c, Times(bars[c.s]), n)
    BY <1>1, <1>9 DEF Covers
  <2>2. PICK k \in Int : /\ Runs(c.missing, got, k, n)
                         /\ batch # {} /\ Max(batch) >= c.cursor => k = Max(batch) + Period
    BY <1>p, <1>w, <1>5, <2>1, PageRuns DEF Asks
  <2>3. CASE Fetched(t, got)
    BY <1>1, <1>w, <1>7, <1>8, <1>9, <2>1, <2>2, <2>3, GapsFetched
  <2>4. CASE /\ batch # {} /\ ~(Max(batch) < c.cursor)
             /\ call' = [call EXCEPT ![t].at = "select", ![t].got = got,
                                     ![t].cursor = Max(batch) + Period]
    <3>1. k = Max(batch) + Period
      BY <1>3, <1>4, <2>2, <2>4
    <3>2. PICK d \in CallRecord : d = [c EXCEPT !.at = "select", !.got = got, !.cursor = k]
      BY <1>7 DEF CallRecord
    <3>3. /\ d.at = "select" /\ d.begun = c.begun /\ d.got = got /\ d.s = c.s /\ d.goal = c.goal
          /\ d.until = c.until /\ d.op = c.op /\ d.lookback = c.lookback /\ d.missing = c.missing
          /\ d.cursor = k
      BY <3>2 DEF CallRecord
    <3>4. call' = [call EXCEPT ![t].at = "select", ![t].got = got, ![t].cursor = k]
      BY <2>4, <3>1, Zenon
    <3>5. call' = [call EXCEPT ![t] = d]
      BY <1>1, <3>2, <3>4 DEF MarketInv
    <3>6. Asks(d, Times(bars[c.s]), n)
      BY <2>1, <2>2, <3>3 DEF Asks
    <3>7. Covers(d, Times(bars[d.s]), newest_at(now))
      BY <1>w, <1>8, <1>9, <3>3, <3>6 DEF Covers, Begun
    <3> QED BY <3>3, <3>5, <3>7 DEF Proceeds
  <2> QED BY <1>2, <1>5, <2>3, <2>4
<1>10. CASE c.goal = "forming"
  <2>1. Forms(c)
    BY <1>1, <1>10 DEF Covers
  <2>2. \A row \in got : row.ts = c.until
    <3>1. ASSUME NEW ts \in batch, ts \in c.cursor .. c.until PROVE Row(t, ts).ts = c.until
      <4>1. ts = until
        BY <1>3, <1>4, <2>1, <3>1 DEF Forms
      <4> QED BY <1>3, <1>6, <4>1
    <3> QED BY <1>5, <2>1, <3>1 DEF Forms
  <2>3. CASE Fetched(t, got)
    BY <1>1, <1>w, <1>7, <1>8, <1>10, <2>1, <2>2, <2>3, FormingFetched DEF Forms
  <2>4. batch = {} \/ Max(batch) < c.cursor \/ Max(batch) + Period > c.until
    <3>1. batch # {} => Max(batch) \in Int
      BY <1>4
    <3>2. from = until
      BY <1>3, <2>1 DEF Forms
    <3> QED BY <1>p, <1>3, <3>1, <3>2
  <2> QED BY <1>2, <1>5, <2>3, <2>4
<1> QED BY <1>9, <1>10 DEF CallRecord

\* The oldest bar fetched is stored, so no later one is before the rest.
LEMMA StoreProceeds ==
    ASSUME MarketInv, WindowInv, NEW t \in Thread, StoreBar(t)
    PROVE  /\ Proceeds(t, bars')
           /\ \A s \in Series : /\ Times(bars[s]) \subseteq Times(bars'[s])
                                /\ NoHoles(Times(bars'[s]), newest_at(now))
<1>p. now \in Nat
  BY DEF MarketInv, BarsTypeOK
<1>w. PICK n \in Int : n = newest_at(now)
  BY <1>p, NewestOpens
<1>1. PICK c \in CallRecord : /\ c = call[t] /\ c.at = "store" /\ CallOK(c, client, now)
                              /\ Covers(c, Times(bars[c.s]), n)
  BY <1>w DEF StoreBar, At, MarketInv, WindowInv
<1>2. c.got \in SUBSET Bar /\ c.got # {} /\ c.s \in Series /\ Stores(c, Times(bars[c.s]), n) /\ Begun(c, n)
  BY <1>1 DEF CallOK, CallRecord, Covers
<1>3. PICK row \in c.got : row = Oldest(c.got) /\ \A other \in c.got : row.ts <= other.ts
  BY <1>2, OldestRow
<1>4. Insert(c.s, row) /\ Inserted(t, row)
  BY <1>1, <1>3 DEF StoreBar
<1>5. PICK T, U : T = Times(bars[c.s]) /\ U = Times(bars'[c.s])
  OBVIOUS
<1>6. U = T \cup {row.ts}
  <2>1. Stored(c.s) = T
    BY <1>5 DEF Stored, Times
  <2>2. bars'[c.s] = IF row.ts \in T THEN bars[c.s] ELSE bars[c.s] \cup {row}
    BY <1>2, <1>4, <2>1 DEF Insert, MarketInv, BarsTypeOK
  <2> QED BY <1>5, <2>2 DEF Times
<1>7. \A s \in Series : s # c.s => bars'[s] = bars[s]
  BY <1>4 DEF Insert, MarketInv, BarsTypeOK
<1>8. \A x : (x \in T \/ x \in Times(c.got)) /\ x <= row.ts => x \in U
  <2> SUFFICES ASSUME NEW other \in c.got, other.ts <= row.ts PROVE other.ts \in U
    BY <1>6 DEF Times
  <2>1. other.ts \in Int /\ row.ts \in Int /\ row.ts <= other.ts
    BY <1>2, <1>3 DEF Bar
  <2> QED BY <1>6, <2>1
<1>9. NoHoles(T, n)
  BY <1>2, <1>5, <1>w DEF WindowInv
<1>10. NoHoles(U, n)
  <2>1. ASSUME NEW b \in T PROVE Printed(b, n) /\ \A x : Wanted(x, n) /\ x <= b => x \in U
    BY <1>6, <1>9 DEF NoHoles
  <2>2. Printed(row.ts, n) /\ \A x : Wanted(x, n) /\ x <= row.ts => x \in U
    BY <1>2, <1>5, <1>8 DEF Stores
  <2> QED BY <1>6, <2>1, <2>2 DEF NoHoles
<1>11. PICK left \in SUBSET Bar : left = c.got \ {row}
  BY <1>2
<1>12. \A x : x \in T \/ x \in Times(c.got) => x \in U \/ x \in Times(left)
  BY <1>6, <1>11 DEF Times
<1>13. ASSUME left # {}, call' = [call EXCEPT ![t].got = left] PROVE Proceeds(t, bars')
  <2>1. PICK d \in CallRecord : d = [c EXCEPT !.got = left]
    BY DEF CallRecord
  <2>2. d.at = "store" /\ d.begun = c.begun /\ d.got = left /\ d.s = c.s /\ d.op = c.op /\ d.lookback = c.lookback
    BY <1>1, <2>1 DEF CallRecord
  <2>3. call' = [call EXCEPT ![t] = d]
    BY <1>1, <1>13, <2>1 DEF MarketInv
  <2>4. Stores(d, U, n)
    <3>1. \A other \in left : other \in c.got
      BY <1>11
    <3> QED BY <1>2, <1>5, <1>12, <2>2, <3>1 DEF Stores
  <2>5. Covers(d, U, newest_at(now))
    BY <1>2, <1>w, <2>2, <2>4 DEF Covers, Begun
  <2> QED BY <1>5, <2>2, <2>3, <2>5 DEF Proceeds
<1>14. ASSUME left = {}, StoreOver(t) PROVE Proceeds(t, bars')
  <2>1. Times(left) = {}
    BY <1>14 DEF Times
  <2>2. c.op = "window" => Reads(c, U, newest_at(now))
    BY <1>2, <1>5, <1>12, <1>w, <2>1 DEF Stores, Reads
  <2>3. PICK rows : rows = bars'
    OBVIOUS
  <2>4. Proceeds(t, rows)
    BY <1>1, <1>2, <1>5, <1>14, <1>w, <2>2, <2>3, StoreOverProceeds
  <2> QED BY <2>3, <2>4
<1>15. Proceeds(t, bars')
  BY <1>1, <1>4, <1>11, <1>13, <1>14 DEF Inserted
<1>16. ASSUME NEW s \in Series
       PROVE  Times(bars[s]) \subseteq Times(bars'[s]) /\ NoHoles(Times(bars'[s]), newest_at(now))
  <2>1. CASE s = c.s
    BY <1>5, <1>6, <1>10, <1>w, <2>1
  <2>2. CASE s # c.s
    BY <1>7, <2>2 DEF WindowInv
  <2> QED BY <2>1, <2>2
<1> QED BY <1>15, <1>16

\* A signal reads its closed bars.
LEMMA ReadProceeds ==
    ASSUME MarketInv, WindowInv, NEW t \in Thread, ReadBars(t)
    PROVE  Proceeds(t, bars)
<1>p. Period \in Nat \ {0} /\ now \in Nat /\ Lookback \in Nat /\ Listed \in Int
  BY BarsAssumption DEF MarketInv, BarsTypeOK
<1>w. PICK n \in Int : /\ n = newest_at(now) /\ Opening(n) /\ Opening(n + Period)
                       /\ floor_to_period(now, Period) = n + Period
  BY <1>p, NewestOpens
<1>1. PICK c \in CallRecord : c = call[t] /\ c.at = "read" /\ Covers(c, Times(bars[c.s]), n)
  BY <1>w DEF ReadBars, At, MarketInv, WindowInv
<1>2. Begun(c, n) /\ Reads(c, Times(bars[c.s]), n) /\ c.lookback = Lookback /\ c.s \in Series /\ c.begun \in Int
  BY <1>1 DEF Covers, Reads, Begun, CallRecord
<1>3. PICK T : T = Times(bars[c.s]) /\ NoHoles(T, n) /\ T \in SUBSET Int
  <2>1. \A row \in bars[c.s] : row.ts \in Int
    BY <1>2 DEF MarketInv, BarsTypeOK, Bar
  <2>2. NoHoles(Times(bars[c.s]), n)
    BY <1>2, <1>w DEF WindowInv
  <2> QED BY <2>1, <2>2 DEF Times
<1>4. PICK forming \in Int : forming = n + Period
  BY <1>p
<1>5. PICK closed : /\ closed = IF c.lookback - 1 < 1 THEN {}
                                ELSE window(newest_at(now), c.lookback - 1) \cap T
                    /\ call' = [call EXCEPT ![t].at = "select", ![t].goal = "forming", ![t].missing = {},
                                            ![t].closed = closed, ![t].got = {},
                                            ![t].cursor = forming, ![t].until = forming]
  <2>1. Stored(c.s) = T
    BY <1>3 DEF Stored, Times
  <2> QED BY <1>1, <1>w, <1>4, <2>1 DEF ReadBars
<1>6. PICK first \in Int : first = n - Period * (Lookback - 1 - 1)
  BY <1>p
<1>7. closed = IF c.lookback - 1 < 1 THEN {} ELSE {ts \in Int : Opening(ts) /\ first <= ts /\ ts <= n} \cap T
  <2>1. bar_starts(first, n, Period) = {ts \in Int : Opening(ts) /\ first <= ts /\ ts <= n}
    BY BarStarts
  <2>2. window(n, Lookback - 1) = bar_starts(first, n, Period)
    BY <1>6 DEF window
  <2> QED BY <1>2, <1>5, <1>w, <2>1, <2>2
<1>8. closed \in SUBSET Int /\ \A y \in closed : Opening(y) /\ Listed <= y /\ y < forming
  <2>1. \A y \in T : Listed <= y
    BY <1>3 DEF NoHoles, Printed
  <2> QED BY <1>p, <1>4, <1>7, <2>1
<1>9. ASSUME NEW y \in closed, NEW x \in Int, Opening(x), y <= x, x < forming,
             ~(c.begun < forming - Period)
      PROVE  x \in closed
  <2>1. c.begun = n
    BY <1>p, <1>2, <1>4, <1>9 DEF Begun
  <2>2. y \in T /\ y \in Int /\ first <= y /\ y <= n /\ ~(c.lookback - 1 < 1)
    BY <1>7
  <2>3. x <= n
    BY <1>w, <1>4, <1>9, OpeningsApart
  <2>4. Listed <= y
    BY <1>3, <2>2 DEF NoHoles, Printed
  <2>5. n - Period * (Lookback - 1) <= first
    <3>1. Period * (Lookback - 1 - 1) = Period * (Lookback - 1) - Period /\ Period * (Lookback - 1) \in Int
      BY <1>p
    <3> QED BY <1>p, <1>6, <3>1
  <2>6. PICK span \in Int : span = Period * (Lookback - 1)
    BY <1>p
  <2>7. Wanted(x, n)
    BY <1>p, <1>9, <2>2, <2>4, <2>5, <2>6 DEF Wanted
  <2>8. Wanted(n, n)
    BY <1>p, <1>w, <2>2, <2>4, <2>5, <2>6 DEF Wanted
  <2>9. n \in T
    BY <1>2, <1>3, <2>1, <2>8 DEF Reads
  <2>10. x \in T
    BY <1>3, <2>3, <2>7, <2>9 DEF NoHoles
  <2> QED BY <1>7, <1>9, <2>2, <2>3, <2>10
<1>10. Joins(closed, forming, c.begun)
  BY <1>w, <1>4, <1>8, <1>9 DEF Joins
<1>11. PICK e \in SUBSET Int : e = {}
  OBVIOUS
<1>12. PICK b \in SUBSET Bar : b = {}
  OBVIOUS
<1>13. PICK d \in CallRecord :
          d = [c EXCEPT !.at = "select", !.goal = "forming", !.missing = e, !.closed = closed,
                        !.got = b, !.cursor = forming, !.until = forming]
  BY <1>8 DEF CallRecord
<1>14. /\ d.at = "select" /\ d.goal = "forming" /\ d.begun = c.begun /\ d.op = c.op
       /\ d.lookback = c.lookback /\ d.closed = closed /\ d.got = b
       /\ d.cursor = forming /\ d.until = forming
  BY <1>13 DEF CallRecord
<1>15. call' = [call EXCEPT ![t].at = "select", ![t].goal = "forming", ![t].missing = e,
                           ![t].closed = closed, ![t].got = b,
                           ![t].cursor = forming, ![t].until = forming]
  BY <1>5, <1>11, <1>12, Zenon
<1>16. call' = [call EXCEPT ![t] = d]
  BY <1>1, <1>13, <1>15 DEF MarketInv
<1>17. Covers(d, Times(bars[d.s]), newest_at(now))
  BY <1>2, <1>w, <1>10, <1>12, <1>14 DEF Covers, Begun, Forms
<1> QED BY <1>14, <1>16, <1>17 DEF Proceeds

\* A window that joins up has no hole.
LEMMA JoinedIsWhole ==
    ASSUME NEW closed \in SUBSET Int, NEW until \in Int, NEW begun \in Int, Joins(closed, until, begun)
    PROVE  Whole(closed \cup {until}, begun)
<1>p. Period \in Nat \ {0}
  BY BarsAssumption
<1>1. PICK w \in SUBSET Int : w = closed \cup {until}
  OBVIOUS
<1>2. until \in w /\ \A y \in w : y <= until
  BY <1>1 DEF Joins
<1>3. Max(w) = until
  <2>1. Max(w) \in w /\ \A y \in w : y <= Max(w)
    BY <1>2, LastOfPage
  <2>2. PICK m \in Int : m = Max(w)
    BY <2>1
  <2> QED BY <1>2, <2>1, <2>2
<1>4. CASE begun < until - Period
  BY <1>1, <1>3, <1>4 DEF Whole
<1>5. CASE \A y \in closed, x \in Int : Opening(x) /\ y <= x /\ x < until => x \in closed
  <2>1. PICK start \in Int : start = IF Listed <= until THEN Listed ELSE until
    BY BarsAssumption
  <2>2. \A y \in w : start <= y /\ Opening(y) /\ y <= until
    BY <1>1, <1>2, <2>1, BarsAssumption DEF Joins
  <2>3. w \subseteq bar_starts(start, until, Period) /\ w # {}
    BY <1>2, <2>2, BarStarts
  <2>4. PICK m \in w : m = Min(w) /\ \A y \in w : m <= y
    BY <2>3, FirstMissing
  <2>5. bar_starts(m, until, Period) = {ts \in Int : Opening(ts) /\ m <= ts /\ ts <= until}
    BY BarStarts
  <2>6. ASSUME NEW x \in Int, Opening(x), m <= x, x <= until PROVE x \in w
    <3>1. CASE x = until
      BY <1>1, <3>1
    <3>2. CASE x < until
      <4>1. m \in closed
        BY <1>1, <2>6, <3>2
      <4> QED BY <1>1, <1>5, <2>6, <3>2, <4>1
    <3> QED BY <2>6, <3>1, <3>2
  <2>7. bar_starts(m, until, Period) = w
    BY <2>2, <2>4, <2>5, <2>6
  <2> QED BY <1>1, <1>3, <2>4, <2>7 DEF Whole
<1> QED BY <1>4, <1>5 DEF Joins

\* The window is served, returned, or the call fails.
LEMMA LastStepsProceed ==
    ASSUME MarketInv, WindowInv, NEW t \in Thread,
           Serve(t) \/ Return(t) \/ FetchFails(t) \/ StoreFails(t)
    PROVE  Proceeds(t, bars)
<1>1. PICK c \in CallRecord : c = call[t] /\ Begun(c, newest_at(now)) /\ (c.at = "serve" => Serves(c))
                              /\ c.begun \in Int /\ c.until \in Int /\ c.closed \in SUBSET Int
  <2>1. call[t] # NoCall
    BY DEF Serve, Return, FetchFails, StoreFails, At
  <2> QED BY <2>1 DEF MarketInv, WindowInv, Covers, CallRecord
<1>2. CASE Ends(t)
  BY <1>1, <1>2, EndsProceeds
<1>3. CASE Serve(t) /\ ~Raise(t)
  <2>1. PICK w : w = c.closed \cup Times(c.got)
    OBVIOUS
  <2>2. c.at = "serve" /\ call' = [call EXCEPT ![t].at = "served", ![t].closed = w, ![t].got = {}]
    BY <1>1, <1>3, <2>1 DEF Serve, At, Times
  <2>3. w = c.closed \cup {c.until}
    BY <1>1, <2>1, <2>2 DEF Serves, Times
  <2>4. Whole(w, c.begun)
    <3>1. PICK until \in Int, begun \in Int, closed \in SUBSET Int :
              until = c.until /\ begun = c.begun /\ closed = c.closed
      BY <1>1
    <3>2. Joins(closed, until, begun)
      BY <1>1, <2>2, <3>1 DEF Serves
    <3>3. Whole(closed \cup {until}, begun)
      BY <3>2, JoinedIsWhole
    <3> QED BY <2>3, <3>1, <3>3
  <2>5. PICK b \in SUBSET Bar : b = {}
    OBVIOUS
  <2>6. PICK d \in CallRecord : d = [c EXCEPT !.at = "served", !.closed = w, !.got = b]
    BY <1>1, <2>3 DEF CallRecord
  <2>7. d.at = "served" /\ d.closed = w /\ d.begun = c.begun /\ d.op = c.op /\ d.lookback = c.lookback
    BY <2>6 DEF CallRecord
  <2>8. call' = [call EXCEPT ![t].at = "served", ![t].closed = w, ![t].got = b]
    BY <2>2, <2>5, Zenon
  <2>9. call' = [call EXCEPT ![t] = d]
    BY <1>1, <2>6, <2>8 DEF MarketInv
  <2>10. Covers(d, Times(bars[d.s]), newest_at(now))
    BY <1>1, <2>4, <2>7 DEF Covers, Begun
  <2> QED BY <2>7, <2>9, <2>10 DEF Proceeds
<1> QED BY <1>2, <1>3 DEF Raise, Return, FetchFails, StoreFails

-----------------------------------------------------------------------------
\* Every step of a thread, and every request.
LEMMA StepsProceed ==
    ASSUME MarketInv, WindowInv, Deep, NEW t \in Thread,
           Step(t) \/ (\E s \in Series : LoadWindow(t, s)) \/ WarmRun(t)
           \/ (\E s \in Series, start \in BackfillStarts, end \in BackfillEnds : Backfill(t, s, start, end))
    PROVE  /\ now' = now /\ Proceeds(t, bars')
           /\ \A s \in Series : /\ Times(bars[s]) \subseteq Times(bars'[s])
                                /\ NoHoles(Times(bars'[s]), newest_at(now))
<1>1. CASE StoreBar(t)
  <2>1. now' = now
    BY <1>1 DEF StoreBar
  <2> QED BY <1>1, <2>1, StoreProceeds
<1>2. ASSUME UNCHANGED <<now, bars>>, Proceeds(t, bars)
      PROVE  /\ now' = now /\ Proceeds(t, bars')
             /\ \A s \in Series : /\ Times(bars[s]) \subseteq Times(bars'[s])
                                  /\ NoHoles(Times(bars'[s]), newest_at(now))
  BY <1>2 DEF WindowInv
<1>3. ASSUME SyncNext(t) \/ EnsureCoverage(t) \/ EnsureGaps(t) \/ SelectType(t) \/ FetchPage(t)
             \/ ReadBars(t) \/ Serve(t) \/ Return(t) \/ FetchFails(t) \/ StoreFails(t)
      PROVE  UNCHANGED <<now, bars>> /\ Proceeds(t, bars)
  <2>1. UNCHANGED <<now, bars>>
    BY <1>3 DEF SyncNext, EnsureCoverage, EnsureGaps, SelectType, FetchPage,
                ReadBars, Serve, Return, FetchFails, StoreFails
  <2>2. Proceeds(t, bars)
    BY <1>3, SyncNextProceeds, CoverageProceeds, GapsProceed, SelectProceeds, PageProceeds,
       ReadProceeds, LastStepsProceed
  <2> QED BY <2>1, <2>2
<1>4. ASSUME NEW s \in Series, LoadWindow(t, s) PROVE UNCHANGED <<now, bars>> /\ Proceeds(t, bars)
  BY <1>4, RequestsProceed DEF LoadWindow
<1>5. ASSUME NEW instruments \in SUBSET Series, Sync(t, instruments)
      PROVE  UNCHANGED <<now, bars>> /\ Proceeds(t, bars)
  BY <1>5, RequestsProceed DEF Sync
<1>6. ASSUME NEW s \in Series, NEW start \in BackfillStarts, NEW end \in BackfillEnds,
             Backfill(t, s, start, end)
      PROVE  UNCHANGED <<now, bars>> /\ Proceeds(t, bars)
  <2>1. UNCHANGED <<now, bars>>
    BY <1>6, Zenon DEF Backfill
  <2>2. Proceeds(t, bars)
    BY <1>6, RequestsProceed
  <2> QED BY <2>1, <2>2
<1> QED BY <1>1, <1>2, <1>3, <1>4, <1>5, <1>6 DEF Step, WarmRun

\* Every step preserves the invariant, and ensure_fresh returns to a signal
\* with its call unchanged.
LEMMA WindowStep ==
    ASSUME MarketInv, WindowInv, Deep, [Next]_vars
    PROVE  /\ WindowInv'
           /\ \A t \in Thread : Returned(t) =>
                 /\ now' = now /\ call'[t].s = call[t].s
                 /\ call'[t].begun = call[t].begun /\ call'[t].lookback = call[t].lookback
<1>p. now \in Nat /\ call \in [Thread -> CallRecord \cup {NoCall}]
      /\ \A t \in Thread : call[t] # NoCall => call[t] \in CallRecord /\ call[t].s \in Series
  BY DEF MarketInv, BarsTypeOK, CallRecord
<1>w. PICK n \in Int : n = newest_at(now)
  BY <1>p, NewestOpens
<1>1. ASSUME NEW t \in Thread, now' = now, Proceeds(t, bars'),
             \A s \in Series : /\ Times(bars[s]) \subseteq Times(bars'[s])
                               /\ NoHoles(Times(bars'[s]), newest_at(now))
      PROVE  /\ WindowInv'
             /\ \A u \in Thread : Returned(u) =>
                   /\ now' = now /\ call'[u].s = call[u].s
                   /\ call'[u].begun = call[u].begun /\ call'[u].lookback = call[u].lookback
  <2>1. PICK d \in CallRecord \cup {NoCall} :
            /\ call' = [call EXCEPT ![t] = d]
            /\ d # NoCall => Covers(d, Times(bars'[d.s]), newest_at(now))
            /\ d # NoCall /\ d.at = "read" =>
                  d.s = call[t].s /\ d.begun = call[t].begun /\ d.lookback = call[t].lookback
    BY <1>1 DEF Proceeds
  <2>2. \A u \in Thread : call'[u] = IF u = t THEN d ELSE call[u]
    BY <1>p, <2>1
  <2>3. ASSUME NEW u \in Thread, call'[u] # NoCall
        PROVE  Covers(call'[u], Times(bars'[call'[u].s]), newest_at(now))
    <3>1. CASE u = t
      BY <2>1, <2>2, <2>3, <3>1
    <3>2. CASE u # t
      <4>1. call'[u] = call[u] /\ call[u] # NoCall
        BY <2>2, <2>3, <3>2
      <4>2. PICK c \in CallRecord : c = call[u] /\ c.s \in Series /\ Covers(c, Times(bars[c.s]), n)
        BY <1>p, <1>w, <4>1 DEF WindowInv
      <4>3. Covers(c, Times(bars'[c.s]), n)
        BY <1>1, <4>2, CoversStay
      <4> QED BY <1>w, <4>1, <4>2, <4>3
    <3> QED BY <3>1, <3>2
  <2>4. newest_at(now)' = newest_at(now)
    BY <1>1 DEF newest_at
  <2>5. WindowInv'
    BY <1>1, <2>3, <2>4 DEF WindowInv
  <2>6. ASSUME NEW u \in Thread, Returned(u)
        PROVE  /\ now' = now /\ call'[u].s = call[u].s
               /\ call'[u].begun = call[u].begun /\ call'[u].lookback = call[u].lookback
    BY <1>1, <2>1, <2>2, <2>6 DEF Returned
  <2> QED BY <2>5, <2>6
<1>2. CASE \E t \in Thread : Step(t)
  BY <1>1, <1>2, StepsProceed
<1>3. CASE Request
  <2>1. Signal \subseteq Thread /\ Job \subseteq Thread
    BY DEF Thread
  <2> QED BY <1>1, <1>3, <2>1, StepsProceed DEF Request
<1>4. ASSUME NEW m \in Nat, m = now', m = now \/ m = now + 1, UNCHANGED bars,
             \A u \in Thread : call'[u] = NoCall \/ call'[u] = call[u]
      PROVE  /\ WindowInv'
             /\ \A u \in Thread : Returned(u) =>
                   /\ now' = now /\ call'[u].s = call[u].s
                   /\ call'[u].begun = call[u].begun /\ call'[u].lookback = call[u].lookback
  <2>1. PICK k \in Int : k = newest_at(m) /\ n <= k
    <3>1. newest_at(m) \in Int /\ newest_at(now) <= newest_at(m)
      BY <1>p, <1>4, NewestOpens, NewestGrows
    <3> QED BY <1>w, <3>1
  <2>2. newest_at(now)' = k
    BY <1>4, <2>1 DEF newest_at
  <2>3. \A s \in Series : NoHoles(Times(bars[s]), k)
    <3>1. ASSUME NEW s \in Series PROVE NoHoles(Times(bars[s]), k)
      <4>1. NoHoles(Times(bars[s]), n)
        BY <1>w DEF WindowInv
      <4>2. \A b \in Times(bars[s]) : b \in Int
        BY DEF MarketInv, BarsTypeOK, Bar, Times
      <4>3. \A x : Wanted(x, k) => Wanted(x, n)
        BY <2>1, WantedLess
      <4> QED BY <2>1, <4>1, <4>2, <4>3, BarsAssumption DEF NoHoles, Printed
    <3> QED BY <3>1
  <2>4. ASSUME NEW u \in Thread, call'[u] # NoCall
        PROVE  Covers(call'[u], Times(bars[call'[u].s]), k)
    <3>1. PICK c \in CallRecord : c = call'[u] /\ Covers(c, Times(bars[c.s]), n)
      BY <1>p, <1>w, <1>4, <2>4 DEF WindowInv
    <3>2. Covers(c, Times(bars[c.s]), k)
      BY <2>1, <3>1, CoversStay
    <3> QED BY <3>1, <3>2
  <2>5. newest_at(FirstNow) <= k
    <3>1. newest_at(FirstNow) \in Int /\ newest_at(FirstNow) <= n
      BY <1>w, NewestOpens, BarsAssumption DEF WindowInv
    <3> QED BY <2>1, <3>1
  <2>6. WindowInv'
    BY <1>4, <2>2, <2>3, <2>4, <2>5 DEF WindowInv
  <2>7. \A u \in Thread : ~Returned(u)
    BY <1>4 DEF Returned
  <2> QED BY <2>6, <2>7
<1>5. CASE Restart \/ Clock \/ UNCHANGED vars
  <2>1. UNCHANGED bars /\ now' \in Nat /\ (now' = now \/ now' = now + 1)
    BY <1>p, <1>5 DEF Restart, Clock, vars
  <2>2. \A u \in Thread : call'[u] = NoCall \/ call'[u] = call[u]
    BY <1>5 DEF Restart, Clock, vars
  <2> QED BY <1>4, <2>1, <2>2
<1> QED BY <1>2, <1>3, <1>5 DEF Next

\* The windows' invariant always holds.
LEMMA WindowsAlways ==
    ASSUME Deep
    PROVE  Spec => [](MarketInv /\ WindowInv)
<1>1. Init => WindowInv
  <2> SUFFICES ASSUME Init PROVE WindowInv
    OBVIOUS
  <2>1. \A s \in Series : bars[s] = {}
    BY DEF Init, BarsInit
  <2>2. \A s \in Series : NoHoles(Times(bars[s]), newest_at(now))
    BY <2>1 DEF NoHoles, Times
  <2>3. now = FirstNow /\ \A t \in Thread : call[t] = NoCall
    BY DEF Init, BarsInit
  <2>4. newest_at(FirstNow) \in Int
    BY NewestOpens, BarsAssumption
  <2> QED BY <2>2, <2>3, <2>4 DEF WindowInv
<1>2. MarketInv /\ WindowInv /\ [Next]_vars => WindowInv'
  BY WindowStep
<1> QED BY <1>1, <1>2, MarketInitially, MarketStep, PTL DEF Spec

(* When ensure_fresh returns to a signal, every bar the venue has of its    *)
(* lookback that a window as of now still wants is stored: for any threads, *)
(* series and faults, whichever call stored the newest row.                 *)
THEOREM WindowsAreEnsured ==
    ASSUME Deep
    PROVE  Spec => EnsuredWindow
<1>1. MarketInv /\ WindowInv /\ [Next]_vars =>
        [\A t \in Thread : Returned(t) => Due(t) \subseteq {row.ts : row \in bars'[call[t].s]}]_vars
  <2> SUFFICES ASSUME MarketInv, WindowInv, [Next]_vars, NEW t \in Thread, Returned(t), NEW x \in Due(t)
               PROVE  x \in Times(bars'[call[t].s])
    BY DEF Times
  <2>1. /\ WindowInv' /\ now' = now /\ call'[t].s = call[t].s
        /\ call'[t].begun = call[t].begun /\ call'[t].lookback = call[t].lookback
    BY WindowStep
  <2>2. PICK c \in CallRecord : c = call[t] /\ c.s \in Series /\ Begun(c, newest_at(now)) /\ c.op = "window"
    BY DEF Returned, MarketInv, WindowInv, Covers, CallRecord
  <2>3. PICK n \in Int : n = newest_at(now)
    BY NewestIsClosed
  <2>4. PICK T : T = Times(bars'[c.s])
    OBVIOUS
  <2>5. newest_at(now)' = n
    BY <2>1, <2>3 DEF newest_at
  <2>6. NoHoles(T, n)
    BY <2>1, <2>2, <2>4, <2>5 DEF WindowInv
  <2>7. Covers(call'[t], T, n) /\ call'[t].at = "read"
    BY <2>1, <2>2, <2>4, <2>5 DEF WindowInv, Returned
  <2>8. Wanted(c.begun, n) => c.begun \in T
    BY <2>1, <2>2, <2>7 DEF Covers, Reads
  <2>9. PICK span \in Int : span = Period * (Lookback - 1)
    BY BarsAssumption
  <2>10. c.begun \in Int /\ c.lookback = Lookback /\ c.begun <= n /\ Opening(c.begun)
    BY <2>2, <2>3 DEF Begun, CallRecord
  <2>11. x \in Int /\ Opening(x) /\ Listed <= x /\ n - span <= x /\ x <= c.begun
    <3>1. x \in window(c.begun, c.lookback) /\ x \in window(n, c.lookback) /\ x >= Listed
      BY <2>2, <2>3 DEF Due
    <3>2. PICK from \in Int, first \in Int : from = c.begun - span /\ first = n - span
      BY <2>9, <2>10
    <3>3. x \in bar_starts(from, c.begun, Period) /\ x \in bar_starts(first, n, Period)
      BY <2>9, <2>10, <3>1, <3>2 DEF window
    <3>4. PICK b \in Int : b = c.begun
      BY <2>10
    <3>5. x \in bar_starts(from, b, Period)
      BY <3>3, <3>4
    <3>6. x \in Int /\ Opening(x) /\ x <= b
      BY <3>5, BarStarts
    <3>7. first <= x
      BY <3>3, BarStarts
    <3> QED BY <3>1, <3>2, <3>4, <3>6, <3>7, BarsAssumption
  <2>12. Wanted(x, n) /\ Wanted(c.begun, n)
    BY <2>9, <2>10, <2>11, BarsAssumption DEF Wanted
  <2>13. x \in T
    BY <2>6, <2>8, <2>11, <2>12 DEF NoHoles
  <2> QED BY <2>2, <2>4, <2>13
<1> QED BY <1>1, WindowsAlways, PTL DEF Spec, EnsuredWindow

(* A window handed to a signal has a hole only when a bar closed between    *)
(* the two clock readings of load_window.                                   *)
THEOREM WindowsAreWhole ==
    ASSUME Deep
    PROVE  Spec => []ServedWithoutHoles
<1>1. MarketInv /\ WindowInv => ServedWithoutHoles
  BY DEF MarketInv, WindowInv, Covers, Whole, ServedWithoutHoles, At
<1> QED BY <1>1, WindowsAlways, PTL
=============================================================================
