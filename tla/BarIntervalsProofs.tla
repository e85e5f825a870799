------------------------- MODULE BarIntervalsProofs -------------------------
(***************************************************************************)
(* What the slot arithmetic computes, for every instant, period and offset.*)
(* The facts about floor_to_period carry the rest: it is the only place    *)
(* where a division happens.                                               *)
(***************************************************************************)
EXTENDS BarIntervals, WellFoundedInduction, TLAPS

\* t lies an offset before a boundary.
SlotAt(t, period, offset) == \E k \in Int : t + offset = k * period

-----------------------------------------------------------------------------
\* Multiples of a period are ordered as their factors.
LEMMA MultiplesOrdered ==
    ASSUME NEW a \in Int, NEW b \in Int, NEW p \in Nat \ {0}, a * p > b * p
    PROVE  a * p >= (b + 1) * p
<1>1. a > b
  <2> SUFFICES ASSUME a <= b PROVE FALSE
    OBVIOUS
  <2>1. b - a \in Nat
    OBVIOUS
  <2>2. (b - a) * p >= 0
    BY <2>1
  <2>3. (b - a) * p = b * p - a * p
    OBVIOUS
  <2> QED BY <2>2, <2>3
<1>2. a - (b + 1) \in Nat
  BY <1>1
<1>3. (a - (b + 1)) * p >= 0
  BY <1>2
<1>4. (a - (b + 1)) * p = a * p - (b + 1) * p
  OBVIOUS
<1> QED BY <1>3, <1>4

\* floor_to_period returns the boundary that opened the bar ts lies in.
LEMMA FloorOpensBar ==
    ASSUME NEW ts \in Int, NEW p \in Nat \ {0}
    PROVE  /\ floor_to_period(ts, p) \in Int
           /\ floor_to_period(ts, p) <= ts /\ ts < floor_to_period(ts, p) + p
           /\ \E k \in Int : floor_to_period(ts, p) = k * p
<1>1. ts \div p \in Int /\ ts = (ts \div p) * p + (ts % p) /\ 0 <= ts % p /\ ts % p < p
  OBVIOUS
<1>2. (ts \div p) * p \in Int
  BY <1>1
<1>3. (ts \div p) * p <= ts /\ ts < (ts \div p) * p + p
  BY <1>1, <1>2
<1>4. \E k \in Int : (ts \div p) * p = k * p
  BY <1>1
<1> QED BY <1>2, <1>3, <1>4 DEF floor_to_period

\* No multiple of a period lies strictly between two neighbours.
LEMMA MultiplesApart ==
    ASSUME NEW a \in Int, NEW b \in Int, NEW p \in Nat \ {0}, a * p <= b * p
    PROVE  a <= b
<1> SUFFICES ASSUME a > b PROVE FALSE
  OBVIOUS
<1>1. a - (b + 1) \in Nat
  OBVIOUS
<1>2. (a - (b + 1)) * p >= 0 /\ (a - (b + 1)) * p = a * p - b * p - p
  BY <1>1
<1> QED BY <1>2

\* The multiples of a period are the instants it divides.
LEMMA MultipleIffDivides ==
    ASSUME NEW t \in Int, NEW p \in Nat \ {0}
    PROVE  t % p = 0 <=> \E k \in Int : t = k * p
<1>1. t \div p \in Int /\ t = (t \div p) * p + (t % p) /\ 0 <= t % p /\ t % p < p /\ t % p \in Int
  OBVIOUS
<1>2. ASSUME t % p = 0 PROVE \E k \in Int : t = k * p
  <2>1. t = (t \div p) * p
    BY <1>1, <1>2
  <2> QED BY <1>1, <2>1
<1>3. ASSUME NEW k \in Int, t = k * p PROVE t % p = 0
  <2> DEFINE q == t \div p
             r == t % p
  <2>1. q \in Int /\ r \in Int /\ k * p = q * p + r /\ 0 <= r /\ r < p
    BY <1>1, <1>3
  <2> HIDE DEF q, r
  <2>2. q <= k /\ k < q + 1
    <3>1. k * p \in Int /\ q * p \in Int /\ (q + 1) * p = q * p + p
      BY <2>1
    <3>2. q * p <= k * p /\ k * p < (q + 1) * p
      BY <2>1, <3>1
    <3>3. q <= k
      BY <2>1, <3>2, MultiplesApart
    <3>4. k # q + 1 /\ (k > q + 1 => q + 1 <= k)
      BY <2>1, <3>2
    <3>5. ~(k > q + 1)
      <4> SUFFICES ASSUME k > q + 1 PROVE FALSE
        OBVIOUS
      <4>1. k - (q + 1) \in Nat
        BY <2>1
      <4>2. (k - (q + 1)) * p >= 0 /\ (k - (q + 1)) * p = k * p - (q + 1) * p
        BY <2>1, <4>1
      <4> QED BY <3>1, <3>2, <4>2
    <3> QED BY <2>1, <3>3, <3>4, <3>5
  <2>3. k = q
    BY <2>1, <2>2
  <2>4. r = 0
    BY <2>1, <2>3
  <2> QED BY <2>4 DEF r
<1> QED BY <1>2, <1>3

-----------------------------------------------------------------------------
\* The newest closed bar (last_closed_bar, intervals.py:70) is over by now and its
\* successor is not: a signal never reads the bar that is still forming as closed.
THEOREM LastClosedBarIsOver ==
    ASSUME NEW ts \in Int, NEW p \in Nat \ {0}
    PROVE  last_closed_bar(ts, p) + p <= ts /\ ts < last_closed_bar(ts, p) + 2 * p
<1>1. floor_to_period(ts, p) \in Int /\ floor_to_period(ts, p) <= ts
        /\ ts < floor_to_period(ts, p) + p
  BY FloorOpensBar
<1> QED BY <1>1 DEF last_closed_bar

\* The slot a create, a reschedule or a resume seeds (next_apply_slot,
\* intervals.py:89) lies strictly ahead, by at most one period, an offset before a
\* bar's close.
THEOREM SlotIsAhead ==
    ASSUME NEW after \in Int, NEW p \in Nat \ {0}, NEW o \in 0..(p - 1)
    PROVE  /\ next_apply_slot(after, p, o) \in Int
           /\ after < next_apply_slot(after, p, o)
           /\ next_apply_slot(after, p, o) <= after + p
           /\ SlotAt(next_apply_slot(after, p, o), p, o)
<1> DEFINE f == floor_to_period(after, p)
<1>1. f \in Int /\ f <= after /\ after < f + p
  BY FloorOpensBar
<1>2. PICK k \in Int : f = k * p
  BY FloorOpensBar
<1>3. next_apply_slot(after, p, o) = IF f + p - o > after THEN f + p - o ELSE f + p - o + p
  <2>1. next_run_at(after, p) = f + p
    BY DEF next_run_at
  <2>2. next_apply_slot(after, p, o) = IF next_run_at(after, p) - o > after
                                       THEN next_run_at(after, p) - o
                                       ELSE next_run_at(after, p) - o + p
    BY DEF next_apply_slot
  <2> HIDE DEF f
  <2> QED BY <1>1, <2>1, <2>2
<1> HIDE DEF f
<1>4. /\ next_apply_slot(after, p, o) \in Int
      /\ after < next_apply_slot(after, p, o)
      /\ next_apply_slot(after, p, o) <= after + p
  BY <1>1, <1>3
<1>5. (k + 1) * p = f + p /\ (k + 2) * p = f + p + p
  BY <1>2
<1>6. SlotAt(next_apply_slot(after, p, o), p, o)
  <2>1. CASE f + p - o > after
    <3>1. next_apply_slot(after, p, o) + o = (k + 1) * p
      BY <1>1, <1>3, <1>5, <2>1
    <3> QED BY <3>1 DEF SlotAt
  <2>2. CASE ~(f + p - o > after)
    <3>1. next_apply_slot(after, p, o) + o = (k + 2) * p
      BY <1>1, <1>3, <1>5, <2>2
    <3> QED BY <3>1 DEF SlotAt
  <2> QED BY <2>1, <2>2
<1> QED BY <1>4, <1>6

\* No slot is skipped: every slot still ahead is that one or a later one.
THEOREM SlotIsFirst ==
    ASSUME NEW after \in Int, NEW p \in Nat \ {0}, NEW o \in 0..(p - 1),
           NEW t \in Int, t > after, SlotAt(t, p, o)
    PROVE  next_apply_slot(after, p, o) <= t
<1> DEFINE f == floor_to_period(after, p)
<1>1. f \in Int /\ f <= after /\ after < f + p
  BY FloorOpensBar
<1>2. PICK k \in Int : f = k * p
  BY FloorOpensBar
<1>3. PICK j \in Int : t + o = j * p
  BY DEF SlotAt
<1>4. next_apply_slot(after, p, o) = IF f + p - o > after THEN f + p - o ELSE f + p - o + p
  <2>1. next_run_at(after, p) = f + p
    BY DEF next_run_at
  <2>2. next_apply_slot(after, p, o) = IF next_run_at(after, p) - o > after
                                       THEN next_run_at(after, p) - o
                                       ELSE next_run_at(after, p) - o + p
    BY DEF next_apply_slot
  <2> HIDE DEF f
  <2> QED BY <1>1, <2>1, <2>2
<1> HIDE DEF f
<1>5. (k + 1) * p = f + p /\ (k + 2) * p = f + p + p /\ k + 1 + 1 = k + 2
  BY <1>2
<1>6. j * p > k * p
  BY <1>1, <1>2, <1>3
<1>7. j * p >= (k + 1) * p
  BY <1>6, MultiplesOrdered
<1>8. t >= f + p - o
  BY <1>1, <1>3, <1>5, <1>7
<1>9. CASE f + p - o > after
  BY <1>1, <1>4, <1>8, <1>9
<1>10. CASE ~(f + p - o > after)
  <2>1. j * p > (k + 1) * p
    BY <1>1, <1>3, <1>5, <1>10
  <2>2. j * p >= (k + 2) * p
    BY <2>1, <1>5, MultiplesOrdered
  <2> QED BY <1>1, <1>3, <1>4, <1>5, <1>10, <2>2
<1> QED BY <1>9, <1>10

-----------------------------------------------------------------------------
\* A set of natural numbers with a member has a least one, and Min returns it.
LEMMA MinOfNats ==
    ASSUME NEW T \in SUBSET Nat, T # {}
    PROVE  Min(T) \in T /\ \A y \in T : Min(T) <= y
<1>1. PICK x \in T : \A y \in T : ~(<<y, x>> \in OpToRel(<, Nat))
  BY NatLessThanWellFounded, WFMin, Zenon
<1>2. ASSUME NEW y \in T PROVE x <= y
  <2>1. x \in Nat /\ y \in Nat
    OBVIOUS
  <2>2. y < x => <<y, x>> \in OpToRel(<, Nat)
    BY <2>1, Zenon DEF OpToRel
  <2>3. ~(y < x)
    BY <1>1, <2>2, Zenon
  <2> QED BY <2>1, <2>3
<1> QED BY <1>2 DEF Min

\* Of three days in a row one is a weekday.
LEMMA WeekdayWithinThree ==
    ASSUME NEW a \in Nat
    PROVE  \E d \in (a + 2)..(a + 4) : weekday(d) < 5
<1>1. \/ (a + 2 + 3) % 7 < 5 \/ (a + 3 + 3) % 7 < 5 \/ (a + 4 + 3) % 7 < 5
  OBVIOUS
<1> QED BY <1>1 DEF weekday

\* The dates the loop tries and keeps.
SessionDates(after, day, close, o) ==
    {d \in (after \div day)..(after \div day + 9) : weekday(d) < 5 /\ d * day + close - o > after}

\* The day an instant lies in.
LEMMA DayOf ==
    ASSUME NEW after \in Nat, NEW day \in Nat \ {0}
    PROVE  /\ after \div day \in Nat
           /\ (after \div day) * day <= after /\ after < (after \div day) * day + day
<1>1. after \div day \in Int /\ after = (after \div day) * day + (after % day)
        /\ 0 <= after % day /\ after % day < day
  OBVIOUS
<1>2. after \div day \in Nat
  OBVIOUS
<1>3. (after \div day) * day \in Int
  BY <1>1
<1> QED BY <1>1, <1>2, <1>3

\* Ten dates hold one whose slot is ahead, for a lead of up to six days.
LEMMA SessionDateExists ==
    ASSUME NEW after \in Nat, NEW day \in Nat \ {0}, NEW close \in 0..(day - 1), NEW o \in 0..(6 * day)
    PROVE  /\ SessionDates(after, day, close, o) \in SUBSET Nat
           /\ SessionDates(after, day, close, o) # {}
<1> DEFINE a == after \div day
<1>1. a \in Nat /\ after < a * day + day
  BY DayOf
<1>2. SessionDates(after, day, close, o) =
        {d \in a..(a + 9) : weekday(d) < 5 /\ d * day + close - o > after}
  BY DEF SessionDates
<1> HIDE DEF a
<1>3. PICK d \in (a + 7)..(a + 9) : weekday(d) < 5
  <2>1. a + 5 \in Nat /\ a + 5 + 2 = a + 7 /\ a + 5 + 4 = a + 9
    BY <1>1
  <2> QED BY <2>1, WeekdayWithinThree
<1>4. d * day >= a * day + 7 * day
  <2>1. d - (a + 7) \in Nat
    BY <1>1
  <2>2. (d - (a + 7)) * day >= 0
    BY <2>1
  <2>3. (d - (a + 7)) * day = d * day - (a * day + 7 * day)
    BY <1>1
  <2> QED BY <1>1, <2>2, <2>3
<1>5. d * day + close - o > after
  BY <1>1, <1>4
<1> QED BY <1>1, <1>2, <1>3, <1>5

\* A listed session's slot (next_session_apply_slot, intervals.py:109) exists within
\* the ten dates the loop tries, whatever lead of up to six days is configured; it
\* lies strictly ahead and on a weekday.
THEOREM SessionSlotIsAhead ==
    ASSUME NEW after \in Nat, NEW day \in Nat \ {0}, NEW close \in 0..(day - 1), NEW o \in 0..(6 * day)
    PROVE  /\ next_session_apply_slot(after, day, close, o) \in Int
           /\ next_session_apply_slot(after, day, close, o) > after
           /\ \E d \in 0..(after \div day + 9) :
                /\ weekday(d) < 5
                /\ next_session_apply_slot(after, day, close, o) = d * day + close - o
<1> DEFINE T == SessionDates(after, day, close, o)
<1>1. next_session_apply_slot(after, day, close, o) = Min(T) * day + close - o
  BY DEF next_session_apply_slot, SessionDates
<1>2. Min(T) \in T
  BY SessionDateExists, MinOfNats
<1>3. /\ Min(T) \in (after \div day)..(after \div day + 9)
      /\ weekday(Min(T)) < 5 /\ Min(T) * day + close - o > after
  BY <1>2, Zenon DEF SessionDates
<1>4. after \div day \in Nat
  BY DayOf
<1> HIDE DEF T
<1>5. Min(T) \in 0..(after \div day + 9)
  BY <1>3, <1>4
<1>6. Min(T) * day + close - o \in Int
  BY <1>4, <1>5
<1> QED BY <1>1, <1>3, <1>5, <1>6

\* No session is skipped: the slot of any weekday that is still ahead is that one or
\* a later one.
THEOREM SessionSlotIsFirst ==
    ASSUME NEW after \in Nat, NEW day \in Nat \ {0}, NEW close \in 0..(day - 1), NEW o \in 0..(6 * day),
           NEW d \in Nat, weekday(d) < 5, d * day + close - o > after
    PROVE  next_session_apply_slot(after, day, close, o) <= d * day + close - o
<1> DEFINE T == SessionDates(after, day, close, o)
           a == after \div day
<1>1. next_session_apply_slot(after, day, close, o) = Min(T) * day + close - o
  BY DEF next_session_apply_slot, SessionDates
<1>2. Min(T) \in T /\ T \in SUBSET Nat /\ \A y \in T : Min(T) <= y
  BY SessionDateExists, MinOfNats
<1>3. a \in Nat /\ a * day <= after
  BY DayOf
<1>4. Min(T) \in a..(a + 9) /\ (d \in a..(a + 9) => d \in T)
  BY <1>2, Zenon DEF SessionDates
<1> HIDE DEF T, a
<1>5. d >= a
  <2> SUFFICES ASSUME d < a PROVE FALSE
    BY <1>3
  <2>1. a - (d + 1) \in Nat
    BY <1>3
  <2>2. (a - (d + 1)) * day >= 0 /\ (a - (d + 1)) * day = a * day - d * day - day
    BY <1>3, <2>1
  <2> QED BY <1>3, <2>2
<1>6. Min(T) \in Nat /\ Min(T) <= d
  <2>1. CASE d <= a + 9
    BY <1>2, <1>3, <1>4, <1>5, <2>1
  <2>2. CASE d > a + 9
    BY <1>3, <1>4, <2>2
  <2> QED BY <1>3, <2>1, <2>2
<1>7. Min(T) * day <= d * day
  <2>1. d - Min(T) \in Nat
    BY <1>6
  <2>2. (d - Min(T)) * day >= 0 /\ (d - Min(T)) * day = d * day - Min(T) * day
    BY <1>6, <2>1
  <2> QED BY <1>6, <2>2
<1> QED BY <1>1, <1>6, <1>7

-----------------------------------------------------------------------------
\* The bars a window asks for (bar_starts, intervals.py:142) are the boundaries in
\* it, from whatever instant it starts and wherever it ends.
THEOREM BarStartsAreBoundaries ==
    ASSUME NEW start \in Int, NEW end \in Int, NEW p \in Nat \ {0}
    PROVE  bar_starts(start, end, p) = {b \in start..end : b % p = 0}
<1> DEFINE f == floor_to_period(start, p)
           first == IF f < start THEN f + p ELSE f
<1>1. f \in Int /\ f <= start /\ start < f + p
  BY FloorOpensBar
<1>2. PICK j \in Int : f = j * p
  BY FloorOpensBar
<1>3. bar_starts(start, end, p) = {first + k * p : k \in 0..((end - first) \div p)}
  BY DEF bar_starts
<1> HIDE DEF f
<1>4. first \in Int /\ start <= first /\ first < start + p
  BY <1>1
<1>5. PICK m \in Int : first = m * p
  <2>1. (j + 1) * p = f + p
    BY <1>2
  <2> QED BY <1>1, <1>2, <2>1
<1> HIDE DEF first
<1> DEFINE n == (end - first) \div p
<1>6. n \in Int /\ n * p <= end - first /\ end - first < n * p + p
  <2>1. n \in Int /\ end - first = n * p + ((end - first) % p)
          /\ 0 <= (end - first) % p /\ (end - first) % p < p
    BY <1>4
  <2> HIDE DEF n
  <2>2. n * p \in Int
    BY <2>1
  <2> QED BY <1>4, <2>1, <2>2
<1> HIDE DEF n
<1>7. ASSUME NEW k \in 0..n PROVE first + k * p \in {b \in start..end : b % p = 0}
  <2>1. k \in Nat /\ n - k \in Nat
    BY <1>6
  <2>2. k * p >= 0 /\ (n - k) * p >= 0 /\ (n - k) * p = n * p - k * p
    BY <1>6, <2>1
  <2>3. first + k * p = (m + k) * p /\ m + k \in Int
    BY <1>5, <2>1
  <2>4. (first + k * p) % p = 0
    BY <1>4, <2>1, <2>3, MultipleIffDivides
  <2> QED BY <1>4, <1>6, <2>1, <2>2, <2>4
<1>8. ASSUME NEW b \in start..end, b % p = 0
      PROVE  \E k \in 0..n : b = first + k * p
  <2>1. PICK l \in Int : b = l * p
    BY <1>8, MultipleIffDivides
  <2>2. m <= l
    <3> SUFFICES ASSUME l < m PROVE FALSE
      OBVIOUS
    <3>1. b <= first - p
      <4>1. m - (l + 1) \in Nat
        OBVIOUS
      <4>2. (m - (l + 1)) * p >= 0 /\ (m - (l + 1)) * p = m * p - l * p - p
        BY <4>1
      <4> QED BY <1>4, <1>5, <2>1, <4>2
    <3> QED BY <1>4, <3>1
  <2>3. b - first = (l - m) * p
    BY <1>5, <2>1
  <2>4. l - m <= n
    <3> SUFFICES ASSUME l - m > n PROVE FALSE
      BY <1>6
    <3>1. (l - m) - (n + 1) \in Nat
      BY <1>6
    <3>2. ((l - m) - (n + 1)) * p >= 0 /\ ((l - m) - (n + 1)) * p = (l - m) * p - n * p - p
      BY <1>6, <3>1
    <3> QED BY <1>4, <1>6, <2>3, <3>2
  <2>5. l - m \in 0..n /\ b = first + (l - m) * p
    BY <1>4, <1>6, <2>2, <2>3, <2>4
  <2> QED BY <2>5
<1> QED BY <1>3, <1>7, <1>8 DEF n
=============================================================================
