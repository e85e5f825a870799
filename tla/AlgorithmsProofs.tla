-------------------------- MODULE AlgorithmsProofs --------------------------
(***************************************************************************)
(* What the pure algorithms compute, for every series of bars, strategy    *)
(* and parameter, and with it the properties of MCAlgorithms for every     *)
(* bound.                                                                  *)
(***************************************************************************)
EXTENDS MCAlgorithms, BarIntervalsProofs, FiniteSetTheorems, SequenceTheorems

-----------------------------------------------------------------------------
(* The clock.                                                              *)

ClockInv ==
    part = "clock" => ts \in Nat /\ period \in Nat \ {0} /\ period <= MaxPeriod /\ offset \in 0..(period - 1)

LEMMA ClockRuns == Spec => []ClockInv
<1>1. Init => ClockInv
  BY BoundsAssumption DEF Init, ClockInv
<1>2. ClockInv /\ [Next]_vars => ClockInv'
  <2> SUFFICES ASSUME ClockInv, [Next]_vars PROVE ClockInv'
    OBVIOUS
  <2>1. CASE Tick
    BY <2>1 DEF ClockInv, Tick
  <2>2. ASSUME NEW c, NEW gap, NextBar(c, gap) PROVE ClockInv'
    BY <2>2 DEF ClockInv, NextBar
  <2>3. CASE UNCHANGED vars
    BY <2>3 DEF ClockInv, vars
  <2> QED BY <2>1, <2>2, <2>3 DEF Next, AtBound
<1> QED BY <1>1, <1>2, PTL DEF Spec

\* An offset is less than six days: the ten dates next_session_apply_slot tries
\* reach no further.
ShortLead == MaxPeriod <= 6 * Day

\* Min of a set of natural numbers is any member that none precedes.
LEMMA MinIs ==
    ASSUME NEW T \in SUBSET Nat, NEW x \in T, \A y \in T : x <= y
    PROVE  Min(T) = x
<1>1. Min(T) \in T /\ Min(T) <= x
  BY MinOfNats
<1>2. x <= Min(T) /\ x \in Nat /\ Min(T) \in Nat
  BY <1>1
<1> QED BY <1>1, <1>2

LEMMA SlotsHold ==
    ASSUME ShortLead, ClockInv
    PROVE  SlotsAndBars
<1> SUFFICES ASSUME part = "clock" PROVE SlotsAndBars
  BY DEF SlotsAndBars
<1>1. ts \in Nat /\ period \in Nat \ {0} /\ offset \in 0..(period - 1) /\ period <= MaxPeriod
  BY DEF ClockInv
<1>2. Day \in Nat \ {0} /\ MaxPeriod \in Nat
  BY BoundsAssumption
<1>3. next_apply_slot(ts, period, offset) = Min({s \in Slots : s > ts})
  <2> DEFINE n == next_apply_slot(ts, period, offset)
             T == {s \in Slots : s > ts}
  <2>1. n \in Int /\ n > ts /\ n <= ts + period /\ SlotAt(n, period, offset)
    BY <1>1, SlotIsAhead
  <2>2. (n + offset) % period = 0
    BY <1>1, <2>1, MultipleIffDivides DEF SlotAt
  <2>3. ASSUME NEW t \in T PROVE n <= t
    <3>1. t \in Nat /\ t > ts /\ (t + offset) % period = 0
      BY <1>1, <2>3 DEF Slots
    <3>2. SlotAt(t, period, offset)
      <4>1. t + offset \in Int
        BY <1>1, <3>1
      <4>2. \E k \in Int : t + offset = k * period
        BY <1>1, <3>1, <4>1, MultipleIffDivides, Zenon
      <4> QED BY <4>2, Zenon DEF SlotAt
    <3> QED BY <1>1, <3>1, <3>2, SlotIsFirst
  <2> HIDE DEF n
  <2>4. n \in T
    <3>1. n \in 0..(ts + 2 * period)
      BY <1>1, <2>1
    <3> QED BY <2>1, <2>2, <3>1 DEF Slots
  <2>5. T \in SUBSET Nat
    BY <1>1 DEF Slots
  <2> HIDE DEF T
  <2>6. Min(T) = n
    BY <2>3, <2>4, <2>5, MinIs
  <2> QED BY <2>6 DEF n, T
<1>4. ASSUME NEW close \in 0..(Day - 1)
      PROVE  LET slot == next_session_apply_slot(ts, Day, close, offset)
             IN  /\ slot > ts /\ OnSession(slot, close)
                 /\ \A t \in (ts + 1)..(slot - 1) : ~OnSession(t, close)
  <2> DEFINE slot == next_session_apply_slot(ts, Day, close, offset)
  <2>1. offset \in 0..(6 * Day)
    BY <1>1, <1>2 DEF ShortLead
  <2>2. /\ slot \in Int /\ slot > ts
        /\ \E d \in 0..(ts \div Day + 9) : weekday(d) < 5 /\ slot = d * Day + close - offset
    BY <1>1, <1>2, <2>1, SessionSlotIsAhead
  <2>3. ts \div Day \in Nat
    BY <1>1, <1>2, DayOf
  <2>4. 0..(ts \div Day + 9) \subseteq 0..(ts \div Day + 12)
    BY <2>3
  <2>5. ASSUME NEW t \in (ts + 1)..(slot - 1) PROVE ~OnSession(t, close)
    <3> SUFFICES ASSUME OnSession(t, close) PROVE FALSE
      OBVIOUS
    <3>1. PICK d \in 0..(ts \div Day + 12) : weekday(d) < 5 /\ t = d * Day + close - offset
      BY DEF OnSession
    <3>2. d \in Nat /\ t \in Int /\ t > ts /\ t < slot
      BY <1>1, <2>2, <2>3, <3>1
    <3>3. slot <= t
      BY <1>1, <1>2, <2>1, <3>1, <3>2, SessionSlotIsFirst
    <3> QED BY <2>2, <3>2, <3>3
  <2> HIDE DEF slot
  <2>6. OnSession(slot, close)
    BY <2>2, <2>4 DEF OnSession
  <2> QED BY <2>2, <2>5, <2>6 DEF slot
<1>5. ASSUME NEW start \in 0..ts
      PROVE  bar_starts(start, ts, period) = {b \in Boundaries : start <= b /\ b <= ts}
  <2>1. bar_starts(start, ts, period) = {b \in start..ts : b % period = 0}
    BY <1>1, BarStartsAreBoundaries
  <2> QED BY <1>1, <2>1 DEF Boundaries
<1>6. LET bar == last_closed_bar(ts, period)
      IN  bar + period <= ts /\ ts < bar + 2 * period /\ bar % period = 0
  <2>1. floor_to_period(ts, period) \in Int
    BY <1>1, FloorOpensBar
  <2>2. PICK k \in Int : floor_to_period(ts, period) = k * period
    <3>1. ts \in Int
      BY <1>1
    <3> QED BY <1>1, <3>1, FloorOpensBar, Zenon
  <2>3. last_closed_bar(ts, period) = (k - 1) * period /\ last_closed_bar(ts, period) \in Int
    BY <1>1, <2>1, <2>2 DEF last_closed_bar
  <2>4. last_closed_bar(ts, period) % period = 0
    BY <1>1, <2>3, MultipleIffDivides
  <2> QED BY <1>1, <2>4, LastClosedBarIsOver
<1> QED BY <1>3, <1>4, <1>5, <1>6 DEF SlotsAndBars

\* The seeded slot is the first one ahead, for a bar's close or a listed session's,
\* a window asks for the boundaries in it, and the newest closed bar is over, at every
\* instant and for every period, offset and time of closing.
THEOREM SlotsAreFirstAhead == ASSUME ShortLead PROVE Spec => []SlotsAndBars
<1>1. ClockInv => SlotsAndBars
  BY SlotsHold
<1> QED BY <1>1, ClockRuns, PTL

-----------------------------------------------------------------------------
(* The dates of a frame in order.                                          *)

\* How many of the dates D are no later than d.
Rank(D, d) == Cardinality({e \in D : e <= d})

\* A nonempty finite set of integers has a largest member.
LEMMA LatestExists ==
    ASSUME NEW D \in SUBSET Int, IsFiniteSet(D), D # {}
    PROVE  \E m \in D : \A e \in D : e <= m
<1> DEFINE Bad(E) == IsFiniteSet(E) /\ E # {} /\ ~\E m \in E : \A e \in E : e <= m
           T == {n \in Nat : \E E \in SUBSET Int : Bad(E) /\ Cardinality(E) = n}
<1> SUFFICES ASSUME Bad(D) PROVE FALSE
  OBVIOUS
<1>1. Cardinality(D) \in T
  BY FS_CardinalityType
<1>2. PICK n \in T : \A k \in T : n <= k
  BY <1>1, MinOfNats
<1>3. PICK E \in SUBSET Int : Bad(E) /\ Cardinality(E) = n
  BY <1>2
<1>4. PICK x \in E : TRUE
  BY <1>3
<1>5. IsFiniteSet(E \ {x}) /\ Cardinality(E \ {x}) = n - 1 /\ n - 1 \in Nat
  <2>1. n \in Nat /\ n # 0
    BY <1>3, FS_EmptySet
  <2>2. IsFiniteSet(E \ {x}) /\ Cardinality(E \ {x}) = n - 1
    BY <1>3, <1>4, FS_RemoveElement
  <2> QED BY <2>1, <2>2
<1>6. ~Bad(E \ {x})
  <2> SUFFICES ASSUME Bad(E \ {x}) PROVE FALSE
    OBVIOUS
  <2>1. n - 1 \in T /\ n \in Nat
    BY <1>5
  <2> HIDE DEF T
  <2> QED BY <1>2, <1>5, <2>1
<1>7. CASE E \ {x} = {}
  <2>1. E = {x}
    BY <1>4, <1>7, Zenon
  <2>2. x \in Int /\ x <= x
    BY <1>4
  <2> QED BY <1>3, <2>1, <2>2
<1>8. CASE E \ {x} # {}
  <2>1. PICK m \in E \ {x} : \A e \in E \ {x} : e <= m
    BY <1>5, <1>6, <1>8
  <2>2. CASE x <= m
    <3>1. \A e \in E : e <= m
      BY <2>1, <2>2
    <3> QED BY <1>3, <2>1, <3>1
  <2>3. CASE ~(x <= m)
    <3>1. x \in Int /\ m \in Int
      BY <1>4, <2>1
    <3>2. \A e \in E : e <= x
      BY <2>1, <2>3, <3>1
    <3> QED BY <1>3, <1>4, <3>2
  <2> QED BY <2>2, <2>3
<1> QED BY <1>7, <1>8

\* A later date has a higher rank.
LEMMA RankGrows ==
    ASSUME NEW D \in SUBSET Int, IsFiniteSet(D), NEW d \in D, NEW e \in D, d < e
    PROVE  Rank(D, d) \in Nat /\ Rank(D, e) \in Nat /\ Rank(D, d) < Rank(D, e)
<1> DEFINE A == {x \in D : x <= d}
           B == {x \in D : x <= e}
<1>1. IsFiniteSet(B) /\ B \in SUBSET D
  BY FS_Subset
<1>2. A \in SUBSET B /\ e \in B /\ e \notin A
  <2>1. d \in Int /\ e \in Int /\ \A x \in D : x \in Int
    OBVIOUS
  <2>2. e <= e /\ ~(e <= d) /\ \A x \in D : x <= d => x <= e
    BY <2>1
  <2> QED BY <2>2
<1>3. IsFiniteSet(A) /\ Cardinality(A) <= Cardinality(B) /\ Cardinality(A) # Cardinality(B)
  BY <1>1, <1>2, FS_Subset
<1>4. Cardinality(A) \in Nat /\ Cardinality(B) \in Nat
  BY <1>1, <1>3, FS_CardinalityType
<1> QED BY <1>3, <1>4 DEF Rank

\* Every rank is taken.
LEMMA RankTaken ==
    ASSUME NEW D \in SUBSET Int, IsFiniteSet(D), NEW i \in 1..Cardinality(D)
    PROVE  \E d \in D : Rank(D, d) = i
<1> DEFINE Bad(E, j) == IsFiniteSet(E) /\ j \in 1..Cardinality(E) /\ ~\E d \in E : Rank(E, d) = j
           T == {n \in Nat : \E E \in SUBSET Int, j \in Nat : Bad(E, j) /\ Cardinality(E) = n}
<1> SUFFICES ASSUME Bad(D, i) PROVE FALSE
  OBVIOUS
<1>1. Cardinality(D) \in T
  BY FS_CardinalityType
<1>2. PICK n \in T : \A k \in T : n <= k
  BY <1>1, MinOfNats
<1>3. PICK E \in SUBSET Int, j \in Nat : Bad(E, j) /\ Cardinality(E) = n
  BY <1>2
<1>4. E # {} /\ n \in Nat
  BY <1>3, FS_EmptySet
<1>5. PICK m \in E : \A e \in E : e <= m
  BY <1>3, <1>4, LatestExists
<1>6. Rank(E, m) = n
  <2>1. {e \in E : e <= m} = E
    BY <1>5
  <2> QED BY <1>3, <2>1 DEF Rank
<1>7. j # n /\ j \in 1..(n - 1)
  BY <1>3, <1>4, <1>6
<1> DEFINE F == E \ {m}
<1>8. IsFiniteSet(F) /\ Cardinality(F) = n - 1 /\ n - 1 \in Nat /\ F \in SUBSET Int
  BY <1>3, <1>4, <1>7, FS_RemoveElement
<1>9. ~Bad(F, j)
  <2> SUFFICES ASSUME Bad(F, j) PROVE FALSE
    OBVIOUS
  <2>1. n - 1 \in T
    BY <1>8
  <2> HIDE DEF T
  <2> QED BY <1>2, <1>4, <2>1
<1>10. PICK d \in F : Rank(F, d) = j
  BY <1>7, <1>8, <1>9
<1>11. {e \in F : e <= d} = {e \in E : e <= d}
  <2>1. d \in Int /\ m \in Int /\ d <= m /\ d # m
    BY <1>5
  <2>2. ~(m <= d)
    BY <2>1
  <2> QED BY <2>2
<1>12. Rank(E, d) = j
  BY <1>10, <1>11 DEF Rank
<1> QED BY <1>3, <1>12

-----------------------------------------------------------------------------
(* Columns.                                                                *)

\* A sequence of n entries.
IsColumn(c, n) == c = [i \in 1..n |-> c[i]] /\ Len(c) = n

\* What Column builds.
LEMMA ColumnBuilds ==
    ASSUME NEW n \in Nat, NEW g, g = [i \in 1..n |-> g[i]]
    PROVE  <<>> \o g = g /\ IsColumn(g, n) /\ DOMAIN g = 1..n
<1> DEFINE S == {g[i] : i \in 1..n}
<1>1. g \in [1..n -> S]
  OBVIOUS
<1>2. g \in Seq(S) /\ Len(g) = n
  BY <1>1
<1>3. <<>> \o g = g
  BY <1>2, ConcatEmptySeq
<1> QED BY <1>2, <1>3 DEF IsColumn

\* Ordered lists the members of a set in order: its entry i is the member of rank i.
LEMMA OrderedLists ==
    ASSUME NEW D \in SUBSET Int, IsFiniteSet(D)
    PROVE  /\ IsColumn(Ordered(D), Cardinality(D))
           /\ Cardinality(D) \in Nat
           /\ \A i \in 1..Cardinality(D) : Ordered(D)[i] \in D /\ Rank(D, Ordered(D)[i]) = i
<1> DEFINE n == Cardinality(D)
           date(i) == CHOOSE d \in D : Cardinality({e \in D : e <= d}) = i
           g == [i \in 1..n |-> date(i)]
<1>1. n \in Nat
  BY FS_CardinalityType
<1>2. Ordered(D) = <<>> \o g
  BY DEF Ordered, Column
<1>3. Ordered(D) = g /\ IsColumn(g, n)
  <2> HIDE DEF date, n
  <2>1. g = [i \in 1..n |-> g[i]]
    OBVIOUS
  <2> HIDE DEF g
  <2> QED BY <1>1, <1>2, <2>1, ColumnBuilds
<1>4. ASSUME NEW i \in 1..n PROVE g[i] \in D /\ Rank(D, g[i]) = i
  <2>1. \E d \in D : Rank(D, d) = i
    BY RankTaken
  <2>2. g[i] = CHOOSE d \in D : Rank(D, d) = i
    BY DEF Rank
  <2> HIDE DEF g
  <2> QED BY <2>1, <2>2
<1> QED BY <1>1, <1>3, <1>4

\* A frame has a bar on finitely many dates.
IsFrame(frame) == DOMAIN frame \in SUBSET Int /\ IsFiniteSet(DOMAIN frame)

LEMMA IndexLists ==
    ASSUME NEW frame, IsFrame(frame)
    PROVE  /\ IsColumn(Index(frame), Cardinality(DOMAIN frame))
           /\ Cardinality(DOMAIN frame) \in Nat
           /\ \A i \in 1..Cardinality(DOMAIN frame) :
                /\ Index(frame)[i] \in DOMAIN frame
                /\ Rank(DOMAIN frame, Index(frame)[i]) = i
BY OrderedLists DEF Index, IsFrame

\* No two dates have one rank.
LEMMA RankUnique ==
    ASSUME NEW D \in SUBSET Int, IsFiniteSet(D), NEW d \in D, NEW e \in D, Rank(D, d) = Rank(D, e)
    PROVE  d = e
<1>1. d < e \/ e < d \/ d = e
  OBVIOUS
<1>2. d < e => Rank(D, d) \in Nat /\ Rank(D, e) \in Nat /\ Rank(D, d) < Rank(D, e)
  BY RankGrows
<1>3. e < d => Rank(D, d) \in Nat /\ Rank(D, e) \in Nat /\ Rank(D, e) < Rank(D, d)
  BY RankGrows
<1> QED BY <1>1, <1>2, <1>3

\* The dates up to a cut are the first of all the dates.
LEMMA IndexOfEarlier ==
    ASSUME NEW frame, IsFrame(frame), NEW before, NEW cut \in Int,
           DOMAIN before = {d \in DOMAIN frame : d <= cut}
    PROVE  /\ IsFrame(before)
           /\ Cardinality(DOMAIN before) <= Cardinality(DOMAIN frame)
           /\ \A i \in 1..Cardinality(DOMAIN before) : Index(before)[i] = Index(frame)[i]
<1> DEFINE D == DOMAIN frame
           E == DOMAIN before
<1>1. IsFrame(before) /\ Cardinality(E) <= Cardinality(D)
  BY FS_Subset DEF IsFrame
<1>2. ASSUME NEW i \in 1..Cardinality(E) PROVE Index(before)[i] = Index(frame)[i]
  <2>1. i \in 1..Cardinality(D)
    <3>1. Cardinality(D) \in Nat /\ Cardinality(E) \in Nat
      BY <1>1, FS_CardinalityType DEF IsFrame
    <3> QED BY <1>1, <3>1
  <2>2. Index(before)[i] \in E /\ Rank(E, Index(before)[i]) = i
    BY <1>1, IndexLists
  <2>3. Index(frame)[i] \in D /\ Rank(D, Index(frame)[i]) = i
    BY <2>1, IndexLists
  <2>4. {e \in E : e <= Index(before)[i]} = {e \in D : e <= Index(before)[i]}
    <3>1. Index(before)[i] \in Int /\ Index(before)[i] <= cut
      BY <2>2 DEF IsFrame
    <3>2. \A e \in D : e <= Index(before)[i] => e <= cut
      BY <3>1 DEF IsFrame
    <3> QED BY <3>2
  <2>5. Rank(D, Index(before)[i]) = i
    BY <2>2, <2>4 DEF Rank
  <2> QED BY <2>2, <2>3, <2>5, RankUnique DEF IsFrame
<1> QED BY <1>1, <1>2

\* A column of m entries that continues one of n.
Continues(later, m, col, n) ==
    /\ n \in Nat /\ m \in Nat /\ n <= m
    /\ IsColumn(col, n) /\ IsColumn(later, m)
    /\ \A i \in 1..n : later[i] = col[i]

\* A part of a column depends on the entries in it.
LEMMA SubSeqAgrees ==
    ASSUME NEW c, NEW d, NEW m \in Int, NEW n \in Int, \A i \in m..n : c[i] = d[i]
    PROVE  SubSeq(c, m, n) = SubSeq(d, m, n)
<1> DEFINE S == {c[i] : i \in m..n}
<1>1. \A i \in m..n : c[i] \in S /\ d[i] \in S
  OBVIOUS
<1> HIDE DEF S
<1>2. /\ SubSeq(c, m, n) \in Seq(S) /\ Len(SubSeq(c, m, n)) = (IF m <= n THEN n - m + 1 ELSE 0)
      /\ \A i \in 1..(n - m + 1) : SubSeq(c, m, n)[i] = c[m + i - 1]
  BY <1>1, SubSeqProperties
<1>3. /\ SubSeq(d, m, n) \in Seq(S) /\ Len(SubSeq(d, m, n)) = (IF m <= n THEN n - m + 1 ELSE 0)
      /\ \A i \in 1..(n - m + 1) : SubSeq(d, m, n)[i] = d[m + i - 1]
  BY <1>1, SubSeqProperties
<1>4. \A i \in 1..(n - m + 1) : m + i - 1 \in m..n
  OBVIOUS
<1>5. \A i \in 1..Len(SubSeq(c, m, n)) : SubSeq(c, m, n)[i] = SubSeq(d, m, n)[i]
  <2> SUFFICES ASSUME NEW i \in 1..Len(SubSeq(c, m, n))
               PROVE  SubSeq(c, m, n)[i] = SubSeq(d, m, n)[i]
    OBVIOUS
  <2>1. i \in 1..(n - m + 1)
    BY <1>2
  <2> QED BY <1>2, <1>3, <1>4, <2>1
<1>6. Len(SubSeq(c, m, n)) = Len(SubSeq(d, m, n))
  BY <1>2, <1>3
<1> QED BY <1>2, <1>3, <1>5, <1>6, SeqEqual

\* What an indicator sees at bar i of a column that continues another one.
LEMMA SameBars ==
    ASSUME NEW col, NEW later, NEW n \in Nat, NEW p \in Nat \ {0}, NEW i \in 1..n,
           \A k \in 1..n : later[k] = col[k]
    PROVE  /\ SubSeq(later, 1, i) = SubSeq(col, 1, i)
           /\ ~(i < p) => Window(later, p, i) = Window(col, p, i)
           /\ later[i] = col[i]
           /\ i # 1 => later[i - 1] = col[i - 1]
<1>1. \A k \in 1..i : later[k] = col[k]
  OBVIOUS
<1>2. SubSeq(later, 1, i) = SubSeq(col, 1, i)
  BY <1>1, SubSeqAgrees
<1>3. ASSUME ~(i < p) PROVE Window(later, p, i) = Window(col, p, i)
  <2>1. i - p + 1 \in Int /\ i - p + 1 >= 1
    BY <1>3
  <2>2. \A k \in (i - p + 1)..i : later[k] = col[k]
    BY <1>1, <2>1
  <2>3. SubSeq(later, i - p + 1, i) = SubSeq(col, i - p + 1, i)
    BY <2>1, <2>2, SubSeqAgrees
  <2> QED BY <2>3 DEF Window
<1> QED BY <1>2, <1>3

LEMMA ReadingsAgree ==
    ASSUME NEW col, NEW later, NEW n \in Nat, NEW p \in Nat \ {0}, NEW i \in 1..n,
           \A k \in 1..n : later[k] = col[k]
    PROVE  /\ Rolling(later, p, i) = Rolling(col, p, i)
           /\ Ema(later, p, i) = Ema(col, p, i)
           /\ Rsi(later, p, i) = Rsi(col, p, i)
           /\ Bollinger(later, p, i) = Bollinger(col, p, i)
<1>1. /\ SubSeq(later, 1, i) = SubSeq(col, 1, i)
      /\ ~(i < p) => Window(later, p, i) = Window(col, p, i)
      /\ later[i] = col[i]
      /\ i # 1 => later[i - 1] = col[i - 1]
  BY SameBars
<1>2. Rolling(later, p, i) = Rolling(col, p, i)
  BY <1>1 DEF Rolling
<1>3. Ema(later, p, i) = Ema(col, p, i)
  BY <1>1 DEF Ema
<1>4. Rsi(later, p, i) = Rsi(col, p, i)
  BY <1>1 DEF Rsi
<1>5. Bollinger(later, p, i) = Bollinger(col, p, i)
  BY <1>1 DEF Bollinger
<1> QED BY <1>2, <1>3, <1>4, <1>5

LEMMA StochasticAgrees ==
    ASSUME NEW bars, NEW later, NEW n, NEW m, Continues(later, m, bars, n),
           NEW p \in Nat \ {0}, NEW i \in 1..n
    PROVE  Stochastic(later, p, i) = Stochastic(bars, p, i)
<1>1. n \in Nat /\ m \in Nat /\ n <= m /\ \A k \in 1..n : later[k] = bars[k]
  BY DEF Continues
<1>2. Len(bars) = n /\ Len(later) = m
  BY DEF Continues, IsColumn
<1> DEFINE entry(b, k) == IF k < p THEN NaN ELSE FastK(Window(b, p, k))
           f == [k \in 1..n |-> entry(bars, k)]
           g == [k \in 1..m |-> entry(later, k)]
<1>3. Stochastic(bars, p, i) = Rolling(<<>> \o f, p, i)
  BY <1>2 DEF Stochastic, Column
<1>4. Stochastic(later, p, i) = Rolling(<<>> \o g, p, i)
  BY <1>2 DEF Stochastic, Column
<1>5. \A k \in 1..n : entry(later, k) = entry(bars, k)
  <2> SUFFICES ASSUME NEW k \in 1..n PROVE entry(later, k) = entry(bars, k)
    OBVIOUS
  <2>1. ~(k < p) => Window(later, p, k) = Window(bars, p, k)
    BY <1>1, SameBars
  <2> QED BY <2>1
<1> HIDE DEF entry
<1>6. \A k \in 1..n : g[k] = f[k]
  BY <1>1, <1>5
<1>7. <<>> \o f = f /\ <<>> \o g = g
  <2>1. f = [k \in 1..n |-> f[k]] /\ g = [k \in 1..m |-> g[k]]
    OBVIOUS
  <2> HIDE DEF f, g
  <2> QED BY <1>1, <2>1, ColumnBuilds
<1> HIDE DEF f, g
<1>8. Rolling(g, p, i) = Rolling(f, p, i)
  BY <1>1, <1>6, ReadingsAgree
<1> QED BY <1>3, <1>4, <1>7, <1>8

\* Two columns built entry by entry.
LEMMA BuiltContinues ==
    ASSUME NEW n \in Nat, NEW m \in Nat, n <= m, NEW f, NEW g,
           f = [i \in 1..n |-> f[i]], g = [i \in 1..m |-> g[i]],
           \A i \in 1..n : g[i] = f[i]
    PROVE  Continues(<<>> \o g, m, <<>> \o f, n)
<1>1. <<>> \o f = f /\ IsColumn(f, n) /\ <<>> \o g = g /\ IsColumn(g, m)
  BY ColumnBuilds
<1> QED BY <1>1 DEF Continues

IndicatorName == {"sma", "ema", "rsi", "bollinger", "stochastic"}

\* A frame that goes on keeps its indicator's readings.
LEMMA IndicatorContinues ==
    ASSUME NEW name \in IndicatorName, NEW frame, NEW later, NEW n, NEW m, NEW p \in Nat \ {0},
           Continues(later.factor, m, frame.factor, n), Continues(later.bars, m, frame.bars, n)
    PROVE  Continues(indicator(name, later, p), m, indicator(name, frame, p), n)
<1>1. n \in Nat /\ m \in Nat /\ n <= m /\ \A k \in 1..n : later.factor[k] = frame.factor[k]
  BY DEF Continues
<1>2. Len(frame.factor) = n /\ Len(later.factor) = m
  BY DEF Continues, IsColumn
<1> DEFINE reading(fr, i) == CASE name = "sma" -> Rolling(fr.factor, p, i)
                               [] name = "ema" -> Ema(fr.factor, p, i)
                               [] name = "rsi" -> Rsi(fr.factor, p, i)
                               [] name = "bollinger" -> Bollinger(fr.factor, p, i)
                               [] name = "stochastic" -> Stochastic(fr.bars, p, i)
           f == [i \in 1..n |-> reading(frame, i)]
           g == [i \in 1..m |-> reading(later, i)]
<1>3. indicator(name, frame, p) = <<>> \o f
  BY <1>2, Zenon DEF indicator, Column, IndicatorName
<1>4. indicator(name, later, p) = <<>> \o g
  BY <1>2, Zenon DEF indicator, Column, IndicatorName
<1>5. \A i \in 1..n : reading(later, i) = reading(frame, i)
  <2> SUFFICES ASSUME NEW i \in 1..n PROVE reading(later, i) = reading(frame, i)
    OBVIOUS
  <2>1. /\ Rolling(later.factor, p, i) = Rolling(frame.factor, p, i)
        /\ Ema(later.factor, p, i) = Ema(frame.factor, p, i)
        /\ Rsi(later.factor, p, i) = Rsi(frame.factor, p, i)
        /\ Bollinger(later.factor, p, i) = Bollinger(frame.factor, p, i)
    <3>1. PICK c, d : c = frame.factor /\ d = later.factor
      OBVIOUS
    <3>2. \A k \in 1..n : d[k] = c[k]
      BY <1>1, <3>1
    <3>3. /\ Rolling(d, p, i) = Rolling(c, p, i) /\ Ema(d, p, i) = Ema(c, p, i)
          /\ Rsi(d, p, i) = Rsi(c, p, i) /\ Bollinger(d, p, i) = Bollinger(c, p, i)
      BY <1>1, <3>2, ReadingsAgree
    <3> QED BY <3>1, <3>3
  <2>2. Stochastic(later.bars, p, i) = Stochastic(frame.bars, p, i)
    BY StochasticAgrees
  <2> QED BY <2>1, <2>2 DEF IndicatorName
<1> HIDE DEF reading
<1>6. f = [i \in 1..n |-> f[i]] /\ g = [i \in 1..m |-> g[i]] /\ \A i \in 1..n : g[i] = f[i]
  BY <1>1, <1>5
<1> HIDE DEF f, g
<1>7. Continues(<<>> \o g, m, <<>> \o f, n)
  BY <1>1, <1>6, BuiltContinues
<1> QED BY <1>3, <1>4, <1>7

\* Positions are taken reading by reading.
LEMMA PositionsContinue ==
    ASSUME NEW func, NEW s, NEW col, NEW later, NEW n, NEW m, Continues(later, m, col, n)
    PROVE  Continues(positions_of(func, later, s), m, positions_of(func, col, s), n)
<1>1. n \in Nat /\ m \in Nat /\ n <= m /\ \A k \in 1..n : later[k] = col[k]
  BY DEF Continues
<1>2. Len(col) = n /\ Len(later) = m
  BY DEF Continues, IsColumn
<1> DEFINE one(x) == IF IsNaN(x) THEN Unknown
                     ELSE IF func.direction = "momentum" THEN momentum_signal(x, s, Lower(func, s))
                     ELSE reversion_signal(x, s, Lower(func, s))
           taken(x) == IF func.long_only THEN _long_only(one(x)) ELSE one(x)
           f == [i \in 1..n |-> taken(col[i])]
           g == [i \in 1..m |-> taken(later[i])]
<1>3. positions_of(func, col, s) = <<>> \o f
  BY <1>2, Zenon DEF positions_of, Column
<1>4. positions_of(func, later, s) = <<>> \o g
  BY <1>2, Zenon DEF positions_of, Column
<1> HIDE DEF taken
<1>6. f = [i \in 1..n |-> f[i]] /\ g = [i \in 1..m |-> g[i]] /\ \A i \in 1..n : g[i] = f[i]
  BY <1>1
<1> HIDE DEF f, g
<1>7. Continues(<<>> \o g, m, <<>> \o f, n)
  BY <1>1, <1>6, BuiltContinues
<1> QED BY <1>3, <1>4, <1>7

\* The conviction of a reading is its rank among the readings up to its bar.
LEMMA ConvictionAgrees ==
    ASSUME NEW col, NEW later, NEW i \in Nat, \A k \in 1..i : later[k] = col[k], i >= 1
    PROVE  _conviction(later, i) = _conviction(col, i)
<1>1. {k \in 1..i : ~IsNaN(later[k])} = {k \in 1..i : ~IsNaN(col[k])}
  OBVIOUS
<1> DEFINE seen == {k \in 1..i : ~IsNaN(col[k])}
<1>2. {k \in seen : ~Gt(later[k], later[i])} = {k \in seen : ~Gt(col[k], col[i])}
  OBVIOUS
<1>3. later[i] = col[i]
  OBVIOUS
<1> QED BY <1>1, <1>2, <1>3 DEF _conviction

\* Factors that go on keep the positions they are combined into.
LEMMA CombinedContinues ==
    ASSUME NEW J \in Nat \ {0}, NEW n, NEW m, NEW conj,
           NEW ps, NEW qs, IsColumn(ps, J), IsColumn(qs, J),
           NEW cs, NEW ds, IsColumn(cs, J), IsColumn(ds, J),
           \A j \in 1..J : Continues(qs[j], m, ps[j], n) /\ Continues(ds[j], m, cs[j], n)
    PROVE  Continues(combine_positions(qs, ds, conj), m, combine_positions(ps, cs, conj), n)
<1>1. 1 \in 1..J /\ Continues(qs[1], m, ps[1], n)
  OBVIOUS
<1>2. Len(ps) = J /\ Len(qs) = J /\ Len(cs) = J /\ Len(ds) = J /\ DOMAIN ps = 1..J /\ DOMAIN qs = 1..J
  BY DEF IsColumn
<1>3. n \in Nat /\ m \in Nat /\ n <= m /\ Len(ps[1]) = n /\ Len(qs[1]) = m
  BY <1>1 DEF Continues, IsColumn
<1>4. CASE J = 1
  <2>1. combine_positions(qs, ds, conj) = qs[1] /\ combine_positions(ps, cs, conj) = ps[1]
    BY <1>2, <1>4, Zenon DEF combine_positions
  <2> QED BY <1>1, <2>1
<1>5. CASE J # 1
  <2> DEFINE signs(x, i) == [j \in 1..J |-> x[j][i]]
             conviction(x, i) == [j \in 1..J |-> _conviction(x[j], i)]
             bar(x, y, i) == IF \E j \in 1..J : x[j][i] = Unknown THEN Unknown
                             ELSE _combine(conj, <<>> \o signs(x, i), <<>> \o conviction(y, i))
             f == [i \in 1..n |-> bar(ps, cs, i)]
             g == [i \in 1..m |-> bar(qs, ds, i)]
  <2>1. combine_positions(ps, cs, conj) = <<>> \o f
    BY <1>2, <1>3, <1>5, Zenon DEF combine_positions, Column
  <2>2. combine_positions(qs, ds, conj) = <<>> \o g
    BY <1>2, <1>3, <1>5, Zenon DEF combine_positions, Column
  <2>3. \A i \in 1..n : bar(qs, ds, i) = bar(ps, cs, i)
    <3> SUFFICES ASSUME NEW i \in 1..n PROVE bar(qs, ds, i) = bar(ps, cs, i)
      OBVIOUS
    <3>1. \A j \in 1..J : qs[j][i] = ps[j][i]
      BY DEF Continues
    <3>2. \A j \in 1..J : _conviction(ds[j], i) = _conviction(cs[j], i)
      <4> SUFFICES ASSUME NEW j \in 1..J PROVE _conviction(ds[j], i) = _conviction(cs[j], i)
        OBVIOUS
      <4>1. PICK c, d : c = cs[j] /\ d = ds[j]
        OBVIOUS
      <4>2. i \in Nat /\ i >= 1 /\ \A k \in 1..i : d[k] = c[k]
        <5>1. \A k \in 1..n : d[k] = c[k]
          BY <4>1 DEF Continues
        <5> QED BY <1>3, <5>1
      <4> QED BY <4>1, <4>2, ConvictionAgrees
    <3>3. signs(qs, i) = signs(ps, i)
      BY <3>1
    <3>4. conviction(ds, i) = conviction(cs, i)
      BY <3>2
    <3>5. (\E j \in 1..J : qs[j][i] = Unknown) <=> (\E j \in 1..J : ps[j][i] = Unknown)
      BY <3>1
    <3> HIDE DEF signs, conviction
    <3> QED BY <3>3, <3>4, <3>5
  <2> HIDE DEF bar
  <2>4. f = [i \in 1..n |-> f[i]] /\ g = [i \in 1..m |-> g[i]] /\ \A i \in 1..n : g[i] = f[i]
    BY <1>3, <2>3
  <2> HIDE DEF f, g
  <2>5. Continues(<<>> \o g, m, <<>> \o f, n)
    BY <1>3, <2>4, BuiltContinues
  <2> QED BY <2>1, <2>2, <2>5
<1> QED BY <1>4, <1>5

-----------------------------------------------------------------------------
(* From the bars to the positions.                                         *)

\* A strategy of one or more substrategies, each with a window.
IsStrategy(st, windows, J) ==
    /\ J \in Nat \ {0} /\ IsColumn(st.subs, J)
    /\ \A j \in 1..J : st.subs[j].ind \in IndicatorName /\ windows[j] \in Nat \ {0}

\* What a strategy saw of its products up to a cut.
SeenUpTo(cut, before, after, st) ==
    /\ cut \in Int
    /\ \A s \in {st.symbol} \cup {st.subs[j].symbol : j \in DOMAIN st.subs} :
         /\ IsFrame(after[s])
         /\ DOMAIN before[s] = {d \in DOMAIN after[s] : d <= cut}
         /\ \A d \in DOMAIN before[s] : before[s][d] = after[s][d]

Dates(frames, st) == Cardinality(DOMAIN frames[st.symbol])

\* The factor and the bars of a substrategy go on, whatever comes after the cut.
LEMMA FrameContinues ==
    ASSUME NEW cut, NEW before, NEW after, NEW st, NEW windows, NEW J, IsStrategy(st, windows, J),
           SeenUpTo(cut, before, after, st), NEW j \in 1..J
    PROVE  /\ Continues(factor(after, st, st.subs[j]), Dates(after, st),
                        factor(before, st, st.subs[j]), Dates(before, st))
           /\ \A f, g : /\ f = [i \in 1..Dates(before, st) |-> before[st.symbol][Index(before[st.symbol])[i]]]
                        /\ g = [i \in 1..Dates(after, st) |-> after[st.symbol][Index(after[st.symbol])[i]]]
                        => Continues(<<>> \o g, Dates(after, st), <<>> \o f, Dates(before, st))
<1> DEFINE s == st.symbol
           x == st.subs[j].symbol
           n == Dates(before, st)
           m == Dates(after, st)
<1>1. j \in DOMAIN st.subs
  BY DEF IsStrategy, IsColumn
<1>2. /\ IsFrame(after[s]) /\ cut \in Int
      /\ DOMAIN before[s] = {d \in DOMAIN after[s] : d <= cut}
      /\ \A d \in DOMAIN before[s] : before[s][d] = after[s][d]
  BY DEF SeenUpTo
<1>3. /\ DOMAIN before[x] = {d \in DOMAIN after[x] : d <= cut}
      /\ \A d \in DOMAIN before[x] : before[x][d] = after[x][d]
  BY <1>1 DEF SeenUpTo
<1>4. /\ IsFrame(before[s]) /\ n <= m
      /\ \A i \in 1..n : Index(before[s])[i] = Index(after[s])[i]
  <2>1. PICK a, b : a = after[s] /\ b = before[s]
    OBVIOUS
  <2>2. /\ IsFrame(b) /\ Cardinality(DOMAIN b) <= Cardinality(DOMAIN a)
        /\ \A i \in 1..Cardinality(DOMAIN b) : Index(b)[i] = Index(a)[i]
    BY <1>2, <2>1, IndexOfEarlier
  <2> QED BY <2>1, <2>2 DEF Dates
<1>5. /\ n \in Nat /\ IsColumn(Index(before[s]), n)
      /\ \A i \in 1..n : Index(before[s])[i] \in DOMAIN before[s]
  BY <1>4, IndexLists DEF Dates
<1>6. m \in Nat /\ IsColumn(Index(after[s]), m)
  BY <1>2, IndexLists DEF Dates
<1>7. \A i \in 1..n : /\ Index(after[s])[i] = Index(before[s])[i]
                      /\ Index(before[s])[i] \in DOMAIN before[s]
                      /\ Index(before[s])[i] <= cut
  BY <1>2, <1>4, <1>5
<1>8. Continues(factor(after, st, st.subs[j]), m, factor(before, st, st.subs[j]), n)
  <2> DEFINE close(fr, d) == IF d \in DOMAIN fr[x] THEN Num(fr[x][d].close) ELSE NaN
             f == [i \in 1..n |-> close(before, Index(before[s])[i])]
             g == [i \in 1..m |-> close(after, Index(after[s])[i])]
  <2>1. factor(before, st, st.subs[j]) = <<>> \o f
    BY <1>5, Zenon DEF factor, Column, IsColumn
  <2>2. factor(after, st, st.subs[j]) = <<>> \o g
    BY <1>6, Zenon DEF factor, Column, IsColumn
  <2>3. \A i \in 1..n : close(after, Index(after[s])[i]) = close(before, Index(before[s])[i])
    <3> SUFFICES ASSUME NEW i \in 1..n
                 PROVE  close(after, Index(after[s])[i]) = close(before, Index(before[s])[i])
      OBVIOUS
    <3>1. PICK d : d = Index(before[s])[i]
      OBVIOUS
    <3>2. Index(after[s])[i] = d /\ d <= cut
      BY <1>7, <3>1
    <3>3. d \in DOMAIN after[x] <=> d \in DOMAIN before[x]
      BY <1>3, <3>2
    <3>4. d \in DOMAIN before[x] => before[x][d] = after[x][d]
      BY <1>3
    <3> QED BY <3>1, <3>2, <3>3, <3>4
  <2> HIDE DEF close, n, m, s
  <2>4. f = [i \in 1..n |-> f[i]] /\ g = [i \in 1..m |-> g[i]] /\ \A i \in 1..n : g[i] = f[i]
    BY <1>4, <1>5, <1>6, <2>3
  <2> HIDE DEF f, g
  <2>5. Continues(<<>> \o g, m, <<>> \o f, n)
    BY <1>4, <1>5, <1>6, <2>4, BuiltContinues
  <2> QED BY <2>1, <2>2, <2>5
<1>9. ASSUME NEW f, f = [i \in 1..n |-> before[s][Index(before[s])[i]]],
             NEW g, g = [i \in 1..m |-> after[s][Index(after[s])[i]]]
      PROVE  Continues(<<>> \o g, m, <<>> \o f, n)
  <2> HIDE DEF n, m, s
  <2>1. f = [i \in 1..n |-> f[i]] /\ g = [i \in 1..m |-> g[i]]
    BY <1>9
  <2>2. \A i \in 1..n : g[i] = f[i]
    <3> SUFFICES ASSUME NEW i \in 1..n PROVE g[i] = f[i]
      OBVIOUS
    <3>1. i \in 1..m
      BY <1>4, <1>5, <1>6
    <3>2. before[s][Index(before[s])[i]] = after[s][Index(after[s])[i]]
      BY <1>2, <1>7
    <3> QED BY <1>9, <3>1, <3>2
  <2> QED BY <1>4, <1>5, <1>6, <2>1, <2>2, BuiltContinues
<1> QED BY <1>8, <1>9

LEMMA ReadingsContinue ==
    ASSUME NEW cut, NEW before, NEW after, NEW st, NEW windows, NEW J, IsStrategy(st, windows, J),
           SeenUpTo(cut, before, after, st), NEW j \in 1..J
    PROVE  Continues(indicator_of(after, st, st.subs[j], windows[j]), Dates(after, st),
                     indicator_of(before, st, st.subs[j], windows[j]), Dates(before, st))
<1> DEFINE n == Dates(before, st)
           m == Dates(after, st)
           ib == Index(before[st.symbol])
           ia == Index(after[st.symbol])
           bb == [i \in 1..n |-> before[st.symbol][ib[i]]]
           ba == [i \in 1..m |-> after[st.symbol][ia[i]]]
           fb == [factor |-> factor(before, st, st.subs[j]), bars |-> <<>> \o bb]
           fa == [factor |-> factor(after, st, st.subs[j]), bars |-> <<>> \o ba]
<1>1. st.subs[j].ind \in IndicatorName /\ windows[j] \in Nat \ {0}
  BY DEF IsStrategy
<1>2. /\ Continues(fa.factor, m, fb.factor, n)
      /\ Continues(fa.bars, m, fb.bars, n)
  BY FrameContinues
<1>3. Len(ib) = n /\ Len(ia) = m
  <2>1. IsFrame(after[st.symbol]) /\ cut \in Int
        /\ DOMAIN before[st.symbol] = {d \in DOMAIN after[st.symbol] : d <= cut}
    BY DEF SeenUpTo
  <2>2. PICK a, b : a = after[st.symbol] /\ b = before[st.symbol]
    OBVIOUS
  <2>3. IsFrame(b)
    BY <2>1, <2>2, IndexOfEarlier
  <2> QED BY <2>1, <2>2, <2>3, IndexLists DEF IsColumn, Dates
<1>4. indicator_of(before, st, st.subs[j], windows[j]) = indicator(st.subs[j].ind, fb, windows[j])
  <2>1. indicator_of(before, st, st.subs[j], windows[j]) =
          indicator(st.subs[j].ind, [factor |-> factor(before, st, st.subs[j]),
                                     bars |-> <<>> \o [i \in 1..Len(ib) |-> before[st.symbol][ib[i]]]], windows[j])
    BY Zenon DEF indicator_of, Column
  <2> QED BY <1>3, <2>1
<1>5. indicator_of(after, st, st.subs[j], windows[j]) = indicator(st.subs[j].ind, fa, windows[j])
  <2>1. indicator_of(after, st, st.subs[j], windows[j]) =
          indicator(st.subs[j].ind, [factor |-> factor(after, st, st.subs[j]),
                                     bars |-> <<>> \o [i \in 1..Len(ia) |-> after[st.symbol][ia[i]]]], windows[j])
    BY Zenon DEF indicator_of, Column
  <2> QED BY <1>3, <2>1
<1> HIDE DEF fa, fb, n, m
<1>6. Continues(indicator(st.subs[j].ind, fa, windows[j]), m, indicator(st.subs[j].ind, fb, windows[j]), n)
  BY <1>1, <1>2, IndicatorContinues
<1> QED BY <1>4, <1>5, <1>6 DEF n, m

\* A backtest decides a bar on what was known on it (FinalPosition, from the index
\* alignment and the rolling windows to the conviction that settles a conflict): the
\* positions on what was printed up to a cut are the first positions on everything,
\* for every strategy, parameter, series of bars and gap.
THEOREM BacktestSeesNoFuture ==
    ASSUME NEW cut, NEW before, NEW after, NEW st, NEW windows, NEW signals, NEW J,
           IsStrategy(st, windows, J), SeenUpTo(cut, before, after, st)
    PROVE  Continues(FinalPosition(after, st, windows, signals), Dates(after, st),
                     FinalPosition(before, st, windows, signals), Dates(before, st))
<1> DEFINE n == Dates(before, st)
           m == Dates(after, st)
           reading(fr, j) == indicator_of(fr, st, st.subs[j], windows[j])
           taken(col, j) == positions_of(st.subs[j].func, col, Threshold(st.subs[j].ind, signals[j]))
           cs == [j \in 1..J |-> reading(before, j)]
           ds == [j \in 1..J |-> reading(after, j)]
           ps == [j \in 1..J |-> taken(cs[j], j)]
           qs == [j \in 1..J |-> taken(ds[j], j)]
<1>1. J \in Nat \ {0} /\ Len(st.subs) = J
  BY DEF IsStrategy, IsColumn
<1>2. \A j \in 1..J : Continues(reading(after, j), m, reading(before, j), n)
  BY ReadingsContinue
<1>3. \A j \in 1..J : Continues(taken(reading(after, j), j), m, taken(reading(before, j), j), n)
  BY <1>2, PositionsContinue
<1>4. /\ FinalPosition(before, st, windows, signals) = PositionFrom(st, <<>> \o cs, signals)
      /\ FinalPosition(after, st, windows, signals) = PositionFrom(st, <<>> \o ds, signals)
  BY <1>1, Zenon DEF FinalPosition, Column
<1> HIDE DEF reading, n, m
<1>5. /\ cs = [j \in 1..J |-> cs[j]] /\ ds = [j \in 1..J |-> ds[j]]
      /\ \A j \in 1..J : cs[j] = reading(before, j) /\ ds[j] = reading(after, j)
  OBVIOUS
<1> HIDE DEF cs, ds
<1>6. <<>> \o cs = cs /\ <<>> \o ds = ds /\ IsColumn(cs, J) /\ IsColumn(ds, J)
  BY <1>1, <1>5, ColumnBuilds
<1>7. Len(cs) = J /\ Len(ds) = J
  BY <1>6 DEF IsColumn
<1>8. /\ PositionFrom(st, cs, signals) = combine_positions(<<>> \o ps, cs, st.conjunction)
      /\ PositionFrom(st, ds, signals) = combine_positions(<<>> \o qs, ds, st.conjunction)
  BY <1>7, Zenon DEF PositionFrom, Column
<1> HIDE DEF taken
<1>9. /\ ps = [j \in 1..J |-> ps[j]] /\ qs = [j \in 1..J |-> qs[j]]
      /\ \A j \in 1..J : ps[j] = taken(cs[j], j) /\ qs[j] = taken(ds[j], j)
  OBVIOUS
<1> HIDE DEF ps, qs
<1>10. <<>> \o ps = ps /\ <<>> \o qs = qs /\ IsColumn(ps, J) /\ IsColumn(qs, J)
  BY <1>1, <1>9, ColumnBuilds
<1>11. \A j \in 1..J : Continues(qs[j], m, ps[j], n) /\ Continues(ds[j], m, cs[j], n)
  BY <1>2, <1>3, <1>5, <1>9
<1>12. Continues(combine_positions(qs, ds, st.conjunction), m, combine_positions(ps, cs, st.conjunction), n)
  BY <1>1, <1>6, <1>10, <1>11, CombinedContinues
<1> QED BY <1>4, <1>6, <1>8, <1>10, <1>12 DEF n, m

-----------------------------------------------------------------------------
(* The market.                                                             *)

MarketInv ==
    part = "market" =>
      /\ ts \in Nat /\ strategy \in Strategies
      /\ DOMAIN data = {"main", "other"}
      /\ DOMAIN data["main"] = 1..ts
      /\ DOMAIN data["other"] \in SUBSET (1..ts)
      /\ \A d \in 1..ts : data["main"][d].close \in Nat \ {0}

\* What a step of the market does to the frames.
LEMMA MarketStep ==
    ASSUME MarketInv, part = "market", NEW c \in 1..MaxClose, NEW gap, NextBar(c, gap)
    PROVE  /\ part' = "market" /\ strategy' = strategy /\ ts' = ts + 1 /\ ts \in Nat
           /\ DOMAIN data' = {"main", "other"}
           /\ DOMAIN data'["main"] = 1..(ts + 1)
           /\ DOMAIN data'["other"] \in SUBSET (1..(ts + 1))
           /\ \A d \in 1..(ts + 1) : data'["main"][d].close \in Nat \ {0}
           /\ \A s \in {"main", "other"} :
                /\ DOMAIN data[s] = {d \in DOMAIN data'[s] : d <= ts}
                /\ \A d \in DOMAIN data[s] : data[s][d] = data'[s][d]
<1>1. /\ ts \in Nat /\ part' = "market" /\ strategy' = strategy /\ ts' = ts + 1
      /\ DOMAIN data["main"] = 1..ts /\ DOMAIN data["other"] \in SUBSET (1..ts)
  BY DEF MarketInv, NextBar
<1> DEFINE other == IF gap THEN data["other"] ELSE WithBar(data["other"], ts', Bar(MaxClose + 1 - c))
           main == WithBar(data["main"], ts', Bar(c))
<1>2. data' = [main |-> main, other |-> other]
  BY DEF NextBar
<1>3. DOMAIN data' = {"main", "other"} /\ data'["main"] = main /\ data'["other"] = other
  <2> HIDE DEF main, other
  <2> QED BY <1>2
<1>4. /\ DOMAIN main = 1..(ts + 1)
      /\ \A d \in DOMAIN data["main"] : main[d] = data["main"][d]
  <2>1. DOMAIN main = DOMAIN data["main"] \cup {ts'}
    BY DEF WithBar
  <2>2. \A d \in DOMAIN data["main"] : main[d] = data["main"][d]
    BY <1>1 DEF WithBar
  <2> HIDE DEF main
  <2> QED BY <1>1, <2>1, <2>2
<1>5. /\ DOMAIN other \in SUBSET (1..(ts + 1))
      /\ DOMAIN data["other"] = {d \in DOMAIN other : d <= ts}
      /\ \A d \in DOMAIN data["other"] : other[d] = data["other"][d]
  <2>1. CASE gap
    <3>1. other = data["other"]
      BY <2>1
    <3> QED BY <1>1, <3>1
  <2>2. CASE ~gap
    <3>1. other = WithBar(data["other"], ts', Bar(MaxClose + 1 - c))
      BY <2>2
    <3>2. DOMAIN other = DOMAIN data["other"] \cup {ts + 1}
      BY <1>1, <3>1 DEF WithBar
    <3>3. \A d \in DOMAIN data["other"] : other[d] = data["other"][d]
      BY <1>1, <3>1 DEF WithBar
    <3> HIDE DEF other
    <3> QED BY <1>1, <3>2, <3>3
  <2> QED BY <2>1, <2>2
<1>6. main[ts + 1].close \in Nat \ {0}
  <2>1. main[ts + 1] = Bar(c)
    BY <1>1 DEF WithBar
  <2> QED BY <2>1, BoundsAssumption DEF Bar
<1> HIDE DEF main, other
<1>7. DOMAIN data["main"] = {d \in DOMAIN main : d <= ts}
  BY <1>1, <1>4
<1>8. \A d \in 1..(ts + 1) : main[d].close \in Nat \ {0}
  <2>1. \A d \in 1..ts : data["main"][d].close \in Nat \ {0}
    BY DEF MarketInv
  <2>2. \A d \in 1..(ts + 1) : d # ts + 1 => d \in 1..ts
    BY <1>1
  <2> QED BY <1>1, <1>4, <1>6, <2>1, <2>2
<1> QED BY <1>1, <1>3, <1>4, <1>5, <1>7, <1>8

LEMMA MarketRuns == Spec => []MarketInv
<1>1. Init => MarketInv
  BY DEF Init, MarketInv
<1>2. MarketInv /\ [Next]_vars => MarketInv'
  <2> SUFFICES ASSUME MarketInv, [Next]_vars PROVE MarketInv'
    OBVIOUS
  <2>1. CASE Tick
    BY <2>1 DEF MarketInv, Tick
  <2>2. ASSUME NEW c \in 1..MaxClose, NEW gap, NextBar(c, gap) PROVE MarketInv'
    BY <2>2, MarketStep DEF MarketInv, NextBar
  <2>3. CASE UNCHANGED vars
    BY <2>3 DEF MarketInv, vars
  <2> QED BY <2>1, <2>2, <2>3 DEF Next, AtBound
<1> QED BY <1>1, <1>2, PTL DEF Spec

\* Every strategy of the market is one of one to three substrategies of two products.
LEMMA StrategiesAre ==
    ASSUME NEW st \in Strategies
    PROVE  /\ st.symbol = "main"
           /\ \E J \in Nat \ {0} : /\ IsStrategy(st, windows_of(st), J)
                                   /\ DOMAIN st.subs = 1..J
           /\ \A j \in DOMAIN st.subs : st.subs[j].symbol \in {"main", "other"}
<1>1. st.symbol = "main"
  BY DEF Strategies
<1>2. \E J \in {1, 2, 3} : IsColumn(st.subs, J) /\ DOMAIN st.subs = 1..J
  BY DEF Strategies, IsColumn
<1>3. \A j \in DOMAIN st.subs : /\ st.subs[j].symbol \in {"main", "other"}
                                /\ st.subs[j].ind \in IndicatorName
  BY DEF Strategies, Sub, IndicatorName
<1>4. \A j \in DOMAIN st.subs : windows_of(st)[j] \in Nat \ {0}
  BY DEF windows_of
<1> QED BY <1>1, <1>2, <1>3, <1>4 DEF IsStrategy

\* A column is the first part of any that continues it.
LEMMA FirstPart ==
    ASSUME NEW later, NEW m, NEW col, NEW n, Continues(later, m, col, n)
    PROVE  col = SubSeq(later, 1, n)
<1>1. /\ n \in Nat /\ IsColumn(col, n) /\ \A i \in 1..n : later[i] = col[i]
  BY DEF Continues
<1>2. SubSeq(later, 1, n) = SubSeq(col, 1, n)
  BY <1>1, SubSeqAgrees
<1>3. SubSeq(col, 1, n) = col
  <2> DEFINE S == {col[i] : i \in 1..n}
  <2>1. \A i \in 1..n : col[i] \in S
    OBVIOUS
  <2>2. col = [i \in 1..n |-> col[i]]
    BY <1>1 DEF IsColumn
  <2> HIDE DEF S
  <2>3. col \in Seq(S) /\ Len(col) = n
    BY <1>1, <2>1, <2>2
  <2>4. SubSeq(col, 1, n) \in Seq(S) /\ Len(SubSeq(col, 1, n)) = n
        /\ \A i \in 1..n : SubSeq(col, 1, n)[i] = col[i]
    BY <1>1, <2>1, SubSeqProperties
  <2> QED BY <2>3, <2>4, SeqEqual
<1> QED BY <1>2, <1>3

\* A bar that is printed changes no position of an earlier bar.
THEOREM PositionsNeverChange == Spec => NoLookAhead
<1>1. MarketInv /\ [Next]_vars => [part = "market" => PositionOn(data) = SubSeq(PositionOn(data'), 1, ts)]_vars
  <2> SUFFICES ASSUME MarketInv, Next, part = "market"
               PROVE  PositionOn(data) = SubSeq(PositionOn(data'), 1, ts) \/ UNCHANGED vars
    OBVIOUS
  <2>1. CASE UNCHANGED vars
    BY <2>1
  <2>2. ASSUME NEW c \in 1..MaxClose, NEW gap, NextBar(c, gap) PROVE PositionOn(data) = SubSeq(PositionOn(data'), 1, ts)
    <3>1. ts \in Nat /\ strategy \in Strategies
      BY DEF MarketInv
    <3>2. PICK J \in Nat \ {0} : IsStrategy(strategy, windows_of(strategy), J) /\ DOMAIN strategy.subs = 1..J
      BY <3>1, StrategiesAre
    <3>3. /\ DOMAIN data["main"] = 1..ts
          /\ DOMAIN data'["main"] = 1..(ts + 1)
          /\ DOMAIN data'["other"] \in SUBSET (1..(ts + 1))
          /\ \A s \in {"main", "other"} :
               /\ DOMAIN data[s] = {d \in DOMAIN data'[s] : d <= ts}
               /\ \A d \in DOMAIN data[s] : data[s][d] = data'[s][d]
      BY <2>2, MarketStep DEF MarketInv
    <3>4. \A s \in {"main", "other"} : IsFrame(data'[s])
      <4>1. IsFiniteSet(1..(ts + 1)) /\ 1..(ts + 1) \in SUBSET Int
        BY <3>1, FS_Interval
      <4> QED BY <3>3, <4>1, FS_Subset DEF IsFrame
    <3>5. SeenUpTo(ts, data, data', strategy)
      <4>1. {strategy.symbol} \cup {strategy.subs[j].symbol : j \in DOMAIN strategy.subs} \in SUBSET {"main", "other"}
        BY <3>1, StrategiesAre
      <4> QED BY <3>1, <3>3, <3>4, <4>1 DEF SeenUpTo
    <3>6. Dates(data, strategy) = ts
      <4>1. strategy.symbol = "main"
        BY <3>1, StrategiesAre
      <4>2. Cardinality(1..ts) = ts
        BY <3>1, FS_Interval
      <4> QED BY <3>3, <4>1, <4>2 DEF Dates
    <3>7. Continues(PositionOn(data'), Dates(data', strategy), PositionOn(data), ts)
      BY <3>2, <3>5, <3>6, BacktestSeesNoFuture DEF PositionOn
    <3> QED BY <3>7, FirstPart
  <2> QED BY <2>1, <2>2 DEF Next, Tick, AtBound
<1> QED BY <1>1, MarketRuns, PTL DEF Spec, NoLookAhead

-----------------------------------------------------------------------------
(* The search and the walk-forward test.                                   *)

\* The search's own path to the Sharpe ratio, through its cache of readings, ends
\* at the number the report shows.
LEMMA ObjectiveIsReported ==
    ASSUME NEW fr, NEW st, NEW windows, NEW signals, NEW cost, NEW min_obs,
           NEW J \in Nat, IsColumn(st.subs, J)
    PROVE  Objective(fr, st, windows, signals, cost, min_obs)
             = Reported(fr, st, windows, signals, cost, min_obs).strategy.sharpe
<1> DEFINE reading(j, w) == indicator_of(fr, st, st.subs[j], w)
           cache == [j \in DOMAIN st.subs |-> [w \in {windows[j]} |-> reading(j, w)]]
           a == [j \in 1..J |-> cache[j][windows[j]]]
           b == [j \in 1..J |-> reading(j, windows[j])]
           score(cols) == sharpe_ratio(_metric_col(strategy_pnl(PositionFrom(st, cols, signals),
                                                                chg(fr[st.symbol]), cost), windows), min_obs)
<1>1. Len(st.subs) = J /\ DOMAIN st.subs = 1..J
  BY DEF IsColumn
<1>2. Objective(fr, st, windows, signals, cost, min_obs) = score(<<>> \o a)
  BY <1>1, Zenon DEF Objective, Column
<1>3. Reported(fr, st, windows, signals, cost, min_obs).strategy.sharpe = score(<<>> \o b)
  <2> DEFINE pos == FinalPosition(fr, st, windows, signals)
             pnl == strategy_pnl(pos, chg(fr[st.symbol]), cost)
  <2>1. FinalPosition(fr, st, windows, signals) = PositionFrom(st, <<>> \o b, signals)
    BY <1>1, Zenon DEF FinalPosition, Column
  <2>2. Reported(fr, st, windows, signals, cost, min_obs).strategy.sharpe
          = sharpe_ratio(_metric_col(pnl, windows), min_obs)
    BY DEF Reported, enrich_performance, MetricsOfBoth, metrics_of
  <2> QED BY <2>1, <2>2
<1>4. a = b
  <2> HIDE DEF reading
  <2> QED BY <1>1
<1> QED BY <1>2, <1>3, <1>4

LEMMA TrialsAreInSpace ==
    ASSUME NEW space, NEW max_trials, NEW t \in TrialSets(space, max_trials)
    PROVE  t \in SUBSET SearchSpace(space)
<1> DEFINE all == SearchSpace(space)
<1> HIDE DEF all
<1> QED BY DEF TrialSets, all

\* What the search returns as best is what the reports would call best, for every
\* strategy, every series and every set of trials (Objective, _build_result).
THEOREM SearchFindsReportedBest ==
    ASSUME NEW fr, NEW st, NEW t, NEW cost, NEW min_obs,
           NEW J \in Nat, IsColumn(st.subs, J), Computable(fr, st),
           NEW sharpe, \A c \in t : sharpe[c] = Reported(fr, st, c.windows, c.signals, cost, min_obs).strategy.sharpe
    PROVE  Search(fr, st, t, cost, min_obs).best
             = {c \in t : ~IsNaN(sharpe[c]) /\ \A q \in t : ~IsNaN(sharpe[q]) => ~Gt(sharpe[q], sharpe[c])}
<1> DEFINE score(c) == IF Computable(fr, st) THEN Objective(fr, st, c.windows, c.signals, cost, min_obs) ELSE NaN
           rows == [c \in t |-> score(c)]
<1>1. Search(fr, st, t, cost, min_obs) = _build_result(rows)
  BY DEF Search
<1>2. \A c \in t : rows[c] = sharpe[c]
  BY ObjectiveIsReported
<1>3. DOMAIN rows = t
  OBVIOUS
<1> HIDE DEF rows
<1>4. _build_result(rows).best = {c \in {r \in t : ~IsNaN(rows[r])} :
                                    \A q \in {r \in t : ~IsNaN(rows[r])} : ~Gt(rows[q], rows[c])}
  BY <1>3 DEF _build_result
<1> QED BY <1>1, <1>2, <1>4

\* The search agrees with the reports on whatever the market prints.
THEOREM BestIsAlwaysReportedBest == Spec => []BestIsReportedBest
<1>1. MarketInv => BestIsReportedBest
  <2> SUFFICES ASSUME MarketInv, part = "market", Computable(data, strategy) PROVE BestIsReportedBest
    BY DEF BestIsReportedBest
  <2>1. PICK J \in Nat \ {0} : IsColumn(strategy.subs, J)
    BY StrategiesAre DEF MarketInv, IsStrategy
  <2> DEFINE report(c) == Reported(data, strategy, c.windows, c.signals, Cost, MinObs).strategy.sharpe
             space == SearchSpace(space_of(strategy))
             sharpe == [c \in space |-> report(c)]
  <2>2. ASSUME NEW t \in SUBSET space
        PROVE  Search(data, strategy, t, Cost, MinObs).best
                 = {c \in t : ~IsNaN(sharpe[c]) /\ \A q \in t : ~IsNaN(sharpe[q]) => ~Gt(sharpe[q], sharpe[c])}
    <3> HIDE DEF space
    <3>1. \A c \in t : sharpe[c] = report(c)
      OBVIOUS
    <3> HIDE DEF sharpe
    <3> QED BY <2>1, <3>1, SearchFindsReportedBest
  <2>3. \A t \in TrialSets(space_of(strategy), 1) \cup TrialSets(space_of(strategy), 4) : t \in SUBSET space
    BY TrialsAreInSpace
  <2> HIDE DEF report
  <2>4. Agreed(sharpe)
    <3> HIDE DEF sharpe, space
    <3> QED BY <2>2, <2>3 DEF Agreed
  <2> QED BY <2>4 DEF BestIsReportedBest, report
<1> QED BY <1>1, MarketRuns, PTL

\* The bars of fr on the dates of its first k rows are those of alt, and the two
\* have bars on the same dates.
SameBefore(fr, alt, k, st) ==
    /\ DOMAIN alt = DOMAIN fr /\ \A s \in DOMAIN fr : IsFrame(fr[s]) /\ DOMAIN alt[s] = DOMAIN fr[s]
    /\ {st.symbol} \cup {st.subs[j].symbol : j \in DOMAIN st.subs} \in SUBSET DOMAIN fr
    /\ \A i \in 1..Dates(fr, st), s \in DOMAIN fr :
         LET d == Index(fr[st.symbol])[i]
         IN  i <= k /\ d \in DOMAIN fr[s] => alt[s][d] = fr[s][d]

\* Frames that agree on the dates of the traded product, whatever another frame
\* holds on other dates.
SameRows(a, b, st) ==
    /\ b[st.symbol] = a[st.symbol] /\ IsFrame(a[st.symbol])
    /\ \A j \in DOMAIN st.subs :
         LET s == st.subs[j].symbol
         IN  /\ DOMAIN b[s] = DOMAIN a[s]
             /\ \A d \in DOMAIN a[st.symbol] : d \in DOMAIN a[s] => b[s][d] = a[s][d]

\* They have the same positions ...
LEMMA SamePositions ==
    ASSUME NEW a, NEW b, NEW st, SameRows(a, b, st), NEW J \in Nat, IsColumn(st.subs, J),
           NEW windows, NEW signals
    PROVE  FinalPosition(b, st, windows, signals) = FinalPosition(a, st, windows, signals)
<1>1. Len(st.subs) = J /\ DOMAIN st.subs = 1..J
  BY DEF IsColumn
<1>2. PICK main : main = a[st.symbol]
  OBVIOUS
<1>3. b[st.symbol] = main /\ a[st.symbol] = main
  BY <1>2 DEF SameRows
<1>4. /\ IsColumn(Index(main), Cardinality(DOMAIN main))
      /\ \A i \in 1..Cardinality(DOMAIN main) : Index(main)[i] \in DOMAIN main
  BY <1>3, IndexLists DEF SameRows
<1>5. ASSUME NEW j \in 1..J PROVE factor(b, st, st.subs[j]) = factor(a, st, st.subs[j])
  <2> DEFINE x == st.subs[j].symbol
             n == Len(Index(main))
             close(fr, d) == IF d \in DOMAIN fr[x] THEN Num(fr[x][d].close) ELSE NaN
             f == [i \in 1..n |-> close(a, Index(main)[i])]
             g == [i \in 1..n |-> close(b, Index(main)[i])]
  <2>1. factor(a, st, st.subs[j]) = <<>> \o f
    BY <1>3, Zenon DEF factor, Column
  <2>2. factor(b, st, st.subs[j]) = <<>> \o g
    BY <1>3, Zenon DEF factor, Column
  <2>3. /\ DOMAIN b[x] = DOMAIN a[x]
        /\ \A d \in DOMAIN main : d \in DOMAIN a[x] => b[x][d] = a[x][d]
    BY <1>1, <1>3 DEF SameRows
  <2>4. \A d \in DOMAIN main : close(b, d) = close(a, d)
    BY <2>3
  <2>5. \A i \in 1..n : Index(main)[i] \in DOMAIN main
    BY <1>4 DEF IsColumn
  <2> HIDE DEF close, n
  <2>6. f = g
    BY <2>4, <2>5
  <2> QED BY <2>1, <2>2, <2>6
<1> DEFINE reading(fr, j) == indicator_of(fr, st, st.subs[j], windows[j])
           cs == [j \in 1..J |-> reading(a, j)]
           ds == [j \in 1..J |-> reading(b, j)]
<1>6. \A j \in 1..J : reading(b, j) = reading(a, j)
  BY <1>3, <1>5 DEF indicator_of
<1>7. FinalPosition(a, st, windows, signals) = PositionFrom(st, <<>> \o cs, signals)
  BY <1>1, Zenon DEF FinalPosition, Column
<1>8. FinalPosition(b, st, windows, signals) = PositionFrom(st, <<>> \o ds, signals)
  BY <1>1, Zenon DEF FinalPosition, Column
<1> HIDE DEF reading
<1>9. cs = ds
  BY <1>6
<1> QED BY <1>7, <1>8, <1>9

\* ... and the same search and reports.
LEMMA SameFit ==
    ASSUME NEW a, NEW b, NEW st, SameRows(a, b, st), NEW J \in Nat, IsColumn(st.subs, J),
           NEW cost, NEW min_obs, NEW t
    PROVE  /\ Computable(b, st) <=> Computable(a, st)
           /\ Search(b, st, t, cost, min_obs) = Search(a, st, t, cost, min_obs)
           /\ \A c : Reported(b, st, c.windows, c.signals, cost, min_obs)
                    = Reported(a, st, c.windows, c.signals, cost, min_obs)
<1>1. Computable(b, st) <=> Computable(a, st)
  BY DEF Computable, _require_coverage, SameRows
<1>2. ASSUME NEW c PROVE Reported(b, st, c.windows, c.signals, cost, min_obs)
                           = Reported(a, st, c.windows, c.signals, cost, min_obs)
  <2>1. FinalPosition(b, st, c.windows, c.signals) = FinalPosition(a, st, c.windows, c.signals)
    BY SamePositions
  <2>2. b[st.symbol] = a[st.symbol]
    BY DEF SameRows
  <2> QED BY <2>1, <2>2 DEF Reported
<1> DEFINE score(fr, c) == IF Computable(fr, st) THEN Objective(fr, st, c.windows, c.signals, cost, min_obs) ELSE NaN
<1>3. \A c : score(b, c) = score(a, c)
  BY <1>1, <1>2, ObjectiveIsReported
<1>4. /\ Search(a, st, t, cost, min_obs) = _build_result([c \in t |-> score(a, c)])
      /\ Search(b, st, t, cost, min_obs) = _build_result([c \in t |-> score(b, c)])
  BY DEF Search
<1> HIDE DEF score
<1>5. [c \in t |-> score(b, c)] = [c \in t |-> score(a, c)]
  BY <1>3
<1> QED BY <1>1, <1>2, <1>4, <1>5

\* The index of a frame is a matter of its dates.
LEMMA SameIndex == ASSUME NEW f, NEW g, DOMAIN f = DOMAIN g PROVE Index(f) = Index(g)
BY DEF Index

\* What the fit is given does not differ in any row the fit can read, ...
LEMMA InSampleAgrees ==
    ASSUME NEW fr, NEW alt, NEW st, NEW k, SameBefore(fr, alt, k, st)
    PROVE  SameRows(in_sample(fr, k), in_sample(alt, k), st)
<1> DEFINE rows(s) == {Index(fr[s])[i] : i \in {m \in DOMAIN Index(fr[s]) : m <= k}}
           a == in_sample(fr, k)
           b == in_sample(alt, k)
           main == st.symbol
<1>1. /\ DOMAIN alt = DOMAIN fr
      /\ \A s \in DOMAIN fr : IsFrame(fr[s]) /\ DOMAIN alt[s] = DOMAIN fr[s]
      /\ main \in DOMAIN fr
      /\ \A j \in DOMAIN st.subs : st.subs[j].symbol \in DOMAIN fr
  BY DEF SameBefore
<1>2. ASSUME NEW s \in DOMAIN fr
      PROVE  a[s] = [d \in rows(s) |-> fr[s][d]] /\ b[s] = [d \in rows(s) |-> alt[s][d]]
  <2>1. Index(alt[s]) = Index(fr[s])
    BY <1>1, SameIndex
  <2> QED BY <1>1, <2>1 DEF in_sample
<1>3. ASSUME NEW s \in DOMAIN fr
      PROVE  /\ rows(s) \in SUBSET DOMAIN fr[s]
             /\ \A d \in rows(s) : \E i \in 1..Cardinality(DOMAIN fr[s]) : i <= k /\ d = Index(fr[s])[i]
  <2>1. PICK frame : frame = fr[s]
    OBVIOUS
  <2>2. /\ DOMAIN Index(frame) = 1..Cardinality(DOMAIN frame)
        /\ \A i \in 1..Cardinality(DOMAIN frame) : Index(frame)[i] \in DOMAIN frame
    BY <1>1, <2>1, IndexLists DEF IsColumn
  <2> QED BY <2>1, <2>2
<1>4. ASSUME NEW d \in rows(main), NEW s \in DOMAIN fr, d \in DOMAIN fr[s]
      PROVE  alt[s][d] = fr[s][d]
  <2>1. PICK i \in 1..Dates(fr, st) : i <= k /\ d = Index(fr[main])[i]
    BY <1>1, <1>3 DEF Dates
  <2> QED BY <1>4, <2>1 DEF SameBefore
<1> HIDE DEF a, b, rows
<1>5. a[main] = b[main] /\ DOMAIN a[main] = rows(main)
  <2>1. PICK f, g : f = fr[main] /\ g = alt[main]
    OBVIOUS
  <2>2. a[main] = [d \in rows(main) |-> f[d]] /\ b[main] = [d \in rows(main) |-> g[d]]
    BY <1>1, <1>2, <2>1
  <2>3. \A d \in rows(main) : f[d] = g[d]
    BY <1>1, <1>3, <1>4, <2>1
  <2> QED BY <2>2, <2>3
<1>6. IsFrame(a[main])
  <2>1. rows(main) \in SUBSET DOMAIN fr[main] /\ IsFrame(fr[main])
    BY <1>1, <1>3
  <2> QED BY <1>5, <2>1, FS_Subset DEF IsFrame
<1>7. ASSUME NEW j \in DOMAIN st.subs, NEW s, s = st.subs[j].symbol
      PROVE  DOMAIN b[s] = DOMAIN a[s] /\ \A d \in DOMAIN a[main] : d \in DOMAIN a[s] => b[s][d] = a[s][d]
  <2>1. s \in DOMAIN fr
    BY <1>1, <1>7
  <2>2. PICK f, g : f = fr[s] /\ g = alt[s]
    OBVIOUS
  <2>3. a[s] = [d \in rows(s) |-> f[d]] /\ b[s] = [d \in rows(s) |-> g[d]]
    BY <1>2, <2>1, <2>2
  <2>4. DOMAIN a[s] = rows(s) /\ DOMAIN b[s] = rows(s)
    BY <2>3
  <2>5. ASSUME NEW d \in rows(main), d \in rows(s) PROVE b[s][d] = a[s][d]
    <3>1. d \in DOMAIN f
      BY <1>3, <2>1, <2>2, <2>5
    <3>2. g[d] = f[d]
      BY <1>4, <2>1, <2>2, <3>1
    <3> QED BY <2>3, <2>5, <3>2
  <2> QED BY <1>5, <2>4, <2>5
<1> QED BY <1>5, <1>6, <1>7 DEF SameRows, a, b

\* ... and what is held out has bars on the same dates.
LEMMA OutOfSampleAgrees ==
    ASSUME NEW fr, NEW alt, NEW st, NEW k, SameBefore(fr, alt, k, st)
    PROVE  Computable(out_of_sample(alt, k), st) <=> Computable(out_of_sample(fr, k), st)
<1> DEFINE a == out_of_sample(fr, k)
           b == out_of_sample(alt, k)
<1>1. /\ DOMAIN alt = DOMAIN fr
      /\ \A s \in DOMAIN fr : DOMAIN alt[s] = DOMAIN fr[s]
      /\ st.symbol \in DOMAIN fr
      /\ \A j \in DOMAIN st.subs : st.subs[j].symbol \in DOMAIN fr
  BY DEF SameBefore
<1>2. ASSUME NEW s \in DOMAIN fr PROVE DOMAIN b[s] = DOMAIN a[s]
  <2>1. Index(alt[s]) = Index(fr[s])
    BY <1>1, SameIndex
  <2> QED BY <1>1, <2>1 DEF out_of_sample
<1> HIDE DEF a, b
<1>3. Computable(b, st) <=> Computable(a, st)
  BY <1>1, <1>2 DEF Computable, _require_coverage
<1> QED BY <1>3 DEF a, b

\* The bars held out do not reach the fit (walk_forward.py): two series that differ
\* only in bars the first part's dates do not reach run or refuse alike, choose the
\* same parameters and report the same in-sample metrics, for every strategy, split,
\* search space and pattern of gaps.
THEOREM FitSeesNoHeldOutBar ==
    ASSUME NEW fr, NEW alt, NEW st, NEW J \in Nat, IsColumn(st.subs, J),
           NEW space, NEW num, NEW den, NEW cost, NEW min_obs,
           SameBefore(fr, alt, split_idx(fr, st, num, den), st)
    PROVE  /\ WalkForwardRuns(alt, st, space, num, den, cost, min_obs)
                <=> WalkForwardRuns(fr, st, space, num, den, cost, min_obs)
           /\ {[best |-> r.best, is |-> r.is] : r \in walk_forward(alt, st, space, num, den, cost, min_obs)}
                = {[best |-> r.best, is |-> r.is] : r \in walk_forward(fr, st, space, num, den, cost, min_obs)}
<1> DEFINE k == split_idx(fr, st, num, den)
           a == in_sample(fr, k)
           b == in_sample(alt, k)
           fit(part_of) == ExhaustiveSearch(part_of, st, space, cost, min_obs)
           measure(part_of, c) == Reported(part_of, st, c.windows, c.signals, cost, min_obs)
<1>1. split_idx(alt, st, num, den) = k /\ (Splittable(alt, st, num, den) <=> Splittable(fr, st, num, den))
  <2>1. DOMAIN alt[st.symbol] = DOMAIN fr[st.symbol]
    BY DEF SameBefore
  <2> QED BY <2>1 DEF split_idx, Splittable
<1>2. SameRows(a, b, st)
  BY InSampleAgrees
<1>3. Computable(out_of_sample(alt, k), st) <=> Computable(out_of_sample(fr, k), st)
  BY OutOfSampleAgrees
<1> HIDE DEF a, b, k
<1>4. /\ Computable(b, st) <=> Computable(a, st)
      /\ fit(b) = fit(a) /\ \A c : measure(b, c) = measure(a, c)
  BY <1>2, SameFit DEF ExhaustiveSearch
<1>5. WalkForwardRuns(alt, st, space, num, den, cost, min_obs)
        <=> WalkForwardRuns(fr, st, space, num, den, cost, min_obs)
  BY <1>1, <1>3, <1>4 DEF WalkForwardRuns, a, b, k
<1>6. walk_forward(fr, st, space, num, den, cost, min_obs) =
        {[best |-> c, is |-> measure(a, c), oos |-> measure(out_of_sample(fr, k), c)] : c \in fit(a).best}
  BY DEF walk_forward, a, k
<1>7. walk_forward(alt, st, space, num, den, cost, min_obs) =
        {[best |-> c, is |-> measure(b, c), oos |-> measure(out_of_sample(alt, k), c)] : c \in fit(b).best}
  BY <1>1 DEF walk_forward, b
<1> HIDE DEF fit, measure
<1>8. /\ {[best |-> r.best, is |-> r.is] : r \in walk_forward(fr, st, space, num, den, cost, min_obs)}
           = {[best |-> c, is |-> measure(a, c)] : c \in fit(a).best}
      /\ {[best |-> r.best, is |-> r.is] : r \in walk_forward(alt, st, space, num, den, cost, min_obs)}
           = {[best |-> c, is |-> measure(b, c)] : c \in fit(b).best}
  <2>1. PICK V, W : /\ V = walk_forward(fr, st, space, num, den, cost, min_obs)
                    /\ W = walk_forward(alt, st, space, num, den, cost, min_obs)
    OBVIOUS
  <2>2. {[best |-> r.best, is |-> r.is] : r \in V} = {[best |-> c, is |-> measure(a, c)] : c \in fit(a).best}
    <3>1. \A r \in V : \E c \in fit(a).best : r.best = c /\ r.is = measure(a, c)
      BY <1>6, <2>1
    <3>2. ASSUME NEW c \in fit(a).best PROVE \E r \in V : r.best = c /\ r.is = measure(a, c)
      <4>1. PICK r : r = [best |-> c, is |-> measure(a, c), oos |-> measure(out_of_sample(fr, k), c)]
        OBVIOUS
      <4>2. r \in V
        BY <1>6, <2>1, <4>1
      <4> QED BY <4>1, <4>2
    <3> QED BY <3>1, <3>2
  <2>3. {[best |-> r.best, is |-> r.is] : r \in W} = {[best |-> c, is |-> measure(b, c)] : c \in fit(b).best}
    <3>1. \A r \in W : \E c \in fit(b).best : r.best = c /\ r.is = measure(b, c)
      BY <1>7, <2>1
    <3>2. ASSUME NEW c \in fit(b).best PROVE \E r \in W : r.best = c /\ r.is = measure(b, c)
      <4>1. PICK r : r = [best |-> c, is |-> measure(b, c), oos |-> measure(out_of_sample(alt, k), c)]
        OBVIOUS
      <4>2. r \in W
        BY <1>7, <2>1, <4>1
      <4> QED BY <4>1, <4>2
    <3> QED BY <3>1, <3>2
  <2> QED BY <2>1, <2>2, <2>3
<1>9. {[best |-> c, is |-> measure(b, c)] : c \in fit(b).best} = {[best |-> c, is |-> measure(a, c)] : c \in fit(a).best}
  BY <1>4
<1> QED BY <1>5, <1>8, <1>9

\* Of the dates 1..n the one of rank i is i.
LEMMA IndexOfInterval ==
    ASSUME NEW frame, NEW n \in Nat, DOMAIN frame = 1..n, NEW i \in 1..n
    PROVE  Index(frame)[i] = i
<1>1. IsFiniteSet(1..n) /\ Cardinality(1..n) = n
  BY FS_Interval
<1>2. IsFrame(frame)
  BY <1>1 DEF IsFrame
<1>3. Index(frame)[i] \in 1..n /\ Rank(1..n, Index(frame)[i]) = i
  BY <1>1, <1>2, IndexLists
<1>4. PICK d \in 1..n : d = Index(frame)[i]
  BY <1>3
<1>5. {e \in 1..n : e <= d} = 1..d
  OBVIOUS
<1>6. Cardinality(1..d) = d
  BY FS_Interval
<1> QED BY <1>3, <1>4, <1>5, <1>6 DEF Rank

\* Bars replaced after the split leave the fit of any market as it was.
THEOREM HoldOutAlwaysUnseen == Spec => []HoldOutUnseen
<1>1. MarketInv => HoldOutUnseen
  <2> SUFFICES ASSUME MarketInv, part = "market" PROVE HoldOutUnseen
    BY DEF HoldOutUnseen
  <2> DEFINE k == split_idx(data, strategy, 3, 5)
             alt == [s \in DOMAIN data |->
                      [d \in DOMAIN data[s] |-> IF d > k THEN Bar(1) ELSE data[s][d]]]
             runs(d) == WalkForwardRuns(d, strategy, space_of(strategy), 3, 5, Cost, MinObs)
             best(d) == {[best |-> r.best, is |-> r.is] :
                           r \in walk_forward(d, strategy, space_of(strategy), 3, 5, Cost, MinObs)}
             fit(d) == IF runs(d) THEN best(d) ELSE {}
  <2>1. /\ ts \in Nat /\ strategy \in Strategies /\ DOMAIN data = {"main", "other"}
        /\ DOMAIN data["main"] = 1..ts /\ DOMAIN data["other"] \in SUBSET (1..ts)
    BY DEF MarketInv
  <2>2. PICK J \in Nat \ {0} : IsColumn(strategy.subs, J)
    BY <2>1, StrategiesAre DEF IsStrategy
  <2>3. /\ strategy.symbol = "main"
        /\ {strategy.symbol} \cup {strategy.subs[j].symbol : j \in DOMAIN strategy.subs} \in SUBSET {"main", "other"}
    BY <2>1, StrategiesAre
  <2>4. IsFiniteSet(1..ts) /\ Cardinality(1..ts) = ts
    BY <2>1, FS_Interval
  <2>5. \A s \in DOMAIN data : IsFrame(data[s])
    BY <2>1, <2>4, FS_Subset DEF IsFrame
  <2>6. Dates(data, strategy) = ts
    BY <2>1, <2>3, <2>4 DEF Dates
  <2>7. k \in Int
    <3>1. k = (ts * 3) \div 5
      BY <2>1, <2>3, <2>4 DEF split_idx
    <3> QED BY <2>1, <3>1
  <2>8. \A i \in 1..ts : Index(data["main"])[i] = i
    <3>1. PICK frame : frame = data["main"]
      OBVIOUS
    <3>2. \A i \in 1..ts : Index(frame)[i] = i
      BY <2>1, <3>1, IndexOfInterval
    <3> QED BY <3>1, <3>2
  <2>9. SameBefore(data, alt, k, strategy)
    <3> HIDE DEF k
    <3>1. DOMAIN alt = DOMAIN data /\ \A s \in DOMAIN data : DOMAIN alt[s] = DOMAIN data[s]
      OBVIOUS
    <3>2. ASSUME NEW i \in 1..ts, NEW s \in DOMAIN data, i <= k, i \in DOMAIN data[s]
          PROVE  alt[s][i] = data[s][i]
      <4>1. ~(i > k)
        BY <2>1, <2>7, <3>2
      <4> QED BY <3>2, <4>1
    <3> HIDE DEF alt
    <3>3. {strategy.symbol} \cup {strategy.subs[j].symbol : j \in DOMAIN strategy.subs} \in SUBSET DOMAIN data
      BY <2>1, <2>3, Zenon
    <3>4. \A s \in DOMAIN data : IsFrame(data[s]) /\ DOMAIN alt[s] = DOMAIN data[s]
      BY <2>5, <3>1
    <3>5. ASSUME NEW i \in 1..ts, NEW s \in DOMAIN data, NEW d, d = Index(data[strategy.symbol])[i],
                 i <= k, d \in DOMAIN data[s]
          PROVE  alt[s][d] = data[s][d]
      <4>1. d = i
        BY <2>3, <2>8, <3>5
      <4> QED BY <3>2, <3>5, <4>1
    <3> QED BY <2>6, <3>1, <3>3, <3>4, <3>5 DEF SameBefore
  <2> HIDE DEF alt
  <2>10. (runs(alt) <=> runs(data)) /\ best(alt) = best(data)
    BY <2>2, <2>9, FitSeesNoHeldOutBar
  <2> HIDE DEF runs, best
  <2>11. fit(alt) = fit(data)
    BY <2>10
  <2> QED BY <2>11 DEF HoldOutUnseen, alt, runs, best
<1> QED BY <1>1, MarketRuns, PTL

-----------------------------------------------------------------------------
(* Fractions.                                                              *)

\* h divides a.
Divides(h, a) == \E x \in Int : a = x * h
Greatest(h, m, n) ==
    /\ h \in Nat \ {0} /\ Divides(h, m) /\ Divides(h, n)
    /\ \A e \in Nat \ {0} : Divides(e, m) /\ Divides(e, n) => e <= h

LEMMA DividesNoLarger == ASSUME NEW h \in Nat \ {0}, NEW a \in Nat \ {0}, Divides(h, a) PROVE h <= a
<1>1. PICK x \in Int : a = x * h
  BY DEF Divides
<1>2. x >= 1
  <2>1. CASE x <= 0
    <3>1. x * h <= 0
      BY <2>1
    <3> QED BY <1>1, <3>1
  <2> QED BY <2>1
<1>3. x * h >= h
  BY <1>2
<1> QED BY <1>1, <1>3

LEMMA GreatestExists == ASSUME NEW m \in Nat, NEW n \in Nat \ {0} PROVE \E h : Greatest(h, m, n)
<1> DEFINE D == {h \in 1..n : Divides(h, m) /\ Divides(h, n)}
<1>1. 1 \in D
  <2>1. Divides(1, m) /\ Divides(1, n)
    BY DEF Divides
  <2> QED BY <2>1
<1>2. D \in SUBSET Int /\ IsFiniteSet(D)
  <2>1. IsFiniteSet(1..n) /\ D \in SUBSET (1..n) /\ D \in SUBSET Int
    BY FS_Interval
  <2> HIDE DEF D
  <2> QED BY <2>1, FS_Subset
<1>3. PICK h \in D : \A e \in D : e <= h
  BY <1>1, <1>2, LatestExists
<1>4. ASSUME NEW e \in Nat \ {0}, Divides(e, m), Divides(e, n) PROVE e <= h
  <2>1. e \in 1..n
    BY <1>4, DividesNoLarger
  <2> QED BY <1>3, <1>4, <2>1
<1> QED BY <1>3, <1>4 DEF Greatest

\* What divides the divisor divides the dividend when it divides the remainder, and
\* the other way round.
LEMMA DividesRemainder ==
    ASSUME NEW h \in Nat \ {0}, NEW n \in Nat \ {0}, NEW q \in Int, NEW r \in Int, NEW m \in Int, m = q * n + r,
           Divides(h, n)
    PROVE  Divides(h, m) <=> Divides(h, r)
<1>1. PICK x \in Int : n = x * h
  BY DEF Divides
<1>2. q * n = (q * x) * h /\ q * x \in Int
  BY <1>1
<1>3. ASSUME Divides(h, m) PROVE Divides(h, r)
  <2>1. PICK y \in Int : m = y * h
    BY <1>3 DEF Divides
  <2>2. PICK k \in Int : k = q * x
    BY <1>2
  <2>3. r = y * h - k * h
    BY <1>2, <2>1, <2>2
  <2>4. r = (y - k) * h /\ y - k \in Int
    BY <2>3
  <2> QED BY <2>4 DEF Divides
<1>4. ASSUME Divides(h, r) PROVE Divides(h, m)
  <2>1. PICK y \in Int : r = y * h
    BY <1>4 DEF Divides
  <2>2. PICK k \in Int : k = q * x
    BY <1>2
  <2>3. m = k * h + y * h
    BY <1>2, <2>1, <2>2
  <2>4. m = (k + y) * h /\ k + y \in Int
    BY <2>3
  <2> QED BY <2>4 DEF Divides
<1> QED BY <1>3, <1>4

\* Euclid's step.
LEMMA GreatestOfRemainder ==
    ASSUME NEW m \in Nat, NEW n \in Nat \ {0}, NEW h
    PROVE  /\ m % n = 0 => (Greatest(h, m, n) <=> h = n)
           /\ m % n # 0 => (Greatest(h, m, n) <=> Greatest(h, n, m % n))
           /\ m % n \in 0..(n - 1)
<1>1. m % n \in 0..(n - 1) /\ m \div n \in Int /\ m = (m \div n) * n + (m % n)
  <2>1. m % n \in 0..(n - 1)
    OBVIOUS
  <2>2. m \div n \in Int
    OBVIOUS
  <2>3. m = n * (m \div n) + (m % n)
    OBVIOUS
  <2> QED BY <2>1, <2>2, <2>3
<1>2. PICK q \in Int, r \in Int : m = q * n + r /\ r = m % n
  BY <1>1
<1>3. \A e \in Nat \ {0} : Divides(e, n) => (Divides(e, m) <=> Divides(e, r))
  BY <1>2, DividesRemainder
<1>4. ASSUME r = 0 PROVE Greatest(h, m, n) <=> h = n
  <2>1. Divides(n, n) /\ Divides(n, m)
    <3>1. n = 1 * n /\ m = q * n
      BY <1>2, <1>4
    <3> QED BY <3>1 DEF Divides
  <2>2. \A e \in Nat \ {0} : Divides(e, n) => e <= n
    BY DividesNoLarger
  <2> QED BY <2>1, <2>2 DEF Greatest
<1>5. Greatest(h, m, n) <=> Greatest(h, n, r)
  BY <1>3 DEF Greatest
<1> QED BY <1>1, <1>2, <1>4, <1>5

LEMMA GcdIsGreatest == ASSUME NEW m \in Nat, NEW n \in Nat \ {0} PROVE Greatest(Gcd(m, n), m, n)
<1> DEFINE F(g) == [p \in Nat \X Nat |-> IF p[2] = 0 THEN p[1] ELSE g[<<p[2], p[1] % p[2]>>]]
           it == CHOOSE g : g = F(g)
           f == [p \in Nat \X Nat |-> IF p[2] = 0 THEN p[1] ELSE CHOOSE h : Greatest(h, p[1], p[2])]
<1>1. Gcd(m, n) = it[<<m, n>>]
  BY Zenon DEF Gcd
<1>2. ASSUME NEW a \in Nat, NEW b \in Nat \ {0}
      PROVE  f[<<a, b>>] = f[<<b, a % b>>] /\ Greatest(f[<<a, b>>], a, b) /\ a % b \in Nat /\ a % b < b
  <2>1. /\ a % b = 0 => \A h : Greatest(h, a, b) <=> h = b
        /\ a % b # 0 => \A h : Greatest(h, a, b) <=> Greatest(h, b, a % b)
        /\ a % b \in 0..(b - 1)
    BY GreatestOfRemainder
  <2>2. f[<<a, b>>] = CHOOSE h : Greatest(h, a, b)
    OBVIOUS
  <2>3. PICK r \in Nat : r = a % b
    BY <2>1
  <2>4. f[<<b, r>>] = IF r = 0 THEN b ELSE CHOOSE h : Greatest(h, b, r)
    <3>1. CASE r = 0
      BY <3>1
    <3>2. CASE r # 0
      <4>1. f[<<b, r>>] = CHOOSE h : Greatest(h, b, r)
        BY <3>2
      <4> QED BY <3>2, <4>1
    <3> QED BY <3>1, <3>2
  <2>5. \E h : Greatest(h, a, b)
    BY GreatestExists
  <2>6. Greatest(f[<<a, b>>], a, b)
    BY <2>2, <2>5
  <2> HIDE DEF f
  <2>7. CASE r = 0
    <3>1. f[<<a, b>>] = b
      BY <2>1, <2>3, <2>6, <2>7
    <3> QED BY <2>1, <2>3, <2>4, <2>6, <2>7, <3>1
  <2>8. CASE r # 0
    <3>1. \A h : Greatest(h, a, b) <=> Greatest(h, b, r)
      BY <2>1, <2>3, <2>8
    <3>2. (CHOOSE h : Greatest(h, a, b)) = (CHOOSE h : Greatest(h, b, r))
      BY <3>1
    <3> QED BY <2>1, <2>2, <2>3, <2>4, <2>6, <2>8, <3>2
  <2> QED BY <2>7, <2>8
<1>3. f = F(f)
  <2>1. ASSUME NEW p \in Nat \X Nat PROVE f[p] = IF p[2] = 0 THEN p[1] ELSE f[<<p[2], p[1] % p[2]>>]
    <3>1. PICK a \in Nat, b \in Nat : p = <<a, b>>
      OBVIOUS
    <3>2. b # 0 => f[<<a, b>>] = f[<<b, a % b>>]
      BY <1>2
    <3>3. b = 0 => f[<<a, b>>] = a
      OBVIOUS
    <3> HIDE DEF f
    <3> QED BY <3>1, <3>2, <3>3
  <2>2. f = [p \in Nat \X Nat |-> f[p]]
    OBVIOUS
  <2> HIDE DEF f
  <2> QED BY <2>1, <2>2
<1> HIDE DEF F, f
<1>4. it = F(it)
  BY <1>3
<1> HIDE DEF it
<1>5. \A a, b \in Nat : it[<<a, b>>] = IF b = 0 THEN a ELSE it[<<b, a % b>>]
  BY <1>4 DEF F
<1> DEFINE T == {b \in Nat : \E a \in Nat : b # 0 /\ it[<<a, b>>] # f[<<a, b>>]}
<1>6. \A a \in Nat : it[<<a, 0>>] = a /\ f[<<a, 0>>] = a
  BY <1>5 DEF f
<1>7. ASSUME T # {} PROVE FALSE
  <2>1. PICK b \in T : \A c \in T : b <= c
    BY <1>7, MinOfNats
  <2>2. PICK a \in Nat : b # 0 /\ it[<<a, b>>] # f[<<a, b>>]
    BY <2>1
  <2>3. a % b \in Nat /\ a % b < b /\ f[<<a, b>>] = f[<<b, a % b>>]
    BY <1>2, <2>2
  <2>4. it[<<a, b>>] = it[<<b, a % b>>]
    BY <1>5, <2>2
  <2>5. it[<<b, a % b>>] = f[<<b, a % b>>]
    <3>1. CASE a % b = 0
      BY <1>6, <3>1
    <3>2. CASE a % b # 0
      <4>1. a % b \notin T
        BY <2>1, <2>3
      <4> QED BY <2>3, <3>2, <4>1
    <3> QED BY <3>1, <3>2
  <2> QED BY <2>2, <2>3, <2>4, <2>5
<1>8. it[<<m, n>>] = f[<<m, n>>]
  BY <1>7
<1> QED BY <1>1, <1>2, <1>8

\* Nothing but one divides both parts of a fraction in lowest terms.
Lowest(p, q) == \A e \in Nat \ {0} : Divides(e, p) /\ Divides(e, q) => e = 1

LEMMA QuotientOfMultiple ==
    ASSUME NEW p \in Int, NEW g \in Nat \ {0} PROVE (p * g) \div g = p
<1>1. PICK n \in Int : n = p * g
  OBVIOUS
<1>2. PICK k \in Int, r \in 0..(g - 1) : n = g * k + r /\ k = n \div g
  <2>1. n \div g \in Int /\ n % g \in 0..(g - 1) /\ n = g * (n \div g) + (n % g)
    BY <1>1
  <2> QED BY <2>1
<1>3. (p - k) * g = r
  BY <1>1, <1>2
<1>4. p - k = 0
  <2>1. CASE p - k >= 1
    <3>1. (p - k) * g >= g
      BY <2>1
    <3> QED BY <1>2, <1>3, <3>1
  <2>2. CASE p - k <= -1
    <3>1. (p - k) * g <= -g
      BY <2>2
    <3> QED BY <1>2, <1>3, <3>1
  <2> QED BY <2>1, <2>2
<1> QED BY <1>1, <1>2, <1>4

\* The fraction n / d in lowest terms.
IsLowest(x, n, d) ==
    \E p \in Int, q \in Nat \ {0}, g \in Nat \ {0} :
      x = <<p, q>> /\ n = p * g /\ d = q * g /\ Lowest(p, q)

LEMMA ReducedIs ==
    ASSUME NEW n \in Int, NEW d \in Nat \ {0}
    PROVE  IsLowest(Reduced(n, d), n, d)
<1> DEFINE a == IF n < 0 THEN -n ELSE n
           G == Gcd(a, d)
<1>1. a \in Nat
  OBVIOUS
<1>2. Greatest(G, a, d)
  BY <1>1, GcdIsGreatest
<1>3. Reduced(n, d) = <<n \div G, d \div G>>
  BY DEF Reduced
<1>4. PICK g \in Nat \ {0} : g = G
  BY <1>2 DEF Greatest
<1>5. PICK x \in Int, q \in Int : a = x * g /\ d = q * g
  BY <1>2, <1>4 DEF Greatest, Divides
<1>6. PICK p \in Int : n = p * g /\ (a = n \/ a = -n)
  <2>1. CASE n < 0
    <3>1. n = (-x) * g /\ -x \in Int
      BY <1>5, <2>1
    <3> QED BY <2>1, <3>1
  <2>2. CASE ~(n < 0)
    BY <1>5, <2>2
  <2> QED BY <2>1, <2>2
<1>7. q \in Nat \ {0}
  <2>1. CASE q <= 0
    <3>1. q * g <= 0
      BY <2>1
    <3> QED BY <1>5, <3>1
  <2> QED BY <2>1
<1>8. n \div g = p /\ d \div g = q
  BY <1>5, <1>6, QuotientOfMultiple
<1>9. ASSUME NEW e \in Nat \ {0}, Divides(e, p), Divides(e, q) PROVE e = 1
  <2>1. PICK u \in Int, v \in Int : p = u * e /\ q = v * e
    BY <1>9 DEF Divides
  <2>2. PICK w \in Nat \ {0} : w = e * g
    OBVIOUS
  <2>3. n = u * w /\ d = v * w
    BY <1>5, <1>6, <2>1, <2>2
  <2>4. a = u * w \/ a = (-u) * w
    BY <1>6, <2>3
  <2>5. Divides(w, a) /\ Divides(w, d)
    <3> HIDE DEF a
    <3>1. u \in Int /\ -u \in Int /\ v \in Int
      OBVIOUS
    <3>2. \E z \in Int : a = z * w
      BY <2>4, <3>1
    <3> QED BY <2>3, <3>1, <3>2 DEF Divides
  <2>6. w <= g
    BY <1>2, <1>4, <2>5 DEF Greatest
  <2>7. ~(e >= 2)
    <3>1. e >= 2 => e * g >= 2 * g
      OBVIOUS
    <3> QED BY <2>2, <2>6, <3>1
  <2> QED BY <2>7
<1>10. Reduced(n, d) = <<p, q>> /\ Lowest(p, q)
  BY <1>3, <1>4, <1>8, <1>9 DEF Lowest
<1> QED BY <1>5, <1>6, <1>7, <1>10 DEF IsLowest

\* Capital: a fraction in lowest terms that is not negative.
Money == {x \in Nat \X (Nat \ {0}) : Lowest(x[1], x[2])}
Fraction == Int \X (Nat \ {0})

LEMMA NumIs == /\ \A n \in Int : Num(n) \in Fraction
               /\ \A n \in Nat : Num(n) \in Money
<1>1. ASSUME NEW n \in Nat PROVE Lowest(n, 1)
  <2>1. \A e \in Nat \ {0} : Divides(e, 1) => e <= 1
    BY DividesNoLarger
  <2> QED BY <2>1 DEF Lowest
<1> QED BY <1>1 DEF Money, Fraction, Num

LEMMA SignKept ==
    ASSUME NEW p \in Int, NEW g \in Nat \ {0}
    PROVE  /\ p * g >= 0 <=> p >= 0
           /\ p * g = 0 <=> p = 0
<1>1. p >= 1 => p * g >= 1
  OBVIOUS
<1>2. p <= -1 => p * g <= -1
  OBVIOUS
<1>3. p = 0 => p * g = 0
  OBVIOUS
<1> QED BY <1>1, <1>2, <1>3

LEMMA SumIsFraction ==
    ASSUME NEW x \in Fraction, NEW y \in Fraction
    PROVE  Plus(x, y) \in Fraction /\ Minus(x, y) \in Fraction /\ Times(x, y) \in Fraction
<1>1. PICK a \in Int, b \in Nat \ {0}, c \in Int, d \in Nat \ {0} : x = <<a, b>> /\ y = <<c, d>>
  BY DEF Fraction
<1>2. /\ b * d \in Nat \ {0} /\ a * d + c * b \in Int /\ a * c \in Int
      /\ -c \in Int /\ a * d + (-c) * b \in Int
  <2>1. b * d >= 1
    BY <1>1
  <2>2. b * d \in Int /\ a * d \in Int /\ c * b \in Int /\ (-c) * b \in Int /\ a * c \in Int
    OBVIOUS
  <2> QED BY <2>1, <2>2
<1>3. ASSUME NEW n \in Int, NEW k \in Nat \ {0} PROVE Reduced(n, k) \in Fraction
  <2>1. IsLowest(Reduced(n, k), n, k)
    BY ReducedIs
  <2>2. PICK z : z = Reduced(n, k)
    OBVIOUS
  <2> QED BY <2>1, <2>2 DEF IsLowest, Fraction
<1>4. Plus(x, y) = Reduced(a * d + c * b, b * d)
  BY <1>1 DEF Plus
<1>5. Times(x, y) = Reduced(a * c, b * d)
  BY <1>1 DEF Times
<1>6. Minus(x, y) = Reduced(a * d + (-c) * b, b * d)
  BY <1>1 DEF Minus, Plus, Neg
<1> QED BY <1>2, <1>3, <1>4, <1>5, <1>6

\* Capital times a growth that is not negative.
LEMMA GrownCapital ==
    ASSUME NEW e \in Money, NEW r \in Fraction
    PROVE  LET after == Times(e, Larger(Plus(Num(1), r), Num(0)))
           IN  /\ after \in Money
               /\ e[1] = 0 => after[1] = 0
               /\ r = Num(0) => after = e
<1>1. PICK a \in Nat, b \in Nat \ {0} : e = <<a, b>> /\ Lowest(a, b)
  BY DEF Money
<1> DEFINE sum == Plus(Num(1), r)
           l == Larger(sum, Num(0))
<1>2. sum \in Fraction
  BY NumIs, SumIsFraction
<1>3. PICK c \in Nat, d \in Nat \ {0} : l = <<c, d>>
  <2>1. PICK u \in Int, v \in Nat \ {0} : sum = <<u, v>>
    BY <1>2 DEF Fraction
  <2>2. Gt(Num(0), sum) <=> 0 > u
    BY <2>1 DEF Gt, Num
  <2>3. l = IF 0 > u THEN <<0, 1>> ELSE <<u, v>>
    BY <2>1, <2>2 DEF Larger, Num
  <2> QED BY <2>3
<1>4. Times(e, l) = Reduced(a * c, b * d)
  BY <1>1, <1>3 DEF Times
<1>5. a * c \in Nat /\ b * d \in Nat \ {0}
  OBVIOUS
<1>6. PICK p \in Int, q \in Nat \ {0}, g \in Nat \ {0} :
        Reduced(a * c, b * d) = <<p, q>> /\ a * c = p * g /\ b * d = q * g /\ Lowest(p, q)
  <2>1. IsLowest(Reduced(a * c, b * d), a * c, b * d)
    BY <1>5, ReducedIs
  <2> QED BY <2>1 DEF IsLowest
<1>7. p \in Nat
  BY <1>5, <1>6, SignKept
<1>8. Times(e, l) \in Money
  BY <1>4, <1>6, <1>7 DEF Money
<1>9. ASSUME e[1] = 0 PROVE Times(e, l)[1] = 0
  <2>1. a = 0
    BY <1>1, <1>9
  <2>2. a * c = 0
    BY <2>1
  <2> QED BY <1>4, <1>6, <2>2, SignKept
<1>10. ASSUME r = Num(0) PROVE Times(e, l) = e
  <2>1. sum = Reduced(1, 1)
    BY <1>10 DEF Plus, Num
  <2>2. Reduced(1, 1) = <<1, 1>>
    <3>1. PICK u \in Int, v \in Nat \ {0}, h \in Nat \ {0} : Reduced(1, 1) = <<u, v>> /\ 1 = u * h /\ 1 = v * h
      <4>1. IsLowest(Reduced(1, 1), 1, 1)
        BY ReducedIs
      <4> QED BY <4>1 DEF IsLowest
    <3>2. u = 1 /\ v = 1
      BY <3>1
    <3> QED BY <3>1, <3>2
  <2>3. l = <<1, 1>>
    BY <2>1, <2>2 DEF Larger, Gt, Num
  <2>4. c = 1 /\ d = 1
    BY <1>3, <2>3
  <2>5. a = p * g /\ b = q * g
    BY <1>6, <2>4
  <2>6. g = 1
    BY <1>1, <2>5 DEF Lowest, Divides
  <2> QED BY <1>1, <1>4, <1>6, <2>5, <2>6
<1> QED BY <1>8, <1>9, <1>10

Peaks == {x \in Money : x[1] > 0}

LEMMA NewPeak ==
    ASSUME NEW k \in Peaks, NEW e \in Money
    PROVE  /\ Larger(k, e) \in Peaks
           /\ ~Gt(e, Larger(k, e))
           /\ ~Gt(e, k) => Larger(k, e) = k
<1>1. PICK a \in Nat, b \in Nat \ {0}, c \in Nat, d \in Nat \ {0} : e = <<a, b>> /\ k = <<c, d>> /\ c > 0
  BY DEF Money, Peaks
<1>2. Gt(e, k) <=> a * d > c * b
  BY <1>1 DEF Gt
<1>3. c * b > 0
  BY <1>1
<1>4. Gt(e, k) => a > 0
  <2>1. a = 0 => a * d = 0
    OBVIOUS
  <2> QED BY <1>2, <1>3, <2>1
<1>5. ~Gt(e, e)
  BY <1>1 DEF Gt
<1> QED BY <1>1, <1>4, <1>5 DEF Larger, Peaks

\* The return since the start.
LEMMA ReturnIs ==
    ASSUME NEW e \in Money
    PROVE  LET cumu == Minus(e, Num(1))
           IN  ~IsNaN(cumu) /\ ~Gt(Num(-1), cumu) /\ (cumu = Num(-1) <=> e[1] = 0)
<1>1. PICK a \in Nat, b \in Nat \ {0} : e = <<a, b>> /\ Lowest(a, b)
  BY DEF Money
<1>2. Minus(e, Num(1)) = Reduced(a - b, b)
  <2>1. Minus(e, Num(1)) = Reduced(a * 1 + (-1) * b, b * 1)
    BY <1>1 DEF Minus, Plus, Neg, Num
  <2>2. a * 1 + (-1) * b = a - b /\ b * 1 = b
    OBVIOUS
  <2> QED BY <2>1, <2>2
<1>3. PICK p \in Int, q \in Nat \ {0}, g \in Nat \ {0} :
        Reduced(a - b, b) = <<p, q>> /\ a - b = p * g /\ b = q * g /\ Lowest(p, q)
  <2>1. a - b \in Int
    OBVIOUS
  <2>2. IsLowest(Reduced(a - b, b), a - b, b)
    BY <2>1, ReducedIs
  <2> QED BY <2>2 DEF IsLowest
<1>4. a = (p + q) * g
  BY <1>3
<1>5. p + q >= 0 /\ (p + q = 0 <=> a = 0)
  <2>1. p + q \in Int
    OBVIOUS
  <2> QED BY <1>4, <2>1, SignKept
<1>6. Gt(Num(-1), <<p, q>>) <=> -q > p
  BY DEF Gt, Num
<1>7. p + q = 0 => q = 1
  <2> SUFFICES ASSUME p + q = 0 PROVE q = 1
    OBVIOUS
  <2>1. p = (-1) * q /\ q = 1 * q
    OBVIOUS
  <2>2. Divides(q, p) /\ Divides(q, q)
    BY <2>1 DEF Divides
  <2> QED BY <1>3, <2>2 DEF Lowest
<1>8. <<p, q>> = Num(-1) <=> p + q = 0
  BY <1>7 DEF Num
<1> QED BY <1>1, <1>2, <1>3, <1>5, <1>6, <1>8 DEF IsNaN

\* The drop from the peak.
LEMMA DropIs ==
    ASSUME NEW e \in Money, NEW k \in Peaks, ~Gt(e, k)
    PROVE  LET dd == Minus(Num(1), Over(e, k)) IN ~Gt(Num(0), dd) /\ ~Gt(dd, Num(1))
<1>1. PICK a \in Nat, b \in Nat \ {0}, c \in Nat \ {0}, d \in Nat \ {0} : e = <<a, b>> /\ k = <<c, d>>
  BY DEF Money, Peaks
<1>2. a * d <= c * b /\ a * d \in Nat /\ b * c \in Nat \ {0} /\ c * b = b * c
  BY <1>1 DEF Gt
<1>3. Over(e, k) = Reduced(a * d, b * c)
  BY <1>1 DEF Over
<1>4. PICK u \in Int, v \in Nat \ {0}, g \in Nat \ {0} :
        Reduced(a * d, b * c) = <<u, v>> /\ a * d = u * g /\ b * c = v * g
  <2>1. IsLowest(Reduced(a * d, b * c), a * d, b * c)
    BY <1>2, ReducedIs
  <2> QED BY <2>1 DEF IsLowest
<1>5. u >= 0 /\ u <= v
  <2>1. u >= 0
    BY <1>2, <1>4, SignKept
  <2>2. u * g <= v * g
    BY <1>2, <1>4
  <2> QED BY <2>1, <2>2, MultiplesApart
<1>6. Minus(Num(1), Over(e, k)) = Reduced(v - u, v)
  <2>1. Minus(Num(1), <<u, v>>) = Reduced(1 * v + (-u) * 1, 1 * v)
    BY DEF Minus, Plus, Neg, Num
  <2>2. 1 * v + (-u) * 1 = v - u /\ 1 * v = v
    OBVIOUS
  <2> QED BY <1>3, <1>4, <2>1, <2>2
<1>7. PICK p \in Int, q \in Nat \ {0}, h \in Nat \ {0} :
        Reduced(v - u, v) = <<p, q>> /\ v - u = p * h /\ v = q * h
  <2>1. v - u \in Int
    OBVIOUS
  <2>2. IsLowest(Reduced(v - u, v), v - u, v)
    BY <2>1, ReducedIs
  <2> QED BY <2>2 DEF IsLowest
<1>8. p >= 0 /\ p <= q
  <2>1. p >= 0
    BY <1>5, <1>7, SignKept
  <2>2. p * h <= q * h
    BY <1>5, <1>7
  <2> QED BY <2>1, <2>2, MultiplesApart
<1>9. /\ Gt(Num(0), <<p, q>>) <=> 0 * q > p * 1
      /\ Gt(<<p, q>>, Num(1)) <=> p * 1 > 1 * q
  BY DEF Gt, Num
<1> QED BY <1>6, <1>7, <1>8, <1>9

\* Holding nothing and trading nothing earns nothing.
LEMMA FlatEarnsNothing ==
    ASSUME NEW ret \in Fraction, NEW cost \in Fraction
    PROVE  Minus(Times(Num(0), ret), Times(Num(0), cost)) = Num(0)
<1>1. ASSUME NEW d \in Nat \ {0} PROVE Reduced(0, d) = <<0, 1>>
  <2>1. PICK p \in Int, q \in Nat \ {0}, g \in Nat \ {0} :
          Reduced(0, d) = <<p, q>> /\ 0 = p * g /\ Lowest(p, q)
    <3>1. IsLowest(Reduced(0, d), 0, d)
      BY ReducedIs
    <3> QED BY <3>1 DEF IsLowest
  <2>2. p = 0
    BY <2>1, SignKept
  <2>3. p = 0 * q /\ q = 1 * q
    BY <2>2
  <2>4. q = 1
    BY <2>1, <2>3 DEF Lowest, Divides
  <2> QED BY <2>1, <2>2, <2>4
<1>2. ASSUME NEW x \in Fraction PROVE Times(Num(0), x) = <<0, 1>>
  <2>1. PICK a \in Int, b \in Nat \ {0} : x = <<a, b>>
    BY DEF Fraction
  <2>2. Times(Num(0), x) = Reduced(0 * a, 1 * b)
    BY <2>1 DEF Times, Num
  <2>3. 0 * a = 0 /\ 1 * b = b
    OBVIOUS
  <2> QED BY <1>1, <2>2, <2>3
<1>3. Minus(<<0, 1>>, <<0, 1>>) = Reduced(0, 1)
  BY DEF Minus, Plus, Neg
<1> QED BY <1>1, <1>2, <1>3 DEF Num

\* A quantity that is carried from bar to bar.
CarriedBy(f, n, base, step) == f[0] = base /\ \A i \in 1..n : f[i] = step[i][f[i - 1]]
LEMMA Carried ==
    ASSUME NEW n \in Nat, NEW S, NEW base \in S, NEW step \in [1..n -> [S -> S]]
    PROVE  \E f \in [0..n -> S] : CarriedBy(f, n, base, step)
<1> DEFINE Upto(m, f) == f \in [0..m -> S] /\ f[0] = base /\ \A i \in 1..m : f[i] = step[i][f[i - 1]]
           T == {m \in 0..n : ~\E f : Upto(m, f)}
<1>1. ASSUME T # {} PROVE FALSE
  <2>0. T \in SUBSET Nat
    OBVIOUS
  <2>1. PICK m \in T : \A k \in T : m <= k
    <3> HIDE DEF T
    <3> QED BY <1>1, <2>0, MinOfNats
  <2>2. m # 0
    <3>1. Upto(0, [i \in 0..0 |-> base])
      OBVIOUS
    <3> QED BY <2>1, <3>1
  <2>3. m - 1 \in 0..n /\ m - 1 \notin T /\ m \in 1..n
    BY <2>1, <2>2
  <2>4. PICK f : Upto(m - 1, f)
    BY <2>3
  <2> DEFINE g == [i \in 0..m |-> IF i = m THEN step[m][f[m - 1]] ELSE f[i]]
  <2>5. g \in [0..m -> S]
    <3>1. f[m - 1] \in S
      BY <2>3, <2>4
    <3>2. step[m][f[m - 1]] \in S
      BY <2>3, <3>1
    <3>3. \A i \in 0..m : i # m => f[i] \in S
      BY <2>3, <2>4
    <3> QED BY <3>2, <3>3
  <2>6. g[0] = base
    BY <2>3, <2>4
  <2>7. ASSUME NEW i \in 1..m PROVE g[i] = step[i][g[i - 1]]
    <3>1. i - 1 \in 0..m /\ i - 1 # m /\ g[i - 1] = f[i - 1]
      BY <2>3
    <3>2. i # m => i \in 1..(m - 1)
      BY <2>3
    <3>3. i # m => g[i] = f[i] /\ f[i] = step[i][f[i - 1]]
      BY <2>4, <3>2
    <3>4. i = m => g[i] = step[m][f[m - 1]]
      OBVIOUS
    <3> HIDE DEF g
    <3> QED BY <3>1, <3>3, <3>4
  <2> HIDE DEF g
  <2>8. Upto(m, g)
    BY <2>5, <2>6, <2>7
  <2> HIDE DEF Upto
  <2> QED BY <2>1, <2>8
<1>2. n \notin T
  BY <1>1
<1> QED BY <1>2 DEF CarriedBy

\* The curve reads off a capital and its peak, carried from bar to bar.
CurveBy(curve, pnl, n, eq, pk) ==
    /\ \A i \in 1..n : /\ eq[i] = IF IsNaN(pnl[i]) THEN eq[i - 1]
                                  ELSE Times(eq[i - 1], Larger(Plus(Num(1), pnl[i]), Num(0)))
                      /\ pk[i] = Larger(pk[i - 1], eq[i])
    /\ IsColumn(curve, n)
    /\ \A i \in 1..n : curve[i] = IF IsNaN(pnl[i]) THEN [cumu |-> NaN, dd |-> NaN]
                                  ELSE [cumu |-> Minus(eq[i], Num(1)),
                                        dd   |-> Minus(Num(1), Over(eq[i], pk[i]))]
LEMMA CurveIs ==
    ASSUME NEW n \in Nat, NEW pnl, IsColumn(pnl, n), \A i \in 1..n : pnl[i] = NaN \/ pnl[i] \in Fraction
    PROVE  \E eq \in [0..n -> Money], pk \in [0..n -> Peaks] : CurveBy(_compound(pnl), pnl, n, eq, pk)
<1> DEFINE grown(e, r) == Times(e, Larger(Plus(Num(1), r), Num(0)))
           E(g) == [i \in 0..Len(pnl) |-> IF i = 0 THEN Num(1)
                                          ELSE IF IsNaN(pnl[i]) THEN g[i - 1] ELSE grown(g[i - 1], pnl[i])]
           eq == CHOOSE g : g = E(g)
           P(g) == [i \in 0..Len(pnl) |-> IF i = 0 THEN Num(1) ELSE Larger(g[i - 1], eq[i])]
           pk == CHOOSE g : g = P(g)
           point(i) == IF IsNaN(pnl[i]) THEN [cumu |-> NaN, dd |-> NaN]
                       ELSE [cumu |-> Minus(eq[i], Num(1)), dd |-> Minus(Num(1), Over(eq[i], pk[i]))]
           curve == [i \in 1..Len(pnl) |-> point(i)]
<1>1. _compound(pnl) = <<>> \o curve
  BY Zenon DEF _compound, Column
<1>2. Len(pnl) = n
  BY DEF IsColumn
<1>3. Num(1) \in Money /\ Num(1) \in Peaks
  BY NumIs DEF Peaks, Num
<1>4. eq \in [0..n -> Money] /\ eq = E(eq)
  <2> DEFINE step == [i \in 1..n |-> [e \in Money |-> IF IsNaN(pnl[i]) THEN e ELSE grown(e, pnl[i])]]
  <2>1. ASSUME NEW i \in 1..n, NEW e \in Money PROVE (IF IsNaN(pnl[i]) THEN e ELSE grown(e, pnl[i])) \in Money
    <3>1. ~IsNaN(pnl[i]) => pnl[i] \in Fraction
      BY DEF IsNaN, NaN
    <3> QED BY <3>1, GrownCapital
  <2> HIDE DEF grown
  <2>2. step \in [1..n -> [Money -> Money]]
    BY <2>1
  <2>3. PICK f \in [0..n -> Money] : f[0] = Num(1) /\ \A i \in 1..n : f[i] = step[i][f[i - 1]]
    <3>1. PICK b \in Money : b = Num(1)
      BY <1>3
    <3> HIDE DEF step
    <3>2. PICK f \in [0..n -> Money] : CarriedBy(f, n, b, step)
      BY <2>2, Carried
    <3> QED BY <3>1, <3>2 DEF CarriedBy
  <2>4. \A i \in 1..n : i - 1 \in 0..n /\ f[i - 1] \in Money
    OBVIOUS
  <2>5. \A i \in 1..n : f[i] = IF IsNaN(pnl[i]) THEN f[i - 1] ELSE grown(f[i - 1], pnl[i])
    BY <2>3, <2>4
  <2>6. f = E(f)
    BY <1>2, <2>3, <2>5
  <2> HIDE DEF E, step
  <2>7. eq = E(eq)
    BY <2>6
  <2> HIDE DEF eq
  <2>8. /\ eq = [i \in 0..n |-> eq[i]] /\ eq[0] = Num(1)
        /\ \A i \in 1..n : eq[i] = IF IsNaN(pnl[i]) THEN eq[i - 1] ELSE grown(eq[i - 1], pnl[i])
    BY <1>2, <2>7 DEF E
  <2>9. \A i \in 0..n : eq[i] = f[i]
    <3> DEFINE T == {i \in 0..n : eq[i] # f[i]}
    <3> SUFFICES ASSUME T # {} PROVE FALSE
      OBVIOUS
    <3>0. T \in SUBSET Nat
      OBVIOUS
    <3>1. PICK i \in T : \A k \in T : i <= k
      <4> HIDE DEF T
      <4> QED BY <3>0, MinOfNats
    <3>2. i # 0
      BY <2>3, <2>8, <3>1
    <3>3. i \in 1..n /\ i - 1 \in 0..n /\ i - 1 \notin T
      BY <3>1, <3>2
    <3>4. eq[i - 1] = f[i - 1]
      BY <3>3
    <3> QED BY <2>5, <2>8, <3>1, <3>3, <3>4
  <2>10. \A i \in 0..n : eq[i] \in Money
    BY <2>9
  <2> QED BY <2>7, <2>8, <2>10
<1> HIDE DEF eq
<1>5. \A i \in 1..n : eq[i] = IF IsNaN(pnl[i]) THEN eq[i - 1] ELSE grown(eq[i - 1], pnl[i])
  <2> HIDE DEF grown
  <2> QED BY <1>2, <1>4 DEF E
<1>6. pk \in [0..n -> Peaks] /\ pk = P(pk)
  <2> DEFINE step == [i \in 1..n |-> [k \in Peaks |-> Larger(k, eq[i])]]
  <2>1. \A i \in 1..n, k \in Peaks : Larger(k, eq[i]) \in Peaks
    <3>1. \A i \in 1..n : eq[i] \in Money
      BY <1>4
    <3> QED BY <3>1, NewPeak
  <2>2. step \in [1..n -> [Peaks -> Peaks]]
    BY <2>1
  <2>3. PICK f \in [0..n -> Peaks] : f[0] = Num(1) /\ \A i \in 1..n : f[i] = step[i][f[i - 1]]
    <3>1. PICK b \in Peaks : b = Num(1)
      BY <1>3
    <3> HIDE DEF step
    <3>2. PICK f \in [0..n -> Peaks] : CarriedBy(f, n, b, step)
      BY <2>2, Carried
    <3> QED BY <3>1, <3>2 DEF CarriedBy
  <2>4. \A i \in 1..n : i - 1 \in 0..n /\ f[i - 1] \in Peaks
    OBVIOUS
  <2>5. \A i \in 1..n : f[i] = Larger(f[i - 1], eq[i])
    BY <2>3, <2>4
  <2>6. f = P(f)
    BY <1>2, <2>3, <2>5
  <2> HIDE DEF P, step
  <2>7. pk = P(pk)
    BY <2>6
  <2> HIDE DEF pk
  <2>8. /\ pk = [i \in 0..n |-> pk[i]] /\ pk[0] = Num(1)
        /\ \A i \in 1..n : pk[i] = Larger(pk[i - 1], eq[i])
    BY <1>2, <2>7 DEF P
  <2>9. \A i \in 0..n : pk[i] = f[i]
    <3> DEFINE T == {i \in 0..n : pk[i] # f[i]}
    <3> SUFFICES ASSUME T # {} PROVE FALSE
      OBVIOUS
    <3>0. T \in SUBSET Nat
      OBVIOUS
    <3>1. PICK i \in T : \A k \in T : i <= k
      <4> HIDE DEF T
      <4> QED BY <3>0, MinOfNats
    <3>2. i # 0
      BY <2>3, <2>8, <3>1
    <3>3. i \in 1..n /\ i - 1 \in 0..n /\ i - 1 \notin T
      BY <3>1, <3>2
    <3>4. pk[i - 1] = f[i - 1]
      BY <3>3
    <3> QED BY <2>5, <2>8, <3>1, <3>3, <3>4
  <2>10. \A i \in 0..n : pk[i] \in Peaks
    BY <2>9
  <2> QED BY <2>7, <2>8, <2>10
<1> HIDE DEF pk
<1>7. \A i \in 1..n : pk[i] = Larger(pk[i - 1], eq[i])
  BY <1>2, <1>6 DEF P
<1> HIDE DEF E, P
<1>8. IsColumn(_compound(pnl), n) /\ \A i \in 1..n : _compound(pnl)[i] = point(i)
  <2> HIDE DEF point
  <2>1. curve = [i \in 1..n |-> curve[i]] /\ \A i \in 1..n : curve[i] = point(i)
    BY <1>2
  <2> HIDE DEF curve
  <2> QED BY <1>1, <2>1, ColumnBuilds
<1>9. eq \in [0..n -> Money] /\ pk \in [0..n -> Peaks]
  BY <1>4, <1>6
<1>10. CurveBy(_compound(pnl), pnl, n, eq, pk)
  BY <1>5, <1>7, <1>8 DEF CurveBy
<1> QED BY <1>9, <1>10

Position == {-1, 0, 1, Unknown}

\* The equity curve of any positions on any returns, fees paid (_compound,
\* strategy_pnl).
THEOREM EquityStaysHonest ==
    ASSUME NEW n \in Nat, NEW pos, IsColumn(pos, n), \A i \in 1..n : pos[i] \in Position,
           NEW ret, \A i \in 2..n : ret[i] \in Fraction, NEW cost \in Fraction
    PROVE  CurveHonest(_compound(strategy_pnl(pos, ret, cost)), pos)
<1> DEFINE prior(i) == IF i = 1 THEN Unknown ELSE pos[i - 1]
           turnover(i) == IF pos[i] > prior(i) THEN pos[i] - prior(i) ELSE prior(i) - pos[i]
           earned(i) == IF prior(i) = Unknown \/ pos[i] = Unknown THEN NaN
                        ELSE Minus(Times(Num(prior(i)), ret[i]), Times(Num(turnover(i)), cost))
           g == [i \in 1..Len(pos) |-> earned(i)]
           pnl == strategy_pnl(pos, ret, cost)
<1>1. pnl = <<>> \o g
  BY Zenon DEF strategy_pnl, Column
<1>2. IsColumn(pnl, n) /\ \A i \in 1..n : pnl[i] = earned(i)
  <2> HIDE DEF earned
  <2>1. Len(pos) = n
    BY DEF IsColumn
  <2>2. g = [i \in 1..n |-> g[i]] /\ \A i \in 1..n : g[i] = earned(i)
    BY <2>1
  <2> HIDE DEF g
  <2> QED BY <1>1, <2>2, ColumnBuilds
<1> HIDE DEF pnl
<1>3. ASSUME NEW i \in 1..n
      PROVE  /\ earned(i) = NaN \/ earned(i) \in Fraction
             /\ i > 1 /\ pos[i] = 0 /\ pos[i - 1] = 0 => earned(i) = Num(0)
  <2>1. CASE prior(i) = Unknown \/ pos[i] = Unknown
    BY <2>1 DEF Unknown
  <2>2. CASE ~(prior(i) = Unknown \/ pos[i] = Unknown)
    <3>1. i \in 2..n /\ i - 1 \in 1..n /\ prior(i) = pos[i - 1]
      BY <2>2
    <3>2. PICK a \in {-1, 0, 1}, b \in {-1, 0, 1} : a = pos[i - 1] /\ b = pos[i]
      <4>1. pos[i - 1] \in Position /\ pos[i] \in Position
        BY <3>1
      <4> QED BY <2>2, <3>1, <4>1 DEF Position
    <3>3. PICK t \in Int : t = turnover(i) /\ (a = 0 /\ b = 0 => t = 0)
      BY <3>1, <3>2
    <3>4. earned(i) = Minus(Times(Num(a), ret[i]), Times(Num(t), cost))
      BY <2>2, <3>1, <3>2, <3>3
    <3>5. Num(a) \in Fraction /\ Num(t) \in Fraction /\ ret[i] \in Fraction
      BY <3>1, NumIs
    <3>6. earned(i) \in Fraction
      BY <3>4, <3>5, SumIsFraction
    <3>7. a = 0 /\ b = 0 => earned(i) = Num(0)
      BY <3>3, <3>4, <3>5, FlatEarnsNothing
    <3> QED BY <3>2, <3>6, <3>7
  <2> QED BY <2>1, <2>2
<1> HIDE DEF earned
<1>4. \A i \in 1..n : pnl[i] = NaN \/ pnl[i] \in Fraction
  BY <1>2, <1>3
<1> DEFINE curve == _compound(pnl)
<1>11. PICK eq \in [0..n -> Money], pk \in [0..n -> Peaks] : CurveBy(curve, pnl, n, eq, pk)
  BY <1>2, <1>4, CurveIs
<1> HIDE DEF curve
<1>5.        /\ \A i \in 1..n : /\ eq[i] = IF IsNaN(pnl[i]) THEN eq[i - 1]
                                           ELSE Times(eq[i - 1], Larger(Plus(Num(1), pnl[i]), Num(0)))
                               /\ pk[i] = Larger(pk[i - 1], eq[i])
             /\ IsColumn(curve, n)
             /\ \A i \in 1..n :
                  curve[i] = IF IsNaN(pnl[i]) THEN [cumu |-> NaN, dd |-> NaN]
                             ELSE [cumu |-> Minus(eq[i], Num(1)),
                                   dd   |-> Minus(Num(1), Over(eq[i], pk[i]))]
  BY <1>11 DEF CurveBy
<1>6. ASSUME NEW i \in 1..n
      PROVE  /\ eq[i] \in Money /\ eq[i - 1] \in Money /\ pk[i - 1] \in Peaks /\ pk[i] \in Peaks
             /\ ~Gt(eq[i], pk[i]) /\ (eq[i - 1][1] = 0 => eq[i][1] = 0)
             /\ pnl[i] = Num(0) => eq[i] = eq[i - 1]
  <2>1. eq[i] \in Money /\ eq[i - 1] \in Money /\ pk[i - 1] \in Peaks /\ pk[i] \in Peaks
    <3>1. i \in 0..n /\ i - 1 \in 0..n
      OBVIOUS
    <3> QED BY <3>1
  <2>2. ~Gt(eq[i], pk[i])
    BY <1>5, <2>1, NewPeak
  <2>3. CASE IsNaN(pnl[i])
    <3>1. eq[i] = eq[i - 1]
      BY <1>5, <2>3
    <3> QED BY <2>1, <2>2, <3>1
  <2>4. CASE ~IsNaN(pnl[i])
    <3>1. pnl[i] \in Fraction
      BY <1>4, <2>4 DEF IsNaN, NaN
    <3>2. eq[i] = Times(eq[i - 1], Larger(Plus(Num(1), pnl[i]), Num(0)))
      BY <1>5, <2>4
    <3> QED BY <2>1, <2>2, <3>1, <3>2, GrownCapital
  <2> QED BY <2>3, <2>4
\* Capital that is gone stays gone.
<1>7. ASSUME NEW i \in 1..n, NEW k \in i..n, eq[i][1] = 0 PROVE eq[k][1] = 0
  <2> DEFINE T == {m \in i..n : eq[m][1] # 0}
  <2> SUFFICES ASSUME T # {} PROVE FALSE
    OBVIOUS
  <2>1. T \in SUBSET Nat
    OBVIOUS
  <2>2. PICK m \in T : \A j \in T : m <= j
    BY <2>1, MinOfNats
  <2>3. m # i
    BY <1>7, <2>2
  <2>4. m - 1 \in i..n /\ m \in 1..n /\ m - 1 \notin T
    BY <2>2, <2>3
  <2>5. eq[m - 1][1] = 0
    BY <2>4
  <2> QED BY <1>6, <2>2, <2>4, <2>5
<1>8. DOMAIN curve = 1..n /\ Len(curve) = n
  BY <1>5 DEF IsColumn
<1>9. ASSUME NEW i \in 1..n, ~IsNaN(curve[i].cumu)
      PROVE  /\ curve[i] = [cumu |-> Minus(eq[i], Num(1)), dd |-> Minus(Num(1), Over(eq[i], pk[i]))]
             /\ curve[i].cumu = Minus(eq[i], Num(1)) /\ curve[i].dd = Minus(Num(1), Over(eq[i], pk[i]))
  <2>1. ~IsNaN(pnl[i])
    <3>1. IsNaN(pnl[i]) => curve[i].cumu = NaN
      <4>1. IsNaN(pnl[i]) => curve[i] = [cumu |-> NaN, dd |-> NaN]
        BY <1>5
      <4> QED BY <4>1
    <3>2. IsNaN(NaN)
      BY DEF IsNaN, NaN
    <3> QED BY <1>9, <3>1, <3>2
  <2>2. PICK c, d : c = Minus(eq[i], Num(1)) /\ d = Minus(Num(1), Over(eq[i], pk[i]))
    OBVIOUS
  <2>3. curve[i] = [cumu |-> c, dd |-> d]
    BY <1>5, <2>1, <2>2
  <2> QED BY <2>2, <2>3
<1>10. ASSUME NEW i \in 1..n, ~IsNaN(curve[i].cumu)
       PROVE  /\ ~Gt(Num(-1), curve[i].cumu)
              /\ ~Gt(Num(0), curve[i].dd) /\ ~Gt(curve[i].dd, Num(1))
              /\ \A k \in i..n : (curve[i].cumu = Num(-1) /\ ~IsNaN(curve[k].cumu))
                                   => curve[k].cumu = Num(-1)
              /\ (i > 1 /\ ~IsNaN(curve[i - 1].cumu) /\ pos[i] = 0 /\ pos[i - 1] = 0)
                    => curve[i] = curve[i - 1]
  <2>1. /\ curve[i] = [cumu |-> Minus(eq[i], Num(1)), dd |-> Minus(Num(1), Over(eq[i], pk[i]))]
        /\ curve[i].cumu = Minus(eq[i], Num(1)) /\ curve[i].dd = Minus(Num(1), Over(eq[i], pk[i]))
    BY <1>9, <1>10
  <2>2. ~Gt(Num(-1), curve[i].cumu) /\ (curve[i].cumu = Num(-1) <=> eq[i][1] = 0)
    BY <1>6, <2>1, ReturnIs
  <2>3. ~Gt(Num(0), curve[i].dd) /\ ~Gt(curve[i].dd, Num(1))
    BY <1>6, <2>1, DropIs
  <2>4. ASSUME NEW k \in i..n, curve[i].cumu = Num(-1), ~IsNaN(curve[k].cumu) PROVE curve[k].cumu = Num(-1)
    <3>1. k \in 1..n
      OBVIOUS
    <3>2. curve[k].cumu = Minus(eq[k], Num(1)) /\ eq[k] \in Money
      BY <1>6, <1>9, <2>4, <3>1
    <3>3. eq[k][1] = 0
      BY <1>7, <2>2, <2>4
    <3> QED BY <3>2, <3>3, ReturnIs
  <2>5. ASSUME i > 1, ~IsNaN(curve[i - 1].cumu), pos[i] = 0, pos[i - 1] = 0 PROVE curve[i] = curve[i - 1]
    <3>1. i - 1 \in 1..n
      BY <2>5
    <3>2. curve[i - 1] = [cumu |-> Minus(eq[i - 1], Num(1)), dd |-> Minus(Num(1), Over(eq[i - 1], pk[i - 1]))]
      BY <1>9, <2>5, <3>1
    <3>3. eq[i] = eq[i - 1]
      BY <1>2, <1>3, <1>6, <2>5
    <3>4. ~Gt(eq[i - 1], pk[i - 1])
      BY <1>6, <3>1
    <3>5. pk[i] = pk[i - 1]
      BY <1>5, <1>6, <3>3, <3>4, NewPeak
    <3> QED BY <2>1, <3>2, <3>3, <3>5
  <2> QED BY <2>2, <2>3, <2>4, <2>5
<1> QED BY <1>8, <1>10 DEF CurveHonest, curve, pnl

-----------------------------------------------------------------------------
(* The positions a strategy can take.                                      *)

LEMMA NotLessIsTransitive ==
    ASSUME NEW x \in Fraction, NEW y \in Fraction, NEW z \in Fraction, ~Gt(x, y), ~Gt(y, z)
    PROVE  ~Gt(x, z)
<1>1. PICK a \in Int, b \in Nat \ {0}, c \in Int, d \in Nat \ {0}, e \in Int, f \in Nat \ {0} :
        x = <<a, b>> /\ y = <<c, d>> /\ z = <<e, f>>
  BY DEF Fraction
<1>2. a * d <= c * b /\ c * f <= e * d
  BY <1>1 DEF Gt
<1>3. (a * f) * d <= (e * b) * d
  <2>1. (a * d) * f <= (c * b) * f
    <3>1. PICK u \in Int, v \in Int : u = a * d /\ v = c * b
      OBVIOUS
    <3>2. u * f <= v * f
      BY <1>2, <3>1
    <3> QED BY <3>1, <3>2
  <2>2. (c * f) * b <= (e * d) * b
    <3>1. PICK u \in Int, v \in Int : u = c * f /\ v = e * d
      OBVIOUS
    <3>2. u * b <= v * b
      BY <1>2, <3>1
    <3> QED BY <3>1, <3>2
  <2>3. (a * d) * f = (a * f) * d /\ (c * b) * f = (c * f) * b /\ (e * d) * b = (e * b) * d
    OBVIOUS
  <2>4. /\ (a * d) * f \in Int /\ (a * f) * d \in Int /\ (c * b) * f \in Int
        /\ (c * f) * b \in Int /\ (e * d) * b \in Int /\ (e * b) * d \in Int
    OBVIOUS
  <2> QED BY <2>1, <2>2, <2>3, <2>4
<1>4. a * f <= e * b
  <2>1. a * f \in Int /\ e * b \in Int
    OBVIOUS
  <2> QED BY <1>3, <2>1, MultiplesApart
<1> QED BY <1>1, <1>4 DEF Gt

\* One of any finite number of fractions is not exceeded.
LEMMA StrongestExists ==
    ASSUME NEW A, IsFiniteSet(A), A # {}, NEW c, \A j \in A : c[j] \in Fraction
    PROVE  \E j \in A : \A k \in A : ~Gt(c[k], c[j])
<1> DEFINE Bad(E) == IsFiniteSet(E) /\ E # {} /\ ~\E j \in E : \A k \in E : ~Gt(c[k], c[j])
           T == {n \in Nat : \E E \in SUBSET A : Bad(E) /\ Cardinality(E) = n}
<1> SUFFICES ASSUME Bad(A) PROVE FALSE
  OBVIOUS
<1>1. Cardinality(A) \in T
  BY FS_CardinalityType
<1>2. PICK n \in T : \A k \in T : n <= k
  BY <1>1, MinOfNats
<1>3. PICK E \in SUBSET A : Bad(E) /\ Cardinality(E) = n
  BY <1>2
<1>4. PICK x \in E : TRUE
  BY <1>3
<1>5. IsFiniteSet(E \ {x}) /\ Cardinality(E \ {x}) = n - 1 /\ n - 1 \in Nat
  <2>1. n \in Nat /\ n # 0
    BY <1>3, FS_EmptySet
  <2>2. IsFiniteSet(E \ {x}) /\ Cardinality(E \ {x}) = n - 1
    BY <1>3, <1>4, FS_RemoveElement
  <2> QED BY <2>1, <2>2
<1>6. ~Bad(E \ {x})
  <2> SUFFICES ASSUME Bad(E \ {x}) PROVE FALSE
    OBVIOUS
  <2>1. n - 1 \in T /\ n \in Nat
    BY <1>5
  <2> HIDE DEF T
  <2> QED BY <1>2, <1>5, <2>1
<1>7. \A k \in A : ~Gt(c[k], c[k])
  BY DEF Gt, Fraction
<1>8. CASE E \ {x} = {}
  <2>1. E = {x}
    BY <1>4, <1>8, Zenon
  <2> QED BY <1>3, <1>7, <2>1
<1>9. CASE E \ {x} # {}
  <2>1. PICK m \in E \ {x} : \A k \in E \ {x} : ~Gt(c[k], c[m])
    BY <1>5, <1>6, <1>9
  <2>2. CASE ~Gt(c[x], c[m])
    <3>1. \A k \in E : ~Gt(c[k], c[m])
      BY <2>1, <2>2
    <3> QED BY <1>3, <2>1, <3>1
  <2>3. CASE Gt(c[x], c[m])
    <3>1. ~Gt(c[m], c[x])
      <4>1. c[x] \in Fraction /\ c[m] \in Fraction
        BY <1>4, <2>1
      <4>2. PICK a \in Int, b \in Nat \ {0} : c[x] = <<a, b>>
        BY <4>1 DEF Fraction
      <4>3. PICK p \in Int, q \in Nat \ {0} : c[m] = <<p, q>>
        BY <4>1 DEF Fraction
      <4> QED BY <2>3, <4>2, <4>3 DEF Gt
    <3>2. ASSUME NEW k \in E PROVE ~Gt(c[k], c[x])
      <4>1. CASE k = x
        BY <1>4, <1>7, <4>1
      <4>2. CASE k # x
        <5>1. ~Gt(c[k], c[m])
          BY <2>1, <4>2
        <5>2. c[k] \in Fraction /\ c[m] \in Fraction /\ c[x] \in Fraction
          BY <1>4, <2>1
        <5> QED BY <3>1, <5>1, <5>2, NotLessIsTransitive
      <4> QED BY <4>1, <4>2
    <3> QED BY <1>3, <1>4, <3>2
  <2> QED BY <2>2, <2>3
<1> QED BY <1>8, <1>9

LEMMA ConvictionIsFraction ==
    ASSUME NEW col, NEW i \in Nat, i >= 1
    PROVE  _conviction(col, i) \in Fraction
<1> DEFINE seen == {k \in 1..i : ~IsNaN(col[k])}
           ranked == {k \in seen : ~Gt(col[k], col[i])}
           far == 2 * Cardinality(ranked) - Cardinality(seen)
<1>1. IsFiniteSet(seen) /\ IsFiniteSet(ranked)
  <2>1. IsFiniteSet(1..i)
    BY FS_Interval
  <2>2. IsFiniteSet(seen)
    BY <2>1, FS_Subset
  <2> QED BY <2>2, FS_Subset
<1>2. Cardinality(seen) \in Nat /\ Cardinality(ranked) \in Nat
  BY <1>1, FS_CardinalityType
<1>3. ~IsNaN(col[i]) => Cardinality(seen) # 0
  <2>1. ~IsNaN(col[i]) => i \in seen
    OBVIOUS
  <2> HIDE DEF seen
  <2> QED BY <1>1, <2>1, FS_EmptySet
<1>4. _conviction(col, i) = IF IsNaN(col[i]) \/ Cardinality(seen) = 1 THEN Num(0)
                            ELSE <<IF far < 0 THEN -far ELSE far, Cardinality(seen)>>
  BY DEF _conviction
<1>5. Num(0) \in Fraction
  BY NumIs
<1> HIDE DEF seen, ranked
<1>6. far \in Int
  BY <1>2
<1> HIDE DEF far
<1> QED BY <1>2, <1>3, <1>4, <1>5, <1>6 DEF Fraction

Sign == {-1, 0, 1}

\* A conflict is decided for one of the factors in it.
LEMMA StrongestIsOne ==
    ASSUME NEW n \in Nat, NEW signs, DOMAIN signs = 1..n, NEW conviction,
           \A j \in 1..n : signs[j] \in Sign /\ conviction[j] \in Fraction,
           \E j \in 1..n : signs[j] # 0
    PROVE  _strongest_sign(signs, conviction) \in Sign
<1> DEFINE acting == {j \in DOMAIN signs : signs[j] # 0}
           best == {j \in acting : \A k \in acting : ~Gt(conviction[k], conviction[j])}
<1>1. IsFiniteSet(acting)
  <2>1. IsFiniteSet(1..n)
    BY FS_Interval
  <2> QED BY <2>1, FS_Subset
<1>2. best # {}
  BY <1>1, StrongestExists
<1>3. best \in SUBSET (1..n)
  OBVIOUS
<1>4. _strongest_sign(signs, conviction) = signs[CHOOSE j \in best : \A k \in best : j <= k]
  BY DEF _strongest_sign
<1> HIDE DEF best
<1>5. \E j \in best : \A k \in best : j <= k
  <2>1. best \in SUBSET Nat
    BY <1>3
  <2> QED BY <1>2, <2>1, MinOfNats
<1>6. (CHOOSE j \in best : \A k \in best : j <= k) \in best
  BY <1>5
<1> QED BY <1>3, <1>4, <1>6

LEMMA AndIsSign ==
    ASSUME NEW n \in Nat, NEW signs, DOMAIN signs = 1..n, NEW conviction,
           \A j \in 1..n : signs[j] \in Sign /\ conviction[j] \in Fraction
    PROVE  _combine_and(signs, conviction) \in Sign
<1> DEFINE held == {signs[j] : j \in DOMAIN signs}
<1>1. held = {-1, 1} => _strongest_sign(signs, conviction) \in Sign
  <2> SUFFICES ASSUME held = {-1, 1} PROVE _strongest_sign(signs, conviction) \in Sign
    OBVIOUS
  <2>1. \E j \in 1..n : signs[j] = 1
    OBVIOUS
  <2>2. \E j \in 1..n : signs[j] # 0
    BY <2>1
  <2> QED BY <2>2, StrongestIsOne
<1>2. _combine_and(signs, conviction) = IF held = {1} THEN 1 ELSE IF held = {-1} THEN -1
                                        ELSE IF held = {-1, 1} THEN _strongest_sign(signs, conviction) ELSE 0
  BY DEF _combine_and
<1> HIDE DEF held
<1> QED BY <1>1, <1>2 DEF Sign

LEMMA CombinedIsSign ==
    ASSUME NEW n \in Nat, n >= 2, NEW signs, IsColumn(signs, n), NEW conviction, IsColumn(conviction, n),
           \A j \in 1..n : signs[j] \in Sign /\ conviction[j] \in Fraction,
           NEW conj \in {"AND", "OR", "FILTER"}
    PROVE  _combine(conj, signs, conviction) \in Sign
<1>1. DOMAIN signs = 1..n /\ Len(signs) = n
  BY DEF IsColumn
<1>2. _combine_and(signs, conviction) \in Sign
  BY <1>1, AndIsSign
<1>3. _combine_or(signs, conviction) \in Sign
  <2> DEFINE held == {signs[j] : j \in DOMAIN signs}
  <2>1. {-1, 1} \subseteq held => _strongest_sign(signs, conviction) \in Sign
    <3> SUFFICES ASSUME {-1, 1} \subseteq held PROVE _strongest_sign(signs, conviction) \in Sign
      OBVIOUS
    <3>1. \E j \in 1..n : signs[j] = 1
      BY <1>1
    <3>2. \E j \in 1..n : signs[j] # 0
      BY <3>1
    <3> QED BY <1>1, <3>2, StrongestIsOne
  <2>2. _combine_or(signs, conviction) = IF {-1, 1} \subseteq held THEN _strongest_sign(signs, conviction)
                                         ELSE IF 1 \in held THEN 1 ELSE IF -1 \in held THEN -1 ELSE 0
    BY DEF _combine_or
  <2> HIDE DEF held
  <2> QED BY <2>1, <2>2 DEF Sign
<1>4. _combine_filter(signs, conviction) \in Sign
  <2>1. signs \in Seq(Sign) /\ conviction \in Seq(Fraction) /\ Len(conviction) = n
    <3>1. signs = [j \in 1..n |-> signs[j]] /\ conviction = [j \in 1..n |-> conviction[j]] /\ Len(conviction) = n
      BY DEF IsColumn
    <3>2. signs \in [1..n -> Sign] /\ conviction \in [1..n -> Fraction]
      BY <3>1
    <3> QED BY <3>1, <3>2
  <2>2. /\ Len(Tail(signs)) = n - 1 /\ Tail(signs) \in Seq(Sign)
        /\ Len(Tail(conviction)) = n - 1 /\ Tail(conviction) \in Seq(Fraction)
    BY <1>1, <2>1
  <2>3. _combine_and(Tail(signs), Tail(conviction)) \in Sign
    <3>1. PICK ss \in Seq(Sign), cc \in Seq(Fraction) :
            ss = Tail(signs) /\ cc = Tail(conviction) /\ Len(ss) = n - 1 /\ Len(cc) = n - 1
      BY <2>2
    <3>2. n - 1 \in Nat /\ DOMAIN ss = 1..(n - 1) /\ \A j \in 1..(n - 1) : ss[j] \in Sign /\ cc[j] \in Fraction
      BY <3>1
    <3> QED BY <3>1, <3>2, AndIsSign
  <2>4. signs[2] \in Sign
    OBVIOUS
  <2> QED BY <2>3, <2>4 DEF _combine_filter, Sign
<1> QED BY <1>2, <1>3, <1>4 DEF _combine

-----------------------------------------------------------------------------
(* The position on a bar, from the readings on it.                         *)

\* The position a reading is taken for.
SignalOf(func, s, x) ==
    LET one == IF IsNaN(x) THEN Unknown
               ELSE IF func.direction = "momentum" THEN momentum_signal(x, s, Lower(func, s))
               ELSE reversion_signal(x, s, Lower(func, s))
    IN  IF func.long_only THEN _long_only(one) ELSE one

LEMMA SignalIs ==
    ASSUME NEW func, NEW s, NEW x
    PROVE  SignalOf(func, s, x) \in Position /\ (SignalOf(func, s, x) = Unknown <=> IsNaN(x))
BY DEF SignalOf, momentum_signal, reversion_signal, _long_only, Position, Unknown

LEMMA PositionsTaken ==
    ASSUME NEW func, NEW s, NEW n \in Nat, NEW col, IsColumn(col, n)
    PROVE  /\ IsColumn(positions_of(func, col, s), n)
           /\ \A i \in 1..n : positions_of(func, col, s)[i] = SignalOf(func, s, col[i])
<1> DEFINE f == [i \in 1..n |-> SignalOf(func, s, col[i])]
<1>1. Len(col) = n
  BY DEF IsColumn
<1>2. positions_of(func, col, s) = <<>> \o f
  BY <1>1, Zenon DEF positions_of, Column, SignalOf
<1>3. f = [i \in 1..n |-> f[i]] /\ \A i \in 1..n : f[i] = SignalOf(func, s, col[i])
  OBVIOUS
<1> HIDE DEF f
<1>4. <<>> \o f = f /\ IsColumn(f, n)
  BY <1>3, ColumnBuilds
<1> QED BY <1>2, <1>3, <1>4

\* The reading of a factor on a bar, and the position it is taken for.
ReadingOf(frames, st, windows, j) == indicator_of(frames, st, st.subs[j], windows[j])
TakenOn(frames, st, windows, signals, j, i) ==
    SignalOf(st.subs[j].func, Threshold(st.subs[j].ind, signals[j]), ReadingOf(frames, st, windows, j)[i])

Joined(p, fr, st, windows, signals, J, i) ==
    LET sign(j) == TakenOn(fr, st, windows, signals, j, i)
    IN  \/ p = Unknown /\ \E j \in 1..J : sign(j) = Unknown
        \/ /\ \A j \in 1..J : sign(j) \in Sign
           /\ \E ss, cc : /\ IsColumn(ss, J) /\ IsColumn(cc, J)
                          /\ \A j \in 1..J : ss[j] = sign(j) /\ cc[j] \in Fraction
                          /\ p = _combine(st.conjunction, ss, cc)

ReadBarByBar(pos, n, fr, st, windows, signals, J) ==
    /\ IsColumn(pos, n) /\ n \in Nat
    /\ \A i \in 1..n : /\ J = 1 => pos[i] = TakenOn(fr, st, windows, signals, 1, i)
                       /\ J # 1 => Joined(pos[i], fr, st, windows, signals, J, i)

LEMMA PositionIs ==
    ASSUME NEW cut, NEW fr, NEW st, NEW windows, NEW signals, NEW J, IsStrategy(st, windows, J),
           SeenUpTo(cut, fr, fr, st)
    PROVE  ReadBarByBar(FinalPosition(fr, st, windows, signals), Dates(fr, st), fr, st, windows, signals, J)
<1> DEFINE n == Dates(fr, st)
           reading(j) == ReadingOf(fr, st, windows, j)
           sign(j, i) == TakenOn(fr, st, windows, signals, j, i)
           taken(col, j) == positions_of(st.subs[j].func, col, Threshold(st.subs[j].ind, signals[j]))
           cs == [j \in 1..J |-> reading(j)]
           ps == [j \in 1..J |-> taken(cs[j], j)]
           pos == FinalPosition(fr, st, windows, signals)
<1>1. J \in Nat \ {0} /\ Len(st.subs) = J
  BY DEF IsStrategy, IsColumn
<1>2. IsColumn(pos, n) /\ n \in Nat
  <2>1. Continues(FinalPosition(fr, st, windows, signals), Dates(fr, st),
                  FinalPosition(fr, st, windows, signals), Dates(fr, st))
    BY BacktestSeesNoFuture
  <2> QED BY <2>1 DEF Continues
<1>3. \A j \in 1..J : IsColumn(reading(j), n)
  <2>1. \A j \in 1..J : Continues(reading(j), n, reading(j), n)
    BY ReadingsContinue DEF ReadingOf
  <2> QED BY <2>1 DEF Continues
<1>4. \A j \in 1..J : IsColumn(taken(reading(j), j), n) /\ \A i \in 1..n : taken(reading(j), j)[i] = sign(j, i)
  BY <1>2, <1>3, PositionsTaken DEF TakenOn
<1>5. FinalPosition(fr, st, windows, signals) = PositionFrom(st, <<>> \o cs, signals)
  BY <1>1, Zenon DEF FinalPosition, Column, ReadingOf
<1>6. \A j \in 1..J, i \in 1..n : sign(j, i) \in Position
  BY SignalIs DEF TakenOn
<1> HIDE DEF reading, n, sign
<1>7. cs = [j \in 1..J |-> cs[j]] /\ \A j \in 1..J : cs[j] = reading(j)
  OBVIOUS
<1> HIDE DEF cs
<1>8. <<>> \o cs = cs /\ IsColumn(cs, J) /\ Len(cs) = J
  <2>1. <<>> \o cs = cs /\ IsColumn(cs, J)
    BY <1>1, <1>7, ColumnBuilds
  <2> QED BY <2>1 DEF IsColumn
<1>9. PositionFrom(st, cs, signals) = combine_positions(<<>> \o ps, cs, st.conjunction)
  BY <1>8, Zenon DEF PositionFrom, Column
<1> HIDE DEF taken
<1>10. ps = [j \in 1..J |-> ps[j]] /\ \A j \in 1..J : ps[j] = taken(cs[j], j)
  OBVIOUS
<1> HIDE DEF ps
<1>11. <<>> \o ps = ps /\ Len(ps) = J /\ DOMAIN ps = 1..J
  <2>1. <<>> \o ps = ps /\ IsColumn(ps, J)
    BY <1>1, <1>10, ColumnBuilds
  <2> QED BY <2>1 DEF IsColumn
<1>12. \A j \in 1..J : IsColumn(ps[j], n) /\ \A i \in 1..n : ps[j][i] = sign(j, i)
  BY <1>4, <1>7, <1>10
<1>13. pos = combine_positions(ps, cs, st.conjunction)
  BY <1>5, <1>8, <1>9, <1>11
<1>14. CASE J = 1
  <2>1. pos = ps[1]
    BY <1>11, <1>13, <1>14, Zenon DEF combine_positions
  <2>2. \A i \in 1..n : pos[i] = sign(1, i)
    BY <1>12, <1>14, <2>1
  <2> QED BY <1>2, <1>14, <2>2 DEF n, sign, ReadBarByBar
<1>15. CASE J # 1
  <2> DEFINE signs(i) == [j \in 1..J |-> ps[j][i]]
             conviction(i) == [j \in 1..J |-> _conviction(cs[j], i)]
             bar(i) == IF \E j \in 1..J : ps[j][i] = Unknown THEN Unknown
                       ELSE _combine(st.conjunction, <<>> \o signs(i), <<>> \o conviction(i))
             f == [i \in 1..n |-> bar(i)]
  <2>1. Len(ps[1]) = n
    <3>1. 1 \in 1..J
      BY <1>1
    <3>2. IsColumn(ps[1], n)
      BY <1>12, <3>1
    <3> QED BY <3>2 DEF IsColumn
  <2>2. pos = <<>> \o f
    BY <1>8, <1>11, <1>13, <1>15, <2>1, Zenon DEF combine_positions, Column
  <2>3. ASSUME NEW i \in 1..n, ~\E j \in 1..J : sign(j, i) = Unknown
        PROVE  /\ \A j \in 1..J : sign(j, i) \in Sign
               /\ \E ss, cc : /\ IsColumn(ss, J) /\ IsColumn(cc, J)
                              /\ \A j \in 1..J : ss[j] = sign(j, i) /\ cc[j] \in Fraction
                              /\ bar(i) = _combine(st.conjunction, ss, cc)
    <3>1. \A j \in 1..J : ps[j][i] = sign(j, i) /\ sign(j, i) \in Sign
      BY <1>6, <1>12, <2>3 DEF Position, Sign
    <3>2. \A j \in 1..J : _conviction(cs[j], i) \in Fraction
      <4>1. i \in Nat /\ i >= 1
        BY <1>2
      <4> QED BY <4>1, ConvictionIsFraction
    <3> PICK ss, cc : ss = signs(i) /\ cc = conviction(i)
      OBVIOUS
    <3>3. /\ ss = signs(i) /\ cc = conviction(i)
          /\ ss = [j \in 1..J |-> ss[j]] /\ cc = [j \in 1..J |-> cc[j]]
          /\ \A j \in 1..J : ss[j] = sign(j, i) /\ cc[j] \in Fraction
      BY <3>1, <3>2
    <3>4. <<>> \o ss = ss /\ IsColumn(ss, J) /\ <<>> \o cc = cc /\ IsColumn(cc, J)
      BY <1>1, <3>3, ColumnBuilds
    <3> HIDE DEF signs, conviction
    <3>5. bar(i) = _combine(st.conjunction, ss, cc)
      BY <2>3, <3>1, <3>3, <3>4
    <3> QED BY <3>1, <3>3, <3>4, <3>5
  <2>4. \A i \in 1..n : (\E j \in 1..J : sign(j, i) = Unknown) => bar(i) = Unknown
    <3> HIDE DEF signs, conviction
    <3> QED BY <1>12
  <2> HIDE DEF bar
  <2>5. f = [i \in 1..n |-> f[i]] /\ \A i \in 1..n : f[i] = bar(i)
    OBVIOUS
  <2> HIDE DEF f
  <2>6. <<>> \o f = f
    BY <1>2, <2>5, ColumnBuilds DEF n
  <2>7. \A i \in 1..n : pos[i] = bar(i)
    BY <2>2, <2>5, <2>6
  <2>8. ASSUME NEW i \in 1..n
        PROVE  Joined(pos[i], fr, st, windows, signals, J, i)
    <3>1. pos[i] = bar(i)
      BY <2>7
    <3>2. \/ pos[i] = Unknown /\ \E j \in 1..J : sign(j, i) = Unknown
          \/ /\ \A j \in 1..J : sign(j, i) \in Sign
             /\ \E ss, cc : /\ IsColumn(ss, J) /\ IsColumn(cc, J)
                            /\ \A j \in 1..J : ss[j] = sign(j, i) /\ cc[j] \in Fraction
                            /\ pos[i] = _combine(st.conjunction, ss, cc)
      BY <2>3, <2>4, <3>1
    <3> HIDE DEF pos
    <3> QED BY <3>2 DEF Joined, sign
  <2> HIDE DEF pos
  <2> QED BY <1>2, <1>15, <2>8 DEF n, pos, ReadBarByBar
<1> QED BY <1>14, <1>15

\* Whatever it reads, a strategy is long, short or flat on every bar, or has no position.
LEMMA PositionsAre ==
    ASSUME NEW cut, NEW fr, NEW st, NEW windows, NEW signals, NEW J, IsStrategy(st, windows, J),
           SeenUpTo(cut, fr, fr, st), st.conjunction \in {"AND", "OR", "FILTER"}
    PROVE  LET pos == FinalPosition(fr, st, windows, signals)
           IN  /\ IsColumn(pos, Dates(fr, st)) /\ Dates(fr, st) \in Nat
               /\ \A i \in 1..Dates(fr, st) : pos[i] \in Position
<1> DEFINE pos == FinalPosition(fr, st, windows, signals)
           sign(j, i) == TakenOn(fr, st, windows, signals, j, i)
<1>0. ReadBarByBar(pos, Dates(fr, st), fr, st, windows, signals, J)
  BY PositionIs
<1> HIDE DEF pos
<1>1. /\ IsColumn(pos, Dates(fr, st)) /\ Dates(fr, st) \in Nat
      /\ \A i \in 1..Dates(fr, st) :
           /\ J = 1 => pos[i] = sign(1, i)
           /\ J # 1 => \/ pos[i] = Unknown
                       \/ /\ \A j \in 1..J : sign(j, i) \in Sign
                          /\ \E ss, cc : /\ IsColumn(ss, J) /\ IsColumn(cc, J)
                                         /\ \A j \in 1..J : ss[j] = sign(j, i) /\ cc[j] \in Fraction
                                         /\ pos[i] = _combine(st.conjunction, ss, cc)
  BY <1>0 DEF ReadBarByBar, Joined
<1>2. \A i : sign(1, i) \in Position
  BY SignalIs DEF TakenOn
<1>3. J \in Nat /\ (J # 1 => J >= 2)
  BY DEF IsStrategy
<1> HIDE DEF pos, sign
<1>4. ASSUME NEW i \in 1..Dates(fr, st) PROVE pos[i] \in Position
  <2>1. CASE J = 1 \/ pos[i] = Unknown
    BY <1>1, <1>2, <2>1 DEF Position
  <2>2. CASE J # 1 /\ pos[i] # Unknown
    <3>1. PICK ss, cc : /\ IsColumn(ss, J) /\ IsColumn(cc, J)
                        /\ \A j \in 1..J : ss[j] \in Sign /\ cc[j] \in Fraction
                        /\ pos[i] = _combine(st.conjunction, ss, cc)
      BY <1>1, <2>2
    <3>2. pos[i] \in Sign
      BY <1>3, <2>2, <3>1, CombinedIsSign
    <3> QED BY <3>2 DEF Sign, Position
  <2> QED BY <2>1, <2>2
<1> QED BY <1>1, <1>4 DEF pos

LEMMA CountOf == ASSUME NEW n \in Nat PROVE IsFiniteSet(1..n) /\ Cardinality(1..n) = n
<1>1. PICK a \in Int : a = 1
  OBVIOUS
<1>2. IsFiniteSet(a..n) /\ Cardinality(a..n) = IF a > n THEN 0 ELSE n - a + 1
  BY FS_Interval
<1> QED BY <1>1, <1>2

LEMMA ChangeIsFraction ==
    ASSUME NEW frame, NEW n \in Nat, DOMAIN frame = 1..n,
           \A d \in 1..n : frame[d].close \in Nat \ {0}
    PROVE  \A i \in 2..n : chg(frame)[i] \in Fraction
<1> DEFINE index == Index(frame)
           change(i) == IF i = 1 THEN NaN
                        ELSE Minus(Over(Num(frame[index[i]].close), Num(frame[index[i - 1]].close)), Num(1))
           g == [i \in 1..n |-> change(i)]
<1>1. IsFiniteSet(1..n) /\ Cardinality(1..n) = n
  BY CountOf
<1>2. Len(index) = n
  BY <1>1, IndexLists DEF IsFrame, IsColumn
<1>3. \A i \in 1..n : index[i] = i
  BY IndexOfInterval
<1>4. chg(frame) = <<>> \o g
  BY <1>2, Zenon DEF chg, Column
<1>5. ASSUME NEW i \in 2..n PROVE change(i) \in Fraction
  <2>1. i \in 1..n /\ i - 1 \in 1..n /\ i # 1
    OBVIOUS
  <2>2. PICK a \in Nat \ {0}, b \in Nat \ {0} : a = frame[index[i]].close /\ b = frame[index[i - 1]].close
    BY <1>3, <2>1
  <2>3. Over(Num(a), Num(b)) = Reduced(a * 1, 1 * b)
    BY DEF Over, Num
  <2>4. a * 1 \in Int /\ 1 * b \in Nat \ {0}
    OBVIOUS
  <2>5. Over(Num(a), Num(b)) \in Fraction
    <3>1. IsLowest(Reduced(a * 1, 1 * b), a * 1, 1 * b)
      BY <2>4, ReducedIs
    <3>2. PICK z : z = Reduced(a * 1, 1 * b)
      OBVIOUS
    <3> QED BY <2>3, <3>1, <3>2 DEF IsLowest, Fraction
  <2>6. Minus(Over(Num(a), Num(b)), Num(1)) \in Fraction
    BY <2>5, NumIs, SumIsFraction
  <2> QED BY <2>1, <2>2, <2>6
<1> HIDE DEF change
<1>6. g = [i \in 1..n |-> g[i]] /\ \A i \in 1..n : g[i] = change(i)
  OBVIOUS
<1> HIDE DEF g
<1>7. <<>> \o g = g
  BY <1>6, ColumnBuilds
<1> QED BY <1>4, <1>5, <1>6, <1>7

\* The equity curve of every strategy in every market, fees paid.
THEOREM EquityIsAlwaysHonest == Spec => []EquityHonest
<1>1. MarketInv => EquityHonest
  <2> SUFFICES ASSUME MarketInv, part = "market" PROVE EquityOf(PositionOn(data))
    BY DEF EquityHonest
  <2>1. /\ ts \in Nat /\ strategy \in Strategies /\ DOMAIN data = {"main", "other"}
        /\ DOMAIN data["main"] = 1..ts /\ DOMAIN data["other"] \in SUBSET (1..ts)
        /\ \A d \in 1..ts : data["main"][d].close \in Nat \ {0}
    BY DEF MarketInv
  <2>2. PICK J \in Nat \ {0} : IsStrategy(strategy, windows_of(strategy), J)
    BY <2>1, StrategiesAre
  <2>3. /\ strategy.symbol = "main"
        /\ {strategy.symbol} \cup {strategy.subs[j].symbol : j \in DOMAIN strategy.subs} \in SUBSET {"main", "other"}
    BY <2>1, StrategiesAre
  <2>4. strategy.conjunction \in {"AND", "OR", "FILTER"}
    BY <2>1 DEF Strategies
  <2>5. IsFiniteSet(1..ts) /\ Cardinality(1..ts) = ts
    BY <2>1, FS_Interval
  <2>6. SeenUpTo(ts, data, data, strategy)
    <3>1. \A s \in {"main", "other"} : IsFrame(data[s])
      BY <2>1, <2>5, FS_Subset DEF IsFrame
    <3>2. \A s \in {"main", "other"} : DOMAIN data[s] = {d \in DOMAIN data[s] : d <= ts}
      BY <2>1
    <3> QED BY <2>1, <2>3, <3>1, <3>2 DEF SeenUpTo
  <2>7. Dates(data, strategy) = ts
    BY <2>1, <2>3, <2>5 DEF Dates
  <2>8. IsColumn(PositionOn(data), ts) /\ \A i \in 1..ts : PositionOn(data)[i] \in Position
    BY <2>2, <2>4, <2>6, <2>7, PositionsAre DEF PositionOn
  <2>9. \A i \in 2..ts : chg(data["main"])[i] \in Fraction
    <3>1. PICK frame : frame = data["main"]
      OBVIOUS
    <3> QED BY <2>1, <3>1, ChangeIsFraction
  <2>10. Cost \in Fraction
    BY DEF Cost, Fraction
  <2> QED BY <2>1, <2>8, <2>9, <2>10, EquityStaysHonest DEF EquityOf
<1> QED BY <1>1, MarketRuns, PTL

-----------------------------------------------------------------------------
(* The newest bars alone.                                                  *)

\* tail is the end of col, from its entry o + 1 on.
Ends(tail, m, col, o) ==
    /\ o \in Nat /\ m \in Nat
    /\ IsColumn(tail, m) /\ IsColumn(col, o + m)
    /\ \A i \in 1..m : col[i + o] = tail[i]

LEMMA SubSeqShift ==
    ASSUME NEW c, NEW d, NEW o \in Nat, NEW m \in Int, NEW n \in Int, \A i \in m..n : c[i + o] = d[i]
    PROVE  SubSeq(c, m + o, n + o) = SubSeq(d, m, n)
<1> DEFINE S == {d[i] : i \in m..n}
<1>1. \A i \in m..n : d[i] \in S
  OBVIOUS
<1>2. \A i \in (m + o)..(n + o) : c[i] \in S
  <2> SUFFICES ASSUME NEW i \in (m + o)..(n + o) PROVE c[i] \in S
    OBVIOUS
  <2>1. i - o \in m..n /\ (i - o) + o = i
    OBVIOUS
  <2> QED BY <2>1
<1> HIDE DEF S
<1>3. /\ SubSeq(d, m, n) \in Seq(S) /\ Len(SubSeq(d, m, n)) = (IF m <= n THEN n - m + 1 ELSE 0)
      /\ \A i \in 1..(n - m + 1) : SubSeq(d, m, n)[i] = d[m + i - 1]
  BY <1>1, SubSeqProperties
<1>4. PICK p \in Int, q \in Int : p = m + o /\ q = n + o
  OBVIOUS
<1>5. /\ SubSeq(c, p, q) \in Seq(S) /\ Len(SubSeq(c, p, q)) = (IF p <= q THEN q - p + 1 ELSE 0)
      /\ \A i \in 1..(q - p + 1) : SubSeq(c, p, q)[i] = c[p + i - 1]
  <2>1. \A i \in p..q : c[i] \in S
    BY <1>2, <1>4
  <2> QED BY <2>1, SubSeqProperties
<1>6. \A i \in 1..Len(SubSeq(d, m, n)) : SubSeq(c, p, q)[i] = SubSeq(d, m, n)[i]
  <2> SUFFICES ASSUME NEW i \in 1..Len(SubSeq(d, m, n)) PROVE SubSeq(c, p, q)[i] = SubSeq(d, m, n)[i]
    OBVIOUS
  <2>1. i \in 1..(n - m + 1) /\ i \in 1..(q - p + 1) /\ m + i - 1 \in m..n /\ p + i - 1 = (m + i - 1) + o
    BY <1>3, <1>4
  <2> QED BY <1>3, <1>5, <2>1
<1>7. Len(SubSeq(c, p, q)) = Len(SubSeq(d, m, n))
  BY <1>3, <1>4, <1>5
<1> QED BY <1>3, <1>4, <1>5, <1>6, <1>7, SeqEqual

\* A window inside the end is the window of the whole.
LEMMA WindowEnds ==
    ASSUME NEW tail, NEW m, NEW col, NEW o, Ends(tail, m, col, o),
           NEW p \in Nat \ {0}, NEW i \in 1..m, i >= p
    PROVE  Window(col, p, i + o) = Window(tail, p, i)
<1>1. o \in Nat /\ m \in Nat /\ \A k \in 1..m : col[k + o] = tail[k]
  BY DEF Ends
<1>2. i - p + 1 \in Int /\ i - p + 1 >= 1 /\ i \in Int
  OBVIOUS
<1>3. \A k \in (i - p + 1)..i : col[k + o] = tail[k]
  BY <1>1, <1>2
<1>4. SubSeq(col, (i - p + 1) + o, i + o) = SubSeq(tail, i - p + 1, i)
  <2>1. PICK a \in Int : a = i - p + 1
    BY <1>2
  <2>2. SubSeq(col, a + o, i + o) = SubSeq(tail, a, i)
    BY <1>1, <1>2, <1>3, <2>1, SubSeqShift
  <2> QED BY <2>1, <2>2
<1>5. (i - p + 1) + o = (i + o) - p + 1
  BY <1>1
<1> QED BY <1>4, <1>5 DEF Window

\* The members of a set from one of them on are the last of all its members.
LEMMA OrderedEnds ==
    ASSUME NEW D \in SUBSET Int, IsFiniteSet(D), NEW first \in Int,
           NEW E, E = {d \in D : d >= first}
    PROVE  /\ IsFiniteSet(E) /\ E \in SUBSET Int
           /\ Cardinality(D) - Cardinality(E) = Cardinality({d \in D : d < first})
           /\ Ends(Ordered(E), Cardinality(E), Ordered(D), Cardinality(D) - Cardinality(E))
<1> DEFINE B == {d \in D : d < first}
<1>1. IsFiniteSet(E) /\ IsFiniteSet(B) /\ E \in SUBSET Int
  BY FS_Subset
<1>2. \A S, T : S \in SUBSET B /\ T \in SUBSET E => Cardinality(S \cup T) = Cardinality(S) + Cardinality(T)
  <2> SUFFICES ASSUME NEW S \in SUBSET B, NEW T \in SUBSET E PROVE Cardinality(S \cup T) = Cardinality(S) + Cardinality(T)
    OBVIOUS
  <2>1. S \cap T = {}
    BY <1>1
  <2>2. IsFiniteSet(S) /\ IsFiniteSet(T)
    BY <1>1, FS_Subset
  <2>3. Cardinality(S \cup T) = Cardinality(S) + Cardinality(T) - Cardinality(S \cap T)
    BY <2>2, FS_Union
  <2>4. Cardinality(S) \in Nat /\ Cardinality(T) \in Nat /\ Cardinality(S \cap T) = 0
    BY <2>1, <2>2, FS_CardinalityType, FS_EmptySet
  <2> QED BY <2>3, <2>4
<1>3. Cardinality(D) = Cardinality(B) + Cardinality(E)
  <2>1. \A d \in D : d \in Int /\ (d < first \/ d >= first)
    OBVIOUS
  <2>2. B \in SUBSET D /\ E \in SUBSET D /\ \A d \in D : d \in B \/ d \in E
    BY <2>1
  <2> HIDE DEF B
  <2>3. D = B \cup E /\ B \in SUBSET B /\ E \in SUBSET E
    BY <2>2
  <2> QED BY <1>2, <2>3
<1>4. Cardinality(D) \in Nat /\ Cardinality(B) \in Nat /\ Cardinality(E) \in Nat
  BY <1>1, FS_CardinalityType
<1>5. \A d \in E : Rank(D, d) = Cardinality(B) + Rank(E, d)
  <2> SUFFICES ASSUME NEW d \in E PROVE Rank(D, d) = Cardinality(B) + Rank(E, d)
    OBVIOUS
  <2>1. d \in Int /\ d >= first
    BY <1>1
  <2>2. \A e \in D : e \in Int /\ (e \in B <=> e < first) /\ (e \in E <=> ~(e < first))
    OBVIOUS
  <2>3. B \in SUBSET D /\ E \in SUBSET D /\ B \in SUBSET B
    OBVIOUS
  <2> HIDE DEF B
  <2>4. PICK L, U : L = {e \in E : e <= d} /\ U = {e \in D : e <= d}
    OBVIOUS
  <2>5. L \in SUBSET E
    BY <2>4
  <2>6. \A e : e \in U <=> e \in B \/ e \in L
    <3> SUFFICES ASSUME NEW e PROVE e \in U <=> e \in B \/ e \in L
      OBVIOUS
    <3>1. e \in U <=> e \in D /\ e <= d
      BY <2>4, Zenon
    <3>2. e \in L <=> e \in E /\ e <= d
      BY <2>4, Zenon
    <3>3. CASE e \in D
      <4>1. e \in Int /\ (e \in B <=> e < first) /\ (e \in E <=> ~(e < first))
        BY <2>2, <3>3, Zenon
      <4>2. e < first => e <= d
        BY <2>1, <4>1
      <4> QED BY <3>1, <3>2, <3>3, <4>1, <4>2
    <3>4. CASE e \notin D
      BY <2>3, <3>1, <3>2, <3>4
    <3> QED BY <3>3, <3>4
  <2>7. U = B \cup L
    BY <2>6
  <2>8. Cardinality(U) = Cardinality(B) + Cardinality(L)
    BY <1>2, <2>3, <2>5, <2>7
  <2> QED BY <2>4, <2>8 DEF Rank
<1>6. ASSUME NEW i \in 1..Cardinality(E)
      PROVE  Ordered(D)[i + Cardinality(B)] = Ordered(E)[i]
  <2>1. Ordered(E)[i] \in E /\ Rank(E, Ordered(E)[i]) = i
    BY <1>1, OrderedLists
  <2>2. PICK b \in Nat, n \in Nat, m \in Nat : b = Cardinality(B) /\ n = Cardinality(D) /\ m = Cardinality(E)
    BY <1>4
  <2>3. n = b + m /\ i \in 1..m
    BY <1>3, <2>2
  <2>4. i + b \in 1..n /\ i + b = b + i
    BY <2>3
  <2>5. PICK d \in E : d = Ordered(E)[i]
    BY <2>1
  <2>6. Rank(D, d) = i + b
    BY <1>5, <2>1, <2>2, <2>4, <2>5
  <2>7. PICK e \in D : e = Ordered(D)[i + b] /\ Rank(D, e) = i + b
    BY <2>2, <2>4, OrderedLists
  <2>8. d \in D
    OBVIOUS
  <2>9. d = e
    BY <2>6, <2>7, <2>8, RankUnique
  <2> QED BY <2>2, <2>5, <2>7, <2>9
<1>7. IsColumn(Ordered(E), Cardinality(E)) /\ IsColumn(Ordered(D), Cardinality(D))
  BY <1>1, OrderedLists
<1> HIDE DEF B
<1>8. Cardinality(D) - Cardinality(E) = Cardinality(B) /\ Cardinality(B) + Cardinality(E) = Cardinality(D)
  BY <1>3, <1>4
<1> QED BY <1>1, <1>4, <1>6, <1>7, <1>8 DEF Ends, B

\* A shift keeps the size and the order of a set.
LEMMA ShiftSize ==
    ASSUME NEW E \in SUBSET Int, IsFiniteSet(E), NEW o \in Int, NEW G, G = {e + o : e \in E}
    PROVE  IsFiniteSet(G) /\ Cardinality(G) = Cardinality(E) /\ G \in SUBSET Int
<1> DEFINE f == [e \in E |-> e + o]
<1>1. f \in Surjection(E, G)
  BY DEF Surjection
<1>2. f \in Injection(E, G)
  BY DEF Injection, IsInjective
<1> HIDE DEF f
<1>3. IsFiniteSet(G) /\ Cardinality(G) = Cardinality(E)
  BY <1>1, <1>2, FS_Surjection
<1> QED BY <1>3

LEMMA OrderedShift ==
    ASSUME NEW E \in SUBSET Int, IsFiniteSet(E), NEW o \in Int, NEW G, G = {e + o : e \in E},
           NEW i \in 1..Cardinality(E)
    PROVE  Ordered(G)[i] = Ordered(E)[i] + o
<1>1. IsFiniteSet(G) /\ Cardinality(G) = Cardinality(E) /\ G \in SUBSET Int
  BY ShiftSize
<1>2. Ordered(E)[i] \in E /\ Rank(E, Ordered(E)[i]) = i
  BY OrderedLists
<1>3. Ordered(G)[i] \in G /\ Rank(G, Ordered(G)[i]) = i
  BY <1>1, OrderedLists
<1>4. PICK d \in E : d = Ordered(E)[i]
  BY <1>2
<1>5. {g \in G : g <= d + o} = {e + o : e \in {x \in E : x <= d}}
  OBVIOUS
<1>6. Rank(G, d + o) = Rank(E, d)
  <2>1. PICK L : L = {x \in E : x <= d}
    OBVIOUS
  <2>2. L \in SUBSET E
    BY <2>1
  <2>3. IsFiniteSet(L) /\ L \in SUBSET Int
    BY <2>2, FS_Subset
  <2>4. PICK U : U = {e + o : e \in L}
    OBVIOUS
  <2>5. Cardinality(U) = Cardinality(L)
    BY <2>3, <2>4, ShiftSize
  <2>6. {g \in G : g <= d + o} = U
    BY <1>5, <2>1, <2>4
  <2> QED BY <2>1, <2>5, <2>6 DEF Rank
<1>7. d + o \in G
  OBVIOUS
<1> QED BY <1>1, <1>2, <1>3, <1>4, <1>6, <1>7, RankUnique

LEMMA FiniteIs ==
    ASSUME NEW col, NEW n \in Nat, IsColumn(col, n), NEW K, K = {k \in 1..n : ~IsNaN(col[k])}
    PROVE  /\ IsFiniteSet(K) /\ K \in SUBSET (1..n) /\ Cardinality(K) \in Nat
           /\ IsColumn(Finite(col), Cardinality(K))
           /\ \A i \in 1..Cardinality(K) : Finite(col)[i] = col[Ordered(K)[i]]
<1>1. IsFiniteSet(K) /\ K \in SUBSET (1..n) /\ K \in SUBSET Int
  <2>1. IsFiniteSet(1..n)
    BY FS_Interval
  <2> QED BY <2>1, FS_Subset
<1>2. Cardinality(K) \in Nat /\ Len(Ordered(K)) = Cardinality(K)
  BY <1>1, OrderedLists DEF IsColumn
<1> DEFINE g == [i \in 1..Cardinality(K) |-> col[Ordered(K)[i]]]
<1>3. Finite(col) = <<>> \o g
  <2>1. {k \in DOMAIN col : ~IsNaN(col[k])} = K
    BY DEF IsColumn
  <2> QED BY <1>2, <2>1, Zenon DEF Finite, Column
<1>4. g = [i \in 1..Cardinality(K) |-> g[i]] /\ \A i \in 1..Cardinality(K) : g[i] = col[Ordered(K)[i]]
  OBVIOUS
<1> HIDE DEF g
<1>5. <<>> \o g = g /\ IsColumn(g, Cardinality(K))
  BY <1>2, <1>4, ColumnBuilds
<1> QED BY <1>1, <1>2, <1>3, <1>4, <1>5

\* The known entries of the end of a column are the last of its known entries.
LEMMA FiniteEnds ==
    ASSUME NEW tail, NEW m, NEW col, NEW o, Ends(tail, m, col, o)
    PROVE  \E q \in Nat : Ends(Finite(tail), Len(Finite(tail)), Finite(col), q)
<1>1. o \in Nat /\ m \in Nat /\ o + m \in Nat /\ IsColumn(tail, m) /\ IsColumn(col, o + m)
      /\ \A i \in 1..m : col[i + o] = tail[i]
  BY DEF Ends
<1> DEFINE T == {k \in 1..m : ~IsNaN(tail[k])}
           C == {k \in 1..(o + m) : ~IsNaN(col[k])}
           E == {d \in C : d >= o + 1}
           t == Cardinality(T)
           q == Cardinality(C) - Cardinality(E)
<1>2. /\ IsFiniteSet(T) /\ T \in SUBSET (1..m) /\ t \in Nat
      /\ IsColumn(Finite(tail), t) /\ \A i \in 1..t : Finite(tail)[i] = tail[Ordered(T)[i]]
  BY <1>1, FiniteIs
<1>3. /\ IsFiniteSet(C) /\ C \in SUBSET (1..(o + m)) /\ Cardinality(C) \in Nat
      /\ IsColumn(Finite(col), Cardinality(C))
      /\ \A i \in 1..Cardinality(C) : Finite(col)[i] = col[Ordered(C)[i]]
  BY <1>1, FiniteIs
<1>4. E = {k + o : k \in T}
  <2>1. ASSUME NEW d \in E PROVE d \in {k + o : k \in T}
    <3>1. d - o \in 1..m /\ (d - o) + o = d
      BY <1>1
    <3>2. d - o \in T
      BY <1>1, <3>1
    <3> QED BY <3>1, <3>2
  <2>2. ASSUME NEW k \in T PROVE k + o \in E
    BY <1>1
  <2> QED BY <2>1, <2>2
<1>5. T \in SUBSET Int /\ C \in SUBSET Int /\ o \in Int /\ o + 1 \in Int
  BY <1>1, <1>2, <1>3
<1>6. Cardinality(E) = t /\ \A i \in 1..t : Ordered(E)[i] = Ordered(T)[i] + o
  <2> HIDE DEF E, T, t
  <2>1. Cardinality(T) = t
    BY DEF t
  <2>2. PICK A \in SUBSET Int : A = T
    BY <1>5
  <2>3. PICK G : G = {k + o : k \in A}
    OBVIOUS
  <2>4. G = E /\ IsFiniteSet(A) /\ Cardinality(A) = t
    BY <1>2, <1>4, <2>1, <2>2, <2>3
  <2>5. Cardinality(G) = t
    <3>1. o \in Int /\ IsFiniteSet(A)
      BY <1>5, <2>4
    <3>2. IsFiniteSet(G) /\ Cardinality(G) = Cardinality(A) /\ G \in SUBSET Int
      BY <2>3, <3>1, ShiftSize, Zenon
    <3> QED BY <2>4, <3>2
  <2>6. \A i \in 1..Cardinality(A) : Ordered(G)[i] = Ordered(A)[i] + o
    BY <1>5, <2>3, <2>4, OrderedShift
  <2> QED BY <2>2, <2>4, <2>5, <2>6
<1>7. Ends(Ordered(E), Cardinality(E), Ordered(C), q)
  <2> HIDE DEF C
  <2> QED BY <1>3, <1>5, OrderedEnds
<1>8. \A i \in 1..t : Ordered(T)[i] \in T
  BY <1>2, <1>5, OrderedLists
<1> HIDE DEF T, C, E
<1>9. q \in Nat /\ q + t = Cardinality(C) /\ \A i \in 1..t : Ordered(C)[i + q] = Ordered(E)[i]
  <2>1. q \in Nat /\ \A i \in 1..t : Ordered(C)[i + q] = Ordered(E)[i]
    BY <1>6, <1>7 DEF Ends
  <2>2. q + t = Cardinality(C)
    BY <1>2, <1>3, <1>6
  <2> QED BY <2>1, <2>2
<1> HIDE DEF q, t
<1>10. ASSUME NEW i \in 1..t PROVE Finite(col)[i + q] = Finite(tail)[i]
  <2>1. i + q \in 1..Cardinality(C)
    BY <1>2, <1>9
  <2>2. Finite(col)[i + q] = col[Ordered(T)[i] + o]
    BY <1>3, <1>6, <1>9, <2>1
  <2>3. Ordered(T)[i] \in 1..m
    BY <1>2, <1>8
  <2> QED BY <1>1, <1>2, <2>2, <2>3
<1>11. Len(Finite(tail)) = t
  BY <1>2 DEF IsColumn
<1>12. Ends(Finite(tail), t, Finite(col), q)
  BY <1>2, <1>3, <1>9, <1>10 DEF Ends
<1> QED BY <1>9, <1>11, <1>12

\* The first entries of a column.
LEMMA FirstEntries ==
    ASSUME NEW col, NEW n \in Nat, IsColumn(col, n), NEW i \in 0..n
    PROVE  IsColumn(SubSeq(col, 1, i), i) /\ \A k \in 1..i : SubSeq(col, 1, i)[k] = col[k]
<1> DEFINE S == {col[k] : k \in 1..n}
<1>1. \A k \in 1..i : col[k] \in S
  OBVIOUS
<1> HIDE DEF S
<1>2. /\ SubSeq(col, 1, i) \in Seq(S) /\ Len(SubSeq(col, 1, i)) = (IF 1 <= i THEN i - 1 + 1 ELSE 0)
      /\ \A k \in 1..(i - 1 + 1) : SubSeq(col, 1, i)[k] = col[1 + k - 1]
  BY <1>1, SubSeqProperties
<1>3. i - 1 + 1 = i /\ \A k \in 1..i : 1 + k - 1 = k
  OBVIOUS
<1>4. PICK c \in Seq(S) : c = SubSeq(col, 1, i) /\ Len(c) = i
  <2>1. (IF 1 <= i THEN i - 1 + 1 ELSE 0) = i
    OBVIOUS
  <2> QED BY <1>2, <2>1
<1>5. c = [k \in 1..i |-> c[k]]
  BY <1>4
<1> QED BY <1>2, <1>3, <1>4, <1>5 DEF IsColumn

\* An entry of a window.
LEMMA WindowEntry ==
    ASSUME NEW col, NEW p \in Nat \ {0}, NEW i \in Nat, i >= p, NEW k \in 1..p
    PROVE  k \in DOMAIN Window(col, p, i) /\ Window(col, p, i)[k] = col[i - p + k]
<1> DEFINE S == {col[x] : x \in (i - p + 1)..i}
<1>1. \A x \in (i - p + 1)..i : col[x] \in S
  OBVIOUS
<1> HIDE DEF S
<1>2. PICK a \in Int : a = i - p + 1
  OBVIOUS
<1>3. /\ SubSeq(col, a, i) \in Seq(S) /\ Len(SubSeq(col, a, i)) = (IF a <= i THEN i - a + 1 ELSE 0)
      /\ \A x \in 1..(i - a + 1) : SubSeq(col, a, i)[x] = col[a + x - 1]
  BY <1>1, <1>2, SubSeqProperties
<1>4. i - a + 1 = p /\ a <= i /\ a + k - 1 = i - p + k
  BY <1>2
<1>5. k \in DOMAIN SubSeq(col, a, i) /\ SubSeq(col, a, i)[k] = col[i - p + k]
  BY <1>3, <1>4
<1> QED BY <1>2, <1>5 DEF Window

\* A reading on the newest bars alone is none, or the reading on all of them.
LEMMA RollingEnds ==
    ASSUME NEW tail, NEW m, NEW col, NEW o, Ends(tail, m, col, o), NEW p \in Nat \ {0}, NEW i \in 1..m
    PROVE  IF i >= p THEN Rolling(col, p, i + o) = Rolling(tail, p, i) ELSE Rolling(tail, p, i) = NaN
<1>1. CASE i >= p
  <2>1. Window(col, p, i + o) = Window(tail, p, i)
    BY <1>1, WindowEnds
  <2>2. ~(i + o < p) /\ ~(i < p)
    BY <1>1 DEF Ends
  <2> QED BY <1>1, <2>1, <2>2 DEF Rolling
<1>2. CASE ~(i >= p)
  <2>1. i < p
    BY <1>2
  <2> QED BY <1>2, <2>1 DEF Rolling
<1> QED BY <1>1, <1>2

LEMMA BollingerEnds ==
    ASSUME NEW tail, NEW m, NEW col, NEW o, Ends(tail, m, col, o), NEW p \in Nat \ {0}, NEW i \in 1..m
    PROVE  IF i >= p THEN Bollinger(col, p, i + o) = Bollinger(tail, p, i) ELSE Bollinger(tail, p, i) = NaN
<1>1. CASE i >= p
  <2>1. Window(col, p, i + o) = Window(tail, p, i)
    BY <1>1, WindowEnds
  <2>2. ~(i + o < p) /\ ~(i < p)
    BY <1>1 DEF Ends
  <2> QED BY <1>1, <2>1, <2>2 DEF Bollinger
<1>2. CASE ~(i >= p)
  <2>1. i < p
    BY <1>2
  <2> QED BY <1>2, <2>1 DEF Bollinger
<1> QED BY <1>1, <1>2

\* The changes of the end of a column are the last of its changes.
LEMMA ChangesEnd ==
    ASSUME NEW tail, NEW m, NEW col, NEW o, Ends(tail, m, col, o), m >= 1
    PROVE  \E q \in Nat : Ends(Changes(tail), Len(Changes(tail)), Changes(col), q)
<1>1. o \in Nat /\ m \in Nat /\ Len(tail) = m /\ Len(col) = o + m /\ \A i \in 1..m : col[i + o] = tail[i]
  BY DEF Ends, IsColumn
<1> DEFINE change(c, k) == Minus(c[k + 1], c[k])
           f == [k \in 1..(m - 1) |-> change(tail, k)]
           g == [k \in 1..(o + m - 1) |-> change(col, k)]
<1>2. Changes(tail) = Finite(<<>> \o f) /\ Changes(col) = Finite(<<>> \o g)
  <2>1. Len(tail) - 1 = m - 1 /\ Len(col) - 1 = o + m - 1
    BY <1>1
  <2> QED BY <2>1, Zenon DEF Changes, Column
<1>3. \A k \in 1..(m - 1) : change(col, k + o) = change(tail, k)
  <2> SUFFICES ASSUME NEW k \in 1..(m - 1) PROVE change(col, k + o) = change(tail, k)
    OBVIOUS
  <2>1. k \in 1..m /\ k + 1 \in 1..m /\ (k + 1) + o = (k + o) + 1
    BY <1>1
  <2>2. col[k + o] = tail[k] /\ col[(k + o) + 1] = tail[k + 1]
    BY <1>1, <2>1
  <2> QED BY <2>2
<1> HIDE DEF change
<1>4. \A k \in 1..(m - 1) : k + o \in 1..(o + m - 1)
  BY <1>1
<1>5. /\ f = [k \in 1..(m - 1) |-> f[k]] /\ g = [k \in 1..(o + m - 1) |-> g[k]]
      /\ \A k \in 1..(m - 1) : g[k + o] = f[k]
  BY <1>3, <1>4
<1> HIDE DEF f, g
<1>6. PICK a \in Nat, b \in Nat : a = m - 1 /\ b = o + m - 1 /\ b = o + a
  BY <1>1
<1>7. <<>> \o f = f /\ IsColumn(f, a) /\ <<>> \o g = g /\ IsColumn(g, b)
  BY <1>5, <1>6, ColumnBuilds
<1>8. Ends(f, a, g, o)
  BY <1>1, <1>5, <1>6, <1>7 DEF Ends
<1> QED BY <1>2, <1>7, <1>8, FiniteEnds

LEMMA RsiEnds ==
    ASSUME NEW tail, NEW m, NEW col, NEW o, Ends(tail, m, col, o), NEW p \in Nat \ {0}, NEW i \in 1..m
    PROVE  IF i # 1 /\ Len(Changes(SubSeq(tail, 1, i))) >= p
           THEN Rsi(col, p, i + o) = Rsi(tail, p, i) ELSE Rsi(tail, p, i) = NaN
<1>1. /\ o \in Nat /\ m \in Nat /\ o + m \in Nat /\ IsColumn(tail, m) /\ IsColumn(col, o + m)
      /\ \A k \in 1..m : col[k + o] = tail[k]
  BY DEF Ends
<1>2. PICK u, v : u = SubSeq(tail, 1, i) /\ v = SubSeq(col, 1, i + o)
  OBVIOUS
<1>3. IsColumn(u, i) /\ \A k \in 1..i : u[k] = tail[k]
  BY <1>1, <1>2, FirstEntries
<1>4. IsColumn(v, o + i) /\ \A k \in 1..(o + i) : v[k] = col[k]
  <2>1. i + o \in 0..(o + m) /\ i + o = o + i
    BY <1>1
  <2> QED BY <1>1, <1>2, <2>1, FirstEntries
<1>5. \A k \in 1..i : k \in 1..m /\ k + o \in 1..(o + i)
  BY <1>1
<1>6. Ends(u, i, v, o)
  BY <1>1, <1>3, <1>4, <1>5 DEF Ends
<1>7. PICK q \in Nat : Ends(Changes(u), Len(Changes(u)), Changes(v), q)
  BY <1>6, ChangesEnd
<1>8. PICK a, b, t : a = Changes(u) /\ b = Changes(v) /\ t = Len(Changes(u))
  OBVIOUS
<1>9. Ends(a, t, b, q) /\ t \in Nat /\ Len(b) = q + t /\ Len(a) = t
  BY <1>7, <1>8 DEF Ends, IsColumn
<1>10. CASE i # 1 /\ t >= p
  <2>1. t \in 1..t /\ q + t = t + q /\ ~(t < p) /\ ~(q + t < p)
    BY <1>9, <1>10
  <2>2. Window(b, p, Len(b)) = Window(a, p, Len(a))
    BY <1>9, <1>10, <2>1, WindowEnds
  <2>3. i - 1 \in 1..m /\ (i - 1) + o = (i + o) - 1 /\ i + o # 1
    BY <1>1, <1>10
  <2>4. col[i + o] = tail[i] /\ col[(i + o) - 1] = tail[i - 1]
    BY <1>1, <2>3
  <2>5. Rsi(tail, p, i) = IF i = 1 \/ Len(a) < p THEN NaN
                          ELSE IF IsNaN(Minus(tail[i], tail[i - 1])) THEN NaN
                          ELSE UpShare(Window(a, p, Len(a)))
    BY <1>2, <1>8, Zenon DEF Rsi
  <2>6. Rsi(col, p, i + o) = IF i + o = 1 \/ Len(b) < p THEN NaN
                             ELSE IF IsNaN(Minus(col[i + o], col[(i + o) - 1])) THEN NaN
                             ELSE UpShare(Window(b, p, Len(b)))
    BY <1>2, <1>8, Zenon DEF Rsi
  <2>7. Rsi(col, p, i + o) = Rsi(tail, p, i)
    BY <1>9, <1>10, <2>1, <2>2, <2>3, <2>4, <2>5, <2>6
  <2> QED BY <1>2, <1>8, <1>10, <2>7
<1>11. CASE ~(i # 1 /\ t >= p)
  <2>1. i = 1 \/ t < p
    BY <1>9, <1>11
  <2>2. Rsi(tail, p, i) = NaN
    BY <1>2, <1>8, <2>1, Zenon DEF Rsi
  <2> QED BY <1>2, <1>8, <1>11, <2>2
<1> QED BY <1>10, <1>11

LEMMA StochasticEnds ==
    ASSUME NEW tail, NEW m, NEW bars, NEW o, Ends(tail, m, bars, o), NEW p \in Nat \ {0}, NEW i \in 1..m
    PROVE  IF i >= 2 * p - 1 THEN Stochastic(bars, p, i + o) = Stochastic(tail, p, i)
           ELSE Stochastic(tail, p, i) = NaN
<1>1. o \in Nat /\ m \in Nat /\ o + m \in Nat /\ Len(tail) = m /\ Len(bars) = o + m
  BY DEF Ends, IsColumn
<1> DEFINE entry(b, k) == IF k < p THEN NaN ELSE FastK(Window(b, p, k))
           f == [k \in 1..m |-> entry(tail, k)]
           g == [k \in 1..(o + m) |-> entry(bars, k)]
<1>2. Stochastic(tail, p, i) = Rolling(<<>> \o f, p, i)
  BY <1>1, Zenon DEF Stochastic, Column
<1>3. Stochastic(bars, p, i + o) = Rolling(<<>> \o g, p, i + o)
  BY <1>1, Zenon DEF Stochastic, Column
<1>4. \A k \in 1..m : k >= p => entry(bars, k + o) = entry(tail, k)
  <2> SUFFICES ASSUME NEW k \in 1..m, k >= p PROVE entry(bars, k + o) = entry(tail, k)
    OBVIOUS
  <2>1. Window(bars, p, k + o) = Window(tail, p, k)
    BY WindowEnds
  <2>2. ~(k + o < p) /\ ~(k < p)
    BY <1>1
  <2> QED BY <2>1, <2>2
<1>5. \A k \in 1..m : k < p => entry(tail, k) = NaN
  OBVIOUS
<1> HIDE DEF entry
<1>6. /\ f = [k \in 1..m |-> f[k]] /\ g = [k \in 1..(o + m) |-> g[k]]
      /\ \A k \in 1..m : f[k] = entry(tail, k) /\ g[k + o] = entry(bars, k + o)
  BY <1>1
<1> HIDE DEF f, g
<1>7. <<>> \o f = f /\ <<>> \o g = g
  BY <1>1, <1>6, ColumnBuilds
<1>8. CASE i >= 2 * p - 1
  <2>1. i - p + 1 \in Int /\ i - p + 1 >= p /\ ~(i < p) /\ ~(i + o < p)
    BY <1>1, <1>8
  <2>2. \A k \in (i - p + 1)..i : g[k + o] = f[k]
    <3> SUFFICES ASSUME NEW k \in (i - p + 1)..i PROVE g[k + o] = f[k]
      OBVIOUS
    <3>1. k \in 1..m /\ k >= p
      BY <1>1, <2>1
    <3>2. f[k] = entry(tail, k) /\ g[k + o] = entry(bars, k + o)
      BY <1>6, <3>1
    <3> QED BY <1>4, <3>1, <3>2
  <2>3. SubSeq(g, (i - p + 1) + o, i + o) = SubSeq(f, i - p + 1, i)
    BY <1>1, <2>1, <2>2, SubSeqShift
  <2>4. (i - p + 1) + o = (i + o) - p + 1
    BY <1>1
  <2>5. Window(g, p, i + o) = Window(f, p, i)
    BY <2>3, <2>4 DEF Window
  <2>6. Rolling(g, p, i + o) = Rolling(f, p, i)
    BY <2>1, <2>5 DEF Rolling
  <2> QED BY <1>2, <1>3, <1>7, <1>8, <2>6
<1>9. CASE ~(i >= 2 * p - 1)
  <2>1. Rolling(f, p, i) = NaN
    <3>1. CASE i < p
      BY <3>1 DEF Rolling
    <3>2. CASE i >= p
      <4>1. 1 \in 1..p /\ i - p + 1 \in 1..m /\ i - p + 1 < p
        BY <1>1, <1>9, <3>2
      <4>2. 1 \in DOMAIN Window(f, p, i) /\ Window(f, p, i)[1] = f[i - p + 1]
        BY <1>1, <3>2, <4>1, WindowEntry
      <4>3. f[i - p + 1] = NaN
        BY <1>5, <1>6, <4>1
      <4>4. IsNaN(Window(f, p, i)[1])
        BY <4>2, <4>3 DEF IsNaN, NaN
      <4> QED BY <4>2, <4>4, Zenon DEF Rolling
    <3> QED BY <3>1, <3>2
  <2> QED BY <1>2, <1>7, <1>9, <2>1
<1> QED BY <1>8, <1>9

\* The reading of an indicator at a bar.
Reading(name, frame, p, i) == CASE name = "sma" -> Rolling(frame.factor, p, i)
                                [] name = "ema" -> Ema(frame.factor, p, i)
                                [] name = "rsi" -> Rsi(frame.factor, p, i)
                                [] name = "bollinger" -> Bollinger(frame.factor, p, i)
                                [] name = "stochastic" -> Stochastic(frame.bars, p, i)

LEMMA IndicatorIs ==
    ASSUME NEW name \in IndicatorName, NEW frame, NEW p, NEW n \in Nat, IsColumn(frame.factor, n)
    PROVE  IsColumn(indicator(name, frame, p), n) /\ \A i \in 1..n : indicator(name, frame, p)[i] = Reading(name, frame, p, i)
<1> DEFINE f == [i \in 1..n |-> Reading(name, frame, p, i)]
<1>1. Len(frame.factor) = n
  BY DEF IsColumn
<1>2. indicator(name, frame, p) = <<>> \o f
  <2>1. CASE name = "sma"
    BY <1>1, <2>1, Zenon DEF indicator, Column, Reading
  <2>2. CASE name = "ema"
    BY <1>1, <2>2, Zenon DEF indicator, Column, Reading
  <2>3. CASE name = "rsi"
    BY <1>1, <2>3, Zenon DEF indicator, Column, Reading
  <2>4. CASE name = "bollinger"
    BY <1>1, <2>4, Zenon DEF indicator, Column, Reading
  <2>5. CASE name = "stochastic"
    BY <1>1, <2>5, Zenon DEF indicator, Column, Reading
  <2> QED BY <2>1, <2>2, <2>3, <2>4, <2>5 DEF IndicatorName
<1>3. f = [i \in 1..n |-> f[i]] /\ \A i \in 1..n : f[i] = Reading(name, frame, p, i)
  OBVIOUS
<1> HIDE DEF f
<1>4. <<>> \o f = f /\ IsColumn(f, n)
  BY <1>3, ColumnBuilds
<1> QED BY <1>2, <1>3, <1>4

\* Enough of the newest bars for the reading at the last of them: all there are, or
\* three windows, which for the relative strength hold a window of changes.
Enough(name, tail, m, o, p) ==
    o = 0 \/ (m >= 3 * p /\ (name = "rsi" => Len(Changes(tail.factor)) >= p))

IndicatorEnds(name, tail, m, frame, o, p, i) ==
    LET t == indicator(name, tail, p)
        c == indicator(name, frame, p)
    IN  /\ IsColumn(t, m) /\ IsColumn(c, o + m)
        /\ ~IsNaN(t[i]) => c[i + o] = t[i]
        /\ (i = m /\ Enough(name, tail, m, o, p)) => c[i + o] = t[i]

\* All indicators but the exponential average, which runs from the first bar loaded.
LEMMA ReadingEnds ==
    ASSUME NEW name \in IndicatorName, name # "ema", NEW p \in Nat \ {0},
           NEW tail, NEW m, NEW frame, NEW o,
           Ends(tail.factor, m, frame.factor, o), Ends(tail.bars, m, frame.bars, o), NEW i \in 1..m
    PROVE  IndicatorEnds(name, tail, m, frame, o, p, i)
<1>1. /\ o \in Nat /\ m \in Nat /\ o + m \in Nat /\ i \in Int /\ i >= 1
      /\ IsColumn(tail.factor, m) /\ IsColumn(frame.factor, o + m)
      /\ IsColumn(tail.bars, m) /\ IsColumn(frame.bars, o + m)
  BY DEF Ends
<1> DEFINE t == indicator(name, tail, p)
           c == indicator(name, frame, p)
<1>2. /\ IsColumn(t, m) /\ t[i] = Reading(name, tail, p, i)
      /\ IsColumn(c, o + m) /\ c[i + o] = Reading(name, frame, p, i + o)
  <2>1. i + o \in 1..(o + m)
    BY <1>1
  <2> QED BY <1>1, <2>1, IndicatorIs
<1>3. IsNaN(NaN)
  BY DEF IsNaN, NaN
<1>4. CASE o = 0
  <2>1. PICK tf, tb, cf, cb : tf = tail.factor /\ tb = tail.bars /\ cf = frame.factor /\ cb = frame.bars
    OBVIOUS
  <2>2. \A k \in 1..m : cf[k] = tf[k] /\ cb[k] = tb[k]
    <3>1. \A k \in 1..m : k + o = k
      BY <1>4
    <3>2. \A k \in 1..m : cf[k + o] = tf[k] /\ cb[k + o] = tb[k]
      BY <2>1 DEF Ends
    <3> QED BY <3>1, <3>2
  <2>3. m <= m /\ o + m = m
    BY <1>1, <1>4
  <2>4. Continues(cf, m, tf, m) /\ Continues(cb, m, tb, m)
    BY <1>1, <2>1, <2>2, <2>3 DEF Continues
  <2>5. Continues(c, m, t, m)
    BY <2>1, <2>4, IndicatorContinues
  <2>6. i + o = i
    BY <1>1, <1>4
  <2>7. c[i + o] = t[i]
    BY <2>5, <2>6 DEF Continues
  <2> QED BY <1>2, <2>7 DEF IndicatorEnds
<1>5. CASE o # 0
  <2> DEFINE known == ~IsNaN(t[i]) \/ (i = m /\ m >= 3 * p /\ (name = "rsi" => Len(Changes(tail.factor)) >= p))
  <2> SUFFICES ASSUME known PROVE c[i + o] = t[i]
    BY <1>2, <1>5 DEF Enough, IndicatorEnds
  <2>1. CASE name = "sma"
    <3>1. i >= p
      BY <1>1, <1>2, <1>3, <2>1, RollingEnds DEF Reading
    <3> QED BY <1>2, <2>1, <3>1, RollingEnds DEF Reading
  <2>2. CASE name = "bollinger"
    <3>1. i >= p
      BY <1>1, <1>2, <1>3, <2>2, BollingerEnds DEF Reading
    <3> QED BY <1>2, <2>2, <3>1, BollingerEnds DEF Reading
  <2>3. CASE name = "stochastic"
    <3>1. i >= 2 * p - 1
      BY <1>1, <1>2, <1>3, <2>3, StochasticEnds DEF Reading
    <3> QED BY <1>2, <2>3, <3>1, StochasticEnds DEF Reading
  <2>4. CASE name = "rsi"
    <3>1. PICK f, g : f = tail.factor /\ g = frame.factor
      OBVIOUS
    <3>2. t[i] = Rsi(f, p, i) /\ c[i + o] = Rsi(g, p, i + o)
      BY <1>2, <2>4, <3>1 DEF Reading
    <3>3. IF i # 1 /\ Len(Changes(SubSeq(f, 1, i))) >= p
          THEN Rsi(g, p, i + o) = Rsi(f, p, i) ELSE Rsi(f, p, i) = NaN
      BY <3>1, RsiEnds
    <3>4. i = m => SubSeq(f, 1, i) = f
      <4>1. Continues(f, m, f, m)
        BY <1>1, <3>1 DEF Continues
      <4> QED BY <4>1, FirstPart
    <3>5. i # 1 /\ Len(Changes(SubSeq(f, 1, i))) >= p
      <4>1. CASE ~IsNaN(t[i])
        BY <1>3, <3>2, <3>3, <4>1
      <4>2. CASE i = m /\ m >= 3 * p /\ Len(Changes(f)) >= p
        <5>1. i # 1
          BY <1>1, <4>2
        <5> QED BY <3>4, <4>2, <5>1
      <4> QED BY <2>4, <3>1, <4>1, <4>2
    <3> QED BY <3>2, <3>3, <3>5
  <2> QED BY <2>1, <2>2, <2>3, <2>4 DEF IndicatorName
<1> QED BY <1>4, <1>5

-----------------------------------------------------------------------------
(* What a live evaluation loads.                                           *)

LEMMA MaxWindowIs ==
    ASSUME NEW J \in Nat \ {0}, NEW windows, DOMAIN windows = 1..J, \A j \in 1..J : windows[j] \in Nat \ {0}
    PROVE  MaxWindow(windows) \in Nat \ {0} /\ \A j \in 1..J : windows[j] <= MaxWindow(windows)
<1>1. /\ Range(windows) = {windows[j] : j \in 1..J}
      /\ Range(windows) \in SUBSET Int /\ Range(windows) # {} /\ IsFiniteSet(Range(windows))
  <2>1. Range(windows) = {windows[j] : j \in 1..J}
    BY DEF Range
  <2> DEFINE f == [j \in 1..J |-> windows[j]]
  <2>2. f \in Surjection(1..J, Range(windows))
    BY <2>1 DEF Surjection
  <2>3. IsFiniteSet(1..J)
    BY FS_Interval
  <2> HIDE DEF f
  <2>4. IsFiniteSet(Range(windows))
    BY <2>2, <2>3, FS_Surjection
  <2>5. 1 \in 1..J
    OBVIOUS
  <2> QED BY <2>1, <2>4, <2>5
<1>2. \E w \in Range(windows) : \A v \in Range(windows) : v <= w
  BY <1>1, LatestExists
<1>3. MaxWindow(windows) \in Range(windows) /\ \A v \in Range(windows) : v <= MaxWindow(windows)
  BY <1>2 DEF MaxWindow
<1> QED BY <1>1, <1>3

Symbols(st) == {st.symbol} \cup {st.subs[j].symbol : j \in DOMAIN st.subs}

\* The newest dates of the traded product, as many as are kept.
From(D, first) == {d \in D : d >= first}

LEMMA NewestDates ==
    ASSUME NEW D \in SUBSET Int, IsFiniteSet(D), D # {}, NEW kept \in Nat \ {0},
           NEW n, n = Cardinality(D), NEW m, m = (IF n > kept THEN kept ELSE n),
           NEW first, first = Ordered(D)[IF n > kept THEN n - kept + 1 ELSE 1],
           NEW newest, newest = From(D, first)
    PROVE  /\ n \in Nat /\ m \in 1..n /\ first \in Int
           /\ IsFiniteSet(newest) /\ Cardinality(newest) = m
           /\ Ends(Ordered(newest), m, Ordered(D), n - m)
<1>1. n \in Nat \ {0}
  BY FS_CardinalityType, FS_EmptySet
<1>2. m \in 1..n /\ n - m + 1 \in 1..n /\ (IF n > kept THEN n - kept + 1 ELSE 1) = n - m + 1
  BY <1>1
<1>3. first \in D /\ Rank(D, first) = n - m + 1 /\ first \in Int
  BY <1>2, OrderedLists
<1> DEFINE B == {d \in D : d < first}
           E == {d \in D : d >= first}
<1>4. Cardinality(B) = n - m
  <2> DEFINE U == {d \in D : d <= first}
  <2>1. IsFiniteSet(U) /\ first \in U /\ B = U \ {first}
    <3>1. U \in SUBSET D /\ first \in U
      BY <1>3
    <3>2. \A d \in D : d \in Int /\ (d < first <=> d <= first /\ d # first)
      BY <1>3
    <3>3. B = U \ {first}
      BY <3>2
    <3> HIDE DEF U, B
    <3> QED BY <3>1, <3>3, FS_Subset
  <2>2. Cardinality(U) = n - m + 1
    BY <1>3 DEF Rank
  <2> HIDE DEF U
  <2>3. Cardinality(U \ {first}) = Cardinality(U) - 1
    <3>1. PICK u, x : u = U /\ x = first
      OBVIOUS
    <3>2. IsFiniteSet(u) /\ x \in u
      BY <2>1, <3>1
    <3>3. Cardinality(u \ {x}) = Cardinality(u) - 1
      BY <3>2, FS_RemoveElement
    <3> QED BY <3>1, <3>3
  <2>4. Cardinality(B) = Cardinality(U) - 1
    BY <2>1, <2>3
  <2> HIDE DEF B
  <2>5. n \in Int /\ m \in Int
    BY <1>1, <1>2
  <2> QED BY <2>2, <2>4, <2>5
<1>5. IsFiniteSet(E) /\ n - Cardinality(E) = n - m
      /\ Ends(Ordered(E), Cardinality(E), Ordered(D), n - Cardinality(E))
  <2>1. PICK e : e = E
    OBVIOUS
  <2>2. e = {d \in D : d >= first}
    BY <2>1
  <2>3. n - Cardinality(e) = Cardinality(B)
    BY <1>3, <2>2, OrderedEnds
  <2>4. IsFiniteSet(e) /\ Ends(Ordered(e), Cardinality(e), Ordered(D), n - Cardinality(e))
    BY <1>3, <2>2, OrderedEnds
  <2> HIDE DEF E, B
  <2> QED BY <1>4, <2>1, <2>3, <2>4
<1>6. Cardinality(E) = m
  <2>1. Cardinality(E) \in Nat
    BY <1>5, FS_CardinalityType
  <2> QED BY <1>1, <1>2, <1>5, <2>1
<1>7. newest = E
  BY DEF From
<1> HIDE DEF E
<1> QED BY <1>1, <1>2, <1>3, <1>5, <1>6, <1>7

\* The frames a live evaluation loads are the ends of the frames there are.
LoadedEnd(live, frames, st, windows, n, m) ==
    /\ n \in Nat /\ m \in 1..n
    /\ m = n \/ \A j \in DOMAIN windows : m >= 3 * windows[j]
    /\ Ends(Index(live[st.symbol]), m, Index(frames[st.symbol]), n - m)
    /\ \A s \in Symbols(st) : \A i \in 1..m :
         LET d == Index(live[st.symbol])[i]
         IN  /\ d \in DOMAIN live[s] <=> d \in DOMAIN frames[s]
             /\ d \in DOMAIN live[s] => live[s][d] = frames[s][d]

LEMMA LiveFramesEnd ==
    ASSUME NEW cut, NEW frames, NEW st, NEW windows, NEW J, IsStrategy(st, windows, J),
           DOMAIN windows = 1..J, NEW pad \in Nat,
           SeenUpTo(cut, frames, frames, st), Symbols(st) \in SUBSET DOMAIN frames,
           DOMAIN frames[st.symbol] # {},
           NEW live, live = LiveData(frames, st, windows, pad)
    PROVE  SeenUpTo(cut, live, live, st) /\ LoadedEnd(live, frames, st, windows, Dates(frames, st), Dates(live, st))
<1> DEFINE main == frames[st.symbol]
           D == DOMAIN main
           n == Cardinality(D)
           kept == live_lookback_bars(windows, pad)
           m == IF n > kept THEN kept ELSE n
           first == Ordered(D)[IF n > kept THEN n - kept + 1 ELSE 1]
<1>1. /\ IsFrame(main) /\ st.symbol \in DOMAIN frames /\ cut \in Int
      /\ \A s \in Symbols(st) : IsFrame(frames[s]) /\ DOMAIN frames[s] = {d \in DOMAIN frames[s] : d <= cut}
  BY DEF SeenUpTo, Symbols
<1>2. J \in Nat \ {0} /\ \A j \in 1..J : windows[j] \in Nat \ {0}
  BY DEF IsStrategy
<1>3. MaxWindow(windows) \in Nat \ {0} /\ \A j \in 1..J : windows[j] <= MaxWindow(windows)
  BY <1>2, MaxWindowIs
<1>4. kept \in Nat \ {0} /\ \A j \in 1..J : kept >= 3 * windows[j]
  BY <1>2, <1>3 DEF live_lookback_bars
<1>5. Len(Index(main)) = n
  BY <1>1, IndexLists DEF IsColumn
<1>6. live = [s \in DOMAIN frames |-> [d \in {e \in DOMAIN frames[s] : e >= first} |-> frames[s][d]]]
  BY <1>5, Zenon DEF LiveData, Index
<1> HIDE DEF kept, first, main
<1>7. /\ n \in Nat /\ m \in 1..n /\ first \in Int
      /\ IsFiniteSet({d \in D : d >= first}) /\ Cardinality({d \in D : d >= first}) = m
      /\ Ends(Ordered({d \in D : d >= first}), m, Ordered(D), n - m)
  <2>1. D \in SUBSET Int /\ IsFiniteSet(D) /\ D # {}
    BY <1>1 DEF IsFrame, main
  <2>2. first = Ordered(D)[IF n > kept THEN n - kept + 1 ELSE 1]
    BY DEF first
  <2>3. PICK newest : newest = From(D, first)
    OBVIOUS
  <2>4. PICK bound \in Nat \ {0} : bound = kept
    BY <1>4
  <2> HIDE DEF D
  <2>5. PICK all, k : all = n /\ k = m
    OBVIOUS
  <2>6. all = Cardinality(D) /\ k = (IF all > bound THEN bound ELSE all)
        /\ first = Ordered(D)[IF all > bound THEN all - bound + 1 ELSE 1]
    BY <2>2, <2>4, <2>5
  <2>7. /\ all \in Nat /\ k \in 1..all /\ first \in Int
        /\ IsFiniteSet(newest) /\ Cardinality(newest) = k
        /\ Ends(Ordered(newest), k, Ordered(D), all - k)
    BY <2>1, <2>3, <2>6, NewestDates
  <2> HIDE DEF n, m
  <2> QED BY <2>3, <2>5, <2>7 DEF From
<1>8. \A s \in Symbols(st) : /\ DOMAIN live[s] = {e \in DOMAIN frames[s] : e >= first}
                             /\ \A d \in DOMAIN live[s] : live[s][d] = frames[s][d]
  <2> HIDE DEF first
  <2> SUFFICES ASSUME NEW s \in Symbols(st)
               PROVE  /\ DOMAIN live[s] = {e \in DOMAIN frames[s] : e >= first}
                      /\ \A d \in DOMAIN live[s] : live[s][d] = frames[s][d]
    OBVIOUS
  <2>1. live[s] = [d \in {e \in DOMAIN frames[s] : e >= first} |-> frames[s][d]]
    BY <1>6
  <2> QED BY <2>1
<1>9. DOMAIN live[st.symbol] = {d \in D : d >= first} /\ D = DOMAIN frames[st.symbol]
  BY <1>8 DEF Symbols, main
<1>10. Dates(live, st) = m /\ Dates(frames, st) = n
  BY <1>7, <1>9 DEF Dates
<1>11. Ends(Index(live[st.symbol]), m, Index(frames[st.symbol]), n - m)
  BY <1>7, <1>9 DEF Index
<1>12. \A s \in Symbols(st) : /\ IsFrame(live[s])
                              /\ DOMAIN live[s] = {d \in DOMAIN live[s] : d <= cut}
  <2> SUFFICES ASSUME NEW s \in Symbols(st)
               PROVE  IsFrame(live[s]) /\ DOMAIN live[s] = {d \in DOMAIN live[s] : d <= cut}
    OBVIOUS
  <2>1. DOMAIN live[s] \in SUBSET DOMAIN frames[s]
    BY <1>8
  <2>2. PICK A, B : A = DOMAIN live[s] /\ B = DOMAIN frames[s]
    OBVIOUS
  <2>3. B \in SUBSET Int /\ IsFiniteSet(B) /\ B = {d \in B : d <= cut} /\ A \in SUBSET B
    BY <1>1, <2>1, <2>2 DEF IsFrame
  <2>4. IsFiniteSet(A) /\ A \in SUBSET Int /\ A = {d \in A : d <= cut}
    BY <2>3, FS_Subset
  <2> QED BY <2>2, <2>4 DEF IsFrame
<1>13. SeenUpTo(cut, live, live, st)
  BY <1>1, <1>12 DEF SeenUpTo, Symbols
<1>14. ASSUME NEW s \in Symbols(st), NEW i \in 1..m, NEW d, d = Index(live[st.symbol])[i]
       PROVE  /\ d \in DOMAIN live[s] <=> d \in DOMAIN frames[s]
              /\ d \in DOMAIN live[s] => live[s][d] = frames[s][d]
  <2>1. d \in DOMAIN live[st.symbol]
    <3>1. IsFrame(live[st.symbol])
      BY <1>12 DEF Symbols
    <3>2. PICK fr : fr = live[st.symbol]
      OBVIOUS
    <3>3. Cardinality(DOMAIN fr) = m
      BY <1>7, <1>9, <3>2
    <3> QED BY <1>14, <3>1, <3>2, <3>3, IndexLists
  <2>2. d >= first
    BY <1>9, <2>1
  <2> QED BY <1>8, <2>2
<1>15. m = n \/ m = kept
  OBVIOUS
<1> HIDE DEF m, n
<1>16. m = n \/ \A j \in 1..J : m >= 3 * windows[j]
  BY <1>4, <1>15
<1>17. LoadedEnd(live, frames, st, windows, n, m)
  BY <1>7, <1>11, <1>14, <1>16 DEF LoadedEnd
<1> QED BY <1>10, <1>13, <1>17

\* The frame an indicator is given.
InputOf(frames, st, sub) ==
    [factor |-> factor(frames, st, sub),
     bars   |-> Column(Len(Index(frames[st.symbol])), LAMBDA i : frames[st.symbol][Index(frames[st.symbol])[i]])]

ReadsFrames(input, n, frames, st, sub) ==
    /\ IsColumn(input.factor, n) /\ IsColumn(input.bars, n)
    /\ \A i \in 1..n :
         LET d == Index(frames[st.symbol])[i]
         IN  /\ input.factor[i] = IF d \in DOMAIN frames[sub.symbol] THEN Num(frames[sub.symbol][d].close) ELSE NaN
             /\ input.bars[i] = frames[st.symbol][d]

LEMMA InputIs ==
    ASSUME NEW frames, NEW st, NEW sub, NEW n \in Nat, IsColumn(Index(frames[st.symbol]), n)
    PROVE  ReadsFrames(InputOf(frames, st, sub), n, frames, st, sub)
<1> DEFINE index == Index(frames[st.symbol])
           close(i) == IF index[i] \in DOMAIN frames[sub.symbol]
                       THEN Num(frames[sub.symbol][index[i]].close) ELSE NaN
           bar(i) == frames[st.symbol][index[i]]
           f == [i \in 1..n |-> close(i)]
           g == [i \in 1..n |-> bar(i)]
<1>1. Len(index) = n
  BY DEF IsColumn
<1>2. InputOf(frames, st, sub).factor = <<>> \o f
  <2>1. factor(frames, st, sub) = <<>> \o f
    BY <1>1, Zenon DEF factor, Column
  <2>2. InputOf(frames, st, sub).factor = factor(frames, st, sub)
    BY DEF InputOf
  <2> QED BY <2>1, <2>2
<1>3. InputOf(frames, st, sub).bars = <<>> \o g
  BY <1>1 DEF InputOf, Column
<1> HIDE DEF close, bar
<1>4. /\ f = [i \in 1..n |-> f[i]] /\ g = [i \in 1..n |-> g[i]]
      /\ \A i \in 1..n : f[i] = close(i) /\ g[i] = bar(i)
  OBVIOUS
<1> HIDE DEF f, g
<1>5. <<>> \o f = f /\ IsColumn(f, n) /\ <<>> \o g = g /\ IsColumn(g, n)
  BY <1>4, ColumnBuilds
<1> QED BY <1>2, <1>3, <1>4, <1>5 DEF close, bar, ReadsFrames

\* What the indicator of a factor is given is the end of what it is given in full.
InputsEnd(tail, whole, m, n, p) ==
    /\ n \in Nat /\ m \in 1..n /\ (m = n \/ m >= 3 * p)
    /\ Ends(tail.factor, m, whole.factor, n - m) /\ Ends(tail.bars, m, whole.bars, n - m)

LEMMA InputEnds ==
    ASSUME NEW cut, NEW frames, NEW st, NEW windows, NEW J, IsStrategy(st, windows, J),
           DOMAIN windows = 1..J, NEW pad \in Nat,
           SeenUpTo(cut, frames, frames, st), Symbols(st) \in SUBSET DOMAIN frames,
           DOMAIN frames[st.symbol] # {},
           NEW live, live = LiveData(frames, st, windows, pad), NEW j \in 1..J
    PROVE  InputsEnd(InputOf(live, st, st.subs[j]), InputOf(frames, st, st.subs[j]),
                     Dates(live, st), Dates(frames, st), windows[j])
<1> DEFINE n == Dates(frames, st)
           m == Dates(live, st)
           o == n - m
           sub == st.subs[j]
           index == Index(frames[st.symbol])
           newest == Index(live[st.symbol])
<1>1. /\ n \in Nat /\ m \in 1..n
      /\ m = n \/ m >= 3 * windows[j]
      /\ Ends(newest, m, index, o)
      /\ \A s \in Symbols(st) : \A k \in 1..m :
           /\ newest[k] \in DOMAIN live[s] <=> newest[k] \in DOMAIN frames[s]
           /\ newest[k] \in DOMAIN live[s] => live[s][newest[k]] = frames[s][newest[k]]
  <2>1. LoadedEnd(live, frames, st, windows, n, m)
    BY LiveFramesEnd
  <2> HIDE DEF n, m, index, newest
  <2> QED BY <2>1 DEF LoadedEnd, index, newest
<1> HIDE DEF n, m, index, newest
<1>2. /\ o \in Nat /\ m \in Nat /\ o + m = n /\ IsColumn(newest, m) /\ IsColumn(index, n)
      /\ \A k \in 1..m : index[k + o] = newest[k] /\ k + o \in 1..n
  BY <1>1 DEF Ends
<1>3. j \in DOMAIN st.subs
  BY DEF IsStrategy, IsColumn
<1>4. st.symbol \in Symbols(st) /\ sub.symbol \in Symbols(st)
  BY <1>3 DEF Symbols
<1>5. \A k \in 1..m : newest[k] \in DOMAIN live[st.symbol]
  <2>1. IsFrame(live[st.symbol])
    <3>1. SeenUpTo(cut, live, live, st)
      BY LiveFramesEnd
    <3> QED BY <3>1 DEF SeenUpTo
  <2>2. PICK fr : fr = live[st.symbol]
    OBVIOUS
  <2>3. IsFrame(fr) /\ m = Cardinality(DOMAIN fr) /\ newest = Index(fr)
    BY <2>1, <2>2 DEF m, newest, Dates
  <2> QED BY <2>2, <2>3, IndexLists
<1> DEFINE tail == InputOf(live, st, sub)
           whole == InputOf(frames, st, sub)
           closeIn(fr, d) == IF d \in DOMAIN fr[sub.symbol] THEN Num(fr[sub.symbol][d].close) ELSE NaN
<1> HIDE DEF tail, whole, closeIn
<1>6. /\ IsColumn(tail.factor, m) /\ IsColumn(tail.bars, m)
      /\ \A k \in 1..m : tail.factor[k] = closeIn(live, newest[k]) /\ tail.bars[k] = live[st.symbol][newest[k]]
  <2>1. ReadsFrames(tail, m, live, st, sub)
    BY <1>2, InputIs DEF tail, newest
  <2> QED BY <2>1 DEF ReadsFrames, newest, closeIn
<1>7. /\ IsColumn(whole.factor, n) /\ IsColumn(whole.bars, n)
      /\ \A k \in 1..n : whole.factor[k] = closeIn(frames, index[k]) /\ whole.bars[k] = frames[st.symbol][index[k]]
  <2>1. ReadsFrames(whole, n, frames, st, sub)
    BY <1>1, <1>2, InputIs DEF whole, index
  <2> QED BY <2>1 DEF ReadsFrames, index, closeIn
<1>8. \A k \in 1..m : /\ closeIn(frames, newest[k]) = closeIn(live, newest[k])
                      /\ frames[st.symbol][newest[k]] = live[st.symbol][newest[k]]
  BY <1>1, <1>4, <1>5 DEF closeIn
<1>9. Ends(tail.factor, m, whole.factor, o) /\ Ends(tail.bars, m, whole.bars, o)
  <2>1. \A k \in 1..m : k + o \in 1..n /\ index[k + o] = newest[k]
    BY <1>2
  <2>2. \A k \in 1..m : whole.factor[k + o] = tail.factor[k] /\ whole.bars[k + o] = tail.bars[k]
    BY <1>6, <1>7, <1>8, <2>1
  <2> QED BY <1>2, <1>6, <1>7, <2>2 DEF Ends
<1>10. InputsEnd(tail, whole, m, n, windows[j])
  BY <1>1, <1>9 DEF InputsEnd
<1> QED BY <1>10 DEF tail, whole, m, n

\* The readings of a live evaluation of one factor.
LiveReads(live, frames, st, windows, j, i) ==
    LET t == ReadingOf(live, st, windows, j)
        c == ReadingOf(frames, st, windows, j)
        o == Dates(frames, st) - Dates(live, st)
    IN  /\ ~IsNaN(t[i]) => c[i + o] = t[i]
        /\ (i = Dates(live, st) /\ (st.subs[j].ind = "rsi" /\ ~IsNaN(c[i + o])
              => Len(Changes(factor(live, st, st.subs[j]))) >= windows[j]))
           => IsNaN(t[i]) = IsNaN(c[i + o])

LEMMA LiveReadings ==
    ASSUME NEW cut, NEW frames, NEW st, NEW windows, NEW J, IsStrategy(st, windows, J),
           DOMAIN windows = 1..J, NEW pad \in Nat,
           SeenUpTo(cut, frames, frames, st), Symbols(st) \in SUBSET DOMAIN frames,
           DOMAIN frames[st.symbol] # {},
           NEW live, live = LiveData(frames, st, windows, pad),
           NEW j \in 1..J, st.subs[j].ind # "ema", NEW i \in 1..Dates(live, st)
    PROVE  LiveReads(live, frames, st, windows, j, i)
<1> DEFINE n == Dates(frames, st)
           m == Dates(live, st)
           o == n - m
           sub == st.subs[j]
           p == windows[j]
<1>0. PICK a, b : a = InputOf(live, st, sub) /\ b = InputOf(frames, st, sub)
  OBVIOUS
<1>1. n \in Nat /\ m \in 1..n /\ (m = n \/ m >= 3 * p)
  <2>1. InputsEnd(InputOf(live, st, sub), InputOf(frames, st, sub), m, n, p)
    BY InputEnds
  <2> QED BY <2>1 DEF InputsEnd
<1>2. /\ a = InputOf(live, st, sub) /\ b = InputOf(frames, st, sub)
      /\ Ends(a.factor, m, b.factor, o) /\ Ends(a.bars, m, b.bars, o)
  <2>1. InputsEnd(InputOf(live, st, sub), InputOf(frames, st, sub), m, n, p)
    BY InputEnds
  <2> HIDE DEF m, n, sub, p
  <2> QED BY <1>0, <2>1 DEF InputsEnd
<1>3. sub.ind \in IndicatorName /\ p \in Nat \ {0}
  BY DEF IsStrategy
<1>4. /\ indicator_of(live, st, sub, p) = indicator(sub.ind, a, p)
      /\ indicator_of(frames, st, sub, p) = indicator(sub.ind, b, p)
  BY <1>2, Zenon DEF indicator_of, InputOf
<1>5. a.factor = factor(live, st, sub)
  BY <1>2 DEF InputOf
<1> DEFINE t == indicator(sub.ind, a, p)
           c == indicator(sub.ind, b, p)
<1> HIDE DEF m, n
<1>6. /\ ~IsNaN(t[i]) => c[i + o] = t[i]
      /\ (i = m /\ Enough(sub.ind, a, m, o, p)) => c[i + o] = t[i]
  <2>1. i \in 1..m
    BY DEF m
  <2>2. sub.ind # "ema"
    OBVIOUS
  <2>3. PICK name : name = sub.ind
    OBVIOUS
  <2> HIDE DEF o, sub, p
  <2>4. IndicatorEnds(name, a, m, b, o, p, i)
    BY <1>2, <1>3, <2>1, <2>2, <2>3, ReadingEnds
  <2> QED BY <2>3, <2>4 DEF IndicatorEnds
<1>7. ASSUME i = m, (sub.ind = "rsi" /\ ~IsNaN(c[i + o])) => Len(Changes(a.factor)) >= p
      PROVE  IsNaN(t[i]) = IsNaN(c[i + o])
  <2>1. CASE Enough(sub.ind, a, m, o, p)
    BY <1>6, <1>7, <2>1
  <2>2. CASE ~Enough(sub.ind, a, m, o, p)
    <3>1. sub.ind = "rsi" /\ ~(Len(Changes(a.factor)) >= p)
      BY <1>1, <2>2 DEF Enough
    <3>2. IsNaN(c[i + o])
      BY <1>7, <3>1
    <3>3. IsNaN(t[i])
      BY <1>6, <3>2
    <3> QED BY <3>2, <3>3
  <2> QED BY <2>1, <2>2
<1>8. t = ReadingOf(live, st, windows, j) /\ c = ReadingOf(frames, st, windows, j)
  BY <1>4 DEF ReadingOf
<1>9. o = Dates(frames, st) - Dates(live, st) /\ m = Dates(live, st)
  BY DEF m, n
<1> HIDE DEF t, c, o
<1> QED BY <1>5, <1>6, <1>7, <1>8, <1>9 DEF LiveReads

\* Without a conflict the conviction is not asked.
LEMMA NoConflict ==
    ASSUME NEW n \in Nat, n >= 2, NEW signs, IsColumn(signs, n), \A j \in 1..n : signs[j] \in Sign,
           ~({1, -1} \subseteq {signs[j] : j \in 1..n}),
           NEW cc, IsColumn(cc, n), NEW dd, IsColumn(dd, n), NEW conj \in {"AND", "OR", "FILTER"}
    PROVE  _combine(conj, signs, cc) = _combine(conj, signs, dd)
<1>1. DOMAIN signs = 1..n /\ Len(signs) = n
  BY DEF IsColumn
<1>2. ASSUME NEW ss, {ss[j] : j \in DOMAIN ss} \in SUBSET {signs[j] : j \in 1..n}, NEW c, NEW d
      PROVE  _combine_and(ss, c) = _combine_and(ss, d)
  <2> DEFINE held == {ss[j] : j \in DOMAIN ss}
  <2>1. held # {-1, 1}
    BY <1>2
  <2>2. \A x : _combine_and(ss, x) = IF held = {1} THEN 1 ELSE IF held = {-1} THEN -1
                                     ELSE IF held = {-1, 1} THEN _strongest_sign(ss, x) ELSE 0
    BY DEF _combine_and
  <2> HIDE DEF held
  <2> QED BY <2>1, <2>2
<1>3. _combine_and(signs, cc) = _combine_and(signs, dd)
  BY <1>1, <1>2
<1>4. _combine_or(signs, cc) = _combine_or(signs, dd)
  <2> DEFINE held == {signs[j] : j \in DOMAIN signs}
  <2>1. ~({-1, 1} \subseteq held)
    BY <1>1
  <2>2. \A x : _combine_or(signs, x) = IF {-1, 1} \subseteq held THEN _strongest_sign(signs, x)
                                       ELSE IF 1 \in held THEN 1 ELSE IF -1 \in held THEN -1 ELSE 0
    BY DEF _combine_or
  <2> HIDE DEF held
  <2> QED BY <2>1, <2>2
<1>5. _combine_filter(signs, cc) = _combine_filter(signs, dd)
  <2>1. signs \in Seq(Sign)
    BY DEF IsColumn
  <2>2. /\ DOMAIN Tail(signs) = 1..(n - 1)
        /\ \A j \in 1..(n - 1) : Tail(signs)[j] = signs[j + 1] /\ j + 1 \in 1..n
    BY <1>1, <2>1
  <2>3. PICK ss : ss = Tail(signs)
    OBVIOUS
  <2>4. {ss[j] : j \in DOMAIN ss} \in SUBSET {signs[j] : j \in 1..n}
    BY <2>2, <2>3
  <2>5. _combine_and(ss, Tail(cc)) = _combine_and(ss, Tail(dd))
    BY <1>2, <2>4
  <2> QED BY <2>3, <2>5 DEF _combine_filter
<1> QED BY <1>3, <1>4, <1>5 DEF _combine

\* What the live evaluation on the frames it loads owes the backtest on them all.
ReadsAsBacktest(live, frames, st, windows, signals, J) ==
    LET n == Dates(frames, st)
        m == Dates(live, st)
        full == FinalPosition(frames, st, windows, signals)
        seen == FinalPosition(live, st, windows, signals)
    IN  /\ n \in Nat /\ m \in 1..n /\ IsColumn(full, n) /\ IsColumn(seen, m)
        /\ \A i \in 1..m : seen[i] # Unknown =>
             \/ full[i + n - m] = seen[i]
             \/ {1, -1} \subseteq {TakenOn(live, st, windows, signals, j, i) : j \in 1..J}
        /\ (\A j \in 1..J : (st.subs[j].ind = "rsi" /\ ~IsNaN(ReadingOf(frames, st, windows, j)[n]))
               => Len(Changes(factor(live, st, st.subs[j]))) >= windows[j])
           => (full[n] # Unknown => seen[m] # Unknown)

\* A live evaluation loads only the newest bars (live_lookback_bars).  For every
\* strategy without an exponential average, every parameter, series and gap, a
\* position it finds is the backtest's on that bar, but where factors are in
\* conflict and the conviction ranks among all the bars loaded; and it has one on
\* the newest bar whenever the backtest has, if every relative strength the backtest
\* reads there finds its window of changes in the bars loaded.
THEOREM LiveReadsAsBacktest ==
    ASSUME NEW cut, NEW frames, NEW st, NEW windows, NEW signals, NEW J, IsStrategy(st, windows, J),
           DOMAIN windows = 1..J, NEW pad \in Nat,
           SeenUpTo(cut, frames, frames, st), Symbols(st) \in SUBSET DOMAIN frames,
           DOMAIN frames[st.symbol] # {}, st.conjunction \in {"AND", "OR", "FILTER"},
           \A j \in 1..J : st.subs[j].ind # "ema",
           NEW live, live = LiveData(frames, st, windows, pad)
    PROVE  ReadsAsBacktest(live, frames, st, windows, signals, J)
<1> DEFINE n == Dates(frames, st)
           m == Dates(live, st)
           o == n - m
           full == FinalPosition(frames, st, windows, signals)
           seen == FinalPosition(live, st, windows, signals)
           whole(j, i) == TakenOn(frames, st, windows, signals, j, i)
           newest(j, i) == TakenOn(live, st, windows, signals, j, i)
           enough == \A j \in 1..J : (st.subs[j].ind = "rsi" /\ ~IsNaN(ReadingOf(frames, st, windows, j)[n]))
                       => Len(Changes(factor(live, st, st.subs[j]))) >= windows[j]
           Is(pos, sign(_, _), i) ==
             /\ J = 1 => pos[i] = sign(1, i)
             /\ J # 1 => \/ pos[i] = Unknown /\ \E j \in 1..J : sign(j, i) = Unknown
                         \/ /\ \A j \in 1..J : sign(j, i) \in Sign
                            /\ \E ss, cc : /\ IsColumn(ss, J) /\ IsColumn(cc, J)
                                           /\ \A j \in 1..J : ss[j] = sign(j, i) /\ cc[j] \in Fraction
                                           /\ pos[i] = _combine(st.conjunction, ss, cc)
<1>1. n \in Nat /\ m \in 1..n /\ SeenUpTo(cut, live, live, st)
  BY LiveFramesEnd DEF LoadedEnd
<1>2. J \in Nat /\ J >= 1 /\ (J # 1 => J >= 2)
  BY DEF IsStrategy
<1>3. IsColumn(full, n) /\ \A i \in 1..n : Is(full, whole, i)
  <2>1. ReadBarByBar(full, n, frames, st, windows, signals, J)
    BY PositionIs
  <2> HIDE DEF n, m, o, full, seen
  <2> QED BY <2>1 DEF ReadBarByBar, Joined
<1>4. IsColumn(seen, m) /\ \A i \in 1..m : Is(seen, newest, i)
  <2>1. ReadBarByBar(seen, m, live, st, windows, signals, J)
    BY <1>1, PositionIs
  <2> HIDE DEF n, m, o, full, seen
  <2> QED BY <2>1 DEF ReadBarByBar, Joined
<1>5. \A i \in 1..m : i + o \in 1..n /\ i + n - m = i + o
  BY <1>1
<1>6. ASSUME NEW j \in 1..J, NEW i \in 1..m
      PROVE  /\ newest(j, i) \in Position /\ whole(j, i + o) \in Position
             /\ newest(j, i) # Unknown => whole(j, i + o) = newest(j, i)
             /\ (enough /\ i = m) => (newest(j, i) = Unknown <=> whole(j, i + o) = Unknown)
  <2> DEFINE t == ReadingOf(live, st, windows, j)
             c == ReadingOf(frames, st, windows, j)
  <2>1. /\ ~IsNaN(t[i]) => c[i + o] = t[i]
        /\ (i = m /\ (st.subs[j].ind = "rsi" /\ ~IsNaN(c[i + o])
              => Len(Changes(factor(live, st, st.subs[j]))) >= windows[j])) => IsNaN(t[i]) = IsNaN(c[i + o])
    <3>1. LiveReads(live, frames, st, windows, j, i)
      BY LiveReadings
    <3> QED BY <3>1 DEF LiveReads
  <2>2. i = m => i + o = n
    BY <1>1
  <2>3. (enough /\ i = m) => (IsNaN(t[i]) <=> IsNaN(c[i + o]))
    BY <2>1, <2>2
  <2>4. /\ newest(j, i) \in Position /\ (newest(j, i) = Unknown <=> IsNaN(t[i]))
        /\ whole(j, i + o) \in Position /\ (whole(j, i + o) = Unknown <=> IsNaN(c[i + o]))
    BY SignalIs DEF TakenOn
  <2>5. c[i + o] = t[i] => whole(j, i + o) = newest(j, i)
    BY DEF TakenOn
  <2> HIDE DEF t, c, enough, newest, whole
  <2> QED BY <2>1, <2>3, <2>4, <2>5
<1> HIDE DEF n, m, o, full, seen, whole, newest, enough
<1>7. ASSUME NEW i \in 1..m, seen[i] # Unknown
      PROVE  full[i + o] = seen[i] \/ {1, -1} \subseteq {newest(j, i) : j \in 1..J}
  <2>1. i + o \in 1..n
    BY <1>5
  <2>2. CASE J = 1
    <3>1. seen[i] = newest(1, i) /\ full[i + o] = whole(1, i + o)
      BY <1>3, <1>4, <2>1, <2>2
    <3> QED BY <1>6, <1>7, <2>2, <3>1
  <2>3. CASE J # 1
    <3>1. PICK ss, cc : /\ IsColumn(ss, J) /\ IsColumn(cc, J)
                        /\ \A j \in 1..J : ss[j] = newest(j, i) /\ newest(j, i) \in Sign
                        /\ seen[i] = _combine(st.conjunction, ss, cc)
      BY <1>4, <1>7, <2>3
    <3>2. \A j \in 1..J : whole(j, i + o) = newest(j, i) /\ whole(j, i + o) # Unknown
      BY <1>6, <3>1 DEF Sign, Unknown
    <3>3. PICK rr, dd : /\ IsColumn(rr, J) /\ IsColumn(dd, J)
                        /\ \A j \in 1..J : rr[j] = whole(j, i + o)
                        /\ full[i + o] = _combine(st.conjunction, rr, dd)
      BY <1>3, <2>1, <2>3, <3>2
    <3>4. rr = ss
      BY <3>1, <3>2, <3>3 DEF IsColumn
    <3>5. {ss[j] : j \in 1..J} = {newest(j, i) : j \in 1..J}
      BY <3>1
    <3>6. ~({1, -1} \subseteq {ss[j] : j \in 1..J}) => full[i + o] = seen[i]
      <4>1. \A j \in 1..J : ss[j] \in Sign
        BY <3>1
      <4> QED BY <1>2, <2>3, <3>1, <3>3, <3>4, <4>1, NoConflict
    <3> QED BY <3>5, <3>6
  <2> QED BY <2>2, <2>3
<1>8. ASSUME enough, full[n] # Unknown PROVE seen[m] # Unknown
  <2>1. m \in 1..m /\ n \in 1..n /\ m + o = n
    BY <1>1 DEF o
  <2>2. CASE J = 1
    <3>1. seen[m] = newest(1, m) /\ full[n] = whole(1, m + o)
      BY <1>3, <1>4, <2>1, <2>2
    <3> QED BY <1>6, <1>8, <2>1, <2>2, <3>1
  <2>3. CASE J # 1
    <3>1. \A j \in 1..J : whole(j, n) \in Sign
      BY <1>3, <1>8, <2>1, <2>3
    <3>2. \A j \in 1..J : newest(j, m) # Unknown
      BY <1>6, <1>8, <2>1, <3>1 DEF Sign, Unknown
    <3>3. PICK ss, cc : /\ IsColumn(ss, J) /\ IsColumn(cc, J)
                        /\ \A j \in 1..J : ss[j] = newest(j, m) /\ newest(j, m) \in Sign /\ cc[j] \in Fraction
                        /\ seen[m] = _combine(st.conjunction, ss, cc)
      BY <1>4, <2>1, <2>3, <3>2
    <3>4. seen[m] \in Sign
      BY <1>2, <2>3, <3>3, CombinedIsSign
    <3> QED BY <3>4 DEF Sign, Unknown
  <2> QED BY <2>2, <2>3
<1>9. \A i \in 1..m : seen[i] # Unknown => \/ full[i + n - m] = seen[i]
                                             \/ {1, -1} \subseteq {newest(j, i) : j \in 1..J}
  BY <1>5, <1>7
<1> QED BY <1>1, <1>3, <1>4, <1>8, <1>9 DEF ReadsAsBacktest, n, m, full, seen, newest, enough

\* A change next to the newest bar is among the changes.
LEMMA NewestChange ==
    ASSUME NEW col, NEW n \in Nat, n >= 2, IsColumn(col, n), ~IsNaN(Minus(col[n], col[n - 1]))
    PROVE  Len(Changes(col)) >= 1
<1> DEFINE change(k) == Minus(col[k + 1], col[k])
           f == [k \in 1..(n - 1) |-> change(k)]
<1>1. Len(col) = n /\ n - 1 \in Nat /\ n - 1 \in 1..(n - 1)
  BY DEF IsColumn
<1>2. Changes(col) = Finite(<<>> \o f)
  BY <1>1, Zenon DEF Changes, Column
<1>3. ~IsNaN(change(n - 1))
  <2>1. (n - 1) + 1 = n
    OBVIOUS
  <2> QED BY <2>1
<1> HIDE DEF change
<1>4. f = [k \in 1..(n - 1) |-> f[k]] /\ f[n - 1] = change(n - 1)
  BY <1>1
<1> HIDE DEF f
<1>5. PICK l \in Nat : l = n - 1
  BY <1>1
<1>6. <<>> \o f = f /\ IsColumn(f, l)
  BY <1>4, <1>5, ColumnBuilds
<1> DEFINE K == {k \in 1..l : ~IsNaN(f[k])}
<1>7. IsFiniteSet(K) /\ Cardinality(K) \in Nat /\ IsColumn(Finite(f), Cardinality(K))
  BY <1>6, FiniteIs
<1>8. l \in K
  BY <1>1, <1>3, <1>4, <1>5
<1> HIDE DEF K
<1>9. Cardinality(K) # 0
  BY <1>7, <1>8, FS_EmptySet
<1>10. Len(Finite(f)) = Cardinality(K)
  BY <1>7 DEF IsColumn
<1> QED BY <1>2, <1>6, <1>7, <1>9, <1>10

LEMMA LatestKnownIs ==
    ASSUME NEW n \in Nat, NEW pos, IsColumn(pos, n)
    PROVE  /\ _latest_known(pos) \in 0..n
           /\ _latest_known(pos) > 0 => pos[_latest_known(pos)] # Unknown
           /\ (n > 0 /\ pos[n] # Unknown) => _latest_known(pos) = n
<1> DEFINE known == {i \in DOMAIN pos : pos[i] # Unknown}
<1>1. known \in SUBSET (1..n) /\ known = {i \in 1..n : pos[i] # Unknown}
  BY DEF IsColumn
<1>2. IsFiniteSet(known) /\ known \in SUBSET Int
  <2>1. IsFiniteSet(1..n)
    BY FS_Interval
  <2> QED BY <1>1, <2>1, FS_Subset
<1>3. _latest_known(pos) = IF known = {} THEN 0 ELSE CHOOSE i \in known : \A k \in known : k <= i
  BY DEF _latest_known
<1>4. known # {} => _latest_known(pos) \in known /\ \A k \in known : k <= _latest_known(pos)
  <2> HIDE DEF known
  <2>1. known # {} => \E i \in known : \A k \in known : k <= i
    BY <1>2, LatestExists
  <2> QED BY <1>3, <2>1
<1>5. (n > 0 /\ pos[n] # Unknown) => n \in known
  BY <1>1
<1>6. \A i \in known : pos[i] # Unknown
  OBVIOUS
<1> HIDE DEF known
<1>7. CASE known = {}
  BY <1>3, <1>5, <1>7
<1>8. CASE known # {}
  <2>1. _latest_known(pos) \in 1..n
    BY <1>1, <1>4, <1>8
  <2> QED BY <1>4, <1>5, <1>6, <1>8, <2>1
<1> QED BY <1>7, <1>8

\* A live evaluation of every strategy in every market.
THEOREM LiveAlwaysAgrees == Spec => []LiveAgrees
<1>1. MarketInv => LiveAgrees
  <2> DEFINE live == LiveData(data, strategy, windows_of(strategy), 0)
             full == PositionOn(data)
             seen == PositionOn(live)
             cols == [j \in DOMAIN strategy.subs |->
                       positions_of(strategy.subs[j].func,
                                    indicator_of(live, strategy, strategy.subs[j], windows_of(strategy)[j]),
                                    Threshold(strategy.subs[j].ind, signals_of(strategy)[j]))]
             newest(j, i) == TakenOn(live, strategy, windows_of(strategy), signals_of(strategy), j, i)
             m == Dates(live, strategy)
  <2> SUFFICES ASSUME MarketInv, part = "market", ts > 0, \A j \in DOMAIN strategy.subs : strategy.subs[j].ind # "ema"
               PROVE  AgreesAtNewest(full, seen, cols)
    BY DEF LiveAgrees
  <2>1. /\ ts \in Nat /\ strategy \in Strategies /\ DOMAIN data = {"main", "other"}
        /\ DOMAIN data["main"] = 1..ts /\ DOMAIN data["other"] \in SUBSET (1..ts)
    BY DEF MarketInv
  <2>2. PICK J \in Nat \ {0} : IsStrategy(strategy, windows_of(strategy), J) /\ DOMAIN strategy.subs = 1..J
    BY <2>1, StrategiesAre
  <2>3. /\ strategy.symbol = "main" /\ Symbols(strategy) \in SUBSET {"main", "other"}
    BY <2>1, StrategiesAre DEF Symbols
  <2>4. strategy.conjunction \in {"AND", "OR", "FILTER"}
    BY <2>1 DEF Strategies
  <2>5. IsFiniteSet(1..ts) /\ Cardinality(1..ts) = ts /\ 1 \in 1..ts
    BY <2>1, FS_Interval
  <2>6. SeenUpTo(ts, data, data, strategy)
    <3>1. \A s \in {"main", "other"} : IsFrame(data[s])
      BY <2>1, <2>5, FS_Subset DEF IsFrame
    <3>2. \A s \in {"main", "other"} : DOMAIN data[s] = {d \in DOMAIN data[s] : d <= ts}
      BY <2>1
    <3> QED BY <2>1, <2>3, <3>1, <3>2 DEF SeenUpTo, Symbols
  <2>7. Dates(data, strategy) = ts
    BY <2>1, <2>3, <2>5 DEF Dates
  <2>8. /\ DOMAIN windows_of(strategy) = 1..J /\ 0 \in Nat
        /\ DOMAIN data[strategy.symbol] # {} /\ Symbols(strategy) \in SUBSET DOMAIN data
    BY <2>1, <2>2, <2>3, <2>5 DEF windows_of
  <2>9. \A j \in 1..J : strategy.subs[j].ind = "rsi" => windows_of(strategy)[j] = 1
    BY <2>2 DEF windows_of
  <2> DEFINE enough == \A j \in 1..J :
               (strategy.subs[j].ind = "rsi" /\ ~IsNaN(ReadingOf(data, strategy, windows_of(strategy), j)[ts]))
                 => Len(Changes(factor(live, strategy, strategy.subs[j]))) >= windows_of(strategy)[j]
  <2>10. /\ m \in 1..ts /\ IsColumn(full, ts) /\ IsColumn(seen, m)
         /\ \A i \in 1..m : seen[i] # Unknown =>
              full[i + ts - m] = seen[i] \/ {1, -1} \subseteq {newest(j, i) : j \in 1..J}
         /\ enough => (full[ts] # Unknown => seen[m] # Unknown)
    <3>1. \A j \in 1..J : strategy.subs[j].ind # "ema"
      BY <2>2
    <3>2. PICK windows, signals : windows = windows_of(strategy) /\ signals = signals_of(strategy)
      OBVIOUS
    <3>3. ReadsAsBacktest(live, data, strategy, windows, signals, J)
      BY <2>2, <2>4, <2>6, <2>8, <3>1, <3>2, LiveReadsAsBacktest
    <3>4. full = FinalPosition(data, strategy, windows, signals) /\ seen = FinalPosition(live, strategy, windows, signals)
      BY <3>2 DEF PositionOn
    <3> HIDE DEF live, full, seen
    <3> QED BY <2>7, <3>2, <3>3, <3>4 DEF ReadsAsBacktest
  <2>11. enough
    <3> SUFFICES ASSUME NEW j \in 1..J, strategy.subs[j].ind = "rsi",
                        ~IsNaN(ReadingOf(data, strategy, windows_of(strategy), j)[ts])
                 PROVE  Len(Changes(factor(live, strategy, strategy.subs[j]))) >= 1
      BY <2>9
    <3>1. PICK tf, cf, b :
            /\ tf = InputOf(live, strategy, strategy.subs[j]).factor
            /\ b = InputOf(data, strategy, strategy.subs[j]) /\ cf = b.factor
            /\ (m = ts \/ m >= 3) /\ Ends(tf, m, cf, ts - m)
      <4>1. PICK windows : windows = windows_of(strategy)
        OBVIOUS
      <4>2. InputsEnd(InputOf(live, strategy, strategy.subs[j]), InputOf(data, strategy, strategy.subs[j]),
                      m, Dates(data, strategy), windows[j])
        BY <2>2, <2>6, <2>8, <4>1, InputEnds
      <4>3. windows[j] = 1 /\ 3 * 1 = 3
        BY <2>9, <4>1
      <4> HIDE DEF live, m
      <4> QED BY <2>7, <4>2, <4>3 DEF InputsEnd
    <3>2. tf = factor(live, strategy, strategy.subs[j])
      BY <3>1 DEF InputOf
    <3>3. IsColumn(tf, m) /\ IsColumn(cf, ts) /\ \A k \in 1..m : cf[k + (ts - m)] = tf[k]
      BY <2>1, <2>10, <3>1 DEF Ends
    <3>4. ReadingOf(data, strategy, windows_of(strategy), j)[ts] = Rsi(cf, 1, ts)
      <4>1. ReadingOf(data, strategy, windows_of(strategy), j) = indicator("rsi", b, 1)
        BY <2>9, <3>1, Zenon DEF ReadingOf, indicator_of, InputOf
      <4>2. "rsi" \in IndicatorName /\ ts \in 1..ts
        BY <2>1 DEF IndicatorName
      <4>3. indicator("rsi", b, 1)[ts] = Reading("rsi", b, 1, ts)
        BY <2>1, <3>1, <3>3, <4>2, IndicatorIs
      <4>4. Reading("rsi", b, 1, ts) = Rsi(b.factor, 1, ts)
        BY DEF Reading
      <4> QED BY <3>1, <4>1, <4>3, <4>4
    <3>5. ts # 1 /\ ~IsNaN(Minus(cf[ts], cf[ts - 1]))
      <4>1. IsNaN(NaN)
        BY DEF IsNaN, NaN
      <4> QED BY <3>4, <4>1, Zenon DEF Rsi
    <3> HIDE DEF m
    <3>6. /\ m \in Nat /\ m >= 2 /\ m \in 1..m /\ m - 1 \in 1..m
          /\ m + (ts - m) = ts /\ (m - 1) + (ts - m) = ts - 1
      BY <2>1, <2>10, <3>1, <3>5
    <3>7. tf[m] = cf[ts] /\ tf[m - 1] = cf[ts - 1]
      <4>1. tf[m] = cf[m + (ts - m)] /\ tf[m - 1] = cf[(m - 1) + (ts - m)]
        BY <3>3, <3>6
      <4> QED BY <3>6, <4>1
    <3>8. Len(Changes(tf)) >= 1
      BY <3>3, <3>5, <3>6, <3>7, NewestChange
    <3> QED BY <3>2, <3>8
  <2>12. \A i \in 1..m : {cols[j][i] : j \in DOMAIN cols} = {newest(j, i) : j \in 1..J}
    <3> SUFFICES ASSUME NEW i \in 1..m PROVE {cols[j][i] : j \in DOMAIN cols} = {newest(j, i) : j \in 1..J}
      OBVIOUS
    <3>1. SeenUpTo(ts, live, live, strategy)
      BY <2>2, <2>6, <2>8, LiveFramesEnd
    <3>2. ASSUME NEW j \in 1..J PROVE cols[j][i] = newest(j, i)
      <4>1. PICK col : /\ col = indicator_of(live, strategy, strategy.subs[j], windows_of(strategy)[j])
                       /\ IsColumn(col, m)
        <5>1. Continues(indicator_of(live, strategy, strategy.subs[j], windows_of(strategy)[j]), m,
                        indicator_of(live, strategy, strategy.subs[j], windows_of(strategy)[j]), m)
          BY <2>2, <3>1, ReadingsContinue
        <5> QED BY <5>1 DEF Continues
      <4>2. cols[j] = positions_of(strategy.subs[j].func, col, Threshold(strategy.subs[j].ind, signals_of(strategy)[j]))
        BY <2>2, <4>1
      <4>3. m \in Nat
        BY <2>10
      <4>4. cols[j][i] = SignalOf(strategy.subs[j].func, Threshold(strategy.subs[j].ind, signals_of(strategy)[j]), col[i])
        <5>1. PICK func, sig : func = strategy.subs[j].func /\ sig = Threshold(strategy.subs[j].ind, signals_of(strategy)[j])
          OBVIOUS
        <5>2. PICK n \in Nat : n = m /\ i \in 1..n /\ IsColumn(col, n)
          BY <4>1, <4>3
        <5>3. positions_of(func, col, sig)[i] = SignalOf(func, sig, col[i])
          BY <5>2, PositionsTaken
        <5> QED BY <4>2, <5>1, <5>3
      <4> QED BY <4>1, <4>4 DEF TakenOn, ReadingOf
    <3>3. DOMAIN cols = 1..J
      BY <2>2
    <3> HIDE DEF cols, newest
    <3> QED BY <3>2, <3>3
  <2> HIDE DEF m, full, seen, cols, newest, enough
  <2>13. /\ _latest_known(seen) \in 0..m
         /\ _latest_known(seen) > 0 => seen[_latest_known(seen)] # Unknown
         /\ seen[m] # Unknown => _latest_known(seen) = m
    <3>1. m \in Nat /\ m > 0
      BY <2>10
    <3> QED BY <2>10, <3>1, LatestKnownIs
  <2>14. Len(seen) = m
    BY <2>10 DEF IsColumn
  <2>15. full[ts] # Unknown => _latest_known(seen) = m
    BY <2>10, <2>11, <2>13
  <2>16. _latest_known(seen) > 0 =>
           \/ full[_latest_known(seen) + ts - m] = seen[_latest_known(seen)]
           \/ {1, -1} \subseteq {cols[j][_latest_known(seen)] : j \in DOMAIN cols}
    <3> SUFFICES ASSUME _latest_known(seen) > 0
                 PROVE  \/ full[_latest_known(seen) + ts - m] = seen[_latest_known(seen)]
                        \/ {1, -1} \subseteq {cols[j][_latest_known(seen)] : j \in DOMAIN cols}
      OBVIOUS
    <3>1. PICK i : i = _latest_known(seen)
      OBVIOUS
    <3>2. i \in 1..m /\ seen[i] # Unknown
      BY <2>10, <2>13, <3>1
    <3> QED BY <2>10, <2>12, <3>1, <3>2
  <2> QED BY <2>14, <2>15, <2>16, Zenon DEF AgreesAtNewest
<1> QED BY <1>1, MarketRuns, PTL
=============================================================================
