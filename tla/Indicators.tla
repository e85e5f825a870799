----------------------------- MODULE Indicators -----------------------------
(***************************************************************************)
(* The technical indicators of quant/strategy/indicators.py on a factor     *)
(* column, a sequence of fractions or NaN.  Every reading is exact but the  *)
(* Bollinger z-score, which has a square root: its signed square stands for *)
(* it, an order-preserving change of unit (Threshold changes the threshold  *)
(* along).                                                                  *)
(*                                                                         *)
(* The numbers are fractions <<n, d>> with d > 0, or NaN, which is <<0, 0>>. *)
(* As in pandas and numpy, arithmetic with NaN gives NaN and every          *)
(* comparison with NaN is false.                                           *)
(***************************************************************************)
EXTENDS Integers, Sequences, FiniteSets, SequencesExt

Gcd(m, n) ==
    LET gcd[p \in Nat \X Nat] == IF p[2] = 0 THEN p[1] ELSE gcd[<<p[2], p[1] % p[2]>>]
    IN  gcd[<<m, n>>]

NaN == <<0, 0>>

\* The fraction in lowest terms, so that equal numbers are equal values.
Reduced(n, d) ==
    IF d = 0 THEN NaN
    ELSE LET k == Gcd(IF n < 0 THEN -n ELSE n, d) IN <<n \div k, d \div k>>

Num(n) == <<n, 1>>
IsNaN(x) == x[2] = 0

Plus(x, y) == Reduced(x[1] * y[2] + y[1] * x[2], x[2] * y[2])
Times(x, y) == Reduced(x[1] * y[1], x[2] * y[2])
Neg(x) == <<-x[1], x[2]>>
Minus(x, y) == Plus(x, Neg(y))
Gt(x, y) == x[1] * y[2] > y[1] * x[2]
Larger(x, y) == IF Gt(y, x) THEN y ELSE x
\* The quotient of x by a positive y.
Over(x, y) == Reduced(x[1] * y[2], x[2] * y[1])

SumOf(terms) == FoldLeft(Plus, Num(0), terms)

\* A column of n entries, as a sequence.
Column(n, f(_)) == <<>> \o [i \in 1..n |-> f(i)]

\* The members of a finite set of integers, in order.
Ordered(S) ==
    Column(Cardinality(S), LAMBDA i : CHOOSE d \in S : Cardinality({e \in S : e <= d}) = i)

-----------------------------------------------------------------------------

\* The bars a rolling window of length period holds at bar i.
Window(col, period, i) == SubSeq(col, i - period + 1, i)

Mean(window) == Times(<<1, Len(window)>>, SumOf(window))

\* Series.rolling(window=period).mean(): NaN until period bars are there, and
\* whenever one of them is NaN.
Rolling(col, period, i) ==
    LET window == Window(col, period, i)
    IN  IF i < period \/ \E k \in DOMAIN window : IsNaN(window[k]) THEN NaN ELSE Mean(window)

\* One bar of an exponential average.  A gap repeats the average and lets its
\* weight decay.
EmaStep(period, before, x) ==
    LET a   == <<2, period + 1>>
        old == Times(<<period - 1, period + 1>>, before.wt)
    IN  IF IsNaN(before.avg) THEN [avg |-> x, wt |-> Num(1)]
        ELSE IF IsNaN(x) THEN [avg |-> before.avg, wt |-> old]
        ELSE [avg |-> Over(Plus(Times(old, before.avg), Times(a, x)), Plus(old, a)),
              wt  |-> Num(1)]

EmaOf(col, period) ==
    FoldLeft(LAMBDA before, x : EmaStep(period, before, x), [avg |-> NaN, wt |-> Num(1)], col).avg

\* ewm(span=period, adjust=False): starts from the first bar of the frame it
\* is given.
Ema(col, period, i) == EmaOf(SubSeq(col, 1, i), period)

Finite(col) ==
    LET known == Ordered({k \in DOMAIN col : ~IsNaN(col[k])})
    IN  Column(Len(known), LAMBDA i : col[known[i]])

\* The changes from bar to bar; a change next to a gap is NaN and dropped.
Changes(col) == Finite(Column(Len(col) - 1, LAMBDA k : Minus(col[k + 1], col[k])))

\* The share of the movement that was up, from 0 to 100; none without movement.
UpShare(window) ==
    LET up   == SumOf(Column(Len(window), LAMBDA k : Larger(window[k], Num(0))))
        move == SumOf(Column(Len(window), LAMBDA k : Larger(window[k], Neg(window[k]))))
    IN  IF move[1] = 0 THEN NaN ELSE Times(Num(100), Over(up, move))

\* A window of changes may span gaps.  It is read at the bars that have a change.
Rsi(col, period, i) ==
    LET changes == Changes(SubSeq(col, 1, i))
    IN  IF i = 1 \/ Len(changes) < period THEN NaN
        ELSE IF IsNaN(Minus(col[i], col[i - 1])) THEN NaN
        ELSE UpShare(Window(changes, period, Len(changes)))

Square(x) == Times(x, x)
\* The square of x, with the sign of s.
Signed(x, s) == IF s[1] < 0 THEN Neg(x) ELSE x

\* (factor - mean) / sample deviation, kept as its signed square.  No reading
\* where the window does not move, and none on a window of one bar.
ZScore(window, mean) ==
    LET off == Minus(Last(window), mean)
        sq  == SumOf(Column(Len(window), LAMBDA k : Square(Minus(window[k], mean))))
    IN  IF Len(window) = 1 \/ IsNaN(off) \/ sq[1] = 0 THEN NaN
        ELSE Signed(Times(Num(Len(window) - 1), Over(Square(off), sq)), off)

Bollinger(col, period, i) ==
    IF i < period THEN NaN
    ELSE ZScore(Window(col, period, i), Mean(Window(col, period, i)))

\* %K: where the close lies in the range of the window.
FastK(window) ==
    LET high == Max({window[k].high : k \in DOMAIN window})
        low  == Min({window[k].low : k \in DOMAIN window})
    IN  Reduced(100 * (Last(window).close - low), high - low)

\* %D: the mean of %K over period.
Stochastic(bars, period, i) ==
    Rolling(Column(Len(bars), LAMBDA k : IF k < period THEN NaN ELSE FastK(Window(bars, period, k))),
            period, i)

\* indicator(): one lookup for every engine, each reading at the bar it is of.
\* The stochastic reads the frame's bars and not its factor column.
indicator(name, frame, period) ==
    LET col == frame.factor IN
    CASE name = "sma" -> Column(Len(col), LAMBDA i : Rolling(col, period, i))
      [] name = "ema" -> Column(Len(col), LAMBDA i : Ema(col, period, i))
      [] name = "rsi" -> Column(Len(col), LAMBDA i : Rsi(col, period, i))
      [] name = "bollinger" -> Column(Len(col), LAMBDA i : Bollinger(col, period, i))
      [] name = "stochastic" -> Column(Len(col), LAMBDA i : Stochastic(frame.bars, period, i))

\* A threshold in the unit of the indicator's readings.
Threshold(name, signal) ==
    IF name # "bollinger" THEN signal
    ELSE Signed(Square(signal), signal)
=============================================================================
