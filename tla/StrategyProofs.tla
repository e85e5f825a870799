--------------------------- MODULE StrategyProofs ---------------------------
(***************************************************************************)
(* A strategy from its research to its account: where the bars of a        *)
(* backtest come from, which version of a lineage is the best, and what    *)
(* concurrent apply cycles of a deployed one can do to its account.  For   *)
(* any number of runs, workers, versions, days, requests, callers and      *)
(* attempts, and any quantity.                                             *)
(***************************************************************************)
EXTENDS ResearchData, StrategyLineage, LiveApply, FiniteSetTheorems, NaturalsInduction,
        WellFoundedInduction, SequenceTheorems, TLAPS

-----------------------------------------------------------------------------
(* The smallest and the largest of some days.                              *)

\* A nonempty set of naturals has a least element.
LEMMA LeastDay ==
    ASSUME NEW T \in SUBSET Nat, T # {}
    PROVE  \E x \in T : \A y \in T : x <= y
<1>1. PICK x \in T : \A y \in T : ~(<<y, x>> \in OpToRel(<, Nat))
  BY NatLessThanWellFounded, WFMin, Zenon
<1>2. ASSUME NEW y \in T PROVE x <= y
  <2>1. x \in Nat /\ y \in Nat
    OBVIOUS
  <2>2. y < x => <<y, x>> \in OpToRel(<, Nat)
    BY <2>1, Zenon DEF OpToRel
  <2>3. ~(y < x)
    BY <1>1, <2>2, Zenon
  <2> QED BY <2>1, <2>3
<1> QED BY <1>2

\* Days within lo .. hi whose least reaches lo and whose largest reaches hi hold
\* both: what _enforce_date_sync establishes with df.index.min() and max().
LEMMA BothEnds ==
    ASSUME NEW lo \in Nat, NEW hi \in Nat, NEW bars \in SUBSET (lo .. hi), bars # {},
           Min(bars) <= lo, Max(bars) >= hi
    PROVE  lo \in bars /\ hi \in bars
<1>1. \E x \in bars : \A y \in bars : x <= y
  BY LeastDay
<1>2. Min(bars) \in bars /\ \A y \in bars : Min(bars) <= y
  BY <1>1 DEF Min
<1>i. \A d \in bars : d \in Int /\ lo <= d /\ d <= hi
  OBVIOUS
<1> DEFINE D == {n \in Nat : hi - n \in bars}
<1>3. D \in SUBSET Nat /\ \A d \in bars : hi - d \in D
  <2>1. \A d \in bars : hi - d \in Nat /\ hi - (hi - d) = d
    BY <1>i
  <2> QED BY <2>1
<1>4. PICK z \in D : \A y \in D : z <= y
  BY <1>3, LeastDay
<1>5. PICK m \in bars : m = hi - z
  BY <1>4
<1>6. \A y \in bars : m >= y
  <2>1. \A y \in bars : z <= hi - y
    BY <1>3, <1>4
  <2>2. z \in Nat
    BY <1>4
  <2> QED BY <1>i, <1>5, <2>1, <2>2
<1>7. Max(bars) \in bars /\ \A y \in bars : Max(bars) >= y
  BY <1>5, <1>6 DEF Max
<1>8. PICK a \in bars, b \in bars : a = Min(bars) /\ b = Max(bars)
  BY <1>2, <1>7
<1>9. a = lo /\ b = hi
  BY <1>8, <1>i
<1> QED
  BY <1>9

-----------------------------------------------------------------------------
(* Bars.                                                                   *)

DataSpec == DataInit /\ [][DataNext]_dataVars

\* Where a run stands and what it holds.
DataPc == {"idle", "load", "lookup", "fetch", "insert", "done", "failed"}
Asked == [kind : RunKind \cup {"none", "fill"}, syms : Seq(Symbol), lo : Nat, hi : Nat,
          refresh : BOOLEAN, need : Nat]
Frame == [s : Symbol, bars : SUBSET Nat, asof : Nat]
RunRecord == [pc : DataPc, req : Asked, todo : Seq(Symbol), frames : Seq(Frame),
              id : RowId \cup {NoRow}, bars : SUBSET Nat, asof : Nat]

\* The bars of s in lo .. hi that its source had up to asof.
Slice(s, lo, hi, asof) == {d \in lo .. hi : First[s] =< d /\ d =< asof}

\* A frame holds the slice of its request; a captured one reaches its start
\* and, but for a day, its end.
FrameOK(f, q) ==
    /\ f.bars = Slice(f.s, q.lo, q.hi, f.asof)
    /\ f.s \in Exchanges => q.lo \in f.bars /\ {q.hi - 1, q.hi} \cap f.bars # {}

\* The bars a run is about to insert are the slice its provider had, and those
\* a finished backtest of several products uses share both ends.
RunOK(t) ==
    /\ t \in RunRecord
    /\ \A k \in DOMAIN t.frames : FrameOK(t.frames[k], t.req)
    /\ t.pc \in {"lookup", "fetch", "insert"} => t.todo # << >> /\ Head(t.todo) \in Providers
    /\ t.pc = "insert" => t.bars = Slice(Head(t.todo), t.req.lo, t.req.hi, t.asof)
    /\ t.pc = "done" /\ t.req.kind # "live" /\ Len(t.frames) > 1 =>
          \A k \in DOMAIN t.frames : {t.req.lo, t.req.hi} \subseteq t.frames[k].bars

\* A cached row holds the slice of the range it was asked for.
RowOK(row) ==
    /\ row.lo \in Nat /\ row.hi \in Nat /\ row.asof \in Nat
    /\ row.bars = Slice(row.s, row.lo, row.hi, row.asof)

DataInv ==
    /\ tip \in Nat /\ captured \in [Exchanges -> Nat]
    /\ xrefs \subseteq Symbol
    /\ DOMAIN rows = RowId /\ \A i \in RowId : rows[i] # NoRow => RowOK(rows[i])
    /\ run \in [Run -> RunRecord] /\ \A r \in Run : RunOK(run[r])

\* Slices are sets of days.
LEMMA SliceDays ==
    ASSUME NEW s, NEW lo \in Nat, NEW hi \in Nat, NEW asof
    PROVE  Slice(s, lo, hi, asof) \in SUBSET Nat /\ Slice(s, lo, hi, asof) \in SUBSET (lo .. hi)
BY DEF Slice

\* A parked run.
LEMMA ParkedOK == Parked \in RunRecord /\ RunOK(Parked) /\ Parked.frames = << >>
<1>1. PICK n \in Nat : n = 0
  OBVIOUS
<1>2. PICK one \in Nat : one = 1
  OBVIOUS
<1>3. PICK b \in BOOLEAN : b = FALSE
  OBVIOUS
<1>4. PICK e \in SUBSET Nat : e = {}
  OBVIOUS
<1>5. PICK es \in Seq(Symbol) : es = << >>
  BY EmptySeq
<1>6. PICK ef \in Seq(Frame) : ef = << >>
  BY EmptySeq
<1>7. PICK q \in Asked : q = NoReq
  <2>1. [kind |-> "none", syms |-> es, lo |-> one, hi |-> one, refresh |-> b, need |-> n] \in Asked
    BY DEF Asked
  <2> QED BY <2>1, <1>1, <1>2, <1>3, <1>5, Zenon DEF NoReq
<1>8. [pc |-> "idle", req |-> q, todo |-> es, frames |-> ef, id |-> NoRow, bars |-> e, asof |-> n] \in RunRecord
  BY DEF RunRecord, DataPc
<1>9. Parked \in RunRecord
  BY <1>8, <1>1, <1>4, <1>5, <1>6, <1>7, Zenon DEF Parked
<1>10. Parked.frames = << >> /\ Parked.pc = "idle"
  BY DEF Parked
<1> QED
  BY <1>9, <1>10 DEF RunOK

\* A run that starts to load.
LEMMA StartedOK ==
    ASSUME NEW q \in Asked, NEW todo \in Seq(Symbol)
    PROVE  Loading(q, todo) \in RunRecord /\ RunOK(Loading(q, todo))
<1>0. PICK p \in RunRecord : p = Parked /\ p.frames = << >>
  BY ParkedOK, Zenon
<1>1. PICK t \in RunRecord : t = Loading(q, todo) /\ t.pc = "load" /\ t.frames = << >>
  <2>1. PICK t \in RunRecord : t = [p EXCEPT !.pc = "load", !.req = q, !.todo = todo]
    BY DEF RunRecord, DataPc
  <2>2. t.pc = "load" /\ t.frames = << >>
    BY <1>0, <2>1 DEF RunRecord
  <2> QED BY <1>0, <2>1, <2>2, Zenon DEF Loading
<1>2. RunOK(t)
  BY <1>1 DEF RunOK
<1> QED
  BY <1>1, <1>2, Zenon

\* Loaded, as a function of what the run held.
LoadedRun(t, bars, asof) ==
    [t EXCEPT !.pc = "load", !.todo = Tail(@), !.id = NoRow, !.bars = {}, !.asof = 0,
              !.frames = IF t.req.kind = "fill" THEN @
                         ELSE Append(@, [s |-> Head(t.todo), bars |-> bars, asof |-> asof])]

FailedRun(t) ==
    [t EXCEPT !.pc = "failed", !.todo = << >>, !.frames = << >>, !.id = NoRow, !.bars = {}, !.asof = 0]

\* A run that loads a sound frame stays sound.
LEMMA LoadedOK ==
    ASSUME NEW t \in RunRecord, RunOK(t), t.todo # << >>, NEW bars \in SUBSET Nat, NEW asof \in Nat,
           \/ t.req.kind = "fill"
           \/ FrameOK([s |-> Head(t.todo), bars |-> bars, asof |-> asof], t.req)
    PROVE  LoadedRun(t, bars, asof) \in RunRecord /\ RunOK(LoadedRun(t, bars, asof))
<1>1. /\ t.todo \in Seq(Symbol) /\ t.frames \in Seq(Frame) /\ t.req \in Asked
      /\ Head(t.todo) \in Symbol /\ Tail(t.todo) \in Seq(Symbol)
  BY DEF RunRecord
<1>2. PICK f \in Frame : f = [s |-> Head(t.todo), bars |-> bars, asof |-> asof]
  BY <1>1 DEF Frame
<1>3. PICK fs \in Seq(Frame) : fs = IF t.req.kind = "fill" THEN t.frames ELSE Append(t.frames, f)
  BY <1>1, <1>2, AppendProperties
<1>4. \A k \in DOMAIN fs : FrameOK(fs[k], t.req)
  <2>1. \A k \in DOMAIN t.frames : FrameOK(t.frames[k], t.req)
    BY DEF RunOK
  <2>2. CASE t.req.kind = "fill"
    BY <1>3, <2>1, <2>2
  <2>3. CASE t.req.kind # "fill"
    <3>1. fs = Append(t.frames, f) /\ FrameOK(f, t.req)
      BY <1>2, <1>3, <2>3
    <3>2. \A k \in DOMAIN fs : fs[k] = f \/ (k \in DOMAIN t.frames /\ fs[k] = t.frames[k])
      BY <3>1, <1>1, <1>2
    <3> QED BY <3>1, <3>2, <2>1
  <2> QED BY <2>2, <2>3
<1>5. PICK n \in Nat : n = 0
  OBVIOUS
<1>6. PICK e \in SUBSET Nat : e = {}
  OBVIOUS
<1>7. PICK u \in RunRecord :
        u = [t EXCEPT !.pc = "load", !.todo = Tail(t.todo), !.id = NoRow, !.bars = e, !.asof = n, !.frames = fs]
  BY <1>1 DEF RunRecord, DataPc
<1>8. u.pc = "load" /\ u.frames = fs /\ u.req = t.req
  BY <1>7 DEF RunRecord
<1>9. u = LoadedRun(t, bars, asof)
  BY <1>2, <1>3, <1>5, <1>6, <1>7 DEF LoadedRun, RunRecord
<1>10. RunOK(u)
  BY <1>4, <1>8 DEF RunOK
<1> QED
  BY <1>9, <1>10, Zenon

\* A failed run holds no frame.
LEMMA FailedOK ==
    ASSUME NEW t \in RunRecord
    PROVE  FailedRun(t) \in RunRecord /\ RunOK(FailedRun(t))
<1>5. PICK n \in Nat : n = 0
  OBVIOUS
<1>6. PICK e \in SUBSET Nat : e = {}
  OBVIOUS
<1>3. PICK es \in Seq(Symbol) : es = << >>
  BY EmptySeq
<1>4. PICK ef \in Seq(Frame) : ef = << >>
  BY EmptySeq
<1>7. PICK u \in RunRecord :
        u = [t EXCEPT !.pc = "failed", !.todo = es, !.frames = ef, !.id = NoRow, !.bars = e, !.asof = n]
  BY DEF RunRecord, DataPc
<1>8. u.pc = "failed" /\ u.frames = << >>
  BY <1>4, <1>7 DEF RunRecord
<1>9. u = FailedRun(t)
  BY <1>3, <1>4, <1>5, <1>6, <1>7, Zenon DEF FailedRun
<1>10. RunOK(u)
  BY <1>8 DEF RunOK
<1> QED
  BY <1>9, <1>10, Zenon

\* The other moves of a run: a look-up, a fetch, an answer, the end.
LEMMA MovedOK ==
    ASSUME NEW t \in RunRecord, RunOK(t)
    PROVE  /\ t.todo # << >> /\ Head(t.todo) \in Providers =>
                 LET u == [t EXCEPT !.pc = "lookup"] IN u \in RunRecord /\ RunOK(u)
           /\ \A i \in RowId : t.todo # << >> /\ Head(t.todo) \in Providers =>
                 LET u == [t EXCEPT !.pc = "fetch", !.id = i] IN u \in RunRecord /\ RunOK(u)
           /\ \A n \in Nat : \A bars \in SUBSET Nat :
                 t.pc = "fetch" /\ bars = Slice(Head(t.todo), t.req.lo, t.req.hi, n) =>
                     LET u == [t EXCEPT !.pc = "insert", !.bars = bars, !.asof = n]
                     IN  u \in RunRecord /\ RunOK(u)
           /\ usable(t.frames, t.req) =>
                 LET u == [t EXCEPT !.pc = "done"] IN u \in RunRecord /\ RunOK(u)
           /\ LET u == [t EXCEPT !.pc = "failed", !.frames = << >>] IN u \in RunRecord /\ RunOK(u)
<1> USE DEF RunOK
<1>1. ASSUME t.todo # << >>, Head(t.todo) \in Providers
      PROVE  LET u == [t EXCEPT !.pc = "lookup"] IN u \in RunRecord /\ RunOK(u)
  BY <1>1 DEF RunRecord, DataPc
<1>2. ASSUME NEW i \in RowId, t.todo # << >>, Head(t.todo) \in Providers
      PROVE  LET u == [t EXCEPT !.pc = "fetch", !.id = i] IN u \in RunRecord /\ RunOK(u)
  BY <1>2 DEF RunRecord, DataPc
<1>3. ASSUME NEW n \in Nat, NEW bars \in SUBSET Nat, t.pc = "fetch",
             bars = Slice(Head(t.todo), t.req.lo, t.req.hi, n)
      PROVE  LET u == [t EXCEPT !.pc = "insert", !.bars = bars, !.asof = n]
             IN  u \in RunRecord /\ RunOK(u)
  BY <1>3 DEF RunRecord, DataPc
<1>4. ASSUME usable(t.frames, t.req)
      PROVE  LET u == [t EXCEPT !.pc = "done"] IN u \in RunRecord /\ RunOK(u)
  <2> DEFINE u == [t EXCEPT !.pc = "done"]
  <2>1. u \in RunRecord /\ u.frames = t.frames /\ u.req = t.req /\ u.pc = "done"
    BY DEF RunRecord, DataPc
  <2>2. ASSUME t.req.kind # "live", Len(t.frames) > 1, NEW k \in DOMAIN t.frames
        PROVE  {t.req.lo, t.req.hi} \subseteq t.frames[k].bars
    <3>1. t.req.lo \in Nat /\ t.req.hi \in Nat
      BY DEF RunRecord, Asked
    <3>2. PICK bars : bars = t.frames[k].bars
      OBVIOUS
    <3>3. bars \in SUBSET (t.req.lo .. t.req.hi)
      BY <2>2, <3>1, <3>2, SliceDays DEF FrameOK
    <3>4. bars # {} /\ Min(bars) <= t.req.lo /\ Max(bars) >= t.req.hi
      BY <1>4, <2>2, <3>2 DEF usable, enforce_date_sync
    <3> QED
      BY <3>1, <3>2, <3>3, <3>4, BothEnds
  <2>3. RunOK(u)
    BY <2>1, <2>2
  <2> QED
    BY <2>1, <2>3
<1>5. LET u == [t EXCEPT !.pc = "failed", !.frames = << >>] IN u \in RunRecord /\ RunOK(u)
  <2>1. PICK ef \in Seq(Frame) : ef = << >>
    BY EmptySeq
  <2>2. PICK u \in RunRecord : u = [t EXCEPT !.pc = "failed", !.frames = ef]
    BY DEF RunRecord, DataPc
  <2>3. u.pc = "failed" /\ u.frames = << >>
    BY <2>1, <2>2 DEF RunRecord
  <2>4. u = [t EXCEPT !.pc = "failed", !.frames = << >>] /\ RunOK(u)
    BY <2>1, <2>2, <2>3
  <2> QED
    BY <2>4, Zenon
<1> QED
  BY <1>1, <1>2, <1>3, <1>4, <1>5, Zenon

\* At the start nothing is cached and no run has a frame.
LEMMA DataInitially == DataInit => DataInv
<1> SUFFICES ASSUME DataInit PROVE DataInv
  OBVIOUS
<1>1. run \in [Run -> RunRecord] /\ \A r \in Run : RunOK(run[r])
  BY ParkedOK DEF DataInit
<1>2. tip \in Nat /\ captured \in [Exchanges -> Nat] /\ xrefs \subseteq Symbol
  BY DEF DataInit
<1>3. DOMAIN rows = RowId /\ \A i \in RowId : rows[i] = NoRow
  BY DEF DataInit
<1> QED
  BY <1>1, <1>2, <1>3 DEF DataInv

\* One run moves to a sound record.
LEMMA RunMoves ==
    ASSUME DataInv, NEW r \in Run, NEW t \in RunRecord, RunOK(t), Go(r, t)
    PROVE  run' \in [Run -> RunRecord] /\ \A u \in Run : RunOK(run'[u])
BY DEF DataInv, Go

\* What a run that loads or fails a load moves to.
LEMMA RunLoads ==
    ASSUME DataInv, NEW r \in Run, run[r].todo # << >>
    PROVE  /\ \A bars \in SUBSET Nat : \A asof \in Nat :
                 /\ Loaded(r, bars, asof)
                 /\ FrameOK([s |-> sym(r), bars |-> bars, asof |-> asof], run[r].req)
                 => run' \in [Run -> RunRecord] /\ \A u \in Run : RunOK(run'[u])
           /\ LoadFails(r) => run' \in [Run -> RunRecord] /\ \A u \in Run : RunOK(run'[u])
<1>t. PICK t \in RunRecord : t = run[r] /\ RunOK(t)
  BY DEF DataInv
<1>1. ASSUME NEW bars \in SUBSET Nat, NEW asof \in Nat, Loaded(r, bars, asof),
             t.req.kind = "fill" \/ FrameOK([s |-> Head(t.todo), bars |-> bars, asof |-> asof], t.req)
      PROVE  run' \in [Run -> RunRecord] /\ \A u \in Run : RunOK(run'[u])
  <2>1. PICK u \in RunRecord : u = LoadedRun(t, bars, asof) /\ RunOK(u)
    BY <1>t, <1>1, LoadedOK, Zenon
  <2>2. Go(r, u)
    BY <1>t, <1>1, <2>1 DEF Loaded, LoadedRun, filling, sym
  <2> QED
    BY <2>1, <2>2, RunMoves
<1>2. ASSUME LoadFails(r)
      PROVE  run' \in [Run -> RunRecord] /\ \A u \in Run : RunOK(run'[u])
  <2>1. CASE filling(r)
    <3>1. PICK n \in Nat : n = 0
      OBVIOUS
    <3>2. PICK e \in SUBSET Nat : e = {}
      OBVIOUS
    <3>3. Loaded(r, e, n) /\ t.req.kind = "fill"
      BY <1>t, <1>2, <2>1, <3>1, <3>2 DEF LoadFails, filling
    <3> QED
      BY <3>3, <1>1
  <2>2. CASE ~ filling(r)
    <3>1. PICK u \in RunRecord : u = FailedRun(t) /\ RunOK(u)
      BY FailedOK, Zenon
    <3>2. Go(r, u)
      BY <1>t, <1>2, <2>2, <3>1 DEF LoadFails, FailedRun
    <3> QED
      BY <3>1, <3>2, RunMoves
  <2> QED
    BY <2>1, <2>2
<1> QED
  BY <1>1, <1>2, <1>t DEF sym

\* Every step preserves the invariant of the research data.
LEMMA DataStep == DataInv /\ [DataNext]_dataVars => DataInv'
<1> SUFFICES ASSUME DataInv, [DataNext]_dataVars PROVE DataInv'
  OBVIOUS
<1> DEFINE RunsOK == run \in [Run -> RunRecord] /\ \A u \in Run : RunOK(run[u])
           RowsOK == DOMAIN rows = RowId /\ \A i \in RowId : rows[i] # NoRow => RowOK(rows[i])
<1>d. DataInv <=> /\ tip \in Nat /\ captured \in [Exchanges -> Nat]
                  /\ xrefs \subseteq Symbol /\ RowsOK /\ RunsOK
  BY DEF DataInv
<1>p. DataInv' <=> /\ (tip \in Nat)' /\ (captured \in [Exchanges -> Nat])'
                   /\ (xrefs \subseteq Symbol)' /\ RowsOK' /\ RunsOK'
  BY DEF DataInv
<1>r. RunsOK' <=> run' \in [Run -> RunRecord] /\ \A u \in Run : RunOK(run'[u])
  BY DEF RunOK, FrameOK, Slice
<1>w. RowsOK' <=> DOMAIN rows' = RowId /\ \A i \in RowId : rows'[i] # NoRow => RowOK(rows'[i])
  BY DEF RowOK, Slice
<1>0. CASE UNCHANGED dataVars
  BY <1>0, <1>d, <1>p, <1>r, <1>w DEF dataVars
<1>1. CASE DayCloses
  BY <1>1, <1>d, <1>p, <1>r, <1>w DEF DayCloses
<1>2. ASSUME NEW x \in Exchanges, Capture(x) PROVE DataInv'
  <2>1. captured' \in [Exchanges -> Nat]
    BY <1>2, <1>d DEF Capture
  <2> QED
    BY <1>2, <2>1, <1>d, <1>p, <1>r, <1>w DEF Capture
<1>3. ASSUME NEW r \in Run, UNCHANGED <<tip, captured, rows, xrefs>>, RunsOK' PROVE DataInv'
  BY <1>3, <1>d, <1>p, <1>w
<1> HIDE DEF RunsOK, RowsOK
<1>4. ASSUME NEW r \in Run, NEW q \in Request, StartRun(r, q) PROVE DataInv'
  <2>1. PICK n \in Nat : n = tip
    BY <1>d
  <2>2. PICK a \in Asked : a = IF q.kind = "live" THEN [q EXCEPT !.hi = n] ELSE q
    BY DataAssumption DEF Asked, RunKind
  <2>3. PICK s \in Seq(Symbol) : s = q.syms
    BY DataAssumption
  <2>4. PICK t \in RunRecord : t = Loading(a, s) /\ RunOK(t)
    BY StartedOK, Zenon
  <2>5. Go(r, t)
    BY <1>4, <2>1, <2>2, <2>3, <2>4 DEF StartRun
  <2>6. RunsOK'
    BY <2>4, <2>5, <1>r, RunMoves
  <2> QED
    BY <1>4, <2>6, <1>3 DEF StartRun
<1>5. ASSUME NEW r \in Run, LoadExchange(r) PROVE DataInv'
  <2> DEFINE s == sym(r)
             q == run[r].req
             df == {d \in q.lo .. q.hi : First[s] =< d /\ d =< captured[s]}
  <2>1. run[r].todo # << >> /\ s \in Exchanges /\ run[r] \in RunRecord /\ q \in Asked
    BY <1>5, <1>d DEF LoadExchange, RunsOK, RunRecord
  <2>2. /\ First[s] \in Nat /\ captured[s] \in Nat /\ q.lo \in Nat /\ q.hi \in Nat
    BY <2>1, <1>d, DataAssumption DEF Asked
  <2>3. RunsOK'
    <3>1. CASE LoadFails(r)
      BY <3>1, <2>1, <1>r, RunLoads
    <3>2. CASE Loaded(r, df, captured[s]) /\ spans(s, q) /\ df # {}
      <4>0. df = Slice(s, q.lo, q.hi, captured[s])
        BY DEF Slice
      <4>1. PICK bars \in SUBSET Nat : bars = df
        BY <2>2, <4>0, SliceDays, Zenon
      <4>2. PICK asof \in Nat : asof = captured[s]
        BY <2>2
      <4>3. First[s] <= q.lo /\ asof + 1 >= q.hi
        BY <3>2, <4>2 DEF spans
      <4>4. bars = Slice(s, q.lo, q.hi, asof)
        BY <4>1, <4>2 DEF Slice
      <4>5. q.lo \in bars
        BY <2>2, <3>2, <4>1, <4>2, <4>3
      <4>6. {q.hi - 1, q.hi} \cap bars # {}
        <5>1. PICK d \in bars : TRUE
          BY <4>5
        <5>2. d \in q.lo .. q.hi /\ d <= asof
          BY <4>4 DEF Slice
        <5>3. CASE q.lo <= q.hi - 1
          <6>1. q.hi - 1 \in bars
            BY <2>2, <4>2, <4>3, <4>4, <5>3 DEF Slice
          <6> QED BY <6>1
        <5>4. CASE ~(q.lo <= q.hi - 1)
          <6>1. q.lo = q.hi
            BY <2>2, <5>2, <5>4
          <6> QED BY <6>1, <4>5
        <5> QED BY <5>3, <5>4
      <4>7. FrameOK([s |-> s, bars |-> bars, asof |-> asof], q)
        BY <4>4, <4>5, <4>6 DEF FrameOK
      <4>8. Loaded(r, bars, asof)
        BY <3>2, <4>1, <4>2
      <4> QED
        BY <4>7, <4>8, <2>1, <1>r, RunLoads
    <3> QED
      BY <1>5, <3>1, <3>2 DEF LoadExchange
  <2> QED
    BY <1>5, <2>3, <1>3 DEF LoadExchange
<1>6. ASSUME NEW r \in Run, ReadPayload(r) PROVE DataInv'
  <2>t. PICK t \in RunRecord : t = run[r] /\ RunOK(t)
    BY <1>d DEF RunsOK
  <2>1. /\ run[r].todo # << >> /\ sym(r) \in Providers
        /\ t.req \in Asked /\ t.req.lo \in Nat /\ t.req.hi \in Nat
    BY <1>6, <2>t DEF ReadPayload, RunRecord, Asked
  <2>2. CASE LoadFails(r)
    <3>1. RunsOK'
      BY <2>2, <2>1, <1>r, RunLoads
    <3> QED BY <1>6, <3>1, <1>3 DEF ReadPayload
  <2>3. CASE Go(r, [run[r] EXCEPT !.pc = "lookup"])
    <3>1. PICK u \in RunRecord : u = [t EXCEPT !.pc = "lookup"] /\ RunOK(u)
      BY <2>t, <2>1, MovedOK, Zenon DEF sym
    <3>2. RunsOK'
      BY <2>3, <2>t, <3>1, <1>r, RunMoves
    <3> QED BY <1>6, <3>2, <1>3 DEF ReadPayload
  <2>4. ASSUME NEW i \in open_rows(sym(r)), covers(rows[i], run[r].req),
               Loaded(r, rows[i].bars \cap (run[r].req.lo .. run[r].req.hi), rows[i].asof)
        PROVE  DataInv'
    <3>1. RowOK(rows[i]) /\ rows[i].s = sym(r)
      BY <1>d DEF RowsOK, open_rows
    <3>2. PICK asof \in Nat : asof = rows[i].asof
      BY <3>1 DEF RowOK
    <3>0. rows[i].bars \cap (t.req.lo .. t.req.hi) \in SUBSET Nat
      <4>1. \A d \in t.req.lo .. t.req.hi : d \in Nat
        BY <2>1
      <4> QED BY <4>1
    <3>3. PICK bars \in SUBSET Nat : bars = rows[i].bars \cap (t.req.lo .. t.req.hi)
      BY <3>0, Zenon
    <3>4. bars = Slice(sym(r), t.req.lo, t.req.hi, asof)
      BY <2>1, <2>4, <2>t, <3>1, <3>2, <3>3 DEF RowOK, Slice, covers
    <3>5. FrameOK([s |-> sym(r), bars |-> bars, asof |-> asof], run[r].req)
      BY <2>1, <2>t, <3>4 DEF FrameOK, Providers
    <3>6. RunsOK'
      BY <2>1, <2>4, <2>t, <3>2, <3>3, <3>5, <1>r, RunLoads
    <3> QED BY <1>6, <3>6, <1>3 DEF ReadPayload
  <2> QED
    BY <1>6, <2>2, <2>3, <2>4 DEF ReadPayload
<1>7. ASSUME NEW r \in Run, RefreshLookup(r) PROVE DataInv'
  <2>t. PICK t \in RunRecord : t = run[r] /\ RunOK(t)
    BY <1>d DEF RunsOK
  <2>1. t.todo # << >> /\ Head(t.todo) \in Providers
    BY <1>7, <2>t DEF RefreshLookup, RunOK, Doing, sym
  <2>2. LoadFails(r) \/ \E i \in RowId : Go(r, [run[r] EXCEPT !.pc = "fetch", !.id = i])
    BY <1>7 DEF RefreshLookup, open_rows
  <2>3. ASSUME NEW i \in RowId, Go(r, [run[r] EXCEPT !.pc = "fetch", !.id = i])
        PROVE  RunsOK'
    <3>1. PICK u \in RunRecord : u = [t EXCEPT !.pc = "fetch", !.id = i] /\ RunOK(u)
      BY <2>t, <2>1, MovedOK, Zenon
    <3> QED BY <2>3, <2>t, <3>1, <1>r, RunMoves
  <2>4. CASE LoadFails(r)
    <3>1. RunsOK'
      BY <2>4, <2>1, <2>t, <1>r, RunLoads
    <3> QED BY <1>7, <3>1, <1>3 DEF RefreshLookup
  <2> QED
    BY <1>7, <2>2, <2>3, <2>4, <1>3 DEF RefreshLookup
<1>8. ASSUME NEW r \in Run, ProviderFetch(r) PROVE DataInv'
  <2>t. PICK t \in RunRecord : t = run[r] /\ RunOK(t)
    BY <1>d DEF RunsOK
  <2>1. /\ t.todo # << >> /\ sym(r) \in Providers /\ t.pc = "fetch" /\ sym(r) = Head(t.todo)
        /\ t.req.lo \in Nat /\ t.req.hi \in Nat
    BY <1>8, <2>t DEF ProviderFetch, Doing, RunOK, RunRecord, Asked, sym
  <2>2. PICK n \in Nat : n = tip
    BY <1>d
  <2>0. Printed(sym(r), run[r].req.lo, run[r].req.hi) = Slice(sym(r), t.req.lo, t.req.hi, tip)
    BY <2>t DEF Printed, Slice
  <2>3. PICK bars \in SUBSET Nat : bars = Printed(sym(r), run[r].req.lo, run[r].req.hi)
    BY <2>0, <2>1, SliceDays, Zenon
  <2>4. bars = Slice(Head(t.todo), t.req.lo, t.req.hi, n)
    BY <2>1, <2>2, <2>3, <2>t DEF Printed, Slice
  <2>5. \/ LoadFails(r)
        \/ Loaded(r, bars, n)
        \/ Go(r, [run[r] EXCEPT !.pc = "insert", !.bars = bars, !.asof = n])
    BY <1>8, <2>2, <2>3 DEF ProviderFetch
  <2>6. CASE Loaded(r, bars, n)
    <3>1. FrameOK([s |-> sym(r), bars |-> bars, asof |-> n], run[r].req)
      BY <2>1, <2>t, <2>4 DEF FrameOK, Providers
    <3> QED
      BY <2>6, <2>1, <2>t, <3>1, <1>r, <1>3, <1>8, RunLoads DEF ProviderFetch
  <2>7. CASE LoadFails(r)
    BY <2>7, <2>1, <2>t, <1>r, <1>3, <1>8, RunLoads DEF ProviderFetch
  <2>8. CASE Go(r, [run[r] EXCEPT !.pc = "insert", !.bars = bars, !.asof = n])
    <3>1. PICK u \in RunRecord : u = [t EXCEPT !.pc = "insert", !.bars = bars, !.asof = n] /\ RunOK(u)
      BY <2>t, <2>1, <2>4, MovedOK, Zenon
    <3>2. RunsOK'
      BY <2>8, <2>t, <3>1, <1>r, RunMoves
    <3> QED BY <1>8, <3>2, <1>3 DEF ProviderFetch
  <2> QED
    BY <2>5, <2>6, <2>7, <2>8
<1>9. ASSUME NEW r \in Run, RefreshInsert(r) PROVE DataInv'
  <2>t. PICK t \in RunRecord : t = run[r] /\ RunOK(t)
    BY <1>d DEF RunsOK
  <2>1. /\ t.todo # << >> /\ sym(r) \in Providers /\ sym(r) = Head(t.todo)
        /\ t.req.lo \in Nat /\ t.req.hi \in Nat /\ t.asof \in Nat /\ t.bars \in SUBSET Nat
        /\ t.bars = Slice(sym(r), t.req.lo, t.req.hi, t.asof)
    BY <1>9, <2>t DEF RefreshInsert, Doing, RunOK, RunRecord, Asked, sym
  <2>2. CASE LoadFails(r) /\ UNCHANGED rows
    <3>1. RunsOK'
      BY <2>2, <2>1, <2>t, <1>r, RunLoads
    <3> QED BY <1>9, <2>2, <3>1, <1>3 DEF RefreshInsert
  <2>3. CASE ~(LoadFails(r) /\ UNCHANGED rows)
    <3>0. PICK w : w = [s |-> sym(r), lo |-> t.req.lo, hi |-> t.req.hi, bars |-> t.bars, asof |-> t.asof]
      OBVIOUS
    <3>1. rows' = [rows EXCEPT ![run[r].id] = w] /\ Loaded(r, t.bars, t.asof)
      BY <1>9, <2>3, <2>t, <3>0 DEF RefreshInsert
    <3>2. RowOK(w)
      BY <2>1, <3>0 DEF RowOK
    <3>3. RowsOK'
      BY <3>1, <3>2, <1>d, <1>w DEF RowsOK
    <3>4. FrameOK([s |-> sym(r), bars |-> t.bars, asof |-> t.asof], run[r].req)
      BY <2>1, <2>t DEF FrameOK, Providers
    <3>5. RunsOK'
      BY <2>1, <2>t, <3>1, <3>4, <1>r, RunLoads
    <3> QED
      BY <1>9, <3>3, <3>5, <1>d, <1>p DEF RefreshInsert
  <2> QED
    BY <2>2, <2>3
<1>10. ASSUME NEW r \in Run, Compute(r) PROVE DataInv'
  <2>t. PICK t \in RunRecord : t = run[r] /\ RunOK(t)
    BY <1>d DEF RunsOK
  <2>1. CASE usable(run[r].frames, run[r].req) /\ Go(r, [run[r] EXCEPT !.pc = "done"])
    <3>1. PICK u \in RunRecord : u = [t EXCEPT !.pc = "done"] /\ RunOK(u)
      BY <2>1, <2>t, MovedOK, Zenon
    <3>2. RunsOK'
      BY <2>1, <2>t, <3>1, <1>r, RunMoves
    <3> QED BY <1>10, <3>2, <1>3 DEF Compute
  <2>2. CASE Go(r, [run[r] EXCEPT !.pc = "failed", !.frames = << >>])
    <3>1. PICK u \in RunRecord : u = [t EXCEPT !.pc = "failed", !.frames = << >>] /\ RunOK(u)
      BY <2>t, MovedOK, Zenon
    <3>2. RunsOK'
      BY <2>2, <2>t, <3>1, <1>r, RunMoves
    <3> QED BY <1>10, <3>2, <1>3 DEF Compute
  <2> QED
    BY <1>10, <2>1, <2>2 DEF Compute
<1>11. ASSUME NEW r \in Run, StartFill(r) PROVE DataInv'
  <2>1. xrefs' \subseteq Symbol
    BY <1>11, <1>d DEF StartFill, Scheduled, Providers
  <2>2. IsFiniteSet(xrefs') /\ Cardinality(xrefs') \in Nat
    BY <2>1, DataAssumption, FS_Subset, FS_CardinalityType
  <2>3. PICK n \in Nat : n = tip
    BY <1>d
  <2>4. PICK b \in BOOLEAN : b = TRUE
    OBVIOUS
  <2>5. NoReq \in Asked
    BY ParkedOK DEF Parked, RunRecord
  <2>6. PICK q \in Asked : q = fill_request
    <3>1. [NoReq EXCEPT !.kind = "fill", !.lo = Since, !.hi = n, !.refresh = b] \in Asked
      BY <2>5, DataAssumption DEF Asked
    <3> QED BY <3>1, <2>3, <2>4, Zenon DEF fill_request
  <2>7. PICK todo \in SetToSeqs(xrefs') : Go(r, Loading(q, todo))
    <3>1. \E todo \in SetToSeqs(xrefs') : Go(r, Loading(fill_request, todo))
      BY <1>11 DEF StartFill
    <3> QED BY <3>1, <2>6
  <2>8. todo \in Seq(Symbol)
    <3>1. todo \in [1 .. Cardinality(xrefs') -> xrefs']
      BY <2>7, Zenon DEF SetToSeqs
    <3> QED BY <3>1, <2>1, <2>2
  <2>9. PICK t \in RunRecord : t = Loading(q, todo) /\ RunOK(t)
    BY <2>8, StartedOK, Zenon
  <2>10. RunsOK'
    BY <2>7, <2>9, <1>r, RunMoves
  <2>11. RowsOK'
    BY <1>11, <1>d, <1>w DEF StartFill, RowsOK
  <2> QED
    BY <1>11, <2>1, <2>10, <2>11, <1>d, <1>p DEF StartFill
<1>12. ASSUME NEW r \in Run, EndFill(r) PROVE DataInv'
  <2>1. RunsOK'
    BY <1>12, <1>r, ParkedOK, RunMoves DEF EndFill
  <2> QED BY <1>12, <2>1, <1>3 DEF EndFill
<1> QED
  BY <1>0, <1>1, <1>2, <1>4, <1>5, <1>6, <1>7, <1>8, <1>9, <1>10, <1>11, <1>12 DEF DataNext

\* Every frame a finished run used is the whole slice of its window that the
\* source had when it was asked, and the frames of several products share both
\* ends of the window.
THEOREM FramesAreSound == DataSpec => []FramesSound
<1>1. DataInv => FramesSound
  BY DEF DataInv, RunOK, FramesSound, FrameOK, Slice, Doing
<1> QED
  BY <1>1, DataInitially, DataStep, PTL DEF DataSpec

-----------------------------------------------------------------------------
(* The lineage.                                                            *)

LineageSpec == LineageInit /\ [][LineageNext]_lineageVars

JobRow == [vid : Vid, st : {"QUEUED", "RUNNING", "COMPLETED", "FAILED"}]
ResultRow == [payload : Payload, rv : Nat, current : BOOLEAN, old : BOOLEAN]

\* Where a writer is: with a version in hand, and with a stored result of it.
Targeting == {"optimize", "insert", "promote", "decide", "flip", "flipping"}
Stored == {"promote", "decide", "flip", "flipping", "verdict"}
WriterRecord == [pc : {"idle"} \cup Targeting \cup Stored, job : Nat, payload : Payload \cup {None},
                 vid : 0 .. MaxVid, seen : SUBSET Nat, rv : Nat, opp : Nat,
                 out : {"KEPT", "PROMOTED", "DEMOTED"}]

\* Columns and processes.
LineageTypeOK ==
    /\ nvid \in 0 .. MaxVid /\ posting \in 0 .. nvid
    /\ best \in SUBSET (1 .. nvid) /\ replay \in SUBSET (1 .. nvid) /\ cutover \in BOOLEAN
    /\ results \in [Vid -> Seq(ResultRow)]
    /\ jobs \in Seq(JobRow) /\ \A j \in DOMAIN jobs : jobs[j].vid <= nvid
    /\ proc \in [Writer -> WriterRecord]

HasPassing(v) == \E i \in DOMAIN results[v] : passes_hard_gates(results[v][i].payload)

\* A writer's version exists, is its job's and, once the result is stored, has a
\* current one; what a worker promotes has passed; and a snapshot is stale only
\* if another writer of the same kind has overlapped with it.
WriterOK(w, t) ==
    /\ t.pc \in Targeting => t.vid \in 1 .. nvid
    /\ w \in Worker /\ t.pc # "idle" => t.job \in DOMAIN jobs
    /\ w \in Worker /\ t.pc \in Targeting => t.vid = jobs[t.job].vid
    /\ w \in Worker /\ t.pc \in Stored => current(jobs[t.job].vid) # {}
    /\ w \notin Worker => t.pc \in {"idle", "flipping"}
    /\ t.pc = "insert" => t.payload \in Payload
    /\ t.pc \in {"promote", "decide"} =>
          \E i \in DOMAIN results[t.vid] : results[t.vid][i].payload = t.payload
    /\ t.pc \in {"flip", "flipping"} => t.out \in {"PROMOTED", "DEMOTED"}
    /\ w \in Worker /\ t.pc \in {"flip", "flipping"} /\ t.out = "PROMOTED" => HasPassing(t.vid)
    /\ t.pc = "flipping" /\ "flip" \notin overlapped => t.seen = best
    /\ t.pc = "insert" /\ "insert" \notin overlapped => t.seen = current(t.vid)

AtMostOne(S) == \A x, y \in S : x = y

\* FlagsAccounted and BestPassedTheGates, on the rows.
RowsAccounted ==
    /\ nvid > 0 => best # {}
    /\ "flip" \notin overlapped => AtMostOne(best)
    /\ \A j \in DOMAIN jobs : jobs[j].st = "COMPLETED" => current(jobs[j].vid) # {}
    /\ "insert" \notin overlapped => \A v \in Vid : AtMostOne(current(v))
    /\ \A v \in best \ ({1} \cup byHand) : HasPassing(v)

LineageInv ==
    /\ LineageTypeOK
    /\ \A w \in Writer : \A t \in WriterRecord : proc[w] = t => WriterOK(w, t)
    /\ RowsAccounted

\* Rows are only added, payloads stay, and a version keeps a current result.
ResultsGrow ==
    \A v \in Vid :
        /\ \A i \in DOMAIN results[v] :
              i \in DOMAIN results'[v] /\ results'[v][i].payload = results[v][i].payload
        /\ current(v) # {} => current(v)' # {}

JobsGrow ==
    \A j \in DOMAIN jobs : j \in DOMAIN jobs' /\ jobs'[j].vid = jobs[j].vid

\* What a step leaves of what a writer knows.
LEMMA WriterKeeps ==
    ASSUME LineageTypeOK, NEW w \in Writer, NEW t \in WriterRecord, WriterOK(w, t),
           nvid' \in Nat, nvid <= nvid', JobsGrow, ResultsGrow,
           t.pc = "flipping" /\ "flip" \notin overlapped' => "flip" \notin overlapped /\ best' = best,
           t.pc = "insert" /\ "insert" \notin overlapped' =>
               "insert" \notin overlapped /\ current(t.vid)' = current(t.vid)
    PROVE  WriterOK(w, t)'
<1>v. \A v \in 1 .. nvid : v \in Vid
  BY LineageAssumption DEF LineageTypeOK, Vid
<1>j. \A j \in DOMAIN jobs : jobs[j].vid \in Vid
  <2>1. jobs \in Seq(JobRow)
    BY DEF LineageTypeOK
  <2>2. \A j \in DOMAIN jobs : jobs[j] \in JobRow
    BY <2>1
  <2> QED BY <2>2 DEF JobRow
<1>1. t.pc \in Targeting => t.vid \in 1 .. nvid'
  BY DEF WriterOK, LineageTypeOK
<1>2. w \in Worker /\ t.pc # "idle" => t.job \in DOMAIN jobs'
  BY DEF WriterOK, JobsGrow
<1>3. w \in Worker /\ t.pc \in Targeting => t.vid = jobs'[t.job].vid
  BY DEF WriterOK, JobsGrow, Targeting
<1>4. w \in Worker /\ t.pc \in Stored => current(jobs[t.job].vid)' # {}
  <2> SUFFICES ASSUME w \in Worker, t.pc \in Stored PROVE current(jobs[t.job].vid)' # {}
    OBVIOUS
  <2>1. t.job \in DOMAIN jobs /\ current(jobs[t.job].vid) # {}
    BY DEF WriterOK, Stored
  <2>2. PICK v \in Vid : v = jobs[t.job].vid
    BY <2>1, <1>j
  <2>3. current(v)' # {} /\ jobs'[t.job].vid = v
    BY <2>1, <2>2 DEF ResultsGrow, JobsGrow
  <2> QED
    BY <2>3 DEF current
<1>5. t.pc \in {"promote", "decide"} =>
          \E i \in DOMAIN results'[t.vid] : results'[t.vid][i].payload = t.payload
  BY <1>v DEF WriterOK, ResultsGrow, Targeting
<1>6. w \in Worker /\ t.pc \in {"flip", "flipping"} /\ t.out = "PROMOTED" => HasPassing(t.vid)'
  <2> SUFFICES ASSUME w \in Worker, t.pc \in {"flip", "flipping"}, t.out = "PROMOTED"
               PROVE  \E i \in DOMAIN results'[t.vid] : passes_hard_gates(results'[t.vid][i].payload)
    BY DEF HasPassing, passes_hard_gates
  <2>1. t.vid \in Vid /\ \E i \in DOMAIN results[t.vid] : passes_hard_gates(results[t.vid][i].payload)
    BY <1>v DEF WriterOK, HasPassing, Targeting
  <2> QED
    BY <2>1 DEF ResultsGrow
<1>7. t.pc = "flipping" /\ "flip" \notin overlapped' => t.seen = best'
  BY DEF WriterOK
<1>8. t.pc = "insert" /\ "insert" \notin overlapped' => t.seen = current(t.vid)'
  BY DEF WriterOK
<1>9. /\ w \notin Worker => t.pc \in {"idle", "flipping"}
      /\ t.pc = "insert" => t.payload \in Payload
      /\ t.pc \in {"flip", "flipping"} => t.out \in {"PROMOTED", "DEMOTED"}
  BY DEF WriterOK
<1> QED
  BY <1>1, <1>2, <1>3, <1>4, <1>5, <1>6, <1>7, <1>8, <1>9 DEF WriterOK

\* Every step grows the rows; a step of one writer leaves the others what they
\* know, and the properties as they are, if it leaves the flags alone.
LEMMA QuietStep ==
    ASSUME LineageInv, NEW w \in Writer, NEW t \in WriterRecord,
           proc' = [proc EXCEPT ![w] = t], WriterOK(w, t)',
           UNCHANGED <<nvid, best, results, posting, replay, cutover, byHand, overlapped>>,
           jobs' \in Seq(JobRow), DOMAIN jobs' = DOMAIN jobs,
           \A j \in DOMAIN jobs :
              /\ jobs'[j].vid = jobs[j].vid
              /\ jobs'[j].st = "COMPLETED" => current(jobs[j].vid) # {}
    PROVE  LineageInv'
<1>t. LineageTypeOK'
  BY DEF LineageInv, LineageTypeOK
<1>c. \A v : current(v)' = current(v)
  BY DEF current
<1>g. JobsGrow /\ ResultsGrow
  <2>1. JobsGrow
    BY DEF JobsGrow
  <2>2. ResultsGrow
    BY <1>c DEF ResultsGrow
  <2> QED BY <2>1, <2>2
<1>w. ASSUME NEW u \in Writer, NEW s \in WriterRecord, proc'[u] = s PROVE WriterOK(u, s)'
  <2>1. CASE u = w
    <3>1. s = t
      BY <1>w, <2>1 DEF LineageInv, LineageTypeOK
    <3> QED
      BY <2>1, <3>1
  <2>2. CASE u # w
    <3>2. WriterOK(u, s)
      BY <1>w, <2>2 DEF LineageInv, LineageTypeOK
    <3>3. nvid' \in Nat /\ nvid <= nvid'
      BY DEF LineageInv, LineageTypeOK
    <3> QED
      BY <3>2, <3>3, <1>g, <1>c, WriterKeeps DEF LineageInv
  <2> QED BY <2>1, <2>2
<1>r. RowsAccounted'
  <2>1. (\A j \in DOMAIN jobs : jobs[j].st = "COMPLETED" => current(jobs[j].vid) # {})'
    BY DEF current
  <2>2. \A v : HasPassing(v)' <=> HasPassing(v)
    BY DEF HasPassing, passes_hard_gates
  <2> QED
    BY <1>c, <2>1, <2>2 DEF LineageInv, RowsAccounted, AtMostOne
<1> QED
  BY <1>t, <1>w, <1>r DEF LineageInv

\* A step of the requests or the replay: new versions and queue rows only.
LEMMA RequestStep ==
    ASSUME LineageInv, LineageTypeOK', UNCHANGED <<proc, results, byHand, overlapped>>,
           nvid <= nvid', JobsGrow,
           \A j \in DOMAIN jobs' :
              jobs'[j].st = "COMPLETED" => j \in DOMAIN jobs /\ jobs[j].st = "COMPLETED",
           best' = best \/ (nvid = 0 /\ best' = {1}),
           nvid' > 0 => best' # {}
    PROVE  LineageInv'
<1>c. \A v : current(v)' = current(v)
  BY DEF current
<1>g. ResultsGrow
  BY <1>c DEF ResultsGrow
<1>n. nvid \in Nat /\ nvid' \in Nat
  BY LineageAssumption DEF LineageInv, LineageTypeOK
<1>w. ASSUME NEW u \in Writer, NEW s \in WriterRecord, proc'[u] = s PROVE WriterOK(u, s)'
  <2>1. WriterOK(u, s)
    BY <1>w DEF LineageInv
  <2>2. s.pc = "flipping" => best' = best
    BY <2>1, <1>n DEF WriterOK, Targeting
  <2> QED
    BY <2>1, <2>2, <1>n, <1>g, <1>c, WriterKeeps DEF LineageInv
<1>r. RowsAccounted'
  <2>1. (\A j \in DOMAIN jobs : jobs[j].st = "COMPLETED" => current(jobs[j].vid) # {})'
    BY DEF LineageInv, RowsAccounted, JobsGrow, current
  <2>2. \A v : HasPassing(v)' <=> HasPassing(v)
    BY DEF HasPassing
  <2>3. ("flip" \notin overlapped => AtMostOne(best))'
    BY DEF LineageInv, RowsAccounted, AtMostOne
  <2>4. ("insert" \notin overlapped => \A v \in Vid : AtMostOne(current(v)))'
    BY <1>c DEF LineageInv, RowsAccounted, AtMostOne
  <2>5. \A v \in best' \ ({1} \cup byHand') : HasPassing(v)'
    BY <2>2 DEF LineageInv, RowsAccounted
  <2> QED
    BY <2>1, <2>3, <2>4, <2>5 DEF RowsAccounted
<1> QED
  BY <1>w, <1>r DEF LineageInv

\* A queue row is added.
LEMMA QueueRowAdded ==
    ASSUME LineageInv, NEW v \in 1 .. nvid, sp_ins_queue(v), UNCHANGED nvid
    PROVE  /\ jobs' \in Seq(JobRow) /\ \A j \in DOMAIN jobs' : jobs'[j].vid <= nvid'
           /\ JobsGrow
           /\ \A j \in DOMAIN jobs' :
                 jobs'[j].st = "COMPLETED" => j \in DOMAIN jobs /\ jobs[j].st = "COMPLETED"
<1>0. v \in Vid
  BY LineageAssumption DEF LineageInv, LineageTypeOK, Vid
<1>1. PICK row \in JobRow : row = [vid |-> v, st |-> "QUEUED"]
  BY <1>0 DEF JobRow
<1>2. jobs \in Seq(JobRow) /\ jobs' = Append(jobs, row) /\ row.vid = v /\ row.st = "QUEUED"
      /\ nvid \in Nat
  BY <1>1 DEF sp_ins_queue, LineageInv, LineageTypeOK
<1>3. \A j \in DOMAIN jobs : jobs[j].vid <= nvid
  BY DEF LineageInv, LineageTypeOK
<1>4. /\ jobs' \in Seq(JobRow) /\ DOMAIN jobs' = 1 .. Len(jobs) + 1 /\ DOMAIN jobs = 1 .. Len(jobs)
      /\ \A j \in 1 .. Len(jobs) : jobs'[j] = jobs[j]
      /\ jobs'[Len(jobs) + 1] = row
  BY <1>2, AppendProperties
<1>5. Len(jobs) \in Nat /\ v <= nvid
  BY <1>2
<1>6. \A j \in DOMAIN jobs' : j \in DOMAIN jobs \/ j = Len(jobs) + 1
  BY <1>4, <1>5
<1>7. \A j \in DOMAIN jobs : j \in DOMAIN jobs'
  BY <1>4, <1>5
<1> QED
  BY <1>2, <1>3, <1>4, <1>5, <1>6, <1>7 DEF JobsGrow

\* The requests and the replay.
LEMMA RequestsKeep ==
    ASSUME LineageInv
    PROVE  /\ Enqueue => LineageInv'
           /\ EnqueueRow => LineageInv'
           /\ Rerun => LineageInv'
           /\ RerunRow => LineageInv'
           /\ \A j \in DOMAIN jobs : Reenqueue(j) => LineageInv'
           /\ \A vs : \A ind \in {"Y", "N"} : SetLogicalDelete(vs, ind) => LineageInv'
<1> USE LineageAssumption
<1>n. nvid \in 0 .. MaxVid /\ nvid \in Nat /\ (nvid > 0 => best # {})
  BY DEF LineageInv, LineageTypeOK, RowsAccounted
<1>k. UNCHANGED jobs => JobsGrow /\ \A j \in DOMAIN jobs' :
                           jobs'[j].st = "COMPLETED" => j \in DOMAIN jobs /\ jobs[j].st = "COMPLETED"
  BY DEF JobsGrow
<1>1. CASE Enqueue
  <2>1. /\ nvid' = nvid + 1 /\ posting' = nvid + 1 /\ nvid < MaxVid
        /\ best' = IF nvid = 0 THEN {1} ELSE best
        /\ UNCHANGED <<results, jobs, replay, cutover, proc, byHand, overlapped>>
    BY <1>1 DEF Enqueue
  <2>2. LineageTypeOK'
    <3>1. best' \in SUBSET (1 .. nvid') /\ replay' \in SUBSET (1 .. nvid')
      BY <1>n, <2>1 DEF LineageInv, LineageTypeOK
    <3>2. \A j \in DOMAIN jobs : jobs[j].vid <= nvid'
      <4>1. jobs \in Seq(JobRow) /\ \A j \in DOMAIN jobs : jobs[j].vid <= nvid
        BY DEF LineageInv, LineageTypeOK
      <4>2. \A j \in DOMAIN jobs : jobs[j] \in JobRow
        BY <4>1
      <4>3. \A j \in DOMAIN jobs : jobs[j].vid \in Nat
        BY <4>2 DEF JobRow, Vid
      <4> QED
        BY <1>n, <2>1, <4>1, <4>3
    <3> QED
      BY <1>n, <2>1, <3>1, <3>2 DEF LineageInv, LineageTypeOK
  <2> QED
    BY <1>n, <1>k, <2>1, <2>2, RequestStep
<1>2. CASE EnqueueRow
  <2>1. posting \in 1 .. nvid
    BY <1>2, <1>n DEF EnqueueRow, LineageInv, LineageTypeOK
  <2>2. CASE UNCHANGED jobs
    <3>1. LineageTypeOK'
      BY <1>2, <1>n, <2>2 DEF EnqueueRow, LineageInv, LineageTypeOK
    <3> QED
      BY <1>2, <1>n, <1>k, <2>2, <3>1, RequestStep DEF EnqueueRow
  <2>3. CASE sp_ins_queue(posting)
    <3>1. UNCHANGED <<nvid, best, results, replay, cutover, proc, byHand, overlapped>> /\ posting' = 0
      BY <1>2 DEF EnqueueRow
    <3>2. /\ jobs' \in Seq(JobRow) /\ \A j \in DOMAIN jobs' : jobs'[j].vid <= nvid'
          /\ JobsGrow
          /\ \A j \in DOMAIN jobs' :
                jobs'[j].st = "COMPLETED" => j \in DOMAIN jobs /\ jobs[j].st = "COMPLETED"
      BY <2>1, <2>3, <3>1, QueueRowAdded
    <3>3. LineageTypeOK'
      BY <1>n, <3>1, <3>2 DEF LineageInv, LineageTypeOK
    <3> QED
      BY <1>n, <3>1, <3>2, <3>3, RequestStep
  <2> QED
    BY <1>2, <2>2, <2>3 DEF EnqueueRow
<1>3. CASE Rerun
  <2>1. LineageTypeOK'
    BY <1>3 DEF Rerun, stale_versions, LineageInv, LineageTypeOK
  <2> QED
    BY <1>3, <1>n, <1>k, <2>1, RequestStep DEF Rerun
<1>4. CASE RerunRow
  <2>1. PICK v \in replay : sp_ins_queue(v) /\ replay' = replay \ {v}
    BY <1>4 DEF RerunRow
  <2>2. v \in 1 .. nvid
    BY DEF LineageInv, LineageTypeOK
  <2>3. UNCHANGED <<nvid, best, results, posting, cutover, proc, byHand, overlapped>>
    BY <1>4 DEF RerunRow
  <2>4. /\ jobs' \in Seq(JobRow) /\ \A j \in DOMAIN jobs' : jobs'[j].vid <= nvid'
        /\ JobsGrow
        /\ \A j \in DOMAIN jobs' :
              jobs'[j].st = "COMPLETED" => j \in DOMAIN jobs /\ jobs[j].st = "COMPLETED"
    BY <2>1, <2>2, <2>3, QueueRowAdded
  <2>5. LineageTypeOK'
    BY <1>n, <2>1, <2>3, <2>4 DEF LineageInv, LineageTypeOK
  <2> QED
    BY <1>n, <2>3, <2>4, <2>5, RequestStep
<1>5. ASSUME NEW j \in DOMAIN jobs, Reenqueue(j) PROVE LineageInv'
  <2>1. PICK v : v = jobs[j].vid
    OBVIOUS
  <2>2. v \in 1 .. nvid
    <3>1. jobs \in Seq(JobRow) /\ v <= nvid
      BY <2>1 DEF LineageInv, LineageTypeOK
    <3>2. jobs[j] \in JobRow
      BY <3>1
    <3>3. v \in Vid
      BY <2>1, <3>2 DEF JobRow
    <3> QED
      BY <1>n, <3>1, <3>3 DEF Vid
  <2>3. UNCHANGED <<nvid, best, results, posting, replay, cutover, proc, byHand, overlapped>>
    BY <1>5 DEF Reenqueue
  <2>4. /\ jobs' \in Seq(JobRow) /\ \A i \in DOMAIN jobs' : jobs'[i].vid <= nvid'
        /\ JobsGrow
        /\ \A i \in DOMAIN jobs' :
              jobs'[i].st = "COMPLETED" => i \in DOMAIN jobs /\ jobs[i].st = "COMPLETED"
    BY <1>5, <2>1, <2>2, <2>3, QueueRowAdded DEF Reenqueue
  <2>5. LineageTypeOK'
    BY <1>n, <2>3, <2>4 DEF LineageInv, LineageTypeOK
  <2> QED
    BY <1>n, <2>3, <2>4, <2>5, RequestStep
<1>6. ASSUME NEW vs, NEW ind \in {"Y", "N"}, SetLogicalDelete(vs, ind) PROVE LineageInv'
  <2>1. LineageTypeOK'
    BY <1>6 DEF SetLogicalDelete, LineageInv, LineageTypeOK
  <2> QED
    BY <1>6, <1>n, <1>k, <2>1, RequestStep DEF SetLogicalDelete
<1> QED
  BY <1>1, <1>2, <1>3, <1>4, <1>5, <1>6

-----------------------------------------------------------------------------
(* The writers.                                                            *)

\* The numbers 0, f[1] .. f[n] have a largest one.
LEMMA Highest ==
    ASSUME NEW n \in Nat, NEW f \in [1 .. n -> Nat]
    PROVE  \E x \in {0} \cup {f[i] : i \in 1 .. n} :
              \A y \in {0} \cup {f[i] : i \in 1 .. n} : x >= y
<1> DEFINE U(k) == {0} \cup {f[i] : i \in 1 .. k}
           Bad == {k \in 0 .. n : ~ \E x \in U(k) : \A y \in U(k) : x >= y}
<1>0. n \in 0 .. n
  OBVIOUS
<1>1. SUFFICES ASSUME Bad # {} PROVE FALSE
  BY <1>0, Zenon
<1>2. Bad \in SUBSET Nat
  OBVIOUS
<1>3. PICK k \in Bad : \A j \in Bad : k <= j
  BY <1>1, <1>2, LeastDay
<1>4. k \in 0 .. n /\ ~ \E x \in U(k) : \A y \in U(k) : x >= y
  BY <1>3
<1>5. k # 0
  <2>1. U(0) = {0}
    OBVIOUS
  <2> QED BY <1>4, <2>1
<1>6. k - 1 \in 0 .. n /\ k - 1 \notin Bad /\ k \in 1 .. n
  <2>1. k \in 1 .. n /\ k - 1 \in 0 .. n /\ ~(k <= k - 1)
    BY <1>4, <1>5
  <2> HIDE DEF Bad
  <2> QED BY <1>3, <2>1
<1>7. PICK x \in U(k - 1) : \A y \in U(k - 1) : x >= y
  BY <1>6
<1>8. U(k) = U(k - 1) \cup {f[k]} /\ U(k) \in SUBSET Nat
  BY <1>4, <1>6
<1>9. x \in Nat /\ f[k] \in Nat
  BY <1>6, <1>7, <1>8
<1> HIDE DEF U, Bad
<1>10. CASE f[k] >= x
  <2>1. \A y \in U(k) : f[k] >= y
    BY <1>7, <1>8, <1>9, <1>10
  <2> QED BY <1>4, <1>8, <2>1
<1>11. CASE ~(f[k] >= x)
  <2>1. \A y \in U(k) : x >= y
    BY <1>7, <1>8, <1>9, <1>11
  <2> QED BY <1>4, <1>7, <1>8, <2>1
<1> QED
  BY <1>10, <1>11

\* A writer at rest.
LEMMA IdleWriter == Idle \in WriterRecord /\ Idle.pc = "idle"
<1>1. PICK n \in Nat : n = 0
  OBVIOUS
<1>2. PICK v \in 0 .. MaxVid : v = 0
  BY LineageAssumption
<1>3. PICK e \in SUBSET Nat : e = {}
  OBVIOUS
<1>4. [pc |-> "idle", job |-> n, payload |-> None, vid |-> v, seen |-> e, rv |-> n,
       opp |-> n, out |-> "KEPT"] \in WriterRecord
  BY DEF WriterRecord
<1>5. Idle \in WriterRecord
  BY <1>1, <1>2, <1>3, <1>4, Zenon DEF Idle
<1> QED
  BY <1>5 DEF Idle

\* A writer's own record.
LEMMA WriterIs ==
    ASSUME LineageInv, NEW w \in Writer
    PROVE  \E t \in WriterRecord : t = proc[w] /\ WriterOK(w, t)
BY DEF LineageInv, LineageTypeOK

\* A writer that goes back to rest, leaving the rows alone.
LEMMA BackToIdle ==
    ASSUME LineageInv, NEW w \in Writer, Step(w, Idle),
           UNCHANGED <<nvid, best, results, posting, replay, cutover, byHand, overlapped>>,
           jobs' \in Seq(JobRow), DOMAIN jobs' = DOMAIN jobs,
           \A j \in DOMAIN jobs :
              /\ jobs'[j].vid = jobs[j].vid
              /\ jobs'[j].st = "COMPLETED" => current(jobs[j].vid) # {}
    PROVE  LineageInv'
<1>1. PICK t \in WriterRecord : t = Idle /\ t.pc = "idle"
  BY IdleWriter, Zenon
<1>2. WriterOK(w, t)'
  BY <1>1 DEF WriterOK, Targeting, Stored
<1>3. proc' = [proc EXCEPT ![w] = t]
  BY <1>1 DEF Step
<1> QED
  BY <1>2, <1>3, QuietStep

\* A verdict: the row of one job gets another status.
LEMMA VerdictRow ==
    ASSUME LineageInv, NEW j \in DOMAIN jobs, NEW st \in {"RUNNING", "COMPLETED", "FAILED"},
           Verdict(j, st), st = "COMPLETED" => current(jobs[j].vid) # {}
    PROVE  /\ jobs' \in Seq(JobRow) /\ DOMAIN jobs' = DOMAIN jobs
           /\ \A i \in DOMAIN jobs :
                 /\ jobs'[i].vid = jobs[i].vid
                 /\ jobs'[i].st = "COMPLETED" => current(jobs[i].vid) # {}
<1>1. jobs \in Seq(JobRow) /\ jobs' = [jobs EXCEPT ![j].st = st]
  BY DEF LineageInv, LineageTypeOK, Verdict
<1>2. \A i \in DOMAIN jobs : jobs[i] \in JobRow
  BY <1>1
<1>3. PICK row \in JobRow : row = [jobs[j] EXCEPT !.st = st]
  BY <1>2 DEF JobRow
<1>4. row.vid = jobs[j].vid /\ row.st = st
  BY <1>2, <1>3 DEF JobRow
<1>5. jobs' = [jobs EXCEPT ![j] = row]
  BY <1>1, <1>3
<1>6. jobs' \in Seq(JobRow) /\ DOMAIN jobs' = DOMAIN jobs
  BY <1>1, <1>5
<1> QED
  BY <1>4, <1>5, <1>6 DEF LineageInv, RowsAccounted

\* Nothing happens to the queue.
LEMMA NoVerdict ==
    ASSUME LineageInv, UNCHANGED jobs
    PROVE  /\ jobs' \in Seq(JobRow) /\ DOMAIN jobs' = DOMAIN jobs
           /\ \A i \in DOMAIN jobs :
                 /\ jobs'[i].vid = jobs[i].vid
                 /\ jobs'[i].st = "COMPLETED" => current(jobs[i].vid) # {}
BY DEF LineageInv, LineageTypeOK, RowsAccounted

\* A writer that keeps only its job.
LEMMA HeldRecord ==
    ASSUME NEW w \in Writer, NEW t \in WriterRecord, t = proc[w]
    PROVE  \E h \in WriterRecord : h = Held(w) /\ h.job = t.job
<1>1. PICK i \in WriterRecord : i = Idle
  BY IdleWriter
<1>2. PICK h \in WriterRecord : h = [i EXCEPT !.job = t.job]
  BY DEF WriterRecord
<1>3. h.job = t.job
  BY <1>2 DEF WriterRecord
<1>4. h = Held(w)
  BY <1>1, <1>2, Zenon DEF Held
<1> QED
  BY <1>3, <1>4, Zenon

\* ... on its way to the verdict.
LEMMA JudgedRecord ==
    ASSUME NEW w \in Writer, NEW t \in WriterRecord, t = proc[w]
    PROVE  \E s \in WriterRecord : s = Judged(w) /\ s.pc = "verdict" /\ s.job = t.job
<1>1. PICK h \in WriterRecord : h = Held(w) /\ h.job = t.job
  BY HeldRecord, Zenon
<1>2. PICK s \in WriterRecord : s = [h EXCEPT !.pc = "verdict"]
  BY DEF WriterRecord, Stored
<1>3. s.pc = "verdict" /\ s.job = t.job
  BY <1>1, <1>2 DEF WriterRecord
<1>4. s = Judged(w)
  BY <1>1, <1>2, Zenon DEF Judged
<1> QED
  BY <1>3, <1>4, Zenon

\* ... or to a flip.
ToFlip(w, v, o) == [Held(w) EXCEPT !.pc = "flip", !.vid = v, !.out = o]

\* Its fields.
LEMMA FlipRecord ==
    ASSUME NEW w \in Writer, NEW t \in WriterRecord, t = proc[w]
    PROVE  \A o \in {"PROMOTED", "DEMOTED"} : \E s \in WriterRecord :
              /\ s = ToFlip(w, t.vid, o)
              /\ s.pc = "flip" /\ s.job = t.job /\ s.vid = t.vid /\ s.out = o
<1> TAKE o \in {"PROMOTED", "DEMOTED"}
<1>1. PICK h \in WriterRecord : h = Held(w) /\ h.job = t.job
  BY HeldRecord, Zenon
<1>2. PICK s \in WriterRecord : s = [h EXCEPT !.pc = "flip", !.vid = t.vid, !.out = o]
  BY DEF WriterRecord, Targeting
<1>3. s.pc = "flip" /\ s.job = t.job /\ s.vid = t.vid /\ s.out = o
  BY <1>1, <1>2 DEF WriterRecord
<1> QED
  BY <1>1, <1>2, <1>3, Zenon DEF ToFlip

\* A version in hand exists.
LEMMA InHand ==
    ASSUME LineageInv, NEW w \in Writer, NEW t, WriterOK(w, t), t.pc \in Targeting
    PROVE  t.vid \in Vid /\ t.vid \in 1 .. nvid /\ DOMAIN results[t.vid] \in SUBSET Nat
<1>1. t.vid \in 1 .. nvid /\ nvid \in 0 .. MaxVid
  BY DEF WriterOK, LineageInv, LineageTypeOK
<1>2. t.vid \in Vid
  BY <1>1, LineageAssumption DEF Vid
<1>3. results[t.vid] \in Seq(ResultRow)
  BY <1>2 DEF LineageInv, LineageTypeOK
<1>4. DOMAIN results[t.vid] \in SUBSET Nat
  BY <1>3
<1> QED
  BY <1>1, <1>2, <1>4

\* The steps of a worker that leave rows and flags alone.
LEMMA WorkerKeeps ==
    ASSUME LineageInv, NEW w \in Worker
    PROVE  /\ FetchJob(w) => LineageInv'
           /\ OptimizeFails(w) => LineageInv'
           /\ InsResultBegin(w) => LineageInv'
           /\ PromotionRead(w) => LineageInv'
           /\ PromotionDecide(w) => LineageInv'
           /\ FlipBegin(w) => LineageInv'
           /\ Complete(w) => LineageInv'
           /\ Reaped(w) => LineageInv'
<1>w. w \in Writer
  BY DEF Writer
<1>t. PICK t \in WriterRecord : t = proc[w] /\ WriterOK(w, t)
  BY <1>w, WriterIs
<1>c. \A v : UNCHANGED results => current(v)' = current(v)
  BY DEF current
<1>h. \A v : UNCHANGED results => (HasPassing(v)' <=> HasPassing(v))
  BY DEF HasPassing
<1>j. t.pc # "idle" => t.job \in DOMAIN jobs
  BY <1>t DEF WriterOK
<1>1. CASE FetchJob(w)
  <2>1. PICK j \in DOMAIN jobs :
            /\ Verdict(j, "RUNNING")
            /\ Step(w, [Idle EXCEPT !.pc = "optimize", !.job = j, !.vid = jobs[j].vid])
    BY <1>1, Zenon DEF FetchJob
  <2>2. UNCHANGED <<nvid, best, results, posting, replay, cutover, byHand, overlapped>>
    BY <1>1 DEF FetchJob
  <2>3. /\ jobs' \in Seq(JobRow) /\ DOMAIN jobs' = DOMAIN jobs
        /\ \A i \in DOMAIN jobs :
              /\ jobs'[i].vid = jobs[i].vid
              /\ jobs'[i].st = "COMPLETED" => current(jobs[i].vid) # {}
    BY <2>1, VerdictRow
  <2>4. PICK v : v = jobs[j].vid
    OBVIOUS
  <2>5. v \in 1 .. nvid /\ v \in 0 .. MaxVid /\ j \in Nat
    <3>1. jobs \in Seq(JobRow) /\ v <= nvid /\ nvid \in 0 .. MaxVid
      BY <2>4 DEF LineageInv, LineageTypeOK
    <3>2. jobs[j] \in JobRow /\ j \in Nat
      BY <3>1
    <3>3. v \in Vid
      BY <2>4, <3>2 DEF JobRow
    <3> QED BY <3>1, <3>2, <3>3, LineageAssumption DEF Vid
  <2>6. PICK i \in WriterRecord : i = Idle
    BY IdleWriter
  <2>7. PICK s \in WriterRecord : s = [i EXCEPT !.pc = "optimize", !.job = j, !.vid = v]
    BY <2>5 DEF WriterRecord, Targeting
  <2>8. s.pc = "optimize" /\ s.job = j /\ s.vid = v
    BY <2>7 DEF WriterRecord
  <2>9. WriterOK(w, s)'
    BY <2>2, <2>3, <2>4, <2>5, <2>8 DEF WriterOK, Targeting, Stored
  <2>10. proc' = [proc EXCEPT ![w] = s]
    BY <2>1, <2>4, <2>6, <2>7, Zenon DEF Step
  <2> QED
    BY <1>w, <2>2, <2>3, <2>9, <2>10, QuietStep
<1>2. CASE OptimizeFails(w)
  <2>1. t.pc = "optimize" /\ Verdict(t.job, "FAILED") /\ Step(w, Idle)
    BY <1>2, <1>t DEF OptimizeFails, At
  <2>2. /\ jobs' \in Seq(JobRow) /\ DOMAIN jobs' = DOMAIN jobs
        /\ \A i \in DOMAIN jobs :
              /\ jobs'[i].vid = jobs[i].vid
              /\ jobs'[i].st = "COMPLETED" => current(jobs[i].vid) # {}
    BY <2>1, <1>j, VerdictRow
  <2> QED
    BY <1>2, <1>w, <2>1, <2>2, BackToIdle DEF OptimizeFails
<1>3. CASE InsResultBegin(w)
  <2>1. t.pc = "optimize" /\ t.vid \in Vid /\ DOMAIN results[t.vid] \in SUBSET Nat
    BY <1>3, <1>t, <1>w, InHand DEF InsResultBegin, At, Targeting
  <2>2. UNCHANGED <<nvid, best, results, jobs, posting, replay, cutover, byHand, overlapped>>
    BY <1>3 DEF InsResultBegin
  <2> DEFINE top == Max({0} \cup {results[t.vid][i].rv : i \in DOMAIN results[t.vid]})
  <2>3. PICK p \in Payload :
            Step(w, [t EXCEPT !.pc = "insert", !.payload = p, !.seen = current(t.vid), !.rv = top + 1])
    BY <1>3, <1>t DEF InsResultBegin
  <2>4. top \in Nat
    <3>1. results[t.vid] \in Seq(ResultRow)
      BY <2>1 DEF LineageInv, LineageTypeOK
    <3>2. PICK n \in Nat : DOMAIN results[t.vid] = 1 .. n /\ \A i \in 1 .. n : results[t.vid][i] \in ResultRow
      BY <3>1
    <3>3. PICK f : f = [i \in 1 .. n |-> results[t.vid][i].rv]
      OBVIOUS
    <3>4. f \in [1 .. n -> Nat] /\ {f[i] : i \in 1 .. n} = {results[t.vid][i].rv : i \in DOMAIN results[t.vid]}
      BY <3>2, <3>3 DEF ResultRow
    <3>5. \E x \in {0} \cup {f[i] : i \in 1 .. n} :
              \A y \in {0} \cup {f[i] : i \in 1 .. n} : x >= y
      BY <3>4, Highest, Zenon
    <3>s. PICK S : S = {0} \cup {f[i] : i \in 1 .. n}
      OBVIOUS
    <3>6. S \in SUBSET Nat /\ \E x \in S : \A y \in S : x >= y
      <4>1. \A i \in 1 .. n : f[i] \in Nat
        BY <3>4
      <4>2. S \in SUBSET Nat
        BY <3>s, <4>1
      <4>3. \E x \in S : \A y \in S : x >= y
        BY <3>5, <3>s, Zenon
      <4> QED BY <4>2, <4>3
    <3>7. Max(S) \in S
      BY <3>6 DEF Max
    <3> QED BY <3>4, <3>s, <3>6, <3>7
  <2>5. PICK cur \in SUBSET Nat : cur = current(t.vid)
    <3>1. current(t.vid) \in SUBSET Nat
      BY <2>1 DEF current
    <3> QED BY <3>1, Zenon
  <2>6. PICK n \in Nat : n = top + 1
    <3>1. PICK m \in Nat : m = top
      BY <2>4, Zenon
    <3> HIDE DEF top
    <3> QED BY <3>1
  <2>7. PICK s \in WriterRecord : s = [t EXCEPT !.pc = "insert", !.payload = p, !.seen = cur, !.rv = n]
    BY DEF WriterRecord, Targeting
  <2>8. s.pc = "insert" /\ s.payload = p /\ s.seen = cur /\ s.vid = t.vid /\ s.job = t.job
    BY <2>7 DEF WriterRecord
  <2>9. proc' = [proc EXCEPT ![w] = s]
    BY <2>3, <2>5, <2>6, <2>7, Zenon DEF Step
  <2>10. WriterOK(w, s)'
    <3>1. s.seen = current(s.vid)'
      BY <2>2, <2>5, <2>8, <1>c
    <3> QED
      BY <1>t, <2>1, <2>2, <2>8, <3>1 DEF WriterOK, Targeting, Stored
  <2> QED
    BY <1>w, <2>2, <2>9, <2>10, NoVerdict, QuietStep
<1>4. CASE PromotionRead(w)
  <2>1. t.pc = "promote"
    BY <1>4, <1>t DEF PromotionRead, At
  <2>2. UNCHANGED <<nvid, best, results, jobs, posting, replay, cutover, byHand, overlapped>>
    BY <1>4 DEF PromotionRead
  <2>3. PICK b \in best : Step(w, [t EXCEPT !.pc = "decide", !.opp = b])
    BY <1>4, <1>t DEF PromotionRead
  <2>4. b \in Nat
    <3>1. b \in 1..nvid
      BY Zenon DEF LineageInv, LineageTypeOK
    <3> QED BY <3>1
  <2>5. PICK s \in WriterRecord : s = [t EXCEPT !.pc = "decide", !.opp = b]
    BY <2>4 DEF WriterRecord, Targeting
  <2>6. s.pc = "decide" /\ s.payload = t.payload /\ s.vid = t.vid /\ s.job = t.job
    BY <2>5 DEF WriterRecord
  <2>7. WriterOK(w, s)'
    <3>1. current(jobs[t.job].vid) # {} => current(jobs'[s.job].vid) # {}
      BY <2>2, <2>6
    <3> QED
      BY <1>t, <1>c, <2>1, <2>2, <2>6 DEF WriterOK, Targeting, Stored, current
  <2> QED
    BY <1>w, <2>2, <2>3, <2>5, <2>7, NoVerdict, QuietStep DEF Step
<1>5. CASE PromotionDecide(w)
  <2>1. t.pc = "decide"
    BY <1>5, <1>t DEF PromotionDecide, At
  <2>2. UNCHANGED <<nvid, best, results, jobs, posting, replay, cutover, byHand, overlapped>>
    BY <1>5 DEF PromotionDecide
  <2>3. PICK o : /\ o = "PROMOTED" => passes_hard_gates(t.payload)
                 /\ Step(w, IF o \in {"PROMOTED", "DEMOTED"}
                            THEN [Held(w) EXCEPT !.pc = "flip", !.vid = t.vid, !.out = o]
                            ELSE Judged(w))
    <3>1. PICK p : LET out == evaluate_promotion(t.payload, p, t.opp = t.vid, t.vid)
                   IN  Step(w, IF out \in {"PROMOTED", "DEMOTED"}
                               THEN [Held(w) EXCEPT !.pc = "flip", !.vid = t.vid, !.out = out]
                               ELSE Judged(w))
      BY <1>5, <1>t DEF PromotionDecide
    <3>2. evaluate_promotion(t.payload, p, t.opp = t.vid, t.vid) = "PROMOTED" => passes_hard_gates(t.payload)
      BY DEF evaluate_promotion
    <3> QED
      BY <3>1, <3>2
  <2>4. CASE o \in {"PROMOTED", "DEMOTED"}
    <3>0. PICK q \in {"PROMOTED", "DEMOTED"} : q = o
      BY <2>4
    <3>p. \A p \in {"PROMOTED", "DEMOTED"} : \E s \in WriterRecord :
              /\ s = ToFlip(w, t.vid, p)
              /\ s.pc = "flip" /\ s.job = t.job /\ s.vid = t.vid /\ s.out = p
      BY <1>t, <1>w, FlipRecord
    <3>1. PICK s \in WriterRecord :
              /\ s = ToFlip(w, t.vid, q)
              /\ s.pc = "flip" /\ s.job = t.job /\ s.vid = t.vid /\ s.out = q
      BY <3>p, Zenon
    <3>2. proc' = [proc EXCEPT ![w] = s]
      BY <2>3, <2>4, <3>0, <3>1, Zenon DEF Step, ToFlip
    <3>3. q = "PROMOTED" => HasPassing(t.vid)
      BY <1>t, <2>1, <2>3, <3>0 DEF WriterOK, HasPassing
    <3>4. WriterOK(w, s)'
      BY <1>t, <1>h, <2>1, <2>2, <3>1, <3>3 DEF WriterOK, Targeting, Stored, current
    <3> QED
      BY <1>w, <2>2, <3>2, <3>4, NoVerdict, QuietStep
  <2>5. CASE o \notin {"PROMOTED", "DEMOTED"}
    <3>1. PICK s \in WriterRecord : s = Judged(w) /\ s.pc = "verdict" /\ s.job = t.job
      BY <1>t, <1>w, JudgedRecord, Zenon
    <3>2. proc' = [proc EXCEPT ![w] = s]
      BY <2>3, <2>5, <3>1 DEF Step
    <3>3. WriterOK(w, s)'
      BY <1>t, <2>1, <2>2, <3>1 DEF WriterOK, Targeting, Stored, current
    <3> QED
      BY <1>w, <2>2, <3>2, <3>3, NoVerdict, QuietStep
  <2> QED
    BY <2>4, <2>5
<1>6. CASE FlipBegin(w)
  <2>1. t.pc = "flip"
    BY <1>6, <1>t DEF FlipBegin, At
  <2>2. UNCHANGED <<nvid, best, results, jobs, posting, replay, cutover, byHand, overlapped>>
    BY <1>6 DEF FlipBegin
  <2>3. Step(w, Judged(w)) \/ Step(w, [t EXCEPT !.pc = "flipping", !.seen = best])
    BY <1>6, <1>t DEF FlipBegin
  <2>4. CASE Step(w, [t EXCEPT !.pc = "flipping", !.seen = best])
    <3>1. PICK b \in SUBSET Nat : b = best
      BY DEF LineageInv, LineageTypeOK
    <3>2. PICK s \in WriterRecord : s = [t EXCEPT !.pc = "flipping", !.seen = b]
      BY DEF WriterRecord, Targeting
    <3>3. s.pc = "flipping" /\ s.seen = b /\ s.vid = t.vid /\ s.job = t.job /\ s.out = t.out
      BY <3>2 DEF WriterRecord
    <3>4. proc' = [proc EXCEPT ![w] = s]
      BY <2>4, <3>1, <3>2, Zenon DEF Step
    <3>5. WriterOK(w, s)'
      BY <1>t, <1>h, <2>1, <2>2, <3>1, <3>3 DEF WriterOK, Targeting, Stored, current
    <3> QED
      BY <1>w, <2>2, <3>4, <3>5, NoVerdict, QuietStep
  <2>5. CASE Step(w, Judged(w))
    <3>1. PICK s \in WriterRecord : s = Judged(w) /\ s.pc = "verdict" /\ s.job = t.job
      BY <1>t, <1>w, JudgedRecord, Zenon
    <3>2. proc' = [proc EXCEPT ![w] = s]
      BY <2>5, <3>1 DEF Step
    <3>3. WriterOK(w, s)'
      BY <1>t, <2>1, <2>2, <3>1 DEF WriterOK, Targeting, Stored, current
    <3> QED
      BY <1>w, <2>2, <3>2, <3>3, NoVerdict, QuietStep
  <2> QED
    BY <2>3, <2>4, <2>5
<1>7. CASE Complete(w)
  <2>1. t.pc = "verdict" /\ Verdict(t.job, "COMPLETED") /\ Step(w, Idle)
    BY <1>7, <1>t DEF Complete, At
  <2>2. current(jobs[t.job].vid) # {}
    BY <1>t, <2>1 DEF WriterOK, Stored
  <2>3. /\ jobs' \in Seq(JobRow) /\ DOMAIN jobs' = DOMAIN jobs
        /\ \A i \in DOMAIN jobs :
              /\ jobs'[i].vid = jobs[i].vid
              /\ jobs'[i].st = "COMPLETED" => current(jobs[i].vid) # {}
    BY <2>1, <2>2, <1>j, VerdictRow
  <2> QED
    BY <1>7, <1>w, <2>1, <2>3, BackToIdle DEF Complete
<1>8. CASE Reaped(w)
  <2>1. t.pc # "idle" /\ Verdict(t.job, "FAILED")
    BY <1>8, <1>t DEF Reaped, At
  <2>2. UNCHANGED <<nvid, best, results, posting, replay, cutover, byHand, overlapped>>
    BY <1>8 DEF Reaped
  <2>3. /\ jobs' \in Seq(JobRow) /\ DOMAIN jobs' = DOMAIN jobs
        /\ \A i \in DOMAIN jobs :
              /\ jobs'[i].vid = jobs[i].vid
              /\ jobs'[i].st = "COMPLETED" => current(jobs[i].vid) # {}
    BY <2>1, <1>j, VerdictRow
  <2>4. CASE Step(w, Idle)
    BY <1>w, <2>2, <2>3, <2>4, BackToIdle
  <2>5. CASE UNCHANGED proc
    <3>1. proc' = [proc EXCEPT ![w] = t]
      BY <1>t, <1>w, <2>5 DEF LineageInv, LineageTypeOK
    <3>2. JobsGrow /\ ResultsGrow
      BY <2>2, <2>3, <1>c DEF JobsGrow, ResultsGrow
    <3>3. nvid' \in Nat /\ nvid <= nvid'
      BY <2>2, LineageAssumption DEF LineageInv, LineageTypeOK
    <3>4. WriterOK(w, t)'
      BY <1>t, <1>w, <1>c, <2>2, <3>2, <3>3, WriterKeeps DEF LineageInv
    <3> QED
      BY <1>w, <2>2, <2>3, <3>1, <3>4, QuietStep
  <2> QED
    BY <1>8, <2>4, <2>5 DEF Reaped
<1> QED
  BY <1>1, <1>2, <1>3, <1>4, <1>5, <1>6, <1>7, <1>8

\* A promotion that raises, and a promote request.
LEMMA PromotionsKeep ==
    ASSUME LineageInv, NEW w \in Writer
    PROVE  /\ PromotionFails(w) => LineageInv'
           /\ \A v \in Vid : Promote(v) => LineageInv'
<1>t. PICK t \in WriterRecord : t = proc[w] /\ WriterOK(w, t)
  BY WriterIs
<1>1. CASE PromotionFails(w)
  <2>1. /\ t.pc \in {"promote", "decide", "flip", "flipping"}
        /\ Step(w, Idle) \/ (w # Http /\ Step(w, Judged(w)))
    BY <1>1, <1>t DEF PromotionFails
  <2>2. UNCHANGED <<nvid, best, results, jobs, posting, replay, cutover, byHand, overlapped>>
    BY <1>1 DEF PromotionFails
  <2>3. CASE Step(w, Idle)
    BY <2>2, <2>3, NoVerdict, BackToIdle
  <2>4. CASE w # Http /\ Step(w, Judged(w))
    <3>1. PICK s \in WriterRecord : s = Judged(w) /\ s.pc = "verdict" /\ s.job = t.job
      BY <1>t, JudgedRecord, Zenon
    <3>2. proc' = [proc EXCEPT ![w] = s]
      BY <2>4, <3>1 DEF Step
    <3>3. w \in Worker
      BY <2>4 DEF Writer
    <3>4. WriterOK(w, s)'
      BY <1>t, <2>1, <2>2, <3>1, <3>3 DEF WriterOK, Targeting, Stored, current
    <3> QED
      BY <2>2, <3>2, <3>4, NoVerdict, QuietStep
  <2> QED
    BY <2>1, <2>3, <2>4
<1>2. ASSUME NEW v \in Vid, Promote(v) PROVE LineageInv'
  <2>1. v <= nvid /\ nvid \in 0 .. MaxVid /\ Http \in Writer /\ Http \notin Worker
    BY <1>2, LineageAssumption DEF Promote, LineageInv, LineageTypeOK, Writer
  <2>2. UNCHANGED <<nvid, best, results, jobs, posting, replay, cutover, byHand, overlapped>>
    BY <1>2 DEF Promote
  <2>3. Step(Http, [Idle EXCEPT !.pc = "flipping", !.vid = v, !.out = "PROMOTED", !.seen = best])
    BY <1>2 DEF Promote
  <2>4. PICK i \in WriterRecord : i = Idle
    BY IdleWriter
  <2>5. PICK b \in SUBSET Nat : b = best
    BY DEF LineageInv, LineageTypeOK
  <2>6. v \in 1 .. nvid /\ v \in 0 .. MaxVid
    BY <2>1, LineageAssumption DEF Vid
  <2>7. PICK s \in WriterRecord :
            s = [i EXCEPT !.pc = "flipping", !.vid = v, !.out = "PROMOTED", !.seen = b]
    BY <2>6 DEF WriterRecord, Targeting
  <2>8. s.pc = "flipping" /\ s.vid = v /\ s.out = "PROMOTED" /\ s.seen = b
    BY <2>7 DEF WriterRecord
  <2>9. proc' = [proc EXCEPT ![Http] = s]
    BY <2>3, <2>4, <2>5, <2>7, Zenon DEF Step
  <2>10. WriterOK(Http, s)'
    BY <2>1, <2>2, <2>5, <2>6, <2>8 DEF WriterOK, Targeting, Stored
  <2> QED
    BY <2>1, <2>2, <2>9, <2>10, NoVerdict, QuietStep
<1> QED
  BY <1>1, <1>2

\* Versions with a passing result keep one.
LEMMA PassingStays ==
    ASSUME ResultsGrow, NEW v \in Vid, HasPassing(v)
    PROVE  HasPassing(v)'
BY DEF ResultsGrow, HasPassing

\* A flip commits.
LEMMA FlipKeeps ==
    ASSUME LineageInv, NEW w \in Writer, FlipBest(w)
    PROVE  LineageInv'
<1>t. PICK t \in WriterRecord : t = proc[w] /\ WriterOK(w, t)
  BY WriterIs
<1>1. t.pc = "flipping" /\ t.out \in {"PROMOTED", "DEMOTED"}
  BY <1>t DEF FlipBest, At, WriterOK
<1>2. UNCHANGED <<nvid, results, jobs, posting, replay, cutover>>
  BY DEF FlipBest
<1>3. t.vid \in 1 .. nvid /\ nvid \in 0 .. MaxVid /\ best \in SUBSET (1 .. nvid) /\ 1 \in 1 .. nvid
  BY <1>t, <1>1, LineageAssumption DEF WriterOK, Targeting, LineageInv, LineageTypeOK
<1>4. /\ "flip" \in overlapped => "flip" \in overlapped'
      /\ "insert" \in overlapped <=> "insert" \in overlapped'
      /\ "flip" \notin overlapped' => \A u \in Writer \ {w} : proc[u].pc # "flipping"
  BY DEF FlipBest, At
<1>5. PICK seen \in {t.seen, best} :
          \/ t.out = "PROMOTED" /\ best' = (best \ seen) \cup {t.vid}
          \/ t.out = "DEMOTED" /\ best' = IF best \ seen = {} THEN {1} ELSE best \ seen
  BY <1>1, <1>t DEF FlipBest, flip
<1>6. best' \in SUBSET (1 .. nvid) /\ best' # {}
  BY <1>3, <1>5
<1>7. "flip" \notin overlapped' => AtMostOne(best')
  <2> SUFFICES ASSUME "flip" \notin overlapped' PROVE AtMostOne(best')
    OBVIOUS
  <2>1. t.seen = best
    BY <1>1, <1>4, <1>t DEF WriterOK
  <2>2. best' = {t.vid} \/ best' = {1}
    BY <1>5, <2>1
  <2> QED
    BY <2>2 DEF AtMostOne
<1>8. PICK s \in WriterRecord :
          /\ proc' = [proc EXCEPT ![w] = s]
          /\ s.pc = "idle" \/ (s.pc = "verdict" /\ w # Http /\ s.job = t.job)
  <2>1. CASE w = Http
    BY <2>1, IdleWriter DEF FlipBest, Step
  <2>2. CASE w # Http
    <3>1. PICK s \in WriterRecord : s = Judged(w) /\ s.pc = "verdict" /\ s.job = t.job
      BY <1>t, JudgedRecord, Zenon
    <3>2. proc' = [proc EXCEPT ![w] = s]
      BY <2>2, <3>1 DEF FlipBest, Step
    <3> QED
      BY <2>2, <3>1, <3>2
  <2> QED
    BY <2>1, <2>2
<1>9. WriterOK(w, s)'
  <2>1. s.pc = "verdict" => w \in Worker /\ s.job = t.job
    BY <1>8 DEF Writer
  <2> QED
    BY <1>t, <1>1, <1>2, <1>8, <2>1 DEF WriterOK, Targeting, Stored, current
<1>c. \A v : current(v)' = current(v)
  BY <1>2 DEF current
<1>g. ResultsGrow /\ JobsGrow
  BY <1>2, <1>c DEF ResultsGrow, JobsGrow
<1>10. LineageTypeOK'
  <2>1. proc' \in [Writer -> WriterRecord]
    BY <1>8 DEF LineageInv, LineageTypeOK
  <2> QED
    BY <1>2, <1>6, <2>1 DEF LineageInv, LineageTypeOK
<1>11. ASSUME NEW u \in Writer, NEW r \in WriterRecord, proc'[u] = r PROVE WriterOK(u, r)'
  <2>1. CASE u = w
    <3>1. r = s
      BY <1>8, <1>11, <2>1 DEF LineageInv, LineageTypeOK
    <3> QED
      BY <1>9, <2>1, <3>1
  <2>2. CASE u # w
    <3>1. proc[u] = r
      BY <1>8, <1>11, <2>2 DEF LineageInv, LineageTypeOK
    <3>2. WriterOK(u, r)
      BY <3>1 DEF LineageInv
    <3>3. nvid' \in Nat /\ nvid <= nvid'
      BY <1>2, <1>3, LineageAssumption
    <3>4. r.pc = "flipping" => "flip" \in overlapped'
      BY <1>4, <2>2, <3>1
    <3> QED
      BY <1>4, <1>c, <1>g, <3>2, <3>3, <3>4, WriterKeeps DEF LineageInv
  <2> QED
    BY <2>1, <2>2
<1>12. \A v \in best' \ ({1} \cup byHand') : HasPassing(v)'
  <2> SUFFICES ASSUME NEW v \in best', v # 1, v \notin byHand' PROVE HasPassing(v)'
    BY DEF HasPassing
  <2>1. byHand \subseteq byHand' /\ (w = Http => t.vid \in byHand')
    BY <1>t DEF FlipBest
  <2>2. v \in Vid
    BY <1>3, <1>6, LineageAssumption DEF Vid
  <2>3. HasPassing(v)
    <3>1. CASE v \in best
      BY <2>1, <3>1 DEF LineageInv, RowsAccounted
    <3>2. CASE v \notin best
      <4>1. v = t.vid /\ t.out = "PROMOTED"
        BY <1>5, <3>2
      <4>2. w \in Worker
        BY <2>1, <4>1 DEF Writer
      <4> QED
        BY <1>t, <1>1, <4>1, <4>2 DEF WriterOK
    <3> QED
      BY <3>1, <3>2
  <2> QED
    BY <1>g, <2>2, <2>3, PassingStays
<1>13. (\A j \in DOMAIN jobs : jobs[j].st = "COMPLETED" => current(jobs[j].vid) # {})'
  BY <1>2, <1>c DEF LineageInv, RowsAccounted, current
<1>14. ("insert" \notin overlapped => \A v \in Vid : AtMostOne(current(v)))'
  BY <1>4, <1>c DEF LineageInv, RowsAccounted, AtMostOne
<1>15. RowsAccounted'
  BY <1>6, <1>7, <1>12, <1>13, <1>14 DEF RowsAccounted, AtMostOne
<1> QED
  BY <1>10, <1>11, <1>15 DEF LineageInv

\* What SP_INS_RESULT leaves of a version's rows.
RowsAfter(new, rws, seen, row) ==
    /\ new \in Seq(ResultRow)
    /\ \E n : /\ n \notin DOMAIN rws /\ DOMAIN new = DOMAIN rws \cup {n} /\ new[n] = row
              /\ \A i \in DOMAIN rws :
                    /\ new[i].payload = rws[i].payload
                    /\ new[i].current <=> rws[i].current /\ i \notin seen

\* ... as its UPDATE and its INSERT make them.
LEMMA InsRows ==
    ASSUME NEW rws \in Seq(ResultRow), NEW seen, NEW row \in ResultRow, NEW new,
           new = ins_result(rws, seen, row)
    PROVE  RowsAfter(new, rws, seen, row)
<1>1. PICK len \in Nat : len = Len(rws) /\ DOMAIN rws = 1 .. len /\ \A i \in 1 .. len : rws[i] \in ResultRow
  OBVIOUS
<1> DEFINE shut(i) == [rws[i] EXCEPT !.current = rws[i].current /\ i \notin seen]
<1>2. ASSUME NEW i \in 1 .. len
      PROVE  /\ shut(i) \in ResultRow /\ shut(i).payload = rws[i].payload
             /\ shut(i).current <=> rws[i].current /\ i \notin seen
  <2>1. PICK b \in BOOLEAN : b = (rws[i].current /\ i \notin seen)
    OBVIOUS
  <2>2. rws[i] \in ResultRow
    BY <1>1
  <2>3. PICK r \in ResultRow : r = [rws[i] EXCEPT !.current = b]
    BY <2>2 DEF ResultRow
  <2>4. r.payload = rws[i].payload /\ r.current = b
    BY <2>2, <2>3 DEF ResultRow
  <2> QED
    BY <2>1, <2>3, <2>4
<1>3. PICK old : old = [i \in 1 .. len |-> shut(i)]
  OBVIOUS
<1>4. old \in Seq(ResultRow) /\ Len(old) = len /\ \A i \in 1 .. len : old[i] = shut(i)
  <2>1. old \in [1 .. len -> ResultRow]
    BY <1>2, <1>3
  <2>2. old \in Seq(ResultRow) /\ Len(old) = len
    BY <1>1, <2>1, SeqDef, LenProperties
  <2> QED
    BY <1>3, <2>2
<1>5. new = Append(old, row)
  BY <1>1, <1>3 DEF ins_result
<1>6. /\ new \in Seq(ResultRow) /\ DOMAIN new = 1 .. len + 1 /\ new[len + 1] = row
      /\ \A i \in 1 .. len : new[i] = old[i]
  BY <1>4, <1>5, AppendProperties
<1>7. len + 1 \notin 1 .. len /\ 1 .. len + 1 = (1 .. len) \cup {len + 1}
  OBVIOUS
<1> HIDE DEF shut
<1>8. \A i \in 1 .. len : /\ new[i].payload = rws[i].payload
                          /\ new[i].current <=> rws[i].current /\ i \notin seen
  BY <1>2, <1>4, <1>6
<1> QED
  BY <1>1, <1>6, <1>7, <1>8 DEF RowsAfter

\* A stored result commits.
LEMMA InsKeeps ==
    ASSUME LineageInv, NEW w \in Worker, InsResult(w)
    PROVE  LineageInv'
<1>w. w \in Writer
  BY DEF Writer
<1>t. PICK t \in WriterRecord : t = proc[w] /\ WriterOK(w, t)
  BY <1>w, WriterIs
<1>1. t.pc = "insert" /\ t.payload \in Payload
  BY <1>t DEF InsResult, At, WriterOK
<1>2. UNCHANGED <<nvid, best, jobs, posting, replay, cutover, byHand>>
  BY DEF InsResult
<1>3. t.vid \in Vid /\ t.vid \in 1 .. nvid
  BY <1>t, <1>w, <1>1, InHand DEF Targeting
<1>4. PICK v \in Vid : v = t.vid
  BY <1>3
<1>5. results \in [Vid -> Seq(ResultRow)] /\ results[v] \in Seq(ResultRow)
  BY DEF LineageInv, LineageTypeOK
<1>6. /\ "flip" \in overlapped <=> "flip" \in overlapped'
      /\ "insert" \in overlapped => "insert" \in overlapped'
      /\ "insert" \notin overlapped' => \A u \in Worker \ {w} : ~ (proc[u].pc = "insert" /\ proc[u].vid = v)
  BY <1>t, <1>4 DEF InsResult, At
<1>7. PICK row \in ResultRow : row = [payload |-> t.payload, rv |-> t.rv, current |-> TRUE, old |-> ~ cutover]
  <2>1. PICK old \in BOOLEAN : old = ~ cutover
    BY DEF LineageInv, LineageTypeOK
  <2>2. PICK cur \in BOOLEAN : cur = TRUE
    OBVIOUS
  <2>3. t.rv \in Nat
    BY DEF WriterRecord
  <2>4. [payload |-> t.payload, rv |-> t.rv, current |-> cur, old |-> old] \in ResultRow
    BY <1>1, <2>3 DEF ResultRow
  <2> QED
    BY <2>1, <2>2, <2>4, Zenon
<1>8. row.current = TRUE /\ row.payload = t.payload
  BY <1>7
<1>r. PICK rws \in Seq(ResultRow) : rws = results[v]
  BY <1>5
<1>9. PICK seen \in {t.seen, current(v)} :
          results' = [results EXCEPT ![v] = ins_result(rws, seen, row)]
  BY <1>t, <1>4, <1>7, <1>r DEF InsResult
<1>10. PICK new : new = ins_result(rws, seen, row)
  OBVIOUS
<1>i. RowsAfter(new, rws, seen, row)
  BY <1>10, InsRows, Zenon
<1>11. new \in Seq(ResultRow)
  BY <1>i DEF RowsAfter
<1>12. PICK n : /\ n \notin DOMAIN results[v] /\ DOMAIN new = DOMAIN results[v] \cup {n} /\ new[n] = row
                /\ \A i \in DOMAIN results[v] :
                      /\ new[i].payload = results[v][i].payload
                      /\ new[i].current <=> results[v][i].current /\ i \notin seen
  BY <1>i, <1>r DEF RowsAfter
<1>13. /\ results' = [results EXCEPT ![v] = new] /\ results'[v] = new
       /\ results' \in [Vid -> Seq(ResultRow)]
       /\ \A x \in Vid \ {v} : results'[x] = results[x]
  BY <1>5, <1>9, <1>10, <1>11
<1>14. current(v)' = (current(v) \ seen) \cup {n}
  BY <1>8, <1>12, <1>13 DEF current
<1>15. \A x \in Vid \ {v} : current(x)' = current(x)
  BY <1>13 DEF current
<1>g. ResultsGrow /\ JobsGrow
  <2>1. JobsGrow
    BY <1>2 DEF JobsGrow
  <2>2. ASSUME NEW x \in Vid, NEW i \in DOMAIN results[x]
        PROVE  i \in DOMAIN results'[x] /\ results'[x][i].payload = results[x][i].payload
    BY <1>12, <1>13, <2>2
  <2>3. \A x \in Vid : current(x) # {} => current(x)' # {}
    BY <1>14, <1>15
  <2> QED
    BY <2>1, <2>2, <2>3 DEF ResultsGrow
<1>16. PICK e \in SUBSET Nat : e = {}
  OBVIOUS
<1>17. PICK z \in Nat : z = 0
  OBVIOUS
<1>18. PICK s \in WriterRecord : s = [t EXCEPT !.pc = "promote", !.seen = e, !.rv = z]
  BY DEF WriterRecord, Targeting
<1>19. s.pc = "promote" /\ s.payload = t.payload /\ s.vid = t.vid /\ s.job = t.job
  BY <1>18 DEF WriterRecord
<1>20. proc' = [proc EXCEPT ![w] = s]
  <2>1. Step(w, [proc[w] EXCEPT !.pc = "promote", !.seen = {}, !.rv = 0])
    BY DEF InsResult
  <2> QED
    BY <1>t, <1>16, <1>17, <1>18, <2>1, Zenon DEF Step
<1>21. WriterOK(w, s)'
  <2>1. \E i \in DOMAIN results'[s.vid] : results'[s.vid][i].payload = s.payload
    BY <1>4, <1>8, <1>12, <1>13, <1>19
  <2>2. t.vid = jobs[t.job].vid /\ t.job \in DOMAIN jobs
    BY <1>t, <1>1 DEF WriterOK, Targeting
  <2>3. current(v)' # {}
    BY <1>14
  <2>4. current(jobs[s.job].vid)' # {}
    BY <1>2, <1>4, <1>19, <2>2, <2>3 DEF current
  <2> QED
    BY <1>2, <1>3, <1>19, <2>1, <2>2, <2>4 DEF WriterOK, Targeting, Stored
<1>22. LineageTypeOK'
  <2>1. proc' \in [Writer -> WriterRecord]
    BY <1>20 DEF LineageInv, LineageTypeOK
  <2> QED
    BY <1>2, <1>13, <2>1 DEF LineageInv, LineageTypeOK
<1>23. ASSUME NEW u \in Writer, NEW r \in WriterRecord, proc'[u] = r PROVE WriterOK(u, r)'
  <2>1. CASE u = w
    <3>1. r = s
      BY <1>w, <1>20, <1>23, <2>1 DEF LineageInv, LineageTypeOK
    <3> QED
      BY <1>21, <2>1, <3>1
  <2>2. CASE u # w
    <3>1. proc[u] = r
      BY <1>20, <1>23, <2>2 DEF LineageInv, LineageTypeOK
    <3>2. WriterOK(u, r)
      BY <3>1 DEF LineageInv
    <3>3. nvid' \in Nat /\ nvid <= nvid'
      BY <1>2, LineageAssumption DEF LineageInv, LineageTypeOK
    <3>4. r.pc = "insert" /\ "insert" \notin overlapped' => current(r.vid)' = current(r.vid)
      <4>1. r.pc = "insert" => u \in Worker /\ r.vid \in Vid
        BY <3>2, InHand DEF WriterOK, Targeting
      <4> QED
        BY <1>6, <1>15, <2>2, <3>1, <4>1
    <3> QED
      BY <1>2, <1>6, <1>g, <3>2, <3>3, <3>4, WriterKeeps DEF LineageInv
  <2> QED
    BY <2>1, <2>2
<1>24. (\A j \in DOMAIN jobs : jobs[j].st = "COMPLETED" => current(jobs[j].vid) # {})'
  <2> SUFFICES ASSUME NEW j \in DOMAIN jobs, jobs[j].st = "COMPLETED" PROVE current(jobs[j].vid)' # {}
    BY <1>2 DEF current
  <2>1. jobs \in Seq(JobRow)
    BY DEF LineageInv, LineageTypeOK
  <2>2. jobs[j] \in JobRow
    BY <2>1
  <2>3. PICK x \in Vid : x = jobs[j].vid
    BY <2>2 DEF JobRow
  <2>4. current(x)' # {}
    BY <1>g, <2>3 DEF LineageInv, RowsAccounted, ResultsGrow
  <2> QED
    BY <1>2, <2>3, <2>4 DEF current
<1>25. ("insert" \notin overlapped => \A x \in Vid : AtMostOne(current(x)))'
  <2> SUFFICES ASSUME "insert" \notin overlapped', NEW x \in Vid PROVE AtMostOne(current(x)')
    BY DEF AtMostOne, current
  <2>1. CASE x = v
    <3>1. seen = current(v)
      BY <1>t, <1>1, <1>4, <1>6 DEF WriterOK
    <3>2. current(v)' = {n}
      BY <1>14, <3>1
    <3> QED
      BY <2>1, <3>2 DEF AtMostOne
  <2>2. CASE x # v
    BY <1>6, <1>15, <2>2 DEF LineageInv, RowsAccounted, AtMostOne
  <2> QED
    BY <2>1, <2>2
<1>26. (\A x \in best \ ({1} \cup byHand) : HasPassing(x))'
  <2> SUFFICES ASSUME NEW x \in best, x \notin {1} \cup byHand PROVE HasPassing(x)'
    BY <1>2 DEF HasPassing
  <2>1. x \in Vid /\ HasPassing(x)
    BY LineageAssumption DEF LineageInv, LineageTypeOK, RowsAccounted, Vid
  <2> QED
    BY <1>g, <2>1, PassingStays
<1>27. RowsAccounted'
  BY <1>2, <1>6, <1>24, <1>25, <1>26 DEF LineageInv, RowsAccounted, AtMostOne
<1> QED
  BY <1>22, <1>23, <1>27 DEF LineageInv

\* The lineage starts without versions.
LEMMA LineageInitially == LineageInit => LineageInv
<1> SUFFICES ASSUME LineageInit PROVE LineageInv
  OBVIOUS
<1>1. /\ nvid = 0 /\ best = {} /\ replay = {} /\ cutover = FALSE /\ posting = 0
      /\ results = [v \in Vid |-> << >>] /\ jobs = << >> /\ proc = [w \in Writer |-> Idle]
  BY DEF LineageInit
<1>2. PICK i \in WriterRecord : i = Idle /\ i.pc = "idle"
  BY IdleWriter, Zenon
<1>3. << >> \in Seq(ResultRow) /\ << >> \in Seq(JobRow)
  BY EmptySeq
<1>d. PICK z : z = << >> /\ DOMAIN z = {}
  OBVIOUS
<1>4. PICK e \in Seq(ResultRow) : e = << >> /\ DOMAIN e = {}
  BY <1>3, <1>d, Zenon
<1>5. results \in [Vid -> Seq(ResultRow)] /\ \A v \in Vid : DOMAIN results[v] = {}
  <2>1. results = [v \in Vid |-> e]
    BY <1>1, <1>4, Zenon
  <2> QED
    BY <1>4, <2>1
<1>6. proc \in [Writer -> WriterRecord] /\ \A w \in Writer : proc[w] = i
  <2>1. proc = [w \in Writer |-> i]
    BY <1>1, <1>2, Zenon
  <2> QED
    BY <2>1
<1>7. jobs \in Seq(JobRow) /\ DOMAIN jobs = {}
  BY <1>1, <1>3
<1>8. LineageTypeOK
  <2>1. nvid \in 0 .. MaxVid /\ posting \in 0 .. nvid
    BY <1>1, LineageAssumption
  <2>2. best \in SUBSET (1 .. nvid) /\ replay \in SUBSET (1 .. nvid)
    BY <1>1
  <2>3. cutover \in BOOLEAN
    BY <1>1
  <2> QED
    BY <1>5, <1>6, <1>7, <2>1, <2>2, <2>3 DEF LineageTypeOK
<1>9. \A w \in Writer : \A t \in WriterRecord : proc[w] = t => WriterOK(w, t)
  BY <1>2, <1>6 DEF WriterOK, Targeting, Stored
<1>10. RowsAccounted
  BY <1>1, <1>5, <1>7 DEF RowsAccounted, AtMostOne, current
<1> QED
  BY <1>8, <1>9, <1>10 DEF LineageInv

\* Every step preserves the invariant.
LEMMA LineageStep == LineageInv /\ [LineageNext]_lineageVars => LineageInv'
<1> SUFFICES ASSUME LineageInv, [LineageNext]_lineageVars PROVE LineageInv'
  OBVIOUS
<1>1. CASE Enqueue \/ EnqueueRow \/ Rerun \/ RerunRow
  BY <1>1, RequestsKeep
<1>2. CASE \E j \in DOMAIN jobs : Reenqueue(j)
  BY <1>2, RequestsKeep
<1>3. ASSUME NEW w \in Worker,
             \/ FetchJob(w) \/ OptimizeFails(w) \/ InsResultBegin(w) \/ InsResult(w)
             \/ PromotionRead(w) \/ PromotionDecide(w) \/ FlipBegin(w)
             \/ Complete(w) \/ Reaped(w)
      PROVE  LineageInv'
  BY <1>3, WorkerKeeps, InsKeeps
<1>4. ASSUME NEW w \in Writer, FlipBest(w) \/ PromotionFails(w) PROVE LineageInv'
  BY <1>4, FlipKeeps, PromotionsKeep
<1>5. ASSUME NEW v \in Vid, Promote(v) PROVE LineageInv'
  <2>1. Http \in Writer
    BY DEF Writer
  <2> QED
    BY <1>5, <2>1, PromotionsKeep
<1>6. CASE \E ind \in {"Y", "N"} :
              \/ SetLogicalDelete(1 .. nvid, ind)
              \/ \E v \in Hideable \cap (1 .. nvid) : SetLogicalDelete({v}, ind)
  BY <1>6, RequestsKeep
<1>7. CASE UNCHANGED lineageVars
  <2>1. UNCHANGED <<nvid, best, results, jobs, posting, replay, cutover, byHand, overlapped, proc>>
    BY <1>7 DEF lineageVars
  <2>2. LineageTypeOK'
    BY <2>1 DEF LineageInv, LineageTypeOK
  <2>3. JobsGrow
    BY <2>1 DEF JobsGrow
  <2>4. nvid \in Nat
    BY DEF LineageInv, LineageTypeOK
  <2> QED
    BY <2>1, <2>2, <2>3, <2>4, RequestStep DEF LineageInv, RowsAccounted
<1> QED
  BY <1>1, <1>2, <1>3, <1>4, <1>5, <1>6, <1>7 DEF LineageNext

\* The invariant always holds.
LEMMA LineageAlways == LineageSpec => []LineageInv
BY LineageInitially, LineageStep, PTL DEF LineageSpec

\* A set that holds at most one thing.
LEMMA OneAtMost ==
    ASSUME NEW S, AtMostOne(S)
    PROVE  Cardinality(S) <= 1
<1>1. CASE S = {}
  BY <1>1, FS_EmptySet
<1>2. CASE S # {}
  <2>1. PICK x : S = {x}
    BY <1>2 DEF AtMostOne
  <2>2. Cardinality({x}) = 1
    BY FS_Singleton
  <2> QED
    BY <2>1, <2>2
<1> QED
  BY <1>1, <1>2

(* A lineage with versions always has a best one, at most one of them as    *)
(* long as no two flips overlapped; and a COMPLETED job's version always    *)
(* has a current result, at most one per version as long as no two inserts  *)
(* overlapped: whatever workers, requests and the replay script interleave, *)
(* and wherever they die.                                                   *)
THEOREM FlagsAreAccounted == LineageSpec => []FlagsAccounted
<1>1. LineageInv => FlagsAccounted
  BY OneAtMost DEF LineageInv, RowsAccounted, FlagsAccounted
<1> QED
  BY <1>1, LineageAlways, PTL

(* Whatever a worker promoted has a stored result that passed every HARD    *)
(* gate, with the metric there: the best version other than the first that  *)
(* no request promoted is one of those.                                     *)
THEOREM BestHasPassed == LineageSpec => []BestPassedTheGates
<1>1. LineageInv => BestPassedTheGates
  BY DEF LineageInv, RowsAccounted, BestPassedTheGates, HasPassing, passes_hard_gates,
         meets_threshold, as_good
<1> QED
  BY <1>1, LineageAlways, PTL
-----------------------------------------------------------------------------
(* What concurrent apply cycles do to the account.                         *)

ApplySpec == ApplyInit /\ [][ApplyNext]_applyVars

-----------------------------------------------------------------------------
(* Sums over a finite set, as a function from its subsets.                 *)

IsSum(g, f, S) ==
    /\ f \in [S -> Int] /\ g \in [SUBSET S -> Int] /\ g[{}] = 0
    /\ \A T \in SUBSET S : \A x \in S \ T : g[T \cup {x}] = g[T] + f[x]

\* A set of subsets of a finite set, unless empty, has a member none of whose
\* proper subsets is a member.
LEMMA SmallestSubset ==
    ASSUME NEW S, IsFiniteSet(S), NEW Bad \in SUBSET (SUBSET S), Bad # {}
    PROVE  \E s \in Bad : \A x \in s : s \ {x} \notin Bad
<1> DEFINE T == {Cardinality(s) : s \in Bad}
<1>1. \A s \in SUBSET S : IsFiniteSet(s) /\ Cardinality(s) \in Nat
  BY FS_Subset, FS_CardinalityType
<1>2. T \in SUBSET Nat /\ T # {}
  BY <1>1
<1>3. PICK n \in T : \A y \in T : n <= y
  BY <1>2, LeastDay
<1>4. PICK s \in Bad : n = Cardinality(s)
  BY <1>3
<1>5. ASSUME NEW x \in s PROVE s \ {x} \notin Bad
  <2>1. Cardinality(s) \in Nat /\ IsFiniteSet(s)
    BY <1>1, <1>4
  <2>2. Cardinality(s \ {x}) = Cardinality(s) - 1
    BY <2>1, FS_RemoveElement
  <2> QED BY <1>3, <1>4, <2>1, <2>2
<1> QED BY <1>4, <1>5

\* One element less.
LEMMA SumWithout ==
    ASSUME NEW S, NEW f, NEW g, IsSum(g, f, S)
    PROVE  \A T \in SUBSET S : \A x \in T :
             g[T] = g[T \ {x}] + f[x] /\ g[T] \in Int /\ g[T \ {x}] \in Int /\ f[x] \in Int
<1> SUFFICES ASSUME NEW T \in SUBSET S, NEW x \in T
             PROVE  g[T] = g[T \ {x}] + f[x] /\ g[T] \in Int /\ g[T \ {x}] \in Int /\ f[x] \in Int
  OBVIOUS
<1>1. (T \ {x}) \cup {x} = T /\ T \ {x} \in SUBSET S /\ x \in S \ (T \ {x})
  OBVIOUS
<1>2. g[(T \ {x}) \cup {x}] = g[T \ {x}] + f[x]
  BY <1>1 DEF IsSum
<1> QED BY <1>1, <1>2 DEF IsSum

\* A sum of naturals is one; with the terms' signs turned, the sum's is.
LEMMA SumSign ==
    ASSUME NEW S, IsFiniteSet(S), NEW f, NEW g, IsSum(g, f, S)
    PROVE  /\ (\A x \in S : f[x] >= 0) => g[S] >= 0
           /\ (\A x \in S : f[x] <= 0) => g[S] <= 0
<1>0. \A T \in SUBSET S : \A x \in T :
        g[T] = g[T \ {x}] + f[x] /\ g[T] \in Int /\ g[T \ {x}] \in Int /\ f[x] \in Int
  BY SumWithout
<1>1. ASSUME \A x \in S : f[x] >= 0, ~(g[S] >= 0) PROVE FALSE
  <2> DEFINE Bad == {T \in SUBSET S : ~(g[T] >= 0)}
  <2>1. S \in Bad
    BY <1>1
  <2>2. PICK T \in Bad : \A x \in T : T \ {x} \notin Bad
    BY <2>1, SmallestSubset
  <2>3. T # {}
    <3>1. g[{}] = 0
      BY DEF IsSum
    <3> QED BY <2>2, <3>1
  <2>4. PICK x \in T : TRUE
    BY <2>3
  <2>5. g[T \ {x}] >= 0 /\ f[x] >= 0
    BY <1>1, <2>2, <2>4
  <2>6. T \in SUBSET S
    BY <2>2
  <2>7. g[T] = g[T \ {x}] + f[x] /\ g[T] \in Int /\ g[T \ {x}] \in Int /\ f[x] \in Int
    BY <1>0, <2>4, <2>6
  <2> QED BY <2>2, <2>5, <2>7
<1>2. ASSUME \A x \in S : f[x] <= 0, ~(g[S] <= 0) PROVE FALSE
  <2> DEFINE Bad == {T \in SUBSET S : ~(g[T] <= 0)}
  <2>1. S \in Bad
    BY <1>2
  <2>2. PICK T \in Bad : \A x \in T : T \ {x} \notin Bad
    BY <2>1, SmallestSubset
  <2>3. T # {}
    <3>1. g[{}] = 0
      BY DEF IsSum
    <3> QED BY <2>2, <3>1
  <2>4. PICK x \in T : TRUE
    BY <2>3
  <2>5. g[T \ {x}] <= 0 /\ f[x] <= 0
    BY <1>2, <2>2, <2>4
  <2>6. T \in SUBSET S
    BY <2>2
  <2>7. g[T] = g[T \ {x}] + f[x] /\ g[T] \in Int /\ g[T \ {x}] \in Int /\ f[x] \in Int
    BY <1>0, <2>4, <2>6
  <2> QED BY <2>2, <2>5, <2>7
<1> QED BY <1>1, <1>2

\* The sum after one term changed.
LEMMA SumMoves ==
    ASSUME NEW S, NEW f, NEW g, IsSum(g, f, S), NEW y \in S, NEW v \in Int
    PROVE  \E h : IsSum(h, [f EXCEPT ![y] = v], S) /\ h[S] = g[S] - f[y] + v
<1> DEFINE h == [T \in SUBSET S |-> IF y \in T THEN g[T] - f[y] + v ELSE g[T]]
           e == [f EXCEPT ![y] = v]
<1>0. f \in [S -> Int] /\ e \in [S -> Int] /\ g \in [SUBSET S -> Int]
  BY DEF IsSum
<1>1. h \in [SUBSET S -> Int] /\ h[{}] = 0
  BY <1>0 DEF IsSum
<1>2. ASSUME NEW T \in SUBSET S, NEW x \in S \ T PROVE h[T \cup {x}] = h[T] + e[x]
  <2>1. g[T \cup {x}] = g[T] + f[x] /\ g[T] \in Int /\ f[x] \in Int
    BY <1>0 DEF IsSum
  <2>2. CASE x = y
    <3>1. e[x] = v /\ y \notin T /\ y \in T \cup {x}
      BY <1>0, <2>2
    <3> QED BY <2>1, <2>2, <3>1
  <2>3. CASE x # y
    BY <2>1, <2>3, <1>0
  <2> QED BY <2>2, <2>3
<1>3. h[S] = g[S] - f[y] + v
  BY <1>0
<1>4. IsSum(h, e, S)
  BY <1>0, <1>1, <1>2 DEF IsSum
<1> QED BY <1>3, <1>4

FilledBy == [a \in Applier |-> cycle[a].filled]

\* The element a fold takes next.
Pick(s) == CHOOSE x \in s : TRUE

\* The fold of the property is the sum, whatever order it takes the callers in.
LEMMA UnderWayIsSum ==
    ASSUME NEW g, IsSum(g, FilledBy, Applier), IsFiniteSet(Applier)
    PROVE  UnderWay = g[Applier]
<1> DEFINE F(h) == [s \in SUBSET Applier |-> IF s = {} THEN 0 ELSE cycle[Pick(s)].filled + h[s \ {Pick(s)}]]
<1> DEFINE it == CHOOSE h : h = F(h)
<1>1. UnderWay = it[Applier]
  BY DEF UnderWay, MapThenSumSet, MapThenFoldSet, Pick
<1>0. \A T \in SUBSET Applier : \A x \in T :
        g[T] = g[T \ {x}] + FilledBy[x] /\ g[T] \in Int /\ g[T \ {x}] \in Int /\ FilledBy[x] \in Int
  BY SumWithout
<1>2. ASSUME NEW s \in SUBSET Applier, s # {}
      PROVE  /\ Pick(s) \in s /\ s \ {Pick(s)} \in SUBSET Applier
             /\ g[s] = cycle[Pick(s)].filled + g[s \ {Pick(s)}]
  <2>1. Pick(s) \in s
    BY <1>2 DEF Pick
  <2>2. g[s] = g[s \ {Pick(s)}] + FilledBy[Pick(s)] /\ FilledBy[Pick(s)] \in Int /\ g[s \ {Pick(s)}] \in Int
    BY <1>0, <2>1
  <2>3. FilledBy[Pick(s)] = cycle[Pick(s)].filled
    BY <2>1 DEF FilledBy
  <2> QED BY <2>1, <2>2, <2>3
<1>3. g = F(g)
  BY <1>2 DEF IsSum
<1> HIDE DEF F
<1>4. it = F(it)
  BY <1>3
<1> HIDE DEF it
<1>5. it[{}] = 0 /\ \A s \in SUBSET Applier : s # {} => it[s] = cycle[Pick(s)].filled + it[s \ {Pick(s)}]
  BY <1>4 DEF F
<1> DEFINE Bad == {s \in SUBSET Applier : it[s] # g[s]}
<1>6. ASSUME Bad # {} PROVE FALSE
  <2>1. PICK s \in Bad : \A x \in s : s \ {x} \notin Bad
    BY <1>6, SmallestSubset
  <2>2. s # {}
    BY <2>1, <1>5 DEF IsSum
  <2>3. Pick(s) \in s /\ s \ {Pick(s)} \in SUBSET Applier
    BY <1>2, <2>1, <2>2
  <2>4. it[s \ {Pick(s)}] = g[s \ {Pick(s)}]
    BY <2>1, <2>3
  <2> QED BY <1>2, <1>5, <2>1, <2>2, <2>4
<1>7. it[Applier] = g[Applier]
  BY <1>6
<1> QED BY <1>1, <1>7

-----------------------------------------------------------------------------
(* The inductive invariant.                                                *)

\* The one series this deployment is priced from.
Priced == [source |-> IF hasVenue THEN "price_bar" ELSE "provider", interval |-> Fitted]

CycleRec ==
    [pc : {"away", "signal", "intend", "read", "place", "placed"}, kind : {"none", "apply", "dry"},
     row : {NoInterval, Fitted}, series : {NoSeries, Priced}, signal : Signal,
     order : Int, filled : Int, attempt : Nat]

\* Every variable keeps the type of the value it stands for.
ApplyTypeOK ==
    /\ depRow \in [enabled : BOOLEAN, schedule : {NoInterval, Fitted}] /\ hasVenue \in BOOLEAN
    /\ book \in Int /\ ledger \in Int /\ unledgered \in Int
    /\ allowed \in Int /\ Qty + FlatEps <= allowed
    /\ cycle \in [Applier -> CycleRec]

\* Only a cycle with an order under way has one, and it is filled towards it.
OrderFits(c) ==
    /\ c.pc \notin {"place", "placed"} => c.order = 0
    /\ c.pc # "placed" => c.filled = 0
    /\ (0 <= c.filled /\ c.filled <= c.order) \/ (c.order <= c.filled /\ c.filled <= 0)

\* What an order may still buy, and what it may still sell.
UpOf(c) == IF c.filled < c.order THEN c.order - c.filled ELSE 0
DownOf(c) == IF c.order < c.filled THEN c.order - c.filled ELSE 0

Upward == [a \in Applier |-> UpOf(cycle[a])]
Downward == [a \in Applier |-> DownOf(cycle[a])]

\* The rows, the fills without one and the fills under way make up the position.
Explained == \E g : IsSum(g, FilledBy, Applier) /\ book = ledger + unledgered + g[Applier]

\* However the orders under way are filled, the position stays within bounds.
WithinReach ==
    \E p, m :
        /\ IsSum(p, Upward, Applier) /\ book + p[Applier] <= allowed
        /\ IsSum(m, Downward, Applier) /\ -allowed <= book + m[Applier]

ApplyInv ==
    /\ ApplyTypeOK
    /\ \A a \in Applier : OrderFits(cycle[a])
    /\ Explained /\ WithinReach

\* A cycle that is not under way adds nothing to any sum.
LEMMA AwayFits == Away \in CycleRec /\ OrderFits(Away) /\ UpOf(Away) = 0 /\ DownOf(Away) = 0 /\ Away.filled = 0
BY DEF Away, CycleRec, OrderFits, Signal, UpOf, DownOf

\* The sum of nothing over any cycles is zero.
LEMMA ZeroSum == IsSum([T \in SUBSET Applier |-> 0], [a \in Applier |-> 0], Applier)
BY DEF IsSum

\* At the start no cycle runs, so every sum is zero.
LEMMA ApplyInitially == ApplyInit => ApplyInv
<1> SUFFICES ASSUME ApplyInit PROVE ApplyInv
  OBVIOUS
<1> DEFINE zero == [T \in SUBSET Applier |-> 0]
           none == [a \in Applier |-> 0]
<1>1. ApplyTypeOK /\ \A a \in Applier : OrderFits(cycle[a])
  BY AwayFits, QtyAssumption DEF ApplyInit, ApplyTypeOK
<1>2. FilledBy = none /\ Upward = none /\ Downward = none
  BY AwayFits DEF ApplyInit, FilledBy, Upward, Downward
<1>3. IsSum(zero, none, Applier) /\ zero[Applier] = 0
  BY ZeroSum
<1> HIDE DEF zero, none
<1>4. book = 0 /\ ledger = 0 /\ unledgered = 0 /\ allowed = Qty + FlatEps
  BY DEF ApplyInit
<1>5. Explained
  BY <1>2, <1>3, <1>4 DEF Explained
<1>6. WithinReach
  BY <1>2, <1>3, <1>4, QtyAssumption DEF WithinReach
<1> QED BY <1>1, <1>5, <1>6 DEF ApplyInv

\* What is placed: nothing, a flatten of the position read, or the quantity from flat.
LEMMA DueIs ==
    ASSUME NEW sig \in Signal, NEW p \in Int
    PROVE  \/ OrderDue(sig, p) = 0 \/ OrderDue(sig, p) = -p
           \/ -FlatEps <= p /\ p <= FlatEps /\ OrderDue(sig, p) \in {Qty, -Qty}
BY QtyAssumption DEF OrderDue, order_for, intended_action, Abs, Signal

\* One caller's locals change: so do the three sums.
LEMMA CycleMoves ==
    ASSUME ApplyInv, NEW a \in Applier, NEW x, x \in CycleRec, OrderFits(x),
           cycle' = [cycle EXCEPT ![a] = x], hasVenue' = hasVenue
    PROVE  /\ cycle' \in [Applier -> CycleRec'] /\ \A b \in Applier : OrderFits(cycle'[b])
           /\ FilledBy' = [FilledBy EXCEPT ![a] = x.filled]
           /\ Upward' = [Upward EXCEPT ![a] = UpOf(x)]
           /\ Downward' = [Downward EXCEPT ![a] = DownOf(x)]
<1>1. cycle \in [Applier -> CycleRec] /\ \A b \in Applier : OrderFits(cycle[b])
  BY DEF ApplyInv, ApplyTypeOK
<1>2. CycleRec' = CycleRec
  BY DEF CycleRec, Priced
<1>3. \A b \in Applier : cycle'[b] = IF b = a THEN x ELSE cycle[b]
  BY <1>1
<1>4. cycle' \in [Applier -> CycleRec]
  BY <1>1
<1>5. FilledBy' = [FilledBy EXCEPT ![a] = x.filled]
  <2>1. FilledBy' = [b \in Applier |-> cycle'[b].filled]
    BY DEF FilledBy
  <2>2. [FilledBy EXCEPT ![a] = x.filled] = [b \in Applier |-> IF b = a THEN x.filled ELSE cycle[b].filled]
    BY DEF FilledBy
  <2> QED BY <1>3, <2>1, <2>2
<1>6. Upward' = [Upward EXCEPT ![a] = UpOf(x)]
  <2>1. Upward' = [b \in Applier |-> UpOf(cycle'[b])]
    BY DEF Upward, UpOf
  <2>2. [Upward EXCEPT ![a] = UpOf(x)] = [b \in Applier |-> IF b = a THEN UpOf(x) ELSE UpOf(cycle[b])]
    BY DEF Upward
  <2> QED BY <1>3, <2>1, <2>2
<1>7. Downward' = [Downward EXCEPT ![a] = DownOf(x)]
  <2>1. Downward' = [b \in Applier |-> DownOf(cycle'[b])]
    BY DEF Downward, DownOf
  <2>2. [Downward EXCEPT ![a] = DownOf(x)] = [b \in Applier |-> IF b = a THEN DownOf(x) ELSE DownOf(cycle[b])]
    BY DEF Downward
  <2> QED BY <1>3, <2>1, <2>2
<1> QED BY <1>1, <1>2, <1>3, <1>4, <1>5, <1>6, <1>7

\* The sums after one caller's locals changed.
LEMMA SumsMove ==
    ASSUME ApplyInv, NEW a \in Applier, NEW x, x \in CycleRec, OrderFits(x),
           cycle' = [cycle EXCEPT ![a] = x], hasVenue' = hasVenue,
           NEW g, IsSum(g, FilledBy, Applier), NEW p, IsSum(p, Upward, Applier),
           NEW m, IsSum(m, Downward, Applier)
    PROVE  /\ \E h : IsSum(h, FilledBy', Applier) /\ h[Applier] = g[Applier] - cycle[a].filled + x.filled
           /\ \E h : IsSum(h, Upward', Applier) /\ h[Applier] = p[Applier] - UpOf(cycle[a]) + UpOf(x)
           /\ \E h : IsSum(h, Downward', Applier) /\ h[Applier] = m[Applier] - DownOf(cycle[a]) + DownOf(x)
<1>1. x.filled \in Int /\ x.order \in Int
  BY DEF CycleRec
<1>2. UpOf(x) \in Int /\ DownOf(x) \in Int
  BY <1>1 DEF UpOf, DownOf
<1>3. /\ FilledBy' = [FilledBy EXCEPT ![a] = x.filled]
      /\ Upward' = [Upward EXCEPT ![a] = UpOf(x)]
      /\ Downward' = [Downward EXCEPT ![a] = DownOf(x)]
  BY CycleMoves
<1>4. FilledBy[a] = cycle[a].filled /\ Upward[a] = UpOf(cycle[a]) /\ Downward[a] = DownOf(cycle[a])
  BY DEF FilledBy, Upward, Downward
<1>5. \E h : IsSum(h, [FilledBy EXCEPT ![a] = x.filled], Applier) /\ h[Applier] = g[Applier] - FilledBy[a] + x.filled
  BY <1>1, SumMoves
<1>6. \E h : IsSum(h, [Upward EXCEPT ![a] = UpOf(x)], Applier) /\ h[Applier] = p[Applier] - Upward[a] + UpOf(x)
  BY <1>2, SumMoves
<1>7. \E h : IsSum(h, [Downward EXCEPT ![a] = DownOf(x)], Applier) /\ h[Applier] = m[Applier] - Downward[a] + DownOf(x)
  BY <1>2, SumMoves
<1> QED BY <1>3, <1>4, <1>5, <1>6, <1>7

\* A step that widens nothing and accounts for what it moves.
LEMMA BooksMove ==
    ASSUME ApplyInv, NEW a \in Applier, NEW x, x \in CycleRec, OrderFits(x),
           cycle' = [cycle EXCEPT ![a] = x], hasVenue' = hasVenue, depRow' = depRow, allowed' = allowed,
           book' \in Int, ledger' \in Int, unledgered' \in Int,
           book' - ledger' - unledgered' - x.filled = book - ledger - unledgered - cycle[a].filled,
           book' + UpOf(x) <= book + UpOf(cycle[a]),
           book + DownOf(cycle[a]) <= book' + DownOf(x)
    PROVE  ApplyInv'
<1>1. PICK g : IsSum(g, FilledBy, Applier) /\ book = ledger + unledgered + g[Applier]
  BY DEF ApplyInv, Explained
<1>2. PICK p, m : /\ IsSum(p, Upward, Applier) /\ book + p[Applier] <= allowed
                  /\ IsSum(m, Downward, Applier) /\ -allowed <= book + m[Applier]
  BY DEF ApplyInv, WithinReach
<1>3. /\ \E h : IsSum(h, FilledBy', Applier) /\ h[Applier] = g[Applier] - cycle[a].filled + x.filled
      /\ \E h : IsSum(h, Upward', Applier) /\ h[Applier] = p[Applier] - UpOf(cycle[a]) + UpOf(x)
      /\ \E h : IsSum(h, Downward', Applier) /\ h[Applier] = m[Applier] - DownOf(cycle[a]) + DownOf(x)
  BY <1>1, <1>2, SumsMove
<1>4. PICK g2 : IsSum(g2, FilledBy', Applier) /\ g2[Applier] = g[Applier] - cycle[a].filled + x.filled
  BY <1>3
<1>5. PICK p2 : IsSum(p2, Upward', Applier) /\ p2[Applier] = p[Applier] - UpOf(cycle[a]) + UpOf(x)
  BY <1>3
<1>6. PICK m2 : IsSum(m2, Downward', Applier) /\ m2[Applier] = m[Applier] - DownOf(cycle[a]) + DownOf(x)
  BY <1>3
<1>7. cycle[a] \in CycleRec /\ book \in Int /\ ledger \in Int /\ unledgered \in Int /\ allowed \in Int
  BY DEF ApplyInv, ApplyTypeOK
<1>8. x.filled \in Int /\ cycle[a].filled \in Int /\ x.order \in Int /\ cycle[a].order \in Int
  BY <1>7 DEF CycleRec
<1>9. UpOf(x) \in Int /\ DownOf(x) \in Int /\ UpOf(cycle[a]) \in Int /\ DownOf(cycle[a]) \in Int
  BY <1>8 DEF UpOf, DownOf
<1>10. g[Applier] \in Int /\ p[Applier] \in Int /\ m[Applier] \in Int
  BY <1>1, <1>2 DEF IsSum
<1>11. Explained'
  <2>1. book' = ledger' + unledgered' + g2[Applier]
    BY <1>1, <1>4, <1>7, <1>8, <1>10
  <2> QED BY <1>4, <2>1 DEF Explained
<1>12. WithinReach'
  <2>1. book' + p2[Applier] <= allowed'
    BY <1>2, <1>5, <1>7, <1>9, <1>10
  <2>2. -allowed' <= book' + m2[Applier]
    BY <1>2, <1>6, <1>7, <1>9, <1>10
  <2> QED BY <1>5, <1>6, <2>1, <2>2 DEF WithinReach
<1>13. ApplyTypeOK' /\ (\A b \in Applier : OrderFits(cycle[b]))'
  <2>1. cycle' \in [Applier -> CycleRec'] /\ \A b \in Applier : OrderFits(cycle'[b])
    BY CycleMoves
  <2>2. (\A b \in Applier : OrderFits(cycle[b]))'
    BY <2>1 DEF OrderFits
  <2> QED BY <2>1, <2>2 DEF ApplyInv, ApplyTypeOK
<1> QED BY <1>11, <1>12, <1>13 DEF ApplyInv

\* A step of one caller that leaves the account and its fills alone.
LEMMA QuietMove ==
    ASSUME ApplyInv, NEW a \in Applier, NEW x, x \in CycleRec, OrderFits(x),
           cycle' = [cycle EXCEPT ![a] = x],
           UNCHANGED <<hasVenue, depRow, allowed, book, ledger, unledgered>>,
           x.filled = cycle[a].filled, x.order \in {0, cycle[a].order}, cycle[a].filled \in {0, x.order}
    PROVE  ApplyInv'
<1>1. cycle[a] \in CycleRec /\ book \in Int /\ ledger \in Int /\ unledgered \in Int /\ OrderFits(cycle[a])
  BY DEF ApplyInv, ApplyTypeOK
<1>2. cycle[a].filled \in Int /\ cycle[a].order \in Int
  BY <1>1 DEF CycleRec
<1>3. UpOf(x) <= UpOf(cycle[a]) /\ DownOf(cycle[a]) <= DownOf(x)
  BY <1>1, <1>2 DEF UpOf, DownOf, OrderFits
<1>4. UpOf(x) \in Int /\ UpOf(cycle[a]) \in Int /\ DownOf(cycle[a]) \in Int /\ DownOf(x) \in Int
  <2>1. x.filled \in Int /\ x.order \in Int
    BY <1>2
  <2> QED BY <1>2, <2>1 DEF UpOf, DownOf
<1>5. /\ book' - ledger' - unledgered' - x.filled = book - ledger - unledgered - cycle[a].filled
      /\ book' + UpOf(x) <= book + UpOf(cycle[a]) /\ book + DownOf(cycle[a]) <= book' + DownOf(x)
      /\ book' \in Int /\ ledger' \in Int /\ unledgered' \in Int
      /\ hasVenue' = hasVenue /\ depRow' = depRow /\ allowed' = allowed
  BY <1>1, <1>2, <1>3, <1>4
<1> QED BY <1>5, BooksMove

\* A position read while nothing else is under way, or while something is.
LEMMA ReadMoves ==
    ASSUME ApplyInv, NEW a \in Applier, ReadPosition(a)
    PROVE  ApplyInv'
<1> DEFINE due == OrderDue(cycle[a].signal, book)
           over == \E b \in Applier \ {a} : Busy(b)
           x == [cycle[a] EXCEPT !.pc = "place", !.order = due]
<1>0. /\ cycle[a] \in CycleRec /\ OrderFits(cycle[a]) /\ cycle[a].pc = "read"
      /\ UNCHANGED <<depRow, hasVenue, book, ledger, unledgered>>
      /\ book \in Int /\ ledger \in Int /\ unledgered \in Int /\ allowed \in Int /\ Qty + FlatEps <= allowed
  BY DEF ReadPosition, ApplyInv, ApplyTypeOK
<1>1. cycle[a].order = 0 /\ cycle[a].filled = 0
  BY <1>0 DEF OrderFits
<1>2. CASE cycle' = [cycle EXCEPT ![a] = Away] /\ UNCHANGED allowed
  BY <1>0, <1>1, <1>2, AwayFits, QuietMove DEF Away
<1>3. CASE /\ cycle' = [cycle EXCEPT ![a] = x]
           /\ allowed' = IF over THEN 2 * allowed ELSE allowed
  <2>1. cycle[a].signal \in Signal
    BY <1>0 DEF CycleRec
  <2>2. \/ due = 0 \/ due = -book
        \/ -FlatEps <= book /\ book <= FlatEps /\ due \in {Qty, -Qty}
    BY <1>0, <2>1, DueIs
  <2>3. due \in Int
    BY <1>0, <2>2, QtyAssumption
  <2> HIDE DEF due
  <2>4. x \in CycleRec /\ x.order = due /\ x.filled = 0 /\ x.pc = "place"
    BY <1>0, <1>1, <2>3 DEF CycleRec
  <2> HIDE DEF x
  <2>5. OrderFits(x)
    BY <2>3, <2>4 DEF OrderFits
  <2>6. PICK g : IsSum(g, FilledBy, Applier) /\ book = ledger + unledgered + g[Applier]
    BY DEF ApplyInv, Explained
  <2>7. PICK p, m : /\ IsSum(p, Upward, Applier) /\ book + p[Applier] <= allowed
                    /\ IsSum(m, Downward, Applier) /\ -allowed <= book + m[Applier]
    BY DEF ApplyInv, WithinReach
  <2>8. /\ \E h : IsSum(h, FilledBy', Applier) /\ h[Applier] = g[Applier] - cycle[a].filled + x.filled
        /\ \E h : IsSum(h, Upward', Applier) /\ h[Applier] = p[Applier] - UpOf(cycle[a]) + UpOf(x)
        /\ \E h : IsSum(h, Downward', Applier) /\ h[Applier] = m[Applier] - DownOf(cycle[a]) + DownOf(x)
    BY <1>0, <1>3, <2>4, <2>5, <2>6, <2>7, SumsMove
  <2>9. g[Applier] \in Int /\ p[Applier] \in Int /\ m[Applier] \in Int
    BY <2>6, <2>7 DEF IsSum
  <2>10. UpOf(cycle[a]) = 0 /\ DownOf(cycle[a]) = 0
    BY <1>1 DEF UpOf, DownOf
  <2>11. UpOf(x) = (IF 0 < due THEN due ELSE 0) /\ DownOf(x) = (IF due < 0 THEN due ELSE 0)
    BY <2>3, <2>4 DEF UpOf, DownOf
  <2>12. \A b \in Applier : cycle[b].order \in Int /\ cycle[b].filled \in Int
    BY DEF ApplyInv, ApplyTypeOK, CycleRec
  <2>13. \A b \in Applier : UpOf(cycle[b]) >= 0 /\ DownOf(cycle[b]) <= 0
    BY <2>12 DEF UpOf, DownOf
  <2>14. p[Applier] >= 0 /\ m[Applier] <= 0
    <3>1. \A b \in Applier : Upward[b] >= 0 /\ Downward[b] <= 0
      BY <2>13 DEF Upward, Downward
    <3> QED BY <2>7, <3>1, SumSign, ApplyAssumption
  <2>15. ASSUME ~over PROVE p[Applier] = 0 /\ m[Applier] = 0
    <3>1. \A b \in Applier : cycle[b].order = 0 /\ cycle[b].filled = 0
      BY <1>1, <2>15 DEF Busy, ApplyInv, OrderFits
    <3>2. \A b \in Applier : Upward[b] <= 0 /\ Downward[b] >= 0
      BY <3>1 DEF Upward, Downward, UpOf, DownOf
    <3>3. p[Applier] <= 0 /\ m[Applier] >= 0
      BY <2>7, <3>2, SumSign, ApplyAssumption
    <3> QED BY <2>9, <2>14, <3>3
  <2> HIDE DEF over
  <2>16. allowed' \in Int /\ Qty + FlatEps <= allowed'
    BY <1>0, <1>3, QtyAssumption
  <2>17. book + p[Applier] + UpOf(x) <= allowed'
    <3>1. CASE over
      BY <1>0, <1>3, <2>2, <2>3, <2>7, <2>9, <2>11, <2>14, <3>1, QtyAssumption
    <3>2. CASE ~over
      BY <1>0, <1>3, <2>2, <2>3, <2>7, <2>9, <2>11, <2>15, <3>2, QtyAssumption
    <3> QED BY <3>1, <3>2
  <2>18. -allowed' <= book + m[Applier] + DownOf(x)
    <3>1. CASE over
      BY <1>0, <1>3, <2>2, <2>3, <2>7, <2>9, <2>11, <2>14, <3>1, QtyAssumption
    <3>2. CASE ~over
      BY <1>0, <1>3, <2>2, <2>3, <2>7, <2>9, <2>11, <2>15, <3>2, QtyAssumption
    <3> QED BY <3>1, <3>2
  <2>19. Explained'
    BY <1>0, <1>1, <2>4, <2>6, <2>8, <2>9 DEF Explained
  <2>20. WithinReach'
    <3>1. PICK p2 : IsSum(p2, Upward', Applier) /\ p2[Applier] = p[Applier] - UpOf(cycle[a]) + UpOf(x)
      BY <2>8
    <3>2. PICK m2 : IsSum(m2, Downward', Applier) /\ m2[Applier] = m[Applier] - DownOf(cycle[a]) + DownOf(x)
      BY <2>8
    <3>3. UpOf(x) \in Int /\ DownOf(x) \in Int
      BY <2>3, <2>11
    <3>4. book' + p2[Applier] <= allowed' /\ -allowed' <= book' + m2[Applier]
      BY <1>0, <2>9, <2>10, <2>16, <2>17, <2>18, <3>1, <3>2, <3>3
    <3> QED BY <3>1, <3>2, <3>4 DEF WithinReach
  <2>21. cycle' \in [Applier -> CycleRec'] /\ \A b \in Applier : OrderFits(cycle'[b])
    BY <1>0, <1>3, <2>4, <2>5, CycleMoves
  <2>22. (\A b \in Applier : OrderFits(cycle[b]))'
    BY <2>21 DEF OrderFits
  <2>23. ApplyTypeOK'
    BY <1>0, <2>16, <2>21 DEF ApplyInv, ApplyTypeOK
  <2> QED BY <2>19, <2>20, <2>22, <2>23 DEF ApplyInv
<1> QED BY <1>2, <1>3 DEF ReadPosition, Keep

\* A fill with a TRANSACTION row or without one, and the cycle's count of it gone.
LEMMA WriteMoves ==
    ASSUME ApplyInv, NEW a \in Applier, NEW x, x \in CycleRec, OrderFits(x), x.filled = 0, x.order = 0,
           write_transaction(a), cycle' = [cycle EXCEPT ![a] = x], UNCHANGED <<depRow, hasVenue, book, allowed>>
    PROVE  ApplyInv'
<1>1. /\ cycle[a] \in CycleRec /\ book \in Int /\ ledger \in Int /\ unledgered \in Int
      /\ hasVenue' = hasVenue /\ depRow' = depRow /\ allowed' = allowed /\ book' = book
  BY DEF ApplyInv, ApplyTypeOK
<1>2. cycle[a].filled \in Int /\ cycle[a].order \in Int
  BY <1>1 DEF CycleRec
<1>3. /\ ledger' \in Int /\ unledgered' \in Int
      /\ ledger' + unledgered' = ledger + unledgered + cycle[a].filled
  BY <1>1, <1>2 DEF write_transaction, Ledgered, Unledgered
<1>4. book' - ledger' - unledgered' - x.filled = book - ledger - unledgered - cycle[a].filled
  BY <1>1, <1>2, <1>3
<1>5. UpOf(x) = 0 /\ DownOf(x) = 0 /\ 0 <= UpOf(cycle[a]) /\ DownOf(cycle[a]) <= 0
      /\ UpOf(cycle[a]) \in Int /\ DownOf(cycle[a]) \in Int
  BY <1>2 DEF UpOf, DownOf
<1>6. book' + UpOf(x) <= book + UpOf(cycle[a]) /\ book + DownOf(cycle[a]) <= book' + DownOf(x) /\ book' \in Int
  BY <1>1, <1>5
<1> QED BY <1>1, <1>3, <1>4, <1>6, BooksMove

\* A fill moves the position towards the end of its order and leaves the end.
LEMMA FillMoves ==
    ASSUME ApplyInv, NEW a \in Applier, Fills(a)
    PROVE  ApplyInv'
<1> DEFINE u == Unit(cycle[a].order)
           x == [cycle[a] EXCEPT !.filled = @ + u]
<1>1. /\ cycle[a] \in CycleRec /\ book \in Int /\ ledger \in Int /\ unledgered \in Int /\ OrderFits(cycle[a])
      /\ hasVenue' = hasVenue /\ depRow' = depRow /\ allowed' = allowed
      /\ ledger' = ledger /\ unledgered' = unledgered
      /\ cycle' = [cycle EXCEPT ![a] = x] /\ book' = book + u
      /\ cycle[a].pc = "placed" /\ cycle[a].filled # cycle[a].order
  BY DEF ApplyInv, ApplyTypeOK, Fills, Keep
<1>2. cycle[a].filled \in Int /\ cycle[a].order \in Int
  BY <1>1 DEF CycleRec
<1>3. u \in Int /\ (u = 1 \/ u = -1) /\ (u = -1 <=> cycle[a].order < 0)
  BY <1>2 DEF Unit
<1> HIDE DEF u
<1>4. x \in CycleRec /\ x.filled = cycle[a].filled + u /\ x.order = cycle[a].order /\ x.pc = "placed"
  BY <1>1, <1>2, <1>3 DEF CycleRec
<1> HIDE DEF x
<1>5. OrderFits(x)
  BY <1>1, <1>2, <1>3, <1>4 DEF OrderFits
<1>6. /\ UpOf(x) = UpOf(cycle[a]) - (IF u = 1 THEN 1 ELSE 0)
      /\ DownOf(x) = DownOf(cycle[a]) + (IF u = 1 THEN 0 ELSE 1)
      /\ UpOf(cycle[a]) \in Int /\ DownOf(cycle[a]) \in Int
  BY <1>1, <1>2, <1>3, <1>4 DEF OrderFits, UpOf, DownOf
<1>7. /\ book' - ledger' - unledgered' - x.filled = book - ledger - unledgered - cycle[a].filled
      /\ book' + UpOf(x) <= book + UpOf(cycle[a]) /\ book + DownOf(cycle[a]) <= book' + DownOf(x)
      /\ book' \in Int /\ ledger' \in Int /\ unledgered' \in Int
  BY <1>1, <1>2, <1>3, <1>4, <1>6
<1> QED BY <1>1, <1>4, <1>5, <1>7, BooksMove

\* What prices a signal that was computed.
LEMMA PricedIs ==
    ASSUME ApplyInv, NEW row \in {NoInterval, Fitted}, resolve_signal_source(row).source # "raises"
    PROVE  resolve_signal_source(row) = Priced
BY ApplyAssumption DEF resolve_signal_source, for_app, Priced

\* The row of the deployment is nobody else's business.
LEMMA CyclesStay ==
    ASSUME ApplyInv, depRow' \in [enabled : BOOLEAN, schedule : {NoInterval, Fitted}],
           UNCHANGED <<hasVenue, book, cycle, ledger, unledgered, allowed>>
    PROVE  ApplyInv'
<1>1. FilledBy' = FilledBy
  BY DEF FilledBy
<1>2. Upward' = Upward /\ Downward' = Downward
  BY DEF Upward, Downward, UpOf, DownOf
<1>3. Explained'
  BY <1>1 DEF ApplyInv, Explained
<1>4. WithinReach'
  BY <1>2 DEF ApplyInv, WithinReach
<1>5. CycleRec' = CycleRec
  BY DEF CycleRec, Priced
<1>6. ApplyTypeOK'
  BY <1>5 DEF ApplyInv, ApplyTypeOK
<1>7. (\A a \in Applier : OrderFits(cycle[a]))'
  BY DEF ApplyInv, OrderFits
<1> QED BY <1>3, <1>4, <1>6, <1>7 DEF ApplyInv

\* An order in the locals of a cycle.
LEMMA OrderIn ==
    ASSUME NEW c \in CycleRec, NEW o \in Int, NEW q \in Int, NEW n \in Nat
    PROVE  /\ [c EXCEPT !.pc = "placed", !.filled = q] \in CycleRec
           /\ [c EXCEPT !.pc = "read", !.attempt = n, !.order = o] \in CycleRec
           /\ [c EXCEPT !.pc = "read", !.attempt = n, !.order = o, !.filled = q] \in CycleRec
BY DEF CycleRec

\* Every step preserves the invariant.
LEMMA ApplyStep == ApplyInv /\ [ApplyNext]_applyVars => ApplyInv'
<1> SUFFICES ASSUME ApplyInv, [ApplyNext]_applyVars PROVE ApplyInv'
  OBVIOUS
<1>1. CASE UNCHANGED applyVars
  <2>1. depRow' \in [enabled : BOOLEAN, schedule : {NoInterval, Fitted}]
    BY <1>1 DEF applyVars, ApplyInv, ApplyTypeOK
  <2>2. UNCHANGED <<hasVenue, book, cycle, ledger, unledgered, allowed>>
    BY <1>1 DEF applyVars
  <2> QED BY <2>1, <2>2, CyclesStay
<1>2. CASE EditDeployment
  <2>1. depRow' \in [enabled : BOOLEAN, schedule : {NoInterval, Fitted}]
    BY <1>2 DEF EditDeployment
  <2>2. UNCHANGED <<hasVenue, book, cycle, ledger, unledgered, allowed>>
    BY <1>2 DEF EditDeployment
  <2> QED BY <2>1, <2>2, CyclesStay
<1>3. ASSUME NEW a \in Applier,
             \/ Begin(a) \/ run_dry_run(a) \/ Signalled(a) \/ Intend(a) \/ Raise(a)
             \/ ReadPosition(a) \/ PlaceOrder(a)
             \/ Fills(a) \/ Confirmed(a) \/ Unconfirmed(a) \/ Fails(a)
      PROVE  ApplyInv'
  <2>0. cycle[a] \in CycleRec /\ OrderFits(cycle[a]) /\ depRow.schedule \in {NoInterval, Fitted}
    BY DEF ApplyInv, ApplyTypeOK
  <2>f. cycle[a].filled \in Int /\ cycle[a].order \in Int /\ cycle[a].attempt \in Nat
    BY <2>0 DEF CycleRec
  <2>w. Away.filled = 0 /\ Away.order = 0
    BY DEF Away
  <2>1. CASE Begin(a)
    <3> DEFINE x == [Away EXCEPT !.pc = "signal", !.kind = "apply", !.row = depRow.schedule]
    <3>1. x \in CycleRec /\ OrderFits(x) /\ x.filled = 0 /\ x.order = 0
      BY <2>0, AwayFits DEF CycleRec, OrderFits, Away
    <3>2. cycle[a].filled = 0 /\ cycle[a].order = 0
      BY <2>0, <2>1 DEF Begin, OrderFits
    <3>3. cycle' = [cycle EXCEPT ![a] = x] /\ UNCHANGED <<hasVenue, depRow, allowed, book, ledger, unledgered>>
      BY <2>1 DEF Begin, Keep
    <3> QED BY <3>1, <3>2, <3>3, QuietMove
  <2>2. CASE run_dry_run(a)
    <3> DEFINE x == [Away EXCEPT !.pc = "signal", !.kind = "dry"]
    <3>1. x \in CycleRec /\ OrderFits(x) /\ x.filled = 0 /\ x.order = 0
      BY <2>0, AwayFits DEF CycleRec, OrderFits, Away
    <3>2. cycle[a].filled = 0 /\ cycle[a].order = 0
      BY <2>0, <2>2 DEF run_dry_run, OrderFits
    <3>3. cycle' = [cycle EXCEPT ![a] = x] /\ UNCHANGED <<hasVenue, depRow, allowed, book, ledger, unledgered>>
      BY <2>2 DEF run_dry_run, Keep
    <3> QED BY <3>1, <3>2, <3>3, QuietMove
  <2>3. CASE Signalled(a)
    <3> DEFINE r == resolve_signal_source(cycle[a].row)
    <3>1. PICK sig \in Signal :
            cycle' = [cycle EXCEPT ![a] =
                        [cycle[a] EXCEPT !.pc = IF cycle[a].kind = "dry" THEN "read" ELSE "intend",
                                         !.signal = sig, !.attempt = 1, !.row = NoInterval, !.series = r]]
      BY <2>3 DEF Signalled, Keep
    <3> DEFINE x == [cycle[a] EXCEPT !.pc = IF cycle[a].kind = "dry" THEN "read" ELSE "intend",
                                     !.signal = sig, !.attempt = 1, !.row = NoInterval, !.series = r]
    <3>2. cycle[a].row \in {NoInterval, Fitted}
      BY <2>0 DEF CycleRec
    <3>3. r = Priced
      BY <2>3, <3>2, PricedIs DEF Signalled
    <3>4. cycle[a].filled = 0 /\ cycle[a].order = 0
      BY <2>0, <2>3 DEF Signalled, OrderFits
    <3> HIDE DEF r
    <3>5. x \in CycleRec
      BY <2>0, <3>3 DEF CycleRec
    <3>6. OrderFits(x) /\ x.filled = 0 /\ x.order = 0
      BY <2>0, <3>4 DEF CycleRec, OrderFits
    <3>7. cycle' = [cycle EXCEPT ![a] = x] /\ UNCHANGED <<hasVenue, depRow, allowed, book, ledger, unledgered>>
      BY <2>3, <3>1 DEF Signalled
    <3> HIDE DEF x
    <3> QED BY <3>4, <3>5, <3>6, <3>7, QuietMove
  <2>4. CASE Intend(a)
    <3> DEFINE x == [cycle[a] EXCEPT !.pc = "read"]
    <3>1. cycle[a].filled = 0 /\ cycle[a].order = 0
      BY <2>0, <2>4 DEF Intend, OrderFits
    <3>2. x \in CycleRec /\ OrderFits(x) /\ x.filled = 0 /\ x.order = 0
      BY <2>0, <3>1 DEF CycleRec, OrderFits
    <3>3. cycle' = [cycle EXCEPT ![a] = x] /\ UNCHANGED <<hasVenue, depRow, allowed, book, ledger, unledgered>>
      BY <2>4 DEF Intend, Keep
    <3> HIDE DEF x
    <3> QED BY <3>1, <3>2, <3>3, QuietMove
  <2>5. CASE Raise(a)
    <3>1. cycle[a].filled = 0 /\ cycle[a].order = 0
      BY <2>0, <2>5 DEF Raise, OrderFits
    <3>2. cycle' = [cycle EXCEPT ![a] = Away] /\ UNCHANGED <<hasVenue, depRow, allowed, book, ledger, unledgered>>
      BY <2>5 DEF Raise, Keep
    <3> QED BY <2>w, <3>1, <3>2, AwayFits, QuietMove
  <2>6. CASE ReadPosition(a)
    BY <2>6, ReadMoves
  <2>7. CASE PlaceOrder(a)
    <3>0. /\ cycle[a].filled = 0 /\ cycle[a].pc = "place"
          /\ UNCHANGED <<hasVenue, depRow, allowed, book, ledger, unledgered>>
      BY <2>0, <2>7 DEF PlaceOrder, OrderFits
    <3>1. CASE Keep(a, [cycle[a] EXCEPT !.pc = "placed", !.filled = 0])
      <4> DEFINE x == [cycle[a] EXCEPT !.pc = "placed", !.filled = 0]
      <4>1. x \in CycleRec /\ x.filled = 0 /\ x.order = cycle[a].order /\ x.pc = "placed"
        <5>1. x.filled = 0 /\ x.order = cycle[a].order /\ x.pc = "placed"
          BY <2>0 DEF CycleRec
        <5>2. 0 \in Int
          OBVIOUS
        <5>3. x \in CycleRec
          BY <2>0, <5>2, OrderIn, Zenon
        <5> QED BY <5>1, <5>3
      <4>2. cycle' = [cycle EXCEPT ![a] = x]
        BY <3>1 DEF Keep
      <4> HIDE DEF x
      <4>3. OrderFits(x)
        BY <2>f, <4>1 DEF OrderFits
      <4> QED BY <3>0, <4>1, <4>2, <4>3, QuietMove
    <3>2. CASE Keep(a, Away)
      BY <2>w, <3>0, <3>2, AwayFits, QuietMove DEF Keep
    <3>3. CASE Keep(a, [cycle[a] EXCEPT !.pc = "read", !.attempt = @ + 1, !.order = 0])
      <4> DEFINE x == [cycle[a] EXCEPT !.pc = "read", !.attempt = @ + 1, !.order = 0]
      <4>1. x \in CycleRec /\ x.filled = 0 /\ x.order = 0
        <5>1. x.filled = 0 /\ x.order = 0
          BY <2>0, <3>0 DEF CycleRec
        <5>2. 0 \in Int /\ cycle[a].attempt + 1 \in Nat
          BY <2>f
        <5>3. x \in CycleRec
          BY <2>0, <5>2, OrderIn, Zenon
        <5> QED BY <5>1, <5>3
      <4>2. cycle' = [cycle EXCEPT ![a] = x]
        BY <3>3 DEF Keep
      <4> HIDE DEF x
      <4>3. OrderFits(x)
        BY <4>1 DEF OrderFits
      <4> QED BY <3>0, <4>1, <4>2, <4>3, QuietMove
    <3> QED BY <2>7, <3>1, <3>2, <3>3 DEF PlaceOrder
  <2>8. CASE Fills(a)
    BY <2>8, FillMoves
  <2>9. CASE Confirmed(a)
    BY <2>9, <2>w, AwayFits, WriteMoves DEF Confirmed, Keep
  <2>10. CASE Unconfirmed(a)
    <3> DEFINE x == [cycle[a] EXCEPT !.pc = "read", !.attempt = @ + 1, !.order = 0, !.filled = 0]
    <3>1. x \in CycleRec /\ x.filled = 0 /\ x.order = 0 /\ x.pc = "read"
      <4>1. x.filled = 0 /\ x.order = 0 /\ x.pc = "read"
        BY <2>0 DEF CycleRec
      <4>2. 0 \in Int /\ cycle[a].attempt + 1 \in Nat
        BY <2>f
      <4>3. x \in CycleRec
        BY <2>0, <4>2, OrderIn, Zenon
      <4> QED BY <4>1, <4>3
    <3>2. cycle' = [cycle EXCEPT ![a] = x] \/ cycle' = [cycle EXCEPT ![a] = Away]
      BY <2>10 DEF Unconfirmed, Keep
    <3> HIDE DEF x
    <3>3. OrderFits(x)
      BY <3>1 DEF OrderFits
    <3>4. write_transaction(a) /\ UNCHANGED <<depRow, hasVenue, book, allowed>>
      BY <2>10 DEF Unconfirmed, write_transaction
    <3>5. CASE cycle' = [cycle EXCEPT ![a] = x]
      BY <3>1, <3>3, <3>4, <3>5, WriteMoves
    <3>6. CASE cycle' = [cycle EXCEPT ![a] = Away]
      BY <2>w, <3>4, <3>6, AwayFits, WriteMoves
    <3> QED BY <3>2, <3>5, <3>6
  <2>11. CASE Fails(a)
    <3>1. cycle[a].filled = 0 /\ cycle' = [cycle EXCEPT ![a] = Away]
          /\ UNCHANGED <<hasVenue, depRow, allowed, book, ledger, unledgered>>
      BY <2>11 DEF Fails, Keep
    <3> QED BY <2>w, <3>1, AwayFits, QuietMove
  <2> QED BY <1>3, <2>1, <2>2, <2>3, <2>4, <2>5, <2>6, <2>7, <2>8, <2>9, <2>10, <2>11
<1> QED BY <1>1, <1>2, <1>3 DEF ApplyNext

\* The invariant always holds.
LEMMA ApplyAlways == ApplySpec => []ApplyInv
<1> QED BY ApplyInitially, ApplyStep, PTL DEF ApplySpec

-----------------------------------------------------------------------------
(* The properties.                                                         *)

\* Concurrent applies of one deployment (LiveApplyOrchestrator.run, live_apply.py)
\* leave a position within the quantity and its noise, doubled by each read of
\* the book that overlapped an order of another cycle.
THEOREM OverlapIsBounded == ApplySpec => []OverlapBounded
<1>1. ASSUME ApplyInv PROVE OverlapBounded
  <2>1. PICK p, m : /\ IsSum(p, Upward, Applier) /\ book + p[Applier] <= allowed
                    /\ IsSum(m, Downward, Applier) /\ -allowed <= book + m[Applier]
    BY <1>1 DEF ApplyInv, WithinReach
  <2>2. \A b \in Applier : cycle[b].order \in Int /\ cycle[b].filled \in Int
    BY <1>1 DEF ApplyInv, ApplyTypeOK, CycleRec
  <2>3. \A b \in Applier : Upward[b] >= 0 /\ Downward[b] <= 0
    BY <2>2 DEF Upward, Downward, UpOf, DownOf
  <2>4. p[Applier] >= 0 /\ m[Applier] <= 0
    BY <2>1, <2>3, SumSign, ApplyAssumption
  <2>5. p[Applier] \in Int /\ m[Applier] \in Int /\ book \in Int /\ allowed \in Int
    BY <1>1, <2>1 DEF IsSum, ApplyInv, ApplyTypeOK
  <2> QED BY <2>1, <2>4, <2>5 DEF OverlapBounded, Abs
<1> QED BY <1>1, ApplyAlways, PTL

\* The TRANSACTION rows (_write_transaction, live_apply.py) explain the position
\* up to the fills under way and the fills known to have no row.
THEOREM RowsExplainTheAccount == ApplySpec => []TransactionsExplain
<1>1. ASSUME ApplyInv PROVE TransactionsExplain
  <2>1. PICK g : IsSum(g, FilledBy, Applier) /\ book = ledger + unledgered + g[Applier]
    BY <1>1 DEF ApplyInv, Explained
  <2>2. UnderWay = g[Applier]
    BY <2>1, UnderWayIsSum, ApplyAssumption
  <2> QED BY <2>1, <2>2 DEF TransactionsExplain
<1> QED BY <1>1, ApplyAlways, PTL

\* A dry run and an apply price the same series (resolve_signal_source).
THEOREM OneSeriesPerStrategy == ApplySpec => []PreviewPricesTheSame
<1>1. ASSUME ApplyInv PROVE PreviewPricesTheSame
  <2>1. \A a \in Applier : cycle[a].series \in {NoSeries, Priced}
    BY <1>1 DEF ApplyInv, ApplyTypeOK, CycleRec
  <2> QED BY <2>1 DEF PreviewPricesTheSame
<1> QED BY <1>1, ApplyAlways, PTL
=============================================================================
