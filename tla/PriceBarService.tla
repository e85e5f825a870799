-------------------------- MODULE PriceBarService --------------------------
(***************************************************************************)
(* quant/market_data/service.py and fetcher.py: the stored bars of a venue *)
(* (MARKET_DATA.PRICE_BAR), and the calls that keep them current, fill     *)
(* ranges of them and read a window for a signal.  Calls run in threads of *)
(* the API process and are split at their database and exchange calls.     *)
(* All series are of one interval and one venue, so they share the one     *)
(* ccxt client of PriceBarServiceFactory.for_app, with its default type.   *)
(* A bar is its open time; prices are left out.                            *)
(***************************************************************************)
EXTENDS BarIntervals, FiniteSets

CONSTANTS
    Series,          \* internal_cusip on the venue
    Market,          \* what the venue can print under one symbol (spot, swap)
    MarketOf,        \* default_type_for, per series
    Listed,          \* first bar the venue serves
    Period,
    Signal,          \* threads that compute a signal
    Job,             \* threads that warm or backfill
    Lookback,        \* bars a signal reads
    WarmLookback,    \* DEFAULT_WARM_LOOKBACK
    PageLimit,
    MaxBackfillBars,
    BackfillStarts,  \* start of a request, in time units
    BackfillEnds,    \* end of a request, or NoEnd
    NoEnd,
    NoCall,
    NoPlan,
    NoMarket,
    FirstNow, MaxNow,
    Faults           \* "late", "replay", "fetch_fails", "db_fails", "restart"

ASSUME BarsAssumption ==
    /\ Period \in Nat \ {0} /\ Listed \in Nat /\ PageLimit \in Nat \ {0}
    /\ Lookback \in Nat \ {0} /\ WarmLookback \in Nat \ {0} /\ MaxBackfillBars \in Nat \ {0}
    /\ BackfillStarts \in SUBSET Int /\ BackfillEnds \in SUBSET (Int \cup {NoEnd}) /\ FirstNow \in Nat
    /\ MarketOf \in [Series -> Market] /\ NoMarket \notin Market

Thread == Signal \cup Job

VARIABLES
    now,      \* the clock
    bars,     \* rows of PRICE_BAR, per series
    client,   \* options["defaultType"] of the shared ccxt client
    call      \* what each thread is doing

Stored(s) == {row.ts : row \in bars[s]}

get_coverage(s) == Stored(s)

\* A plausible bug: the bar still forming counts as closed.
newest_at_Forming(ts) == floor_to_period(ts, Period)

newest_at(ts) == last_closed_bar(ts, Period)

window(newest, lookback) == bar_starts(newest - Period * (lookback - 1), newest, Period)

find_gaps(s, start, end) == bar_starts(start, end, Period) \ Stored(s)

span_of(start, end) == (end - start) \div Period + 1

(***************************************************************************)
(* Read-only answers.  plan_backfill proposes the next pass toward target: *)
(* the bars before the oldest stored one, or up to the newest closed bar   *)
(* when nothing is stored, at most MaxBackfillBars of them; NoPlan when    *)
(* the target is reached or still ahead.                                   *)
(***************************************************************************)
\* The oldest and the newest stored bar, or nothing.
stored_bounds(stored) == IF stored = {} THEN << >> ELSE <<Min(stored), Max(stored)>>

\* A plausible bug: the pass is one bar longer than a fill may be.
pass_toward_OneMore(end, target) ==
    [start |-> Max({target, end - Period * MaxBackfillBars}), end |-> end,
     passes |-> (span_of(target, end) + MaxBackfillBars - 1) \div MaxBackfillBars]

pass_toward(end, target) ==
    [start |-> Max({target, end - Period * (MaxBackfillBars - 1)}), end |-> end,
     passes |-> (span_of(target, end) + MaxBackfillBars - 1) \div MaxBackfillBars]

plan_backfill(stored, target, ts) ==
    LET bounds == stored_bounds(stored)
    IN  IF target > newest_at(ts) THEN NoPlan
        ELSE IF bounds = << >> THEN pass_toward(newest_at(ts), target)
        ELSE IF bounds[1] <= target THEN NoPlan
        ELSE pass_toward(bounds[1] - Period, target)

(***************************************************************************)
(* A call: op is its kind, at the step it is about to take, goal what a    *)
(* fetch is for, todo the series a warm pass has left, got the bars        *)
(* fetched so far, begun the newest closed bar when the call began.        *)
(***************************************************************************)
NewCall(op, s, lookback) ==
    [op |-> op, at |-> "coverage", goal |-> "gaps", s |-> s, todo |-> {},
     lookback |-> lookback, begun |-> newest_at(now), missing |-> {},
     cursor |-> 0, until |-> 0, got |-> {}, closed |-> {}, open_end |-> FALSE]

At(t, step) == call[t] # NoCall /\ call[t].at = step

Goto(t, step) == call' = [call EXCEPT ![t].at = step]

\* A warm pass goes on with its next instrument whatever became of this one;
\* any other call is over.
Ends(t) ==
    call' = [call EXCEPT ![t] =
               IF call[t].op = "sync"
               THEN [call[t] EXCEPT !.at = "next", !.missing = {}, !.got = {},
                                    !.cursor = 0, !.until = 0]
               ELSE NoCall]

\* StaleBarsError, BarFetchError or ProcedureError out of the call.
Raise(t) == Ends(t)

Fetching(t, goal, missing, since, until) ==
    call' = [call EXCEPT ![t].at = "select", ![t].goal = goal, ![t].missing = missing,
                         ![t].cursor = since, ![t].until = until, ![t].got = {}]

\* ensure_fresh returned: a signal reads its window, a warm pass goes on.
Fresh(t) ==
    IF call[t].op = "window"
    THEN call' = [call EXCEPT ![t].at = "read", ![t].got = {}, ![t].missing = {},
                              ![t].cursor = 0, ![t].until = 0]
    ELSE Ends(t)

-----------------------------------------------------------------------------
\* load_window, up to its ensure_fresh reading the clock.
LoadWindow(t, s) ==
    /\ call[t] = NoCall
    /\ call' = [call EXCEPT ![t] = NewCall("window", s, Lookback)]
    /\ UNCHANGED <<now, bars, client>>

\* sync: one instant for the whole pass, duplicates folded.
Sync(t, instruments) ==
    /\ call[t] = NoCall /\ instruments # {}
    /\ LET first == CHOOSE s \in instruments : TRUE
       IN  call' = [call EXCEPT ![t] = [NewCall("sync", first, WarmLookback)
                                          EXCEPT !.at = "next", !.todo = instruments]]
    /\ UNCHANGED <<now, bars, client>>

SyncNext(t) ==
    /\ At(t, "next")
    /\ \/ \E s \in call[t].todo :
            call' = [call EXCEPT ![t].s = s, ![t].todo = @ \ {s}, ![t].at = "coverage"]
       \/ call[t].todo = {} /\ call' = [call EXCEPT ![t] = NoCall]
    /\ UNCHANGED <<now, bars, client>>

\* ensure_fresh, its gate: the newest stored bar is the newest closed one.
EnsureCoverage(t) ==
    /\ At(t, "coverage")
    /\ LET coverage == get_coverage(call[t].s)
       IN  IF coverage # {} /\ Max(coverage) >= call[t].begun
           THEN Fresh(t) ELSE Goto(t, "gaps")
    /\ UNCHANGED <<now, bars, client>>

EnsureGaps(t) ==
    /\ At(t, "gaps")
    /\ LET newest  == call[t].begun
           missing == find_gaps(call[t].s, newest - Period * (call[t].lookback - 1), newest)
       IN  IF missing = {} THEN Fresh(t)
           ELSE Fetching(t, "gaps", missing, Min(missing), newest)
    /\ UNCHANGED <<now, bars, client>>

\* backfill: an explicit range, refused when reversed or too long; a range
\* without holes is answered at once.
Backfill(t, s, start, end) ==
    LET last    == IF end = NoEnd THEN newest_at(now) ELSE end
        missing == find_gaps(s, start, last)
    IN  /\ call[t] = NoCall
        /\ start <= last /\ span_of(start, last) <= MaxBackfillBars
        /\ missing # {}
        /\ call' = [call EXCEPT ![t] =
             [NewCall("backfill", s, 1) EXCEPT
                !.at = "select", !.missing = missing, !.cursor = Min(missing),
                !.until = last, !.open_end = last > newest_at(now)]]
        /\ UNCHANGED <<now, bars, client>>

-----------------------------------------------------------------------------
(***************************************************************************)
(* CcxtBarFetcher.fetch_bars: a page at a time, each after the default     *)
(* type of the shared client was set.                                      *)
(***************************************************************************)
\* _apply_default_type
SelectType(t) ==
    /\ At(t, "select")
    /\ client' = MarketOf[call[t].s]
    /\ Goto(t, "page")
    /\ UNCHANGED <<now, bars>>

\* What the venue answers a page request with: its bars from the cursor on,
\* oldest first, the forming one included; a bar just closed may be late, and
\* a venue may ignore the cursor and replay the bar before it.
Pages(cursor) ==
    LET printed  == {ts \in bar_starts(Listed, now, Period) : ts >= cursor}
        page(S)  == {ts \in S : Cardinality({u \in S : u <= ts}) <= PageLimit}
    IN  {page(printed)}
        \cup {page({ts \in printed : ts < newest_at(now)}) : f \in Faults \cap {"late"}}
        \cup {{cursor - Period} : f \in Faults \cap
                                   (IF cursor > Listed THEN {"replay"} ELSE {})}

\* A plausible bug: only an empty answer is refused.
reject_incomplete_EmptyOnly(missing, got, newest) == got = {}

\* _reject_incomplete: a hole after the first bar the venue returned, or the
\* newest closed bar missing.  A leading run is taken for pre-listing history.
reject_incomplete(missing, got, newest) ==
    LET have     == {row.ts : row \in got}
        unfilled == missing \ have
    IN  \/ \E ts \in unfilled : have # {} /\ ts > Min(have)
        \/ newest \in unfilled

\* _store returned.
StoreOver(t) == IF call[t].op = "backfill" THEN Ends(t) ELSE Fresh(t)

\* fetch_bars returned got.
Fetched(t, got) ==
    LET c == call[t]
    IN  IF c.goal = "forming"
        THEN IF got = {} THEN Raise(t)
             ELSE call' = [call EXCEPT ![t].at = "serve", ![t].got = got]
        ELSE IF c.op # "backfill" /\ reject_incomplete(c.missing, got, c.begun)
        THEN Raise(t)
        ELSE LET rows == {row \in got : row.ts \in c.missing}
             IN  IF rows = {} THEN StoreOver(t)
                 ELSE call' = [call EXCEPT ![t].at = "store", ![t].got = rows,
                                           ![t].missing = {}, ![t].cursor = 0, ![t].until = 0]

Row(t, ts) == [ts |-> ts, market |-> client, final |-> ts + Period <= now,
               open_end |-> call[t].open_end]

\* A plausible bug: a replayed page moves the cursor back.
FetchPage_TrustsCursor(t) ==
    /\ At(t, "page")
    /\ \E batch \in Pages(call[t].cursor) :
         LET c   == call[t]
             got == c.got \cup {Row(t, ts) : ts \in {u \in batch : u \in c.cursor..c.until}}
         IN  IF batch = {} \/ Max(batch) + Period > c.until THEN Fetched(t, got)
             ELSE call' = [call EXCEPT ![t].at = "select", ![t].got = got,
                                       ![t].cursor = Max(batch) + Period]
    /\ UNCHANGED <<now, bars, client>>

\* A page answered: empty, or before the cursor, or up to until ends the fetch.
FetchPage(t) ==
    /\ At(t, "page")
    /\ \E batch \in Pages(call[t].cursor) :
         LET c   == call[t]
             got == c.got \cup {Row(t, ts) : ts \in {u \in batch : u \in c.cursor..c.until}}
         IN  IF batch = {} \/ Max(batch) < c.cursor \/ Max(batch) + Period > c.until
             THEN Fetched(t, got)
             ELSE call' = [call EXCEPT ![t].at = "select", ![t].got = got,
                                       ![t].cursor = Max(batch) + Period]
    /\ UNCHANGED <<now, bars, client>>

\* ccxt raised, or the instrument has no symbol on this venue any more.
FetchFails(t) ==
    /\ "fetch_fails" \in Faults
    /\ At(t, "page")
    /\ Raise(t)
    /\ UNCHANGED <<now, bars, client>>

-----------------------------------------------------------------------------
Oldest(rows) == CHOOSE row \in rows : \A other \in rows : row.ts <= other.ts

Newest(rows) == CHOOSE row \in rows : \A other \in rows : row.ts >= other.ts

\* _insert: a row another thread stored meanwhile is kept.
Insert(s, row) ==
    bars' = [bars EXCEPT ![s] = IF row.ts \in Stored(s) THEN @ ELSE @ \cup {row}]

\* The store loop goes on, or the call does what follows it.
Inserted(t, row) ==
    LET left == call[t].got \ {row}
    IN  IF left # {} THEN call' = [call EXCEPT ![t].got = left]
        ELSE StoreOver(t)

\* A plausible bug: newest bar first.
StoreBar_NewestFirst(t) ==
    /\ At(t, "store")
    /\ LET row == Newest(call[t].got) IN Insert(call[t].s, row) /\ Inserted(t, row)
    /\ UNCHANGED <<now, client>>

\* _store, one row: oldest first.
StoreBar(t) ==
    /\ At(t, "store")
    /\ LET row == Oldest(call[t].got) IN Insert(call[t].s, row) /\ Inserted(t, row)
    /\ UNCHANGED <<now, client>>

StoreFails(t) ==
    /\ "db_fails" \in Faults
    /\ At(t, "store")
    /\ Raise(t)
    /\ UNCHANGED <<now, bars, client>>

-----------------------------------------------------------------------------
\* load_window after ensure_fresh: it reads the clock again, reads one closed
\* bar fewer than the lookback, then fetches the forming one.
ReadBars(t) ==
    /\ At(t, "read")
    /\ LET n_closed == call[t].lookback - 1
           closed   == IF n_closed < 1 THEN {}
                       ELSE window(newest_at(now), n_closed) \cap Stored(call[t].s)
           forming  == floor_to_period(now, Period)
       IN  call' = [call EXCEPT ![t].at = "select", ![t].goal = "forming", ![t].missing = {},
                                ![t].closed = closed, ![t].got = {},
                                ![t].cursor = forming, ![t].until = forming]
    /\ UNCHANGED <<now, bars, client>>

\* _MIN_WINDOW_COVERAGE: four fifths of the lookback, rounded up.
required(lookback) == (4 * lookback + 4) \div 5

Serve(t) ==
    /\ At(t, "serve")
    /\ LET w == call[t].closed \cup {row.ts : row \in call[t].got}
       IN  IF Cardinality(w) < required(call[t].lookback) THEN Raise(t)
           ELSE call' = [call EXCEPT ![t].at = "served", ![t].closed = w, ![t].got = {}]
    /\ UNCHANGED <<now, bars, client>>

\* The signal is computed from the window.
Return(t) ==
    /\ At(t, "served")
    /\ Ends(t)
    /\ UNCHANGED <<now, bars, client>>

-----------------------------------------------------------------------------
\* The API process restarts: calls are gone, rows stay, the client is new.
Restart ==
    /\ "restart" \in Faults
    /\ \E t \in Thread : call[t] # NoCall
    /\ call' = [t \in Thread |-> NoCall]
    /\ client' = NoMarket
    /\ UNCHANGED <<now, bars>>

Clock == now < MaxNow /\ now' = now + 1 /\ UNCHANGED <<bars, client, call>>

Step(t) ==
    \/ SyncNext(t) \/ EnsureCoverage(t) \/ EnsureGaps(t)
    \/ SelectType(t) \/ FetchPage(t) \/ FetchFails(t)
    \/ StoreBar(t) \/ StoreFails(t)
    \/ ReadBars(t) \/ Serve(t) \/ Return(t)

BarsInit ==
    /\ now = FirstNow
    /\ bars = [s \in Series |-> {}]
    /\ client = NoMarket
    /\ call = [t \in Thread |-> NoCall]
=============================================================================
