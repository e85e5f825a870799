\* One series, a signal and a warm pass over the same lookback, deep backfills.  The
\* first windows reach back before the venue's first bar, the last one does not.
SPECIFICATION FairSpec
CONSTANTS
    Series = {btc}
    Market = {swap}
    MarketOf <- OneMarket
    Listed = 0
    Period = 1
    Signal = {t1}
    Job = {t2}
    Lookback = 5
    WarmLookback = 5
    PageLimit = 2
    MaxBackfillBars = 7
    BackfillStarts = {0}
    BackfillEnds = {3, NoEnd}
    NoEnd = NoEnd
    NoCall = NoCall
    NoPlan = NoPlan
    NoMarket = NoMarket
    FirstNow = 4
    MaxNow = 6
    Faults = {"late", "replay", "fetch_fails", "db_fails", "restart"}
INVARIANTS
    RowsTrue
    ServedWithoutHoles
    PlansConverge
PROPERTIES
    EnsuredWindow
    CallsEnd
