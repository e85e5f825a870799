------------------------------ MODULE LiveApply ------------------------------
(***************************************************************************)
(* LiveApplyOrchestrator.run (quant/trade/live_apply.py) and run_dry_run   *)
(* on one deployment, with nothing that keeps two of them apart: the       *)
(* scheduler's tick and the apply endpoint may run at once, each with its  *)
(* own row, signal, session and orders over one account.  Attempts of      *)
(* the retry executor are here as OrderExecutor has them for one cycle:    *)
(* read the book, place, and after an unconfirmed order cancel and retry.  *)
(***************************************************************************)
EXTENDS OrderPolicy, FiniteSets, FiniteSetsExt

CONSTANTS
    Applier,       \* concurrent callers: the tick's thread, API requests
    ApplyAttempts, \* order_max_attempts
    Fitted,        \* the interval the strategy was fitted on
    NoInterval,    \* None: no schedule
    MaxAllowed,    \* bound on what overlaps are counted to allow
    MaxLost        \* bound on the fills no TRANSACTION row tells of

ASSUME ApplyAssumption == IsFiniteSet(Applier) /\ Fitted # NoInterval

VARIABLES
    depRow,        \* the DEPLOYMENT row: enabled, schedule
    hasVenue,      \* exchange_id_for_app: the broker serves market data
    book,          \* the signed position on the account
    cycle,         \* per applier: the locals of run or run_dry_run
    ledger,        \* sum of the TRANSACTION rows, signed
    unledgered,    \* history: fills without a row
    lost,          \* history: number of such fills
    allowed        \* history: what the account may hold, doubled by each book read that
                   \* led to an order while another cycle's order was under way

applyVars == <<depRow, hasVenue, book, cycle, ledger, unledgered, lost, allowed>>

NoSeries == [source |-> "none", interval |-> NoInterval]

Away == [pc |-> "away", kind |-> "none", row |-> NoInterval, series |-> NoSeries, signal |-> 0,
         order |-> 0, filled |-> 0, attempt |-> 0]

ApplyInit ==
    /\ depRow = [enabled |-> TRUE, schedule |-> NoInterval] /\ hasVenue \in BOOLEAN
    /\ book = 0 /\ ledger = 0 /\ unledgered = 0 /\ lost = 0 /\ allowed = Qty + FlatEps
    /\ cycle = [a \in Applier |-> Away]

Keep(a, x) == cycle' = [cycle EXCEPT ![a] = x]

-----------------------------------------------------------------------------
(* Which series prices the signal.                                         *)

\* for_app: a loader of the broker's own bars; without market data it raises.
for_app(interval) ==
    [source |-> IF hasVenue THEN "price_bar" ELSE "raises", interval |-> interval]

resolve_signal_source_BySchedule(schedule) ==
    IF schedule = NoInterval THEN [source |-> "provider", interval |-> Fitted] ELSE for_app(schedule)

\* By venue, not by schedule, which only sets the interval.
resolve_signal_source(schedule) ==
    IF schedule = NoInterval /\ ~hasVenue THEN [source |-> "provider", interval |-> Fitted]
    ELSE for_app(IF schedule = NoInterval THEN Fitted ELSE schedule)

-----------------------------------------------------------------------------
(* One cycle.                                                              *)

\* apply_deployment reads the row and checks the kill switch.
Begin(a) ==
    /\ cycle[a].pc = "away" /\ depRow.enabled
    /\ Keep(a, [Away EXCEPT !.pc = "signal", !.kind = "apply", !.row = depRow.schedule])
    /\ UNCHANGED <<depRow, hasVenue, book, ledger, unledgered, lost, allowed>>

\* A dry run is of a strategy: there is no schedule, and no row to be switched off.
run_dry_run(a) ==
    /\ cycle[a].pc = "away"
    /\ Keep(a, [Away EXCEPT !.pc = "signal", !.kind = "dry"])
    /\ UNCHANGED <<depRow, hasVenue, book, ledger, unledgered, lost, allowed>>

\* _compute_signal.
Signalled(a) ==
    /\ cycle[a].pc = "signal"
    /\ resolve_signal_source(cycle[a].row).source # "raises"
    /\ \E sig \in Signal :
         Keep(a, [cycle[a] EXCEPT !.pc = IF cycle[a].kind = "dry" THEN "read" ELSE "intend", !.signal = sig,
                                  !.attempt = 1, !.row = NoInterval,
                                  !.series = resolve_signal_source(cycle[a].row)])
    /\ UNCHANGED <<depRow, hasVenue, book, ledger, unledgered, lost, allowed>>

\* sp_ins_intent: the target is on record before any order.
Intend(a) ==
    /\ cycle[a].pc = "intend"
    /\ Keep(a, [cycle[a] EXCEPT !.pc = "read"])
    /\ UNCHANGED <<depRow, hasVenue, book, ledger, unledgered, lost, allowed>>

\* No adapter, no keys, no bars, no intent row, no session: nothing was placed.
Raise(a) ==
    /\ cycle[a].pc \in {"signal", "intend", "read"}
    /\ Keep(a, Away)
    /\ UNCHANGED <<depRow, hasVenue, book, ledger, unledgered, lost, allowed>>

Busy(b) == cycle[b].pc \in {"place", "placed"}

\* get_position_qty and the decision.  A dry run, or nothing due, ends here.
ReadPosition(a) ==
    /\ cycle[a].pc = "read"
    /\ LET due == OrderDue(cycle[a].signal, book)
           over == \E b \in Applier \ {a} : Busy(b)
       IN  IF cycle[a].kind = "dry" \/ due = 0 THEN Keep(a, Away) /\ UNCHANGED allowed
           ELSE /\ over => allowed < MaxAllowed
                /\ allowed' = IF over THEN 2 * allowed ELSE allowed
                /\ Keep(a, [cycle[a] EXCEPT !.pc = "place", !.order = due])
    /\ UNCHANGED <<depRow, hasVenue, book, ledger, unledgered, lost>>

\* place_order: on the book, or refused before or by the venue, and the refusal
\* ends the cycle or is retried.  Submissions without an answer and cancels
\* that fail are OrderPath's subject.
PlaceOrder(a) ==
    /\ cycle[a].pc = "place"
    /\ \/ Keep(a, [cycle[a] EXCEPT !.pc = "placed", !.filled = 0])
       \/ Keep(a, Away)
       \/ /\ cycle[a].attempt < ApplyAttempts
          /\ Keep(a, [cycle[a] EXCEPT !.pc = "read", !.attempt = @ + 1, !.order = 0])
    /\ UNCHANGED <<depRow, hasVenue, book, ledger, unledgered, lost, allowed>>

Unit(n) == IF n < 0 THEN -1 ELSE 1

\* The venue fills one more unit of the order.
Fills(a) ==
    /\ cycle[a].pc = "placed" /\ cycle[a].filled # cycle[a].order
    /\ Keep(a, [cycle[a] EXCEPT !.filled = @ + Unit(cycle[a].order)])
    /\ book' = book + Unit(cycle[a].order)
    /\ UNCHANGED <<depRow, hasVenue, ledger, unledgered, lost, allowed>>

\* The fill q has a TRANSACTION row, or it has none.
Ledgered(q) == ledger' = ledger + q /\ UNCHANGED <<unledgered, lost>>
Unledgered(q) ==
    \/ q = 0 /\ UNCHANGED <<ledger, unledgered, lost>>
    \/ q # 0 /\ lost < MaxLost /\ lost' = lost + 1 /\ unledgered' = unledgered + q /\ UNCHANGED ledger

write_transaction_NoSide(a) ==
    Ledgered(Abs(cycle[a].filled)) \/ Unledgered(cycle[a].filled)

\* _write_transaction, best effort: the filled quantity, or the write fails.
write_transaction(a) ==
    Ledgered(cycle[a].filled) \/ Unledgered(cycle[a].filled)

\* The order ended with a fill, whole or not, and the poll saw it.
Confirmed(a) ==
    /\ cycle[a].pc = "placed" /\ cycle[a].filled # 0
    /\ write_transaction(a)
    /\ Keep(a, Away)
    /\ UNCHANGED <<depRow, hasVenue, book, allowed>>

Unconfirmed_SameOrder(a) ==
    /\ cycle[a].pc = "placed"
    /\ Unledgered(cycle[a].filled)
    /\ IF cycle[a].attempt < ApplyAttempts
       THEN Keep(a, [cycle[a] EXCEPT !.pc = "place", !.attempt = @ + 1, !.filled = 0])
       ELSE Keep(a, Away)
    /\ UNCHANGED <<depRow, hasVenue, book, allowed>>

\* Not confirmed in time: cancel, then the next attempt reads the book again.
\* Only the last attempt's result reaches _write_transaction.
Unconfirmed(a) ==
    /\ cycle[a].pc = "placed"
    /\ Unledgered(cycle[a].filled)
    /\ IF cycle[a].attempt < ApplyAttempts
       THEN Keep(a, [cycle[a] EXCEPT !.pc = "read", !.attempt = @ + 1, !.order = 0, !.filled = 0])
       ELSE Keep(a, Away)
    /\ UNCHANGED <<depRow, hasVenue, book, allowed>>

\* A failing order the executor will not retry; the alert is best effort.
Fails(a) ==
    /\ cycle[a].pc = "placed" /\ cycle[a].filled = 0
    /\ Keep(a, Away)
    /\ UNCHANGED <<depRow, hasVenue, book, ledger, unledgered, lost, allowed>>

\* The user switches the deployment off and on, or changes its schedule, which
\* is none or the interval of the strategy.
EditDeployment ==
    /\ depRow' \in [enabled : BOOLEAN, schedule : {NoInterval, Fitted}]
    /\ depRow' # depRow
    /\ UNCHANGED <<hasVenue, book, cycle, ledger, unledgered, lost, allowed>>

ApplyNext ==
    \/ EditDeployment
    \/ \E a \in Applier :
         \/ Begin(a) \/ run_dry_run(a) \/ Signalled(a) \/ Intend(a) \/ Raise(a)
         \/ ReadPosition(a) \/ PlaceOrder(a)
         \/ Fills(a) \/ Confirmed(a) \/ Unconfirmed(a) \/ Fails(a)

-----------------------------------------------------------------------------
(* Nothing keeps a manual apply and a tick of one deployment apart, and     *)
(* what that can cost is bounded: a position beyond the deployment's qty,   *)
(* or the qty and what passes for flat, takes a book read while another     *)
(* cycle had an order under way, and each such read at most doubles it:     *)
(* every reader of a wrong position flattens all of it.                     *)
OverlapBounded == Abs(book) <= allowed

\* Filled by orders whose cycle has not heard of it yet.
UnderWay == MapThenSumSet(LAMBDA a : cycle[a].filled, Applier)

(* The TRANSACTION rows explain the account: they differ from the position  *)
(* by what orders under way have filled and by the fills whose row could    *)
(* not be written or whose order was given up unconfirmed, and no more.     *)
TransactionsExplain == book = ledger + unledgered + UnderWay

(* A dry run and an apply of one strategy price the same series, whether    *)
(* the deployment has a schedule or not.                                    *)
PreviewPricesTheSame ==
    \A a, b \in Applier :
        cycle[a].series # NoSeries /\ cycle[b].series # NoSeries => cycle[a].series = cycle[b].series
=============================================================================
