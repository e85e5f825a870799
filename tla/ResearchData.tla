---------------------------- MODULE ResearchData ----------------------------
(***************************************************************************)
(* Where a backtest's bars come from and what is made of them:             *)
(* quant/data/backtest_cache.py (the MARKET_DATA.API_REQUEST cache),       *)
(* quant/strategy/backtest_service.py (fetch_df, _build_data_dict and the  *)
(* three runs), quant/strategy/live_service.py (the provider path) and     *)
(* quant/data/provider_fill.py (the scheduled fill).                       *)
(*                                                                         *)
(* A bar is its day and a frame a set of days.  A row of the cache carries *)
(* the range it was asked for, whatever the provider had of it.  SP_INS_   *)
(* API_REQUEST closes the open row of the same id only, and an id is drawn *)
(* when the look-up before the provider's answer found none.               *)
(***************************************************************************)
EXTENDS Naturals, Sequences, SequencesExt, FiniteSets, FiniteSetsExt

CONSTANTS
    Run,          \* threads and workers that load data
    Request,      \* kind, syms (the traded one first), lo, hi, refresh, need
    Symbol,       \* the products, each with its data source
    Exchanges,    \* those read from MARKET_DATA.PRICE_BAR
    Refreshable,  \* those whose provider has REFRESH_DATASET_IND = 'Y'
    First,        \* the first day a product has bars
    RowId,        \* API_REQ_IDs, in the order they are drawn
    MaxDay,       \* bound on the days
    Since,        \* the first day of the scheduled fill
    NoRow         \* an id never drawn

\* The runs that load data; the scheduled fill and no run at all.
RunKind == {"optimize", "performance", "walk_forward", "live"}

ASSUME DataAssumption ==
    /\ IsFiniteSet(Symbol) /\ Exchanges \subseteq Symbol
    /\ First \in [Symbol -> Nat] /\ Since \in Nat
    /\ Request \subseteq [kind : RunKind, syms : Seq(Symbol), lo : Nat, hi : Nat,
                         refresh : BOOLEAN, need : Nat]

VARIABLES
    tip,          \* today: the newest closed day
    captured,     \* the newest day of each exchange's captured series
    rows,         \* the open row of each id
    xrefs,        \* products the scheduled provider has a symbol for
    calls,        \* CONFIG.API_LIMIT.CALL_COUNT, capped
    run           \* what each run is doing

dataVars == <<tip, captured, rows, xrefs, calls, run>>

\* Bound on the counter of provider calls.
MaxCalls == 1

Providers == Symbol \ Exchanges

\* scheduled_provider_apps: not an exchange, and the checkbox does not call it.
Scheduled == Providers \ Refreshable

\* The bars the source of s has printed in lo .. hi.
Printed(s, lo, hi) == {d \in lo .. hi : First[s] =< d /\ d =< tip}

NoReq == [kind |-> "none", syms |-> << >>, lo |-> 1, hi |-> 1, refresh |-> FALSE, need |-> 0]
Parked == [pc |-> "idle", req |-> NoReq, todo |-> << >>, frames |-> << >>, id |-> NoRow,
           bars |-> {}, asof |-> 0]

DataInit ==
    /\ tip = 1 /\ captured = [x \in Exchanges |-> 1]
    /\ rows = [i \in RowId |-> NoRow]
    /\ xrefs = {} /\ calls = 0
    /\ run = [r \in Run |-> Parked]

\* A run that has loaded nothing yet.
Loading(q, todo) == [Parked EXCEPT !.pc = "load", !.req = q, !.todo = todo]

Go(r, rec) == run' = [run EXCEPT ![r] = rec]
Doing(r, pc) == run[r].pc = pc
sym(r) == Head(run[r].todo)
filling(r) == run[r].req.kind = "fill"

open_rows(s) == {i \in RowId : rows[i] # NoRow /\ rows[i].s = s}

-----------------------------------------------------------------------------

\* A day closes; a venue's series is captured up to a newer day.
DayCloses ==
    /\ tip < MaxDay /\ tip' = tip + 1
    /\ UNCHANGED <<captured, rows, xrefs, calls, run>>
Capture(x) ==
    /\ captured[x] < tip /\ captured' = [captured EXCEPT ![x] = @ + 1]
    /\ UNCHANGED <<tip, rows, xrefs, calls, run>>

\* run_optimize, run_performance, run_walk_forward or compute_latest_position
\* begins to load; the live window ends today.
StartRun(r, q) ==
    /\ run[r].pc \in {"idle", "done", "failed"}
    /\ Go(r, Loading(IF q.kind = "live" THEN [q EXCEPT !.hi = tip] ELSE q, q.syms))
    /\ UNCHANGED <<tip, captured, rows, xrefs, calls>>

\* Loads the next symbol's frame and what its source had when it was read.
Loaded(r, bars, asof) ==
    Go(r, [run[r] EXCEPT !.pc = "load", !.todo = Tail(@), !.id = NoRow, !.bars = {}, !.asof = 0,
                         !.frames = IF filling(r) THEN @
                                    ELSE Append(@, [s |-> sym(r), bars |-> bars, asof |-> asof])])

\* A loader raises: the run fails, the fill goes on with its next series.
LoadFails(r) ==
    IF filling(r) THEN Loaded(r, {}, 0)
    ELSE Go(r, [run[r] EXCEPT !.pc = "failed", !.todo = << >>, !.frames = << >>,
                              !.id = NoRow, !.bars = {}, !.asof = 0])

\* _fetch_exchange_df: the captured range must span the request, with a day of
\* slack at its end.
spans(s, q) == First[s] =< q.lo /\ captured[s] >= First[s] /\ captured[s] + 1 >= q.hi

LoadExchange(r) ==
    /\ Doing(r, "load") /\ run[r].todo # << >> /\ sym(r) \in Exchanges
    /\ LET s == sym(r)
           q == run[r].req
           df == {d \in q.lo .. q.hi : First[s] =< d /\ d =< captured[s]}
       IN  IF spans(s, q) /\ df # {} THEN Loaded(r, df, captured[s]) ELSE LoadFails(r)
    /\ UNCHANGED <<tip, captured, rows, xrefs, calls>>

\* _app_allows_refresh with the request's checkbox; the fill always refreshes.
refreshes(r) == filling(r) \/ (run[r].req.refresh /\ sym(r) \in Refreshable)

\* A plausible bug: only the start of the cached range is compared.
covers_StartOnly(row, q) == row.lo =< q.lo

\* read_payload: the cached range covers the request.
covers(row, q) == row.lo =< q.lo /\ row.hi >= q.hi

\* A read of the cache: the slice of a covering row.  On a miss, a failed read
\* included, the live path tries a refresh and every other one raises.
ReadPayload(r) ==
    /\ Doing(r, "load") /\ run[r].todo # << >>
    /\ sym(r) \in Providers /\ ~ refreshes(r)
    /\ LET q == run[r].req
           miss == IF q.kind = "live" THEN Go(r, [run[r] EXCEPT !.pc = "lookup"]) ELSE LoadFails(r)
       IN  \/ \E i \in open_rows(sym(r)) :
                IF covers(rows[i], q) THEN Loaded(r, rows[i].bars \cap (q.lo .. q.hi), rows[i].asof)
                ELSE miss
           \/ miss
    /\ UNCHANGED <<tip, captured, rows, xrefs, calls>>

\* refresh_payload, its look-up: the id of the open row, or a new one.
RefreshLookup(r) ==
    /\ \/ Doing(r, "lookup")
       \/ Doing(r, "load") /\ run[r].todo # << >> /\ sym(r) \in Providers /\ refreshes(r)
    /\ LET unused == {i \in RowId : rows[i] = NoRow /\ \A u \in Run : run[u].id # i}
           ids == IF open_rows(sym(r)) # {} THEN open_rows(sym(r))
                  ELSE {i \in unused : \A j \in unused : i =< j}
       IN  LoadFails(r) \/ \E i \in ids : Go(r, [run[r] EXCEPT !.pc = "fetch", !.id = i])
    /\ UNCHANGED <<tip, captured, rows, xrefs, calls>>

\* The provider's answer, once the call is counted.  The live path's cache of
\* rows has no resolve_metric_path, so its fetch raises before the count.
ProviderFetch(r) ==
    /\ Doing(r, "fetch")
    /\ LET bars == Printed(sym(r), run[r].req.lo, run[r].req.hi)
       IN  IF run[r].req.kind = "live" THEN LoadFails(r) /\ UNCHANGED calls
           ELSE /\ calls' = Min({calls + 1, MaxCalls})
                /\ \/ LoadFails(r)
                   \/ bars = {} /\ Loaded(r, {}, tip)
                   \/ bars # {} /\ Go(r, [run[r] EXCEPT !.pc = "insert", !.bars = bars, !.asof = tip])
    /\ UNCHANGED <<tip, captured, rows, xrefs>>

\* SP_INS_API_REQUEST under the id of the look-up, or its error.
RefreshInsert(r) ==
    /\ Doing(r, "insert")
    /\ LET s == sym(r)
           q == run[r].req
           row == [s |-> s, lo |-> q.lo, hi |-> q.hi, bars |-> run[r].bars, asof |-> run[r].asof]
       IN  \/ LoadFails(r) /\ UNCHANGED rows
           \/ /\ rows' = [rows EXCEPT ![run[r].id] = row]
              /\ Loaded(r, run[r].bars, run[r].asof)
    /\ UNCHANGED <<tip, captured, xrefs, calls>>

\* _enforce_date_sync with several series, whose frames must all reach both
\* ends of the window.
enforce_date_sync(frames, q) ==
    Len(frames) > 1 =>
        \A k \in DOMAIN frames :
            /\ frames[k].bars # {}
            /\ Min(frames[k].bars) =< q.lo /\ Max(frames[k].bars) >= q.hi

\* require_scoreable_sample, of run_optimize only.
scoreable(frames, q) == q.kind = "optimize" => Cardinality(frames[1].bars) >= q.need

\* build_data_dict_for_signal refuses an empty frame of a live evaluation.
usable(frames, q) ==
    IF q.kind = "live" THEN \A k \in DOMAIN frames : frames[k].bars # {}
    ELSE enforce_date_sync(frames, q) /\ scoreable(frames, q)

\* All symbols are loaded: the checks, and then the run's own computation,
\* which may raise.
Compute(r) ==
    /\ Doing(r, "load") /\ run[r].todo = << >> /\ ~ filling(r)
    /\ \/ usable(run[r].frames, run[r].req) /\ Go(r, [run[r] EXCEPT !.pc = "done"])
       \/ Go(r, [run[r] EXCEPT !.pc = "failed", !.frames = << >>])
    /\ UNCHANGED <<tip, captured, rows, xrefs, calls>>

-----------------------------------------------------------------------------
(* The scheduled fill.                                                     *)

\* resolve_provider_symbol for a product without one: the bases its readable
\* listings name must agree, and the provider's list must hold that base.
resolve_provider_symbol(bases, listed) == Cardinality(bases) = 1 /\ bases \subseteq listed

\* The window of the fill: from its first day to today, always refreshed.
fill_request == [NoReq EXCEPT !.kind = "fill", !.lo = Since, !.hi = tip, !.refresh = TRUE]

\* fill_scheduled_providers: symbols written where they can be, then each
\* series with one.  What venues and provider answer is any of the cases.
StartFill(r) ==
    /\ run[r].pc \in {"idle", "done", "failed"}
    /\ \E resolved \in {{s \in Scheduled : resolve_provider_symbol(bases[s], listed)} :
                         bases \in [Scheduled -> SUBSET {"a", "b"}], listed \in {{}, {"a"}}} :
         xrefs' = xrefs \cup resolved
    /\ \E todo \in SetToSeqs(xrefs') : Go(r, Loading(fill_request, todo))
    /\ UNCHANGED <<tip, captured, rows, calls>>

EndFill(r) ==
    /\ filling(r) /\ Doing(r, "load") /\ run[r].todo = << >>
    /\ Go(r, Parked)
    /\ UNCHANGED <<tip, captured, rows, xrefs, calls>>

DataNext ==
    \/ DayCloses \/ \E x \in Exchanges : Capture(x)
    \/ \E r \in Run :
         \/ \E q \in Request : StartRun(r, q)
         \/ LoadExchange(r) \/ ReadPayload(r) \/ RefreshLookup(r)
         \/ ProviderFetch(r) \/ RefreshInsert(r) \/ Compute(r)
         \/ StartFill(r) \/ EndFill(r)

-----------------------------------------------------------------------------
(* Properties.                                                             *)

(* A frame that a finished run used holds every bar of its window that the  *)
(* source had when it was asked, cached or not: a hit never hands out a     *)
(* narrower series under a wider request (read_payload, refresh_payload).   *)
(* And the frames of a backtest over several products share the whole       *)
(* requested window, though each was fetched at another moment and from     *)
(* another source; a single exchange series misses at most its last day.    *)
FramesSound ==
    \A r \in Run : Doing(r, "done") =>
        LET q == run[r].req IN
        \A k \in DOMAIN run[r].frames :
            LET f == run[r].frames[k] IN
            /\ f.bars = {d \in q.lo .. q.hi : First[f.s] =< d /\ d =< f.asof}
            /\ q.kind # "live" /\ Len(run[r].frames) > 1 => {q.lo, q.hi} \subseteq f.bars
            /\ q.kind # "live" /\ f.s \in Exchanges => q.lo \in f.bars /\ {q.hi - 1, q.hi} \cap f.bars # {}
=============================================================================
