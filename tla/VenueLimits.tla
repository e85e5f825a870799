----------------------------- MODULE VenueLimits -----------------------------
(***************************************************************************)
(* quant/trade/venue_limits.py: the venues' minimum lots, published to     *)
(* Redis per broker app and read by the API's threads when a quantity is   *)
(* entered.  One symbol may name two markets of a venue (the spot pair and *)
(* the perpetual), so a snapshot keys the rule by symbol and default type; *)
(* here every market of an app carries the same symbol.                    *)
(***************************************************************************)
EXTENDS Naturals

CONSTANTS
    BrokerApp,    \* apps with a ccxt preset
    Market,       \* markets as [app, type] records, type is the default type
    Lot,          \* minimum quantities
    Edition,      \* API threads that check a quantity
    MaxLimits,    \* bound on the publications
    NoLimit       \* no rule known: nothing is enforced

ASSUME MarketAssumption == \A m \in Market : m.app \in BrokerApp

VARIABLES
    lots,         \* the venue's minimum per market
    fetched,      \* a publication under way: app |-> what it read
    limits,       \* Redis: app |-> limits, and their stamp
    history,      \* history: the lots the venues had, as read for each stamp
    local,        \* RedisVenueLimits._by_app
    localStamp,   \* RedisVenueLimits._version
    check,        \* each thread: where its get stands
    crossed       \* history: apps whose older load was to be stored after a drop

limitVars == <<lots, fetched, limits, history, local, localStamp, check, crossed>>

Types(app) == {m.type : m \in {n \in Market : n.app = app}}
Nowhere == [app \in BrokerApp |-> NoLimit]
Dropped == [app \in BrokerApp |-> [has |-> FALSE, snap |-> NoLimit, ver |-> 0]]
\* excused is history: the snapshot a thread took was of an app in crossed.
Unchecked == [pc |-> "idle", market |-> NoLimit, seen |-> 0, snap |-> NoLimit, ver |-> 0, excused |-> FALSE]

LimitInit ==
    /\ lots \in [Market -> Lot]
    /\ fetched = [app \in {} |-> NoLimit]
    /\ limits = [byApp |-> Nowhere, ver |-> 0] /\ history = [v \in {0} |-> Nowhere]
    /\ local = Dropped
    /\ localStamp = 0
    /\ check = [e \in Edition |-> Unchecked] /\ crossed = {}

-----------------------------------------------------------------------------
(* VenueLimitsPublisher.                                                   *)

_fetch_Flat(app) ==
    LET last == CHOOSE t \in Types(app) : TRUE IN [t \in Types(app) |-> lots[[app |-> app, type |-> last]]]

\* Pins each default type in turn and files its limits under that type.
_fetch(app) == [t \in Types(app) |-> lots[[app |-> app, type |-> t]]]

\* publish_all: the next app, or it is unreachable and is skipped.
FetchLimits(app) ==
    /\ app \notin DOMAIN fetched /\ limits.ver < MaxLimits
    /\ \E got \in {_fetch(app), NoLimit} :
         LET read == [limits |-> got, venue |-> [t \in Types(app) |-> lots[[app |-> app, type |-> t]]]] IN
         fetched' = [a \in DOMAIN fetched \cup {app} |-> IF a = app THEN read ELSE fetched[a]]
    /\ UNCHANGED <<lots, limits, history, local, localStamp, check, crossed>>

\* One MULTI: the apps that answered and the next stamp; the others keep theirs.
PublishLimits ==
    /\ DOMAIN fetched = BrokerApp
    /\ fetched' = [app \in {} |-> NoLimit]
    /\ LET answered == {app \in BrokerApp : fetched[app].limits # NoLimit}
           merged == [app \in BrokerApp |-> IF app \in answered THEN fetched[app].limits ELSE limits.byApp[app]]
           venue == [app \in BrokerApp |-> IF app \in answered THEN fetched[app].venue ELSE history[limits.ver][app]]
       IN
       \/ /\ answered # {}
          /\ limits' = [byApp |-> merged, ver |-> limits.ver + 1]
          /\ history' = [v \in 0..limits.ver + 1 |-> IF v > limits.ver THEN venue ELSE history[v]]
       \/ UNCHANGED <<limits, history>>
    /\ UNCHANGED <<lots, local, localStamp, check, crossed>>

\* The venue changes a lot, to a larger one: nothing compares two lots, and so
\* the changes are bounded by Lot.
ChangeLot(m) ==
    /\ \E n \in Lot : n > lots[m] /\ lots' = [lots EXCEPT ![m] = n]
    /\ UNCHANGED <<fetched, limits, history, local, localStamp, check, crossed>>

-----------------------------------------------------------------------------
(* RedisVenueLimits.get, for _require_tradable_qty and _row.               *)

To(e, x) == check' = [check EXCEPT ![e] = x]

\* _venue_limits pins the type of the instrument; the stamp is read.
ReadStamp(e, m) ==
    /\ check[e].pc = "idle"
    /\ To(e, [Unchecked EXCEPT !.pc = "compare", !.market = m, !.seen = limits.ver])
    /\ UNCHANGED <<lots, fetched, limits, history, local, localStamp, crossed>>

\* The local snapshots are dropped when the stamp moved.  When it could not be
\* read nothing is compared and nothing is promised (seen 0).
CompareStamp(e) ==
    /\ check[e].pc = "compare"
    /\ \E readable \in BOOLEAN :
         LET seen == check[e].seen
             moved == readable /\ seen # localStamp
             late == {check[u].market.app : u \in {x \in Edition : check[x].pc = "loaded" /\ check[x].ver < seen}}
             app == check[e].market.app
             kept == IF moved THEN Dropped ELSE local
         IN  /\ local' = kept
             /\ localStamp' = IF moved THEN seen ELSE localStamp
             /\ crossed' = IF moved THEN late ELSE crossed
             /\ To(e, [check[e] EXCEPT !.pc = IF kept[app].has THEN "answer" ELSE "load",
                                       !.snap = kept[app].snap, !.excused = kept[app].has /\ app \in crossed,
                                       !.seen = IF readable THEN seen ELSE 0])
    /\ UNCHANGED <<lots, fetched, limits, history>>

\* _load: the snapshot, or nothing when Redis does not answer or has none.
LoadLimits(e) ==
    /\ check[e].pc = "load"
    /\ \E got \in {limits.byApp[check[e].market.app], NoLimit} :
         To(e, [check[e] EXCEPT !.pc = "loaded", !.snap = got, !.ver = limits.ver])
    /\ UNCHANGED <<lots, fetched, limits, history, local, localStamp, crossed>>

\* ... kept for the next call, the empty one too.
KeepLimits(e) ==
    /\ check[e].pc = "loaded"
    /\ local' = [local EXCEPT ![check[e].market.app] = [has |-> TRUE, snap |-> check[e].snap, ver |-> check[e].ver]]
    /\ To(e, [check[e] EXCEPT !.pc = "answer"])
    /\ UNCHANGED <<lots, fetched, limits, history, localStamp, crossed>>

\* The quantity is refused or stored; the order-time check has the last word.
AnswerQty(e) ==
    /\ check[e].pc = "answer" /\ To(e, Unchecked)
    /\ UNCHANGED <<lots, fetched, limits, history, local, localStamp, crossed>>

LimitNext ==
    \/ PublishLimits
    \/ \E app \in BrokerApp : FetchLimits(app)
    \/ \E m \in Market : ChangeLot(m) \/ \E e \in Edition : ReadStamp(e, m)
    \/ \E e \in Edition : CompareStamp(e) \/ LoadLimits(e) \/ KeepLimits(e) \/ AnswerQty(e)

-----------------------------------------------------------------------------
(* The lot a quantity is held to is one the venue had for that very market, *)
(* not for its namesake, as published at the stamp the request read or      *)
(* later; only a load that crossed another thread's drop may leave an older *)
(* one.  No rule at all is always possible, and enforces nothing.           *)
LotOfTheMarket ==
    \A e \in Edition : check[e].pc = "answer" /\ check[e].snap # NoLimit =>
        LET m == check[e].market IN
        \/ check[e].excused
        \/ \E v \in check[e].seen..limits.ver :
             history[v][m.app] # NoLimit /\ history[v][m.app][m.type] = check[e].snap[m.type]
=============================================================================
