----------------------------- MODULE MCPlatform -----------------------------
(***************************************************************************)
(* The components that share no state with the queue, the order path or    *)
(* the scheduler, each checked from its own initial state: a behaviour     *)
(* picks one of them and the others stay as they are.                      *)
(***************************************************************************)
EXTENDS StrategyLineage, ResearchData, SeriesSubscr, AuthSessions, Credentials, RefdataSnapshot,
        KeyRouting, VenueLimits, InstrumentCache, LiveApply, TLC

VARIABLE part

Gate(metric, kind, limit) ==
    [metric_key |-> metric, requirement_type |-> kind, threshold |-> limit, direction |-> "higher_is_better"]

\* Two hard gates and a soft comparison that the out-of-sample value opens.
MCPromotionMetrics ==
    <<Gate("Sharpe Ratio", "HARD", 1), Gate("OOS Sharpe Ratio", "HARD", 0),
      Gate("OOS Sharpe Ratio", "SOFT", None), Gate("Sharpe Ratio", "SOFT", None),
      Gate("Calmar Ratio", "SOFT", None)>>

MCMetrics == {[sharpe |-> 2, buy_hold |-> 0, oos |-> 1, calmar |-> 1]}

Ask(kind, syms, lo, hi, refresh, need) ==
    [kind |-> kind, syms |-> syms, lo |-> lo, hi |-> hi, refresh |-> refresh, need |-> need]

\* A is refreshed on demand, B by the scheduled fill, X is read from captures.
MCRequest ==
    {Ask("optimize", <<"A">>, 1, 2, TRUE, 1), Ask("performance", <<"A">>, 1, 3, FALSE, 0),
     Ask("optimize", <<"X", "A">>, 2, 3, TRUE, 2), Ask("walk_forward", <<"A", "B">>, 2, 3, FALSE, 0),
     Ask("live", <<"A">>, 2, 2, FALSE, 0)}

MCFirst == [s \in Symbol |-> IF s = "B" THEN 2 ELSE 1]

\* The proxy is the second route.
MCEgress == <<"direct", "proxy">>

\* One symbol, two markets of the venue.
MCMarket == {[app |-> "bybit", type |-> "spot"], [app |-> "bybit", type |-> "linear"]}

\* Every component has the same two actors.
Symmetry == Permutations(Worker)

Parts == {"lineage", "data", "subscr", "auth", "cred", "refdata", "route", "limits", "inst", "cycles"}

Init ==
    /\ part \in Parts
    /\ LineageInit /\ DataInit /\ SubscrInit /\ AuthInit /\ CredInit /\ RefInit /\ RouteInit
    /\ LimitInit /\ InstInit /\ ApplyInit
    /\ part # "route" => keyInfoCall /\ key.allow = {} /\ key.barred = {}
    /\ part # "cycles" => hasVenue
    /\ part # "limits" => \A m \in Market : lots[m] = 1

LineageTurn == part = "lineage" /\ LineageNext
               /\ UNCHANGED <<part, dataVars, subscrVars, authVars, credVars, refVars, routeVars, limitVars, instVars, applyVars>>
DataTurn    == part = "data" /\ DataNext
               /\ UNCHANGED <<part, lineageVars, subscrVars, authVars, credVars, refVars, routeVars, limitVars, instVars, applyVars>>
SubscrTurn  == part = "subscr" /\ SubscrNext
               /\ UNCHANGED <<part, lineageVars, dataVars, authVars, credVars, refVars, routeVars, limitVars, instVars, applyVars>>
AuthTurn    == part = "auth" /\ AuthNext
               /\ UNCHANGED <<part, lineageVars, dataVars, subscrVars, credVars, refVars, routeVars, limitVars, instVars, applyVars>>
CredTurn    == part = "cred" /\ CredNext
               /\ UNCHANGED <<part, lineageVars, dataVars, subscrVars, authVars, refVars, routeVars, limitVars, instVars, applyVars>>
RefTurn     == part = "refdata" /\ RefNext
               /\ UNCHANGED <<part, lineageVars, dataVars, subscrVars, authVars, credVars, routeVars, limitVars, instVars, applyVars>>
RouteTurn   == part = "route" /\ RouteNext
               /\ UNCHANGED <<part, lineageVars, dataVars, subscrVars, authVars, credVars, refVars, limitVars, instVars, applyVars>>
LimitTurn   == part = "limits" /\ LimitNext
               /\ UNCHANGED <<part, lineageVars, dataVars, subscrVars, authVars, credVars, refVars, routeVars, instVars, applyVars>>
InstTurn    == part = "inst" /\ InstNext
               /\ UNCHANGED <<part, lineageVars, dataVars, subscrVars, authVars, credVars, refVars, routeVars, limitVars, applyVars>>

ApplyTurn   == part = "cycles" /\ ApplyNext
               /\ UNCHANGED <<part, lineageVars, dataVars, subscrVars, authVars, credVars, refVars, routeVars, limitVars, instVars>>

Next == LineageTurn \/ DataTurn \/ SubscrTurn \/ AuthTurn \/ CredTurn \/ RefTurn \/ RouteTurn
        \/ LimitTurn \/ InstTurn \/ ApplyTurn

Spec == Init /\ [][Next]_<<part, lineageVars, dataVars, subscrVars, authVars, credVars, refVars,
                          routeVars, limitVars, instVars, applyVars>>
=============================================================================
