---------------------------- MODULE SeriesSubscr ----------------------------
(***************************************************************************)
(* quant/market_data/subscriptions.py and series_subscr.py: the open rows  *)
(* of MARKET_DATA.SERIES_SUBSCR.  A row belongs to an id and names a       *)
(* series, with a metric (a provider's series) or without (a venue's       *)
(* bars).  The open row is unique on the id only: the index on the series  *)
(* was dropped with PROVIDER_SUBSCR.                                       *)
(***************************************************************************)
EXTENDS Naturals

CONSTANTS
    Subscribed,   \* series a row can name
    SubscrId,     \* the uuids in use
    Asker,        \* concurrent requests for a provider's series
    Mapped,       \* series with a readable venue and an INST.PRODUCT_XREF row
    NoSubscr,     \* an id without a row, a request without a choice
    MaxVersions   \* bound on the versions written

ASSUME SubscrAssumption ==
    NoSubscr \notin [s : Subscribed, metric : BOOLEAN, enabled : BOOLEAN] \cup [s : Subscribed, id : SubscrId]

VARIABLES
    subscr,       \* open row of every id
    choosing,     \* each provider request between its look and its insert
    versions,     \* versions written so far
    moved         \* history: provider series chosen by two requests at once, or
                  \* given to an id by hand

subscrVars == <<subscr, choosing, versions, moved>>

SubscrInit ==
    /\ subscr = [i \in SubscrId |-> NoSubscr]
    /\ choosing = [a \in Asker |-> NoSubscr]
    /\ versions = 0 /\ moved = {}

open_ids == {i \in SubscrId : subscr[i] # NoSubscr}
fresh_ids == {i \in SubscrId \ open_ids : \A a \in Asker : choosing[a] # NoSubscr => choosing[a].id # i}

\* SP_INS_SERIES_SUBSCR: closes the id's open row and inserts the next version.
sp_ins_series_subscr(i, row) ==
    /\ versions < MaxVersions /\ versions' = versions + 1
    /\ subscr' = [subscr EXCEPT ![i] = row]

\* BarSubscriptionService.subscribe: a series no venue can be read for is
\* refused; the id given is versioned, without one a new id is drawn.
SubscribeVenue(s, enabled) ==
    /\ s \in Mapped
    /\ \E i \in fresh_ids \cup {j \in open_ids : ~ subscr[j].metric} :
         sp_ins_series_subscr(i, [s |-> s, metric |-> FALSE, enabled |-> enabled])
    /\ UNCHANGED <<choosing, moved>>

\* A plausible bug: disabled rows are not looked at.
open_provider_ids_Enabled(s) == {i \in open_ids : subscr[i].metric /\ subscr[i].s = s /\ subscr[i].enabled}

\* _open_provider_id, disabled rows included.
open_provider_ids(s) == {i \in open_ids : subscr[i].metric /\ subscr[i].s = s}

\* SeriesSubscrRepo.subscribe, its choice: the id given, else the series' open
\* one, else a new one.
ChooseProvider(a, s) ==
    /\ choosing[a] = NoSubscr
    /\ LET given == {j \in open_ids : subscr[j].metric}
           found == IF open_provider_ids(s) # {} THEN open_provider_ids(s) ELSE fresh_ids
           others == {b \in Asker : choosing[b] # NoSubscr /\ choosing[b].s = s}
       IN  \E i \in given \cup found :
             /\ choosing' = [choosing EXCEPT ![a] = [s |-> s, id |-> i]]
             /\ moved' = IF i \notin found \/ others # {} THEN moved \cup {s} ELSE moved
    /\ UNCHANGED <<subscr, versions>>

\* ... and its insert.
SubscribeProvider(a, enabled) ==
    /\ choosing[a] # NoSubscr
    /\ sp_ins_series_subscr(choosing[a].id, [s |-> choosing[a].s, metric |-> TRUE, enabled |-> enabled])
    /\ choosing' = [choosing EXCEPT ![a] = NoSubscr]
    /\ UNCHANGED moved

SubscrNext ==
    \/ \E s \in Subscribed, enabled \in BOOLEAN : SubscribeVenue(s, enabled)
    \/ \E a \in Asker :
         \/ \E s \in Subscribed : ChooseProvider(a, s)
         \/ \E enabled \in BOOLEAN : SubscribeProvider(a, enabled)

(* "A second subscribe for the same source, metric, interval and product    *)
(* reuses the id already open so the list does not grow a duplicate"        *)
(* (SeriesSubscrRepo.subscribe), whatever was disabled, re-enabled or moved *)
(* between venues and providers before; two requests that choose at once,   *)
(* or an id given by hand, may double it.                                   *)
OneProviderRow ==
    \A i, j \in open_ids :
        subscr[i].metric /\ subscr[j].metric /\ subscr[i].s = subscr[j].s /\ subscr[i].s \notin moved
            => i = j
=============================================================================
