----------------------------- MODULE KeyRouting -----------------------------
(***************************************************************************)
(* Broker sessions on one API key: KeyRouter (brokers/ccxt/routing.py)     *)
(* finds the egress route the key's allowlist accepts, the gateway opens   *)
(* and closes exchanges, the adapter refuses what the key profile says     *)
(* will fail, and RedisKeyProfiles caches the profile.  The allowlist and  *)
(* the read-only flag are the user's, at the venue, and change unseen.     *)
(***************************************************************************)
EXTENDS Naturals, Sequences

CONSTANTS
    Egress,       \* EgressRoutes.from_env: route names, "direct" first
    MarketType,   \* ccxt default types an instrument may be pinned to
    BrokerSession,
    NoProfile     \* None

ASSUME RouteAssumption ==
    /\ Egress \in Seq(STRING)
    /\ NoProfile \notin [route : STRING, read_only : BOOLEAN, restricted : SUBSET MarketType]

VARIABLES
    key,          \* at the venue: allow (routes), read_only, barred (types)
    keyInfoCall,  \* the venue has a key-information call
    entry,        \* the Redis entry of this key's profile
    session,      \* one adapter and its gateway per session
    learned       \* history: restrictions recorded since the entry was last lost, and
                  \* those of them a later write erased, by what its session had read

routeVars == <<key, keyInfoCall, entry, session, learned>>

\* BrokerErrorReason UNREACHABLE, KEY_REFUSED or none: nothing here acts on which.
Failed == "FAILED"

Names == {Egress[i] : i \in DOMAIN Egress}

\* What the entry still has to restrict: recorded, and erased in neither way.
Due == learned.recorded \ (learned.overtaken \cup learned.unread)

NothingLearned == [recorded |-> {}, overtaken |-> {}, unread |-> {}]

\* carrying is what the profile read will carry over, open counts the exchanges not
\* closed, held is the gateway's _exchange; history: knew was due when the
\* session read the entry, missed when its read failed.
Closed ==
    [pc |-> "idle", market |-> NoProfile, carrying |-> {}, left |-> <<>>, refused |-> {},
     profile |-> NoProfile, open |-> 0, held |-> FALSE, reason |-> "NONE",
     knew |-> {}, missed |-> {}]

RouteInit ==
    /\ key \in [allow : SUBSET Names, read_only : {FALSE}, barred : SUBSET MarketType]
    /\ keyInfoCall \in BOOLEAN
    /\ entry = NoProfile
    /\ session = [s \in BrokerSession |-> Closed]
    /\ learned = NothingLearned

-----------------------------------------------------------------------------
(* KeyProfile and EgressRoutes.                                            *)

\* The restrictions of the profile read; of no profile, none.
CarriedOver(carrying) == IF carrying = NoProfile THEN {} ELSE carrying.restricted

accepted_Fresh(route, read_only, carrying) ==
    [route |-> route, read_only |-> read_only, restricted |-> {}]

\* A reconnect proves the route, not that a refused product is now allowed: it keeps
\* the restrictions carried over.
accepted(route, read_only, carrying) ==
    [route |-> route, read_only |-> read_only, restricted |-> carrying]

restricting(profile, market) == [profile EXCEPT !.restricted = @ \cup {market}]

refusal(profile, market) ==
    CASE profile.read_only -> "KEY_READ_ONLY"
      [] ~profile.read_only /\ market \in profile.restricted -> "REGION_RESTRICTED"
      [] OTHER -> "NONE"

\* The cached route first, the rest in order.
preferring(cached) ==
    IF cached = NoProfile \/ cached.route \notin Names THEN Egress
    ELSE LET at == CHOOSE i \in DOMAIN Egress : Egress[i] = cached.route
         IN  [i \in DOMAIN Egress |-> IF i = 1 THEN cached.route ELSE Egress[IF i <= at THEN i - 1 ELSE i]]

-----------------------------------------------------------------------------
(* The gateway.                                                            *)

disconnected(x) == IF x.held THEN [x EXCEPT !.open = @ - 1, !.held = FALSE] ELSE x

\* The adapter is gone; what it left open stays open.
Over(x, pc, reason) ==
    [Closed EXCEPT !.pc = pc, !.reason = reason, !.refused = x.refused, !.open = x.open, !.held = x.held]

\* An exception leaves connect(), which is __enter__: __exit__ does not run.
Raised(x, reason) == Over(x, "failed", reason)

\* An exception, or the end, of the body of the with: __exit__ disconnects.
Exited(x, reason) == Over(disconnected(x), "done", reason)

Set(s, x) == session' = [session EXCEPT ![s] = x]

\* RedisKeyProfiles.put on behalf of s: a RedisError is logged and forgotten.
\* The whole profile is written: what was recorded after s read the entry is
\* overtaken, and what stood in an entry s could not read is erased unread.
put(s, profile, more) ==
    \/ /\ entry' = profile
       /\ learned' = [recorded  |-> learned.recorded \cup more,
                      overtaken |-> (learned.overtaken \cup (Due \ (session[s].knew \cup session[s].missed))) \ more,
                      unread    |-> (learned.unread \cup (Due \cap session[s].missed)) \ more]
    \/ UNCHANGED <<entry, learned>>

-----------------------------------------------------------------------------
(* KeyRouter.connect.                                                      *)

\* A new adapter; the cache is read.  An unreachable cache, or an entry that cannot be
\* parsed, reads as empty.
Enter(s, m) ==
    /\ session[s].pc \in {"idle", "failed", "done"}
    /\ \E readable \in BOOLEAN :
         LET cached == IF readable THEN entry ELSE NoProfile IN
         Set(s, [Closed EXCEPT !.pc = "connect", !.market = m, !.carrying = CarriedOver(cached),
                               !.left = preferring(cached), !.knew = IF readable THEN Due ELSE {},
                               !.missed = IF readable THEN {} ELSE Due])
    /\ UNCHANGED <<key, keyInfoCall, entry, learned>>

\* gateway.connect on the next route: load_markets is public.
Connect(s) ==
    /\ session[s].pc = "connect" /\ session[s].left # <<>>
    /\ Set(s, [session[s] EXCEPT !.pc = "info", !.open = @ + 1, !.held = TRUE])
    /\ UNCHANGED <<key, keyInfoCall, entry, learned>>

\* The proxy or the venue is down: no further route is tried.
ConnectFails(s) ==
    /\ session[s].pc = "connect" /\ session[s].left # <<>>
    /\ Set(s, Raised(disconnected([session[s] EXCEPT !.open = @ + 1, !.held = TRUE]), Failed))
    /\ UNCHANGED <<key, keyInfoCall, entry, learned>>

OnList(s) == Head(session[s].left) \in key.allow

InfoRefused_KeepOpen(s) ==
    /\ session[s].pc = "info" /\ keyInfoCall /\ ~OnList(s)
    /\ Set(s, [session[s] EXCEPT !.pc = "connect", !.left = Tail(@),
                                 !.refused = @ \cup {Head(session[s].left)}])
    /\ UNCHANGED <<key, keyInfoCall, entry, learned>>

\* The allowlist refuses this source: close, and on to the next route.
InfoRefused(s) ==
    /\ session[s].pc = "info" /\ keyInfoCall /\ ~OnList(s)
    /\ Set(s, [disconnected(session[s]) EXCEPT !.pc = "connect", !.left = Tail(@),
                                 !.refused = @ \cup {Head(session[s].left)}])
    /\ UNCHANGED <<key, keyInfoCall, entry, learned>>

\* A bad key or an unreachable venue: close and raise.
InfoFails(s) ==
    /\ session[s].pc = "info" /\ keyInfoCall
    /\ Set(s, Raised(disconnected(session[s]), Failed))
    /\ UNCHANGED <<key, keyInfoCall, entry, learned>>

\* The venue answers, or has no such call: keep the route, write the profile.
Accept(s) ==
    /\ session[s].pc = "info" /\ (keyInfoCall => OnList(s))
    /\ LET p == accepted(Head(session[s].left), keyInfoCall /\ key.read_only, session[s].carrying) IN
         /\ put(s, p, {})
         /\ Set(s, [session[s] EXCEPT !.pc = "open", !.profile = p, !.carrying = {}, !.left = <<p.route>>,
                                      !.refused = {}])
    /\ UNCHANGED <<key, keyInfoCall>>

NoRouteLeft(s) ==
    /\ session[s].pc = "connect" /\ session[s].left = <<>>
    /\ Set(s, Raised(session[s], "IP_NOT_ALLOWED"))
    /\ UNCHANGED <<key, keyInfoCall, entry, learned>>

-----------------------------------------------------------------------------
(* The body of the with: an order, or a look at the account.               *)

\* pin_instrument, fetch_balance, market_exists.
Validate(s) ==
    /\ session[s].pc = "open" /\ OnList(s)
    /\ Set(s, [session[s] EXCEPT !.pc = "placing"])
    /\ UNCHANGED <<key, keyInfoCall, entry, learned>>

\* The allowlist was edited since, the venue is down, or the symbol is not listed.
ValidateFails(s) ==
    /\ session[s].pc = "open"
    /\ \E reason \in {Failed} \cup (IF OnList(s) THEN {} ELSE {"IP_NOT_ALLOWED"}) :
         Set(s, Exited(session[s], reason))
    /\ UNCHANGED <<key, keyInfoCall, entry, learned>>

\* fetch_account_snapshot, or the end of a dry run: balances and positions, no
\* order.
Snapshot(s) ==
    /\ session[s].pc = "open" /\ OnList(s)
    /\ Set(s, Exited(session[s], "NONE"))
    /\ UNCHANGED <<key, keyInfoCall, entry, learned>>

\* _key_refusal: not sent.
PlaceRefusedHere(s) ==
    /\ session[s].pc = "placing" /\ refusal(session[s].profile, session[s].market) # "NONE"
    /\ Set(s, Exited(session[s], refusal(session[s].profile, session[s].market)))
    /\ UNCHANGED <<key, keyInfoCall, entry, learned>>

\* The venue refuses the product (record_restriction), the key, or takes the
\* order; or the order is too small to send, or fails in another way.
Place(s) ==
    /\ session[s].pc = "placing" /\ refusal(session[s].profile, session[s].market) = "NONE"
    /\ LET x == session[s] IN
       \/ /\ x.market \in key.barred
          /\ put(s, restricting(x.profile, x.market), {x.market})
          /\ Set(s, Exited([x EXCEPT !.profile = restricting(@, x.market)], "REGION_RESTRICTED"))
       \/ /\ x.market \notin key.barred
          /\ Set(s, Exited(x, IF key.read_only THEN Failed ELSE "NONE"))
          /\ UNCHANGED <<entry, learned>>
       \/ Set(s, Exited(x, Failed)) /\ UNCHANGED <<entry, learned>>
    /\ UNCHANGED <<key, keyInfoCall>>

-----------------------------------------------------------------------------
\* The user edits the key at the venue.
EditKey ==
    /\ \/ \E r \in Names : key' = [key EXCEPT !.allow = IF r \in @ THEN @ \ {r} ELSE @ \cup {r}]
       \/ key' = [key EXCEPT !.read_only = ~@]
    /\ UNCHANGED <<keyInfoCall, entry, session, learned>>

\* KEY_PROFILE_TTL_S passes, or Redis evicts or loses the entry.
Expire ==
    /\ entry # NoProfile
    /\ entry' = NoProfile /\ learned' = NothingLearned
    /\ UNCHANGED <<key, keyInfoCall, session>>

RouteNext ==
    \/ EditKey \/ Expire
    \/ \E s \in BrokerSession :
         \/ \E m \in MarketType : Enter(s, m)
         \/ Connect(s) \/ ConnectFails(s)
         \/ InfoRefused(s) \/ InfoFails(s) \/ Accept(s) \/ NoRouteLeft(s)
         \/ Validate(s) \/ ValidateFails(s) \/ Snapshot(s) \/ PlaceRefusedHere(s) \/ Place(s)

-----------------------------------------------------------------------------
(* What a refusal taught outlives every reconnect, on whatever route: a     *)
(* market type whose refusal was recorded stays restricted in the cached    *)
(* profile, with three exceptions (put replaces the whole profile).  The    *)
(* entry is lost; a session that read it before the refusal was recorded    *)
(* writes after that (overtaken); or a session whose read of the entry      *)
(* failed writes (unread), which takes one reconnect and no second session. *)
LearnedIsKept ==
    Due # {} => entry # NoProfile /\ Due \subseteq entry.restricted

(* A session that ended leaves no exchange open, whichever call raised and  *)
(* however many routes it went through, and a key is reported as not        *)
(* allowed from here only when every route of the environment was refused.  *)
SessionsEndClean ==
    \A s \in BrokerSession :
        /\ session[s].pc \in {"failed", "done"} => session[s].open = 0
        /\ session[s].pc = "failed" /\ session[s].reason = "IP_NOT_ALLOWED" => session[s].refused = Names
=============================================================================
