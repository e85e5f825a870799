---------------------------- MODULE AuthSessions ----------------------------
(***************************************************************************)
(* quant/api/auth: one APP_USER, the session tokens minted for it and the  *)
(* process's cache of its row, kept CACHE_TTL_SECONDS.  Time is counted in *)
(* ticks; a request is shorter than a tick, but other requests and changes *)
(* of the row fall between the read of the row and the use made of it.     *)
(***************************************************************************)
EXTENDS Integers

CONSTANTS
    HttpRequest,  \* concurrent requests
    CacheTtl,     \* CACHE_TTL_SECONDS, in ticks
    MaxGen,       \* bound on SESSION_GEN
    NoUser        \* nothing cached, nothing read

ASSUME AuthAssumption == CacheTtl \in Nat /\ MaxGen \in Nat

VARIABLES
    user,         \* the APP_USER row: active and gen
    tokens,       \* generations of the tokens that are signed and not expired
    cache,        \* the cached row and the ticks it has left
    req,          \* each request: what it does and the row it holds
    lapsed,       \* ticks since a token of each generation was good
    longest       \* history: the longest lapse of a token that was let in

authVars == <<user, tokens, cache, req, lapsed, longest>>

Gen == 0 .. MaxGen

\* Bound on the count of ticks since a token was good.
MaxLapse == CacheTtl + 2

NoRequest == [pc |-> "free", row |-> NoUser, gen |-> 0]

AuthInit ==
    /\ user = [active |-> TRUE, gen |-> 0]
    /\ tokens = {} /\ cache = NoUser
    /\ req = [r \in HttpRequest |-> NoRequest]
    /\ lapsed = [g \in Gen |-> 0]
    /\ longest = 0

good(g) == user.active /\ user.gen = g

Handle(r, rec) == req' = [req EXCEPT ![r] = rec]

\* A plausible bug: a hit is kept for another full period.
cache_get_Sliding ==
    IF cache = NoUser \/ cache.left < 0 THEN NoUser ELSE [cache EXCEPT !.left = CacheTtl]

\* _cache_get: an entry past its time is dropped.
cache_get == IF cache = NoUser \/ cache.left < 0 THEN NoUser ELSE cache

\* cache_user
cached(row) == [row |-> row, left |-> CacheTtl]

-----------------------------------------------------------------------------

\* verify_credentials reads the row, then spends its time on Argon2.
LoginRead(r) ==
    /\ req[r].pc = "free"
    /\ Handle(r, [pc |-> "login", row |-> user, gen |-> 0])
    /\ UNCHANGED <<user, tokens, cache, lapsed, longest>>

\* login: a wrong password or an inactive row is a 401; else the token and the
\* cache entry are made from the row read before.
Login(r) ==
    /\ req[r].pc = "login"
    /\ \/ /\ req[r].row.active
          /\ tokens' = tokens \cup {req[r].row.gen}
          /\ cache' = cached(req[r].row)
       \/ UNCHANGED <<tokens, cache>>
    /\ Handle(r, NoRequest)
    /\ UNCHANGED <<user, lapsed, longest>>

\* resolve_current_user's verdict on a row.
allows(row, g) == row.active /\ row.gen = g

LetIn(row, g) ==
    longest' = IF allows(row, g) /\ lapsed[g] > longest THEN lapsed[g] ELSE longest

\* require_user decodes the token and finds the row in the cache.
RequestCached(r) ==
    /\ req[r].pc = "free"
    /\ cache_get # NoUser /\ cache' = cache_get
    /\ \E g \in tokens : LetIn(cache.row, g)
    /\ UNCHANGED <<user, tokens, req, lapsed>>

\* ... or reads it.
RequestRead(r) ==
    /\ req[r].pc = "free" /\ cache_get = NoUser
    /\ \E g \in tokens : Handle(r, [pc |-> "resolve", row |-> user, gen |-> g])
    /\ cache' = NoUser
    /\ UNCHANGED <<user, tokens, lapsed, longest>>

\* ... caches it and decides.
RequestResolve(r) ==
    /\ req[r].pc = "resolve"
    /\ cache' = cached(req[r].row)
    /\ LetIn(req[r].row, req[r].gen)
    /\ Handle(r, NoRequest)
    /\ UNCHANGED <<user, tokens, lapsed>>

\* logout of an accepted request: the cookie is cleared and the entry evicted;
\* the token itself stays good.
Logout(r) ==
    /\ req[r].pc = "free" /\ cache_get # NoUser
    /\ \E g \in tokens : allows(cache.row, g)
    /\ cache' = NoUser
    /\ UNCHANGED <<user, tokens, req, lapsed, longest>>

\* An administrator sets IS_ACTIVE_IND, changes the password or bumps the
\* token: each of the procedures takes SESSION_GEN one up.
ChangeUser ==
    /\ user.gen < MaxGen
    /\ \E active \in BOOLEAN : user' = [user EXCEPT !.active = active, !.gen = @ + 1]
    /\ lapsed' = [g \in Gen |-> IF user'.active /\ user'.gen = g THEN 0 ELSE lapsed[g]]
    /\ UNCHANGED <<tokens, cache, req, longest>>

\* A tick: entries age, tokens of refused generations lapse, a token may expire.
TimePasses ==
    /\ \A r \in HttpRequest : req[r].pc = "free"
    /\ cache' = IF cache = NoUser THEN NoUser
                ELSE [cache EXCEPT !.left = IF @ < 0 THEN @ ELSE @ - 1]
    /\ lapsed' = [g \in Gen |-> IF good(g) THEN 0
                                ELSE IF lapsed[g] < MaxLapse THEN lapsed[g] + 1 ELSE MaxLapse]
    /\ \E expired \in SUBSET tokens : tokens' = tokens \ expired
    /\ UNCHANGED <<user, req, longest>>

\* The process restarts: the cache is empty.  Without a configured JWT_SECRET
\* a new one is drawn and no token of before decodes (_resolve_jwt_secret).
RestartApi ==
    /\ cache' = NoUser /\ req' = [r \in HttpRequest |-> NoRequest]
    /\ tokens' \in {tokens, {}}
    /\ UNCHANGED <<user, lapsed, longest>>

AuthNext ==
    \/ ChangeUser \/ TimePasses \/ RestartApi
    \/ \E r \in HttpRequest :
         \/ LoginRead(r) \/ Login(r) \/ RequestCached(r) \/ RequestRead(r)
         \/ RequestResolve(r) \/ Logout(r)

(* A token is let in at most CACHE_TTL_SECONDS                              *)
(* after its user was deactivated or its generation bumped, whoever cached  *)
(* the old row in between: a login caches a row read before the change.     *)
RevokedIsRefused == longest =< CacheTtl
=============================================================================
