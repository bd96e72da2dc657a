-------------------------------- MODULE Gate --------------------------------
(***************************************************************************)
(* The entry of the cloud control plane (apps/cloud/src/supervisor.ts):    *)
(* every request's credential is resolved - a legacy key in the tenants    *)
(* table, a WorkOS key by a call to WorkOS, a user token by its signature  *)
(* under the JWKS keys - and its permissions are compared with what the    *)
(* route asks for.  WorkOS results, refusals too, are cached in the        *)
(* isolate.                                                                *)
(*                                                                         *)
(* WorkOS is external: it answers while it is up, keys are revoked there,  *)
(* tokens expire and signing keys rotate.  Time is kept as ages; a request *)
(* is answered within MaxLatency units.                                    *)
(***************************************************************************)
EXTENDS Integers, Sequences, SequencesExt

CONSTANTS
    Creds,          \* the credentials there are
    CredSets,       \* the sets of them that are presented in one behaviour
    KindOf,         \* "md", "sk" or "jwt"
    PermsOf,        \* the permissions WorkOS grants, {}: no claim
    Routes,         \* the routes that are requested
    KeySets,        \* the sets of signing keys WorkOS publishes, one at a time
    KidOf,          \* the key a token is signed with
    Entries,        \* concurrent requests
    CACHE_TTL,      \* WORKOS_CACHE_TTL_MS
    CACHE_MAX,      \* WORKOS_CACHE_MAX
    JWKS_TTL,       \* JWKS_TTL_MS
    MaxLatency      \* bound: the longest a request takes

ASSUME GateAssumption ==
    /\ Routes \subseteq {"admin", "usage", "data"}
    /\ {} \notin KeySets
    /\ KindOf \in [Creds -> {"md", "sk", "jwt"}]
    /\ {CACHE_TTL, CACHE_MAX, JWKS_TTL, MaxLatency} \subseteq Nat \ {0}

VARIABLES
    presented,  \* the credentials of this behaviour
    since,      \* how long ago a WorkOS credential ceased to be valid
    tenants,    \* the legacy keys that were minted and not revoked
    up,         \* WorkOS answers
    published,  \* the signing keys WorkOS publishes
    cache,      \* _workosCache, in insertion order
    jwks,       \* _jwksKeyCache and the time left of it, Stale: none
    entry       \* the requests

gateVars == <<presented, since, tenants, up, published, cache, jwks, entry>>

Valid == -1
Stale == -1
Long == CACHE_TTL + MaxLatency + 1      \* ages beyond this count as this one
Workos == {c \in Creds : KindOf[c] # "md"}
NoEntry == [pc |-> "idle", c |-> CHOOSE c \in Creds : TRUE, route |-> "data", age |-> 0,
            late |-> FALSE, ok |-> FALSE, second |-> FALSE, todo |-> {}]

GateInit ==
    /\ presented \in CredSets
    /\ since \in {a \in [Workos -> {Valid, Long}] : \A c \in Workos \ presented : a[c] = Long}
    /\ tenants = {}
    /\ up = TRUE /\ published \in KeySets
    /\ cache = <<>> /\ jwks = [keys |-> {}, left |-> Stale]
    /\ entry = [r \in Entries |-> NoEntry]

-----------------------------------------------------------------------------
(* Permissions.                                                            *)

DeveloperProfile == {"kernel:eval", "kernel:read", "kernel:reset",
                     "session:list", "session:share", "usage:read"}

(* effectivePermissions                                                    *)
Effective(c) ==
    IF KindOf[c] = "md" \/ PermsOf[c] = {} THEN DeveloperProfile ELSE PermsOf[c]

(* What a route asks for.                                                  *)
Required == [admin |-> "account:admin", usage |-> "usage:read", data |-> "kernel:eval"]

Verdict(e, ok) ==
    [e EXCEPT !.ok = FALSE, !.second = FALSE,
              !.pc = IF ~ok THEN "401" ELSE IF Required[e.route] \in Effective(e.c) THEN "ok" ELSE "403"]

-----------------------------------------------------------------------------
(* The cache.  An entry whose time ran out stays until it is looked up.    *)

At(c) == SelectInSeq(cache, LAMBDA e : e.c = c)

(* Mutant: only what was accepted is looked at for its time.               *)
CacheHitForever(c) == At(c) # 0 /\ (cache[At(c)].left >= 0 \/ ~cache[At(c)].ok)

CacheHit(c) == At(c) # 0 /\ cache[At(c)].left >= 0

CacheGet(c) == IF At(c) = 0 \/ CacheHit(c) THEN cache ELSE RemoveAt(cache, At(c))

(* At the limit the oldest goes, also when c itself is there.              *)
CacheSet(s, c, ok) ==
    LET kept == IF Len(s) >= CACHE_MAX THEN Tail(s) ELSE s
        n == SelectInSeq(kept, LAMBDA e : e.c = c)
        e == [c |-> c, ok |-> ok, left |-> CACHE_TTL]
    IN  IF n = 0 THEN Append(kept, e) ELSE [kept EXCEPT ![n] = e]

-----------------------------------------------------------------------------
(* Requests.                                                               *)

Set(r, e) == entry' = [entry EXCEPT ![r] = e]

(* The operator's token opens /admin and /usage without a credential.      *)
Enter(r, c, route, token) ==
    /\ entry[r].pc = "idle"
    /\ token => route # "data"
    /\ Set(r, [NoEntry EXCEPT !.pc = IF token THEN "operator" ELSE "resolve",
                              !.c = c, !.route = route, !.late = c \in Workos /\ since[c] = Long])
    /\ UNCHANGED <<presented, since, tenants, up, published, cache, jwks>>

(* Mutant: a hit gives the entry its full time again.                      *)
ResolveSliding(r) ==
    LET c == entry[r].c
    IN  /\ entry[r].pc = "resolve" /\ c \in Workos
        /\ IF CacheHit(c)
           THEN /\ cache' = [cache EXCEPT ![At(c)].left = CACHE_TTL]
                /\ Set(r, Verdict(entry[r], cache[At(c)].ok))
           ELSE /\ cache' = CacheGet(c)
                /\ Set(r, [entry[r] EXCEPT !.pc = IF KindOf[c] = "jwt" THEN "load" ELSE "validate"])
        /\ UNCHANGED <<presented, since, tenants, up, published, jwks>>

(* resolveCredential up to the call of WorkOS: a cached result, a refusal  *)
(* too, is used until its time is over.                                    *)
Resolve(r) ==
    LET c == entry[r].c
    IN  /\ entry[r].pc = "resolve" /\ c \in Workos
        /\ cache' = CacheGet(c)
        /\ Set(r, IF CacheHit(c) THEN Verdict(entry[r], cache[At(c)].ok)
                  ELSE [entry[r] EXCEPT !.pc = IF KindOf[c] = "jwt" THEN "load" ELSE "validate"])
        /\ UNCHANGED <<presented, since, tenants, up, published, jwks>>

(* A legacy key is looked up in the AUTH shard every time; a shard that    *)
(* does not answer refuses.                                                *)
ResolveLegacy(r, reached) ==
    /\ entry[r].pc = "resolve" /\ entry[r].c \notin Workos
    /\ Set(r, Verdict(entry[r], reached /\ entry[r].c \in tenants))
    /\ UNCHANGED <<presented, since, tenants, up, published, cache, jwks>>

(* workosValidateApiKey: WorkOS decides, or does not answer.               *)
ValidateApiKey(r) ==
    /\ entry[r].pc = "validate"
    /\ Set(r, [entry[r] EXCEPT !.pc = "reply", !.ok = up /\ since[entry[r].c] = Valid])
    /\ UNCHANGED <<presented, since, tenants, up, published, cache, jwks>>

(* loadJwks: the keys in the cache are used while they are fresh.          *)
LoadJwks(r) ==
    /\ entry[r].pc = "load"
    /\ Set(r, [entry[r] EXCEPT !.pc = IF jwks.left >= 0 /\ jwks.keys # {} THEN "key" ELSE "fetch"])
    /\ UNCHANGED <<presented, since, tenants, up, published, cache, jwks>>

(* The answer empties the cache, and its keys are imported one by one.     *)
FetchJwks(r) ==
    /\ entry[r].pc = "fetch"
    /\ IF up THEN /\ jwks' = [jwks EXCEPT !.keys = {}]
                  /\ Set(r, [entry[r] EXCEPT !.pc = "import", !.todo = published])
       ELSE Set(r, [entry[r] EXCEPT !.pc = "key"]) /\ UNCHANGED jwks
    /\ UNCHANGED <<presented, since, tenants, up, published, cache>>

ImportKey(r) ==
    /\ entry[r].pc = "import"
    /\ \E k \in entry[r].todo :
          LET rest == entry[r].todo \ {k}
          IN  /\ jwks' = [keys |-> jwks.keys \cup {k},
                          left |-> IF rest = {} THEN JWKS_TTL ELSE jwks.left]
              /\ Set(r, [entry[r] EXCEPT !.todo = rest, !.pc = IF rest = {} THEN "key" ELSE "import"])
    /\ UNCHANGED <<presented, since, tenants, up, published, cache>>

(* The token's key: when it is not there, the JWKS are loaded once more.   *)
FindKey(r) ==
    LET e == entry[r]
        found == KidOf[e.c] \in jwks.keys
        again == ~found /\ ~e.second
    IN  /\ e.pc = "key"
        /\ jwks' = IF again THEN [jwks EXCEPT !.left = Stale] ELSE jwks
        /\ Set(r, [e EXCEPT !.second = @ \/ again, !.ok = FALSE,
                            !.pc = IF found THEN "verify" ELSE IF again THEN "load" ELSE "reply"])
        /\ UNCHANGED <<presented, since, tenants, up, published, cache>>

(* The signature, then the expiry.                                         *)
VerifyToken(r) ==
    /\ entry[r].pc = "verify"
    /\ Set(r, [entry[r] EXCEPT !.pc = "reply", !.ok = since[entry[r].c] = Valid])
    /\ UNCHANGED <<presented, since, tenants, up, published, cache, jwks>>

Resolved(r) ==
    /\ entry[r].pc = "reply"
    /\ cache' = CacheSet(cache, entry[r].c, entry[r].ok)
    /\ Set(r, Verdict(entry[r], entry[r].ok))
    /\ UNCHANGED <<presented, since, tenants, up, published, jwks>>

(* The request is answered; an admin request may mint a key or revoke keys *)
(* (_mintKey, _revokeKey) first.                                           *)
Leave(r) ==
    /\ entry[r].pc \in {"401", "403", "ok", "operator"}
    /\ Set(r, NoEntry)
    /\ UNCHANGED <<presented, since, tenants, up, published, cache, jwks>>

AdminMints(r, c) ==
    /\ entry[r].pc \in {"ok", "operator"} /\ entry[r].route = "admin"
    /\ c \notin Workos \cup tenants
    /\ tenants' = tenants \cup {c}
    /\ Set(r, NoEntry)
    /\ UNCHANGED <<presented, since, up, published, cache, jwks>>

AdminRevokes(r, gone) ==
    /\ entry[r].pc \in {"ok", "operator"} /\ entry[r].route = "admin"
    /\ gone # {} /\ gone \subseteq tenants
    /\ tenants' = tenants \ gone
    /\ Set(r, NoEntry)
    /\ UNCHANGED <<presented, since, up, published, cache, jwks>>

-----------------------------------------------------------------------------
(* WorkOS.                                                                 *)

Ceases(c) ==    \* a key is revoked, a token expires
    /\ since[c] = Valid
    /\ since' = [since EXCEPT ![c] = 0]
    /\ UNCHANGED <<presented, tenants, up, published, cache, jwks, entry>>

Rotates ==
    /\ published' \in KeySets \ {published}
    /\ UNCHANGED <<presented, since, tenants, up, cache, jwks, entry>>

Outage ==
    /\ up' = ~up
    /\ UNCHANGED <<presented, since, tenants, published, cache, jwks, entry>>

InFlight(r) == entry[r].pc # "idle"

GateTick ==
    /\ \A r \in Entries : InFlight(r) => entry[r].age < MaxLatency
    /\ since' = [c \in Workos |-> IF since[c] \in 0 .. Long - 1 THEN since[c] + 1 ELSE since[c]]
    /\ cache' = [i \in DOMAIN cache |-> [cache[i] EXCEPT !.left = IF @ >= 0 THEN @ - 1 ELSE @]]
    /\ jwks' = [jwks EXCEPT !.left = IF @ >= 0 THEN @ - 1 ELSE @]
    /\ entry' = [r \in Entries |-> IF InFlight(r) THEN [entry[r] EXCEPT !.age = @ + 1] ELSE entry[r]]
    /\ <<since', cache', jwks', entry'>> # <<since, cache, jwks, entry>>
    /\ UNCHANGED <<presented, tenants, up, published>>

Proceed(r) ==
    \/ Resolve(r) \/ (\E reached \in BOOLEAN : ResolveLegacy(r, reached))
    \/ ValidateApiKey(r) \/ LoadJwks(r) \/ FetchJwks(r) \/ ImportKey(r)
    \/ FindKey(r) \/ VerifyToken(r) \/ Resolved(r) \/ Leave(r)

GateNext ==
    \/ \E r \in Entries :
          \/ \E c \in presented, route \in Routes, token \in BOOLEAN : Enter(r, c, route, token)
          \/ Proceed(r)
          \/ \E c \in Creds : AdminMints(r, c)
          \/ \E gone \in SUBSET tenants : AdminRevokes(r, gone)
    \/ \E c \in Workos : Ceases(c)
    \/ Rotates \/ Outage \/ GateTick

GateSpec == GateInit /\ [][GateNext]_gateVars

-----------------------------------------------------------------------------
(* Properties.                                                             *)

(* A WorkOS key that was revoked, or a token that expired, is accepted at  *)
(* most the time of one cache entry and of one validation longer: neither  *)
(* hits nor concurrent validations that end late extend it                 *)
(* (resolveCredential, _cacheSet).                                         *)
RevocationBound ==
    \A r \in Entries : entry[r].pc \in {"ok", "403"} => ~entry[r].late

(* The refusals that were cached while WorkOS was down do not outlive the  *)
(* outage: once it is over, a valid key is refused no more.                *)
OutageHeals ==
    \A c \in Creds : KindOf[c] = "sk" =>
        (<>[](up /\ since[c] = Valid) => <>[](\A r \in Entries : entry[r].pc = "401" => entry[r].c # c))
=============================================================================
