----------------------------- MODULE TokenCache -----------------------------
(***************************************************************************)
(* The token cache of src/auth/token_cache.rs: every API process keeps its *)
(* own, of at most CacheCapacity contexts, each for less than TTL ticks,   *)
(* replaced least recently used first.  The ages are relative: a tick adds *)
(* one to every entry until it has expired.                                *)
(***************************************************************************)
EXTENDS AccessTables

CONSTANTS
    Processes,      \* API processes
    CacheCapacity,  \* capacity of the cache, in contexts
    TTL             \* its time to live, in ticks

ASSUME CacheAssumption ==
    /\ CacheCapacity \in Nat \ {0}
    /\ TTL \in Nat \ {0}

VARIABLES
    cache,   \* per process and token: the cached context and its age
    recent   \* per process, pairs <<t, n>>: t was used more recently than n

cacheVars == <<cache, recent>>

Entry == [keys : SUBSET Key, age : 0..TTL]

Absent == [keys |-> {}, age |-> 0]

CacheTypeOK ==
    /\ cache \in [Processes -> [Tokens -> Entry]]
    /\ recent \in [Processes -> SUBSET (Tokens \X Tokens)]

CacheInit ==
    /\ cache = [p \in Processes |-> [t \in Tokens |-> Absent]]
    /\ recent = [p \in Processes |-> {}]

Held(p) == {t \in Tokens : cache[p][t].keys # {}}

\* Mutation of is_expired: `>' for `>='.
ExpiresLate(e) == e.age > TTL

is_expired(e) == e.age >= TTL

\* Mutation of Stale: the expiry of the token itself is not looked at.
StaleByAge(p, t) == is_expired(cache[p][t])

\* is_expired or is_context_token_expired.
Stale(p, t) == is_expired(cache[p][t]) \/ t \in expired

Fresh(p, t) == t \in Held(p) /\ ~Stale(p, t)

\* The context get_bearer_context returns; {} for a miss.
CachedKeys(p, t) == IF Stale(p, t) THEN {} ELSE cache[p][t].keys

\* LruCache::promote and put: t becomes the most recently used.
UsedLast(p, t) ==
    {pair \in recent[p] : t \notin {pair[1], pair[2]}} \cup {<<t, n>> : n \in Held(p) \ {t}}

ForgetOrder(p, gone) ==
    {pair \in recent[p] : pair[1] \notin gone /\ pair[2] \notin gone}

\* LruCache::pop of every token in gone.
Pop(p, gone) ==
    /\ cache' = [cache EXCEPT ![p] = [t \in Tokens |-> IF t \in gone THEN Absent ELSE @[t]]]
    /\ recent' = [recent EXCEPT ![p] = ForgetOrder(p, gone)]

\* Mutation of get_bearer_context: a context that is used is kept longer.
GetRefreshing(p, t) ==
    CASE t \notin Held(p) -> UNCHANGED cacheVars
      [] t \in Held(p) /\ Stale(p, t) -> Pop(p, {t})
      [] Fresh(p, t) -> /\ recent' = [recent EXCEPT ![p] = UsedLast(p, t)]
                        /\ cache' = [cache EXCEPT ![p][t].age = 0]

\* get_bearer_context: drops a stale entry, promotes a fresh one and leaves
\* its age alone.
get_bearer_context(p, t) ==
    CASE t \notin Held(p) -> UNCHANGED cacheVars
      [] t \in Held(p) /\ Stale(p, t) -> Pop(p, {t})
      [] Fresh(p, t) -> /\ recent' = [recent EXCEPT ![p] = UsedLast(p, t)]
                        /\ UNCHANGED cache

\* The first expired entry in the order of use, else the least recently used.
evict_prefer_expired_entry(p) ==
    LET stale == {t \in Held(p) : Stale(p, t)}
    IN  IF stale # {} THEN {t \in stale : \A n \in stale \ {t} : <<t, n>> \in recent[p]}
        ELSE {t \in Held(p) : \A n \in Held(p) \ {t} : <<n, t>> \in recent[p]}

\* Mutation of insert_bearer_context: `>' for `>=' in the test of the capacity.
InsertPastCapacity(p, t, keys) ==
    LET victims == IF t \notin Held(p) /\ Cardinality(Held(p)) > CacheCapacity
                   THEN evict_prefer_expired_entry(p) ELSE {}
    IN  /\ cache' = [cache EXCEPT ![p] =
              [n \in Tokens |-> IF n = t THEN [keys |-> keys, age |-> 0]
                                ELSE IF n \in victims THEN Absent ELSE @[n]]]
        /\ recent' = [recent EXCEPT ![p] =
              {pair \in UsedLast(p, t) : pair[1] \notin victims /\ pair[2] \notin victims}]

\* insert_bearer_context of a context read for t.
insert_bearer_context(p, t, keys) ==
    LET victims == IF t \notin Held(p) /\ Cardinality(Held(p)) >= CacheCapacity
                   THEN evict_prefer_expired_entry(p) ELSE {}
    IN  /\ cache' = [cache EXCEPT ![p] =
              [n \in Tokens |-> IF n = t THEN [keys |-> keys, age |-> 0]
                                ELSE IF n \in victims THEN Absent ELSE @[n]]]
        /\ recent' = [recent EXCEPT ![p] =
              {pair \in UsedLast(p, t) : pair[1] \notin victims /\ pair[2] \notin victims}]

\* Mutation of Older: an age is never capped.
OlderForever(e) == [e EXCEPT !.age = @ + 1]

Older(e) == IF e.keys = {} \/ e.age = TTL THEN e ELSE [e EXCEPT !.age = @ + 1]

\* A tick of Instant::now().
CacheAges ==
    /\ cache' = [p \in Processes |-> [t \in Tokens |-> Older(cache[p][t])]]
    /\ UNCHANGED recent
=============================================================================
