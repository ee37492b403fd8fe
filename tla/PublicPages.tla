---------------------------- MODULE PublicPages ----------------------------
(***************************************************************************)
(* The public status pages of an API process: the handler of               *)
(* src/api/routes/public.rs behind its rate limiter, the page cache of     *)
(* src/api/rate_limit.rs and the configuration of pages in                 *)
(* src/api/routes/sites/mod.rs.  A handler reads the page, the monitors    *)
(* kind by kind, and then stores the page in the cache: in between, other  *)
(* requests, checks and reconfigurations go on.  Of a page, its overall    *)
(* status and the status of its monitors are modelled; incidents, uptime   *)
(* figures and titles are data.  Sites are not deleted here.               *)
(***************************************************************************)
EXTENDS RateLimiter

CONSTANTS
    Sites, Slugs, Monitors, Kinds,
    SiteOf, KindOf,  \* of every monitor
    Results,         \* results of a check: subset of {"up", "slow", "down"}
    Requests,        \* bound: handlers that read the database at a time
    MaxChanges,      \* bound: changes of pages and monitors while it runs
    Capacity,        \* capacity of the cache, 256 in the code
    TTL,             \* its time to live, in ticks
    LoadMax          \* ticks a handler takes at most to read the database

Statuses == {"paused", "pending", "up", "degraded", "down"}

ASSUME PagesAssumption ==
    /\ SiteOf \in [Monitors -> Sites]
    /\ KindOf \in [Monitors -> Kinds]
    /\ Results \subseteq {"up", "slow", "down"}
    /\ Capacity \in Nat \ {0}
    /\ TTL \in Nat \ {0}
    /\ LoadMax \in Nat
    /\ MaxChanges \in Nat
    /\ None \notin Slugs \cup Statuses

VARIABLES
    page,     \* per site: its row of site_status_pages, or None
    monitor,  \* per monitor: whether it is active, and its last result
    cache,    \* per slug: the cached page, or None
    recent,   \* pairs <<s, n>>: s was used more recently than n
    load,     \* per request: what its handler has read so far, or None
    changes   \* bound: changes of pages and monitors so far

pageVars == <<page, monitor, cache, recent, load, changes>>
vars == <<limiterVars, pageVars>>

\* The row of a page.
SiteStatusPage == [slug : Slugs, enabled : BOOLEAN]

Of(s) == {m \in Monitors : SiteOf[m] = s}

\* What was read of a site: `shown' is the status of the monitors read.  The
\* counters are history: for how many ticks the row of the page, or the status
\* of a monitor, has not been what was read.
View == [site : Sites, shown : [Monitors -> Statuses \cup {None}],
         off : Nat, old : [Monitors -> Nat]]

Seen(s) == [site |-> s, shown |-> [m \in Monitors |-> None],
            off |-> 0, old |-> [m \in Monitors |-> 0]]

\* The process starts on a database that is in any state: the monitors are
\* active or paused and had any result, and no two sites have the same slug.
Init ==
    /\ LimiterInit
    /\ page \in [Sites -> SiteStatusPage \cup {None}]
    /\ \A s, o \in Sites : s # o /\ page[s] # None /\ page[o] # None => page[s].slug # page[o].slug
    /\ monitor \in [Monitors -> [active : BOOLEAN, last : Results \cup {None}]]
    /\ cache = [slug \in Slugs |-> None]
    /\ recent = {}
    /\ load = [q \in Requests |-> None]
    /\ changes = 0

-----------------------------------------------------------------------------
(* Statuses.                                                               *)

\* The last result is "slow" when it was a success but took longer than the
\* maximum the monitor has now.
monitor_status(m) ==
    CASE ~monitor[m].active -> "paused"
      [] monitor[m].active /\ monitor[m].last = None -> "pending"
      [] monitor[m].active /\ monitor[m].last = "down" -> "down"
      [] monitor[m].active /\ monitor[m].last = "slow" -> "degraded"
      [] monitor[m].active /\ monitor[m].last = "up" -> "up"

\* Mutation of derive_overall_status: any monitor that is up is enough.
DeriveFromAny(shown) ==
    LET active == {shown[m] : m \in Monitors} \ {None, "paused"} IN
    CASE active = {} -> "unknown"
      [] "down" \in active -> "outage"
      [] "down" \notin active /\ "degraded" \in active -> "degraded"
      [] "up" \in active /\ active \cap {"down", "degraded"} = {} -> "operational"
      [] OTHER -> "unknown"

derive_overall_status(shown) ==
    LET active == {shown[m] : m \in Monitors} \ {None, "paused"} IN
    CASE active = {} -> "unknown"
      [] "down" \in active -> "outage"
      [] "down" \notin active /\ "degraded" \in active -> "degraded"
      [] active = {"up"} -> "operational"
      [] OTHER -> "unknown"

-----------------------------------------------------------------------------
(* StatusPageCache, an LruCache.                                           *)

Held == {slug \in Slugs : cache[slug] # None}

Live(slug) == cache[slug] # None /\ cache[slug].age < TTL

\* The key becomes the most recently used.
UsedLast(slug) ==
    {pair \in recent : slug \notin {pair[1], pair[2]}} \cup {<<slug, n>> : n \in Held \ {slug}}

\* Mutation of get: a page that is shown is kept longer.
GetRefreshing(slug) ==
    /\ recent' = IF slug \in Held THEN UsedLast(slug) ELSE recent
    /\ cache' = IF Live(slug) THEN [cache EXCEPT ![slug].age = 0] ELSE cache

\* get promotes a page that has expired too, and removes none.
get(slug) ==
    /\ recent' = IF slug \in Held THEN UsedLast(slug) ELSE recent
    /\ UNCHANGED cache

\* Mutation of Evicted: no page makes room.
EvictedNone(slug) == {}

\* A full cache drops the page used least recently for a new key.
Evicted(slug) ==
    IF slug \in Held \/ Cardinality(Held) < Capacity THEN {}
    ELSE {n \in Held : \A o \in Held \ {n} : <<o, n>> \in recent}

set(slug, view) ==
    LET gone == Evicted(slug) IN
    /\ cache' = [n \in Slugs |->
                    IF n = slug THEN [view |-> view, age |-> 0]
                    ELSE IF n \in gone THEN None ELSE cache[n]]
    /\ recent' = {pair \in UsedLast(slug) : pair[1] \notin gone /\ pair[2] \notin gone}

-----------------------------------------------------------------------------
(* The handler of a request.                                               *)

\* get_public_status_page: the limiter, then the cache; the page that is found
\* is the answer.
get_public_status_page(q, c, slug) ==
    /\ load[q] = None
    /\ check(c)
    /\ IF ~Allows(c) THEN UNCHANGED <<cache, recent, load>>
       ELSE /\ get(slug)
            /\ load' = IF Live(slug) THEN load
                       ELSE [load EXCEPT ![q] = [slug |-> slug, view |-> None, spent |-> 0]]
    /\ UNCHANGED <<page, monitor, changes>>

Reading(q) == load[q] # None /\ load[q].view = None

\* get_by_slug and get_site_by_id: a page that is not enabled is not found.
ReadPage(q) ==
    /\ Reading(q)
    /\ LET found == {s \in Sites : page[s] = [slug |-> load[q].slug, enabled |-> TRUE]} IN
       \/ found = {} /\ load' = [load EXCEPT ![q] = None]
       \/ \E s \in found : load' = [load EXCEPT ![q].view = Seen(s)]
    /\ UNCHANGED <<limiterVars, page, monitor, cache, recent, changes>>

Unread(q) == {m \in Of(load[q].view.site) : load[q].view.shown[m] = None}

\* list_*_monitors_by_site_id: the monitors of one kind.
ReadMonitors(q, kind) ==
    /\ load[q] # None /\ ~Reading(q)
    /\ LET read == {m \in Unread(q) : KindOf[m] = kind} IN
       /\ read # {}
       /\ load' = [load EXCEPT ![q].view.shown =
                      [m \in Monitors |-> IF m \in read THEN monitor_status(m) ELSE @[m]]]
    /\ UNCHANGED <<limiterVars, page, monitor, cache, recent, changes>>

\* The page is stored and answered.
Publish(q) ==
    /\ load[q] # None /\ ~Reading(q) /\ Unread(q) = {}
    /\ set(load[q].slug, load[q].view)
    /\ load' = [load EXCEPT ![q] = None]
    /\ UNCHANGED <<limiterVars, page, monitor, changes>>

\* A query fails: the answer is an internal error.
LoadFails(q) ==
    /\ load[q] # None
    /\ load' = [load EXCEPT ![q] = None]
    /\ UNCHANGED <<limiterVars, page, monitor, cache, recent, changes>>

-----------------------------------------------------------------------------
(* What goes on meanwhile.                                                 *)

Changes == changes < MaxChanges /\ changes' = changes + 1

\* Two sites do not have the same slug: the statement fails.
upsert_status_page_config(s, slug, enabled) ==
    /\ Changes
    /\ \A o \in Sites \ {s} : page[o] # None => page[o].slug # slug
    /\ page' = [page EXCEPT ![s] = [slug |-> slug, enabled |-> enabled]]
    /\ UNCHANGED <<limiterVars, monitor, cache, recent, load>>

\* A check is saved, of an active monitor or of one paused after it was claimed.
\* A TCP connection that took longer than the maximum is a success; an HTTP
\* response is one only when the check was claimed with a larger maximum.
SaveCheck(m, result) ==
    /\ Changes
    /\ monitor' = [monitor EXCEPT ![m].last = result]
    /\ UNCHANGED <<limiterVars, page, cache, recent, load>>

\* A monitor is paused or resumed.
SetActive(m, on) ==
    /\ Changes
    /\ monitor' = [monitor EXCEPT ![m].active = on]
    /\ UNCHANGED <<limiterVars, page, cache, recent, load>>

\* A PUT or PATCH gives a monitor another maximum: the last response, if it was
\* a success, is compared with that one from now on.
ChangeMaximum(m, on, result) ==
    /\ Changes
    /\ monitor[m].last \in {"up", "slow"} /\ result \in {"up", "slow"}
    /\ monitor' = [monitor EXCEPT ![m] = [active |-> on, last |-> result]]
    /\ UNCHANGED <<limiterVars, page, cache, recent, load>>

\* The counters of a view after a tick.
Aged(slug, view) ==
    [view EXCEPT
        !.off = IF page[view.site] = [slug |-> slug, enabled |-> TRUE] THEN 0 ELSE @ + 1,
        !.old = [m \in Monitors |->
                    IF view.shown[m] \in {None, monitor_status(m)} THEN 0 ELSE @[m] + 1]]

\* One tick passes for everything that measures time; no handler takes more
\* than LoadMax of them.  What has expired is not looked at any more, so its
\* counters stop.
Tick ==
    /\ \A q \in Requests : load[q] # None => load[q].spent < LoadMax
    /\ load' = [q \in Requests |->
                   IF load[q] = None THEN None
                   ELSE [load[q] EXCEPT !.spent = @ + 1,
                                        !.view = IF @ = None THEN None ELSE Aged(load[q].slug, @)]]
    /\ cache' = [slug \in Slugs |->
                    IF ~Live(slug) THEN cache[slug]
                    ELSE [view |-> Aged(slug, cache[slug].view), age |-> cache[slug].age + 1]]
    /\ LimiterTick
    /\ UNCHANGED <<page, monitor, recent, changes>>

Handler(q) ==
    \/ \E c \in Clients, slug \in Slugs : get_public_status_page(q, c, slug)
    \/ ReadPage(q) \/ Publish(q) \/ LoadFails(q)
    \/ \E kind \in Kinds : ReadMonitors(q, kind)

Next ==
    \/ \E q \in Requests : Handler(q)
    \/ \E s \in Sites, slug \in Slugs, enabled \in BOOLEAN :
          upsert_status_page_config(s, slug, enabled)
    \/ \E m \in Monitors : \E result \in Results : SaveCheck(m, result)
    \/ \E m \in Monitors, on \in BOOLEAN : SetActive(m, on)
    \/ \E m \in Monitors, on \in BOOLEAN : \E result \in Results : ChangeMaximum(m, on, result)
    \/ Tick

Spec == Init /\ [][Next]_vars

-----------------------------------------------------------------------------
(* Properties.                                                             *)

\* Type correctness; the cache holds at most Capacity pages, and orders them
\* by their last use (StatusPageCache).
TypeOK ==
    /\ LimiterTypeOK
    /\ page \in [Sites -> SiteStatusPage \cup {None}]
    /\ monitor \in [Monitors -> [active : BOOLEAN, last : Results \cup {None}]]
    /\ \A slug \in Held : cache[slug].view \in View /\ cache[slug].age \in 0..TTL
    /\ Cardinality(Held) <= Capacity
    /\ \A slug, n \in Held : slug # n => (<<slug, n>> \in recent) # (<<n, slug>> \in recent)
    /\ \A q \in Requests : load[q] # None =>
          /\ load[q].slug \in Slugs /\ load[q].spent \in 0..LoadMax
          /\ load[q].view \in View \cup {None}
    /\ changes \in 0..MaxChanges

\* A page that visitors are shown has been out of date for at most the ticks
\* since its handler began to read: LoadMax and its age in the cache, less than
\* TTL.  So long at most does a page stay visible that was disabled or moved to
\* another slug, or a status that has changed, whatever the order in which
\* handlers that overlap store their pages (get_public_status_page,
\* StatusPageCache, upsert_status_page_config).
PagesAreRecent ==
    \A slug \in Slugs : Live(slug) =>
        /\ cache[slug].view.off <= LoadMax + cache[slug].age
        /\ \A m \in Monitors : cache[slug].view.old[m] <= LoadMax + cache[slug].age

\* A page that visitors are shown says "operational" only when every monitor of
\* its site, whatever its kind and whenever that kind was read, was seen up or
\* paused, and one was up: a monitor that has not been checked yet is not, and
\* none is left out (derive_overall_status, monitor_status, the lists that
\* get_public_status_page reads kind by kind).
OperationalIsDeserved ==
    \A slug \in Slugs :
        LET view == cache[slug].view IN
        Live(slug) /\ derive_overall_status(view.shown) = "operational" =>
            /\ \A m \in Of(view.site) : view.shown[m] \in {"up", "paused"}
            /\ \E m \in Of(view.site) : view.shown[m] = "up"

\* Of the requests accepted at each age, those of the last n ticks.
InLastTicks(f) ==
    LET sum[n \in 0..Window] == IF n = 0 THEN 0 ELSE sum[n - 1] + f[n - 1] IN sum

\* Requests of a key that the last Window ticks accepted.
Recent(c) == InLastTicks(accepted[c])[Window]

\* No Window ticks in a row accept more requests of a key than two windows have
\* room for, less the one that opened the first of them (AuthRateLimiter::check:
\* also when the elapsed windows are dropped).
LimitIsKept == \A c \in Clients : Recent(c) <= 2 * MaxRequests - 1

\* A key is refused only when the last Window ticks accepted its maximum: a
\* window that elapsed does not count any more (AuthRateLimiter::check).
RefusalsAreDeserved == \A c \in refused : Recent(c) >= MaxRequests
=============================================================================
