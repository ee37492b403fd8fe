---------------------------- MODULE RateLimiter ----------------------------
(***************************************************************************)
(* The fixed-window rate limiter of src/api/rate_limit.rs.  Every key has  *)
(* a window of its own that starts at its first request; the windows that  *)
(* have elapsed are dropped only on every CleanEvery-th request.  A check  *)
(* is atomic: it holds the lock of the map throughout.  Ages are relative  *)
(* and stop at the first value that has elapsed.                           *)
(***************************************************************************)
EXTENDS Naturals, FiniteSets

CONSTANTS
    Clients,      \* keys: a bucket and an address
    MaxRequests,  \* max_requests
    Window,       \* window, in ticks
    CleanEvery,   \* 256 in the code
    None

\* AuthRateLimitEntry.
LimitEntry == [age : 0..Window, count : 0..MaxRequests]

ASSUME LimiterAssumption ==
    /\ MaxRequests \in Nat \ {0}
    /\ Window \in Nat \ {0}
    /\ CleanEvery \in Nat \ {0}
    /\ None \notin LimitEntry

VARIABLES
    entries,          \* per key: its window, or None
    request_counter,  \* requests so far, modulo CleanEvery
    accepted,         \* history: per key, the requests accepted at each age
    refused           \* history: keys refused since the last tick

limiterVars == <<entries, request_counter, accepted, refused>>

Opened == [age |-> 0, count |-> 0]

LimiterTypeOK ==
    /\ entries \in [Clients -> LimitEntry \cup {None}]
    /\ request_counter \in 0..CleanEvery - 1
    /\ accepted \in [Clients -> [0..Window - 1 -> Nat]]
    /\ refused \subseteq Clients

LimiterInit ==
    /\ entries = [c \in Clients |-> None]
    /\ request_counter = 0
    /\ accepted = [c \in Clients |-> [a \in 0..Window - 1 |-> 0]]
    /\ refused = {}

\* Mutation of Retained: the windows that still count are dropped.
DroppedLive(c) == entries[c] # None /\ entries[c].age >= Window

\* retain, when the counter says so.
Retained(c) == entries[c] # None /\ entries[c].age < Window

Cleaned == [c \in Clients |-> IF request_counter = 0 /\ ~Retained(c) THEN None ELSE entries[c]]

\* Mutation of Current: a window that has elapsed goes on.
CurrentForever(entry) == IF entry = None THEN Opened ELSE entry

\* or_insert_with, and the restart of a window that has elapsed.
Current(entry) == IF entry = None \/ entry.age >= Window THEN Opened ELSE entry

\* The window that a request of c finds.
Found(c) == Current(Cleaned[c])

Allows(c) == Found(c).count < MaxRequests

check(c) ==
    /\ request_counter' = (request_counter + 1) % CleanEvery
    /\ entries' = [Cleaned EXCEPT ![c] =
                      IF Allows(c) THEN [Found(c) EXCEPT !.count = @ + 1] ELSE Found(c)]
    /\ accepted' = IF Allows(c) THEN [accepted EXCEPT ![c][0] = @ + 1] ELSE accepted
    /\ refused' = IF Allows(c) THEN refused ELSE refused \cup {c}

LimiterTick ==
    /\ entries' = [c \in Clients |->
                      IF entries[c] = None \/ entries[c].age = Window THEN entries[c]
                      ELSE [entries[c] EXCEPT !.age = @ + 1]]
    /\ accepted' = [c \in Clients |->
                       [a \in 0..Window - 1 |-> IF a = 0 THEN 0 ELSE accepted[c][a - 1]]]
    /\ refused' = {}
    /\ UNCHANGED request_counter
=============================================================================
