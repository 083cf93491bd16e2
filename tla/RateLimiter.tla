---------------------------- MODULE RateLimiter ----------------------------
(***************************************************************************)
(* The per-client limit of RequestMiddleware                               *)
(* (src/src/infrastructure/middleware.rs).  check_rate_limit works on one  *)
(* client's entry under its lock, with the time it read just before; a     *)
(* call is one step.  The permit that try_acquire hands out is a temporary *)
(* that is dropped in the same expression, so every call finds burst_size  *)
(* permits.                                                                *)
(***************************************************************************)
EXTENDS Integers

CONSTANTS
    ClientIds,                                      \* the keys of limits: client_id
    requests_per_minute, burst_size, window_size    \* RateLimitConfig

ASSUME RateLimiterAssumption ==
    /\ requests_per_minute \in Nat \ {0}
    /\ burst_size \in Nat \ {0}
    /\ window_size \in Nat \ {0}

VARIABLES
    limits,     \* clients with an entry
    requests,   \* requests counted in the client's window
    elapsed,    \* time since the client's window_start
    ages        \* ticks since the last, the last but one, ... accepted request

limiterVars == <<limits, requests, elapsed, ages>>

(* As many of the latest accepted requests as no window_size may see; an   *)
(* age of window_size stands for any older one, or none.                   *)
Latest == 1 .. 2 * requests_per_minute + 1

LimiterInit ==
    /\ limits = {}
    /\ requests = [c \in ClientIds |-> 0]
    /\ elapsed = [c \in ClientIds |-> 0]
    /\ ages = [c \in ClientIds |-> [i \in Latest |-> window_size]]

(* A request is accepted now.                                              *)
Accepted(c) == [i \in Latest |-> IF i = 1 THEN 0 ELSE ages[c][i - 1]]

(* Mutant: the count starts again when it is full, not when time is up.    *)
CheckResetsWhenFull(c) ==
    LET full == requests[c] >= requests_per_minute
        fresh == c \notin limits \/ full
    IN  /\ limits' = limits \cup {c}
        /\ elapsed' = [elapsed EXCEPT ![c] = IF fresh THEN 0 ELSE @]
        /\ requests' = [requests EXCEPT ![c] = IF fresh THEN 1 ELSE @ + 1]
        /\ ages' = [ages EXCEPT ![c] = Accepted(c)]

(* Mutant: the count is kept when a new window starts.                     *)
CheckKeepsCount(c) ==
    /\ limits' = limits \cup {c}
    /\ elapsed' = [elapsed EXCEPT ![c] =
                     IF c \notin limits \/ @ >= window_size THEN 0 ELSE @]
    /\ IF requests[c] >= requests_per_minute
         THEN UNCHANGED <<requests, ages>>
         ELSE /\ requests' = [requests EXCEPT ![c] = @ + 1]
              /\ ages' = [ages EXCEPT ![c] = Accepted(c)]

(* check_rate_limit: a new entry or a window that is over starts afresh.   *)
CheckRateLimit(c) ==
    LET fresh == c \notin limits \/ elapsed[c] >= window_size
        counted == IF fresh THEN 0 ELSE requests[c]
        granted == counted < requests_per_minute /\ burst_size > 0
    IN  /\ limits' = limits \cup {c}
        /\ elapsed' = [elapsed EXCEPT ![c] = IF fresh THEN 0 ELSE @]
        /\ requests' = [requests EXCEPT ![c] = IF granted THEN counted + 1 ELSE counted]
        /\ ages' = IF granted THEN [ages EXCEPT ![c] = Accepted(c)] ELSE ages

(* cleanup_expired_limits.                                                 *)
CleanupExpiredLimits ==
    LET expired == {c \in limits : elapsed[c] >= window_size} IN
    /\ limits' = limits \ expired
    /\ requests' = [c \in ClientIds |-> IF c \in expired THEN 0 ELSE requests[c]]
    /\ elapsed' = [c \in ClientIds |-> IF c \in expired THEN 0 ELSE elapsed[c]]
    /\ UNCHANGED ages

LimiterTick ==
    /\ elapsed' = [c \in ClientIds |->
                     IF c \in limits /\ elapsed[c] < window_size
                       THEN elapsed[c] + 1 ELSE elapsed[c]]
    /\ ages' = [c \in ClientIds |-> [i \in Latest |->
                  IF ages[c][i] < window_size THEN ages[c][i] + 1 ELSE ages[c][i]]]
    /\ UNCHANGED <<limits, requests>>

LimiterNext == (\E c \in ClientIds : CheckRateLimit(c)) \/ CleanupExpiredLimits \/ LimiterTick

LimiterSpec == LimiterInit /\ [][LimiterNext]_limiterVars

(* Time passes, and the clients keep asking.                               *)
LimiterFairSpec ==
    /\ LimiterSpec
    /\ WF_limiterVars(LimiterTick)
    /\ \A c \in ClientIds : WF_limiterVars(CheckRateLimit(c))

-----------------------------------------------------------------------------
(* Every variable keeps its type.                                          *)
LimiterTypeOK ==
    /\ limits \subseteq ClientIds
    /\ requests \in [ClientIds -> 0 .. requests_per_minute]
    /\ elapsed \in [ClientIds -> 0 .. window_size]
    /\ ages \in [ClientIds -> [Latest -> 0 .. window_size]]

(* Windows are fixed and start with a request, so the end of one and the   *)
(* start of the next may fall into any span of window_size; no span sees   *)
(* more than two windows' worth of requests: of twice the limit and one    *)
(* more that check_rate_limit accepted, the first is out of the span.      *)
TwiceTheLimit == \A c \in ClientIds : ages[c][2 * requests_per_minute + 1] = window_size

(* A client that keeps asking is accepted again and again: every refusal   *)
(* lasts no longer than the window whose count it met.                     *)
ServedAgain == \A c \in ClientIds : []<>(ages[c][1] = 0)
=============================================================================
