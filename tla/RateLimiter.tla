----------------------------- MODULE RateLimiter -----------------------------
(***************************************************************************)
(* The fixed-window rate limiter in front of the API                       *)
(* (infrastructure/security/rate_limit.py, api/middleware.py).  A check    *)
(* reads the wall clock, which names the window, and then counts itself in *)
(* that window; time may pass and other checks may be counted in between.  *)
(*                                                                         *)
(* Backend "memory" is InMemoryRateLimiter, one dictionary for all callers *)
(* of a process; "redis" is RedisRateLimiter, where the dictionary is      *)
(* shared by the replicas and a bucket expires.  Which of them serves is   *)
(* settled when the process starts.  The clock counts ticks of             *)
(* 1/Resolution seconds, and Redis is taken to keep the same time.         *)
(***************************************************************************)
EXTENDS Integers, FiniteSets

CONSTANTS Caller,     \* what may be inside check at once: threads, or replicas
          Key,        \* "key:..." or "ip:..." of a client
          Limit,      \* settings.security.rate_limit_per_minute
          Window,     \* _WINDOW_SECONDS
          Resolution, \* ticks in a second
          Backend,    \* the backends to consider: "memory", "redis"
          MaxDelay,   \* ticks from reading the clock to counting, at most
          MaxTime,    \* bound: ticks in a behaviour
          MaxCount    \* bound: checks of a key that a window is tried with

ASSUME LimiterAssumption ==
  /\ Limit \in Nat \ {0}
  /\ Window \in Nat \ {0}
  /\ Resolution \in Nat \ {0}
  /\ Backend \subseteq {"memory", "redis"}
  /\ MaxDelay \in Nat
  /\ MaxTime \in Nat
  /\ MaxCount \in Nat

VARIABLES backend,  \* the limiter that was built
          now,      \* the clock
          check,    \* check[c]: what the check of caller c read
          count,    \* count[k][w]: the bucket of key k in window w
          expires,  \* expires[k][w]: when Redis drops the bucket
          admitted, \* admitted[k][w]: requests let through, by the window they read
          timely,   \* timely[k][w]: those that were counted before it was over
          refused,  \* refused[k][w]: whether one was refused
          reset     \* reset_seconds of the last decision

vars == <<backend, now, check, count, expires, admitted, timely, refused, reset>>

WindowTicks == Window * Resolution

WindowId(t) == t \div WindowTicks

WindowIds == 0 .. WindowId(MaxTime)

NoCheck == [key |-> "none", at |-> 0]

TypeOK ==
  /\ backend \in Backend
  /\ now \in 0..MaxTime
  /\ check \in [Caller -> [key : Key \cup {"none"}, at : 0..MaxTime]]
  /\ count \in [Key -> [WindowIds -> Nat]]
  /\ expires \in [Key -> [WindowIds -> Nat]]
  /\ admitted \in [Key -> [WindowIds -> Nat]]
  /\ timely \in [Key -> [WindowIds -> Nat]]
  /\ refused \in [Key -> [WindowIds -> BOOLEAN]]
  /\ reset \in 0..Window

Counter == [k \in Key |-> [w \in WindowIds |-> 0]]

Init ==
  /\ backend \in Backend
  /\ now = 0
  /\ check = [c \in Caller |-> NoCheck]
  /\ count = Counter /\ expires = Counter /\ admitted = Counter /\ timely = Counter
  /\ refused = [k \in Key |-> [w \in WindowIds |-> FALSE]]
  /\ reset = Window

-----------------------------------------------------------------------------
Checking(c) == check[c].key # "none"

\* Redis drops a bucket when its time has come.
Expired(k, w) == backend = "redis" /\ count[k][w] > 0 /\ expires[k][w] <= now'

\* Time passes, but not so long that a check under way is later than MaxDelay.
Tick ==
  /\ now < MaxTime
  /\ \A c \in Caller : Checking(c) => now < check[c].at + MaxDelay
  /\ now' = now + 1
  /\ count' = [k \in Key |-> [w \in WindowIds |-> IF Expired(k, w) THEN 0 ELSE count[k][w]]]
  /\ UNCHANGED <<backend, check, expires, admitted, timely, refused, reset>>

ReadClock(c, k) ==
  /\ ~Checking(c)
  /\ count[k][WindowId(now)] < MaxCount
  /\ check' = [check EXCEPT ![c] = [key |-> k, at |-> now]]
  /\ UNCHANGED <<backend, now, count, expires, admitted, timely, refused, reset>>

\* The in-memory limiter drops the windows before the one it counts in.
Purge(w) ==
  IF backend = "memory"
    THEN [k \in Key |-> [v \in WindowIds |-> IF v >= w THEN count[k][v] ELSE 0]]
    ELSE count

\* Mutant: the request that reaches the limit is refused.
AllowedBelow(n) == n < Limit

Allowed(n) == n <= Limit

\* Mutant: ticks for seconds.
ResetTicks(t) == WindowTicks - (t % WindowTicks)

ResetSeconds(t) == (WindowTicks - (t % WindowTicks)) \div Resolution

\* Mutant: the time to live in the wrong unit.
ExpiryShort == now + Window

\* EXPIRE bucket window
Expiry == now + WindowTicks

\* The count goes up whether or not the request is let through; Redis counts
\* and sets the expiry in one transaction.
Count(c) ==
  /\ Checking(c)
  /\ LET k == check[c].key
         w == WindowId(check[c].at)
         n == Purge(w)[k][w] + 1
     IN  /\ count' = [Purge(w) EXCEPT ![k][w] = n]
         /\ expires' = [expires EXCEPT ![k][w] = Expiry]
         /\ IF Allowed(n)
              THEN /\ admitted' = [admitted EXCEPT ![k][w] = @ + 1]
                   /\ timely' = IF WindowId(now) = w
                                  THEN [timely EXCEPT ![k][w] = @ + 1] ELSE timely
                   /\ UNCHANGED refused
              ELSE /\ refused' = [refused EXCEPT ![k][w] = TRUE]
                   /\ UNCHANGED <<admitted, timely>>
  /\ reset' = ResetSeconds(check[c].at)
  /\ check' = [check EXCEPT ![c] = NoCheck]
  /\ UNCHANGED <<backend, now>>

Next == Tick \/ \E c \in Caller : Count(c) \/ \E k \in Key : ReadClock(c, k)

Spec == Init /\ [][Next]_vars

-----------------------------------------------------------------------------
\* No window lets more than Limit requests of a key through before it is over:
\* neither the purges nor the expiries, nor a check that comes late from an
\* earlier window, make it forget one.  (A check that is itself late may find
\* the bucket of its window gone, and is then let through beyond the limit.)
WithinBudget == \A k \in Key : \A w \in WindowIds : timely[k][w] <= Limit

\* Nobody is refused before the budget of the window is spent, by requests of
\* the same key: neither purging, nor expiry, nor the other keys, nor the
\* requests that were refused cost a client any of it.
RefusedOnlyWhenSpent ==
  \A k \in Key : \A w \in WindowIds : refused[k][w] => admitted[k][w] >= Limit
=============================================================================
