-------------------------- MODULE RateLimiter_proofs --------------------------
(***************************************************************************)
(* Proofs about RateLimiter for both backends, any number of callers and   *)
(* keys, any limit and any window: the types, and that no request is       *)
(* refused while the budget of its window lasts.                           *)
(***************************************************************************)
EXTENDS RateLimiter, TLAPS

\* Every check that a bucket counts has been let through, up to the limit.
Counted ==
  \A k \in Key : \A w \in WindowIds :
    IF count[k][w] <= Limit THEN admitted[k][w] >= count[k][w] ELSE admitted[k][w] >= Limit

Earned == Counted /\ RefusedOnlyWhenSpent

-----------------------------------------------------------------------------
\* Rounding down keeps the order.
LEMMA DivMonotone ==
  ASSUME NEW d \in Nat \ {0}, NEW a \in Nat, NEW b \in Nat, a <= b
  PROVE  a \div d \in 0 .. b \div d
<1>1. /\ a \div d \in Nat /\ b \div d \in Nat
      /\ a = d * (a \div d) + (a % d) /\ a % d \in 0 .. d - 1
      /\ b = d * (b \div d) + (b % d) /\ b % d \in 0 .. d - 1
  OBVIOUS
<1> DEFINE x == a \div d
           y == b \div d
<1>2. x \in Nat /\ y \in Nat /\ d * x <= b /\ b < d * y + d
  BY <1>1
<1> HIDE DEF x, y
<1>3. d * y + d = d * (y + 1)
  BY <1>2
<1>4. ASSUME y + 1 <= x PROVE FALSE
  <2>1. d * (y + 1) <= d * x
    BY <1>2, <1>4
  <2> QED
    BY <1>2, <1>3, <2>1
<1>5. x <= y
  BY <1>2, <1>4
<1> QED
  BY <1>2, <1>5 DEF x, y

LEMMA WindowTyped ==
  ASSUME NEW t \in 0..MaxTime
  PROVE  WindowId(t) \in WindowIds
<1>1. WindowTicks \in Nat \ {0}
  BY LimiterAssumption DEF WindowTicks
<1> QED
  BY <1>1, DivMonotone, LimiterAssumption DEF WindowId, WindowIds

LEMMA ResetTyped ==
  ASSUME NEW t \in 0..MaxTime
  PROVE  ResetSeconds(t) \in 0..Window
<1>1. WindowTicks \in Nat \ {0} /\ Window \in Nat /\ Resolution \in Nat \ {0} /\ t \in Nat
  BY LimiterAssumption DEF WindowTicks
<1>2. t % WindowTicks \in 0 .. WindowTicks - 1
  BY <1>1
<1> DEFINE left == WindowTicks - (t % WindowTicks)
           q == WindowTicks \div Resolution
<1>3. left \in Nat /\ left <= WindowTicks
  BY <1>1, <1>2
<1>4. left \div Resolution \in 0 .. q
  BY <1>1, <1>3, DivMonotone
<1>5. q = Window
  <2>1. q \in Nat /\ WindowTicks = Resolution * q + (WindowTicks % Resolution)
        /\ WindowTicks % Resolution \in 0 .. Resolution - 1
    BY <1>1
  <2>2. WindowTicks = Resolution * Window
    BY <1>1 DEF WindowTicks
  <2> HIDE DEF q
  <2>3. Resolution * q <= Resolution * Window /\ Resolution * Window < Resolution * (q + 1)
    BY <1>1, <2>1, <2>2
  <2>4. ASSUME Window + 1 <= q PROVE FALSE
    <3>1. Resolution * (Window + 1) <= Resolution * q
      BY <1>1, <2>1, <2>4
    <3> QED
      BY <1>1, <2>1, <2>3, <3>1
  <2>5. ASSUME q + 1 <= Window PROVE FALSE
    <3>1. Resolution * (q + 1) <= Resolution * Window
      BY <1>1, <2>1, <2>5
    <3> QED
      BY <1>1, <2>1, <2>3, <3>1
  <2> QED
    BY <1>1, <2>1, <2>4, <2>5
<1> QED
  BY <1>4, <1>5 DEF ResetSeconds

-----------------------------------------------------------------------------
(* Types.                                                                  *)

LEMMA TypeInit == Init => TypeOK
<1> SUFFICES ASSUME Init PROVE TypeOK
  OBVIOUS
<1>1. Counter \in [Key -> [WindowIds -> Nat]]
  BY DEF Counter
<1>2. 0 \in 0..MaxTime /\ Window \in 0..Window
  BY LimiterAssumption
<1> QED
  BY <1>1, <1>2 DEF Init, TypeOK, NoCheck

LEMMA PurgeTyped ==
  ASSUME TypeOK, NEW w \in WindowIds
  PROVE  /\ Purge(w) \in [Key -> [WindowIds -> Nat]]
         /\ \A k \in Key : Purge(w)[k][w] = count[k][w]
<1>1. count \in [Key -> [WindowIds -> Nat]]
  BY DEF TypeOK
<1>2. w \in Int
  BY DEF WindowIds
<1>3. CASE backend = "memory"
  BY <1>1, <1>2, <1>3 DEF Purge
<1>4. CASE backend # "memory"
  BY <1>1, <1>4 DEF Purge
<1> QED
  BY <1>3, <1>4

LEMMA CallTyped ==
  ASSUME TypeOK, NEW c \in Caller, Checking(c)
  PROVE  check[c].key \in Key /\ check[c].at \in 0..MaxTime /\ WindowId(check[c].at) \in WindowIds
<1>1. check[c].key \in Key /\ check[c].at \in 0..MaxTime
  BY DEF TypeOK, Checking
<1> QED
  BY <1>1, WindowTyped

LEMMA TypeStep == TypeOK /\ [Next]_vars => TypeOK'
<1> SUFFICES ASSUME TypeOK, [Next]_vars PROVE TypeOK'
  OBVIOUS
<1>1. CASE Tick
  <2>1. now' \in 0..MaxTime
    BY <1>1, LimiterAssumption DEF Tick, TypeOK
  <2>2. count' \in [Key -> [WindowIds -> Nat]]
    BY <1>1 DEF Tick, TypeOK
  <2> QED
    BY <1>1, <2>1, <2>2 DEF Tick, TypeOK
<1>2. ASSUME NEW c \in Caller, Count(c) PROVE TypeOK'
  <2> DEFINE k == check[c].key
             w == WindowId(check[c].at)
             n == Purge(w)[k][w] + 1
  <2>1. k \in Key /\ check[c].at \in 0..MaxTime /\ w \in WindowIds
    BY <1>2, CallTyped DEF Count
  <2>2. Purge(w) \in [Key -> [WindowIds -> Nat]] /\ n \in Nat
    BY <2>1, PurgeTyped DEF TypeOK
  <2>3. /\ check' = [check EXCEPT ![c] = NoCheck] /\ now' = now
        /\ count' = [Purge(w) EXCEPT ![k][w] = n]
        /\ expires' = [expires EXCEPT ![k][w] = Expiry]
        /\ \/ admitted' = [admitted EXCEPT ![k][w] = @ + 1] /\ refused' = refused
           \/ refused' = [refused EXCEPT ![k][w] = TRUE] /\ admitted' = admitted
        /\ timely' = timely \/ timely' = [timely EXCEPT ![k][w] = @ + 1]
        /\ reset' = ResetSeconds(check[c].at) /\ backend' = backend
    BY <1>2 DEF Count
  <2> HIDE DEF k, w, n
  <2>4. Expiry \in Nat
    <3>1. WindowTicks \in Nat /\ MaxTime \in Nat
      BY LimiterAssumption DEF WindowTicks
    <3>2. now \in 0..MaxTime
      BY DEF TypeOK
    <3> QED
      BY <3>1, <3>2 DEF Expiry
  <2>5. count' \in [Key -> [WindowIds -> Nat]]
    BY <2>1, <2>2, <2>3
  <2>6. expires' \in [Key -> [WindowIds -> Nat]]
    BY <2>1, <2>3, <2>4 DEF TypeOK
  <2>7. admitted' \in [Key -> [WindowIds -> Nat]] /\ refused' \in [Key -> [WindowIds -> BOOLEAN]]
    <3>1. admitted \in [Key -> [WindowIds -> Nat]] /\ refused \in [Key -> [WindowIds -> BOOLEAN]]
      BY DEF TypeOK
    <3>2. CASE admitted' = [admitted EXCEPT ![k][w] = @ + 1] /\ refused' = refused
      BY <2>1, <3>1, <3>2
    <3>3. CASE refused' = [refused EXCEPT ![k][w] = TRUE] /\ admitted' = admitted
      BY <2>1, <3>1, <3>3
    <3> QED
      BY <2>3, <3>2, <3>3
  <2>10. timely' \in [Key -> [WindowIds -> Nat]] /\ backend' \in Backend
    <3>1. timely \in [Key -> [WindowIds -> Nat]] /\ backend' \in Backend
      BY <2>3 DEF TypeOK
    <3>2. CASE timely' = timely
      BY <3>1, <3>2
    <3>3. CASE timely' = [timely EXCEPT ![k][w] = @ + 1]
      BY <2>1, <3>1, <3>3
    <3> QED
      BY <2>3, <3>1, <3>2, <3>3
  <2>8. check' \in [Caller -> [key : Key \cup {"none"}, at : 0..MaxTime]] /\ now' \in 0..MaxTime
    BY <2>3, LimiterAssumption DEF TypeOK, NoCheck
  <2>9. reset' \in 0..Window
    BY <2>1, <2>3, ResetTyped
  <2> QED
    BY <2>5, <2>6, <2>7, <2>8, <2>9, <2>10 DEF TypeOK
<1>3. ASSUME NEW c \in Caller, NEW k \in Key, ReadClock(c, k) PROVE TypeOK'
  BY <1>3 DEF ReadClock, TypeOK
<1>4. CASE UNCHANGED vars
  BY <1>4 DEF vars, TypeOK
<1> QED
  BY <1>1, <1>2, <1>3, <1>4 DEF Next

\* The limiter keeps to its types; that reset_seconds is never beyond the
\* window is a fact about the integer division in _reset_seconds.
THEOREM LimiterTypeCorrect == Spec => []TypeOK
  BY TypeInit, TypeStep, PTL DEF Spec

-----------------------------------------------------------------------------
(* Refusals.                                                               *)

LEMMA EarnedStep == TypeOK /\ Earned /\ [Next]_vars => Earned'
<1> SUFFICES ASSUME TypeOK, Earned, [Next]_vars PROVE Earned'
  OBVIOUS
<1>0. Limit \in Nat
  BY LimiterAssumption
<1>1. CASE Tick
  <2>1. UNCHANGED <<admitted, refused>>
        /\ \A k \in Key : \A w \in WindowIds : count'[k][w] = 0 \/ count'[k][w] = count[k][w]
    BY <1>1 DEF Tick
  <2>2. \A k \in Key : \A w \in WindowIds : admitted[k][w] \in Nat /\ count[k][w] \in Nat
    BY DEF TypeOK
  <2> QED
    BY <1>0, <2>1, <2>2 DEF Earned, Counted, RefusedOnlyWhenSpent
<1>2. ASSUME NEW c \in Caller, Count(c) PROVE Earned'
  <2> DEFINE k == check[c].key
             w == WindowId(check[c].at)
             n == Purge(w)[k][w] + 1
  <2>1. k \in Key /\ w \in WindowIds
    BY <1>2, CallTyped DEF Count
  <2>2. Purge(w) \in [Key -> [WindowIds -> Nat]] /\ n = count[k][w] + 1
    BY <2>1, PurgeTyped
  <2>3. /\ count' = [Purge(w) EXCEPT ![k][w] = n]
        /\ IF n <= Limit
             THEN admitted' = [admitted EXCEPT ![k][w] = @ + 1] /\ refused' = refused
             ELSE refused' = [refused EXCEPT ![k][w] = TRUE] /\ admitted' = admitted
    BY <1>2 DEF Count, Allowed
  <2>4. \A l \in Key : \A v \in WindowIds : Purge(w)[l][v] = 0 \/ Purge(w)[l][v] = count[l][v]
    BY <2>1 DEF Purge, TypeOK
  <2> HIDE DEF k, w, n
  <2>5. \A l \in Key : \A v \in WindowIds : admitted[l][v] \in Nat /\ count[l][v] \in Nat
    BY DEF TypeOK
  <2>6. ASSUME NEW l \in Key, NEW v \in WindowIds, l # k \/ v # w
        PROVE  /\ count'[l][v] = 0 \/ count'[l][v] = count[l][v]
               /\ admitted'[l][v] = admitted[l][v] /\ refused'[l][v] = refused[l][v]
    BY <2>1, <2>2, <2>3, <2>4, <2>6 DEF TypeOK
  <2>7. /\ count'[k][w] = n
        /\ IF n <= Limit THEN admitted'[k][w] = admitted[k][w] + 1 /\ refused'[k][w] = refused[k][w]
                         ELSE admitted'[k][w] = admitted[k][w]
    BY <2>1, <2>2, <2>3 DEF TypeOK
  <2>8. Counted'
    <3> SUFFICES ASSUME NEW l \in Key, NEW v \in WindowIds
                 PROVE  IF count'[l][v] <= Limit THEN admitted'[l][v] >= count'[l][v]
                                                 ELSE admitted'[l][v] >= Limit
      BY DEF Counted
    <3>1. CASE l # k \/ v # w
      BY <1>0, <2>5, <2>6, <3>1 DEF Earned, Counted
    <3>2. CASE l = k /\ v = w
      BY <1>0, <2>1, <2>2, <2>5, <2>7, <3>2 DEF Earned, Counted
    <3> QED
      BY <3>1, <3>2
  <2>9. RefusedOnlyWhenSpent'
    <3> SUFFICES ASSUME NEW l \in Key, NEW v \in WindowIds, refused'[l][v]
                 PROVE  admitted'[l][v] >= Limit
      BY DEF RefusedOnlyWhenSpent
    <3>1. CASE l # k \/ v # w
      BY <2>6, <3>1 DEF Earned, RefusedOnlyWhenSpent
    <3>2. CASE l = k /\ v = w
      BY <1>0, <2>1, <2>2, <2>5, <2>7, <3>2 DEF Earned, Counted, RefusedOnlyWhenSpent
    <3> QED
      BY <3>1, <3>2
  <2> QED
    BY <2>8, <2>9 DEF Earned
<1>3. ASSUME NEW c \in Caller, NEW k \in Key, ReadClock(c, k) PROVE Earned'
  BY <1>3 DEF ReadClock, Earned, Counted, RefusedOnlyWhenSpent
<1>4. CASE UNCHANGED vars
  BY <1>4 DEF vars, Earned, Counted, RefusedOnlyWhenSpent
<1> QED
  BY <1>1, <1>2, <1>3, <1>4 DEF Next

\* Whatever the delays of the checks, the purges and the expiries, a client is
\* refused only in a window that has let Limit of its requests through.
THEOREM RefusalsAreEarned == Spec => []RefusedOnlyWhenSpent
<1>1. Init => Earned
  BY LimiterAssumption DEF Init, Counter, Earned, Counted, RefusedOnlyWhenSpent
<1>2. Earned => RefusedOnlyWhenSpent
  BY DEF Earned
<1> QED
  BY <1>1, <1>2, LimiterTypeCorrect, EarnedStep, PTL DEF Spec

-----------------------------------------------------------------------------
(* The budget.                                                             *)

\* A check is counted after it has read the clock.
ReadBefore == \A c \in Caller : check[c].at <= now

\* A bucket outlives its window.
Outlives ==
  \A k \in Key : \A w \in WindowIds :
    count[k][w] > 0 => expires[k][w] >= WindowTicks * (w + 1)

\* As long as a window lasts, its bucket counts what was let through in it.
Remembered ==
  \A k \in Key : \A w \in WindowIds :
    WindowId(now) <= w => timely[k][w] <= count[k][w]

Budgeted == ReadBefore /\ Outlives /\ Remembered /\ WithinBudget

\* A window lasts from its first tick to the first of the next.
LEMMA WindowBounds ==
  ASSUME NEW t \in Nat
  PROVE  /\ WindowId(t) \in Nat /\ WindowTicks \in Nat \ {0}
         /\ WindowTicks * WindowId(t) <= t /\ t < WindowTicks * (WindowId(t) + 1)
<1>1. WindowTicks \in Nat \ {0}
  BY LimiterAssumption DEF WindowTicks
<1> DEFINE q == t \div WindowTicks
           r == t % WindowTicks
<1>2. q \in Nat /\ r \in 0 .. WindowTicks - 1 /\ t = WindowTicks * q + r
  BY <1>1
<1> HIDE DEF q, r
<1>3. WindowTicks * (q + 1) = WindowTicks * q + WindowTicks
  BY <1>1, <1>2
<1>4. WindowTicks * q \in Nat
  BY <1>1, <1>2
<1>5. WindowTicks * q <= t /\ t < WindowTicks * (q + 1)
  BY <1>1, <1>2, <1>3, <1>4
<1> QED
  BY <1>1, <1>2, <1>5 DEF q, WindowId

LEMMA ProductMonotone ==
  ASSUME NEW d \in Nat, NEW a \in Nat, NEW b \in Nat, a <= b
  PROVE  d * a <= d * b
  OBVIOUS

LEMMA BucketTyped ==
  ASSUME TypeOK, NEW k \in Key, NEW w \in WindowIds
  PROVE  /\ w \in Nat
         /\ count[k][w] \in Nat /\ timely[k][w] \in Nat /\ expires[k][w] \in Nat
<1>1. w \in Nat
  BY DEF WindowIds
<1>2. /\ count \in [Key -> [WindowIds -> Nat]] /\ timely \in [Key -> [WindowIds -> Nat]]
      /\ expires \in [Key -> [WindowIds -> Nat]]
  BY DEF TypeOK
<1> QED
  BY <1>1, <1>2

LEMMA TickBudget == TypeOK /\ Budgeted /\ Tick => Budgeted'
<1> SUFFICES ASSUME TypeOK, Budgeted, Tick PROVE Budgeted'
  OBVIOUS
<1>1. now \in Nat /\ now' = now + 1 /\ UNCHANGED <<backend, check, expires, timely>>
      /\ count' = [k \in Key |-> [w \in WindowIds |-> IF Expired(k, w) THEN 0 ELSE count[k][w]]]
  BY LimiterAssumption DEF Tick, TypeOK
<1>2. WindowId(now) \in Nat /\ WindowId(now') \in Nat /\ WindowId(now) <= WindowId(now')
  <2>1. WindowTicks \in Nat \ {0} /\ now' \in Nat
    BY <1>1, WindowBounds
  <2>2. now \div WindowTicks \in 0 .. now' \div WindowTicks
    BY <1>1, <2>1, DivMonotone
  <2> QED
    BY <1>1, <2>1, <2>2, WindowBounds DEF WindowId
<1>3. ReadBefore'
  BY <1>1 DEF Budgeted, ReadBefore, TypeOK
<1>4. Outlives'
  <2> SUFFICES ASSUME NEW k \in Key, NEW w \in WindowIds, count'[k][w] > 0
               PROVE  expires'[k][w] >= WindowTicks * (w + 1)
    BY DEF Outlives, WindowIds, WindowTicks
  <2>1. count'[k][w] = 0 \/ count'[k][w] = count[k][w]
    BY <1>1
  <2>2. count[k][w] > 0
    BY <2>1
  <2> QED
    BY <1>1, <2>2 DEF Budgeted, Outlives
<1>5. Remembered'
  <2> SUFFICES ASSUME NEW k \in Key, NEW w \in WindowIds, WindowId(now') <= w
               PROVE  timely'[k][w] <= count'[k][w]
    BY DEF Remembered, WindowIds, WindowTicks, WindowId
  <2>1. w \in Nat /\ count[k][w] \in Nat /\ timely[k][w] \in Nat /\ expires[k][w] \in Nat
    BY BucketTyped
  <2>2. timely[k][w] <= count[k][w]
    BY <1>2, <2>1 DEF Budgeted, Remembered
  <2>3. ASSUME Expired(k, w) PROVE FALSE
    <3>1. expires[k][w] <= now' /\ expires[k][w] >= WindowTicks * (w + 1)
      BY <2>1, <2>3 DEF Expired, Budgeted, Outlives
    <3>2. WindowTicks \in Nat /\ now' \in Nat /\ now' < WindowTicks * (WindowId(now') + 1)
      BY <1>1, WindowBounds
    <3>3. WindowTicks * (WindowId(now') + 1) <= WindowTicks * (w + 1)
      <4>1. WindowId(now') + 1 \in Nat /\ w + 1 \in Nat /\ WindowId(now') + 1 <= w + 1
        BY <1>2, <2>1
      <4> QED
        BY <3>2, <4>1, ProductMonotone
    <3>4. WindowTicks * (WindowId(now') + 1) \in Nat /\ WindowTicks * (w + 1) \in Nat
      BY <1>2, <2>1, <3>2
    <3> QED
      BY <2>1, <3>1, <3>2, <3>3, <3>4
  <2>4. count'[k][w] = count[k][w]
    BY <1>1, <2>3
  <2> QED
    BY <1>1, <2>2, <2>4
<1>6. WithinBudget'
  BY <1>1 DEF Budgeted, WithinBudget, WindowIds, WindowTicks, WindowId
<1> QED
  BY <1>3, <1>4, <1>5, <1>6 DEF Budgeted

LEMMA CountBudget ==
  ASSUME TypeOK, Budgeted, NEW c \in Caller, Count(c)
  PROVE  Budgeted'
<1> DEFINE k == check[c].key
           w == WindowId(check[c].at)
           n == Purge(w)[k][w] + 1
<1>1. k \in Key /\ check[c].at \in Nat /\ check[c].at <= now /\ w \in WindowIds /\ w \in Nat
      /\ now \in Nat
  <2>1. k \in Key /\ check[c].at \in 0..MaxTime /\ w \in WindowIds
    BY CallTyped DEF Count
  <2>2. now \in 0..MaxTime
    BY DEF TypeOK
  <2>3. check[c].at <= now
    BY DEF Budgeted, ReadBefore
  <2> QED
    BY <2>1, <2>2, <2>3, BucketTyped
<1>2. Purge(w) \in [Key -> [WindowIds -> Nat]] /\ n = count[k][w] + 1
  BY <1>1, PurgeTyped
<1>3. /\ check' = [check EXCEPT ![c] = NoCheck] /\ now' = now
      /\ count' = [Purge(w) EXCEPT ![k][w] = n]
      /\ expires' = [expires EXCEPT ![k][w] = now + WindowTicks]
      /\ \/ n <= Limit /\ WindowId(now) = w /\ timely' = [timely EXCEPT ![k][w] = @ + 1]
         \/ timely' = timely
  BY DEF Count, Allowed, Expiry
\* What is dropped is over: the check was made before now.
<1>4. w <= WindowId(now) /\ WindowId(now) \in Nat
  <2>1. check[c].at \div WindowTicks \in 0 .. now \div WindowTicks
    BY <1>1, WindowBounds, DivMonotone
  <2> QED
    BY <1>1, <2>1, WindowBounds DEF WindowId
<1>5. \A l \in Key : \A v \in WindowIds :
        Purge(w)[l][v] = count[l][v] \/ (Purge(w)[l][v] = 0 /\ v < w)
  <2>1. \A v \in WindowIds : v \in Nat
    BY DEF WindowIds
  <2> HIDE DEF w
  <2>2. CASE backend = "memory"
    BY <1>1, <2>1, <2>2 DEF Purge, TypeOK
  <2>3. CASE backend # "memory"
    BY <2>3 DEF Purge
  <2> QED
    BY <2>2, <2>3
<1>6. now + WindowTicks >= WindowTicks * (w + 1)
  <2>1. WindowTicks \in Nat /\ WindowTicks * w <= check[c].at
    BY <1>1, WindowBounds
  <2> HIDE DEF w
  <2>2. WindowTicks * (w + 1) = WindowTicks * w + WindowTicks /\ WindowTicks * w \in Nat
    BY <1>1, <2>1
  <2> QED
    BY <1>1, <2>1, <2>2
<1> HIDE DEF k, w, n
<1>7. ASSUME NEW l \in Key, NEW v \in WindowIds, l # k \/ v # w
      PROVE  /\ count'[l][v] = count[l][v] \/ (count'[l][v] = 0 /\ v < w)
             /\ expires'[l][v] = expires[l][v] /\ timely'[l][v] = timely[l][v]
  BY <1>1, <1>2, <1>3, <1>5, <1>7 DEF TypeOK
<1>8. /\ count'[k][w] = n
      /\ expires'[k][w] = now + WindowTicks
      /\ \/ n <= Limit /\ WindowId(now) = w /\ timely'[k][w] = timely[k][w] + 1
         \/ timely'[k][w] = timely[k][w]
  BY <1>1, <1>2, <1>3 DEF TypeOK
<1>9. ReadBefore'
  BY <1>1, <1>3 DEF Budgeted, ReadBefore, TypeOK, NoCheck
<1>10. Outlives'
  <2> SUFFICES ASSUME NEW l \in Key, NEW v \in WindowIds, count'[l][v] > 0
               PROVE  expires'[l][v] >= WindowTicks * (v + 1)
    BY DEF Outlives, WindowIds, WindowTicks
  <2>1. CASE l = k /\ v = w
    BY <1>6, <1>8, <2>1
  <2>2. CASE l # k \/ v # w
    BY <1>7, <2>2 DEF Budgeted, Outlives
  <2> QED
    BY <2>1, <2>2
<1>11. Remembered'
  <2> SUFFICES ASSUME NEW l \in Key, NEW v \in WindowIds, WindowId(now) <= v
               PROVE  timely'[l][v] <= count'[l][v]
    BY <1>3 DEF Remembered, WindowIds, WindowTicks, WindowId
  <2>1. timely[l][v] <= count[l][v]
    BY DEF Budgeted, Remembered
  <2>2. v \in Nat /\ count[l][v] \in Nat /\ timely[l][v] \in Nat
    BY BucketTyped
  <2>3. CASE l = k /\ v = w
    BY <1>2, <1>8, <2>1, <2>2, <2>3
  <2>4. CASE l # k \/ v # w
    BY <1>1, <1>4, <1>7, <2>1, <2>2, <2>4
  <2> QED
    BY <2>3, <2>4
<1>12. WithinBudget'
  <2> SUFFICES ASSUME NEW l \in Key, NEW v \in WindowIds
               PROVE  timely'[l][v] <= Limit
    BY DEF WithinBudget, WindowIds, WindowTicks, WindowId
  <2>1. timely[l][v] <= Limit
    BY DEF Budgeted, WithinBudget
  <2>2. v \in Nat /\ count[l][v] \in Nat /\ timely[l][v] \in Nat /\ Limit \in Nat
    BY BucketTyped, LimiterAssumption
  <2>3. CASE l = k /\ v = w
    <3>1. WindowId(now) = w => timely[l][v] <= count[l][v]
      BY <1>4, <2>3 DEF Budgeted, Remembered
    <3> QED
      BY <1>2, <1>8, <2>1, <2>2, <2>3, <3>1
  <2>4. CASE l # k \/ v # w
    BY <1>7, <2>1, <2>4
  <2> QED
    BY <2>3, <2>4
<1> QED
  BY <1>9, <1>10, <1>11, <1>12 DEF Budgeted

LEMMA BudgetStep == TypeOK /\ Budgeted /\ [Next]_vars => Budgeted'
<1> SUFFICES ASSUME TypeOK, Budgeted, [Next]_vars PROVE Budgeted'
  OBVIOUS
<1>1. CASE Tick
  BY <1>1, TickBudget
<1>2. ASSUME NEW c \in Caller, Count(c) PROVE Budgeted'
  BY <1>2, CountBudget
<1>3. ASSUME NEW c \in Caller, NEW k \in Key, ReadClock(c, k) PROVE Budgeted'
  <2>1. /\ UNCHANGED <<now, count, expires, timely>>
        /\ check' = [check EXCEPT ![c] = [key |-> k, at |-> now]]
    BY <1>3 DEF ReadClock
  <2>2. ReadBefore'
    <3>1. now \in Int
      BY DEF TypeOK
    <3> QED
      BY <2>1, <3>1 DEF Budgeted, ReadBefore, TypeOK
  <2>3. Outlives' /\ Remembered' /\ WithinBudget'
    BY <2>1 DEF Budgeted, Outlives, Remembered, WithinBudget, WindowIds, WindowTicks, WindowId
  <2> QED
    BY <2>2, <2>3 DEF Budgeted
<1>4. CASE UNCHANGED vars
  BY <1>4 DEF vars, Budgeted, ReadBefore, Outlives, Remembered, WithinBudget,
              WindowIds, WindowTicks, WindowId
<1> QED
  BY <1>1, <1>2, <1>3, <1>4 DEF Next

\* While a window lasts it lets at most Limit requests of a key through, with
\* both limiters, however many threads or replicas check and however late.
THEOREM BudgetIsKept == Spec => []WithinBudget
<1>1. Init => Budgeted
  <2> SUFFICES ASSUME Init PROVE Budgeted
    OBVIOUS
  <2>1. /\ now = 0 /\ check = [c \in Caller |-> NoCheck]
        /\ count = Counter /\ timely = Counter
    BY DEF Init
  <2>2. ReadBefore
    BY <2>1 DEF ReadBefore, NoCheck
  <2>3. Outlives /\ Remembered
    BY <2>1 DEF Outlives, Remembered, Counter
  <2>4. WithinBudget
    BY <2>1, LimiterAssumption DEF WithinBudget, Counter
  <2> QED
    BY <2>2, <2>3, <2>4 DEF Budgeted
<1>2. Budgeted => WithinBudget
  BY DEF Budgeted
<1> QED
  BY <1>1, <1>2, LimiterTypeCorrect, BudgetStep, PTL DEF Spec
=============================================================================
