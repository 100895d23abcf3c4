---------------------------- MODULE PeopleProofs ----------------------------
(***************************************************************************)
(* What holds of the rate limiter and of the super admin endpoints for any *)
(* number of addresses, requests, users and changes: no burst and no early *)
(* refusal, a log that misses nothing, and a super admin who remains as    *)
(* long as demotions do not overlap. (Accounts: see AccountsProofs.)       *)
(***************************************************************************)
EXTENDS People, FiniteSetTheorems, SequenceTheorems, TLAPS

\* Cardinality, seen through an instance, is Cardinality.
LEMMA AdminCard == \A S : Admin!Cardinality(S) = Cardinality(S)
BY DEF Admin!Cardinality, Cardinality

----------------------------------------------------------------------------
(* The rate limiter.                                                       *)

\* The instants of a log are in order and none is yet to come.
Sorted(log, t) ==
    /\ \A i, j \in DOMAIN log : i <= j => log[i] <= log[j]
    /\ \A i \in DOMAIN log : log[i] <= t

Spaced(log) ==
    \A i, j \in DOMAIN log : j = i + 2 * maxReq => log[j] > log[i] + window

\* How many of n requests of a window were let in.
LetIn(n) == IF n <= maxReq THEN n ELSE maxReq

\* The requests let in by the open window are the last ones, from the instant
\* it was opened, and as many before as a window admits are out of its reach.
\* Without a window they are out of reach already.
Covered(log, n, reset, t) ==
    /\ n # 0 =>
        /\ Len(log) + 1 - LetIn(n) \in DOMAIN log
        /\ reset = log[Len(log) + 1 - LetIn(n)] + window
        /\ \A i \in DOMAIN log :
            i + maxReq = Len(log) + 1 - LetIn(n) =>
                log[i] + window < log[Len(log) + 1 - LetIn(n)]
    /\ n = 0 =>
        \A i \in DOMAIN log : i + maxReq = Len(log) + 1 => log[i] + window < t

\* The table of one address and what was let in by it.
Sound(ip) ==
    /\ ipRequests[ip] \in Nat /\ served[ip] \in 0..MaxServed
    /\ ipResets[ip] \in 0..(MaxTime + window)
    /\ admitted[ip] \in Seq(Limiter!Instants)
    /\ ipRequests[ip] = 0 <=> ipResets[ip] = 0
    /\ ipRequests[ip] <= served[ip]
    /\ Spaced(admitted[ip])
    /\ Sorted(admitted[ip], now)
    /\ Covered(admitted[ip], ipRequests[ip], ipResets[ip], now)

\* Every address has its entries.
Shaped ==
    /\ now \in Limiter!Instants
    /\ ipRequests = [ip \in Addresses |-> ipRequests[ip]]
    /\ ipResets = [ip \in Addresses |-> ipResets[ip]]
    /\ admitted = [ip \in Addresses |-> admitted[ip]]
    /\ served = [ip \in Addresses |-> served[ip]]

TableInv == Shaped /\ \A ip \in Addresses : Sound(ip)

----------------------------------------------------------------------------

\* What Append does to a log.
LEMMA Appended ==
    ASSUME Limiter!RateLimiterAssumption, NEW log \in Seq(Limiter!Instants),
        NEW t \in Limiter!Instants
    PROVE  /\ Append(log, t) \in Seq(Limiter!Instants)
           /\ Len(Append(log, t)) = Len(log) + 1
           /\ DOMAIN log = 1..Len(log)
           /\ DOMAIN Append(log, t) = 1..(Len(log) + 1)
           /\ \A i \in 1..Len(log) : Append(log, t)[i] = log[i]
           /\ Append(log, t)[Len(log) + 1] = t
           /\ Len(log) \in Nat
           /\ \A i \in 1..Len(log) : log[i] \in Nat
           /\ t \in Nat
<1>1. Limiter!Instants \subseteq Nat
    BY DEF Limiter!Instants, Limiter!RateLimiterAssumption
<1>2. DOMAIN log = 1..Len(log) /\ Len(log) \in Nat
      /\ \A i \in 1..Len(log) : log[i] \in Limiter!Instants
    BY LenProperties, ElementOfSeq
<1>3. DOMAIN Append(log, t) = 1..Len(Append(log, t))
    BY AppendProperties, LenProperties
<1>4. /\ Append(log, t) \in Seq(Limiter!Instants) /\ Len(Append(log, t)) = Len(log) + 1
      /\ \A i \in 1..Len(log) : Append(log, t)[i] = log[i]
      /\ Append(log, t)[Len(log) + 1] = t
    BY AppendProperties
<1>5. t \in Nat /\ \A i \in 1..Len(log) : log[i] \in Nat
    BY <1>1, <1>2
<1> HIDE DEF Limiter!Instants
<1> QED BY <1>2, <1>3, <1>4, <1>5

\* A request at t comes after all those that were let in before.
LEMMA SortedStays ==
    ASSUME Limiter!RateLimiterAssumption, NEW log \in Seq(Limiter!Instants),
        NEW t \in Limiter!Instants,
           Sorted(log, t)
    PROVE  Sorted(Append(log, t), t)
<1> DEFINE next == Append(log, t)
<1>1. ASSUME NEW i \in DOMAIN next PROVE next[i] <= t
    <2>1. CASE i = Len(log) + 1
        BY <2>1, Appended
    <2>2. CASE i # Len(log) + 1
        BY <2>2, Appended DEF Sorted
    <2> QED BY <2>1, <2>2
<1>2. ASSUME NEW i \in DOMAIN next, NEW j \in DOMAIN next, i <= j
      PROVE  next[i] <= next[j]
    <2>1. CASE j = Len(log) + 1
        BY <1>1, <2>1, Appended
    <2>2. CASE j # Len(log) + 1
        <3>1. i \in 1..Len(log) /\ j \in 1..Len(log)
            BY <1>2, <2>2, Appended
        <3>2. next[i] = log[i] /\ next[j] = log[j]
            BY <3>1, Appended
        <3> QED BY <1>2, <3>1, <3>2, Appended DEF Sorted
    <2> QED BY <2>1, <2>2
<1> QED BY <1>1, <1>2 DEF Sorted

\* The log stays spaced if a request is let in out of reach of the one
\* 2 * maxReq before it.
LEMMA SpacedStays ==
    ASSUME Limiter!RateLimiterAssumption, NEW log \in Seq(Limiter!Instants),
        NEW t \in Limiter!Instants,
           Spaced(log),
           \A i \in DOMAIN log :
                Len(log) + 1 = i + 2 * maxReq => log[i] + window < t
    PROVE  Spaced(Append(log, t))
<1> DEFINE next == Append(log, t)
<1> SUFFICES ASSUME NEW i \in DOMAIN next, NEW j \in DOMAIN next,
                    j = i + 2 * maxReq
             PROVE  next[j] > next[i] + window
    BY DEF Spaced
<1>0. maxReq \in Nat \ {0} /\ window \in Nat
    BY DEF Limiter!RateLimiterAssumption
<1>1. i \in 1..Len(log)
    BY <1>0, Appended
<1>2. next[i] = log[i]
    BY <1>1, Appended
<1>3. CASE j = Len(log) + 1
    <2>1. log[i] + window < t
        BY <1>1, <1>3, Appended
    <2>2. next[j] = t
        BY <1>3, Appended
    <2> QED BY <1>0, <1>1, <1>2, <2>1, <2>2, Appended
<1>4. CASE j # Len(log) + 1
    <2>1. j \in 1..Len(log)
        BY <1>0, <1>4, Appended
    <2>2. next[j] = log[j]
        BY <2>1, Appended
    <2> QED BY <1>1, <1>2, <2>1, <2>2, Appended DEF Spaced
<1> QED BY <1>3, <1>4

\* A window that is over, or was never opened, leaves the requests let in by
\* the one before it out of reach.
LEMMA OutOfReach ==
    ASSUME Limiter!RateLimiterAssumption, NEW log \in Seq(Limiter!Instants),
        NEW t \in Limiter!Instants,
           NEW n \in Nat, NEW reset \in Nat, Sorted(log, t),
           Covered(log, n, reset, t), t > reset,
           NEW i \in DOMAIN log, i + maxReq <= Len(log) + 1
    PROVE  log[i] + window < t
<1>0. maxReq \in Nat \ {0} /\ window \in Nat
    BY DEF Limiter!RateLimiterAssumption
<1>1. CASE n = 0
    <2> DEFINE k == Len(log) + 1 - maxReq
    <2>1. k \in DOMAIN log /\ i <= k /\ k + maxReq = Len(log) + 1
        BY <1>0, Appended
    <2> HIDE DEF k
    <2>2. log[k] + window < t
        BY <1>1, <2>1 DEF Covered
    <2>3. log[i] <= log[k]
        BY <2>1 DEF Sorted
    <2>4. log[i] \in Nat /\ log[k] \in Nat /\ t \in Nat
        BY <2>1, Appended
    <2> QED BY <1>0, <2>2, <2>3, <2>4
<1>2. CASE n # 0
    <2> DEFINE k == Len(log) + 1 - LetIn(n)
    <2>1. k \in DOMAIN log /\ reset = log[k] + window
        BY <1>2 DEF Covered
    <2>2. i <= k
        BY <1>0, <2>1, Appended DEF LetIn
    <2> HIDE DEF k
    <2>3. log[i] <= log[k]
        BY <2>1, <2>2 DEF Sorted
    <2> QED BY <1>0, <2>1, <2>3, Appended
<1> QED BY <1>1, <1>2

\* Opening a window.
LEMMA OpeningKeeps ==
    ASSUME Limiter!RateLimiterAssumption, NEW log \in Seq(Limiter!Instants),
        NEW t \in Limiter!Instants,
           NEW n \in Nat, NEW reset \in Nat, Sorted(log, t), Spaced(log),
           Covered(log, n, reset, t), t > reset
    PROVE  Spaced(Append(log, t)) /\ Covered(Append(log, t), 1, t + window, t)
<1>0. maxReq \in Nat \ {0} /\ window \in Nat
    BY DEF Limiter!RateLimiterAssumption
<1>1. Spaced(Append(log, t))
    <2>1. ASSUME NEW i \in DOMAIN log, Len(log) + 1 = i + 2 * maxReq
          PROVE  log[i] + window < t
        <3>1. i + maxReq <= Len(log) + 1
            BY <1>0, <2>1, Appended
        <3> QED BY <3>1, OutOfReach
    <2> QED BY <2>1, SpacedStays
<1>2. LetIn(1) = 1
    BY <1>0 DEF LetIn
<1> DEFINE next == Append(log, t)
<1>3. Len(next) + 1 - 1 = Len(log) + 1 /\ Len(next) = Len(log) + 1
    BY Appended
<1>4. Len(log) + 1 \in DOMAIN next /\ next[Len(log) + 1] = t
    BY Appended
<1>5. ASSUME NEW i \in DOMAIN next, i + maxReq = Len(log) + 1
      PROVE  next[i] + window < t
    <2>1. i \in 1..Len(log)
        BY <1>0, <1>5, Appended
    <2>2. log[i] + window < t
        BY <1>5, <2>1, OutOfReach, Appended
    <2> QED BY <2>1, <2>2, Appended
<1> HIDE DEF next
<1>6. Covered(next, 1, t + window, t)
    BY <1>2, <1>3, <1>4, <1>5 DEF Covered
<1> QED BY <1>1, <1>6 DEF next

\* A further request within the window that is let in.
LEMMA CountingKeeps ==
    ASSUME Limiter!RateLimiterAssumption, NEW log \in Seq(Limiter!Instants),
        NEW t \in Limiter!Instants,
           NEW n \in Nat, NEW reset \in Nat, Sorted(log, t), Spaced(log),
           Covered(log, n, reset, t), n # 0, n + 1 <= maxReq
    PROVE  Spaced(Append(log, t)) /\ Covered(Append(log, t), n + 1, reset, t)
<1>0. maxReq \in Nat \ {0} /\ window \in Nat
    BY DEF Limiter!RateLimiterAssumption
<1> DEFINE k == Len(log) + 1 - n
           next == Append(log, t)
<1>1. LetIn(n) = n /\ LetIn(n + 1) = n + 1
    BY <1>0 DEF LetIn
<1>2. /\ k \in DOMAIN log /\ reset = log[k] + window
      /\ \A i \in DOMAIN log : i + maxReq = k => log[i] + window < log[k]
    BY <1>1 DEF Covered
<1>3. Len(next) + 1 - (n + 1) = k /\ k \in DOMAIN next /\ next[k] = log[k]
    BY <1>2, Appended
<1>4. Spaced(next)
    <2>1. ASSUME NEW i \in DOMAIN log, Len(log) + 1 = i + 2 * maxReq
          PROVE  log[i] + window < t
        <3> DEFINE m == k - maxReq
        <3>0. i \in Nat /\ 1 <= i /\ k \in Nat /\ k <= Len(log) /\ Len(log) \in Nat
            BY <1>2, Appended
        <3>1. i <= m /\ m \in DOMAIN log /\ m + maxReq = k
            <4>1. i <= m /\ m + maxReq = k /\ m <= k /\ m \in Int
                BY <1>0, <2>1, <3>0
            <4> QED BY <3>0, <4>1, Appended
        <3> HIDE DEF k, m, next
        <3>2. log[i] <= log[m] /\ log[m] + window < log[k] /\ log[k] <= t
            BY <1>2, <3>1 DEF Sorted
        <3>3. log[i] \in Nat /\ log[m] \in Nat /\ log[k] \in Nat /\ t \in Nat
            BY <1>2, <3>1, Appended
        <3> QED BY <1>0, <3>2, <3>3
    <2> QED BY <2>1, SpacedStays
<1>5. ASSUME NEW i \in DOMAIN next, i + maxReq = k
      PROVE  next[i] + window < next[k]
    <2>1. i \in 1..Len(log)
        BY <1>0, <1>2, <1>5, Appended
    <2> HIDE DEF k
    <2>2. log[i] + window < log[k] /\ next[i] = log[i]
        BY <1>2, <1>5, <2>1, Appended
    <2> QED BY <1>3, <2>2
<1>6. Covered(next, n + 1, reset, t)
    <2> HIDE DEF k, next
    <2> QED BY <1>1, <1>2, <1>3, <1>5 DEF Covered
<1> QED BY <1>4, <1>6

\* A further request within the window that is refused: the window let in all
\* it admits.
LEMMA RefusalKeeps ==
    ASSUME Limiter!RateLimiterAssumption, NEW log \in Seq(Limiter!Instants),
        NEW t \in Limiter!Instants,
           NEW n \in Nat, NEW reset \in Nat,
           Covered(log, n, reset, t), n # 0, ~(n + 1 <= maxReq), t <= reset
    PROVE  /\ Covered(log, n + 1, reset, t)
           /\ \E i \in DOMAIN log : /\ Len(log) = i + maxReq - 1
                                    /\ t <= log[i] + window
<1>0. maxReq \in Nat \ {0} /\ window \in Nat
    BY DEF Limiter!RateLimiterAssumption
<1>1. LetIn(n) = maxReq /\ LetIn(n + 1) = maxReq
    BY <1>0 DEF LetIn
<1>2. Covered(log, n + 1, reset, t)
    BY <1>1 DEF Covered
<1> DEFINE k == Len(log) + 1 - maxReq
<1>3. k \in DOMAIN log /\ reset = log[k] + window
    BY <1>1 DEF Covered
<1>4. Len(log) = k + maxReq - 1
    BY <1>0, Appended
<1> HIDE DEF k
<1> QED BY <1>2, <1>3, <1>4

----------------------------------------------------------------------------

\* No window is open and no request was made.
LEMMA TableInit == ASSUME Limiter!RateLimiterAssumption, Limiter!Init
    PROVE TableInv
<1> USE DEF Limiter!RateLimiterAssumption
<1>1. Shaped
    <2>1. now \in Limiter!Instants
        BY DEF Limiter!Init, Limiter!Instants
    <2> QED BY <2>1 DEF Limiter!Init, Shaped
<1>2. ASSUME NEW ip \in Addresses PROVE Sound(ip)
    <2>1. admitted[ip] = <<>> /\ ipRequests[ip] = 0
          /\ served[ip] = 0 /\ ipResets[ip] = 0
        BY DEF Limiter!Init
    <2>2. DOMAIN <<>> = {} /\ <<>> \in Seq(Limiter!Instants)
        OBVIOUS
    <2>3. Spaced(<<>>) /\ Sorted(<<>>, now) /\ Covered(<<>>, 0, 0, now)
        BY <2>2 DEF Spaced, Sorted, Covered
    <2>4. 0 \in 0..MaxServed /\ 0 \in 0..(MaxTime + window)
        OBVIOUS
    <2> QED BY <2>1, <2>2, <2>3, <2>4 DEF Sound
<1> QED BY <1>1, <1>2 DEF TableInv

\* That is what the run checks, and more.
LEMMA TableSound == ASSUME Limiter!RateLimiterAssumption, TableInv
    PROVE Limiter!LimiterInv
<1>1. ASSUME NEW ip \in Addresses
      PROVE  /\ ipRequests[ip] \in 0..MaxServed /\ served[ip] \in 0..MaxServed
             /\ ipResets[ip] \in 0..(MaxTime + window)
             /\ admitted[ip] \in Seq(Limiter!Instants)
             /\ ipRequests[ip] = 0 <=> ipResets[ip] = 0
    <2>1. /\ ipRequests[ip] \in Nat /\ served[ip] \in 0..MaxServed
          /\ ipRequests[ip] <= served[ip]
        BY DEF TableInv, Sound
    <2>2. ipRequests[ip] \in 0..MaxServed
        BY <2>1 DEF Limiter!RateLimiterAssumption
    <2> QED BY <2>1, <2>2 DEF TableInv, Sound
<1>2. Limiter!TypeOK
    BY <1>1 DEF TableInv, Shaped, Limiter!TypeOK
<1>3. Limiter!NoBurst
    BY DEF TableInv, Sound, Limiter!NoBurst, Spaced
<1> QED BY <1>2, <1>3 DEF Limiter!LimiterInv

\* A request of one address, which opens a window, is let in or is refused.
LEMMA AllowStep ==
    ASSUME Limiter!RateLimiterAssumption, TableInv, NEW ip \in Addresses,
        Limiter!Allow(ip)
    PROVE  /\ TableInv'
           /\ admitted'[ip] = admitted[ip] => Limiter!HadItsShare(ip)
<1>0. Shaped /\ \A a \in Addresses : Sound(a)
    BY DEF TableInv
<1>a. maxReq \in Nat \ {0} /\ window \in Nat /\ MaxTime \in Nat /\ MaxServed \in Nat
    BY DEF Limiter!RateLimiterAssumption
<1>1. now' = now /\ now \in Limiter!Instants /\ now \in Nat
    BY <1>0, <1>a DEF Limiter!Allow, Shaped, Limiter!Instants
<1>2. served' = [served EXCEPT ![ip] = @ + 1] /\ served[ip] < MaxServed
    BY DEF Limiter!Allow
<1>3. served'[ip] = served[ip] + 1 /\ served'[ip] \in 0..MaxServed
    BY <1>0, <1>a, <1>2 DEF Shaped, Sound
<1>4. ASSUME NEW a \in Addresses, a # ip PROVE Sound(a)'
    <2>1. /\ ipRequests'[a] = ipRequests[a] /\ ipResets'[a] = ipResets[a]
          /\ admitted'[a] = admitted[a] /\ served'[a] = served[a]
        BY <1>0, <1>4 DEF Shaped, Limiter!Allow, Limiter!OpenWindow,
            Limiter!CountRequest, Limiter!Opened, Limiter!Admit
    <2> QED BY <1>0, <1>1, <2>1 DEF Sound
<1>5. CASE Limiter!OpenWindow(ip)
    <2>1. /\ ipRequests'[ip] = 1 /\ ipResets'[ip] = now + window
          /\ admitted'[ip] = Append(admitted[ip], now)
        BY <1>0, <1>5 DEF Shaped, Limiter!OpenWindow, Limiter!Opened,
            Limiter!Admit
    <2>2. now > ipResets[ip]
        BY <1>5 DEF Limiter!OpenWindow, Limiter!Elapsed
    <2>3. Sorted(Append(admitted[ip], now), now)
        BY <1>0, <1>1, SortedStays DEF Sound
    <2>4. /\ Spaced(Append(admitted[ip], now))
          /\ Covered(Append(admitted[ip], now), 1, now + window, now)
        BY <1>0, <1>1, <2>2, OpeningKeeps DEF Sound
    <2>5. Append(admitted[ip], now) \in Seq(Limiter!Instants)
          /\ Len(Append(admitted[ip], now)) = Len(admitted[ip]) + 1
        BY <1>0, <1>1, Appended DEF Sound
    <2>6. /\ now + window \in 0..(MaxTime + window) /\ now + window # 0
          /\ 1 <= served[ip] + 1
        BY <1>0, <1>1, <1>a DEF Limiter!Instants, Sound
    <2>7. Sound(ip)'
        BY <1>1, <1>3, <2>1, <2>3, <2>4, <2>5, <2>6 DEF Sound
    <2>8. Shaped'
        BY <1>0, <1>1, <1>2, <1>5 DEF Shaped, Limiter!OpenWindow,
            Limiter!Opened, Limiter!Admit
    <2>9. admitted'[ip] # admitted[ip]
        BY <2>1, <2>5, <1>0, Appended DEF Sound
    <2> QED BY <1>4, <2>7, <2>8, <2>9 DEF TableInv
<1>6. CASE Limiter!CountRequest(ip)
    <2>1. /\ ipRequests'[ip] = ipRequests[ip] + 1 /\ ipResets'[ip] = ipResets[ip]
        BY <1>0, <1>6 DEF Shaped, Limiter!CountRequest
    <2>2. now <= ipResets[ip]
        BY <1>0, <1>1, <1>6 DEF Limiter!CountRequest, Limiter!Elapsed, Sound
    <2>3. ipRequests[ip] # 0 /\ ipRequests[ip] \in Nat /\ ipResets[ip] \in Nat
        BY <1>0, <1>1, <2>2, <1>a DEF Sound, Limiter!Instants
    <2>4. ipRequests[ip] + 1 <= served[ip] + 1
        BY <1>0 DEF Sound
    <2>5. CASE ipRequests[ip] + 1 <= maxReq
        <3>1. admitted' = [admitted EXCEPT ![ip] = Append(@, now)]
            BY <1>6, <2>1, <2>5 DEF Limiter!CountRequest, Limiter!Admit
        <3>2. admitted'[ip] = Append(admitted[ip], now)
            BY <1>0, <3>1 DEF Shaped
        <3>3. Sorted(Append(admitted[ip], now), now)
            BY <1>0, <1>1, SortedStays DEF Sound
        <3>4. /\ Spaced(Append(admitted[ip], now))
              /\ Covered(Append(admitted[ip], now), ipRequests[ip] + 1,
                         ipResets[ip], now)
            BY <1>0, <1>1, <2>3, <2>5, CountingKeeps DEF Sound
        <3>5. Append(admitted[ip], now) \in Seq(Limiter!Instants)
              /\ Len(Append(admitted[ip], now)) = Len(admitted[ip]) + 1
              /\ Len(admitted[ip]) \in Nat
            BY <1>0, <1>1, Appended DEF Sound
        <3>6. Sound(ip)'
            BY <1>0, <1>1, <1>3, <2>1, <2>3, <2>4, <3>2, <3>3, <3>4, <3>5
                DEF Sound
        <3>7. Shaped'
            BY <1>0, <1>1, <1>2, <1>6, <3>1 DEF Shaped, Limiter!CountRequest
        <3>8. admitted'[ip] # admitted[ip]
            BY <3>2, <3>5
        <3> QED BY <1>4, <3>6, <3>7, <3>8 DEF TableInv
    <2>6. CASE ~(ipRequests[ip] + 1 <= maxReq)
        <3>1. admitted' = admitted
            BY <1>6, <2>1, <2>6 DEF Limiter!CountRequest
        <3>2. /\ Covered(admitted[ip], ipRequests[ip] + 1, ipResets[ip], now)
              /\ Limiter!HadItsShare(ip)
            BY <1>0, <1>1, <2>2, <2>3, <2>6, RefusalKeeps DEF Sound,
                Limiter!HadItsShare
        <3>3. Sound(ip)'
            BY <1>0, <1>1, <1>3, <2>1, <2>3, <2>4, <3>1, <3>2 DEF Sound
        <3>4. Shaped'
            BY <1>0, <1>1, <1>2, <1>6, <3>1 DEF Shaped, Limiter!CountRequest
        <3> QED BY <1>4, <3>2, <3>3, <3>4 DEF TableInv
    <2> QED BY <2>5, <2>6
<1> QED BY <1>5, <1>6 DEF Limiter!Allow

\* What is dropped is over, and so out of reach.
LEMMA CleanupStep ==
    ASSUME Limiter!RateLimiterAssumption, TableInv, Limiter!cleanup
    PROVE  TableInv'
<1>0. Shaped /\ \A a \in Addresses : Sound(a)
    BY DEF TableInv
<1>a. maxReq \in Nat \ {0} /\ window \in Nat /\ MaxTime \in Nat /\ MaxServed \in Nat
    BY DEF Limiter!RateLimiterAssumption
<1>1. UNCHANGED <<now, admitted, served>>
    BY DEF Limiter!cleanup
<1>2. Shaped'
    BY <1>0, <1>1 DEF Shaped, Limiter!cleanup, Limiter!Kept
<1>3. ASSUME NEW ip \in Addresses PROVE Sound(ip)'
    <2>1. CASE now > ipResets[ip]
        <3>1. ipRequests'[ip] = 0 /\ ipResets'[ip] = 0
            BY <2>1 DEF Limiter!cleanup, Limiter!Kept, Limiter!Over,
                Limiter!Elapsed
        <3>2. ASSUME NEW i \in DOMAIN admitted[ip],
                     i + maxReq = Len(admitted[ip]) + 1
              PROVE  admitted[ip][i] + window < now
            <4>1. i + maxReq <= Len(admitted[ip]) + 1
                BY <1>0, <3>2, Appended DEF Sound, Shaped
            <4> QED BY <1>0, <1>a, <2>1, <4>1, OutOfReach DEF Sound, Shaped
        <3>3. Covered(admitted[ip], 0, 0, now)
            BY <3>2 DEF Covered
        <3>4. 0 <= served[ip] /\ 0 \in 0..(MaxTime + window)
            BY <1>0, <1>a DEF Sound
        <3> QED BY <1>0, <1>1, <3>1, <3>3, <3>4 DEF Sound
    <2>2. CASE ~(now > ipResets[ip])
        <3>1. ipRequests'[ip] = ipRequests[ip] /\ ipResets'[ip] = ipResets[ip]
            BY <2>2 DEF Limiter!cleanup, Limiter!Kept, Limiter!Over,
                Limiter!Elapsed
        <3> QED BY <1>0, <1>1, <3>1 DEF Sound
    <2> QED BY <2>1, <2>2
<1> QED BY <1>2, <1>3 DEF TableInv

\* Time only takes earlier requests further out of reach.
LEMMA TickStep ==
    ASSUME Limiter!RateLimiterAssumption, TableInv, Limiter!Tick
    PROVE  TableInv'
<1>0. Shaped /\ \A a \in Addresses : Sound(a)
    BY DEF TableInv
<1>1. /\ now' = now + 1 /\ now' \in Limiter!Instants /\ now \in Nat /\ window \in Nat
      /\ UNCHANGED <<ipRequests, ipResets, admitted, served>>
    BY <1>0 DEF Limiter!Tick, Shaped, Limiter!Instants,
        Limiter!RateLimiterAssumption
<1>2. ASSUME NEW ip \in Addresses PROVE Sound(ip)'
    <2>1. \A i \in DOMAIN admitted[ip] : admitted[ip][i] \in Nat
        BY <1>0, <1>1, Appended DEF Sound, Shaped
    <2>2. Sorted(admitted[ip], now')
        <3>1. Sorted(admitted[ip], now)
            BY <1>0 DEF Sound
        <3> QED BY <1>1, <2>1, <3>1 DEF Sorted
    <2>3. Covered(admitted[ip], ipRequests[ip], ipResets[ip], now')
        <3>1. Covered(admitted[ip], ipRequests[ip], ipResets[ip], now)
            BY <1>0 DEF Sound
        <3> QED BY <1>1, <2>1, <3>1 DEF Covered
    <2> QED BY <1>0, <1>1, <2>2, <2>3 DEF Sound
<1>3. Shaped'
    BY <1>0, <1>1 DEF Shaped
<1> QED BY <1>2, <1>3 DEF TableInv

\* What the table says of the requests let in holds throughout.
THEOREM LimiterInvariant == Limiter!Spec => []TableInv
<1> USE PeopleAssumption
<1>1. Limiter!Init => TableInv
    BY TableInit
<1>2. TableInv /\ [Limiter!Next]_Limiter!vars => TableInv'
    <2>1. ASSUME TableInv, UNCHANGED Limiter!vars PROVE TableInv'
        BY <2>1 DEF Limiter!vars, TableInv, Shaped, Sound
    <2> QED BY <2>1, AllowStep, CleanupStep, TickStep DEF Limiter!Next
<1> QED BY <1>1, <1>2, PTL DEF Limiter!Spec

\* However requests, windows and cleanups fall, no stretch of a window's
\* length lets in more than two windows' worth.
THEOREM NoBurstEver == Limiter!Spec => []LimiterInv
<1>1. TableInv => LimiterInv
    BY TableSound, PeopleAssumption DEF LimiterInv
<1> QED BY <1>1, LimiterInvariant, PTL

\* Nobody is refused who was not let in as often as a window admits, within
\* the last window.
THEOREM RefusedOnlyWhenFull == Limiter!Spec => RefusedWhenFull
<1> USE PeopleAssumption
<1>1. TableInv /\ [Limiter!Next]_Limiter!vars
        => [Limiter!RefusedFull]_Limiter!vars
    <2> SUFFICES ASSUME TableInv, Limiter!Next, NEW ip \in Addresses,
                        served'[ip] > served[ip], admitted'[ip] = admitted[ip]
                 PROVE  Limiter!HadItsShare(ip)
        BY DEF Limiter!RefusedFull
    <2>0. DOMAIN served = Addresses /\ \A a \in Addresses : served[a] \in Nat
        BY DEF TableInv, Shaped, Sound, Limiter!RateLimiterAssumption
    <2>1. CASE Limiter!Tick \/ Limiter!cleanup
        BY <2>0, <2>1 DEF Limiter!Tick, Limiter!cleanup
    <2>2. ASSUME NEW a \in Addresses, Limiter!Allow(a)
          PROVE Limiter!HadItsShare(ip)
        <3>1. served' = [served EXCEPT ![a] = @ + 1]
            BY <2>2 DEF Limiter!Allow
        <3>2. a = ip
            BY <2>0, <3>1
        <3> QED BY <2>2, <3>2, AllowStep
    <2> QED BY <2>1, <2>2 DEF Limiter!Next
<1> QED BY <1>1, LimiterInvariant, PTL DEF Limiter!Spec, RefusedWhenFull,
    Limiter!RefusedWhenFull

----------------------------------------------------------------------------
(* The super admin endpoints.                                              *)

\* What People assumes of the admin endpoints.
DeskAssumption == Admin!AdministrationAssumption /\ IsFiniteSet(Desks)

\* The requests that wrote and have yet to log it.
Open == {r \in Desks : requests[r].at = "audit"}

\* Every change begun will find room below the bound.
ChangesFit == changed + Cardinality(Admin!Changing) <= MaxChanges

\* The log, whatever requests overlap.
LogInv == Admin!TypeOK /\ ChangesFit /\ Admin!ChangesAreLogged /\ Admin!DeletedIsDated

\* A request that is about to take the role away, or to count for it.
Demoting(r) ==
    requests[r].at \in {"count", "write"} /\ requests[r].set = "role" /\ ~requests[r].to

OneDemotion == \A r, s \in Desks : Demoting(r) /\ Demoting(s) => r = s

\* A demotion that passed its check leaves another super admin.
OthersRemain ==
    \A r \in Desks : Demoting(r) /\ requests[r].at = "write" =>
        \E u \in Admin!Admins : u # requests[r].target

AdminsInv == Admin!SuperAdminRemains /\ OthersRemain

----------------------------------------------------------------------------

\* What becomes of a count of requests when one of them moves.
LEMMA CountMoves ==
    ASSUME DeskAssumption, NEW X \in SUBSET Desks, NEW Y \in SUBSET Desks,
           NEW r \in Desks, \A s \in Desks : s # r => (s \in X <=> s \in Y)
    PROVE  /\ Cardinality(X) \in Nat /\ Cardinality(Y) \in Nat
           /\ (r \in X <=> r \in Y) => Cardinality(Y) = Cardinality(X)
           /\ r \in X /\ r \notin Y => Cardinality(X) = Cardinality(Y) + 1
           /\ r \notin X /\ r \in Y => Cardinality(Y) = Cardinality(X) + 1
<1>1. IsFiniteSet(X) /\ IsFiniteSet(Y)
    BY FS_Subset DEF DeskAssumption
<1>2. CASE r \in X <=> r \in Y
    <2>1. X = Y
        BY <1>2
    <2> QED BY <1>1, <1>2, <2>1, FS_CardinalityType
<1>3. CASE r \in X /\ r \notin Y
    <2>1. X = Y \cup {r}
        BY <1>3
    <2> QED BY <1>1, <1>3, <2>1, FS_CardinalityType, FS_AddElement
<1>4. CASE r \notin X /\ r \in Y
    <2>1. Y = X \cup {r}
        BY <1>4
    <2> QED BY <1>1, <1>4, <2>1, FS_CardinalityType, FS_AddElement
<1> QED BY <1>2, <1>3, <1>4

\* A slot that moves, and what becomes of the two counts.
LEMMA SlotMoves ==
    ASSUME DeskAssumption, Admin!TypeOK, NEW r \in Desks,
        NEW q \in Admin!Request,
           requests' = [requests EXCEPT ![r] = q]
    PROVE  /\ requests' \in [Desks -> Admin!Request] /\ requests'[r] = q
           /\ \A s \in Desks : s # r => requests'[s] = requests[s]
           /\ Cardinality(Admin!Changing) \in Nat /\ Cardinality(Admin!Changing)' \in Nat
           /\ Cardinality(Open) \in Nat /\ Cardinality(Open)' \in Nat
           /\ (r \in Admin!Changing <=> q.at \in {"count", "write"}) =>
                Cardinality(Admin!Changing)' = Cardinality(Admin!Changing)
           /\ r \in Admin!Changing /\ q.at \notin {"count", "write"} =>
                Cardinality(Admin!Changing) = Cardinality(Admin!Changing)' + 1
           /\ r \notin Admin!Changing /\ q.at \in {"count", "write"} =>
                Cardinality(Admin!Changing)' = Cardinality(Admin!Changing) + 1
           /\ (r \in Open <=> q.at = "audit") =>
                Cardinality(Open)' = Cardinality(Open)
           /\ r \in Open /\ q.at # "audit" =>
                Cardinality(Open) = Cardinality(Open)' + 1
           /\ r \notin Open /\ q.at = "audit" =>
                Cardinality(Open)' = Cardinality(Open) + 1
<1>1. /\ requests' \in [Desks -> Admin!Request] /\ requests'[r] = q
      /\ \A s \in Desks : s # r => requests'[s] = requests[s]
    BY DEF Admin!TypeOK
<1>2. /\ Admin!Changing \in SUBSET Desks /\ Admin!Changing' \in SUBSET Desks
      /\ \A s \in Desks : s # r
          => (s \in Admin!Changing <=> s \in Admin!Changing')
      /\ r \in Admin!Changing' <=> q.at \in {"count", "write"}
    BY <1>1 DEF Admin!Changing
<1>3. /\ Open \in SUBSET Desks /\ Open' \in SUBSET Desks
      /\ \A s \in Desks : s # r => (s \in Open <=> s \in Open')
      /\ r \in Open' <=> q.at = "audit"
    BY <1>1 DEF Open
<1> DEFINE c == Admin!Changing
           d == Admin!Changing'
           o == Open
           p == Open'
<1>4. /\ Cardinality(c) \in Nat /\ Cardinality(d) \in Nat
      /\ (r \in c <=> r \in d) => Cardinality(d) = Cardinality(c)
      /\ r \in c /\ r \notin d => Cardinality(c) = Cardinality(d) + 1
      /\ r \notin c /\ r \in d => Cardinality(d) = Cardinality(c) + 1
    <2> HIDE DEF c, d
    <2> QED BY <1>2, CountMoves DEF c, d
<1>5. /\ Cardinality(o) \in Nat /\ Cardinality(p) \in Nat
      /\ (r \in o <=> r \in p) => Cardinality(p) = Cardinality(o)
      /\ r \in o /\ r \notin p => Cardinality(o) = Cardinality(p) + 1
      /\ r \notin o /\ r \in p => Cardinality(p) = Cardinality(o) + 1
    <2> HIDE DEF o, p
    <2> QED BY <1>3, CountMoves DEF o, p
<1> QED BY <1>1, <1>2, <1>3, <1>4, <1>5

\* Nothing is open and nothing was changed when the server starts.
LEMMA AdminInit == ASSUME DeskAssumption, Admin!Init PROVE LogInv /\ AdminsInv
<1>1. PICK first \in Staff :
        user = [u \in Staff |-> [admin |-> u = first, active |-> TRUE]]
    BY DEF Admin!Init
<1>2. requests = [r \in Desks |-> Admin!Idle] /\ Admin!Changing = {} /\ Open = {}
    BY DEF Admin!Init, Admin!Changing, Open, Admin!Idle
<1>3. Cardinality(Admin!Changing) = 0 /\ Cardinality(Open) = 0
    BY <1>2, FS_EmptySet
<1>4. MaxChanges \in Nat /\ MaxLosses \in Nat
    BY DEF DeskAssumption, Admin!AdministrationAssumption
<1>5. Admin!TypeOK
    <2>1. user \in [Staff -> Admin!User]
        BY <1>1 DEF Admin!User
    <2>2. access \in [Staff -> Admin!Token]
        BY DEF Admin!Init, Admin!NoToken, Admin!Token
    <2>3. requests \in [Desks -> Admin!Request]
        BY <1>2 DEF Admin!Idle, Admin!Request
    <2>4. spec \in [deleted : BOOLEAN, dated : BOOLEAN]
        BY DEF Admin!Init
    <2> QED BY <1>4, <2>1, <2>2, <2>3, <2>4 DEF Admin!Init, Admin!TypeOK
<1>6. ChangesFit /\ Admin!ChangesAreLogged
    BY <1>3, <1>4, AdminCard DEF Admin!Init, ChangesFit,
        Admin!ChangesAreLogged, Open
<1>7. Admin!DeletedIsDated
    BY DEF Admin!Init, Admin!DeletedIsDated
<1>8. AdminsInv
    <2>1. first \in Admin!Admins
        BY <1>1 DEF Admin!Admins
    <2>2. \A r \in Desks : ~Demoting(r)
        BY <1>2 DEF Demoting, Admin!Idle
    <2> QED BY <2>1, <2>2 DEF AdminsInv, Admin!SuperAdminRemains, OthersRemain
<1> QED BY <1>5, <1>6, <1>7, <1>8 DEF LogInv

\* What LogInv says, in numbers.
LEMMA LogNumbers ==
    ASSUME DeskAssumption, Admin!TypeOK,
           ChangesFit, Admin!ChangesAreLogged
    PROVE  /\ changed \in Nat /\ logged \in Nat /\ lost \in Nat
           /\ MaxChanges \in Nat /\ MaxLosses \in Nat
           /\ changed + Cardinality(Admin!Changing) <= MaxChanges
           /\ logged + Cardinality(Open) <= changed
           /\ changed <= logged + Cardinality(Open) + lost
BY AdminCard DEF DeskAssumption, Admin!AdministrationAssumption,
    Admin!TypeOK, ChangesFit,
       Admin!ChangesAreLogged, Open

\* Every action on the log, and under it what it can disturb.
LEMMA LogStep ==
    ASSUME DeskAssumption, LogInv, [Admin!Next]_Admin!vars
    PROVE  LogInv'
<1> USE DEF LogInv
<1>n. /\ changed \in Nat /\ logged \in Nat /\ lost \in Nat
      /\ MaxChanges \in Nat /\ MaxLosses \in Nat
      /\ changed + Cardinality(Admin!Changing) <= MaxChanges
      /\ logged + Cardinality(Open) <= changed
      /\ changed <= logged + Cardinality(Open) + lost
    BY LogNumbers
<1>i. Admin!Idle \in Admin!Request
    BY DEF Admin!Idle, Admin!Request
<1>1. ASSUME NEW u \in Staff,
             \/ Admin!Login(u) \/ Admin!GoogleLogin(u) \/ Admin!RefreshSession(u)
             \/ Admin!TokenAges(u) \/ Admin!TokenExpires(u)
      PROVE  LogInv'
    <2>1. UNCHANGED <<user, spec, requests, changed, logged, lost>>
        BY <1>1 DEF Admin!Login, Admin!GoogleLogin, Admin!RefreshSession, Admin!TokenAges,
            Admin!TokenExpires
    <2>2. access' \in [Staff -> Admin!Token]
        <3>1. [role |-> Admin!ClaimOf(u), aged |-> FALSE] \in Admin!Token
              /\ [role |-> "expired", aged |-> FALSE] \in Admin!Token
              /\ [access[u] EXCEPT !.aged = TRUE] \in Admin!Token
            BY DEF Admin!ClaimOf, Admin!Token, Admin!TypeOK
        <3>2. \/ access' = [access EXCEPT ![u] = [role |-> Admin!ClaimOf(u), aged |-> FALSE]]
              \/ access' = [access EXCEPT ![u] = [role |-> "expired", aged |-> FALSE]]
              \/ access' = [access EXCEPT ![u] = [access[u] EXCEPT !.aged = TRUE]]
            BY <1>1 DEF Admin!Login, Admin!GoogleLogin, Admin!RefreshSession, Admin!TokenAges,
                Admin!TokenExpires
        <3> QED BY <3>1, <3>2 DEF Admin!TypeOK
    <2> QED BY <2>1, <2>2, AdminCard DEF Admin!TypeOK, ChangesFit,
        Admin!Changing, Admin!ChangesAreLogged,
                              Admin!DeletedIsDated
<1>2. ASSUME NEW r \in Desks, NEW caller \in Staff, NEW u \in Staff,
             NEW set \in {"role", "status"}, NEW to \in BOOLEAN,
             Admin!Begin(r, caller, u, set, to)
      PROVE  LogInv'
    <2>1. PICK q \in Admin!Request : /\ requests' = [requests EXCEPT ![r] = q]
                               /\ q.at \in {"count", "write"}
        <3>1. [at |-> "count", set |-> set, target |-> u, to |-> to] \in Admin!Request
              /\ [at |-> "write", set |-> set, target |-> u, to |-> to] \in Admin!Request
            BY DEF Admin!Request
        <3> QED BY <1>2, <3>1, AdminCard DEF Admin!Begin
    <2>2. /\ changed + Cardinality(Admin!Changing) < MaxChanges /\ requests[r].at = "idle"
          /\ UNCHANGED <<user, access, spec, changed, logged, lost>>
        BY <1>2, AdminCard DEF Admin!Begin, Admin!Idle
    <2>3. r \notin Admin!Changing /\ r \notin Open
        BY <2>2 DEF Admin!Changing, Open
    <2>4. /\ requests' \in [Desks -> Admin!Request]
          /\ Cardinality(Admin!Changing)' = Cardinality(Admin!Changing) + 1
          /\ Cardinality(Open)' = Cardinality(Open)
          /\ Cardinality(Admin!Changing) \in Nat
        BY <2>1, <2>3, SlotMoves
    <2>5. ChangesFit' /\ Admin!ChangesAreLogged'
        BY <1>n, <2>2, <2>4, AdminCard DEF ChangesFit,
            Admin!ChangesAreLogged, Open
    <2> QED BY <2>2, <2>4, <2>5 DEF Admin!TypeOK, Admin!DeletedIsDated
<1>3. ASSUME NEW r \in Desks, Admin!EnsureNotLast(r) PROVE LogInv'
    <2>1. /\ UNCHANGED <<user, access, spec, changed, logged, lost>>
          /\ requests[r].at = "count"
        BY <1>3 DEF Admin!EnsureNotLast
    <2>2. PICK q \in Admin!Request : requests' = [requests EXCEPT ![r] = q] /\ q.at # "audit"
        <3>1. [requests[r] EXCEPT !.at = "write"] \in Admin!Request
            BY DEF Admin!TypeOK, Admin!Request
        <3>2. \/ requests' = [requests EXCEPT ![r] = Admin!Idle]
              \/ requests' = [requests EXCEPT ![r] = [requests[r] EXCEPT !.at = "write"]]
            BY <1>3 DEF Admin!EnsureNotLast, Admin!Finish, Admin!GoTo
        <3>3. [requests[r] EXCEPT !.at = "write"].at # "audit" /\ Admin!Idle.at # "audit"
            BY DEF Admin!TypeOK, Admin!Request, Admin!Idle
        <3> QED BY <1>i, <3>1, <3>2, <3>3
    <2>3. r \in Admin!Changing /\ r \notin Open
        BY <2>1 DEF Admin!Changing, Open
    <2>4. /\ requests' \in [Desks -> Admin!Request]
          /\ Cardinality(Admin!Changing)' <= Cardinality(Admin!Changing)
          /\ Cardinality(Open)' = Cardinality(Open)
          /\ Cardinality(Admin!Changing) \in Nat /\ Cardinality(Admin!Changing)' \in Nat
        <3>1. CASE q.at \in {"count", "write"}
            <4>1. /\ Cardinality(Admin!Changing)' = Cardinality(Admin!Changing)
                  /\ requests' \in [Desks -> Admin!Request]
                  /\ Cardinality(Open)' = Cardinality(Open)
                  /\ Cardinality(Admin!Changing) \in Nat
                BY <2>2, <2>3, <3>1, SlotMoves
            <4> QED BY <4>1
        <3>2. CASE q.at \notin {"count", "write"}
            <4>1. /\ Cardinality(Admin!Changing) = Cardinality(Admin!Changing)' + 1
                  /\ requests' \in [Desks -> Admin!Request]
                  /\ Cardinality(Open)' = Cardinality(Open)
                  /\ Cardinality(Admin!Changing) \in Nat /\ Cardinality(Admin!Changing)' \in Nat
                BY <2>2, <2>3, <3>2, SlotMoves
            <4> QED BY <4>1
        <3> QED BY <3>1, <3>2
    <2>5. ChangesFit' /\ Admin!ChangesAreLogged'
        BY <1>n, <2>1, <2>4, AdminCard DEF ChangesFit,
            Admin!ChangesAreLogged, Open
    <2> QED BY <2>1, <2>4, <2>5 DEF Admin!TypeOK, Admin!DeletedIsDated
<1>4. ASSUME NEW r \in Desks, Admin!Write(r) PROVE LogInv'
    <2>1. /\ UNCHANGED <<access, spec, logged, lost>>
          /\ requests[r].at = "write" /\ changed' = changed + 1
        BY <1>4 DEF Admin!Write
    <2>2. PICK q \in Admin!Request : requests' = [requests EXCEPT ![r] = q] /\ q.at = "audit"
        <3>1. [requests[r] EXCEPT !.at = "audit"] \in Admin!Request
            BY DEF Admin!TypeOK, Admin!Request
        <3>2. [requests[r] EXCEPT !.at = "audit"].at = "audit"
            BY DEF Admin!TypeOK, Admin!Request
        <3> QED BY <1>4, <3>1, <3>2 DEF Admin!Write, Admin!GoTo
    <2>3. r \in Admin!Changing /\ r \notin Open
        BY <2>1 DEF Admin!Changing, Open
    <2>4. /\ requests' \in [Desks -> Admin!Request]
          /\ Cardinality(Admin!Changing) = Cardinality(Admin!Changing)' + 1
          /\ Cardinality(Open)' = Cardinality(Open) + 1
          /\ Cardinality(Admin!Changing)' \in Nat /\ Cardinality(Open) \in Nat
        BY <2>2, <2>3, SlotMoves
    <2>5. ChangesFit' /\ Admin!ChangesAreLogged' /\ changed' \in 0..MaxChanges
        BY <1>n, <2>1, <2>4, AdminCard DEF ChangesFit,
            Admin!ChangesAreLogged, Open
    <2>6. user' \in [Staff -> Admin!User]
        <3>1. requests[r].to \in BOOLEAN /\ \A u \in Staff : user[u] \in Admin!User
            BY DEF Admin!TypeOK, Admin!Request
        <3>2. \A u \in Staff,
            b \in BOOLEAN : [user[u] EXCEPT !.admin = b] \in Admin!User
                                              /\ [user[u] EXCEPT !.active = b] \in Admin!User
            BY <3>1 DEF Admin!User
        <3>3. \/ user' = [user EXCEPT ![requests[r].target] =
                            [user[requests[r].target] EXCEPT !.admin = requests[r].to]]
              \/ user' = [user EXCEPT ![requests[r].target] =
                            [user[requests[r].target] EXCEPT !.active = requests[r].to]]
            BY <1>4 DEF Admin!Write
        <3> QED BY <3>1, <3>2, <3>3 DEF Admin!TypeOK
    <2> QED BY <2>1, <2>4, <2>5, <2>6 DEF Admin!TypeOK, Admin!DeletedIsDated
<1>5. ASSUME NEW r \in Desks, NEW caller \in Staff,
             NEW to \in BOOLEAN \cup {NULL}, Admin!Moderate(r, caller, to)
      PROVE  LogInv'
    <2>1. /\ UNCHANGED <<user, access, logged, lost>> /\ requests[r].at = "idle"
          /\ changed' = changed + 1
          /\ changed + Cardinality(Admin!Changing) < MaxChanges
        BY <1>5, AdminCard DEF Admin!Moderate, Admin!Idle
    <2>2. PICK q \in Admin!Request : requests' = [requests EXCEPT ![r] = q] /\ q.at = "audit"
        <3>1. [Admin!Idle EXCEPT !.at = "audit", !.set = "spec"] \in Admin!Request
              /\ [Admin!Idle EXCEPT !.at = "audit", !.set = "spec"].at = "audit"
            BY DEF Admin!Idle, Admin!Request
        <3> QED BY <1>5, <3>1, AdminCard DEF Admin!Moderate
    <2>3. r \notin Admin!Changing /\ r \notin Open
        BY <2>1 DEF Admin!Changing, Open
    <2>4. /\ requests' \in [Desks -> Admin!Request]
          /\ Cardinality(Admin!Changing) = Cardinality(Admin!Changing)'
          /\ Cardinality(Open)' = Cardinality(Open) + 1
          /\ Cardinality(Admin!Changing) \in Nat /\ Cardinality(Open) \in Nat
        BY <2>2, <2>3, SlotMoves
    <2>5. ChangesFit' /\ Admin!ChangesAreLogged' /\ changed' \in 0..MaxChanges
        BY <1>n, <2>1, <2>4, AdminCard DEF ChangesFit,
            Admin!ChangesAreLogged, Open
    <2>6. spec' \in [deleted : BOOLEAN, dated : BOOLEAN] /\ Admin!DeletedIsDated'
        <3> DEFINE b == IF to = NULL THEN spec.deleted ELSE to
        <3>1. b \in BOOLEAN
            BY DEF Admin!TypeOK
        <3>2. spec' = [deleted |-> b, dated |-> b]
            BY <1>5, AdminCard DEF Admin!Moderate, Admin!Dated
        <3> HIDE DEF b
        <3> QED BY <3>1, <3>2 DEF Admin!DeletedIsDated
    <2> QED BY <2>1, <2>4, <2>5, <2>6 DEF Admin!TypeOK
<1>6. ASSUME NEW r \in Desks, Admin!Audit(r) PROVE LogInv'
    <2>1. UNCHANGED <<user, access, spec, changed>> /\ requests[r].at = "audit"
          /\ requests' = [requests EXCEPT ![r] = Admin!Idle]
        BY <1>6 DEF Admin!Audit, Admin!Finish
    <2>2. \/ logged' = logged + 1 /\ lost' = lost
          \/ logged' = logged /\ lost < MaxLosses /\ lost' = lost + 1
        BY <1>6 DEF Admin!Audit, Admin!Fault
    <2>3. r \notin Admin!Changing /\ r \in Open /\ Admin!Idle.at = "idle"
        BY <2>1 DEF Admin!Changing, Open, Admin!Idle
    <2>4. /\ requests' \in [Desks -> Admin!Request]
          /\ Cardinality(Admin!Changing) = Cardinality(Admin!Changing)'
          /\ Cardinality(Open) = Cardinality(Open)' + 1
          /\ Cardinality(Admin!Changing) \in Nat /\ Cardinality(Open)' \in Nat
        BY <1>i, <2>1, <2>3, SlotMoves
    <2>5. /\ ChangesFit' /\ Admin!ChangesAreLogged' /\ logged' \in 0..MaxChanges
          /\ lost' \in 0..MaxLosses
        <3>1. /\ changed' + Cardinality(Admin!Changing)' <= MaxChanges
              /\ logged' \in 0..MaxChanges /\ lost' \in 0..MaxLosses
              /\ logged' + Cardinality(Open)' <= changed'
              /\ changed' <= logged' + Cardinality(Open)' + lost'
            <4> DEFINE c == Cardinality(Admin!Changing)
                       d == Cardinality(Admin!Changing)'
                       o == Cardinality(Open)
                       p == Cardinality(Open)'
            <4>0. /\ c = d /\ o = p + 1 /\ c \in Nat /\ p \in Nat
                  /\ changed' = changed
                  /\ changed + c <= MaxChanges /\ logged + o <= changed
                  /\ changed <= logged + o + lost
                BY <1>n, <2>1, <2>4
            <4> HIDE DEF c, d, o, p
            <4>1. /\ changed' + d <= MaxChanges
                  /\ logged' \in 0..MaxChanges /\ lost' \in 0..MaxLosses
                  /\ logged' + p <= changed'
                  /\ changed' <= logged' + p + lost'
                <5>1. CASE logged' = logged + 1 /\ lost' = lost
                    BY <1>n, <4>0, <5>1 DEF Admin!TypeOK
                <5>2. CASE logged' = logged /\ lost < MaxLosses
                           /\ lost' = lost + 1
                    BY <1>n, <4>0, <5>2
                <5> QED BY <2>2, <5>1, <5>2
            <4> QED BY <4>1 DEF d, p
        <3> QED BY <3>1, AdminCard DEF ChangesFit, Admin!ChangesAreLogged,
            Open
    <2> QED BY <2>1, <2>4, <2>5 DEF Admin!TypeOK, Admin!DeletedIsDated
<1>7. ASSUME NEW r \in Desks, Admin!RequestDies(r) PROVE LogInv'
    <2>1. /\ UNCHANGED <<user, access, spec, changed, logged>>
          /\ lost < MaxLosses /\ lost' = lost + 1
          /\ requests' = [requests EXCEPT ![r] = Admin!Idle]
        BY <1>7 DEF Admin!RequestDies, Admin!Fault, Admin!Finish
    <2>2. Admin!Idle.at = "idle"
        BY DEF Admin!Idle
    <2>3. /\ requests' \in [Desks -> Admin!Request]
          /\ Cardinality(Admin!Changing)' <= Cardinality(Admin!Changing)
          /\ Cardinality(Open)' <= Cardinality(Open)
          /\ Cardinality(Open) <= Cardinality(Open)' + 1
          /\ Cardinality(Admin!Changing) \in Nat /\ Cardinality(Admin!Changing)' \in Nat
          /\ Cardinality(Open) \in Nat /\ Cardinality(Open)' \in Nat
        <3> DEFINE c == Cardinality(Admin!Changing)
                   d == Cardinality(Admin!Changing)'
                   o == Cardinality(Open)
                   p == Cardinality(Open)'
        <3>1. /\ c \in Nat /\ d \in Nat /\ o \in Nat /\ p \in Nat
              /\ r \in Admin!Changing => c = d + 1
              /\ r \notin Admin!Changing => d = c
              /\ r \in Open => o = p + 1
              /\ r \notin Open => p = o
              /\ requests' \in [Desks -> Admin!Request]
            BY <1>i, <2>1, <2>2, SlotMoves
        <3> HIDE DEF c, d, o, p
        <3>2. d <= c /\ p <= o /\ o <= p + 1
            BY <3>1
        <3> QED BY <3>1, <3>2 DEF c, d, o, p
    <2>4. ChangesFit' /\ Admin!ChangesAreLogged' /\ lost' \in 0..MaxLosses
        BY <1>n, <2>1, <2>3, AdminCard DEF ChangesFit,
            Admin!ChangesAreLogged, Open
    <2> QED BY <2>1, <2>3, <2>4 DEF Admin!TypeOK, Admin!DeletedIsDated
<1>8. CASE Admin!SoftDelete
    BY <1>8, AdminCard DEF Admin!SoftDelete, Admin!TypeOK, ChangesFit,
        Admin!Changing, Admin!ChangesAreLogged,
                Admin!DeletedIsDated
<1>9. CASE UNCHANGED Admin!vars
    BY <1>9, AdminCard DEF Admin!vars, Admin!TypeOK, ChangesFit,
        Admin!Changing, Admin!ChangesAreLogged,
                Admin!DeletedIsDated
<1> QED BY <1>1, <1>2, <1>3, <1>4, <1>5, <1>6, <1>7, <1>8, <1>9 DEF Admin!Next

\* A demotion that counted more than one super admin, or found its target
\* without the role, leaves another; only a second demotion takes that one away.
LEMMA AdminsStep ==
    ASSUME DeskAssumption, LogInv, AdminsInv, OneDemotion, OneDemotion',
           [Admin!Next]_Admin!vars
    PROVE  AdminsInv'
<1> USE DEF AdminsInv, LogInv
<1>0. /\ requests \in [Desks -> Admin!Request] /\ user \in [Staff -> Admin!User]
      /\ Admin!Admins # {}
    BY DEF Admin!TypeOK, Admin!SuperAdminRemains
<1>1. ASSUME UNCHANGED <<user, requests>> PROVE AdminsInv'
    BY <1>1 DEF Admin!SuperAdminRemains, OthersRemain, Admin!Admins, Demoting
<1>2. ASSUME NEW r \in Desks, UNCHANGED user,
             \A s \in Desks : s # r => requests'[s] = requests[s],
             Demoting(r)' /\ requests'[r].at = "write" =>
                \E u \in Admin!Admins : u # requests'[r].target
      PROVE  AdminsInv'
    BY <1>2 DEF Admin!SuperAdminRemains, OthersRemain, Admin!Admins, Demoting
<1>3. ASSUME NEW u \in Staff,
             \/ Admin!Login(u) \/ Admin!GoogleLogin(u) \/ Admin!RefreshSession(u)
             \/ Admin!TokenAges(u) \/ Admin!TokenExpires(u)
      PROVE  AdminsInv'
    BY <1>1, <1>3 DEF Admin!Login, Admin!GoogleLogin, Admin!RefreshSession, Admin!TokenAges,
        Admin!TokenExpires
<1>4. ASSUME NEW r \in Desks, NEW caller \in Staff, NEW u \in Staff,
             NEW set \in {"role", "status"}, NEW to \in BOOLEAN,
             Admin!Begin(r, caller, u, set, to)
      PROVE  AdminsInv'
    <2> DEFINE q == [at |-> IF user[u].admin /\ ~to THEN "count" ELSE "write",
                     set |-> set, target |-> u, to |-> to]
    <2>1. /\ UNCHANGED user /\ requests'[r] = q
          /\ \A s \in Desks : s # r => requests'[s] = requests[s]
        BY <1>0, <1>4, AdminCard DEF Admin!Begin
    <2>2. Demoting(r)' /\ requests'[r].at = "write" => ~user[u].admin
        BY <2>1 DEF Demoting
    <2>3. ~user[u].admin => \E v \in Admin!Admins : v # u
        BY <1>0 DEF Admin!Admins
    <2> QED BY <1>2, <2>1, <2>2, <2>3
<1>5. ASSUME NEW r \in Desks, Admin!EnsureNotLast(r) PROVE AdminsInv'
    <2>1. UNCHANGED user /\ \A s \in Desks : s # r
        => requests'[s] = requests[s]
        BY <1>0, <1>5 DEF Admin!EnsureNotLast, Admin!Finish, Admin!GoTo
    <2>2. CASE Admin!IsLast
        <3>1. requests'[r] = Admin!Idle
            BY <1>0, <1>5, <2>2 DEF Admin!EnsureNotLast, Admin!Finish
        <3> QED BY <1>2, <2>1, <3>1 DEF Admin!Idle
    <2>3. CASE ~Admin!IsLast
        <3>1. \E v \in Admin!Admins : v # requests[r].target
            <4>1. SUFFICES ASSUME Admin!Admins \subseteq {requests[r].target} PROVE FALSE
                OBVIOUS
            <4>2. Admin!Admins = {requests[r].target}
                BY <1>0, <4>1
            <4>3. Cardinality(Admin!Admins) = 1
                BY <4>2, FS_Singleton
            <4> QED BY <2>3, <4>3, AdminCard DEF Admin!IsLast
        <3>2. requests'[r] = [requests[r] EXCEPT !.at = "write"]
            BY <1>0, <1>5, <2>3 DEF Admin!EnsureNotLast, Admin!GoTo
        <3>3. requests'[r].target = requests[r].target
            BY <1>0, <3>2 DEF Admin!Request
        <3> QED BY <1>2, <2>1, <3>1, <3>3
    <2> QED BY <2>2, <2>3
<1>6. ASSUME NEW r \in Desks, Admin!Write(r) PROVE AdminsInv'
    <2>1. /\ requests[r].at = "write" /\ requests'[r] = [requests[r] EXCEPT !.at = "audit"]
          /\ \A s \in Desks : s # r => requests'[s] = requests[s]
        BY <1>0, <1>6 DEF Admin!Write, Admin!GoTo
    <2>2. requests'[r].at = "audit"
        BY <1>0, <2>1 DEF Admin!Request
    <2>3. CASE Demoting(r)
        <3>1. PICK v \in Admin!Admins : v # requests[r].target
            BY <2>1, <2>3 DEF OthersRemain
        <3>2. user'[v] = user[v]
            BY <1>0, <1>6, <3>1 DEF Admin!Write, Admin!Admins
        <3>3. v \in Admin!Admins'
            BY <3>1, <3>2 DEF Admin!Admins
        <3>4. \A s \in Desks : ~Demoting(s)'
            <4>1. ~Demoting(r)'
                BY <2>2 DEF Demoting
            <4>2. \A s \in Desks : s # r => ~Demoting(s)
                BY <2>3 DEF OneDemotion
            <4> QED BY <2>1, <4>1, <4>2 DEF Demoting
        <3> QED BY <3>3, <3>4 DEF Admin!SuperAdminRemains, OthersRemain
    <2>4. CASE ~Demoting(r)
        <3>1. ASSUME NEW v \in Admin!Admins PROVE v \in Admin!Admins'
            <4>1. requests[r].to \in BOOLEAN /\ user[v] \in Admin!User /\ user[v].admin
                BY <1>0, <3>1 DEF Admin!Request, Admin!Admins
            <4>2. CASE requests[r].set = "role"
                <5>1. user' = [user EXCEPT ![requests[r].target] =
                                [user[requests[r].target] EXCEPT !.admin = requests[r].to]]
                    BY <1>6, <4>2 DEF Admin!Write
                <5>2. requests[r].to
                    BY <2>1, <2>4, <4>1, <4>2, Zenon DEF Demoting
                <5>3. v = requests[r].target
                    => user'[v] = [user[v] EXCEPT !.admin = requests[r].to]
                    BY <1>0, <5>1 DEF Admin!Admins
                <5>4. v = requests[r].target => user'[v].admin
                    BY <4>1, <5>2, <5>3 DEF Admin!User
                <5>5. v # requests[r].target => user'[v] = user[v]
                    BY <1>0, <5>1 DEF Admin!Admins
                <5> QED BY <3>1, <4>1, <5>4, <5>5 DEF Admin!Admins
            <4>3. CASE requests[r].set # "role"
                <5>1. user' = [user EXCEPT ![requests[r].target] =
                                [user[requests[r].target] EXCEPT !.active = requests[r].to]]
                    BY <1>6, <4>3 DEF Admin!Write
                <5>3. v = requests[r].target
                    => user'[v] = [user[v] EXCEPT !.active = requests[r].to]
                    BY <1>0, <5>1 DEF Admin!Admins
                <5>4. v = requests[r].target => user'[v].admin = user[v].admin
                    BY <4>1, <5>3 DEF Admin!User
                <5>5. v # requests[r].target => user'[v] = user[v]
                    BY <1>0, <5>1 DEF Admin!Admins
                <5> QED BY <3>1, <4>1, <5>4, <5>5 DEF Admin!Admins
            <4> QED BY <4>2, <4>3
        <3>2. ASSUME NEW s \in Desks, Demoting(s)', requests'[s].at = "write"
              PROVE  \E v \in Admin!Admins' : v # requests'[s].target
            <4>1. s # r
                BY <2>2, <3>2
            <4>2. requests'[s] = requests[s]
                BY <2>1, <4>1
            <4>3. Demoting(s) /\ requests[s].at = "write"
                BY <3>2, <4>2 DEF Demoting
            <4> QED BY <3>1, <4>2, <4>3 DEF OthersRemain
        <3>3. Admin!Admins' # {}
            BY <1>0, <3>1
        <3> QED BY <3>2, <3>3 DEF Admin!SuperAdminRemains, OthersRemain
    <2> QED BY <2>3, <2>4
<1>7. ASSUME NEW r \in Desks, UNCHANGED user,
             \/ requests' = [requests EXCEPT ![r] = Admin!Idle]
             \/ requests' = [requests EXCEPT ![r] = [Admin!Idle EXCEPT !.at = "audit", !.set = "spec"]]
      PROVE  AdminsInv'
    <2>1. requests'[r].at # "write" /\ \A s \in Desks : s # r
        => requests'[s] = requests[s]
        <3>1. Admin!Idle.at = "idle"
              /\ [Admin!Idle EXCEPT !.at = "audit", !.set = "spec"].at = "audit"
            BY DEF Admin!Idle
        <3>2. \/ requests'[r] = Admin!Idle
              \/ requests'[r] = [Admin!Idle EXCEPT !.at = "audit", !.set = "spec"]
            BY <1>0, <1>7
        <3>3. \A s \in Desks : s # r => requests'[s] = requests[s]
            BY <1>0, <1>7
        <3> HIDE DEF Admin!Idle
        <3> QED BY <3>1, <3>2, <3>3
    <2> QED BY <1>2, <1>7, <2>1
<1>8. ASSUME NEW r \in Desks,
             \/ \E caller \in Staff, to \in BOOLEAN \cup {NULL} :
                    Admin!Moderate(r, caller, to)
             \/ Admin!Audit(r) \/ Admin!RequestDies(r)
      PROVE  AdminsInv'
    BY <1>7, <1>8, AdminCard DEF Admin!Moderate, Admin!Audit,
        Admin!RequestDies, Admin!Finish
<1>9. CASE Admin!SoftDelete \/ UNCHANGED Admin!vars
    BY <1>1, <1>9 DEF Admin!SoftDelete, Admin!vars
<1> QED BY <1>3, <1>4, <1>5, <1>6, <1>8, <1>9 DEF Admin!Next

\* Whatever overlaps, every change is in the log, about to be or lost to a
\* fault, and a deleted spec and no other has its date.
THEOREM LogHolds == Admin!Spec => []LogInv
<1> USE PeopleAssumption DEF DeskAssumption
<1>1. Admin!Init => LogInv
    BY AdminInit
<1>2. LogInv /\ [Admin!Next]_Admin!vars => LogInv'
    BY LogStep
<1> QED BY <1>1, <1>2, PTL DEF Admin!Spec

\* As long as no two demotions overlap - other requests may - a super admin
\* remains, too.
THEOREM AdminHolds == Admin!Spec /\ []OneDemotion => []AdminInv
<1> USE PeopleAssumption DEF DeskAssumption
<1>1. Admin!Init => AdminsInv
    BY AdminInit
<1>2. LogInv /\ AdminsInv /\ OneDemotion /\ OneDemotion'
        /\ [Admin!Next]_Admin!vars => AdminsInv'
    BY AdminsStep
<1>3. LogInv /\ AdminsInv => AdminInv
    BY DEF LogInv, AdminsInv, AdminInv, Admin!AdminInv
<1> QED BY <1>1, <1>2, <1>3, LogHolds, PTL DEF Admin!Spec
=============================================================================
