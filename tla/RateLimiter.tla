----------------------------- MODULE RateLimiter -----------------------------
(***************************************************************************)
(* The limiter of the routes that send mail                                *)
(* (gateway/middleware/rate_limit.go): a count and a reset time per        *)
(* address, a window opened by the first request of an address, and a      *)
(* background loop that drops what is over. Allow and cleanup hold the     *)
(* mutex, so each is one action; between them time passes.                 *)
(***************************************************************************)
EXTENDS Naturals, Sequences

CONSTANTS
    Addresses,
    maxReq,      \* requests an address may make in a window
    window,      \* length of a window
    MaxTime,     \* bound: the last instant
    MaxServed    \* bound: requests of an address

RateLimiterAssumption ==
    /\ maxReq \in Nat \ {0} /\ window \in Nat \ {0}
    /\ MaxTime \in Nat \ {0} /\ MaxServed \in Nat

VARIABLES
    now,
    ipRequests,  \* requests counted in the open window, 0 for no entry
    ipResets,    \* when the window ends, 0 for no entry
    admitted,    \* history: the instants at which requests were let in
    served       \* history: requests answered

vars == <<now, ipRequests, ipResets, admitted, served>>

Instants == 1..MaxTime

\* Clock, entries and histories are within their bounds; count and reset time
\* are written and dropped together.
TypeOK ==
    /\ now \in Instants
    /\ ipRequests \in [Addresses -> 0..MaxServed]
    /\ ipResets \in [Addresses -> 0..(MaxTime + window)]
    /\ admitted \in [Addresses -> Seq(Instants)]
    /\ served \in [Addresses -> 0..MaxServed]
    /\ \A ip \in Addresses : ipRequests[ip] = 0 <=> ipResets[ip] = 0

Init ==
    /\ now = 1
    /\ ipRequests = [ip \in Addresses |-> 0]
    /\ ipResets = [ip \in Addresses |-> 0]
    /\ admitted = [ip \in Addresses |-> <<>>]
    /\ served = [ip \in Addresses |-> 0]

Tick ==
    /\ now < MaxTime
    /\ now' = now + 1
    /\ UNCHANGED <<ipRequests, ipResets, admitted, served>>

Elapsed(ip) == now > ipResets[ip]

Admit(ip) == admitted' = [admitted EXCEPT ![ip] = Append(@, now)]

\* Mutant of Opened: a new window goes on counting where the old one ended.
OpenedCounting(ip) == [ipRequests EXCEPT ![ip] = @ + 1]

\* The first request of a window is counted as one.
Opened(ip) == [ipRequests EXCEPT ![ip] = 1]

\* An address without an entry, or whose window is over, is always let in.
OpenWindow(ip) ==
    /\ Elapsed(ip)
    /\ ipRequests' = Opened(ip)
    /\ ipResets' = [ipResets EXCEPT ![ip] = now + window]
    /\ Admit(ip)

\* Refused requests count as well.
CountRequest(ip) ==
    /\ ~Elapsed(ip)
    /\ ipRequests' = [ipRequests EXCEPT ![ip] = @ + 1]
    /\ IF ipRequests'[ip] <= maxReq THEN Admit(ip) ELSE UNCHANGED admitted
    /\ UNCHANGED ipResets

Allow(ip) ==
    /\ served[ip] < MaxServed
    /\ served' = [served EXCEPT ![ip] = @ + 1]
    /\ OpenWindow(ip) \/ CountRequest(ip)
    /\ UNCHANGED now

\* Mutant of Over: every entry is dropped.
OverAll(ip) == TRUE

Over(ip) == Elapsed(ip)

Kept(entry) == [ip \in Addresses |-> IF Over(ip) THEN 0 ELSE entry[ip]]

\* The loop that runs every minute.
cleanup ==
    /\ ipRequests' = Kept(ipRequests)
    /\ ipResets' = Kept(ipResets)
    /\ UNCHANGED <<now, admitted, served>>

Next == Tick \/ cleanup \/ \E ip \in Addresses : Allow(ip)

Spec == Init /\ [][Next]_vars

----------------------------------------------------------------------------

\* Windows follow the requests and not the clock, and cleanup drops entries
\* while requests arrive: still no stretch as long as a window ever holds more
\* than twice what a window admits.
NoBurst ==
    \A ip \in Addresses : \A i, j \in DOMAIN admitted[ip] :
        j = i + 2 * maxReq => admitted[ip][j] > admitted[ip][i] + window

\* The table of windows, and what it lets through.
LimiterInv == TypeOK /\ NoBurst

\* The last requests an address made, as many as a window admits, were let in
\* within the last window.
HadItsShare(ip) ==
    \E i \in DOMAIN admitted[ip] :
        /\ Len(admitted[ip]) = i + maxReq - 1
        /\ now <= admitted[ip][i] + window

\* Who is refused has had the full number of requests within the last window:
\* no old window, no other address and no cleanup uses up an allowance.
RefusedFull ==
    \A ip \in Addresses :
        served'[ip] > served[ip] /\ admitted'[ip] = admitted[ip] =>
            HadItsShare(ip)
RefusedWhenFull == [][RefusedFull]_vars
=============================================================================
