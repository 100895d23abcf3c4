------------------------------- MODULE People -------------------------------
(***************************************************************************)
(* Who may do what, side by side: accounts with their codes and sessions   *)
(* (Accounts), the super admin endpoints and the rate limiter. They share  *)
(* no state here.                                                          *)
(***************************************************************************)
EXTENDS Accounts

CONSTANTS
    \* RateLimiter:
    Addresses, maxReq, window, MaxTime, MaxServed,
    \* Administration, with the people and slots of the admin endpoints:
    Staff, Desks, MaxChanges, MaxLosses

VARIABLES
    \* RateLimiter:
    now, ipRequests, ipResets, admitted, served,
    \* Administration:
    user, access, spec, requests, changed, logged, lost

Limiter == INSTANCE RateLimiter

Admin == INSTANCE Administration WITH
    Users <- Staff, Requests <- Desks, MaxFaults <- MaxLosses,
    token <- access, req <- requests, faults <- lost

ASSUME PeopleAssumption ==
    /\ Limiter!RateLimiterAssumption
    /\ Admin!AdministrationAssumption /\ IsFiniteSet(Desks)

----------------------------------------------------------------------------

\* No stretch of a window's length lets in more than two windows' worth.
LimiterInv == Limiter!LimiterInv

\* Nobody is refused before having had a full window's worth.
RefusedWhenFull == Limiter!RefusedWhenFull

\* A super admin remains, changes are logged, deleted specs dated.
AdminInv == Admin!AdminInv
=============================================================================
