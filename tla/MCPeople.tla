------------------------------ MODULE MCPeople ------------------------------
(***************************************************************************)
(* Who may do what, for TLC: accounts, the work of administrators and the  *)
(* rate limiter. They share no state, so one run checks them side by side: *)
(* each starts in its own initial state, and the run chooses at the start  *)
(* which of them moves.                                                    *)
(***************************************************************************)
EXTENDS People, TLC

CONSTANTS u0, u1, u2, pw1, pw2, t1, t2, c1, s1, r0, r1, r2

VARIABLE part  \* which of the services moves

limiterVars == <<now, ipRequests, ipResets, admitted, served>>
adminVars == <<user, access, spec, requests, changed, logged, lost>>

allVars == <<part, vars, limiterVars, adminVars>>

\* The administrators' first is u0: the others are interchangeable.
MCInit ==
    /\ part \in {"accounts", "limiter", "admin"}
    /\ Init /\ Limiter!Init
    /\ Admin!Init /\ user[u0].admin

MCNext ==
    /\ UNCHANGED part
    /\ \/ part = "accounts" /\ Next
          /\ UNCHANGED <<limiterVars, adminVars>>
       \/ part = "limiter" /\ Limiter!Next
          /\ UNCHANGED <<vars, adminVars>>
       \/ part = "admin" /\ Admin!Next
          /\ UNCHANGED <<vars, limiterVars>>

MCSpec == MCInit /\ [][MCNext]_allVars

Interchangeable ==
    Permutations(Users) \cup Permutations(Passwords) \cup Permutations(Rows)
    \cup Permutations(Requests)
=============================================================================
