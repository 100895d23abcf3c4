----------------------------- MODULE MCEventually ----------------------------
(***************************************************************************)
(* What must come about in the end, for TLC. The components share no state *)
(* here, so one run checks them side by side: each starts in its own       *)
(* initial state, and the run chooses at the start which of them moves.    *)
(* The fairness of a component that does not move asks nothing of it, and  *)
(* none of its promises is open. No symmetry: liveness is checked.         *)
(***************************************************************************)
EXTENDS Naturals

CONSTANTS u1, u2, w1, r1, r2, pw1, t1, t2, t3, c1, k1, o1, p1, p2,
          s1, s2, inr, NULL

VARIABLES
    part,  \* which of the components moves
    \* Payments:
    order, late, option, payment, licenses, receipts, charge, acked,
    payReq, payFaults,
    \* Accounts:
    account, token, expired, mailed, session, accountReq, redeemed, chosen,
    accountFaults,
    \* Catalog:
    specRow, ordered, licensed, covers, audio, cache, catalogReq, blocked,
    catalogFaults,
    \* Rankings:
    live, gone, score, table, run, fresh, lock, homeReq, unlucky, homeFaults,
    \* Administration:
    user, access, moderated, adminReq, changed, logged, adminFaults,
    \* NotificationHub:
    row, stage, clients, stop, running, who, reader, writer, socket, send,
    hand, closed, panicked, got, pushed, since, hubFaults

payVars == <<order, late, option, payment, licenses, receipts, charge, acked,
             payReq, payFaults>>
accountVars == <<account, token, expired, mailed, session, accountReq, redeemed,
                 chosen, accountFaults>>
catalogVars == <<specRow, ordered, licensed, covers, audio, cache, catalogReq,
                 blocked, catalogFaults>>
homeVars == <<live, gone, score, table, run, fresh, lock, homeReq, unlucky,
              homeFaults>>
adminVars == <<user, access, moderated, adminReq, changed, logged, adminFaults>>
hubVars == <<row, stage, clients, stop, running, who, reader, writer, socket,
             send, hand, closed, panicked, got, pushed, since, hubFaults>>
allVars == <<part, payVars, accountVars, catalogVars, homeVars,
             adminVars, hubVars>>

Pay == INSTANCE Payments WITH
    Orders <- {o1}, PaymentIds <- {p1, p2}, Requests <- {r1, r2},
    Providers <- {"razorpay", "dodo"}, MaxFaults <- 0,
    req <- payReq, faults <- payFaults

Account == INSTANCE Accounts WITH
    Users <- {u1}, Passwords <- {pw1}, Rows <- {t1, t2, t3}, Codes <- {c1},
    Sessions <- {}, Requests <- {r1, r2}, MaxFaults <- 0, MaxExpiries <- 0,
    req <- accountReq, faults <- accountFaults

Shelf == INSTANCE Catalog WITH
    Requests <- {r1, r2}, Editors <- {r1}, Covers <- {k1},
    Currencies <- {inr}, MaxVersion <- 1, MaxFaults <- 1,
    row <- specRow, cover <- covers, req <- catalogReq,
    faults <- catalogFaults

Home == INSTANCE Rankings WITH
    Specs <- {s1, s2}, Requests <- {r1, r2}, MaxScore <- 1, MaxRuns <- 2,
    MaxFaults <- 0, Versioned <- FALSE, req <- homeReq, faults <- homeFaults

Admin == INSTANCE Administration WITH
    Users <- {u1, u2}, Requests <- {r1}, MaxChanges <- 2, MaxFaults <- 1,
    token <- access, spec <- moderated, req <- adminReq, faults <- adminFaults

Hub == INSTANCE NotificationHub WITH
    Users <- {u1}, Conns <- {w1}, MaxNotes <- 2, Limit <- 1,
    Embedded <- TRUE, MayStop <- TRUE, MaxFaults <- 0, faults <- hubFaults

\* What a component that does not move starts with says nothing: one ranking
\* and one first administrator will do.
Init ==
    /\ part \in {"pay", "account", "shelf", "home", "admin", "hub"}
    /\ Pay!Init /\ Account!Init /\ Shelf!Init
    /\ Home!Init
    /\ (part # "home" => live = {} /\ \A s \in {s1, s2} : score[s] = 0)
    /\ Admin!Init
    /\ (part # "admin" => user[u1].admin)
    /\ Hub!Init

Next ==
    /\ UNCHANGED part
    /\ \/ part = "pay" /\ Pay!Next
          /\ UNCHANGED <<accountVars, catalogVars, homeVars,
                         adminVars, hubVars>>
       \/ part = "account" /\ Account!Next
          /\ UNCHANGED <<payVars, catalogVars, homeVars,
                         adminVars, hubVars>>
       \/ part = "shelf" /\ Shelf!Next
          /\ UNCHANGED <<payVars, accountVars, homeVars,
                         adminVars, hubVars>>
       \/ part = "home" /\ Home!Next
          /\ UNCHANGED <<payVars, accountVars, catalogVars,
                         adminVars, hubVars>>
       \/ part = "admin" /\ Admin!Next
          /\ UNCHANGED <<payVars, accountVars, catalogVars,
                         homeVars, hubVars>>
       \/ part = "hub" /\ Hub!Next
          /\ UNCHANGED <<payVars, accountVars, catalogVars,
                         homeVars, adminVars>>

Spec ==
    /\ Init /\ [][Next]_allVars
    /\ Pay!Fairness /\ Account!Fairness
    /\ Shelf!Fairness /\ Home!Fairness /\ Admin!Fairness /\ Hub!Fairness

CapturedIsLicensed == Pay!CapturedIsLicensed
AskedIsMailed == Account!AskedIsMailed
CacheCatchesUp == Shelf!CacheCatchesUp
EmptyGetsFilled == Home!EmptyGetsFilled
DemotedLosesAccess == Admin!DemotedLosesAccess
DroppedIsDisconnected == Hub!DroppedIsDisconnected
StoredIsPushed == Hub!StoredIsPushed
=============================================================================
