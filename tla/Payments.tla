------------------------------ MODULE Payments -----------------------------
(***************************************************************************)
(* Orders, payments and licenses (payment/application/service.go). An      *)
(* order is paid through Razorpay, where the buyer's browser reports the   *)
(* payment to VerifyPayment, or through Dodo, which calls HandleDodoWebhook *)
(* until it gets a 2xx. Both then write a payment row, the order's status  *)
(* and a license in three statements outside any transaction: between two  *)
(* of them any other request may run, and the process may die.             *)
(***************************************************************************)
EXTENDS Naturals

CONSTANTS
    Orders,       \* orders, each with a spec and a license option
    PaymentIds,   \* payment ids the providers hand out
    Requests,     \* slots: requests served at the same time
    Providers,    \* which of "razorpay" and "dodo" are configured
    MaxFaults,    \* bound: deaths, passed deadlines, withdrawn options
    NULL

ASSUME PaymentAssumption ==
    /\ Providers \subseteq {"razorpay", "dodo"}
    /\ MaxFaults \in Nat
    /\ NULL \notin Orders \cup PaymentIds \cup {"razorpay", "dodo"}

VARIABLES
    order,      \* the orders row: status, provider
    late,       \* whether expires_at of the order has passed
    option,     \* whether the row of the order's license option exists
    payment,    \* order_id of the payments row with this (UNIQUE) payment id
    licenses,   \* licenses rows, by the payment whose request issued them
    receipts,   \* receipt mails sent for them
    charge,     \* at the provider: the order a payment is for, its status
    acked,      \* payments whose webhook has been answered with a 2xx
    req,        \* what each slot is doing
    faults

rowVars == <<order, option, payment, licenses>>
providerVars == <<charge, acked>>
vars == <<rowVars, late, receipts, providerVars, req, faults>>

OrderRow == [status : {"none", "pending", "paid", "failed"},
             provider : Providers \cup {NULL}]
Charge == [for : Orders \cup {NULL},
           status : {"none", "authorized", "captured"}]

Stages == {"idle", "create", "fail", "fetch", "insert", "markPaid", "issue",
           "receipt"}
Request == [at : Stages, order : Orders \cup {NULL},
            payment : PaymentIds \cup {NULL}, provider : Providers \cup {NULL}]
Idle == [at |-> "idle", order |-> NULL, payment |-> NULL, provider |-> NULL]

\* The shape of the rows, of the providers' records and of the request slots.
TypeOK ==
    /\ order \in [Orders -> OrderRow]
    /\ late \in [Orders -> BOOLEAN]
    /\ option \in [Orders -> BOOLEAN]
    /\ payment \in [PaymentIds -> Orders \cup {NULL}]
    /\ licenses \in [PaymentIds -> Nat]
    /\ receipts \in [PaymentIds -> Nat]
    /\ charge \in [PaymentIds -> Charge]
    /\ acked \in SUBSET PaymentIds
    /\ req \in [Requests -> Request]
    /\ faults \in 0..MaxFaults

Init ==
    /\ order = [o \in Orders |-> [status |-> "none", provider |-> NULL]]
    /\ late = [o \in Orders |-> FALSE]
    /\ option = [o \in Orders |-> TRUE]
    /\ payment = [p \in PaymentIds |-> NULL]
    /\ licenses = [p \in PaymentIds |-> 0]
    /\ receipts = [p \in PaymentIds |-> 0]
    /\ charge = [p \in PaymentIds |-> [for |-> NULL, status |-> "none"]]
    /\ acked = {}
    /\ req = [r \in Requests |-> Idle]
    /\ faults = 0

Fault == faults < MaxFaults /\ faults' = faults + 1

Finish(r) == req' = [req EXCEPT ![r] = Idle]
GoTo(r, stage) == req' = [req EXCEPT ![r].at = stage]
Start(r, stage, o, p, prov) ==
    req' = [req EXCEPT ![r] = [at |-> stage, order |-> o, payment |-> p,
                               provider |-> prov]]

\* UPDATE orders SET status: no condition on the status it overwrites.
UpdateStatus(o, status) == order' = [order EXCEPT ![o].status = status]

----------------------------------------------------------------------------
(* CreateOrder: the checkout is made at the provider, then the row.        *)

CreateOrder(r, o, prov) ==
    /\ req[r].at = "idle"
    /\ order[o].status = "none"
    /\ \A s \in Requests : req[s].order # o
    /\ option[o]
    /\ Start(r, "create", o, NULL, prov)
    /\ UNCHANGED <<rowVars, late, receipts, providerVars, faults>>

InsertOrder(r) ==
    /\ req[r].at = "create"
    /\ order' = [order EXCEPT ![req[r].order] =
                    [status |-> "pending", provider |-> req[r].provider]]
    /\ Finish(r)
    /\ UNCHANGED <<option, payment, licenses, late, receipts, providerVars,
                   faults>>

----------------------------------------------------------------------------
(* VerifyPayment.                                                          *)

\* Razorpay signs (order, payment); the secret is the server's, so a signature
\* that checks out was made by Razorpay for this pair.
SignatureFor(o, p) == charge[p].for = o /\ charge[p].status # "none"

\* Mutant of SignatureAccepted: the comparison is left out.
AnySignature(o, p, signed) == TRUE

SignatureAccepted(o, p, signed) == signed /\ SignatureFor(o, p)

\* The order is read and judged; what follows uses what was read here. The
\* caller need not be the buyer, nor the signature a good one.
VerifyPayment(r, o, p, signed) ==
    /\ req[r].at = "idle"
    /\ order[o].status = "pending"
    /\ \/ /\ late[o]
          /\ Start(r, "fail", o, p, order[o].provider)
       \/ /\ ~late[o]
          /\ order[o].provider = "razorpay"
          /\ Start(r, IF SignatureAccepted(o, p, signed) THEN "fetch"
                      ELSE "fail", o, p, "razorpay")
    /\ UNCHANGED <<rowVars, late, receipts, providerVars, faults>>

\* Expired, badly signed or not captured: the order fails.
FailOrder(r) ==
    /\ req[r].at = "fail"
    /\ UpdateStatus(req[r].order, "failed")
    /\ Finish(r)
    /\ UNCHANGED <<option, payment, licenses, late, receipts, providerVars,
                   faults>>

Captured(p) == charge[p].status = "captured"

FetchPayment(r) ==
    /\ req[r].at = "fetch"
    /\ GoTo(r, IF Captured(req[r].payment) THEN "insert" ELSE "fail")
    /\ UNCHANGED <<rowVars, late, receipts, providerVars, faults>>

----------------------------------------------------------------------------
(* HandleDodoWebhook.                                                      *)

\* Mutant of Settled: an order that is no longer pending needs nothing more.
NotPending(o) == order[o].status # "pending"

\* Mutant of Settled: the webhook is acknowledged before it is processed.
KnownOrder(o) == order[o].status # "none"

\* A paid order is acknowledged again without doing anything.
Settled(o) == order[o].status = "paid"

\* Dodo reports a succeeded payment, as often as it likes. An order in any
\* other state answers with an error, which changes nothing.
DeliverWebhook(r, p) ==
    LET o == charge[p].for IN
    /\ req[r].at = "idle"
    /\ Captured(p)
    /\ order[o].provider = "dodo"
    /\ \/ /\ Settled(o)
          /\ acked' = acked \cup {p}
          /\ UNCHANGED req
       \/ /\ order[o].status = "pending"
          /\ Start(r, "insert", o, p, "dodo")
          /\ UNCHANGED acked
    /\ UNCHANGED <<rowVars, late, receipts, charge, faults>>

----------------------------------------------------------------------------
(* What both do once the money is known to be there.                       *)

\* Mutant of FreshPayment: payment ids are not UNIQUE.
AnyPayment(p) == TRUE

FreshPayment(p) == payment[p] = NULL

\* The UNIQUE constraint ends a request for a payment already recorded.
InsertPayment(r) ==
    LET q == req[r] IN
    /\ q.at = "insert"
    /\ IF FreshPayment(q.payment)
       THEN /\ payment' = [payment EXCEPT ![q.payment] = q.order]
            /\ GoTo(r, "markPaid")
       ELSE Finish(r) /\ UNCHANGED payment
    /\ UNCHANGED <<order, option, licenses, late, receipts, providerVars,
                   faults>>

MarkPaid(r) ==
    /\ req[r].at = "markPaid"
    /\ UpdateStatus(req[r].order, "paid")
    /\ GoTo(r, "issue")
    /\ UNCHANGED <<option, payment, licenses, late, receipts, providerVars,
                   faults>>

\* The license's foreign key fails if the option was deleted meanwhile. The
\* webhook is answered here; the browser's answer is followed by the receipt.
IssueLicense(r) ==
    LET q == req[r] IN
    /\ q.at = "issue"
    /\ IF option[q.order]
       THEN /\ licenses' = [licenses EXCEPT ![q.payment] = @ + 1]
            /\ IF q.provider = "dodo"
               THEN Finish(r) /\ acked' = acked \cup {q.payment}
               ELSE GoTo(r, "receipt") /\ UNCHANGED acked
       ELSE Finish(r) /\ UNCHANGED <<licenses, acked>>
    /\ UNCHANGED <<order, option, payment, late, receipts, charge, faults>>

\* A goroutine mails the receipt; a mail that fails is only logged.
SendReceipt(r) ==
    /\ req[r].at = "receipt"
    /\ \/ receipts' = [receipts EXCEPT ![req[r].payment] = @ + 1]
       \/ UNCHANGED receipts
    /\ Finish(r)
    /\ UNCHANGED <<rowVars, late, providerVars, faults>>

----------------------------------------------------------------------------
(* Buyers, providers, the producer and the platform.                       *)

\* A buyer pays an order it was given; it may try more than once.
Pay(p, o) ==
    /\ charge[p].for = NULL
    /\ order[o].status # "none"
    /\ charge' = [charge EXCEPT ![p] = [for |-> o, status |-> "authorized"]]
    /\ UNCHANGED <<rowVars, late, receipts, acked, req, faults>>

Capture(p) ==
    /\ charge[p].status = "authorized"
    /\ charge' = [charge EXCEPT ![p].status = "captured"]
    /\ UNCHANGED <<rowVars, late, receipts, acked, req, faults>>

\* expires_at passes, 30 minutes after the order was created.
DeadlinePasses(o) ==
    /\ order[o].status # "none"
    /\ ~late[o]
    /\ Fault
    /\ late' = [late EXCEPT ![o] = TRUE]
    /\ UNCHANGED <<rowVars, receipts, providerVars, req>>

\* PgSpecRepository.Update hard-deletes an option no license refers to.
WithdrawOption(o) ==
    /\ option[o]
    /\ \A p \in PaymentIds : payment[p] = o => licenses[p] = 0
    /\ Fault
    /\ option' = [option EXCEPT ![o] = FALSE]
    /\ UNCHANGED <<order, payment, licenses, late, receipts, providerVars, req>>

\* The process dies, or a statement or provider call fails.
RequestDies(r) ==
    /\ req[r].at # "idle"
    /\ Fault
    /\ Finish(r)
    /\ UNCHANGED <<rowVars, late, receipts, providerVars>>

----------------------------------------------------------------------------

Serve(r) ==
    \/ InsertOrder(r) \/ FailOrder(r) \/ FetchPayment(r) \/ InsertPayment(r)
    \/ MarkPaid(r) \/ IssueLicense(r) \/ SendReceipt(r)

Next ==
    \/ \E r \in Requests : Serve(r) \/ RequestDies(r)
    \/ \E r \in Requests, o \in Orders, prov \in Providers :
            CreateOrder(r, o, prov)
    \/ \E r \in Requests, o \in Orders, p \in PaymentIds, signed \in BOOLEAN :
            VerifyPayment(r, o, p, signed)
    \/ \E r \in Requests, p \in PaymentIds : DeliverWebhook(r, p)
    \/ \E o \in Orders, p \in PaymentIds : Pay(p, o)
    \/ \E p \in PaymentIds : Capture(p)
    \/ \E o \in Orders : DeadlinePasses(o) \/ WithdrawOption(o)

Spec == Init /\ [][Next]_vars

\* Requests are served, and Dodo re-sends a webhook that was not acknowledged
\* until it finds the service free to take it.
Fairness ==
    /\ \A r \in Requests : WF_vars(Serve(r))
    /\ \A p \in PaymentIds :
            SF_vars(p \notin acked /\ \E r \in Requests : DeliverWebhook(r, p))

FairSpec == Spec /\ Fairness

----------------------------------------------------------------------------
(* Properties.                                                             *)

\* A recorded payment is money a provider captured for the very order it is
\* booked on, whoever reported it, with whatever ids and signatures.
PaymentsAreGenuine ==
    \A p \in PaymentIds : payment[p] # NULL =>
        charge[p] = [for |-> payment[p], status |-> "captured"]

\* One payment buys one license and one receipt, never one without being
\* recorded first: however often a browser re-sends or a webhook is repeated,
\* the UNIQUE payment id lets a single request past InsertPayment.
OneLicensePerPayment ==
    \A p \in PaymentIds :
        /\ receipts[p] <= licenses[p] /\ licenses[p] <= 1
        /\ payment[p] = NULL => licenses[p] = 0

\* The status column, which anybody overwrites, never says paid for an order
\* without a payment; a webhook that was acknowledged is never sent again, so
\* by then its order must have one too.
PaidIsBacked ==
    \A o \in Orders :
        order[o].status = "paid" \/ (\E p \in acked : charge[p].for = o)
            => \E p \in PaymentIds : payment[p] = o

MoneyIn(o) ==
    \E p \in PaymentIds : charge[p] = [for |-> o, status |-> "captured"]

\* Without deaths, deadlines or withdrawn options, money captured by Dodo
\* leads to a license of that order, though deliveries overlap and repeat.
CapturedIsLicensed ==
    \A o \in Orders :
        (order[o].provider = "dodo" /\ MoneyIn(o))
            ~> \E q \in PaymentIds : payment[q] = o /\ licenses[q] > 0

=============================================================================
