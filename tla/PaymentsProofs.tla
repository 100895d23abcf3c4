--------------------------- MODULE PaymentsProofs --------------------------
(***************************************************************************)
(* Theorems about the payment service for every number of orders,          *)
(* payments, concurrent requests and faults.                               *)
(***************************************************************************)
EXTENDS Payments, TLAPS

(***************************************************************************)
(* The inductive invariant.                                                *)
(***************************************************************************)

\* Stages of a request that has recorded its payment.
Recorded(r) == req[r].at \in {"markPaid", "issue", "receipt"}

\* A request carries an order and a payment from the moment it judged them,
\* and the payment is the order's own once a signature or webhook said so.
KnowsItsCharge ==
    \A r \in Requests :
        /\ req[r].at # "idle" => req[r].order \in Orders
        /\ req[r].at = "create" => req[r].provider \in Providers
        /\ req[r].at \notin {"idle", "create"} => req[r].payment \in PaymentIds
        /\ req[r].at = "fetch" =>
            /\ charge[req[r].payment].for = req[r].order
            /\ charge[req[r].payment].status # "none"
        /\ req[r].at = "insert" =>
            charge[req[r].payment] = [for |-> req[r].order,
                                      status |-> "captured"]

\* Past InsertPayment the payment row is the request's, which is alone with it
\* and has not issued its license yet, or just has, but not mailed the receipt.
OwnsItsPayment ==
    /\ \A r \in Requests : Recorded(r) =>
        /\ payment[req[r].payment] = req[r].order
        /\ receipts[req[r].payment] = 0
        /\ licenses[req[r].payment] = IF req[r].at = "receipt" THEN 1 ELSE 0
    /\ \A r, s \in Requests :
        Recorded(r) /\ Recorded(s) /\ req[r].payment = req[s].payment => r = s

\* An acknowledged webhook names a charge of some order.
AckedIsCharged == \A p \in acked : charge[p].status = "captured"

\* The provider charges for orders.
ChargesNameOrders ==
    \A p \in PaymentIds : charge[p].status # "none" => charge[p].for # NULL

\* No single conjunct is inductive; together they are.
IInv ==
    /\ TypeOK
    /\ ChargesNameOrders
    /\ KnowsItsCharge
    /\ OwnsItsPayment
    /\ AckedIsCharged
    /\ PaymentsAreGenuine
    /\ OneLicensePerPayment
    /\ PaidIsBacked

\* Before the first request nothing is recorded.
LEMMA InitHolds == Init => IInv
<1> SUFFICES ASSUME Init PROVE IInv
    OBVIOUS
<1> USE PaymentAssumption DEF Init
<1>1. TypeOK
    BY DEF TypeOK, OrderRow, Charge, Request, Stages, Idle
<1>2. KnowsItsCharge /\ OwnsItsPayment /\ AckedIsCharged /\ ChargesNameOrders
    BY DEF KnowsItsCharge, OwnsItsPayment, AckedIsCharged, ChargesNameOrders,
           Recorded, Idle
<1>3. PaymentsAreGenuine /\ OneLicensePerPayment /\ PaidIsBacked
    BY DEF PaymentsAreGenuine, OneLicensePerPayment, PaidIsBacked
<1> QED BY <1>1, <1>2, <1>3 DEF IInv

(***************************************************************************)
(* One lemma per kind of step.                                             *)
(***************************************************************************)

\* The slots keep their type when a request starts, moves on or ends.
LEMMA SlotsTyped ==
    ASSUME TypeOK, NEW r \in Requests,
           \/ Finish(r)
           \/ \E stage \in Stages : GoTo(r, stage)
           \/ \E stage \in Stages, o \in Orders \cup {NULL},
                 p \in PaymentIds \cup {NULL}, prov \in Providers \cup {NULL} :
                    Start(r, stage, o, p, prov)
           \/ UNCHANGED req
    PROVE  req' \in [Requests -> Request]
BY DEF TypeOK, Finish, GoTo, Start, Idle, Request, Stages

\* Steps that touch neither payments, licenses, receipts nor charges, and start
\* no request that has recorded something, keep the three money invariants.
LEMMA BooksKept ==
    ASSUME IInv, UNCHANGED <<payment, licenses, receipts, charge, acked>>,
           \A o \in Orders : order'[o].status = "paid" =>
                \E p \in PaymentIds : payment[p] = o
    PROVE  /\ PaymentsAreGenuine' /\ OneLicensePerPayment'
           /\ PaidIsBacked' /\ AckedIsCharged' /\ ChargesNameOrders'
BY DEF IInv, PaymentsAreGenuine, OneLicensePerPayment, PaidIsBacked,
       AckedIsCharged, ChargesNameOrders

\* A request that ends leaves the others as they were.
LEMMA SlotEnds ==
    ASSUME IInv, NEW r \in Requests, Finish(r),
           UNCHANGED <<payment, licenses, receipts, charge>>
    PROVE  KnowsItsCharge' /\ OwnsItsPayment'
<1>1. \A s \in Requests : req'[s] = IF s = r THEN Idle ELSE req[s]
    BY DEF IInv, TypeOK, Finish
<1>2. KnowsItsCharge'
    BY <1>1 DEF IInv, KnowsItsCharge, Idle
<1>3. \A s \in Requests : Recorded(s)' => s # r /\ Recorded(s)
    BY <1>1 DEF Recorded, Idle
<1>4. OwnsItsPayment'
    BY <1>1, <1>3 DEF IInv, OwnsItsPayment
<1> QED BY <1>2, <1>4

\* Creating an order, dying and failing an order record no money.
LEMMA OrderStep ==
    ASSUME IInv, NEW r \in Requests,
           \/ \E o \in Orders, prov \in Providers : CreateOrder(r, o, prov)
           \/ InsertOrder(r) \/ FailOrder(r) \/ RequestDies(r)
    PROVE  IInv'
<1> USE PaymentAssumption
<1>1. CASE \E o \in Orders, prov \in Providers : CreateOrder(r, o, prov)
    <2>1. PICK o \in Orders, prov \in Providers : CreateOrder(r, o, prov)
        BY <1>1
    <2>2. \A s \in Requests : req'[s] =
            IF s = r THEN [at |-> "create", order |-> o, payment |-> NULL,
                           provider |-> prov]
            ELSE req[s]
        BY <2>1 DEF CreateOrder, Start, IInv, TypeOK
    <2>3. TypeOK'
        <3>1. req' \in [Requests -> Request]
            BY <2>1, SlotsTyped DEF CreateOrder, IInv, Stages
        <3> QED BY <3>1, <2>1 DEF CreateOrder, rowVars, providerVars, IInv,
                                  TypeOK
    <2>4. KnowsItsCharge'
        BY <2>1, <2>2 DEF CreateOrder, providerVars, IInv, KnowsItsCharge
    <2>5. OwnsItsPayment'
        <3>1. \A s \in Requests : Recorded(s)' => s # r /\ Recorded(s)
            BY <2>2 DEF Recorded
        <3> QED BY <3>1, <2>1, <2>2 DEF CreateOrder, rowVars, IInv,
                                        OwnsItsPayment
    <2>6. /\ PaymentsAreGenuine' /\ OneLicensePerPayment'
          /\ PaidIsBacked' /\ AckedIsCharged' /\ ChargesNameOrders'
        BY <2>1, BooksKept DEF CreateOrder, rowVars, providerVars, IInv,
                               PaidIsBacked
    <2> QED BY <2>3, <2>4, <2>5, <2>6 DEF IInv
<1>2. CASE InsertOrder(r)
    <2>1. req[r].order \in Orders /\ req[r].provider \in Providers
        BY <1>2 DEF InsertOrder, IInv, KnowsItsCharge
    <2>2. /\ order' \in [Orders -> OrderRow]
          /\ \A o \in Orders : order'[o].status = "paid" =>
                order[o].status = "paid"
        BY <2>1, <1>2 DEF InsertOrder, IInv, TypeOK, OrderRow
    <2>3. TypeOK'
        BY <2>2, <1>2, SlotsTyped DEF InsertOrder, providerVars, IInv, TypeOK
    <2>4. KnowsItsCharge' /\ OwnsItsPayment'
        BY <1>2, SlotEnds DEF InsertOrder, providerVars
    <2>5. /\ PaymentsAreGenuine' /\ OneLicensePerPayment'
          /\ PaidIsBacked' /\ AckedIsCharged' /\ ChargesNameOrders'
        BY <2>2, <1>2, BooksKept DEF InsertOrder, providerVars, IInv,
                                     PaidIsBacked
    <2> QED BY <2>3, <2>4, <2>5 DEF IInv
<1>3. CASE FailOrder(r)
    <2>1. /\ order' \in [Orders -> OrderRow]
          /\ \A o \in Orders : order'[o].status = "paid" =>
                order[o].status = "paid"
        <3>1. order' = [order EXCEPT ![req[r].order].status = "failed"]
            BY <1>3 DEF FailOrder, UpdateStatus
        <3>2. order \in [Orders -> OrderRow]
            BY DEF IInv, TypeOK
        <3> QED BY <3>1, <3>2 DEF OrderRow
    <2>2. TypeOK'
        BY <2>1, <1>3, SlotsTyped DEF FailOrder, providerVars, IInv, TypeOK
    <2>3. KnowsItsCharge' /\ OwnsItsPayment'
        BY <1>3, SlotEnds DEF FailOrder, providerVars
    <2>4. /\ PaymentsAreGenuine' /\ OneLicensePerPayment'
          /\ PaidIsBacked' /\ AckedIsCharged' /\ ChargesNameOrders'
        BY <2>1, <1>3, BooksKept DEF FailOrder, providerVars, IInv,
                                     PaidIsBacked
    <2> QED BY <2>2, <2>3, <2>4 DEF IInv
<1>4. CASE RequestDies(r)
    <2>1. TypeOK'
        BY <1>4, SlotsTyped DEF RequestDies, Fault, rowVars, providerVars,
                                IInv, TypeOK
    <2>2. KnowsItsCharge' /\ OwnsItsPayment'
        BY <1>4, SlotEnds DEF RequestDies, rowVars, providerVars
    <2>3. /\ PaymentsAreGenuine' /\ OneLicensePerPayment'
          /\ PaidIsBacked' /\ AckedIsCharged' /\ ChargesNameOrders'
        BY <1>4, BooksKept DEF RequestDies, rowVars, providerVars, IInv,
                               PaidIsBacked
    <2> QED BY <2>1, <2>2, <2>3 DEF IInv
<1> QED BY <1>1, <1>2, <1>3, <1>4

\* Judging a browser's report or a webhook moves a request, not the money.
LEMMA JudgeStep ==
    ASSUME IInv, NEW r \in Requests,
           \/ \E o \in Orders, p \in PaymentIds, signed \in BOOLEAN :
                VerifyPayment(r, o, p, signed)
           \/ FetchPayment(r)
           \/ \E p \in PaymentIds : DeliverWebhook(r, p)
    PROVE  IInv'
<1> USE PaymentAssumption
<1>1. CASE \E o \in Orders, p \in PaymentIds, signed \in BOOLEAN :
                VerifyPayment(r, o, p, signed)
    <2>1. PICK o \in Orders, p \in PaymentIds, signed \in BOOLEAN :
                VerifyPayment(r, o, p, signed)
        BY <1>1
    <2>2. PICK stage \in {"fail", "fetch"}, prov \in Providers \cup {NULL} :
            /\ Start(r, stage, o, p, prov)
            /\ stage = "fetch" => SignatureFor(o, p)
        <3>1. order[o].provider \in Providers \cup {NULL}
            BY DEF IInv, TypeOK, OrderRow
        <3>2. order[o].provider = "razorpay" =>
                "razorpay" \in Providers \cup {NULL}
            BY <3>1
        <3> QED BY <3>1, <3>2, <2>1 DEF VerifyPayment, SignatureAccepted
    <2>3. \A s \in Requests : req'[s] =
            IF s = r THEN [at |-> stage, order |-> o, payment |-> p,
                           provider |-> prov]
            ELSE req[s]
        BY <2>2 DEF Start, IInv, TypeOK
    <2>4. TypeOK'
        <3>1. req' \in [Requests -> Request]
            BY <2>2, SlotsTyped DEF IInv, Stages
        <3> QED BY <3>1, <2>1 DEF VerifyPayment, rowVars, providerVars, IInv,
                                  TypeOK
    <2>5. KnowsItsCharge'
        BY <2>1, <2>2, <2>3 DEF VerifyPayment, providerVars, SignatureFor,
                                IInv, KnowsItsCharge
    <2>6. OwnsItsPayment'
        <3>1. \A s \in Requests : Recorded(s)' => s # r /\ Recorded(s)
            BY <2>3 DEF Recorded
        <3> QED BY <3>1, <2>1, <2>3 DEF VerifyPayment, rowVars, IInv,
                                        OwnsItsPayment
    <2>7. /\ PaymentsAreGenuine' /\ OneLicensePerPayment'
          /\ PaidIsBacked' /\ AckedIsCharged' /\ ChargesNameOrders'
        BY <2>1, BooksKept DEF VerifyPayment, rowVars, providerVars, IInv,
                               PaidIsBacked
    <2> QED BY <2>4, <2>5, <2>6, <2>7 DEF IInv
<1>2. CASE FetchPayment(r)
    <2>1. PICK stage \in {"insert", "fail"} :
            /\ GoTo(r, stage)
            /\ stage = "insert" => Captured(req[r].payment)
        BY <1>2 DEF FetchPayment
    <2>2. \A s \in Requests : req'[s] =
            IF s = r THEN [req[r] EXCEPT !.at = stage] ELSE req[s]
        BY <2>1 DEF GoTo, IInv, TypeOK
    <2>3. req[r] \in Request /\ req[r].at = "fetch"
        BY <1>2 DEF FetchPayment, IInv, TypeOK
    <2>4. TypeOK'
        <3>1. req' \in [Requests -> Request]
            BY <2>1, SlotsTyped DEF IInv, Stages
        <3> QED BY <3>1, <1>2 DEF FetchPayment, rowVars, providerVars, IInv,
                                  TypeOK
    <2>5. KnowsItsCharge'
        <3>1. /\ req[r].payment \in PaymentIds /\ req[r].order \in Orders
              /\ charge[req[r].payment].for = req[r].order
            BY <2>3 DEF IInv, KnowsItsCharge
        <3>2. charge[req[r].payment] \in Charge
            BY <3>1 DEF IInv, TypeOK
        <3>3. stage = "insert" =>
                charge[req[r].payment] = [for |-> req[r].order,
                                          status |-> "captured"]
            BY <3>1, <3>2, <2>1 DEF Captured, Charge
        <3> QED BY <3>1, <3>3, <2>2, <2>3, <1>2
                DEF FetchPayment, providerVars, IInv, KnowsItsCharge, Request
    <2>6. OwnsItsPayment'
        <3>1. \A s \in Requests : Recorded(s)' => s # r /\ Recorded(s)
            BY <2>2, <2>3 DEF Recorded, Request
        <3> QED BY <3>1, <1>2, <2>2 DEF FetchPayment, rowVars, IInv,
                                        OwnsItsPayment
    <2>7. /\ PaymentsAreGenuine' /\ OneLicensePerPayment'
          /\ PaidIsBacked' /\ AckedIsCharged' /\ ChargesNameOrders'
        BY <1>2, BooksKept DEF FetchPayment, rowVars, providerVars, IInv,
                               PaidIsBacked
    <2> QED BY <2>4, <2>5, <2>6, <2>7 DEF IInv
<1>3. CASE \E p \in PaymentIds : DeliverWebhook(r, p)
    <2>1. PICK p \in PaymentIds : DeliverWebhook(r, p)
        BY <1>3
    <2> DEFINE o == charge[p].for
    <2>2. /\ o \in Orders
          /\ charge[p] = [for |-> o, status |-> "captured"]
        <3>1. charge[p] \in Charge /\ charge[p].status = "captured"
            BY <2>1 DEF DeliverWebhook, Captured, IInv, TypeOK
        <3>2. o # NULL
            BY <3>1 DEF IInv, ChargesNameOrders
        <3> QED BY <3>1, <3>2 DEF Charge
    <2>3. /\ payment' = payment /\ licenses' = licenses
          /\ receipts' = receipts /\ charge' = charge /\ order' = order
          /\ option' = option /\ late' = late /\ faults' = faults
        BY <2>1 DEF DeliverWebhook, rowVars
    <2>4. CASE /\ order[o].status = "paid"
               /\ acked' = acked \cup {p}
               /\ UNCHANGED req
        <3>1. TypeOK'
            BY <2>3, <2>4 DEF IInv, TypeOK
        <3>2. KnowsItsCharge' /\ OwnsItsPayment' /\ AckedIsCharged'
            BY <2>2, <2>3, <2>4 DEF IInv, KnowsItsCharge, OwnsItsPayment,
                                    AckedIsCharged, Recorded
        <3>3. PaymentsAreGenuine' /\ OneLicensePerPayment' /\ ChargesNameOrders'
            BY <2>3 DEF IInv, PaymentsAreGenuine, OneLicensePerPayment,
                        ChargesNameOrders
        <3>4. PaidIsBacked'
            BY <2>2, <2>3, <2>4 DEF IInv, PaidIsBacked
        <3> QED BY <3>1, <3>2, <3>3, <3>4 DEF IInv
    <2>5. CASE /\ Start(r, "insert", o, p, "dodo")
               /\ UNCHANGED acked
        <3>1. "dodo" \in Providers
            BY <2>1, <2>2 DEF DeliverWebhook, IInv, TypeOK, OrderRow
        <3>2. \A s \in Requests : req'[s] =
                IF s = r THEN [at |-> "insert", order |-> o, payment |-> p,
                               provider |-> "dodo"]
                ELSE req[s]
            BY <2>5 DEF Start, IInv, TypeOK
        <3>3. TypeOK'
            <4>1. req' \in [Requests -> Request]
                BY <2>2, <2>5, <3>1, SlotsTyped DEF IInv, Stages
            <4> QED BY <4>1, <2>3, <2>5 DEF IInv, TypeOK
        <3>4. KnowsItsCharge'
            BY <2>2, <2>3, <3>2 DEF IInv, KnowsItsCharge
        <3>5. OwnsItsPayment'
            <4>1. \A s \in Requests : Recorded(s)' => s # r /\ Recorded(s)
                BY <3>2 DEF Recorded
            <4> QED BY <4>1, <2>3, <3>2 DEF IInv, OwnsItsPayment
        <3>6. /\ PaymentsAreGenuine' /\ OneLicensePerPayment'
              /\ PaidIsBacked' /\ AckedIsCharged' /\ ChargesNameOrders'
            BY <2>3, <2>5, BooksKept DEF IInv, PaidIsBacked
        <3> QED BY <3>3, <3>4, <3>5, <3>6 DEF IInv
    <2> QED BY <2>1, <2>4, <2>5 DEF DeliverWebhook, Settled
<1> QED BY <1>1, <1>2, <1>3

\* The UNIQUE payment id lets one request past: it becomes the row's owner.
LEMMA InsertStep ==
    ASSUME IInv, NEW r \in Requests, InsertPayment(r)
    PROVE  IInv'
<1> USE PaymentAssumption
<1> DEFINE p == req[r].payment
           o == req[r].order
<1>1. /\ p \in PaymentIds /\ o \in Orders
      /\ req[r] \in Request /\ req[r].at = "insert"
      /\ charge[p] = [for |-> o, status |-> "captured"]
    BY DEF InsertPayment, IInv, TypeOK, KnowsItsCharge
<1>2. /\ UNCHANGED <<order, option, licenses, late, receipts, charge, acked,
                     faults>>
    BY DEF InsertPayment, providerVars
<1>3. CASE payment[p] # NULL
    <2>1. Finish(r) /\ UNCHANGED payment
        BY <1>3 DEF InsertPayment, FreshPayment
    <2>2. TypeOK'
        BY <1>2, <2>1, SlotsTyped DEF IInv, TypeOK
    <2>3. KnowsItsCharge' /\ OwnsItsPayment'
        BY <1>2, <2>1, SlotEnds
    <2>4. /\ PaymentsAreGenuine' /\ OneLicensePerPayment'
          /\ PaidIsBacked' /\ AckedIsCharged' /\ ChargesNameOrders'
        BY <1>2, <2>1, BooksKept DEF IInv, PaidIsBacked
    <2> QED BY <2>2, <2>3, <2>4 DEF IInv
<1>4. CASE payment[p] = NULL
    <2>1. /\ payment' = [payment EXCEPT ![p] = o]
          /\ GoTo(r, "markPaid")
        BY <1>4 DEF InsertPayment, FreshPayment
    <2>2. \A s \in Requests : req'[s] =
            IF s = r THEN [req[r] EXCEPT !.at = "markPaid"] ELSE req[s]
        BY <2>1 DEF GoTo, IInv, TypeOK
    <2>3. \A q \in PaymentIds : payment'[q] = IF q = p THEN o ELSE payment[q]
        BY <2>1 DEF IInv, TypeOK
    <2>4. TypeOK'
        <3>1. req' \in [Requests -> Request]
            BY <2>1, SlotsTyped DEF IInv, Stages
        <3>2. payment' \in [PaymentIds -> Orders \cup {NULL}]
            BY <2>1, <1>1 DEF IInv, TypeOK
        <3> QED BY <3>1, <3>2, <1>2 DEF IInv, TypeOK
    <2>5. KnowsItsCharge'
        BY <1>1, <1>2, <2>2 DEF IInv, KnowsItsCharge, Request
    <2>6. licenses[p] = 0 /\ receipts[p] = 0
        <3>1. licenses[p] \in Nat /\ receipts[p] \in Nat
            BY <1>1 DEF IInv, TypeOK
        <3> QED BY <3>1, <1>1, <1>4 DEF IInv, OneLicensePerPayment
    <2>7. OwnsItsPayment'
        <3>1. \A s \in Requests : Recorded(s) =>
                /\ req[s].payment \in PaymentIds
                /\ req[s].payment # p
            <4>1. \A s \in Requests : Recorded(s) =>
                    /\ req[s].payment \in PaymentIds
                    /\ req[s].order \in Orders
                    /\ payment[req[s].payment] = req[s].order
                BY DEF IInv, KnowsItsCharge, OwnsItsPayment, Recorded
            <4> QED BY <4>1, <1>4
        <3>2. \A s \in Requests : s # r => (Recorded(s)' <=> Recorded(s))
            BY <2>2 DEF Recorded
        <3>3. /\ req'[r].at = "markPaid"
              /\ req'[r].payment = p /\ req'[r].order = o
            BY <1>1, <2>2 DEF Request
        <3>4. \A s \in Requests : Recorded(s)' =>
                /\ payment'[req'[s].payment] = req'[s].order
                /\ receipts'[req'[s].payment] = 0
                /\ licenses'[req'[s].payment] =
                    IF req'[s].at = "receipt" THEN 1 ELSE 0
            <4>1. CASE UNCHANGED <<receipts, licenses>>
                BY <4>1, <1>1, <2>2, <2>3, <2>6, <3>1, <3>2, <3>3
                DEF IInv, OwnsItsPayment
            <4> QED BY <4>1, <1>2
        <3>5. \A s, t \in Requests :
                Recorded(s)' /\ Recorded(t)' /\ req'[s].payment = req'[t].payment
                    => s = t
            BY <2>2, <3>1, <3>2, <3>3 DEF IInv, OwnsItsPayment
        <3> QED BY <3>4, <3>5 DEF OwnsItsPayment
    <2>8. PaymentsAreGenuine'
        BY <1>1, <1>2, <2>3 DEF IInv, PaymentsAreGenuine
    <2>9. OneLicensePerPayment'
        BY <1>1, <1>2, <2>3, <2>6 DEF IInv, OneLicensePerPayment
    <2>10. PaidIsBacked' /\ AckedIsCharged' /\ ChargesNameOrders'
        <3>1. \A q \in PaymentIds : payment[q] # NULL => payment'[q] = payment[q]
            BY <1>4, <2>3
        <3> QED BY <3>1, <1>2
                DEF IInv, PaidIsBacked, AckedIsCharged, ChargesNameOrders
    <2> QED BY <2>4, <2>5, <2>7, <2>8, <2>9, <2>10 DEF IInv
<1> QED BY <1>3, <1>4

\* Marking the order paid finds the payment row of the request.
LEMMA MarkPaidStep ==
    ASSUME IInv, NEW r \in Requests, MarkPaid(r)
    PROVE  IInv'
<1> USE PaymentAssumption
<1> DEFINE o == req[r].order
<1>1. /\ req[r] \in Request /\ req[r].at = "markPaid" /\ o \in Orders
      /\ req[r].payment \in PaymentIds /\ payment[req[r].payment] = o
    BY DEF MarkPaid, IInv, TypeOK, KnowsItsCharge, OwnsItsPayment, Recorded
<1>2. /\ order' = [order EXCEPT ![o].status = "paid"]
      /\ GoTo(r, "issue")
      /\ UNCHANGED <<option, payment, licenses, late, receipts, charge, acked,
                     faults>>
    BY DEF MarkPaid, UpdateStatus, providerVars
<1>3. \A s \in Requests : req'[s] =
        IF s = r THEN [req[r] EXCEPT !.at = "issue"] ELSE req[s]
    BY <1>2 DEF GoTo, IInv, TypeOK
<1>4. /\ order' \in [Orders -> OrderRow]
      /\ \A x \in Orders : order'[x].status = "paid" =>
            x = o \/ order[x].status = "paid"
    BY <1>1, <1>2 DEF IInv, TypeOK, OrderRow
<1>5. TypeOK'
    <2>1. req' \in [Requests -> Request]
        BY <1>2, SlotsTyped DEF IInv, Stages
    <2> QED BY <2>1, <1>2, <1>4 DEF IInv, TypeOK
<1>6. KnowsItsCharge'
    BY <1>1, <1>2, <1>3 DEF IInv, KnowsItsCharge, Request
<1>7. OwnsItsPayment'
    <2>1. \A s \in Requests :
            /\ Recorded(s)' <=> Recorded(s)
            /\ req'[s].payment = req[s].payment
            /\ req'[s].order = req[s].order
            /\ req'[s].at = "receipt" <=> req[s].at = "receipt"
        BY <1>1, <1>3 DEF Recorded, Request
    <2> QED BY <2>1, <1>2 DEF IInv, OwnsItsPayment
<1>8. \A x \in Orders : order'[x].status = "paid" =>
        \E p \in PaymentIds : payment[p] = x
    BY <1>1, <1>4 DEF IInv, PaidIsBacked
<1>9. /\ PaymentsAreGenuine' /\ OneLicensePerPayment'
      /\ PaidIsBacked' /\ AckedIsCharged' /\ ChargesNameOrders'
    BY <1>2, <1>8, BooksKept
<1> QED BY <1>5, <1>6, <1>7, <1>9 DEF IInv

\* Issuing the license: the request alone owns the payment, so it is the first.
LEMMA IssueStep ==
    ASSUME IInv, NEW r \in Requests, IssueLicense(r)
    PROVE  IInv'
<1> USE PaymentAssumption
<1> DEFINE p == req[r].payment
           o == req[r].order
<1>1. /\ req[r] \in Request /\ req[r].at = "issue"
      /\ p \in PaymentIds /\ o \in Orders
      /\ payment[p] = o /\ licenses[p] = 0 /\ receipts[p] = 0
    BY DEF IssueLicense, IInv, TypeOK, KnowsItsCharge, OwnsItsPayment, Recorded
<1>2. UNCHANGED <<order, option, payment, late, receipts, charge, faults>>
    BY DEF IssueLicense
<1>3. charge[p].status = "captured" /\ charge[p].for = o
    <2>1. payment[p] # NULL
        BY <1>1
    <2>2. charge[p] = [for |-> payment[p], status |-> "captured"]
        BY <1>1, <2>1 DEF IInv, PaymentsAreGenuine
    <2> QED BY <1>1, <2>2
<1>4. CASE Finish(r) /\ UNCHANGED <<licenses, acked>>
    <2>1. TypeOK'
        BY <1>2, <1>4, SlotsTyped DEF IInv, TypeOK
    <2>2. KnowsItsCharge' /\ OwnsItsPayment'
        BY <1>2, <1>4, SlotEnds
    <2>3. /\ PaymentsAreGenuine' /\ OneLicensePerPayment'
          /\ PaidIsBacked' /\ AckedIsCharged' /\ ChargesNameOrders'
        BY <1>2, <1>4, BooksKept DEF IInv, PaidIsBacked
    <2> QED BY <2>1, <2>2, <2>3 DEF IInv
<1>5. CASE /\ licenses' = [licenses EXCEPT ![p] = @ + 1]
           /\ \/ Finish(r) /\ acked' = acked \cup {p}
              \/ GoTo(r, "receipt") /\ UNCHANGED acked
    <2>1. \A q \in PaymentIds : licenses'[q] = IF q = p THEN 1 ELSE licenses[q]
        BY <1>1, <1>5 DEF IInv, TypeOK
    <2>2. TypeOK'
        <3>1. req' \in [Requests -> Request]
            BY <1>5, SlotsTyped DEF IInv, Stages
        <3>2. licenses' \in [PaymentIds -> Nat]
            BY <1>1, <1>5 DEF IInv, TypeOK
        <3>3. acked' \in SUBSET PaymentIds
            BY <1>1, <1>5 DEF IInv, TypeOK
        <3> QED BY <3>1, <3>2, <3>3, <1>2 DEF IInv, TypeOK
    <2>3. /\ \A s \in Requests : s # r => req'[s] = req[s]
          /\ \/ req'[r] = Idle
             \/ req'[r] = [req[r] EXCEPT !.at = "receipt"]
        BY <1>5 DEF Finish, GoTo, IInv, TypeOK
    <2>4. KnowsItsCharge'
        BY <1>1, <1>2, <2>3 DEF IInv, KnowsItsCharge, Idle, Request
    <2>5. OwnsItsPayment'
        <3>1. \A s \in Requests : Recorded(s) =>
                /\ req[s].payment \in PaymentIds
                /\ s # r => req[s].payment # p
            BY <1>1 DEF IInv, KnowsItsCharge, OwnsItsPayment, Recorded
        <3>2. \A s \in Requests : s # r => (Recorded(s)' <=> Recorded(s))
            BY <2>3 DEF Recorded
        <3>3. Recorded(r)' =>
                /\ req'[r].at = "receipt"
                /\ req'[r].payment = p /\ req'[r].order = o
            BY <1>1, <2>3 DEF Recorded, Idle, Request
        <3>4. \A s \in Requests : Recorded(s)' =>
                /\ payment'[req'[s].payment] = req'[s].order
                /\ receipts'[req'[s].payment] = 0
                /\ licenses'[req'[s].payment] =
                    IF req'[s].at = "receipt" THEN 1 ELSE 0
            BY <1>1, <1>2, <2>1, <2>3, <3>1, <3>2, <3>3
            DEF IInv, OwnsItsPayment
        <3>5. \A s, t \in Requests :
                Recorded(s)' /\ Recorded(t)' /\ req'[s].payment = req'[t].payment
                    => s = t
            BY <2>3, <3>1, <3>2, <3>3 DEF IInv, OwnsItsPayment
        <3> QED BY <3>4, <3>5 DEF OwnsItsPayment
    <2>6. PaymentsAreGenuine' /\ ChargesNameOrders'
        BY <1>2 DEF IInv, PaymentsAreGenuine, ChargesNameOrders
    <2>7. OneLicensePerPayment'
        BY <1>1, <1>2, <2>1 DEF IInv, OneLicensePerPayment
    <2>8. AckedIsCharged'
        BY <1>2, <1>3, <1>5 DEF IInv, AckedIsCharged
    <2>9. PaidIsBacked'
        BY <1>1, <1>2, <1>3, <1>5 DEF IInv, PaidIsBacked
    <2> QED BY <2>2, <2>4, <2>5, <2>6, <2>7, <2>8, <2>9 DEF IInv
<1> QED BY <1>4, <1>5 DEF IssueLicense

\* The receipt is mailed once, by the request that issued the license.
LEMMA ReceiptStep ==
    ASSUME IInv, NEW r \in Requests, SendReceipt(r)
    PROVE  IInv'
<1> USE PaymentAssumption
<1> DEFINE p == req[r].payment
<1>1. /\ req[r].at = "receipt" /\ p \in PaymentIds
      /\ licenses[p] = 1 /\ receipts[p] = 0
      /\ payment[p] = req[r].order /\ req[r].order \in Orders
    BY DEF SendReceipt, IInv, KnowsItsCharge, OwnsItsPayment, Recorded
<1>2. /\ Finish(r)
      /\ UNCHANGED <<order, option, payment, licenses, late, charge, acked,
                     faults>>
    BY DEF SendReceipt, rowVars, providerVars
<1>3. CASE UNCHANGED receipts
    <2>1. TypeOK'
        BY <1>2, <1>3, SlotsTyped DEF IInv, TypeOK
    <2>2. KnowsItsCharge' /\ OwnsItsPayment'
        BY <1>2, <1>3, SlotEnds
    <2>3. /\ PaymentsAreGenuine' /\ OneLicensePerPayment'
          /\ PaidIsBacked' /\ AckedIsCharged' /\ ChargesNameOrders'
        BY <1>2, <1>3, BooksKept DEF IInv, PaidIsBacked
    <2> QED BY <2>1, <2>2, <2>3 DEF IInv
<1>4. CASE receipts' = [receipts EXCEPT ![p] = @ + 1]
    <2>1. \A q \in PaymentIds : receipts'[q] = IF q = p THEN 1 ELSE receipts[q]
        BY <1>1, <1>4 DEF IInv, TypeOK
    <2>2. TypeOK'
        <3>1. receipts' \in [PaymentIds -> Nat]
            BY <1>1, <1>4 DEF IInv, TypeOK
        <3> QED BY <3>1, <1>2, SlotsTyped DEF IInv, TypeOK
    <2>3. \A s \in Requests : req'[s] = IF s = r THEN Idle ELSE req[s]
        BY <1>2 DEF Finish, IInv, TypeOK
    <2>4. KnowsItsCharge'
        BY <1>2, <2>3 DEF IInv, KnowsItsCharge, Idle
    <2>5. OwnsItsPayment'
        <3>1. \A s \in Requests : Recorded(s)' =>
                /\ s # r /\ Recorded(s) /\ req'[s] = req[s]
            BY <2>3 DEF Recorded, Idle
        <3>2. \A s \in Requests : Recorded(s) /\ s # r =>
                /\ req[s].payment \in PaymentIds
                /\ req[s].payment # p
            BY <1>1 DEF IInv, KnowsItsCharge, OwnsItsPayment, Recorded
        <3> QED BY <3>1, <3>2, <1>2, <2>1 DEF IInv, OwnsItsPayment
    <2>6. /\ PaymentsAreGenuine' /\ ChargesNameOrders'
          /\ PaidIsBacked' /\ AckedIsCharged'
        BY <1>2 DEF IInv, PaymentsAreGenuine, ChargesNameOrders, PaidIsBacked,
                    AckedIsCharged
    <2>7. OneLicensePerPayment'
        BY <1>1, <1>2, <2>1 DEF IInv, OneLicensePerPayment
    <2> QED BY <2>2, <2>4, <2>5, <2>6, <2>7 DEF IInv
<1> QED BY <1>3, <1>4 DEF SendReceipt

\* What happens outside the service: a charge only grows, from nothing to
\* authorized to captured, and deadlines and options record no money.
LEMMA EnvironmentStep ==
    ASSUME IInv,
           \/ \E o \in Orders, p \in PaymentIds : Pay(p, o)
           \/ \E p \in PaymentIds : Capture(p)
           \/ \E o \in Orders : DeadlinePasses(o) \/ WithdrawOption(o)
    PROVE  IInv'
<1> USE PaymentAssumption
<1>1. CASE \/ \E o \in Orders, p \in PaymentIds : Pay(p, o)
           \/ \E p \in PaymentIds : Capture(p)
    <2>1. PICK p \in PaymentIds : (\E o \in Orders : Pay(p, o)) \/ Capture(p)
        BY <1>1
    <2>2. UNCHANGED <<order, option, payment, licenses, late, receipts, acked,
                      req, faults>>
        BY <2>1 DEF Pay, Capture, rowVars
    <2>3. /\ charge' \in [PaymentIds -> Charge]
          /\ \A q \in PaymentIds : q # p => charge'[q] = charge[q]
          /\ \/ charge[p].for = NULL
             \/ /\ charge[p].status = "authorized"
                /\ charge'[p] = [charge[p] EXCEPT !.status = "captured"]
          /\ charge'[p].status # "none" => charge'[p].for # NULL
        <3>1. CASE \E o \in Orders : Pay(p, o)
            BY <3>1 DEF Pay, IInv, TypeOK, Charge
        <3>2. CASE Capture(p)
            BY <3>2 DEF Capture, IInv, TypeOK, Charge, ChargesNameOrders
        <3> QED BY <2>1, <3>1, <3>2
    <2>4. charge[p] \in Charge
        BY DEF IInv, TypeOK
    <2>5. charge[p].status # "captured"
        BY <2>3 DEF IInv, ChargesNameOrders
    <2>6. TypeOK'
        BY <2>2, <2>3 DEF IInv, TypeOK
    <2>7. KnowsItsCharge'
        BY <2>2, <2>3, <2>4, <2>5 DEF IInv, KnowsItsCharge, Charge
    <2>8. OwnsItsPayment'
        BY <2>2 DEF IInv, OwnsItsPayment, Recorded
    <2>9. ChargesNameOrders' /\ AckedIsCharged' /\ PaymentsAreGenuine'
        BY <2>2, <2>3, <2>5
        DEF IInv, TypeOK, ChargesNameOrders, AckedIsCharged, PaymentsAreGenuine
    <2>10. OneLicensePerPayment'
        BY <2>2 DEF IInv, OneLicensePerPayment
    <2>11. PaidIsBacked'
        <3>1. \A q \in acked : q \in PaymentIds /\ charge'[q] = charge[q]
            BY <2>3, <2>5 DEF IInv, TypeOK, AckedIsCharged
        <3> QED BY <3>1, <2>2 DEF IInv, PaidIsBacked
    <2> QED BY <2>6, <2>7, <2>8, <2>9, <2>10, <2>11 DEF IInv
<1>2. CASE \E o \in Orders : DeadlinePasses(o) \/ WithdrawOption(o)
    <2>1. UNCHANGED <<order, payment, licenses, receipts, charge, acked, req>>
        BY <1>2 DEF DeadlinePasses, WithdrawOption, rowVars, providerVars
    <2>2. TypeOK'
        <3>1. PICK o \in Orders : DeadlinePasses(o) \/ WithdrawOption(o)
            BY <1>2
        <3>2. faults' \in 0..MaxFaults
            BY <3>1 DEF DeadlinePasses, WithdrawOption, Fault, IInv, TypeOK
        <3>3. late' \in [Orders -> BOOLEAN] /\ option' \in [Orders -> BOOLEAN]
            BY <3>1 DEF DeadlinePasses, WithdrawOption, rowVars, IInv, TypeOK
        <3> QED BY <2>1, <3>2, <3>3 DEF IInv, TypeOK
    <2>3. KnowsItsCharge' /\ OwnsItsPayment'
        BY <2>1 DEF IInv, KnowsItsCharge, OwnsItsPayment, Recorded
    <2>4. /\ PaymentsAreGenuine' /\ OneLicensePerPayment'
          /\ PaidIsBacked' /\ AckedIsCharged' /\ ChargesNameOrders'
        BY <2>1, BooksKept DEF IInv, PaidIsBacked
    <2> QED BY <2>2, <2>3, <2>4 DEF IInv
<1> QED BY <1>1, <1>2

\* Every step, and stuttering, keeps the invariant.
LEMMA StepHolds == IInv /\ [Next]_vars => IInv'
<1> SUFFICES ASSUME IInv, [Next]_vars PROVE IInv'
    OBVIOUS
<1>1. CASE \E r \in Requests : Serve(r) \/ RequestDies(r)
    BY <1>1, OrderStep, JudgeStep, InsertStep, MarkPaidStep, IssueStep,
       ReceiptStep
    DEF Serve
<1>2. CASE \E r \in Requests, o \in Orders, prov \in Providers :
                CreateOrder(r, o, prov)
    BY <1>2, OrderStep
<1>3. CASE \E r \in Requests, o \in Orders, p \in PaymentIds,
                signed \in BOOLEAN : VerifyPayment(r, o, p, signed)
    BY <1>3, JudgeStep
<1>4. CASE \E r \in Requests, p \in PaymentIds : DeliverWebhook(r, p)
    BY <1>4, JudgeStep
<1>5. CASE \/ \E o \in Orders, p \in PaymentIds : Pay(p, o)
           \/ \E p \in PaymentIds : Capture(p)
           \/ \E o \in Orders : DeadlinePasses(o) \/ WithdrawOption(o)
    BY <1>5, EnvironmentStep
<1>6. CASE UNCHANGED vars
    BY <1>6 DEF vars, rowVars, providerVars, IInv, TypeOK, ChargesNameOrders,
                KnowsItsCharge, OwnsItsPayment, Recorded, AckedIsCharged,
                PaymentsAreGenuine, OneLicensePerPayment, PaidIsBacked
<1> QED BY <1>1, <1>2, <1>3, <1>4, <1>5, <1>6 DEF Next

(***************************************************************************)
(* The theorems.                                                           *)
(***************************************************************************)

\* The strengthening holds in every reachable state: requests between two
\* statements own what they recorded, whatever other requests do meanwhile.
THEOREM Invariant == Spec => []IInv
<1> QED BY InitHolds, StepHolds, PTL DEF Spec

\* Every row, charge and request slot keeps its shape.
THEOREM TypeCorrect == Spec => []TypeOK
<1>1. IInv => TypeOK
    BY DEF IInv
<1> QED BY <1>1, Invariant, PTL

\* No payment is ever booked that a provider did not capture for that order.
THEOREM PaymentsStayGenuine == Spec => []PaymentsAreGenuine
<1>1. IInv => PaymentsAreGenuine
    BY DEF IInv
<1> QED BY <1>1, Invariant, PTL

\* However many requests report a payment, it buys one license and one receipt.
THEOREM OneLicense == Spec => []OneLicensePerPayment
<1>1. IInv => OneLicensePerPayment
    BY DEF IInv
<1> QED BY <1>1, Invariant, PTL

\* An order never reads paid, nor is a webhook acknowledged, without a payment.
THEOREM PaidAlwaysBacked == Spec => []PaidIsBacked
<1>1. IInv => PaidIsBacked
    BY DEF IInv
<1> QED BY <1>1, Invariant, PTL

=============================================================================
