---------------------------- MODULE ShopProofs ----------------------------
(***************************************************************************)
(* What holds of the parts a buyer meets for every value of their          *)
(* constants: the notification hub never touches a closed channel and      *)
(* leaves no gap in what a connection gets, the favorite counters equal    *)
(* the rows they count and a walk through the favorites is exact, and a    *)
(* client that follows the pages of the listing sees each spec once.       *)
(***************************************************************************)
EXTENDS Shop, FiniteSetTheorems, SequenceTheorems, WellFoundedInduction, TLAPS

\* A set of naturals has a least element.
LEMMA LeastNatural ==
    ASSUME NEW T, T \subseteq Nat, T # {}
    PROVE  \E x \in T : \A y \in T : x <= y
<1>1. IsWellFoundedOn(OpToRel(<, Nat), Nat)
  BY NatLessThanWellFounded
<1>2. PICK x \in T : \A y \in T : ~(<<y, x>> \in OpToRel(<, Nat))
  BY <1>1, WFMin
<1>3. \A y \in T : ~(y < x)
  BY <1>2 DEF OpToRel
<1> QED
  BY <1>3

\* Induction, as a fact about sets: the formula to prove is the set's.

----------------------------------------------------------------------------
(* The hub: its channels.                                                  *)

USE DEF Hub!db, Hub!hub, Hub!peer

\* A client of the hub has an open channel and a connection that was handed
\* over; a connection still to be handed over has not been closed.
ClientsAreOpen ==
    /\ \A c \in clients : ~closed[c] /\ reader[c] \notin {"none", "joining"}
    /\ \A c \in Conns : reader[c] \in {"none", "joining"} => ~closed[c]

\* A call that is about to push has written its row.
SendersStored == \A n \in Hub!Notes : stage[n] = "sending" => row[n].stored

\* Whoever is not handed over yet has nothing in its channel.
QuietBefore ==
    \A c \in Conns : reader[c] \in {"none", "joining"} =>
        writer[c] = "none" /\ hand[c] = 0 /\ send[c] = <<>> /\ got[c] = <<>>

\* A message is pushed once, and no connection comes from the future.
PushedOnce ==
    /\ \A i \in 1..Len(pushed) : stage[pushed[i]] = "returned"
    /\ \A c \in Conns : since[c] <= Len(pushed)

\* What StreamHasNoGap says of one connection.
Orderly(c) ==
    /\ \A i \in DOMAIN Hub!Stream(c) : \E p \in Hub!Due(c) :
        pushed[p] = Hub!Stream(c)[i] /\ Cardinality(Hub!Earlier(c, p)) = i - 1
    /\ c \in clients /\ writer[c] = "waiting" =>
        Len(Hub!Stream(c)) = Cardinality(Hub!Due(c))

HubIInv ==
    /\ Hub!TypeOK
    /\ Hub!NeverPanics
    /\ ClientsAreOpen
    /\ SendersStored
    /\ Hub!PushedIsStored
    /\ QuietBefore
    /\ PushedOnce
    /\ \A c \in Conns : Orderly(c)

----------------------------------------------------------------------------

\* A message appended to a channel or to the history.
LEMMA AppendOne ==
    ASSUME NEW S, NEW q \in Seq(S), NEW n \in S
    PROVE  /\ Append(q, n) \in Seq(S) /\ Len(q) \in Nat
           /\ Len(Append(q, n)) = Len(q) + 1
           /\ Append(q, n)[Len(q) + 1] = n
           /\ \A i \in 1..Len(q) : Append(q, n)[i] = q[i] /\ q[i] \in S
OBVIOUS

\* A message taken from a channel.
LEMMA HeadAndTail ==
    ASSUME NEW S, NEW q \in Seq(S), q # <<>>
    PROVE  /\ Head(q) \in S /\ Tail(q) \in Seq(S)
           /\ Len(q) \in Nat /\ Len(Tail(q)) = Len(q) - 1
OBVIOUS

\* A row keeps its type when its user is set or it is read.
LEMMA RowsTyped ==
    ASSUME NEW q \in Hub!Row, NEW u \in Users
    PROVE  /\ [q EXCEPT !.user = u] \in Hub!Row
           /\ [q EXCEPT !.read = TRUE] \in Hub!Row
           /\ [q EXCEPT !.user = u].stored = q.stored
           /\ [q EXCEPT !.read = TRUE].stored = q.stored
           /\ [stored |-> TRUE, user |-> u, read |-> FALSE] \in Hub!Row
BY DEF Hub!Row

\* Nothing has happened yet.
LEMMA HubInit == ASSUME Hub!HubAssumption, Hub!Init PROVE HubIInv
<1> USE DEF Hub!Init, Hub!HubAssumption
<1>1. row \in [Hub!Notes -> Hub!Row] /\ stage \in [Hub!Notes -> {"none", "sending", "returned"}]
  BY DEF Hub!Row
<1>2. /\ <<>> \in Seq(Hub!Notes) /\ Len(<<>>) = 0
      /\ send \in [Conns -> Seq(Hub!Notes)] /\ got \in [Conns -> Seq(Hub!Notes)]
      /\ \A c \in Conns : Len(send[c]) =< Limit
  OBVIOUS
<1>3. clients \subseteq Conns /\ stop \in BOOLEAN /\ running \in BOOLEAN
        /\ panicked \in BOOLEAN
  OBVIOUS
<1>4. Hub!TypeOK
  <2>1. who \in [Conns -> Users \cup {NULL}] /\ since \in [Conns -> Nat]
          /\ hand \in [Conns -> Hub!Notes \cup {0}]
    OBVIOUS
  <2>2. /\ reader \in [Conns -> {"none", "joining", "reading", "leaving", "ended"}]
        /\ writer \in [Conns -> {"none", "waiting", "ended"}]
    OBVIOUS
  <2>3. socket \in [Conns -> BOOLEAN] /\ closed \in [Conns -> BOOLEAN]
    OBVIOUS
  <2>4. pushed \in Seq(Hub!Notes) /\ lost \in 0..MaxLosses
    BY <1>2
  <2> QED
    BY <1>1, <1>2, <1>3, <2>1, <2>2, <2>3, <2>4 DEF Hub!TypeOK
<1>5. Hub!NeverPanics /\ ClientsAreOpen /\ SendersStored
  BY DEF Hub!NeverPanics, ClientsAreOpen, SendersStored
<1>6. Hub!PushedIsStored
  BY <1>2 DEF Hub!PushedIsStored
<1>7. QuietBefore /\ PushedOnce
  BY <1>2 DEF QuietBefore, PushedOnce
<1>8. ASSUME NEW c \in Conns PROVE Orderly(c)
  <2>1. Hub!Stream(c) = <<>> /\ writer[c] = "none"
    BY DEF Hub!Stream
  <2> QED
    BY <2>1 DEF Orderly
<1> QED
  BY <1>4, <1>5, <1>6, <1>7, <1>8 DEF HubIInv

\* The types alone, action by action.
LEMMA HubTypeStep == ASSUME Hub!HubAssumption, Hub!TypeOK, [Hub!Next]_Hub!vars PROVE Hub!TypeOK'
<1> USE DEF Hub!TypeOK
<1>1. ASSUME NEW n \in Hub!Notes, NEW u \in Users, Hub!Create(n, u) PROVE Hub!TypeOK'
  <2>1. row' \in [Hub!Notes -> Hub!Row]
    <3>1. row[n] \in Hub!Row
      OBVIOUS
    <3>3. CASE row' = [row EXCEPT ![n] = [stored |-> TRUE, user |-> u, read |-> FALSE]]
      BY <3>1, <3>3, RowsTyped
    <3>4. CASE row' = [row EXCEPT ![n].user = u]
      BY <3>1, <3>4, RowsTyped
    <3> QED
      BY <1>1, <3>3, <3>4 DEF Hub!Create
  <2>2. stage' \in [Hub!Notes -> {"none", "sending", "returned"}]
    BY <1>1 DEF Hub!Create, Hub!AfterInsert
  <2>3. lost' \in 0..MaxLosses
    <3>1. UNCHANGED lost \/ (lost < MaxLosses /\ lost' = lost + 1)
      BY <1>1 DEF Hub!Create
    <3> QED
      BY <3>1, Hub!HubAssumption DEF Hub!HubAssumption
  <2> QED
    BY <1>1, <2>1, <2>2, <2>3 DEF Hub!Create
<1>2. ASSUME NEW u \in Users, NEW S, Hub!MarkRead(u, S) PROVE Hub!TypeOK'
  <2>1. \A n \in Hub!Notes : row[n] \in Hub!Row
    OBVIOUS
  <2>2. row' \in [Hub!Notes -> Hub!Row]
    BY <1>2, <2>1, RowsTyped DEF Hub!MarkRead
  <2> QED
    BY <1>2, <2>2 DEF Hub!MarkRead
<1>3. ASSUME NEW n \in Hub!Notes, Hub!Unicast(n) PROVE Hub!TypeOK'
  <2>1. \A c \in Hub!To(n) \ Hub!Slow(n) : c \in Conns /\ Len(send[c]) < Limit
    BY Hub!HubAssumption DEF Hub!HubAssumption, Hub!To, Hub!Slow, Hub!IsFull
  <2>2. \A c \in Conns : send'[c] = IF c \in Hub!To(n) \ Hub!Slow(n)
                                    THEN Append(send[c], n) ELSE send[c]
    BY <1>3 DEF Hub!Unicast
  <2>3. \A q \in Seq(Hub!Notes) : /\ Append(q, n) \in Seq(Hub!Notes) /\ Len(q) \in Nat
                               /\ Len(Append(q, n)) = Len(q) + 1
    BY AppendOne
  <2>4. \A c \in Conns : send'[c] \in Seq(Hub!Notes) /\ Len(send'[c]) =< Limit
    <3> SUFFICES ASSUME NEW c \in Conns
                 PROVE  send'[c] \in Seq(Hub!Notes) /\ Len(send'[c]) =< Limit
      OBVIOUS
    <3>1. send[c] \in Seq(Hub!Notes) /\ Len(send[c]) =< Limit
      OBVIOUS
    <3>2. CASE c \in Hub!To(n) \ Hub!Slow(n)
      <4>1. send'[c] = Append(send[c], n) /\ Len(send[c]) < Limit
        BY <2>1, <2>2, <3>2
      <4> QED
        BY <2>3, <3>1, <4>1, Hub!HubAssumption DEF Hub!HubAssumption
    <3>3. CASE c \notin Hub!To(n) \ Hub!Slow(n)
      BY <2>2, <3>1, <3>3
    <3> QED
      BY <3>2, <3>3
  <2>5. send' \in [Conns -> Seq(Hub!Notes)]
    BY <1>3, <2>2, <2>4 DEF Hub!Unicast
  <2>6. panicked' \in BOOLEAN
    BY <1>3 DEF Hub!Unicast
  <2>7. closed' \in [Conns -> BOOLEAN]
    BY <1>3 DEF Hub!Unicast
  <2>8. clients' \subseteq Conns /\ pushed' \in Seq(Hub!Notes)
    BY <1>3, <2>3 DEF Hub!Unicast
  <2>9. stage' \in [Hub!Notes -> {"none", "sending", "returned"}]
    BY <1>3 DEF Hub!Unicast
  <2> QED
    BY <1>3, <2>4, <2>5, <2>6, <2>7, <2>8, <2>9 DEF Hub!Unicast
<1>4. ASSUME NEW n \in Hub!Notes, Hub!SendGivesUp(n) PROVE Hub!TypeOK'
  BY <1>4 DEF Hub!SendGivesUp
<1>5. ASSUME NEW c \in Conns, NEW u \in Users, Hub!ServeWs(c, u) PROVE Hub!TypeOK'
  BY <1>5 DEF Hub!ServeWs
<1>6. ASSUME NEW c \in Conns, Hub!Register(c) PROVE Hub!TypeOK'
  BY <1>6 DEF Hub!Register
<1>7. ASSUME NEW c \in Conns, Hub!Unregister(c) PROVE Hub!TypeOK'
  BY <1>7 DEF Hub!Unregister
<1>8. ASSUME NEW c \in Conns, Hub!JoinGivesUp(c) \/ Hub!LeaveGivesUp(c) PROVE Hub!TypeOK'
  BY <1>8 DEF Hub!JoinGivesUp, Hub!LeaveGivesUp
<1>9. ASSUME NEW c \in Conns, Hub!PeerGone(c) \/ Hub!ReadFails(c) PROVE Hub!TypeOK'
  BY <1>9 DEF Hub!PeerGone, Hub!ReadFails
<1>10. ASSUME NEW c \in Conns, Hub!Take(c) PROVE Hub!TypeOK'
  <2>1. send[c] \in Seq(Hub!Notes) /\ send[c] # <<>>
    BY <1>10 DEF Hub!Take
  <2>2. /\ Head(send[c]) \in Hub!Notes /\ Tail(send[c]) \in Seq(Hub!Notes)
        /\ Len(Tail(send[c])) = Len(send[c]) - 1 /\ Len(send[c]) \in Nat
    BY <2>1, HeadAndTail
  <2>3. hand' \in [Conns -> Hub!Notes \cup {0}]
    BY <1>10, <2>2 DEF Hub!Take
  <2>4. send' \in [Conns -> Seq(Hub!Notes)] /\ \A d \in Conns : Len(send'[d]) =< Limit
    BY <1>10, <2>2, Hub!HubAssumption DEF Hub!Take, Hub!HubAssumption
  <2> QED
    BY <1>10, <2>3, <2>4 DEF Hub!Take
<1>11. ASSUME NEW c \in Conns, Hub!Write(c) PROVE Hub!TypeOK'
  BY <1>11 DEF Hub!Write
<1>12. ASSUME NEW c \in Conns, Hub!WriterEnds(c) PROVE Hub!TypeOK'
  BY <1>12 DEF Hub!WriterEnds
<1>13. CASE Hub!Stop
  BY <1>13 DEF Hub!Stop
<1>14. CASE Hub!RunReturns
  BY <1>14 DEF Hub!RunReturns
<1>15. CASE UNCHANGED Hub!vars
  BY <1>15 DEF Hub!vars
<1> QED
  BY <1>1, <1>2, <1>3, <1>4, <1>5, <1>6, <1>7, <1>8, <1>9, <1>10, <1>11,
     <1>12, <1>13, <1>14, <1>15
     DEF Hub!Next, Hub!MarkAsRead, Hub!MarkAllAsRead, Hub!WriteFails, Hub!PingFails, Hub!HubClosed

\* A step that leaves the hub and the requests alone keeps what is stored.
LEMMA StoredStep ==
    ASSUME HubIInv, Hub!TypeOK', [Hub!Next]_Hub!vars
    PROVE  SendersStored' /\ Hub!PushedIsStored'
<1> USE DEF HubIInv, SendersStored, Hub!PushedIsStored
<1>0. /\ row \in [Hub!Notes -> Hub!Row] /\ pushed \in Seq(Hub!Notes) /\ Len(pushed) \in Nat
      /\ stage \in [Hub!Notes -> {"none", "sending", "returned"}]
  BY DEF Hub!TypeOK
<1>1. ASSUME NEW n \in Hub!Notes, NEW u \in Users, Hub!Create(n, u)
      PROVE  SendersStored' /\ Hub!PushedIsStored'
  <2>1. \A i \in 1..Len(pushed) : pushed[i] \in Hub!Notes
    BY <1>0
  <2>2. \A m \in Hub!Notes : row[m].stored => row'[m].stored
    <3>1. CASE row' = [row EXCEPT ![n] = [stored |-> TRUE, user |-> u, read |-> FALSE]]
      BY <1>0, <3>1
    <3>2. CASE row' = [row EXCEPT ![n].user = u]
      <4>1. \A m \in Hub!Notes : row'[m] = IF m = n THEN [row[n] EXCEPT !.user = u] ELSE row[m]
        BY <1>0, <3>2
      <4> QED
        <5>1. [row[n] EXCEPT !.user = u].stored = row[n].stored
          BY <1>0, RowsTyped
        <5> QED
          BY <4>1, <5>1
    <3> QED
      BY <1>1, <3>1, <3>2 DEF Hub!Create
  <2>3. SendersStored'
    BY <1>0, <1>1, <2>2 DEF Hub!Create, Hub!AfterInsert
  <2> QED
    BY <1>1, <2>1, <2>2, <2>3 DEF Hub!Create
<1>2. ASSUME NEW u \in Users, NEW S, Hub!MarkRead(u, S)
      PROVE  SendersStored' /\ Hub!PushedIsStored'
  <2>1. \A i \in 1..Len(pushed) : pushed[i] \in Hub!Notes
    BY <1>0
  <2>2. \A m \in Hub!Notes : row[m].stored => row'[m].stored
    BY <1>0, <1>2, RowsTyped DEF Hub!MarkRead
  <2> QED
    BY <1>2, <2>1, <2>2 DEF Hub!MarkRead
<1>3. ASSUME NEW n \in Hub!Notes, Hub!Unicast(n)
      PROVE  SendersStored' /\ Hub!PushedIsStored'
  <2>1. /\ Len(pushed') = Len(pushed) + 1 /\ pushed'[Len(pushed) + 1] = n
        /\ \A i \in 1..Len(pushed) : pushed'[i] = pushed[i]
    BY <1>0, <1>3, AppendOne DEF Hub!Unicast
  <2>2. row[n].stored /\ UNCHANGED row
    BY <1>3 DEF Hub!Unicast
  <2>3. \A i \in 1..Len(pushed') : row'[pushed'[i]].stored
    <3> SUFFICES ASSUME NEW i \in 1..Len(pushed') PROVE row'[pushed'[i]].stored
      OBVIOUS
    <3>1. CASE i = Len(pushed) + 1
      BY <2>1, <2>2, <3>1
    <3>2. CASE i # Len(pushed) + 1
      <4>1. i \in 1..Len(pushed)
        BY <1>0, <2>1, <3>2
      <4> QED
        BY <2>1, <2>2, <4>1
    <3> QED
      BY <3>1, <3>2
  <2>4. SendersStored'
    BY <1>0, <1>3 DEF Hub!Unicast
  <2> QED
    BY <2>3, <2>4
<1>4. ASSUME NEW n \in Hub!Notes, Hub!SendGivesUp(n)
      PROVE  SendersStored' /\ Hub!PushedIsStored'
  BY <1>0, <1>4 DEF Hub!SendGivesUp
<1>5. CASE UNCHANGED <<row, stage, pushed>>
  BY <1>5
<1> QED
  BY <1>1, <1>2, <1>3, <1>4, <1>5
     DEF Hub!Next, Hub!MarkAsRead, Hub!MarkAllAsRead, Hub!ServeWs, Hub!Register, Hub!Unregister,
         Hub!JoinGivesUp, Hub!LeaveGivesUp, Hub!PeerGone, Hub!ReadFails, Hub!Take, Hub!Write,
         Hub!WriteFails, Hub!PingFails, Hub!HubClosed, Hub!WriterEnds, Hub!Stop, Hub!RunReturns, Hub!vars

\* Whoever closes a channel takes the client out of the hub in the same step,
\* and only a connection that was never handed over is taken in.
LEMMA OpenStep ==
    ASSUME HubIInv, Hub!TypeOK', [Hub!Next]_Hub!vars
    PROVE  Hub!NeverPanics' /\ ClientsAreOpen'
<1> USE DEF HubIInv, Hub!TypeOK, Hub!NeverPanics, ClientsAreOpen
<1>1. ASSUME NEW c \in Conns, Hub!Register(c) PROVE Hub!NeverPanics' /\ ClientsAreOpen'
  BY <1>1 DEF Hub!Register
<1>2. ASSUME NEW c \in Conns, Hub!Unregister(c) PROVE Hub!NeverPanics' /\ ClientsAreOpen'
  BY <1>2 DEF Hub!Unregister, Hub!Registered
<1>3. ASSUME NEW n \in Hub!Notes, Hub!Unicast(n) PROVE Hub!NeverPanics' /\ ClientsAreOpen'
  <2>1. Hub!To(n) \subseteq clients /\ Hub!Dropped(n) \subseteq clients
    BY DEF Hub!To, Hub!Slow, Hub!Dropped
  <2>2. \A c \in Conns : closed'[c] <=> closed[c] \/ c \in Hub!Dropped(n)
    BY <1>3 DEF Hub!Unicast
  <2>3. ~panicked'
    BY <1>3, <2>1 DEF Hub!Unicast
  <2>4. \A c \in clients' : c \in clients /\ ~closed'[c]
    BY <1>3, <2>2 DEF Hub!Unicast
  <2>5. UNCHANGED reader
    BY <1>3 DEF Hub!Unicast
  <2>6. ClientsAreOpen'
    BY <2>1, <2>2, <2>4, <2>5
  <2> QED
    BY <2>3, <2>6
<1>4. CASE Hub!RunReturns
  BY <1>4 DEF Hub!RunReturns
<1>5. ASSUME NEW c \in Conns, Hub!JoinGivesUp(c) \/ Hub!LeaveGivesUp(c) \/ Hub!ReadFails(c)
      PROVE  Hub!NeverPanics' /\ ClientsAreOpen'
  <2>1. /\ UNCHANGED <<panicked, clients, closed>>
        /\ \A d \in Conns \ {c} : reader'[d] = reader[d]
        /\ reader'[c] \in {"reading", "leaving", "ended"}
    <3>1. CASE Hub!JoinGivesUp(c)
      BY <3>1 DEF Hub!JoinGivesUp
    <3>2. CASE Hub!LeaveGivesUp(c)
      BY <3>2 DEF Hub!LeaveGivesUp
    <3>3. CASE Hub!ReadFails(c)
      BY <3>3 DEF Hub!ReadFails
    <3> QED
      BY <1>5, <3>1, <3>2, <3>3
  <2> QED
    BY <2>1
<1>6. ASSUME NEW c \in Conns, NEW u \in Users, Hub!ServeWs(c, u)
      PROVE  Hub!NeverPanics' /\ ClientsAreOpen'
  BY <1>6 DEF Hub!ServeWs
<1>7. CASE UNCHANGED <<panicked, clients, closed, reader>>
  BY <1>7
<1> QED
  BY <1>1, <1>2, <1>3, <1>4, <1>5, <1>6, <1>7
     DEF Hub!Next, Hub!Create, Hub!MarkAsRead, Hub!MarkAllAsRead, Hub!MarkRead, Hub!SendGivesUp,
         Hub!PeerGone, Hub!Take, Hub!Write, Hub!WriteFails, Hub!PingFails, Hub!HubClosed, Hub!WriterEnds,
         Hub!Stop, Hub!vars

----------------------------------------------------------------------------
(* The streams.                                                            *)

\* Cardinality, seen through an instance, is Cardinality.
LEMMA HubCard == \A S : Hub!Cardinality(S) = Cardinality(S)
BY DEF Hub!Cardinality, Cardinality

\* What was sent, is in hand and is waiting, in that order.
Line(g, x, s) == g \o (x \o s)
Added(s, n) == Append(s, n)

\* A message that the writer takes, and then writes, keeps its place ...
LEMMA StreamTaken ==
    ASSUME NEW S, NEW g \in Seq(S), NEW s \in Seq(S), s # <<>>
    PROVE  Line(g, <<Head(s)>>, Tail(s)) = Line(g, <<>>, s)
<1>1. <<>> \o s = s /\ <<Head(s)>> \o Tail(s) = s
  OBVIOUS
<1> QED
  BY <1>1 DEF Line

\* (the same when it is written)
LEMMA StreamWritten ==
    ASSUME NEW S, NEW g \in Seq(S), NEW s \in Seq(S), NEW h \in S
    PROVE  Line(Added(g, h), <<>>, s) = Line(g, <<h>>, s)
<1>1. <<>> \o s = s /\ <<h>> \in Seq(S)
  OBVIOUS
<1>2. Append(g, h) = g \o <<h>>
  BY AppendIsConcat
<1>3. (g \o <<h>>) \o s = g \o (<<h>> \o s)
  BY <1>1, ConcatAssociative
<1> QED
  BY <1>1, <1>2, <1>3 DEF Line, Added

\* ... and a message that is put into the channel comes last.
LEMMA StreamGrows ==
    ASSUME NEW S, NEW g \in Seq(S), NEW x \in Seq(S), NEW s \in Seq(S), NEW n \in S
    PROVE  Line(g, x, Added(s, n)) = Added(Line(g, x, s), n)
<1>1. <<n>> \in Seq(S) /\ x \o s \in Seq(S)
  BY ConcatProperties
<1>2. g \o (x \o s) \in Seq(S)
  BY <1>1, ConcatProperties
<1>3. Append(s, n) = s \o <<n>>
  BY AppendIsConcat
<1>4. x \o (s \o <<n>>) = (x \o s) \o <<n>>
  BY <1>1, ConcatAssociative
<1>5. g \o ((x \o s) \o <<n>>) = (g \o (x \o s)) \o <<n>>
  BY <1>1, ConcatAssociative
<1>6. Append(g \o (x \o s), n) = (g \o (x \o s)) \o <<n>>
  BY <1>2, AppendIsConcat
<1> QED
  BY <1>3, <1>4, <1>5, <1>6 DEF Line, Added

\* What the writer of a connection has in hand.
Held(c) == IF hand[c] = 0 THEN <<>> ELSE <<hand[c]>>

\* The stream of a connection whose writer lives, and of one whose writer ended.
LEMMA StreamIs ==
    ASSUME Hub!TypeOK, NEW c \in Conns
    PROVE  /\ Hub!Stream(c) \in Seq(Hub!Notes) /\ Len(Hub!Stream(c)) \in Nat
           /\ DOMAIN Hub!Stream(c) = 1..Len(Hub!Stream(c))
           /\ writer[c] = "waiting" => Hub!Stream(c) = got[c] \o (Held(c) \o send[c])
           /\ writer[c] # "waiting" => Hub!Stream(c) = got[c]
           /\ got[c] \in Seq(Hub!Notes) /\ send[c] \in Seq(Hub!Notes)
           /\ Held(c) \in Seq(Hub!Notes)
<1>1. got[c] \in Seq(Hub!Notes) /\ send[c] \in Seq(Hub!Notes) /\ hand[c] \in Hub!Notes \cup {0}
  BY DEF Hub!TypeOK
<1>2. Held(c) \in Seq(Hub!Notes)
  BY <1>1 DEF Held
<1>3. Held(c) \o send[c] \in Seq(Hub!Notes) /\ got[c] \o (Held(c) \o send[c]) \in Seq(Hub!Notes)
  BY <1>1, <1>2, ConcatProperties
<1>6. \A q \in Seq(Hub!Notes) : Len(q) \in Nat /\ DOMAIN q = 1..Len(q)
  OBVIOUS
<1>4. CASE writer[c] = "waiting"
  <2>1. Hub!Stream(c) = got[c] \o (Held(c) \o send[c])
    BY <1>4 DEF Hub!Stream, Held
  <2>2. Hub!Stream(c) \in Seq(Hub!Notes)
    BY <1>3, <2>1
  <2> QED
    BY <1>1, <1>2, <1>4, <2>1, <2>2, <1>6
<1>5. CASE writer[c] # "waiting"
  <2>1. Hub!Stream(c) = got[c]
    <3>1. Hub!Stream(c) = got[c] \o <<>>
      BY <1>5 DEF Hub!Stream
    <3> QED
      BY <1>1, <3>1
  <2> QED
    BY <1>1, <1>2, <1>5, <2>1, <1>6
<1> QED
  BY <1>4, <1>5

\* The same after a step.
LEMMA StreamIsThen ==
    ASSUME Hub!TypeOK', NEW c \in Conns
    PROVE  /\ Hub!Stream(c)' \in Seq(Hub!Notes) /\ Len(Hub!Stream(c)') \in Nat
           /\ DOMAIN Hub!Stream(c)' = 1..Len(Hub!Stream(c)')
           /\ writer'[c] = "waiting" => Hub!Stream(c)' = got'[c] \o (Held(c)' \o send'[c])
           /\ writer'[c] # "waiting" => Hub!Stream(c)' = got'[c]
<1>1. got'[c] \in Seq(Hub!Notes) /\ send'[c] \in Seq(Hub!Notes) /\ hand'[c] \in Hub!Notes \cup {0}
  BY DEF Hub!TypeOK
<1>2. Held(c)' \in Seq(Hub!Notes)
  BY <1>1 DEF Held
<1>3. Held(c)' \o send'[c] \in Seq(Hub!Notes) /\ got'[c] \o (Held(c)' \o send'[c]) \in Seq(Hub!Notes)
  BY <1>1, <1>2, ConcatProperties
<1>6. \A q \in Seq(Hub!Notes) : Len(q) \in Nat /\ DOMAIN q = 1..Len(q)
  OBVIOUS
<1>4. CASE writer'[c] = "waiting"
  <2>1. Hub!Stream(c)' = got'[c] \o (Held(c)' \o send'[c])
    BY <1>4 DEF Hub!Stream, Held
  <2>2. Hub!Stream(c)' \in Seq(Hub!Notes)
    BY <1>3, <2>1
  <2> QED
    BY <1>1, <1>2, <1>4, <2>1, <2>2, <1>6
<1>5. CASE writer'[c] # "waiting"
  <2>1. Hub!Stream(c)' = got'[c]
    <3>1. Hub!Stream(c)' = got'[c] \o <<>>
      BY <1>5 DEF Hub!Stream
    <3> QED
      BY <1>1, <3>1
  <2> QED
    BY <1>1, <1>2, <1>5, <2>1, <1>6
<1> QED
  BY <1>4, <1>5

\* A finite number of messages is due.
LEMMA DueFinite ==
    ASSUME Hub!TypeOK, NEW c \in Conns
    PROVE  /\ IsFiniteSet(Hub!Due(c)) /\ Cardinality(Hub!Due(c)) \in Nat
           /\ Hub!Due(c) \subseteq 1..Len(pushed)
<1>1. Len(pushed) \in Nat /\ Hub!Due(c) \subseteq 1..Len(pushed)
  BY DEF Hub!TypeOK, Hub!Due
<1>2. IsFiniteSet(1..Len(pushed))
  BY <1>1, FS_Interval
<1> QED
  BY <1>1, <1>2, FS_Subset, FS_CardinalityType

\* Messages stay due while their rows keep their user.
LEMMA DueKept ==
    ASSUME NEW c \in Conns, UNCHANGED <<pushed, since, who>>,
           \A p \in 1..Len(pushed) : row'[pushed[p]].user = row[pushed[p]].user
    PROVE  Hub!Due(c)' = Hub!Due(c)
BY DEF Hub!Due

\* What keeps a connection in order: nothing new is due, and its stream is
\* cut short at most, which a connection of the hub's clients cannot be.
LEMMA OrderKept ==
    ASSUME Hub!TypeOK, Hub!TypeOK', NEW c \in Conns, Orderly(c),
           pushed' = pushed, Hub!Due(c)' = Hub!Due(c),
           Len(Hub!Stream(c)') <= Len(Hub!Stream(c)),
           \A i \in 1..Len(Hub!Stream(c)') : Hub!Stream(c)'[i] = Hub!Stream(c)[i],
           (c \in clients' /\ writer'[c] = "waiting") =>
               /\ c \in clients /\ writer[c] = "waiting"
               /\ Hub!Stream(c)' = Hub!Stream(c)
    PROVE  Orderly(c)'
<1>1. /\ DOMAIN Hub!Stream(c)' = 1..Len(Hub!Stream(c)') /\ Len(Hub!Stream(c)') \in Nat
      /\ DOMAIN Hub!Stream(c) = 1..Len(Hub!Stream(c)) /\ Len(Hub!Stream(c)) \in Nat
  BY StreamIs, StreamIsThen
<1>2. ASSUME NEW i \in DOMAIN Hub!Stream(c)'
      PROVE  \E p \in Hub!Due(c)' : /\ pushed'[p] = Hub!Stream(c)'[i]
                                    /\ Cardinality(Hub!Earlier(c, p)') = i - 1
  <2>1. i \in 1..Len(Hub!Stream(c)') /\ i \in DOMAIN Hub!Stream(c)
    BY <1>1, <1>2
  <2>2. PICK p \in Hub!Due(c) : /\ pushed[p] = Hub!Stream(c)[i]
                                /\ Cardinality(Hub!Earlier(c, p)) = i - 1
    BY <2>1 DEF Orderly
  <2>3. Hub!Earlier(c, p)' = Hub!Earlier(c, p)
    BY DEF Hub!Earlier
  <2> QED
    BY <2>1, <2>2, <2>3
<1>3. c \in clients' /\ writer'[c] = "waiting" =>
          Len(Hub!Stream(c)') = Cardinality(Hub!Due(c)')
  BY DEF Orderly
<1> QED
  BY <1>2, <1>3 DEF Orderly

\* A connection nothing happens to.
LEMMA OrderUntouched ==
    ASSUME Hub!TypeOK, Hub!TypeOK', NEW c \in Conns, Orderly(c),
           pushed' = pushed, Hub!Due(c)' = Hub!Due(c), c \in clients' => c \in clients,
           got'[c] = got[c], hand'[c] = hand[c], send'[c] = send[c], writer'[c] = writer[c]
    PROVE  Orderly(c)'
<1>1. Hub!Stream(c)' = Hub!Stream(c)
  BY DEF Hub!Stream
<1>2. Len(Hub!Stream(c)) \in Nat
  BY StreamIs
<1> QED
  BY <1>1, <1>2, OrderKept

\* A stream cut short.
LEMMA CutShort ==
    \A S : \A g, s \in Seq(S) : \A a, b :
        a = g /\ b = g \o s => Len(a) <= Len(b) /\ \A i \in 1..Len(a) : b[i] = a[i]
OBVIOUS

\* A connection whose writer ends keeps what the peer got.
LEMMA OrderCut ==
    ASSUME Hub!TypeOK, Hub!TypeOK', NEW c \in Conns, Orderly(c),
           pushed' = pushed, Hub!Due(c)' = Hub!Due(c), clients' = clients,
           got'[c] = got[c], writer[c] = "waiting", writer'[c] = "ended"
    PROVE  Orderly(c)'
<1>1. /\ Hub!Stream(c)' = got[c] /\ Hub!Stream(c) = got[c] \o (Held(c) \o send[c])
      /\ got[c] \in Seq(Hub!Notes) /\ Held(c) \o send[c] \in Seq(Hub!Notes)
  <2>1. /\ Hub!Stream(c) = got[c] \o (Held(c) \o send[c])
        /\ got[c] \in Seq(Hub!Notes) /\ Held(c) \in Seq(Hub!Notes) /\ send[c] \in Seq(Hub!Notes)
    BY StreamIs
  <2>2. Hub!Stream(c)' = got[c]
    BY StreamIsThen
  <2> QED
    BY <2>1, <2>2, ConcatProperties
<1>3. /\ Len(Hub!Stream(c)') <= Len(Hub!Stream(c))
      /\ \A i \in 1..Len(Hub!Stream(c)') : Hub!Stream(c)'[i] = Hub!Stream(c)[i]
  <2> DEFINE before == Hub!Stream(c)
             after == Hub!Stream(c)'
             rest == Held(c) \o send[c]
  <2>1. /\ after = got[c] /\ before = got[c] \o rest
        /\ got[c] \in Seq(Hub!Notes) /\ rest \in Seq(Hub!Notes)
    BY <1>1
  <2> HIDE DEF before, after, rest
  <2>2. Len(after) <= Len(before) /\ \A i \in 1..Len(after) : before[i] = after[i]
    BY <2>1, CutShort
  <2> QED
    BY <2>2 DEF before, after
<1>4. ~(c \in clients' /\ writer'[c] = "waiting")
  OBVIOUS
<1> QED
  BY <1>3, <1>4, OrderKept

\* A message pushed becomes due on the connections of its user, after all
\* that was due before.
LEMMA DueGrows ==
    ASSUME Hub!TypeOK, PushedOnce, NEW n \in Hub!Notes, Hub!Unicast(n), NEW c \in Conns
    PROVE  /\ Hub!Due(c)' = IF row[n].user = who[c] THEN Hub!Due(c) \cup {Len(pushed) + 1}
                                                    ELSE Hub!Due(c)
           /\ pushed'[Len(pushed) + 1] = n
           /\ \A p \in Hub!Due(c) : pushed'[p] = pushed[p] /\ p < Len(pushed) + 1
           /\ \A m : m = Len(pushed) + 1 => Hub!Earlier(c, m)' = Hub!Due(c)
           /\ \A p \in Hub!Due(c) : Hub!Earlier(c, p)' = Hub!Earlier(c, p)
<1>1. /\ Len(pushed) \in Nat /\ Len(pushed') = Len(pushed) + 1
      /\ pushed'[Len(pushed) + 1] = n
      /\ \A i \in 1..Len(pushed) : pushed'[i] = pushed[i]
  <2>1. pushed \in Seq(Hub!Notes) /\ pushed' = Append(pushed, n)
    BY DEF Hub!TypeOK, Hub!Unicast
  <2> QED
    BY <2>1, AppendOne
<1>2. UNCHANGED <<row, who, since>>
  BY DEF Hub!Unicast
<1>3. since[c] \in Nat /\ since[c] <= Len(pushed)
  BY DEF Hub!TypeOK, PushedOnce
<1>4. 1..(Len(pushed) + 1) = (1..Len(pushed)) \cup {Len(pushed) + 1}
  BY <1>1
<1>5. Hub!Due(c)' = {p \in 1..(Len(pushed) + 1) :
                        p > since[c] /\ row[pushed'[p]].user = who[c]}
  BY <1>1, <1>2 DEF Hub!Due
<1>6. Hub!Due(c)' = IF row[n].user = who[c] THEN Hub!Due(c) \cup {Len(pushed) + 1}
                                            ELSE Hub!Due(c)
  <2>1. Len(pushed) + 1 > since[c]
    BY <1>1, <1>3
  <2>2. \A p \in 1..(Len(pushed) + 1) : p \in 1..Len(pushed) \/ p = Len(pushed) + 1
    BY <1>4
  <2>3. \A p : p \in Hub!Due(c) <=> /\ p \in 1..Len(pushed) /\ p > since[c]
                                    /\ row[pushed[p]].user = who[c]
    BY DEF Hub!Due
  <2>4. \A p : p \in Hub!Due(c)' <=>
                   p \in Hub!Due(c) \/ (p = Len(pushed) + 1 /\ row[n].user = who[c])
    BY <1>1, <1>4, <1>5, <2>1, <2>2, <2>3
  <2> QED
    BY <2>4
<1>7. \A p \in Hub!Due(c) : pushed'[p] = pushed[p] /\ p < Len(pushed) + 1 /\ p \in Nat
  BY <1>1 DEF Hub!Due
<1>8. \A m : m = Len(pushed) + 1 => Hub!Earlier(c, m)' = Hub!Due(c)
  BY <1>1, <1>6, <1>7 DEF Hub!Earlier
<1>9. \A p \in Hub!Due(c) : Hub!Earlier(c, p)' = Hub!Earlier(c, p)
  <2> SUFFICES ASSUME NEW p \in Hub!Due(c)
               PROVE  {q \in Hub!Due(c)' : q < p} = {q \in Hub!Due(c) : q < p}
    BY DEF Hub!Earlier
  <2>1. p < Len(pushed) + 1 /\ p \in Nat /\ ~(Len(pushed) + 1 < p)
    BY <1>1, <1>7
  <2> QED
    BY <1>6, <2>1
<1> QED
  BY <1>1, <1>6, <1>7, <1>8, <1>9

\* The hub takes a message.
LEMMA OrderPushed ==
    ASSUME HubIInv, Hub!TypeOK', NEW n \in Hub!Notes, Hub!Unicast(n), NEW c \in Conns
    PROVE  Orderly(c)'
<1>0. Hub!TypeOK /\ PushedOnce /\ Orderly(c)
  BY DEF HubIInv
<1>1. UNCHANGED <<writer, got, hand, who>> /\ Held(c)' = Held(c)
  BY DEF Hub!Unicast, Held
<1>2. /\ Hub!Stream(c) \in Seq(Hub!Notes) /\ Len(Hub!Stream(c)) \in Nat
      /\ DOMAIN Hub!Stream(c) = 1..Len(Hub!Stream(c))
      /\ DOMAIN Hub!Stream(c)' = 1..Len(Hub!Stream(c)')
  BY <1>0, StreamIs, StreamIsThen
<1>3. send'[c] = IF c \in Hub!To(n) \ Hub!Slow(n) THEN Append(send[c], n) ELSE send[c]
  BY DEF Hub!Unicast
<1>4. \A i \in 1..Len(Hub!Stream(c)) : \E p \in Hub!Due(c)' :
          pushed'[p] = Hub!Stream(c)[i] /\ Cardinality(Hub!Earlier(c, p)') = i - 1
  <2> TAKE i \in 1..Len(Hub!Stream(c))
  <2>1. PICK p \in Hub!Due(c) : /\ pushed[p] = Hub!Stream(c)[i]
                                /\ Cardinality(Hub!Earlier(c, p)) = i - 1
    BY <1>0, <1>2 DEF Orderly
  <2>2. p \in Hub!Due(c)' /\ pushed'[p] = pushed[p] /\ Hub!Earlier(c, p)' = Hub!Earlier(c, p)
    BY <1>0, DueGrows
  <2> QED
    BY <2>1, <2>2
<1>5. CASE c \in Hub!To(n) \ Hub!Slow(n) /\ writer[c] = "waiting"
  <2>1. Hub!Stream(c)' = Append(Hub!Stream(c), n)
    <3>1. Hub!Stream(c) = got[c] \o (Held(c) \o send[c])
      BY <1>0, <1>5, StreamIs
    <3>2. Hub!Stream(c)' = got[c] \o (Held(c) \o Append(send[c], n))
      BY <1>1, <1>3, <1>5, StreamIsThen
    <3>3. got[c] \in Seq(Hub!Notes) /\ Held(c) \in Seq(Hub!Notes) /\ send[c] \in Seq(Hub!Notes)
      BY <1>0, StreamIs
    <3>4. Line(got[c], Held(c), Added(send[c], n)) = Added(Line(got[c], Held(c), send[c]), n)
      BY <3>3, StreamGrows
    <3> QED
      BY <3>1, <3>2, <3>4 DEF Line, Added
  <2>2. c \in clients /\ row[n].user = who[c]
    BY <1>5 DEF Hub!To
  <2>3. Len(Hub!Stream(c)) = Cardinality(Hub!Due(c))
    BY <1>0, <1>5, <2>2 DEF Orderly
  <2>4. /\ Hub!Due(c)' = Hub!Due(c) \cup {Len(pushed) + 1}
        /\ Len(pushed) + 1 \notin Hub!Due(c)
        /\ pushed'[Len(pushed) + 1] = n
        /\ \A m : m = Len(pushed) + 1 => Hub!Earlier(c, m)' = Hub!Due(c)
    <3>1. Len(pushed) \in Nat
      BY <1>0 DEF Hub!TypeOK
    <3>2. \A p \in Hub!Due(c) : p < Len(pushed) + 1
      BY <1>0, DueGrows
    <3> QED
      BY <1>0, <2>2, <3>1, <3>2, DueGrows
  <2>5. Cardinality(Hub!Due(c)') = Cardinality(Hub!Due(c)) + 1
    BY <1>0, <2>4, DueFinite, FS_AddElement
  <2>6. /\ Len(Hub!Stream(c)') = Len(Hub!Stream(c)) + 1
        /\ Hub!Stream(c)'[Len(Hub!Stream(c)) + 1] = n
        /\ \A i \in 1..Len(Hub!Stream(c)) : Hub!Stream(c)'[i] = Hub!Stream(c)[i]
    BY <1>2, <2>1, AppendOne
  <2>7. ASSUME NEW i \in DOMAIN Hub!Stream(c)'
        PROVE  \E p \in Hub!Due(c)' : /\ pushed'[p] = Hub!Stream(c)'[i]
                                      /\ Cardinality(Hub!Earlier(c, p)') = i - 1
    <3>1. CASE i \in 1..Len(Hub!Stream(c))
      BY <1>4, <2>6, <3>1
    <3>2. CASE i = Len(Hub!Stream(c)) + 1
      <4>1. PICK m : m = Len(pushed) + 1
        OBVIOUS
      <4>2. m \in Hub!Due(c)' /\ i - 1 = Cardinality(Hub!Due(c))
        BY <1>2, <2>3, <2>4, <3>2, <4>1
      <4>3. Hub!Earlier(c, m)' = Hub!Due(c) /\ pushed'[m] = n
        BY <2>4, <4>1
      <4>4. Hub!Stream(c)'[i] = n
        BY <2>6, <3>2
      <4> QED
        BY <4>2, <4>3, <4>4
    <3> QED
      BY <1>2, <2>6, <3>1, <3>2
  <2>8. Len(Hub!Stream(c)') = Cardinality(Hub!Due(c)')
    BY <2>3, <2>5, <2>6
  <2> QED
    BY <2>7, <2>8 DEF Orderly
<1>6. CASE ~(c \in Hub!To(n) \ Hub!Slow(n) /\ writer[c] = "waiting")
  <2>1. Hub!Stream(c)' = Hub!Stream(c)
    <3>1. CASE writer[c] # "waiting"
      BY <1>0, <1>1, <3>1, StreamIs, StreamIsThen
    <3>2. CASE c \notin Hub!To(n) \ Hub!Slow(n)
      <4>1. send'[c] = send[c]
        BY <1>3, <3>2
      <4> QED
        BY <1>1, <4>1 DEF Hub!Stream
    <3> QED
      BY <1>6, <3>1, <3>2
  <2>2. \A i \in DOMAIN Hub!Stream(c)' : \E p \in Hub!Due(c)' :
            pushed'[p] = Hub!Stream(c)'[i] /\ Cardinality(Hub!Earlier(c, p)') = i - 1
    BY <1>2, <1>4, <2>1
  <2>3. ASSUME c \in clients', writer'[c] = "waiting"
        PROVE  Len(Hub!Stream(c)') = Cardinality(Hub!Due(c)')
    <3>1. c \in clients /\ c \notin Hub!Slow(n)
      BY <2>3 DEF Hub!Unicast, Hub!Dropped
    <3>2. c \notin Hub!To(n)
      BY <1>1, <1>6, <2>3, <3>1
    <3>3. row[n].user # who[c]
      BY <3>1, <3>2 DEF Hub!To
    <3>4. Hub!Due(c)' = Hub!Due(c)
      BY <1>0, <3>3, DueGrows
    <3> QED
      BY <1>0, <1>1, <2>1, <2>3, <3>1, <3>4 DEF Orderly
  <2> QED
    BY <2>2, <2>3 DEF Orderly
<1> QED
  BY <1>5, <1>6

\* No step gives anything to a connection that was not handed over, and the
\* call whose message is pushed returns in the same step.
LEMMA QuietStep ==
    ASSUME HubIInv, Hub!TypeOK', Hub!Next
    PROVE  QuietBefore' /\ PushedOnce'
<1>0. /\ Hub!TypeOK /\ QuietBefore /\ PushedOnce /\ ClientsAreOpen
      /\ pushed \in Seq(Hub!Notes) /\ Len(pushed) \in Nat
      /\ stage \in [Hub!Notes -> {"none", "sending", "returned"}]
      /\ since \in [Conns -> Nat]
      /\ \A i \in 1..Len(pushed) : pushed[i] \in Hub!Notes
  BY DEF HubIInv, Hub!TypeOK
<1>1. ASSUME NEW n \in Hub!Notes, NEW u \in Users, Hub!Create(n, u)
      PROVE  QuietBefore' /\ PushedOnce'
  <2>1. PushedOnce'
    BY <1>0, <1>1 DEF Hub!Create, PushedOnce
  <2> QED
    BY <1>0, <1>1, <2>1 DEF Hub!Create, QuietBefore
<1>2. ASSUME NEW u \in Users, NEW S, Hub!MarkRead(u, S)
      PROVE  QuietBefore' /\ PushedOnce'
  BY <1>0, <1>2 DEF Hub!MarkRead, QuietBefore, PushedOnce
<1>3. ASSUME NEW n \in Hub!Notes, Hub!Unicast(n)
      PROVE  QuietBefore' /\ PushedOnce'
  <2>1. /\ Len(pushed') = Len(pushed) + 1 /\ pushed'[Len(pushed) + 1] = n
        /\ \A i \in 1..Len(pushed) : pushed'[i] = pushed[i]
    BY <1>0, <1>3, AppendOne DEF Hub!Unicast
  <2>2. ASSUME NEW i \in 1..Len(pushed') PROVE stage'[pushed'[i]] = "returned"
    <3>1. CASE i = Len(pushed) + 1
      BY <1>0, <1>3, <2>1, <3>1 DEF Hub!Unicast
    <3>2. CASE i # Len(pushed) + 1
      <4>1. i \in 1..Len(pushed)
        BY <1>0, <2>1, <3>2
      <4> QED
        BY <1>0, <1>3, <2>1, <4>1 DEF Hub!Unicast, PushedOnce
    <3> QED
      BY <3>1, <3>2
  <2>3. \A c \in Conns : since'[c] <= Len(pushed')
    <3>1. \A c \in Conns : since'[c] = since[c] /\ since[c] \in Nat /\ since[c] <= Len(pushed)
      BY <1>0, <1>3 DEF Hub!Unicast, PushedOnce
    <3> QED
      BY <1>0, <2>1, <3>1
  <2>4. ASSUME NEW c \in Conns, reader'[c] \in {"none", "joining"}
        PROVE  writer'[c] = "none" /\ hand'[c] = 0 /\ send'[c] = <<>> /\ got'[c] = <<>>
    <3>1. /\ reader' = reader /\ writer' = writer /\ hand' = hand /\ got' = got
          /\ send'[c] = IF c \in Hub!To(n) \ Hub!Slow(n) THEN Append(send[c], n) ELSE send[c]
      BY <1>3 DEF Hub!Unicast
    <3>2. c \notin Hub!To(n)
      BY <1>0, <2>4, <3>1 DEF ClientsAreOpen, Hub!To
    <3> QED
      BY <1>0, <2>4, <3>1, <3>2 DEF QuietBefore
  <2> QED
    BY <2>2, <2>3, <2>4 DEF QuietBefore, PushedOnce
<1>4. ASSUME NEW n \in Hub!Notes, Hub!SendGivesUp(n)
      PROVE  QuietBefore' /\ PushedOnce'
  BY <1>0, <1>4 DEF Hub!SendGivesUp, QuietBefore, PushedOnce
<1>5. ASSUME NEW c \in Conns, Hub!Register(c)
      PROVE  QuietBefore' /\ PushedOnce'
  <2>1. QuietBefore'
    <3>1. /\ UNCHANGED <<hand, send, got>> /\ reader'[c] = "reading"
          /\ \A d \in Conns \ {c} : reader'[d] = reader[d] /\ writer'[d] = writer[d]
      BY <1>0, <1>5 DEF Hub!Register, Hub!TypeOK
    <3> QED
      BY <1>0, <3>1 DEF QuietBefore
  <2>2. PushedOnce'
    BY <1>0, <1>5 DEF Hub!Register, PushedOnce
  <2> QED
    BY <2>1, <2>2
<1>6. ASSUME NEW c \in Conns, NEW u \in Users, Hub!ServeWs(c, u)
      PROVE  QuietBefore' /\ PushedOnce'
  BY <1>0, <1>6 DEF Hub!ServeWs, QuietBefore, PushedOnce
<1>7. ASSUME NEW c \in Conns, \/ Hub!Unregister(c) \/ Hub!JoinGivesUp(c)
                              \/ Hub!LeaveGivesUp(c) \/ Hub!ReadFails(c)
      PROVE  QuietBefore' /\ PushedOnce'
  <2>1. /\ UNCHANGED <<stage, pushed, since, hand, send, got>>
        /\ \A d \in Conns \ {c} : reader'[d] = reader[d] /\ writer'[d] = writer[d]
        /\ reader'[c] \in {"reading", "leaving", "ended"}
    BY <1>0, <1>7 DEF Hub!Unregister, Hub!JoinGivesUp, Hub!LeaveGivesUp, Hub!ReadFails, Hub!TypeOK
  <2> QED
    BY <1>0, <2>1 DEF QuietBefore, PushedOnce
<1>8. ASSUME NEW c \in Conns, Hub!Take(c) \/ Hub!Write(c) \/ Hub!WriterEnds(c),
             writer[c] = "waiting"
      PROVE  QuietBefore' /\ PushedOnce'
  <2>1. /\ UNCHANGED <<stage, pushed, since, reader>>
        /\ \A d \in Conns \ {c} : /\ writer'[d] = writer[d] /\ hand'[d] = hand[d]
                                  /\ send'[d] = send[d] /\ got'[d] = got[d]
    BY <1>0, <1>8 DEF Hub!Take, Hub!Write, Hub!WriterEnds, Hub!TypeOK
  <2> QED
    BY <1>0, <1>8, <2>1 DEF QuietBefore, PushedOnce
<1>9. CASE UNCHANGED <<stage, pushed, since, reader, writer, hand, send, got>>
  BY <1>0, <1>9 DEF QuietBefore, PushedOnce
<1> QED
  BY <1>1, <1>2, <1>3, <1>4, <1>5, <1>6, <1>7, <1>8, <1>9
     DEF Hub!Next, Hub!MarkAsRead, Hub!MarkAllAsRead, Hub!PeerGone, Hub!Take, Hub!Write,
         Hub!WriteFails, Hub!PingFails, Hub!HubClosed, Hub!Stop, Hub!RunReturns

\* A message that goes from the channel to the hand, or from the hand to the
\* peer, keeps its place in the stream.
LEMMA StreamMoves ==
    ASSUME Hub!TypeOK, Hub!TypeOK', NEW c \in Conns, Hub!Take(c) \/ Hub!Write(c)
    PROVE  Hub!Stream(c)' = Hub!Stream(c)
<1>1. writer[c] = "waiting" /\ writer' = writer
  BY DEF Hub!Take, Hub!Write
<1>2. Hub!Stream(c) = got[c] \o (Held(c) \o send[c])
  BY <1>1, StreamIs
<1>3. Hub!Stream(c)' = got'[c] \o (Held(c)' \o send'[c])
  BY <1>1, StreamIsThen
<1>4. got[c] \in Seq(Hub!Notes) /\ send[c] \in Seq(Hub!Notes) /\ hand[c] \in Hub!Notes \cup {0}
      /\ 0 \notin Hub!Notes
  BY DEF Hub!TypeOK, Hub!Notes
<1>5. CASE Hub!Take(c)
  <2>1. send[c] # <<>> /\ Head(send[c]) \in Hub!Notes
    BY <1>4, <1>5, HeadAndTail DEF Hub!Take
  <2>2. got'[c] = got[c] /\ send'[c] = Tail(send[c]) /\ hand'[c] = Head(send[c]) /\ hand[c] = 0
    BY <1>5 DEF Hub!Take, Hub!TypeOK
  <2>3. Held(c) = <<>> /\ Held(c)' = <<Head(send[c])>>
    BY <1>4, <2>1, <2>2 DEF Held
  <2>4. Line(got[c], <<Head(send[c])>>, Tail(send[c])) = Line(got[c], <<>>, send[c])
    BY <1>4, <2>1, StreamTaken
  <2> QED
    BY <1>2, <1>3, <2>2, <2>3, <2>4 DEF Line
<1>6. CASE Hub!Write(c)
  <2>1. hand[c] \in Hub!Notes
    BY <1>4, <1>6 DEF Hub!Write
  <2>2. got'[c] = Append(got[c], hand[c]) /\ send'[c] = send[c] /\ hand'[c] = 0
    BY <1>6 DEF Hub!Write, Hub!TypeOK
  <2>3. Held(c) = <<hand[c]>> /\ Held(c)' = <<>>
    BY <1>4, <2>1, <2>2 DEF Held
  <2>4. Line(Added(got[c], hand[c]), <<>>, send[c]) = Line(got[c], <<hand[c]>>, send[c])
    BY <1>4, <2>1, StreamWritten
  <2> QED
    BY <1>2, <1>3, <2>2, <2>3, <2>4 DEF Line, Added
<1> QED
  BY <1>5, <1>6

\* A connection with no stream yet and of which nothing is due.
LEMMA OrderEmpty ==
    ASSUME NEW c \in Conns, got'[c] = <<>>, hand'[c] = 0, send'[c] = <<>>,
           c \in clients' => Hub!Due(c)' = {}
    PROVE  Orderly(c)'
<1>1. Hub!Stream(c)' = <<>>
  BY DEF Hub!Stream
<1>2. DOMAIN Hub!Stream(c)' = {} /\ Len(Hub!Stream(c)') = 0
  BY <1>1
<1>3. c \in clients' => Cardinality(Hub!Due(c)') = 0
  BY FS_EmptySet
<1> QED
  BY <1>2, <1>3 DEF Orderly

\* Every step keeps every connection in order.
LEMMA OrderStep ==
    ASSUME HubIInv, Hub!TypeOK', Hub!Next, NEW c \in Conns
    PROVE  Orderly(c)'
<1>0. /\ Hub!TypeOK /\ QuietBefore /\ PushedOnce /\ ClientsAreOpen /\ Orderly(c)
      /\ pushed \in Seq(Hub!Notes) /\ Len(pushed) \in Nat
      /\ row \in [Hub!Notes -> Hub!Row]
      /\ \A i \in 1..Len(pushed) : pushed[i] \in Hub!Notes /\ stage[pushed[i]] = "returned"
  BY DEF HubIInv, Hub!TypeOK, PushedOnce
<1>1. ASSUME NEW n \in Hub!Notes, NEW u \in Users, Hub!Create(n, u) PROVE Orderly(c)'
  <2>1. \A p \in 1..Len(pushed) : pushed[p] # n
    BY <1>0, <1>1 DEF Hub!Create
  <2>2. \A m \in Hub!Notes : m # n => row'[m] = row[m]
    BY <1>0, <1>1 DEF Hub!Create
  <2>3. Hub!Due(c)' = Hub!Due(c)
    BY <1>0, <1>1, <2>1, <2>2, DueKept DEF Hub!Create
  <2> QED
    BY <1>0, <1>1, <2>3, OrderUntouched DEF Hub!Create
<1>2. ASSUME NEW u \in Users, NEW S, Hub!MarkRead(u, S) PROVE Orderly(c)'
  <2>1. \A m \in Hub!Notes : row'[m].user = row[m].user
    <3>1. \A q \in Hub!Row : [q EXCEPT !.read = TRUE].user = q.user
      BY DEF Hub!Row
    <3> QED
      BY <1>0, <1>2, <3>1 DEF Hub!MarkRead
  <2>2. Hub!Due(c)' = Hub!Due(c)
    BY <1>0, <1>2, <2>1, DueKept DEF Hub!MarkRead
  <2> QED
    BY <1>0, <1>2, <2>2, OrderUntouched DEF Hub!MarkRead
<1>3. ASSUME NEW n \in Hub!Notes, Hub!Unicast(n) PROVE Orderly(c)'
  BY <1>3, OrderPushed
<1>4. ASSUME NEW d \in Conns, Hub!Register(d) PROVE Orderly(c)'
  <2>1. CASE c = d
    <3>1. got'[c] = <<>> /\ hand'[c] = 0 /\ send'[c] = <<>>
      BY <1>0, <1>4, <2>1 DEF Hub!Register, QuietBefore
    <3>2. since'[c] = Len(pushed) /\ pushed' = pushed
      BY <1>4, <2>1 DEF Hub!Register, Hub!TypeOK, HubIInv
    <3>3. Hub!Due(c)' = {}
      BY <1>0, <3>2 DEF Hub!Due
    <3> QED
      BY <3>1, <3>3, OrderEmpty
  <2>2. CASE c # d
    <3>1. /\ since'[c] = since[c] /\ UNCHANGED <<pushed, who, row>>
          /\ c \in clients' => c \in clients
          /\ UNCHANGED <<got, hand, send>> /\ writer'[c] = writer[c]
      BY <1>4, <2>2 DEF Hub!Register, Hub!TypeOK, HubIInv
    <3>2. Hub!Due(c)' = Hub!Due(c)
      BY <3>1 DEF Hub!Due
    <3> QED
      BY <1>0, <3>1, <3>2, OrderUntouched
  <2> QED
    BY <2>1, <2>2
<1>5. ASSUME NEW d \in Conns, NEW u \in Users, Hub!ServeWs(d, u) PROVE Orderly(c)'
  <2>1. CASE c = d
    <3>1. c \notin clients' /\ got'[c] = <<>> /\ hand'[c] = 0 /\ send'[c] = <<>>
      BY <1>0, <1>5, <2>1 DEF Hub!ServeWs, QuietBefore, ClientsAreOpen
    <3> QED
      BY <3>1, OrderEmpty
  <2>2. CASE c # d
    <3>1. /\ who'[c] = who[c] /\ UNCHANGED <<pushed, since, row, clients>>
          /\ UNCHANGED <<got, hand, send, writer>>
      BY <1>5, <2>2 DEF Hub!ServeWs, Hub!TypeOK, HubIInv
    <3>2. Hub!Due(c)' = Hub!Due(c)
      BY <3>1 DEF Hub!Due
    <3> QED
      BY <1>0, <3>1, <3>2, OrderUntouched
  <2> QED
    BY <2>1, <2>2
<1>6. ASSUME UNCHANGED <<row, pushed, since, who, got, hand, send>>,
             clients' \subseteq clients, writer'[c] = writer[c]
      PROVE  Orderly(c)'
  <2>1. Hub!Due(c)' = Hub!Due(c)
    BY <1>6, DueKept
  <2> QED
    BY <1>0, <1>6, <2>1, OrderUntouched
<1>7. ASSUME NEW d \in Conns, Hub!JoinGivesUp(d) PROVE Orderly(c)'
  <2>1. CASE c = d
    <3>1. c \notin clients' /\ got'[c] = <<>> /\ hand'[c] = 0 /\ send'[c] = <<>>
      BY <1>0, <1>7, <2>1 DEF Hub!JoinGivesUp, QuietBefore, ClientsAreOpen
    <3> QED
      BY <3>1, OrderEmpty
  <2>2. CASE c # d
    <3>1. writer'[c] = writer[c]
      BY <1>7, <2>2 DEF Hub!JoinGivesUp, Hub!TypeOK, HubIInv
    <3> QED
      BY <1>6, <1>7, <3>1 DEF Hub!JoinGivesUp
  <2> QED
    BY <2>1, <2>2
<1>8. ASSUME NEW d \in Conns, Hub!Take(d) \/ Hub!Write(d) PROVE Orderly(c)'
  <2>1. /\ UNCHANGED <<row, pushed, since, who, clients, writer>>
        /\ c # d => got'[c] = got[c] /\ hand'[c] = hand[c] /\ send'[c] = send[c]
    BY <1>8 DEF Hub!Take, Hub!Write, Hub!TypeOK, HubIInv
  <2>2. Hub!Due(c)' = Hub!Due(c)
    BY <2>1, DueKept
  <2>3. CASE c = d
    <3>1. Hub!Stream(c)' = Hub!Stream(c) /\ Len(Hub!Stream(c)) \in Nat
      BY <1>0, <1>8, <2>3, StreamMoves, StreamIs
    <3> QED
      BY <1>0, <2>1, <2>2, <3>1, OrderKept
  <2>4. CASE c # d
    BY <1>0, <2>1, <2>2, <2>4, OrderUntouched
  <2> QED
    BY <2>3, <2>4
<1>9. ASSUME NEW d \in Conns, Hub!WriterEnds(d), writer[d] = "waiting" PROVE Orderly(c)'
  <2>1. UNCHANGED <<row, pushed, since, who, clients, got, hand, send>>
    BY <1>9 DEF Hub!WriterEnds
  <2>2. CASE c = d
    <3>1. Hub!Due(c)' = Hub!Due(c)
      BY <2>1, DueKept
    <3>2. writer'[c] = "ended"
      BY <1>0, <1>9, <2>2 DEF Hub!WriterEnds, Hub!TypeOK
    <3> QED
      BY <1>0, <1>9, <2>1, <2>2, <3>1, <3>2, OrderCut
  <2>3. CASE c # d
    <3>1. writer'[c] = writer[c]
      BY <1>0, <1>9, <2>3 DEF Hub!WriterEnds, Hub!TypeOK
    <3> QED
      BY <1>6, <2>1, <3>1
  <2> QED
    BY <2>2, <2>3
<1>10. CASE \/ \E d \in Conns : \/ Hub!Unregister(d) \/ Hub!LeaveGivesUp(d)
                                \/ Hub!PeerGone(d) \/ Hub!ReadFails(d)
            \/ \E n \in Hub!Notes : Hub!SendGivesUp(n)
            \/ Hub!Stop \/ Hub!RunReturns
  <2>1. /\ UNCHANGED <<row, pushed, since, who, got, hand, send, writer>>
        /\ clients' \subseteq clients
    BY <1>10 DEF Hub!Unregister, Hub!LeaveGivesUp, Hub!PeerGone, Hub!ReadFails,
                 Hub!SendGivesUp, Hub!Stop, Hub!RunReturns
  <2> QED
    BY <1>6, <2>1
<1> QED
  BY <1>1, <1>2, <1>3, <1>4, <1>5, <1>7, <1>8, <1>9, <1>10
     DEF Hub!Next, Hub!MarkAsRead, Hub!MarkAllAsRead,
         Hub!WriteFails, Hub!PingFails, Hub!HubClosed

\* A step that changes nothing.
LEMMA HubStutter == ASSUME HubIInv, UNCHANGED Hub!vars PROVE HubIInv'
<1> USE DEF Hub!vars
<1>1. Hub!TypeOK' /\ Hub!NeverPanics' /\ ClientsAreOpen' /\ SendersStored'
  BY DEF HubIInv, Hub!TypeOK, Hub!NeverPanics, ClientsAreOpen, SendersStored
<1>2. Hub!PushedIsStored' /\ QuietBefore' /\ PushedOnce'
  BY DEF HubIInv, Hub!PushedIsStored, QuietBefore, PushedOnce
<1>3. ASSUME NEW c \in Conns PROVE Orderly(c)'
  <2>1. Hub!TypeOK /\ Orderly(c) /\ Hub!Due(c)' = Hub!Due(c)
    BY DueKept DEF HubIInv
  <2> QED
    BY <1>1, <2>1, OrderUntouched
<1> QED
  BY <1>1, <1>2, <1>3 DEF HubIInv

\* Everything above holds in every reachable state of the hub.
THEOREM HubInvariant == Hub!Spec => []HubIInv
<1>0. Hub!HubAssumption
  BY ShopAssumption DEF ShopAssumption
<1>1. Hub!Init => HubIInv
  BY <1>0, HubInit
<1>2. ASSUME HubIInv, [Hub!Next]_Hub!vars PROVE HubIInv'
  <2>1. Hub!TypeOK'
    BY <1>0, <1>2, HubTypeStep DEF HubIInv
  <2>2. CASE Hub!Next
    <3>1. \A c \in Conns : Orderly(c)'
      BY <1>2, <2>1, <2>2, OrderStep
    <3>2. QuietBefore' /\ PushedOnce'
      BY <1>2, <2>1, <2>2, QuietStep
    <3>3. SendersStored' /\ Hub!PushedIsStored' /\ Hub!NeverPanics' /\ ClientsAreOpen'
      BY <1>2, <2>1, StoredStep, OpenStep
    <3> QED
      BY <2>1, <3>1, <3>2, <3>3 DEF HubIInv
  <2>3. CASE UNCHANGED Hub!vars
    BY <1>2, <2>3, HubStutter
  <2> QED
    BY <1>2, <2>2, <2>3
<1> QED
  BY <1>1, <1>2, PTL DEF Hub!Spec

\* HubInv: the hub keeps its channels, never closes one twice, and pushes
\* nothing whose row was not written.
THEOREM HubStaysSound == Hub!Spec => []HubInv
<1>1. HubIInv => HubInv
  BY DEF HubIInv, HubInv, Hub!HubInv
<1> QED
  BY <1>1, HubInvariant, PTL

\* StreamHasNoGap: a connection gets each of its user's notifications once,
\* in the order of the hub, and none between two of them is skipped.
THEOREM StreamsHaveNoGap == Hub!Spec => []StreamHasNoGap
<1>1. HubIInv => StreamHasNoGap
  BY HubCard DEF HubIInv, Orderly, StreamHasNoGap, Hub!StreamHasNoGap
<1> QED
  BY <1>1, HubInvariant, PTL

----------------------------------------------------------------------------
(* The favorites: the counters.                                            *)

\* A slot that is doing something has a user and a spec.
SlotsNamed ==
    \A r \in Toggles : toggles[r].at # "idle" =>
        toggles[r].user \in Listeners /\ toggles[r].spec \in Specs

\* Cardinality, seen through this instance, is Cardinality.
LEMMA FavsCard == \A S : Favs!Cardinality(S) = Cardinality(S)
BY DEF Favs!Cardinality, Cardinality

\* What the constants are taken to be.
LEMMA FavsFacts ==
    ASSUME Favs!FavoritesAssumption
    PROVE  /\ Reader \in Listeners /\ IsFiniteSet(Listeners)
           /\ Specs \subseteq Nat /\ PageSize \in Nat \ {0} /\ MaxTime \in Nat
           /\ NULL \notin Listeners /\ NULL \notin Nat
           /\ NULL \notin [Favs!Kinds -> Nat] /\ NULL \notin Nat \X Specs
<1>1. Favs!IsFiniteSet(Listeners) => IsFiniteSet(Listeners)
  BY DEF Favs!IsFiniteSet, IsFiniteSet
<1> QED
  BY <1>1 DEF Favs!FavoritesAssumption

\* A counter is a number.
LEMMA CountTyped ==
    ASSUME Favs!FavoritesAssumption, Favs!TypeOK, NEW s \in Specs, NEW k \in Favs!Kinds
    PROVE  /\ Favs!Count(s, k) \in Nat
           /\ stats[s] # NULL => stats[s] \in [Favs!Kinds -> Nat] /\ stats[s][k] = Favs!Count(s, k)
           /\ stats[s] = NULL => Favs!Count(s, k) = 0
BY FavsFacts DEF Favs!TypeOK, Favs!Count

\* An increment adds one to one counter of one spec, whether or not its row
\* was there.
LEMMA CountAdded ==
    ASSUME Favs!FavoritesAssumption, Favs!TypeOK, NEW s \in Specs, NEW k \in Favs!Kinds, Favs!Add(s, k)
    PROVE  /\ stats' \in [Specs -> [Favs!Kinds -> Nat] \cup {NULL}]
           /\ \A j \in Favs!Kinds : Favs!Count(s, j)' =
                  IF j = k THEN Favs!Count(s, j) + 1 ELSE Favs!Count(s, j)
           /\ \A t \in Specs \ {s} : stats'[t] = stats[t]
<1>1. stats \in [Specs -> [Favs!Kinds -> Nat] \cup {NULL}]
  BY DEF Favs!TypeOK
<1>2. DEFINE row1 == [j \in Favs!Kinds |-> IF j = k THEN Favs!Count(s, j) + 1 ELSE Favs!Count(s, j)]
<1>3. stats' = [stats EXCEPT ![s] = row1]
  BY DEF Favs!Add
<1>4. /\ row1 \in [Favs!Kinds -> Nat]
      /\ \A j \in Favs!Kinds : row1[j] = IF j = k THEN Favs!Count(s, j) + 1 ELSE Favs!Count(s, j)
  BY CountTyped
<1> HIDE DEF row1
<1>5. stats'[s] = row1 /\ \A t \in Specs \ {s} : stats'[t] = stats[t]
  BY <1>1, <1>3
<1>6. stats' \in [Specs -> [Favs!Kinds -> Nat] \cup {NULL}]
  BY <1>1, <1>3, <1>4
<1>7. row1 # NULL
  BY <1>4, FavsFacts
<1>8. ASSUME NEW j \in Favs!Kinds PROVE Favs!Count(s, j)' = row1[j]
  BY <1>5, <1>7 DEF Favs!Count
<1> QED
  BY <1>4, <1>5, <1>6, <1>8

\* A decrement takes one from the favorites of one spec, and stops at zero.
LEMMA CountTaken ==
    ASSUME Favs!FavoritesAssumption, Favs!TypeOK, NEW s \in Specs,
           Favs!Count(s, "favorite") > 0, Favs!TakeAway(s)
    PROVE  /\ stats' \in [Specs -> [Favs!Kinds -> Nat] \cup {NULL}]
           /\ \A j \in Favs!Kinds : Favs!Count(s, j)' =
                  IF j = "favorite" THEN Favs!Count(s, j) - 1 ELSE Favs!Count(s, j)
           /\ \A t \in Specs \ {s} : stats'[t] = stats[t]
<1>0. "favorite" \in Favs!Kinds
  BY DEF Favs!Kinds
<1>1. stats \in [Specs -> [Favs!Kinds -> Nat] \cup {NULL}]
  BY DEF Favs!TypeOK
<1>2. stats[s] # NULL /\ stats[s] \in [Favs!Kinds -> Nat]
        /\ \A j \in Favs!Kinds : stats[s][j] = Favs!Count(s, j)
  BY <1>0, CountTyped
<1>3. DEFINE row1 == [stats[s] EXCEPT !["favorite"] =
                        IF stats[s]["favorite"] > 0 THEN stats[s]["favorite"] - 1 ELSE 0]
<1>4. stats' = [stats EXCEPT ![s] = row1]
  BY <1>1, <1>2 DEF Favs!TakeAway
<1>5. /\ row1 \in [Favs!Kinds -> Nat]
      /\ \A j \in Favs!Kinds : row1[j] =
             IF j = "favorite" THEN stats[s][j] - 1 ELSE stats[s][j]
  BY <1>0, <1>2
<1> HIDE DEF row1
<1>6. stats'[s] = row1 /\ \A t \in Specs \ {s} : stats'[t] = stats[t]
  BY <1>1, <1>4
<1>7. stats' \in [Specs -> [Favs!Kinds -> Nat] \cup {NULL}]
  BY <1>1, <1>4, <1>5
<1>8. row1 # NULL
  BY <1>5, FavsFacts
<1>9. ASSUME NEW j \in Favs!Kinds PROVE Favs!Count(s, j)' = row1[j]
  BY <1>6, <1>8 DEF Favs!Count
<1> QED
  BY <1>2, <1>5, <1>6, <1>7, <1>9

\* The users of a spec are finitely many.
LEMMA FansFinite ==
    ASSUME Favs!FavoritesAssumption, NEW s \in Specs
    PROVE  IsFiniteSet(Favs!Fans(s)) /\ Cardinality(Favs!Fans(s)) \in Nat
<1>1. Favs!Fans(s) \subseteq Listeners
  BY DEF Favs!Fans
<1> QED
  BY <1>1, FavsFacts, FS_Subset, FS_CardinalityType

\* CountersMatch for one spec.
Matched(s) ==
    /\ Favs!Count(s, "favorite") = Cardinality(Favs!Fans(s))
    /\ Favs!Count(s, "play") = events[s]["play"]
    /\ Favs!Count(s, "download") = events[s]["download"]

\* The counters match when those of every spec do.
LEMMA MatchedAll == Favs!CountersMatch <=> \A s \in Specs : Matched(s)
BY FavsCard DEF Favs!CountersMatch, Matched

\* (the same after a step)
LEMMA MatchedAllThen == Favs!CountersMatch' <=> \A s \in Specs : Matched(s)'
BY FavsCard DEF Favs!CountersMatch, Matched

\* A spec nothing happens to keeps its match.
LEMMA MatchedKept ==
    ASSUME NEW s \in Specs, Matched(s), stats'[s] = stats[s], events'[s] = events[s],
           \A u \in Listeners : fav'[u][s] = NULL <=> fav[u][s] = NULL
    PROVE  Matched(s)'
<1>1. Favs!Fans(s)' = Favs!Fans(s)
  BY DEF Favs!Fans
<1>2. \A k : Favs!Count(s, k)' = Favs!Count(s, k)
  BY DEF Favs!Count
<1> QED
  BY <1>1, <1>2 DEF Matched

\* A decrement leaves a row a row.
LEMMA TakenTyped ==
    ASSUME NEW s \in Specs, Favs!TakeAway(s),
           stats \in [Specs -> [Favs!Kinds -> Nat] \cup {NULL}]
    PROVE  stats' \in [Specs -> [Favs!Kinds -> Nat] \cup {NULL}]
<1>1. CASE stats[s] = NULL
  BY <1>1 DEF Favs!TakeAway
<1>2. CASE stats[s] # NULL
  <2> DEFINE left == IF stats[s]["favorite"] > 0 THEN stats[s]["favorite"] - 1 ELSE 0
             row1 == [stats[s] EXCEPT !["favorite"] = left]
  <2>1. stats[s] \in [Favs!Kinds -> Nat] /\ "favorite" \in Favs!Kinds
    BY <1>2 DEF Favs!Kinds
  <2>2. left \in Nat
    BY <2>1
  <2>3. stats' = [stats EXCEPT ![s] = row1]
    BY <1>2 DEF Favs!TakeAway
  <2> HIDE DEF left
  <2>4. row1 \in [Favs!Kinds -> Nat]
    BY <2>1, <2>2
  <2> HIDE DEF row1
  <2> QED
    BY <2>3, <2>4
<1> QED
  BY <1>1, <1>2

\* The types and the names of the slots, action by action.
LEMMA FavsTypeStep ==
    ASSUME Favs!FavoritesAssumption, Favs!TypeOK, SlotsNamed, Favs!CountersMatch,
           Favs!Next, walk' \in Favs!Walk
    PROVE  Favs!TypeOK' /\ SlotsNamed'
<1>0. /\ fav \in [Listeners -> [Specs -> Favs!Times \cup {NULL}]]
      /\ stats \in [Specs -> [Favs!Kinds -> Nat] \cup {NULL}]
      /\ events \in [Specs -> [Favs!Kinds -> Nat]]
      /\ hidden \in SUBSET Specs /\ gone \in SUBSET Specs
      /\ clock \in Favs!Times /\ toggles \in [Toggles -> Favs!Request]
      /\ 0 \in Favs!Times
  BY FavsFacts DEF Favs!TypeOK, Favs!Times
<1>1. Favs!Idle \in Favs!Request /\ Favs!Idle.at = "idle"
  BY <1>0 DEF Favs!Idle, Favs!Request
<1>2. ASSUME NEW r \in Toggles, Favs!Finish(r)
      PROVE  toggles' \in [Toggles -> Favs!Request] /\ SlotsNamed'
  BY <1>0, <1>1, <1>2 DEF Favs!Finish, SlotsNamed
<1>3. CASE Favs!Tick
  <2>1. clock' \in Favs!Times
    BY <1>0, <1>3, FavsFacts DEF Favs!Tick, Favs!Times
  <2> QED
    BY <1>3, <2>1 DEF Favs!Tick, Favs!world, Favs!TypeOK, SlotsNamed
<1>4. CASE Favs!WalkBegin \/ Favs!NextPage
  BY <1>4 DEF Favs!WalkBegin, Favs!NextPage, Favs!world, Favs!TypeOK, SlotsNamed
<1>5. ASSUME NEW r \in Toggles, NEW u \in Listeners, NEW s \in Specs, Favs!Toggle(r, u, s)
      PROVE  Favs!TypeOK' /\ SlotsNamed'
  <2> DEFINE entry == [at |-> IF fav[u][s] = NULL THEN "add" ELSE "remove",
                       user |-> u, spec |-> s, now |-> 0]
  <2>1. entry \in Favs!Request /\ entry.user = u /\ entry.spec = s
    BY <1>0 DEF Favs!Request
  <2>2. toggles' = [toggles EXCEPT ![r] = entry]
    BY <1>5 DEF Favs!Toggle
  <2> HIDE DEF entry
  <2>3. toggles' \in [Toggles -> Favs!Request] /\ SlotsNamed'
    BY <1>0, <2>1, <2>2 DEF SlotsNamed
  <2> QED
    BY <1>5, <2>3 DEF Favs!Toggle, Favs!world, Favs!TypeOK
<1>6. ASSUME NEW r \in Toggles, Favs!AddBegin(r) PROVE Favs!TypeOK' /\ SlotsNamed'
  <2> DEFINE entry == [toggles[r] EXCEPT !.at = "insert", !.now = clock]
  <2>1. /\ entry \in Favs!Request
        /\ entry.user = toggles[r].user /\ entry.spec = toggles[r].spec
    BY <1>0 DEF Favs!Request
  <2>2. toggles' = [toggles EXCEPT ![r] = entry] /\ toggles[r].at # "idle"
    BY <1>0, <1>6 DEF Favs!AddBegin
  <2> HIDE DEF entry
  <2>3. toggles' \in [Toggles -> Favs!Request] /\ SlotsNamed'
    BY <1>0, <2>1, <2>2 DEF SlotsNamed
  <2> QED
    BY <1>6, <2>3 DEF Favs!AddBegin, Favs!world, Favs!TypeOK
<1>7. ASSUME NEW r \in Toggles, Favs!AddFavorite(r) PROVE Favs!TypeOK' /\ SlotsNamed'
  <2>1. /\ toggles[r].user \in Listeners /\ toggles[r].spec \in Specs
        /\ toggles[r].now \in Favs!Times /\ "favorite" \in Favs!Kinds
    BY <1>0, <1>7 DEF Favs!AddFavorite, SlotsNamed, Favs!Request, Favs!Kinds
  <2>2. CASE Favs!Inserts(r)
    <3>1. fav' = [fav EXCEPT ![toggles[r].user][toggles[r].spec] = toggles[r].now]
      BY <1>7, <2>2 DEF Favs!AddFavorite
    <3>2. fav' \in [Listeners -> [Specs -> Favs!Times \cup {NULL}]]
      BY <1>0, <2>1, <3>1
    <3>3. stats' \in [Specs -> [Favs!Kinds -> Nat] \cup {NULL}]
      BY <1>7, <2>1, <2>2, CountAdded DEF Favs!AddFavorite
    <3>4. events' \in [Specs -> [Favs!Kinds -> Nat]]
      <4>1. events' = [events EXCEPT ![toggles[r].spec]["favorite"] =
                                  events[toggles[r].spec]["favorite"] + 1]
        BY <1>7, <2>2 DEF Favs!AddFavorite, Favs!Log
      <4>2. events[toggles[r].spec]["favorite"] + 1 \in Nat
        BY <1>0, <2>1
      <4> QED
        BY <1>0, <2>1, <4>1, <4>2
    <3> QED
      BY <1>0, <1>2, <1>7, <3>2, <3>3, <3>4 DEF Favs!AddFavorite, Favs!TypeOK
  <2>3. CASE ~Favs!Inserts(r)
    BY <1>0, <1>2, <1>7, <2>3 DEF Favs!AddFavorite, Favs!TypeOK
  <2> QED
    BY <2>2, <2>3
<1>8. ASSUME NEW r \in Toggles, Favs!RemoveFavorite(r) PROVE Favs!TypeOK' /\ SlotsNamed'
  <2>1. toggles[r].user \in Listeners /\ toggles[r].spec \in Specs
    BY <1>8 DEF Favs!RemoveFavorite, SlotsNamed
  <2>2. CASE Favs!Deletes(r)
    <3>1. fav' = [fav EXCEPT ![toggles[r].user][toggles[r].spec] = NULL]
      BY <1>8, <2>2 DEF Favs!RemoveFavorite
    <3>2. fav' \in [Listeners -> [Specs -> Favs!Times \cup {NULL}]]
      BY <1>0, <2>1, <3>1
    <3>3. stats' \in [Specs -> [Favs!Kinds -> Nat] \cup {NULL}]
      <4>1. Favs!TakeAway(toggles[r].spec)
        BY <1>8, <2>2 DEF Favs!RemoveFavorite
      <4> QED
        BY <1>0, <2>1, <4>1, TakenTyped
    <3> QED
      BY <1>0, <1>2, <1>8, <3>2, <3>3 DEF Favs!RemoveFavorite, Favs!TypeOK
  <2>3. CASE ~Favs!Deletes(r)
    BY <1>0, <1>2, <1>8, <2>3 DEF Favs!RemoveFavorite, Favs!TypeOK
  <2> QED
    BY <2>2, <2>3
<1>9. ASSUME NEW r \in Toggles, Favs!ToggleFails(r) PROVE Favs!TypeOK' /\ SlotsNamed'
  BY <1>0, <1>2, <1>9 DEF Favs!ToggleFails, Favs!world, Favs!TypeOK
<1>10. ASSUME NEW s \in Specs, NEW k \in Favs!Kinds, Favs!Track(s, k)
       PROVE  Favs!TypeOK' /\ SlotsNamed'
  <2>1. stats' \in [Specs -> [Favs!Kinds -> Nat] \cup {NULL}]
    BY <1>10, CountAdded DEF Favs!Track
  <2>2. events' \in [Specs -> [Favs!Kinds -> Nat]]
    BY <1>0, <1>10 DEF Favs!Track, Favs!Log
  <2> QED
    BY <1>0, <1>10, <2>1, <2>2 DEF Favs!Track, Favs!TypeOK, SlotsNamed
<1>11. ASSUME NEW s \in Specs, Favs!ReadStats(s) PROVE Favs!TypeOK' /\ SlotsNamed'
  <2>1. stats' \in [Specs -> [Favs!Kinds -> Nat] \cup {NULL}]
    BY <1>0, <1>11 DEF Favs!ReadStats, Favs!NoCounts
  <2> QED
    BY <1>0, <1>11, <2>1 DEF Favs!ReadStats, Favs!TypeOK, SlotsNamed
<1>12. ASSUME NEW s \in Specs, Favs!Hide(s) PROVE Favs!TypeOK' /\ SlotsNamed'
  <2>1. hidden' \in SUBSET Specs
    BY <1>0, <1>12 DEF Favs!Hide
  <2> QED
    BY <1>0, <1>12, <2>1 DEF Favs!Hide, Favs!TypeOK, SlotsNamed
<1>13. ASSUME NEW s \in Specs, Favs!DeleteSpec(s) PROVE Favs!TypeOK' /\ SlotsNamed'
  <2>1. gone' \in SUBSET Specs
    BY <1>0, <1>13 DEF Favs!DeleteSpec
  <2>2. fav' \in [Listeners -> [Specs -> Favs!Times \cup {NULL}]]
    <3>1. \A u \in Listeners : [fav[u] EXCEPT ![s] = NULL] \in [Specs -> Favs!Times \cup {NULL}]
      BY <1>0
    <3> QED
      BY <1>13, <3>1 DEF Favs!DeleteSpec
  <2>3. stats' \in [Specs -> [Favs!Kinds -> Nat] \cup {NULL}]
    BY <1>0, <1>13 DEF Favs!DeleteSpec
  <2>4. events' \in [Specs -> [Favs!Kinds -> Nat]]
    BY <1>0, <1>13 DEF Favs!DeleteSpec, Favs!NoCounts
  <2> QED
    BY <1>0, <1>13, <2>1, <2>2, <2>3, <2>4 DEF Favs!DeleteSpec, Favs!TypeOK, SlotsNamed
<1> QED
  BY <1>3, <1>4, <1>5, <1>6, <1>7, <1>8, <1>9, <1>10, <1>11, <1>12, <1>13 DEF Favs!Next

\* A user who adds or removes a favorite is one user more or less.
LEMMA FansStep ==
    ASSUME Favs!FavoritesAssumption, NEW u \in Listeners, NEW s \in Specs
    PROVE  /\ Favs!Fans(s)' = Favs!Fans(s) \cup {u} /\ u \notin Favs!Fans(s) =>
                  Cardinality(Favs!Fans(s)') = Cardinality(Favs!Fans(s)) + 1
           /\ Favs!Fans(s)' = Favs!Fans(s) \ {u} /\ u \in Favs!Fans(s) =>
                  /\ Cardinality(Favs!Fans(s)) > 0
                  /\ Cardinality(Favs!Fans(s)') = Cardinality(Favs!Fans(s)) - 1
<1>1. IsFiniteSet(Favs!Fans(s)) /\ Cardinality(Favs!Fans(s)) \in Nat
  BY FansFinite
<1>2. ASSUME u \in Favs!Fans(s) PROVE Cardinality(Favs!Fans(s)) # 0
  BY <1>1, <1>2, FS_EmptySet
<1> QED
  BY <1>1, <1>2, FS_AddElement, FS_RemoveElement

\* Every step keeps the counters equal to what they count.
LEMMA CountersStep ==
    ASSUME Favs!FavoritesAssumption, Favs!TypeOK, SlotsNamed, Favs!CountersMatch, Favs!Next,
           NEW t \in Specs
    PROVE  Matched(t)'
<1>0. /\ Matched(t)
      /\ fav \in [Listeners -> [Specs -> Favs!Times \cup {NULL}]]
      /\ stats \in [Specs -> [Favs!Kinds -> Nat] \cup {NULL}]
      /\ events \in [Specs -> [Favs!Kinds -> Nat]]
      /\ {"play", "download", "favorite"} = Favs!Kinds
      /\ NULL \notin Favs!Times
  BY FavsFacts, MatchedAll DEF Favs!TypeOK, Favs!Times, Favs!Kinds
<1>1. CASE UNCHANGED <<fav, stats, events>>
  BY <1>0, <1>1, MatchedKept
<1>2. ASSUME NEW r \in Toggles, Favs!AddFavorite(r), Favs!Inserts(r) PROVE Matched(t)'
  <2> DEFINE u == toggles[r].user
             s == toggles[r].spec
  <2>1. u \in Listeners /\ s \in Specs /\ toggles[r].now \in Favs!Times
    BY <1>2 DEF Favs!AddFavorite, SlotsNamed, Favs!Request, Favs!TypeOK
  <2>2. /\ fav' = [fav EXCEPT ![u][s] = toggles[r].now] /\ fav[u][s] = NULL
        /\ Favs!Add(s, "favorite")
        /\ events' = [events EXCEPT ![s]["favorite"] = events[s]["favorite"] + 1]
    BY <1>2 DEF Favs!AddFavorite, Favs!Inserts, Favs!Log
  <2> HIDE DEF u, s
  <2>3. CASE t = s
    <3>1. Favs!Fans(t)' = Favs!Fans(t) \cup {u} /\ u \notin Favs!Fans(t)
      <4>1. \A v \in Listeners : fav'[v][t] = IF v = u THEN toggles[r].now ELSE fav[v][t]
        BY <1>0, <2>1, <2>2, <2>3
      <4> QED
        BY <1>0, <2>1, <2>2, <2>3, <4>1 DEF Favs!Fans
    <3>2. Cardinality(Favs!Fans(t)') = Cardinality(Favs!Fans(t)) + 1
      BY <2>1, <3>1, FansStep
    <3>3. \A j \in Favs!Kinds : Favs!Count(t, j)' =
              IF j = "favorite" THEN Favs!Count(t, j) + 1 ELSE Favs!Count(t, j)
      BY <1>0, <2>1, <2>2, <2>3, CountAdded
    <3>4. events'[t]["play"] = events[t]["play"] /\ events'[t]["download"] = events[t]["download"]
      BY <1>0, <2>1, <2>2, <2>3
    <3> QED
      BY <1>0, <3>2, <3>3, <3>4 DEF Matched
  <2>4. CASE t # s
    <3>1. stats'[t] = stats[t]
      BY <1>0, <2>1, <2>2, <2>4, CountAdded
    <3>2. events'[t] = events[t]
      BY <1>0, <2>1, <2>2, <2>4
    <3>3. \A v \in Listeners : fav'[v][t] = fav[v][t]
      BY <1>0, <2>1, <2>2, <2>4
    <3> QED
      BY <1>0, <3>1, <3>2, <3>3, MatchedKept
  <2> QED
    BY <2>3, <2>4
<1>3. ASSUME NEW r \in Toggles, Favs!RemoveFavorite(r), Favs!Deletes(r) PROVE Matched(t)'
  <2>0. PICK u, s : u = toggles[r].user /\ s = toggles[r].spec
    OBVIOUS
  <2>1. u \in Listeners /\ s \in Specs
    BY <1>3, <2>0 DEF Favs!RemoveFavorite, SlotsNamed
  <2>2. /\ fav' = [fav EXCEPT ![u][s] = NULL] /\ fav[u][s] # NULL
        /\ Favs!TakeAway(s) /\ events' = events
    BY <1>3, <2>0 DEF Favs!RemoveFavorite, Favs!Deletes
  <2>3. u \in Favs!Fans(s) /\ Matched(s)
    BY <2>1, <2>2, MatchedAll DEF Favs!Fans
  <2>4. Favs!Fans(s)' = Favs!Fans(s) \ {u}
    <3>1. \A v \in Listeners : fav'[v][s] = IF v = u THEN NULL ELSE fav[v][s]
      BY <1>0, <2>1, <2>2
    <3> QED
      BY <3>1 DEF Favs!Fans
  <2>5. /\ Cardinality(Favs!Fans(s)') = Cardinality(Favs!Fans(s)) - 1
        /\ Favs!Count(s, "favorite") > 0
    BY <2>1, <2>3, <2>4, FansStep DEF Matched
  <2>6. CASE t = s
    <3>1. \A j \in Favs!Kinds : Favs!Count(t, j)' =
              IF j = "favorite" THEN Favs!Count(t, j) - 1 ELSE Favs!Count(t, j)
      BY <2>1, <2>2, <2>5, <2>6, CountTaken
    <3> QED
      BY <1>0, <2>2, <2>5, <2>6, <3>1 DEF Matched
  <2>7. CASE t # s
    <3>1. stats'[t] = stats[t]
      BY <2>1, <2>2, <2>5, <2>7, CountTaken
    <3>2. \A v \in Listeners : fav'[v][t] = fav[v][t]
      BY <1>0, <2>1, <2>2, <2>7
    <3> QED
      BY <1>0, <2>2, <3>1, <3>2, MatchedKept
  <2> QED
    BY <2>6, <2>7
<1>4. ASSUME NEW s \in Specs, NEW k \in Favs!Kinds, Favs!Track(s, k) PROVE Matched(t)'
  <2>1. /\ Favs!Add(s, k) /\ k # "favorite" /\ fav' = fav
        /\ events' = [events EXCEPT ![s][k] = events[s][k] + 1]
    BY <1>4 DEF Favs!Track, Favs!Log
  <2>2. CASE t = s
    <3>1. Favs!Fans(t)' = Favs!Fans(t)
      BY <2>1 DEF Favs!Fans
    <3>2. \A j \in Favs!Kinds : Favs!Count(t, j)' =
              IF j = k THEN Favs!Count(t, j) + 1 ELSE Favs!Count(t, j)
      BY <2>1, <2>2, CountAdded
    <3>3. \A j \in Favs!Kinds : events'[t][j] = IF j = k THEN events[t][j] + 1 ELSE events[t][j]
      BY <1>0, <2>1, <2>2
    <3>4. "play" \in Favs!Kinds /\ "download" \in Favs!Kinds /\ "favorite" \in Favs!Kinds
      BY <1>0
    <3> QED
      BY <1>0, <2>1, <3>1, <3>2, <3>3, <3>4 DEF Matched
  <2>3. CASE t # s
    <3>1. stats'[t] = stats[t] /\ events'[t] = events[t]
      BY <1>0, <2>1, <2>3, CountAdded
    <3> QED
      BY <1>0, <2>1, <3>1, MatchedKept
  <2> QED
    BY <2>2, <2>3
<1>5. ASSUME NEW s \in Specs, Favs!ReadStats(s) PROVE Matched(t)'
  <2>1. /\ stats[s] = NULL /\ UNCHANGED <<fav, events>>
        /\ stats' = [stats EXCEPT ![s] = Favs!NoCounts]
    BY <1>5 DEF Favs!ReadStats
  <2>2. \A j \in Favs!Kinds : Favs!NoCounts[j] = 0
    BY DEF Favs!NoCounts
  <2>3. \A j \in Favs!Kinds : Favs!Count(t, j)' = Favs!Count(t, j)
    BY <1>0, <2>1, <2>2 DEF Favs!Count
  <2>4. Favs!Fans(t)' = Favs!Fans(t)
    BY <2>1 DEF Favs!Fans
  <2> QED
    BY <1>0, <2>1, <2>3, <2>4 DEF Matched
<1>6. ASSUME NEW s \in Specs, Favs!DeleteSpec(s) PROVE Matched(t)'
  <2>1. /\ fav' = [v \in Listeners |-> [fav[v] EXCEPT ![s] = NULL]]
        /\ stats' = [stats EXCEPT ![s] = NULL]
        /\ events' = [events EXCEPT ![s] = Favs!NoCounts]
    BY <1>6 DEF Favs!DeleteSpec
  <2>2. CASE t = s
    <3>1. Favs!Fans(t)' = {}
      BY <1>0, <2>1, <2>2 DEF Favs!Fans
    <3>2. \A j \in Favs!Kinds : Favs!Count(t, j)' = 0 /\ events'[t][j] = 0
      BY <1>0, <2>1, <2>2 DEF Favs!Count, Favs!NoCounts
    <3> QED
      BY <1>0, <3>1, <3>2, FS_EmptySet DEF Matched
  <2>3. CASE t # s
    <3>1. stats'[t] = stats[t] /\ events'[t] = events[t]
      BY <1>0, <2>1, <2>3
    <3>2. \A v \in Listeners : fav'[v][t] = fav[v][t]
      BY <1>0, <2>1, <2>3
    <3> QED
      BY <1>0, <3>1, <3>2, MatchedKept
  <2> QED
    BY <2>2, <2>3
<1>7. ASSUME NEW r \in Toggles, Favs!AddFavorite(r), ~Favs!Inserts(r) PROVE Matched(t)'
  BY <1>1, <1>7 DEF Favs!AddFavorite
<1>8. ASSUME NEW r \in Toggles, Favs!RemoveFavorite(r), ~Favs!Deletes(r) PROVE Matched(t)'
  BY <1>1, <1>8 DEF Favs!RemoveFavorite
<1> QED
  BY <1>1, <1>2, <1>3, <1>4, <1>5, <1>6, <1>7, <1>8
     DEF Favs!Next, Favs!Tick, Favs!WalkBegin, Favs!NextPage, Favs!Toggle, Favs!AddBegin,
         Favs!ToggleFails, Favs!Hide, Favs!world

----------------------------------------------------------------------------
(* The favorites: the pages.                                               *)

\* The rows of a walk in the order of the listing: what it got lies on one
\* side of its cursor, and what it must still get on the other.
PagesMeet ==
    /\ ~walk.twice /\ walk.missed = {}
    /\ walk.on =>
        /\ walk.kept \subseteq Favs!Listed(fav, hidden \cup gone)
        /\ \A k \in walk.got : ~Favs!Beyond(k, walk.cursor)
        /\ \A k \in walk.kept \ walk.got : Favs!Beyond(k, walk.cursor)

\* The order of the rows is a strict order in which any two are compared.
LEMMA KeysOrdered ==
    ASSUME Favs!FavoritesAssumption
    PROVE  \A a, b, c \in Favs!Key :
               /\ ~Favs!Less(a, a)
               /\ Favs!Less(a, b) /\ Favs!Less(b, c) => Favs!Less(a, c)
               /\ a = b \/ Favs!Less(a, b) \/ Favs!Less(b, a)
<1>1. \A a \in Favs!Key : a[1] \in Nat /\ a[2] \in Nat /\ a = <<a[1], a[2]>>
  BY FavsFacts DEF Favs!Key, Favs!Times
<1> QED
  BY <1>1 DEF Favs!Less

\* The listed rows are finitely many.
LEMMA ListedKeys ==
    ASSUME Favs!FavoritesAssumption, IsFiniteSet(Specs),
           NEW f \in [Listeners -> [Specs -> Favs!Times \cup {NULL}]], NEW away
    PROVE  Favs!Listed(f, away) \subseteq Favs!Key /\ IsFiniteSet(Favs!Key)
<1>1. Favs!Listed(f, away) \subseteq Favs!Key
  BY FavsFacts DEF Favs!Listed, Favs!Key
<1>2. IsFiniteSet(Favs!Times)
  BY FavsFacts, FS_Interval DEF Favs!Times
<1>3. IsFiniteSet(Favs!Key)
  BY <1>2, FS_Product DEF Favs!Key
<1> QED
  BY <1>1, <1>3

\* Rows that are not empty have a last one.
LEMMA LeastKey ==
    ASSUME Favs!FavoritesAssumption, NEW T, T \subseteq Favs!Key, T # {}
    PROVE  \E m \in T : \A j \in T : j = m \/ Favs!Less(m, j)
<1>1. \A a \in T : a[1] \in Nat /\ a[2] \in Nat /\ a = <<a[1], a[2]>>
  BY FavsFacts DEF Favs!Key, Favs!Times
<1> DEFINE firsts == {a[1] : a \in T}
<1>2. firsts \subseteq Nat /\ firsts # {}
  BY <1>1
<1>3. PICK x \in firsts : \A y \in firsts : x <= y
  BY <1>2, LeastNatural
<1> DEFINE seconds == {a[2] : a \in {b \in T : b[1] = x}}
<1>4. seconds \subseteq Nat /\ seconds # {}
  BY <1>1, <1>3
<1>5. PICK z \in seconds : \A y \in seconds : z <= y
  BY <1>4, LeastNatural
<1>6. PICK m \in T : m[1] = x /\ m[2] = z
  BY <1>5
<1>7. ASSUME NEW j \in T PROVE j = m \/ Favs!Less(m, j)
  <2>1. x <= j[1] /\ (j[1] = x => z <= j[2])
    BY <1>3, <1>5
  <2>2. /\ j[1] \in Nat /\ j[2] \in Nat /\ j = <<j[1], j[2]>>
        /\ x \in Nat /\ z \in Nat /\ m = <<x, z>>
    BY <1>1, <1>6
  <2> QED
    BY <1>6, <2>1, <2>2 DEF Favs!Less
<1> QED
  BY <1>7

\* How many rows come before a row on a page.
Ahead(rows, k) == {j \in rows : Favs!Less(k, j)}
PageIn(rows) == {k \in rows : Cardinality(Ahead(rows, k)) < PageSize}

\* A page holds the first rows: there is one unless there are no rows at all,
\* and whatever is left for later comes after every row of the page.
LEMMA PageFirst ==
    ASSUME Favs!FavoritesAssumption, NEW rows, rows \subseteq Favs!Key, IsFiniteSet(rows)
    PROVE  /\ rows # {} => PageIn(rows) # {}
           /\ \A k \in rows \ PageIn(rows) : \A m \in PageIn(rows) : Favs!Less(k, m)
<1>1. \A k : /\ IsFiniteSet(Ahead(rows, k)) /\ Cardinality(Ahead(rows, k)) \in Nat
  <2> TAKE k
  <2>1. Ahead(rows, k) \subseteq rows
    BY DEF Ahead
  <2> QED
    BY <2>1, FS_Subset, FS_CardinalityType
<1>2. ASSUME NEW k \in rows, NEW j \in rows, Favs!Less(k, j)
      PROVE  Cardinality(Ahead(rows, j)) < Cardinality(Ahead(rows, k))
  <2>1. Ahead(rows, j) \subseteq Ahead(rows, k) /\ j \in Ahead(rows, k) /\ j \notin Ahead(rows, j)
    BY <1>2, KeysOrdered DEF Ahead
  <2>2. /\ Cardinality(Ahead(rows, j)) <= Cardinality(Ahead(rows, k))
        /\ Cardinality(Ahead(rows, j)) = Cardinality(Ahead(rows, k)) =>
               Ahead(rows, j) = Ahead(rows, k)
    BY <1>1, <2>1, FS_Subset
  <2> QED
    BY <1>1, <2>1, <2>2
<1>3. ASSUME rows # {} PROVE PageIn(rows) # {}
  <2> DEFINE counts == {Cardinality(Ahead(rows, k)) : k \in rows}
  <2>1. counts \subseteq Nat /\ counts # {}
    BY <1>1, <1>3
  <2>2. PICK x \in counts : \A y \in counts : x <= y
    BY <2>1, LeastNatural
  <2>3. PICK k \in rows : x = Cardinality(Ahead(rows, k))
    BY <2>2
  <2>4. Ahead(rows, k) = {}
    <3> SUFFICES ASSUME NEW j \in Ahead(rows, k) PROVE FALSE
      OBVIOUS
    <3>1. j \in rows /\ Favs!Less(k, j)
      BY DEF Ahead
    <3>2. Cardinality(Ahead(rows, j)) < x
      BY <1>2, <2>3, <3>1
    <3>3. x <= Cardinality(Ahead(rows, j))
      BY <2>2, <3>1
    <3> QED
      BY <1>1, <2>3, <3>2, <3>3
  <2>5. Cardinality(Ahead(rows, k)) < PageSize
    BY <2>4, FS_EmptySet, FavsFacts
  <2> QED
    BY <2>5 DEF PageIn
<1>4. ASSUME NEW k \in rows \ PageIn(rows), NEW m \in PageIn(rows) PROVE Favs!Less(k, m)
  <2>1. /\ m \in rows /\ Cardinality(Ahead(rows, m)) < PageSize
        /\ ~(Cardinality(Ahead(rows, k)) < PageSize)
    BY <1>4 DEF PageIn
  <2>2. ~Favs!Less(m, k)
    BY <1>1, <1>2, <2>1, FavsFacts
  <2>3. k # m
    BY <1>4
  <2> QED
    BY <2>1, <2>2, <2>3, KeysOrdered
<1> QED
  BY <1>3, <1>4

\* The rows that a walk must still get stay listed, whatever is observed.
LEMMA ObserveStep ==
    ASSUME Favs!FavoritesAssumption, Favs!TypeOK, PagesMeet, NEW f, NEW away,
           Favs!Observe(f, away), fav' = f, hidden' \cup gone' = away
    PROVE  walk' \in Favs!Walk /\ PagesMeet'
<1>1. walk \in Favs!Walk
  BY DEF Favs!TypeOK
<1>2. walk' = [walk EXCEPT !.kept = walk.kept \cap Favs!Listed(f, away)]
  BY DEF Favs!Observe
<1>3. /\ walk' \in Favs!Walk /\ walk'.kept = walk.kept \cap Favs!Listed(f, away)
      /\ walk'.on = walk.on /\ walk'.cursor = walk.cursor /\ walk'.got = walk.got
      /\ walk'.twice = walk.twice /\ walk'.missed = walk.missed
  BY <1>1, <1>2 DEF Favs!Walk
<1>4. Favs!Listed(fav', hidden' \cup gone') = Favs!Listed(f, away)
  OBVIOUS
<1> QED
  BY <1>3, <1>4 DEF PagesMeet

\* A walk nothing is taken from.
LEMMA PagesKept ==
    ASSUME PagesMeet, walk' = walk,
           Favs!Listed(fav, hidden \cup gone) \subseteq Favs!Listed(fav', hidden' \cup gone')
    PROVE  PagesMeet'
BY DEF PagesMeet

\* The client asks for a page.
LEMMA PageStep ==
    ASSUME Favs!FavoritesAssumption, IsFiniteSet(Specs), Favs!TypeOK, PagesMeet, Favs!NextPage
    PROVE  walk' \in Favs!Walk /\ PagesMeet'
<1> DEFINE listed == Favs!Listed(fav, hidden \cup gone)
           rows == {k \in listed : Favs!Beyond(k, walk.cursor)}
           batch == PageIn(rows)
<1>1. /\ listed \subseteq Favs!Key /\ IsFiniteSet(Favs!Key)
      /\ walk \in Favs!Walk
  BY ListedKeys DEF Favs!TypeOK
<1>2. rows \subseteq Favs!Key /\ IsFiniteSet(rows)
  BY <1>1, FS_Subset
<1>3. PICK next : next = CHOOSE k \in batch : \A j \in batch : j = k \/ Favs!Less(k, j)
  OBVIOUS
<1>4. walk.on
  BY DEF Favs!NextPage
<1>5. walk' = [walk EXCEPT
                !.on = (batch # rows), !.got = walk.got \cup batch,
                !.twice = walk.twice \/ batch \cap walk.got # {},
                !.cursor = IF batch # rows THEN next ELSE NULL,
                !.missed = IF batch # rows THEN {} ELSE walk.kept \ (walk.got \cup batch)]
  <2>1. batch = {k \in rows : Favs!Cardinality({j \in rows : Favs!Less(k, j)}) < PageSize}
    BY FavsCard DEF PageIn, Ahead
  <2> DEFINE asked == {k \in rows : Favs!Cardinality({j \in rows : Favs!Less(k, j)}) < PageSize}
  <2>2. walk' = [walk EXCEPT
                  !.on = (asked # rows), !.got = walk.got \cup asked,
                  !.twice = walk.twice \/ asked \cap walk.got # {},
                  !.cursor = IF asked # rows
                             THEN CHOOSE k \in asked : \A j \in asked : j = k \/ Favs!Less(k, j)
                             ELSE NULL,
                  !.missed = IF asked # rows THEN {} ELSE walk.kept \ (walk.got \cup asked)]
    BY Zenon DEF Favs!NextPage
  <2>3. asked = batch
    BY <2>1
  <2> HIDE DEF asked, batch, rows, listed
  <2> QED
    BY <1>3, <2>2, <2>3
<1>6. /\ batch \subseteq rows
      /\ \A k \in rows \ batch : \A m \in batch : Favs!Less(k, m)
      /\ batch # rows => batch # {}
  BY <1>2, PageFirst DEF PageIn
<1>7. /\ walk.kept \subseteq listed
      /\ \A k \in walk.got : k \in Favs!Key /\ ~Favs!Beyond(k, walk.cursor)
      /\ \A k \in walk.kept \ walk.got : Favs!Beyond(k, walk.cursor)
      /\ ~walk.twice /\ walk.missed = {}
      /\ walk.cursor = NULL \/ walk.cursor \in Favs!Key
      /\ walk.got \subseteq Favs!Key /\ walk.kept \subseteq Favs!Key
  BY <1>1, <1>4 DEF PagesMeet, Favs!Walk
<1>8. batch \cap walk.got = {}
  BY <1>6, <1>7
<1>9. walk.kept \ walk.got \subseteq rows
  BY <1>7
<1>10. batch # rows => next \in batch /\ \A j \in batch : j = next \/ Favs!Less(next, j)
  <2> HIDE DEF batch, rows
  <2> SUFFICES ASSUME batch # rows
               PROVE  next \in batch /\ \A j \in batch : j = next \/ Favs!Less(next, j)
    OBVIOUS
  <2>1. batch # {} /\ batch \subseteq Favs!Key
    BY <1>2, <1>6
  <2>2. \E m \in batch : \A j \in batch : j = m \/ Favs!Less(m, j)
    BY <2>1, LeastKey
  <2> QED
    BY <1>3, <2>2
<1>11. batch # rows => /\ \A k \in walk.got \cup batch : ~Favs!Beyond(k, next)
                      /\ \A k \in walk.kept \ (walk.got \cup batch) : Favs!Beyond(k, next)
  <2> SUFFICES ASSUME batch # rows
               PROVE  /\ \A k \in walk.got \cup batch : ~Favs!Beyond(k, next)
                      /\ \A k \in walk.kept \ (walk.got \cup batch) : Favs!Beyond(k, next)
    OBVIOUS
  <2>1. /\ next \in batch /\ next \in Favs!Key /\ next # NULL
        /\ \A j \in batch : j = next \/ Favs!Less(next, j)
        /\ Favs!Beyond(next, walk.cursor)
    <3>1. NULL \notin Favs!Key
      BY FavsFacts DEF Favs!Key, Favs!Times
    <3> QED
      BY <1>2, <1>6, <1>10, <3>1
  <2>2. ASSUME NEW k \in batch PROVE ~Favs!Less(k, next)
    <3>1. k \in Favs!Key
      BY <1>2, <1>6
    <3> QED
      BY <2>1, <3>1, KeysOrdered
  <2>3. ASSUME NEW k \in walk.got PROVE ~Favs!Less(k, next)
    <3>1. walk.cursor # NULL /\ ~Favs!Less(k, walk.cursor) /\ k \in Favs!Key
      BY <1>7 DEF Favs!Beyond
    <3>2. Favs!Less(next, walk.cursor) /\ walk.cursor \in Favs!Key
      BY <1>7, <2>1, <3>1 DEF Favs!Beyond
    <3> QED
      BY <2>1, <3>1, <3>2, KeysOrdered
  <2>4. ASSUME NEW k \in walk.kept \ (walk.got \cup batch) PROVE Favs!Less(k, next)
    BY <1>6, <1>9, <2>1
  <2> QED
    BY <2>1, <2>2, <2>3, <2>4 DEF Favs!Beyond
<1>12. batch \subseteq Favs!Key /\ (batch # rows => next \in Favs!Key)
  BY <1>2, <1>6, <1>10
<1> HIDE DEF batch, rows, listed
<1>13. /\ walk'.on = (batch # rows) /\ walk'.got = walk.got \cup batch
       /\ walk'.twice = (walk.twice \/ batch \cap walk.got # {})
       /\ walk'.cursor = IF batch # rows THEN next ELSE NULL
       /\ walk'.missed = IF batch # rows THEN {} ELSE walk.kept \ (walk.got \cup batch)
       /\ walk'.kept = walk.kept
       /\ walk' \in Favs!Walk
  BY <1>1, <1>5, <1>7, <1>12 DEF Favs!Walk
<1>14. ~walk'.twice /\ walk'.missed = {}
  BY <1>7, <1>8, <1>9, <1>13
<1>15. walk'.kept \subseteq Favs!Listed(fav', hidden' \cup gone')
  <2>1. UNCHANGED <<fav, hidden, gone>>
    BY DEF Favs!NextPage, Favs!world
  <2> QED
    BY <1>7, <1>13, <2>1 DEF listed
<1> QED
  BY <1>11, <1>13, <1>14, <1>15 DEF PagesMeet

\* Every step keeps the pages together.
LEMMA WalkStep ==
    ASSUME Favs!FavoritesAssumption, IsFiniteSet(Specs), Favs!TypeOK, SlotsNamed, PagesMeet,
           Favs!Next
    PROVE  walk' \in Favs!Walk /\ PagesMeet'
<1>0. /\ walk \in Favs!Walk
      /\ fav \in [Listeners -> [Specs -> Favs!Times \cup {NULL}]]
  BY DEF Favs!TypeOK
<1>1. CASE UNCHANGED <<fav, hidden, gone, walk>>
  BY <1>0, <1>1, PagesKept
<1>2. CASE Favs!WalkBegin
  <2> DEFINE listed == Favs!Listed(fav, hidden \cup gone)
  <2>1. walk' = [Favs!NoWalk EXCEPT !.on = TRUE, !.kept = listed] /\ UNCHANGED <<fav, hidden, gone>>
    BY <1>2 DEF Favs!WalkBegin, Favs!world
  <2>2. listed \subseteq Favs!Key
    BY <1>0, ListedKeys
  <2>3. Favs!Listed(fav', hidden' \cup gone') = listed
    BY <2>1
  <2> HIDE DEF listed
  <2>4. /\ walk' \in Favs!Walk /\ walk'.kept = listed /\ walk'.got = {} /\ walk'.cursor = NULL
        /\ ~walk'.twice /\ walk'.missed = {}
    BY <2>1, <2>2 DEF Favs!NoWalk, Favs!Walk
  <2> QED
    BY <2>3, <2>4 DEF PagesMeet, Favs!Beyond
<1>3. CASE Favs!NextPage
  BY <1>3, PageStep
<1>4. ASSUME NEW r \in Toggles, Favs!AddFavorite(r) PROVE walk' \in Favs!Walk /\ PagesMeet'
  <2>1. UNCHANGED <<hidden, gone, walk>>
    BY <1>4 DEF Favs!AddFavorite
  <2>2. Favs!Listed(fav, hidden \cup gone) \subseteq Favs!Listed(fav', hidden \cup gone)
    <3>1. \A s \in Specs : fav[Reader][s] # NULL => fav'[Reader][s] = fav[Reader][s]
      <4>1. CASE Favs!Inserts(r)
        <5>1. /\ fav' = [fav EXCEPT ![toggles[r].user][toggles[r].spec] = toggles[r].now]
              /\ fav[toggles[r].user][toggles[r].spec] = NULL
          BY <1>4, <4>1 DEF Favs!AddFavorite, Favs!Inserts
        <5>2. toggles[r].user \in Listeners /\ toggles[r].spec \in Specs /\ Reader \in Listeners
          BY <1>4, FavsFacts DEF Favs!AddFavorite, SlotsNamed
        <5> QED
          BY <1>0, <5>1, <5>2
      <4>2. CASE ~Favs!Inserts(r)
        BY <1>4, <4>2 DEF Favs!AddFavorite
      <4> QED
        BY <4>1, <4>2
    <3>2. ASSUME NEW k \in Favs!Listed(fav, hidden \cup gone)
          PROVE  k \in Favs!Listed(fav', hidden \cup gone)
      <4>1. PICK s \in Specs \ (hidden \cup gone) :
                fav[Reader][s] # NULL /\ k = <<fav[Reader][s], s>>
        BY <3>2 DEF Favs!Listed
      <4>2. fav'[Reader][s] # NULL /\ k = <<fav'[Reader][s], s>>
        BY <3>1, <4>1
      <4> QED
        BY <4>1, <4>2 DEF Favs!Listed
    <3> QED
      BY <3>2
  <2> QED
    BY <1>0, <2>1, <2>2, PagesKept
<1>5. ASSUME NEW r \in Toggles, Favs!RemoveFavorite(r) PROVE walk' \in Favs!Walk /\ PagesMeet'
  <2>1. PICK f, away : f = fav' /\ away = hidden \cup gone
    OBVIOUS
  <2>2. Favs!Observe(f, away) /\ hidden' \cup gone' = away
    BY <1>5, <2>1 DEF Favs!RemoveFavorite
  <2> QED
    BY <2>1, <2>2, ObserveStep
<1>6. ASSUME NEW s \in Specs, Favs!Hide(s) \/ Favs!DeleteSpec(s)
      PROVE  walk' \in Favs!Walk /\ PagesMeet'
  <2>1. PICK f, away : f = fav' /\ away = hidden' \cup gone'
    OBVIOUS
  <2>2. Favs!Observe(f, away)
    BY <1>6, <2>1 DEF Favs!Hide, Favs!DeleteSpec
  <2> QED
    BY <2>1, <2>2, ObserveStep
<1> QED
  BY <1>1, <1>2, <1>3, <1>4, <1>5, <1>6
     DEF Favs!Next, Favs!Tick, Favs!Toggle, Favs!AddBegin, Favs!ToggleFails, Favs!Track,
         Favs!ReadStats, Favs!world

\* What holds of the favorites in every reachable state.
FavsIInv == Favs!TypeOK /\ SlotsNamed /\ Favs!CountersMatch /\ PagesMeet

\* Nothing has happened yet.
LEMMA FavsInit == ASSUME Favs!FavoritesAssumption, Favs!Init PROVE FavsIInv
<1> USE DEF Favs!Init
<1>1. /\ fav \in [Listeners -> [Specs -> Favs!Times \cup {NULL}]]
      /\ stats \in [Specs -> [Favs!Kinds -> Nat] \cup {NULL}]
      /\ events \in [Specs -> [Favs!Kinds -> Nat]]
      /\ hidden \in SUBSET Specs /\ gone \in SUBSET Specs /\ clock \in Favs!Times
  BY FavsFacts DEF Favs!NoCounts, Favs!Times
<1>2. toggles \in [Toggles -> Favs!Request] /\ SlotsNamed
  BY FavsFacts DEF Favs!Idle, Favs!Request, Favs!Times, SlotsNamed
<1>3. walk \in Favs!Walk /\ PagesMeet
  <2>1. walk \in Favs!Walk
    BY DEF Favs!NoWalk, Favs!Walk
  <2> QED
    BY <2>1 DEF PagesMeet, Favs!NoWalk
<1>4. ASSUME NEW s \in Specs PROVE Matched(s)
  <2>1. Favs!Fans(s) = {}
    BY DEF Favs!Fans
  <2>2. \A k : Favs!Count(s, k) = 0
    BY DEF Favs!Count
  <2>3. \A k \in Favs!Kinds : events[s][k] = 0
    BY DEF Favs!NoCounts
  <2> QED
    BY <2>1, <2>2, <2>3, FS_EmptySet DEF Matched, Favs!Kinds
<1> QED
  BY <1>1, <1>2, <1>3, <1>4, MatchedAll DEF FavsIInv, Favs!TypeOK

\* The counters and the pages hold together in every reachable state.
THEOREM FavoritesInvariant == Favs!Spec => []FavsIInv
<1>0. Favs!FavoritesAssumption /\ IsFiniteSet(Specs)
  BY ShopAssumption DEF ShopAssumption
<1>1. Favs!Init => FavsIInv
  BY <1>0, FavsInit
<1>2. ASSUME FavsIInv, [Favs!Next]_Favs!vars PROVE FavsIInv'
  <2>1. CASE Favs!Next
    <3>1. walk' \in Favs!Walk /\ PagesMeet'
      BY <1>0, <1>2, <2>1, WalkStep DEF FavsIInv
    <3>2. Favs!TypeOK' /\ SlotsNamed'
      BY <1>0, <1>2, <2>1, <3>1, FavsTypeStep DEF FavsIInv
    <3>3. Favs!CountersMatch'
      BY <1>0, <1>2, <2>1, CountersStep, MatchedAllThen DEF FavsIInv
    <3> QED
      BY <3>1, <3>2, <3>3 DEF FavsIInv
  <2>2. CASE UNCHANGED Favs!vars
    <3>1. /\ UNCHANGED <<fav, stats, events, hidden, gone, clock, toggles, walk>>
          /\ Favs!TypeOK /\ SlotsNamed /\ PagesMeet /\ \A s \in Specs : Matched(s)
      BY <1>2, <2>2, MatchedAll DEF Favs!vars, Favs!world, FavsIInv
    <3>2. Favs!TypeOK' /\ SlotsNamed'
      BY <3>1 DEF Favs!TypeOK, SlotsNamed
    <3>3. PagesMeet'
      BY <3>1, PagesKept
    <3>4. Favs!CountersMatch'
      BY <3>1, MatchedKept, MatchedAllThen
    <3> QED
      BY <3>2, <3>3, <3>4 DEF FavsIInv
  <2> QED
    BY <1>2, <2>1, <2>2
<1> QED
  BY <1>1, <1>2, PTL DEF Favs!Spec

\* FavoritesInv: the counter of a spec is the number of users who have it as
\* a favorite, however their toggles overlap.
THEOREM CountersHold == Favs!Spec => []FavoritesInv
<1>1. FavsIInv => FavoritesInv
  BY DEF FavsIInv, FavoritesInv, Favs!FavoritesInv
<1> QED
  BY <1>1, FavoritesInvariant, PTL

\* WalkIsExact: no row is returned on two pages of a walk, and none that was
\* listed throughout is left out, whatever is added and removed meanwhile.
THEOREM WalksAreExact == Favs!Spec => []WalkIsExact
<1>1. FavsIInv => WalkIsExact
  BY DEF FavsIInv, PagesMeet, WalkIsExact, Favs!WalkIsExact, Favs!NoRowTwice,
         Favs!KeptRowsReturned
<1> QED
  BY <1>1, FavoritesInvariant, PTL

----------------------------------------------------------------------------
(* The listing: its order and its pages.                                   *)

\* Cardinality, seen through this instance, is Cardinality.
LEMMA ListingCard == \A S : Listing!Cardinality(S) = Cardinality(S)
BY DEF Listing!Cardinality, Cardinality

\* What the constants are taken to be.
LEMMA ListingFacts ==
    ASSUME Listing!ListingAssumption
    PROVE  /\ Specs \subseteq Nat /\ Asked \subseteq Nat /\ MaxPrice \in Nat
           /\ DefaultLimit \in Nat \ {0} /\ MaxSpecLimit \in Nat \ {0} /\ MaxChanges \in Nat
           /\ \A a \in Asked : /\ Listing!HandlerLimit(a) \in Nat \ {0}
                               /\ Listing!ServiceLimit(a) \in Nat \ {0}
                               /\ Listing!Rows(a) = Listing!ServiceLimit(a)
BY DEF Listing!ListingAssumption, Listing!HandlerLimit, Listing!ServiceLimit, Listing!Rows

\* A spec is not listed before itself, nor before one that is before it.
LEMMA BeforeStrict ==
    ASSUME Listing!ListingAssumption, Listing!TypeOK, NEW q, NEW s \in Specs, NEW t \in Specs
    PROVE  ~Listing!Before(q, s, s) /\ (Listing!Before(q, s, t) => ~Listing!Before(q, t, s))
<1>1. /\ s \in Nat /\ t \in Nat /\ spec[s].price \in Nat /\ spec[t].price \in Nat
  BY ListingFacts DEF Listing!TypeOK
<1> QED
  BY <1>1 DEF Listing!Before

\* The matching specs before a spec, and how many they are.
Preceding(q, s) == {t \in Listing!Matching(q) : Listing!Before(q, t, s)}
Place(q, s) == Cardinality(Preceding(q, s))

\* They are finitely many.
LEMMA PlaceTyped ==
    ASSUME IsFiniteSet(Specs), NEW q
    PROVE  /\ IsFiniteSet(Listing!Matching(q)) /\ Cardinality(Listing!Matching(q)) \in Nat
           /\ Listing!Matching(q) \subseteq Specs
           /\ \A s : IsFiniteSet(Preceding(q, s)) /\ Place(q, s) \in Nat
<1>1. Listing!Matching(q) \subseteq Specs
  BY DEF Listing!Matching
<1>2. IsFiniteSet(Listing!Matching(q)) /\ Cardinality(Listing!Matching(q)) \in Nat
  BY <1>1, FS_Subset, FS_CardinalityType
<1>3. ASSUME NEW s PROVE IsFiniteSet(Preceding(q, s)) /\ Place(q, s) \in Nat
  <2>1. Preceding(q, s) \subseteq Listing!Matching(q)
    BY DEF Preceding
  <2> QED
    BY <1>2, <2>1, FS_Subset, FS_CardinalityType DEF Place
<1> QED
  BY <1>1, <1>2, <1>3

\* An answer of the database has every matching spec once.
LEMMA OrderingIs ==
    ASSUME IsFiniteSet(Specs), NEW q, NEW o \in Listing!Orderings(q)
    PROVE  /\ o \in Seq(Specs) /\ o \in Seq(Listing!Matching(q))
           /\ Len(o) = Cardinality(Listing!Matching(q)) /\ Len(o) \in Nat
           /\ DOMAIN o = 1..Len(o)
           /\ \A i, j \in 1..Len(o) : i # j => o[i] # o[j]
           /\ \A s \in Listing!Matching(q) : \E i \in 1..Len(o) : o[i] = s
           /\ \A i, j \in 1..Len(o) : i < j => ~Listing!Before(q, o[j], o[i])
<1> DEFINE M == Listing!Matching(q)
           n == Cardinality(M)
<1>1. IsFiniteSet(M) /\ n \in Nat /\ M \subseteq Specs
  BY PlaceTyped
<1>2. /\ o \in [1..n -> M] /\ \A i, j \in 1..n : i # j => o[i] # o[j]
      /\ \A i, j \in DOMAIN o : i < j => ~Listing!Before(q, o[j], o[i])
  BY ListingCard DEF Listing!Orderings, Listing!SetToSeqs
<1> HIDE DEF M, n
<1>3. o \in Seq(M) /\ Len(o) = n /\ DOMAIN o = 1..n
  BY <1>1, <1>2
<1>4. o \in Seq(Specs)
  BY <1>1, <1>2, <1>3
<1>5. IsFiniteSet(1..n) /\ Cardinality(1..n) = n
  BY <1>1, FS_Interval
<1>6. o \in Injection(1..n, M)
  BY <1>2 DEF Injection, IsInjective
<1>7. o \in Surjection(1..n, M)
  <2>1. Cardinality(1..n) = Cardinality(M)
    BY <1>5 DEF n
  <2> QED
    BY <1>1, <1>6, <2>1, FS_Injection
<1>8. \A s \in M : \E i \in 1..n : o[i] = s
  BY <1>7 DEF Surjection
<1> QED
  BY <1>1, <1>2, <1>3, <1>4, <1>8 DEF M, n

\* Where the sort key has no ties, a spec is listed at its place.
LEMMA PlaceIs ==
    ASSUME Listing!ListingAssumption, Listing!TypeOK, IsFiniteSet(Specs),
           NEW q, ~Listing!Tied(q), NEW o \in Listing!Orderings(q), NEW i \in 1..Len(o)
    PROVE  Place(q, o[i]) = i - 1
<1> DEFINE M == Listing!Matching(q)
           first == [j \in 1..(i - 1) |-> o[j]]
<1>0. /\ o \in Seq(M) /\ Len(o) \in Nat /\ M \subseteq Specs /\ i \in Nat /\ i - 1 \in Nat
      /\ \A j \in 1..Len(o) : o[j] \in M
      /\ \A j, k \in 1..Len(o) : j # k => o[j] # o[k]
      /\ \A s \in M : \E j \in 1..Len(o) : o[j] = s
      /\ \A j, k \in 1..Len(o) : j < k => ~Listing!Before(q, o[k], o[j])
  <2>1. \A j \in 1..Len(o) : o[j] \in M
    BY OrderingIs
  <2>2. M \subseteq Specs
    BY PlaceTyped
  <2>3. /\ o \in Seq(M) /\ Len(o) \in Nat
        /\ \A j, k \in 1..Len(o) : j # k => o[j] # o[k]
        /\ \A s \in M : \E j \in 1..Len(o) : o[j] = s
        /\ \A j, k \in 1..Len(o) : j < k => ~Listing!Before(q, o[k], o[j])
    BY OrderingIs
  <2>4. i \in Nat /\ i - 1 \in Nat
    BY <2>3
  <2> QED
    BY <2>1, <2>2, <2>3, <2>4
<1>1. \A s, t \in M : s # t => Listing!Before(q, s, t) \/ Listing!Before(q, t, s)
  BY DEF Listing!Tied
<1>2. \A j \in 1..Len(o) : Listing!Before(q, o[j], o[i]) <=> j < i
  <2> TAKE j \in 1..Len(o)
  <2>1. CASE j < i
    <3>1. o[j] # o[i] /\ ~Listing!Before(q, o[i], o[j])
      BY <1>0, <2>1
    <3> QED
      BY <1>0, <1>1, <2>1, <3>1
  <2>2. CASE j > i
    <3>1. i < j /\ ~(j < i) /\ i \in 1..Len(o)
      BY <1>0, <2>2
    <3>2. ~Listing!Before(q, o[j], o[i])
      BY <1>0, <3>1
    <3> QED
      BY <3>1, <3>2
  <2>3. CASE j = i
    BY <1>0, <2>3, BeforeStrict
  <2> QED
    BY <1>0, <2>1, <2>2, <2>3
<1>3. \A s : s \in Preceding(q, o[i]) <=> \E j \in 1..(i - 1) : s = o[j]
  <2>0. Len(o) \in Nat /\ i \in 1..Len(o)
    BY <1>0
  <2>1. \A j \in 1..Len(o) : j < i <=> j \in 1..(i - 1)
    BY ONLY <2>0
  <2>2. 1..(i - 1) \subseteq 1..Len(o)
    BY ONLY <2>0
  <2>3. \A s : s \in Preceding(q, o[i]) <=> s \in M /\ Listing!Before(q, s, o[i])
    BY DEF Preceding
  <2> QED
    BY <1>0, <1>2, <2>1, <2>2, <2>3
<1>4. first \in [1..(i - 1) -> Preceding(q, o[i])]
  BY <1>3
<1>5. first \in Surjection(1..(i - 1), Preceding(q, o[i]))
  BY <1>3, <1>4 DEF Surjection
<1>6. first \in Injection(1..(i - 1), Preceding(q, o[i]))
  <2>1. 1..(i - 1) \subseteq 1..Len(o)
    BY <1>0
  <2> QED
    BY <1>0, <1>4, <2>1 DEF Injection, IsInjective
<1>7. IsFiniteSet(1..(i - 1)) /\ Cardinality(1..(i - 1)) = i - 1
  <2>1. i - 1 \in Nat /\ i - 1 \in Int
    BY <1>0
  <2> HIDE DEF M
  <2>2. \A m \in Nat : IsFiniteSet(1..m) /\ Cardinality(1..m) = m
    BY FS_Interval
  <2> QED
    BY <2>1, <2>2
<1>8. Cardinality(Preceding(q, o[i])) = Cardinality(1..(i - 1))
  BY <1>5, <1>6, <1>7, FS_Surjection
<1> QED
  BY <1>7, <1>8 DEF Place

\* A part of a sequence.
LEMMA PartIs ==
    ASSUME NEW S, NEW s, NEW m \in Int, NEW n \in Int, \A i \in m..n : s[i] \in S,
           NEW r, r = SubSeq(s, m, n)
    PROVE  /\ r \in Seq(S)
           /\ Len(r) = IF m <= n THEN n - m + 1 ELSE 0
           /\ \A i \in 1..(n - m + 1) : r[i] = s[m + i - 1]
BY SubSeqProperties

\* The rows after the off-th, up to the last that there is.
Part(o, off, last) == SubSeq(o, off + 1, IF last < Len(o) THEN last ELSE Len(o))

\* The rows of a page: where they come from, and how many.
IsPart(rows, o, off, last) ==
    /\ rows \in Seq(Specs) /\ Len(rows) \in Nat
    /\ \A k \in 1..Len(rows) : /\ off + k \in 1..Len(o) /\ off + k <= last
                               /\ rows[k] = o[off + k]
    /\ \A i \in 1..Len(o) : off < i /\ i <= last =>
           i - off \in 1..Len(rows) /\ rows[i - off] = o[i]
    /\ rows = <<>> => Len(o) <= off \/ last = off

\* The page of an answer is such a part.
LEMMA PageIs ==
    ASSUME NEW o \in Seq(Specs), NEW off \in Nat, NEW last \in Nat, off <= last,
           NEW rows, rows = Part(o, off, last)
    PROVE  IsPart(rows, o, off, last)
<1> USE DEF IsPart
<1>1. Len(o) \in Nat /\ \A i \in 1..Len(o) : o[i] \in Specs
  OBVIOUS
<1> DEFINE to == IF last < Len(o) THEN last ELSE Len(o)
<1>2. to \in Nat /\ to <= Len(o) /\ to <= last /\ (to = last \/ to = Len(o))
  BY <1>1
<1>3. rows = SubSeq(o, off + 1, to)
  BY DEF Part
<1> HIDE DEF to
<1>4. CASE off + 1 <= to
  <2>1. \A i \in (off + 1)..to : o[i] \in Specs
    BY <1>1, <1>2
  <2>2. /\ rows \in Seq(Specs)
        /\ Len(rows) = IF off + 1 <= to THEN to - (off + 1) + 1 ELSE 0
        /\ \A k \in 1..(to - (off + 1) + 1) : rows[k] = o[(off + 1) + k - 1]
    <3>1. off + 1 \in Int /\ to \in Int
      BY <1>2
    <3> QED
      BY ONLY <1>3, <2>1, <3>1, PartIs
  <2>3. to - (off + 1) + 1 = to - off /\ \A k \in Nat : (off + 1) + k - 1 = off + k
    BY <1>2
  <2>4. Len(rows) = to - off /\ \A k \in 1..(to - off) : rows[k] = o[off + k]
    BY <1>2, <1>4, <2>2, <2>3
  <2>5. \A k \in 1..(to - off) : off + k \in 1..Len(o) /\ off + k <= last
    BY <1>1, <1>2
  <2>6. \A i \in 1..Len(o) : off < i /\ i <= last =>
            i - off \in 1..(to - off) /\ off + (i - off) = i
    BY <1>1, <1>2
  <2>7. Len(rows) \in Nat /\ Len(rows) # 0
    BY <1>2, <1>4, <2>4
  <2>8. rows # <<>>
    BY ONLY <2>7
  <2> QED
    BY <2>2, <2>4, <2>5, <2>6, <2>7, <2>8
<1>5. CASE to < off + 1
  <2>1. rows = <<>>
    BY <1>2, <1>3, <1>5, SubSeqEmpty
  <2>2. rows \in Seq(Specs) /\ Len(rows) = 0
    BY ONLY <2>1
  <2>3. \A i \in 1..Len(o) : ~(off < i /\ i <= last)
    BY <1>1, <1>2, <1>5
  <2>4. Len(o) <= off \/ last = off
    BY <1>1, <1>2, <1>5
  <2> QED
    BY <2>2, <2>3, <2>4
<1> QED
  BY <1>1, <1>2, <1>4, <1>5

----------------------------------------------------------------------------
(* The listing: what the client was shown, and what is still to come.      *)

\* The first page starts at the first row, and each page where the page
\* before it ended.
LEMMA OffsetIs ==
    ASSUME Listing!ListingAssumption, NEW a \in Asked, NEW p \in Nat \ {0}
    PROVE  /\ Listing!Offset(p, a) \in Nat
           /\ Listing!Offset(p + 1, a) = Listing!Offset(p, a) + Listing!ServiceLimit(a)
           /\ Listing!Offset(p + 1, a) = p * Listing!ServiceLimit(a)
           /\ Listing!Offset(1, a) = 0
<1> DEFINE l == Listing!ServiceLimit(a)
<1>1. l \in Nat \ {0}
  BY ListingFacts
<1>2. Listing!Offset(p, a) = (p - 1) * l /\ Listing!Offset(p + 1, a) = ((p + 1) - 1) * l
        /\ Listing!Offset(1, a) = (1 - 1) * l
  BY DEF Listing!Offset
<1> HIDE DEF l
<1>3. (p - 1) * l \in Nat /\ ((p + 1) - 1) * l = p * l /\ p * l = (p - 1) * l + l
        /\ (1 - 1) * l = 0
  BY <1>1
<1> QED
  BY <1>2, <1>3 DEF l

\* A total is on as many pages as it takes.
LEMMA PagesEnough ==
    ASSUME NEW t \in Nat, NEW h \in Nat \ {0}, NEW p \in Nat, (t + h - 1) \div h <= p
    PROVE  t <= p * h
<1> DEFINE x == t + h - 1
           d == x \div h
<1>1. x \in Nat /\ t <= x /\ x = t + (h - 1)
  OBVIOUS
<1>2. d \in Nat /\ x < d * h + h /\ d <= p
  BY <1>1
<1> HIDE DEF d
<1>3. d * h <= p * h /\ d * h \in Nat /\ p * h \in Nat
  BY <1>2
<1> QED
  BY <1>1, <1>2, <1>3

\* There is always a page.
LEMMA PagesSome ==
    ASSUME NEW t \in Nat \ {0}, NEW h \in Nat \ {0}
    PROVE  (t + h - 1) \div h \in Nat \ {0}
<1> DEFINE x == t + h - 1
           d == x \div h
<1>1. x \in Nat /\ h <= x
  OBVIOUS
<1>2. d \in Nat /\ x < d * h + h
  BY <1>1
<1>3. d # 0
  BY <1>1, <1>2
<1> QED
  BY <1>2, <1>3

Joint(a, b) == a \o b

\* Two sequences joined.
IsJoint(r, a, b) ==
    /\ Len(r) = Len(a) + Len(b) /\ DOMAIN r = 1..Len(r)
    /\ Len(a) \in Nat /\ Len(b) \in Nat
    /\ \A i \in 1..Len(a) : i \in 1..Len(r) /\ r[i] = a[i]
    /\ \A k \in 1..Len(b) : Len(a) + k \in 1..Len(r) /\ r[Len(a) + k] = b[k]
    /\ \A i \in 1..Len(r) : i \in 1..Len(a) \/ \E k \in 1..Len(b) : i = Len(a) + k

\* What the client was shown, after a page is added.
LEMMA JoinIs ==
    ASSUME NEW S, NEW a \in Seq(S), NEW b \in Seq(S), NEW r, r = Joint(a, b)
    PROVE  r \in Seq(S) /\ IsJoint(r, a, b)
<1>1. /\ a \o b \in Seq(S) /\ Len(a \o b) = Len(a) + Len(b)
      /\ \A i \in 1..(Len(a) + Len(b)) : (a \o b)[i] = IF i <= Len(a) THEN a[i] ELSE b[i - Len(a)]
  BY ConcatProperties
<1>2. /\ r \in Seq(S) /\ Len(r) = Len(a) + Len(b)
      /\ \A i \in 1..(Len(a) + Len(b)) : r[i] = IF i <= Len(a) THEN a[i] ELSE b[i - Len(a)]
  BY <1>1 DEF Joint
<1>3. Len(a) \in Nat /\ Len(b) \in Nat
  OBVIOUS
<1>4. DOMAIN r = 1..Len(r)
  BY ONLY <1>2
<1>5. \A i \in 1..Len(a) : i \in 1..Len(r) /\ r[i] = a[i]
  BY ONLY <1>2, <1>3
<1>6. \A k \in 1..Len(b) : Len(a) + k \in 1..Len(r) /\ r[Len(a) + k] = b[k]
  <2> TAKE k \in 1..Len(b)
  <2>1. /\ Len(a) + k \in 1..(Len(a) + Len(b)) /\ ~(Len(a) + k <= Len(a))
        /\ (Len(a) + k) - Len(a) = k
    BY ONLY <1>3, k \in 1..Len(b)
  <2> QED
    BY ONLY <1>2, <2>1
<1>7. \A i \in 1..Len(r) : i \in 1..Len(a) \/ \E k \in 1..Len(b) : i = Len(a) + k
  <2> SUFFICES ASSUME NEW i \in 1..Len(r), i \notin 1..Len(a)
               PROVE  \E k \in 1..Len(b) : i = Len(a) + k
    OBVIOUS
  <2>1. i - Len(a) \in 1..Len(b) /\ i = Len(a) + (i - Len(a))
    BY <1>2, <1>3
  <2> QED
    BY <2>1
<1> QED
  BY <1>2, <1>3, <1>4, <1>5, <1>6, <1>7 DEF IsJoint

\* A spec that must still be shown is on a page to come.
Onward ==
    page.query # NULL /\ ~page.removed =>
        /\ page.start \subseteq Listing!Matching(page.query)
        /\ ~page.tied => \A s \in page.start :
               s \in Listing!Shown
               \/ Place(page.query, s) >= Listing!Offset(page.page, page.query.limit)

\* What was shown, and is still listed, is on the pages seen.
Behind ==
    ~page.added /\ ~page.tied =>
        /\ \A i, j \in DOMAIN page.shown : page.shown[i] = page.shown[j] => i = j
        /\ page.query # NULL => \A i \in DOMAIN page.shown :
               page.shown[i] \in Listing!Matching(page.query) =>
                   Place(page.query, page.shown[i]) < Listing!Offset(page.page, page.query.limit)

ListingIInv ==
    /\ Listing!TypeOK /\ page.page # 0
    /\ page.query = NULL => page.shown = <<>> /\ page.page = 1
    /\ Onward /\ Behind

\* The query of a walk is one of the queries, and its fields are typed.
LEMMA WalkTyped ==
    ASSUME Listing!ListingAssumption, ListingIInv
    PROVE  /\ page \in Listing!Walk /\ page.page \in Nat \ {0} /\ page.pages \in Nat \ {0}
           /\ page.shown \in Seq(Specs) /\ page.start \subseteq Specs
           /\ page.tied \in BOOLEAN /\ page.added \in BOOLEAN /\ page.removed \in BOOLEAN
           /\ page.query # NULL => page.query \in Listing!Query /\ page.query.limit \in Asked
BY DEF ListingIInv, Listing!TypeOK, Listing!Walk, Listing!Query

\* The client asks its first question.
LEMMA ListingStart ==
    ASSUME Listing!ListingAssumption, IsFiniteSet(Specs), ListingIInv,
           NEW q \in Listing!Query, Listing!Start(q)
    PROVE  ListingIInv' /\ Listing!NothingMissed'
<1>1. /\ page' = [Listing!NoWalk EXCEPT !.query = q, !.start = Listing!Matching(q)]
      /\ UNCHANGED <<spec, owner, changes>>
  BY DEF Listing!Start
<1>2. PICK m : m = Listing!Matching(q)
  OBVIOUS
<1>3. m \subseteq Specs /\ Listing!Matching(q)' = m
  BY <1>1, <1>2 DEF Listing!Matching, Listing!Matches
<1>4. /\ page' \in Listing!Walk /\ page'.query = q /\ page'.page = 1 /\ page'.pages = 1
      /\ page'.shown = <<>> /\ page'.start = m
  <2>1. page' = [query |-> q, page |-> 1, pages |-> 1, total |-> 0, matching |-> 0,
                 start |-> m, shown |-> <<>>,
                 added |-> FALSE, removed |-> FALSE, tied |-> FALSE]
    BY <1>1, <1>2 DEF Listing!NoWalk
  <2>2. <<>> \in Seq(Specs) /\ q \in Listing!Query \cup {NULL} /\ m \in SUBSET Specs
    BY <1>3
  <2>3. page' \in Listing!Walk
    BY <2>1, <2>2 DEF Listing!Walk
  <2> QED
    BY <2>1, <2>3
<1>5. q.limit \in Asked
  BY DEF Listing!Query
<1>6. Listing!Offset(1, q.limit) = 0
  <2>1. 1 \in Nat \ {0}
    OBVIOUS
  <2> QED
    BY <1>5, <2>1, OffsetIs
<1>7. \A s : Place(q, s) \in Nat /\ Place(q, s)' = Place(q, s)
  <2>1. \A s : Preceding(q, s)' = Preceding(q, s)
    BY <1>1, <1>2, <1>3 DEF Preceding, Listing!Before
  <2> QED
    BY <2>1, PlaceTyped DEF Place
<1>8. Listing!Offset(page'.page, page'.query.limit) = 0
  BY <1>4, <1>6
<1>9. Listing!TypeOK'
  BY <1>1, <1>4 DEF Listing!TypeOK, ListingIInv
<1>10. Onward'
  <2>1. \A s : Place(q, s)' >= 0
    BY <1>7
  <2>2. page'.start \subseteq Listing!Matching(q)'
    BY <1>3, <1>4
  <2>3. Listing!Offset(page.page, page.query.limit)' = 0
    BY <1>8 DEF Listing!Offset, Listing!ServiceLimit, Listing!HandlerLimit
  <2> QED
    BY <1>4, <2>1, <2>2, <2>3 DEF Onward
<1>11. Behind'
  BY <1>4 DEF Behind
<1>12. Listing!NothingMissed'
  BY <1>4 DEF Listing!NothingMissed, Listing!Finished
<1> QED
  BY <1>4, <1>9, <1>10, <1>11, <1>12 DEF ListingIInv

\* The pages are as large as the client was told, and the asked size is
\* within the cap: what it follows is what the service pages by.
LimitsWithinCap == DefaultLimit <= MaxSpecLimit /\ \A a \in Asked : a <= MaxSpecLimit

\* The client is shown a page.
LEMMA ListingList ==
    ASSUME Listing!ListingAssumption, IsFiniteSet(Specs), ListingIInv, Listing!List
    PROVE  /\ ListingIInv'
           /\ LimitsWithinCap => Listing!NothingMissed'
<1>0. PICK q : q = page.query
  OBVIOUS
<1>1. PICK o \in Listing!Orderings(q) :
          page' = [page EXCEPT
                    !.page = page.page + 1,
                    !.shown = page.shown \o Listing!PageOf(o, page.page, q.limit),
                    !.total = Listing!Total(o, Listing!PageOf(o, page.page, q.limit)),
                    !.matching = Len(o),
                    !.pages = Listing!TotalPages(
                        Listing!Total(o, Listing!PageOf(o, page.page, q.limit)), q.limit),
                    !.tied = page.tied \/ Listing!Tied(q)]
  BY <1>0 DEF Listing!List
<1>2. q # NULL /\ UNCHANGED <<spec, owner, changes>>
  BY <1>0 DEF Listing!List, Listing!Walking
<1>3. /\ page \in Listing!Walk /\ page.page \in Nat \ {0} /\ page.shown \in Seq(Specs)
      /\ page.start \subseteq Specs /\ q \in Listing!Query /\ q.limit \in Asked
      /\ page.tied \in BOOLEAN /\ Listing!TypeOK
  BY <1>0, <1>2, WalkTyped DEF ListingIInv
<1>4. PICK p, l, off, rows, total, pages :
          /\ p = page.page /\ l = Listing!ServiceLimit(q.limit) /\ off = Listing!Offset(p, q.limit)
          /\ rows = Listing!PageOf(o, p, q.limit) /\ total = Listing!Total(o, rows)
          /\ pages = Listing!TotalPages(total, q.limit)
  OBVIOUS
<1>5. /\ p \in Nat \ {0} /\ l \in Nat \ {0} /\ off \in Nat /\ Listing!Rows(q.limit) = l
      /\ Listing!HandlerLimit(q.limit) \in Nat \ {0}
      /\ Listing!Offset(p + 1, q.limit) = off + l /\ off + l = p * l
  BY <1>3, <1>4, OffsetIs, ListingFacts
<1>6. /\ o \in Seq(Specs) /\ Len(o) = Cardinality(Listing!Matching(q)) /\ Len(o) \in Nat
      /\ \A i, j \in 1..Len(o) : i # j => o[i] # o[j]
      /\ \A s \in Listing!Matching(q) : \E i \in 1..Len(o) : o[i] = s
      /\ \A i \in 1..Len(o) : o[i] \in Listing!Matching(q)
  <2>1. \A i \in 1..Len(o) : o[i] \in Listing!Matching(q)
    BY OrderingIs
  <2> QED
    BY <2>1, OrderingIs
<1>7. /\ rows \in Seq(Specs) /\ Len(rows) \in Nat
      /\ \A k \in 1..Len(rows) : /\ off + k \in 1..Len(o) /\ off + k <= off + l
                                 /\ rows[k] = o[off + k]
      /\ \A i \in 1..Len(o) : off < i /\ i <= off + l =>
             i - off \in 1..Len(rows) /\ rows[i - off] = o[i]
      /\ rows = <<>> => Len(o) <= off \/ off + l = off
  <2>1. rows = SubSeq(o, off + 1, IF off + l < Len(o) THEN off + l ELSE Len(o))
    BY <1>4, <1>5 DEF Listing!PageOf
  <2>2. PICK last : last = off + l
    OBVIOUS
  <2>3. /\ last \in Nat /\ off <= last
        /\ rows = Part(o, off, last)
    BY <1>5, <2>1, <2>2 DEF Part
  <2>4. IsPart(rows, o, off, last)
    BY <1>5, <1>6, <2>3, PageIs
  <2> QED
    BY ONLY <2>2, <2>4 DEF IsPart
<1>8. total \in Nat /\ (rows = <<>> => total = 0) /\ (rows # <<>> => total = Len(o))
  BY <1>4, <1>6 DEF Listing!Total
<1>9. /\ pages \in Nat \ {0}
      /\ total # 0 => pages = (total + Listing!HandlerLimit(q.limit) - 1)
                                  \div Listing!HandlerLimit(q.limit)
  <2>1. CASE total = 0
    BY <1>4, <2>1 DEF Listing!TotalPages
  <2>2. CASE total # 0
    <3>1. pages = (total + Listing!HandlerLimit(q.limit) - 1) \div Listing!HandlerLimit(q.limit)
      BY <1>4, <2>2 DEF Listing!TotalPages
    <3> QED
      BY <1>5, <1>8, <2>2, <3>1, PagesSome
  <2> QED
    BY <2>1, <2>2
<1>10. PICK shown : shown = page.shown \o rows
  OBVIOUS
<1>11. /\ shown \in Seq(Specs) /\ DOMAIN shown = 1..Len(shown)
       /\ Len(page.shown) \in Nat /\ DOMAIN page.shown = 1..Len(page.shown)
       /\ \A i \in 1..Len(page.shown) : i \in 1..Len(shown) /\ shown[i] = page.shown[i]
       /\ \A k \in 1..Len(rows) : /\ Len(page.shown) + k \in 1..Len(shown)
                                  /\ shown[Len(page.shown) + k] = rows[k]
       /\ \A i \in 1..Len(shown) : i \in 1..Len(page.shown)
              \/ \E k \in 1..Len(rows) : i = Len(page.shown) + k
  <2>1. DOMAIN page.shown = 1..Len(page.shown)
    BY <1>3
  <2>2. page.shown \in Seq(Specs) /\ rows \in Seq(Specs)
    BY <1>3, <1>7
  <2>3. PICK seen : seen = page.shown
    OBVIOUS
  <2>4. seen \in Seq(Specs) /\ shown = Joint(seen, rows)
    BY <1>10, <2>2, <2>3 DEF Joint
  <2>5. shown \in Seq(Specs) /\ IsJoint(shown, seen, rows)
    BY <2>2, <2>4, JoinIs
  <2> QED
    BY <2>1, <2>3, <2>5 DEF IsJoint
<1>12. page' = [page EXCEPT !.page = p + 1, !.shown = shown, !.total = total,
                            !.matching = Len(o), !.pages = pages,
                            !.tied = page.tied \/ Listing!Tied(q)]
  BY <1>1, <1>4, <1>10
<1>13. page.tied \/ Listing!Tied(q) \in BOOLEAN
  BY <1>3 DEF Listing!Tied
<1>14. /\ page' \in Listing!Walk /\ page'.page = p + 1 /\ page'.shown = shown
       /\ page'.pages = pages /\ page'.query = q /\ page'.start = page.start
       /\ page'.added = page.added /\ page'.removed = page.removed
       /\ page'.tied <=> page.tied \/ Listing!Tied(q)
  <2>1. PICK tied \in BOOLEAN : tied = (page.tied \/ Listing!Tied(q))
    BY <1>3 DEF Listing!Tied
  <2>2. p + 1 \in Nat
    BY <1>5
  <2>3. page' = [page EXCEPT !.page = p + 1, !.shown = shown, !.total = total,
                             !.matching = Len(o), !.pages = pages, !.tied = tied]
    BY <1>12, <2>1
  <2>4. /\ page' \in Listing!Walk /\ page'.page = p + 1 /\ page'.shown = shown
        /\ page'.pages = pages /\ page'.query = page.query /\ page'.start = page.start
        /\ page'.added = page.added /\ page'.removed = page.removed /\ page'.tied = tied
    BY ONLY <1>3, <1>6, <1>8, <1>9, <1>11, <2>2, <2>3 DEF Listing!Walk
  <2> QED
    BY <1>0, <2>1, <2>4
<1>15. /\ Listing!Matching(q)' = Listing!Matching(q)
       /\ \A s : Place(q, s)' = Place(q, s) /\ Place(q, s) \in Nat
  <2>1. Listing!Matching(q)' = Listing!Matching(q)
    BY <1>2 DEF Listing!Matching, Listing!Matches
  <2>2. \A s : Preceding(q, s)' = Preceding(q, s)
    BY <1>2, <2>1 DEF Preceding, Listing!Before
  <2> QED
    BY <2>1, <2>2, PlaceTyped DEF Place
<1>16. ~Listing!Tied(q) => \A i \in 1..Len(o) : Place(q, o[i]) = i - 1
  BY <1>3, PlaceIs
<1>17. Listing!Offset(page.page, page.query.limit)' = off + l
  BY <1>5, <1>14 DEF Listing!Offset, Listing!ServiceLimit, Listing!HandlerLimit
<1>18. ASSUME ~page.removed, ~page'.tied, NEW s \in page.start
       PROVE  /\ \/ \E i \in DOMAIN shown : shown[i] = s
                 \/ Place(q, s) >= off + l
              /\ \E i \in 1..Len(o) : Place(q, s) = i - 1
  <2>1. ~page.tied /\ ~Listing!Tied(q)
    BY <1>14, <1>18
  <2>2. /\ s \in Listing!Matching(q)
        /\ s \in Listing!Shown \/ Place(q, s) >= off
    BY <1>0, <1>2, <1>4, <1>18, <2>1 DEF ListingIInv, Onward
  <2>3. PICK i \in 1..Len(o) : o[i] = s
    BY <1>6, <2>2
  <2>4. Place(q, s) = i - 1
    BY <1>16, <2>1, <2>3
  <2>5. CASE s \in Listing!Shown
    <3>1. PICK j \in DOMAIN page.shown : page.shown[j] = s
      BY <2>5 DEF Listing!Shown
    <3>2. j \in DOMAIN shown /\ shown[j] = s
      BY <1>11, <3>1
    <3> QED
      BY <2>4, <3>2
  <2>6. CASE Place(q, s) >= off /\ i <= off + l
    <3>1. off < i
      BY <1>5, <1>6, <2>4, <2>6
    <3>2. i - off \in 1..Len(rows) /\ rows[i - off] = s
      BY <1>7, <2>3, <2>6, <3>1
    <3>3. Len(page.shown) + (i - off) \in DOMAIN shown /\ shown[Len(page.shown) + (i - off)] = s
      BY <1>11, <3>2
    <3> QED
      BY <2>4, <3>3
  <2>7. CASE ~(i <= off + l)
    <3>1. i - 1 >= off + l
      BY <1>5, <1>6, <2>7
    <3> QED
      BY <2>4, <3>1
  <2> QED
    BY <2>2, <2>5, <2>6, <2>7
<1>19. Onward'
  <2>1. ASSUME page'.query # NULL, ~page'.removed
        PROVE  page'.start \subseteq Listing!Matching(q)'
    BY <1>0, <1>2, <1>14, <1>15, <2>1 DEF ListingIInv, Onward
  <2>2. ASSUME ~page'.removed, ~page'.tied, NEW s \in page'.start
        PROVE  s \in Listing!Shown' \/ Place(q, s)' >= off + l
    <3>1. (\E i \in DOMAIN shown : shown[i] = s) \/ Place(q, s) >= off + l
      BY <1>14, <1>18, <2>2
    <3>2. (\E i \in DOMAIN shown : shown[i] = s) => s \in Listing!Shown'
      BY <1>14 DEF Listing!Shown
    <3> QED
      BY <1>15, <3>1, <3>2
  <2>3. Listing!Matching(page.query)' = Listing!Matching(q)'
    BY <1>14 DEF Listing!Matching, Listing!Matches
  <2>4. \A s : Place(page.query, s)' = Place(q, s)'
    BY <1>14, <2>3 DEF Place, Preceding, Listing!Before
  <2> QED
    BY <1>17, <2>1, <2>2, <2>3, <2>4 DEF Onward
<1>20. Behind'
  <2> SUFFICES ASSUME ~page'.added, ~page'.tied
               PROVE  /\ \A i, j \in DOMAIN shown : shown[i] = shown[j] => i = j
                      /\ \A i \in DOMAIN shown :
                             shown[i] \in Listing!Matching(q)' => Place(q, shown[i])' < off + l
    <3>1. Listing!Matching(page.query)' = Listing!Matching(q)'
      BY <1>14 DEF Listing!Matching, Listing!Matches
    <3>2. \A s : Place(page.query, s)' = Place(q, s)'
      BY <1>14, <3>1 DEF Place, Preceding, Listing!Before
    <3>3. \A i : Place(page.query, page.shown[i])' = Place(q, shown[i])'
      BY <1>14, <3>2
    <3> QED
      BY <1>14, <1>17, <3>1, <3>3 DEF Behind
  <2>1. ~page.added /\ ~page.tied /\ ~Listing!Tied(q)
    BY <1>14
  <2>2. /\ \A i, j \in 1..Len(page.shown) : page.shown[i] = page.shown[j] => i = j
        /\ \A i \in 1..Len(page.shown) :
               page.shown[i] \in Listing!Matching(q) => Place(q, page.shown[i]) < off
    BY <1>0, <1>2, <1>4, <1>11, <2>1 DEF ListingIInv, Behind
  <2>3. \A k \in 1..Len(rows) : /\ rows[k] \in Listing!Matching(q)
                                /\ Place(q, rows[k]) = off + k - 1
                                /\ ~(Place(q, rows[k]) < off) /\ Place(q, rows[k]) < off + l
    <3> TAKE k \in 1..Len(rows)
    <3>1. off + k \in 1..Len(o) /\ off + k <= off + l /\ rows[k] = o[off + k]
      BY <1>7
    <3>2. rows[k] \in Listing!Matching(q) /\ Place(q, rows[k]) = off + k - 1
      <4>1. PICK i \in 1..Len(o) : i = off + k
        BY <3>1
      <4>2. rows[k] = o[i] /\ Place(q, o[i]) = i - 1
        BY <1>16, <2>1, <3>1, <4>1
      <4>3. i - 1 = off + k - 1
        BY <1>5, <1>7, <4>1
      <4> QED
        BY <1>6, <4>2, <4>3
    <3>3. k \in Nat /\ k >= 1
      BY <1>7
    <3> QED
      BY <1>5, <3>1, <3>2, <3>3
  <2>4. ASSUME NEW i \in DOMAIN shown, NEW j \in DOMAIN shown, shown[i] = shown[j]
        PROVE  i = j
    <3>1. CASE i \in 1..Len(page.shown) /\ j \in 1..Len(page.shown)
      BY <1>11, <2>2, <2>4, <3>1
    <3>2. ASSUME NEW x \in 1..Len(page.shown), NEW k \in 1..Len(rows)
          PROVE  shown[x] # shown[Len(page.shown) + k]
      <4>1. shown[x] = page.shown[x] /\ shown[Len(page.shown) + k] = rows[k]
        BY <1>11
      <4> QED
        BY <2>2, <2>3, <4>1
    <3>3. ASSUME NEW k \in 1..Len(rows), NEW m \in 1..Len(rows),
                 shown[Len(page.shown) + k] = shown[Len(page.shown) + m]
          PROVE  k = m
      <4>1. rows[k] = rows[m]
        BY <1>11, <3>3
      <4>2. Place(q, rows[k]) = off + k - 1 /\ Place(q, rows[m]) = off + m - 1
        BY <2>3
      <4>3. off + k - 1 = off + m - 1 /\ k \in Nat /\ m \in Nat
        BY <1>7, <4>1, <4>2
      <4> QED
        BY <1>5, <4>3
    <3>4. CASE i \in 1..Len(page.shown) /\ j \notin 1..Len(page.shown)
      BY <1>11, <2>4, <3>2, <3>4
    <3>5. CASE i \notin 1..Len(page.shown) /\ j \in 1..Len(page.shown)
      BY <1>11, <2>4, <3>2, <3>5
    <3>6. CASE i \notin 1..Len(page.shown) /\ j \notin 1..Len(page.shown)
      <4>1. PICK k \in 1..Len(rows) : i = Len(page.shown) + k
        BY <1>11, <3>6
      <4>2. PICK m \in 1..Len(rows) : j = Len(page.shown) + m
        BY <1>11, <3>6
      <4>3. k = m
        BY <2>4, <3>3, <4>1, <4>2
      <4> QED
        BY <4>1, <4>2, <4>3
    <3> QED
      BY <3>1, <3>4, <3>5, <3>6
  <2>5. ASSUME NEW i \in DOMAIN shown, shown[i] \in Listing!Matching(q)
        PROVE  Place(q, shown[i]) < off + l
    <3>1. CASE i \in 1..Len(page.shown)
      <4>1. Place(q, shown[i]) < off /\ Place(q, shown[i]) \in Nat
        BY <1>11, <1>15, <2>2, <2>5, <3>1
      <4> QED
        BY <1>5, <4>1
    <3>2. CASE \E k \in 1..Len(rows) : i = Len(page.shown) + k
      BY <1>11, <2>3, <3>2
    <3> QED
      BY <1>11, <3>1, <3>2
  <2> QED
    BY <1>15, <2>4, <2>5
<1>21. ASSUME LimitsWithinCap PROVE Listing!NothingMissed'
  <2> SUFFICES ASSUME p + 1 > pages, ~page.removed, ~page'.tied, NEW s \in page.start
               PROVE  \E i \in DOMAIN shown : shown[i] = s
    BY <1>14 DEF Listing!NothingMissed, Listing!Finished, Listing!Shown
  <2>1. Listing!HandlerLimit(q.limit) = l
    BY <1>3, <1>4, <1>21, ListingFacts
       DEF LimitsWithinCap, Listing!HandlerLimit, Listing!ServiceLimit
  <2>2. PICK i \in 1..Len(o) : Place(q, s) = i - 1
    BY <1>18
  <2>3. Len(o) <= p * l
    <3>1. CASE rows = <<>>
      BY <1>5, <1>6, <1>7, <3>1
    <3>2. CASE rows # <<>>
      <4>1. total = Len(o) /\ Len(o) # 0
        BY <1>6, <1>8, <2>2, <3>2
      <4>2. pages = (Len(o) + l - 1) \div l /\ pages <= p
        BY <1>5, <1>9, <2>1, <4>1
      <4> QED
        BY <1>5, <1>6, <4>2, PagesEnough
    <3> QED
      BY <3>1, <3>2
  <2>4. ~(Place(q, s) >= off + l)
    BY <1>5, <1>6, <2>2, <2>3
  <2> QED
    BY <1>18, <2>4
<1>22. Listing!TypeOK'
  BY <1>2, <1>3, <1>14 DEF Listing!TypeOK
<1> QED
  BY <1>2, <1>5, <1>14, <1>19, <1>20, <1>21, <1>22 DEF ListingIInv

\* A spec is published, repriced or removed while the client walks.
LEMMA ListingChange ==
    ASSUME Listing!ListingAssumption, IsFiniteSet(Specs), ListingIInv,
           NEW s \in Specs, NEW live \in BOOLEAN, NEW price \in 0..MaxPrice,
           Listing!Change(s, live, price)
    PROVE  ListingIInv' /\ Listing!NothingMissed'
<1>0. PICK q : q = page.query
  OBVIOUS
<1>1. /\ page' = [page EXCEPT !.added = page.added \/ live, !.removed = page.removed \/ spec[s].live]
      /\ spec' = [spec EXCEPT ![s] = [live |-> live, price |-> price]]
      /\ changes < MaxChanges /\ changes' = changes + 1 /\ owner' = owner
      /\ q # NULL /\ page.page =< page.pages
  BY <1>0 DEF Listing!Change, Listing!Walking
<1>2. /\ page \in Listing!Walk /\ page.page \in Nat \ {0} /\ page.pages \in Nat \ {0}
      /\ spec \in [Specs -> [live : BOOLEAN, price : 0..MaxPrice]]
      /\ owner \in [Specs -> Producers] /\ changes \in 0..MaxChanges /\ MaxChanges \in Nat
      /\ q.limit \in Asked
  BY <1>0, <1>1, WalkTyped, ListingFacts DEF ListingIInv, Listing!TypeOK
<1>3. PICK added \in BOOLEAN, removed \in BOOLEAN :
          added = (page.added \/ live) /\ removed = (page.removed \/ spec[s].live)
  BY <1>2, WalkTyped
<1>4. page' = [page EXCEPT !.added = added, !.removed = removed]
  BY <1>1, <1>3
<1>5. /\ page' \in Listing!Walk /\ page'.page = page.page /\ page'.pages = page.pages
      /\ page'.query = page.query /\ page'.shown = page.shown /\ page'.start = page.start
      /\ page'.tied = page.tied /\ page'.added = added /\ page'.removed = removed
  BY ONLY <1>2, <1>4 DEF Listing!Walk
<1>6. Listing!TypeOK'
  <2>1. spec' \in [Specs -> [live : BOOLEAN, price : 0..MaxPrice]]
    BY <1>1, <1>2
  <2>2. changes' \in 0..MaxChanges
    BY <1>1, <1>2
  <2> QED
    BY <1>1, <1>2, <1>5, <2>1, <2>2 DEF Listing!TypeOK
<1>7. \A t \in Specs \ {s} : spec'[t] = spec[t]
  BY <1>1, <1>2
<1>8. spec'[s].live = live
  BY <1>1, <1>2
<1>9. \A t \in Specs \ {s} : t \in Listing!Matching(q)' <=> t \in Listing!Matching(q)
  BY <1>1, <1>7 DEF Listing!Matching, Listing!Matches
<1>10. \A t, u \in Specs \ {s} : Listing!Before(q, t, u)' <=> Listing!Before(q, t, u)
  BY <1>7 DEF Listing!Before
<1>11. Listing!Matching(q) \subseteq Specs /\ Listing!Matching(q)' \subseteq Specs
  BY DEF Listing!Matching
<1>12. \A t : /\ IsFiniteSet(Preceding(q, t)) /\ Preceding(q, t)' \subseteq Specs
              /\ Place(q, t) \in Nat
  BY <1>11, PlaceTyped DEF Preceding
<1>13. \A t : /\ IsFiniteSet(Preceding(q, t)') /\ Place(q, t)' = Cardinality(Preceding(q, t)')
              /\ Place(q, t)' \in Nat
  BY <1>12, FS_Subset, FS_CardinalityType DEF Place
<1>14. /\ Listing!Matching(page.query)' = Listing!Matching(q)'
       /\ \A t : Place(page.query, t)' = Place(q, t)'
  <2>1. Listing!Matching(page.query)' = Listing!Matching(q)'
    BY <1>0, <1>5 DEF Listing!Matching, Listing!Matches
  <2> QED
    BY <1>0, <1>5, <2>1 DEF Place, Preceding, Listing!Before
<1>15. /\ Listing!Offset(page.page, page.query.limit)' = Listing!Offset(page.page, q.limit)
       /\ Listing!Offset(page.page, q.limit) \in Nat
  BY <1>0, <1>2, <1>5, OffsetIs DEF Listing!Offset, Listing!ServiceLimit, Listing!HandlerLimit
<1>16. Onward'
  <2> SUFFICES ASSUME ~removed
               PROVE  /\ page.start \subseteq Listing!Matching(q)'
                      /\ ~page.tied => \A t \in page.start :
                             t \in Listing!Shown
                             \/ Place(q, t)' >= Listing!Offset(page.page, q.limit)
    <3>1. Listing!Shown' = Listing!Shown
      BY <1>5 DEF Listing!Shown
    <3> QED
      BY <1>5, <1>14, <1>15, <3>1 DEF Onward
  <2>1. ~page.removed /\ ~spec[s].live
    BY <1>3
  <2>2. s \notin Listing!Matching(q)
    BY <2>1 DEF Listing!Matching, Listing!Matches
  <2>3. Listing!Matching(q) \subseteq Listing!Matching(q)'
    BY <1>9, <1>11, <2>2
  <2>4. /\ page.start \subseteq Listing!Matching(q)
        /\ ~page.tied => \A t \in page.start :
               t \in Listing!Shown \/ Place(q, t) >= Listing!Offset(page.page, q.limit)
    BY <1>0, <1>1, <2>1 DEF ListingIInv, Onward
  <2>5. ASSUME NEW t \in Listing!Matching(q) PROVE Place(q, t)' >= Place(q, t)
    <3>1. Preceding(q, t) \subseteq Preceding(q, t)'
      BY <1>10, <1>11, <2>2, <2>3 DEF Preceding
    <3>2. Cardinality(Preceding(q, t)) <= Cardinality(Preceding(q, t)')
      BY <1>13, <3>1, FS_Subset
    <3> QED
      BY <1>12, <1>13, <3>2 DEF Place
  <2>6. \A t \in page.start : Place(q, t)' >= Place(q, t) /\ Place(q, t)' \in Nat /\ Place(q, t) \in Nat
    BY <1>12, <1>13, <2>4, <2>5
  <2> QED
    BY <1>15, <2>3, <2>4, <2>6
<1>17. Behind'
  <2> SUFFICES ASSUME ~added, ~page.tied
               PROVE  /\ \A i, j \in DOMAIN page.shown : page.shown[i] = page.shown[j] => i = j
                      /\ \A i \in DOMAIN page.shown :
                             page.shown[i] \in Listing!Matching(q)' =>
                                 Place(q, page.shown[i])' < Listing!Offset(page.page, q.limit)
    <3>1. PICK seen : seen = page.shown
      OBVIOUS
    <3>2. \A i : /\ Place(page.query, page.shown[i])' = Place(q, seen[i])'
                 /\ Place(q, page.shown[i])' = Place(q, seen[i])'
      BY <1>5, <1>14, <3>1
    <3> QED
      BY <1>5, <1>14, <1>15, <3>1, <3>2 DEF Behind
  <2>1. ~page.added /\ ~live
    BY <1>3
  <2>2. s \notin Listing!Matching(q)'
    BY <1>8, <2>1 DEF Listing!Matching, Listing!Matches
  <2>3. /\ \A i, j \in DOMAIN page.shown : page.shown[i] = page.shown[j] => i = j
        /\ \A i \in DOMAIN page.shown :
               page.shown[i] \in Listing!Matching(q) =>
                   Place(q, page.shown[i]) < Listing!Offset(page.page, q.limit)
    BY <1>0, <1>1, <2>1 DEF ListingIInv, Behind
  <2>4. ASSUME NEW t \in Listing!Matching(q)'
        PROVE  t \in Listing!Matching(q) /\ Place(q, t)' <= Place(q, t)
    <3>1. t \in Specs \ {s} /\ t \in Listing!Matching(q)
      BY <1>9, <1>11, <2>2
    <3>2. Preceding(q, t)' \subseteq Preceding(q, t)
      BY <1>9, <1>10, <1>11, <2>2, <3>1 DEF Preceding
    <3>3. Cardinality(Preceding(q, t)') <= Cardinality(Preceding(q, t))
      BY <1>12, <3>2, FS_Subset
    <3> QED
      BY <1>13, <3>1, <3>3 DEF Place
  <2>5. PICK seen : seen = page.shown
    OBVIOUS
  <2>6. ASSUME NEW i \in DOMAIN seen, seen[i] \in Listing!Matching(q)'
        PROVE  Place(q, seen[i])' < Listing!Offset(page.page, q.limit)
    <3>1. PICK t : t = seen[i]
      OBVIOUS
    <3>2. t \in Listing!Matching(q) /\ Place(q, t)' <= Place(q, t)
      BY <2>4, <2>6, <3>1
    <3>3. Place(q, t) < Listing!Offset(page.page, q.limit)
      BY <2>3, <2>5, <2>6, <3>1, <3>2
    <3>4. Place(q, t)' < Listing!Offset(page.page, q.limit)
      BY <1>12, <1>13, <1>15, <3>2, <3>3
    <3> QED
      BY <3>1, <3>4
  <2> QED
    BY <1>5, <2>3, <2>5, <2>6
<1>18. Listing!NothingMissed'
  BY <1>1, <1>2, <1>5 DEF Listing!NothingMissed, Listing!Finished
<1> QED
  BY <1>0, <1>1, <1>2, <1>5, <1>6, <1>16, <1>17, <1>18 DEF ListingIInv

\* A step that changes nothing.
LEMMA ListingStutter ==
    ASSUME ListingIInv, UNCHANGED Listing!vars
    PROVE  ListingIInv' /\ (Listing!NothingMissed => Listing!NothingMissed')
<1> USE DEF Listing!vars
<1>1. Listing!TypeOK'
  BY DEF ListingIInv, Listing!TypeOK
<1>2. /\ Listing!Shown' = Listing!Shown
      /\ Listing!Offset(page.page, page.query.limit)' = Listing!Offset(page.page, page.query.limit)
  BY DEF Listing!Shown, Listing!Offset, Listing!ServiceLimit, Listing!HandlerLimit
<1>3. Listing!Matching(page.query)' = Listing!Matching(page.query)
  BY DEF Listing!Matching, Listing!Matches
<1>4. \A s : Place(page.query, s)' = Place(page.query, s)
  BY <1>3 DEF Place, Preceding, Listing!Before
<1>5. Onward'
  BY <1>2, <1>3, <1>4 DEF ListingIInv, Onward
<1>6. Behind'
  <2>1. PICK seen : seen = page.shown
    OBVIOUS
  <2>2. \A i : Place(page.query, page.shown[i])' = Place(page.query, page.shown[i])
    <3>1. \A i : Place(page.query, page.shown[i])' = Place(page.query, seen[i])'
      BY <2>1
    <3> QED
      BY <1>4, <2>1, <3>1
  <2> QED
    BY <1>2, <1>3, <2>2 DEF ListingIInv, Behind
<1>7. Listing!NothingMissed => Listing!NothingMissed'
  BY <1>2 DEF Listing!NothingMissed, Listing!Finished
<1> QED
  BY <1>1, <1>5, <1>6, <1>7 DEF ListingIInv

\* Nothing has happened yet.
LEMMA ListingInit ==
    ASSUME Listing!ListingAssumption, Listing!Init
    PROVE  ListingIInv /\ Listing!NothingMissed
<1>1. /\ page = [query |-> NULL, page |-> 1, pages |-> 1, total |-> 0, matching |-> 0,
                 start |-> {}, shown |-> <<>>,
                 added |-> FALSE, removed |-> FALSE, tied |-> FALSE]
      /\ <<>> \in Seq(Specs) /\ {} \in SUBSET Specs /\ 1 \in Nat \ {0} /\ 0 \in Nat
  BY DEF Listing!Init, Listing!NoWalk
<1>2. page \in Listing!Walk
  BY <1>1 DEF Listing!Walk
<1>3. Listing!TypeOK
  BY <1>2, ListingFacts DEF Listing!Init, Listing!TypeOK
<1> QED
  BY <1>1, <1>3 DEF ListingIInv, Onward, Behind, Listing!NothingMissed, Listing!Finished

\* The places of what was shown and of what is to come, in every state.
THEOREM ListingInvariant == Listing!Spec => []ListingIInv
<1>0. Listing!ListingAssumption /\ IsFiniteSet(Specs)
  BY ShopAssumption DEF ShopAssumption
<1>1. Listing!Init => ListingIInv
  BY <1>0, ListingInit
<1>2. ASSUME ListingIInv, [Listing!Next]_Listing!vars PROVE ListingIInv'
  <2>1. ASSUME NEW q \in Listing!Query, Listing!Start(q) PROVE ListingIInv'
    BY <1>0, <1>2, <2>1, ListingStart
  <2>2. CASE Listing!List
    BY <1>0, <1>2, <2>2, ListingList
  <2>3. ASSUME NEW s \in Specs, NEW live \in BOOLEAN, NEW price \in 0..MaxPrice,
               Listing!Change(s, live, price)
        PROVE  ListingIInv'
    BY <1>0, <1>2, <2>3, ListingChange
  <2>4. CASE UNCHANGED Listing!vars
    BY <1>2, <2>4, ListingStutter
  <2> QED
    BY <1>2, <2>1, <2>2, <2>3, <2>4 DEF Listing!Next
<1> QED
  BY <1>1, <1>2, PTL DEF Listing!Spec

\* A client that follows the pages is shown no spec twice, whatever page size
\* it asks for, as long as none was published or repriced and the sort key has
\* no ties.
THEOREM NoSpecTwice == Listing!Spec => [](Listing!TypeOK /\ Listing!NothingTwice)
<1>1. ListingIInv => Listing!TypeOK /\ Listing!NothingTwice
  BY DEF ListingIInv, Behind, Listing!NothingTwice
<1> QED
  BY <1>1, ListingInvariant, PTL

\* Where every page size asked for is within the service's cap, the handler
\* and the service agree on what a page is, and the client is shown, once,
\* every spec that matched when it started.
THEOREM ListingHolds == LimitsWithinCap => (Listing!Spec => []ListingInv)
<1> SUFFICES ASSUME LimitsWithinCap PROVE Listing!Spec => []ListingInv
  OBVIOUS
<1>0. Listing!ListingAssumption /\ IsFiniteSet(Specs)
  BY ShopAssumption DEF ShopAssumption
<1>1. Listing!Init => Listing!NothingMissed
  BY <1>0, ListingInit
<1>2. ASSUME ListingIInv, Listing!NothingMissed, [Listing!Next]_Listing!vars
      PROVE  Listing!NothingMissed'
  <2>1. ASSUME NEW q \in Listing!Query, Listing!Start(q) PROVE Listing!NothingMissed'
    BY <1>0, <1>2, <2>1, ListingStart
  <2>2. CASE Listing!List
    BY <1>0, <1>2, <2>2, ListingList
  <2>3. ASSUME NEW s \in Specs, NEW live \in BOOLEAN, NEW price \in 0..MaxPrice,
               Listing!Change(s, live, price)
        PROVE  Listing!NothingMissed'
    BY <1>0, <1>2, <2>3, ListingChange
  <2>4. CASE UNCHANGED Listing!vars
    BY <1>2, <2>4, ListingStutter
  <2> QED
    BY <1>2, <2>1, <2>2, <2>3, <2>4 DEF Listing!Next
<1>3. ListingIInv /\ Listing!NothingMissed => ListingInv
  BY DEF ListingIInv, Behind, ListingInv, Listing!ListingInv, Listing!NothingTwice
<1> QED
  BY <1>1, <1>2, <1>3, ListingInvariant, PTL DEF Listing!Spec
=============================================================================
