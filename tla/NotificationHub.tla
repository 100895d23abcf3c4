--------------------------- MODULE NotificationHub ---------------------------
(***************************************************************************)
(* In-app notifications: the row of a notification, and the hub that       *)
(* pushes it to the open WebSocket connections of its user. The hub is one *)
(* goroutine (Run) that owns the clients; requests meet it on unbuffered   *)
(* channels, and each connection has a reader and a writer goroutine and a *)
(* buffered channel "send" between the hub and the writer.                 *)
(* BroadcastMessage has no caller and is left out.                         *)
(***************************************************************************)
EXTENDS Naturals, Sequences, FiniteSets

CONSTANTS
    Users,
    Conns,      \* connections, each opened once
    MaxNotes,   \* bound: notifications created
    Limit,      \* capacity of "send": 256
    Embedded,   \* the media worker runs inside the server
    MayStop,    \* whether Shutdown may be called
    MaxFaults,  \* bound: failed inserts
    NULL

HubAssumption ==
    /\ MaxNotes \in Nat /\ Limit \in Nat \ {0} /\ MaxFaults \in Nat
    /\ Embedded \in BOOLEAN /\ MayStop \in BOOLEAN
    /\ NULL \notin Users

Notes == 1..MaxNotes

VARIABLES
    row,       \* notifications: stored or not, its user, is_read
    stage,     \* a call of Create: not made, in SendToUser, returned
    clients,   \* hub.clients
    stop,      \* hub.stop is closed
    running,   \* Run has not returned
    who,       \* user of a connection
    reader,    \* ServeWs until it starts the pumps, then readPump
    writer,    \* writePump
    socket,    \* the TCP connection is up
    send,      \* Client.send
    hand,      \* the message writePump has taken and not yet written
    closed,    \* Client.send is closed
    panicked,  \* a close of a closed channel or a send on one
    got,       \* history: messages the peer received
    pushed,    \* history: messages the hub took, in its order
    since,     \* history: length of pushed when a connection was registered
    faults

db == <<row, stage>>
hub == <<clients, stop, running, closed, panicked, pushed>>
peer == <<who, since>>
vars == <<row, stage, clients, stop, running, who, reader, writer, socket,
          send, hand, closed, panicked, got, pushed, since, faults>>

Row == [stored : BOOLEAN, user : Users \cup {NULL}, read : BOOLEAN]

\* The shape of the state; no channel holds more than its capacity.
TypeOK ==
    /\ row \in [Notes -> Row]
    /\ stage \in [Notes -> {"none", "sending", "returned"}]
    /\ clients \subseteq Conns
    /\ stop \in BOOLEAN /\ running \in BOOLEAN /\ panicked \in BOOLEAN
    /\ who \in [Conns -> Users \cup {NULL}]
    /\ reader \in [Conns -> {"none", "joining", "reading", "leaving", "ended"}]
    /\ writer \in [Conns -> {"none", "waiting", "ended"}]
    /\ socket \in [Conns -> BOOLEAN] /\ closed \in [Conns -> BOOLEAN]
    /\ send \in [Conns -> Seq(Notes)] /\ got \in [Conns -> Seq(Notes)]
    /\ \A c \in Conns : Len(send[c]) =< Limit
    /\ hand \in [Conns -> Notes \cup {0}]
    /\ pushed \in Seq(Notes) /\ since \in [Conns -> Nat]
    /\ faults \in 0..MaxFaults

Init ==
    /\ row = [n \in Notes |-> [stored |-> FALSE, user |-> NULL, read |-> FALSE]]
    /\ stage = [n \in Notes |-> "none"]
    /\ clients = {} /\ stop = FALSE /\ running = TRUE /\ panicked = FALSE
    /\ who = [c \in Conns |-> NULL]
    /\ reader = [c \in Conns |-> "none"] /\ writer = [c \in Conns |-> "none"]
    /\ socket = [c \in Conns |-> FALSE] /\ closed = [c \in Conns |-> FALSE]
    /\ send = [c \in Conns |-> <<>>] /\ got = [c \in Conns |-> <<>>]
    /\ hand = [c \in Conns |-> 0]
    /\ pushed = <<>> /\ since = [c \in Conns |-> 0] /\ faults = 0

----------------------------------------------------------------------------
(* Creating and reading notifications.                                     *)

\* NotificationService.Create goes on to SendToUser; the notifier of
\* cmd/worker only writes the row.
AfterInsert == IF Embedded THEN "sending" ELSE "returned"

Create(n, u) ==
    /\ stage[n] = "none" /\ \A m \in Notes : m < n => stage[m] # "none"
    /\ \/ /\ row' = [row EXCEPT ![n] =
                        [stored |-> TRUE, user |-> u, read |-> FALSE]]
          /\ stage' = [stage EXCEPT ![n] = AfterInsert]
          /\ UNCHANGED faults
       \/ /\ faults < MaxFaults /\ faults' = faults + 1
          /\ row' = [row EXCEPT ![n].user = u]
          /\ stage' = [stage EXCEPT ![n] = "returned"]
    /\ UNCHANGED <<hub, peer, reader, writer, socket, send, hand, got>>

\* MarkAsRead of one's own notification; MarkAllAsRead does it for all.
MarkRead(u, S) ==
    /\ row' = [n \in Notes |-> IF n \in S /\ row[n].stored /\ row[n].user = u
                               THEN [row[n] EXCEPT !.read = TRUE] ELSE row[n]]
    /\ UNCHANGED <<stage, hub, peer, reader, writer, socket, send, hand, got, faults>>

MarkAsRead(u, n) == MarkRead(u, {n})
MarkAllAsRead(u) == MarkRead(u, Notes)

----------------------------------------------------------------------------
(* The hub: one case of the select in Run per step.                        *)

\* ServeWs handed the client over.
Register(c) ==
    /\ running /\ reader[c] = "joining"
    /\ clients' = clients \cup {c}
    /\ since' = [since EXCEPT ![c] = Len(pushed)]
    /\ reader' = [reader EXCEPT ![c] = "reading"]
    /\ writer' = [writer EXCEPT ![c] = "waiting"]
    /\ UNCHANGED <<db, stop, running, closed, panicked, pushed, who,
                   socket, send, hand, got, faults>>

\* Mutant of Registered: unregister does not look the client up.
RegisteredAlways(c) == TRUE

Registered(c) == c \in clients

Unregister(c) ==
    /\ running /\ reader[c] = "leaving"
    /\ IF Registered(c)
       THEN /\ clients' = clients \ {c}
            /\ panicked' = (panicked \/ closed[c])
            /\ closed' = [closed EXCEPT ![c] = TRUE]
       ELSE UNCHANGED <<clients, closed, panicked>>
    /\ reader' = [reader EXCEPT ![c] = "ended"]
    /\ socket' = [socket EXCEPT ![c] = FALSE]
    /\ UNCHANGED <<db, stop, running, pushed, peer, writer, send, hand, got, faults>>

To(n) == {c \in clients : who[c] = row[n].user}

IsFull(c) == Len(send[c]) >= Limit

Slow(n) == {c \in To(n) : IsFull(c)}

\* Mutant of Dropped: a slow client misses the message and stays.
DroppedNone(n) == {}

Dropped(n) == Slow(n)

Unicast(n) ==
    /\ running /\ stage[n] = "sending"
    /\ send' = [c \in Conns |-> IF c \in To(n) \ Slow(n)
                                THEN Append(send[c], n) ELSE send[c]]
    /\ clients' = clients \ Dropped(n)
    /\ panicked' = (panicked \/ \E c \in To(n) : closed[c])
    /\ closed' = [c \in Conns |-> closed[c] \/ c \in Dropped(n)]
    /\ pushed' = Append(pushed, n)
    /\ stage' = [stage EXCEPT ![n] = "returned"]
    /\ UNCHANGED <<row, stop, running, peer, reader, writer, socket, hand, got, faults>>

Stop ==
    /\ MayStop /\ ~stop
    /\ stop' = TRUE
    /\ UNCHANGED <<db, clients, running, closed, panicked, pushed, peer,
                   reader, writer, socket, send, hand, got, faults>>

RunReturns ==
    /\ running /\ stop
    /\ running' = FALSE
    /\ panicked' = (panicked \/ \E c \in clients : closed[c])
    /\ closed' = [c \in Conns |-> closed[c] \/ c \in clients]
    /\ clients' = {}
    /\ UNCHANGED <<db, stop, pushed, peer, reader, writer, socket, send,
                   hand, got, faults>>

----------------------------------------------------------------------------
(* Whoever waits for the hub also waits for stop.                          *)

\* Mutant of SeesStop: the send to the hub is not in a select.
SeesStopNever == FALSE

SeesStop == stop

\* SendToUser returns although nobody took the message.
SendGivesUp(n) ==
    /\ SeesStop /\ stage[n] = "sending"
    /\ stage' = [stage EXCEPT ![n] = "returned"]
    /\ UNCHANGED <<row, hub, peer, reader, writer, socket, send, hand, got, faults>>

\* ServeWs starts the pumps of a client the hub never saw.
JoinGivesUp(c) ==
    /\ SeesStop /\ reader[c] = "joining"
    /\ reader' = [reader EXCEPT ![c] = "reading"]
    /\ writer' = [writer EXCEPT ![c] = "waiting"]
    /\ UNCHANGED <<db, hub, peer, socket, send, hand, got, faults>>

LeaveGivesUp(c) ==
    /\ SeesStop /\ reader[c] = "leaving"
    /\ reader' = [reader EXCEPT ![c] = "ended"]
    /\ socket' = [socket EXCEPT ![c] = FALSE]
    /\ UNCHANGED <<db, hub, peer, writer, send, hand, got, faults>>

----------------------------------------------------------------------------
(* A connection: ServeWs, readPump and writePump.                          *)

ServeWs(c, u) ==
    /\ reader[c] = "none"
    /\ who' = [who EXCEPT ![c] = u]
    /\ socket' = [socket EXCEPT ![c] = TRUE]
    /\ reader' = [reader EXCEPT ![c] = "joining"]
    /\ UNCHANGED <<db, hub, since, writer, send, hand, got, faults>>

\* The peer leaves, or the network loses it.
PeerGone(c) ==
    /\ socket[c]
    /\ socket' = [socket EXCEPT ![c] = FALSE]
    /\ UNCHANGED <<db, hub, peer, reader, writer, send, hand, got, faults>>

\* ReadMessage fails once the connection is closed from either end.
ReadFails(c) ==
    /\ reader[c] = "reading" /\ ~socket[c]
    /\ reader' = [reader EXCEPT ![c] = "leaving"]
    /\ UNCHANGED <<db, hub, peer, writer, socket, send, hand, got, faults>>

Take(c) ==
    /\ writer[c] = "waiting" /\ hand[c] = 0 /\ send[c] # <<>>
    /\ hand' = [hand EXCEPT ![c] = Head(send[c])]
    /\ send' = [send EXCEPT ![c] = Tail(send[c])]
    /\ UNCHANGED <<db, hub, peer, reader, writer, socket, got, faults>>

Write(c) ==
    /\ writer[c] = "waiting" /\ hand[c] # 0 /\ socket[c]
    /\ got' = [got EXCEPT ![c] = Append(got[c], hand[c])]
    /\ hand' = [hand EXCEPT ![c] = 0]
    /\ UNCHANGED <<db, hub, peer, reader, writer, socket, send, faults>>

WriterEnds(c) ==
    /\ writer' = [writer EXCEPT ![c] = "ended"]
    /\ socket' = [socket EXCEPT ![c] = FALSE]
    /\ UNCHANGED <<db, hub, peer, reader, send, hand, got, faults>>

\* A write fails, or takes longer than writeWait.
WriteFails(c) == writer[c] = "waiting" /\ hand[c] # 0 /\ WriterEnds(c)

\* The ping of an idle connection fails.
PingFails(c) ==
    writer[c] = "waiting" /\ hand[c] = 0 /\ ~socket[c] /\ WriterEnds(c)

\* Mutant of SeesClosed: the writer does not ask whether send is closed.
SeesClosedNever(c) == FALSE

\* A closed channel is read to its end first.
SeesClosed(c) == closed[c] /\ send[c] = <<>>

HubClosed(c) ==
    writer[c] = "waiting" /\ hand[c] = 0 /\ SeesClosed(c) /\ WriterEnds(c)

----------------------------------------------------------------------------

Next ==
    \/ \E n \in Notes :
        \/ \E u \in Users : Create(n, u) \/ MarkAsRead(u, n)
        \/ Unicast(n) \/ SendGivesUp(n)
    \/ \E u \in Users : MarkAllAsRead(u)
    \/ \E c \in Conns :
        \/ \E u \in Users : ServeWs(c, u)
        \/ Register(c) \/ Unregister(c) \/ JoinGivesUp(c) \/ LeaveGivesUp(c)
        \/ PeerGone(c) \/ ReadFails(c) \/ Take(c) \/ Write(c)
        \/ WriteFails(c) \/ PingFails(c) \/ HubClosed(c)
    \/ Stop \/ RunReturns

Spec == Init /\ [][Next]_vars

WriterSteps(c) ==
    Take(c) \/ Write(c) \/ WriteFails(c) \/ PingFails(c) \/ HubClosed(c)

\* The goroutines run. Waiting senders are served in turn and select chooses
\* among the ready cases at random, so no ready case is passed over for ever.
Fairness ==
    /\ WF_vars(RunReturns)
    /\ \A n \in Notes : WF_vars(Unicast(n)) /\ WF_vars(SendGivesUp(n))
    /\ \A c \in Conns :
        /\ WF_vars(Register(c)) /\ WF_vars(JoinGivesUp(c))
        /\ WF_vars(Unregister(c)) /\ WF_vars(LeaveGivesUp(c))
        /\ WF_vars(ReadFails(c)) /\ WF_vars(WriterSteps(c))

FairSpec == Spec /\ Fairness

----------------------------------------------------------------------------

\* The hub, the readers that unregister, and Stop never close a channel twice
\* nor send on a closed one: either ends the process.
NeverPanics == ~panicked

\* What the peer of a connection got, and will get while its writer lives.
Stream(c) ==
    got[c] \o (IF writer[c] # "waiting" THEN <<>>
               ELSE (IF hand[c] = 0 THEN <<>> ELSE <<hand[c]>>) \o send[c])

\* Where the hub took a message for its user since it was registered.
Due(c) == {p \in 1..Len(pushed) : p > since[c] /\ row[pushed[p]].user = who[c]}
Earlier(c, p) == {q \in Due(c) : q < p}

\* A connection gets its user's notifications and no other's, each once, in
\* the order of the hub and without a gap, so its i-th message is the i-th
\* one due: a client that cannot keep up is disconnected, never skipped.
StreamHasNoGap ==
    \A c \in Conns :
        /\ \A i \in DOMAIN Stream(c) : \E p \in Due(c) :
            pushed[p] = Stream(c)[i] /\ Cardinality(Earlier(c, p)) = i - 1
        /\ c \in clients /\ writer[c] = "waiting" =>
            Len(Stream(c)) = Cardinality(Due(c))

\* Whatever was pushed can be read in the list of notifications: the row
\* comes first, and a push is not made for a row that could not be written.
PushedIsStored == \A i \in 1..Len(pushed) : row[pushed[i]].stored

\* The hub keeps its channels and pushes nothing it should not.
HubInv == TypeOK /\ NeverPanics /\ PushedIsStored

\* A client the hub has dropped is disconnected, and both of its goroutines
\* end.
DroppedIsDisconnected ==
    \A c \in Conns :
        closed[c] ~> (reader[c] = "ended" /\ writer[c] = "ended" /\ ~socket[c])

\* A stored notification is pushed unless the server stops ("triggers
\* real-time WebSocket notifications" is said of the media worker), and Create
\* returns in either case: it runs inside that worker, which would otherwise
\* hang.
StoredIsPushed ==
    \A n \in Notes :
        row[n].stored ~> (/\ stage[n] = "returned"
                          /\ stop \/ \E i \in 1..Len(pushed) : pushed[i] = n)
=============================================================================
