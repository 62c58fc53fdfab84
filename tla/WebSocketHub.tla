----------------------------- MODULE WebSocketHub -----------------------------
(***************************************************************************)
(* Who is told of an order's statuses: services/WebSocketManager.ts and    *)
(* the two WebSocket endpoints of router/orderRoutes.ts.                   *)
(*                                                                         *)
(* The updates of an order are numbered in the order in which processOrder *)
(* and the others broadcast them.  A handler runs to its end without       *)
(* awaiting anything, so each is one action; what a client has sent but    *)
(* the server has not yet read is kept in mail.                            *)
(*                                                                         *)
(* The endpoints register connection.socket.  Whether the argument that    *)
(* @fastify/websocket passes has that property depends on its version (it  *)
(* passes the socket itself since version 10, the project pins 11.2.0);    *)
(* the library is not part of the repository, so both are possible here.   *)
(* Without it addClient throws after it has stored the client, and the     *)
(* library terminates the connection.                                      *)
(***************************************************************************)
EXTENDS Naturals, Sequences

CONSTANTS
    Clients,        \* connections; a browser that connects again is another one
    HubOrders,      \* the orders that clients ask about
    MaxUpdates,     \* bound: updates broadcast per order
    Texts,          \* bound: the messages that clients send
    Quota,          \* bound: how many of them each connection sends
    MaxRestarts     \* bound: restarts of the server

\* A message as the handler sees it: the member it says what to do in, the verb
\* and the order.  Text that is no JSON is ignored like a message of form "none".
Message == [form : {"type", "action", "none"},
            verb : {"subscribe", "unsubscribe"}, order : HubOrders]

General == "general"    \* the endpoint that no order is named by

ASSUME HubAssumption ==
    /\ General \notin HubOrders
    /\ Texts \subseteq Message
    /\ MaxUpdates \in Nat /\ Quota \in [Clients -> Nat] /\ MaxRestarts \in Nat

VARIABLES
    socketGiven,    \* whether connection.socket is the socket
    ready,          \* ready[c]: readyState of c's socket; "away" before it connects
    endpoint,       \* endpoint[c]: the order in c's URL, or General
    registered,     \* the clients in the manager's map
    subscriptions,  \* subscriptions[c]: the orders c is subscribed to
    mail,           \* mail[c]: messages of c that the server has not read
    written,        \* how many messages each client has sent
    asked,          \* asked[c]: the orders c has sent "subscribe" for, in either form
    sent,           \* sent[o]: number of updates broadcast for o
    threw,          \* threw[o]: the updates whose broadcast threw
    received,       \* received[c][o]: the updates of o written to c's socket
    since,          \* since[c][o]: sent[o] when c last subscribed to o
    restarts        \* how often the server has restarted

hubVars == <<socketGiven, ready, endpoint, registered, subscriptions, mail,
             written, asked, sent, threw, received, since, restarts>>

Update == 1 .. MaxUpdates

HubTypeOK ==
    /\ socketGiven \in BOOLEAN
    /\ ready \in [Clients -> {"away", "OPEN", "CLOSING", "CLOSED"}]
    /\ endpoint \in [Clients -> HubOrders \cup {General}]
    /\ registered \subseteq Clients
    /\ subscriptions \in [Clients -> SUBSET HubOrders]
    /\ mail \in [Clients -> Seq(Texts)]
    /\ written \in [Clients -> Nat] /\ \A c \in Clients : written[c] <= Quota[c]
    /\ asked \in [Clients -> SUBSET HubOrders]
    /\ sent \in [HubOrders -> 0 .. MaxUpdates]
    /\ threw \in [HubOrders -> SUBSET Update]
    /\ received \in [Clients -> [HubOrders -> Seq(Update)]]
    /\ since \in [Clients -> [HubOrders -> 0 .. MaxUpdates]]
    /\ restarts \in 0 .. MaxRestarts

HubInit ==
    /\ socketGiven \in BOOLEAN
    /\ ready = [c \in Clients |-> "away"]
    /\ endpoint = [c \in Clients |-> General]
    /\ registered = {}
    /\ subscriptions = [c \in Clients |-> {}]
    /\ mail = [c \in Clients |-> <<>>]
    /\ written = [c \in Clients |-> 0]
    /\ asked = [c \in Clients |-> {}]
    /\ sent = [o \in HubOrders |-> 0]
    /\ threw = [o \in HubOrders |-> {}]
    /\ received = [c \in Clients |-> [o \in HubOrders |-> <<>>]]
    /\ since = [c \in Clients |-> [o \in HubOrders |-> 0]]
    /\ restarts = 0

-----------------------------------------------------------------------------

\* The endpoints call addClient, which stores the client and its subscription
\* before it touches the socket.
AddClient(c, e) ==
    /\ ready[c] = "away"
    /\ ready' = [ready EXCEPT ![c] = IF socketGiven THEN "OPEN" ELSE "CLOSED"]
    /\ endpoint' = [endpoint EXCEPT ![c] = e]
    /\ registered' = registered \cup {c}
    /\ subscriptions' = [subscriptions EXCEPT ![c] = {e} \ {General}]
    /\ since' = [since EXCEPT ![c] = sent]
    /\ UNCHANGED <<socketGiven, mail, written, asked, sent, threw, received, restarts>>

\* Mutant of RemoveClient: the socket is closed, the client stays in the map.
RemoveClientKeeps(c) ==
    /\ ready' = [ready EXCEPT ![c] = IF @ = "OPEN" /\ c \in registered THEN "CLOSING" ELSE @]
    /\ UNCHANGED registered

\* removeClient; a client that is not in the map is left alone.
RemoveClient(c) ==
    /\ ready' = [ready EXCEPT ![c] = IF @ = "OPEN" /\ c \in registered THEN "CLOSING" ELSE @]
    /\ registered' = registered \ {c}

\* The "error" event of the socket.
ErrorEvent(c) ==
    /\ socketGiven /\ ready[c] = "OPEN"
    /\ RemoveClient(c)
    /\ UNCHANGED <<socketGiven, endpoint, subscriptions, mail, written, asked, sent,
                   threw, received, since, restarts>>

\* The other side begins to close the connection.
CloseFrame(c) ==
    /\ socketGiven /\ ready[c] = "OPEN"
    /\ ready' = [ready EXCEPT ![c] = "CLOSING"]
    /\ UNCHANGED <<socketGiven, endpoint, registered, subscriptions, mail, written,
                   asked, sent, threw, received, since, restarts>>

\* The connection is closed; its "close" event has not been emitted yet.
SocketClosed(c) ==
    /\ socketGiven /\ ready[c] \in {"OPEN", "CLOSING"}
    /\ ready' = [ready EXCEPT ![c] = "CLOSED"]
    /\ UNCHANGED <<socketGiven, endpoint, registered, subscriptions, mail, written,
                   asked, sent, threw, received, since, restarts>>

\* The "close" event of the socket.
CloseEvent(c) ==
    /\ socketGiven /\ ready[c] = "CLOSED" /\ c \in registered
    /\ RemoveClient(c)
    /\ UNCHANGED <<socketGiven, endpoint, subscriptions, mail, written, asked, sent,
                   threw, received, since, restarts>>
-----------------------------------------------------------------------------

\* A client writes a message.
WriteMessage(c, m) ==
    /\ ready[c] = "OPEN" /\ written[c] < Quota[c]
    /\ mail' = [mail EXCEPT ![c] = Append(@, m)]
    /\ written' = [written EXCEPT ![c] = @ + 1]
    /\ asked' = [asked EXCEPT ![c] =
                    IF m.form # "none" /\ m.verb = "subscribe" THEN @ \cup {m.order} ELSE @]
    /\ UNCHANGED <<socketGiven, ready, endpoint, registered, subscriptions, sent, threw,
                   received, since, restarts>>

\* handleClientMessage: what c is subscribed to after its message m.
Subscription(c, m) ==
    IF c \notin registered \/ m.form # "type" THEN subscriptions[c]
    ELSE IF m.verb = "subscribe" THEN subscriptions[c] \cup {m.order}
         ELSE subscriptions[c] \ {m.order}

\* Mutant of HandleMessage: a subscription is answered with the last update.
HandleMessageReplays(c) ==
    /\ socketGiven /\ mail[c] # <<>> /\ ready[c] \in {"OPEN", "CLOSING"}
    /\ mail' = [mail EXCEPT ![c] = Tail(@)]
    /\ LET m == Head(mail[c])
           new == Subscription(c, m) \ subscriptions[c]
       IN  /\ subscriptions' = [subscriptions EXCEPT ![c] = Subscription(c, m)]
           /\ since' = [since EXCEPT ![c] =
                          [o \in HubOrders |-> IF o \in new THEN sent[o] ELSE @[o]]]
           /\ received' = [received EXCEPT ![c] =
                [o \in HubOrders |-> IF o \in new /\ sent[o] > 0 THEN Append(@[o], sent[o])
                                                                 ELSE @[o]]]
    /\ UNCHANGED <<socketGiven, ready, endpoint, registered, written, asked, sent, threw,
                   restarts>>

\* The "message" event of the socket, also while it is closing.
HandleMessage(c) ==
    /\ socketGiven /\ mail[c] # <<>> /\ ready[c] \in {"OPEN", "CLOSING"}
    /\ mail' = [mail EXCEPT ![c] = Tail(@)]
    /\ LET m == Head(mail[c])
           new == Subscription(c, m) \ subscriptions[c]
       IN  /\ subscriptions' = [subscriptions EXCEPT ![c] = Subscription(c, m)]
           /\ since' = [since EXCEPT ![c] =
                          [o \in HubOrders |-> IF o \in new THEN sent[o] ELSE @[o]]]
    /\ UNCHANGED <<socketGiven, ready, endpoint, registered, written, asked, sent, threw,
                   received, restarts>>

\* Mutant of Poisoned: readyState is read before the subscription is looked up.
PoisonedByAny(o) == ~socketGiven /\ registered # {}

\* A client without a socket that is subscribed to o: reading its readyState throws.
Poisoned(o) == ~socketGiven /\ \E c \in registered : o \in subscriptions[c]

\* Mutant of Reached: a client whose socket is not open is dropped from the map's
\* traversal together with those behind it; here, all.
ReachedIfAllOpen(o) ==
    LET S == {c \in registered : o \in subscriptions[c]}
    IN  IF \A c \in S : ready[c] = "OPEN" THEN S ELSE {}

\* Mutant of Reached: the general stream is sent everything.
ReachedByGeneral(o) ==
    {c \in registered : (o \in subscriptions[c] \/ endpoint[c] = General) /\ ready[c] = "OPEN"}

\* The clients a broadcast about o is written to.
Reached(o) == {c \in registered : o \in subscriptions[c] /\ ready[c] = "OPEN"}

\* broadcastOrderUpdate.
BroadcastOrderUpdate(o) ==
    /\ sent[o] < MaxUpdates
    /\ sent' = [sent EXCEPT ![o] = @ + 1]
    /\ threw' = [threw EXCEPT ![o] = IF Poisoned(o) THEN @ \cup {sent[o] + 1} ELSE @]
    /\ received' = [c \in Clients |->
          IF c \in Reached(o) THEN [received[c] EXCEPT ![o] = Append(@, sent[o] + 1)]
                              ELSE received[c]]
    /\ UNCHANGED <<socketGiven, ready, endpoint, registered, subscriptions, mail, written,
                   asked, since, restarts>>

\* The process ends and starts again: its map is empty and its sockets are gone.
RestartHub ==
    /\ restarts < MaxRestarts
    /\ restarts' = restarts + 1
    /\ registered' = {}
    /\ ready' = [c \in Clients |-> IF ready[c] = "away" THEN "away" ELSE "CLOSED"]
    /\ UNCHANGED <<socketGiven, endpoint, subscriptions, mail, written, asked, sent, threw,
                   received, since>>

ClientStep(c) ==
    \/ \E e \in HubOrders \cup {General} : AddClient(c, e)
    \/ \E m \in Texts : WriteMessage(c, m)
    \/ CloseFrame(c)
    \/ SocketClosed(c)

HubNext ==
    \/ \E c \in Clients : ClientStep(c) \/ ErrorEvent(c) \/ CloseEvent(c) \/ HandleMessage(c)
    \/ \E o \in HubOrders : BroadcastOrderUpdate(o)
    \/ RestartHub

\* A connection that is closing ends, and node delivers the close event of its socket.
HubFairness ==
    \A c \in Clients :
        WF_hubVars((ready[c] = "CLOSING" /\ SocketClosed(c)) \/ CloseEvent(c))

HubSpec == HubInit /\ [][HubNext]_hubVars /\ HubFairness
-----------------------------------------------------------------------------

\* Nobody is told of an order whose endpoint it did not open and which it did not ask
\* for, in whichever form: also a client of the general stream is sent nothing of other
\* clients' orders, whatever they subscribe to and whoever closes (broadcastOrderUpdate).
OnlyWhatWasAskedFor ==
    \A c \in Clients, o \in HubOrders :
        received[c][o] # <<>> => o \in asked[c] \cup {endpoint[c]}

\* However often a client subscribes and unsubscribes, it is told of each update at
\* most once and in the order in which they were broadcast.
ToldInOrder ==
    \A c \in Clients, o \in HubOrders :
        LET r == received[c][o] IN \A i \in 1 .. Len(r) - 1 : r[i] < r[i + 1]

\* What a client misses of an order lies before its subscription: from then on, as
\* long as its socket is open and stays registered, no update is left out, whatever
\* other clients do and whatever state their sockets are in.
NothingMissedWhileSubscribed ==
    \A c \in registered, o \in HubOrders :
        (ready[c] = "OPEN" /\ o \in subscriptions[c]) =>
            \A n \in since[c][o] + 1 .. sent[o] :
                \E i \in 1 .. Len(received[c][o]) : received[c][o][i] = n

\* A client that was stored although addClient threw makes the broadcasts about its own
\* order throw inside processOrder, and no others: updates of an order nobody opened
\* by its URL are never lost this way.
GhostsHarmTheirOrderOnly ==
    \A o \in HubOrders : threw[o] # {} => \E c \in Clients : endpoint[c] = o

\* No connection stays in the map for good once it has begun to close, whichever of the
\* error and close events comes first (the listeners of addClient).
ClosedClientsLeave ==
    \A c \in Clients :
        (socketGiven /\ ready[c] \in {"CLOSING", "CLOSED"}) ~> c \notin registered
-----------------------------------------------------------------------------
\* README.md's example of the general stream, action: "subscribe", subscribes the client
\* that sends it (handleClientMessage looks at type).
ReadmeMessageSubscribes ==
    [][\A c \in registered :
          mail[c] # <<>> /\ mail'[c] = Tail(mail[c]) =>
             LET m == Head(mail[c]) IN
             m.form = "action" /\ m.verb = "subscribe" => m.order \in subscriptions'[c]]_hubVars
=============================================================================
