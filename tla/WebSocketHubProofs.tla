--------------------------- MODULE WebSocketHubProofs ---------------------------
(***************************************************************************)
(* The safety of the WebSocket hub for any clients, orders, messages,      *)
(* numbers of updates and restarts, with and without connection.socket.    *)
(***************************************************************************)
EXTENDS WebSocketHub, TLAPS

\* A connection that is yet to come has no endpoint and was told nothing.
AwayInv ==
    \A c \in Clients : ready[c] = "away" =>
        /\ endpoint[c] = General
        /\ \A o \in HubOrders : received[c][o] = <<>>

\* A client is subscribed to what it asked for or opened, and its unread messages
\* were counted as asking when they were sent.
AskedInv ==
    \A c \in Clients :
        /\ subscriptions[c] \subseteq asked[c] \cup ({endpoint[c]} \ {General})
        /\ ~socketGiven => subscriptions[c] \subseteq {endpoint[c]} \ {General}
        /\ \A i \in 1 .. Len(mail[c]) :
              mail[c][i].form # "none" /\ mail[c][i].verb = "subscribe"
                  => mail[c][i].order \in asked[c]

\* What was received has been sent.
SentInv ==
    \A c \in Clients, o \in HubOrders :
        \A i \in 1 .. Len(received[c][o]) : received[c][o][i] <= sent[o]

HubInv ==
    /\ HubTypeOK /\ AwayInv /\ AskedInv /\ SentInv
    /\ OnlyWhatWasAskedFor /\ ToldInOrder /\ NothingMissedWhileSubscribed
    /\ GhostsHarmTheirOrderOnly

-----------------------------------------------------------------------------

\* What Append leaves alone and what it adds.
LEMMA AppendAt ==
    ASSUME NEW S, NEW s \in Seq(S), NEW x \in S
    PROVE  /\ Append(s, x) \in Seq(S)
           /\ Len(s) \in Nat /\ Len(Append(s, x)) = Len(s) + 1
           /\ Append(s, x)[Len(s) + 1] = x
           /\ \A i \in 1 .. Len(s) : Append(s, x)[i] = s[i] /\ s[i] \in S
  OBVIOUS

LEMMA InitHubInv == HubInit => HubInv
<1> SUFFICES ASSUME HubInit PROVE HubInv
  OBVIOUS
<1>1. HubTypeOK
  BY HubAssumption DEF HubInit, HubTypeOK, Update, General
<1>2. AwayInv /\ AskedInv /\ SentInv
  BY DEF HubInit, AwayInv, AskedInv, SentInv
<1>3. OnlyWhatWasAskedFor /\ ToldInOrder /\ NothingMissedWhileSubscribed /\ GhostsHarmTheirOrderOnly
  BY DEF HubInit, OnlyWhatWasAskedFor, ToldInOrder, NothingMissedWhileSubscribed,
         GhostsHarmTheirOrderOnly
<1> QED BY <1>1, <1>2, <1>3 DEF HubInv

\* A new connection is told nothing yet and misses nothing yet.
LEMMA AddClientHubInv ==
    ASSUME HubInv, NEW c \in Clients, NEW e \in HubOrders \cup {General}, AddClient(c, e)
    PROVE  HubInv'
<1> USE DEF HubInv, AddClient
<1>1. HubTypeOK'
  BY HubAssumption DEF HubTypeOK
<1>2. AwayInv'
  BY DEF HubTypeOK, AwayInv
<1>3. AskedInv'
  BY DEF HubTypeOK, AskedInv, General
<1>4. SentInv' /\ ToldInOrder'
  BY DEF SentInv, ToldInOrder
<1>5. OnlyWhatWasAskedFor'
  BY DEF HubTypeOK, AwayInv, OnlyWhatWasAskedFor
<1>6. NothingMissedWhileSubscribed'
  BY DEF HubTypeOK, NothingMissedWhileSubscribed
<1>7. GhostsHarmTheirOrderOnly'
  <2> SUFFICES ASSUME NEW o \in HubOrders, threw[o] # {}
               PROVE  \E d \in Clients : endpoint'[d] = o
    BY DEF GhostsHarmTheirOrderOnly
  <2>1. PICK d \in Clients : endpoint[d] = o
    BY DEF GhostsHarmTheirOrderOnly
  <2>2. d # c
    BY <2>1, HubAssumption DEF AwayInv
  <2>3. endpoint'[d] = o
    BY <2>1, <2>2 DEF HubTypeOK
  <2> QED BY <2>3
<1> QED BY <1>1, <1>2, <1>3, <1>4, <1>5, <1>6, <1>7

\* The end of a connection, whichever way it comes, and a restart.
LEMMA CloseHubInv ==
    ASSUME HubInv,
           ready' \in [Clients -> {"away", "OPEN", "CLOSING", "CLOSED"}],
           \A c \in Clients : /\ ready'[c] = "away" => ready[c] = "away"
                              /\ ready'[c] = "OPEN" => ready[c] = "OPEN",
           registered' \subseteq registered,
           restarts' \in 0 .. MaxRestarts,
           UNCHANGED <<socketGiven, endpoint, subscriptions, mail, written, asked, sent,
                       threw, received, since>>
    PROVE  HubInv'
<1> USE DEF HubInv
<1>1. HubTypeOK'
  BY DEF HubTypeOK
<1>2. AwayInv' /\ AskedInv' /\ SentInv' /\ ToldInOrder' /\ OnlyWhatWasAskedFor'
  BY DEF AwayInv, AskedInv, SentInv, ToldInOrder, OnlyWhatWasAskedFor
<1>3. NothingMissedWhileSubscribed'
  <2> SUFFICES ASSUME NEW c \in registered', NEW o \in HubOrders, ready'[c] = "OPEN",
                      o \in subscriptions[c], NEW n \in since[c][o] + 1 .. sent[o]
               PROVE  \E i \in 1 .. Len(received[c][o]) : received[c][o][i] = n
    BY DEF NothingMissedWhileSubscribed
  <2>1. c \in registered /\ ready[c] = "OPEN"
    BY DEF HubTypeOK
  <2> QED BY <2>1 DEF NothingMissedWhileSubscribed
<1>4. GhostsHarmTheirOrderOnly'
  BY DEF GhostsHarmTheirOrderOnly
<1> QED BY <1>1, <1>2, <1>3, <1>4

\* A message is counted as asking when it is written.
LEMMA WriteMessageHubInv ==
    ASSUME HubInv, NEW c \in Clients, NEW m \in Texts, WriteMessage(c, m)
    PROVE  HubInv'
<1> USE DEF HubInv, WriteMessage
<1>1. m \in Message
  BY HubAssumption
<1>2. HubTypeOK'
  <2>1. mail' \in [Clients -> Seq(Texts)]
    <3>1. Append(mail[c], m) \in Seq(Texts)
      BY AppendAt DEF HubTypeOK
    <3> QED BY <3>1 DEF HubTypeOK
  <2>2. written' \in [Clients -> Nat] /\ \A d \in Clients : written'[d] <= Quota[d]
    <3>1. /\ written \in [Clients -> Nat] /\ \A d \in Clients : written[d] <= Quota[d]
          /\ written[c] < Quota[c] /\ written' = [written EXCEPT ![c] = @ + 1]
      BY DEF HubTypeOK
    <3>2. Quota \in [Clients -> Nat]
      BY HubAssumption
    <3> HIDE DEF HubInv, WriteMessage
    <3>3. written' \in [Clients -> Nat]
      BY <3>1
    <3>4. written[c] + 1 <= Quota[c]
      <4>1. written[c] \in Nat /\ Quota[c] \in Nat /\ written[c] < Quota[c]
        BY <3>1, <3>2
      <4> QED BY <4>1
    <3>5. ASSUME NEW d \in Clients PROVE written'[d] <= Quota[d]
      <4>1. CASE d = c
        BY <3>1, <3>4, <4>1
      <4>2. CASE d # c
        BY <3>1, <4>2
      <4> QED BY <4>1, <4>2
    <3> QED BY <3>3, <3>5
  <2>3. asked' \in [Clients -> SUBSET HubOrders]
    BY <1>1 DEF HubTypeOK, Message
  <2> QED BY <2>1, <2>2, <2>3 DEF HubTypeOK
<1>3. AskedInv'
  <2> SUFFICES ASSUME NEW d \in Clients
               PROVE  /\ subscriptions'[d] \subseteq asked'[d] \cup ({endpoint'[d]} \ {General})
                      /\ ~socketGiven' => subscriptions'[d] \subseteq {endpoint'[d]} \ {General}
                      /\ \A i \in 1 .. Len(mail'[d]) :
                            mail'[d][i].form # "none" /\ mail'[d][i].verb = "subscribe"
                                => mail'[d][i].order \in asked'[d]
    BY DEF AskedInv
  <2>1. asked[d] \subseteq asked'[d]
    BY DEF HubTypeOK
  <2>2. CASE d # c
    BY <2>1, <2>2 DEF HubTypeOK, AskedInv
  <2>3. CASE d = c
    <3>1. mail'[c] = Append(mail[c], m) /\ mail[c] \in Seq(Texts)
      BY DEF HubTypeOK
    <3>2. m.form # "none" /\ m.verb = "subscribe" => m.order \in asked'[c]
      BY DEF HubTypeOK
    <3>3. ASSUME NEW i \in 1 .. Len(mail'[c]),
                 mail'[c][i].form # "none" /\ mail'[c][i].verb = "subscribe"
          PROVE  mail'[c][i].order \in asked'[c]
      <4>1. i \in 1 .. Len(mail[c]) \/ i = Len(mail[c]) + 1
        BY <3>1
      <4>2. CASE i \in 1 .. Len(mail[c])
        <5>1. mail'[c][i] = mail[c][i]
          BY <3>1, <4>2
        <5> QED BY <2>1, <2>3, <3>3, <4>2, <5>1 DEF AskedInv
      <4>3. CASE i = Len(mail[c]) + 1
        BY <3>1, <3>2, <3>3, <4>3
      <4> QED BY <4>1, <4>2, <4>3
    <3> QED BY <2>1, <2>3, <3>3 DEF AskedInv
  <2> QED BY <2>2, <2>3
<1>4. AwayInv' /\ SentInv' /\ ToldInOrder' /\ GhostsHarmTheirOrderOnly'
  BY DEF AwayInv, SentInv, ToldInOrder, GhostsHarmTheirOrderOnly
<1>5. \A d \in Clients : asked[d] \subseteq asked'[d]
  BY DEF HubTypeOK
<1>6. OnlyWhatWasAskedFor'
  BY <1>5 DEF OnlyWhatWasAskedFor
<1>7. NothingMissedWhileSubscribed'
  BY DEF HubTypeOK, NothingMissedWhileSubscribed
<1> QED BY <1>2, <1>3, <1>4, <1>6, <1>7

\* A subscription adds at most an order that was asked for, and starts now.
LEMMA HandleMessageHubInv ==
    ASSUME HubInv, NEW c \in Clients, HandleMessage(c)
    PROVE  HubInv'
<1> USE DEF HubInv
<1> DEFINE m == Head(mail[c])
           subs == Subscription(c, m)
<1>1. /\ socketGiven /\ mail[c] # <<>> /\ mail[c] \in Seq(Texts)
      /\ mail' = [mail EXCEPT ![c] = Tail(@)]
      /\ subscriptions' = [subscriptions EXCEPT ![c] = subs]
      /\ since' = [since EXCEPT ![c] =
              [o \in HubOrders |-> IF o \in subs \ subscriptions[c] THEN sent[o] ELSE @[o]]]
      /\ UNCHANGED <<socketGiven, ready, endpoint, registered, written, asked, sent, threw,
                     received, restarts>>
  BY DEF HandleMessage, HubTypeOK
<1>2. m \in Message /\ m = mail[c][1] /\ 1 \in 1 .. Len(mail[c])
  BY <1>1, HubAssumption
<1>3. subs \subseteq HubOrders /\ subs \subseteq asked[c] \cup ({endpoint[c]} \ {General})
  BY <1>2 DEF Subscription, Message, AskedInv, HubTypeOK
<1> HIDE DEF subs
<1>4. HubTypeOK'
  BY <1>1, <1>3 DEF HubTypeOK
<1>5. AskedInv'
  <2>1. \A i \in 1 .. Len(Tail(mail[c])) :
           i + 1 \in 1 .. Len(mail[c]) /\ Tail(mail[c])[i] = mail[c][i + 1]
    BY <1>1
  <2> QED BY <1>1, <1>3, <2>1 DEF AskedInv, HubTypeOK
<1>6. AwayInv' /\ SentInv' /\ ToldInOrder' /\ OnlyWhatWasAskedFor' /\ GhostsHarmTheirOrderOnly'
  BY <1>1 DEF AwayInv, SentInv, ToldInOrder, OnlyWhatWasAskedFor, GhostsHarmTheirOrderOnly
<1>7. NothingMissedWhileSubscribed'
  <2> SUFFICES ASSUME NEW d \in registered, NEW o \in HubOrders, ready[d] = "OPEN",
                      o \in subscriptions'[d], NEW n \in since'[d][o] + 1 .. sent[o]
               PROVE  \E i \in 1 .. Len(received[d][o]) : received[d][o][i] = n
    BY <1>1 DEF NothingMissedWhileSubscribed
  <2>1. d \in Clients /\ sent[o] \in Nat
    BY DEF HubTypeOK
  <2>2. o \in subscriptions[d] /\ since'[d][o] = since[d][o]
    BY <1>1, <2>1 DEF HubTypeOK
  <2> QED BY <2>2 DEF NothingMissedWhileSubscribed
<1> QED BY <1>4, <1>5, <1>6, <1>7

\* A broadcast reaches the open sockets of the subscribers with the next update.
LEMMA BroadcastHubInv ==
    ASSUME HubInv, NEW o \in HubOrders, BroadcastOrderUpdate(o)
    PROVE  HubInv'
<1> USE DEF HubInv
<1> DEFINE n == sent[o] + 1
<1>1. /\ n \in Update
      /\ sent' = [sent EXCEPT ![o] = n]
      /\ threw' = [threw EXCEPT ![o] = IF Poisoned(o) THEN @ \cup {n} ELSE @]
      /\ received' = [c \in Clients |->
            IF c \in Reached(o) THEN [received[c] EXCEPT ![o] = Append(@, n)] ELSE received[c]]
      /\ UNCHANGED <<socketGiven, ready, endpoint, registered, subscriptions, mail, written,
                     asked, since, restarts>>
  BY HubAssumption DEF BroadcastOrderUpdate, HubTypeOK, Update
<1>2. ASSUME NEW c \in Clients, NEW p \in HubOrders
      PROVE  /\ received[c][p] \in Seq(Update)
             /\ received'[c][p] = IF c \in Reached(o) /\ p = o THEN Append(received[c][p], n)
                                                               ELSE received[c][p]
  BY <1>1 DEF HubTypeOK
<1>3. sent \in [HubOrders -> Nat] /\ n \in Nat
  BY <1>1, HubAssumption DEF HubTypeOK, Update
<1> HIDE DEF n
<1>4. HubTypeOK'
  <2>1. sent' \in [HubOrders -> 0 .. MaxUpdates] /\ threw' \in [HubOrders -> SUBSET Update]
    BY <1>1 DEF HubTypeOK, Update
  <2>2. received' \in [Clients -> [HubOrders -> Seq(Update)]]
    BY <1>1 DEF HubTypeOK
  <2> QED BY <1>1, <2>1, <2>2 DEF HubTypeOK
<1>5. AwayInv'
  BY <1>1, <1>2 DEF AwayInv, Reached
<1>6. AskedInv'
  BY <1>1 DEF AskedInv
<1>7. SentInv'
  <2> SUFFICES ASSUME NEW c \in Clients, NEW p \in HubOrders,
                      NEW i \in 1 .. Len(received'[c][p])
               PROVE  received'[c][p][i] <= sent'[p]
    BY DEF SentInv
  <2>1. sent[p] <= sent'[p] /\ sent[p] \in Nat /\ sent'[p] \in Nat
    BY <1>1, <1>3 DEF n
  <2>2. CASE c \in Reached(o) /\ p = o
    <3>1. i \in 1 .. Len(received[c][p]) \/ (received'[c][p][i] = n /\ sent'[p] = n)
      BY <1>1, <1>2, <1>3, <2>2
    <3>2. CASE i \in 1 .. Len(received[c][p])
      <4>1. received'[c][p][i] = received[c][p][i] /\ received[c][p][i] \in Update
        BY <1>1, <1>2, <2>2, <3>2, AppendAt
      <4>2. received[c][p][i] <= sent[p]
        BY <3>2 DEF SentInv
      <4> QED BY <2>1, <4>1, <4>2 DEF Update
    <3> QED BY <1>3, <3>1, <3>2
  <2>3. CASE ~(c \in Reached(o) /\ p = o)
    <3>1. received'[c][p] = received[c][p]
      BY <1>2, <2>3
    <3>2. received[c][p][i] <= sent[p] /\ received[c][p][i] \in Update
      BY <1>2, <3>1 DEF SentInv
    <3> QED BY <2>1, <3>1, <3>2 DEF Update
  <2> QED BY <2>2, <2>3
<1>8. ToldInOrder'
  <2> SUFFICES ASSUME NEW c \in Clients, NEW p \in HubOrders,
                      NEW i \in 1 .. Len(received'[c][p]) - 1
               PROVE  received'[c][p][i] < received'[c][p][i + 1]
    BY DEF ToldInOrder
  <2>1. CASE c \in Reached(o) /\ p = o
    <3>1. CASE i + 1 <= Len(received[c][p])
      <4>1. /\ received'[c][p][i] = received[c][p][i]
            /\ received'[c][p][i + 1] = received[c][p][i + 1]
            /\ i \in 1 .. Len(received[c][p]) - 1
        BY <1>1, <1>2, <2>1, <3>1, AppendAt
      <4> QED BY <4>1 DEF ToldInOrder
    <3>2. CASE ~(i + 1 <= Len(received[c][p]))
      <4>1. /\ i \in 1 .. Len(received[c][p])
            /\ received'[c][p][i] = received[c][p][i] /\ received[c][p][i] \in Update
            /\ received'[c][p][i + 1] = n
        BY <1>1, <1>2, <2>1, <3>2, AppendAt
      <4>2. received[c][p][i] <= sent[p] /\ n = sent[p] + 1 /\ sent[p] \in Nat
        BY <1>3, <2>1, <4>1 DEF SentInv, n
      <4> QED BY <4>1, <4>2 DEF Update
    <3> QED BY <3>1, <3>2
  <2>2. CASE ~(c \in Reached(o) /\ p = o)
    BY <1>2, <2>2 DEF ToldInOrder
  <2> QED BY <2>1, <2>2
<1>9. OnlyWhatWasAskedFor'
  <2> SUFFICES ASSUME NEW c \in Clients, NEW p \in HubOrders, received'[c][p] # <<>>
               PROVE  p \in asked[c] \cup {endpoint[c]}
    BY <1>1 DEF OnlyWhatWasAskedFor
  <2>1. CASE c \in Reached(o) /\ p = o
    BY <2>1 DEF Reached, AskedInv
  <2>2. CASE ~(c \in Reached(o) /\ p = o)
    BY <1>2, <2>2 DEF OnlyWhatWasAskedFor
  <2> QED BY <2>1, <2>2
<1>10. NothingMissedWhileSubscribed'
  <2> SUFFICES ASSUME NEW c \in registered, NEW p \in HubOrders, ready[c] = "OPEN",
                      p \in subscriptions[c], NEW k \in since[c][p] + 1 .. sent'[p]
               PROVE  \E i \in 1 .. Len(received'[c][p]) : received'[c][p][i] = k
    BY <1>1 DEF NothingMissedWhileSubscribed
  <2>1. c \in Clients /\ since[c][p] \in Nat
    BY HubAssumption DEF HubTypeOK
  <2>2. CASE p = o
    <3>1. received'[c][p] = Append(received[c][p], n) /\ received[c][p] \in Seq(Update)
      BY <1>2, <2>1, <2>2 DEF Reached
    <3>2. CASE k = n
      <4>1. /\ Len(received[c][p]) + 1 \in 1 .. Len(received'[c][p])
            /\ received'[c][p][Len(received[c][p]) + 1] = n
        BY <1>1, <3>1
      <4> QED BY <3>2, <4>1
    <3>3. CASE k # n
      <4>1. k \in since[c][p] + 1 .. sent[p]
        BY <1>1, <1>3, <2>1, <2>2, <3>3 DEF n
      <4>2. PICK i \in 1 .. Len(received[c][p]) : received[c][p][i] = k
        BY <4>1 DEF NothingMissedWhileSubscribed
      <4>3. i \in 1 .. Len(received'[c][p]) /\ received'[c][p][i] = received[c][p][i]
        BY <1>1, <3>1
      <4> QED BY <4>2, <4>3
    <3> QED BY <3>2, <3>3
  <2>3. CASE p # o
    <3>1. sent'[p] = sent[p] /\ received'[c][p] = received[c][p]
      BY <1>1, <1>2, <1>3, <2>1, <2>3
    <3> QED BY <3>1 DEF NothingMissedWhileSubscribed
  <2> QED BY <2>2, <2>3
<1>11. GhostsHarmTheirOrderOnly'
  <2> SUFFICES ASSUME NEW p \in HubOrders, threw'[p] # {}
               PROVE  \E c \in Clients : endpoint[c] = p
    BY <1>1 DEF GhostsHarmTheirOrderOnly
  <2>1. CASE p = o /\ Poisoned(o)
    BY <2>1 DEF Poisoned, AskedInv, HubTypeOK
  <2>2. CASE ~(p = o /\ Poisoned(o))
    BY <1>1, <2>2 DEF HubTypeOK, GhostsHarmTheirOrderOnly
  <2> QED BY <2>1, <2>2
<1> QED BY <1>4, <1>5, <1>6, <1>7, <1>8, <1>9, <1>10, <1>11

-----------------------------------------------------------------------------

LEMMA NextHubInv ==
    ASSUME HubInv, [HubNext]_hubVars
    PROVE  HubInv'
<1>1. ASSUME NEW c \in Clients, NEW e \in HubOrders \cup {General}, AddClient(c, e)
      PROVE  HubInv'
  BY <1>1, AddClientHubInv
<1>2. ASSUME NEW c \in Clients, NEW m \in Texts, WriteMessage(c, m)
      PROVE  HubInv'
  BY <1>2, WriteMessageHubInv
<1>3. ASSUME NEW c \in Clients, CloseFrame(c) \/ SocketClosed(c) \/ ErrorEvent(c) \/ CloseEvent(c)
      PROVE  HubInv'
  <2>1. /\ ready' \in [Clients -> {"away", "OPEN", "CLOSING", "CLOSED"}]
        /\ \A d \in Clients : /\ ready'[d] = "away" => ready[d] = "away"
                              /\ ready'[d] = "OPEN" => ready[d] = "OPEN"
        /\ registered' \subseteq registered
    BY <1>3 DEF HubInv, HubTypeOK, CloseFrame, SocketClosed, ErrorEvent, CloseEvent, RemoveClient
  <2>2. /\ restarts' \in 0 .. MaxRestarts
        /\ UNCHANGED <<socketGiven, endpoint, subscriptions, mail, written, asked, sent,
                       threw, received, since>>
    BY <1>3 DEF HubInv, HubTypeOK, CloseFrame, SocketClosed, ErrorEvent, CloseEvent
  <2> QED BY <2>1, <2>2, CloseHubInv
<1>4. ASSUME NEW c \in Clients, HandleMessage(c)
      PROVE  HubInv'
  BY <1>4, HandleMessageHubInv
<1>5. ASSUME NEW o \in HubOrders, BroadcastOrderUpdate(o)
      PROVE  HubInv'
  BY <1>5, BroadcastHubInv
<1>6. CASE RestartHub
  <2>1. /\ ready' \in [Clients -> {"away", "OPEN", "CLOSING", "CLOSED"}]
        /\ \A d \in Clients : /\ ready'[d] = "away" => ready[d] = "away"
                              /\ ready'[d] = "OPEN" => ready[d] = "OPEN"
        /\ registered' \subseteq registered
    BY <1>6 DEF HubInv, HubTypeOK, RestartHub
  <2>2. /\ restarts' \in 0 .. MaxRestarts
        /\ UNCHANGED <<socketGiven, endpoint, subscriptions, mail, written, asked, sent,
                       threw, received, since>>
    BY <1>6, HubAssumption DEF HubInv, HubTypeOK, RestartHub
  <2> QED BY <2>1, <2>2, CloseHubInv
<1>7. CASE UNCHANGED hubVars
  <2>1. registered' = registered /\ ready' = ready /\ restarts' = restarts
    BY <1>7 DEF hubVars
  <2>2. UNCHANGED <<socketGiven, endpoint, subscriptions, mail, written, asked, sent,
                    threw, received, since>>
    BY <1>7 DEF hubVars
  <2> QED BY <2>1, <2>2, CloseHubInv DEF HubInv, HubTypeOK
<1> QED BY <1>1, <1>2, <1>3, <1>4, <1>5, <1>6, <1>7 DEF HubNext, ClientStep

LEMMA HubInvariant == HubSpec => []HubInv
<1>1. HubInv /\ [HubNext]_hubVars => HubInv'
  BY NextHubInv
<1> QED BY InitHubInv, <1>1, PTL DEF HubSpec

\* Whatever other clients open, ask for and close, a client is told only of the order of
\* its endpoint and of those it has asked for itself (broadcastOrderUpdate).
THEOREM OnlyAskedFor == HubSpec => []OnlyWhatWasAskedFor
BY HubInvariant, PTL DEF HubInv

\* Each update at most once and in order, however often clients subscribe and sockets
\* close, and whatever the number of clients (broadcastOrderUpdate).
THEOREM InOrder == HubSpec => []ToldInOrder
BY HubInvariant, PTL DEF HubInv

\* From its subscription on a client misses nothing while its socket is open
\* (broadcastOrderUpdate).
THEOREM NothingMissed == HubSpec => []NothingMissedWhileSubscribed
BY HubInvariant, PTL DEF HubInv

\* A client that addClient stored before it threw spoils the broadcasts about the order
\* of its URL, and no others (addClient).
THEOREM GhostsAreConfined == HubSpec => []GhostsHarmTheirOrderOnly
BY HubInvariant, PTL DEF HubInv
=============================================================================
