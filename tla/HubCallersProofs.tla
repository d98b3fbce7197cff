-------------------------- MODULE HubCallersProofs --------------------------
(***************************************************************************)
(* The theorems about the callers of the hub, for any set of connections,  *)
(* users and application keys, any timeout and any bound on the clock      *)
(* below the width of its type.                                            *)
(***************************************************************************)
EXTENDS HubCallers, TLAPS

USE NilAssumption, AppAssumption, FeedAssumption, TimeAssumption

-----------------------------------------------------------------------------
(* The steps, by what they leave alone *)

\* A step of the hub, of a connection or of the clock
WorldStep ==
    \/ \E c \in Conn : Upgrade(c) \/ AuthBegins(c) \/ HubStep(c)
    \/ \E c \in Conn, k \in UserKey : Login(c, k)
    \/ Tick

-----------------------------------------------------------------------------
(* Type correctness *)

LEMMA TypeInit == Init => TypeOK
  <1> SUFFICES ASSUME Init PROVE TypeOK
    OBVIOUS
  <1>1. /\ connected \subseteq Conn
        /\ identity \in [Conn -> UserKey \cup {NoKey}]
        /\ online \in [UserKey -> Conn \cup {NoClient}]
        /\ admitted \in SUBSET Conn /\ leaving \in SUBSET Conn
    BY DEF Init, Hub!Init
  <1>2. 0 \in Time
    BY DEF Time
  <1>3. /\ socket \in [Conn -> {"none", "open", "closed"}]
        /\ heartbeat \in [Conn -> Time] /\ loginTime \in [Conn -> Time]
        /\ got \in [Conn -> Nat]
    BY <1>2 DEF Init
  <1> QED BY <1>1, <1>2, <1>3 DEF Init, TypeOK

LEMMA WorldType == ASSUME TypeOK, WorldStep PROVE TypeOK'
  <1>1. ASSUME NEW c \in Conn, Upgrade(c) PROVE TypeOK'
    BY <1>1 DEF TypeOK, Upgrade, hub, caller, user, all, sweep, Time, Entry
  <1>2. ASSUME NEW c \in Conn, AuthBegins(c) PROVE TypeOK'
    BY <1>2 DEF TypeOK, AuthBegins, hub, caller, user, all, sweep, Time, Entry
  <1>3. ASSUME NEW c \in Conn, HubStep(c) PROVE TypeOK'
    <2> USE <1>3 DEF TypeOK, HubStep, client, caller, user, all, sweep, Time, Entry
    <2>1. CASE Hub!Connect(c)
      BY <2>1 DEF Hub!Connect
    <2>2. CASE Hub!Announce(c)
      <3>1. online' \in [UserKey -> Conn \cup {NoClient}] /\ admitted' \in SUBSET Conn
        BY <2>2 DEF Hub!Announce, Hub!Done
      <3> QED BY <2>2, <3>1 DEF Hub!Announce
    <2>3. CASE Hub!Disconnect(c)
      BY <2>3 DEF Hub!Disconnect
    <2>4. CASE Hub!Withdraw(c)
      BY <2>4 DEF Hub!Withdraw, Hub!Done
    <2>5. CASE Hub!Admit(c)
      BY <2>5 DEF Hub!Admit
    <2> QED BY <2>1, <2>2, <2>3, <2>4, <2>5
  <1>4. ASSUME NEW c \in Conn, NEW k \in UserKey, Login(c, k) PROVE TypeOK'
    BY <1>4 DEF TypeOK, Login, Hub!Identify, caller, user, all, sweep, Time, Entry
  <1>5. CASE Tick
    BY <1>5 DEF TypeOK, Tick, hub, client, caller, user, all, sweep, Time, Entry
  <1> QED BY <1>1, <1>2, <1>3, <1>4, <1>5 DEF WorldStep

LEMMA MessageType ==
    ASSUME TypeOK, (\E k \in UserKey : SendUserMessage(k)) \/ SendUserMessageLocal \/ Deliver
    PROVE  TypeOK'
  <1> USE DEF TypeOK, hub, client, user, all, sweep, Time, Entry
  <1>1. ASSUME NEW k \in UserKey, SendUserMessage(k) PROVE TypeOK'
    BY <1>1 DEF SendUserMessage
  <1>2. CASE SendUserMessageLocal
    BY <1>2 DEF SendUserMessageLocal
  <1>3. CASE Deliver
    BY <1>3 DEF Deliver, SendMsg
  <1> QED BY <1>1, <1>2, <1>3

LEMMA AllType ==
    ASSUME TypeOK,
           \/ \E a \in BOOLEAN, i \in Conn \cup {NoClient} : SendAll(a, i)
           \/ SendToOne \/ SendAllEnds
    PROVE  TypeOK'
  <1> USE DEF TypeOK, hub, client, user, all, sweep, Time, Entry
  <1>1. ASSUME NEW a \in BOOLEAN, NEW i \in Conn \cup {NoClient}, SendAll(a, i) PROVE TypeOK'
    <2>1. GetUserClients \subseteq Entry
      BY DEF GetUserClients, GetUserKeys
    <2> QED BY <1>1, <2>1 DEF SendAll
  <1>2. CASE SendToOne
    BY <1>2 DEF SendToOne, SendMsg
  <1>3. CASE SendAllEnds
    BY <1>3 DEF SendAllEnds
  <1> QED BY <1>1, <1>2, <1>3

LEMMA SweepType ==
    ASSUME TypeOK,
           \/ SweepBegins \/ GetClients \/ CloseSocket \/ SweepEnds
           \/ \E c \in Conn : Judge(c)
    PROVE  TypeOK'
  <1> USE DEF TypeOK, hub, client, user, all, sweep, Time, Entry
  <1>1. CASE SweepBegins
    BY <1>1 DEF SweepBegins
  <1>2. CASE GetClients
    BY <1>2 DEF GetClients
  <1>3. CASE CloseSocket
    BY <1>3 DEF CloseSocket
  <1>4. CASE SweepEnds
    BY <1>4 DEF SweepEnds
  <1>5. ASSUME NEW c \in Conn, Judge(c) PROVE TypeOK'
    BY <1>5 DEF Judge
  <1> QED BY <1>1, <1>2, <1>3, <1>4, <1>5

LEMMA ReturnType == ASSUME TypeOK, Return PROVE TypeOK'
  <1> SUFFICES ASSUME TypeOK, Return PROVE TypeOK'
    OBVIOUS
  <1>1. got' \in [Conn -> Nat]
    BY DEF Return
  <1>2. 0 \in Time
    BY DEF Time
  <1> QED BY <1>1, <1>2 DEF Return, TypeOK, hub, client

LEMMA StutterType == ASSUME TypeOK, UNCHANGED vars PROVE TypeOK'
  BY DEF TypeOK, vars, hub, client, user, all, sweep, Time, Entry

LEMMA TypeStep == TypeOK /\ [Next]_vars => TypeOK'
  BY WorldType, MessageType, AllType, SweepType, ReturnType, StutterType
     DEF Next, CallerStep, WorldStep

\* Type correctness.  In particular a caller that is about to send has a client
\* to send to: what the second lookup of SendUserMessageLocal returns is never
\* used as a client when it is nil.
THEOREM TypeCorrect == Spec => []TypeOK
  BY TypeInit, TypeStep, PTL DEF Spec

-----------------------------------------------------------------------------
(* Messages *)

\* Nobody logs in twice, so a client keeps the user it is named for.
LEMMA IdentityKept ==
    ASSUME TypeOK, WorldStep, NEW c \in Conn, identity[c] # NoKey
    PROVE  identity'[c] = identity[c]
  BY DEF WorldStep, TypeOK, Upgrade, AuthBegins, HubStep, Login, Tick, hub,
         Hub!Connect, Hub!Admit, Hub!Announce, Hub!Disconnect, Hub!Withdraw, Hub!Identify

\* A step of the caller leaves the hub alone.
LEMMA HubKept == ASSUME CallerStep PROVE UNCHANGED hub
  BY DEF CallerStep, SendUserMessage, SendUserMessageLocal, Deliver, SendAll, SendToOne,
         SendAllEnds, SweepBegins, GetClients, CloseSocket, SweepEnds, Judge, Return, hub

LEMMA NamedKept == ASSUME TypeOK, Named, [Next]_vars PROVE Named'
  <1>1. CASE UNCHANGED hub
    BY <1>1 DEF Named, hub
  <1>2. ASSUME NEW c \in Conn, HubStep(c) PROVE Named'
    BY <1>2 DEF TypeOK, Named, HubStep, Hub!Connect, Hub!Admit, Hub!Announce, Hub!Disconnect, Hub!Withdraw
  <1>3. ASSUME NEW c \in Conn, NEW k \in UserKey, Login(c, k) PROVE Named'
    <2> SUFFICES ASSUME NEW l \in UserKey, online'[l] # NoClient
                 PROVE  identity'[online'[l]] = l
      BY DEF Named
    <2>1. online' = online /\ identity' = [identity EXCEPT ![c] = k] /\ identity[c] = NoKey
      BY <1>3 DEF Login, Hub!Identify
    <2>2. online[l] \in Conn /\ identity[online[l]] = l
      BY <2>1 DEF TypeOK, Named
    <2> QED BY <2>1, <2>2 DEF TypeOK
  <1> QED BY <1>1, <1>2, <1>3, HubKept DEF Next, Upgrade, AuthBegins, Tick, vars

\* What the caller has under way and what it has put into the Sends
MessagesInv == NothingSentYet /\ MessageInv /\ EntriesNamed /\ MessageReachesUser /\ SendAllOnce

LEMMA WorldMessages == ASSUME TypeOK, MessagesInv, WorldStep PROVE MessagesInv'
  <1>1. UNCHANGED <<pc, wanted, result, found, todo, byApp, ignored, got>>
    BY DEF WorldStep, Upgrade, AuthBegins, HubStep, Login, Tick, caller, user, all
  <1>2. NothingSentYet'
    BY <1>1 DEF MessagesInv, NothingSentYet
  <1>3. MessageInv'
    BY <1>1, IdentityKept DEF MessagesInv, MessageInv, TypeOK
  <1>4. EntriesNamed'
    <2> SUFFICES ASSUME pc = "sendAll", NEW e \in todo
                 PROVE  identity'[e[2]] = e[1] /\ got[e[2]] = 0
      BY <1>1 DEF EntriesNamed
    <2>1. e[1] \in UserKey /\ e[2] \in Conn
      BY DEF TypeOK, Entry
    <2>2. identity[e[2]] = e[1] /\ got[e[2]] = 0
      BY DEF MessagesInv, EntriesNamed
    <2> QED BY <2>1, <2>2, IdentityKept
  <1>5. MessageReachesUser'
    BY <1>1, IdentityKept DEF MessagesInv, MessageReachesUser, TypeOK
  <1>6. SendAllOnce'
    <2> SUFFICES ASSUME wanted = NoKey, NEW c \in Conn, got[c] > 0
                 PROVE  got[c] = 1 /\ c # ignored /\ (byApp => identity'[c] \in AppKeys)
      BY <1>1 DEF SendAllOnce
    <2>1. got[c] = 1 /\ c # ignored /\ (byApp => identity[c] \in AppKeys)
      BY DEF MessagesInv, SendAllOnce
    <2> QED BY <2>1, IdentityKept
  <1> QED BY <1>2, <1>3, <1>4, <1>5, <1>6 DEF MessagesInv

LEMMA UserMessages ==
    ASSUME TypeOK, Named, MessagesInv,
           (\E k \in UserKey : SendUserMessage(k)) \/ SendUserMessageLocal \/ Deliver
    PROVE  MessagesInv'
  <1>1. ASSUME NEW k \in UserKey, SendUserMessage(k) PROVE MessagesInv'
    BY <1>1 DEF SendUserMessage, TypeOK, all, hub, MessagesInv, NothingSentYet, MessageInv,
                EntriesNamed, MessageReachesUser, SendAllOnce
  <1>2. CASE SendUserMessageLocal
    BY <1>2 DEF SendUserMessageLocal, TypeOK, all, hub, Named, MessagesInv, NothingSentYet,
                MessageInv, EntriesNamed, MessageReachesUser, SendAllOnce
  <1>3. CASE Deliver
    <2>1. /\ pc = "send" /\ pc' = "return" /\ result' = "sent"
          /\ UNCHANGED <<identity, wanted, found>>
          /\ got' = got \/ got' = [got EXCEPT ![found] = @ + 1]
      BY <1>3 DEF Deliver, SendMsg, hub
    <2>2. found \in Conn /\ identity[found] = wanted /\ wanted \in UserKey
          /\ \A c \in Conn : got[c] = 0
      BY <2>1 DEF MessagesInv, MessageInv, NothingSentYet, TypeOK
    <2>3. MessageReachesUser'
      BY <2>1, <2>2 DEF MessageReachesUser, TypeOK
    <2> QED BY <2>1, <2>2, <2>3
            DEF MessagesInv, NothingSentYet, MessageInv, EntriesNamed, SendAllOnce
  <1> QED BY <1>1, <1>2, <1>3

LEMMA AllMessages ==
    ASSUME TypeOK, Named, MessagesInv,
           \/ \E a \in BOOLEAN, i \in Conn \cup {NoClient} : SendAll(a, i)
           \/ SendToOne \/ SendAllEnds
    PROVE  MessagesInv'
  <1>1. ASSUME NEW a \in BOOLEAN, NEW i \in Conn \cup {NoClient}, SendAll(a, i)
        PROVE  MessagesInv'
    <2>1. \A e \in GetUserClients : e[2] \in Conn /\ identity[e[2]] = e[1]
      BY DEF GetUserClients, GetUserKeys, Named, TypeOK
    <2> QED BY <1>1, <2>1 DEF SendAll, TypeOK, user, hub, MessagesInv, NothingSentYet,
               MessageInv, EntriesNamed, MessageReachesUser, SendAllOnce
  <1>2. CASE SendToOne
    <2>1. PICK e \in todo : /\ todo' = todo \ {e}
                            /\ IF Addressed(e[2]) THEN SendMsg(e[2]) ELSE UNCHANGED got
      BY <1>2 DEF SendToOne
    <2>2. pc = "sendAll" /\ UNCHANGED <<identity, pc, wanted, found, byApp, ignored>>
      BY <1>2 DEF SendToOne, hub, user
    <2>3. e \in UserKey \X Conn /\ identity[e[2]] = e[1] /\ got[e[2]] = 0 /\ wanted = NoKey
      BY <2>2 DEF TypeOK, Entry, MessagesInv, EntriesNamed, MessageInv
    <2>4. \A c \in Conn : c # e[2] => got'[c] = got[c]
      BY <2>1, <2>3 DEF SendMsg, TypeOK
    <2>5. got'[e[2]] > 0 => got'[e[2]] = 1 /\ Addressed(e[2])
      BY <2>1, <2>3 DEF SendMsg, TypeOK
    <2>6. EntriesNamed'
      <3> SUFFICES ASSUME NEW d \in todo, d # e
                   PROVE  identity[d[2]] = d[1] /\ got'[d[2]] = 0
        BY <2>1, <2>2 DEF EntriesNamed
      <3>1. d \in UserKey \X Conn /\ identity[d[2]] = d[1] /\ got[d[2]] = 0
        BY <2>2 DEF TypeOK, Entry, MessagesInv, EntriesNamed
      <3>2. d[2] # e[2]
        BY <2>3, <3>1
      <3> QED BY <2>4, <3>1, <3>2
    <2>7. SendAllOnce'
      BY <2>2, <2>4, <2>5 DEF Addressed, SendAllOnce, MessagesInv
    <2> QED BY <2>2, <2>3, <2>6, <2>7
            DEF MessagesInv, NothingSentYet, MessageInv, MessageReachesUser
  <1>3. CASE SendAllEnds
    BY <1>3 DEF SendAllEnds, TypeOK, user, all, hub, MessagesInv, NothingSentYet,
                MessageInv, EntriesNamed, MessageReachesUser, SendAllOnce
  <1> QED BY <1>1, <1>2, <1>3

LEMMA SweepMessages ==
    ASSUME TypeOK, MessagesInv,
           \/ SweepBegins \/ GetClients \/ CloseSocket \/ SweepEnds
           \/ \E c \in Conn : Judge(c)
    PROVE  MessagesInv'
  <1>1. /\ UNCHANGED <<identity, wanted, result, todo, byApp, ignored, got>>
        /\ pc \in {"idle", "snapshot", "sweep", "close"}
        /\ pc' \in {"snapshot", "sweep", "close", "return"}
    BY DEF SweepBegins, GetClients, CloseSocket, SweepEnds, Judge, hub, user, all
  <1>2. wanted = NoKey /\ \A c \in Conn : got[c] = 0
    BY <1>1 DEF MessagesInv, MessageInv, NothingSentYet
  <1> QED BY <1>1, <1>2 DEF TypeOK, MessagesInv, NothingSentYet, MessageInv, EntriesNamed,
               MessageReachesUser, SendAllOnce

LEMMA ReturnMessages == ASSUME TypeOK, Return PROVE MessagesInv'
  <1>1. pc' = "idle" /\ wanted' = NoKey /\ \A c \in Conn : got'[c] = 0
    BY DEF Return
  <1> QED BY <1>1 DEF MessagesInv, NothingSentYet, MessageInv, EntriesNamed,
               MessageReachesUser, SendAllOnce

LEMMA MessagesStep == ASSUME TypeOK, Named, MessagesInv, [Next]_vars PROVE MessagesInv'
  <1>1. CASE UNCHANGED vars
    BY <1>1 DEF vars, hub, user, all, MessagesInv, NothingSentYet, MessageInv, EntriesNamed,
                MessageReachesUser, SendAllOnce
  <1> QED BY <1>1, WorldMessages, UserMessages, AllMessages, SweepMessages, ReturnMessages
          DEF Next, CallerStep, WorldStep

-----------------------------------------------------------------------------
(* The sweep *)

\* The times of this model are far from the width of their type.
LEMMA NoWrap == \A n \in Nat : n < Word => n % Word = n
  OBVIOUS

\* So IsHeartbeatTimeout decides what it is meant to decide.
LEMMA TimeoutMeans ==
    ASSUME TypeOK, NEW c \in Conn
    PROVE  IsHeartbeatTimeout(c) <=> heartbeat[c] + Timeout <= sweepTime
  <1>1. heartbeat[c] \in Nat /\ heartbeat[c] <= MaxTime
    BY DEF TypeOK, Time
  <1>2. heartbeat[c] + Timeout \in Nat /\ heartbeat[c] + Timeout < Word
    BY <1>1
  <1> QED BY <1>2, NoWrap DEF IsHeartbeatTimeout

\* A connection never comes back, and its heartbeat is not set back.
LEMMA ConnectionSteps ==
    ASSUME TypeOK, TimesOrdered, WorldStep, NEW c \in Conn, socket[c] # "none"
    PROVE  /\ socket'[c] = socket[c]
           /\ heartbeat'[c] \in Nat /\ heartbeat[c] <= heartbeat'[c]
  BY DEF WorldStep, TypeOK, TimesOrdered, Time, Upgrade, AuthBegins, HubStep, Login, Tick, client

\* Time only passes.
LEMMA TimesKept == ASSUME TypeOK, TimesOrdered, WorldStep PROVE TimesOrdered'
  <1> USE DEF TypeOK, TimesOrdered, Time, caller, sweep
  <1>1. ASSUME NEW c \in Conn, Upgrade(c) PROVE TimesOrdered'
    BY <1>1 DEF Upgrade
  <1>2. ASSUME NEW c \in Conn, AuthBegins(c) PROVE TimesOrdered'
    BY <1>2 DEF AuthBegins
  <1>3. ASSUME NEW c \in Conn, HubStep(c) PROVE TimesOrdered'
    BY <1>3 DEF HubStep, client
  <1>4. ASSUME NEW c \in Conn, NEW k \in UserKey, Login(c, k) PROVE TimesOrdered'
    BY <1>4 DEF Login
  <1>5. CASE Tick
    BY <1>5 DEF Tick, client
  <1> QED BY <1>1, <1>2, <1>3, <1>4, <1>5 DEF WorldStep

\* A login of the client that the sweep is about to close is noted.
LEMMA LoginNoted ==
    ASSUME TypeOK, WorldStep, pc = "close", socket[found] # "none"
    PROVE  (returned' \/ heartbeat'[found] = heartbeat[found]) /\ (returned => returned')
  <1>1. ASSUME NEW c \in Conn, NEW k \in UserKey, Login(c, k)
        PROVE  (returned' \/ heartbeat'[found] = heartbeat[found]) /\ (returned => returned')
    BY <1>1 DEF Login, TypeOK
  <1>2. ASSUME NEW c \in Conn, Upgrade(c)
        PROVE  heartbeat'[found] = heartbeat[found] /\ returned' = returned
    BY <1>2 DEF Upgrade, TypeOK
  <1> QED BY <1>1, <1>2 DEF WorldStep, AuthBegins, HubStep, Tick, client

LEMMA WorldSweep == ASSUME TypeOK, SweepInv, WorldStep PROVE SweepInv'
  <1>1. UNCHANGED <<pc, found, sweepTime, clients, suspects>>
    BY DEF WorldStep, Upgrade, AuthBegins, HubStep, Login, Tick, caller, sweep
  <1>2. TimesOrdered'
    BY TimesKept DEF SweepInv
  <1>3. pc = "close" => /\ found \in clients \ suspects
                        /\ heartbeat'[found] + Timeout <= sweepTime \/ returned'
    BY LoginNoted DEF SweepInv, TypeOK
  <1>4. \A c \in connected' \cup clients : socket'[c] # "none"
    <2>1. \A c \in Conn : socket[c] # "none" => socket'[c] # "none"
      BY ConnectionSteps DEF SweepInv
    <2>2. \A c \in connected' \ connected : c \in Conn /\ socket[c] # "none"
      BY DEF WorldStep, Upgrade, AuthBegins, HubStep, Login, Tick, hub, client,
             Hub!Connect, Hub!Admit, Hub!Announce, Hub!Disconnect, Hub!Withdraw, Hub!Identify
    <2> QED BY <2>1, <2>2 DEF SweepInv, TypeOK
  <1>5. ASSUME pc \in {"sweep", "close"}, NEW c \in clients \ suspects,
               heartbeat'[c] + Timeout <= sweepTime
        PROVE  socket'[c] = "closed" \/ (pc = "close" /\ c = found)
    <2>1. c \in Conn /\ socket[c] # "none"
      BY DEF TypeOK, SweepInv
    <2>2. /\ socket'[c] = socket[c]
          /\ heartbeat'[c] \in Nat /\ heartbeat[c] <= heartbeat'[c]
      BY <2>1, ConnectionSteps DEF SweepInv
    <2>3. heartbeat[c] \in Nat /\ sweepTime \in Nat /\ Timeout \in Nat
      BY <2>1 DEF TypeOK, Time
    <2>4. heartbeat[c] + Timeout <= sweepTime
      BY <1>5, <2>2, <2>3
    <2> QED BY <1>5, <2>2, <2>4 DEF SweepInv
  <1> QED BY <1>1, <1>2, <1>3, <1>4, <1>5 DEF SweepInv

LEMMA CallerSweep == ASSUME TypeOK, SweepInv, CallerStep PROVE SweepInv'
  <1>1. CASE \/ \E k \in UserKey : SendUserMessage(k)
             \/ SendUserMessageLocal \/ Deliver
             \/ \E a \in BOOLEAN, i \in Conn \cup {NoClient} : SendAll(a, i)
             \/ SendToOne \/ SendAllEnds
    <2>1. UNCHANGED <<connected, client, now, sweepTime, clients, suspects>>
      BY <1>1 DEF SendUserMessage, SendUserMessageLocal, Deliver, SendAll, SendToOne,
                  SendAllEnds, hub, sweep
    <2>2. pc' \notin {"sweep", "close"}
      BY <1>1 DEF SendUserMessage, SendUserMessageLocal, Deliver, SendAll, SendToOne,
                  SendAllEnds
    <2> QED BY <2>1, <2>2 DEF SweepInv, TimesOrdered, client
  <1>2. CASE SweepBegins
    BY <1>2 DEF SweepBegins, SweepInv, TimesOrdered, TypeOK, Time, hub, client
  <1>3. CASE GetClients
    BY <1>3 DEF GetClients, SweepInv, TimesOrdered, hub, client
  <1>4. ASSUME NEW c \in Conn, Judge(c) PROVE SweepInv'
    BY <1>4, TimeoutMeans DEF Judge, SweepInv, TimesOrdered, TypeOK, hub, client
  <1>5. CASE CloseSocket
    BY <1>5 DEF CloseSocket, SweepInv, TimesOrdered, TypeOK, hub, sweep
  <1>6. CASE SweepEnds
    BY <1>6 DEF SweepEnds, SweepInv, TimesOrdered, hub, client, sweep
  <1>7. CASE Return
    BY <1>7 DEF Return, SweepInv, TimesOrdered, TypeOK, Time, hub, client
  <1> QED BY <1>1, <1>2, <1>3, <1>4, <1>5, <1>6, <1>7 DEF CallerStep

LEMMA SweepStep == ASSUME TypeOK, SweepInv, [Next]_vars PROVE SweepInv'
  <1>1. CASE UNCHANGED vars
    BY <1>1 DEF vars, hub, client, sweep, SweepInv, TimesOrdered
  <1> QED BY <1>1, WorldSweep, CallerSweep DEF Next, WorldStep

-----------------------------------------------------------------------------
(* The theorems *)

LEMMA CallersInit == Init => CallersInv
  BY DEF Init, Hub!Init, CallersInv, Named, NothingSentYet, MessageInv, EntriesNamed,
         SweepInv, TimesOrdered, MessageReachesUser, SendAllOnce

LEMMA CallersStep == TypeOK /\ CallersInv /\ [Next]_vars => CallersInv'
  BY NamedKept, MessagesStep, SweepStep DEF CallersInv, MessagesInv

LEMMA CallersCorrect == Spec => [](TypeOK /\ CallersInv)
  BY TypeInit, TypeStep, CallersInit, CallersStep, PTL DEF Spec

\* What SendUserMessage sends reaches one connection of that user, at most once,
\* or nobody, whatever logs in, replaces it or goes away between its two lookups
\* and the send.
THEOREM MessageTheorem == Spec => []MessageReachesUser
  BY CallersCorrect, PTL DEF CallersInv

\* sendAll and sendAppIdAll give nobody two copies, nor one to the ignored
\* client or to a stranger of the AppId.
THEOREM SendAllTheorem == Spec => []SendAllOnce
  BY CallersCorrect, PTL DEF CallersInv

\* GetUserList tells the users of the AppId from the keys of Users.
THEOREM UserListTheorem == Spec => []UserListTrue
  <1>1. TypeOK /\ CallersInv => UserListTrue
    BY DEF TypeOK, CallersInv, Named, UserListTrue, GetUserList, GetUserKeys
  <1> QED BY <1>1, CallersCorrect, PTL

\* ClearTimeoutConnections closes every client of its copy whose heartbeat, the
\* time of its upgrade or login, had expired when it began.
THEOREM SweepCompletes == Spec => []SweepComplete
  <1>1. TypeOK /\ CallersInv => SweepComplete
    BY DEF TypeOK, CallersInv, SweepInv, SweepComplete
  <1> QED BY <1>1, CallersCorrect, PTL

\* ClearTimeoutConnections closes only clients whose heartbeat, the time of their
\* upgrade or login, has expired, but for one that logs in between the look at its
\* heartbeat and Close.  Nothing is said of what else the peer sent.
THEOREM SweepClosesOnlyExpired == Spec => SweepClosesExpired
  <1>1. ASSUME TypeOK, CallersInv, [Next]_vars,
               NEW c \in Conn, socket[c] = "open", socket'[c] = "closed"
        PROVE  heartbeat[c] + Timeout <= now \/ returned
    <2>1. CloseSocket /\ c = found
      <3>1. ASSUME WorldStep PROVE FALSE
        <4>1. socket'[c] = socket[c]
          BY <1>1, <3>1, ConnectionSteps DEF CallersInv, SweepInv
        <4> QED BY <1>1, <4>1
      <3>2. CallerStep
        BY <1>1, <3>1 DEF Next, WorldStep, vars, client
      <3> QED BY <1>1, <3>2 DEF CallerStep, SendUserMessage, SendUserMessageLocal, Deliver,
                 SendAll, SendToOne, SendAllEnds, SweepBegins, GetClients, CloseSocket,
                 SweepEnds, Judge, Return, client, TypeOK
    <2>2. heartbeat[c] + Timeout <= sweepTime \/ returned
      BY <1>1, <2>1 DEF CloseSocket, CallersInv, SweepInv
    <2> QED BY <1>1, <2>2 DEF TypeOK, CallersInv, SweepInv, TimesOrdered, Time
  <1>2. TypeOK /\ CallersInv /\ [Next]_vars =>
            [\A c \in Conn : socket[c] = "open" /\ socket'[c] = "closed" =>
                heartbeat[c] + Timeout <= now \/ returned]_vars
    BY <1>1
  <1> QED BY <1>2, CallersCorrect, PTL DEF Spec, SweepClosesExpired

=============================================================================
