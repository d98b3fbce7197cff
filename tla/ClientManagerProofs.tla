------------------------ MODULE ClientManagerProofs ------------------------
(***************************************************************************)
(* The theorems about the websocket hub, for any set of requests and users *)
(* and any capacity of the channels.                                       *)
(***************************************************************************)
EXTENDS ClientManager, FiniteSetTheorems, TLAPS

USE CapAssumption, NilAssumption, CopiesAssumption DEF peer

-----------------------------------------------------------------------------
(* Type correctness *)

\* Sending to a queue that has room, and receiving from one, keeps it a queue.
LEMMA QueueSteps ==
    ASSUME NEW S, NEW q \in Seq(S), Len(q) <= QueueCap
    PROVE  /\ \A e \in S : Len(q) < QueueCap =>
                Append(q, e) \in Seq(S) /\ Len(Append(q, e)) <= QueueCap
           /\ q # <<>> => Head(q) \in S /\ Tail(q) \in Seq(S) /\ Len(Tail(q)) <= QueueCap
  OBVIOUS

\* Receiving moves every later entry of a queue one place forward.
LEMMA TailEntries ==
    ASSUME NEW S, NEW q \in Seq(S), q # <<>>
    PROVE  /\ Head(q) = q[1] /\ 1 \in DOMAIN q
           /\ \A i \in DOMAIN Tail(q) : i + 1 \in DOMAIN q /\ i + 1 # 1 /\ Tail(q)[i] = q[i + 1]
           /\ \A i \in DOMAIN q : i = 1 \/ (i - 1 \in DOMAIN Tail(q) /\ Tail(q)[i - 1] = q[i])
  <1>1. Len(Tail(q)) = Len(q) - 1 /\ DOMAIN Tail(q) = 1 .. Len(q) - 1 /\ Len(q) \in Nat \ {0}
    OBVIOUS
  <1>2. ASSUME NEW i \in 1 .. Len(q) - 1 PROVE Tail(q)[i] = q[i + 1]
    OBVIOUS
  <1>3. DOMAIN q = 1 .. Len(q) /\ Head(q) = q[1]
    OBVIOUS
  <1>4. ASSUME NEW i \in DOMAIN q, i # 1
        PROVE  i - 1 \in DOMAIN Tail(q) /\ Tail(q)[i - 1] = q[i]
    <2>1. i - 1 \in 1 .. Len(q) - 1 /\ (i - 1) + 1 = i
      BY <1>1, <1>3, <1>4
    <2>2. Tail(q)[i - 1] = q[(i - 1) + 1]
      BY <1>2, <2>1
    <2> QED BY <1>1, <2>1, <2>2
  <1> QED BY <1>1, <1>2, <1>3, <1>4

LEMMA AppendEntries ==
    ASSUME NEW S, NEW q \in Seq(S), NEW e, NEW i \in DOMAIN Append(q, e)
    PROVE  \/ i \in DOMAIN q /\ Append(q, e)[i] = q[i]
           \/ i = Len(q) + 1 /\ Append(q, e)[i] = e
  OBVIOUS

LEMMA SendFits ==
    ASSUME TypeOK, NEW c \in Conn, queued[c] < SendCap
    PROVE  [queued EXCEPT ![c] = @ + 1] \in [Conn -> 0 .. SendCap]
  <1>1. queued[c] + 1 \in 0 .. SendCap
    BY DEF TypeOK
  <1> QED BY <1>1 DEF TypeOK

LEMMA TypeInit == Init => TypeOK
  <1> SUFFICES ASSUME Init PROVE TypeOK
    OBVIOUS
  <1>1. handler \in [Conn -> {"idle", "register", "spawn", "done"}]
        /\ reader \in [Conn -> {"off", "read", "login", "reply", "done"}]
        /\ owed \in [Conn -> 0 .. 2]
        /\ writer \in [Conn -> {"off", "wait", "write", "done"}]
        /\ conn \in [Conn -> {"none", "up", "stalled", "down"}]
        /\ addr \in [Conn -> Address \cup {"none"}]
        /\ key \in [Conn -> UserKey \cup {NoKey}]
    BY DEF Init
  <1>2. queued \in [Conn -> 0 .. SendCap] /\ closed \in [Conn -> BOOLEAN]
    BY DEF Init
  <1>3. /\ registerCh \in Seq(Conn) /\ Len(registerCh) <= QueueCap
        /\ loginCh \in Seq(LoginRecord) /\ Len(loginCh) <= QueueCap
        /\ unregisterCh \in Seq(Conn) /\ Len(unregisterCh) <= QueueCap
        /\ broadcastCh \in 0 .. QueueCap
    BY DEF Init
  <1>4. Clients \in SUBSET Conn /\ Users \in [UserKey -> Conn \cup {NoClient}]
    BY DEF Init
  <1> QED BY <1>1, <1>2, <1>3, <1>4 DEF Init, TypeOK

LEMMA HandlerType == ASSUME TypeOK, NEW c \in Conn, HandlerStep(c) PROVE TypeOK'
  <1>1. CASE Upgrade(c)
    <2>1. \A a \in Addrs[c] : a \in Address
      BY DEF Address
    <2>2. addr' \in [Conn -> Address \cup {"none"}]
      BY <1>1, <2>1 DEF TypeOK, Upgrade
    <2> QED BY <1>1, <2>2 DEF TypeOK, Upgrade, sendCh, queues, registry, loops
  <1>2. CASE UpgradeFails(c)
    BY <1>2 DEF TypeOK, UpgradeFails, sendCh, queues, registry, loops
  <1>3. CASE SubmitRegister(c)
    BY <1>3, QueueSteps DEF TypeOK, SubmitRegister, sendCh, registry, loops
  <1>4. CASE StartManager(c)
    BY <1>4 DEF TypeOK, StartManager, sendCh, queues, registry
  <1> QED BY <1>1, <1>2, <1>3, <1>4 DEF HandlerStep

LEMMA ReaderType == ASSUME TypeOK, NEW c \in Conn, ReaderStep(c) PROVE TypeOK'
  <1>1. CASE ReadRequest(c)
    BY <1>1 DEF TypeOK, ReadRequest, CanRead, sendCh, queues, registry, loops
  <1>2. ASSUME NEW k \in UserKey, Authenticate(c, k) PROVE TypeOK'
    BY <1>2 DEF TypeOK, Authenticate, CanRead, sendCh, queues, registry, loops
  <1>3. CASE SubmitLogin(c)
    <2>1. [client |-> c, key |-> key[c]] \in LoginRecord
      BY <1>3 DEF SubmitLogin, TypeOK, LoginRecord
    <2> QED BY <1>3, <2>1, QueueSteps DEF TypeOK, SubmitLogin, sendCh, registry, loops
  <1>4. CASE Reply(c)
    <2>1. owed[c] \in 1 .. 2 /\ owed' = [owed EXCEPT ![c] = owed[c] - 1]
      BY <1>4 DEF TypeOK, Reply
    <2>2. owed' \in [Conn -> 0 .. 2] /\ (owed[c] # 1 => owed'[c] # 0)
      BY <2>1 DEF TypeOK
    <2>3. queued' \in [Conn -> 0 .. SendCap]
      <3>1. CASE queued' = queued
        BY <3>1 DEF TypeOK
      <3>2. CASE queued[c] < SendCap /\ queued' = [queued EXCEPT ![c] = @ + 1]
        BY <3>2, SendFits
      <3> QED BY <1>4, <3>1, <3>2 DEF Reply, SendMsg
    <2>4. \A d \in Conn : d # c => owed'[d] = owed[d]
      BY <2>1 DEF TypeOK
    <2> QED BY <1>4, <2>2, <2>3, <2>4 DEF TypeOK, Reply, queues, registry, loops
  <1>5. CASE ReaderFails(c)
    BY <1>5 DEF TypeOK, ReaderFails, queues, registry, loops
  <1>6. CASE MarshalFails(c)
    BY <1>6 DEF TypeOK, MarshalFails, sendCh, queues, registry, loops
  <1> QED BY <1>1, <1>2, <1>3, <1>4, <1>5, <1>6 DEF ReaderStep

LEMMA WriterType == ASSUME TypeOK, NEW c \in Conn, WriterStep(c) PROVE TypeOK'
  <1>1. CASE WriterTakes(c)
    BY <1>1 DEF TypeOK, WriterTakes, queues, registry, loops
  <1>2. CASE WriterWrites(c)
    BY <1>2 DEF TypeOK, WriterWrites, sendCh, queues, registry, loops
  <1>3. CASE WriterStops(c)
    BY <1>3 DEF TypeOK, WriterStops, sendCh, queues, registry, loops
  <1> QED BY <1>1, <1>2, <1>3 DEF WriterStep

LEMMA ManagerType == ASSUME TypeOK, NEW m \in Conn, ManagerStep(m) PROVE TypeOK'
  <1>1. CASE EventRegister(m)
    BY <1>1, QueueSteps DEF TypeOK, EventRegister, Busy, goroutines, sendCh
  <1>2. CASE Greet(m)
    <2>1. queued' \in [Conn -> 0 .. SendCap]
      <3>1. job[m] \in Conn /\ queued[job[m]] < SendCap
        BY <1>2 DEF TypeOK, Greet
      <3> QED BY <1>2, <3>1, SendFits DEF Greet
    <2> QED BY <1>2, <2>1 DEF TypeOK, Greet, Idle, goroutines, queues, registry
  <1>3. CASE GreetPanics(m)
    BY <1>3 DEF TypeOK, GreetPanics, Panic, goroutines, sendCh, queues, registry, loops
  <1>4. CASE EventLogin(m)
    <2>1. Head(loginCh) \in LoginRecord
      BY <1>4, QueueSteps DEF TypeOK, EventLogin
    <2>2. Head(loginCh).client \in Conn /\ Head(loginCh).key \in UserKey
      BY <2>1 DEF LoginRecord
    <2>3. loginCh' \in Seq(LoginRecord) /\ Len(loginCh') <= QueueCap
      BY <1>4, QueueSteps DEF TypeOK, EventLogin
    <2>4. CASE Head(loginCh).client \in Clients
      <3>1. mgr' = [mgr EXCEPT ![m] = "bind"] /\ job' = [job EXCEPT ![m] = Head(loginCh).client]
            /\ jobKey' = [jobKey EXCEPT ![m] = Head(loginCh).key]
        BY <1>4, <2>4 DEF EventLogin
      <3> QED BY <1>4, <3>1, <2>2, <2>3 DEF TypeOK, EventLogin, goroutines, sendCh, registry
    <2>5. CASE Head(loginCh).client \notin Clients
      <3>1. UNCHANGED <<mgr, job, jobKey>>
        BY <1>4, <2>5 DEF EventLogin
      <3> QED BY <1>4, <3>1, <2>3 DEF TypeOK, EventLogin, goroutines, sendCh, registry
    <2> QED BY <2>4, <2>5
  <1>5. CASE AddUsers(m)
    BY <1>5 DEF TypeOK, AddUsers, Idle, goroutines, sendCh, queues
  <1>6. CASE EventUnregister(m)
    BY <1>6, QueueSteps DEF TypeOK, EventUnregister, Busy, goroutines, sendCh
  <1>7. CASE DelUsers(m)
    <2>1. Users' \in [UserKey -> Conn \cup {NoClient}] /\ crashed' \in BOOLEAN
      <3>1. Users' = Users \/ \E k : Users' = [Users EXCEPT ![k] = NoClient]
        BY <1>7 DEF DelUsers
      <3>2. crashed' = crashed \/ crashed' = TRUE
        BY <1>7 DEF DelUsers, Panic
      <3> QED BY <3>1, <3>2 DEF TypeOK
    <2>2. \/ Idle(m)
          \/ mgr' = [mgr EXCEPT ![m] = "close"] /\ UNCHANGED <<job, jobKey, todo>>
          \/ UNCHANGED loops
      BY <1>7 DEF DelUsers
    <2>3. mgr[m] = "unbind" /\ UNCHANGED <<goroutines, peer, key, sendCh, queues, Clients>>
      BY <1>7 DEF DelUsers
    <2>4. CASE Idle(m)
      BY <2>1, <2>3, <2>4 DEF TypeOK, Idle, goroutines, sendCh, queues
    <2>5. CASE mgr' = [mgr EXCEPT ![m] = "close"] /\ UNCHANGED <<job, jobKey, todo>>
      BY <2>1, <2>3, <2>5 DEF TypeOK, goroutines, sendCh, queues
    <2>6. CASE UNCHANGED loops
      BY <2>1, <2>3, <2>6 DEF TypeOK, goroutines, sendCh, queues, loops
    <2> QED BY <2>2, <2>4, <2>5, <2>6
  <1>8. CASE CloseSend(m)
    <2>1. CASE closed[job[m]]
      BY <1>8, <2>1 DEF TypeOK, CloseSend, Panic, goroutines, queues, registry, loops
    <2>2. CASE ~closed[job[m]]
      <3>1. closed' = [closed EXCEPT ![job[m]] = TRUE] /\ Idle(m) /\ UNCHANGED crashed
        BY <1>8, <2>2 DEF CloseSend
      <3> QED BY <1>8, <3>1 DEF TypeOK, CloseSend, Idle, goroutines, queues, registry
    <2> QED BY <2>1, <2>2
  <1>9. CASE EventBroadcast(m)
    BY <1>9 DEF TypeOK, EventBroadcast, goroutines, sendCh, registry
  <1>10. ASSUME NEW c \in Conn, BroadcastTo(m, c) PROVE TypeOK'
    <2>1. CASE closed[c]
      BY <1>10, <2>1 DEF TypeOK, BroadcastTo, Panic, goroutines, sendCh, queues, registry, loops
    <2>2. CASE ~closed[c]
      <3>1. queued' \in [Conn -> 0 .. SendCap] /\ closed' \in [Conn -> BOOLEAN]
        <4>1. CASE queued[c] < SendCap
          <5>1. queued' = [queued EXCEPT ![c] = @ + 1] /\ closed' = closed
            BY <1>10, <2>2, <4>1 DEF BroadcastTo
          <5> QED BY <4>1, <5>1, SendFits DEF TypeOK
        <4>2. CASE ~(queued[c] < SendCap)
          <5>1. queued' = queued /\ closed' = [closed EXCEPT ![c] = TRUE]
            BY <1>10, <2>2, <4>2 DEF BroadcastTo
          <5> QED BY <5>1 DEF TypeOK
        <4> QED BY <4>1, <4>2
      <3>2. todo' = [todo EXCEPT ![m] = @ \ {c}] /\ UNCHANGED <<job, jobKey, crashed>>
            /\ mgr' = [mgr EXCEPT ![m] = IF todo[m] = {c} THEN "select" ELSE "broadcast"]
        BY <1>10, <2>2 DEF BroadcastTo
      <3>3. UNCHANGED <<goroutines, peer, key, queues, registry>>
        BY <1>10 DEF BroadcastTo
      <3>4. todo' \in [Conn -> SUBSET Conn] /\ mgr[m] = "broadcast"
        BY <1>10, <3>2 DEF TypeOK, BroadcastTo
      <3>5. mgr' \in [Conn -> {"off", "select", "greet", "bind", "unbind", "close", "broadcast"}]
        BY <3>2, <3>4 DEF TypeOK
      <3>6. \A n \in Conn : /\ mgr'[n] \in {"greet", "bind", "unbind", "close"} => mgr'[n] = mgr[n]
                            /\ mgr'[n] = "bind" => mgr'[n] = mgr[n]
        BY <3>2, <3>4 DEF TypeOK
      <3> QED BY <3>1, <3>2, <3>3, <3>4, <3>5, <3>6 DEF TypeOK, goroutines, queues, registry
    <2> QED BY <2>1, <2>2
  <1> QED BY <1>1, <1>2, <1>3, <1>4, <1>5, <1>6, <1>7, <1>8, <1>9, <1>10 DEF ManagerStep

LEMMA OutsideType == ASSUME TypeOK, NEW c \in Conn, Outside(c) PROVE TypeOK'
  <1>1. CASE PeerStalls(c)
    BY <1>1 DEF TypeOK, PeerStalls, goroutines, sendCh, queues, registry, loops
  <1>2. CASE PeerResumes(c)
    BY <1>2 DEF TypeOK, PeerResumes, goroutines, sendCh, queues, registry, loops
  <1>3. CASE PeerLeaves(c)
    BY <1>3 DEF TypeOK, PeerLeaves, goroutines, sendCh, queues, registry, loops
  <1>4. CASE ClearTimeout(c)
    BY <1>4 DEF TypeOK, ClearTimeout, goroutines, sendCh, queues, registry, loops
  <1>5. CASE SubmitUnregister(c)
    BY <1>5, QueueSteps DEF TypeOK, SubmitUnregister, goroutines, sendCh, registry, loops
  <1> QED BY <1>1, <1>2, <1>3, <1>4, <1>5 DEF Outside

LEMMA StutterType == ASSUME TypeOK, UNCHANGED vars PROVE TypeOK'
  BY DEF TypeOK, vars, goroutines, sendCh, queues, registry, loops

LEMMA TypeStep == TypeOK /\ [Next]_vars => TypeOK'
  <1> SUFFICES ASSUME TypeOK, [Next]_vars PROVE TypeOK'
    OBVIOUS
  <1>1. CASE SubmitBroadcast
    BY <1>1 DEF TypeOK, SubmitBroadcast, goroutines, sendCh, registry, loops
  <1>2. CASE Rest
    BY <1>2, StutterType DEF Rest
  <1>3. CASE UNCHANGED vars
    BY <1>3, StutterType
  <1> QED
    BY <1>1, <1>2, <1>3, HandlerType, ReaderType, WriterType, ManagerType, OutsideType DEF Next

\* Every variable keeps its type; in particular no channel ever holds more than
\* its capacity, whoever sends on it.
THEOREM TypeCorrect == Spec => []TypeOK
  BY TypeInit, TypeStep, PTL DEF Spec

-----------------------------------------------------------------------------
(* Users and presence, as long as nobody sends on Unregister.  Of all the    *)
(* actions only Authenticate, SubmitLogin, EventRegister, EventLogin and     *)
(* AddUsers touch what the invariant speaks of.                              *)

presence == <<key, loginCh, unregisterCh, Clients, Users, mgr, job, jobKey>>

LEMMA HubInit == Init => HubInv
  BY DEF Init, HubInv, NobodyUnregisters, LoginsGenuine, BindsGenuine, UsersOnline

\* A loop whose pc is neither bind, unbind nor close may do what it likes.
LEMMA LoopKeeps ==
    ASSUME TypeOK, HubInv, NEW m \in Conn, NEW pc, pc \notin {"bind", "unbind", "close"},
           mgr' = [mgr EXCEPT ![m] = pc],
           \A n \in Conn \ {m} : job'[n] = job[n] /\ jobKey'[n] = jobKey[n],
           UNCHANGED <<key, loginCh, unregisterCh, Users>>, Clients \subseteq Clients'
    PROVE  HubInv'
  BY DEF TypeOK, HubInv, NobodyUnregisters, LoginsGenuine, BindsGenuine, UsersOnline

LEMMA PresenceKeeps == ASSUME HubInv, UNCHANGED presence PROVE HubInv'
  BY DEF presence, HubInv, NobodyUnregisters, LoginsGenuine, BindsGenuine, UsersOnline

\* The last element goes with Append, the first with Tail.
LEMMA AppendGenuine ==
    ASSUME TypeOK, LoginsGenuine, NEW c \in Conn,
           loginCh' = Append(loginCh, [client |-> c, key |-> key[c]]), key' = key
    PROVE  LoginsGenuine'
  <1>1. ASSUME NEW i \in DOMAIN loginCh' PROVE key'[loginCh'[i].client] = loginCh'[i].key
    <2>1. DOMAIN loginCh = 1 .. Len(loginCh) /\ Len(loginCh) \in Nat
      BY DEF TypeOK
    <2>2. i \in 1 .. Len(loginCh) + 1
      BY <1>1, <2>1 DEF TypeOK
    <2>3. CASE i \in DOMAIN loginCh
      BY <2>1, <2>3 DEF TypeOK, LoginsGenuine
    <2>4. CASE i = Len(loginCh) + 1
      BY <2>1, <2>4 DEF TypeOK
    <2> QED BY <2>1, <2>2, <2>3, <2>4
  <1> QED BY <1>1 DEF LoginsGenuine

LEMMA TailGenuine ==
    ASSUME TypeOK, LoginsGenuine, loginCh # <<>>, loginCh' = Tail(loginCh), key' = key
    PROVE  /\ LoginsGenuine'
           /\ key[Head(loginCh).client] = Head(loginCh).key
  <1>1. Len(loginCh) \in Nat \ {0} /\ DOMAIN loginCh = 1 .. Len(loginCh)
    BY DEF TypeOK
  <1>2. key[Head(loginCh).client] = Head(loginCh).key
    <2>1. 1 \in DOMAIN loginCh /\ Head(loginCh) = loginCh[1]
      BY <1>1 DEF TypeOK
    <2> QED BY <2>1 DEF LoginsGenuine
  <1>3. ASSUME NEW i \in DOMAIN loginCh' PROVE key'[loginCh'[i].client] = loginCh'[i].key
    <2>1. i + 1 \in DOMAIN loginCh /\ loginCh'[i] = loginCh[i + 1]
      BY <1>3, TailEntries DEF TypeOK
    <2> QED BY <2>1 DEF LoginsGenuine
  <1> QED BY <1>2, <1>3 DEF LoginsGenuine

LEMMA ReaderHub == ASSUME TypeOK, HubInv, NEW c \in Conn, ReaderStep(c) PROVE HubInv'
  <1>1. CASE ReadRequest(c) \/ Reply(c) \/ MarshalFails(c) \/ ReaderFails(c)
    BY <1>1, PresenceKeeps
       DEF ReadRequest, Reply, MarshalFails, ReaderFails, presence, queues, registry, loops
  <1>2. ASSUME NEW k \in UserKey, Authenticate(c, k) PROVE HubInv'
    \* No login of c is queued or looked up, and c is in no entry of Users: in
    \* each of them the key of c would be a user's key, and it is NoKey.
    <2>1. key[c] = NoKey /\ key' = [key EXCEPT ![c] = k]
          /\ UNCHANGED <<loginCh, unregisterCh, Clients, Users, mgr, job, jobKey>>
      BY <1>2 DEF Authenticate, queues, registry, loops
    <2>2. \A d \in Conn : key[d] # NoKey => key'[d] = key[d]
      BY <2>1 DEF TypeOK
    <2>3. LoginsGenuine'
      <3>1. ASSUME NEW i \in DOMAIN loginCh
            PROVE  loginCh[i].client \in Conn /\ loginCh[i].key \in UserKey
        <4>1. loginCh[i] \in LoginRecord
          BY DEF TypeOK
        <4> QED BY <4>1 DEF LoginRecord
      <3> QED BY <2>1, <2>2, <3>1 DEF HubInv, LoginsGenuine
    <2>4. BindsGenuine'
      <3>1. ASSUME NEW m \in Conn, mgr[m] = "bind"
            PROVE  job[m] \in Conn /\ jobKey[m] # NoKey
        BY <3>1 DEF TypeOK
      <3> QED BY <2>1, <2>2, <3>1 DEF HubInv, BindsGenuine
    <2>5. UsersOnline'
      <3>1. ASSUME NEW u \in UserKey, Users[u] # NoClient PROVE Users[u] \in Conn
        BY <3>1 DEF TypeOK
      <3> QED BY <2>1, <2>2, <3>1 DEF HubInv, UsersOnline
    <2> QED BY <2>1, <2>3, <2>4, <2>5 DEF HubInv, NobodyUnregisters
  <1>3. CASE SubmitLogin(c)
    <2>1. loginCh' = Append(loginCh, [client |-> c, key |-> key[c]])
          /\ UNCHANGED <<key, unregisterCh, Clients, Users, mgr, job, jobKey>>
      BY <1>3 DEF SubmitLogin, registry, loops
    <2>2. LoginsGenuine'
      BY <2>1, AppendGenuine DEF HubInv
    <2> QED BY <2>1, <2>2 DEF HubInv, NobodyUnregisters, BindsGenuine, UsersOnline
  <1> QED BY <1>1, <1>2, <1>3 DEF ReaderStep

LEMMA ManagerHub == ASSUME TypeOK, HubInv, NEW m \in Conn, ManagerStep(m) PROVE HubInv'
  <1>1. CASE EventRegister(m)
    <2>1. mgr' = [mgr EXCEPT ![m] = "greet"] /\ job' = [job EXCEPT ![m] = Head(registerCh)]
          /\ Clients \subseteq Clients'
          /\ UNCHANGED <<key, loginCh, unregisterCh, Users, jobKey>>
      BY <1>1 DEF EventRegister, Busy
    <2> QED BY <2>1, LoopKeeps DEF TypeOK
  <1>2. CASE Greet(m)
    <2>1. mgr' = [mgr EXCEPT ![m] = "select"] /\ job' = [job EXCEPT ![m] = NoClient]
          /\ jobKey' = [jobKey EXCEPT ![m] = NoKey]
          /\ UNCHANGED <<key, loginCh, unregisterCh, Clients, Users>>
      BY <1>2 DEF Greet, Idle, queues, registry
    <2> QED BY <2>1, LoopKeeps DEF TypeOK
  <1>3. CASE GreetPanics(m)
    BY <1>3, PresenceKeeps DEF GreetPanics, presence, queues, registry, loops
  <1>4. CASE EventLogin(m)
    <2>1. loginCh # <<>> /\ loginCh' = Tail(loginCh)
          /\ UNCHANGED <<key, unregisterCh, Clients, Users>>
      BY <1>4 DEF EventLogin, registry
    <2>2. LoginsGenuine' /\ key[Head(loginCh).client] = Head(loginCh).key
      BY <2>1, TailGenuine DEF HubInv
    <2>3. CASE Head(loginCh).client \in Clients
      <3>1. mgr' = [mgr EXCEPT ![m] = "bind"] /\ job' = [job EXCEPT ![m] = Head(loginCh).client]
            /\ jobKey' = [jobKey EXCEPT ![m] = Head(loginCh).key]
        BY <1>4, <2>3 DEF EventLogin
      <3> QED BY <2>1, <2>2, <2>3, <3>1
              DEF TypeOK, HubInv, NobodyUnregisters, BindsGenuine, UsersOnline
    <2>4. CASE Head(loginCh).client \notin Clients
      <3>1. UNCHANGED <<mgr, job, jobKey>>
        BY <1>4, <2>4 DEF EventLogin
      <3> QED BY <2>1, <2>2, <3>1 DEF HubInv, NobodyUnregisters, BindsGenuine, UsersOnline
    <2> QED BY <2>3, <2>4
  <1>5. CASE AddUsers(m)
    <2>1. mgr[m] = "bind" /\ Users' = [Users EXCEPT ![jobKey[m]] = job[m]]
          /\ mgr' = [mgr EXCEPT ![m] = "select"] /\ job' = [job EXCEPT ![m] = NoClient]
          /\ jobKey' = [jobKey EXCEPT ![m] = NoKey]
          /\ UNCHANGED <<key, loginCh, unregisterCh, Clients>>
      BY <1>5 DEF AddUsers, Idle, queues
    <2>2. job[m] \in Clients /\ key[job[m]] = jobKey[m]
      BY <2>1 DEF HubInv, BindsGenuine
    <2>3. UsersOnline'
      BY <2>1, <2>2 DEF TypeOK, HubInv, UsersOnline
    <2> QED BY <2>1, <2>3 DEF TypeOK, HubInv, NobodyUnregisters, LoginsGenuine, BindsGenuine
  <1>6. CASE EventUnregister(m) \/ DelUsers(m) \/ CloseSend(m)
    BY <1>6 DEF HubInv, NobodyUnregisters, EventUnregister, DelUsers, CloseSend
  <1>7. CASE EventBroadcast(m)
    <2>1. \E pc \in {"select", "broadcast"} : mgr' = [mgr EXCEPT ![m] = pc]
      BY <1>7 DEF EventBroadcast
    <2> QED BY <1>7, <2>1, LoopKeeps DEF EventBroadcast, registry
  <1>8. ASSUME NEW c \in Conn, BroadcastTo(m, c) PROVE HubInv'
    <2>1. CASE closed[c]
      BY <1>8, <2>1, PresenceKeeps DEF BroadcastTo, presence, queues, registry, loops
    <2>2. CASE ~closed[c]
      <3>1. \E pc \in {"select", "broadcast"} : mgr' = [mgr EXCEPT ![m] = pc]
        BY <1>8, <2>2 DEF BroadcastTo
      <3> QED BY <1>8, <2>2, <3>1, LoopKeeps DEF BroadcastTo, queues, registry
    <2> QED BY <2>1, <2>2
  <1> QED BY <1>1, <1>2, <1>3, <1>4, <1>5, <1>6, <1>7, <1>8 DEF ManagerStep

LEMMA HubStep ==
    ASSUME ~Unregistering, TypeOK, HubInv, [Next]_vars
    PROVE  HubInv'
  <1>1. ASSUME NEW c \in Conn, HandlerStep(c) PROVE HubInv'
    <2>1. CASE Upgrade(c) \/ UpgradeFails(c) \/ SubmitRegister(c)
      BY <2>1, PresenceKeeps
         DEF Upgrade, UpgradeFails, SubmitRegister, presence, queues, registry, loops
    <2>2. CASE StartManager(c)
      BY <2>2, LoopKeeps DEF StartManager, queues, registry
    <2> QED BY <1>1, <2>1, <2>2 DEF HandlerStep
  <1>2. ASSUME NEW c \in Conn, WriterStep(c) PROVE HubInv'
    BY <1>2, PresenceKeeps
       DEF WriterStep, WriterTakes, WriterWrites, WriterStops, presence, queues, registry, loops
  <1>3. ASSUME NEW c \in Conn, Outside(c) PROVE HubInv'
    BY <1>3, PresenceKeeps
       DEF Outside, PeerStalls, PeerResumes, PeerLeaves, ClearTimeout, SubmitUnregister,
           presence, queues, registry, loops
  <1>4. CASE SubmitBroadcast \/ Rest \/ UNCHANGED vars
    BY <1>4, PresenceKeeps
       DEF SubmitBroadcast, Rest, vars, presence, queues, registry, loops
  <1> QED BY <1>1, <1>2, <1>3, <1>4, ReaderHub, ManagerHub DEF Next

\* A user is reached only through a connected client that logged in as this user.
THEOREM UsersAreOnline == ASSUME ~Unregistering PROVE Spec => []UsersOnline
  <1>1. Init => TypeOK /\ HubInv
    BY TypeInit, HubInit
  <1>2. TypeOK /\ HubInv /\ [Next]_vars => (TypeOK /\ HubInv)'
    BY TypeStep, HubStep
  <1>3. HubInv => UsersOnline
    BY DEF HubInv
  <1> QED BY <1>1, <1>2, <1>3, PTL DEF Spec

-----------------------------------------------------------------------------
(* Names: what HubInv still says when somebody unregisters *)

LEMMA NamesInit == Init => NamesInv
  BY DEF Init, NamesInv, LoginsGenuine, BindsNamed, UsersNamed

\* A loop whose pc is not bind may do what it likes, but for Users.
LEMMA LoopKeepsNames ==
    ASSUME TypeOK, NamesInv, NEW m \in Conn, NEW pc, pc # "bind",
           mgr' = [mgr EXCEPT ![m] = pc],
           \A n \in Conn \ {m} : job'[n] = job[n] /\ jobKey'[n] = jobKey[n],
           UNCHANGED <<key, loginCh, Users>>
    PROVE  NamesInv'
  BY DEF TypeOK, NamesInv, LoginsGenuine, BindsNamed, UsersNamed

LEMMA NamesKept ==
    ASSUME NamesInv, UNCHANGED <<key, loginCh, Users, mgr, job, jobKey>> PROVE NamesInv'
  BY DEF NamesInv, LoginsGenuine, BindsNamed, UsersNamed

LEMMA ReaderNames == ASSUME TypeOK, NamesInv, NEW c \in Conn, ReaderStep(c) PROVE NamesInv'
  <1>1. CASE ReadRequest(c) \/ Reply(c) \/ MarshalFails(c) \/ ReaderFails(c)
    BY <1>1, NamesKept DEF ReadRequest, Reply, MarshalFails, ReaderFails, queues, registry, loops
  <1>2. ASSUME NEW k \in UserKey, Authenticate(c, k) PROVE NamesInv'
    <2>1. key[c] = NoKey /\ key' = [key EXCEPT ![c] = k]
          /\ UNCHANGED <<loginCh, Users, mgr, job, jobKey>>
      BY <1>2 DEF Authenticate, queues, registry, loops
    <2>2. \A d \in Conn : key[d] # NoKey => key'[d] = key[d]
      BY <2>1 DEF TypeOK
    <2>3. LoginsGenuine'
      <3>1. ASSUME NEW i \in DOMAIN loginCh
            PROVE  loginCh[i].client \in Conn /\ loginCh[i].key \in UserKey
        <4>1. loginCh[i] \in LoginRecord
          BY DEF TypeOK
        <4> QED BY <4>1 DEF LoginRecord
      <3> QED BY <2>1, <2>2, <3>1 DEF NamesInv, LoginsGenuine
    <2>4. BindsNamed'
      <3>1. ASSUME NEW m \in Conn, mgr[m] = "bind"
            PROVE  job[m] \in Conn /\ jobKey[m] # NoKey
        BY <3>1 DEF TypeOK
      <3> QED BY <2>1, <2>2, <3>1 DEF NamesInv, BindsNamed
    <2>5. UsersNamed'
      <3>1. ASSUME NEW u \in UserKey, Users[u] # NoClient PROVE Users[u] \in Conn
        BY <3>1 DEF TypeOK
      <3> QED BY <2>1, <2>2, <3>1 DEF NamesInv, UsersNamed
    <2> QED BY <2>3, <2>4, <2>5 DEF NamesInv
  <1>3. CASE SubmitLogin(c)
    <2>1. loginCh' = Append(loginCh, [client |-> c, key |-> key[c]])
          /\ UNCHANGED <<key, Users, mgr, job, jobKey>>
      BY <1>3 DEF SubmitLogin, registry, loops
    <2>2. LoginsGenuine'
      BY <2>1, AppendGenuine DEF NamesInv
    <2> QED BY <2>1, <2>2 DEF NamesInv, BindsNamed, UsersNamed
  <1> QED BY <1>1, <1>2, <1>3 DEF ReaderStep

LEMMA ManagerNames == ASSUME TypeOK, NamesInv, NEW m \in Conn, ManagerStep(m) PROVE NamesInv'
  <1>1. CASE EventRegister(m)
    BY <1>1, LoopKeepsNames DEF TypeOK, EventRegister, Busy
  <1>2. CASE Greet(m)
    <2>1. mgr' = [mgr EXCEPT ![m] = "select"] /\ job' = [job EXCEPT ![m] = NoClient]
          /\ jobKey' = [jobKey EXCEPT ![m] = NoKey] /\ UNCHANGED <<key, loginCh, Users>>
      BY <1>2 DEF Greet, Idle, queues, registry
    <2> QED BY <2>1, LoopKeepsNames DEF TypeOK
  <1>3. CASE GreetPanics(m)
    BY <1>3, NamesKept DEF GreetPanics, queues, registry, loops
  <1>4. CASE EventLogin(m)
    <2>1. loginCh # <<>> /\ loginCh' = Tail(loginCh) /\ UNCHANGED <<key, Users>>
      BY <1>4 DEF EventLogin, registry
    <2>2. LoginsGenuine' /\ key[Head(loginCh).client] = Head(loginCh).key
      BY <2>1, TailGenuine DEF NamesInv
    <2>3. CASE Head(loginCh).client \in Clients
      <3>1. mgr' = [mgr EXCEPT ![m] = "bind"] /\ job' = [job EXCEPT ![m] = Head(loginCh).client]
            /\ jobKey' = [jobKey EXCEPT ![m] = Head(loginCh).key]
        BY <1>4, <2>3 DEF EventLogin
      <3> QED BY <2>1, <2>2, <3>1 DEF TypeOK, NamesInv, BindsNamed, UsersNamed
    <2>4. CASE Head(loginCh).client \notin Clients
      <3>1. UNCHANGED <<mgr, job, jobKey>>
        BY <1>4, <2>4 DEF EventLogin
      <3> QED BY <2>1, <2>2, <3>1 DEF NamesInv, BindsNamed, UsersNamed
    <2> QED BY <2>3, <2>4
  <1>5. CASE AddUsers(m)
    <2>1. mgr[m] = "bind" /\ Users' = [Users EXCEPT ![jobKey[m]] = job[m]]
          /\ mgr' = [mgr EXCEPT ![m] = "select"] /\ job' = [job EXCEPT ![m] = NoClient]
          /\ jobKey' = [jobKey EXCEPT ![m] = NoKey] /\ UNCHANGED <<key, loginCh>>
      BY <1>5 DEF AddUsers, Idle, queues
    <2>2. key[job[m]] = jobKey[m]
      BY <2>1 DEF NamesInv, BindsNamed
    <2>3. UsersNamed'
      BY <2>1, <2>2 DEF TypeOK, NamesInv, UsersNamed
    <2> QED BY <2>1, <2>3 DEF TypeOK, NamesInv, LoginsGenuine, BindsNamed
  <1>6. CASE EventUnregister(m)
    BY <1>6, LoopKeepsNames DEF TypeOK, EventUnregister, Busy
  <1>7. CASE DelUsers(m)
    <2>1. LoginsGenuine' /\ BindsNamed'
      BY <1>7 DEF DelUsers, Idle, loops, queues, TypeOK, NamesInv, LoginsGenuine, BindsNamed
    <2>2. \A u \in UserKey : Users'[u] \in {Users[u], NoClient}
      BY <1>7 DEF DelUsers, TypeOK
    <2>3. key' = key
      BY <1>7 DEF DelUsers
    <2> QED BY <2>1, <2>2, <2>3 DEF NamesInv, UsersNamed
  <1>8. CASE CloseSend(m)
    <2>1. CASE closed[job[m]]
      BY <1>8, <2>1, NamesKept DEF CloseSend, loops, queues, registry
    <2>2. CASE ~closed[job[m]]
      <3>1. mgr' = [mgr EXCEPT ![m] = "select"] /\ job' = [job EXCEPT ![m] = NoClient]
            /\ jobKey' = [jobKey EXCEPT ![m] = NoKey] /\ UNCHANGED <<key, loginCh, Users>>
        BY <1>8, <2>2 DEF CloseSend, Idle, queues, registry
      <3> QED BY <3>1, LoopKeepsNames DEF TypeOK
    <2> QED BY <2>1, <2>2
  <1>9. CASE EventBroadcast(m)
    <2>1. \E pc \in {"select", "broadcast"} : mgr' = [mgr EXCEPT ![m] = pc]
      BY <1>9 DEF EventBroadcast
    <2> QED BY <1>9, <2>1, LoopKeepsNames DEF EventBroadcast, registry
  <1>10. ASSUME NEW c \in Conn, BroadcastTo(m, c) PROVE NamesInv'
    <2>1. CASE closed[c]
      BY <1>10, <2>1, NamesKept DEF BroadcastTo, queues, registry, loops
    <2>2. CASE ~closed[c]
      <3>1. \E pc \in {"select", "broadcast"} : mgr' = [mgr EXCEPT ![m] = pc]
        BY <1>10, <2>2 DEF BroadcastTo
      <3> QED BY <1>10, <2>2, <3>1, LoopKeepsNames DEF BroadcastTo, queues, registry
    <2> QED BY <2>1, <2>2
  <1> QED BY <1>1, <1>2, <1>3, <1>4, <1>5, <1>6, <1>7, <1>8, <1>9, <1>10 DEF ManagerStep

LEMMA NamesStep == ASSUME TypeOK, NamesInv, [Next]_vars PROVE NamesInv'
  <1>1. ASSUME NEW c \in Conn, HandlerStep(c) PROVE NamesInv'
    <2>1. CASE Upgrade(c) \/ UpgradeFails(c) \/ SubmitRegister(c)
      BY <2>1, NamesKept DEF Upgrade, UpgradeFails, SubmitRegister, queues, registry, loops
    <2>2. CASE StartManager(c)
      BY <2>2, LoopKeepsNames DEF StartManager, queues, registry
    <2> QED BY <1>1, <2>1, <2>2 DEF HandlerStep
  <1>2. ASSUME NEW c \in Conn, WriterStep(c) \/ Outside(c) PROVE NamesInv'
    BY <1>2, NamesKept
       DEF WriterStep, WriterTakes, WriterWrites, WriterStops, Outside, PeerStalls, PeerResumes,
           PeerLeaves, ClearTimeout, SubmitUnregister, queues, registry, loops
  <1>3. CASE SubmitBroadcast \/ Rest \/ UNCHANGED vars
    BY <1>3, NamesKept DEF SubmitBroadcast, Rest, vars, queues, registry, loops
  <1> QED BY <1>1, <1>2, <1>3, ReaderNames, ManagerNames DEF Next

\* With callers that unregister, too, nobody is stored under another user's key.
THEOREM UsersAreNamed == Spec => []UsersNamed
  <1>1. Init => TypeOK /\ NamesInv
    BY TypeInit, NamesInit
  <1>2. TypeOK /\ NamesInv /\ [Next]_vars => (TypeOK /\ NamesInv)'
    BY TypeStep, NamesStep
  <1>3. NamesInv => UsersNamed
    BY DEF NamesInv
  <1> QED BY <1>1, <1>2, <1>3, PTL DEF Spec

-----------------------------------------------------------------------------
(* Crashes *)

LEMMA CrashStep ==
    ASSUME TypeOK, HubInv, CrashOnlyOnClosedSend, [Next]_vars
    PROVE  CrashOnlyOnClosedSend'
  <1> DEFINE Harmless == crashed' = crashed /\ ~crashed
  <1>1. ASSUME NEW m \in Conn, ManagerStep(m) PROVE CrashOnlyOnClosedSend'
    <2>1. CASE GreetPanics(m)
      BY <2>1 DEF GreetPanics, CrashOnlyOnClosedSend, sendCh, loops
    <2>2. ASSUME NEW c \in Conn, BroadcastTo(m, c) PROVE CrashOnlyOnClosedSend'
      <3>1. CASE closed[c]
        BY <2>2, <3>1 DEF BroadcastTo, CrashOnlyOnClosedSend, sendCh, loops
      <3>2. CASE ~closed[c]
        BY <2>2, <3>2 DEF BroadcastTo, CrashOnlyOnClosedSend
      <3> QED BY <3>1, <3>2
    <2>3. CASE EventUnregister(m) \/ DelUsers(m) \/ CloseSend(m)
      BY <2>3 DEF HubInv, NobodyUnregisters, EventUnregister, DelUsers, CloseSend
    <2>4. CASE EventRegister(m) \/ Greet(m) \/ EventLogin(m) \/ AddUsers(m) \/ EventBroadcast(m)
      <3>1. Harmless
        BY <2>4 DEF EventRegister, Greet, EventLogin, AddUsers, EventBroadcast
      <3> QED BY <3>1 DEF CrashOnlyOnClosedSend
    <2> QED BY <1>1, <2>1, <2>2, <2>3, <2>4 DEF ManagerStep
  <1>2. ASSUME NEW c \in Conn, HandlerStep(c) \/ ReaderStep(c) PROVE Harmless
    BY <1>2 DEF HandlerStep, Upgrade, UpgradeFails, SubmitRegister, StartManager,
                ReaderStep, ReadRequest, Authenticate, SubmitLogin, Reply, MarshalFails, ReaderFails
  <1>3. ASSUME NEW c \in Conn, WriterStep(c) \/ Outside(c) PROVE Harmless
    BY <1>3 DEF WriterStep, WriterTakes, WriterWrites, WriterStops, Outside, PeerStalls,
                PeerResumes, PeerLeaves, ClearTimeout, SubmitUnregister
  <1>4. CASE SubmitBroadcast
    BY <1>4 DEF SubmitBroadcast, CrashOnlyOnClosedSend
  <1>5. CASE Rest \/ UNCHANGED vars
    BY <1>5 DEF Rest, vars, sendCh, loops, CrashOnlyOnClosedSend
  <1> QED BY <1>1, <1>2, <1>3, <1>4, <1>5 DEF Next, CrashOnlyOnClosedSend

\* The only panic that ends the process is a loop's send on a closed Send.
THEOREM CrashesAreLateSends ==
    ASSUME ~Unregistering PROVE Spec => []CrashOnlyOnClosedSend
  <1>1. Init => TypeOK /\ HubInv /\ CrashOnlyOnClosedSend
    BY TypeInit, HubInit DEF Init, CrashOnlyOnClosedSend
  <1>2. TypeOK /\ HubInv /\ CrashOnlyOnClosedSend /\ [Next]_vars
            => (TypeOK /\ HubInv /\ CrashOnlyOnClosedSend)'
    BY TypeStep, HubStep, CrashStep
  <1> QED BY <1>1, <1>2, PTL DEF Spec

-----------------------------------------------------------------------------
(* A loop is left for every event.  GreetingsInv is kept, because only six   *)
(* actions touch what it speaks of; all the others are quiet.                *)

LEMMA GreetingsInit == Init => GreetingsInv
  <1> SUFFICES ASSUME Init PROVE GreetingsInv
    OBVIOUS
  <1>1. {c \in Conn : handler[c] # "idle"} = {}
    BY DEF Init
  <1>2. IsFiniteSet({c \in Conn : handler[c] # "idle"})
    BY <1>1, FS_EmptySet
  <1>3. \A c \in Conn : handler[c] = "idle" /\ mgr[c] = "off" /\ reader[c] = "off"
    BY DEF Init
  <1>4. DOMAIN registerCh = {} /\ DOMAIN loginCh = {}
    BY DEF Init
  <1>5. LoopPerRequest
    BY <1>2, <1>3, <1>4 DEF LoopPerRequest
  <1>6. RegisteredOnce /\ GreetedOnce
    BY <1>3, <1>4 DEF RegisteredOnce, GreetedOnce
  <1> QED BY <1>5, <1>6 DEF GreetingsInv

\* No loop starts, ends or turns to a greeting, and nothing enters a channel.
Quiet ==
    /\ UNCHANGED <<handler, registerCh>>
    /\ \A c \in Conn : reader'[c] # "off" => reader[c] # "off"
    /\ \A i \in DOMAIN loginCh' : \E j \in DOMAIN loginCh : loginCh'[i] = loginCh[j]
    /\ \A m \in Conn : /\ mgr'[m] = "off" <=> mgr[m] = "off"
                       /\ mgr'[m] = "greet" => mgr[m] = "greet" /\ job'[m] = job[m]

LEMMA QuietKeeps == ASSUME GreetingsInv, Quiet PROVE GreetingsInv'
  <1>1. RegisteredOnce'
    BY DEF GreetingsInv, Quiet, RegisteredOnce
  <1>2. GreetedOnce'
    BY DEF GreetingsInv, Quiet, GreetedOnce
  <1>3. LoopPerRequest'
    <2>1. {c \in Conn : handler'[c] # "idle"} = {c \in Conn : handler[c] # "idle"}
      BY DEF Quiet
    <2> QED BY <2>1 DEF GreetingsInv, Quiet, LoopPerRequest
  <1> QED BY <1>1, <1>2, <1>3 DEF GreetingsInv

\* One loop goes on to something else than a greeting.
LEMMA LoopStepQuiet ==
    ASSUME TypeOK, NEW m \in Conn, NEW pc, mgr[m] # "off", pc \notin {"off", "greet"},
           mgr' = [mgr EXCEPT ![m] = pc], \A n \in Conn \ {m} : job'[n] = job[n],
           UNCHANGED <<handler, reader, registerCh>>,
           loginCh' = loginCh \/ (loginCh # <<>> /\ loginCh' = Tail(loginCh))
    PROVE  Quiet
  <1>1. ASSUME NEW i \in DOMAIN loginCh'
        PROVE  \E j \in DOMAIN loginCh : loginCh'[i] = loginCh[j]
    <2>1. CASE loginCh' = loginCh
      BY <1>1, <2>1
    <2>2. CASE loginCh # <<>> /\ loginCh' = Tail(loginCh)
      <3>1. i + 1 \in DOMAIN loginCh /\ loginCh'[i] = loginCh[i + 1]
        BY <1>1, <2>2, TailEntries DEF TypeOK
      <3> QED BY <3>1
    <2> QED BY <2>1, <2>2
  <1> QED BY <1>1 DEF TypeOK, Quiet

\* Of a request that starts, one more is under way.
LEMMA UnderWayFinite ==
    ASSUME TypeOK, LoopPerRequest, NEW c \in Conn, NEW pc, handler' = [handler EXCEPT ![c] = pc]
    PROVE  IsFiniteSet({d \in Conn : handler'[d] # "idle"})
  <1> DEFINE Before == {d \in Conn : handler[d] # "idle"}
             After  == {d \in Conn : handler'[d] # "idle"}
  <1>1. IsFiniteSet(Before \cup {c})
    BY FS_AddElement DEF LoopPerRequest
  <1>2. After \in SUBSET (Before \cup {c})
    BY DEF TypeOK
  <1> QED BY <1>1, <1>2, FS_Subset

LEMMA HandlerGreetings ==
    ASSUME TypeOK, GreetingsInv, NEW c \in Conn, HandlerStep(c)
    PROVE  GreetingsInv'
  <1>1. CASE Upgrade(c) \/ UpgradeFails(c)
    <2>1. handler[c] = "idle" /\ UNCHANGED <<registerCh, loginCh, mgr, job>>
          /\ (\A d \in Conn \ {c} : reader'[d] = reader[d] /\ handler'[d] = handler[d])
          /\ \E pc \in {"register", "spawn"} : handler' = [handler EXCEPT ![c] = pc]
      BY <1>1 DEF TypeOK, Upgrade, UpgradeFails, queues, loops
    <2>2. handler'[c] \in {"register", "spawn"} /\ \A d \in Conn \ {c} : handler'[d] = handler[d]
      BY <2>1 DEF TypeOK
    <2>3. \A i \in DOMAIN registerCh : registerCh[i] \in Conn
      BY DEF TypeOK
    <2>4. \A i \in DOMAIN loginCh : loginCh[i].client \in Conn
      <3>1. ASSUME NEW i \in DOMAIN loginCh PROVE loginCh[i] \in LoginRecord
        BY DEF TypeOK
      <3> QED BY <3>1 DEF LoginRecord
    <2>5. \A m \in Conn : mgr[m] = "greet" => job[m] \in Conn
      BY DEF TypeOK
    <2>6. RegisteredOnce'
      BY <2>1, <2>2, <2>3 DEF GreetingsInv, RegisteredOnce
    <2>7. GreetedOnce'
      BY <2>1, <2>2, <2>5 DEF GreetingsInv, GreetedOnce
    <2>8. IsFiniteSet({d \in Conn : handler'[d] # "idle"})
      BY <2>1, UnderWayFinite DEF GreetingsInv
    <2>9. LoopPerRequest'
      BY <2>1, <2>2, <2>4, <2>8 DEF GreetingsInv, LoopPerRequest
    <2> QED BY <2>6, <2>7, <2>9 DEF GreetingsInv
  <1>2. CASE SubmitRegister(c)
    <2>1. handler[c] = "register" /\ registerCh' = Append(registerCh, c)
          /\ handler' = [handler EXCEPT ![c] = "spawn"]
          /\ UNCHANGED <<reader, loginCh, mgr, job>>
      BY <1>2 DEF SubmitRegister, loops
    <2>2. handler'[c] = "spawn" /\ \A d \in Conn \ {c} : handler'[d] = handler[d]
      BY <2>1 DEF TypeOK
    <2>3. ASSUME NEW i \in DOMAIN registerCh
          PROVE  registerCh[i] \in Conn /\ registerCh[i] # c
      <3>1. registerCh[i] \in Conn
        BY DEF TypeOK
      <3>2. handler[registerCh[i]] # "register"
        BY DEF GreetingsInv, RegisteredOnce
      <3> QED BY <2>1, <3>1, <3>2
    <2>4. \A i \in DOMAIN registerCh' :
            \/ i \in DOMAIN registerCh /\ registerCh'[i] = registerCh[i]
            \/ i = Len(registerCh) + 1 /\ registerCh'[i] = c
      BY <2>1 DEF TypeOK
    <2>5. \A m \in Conn : mgr[m] = "greet" => job[m] \in Conn /\ job[m] # c
      BY <2>1 DEF TypeOK, GreetingsInv, GreetedOnce
    <2>6. RegisteredOnce'
      BY <2>2, <2>3, <2>4 DEF GreetingsInv, RegisteredOnce
    <2>7. GreetedOnce'
      BY <2>1, <2>2, <2>4, <2>5 DEF GreetingsInv, GreetedOnce
    <2>8. IsFiniteSet({d \in Conn : handler'[d] # "idle"})
      BY <2>1, UnderWayFinite DEF GreetingsInv
    <2>9. LoopPerRequest'
      BY <2>1, <2>2, <2>8 DEF TypeOK, GreetingsInv, LoopPerRequest
    <2> QED BY <2>6, <2>7, <2>9 DEF GreetingsInv
  <1>3. CASE StartManager(c)
    <2>1. handler[c] = "spawn" /\ handler' = [handler EXCEPT ![c] = "done"]
          /\ mgr' = [mgr EXCEPT ![c] = "select"]
          /\ UNCHANGED <<reader, registerCh, loginCh, job>>
      BY <1>3 DEF StartManager, queues
    <2>2. handler'[c] = "done" /\ mgr'[c] = "select"
          /\ \A d \in Conn \ {c} : handler'[d] = handler[d] /\ mgr'[d] = mgr[d]
      BY <2>1 DEF TypeOK
    <2>3. \A i \in DOMAIN registerCh : registerCh[i] \in Conn
      BY DEF TypeOK
    <2>4. \A m \in Conn : mgr[m] = "greet" => job[m] \in Conn
      BY DEF TypeOK
    <2>5. RegisteredOnce'
      BY <2>1, <2>2, <2>3 DEF GreetingsInv, RegisteredOnce
    <2>6. GreetedOnce'
      BY <2>1, <2>2, <2>4 DEF GreetingsInv, GreetedOnce
    <2>7. IsFiniteSet({d \in Conn : handler'[d] # "idle"})
      BY <2>1, UnderWayFinite DEF GreetingsInv
    <2>8. LoopPerRequest'
      BY <2>1, <2>2, <2>7 DEF GreetingsInv, LoopPerRequest
    <2> QED BY <2>5, <2>6, <2>8 DEF GreetingsInv
  <1> QED BY <1>1, <1>2, <1>3 DEF HandlerStep

LEMMA ReaderGreetings ==
    ASSUME TypeOK, GreetingsInv, NEW c \in Conn, ReaderStep(c)
    PROVE  GreetingsInv'
  <1>1. CASE ReadRequest(c) \/ (\E k \in UserKey : Authenticate(c, k)) \/ Reply(c) \/ MarshalFails(c) \/ ReaderFails(c)
    <2>1. reader[c] # "off" /\ UNCHANGED <<handler, registerCh, loginCh, mgr, job>>
          /\ \A d \in Conn \ {c} : reader'[d] = reader[d]
      BY <1>1 DEF TypeOK, ReadRequest, Authenticate, CanRead, Reply, MarshalFails, ReaderFails, queues, loops
    <2> QED BY <2>1, QuietKeeps DEF Quiet
  <1>2. CASE SubmitLogin(c)
    <2>1. reader[c] = "login" /\ loginCh' = Append(loginCh, [client |-> c, key |-> key[c]])
          /\ UNCHANGED <<handler, registerCh, mgr, job>>
          /\ \A d \in Conn \ {c} : reader'[d] = reader[d]
      BY <1>2 DEF TypeOK, SubmitLogin, loops
    <2>2. \A i \in DOMAIN loginCh' : \/ i \in DOMAIN loginCh /\ loginCh'[i] = loginCh[i]
                                     \/ loginCh'[i].client = c
      <3>1. loginCh \in Seq(LoginRecord)
        BY DEF TypeOK
      <3>2. \A i \in DOMAIN loginCh' : \/ i \in DOMAIN loginCh /\ loginCh'[i] = loginCh[i]
                                       \/ loginCh'[i] = [client |-> c, key |-> key[c]]
        BY <2>1, <3>1, AppendEntries
      <3> QED BY <3>2
    <2>3. \A i \in DOMAIN loginCh' : handler[loginCh'[i].client] # "idle"
      <3>1. handler[c] # "idle" /\ \A i \in DOMAIN loginCh : handler[loginCh[i].client] # "idle"
        BY <2>1 DEF GreetingsInv, LoopPerRequest
      <3> QED BY <2>2, <3>1
    <2>4. {d \in Conn : handler'[d] # "idle"} = {d \in Conn : handler[d] # "idle"}
      BY <2>1
    <2>5. LoopPerRequest'
      BY <2>1, <2>3, <2>4 DEF GreetingsInv, LoopPerRequest
    <2>6. RegisteredOnce' /\ GreetedOnce'
      BY <2>1 DEF GreetingsInv, RegisteredOnce, GreetedOnce
    <2> QED BY <2>5, <2>6 DEF GreetingsInv
  <1> QED BY <1>1, <1>2 DEF ReaderStep

LEMMA ManagerGreetings ==
    ASSUME TypeOK, GreetingsInv, NEW m \in Conn, ManagerStep(m)
    PROVE  GreetingsInv'
  <1>1. CASE EventRegister(m)
    <2> DEFINE d == Head(registerCh)
    <2>1. registerCh # <<>> /\ registerCh' = Tail(registerCh) /\ mgr[m] = "select"
          /\ mgr' = [mgr EXCEPT ![m] = "greet"] /\ job' = [job EXCEPT ![m] = d]
          /\ UNCHANGED <<handler, reader, loginCh>>
      BY <1>1 DEF EventRegister, Busy, goroutines
    <2>2. 1 \in DOMAIN registerCh /\ d = registerCh[1] /\ d \in Conn
      BY <2>1 DEF TypeOK
    <2>3. ASSUME NEW i \in DOMAIN registerCh'
          PROVE  i + 1 \in DOMAIN registerCh /\ i + 1 # 1 /\ registerCh'[i] = registerCh[i + 1]
      BY <2>1, <2>3, TailEntries DEF TypeOK
    <2>4. \A i, j \in DOMAIN registerCh' : i + 1 = j + 1 => i = j
      BY <2>1 DEF TypeOK
    <2>5. mgr'[m] = "greet" /\ job'[m] = d
          /\ \A n \in Conn \ {m} : mgr'[n] = mgr[n] /\ job'[n] = job[n]
      BY <2>1 DEF TypeOK
    <2>6. RegisteredOnce'
      BY <2>1, <2>3, <2>4 DEF GreetingsInv, RegisteredOnce
    <2>7. handler[d] \in {"spawn", "done"} /\ \A i \in DOMAIN registerCh' : registerCh'[i] # d
      BY <2>2, <2>3 DEF GreetingsInv, RegisteredOnce
    <2>8. \A n \in Conn \ {m} : mgr[n] = "greet" => job[n] # d
      BY <2>2 DEF GreetingsInv, GreetedOnce
    <2>9. GreetedOnce'
      <3> HIDE DEF d
      <3> QED BY <2>1, <2>3, <2>5, <2>7, <2>8 DEF GreetingsInv, GreetedOnce
    <2>10. {e \in Conn : handler'[e] # "idle"} = {e \in Conn : handler[e] # "idle"}
      BY <2>1
    <2>11. LoopPerRequest'
      BY <2>1, <2>5, <2>10 DEF GreetingsInv, LoopPerRequest
    <2> QED BY <2>6, <2>9, <2>11 DEF GreetingsInv
  <1>2. CASE GreetPanics(m)
    BY <1>2, QuietKeeps DEF GreetPanics, Quiet, goroutines, queues, loops
  <1>3. CASE Greet(m) \/ AddUsers(m)
    <2>1. mgr[m] # "off" /\ Idle(m) /\ UNCHANGED <<handler, reader, registerCh, loginCh>>
      BY <1>3 DEF Greet, AddUsers, goroutines, queues
    <2>2. mgr' = [mgr EXCEPT ![m] = "select"] /\ \A n \in Conn \ {m} : job'[n] = job[n]
      BY <2>1 DEF TypeOK, Idle
    <2> QED BY <2>1, <2>2, LoopStepQuiet, QuietKeeps
  <1>4. CASE EventLogin(m)
    <2>1. mgr[m] = "select" /\ loginCh # <<>> /\ loginCh' = Tail(loginCh)
          /\ UNCHANGED <<handler, reader, registerCh>>
      BY <1>4 DEF EventLogin, goroutines
    <2>2. mgr' = [mgr EXCEPT ![m] = "bind"] \/ mgr' = [mgr EXCEPT ![m] = "select"]
      BY <1>4, <2>1 DEF TypeOK, EventLogin
    <2>3. \A n \in Conn \ {m} : job'[n] = job[n]
      BY <1>4 DEF TypeOK, EventLogin
    <2> QED BY <2>1, <2>2, <2>3, LoopStepQuiet, QuietKeeps
  <1>5. CASE EventUnregister(m)
    <2>1. mgr[m] = "select" /\ mgr' = [mgr EXCEPT ![m] = "unbind"]
          /\ (\A n \in Conn \ {m} : job'[n] = job[n])
          /\ UNCHANGED <<handler, reader, registerCh, loginCh>>
      BY <1>5 DEF TypeOK, EventUnregister, Busy, goroutines
    <2> QED BY <2>1, LoopStepQuiet, QuietKeeps
  <1>6. CASE DelUsers(m) \/ CloseSend(m)
    <2>1. mgr[m] \in {"unbind", "close"} /\ UNCHANGED <<handler, reader, registerCh, loginCh>>
      BY <1>6 DEF DelUsers, CloseSend, goroutines, queues
    <2>2. \/ Idle(m)
          \/ mgr' = [mgr EXCEPT ![m] = "close"] /\ UNCHANGED job
          \/ UNCHANGED <<mgr, job>>
      BY <1>6 DEF DelUsers, CloseSend, loops
    <2>3. \E pc \in {"select", "close", "unbind"} : mgr' = [mgr EXCEPT ![m] = pc]
      BY <2>1, <2>2 DEF TypeOK, Idle
    <2>4. \A n \in Conn \ {m} : job'[n] = job[n]
      BY <2>2 DEF TypeOK, Idle
    <2> QED BY <2>1, <2>3, <2>4, LoopStepQuiet, QuietKeeps
  <1>7. CASE EventBroadcast(m) \/ \E c \in Conn : BroadcastTo(m, c)
    <2>1. mgr[m] \in {"select", "broadcast"} /\ UNCHANGED <<handler, reader, registerCh, loginCh>>
          /\ UNCHANGED job
      BY <1>7 DEF EventBroadcast, BroadcastTo, goroutines, queues, loops
    <2>2. \E pc \in {"select", "broadcast"} : mgr' = [mgr EXCEPT ![m] = pc]
      BY <1>7, <2>1 DEF TypeOK, EventBroadcast, BroadcastTo, loops
    <2> QED BY <2>1, <2>2, LoopStepQuiet, QuietKeeps
  <1> QED BY <1>1, <1>2, <1>3, <1>4, <1>5, <1>6, <1>7 DEF ManagerStep

LEMMA GreetingsStep == ASSUME TypeOK, GreetingsInv, [Next]_vars PROVE GreetingsInv'
  <1>1. ASSUME NEW c \in Conn, WriterStep(c) \/ Outside(c) PROVE Quiet
    BY <1>1 DEF WriterStep, WriterTakes, WriterWrites, WriterStops, Outside, PeerStalls,
                PeerResumes, PeerLeaves, ClearTimeout, SubmitUnregister,
                Quiet, goroutines, queues, loops
  <1>2. ASSUME SubmitBroadcast \/ Rest \/ UNCHANGED vars PROVE Quiet
    BY <1>2 DEF SubmitBroadcast, Rest, vars, Quiet, goroutines, queues, loops
  <1> QED
    BY <1>1, <1>2, QuietKeeps, HandlerGreetings, ReaderGreetings, ManagerGreetings DEF Next

-----------------------------------------------------------------------------
(* The count.  When all loops that run are greeting, and no request is about *)
(* to start one, the clients they greet are as many as the loops, and all    *)
(* among the requests whose loop runs: each of these is being greeted.       *)

LEMMA AllGreeted ==
    ASSUME TypeOK, GreetingsInv, NEW c \in Conn, handler[c] = "done",
           \A m \in Conn : ~CanServe(m, c)
    PROVE  FALSE
  <1> DEFINE D == {m \in Conn : handler[m] = "done"}
             f == [m \in D |-> job[m]]
  <1>1. \A m \in D : mgr[m] = "greet" /\ job[m] # c
    BY DEF CanServe, TypeOK, GreetingsInv, LoopPerRequest
  <1>2. \A m \in D : job[m] \in D \ {c}
    <2>1. ASSUME NEW m \in D PROVE job[m] \in Conn /\ handler[job[m]] \in {"spawn", "done"}
      BY <1>1 DEF TypeOK, GreetingsInv, GreetedOnce
    <2>2. \A m \in Conn : handler[m] # "spawn"
      BY DEF CanServe
    <2> QED BY <1>1, <2>1, <2>2
  <1>3. \A m, n \in D : f[m] = f[n] => m = n
    BY <1>1 DEF GreetingsInv, GreetedOnce
  <1>4. f \in [D -> D \ {c}]
    BY <1>2
  <1>5. IsFiniteSet(D)
    <2>1. D \in SUBSET {d \in Conn : handler[d] # "idle"}
      OBVIOUS
    <2> QED BY <2>1, FS_Subset DEF GreetingsInv, LoopPerRequest
  <1>6. c \in D
    OBVIOUS
  <1>7. IsFiniteSet(D \ {c}) /\ Cardinality(D \ {c}) = Cardinality(D) - 1 /\ Cardinality(D) \in Nat
    BY <1>5, <1>6, FS_RemoveElement, FS_CardinalityType
  <1> HIDE DEF D, f
  <1>8. \E m, n \in D : m # n /\ f[m] = f[n]
    BY <1>4, <1>5, <1>7, FS_PigeonHole
  <1> QED BY <1>3, <1>8

LEMMA LoopLeftForAll == ASSUME TypeOK, GreetingsInv PROVE LoopLeft
  <1>1. ASSUME NEW i \in DOMAIN registerCh PROVE \E m \in Conn : CanServe(m, registerCh[i])
    <2>1. registerCh[i] \in Conn /\ handler[registerCh[i]] \in {"spawn", "done"}
      BY DEF TypeOK, GreetingsInv, RegisteredOnce
    <2>2. CASE handler[registerCh[i]] = "spawn"
      BY <2>1, <2>2 DEF CanServe
    <2>3. CASE handler[registerCh[i]] = "done"
      BY <2>1, <2>3, AllGreeted
    <2> QED BY <2>1, <2>2, <2>3
  <1>2. ASSUME NEW i \in DOMAIN loginCh, \A m \in Conn : ~CanServe(m, loginCh[i].client)
        PROVE  handler[loginCh[i].client] = "register" /\ registerCh = <<>>
    <2> DEFINE c == loginCh[i].client
    <2>1. c \in Conn
      <3>1. loginCh[i] \in LoginRecord
        BY DEF TypeOK
      <3> QED BY <3>1 DEF LoginRecord
    <2>2. handler[c] \notin {"idle", "spawn", "done"}
      BY <1>2, <2>1, AllGreeted DEF GreetingsInv, LoopPerRequest, CanServe
    <2>3. handler[c] = "register"
      BY <2>1, <2>2 DEF TypeOK
    <2>4. ASSUME registerCh # <<>> PROVE FALSE
      \* The first client in Register would be greeted by nobody, and c is
      \* greeted by nobody either, since its request is still to register.
      <3>1. 1 \in DOMAIN registerCh /\ registerCh[1] \in Conn
        BY <2>4 DEF TypeOK
      <3>2. PICK m \in Conn : CanServe(m, registerCh[1])
        BY <1>1, <3>1
      <3>3. mgr[m] = "greet" /\ job[m] = registerCh[1]
        BY <1>2, <3>2 DEF CanServe
      <3> QED BY <3>1, <3>3 DEF GreetingsInv, GreetedOnce
    <2> QED BY <2>3, <2>4
  <1> QED BY <1>1, <1>2 DEF LoopLeft

\* However many peers keep loops waiting in their greetings, every registration
\* and every login in the channels has a loop that is free to take it.
THEOREM LoopsSuffice == Spec => []LoopLeft
  <1>1. Init => TypeOK /\ GreetingsInv
    BY TypeInit, GreetingsInit
  <1>2. TypeOK /\ GreetingsInv /\ [Next]_vars => (TypeOK /\ GreetingsInv)'
    BY TypeStep, GreetingsStep
  <1>3. TypeOK /\ GreetingsInv => LoopLeft
    BY LoopLeftForAll
  <1> QED BY <1>1, <1>2, <1>3, PTL DEF Spec

-----------------------------------------------------------------------------
(* The hub implements Presence *)

LEMMA PresenceInit == Init => P!Init
  <1> SUFFICES ASSUME Init PROVE P!Init
    OBVIOUS
  <1>1. Working("bind") = {} /\ Working("unbind") = {}
    BY DEF Init, Working
  <1> QED BY <1>1 DEF Init, P!Init

LEMMA WorkKept == ASSUME UNCHANGED <<mgr, job>>, NEW pc PROVE Working(pc)' = Working(pc)
  BY DEF Working

\* What one loop's step makes of the clients for which loops are at pc: another
\* loop may be there for the client that this one has finished with.
LEMMA WorkSteps ==
    ASSUME NEW m \in Conn, \A n \in Conn \ {m} : mgr'[n] = mgr[n] /\ job'[n] = job[n], NEW pc
    PROVE  /\ mgr[m] # pc /\ mgr'[m] # pc => Working(pc)' = Working(pc)
           /\ mgr[m] # pc /\ mgr'[m] = pc => Working(pc)' = Working(pc) \cup {job'[m]}
           /\ mgr[m] = pc /\ mgr'[m] # pc => Working(pc)' \in P!Done(Working(pc), job[m])
  <1> DEFINE Others == {job[n] : n \in {n \in Conn \ {m} : mgr[n] = pc}}
  <1>1. Working(pc) = Others \cup (IF mgr[m] = pc THEN {job[m]} ELSE {})
    BY DEF Working
  <1>2. Working(pc)' = Others \cup (IF mgr'[m] = pc THEN {job'[m]} ELSE {})
    BY DEF Working
  <1> HIDE DEF Others
  <1>3. Others = Others \cup {job[m]} \/ Others = (Others \cup {job[m]}) \ {job[m]}
    OBVIOUS
  <1> QED BY <1>1, <1>2, <1>3 DEF P!Done

\* A loop that is not and does not come to be between two locks
LEMMA WorkElsewhere ==
    ASSUME TypeOK, NEW m \in Conn, mgr[m] \notin {"bind", "unbind"},
           NEW pc, pc \notin {"bind", "unbind"}, mgr' = [mgr EXCEPT ![m] = pc],
           \A n \in Conn \ {m} : job'[n] = job[n]
    PROVE  Working("bind")' = Working("bind") /\ Working("unbind")' = Working("unbind")
  <1>1. mgr'[m] = pc /\ \A n \in Conn \ {m} : mgr'[n] = mgr[n] /\ job'[n] = job[n]
    BY DEF TypeOK
  <1> QED BY <1>1, WorkSteps

\* Why nobody is disconnected while nobody unregisters.
Steady == ~Unregistering => HubInv

Unseen == UNCHANGED <<Clients, key, Users, Working("bind"), Working("unbind")>>

LEMMA LoopPresence ==
    ASSUME TypeOK, NamesInv, Steady, NEW m \in Conn, ManagerStep(m)
    PROVE  P!Next \/ Unseen
  <1>1. CASE EventRegister(m)
    <2>1. Head(registerCh) \in Conn
      BY <1>1, QueueSteps DEF TypeOK, EventRegister
    <2>2. Working("bind")' = Working("bind") /\ Working("unbind")' = Working("unbind")
      BY <1>1, WorkElsewhere DEF TypeOK, EventRegister, Busy
    <2>3. P!Connect(Head(registerCh))
      BY <1>1, <2>2 DEF EventRegister, P!Connect
    <2> QED BY <2>1, <2>3 DEF P!Next
  <1>2. CASE Greet(m) \/ (CloseSend(m) /\ ~closed[job[m]])
    <2>1. mgr[m] \in {"greet", "close"} /\ Idle(m) /\ UNCHANGED <<Clients, key, Users>>
      BY <1>2 DEF Greet, CloseSend, registry
    <2>2. mgr' = [mgr EXCEPT ![m] = "select"] /\ \A n \in Conn \ {m} : job'[n] = job[n]
      BY <2>1 DEF TypeOK, Idle
    <2>3. Working("bind")' = Working("bind") /\ Working("unbind")' = Working("unbind")
      BY <2>1, <2>2, WorkElsewhere
    <2> QED BY <2>1, <2>3 DEF Unseen
  <1>3. CASE GreetPanics(m) \/ (CloseSend(m) /\ closed[job[m]])
    BY <1>3, WorkKept DEF GreetPanics, CloseSend, registry, loops, Unseen
  <1>4. CASE EventLogin(m)
    <2> DEFINE l == Head(loginCh)
    <2>1. mgr[m] = "select" /\ UNCHANGED <<Clients, key, Users>>
      BY <1>4 DEF EventLogin, registry
    <2>2. CASE l.client \in Clients
      <3>1. mgr' = [mgr EXCEPT ![m] = "bind"] /\ job' = [job EXCEPT ![m] = l.client]
        BY <1>4, <2>2 DEF EventLogin
      <3>2. mgr'[m] = "bind" /\ job'[m] = l.client
            /\ \A n \in Conn \ {m} : mgr'[n] = mgr[n] /\ job'[n] = job[n]
        BY <3>1 DEF TypeOK
      <3>3. Working("bind")' = Working("bind") \cup {l.client}
            /\ Working("unbind")' = Working("unbind")
        BY <2>1, <3>2, WorkSteps
      <3>4. l \in LoginRecord /\ key[l.client] = l.key
        BY <1>4, QueueSteps, TailGenuine DEF TypeOK, EventLogin, NamesInv
      <3>5. l.client \in Conn /\ key[l.client] # NoKey
        BY <3>4 DEF LoginRecord
      <3>6. P!Admit(l.client)
        BY <2>1, <2>2, <3>3, <3>5 DEF P!Admit
      <3> QED BY <3>5, <3>6 DEF P!Next
    <2>3. CASE l.client \notin Clients
      BY <1>4, <2>1, <2>3, WorkKept DEF EventLogin, Unseen
    <2> QED BY <2>2, <2>3
  <1>5. CASE AddUsers(m)
    <2>1. mgr[m] = "bind" /\ mgr'[m] = "select"
          /\ \A n \in Conn \ {m} : mgr'[n] = mgr[n] /\ job'[n] = job[n]
      BY <1>5 DEF TypeOK, AddUsers, Idle
    <2>2. Working("bind")' \in P!Done(Working("bind"), job[m])
          /\ Working("unbind")' = Working("unbind")
      BY <2>1, WorkSteps
    <2>3. job[m] \in Conn /\ job[m] \in Working("bind") /\ key[job[m]] = jobKey[m]
      BY <2>1 DEF TypeOK, NamesInv, BindsNamed, Working
    <2>4. P!Announce(job[m])
      BY <1>5, <2>2, <2>3 DEF AddUsers, P!Announce
    <2> QED BY <2>3, <2>4 DEF P!Next
  <1>6. CASE EventUnregister(m)
    <2>1. Unregistering
      BY <1>6, FeedAssumption DEF EventUnregister, Steady, HubInv, NobodyUnregisters
    <2>2. Head(unregisterCh) \in Conn
      BY <1>6, QueueSteps DEF TypeOK, EventUnregister
    <2>3. mgr[m] = "select" /\ mgr'[m] = "unbind" /\ job'[m] = Head(unregisterCh)
          /\ \A n \in Conn \ {m} : mgr'[n] = mgr[n] /\ job'[n] = job[n]
      BY <1>6 DEF TypeOK, EventUnregister, Busy
    <2>4. Working("unbind")' = Working("unbind") \cup {Head(unregisterCh)}
          /\ Working("bind")' = Working("bind")
      BY <2>3, WorkSteps
    <2>5. P!Disconnect(Head(unregisterCh))
      BY <1>6, <2>1, <2>4 DEF EventUnregister, P!Disconnect
    <2> QED BY <2>2, <2>5 DEF P!Next
  <1>7. CASE DelUsers(m) /\ UNCHANGED loops
    <2>1. UNCHANGED <<Clients, key, mgr, job>> /\ Users' = Users
      BY <1>7 DEF DelUsers, Idle, loops, TypeOK
    <2> QED BY <2>1, WorkKept DEF Unseen
  <1>8. CASE DelUsers(m) /\ ~UNCHANGED loops
    <2>1. PICK k \in KeysRead(job[m]) :
            \/ k # NoKey /\ Users[k] # NoClient /\ Users' = [Users EXCEPT ![k] = NoClient]
            \/ Users' = Users
      BY <1>8 DEF DelUsers
    <2>2. mgr[m] = "unbind" /\ UNCHANGED <<Clients, key>>
          /\ (Idle(m) \/ (mgr' = [mgr EXCEPT ![m] = "close"] /\ UNCHANGED job))
      BY <1>8 DEF DelUsers
    <2>3. mgr'[m] \in {"select", "close"}
          /\ \A n \in Conn \ {m} : mgr'[n] = mgr[n] /\ job'[n] = job[n]
      BY <2>2 DEF TypeOK, Idle
    <2>4. Working("unbind")' \in P!Done(Working("unbind"), job[m])
          /\ Working("bind")' = Working("bind")
      BY <2>2, <2>3, WorkSteps
    <2>5. job[m] \in Conn /\ job[m] \in Working("unbind")
      BY <2>2 DEF TypeOK, Working
    <2>6. k # NoKey => k = key[job[m]]
      BY <2>1 DEF KeysRead
    <2>7. P!Withdraw(job[m])
      BY <2>1, <2>2, <2>4, <2>5, <2>6 DEF P!Withdraw
    <2> QED BY <2>5, <2>7 DEF P!Next
  <1>9. CASE EventBroadcast(m) \/ \E c \in Conn : BroadcastTo(m, c)
    <2>1. mgr[m] \in {"select", "broadcast"} /\ UNCHANGED <<Clients, key, Users, job>>
          /\ (mgr' = mgr \/ \E pc \in {"select", "broadcast"} : mgr' = [mgr EXCEPT ![m] = pc])
      BY <1>9 DEF EventBroadcast, BroadcastTo, registry, loops
    <2> QED BY <2>1, WorkKept, WorkElsewhere DEF Unseen
  <1> QED BY <1>1, <1>2, <1>3, <1>4, <1>5, <1>6, <1>7, <1>8, <1>9 DEF ManagerStep

\* Six steps are visible: EventRegister is Connect, Authenticate is Identify,
\* EventLogin is Admit when InClient finds the client, AddUsers is Announce,
\* EventUnregister is Disconnect and DelUsers is Withdraw.
LEMMA PresenceStep ==
    ASSUME TypeOK, NamesInv, Steady, GreetingsInv, [Next]_vars
    PROVE  [P!Next]_P!vars
  <1>1. ASSUME NEW c \in Conn, HandlerStep(c) PROVE Unseen
    <2>1. CASE Upgrade(c) \/ UpgradeFails(c) \/ SubmitRegister(c)
      BY <2>1, WorkKept DEF Upgrade, UpgradeFails, SubmitRegister, registry, loops, Unseen
    <2>2. CASE StartManager(c)
      <3>1. mgr[c] = "off"
        BY <2>2 DEF StartManager, GreetingsInv, LoopPerRequest
      <3>2. mgr' = [mgr EXCEPT ![c] = "select"] /\ UNCHANGED <<Clients, key, Users, job>>
        BY <2>2 DEF StartManager, registry
      <3> QED BY <3>1, <3>2, WorkElsewhere DEF Unseen
    <2> QED BY <1>1, <2>1, <2>2 DEF HandlerStep
  <1>2. ASSUME NEW c \in Conn, ReaderStep(c) PROVE P!Next \/ Unseen
    <2>1. UNCHANGED <<mgr, job, Clients, Users>>
      BY <1>2 DEF ReaderStep, ReadRequest, Authenticate, SubmitLogin, Reply, MarshalFails,
                  ReaderFails, registry, loops
    <2>2. ASSUME NEW k \in UserKey, Authenticate(c, k) PROVE P!Identify(c, k)
      BY <2>1, <2>2, WorkKept DEF Authenticate, P!Identify
    <2>3. CASE ReadRequest(c) \/ SubmitLogin(c) \/ Reply(c) \/ MarshalFails(c) \/ ReaderFails(c)
      BY <2>1, <2>3, WorkKept
         DEF ReadRequest, SubmitLogin, Reply, MarshalFails, ReaderFails, Unseen
    <2> QED BY <1>2, <2>2, <2>3 DEF ReaderStep, P!Next
  <1>3. ASSUME NEW c \in Conn, WriterStep(c) \/ Outside(c) PROVE Unseen
    BY <1>3, WorkKept
       DEF WriterStep, WriterTakes, WriterWrites, WriterStops, Outside, PeerStalls, PeerResumes,
           PeerLeaves, ClearTimeout, SubmitUnregister, registry, loops, Unseen
  <1>4. ASSUME SubmitBroadcast \/ Rest \/ UNCHANGED vars PROVE Unseen
    BY <1>4, WorkKept DEF SubmitBroadcast, Rest, vars, registry, loops, Unseen
  <1>5. P!Next \/ Unseen
    BY <1>1, <1>2, <1>3, <1>4, LoopPresence DEF Next
  <1> QED BY <1>5 DEF P!vars, Unseen

\* Through Clients, the logins, Users and the work of the loops, the hub shows a
\* Presence behaviour, whether or not somebody unregisters connections.
THEOREM ImplementsPresence == Spec => Presence
  <1> DEFINE Inv == TypeOK /\ NamesInv /\ Steady /\ GreetingsInv
  <1>1. Init => Inv /\ P!Init
    BY TypeInit, NamesInit, HubInit, GreetingsInit, PresenceInit DEF Steady
  <1>2. Inv /\ [Next]_vars => Inv'
    BY TypeStep, NamesStep, HubStep, GreetingsStep DEF Steady
  <1>3. Inv /\ [Next]_vars => [P!Next]_P!vars
    BY PresenceStep
  <1> QED BY <1>1, <1>2, <1>3, PTL DEF Spec, Presence, P!Spec

-----------------------------------------------------------------------------
(* Addresses *)

LEMMA AddrsInit == Init => AddrsDiffer
  BY DEF Init, AddrsDiffer, Open

LEMMA AddrsKept ==
    ASSUME AddrsDiffer, UNCHANGED addr, \A c \in Conn : Open(c)' => Open(c)
    PROVE  AddrsDiffer'
  BY DEF AddrsDiffer

LEMMA AddrsStep == ASSUME TypeOK, AddrsDiffer, [Next]_vars PROVE AddrsDiffer'
  <1>1. ASSUME NEW c \in Conn, Upgrade(c) PROVE AddrsDiffer'
    <2>1. PICK a \in Addrs[c] : /\ \A d \in Conn : addr[d] = a => conn[d] = "down"
                                /\ addr' = [addr EXCEPT ![c] = a]
      BY <1>1 DEF Upgrade
    <2>2. \A d \in Conn \ {c} : conn'[d] = conn[d] /\ addr'[d] = addr[d]
      BY <1>1, <2>1 DEF Upgrade, TypeOK
    <2>3. addr'[c] = a
      BY <2>1 DEF TypeOK
    <2> QED BY <2>1, <2>2, <2>3 DEF AddrsDiffer, Open
  <1>2. ASSUME NEW c \in Conn, Outside(c) PROVE AddrsDiffer'
    <2>1. addr' = addr /\ \A d \in Conn \ {c} : conn'[d] = conn[d]
      BY <1>2 DEF Outside, PeerStalls, PeerResumes, PeerLeaves, ClearTimeout, SubmitUnregister,
                  TypeOK
    <2>2. Open(c)' => Open(c)
      BY <1>2 DEF Outside, PeerStalls, PeerResumes, PeerLeaves, ClearTimeout, SubmitUnregister,
                  TypeOK, Open
    <2> QED BY <2>1, <2>2, AddrsKept DEF Open
  <1>3. ASSUME NEW c \in Conn, HandlerStep(c) \/ ReaderStep(c) \/ WriterStep(c), ~Upgrade(c)
        PROVE  UNCHANGED <<conn, addr>>
    BY <1>3 DEF HandlerStep, UpgradeFails, SubmitRegister, StartManager,
                ReaderStep, ReadRequest, Authenticate, SubmitLogin, Reply, MarshalFails, ReaderFails,
                WriterStep, WriterTakes, WriterWrites, WriterStops
  <1>4. ASSUME NEW m \in Conn, ManagerStep(m) PROVE UNCHANGED <<conn, addr>>
    BY <1>4 DEF ManagerStep, EventRegister, Greet, GreetPanics, EventLogin, AddUsers,
                EventUnregister, DelUsers, CloseSend, EventBroadcast, BroadcastTo
  <1>5. ASSUME SubmitBroadcast \/ Rest \/ UNCHANGED vars PROVE UNCHANGED <<conn, addr>>
    BY <1>5 DEF SubmitBroadcast, Rest, vars
  <1>6. CASE UNCHANGED <<conn, addr>>
    BY <1>6, AddrsKept DEF Open
  <1> QED BY <1>1, <1>2, <1>3, <1>4, <1>5, <1>6 DEF Next

\* Peers that are connected at the same time have different addresses.
LEMMA AddrsAreDifferent == Spec => [](TypeOK /\ AddrsDiffer)
  BY TypeInit, TypeStep, AddrsInit, AddrsStep, PTL DEF Spec

LEMMA UnbindStep ==
    ASSUME TypeOK, AddrsDiffer, [Next]_vars,
           NEW k \in UserKey, Users[k] # NoClient, Users'[k] = NoClient
    PROVE  \E m \in Conn : /\ mgr[m] = "unbind"
                           /\ job[m] # Users[k] => ~(Open(job[m]) /\ Open(Users[k]))
  <1>1. ASSUME NEW m \in Conn, AddUsers(m) PROVE FALSE
    <2>1. Users' = [Users EXCEPT ![jobKey[m]] = job[m]] /\ job[m] # NoClient
      BY <1>1 DEF AddUsers, TypeOK
    <2> QED BY <2>1 DEF TypeOK
  <1>2. ASSUME NEW m \in Conn, DelUsers(m)
        PROVE  mgr[m] = "unbind" /\ (job[m] # Users[k] => ~(Open(job[m]) /\ Open(Users[k])))
    <2>1. PICK j : \/ Users' = Users
                   \/ addr[Users[j]] = addr[job[m]] /\ Users' = [Users EXCEPT ![j] = NoClient]
      BY <1>2 DEF DelUsers
    <2>2. addr[Users[k]] = addr[job[m]]
      BY <2>1 DEF TypeOK
    <2>3. mgr[m] = "unbind" /\ job[m] \in Conn /\ Users[k] \in Conn
      BY <1>2 DEF DelUsers, TypeOK
    <2> QED BY <2>2, <2>3 DEF AddrsDiffer
  <1>3. ASSUME NEW m \in Conn, ManagerStep(m), ~AddUsers(m), ~DelUsers(m) PROVE Users' = Users
    BY <1>3 DEF ManagerStep, EventRegister, Greet, GreetPanics, EventLogin, EventUnregister,
                CloseSend, EventBroadcast, BroadcastTo, registry
  <1>4. ASSUME NEW c \in Conn, HandlerStep(c) \/ ReaderStep(c) PROVE Users' = Users
    BY <1>4 DEF HandlerStep, Upgrade, UpgradeFails, SubmitRegister, StartManager, registry,
                ReaderStep, ReadRequest, Authenticate, SubmitLogin, Reply, MarshalFails, ReaderFails
  <1>5. ASSUME NEW c \in Conn, WriterStep(c) \/ Outside(c) PROVE Users' = Users
    BY <1>5 DEF WriterStep, WriterTakes, WriterWrites, WriterStops, registry, Outside,
                PeerStalls, PeerResumes, PeerLeaves, ClearTimeout, SubmitUnregister
  <1>6. ASSUME SubmitBroadcast \/ Rest \/ UNCHANGED vars PROVE Users' = Users
    BY <1>6 DEF SubmitBroadcast, Rest, vars, registry
  <1> QED BY <1>1, <1>2, <1>3, <1>4, <1>5, <1>6 DEF Next

\* Of two open connections, neither takes the user of the other one offline, with
\* or without unregistrations and broadcasts, though only addresses are compared.
THEOREM OpenUsersAreKept == Spec => OpenUsersKept
  <1>1. TypeOK /\ AddrsDiffer /\ [Next]_vars =>
            [\A k \in UserKey :
                Users[k] # NoClient /\ Users'[k] = NoClient =>
                    \E m \in Conn :
                        /\ mgr[m] = "unbind"
                        /\ job[m] # Users[k] => ~(Open(job[m]) /\ Open(Users[k]))]_vars
    BY UnbindStep
  <1> QED BY <1>1, AddrsAreDifferent, PTL DEF Spec, OpenUsersKept

-----------------------------------------------------------------------------
(* A logged-in client whose user is out of Users stays out of it.            *)

LEMMA StaysUnreachable ==
    ASSUME TypeOK, NEW c \in Conn, Unreachable(c),
           key'[c] = key[c], reader'[c] # "login",
           \A i \in DOMAIN loginCh' : loginCh'[i].client # c,
           \A m \in Conn : ~(mgr'[m] = "bind" /\ job'[m] = c),
           \A k \in UserKey : Users'[k] # c
    PROVE  Unreachable(c)'
  BY DEF Unreachable, Decided

LEMMA ReaderUnreachable ==
    ASSUME TypeOK, NEW c \in Conn, Unreachable(c), NEW d \in Conn, ReaderStep(d)
    PROVE  Unreachable(c)'
  <1>1. UNCHANGED <<Users, mgr, job>>
    BY DEF ReaderStep, ReadRequest, Authenticate, SubmitLogin, Reply, MarshalFails, ReaderFails, registry, loops
  <1>2. key'[c] = key[c] /\ reader'[c] # "login"
    <2>1. CASE \E k \in UserKey : Authenticate(d, k)
      <3>1. d # c
        BY <2>1 DEF Authenticate, Unreachable
      <3> QED BY <2>1, <3>1 DEF TypeOK, Authenticate, Unreachable, Decided
    <2>2. CASE ReadRequest(d) \/ SubmitLogin(d) \/ Reply(d) \/ MarshalFails(d) \/ ReaderFails(d)
      BY <2>2 DEF TypeOK, ReadRequest, SubmitLogin, Reply, MarshalFails, ReaderFails, Unreachable, Decided
    <2> QED BY <2>1, <2>2 DEF ReaderStep
  <1>3. ASSUME NEW i \in DOMAIN loginCh' PROVE loginCh'[i].client # c
    <2>1. CASE loginCh' = loginCh
      BY <1>3, <2>1 DEF Unreachable, Decided
    <2>2. CASE SubmitLogin(d)
      <3>1. d # c /\ loginCh' = Append(loginCh, [client |-> d, key |-> key[d]])
        BY <2>2 DEF SubmitLogin, Unreachable, Decided
      <3>2. \/ i \in DOMAIN loginCh /\ loginCh'[i] = loginCh[i]
            \/ loginCh'[i] = [client |-> d, key |-> key[d]]
        BY <1>3, <3>1, AppendEntries DEF TypeOK
      <3> QED BY <3>1, <3>2 DEF Unreachable, Decided
    <2>3. loginCh' = loginCh \/ SubmitLogin(d)
      BY DEF ReaderStep, ReadRequest, Authenticate, Reply, MarshalFails, ReaderFails, queues
    <2> QED BY <2>1, <2>2, <2>3
  <1> QED BY <1>1, <1>2, <1>3, StaysUnreachable DEF Unreachable, Decided

\* A loop that neither looks up a login nor stores one.
LEMMA LoopUnreachable ==
    ASSUME TypeOK, NEW c \in Conn, Unreachable(c), NEW m \in Conn,
           UNCHANGED <<key, reader, loginCh>>,
           mgr'[m] # "bind" \/ UNCHANGED <<mgr, job>>,
           \A n \in Conn \ {m} : mgr'[n] = mgr[n] /\ job'[n] = job[n],
           \A k \in UserKey : Users'[k] \in {Users[k], NoClient}
    PROVE  Unreachable(c)'
  BY StaysUnreachable DEF Unreachable, Decided

LEMMA ManagerUnreachable ==
    ASSUME TypeOK, NEW c \in Conn, Unreachable(c), NEW m \in Conn, ManagerStep(m)
    PROVE  Unreachable(c)'
  <1>1. CASE EventLogin(m)
    <2>1. UNCHANGED <<key, reader, Users>> /\ loginCh # <<>> /\ loginCh' = Tail(loginCh)
      BY <1>1 DEF EventLogin, goroutines, registry
    <2>2. Head(loginCh).client # c
      <3>1. 1 \in DOMAIN loginCh /\ Head(loginCh) = loginCh[1]
        BY <2>1 DEF TypeOK
      <3> QED BY <3>1 DEF Unreachable, Decided
    <2>3. ASSUME NEW i \in DOMAIN loginCh' PROVE loginCh'[i].client # c
      <3>1. i + 1 \in DOMAIN loginCh /\ loginCh'[i] = loginCh[i + 1]
        BY <2>1, <2>3, TailEntries DEF TypeOK
      <3> QED BY <3>1 DEF Unreachable, Decided
    <2>4. \/ UNCHANGED <<mgr, job>>
          \/ /\ job'[m] = Head(loginCh).client
             /\ \A n \in Conn \ {m} : mgr'[n] = mgr[n] /\ job'[n] = job[n]
      BY <1>1 DEF TypeOK, EventLogin
    <2>5. \A n \in Conn : ~(mgr'[n] = "bind" /\ job'[n] = c)
      BY <2>2, <2>4 DEF Unreachable, Decided
    <2> QED BY <2>1, <2>3, <2>5, StaysUnreachable DEF Unreachable, Decided
  <1>2. CASE AddUsers(m)
    <2>1. job[m] # c /\ Users' = [Users EXCEPT ![jobKey[m]] = job[m]]
      BY <1>2 DEF AddUsers, Unreachable, Decided
    <2>2. \A k \in UserKey : Users'[k] # c
      BY <2>1 DEF TypeOK, Unreachable
    <2>3. UNCHANGED <<key, reader, loginCh>> /\ Idle(m)
      BY <1>2 DEF AddUsers, goroutines, queues
    <2>4. \A n \in Conn : ~(mgr'[n] = "bind" /\ job'[n] = c)
      BY <2>3 DEF TypeOK, Idle, Unreachable, Decided
    <2> QED BY <2>2, <2>3, <2>4, StaysUnreachable DEF Unreachable, Decided
  <1>3. CASE DelUsers(m)
    <2>1. UNCHANGED <<key, reader, loginCh>>
      BY <1>3 DEF DelUsers, goroutines, queues
    <2>2. \A k \in UserKey : Users'[k] \in {Users[k], NoClient}
      BY <1>3 DEF DelUsers, TypeOK
    <2>3. \/ Idle(m)
          \/ mgr' = [mgr EXCEPT ![m] = "close"] /\ UNCHANGED job
          \/ UNCHANGED <<mgr, job>>
      BY <1>3 DEF DelUsers, loops
    <2>4. (mgr'[m] # "bind" \/ UNCHANGED <<mgr, job>>)
          /\ \A n \in Conn \ {m} : mgr'[n] = mgr[n] /\ job'[n] = job[n]
      BY <2>3 DEF TypeOK, Idle
    <2> QED BY <2>1, <2>2, <2>4, LoopUnreachable
  <1>4. CASE EventRegister(m) \/ EventUnregister(m)
    <2>1. UNCHANGED <<key, reader, loginCh, Users>>
      BY <1>4 DEF EventRegister, EventUnregister, goroutines
    <2>2. mgr'[m] # "bind" /\ \A n \in Conn \ {m} : mgr'[n] = mgr[n] /\ job'[n] = job[n]
      BY <1>4 DEF EventRegister, EventUnregister, Busy, TypeOK
    <2> QED BY <2>1, <2>2, LoopUnreachable
  <1>5. CASE Greet(m) \/ GreetPanics(m) \/ CloseSend(m)
    <2>1. UNCHANGED <<key, reader, loginCh, Users>> /\ (Idle(m) \/ UNCHANGED <<mgr, job>>)
      BY <1>5 DEF Greet, GreetPanics, CloseSend, goroutines, queues, registry, loops
    <2>2. (mgr'[m] # "bind" \/ UNCHANGED <<mgr, job>>)
          /\ \A n \in Conn \ {m} : mgr'[n] = mgr[n] /\ job'[n] = job[n]
      BY <2>1 DEF TypeOK, Idle
    <2> QED BY <2>1, <2>2, LoopUnreachable
  <1>6. CASE EventBroadcast(m) \/ \E d \in Conn : BroadcastTo(m, d)
    <2>1. UNCHANGED <<key, reader, loginCh, Users, job>>
      BY <1>6 DEF EventBroadcast, BroadcastTo, goroutines, queues, registry, loops
    <2>2. mgr' = mgr \/ \E pc \in {"select", "broadcast"} : mgr' = [mgr EXCEPT ![m] = pc]
      BY <1>6 DEF EventBroadcast, BroadcastTo, loops
    <2>3. (mgr'[m] # "bind" \/ UNCHANGED <<mgr, job>>)
          /\ \A n \in Conn \ {m} : mgr'[n] = mgr[n]
      BY <2>1, <2>2 DEF TypeOK
    <2> QED BY <2>1, <2>3, LoopUnreachable
  <1> QED BY <1>1, <1>2, <1>3, <1>4, <1>5, <1>6 DEF ManagerStep

LEMMA UnreachableStep ==
    ASSUME TypeOK, [Next]_vars, NEW c \in Conn, Unreachable(c)
    PROVE  Unreachable(c)'
  <1>1. ASSUME NEW d \in Conn, HandlerStep(d) PROVE Unreachable(c)'
    <2>1. CASE StartManager(d)
      <3>1. UNCHANGED <<key, reader, loginCh, Users, job>> /\ mgr' = [mgr EXCEPT ![d] = "select"]
        BY <2>1 DEF StartManager, queues, registry
      <3>2. mgr'[d] # "bind" /\ \A n \in Conn \ {d} : mgr'[n] = mgr[n]
        BY <3>1 DEF TypeOK
      <3> QED BY <3>1, <3>2, LoopUnreachable
    <2>2. CASE Upgrade(d) \/ UpgradeFails(d) \/ SubmitRegister(d)
      <3>1. UNCHANGED <<key, loginCh, Users, mgr, job>> /\ reader'[c] # "login"
        BY <2>2 DEF TypeOK, Upgrade, UpgradeFails, SubmitRegister, queues, registry, loops,
                    Unreachable, Decided
      <3> QED BY <3>1 DEF Unreachable, Decided
    <2> QED BY <1>1, <2>1, <2>2 DEF HandlerStep
  <1>2. ASSUME NEW d \in Conn, WriterStep(d) \/ Outside(d) PROVE Unreachable(c)'
    <2>1. UNCHANGED <<key, reader, loginCh, Users, mgr, job>>
      BY <1>2 DEF WriterStep, WriterTakes, WriterWrites, WriterStops, Outside, PeerStalls,
                  PeerResumes, PeerLeaves, ClearTimeout, SubmitUnregister,
                  goroutines, queues, registry, loops
    <2> QED BY <2>1 DEF Unreachable, Decided
  <1>3. ASSUME SubmitBroadcast \/ Rest \/ UNCHANGED vars PROVE Unreachable(c)'
    <2>1. UNCHANGED <<key, reader, loginCh, Users, mgr, job>>
      BY <1>3 DEF SubmitBroadcast, Rest, vars, goroutines, queues, registry, loops
    <2> QED BY <2>1 DEF Unreachable, Decided
  <1> QED BY <1>1, <1>2, <1>3, ReaderUnreachable, ManagerUnreachable DEF Next

\* With or without unregistrations, a client that is logged in and whose user
\* is not listed, because its login overtook its registration or because it was
\* unregistered, is never listed again: it cannot log in a second time.
THEOREM UnreachableIsFinal == Spec => UnreachableForGood
  <1>1. TypeOK /\ [Next]_vars => [\A c \in Conn : Unreachable(c) => Unreachable(c)']_vars
    BY UnreachableStep
  <1> QED BY <1>1, TypeInit, TypeStep, PTL DEF Spec, UnreachableForGood

-----------------------------------------------------------------------------
(* Nobody is held up.  First SendInv: each step changes at most one of the   *)
(* connections, and a connection once made is remembered.                    *)

LEMMA SendInit == Init => SendInv /\ NoneLost
  <1> SUFFICES ASSUME Init PROVE SendInv /\ NoneLost
    OBVIOUS
  <1>1. \A c \in Conn : Drained(c)
    BY DEF Init, Drained
  <1>2. Connected
    BY DEF Init, Connected
  <1>3. NoneLost
    BY DEF Init, NoneLost
  <1> QED BY <1>1, <1>2, <1>3 DEF SendInv

sides == <<conn, reader, writer, closed, queued>>

\* A step that leaves all connections but d alone
LEMMA OneDrained ==
    ASSUME SendInv, NEW d \in Conn, Drained(d)',
           \A c \in Conn \ {d} :
              /\ conn'[c] = conn[c] /\ reader'[c] = reader[c] /\ writer'[c] = writer[c]
              /\ closed'[c] = closed[c] /\ queued'[c] = queued[c]
    PROVE  \A c \in Conn : Drained(c)'
  BY DEF SendInv, Drained

LEMMA DrainedKept == ASSUME SendInv, UNCHANGED sides PROVE \A c \in Conn : Drained(c)'
  BY DEF SendInv, Drained, sides

\* A message is put into the Send of a connection that somebody empties.
LEMMA DrainedFed ==
    ASSUME TypeOK, SendInv, NEW d \in Conn, conn[d] # "none", ~closed[d],
           queued' = [queued EXCEPT ![d] = @ + 1], UNCHANGED <<conn, reader, writer, closed>>
    PROVE  \A c \in Conn : Drained(c)'
  <1>1. writer[d] \notin {"off", "done"}
    BY DEF SendInv, Drained
  <1>2. Drained(d)'
    BY <1>1 DEF SendInv, Drained
  <1> QED BY <1>2, OneDrained DEF TypeOK

\* A Send is closed.
LEMMA DrainedClosed ==
    ASSUME TypeOK, SendInv, NEW d \in Conn, closed' = [closed EXCEPT ![d] = TRUE],
           UNCHANGED <<conn, reader, writer, queued>>
    PROVE  \A c \in Conn : Drained(c)'
  <1>1. closed'[d] /\ \A c \in Conn \ {d} : closed'[c] = closed[c]
    BY DEF TypeOK
  <1> QED BY <1>1 DEF SendInv, Drained

LEMMA HandlerDrained ==
    ASSUME TypeOK, SendInv, NEW c \in Conn, HandlerStep(c), reader[c] # "off" => handler[c] # "idle"
    PROVE  \A d \in Conn : Drained(d)'
  <1>1. CASE Upgrade(c)
    <2>1. reader'[c] = "read" /\ writer'[c] = "wait" /\ conn'[c] = "up"
          /\ UNCHANGED <<closed, queued>>
          /\ \A d \in Conn \ {c} : reader'[d] = reader[d] /\ writer'[d] = writer[d] /\ conn'[d] = conn[d]
      BY <1>1 DEF Upgrade, TypeOK, sendCh
    <2>2. Drained(c)'
      BY <2>1 DEF Drained
    <2> QED BY <2>1, <2>2, OneDrained
  <1>2. CASE UpgradeFails(c) \/ SubmitRegister(c) \/ StartManager(c)
    BY <1>2, DrainedKept DEF UpgradeFails, SubmitRegister, StartManager, sides, sendCh
  <1> QED BY <1>1, <1>2 DEF HandlerStep

LEMMA ReaderDrained ==
    ASSUME TypeOK, SendInv, NEW c \in Conn, ReaderStep(c)
    PROVE  \A d \in Conn : Drained(d)'
  <1>1. reader[c] \in {"read", "login", "reply"}
        /\ UNCHANGED <<conn, writer>> /\ \A d \in Conn \ {c} : reader'[d] = reader[d]
    BY DEF ReaderStep, ReadRequest, Authenticate, CanRead, SubmitLogin, Reply, MarshalFails, ReaderFails, TypeOK
  <1>2. conn[c] # "none" /\ writer[c] # "off"
    BY <1>1 DEF SendInv, Drained
  <1>3. CASE ReadRequest(c) \/ (\E k \in UserKey : Authenticate(c, k)) \/ SubmitLogin(c)
    <2>1. reader'[c] \in {"login", "reply"} /\ UNCHANGED <<closed, queued>>
      BY <1>3 DEF ReadRequest, Authenticate, SubmitLogin, TypeOK, sendCh
    <2>2. Drained(c)'
      BY <1>1, <1>2, <2>1 DEF SendInv, Drained
    <2> QED BY <1>1, <2>1, <2>2, OneDrained
  <1>4. CASE Reply(c)
    <2>1. reader'[c] \in {"read", "reply"} /\ closed' = closed
      BY <1>4 DEF Reply, TypeOK
    <2>2. \/ queued' = queued
          \/ ~closed[c] /\ queued' = [queued EXCEPT ![c] = @ + 1]
      BY <1>4 DEF Reply, SendMsg
    <2>3. (\A d \in Conn \ {c} : queued'[d] = queued[d]) /\ (queued'[c] # queued[c] => ~closed[c])
      BY <2>2 DEF TypeOK
    <2>4. Drained(c)'
      BY <1>1, <1>2, <2>1, <2>3 DEF SendInv, Drained
    <2> QED BY <1>1, <2>1, <2>3, <2>4, OneDrained
  <1>5. CASE ReaderFails(c)
    <2>1. reader'[c] = "done" /\ closed'[c] /\ queued' = queued
          /\ \A d \in Conn \ {c} : closed'[d] = closed[d]
      BY <1>5 DEF ReaderFails, TypeOK
    <2>2. Drained(c)'
      BY <1>1, <1>2, <2>1 DEF SendInv, Drained
    <2> QED BY <1>1, <2>1, <2>2, OneDrained
  <1>6. CASE MarshalFails(c)
    <2>1. reader'[c] = "read" /\ UNCHANGED <<closed, queued>>
      BY <1>6 DEF MarshalFails, TypeOK, sendCh
    <2>2. Drained(c)'
      BY <1>1, <1>2, <2>1 DEF SendInv, Drained
    <2> QED BY <1>1, <2>1, <2>2, OneDrained
  <1> QED BY <1>3, <1>4, <1>5, <1>6 DEF ReaderStep

LEMMA WriterDrained ==
    ASSUME TypeOK, SendInv, NEW c \in Conn, WriterStep(c)
    PROVE  \A d \in Conn : Drained(d)'
  <1>1. writer[c] \in {"wait", "write"} /\ UNCHANGED <<conn, reader, closed>>
        /\ \A d \in Conn \ {c} : writer'[d] = writer[d] /\ queued'[d] = queued[d]
    BY DEF WriterStep, WriterTakes, WriterWrites, WriterStops, TypeOK, sendCh
  <1>2. \/ writer'[c] \in {"wait", "write"}
        \/ writer'[c] = "done" /\ closed[c] /\ queued'[c] = 0
    BY DEF WriterStep, WriterTakes, WriterWrites, WriterStops, TypeOK, sendCh
  <1>3. Drained(c)'
    BY <1>1, <1>2 DEF SendInv, Drained
  <1> QED BY <1>1, <1>3, OneDrained

LEMMA ManagerDrained ==
    ASSUME TypeOK, SendInv, NEW m \in Conn, ManagerStep(m)
    PROVE  \A d \in Conn : Drained(d)'
  <1>1. CASE Greet(m)
    <2>1. mgr[m] = "greet" /\ ~closed[job[m]] /\ queued' = [queued EXCEPT ![job[m]] = @ + 1]
          /\ UNCHANGED <<conn, reader, writer, closed>>
      BY <1>1 DEF Greet, goroutines
    <2>2. job[m] \in Conn /\ conn[job[m]] # "none"
      BY <2>1 DEF TypeOK, SendInv, Connected
    <2> QED BY <2>1, <2>2, DrainedFed
  <1>2. CASE CloseSend(m)
    <2>1. job[m] \in Conn /\ UNCHANGED <<conn, reader, writer, queued>>
      BY <1>2 DEF CloseSend, TypeOK, goroutines
    <2>2. closed' = closed \/ closed' = [closed EXCEPT ![job[m]] = TRUE]
      BY <1>2 DEF CloseSend
    <2> QED BY <2>1, <2>2, DrainedClosed, DrainedKept DEF sides
  <1>3. ASSUME NEW c \in Conn, BroadcastTo(m, c) PROVE \A d \in Conn : Drained(d)'
    <2>1. UNCHANGED <<conn, reader, writer>> /\ c \in todo[m]
      BY <1>3 DEF BroadcastTo, goroutines
    <2>2. conn[c] # "none"
      BY <2>1 DEF SendInv, Connected
    <2>3. \/ UNCHANGED <<closed, queued>>
          \/ ~closed[c] /\ queued' = [queued EXCEPT ![c] = @ + 1] /\ closed' = closed
          \/ closed' = [closed EXCEPT ![c] = TRUE] /\ queued' = queued
      BY <1>3 DEF BroadcastTo, sendCh
    <2> QED BY <2>1, <2>2, <2>3, DrainedFed, DrainedClosed, DrainedKept DEF sides
  <1>4. CASE \/ EventRegister(m) \/ GreetPanics(m) \/ EventLogin(m) \/ AddUsers(m)
             \/ EventUnregister(m) \/ DelUsers(m) \/ EventBroadcast(m)
    BY <1>4, DrainedKept
       DEF EventRegister, GreetPanics, EventLogin, AddUsers, EventUnregister, DelUsers,
           EventBroadcast, sides, goroutines, sendCh
  <1> QED BY <1>1, <1>2, <1>3, <1>4 DEF ManagerStep

LEMMA OutsideDrained ==
    ASSUME TypeOK, SendInv, NEW c \in Conn, Outside(c)
    PROVE  \A d \in Conn : Drained(d)'
  <1>1. UNCHANGED <<reader, writer, closed, queued>>
    BY DEF Outside, PeerStalls, PeerResumes, PeerLeaves, ClearTimeout, SubmitUnregister,
           goroutines, sendCh
  <1>2. \A d \in Conn \ {c} : conn'[d] = conn[d]
    BY DEF Outside, PeerStalls, PeerResumes, PeerLeaves, ClearTimeout, SubmitUnregister, TypeOK
  <1>3. conn[c] # "none" /\ conn'[c] # "none"
    BY DEF Outside, PeerStalls, PeerResumes, PeerLeaves, ClearTimeout, SubmitUnregister, TypeOK,
           SendInv, Connected
  <1>4. Drained(c)'
    BY <1>1, <1>3 DEF SendInv, Drained
  <1> QED BY <1>1, <1>2, <1>4, OneDrained

LEMMA DrainedStep ==
    ASSUME TypeOK, GreetingsInv, SendInv, [Next]_vars
    PROVE  \A d \in Conn : Drained(d)'
  <1>1. CASE SubmitBroadcast \/ Rest \/ UNCHANGED vars
    BY <1>1, DrainedKept DEF SubmitBroadcast, Rest, vars, sides, goroutines, sendCh
  <1> QED BY <1>1, HandlerDrained, ReaderDrained, WriterDrained, ManagerDrained, OutsideDrained
          DEF Next, GreetingsInv, LoopPerRequest

-----------------------------------------------------------------------------
(* Whoever is registered, greeted or broadcast to is a connection.           *)

\* A connection that was made stays one, if only one that is down.
LEMMA ConnectionsStay ==
    ASSUME TypeOK, [Next]_vars
    PROVE  \A c \in Conn : conn[c] # "none" => conn'[c] # "none"
  <1>1. ASSUME NEW c \in Conn, Upgrade(c) \/ Outside(c)
        PROVE  \A d \in Conn : conn[d] # "none" => conn'[d] # "none"
    BY <1>1 DEF TypeOK, Upgrade, Outside, PeerStalls, PeerResumes, PeerLeaves, ClearTimeout,
                SubmitUnregister
  <1>2. ASSUME NEW c \in Conn, ReaderStep(c) \/ WriterStep(c) \/ (HandlerStep(c) /\ ~Upgrade(c))
        PROVE  conn' = conn
    BY <1>2 DEF HandlerStep, UpgradeFails, SubmitRegister, StartManager,
                ReaderStep, ReadRequest, Authenticate, SubmitLogin, Reply, MarshalFails, ReaderFails,
                WriterStep, WriterTakes, WriterWrites, WriterStops
  <1>3. ASSUME NEW m \in Conn, ManagerStep(m) PROVE conn' = conn
    BY <1>3 DEF ManagerStep, EventRegister, Greet, GreetPanics, EventLogin, AddUsers,
                EventUnregister, DelUsers, CloseSend, EventBroadcast, BroadcastTo
  <1>4. CASE SubmitBroadcast \/ Rest \/ UNCHANGED vars
    BY <1>4 DEF SubmitBroadcast, Rest, vars
  <1> QED BY <1>1, <1>2, <1>3, <1>4 DEF Next

\* Nothing new is registered, greeted or broadcast to.
LEMMA ConnectedKept ==
    ASSUME TypeOK, Connected, [Next]_vars, UNCHANGED registerCh, Clients' \subseteq Clients,
           \A c \in Conn : handler'[c] = "register" => handler[c] = "register",
           \A m \in Conn : /\ mgr'[m] = "greet" => mgr[m] = "greet" /\ job'[m] = job[m]
                           /\ todo'[m] \subseteq todo[m] \cup Clients
    PROVE  Connected'
  <1>1. \A i \in DOMAIN registerCh : registerCh[i] \in Conn
    BY DEF TypeOK
  <1>2. \A m \in Conn : (mgr[m] = "greet" => job[m] \in Conn) /\ todo[m] \subseteq Conn
    BY DEF TypeOK
  <1>3. Clients \subseteq Conn
    BY DEF TypeOK
  <1> QED BY <1>1, <1>2, <1>3, ConnectionsStay DEF Connected

LEMMA ManagerConnected ==
    ASSUME TypeOK, Connected, [Next]_vars, NEW m \in Conn, ManagerStep(m)
    PROVE  Connected'
  <1>0. handler' = handler
    BY DEF ManagerStep, EventRegister, Greet, GreetPanics, EventLogin, AddUsers,
           EventUnregister, DelUsers, CloseSend, EventBroadcast, BroadcastTo, goroutines
  <1>1. CASE EventRegister(m)
    <2> DEFINE d == Head(registerCh)
    <2>1. registerCh # <<>> /\ registerCh' = Tail(registerCh) /\ Clients' = Clients \cup {d}
          /\ mgr' = [mgr EXCEPT ![m] = "greet"] /\ job' = [job EXCEPT ![m] = d] /\ todo' = todo
          /\ conn' = conn
      BY <1>1 DEF EventRegister, Busy
    <2>2. 1 \in DOMAIN registerCh /\ d = registerCh[1]
      BY <2>1 DEF TypeOK
    <2>3. ASSUME NEW i \in DOMAIN registerCh'
          PROVE  i + 1 \in DOMAIN registerCh /\ registerCh'[i] = registerCh[i + 1]
      BY <2>1, <2>3, TailEntries DEF TypeOK
    <2>4. conn[d] # "none"
      BY <2>2 DEF Connected
    <2>5. job'[m] = d /\ \A n \in Conn \ {m} : mgr'[n] = mgr[n] /\ job'[n] = job[n]
      BY <2>1 DEF TypeOK
    <2> HIDE DEF d
    <2> QED BY <1>0, <2>1, <2>3, <2>4, <2>5 DEF Connected
  <1>2. CASE Greet(m) \/ AddUsers(m)
    <2>1. UNCHANGED <<registerCh, Clients>> /\ Idle(m)
      BY <1>2 DEF Greet, AddUsers, queues, registry
    <2> QED BY <2>1, <1>0, ConnectedKept DEF TypeOK, Idle
  <1>3. CASE GreetPanics(m)
    BY <1>3, <1>0, ConnectedKept DEF GreetPanics, queues, registry, loops
  <1>4. CASE EventLogin(m)
    <2>1. UNCHANGED <<registerCh, Clients, todo>>
      BY <1>4 DEF EventLogin, registry
    <2>2. \A n \in Conn : mgr'[n] = "greet" => mgr[n] = "greet" /\ job'[n] = job[n]
      BY <1>4 DEF EventLogin, TypeOK
    <2> QED BY <2>1, <2>2, <1>0, ConnectedKept
  <1>5. CASE EventUnregister(m)
    <2>1. UNCHANGED <<registerCh, todo>> /\ Clients' \subseteq Clients
      BY <1>5 DEF EventUnregister, Busy
    <2>2. \A n \in Conn : mgr'[n] = "greet" => mgr[n] = "greet" /\ job'[n] = job[n]
      BY <1>5 DEF EventUnregister, Busy, TypeOK
    <2> QED BY <2>1, <2>2, <1>0, ConnectedKept
  <1>6. CASE DelUsers(m) \/ CloseSend(m)
    <2>1. UNCHANGED <<registerCh, Clients>>
      BY <1>6 DEF DelUsers, CloseSend, queues, registry
    <2>2. \/ Idle(m)
          \/ mgr' = [mgr EXCEPT ![m] = "close"] /\ UNCHANGED <<job, todo>>
          \/ UNCHANGED <<mgr, job, todo>>
      BY <1>6 DEF DelUsers, CloseSend, loops
    <2>3. \A n \in Conn : /\ mgr'[n] = "greet" => mgr[n] = "greet" /\ job'[n] = job[n]
                          /\ todo'[n] = todo[n]
      BY <2>2 DEF TypeOK, Idle
    <2> QED BY <2>1, <2>3, <1>0, ConnectedKept
  <1>7. CASE EventBroadcast(m)
    <2>1. UNCHANGED <<registerCh, Clients, job>> /\ todo' = [todo EXCEPT ![m] = Clients]
          /\ \E pc \in {"select", "broadcast"} : mgr' = [mgr EXCEPT ![m] = pc]
      BY <1>7 DEF EventBroadcast, registry
    <2>2. \A n \in Conn : /\ mgr'[n] = "greet" => mgr[n] = "greet"
                          /\ todo'[n] \subseteq todo[n] \cup Clients
      BY <2>1 DEF TypeOK
    <2> QED BY <2>1, <2>2, <1>0, ConnectedKept
  <1>8. ASSUME NEW c \in Conn, BroadcastTo(m, c) PROVE Connected'
    <2>1. UNCHANGED <<registerCh, Clients, job>>
      BY <1>8 DEF BroadcastTo, queues, registry, loops
    <2>2. /\ mgr' = mgr \/ \E pc \in {"select", "broadcast"} : mgr' = [mgr EXCEPT ![m] = pc]
          /\ todo' = todo \/ todo' = [todo EXCEPT ![m] = todo[m] \ {c}]
      BY <1>8 DEF BroadcastTo, loops
    <2>3. \A n \in Conn : mgr'[n] = "greet" => mgr[n] = "greet"
      BY <2>2 DEF TypeOK
    <2>4. ASSUME NEW n \in Conn PROVE todo'[n] = todo[n] \/ todo'[n] = todo[n] \ {c}
      BY <2>2 DEF TypeOK
    <2>5. \A n \in Conn : todo'[n] \subseteq todo[n] \cup Clients
      BY <2>4
    <2> QED BY <2>1, <2>3, <2>5, <1>0, ConnectedKept
  <1> QED BY <1>1, <1>2, <1>3, <1>4, <1>5, <1>6, <1>7, <1>8 DEF ManagerStep

LEMMA ConnectedStep ==
    ASSUME TypeOK, Connected, [Next]_vars
    PROVE  Connected'
  <1>1. ASSUME NEW c \in Conn, HandlerStep(c) PROVE Connected'
    <2>1. CASE SubmitRegister(c)
      <3>1. conn[c] # "none" /\ registerCh' = Append(registerCh, c)
            /\ UNCHANGED <<conn, Clients, mgr, job, todo>>
        BY <2>1 DEF SubmitRegister, registry, loops, Connected
      <3>0. \A d \in Conn : handler'[d] = "register" => handler[d] = "register"
        BY <2>1 DEF SubmitRegister, TypeOK
      <3>2. \A i \in DOMAIN registerCh' :
              registerCh'[i] = c \/ (i \in DOMAIN registerCh /\ registerCh'[i] = registerCh[i])
        BY <3>1 DEF TypeOK
      <3>3. \A i \in DOMAIN registerCh' : conn'[registerCh'[i]] # "none"
        BY <3>1, <3>2 DEF Connected
      <3> QED BY <3>0, <3>1, <3>3 DEF Connected
    <2>2. CASE StartManager(c)
      <3>1. UNCHANGED <<registerCh, Clients, job, todo>> /\ mgr' = [mgr EXCEPT ![c] = "select"]
        BY <2>2 DEF StartManager, queues, registry
      <3>2. /\ \A n \in Conn : mgr'[n] = "greet" => mgr[n] = "greet"
            /\ \A d \in Conn : handler'[d] = "register" => handler[d] = "register"
        BY <2>2, <3>1 DEF TypeOK, StartManager
      <3> QED BY <3>1, <3>2, ConnectedKept
    <2>3. CASE Upgrade(c)
      <3>1. UNCHANGED <<registerCh, Clients, mgr, job, todo>>
            /\ handler' = [handler EXCEPT ![c] = "register"] /\ conn' = [conn EXCEPT ![c] = "up"]
        BY <2>3 DEF Upgrade, queues, registry, loops
      <3>2. \A d \in Conn : handler'[d] = "register" => conn'[d] # "none"
        BY <3>1 DEF TypeOK, Connected
      <3>3. \A d \in Conn : conn[d] # "none" => conn'[d] # "none"
        BY ConnectionsStay
      <3>4. \A i \in DOMAIN registerCh : registerCh[i] \in Conn
        BY DEF TypeOK
      <3>5. Clients \subseteq Conn
            /\ \A m \in Conn : (mgr[m] = "greet" => job[m] \in Conn) /\ todo[m] \subseteq Conn
        BY DEF TypeOK
      <3> QED BY <3>1, <3>2, <3>3, <3>4, <3>5 DEF Connected
    <2>5. CASE UpgradeFails(c)
      <3>1. \A d \in Conn : handler'[d] = "register" => handler[d] = "register"
        BY <2>5 DEF UpgradeFails, TypeOK
      <3> QED BY <2>5, <3>1, ConnectedKept DEF UpgradeFails, queues, registry, loops
    <2> QED BY <1>1, <2>1, <2>2, <2>3, <2>5 DEF HandlerStep
  <1>2. ASSUME NEW c \in Conn, ReaderStep(c) PROVE Connected'
    BY <1>2, ConnectedKept
       DEF ReaderStep, ReadRequest, Authenticate, SubmitLogin, Reply, MarshalFails, ReaderFails,
           goroutines, queues, registry, loops
  <1>3. ASSUME NEW c \in Conn, WriterStep(c) \/ Outside(c) PROVE Connected'
    BY <1>3, ConnectedKept
       DEF WriterStep, WriterTakes, WriterWrites, WriterStops, Outside, PeerStalls, PeerResumes,
           PeerLeaves, ClearTimeout, SubmitUnregister, goroutines, queues, registry, loops
  <1>4. CASE SubmitBroadcast \/ Rest \/ UNCHANGED vars
    BY <1>4, ConnectedKept DEF SubmitBroadcast, Rest, vars, goroutines, queues, registry, loops
  <1> QED BY <1>1, <1>2, <1>3, <1>4, ManagerConnected DEF Next

LEMMA SendStep == ASSUME TypeOK, GreetingsInv, SendInv, [Next]_vars PROVE SendInv'
  BY DrainedStep, ConnectedStep DEF SendInv

-----------------------------------------------------------------------------
(* No connection gets lost between Upgrade and Clients.                      *)

\* Nothing leaves a place where NoneLost looks for it.
LEMMA NoneLostKept ==
    ASSUME TypeOK, NoneLost, UNCHANGED registerCh, Clients \subseteq Clients',
           \A c \in Conn : /\ conn'[c] # "none" => conn[c] # "none"
                           /\ handler[c] = "register" => handler'[c] = "register"
    PROVE  NoneLost'
  BY DEF NoneLost

LEMMA HandlerNoneLost ==
    ASSUME TypeOK, NoneLost, NEW c \in Conn, HandlerStep(c)
    PROVE  NoneLost'
  <1>1. CASE Upgrade(c)
    <2>1. UNCHANGED <<registerCh, Clients>> /\ handler'[c] = "register"
          /\ \A d \in Conn \ {c} : handler'[d] = handler[d] /\ conn'[d] = conn[d]
      BY <1>1 DEF Upgrade, TypeOK, queues, registry
    <2> QED BY <2>1 DEF NoneLost
  <1>2. CASE SubmitRegister(c)
    <2>1. UNCHANGED <<conn, Clients>> /\ registerCh' = Append(registerCh, c)
          /\ \A d \in Conn \ {c} : handler'[d] = handler[d]
      BY <1>2 DEF SubmitRegister, TypeOK, registry
    <2>2. \E i \in DOMAIN registerCh' : registerCh'[i] = c
      <3>1. Len(registerCh) + 1 \in DOMAIN registerCh' /\ registerCh'[Len(registerCh) + 1] = c
        BY <2>1 DEF TypeOK
      <3> QED BY <3>1
    <2>3. \A i \in DOMAIN registerCh : i \in DOMAIN registerCh' /\ registerCh'[i] = registerCh[i]
      BY <2>1 DEF TypeOK
    <2> QED BY <2>1, <2>2, <2>3 DEF NoneLost
  <1>3. CASE UpgradeFails(c) \/ StartManager(c)
    <2>1. UNCHANGED <<conn, registerCh, Clients>>
          /\ \A d \in Conn : handler[d] = "register" => handler'[d] = "register"
      BY <1>3 DEF UpgradeFails, StartManager, TypeOK, queues, registry
    <2> QED BY <2>1, NoneLostKept
  <1> QED BY <1>1, <1>2, <1>3 DEF HandlerStep

LEMMA ManagerNoneLost ==
    ASSUME TypeOK, Steady, NoneLost, NEW m \in Conn, ManagerStep(m)
    PROVE  NoneLost'
  <1>1. UNCHANGED <<conn, handler>>
    BY DEF ManagerStep, EventRegister, Greet, GreetPanics, EventLogin, AddUsers,
           EventUnregister, DelUsers, CloseSend, EventBroadcast, BroadcastTo, goroutines
  <1>2. CASE EventRegister(m)
    <2>1. registerCh # <<>> /\ registerCh' = Tail(registerCh)
          /\ Clients' = Clients \cup {Head(registerCh)}
      BY <1>2 DEF EventRegister
    <2>2. ASSUME NEW i \in DOMAIN registerCh
          PROVE  \/ registerCh[i] \in Clients'
                 \/ \E j \in DOMAIN registerCh' : registerCh'[j] = registerCh[i]
      <3>1. Head(registerCh) = registerCh[1]
            /\ (i = 1 \/ (i - 1 \in DOMAIN registerCh' /\ registerCh'[i - 1] = registerCh[i]))
        BY <2>1, TailEntries DEF TypeOK
      <3> QED BY <2>1, <3>1
    <2>3. ASSUME NEW c \in Conn, c \in Clients PROVE c \in Clients'
      BY <2>1, <2>3
    <2> QED BY <1>1, <2>2, <2>3 DEF NoneLost
  <1>3. CASE EventUnregister(m)
    <2>1. unregisterCh # <<>>
      BY <1>3 DEF EventUnregister
    <2>2. Unregistering
      BY <2>1 DEF Steady, HubInv, NobodyUnregisters
    <2> QED BY <2>2 DEF NoneLost
  <1>4. CASE \/ Greet(m) \/ GreetPanics(m) \/ EventLogin(m) \/ AddUsers(m)
             \/ DelUsers(m) \/ CloseSend(m) \/ EventBroadcast(m) \/ \E c \in Conn : BroadcastTo(m, c)
    <2>1. UNCHANGED <<registerCh, Clients>>
      BY <1>4 DEF Greet, GreetPanics, EventLogin, AddUsers, DelUsers, CloseSend,
                  EventBroadcast, BroadcastTo, queues, registry
    <2> QED BY <1>1, <2>1, NoneLostKept
  <1> QED BY <1>2, <1>3, <1>4 DEF ManagerStep

LEMMA NoneLostStep ==
    ASSUME TypeOK, Steady, SendInv, NoneLost, [Next]_vars
    PROVE  NoneLost'
  <1>1. ASSUME NEW c \in Conn, ReaderStep(c) \/ WriterStep(c) PROVE NoneLost'
    <2>1. UNCHANGED <<conn, handler, registerCh, Clients>>
      BY <1>1 DEF ReaderStep, ReadRequest, Authenticate, SubmitLogin, Reply, MarshalFails, ReaderFails,
                  WriterStep, WriterTakes, WriterWrites, WriterStops, queues, registry
    <2> QED BY <2>1, NoneLostKept
  <1>2. ASSUME NEW c \in Conn, Outside(c) PROVE NoneLost'
    <2>1. UNCHANGED <<handler, registerCh, Clients>>
      BY <1>2 DEF Outside, PeerStalls, PeerResumes, PeerLeaves, ClearTimeout, SubmitUnregister,
                  goroutines, queues, registry
    <2>2. conn[c] # "none" /\ \A d \in Conn \ {c} : conn'[d] = conn[d]
      BY <1>2 DEF Outside, PeerStalls, PeerResumes, PeerLeaves, ClearTimeout, SubmitUnregister,
                  TypeOK, SendInv, Connected
    <2> QED BY <2>1, <2>2, NoneLostKept
  <1>3. CASE SubmitBroadcast \/ Rest \/ UNCHANGED vars
    <2>1. UNCHANGED <<conn, handler, registerCh, Clients>>
      BY <1>3 DEF SubmitBroadcast, Rest, vars, goroutines, queues, registry
    <2> QED BY <2>1, NoneLostKept
  <1> QED BY <1>1, <1>2, <1>3, HandlerNoneLost, ManagerNoneLost DEF Next

-----------------------------------------------------------------------------
(* What is true of a state in which no goroutine can go on.                  *)

HubQuiet == ~crashed /\ ~Runnable

\* Nobody takes a message out of Send only when the peer does not read.
LEMMA FullSendStalls ==
    ASSUME TypeOK, SendInv, HubQuiet, NEW c \in Conn, queued[c] # 0
    PROVE  conn[c] = "stalled"
  <1>1. writer[c] \notin {"off", "done"}
    BY DEF SendInv, Drained
  <1>2. queued[c] > 0
    BY DEF TypeOK
  <1>3. writer[c] # "wait"
    BY <1>2 DEF HubQuiet, Runnable
  <1>4. writer[c] = "write"
    BY <1>1, <1>3 DEF TypeOK
  <1> QED BY <1>4 DEF HubQuiet, Runnable

LEMMA LoopsQuiet ==
    ASSUME TypeOK, SendInv, HubQuiet, NEW m \in Conn
    PROVE  /\ mgr[m] \in {"off", "select", "greet"}
           /\ mgr[m] = "select" => registerCh = <<>> /\ loginCh = <<>>
           /\ mgr[m] = "greet" => conn[job[m]] = "stalled"
  <1>1. mgr[m] \in {"off", "select", "greet"}
    BY DEF TypeOK, HubQuiet, Runnable
  <1>2. mgr[m] = "select" => registerCh = <<>> /\ loginCh = <<>>
    BY DEF HubQuiet, Runnable
  <1>3. ASSUME mgr[m] = "greet" PROVE conn[job[m]] = "stalled"
    <2>1. job[m] \in Conn
      BY <1>3 DEF TypeOK
    <2>2. ~(queued[job[m]] < SendCap)
      BY <1>3 DEF HubQuiet, Runnable
    <2>3. queued[job[m]] # 0
      BY <2>1, <2>2 DEF TypeOK
    <2> QED BY <2>1, <2>3, FullSendStalls
  <1> QED BY <1>1, <1>2, <1>3

LEMMA RegistrationsQuiet ==
    ASSUME TypeOK, GreetingsInv, SendInv, HubQuiet
    PROVE  registerCh = <<>> /\ \A c \in Conn : handler[c] \in {"idle", "done"}
  <1>1. \A c \in Conn : handler[c] # "spawn"
    BY DEF HubQuiet, Runnable
  <1>2. ASSUME registerCh # <<>> PROVE FALSE
    <2>1. 1 \in DOMAIN registerCh /\ registerCh[1] \in Conn
      BY <1>2 DEF TypeOK
    <2>2. PICK m \in Conn : CanServe(m, registerCh[1])
      BY <2>1, LoopLeftForAll DEF LoopLeft
    <2>3. mgr[m] = "greet" /\ job[m] = registerCh[1]
      BY <1>1, <1>2, <2>2, LoopsQuiet DEF CanServe
    <2> QED BY <2>1, <2>3 DEF GreetingsInv, GreetedOnce
  <1>3. ASSUME NEW c \in Conn PROVE handler[c] # "register"
    <2>1. Len(registerCh) < QueueCap
      BY <1>2
    <2> QED BY <2>1 DEF HubQuiet, Runnable
  <1> QED BY <1>1, <1>2, <1>3 DEF TypeOK

LEMMA LoginsQuiet ==
    ASSUME TypeOK, GreetingsInv, SendInv, HubQuiet, NEW c \in Conn, conn[c] # "stalled"
    PROVE  /\ \A i \in DOMAIN loginCh : loginCh[i].client # c
           /\ \A m \in Conn : mgr[m] \in {"greet", "bind"} => job[m] # c
           /\ reader[c] # "login"
  <1>1. \A m \in Conn : mgr[m] \in {"greet", "bind"} => job[m] # c
    BY LoopsQuiet
  <1>2. CASE handler[c] = "idle"
    BY <1>1, <1>2 DEF GreetingsInv, LoopPerRequest
  <1>3. CASE handler[c] = "done"
    <2>1. PICK m \in Conn : CanServe(m, c)
      BY <1>3, AllGreeted
    <2>2. mgr[m] = "select"
      BY <1>1, <2>1, RegistrationsQuiet, LoopsQuiet DEF CanServe
    <2>3. loginCh = <<>> /\ Len(loginCh) < QueueCap
      BY <2>2, LoopsQuiet
    <2>4. reader[c] # "login"
      BY <2>3 DEF HubQuiet, Runnable
    <2> QED BY <1>1, <2>3, <2>4
  <1> QED BY <1>2, <1>3, RegistrationsQuiet

LEMMA AllSettled ==
    ASSUME TypeOK, GreetingsInv, SendInv, HubQuiet, NEW c \in Conn, conn[c] # "stalled"
    PROVE  Settled(c)
  <1>1. queued[c] = 0
    BY FullSendStalls
  <1>2. writer[c] # "write"
    BY DEF HubQuiet, Runnable
  <1>3. reader[c] # "reply"
    <2>1. queued[c] < SendCap
      BY <1>1
    <2> QED BY <2>1 DEF HubQuiet, Runnable
  <1>4. reader[c] \in {"off", "read", "done"} /\ writer[c] \in {"off", "wait", "done"}
    BY <1>2, <1>3, LoginsQuiet DEF TypeOK
  <1>5. ASSUME conn[c] = "down" PROVE reader[c] = "done" /\ writer[c] = "done"
    <2>1. reader[c] # "off" /\ writer[c] # "off"
      BY <1>5 DEF SendInv, Drained
    <2>2. reader[c] # "read"
      BY <1>5 DEF HubQuiet, Runnable
    <2>3. reader[c] = "done" /\ closed[c]
      BY <1>4, <2>1, <2>2 DEF SendInv, Drained
    <2>4. writer[c] # "wait"
      BY <2>3 DEF HubQuiet, Runnable
    <2> QED BY <1>4, <2>1, <2>3, <2>4
  <1> QED BY <1>1, <1>4, <1>5, LoginsQuiet DEF Settled

LEMMA HeldUpByNobody ==
    ASSUME TypeOK, GreetingsInv, SendInv, NoneLost
    PROVE  NobodyHeldUp
  <1> SUFFICES ASSUME HubQuiet, NEW c \in Conn
               PROVE  /\ registerCh = <<>>
                      /\ handler[c] \in {"idle", "done"}
                      /\ conn[c] # "none" => c \in Clients \/ Unregistering
                      /\ conn[c] # "stalled" => Settled(c)
    BY RegistrationsQuiet DEF NobodyHeldUp, HubQuiet
  <1>1. registerCh = <<>> /\ handler[c] \in {"idle", "done"}
    BY RegistrationsQuiet
  <1>2. conn[c] # "none" => c \in Clients \/ Unregistering
    BY <1>1 DEF NoneLost
  <1> QED BY <1>1, <1>2, AllSettled

\* The goroutines of the hub never come to wait for one another: when none can
\* go on, every connection is registered and all that was begun is finished,
\* but for the connections whose peers have stopped reading.
THEOREM NobodyIsHeldUp == Spec => []NobodyHeldUp
  <1> DEFINE Inv == TypeOK /\ Steady /\ GreetingsInv /\ SendInv /\ NoneLost
  <1>1. Init => Inv
    BY TypeInit, HubInit, GreetingsInit, SendInit DEF Steady
  <1>2. Inv /\ [Next]_vars => Inv'
    BY TypeStep, HubStep, GreetingsStep, SendStep, NoneLostStep DEF Steady
  <1>3. Inv => NobodyHeldUp
    BY HeldUpByNobody
  <1> QED BY <1>1, <1>2, <1>3, PTL DEF Spec

-----------------------------------------------------------------------------
(* Every connection is a conversation.                                       *)

LEMMA BroadcastsInit == Init => BroadcastsMeant
  BY DEF Init, BroadcastsMeant

LEMMA BroadcastsStep == ASSUME TypeOK, BroadcastsMeant, [Next]_vars PROVE BroadcastsMeant'
  <1> SUFFICES ASSUME ~Broadcasting PROVE broadcastCh' = 0 /\ \A m \in Conn : mgr'[m] # "broadcast"
    BY DEF BroadcastsMeant
  <1>1. broadcastCh = 0 /\ \A m \in Conn : mgr[m] # "broadcast"
    BY DEF BroadcastsMeant
  <1>2. ASSUME NEW m \in Conn, ManagerStep(m)
        PROVE  broadcastCh' = broadcastCh /\ \A n \in Conn : mgr'[n] # "broadcast"
    <2>1. ~EventBroadcast(m) /\ \A c \in Conn : ~BroadcastTo(m, c)
      BY <1>1 DEF EventBroadcast, BroadcastTo
    <2>2. CASE EventRegister(m) \/ EventUnregister(m)
      BY <1>1, <2>2 DEF EventRegister, EventUnregister, Busy, TypeOK
    <2>3. CASE Greet(m) \/ GreetPanics(m) \/ AddUsers(m)
      BY <1>1, <2>3 DEF Greet, GreetPanics, AddUsers, Idle, TypeOK, queues, loops
    <2>4. CASE EventLogin(m)
      BY <1>1, <2>4 DEF EventLogin, TypeOK
    <2>5. CASE DelUsers(m) \/ CloseSend(m)
      <3>1. broadcastCh' = broadcastCh
        BY <2>5 DEF DelUsers, CloseSend, queues
      <3>2. mgr' = mgr \/ \E pc \in {"select", "close"} : mgr' = [mgr EXCEPT ![m] = pc]
        BY <2>5 DEF DelUsers, CloseSend, Idle, loops
      <3> QED BY <1>1, <3>1, <3>2 DEF TypeOK
    <2> QED BY <1>2, <2>1, <2>2, <2>3, <2>4, <2>5 DEF ManagerStep
  <1>3. ASSUME NEW c \in Conn, HandlerStep(c)
        PROVE  broadcastCh' = broadcastCh /\ \A n \in Conn : mgr'[n] # "broadcast"
    BY <1>1, <1>3 DEF HandlerStep, Upgrade, UpgradeFails, SubmitRegister, StartManager,
                      TypeOK, queues, loops
  <1>4. ASSUME NEW c \in Conn, ReaderStep(c) \/ WriterStep(c) \/ Outside(c)
        PROVE  UNCHANGED <<broadcastCh, mgr>>
    BY <1>4 DEF ReaderStep, ReadRequest, Authenticate, SubmitLogin, Reply, MarshalFails, ReaderFails,
                WriterStep, WriterTakes, WriterWrites, WriterStops, Outside, PeerStalls,
                PeerResumes, PeerLeaves, ClearTimeout, SubmitUnregister, queues, loops
  <1>5. CASE Rest \/ UNCHANGED vars
    BY <1>1, <1>5 DEF Rest, vars, queues, loops
  <1>6. ~SubmitBroadcast
    BY DEF SubmitBroadcast
  <1> QED BY <1>1, <1>2, <1>3, <1>4, <1>5, <1>6 DEF Next

\* What the conversation of c is made of stays as it is.
SameTalk(c) ==
    /\ reader'[c] = reader[c] /\ owed'[c] = owed[c] /\ key'[c] = key[c]
    /\ queued'[c] = queued[c] /\ closed'[c] = closed[c]

LEMMA SilentTalk == ASSUME NEW c \in Conn, SameTalk(c) PROVE [Talk(c)!Next]_(Talk(c)!vars)
  BY DEF SameTalk, Talk!vars

LEMMA ReaderTalks ==
    ASSUME TypeOK, NEW c \in Conn, ReaderStep(c)
    PROVE  Talk(c)!Next /\ \A d \in Conn \ {c} : SameTalk(d)
  <1>1. CASE ReadRequest(c)
    <2>1. PICK n \in Copies : owed' = [owed EXCEPT ![c] = n]
      BY <1>1 DEF ReadRequest
    <2>2. reader[c] = "read" /\ reader' = [reader EXCEPT ![c] = "reply"]
          /\ UNCHANGED <<key, queued, closed>>
      BY <1>1 DEF ReadRequest, CanRead, sendCh
    <2>3. n \in {1, 2}
      BY <2>1
    <2>4. Talk(c)!Handle
      BY <2>1, <2>2, <2>3 DEF Talk!Handle, TypeOK
    <2> QED BY <2>1, <2>2, <2>4 DEF Talk!Next, SameTalk, TypeOK
  <1>2. ASSUME NEW k \in UserKey, Authenticate(c, k)
        PROVE  Talk(c)!Next /\ \A d \in Conn \ {c} : SameTalk(d)
    <2>1. reader[c] = "read" /\ reader' = [reader EXCEPT ![c] = "login"]
          /\ owed' = [owed EXCEPT ![c] = 1] /\ UNCHANGED <<queued, closed>>
          /\ key[c] = NoKey /\ key' = [key EXCEPT ![c] = k]
      BY <1>2 DEF Authenticate, CanRead, sendCh
    <2>2. Talk(c)!LogIn
      BY <2>1 DEF Talk!LogIn, TypeOK
    <2> QED BY <2>1, <2>2 DEF Talk!Next, SameTalk, TypeOK
  <1>3. CASE SubmitLogin(c)
    <2>1. reader[c] = "login" /\ reader' = [reader EXCEPT ![c] = "reply"]
          /\ UNCHANGED <<owed, key, queued, closed>>
      BY <1>3 DEF SubmitLogin, sendCh
    <2>2. Talk(c)!TellHub
      BY <2>1 DEF Talk!TellHub, TypeOK
    <2> QED BY <2>1, <2>2 DEF Talk!Next, SameTalk, TypeOK
  <1>4. CASE Reply(c)
    <2>1. reader[c] = "reply" /\ UNCHANGED <<key, closed>>
          /\ reader' = [reader EXCEPT ![c] = IF owed[c] = 1 THEN "read" ELSE "reply"]
          /\ owed' = [owed EXCEPT ![c] = owed[c] - 1]
          /\ \/ closed[c] /\ queued' = queued
             \/ ~closed[c] /\ queued[c] < SendCap /\ queued' = [queued EXCEPT ![c] = queued[c] + 1]
      BY <1>4 DEF Reply, SendMsg
    <2>2. owed[c] > 0
      BY <2>1 DEF TypeOK
    <2>3. (Talk(c)!Put \/ (closed[c] /\ queued'[c] = queued[c]))
          /\ \A d \in Conn \ {c} : queued'[d] = queued[d]
      BY <2>1 DEF Talk!Put, TypeOK
    <2>4. reader'[c] = (IF owed[c] = 1 THEN "read" ELSE "reply") /\ owed'[c] = owed[c] - 1
          /\ \A d \in Conn \ {c} : reader'[d] = reader[d] /\ owed'[d] = owed[d]
      BY <2>1 DEF TypeOK
    <2>5. Talk(c)!Reply
      BY <2>1, <2>2, <2>3, <2>4 DEF Talk!Reply
    <2> QED BY <2>1, <2>3, <2>4, <2>5 DEF Talk!Next, SameTalk
  <1>5. CASE ReaderFails(c)
    <2>1. reader[c] = "read" /\ reader' = [reader EXCEPT ![c] = "done"]
          /\ closed' = [closed EXCEPT ![c] = TRUE] /\ UNCHANGED <<owed, key, queued>>
      BY <1>5 DEF ReaderFails
    <2>2. Talk(c)!End
      BY <2>1 DEF Talk!End, TypeOK
    <2> QED BY <2>1, <2>2 DEF Talk!Next, SameTalk, TypeOK
  <1>6. CASE MarshalFails(c)
    <2>1. reader[c] = "reply" /\ reader' = [reader EXCEPT ![c] = "read"]
          /\ owed' = [owed EXCEPT ![c] = 0] /\ UNCHANGED <<key, queued, closed>>
      BY <1>6 DEF MarshalFails, sendCh
    <2>2. Talk(c)!GiveUp
      BY <2>1 DEF Talk!GiveUp, TypeOK
    <2> QED BY <2>1, <2>2 DEF Talk!Next, SameTalk, TypeOK
  <1> QED BY <1>1, <1>2, <1>3, <1>4, <1>5, <1>6 DEF ReaderStep

LEMMA WriterTalks ==
    ASSUME TypeOK, NEW c \in Conn, WriterStep(c)
    PROVE  (Talk(c)!Next \/ SameTalk(c)) /\ \A d \in Conn \ {c} : SameTalk(d)
  <1>1. CASE WriterTakes(c)
    <2>1. queued[c] > 0 /\ queued' = [queued EXCEPT ![c] = queued[c] - 1]
          /\ UNCHANGED <<reader, owed, key, closed>>
      BY <1>1 DEF WriterTakes
    <2>2. Talk(c)!Take
      BY <2>1 DEF Talk!Take, TypeOK
    <2> QED BY <2>1, <2>2 DEF Talk!Next, SameTalk, TypeOK
  <1>2. CASE WriterWrites(c) \/ WriterStops(c)
    BY <1>2 DEF WriterWrites, WriterStops, SameTalk, sendCh
  <1> QED BY <1>1, <1>2 DEF WriterStep

\* A loop puts a message into the Send of a connection, or closes it.
LEMMA LoopTalks ==
    ASSUME TypeOK, SendInv, NEW c \in Conn, UNCHANGED <<reader, owed, key>>,
           \/ /\ conn[c] # "none" /\ ~closed[c] /\ queued[c] < SendCap
              /\ queued' = [queued EXCEPT ![c] = queued[c] + 1] /\ closed' = closed
           \/ /\ Unregistering \/ Broadcasting
              /\ closed' = [closed EXCEPT ![c] = TRUE] /\ queued' = queued
    PROVE  Talk(c)!Next /\ \A d \in Conn \ {c} : SameTalk(d)
  <1>1. \A d \in Conn \ {c} : SameTalk(d)
    BY DEF SameTalk, TypeOK
  <1>2. conn[c] # "none" => reader[c] # "off"
    BY DEF SendInv, Drained
  <1>3. Talk(c)!PutByHub \/ Talk(c)!CloseByHub
    BY <1>2 DEF Talk!PutByHub, Talk!Put, Talk!CloseByHub, TypeOK
  <1> QED BY <1>1, <1>3 DEF Talk!Next

LEMMA ManagerTalks ==
    ASSUME TypeOK, Steady, SendInv, BroadcastsMeant, NEW m \in Conn, ManagerStep(m)
    PROVE  \A c \in Conn : Talk(c)!Next \/ SameTalk(c)
  <1>1. CASE Greet(m)
    <2>1. mgr[m] = "greet" /\ ~closed[job[m]] /\ queued[job[m]] < SendCap
          /\ queued' = [queued EXCEPT ![job[m]] = queued[job[m]] + 1]
          /\ UNCHANGED <<reader, owed, key, closed>>
      BY <1>1 DEF Greet, goroutines
    <2>2. job[m] \in Conn /\ conn[job[m]] # "none"
      BY <2>1 DEF TypeOK, SendInv, Connected
    <2> QED BY <2>1, <2>2, LoopTalks
  <1>2. CASE CloseSend(m)
    <2>1. mgr[m] = "close" /\ UNCHANGED <<reader, owed, key, queued>>
          /\ (closed' = closed \/ closed' = [closed EXCEPT ![job[m]] = TRUE])
      BY <1>2 DEF CloseSend, goroutines
    <2>2. Unregistering
      BY <2>1 DEF Steady, HubInv, NobodyUnregisters
    <2>3. job[m] \in Conn
      BY <2>1 DEF TypeOK
    <2>4. CASE closed' = closed
      BY <2>1, <2>4 DEF SameTalk
    <2> QED BY <2>1, <2>2, <2>3, <2>4, LoopTalks
  <1>3. ASSUME NEW d \in Conn, BroadcastTo(m, d) PROVE \A c \in Conn : Talk(c)!Next \/ SameTalk(c)
    <2>1. mgr[m] = "broadcast" /\ d \in todo[m] /\ UNCHANGED <<reader, owed, key>>
      BY <1>3 DEF BroadcastTo, goroutines
    <2>2. Broadcasting /\ conn[d] # "none"
      BY <2>1 DEF BroadcastsMeant, SendInv, Connected
    <2>3. \/ UNCHANGED <<queued, closed>>
          \/ /\ ~closed[d] /\ queued[d] < SendCap
             /\ queued' = [queued EXCEPT ![d] = queued[d] + 1] /\ closed' = closed
          \/ closed' = [closed EXCEPT ![d] = TRUE] /\ queued' = queued
      BY <1>3 DEF BroadcastTo, sendCh
    <2>4. CASE UNCHANGED <<queued, closed>>
      BY <2>1, <2>4 DEF SameTalk
    <2> QED BY <2>1, <2>2, <2>3, <2>4, LoopTalks
  <1>4. CASE \/ EventRegister(m) \/ GreetPanics(m) \/ EventLogin(m) \/ AddUsers(m)
             \/ EventUnregister(m) \/ DelUsers(m) \/ EventBroadcast(m)
    BY <1>4 DEF EventRegister, GreetPanics, EventLogin, AddUsers, EventUnregister, DelUsers,
                EventBroadcast, SameTalk, goroutines, sendCh
  <1> QED BY <1>1, <1>2, <1>3, <1>4 DEF ManagerStep

LEMMA HandlerTalks ==
    ASSUME TypeOK, GreetingsInv, NEW c \in Conn, HandlerStep(c)
    PROVE  (Talk(c)!Next \/ SameTalk(c)) /\ \A d \in Conn \ {c} : SameTalk(d)
  <1>1. CASE Upgrade(c)
    <2>1. handler[c] = "idle" /\ reader' = [reader EXCEPT ![c] = "read"]
          /\ UNCHANGED <<owed, key, queued, closed>>
      BY <1>1 DEF Upgrade, sendCh
    <2>2. reader[c] = "off"
      BY <2>1 DEF GreetingsInv, LoopPerRequest
    <2>3. Talk(c)!Begin
      BY <2>1, <2>2 DEF Talk!Begin, TypeOK
    <2> QED BY <2>1, <2>3 DEF Talk!Next, SameTalk, TypeOK
  <1>2. CASE UpgradeFails(c) \/ SubmitRegister(c) \/ StartManager(c)
    BY <1>2 DEF UpgradeFails, SubmitRegister, StartManager, SameTalk, sendCh
  <1> QED BY <1>1, <1>2 DEF HandlerStep

LEMMA TalkStep ==
    ASSUME TypeOK, Steady, GreetingsInv, SendInv, BroadcastsMeant, [Next]_vars, NEW c \in Conn
    PROVE  [Talk(c)!Next]_(Talk(c)!vars)
  <1>1. ASSUME NEW d \in Conn, Outside(d) PROVE SameTalk(c)
    BY <1>1 DEF Outside, PeerStalls, PeerResumes, PeerLeaves, ClearTimeout, SubmitUnregister,
                SameTalk, goroutines, sendCh
  <1>2. ASSUME SubmitBroadcast \/ Rest \/ UNCHANGED vars PROVE SameTalk(c)
    BY <1>2 DEF SubmitBroadcast, Rest, vars, SameTalk, goroutines, sendCh
  <1>3. Talk(c)!Next \/ SameTalk(c)
    <2>1. ASSUME NEW d \in Conn, HandlerStep(d) PROVE Talk(c)!Next \/ SameTalk(c)
      BY <2>1, HandlerTalks
    <2>2. ASSUME NEW d \in Conn, ReaderStep(d) PROVE Talk(c)!Next \/ SameTalk(c)
      BY <2>2, ReaderTalks
    <2>3. ASSUME NEW d \in Conn, WriterStep(d) PROVE Talk(c)!Next \/ SameTalk(c)
      BY <2>3, WriterTalks
    <2>4. ASSUME NEW m \in Conn, ManagerStep(m) PROVE Talk(c)!Next \/ SameTalk(c)
      BY <2>4, ManagerTalks
    <2> QED BY <1>1, <1>2, <2>1, <2>2, <2>3, <2>4 DEF Next
  <1> QED BY <1>3, SilentTalk

\* Whatever the loops and the other connections do, every connection keeps the
\* conversation; as the hub is deployed, its Read alone closes its Send.
THEOREM ImplementsConversations == Spec => Conversations
  <1> DEFINE Inv == TypeOK /\ Steady /\ GreetingsInv /\ SendInv /\ BroadcastsMeant
  <1>1. Init => Inv /\ \A c \in Conn : Talk(c)!Init
    <2>1. Init => \A c \in Conn : Talk(c)!Init
      BY DEF Init, Talk!Init
    <2> QED BY <2>1, TypeInit, HubInit, GreetingsInit, SendInit, BroadcastsInit DEF Steady
  <1>2. Inv /\ [Next]_vars => Inv'
    BY TypeStep, HubStep, GreetingsStep, SendStep, BroadcastsStep DEF Steady
  <1>3. Inv /\ [Next]_vars => [\A c \in Conn : [Talk(c)!Next]_(Talk(c)!vars)]_vars
    BY TalkStep
  <1> QED BY <1>1, <1>2, <1>3, PTL DEF Spec, Conversations

=============================================================================
