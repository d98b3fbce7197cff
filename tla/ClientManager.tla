--------------------------- MODULE ClientManager ---------------------------
(***************************************************************************)
(* The websocket hub, data_server/ws/websocket: the shared ClientManager   *)
(* (client_manager.go), the Client of every connection (client.go) and the *)
(* goroutines that run them (init_acc.go).                                 *)
(*                                                                         *)
(* StartWebSocket is called once for every HTTP request c \in Conn.  It    *)
(* starts two goroutines for the connection, Read and Write, hands the     *)
(* client to the manager on the channel Register, and then starts ONE MORE *)
(* manager loop: the loops of all requests share the channels and the two  *)
(* maps.  A loop is named after the request that started it.               *)
(*                                                                         *)
(* A step is what one goroutine does up to its next channel operation or   *)
(* lock: a receive and the first critical section that follows it are one  *)
(* step, because nobody can see the value between the two.                 *)
(*                                                                         *)
(* A Go channel with a buffer is a bounded queue.  What is in Send does    *)
(* not matter here, so Send is its length `queued' and its flag `closed';  *)
(* to send on a closed channel, or to close it again, panics.  A panic in  *)
(* Read, Write or SendMsg is recovered; the manager loop has no recover,   *)
(* so a panic there ends the process: `crashed'.                           *)
(***************************************************************************)
EXTENDS Integers, Sequences, FiniteSets

CONSTANTS
    Conn,            \* the websocket requests; also names their client and manager loop
    UserKey,         \* the keys "<appId>_<userId>" of GetUserKey
    NoClient,        \* nil
    NoKey,           \* the key of a client that never logged in
    SendCap,         \* capacity of Client.Send (100)
    Copies,          \* how often a handler has its reply sent: twice when it sets voice
    QueueCap,        \* capacity of Register, Login, Unregister and Broadcast (1000)
    Stalling,        \* the connections whose peer may stop reading
    Leaving,         \* the connections whose socket may go down
    Addrs,           \* the addresses each request may come from
    Unregistering,   \* does somebody send on Unregister?
    Broadcasting     \* does somebody send on Broadcast?

ASSUME CapAssumption == SendCap \in Nat \ {0} /\ QueueCap \in Nat \ {0}
ASSUME CopiesAssumption == Copies \subseteq 1 .. 2
ASSUME PeerAssumption == Stalling \subseteq Conn /\ Leaving \subseteq Conn
ASSUME NilAssumption == NoClient \notin Conn /\ NoKey \notin UserKey
ASSUME FeedAssumption == Unregistering \in BOOLEAN /\ Broadcasting \in BOOLEAN

VARIABLES
    handler,         \* the request's own goroutine, StartWebSocket
    reader,          \* the goroutine running Client.Read
    owed,            \* replies ProcessData still has to send for the current request
    writer,          \* the goroutine running Client.Write
    conn,            \* the socket: down once the peer left or the server closed it
    addr,            \* Client.Addr, the address of the peer
    key,             \* Client.AppId and Client.UserId
    queued, closed,  \* Client.Send
    registerCh, loginCh, unregisterCh, broadcastCh,
    Clients,         \* ClientManager.Clients
    Users,           \* ClientManager.Users
    mgr,             \* the manager loop a request started
    job, jobKey,     \* its local variables: the client and the key at hand
    todo,            \* the connections its broadcast has not reached yet
    crashed          \* an unrecovered panic ended the process

goroutines == <<handler, reader, owed, writer>>
peer       == <<conn, addr>>
sendCh     == <<queued, closed>>
queues     == <<registerCh, loginCh, unregisterCh, broadcastCh>>
registry   == <<Clients, Users>>
loops      == <<mgr, job, jobKey, todo>>
vars == <<goroutines, peer, key, sendCh, queues, registry, loops, crashed>>

\* Where the requests come from
Address == UNION {Addrs[c] : c \in Conn}

LoginRecord == [client : Conn, key : UserKey]

TypeOK ==
    /\ handler \in [Conn -> {"idle", "register", "spawn", "done"}]
    /\ reader \in [Conn -> {"off", "read", "login", "reply", "done"}]
    /\ owed \in [Conn -> 0 .. 2]
    /\ writer \in [Conn -> {"off", "wait", "write", "done"}]
    /\ conn \in [Conn -> {"none", "up", "stalled", "down"}]
    /\ addr \in [Conn -> Address \cup {"none"}]
    /\ key \in [Conn -> UserKey \cup {NoKey}]
    /\ queued \in [Conn -> 0 .. SendCap]
    /\ closed \in [Conn -> BOOLEAN]
    /\ registerCh \in Seq(Conn) /\ Len(registerCh) <= QueueCap
    /\ loginCh \in Seq(LoginRecord) /\ Len(loginCh) <= QueueCap
    /\ unregisterCh \in Seq(Conn) /\ Len(unregisterCh) <= QueueCap
    /\ broadcastCh \in 0 .. QueueCap
    /\ Clients \in SUBSET Conn
    /\ Users \in [UserKey -> Conn \cup {NoClient}]
    /\ mgr \in [Conn -> {"off", "select", "greet", "bind", "unbind", "close", "broadcast"}]
    /\ job \in [Conn -> Conn \cup {NoClient}]
    /\ jobKey \in [Conn -> UserKey \cup {NoKey}]
    /\ todo \in [Conn -> SUBSET Conn]
    /\ \A m \in Conn :
        /\ mgr[m] \in {"greet", "bind", "unbind", "close"} => job[m] # NoClient
        /\ mgr[m] = "bind" => jobKey[m] # NoKey
    /\ \A c \in Conn :
        /\ reader[c] = "login" => key[c] # NoKey
        /\ reader[c] \in {"login", "reply"} => owed[c] # 0
    /\ crashed \in BOOLEAN

Init ==
    /\ handler = [c \in Conn |-> "idle"]
    /\ reader = [c \in Conn |-> "off"]
    /\ owed = [c \in Conn |-> 0]
    /\ writer = [c \in Conn |-> "off"]
    /\ conn = [c \in Conn |-> "none"]
    /\ addr = [c \in Conn |-> "none"]
    /\ key = [c \in Conn |-> NoKey]
    /\ queued = [c \in Conn |-> 0]
    /\ closed = [c \in Conn |-> FALSE]
    /\ registerCh = <<>> /\ loginCh = <<>> /\ unregisterCh = <<>> /\ broadcastCh = 0
    /\ Clients = {}
    /\ Users = [k \in UserKey |-> NoClient]
    /\ mgr = [m \in Conn |-> "off"]
    /\ job = [m \in Conn |-> NoClient]
    /\ jobKey = [m \in Conn |-> NoKey]
    /\ todo = [m \in Conn |-> {}]
    /\ crashed = FALSE

-----------------------------------------------------------------------------
(* StartWebSocket and wsPage: the goroutine of the HTTP request. *)

\* The upgrade works: NewClient, go Read, go Write.  An address, that is a host
\* and a port, is that of another peer only once the other's socket is down.
Upgrade(c) ==
    /\ ~crashed /\ handler[c] = "idle"
    /\ handler' = [handler EXCEPT ![c] = "register"]
    /\ reader' = [reader EXCEPT ![c] = "read"]
    /\ writer' = [writer EXCEPT ![c] = "wait"]
    /\ conn' = [conn EXCEPT ![c] = "up"]
    /\ \E a \in Addrs[c] :
        /\ \A d \in Conn : addr[d] = a => conn[d] = "down"
        /\ addr' = [addr EXCEPT ![c] = a]
    /\ UNCHANGED <<owed, key, sendCh, queues, registry, loops, crashed>>

\* The upgrade fails: wsPage returns, and StartWebSocket still starts a loop.
UpgradeFails(c) ==
    /\ ~crashed /\ handler[c] = "idle"
    /\ handler' = [handler EXCEPT ![c] = "spawn"]
    /\ UNCHANGED <<reader, owed, writer, peer, key, sendCh, queues, registry, loops, crashed>>

\* clientManager.Register <- client, after the two goroutines are running.
SubmitRegister(c) ==
    /\ ~crashed /\ handler[c] = "register"
    /\ Len(registerCh) < QueueCap
    /\ registerCh' = Append(registerCh, c)
    /\ handler' = [handler EXCEPT ![c] = "spawn"]
    /\ UNCHANGED <<reader, owed, writer, peer, key, sendCh, loginCh, unregisterCh,
                   broadcastCh, registry, loops, crashed>>

\* Mutant of StartManager: only the first request starts a loop.
StartOnlyOneManager(c) ==
    /\ ~crashed /\ handler[c] = "spawn"
    /\ handler' = [handler EXCEPT ![c] = "done"]
    /\ mgr' = IF \E m \in Conn : mgr[m] # "off" THEN mgr ELSE [mgr EXCEPT ![c] = "select"]
    /\ UNCHANGED <<reader, owed, writer, peer, key, sendCh, queues, registry,
                   job, jobKey, todo, crashed>>

\* go clientManager.start()
StartManager(c) ==
    /\ ~crashed /\ handler[c] = "spawn"
    /\ handler' = [handler EXCEPT ![c] = "done"]
    /\ mgr' = [mgr EXCEPT ![c] = "select"]
    /\ UNCHANGED <<reader, owed, writer, peer, key, sendCh, queues, registry,
                   job, jobKey, todo, crashed>>

-----------------------------------------------------------------------------
(* Client.Read, ProcessData and AuthController. *)

\* Read waits for a request.  One may still arrive after the peer left or the
\* socket was closed: frames that were received before are buffered.
CanRead(c) == reader[c] = "read"

\* A request that logs nobody in; the handler asks for a second copy of the
\* reply when it returns voice = true.  (A request whose handler panics is
\* dropped: that step changes nothing.)
ReadRequest(c) ==
    /\ ~crashed /\ CanRead(c)
    /\ \E n \in Copies : owed' = [owed EXCEPT ![c] = n]
    /\ reader' = [reader EXCEPT ![c] = "reply"]
    /\ UNCHANGED <<handler, writer, peer, key, sendCh, queues, registry, loops, crashed>>

\* Mutant of Authenticate: AuthController does not ask IsLogin.
AuthenticateAgain(c, k) ==
    /\ ~crashed /\ CanRead(c)
    /\ key' = [key EXCEPT ![c] = k]
    /\ owed' = [owed EXCEPT ![c] = 1]
    /\ reader' = [reader EXCEPT ![c] = "login"]
    /\ UNCHANGED <<handler, writer, peer, sendCh, queues, registry, loops, crashed>>

\* Mutant of Authenticate: the manager is told before client.Login.
AuthenticateLate(c, k) ==
    /\ ~crashed /\ CanRead(c)
    /\ key[c] = NoKey
    /\ owed' = [owed EXCEPT ![c] = 1]
    /\ reader' = [reader EXCEPT ![c] = "login"]
    /\ UNCHANGED <<handler, writer, peer, key, sendCh, queues, registry, loops, crashed>>

\* AuthController accepts a client that is not logged in: client.Login.
Authenticate(c, k) ==
    /\ ~crashed /\ CanRead(c)
    /\ key[c] = NoKey
    /\ key' = [key EXCEPT ![c] = k]
    /\ owed' = [owed EXCEPT ![c] = 1]
    /\ reader' = [reader EXCEPT ![c] = "login"]
    /\ UNCHANGED <<handler, writer, peer, sendCh, queues, registry, loops, crashed>>

\* clientManager.Login <- login
SubmitLogin(c) ==
    /\ ~crashed /\ reader[c] = "login"
    /\ Len(loginCh) < QueueCap
    /\ loginCh' = Append(loginCh, [client |-> c, key |-> key[c]])
    /\ reader' = [reader EXCEPT ![c] = "reply"]
    /\ UNCHANGED <<handler, owed, writer, peer, key, sendCh, registerCh, unregisterCh,
                   broadcastCh, registry, loops, crashed>>

\* SendMsg waits for room in Send; on a closed Send it recovers and drops.
SendMsg(c) ==
    \/ closed[c] /\ UNCHANGED queued
    \/ ~closed[c] /\ queued[c] < SendCap /\ queued' = [queued EXCEPT ![c] = @ + 1]

\* client.SendMsg(headByte), once or twice
Reply(c) ==
    /\ ~crashed /\ reader[c] = "reply"
    /\ SendMsg(c)
    /\ owed' = [owed EXCEPT ![c] = @ - 1]
    /\ reader' = [reader EXCEPT ![c] = IF owed[c] = 1 THEN "read" ELSE "reply"]
    /\ UNCHANGED <<handler, writer, peer, key, closed, queues, registry, loops, crashed>>

\* The reply cannot be encoded: json.Marshal fails and ProcessData returns, before
\* the first copy or between the two.
MarshalFails(c) ==
    /\ ~crashed /\ reader[c] = "reply"
    /\ owed' = [owed EXCEPT ![c] = 0]
    /\ reader' = [reader EXCEPT ![c] = "read"]
    /\ UNCHANGED <<handler, writer, peer, key, sendCh, queues, registry, loops, crashed>>

\* Mutant of ReaderFails: Read returns without closing Send.
ReaderLeavesSendOpen(c) ==
    /\ ~crashed /\ reader[c] = "read"
    /\ reader' = [reader EXCEPT ![c] = "done"]
    /\ UNCHANGED <<handler, owed, writer, peer, key, sendCh, queues, registry, loops, crashed>>

\* ReadMessage fails: Read returns and its deferred function closes Send.  When
\* Send is closed already, the panic is recovered by the outer deferred function.
ReaderFails(c) ==
    /\ ~crashed /\ reader[c] = "read"
    /\ reader' = [reader EXCEPT ![c] = "done"]
    /\ closed' = [closed EXCEPT ![c] = TRUE]
    /\ UNCHANGED <<handler, owed, writer, peer, key, queued, queues, registry, loops, crashed>>

-----------------------------------------------------------------------------
(* Client.Write *)

\* message, ok := <-c.Send
WriterTakes(c) ==
    /\ ~crashed /\ writer[c] = "wait" /\ queued[c] > 0
    /\ queued' = [queued EXCEPT ![c] = @ - 1]
    /\ writer' = [writer EXCEPT ![c] = "write"]
    /\ UNCHANGED <<handler, reader, owed, peer, key, closed, queues, registry, loops, crashed>>

\* WriteMessage has no deadline: it waits while the peer does not read.  Its
\* error is ignored, so a write to a dead socket is over at once.
WriterWrites(c) ==
    /\ ~crashed /\ writer[c] = "write" /\ conn[c] # "stalled"
    /\ writer' = [writer EXCEPT ![c] = "wait"]
    /\ UNCHANGED <<handler, reader, owed, peer, key, sendCh, queues, registry, loops, crashed>>

\* Mutant of WriterStops: the deferred function that client.go:104-108 comments
\* out is back, Unregister <- c and Socket.Close().
WriterUnregisters(c) ==
    /\ ~crashed /\ writer[c] = "wait" /\ queued[c] = 0 /\ closed[c]
    /\ Len(unregisterCh) < QueueCap
    /\ unregisterCh' = Append(unregisterCh, c)
    /\ conn' = [conn EXCEPT ![c] = "down"]
    /\ writer' = [writer EXCEPT ![c] = "done"]
    /\ UNCHANGED <<handler, reader, owed, addr, key, sendCh, registerCh, loginCh, broadcastCh,
                   registry, loops, crashed>>

\* Send is closed and empty: Write returns, without closing the socket.
WriterStops(c) ==
    /\ ~crashed /\ writer[c] = "wait" /\ queued[c] = 0 /\ closed[c]
    /\ writer' = [writer EXCEPT ![c] = "done"]
    /\ UNCHANGED <<handler, reader, owed, peer, key, sendCh, queues, registry, loops, crashed>>

-----------------------------------------------------------------------------
(* ClientManager.start: each receive of the select is an action.  An event  *)
(* handler that blocks or takes a second lock goes on in later steps.       *)

Idle(m) ==
    /\ mgr' = [mgr EXCEPT ![m] = "select"]
    /\ job' = [job EXCEPT ![m] = NoClient]
    /\ jobKey' = [jobKey EXCEPT ![m] = NoKey]
    /\ UNCHANGED todo

Busy(m, pc, c) ==
    /\ mgr' = [mgr EXCEPT ![m] = pc]
    /\ job' = [job EXCEPT ![m] = c]
    /\ UNCHANGED <<jobKey, todo>>

Panic == crashed' = TRUE

\* conn := <-manager.Register; EventRegister starts with AddClients
EventRegister(m) ==
    /\ ~crashed /\ mgr[m] = "select" /\ registerCh # <<>>
    /\ registerCh' = Tail(registerCh)
    /\ Clients' = Clients \cup {Head(registerCh)}
    /\ Busy(m, "greet", Head(registerCh))
    /\ UNCHANGED <<goroutines, peer, key, sendCh, loginCh, unregisterCh, broadcastCh,
                   Users, crashed>>

\* Mutant of Greet: a select with a default case, as for a broadcast, which
\* closes a Send that is full.
GreetOrClose(m) ==
    /\ ~crashed /\ mgr[m] = "greet" /\ ~closed[job[m]]
    /\ IF queued[job[m]] < SendCap
       THEN queued' = [queued EXCEPT ![job[m]] = @ + 1] /\ UNCHANGED closed
       ELSE closed' = [closed EXCEPT ![job[m]] = TRUE] /\ UNCHANGED queued
    /\ Idle(m)
    /\ UNCHANGED <<goroutines, peer, key, queues, registry, crashed>>

\* client.Send <- "connection succeeded": waits for room
Greet(m) ==
    /\ ~crashed /\ mgr[m] = "greet"
    /\ ~closed[job[m]] /\ queued[job[m]] < SendCap
    /\ queued' = [queued EXCEPT ![job[m]] = @ + 1]
    /\ Idle(m)
    /\ UNCHANGED <<goroutines, peer, key, closed, queues, registry, crashed>>

\* ... and panics when Read has closed Send in the meantime
GreetPanics(m) ==
    /\ ~crashed /\ mgr[m] = "greet" /\ closed[job[m]]
    /\ Panic
    /\ UNCHANGED <<goroutines, peer, key, sendCh, queues, registry, loops>>

\* Mutant of EventLogin: the client is not looked up.
EventLoginUnchecked(m) ==
    /\ ~crashed /\ mgr[m] = "select" /\ loginCh # <<>>
    /\ loginCh' = Tail(loginCh)
    /\ mgr' = [mgr EXCEPT ![m] = "bind"]
    /\ job' = [job EXCEPT ![m] = Head(loginCh).client]
    /\ jobKey' = [jobKey EXCEPT ![m] = Head(loginCh).key]
    /\ UNCHANGED <<goroutines, peer, key, sendCh, registerCh, unregisterCh, broadcastCh,
                   registry, todo, crashed>>

\* login := <-manager.Login; EventLogin looks the client up with InClient
EventLogin(m) ==
    /\ ~crashed /\ mgr[m] = "select" /\ loginCh # <<>>
    /\ loginCh' = Tail(loginCh)
    /\ LET l == Head(loginCh) IN
        IF l.client \in Clients
        THEN /\ mgr' = [mgr EXCEPT ![m] = "bind"]
             /\ job' = [job EXCEPT ![m] = l.client]
             /\ jobKey' = [jobKey EXCEPT ![m] = l.key]
        ELSE UNCHANGED <<mgr, job, jobKey>>
    /\ UNCHANGED <<goroutines, peer, key, sendCh, registerCh, unregisterCh, broadcastCh,
                   registry, todo, crashed>>

\* AddUsers, under a lock of its own
AddUsers(m) ==
    /\ ~crashed /\ mgr[m] = "bind"
    /\ Users' = [Users EXCEPT ![jobKey[m]] = job[m]]
    /\ Idle(m)
    /\ UNCHANGED <<goroutines, peer, key, sendCh, queues, Clients, crashed>>

\* conn := <-manager.Unregister; EventUnregister starts with DelClients
EventUnregister(m) ==
    /\ ~crashed /\ mgr[m] = "select" /\ unregisterCh # <<>>
    /\ unregisterCh' = Tail(unregisterCh)
    /\ Clients' = Clients \ {Head(unregisterCh)}
    /\ Busy(m, "unbind", Head(unregisterCh))
    /\ UNCHANGED <<goroutines, peer, key, sendCh, registerCh, loginCh, broadcastCh,
                   Users, crashed>>

\* The key DelUsers computes: it reads AppId and UserId without the goroutine
\* that writes them, so until Login <- login it may read the old values.
KeysRead(c) == IF reader[c] = "login" THEN {NoKey, key[c]} ELSE {key[c]}

\* Mutant of DelUsers: value.Addr is not compared with client.Addr.
DelUsersOfAnyone(m) ==
    /\ ~crashed /\ mgr[m] = "unbind"
    /\ \E k \in KeysRead(job[m]) :
        IF k # NoKey /\ Users[k] # NoClient
        THEN /\ Users' = [Users EXCEPT ![k] = NoClient]
             /\ mgr' = [mgr EXCEPT ![m] = "close"]
             /\ UNCHANGED <<job, jobKey, todo>>
        ELSE Idle(m) /\ UNCHANGED Users
    /\ UNCHANGED <<goroutines, peer, key, sendCh, queues, Clients, crashed>>

\* DelUsers: the entry goes when its client has the address of this one, as this
\* client itself has, and every later one from the same address; otherwise
\* EventUnregister is over.  A UserId of which only the length is written yet
\* cannot be read: the loop panics.
DelUsers(m) ==
    /\ ~crashed /\ mgr[m] = "unbind"
    /\ \/ \E k \in KeysRead(job[m]) :
           /\ IF k # NoKey /\ Users[k] # NoClient /\ addr[Users[k]] = addr[job[m]]
              THEN /\ Users' = [Users EXCEPT ![k] = NoClient]
                   /\ mgr' = [mgr EXCEPT ![m] = "close"]
                   /\ UNCHANGED <<job, jobKey, todo>>
              ELSE Idle(m) /\ UNCHANGED Users
           /\ UNCHANGED crashed
       \/ /\ reader[job[m]] = "login"
          /\ Panic
          /\ UNCHANGED <<Users, loops>>
    /\ UNCHANGED <<goroutines, peer, key, sendCh, queues, Clients>>

\* close(client.Send)
CloseSend(m) ==
    /\ ~crashed /\ mgr[m] = "close"
    /\ IF closed[job[m]]
       THEN Panic /\ UNCHANGED <<closed, loops>>
       ELSE closed' = [closed EXCEPT ![job[m]] = TRUE] /\ Idle(m) /\ UNCHANGED crashed
    /\ UNCHANGED <<goroutines, peer, key, queued, queues, registry>>

\* message := <-manager.Broadcast; the connections come from GetClients
EventBroadcast(m) ==
    /\ ~crashed /\ mgr[m] = "select" /\ broadcastCh > 0
    /\ broadcastCh' = broadcastCh - 1
    /\ todo' = [todo EXCEPT ![m] = Clients]
    /\ mgr' = [mgr EXCEPT ![m] = IF Clients = {} THEN "select" ELSE "broadcast"]
    /\ UNCHANGED <<goroutines, peer, key, sendCh, registerCh, loginCh, unregisterCh,
                   registry, job, jobKey, crashed>>

\* select { case conn.Send <- message: default: close(conn.Send) }
BroadcastTo(m, c) ==
    /\ ~crashed /\ mgr[m] = "broadcast" /\ c \in todo[m]
    /\ \/ /\ closed[c]
          /\ Panic
          /\ UNCHANGED <<sendCh, loops>>
       \/ /\ ~closed[c]
          /\ IF queued[c] < SendCap
             THEN queued' = [queued EXCEPT ![c] = @ + 1] /\ UNCHANGED closed
             ELSE closed' = [closed EXCEPT ![c] = TRUE] /\ UNCHANGED queued
          /\ todo' = [todo EXCEPT ![m] = @ \ {c}]
          /\ mgr' = [mgr EXCEPT ![m] = IF todo[m] = {c} THEN "select" ELSE "broadcast"]
          /\ UNCHANGED <<job, jobKey, crashed>>
    /\ UNCHANGED <<goroutines, peer, key, queues, registry>>

ManagerStep(m) ==
    \/ EventRegister(m) \/ Greet(m) \/ GreetPanics(m)
    \/ EventLogin(m) \/ AddUsers(m)
    \/ EventUnregister(m) \/ DelUsers(m) \/ CloseSend(m)
    \/ EventBroadcast(m) \/ \E c \in Conn : BroadcastTo(m, c)

-----------------------------------------------------------------------------
(* The peers, and the callers of the package. *)

\* The peer stops reading (which only Write can notice), reads again, or
\* disconnects.
PeerStalls(c) ==
    /\ ~crashed /\ c \in Stalling /\ conn[c] = "up" /\ writer[c] # "done"
    /\ conn' = [conn EXCEPT ![c] = "stalled"]
    /\ UNCHANGED <<goroutines, addr, key, sendCh, queues, registry, loops, crashed>>

PeerResumes(c) ==
    /\ ~crashed /\ conn[c] = "stalled"
    /\ conn' = [conn EXCEPT ![c] = "up"]
    /\ UNCHANGED <<goroutines, addr, key, sendCh, queues, registry, loops, crashed>>

PeerLeaves(c) ==
    /\ ~crashed /\ c \in Leaving /\ conn[c] \in {"up", "stalled"}
    /\ conn' = [conn EXCEPT ![c] = "down"]
    /\ UNCHANGED <<goroutines, addr, key, sendCh, queues, registry, loops, crashed>>

\* ClearTimeoutConnections, exported and called from outside, finds the
\* heartbeat of a client of GetClients expired: client.Socket.Close()
ClearTimeout(c) ==
    /\ ~crashed /\ c \in Leaving /\ c \in Clients /\ conn[c] # "down"
    /\ conn' = [conn EXCEPT ![c] = "down"]
    /\ UNCHANGED <<goroutines, addr, key, sendCh, queues, registry, loops, crashed>>

\* A caller inside the package sends on Unregister or Broadcast.  No line of the
\* repository does: the two constants say whether the model adds such a caller.
SubmitUnregister(c) ==
    /\ ~crashed /\ Unregistering /\ conn[c] # "none"
    /\ Len(unregisterCh) < QueueCap
    /\ unregisterCh' = Append(unregisterCh, c)
    /\ UNCHANGED <<goroutines, peer, key, sendCh, registerCh, loginCh, broadcastCh,
                   registry, loops, crashed>>

SubmitBroadcast ==
    /\ ~crashed /\ Broadcasting /\ broadcastCh < QueueCap
    /\ broadcastCh' = broadcastCh + 1
    /\ UNCHANGED <<goroutines, peer, key, sendCh, registerCh, loginCh, unregisterCh,
                   registry, loops, crashed>>

-----------------------------------------------------------------------------
\* The process may rest: it has died, or every connection is over and every
\* loop waits at its select.  Any other state without a step is a deadlock.
AtRest ==
    \/ crashed
    \/ /\ \A c \in Conn : /\ handler[c] = "done"
                          /\ reader[c] \in {"off", "done"} /\ writer[c] \in {"off", "done"}
                          /\ mgr[c] = "select"
       /\ registerCh = <<>> /\ loginCh = <<>> /\ unregisterCh = <<>> /\ broadcastCh = 0

Rest == AtRest /\ UNCHANGED vars

HandlerStep(c) == Upgrade(c) \/ UpgradeFails(c) \/ SubmitRegister(c) \/ StartManager(c)

ReaderStep(c) ==
    \/ ReadRequest(c) \/ \E k \in UserKey : Authenticate(c, k)
    \/ SubmitLogin(c) \/ Reply(c) \/ MarshalFails(c) \/ ReaderFails(c)

WriterStep(c) == WriterTakes(c) \/ WriterWrites(c) \/ WriterStops(c)

Outside(c) ==
    \/ PeerStalls(c) \/ PeerResumes(c) \/ PeerLeaves(c)
    \/ ClearTimeout(c) \/ SubmitUnregister(c)

Next ==
    \/ \E c \in Conn : HandlerStep(c)
    \/ \E c \in Conn : ReaderStep(c)
    \/ \E c \in Conn : WriterStep(c)
    \/ \E m \in Conn : ManagerStep(m)
    \/ \E c \in Conn : Outside(c)
    \/ SubmitBroadcast
    \/ Rest

\* The Go scheduler runs every goroutine that is able to go on.  The fairness is
\* strong for the loops, because a channel serves blocked goroutines in their
\* order: a greeting is not overtaken by replies for ever.  It is strong for the
\* end of Read, because only finitely many frames are buffered on a dead socket.
\* Nothing is assumed of peers and callers: they need not send, read, leave or
\* sweep.
Fairness ==
    /\ \A c \in Conn : WF_vars(SubmitRegister(c) \/ StartManager(c))
    /\ \A c \in Conn : WF_vars(SubmitLogin(c) \/ Reply(c))
    /\ \A c \in Conn : SF_vars(ReaderFails(c) /\ conn[c] = "down")
    /\ \A c \in Conn : WF_vars(WriterStep(c))
    /\ \A m \in Conn : SF_vars(ManagerStep(m))

Spec == Init /\ [][Next]_vars

FairSpec == Spec /\ Fairness

-----------------------------------------------------------------------------
(* What the hub guarantees as it is deployed, where no line of the          *)
(* repository sends on Unregister.  Nor does one send on Broadcast, but     *)
(* these properties do not depend on that.                                  *)

\* A user is reachable (AddUsers) only through a connection that the manager
\* knows (InClient) and that logged in as this user (client.Login).
UsersOnline ==
    \A k \in UserKey : Users[k] # NoClient => Users[k] \in Clients /\ key[Users[k]] = k

\* Why UsersOnline holds: nothing leaves Clients, and every login that is queued,
\* or was looked up and waits for AddUsers, still tells who the client is.
NobodyUnregisters ==
    unregisterCh = <<>> /\ \A m \in Conn : mgr[m] \notin {"unbind", "close"}

LoginsGenuine == \A i \in DOMAIN loginCh : key[loginCh[i].client] = loginCh[i].key

BindsGenuine ==
    \A m \in Conn : mgr[m] = "bind" => job[m] \in Clients /\ key[job[m]] = jobKey[m]

HubInv == NobodyUnregisters /\ LoginsGenuine /\ BindsGenuine /\ UsersOnline

\* What is left of it when connections are unregistered: a login still tells who
\* the client is, and nobody is stored under another user's key.
BindsNamed == \A m \in Conn : mgr[m] = "bind" => key[job[m]] = jobKey[m]

UsersNamed == \A k \in UserKey : Users[k] # NoClient => key[Users[k]] = k

NamesInv == LoginsGenuine /\ BindsNamed /\ UsersNamed

\* The process dies in one way only, when a loop sends on a Send that is closed:
\* Read has closed it before the greeting of EventRegister got there or, where
\* somebody broadcasts, a broadcast has closed it because it was full.
CrashOnlyOnClosedSend ==
    crashed => \E m \in Conn : \/ mgr[m] = "greet" /\ closed[job[m]]
                               \/ mgr[m] = "broadcast" /\ \E c \in todo[m] : closed[c]

\* The clients for which a loop is at pc
Working(pc) == {job[m] : m \in {n \in Conn : mgr[n] = pc}}

\* Seen through Clients, the login of each Client, Users, and what the loops have
\* under way between two locks, the hub is the Presence specification, with and
\* without callers that unregister.
P == INSTANCE Presence WITH
    connected <- Clients, identity <- key, online <- Users,
    admitted <- Working("bind"), leaving <- Working("unbind")
Presence == P!Spec

\* Every connection is a Conversation, whatever the loops and the other ones do:
\* one login, one request at a time, and a Send that only its own Read closes
\* unless somebody unregisters connections or broadcasts.
Talk(c) == INSTANCE Conversation WITH
    HubCloses <- Unregistering \/ Broadcasting,
    stage <- reader[c], owed <- owed[c], loggedIn <- key[c] # NoKey,
    waiting <- queued[c], closed <- closed[c]

Conversations ==
    /\ \A c \in Conn : Talk(c)!Init
    /\ [][\A c \in Conn : [Talk(c)!Next]_(Talk(c)!vars)]_vars

\* Who closes Send: Read, or a loop that has something to unregister, see
\* NobodyUnregisters, or to broadcast.
BroadcastsMeant == ~Broadcasting => broadcastCh = 0 /\ \A m \in Conn : mgr[m] # "broadcast"

\* Why a registration and a login do not starve, however many loops are stuck in
\* the greetings of peers that do not read.  A loop can serve c unless it greets
\* somebody else; a loop that is about to be started counts.
CanServe(m, c) ==
    \/ handler[m] = "spawn"
    \/ mgr[m] \notin {"off", "greet"}
    \/ mgr[m] = "greet" /\ job[m] = c

\* For every registration in the channel there is such a loop; and for every
\* login too, but when the request of this very client is still to register,
\* and then Register is empty and lets it go on to start its loop.
LoopLeft ==
    /\ \A i \in DOMAIN registerCh : \E m \in Conn : CanServe(m, registerCh[i])
    /\ \A i \in DOMAIN loginCh :
        \/ \E m \in Conn : CanServe(m, loginCh[i].client)
        \/ handler[loginCh[i].client] = "register" /\ registerCh = <<>>

\* The reason is a count.  A client is registered once and then greeted once, by
\* one loop, and only after its own request has registered it; so the loops that
\* are stuck are at most as many as the clients whose registration was received.
RegisteredOnce ==
    /\ \A i \in DOMAIN registerCh : handler[registerCh[i]] \in {"spawn", "done"}
    /\ \A i, j \in DOMAIN registerCh : registerCh[i] = registerCh[j] => i = j

GreetedOnce ==
    /\ \A m \in Conn : mgr[m] = "greet" =>
        /\ handler[job[m]] \in {"spawn", "done"}
        /\ \A i \in DOMAIN registerCh : registerCh[i] # job[m]
    /\ \A m, n \in Conn : mgr[m] = "greet" /\ mgr[n] = "greet" /\ job[m] = job[n] => m = n

LoopPerRequest ==
    /\ \A c \in Conn : handler[c] = "done" <=> mgr[c] # "off"
    /\ \A c \in Conn : reader[c] # "off" => handler[c] # "idle"
    /\ \A i \in DOMAIN loginCh : handler[loginCh[i].client] # "idle"
    /\ IsFiniteSet({c \in Conn : handler[c] # "idle"})

GreetingsInv == RegisteredOnce /\ GreetedOnce /\ LoopPerRequest

\* A connection handed to Register is taken into Clients, though every loop may
\* be stuck in the greeting of a peer that does not read: each of these loops is
\* stuck in a greeting of its own, and StartWebSocket starts one per request.
RegistrationServed ==
    \A c \in Conn : handler[c] = "spawn" /\ conn[c] # "none" ~> c \in Clients \/ crashed

\* A login is decided, InClient has refused it or AddUsers has stored it, unless
\* this very peer stops reading: the loops that other peers keep waiting in their
\* greetings leave one that gets to it.  Read is never stuck in Login <- login.
Decided(c) ==
    /\ reader[c] # "login"
    /\ \A i \in DOMAIN loginCh : loginCh[i].client # c
    /\ \A m \in Conn : ~(mgr[m] = "bind" /\ job[m] = c)

LoginDecided ==
    \A c \in Conn : key[c] # NoKey ~> Decided(c) \/ conn[c] = "stalled" \/ crashed

\* A login that was refused because it came before EventRegister, or a user that
\* was taken offline, is lost for good: the client stays logged in (IsLogin), so
\* nothing brings its user back into Users as long as the connection lasts.
Unreachable(c) == key[c] # NoKey /\ Decided(c) /\ \A k \in UserKey : Users[k] # c

UnreachableForGood == [][\A c \in Conn : Unreachable(c) => Unreachable(c)']_vars

\* When the peer has left or ClearTimeoutConnections has closed the socket, both
\* goroutines of the connection end, whatever the other peers do.
ConnectionTornDown ==
    \A c \in Conn : conn[c] = "down" ~>
                        (reader[c] = "done" /\ writer[c] = "done") \/ crashed

\* A goroutine can go on: a step that Fairness speaks of is possible.  The
\* disjuncts are the guards of these actions, in the order of the goroutines.
Runnable ==
    \E c \in Conn :
        \/ handler[c] = "register" /\ Len(registerCh) < QueueCap
        \/ handler[c] = "spawn"
        \/ reader[c] = "login" /\ Len(loginCh) < QueueCap
        \/ reader[c] = "reply" /\ (closed[c] \/ queued[c] < SendCap)
        \/ reader[c] = "read" /\ conn[c] = "down"
        \/ writer[c] = "wait" /\ (closed[c] \/ queued[c] > 0)
        \/ writer[c] = "write" /\ conn[c] # "stalled"
        \/ /\ mgr[c] = "select"
           /\ registerCh # <<>> \/ loginCh # <<>> \/ unregisterCh # <<>> \/ broadcastCh > 0
        \/ mgr[c] = "greet" /\ (closed[job[c]] \/ queued[job[c]] < SendCap)
        \/ mgr[c] \in {"bind", "unbind", "close", "broadcast"}

\* All that was begun for the connection is finished.
Settled(c) ==
    /\ reader[c] \in {"off", "read", "done"} /\ writer[c] \in {"off", "wait", "done"}
    /\ queued[c] = 0
    /\ conn[c] = "down" => reader[c] = "done" /\ writer[c] = "done"
    /\ \A i \in DOMAIN loginCh : loginCh[i].client # c
    /\ \A m \in Conn : mgr[m] \in {"greet", "bind"} => job[m] # c

\* The goroutines do not come to wait for one another: when none of them can go
\* on, every request has started its loop, every connection is registered, and
\* only what peers that stopped reading hold up themselves is left unfinished.
NobodyHeldUp ==
    ~crashed /\ ~Runnable =>
        /\ registerCh = <<>>
        /\ \A c \in Conn :
            /\ handler[c] \in {"idle", "done"}
            /\ conn[c] # "none" => c \in Clients \/ Unregistering
            /\ conn[c] # "stalled" => Settled(c)

\* Why it holds, next to GreetingsInv: who closes Send and who empties it, that
\* only connections are sent to, and that none gets lost on the way to Clients.
Drained(c) ==
    /\ conn[c] = "none" <=> reader[c] = "off"
    /\ writer[c] = "off" <=> reader[c] = "off"
    /\ reader[c] = "done" => closed[c]
    /\ writer[c] = "off" => queued[c] = 0
    /\ writer[c] = "done" => closed[c] /\ queued[c] = 0

Connected ==
    /\ \A c \in Conn : handler[c] = "register" => conn[c] # "none"
    /\ \A i \in DOMAIN registerCh : conn[registerCh[i]] # "none"
    /\ \A c \in Clients : conn[c] # "none"
    /\ \A m \in Conn : /\ mgr[m] = "greet" => conn[job[m]] # "none"
                       /\ \A c \in todo[m] : conn[c] # "none"

SendInv == (\A c \in Conn : Drained(c)) /\ Connected

NoneLost ==
    \A c \in Conn : conn[c] # "none" =>
        \/ handler[c] = "register" \/ c \in Clients \/ Unregistering
        \/ \E i \in DOMAIN registerCh : registerCh[i] = c

-----------------------------------------------------------------------------
(* What is left of it once somebody unregisters and broadcasts.             *)

Open(c) == conn[c] \in {"up", "stalled"}

\* Addresses are compared and not clients, and dead clients stay in Users; all
\* the same, of two connections that are both open neither takes offline the user
\* that is reached through the other one, however late it is unregistered.
OpenUsersKept ==
    [][\A k \in UserKey : Users[k] # NoClient /\ Users'[k] = NoClient =>
        \E m \in Conn : /\ mgr[m] = "unbind"
                        /\ job[m] # Users[k] => ~(Open(job[m]) /\ Open(Users[k]))]_vars

\* Why: peers that are connected at the same time have different addresses.
AddrsDiffer ==
    \A c, d \in Conn : c # d /\ Open(c) /\ Open(d) => addr[c] # addr[d]

-----------------------------------------------------------------------------
(* What the comments promise and the code does not do.                      *)

\* client_manager.go:23 calls Users the users that are logged in.  So: when no
\* event is under way, the user of every client that is connected and logged in
\* is listed.
LoggedInUsersListed ==
    (/\ registerCh = <<>> /\ loginCh = <<>> /\ unregisterCh = <<>>
     /\ \A m \in Conn : mgr[m] \in {"off", "select"}
     /\ \A c \in Conn : handler[c] \notin {"register", "spawn"} /\ reader[c] # "login")
    => \A c \in Clients : key[c] # NoKey => Users[key[c]] # NoClient

=============================================================================
