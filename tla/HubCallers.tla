----------------------------- MODULE HubCallers -----------------------------
(***************************************************************************)
(* The code that uses the hub from outside its goroutines: SendUserMessage *)
(* of the user service (data_server/ws/websocket/user_srv.go), sendAll,    *)
(* sendAppIdAll, the user lists and ClearTimeoutConnections                *)
(* (client_manager.go).  The hub itself is Presence, which ClientManager   *)
(* implements: all these callers see of it is Users and Clients, each read *)
(* under its lock.                                                         *)
(*                                                                         *)
(* One caller is enough.  Callers share nothing but the hub, and the hub   *)
(* does not notice that it is read; what other sweeps close is not counted *)
(* here.  A step is what the caller does under one lock, or one send.      *)
(*                                                                         *)
(* What is in Client.Send is in ClientManager.  Here SendMsg either puts   *)
(* the message there or, when Send is closed, drops it; a caller that      *)
(* waits for room just takes no step.                                      *)
(***************************************************************************)
EXTENDS Integers

CONSTANTS
    Conn, UserKey, NoClient, NoKey, Unregistering,   \* as in Presence
    AppKeys,         \* the keys with the AppId that sendAppIdAll is called with
    Timeout,         \* heartbeatExpirationTime (360 seconds)
    MaxTime,         \* bound on the clock
    Word             \* 2^64: times are uint64

ASSUME NilAssumption == NoClient \notin Conn /\ NoKey \notin UserKey
ASSUME AppAssumption == AppKeys \subseteq UserKey
ASSUME FeedAssumption == Unregistering \in BOOLEAN
ASSUME TimeAssumption ==
    Timeout \in Nat \ {0} /\ MaxTime \in Nat /\ Word \in Nat /\ MaxTime + Timeout < Word

VARIABLES
    connected, identity, online,   \* the hub: Clients, the login of each client, Users
    admitted, leaving,             \* what its loops have under way between two locks
    socket,          \* Client.Socket
    heartbeat,       \* Client.HeartbeatTime
    loginTime,       \* currentTime of the client's AuthController
    now,             \* the clock
    pc,              \* where the caller is
    wanted,          \* SendUserMessage: the user; NoKey in the other calls
    found,           \* the client at hand
    result,          \* what SendUserMessage returns
    todo,            \* sendAll: the entries of Users that are left
    byApp,           \* is it sendAppIdAll?
    ignored,         \* ignoreClient
    got,             \* the copies put into each Send by this call (history)
    sweepTime,       \* ClearTimeoutConnections: its currentTime
    clients,         \* the copy GetClients made
    suspects,        \* those of it that the sweep has still to look at
    returned         \* has `found' logged in since the sweep decided on it? (history)

Hub == INSTANCE Presence

hub    == <<connected, identity, online, admitted, leaving>>
client == <<socket, heartbeat, loginTime>>
user   == <<wanted, result>>
all    == <<todo, byApp, ignored>>
sweep  == <<sweepTime, clients, suspects>>
vars   == <<hub, client, now, pc, user, found, all, got, sweep, returned>>

Time == 0 .. MaxTime
Entry == UserKey \X Conn

TypeOK ==
    /\ connected \subseteq Conn
    /\ identity \in [Conn -> UserKey \cup {NoKey}]
    /\ online \in [UserKey -> Conn \cup {NoClient}]
    /\ admitted \in SUBSET Conn /\ leaving \in SUBSET Conn
    /\ socket \in [Conn -> {"none", "open", "closed"}]
    /\ heartbeat \in [Conn -> Time]
    /\ loginTime \in [Conn -> Time]
    /\ now \in Time
    /\ pc \in {"idle", "local", "send", "sendAll", "snapshot", "sweep", "close", "return"}
    /\ wanted \in UserKey \cup {NoKey}
    /\ found \in Conn \cup {NoClient}
    /\ pc \in {"send", "close"} => found # NoClient
    /\ pc \in {"local", "send"} => wanted # NoKey
    /\ result \in {"none", "sent", "offline"}
    /\ todo \subseteq Entry
    /\ byApp \in BOOLEAN
    /\ ignored \in Conn \cup {NoClient}
    /\ got \in [Conn -> Nat]
    /\ sweepTime \in Time
    /\ suspects \subseteq clients /\ clients \subseteq Conn
    /\ returned \in BOOLEAN

Init ==
    /\ Hub!Init
    /\ socket = [c \in Conn |-> "none"]
    /\ heartbeat = [c \in Conn |-> 0]
    /\ loginTime = [c \in Conn |-> 0]
    /\ now = 0
    /\ pc = "idle" /\ wanted = NoKey /\ result = "none" /\ found = NoClient
    /\ todo = {} /\ byApp = FALSE /\ ignored = NoClient
    /\ got = [c \in Conn |-> 0]
    /\ sweepTime = 0 /\ clients = {} /\ suspects = {} /\ returned = FALSE

-----------------------------------------------------------------------------
(* The hub and the connections go on meanwhile. *)

caller == <<pc, user, found, all, got, sweep>>

\* wsPage: NewClient takes the time as the first heartbeat.
Upgrade(c) ==
    /\ socket[c] = "none"
    /\ socket' = [socket EXCEPT ![c] = "open"]
    /\ heartbeat' = [heartbeat EXCEPT ![c] = now]
    /\ loginTime' = [loginTime EXCEPT ![c] = now]
    /\ UNCHANGED <<hub, now, caller, returned>>

\* AuthController takes the time when it begins, before it asks the database.
AuthBegins(c) ==
    /\ socket[c] # "none" /\ identity[c] = NoKey
    /\ loginTime' = [loginTime EXCEPT ![c] = now]
    /\ UNCHANGED <<hub, socket, heartbeat, now, caller, returned>>

\* client.Login(appId, userId, currentTime), the only heartbeat after the upgrade:
\* no other request of the peer calls Heartbeat.
Login(c, k) ==
    /\ socket[c] # "none"
    /\ Hub!Identify(c, k)
    /\ heartbeat' = [heartbeat EXCEPT ![c] = loginTime[c]]
    /\ returned' = (returned \/ (pc = "close" /\ found = c))
    /\ UNCHANGED <<socket, loginTime, now, caller>>

\* What the manager loops do, seen through Clients and Users
HubStep(c) ==
    /\ \/ socket[c] # "none" /\ Hub!Connect(c)
       \/ Hub!Admit(c) \/ Hub!Announce(c) \/ Hub!Disconnect(c) \/ Hub!Withdraw(c)
    /\ UNCHANGED <<client, now, caller, returned>>

Tick ==
    /\ now < MaxTime
    /\ now' = now + 1
    /\ UNCHANGED <<hub, client, caller, returned>>

-----------------------------------------------------------------------------
(* SendUserMessage and SendUserMessageLocal *)

\* GetUserClient.  A user that is not here is taken to be on another server: the
\* call to it is commented out, and what is left of it reports success.
SendUserMessage(k) ==
    /\ pc = "idle"
    /\ wanted' = k
    /\ IF online[k] = NoClient
       THEN pc' = "return" /\ result' = "sent"
       ELSE pc' = "local" /\ UNCHANGED result
    /\ UNCHANGED <<hub, client, now, found, all, got, sweep, returned>>

\* Mutant of SendUserMessageLocal: it takes the newest connection it finds.
SendToAnyClient ==
    /\ pc = "local"
    /\ \E k \in UserKey :
        /\ online[k] # NoClient
        /\ found' = online[k]
    /\ pc' = "send"
    /\ UNCHANGED <<hub, client, now, wanted, result, all, got, sweep, returned>>

\* Mutant of SendUserMessageLocal: the second lookup is trusted to find the user.
SendToWhatIsFound ==
    /\ pc = "local"
    /\ found' = online[wanted]
    /\ pc' = "send"
    /\ UNCHANGED <<hub, client, now, wanted, result, all, got, sweep, returned>>

\* GetUserClient again: the user may be reached through another connection by
\* now, or be gone.
SendUserMessageLocal ==
    /\ pc = "local"
    /\ found' = online[wanted]
    /\ IF online[wanted] = NoClient
       THEN pc' = "return" /\ result' = "offline"
       ELSE pc' = "send" /\ UNCHANGED result
    /\ UNCHANGED <<hub, client, now, wanted, all, got, sweep, returned>>

\* client.SendMsg: the message is in Send, or dropped when Send is closed.
SendMsg(c) == got' = got \/ got' = [got EXCEPT ![c] = @ + 1]

Deliver ==
    /\ pc = "send"
    /\ SendMsg(found)
    /\ result' = "sent"
    /\ pc' = "return"
    /\ UNCHANGED <<hub, client, now, wanted, found, all, sweep, returned>>

-----------------------------------------------------------------------------
(* sendAll, sendAppIdAll and the lists they and the exported functions use *)

GetUserKeys == {k \in UserKey : online[k] # NoClient}

\* GetUserClients: one entry per key of Users
GetUserClients == {<<k, online[k]>> : k \in GetUserKeys}

\* GetUserList(appId): the user ids are taken from the clients, not from the keys.
GetUserList == {identity[online[k]] : k \in {l \in GetUserKeys : identity[online[l]] \in AppKeys}}

SendAll(a, i) ==
    /\ pc = "idle"
    /\ todo' = GetUserClients /\ byApp' = a /\ ignored' = i
    /\ pc' = "sendAll"
    /\ UNCHANGED <<hub, client, now, user, found, got, sweep, returned>>

\* Mutant of Addressed: the sender gets the message, too.
AddressedWithSender(c) == byApp => identity[c] \in AppKeys

\* conn != ignoreClient, and in sendAppIdAll conn.AppId == appId
Addressed(c) == c # ignored /\ (byApp => identity[c] \in AppKeys)

SendToOne ==
    /\ pc = "sendAll"
    /\ \E e \in todo :
        /\ todo' = todo \ {e}
        /\ IF Addressed(e[2]) THEN SendMsg(e[2]) ELSE UNCHANGED got
    /\ UNCHANGED <<hub, client, now, pc, user, found, byApp, ignored, sweep, returned>>

SendAllEnds ==
    /\ pc = "sendAll" /\ todo = {}
    /\ pc' = "return"
    /\ UNCHANGED <<hub, client, now, user, found, all, got, sweep, returned>>

-----------------------------------------------------------------------------
(* ClearTimeoutConnections *)

\* currentTime := uint64(time.Now().Unix())
SweepBegins ==
    /\ pc = "idle"
    /\ sweepTime' = now
    /\ pc' = "snapshot"
    /\ UNCHANGED <<hub, client, now, user, found, all, got, clients, suspects, returned>>

\* clients := clientManager.GetClients()
GetClients ==
    /\ pc = "snapshot"
    /\ clients' = connected /\ suspects' = connected
    /\ pc' = "sweep"
    /\ UNCHANGED <<hub, client, now, user, found, all, got, sweepTime, returned>>

\* Mutant of IsHeartbeatTimeout: the difference of the two times, in uint64
IsHeartbeatOlder(c) == (sweepTime - heartbeat[c]) % Word >= Timeout

\* c.HeartbeatTime+heartbeatExpirationTime <= currentTime, in uint64
IsHeartbeatTimeout(c) == (heartbeat[c] + Timeout) % Word <= sweepTime

\* The next client of the copy; when it is timed out it is closed after that.
Judge(c) ==
    /\ pc = "sweep" /\ c \in suspects
    /\ suspects' = suspects \ {c}
    /\ IF IsHeartbeatTimeout(c)
       THEN pc' = "close" /\ found' = c
       ELSE UNCHANGED <<pc, found>>
    /\ UNCHANGED <<hub, client, now, user, all, got, sweepTime, clients, returned>>

\* Mutant of CloseSocket: a socket that cannot be closed ends the loop.
CloseSocketOrEnd ==
    /\ pc = "close"
    /\ \/ socket' = [socket EXCEPT ![found] = "closed"] /\ pc' = "sweep" /\ UNCHANGED suspects
       \/ suspects' = {} /\ pc' = "sweep" /\ UNCHANGED socket
    /\ found' = NoClient /\ returned' = FALSE
    /\ UNCHANGED <<hub, heartbeat, loginTime, now, user, all, got, sweepTime, clients>>

\* client.Socket.Close(), whose error is ignored
CloseSocket ==
    /\ pc = "close"
    /\ socket' = [socket EXCEPT ![found] = "closed"]
    /\ pc' = "sweep"
    /\ found' = NoClient /\ returned' = FALSE
    /\ UNCHANGED <<hub, heartbeat, loginTime, now, user, all, got, sweep>>

SweepEnds ==
    /\ pc = "sweep" /\ suspects = {}
    /\ pc' = "return"
    /\ UNCHANGED <<hub, client, now, user, found, all, got, sweep, returned>>

-----------------------------------------------------------------------------
\* The call is over; its local variables are gone.
Return ==
    /\ pc = "return"
    /\ pc' = "idle" /\ wanted' = NoKey /\ result' = "none" /\ found' = NoClient
    /\ todo' = {} /\ byApp' = FALSE /\ ignored' = NoClient
    /\ got' = [c \in Conn |-> 0]
    /\ sweepTime' = 0 /\ clients' = {} /\ suspects' = {} /\ returned' = FALSE
    /\ UNCHANGED <<hub, client, now>>

CallerStep ==
    \/ \E k \in UserKey : SendUserMessage(k)
    \/ SendUserMessageLocal \/ Deliver
    \/ \E a \in BOOLEAN, i \in Conn \cup {NoClient} : SendAll(a, i)
    \/ SendToOne \/ SendAllEnds
    \/ SweepBegins \/ GetClients \/ CloseSocket \/ SweepEnds
    \/ \E c \in Conn : Judge(c)
    \/ Return

Next ==
    \/ CallerStep
    \/ \E c \in Conn : Upgrade(c) \/ AuthBegins(c) \/ HubStep(c)
    \/ \E c \in Conn, k \in UserKey : Login(c, k)
    \/ Tick

Spec == Init /\ [][Next]_vars

-----------------------------------------------------------------------------
\* A message for a user is put into the Send of at most one connection, once, and
\* this connection logged in as that user: whatever happens between the two
\* lookups, and between the second one and the send.  Who gets it is reported.
MessageReachesUser ==
    wanted # NoKey => \A c \in Conn : got[c] > 0 =>
        /\ identity[c] = wanted /\ got[c] = 1 /\ result = "sent"
        /\ \A d \in Conn \ {c} : got[d] = 0

\* sendAll gives a connection at most one copy, though it goes through the
\* entries of Users and not through connections, and none to the one that is
\* ignored; with an AppId, only to connections that logged in with it.
SendAllOnce ==
    wanted = NoKey => \A c \in Conn : got[c] > 0 =>
        got[c] = 1 /\ c # ignored /\ (byApp => identity[c] \in AppKeys)

\* GetUserList names each user of the AppId that is in Users and nobody else: the
\* ids of the clients agree with the keys they are stored under.
UserListTrue == GetUserList = GetUserKeys \cap AppKeys

\* The sweep closes a socket only when the timeout has passed since its heartbeat,
\* by the clock of that moment: an upgrade or a login that came after the sweep
\* took its time is respected, until the sweep has decided on the connection.
\* This is all a heartbeat says: what else the peer sends is not counted, so an
\* active one is closed too, and a login counts from when AuthController began.
SweepClosesExpired ==
    [][\A c \in Conn : socket[c] = "open" /\ socket'[c] = "closed" =>
        heartbeat[c] + Timeout <= now \/ returned]_vars

\* The sweep misses nobody: every client of its copy that it has dealt with and
\* whose heartbeat had expired when it began is closed.
SweepComplete ==
    pc = "sweep" => \A c \in clients \ suspects :
        heartbeat[c] + Timeout <= sweepTime => socket[c] = "closed"

-----------------------------------------------------------------------------
(* Why they hold. *)

\* Nobody is stored under another user's key.
Named == \A k \in UserKey : online[k] # NoClient => identity[online[k]] = k

\* Until it delivers, a call has put nothing anywhere; only sendAll and the end
\* of a call have.
NothingSentYet ==
    pc \notin {"sendAll", "return"} => \A c \in Conn : got[c] = 0

MessageInv ==
    /\ wanted # NoKey => pc \in {"local", "send", "return"}
    /\ pc = "send" => identity[found] = wanted

\* The entries of the copy still name their clients, so a client that has got its
\* copy is in no entry that is left.
EntriesNamed ==
    pc = "sendAll" => \A e \in todo :
        identity[e[2]] = e[1] /\ got[e[2]] = 0

\* No time is ahead of the clock, and a login does not set a heartbeat back.
TimesOrdered ==
    /\ sweepTime <= now
    /\ \A c \in Conn : heartbeat[c] <= loginTime[c] /\ loginTime[c] <= now

SweepInv ==
    /\ TimesOrdered
    /\ pc = "close" =>
        /\ found \in clients \ suspects
        /\ heartbeat[found] + Timeout <= sweepTime \/ returned
    /\ \A c \in connected \cup clients : socket[c] # "none"
    /\ pc \in {"sweep", "close"} => \A c \in clients \ suspects :
        heartbeat[c] + Timeout <= sweepTime =>
            socket[c] = "closed" \/ (pc = "close" /\ c = found)

CallersInv ==
    /\ Named /\ NothingSentYet /\ MessageInv /\ EntriesNamed /\ SweepInv
    /\ MessageReachesUser /\ SendAllOnce

=============================================================================
