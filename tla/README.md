# Formal models of microservices-trading-bot

TLA+ models of the Go data server (`data_server/`), TLC runs on small instances,
and proofs checked by TLAPS. Paths below are relative to the source directory.
`PROJECT.json` lists the components, the runs, the mutants that show what each
property can catch, the line ranges every definition stands for, the hazards, the
findings and the theorems.

## 1. The system

The data server is a Go program. `main.go` loads the configuration, creates a
Cassandra schema and serves HTTP. What it does beside plain HTTP falls into four
parts, each with goroutines and channels of its own.

| component | state | operations | talks to |
|---|---|---|---|
| hub, `ws/websocket/client_manager.go`, `init_acc.go` | `Clients`, `Users` (each with a lock), the channels Register, Login, Unregister, Broadcast (1000 places each) | `StartWebSocket`, `wsPage`, the loop `start` and its `Event...` handlers, `ClearTimeoutConnections` | every Client, through its `Send` |
| client, `ws/websocket/client.go` | socket, `Send` (100 places), AppId, UserId, heartbeat | goroutines `Read` and `Write`, `SendMsg`, `Login`, `Heartbeat` | the peer, `ProcessData`, the hub's Login |
| dispatcher and controllers, `acc_process.go`, `acc_controller.go` | the table of handlers | `Register`, `ProcessData`, some twenty controllers | database and repository packages, the hub's Login, the client's `Send` |
| user service, `user_srv.go` | none of its own | `SendUserMessage`; the others return constants | hub, from any goroutine |
| REST client of the exchange, `bitso/client.go` | burst rate, `tickets` (1 place), key, secret | endpoint methods, all through `doRequest`; `SetBurstRate` | the exchange, over HTTP |
| websocket of the exchange, `bitso/websocket.go` | connection, `inbox` (8 places) | `NewWebsocket` with its reader, `Subscribe`, `Receive`, `Close` | the exchange; SocketHandler |
| browser route, `controllers/socket_controller.go`, `feclient/websocket.go` | the browser's connection | `SocketHandler`, `SaveTiker`, `Sent`, `Close` | the two parts above, Cassandra |
| repositories, `repository/crud`, `utils/channels` | a session | `SaveTicker`, `Save`, `Delete` | Cassandra |
| data types, `bitso/{book,side,status,...}.go` | none | JSON codecs | REST client |
| strategy, operations, other controllers, routing, configuration, the TypeScript client | none that is shared | arithmetic, printing, wiring | - |

Some things a reader of the code should know before the models:

- `ws` is a library at this commit. Its router is commented out as a whole, and
  `StartWebSocket`, `Register`, `ClearTimeoutConnections` and `SendUserMessage`
  have no caller in the repository. The models use these exported operations in
  the way their signatures and comments intend.
- `acc_controller.go` imports packages (`.../latest/api/...`) that are not in the
  repository: database, repositories and models of the controllers are external,
  and each of their calls may succeed or fail.
- No line sends on Unregister or Broadcast. The one sender on Unregister is in the
  function that `Write` has commented out (`client.go:104-108`). So "the hub as it
  is deployed" means `Unregistering = Broadcasting = FALSE`.
- Every request starts one more manager loop (`init_acc.go`). This looks like a
  slip, and two liveness properties hold only because of it (see below).
- Nobody but `Login` calls `Heartbeat`, so a periodic sweep would close every
  connection six minutes after its login, however much its peer sends.
- `DelUsers` compares the addresses of two clients (`client_manager.go:156`), not the clients.
  `Users` keeps dead clients, so a later peer may have the address of one of them.
- `ProcessData` answers nothing when the reply cannot be encoded (`acc_process.go:172-177`), also when
  a change was made before, and sends one copy of two when only the second encoding fails.
- `GetCluster` has a named result `cluster` that hides the package variable of the
  same name, so it returns nil, and `SaveTiker` panics after the first message,
  which is normally the acknowledgement of the subscription. `net/http` recovers
  the panic, and the deferred `Close` of the browser's connection runs. The relay
  therefore relays at most one message per request.
- Before it receives, `SocketHandler` asks the exchange for the ticker over `http.DefaultClient`
  (`bitso/client.go:39-42`), which has no timeout: it may wait there for ever.
- `SocketHandler` waits for ever when the upstream reader ends before the first
  message, because `inbox` is never closed.

### What is hard, and what makes each part correct

- Hub: two unsynchronised goroutines per connection and any number of loops on the
  same channels. `Send` is closed from three places and sent to from three others.
  `InClient` and `AddUsers` take two locks one after the other. A user must be
  reached through a connection that is known and has that user's identity; a loop
  waiting for a peer must not stop the others; a dead connection must be cleaned up.
- Dispatcher: a request is answered the right number of times, in order, with
  an answer that agrees with what was changed, unless its controller panics or its reply cannot
  be encoded; and it gives its database handle back on every error and panic path.
- Callers of the hub: they look a user up and send later, or work through a copy of a
  map that changes meanwhile. A message must not end up with another user, a broadcast
  must not reach anyone twice, the sweep must close all expired connections of its copy and
  no other.
- REST client: the ticket comes back exactly once on every path; the spacing it is
  there for is kept although the burst rate changes under way.
- Data types: what is written by one method is read back by another; what cannot be read is
  refused as a whole and not half.
- Relay: the one frame that the browser gets is the first one, though frames go on arriving while the
  handler waits for the ticker; each end is let go by the goroutine that holds it.
- Repositories: the unbuffered hand-shake of caller and goroutine comes to an end and leaves
  neither of them behind; an error reaches the caller.

## 2. The modules

| module | models | uses |
|---|---|---|
| `ClientManager` | hub and client, for a set `Conn` of requests | - |
| `Presence` | abstract specification of the hub: who is connected, who is who, who is online | refined by `ClientManager` |
| `Conversation` | abstract specification of one connection: requests in turn, one login, a bounded `Send` | refined by `ClientManager` (per connection) and by `Dispatch` |
| `HubCallers` | `SendUserMessage`, `sendAll`, `sendAppIdAll`, the user lists, `ClearTimeoutConnections` and the heartbeats | `Presence`, for the hub |
| `MCClientManager`, `MCHubCallers` | small instances for TLC | `ClientManager`, `HubCallers` |
| `ClientManagerProofs`, `HubCallersProofs` | theorems about the hub and its callers | `ClientManager`, `HubCallers` |
| `Dispatch`, `DispatchProofs` | `ProcessData`, the controllers by class, `Send` of one connection | assumes `LoginDecided`; implements `Conversation` |
| `RestClient`, `RestClientProofs` | `doRequest` and the ticket channel | - |
| `Payloads` | the values the REST client writes and reads, and what `doRequest` makes of an answer; operators only | - |
| `Endpoints`, `EndpointsProofs` | calls with what they are answered: the listings of orders and of trades | `RestClient`, `Payloads` |
| `MCRestClient` | small instance for TLC | `Endpoints` |
| `Relay`, `RelayProofs` | `/socket`: handler, upstream reader, `inbox` | - |
| `Repository`, `RepositoryProofs` | callers and goroutines of the repositories, `channels.OK` | - |

A step of a model is what one goroutine does up to its next channel operation, lock
or call that leaves the process. A receive and the critical section right after it
are one step: the value is in a local variable and nobody sees the state between.
Local program counters are called `handler`, `reader`, `writer`, `mgr` after the
goroutine. Definitions named "Mutant of X" stand before X; no behaviour of the
specification contains them. They are the plausible slips that show that
the properties can fail.

### ClientManager

- A request names its client and the loop it starts. `handler` is the goroutine in
  `StartWebSocket`: `Upgrade` or `UpgradeFails`, `SubmitRegister`, `StartManager`.
- `reader` is `Client.Read`: `ReadRequest` is a request that logs nobody in,
  `Authenticate` is `AuthController` up to `client.Login`, `SubmitLogin` its send on
  Login, `Reply` is `SendMsg`, `ReaderFails` the end of Read, which closes Send.
- `writer` is `Client.Write`: `WriterTakes`, `WriterWrites`, `WriterStops`.
- `mgr` is the loop `start`. `EventRegister` (with `AddClients`) is followed by
  `Greet` or `GreetPanics`; `EventLogin` (with `InClient`) by `AddUsers`;
  `EventUnregister` (with `DelClients`) by `DelUsers` and `CloseSend`;
  `EventBroadcast` (with `GetClients`) by one `BroadcastTo` per connection.
- `Send` is kept as its length and a flag, since no property of the hub depends on
  what is in it. A send on a closed channel, or a second close, panics: recovered
  in `SendMsg` and `Read`, fatal in the loop (`crashed`).
- `addr` is `Client.Addr`. `DelUsers` compares addresses as the code does. `Upgrade` takes one of the
  addresses that a request may come from (`Addrs`), but none of a socket that is still open: a
  host and port belong to one TCP connection at a time.
- Unregister in the model also has the data race of `GetKey` with `client.Login`:
  `DelUsers` sees the old key, the new one, or a half-written string (a panic).
- A request whose handler panics changes nothing here; it is modelled in `Dispatch`. A reply that
  cannot be encoded is `MarshalFails`: what is still owed is not sent.
- The peer may stall, resume and leave; a sweep may close any known connection, which
  covers every decision a sweep can take; `HubCallers` says which ones it does take.
- Through the refinement mapping (`Clients`, the key each client logged in with, `Users`, the
  clients of the loops at `AddUsers` and those at `DelUsers`) the hub is `Presence`.
  `EventRegister` is `Connect`, `Authenticate` is `Identify`, `EventLogin` is `Admit` when `InClient`
  finds the client, `AddUsers` is `Announce`, `EventUnregister` is `Disconnect` and `DelUsers` is
  `Withdraw`; all other steps are invisible. `Presence` lets a user go online only by a login
  that was admitted while its connection was connected, and offline only on behalf of a connection
  with this identity that was disconnected before. It does not promise that the connection is still connected
  when it is announced (the two locks), nor that the user was reached through the very connection
  that leaves (the addresses); what can be said of the latter is `OpenUsersKept`.
- Every connection by itself is a `Conversation`: `reader`, `owed`, "has a key", `queued` and
  `closed` of that connection. The loops' sends to it are `PutByHub`, their closes `CloseByHub`;
  the steps of all the others are invisible.
- `Runnable` writes out the guards of the steps that `Fairness` speaks of, so that `NobodyHeldUp`
  is a state predicate without ENABLED, which the prover cannot handle.

### HubCallers

The callers see `Clients` and `Users` only, each under its lock, so the hub is
`Presence` here, with `Unregistering = TRUE`: users come, are replaced and go away between any two
steps of a caller. One caller is enough, since callers share nothing but the hub. `pc` follows its
call: `SendUserMessage` (first lookup), `SendUserMessageLocal` (second lookup), `Deliver`;
`SendAll` (`GetUserClients` under the lock), one `SendToOne` per entry; `SweepBegins` (the
time), `GetClients` (the copy), `Judge` and `CloseSocket` per client. `got` counts what this call has put into each
Send; a Send that is closed takes nothing, and one that is full makes the caller wait (it takes
no step). The heartbeat of a client is the time of `NewClient`, later that which
`AuthController` took before it asked the database (`AuthBegins`, `Login`); no other request of the peer
counts, so `SweepClosesExpired` says of a connection that is closed that its heartbeat has expired, not that its
peer was silent. `returned` is a
history variable: whether the client that the sweep is about to close has logged in since the
decision. Times are unsigned, hence the `% Word`.

### Dispatch

Controllers are grouped by the decisions they take; the comments above each set name
them. `pc` follows one request through `Connect`, `CloseDB`, the query and update,
`SubmitLogin` and one or two sends. `handles`, `committed`, `failed`, `silent`, `unsent` and
`unclosable` are sets of request numbers. They are history variables except that
`IsLogin` is "some auth request has committed".

Two failures leave a client less certain than it may think. `QueryFails` of a call that changes something
(`Changes`) may have made the change all the same, since the repository is external and returned no more than an
error: `EffectsReported` says what an "OK" means, and that any other answer means no change or a call that failed
(`failed`). `MarshalFails` ends a request without a word, or after one copy of two (`unsent`); which data
cannot be encoded is decided by external types, so any answer with data may be such.

`Conversation` ties this module to `ClientManager`. `Dispatch` has the controllers, the database and
the contents of `Send`, and no hub; `ClientManager` has the hub and only counts. Both are shown to keep the
same abstract connection, through `stage` and `owed` here: a request that is being handled is still
"read" until it is known whether and how often it is answered, and one that panics never
leaves "read". What a connection of `Dispatch` never meets is what the hub does to it, `PutByHub`
(one greeting, and broadcasts) and `CloseByHub`.

### RestClient

Time is relative: a refill goroutine holds what is left on its ticker, and `Tick`
lets one unit pass, at any moment. `window` is a history variable: what is left of
the wait the last ticket asked for.

### Payloads and Endpoints

`Payloads` has operators and no state. A method that writes through its receiver and returns an error is an
operator from the document and the old value to a record `[err, val]`. A text is kept as
the sequence of what stands between its underscores, each with its letters' case, since `Book` is the only type that
takes texts apart. Amounts are integers in 10^-8 of a unit and `ToMonetary` rounds them to
10^-6, as `%f` does; a tie may go either way, since the code's number is binary. A time is the name of
its format and the instant (`Stamp`); a format stands for all that `time.Parse` reads with it, fractional
seconds included. `UnmarshalOrder` decodes all fields of a `UserOrder`: the book, the side, the status, the two times,
and those that are plain strings in Go (`type`, `oid`, `price`, the amounts), for which it matters only whether the document has
texts there (`texts`). A field that is absent would keep its zero value; the listings here have all of them. `Payload` is
the end of `doRequest`: it refuses what is no envelope with success, and a document it cannot read.

`Endpoints` adds to the calls of `RestClient` what they are answered. `SendCall` is `Send` and, for
the callers in `Lister`, the choice of an answer: a failure (of the transport, or an envelope without
success), a list of orders, or a list of trades. The answer stays in `answer` until `ReturnCall`, and
`MyOpenOrders` and `Trades` are what the methods make of it. An order in a list is the `Placement` it
was made from, written by `MarshalOrder` as `PlaceOrder` does, with the status and the two times the exchange
has given it since; the exchange is external and may use a status or time format this program does not know, or
a number where it has a string.

### Relay

Frames of an upstream connection are numbered, so that it is visible which one the browser gets and what
becomes of the others. `SaveTiker` is the panic described above. Reading a keep-alive frame changes
nothing. `Subscribe` and the result of `Ticker` have no effect on the state, but `Ticker` is a step of its own
without fairness: the reader fills the inbox meanwhile.

### Repository

`Start` makes the channel and the goroutine, `Exec` is the statement, `Verdict` the
rendezvous of `ch <- ok` with `channels.OK`, `Close` the deferred close, `Return`
the result. Without a session the statement panics: the deferred close still runs, so
the caller may get the zero value (`VerdictOfClosed`) before the process ends (`Die`). `session` may be nil, since `SaveTiker` uses the session before it looks
at the error of `CreateSession`.

## 3. The runs

| run | specification | bounds | what it shows |
|---|---|---|---|
| `hub_safety` | `Spec` | 2 requests, 2 users, Send 1, queues 1, a caller that broadcasts | `UsersOnline`, `CrashOnlyOnClosedSend`, `LoopLeft` |
| `hub_liveness` | `FairSpec` | 2 requests, no users, Send 1, queues 1, one or two replies, both peers stall and leave, the sweep closes | `RegistrationServed`, `ConnectionTornDown` |
| `hub_login` | `FairSpec` | 2 requests, 1 user, one peer stalls, nobody unregisters or broadcasts | `LoginDecided`, `NobodyHeldUp`, refinement of `Conversation` |
| `hub_open` | `Spec` | 2 requests, 1 user, a caller that unregisters one connection at a time (`OneUnregisters`), a peer that leaves, 2 addresses for both | `OpenUsersKept`, `UnreachableForGood`, refinement of `Presence` |
| `hub_callers` | `Spec` | 2 connections, 2 users of two applications, unregistration, clock 0..2, timeout 1 | `MessageReachesUser`, `SendAllOnce`, `UserListTrue`, `SweepComplete`, `SweepClosesExpired` |
| `hub_users_listed` | `Spec` | 1 request, 1 user | violated: finding 1 |
| `dispatch` | `FairSpec` | 2 requests of every class, Send 1 | `RepliesAccounted`, `EffectsReported`, `HandlesReleased`, `RequestFinished`, refinement of `Conversation` |
| `rest` | `CallsFairSpec` | 3 callers, one of them a lister; 1 ticket (as in the code), rates 0..2; lists of up to 2 of 7 orders or 4 trades, ids of 4 bits | `TicketsConserved`, `TicketsSpaced`, `TicketServed`; `OrdersComeBack`, `OneHidesAll`, `TradeIdsExact` |
| `relay` | `FairSpec` | 2 browsers, inbox 2, 4 frames | `RelayFirstOnly`, `BrowserReleased`, `ReaderUnblocked`, `ConnectionsHeld`, `LeaksForGood` |
| `relay_upstream` | `Spec` | 1 browser, inbox 2, 3 frames | violated: finding 2 |
| `repo_save` | `FairSpec` | 3 calls, with a session or with nil | `NobodyLeftBehind`, `CallEnds` |
| `repo_errors` | `Spec` | 1 call | violated: finding 3 |

`TypeOK` is checked in one run per module, but for `Repository`, where it is a theorem only.

**Why the bounds are enough.** Two requests give two clients, four goroutines of
theirs and two loops, so every pair of goroutines meets, including two loops on
one connection; two users let a connection lose a user to another one. Capacities of
1 and 2 make the channels full within a few steps, where the code's 100 and 1000
would hide it. One Send place and two
replies (`hub_liveness`, `dispatch`) are the case in which a reply waits for its own first copy;
the other hub runs have at most one reply.
Two requests of one connection are a login and a second one, or a request and another while its reply still waits in
`Send`; what an earlier request leaves to a later one is no more than whether the client is logged in, the handles that could not be
closed, and what is in `Send`. In `hub_open` an unregistration is sent when `DelUsers` of the last one is over, and may overtake its `close`; both requests may come from the same address, one after the other; in the other hub runs each
has its own. The inbox of the relay fills up with `MaxFrames` two above its capacity.
In `hub_callers` a user can lose a connection to
the other one, both can be one user's, and a connection can belong to a user of the other application; with a clock of
three values and a timeout of one, a heartbeat is older than, equal to or later than the
sweep's own time. The orders that are listed in `rest` are two that can be read, in different formats and
statuses and with an amount each that the rounding changes, and one each with a status, a `created_at`, an `updated_at`, a
number for a text and a book that cannot; the names are lower and upper case, the empty one, and one that holds an underscore. The ids of
the trades lie on both sides of both ends of the range. With lists of two, something stands before or
after a document that cannot be read.
Three callers on one ticket have one that holds it and two that wait. The safety runs
of the hub leave out stalls and departures: a peer that does not read cannot be told from
a slow `Write`, and one that has left changes nothing but what `Read` does, which may fail
at any time; both are there since nothing in `Spec` is fair. (`hub_open` has one departure, which frees an address.) A caller that broadcasts may
also never do so, so `hub_safety` covers the hub as it is deployed. The theorems below have
no bounds, and cover most of the safety properties of these runs.

**Deadlock.** The hub's runs check for it: `Rest` is the only step of a state in
which the process has died or everything is over, so any other state without a step
is reported. The REST client always has its clock, and the hub's callers can always call or return. The other runs say
`CHECK_DEADLOCK FALSE`, since a connection, a request or a call simply ends there; the
liveness properties say that it does not stop half way. In the relay a handler whose
reader has failed really waits for ever: `LeaksForGood` states it. The hub's
states without a step that is fair are those of `NobodyHeldUp`, which does not count a
sweep, or a peer that might leave or resume, as a way out.

**Symmetry** of requests and users is used in `hub_safety`, that of addresses in `hub_open` (there only one of the requests may
leave), that of connections in `hub_callers`; none of them checks liveness.

**Fairness.** The Go scheduler runs every goroutine that can go on: weak fairness
of its steps. Blocked goroutines are served by a channel in their order, which is
strong fairness of the loops (`ManagerStep`: a greeting that waits for room is not
overtaken by replies for ever) and of `TakeTicket`. `ReaderFails` on a dead socket
is strongly fair since only finitely many frames are buffered. In `Dispatch` the
external calls return, the hub takes logins (that is `LoginDecided`) and the peer
reads. In `Relay` a write to the browser does not wait for ever; the exchange need not send anything, nor answer
the ticker's request, for which the HTTP client has no timeout: `ReaderUnblocked` says that a reader is stuck only behind a handler
that is there or done. In `Repository` the driver bounds
the time of a statement. Nothing is assumed of peers and callers: they need not send,
leave, resume, sweep, call or dial.

**Two results worth a second look.** `RegistrationServed` and `LoginDecided` hold although
a loop waits in the greeting of a peer that does not read, because each request
starts a loop: n greetings that are stuck occupy n loops, and the request that is to
be served has brought its own. The mutant `StartOnlyOneManager`, which is the usual
form of such a hub, violates both. `LoopLeft` is the count behind it, and `NobodyHeldUp` what it
comes to; both are proved. `LoginDecided` excepts the peer's own stall and
says "decided", not "listed": see finding 1.

### Findings

1. `hub_users_listed`: a login that is handled before the registration of its
   connection is dropped. The client has been told that it is logged in, a second
   attempt is refused, and `Users`, "the users that are logged in"
   (`client_manager.go:23`), never lists it.
2. `relay_upstream`: `feclient/websocket.go:45` says that `Close` closes the connection
   with the exchange. It closes the browser's, after the first frame. The upstream connection is open then and its reader
   reads on; nobody tells it, and when it has filled the inbox it is stuck there (`LeaksForGood`).
3. `repo_errors`: "returns a new user created or an error"
   (`repository_cassandra_crud.go:22`); the error is assigned to a variable that shadows
   the one that is returned, so a failed statement is reported as saved.

## 4. The proofs

All theorems hold for every value of the constants that meets the named assumptions
of the module (capacities are positive; nil is no connection).

| theorem | says | how |
|---|---|---|
| `ClientManagerProofs!TypeCorrect` | `[]TypeOK` | inductive as it is, one lemma per group of actions |
| `UsersAreOnline` | `~Unregistering` implies `[]UsersOnline` | `HubInv` |
| `ImplementsPresence` | the refinement of `Presence`, with callers that unregister or without | `NamesInv`, and `HubInv` when nobody unregisters |
| `UsersAreNamed` | whoever is reached as a user is that user, with callers that unregister | `NamesInv` |
| `CrashesAreLateSends` | `~Unregistering` implies `[]CrashOnlyOnClosedSend` | `HubInv` |
| `OpenUsersAreKept` | `OpenUsersKept`, with callers that unregister and addresses that are used again | `AddrsDiffer` |
| `LoopsSuffice` | `[]LoopLeft` | `GreetingsInv` and a count |
| `NobodyIsHeldUp` | `[]NobodyHeldUp` | `GreetingsInv`, `SendInv`, `NoneLost`, `HubInv` |
| `UnreachableIsFinal` | `UnreachableForGood` | `TypeOK` |
| `ImplementsConversations` | the refinement of `Conversation`, for every connection | `HubInv`, `GreetingsInv`, `SendInv`, `BroadcastsMeant` |
| `HubCallersProofs!TypeCorrect` | `[]TypeOK` | inductive |
| `MessageTheorem`, `SendAllTheorem`, `UserListTheorem`, `SweepCompletes`, `SweepClosesOnlyExpired` | the five properties of `hub_callers` | `CallersInv` |
| `DispatchProofs!TypeCorrect` | `[]TypeOK` | inductive |
| `RepliesAreAccounted`, `EffectsAreReported`, `HandlesAreReleased` | the safety properties of `dispatch` | `DispatchInv` |
| `ImplementsConversation` | the refinement of `Conversation` | `StagesInv` |
| `EndpointsProofs!ImplementsRestClient` | `CallsSpec` implies `Spec` of `RestClient` | step by step |
| `CallsConserveTickets`, `CallsAreSpaced` | so the calls of the run `rest` have the properties of the tickets | `ImplementsRestClient` |
| `PlacedOrdersComeBack`, `OneOrderHidesAll`, `TradeIdsAreExact` | the properties of `Endpoints`, for all words, currencies, amounts, widths, orders, trades and lengths of a list | `AnswersOK`, and lemmas about names, times and books |
| `RestClientProofs!TicketsAreConserved`, `TypeCorrect` | `[](TypeOK /\ TicketsConserved)` | `RestInv` |
| `TicketsAreSpaced` | `DefaultTickets = 1` implies `TicketsSpaced` | `RestInv` with `WindowCovered` |
| `RelayProofs!OnlyFirstRelayed`, `TypeCorrect` | `[](TypeOK /\ RelayFirstOnly)` | `RelayInv` |
| `EveryConnectionHeld`, `LeaksAreFinal` | `[]ConnectionsHeld`, `LeaksForGood` | `RelayInv` with `ConnectionsHeld` |
| `RepositoryProofs!TypeCorrect`, `NobodyIsLeftBehind` | `[]TypeOK`, `[]NobodyLeftBehind` | inductive together |

- `HubInv`. `UsersOnline` is not inductive: `AddUsers` believes what `EventLogin` found
  out under another lock, and `EventLogin` believes the queue. `LoginsGenuine` says that
  a queued login still tells who its client is (true since a client logs in once),
  `BindsGenuine` that a loop between the two locks still holds a known client
  with that identity, and `NobodyUnregisters` that nothing has removed it meanwhile.
  The hypothesis `~Unregistering` is needed: with a caller that unregisters between the two
  locks, a user would be left online through a connection that is gone.
- `NamesInv` is what is left of it when somebody unregisters: a queued login and a loop about to
  bind still have the client's own name (a client logs in once), so `AddUsers` is `Announce`, although
  the client may be gone. `DelUsers` may read the key while it is written; what it then
  removes is the entry of the client's own user or nothing, which is `Withdraw`. `PresenceStep` also shows that what the loops have under
  way grows only in `EventLogin`, by a client that is in `Clients`, and in `EventUnregister`, by one that leaves it.
- `AddrsDiffer`: sockets that are open at the same time have different addresses, so the entry that `DelUsers` removes is that of
  the client it serves unless one of the two is down. It rests on `Upgrade`, that is on TCP, and on sockets that never come up again.
- `GreetingsInv`. A registration is somewhere exactly once (`RegisteredOnce`): still to be put, in
  Register, or with one greeting loop (`GreetedOnce`). So the loops that greet somebody other than c greet
  different connections, and none of them c's: each of these has started a request, c's
  request has started one more, and the requests under way are finite in number (`LoopPerRequest`).
  By the pigeonhole principle a loop is left, which is `LoopLeft`. The finiteness is part of the
  invariant since `Conn` need not be finite.
- `NobodyIsHeldUp` is the safety core of the three liveness properties of the hub: a state
  in which nothing can go on although something is due would refute them. Assume
  `~Runnable`: then a queued registration would have a free loop (`LoopLeft`), so Register is empty, so no
  request waits to register; the same for Login; what waits at a full Send waits for a
  writer that is there (`Drained`, in `SendInv`), and a writer waits only for a stalled peer. `NoneLost`
  and `Connected` say that what left Register is in `Clients`. What is left for fairness, and for TLC,
  is that steps that can go on are taken.
- `UnreachableIsFinal` needs no more than `TypeOK`: the client has a key, so `Authenticate` is
  over for it, and no login of it is under way. It holds with callers that unregister, too, which is why
  finding 1 cannot heal itself.
- `TalkStep` (for `ImplementsConversations`) has one lemma per goroutine, each of which says that the
  step is a step of its own connection's conversation and that the other connections do not see it. The
  hub's part needs that what a loop greets has been started (`Connected`), and that without
  callers a loop never closes (`HubInv`, `BroadcastsMeant`).
- `StagesInv` says which requests reach the later stages, and that `Send` is closed exactly when Read has
  ended. `LoginKept` is the lemma that a client that is logged in stays so.
- `CallersInv`. A connection keeps its identity, so what a caller has found stays the right
  connection even when it is replaced or withdrawn (`MessageInv`, `EntriesNamed`); an entry of the copy still to
  be served names a client that has got nothing yet, so two entries cannot name one
  client. `SweepInv` orders the times: no time is ahead of the clock, and a login does not set a
  heartbeat back, which is what makes a decision of the sweep remain true while it closes.
- `DispatchInv`. `HandlesInv` ties the open handle to the places where one is held,
  `EffectsInv` the code of the current reply to what was committed or failed, and `RepliesInv` counts: the
  copies in `Replies` of a request are those its class wants but for what is outstanding.
  The one place where a sequence is counted, appending a reply, is a lemma on the set of
  positions, so no induction is needed.
- `RestInv` adds `WindowCovered`: while the last wait is not over, some ticker has at
  least that long to go. With one ticket this one is in flight, so the channel is empty.
- `AnswersOK`: a lister has an answer exactly while its call is handled, and it is one the exchange
  gives. The rest is about one answer: a name, a time and a book are read back exactly when they are ones that
  the code writes or knows (`NameIsRead`, `TimeIsRead`, `BookComesBack`), so an order is (`OrderIsRead`), and
  `PayloadOfAll` carries this from the orders to the list. The widths and the rounding need no bound.
- `RelayInv` adds `NothingSentYet`: until it receives, the handler has nothing in its hand, and so all frames read so far are
  in the inbox; what it then takes is the first; until it has sent that, nothing has been relayed, and afterwards it is over.
- `ConnectionsHeld` is inductive with `RelayInv`, and shows who has to close what. `LeaksForGood`
  follows: a reader that waits for room in the inbox of a handler that is done meets nobody
  who takes, and a handler at an empty inbox whose reader is done meets nobody who puts.
- `NobodyLeftBehind` pairs caller and goroutine at the unbuffered channel; it is what `CallEnds` becomes
  without fairness.

**Only model-checked:** all liveness properties (fairness and ENABLED are out of the
prover's reach): `RegistrationServed`, `ConnectionTornDown`, `LoginDecided`, `RequestFinished`,
`TicketServed`, `BrowserReleased`, `ReaderUnblocked`, `CallEnds`. Every invariant, every action property and every refinement of the
passing runs is a theorem. For the hub and the repositories `NobodyHeldUp` and `NobodyLeftBehind` carry the
part of liveness that is a matter of states.

## 5. What is not modelled

- `GetClientsLen` and `GetUsersLen`, which read a map's length without its lock and have no
  caller; `serverIp`, which every request writes and nobody reads.
- What `UserList`, `CheckUserOnline` and `SendUserMessageAll` would do: their bodies are
  commented out, they return constants. For a user who is nowhere online `SendUserMessage` reports
  success; the model has that outcome, and no property forbids it.
- One remote address on two open sockets, which TCP allows only when the server listens on several addresses of its own.
- Fields that are absent from the documents of a listing; the models give every document all of them.
- The texts of replies and codes; the HTTP envelope of `rsp_common.go`.
- Signatures, nonces and URLs in the REST client; the endpoint methods whose payloads hold nothing but
  the kinds of fields that `Payloads` reads and free text; whether the order of a `PlaceOrder` whose answer was lost exists. The nonce is taken before the wait
  for a ticket, so two callers may be sent in the other order: what the exchange
  then does is not in the repository.
- The empty user id: `IsLogin` would take such a client for logged out. The models
  assume that the external `GetUser` refuses it.
- `Websocket.Sent`, `function` in `socket_controller.go` and `feclient`'s outbox: no caller.
- `Operation` (`ledger.go`), an enumeration like the other three; `Value` and `Scan`, which no
  code of the repository calls; parsing a `Monetary` as a float.
- The arithmetic of the strategies: floating point, and nobody calls it. `operations.go` does
  not compile.
- `main`, configuration, routing, middlewares, printing controllers: no state after
  the start. The TypeScript client polls another service. Tests and examples call the
  exchange.

## 6. Plan

Done, in this order: hub and client with `Presence` and its proofs; REST client; dispatcher;
relay; repositories; the callers of the hub and their proofs; the proofs of the dispatcher; the
refinement of `Presence` with callers that unregister; the values of the REST client, the calls
that carry them, and their proofs; the safety core of the hub's liveness, `Conversation` between hub and
dispatcher, and who holds the connections of the relay, with their proofs.

Next, in the order of importance:

1. Proofs: for `Dispatch` and `Relay` a predicate like `NobodyHeldUp`, which tells every state without a
   step that can be relied on.
2. `Relay`: the case of a `GetCluster` that works, so that the loop turns, the order of several frames is a question, and
   `Repository` composes with it; then an abstract "ordered, lossy at the end" channel and the refinement.
3. `HubCallers` with several callers and `Send` as in `ClientManager`, so that a broadcast that
   waits for one full Send holds up the rest of its copy.
4. `Endpoints`: the life of an order at the exchange, with an answer to `PlaceOrder` that is lost, so that the
   caller does not know whether it has placed one; the ledger.
5. Strategy: the arithmetic of `MajorBidArbitrage` and its ask twin over scaled integers.
