------------------------------- MODULE Relay -------------------------------
(***************************************************************************)
(* The route /socket of the data server: SocketHandler                     *)
(* (data_server/controllers/socket_controller.go) opens a websocket of its *)
(* own to the exchange (data_server/bitso/websocket.go), upgrades the      *)
(* request of the browser (data_server/feclient/websocket.go), and copies  *)
(* what the first one receives to the second one.                          *)
(*                                                                         *)
(* Each request runs two goroutines, the handler and the reader of its     *)
(* upstream connection, with the channel inbox between them.  Frames of    *)
(* one upstream connection are numbered.  Keep-alive frames are read and   *)
(* skipped: reading one changes nothing.                                   *)
(***************************************************************************)
EXTENDS Integers, Sequences

CONSTANTS
    Browser,         \* the requests of /socket
    InboxCap,        \* capacity of Websocket.inbox (8)
    MaxFrames        \* bound on the frames of one upstream connection

ASSUME InboxAssumption == InboxCap \in Nat \ {0} /\ MaxFrames \in Nat

VARIABLES
    handler,         \* the goroutine running SocketHandler
    browser,         \* the connection of the browser
    reader,          \* the goroutine of NewWebsocket
    upstream,        \* the connection to the exchange
    got,             \* the number of the last frame the reader took from it
    inbox,           \* Websocket.inbox
    hand,            \* the message m of the handler; 0 before the first
    relayed,         \* the frames written to the browser
    exited           \* log.Fatal has ended the process

front == <<handler, browser, hand, relayed>>
back  == <<reader, upstream, got, inbox>>
vars  == <<front, back, exited>>

Frame == 1 .. MaxFrames

TypeOK ==
    /\ handler \in [Browser -> {"idle", "upgrade", "fetch", "receive", "send", "save", "done"}]
    /\ browser \in [Browser -> {"none", "open", "gone", "closed"}]
    /\ reader \in [Browser -> {"off", "read", "put", "done"}]
    /\ upstream \in [Browser -> {"none", "open", "closed"}]
    /\ got \in [Browser -> 0 .. MaxFrames]
    /\ inbox \in [Browser -> Seq(Frame)]
    /\ \A b \in Browser : Len(inbox[b]) <= InboxCap
    /\ hand \in [Browser -> 0 .. MaxFrames]
    /\ relayed \in [Browser -> Seq(Frame)]
    /\ exited \in BOOLEAN

Init ==
    /\ handler = [b \in Browser |-> "idle"]
    /\ browser = [b \in Browser |-> "none"]
    /\ reader = [b \in Browser |-> "off"]
    /\ upstream = [b \in Browser |-> "none"]
    /\ got = [b \in Browser |-> 0]
    /\ inbox = [b \in Browser |-> <<>>]
    /\ hand = [b \in Browser |-> 0]
    /\ relayed = [b \in Browser |-> <<>>]
    /\ exited = FALSE

-----------------------------------------------------------------------------
(* SocketHandler *)

\* godotenv.Load and bitso.NewWebsocket: dial, then start the reader.
Dial(b) ==
    /\ ~exited /\ handler[b] = "idle"
    /\ upstream' = [upstream EXCEPT ![b] = "open"]
    /\ reader' = [reader EXCEPT ![b] = "read"]
    /\ handler' = [handler EXCEPT ![b] = "upgrade"]
    /\ UNCHANGED <<browser, hand, relayed, got, inbox, exited>>

\* No .env file, or the exchange cannot be dialled: log.Fatal.
DialFails(b) ==
    /\ ~exited /\ handler[b] = "idle"
    /\ exited' = TRUE
    /\ UNCHANGED <<front, back>>

\* feclient.NewWebsocket, and Subscribe, whose error is ignored
Upgrade(b) ==
    /\ ~exited /\ handler[b] = "upgrade"
    /\ browser' = [browser EXCEPT ![b] = "open"]
    /\ handler' = [handler EXCEPT ![b] = "fetch"]
    /\ UNCHANGED <<hand, relayed, back, exited>>

\* The handler returns; its upstream connection stays open, with its reader.
UpgradeFails(b) ==
    /\ ~exited /\ handler[b] = "upgrade"
    /\ handler' = [handler EXCEPT ![b] = "done"]
    /\ UNCHANGED <<browser, hand, relayed, back, exited>>

\* defer cws.Close(); t, _ := client.Ticker(book), whose error is ignored
Ticker(b) ==
    /\ ~exited /\ handler[b] = "fetch"
    /\ handler' = [handler EXCEPT ![b] = "receive"]
    /\ UNCHANGED <<browser, hand, relayed, back, exited>>

\* m := <-ws.Receive(); nobody closes the inbox, so an empty one means waiting.
Receive(b) ==
    /\ ~exited /\ handler[b] = "receive" /\ inbox[b] # <<>>
    /\ hand' = [hand EXCEPT ![b] = Head(inbox[b])]
    /\ inbox' = [inbox EXCEPT ![b] = Tail(@)]
    /\ handler' = [handler EXCEPT ![b] = "send"]
    /\ UNCHANGED <<browser, relayed, reader, upstream, got, exited>>

\* Mutant of Sent: it tries again until the browser has got the message.
SentUntilWritten(b) ==
    /\ ~exited /\ handler[b] = "send" /\ browser[b] = "open"
    /\ relayed' = [relayed EXCEPT ![b] = Append(@, hand[b])]
    /\ handler' = [handler EXCEPT ![b] = "save"]
    /\ UNCHANGED <<browser, hand, back, exited>>

\* cws.Sent(m): the error of a browser that has gone is only logged.
Sent(b) ==
    /\ ~exited /\ handler[b] = "send"
    /\ relayed' = IF browser[b] = "open" THEN [relayed EXCEPT ![b] = Append(@, hand[b])]
                                         ELSE relayed
    /\ handler' = [handler EXCEPT ![b] = "save"]
    /\ UNCHANGED <<browser, hand, back, exited>>

\* Mutant of SaveTiker: the panic leaves the browser's connection open.
SaveTikerNoDefer(b) ==
    /\ ~exited /\ handler[b] = "save"
    /\ handler' = [handler EXCEPT ![b] = "done"]
    /\ UNCHANGED <<browser, hand, relayed, back, exited>>

\* SaveTiker(t): GetCluster returns its own result variable, which is nil and
\* hides the package's cluster, so cluster.CreateSession() panics.  The deferred
\* cws.Close() runs and net/http recovers: this request is over.
SaveTiker(b) ==
    /\ ~exited /\ handler[b] = "save"
    /\ handler' = [handler EXCEPT ![b] = "done"]
    /\ browser' = [browser EXCEPT ![b] = "closed"]
    /\ UNCHANGED <<hand, relayed, back, exited>>

-----------------------------------------------------------------------------
(* The reader of NewWebsocket *)

\* ReadMessage, and one of the messages that go to the inbox
ReadMessage(b) ==
    /\ ~exited /\ reader[b] = "read" /\ got[b] < MaxFrames
    /\ got' = [got EXCEPT ![b] = @ + 1]
    /\ reader' = [reader EXCEPT ![b] = "put"]
    /\ UNCHANGED <<front, upstream, inbox, exited>>

\* Mutant of Put: a full inbox loses its oldest message, so that the newest has room.
PutLatest(b) ==
    /\ ~exited /\ reader[b] = "put"
    /\ inbox' = [inbox EXCEPT ![b] = Append(IF Len(@) < InboxCap THEN @ ELSE Tail(@), got[b])]
    /\ reader' = [reader EXCEPT ![b] = "read"]
    /\ UNCHANGED <<front, upstream, got, exited>>

\* Mutant of Put: when the inbox is full the message is dropped.
PutOrDrop(b) ==
    /\ ~exited /\ reader[b] = "put"
    /\ inbox' = [inbox EXCEPT ![b] = IF Len(@) < InboxCap THEN Append(@, got[b]) ELSE @]
    /\ reader' = [reader EXCEPT ![b] = "read"]
    /\ UNCHANGED <<front, upstream, got, exited>>

\* Mutant of Put: there is always room.
PutAnyway(b) ==
    /\ ~exited /\ reader[b] = "put"
    /\ inbox' = [inbox EXCEPT ![b] = Append(@, got[b])]
    /\ reader' = [reader EXCEPT ![b] = "read"]
    /\ UNCHANGED <<front, upstream, got, exited>>

\* ws.inbox <- reply
Put(b) ==
    /\ ~exited /\ reader[b] = "put" /\ Len(inbox[b]) < InboxCap
    /\ inbox' = [inbox EXCEPT ![b] = Append(@, got[b])]
    /\ reader' = [reader EXCEPT ![b] = "read"]
    /\ UNCHANGED <<front, upstream, got, exited>>

\* A read fails or a message is not what its type says: the deferred ws.Close()
\* runs.  The handler is not told.
ReaderFails(b) ==
    /\ ~exited /\ reader[b] = "read"
    /\ reader' = [reader EXCEPT ![b] = "done"]
    /\ upstream' = [upstream EXCEPT ![b] = "closed"]
    /\ UNCHANGED <<front, got, inbox, exited>>

\* The browser leaves; nothing reads from its connection.
BrowserLeaves(b) ==
    /\ ~exited /\ browser[b] = "open"
    /\ browser' = [browser EXCEPT ![b] = "gone"]
    /\ UNCHANGED <<handler, hand, relayed, back, exited>>

Serve(b) == Upgrade(b) \/ UpgradeFails(b) \/ Receive(b) \/ Sent(b) \/ SaveTiker(b)

Next == \E b \in Browser :
    \/ Dial(b) \/ DialFails(b) \/ Ticker(b) \/ Serve(b)
    \/ ReadMessage(b) \/ Put(b) \/ ReaderFails(b)
    \/ BrowserLeaves(b)

Spec == Init /\ [][Next]_vars

\* A goroutine that can go on does, and a write to the browser does not wait for
\* ever.  The exchange need not send anything, nor answer the ticker's request:
\* http.DefaultClient has no timeout, so a handler may stay in Ticker for ever.
FairSpec == Spec /\ \A b \in Browser : WF_vars(Serve(b)) /\ WF_vars(Put(b))

-----------------------------------------------------------------------------
\* A browser gets the first frame of its upstream connection or none, never a
\* later one, however many were read while the handler was in Ticker: it is the
\* oldest that waits, and the panic of SaveTiker ends the relay after it.  All
\* frames read since stay in the inbox, none lost, and one in the reader's hand.
FirstOnly(b) ==
    /\ relayed[b] \in {<<>>, <<1>>} /\ hand[b] \in {0, 1}
    /\ \A i \in DOMAIN inbox[b] : inbox[b][i] = hand[b] + i
    /\ hand[b] + Len(inbox[b]) = IF reader[b] = "put" THEN got[b] - 1 ELSE got[b]

RelayFirstOnly == \A b \in Browser : FirstOnly(b)

\* Why it holds: the handler has nothing in its hand until it receives, and then
\* the first frame; until it sends, nothing has been relayed; and the reader is
\* not there before Dial.
NothingSentYet == \A b \in Browser :
    /\ handler[b] = "idle" => reader[b] = "off"
    /\ handler[b] \in {"idle", "upgrade", "fetch", "receive"} => hand[b] = 0
    /\ handler[b] \in {"idle", "upgrade", "fetch", "receive", "send"} => relayed[b] = <<>>
    /\ handler[b] = "send" => hand[b] = 1

RelayInv == RelayFirstOnly /\ NothingSentYet

\* Once a frame waits for the handler, the connection of its browser is closed in
\* the end, also when the reader fails right after that frame and when the
\* browser has gone: every way out of the loop passes the deferred Close.
BrowserReleased == \A b \in Browser :
    handler[b] = "receive" /\ inbox[b] # <<>> ~> browser[b] = "closed" \/ exited

\* The reader waits for room only as long as there is a handler that will make
\* some: it is stuck for ever only behind a handler that is in Ticker or done.
ReaderUnblocked == \A b \in Browser :
    reader[b] = "put" ~> reader[b] # "put" \/ handler[b] \in {"fetch", "done"} \/ exited

\* A connection is held by the goroutine that has to close it: the browser's by
\* the handler, from the upgrade to the deferred Close, the upstream one by its
\* reader alone, whether or not there still is a handler.
ConnectionsHeld == \A b \in Browser :
    /\ browser[b] \in {"open", "gone"} <=> handler[b] \in {"fetch", "receive", "send", "save"}
    /\ upstream[b] = "open" <=> reader[b] \in {"read", "put"}

\* A request can leak in two ways: its reader waits for room in an inbox that
\* nobody empties any more, or its handler waits for a message that nobody sends
\* any more.
ReaderLeaked(b) == handler[b] = "done" /\ reader[b] = "put" /\ Len(inbox[b]) = InboxCap
HandlerLeaked(b) == handler[b] = "receive" /\ reader[b] = "done" /\ inbox[b] = <<>>

\* Neither leak ever ends, and what is held stays held: the upstream connection
\* of the one, the browser's connection of the other.
LeaksForGood ==
    [][\A b \in Browser :
        /\ ReaderLeaked(b) => ReaderLeaked(b)' /\ upstream'[b] = "open"
        /\ HandlerLeaked(b) => HandlerLeaked(b)' /\ browser'[b] # "closed"]_vars

\* feclient/websocket.go:45 says of the Close that SocketHandler defers that it
\* closes the active connection with the exchange's servers.  So: when it has
\* run, that connection is closed.
CloseClosesUpstream == \A b \in Browser : browser[b] = "closed" => upstream[b] = "closed"

=============================================================================
