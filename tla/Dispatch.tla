------------------------------ MODULE Dispatch ------------------------------
(***************************************************************************)
(* How the requests of one websocket connection are answered: ProcessData  *)
(* (data_server/ws/websocket/acc_process.go), the controllers it calls     *)
(* (acc_controller.go) and the channel Send between the goroutines Read    *)
(* and Write (client.go).  Connections share only the database here, so    *)
(* one is enough; what they share in the hub is in ClientManager.          *)
(*                                                                         *)
(* A controller is represented by what it does: the names below stand for  *)
(* classes of controllers that take the same decisions.  Of an answer the  *)
(* code is kept: "unset" is the zero value of the named result, "plain"    *)
(* the text that is sent when the request is no JSON.                      *)
(*                                                                         *)
(* The database and the repositories are imported from packages outside    *)
(* this repository: each of their calls may succeed or fail, and one that  *)
(* fails to make a change may have made it all the same.  So are the types *)
(* of the answers' data: it may be that they cannot be encoded.            *)
(***************************************************************************)
EXTENDS Integers, Sequences, FiniteSets

CONSTANTS
    MaxRequests,     \* bound on the requests of the connection
    SendCap          \* capacity of Client.Send (100)

ASSUME SizesAssumption == MaxRequests \in Nat /\ SendCap \in Nat \ {0}

VARIABLES
    asked,           \* the requests read so far; the last one is being handled
    pc,              \* where Read is in handling it
    code,            \* ProcessData's local variable
    handles,         \* the requests with an open database handle
    committed,       \* the requests that changed something: a row, or a login
    failed,          \* the requests whose change returned an error
    silent,          \* the requests whose controller panicked
    unsent,          \* the requests with an answer that could not be encoded
    unclosable,      \* the requests for which database.Close failed
    Send, closed,    \* Client.Send
    out              \* the messages Write has passed to WriteMessage

history == <<committed, failed, silent, unsent, unclosable>>
vars == <<asked, pc, code, handles, history, Send, closed, out>>

-----------------------------------------------------------------------------
(* The controllers, by what they do. *)

\* SearchController and the other ones that only log: every result is zero
Stubs == {"stub"}

\* PingController, RoomController, GetTopPublicRoomsController: a fixed answer
Static == {"ping", "top_rooms"}

\* SendRoomChatMsgController, VoiceServerController, JoinRoomAndGetInfoController:
\* the request is parsed and comes back
Echoing == {"chat", "join_room"}

\* The controllers that connect to the database: "followings" and "profile" only
\* read, "follow_list" and "follow" check types first, "publication" stands for
\* the three marketplace controllers that read
UsingDB == {"auth", "followings", "profile", "follow_list", "follow",
            "edit_profile", "publication", "publish"}

\* A type assertion on a field of the request panics when the field is of
\* another type.
Asserting == {"follow_list", "follow", "edit_profile"}

\* voice = true, on every return path
Voiced == {"top_rooms", "join_room", "publication", "publish"}

Marketplace == {"publication", "publish"}

\* The controllers that change something when they succeed
Changing == {"auth", "follow", "edit_profile", "publish"}

Controller == Stubs \cup Static \cup Echoing \cup UsingDB

\* What Read can receive: also what is no JSON, and a cmd nobody registered
Request == Controller \cup {"malformed", "unknown"}

Code == {"unset", "plain", "OK", "ParameterIllegal", "UnauthorizedUserId",
         "ServerError", "OperationFailure", "RoutingNotExist"}

current == Len(asked)
req == asked[current]

Copies(r) == IF r \in Voiced THEN 2 ELSE 1

IsLogin == \E i \in committed : asked[i] = "auth"

-----------------------------------------------------------------------------
TypeOK ==
    /\ asked \in Seq(Request) /\ Len(asked) <= MaxRequests
    /\ pc \in {"read", "connect", "close", "query", "update", "login", "reply", "voice", "done"}
    /\ code \in Code
    /\ pc \notin {"read", "done"} => asked # <<>>
    /\ \A S \in {handles, committed, failed, silent, unsent, unclosable} : S \subseteq DOMAIN asked
    /\ Send \in Seq([id : DOMAIN asked, code : Code]) /\ Len(Send) <= SendCap
    /\ out \in Seq([id : DOMAIN asked, code : Code])
    /\ closed \in BOOLEAN

Init ==
    /\ asked = <<>> /\ pc = "read" /\ code = "unset"
    /\ handles = {} /\ committed = {} /\ failed = {}
    /\ silent = {} /\ unsent = {} /\ unclosable = {}
    /\ Send = <<>> /\ closed = FALSE /\ out = <<>>

-----------------------------------------------------------------------------
\* The controller returns this code (or ProcessData sets it).
Answer(c) == code' = c /\ pc' = "reply"

\* ReadMessage, and ProcessData up to the first call that leaves the process.
Receive(r) ==
    /\ pc = "read" /\ Len(asked) < MaxRequests
    /\ asked' = Append(asked, r)
    /\ \/ r = "malformed" /\ Answer("plain")
       \/ r = "unknown" /\ Answer("RoutingNotExist")
       \/ r \in Stubs /\ Answer("unset")
       \/ r \in Static /\ Answer("OK")
       \/ r \in Echoing \cup UsingDB /\ Answer("ParameterIllegal")
       \/ r \in Echoing /\ Answer("OK")
       \/ r \in UsingDB /\ pc' = "connect" /\ UNCHANGED code
    /\ UNCHANGED <<handles, history, Send, closed, out>>

\* db, err := database.Connect().  AuthController calls database.Callback, which
\* is this call and the next one.
Connect ==
    /\ pc = "connect"
    /\ \/ Answer("ServerError") /\ UNCHANGED handles
       \/ /\ handles' = handles \cup {current}
          /\ pc' = IF req = "auth" THEN "query" ELSE "close"
          /\ UNCHANGED code
    /\ UNCHANGED <<asked, history, Send, closed, out>>

\* cdb, err := database.Close(db); without it there is nothing to close later.
CloseDB ==
    /\ pc = "close"
    /\ \/ Answer("ServerError") /\ unclosable' = unclosable \cup {current}
       \/ pc' = "query" /\ UNCHANGED <<code, unclosable>>
    /\ UNCHANGED <<asked, handles, committed, failed, silent, unsent, Send, closed, out>>

\* Mutant of Release: defer cdb.Close() comes after the query, so a query that
\* fails returns without it.
ReleaseOnSuccess ==
    handles' = IF code' \in {"UnauthorizedUserId", "ServerError"}
               THEN handles ELSE handles \ {current}

\* defer cdb.Close(), on return and on panic
Release == handles' = handles \ {current}

\* Mutant of AssertionPanics: ProcessData does not recover, so that Read does, which
\* closes Send and is gone.
AssertionEndsRead ==
    /\ pc \in {"query", "update"} /\ req \in Asserting
    /\ silent' = silent \cup {current}
    /\ pc' = "done" /\ closed' = TRUE
    /\ UNCHANGED <<asked, code, committed, failed, unsent, unclosable, Send, out>>
    /\ Release

\* A type assertion panics; ProcessData recovers and does not answer.
AssertionPanics ==
    /\ pc \in {"query", "update"} /\ req \in Asserting
    /\ silent' = silent \cup {current}
    /\ pc' = "read"
    /\ UNCHANGED <<asked, code, committed, failed, unsent, unclosable, Send, closed, out>>
    /\ Release

QueryError == IF req \in Marketplace THEN "ServerError" ELSE "UnauthorizedUserId"

\* The calls of a repository that change something: Update3, UpdateFollowState,
\* CreatePublication
Changes == pc = "update" \/ (pc = "query" /\ req \in {"follow", "publish"})

\* The repository returns an error, or the user is not valid.  The caller of a
\* change cannot tell whether it was made before the error.
QueryFails ==
    /\ pc \in {"query", "update"}
    /\ Answer(QueryError)
    /\ Release
    /\ IF Changes
       THEN failed' = failed \cup {current} /\ committed' \in {committed, committed \cup {current}}
       ELSE UNCHANGED <<failed, committed>>
    /\ UNCHANGED <<asked, silent, unsent, unclosable, Send, closed, out>>

\* Mutant of QuerySucceeds: edit_profile answers when the user is found.
QuerySucceedsEarly ==
    /\ pc = "query" /\ req # "auth"
    /\ Answer("OK") /\ Release
    /\ committed' = IF Changes THEN committed \cup {current} ELSE committed
    /\ UNCHANGED <<asked, failed, silent, unsent, unclosable, Send, closed, out>>

\* The query, which for "follow" and "publish" is the update; EditProfileController
\* has found the user and goes on.
QuerySucceeds ==
    /\ pc = "query" /\ req # "auth"
    /\ IF req = "edit_profile"
       THEN pc' = "update" /\ UNCHANGED <<code, handles, committed>>
       ELSE /\ Answer("OK") /\ Release
            /\ committed' = IF Changes THEN committed \cup {current} ELSE committed
    /\ UNCHANGED <<asked, failed, silent, unsent, unclosable, Send, closed, out>>

\* repo.Update3
UpdateSucceeds ==
    /\ pc = "update"
    /\ committed' = committed \cup {current}
    /\ Answer("OK") /\ Release
    /\ UNCHANGED <<asked, failed, silent, unsent, unclosable, Send, closed, out>>

\* Mutant of Authenticate: nobody asks IsLogin.
AuthenticateAgain ==
    /\ pc = "query" /\ req = "auth"
    /\ committed' = committed \cup {current}
    /\ pc' = "login"
    /\ UNCHANGED <<asked, code, handles, failed, silent, unsent, unclosable, Send, closed, out>>

\* AuthController with a valid user: refused when the client is logged in
\* already, else client.Login.
Authenticate ==
    /\ pc = "query" /\ req = "auth"
    /\ IF IsLogin
       THEN Answer("OperationFailure") /\ Release /\ UNCHANGED committed
       ELSE /\ committed' = committed \cup {current}
            /\ pc' = "login"
            /\ UNCHANGED <<code, handles>>
    /\ UNCHANGED <<asked, failed, silent, unsent, unclosable, Send, closed, out>>

\* clientManager.Login <- login, with the database handle still open
SubmitLogin ==
    /\ pc = "login"
    /\ Answer("OK") /\ Release
    /\ UNCHANGED <<asked, history, Send, closed, out>>

-----------------------------------------------------------------------------
\* Mutant of SendMsg: a message for which there is no room is dropped.
SendOrDrop ==
    Send' = IF Len(Send) < SendCap THEN Append(Send, [id |-> current, code |-> code]) ELSE Send

\* Mutant of SendMsg: it does not wait for room.
SendUnbounded == Send' = Append(Send, [id |-> current, code |-> code])

\* client.SendMsg: waits for room in Send
SendMsg ==
    /\ Len(Send) < SendCap
    /\ Send' = Append(Send, [id |-> current, code |-> code])

Reply ==
    /\ pc = "reply"
    /\ SendMsg
    /\ pc' = IF req \in Voiced THEN "voice" ELSE "read"
    /\ UNCHANGED <<asked, code, handles, history, closed, out>>

\* if voice == true
ReplyAgain ==
    /\ pc = "voice"
    /\ SendMsg
    /\ pc' = "read"
    /\ UNCHANGED <<asked, code, handles, history, closed, out>>

\* json.Marshal(responseHead) fails, the first time or the second: ProcessData
\* returns without another word.  Only an answer with data can fail to encode.
MarshalFails ==
    /\ pc \in {"reply", "voice"} /\ req \in Controller \ Stubs
    /\ unsent' = unsent \cup {current}
    /\ pc' = "read"
    /\ UNCHANGED <<asked, code, handles, committed, failed, silent, unclosable, Send, closed, out>>

\* ReadMessage fails: Read closes Send and returns.
ReaderFails ==
    /\ pc = "read"
    /\ pc' = "done" /\ closed' = TRUE
    /\ UNCHANGED <<asked, code, handles, history, Send, out>>

\* Write passes on what is in Send, also after Send was closed.
Write ==
    /\ Send # <<>>
    /\ Send' = Tail(Send) /\ out' = Append(out, Head(Send))
    /\ UNCHANGED <<asked, pc, code, handles, history, closed>>

Handle ==
    \/ Connect \/ CloseDB
    \/ AssertionPanics \/ QueryFails \/ QuerySucceeds \/ UpdateSucceeds
    \/ Authenticate \/ SubmitLogin
    \/ Reply \/ ReplyAgain

Next ==
    \/ \E r \in Request : Receive(r)
    \/ Handle
    \/ MarshalFails
    \/ ReaderFails
    \/ Write

Spec == Init /\ [][Next]_vars

\* The calls that leave the process return, the hub takes logins (LoginDecided of
\* ClientManager) and the peer reads what Write sends.
FairSpec == Spec /\ WF_vars(Handle) /\ WF_vars(Write)

-----------------------------------------------------------------------------
Replies == out \o Send

CopiesSent(i) == Cardinality({j \in DOMAIN Replies : Replies[j].id = i})

\* What Read still has to send for the current request
Outstanding ==
    CASE pc \in {"read", "done"} -> 0 [] pc = "voice" -> 1 [] OTHER -> Copies(req)

\* What should have been sent of the answer to request i
Due(i) == IF i \in silent THEN 0
          ELSE Copies(asked[i]) - (IF i = current THEN Outstanding ELSE 0)

Accounted(i) == IF i \in unsent THEN CopiesSent(i) < Due(i) ELSE CopiesSent(i) = Due(i)

\* Every request is answered as often as its controller wants, in the order of
\* the requests, with one and the same code.  There are two exceptions: one whose
\* controller panicked gets no answer, and of an answer that cannot be encoded at
\* least the last copy is missing.  Nothing that was in Send is lost when Read
\* closes it.
RepliesAccounted ==
    /\ \A i \in DOMAIN asked : Accounted(i)
    /\ \A j, k \in DOMAIN Replies : j < k =>
        /\ Replies[j].id <= Replies[k].id
        /\ Replies[j].id = Replies[k].id => Replies[j] = Replies[k]

\* An answer to a request for a change says OK exactly when the change was made and
\* its call returned without an error: an answer with another code means that
\* nothing was changed, or that the repository itself failed in changing it.  A
\* controller that panics has changed nothing.
EffectsReported ==
    /\ \A j \in DOMAIN Replies : asked[Replies[j].id] \in Changing =>
        (Replies[j].code = "OK" <=> Replies[j].id \in committed \ failed)
    /\ committed \cap silent = {}

\* Between two requests no database handle is left open, except those that
\* database.Close refused: panics and errors release theirs.
HandlesReleased == pc \in {"read", "reply", "voice", "done"} => handles = unclosable

\* Read gets back to the socket after every request, though a reply has to wait
\* for Write to make room.
RequestFinished == pc \notin {"read", "done"} ~> pc = "read"

\* Seen from outside, the requests are a Conversation with a client that the hub
\* does not interfere with: nobody is logged in twice, no request is read before
\* the last one is answered, and Read alone closes Send.
stage == CASE pc \in {"reply", "voice"} -> "reply"
           [] pc \in {"login", "done"} -> pc
           [] OTHER -> "read"

owed == CASE pc = "reply" -> Copies(req)
          [] pc \in {"login", "voice"} -> 1
          [] OTHER -> 0

Talk == INSTANCE Conversation WITH
    HubCloses <- FALSE, loggedIn <- IsLogin, waiting <- Len(Send)

Conversation == Talk!Spec

-----------------------------------------------------------------------------
(* Why they hold. *)

\* Where the current request has not been answered yet
Unanswered == {"connect", "close", "query", "update", "login", "reply"}

\* A handle is open for the current request from Connect until its Release.
HandlesInv ==
    /\ pc \in {"read", "connect", "reply", "voice", "done"} => handles = unclosable
    /\ pc \in {"close", "query", "update", "login"} => handles = unclosable \cup {current}
    /\ pc \in Unanswered \ {"reply"} => current \notin unclosable

\* The change is made by the last step before an answer, and code fits it.
EffectsInv ==
    /\ pc \in {"connect", "close", "query", "update"} => current \notin committed
    /\ pc = "login" => current \in committed
    /\ pc \in {"reply", "voice"} /\ req \in Changing => (code = "OK" <=> current \in committed \ failed)
    /\ pc \in Unanswered \ {"reply"} => current \notin failed
    /\ pc \notin {"read", "done"} => current \notin silent /\ current \notin unsent
    /\ EffectsReported

\* No reply is of a later request than the current one; what there is of the
\* current one was sent with the code at hand.
RepliesInv ==
    /\ pc \in Unanswered => \A j \in DOMAIN Replies : Replies[j].id < current
    /\ pc = "voice" => \A j \in DOMAIN Replies : Replies[j].id = current => Replies[j].code = code
    /\ RepliesAccounted

\* Who closes Send, and which requests get to the later stages
StagesInv ==
    /\ closed <=> pc = "done"
    /\ pc = "login" => req = "auth"
    /\ pc = "update" => req = "edit_profile"

DispatchInv == HandlesInv /\ EffectsInv /\ RepliesInv

=============================================================================
