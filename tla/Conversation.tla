---------------------------- MODULE Conversation ----------------------------
(***************************************************************************)
(* What the server promises the peer of one websocket connection:          *)
(*                                                                         *)
(*   - requests are handled one after the other: what is owed for one is   *)
(*     put into Send before the next one is read, or given up when it      *)
(*     cannot be encoded;                                                  *)
(*   - the connection logs in at most once, and the hub is told so before  *)
(*     the peer is;                                                        *)
(*   - Send never holds more than fits, only Read closes it unless the hub *)
(*     may, and what was put there before is still taken out of it.        *)
(*                                                                         *)
(* Dispatch implements this module in detail and without a hub, and        *)
(* ClientManager implements it for every connection at once: so what the   *)
(* one leaves out of the other is left out soundly.                        *)
(***************************************************************************)
EXTENDS Integers

CONSTANTS
    SendCap,         \* capacity of Client.Send
    HubCloses        \* does the hub close Send, too?

VARIABLES
    stage,           \* where Read is
    owed,            \* the messages it still has to put for the current request
    loggedIn,        \* Client.IsLogin
    waiting,         \* the messages in Client.Send
    closed           \* is it closed?

vars == <<stage, owed, loggedIn, waiting, closed>>

Init ==
    /\ stage \in {"off", "read"}
    /\ owed = 0 /\ waiting = 0
    /\ loggedIn = FALSE /\ closed = FALSE

\* go client.Read()
Begin ==
    /\ stage = "off" /\ stage' = "read"
    /\ UNCHANGED <<owed, loggedIn, waiting, closed>>

\* A request is handled; the reply is due once, or twice with voice set.  One
\* whose handler panics is not answered and changes nothing here.
Handle ==
    /\ stage = "read" /\ stage' = "reply"
    /\ owed' \in {1, 2}
    /\ UNCHANGED <<loggedIn, waiting, closed>>

\* A request is handled that logs the client in.
LogIn ==
    /\ stage = "read" /\ ~loggedIn
    /\ stage' = "login" /\ loggedIn' = TRUE /\ owed' = 1
    /\ UNCHANGED <<waiting, closed>>

TellHub ==
    /\ stage = "login" /\ stage' = "reply"
    /\ UNCHANGED <<owed, loggedIn, waiting, closed>>

Put == ~closed /\ waiting < SendCap /\ waiting' = waiting + 1

\* Only into a Send that is closed a reply is not put.
Reply ==
    /\ stage = "reply" /\ owed > 0
    /\ Put \/ (closed /\ UNCHANGED waiting)
    /\ owed' = owed - 1
    /\ stage' = IF owed = 1 THEN "read" ELSE "reply"
    /\ UNCHANGED <<loggedIn, closed>>

\* The reply cannot be encoded: what is still owed of it is not put.
GiveUp ==
    /\ stage = "reply" /\ stage' = "read" /\ owed' = 0
    /\ UNCHANGED <<loggedIn, waiting, closed>>

End ==
    /\ stage = "read" /\ stage' = "done" /\ closed' = TRUE
    /\ UNCHANGED <<owed, loggedIn, waiting>>

\* Write takes a message, also out of a Send that is closed.
Take ==
    /\ waiting > 0 /\ waiting' = waiting - 1
    /\ UNCHANGED <<stage, owed, loggedIn, closed>>

\* The hub puts a greeting or a broadcast.
PutByHub ==
    /\ stage # "off" /\ Put
    /\ UNCHANGED <<stage, owed, loggedIn, closed>>

CloseByHub ==
    /\ HubCloses /\ closed' = TRUE
    /\ UNCHANGED <<stage, owed, loggedIn, waiting>>

Next ==
    \/ Begin \/ Handle \/ LogIn \/ TellHub \/ Reply \/ GiveUp \/ End
    \/ Take \/ PutByHub \/ CloseByHub

Spec == Init /\ [][Next]_vars

=============================================================================
