------------------------------ MODULE Presence ------------------------------
(***************************************************************************)
(* What the websocket hub promises about presence:                         *)
(*                                                                         *)
(*   - a connection logs in at most once, and keeps that identity;         *)
(*   - a login is admitted only while its connection is connected, and a   *)
(*     user goes online only by an admitted login, through a connection    *)
(*     with that user's identity; the last such connection wins;           *)
(*   - what is connected stays connected until somebody unregisters it;    *)
(*   - a user goes offline only on behalf of a connection with that user's *)
(*     identity that was unregistered, and disconnected before.            *)
(*                                                                         *)
(* It is not promised that a login which is admitted finds its connection  *)
(* still connected when it is announced, nor that the user is reached      *)
(* through the very connection that leaves: an older one will do.  Nothing *)
(* is said of queues, loops, addresses, replies or crashes.  ClientManager *)
(* implements this module; HubCallers uses the hub as it is described here.*)
(***************************************************************************)
CONSTANTS Conn, UserKey, NoClient, NoKey,
          Unregistering    \* does somebody unregister connections?

VARIABLES
    connected,   \* the connections the hub knows
    identity,    \* the user each connection logged in as
    online,      \* the connection through which each user is reached
    admitted,    \* the logins that were looked up and are not announced yet
    leaving      \* what was disconnected and may still take its user offline

vars == <<connected, identity, online, admitted, leaving>>

Init ==
    /\ connected = {} /\ admitted = {} /\ leaving = {}
    /\ identity = [c \in Conn |-> NoKey]
    /\ online = [k \in UserKey |-> NoClient]

Connect(c) ==
    /\ connected' = connected \cup {c}
    /\ UNCHANGED <<identity, online, admitted, leaving>>

\* Mutant of Identify: nobody asks IsLogin.
IdentifyAgain(c, k) ==
    /\ identity' = [identity EXCEPT ![c] = k]
    /\ UNCHANGED <<connected, online, admitted, leaving>>

Identify(c, k) ==
    /\ identity[c] = NoKey
    /\ identity' = [identity EXCEPT ![c] = k]
    /\ UNCHANGED <<connected, online, admitted, leaving>>

\* The hub finds that the connection of a login is connected.
Admit(c) ==
    /\ c \in connected /\ identity[c] # NoKey
    /\ admitted' = admitted \cup {c}
    /\ UNCHANGED <<connected, identity, online, leaving>>

\* A step may be under way for one connection in several loops at a time.
Done(S, c) == {S, S \ {c}}

Announce(c) ==
    /\ c \in admitted
    /\ online' = [online EXCEPT ![identity[c]] = c]
    /\ admitted' \in Done(admitted, c)
    /\ UNCHANGED <<connected, identity, leaving>>

Disconnect(c) ==
    /\ Unregistering
    /\ connected' = connected \ {c}
    /\ leaving' = leaving \cup {c}
    /\ UNCHANGED <<identity, online, admitted>>

\* The entry of the user goes, or stays when it is not this connection's.
Withdraw(c) ==
    /\ c \in leaving
    /\ \/ UNCHANGED online
       \/ /\ identity[c] # NoKey /\ online[identity[c]] # NoClient
          /\ online' = [online EXCEPT ![identity[c]] = NoClient]
    /\ leaving' \in Done(leaving, c)
    /\ UNCHANGED <<connected, identity, admitted>>

Next ==
    \E c \in Conn :
        \/ Connect(c) \/ \E k \in UserKey : Identify(c, k)
        \/ Admit(c) \/ Announce(c)
        \/ Disconnect(c) \/ Withdraw(c)

Spec == Init /\ [][Next]_vars

=============================================================================
