-------------------------- MODULE MCClientManager --------------------------
(* Small instances of the websocket hub for TLC. *)
EXTENDS ClientManager, TLC

CONSTANTS a1, a2

\* Every peer has an address of its own,
OwnAddr == [c \in Conn |-> {c}]

\* or any of two, so that a later one may have that of an earlier one.
AnyAddr == [c \in Conn |-> {a1, a2}]

\* Requests and users are interchangeable where all requests may do the same,
\* addresses always; sound for the runs without liveness.
Symmetry == Permutations(Conn) \cup Permutations(UserKey)

AddrSymmetry == Permutations({a1, a2})

\* A bound where connections are unregistered: the next one is sent when DelUsers
\* of the last one is over; its close(client.Send) may still be to come.
OneUnregisters ==
    Len(unregisterCh) + Cardinality({m \in Conn : mgr[m] = "unbind"}) <= 1

=============================================================================
