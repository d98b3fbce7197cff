---------------------------- MODULE MCHubCallers ----------------------------
(* Small instances of the hub's callers for TLC. *)
EXTENDS HubCallers, TLC

\* Connections are interchangeable; so would be users with the same AppId.
Symmetry == Permutations(Conn)

=============================================================================
