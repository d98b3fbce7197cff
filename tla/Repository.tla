----------------------------- MODULE Repository -----------------------------
(***************************************************************************)
(* The repositories of data_server/repository/crud.  Every operation       *)
(* starts a goroutine, gives it a fresh unbuffered channel `done', and     *)
(* waits in channels.OK (data_server/utils/channels) for the one verdict   *)
(* that the goroutine sends before its deferred close of the channel.      *)
(*                                                                         *)
(* SaveTicker inserts a row.  Save and Delete of the balance repository    *)
(* have nothing to do in their goroutine: their verdict is always true.    *)
(***************************************************************************)
EXTENDS Integers

CONSTANTS
    Call             \* the calls of one repository, from any goroutines

VARIABLES
    session,         \* has NewCassandraRepositoryCRUD been given a session, or nil?
    caller,          \* the goroutine of the caller
    worker,          \* the goroutine it started
    verdict,         \* what the worker sends
    result,          \* what the operation returns: an error or nil
    failed,          \* the calls whose statement has failed (history)
    crashed          \* an unrecovered panic ended the process

vars == <<session, caller, worker, verdict, result, failed, crashed>>

TypeOK ==
    /\ session \in BOOLEAN
    /\ caller \in [Call -> {"idle", "wait", "check", "returned"}]
    /\ worker \in [Call -> {"off", "exec", "send", "close", "done", "dying"}]
    /\ verdict \in [Call -> BOOLEAN]
    /\ result \in [Call -> {"none", "nil", "error"}]
    /\ failed \subseteq Call
    /\ crashed \in BOOLEAN

Init ==
    /\ session \in BOOLEAN
    /\ caller = [c \in Call |-> "idle"]
    /\ worker = [c \in Call |-> "off"]
    /\ verdict = [c \in Call |-> FALSE]
    /\ result = [c \in Call |-> "none"]
    /\ failed = {}
    /\ crashed = FALSE

\* done := make(chan bool); go func(ch) {...}(done); channels.OK(done)
Start(c, o) ==
    /\ ~crashed /\ caller[c] = "idle"
    /\ caller' = [caller EXCEPT ![c] = "wait"]
    /\ worker' = [worker EXCEPT ![c] = IF o = "SaveTicker" THEN "exec" ELSE "send"]
    /\ verdict' = [verdict EXCEPT ![c] = TRUE]
    /\ UNCHANGED <<session, result, failed, crashed>>

\* s.session.Query(...).Exec(): works, or fails with an error that stays in the
\* goroutine.  (As it is written, with a parenthesis missing, a server refuses it
\* every time.)  Without a session it panics, which runs the deferred close(ch).
Exec(c) ==
    /\ ~crashed /\ worker[c] = "exec"
    /\ \/ session /\ UNCHANGED <<verdict, failed>>
       \/ /\ session
          /\ verdict' = [verdict EXCEPT ![c] = FALSE]
          /\ failed' = failed \cup {c}
       \/ ~session /\ UNCHANGED <<verdict, failed>>
    /\ worker' = [worker EXCEPT ![c] = IF session THEN "send" ELSE "dying"]
    /\ UNCHANGED <<session, caller, result, crashed>>

\* The goroutine has no recover: its panic ends the process.
Die(c) ==
    /\ ~crashed /\ worker[c] = "dying"
    /\ crashed' = TRUE
    /\ UNCHANGED <<session, caller, worker, verdict, result, failed>>

\* Until then, ok := <-done yields the zero value of the closed channel.
VerdictOfClosed(c) ==
    /\ ~crashed /\ caller[c] = "wait" /\ worker[c] = "dying"
    /\ caller' = [caller EXCEPT ![c] = "check"]
    /\ verdict' = [verdict EXCEPT ![c] = FALSE]
    /\ UNCHANGED <<session, worker, result, failed, crashed>>

\* Mutant of Verdict: channels.OK has a default case and does not wait.
VerdictOrDefault(c) ==
    /\ ~crashed /\ caller[c] = "wait"
    /\ IF worker[c] = "send"
       THEN worker' = [worker EXCEPT ![c] = "close"] /\ UNCHANGED verdict
       ELSE verdict' = [verdict EXCEPT ![c] = FALSE] /\ UNCHANGED worker
    /\ caller' = [caller EXCEPT ![c] = "check"]
    /\ UNCHANGED <<session, result, failed, crashed>>

\* ch <- verdict meets ok := <-done: the channel has no buffer.
Verdict(c) ==
    /\ ~crashed /\ caller[c] = "wait" /\ worker[c] = "send"
    /\ worker' = [worker EXCEPT ![c] = "close"]
    /\ caller' = [caller EXCEPT ![c] = "check"]
    /\ UNCHANGED <<session, verdict, result, failed, crashed>>

\* defer close(ch)
Close(c) ==
    /\ ~crashed /\ worker[c] = "close"
    /\ worker' = [worker EXCEPT ![c] = "done"]
    /\ UNCHANGED <<session, caller, verdict, result, failed, crashed>>

\* The operation returns nil, or else its own variable err: the goroutine of
\* SaveTicker has declared another one, so this one is nil as well.
Return(c) ==
    /\ ~crashed /\ caller[c] = "check"
    /\ result' = [result EXCEPT ![c] = "nil"]
    /\ caller' = [caller EXCEPT ![c] = "returned"]
    /\ UNCHANGED <<session, worker, verdict, failed, crashed>>

Step(c) == Exec(c) \/ Die(c) \/ VerdictOfClosed(c) \/ Verdict(c) \/ Close(c) \/ Return(c)

Next == \E c \in Call :
    \/ \E o \in {"SaveTicker", "Save", "Delete"} : Start(c, o)
    \/ Step(c)

Spec == Init /\ [][Next]_vars

\* Goroutines that can go on do, and the driver bounds the time of a statement.
FairSpec == Spec /\ \A c \in Call : WF_vars(Step(c))

-----------------------------------------------------------------------------
\* Nobody is left behind at the channel: a goroutine that has still to execute its
\* statement or to send its verdict has a caller that waits for it, so no operation
\* returns before; and a caller that waits has such a goroutine, or one that is
\* about to close the channel and to end the process.
NobodyLeftBehind == \A c \in Call :
    /\ worker[c] \in {"exec", "send"} => caller[c] = "wait"
    /\ caller[c] = "wait" => worker[c] \in {"exec", "send", "dying"}

\* Every call returns and its goroutine ends, whatever the other calls do: with a
\* session always, without one unless a statement has ended the process.
CallEnds == \A c \in Call :
    caller[c] = "wait" ~>
        \/ caller[c] = "returned" /\ worker[c] = "done"
        \/ crashed /\ ~session

\* repository_cassandra_crud.go:22 says that the operation returns a new record or
\* an error.  So: a call whose statement failed returns an error.
ErrorsReported == \A c \in Call :
    caller[c] = "returned" /\ c \in failed => result[c] = "error"

=============================================================================
