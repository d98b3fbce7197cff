-------------------------- MODULE RepositoryProofs --------------------------
(***************************************************************************)
(* Proofs about Repository, for every set of concurrent calls.             *)
(***************************************************************************)
EXTENDS Repository, TLAPS

\* Every reachable state is of the right type.
THEOREM TypeCorrect == Spec => []TypeOK
<1>1. Init => TypeOK
  <2> SUFFICES ASSUME Init PROVE TypeOK
    OBVIOUS
  <2>1. session \in BOOLEAN /\ crashed \in BOOLEAN /\ failed \subseteq Call
    BY DEF Init
  <2>2. /\ caller \in [Call -> {"idle", "wait", "check", "returned"}]
        /\ worker \in [Call -> {"off", "exec", "send", "close", "done", "dying"}]
        /\ result \in [Call -> {"none", "nil", "error"}]
    BY DEF Init
  <2>3. verdict \in [Call -> BOOLEAN]
    BY DEF Init
  <2> QED
    BY <2>1, <2>2, <2>3 DEF TypeOK
<1>2. TypeOK /\ [Next]_vars => TypeOK'
  <2> SUFFICES ASSUME TypeOK, [Next]_vars PROVE TypeOK'
    OBVIOUS
  <2> USE DEF TypeOK
  <2>1. ASSUME NEW c \in Call, NEW o \in {"SaveTicker", "Save", "Delete"}, Start(c, o)
        PROVE TypeOK'
    BY <2>1 DEF Start
  <2>2. ASSUME NEW c \in Call, Exec(c) PROVE TypeOK'
    BY <2>2 DEF Exec
  <2>3. ASSUME NEW c \in Call, Verdict(c) PROVE TypeOK'
    BY <2>3 DEF Verdict
  <2>4. ASSUME NEW c \in Call, Close(c) PROVE TypeOK'
    BY <2>4 DEF Close
  <2>5. ASSUME NEW c \in Call, Return(c) PROVE TypeOK'
    BY <2>5 DEF Return
  <2>6. ASSUME NEW c \in Call, Die(c) PROVE TypeOK'
    BY <2>6 DEF Die
  <2>7. ASSUME NEW c \in Call, VerdictOfClosed(c) PROVE TypeOK'
    BY <2>7 DEF VerdictOfClosed
  <2>8. CASE UNCHANGED vars
    BY <2>8 DEF vars
  <2> QED
    BY <2>1, <2>2, <2>3, <2>4, <2>5, <2>6, <2>7, <2>8 DEF Next, Step
<1> QED
  BY <1>1, <1>2, PTL DEF Spec

\* Who waits at the channel is met there, by its own goroutine and once: no
\* operation returns before its statement was executed, or leaves the goroutine it
\* started behind with its verdict unsent.  The property is inductive given the
\* types, because the worker moves on to close in the step in which the caller
\* leaves its wait.
THEOREM NobodyIsLeftBehind == Spec => []NobodyLeftBehind
<1>1. Init => NobodyLeftBehind
  BY DEF Init, NobodyLeftBehind
<1>2. TypeOK /\ NobodyLeftBehind /\ [Next]_vars => NobodyLeftBehind'
  <2> SUFFICES ASSUME TypeOK, NobodyLeftBehind, [Next]_vars PROVE NobodyLeftBehind'
    OBVIOUS
  <2> USE DEF TypeOK, NobodyLeftBehind
  <2>1. ASSUME NEW c \in Call, NEW o \in {"SaveTicker", "Save", "Delete"}, Start(c, o)
        PROVE NobodyLeftBehind'
    BY <2>1 DEF Start
  <2>2. ASSUME NEW c \in Call, Exec(c) PROVE NobodyLeftBehind'
    BY <2>2 DEF Exec
  <2>3. ASSUME NEW c \in Call, Verdict(c) PROVE NobodyLeftBehind'
    BY <2>3 DEF Verdict
  <2>4. ASSUME NEW c \in Call, Close(c) PROVE NobodyLeftBehind'
    BY <2>4 DEF Close
  <2>5. ASSUME NEW c \in Call, Return(c) PROVE NobodyLeftBehind'
    BY <2>5 DEF Return
  <2>6. ASSUME NEW c \in Call, Die(c) PROVE NobodyLeftBehind'
    BY <2>6 DEF Die
  <2>7. ASSUME NEW c \in Call, VerdictOfClosed(c) PROVE NobodyLeftBehind'
    BY <2>7 DEF VerdictOfClosed
  <2>8. CASE UNCHANGED vars
    BY <2>8 DEF vars
  <2> QED
    BY <2>1, <2>2, <2>3, <2>4, <2>5, <2>6, <2>7, <2>8 DEF Next, Step
<1> QED
  BY <1>1, <1>2, TypeCorrect, PTL DEF Spec

=============================================================================
