--------------------------- MODULE DispatchProofs ---------------------------
(***************************************************************************)
(* The theorems about the requests of one connection, for any number of    *)
(* requests and any capacity of Send.                                      *)
(***************************************************************************)
EXTENDS Dispatch, FiniteSetTheorems, TLAPS

USE SizesAssumption

\* The steps between Receive and the first reply, but for the panic
Handler ==
    \/ Connect \/ CloseDB \/ QueryFails \/ QuerySucceeds \/ UpdateSucceeds
    \/ Authenticate \/ SubmitLogin

-----------------------------------------------------------------------------
(* Type correctness *)

Msg == [id : DOMAIN asked, code : Code]

LEMMA SeqGrows ==
    ASSUME NEW S, NEW T, S \subseteq T, NEW q \in Seq(S)
    PROVE  q \in Seq(T)
  OBVIOUS

LEMMA TypeInit == Init => TypeOK
  <1> SUFFICES ASSUME Init PROVE TypeOK
    OBVIOUS
  <1>1. Send \in Seq(Msg) /\ out \in Seq(Msg) /\ asked \in Seq(Request)
    BY DEF Init
  <1>2. Len(Send) = 0 /\ Len(asked) = 0
    BY DEF Init
  <1>3. Len(Send) <= SendCap /\ Len(asked) <= MaxRequests
    BY <1>2
  <1>4. \A S \in {handles, committed, failed, silent, unsent, unclosable} : S \subseteq DOMAIN asked
    BY DEF Init
  <1>5. pc = "read" /\ code \in Code /\ closed \in BOOLEAN
    BY DEF Init, Code
  <1> QED BY <1>1, <1>3, <1>4, <1>5 DEF TypeOK, Msg

\* Replies to the requests so far remain replies to the requests so far.
LEMMA ReceiveType == ASSUME TypeOK, NEW r \in Request, Receive(r) PROVE TypeOK'
  <1>1. asked \in Seq(Request) /\ asked' = Append(asked, r) /\ Len(asked) < MaxRequests
    BY DEF TypeOK, Receive
  <1>2. /\ asked' \in Seq(Request) /\ Len(asked') = Len(asked) + 1
        /\ DOMAIN asked \subseteq DOMAIN asked'
    BY <1>1
  <1>3. asked' # <<>> /\ Len(asked') <= MaxRequests
    BY <1>1, <1>2
  <1>4. pc' \in {"connect", "reply"} /\ code' \in Code
    BY DEF Receive, Answer, TypeOK, Code
  <1>5. \A S \in {handles, committed, failed, silent, unsent, unclosable}' : S \subseteq DOMAIN asked'
    BY <1>2 DEF Receive, TypeOK, history
  <1>6. \A q \in Seq(Msg) : q \in Seq([id : DOMAIN asked', code : Code])
    <2>1. Msg \subseteq [id : DOMAIN asked', code : Code]
      BY <1>2 DEF Msg
    <2> QED BY <2>1, SeqGrows
  <1>7. /\ Send' \in Seq([id : DOMAIN asked', code : Code]) /\ Len(Send') <= SendCap
        /\ out' \in Seq([id : DOMAIN asked', code : Code]) /\ closed' \in BOOLEAN
    BY <1>6 DEF Receive, TypeOK, Msg
  <1> QED BY <1>2, <1>3, <1>4, <1>5, <1>7 DEF TypeOK

\* There is a current request, and it is one of those read.
LEMMA CurrentAsked ==
    ASSUME TypeOK, pc \notin {"read", "done"}
    PROVE  current \in DOMAIN asked /\ current \in Nat \ {0} /\ req \in Request
  BY DEF TypeOK, current, req

LEMMA HandlerType == ASSUME TypeOK, Handler \/ AssertionPanics PROVE TypeOK'
  <1>1. pc \notin {"read", "done"}
    BY DEF Handler, AssertionPanics, Connect, CloseDB, QueryFails, QuerySucceeds,
           UpdateSucceeds, Authenticate, SubmitLogin
  <1>2. UNCHANGED <<asked, Send, closed, out>>
    BY DEF Handler, AssertionPanics, Connect, CloseDB, QueryFails, QuerySucceeds,
           UpdateSucceeds, Authenticate, SubmitLogin, history
  <1>3. /\ pc' \in {"read", "close", "query", "update", "login", "reply"}
        /\ code' \in Code
    BY DEF Handler, AssertionPanics, Connect, CloseDB, QueryFails, QuerySucceeds,
           UpdateSucceeds, Authenticate, SubmitLogin, Answer, QueryError, TypeOK, Code
  <1>4. \A S \in {handles, committed, failed, silent, unsent, unclosable}' : S \subseteq DOMAIN asked
    <2>1. /\ handles' \subseteq handles \cup {current}
          /\ committed' \subseteq committed \cup {current}
          /\ failed' \subseteq failed \cup {current}
          /\ unsent' = unsent
          /\ silent' \subseteq silent \cup {current}
          /\ unclosable' \subseteq unclosable \cup {current}
      BY DEF Handler, AssertionPanics, Connect, CloseDB, QueryFails, QuerySucceeds,
             UpdateSucceeds, Authenticate, SubmitLogin, Release, history
    <2> QED BY <1>1, <2>1, CurrentAsked DEF TypeOK
  <1>5. asked # <<>>
    BY <1>1 DEF TypeOK
  <1> QED BY <1>2, <1>3, <1>4, <1>5 DEF TypeOK

LEMMA ReplyType == ASSUME TypeOK, Reply \/ ReplyAgain PROVE TypeOK'
  <1>1. /\ SendMsg /\ UNCHANGED <<asked, code, handles, history, closed, out>>
        /\ pc \in {"reply", "voice"} /\ pc' \in {"voice", "read"}
    BY DEF Reply, ReplyAgain
  <1>2. [id |-> current, code |-> code] \in Msg
    BY <1>1, CurrentAsked DEF Msg, TypeOK
  <1>3. Send' \in Seq(Msg) /\ Len(Send') <= SendCap
    BY <1>1, <1>2 DEF SendMsg, TypeOK, Msg
  <1> QED BY <1>1, <1>3 DEF TypeOK, Msg, history

LEMMA WriteType == ASSUME TypeOK, Write PROVE TypeOK'
  <1>1. Send \in Seq(Msg) /\ Send # <<>> /\ out \in Seq(Msg) /\ Len(Send) <= SendCap
    BY DEF TypeOK, Write, Msg
  <1>2. Head(Send) \in Msg /\ Tail(Send) \in Seq(Msg) /\ Len(Tail(Send)) <= SendCap
    BY <1>1
  <1>3. Send' \in Seq(Msg) /\ Len(Send') <= SendCap /\ out' \in Seq(Msg)
    BY <1>1, <1>2 DEF Write
  <1> QED BY <1>3 DEF TypeOK, Write, Msg, history

LEMMA MarshalType == ASSUME TypeOK, MarshalFails PROVE TypeOK'
  <1>1. current \in DOMAIN asked
    BY CurrentAsked DEF MarshalFails
  <1> QED BY <1>1 DEF MarshalFails, TypeOK

LEMMA TypeStep == TypeOK /\ [Next]_vars => TypeOK'
  <1> SUFFICES ASSUME TypeOK, [Next]_vars PROVE TypeOK'
    OBVIOUS
  <1>1. CASE ReaderFails
    BY <1>1 DEF ReaderFails, TypeOK, history
  <1>2. CASE UNCHANGED vars
    BY <1>2 DEF vars, TypeOK, history
  <1> QED BY <1>1, <1>2, ReceiveType, HandlerType, ReplyType, MarshalType, WriteType DEF Next, Handle, Handler

\* Type correctness: Send never holds more than its capacity.
THEOREM TypeCorrect == Spec => []TypeOK
  BY TypeInit, TypeStep, PTL DEF Spec

-----------------------------------------------------------------------------
(* Database handles *)

LEMMA HandlesStep == ASSUME TypeOK, HandlesInv, [Next]_vars PROVE HandlesInv'
  <1>1. ASSUME NEW r \in Request, Receive(r) PROVE HandlesInv'
    <2>1. current' = current + 1 /\ current' \notin DOMAIN asked
      BY <1>1 DEF Receive, TypeOK, current
    <2> QED BY <1>1, <2>1 DEF Receive, Answer, history, TypeOK, HandlesInv, Unanswered
  <1>2. CASE Connect
    BY <1>2 DEF Connect, Answer, history, HandlesInv, Unanswered, current
  <1>3. CASE CloseDB
    BY <1>3 DEF CloseDB, Answer, HandlesInv, Unanswered, current
  <1>4. CASE AssertionPanics
    BY <1>4 DEF AssertionPanics, Release, HandlesInv, Unanswered, current
  <1>5. CASE QueryFails
    BY <1>5 DEF QueryFails, Answer, Release, history, HandlesInv, Unanswered, current
  <1>6. CASE QuerySucceeds
    BY <1>6 DEF QuerySucceeds, Answer, Release, HandlesInv, Unanswered, current
  <1>7. CASE UpdateSucceeds
    BY <1>7 DEF UpdateSucceeds, Answer, Release, HandlesInv, Unanswered, current
  <1>8. CASE Authenticate
    BY <1>8 DEF Authenticate, Answer, Release, HandlesInv, Unanswered, current
  <1>9. CASE SubmitLogin
    BY <1>9 DEF SubmitLogin, Answer, Release, history, HandlesInv, Unanswered, current
  <1>10. CASE Reply \/ ReplyAgain
    BY <1>10 DEF Reply, ReplyAgain, history, HandlesInv, Unanswered, current
  <1>11. CASE MarshalFails
    BY <1>11 DEF MarshalFails, HandlesInv, Unanswered, current
  <1>12. CASE ReaderFails
    BY <1>12 DEF ReaderFails, history, HandlesInv, Unanswered, current
  <1>13. CASE Write
    BY <1>13 DEF Write, history, HandlesInv, Unanswered, current
  <1>14. CASE UNCHANGED vars
    BY <1>14 DEF vars, history, HandlesInv, Unanswered, current
  <1> QED BY <1>1, <1>2, <1>3, <1>4, <1>5, <1>6, <1>7, <1>8, <1>9, <1>10, <1>11, <1>12, <1>13, <1>14
          DEF Next, Handle

-----------------------------------------------------------------------------
(* The sequence of the replies *)

message == [id |-> current, code |-> code]

LEMMA RepliesType == ASSUME TypeOK PROVE Replies \in Seq(Msg)
  BY DEF TypeOK, Msg, Replies

\* Write moves the first message of Send to the end of out.
LEMMA WriteMoves == ASSUME TypeOK, Write PROVE Replies' = Replies
  <1>1. Send \in Seq(Msg) /\ Send # <<>> /\ out \in Seq(Msg)
    BY DEF TypeOK, Write, Msg
  <1>2. Append(out, Head(Send)) \o Tail(Send) = out \o Send
    BY <1>1
  <1> QED BY <1>2 DEF Write, Replies

LEMMA SendAppends ==
    ASSUME TypeOK, pc \notin {"read", "done"}, SendMsg, UNCHANGED out
    PROVE  Replies' = Append(Replies, message)
  <1>1. Send \in Seq(Msg) /\ out \in Seq(Msg) /\ message \in Msg
    BY CurrentAsked DEF TypeOK, Msg, message
  <1>2. out \o Append(Send, message) = Append(out \o Send, message)
    BY <1>1
  <1> QED BY <1>2 DEF SendMsg, Replies, message

\* What a step does with the replies
LEMMA RepliesSteps ==
    ASSUME TypeOK, [Next]_vars
    PROVE  \/ Replies' = Replies /\ ~(Reply \/ ReplyAgain)
           \/ Replies' = Append(Replies, message) /\ (Reply \/ ReplyAgain)
  <1>1. CASE Reply \/ ReplyAgain
    BY <1>1, SendAppends DEF Reply, ReplyAgain
  <1>2. CASE Write /\ ~(Reply \/ ReplyAgain)
    BY <1>2, WriteMoves
  <1>3. CASE ~Write /\ ~(Reply \/ ReplyAgain)
    <2>1. UNCHANGED <<Send, out>>
      BY <1>3 DEF Next, vars, Handle, Receive, Connect, CloseDB, AssertionPanics, QueryFails,
                  QuerySucceeds, UpdateSucceeds, Authenticate, SubmitLogin, ReaderFails, MarshalFails
    <2> QED BY <1>3, <2>1 DEF Replies
  <1> QED BY <1>1, <1>2, <1>3

-----------------------------------------------------------------------------
(* Effects *)

\* The state of the current request, without the replies
Decided ==
    /\ pc \in {"connect", "close", "query", "update"} => current \notin committed
    /\ pc = "login" => current \in committed
    /\ pc \in {"reply", "voice"} /\ req \in Changing => (code = "OK" <=> current \in committed \ failed)
    /\ pc \in Unanswered \ {"reply"} => current \notin failed
    /\ pc \notin {"read", "done"} => current \notin silent /\ current \notin unsent
    /\ committed \cap silent = {}

LEMMA DecidedStep == ASSUME TypeOK, Decided, [Next]_vars PROVE Decided'
  <1>1. ASSUME NEW r \in Request, Receive(r) PROVE Decided'
    <2>1. current' = current + 1 /\ current' \notin DOMAIN asked /\ req' = r
      BY <1>1 DEF Receive, TypeOK, current, req
    <2>2. current' \notin committed' \cup failed' \cup silent' \cup unsent' /\ committed' \cap silent' = {}
      BY <1>1, <2>1 DEF Receive, TypeOK, history, Decided
    <2>3. pc' \in {"connect", "reply"} /\ (pc' = "reply" /\ r \in Changing => code' # "OK")
      BY <1>1 DEF Receive, Answer, Stubs, Static, Echoing, UsingDB, Changing
    <2> QED BY <2>1, <2>2, <2>3 DEF Decided, Unanswered
  <1>2. ASSUME UNCHANGED asked PROVE current' = current /\ req' = req
    BY <1>2 DEF current, req
  <1> USE DEF Decided, Unanswered
  <1>3. CASE Connect
    BY <1>2, <1>3 DEF Connect, Answer, history
  <1>4. CASE CloseDB
    BY <1>2, <1>4 DEF CloseDB, Answer
  <1>5. CASE AssertionPanics
    BY <1>2, <1>5 DEF AssertionPanics
  <1>6. CASE QueryFails
    BY <1>2, <1>6 DEF QueryFails, Answer, QueryError, Changes
  <1>7. CASE QuerySucceeds
    BY <1>2, <1>7 DEF QuerySucceeds, Answer, Changes, Changing
  <1>8. CASE UpdateSucceeds
    BY <1>2, <1>8 DEF UpdateSucceeds, Answer
  <1>9. CASE Authenticate
    BY <1>2, <1>9 DEF Authenticate, Answer
  <1>10. CASE SubmitLogin
    BY <1>2, <1>10 DEF SubmitLogin, Answer, history
  <1>11. CASE Reply \/ ReplyAgain
    BY <1>2, <1>11 DEF Reply, ReplyAgain, history
  <1>12. CASE MarshalFails
    BY <1>2, <1>12 DEF MarshalFails
  <1>13. CASE ReaderFails \/ Write \/ UNCHANGED vars
    BY <1>2, <1>13 DEF ReaderFails, Write, vars, history
  <1> QED BY <1>1, <1>3, <1>4, <1>5, <1>6, <1>7, <1>8, <1>9, <1>10, <1>11, <1>12, <1>13
          DEF Next, Handle

\* A step adds at most the current request to those that changed something or
\* failed to, and only before it is answered.
LEMMA EffectsSteps ==
    ASSUME [Next]_vars
    PROVE  \/ UNCHANGED <<committed, failed>>
           \/ /\ pc \in Unanswered
              /\ committed \subseteq committed' /\ committed' \subseteq committed \cup {current}
              /\ failed \subseteq failed' /\ failed' \subseteq failed \cup {current}
  BY DEF Next, vars, history, Handle, Receive, Connect, CloseDB, AssertionPanics, QueryFails,
         QuerySucceeds, UpdateSucceeds, Authenticate, SubmitLogin, Reply, ReplyAgain,
         MarshalFails, ReaderFails, Write, Unanswered

\* What was asked stays what it was.
LEMMA AskedKept ==
    ASSUME TypeOK, [Next]_vars, NEW i \in DOMAIN asked
    PROVE  i \in DOMAIN asked' /\ asked'[i] = asked[i]
  <1>1. UNCHANGED asked \/ \E r \in Request : asked' = Append(asked, r)
    BY DEF Next, vars, Handle, Receive, Connect, CloseDB, AssertionPanics, QueryFails,
           QuerySucceeds, UpdateSucceeds, Authenticate, SubmitLogin, Reply, ReplyAgain,
           MarshalFails, ReaderFails, Write
  <1>2. asked \in Seq(Request)
    BY DEF TypeOK
  <1> QED BY <1>1, <1>2

LEMMA ReplyIs ==
    ASSUME TypeOK, NEW j \in DOMAIN Replies
    PROVE  Replies[j].id \in DOMAIN asked /\ Replies[j].id \in Nat
  <1>1. Replies[j] \in Msg
    BY RepliesType
  <1>2. Replies[j].id \in DOMAIN asked
    BY <1>1 DEF Msg
  <1>3. asked \in Seq(Request)
    BY DEF TypeOK
  <1> QED BY <1>2, <1>3

LEMMA EffectsStep ==
    ASSUME TypeOK, EffectsInv, RepliesInv, [Next]_vars
    PROVE  EffectsInv'
  <1>1. Decided'
    BY DecidedStep DEF EffectsInv, EffectsReported, Decided
  <1>2. ASSUME NEW j \in DOMAIN Replies, asked'[Replies[j].id] \in Changing
        PROVE  Replies[j].code = "OK" <=> Replies[j].id \in committed' \ failed'
    <2>1. asked[Replies[j].id] \in Changing
      BY <1>2, ReplyIs, AskedKept
    <2>2. Replies[j].code = "OK" <=> Replies[j].id \in committed \ failed
      BY <2>1 DEF EffectsInv, EffectsReported
    <2>3. pc \in Unanswered => Replies[j].id < current
      BY DEF RepliesInv
    <2>4. pc \in Unanswered => Replies[j].id # current
      BY <2>3, ReplyIs DEF current
    <2> QED BY <2>2, <2>4, EffectsSteps
  <1>3. ASSUME Reply \/ ReplyAgain, asked'[current] \in Changing
        PROVE  code = "OK" <=> current \in committed' \ failed'
    BY <1>3 DEF EffectsInv, Reply, ReplyAgain, history, req
  <1>4. \A j \in DOMAIN Replies' : asked'[Replies'[j].id] \in Changing =>
            (Replies'[j].code = "OK" <=> Replies'[j].id \in committed' \ failed')
    <2>1. CASE Replies' = Replies
      BY <2>1, <1>2
    <2>2. CASE Replies' = Append(Replies, message) /\ (Reply \/ ReplyAgain)
      <3> TAKE j \in DOMAIN Replies'
      <3>1. CASE j \in DOMAIN Replies
        BY <2>2, <3>1, <1>2, RepliesType
      <3>2. CASE j \notin DOMAIN Replies
        <4>1. Replies'[j] = message
          BY <2>2, <3>2, RepliesType
        <4> QED BY <4>1, <2>2, <1>3 DEF message
      <3> QED BY <3>1, <3>2
    <2> QED BY <2>1, <2>2, RepliesSteps
  <1> QED BY <1>1, <1>4 DEF EffectsInv, EffectsReported, Decided

-----------------------------------------------------------------------------
(* The account of the replies *)

\* Where a sequence of messages answers request i
Places(R, i) == {j \in DOMAIN R : R[j].id = i}

LEMMA PlacesFinite ==
    ASSUME NEW S, NEW R \in Seq(S), NEW i
    PROVE  IsFiniteSet(Places(R, i)) /\ Cardinality(Places(R, i)) \in Nat
  <1>1. DOMAIN R = 1 .. Len(R) /\ Len(R) \in Nat
    OBVIOUS
  <1>2. IsFiniteSet(DOMAIN R)
    BY <1>1, FS_Interval
  <1>3. Places(R, i) \subseteq DOMAIN R
    BY DEF Places
  <1>4. IsFiniteSet(Places(R, i))
    BY <1>2, <1>3, FS_Subset
  <1> QED BY <1>4, FS_CardinalityType

LEMMA CountAppend ==
    ASSUME NEW S, NEW R \in Seq(S), NEW m \in S, NEW i
    PROVE  Cardinality(Places(Append(R, m), i)) =
               Cardinality(Places(R, i)) + (IF m.id = i THEN 1 ELSE 0)
  <1>1. /\ Len(R) \in Nat /\ DOMAIN R = 1 .. Len(R)
        /\ DOMAIN Append(R, m) = 1 .. (Len(R) + 1)
    OBVIOUS
  <1>2. Append(R, m)[Len(R) + 1] = m /\ \A j \in DOMAIN R : Append(R, m)[j] = R[j]
    OBVIOUS
  <1>3. CASE m.id = i
    <2>1. Places(Append(R, m), i) = Places(R, i) \cup {Len(R) + 1}
      BY <1>1, <1>2, <1>3 DEF Places
    <2>2. Len(R) + 1 \notin Places(R, i)
      BY <1>1 DEF Places
    <2>3. Cardinality(Places(R, i) \cup {Len(R) + 1}) = Cardinality(Places(R, i)) + 1
      BY <2>2, PlacesFinite, FS_AddElement
    <2> QED BY <1>3, <2>1, <2>3
  <1>4. CASE m.id # i
    <2>1. Places(Append(R, m), i) = Places(R, i)
      BY <1>1, <1>2, <1>4 DEF Places
    <2> QED BY <1>4, <2>1, PlacesFinite
  <1> QED BY <1>3, <1>4

\* A sequence of messages that is as RepliesAccounted wants it
Ordered(R) ==
    \A j, k \in DOMAIN R : j < k =>
        /\ R[j].id <= R[k].id
        /\ R[j].id = R[k].id => R[j] = R[k]

LEMMA OutstandingIs ==
    /\ pc \in {"read", "done"} => Outstanding = 0
    /\ pc = "voice" => Outstanding = 1
    /\ pc \in Unanswered => Outstanding = Copies(req)
  BY DEF Outstanding, Unanswered

LEMMA CountNone ==
    ASSUME TypeOK, NEW i, \A j \in DOMAIN Replies : Replies[j].id # i
    PROVE  CopiesSent(i) = 0
  <1>1. {j \in DOMAIN Replies : Replies[j].id = i} = {}
    OBVIOUS
  <1> QED BY <1>1, FS_EmptySet DEF CopiesSent

LEMMA CountReply ==
    ASSUME TypeOK, pc \notin {"read", "done"}, Replies' = Append(Replies, message), NEW i
    PROVE  /\ CopiesSent(i) \in Nat
           /\ CopiesSent(i)' = CopiesSent(i) + (IF i = current THEN 1 ELSE 0)
  <1>1. message \in Msg /\ message.id = current
    BY CurrentAsked DEF TypeOK, Msg, message
  <1>2. Replies \in Seq(Msg)
    BY RepliesType
  <1>3. Cardinality(Places(Replies, i)) \in Nat
    BY <1>2, PlacesFinite
  <1>4. Cardinality(Places(Append(Replies, message), i)) =
            Cardinality(Places(Replies, i)) + (IF message.id = i THEN 1 ELSE 0)
    BY <1>1, <1>2, CountAppend
  <1>5. CopiesSent(i) = Cardinality(Places(Replies, i))
    BY DEF CopiesSent, Places
  <1>6. CopiesSent(i)' = Cardinality(Places(Append(Replies, message), i))
    BY DEF CopiesSent, Places
  <1> QED BY <1>1, <1>3, <1>4, <1>5, <1>6

\* One more copy of the reply at hand keeps the replies in order.
LEMMA OrderedReply ==
    ASSUME TypeOK, RepliesInv, pc \in {"reply", "voice"}, Replies' = Append(Replies, message)
    PROVE  Ordered(Replies')
  <1>1. message \in Msg /\ message.id = current /\ message.code = code
    BY CurrentAsked DEF TypeOK, Msg, message
  <1>2. ASSUME NEW j \in DOMAIN Replies
        PROVE  /\ Replies[j].id <= current
               /\ Replies[j].id = current => Replies[j] = message
    <2>1. Replies[j] \in Msg /\ Replies[j].id \in Nat
      BY RepliesType, ReplyIs
    <2>2. Replies[j].id <= current
      BY ReplyIs DEF TypeOK, current
    <2>3. Replies[j].id = current => Replies[j].code = code
      BY <2>1 DEF RepliesInv, Unanswered, current
    <2> QED BY <1>1, <2>1, <2>2, <2>3 DEF Msg
  <1>3. Ordered(Replies)
    BY DEF RepliesInv, RepliesAccounted, Ordered
  <1> SUFFICES ASSUME NEW j \in DOMAIN Replies', NEW k \in DOMAIN Replies', j < k
               PROVE  /\ Replies'[j].id <= Replies'[k].id
                      /\ Replies'[j].id = Replies'[k].id => Replies'[j] = Replies'[k]
    BY DEF Ordered
  <1>4. j \in DOMAIN Replies /\ Replies'[j] = Replies[j]
    BY RepliesType
  <1>5. CASE k \in DOMAIN Replies
    <2>1. Replies'[k] = Replies[k]
      BY <1>5, RepliesType
    <2> QED BY <1>3, <1>4, <1>5, <2>1 DEF Ordered
  <1>6. CASE k \notin DOMAIN Replies
    <2>1. Replies'[k] = message
      BY <1>6, RepliesType
    <2> QED BY <1>1, <1>2, <1>4, <2>1
  <1> QED BY <1>5, <1>6

LEMMA AccountIs ==
    RepliesAccounted <=> Ordered(Replies) /\ \A i \in DOMAIN asked : Accounted(i)
  BY DEF RepliesAccounted, Ordered

LEMMA AccountIsNext ==
    RepliesAccounted' <=> Ordered(Replies') /\ \A i \in DOMAIN asked' : Accounted(i)'
  BY DEF RepliesAccounted, Ordered

\* A step that leaves a request and its replies alone leaves its account alone.
LEMMA AccountKept ==
    ASSUME NEW i, Accounted(i), CopiesSent(i)' = CopiesSent(i), Due(i)' = Due(i),
           i \in unsent' <=> i \in unsent
    PROVE  Accounted(i)'
  BY DEF Accounted

\* As long as the current request is not answered, nothing is due of it.
LEMMA HandlerReplies ==
    ASSUME TypeOK, RepliesInv, pc \in Unanswered, pc' \in Unanswered,
           UNCHANGED <<asked, silent, unsent, Replies>>
    PROVE  RepliesInv'
  <1>1. current' = current /\ req' = req
    BY DEF current, req
  <1>2. Outstanding = Copies(req) /\ Outstanding' = Copies(req')
    BY OutstandingIs DEF Outstanding, Unanswered
  <1>3. \A i \in DOMAIN asked : CopiesSent(i)' = CopiesSent(i) /\ Due(i)' = Due(i)
    BY <1>1, <1>2 DEF CopiesSent, Due
  <1>4. RepliesAccounted'
    BY <1>3, AccountIs, AccountIsNext, AccountKept DEF RepliesInv, Ordered
  <1> QED BY <1>1, <1>4 DEF RepliesInv, Unanswered

LEMMA ReceiveReplies ==
    ASSUME TypeOK, RepliesInv, NEW r \in Request, Receive(r), Replies' = Replies
    PROVE  RepliesInv'
  <1>1. /\ asked \in Seq(Request) /\ asked' = Append(asked, r) /\ silent' = silent
        /\ unsent' = unsent /\ pc = "read" /\ pc' \in {"connect", "reply"}
    BY DEF Receive, Answer, history, TypeOK
  <1>2. /\ current \in Nat /\ current' = current + 1 /\ current' \notin DOMAIN asked
        /\ DOMAIN asked' = DOMAIN asked \cup {current'}
    BY <1>1 DEF current
  <1>3. \A j \in DOMAIN Replies : Replies[j].id \in DOMAIN asked /\ Replies[j].id < current'
    BY <1>1, <1>2, ReplyIs DEF current
  <1>4. Outstanding = 0 /\ Outstanding' = Copies(req')
    BY <1>1, OutstandingIs DEF Outstanding
  <1>5. ASSUME NEW i \in DOMAIN asked PROVE Accounted(i)'
    <2>1. asked'[i] = asked[i] /\ i # current' /\ CopiesSent(i)' = CopiesSent(i)
      BY <1>1, <1>2 DEF CopiesSent
    <2>2. Copies(asked[i]) \in Nat
      BY DEF Copies
    <2>3. Due(i)' = Due(i)
      BY <1>1, <1>4, <2>1, <2>2 DEF Due
    <2> QED BY <1>1, <2>1, <2>3, AccountIs, AccountKept DEF RepliesInv
  <1>6. ASSUME NEW i \in DOMAIN asked', i = current' PROVE Accounted(i)'
    <2>1. CopiesSent(i)' = 0
      <3>1. CopiesSent(i) = 0
        BY <1>2, <1>3, <1>6, CountNone
      <3> QED BY <3>1 DEF CopiesSent
    <2>2. i \notin silent' \cup unsent' /\ asked'[i] = req' /\ Copies(req') \in Nat
      BY <1>1, <1>2, <1>6 DEF TypeOK, req, Copies
    <2> QED BY <1>4, <1>6, <2>1, <2>2 DEF Accounted, Due
  <1>7. RepliesAccounted'
    BY <1>2, <1>5, <1>6, AccountIs, AccountIsNext DEF RepliesInv, Ordered
  <1> QED BY <1>1, <1>3, <1>7 DEF RepliesInv

\* A panic leaves nothing of the reply, and nothing is due of it then.
LEMMA PanicReplies ==
    ASSUME TypeOK, RepliesInv, current \notin unsent, AssertionPanics, Replies' = Replies
    PROVE  RepliesInv'
  <1>1. /\ pc \in Unanswered /\ pc' = "read" /\ UNCHANGED asked
        /\ silent' = silent \cup {current} /\ unsent' = unsent /\ current' = current
    BY DEF AssertionPanics, Unanswered, current
  <1>2. ASSUME NEW i \in DOMAIN asked, i # current PROVE Accounted(i)'
    <2>1. CopiesSent(i)' = CopiesSent(i) /\ Due(i)' = Due(i)
      BY <1>1, <1>2 DEF CopiesSent, Due
    <2> QED BY <1>1, <2>1, AccountIs, AccountKept DEF RepliesInv
  <1>3. Accounted(current)'
    <2>1. \A j \in DOMAIN Replies : Replies[j].id # current
      BY <1>1, ReplyIs DEF RepliesInv, current
    <2>2. CopiesSent(current)' = 0
      BY <1>1, <2>1, CountNone DEF CopiesSent
    <2> QED BY <1>1, <2>2 DEF Accounted, Due
  <1>4. RepliesAccounted'
    BY <1>1, <1>2, <1>3, AccountIs, AccountIsNext DEF RepliesInv, Ordered
  <1> QED BY <1>1, <1>4 DEF RepliesInv, Unanswered

LEMMA ReplyReplies ==
    ASSUME TypeOK, RepliesInv, current \notin silent, current \notin unsent, Reply \/ ReplyAgain,
           Replies' = Append(Replies, message)
    PROVE  RepliesInv'
  <1>1. /\ pc \in {"reply", "voice"} /\ UNCHANGED <<asked, code, silent, unsent>>
        /\ current' = current /\ req' = req
        /\ pc' = IF pc = "reply" /\ req \in Voiced THEN "voice" ELSE "read"
    BY DEF Reply, ReplyAgain, history, current, req
  <1>2. Ordered(Replies')
    BY <1>1, OrderedReply
  <1>3. Outstanding' = Outstanding - 1 /\ Outstanding \in Nat
    BY <1>1, OutstandingIs DEF Outstanding, Unanswered, Copies
  <1>4. ASSUME NEW i \in DOMAIN asked PROVE Accounted(i)'
    <2>1. CopiesSent(i) \in Nat /\ CopiesSent(i)' = CopiesSent(i) + (IF i = current THEN 1 ELSE 0)
      BY <1>1, CountReply
    <2>2. Accounted(i)
      BY AccountIs DEF RepliesInv
    <2>3. Copies(asked[i]) \in Nat
      BY DEF Copies
    <2>4. Due(i) \in Int /\ Due(i)' = Due(i) + (IF i = current THEN 1 ELSE 0)
      BY <1>1, <1>3, <2>3 DEF Due
    <2> QED BY <1>1, <2>1, <2>2, <2>4 DEF Accounted
  <1>5. pc' = "voice" =>
            \A j \in DOMAIN Replies' : Replies'[j].id = current => Replies'[j].code = code
    BY <1>1, RepliesType, ReplyIs DEF RepliesInv, Unanswered, message, current
  <1>6. RepliesAccounted'
    BY <1>1, <1>2, <1>4, AccountIsNext
  <1> QED BY <1>1, <1>5, <1>6 DEF RepliesInv, Unanswered

\* When the answer cannot be encoded, at least one copy of it was still due.
LEMMA MarshalReplies ==
    ASSUME TypeOK, RepliesInv, current \notin silent, current \notin unsent, MarshalFails,
           Replies' = Replies
    PROVE  RepliesInv'
  <1>1. /\ pc \in {"reply", "voice"} /\ pc' = "read" /\ UNCHANGED <<asked, silent>>
        /\ unsent' = unsent \cup {current} /\ current' = current /\ req' = req
    BY DEF MarshalFails, current, req
  <1>2. ASSUME NEW i \in DOMAIN asked, i # current PROVE Accounted(i)'
    <2>1. CopiesSent(i)' = CopiesSent(i) /\ Due(i)' = Due(i)
      BY <1>1, <1>2 DEF CopiesSent, Due
    <2> QED BY <1>1, <1>2, <2>1, AccountIs, AccountKept DEF RepliesInv
  <1>3. Accounted(current)'
    <2>1. Outstanding \in {1, 2} /\ Outstanding' = 0
      BY <1>1, OutstandingIs DEF Outstanding, Unanswered, Copies
    <2>2. CopiesSent(current) = Copies(asked[current]) - Outstanding
      BY <1>1, CurrentAsked, AccountIs DEF RepliesInv, Accounted, Due
    <2>3. CopiesSent(current)' = CopiesSent(current) /\ Due(current)' = Copies(asked[current])
      BY <1>1, <2>1 DEF CopiesSent, Due, Copies
    <2>4. Copies(asked[current]) \in Nat
      BY DEF Copies
    <2> QED BY <1>1, <2>1, <2>2, <2>3, <2>4 DEF Accounted
  <1>4. RepliesAccounted'
    BY <1>1, <1>2, <1>3, AccountIs, AccountIsNext DEF RepliesInv, Ordered
  <1> QED BY <1>1, <1>4 DEF RepliesInv, Unanswered

LEMMA RepliesStep ==
    ASSUME TypeOK, RepliesInv, Decided, [Next]_vars
    PROVE  RepliesInv'
  <1>1. CASE Reply \/ ReplyAgain
    <2>1. current \notin silent /\ current \notin unsent
      BY <1>1 DEF Decided, Reply, ReplyAgain
    <2> QED BY <1>1, <2>1, RepliesSteps, ReplyReplies
  <1>2. CASE ~(Reply \/ ReplyAgain)
    <2>1. Replies' = Replies
      BY <1>2, RepliesSteps
    <2>2. ASSUME NEW r \in Request, Receive(r) PROVE RepliesInv'
      BY <2>1, <2>2, ReceiveReplies
    <2>3. CASE Handler
      <3>1. pc \in Unanswered /\ pc' \in Unanswered /\ UNCHANGED <<asked, silent, unsent>>
        BY <2>3 DEF Handler, Connect, CloseDB, QueryFails, QuerySucceeds, UpdateSucceeds,
                    Authenticate, SubmitLogin, Answer, history, Unanswered
      <3> QED BY <2>1, <3>1, HandlerReplies
    <2>4. CASE AssertionPanics
      BY <2>1, <2>4, PanicReplies DEF Decided, AssertionPanics
    <2>5. CASE MarshalFails
      BY <2>1, <2>5, MarshalReplies DEF Decided, MarshalFails
    <2>6. CASE ReaderFails \/ Write \/ UNCHANGED vars
      <3>1. /\ UNCHANGED <<asked, silent, unsent, code>> /\ current' = current /\ req' = req
            /\ pc' = pc \/ (pc = "read" /\ pc' = "done")
        BY <2>6 DEF ReaderFails, Write, vars, history, current, req
      <3>2. Outstanding' = Outstanding
        BY <3>1 DEF Outstanding
      <3>3. \A i \in DOMAIN asked : CopiesSent(i)' = CopiesSent(i) /\ Due(i)' = Due(i)
        BY <2>1, <3>1, <3>2 DEF CopiesSent, Due
      <3>4. RepliesAccounted'
        BY <2>1, <3>1, <3>3, AccountIs, AccountIsNext, AccountKept DEF RepliesInv, Ordered
      <3> QED BY <2>1, <3>1, <3>4 DEF RepliesInv, Unanswered
    <2> QED BY <1>2, <2>2, <2>3, <2>4, <2>5, <2>6 DEF Next, Handle, Handler
  <1> QED BY <1>1, <1>2

-----------------------------------------------------------------------------
(* The theorems *)

LEMMA DispatchInit == Init => DispatchInv
  <1> SUFFICES ASSUME Init PROVE DispatchInv
    OBVIOUS
  <1>1. Replies = <<>> /\ DOMAIN Replies = {} /\ DOMAIN asked = {}
    BY DEF Init, Replies
  <1> QED BY <1>1 DEF Init, DispatchInv, HandlesInv, EffectsInv, EffectsReported, RepliesInv,
                  RepliesAccounted, Unanswered

LEMMA DispatchStep == TypeOK /\ DispatchInv /\ [Next]_vars => DispatchInv'
  <1> SUFFICES ASSUME TypeOK, DispatchInv, [Next]_vars PROVE DispatchInv'
    OBVIOUS
  <1>1. Decided
    BY DEF DispatchInv, EffectsInv, EffectsReported, Decided
  <1> QED BY <1>1, HandlesStep, EffectsStep, RepliesStep DEF DispatchInv

LEMMA DispatchCorrect == Spec => [](TypeOK /\ DispatchInv)
  BY TypeInit, TypeStep, DispatchInit, DispatchStep, PTL DEF Spec

\* Every request is answered as often as its controller wants, in the order of
\* the requests and with one code, unless its controller panicked (no answer) or
\* the answer could not be encoded (at least its last copy is missing).
THEOREM RepliesAreAccounted == Spec => []RepliesAccounted
  BY DispatchCorrect, PTL DEF DispatchInv, RepliesInv

\* An answer to a request for a change says OK exactly when the change was made and
\* its call returned without an error.
THEOREM EffectsAreReported == Spec => []EffectsReported
  BY DispatchCorrect, PTL DEF DispatchInv, EffectsInv

\* Between two requests only those handles are open that database.Close refused.
THEOREM HandlesAreReleased == Spec => []HandlesReleased
  <1>1. DispatchInv => HandlesReleased
    BY DEF DispatchInv, HandlesInv, HandlesReleased
  <1> QED BY <1>1, DispatchCorrect, PTL

-----------------------------------------------------------------------------
(* The conversation.  Receive is Handle when the answer is there at once, and *)
(* so is the last step of a controller; AuthController is LogIn and TellHub,  *)
(* and nothing else is seen but the replies and the end.                      *)

LEMMA StagesInit == Init => StagesInv
  BY DEF Init, StagesInv

LEMMA StagesStep == ASSUME TypeOK, StagesInv, [Next]_vars PROVE StagesInv'
  <1>1. ASSUME NEW r \in Request, Receive(r) PROVE StagesInv'
    BY <1>1 DEF Receive, Answer, StagesInv
  <1>2. ASSUME UNCHANGED asked PROVE req' = req
    BY <1>2 DEF req, current
  <1>3. CASE Handler \/ AssertionPanics
    <2>1. UNCHANGED <<asked, closed>> /\ pc # "done" /\ pc' # "done"
          /\ (pc' = "login" => req = "auth") /\ (pc' = "update" => req = "edit_profile")
      BY <1>3 DEF Handler, AssertionPanics, Connect, CloseDB, QueryFails, QuerySucceeds,
                  UpdateSucceeds, Authenticate, SubmitLogin, Answer, history
    <2> QED BY <1>2, <2>1 DEF StagesInv
  <1>4. CASE Reply \/ ReplyAgain \/ MarshalFails \/ ReaderFails
    BY <1>4 DEF Reply, ReplyAgain, MarshalFails, ReaderFails, StagesInv
  <1>5. CASE Write \/ UNCHANGED vars
    BY <1>2, <1>5 DEF Write, vars, StagesInv
  <1> QED BY <1>1, <1>3, <1>4, <1>5 DEF Next, Handle, Handler

\* What the current request makes of IsLogin.
LEMMA LoginKept ==
    ASSUME TypeOK, [Next]_vars,
           \/ committed' \subseteq committed
           \/ committed' \subseteq committed \cup {current} /\ pc \notin {"read", "done"} /\ req # "auth",
           committed \subseteq committed'
    PROVE  IsLogin' <=> IsLogin
  <1>1. \A i \in committed : i \in DOMAIN asked
    BY DEF TypeOK
  <1>2. \A i \in committed : asked'[i] = asked[i]
    BY <1>1, AskedKept
  <1>3. ASSUME NEW i \in committed', i \notin committed PROVE asked'[i] # "auth"
    <2>1. i = current /\ pc \notin {"read", "done"} /\ req # "auth"
      BY <1>3
    <2> QED BY <2>1, CurrentAsked, AskedKept DEF req
  <1> QED BY <1>2, <1>3 DEF IsLogin

LEMMA ConversationInit == Init => Talk!Init
  BY DEF Init, Talk!Init, stage, owed, IsLogin

LEMMA ConversationStep ==
    ASSUME TypeOK, StagesInv, [Next]_vars
    PROVE  [Talk!Next]_Talk!vars
  <1> DEFINE Unseen == UNCHANGED <<stage, owed, IsLogin, Len(Send), closed>>
  <1> SUFFICES Talk!Next \/ Unseen
    BY DEF Talk!vars
  <1>1. ASSUME NEW r \in Request, Receive(r) PROVE Talk!Next \/ Unseen
    <2>1. pc = "read" /\ UNCHANGED <<committed, Send, closed>> /\ pc' \in {"connect", "reply"}
      BY <1>1 DEF Receive, Answer, history
    <2>2. IsLogin' = IsLogin
      BY <2>1, LoginKept DEF IsLogin
    <2>3. CASE pc' = "reply"
      BY <2>1, <2>2, <2>3 DEF Talk!Next, Talk!Handle, stage, owed, Copies
    <2>4. CASE pc' = "connect"
      BY <2>1, <2>2, <2>4 DEF stage, owed
    <2> QED BY <2>1, <2>3, <2>4
  <1>2. CASE Authenticate /\ ~IsLogin
    <2>1. pc = "query" /\ pc' = "login" /\ committed' = committed \cup {current}
          /\ UNCHANGED <<asked, Send, closed>> /\ req = "auth"
      BY <1>2 DEF Authenticate
    <2>2. IsLogin'
      BY <2>1 DEF IsLogin, req, current
    <2> QED BY <1>2, <2>1, <2>2 DEF Talk!Next, Talk!LogIn, stage, owed
  <1>3. CASE SubmitLogin
    <2>1. pc = "login" /\ pc' = "reply" /\ UNCHANGED <<asked, committed, Send, closed>>
          /\ Copies(req)' = 1
      BY <1>3 DEF SubmitLogin, Answer, history, StagesInv, Copies, Voiced, req, current
    <2>2. IsLogin' = IsLogin
      BY <2>1 DEF IsLogin
    <2> QED BY <2>1, <2>2 DEF Talk!Next, Talk!TellHub, stage, owed
  <1>4. CASE \/ Connect \/ CloseDB \/ QueryFails \/ QuerySucceeds \/ UpdateSucceeds
             \/ AssertionPanics \/ (Authenticate /\ IsLogin)
    <2>1. pc \in {"connect", "close", "query", "update"} /\ UNCHANGED <<asked, Send, closed>>
          /\ pc' \in {"close", "query", "update", "reply", "read"}
      BY <1>4 DEF Connect, CloseDB, QueryFails, QuerySucceeds, UpdateSucceeds,
                  AssertionPanics, Authenticate, Answer, history
    <2>2. \/ committed' = committed
          \/ committed' = committed \cup {current} /\ req # "auth"
      BY <1>4 DEF Connect, CloseDB, QueryFails, QuerySucceeds, UpdateSucceeds,
                  AssertionPanics, Authenticate, history, StagesInv, Changes
    <2>3. IsLogin' = IsLogin
      BY <2>1, <2>2, LoginKept DEF IsLogin
    <2>4. CASE pc' = "reply"
      BY <2>1, <2>3, <2>4 DEF Talk!Next, Talk!Handle, stage, owed, Copies
    <2>5. CASE pc' # "reply"
      BY <2>1, <2>3, <2>5 DEF stage, owed
    <2> QED BY <2>4, <2>5
  <1>5. CASE Reply \/ ReplyAgain
    <2>1. pc \in {"reply", "voice"} /\ UNCHANGED <<asked, committed, closed>> /\ ~closed
          /\ pc' = (IF pc = "reply" /\ req \in Voiced THEN "voice" ELSE "read")
      BY <1>5 DEF Reply, ReplyAgain, history, StagesInv
    <2>2. Len(Send) < SendCap /\ Len(Send)' = Len(Send) + 1
      BY <1>5 DEF Reply, ReplyAgain, SendMsg, TypeOK
    <2>3. IsLogin' = IsLogin
      BY <2>1 DEF IsLogin
    <2> QED BY <2>1, <2>2, <2>3 DEF Talk!Next, Talk!Reply, Talk!Put, stage, owed, Copies
  <1>6. CASE ReaderFails
    <2>1. IsLogin' = IsLogin
      BY <1>6 DEF ReaderFails, history, IsLogin
    <2> QED BY <1>6, <2>1 DEF ReaderFails, Talk!Next, Talk!End, stage, owed
  <1>7. CASE Write
    <2>1. Len(Send) > 0 /\ Len(Send)' = Len(Send) - 1
      BY <1>7 DEF Write, TypeOK
    <2>2. UNCHANGED <<stage, owed, IsLogin, closed>>
      BY <1>7 DEF Write, history, stage, owed, IsLogin, req, current
    <2> QED BY <2>1, <2>2 DEF Talk!Next, Talk!Take
  <1>8. CASE MarshalFails
    <2>1. IsLogin' = IsLogin
      BY <1>8 DEF MarshalFails, IsLogin
    <2>2. stage = "reply" /\ stage' = "read" /\ owed' = 0
      BY <1>8 DEF MarshalFails, stage, owed
    <2> QED BY <1>8, <2>1, <2>2 DEF MarshalFails, Talk!Next, Talk!GiveUp
  <1>9. CASE UNCHANGED vars
    BY <1>9 DEF vars, history, stage, owed, IsLogin, req, current
  <1> HIDE DEF Unseen
  <1> QED BY <1>1, <1>2, <1>3, <1>4, <1>5, <1>6, <1>7, <1>8, <1>9 DEF Next, Handle

\* The controllers keep the conversation: one request at a time, answered before
\* the next one is read, one login, which the hub is told of before the peer is.
THEOREM ImplementsConversation == Spec => Conversation
  <1>1. Init => TypeOK /\ StagesInv /\ Talk!Init
    BY TypeInit, StagesInit, ConversationInit
  <1>2. TypeOK /\ StagesInv /\ [Next]_vars => (TypeOK /\ StagesInv)'
    BY TypeStep, StagesStep
  <1>3. TypeOK /\ StagesInv /\ [Next]_vars => [Talk!Next]_Talk!vars
    BY ConversationStep
  <1> QED BY <1>1, <1>2, <1>3, PTL DEF Spec, Conversation, Talk!Spec

=============================================================================
