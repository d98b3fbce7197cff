---------------------------- MODULE RelayProofs ----------------------------
(***************************************************************************)
(* Proofs about Relay, for every set of requests, every capacity of the    *)
(* inbox and every number of frames.                                       *)
(***************************************************************************)
EXTENDS Relay, TLAPS

USE InboxAssumption

LEMMA RelayInit == Init => TypeOK /\ RelayInv
  <1> SUFFICES ASSUME Init PROVE TypeOK /\ RelayInv
    OBVIOUS
  <1>1. TypeOK
    <2>1. /\ handler \in [Browser -> {"idle", "upgrade", "fetch", "receive", "send", "save", "done"}]
          /\ browser \in [Browser -> {"none", "open", "gone", "closed"}]
          /\ reader \in [Browser -> {"off", "read", "put", "done"}]
          /\ upstream \in [Browser -> {"none", "open", "closed"}]
      BY DEF Init
    <2>2. got \in [Browser -> 0 .. MaxFrames] /\ hand \in [Browser -> 0 .. MaxFrames]
      BY DEF Init
    <2>3. /\ <<>> \in Seq(Frame) /\ Len(<<>>) <= InboxCap
          /\ inbox = [b \in Browser |-> <<>>] /\ relayed = [b \in Browser |-> <<>>]
      BY DEF Init
    <2>4. /\ inbox \in [Browser -> Seq(Frame)] /\ relayed \in [Browser -> Seq(Frame)]
          /\ \A b \in Browser : Len(inbox[b]) <= InboxCap
      BY <2>3
    <2>5. exited \in BOOLEAN
      BY DEF Init
    <2> QED
      BY <2>1, <2>2, <2>4, <2>5 DEF TypeOK
  <1>2. RelayInv
    BY DEF Init, RelayInv, RelayFirstOnly, FirstOnly, NothingSentYet
  <1> QED BY <1>1, <1>2

\* A sequence that counts on from h still does with the next number appended, ...
LEMMA AppendNext ==
    ASSUME NEW s \in Seq(Frame), NEW h \in Int, \A i \in DOMAIN s : s[i] = h + i,
           NEW n \in Frame, n = h + Len(s) + 1
    PROVE  /\ Len(Append(s, n)) = Len(s) + 1
           /\ \A i \in DOMAIN Append(s, n) : Append(s, n)[i] = h + i
  <1>1. Len(Append(s, n)) = Len(s) + 1 /\ DOMAIN Append(s, n) = 1 .. Len(s) + 1
    OBVIOUS
  <1>2. ASSUME NEW i \in 1 .. Len(s) + 1 PROVE Append(s, n)[i] = h + i
    <2>1. CASE i = Len(s) + 1
      BY <2>1
    <2>2. CASE i \in 1 .. Len(s)
      BY <2>2
    <2> QED
      BY <2>1, <2>2
  <1> QED
    BY <1>1, <1>2

\* ... and, without its first number, counts on from h + 1.
LEMMA TailNext ==
    ASSUME NEW s \in Seq(Frame), NEW h \in Int, \A i \in DOMAIN s : s[i] = h + i, s # <<>>
    PROVE  /\ Len(Tail(s)) = Len(s) - 1
           /\ \A i \in DOMAIN Tail(s) : Tail(s)[i] = (h + 1) + i
  <1>1. Len(Tail(s)) = Len(s) - 1 /\ DOMAIN Tail(s) = 1 .. Len(s) - 1
    OBVIOUS
  <1>2. ASSUME NEW i \in 1 .. Len(s) - 1 PROVE Tail(s)[i] = (h + 1) + i
    <2>1. Tail(s)[i] = s[i + 1] /\ i + 1 \in DOMAIN s
      OBVIOUS
    <2> QED
      BY <2>1
  <1> QED
    BY <1>1, <1>2

\* What the reader puts into the inbox is a frame, and it is the next one.
LEMMA PutNext ==
    ASSUME TypeOK, RelayInv, NEW b \in Browser, reader[b] = "put"
    PROVE  got[b] \in Frame /\ got[b] = hand[b] + Len(inbox[b]) + 1
  BY DEF TypeOK, RelayInv, RelayFirstOnly, FirstOnly, Frame

\* What the handler takes from the inbox is a frame, and it is the next one.
LEMMA ReceiveNext ==
    ASSUME TypeOK, RelayInv, NEW b \in Browser, inbox[b] # <<>>
    PROVE  Head(inbox[b]) \in Frame /\ Head(inbox[b]) = hand[b] + 1
  <1>1. inbox[b] \in Seq(Frame) /\ hand[b] \in Int
    BY DEF TypeOK, Frame
  <1>2. 1 \in DOMAIN inbox[b] /\ Head(inbox[b]) = inbox[b][1]
    BY <1>1
  <1> QED
    BY <1>1, <1>2 DEF RelayInv, RelayFirstOnly, FirstOnly

LEMMA TypeStep ==
    ASSUME TypeOK, RelayInv, [Next]_vars
    PROVE  TypeOK'
  <1> USE DEF TypeOK, front, back
  <1>1. ASSUME NEW b \in Browser, Dial(b) PROVE TypeOK'
    BY <1>1 DEF Dial
  <1>2. ASSUME NEW b \in Browser, DialFails(b) PROVE TypeOK'
    BY <1>2 DEF DialFails
  <1>3. ASSUME NEW b \in Browser, Upgrade(b) PROVE TypeOK'
    BY <1>3 DEF Upgrade
  <1>4. ASSUME NEW b \in Browser, UpgradeFails(b) PROVE TypeOK'
    BY <1>4 DEF UpgradeFails
  <1>5. ASSUME NEW b \in Browser, Ticker(b) PROVE TypeOK'
    BY <1>5 DEF Ticker
  <1>6. ASSUME NEW b \in Browser, Receive(b) PROVE TypeOK'
    <2>1. Head(inbox[b]) \in 0 .. MaxFrames
      <3> HIDE DEF TypeOK
      <3>1. inbox[b] # <<>>
        BY <1>6 DEF Receive
      <3>2. Head(inbox[b]) \in Frame
        BY <3>1, ReceiveNext
      <3> QED
        BY <3>2 DEF Frame
    <2>2. hand' \in [Browser -> 0 .. MaxFrames]
      BY <1>6, <2>1 DEF Receive
    <2>3. Tail(inbox[b]) \in Seq(Frame) /\ Len(Tail(inbox[b])) <= InboxCap
      BY <1>6 DEF Receive
    <2>4. inbox' \in [Browser -> Seq(Frame)] /\ \A c \in Browser : Len(inbox'[c]) <= InboxCap
      BY <1>6, <2>3 DEF Receive
    <2> QED
      BY <1>6, <2>2, <2>4 DEF Receive
  <1>7. ASSUME NEW b \in Browser, Sent(b) PROVE TypeOK'
    <2>1. relayed' \in [Browser -> Seq(Frame)]
      <3>1. CASE browser[b] = "open"
        <4>1. hand[b] \in Frame
          BY <1>7 DEF Sent, RelayInv, NothingSentYet, Frame
        <4> QED
          BY <1>7, <3>1, <4>1 DEF Sent
      <3>2. CASE browser[b] # "open"
        BY <1>7, <3>2 DEF Sent
      <3> QED
        BY <3>1, <3>2
    <2> QED
      BY <1>7, <2>1 DEF Sent
  <1>8. ASSUME NEW b \in Browser, SaveTiker(b) PROVE TypeOK'
    BY <1>8 DEF SaveTiker
  <1>9. ASSUME NEW b \in Browser, ReadMessage(b) PROVE TypeOK'
    BY <1>9 DEF ReadMessage
  <1>10. ASSUME NEW b \in Browser, Put(b) PROVE TypeOK'
    <2>1. got[b] \in Frame
      <3> HIDE DEF TypeOK
      <3>1. reader[b] = "put"
        BY <1>10 DEF Put
      <3> QED
        BY <3>1, PutNext
    <2>2. Append(inbox[b], got[b]) \in Seq(Frame) /\ Len(Append(inbox[b], got[b])) <= InboxCap
      BY <1>10, <2>1 DEF Put
    <2>3. inbox' \in [Browser -> Seq(Frame)] /\ \A c \in Browser : Len(inbox'[c]) <= InboxCap
      BY <1>10, <2>2 DEF Put
    <2> QED
      BY <1>10, <2>3 DEF Put
  <1>11. ASSUME NEW b \in Browser, ReaderFails(b) PROVE TypeOK'
    BY <1>11 DEF ReaderFails
  <1>12. ASSUME NEW b \in Browser, BrowserLeaves(b) PROVE TypeOK'
    BY <1>12 DEF BrowserLeaves
  <1>13. CASE UNCHANGED vars
    BY <1>13 DEF vars
  <1> QED
    BY <1>1, <1>2, <1>3, <1>4, <1>5, <1>6, <1>7, <1>8, <1>9, <1>10, <1>11, <1>12, <1>13
       DEF Next, Serve

\* A relay that a step leaves alone stays as it was.
LEMMA OthersFirstOnly ==
    ASSUME RelayInv, NEW c \in Browser,
           inbox'[c] = inbox[c], hand'[c] = hand[c], relayed'[c] = relayed[c],
           reader'[c] = reader[c], got'[c] = got[c]
    PROVE  FirstOnly(c)'
  BY DEF RelayInv, RelayFirstOnly, FirstOnly

LEMMA RelayStep ==
    ASSUME TypeOK, RelayInv, [Next]_vars
    PROVE  RelayInv'
  <1> USE DEF RelayInv, RelayFirstOnly, FirstOnly, NothingSentYet, TypeOK, front, back
  <1>1. ASSUME NEW b \in Browser, Dial(b) PROVE RelayInv'
    BY <1>1 DEF Dial
  <1>2. ASSUME NEW b \in Browser, DialFails(b) PROVE RelayInv'
    BY <1>2 DEF DialFails
  <1>3. ASSUME NEW b \in Browser, Upgrade(b) PROVE RelayInv'
    BY <1>3 DEF Upgrade
  <1>4. ASSUME NEW b \in Browser, UpgradeFails(b) PROVE RelayInv'
    BY <1>4 DEF UpgradeFails
  <1>5. ASSUME NEW b \in Browser, Ticker(b) PROVE RelayInv'
    BY <1>5 DEF Ticker
  <1>6. ASSUME NEW b \in Browser, Receive(b) PROVE RelayInv'
    <2>0. /\ hand[b] = 0 /\ inbox[b] \in Seq(Frame) /\ relayed[b] = <<>>
          /\ \A i \in DOMAIN inbox[b] : inbox[b][i] = hand[b] + i
          /\ hand[b] + Len(inbox[b]) = IF reader[b] = "put" THEN got[b] - 1 ELSE got[b]
      BY <1>6 DEF Receive
    <2>1. hand' = [hand EXCEPT ![b] = Head(inbox[b])] /\ hand'[b] = Head(inbox[b])
      BY <1>6 DEF Receive
    <2>2. inbox' = [inbox EXCEPT ![b] = Tail(inbox[b])] /\ inbox'[b] = Tail(inbox[b])
      BY <1>6 DEF Receive
    <2>3. handler'[b] = "send" /\ \A c \in Browser \ {b} : handler'[c] = handler[c]
      BY <1>6 DEF Receive
    <2>4. \A c \in Browser \ {b} : hand'[c] = hand[c] /\ inbox'[c] = inbox[c]
      BY <2>1, <2>2
    <2>5. relayed' = relayed /\ reader' = reader /\ got' = got
      BY <1>6 DEF Receive
    <2> HIDE DEF TypeOK, RelayInv, RelayFirstOnly, FirstOnly, NothingSentYet
    <2>6. inbox[b] # <<>>
      BY <1>6 DEF Receive
    <2>7. Head(inbox[b]) = hand[b] + 1
      BY <2>6, ReceiveNext
    <2>8. FirstOnly(b)'
      <3>0. inbox[b] \in Seq(Frame)
        BY <2>0
      <3>1. /\ Len(inbox'[b]) = Len(inbox[b]) - 1
            /\ \A i \in DOMAIN inbox'[b] : inbox'[b][i] = hand'[b] + i
        <4>1. /\ Len(Tail(inbox[b])) = Len(inbox[b]) - 1
              /\ \A i \in DOMAIN Tail(inbox[b]) : Tail(inbox[b])[i] = (hand[b] + 1) + i
          BY <2>0, <2>6, TailNext
        <4> QED
          BY <4>1, <2>1, <2>2, <2>7
      <3>2. Len(inbox[b]) \in Nat /\ hand'[b] = 1
        BY <3>0, <2>0, <2>1, <2>7
      <3>3. hand'[b] + Len(inbox'[b]) = hand[b] + Len(inbox[b])
        BY <2>0, <3>1, <3>2
      <3>4. relayed'[b] = <<>>
        BY <2>0, <2>5
      <3> QED
        BY <2>0, <2>5, <3>1, <3>2, <3>3, <3>4 DEF FirstOnly
    <2>9. ASSUME NEW c \in Browser \ {b} PROVE FirstOnly(c)'
      BY <2>4, <2>5, OthersFirstOnly
    <2>10. NothingSentYet'
      <3>1. hand'[b] = 1
        BY <2>0, <2>1, <2>7
      <3>2. ASSUME NEW c \in Browser \ {b}
            PROVE  /\ handler'[c] = handler[c] /\ hand'[c] = hand[c]
                   /\ reader'[c] = reader[c] /\ relayed'[c] = relayed[c]
        BY <2>3, <2>4, <2>5
      <3>3. relayed'[b] = <<>> /\ handler'[b] = "send"
        BY <2>0, <2>3, <2>5
      <3> QED
        BY <3>1, <3>2, <3>3 DEF RelayInv, NothingSentYet
    <2> QED
      BY <2>8, <2>9, <2>10 DEF RelayInv, RelayFirstOnly
  <1>7. ASSUME NEW b \in Browser, Sent(b) PROVE RelayInv'
    <2>1. relayed[b] = <<>> /\ handler'[b] = "save" /\ hand[b] = 1
      BY <1>7 DEF Sent
    <2>2. \A c \in Browser \ {b} : relayed'[c] = relayed[c] /\ handler'[c] = handler[c]
      BY <1>7 DEF Sent
    <2>3. relayed'[b] = <<>> \/ relayed'[b] = <<hand[b]>>
      BY <1>7, <2>1 DEF Sent
    <2>4. inbox' = inbox /\ hand' = hand /\ reader' = reader /\ got' = got
      BY <1>7 DEF Sent
    <2> HIDE DEF TypeOK, RelayInv, RelayFirstOnly, FirstOnly, NothingSentYet
    <2>5. relayed'[b] \in {<<>>, <<1>>}
      BY <2>1, <2>3
    <2>6. FirstOnly(b)'
      BY <2>4, <2>5 DEF RelayInv, RelayFirstOnly, FirstOnly
    <2>7. ASSUME NEW c \in Browser \ {b} PROVE FirstOnly(c)'
      BY <2>2, <2>4, OthersFirstOnly
    <2>8. NothingSentYet'
      BY <2>1, <2>2, <2>4 DEF RelayInv, NothingSentYet
    <2> QED
      BY <2>6, <2>7, <2>8 DEF RelayInv, RelayFirstOnly
  <1>8. ASSUME NEW b \in Browser, SaveTiker(b) PROVE RelayInv'
    BY <1>8 DEF SaveTiker
  <1>9. ASSUME NEW b \in Browser, ReadMessage(b) PROVE RelayInv'
    BY <1>9 DEF ReadMessage
  <1>10. ASSUME NEW b \in Browser, Put(b) PROVE RelayInv'
    <2>1. hand[b] \in Int /\ inbox[b] \in Seq(Frame) /\ reader[b] = "put"
      BY <1>10 DEF Put
    <2>2. inbox'[b] = Append(inbox[b], got[b]) /\ reader'[b] = "read"
      BY <1>10 DEF Put
    <2>3. \A c \in Browser \ {b} : inbox'[c] = inbox[c] /\ reader'[c] = reader[c]
      BY <1>10 DEF Put
    <2>4. hand' = hand /\ got' = got /\ relayed' = relayed /\ handler' = handler
      BY <1>10 DEF Put
    <2>5. handler[b] # "idle" /\ \A i \in DOMAIN inbox[b] : inbox[b][i] = hand[b] + i
      BY <2>1
    <2> HIDE DEF TypeOK, RelayInv, RelayFirstOnly, FirstOnly, NothingSentYet
    <2>6. got[b] \in Frame /\ got[b] = hand[b] + Len(inbox[b]) + 1
      BY <2>1, PutNext
    <2>7. FirstOnly(b)'
      <3>1. /\ Len(inbox'[b]) = Len(inbox[b]) + 1
            /\ \A i \in DOMAIN inbox'[b] : inbox'[b][i] = hand[b] + i
        BY <2>1, <2>2, <2>5, <2>6, AppendNext
      <3>2. Len(inbox[b]) \in Nat
        BY <2>1
      <3>3. hand[b] + Len(inbox'[b]) = got[b]
        BY <2>1, <2>6, <3>1, <3>2
      <3> QED
        BY <2>2, <2>4, <3>1, <3>3 DEF RelayInv, RelayFirstOnly, FirstOnly
    <2>8. ASSUME NEW c \in Browser \ {b} PROVE FirstOnly(c)'
      BY <2>3, <2>4, OthersFirstOnly
    <2>9. NothingSentYet'
      BY <2>3, <2>4, <2>5 DEF RelayInv, NothingSentYet
    <2> QED
      BY <2>7, <2>8, <2>9 DEF RelayInv, RelayFirstOnly
  <1>11. ASSUME NEW b \in Browser, ReaderFails(b) PROVE RelayInv'
    BY <1>11 DEF ReaderFails
  <1>12. ASSUME NEW b \in Browser, BrowserLeaves(b) PROVE RelayInv'
    BY <1>12 DEF BrowserLeaves
  <1>13. CASE UNCHANGED vars
    BY <1>13 DEF vars
  <1> QED
    BY <1>1, <1>2, <1>3, <1>4, <1>5, <1>6, <1>7, <1>8, <1>9, <1>10, <1>11, <1>12, <1>13
       DEF Next, Serve

\* The relay keeps its state well formed, and gives a browser the first frame of
\* its upstream connection or none, whatever the number of requests, the capacity
\* of the inbox, the time the handler spends in Ticker and the failures on either
\* side; what is read after it stays in the inbox.
THEOREM OnlyFirstRelayed == Spec => [](TypeOK /\ RelayFirstOnly)
<1>1. Init => TypeOK /\ RelayInv
  BY RelayInit
<1>2. TypeOK /\ RelayInv /\ [Next]_vars => (TypeOK /\ RelayInv)'
  BY TypeStep, RelayStep
<1>3. RelayInv => RelayFirstOnly
  BY DEF RelayInv
<1> QED
  BY <1>1, <1>2, <1>3, PTL DEF Spec

\* Types are kept, with any number of browsers: inbox never holds more than its
\* capacity.
THEOREM TypeCorrect == Spec => []TypeOK
  BY OnlyFirstRelayed, PTL

-----------------------------------------------------------------------------
(* Who holds which connection, and that the two leaks do not end *)

LEMMA HeldStep ==
    ASSUME TypeOK, ConnectionsHeld, [Next]_vars
    PROVE  ConnectionsHeld'
  <1> USE DEF TypeOK, ConnectionsHeld, front, back
  <1>1. ASSUME NEW b \in Browser, Dial(b) PROVE ConnectionsHeld'
    BY <1>1 DEF Dial
  <1>2. ASSUME NEW b \in Browser, DialFails(b) PROVE ConnectionsHeld'
    BY <1>2 DEF DialFails
  <1>3. ASSUME NEW b \in Browser, Upgrade(b) PROVE ConnectionsHeld'
    BY <1>3 DEF Upgrade
  <1>4. ASSUME NEW b \in Browser, UpgradeFails(b) PROVE ConnectionsHeld'
    BY <1>4 DEF UpgradeFails
  <1>5. ASSUME NEW b \in Browser, Ticker(b) PROVE ConnectionsHeld'
    BY <1>5 DEF Ticker
  <1>6. ASSUME NEW b \in Browser, Receive(b) PROVE ConnectionsHeld'
    BY <1>6 DEF Receive
  <1>7. ASSUME NEW b \in Browser, Sent(b) PROVE ConnectionsHeld'
    BY <1>7 DEF Sent
  <1>8. ASSUME NEW b \in Browser, SaveTiker(b) PROVE ConnectionsHeld'
    BY <1>8 DEF SaveTiker
  <1>9. ASSUME NEW b \in Browser, ReadMessage(b) PROVE ConnectionsHeld'
    BY <1>9 DEF ReadMessage
  <1>10. ASSUME NEW b \in Browser, Put(b) PROVE ConnectionsHeld'
    BY <1>10 DEF Put
  <1>11. ASSUME NEW b \in Browser, ReaderFails(b) PROVE ConnectionsHeld'
    BY <1>11 DEF ReaderFails
  <1>12. ASSUME NEW b \in Browser, BrowserLeaves(b) PROVE ConnectionsHeld'
    BY <1>12 DEF BrowserLeaves
  <1>13. CASE UNCHANGED vars
    BY <1>13 DEF vars
  <1> QED
    BY <1>1, <1>2, <1>3, <1>4, <1>5, <1>6, <1>7, <1>8, <1>9, <1>10, <1>11, <1>12, <1>13
       DEF Next, Serve

\* Every connection of the route has exactly one goroutine that still has to
\* close it, for any number of requests: no way out of SocketHandler or of the
\* reader forgets its own connection, and none closes the other's.
THEOREM EveryConnectionHeld == Spec => []ConnectionsHeld
<1>1. Init => TypeOK /\ RelayInv /\ ConnectionsHeld
  BY RelayInit DEF Init, ConnectionsHeld
<1>2. TypeOK /\ RelayInv /\ ConnectionsHeld /\ [Next]_vars
          => (TypeOK /\ RelayInv /\ ConnectionsHeld)'
  BY TypeStep, RelayStep, HeldStep
<1> QED
  BY <1>1, <1>2, PTL DEF Spec

\* A step touches the goroutines and the inbox of its own request only.
LEMMA OneRequestSteps ==
    ASSUME TypeOK, NEW b \in Browser, NEW c \in Browser, b # c,
           \/ Dial(b) \/ DialFails(b) \/ Ticker(b) \/ Serve(b)
           \/ ReadMessage(b) \/ Put(b) \/ ReaderFails(b) \/ BrowserLeaves(b)
    PROVE  handler'[c] = handler[c] /\ reader'[c] = reader[c] /\ inbox'[c] = inbox[c]
  BY DEF TypeOK, Serve, Dial, DialFails, Upgrade, UpgradeFails, Ticker, Receive, Sent, SaveTiker,
         ReadMessage, Put, ReaderFails, BrowserLeaves, front, back

\* Of its own request, a leak leaves only BrowserLeaves, which changes neither.
LEMMA LeakStep ==
    ASSUME TypeOK, [Next]_vars, NEW c \in Browser, ReaderLeaked(c) \/ HandlerLeaked(c)
    PROVE  handler'[c] = handler[c] /\ reader'[c] = reader[c] /\ inbox'[c] = inbox[c]
  <1>1. CASE UNCHANGED vars
    BY <1>1 DEF vars, front, back
  <1>2. ASSUME NEW b \in Browser, b # c,
               \/ Dial(b) \/ DialFails(b) \/ Ticker(b) \/ Serve(b)
               \/ ReadMessage(b) \/ Put(b) \/ ReaderFails(b) \/ BrowserLeaves(b)
        PROVE  handler'[c] = handler[c] /\ reader'[c] = reader[c] /\ inbox'[c] = inbox[c]
    BY <1>2, OneRequestSteps
  <1>3. /\ ~Dial(c) /\ ~DialFails(c) /\ ~Ticker(c) /\ ~Serve(c)
        /\ ~ReadMessage(c) /\ ~Put(c) /\ ~ReaderFails(c)
    BY DEF TypeOK, ReaderLeaked, HandlerLeaked, Serve, Dial, DialFails, Upgrade, UpgradeFails,
           Ticker, Receive, Sent, SaveTiker, ReadMessage, Put, ReaderFails
  <1>4. CASE BrowserLeaves(c)
    BY <1>4 DEF BrowserLeaves, back
  <1> QED BY <1>1, <1>2, <1>3, <1>4 DEF Next

\* A reader stuck behind a handler that is done, and a handler stuck behind a
\* reader that is done, stay stuck as long as the process lives, with the
\* connection each of them holds.
THEOREM LeaksAreFinal == Spec => LeaksForGood
<1>1. Init => TypeOK /\ RelayInv /\ ConnectionsHeld
  BY RelayInit DEF Init, ConnectionsHeld
<1>2. TypeOK /\ RelayInv /\ ConnectionsHeld /\ [Next]_vars
          => (TypeOK /\ RelayInv /\ ConnectionsHeld)'
  BY TypeStep, RelayStep, HeldStep
<1>3. TypeOK /\ ConnectionsHeld /\ ConnectionsHeld' /\ [Next]_vars =>
        [\A b \in Browser :
            /\ ReaderLeaked(b) => ReaderLeaked(b)' /\ upstream'[b] = "open"
            /\ HandlerLeaked(b) => HandlerLeaked(b)' /\ browser'[b] # "closed"]_vars
  <2> SUFFICES ASSUME TypeOK, ConnectionsHeld', [Next]_vars, NEW b \in Browser
               PROVE  /\ ReaderLeaked(b) => ReaderLeaked(b)' /\ upstream'[b] = "open"
                      /\ HandlerLeaked(b) => HandlerLeaked(b)' /\ browser'[b] # "closed"
    OBVIOUS
  <2>1. ASSUME ReaderLeaked(b) PROVE ReaderLeaked(b)' /\ upstream'[b] = "open"
    BY <2>1, LeakStep DEF ReaderLeaked, ConnectionsHeld
  <2>2. ASSUME HandlerLeaked(b) PROVE HandlerLeaked(b)' /\ browser'[b] # "closed"
    BY <2>2, LeakStep DEF HandlerLeaked, ConnectionsHeld
  <2> QED BY <2>1, <2>2
<1> QED
  BY <1>1, <1>2, <1>3, PTL DEF Spec, LeaksForGood

=============================================================================
