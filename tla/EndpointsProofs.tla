-------------------------- MODULE EndpointsProofs --------------------------
(***************************************************************************)
(* Proofs about Endpoints, and with it about Payloads: for any callers and *)
(* rates, words, currencies and amounts, any width of the trade ids, lists *)
(* of any length, and whatever orders and trades the exchange lists.       *)
(***************************************************************************)
EXTENDS Endpoints, RestClientProofs

\* The calls with what they carry are calls of RestClient: all that is proved of
\* tickets and spacing holds of them.
THEOREM ImplementsRestClient == CallsSpec => Spec
  <1>1. CallsInit => Init
    BY DEF CallsInit
  <1>2. [CallsNext]_callVars => [Next]_vars
    BY DEF CallsNext, Next, SendCall, ReturnCall, callVars
  <1> QED BY <1>1, <1>2, PTL DEF CallsSpec, Spec

\* So no call loses or doubles a ticket, whatever it is answered and whatever
\* its caller makes of the answer.
THEOREM CallsConserveTickets == CallsSpec => []TicketsConserved
  BY ImplementsRestClient, TicketsAreConserved, PTL

\* And with one ticket, as in the code, every call keeps the wait that the one
\* before it asked for.
THEOREM CallsAreSpaced == ASSUME DefaultTickets = 1 PROVE CallsSpec => TicketsSpaced
  <1>1. Spec => TicketsSpaced
    BY TicketsAreSpaced
  <1> QED BY <1>1, ImplementsRestClient, PTL

-----------------------------------------------------------------------------
(* Answers *)

LEMMA AnswersInit == CallsInit => AnswersOK
  BY ListerAssumption DEF CallsInit, Init, AnswersOK

LEMMA AnswersAreSomething == \A a \in Answers : a # NoAnswer
  BY DEF Answers, Failure, NoAnswer

LEMMA AnswersStep == TypeOK /\ AnswersOK /\ [CallsNext]_callVars => AnswersOK'
  <1> SUFFICES ASSUME TypeOK, AnswersOK, [CallsNext]_callVars PROVE AnswersOK'
    OBVIOUS
  <1>1. \A c \in Lister : c \in Caller
    BY ListerAssumption
  <1>2. ASSUME NEW c \in Caller, SendCall(c) PROVE AnswersOK'
    <2>1. \A d \in Caller : call'[d] = IF d = c THEN "answer" ELSE call[d]
      BY <1>2 DEF SendCall, Send, TypeOK
    <2>2. CASE c \in Lister
      <3>1. PICK a \in Answers : answer' = [answer EXCEPT ![c] = a]
        BY <1>2, <2>2 DEF SendCall
      <3>2. answer' \in [Lister -> Answers \cup {NoAnswer}]
        BY <3>1 DEF AnswersOK
      <3>3. \A d \in Lister : answer'[d] = IF d = c THEN a ELSE answer[d]
        BY <3>1 DEF AnswersOK
      <3> QED BY <1>1, <2>1, <3>2, <3>3, AnswersAreSomething DEF AnswersOK
    <2>3. CASE c \notin Lister
      <3>1. answer' = answer
        BY <1>2, <2>3 DEF SendCall
      <3> QED BY <1>1, <2>1, <2>3, <3>1 DEF AnswersOK
    <2> QED BY <2>2, <2>3
  <1>3. ASSUME NEW c \in Caller, ReturnCall(c) PROVE AnswersOK'
    <2>1. \A d \in Caller : call'[d] = IF d = c THEN "idle" ELSE call[d]
      BY <1>3 DEF ReturnCall, Return, TypeOK
    <2>2. answer' = [d \in Lister |-> IF d = c THEN NoAnswer ELSE answer[d]]
      BY <1>3 DEF ReturnCall
    <2>3. answer' \in [Lister -> Answers \cup {NoAnswer}]
      BY <2>2 DEF AnswersOK
    <2> QED BY <1>1, <2>1, <2>2, <2>3 DEF AnswersOK
  <1>4. ASSUME NEW c \in Caller, Prepare(c) \/ ReadRate(c) \/ TakeTicket(c), UNCHANGED answer
        PROVE  AnswersOK'
    <2>1. \A d \in Caller : call'[d] = "answer" <=> call[d] = "answer"
      BY <1>4 DEF Prepare, ReadRate, TakeTicket, TypeOK
    <2> QED BY <1>1, <1>4, <2>1 DEF AnswersOK
  <1>5. ASSUME call' = call, answer' = answer PROVE AnswersOK'
    BY <1>5 DEF AnswersOK
  <1>6. CASE Refill /\ UNCHANGED answer
    BY <1>5, <1>6 DEF Refill
  <1>7. CASE \E r \in Rate : SetBurstRate(r) /\ UNCHANGED answer
    BY <1>5, <1>7 DEF SetBurstRate
  <1>8. CASE Tick /\ UNCHANGED answer
    BY <1>5, <1>8 DEF Tick
  <1>9. CASE UNCHANGED callVars
    BY <1>5, <1>9 DEF callVars, vars
  <1> QED BY <1>2, <1>3, <1>4, <1>6, <1>7, <1>8, <1>9 DEF CallsNext

LEMMA AnswersCorrect == CallsSpec => []AnswersOK
  BY AnswersInit, AnswersStep, ImplementsRestClient, TypeCorrect, PTL DEF CallsSpec

\* What a lister was answered: a failure, or a list of one of two kinds
LEMMA AnswerShape ==
    ASSUME AnswersOK, NEW c \in Lister, answer[c].kind # "none"
    PROVE  \/ answer[c] \in Failure
           \/ answer[c].kind = "orders" /\ answer[c].list \in Lists(Listed)
           \/ answer[c].kind = "trades" /\ answer[c].list \in Lists(Traded)
  BY DEF AnswersOK, Answers, NoAnswer

\* The elements of a list
LEMMA ListElements ==
    ASSUME NEW S, NEW l \in Lists(S)
    PROVE  \A i \in DOMAIN l : l[i] \in S
  BY DEF Lists

\* A payload is all that was read, or nothing and an error.
LEMMA PayloadOfAll ==
    ASSUME NEW success \in BOOLEAN, NEW read
    PROVE  LET r == Payload(success, read)
           IN  /\ r.err <=> ~success \/ \E i \in DOMAIN read : read[i].err
               /\ r.err => r.val = <<>>
               /\ ~r.err => /\ DOMAIN r.val = DOMAIN read
                            /\ \A i \in DOMAIN read : r.val[i] = read[i].val
  BY DEF Payload, Ok, Fail

-----------------------------------------------------------------------------
(* Names, times and books *)

\* A name that is written is read back as the value it was written for, provided
\* that no two values share it.
LEMMA NameComesBack ==
    ASSUME NEW names, NEW v \in DOMAIN names, NEW old,
           \A u, w \in DOMAIN names : names[u] = names[w] => u = w
    PROVE  FromString(names, String(names, v), old) = Ok(v)
  BY DEF FromString, String

\* A name is read exactly when it is the name of a value, and as that value.
LEMMA NameIsRead ==
    ASSUME NEW names, NEW z, NEW old
    PROVE  /\ ~FromString(names, z, old).err <=> \E v \in DOMAIN names : names[v] = z
           /\ ~FromString(names, z, old).err => names[FromString(names, z, old).val] = z
  BY DEF FromString, Ok, Fail

LEMMA SidesDiffer ==
    /\ DOMAIN orderSides = {1, 2}
    /\ \A u, w \in DOMAIN orderSides : orderSides[u] = orderSides[w] => u = w
  BY DEF orderSides

LEMMA TypesDiffer == DOMAIN orderTypes = {1, 2}
  BY DEF orderTypes

LEMMA StatusesDiffer ==
    /\ DOMAIN statusNames = {1, 2, 3, 4, 5}
    /\ \A u, w \in DOMAIN statusNames : statusNames[u] = statusNames[w] => u = w
  <1>1. DOMAIN statusNames = {1, 2, 3, 4, 5}
    BY DEF statusNames
  <1>2. /\ statusNames[1] = "open" /\ statusNames[2] = "queued"
        /\ statusNames[3] = "partially filled" /\ statusNames[4] = "cancelled"
        /\ statusNames[5] = "completed"
    BY DEF statusNames
  <1>3. ASSUME NEW u \in {1, 2, 3, 4, 5}, NEW w \in {1, 2, 3, 4, 5},
               statusNames[u] = statusNames[w]
        PROVE  u = w
    <2>1. CASE u = 1 BY <1>2, <1>3, <2>1
    <2>2. CASE u = 2 BY <1>2, <1>3, <2>2
    <2>3. CASE u = 3 BY <1>2, <1>3, <2>3
    <2>4. CASE u = 4 BY <1>2, <1>3, <2>4
    <2>5. CASE u = 5 BY <1>2, <1>3, <2>5
    <2> QED BY <2>1, <2>2, <2>3, <2>4, <2>5
  <1> QED BY <1>1, <1>3

\* A time is read in each of the formats and in no other.
LEMMA TimeIsRead ==
    ASSUME NEW t, NEW old
    PROVE  /\ ~TimeFromJSON(t, old).err <=> \E f \in DOMAIN timeFormats : timeFormats[f] = t.format
           /\ ~TimeFromJSON(t, old).err => TimeFromJSON(t, old).val = t.at
  BY DEF TimeFromJSON, Ok, Fail

\* A book of plain currencies is read back up to case; any other is refused.
LEMMA BookComesBack ==
    ASSUME NEW j \in Currencies, NEW n \in Currencies, NEW old
    PROVE  LET r == BookFromString(BookString(NewBook(j, n)), old)
           IN  IF Len(j) = 1 /\ Len(n) = 1
               THEN r = Ok(NewBook(ToCurrency(j), ToCurrency(n)))
               ELSE r.err
  <1> DEFINE t == BookString(NewBook(j, n))
  <1>1. j \in Seq(Part) /\ n \in Seq(Part) /\ j # <<>> /\ n # <<>>
    BY CurrenciesAssumption DEF Text
  <1>2. Len(j) \in Nat \ {0} /\ Len(n) \in Nat \ {0}
    BY <1>1
  <1>3. t = j \o n
    BY DEF BookString, NewBook
  <1>4. Len(t) = Len(j) + Len(n)
    BY <1>1, <1>3
  <1> HIDE DEF t
  <1>5. CASE Len(j) = 1 /\ Len(n) = 1
    <2>1. Len(t) = 2 /\ t[1] = j[1] /\ t[2] = n[1]
      BY <1>1, <1>3, <1>4, <1>5
    <2>2. j = <<t[1]>> /\ n = <<t[2]>>
      BY <1>1, <1>5, <2>1
    <2> QED BY <1>5, <2>1, <2>2 DEF BookFromString, t
  <1>6. CASE ~(Len(j) = 1 /\ Len(n) = 1)
    <2>1. \A a, b \in Nat \ {0} : a + b = 2 => a = 1 /\ b = 1
      OBVIOUS
    <2>2. Len(t) # 2
      BY <1>2, <1>4, <1>6, <2>1
    <2> QED BY <1>6, <2>2 DEF BookFromString, Fail, t
  <1> QED BY <1>5, <1>6


-----------------------------------------------------------------------------
(* Orders *)

\* One listed order: what can be read, and that it is then what was placed
LEMMA OrderIsRead ==
    ASSUME NEW o \in Listed
    PROVE  LET r == UnmarshalOrder(OrderDocument(o))
           IN  /\ r.err <=> ~Readable(o)
               /\ ~r.err => /\ SameOrder(r.val, o.placed)
                            /\ statusNames[r.val.status] = o.status
                            /\ r.val.created = o.created.at
                            /\ r.val.updated = o.updated.at
  <1> DEFINE p == o.placed
             d == OrderDocument(o)
             b == BookFromString(d.book, NoBook)
             s == OrderSideFromString(d.side, 0)
             u == OrderStatusFromString(d.status, 0)
             t == TimeFromJSON(d.created, 0)
             l == TimeFromJSON(d.updated, 0)
             r == UnmarshalOrder(d)
  <1>1. p \in Placement /\ o.major \in ToMonetary(p.amount)
    BY ListedAssumption DEF Order
  <1>2. PICK j \in Currencies, n \in Currencies : p.book = NewBook(j, n)
    BY <1>1 DEF Placement
  <1>3. p.book.major = j /\ p.book.minor = n
    BY <1>2 DEF NewBook
  <1>4. /\ d.book = BookString(NewBook(j, n)) /\ d.side = String(orderSides, p.side)
        /\ d.status = o.status /\ d.type = orderTypes[p.type] /\ d.amount = o.major
        /\ d.created = o.created /\ d.updated = o.updated /\ d.texts = o.texts
    BY <1>2 DEF OrderDocument, Listing, MarshalOrder, String
  <1>5. s = Ok(p.side)
    BY <1>1, <1>4, SidesDiffer, NameComesBack DEF OrderSideFromString, Placement
  <1>6. o.major - p.amount <= 50 /\ p.amount - o.major <= 50
    BY <1>1 DEF ToMonetary
  <1>7. /\ b.err <=> ~PlainBook(p.book)
        /\ ~b.err => b.val = NewBook(ToCurrency(p.book.major), ToCurrency(p.book.minor))
    BY <1>3, <1>4, BookComesBack DEF PlainBook, Ok
  <1>8. /\ ~u.err <=> \E v \in DOMAIN statusNames : statusNames[v] = o.status
        /\ ~u.err => statusNames[u.val] = o.status
    BY <1>4, NameIsRead DEF OrderStatusFromString
  <1>9. /\ ~t.err <=> \E f \in DOMAIN timeFormats : timeFormats[f] = o.created.format
        /\ ~t.err => t.val = o.created.at
        /\ ~l.err <=> \E f \in DOMAIN timeFormats : timeFormats[f] = o.updated.format
        /\ ~l.err => l.val = o.updated.at
    BY <1>4, TimeIsRead
  <1>10. /\ r.err = (b.err \/ s.err \/ u.err \/ t.err \/ l.err \/ ~d.texts)
         /\ r.val = [book |-> b.val, side |-> s.val, type |-> d.type, amount |-> d.amount,
                     status |-> u.val, created |-> t.val, updated |-> l.val]
    BY DEF UnmarshalOrder
  <1>11. ~s.err /\ s.val = p.side
    BY <1>5 DEF Ok
  <1> HIDE DEF d, b, s, u, t, l, r, p
  <1>12. r.err <=> ~Readable(o)
    BY <1>4, <1>7, <1>8, <1>9, <1>10, <1>11 DEF Readable, p
  <1>13. ASSUME ~r.err
         PROVE  /\ SameOrder(r.val, p)
                /\ statusNames[r.val.status] = o.status
                /\ r.val.created = o.created.at
                /\ r.val.updated = o.updated.at
    <2>1. /\ r.val.book = b.val /\ r.val.side = p.side /\ r.val.type = orderTypes[p.type]
          /\ r.val.amount = o.major /\ r.val.status = u.val /\ r.val.created = t.val
          /\ r.val.updated = l.val
      BY <1>4, <1>10, <1>11
    <2>2. ~b.err /\ ~u.err /\ ~t.err /\ ~l.err
      BY <1>10, <1>13
    <2>3. r.val.book = NewBook(ToCurrency(p.book.major), ToCurrency(p.book.minor))
      BY <1>7, <2>1, <2>2
    <2>4. r.val.amount - p.amount <= 50 /\ p.amount - r.val.amount <= 50
      BY <1>6, <2>1
    <2>5. SameOrder(r.val, p)
      BY <2>1, <2>3, <2>4 DEF SameOrder
    <2> QED BY <1>8, <1>9, <2>1, <2>2, <2>5
  <1> QED BY <1>12, <1>13 DEF p, r, d

\* Every order of an answer is read as it was placed.
THEOREM PlacedOrdersComeBack == CallsSpec => []OrdersComeBack
  <1>1. AnswersOK => OrdersComeBack
    <2> SUFFICES ASSUME AnswersOK, NEW c \in Lister, answer[c].kind = "orders",
                        ~MyOpenOrders(answer[c]).err
                 PROVE  LET placed == answer[c].list
                            r == MyOpenOrders(answer[c])
                        IN  /\ DOMAIN r.val = DOMAIN placed
                            /\ \A i \in DOMAIN placed :
                                /\ SameOrder(r.val[i], placed[i].placed)
                                /\ statusNames[r.val[i].status] = placed[i].status
                                /\ r.val[i].created = placed[i].created.at
                                /\ r.val[i].updated = placed[i].updated.at
      BY DEF OrdersComeBack
    <2> DEFINE placed == answer[c].list
               read == [i \in DOMAIN placed |-> UnmarshalOrder(OrderDocument(placed[i]))]
               r == Payload(TRUE, read)
    <2>1. placed \in Lists(Listed)
      BY AnswerShape DEF Failure
    <2>2. \A i \in DOMAIN placed : placed[i] \in Listed
      BY <2>1, ListElements
    <2>3. MyOpenOrders(answer[c]) = r
      BY DEF MyOpenOrders
    <2>4. DOMAIN read = DOMAIN placed /\ ~r.err
      BY <2>3
    <2>5. \A i \in DOMAIN placed : read[i] = UnmarshalOrder(OrderDocument(placed[i]))
      OBVIOUS
    <2> HIDE DEF placed, read
    <2>6. /\ ~r.err => ~\E i \in DOMAIN read : read[i].err
          /\ ~r.err => /\ DOMAIN r.val = DOMAIN read
                       /\ \A i \in DOMAIN read : r.val[i] = read[i].val
      BY PayloadOfAll
    <2> HIDE DEF r
    <2>7. ASSUME NEW i \in DOMAIN placed
          PROVE  /\ SameOrder(r.val[i], placed[i].placed)
                 /\ statusNames[r.val[i].status] = placed[i].status
                 /\ r.val[i].created = placed[i].created.at
                 /\ r.val[i].updated = placed[i].updated.at
      <3> DEFINE o == placed[i]
                 m == UnmarshalOrder(OrderDocument(o))
      <3>1. o \in Listed /\ ~m.err /\ r.val[i] = m.val
        BY <2>2, <2>4, <2>5, <2>6
      <3>2. /\ SameOrder(m.val, o.placed) /\ statusNames[m.val.status] = o.status
            /\ m.val.created = o.created.at /\ m.val.updated = o.updated.at
        BY <3>1, OrderIsRead
      <3> QED BY <3>1, <3>2
    <2> QED BY <2>3, <2>4, <2>6, <2>7 DEF placed
  <1> QED BY <1>1, AnswersCorrect, PTL

\* A failure, or one order that cannot be read, in its book, status, times or plain
\* strings, and nothing else, hides all.
THEOREM OneOrderHidesAll == CallsSpec => []OneHidesAll
  <1>1. AnswersOK => OneHidesAll
    <2> SUFFICES ASSUME AnswersOK, NEW c \in Lister, answer[c].kind \in {"orders", "failure"}
                 PROVE  LET r == MyOpenOrders(answer[c])
                        IN  /\ r.err <=> \/ answer[c].kind = "failure"
                                         \/ \E i \in DOMAIN answer[c].list : ~Readable(answer[c].list[i])
                            /\ r.err => r.val = <<>>
      BY DEF OneHidesAll
    <2> DEFINE l == answer[c].list
               read == [i \in DOMAIN l |-> UnmarshalOrder(OrderDocument(l[i]))]
               r == Payload(answer[c].kind = "orders", read)
    <2>1. MyOpenOrders(answer[c]) = r
      BY DEF MyOpenOrders
    <2>2. CASE answer[c].kind = "failure"
      BY <2>1, <2>2, PayloadOfAll
    <2>3. CASE answer[c].kind = "orders"
      <3>1. l \in Lists(Listed)
        BY <2>3, AnswerShape DEF Failure
      <3>2. \A i \in DOMAIN l : l[i] \in Listed
        BY <3>1, ListElements
      <3>3. \A i \in DOMAIN l : read[i].err <=> ~Readable(l[i])
        BY <3>2, OrderIsRead
      <3>4. DOMAIN read = DOMAIN l
        OBVIOUS
      <3>5. r = Payload(TRUE, read)
        BY <2>3
      <3> HIDE DEF read, r
      <3>6. /\ r.err <=> \E i \in DOMAIN read : read[i].err
            /\ r.err => r.val = <<>>
        BY <3>5, PayloadOfAll
      <3>7. r.err <=> \E i \in DOMAIN l : ~Readable(l[i])
        BY <3>3, <3>4, <3>6
      <3> QED BY <2>1, <2>3, <3>6, <3>7
    <2> QED BY <2>2, <2>3
  <1> QED BY <1>1, AnswersCorrect, PTL

\* Trade ids of any width are read exactly or the call fails.
THEOREM TradeIdsAreExact == CallsSpec => []TradeIdsExact
  <1>1. AnswersOK => TradeIdsExact
    <2> SUFFICES ASSUME AnswersOK, NEW c \in Lister, answer[c].kind = "trades",
                        ~Trades(answer[c]).err, NEW i \in DOMAIN answer[c].list,
                        answer[c].list[i].tid.kind # "null"
                 PROVE  Trades(answer[c]).val[i].tid = answer[c].list[i].tid.n
      BY DEF TradeIdsExact
    <2> DEFINE l == answer[c].list
               read == [k \in DOMAIN l |-> UnmarshalTrade(l[k])]
               r == Payload(TRUE, read)
               t == TIDFromJSON(l[i].tid, 0)
    <2>1. Trades(answer[c]) = r
      BY DEF Trades
    <2>2. ~read[i].err /\ r.val[i] = read[i].val
      BY <2>1, PayloadOfAll
    <2>3. ~t.err /\ r.val[i].tid = t.val
      <3>1. read[i] = UnmarshalTrade(l[i])
        OBVIOUS
      <3> HIDE DEF read, r, l
      <3>2. (~UnmarshalTrade(l[i]).err => ~t.err) /\ UnmarshalTrade(l[i]).val.tid = t.val
        BY DEF UnmarshalTrade
      <3> HIDE DEF t
      <3> QED BY <2>2, <3>1, <3>2
    <2>4. ~t.err => t.val = l[i].tid.n
      BY DEF TIDFromJSON, Ok, Fail
    <2> QED BY <2>1, <2>3, <2>4
  <1> QED BY <1>1, AnswersCorrect, PTL

=============================================================================
