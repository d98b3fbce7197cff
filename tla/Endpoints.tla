----------------------------- MODULE Endpoints -----------------------------
(***************************************************************************)
(* The endpoint methods of the REST client (data_server/bitso/client.go):  *)
(* the calls of RestClient together with what they carry.  Some callers    *)
(* list the orders of the user (MyOpenOrders, LookupOrders) or trades      *)
(* (Trades), and find in the answer what was placed (PlaceOrder) at any    *)
(* time before; the calls of the others carry nothing that is looked at    *)
(* here.                                                                   *)
(***************************************************************************)
EXTENDS RestClient, Payloads

CONSTANTS
    Lister,          \* the callers whose answers are followed
    Listed,          \* the orders the exchange may list
    Traded,          \* the trades it may list, as documents
    MaxList          \* bound on the length of a list

ASSUME ListerAssumption == Lister \subseteq Caller
ASSUME MaxListAssumption == MaxList \in Nat

VARIABLE answer      \* what each call of a lister was answered

callVars == <<vars, answer>>

\* An order of the user: how it was placed, and the amount, status and times it is
\* listed with, and whether its plain strings are texts.
Order == [placed : Placement, major : Nat, status : STRING,
          created : Stamp, updated : Stamp, texts : BOOLEAN]

ASSUME ListedAssumption ==
    Listed \subseteq Order /\ \A o \in Listed : o.major \in ToMonetary(o.placed.amount)

Trade == [book : Text, side : STRING, created : Stamp, tid : Document, texts : BOOLEAN]

ASSUME TradedAssumption == Traded \subseteq Trade

OrderDocument(o) ==
    Listing(MarshalOrder(o.placed, o.major), o.status, o.created, o.updated, o.texts)

Lists(S) == UNION {[1 .. n -> S] : n \in 0 .. MaxList}

NoAnswer == [kind |-> "none", list |-> <<>>]

\* Lost by the transport, not JSON, or an envelope without success
Failure == {[kind |-> "failure", list |-> <<>>]}

Answers ==
    Failure \cup {[kind |-> "orders", list |-> s] : s \in Lists(Listed)}
            \cup {[kind |-> "trades", list |-> s] : s \in Lists(Traded)}

\* What MyOpenOrders and LookupOrders return for an answer ...
MyOpenOrders(a) ==
    Payload(a.kind = "orders", [i \in DOMAIN a.list |-> UnmarshalOrder(OrderDocument(a.list[i]))])

\* ... and what Trades returns
Trades(a) == Payload(a.kind = "trades", [i \in DOMAIN a.list |-> UnmarshalTrade(a.list[i])])

-----------------------------------------------------------------------------
CallsInit == Init /\ answer = [c \in Lister |-> NoAnswer]

\* res, err := c.client.Do(req)
SendCall(c) ==
    /\ Send(c)
    /\ IF c \in Lister
       THEN \E a \in Answers : answer' = [answer EXCEPT ![c] = a]
       ELSE UNCHANGED answer

\* The method returns what it read.
ReturnCall(c) ==
    /\ Return(c)
    /\ answer' = [d \in Lister |-> IF d = c THEN NoAnswer ELSE answer[d]]

CallsNext ==
    \/ \E c \in Caller : SendCall(c) \/ ReturnCall(c)
    \/ \E c \in Caller : Prepare(c) /\ UNCHANGED answer
    \/ \E c \in Caller : ReadRate(c) /\ UNCHANGED answer
    \/ \E c \in Caller : TakeTicket(c) /\ UNCHANGED answer
    \/ Refill /\ UNCHANGED answer
    \/ \E r \in Rate : SetBurstRate(r) /\ UNCHANGED answer
    \/ Tick /\ UNCHANGED answer

CallsSpec == CallsInit /\ [][CallsNext]_callVars

CallsFairSpec == CallsSpec /\ Fairness

-----------------------------------------------------------------------------
\* There is an answer exactly while it is being handled.
AnswersOK ==
    /\ answer \in [Lister -> Answers \cup {NoAnswer}]
    /\ \A c \in Lister : answer[c] = NoAnswer <=> call[c] # "answer"

\* The currencies of the book hold no underscore.
PlainBook(b) == Len(b.major) = 1 /\ Len(b.minor) = 1

\* An order that was placed is listed with the side, type, book (up to case) and
\* amount (up to the sixth decimal) it was placed with: no wrong method of a value
\* is used on either side, and each format of a time is read whatever the formats
\* tried before made of it.
SameOrder(o, placed) ==
    /\ o.book = NewBook(ToCurrency(placed.book.major), ToCurrency(placed.book.minor))
    /\ o.side = placed.side /\ o.type = orderTypes[placed.type]
    /\ o.amount - placed.amount <= 50 /\ placed.amount - o.amount <= 50

\* Can the order be listed at all?  Its book has to come apart again, status and
\* both times have to be written as this program knows them, and what it keeps as
\* a string has to be a text.
Readable(o) ==
    /\ PlainBook(o.placed.book)
    /\ \E v \in DOMAIN statusNames : statusNames[v] = o.status
    /\ \A t \in {o.created, o.updated} :
          \E f \in DOMAIN timeFormats : timeFormats[f] = t.format
    /\ o.texts

\* Listing the orders gives all of them, each as it was placed, in its place and with
\* its status and times; when there is no error no order is missing.
OrdersComeBack ==
    \A c \in Lister : answer[c].kind = "orders" =>
        LET placed == answer[c].list
            r == MyOpenOrders(answer[c])
        IN  ~r.err => /\ DOMAIN r.val = DOMAIN placed
                      /\ \A i \in DOMAIN placed :
                            /\ SameOrder(r.val[i], placed[i].placed)
                            /\ statusNames[r.val[i].status] = placed[i].status
                            /\ r.val[i].created = placed[i].created.at
                            /\ r.val[i].updated = placed[i].updated.at

\* A listing of the orders fails, with no order at all, exactly when the answer
\* is a failure or one of the orders cannot be read, in whichever of its fields:
\* one such order hides all the others until it is gone, and nothing else does.
OneHidesAll ==
    \A c \in Lister : answer[c].kind \in {"orders", "failure"} =>
        LET r == MyOpenOrders(answer[c])
        IN  /\ r.err <=> \/ answer[c].kind = "failure"
                         \/ \E i \in DOMAIN answer[c].list : ~Readable(answer[c].list[i])
            /\ r.err => r.val = <<>>

\* Trade ids are read exactly whether they come as a number or as digits, and one
\* that does not fit is an error: none wraps around to the id of another trade.
TradeIdsExact ==
    \A c \in Lister : answer[c].kind = "trades" /\ ~Trades(answer[c]).err =>
        \A i \in DOMAIN answer[c].list :
            LET tid == answer[c].list[i].tid
            IN  tid.kind # "null" => Trades(answer[c]).val[i].tid = tid.n

=============================================================================
