------------------------------ MODULE Payloads ------------------------------
(***************************************************************************)
(* The values the REST client of the exchange sends and receives           *)
(* (data_server/bitso): how they are written to JSON, how they are read    *)
(* back, and what doRequest makes of an answer.                            *)
(*                                                                         *)
(* Reading writes through a receiver and returns an error: here it is a    *)
(* record with the error and the value the receiver has afterwards.  A     *)
(* text is the sequence of what stands between its underscores, since only *)
(* Book takes texts apart; each part is a word and whether it is spelled   *)
(* in lower case.  The word of "" is one of Words.                         *)
(***************************************************************************)
EXTENDS Integers, Sequences

CONSTANTS
    Words,           \* what currencies are called
    Currencies,      \* the Currency values that callers build books from
    Amounts,         \* the amounts they order, in 10^-8 of a unit
    Uint64           \* 2^64

Part == [word : Words, lower : BOOLEAN]
Text == Seq(Part) \ {<<>>}

ASSUME CurrenciesAssumption == Currencies \subseteq Text
ASSUME AmountsAssumption == Amounts \subseteq Nat
ASSUME WidthAssumption == Uint64 \in Nat \ {0}

Ok(v) == [err |-> FALSE, val |-> v]
Fail(old) == [err |-> TRUE, val |-> old]

-----------------------------------------------------------------------------
(* Enumerations.  The values count from 1; 0, None, has no name.  A name    *)
(* that is not a text, null and the empty text are no names of a value.     *)

orderSides == <<"buy", "sell">>
orderTypes == <<"market", "limit">>

statusNames == <<"open", "queued", "partially filled", "cancelled", "completed">>

\* String panics for what has no name, None included.
String(names, v) == names[v]

\* The loop over the map finds any value with that name.
FromString(names, z, old) ==
    IF \E v \in DOMAIN names : names[v] = z
    THEN Ok(CHOOSE v \in DOMAIN names : names[v] = z)
    ELSE Fail(old)

OrderSideFromString(z, old) == FromString(orderSides, z, old)
OrderStatusFromString(z, old) == FromString(statusNames, z, old)

-----------------------------------------------------------------------------
(* Times: how they are written, and the instant.  Each format stands for    *)
(* all time.Parse reads with it: it allows a fraction of a second where the *)
(* format has none, too.                                                    *)

Stamp == [format : STRING, at : Nat]

iso8601Time == "-0700"
timeFormats == <<iso8601Time, "-07:00", ".000-07:00">>

\* Mutant of TimeFromJSON: the error of an earlier format is not forgotten.
TimeFromJSONFirst(t, old) == IF t.format = timeFormats[1] THEN Ok(t.at) ELSE Fail(old)

\* The formats are tried in their order.
TimeFromJSON(t, old) ==
    IF \E i \in DOMAIN timeFormats : t.format = timeFormats[i] THEN Ok(t.at) ELSE Fail(old)

-----------------------------------------------------------------------------
(* Currencies and books *)

ToCurrency(t) == [i \in DOMAIN t |-> [t[i] EXCEPT !.lower = TRUE]]

NewBook(major, minor) == [major |-> major, minor |-> minor]
NoBook == [major |-> <<>>, minor |-> <<>>]

\* "%s_%s": the parts of both
BookString(b) == b.major \o b.minor

\* strings.Split(s, "_") has to have two parts.
BookFromString(t, old) ==
    IF Len(t) # 2 THEN Fail(old)
    ELSE Ok(NewBook(ToCurrency(<<t[1]>>), ToCurrency(<<t[2]>>)))

-----------------------------------------------------------------------------
(* Numbers: a document is of a kind and has a number, or just a kind. *)

\* A number, and a text of digits, of any size; null; and what is neither
Document == [kind : {"number", "digits"}, n : Int] \cup [kind : {"null", "other"}]

\* Mutant of TIDFromJSON: digits are taken modulo 2^64.
TIDFromJSONWrapping(d, old) ==
    CASE d.kind = "null" -> Ok(0)
      [] d.kind \in {"number", "digits"} -> Ok(d.n % Uint64)
      [] OTHER -> Fail(old)

\* First as a number, then as digits; null is 0.
TIDFromJSON(d, old) ==
    CASE d.kind = "null" -> Ok(0)
      [] d.kind \in {"number", "digits"} /\ d.n \in 0 .. Uint64 - 1 -> Ok(d.n)
      [] OTHER -> Fail(old)

\* "%f" has six decimals.  In binary a tie may go either way.
ToMonetary(a) == {m \in {(a \div 100) * 100, (a \div 100) * 100 + 100} :
                    m - a <= 50 /\ a - m <= 50}

-----------------------------------------------------------------------------
(* Orders: written by PlaceOrder, kept by the exchange, read by MyOpenOrders *)

\* What a caller can place: a zero side or type makes String panic in PlaceOrder,
\* before doRequest.
Placement == [book : {NewBook(j, n) : j, n \in Currencies}, amount : Amounts,
              side : DOMAIN orderSides, type : DOMAIN orderTypes]

\* MarshalJSON of an OrderPlacement whose Major is ToMonetary(p.amount)
MarshalOrder(p, major) ==
    [book |-> BookString(p.book), side |-> String(orderSides, p.side),
     type |-> String(orderTypes, p.type), major |-> major]

\* The exchange lists an order as it got it, with a status and two times, and with
\* all fields of a UserOrder.  `texts' says whether those that are plain strings
\* (type, oid, price and the amounts) are all written as texts.
Listing(w, status, created, updated, texts) ==
    [book |-> w.book, side |-> w.side, type |-> w.type, amount |-> w.major,
     status |-> status, created |-> created, updated |-> updated, texts |-> texts]

\* The document into a zero UserOrder: an error in any field is one of the whole,
\* and a plain string is not read from anything but a text.
UnmarshalOrder(d) ==
    LET b == BookFromString(d.book, NoBook)
        s == OrderSideFromString(d.side, 0)
        u == OrderStatusFromString(d.status, 0)
        t == TimeFromJSON(d.created, 0)
        l == TimeFromJSON(d.updated, 0)
    IN  [err |-> b.err \/ s.err \/ u.err \/ t.err \/ l.err \/ ~d.texts,
         val |-> [book |-> b.val, side |-> s.val, type |-> d.type, amount |-> d.amount,
                  status |-> u.val, created |-> t.val, updated |-> l.val]]

\* The document into a zero Trade, whose plain strings are its amount and price
UnmarshalTrade(d) ==
    LET b == BookFromString(d.book, NoBook)
        s == OrderSideFromString(d.side, 0)
        t == TimeFromJSON(d.created, 0)
        i == TIDFromJSON(d.tid, 0)
    IN  [err |-> b.err \/ s.err \/ t.err \/ i.err \/ ~d.texts,
         val |-> [book |-> b.val, side |-> s.val, created |-> t.val, tid |-> i.val]]

\* Mutant of Payload: what cannot be read is skipped.
PayloadReadable(success, read) ==
    IF ~success THEN Fail(<<>>)
    ELSE LET good == SelectSeq(read, LAMBDA r : ~r.err)
         IN  Ok([i \in DOMAIN good |-> good[i].val])

\* doRequest refuses all answers but an envelope with success, and one with a
\* document it cannot read; getResponse and its callers return no payload then.
\* `read' is what became of each document of the payload.
Payload(success, read) ==
    IF ~success \/ \E i \in DOMAIN read : read[i].err
    THEN Fail(<<>>)
    ELSE Ok([i \in DOMAIN read |-> read[i].val])

=============================================================================
