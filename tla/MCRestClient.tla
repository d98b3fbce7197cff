---------------------------- MODULE MCRestClient ----------------------------
(***************************************************************************)
(* The REST client with the values it sends and receives: `btc', `BTC',    *)
(* `mxn', the empty text and a name that holds an underscore.              *)
(***************************************************************************)
EXTENDS Endpoints

Lower(w) == [word |-> w, lower |-> TRUE]
Upper(w) == [word |-> w, lower |-> FALSE]

MCWords == {"btc", "mxn", ""}
BTC == <<Upper("btc")>>
mxn == <<Lower("mxn")>>
empty == <<Lower("")>>
underscored == <<Lower("btc"), Upper("mxn")>>
MCCurrencies == {BTC, mxn, empty, underscored}

\* None, one that vanishes, a tie, one with more than six decimals
MCAmounts == {0, 49, 50, 123456}

MCStamp(format) == [format |-> format, at |-> 1]

MCOrder(j, n, amount, major, side, type, status, format) ==
    [placed |-> [book |-> NewBook(j, n), amount |-> amount, side |-> side, type |-> type],
     major |-> major, status |-> status, created |-> MCStamp(format),
     updated |-> [format |-> "-0700", at |-> 2], texts |-> TRUE]

Half == MCOrder(BTC, mxn, 123456, 123500, 2, 2, "partially filled", ".000-07:00")

\* Two that can be read, and one each with an unknown status, a time of either
\* kind in a format that is not known, a number for a text, a book that does not
\* come apart
MCListed ==
    {Half,
     MCOrder(mxn, empty, 50, 100, 1, 1, "completed", "-07:00"),
     MCOrder(BTC, mxn, 0, 0, 2, 1, "expired", "-0700"),
     MCOrder(mxn, BTC, 50, 0, 1, 1, "open", "RFC1123"),
     [Half EXCEPT !.updated = MCStamp("RFC1123")],
     [Half EXCEPT !.texts = FALSE],
     MCOrder(mxn, underscored, 50, 0, 2, 2, "cancelled", "-0700")}

MCTrade(tid) ==
    [book |-> <<Lower("btc"), Lower("mxn")>>, side |-> "sell",
     created |-> MCStamp("-0700"), tid |-> tid, texts |-> TRUE]

\* Ids on both sides of both ends of the range, as numbers and as digits
MCTraded ==
    {MCTrade([kind |-> "number", n |-> -1]), MCTrade([kind |-> "number", n |-> 15]),
     MCTrade([kind |-> "digits", n |-> 0]), MCTrade([kind |-> "digits", n |-> 16])}

=============================================================================
