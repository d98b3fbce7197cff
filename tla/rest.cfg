SPECIFICATION CallsFairSpec
CONSTANTS
    Caller = {a, b, c}
    DefaultTickets = 1
    MaxRate = 2
    Lister = {a}
    Listed <- MCListed
    Traded <- MCTraded
    MaxList = 2
    Words <- MCWords
    Currencies <- MCCurrencies
    Amounts <- MCAmounts
    Uint64 = 16
INVARIANTS TypeOK TicketsConserved OrdersComeBack OneHidesAll TradeIdsExact
PROPERTIES TicketsSpaced TicketServed
