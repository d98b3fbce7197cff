----------------------------- MODULE RestClient -----------------------------
(***************************************************************************)
(* The REST client of the exchange, data_server/bitso/client.go, as the    *)
(* concurrent callers of its endpoint methods see it: every method ends in *)
(* doRequest, which signs a request, takes a ticket when a burst rate is   *)
(* set, sends the request and decodes the answer.                          *)
(*                                                                         *)
(* A ticket comes back when a goroutine started with it has waited for its *)
(* ticker.  Time is relative: a timer holds what is left of its duration,  *)
(* and Tick lets one unit pass.  Nothing happens at a precise time: a tick *)
(* may pass between any two steps.                                         *)
(***************************************************************************)
EXTENDS Integers, Sequences, SequencesExt

CONSTANTS
    Caller,          \* the goroutines that use one Client
    DefaultTickets,  \* defaultTickets, capacity of Client.tickets (1)
    MaxRate          \* bound on the burst rates that are set

ASSUME TicketsAssumption == DefaultTickets \in Nat \ {0}
ASSUME RateAssumption == MaxRate \in Nat

VARIABLES
    burstRate,       \* Client.burstRate
    tickets,         \* Client.tickets, by its length
    refills,         \* what is left on the ticker of each goroutine with a ticket
    call,            \* where each caller is in doRequest
    br,              \* its local copy of the burst rate
    window           \* what is left of the wait the last ticket asked for (history)

vars == <<burstRate, tickets, refills, call, br, window>>

Rate == 0 .. MaxRate

TypeOK ==
    /\ burstRate \in Rate
    /\ tickets \in 0 .. DefaultTickets
    /\ refills \in Seq(Rate)
    /\ call \in [Caller -> {"idle", "prepared", "ticket", "send", "answer"}]
    /\ br \in [Caller -> Rate]
    /\ window \in Rate

\* NewClient fills the channel; the burst rate is off.
Init ==
    /\ burstRate = 0
    /\ tickets = DefaultTickets
    /\ refills = <<>>
    /\ call = [c \in Caller |-> "idle"]
    /\ br = [c \in Caller |-> 0]
    /\ window = 0

-----------------------------------------------------------------------------
(* doRequest.  A request that cannot be built returns at once, before the   *)
(* ticket: that call changes nothing.                                       *)

\* endpointURL and newRequest: the request is signed, with its nonce.
Prepare(c) ==
    /\ call[c] = "idle"
    /\ call' = [call EXCEPT ![c] = "prepared"]
    /\ UNCHANGED <<burstRate, tickets, refills, br, window>>

\* br := c.burstRate; without a rate the ticket is skipped.
ReadRate(c) ==
    /\ call[c] = "prepared"
    /\ br' = [br EXCEPT ![c] = burstRate]
    /\ call' = [call EXCEPT ![c] = IF burstRate > 0 THEN "ticket" ELSE "send"]
    /\ UNCHANGED <<burstRate, tickets, refills, window>>

\* Mutant of TakeTicket: nobody brings the ticket back.
TakeTicketForGood(c) ==
    /\ call[c] = "ticket" /\ tickets > 0
    /\ tickets' = tickets - 1
    /\ call' = [call EXCEPT ![c] = "send"]
    /\ window' = br[c]
    /\ UNCHANGED <<burstRate, refills, br>>

\* Mutant of TakeTicket: it does not wait for a ticket.
TakeTicketAnyway(c) ==
    /\ call[c] = "ticket"
    /\ tickets' = tickets - 1
    /\ refills' = Append(refills, br[c])
    /\ call' = [call EXCEPT ![c] = "send"]
    /\ window' = br[c]
    /\ UNCHANGED <<burstRate, br>>

\* <-c.tickets, and a goroutine that brings it back after br
TakeTicket(c) ==
    /\ call[c] = "ticket" /\ tickets > 0
    /\ tickets' = tickets - 1
    /\ refills' = Append(refills, br[c])
    /\ call' = [call EXCEPT ![c] = "send"]
    /\ window' = br[c]
    /\ UNCHANGED <<burstRate, br>>

\* c.client.Do(req)
Send(c) ==
    /\ call[c] = "send"
    /\ call' = [call EXCEPT ![c] = "answer"]
    /\ UNCHANGED <<burstRate, tickets, refills, br, window>>

\* The answer, or the transport's error, is handled and the method returns.
Return(c) ==
    /\ call[c] = "answer"
    /\ call' = [call EXCEPT ![c] = "idle"]
    /\ br' = [br EXCEPT ![c] = 0]
    /\ UNCHANGED <<burstRate, tickets, refills, window>>

-----------------------------------------------------------------------------
\* Mutant of Refill: the ticket comes back without waiting for ticker.C.
RefillAtOnce ==
    /\ \E i \in DOMAIN refills : refills' = RemoveAt(refills, i)
    /\ tickets < DefaultTickets
    /\ tickets' = tickets + 1
    /\ UNCHANGED <<burstRate, call, br, window>>

\* <-ticker.C; c.tickets <- struct{}{}: the send waits while the channel is full.
Refill ==
    /\ \E i \in DOMAIN refills : refills[i] = 0 /\ refills' = RemoveAt(refills, i)
    /\ tickets < DefaultTickets
    /\ tickets' = tickets + 1
    /\ UNCHANGED <<burstRate, call, br, window>>

SetBurstRate(r) ==
    /\ burstRate' = r
    /\ UNCHANGED <<tickets, refills, call, br, window>>

Less(t) == IF t = 0 THEN 0 ELSE t - 1

Tick ==
    /\ refills' = [i \in DOMAIN refills |-> Less(refills[i])]
    /\ window' = Less(window)
    /\ UNCHANGED <<burstRate, tickets, call, br>>

Next ==
    \/ \E c \in Caller : Prepare(c) \/ ReadRate(c) \/ TakeTicket(c) \/ Send(c) \/ Return(c)
    \/ Refill
    \/ \E r \in Rate : SetBurstRate(r)
    \/ Tick

\* Time passes, a goroutine that can go on does, and Client.tickets serves the
\* callers that wait for it in their order.  Nobody has to call.
Fairness ==
    /\ WF_vars(Tick) /\ WF_vars(Refill)
    /\ \A c \in Caller : WF_vars(ReadRate(c)) /\ SF_vars(TakeTicket(c))

Spec == Init /\ [][Next]_vars

FairSpec == Spec /\ Fairness

-----------------------------------------------------------------------------
\* Every ticket is in the channel or with the one goroutine that brings it back.
\* So that goroutine never waits for room, though callers take tickets, return
\* with errors and change the rate in any order.
TicketsConserved == tickets + Len(refills) = DefaultTickets

\* As long as the last wait is not over, some ticker still has that long to go.
WindowCovered == window > 0 => \E i \in DOMAIN refills : refills[i] >= window

\* With the one ticket of the code, no ticket is taken before the wait that the
\* previous one asked for is over, whatever rates are set in between.
TicketsSpaced == [][tickets' < tickets => window = 0]_vars

\* Nobody waits for a ticket for ever: no return path of doRequest loses one.
TicketServed == \A c \in Caller : call[c] = "ticket" ~> call[c] = "send"

=============================================================================
