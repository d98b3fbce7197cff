-------------------------- MODULE RestClientProofs --------------------------
(***************************************************************************)
(* The theorems about the REST client, for any number of callers, any      *)
(* number of tickets and any burst rates.                                  *)
(***************************************************************************)
EXTENDS RestClient, SequenceTheorems, TLAPS

USE TicketsAssumption, RateAssumption

-----------------------------------------------------------------------------
\* Removing one element of a sequence leaves one less, and all the others.
LEMMA RemoveAtFact ==
    ASSUME NEW S, NEW s \in Seq(S), NEW i \in DOMAIN s
    PROVE  /\ RemoveAt(s, i) \in Seq(S)
           /\ Len(RemoveAt(s, i)) = Len(s) - 1
           /\ \A j \in DOMAIN s \ {i} :
                \E k \in DOMAIN RemoveAt(s, i) : RemoveAt(s, i)[k] = s[j]
  <1> DEFINE l == SubSeq(s, 1, i - 1)
             r == SubSeq(s, i + 1, Len(s))
  <1>1. Len(s) \in Nat /\ DOMAIN s = 1 .. Len(s) /\ i \in 1 .. Len(s)
    OBVIOUS
  <1>2. l \in Seq(S) /\ Len(l) = i - 1 /\ \A j \in 1 .. i - 1 : l[j] = s[j]
    BY <1>1
  <1>3. r \in Seq(S) /\ Len(r) = Len(s) - i /\ \A j \in 1 .. Len(s) - i : r[j] = s[j + i]
    BY <1>1
  <1>4. RemoveAt(s, i) = l \o r
    BY DEF RemoveAt
  <1> HIDE DEF l, r
  <1>5. l \o r \in Seq(S) /\ Len(l \o r) = Len(s) - 1
    <2>1. l \o r \in Seq(S) /\ Len(l \o r) = Len(l) + Len(r)
      BY <1>2, <1>3, ConcatProperties
    <2> QED BY <1>1, <1>2, <1>3, <2>1
  <1>6. ASSUME NEW j \in 1 .. Len(s), j # i PROVE \E k \in DOMAIN (l \o r) : (l \o r)[k] = s[j]
    <2>1. CASE j < i
      <3>1. j \in DOMAIN (l \o r) /\ (l \o r)[j] = l[j]
        BY <1>1, <1>2, <1>3, <1>5, <2>1
      <3> QED BY <1>1, <1>2, <2>1, <3>1
    <2>2. CASE j > i
      <3>1. j - 1 \in DOMAIN (l \o r) /\ j - 1 \in i .. Len(s) - 1 /\ (j - 1) - (i - 1) = j - i
        BY <1>1, <1>5, <2>2
      <3>3. (l \o r)[j - 1] = r[j - i]
        <4>1. \A k \in 1 .. Len(l) + Len(r) :
                (l \o r)[k] = IF k <= Len(l) THEN l[k] ELSE r[k - Len(l)]
          BY <1>2, <1>3, ConcatProperties
        <4>2. j - 1 \in 1 .. Len(l) + Len(r) /\ ~(j - 1 <= Len(l)) /\ (j - 1) - Len(l) = j - i
          BY <1>1, <1>2, <1>3, <3>1
        <4> QED BY <4>1, <4>2
      <3>2. r[j - i] = s[j]
        BY <1>1, <1>3, <2>2
      <3> QED BY <3>1, <3>2, <3>3
    <2> QED BY <1>1, <1>6, <2>1, <2>2
  <1> QED BY <1>1, <1>4, <1>5, <1>6

RestInv == TypeOK /\ TicketsConserved /\ WindowCovered

LEMMA RestInit == Init => RestInv
  BY DEF Init, RestInv, TypeOK, TicketsConserved, WindowCovered, Rate

LEMMA CallStep ==
    ASSUME RestInv, NEW c \in Caller,
           Prepare(c) \/ ReadRate(c) \/ Send(c) \/ Return(c)
    PROVE  RestInv'
  <1>1. UNCHANGED <<burstRate, tickets, refills, window>>
    BY DEF Prepare, ReadRate, Send, Return
  <1>2. call' \in [Caller -> {"idle", "prepared", "ticket", "send", "answer"}]
    BY DEF RestInv, TypeOK, Prepare, ReadRate, Send, Return
  <1>3. br' \in [Caller -> Rate]
    <2>1. br \in [Caller -> Rate] /\ burstRate \in Rate /\ 0 \in Rate
      BY DEF RestInv, TypeOK, Rate
    <2>2. \/ br' = br
          \/ br' = [br EXCEPT ![c] = burstRate]
          \/ br' = [br EXCEPT ![c] = 0]
      BY DEF Prepare, ReadRate, Send, Return
    <2> QED BY <2>1, <2>2
  <1> QED BY <1>1, <1>2, <1>3 DEF RestInv, TypeOK, TicketsConserved, WindowCovered

LEMMA TakeStep == ASSUME RestInv, NEW c \in Caller, TakeTicket(c) PROVE RestInv'
  <1>1. Len(refills) \in Nat /\ DOMAIN refills = 1 .. Len(refills) /\ br[c] \in Rate
    BY DEF RestInv, TypeOK
  <1>2. refills' \in Seq(Rate) /\ Len(refills') = Len(refills) + 1
        /\ refills'[Len(refills) + 1] = br[c]
    BY <1>1 DEF TakeTicket, RestInv, TypeOK
  <1>3. TypeOK'
    BY <1>1, <1>2 DEF TakeTicket, RestInv, TypeOK
  <1>4. TicketsConserved'
    <2>1. /\ tickets \in Nat /\ tickets' = tickets - 1
          /\ Len(refills') = Len(refills) + 1
          /\ tickets + Len(refills) = DefaultTickets
      BY <1>2 DEF TakeTicket, RestInv, TypeOK, TicketsConserved
    <2> QED BY <1>1, <2>1 DEF TicketsConserved
  <1>5. WindowCovered'
    <2>1. Len(refills) + 1 \in DOMAIN refills' /\ window' = br[c]
      BY <1>1, <1>2 DEF TakeTicket
    <2> QED BY <1>1, <1>2, <2>1 DEF WindowCovered, Rate
  <1> QED BY <1>3, <1>4, <1>5 DEF RestInv

LEMMA RefillStep == ASSUME RestInv, Refill PROVE RestInv'
  <1>1. PICK i \in DOMAIN refills : refills[i] = 0 /\ refills' = RemoveAt(refills, i)
    BY DEF Refill
  <1>2. refills' \in Seq(Rate) /\ Len(refills') = Len(refills) - 1
    BY <1>1, RemoveAtFact DEF RestInv, TypeOK
  <1>3. TypeOK' /\ TicketsConserved'
    <2>1. /\ tickets \in Nat /\ tickets < DefaultTickets /\ tickets' = tickets + 1
          /\ UNCHANGED <<burstRate, call, br, window>>
      BY DEF Refill, RestInv, TypeOK
    <2>2. tickets' \in 0 .. DefaultTickets
      BY <2>1
    <2>3. Len(refills) \in Nat /\ tickets + Len(refills) = DefaultTickets
      BY DEF RestInv, TypeOK, TicketsConserved
    <2>4. TypeOK'
      BY <1>2, <2>1, <2>2 DEF RestInv, TypeOK
    <2>5. TicketsConserved'
      BY <1>2, <2>1, <2>3 DEF TicketsConserved
    <2> QED BY <2>4, <2>5
  <1>4. ASSUME window' > 0 PROVE \E k \in DOMAIN refills' : refills'[k] >= window'
    <2>1. window' = window
      BY DEF Refill
    <2>2. PICK j \in DOMAIN refills : refills[j] >= window
      BY <1>4, <2>1 DEF RestInv, WindowCovered
    <2>3. j # i
      BY <1>1, <1>4, <2>1, <2>2 DEF RestInv, TypeOK, Rate
    <2>4. \E k \in DOMAIN refills' : refills'[k] = refills[j]
      BY <1>1, <2>3, RemoveAtFact DEF RestInv, TypeOK
    <2> QED BY <2>1, <2>2, <2>4
  <1> QED BY <1>3, <1>4 DEF RestInv, WindowCovered

LEMMA TickStep == ASSUME RestInv, Tick PROVE RestInv'
  <1>1. \A t \in Rate : Less(t) \in Rate
    BY DEF Less, Rate
  <1>2. Len(refills) \in Nat /\ DOMAIN refills = 1 .. Len(refills)
        /\ \A i \in DOMAIN refills : refills[i] \in Rate
    BY DEF RestInv, TypeOK
  <1>3. refills' = [i \in 1 .. Len(refills) |-> Less(refills[i])]
    BY <1>2 DEF Tick
  <1>4. refills' \in Seq(Rate) /\ Len(refills') = Len(refills) /\ DOMAIN refills' = DOMAIN refills
    BY <1>1, <1>2, <1>3
  <1>5. TypeOK' /\ TicketsConserved'
    BY <1>1, <1>4 DEF Tick, RestInv, TypeOK, TicketsConserved
  <1>6. ASSUME window' > 0 PROVE \E k \in DOMAIN refills' : refills'[k] >= window'
    <2>1. window \in Nat /\ window > 0 /\ window' = window - 1
      BY <1>6 DEF Tick, Less, RestInv, TypeOK, Rate
    <2>2. PICK j \in DOMAIN refills : refills[j] >= window
      BY <2>1 DEF RestInv, WindowCovered
    <2>3. refills[j] \in Nat /\ refills'[j] = refills[j] - 1
      BY <1>2, <1>3, <2>1, <2>2 DEF Less, Rate
    <2> QED BY <1>4, <2>1, <2>2, <2>3
  <1> QED BY <1>5, <1>6 DEF RestInv, WindowCovered

LEMMA RestStep == RestInv /\ [Next]_vars => RestInv'
  <1> SUFFICES ASSUME RestInv, [Next]_vars PROVE RestInv'
    OBVIOUS
  <1>1. ASSUME NEW r \in Rate, SetBurstRate(r) PROVE RestInv'
    BY <1>1 DEF SetBurstRate, RestInv, TypeOK, TicketsConserved, WindowCovered
  <1>2. CASE UNCHANGED vars
    BY <1>2 DEF vars, RestInv, TypeOK, TicketsConserved, WindowCovered
  <1> QED BY <1>1, <1>2, CallStep, TakeStep, RefillStep, TickStep DEF Next

\* Every variable keeps its type, and no ticket is lost or made up.
THEOREM TicketsAreConserved == Spec => [](TypeOK /\ TicketsConserved)
  <1>1. RestInv => TypeOK /\ TicketsConserved
    BY DEF RestInv
  <1> QED BY <1>1, RestInit, RestStep, PTL DEF Spec

\* Types are kept for any number of callers, tickets and rates: tickets never
\* exceeds the capacity of its channel.
THEOREM TypeCorrect == Spec => []TypeOK
  BY TicketsAreConserved, PTL

\* The burst rate: with one ticket, whoever takes it finds the last wait over.
THEOREM TicketsAreSpaced == ASSUME DefaultTickets = 1 PROVE Spec => TicketsSpaced
  <1>1. RestInv /\ [Next]_vars => [tickets' < tickets => window = 0]_vars
    <2> SUFFICES ASSUME RestInv, [Next]_vars, tickets' < tickets PROVE window = 0
      OBVIOUS
    <2>1. tickets > 0
      BY DEF RestInv, TypeOK, Next, Prepare, ReadRate, TakeTicket, Send, Return, Refill,
             SetBurstRate, Tick, vars
    <2>2. Len(refills) = 0
      BY <2>1 DEF RestInv, TypeOK, TicketsConserved
    <2> QED BY <2>2 DEF RestInv, TypeOK, WindowCovered, Rate
  <1> QED BY <1>1, RestInit, RestStep, PTL DEF Spec, TicketsSpaced

=============================================================================
