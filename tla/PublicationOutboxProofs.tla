------------------------ MODULE PublicationOutboxProofs ------------------------
(***************************************************************************)
(* The safety of the outbox for any number of connections, effects,        *)
(* dispatchers, lapses, errors and stops; and what PackCleanupProofs       *)
(* proves of a generated pack, for the packs of MCOutboxAndPacks.          *)
(***************************************************************************)
EXTENDS MCOutboxAndPacks, FiniteSetTheorems, TLAPS

\* the dispatchers whose call may still send a message for r, or reopen r
Open(r) == {w \in Dispatcher : call[w][r] \in {"claimed", "error"}}

\* 1 when a row in this state can be claimed without a further lapse
Again(d) == IF d.state = "pending" \/ (d.state = "dispatching" /\ ~d.live) THEN 1 ELSE 0

\* messages sent, messages that may be sent by calls under way, and one more
\* when the row can be claimed again, are paid for by the first message and
\* the doubts
Counted ==
  \A r \in Row : received[r] + Cardinality(Open(r)) + Again(row[r]) <= 1 + doubtful[r]

\* what a dispatcher has in hand is true of the provider and the connection
Answered ==
  \A r \in Row : /\ r \notin wanted => r \in withdrawn
                 /\ \A w \in Dispatcher : /\ call[w][r] = "accepted" => received[r] > 0
                                          /\ call[w][r] = "settled" => r \in withdrawn

OInv == TypeOK /\ Answered /\ NothingLost /\ SummaryFaithful /\ Counted

-----------------------------------------------------------------------------
\* What the statements write are rows.
LEMMA Rows ==
  /\ \A due \in BOOLEAN : Pending(due) \in Delivery
  /\ \A w \in Dispatcher : Leased(w) \in Delivery
  /\ \A s \in {"delivered", "gone"} : Completed(s) \in Delivery
  BY DEF Pending, Leased, Completed, Delivery

\* The open calls of a row are finitely many.
LEMMA OpenFinite ==
  ASSUME NEW r PROVE IsFiniteSet(Open(r)) /\ Cardinality(Open(r)) \in Nat
  <1>1. IsFiniteSet(Dispatcher) /\ Open(r) \subseteq Dispatcher
    BY OutboxAssumption DEF Open
  <1>q. QED BY <1>1, FS_Subset, FS_CardinalityType

\* a row keeps its count when its open calls do not grow
LEMMA OpenShrinks ==
  ASSUME NEW r, Open(r)' \subseteq Open(r)
  PROVE  Cardinality(Open(r)') \in Nat /\ Cardinality(Open(r)') <= Cardinality(Open(r))
  <1>1. IsFiniteSet(Open(r)) /\ Cardinality(Open(r)) \in Nat
    BY OpenFinite
  <1>2. IsFiniteSet(Open(r)') /\ Cardinality(Open(r)') <= Cardinality(Open(r))
    BY <1>1, FS_Subset
  <1>q. QED BY <1>2, FS_CardinalityType

\* One call changes: the open calls of the other rows stay, its own row gains
\* or loses one.
LEMMA OneCall ==
  ASSUME TypeOK, NEW w \in Dispatcher, NEW r \in Row, NEW s \in Step,
         call' = [call EXCEPT ![w][r] = s]
  PROVE  /\ call' \in [Dispatcher -> [Row -> Step]]
         /\ call'[w][r] = s
         /\ \A v \in Dispatcher, t \in Row : v # w \/ t # r => call'[v][t] = call[v][t]
         /\ \A t \in Row : t # r => Open(t)' = Open(t)
         /\ Open(r)' = IF s \in {"claimed", "error"} THEN Open(r) \union {w}
                                                     ELSE Open(r) \ {w}
  <1>1. /\ call' \in [Dispatcher -> [Row -> Step]]
        /\ call'[w][r] = s
        /\ \A v \in Dispatcher, t \in Row : v # w \/ t # r => call'[v][t] = call[v][t]
    BY DEF TypeOK
  <1>2. \A t \in Row : t # r => Open(t)' = Open(t)
    BY <1>1 DEF Open
  <1>3. Open(r)' = IF s \in {"claimed", "error"} THEN Open(r) \union {w}
                                                 ELSE Open(r) \ {w}
    BY <1>1 DEF Open
  <1>q. QED BY <1>1, <1>2, <1>3

\* How many open calls the changed row has.
LEMMA OneOpens ==
  ASSUME TypeOK, NEW w \in Dispatcher, NEW r \in Row, NEW s \in Step,
         call' = [call EXCEPT ![w][r] = s]
  PROVE  /\ Cardinality(Open(r)') \in Nat
         /\ Cardinality(Open(r)') <= Cardinality(Open(r)) + 1
         /\ s \notin {"claimed", "error"} \/ call[w][r] \in {"claimed", "error"} =>
              Cardinality(Open(r)') <= Cardinality(Open(r))
         /\ s \notin {"claimed", "error"} /\ call[w][r] \in {"claimed", "error"} =>
              Cardinality(Open(r)') = Cardinality(Open(r)) - 1
  <1>1. IsFiniteSet(Open(r)) /\ Cardinality(Open(r)) \in Nat
    BY OpenFinite
  <1>2. w \in Open(r) <=> call[w][r] \in {"claimed", "error"}
    BY DEF Open
  <1>3. Open(r)' = IF s \in {"claimed", "error"} THEN Open(r) \union {w}
                                                 ELSE Open(r) \ {w}
    BY OneCall
  <1>4. CASE s \in {"claimed", "error"}
    <2>1. Open(r)' = Open(r) \union {w}
      BY <1>3, <1>4
    <2>2. Cardinality(Open(r)') = IF w \in Open(r) THEN Cardinality(Open(r))
                                                   ELSE Cardinality(Open(r)) + 1
      BY <1>1, <2>1, FS_AddElement
    <2>q. QED BY <1>1, <1>2, <1>4, <2>2
  <1>5. CASE s \notin {"claimed", "error"}
    <2>1. Open(r)' = Open(r) \ {w}
      BY <1>3, <1>5
    <2>2. Cardinality(Open(r)') = IF w \in Open(r) THEN Cardinality(Open(r)) - 1
                                                   ELSE Cardinality(Open(r))
      BY <1>1, <2>1, FS_RemoveElement
    <2>3. Cardinality(Open(r)') \in Nat
      BY <1>1, <2>1, FS_RemoveElement, FS_CardinalityType
    <2>q. QED BY <1>1, <1>2, <1>5, <2>2, <2>3
  <1>q. QED BY <1>4, <1>5
-----------------------------------------------------------------------------
\* nothing but r and its history changes
Elsewhere(r) ==
  /\ parent' \in {"pending", "dispatched"} /\ busy' = busy
  /\ wanted' = wanted /\ withdrawn' = withdrawn
  /\ received' \in [Row -> Nat] /\ doubtful' \in [Row -> Nat]
  /\ \A t \in Row : t # r => received'[t] = received[t] /\ doubtful'[t] = doubtful[t]
  /\ received'[r] >= received[r]
  /\ lapses' \in 0..MaxLapses /\ errors' \in 0..MaxErrors /\ stops' \in 0..MaxStops

\* what is in hand, and what is recorded of r, is true
True(r, s, d) ==
  /\ s = "accepted" => received'[r] > 0
  /\ s = "settled" => r \in withdrawn
  /\ d.reason = "delivered" => received'[r] > 0
  /\ d.reason = "gone" => r \in withdrawn

\* The step of one row and one call preserves the invariant when the written
\* row, the answer in hand and the count of that row do.
LEMMA OneStep ==
  ASSUME OInv, NEW w \in Dispatcher, NEW r \in Row, NEW d \in Delivery, NEW s \in Step,
         row' = [row EXCEPT ![r] = d], call' = [call EXCEPT ![w][r] = s],
         Elsewhere(r),
         True(r, s, d), SummaryFaithful',
         received'[r] + Cardinality(Open(r)') + Again(d) <= 1 + doubtful'[r]
  PROVE  OInv'
  <1>1. row' \in [Row -> Delivery] /\ row'[r] = d /\ \A t \in Row : t # r => row'[t] = row[t]
    BY DEF OInv, TypeOK
  <1>2. /\ call' \in [Dispatcher -> [Row -> Step]]
        /\ call'[w][r] = s
        /\ \A v \in Dispatcher, t \in Row : v # w \/ t # r => call'[v][t] = call[v][t]
        /\ \A t \in Row : t # r => Open(t)' = Open(t)
        /\ Open(r)' = IF s \in {"claimed", "error"} THEN Open(r) \union {w}
                                                    ELSE Open(r) \ {w}
    <2>1. TypeOK
      BY DEF OInv
    <2>q. QED BY <2>1, OneCall
  <1>3. received \in [Row -> Nat] /\ doubtful \in [Row -> Nat]
    BY DEF OInv, TypeOK
  <1>4. TypeOK'
    BY <1>1, <1>2 DEF OInv, TypeOK, Elsewhere
  <1>5. Answered'
    BY <1>2, <1>3 DEF OInv, Answered, Elsewhere, True
  <1>6. NothingLost'
    BY <1>1, <1>3 DEF OInv, NothingLost, Elsewhere, True
  <1>7. Counted'
    <2> SUFFICES ASSUME NEW t \in Row
                 PROVE  received'[t] + Cardinality(Open(t)') + Again(row'[t]) <= 1 + doubtful'[t]
      BY DEF Counted, Again
    <2>1. CASE t = r
      BY <2>1, <1>1
    <2>2. CASE t # r
      <3>1. received[t] + Cardinality(Open(t)) + Again(row[t]) <= 1 + doubtful[t]
        BY DEF OInv, Counted
      <3>q. QED BY <3>1, <2>2, <1>1, <1>2 DEF Elsewhere
    <2>q. QED BY <2>1, <2>2
  <1>q. QED BY <1>4, <1>5, <1>6, <1>7 DEF OInv

\* The summary stays faithful when completed rows stay and it is left alone ...
LEMMA SummaryKept ==
  ASSUME SummaryFaithful, CompletedStands, parent' = parent PROVE SummaryFaithful'
  BY DEF SummaryFaithful, CompletedStands, Row

\* ... or computed anew.
LEMMA SummaryComputed ==
  ASSUME parent' = Summary(row') PROVE SummaryFaithful' /\ parent' \in {"pending", "dispatched"}
  BY DEF SummaryFaithful, Summary
-----------------------------------------------------------------------------
(* One lemma per action that changes a row or a call.                      *)

\* A claim opens a call and uses up the right to claim.
LEMMA ClaimStep ==
  ASSUME OInv, NEW w \in Dispatcher, NEW r \in Row, ClaimDelivery(w, r)
  PROVE  OInv' /\ CompletedStands
  <1>1. TypeOK /\ SummaryFaithful /\ call[w][r] = "listed" /\ parent' = parent
    BY DEF OInv, ClaimDelivery
  <1>2. /\ received[r] \in Nat /\ doubtful[r] \in Nat /\ row[r] \in Delivery
        /\ received[r] + Cardinality(Open(r)) + Again(row[r]) <= 1 + doubtful[r]
    BY DEF OInv, TypeOK, Counted
  <1>3. Cardinality(Open(r)) \in Nat
    BY OpenFinite
  <1>4. /\ received' = received /\ doubtful' = doubtful /\ busy' = busy /\ wanted' = wanted
        /\ withdrawn' = withdrawn /\ lapses' = lapses /\ errors' = errors /\ stops' = stops
    BY DEF ClaimDelivery, history, budget
  <1>5. CASE Claimable(r)
    <2>1. row' = [row EXCEPT ![r] = Leased(w)] /\ call' = [call EXCEPT ![w][r] = "claimed"]
      BY <1>5 DEF ClaimDelivery
    <2>2. Leased(w) \in Delivery /\ "claimed" \in Step
      BY Rows DEF Step
    <2>3. CompletedStands
      BY <1>1, <1>5, <2>1 DEF CompletedStands, Claimable, TypeOK
    <2>4. SummaryFaithful'
      BY <1>1, <2>3, SummaryKept
    <2>5. Again(row[r]) = 1 /\ Again(Leased(w)) = 0 /\ Leased(w).reason = "none"
      BY <1>5 DEF Again, Claimable, Leased
    <2>6. /\ Cardinality(Open(r)') \in Nat
          /\ Cardinality(Open(r)') <= Cardinality(Open(r)) + 1
      BY <1>1, <2>1, <2>2, OneOpens
    <2>7. received'[r] + Cardinality(Open(r)') + Again(Leased(w)) <= 1 + doubtful'[r]
      BY <1>2, <1>3, <1>4, <2>5, <2>6
    <2>8. Elsewhere(r) /\ True(r, "claimed", Leased(w))
      BY <1>1, <1>2, <1>4, <2>5 DEF TypeOK, Elsewhere, True
    <2>q. QED BY <2>1, <2>2, <2>3, <2>4, <2>7, <2>8, OneStep
  <1>6. CASE ~Claimable(r)
    <2>1. row' = [row EXCEPT ![r] = row[r]] /\ call' = [call EXCEPT ![w][r] = "none"]
      BY <1>1, <1>6 DEF ClaimDelivery, TypeOK
    <2>2. "none" \in Step /\ "none" \notin {"claimed", "error"}
      BY DEF Step
    <2>3. CompletedStands
      BY <1>1, <2>1 DEF CompletedStands, TypeOK
    <2>4. SummaryFaithful'
      BY <1>1, <2>3, SummaryKept
    <2>5. /\ Cardinality(Open(r)') \in Nat
          /\ Cardinality(Open(r)') <= Cardinality(Open(r))
      BY <1>1, <2>1, <2>2, OneOpens
    <2>6. Again(row[r]) \in Nat
      BY DEF Again
    <2>7. received'[r] + Cardinality(Open(r)') + Again(row[r]) <= 1 + doubtful'[r]
      BY <1>2, <1>3, <1>4, <2>5, <2>6
    <2>8. Elsewhere(r) /\ True(r, "none", row[r])
      BY <1>1, <1>2, <1>4 DEF OInv, NothingLost, TypeOK, Elsewhere, True
    <2>q. QED BY <1>2, <2>1, <2>2, <2>3, <2>4, <2>7, <2>8, OneStep
  <1>q. QED BY <1>5, <1>6
\* A call that leaves its row alone: the three outcomes of a provider call.
LEMMA CallStep ==
  ASSUME OInv, NEW w \in Dispatcher, NEW r \in Row, NEW s \in Step,
         call[w][r] = "claimed", row' = row, parent' = parent,
         call' = [call EXCEPT ![w][r] = s],
         Elsewhere(r), True(r, s, row[r]),
         \/ s = "error" /\ received'[r] = received[r] /\ doubtful'[r] = doubtful[r]
         \/ s = "error" /\ received'[r] = received[r] + 1 /\ doubtful'[r] = doubtful[r] + 1
         \/ s \in {"accepted", "settled"} /\ received'[r] <= received[r] + 1
              /\ doubtful'[r] = doubtful[r]
  PROVE  OInv' /\ CompletedStands
  <1>1. TypeOK /\ SummaryFaithful /\ row' = [row EXCEPT ![r] = row[r]]
    BY DEF OInv, TypeOK
  <1>2. /\ received[r] \in Nat /\ doubtful[r] \in Nat /\ row[r] \in Delivery
        /\ received'[r] \in Nat /\ doubtful'[r] \in Nat
        /\ received[r] + Cardinality(Open(r)) + Again(row[r]) <= 1 + doubtful[r]
    BY DEF OInv, TypeOK, Counted, Elsewhere
  <1>3. Cardinality(Open(r)) \in Nat /\ Again(row[r]) \in Nat
    BY OpenFinite DEF Again
  <1>4. CompletedStands
    BY DEF CompletedStands
  <1>5. SummaryFaithful'
    BY <1>1, <1>4, SummaryKept
  <1>6. /\ Cardinality(Open(r)') \in Nat
        /\ s = "error" => Cardinality(Open(r)') <= Cardinality(Open(r))
        /\ s \in {"accepted", "settled"} => Cardinality(Open(r)') = Cardinality(Open(r)) - 1
    BY <1>1, OneOpens
  <1>7. received'[r] + Cardinality(Open(r)') + Again(row[r]) <= 1 + doubtful'[r]
    BY <1>2, <1>3, <1>6
  <1>q. QED BY <1>1, <1>2, <1>4, <1>5, <1>7, OneStep

\* An accepted message: one received more, one open call fewer.
LEMMA DeliverStep ==
  ASSUME OInv, NEW w \in Dispatcher, NEW r \in Row, Deliver(w, r)
  PROVE  OInv' /\ CompletedStands
  <1>1. /\ call[w][r] = "claimed" /\ row' = row /\ parent' = parent
        /\ call' = [call EXCEPT ![w][r] = "accepted"] /\ "accepted" \in Step
    BY DEF Deliver, Step
  <1>2. Elsewhere(r) /\ received'[r] = received[r] + 1 /\ doubtful'[r] = doubtful[r]
    BY DEF Deliver, budget, OInv, TypeOK, Elsewhere
  <1>3. received[r] \in Nat
    BY DEF OInv, TypeOK
  <1>4. True(r, "accepted", row[r])
    BY <1>2, <1>3 DEF True, OInv, NothingLost
  <1>5. "accepted" \in {"accepted", "settled"} /\ received'[r] <= received[r] + 1
          /\ doubtful'[r] = doubtful[r]
    BY <1>2, <1>3
  <1>q. QED BY <1>1, <1>2, <1>4, <1>5, CallStep

\* A row that is not wanted is settled without a message.
LEMMA SettleStep ==
  ASSUME OInv, NEW w \in Dispatcher, NEW r \in Row, Settle(w, r)
  PROVE  OInv' /\ CompletedStands
  <1>1. /\ call[w][r] = "claimed" /\ row' = row /\ parent' = parent
        /\ call' = [call EXCEPT ![w][r] = "settled"] /\ "settled" \in Step
    BY DEF Settle, Step
  <1>2. Elsewhere(r) /\ received'[r] = received[r] /\ doubtful'[r] = doubtful[r]
    BY DEF Settle, budget, history, OInv, TypeOK, Elsewhere
  <1>3. received[r] \in Nat
    BY DEF OInv, TypeOK
  <1>4. True(r, "settled", row[r])
    BY <1>2 DEF True, OInv, NothingLost, Answered, Settle
  <1>5. "settled" \in {"accepted", "settled"} /\ received'[r] <= received[r] + 1
          /\ doubtful'[r] = doubtful[r]
    BY <1>2, <1>3
  <1>q. QED BY <1>1, <1>2, <1>4, <1>5, CallStep

\* An error keeps the call open; an acceptance behind it is a doubt.
LEMMA ErrorStep ==
  ASSUME OInv, NEW w \in Dispatcher, NEW r \in Row, NEW accepted \in BOOLEAN,
         DeliverError(w, r, accepted)
  PROVE  OInv' /\ CompletedStands
  <1>1. /\ call[w][r] = "claimed" /\ row' = row /\ parent' = parent
        /\ call' = [call EXCEPT ![w][r] = "error"] /\ "error" \in Step
    BY DEF DeliverError, Step
  <1>2. /\ busy' = busy /\ wanted' = wanted /\ withdrawn' = withdrawn
        /\ parent' \in {"pending", "dispatched"}
        /\ lapses' \in 0..MaxLapses /\ errors' \in 0..MaxErrors /\ stops' \in 0..MaxStops
    BY OutboxAssumption DEF DeliverError, OInv, TypeOK
  <1>3. /\ received' \in [Row -> Nat] /\ doubtful' \in [Row -> Nat]
        /\ \A t \in Row : t # r => received'[t] = received[t] /\ doubtful'[t] = doubtful[t]
        /\ \/ received'[r] = received[r] /\ doubtful'[r] = doubtful[r]
           \/ received'[r] = received[r] + 1 /\ doubtful'[r] = doubtful[r] + 1
    BY DEF DeliverError, OInv, TypeOK
  <1>4. received[r] \in Nat
    BY DEF OInv, TypeOK
  <1>5. Elsewhere(r)
    BY <1>2, <1>3, <1>4 DEF Elsewhere
  <1>6. True(r, "error", row[r])
    BY <1>3, <1>4 DEF True, OInv, NothingLost
  <1>q. QED BY <1>1, <1>3, <1>5, <1>6, CallStep

\* The answer is recorded by the owner of the row or by nobody.
LEMMA RecordStep ==
  ASSUME OInv, NEW w \in Dispatcher, NEW r \in Row, RecordAnswer(w, r)
  PROVE  OInv' /\ CompletedStands
  <1>1. TypeOK /\ SummaryFaithful
    BY DEF OInv
  <1>2. call' = [call EXCEPT ![w][r] = "none"] /\ "none" \in Step
    BY DEF RecordAnswer, Step
  <1>3. /\ received' = received /\ doubtful' = doubtful /\ busy' = busy /\ wanted' = wanted
        /\ withdrawn' = withdrawn /\ lapses' = lapses /\ errors' = errors /\ stops' = stops
    BY DEF RecordAnswer, history, budget
  <1>4. PICK d : /\ Recorded(w, r, d)
                 /\ \/ call[w][r] = "accepted" /\ d = Completed("delivered")
                    \/ call[w][r] = "settled" /\ d = Completed("gone")
                    \/ call[w][r] = "error" /\ d = Pending(FALSE)
    BY DEF RecordAnswer
  <1>5. d \in Delivery /\ row[r] \in Delivery
    BY <1>1, <1>4, Rows DEF TypeOK
  <1> DEFINE e == IF Owns(w, r) THEN d ELSE row[r]
  <1>6. row' = [row EXCEPT ![r] = e] /\ e \in Delivery
    BY <1>1, <1>4, <1>5 DEF Recorded, TypeOK
  <1>7. CompletedStands
    BY <1>1, <1>6 DEF CompletedStands, Owns, TypeOK
  <1>8. SummaryFaithful' /\ parent' \in {"pending", "dispatched"}
    <2>1. CASE Owns(w, r) /\ r \in Connection
      BY <1>4, <2>1, SummaryComputed DEF Recorded
    <2>2. CASE ~(Owns(w, r) /\ r \in Connection)
      <3>1. parent' = parent
        BY <1>4, <2>2 DEF Recorded
      <3>q. QED BY <3>1, <1>1, <1>7, SummaryKept DEF TypeOK
    <2>q. QED BY <2>1, <2>2
  <1>9. Elsewhere(r)
    BY <1>1, <1>3, <1>8 DEF Elsewhere, TypeOK
  <1>10. True(r, "none", e)
    BY <1>3, <1>4 DEF True, OInv, NothingLost, Answered, Completed, Pending
  <1>11. received'[r] + Cardinality(Open(r)') + Again(e) <= 1 + doubtful'[r]
    <2>1. /\ received[r] \in Nat /\ doubtful[r] \in Nat
          /\ received[r] + Cardinality(Open(r)) + Again(row[r]) <= 1 + doubtful[r]
      BY DEF OInv, TypeOK, Counted
    <2>2. Cardinality(Open(r)) \in Nat /\ Again(row[r]) \in Nat
      BY OpenFinite DEF Again
    <2>3. /\ Cardinality(Open(r)') \in Nat /\ Cardinality(Open(r)') <= Cardinality(Open(r))
          /\ call[w][r] = "error" => Cardinality(Open(r)') = Cardinality(Open(r)) - 1
      BY <1>1, <1>2, OneOpens
    <2>4. /\ Again(d) \in {0, 1}
          /\ call[w][r] # "error" => Again(d) = 0
      BY <1>4 DEF Again, Completed, Pending
    <2>q. QED BY <1>3, <2>1, <2>2, <2>3, <2>4
  <1>q. QED BY <1>2, <1>6, <1>7, <1>8, <1>9, <1>10, <1>11, OneStep
-----------------------------------------------------------------------------
(* Rows that change with no call, and calls that are listed or dropped.    *)

\* A row that is not completed changes, no call does; it may become claimable
\* again only at the price of a doubt.
LEMMA RowStep ==
  ASSUME OInv, NEW r \in Row, NEW d \in Delivery,
         row[r].state # "completed", d.reason = row[r].reason,
         row' = [row EXCEPT ![r] = d], parent' = parent, call' = call,
         Elsewhere(r), received' = received,
         Again(d) - Again(row[r]) <= doubtful'[r] - doubtful[r]
  PROVE  OInv' /\ CompletedStands
  <1>1. row' \in [Row -> Delivery] /\ row'[r] = d /\ \A t \in Row : t # r => row'[t] = row[t]
    BY DEF OInv, TypeOK
  <1>2. CompletedStands
    BY <1>1 DEF CompletedStands
  <1>3. SummaryFaithful'
    BY <1>2, SummaryKept DEF OInv
  <1>4. TypeOK'
    BY <1>1 DEF OInv, TypeOK, Elsewhere
  <1>5. Answered'
    BY DEF OInv, Answered, Elsewhere
  <1>6. NothingLost'
    BY <1>1 DEF OInv, NothingLost, Elsewhere
  <1>7. Counted'
    <2> SUFFICES ASSUME NEW t \in Row
                 PROVE  received'[t] + Cardinality(Open(t)') + Again(row'[t]) <= 1 + doubtful'[t]
      BY DEF Counted, Again
    <2>1. /\ received[t] + Cardinality(Open(t)) + Again(row[t]) <= 1 + doubtful[t]
          /\ received[t] \in Nat /\ doubtful[t] \in Nat /\ doubtful'[t] \in Nat
      BY DEF OInv, Counted, TypeOK, Elsewhere
    <2>2. Cardinality(Open(t)) \in Nat /\ Open(t)' = Open(t)
      BY OpenFinite DEF Open
    <2>3. Again(row[t]) \in Nat /\ Again(row'[t]) \in Nat
      BY DEF Again
    <2>4. CASE t = r
      BY <1>1, <2>1, <2>2, <2>3, <2>4
    <2>5. CASE t # r
      BY <1>1, <2>1, <2>2, <2>3, <2>5 DEF Elsewhere
    <2>q. QED BY <2>4, <2>5
  <1>q. QED BY <1>2, <1>3, <1>4, <1>5, <1>6, <1>7 DEF OInv

\* The ends of a backoff and of a lease.
LEMMA ClockStep ==
  ASSUME OInv, NEW r \in Row, BackoffOver(r) \/ LeaseLapses(r) \/ OrphanLapses(r)
  PROVE  OInv' /\ CompletedStands
  <1>1. row[r] \in Delivery /\ received[r] \in Nat /\ doubtful[r] \in Nat
    BY DEF OInv, TypeOK
  <1>2. CASE BackoffOver(r)
    <2> DEFINE d == [row[r] EXCEPT !.due = TRUE]
    <2>1. d \in Delivery /\ d.reason = row[r].reason
      BY <1>1 DEF Delivery
    <2>2. Again(d) = 1 /\ Again(row[r]) = 1
      BY <1>1, <1>2 DEF Again, BackoffOver, Delivery
    <2>3. Elsewhere(r) /\ received' = received /\ doubtful'[r] = doubtful[r]
      BY <1>1, <1>2 DEF BackoffOver, history, calls, budget, Elsewhere, OInv, TypeOK
    <2>4. /\ row[r].state # "completed" /\ parent' = parent /\ call' = call
          /\ row' = [row EXCEPT ![r] = d]
      BY <1>2 DEF BackoffOver, calls
    <2>5. Again(d) - Again(row[r]) <= doubtful'[r] - doubtful[r]
      BY <1>1, <2>2, <2>3
    <2>q. QED BY <2>1, <2>3, <2>4, <2>5, RowStep
  <1>3. CASE LeaseLapses(r) \/ OrphanLapses(r)
    <2> DEFINE d == [row[r] EXCEPT !.live = FALSE]
    <2>1. d \in Delivery /\ d.reason = row[r].reason
      BY <1>1 DEF Delivery
    <2>2. Again(d) = 1 /\ Again(row[r]) = 0
      BY <1>1, <1>3 DEF Again, LeaseLapses, OrphanLapses, Delivery
    <2>3. doubtful' = [doubtful EXCEPT ![r] = @ + 1]
      BY <1>3 DEF LeaseLapses, OrphanLapses
    <2>4. doubtful' \in [Row -> Nat] /\ doubtful'[r] = doubtful[r] + 1
      BY <2>3 DEF OInv, TypeOK
    <2>5. lapses' \in 0..MaxLapses
      BY <1>3, OutboxAssumption DEF LeaseLapses, OrphanLapses, budget, OInv, TypeOK
    <2>6. Elsewhere(r) /\ received' = received
      BY <1>1, <1>3, <2>3, <2>4, <2>5
         DEF LeaseLapses, OrphanLapses, calls, budget, Elsewhere, OInv, TypeOK
    <2>7. /\ row[r].state # "completed" /\ parent' = parent /\ call' = call
          /\ row' = [row EXCEPT ![r] = d]
      BY <1>3 DEF LeaseLapses, OrphanLapses, calls
    <2>8. Again(d) - Again(row[r]) <= doubtful'[r] - doubtful[r]
      BY <1>1, <2>2, <2>4
    <2>q. QED BY <2>1, <2>6, <2>7, <2>8, RowStep
  <1>q. QED BY <1>2, <1>3

\* Calls are listed or dropped, no row changes.
LEMMA ListStep ==
  ASSUME OInv, row' = row, SummaryFaithful', parent' \in {"pending", "dispatched"},
         call' \in [Dispatcher -> [Row -> Step]], busy' \subseteq Dispatcher,
         \A w \in Dispatcher, r \in Row : call'[w][r] \in {call[w][r], "listed", "none"},
         wanted' = wanted, received' = received, withdrawn' = withdrawn,
         doubtful' = doubtful, lapses' = lapses, errors' = errors, stops' \in 0..MaxStops
  PROVE  OInv' /\ CompletedStands
  <1>1. TypeOK'
    BY DEF OInv, TypeOK
  <1>2. Answered'
    BY DEF OInv, Answered
  <1>3. NothingLost'
    BY DEF OInv, NothingLost
  <1>4. Counted'
    <2> SUFFICES ASSUME NEW t \in Row
                 PROVE  received'[t] + Cardinality(Open(t)') + Again(row'[t]) <= 1 + doubtful'[t]
      BY DEF Counted, Again
    <2>1. /\ received[t] + Cardinality(Open(t)) + Again(row[t]) <= 1 + doubtful[t]
          /\ received[t] \in Nat /\ doubtful[t] \in Nat
      BY DEF OInv, Counted, TypeOK
    <2>2. Open(t)' \subseteq Open(t)
      BY DEF Open
    <2>3. Cardinality(Open(t)) \in Nat
      BY OpenFinite
    <2>4. Cardinality(Open(t)') \in Nat /\ Cardinality(Open(t)') <= Cardinality(Open(t))
      BY <2>2, OpenShrinks
    <2>5. Again(row[t]) \in Nat
      BY DEF Again
    <2>q. QED BY <2>1, <2>3, <2>4, <2>5
  <1>q. QED BY <1>1, <1>2, <1>3, <1>4 DEF OInv, CompletedStands

\* The begin and the end of a gather compute the summary anew.
LEMMA DispatchStep ==
  ASSUME OInv, NEW w \in Dispatcher, StartDispatch(w) \/ EndDispatch(w)
  PROVE  OInv' /\ CompletedStands
  <1>1. /\ row' = row /\ parent' = Summary(row') /\ wanted' = wanted /\ received' = received
        /\ withdrawn' = withdrawn /\ doubtful' = doubtful /\ lapses' = lapses
        /\ errors' = errors /\ stops' = stops
    BY DEF StartDispatch, EndDispatch, history, budget
  <1>2. SummaryFaithful' /\ parent' \in {"pending", "dispatched"}
    BY <1>1, SummaryComputed
  <1>3. busy' \subseteq Dispatcher /\ stops' \in 0..MaxStops
    BY <1>1 DEF StartDispatch, EndDispatch, OInv, TypeOK
  <1>4. /\ call' \in [Dispatcher -> [Row -> Step]]
        /\ \A v \in Dispatcher, r \in Row : call'[v][r] \in {call[v][r], "listed", "none"}
    BY DEF StartDispatch, EndDispatch, OInv, TypeOK, Step
  <1>q. QED BY <1>1, <1>2, <1>3, <1>4, ListStep

\* A cancellation or a crash drops calls.
LEMMA StopStep ==
  ASSUME OInv, NEW ws, Stop(ws) PROVE OInv' /\ CompletedStands
  <1>1. /\ row' = row /\ parent' = parent /\ wanted' = wanted /\ received' = received
        /\ withdrawn' = withdrawn /\ doubtful' = doubtful /\ lapses' = lapses
        /\ errors' = errors /\ busy' \subseteq Dispatcher
    BY DEF Stop, history, OInv, TypeOK
  <1>2. CompletedStands
    BY <1>1 DEF CompletedStands
  <1>3. SummaryFaithful' /\ parent' \in {"pending", "dispatched"}
    BY <1>1, <1>2, SummaryKept DEF OInv, TypeOK
  <1>4. stops' \in 0..MaxStops
    BY OutboxAssumption DEF Stop, OInv, TypeOK
  <1>5. /\ call' \in [Dispatcher -> [Row -> Step]]
        /\ \A v \in Dispatcher, r \in Row : call'[v][r] \in {call[v][r], "listed", "none"}
    BY DEF Stop, OInv, TypeOK, Step, NoCall
  <1>q. QED BY <1>1, <1>3, <1>4, <1>5, ListStep

\* An operator changes what is wanted.
LEMMA OperatorStep ==
  ASSUME OInv, NEW r \in Row, Withdraw(r) \/ Reinstate(r) PROVE OInv' /\ CompletedStands
  <1>1. /\ row' = row /\ parent' = parent /\ call' = call /\ busy' = busy
        /\ received' = received /\ doubtful' = doubtful
        /\ lapses' = lapses /\ errors' = errors /\ stops' = stops
    BY DEF Withdraw, Reinstate, calls, history, budget
  <1>2. wanted' \subseteq Row /\ withdrawn' \subseteq Row /\ withdrawn \subseteq withdrawn'
    BY DEF Withdraw, Reinstate, history, OInv, TypeOK
  <1>3. \A t \in Row : t \notin wanted' => t \in withdrawn'
    BY DEF Withdraw, Reinstate, history, OInv, Answered
  <1>4. TypeOK'
    BY <1>1, <1>2 DEF OInv, TypeOK
  <1>5. Answered' /\ NothingLost'
    BY <1>1, <1>2, <1>3 DEF OInv, Answered, NothingLost
  <1>6. CompletedStands /\ SummaryFaithful'
    BY <1>1 DEF CompletedStands, SummaryFaithful, OInv
  <1>7. Counted'
    BY <1>1 DEF OInv, Counted, Open, Again
  <1>q. QED BY <1>4, <1>5, <1>6, <1>7 DEF OInv

-----------------------------------------------------------------------------
\* The snapshot of the commit satisfies the invariant.
LEMMA InitOInv == ASSUME Init PROVE OInv
  <1>1. TypeOK
    <2>1. row \in [Row -> Delivery]
      BY Rows DEF Init
    <2>2. call \in [Dispatcher -> [Row -> Step]]
      BY DEF Init, NoCall, Step
    <2>3. parent \in {"pending", "dispatched"}
      BY DEF Init
    <2>4. wanted \subseteq Row /\ withdrawn \subseteq Row /\ busy \subseteq Dispatcher
      BY DEF Init
    <2>5. received \in [Row -> Nat] /\ doubtful \in [Row -> Nat]
      BY DEF Init
    <2>6. lapses \in 0..MaxLapses /\ errors \in 0..MaxErrors /\ stops \in 0..MaxStops
      BY OutboxAssumption DEF Init
    <2>q. QED BY <2>1, <2>2, <2>3, <2>4, <2>5, <2>6 DEF TypeOK
  <1>2. Answered /\ NothingLost
    BY DEF Init, Answered, NothingLost, Pending, NoCall
  <1>3. SummaryFaithful
    BY DEF Init, SummaryFaithful
  <1>4. Counted
    <2> SUFFICES ASSUME NEW r \in Row
                 PROVE  received[r] + Cardinality(Open(r)) + Again(row[r]) <= 1 + doubtful[r]
      BY DEF Counted
    <2>1. Open(r) = {}
      BY DEF Init, Open, NoCall
    <2>2. Cardinality(Open(r)) = 0
      BY <2>1, FS_EmptySet
    <2>3. received[r] = 0 /\ doubtful[r] = 0 /\ Again(row[r]) = 1
      BY DEF Init, Again, Pending
    <2>q. QED BY <2>2, <2>3
  <1>q. QED BY <1>1, <1>2, <1>3, <1>4 DEF OInv

\* Every step preserves the invariant and the completed rows.
LEMMA NextOInv == ASSUME OInv, [Next]_vars PROVE OInv' /\ CompletedStands
  <1>1. CASE \E w \in Dispatcher : StartDispatch(w) \/ EndDispatch(w)
    BY <1>1, DispatchStep
  <1>2. CASE \E w \in Dispatcher, r \in Row : ClaimDelivery(w, r)
    BY <1>2, ClaimStep
  <1>3. CASE \E w \in Dispatcher, r \in Row : Deliver(w, r)
    BY <1>3, DeliverStep
  <1>4. CASE \E w \in Dispatcher, r \in Row : Settle(w, r)
    BY <1>4, SettleStep
  <1>5. CASE \E w \in Dispatcher, r \in Row : RecordAnswer(w, r)
    BY <1>5, RecordStep
  <1>6. CASE \E w \in Dispatcher, r \in Row, accepted \in BOOLEAN : DeliverError(w, r, accepted)
    BY <1>6, ErrorStep
  <1>7. CASE \E r \in Row : BackoffOver(r) \/ LeaseLapses(r) \/ OrphanLapses(r)
    BY <1>7, ClockStep
  <1>8. CASE \E r \in Row : Withdraw(r) \/ Reinstate(r)
    BY <1>8, OperatorStep
  <1>9. CASE \E ws : Stop(ws)
    BY <1>9, StopStep
  <1>10. CASE UNCHANGED vars
    BY <1>10 DEF vars, OInv, TypeOK, Answered, NothingLost, SummaryFaithful, Counted, Open,
       Again, CompletedStands
  <1>q. QED BY <1>1, <1>2, <1>3, <1>4, <1>5, <1>6, <1>7, <1>8, <1>9, <1>10
               DEF Next, Proceed

\* The outbox's inductive invariant, for any number of rows and dispatchers.
THEOREM OutboxInvariant == Spec => []OInv
  <1>1. Init => OInv
    BY InitOInv
  <1>2. OInv /\ [Next]_vars => OInv'
    BY NextOInv
  <1>q. QED BY <1>1, <1>2, PTL DEF Spec

\* Every message beyond the first is paid for by a lapse or by an error that
\* was reported for an accepted message.
THEOREM OutboxRepeats == Spec => []RepeatedOnlyInDoubt
  <1>1. OInv => RepeatedOnlyInDoubt
    <2> SUFFICES ASSUME OInv, NEW r \in Row PROVE received[r] <= 1 + doubtful[r]
      BY DEF RepeatedOnlyInDoubt
    <2>1. /\ received[r] + Cardinality(Open(r)) + Again(row[r]) <= 1 + doubtful[r]
          /\ received[r] \in Nat /\ doubtful[r] \in Nat
      BY DEF OInv, Counted, TypeOK
    <2>2. Cardinality(Open(r)) \in Nat /\ Again(row[r]) \in Nat
      BY OpenFinite DEF Again
    <2>q. QED BY <2>1, <2>2
  <1>q. QED BY <1>1, OutboxInvariant, PTL

\* A row is recorded as delivered only after an acceptance of its provider and as gone
\* only if it was withdrawn, the summary never runs ahead of the deliveries, and no late
\* answer, lapse, retry or operator changes a completed row.
THEOREM OutboxAnswersStand == Spec => AnswersStand
  <1>1. OInv /\ [Next]_vars => [NothingLost' /\ SummaryFaithful' /\ CompletedStands]_vars
    BY NextOInv DEF OInv
  <1>q. QED BY <1>1, OutboxInvariant, PTL DEF Spec, AnswersStand

-----------------------------------------------------------------------------
(* The packs beside the outbox.                                            *)

\* What the packs do beside an outbox is what PackCleanup allows.
LEMMA PacksRefined == OutboxAndPacks => Packs!Spec
  <1>1. [Steps]_<<comp, vars, pk_vars>> => [Packs!Next]_Packs!vars
    BY DEF Steps, OutboxStep, PacksStep, pk_vars, Packs!vars
  <1>2. Begins => Packs!Init
    BY DEF Begins
  <1>q. QED BY <1>1, <1>2, PTL DEF OutboxAndPacks, Packs!Spec

\* No pack directory of ours is ever on disk without a reservation or a tombstone that
\* names its place (import_pack_cleanup), after any number of stops.
THEOREM PacksAreNamed == OutboxAndPacks => []NoOrphanPack
  BY PacksRefined, Packs!NoPackLeaks, PTL DEF NoOrphanPack

\* A pack whose files an attempt has admitted is not taken away by a cleanup before its
\* import is over (_terminal_cleanup_eligible and the purpose of the reservation).
THEOREM PackSourcesStay == OutboxAndPacks => []SourcesKept
  BY PacksRefined, Packs!AdmittedSourcesStay, PTL DEF SourcesKept

\* A directory somebody else put at the canonical name of a pack is at most moved into a
\* carrier that is kept (verify_directory before the removal).
THEOREM ForeignPacksStay == OutboxAndPacks => ForeignKept
  <1>1. [Packs!ForeignUntouched]_Packs!vars => [Packs!ForeignUntouched]_pk_vars
    BY DEF pk_vars, Packs!vars
  <1>q. QED
    BY <1>1, PacksRefined, Packs!ForeignStays, PTL DEF ForeignKept, Packs!ForeignKept
=============================================================================
