--------------------------- MODULE PublicationOutbox ---------------------------
(***************************************************************************)
(* The outbox of one committed import publication (import_publication.py): *)
(* a row for every notification connection that was enabled at the commit, *)
(* a row for every configured success effect (cover, Komga scan, removal   *)
(* of the completed download), and the notification summary row.           *)
(*                                                                         *)
(* The importing task and the replay loop dispatch the same rows.  A row   *)
(* is leased by an UPDATE, the provider is called outside the database,    *)
(* and a second UPDATE by the same owner records the answer.  Leases may   *)
(* lapse while the provider is slow, calls may be cancelled, the process   *)
(* may crash, and a provider may accept a message and still report an      *)
(* error: delivery is at least once.                                       *)
(***************************************************************************)
EXTENDS Naturals, FiniteSets

CONSTANTS
  Connection,   \* notification connections of the snapshot
  Effect,       \* success effects of the snapshot
  Dispatcher,   \* the importing task and the replay loop
  NoOwner,
  MaxLapses,    \* bound: leases that lapse
  MaxErrors,    \* bound: answers of providers that are errors
  MaxStops      \* bound: cancellations and crashes

ASSUME OutboxAssumption ==
  /\ Connection \intersect Effect = {} /\ NoOwner \notin Dispatcher
  /\ IsFiniteSet(Dispatcher)
  /\ MaxLapses \in Nat /\ MaxErrors \in Nat /\ MaxStops \in Nat

Row == Connection \union Effect
Step == {"none", "listed", "claimed", "accepted", "settled", "error"}

VARIABLES
  row,        \* import_publication_notification_deliveries, _success_effects
  parent,     \* import_publication_notifications.state
  wanted,     \* rows whose connection or target is still configured
  call,       \* volatile: what each dispatcher has done for each row
  busy,       \* volatile: the dispatchers inside a gather
  received,   \* history: messages the provider of a row has accepted
  withdrawn,  \* history: rows that were not wanted at some time
  doubtful,   \* history: lapses of the row's lease and errors after acceptance
  lapses, errors, stops

vars == <<row, parent, wanted, call, busy, received, withdrawn, doubtful, lapses,
          errors, stops>>
calls == <<call, busy>>
budget == <<lapses, errors, stops>>
history == <<received, withdrawn, doubtful>>

\* reason is completion_reason; an effect has no such column, and there it
\* tells the two outcomes of a dispatch apart
Delivery == [state: {"pending", "dispatching", "completed"},
             owner: Dispatcher \union {NoOwner}, live: BOOLEAN, due: BOOLEAN,
             reason: {"none", "delivered", "gone"}]

TypeOK ==
  /\ row \in [Row -> Delivery]
  /\ parent \in {"pending", "dispatched"}
  /\ wanted \in SUBSET Row /\ withdrawn \in SUBSET Row
  /\ call \in [Dispatcher -> [Row -> Step]]
  /\ busy \in SUBSET Dispatcher
  /\ received \in [Row -> Nat] /\ doubtful \in [Row -> Nat]
  /\ lapses \in 0..MaxLapses /\ errors \in 0..MaxErrors /\ stops \in 0..MaxStops

Pending(due) == [state |-> "pending", owner |-> NoOwner, live |-> FALSE, due |-> due,
                 reason |-> "none"]
Leased(w) == [state |-> "dispatching", owner |-> w, live |-> TRUE, due |-> FALSE,
              reason |-> "none"]
NoCall == [r \in Row |-> "none"]

\* mark_publication_db_committed inserts the rows in the transaction of Phase 3
Init ==
  /\ row = [r \in Row |-> Pending(TRUE)]
  /\ parent = IF Connection = {} THEN "dispatched" ELSE "pending"
  /\ wanted = Row /\ withdrawn = {}
  /\ call = [w \in Dispatcher |-> NoCall] /\ busy = {}
  /\ received = [r \in Row |-> 0] /\ doubtful = [r \in Row |-> 0]
  /\ lapses = 0 /\ errors = 0 /\ stops = 0

-----------------------------------------------------------------------------
\* Mutation of Claimable: the lease of another dispatcher is ignored.
Claimable_leased(r) ==
  row[r].state = "dispatching" \/ (row[r].state = "pending" /\ row[r].due)

\* pending and due, or dispatching under a lease that lapsed
Claimable(r) ==
  \/ row[r].state = "pending" /\ row[r].due
  \/ row[r].state = "dispatching" /\ ~row[r].live

Summary(rows) ==
  IF \A c \in Connection : rows[c].state = "completed" THEN "dispatched" ELSE "pending"

\* pending_publication_ids lists a journal with claimable rows; the connections
\* listed are the claimable ones, the effects all that are not completed.
StartDispatch(w) ==
  LET open == {r \in Row : IF r \in Effect THEN row[r].state # "completed" ELSE Claimable(r)}
  IN /\ w \notin busy
     /\ \E r \in Row : Claimable(r)
     /\ busy' = busy \union {w}
     /\ parent' = Summary(row)
     /\ call' = [call EXCEPT ![w] = [r \in Row |-> IF r \in open THEN "listed" ELSE "none"]]
     /\ UNCHANGED <<row, wanted, history, budget>>

\* the lease is one conditional UPDATE; without it the call is over
ClaimDelivery(w, r) ==
  /\ call[w][r] = "listed"
  /\ IF Claimable(r)
     THEN /\ row' = [row EXCEPT ![r] = Leased(w)]
          /\ call' = [call EXCEPT ![w][r] = "claimed"]
     ELSE UNCHANGED row /\ call' = [call EXCEPT ![w][r] = "none"]
  /\ UNCHANGED <<parent, wanted, busy, history, budget>>

\* The provider's answer, no database held.  A connection that was deleted or
\* disabled, and a Komga target or client that changed, settle the row unsent.
Deliver(w, r) ==
  /\ call[w][r] = "claimed" /\ r \in wanted
  /\ call' = [call EXCEPT ![w][r] = "accepted"]
  /\ received' = [received EXCEPT ![r] = @ + 1]
  /\ UNCHANGED <<row, parent, wanted, busy, withdrawn, doubtful, budget>>

Settle(w, r) ==
  /\ call[w][r] = "claimed" /\ r \notin wanted
  /\ call' = [call EXCEPT ![w][r] = "settled"]
  /\ UNCHANGED <<row, parent, wanted, busy, history, budget>>

DeliverError(w, r, accepted) ==
  /\ call[w][r] = "claimed" /\ r \in wanted /\ errors < MaxErrors
  /\ errors' = errors + 1
  /\ call' = [call EXCEPT ![w][r] = "error"]
  /\ received' = IF accepted THEN [received EXCEPT ![r] = @ + 1] ELSE received
  /\ doubtful' = IF accepted THEN [doubtful EXCEPT ![r] = @ + 1] ELSE doubtful
  /\ UNCHANGED <<row, parent, wanted, busy, withdrawn, lapses, stops>>

\* Mutation of Owns: an answer is recorded by the id of the row alone.
Owns_any(w, r) == TRUE

\* state='dispatching' AND operation_owner=?: the lease may have lapsed, but
\* nobody else has claimed the row
Owns(w, r) == row[r].state = "dispatching" /\ row[r].owner = w

\* Mutation of Recorded: the summary is refreshed by the dispatcher alone.
Recorded_rows(w, r, delivery) ==
  /\ row' = IF Owns(w, r) THEN [row EXCEPT ![r] = delivery] ELSE row
  /\ UNCHANGED parent

\* the answer and the summary are one transaction; effects have no summary
Recorded(w, r, delivery) ==
  /\ row' = IF Owns(w, r) THEN [row EXCEPT ![r] = delivery] ELSE row
  /\ parent' = IF Owns(w, r) /\ r \in Connection THEN Summary(row') ELSE parent

Completed(reason) == [state |-> "completed", owner |-> NoOwner, live |-> FALSE,
                      due |-> FALSE, reason |-> reason]

\* Mutation of RecordAnswer: the row is completed before the provider answers.
RecordAnswer_early(w, r) ==
  /\ \/ call[w][r] \in {"claimed", "accepted"} /\ Recorded(w, r, Completed("delivered"))
     \/ call[w][r] = "settled" /\ Recorded(w, r, Completed("gone"))
     \/ call[w][r] = "error" /\ Recorded(w, r, Pending(FALSE))
  /\ call' = [call EXCEPT ![w][r] = "none"]
  /\ UNCHANGED <<wanted, busy, history, budget>>

RecordAnswer(w, r) ==
  /\ \/ call[w][r] = "accepted" /\ Recorded(w, r, Completed("delivered"))
     \/ call[w][r] = "settled" /\ Recorded(w, r, Completed("gone"))
     \/ call[w][r] = "error" /\ Recorded(w, r, Pending(FALSE))
  /\ call' = [call EXCEPT ![w][r] = "none"]
  /\ UNCHANGED <<wanted, busy, history, budget>>

\* asyncio.gather waits for every row, then the summary is refreshed again
EndDispatch(w) ==
  /\ w \in busy /\ call[w] = NoCall
  /\ busy' = busy \ {w}
  /\ parent' = Summary(row)
  /\ UNCHANGED <<row, wanted, call, history, budget>>

-----------------------------------------------------------------------------
\* the backoff of a failed row is over
BackoffOver(r) ==
  /\ row[r].state = "pending" /\ ~row[r].due
  /\ row' = [row EXCEPT ![r].due = TRUE]
  /\ UNCHANGED <<parent, wanted, calls, history, budget>>

\* the lease of a working dispatcher lapses ...
LeaseLapses(r) ==
  /\ row[r].state = "dispatching" /\ row[r].live /\ lapses < MaxLapses
  /\ lapses' = lapses + 1
  /\ row' = [row EXCEPT ![r].live = FALSE]
  /\ doubtful' = [doubtful EXCEPT ![r] = @ + 1]
  /\ UNCHANGED <<parent, wanted, calls, received, withdrawn, errors, stops>>

\* ... and the lease that a stopped one has left behind
OrphanLapses(r) ==
  /\ row[r].state = "dispatching" /\ row[r].live /\ call[row[r].owner][r] = "none"
  /\ row' = [row EXCEPT ![r].live = FALSE]
  /\ doubtful' = [doubtful EXCEPT ![r] = @ + 1]
  /\ UNCHANGED <<parent, wanted, calls, received, withdrawn, budget>>

\* cancellation of a dispatcher; a crash stops all of them
Stop(ws) ==
  /\ ws # {} /\ ws \subseteq busy /\ stops < MaxStops
  /\ stops' = stops + 1
  /\ busy' = busy \ ws
  /\ call' = [w \in Dispatcher |-> IF w \in ws THEN NoCall ELSE call[w]]
  /\ UNCHANGED <<row, parent, wanted, history, lapses, errors>>

\* an operator deletes or disables a connection or changes a target, and may
\* change it back
Withdraw(r) ==
  /\ r \in wanted /\ wanted' = wanted \ {r} /\ withdrawn' = withdrawn \union {r}
  /\ UNCHANGED <<row, parent, calls, received, doubtful, budget>>

Reinstate(r) ==
  /\ r \notin wanted /\ wanted' = wanted \union {r}
  /\ UNCHANGED <<row, parent, calls, history, budget>>

-----------------------------------------------------------------------------
Proceed(w) ==
  \/ EndDispatch(w)
  \/ \E r \in Row : \/ ClaimDelivery(w, r) \/ Deliver(w, r) \/ Settle(w, r)
                    \/ RecordAnswer(w, r)

Next ==
  \/ \E w \in Dispatcher : StartDispatch(w) \/ Proceed(w)
  \/ \E w \in Dispatcher, r \in Row, accepted \in BOOLEAN : DeliverError(w, r, accepted)
  \/ \E r \in Row : BackoffOver(r) \/ LeaseLapses(r) \/ OrphanLapses(r)
  \/ \E r \in Row : Withdraw(r) \/ Reinstate(r)
  \/ \E w \in Dispatcher : Stop({w})
  \/ Stop(busy)

Spec == Init /\ [][Next]_vars

\* The replay loop visits listed journals again and again (the importing task
\* comes once), a call that was started goes on, and time passes.
FairSpec ==
  /\ Spec
  /\ WF_vars(\E w \in Dispatcher : StartDispatch(w))
  /\ \A w \in Dispatcher : WF_vars(Proceed(w))
  /\ \A r \in Row : WF_vars(BackoffOver(r)) /\ WF_vars(OrphanLapses(r))

-----------------------------------------------------------------------------
(* Properties.                                                             *)

\* Nothing is lost: a delivery is recorded as delivered only when its provider
\* has accepted a message, whatever lapses, cancellations and late answers of
\* other dispatchers lie between, and as gone only when it was not wanted.
NothingLost ==
  \A r \in Row : /\ row[r].reason = "delivered" => received[r] > 0
                 /\ row[r].reason = "gone" => r \in withdrawn

\* A message is repeated only in doubt: after a lapsed lease, a stop, or an
\* error reported for a message that was accepted.  Two dispatchers that visit
\* the same journal do not send twice.
RepeatedOnlyInDoubt == \A r \in Row : received[r] <= 1 + doubtful[r]

\* The summary never says dispatched while a delivery is open.
SummaryFaithful == parent = "dispatched" => \A c \in Connection : row[c].state = "completed"

\* An answer that comes after the lease has lapsed and another dispatcher has completed
\* the row does not reopen it, or change its reason.
CompletedStands == \A r \in Row : row[r].state = "completed" => row'[r] = row[r]

\* What is recorded of a delivery is true when it is recorded, and it stands from then
\* on, whatever late answers, retries, lapses, stops and operators come after (the lease
\* and owner tests of the UPDATEs of _dispatch_notification_delivery and
\* _dispatch_success_effect).
AnswersStand == [][NothingLost' /\ SummaryFaithful' /\ CompletedStands]_vars

\* What is reached in the end: every row is completed and the summary says so, although
\* nobody visits the journal again once no row is open.
Drained == parent = "dispatched" /\ \A r \in Row : row[r].state = "completed"
=============================================================================
