----------------------------- MODULE AtomicBatch -----------------------------
(***************************************************************************)
(* What the publication of a batch promises to a reader of the library.    *)
(* The files appear one after the other and disappear in the opposite      *)
(* order, so that at any time one of them at most is missing; a commit     *)
(* shows all of them, the end of a compensation none, and then nothing     *)
(* changes any more.  The sources of a move go after the commit and before *)
(* the publication is closed.  Carriers, journal, receipts, units and      *)
(* interruptions do not appear.  PublicationFiles implements this          *)
(* specification.                                                          *)
(***************************************************************************)
EXTENDS Naturals

CONSTANT File          \* the batch, in its order

VARIABLES move,        \* whether the sources go
          outcome, closed,
          shown,       \* what a reader finds under the name of a file
          source       \* what is left of the file that is imported
bvars == <<move, outcome, closed, shown, source>>

BInit ==
  /\ move \in BOOLEAN /\ outcome = "open" /\ closed = FALSE
  /\ shown = [f \in File |-> "before"]
  /\ source = [f \in File |-> "there"]

\* The batch is published up to f and no further; what others have changed is theirs.
CutAt(f) ==
  /\ \A g \in File : g < f => shown[g] \in {"after", "theirs"}
  /\ \A g \in File : g > f => shown[g] \in {"before", "theirs"}

Show(f, what) ==
  /\ CutAt(f)
  /\ shown' = [shown EXCEPT ![f] = what]
  /\ UNCHANGED <<move, outcome, closed, source>>

\* The file that is replaced is taken out of the way.
Withdraw(f) == outcome \in {"open", "undoing"} /\ shown[f] = "before" /\ Show(f, "missing")
Publish(f) == outcome = "open" /\ shown[f] \in {"before", "missing"} /\ Show(f, "after")
TakeBack(f) ==
  outcome = "undoing" /\ shown[f] = "after" /\ \E s \in {"missing", "before"} : Show(f, s)
PutBack(f) == outcome = "undoing" /\ shown[f] = "missing" /\ Show(f, "before")

Decide(from, to, all) ==
  /\ outcome = from /\ outcome' = to
  /\ \A f \in File : shown[f] \in all
  /\ UNCHANGED <<move, closed, shown, source>>
Commit == Decide("open", "committed", {"after", "theirs"})
Undo == Decide("open", "undoing", {"before", "missing", "after", "theirs"})
Undone == Decide("undoing", "undone", {"before", "theirs"})

TakeSource(f) ==
  /\ move /\ outcome = "committed" /\ ~closed /\ source[f] = "there"
  /\ source' = [source EXCEPT ![f] = "taken"]
  /\ UNCHANGED <<move, outcome, closed, shown>>

Close ==
  /\ outcome \in {"committed", "undone"} /\ ~closed /\ closed' = TRUE
  /\ move /\ outcome = "committed" => \A f \in File : source[f] # "there"
  /\ UNCHANGED <<move, outcome, shown, source>>

\* Somebody else changes the published file or the source of f.
Disturb(f) ==
  /\ shown' = [shown EXCEPT ![f] = "theirs"]
  /\ source' = [source EXCEPT ![f] = "theirs"]
  /\ UNCHANGED <<move, outcome, closed>>

BNext ==
  \/ Commit \/ Undo \/ Undone \/ Close
  \/ \E f \in File :
       Withdraw(f) \/ Publish(f) \/ TakeBack(f) \/ PutBack(f) \/ TakeSource(f) \/ Disturb(f)

BSpec == BInit /\ [][BNext]_bvars
=============================================================================
