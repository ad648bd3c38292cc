----------------------------- MODULE RescanFiles -----------------------------
(***************************************************************************)
(* rescan_file_recovery.py: after a rescan a volume file gets its metadata  *)
(* written into it, or is converted from one archive format to another.     *)
(*                                                                         *)
(* The enriched copy is prepared in a private carrier ("stage"), the        *)
(* original is captured ("source"), a second copy ("publication") is moved  *)
(* to the destination, and one transaction points the volume at it.  A row  *)
(* of rescan_file_operations journals every step; whatever stopped, the     *)
(* same unit, a later rescan or the replay loop settles it: forward after   *)
(* the database decision, back (over the carrier "rollback") before it.     *)
(* The file-mutation lock admits one unit at a time.                        *)
(***************************************************************************)
EXTENDS Naturals, Sequences

CONSTANTS
    MaxStops,     \* bound: units stopped by an error or a killed process
    MaxForeign    \* bound: changes other programs make at the public names

VARIABLES
    op,        \* the row of rescan_file_operations, or NoOp
    fs,        \* what is at each public name and in each private carrier
    dest,      \* the public name of the result: "src" unless it is converted
    recorded,  \* import_path of the volume row: "src" or "dst"
    current,   \* volume row and series context are those of the target
    todo,      \* the steps left to the unit that holds the file-mutation lock
    stops, foreign
vars == <<op, fs, dest, recorded, current, todo, stops, foreign>>

Public == {"src", "dst"}
Purpose == {"stage", "publication", "source", "rollback"}
NoOp == [state |-> "none"]
Phase == {"none", "allocated", "claiming", "claimed", "restoring", "restored",
          "discarding", "discarded"}
Operation ==
    [state : {"prepared", "published", "db_committed", "rollback",
              "rolled_back", "completed"},
     phase : [Purpose -> Phase], allocating : Purpose \cup {"none"},
     ready : SUBSET {"stage", "publication"}, receipt : BOOLEAN,
     winner : BOOLEAN]      \* captured_source: another file was captured
TypeOK ==
    /\ op \in Operation \cup {NoOp} /\ dest \in Public /\ recorded \in Public
    /\ fs \in [Public \cup Purpose -> {"none", "orig", "new", "foreign"}]
    /\ current \in BOOLEAN
    /\ stops \in 0..MaxStops /\ foreign \in 0..MaxForeign

Active == op.state \in {"prepared", "published", "db_committed", "rollback"}

Init ==
    /\ op = NoOp /\ dest \in Public /\ recorded = "src" /\ current = TRUE
    /\ fs = [p \in Public \cup Purpose |-> IF p = "src" THEN "orig" ELSE "none"]
    /\ todo = <<>> /\ stops = 0 /\ foreign = 0

At(step) == todo # <<>> /\ Head(todo) = step
Then(steps) == todo' = steps \o Tail(todo)
Store(row) == op' = row /\ UNCHANGED <<fs, dest, recorded, current, stops, foreign>>
Files(new) == fs' = new /\ UNCHANGED <<op, dest, recorded, current, stops, foreign>>
Skip == UNCHANGED <<op, fs, dest, recorded, current, stops, foreign>>

\* An error before the settlement leads to it (finally: _settle_safely), one
\* inside it ends the unit with the state "blocked"; a removal that is refused
\* still gives the source back when its name is another one.
Later(step) == \E i \in 2..Len(todo) : todo[i] = step
Raise == todo' = CASE Later(<<"settle">>) -> <<<<"settle">>>>
                   [] Later(<<"restore">>) /\ dest # "src" -> <<<<"restore">>>>
                   [] OTHER -> <<>>

Allocation(p) == <<<<"allocate", p>>, <<"save", p>>>>
Discarding(p) == <<<<"discard", p>>, <<"unlink", p>>, <<"discarded", p>>>>

(***************************************************************************)
(* enrich_target.                                                           *)
(***************************************************************************)
enrich_target ==
    /\ todo = <<>> /\ op = NoOp
    /\ todo' = <<<<"reserve">>>> \o Allocation("stage") \o
               <<<<"copy", "stage">>, <<"prove", "stage">>, <<"recheck">>, <<"capture">>,
                 <<"publish">>, <<"commit">>, <<"settle">>>>
    /\ Skip

\* No operation and no competing import, deletion or quarantine of the series.
_reserve ==
    /\ At(<<"reserve">>)
    /\ \/ /\ fs["src"] = "orig" /\ current /\ Then(<<>>)
          /\ Store([state |-> "prepared", phase |-> [p \in Purpose |-> "none"],
                    allocating |-> "none", ready |-> {}, receipt |-> FALSE,
                    winner |-> FALSE])
       \/ todo' = <<>> /\ Skip

\* The intent is durable before the carrier, the carrier before its content.
_allocate(p) ==
    /\ At(<<"allocate", p>>) /\ Then(<<>>) /\ Store([op EXCEPT !.allocating = p])
_save_record(p) ==
    /\ At(<<"save", p>>) /\ Then(<<>>)
    /\ Store([op EXCEPT !.allocating = "none", !.phase[p] = "allocated"])

_copy_prepared(p) ==
    /\ At(<<"copy", p>>)
    /\ IF p = "publication" /\ fs["stage"] # "new" THEN Raise /\ Skip
       ELSE Then(<<>>) /\ Files([fs EXCEPT ![p] = "new"])
_store_fingerprint(p) ==
    /\ At(<<"prove", p>>) /\ Then(<<>>) /\ Store([op EXCEPT !.ready = @ \cup {p}])

_enrichment_context_is_current ==
    /\ At(<<"recheck">>) /\ Skip
    /\ IF fs["src"] = "orig" /\ current THEN Then(<<>>) ELSE Raise

_phase(p, phase) ==
    /\ At(<<phase, p>>) /\ Then(<<>>) /\ Store([op EXCEPT !.phase[p] = phase])

Origin(p) == IF p = "source" THEN "src" ELSE dest
Expected(p) == IF p = "source" THEN "orig" ELSE "new"
\* The public name is moved into the carrier first and identified then.
claim_into_empty(p) ==
    /\ At(<<"claim", p>>)
    /\ IF fs[Origin(p)] = "none" \/ fs[p] # "none" THEN Raise /\ Skip
       ELSE /\ Files([fs EXCEPT ![p] = fs[Origin(p)], ![Origin(p)] = "none"])
            /\ IF fs[Origin(p)] = Expected(p) THEN Then(<<>>) ELSE Raise
Capturing(p) == <<<<"claiming", p>>, <<"claim", p>>, <<"claimed", p>>>>
_capture_source ==
    /\ At(<<"capture">>) /\ Skip
    /\ IF fs["stage"] = "new" THEN Then(Allocation("source") \o Capturing("source"))
                              ELSE Raise

_publish ==
    /\ At(<<"publish">>) /\ Skip
    /\ Then(Allocation("publication") \o
            <<<<"copy", "publication">>, <<"prove", "publication">>,
              <<"restoring", "publication">>, <<"place">>, <<"published">>>>)
\* renameat2 without replacement, or a link where it is not supported.
_rename_noreplace ==
    /\ At(<<"place">>)
    /\ \/ /\ fs[dest] = "none" /\ Then(<<>>)
          /\ \E left \in {"none", "new"} :
                Files([fs EXCEPT ![dest] = "new", !["publication"] = left])
       \/ fs[dest] # "none" /\ Raise /\ Skip
_store_receipt ==
    /\ At(<<"published">>)
    /\ IF fs[dest] = "new"
       THEN Then(<<>>) /\ Store([op EXCEPT !.receipt = TRUE, !.state = "published"])
       ELSE Raise /\ Skip

\* The database decision, with all three files verified right before it.
Decidable == /\ op.receipt /\ current
             /\ fs["source"] = "orig" /\ fs["stage"] = "new" /\ fs[dest] = "new"
\* Mutation of _commit: the volume row is not pointed at the result.
_commit_stays ==
    /\ At(<<"commit">>) /\ Then(<<>>)
    /\ op' = IF Decidable THEN [op EXCEPT !.state = "db_committed"] ELSE op
    /\ UNCHANGED <<fs, dest, recorded, current, stops, foreign>>
_commit ==
    /\ At(<<"commit">>) /\ Then(<<>>)
    /\ IF Decidable THEN /\ op' = [op EXCEPT !.state = "db_committed"]
                         /\ recorded' = dest
                    ELSE UNCHANGED <<op, recorded>>
    /\ UNCHANGED <<fs, dest, current, stops, foreign>>

(***************************************************************************)
(* _settle.                                                                 *)
(***************************************************************************)
_settle ==
    /\ At(<<"settle">>)
    /\ IF ~Active THEN todo' = <<>> /\ Skip
       ELSE IF op.allocating # "none" THEN todo' = <<>> /\ Skip
       ELSE IF op.state = "db_committed"
       THEN /\ Skip
            /\ todo' = IF fs[dest] # "new" THEN <<>>
                       ELSE Discarding("source") \o Discarding("stage") \o
                            Discarding("publication") \o Discarding("rollback") \o
                            <<<<"end", "completed">>>>
       ELSE /\ Store([op EXCEPT !.state = "rollback"])
            /\ todo' = <<<<"remove">>, <<"restore">>>> \o Discarding("publication") \o
                       Discarding("stage") \o <<<<"end", "rolled_back">>>>
_end(state) == At(<<"end", state>>) /\ Then(<<>>) /\ Store([op EXCEPT !.state = state])

_remove_publication ==
    /\ At(<<"remove">>) /\ Skip
    /\ CASE op.phase["rollback"] \in {"discarding", "discarded"} ->
                Then(Discarding("rollback"))
         [] op.phase["rollback"] \notin {"none", "discarding", "discarded"} ->
                Then(<<<<"uncover">>>>)
         [] op.phase["rollback"] = "none" /\ op.receipt ->
                IF fs[dest] = "new" THEN Then(Allocation("rollback") \o <<<<"uncover">>>>)
                                    ELSE Raise
         [] OTHER ->
                IF op.phase["publication"] = "restoring" /\ fs[dest] # "none"
                THEN Raise ELSE Then(<<>>)
_remove_publication_capture ==
    /\ At(<<"uncover">>) /\ Skip
    /\ IF fs["rollback"] = "none" THEN Then(Capturing("rollback") \o Discarding("rollback"))
       ELSE IF fs["rollback"] = "new"
       THEN Then(<<<<"claimed", "rollback">>>> \o Discarding("rollback")) ELSE Raise

Returned == IF op.winner THEN "foreign" ELSE "orig"
_restore_source ==
    /\ At(<<"restore">>)
    /\ LET phase == op.phase["source"]
           link == <<<<"restoring", "source">>, <<"link">>, <<"restored", "source">>>>
       IN  CASE phase = "none" -> Then(<<>>) /\ Skip
             [] phase \in {"discarding", "discarded"} -> Then(Discarding("source")) /\ Skip
             [] phase = "restored" ->
                    /\ Skip
                    /\ IF fs["src"] = Returned THEN Then(Discarding("source"))
                                               ELSE todo' = <<>>
             [] phase \notin {"none", "discarding", "discarded", "restored"}
                /\ fs["source"] = "none" ->
                    /\ Skip
                    /\ IF phase \in {"allocated", "claiming"} /\ fs["src"] = "orig"
                       THEN Then(Discarding("source")) ELSE todo' = <<>>
             [] OTHER ->
                    IF fs["source"] = "foreign" /\ ~op.winner
                    THEN IF phase = "claiming"
                         THEN Then(link \o Discarding("source"))
                              /\ Store([op EXCEPT !.winner = TRUE])
                         ELSE todo' = <<>> /\ Skip
                    ELSE Then(link \o Discarding("source")) /\ Skip
\* Every occupied name refuses, even one that is this very link.
link_private_regular ==
    /\ At(<<"link">>)
    /\ IF fs["src"] = "none" THEN Then(<<>>) /\ Files([fs EXCEPT !["src"] = fs["source"]])
                             ELSE todo' = <<>> /\ Skip

_discard(p) ==
    /\ At(<<"discard", p>>)
    /\ IF op.phase[p] \in {"none", "discarded"}
       THEN todo' = SubSeq(todo, 4, Len(todo)) /\ Skip
       ELSE Then(<<>>) /\ Store([op EXCEPT !.phase[p] = "discarding"])
\* The content the journal proves; a stage without proof is kept.
Proven(p) == CASE p = "source" -> {Returned}
               [] p = "stage" -> IF "stage" \in op.ready THEN {"new"} ELSE {}
               [] OTHER -> IF "publication" \in op.ready THEN {"new"} ELSE {}
discard_private_regular(p) ==
    /\ At(<<"unlink", p>>)
    /\ IF fs[p] \in Proven(p) \cup {"none"}
       THEN Then(<<>>) /\ Files([fs EXCEPT ![p] = "none"])
       ELSE Raise /\ Skip

(***************************************************************************)
(* The replay loop and later rescans; stops; writers of the rows and of the *)
(* public names.                                                            *)
(***************************************************************************)
replay_rescan_file_operation ==
    /\ todo = <<>> /\ Active /\ todo' = <<<<"settle">>>> /\ Skip

Stop ==
    /\ todo # <<>> /\ stops < MaxStops /\ stops' = stops + 1
    /\ todo' = <<>> \/ Raise
    /\ UNCHANGED <<op, fs, dest, recorded, current, foreign>>
\* A grab, an edit of the series or of its tags.
Writer ==
    /\ current /\ current' = FALSE
    /\ UNCHANGED <<op, fs, dest, recorded, todo, stops, foreign>>
Foreign ==
    /\ foreign < MaxForeign /\ foreign' = foreign + 1
    /\ \E p \in Public : \E new \in {"none", "foreign"} \ {fs[p]} :
          fs' = [fs EXCEPT ![p] = new]
    /\ UNCHANGED <<op, dest, recorded, current, todo, stops>>

UnitStep ==
    \/ _reserve \/ _enrichment_context_is_current \/ _capture_source \/ _publish
    \/ _rename_noreplace \/ _store_receipt \/ _commit \/ _settle
    \/ _remove_publication \/ _remove_publication_capture \/ _restore_source
    \/ link_private_regular
    \/ \E state \in {"completed", "rolled_back"} : _end(state)
    \/ \E p \in Purpose :
          \/ _allocate(p) \/ _save_record(p) \/ _discard(p) \/ discard_private_regular(p)
          \/ \E phase \in Phase : _phase(p, phase)
    \/ \E p \in {"stage", "publication"} : _copy_prepared(p) \/ _store_fingerprint(p)
    \/ \E p \in {"source", "rollback"} : claim_into_empty(p)
Next == enrich_target \/ UnitStep \/ replay_rescan_file_operation \/ Stop \/ Writer \/ Foreign
Spec == Init /\ [][Next]_vars
\* A unit goes on, and the replay loop never stops.
Fairness == WF_vars(UnitStep) /\ WF_vars(replay_rescan_file_operation)

-----------------------------------------------------------------------------
\* Whatever stops, and wherever, the file the volume row points at is there, or
\* the original is in a carrier an active journal names (_commit, _settle).
VolumeReadable ==
    foreign = 0 => \/ fs[recorded] # "none"
                   \/ Active /\ fs["source"] = "orig" /\ op.phase["source"] # "none"

\* What the code keeps for an operator: a carrier, a copy, a publication or a
\* link that was made and not recorded, and files that others changed.
Kept ==
    \/ foreign > 0 \/ op.allocating # "none"
    \/ \E p \in {"stage", "publication"} : fs[p] # "none" /\ p \notin op.ready
    \/ op.phase["publication"] = "restoring" /\ ~op.receipt /\ fs[dest] # "none"
    \/ op.phase["source"] = "restoring" /\ fs["src"] # "none"
Over == ~Active \/ (todo = <<>> /\ Kept)
\* Every operation is completed or rolled back, except those.
OperationSettles == Active ~> Over
=============================================================================
