-------------------------- MODULE MCOutboxAndPacks --------------------------
(***************************************************************************)
(* What is left to do when an import is decided: the outbox of its         *)
(* publication, for TLC with model values for rows and dispatchers, and    *)
(* the generated pack it read.  They share no variable, so each behaviour  *)
(* is one of a single component.                                           *)
(***************************************************************************)
EXTENDS PublicationOutbox

CONSTANTS c1, w1, w2,
          pk_MaxStops, pk_MaxForeign

VARIABLES
    comp,    \* the component of this behaviour
    pk_res, pk_claim, pk_holder, pk_fs, pk_row, pk_gen, pk_pub, pk_admitted, pk_pc,
    pk_job, pk_stops, pk_foreign, pk_exposed
pk_vars ==
    <<pk_res, pk_claim, pk_holder, pk_fs, pk_row, pk_gen, pk_pub, pk_admitted, pk_pc,
      pk_job, pk_stops, pk_foreign, pk_exposed>>

\* With its theorems, which hold of the packs here as well.
Packs == INSTANCE PackCleanupProofs WITH
    res <- pk_res, claim <- pk_claim, holder <- pk_holder, fs <- pk_fs,
    row <- pk_row, gen <- pk_gen, pub <- pk_pub, admitted <- pk_admitted,
    pc <- pk_pc, job <- pk_job, stops <- pk_stops, foreign <- pk_foreign,
    exposed <- pk_exposed, MaxStops <- pk_MaxStops, MaxForeign <- pk_MaxForeign

OutboxStep == comp = "outbox" /\ Next /\ UNCHANGED <<comp, pk_vars>>
PacksStep == comp = "packs" /\ Packs!Next /\ UNCHANGED <<comp, vars>>
Begins == comp \in {"outbox", "packs"} /\ Init /\ Packs!Init
Steps == OutboxStep \/ PacksStep

\* The fairness of each component, as its module states and justifies it, in the
\* behaviours of that component.
OutboxAndPacks ==
    /\ Begins /\ [][Steps]_<<comp, vars, pk_vars>>
    /\ WF_vars(comp = "outbox" /\ \E w \in Dispatcher : StartDispatch(w))
    /\ \A w \in Dispatcher : WF_vars(comp = "outbox" /\ Proceed(w))
    /\ \A r \in Row : /\ WF_vars(comp = "outbox" /\ BackoffOver(r))
                      /\ WF_vars(comp = "outbox" /\ OrphanLapses(r))
    /\ WF_pk_vars(comp = "packs" /\ Packs!UnitStep)
    /\ SF_pk_vars(comp = "packs" /\ pk_pc = "idle" /\ Packs!Expire)
    /\ SF_pk_vars(comp = "packs" /\ Packs!StartRecovery)
    /\ SF_pk_vars(comp = "packs" /\ Packs!PackCleanupDelegated)
    /\ SF_pk_vars(comp = "packs" /\ pk_pub = "final" /\ Packs!StartCleanup)

-----------------------------------------------------------------------------
\* import_publication: the outbox of a publication is drained in the end (Drained, in
\* the behaviours of the outbox).
OutboxDrains == <>[](comp = "outbox" => Drained)

\* import_pack_cleanup: no pack is in the cache without a row that names its place.
NoOrphanPack == Packs!NoOrphanPack

\* import_pack_cleanup: the sources of an import are not taken away under it.
SourcesKept == Packs!SourcesKept

\* private_pack_source: what another program put at the name of a pack is never
\* removed.
ForeignKept == [][Packs!ForeignUntouched]_pk_vars

\* import_pack_cleanup: the fence of a cleanup or an attachment ends, after any stops,
\* but for the cases that are kept for an operator.
FenceEnds == Packs!Fenced ~> (~Packs!Fenced \/ pk_exposed)
=============================================================================
