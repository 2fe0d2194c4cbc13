------------------------------ MODULE HandoffChain ------------------------------
(***************************************************************************)
(* A dry-run result is wrapped into a handoff envelope and passed through  *)
(* the builders of HandoffStages.  The builders are public functions from  *)
(* dict to dict: nothing fixes their order but the keys they need, so any  *)
(* of them may be called on any artifact built so far.  A builder selects  *)
(* the keys it knows and drops the others; a missing key or an unknown     *)
(* label raises KeyError, and there is no new artifact.                    *)
(***************************************************************************)
EXTENDS DryRunOrchestration, HandoffStages, Naturals

CONSTANT RelatedIdSets   \* the sets of related_* ids a caller passes along

ASSUME RelatedIdsAssumption == RelatedIdSets \subseteq SUBSET RelatedIds

VARIABLE artifact        \* the latest artifact, None before the handoff

chainVars == <<decision, request, result, artifact>>

Labelled(k) == {Chain[i].adds : i \in 1..k}

\* The keys the builder of label n needs, apart from the two decision artifacts.
Required(n) == Labelled(n - 1)

Read(a, n) ==
  IF n = 1 THEN a.projected.recommendation ELSE a.labels[Chain[n].reads]

Accepts(a, n) ==
  /\ Required(n) \subseteq DOMAIN a.labels
  /\ Read(a, n) \in DOMAIN Chain[n].table

Build(a, n) ==
  [a EXCEPT !.related = @ \intersect Chain[n].carries,
            !.labels = [key \in Required(n) \union {Chain[n].adds} |->
                          IF key = Chain[n].adds THEN Chain[n].table[Read(a, n)]
                          ELSE a.labels[key]]]

\* A builder that only repackages the keys it knows: the two artifacts, the ids and
\* the first k labels.
Repackaged(a, k) == [a EXCEPT !.labels = [key \in Labelled(k) |-> a.labels[key]]]

ReceiverStages == 16

ChainInit == Init /\ artifact = None

\* The client settles a result before it is handed off.
Orchestrate == artifact = None /\ Next /\ UNCHANGED artifact

\* build_dry_run_artifact_bundle and build_dry_run_handoff_envelope.
HandOff ==
  /\ artifact = None
  /\ result # None
  /\ result.record # None
  /\ \E ids \in RelatedIdSets :
       artifact' = [projected |-> result.activation, approval_record |-> result.record,
                    related |-> ids, labels |-> <<>>]
  /\ UNCHANGED vars

\* A labelling builder is called on the artifact.
Label ==
  /\ artifact # None
  /\ \E n \in 1..Len(Chain) : Accepts(artifact, n) /\ artifact' = Build(artifact, n)
  /\ UNCHANGED vars

\* One of the sixteen builders from the intake to the delivery manifest.
RepackageEnvelope ==
  /\ artifact # None
  /\ artifact' = Repackaged(artifact, 0)
  /\ UNCHANGED vars

\* build_consumer_decision_surface_from_followup_requirement
RepackageDecisionSurface ==
  /\ artifact # None
  /\ Labelled(ReceiverStages) \subseteq DOMAIN artifact.labels
  /\ artifact' = Repackaged(artifact, ReceiverStages)
  /\ UNCHANGED vars

ChainNext == Orchestrate \/ HandOff \/ Label \/ RepackageEnvelope \/ RepackageDecisionSurface

ChainSpec == ChainInit /\ [][ChainNext]_chainVars

\* ------------------------------------------------------------------ properties

HandedOff == artifact # None

\* The label each builder adds when all are called in order on a recommendation.
LabelOf(recommendation) ==
  LET f[n \in 1..Len(Chain)] ==
        Chain[n].table[IF n = 1 THEN recommendation ELSE f[n - 1]]
  IN f

\* In whichever order the builders are called, an artifact carries a prefix of the
\* labels, each the one that belongs to its recommendation and to no other: the
\* decision can be read back from every label, and no two labels of an artifact
\* contradict each other (the tables, each written against the range of the last).
LabelsIdentifyDecision ==
  HandedOff =>
    LET mine == LabelOf(artifact.projected.recommendation)
    IN /\ \E k \in 0..Len(Chain) : DOMAIN artifact.labels = Labelled(k)
       /\ \A n \in 1..Len(Chain) :
            Chain[n].adds \in DOMAIN artifact.labels =>
              /\ artifact.labels[Chain[n].adds] = mine[n]
              /\ \A other \in Decisions \ {artifact.projected.recommendation} :
                   LabelOf(other)[n] # mine[n]

\* An artifact without its last label can be taken further: no builder meets a label
\* that its table does not know, for any recommendation (the KeyError of the lookups).
ChainContinues ==
  HandedOff /\ Chain[Len(Chain)].adds \notin DOMAIN artifact.labels =>
    \E n \in 1..Len(Chain) :
      Chain[n].adds \notin DOMAIN artifact.labels /\ Accepts(artifact, n)

\* The receiver never gets gated work as ready: whichever decision was on file, it is
\* not to be delivered and its release gate is not open (from triage_task to
\* build_consumer_receiver_release_gate_from_mode).  It speaks of the first sixteen labels
\* only.  Those that the consumer adds behind them grow with the urgency of the case:
\* gated work under REVIEW comes to "permitted", "clear" and "release", work under GO to
\* "hold_release" (LabelsIdentifyDecision still tells the two apart).
GatedWorkNotReleased ==
  HandedOff /\ Gated =>
    \A label \in {"ready", "deliver", "dispatch", "send", "active", "open"} :
      \A key \in Labelled(ReceiverStages) \intersect DOMAIN artifact.labels :
        artifact.labels[key] # label

\* What is handed off is what was decided: no builder changes the projected decision,
\* the approval record or the related ids, nor a label that is already there.
DecisionCarriedAlong ==
  [][HandedOff /\ HandedOff' =>
       /\ artifact'.projected = artifact.projected
       /\ artifact'.approval_record = artifact.approval_record
       /\ artifact'.related = artifact.related
       /\ \A key \in DOMAIN artifact.labels \intersect DOMAIN artifact'.labels :
            artifact'.labels[key] = artifact.labels[key]]_chainVars
===============================================================================
