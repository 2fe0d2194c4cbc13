------------------------- MODULE MCDryRunOrchestration -------------------------
(***************************************************************************)
(* Small instances of DryRunOrchestration: one or two changed areas out of *)
(* two that share a hard gate, one with another, the cross-department      *)
(* mark, two low-risk ones, an ordinary one and a blank one.               *)
(***************************************************************************)
EXTENDS DryRunOrchestration, Naturals, FiniteSets

MCAreas ==
  {"auth", "schema", "migration", "cross_department", "docs", "tests", "backend", NoArea}

MCAreaSets == {s \in SUBSET MCAreas : Cardinality(s) <= 2}

MCBriefGates == {{}, {"audit_logging_semantics_change"}}
===============================================================================
