---------------------------- MODULE MCHandoffChain ----------------------------
(***************************************************************************)
(* A small instance of HandoffChain: tasks that touch nothing, one or two  *)
(* areas, two that share a hard gate, the cross-department mark with and   *)
(* without a gate, low-risk areas alone and mixed with others, and a blank *)
(* name; briefs with and without a gate of their own.                      *)
(***************************************************************************)
EXTENDS HandoffChain

MCAreaSets ==
  {{}, {"auth"}, {"schema", "migration"}, {"auth", "schema"}, {"cross_department"},
   {"cross_department", "auth"}, {"cross_department", "docs"}, {"docs"}, {"docs", "tests"},
   {"docs", "auth"}, {"docs", "backend"}, {"backend"}, {NoArea}, {NoArea, "docs"}}

MCBriefGates == {{}, {"audit_logging_semantics_change"}}

MCRelatedIdSets == {{"related_project_id", "related_packet_id"}}
===============================================================================
