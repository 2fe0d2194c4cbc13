----------------------------- MODULE MCAppLifetime ----------------------------
(***************************************************************************)
(* A small instance of AppLifetime for TLC: the module-level orchestrator, *)
(* the one of create_app, and one that maintenance makes.                  *)
(***************************************************************************)
EXTENDS AppLifetime, TLC

MCBindings == 1..MaxOrchestrators

Setting(backend, dsn, strict) == [backend |-> backend, dsn |-> dsn, strict |-> strict]

MCEnvironments ==
  {Setting("postgres", TRUE, "blank"),
   Setting("postgres", TRUE, "malformed"),
   Setting("postgres", FALSE, "truthy"),
   Setting("unsupported", TRUE, "malformed")}
\* The bindings and the snapshots behind them (tests/test_runtime_startup.py).
MCDeletions ==
  {{"state.binding", "state._initial", "app._initial"},
   {"state._bootstrap", "app._bootstrap"}}

MCSymmetry == Permutations(Threads)
===============================================================================
