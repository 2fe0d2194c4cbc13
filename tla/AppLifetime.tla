------------------------------ MODULE AppLifetime -----------------------------
(***************************************************************************)
(* The life of the service: the process starts, chooses a repository for   *)
(* each orchestrator from the environment (app/state/repository.py), binds *)
(* one of them to the app (app/api/main.py, app/api/routes.py), serves     *)
(* requests and dies.  The database may fail to answer at any attempt to   *)
(* connect to it.                                                          *)
(*                                                                         *)
(* An orchestrator keeps its projects in a repository of its own: a        *)
(* dictionary that dies with the process, or the database that all of them *)
(* share.  A project is here no more than the fact that it is stored.  Its *)
(* id is new: no two requests store the same one.                          *)
(***************************************************************************)
EXTENDS RuntimeBindings

CONSTANTS Projects,
          Environments,     \* the settings: STATE_BACKEND, whether DATABASE_URL is there,
                            \* STATE_BACKEND_STRICT
          Deletions,        \* a bound: the sets of attributes that are deleted together
          MaxOrchestrators  \* a bound: how many are made in one life of the process

ASSUME LifetimeAssumption ==
  /\ MaxOrchestrators \in Nat
  /\ Bindings = 1..MaxOrchestrators
  /\ Deletions \subseteq SUBSET Attributes
  /\ Environments \subseteq [backend : {"memory", "postgres", "unsupported"}, dsn : BOOLEAN,
                             strict : {"blank", "truthy", "falsy", "malformed"}]

VARIABLES process,        \* "down", "starting", "importing" or "up"
          orchestrators,  \* what each orchestrator stores in, numbered as they were made
          fallback,       \* the module-level orchestrator of routes.py
          database,       \* the projects in the database
          environment,
          acknowledged,   \* history variable: the projects a caller was told are stored
          recent          \* history variable: those that claim stored since it was bound

lifeVars == <<process, orchestrators, fallback, database, environment,
              acknowledged, recent>>

allVars == <<attribute, resolver, claim, settled, lost, solo, process, orchestrators,
             fallback, database, environment, acknowledged, recent>>

\* -------------------------------------------------- create_repository_from_env

\* Mutant: a malformed flag counts as not set.
Strict_Malformed(e) == e.strict = "truthy"

\* parse_strict_env_flag
Strict(e) == e.strict \in {"truthy", "malformed"}

\* The database has to be there for a schema to be created.
Available(e) == e.backend = "memory" \/ (e.backend = "postgres" /\ e.dsn)

\* The repositories the factory may return: none if it can only raise.  What keeps it
\* from the repository that the environment names, a setting or a database that does
\* not answer, ends the start with the strict flag, and else leads to a dictionary.
create_repository_from_env(e) ==
  (IF Available(e) THEN {[kind |-> e.backend, memory |-> {}]} ELSE {})
    \union (IF Strict(e) THEN {} ELSE {[kind |-> "memory", memory |-> {}]})

\* PMOrchestrator(): one more orchestrator, under the next number.
New ==
  /\ Len(orchestrators) < MaxOrchestrators
  /\ \E r \in create_repository_from_env(environment) :
       orchestrators' = Append(orchestrators, r)

Newest == Len(orchestrators')

\* Where the orchestrator i finds projects.
Found(i) ==
  IF orchestrators[i].kind = "postgres" THEN database ELSE orchestrators[i].memory

\* --------------------------------------------------------------------- process

Init ==
  /\ Unbound
  /\ process = "down"
  /\ orchestrators = <<>>
  /\ fallback = NoBinding
  /\ database = {}
  /\ environment \in Environments
  /\ acknowledged = {}
  /\ recent = {}

\* app.api.main is imported.
Start ==
  /\ process = "down"
  /\ process' = "starting"
  /\ UNCHANGED <<bindingVars, orchestrators, fallback, database, environment,
                 acknowledged, recent>>

\* Mutant: the module-level orchestrator is left for reset_orchestrator_runtime to make.
ImportRoutes_Lazy ==
  /\ process = "starting"
  /\ fallback' = NoBinding
  /\ process' = "importing"
  /\ UNCHANGED <<bindingVars, orchestrators, database, environment, acknowledged, recent>>

\* The import of routes.py makes the module-level orchestrator.
ImportRoutes ==
  /\ process = "starting"
  /\ New
  /\ fallback' = Newest
  /\ process' = "importing"
  /\ UNCHANGED <<bindingVars, database, environment, acknowledged, recent>>

\* Mutant: create_app binds what a resolution asks for first, and no bootstrap snapshots.
create_app_NoBootstrap ==
  /\ process = "importing"
  /\ New
  /\ attribute' = [a \in Attributes |->
       IF a \in {"state._bootstrap", "app._bootstrap"} THEN NoBinding ELSE Newest]
  /\ claim' = Newest
  /\ settled' = TRUE
  /\ process' = "up"
  /\ UNCHANGED <<resolver, lost, solo, fallback, database, environment, acknowledged, recent>>

\* create_app makes another one, and binds it.
create_app ==
  /\ process = "importing"
  /\ New
  /\ Bind(Newest)
  /\ process' = "up"
  /\ UNCHANGED <<fallback, database, environment, acknowledged, recent>>

\* The process dies; one that is starting may do so because a constructor raised.
Crash ==
  /\ process # "down"
  /\ Unbind
  /\ process' = "down"
  /\ orchestrators' = <<>>
  /\ fallback' = NoBinding
  /\ recent' = {}
  /\ UNCHANGED <<database, environment, acknowledged>>

\* -------------------------------------------------------------------- requests

\* _get_orchestrator: a request resolves the binding, step by step.
GetOrchestrator(w) ==
  /\ process = "up"
  /\ Arrive(w) \/ Read(w) \/ Write(w) \/ Resolved(w) \/ Fallback(w, fallback)
  /\ recent' = IF claim' = claim THEN recent ELSE {}
  /\ UNCHANGED <<process, orchestrators, fallback, database, environment,
                 acknowledged>>

\* POST /orchestrator/run stores a project in the orchestrator that was resolved.
RunProject(w) ==
  /\ At(w, "serving")
  /\ LET i == resolver[w].binding
     IN \E p \in Projects \ acknowledged :
          /\ IF orchestrators[i].kind = "postgres"
             THEN database' = database \union {p} /\ UNCHANGED orchestrators
             ELSE /\ orchestrators' = [orchestrators EXCEPT ![i].memory = @ \union {p}]
                  /\ UNCHANGED database
          /\ acknowledged' = acknowledged \union {p}
          /\ recent' = IF i = claim THEN recent \union {p} ELSE recent
  /\ Respond(w)
  /\ UNCHANGED <<process, fallback, environment>>

\* A request that stores no new project, or one that the database does not answer.
Return(w) ==
  /\ Respond(w)
  /\ UNCHANGED lifeVars

\* ----------------------------------------------------------------- maintenance

\* reset_orchestrator_runtime: another module-level orchestrator; the bindings stay.
reset_orchestrator_runtime ==
  /\ process = "up"
  /\ New
  /\ fallback' = Newest
  /\ UNCHANGED <<bindingVars, process, database, environment, acknowledged,
                 recent>>

\* app.state.orchestrator = PMOrchestrator()
Override ==
  /\ process = "up"
  /\ New
  /\ Rebind(Newest)
  /\ recent' = {}
  /\ UNCHANGED <<process, fallback, database, environment, acknowledged>>

\* delattr, of those attributes that are there.
DeleteAttributes ==
  /\ process = "up"
  /\ \E as \in Deletions :
       /\ \E a \in as : attribute[a] # NoBinding
       /\ Delete(as)
  /\ recent' = IF claim' = claim THEN recent ELSE {}
  /\ UNCHANGED <<process, orchestrators, fallback, database, environment,
                 acknowledged>>

Next ==
  \/ Start \/ ImportRoutes \/ create_app \/ Crash
  \/ \E w \in Threads : GetOrchestrator(w) \/ RunProject(w) \/ Return(w)
  \/ reset_orchestrator_runtime \/ Override \/ DeleteAttributes

Spec == Init /\ [][Next]_allVars

\* ------------------------------------------------------------------ properties

LifeTypeOK ==
  /\ BindingsTypeOK
  /\ process \in {"down", "starting", "importing", "up"}
  /\ \A i \in DOMAIN orchestrators :
       /\ orchestrators[i].kind \in {"memory", "postgres"}
       /\ orchestrators[i].memory \subseteq Projects
  /\ process \in {"importing", "up"} => fallback \in DOMAIN orchestrators
  /\ \A a \in Attributes : attribute[a] \in DOMAIN orchestrators \union {NoBinding}
  /\ \A w \in Threads : At(w, "serving") => resolver[w].binding \in DOMAIN orchestrators
  /\ database \subseteq acknowledged /\ acknowledged \subseteq Projects

\* With STATE_BACKEND=postgres and the strict flag, an orchestrator of any life of the
\* process finds every project that a caller was told is stored, also the module-level
\* one and those that maintenance binds: none was ever left in memory
\* (docs/staging_validation_plan.md, "Persistence lifecycle checks").
StrictKeepsEverything ==
  environment.backend = "postgres" /\ environment.strict \notin {"blank", "falsy"} =>
    \A w \in Threads : At(w, "serving") =>
      acknowledged \subseteq Found(resolver[w].binding)

\* In memory, too, what the app has stored is found by every later request, as long as
\* the process lives and the app stays bound to the same orchestrator: a deleted
\* attribute never sends a request to another, empty one.
StoredIsFound ==
  claim # NoBinding /\ lost # Attributes =>
    \A w \in Threads : At(w, "writing") => recent \subseteq Found(resolver[w].binding)
===============================================================================
