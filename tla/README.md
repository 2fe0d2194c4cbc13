# A TLA+ model of codex-orchestrator

codex-orchestrator (`src/`) runs a small project through five departments, pauses
it for human approval before anything leaves the building, lets people reject,
rework and replan it, and keeps an audit trail of who decided what. Beside that
it has a *governance pipeline* that classifies development tasks (GO / PAUSE /
REVIEW) and packages the outcome for other departments. This directory models
both, and what the orchestrator stands on - the repository, the app that binds
it, the process that dies and starts again -, checks them with TLC on small
instances and proves the most important invariants with TLAPS for every value of
the constants.

Run everything from this directory:

    tlc -workers 2 -config service.cfg MCOrchestratorService
    tlapm OrchestratorService_proofs.tla

The configurations and their modules are listed under *Runs*.

## 1. Inventory

| part | state it keeps | operations | what makes it correct |
|---|---|---|---|
| **Orchestrator service** `app/orchestrator/service.py` | none of its own; it reads and saves `ProjectRecord`s: project status, five tasks, approval requests, checkpoints, artifacts, reviews, history, audit events | `run`, `resume_from_approval`, `reject_approval`, `resume_from_revision`, `start_replanning`, `record_authentication_success/failure` | status and tasks agree; a waiting project has a request; completed = delivered = approved review; no illegal transition; decisions are authorized and audited; nothing external is sent from the waiting lane without one; retries are harmless; a completed project stays as it is |
| **State graph, schema** `graph.py`, `schemas/project.py` | the transition table | `can_transition` | completed is terminal |
| **Approval policy** `services/approval.py` | default role matrix | `authorize_action` | the role matrix and the policy model of `docs/architecture.md` |
| **HTTP API** `api/routes.py` | nothing; FastAPI runs its plain functions on threads | a protected endpoint authenticates (and saves an event), then runs a handler | interleaved reads and saves never store a mixture |
| **In-memory repository** `state/repository.py` | dict of records | `get` (a deep copy), `save` (replaces) | atomic copy and replace |
| **Postgres repository** `state/repository.py` | eight tables, seven of which hold a record | `get` by seven SELECTs and a sort of the tasks, `save` in one transaction | a record that is stored is one that was saved, or a mixture of two that the code can bear; the tasks come back in an order that can be executed |
| **Agents, trend providers** `agents/`, `providers/` | none | artifacts, review verdict, provider by name (strict or fallback to mock) | an unsupported provider leaves nothing behind |
| **Governance pipeline** `services/continuation.py`, `triage.py`, `work_order.py`, `management_review.py`, `review_packet.py`, `activation_decision.py`, `approval_record_builder.py` | none, pure functions | triage -> work order -> summary -> packet -> activation decision -> approval record | gated work never continues, the record approves, escalates and is signed as was decided |
| **Dry-run orchestration** `services/dry_run_orchestration.py` | none; the caller keeps the management decision and the result | `run_dry_run_orchestration`, the record builder | as above, with whatever decision is on file |
| **Handoff builders** the same file, line 319 on | none; dicts handed from builder to builder | 17 repackaging and 46 labelling builders | labels belong to the decision; no builder gets stuck; nothing is lost on the way |
| **Runtime bindings** `api/runtime_bindings.py` | five attributes of the app, for the orchestrator and again for the auth service | bind, resolve and write back | a request uses the instance that is bound, whatever other requests do to the attributes |
| **App assembly** `api/main.py`, `state/repository.py` (factory), `runtime_flags.py` | a module-level orchestrator and the app's own, each with a repository of its own | import, `create_app`, `reset_orchestrator_runtime` | what a caller was told is stored is found again, after a restart, too, where the settings say so |
| **Authentication** `services/auth.py`, **intake**, **trend workflow** | none | token parsing; text extraction; mock report | - |
| **Monitoring, signals, health routes, db repositories** | database | - | cannot be loaded, see section 7 |

*Interactions.* A route resolves the actor, records the authentication through
the orchestrator (read, append, save) and then calls the orchestrator's handler,
which again reads, works on its copy and saves it at most once. The orchestrator
asks the approval policy for each action, one after the other, and saves the
grants and denials. Execution calls the agents in the order of the plan. The
governance pipeline is a chain of pure calls; its result is wrapped into an
envelope and goes through the handoff builders, each of which looks up the label
of the one before in a table of its own.

*What is hard.* Nothing locks a project between read and save; every lane
(approval, rejection, rework, replanning, re-planned rework, second review) resets
another subset of tasks, requests and checkpoints; clients retry; authority is
checked for several actions in turn and may fail halfway; management decisions
may be stale; forty-six tables were written one against the range of the other.
With Postgres a `get` may see half of a save that commits in the middle of it, and
a save may fail on a key or with its connection; a resolution of the binding writes
back what it read some steps ago; and there are two orchestrators in every process,
which see each other's projects only through a database.
There is no background work, no timer and no queue. `PROJECT.json` lists each
hazard with its line and the properties that look at it.

## 2. Modules

Models and what they compose:

    StateGraph   ApprovalPolicy            Governance        HandoffStages
        \          /      \                    |                  |
       PMOrchestrator  DocumentedPolicy  DryRunOrchestration      |
             |          /                       \                 |
       RecordInvariants                          `-- HandoffChain'
             |
     OrchestratorService ---- refines ---- ProjectLifecycle
        /          \
  ConcurrentApi   PostgresApi   TaskOrder        AppLifetime ---- refines ---- RuntimeBindings
                        \         /
                    MCPostgresRepository

* **StateGraph**: `graph.py` and the enumerations of `schemas/project.py`. `TransientStatuses` are the
  statuses that exist only inside a call.
* **ApprovalPolicy**: `ApprovalPolicy.authorize_action`. A policy is
  `[owner, strict, rules]`, a rule `[roles, ids]`, an allow-list a function from
  actions to ids. Ids are opaque, but for the blank one (`NoId`), which
  normalisation drops; spelling variants of action keys are identified.
* **DocumentedPolicy**: the role-to-action matrix and the policy model of
  `docs/architecture.md`, written from the document and independent of the tables and steps of
  ApprovalPolicy. By it the decisions on record and the decisions that calls take are judged.
* **PMOrchestrator**: every handler as a function from the record it read to
  `[rec, saved, reply]`. A record keeps what the handlers branch on and what an
  auditor reads. Its header says how each field abstracts the code's. An exception
  after the record was changed is `Unsaved`: the copy is dropped, as in the code.
  Approval requests are kept as (action, status) pairs: the code asks only whether there is
  a request of some action in some status. Events and history are sets; their order and multiplicity
  are left out.
* **RecordInvariants**: what one stored record satisfies, named part by named
  part; shared by the two specifications and by the proofs.
* **OrchestratorService**: one action per call: read, handle, save in one step.
  `AddManualRequest` is external: no handler opens a request for an action other
  than the external send, but the repository's tests add one (`tests/test_api.py`),
  and the handlers have code for it. `pregranted` is a history variable:
  callers of `run`, `resume_from_revision` and `start_replanning` may name actions as
  approved without any authorization, and the model keeps for which projects they did. The abstract
  lifecycle permits these sends, as the code does; that the documentation does not is the
  finding of `service_unauthorized`.
* **ProjectLifecycle**: the abstract specification: stages, settled decisions,
  permitted actions, sends. OrchestratorService implements it under the refinement
  mapping `Lifecycle`.
* **ConcurrentApi**: the same handlers, taken apart at the repository: a thread
  reads a copy, saves the authentication event, reads again, handles and saves.
* **PostgresApi**: the same handlers over the database. A worker reads a record
  SELECT by SELECT; under READ COMMITTED each statement sees what is committed by
  then, so the copy may join two saves. The other callers take one step per call, between
  any two of these statements. `save` is one step: its first statement locks the row of
  `projects` until the commit. It is refused if two reviews have one key. `Break` is the loss of
  the connection or of the process. Three history variables keep what a mixture may have lost:
  `mixed` which projects were ever saved from a torn read, `rewound` whose trail was ever
  replaced by one read before another commit, `everApproved` whose send was approved at any
  time.
* **TaskOrder**: `_order_tasks_for_execution`, one step per pass of its loop. A task is
  the position of its row; dependencies may be circular or name rows that do not exist.
  **MCPostgresRepository** puts it before PostgresApi for TLC: a list is sorted, and if it was the
  plan of the orchestrator, the API works on it.
* **RuntimeBindings**: the five attributes, one getattr or setattr per step, and
  any number of threads that resolve and write back. `claim` is the object that has to serve;
  it is given up (`NoBinding`) where maintenance leaves the winner open, as when a
  rebinding meets a resolution in flight. Nothing under `src/app` deletes or rebinds an
  attribute; `tests/test_runtime_startup.py` does both.
* **AppLifetime**: the process around RuntimeBindings: start, the choice of a repository
  from the environment for each orchestrator, `create_app`, requests that store projects,
  crash and restart, maintenance. Under `STATE_BACKEND=postgres` an orchestrator may still end up
  with a dictionary, if the database did not answer when it was made and the strict flag is off.
* **Governance**: the pure functions, each field that a later one reads. Risk levels,
  wording and ids are left out. Areas are the repository's own names; a blank one
  is `NoArea`.
* **DryRunOrchestration**: a client that runs tasks and reviews briefs while a
  management decision, possibly an old one, is on file.
* **HandoffStages**: the 46 labelling builders, each with its table and the ids that it copies. **HandoffChain**: builders called in any
  order on whatever artifact is there; a builder raises `KeyError` (no step) when a
  key is missing.
* **MC...** modules give TLC its small sets, **..._proofs** hold theorems.

`PROJECT.json` maps each definition to its source lines. Definitions with a
suffix such as `SendGated_AskedOnce` are *mutants*: plausible bugs of the mapped
definition, each of which makes one property fail.

## 3. Runs

| run | asks | outcome |
|---|---|---|
| `service` | is every record consistent after every sequence of calls, does nobody decide whom the documented rules refuse, is a waiting project completed by nothing but an authorized approval, are retries harmless, completions final, is there always a call that gets the project on, and is ProjectLifecycle implemented? | holds, 13353 states |
| `service_rejected` | can what a paused project asks for be approved, as its answer says? | violated: an action that was rejected once is asked for again and refused for ever |
| `service_pending` | are all pending approvals satisfied before execution completes (docs/architecture.md:99)? | violated: a pending request beside an approved one of the same action is overlooked |
| `service_unauthorized` | is nothing sent without the approval of an authorized actor (docs/architecture.md:113)? | violated: a caller of `run` names the send as approved, and nobody authorizes that |
| `policy_allow_list` | does a runtime allow-list only restrict the ids of the project's rule further (docs/architecture.md:140)? | violated: it takes their place, and an actor decides whom the rule does not list |
| `api` | do interleaved requests ever store a mixture, lose an update other than through a stale copy, or leave a project that no call gets on? | holds, 274063 states |
| `api_race` | does `COMPLETED: []` hold under concurrent requests? | violated: an authentication event saved from an older copy takes the completion back |
| `governance_blockers` | do unresolved blockers prevent continuation (activation_decision.py:45)? | violated: only required review and hard gates are looked at |
| `handoff` | does gated work stop whatever decision is on file and never reach the receiver as ready, does the record follow the decision, is the work order neutral, do the two classifiers agree? Are the labels those of the decision, whatever the order of the builders, and is nothing lost or stuck? | holds, 141028 states |
| `postgres` | does the sort of the tasks end, with every task once, after what it depends on if that is possible, and does it leave an ordered list alone; what can a torn read, a refused save or a broken connection do to records, sends and the audit trail, and is every request answered? | holds, 120254 states |
| `postgres_review` | can the repository be switched "without API/schema break" (docs/architecture.md:443)? | violated: the second review of a project has the key of the first |
| `lifetime` | does a request always use the orchestrator that is bound, and is what was acknowledged found again? | holds, 3617877 states |

The seven violated runs are the *findings* of `PROJECT.json`, with the lines that
disagree. `service_rejected` and `api_race` lose work; in `service_rejected` the
only way on is another rejection. In `postgres_review` every later call that has to save the
project with its second review is answered 500. `service_unauthorized` and `policy_allow_list` are
disagreements between the code and `docs/architecture.md` about authority. Of the second,
`tests/test_approval.py:205-227` expects what the code does: the caller's ids are the effective
ones, not their intersection with the rule's. No test names an action as approved when it runs a project.

`GatedWorkNotReleased` looks at the labels of the receiver only, the first sixteen. The thirty that the
consumer adds behind them grow with the urgency of the case, as the tests expect
(`tests/test_dry_run_orchestration.py:12841-12847`): gated work under REVIEW
gets `permitted`, `clear` and `release`, work under GO `not_permitted`, `blocked` and `hold_release`.
Nothing is claimed of those but that each recommendation has its own (`LabelsIdentifyDecision`).

*Bounds, and why they are enough.*

* `service`: one project, because no handler reads another one's record. Two
  actors, an approver and an operator who is also the owner under the second, strict policy, so
  that each of them is allowed something the other is not, and a call for two
  actions can be granted one and denied the other. The third policy has a rule for the send that
  lists a blank id, and so nobody. Lists of the caller's are the subject of `policy_allow_list` and of the
  theorems, which have no bound on them. Action sets: none, the send, a manual action,
  both, a malformed value. Providers: mock, external, unsupported, with strict provider
  selection (an exception in mid-call). Every lane can be taken repeatedly: what ends is the state, as
  the second review approves (simulated failures exist only in `run`).
* `service_rejected` and `service_unauthorized` leave out the manual requests: their cases need only the send.
* `policy_allow_list`: two approvers, of whom the project's rule lists one and the caller's list, if
  there is one, the other.
* `api`: two threads and one project; a lost update needs two, and a thread that
  finished can start again, so longer chains of staleness happen too. One
  authorized actor: who may decide is the subject of `service`. Non-strict
  providers, without the unsupported one. Threads are symmetric; the properties
  name no thread and none is a liveness property.
* `handoff`: fourteen sets of areas: one or two areas of one hard gate, areas of two gates,
  the cross-department mark alone and with a gate, low-risk areas alone and mixed with gated
  and ordinary ones, a blank one. Only membership is ever asked of the set. Briefs with and
  without a gate of their own; no decision, or any decision, a stale one too, on
  file. All 46 stages are there.
* `postgres`: every list of up to three tasks whose dependencies may include themselves and a
  row that does not exist, every list of four tasks without these, and the orchestrator's own plan.
  Cycles of two, three and four tasks, forks and joins are among them. The API runs on the plan,
  the one list it stores. Of its threads, one is followed statement by statement and the others call atomically
  between any two statements; a copy can thus join any number of saves. `RereadDamaged = FALSE`: a
  record that is a mixture, or has an older trail, is not taken up by this thread a second time
  (the other callers do take it up). The theorems about PostgresApi have neither bound. One approver, two providers.
* `lifetime`: two threads, symmetric; three orchestrators in one life: the module-level one,
  the app's, one of maintenance. One project: what is asked is whether it is found. The environments are
  the ones that tell the factory's branches apart, a malformed strict flag among them. Deletions take the
  bindings or the snapshots behind them, one set after the other if they like. Lives follow one
  another without a bound.

No run switches the deadlock check off: an idle service can always be called, and a list that
was sorted and is not the plan stays as it is (`End`).

*Fairness.* Two specifications assume weak fairness. In TaskOrder it is that of the function's
own thread, which waits for nobody: `Termination`. In PostgresApi it is `WF(Serve(w))` for each
worker: a request that was taken up runs on its thread, and neither waits for a lock that
another one keeps nor repeats anything, so it is answered: `RequestsAnswered`, with any
number of commits in between and wherever the connection breaks. No caller is assumed
to be fair, and nothing is claimed about calls that nobody makes: a project moves only
when somebody calls. "Every waiting project is eventually decided" is a promise about
people. What can be said instead is `NeverStuck`: in every status a call is there that gets the
project on, once somebody makes it - and `service_rejected` shows where approval is not
one. `LostDecisionsCanBeRetaken` says the same of what races leave behind.

## 4. Proofs

Every invariant and every action property of the passing runs is a theorem, for all values
of the constants; so are the two refinements. Eight modules, checked by TLAPS from the named
assumptions `ServiceAssumption`, `StrictProvidersAssumption`, `PostgresAssumption`, `ReviewersAssumption`,
`RelatedIdsAssumption`, `TaskListsAssumption`, `BindingsAssumption` and
`LifetimeAssumption`; nothing else is assumed of projects, actors, policies, allow-lists,
action sets, threads, areas, gates, lists of tasks, settings or deletions.

* **RecordInvariants_proofs**: lemmas about the handlers as functions. Each takes
  a record that satisfies `RecordInv` to an outcome that does, if it is saved.
  The parts of `RecordInv` are not inductive one by one: that a resumed project completes
  with an artifact of every department (`CompletedIsDelivered`) needs to know
  which tasks were done (`TasksMatchStatus`); that a rejection finds something to reject
  needs `WaitingHasRequest`; that the status change is legal needs both. During a call the
  record is in a transient status, which `Executable` describes: the premise
  of the lemmas about the common execution step (`PauseKeeps`, `FinishKeeps`, `ExecuteKeeps`).
  A second family of lemmas says what a handler *does* to the record: it follows the old one
  (no event, no decision is lost), it grants an authorization only to an actor with a role for it, it
  decides only what the policy grants its actor, and if that refuses one of the actions it changes
  nothing but the trail.
* **OrchestratorService_proofs**: `IInv`, every stored record satisfies
  `RecordInv`, is preserved by each of the seven actions. From it `TypesAreKept`,
  `TasksFollowStatus`, `CompletionsAreDeliveries`, `WaitingHasRequests`,
  `NoIllegalTransition`, `AuditIsFaithful`. `CompletionIsFinal` is an action
  property: in a completed record every handler is refused or idempotent, except
  for authentication events and denials. From the second family: `AuditTrailOnlyGrows`,
  `EveryDecisionIsAuthorized`, `RetriesChangeNothing`. `DecidersHaveAuthority` needs an invariant of its
  own, that every authorization on file was granted to an actor with a role for it
  (`GrantsAreKept`), as a decision was authorized in an earlier state, or by an earlier call, and
  only its event is still there; with it `WaitingNeedsAuthority` follows from the
  approval being the one way from waiting to completion.
  `NoProjectIsStuck` turns to the guards: in a record that satisfies `RecordInv`, each handler of the
  project's lane gets as far as the execution, which leaves the record `completed` or waiting.
* `ServiceImplementsLifecycle`, in the same module, goes call by call: under the mapping
  `Lifecycle` each outcome that is saved is one abstract step, and one that is not is a
  stutter. The abstract step has to be found: an approval that executes at once, for instance,
  is one step that settles the decision, sends and completes. Which stage a saved record can be in needs
  `RecordInv`, so the refinement rests on `Invariance`.
* **ConcurrentApi_proofs**: `ApiIInv` adds that the *copies* of all threads
  satisfy `RecordInv`. As no handler reads anything but its copy, a save puts one
  consistent record in the place of another. `RacesNeverMix` is this, for any
  number of threads and projects. `RacesStrandNobody` adds the lemma behind
  `NoProjectIsStuck`, which is about one record and so does not ask who saved it; `FreshSavesLoseNothing` is the second family of lemmas applied to a copy that equals the record.
* **PostgresApi_proofs**: here `RecordInv` is of no use, since a torn read breaks it, and the
  handlers are called on records that no sequence of calls produces. What they keep even
  then is shown anew from the types alone (`Typed...`, `...Handled`): types, approved sends, and
  that each decision they add has its event. `PgIInv` says of each record and of each copy, for
  every number of SELECTs done, which fields are there and where they come from
  (`ReadBy`, `Gathered`), that a copy which nothing overlapped equals the table rows, that
  after six SELECTs the decisions read so far have their event in the table, or the project is
  in `rewound`. `MixturesComeFromOverlaps`, `PostgresSendsAreApproved` and
  `DecisionsHaveTheirTrail` are parts of it, for any number of workers and of mixtures.
* **DocumentedPolicy_proofs**: `AuthorizedIsEntitled`, that `authorize_action` grants exactly what the
  document's matrix and policy model do, if the caller's list of ids is taken for the rule's
  (`policy_allow_list` is about that case), and from it `MoreRolesKeepDecisions`. The theorems about
  authority rest on the first.
* **HandoffChain_proofs**: `ResultsExplained` (the result on file is the
  function's value for the request and some decision), and from it and a case
  analysis of the pipeline `GatedWorkStops` and `RecordsAreTruthful`, for all areas,
  gates and reviewers; `WorkOrderIsNeutral` and `ClassifiersAgree` are facts about the pure
  functions alone, for every task. `ChainKeepsDryRuns`: the handoff implements that
  specification. `StagesFit` looks at the 46 tables one by one: each knows the labels of the
  one before, tells them apart, carries all ids along and, on the receiver's side, releases nothing but GO. `ChainInv` says that an artifact
  carries the labels of the first k stages on the path of its recommendation (`Path`), and
  gives `LabelsTellTheDecision`, `TheChainContinues`, `GatedWorkIsHeld` and `TheDecisionIsCarried`.
* **TaskOrder_proofs**: `SortInvariant`: between two passes of the loop the counts are those
  of the dependencies still to be placed and the ready tasks are exactly those with none.
  `SortedByDependencies` follows by contradiction: what is never placed is a set in which
  every task depends on another, which an acyclic list does not have. `OrderedRowsAreKept`
  needs one more fact, that the list so far is a prefix of the rows. For lists of any length.
  `ThePlanComesBack` follows the one run of the sort on the orchestrator's plan.
* **AppLifetime_proofs**, first part: `TheBindingHolds`, for any number of threads and objects. The
  binding is not inductive by itself. `BindingsInv` adds that a settled claim stands in every attribute
  that was not deleted since, and nothing else in the others (`Kept`), so that a resolution has
  passed over deleted attributes only (`Passed`); that a rebinding which is not settled yet
  stands in the attribute that every resolution reads first (`Fresh`); and that a resolution that
  runs alone finds again what it has written (`Alone`, `Written`), and so settles the claim.
* Second part: `LifetimeUsesBindings`, that AppLifetime implements RuntimeBindings,
  step by step; hence `LifetimeBindingHolds`. `StrictServiceForgetsNothing`: with Postgres and
  the strict flag no orchestrator is ever made over a dictionary, so that after any number of crashes
  every acknowledged project is found. `AppFindsWhatItStored`: the projects that the
  bound orchestrator stored since it was bound are in its repository. `LifetimeTypes` is the type invariant.

*What stays with TLC.* `Termination` and `RequestsAnswered` are liveness properties, out of the
prover's reach. The properties of the violated runs are false. `PgIInv` itself
is only proved: it says of each field of a copy that some well-typed record has it, which TLC
cannot enumerate.

## 5. Reading the properties

* `StatusMatchesTasks` is the promise between the lanes: whatever brought a
  project into a status, the next resume finds exactly the tasks it has to run.
* `AuditMatchesDecisions` goes both ways: a decision without its event, and an event
  without its decision or without a granted authorization of the same actor for
  the same action, are both violations.
* `DecidersHadAuthority` looks at what is on record, `DecisionsAuthorized` at the calls that could
  come next: whatever they decide the documented rules must allow, and a call that is
  refused one action must leave everything but the trail as it was, the granted ones too.
* `WaitingCompletesByAuthority` is what holds of the claim that `service_unauthorized` refutes: a project
  that waits for the send gets it from an authorized approver only. A caller who names the
  send keeps the project from ever waiting.
* `ApprovalRecordTruthful` compares the record with the decision it was projected from, through two
  downgrades: an approval needs a GO that nothing blocks, the auditors are named exactly where
  REVIEW was decided, and reviewer and approver are whoever decided.
* `DecisionsAuthorized` and `RetryIsIdempotent` look one or two calls ahead from every
  reachable record. `RetryIsIdempotent` leaves out calls that left the project
  waiting (a second identical call may then meet a new request) and
  completions with a request still open (`service_pending`).
* `NeverStuck` is the other side of `WaitingCanBeApproved`, which `service_rejected` refutes. An
  actor who may decide all that is asked can always reject it, and can approve it to completion
  unless one of the actions was rejected before: that is the only case in which a
  waiting project has lost a way on. It is about the guards: a lane that left a task, a
  request or a status behind that the next handler refuses would violate it.
* `FreshCopiesLoseNothing` and `CompletionSurvivesRaces` belong together: the
  first shows that a stale copy is the only way to lose anything, the second that
  it happens.
* `OnlyOverlappedReadsMix`, `SendsWereApproved` and `TrailCoversDecisions` say how far a torn read
  can go. Records may become mixtures (the first one), but not such that something was sent that
  nobody ever approved (the second), or that a decision is on record without its event (the
  third, which rests on `project_history` being read last). The third stops at `rewound` for a
  reason: a save replaces the whole trail, so a caller that read before another one committed
  takes the other's events back. If that happens between the last two SELECTs of a third one,
  or before, this one gets the decision without its event. It takes two such requests and some
  twenty steps; a run that follows one of them alone does not show it.
* `StrictKeepsEverything` asks about the orchestrators that requests resolve to, the module-level
  one among them, which a request meets when all five attributes are gone.
* `BindingHolds` and `StoredIsFound` are conditional on `claim`. Where that is `NoBinding` the code
  promises nothing: a rebinding of `app.state.orchestrator` by hand is undone if a
  resolution that began before it writes its older object back.

## 6. Plan

Written so far, in this order: StateGraph, ApprovalPolicy and PMOrchestrator with
OrchestratorService (the heart), its proofs, ConcurrentApi, Governance and
DryRunOrchestration, the handoff chain; then TaskOrder, PostgresApi, RuntimeBindings and
AppLifetime; then the proofs of everything the passing runs check but liveness.

Next, in order of importance:

1. What is left of a violated property: under which condition blockers do prevent continuation,
   as a theorem beside the finding (as `FreshCopiesLoseNothing` is beside `api_race`, and
   `NeverStuck` beside `service_rejected`).
2. The safety half of the two liveness properties: that each pass of the sort places a task or
   returns, and that each `Serve` of a worker leaves fewer statements to execute.
3. An abstract specification of the repository (a record that is replaced as a whole) that
   ConcurrentApi implements, and PostgresApi as long as nothing is in `mixed`.

## 7. Not modelled

* PostgreSQL below the level of statements; the upgrade of an older schema; isolation levels
  other than the default one.
* `services/auth.py`: token parsing; its two outcomes are the alternatives of
  `SaveAuthentication`.
* Intake and trend workflow: text without decisions. Intake enters the dry run as a
  brief with default values.
* Monitoring, signals and health routes and `db/repositories.py`: they import
  `app.db.models`, `app.domain` and `app.utils`, which the repository does not
  contain, and `create_app` does not include them.
* The registries of agents and providers; the agents' texts.
* Artifacts' and reviews' texts, notes, timestamps, event order, risk levels; the
  brief's content.
* Scripts, SQL bootstrap and documentation, other than as quoted by properties.
