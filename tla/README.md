# ManAgent: a formal model of the agent runtime

ManAgent is a runtime that a host application starts as a subprocess and talks
to over stdin/stdout. The host sends requests in natural language; the runtime
plans, asks the host to run tools, verifies that the goal is reached, reports,
and learns from what happened. The runtime is one asyncio process: everything
that goes wrong in it goes wrong between two `await`s.

This directory holds TLA+ models of its core, the TLC configurations that check
them on small instances, and TLAPS proofs of the safety properties for
every instance. Paths below are relative to `src/`.

| module | what it is |
|---|---|
| `CallTicket` | abstract specification: the life of one `call_id` |
| `TurnProtocol` | the turns of a conversation, their host calls, stops and resets |
| `TurnProtocolProofs` | its invariants and its refinement of `CallTicket`, proved |
| `MCTurnProtocol` | its instances for TLC |
| `SolverLoop` | `Solver.run`: attempts, budgets, resignations, verification |
| `SolverLoopProofs` | its invariants and action properties, proved |
| `MCSolverLoop` | its instances for TLC |
| `SkillLifecycle` | one learned skill: trial, production, quarantine, repair, retirement |
| `SkillLifecycleProofs` | its invariants and its action property, proved |
| `MCSkillLifecycle` | its instances for TLC |
| `PlanGates` | the static checks of a plan, as operators |
| `PlanReview` | a plan from proposal to acceptance: gate, judge, consent, warnings |
| `PlanExecution` | the execution of an accepted plan, over `PlanReview` |
| `PlanExecutionProofs` | the invariants of the review and of the execution, proved |
| `MCPlanExecution` | its plans for TLC |
| `KeyPool` | the pool of API keys of a provider, as operators |
| `Vendors` | what each provider makes of the replies of its service |
| `LlmCalls` | the calls to the models over shared providers |
| `LlmCallsProofs` | its invariants, and those of the pool of keys, proved |
| `MCLlmCalls` | its instance for TLC |
| `Explorers` | the seven explorers: goals, tools, plans, signatures |
| `Discovery` | structured calls that ask for discoveries, and the shared cache |
| `DiscoveryProofs` | its invariants, proved |
| `MCDiscovery` | its instance for TLC |
| `TargetContracts` | contracts of tools about targets, and what the parser admits |
| `TargetRegistry` | the registry of targets, as operators |
| `Targets` | targets in use: tools, perceptions, calls in flight, purges |
| `TargetsProofs` | the invariants of the registry and of the calls, proved |
| `MCTargets` | its instance for TLC |
| `Lessons` | what is learned: episodes, lessons, consolidation, embedding space |
| `LessonsProofs` | its invariants, proved |
| `MCLessons` | its instances for TLC |

To check a module: `tlc -config MCSolverLoop.cfg MCSolverLoop`; to check proofs:
`tlapm TurnProtocolProofs.tla`.

## 1. Inventory

### Turn protocol (`main.py`, `transport/`, `core/orchestrator.py`, `core/runtime_state.py`, `core/execution_context.py`)

*State.* `runtime_state.cancel_requested`, `generation_epoch`,
`pending_tool_calls` (call_id -> future), `current_mission_id`, the approvals
given for missions, the heartbeat task, and, in a context variable, the epoch of
each turn.

*Operations.* `main.process_packet_task` runs each packet in a task of its own:
`chat.send` opens a turn (`_handle_chat_send`, then `_handle_direct_decision` or
`_handle_mission_decision`), `tool.result` resolves a future,
`chat.stop`/`chat.reset` raise the flag and the epoch and release every future,
`runtime.configure` re-arms the flag.

*Interactions.* A turn calls the LLM through `Llm._await_cancellable`, which polls
flag and epoch; it asks the host through `_execute_external_tool` and
`_request_human_confirmation`, which register a future and then call
`propagate_event`; `propagate_event` drops events of older epochs and everything
while a stop is in force.

*Hard.* Turns overlap; a new request re-arms the flag while a stopped turn still
unwinds; a stop awaits in its middle; answers come late, twice, or for released calls.

*Correct when* the host hears one turn, a stopped turn stays silent, no future is
lost or settled twice, and the turn it hears ends.

### Solver loop (`core/solver.py`, `core/plan_models.py`, `core/execution_models.py`)

*State.* Attempts, `execution_attempt`, `max_allowed`, `_preexecution_failures`,
the streak of supervisor rejections, `fail_history`, `tool_fail_streak`,
`strategy_refreshed_key`, `_host_target_refusals`, material success counters; and
the orchestrator's count of granted extensions.

*Operations.* One iteration of the loop: resign or rethink, plan, have the plan
judged, execute, verify the goal.

*Interactions.* Planner, supervisor, executor, the orchestrator's
`request_retry_extension`, the verification judge, the skill lifecycle at the end.

*Hard.* Three budgets, a dozen exits, counters kept in different objects, an
extension that re-enters the loop's head, a stop flag that may be set and cleared
while an `await` lasts.

*Correct when* attempts are bounded, no attempt follows a doomed failure, each
attempt is settled, success is proven and the loop ends.

### Skill lifecycle (`core/skills/`, `memory/mission_profile_store.py`)

*State.* SQLite rows: versions with state, provenance and trust counters, the
production pointer of the skill, the streak of successes of the mission profile.

*Operations.* The end of a mission (`_handle_skill_lifecycle_post_execution`),
synthesis, repair, execution by the host (`execute_skill`), the packets
`skill.set_state` and `skill.import_package`.

*Hard.* The registry is read before an LLM call or a host call and written after
it; two breakers, a fallback choice of the active version, a ceiling of repairs.

*Correct when* the pointer serves a live version, one version is in production,
verdicts take effect, the dead stay dead, repairs are bounded.

### Plan execution (`core/executor.py`, `core/plan_validator.py`, `core/planner.py`)

*State.* The registry of variables, shared by the attempts of a solver; the nodes
of the plan and their status; the record of consents per mission; the warnings kept
for the final verification.

*Operations.* The planner's check, the deterministic gate and its repair, the
judge, the user's consent; then, step by step, condition, skip, wait, call, one
retry, or a child solver, and the judgement of its result.

*Hard.* Three readers of one plan with three rules for names; values of earlier
attempts stay readable; a step has a dozen exits, each of which must tell its child
solver the verdict; consents and warnings outlive the plan they were about.

*Correct when* a step reads what its own attempt made, a plan that reaches the
verification did its crucial steps, a consent is inherited only for what was seen
and allowed, the warnings describe the accepted plan.

### LLM access, providers and keys (`core/llm.py`, `providers/`)

*State.* Per call: current model, excluded models, attempts, iterations, barred
kinds. Shared by all calls of a provider: the order of its keys, their rests, the
streak, and the fields `model_name` and `call_epoch`.

*Operations.* A call asks; the provider tries its keys in turn; rate limits,
lost connections, refusals and answers move the pool; the call falls back to another
model, retries, or is stopped by a poll every 100 ms.

*Hard.* Six vendors with six ideas of an error; fields written by one call and read
by the task of another; keys that come back while a call excludes their model.

*Correct when* each call ends, does not go back to a spent model, and what it
returns asks for nothing more.

### Discovery (`core/discovery/`, `core/cache.py`)

*State.* Per call: the plan of the session and what it found; shared: the table of
refined contexts, one row per signature, with a ceiling.

*Hard.* Sessions of several calls look up, store and trim with awaits between; a
session goes on after a step that failed; a model may ask for ever.

*Correct when* failures stay private, the table is bounded, every call is answered.

### Targets (`core/targets.py`, `core/target_contract.py`, `core/target_ingress.py`, `core/targeting.py`, `tools/internal_tools.py`)

*State.* The registry: entries under random local names, an index by correlation
and one by reference; names bound to aliases of a plan; calls in flight.

*Operations.* An answer registers, refreshes or invalidates targets; a call
resolves names to references; a perception selects one, looks closer by probes, and
acts; a stop, a reset, a configuration or a manifest purges.

*Hard.* Targets move, disappear and trade references while answers come back in any
order; names outlive the registry they were made in.

*Correct when* the index is true, the freshest report wins, a call reaches the
target its step chose.

### Lessons (`core/learner.py`, `core/entity_learner.py`, `memory/lesson_store.py`, `memory/mission_store.py`, `core/embedding_service.py`)

*State.* Episodes with their mark; rows of lessons with their evidence, flags,
label and vector; the active embedding model and the space of the store.

*Operations.* Analysis of all unmarked episodes (background or on request),
consolidation of groups with enough evidence, facts noted by a turn, the host's
edits, purges and swaps of the model.

*Hard.* Every lesson awaits a model, an embedding and a cache; analyses and
consolidations overlap; the heir and the filing of its sources are two
transactions; a vector is made in one space and labelled in another.

*Correct when* a marked episode was taught, no lesson is filed without an heir, and
each vector bears the name of its model.

### The other components

| component | state and operations | hard behaviour | correct when |
|---|---|---|---|
| Packet I/O | none beyond the stream; parse, dispatch, serialise | errors in the packet's own task | a bad packet disturbs no turn |
| Event bus | subscribers | a subscriber fails | `emit` always returns |
| Supervisor, mission orchestration | warnings, approvals, mission data in fields of the orchestrator | a second mission resets the fields of the first | each mission saves its own data |
| Tools manager, effects | catalogue of tools, declared effects | none of its own: synchronous | - |
| Alignment | none | - | verdicts match the observation |
| Mission memory | one-statement SQLite rows | - | - |
| Compaction | text | - | - |
| Prompts, i18n, reports | text | - | - |

`PROJECT.json` has the status of each and, under `hazards`, what is hard to test
in this code, line by line, with the properties that cover it.

## 2. What is modelled

### TurnProtocol

One action is the code between two suspensions of one task. `pc[t]` names where
turn `t` is suspended: in an LLM call (`LlmStates`), waiting for the host
(`CallStates`), or in other awaited work. `cancel`, `genEpoch`, `pending`,
`currentMission`, `approvals`, `hbTask` are the shared fields of the code;
`epoch[t]` is the turn's context variable, `callEpoch[t]` the epoch that
`_await_cancellable` remembers. `Silenced` is the suppression rule of
`propagate_event`, `Dispatch`/`Resume` are `_execute_external_tool`, `Release` is
the body shared by stop and reset, split from `HostOrders` by the one suspension
that matters (the cancelled heartbeat is awaited before the futures are released).

`ToolResult` answers only calls the host was asked for; `ToolResultRepeated` is
the second answer that arrives before the waiting coroutine has run.
`stopped` and `heardLate` are history variables.

Abstracted: contents of plans, messages and results (a verdict is a choice); a
mission's plan is flat (a child solver's planning is one more attempt); the two
loop iterations of an inner heartbeat cancellation are folded.

`CallTicket` is the promise about one call: issued once, shown or not when
issued, settled once (by the host only if shown, or by an interruption that
settles any set of open tickets), consumed once. `TurnProtocol` implements it
under the mapping `TicketState`, `TicketOutcome`, `shown <- asked`.

### SolverLoop

The root solver's `run`. A failure is abstracted to what the guards compare
(`cause`, tool, symptom, material count), from which `Sterile`, `Circular`,
`Starved`, `ReculKey`, `Hopeless` follow as in `plan_models.py`. `Head`,
`Rethought` and `Extended` are the three ways into the decision `Continue`; the
plan phase, the judge, the executor's verdict and the verification are actions of
their own. `Interrupted` is the `CancelledError` that nothing in `run` catches,
`Crashed` the `except Exception`. `Flag` sets and clears the stop flag at any
await, because other packets do.

### SkillLifecycle

One skill. `versions` are its rows in order, `pointer` is
`current_production_version` (0 is NULL), `streak` the consecutive successes of
the profile, capped where the code stops telling them apart. `doing[m]` is what
mission `m` awaits: nothing of the registry's concern, the LLM that synthesises
or repairs, or the host that executes a version. The actions are the blocks
between awaits: six ways a mission ends, the end of the LLM calls, start and end
of an execution, `Abandon` (failure, cancellation, restart), and the host's two
packets. `Active` is `get_active_skill`, `Transition` and `Fail` are
`transition_state` and `record_run_metric`, with their two different ways to
clear the pointer.

`VerdictsApplied` has a clause for executions that a package of the host outlives:
an import empties the skill, versions are numbered anew, and an execution that was
under way charges its failure to the version that has its number now, even one on
trial, where no breaker looks (`registry.py:741`). Each other mission may bring one
such failure, which is why the set of missions is finite and not empty
(`MissionsAreSome`).

The champion comparison before a promotion (`solver.py`, margin) is not an
action: `get_active_skill` returns the version that is being promoted, so the
comparison never has another version to compare with; `LoneProduction` is the
reason why that does no harm. `skill.repair` is left out: its handler calls
`reg.get_version`, which the registry does not have, so it always ends in an error.

### PlanGates, PlanReview and PlanExecution

`PlanGates` has the planner's `_validate_plan` and the supervisor's gate
(`PlanValidator`) as operators on plans; a plan is a sequence of records, a name is
a flavour (bool, data, bare) and a root. `PlanReview` is `validate_plan`: the gate
opens, repairs or refuses, the judge accepts, refuses, accepts in part or asks for
consent, `Inherits` is the rule by which a later plan needs no new question, and
`notes` holds per channel of warnings the attempt it describes. `PlanExecution` adds
`execute_plan`: `at` is where a step is suspended, `Find` is
`_find_var_in_registry`, `Credit` is what a child solver is told. Serial numbers
stand for the random suffixes of step ids; only their order is read. The results of
tools are members of `Contents` or missing; what the judge of a step says is a choice.
`SolverLoop` and `PlanExecution` abstract the same loop in two directions: there the
plan is a verdict, here the budget is `MaxAttempts`. `LongestPlan` bounds the length
of a plan, so that the serials of an attempt do not run into those of the next.

`UnboundOnlyIfUnmade` says where planner, gate and executor agree on names, and names
the two ways in which a condition may pass all three and still find nothing: the
planner takes a value for the status of the same name, and a target for the status
of the same name, while a step whose type was not told may succeed without binding
its target (`executor.py:1400`). `ReadsPreferTheAttempt` needs `NamesApart`: no
output is called like a step.

Not modelled: the text of results (`execution_serializer`), the long-text assets
beyond the mark of a missing one, remarks about repetition, the depth judge.

### KeyPool, Vendors and LlmCalls

`KeyPool` is `base_provider.py`: rests are remaining times, `Tick` lets them elapse.
`Vendors` has one record per provider: which replies are rate limits, whether a lost
connection goes on with the next key, what becomes of each kind of content. An action of
`LlmCalls` is the code between two awaits of a call: `Asks` writes the provider's
shared fields and schedules the task that reads them; `Send`, `Reply` and `GiveUp`
are the rotation; `Poll` is `_await_cancellable`; the rest is what the `Llm` does
with an outcome. `Others` are all the other calls of the process, which may use keys
and write fields at any time. `generate_text`, the plain structured call and the
investigating one are three kinds of one record.

Not modelled: prompts, payloads, usage, events, streaming (`Llm.stream` calls a
method no provider has), registration of keys and models.

### Explorers and Discovery

`Explorers` has, for each of the seven, its goals (fixed, and free ones that may not
be cached), its tools, what a tool may answer and which plans it makes of a request;
where a model drafts the plan, any short sequence of steps is possible. `Discovery`
is the loop of a call (ask, be refused, conclude), the engine (look up, start a
session, store), the session (one step per action, a step that raises ends it) and
the table (replace by signature, count, clean up by least recent use: which entries
tie in the same second is open, so any may go). The insertion, the count and the
cleanup are steps of their own, with those of other calls between them. `LlmCalls`
has the same loop with the discovery as one step, because there the provider
matters, here the cache.

Not modelled: the content of answers, the registry of data assets and the ingestion
of inputs, errors of the database, invalidation by markers (its markers never match
a signature).

### TargetContracts, TargetRegistry and Targets

The contract of a tool is a record, admitted whole or not at all. The registry's
operations are synchronous in the code and operators here. `Targets` runs steps side
by side: a call to a tool (`call`), `perceive_understand` and `perceive_action`,
each a sequence of host calls with a selection and probes between them. The host's
world is a sequence of places of its targets, one per generation; each answer tells
the world of the moment it was made and arrives when it likes. `told` is a history
variable: the newest generation at which any answer *listed* a target; what answers
say of targets that are gone is not counted in it. A probe may lack a tool (it is then
refused, which the instance does not try) or a subject (its tool is called without a
target). A `perceive_action`
without an alias gets a default one, a name no plan reads, so that the model binds
nothing for it.

Not modelled: attributes, descriptions and media; explicit `target_args`; garbled
answers; `source_data`; the closing analysis of `perceive_understand` by the LLM;
purges by scope or inactivity and `_choose_target_with_llm` (never called). A local
name is reused only when nothing refers to it any more, which keeps the names finite;
`NamesSuffice` is the bound that they do not run out.

`FreshestReportWins` is about two sorts of targets. Whatever the host does with its
references, what an entry says is what the host said of its target at the generation
the entry holds. That this is the newest generation told holds of targets whose
references are never another's (`Confusable` ones are the rest): a report may be
ignored for the newer one of the target that has the old reference now (section 5).

Removals are told apart from listings because the code treats them differently. A
removal older than the listing it finds is refused, whatever the order of delivery
(`RemovalsAreNews`: what the registry holds for gone had gone then or since). A
listing older than the removal is *not* refused: `invalidate` compares generations but
leaves the entry's own as it was, so that the listing is taken for news and the target
comes back. No property promises otherwise; section 5 quotes the host contract, which
does.

`DatesAreNamed` and `NamesAreDated` say of contracts that a generation is read with the
correlation it belongs to, and a correlation with its generation; `AliasesAreStrict`
says of plans that an alias is given to a parameter that takes nothing but targets.

### Lessons

An action is the code between two awaits of one task. A task analyses (`asking`,
`embedding`, `told`), consolidates (`merging`, `filing`), notes a fact or swaps the
space. The text of a lesson is a model value up to case and blanks; evidence is
counted up to the threshold. `offered` and `disowned` are history variables. Every
lesson's LLM call has a fallback, so only the embedding can fail; an error of
the database inside `upsert_lesson` is logged and forgotten, and the model lets it
happen at each write. `Stop` is a stop or a cancelled download, `Restart` the end of
the process: rows and episodes stay.

An edit of the host may change any field a group is made of: the subject of the row
(`entity_type`, `scope`, `environment`), its polarity, its evidence, whether it is
active or filed, or its text. `disowned` are the subjects the host took rows from or
moved rows to; `FiledLessonsHaveHeirs` promises nothing about them, since there the
host, not the consolidation, decided which rows stand beside which.

Not modelled: confidence and contradictions (they rank rows: any row of a group may
win), a vector the host sends along with an edit, locks and revisions of an edit,
the limit of 20 rows compared, the search for advice, the space of the profile
store, episodes that teach nothing. A host edit is one step; the code makes it in
two transactions of a worker thread.

## 3. What is checked

| run | bounds | shows |
|---|---|---|
| `turn_safety` | 2 turns, 3 calls each, 1 attempt, 2 stop/reset orders | `StoppedTurnsStaySilent`, `OneAudibleTurn`, `PendingIsExact`, `AudibleWaitsAreAsked` |
| `turn_progress` | 2 turns, 2 calls, 1 order, with fairness | `AudibleTurnsEnd`, and `ImplementsTickets` (refinement) |
| `stop_ends_turns` | 1 turn, 1 order | refuted: a stopped turn may wait for ever (finding) |
| `approvals_of_mission` | 2 turns, no order | refuted: an approval lands on another mission (finding) |
| `solver_loop` | 3 tries, 1 extension, 2 rejections, 1 tool | `BudgetHolds`, `SuccessIsProven`, `NoAttemptAfterDoom`, `AttemptsAreSettled`, `ExtensionsAreEarned`, `RunEnds` |
| `skill_lifecycle` | 2 missions, 3 versions, 1 packet of the host, 1 repair | `PointerServes`, `LoneProduction`, `RepairsBounded`, `VerdictsApplied`, `DeadStayDead` |
| `plan` | 9 plans, 2 attempts, 3 policies | `ReadsPreferTheAttempt`, `UnboundOnlyIfUnmade`, `CrucialStepsSucceeded`, `ChildrenCredited`, `InheritedConsentWasGiven`, `WarningsAreCurrent` |
| `llm_calls` | 1 call among others, 2 models of 1 provider of any vendor, 2 keys, 2 attempts, 2 iterations, with fairness | `SpentModelsAreLeft`, `CallsEnd` |
| `discovery` | 2 calls, 5 requests, 3 iterations, 1 cached entry, with fairness | `FailuresStayPrivate`, `CacheStaysBounded`, `CallsGetAnswers` |
| `targets` | 2 branches of a plan, 2 targets that share a reference, one of them with two of its own, 5 tools, 2 changes of the world, 1 purge, 1 probe | `RegistrySound`, `FreshestReportWins`, `RemovalsAreNews`, `ActsOnTheChosen` |
| `lessons` | 1 mission with two lessons, 2 tasks, 3 rows, 1 act of the host | `AnalyzedMeansTaught`, `FiledLessonsHaveHeirs` |
| `clean_spaces` | 1 task, 2 models of one dimension | refuted: a vector is filed under another model (finding) |

The passing runs also check their module's `TypeOK`, except `turn_progress` (whose
module `turn_safety` checks), `discovery` and `targets` (whose invariants speak of
every field the type does). Each property of a passing run has a
mutant in `PROJECT.json`: a plausible slip in a modelled definition that TLC
shows to break it; the slips stand beside the definitions they distort.

**Why these bounds.** Two turns are enough for every overlap the code
distinguishes: the shared fields only tell the latest turn from all others, and
turns of three would add another older one. Three calls let a turn ask for
consent, call a tool and retry it. Two orders give a stop during the suspension
of another and a stop after a re-arming. In `SolverLoop` the streaks that matter
have length 2 or 3: three tries and one extension reach each resignation, and one
tool suffices because a failure may also blame no tool. In `SkillLifecycle` two
missions are needed for a read-then-write overlap, three versions for a version
on trial beside one that serves and one that is dead; `BreakerMax` and
`EngineBreaker` differ so that both limits act; one host packet is enough to
disturb any state.

In `plan` each of the plans is there for one hazard (`MCPlanExecution` names it),
and two attempts are what a value of an earlier attempt, an inherited consent or a
warning of an earlier plan needs. In `llm_calls` the rest of the process is
`Others`, so that one call suffices; two keys make a rotation, two models a
fallback, two attempts a retry, two iterations a repeated investigation, and every
vendor is tried. In `discovery` two calls are needed to store together, and a table
of one entry is already full. In `targets` two branches register and use targets
side by side, and two changes let a target move and disappear, or two trade places,
between a choice and a call. Target `t1` may be at `r1`, `r2` or `r3`, `t2` at `r2`
only: a world that never puts `t1` at `r2` has a target that moves between places
nobody else ever has, one that does has targets that can be taken for each other;
`r1` and `r3` are interchangeable, which is the symmetry of the run. In `lessons`
two tasks overlap in every pair of kinds, two lessons of one episode have a middle
in which an analysis can be lost, and one act of the host or one restart may fall
between any two steps; an instance with two missions and three lessons (5.6 million
states) was checked once and holds too.

Deadlock checking is off where the system may properly stop: every turn or branch
done, the run over, a bound reached. In `discovery` the end is an explicit step.

**Bounds in the guards.** `MaxCalls`, `MaxAttempts`, `MaxOrders` (TurnProtocol; and
one order at a time awaits the heartbeat), `MaxVersions`, `MaxHostActs` and
one-version packages (SkillLifecycle), `MaxAttempts` (PlanReview: proposals of a
solver), `MaxPlan` (Explorers: steps of a drafted plan), `Changes` and `MaxPurges`
and that local names suffice (Targets), `LongestPlan` (the plans a model writes),
`MaxRows` and `MaxActs` (Lessons). SolverLoop, LlmCalls and Discovery have
no other bound than the code's own ceilings.

**Fairness.** `TurnProtocol` assumes weak fairness of each turn's next step
(`Proceed`), of the host's answer to a call it was asked for (the contract of
`docs/HOST_CONTRACT.md`, and nothing without it could be live), and of the end of
a stop handler (it awaits a cancelled task only). LLM calls end because they have
timeouts; the model lets them abort. No fairness is assumed of requests, stops or
configuration. `SolverLoop` assumes weak fairness of `Run`, for the same reason;
nothing of `Flag`. `LlmCalls` assumes weak fairness of each call's next step: the
loop runs what can run, pauses end, and a request is answered, fails or times out;
nothing of `Tick`, `Stop` or `Others`, so `CallsEnd` holds although keys may rest for
ever. `Discovery` assumes the same of each caller; nothing of the purge. That a model
stops asking is not assumed: the ceiling of the loop makes it. `SkillLifecycle`,
`PlanExecution`, `Targets` and `Lessons` state safety only.

## 4. What is proved

TLAPS checks, for every set of turns or missions and every value of the bounds:

* `TurnProtocolProofs`: `TypeCorrect`, `StoppedStaySilent`, `OneTurnIsHeard`,
  `TableIsExact`, `WaitsAreAsked`, and `TicketsImplemented`
  (`Spec => Ticket!Spec`). Assumptions: the bounds are naturals, `None` is no turn.

  None of the properties is inductive. The argument is `Inv`: `EpochInv` (epochs
  are drawn once and never exceed the current one; under the flag, and for every
  stopped turn, they are below it), `TableInv` (calls are drawn in order; an open
  future is in the table, and what is in the table is awaited by its turn),
  `AskedInv` (a turn of the *current* epoch was heard when it asked). The last is
  the heart: a request is only suppressed for an older epoch or under a flag that
  came with a newer epoch, and an epoch never becomes current again. The steps of
  a turn fall into three classes (move, dispatch, resume), so each of the twenty
  actions is first shown to be in a class and each class to preserve each conjunct.
  The refinement maps each class to one ticket action or a stutter; `Release` is
  the `Interrupt` of all open tickets.

* `SolverLoopProofs`: `TypeCorrect`, `TheBudgetHolds`, `SuccessProven`,
  `NoneAfterDoom`, `AttemptsSettled`, `ExtensionsEarned`. Assumption: the bounds are
  naturals (zero included, and whatever the sets of tools and symptoms).

  The counters only mean something at the places where the loop waits, so the
  invariant says for each place what they have in common there. `BudgetInv`: the
  attempts opened are those executed, those refused, and the open one while it is
  planned or judged; the open one is funded (`executed < allowed`), refusals below
  their limit bring back to the head, and each extension adds as much to `allowed`
  as to `granted`. `SettledInv`: no attempt is open outside planning, judging,
  executing and verifying. `EarnedInv`: what was tested before the extension was
  asked for still holds at the answer. `DoomInv`: what no plan can cure is never
  the last failure where the loop may go on, and a recul is never after a sterile
  repetition (`Rethought` opens an attempt without testing that again). `ProvenInv`:
  the goal is only verified when the totals are not hollow. The sixteen actions of
  `Run` are first reduced to eight kinds of steps (`Starting`, `Heading`,
  `Extending`, `Refusing`, `Accepting`, `Concluding`, `Ending`, `Waiting`); each
  conjunct is preserved by each kind.

* `SkillLifecycleProofs`: `TypeCorrect`, `ThePointerServes`, `ProductionIsAlone`,
  `TheDeadStayDead`, `VerdictsAreApplied`, `RepairsAreBounded`. Assumptions:
  thresholds are positive, bounds are naturals, missions are finite and some.

  `PointerServes` and `LoneProduction` need each other. A promotion demotes nobody;
  it leaves one version in production because an *active version on trial* implies
  a NULL pointer (the pointer, when it is set, is what is active, and until the
  host edits states it points at production), and a NULL pointer implies that
  nothing is in production (`TrialsAreAlone`). `Moved` and `Broken` state once what
  a transition and a failed run do to the registry; each action is one of them, an
  appended version, or leaves the registry alone.

  `VerdictsApplied` becomes inductive when the failures of a version are counted
  together with the executions still charged to its number (`Charges`): an execution
  that ends moves one from the second count to the first. `RepairsBounded` counts
  repairs made and repairs awaited the same way; an import forgets the first and not
  the second, which does no harm because where none is allowed none is awaited.

* `LessonsProofs`: `TypeCorrect`, `TheAnalyzedAreTaught`, `TheFiledHaveHeirs`.
  Assumptions: every episode teaches something, bounds are naturals.

  What the loop over the lessons of an episode cannot see of itself is in `Sound`: a
  task at lesson `n` has offered all lessons before it, and a task that files a group
  has an heir for it in the table (or the host had a hand in it). Both are claims about
  shared state; they last because no step takes back an offer or an heir.

* `LlmCallsProofs`: `TypeCorrect` (which says that every key keeps one place in the
  order of its pool), `TheSpentAreLeft`, `TheLoopAnswers`. Assumptions: there are
  keys, finitely many, and each rest is positive (`RestsAssumption`); calls, models and
  providers fit together (`LlmAssumption`).

  `Placed` says of the order of a pool that it is a permutation; a demotion and a
  promotion take one key out (`Shortened`) and put it at an end. `Fine` says of a call
  at each await what it may have come to: its model is not among those it excluded,
  because a fallback excludes the last model and takes another in one step; what ends
  asks for nothing more.

* `DiscoveryProofs`: `TypeCorrect`, `FailuresAreNotShared`, `TheTableIsBounded`.
  Assumptions: the limits are positive, the callers finite.

  A call that is about to store has found no failure, from the end of its session over
  the awaits to the insertion (`Sound`), so the table holds none and has one answer per
  signature (`TableSound`). The table outgrows its limit only by those calls that have
  inserted and not yet trimmed, which are counted (`Trimmers`).

* `PlanExecutionProofs`: `TypeCorrect`, `TheVerifiedIsDone`, `TheChildrenAreTold`,
  `TheInheritedWasGiven`, `TheWarningsAreCurrent`, `TheUnboundIsUnmade`, and
  `TheAttemptIsRead` under `NamesApart`. Assumptions: plans are sequences
  of steps of bounded length (`PlansAssumption`), and there is an attempt to make.

  The invariant has six parts. `Control` ties status, credits and returned children to
  the step in hand; `Heard` ties the records of consent to what was shown, and the
  warnings to their attempts; `RegistryOK` says what a key and its mark may be: a
  serial belongs to the attempt that wrote it (serials of two attempts never meet,
  which is arithmetic on `SerialIn`). `SuccessesMade` says that a step that succeeded
  left its status and its value, written in this attempt; `Admitted` and `Resolved`
  that what the planner and the gate took as known is still known when the plan runs,
  because nothing is ever deleted that they may have seen. `TheAttemptIsRead` then
  follows the ranks of `_find_var_in_registry`: the greatest serial of all is one of
  this attempt, as soon as this attempt has written the name.

* `TargetsProofs`: `TheRegistryIsSound`; `TheFreshestWins` and `TheRemovedHadGone`
  under `DatesAreNamed`;
  `TheChosenIsMeant` (an action property) under `DatesAreNamed`, `NamesAreDated` and
  `AliasesAreStrict`. Assumptions: an executable plan, contracts whose anchors are no
  targets, finitely many targets and names, references that exist.

  An answer is two folds over the registry, so that its effect is found along the
  steps of the fold (`FoldSteps`, `RegisterStep`, `UpdatesAll`). `Fine` (types and
  index) holds of the registry after each. `Faithful` says of every entry that it is
  what the host said (`Told`), and of every target that keeps its references to
  itself that its one entry is found by its correlation, holds the newest generation
  it was listed at and is nobody else's (`Kept`), and that an entry that is not
  active had gone in a world since its own (`Departed`). `Grown` and `Stays` carry a
  name over an answer: a name that somebody holds is not drawn anew, and does not
  come to stand for another target. From these an alias bound long ago stands for
  its target whenever its name is known (`AliasOK`), and the membrane lets out no
  name that is not.

Some of these arguments count or go along a sequence. The induction theorems of the
library take an operator and cannot be used here; in their place stands `Least` (every
non-empty set of naturals has a least member, from the well-foundedness of `<`): a
statement about all places of a sequence is proved from the least place where it fails.
It is stated in the modules that need it.

The hypotheses of `TheAttemptIsRead`, `TheFreshestWins`, `TheRemovedHadGone` and
`TheChosenIsMeant` are
`ASSUME`d by `MCPlanExecution` and `MCTargets`, so that TLC evaluates them on the
instances it checks; where they fail the code does what section 5 tells.

Only model-checked: all liveness (`AudibleTurnsEnd`, `RunEnds`, `CallsEnd`,
`CallsGetAnswers`), because fairness and ENABLED are out of the prover's reach. Every
other property of a passing run is the subject of a theorem. Only proved:
`FinalAnswersAskNothing` of `LlmCalls` (what the loop of investigations returns asks
for no more), which follows from the guards of its answers.

## 5. Disagreements between the documents and the code

1. `stop_ends_turns`: a turn that is between two host calls when `chat.stop` comes
   (the wait before a tool, the pause of the micro-retry) registers a new future
   without looking at the flag; its request is suppressed, so nobody can answer it.
   `docs/PROTOCOL.md` says the stop ends what is running.
2. `approvals_of_mission`: the mission of an approval is read after the user was
   awaited; a second request may have changed it.
3. `clean_spaces`: `upsert_lesson` labels a row with the space in force when it
   writes; the vector was made before an await by the model active then.
   `embeddings.prepare` of an installed model with `set_default` never tells the
   store, so that every later lesson is filed under the old model. The tests
   announce "aucun vecteur hors de son espace".

Seen while modelling, without a run. Those marked (D) contradict a document, a
comment or a message of the code; the others are surprises a reviewer may want to
know of.

*Solver and skills.*
- The attempt that led to an extension is counted again for the sickness of a tool
  (`solver.py:756`); the rejections that end a mission need not be consecutive
  (`solver.py:867`; (D) `constants.py:178`); `attempt_failed` is not emitted on every
  exit (`solver.py:1123`; (D) its comment at 647).
- The feedback of a malformed plan may be about an earlier plan (`solver.py:1311`).
- An execution's failure is compared with the default breaker, not the host's
  (`skills/engine.py:188`; (D) `docs/HOST_CONTRACT.md:698`). A repair ceiling may be
  overrun by each overlapping repair (`RepairsBounded` states the true bound). A
  retired skill is synthesised anew although the log asks for a human (D). An execution
  that an import outlives is charged to the version that has its number afterwards
  (`registry.py:741`). An
  imported package keeps the trust it earned elsewhere.
- `mission_rum` and `root_solver` belong to the orchestrator: a second mission resets
  those of the first (`orchestrator.py:1726`). A repeated `tool.result` stops the
  heartbeat of the turn that runs.

*Plans.*
- A consent records the tools of all steps of the plan as approved, not of those the
  question was about (`orchestrator.py:2523`).
- The warning about two perceptions of one world never fires
  (`plan_validator.py:1587`); warnings of perception are never erased; warnings
  of a judged plan outlive a direct answer (`WarningsAreCurrent` states what holds).
- `!` is normalised to `not`, which the evaluator does not support; the planner
  accepts names of the registry that the gate refuses.
- An output that is called like a step is found by its exact name before the ranks of
  attempts are compared (`executor.py:692`, `711`), so that a value of an earlier
  attempt may be read for the status of a step of this one ((D) the comment at
  `executor.py:718`). `NamesApart` is what the order needs.
- A condition on `$@_bool_t` passes the planner when `t` is the name of a target; a
  step that expects any type may succeed without binding it (`executor.py:1400`).
- A micro-retry that succeeds does not change the verdict of its step
  (`executor.py:299`). A producer that is skipped leaves the value of an earlier
  attempt readable.

*Models and keys.*
- Two calls of one provider share `model_name` and `call_epoch`: the request of one
  may name the other's model ((D) `llm.py:73`, "sans polluer le Provider partagé").
- A fallback on the last attempt of a structured call returns nothing ((D)
  `llm.py:772`). `AnthropicProvider.generate_structured_output` lacks a parameter the
  `Llm` always passes. `Llm.stream` calls a method no provider has.
- A rest of 30 s for a lost connection may replace a longer one, a rate limit a
  refusal's hour; `cooldown_remaining` is the latest expiry, not the next.

*Discovery.*
- The files explorer takes the symbol of `extract_symbol` from the words of the
  question but lets the answer be cached: another question is served it ((D)
  `discovery_engine.py:139`).
- The documented lifetime of cached answers is never applied ((D) `constants.py:152`);
  answers about history and facts stay while the data change; plans without a step or
  cut by the ceiling are cached as complete; what the world explorer saw is replaced
  by an error, its answers having no `success` key (`discovery_session.py:256`).

*Targets.*
- A removal marks its entry inactive and leaves its generation: a listing made before
  the removal and delivered after it is not older than the entry, so that it revives
  the target (`targets.py:568`; (D) `docs/en/HOST_CONTRACT.md:355`, "a lower generation
  is ignored"). `FreshestReportWins` therefore speaks of listings only, and
  `RemovalsAreNews` of the other order.
- A known name given to a parameter with `raw: allow` is resolved, a purged one goes
  out as it is ((D) `docs/en/HOST_CONTRACT.md:325`). A new correlation at a known
  reference takes over the other target's name. A failed probe empties the candidates.
- A report that leads, by a reference its target no longer has, to a newer entry of the
  target that has it now is ignored as old (`targets.py:481`), so that a later answer
  with a still older report may be taken for the newest.

*Lessons.*
- Rows that arrive while a group's heir is embedded are filed without being counted;
  two consolidations, or a crash between heir and filing, count a group twice; two
  analyses teach an episode twice.
- A fact the host deleted, or one known elsewhere, is not learned again
  (`lesson_store.py:297`). A deleted lesson may come back as its heir.
- A lesson whose text was edited loses its label; the next sync takes it for one of
  the historic space. Errors of an insertion are swallowed while the episode is
  marked. An edit checks lock and revision in one transaction and writes in another.

## 6. What is not modelled, and the plan

Not to be modelled: vendors' HTTP clients, vector arithmetic, prompts, translation,
offline reports, ranking of search results, the sums of a trace alignment. They are
data or pure I/O.

Left out of the modelled components is named under each of them in section 2 and in
`PROJECT.json`. What a further model could still tell: two missions over the
orchestrator's per-mission fields (`mission_rum`, `root_solver`); the depth
extension of child solvers; the catalogue of tools and the effects they declare.

What is next is proof:

1. `Targets`: its `TypeOK`, which no theorem states yet.
2. An abstract specification of the table of discoveries (one answer per signature,
   given to any caller) and of the registry of targets (a map from targets to places),
   and that `Discovery` and `Targets` implement them, step by step as
   `TicketsImplemented` does.
3. Lemmas about `PlanGates`: what a plan the gate lets through may read.
