# Verification of the haozhong AI system

TLA+ models of the parts of this repository whose correctness depends on
order, on state kept from one request to the next, and on failures: the
question-answering pipeline with its retrieval agent and the drafts its other
agents make of the evidence, the automated research loop with the sandbox that
runs its experiments, and the Neo4j client they share. `tlc` checks the models
on small instances, `tlapm` proves their safety properties for every value of
the constants. Paths below are relative to `src/app` unless they start with
`docs`, `README` or `tests`.

## The system

A FastAPI process serves two LangGraph state machines from one event loop.
Both persist their channel values per session (`thread_id`) in PostgreSQL.

| Part | State it keeps | Operations | Interacts by |
|---|---|---|---|
| Pipeline orchestration (`orchestration/{graph,gateway,nodes}.py`, `agents/base.py`, `core/types/state.py`) | `PipelineState` channels per session: phase, `iteration_count`, `rollback_count`, `agent_outputs`, evidence graph, plan | gateway, 3 agents, `phase_transition`, `post_validate`, `freeze_context`, `plan_phase`, `rollback_phase`, `human_review`, `assemble_output` | Commands of the gateway, edges, checkpoints |
| Agent API (`presentation/api/v1/agent.py`) | none of its own | `chat`, `chat/stream`, `review` (approve, reject, edit), `status` | `ainvoke` / `astream_events` / `aget_state` on the graph |
| Research loop (`orchestration/research_*.py`, `agents/research/agent.py` and its workers, `core/types/research_state.py`) | `ResearchState` channels per session: phase, iteration, hypotheses, experiments, iteration history, report | gateway, 7 stages, `phase_transition`, `post_decide`, `conclude` | as above; experiments run in the sandbox |
| Research API (`presentation/api/v1/research.py`) | none | `start`, `stream`, `feedback` (stop, adjust), `status`, `journal` | `ainvoke`, `astream`, `aupdate_state` |
| Sandbox (`agents/research/sandbox.py`) | a temporary directory, a container or subprocess | run with a timeout | exit code, stdout |
| Retrieval agent (`agents/retrieval/*`) | nodes added to the evidence graph | classify, route, decompose, explore a tree of sub-queries in waves, fuse | vector store, Neo4j, web search, LLM |
| Generation agent (`agents/generation/*`) | nodes of proposals and contents | propose, then extract a section per proposal, in the order of their priorities | LLM |
| Evaluation agent (`agents/evaluation/*`) | nodes of results and prompt patches | score, match, diagnose | LLM, embeddings |
| Evidence graph, beliefs (`core/types/*`) | nodes, edges, beliefs of a session | add, query, merge | the agents of a run write into it in place and return a copy |
| Neo4j client (`infra/neo4j/client.py`) | the shared driver, the end of the cool-down | connect, query, reset, health check, close | every retrieval of every request |
| PostgreSQL pools (`infra/database/*`), graph caches | the pool, the compiled graph | create on first use | all requests |
| Vector store (`infra/vector_store/pgvector.py`) | a table | dense, sparse and hybrid search | retrieval |
| LLM service (`infra/llm/*`) | the current model | call with retries, fall back | everything |
| HTTP clients, configuration, logging, metrics, middleware, prompts, page | - | - | - |

### What is hard here

* **State that outlives a request.** A request on a used session starts from
  the counters, the evaluation, the plan, the hypotheses and the report of the
  earlier ones; the inputs reset only some of them.
* **Two runs on one session.** Nothing serialises them. A run reads the
  checkpoint once, when it starts; the last writer wins.
* **Resuming.** `approve` resumes whatever node is pending, `reject` and
  `edit` enter with a phase of their own.
* **Failures inside a node.** Agents and stages turn most exceptions into a
  result that the next node must route on; others end the run and leave the
  last checkpoint.
* **Bounds that must fit each other.** `max_iterations`, `max_rollbacks`, the
  `- 3` of the rollback rule and LangGraph's `recursion_limit`.
* **Objects changed in place** that a checkpoint sees only if a node returns
  them.
* **An agent that fails half-way** leaves in the shared evidence graph what it
  had added, and the next attempt works on that.
* **Processes that outlive the coroutine** that started them: an installer, a
  docker client and the container behind it.
* **Check, await, use** on shared clients: the Neo4j driver, the compiled
  graphs.

`PROJECT.json` lists the hazards with their lines and the properties that
cover them.

### What makes each part correct

* Pipeline: the loop ends; its counters stay within their bounds in every
  run and checkpoint; agents run in order whatever is resumed; a rollback is
  granted only if the retry can be completed; unvalidated output is the last
  resort; the documented workflow is followed.
* Research loop: the stages follow the cycle of its diagram, with no iteration
  beyond the maximum and a complete one before every decision; verdicts rest on
  experiments for the hypothesis they judge; experiments are not lost, set back
  or revised; the delivered report is the start's own; a start is answered.
* Neo4j client: one driver at a time, none made during the cool-down; drivers
  are not leaked, closed twice, or used while they are closed; a call lacks a
  driver only if another one has failed or the client is shut down; calls
  return.
* Retrieval: every step of the plan is explored, after the ones it depends on
  where that is possible, and the results of all that succeed are used;
  backtracking keeps the better branch; the verdict rests on what was found;
  the agent answers. Hybrid search: a threshold that a perfect match passes.
* Drafting (generation, evaluation, evidence graph, assembly): a section comes
  from exactly one proposal, in the order of their priorities; an accepted
  answer rests on an evaluation of all its sections that has not failed on
  the way; the graph is append-only, also under a failing agent; the request is
  answered and goes through the documented phases.
* Sandbox: an experiment is completed only if the program of its last run has
  ended well; the process that a run waits for does not outlive the wait, unless
  the run is cancelled, and a result leaves no directory behind; every run ends,
  whatever hangs. Two processes may outlive a result: an installer that has
  exceeded its limit, and the container of a docker client that was killed or
  failed. After a timeout the container is against the requirements
  (`sandbox_limit`).

## Modules

| Module | Models |
|---|---|
| `Workflow` | what the gateway's docstring promises of one run: an abstract specification |
| `Pipeline` | the pipeline graph, its nodes, the chat and review handlers, several requests on one session |
| `PipelineProperties` | its properties and the refinement mapping to `Workflow` |
| `PipelineProofs` | its inductive invariant and theorems |
| `MCPipeline` | the instance for TLC |
| `Research` | the research graph, its stages, start, stream and stop on one session |
| `ResearchCycle` | the state diagram of `research_gateway.py`: an abstract specification |
| `ResearchProperties`, `ResearchProofs`, `MCResearch` | as for `Pipeline`, with the refinement of `ResearchCycle` |
| `Neo4jClient` | the shared Neo4j driver under overlapping calls |
| `SharedDriver` | one driver shared by all calls, as the structure of `client.py` implies: an abstract specification |
| `Neo4jClientProperties`, `Neo4jClientProofs`, `MCNeo4jClient` | as for `Pipeline`, with the refinement of `SharedDriver` |
| `Retrieval` | one run of the retrieval agent: plan, waves of parallel steps, backtracking, fusion, verdict |
| `TreeExploration` | the exploration that the docstrings of `tree_explorer.py` describe: an abstract specification |
| `RetrievalProperties`, `RetrievalProofs`, `MCRetrieval` | as for `Pipeline`, with the refinement of `TreeExploration` |
| `Drafting` | the evidence graph of one request: generation, evaluation, rollback and assembly over all its attempts |
| `DraftingProperties`, `DraftingProofs`, `MCDrafting` | as for `Pipeline`, with a second refinement of `Workflow` |
| `Sandbox` | one experiment and the processes its runs start |
| `SandboxProperties`, `SandboxProofs`, `MCSandbox` | as for `Pipeline` |

The modules cut the system where its parts meet in a few values. What
`Retrieval` and `Drafting` compute is a choice in `Pipeline`, which routes only
on the verdict; what `Sandbox` computes is a choice in `Research`, which reads
only whether an experiment has settled.

### Pipeline

`saved` is the session's latest checkpoint, `run[r]` the copy of the channel
values request `r` works on, `status`, `kind`, `steps` and `limit` what its
handler knows. LangGraph executes one node per superstep, applies its writes
and checkpoints; no other task of the session observes a state in between,
so a node is one action (`Move`). LangGraph may write the checkpoint while the
next node runs; a process that dies before the write is the same as one that
dies a superstep earlier.

Each function of `gateway.py` and `nodes.py` is an action of the same name.
`agent_outputs` is abstracted to the verdict of the latest evaluation, the
plan to whether it has its declared type. The evidence graph does not influence
the routing and is the subject of `Drafting`. `Crash` stands for everything that
ends a run without an answer: a disconnected client, a dying process, a node that
raises, a checkpoint that cannot be written.

What is not in it: the graph without a checkpointer (production, database
down at the start), where sessions keep nothing; `human_review`, the node,
which no Command reaches.

Seen while modelling, and not checked by a run: with HITL enabled, a validated
output enters the phase `human_review`, but the gateway answers that phase with
`assemble_output` (`gateway.py:106`), so no human sees it first, although
`graph.py:11` and the repository's README (:38) have the node before the end.

### Research

The same split: `saved` and `run`. The state is the list of hypotheses by
status, the list of experiments with the hypothesis each is for, the latest
decision, the report (empty, of this run, of an earlier one) and two histories
(the stages of the current iteration, whether a decision has failed). A stage
changes objects in place; `Move` puts into the checkpoint only the channels
the stage returned, so `saved` lags behind `run` exactly where the code's
does. `RecursionLimit` is LangGraph's: 25 in the locked version 1.0.2,
nothing in the repository sets it. LangGraph runs the superstep after the last
one allowed and then raises (`CutOff`, `Conclude`).

Seen while modelling, and not checked by a run: the gateway's dispatch writes no
channel, so `astream` yields None as its update, and the event generator of
`/research/stream` raises on it (`StreamFails`, `research.py:179`): the stream ends
with an error after its first superstep, although its docstring (:143) promises
phase transitions and intermediate results.

Runs follow each other; what overlapping runs do to a session is the subject
of `Pipeline`. Domain context, literature, journal and report texts do not
influence the control and are left out, and with them the adjust feedback. The
outcome of an experiment is a choice; `Sandbox` has what leads to it.

### Neo4j client

`driver`, `blocked` and `opened` are the client's: the published driver,
whether the cool-down lasts, and the drivers whose sockets are open. The rest
is a program counter per call. asyncio switches tasks only at an await, so an
action is the code between two awaits, and the value of `self._driver` is read
where the code reads it: again at each verification attempt, again after
`connect` has returned, again in `_reset_driver`. A driver bears the name of
the call that created it, which needs no counter.

The clock is abstracted to the end of the cool-down (`CooledDown`), which may
come at any moment. The server is external: each await may succeed, fail with
an error the code names, or end the call otherwise (`Abandon`: cancellation, an
exception no clause names). `execute_write` is `execute_read`; BFS, subgraph
and entity search are one `execute_read` each.

### Retrieval

`stage` is how far `RetrievalAgent._execute` is; `plan` the list of
`TreeStep`s; `rest`, `resolved`, `wave` the variables of
`_build_execution_waves` and of the loop in `explore`. The code lists all waves
first and then runs them; the model forms a wave when its turn comes, which is
the same because nothing changes `depends_on`. `forced` remembers which steps
were put in the last wave because nothing was ready. Each step of a wave has a
program counter (`at`), the retriever it waits for; an action is the code
between two answers, so the coroutines of `asyncio.gather` interleave.

The evidence a retriever returns is the set of its qualities, 0 (nothing), 1
(poor) or 2 (good) in the instance; the mean of a branch is any rating in
their range. The vector and the graph retriever turn every exception into no
evidence, the web retriever raises. Nodes that a failed step or a rejected
branch has added stay in the shared evidence graph but in no output; the graph
is left out. Whether a fusion round is complete and whether its
confidence reaches 0.5 are choices, as is what the language model proposes: a
plan, a failure (the query as the only step), or one that cannot be converted
(`BadPlan`). A single-step route uses the same actions with the plan
`SingleStep`.

Seen while modelling, and not stated as properties: a step that fails alone in
its wave ends the agent, because its exception is raised by the wave without
`gather` (`tree_explorer.py:110`; the design doc says at :1057 that other
branches go on), while one that fails among others does not; a step that names
`rag` or `kg` gets that strategy for both branches, so only steps with `both` ever
backtrack (`Resolve`; the docstring of `tree_explorer.py` knows no such
exception); a step is run although the one it depends on has failed; no fusion
round triggers another retrieval, contrary to the docstring of
`cascade_fuser.py`;
a confidence outside [0, 1] fails the agent because the range is checked before
the validator of `Belief` can clamp it.

### Drafting

`nodes` and `edges` are `EvidenceGraph`'s: a node is its kind, the rating of its
belief (of a proposal, its priority) and, of a section, which sorts of slot
values it has; an edge is a pair of positions. `stage` is the phase, with the
steps within an agent told apart: `Propose` adds the proposals of one answer of
the model, one by one until one raises; `Extract` is one turn of
`ContentGenerator.generate`'s loop; `Evaluate` is the evaluation agent, from the
matching to the patches; `PostValidate` and `RollBack` are the helper nodes of
the gateway; `Assemble` is `assemble_output`. `left` counts the agent runs until
the gateway's hard limit, so a request may begin with any rest of a session's
iterations. `judgement` remembers the last evaluation: what it judged, which
pairs the assignment made and which of them reached the threshold.

The graph a node of LangGraph gets is the one its agent writes into; at the end
`BaseAgent.run` copies it and adds the nodes of the output once more. Both write
a dict under the node's id, so `nodes` is a function from ids to nodes and
`Written` sets each new node twice (`SetNodes`), under ids that no node has had
(`LastId`); that this appends it once is what `OneSectionPerProposal` and
`AppendOnly` rest on. Since nobody reads the graph between the two but the agent,
they are one step. A failing agent has no output, but what it has added stays.
Of retrieval's nodes only raw and fused evidence is modelled: the ones that
record its classification and steps, and the edges among its nodes, are read by
nothing that follows.

The arithmetic of `scoring.py` and `content_quality.py`
is left out: a score is any rating, or -1 for the negative values that a cosine
can have, and the mean lies between the least and the greatest of the pairs.
Which assignment is the best is open for the same reason; that it is one to one
and as large as possible is not.

Seen while modelling, and not stated as properties:

* `agent_io.py:41` calls the graph a read-only snapshot; the agents write to it.
* The plan (`plan_dag`) is read by no agent, although the repository's README
  has generation follow it.
* Sections carry no priority in their metadata, so `assemble_output` orders them
  by confidence only; its docstring (`nodes.py:307`) says by proposal priority.
* A list of values or a bare text is shown as a filled slot but not counted, so
  a section of such slots is delivered as a gap; a value without a source is
  counted.
* The fallback to fused evidence (`nodes.py:319`) is always replaced by the gap
  message, because fused nodes have no `filled_count`.
* Sections without a partner do not lower the overall score, and the sections of
  a rejected attempt are judged and delivered again with the next one.
* A negative score raises when the belief is built; the evaluation ends with an
  error and the draft is rejected.
* Proposed belief updates are never applied.

### Sandbox

`pc` is what the coroutine of `ExperimentRunner.run` waits for, `proc[r]` the
processes of run `r`: the installer, the process that the coroutine runs the
program with, and in a container the two commands behind the docker client.
Processes start, end and fail on their own, between any two steps of the
coroutine. `tmp` is the temporary directory, `outcome` how a run ended. Each
`create_subprocess_exec` may start a process, find no command or be refused.
`Cancel` is the cancellation of the request's task at any await: `outcome` and
status are then what the next request finds in the checkpoint. `Init` is an
experiment as `ExperimentDesigner` builds it, so the early return for empty code
is not reached. After a kill, the wait for the process is taken to return when
the process has gone; a pipe that a grandchild keeps open is not modelled.

Seen while modelling, and not stated as properties: the limits of the probes and
of the installer do not kill their processes; an installation that fails is
ignored on the host, and one that works changes the service's own interpreter;
with `--network=none` an experiment with dependencies fails in a container
unless the image has them; a
program that exits with 124 is recorded as timed out; an `OSError` of a probe,
an installer or the cleanup escapes `ExperimentRunner.run`, its result is lost
and the experiment stays `running`; a cancelled run leaves its processes.

One claim of the requirements is a run of its own (`sandbox_limit`): FR-005 has an
experiment terminated automatically at its timeout, but the kill reaches only the
docker client. `RunEndsItsProcess`, which holds, is about the process that the
coroutine has started and waits for, and about nothing that this process or an
installer has left.

## Runs

| Run | Shows |
|---|---|
| `pipeline` | all pipeline properties, the refinement of `Workflow` and termination, for two requests of any kind |
| `pipeline_explore` | violated: a chat on a used session may be answered without retrieving anything |
| `pipeline_bad_plan` | violated: a plan of the wrong shape fails the request instead of being replaced |
| `research` | all research properties, the refinement of `ResearchCycle` and termination, for two starts |
| `research_limit` | violated: two iterations do not fit into the default recursion limit |
| `research_stop` | violated: an acknowledged stop does not stop the run |
| `neo4j_client` | all properties of the Neo4j client, the refinement of `SharedDriver` and that its calls return, for four overlapping calls |
| `neo4j_cooldown` | violated: a connect whose driver a query has closed fails without starting the cool-down |
| `retrieval` | all retrieval properties, the refinement of `TreeExploration` and that the agent answers, for plans of every shape |
| `drafting` | all drafting properties, the refinement of `Workflow` and that the request is answered, for two attempts |
| `sandbox` | all sandbox properties and that every run ends, for an experiment run twice |
| `sandbox_limit` | violated: a container goes on when its experiment is reported as timed out |

The six violations are disagreements between the code and its own
documentation; `PROJECT.json` quotes both sides of each.

Four invariants that the refinements imply, or nearly so, are in no run any
more and stay theorems: `RollbackBounded` (`FollowsWorkflow`), `FullIteration`
and `IterationsWithinMax` (`FollowsCycle`), `CooldownHasNoDriver`
(`SharesOneDriver`).

### Bounds

* Pipeline: two requests, `max_rollbacks` 1 (the default; no request sets it)
  and `max_iterations` 7, the least value at which a rollback is granted
  (3 + 3 < 7). The counter that the first request leaves behind brings the
  second one to every distance from the ceiling. `HITL` is on, which is the
  longer path.
* Research: two starts, one new hypothesis per synthesis, `max_iterations` 1
  and 2, the recursion limit 25. The second start works on every combination
  of leftovers a cut-off, crashed or finished run can leave. The limit lets a
  second iteration begin but not end; what happens in later iterations is
  covered by the proofs, which hold for every limit.
* Neo4j client: four calls, the first of which is the lifespan's, and two
  attempts per connect. One call connects, another closes its driver, a third
  opens the next one under the first: nothing in the code tells a fourth
  concurrent call from the third, and the proofs hold for any number. The run
  may stop: every call ends (`CHECK_DEADLOCK FALSE`).
* Retrieval: plans of up to three steps: none, parallel, chain, listed out of
  order, circular, dependent on itself or on a step that was cut off, two
  steps of one label, a step without a question, fork and join. Waves only
  compare a step's dependencies with the labels before, so three steps show
  each way they can relate. Three ratings: nothing, below and at the
  threshold; three fusion rounds, the default. Two steps that can both
  backtrack run in parallel. The proofs cover every plan and scale. The agent
  stops when it has answered (`CHECK_DEADLOCK FALSE`).
* Drafting: one rollback (the default), two proposals at most, one patch; ratings
  0 to 2 with the threshold at 2, so that a score fails, is below it or reaches
  it. Retrieval finds weak and fused evidence, strong evidence, or none; the
  model proposes nothing, an unsorted list that is cut, one with an item that
  raises, and one that cannot be sorted; a section is weak or filled. Budgets of
  2, 6 and 7 agent runs cut a request off within an attempt, refuse it the
  rollback late, and give it all. Four sections are enough for two attempts of
  two, which is where sections meet that were not made together. The proofs
  hold for any of these. The request stops when it is answered
  (`CHECK_DEADLOCK FALSE`).
* Sandbox: two runs, the second of which meets what the first has left; runs
  share nothing else, and the proofs hold for any number; for `sandbox_limit` one
  run is enough. The experiment may stop (`CHECK_DEADLOCK FALSE`).

### Fairness

A superstep of a run that is not crashed is eventually executed: it is an
asyncio task whose awaits return, because the LLM, HTTP and database clients
and the sandbox have timeouts. Requests, stops and crashes are not fair: a
client may stay silent. `EveryRunEnds` and `EveryResearchEnds` need nothing
else. `EveryCallReturns` needs that what a call of the Neo4j client awaits
comes to an end: the driver has connection timeouts of its own, and tenacity's
sleep is at most eight seconds. `EveryRunAnswers` needs that every call of a
retriever or of the language model returns or raises; no clause of the agent
ends one that does not. `EveryDraftIsAnswered` needs the same of the calls of the
generation and evaluation agents: those of the model have a limit of attempts
and a timeout. The `EveryRunEnds` of the sandbox needs that the event loop runs
what is ready, that its timers go off (both are steps of the coroutine, `Step`),
and that the system carries out a kill (`Die`). No process has to end on its own.

## Proofs

The six modules of proofs prove every safety property of the six passing runs,
every action property and all five refinements, for all constants that satisfy the
assumptions: any set of requests, `max_iterations` within the validated ranges,
every `max_rollbacks` whose retries fit into 50 supersteps, any recursion limit
and any number of starts, any number of calls and attempts, any plans, rating
scale and number of fusion rounds, any answers of retrieval and model and any
number of proposals and attempts, any number of runs of an experiment.

**Pipeline.** The properties are not inductive: whether a run stays below the
recursion limit depends on where in its attempt it is, and a resumed
checkpoint may be anybody's. The invariant `IInv` therefore speaks of every
set of channel values, in memory or saved, alike (`StateInv`): node and phase
agree (`Coherent`), the counters are bounded (`Counters`), the agents that
have run are those the place in the attempt implies (`Ordered`), and a retry
has one iteration more than it still needs (`RetryFits`). For a run in
progress, `RunInv` adds that the supersteps made and the most that can still
follow (`Left`, a ranking of the places) stay within the longest run of
17 * max_rollbacks + 17 after START, and how a chat came to be done. Each
superstep is first shown to be `Good` as a step between channel values, then
lifted to the requests. The refinement maps each superstep to a step of
`Workflow` or a stutter under the same invariant. `MaxRollbacksAssumption`
shows how far the default may be raised before the limit of 50 is too small:
to 1, not to 2.

**Research.** `IInv` says of memory and checkpoint alike that experiments
refer to listed hypotheses and verdicts have a settled experiment (`Data`); of
a run in progress, how the checkpoint may lag behind the memory (`Behind`:
same lists, same settled outcomes), where in its iteration it is (`Placed`)
and that its report will be its own unless it failed to decide (`Reported`).
`MoveKeepsData` is the core: whatever channels a node returns, if what it does
to the memory is an advance (`Advances`), checkpoint and memory stay sound and
in step. Each stage is then shown to be an advance. `ExperimentsAdvance`
(nothing in the checkpoint is lost, reordered or set back) is an action
property from the same steps. `JudgedByOwnExperiment` takes the analysis at its
word: in memory as in the checkpoint, a hypothesis that is no longer `proposed`
has an experiment of its own, and one with a verdict a settled one.

`ResearchCycle` is the diagram of the gateway with its counter. The mapping
reads the stage of a run off the gateway's phase and the node that is pending;
between runs all its variables are at rest, so that a start may find anything
on record. The proof of a step needs the places of `IInv` (`Placed`), because a
transition from a phase is a step of the diagram only if the run has reached
that phase by it. One thing the diagram does not show is a decision whose reply
cannot be recorded: the run follows the decision before it once more and does
not count the iteration. Nothing but the recursion limit bounds how often that
happens, which is why the cycle lets `Decide` leave the verdict as it is.

**Neo4j client.** `Inv` adds to the properties that a call which has not
started has opened no driver (`Fresh`, so that a new driver's name is new),
that a call closing a driver has one (`ClosesOne`), that a sleeping call has an
attempt left (`AttemptsLeft`) and that only calls that want a driver connect
(`WantsDriver`). Four lemmas say what the kinds of step do to the drivers: keep,
create, reset, close. `CallProceeds` carries the rest of the invariant over a
step of one call, so that a case of the theorem has little more to show than
which kind of step it is.

`LostOnlyToAFailure` is about two calls: one fails because there is no driver
any more only if another one has failed itself, or shuts the client down.
It is not inductive, because the one that is to blame may have failed long ago
and the one that suffers may still be asleep: `Blamed` says it of every call
that waits without a driver, and three lemmas say what a step of one call does
to the blame of all. `SharedDriver` has the driver there is, the ones that are
being closed and the cool-down; the refinement shows that none is made beside
another or in a cool-down, that a driver is out of everybody's hands before it
is closed, and that a cool-down starts only together with, or after, the loss
of the driver.

**Retrieval.** `Scheduled` says that a step waits exactly while it is in no
wave, has ended when its wave is over, and that `resolved` holds the labels of
the steps that left `rest`, from which both properties of the order follow when
a wave starts. `StepInv` is about one step: a rated branch is rated 0 just when
it is empty, and `kept` is what `Keep` says; `NothingIsLost` draws from it that
no evidence disappears. `Staged` says what a stage has left behind, and with
`NothingIsLost` gives the verdict (`Concludes`). An answer of a retriever is
the largest case (`StepAnswers`): `StepMoves` shows that it leaves the schedule
sound, `BranchUpdated` what it writes.

`TreeExploration` keeps of a step only how far it is: waiting, on its primary
or its fallback strategy, returned, or raised. The mapping reads that off the
program counter and the branch. `AtRest` is what the refinement
needs beyond `Inv`: no step is being explored outside the exploration, so a
step whose failure ends the agent leaves no sibling behind that could still
answer. A failing step that is alone in its wave fails the exploration, in the
abstract specification as in the code.

**Drafting.** `GraphInv` says what the graph always is: edges join nodes, lead
forward, and the sections have one proposal each, in order. Between the steps of
an attempt that is not inductive, because a section yet to come could break it:
`ListInUse` adds that `todo` holds proposals of this attempt only, after every
older section and sorted, none of which has a section yet. Two growth lemmas
carry `GraphInv` over a graph to which nodes are added that are not sections, and
over one more section. `WrittenAppends` shows that writing new nodes, under
fresh ids and twice, is appending them once; from it and the growth lemmas follows
`AppendOnly`. The refinement
maps the steps within an agent to stutters, and a rejected draft to the rollback
that `Workflow` allows.

**Sandbox.** `ContainerInv` says how a container hangs on its client: no script
without a setup that worked, no client that ended well without a script that
did. `LifeInv` says that a run which has not begun has no processes and that a
result is the last run's; `CurrentInv` what the coroutine has started at its
point. Whatever a process does changes `proc` alone, so the steps of the
processes go through one lemma (`ProcessKeepsInv`), and the ways a run can
end through one each (`ReturnKeepsInv`, `RaiseKeepsInv`, `NotRemovedKeepsInv`).

**Progress.** That something eventually happens is out of reach of the prover;
that it cannot be put off for ever by steps that lead nowhere is not. Four
components have an action property `EveryStepIsProgress`, stated in their
modules of properties and proved: every step moves the state up in a fixed,
bounded order. In `Drafting` it is the rollbacks made, then the place in the
attempt, then the sections still to be written; in `Retrieval` the stage, then the steps not
launched, then the wave, whose steps climb one at a time, and the fusion rounds;
in `Neo4jClient` one call climbs by its place and its attempts while no other
call moves, or the cool-down ends; in `Sandbox` a new run begins, or a process
or the coroutine gets older and none younger. With it, fairness has only to
rule out that nothing happens any more. The pipeline has this in another form:
`StepsBelowLimit`, whose invariant bounds the supersteps that can still follow.
The research loop has no such order of its own, because of the decisions that
fail, and ends by the recursion limit. `EveryStepIsProgress` has been model-checked
on the instances of the passing runs before it was proved; it is not part of
them.

Only model-checked: termination (`EveryRunEnds` of the pipeline and of the
sandbox, `EveryResearchEnds`, `EveryCallReturns`, `EveryRunAnswers`,
`EveryDraftIsAnswered`), because liveness under fairness is out of reach of the
prover, and the violations. Everything else the runs check is proved as well.

## Plan

Done: `Workflow`, `Pipeline`, `Research`, `Neo4jClient`, `Retrieval`, `Drafting`,
`Sandbox`, each with its proofs; the abstract specifications `ResearchCycle`,
`SharedDriver` and `TreeExploration`.

1. An abstract life of an experiment, which both `Research` and `Sandbox`
   implement, so that the choice by which `Research` stands for the sandbox is
   shown to be the sandbox's.
2. Overlapping starts on one research session.
3. The arithmetic of `scoring.py` over small integers: what weights and
   thresholds make of a section without sources.
4. The caches of the compiled graphs, whose creation awaits the checkpointer
   between its test and its assignment (`graph.py:154`).
5. The domain context and the journal of the research loop, and the adjust
   feedback with them.

## Not modelled

* HTTP clients, keyword extraction, prompts, configuration, logging, metrics,
  middleware and the page: no state, or none that others depend on. The texts
  the LLM returns are choices over the outcomes the code tells apart.
* PostgreSQL pools: `get_pool` has no await between its test and its
  assignment, so concurrent first callers share one pool, and `open` does not
  wait for a connection. What a failing server does is the pool library's.
* LLM service: `registry.py` lists one model, so the fallback has nowhere to
  move; what is left is one call with tenacity's retries.
* Vector store: SQL and arithmetic without state between calls. One of its
  values is noted as a hazard: the fused scores of the hybrid search are at most
  a few hundredths (sums of 1 / (rrf_k + rank)), and `vector_retriever.py:100`
  compares them with the threshold 0.3 that is meant for a cosine, so hybrid
  search would return nothing. It follows from the two formulas; no behaviour
  over time is involved.
* `scoring.py` and `content_quality.py`: formulas and text statistics. A score is
  any rating in `Drafting`, so nothing is claimed about how good one is.
* The Cypher templates: nothing uses them.

## Running

    tlc -workers 2 -config MCPipeline.cfg MCPipeline
    tlc -workers 2 -config MCResearch.cfg MCResearch
    tlc -workers 2 -config MCNeo4jClient.cfg MCNeo4jClient
    tlc -workers 2 -config MCRetrieval.cfg MCRetrieval
    tlc -workers 2 -config MCDrafting.cfg MCDrafting
    tlc -workers 2 -config MCSandbox.cfg MCSandbox
    tlapm PipelineProofs.tla
    tlapm ResearchProofs.tla
    tlapm Neo4jClientProofs.tla
    tlapm RetrievalProofs.tla
    tlapm DraftingProofs.tla
    tlapm SandboxProofs.tla
