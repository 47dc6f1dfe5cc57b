# A TLA+ model of local-agent-orchestra

This directory holds TLA+ specifications of the parts of local-agent-orchestra
that decide whether a run can be trusted: the ledger every run writes, the
engine that executes and resumes workflows, the loop that lets a model change
a repository, the coordinator of remote workers, the tool calls people approve,
and the files, caches and streams those share. Each specification is checked
with TLC on small instances; what matters most of the ledger, the step graph, the
runner, the coding loop, the fleet, the sessions, the approvals, the limits, the provider
profiles and the plugin packages is also proved for instances of every size with
TLAPS.
Paths below are relative to `src/`.

- [1 The system](#1-the-system)
- [2 The modules](#2-the-modules)
- [3 What the runs check](#3-what-the-runs-check)
- [4 Bounds](#4-bounds), [5 Fairness](#5-fairness)
- [6 What is proved](#6-what-is-proved)
- [7 Where the code and its documents disagree](#7-where-the-code-and-its-documents-disagree)
- [8 What else came up](#8-what-else-came-up)
- [9 What is not modelled](#9-what-is-not-modelled)
- [10 Plan](#10-plan), [11 Running the tools](#11-running-the-tools)

## 1 The system

A user asks for a *task* through the command line, a web page, the API server
or a desktop window. An *interface* collects the answers to the questions of
the task and starts a *workflow*, a graph of *steps*; the *workflow runner*
executes them, calls models and tools, and writes every decision into the
*ledger* of the run. Two workflows do not use the runner: the *coding runtime*
drives a state machine of its own, and the *coder* keeps a session that a user
talks to. Steps can be sent to *remote workers* by a coordinator.

```
 CLI / guided interface / web page / API server          TaskInputs, Dashboard, RateLimiter
   |  start, resume, follow            grant / deny
   v                                        |
 RunExecutor --> streams               ApprovalStore     RunExecutor, ToolApproval
   |         \                              |
   v          v                             v
 WorkflowRunner   CodingRuntime        CoderSession      and what their steps do:
   |   |    \        |       \              |            AnswerPipelines, FileChanges,
   |   |  ExecutionDAG |   PatchApplier     |            ContextOps, CheckCommands
   |   v             v                      v
   |  agents -> CascadingRouter -> adapters ToolInvoker -> PolicyEngine -> tools
   |            (ErrorAdvice, ModelCalls)       (BrowserSessions, McpConnections, shell)
   v
 RunLedger  (one directory per run)  <-- RunReports read it, SnapshotArchive adds to it

 shared files beside the runs: providers.json and secrets (ProviderProfiles, SecretVault),
 memory (MemoryBus, Brain), plugin packages (PluginPackages)

 TaskScheduler + coordinator  <== HTTP ==>  RemoteWorker (many processes)
```

| component | state it keeps | operations | interacts with |
|---|---|---|---|
| RunLedger (`core/ledger.py`), ResumeOrchestrator, ReplayEngine | four files of the run directory; sequence number, index and a lock per object | `emit_event`, checkpoints, `query_index`, `verify_chain`, resume | everything that runs; several objects may be open on one directory |
| ExecutionDAG (`workflows/base.py`) | steps and dependencies | validation, cycle search, order, groups | WorkflowRunner |
| WorkflowRunner (`core/workflow_runner.py`), RetryEngine, StepBudgetEnforcer | results, budget counters, a pool of threads | `run`, `_run_step`, conditions, diagnostics | ledger, agents |
| Coding runtime (`workflows/coding/`), RuntimeStateMachine, PatchApplier | state machine, attempts, fixes, verdicts, files of the repository | `run_task`, `transition`, `apply_changes`, `rollback` | models, ledger, shell |
| Checks and the shell (`workflows/coding/runtime.py`, `tools/shell`) | records of each round, output files, processes | `_basic_verify`, `ShellTool.invoke`, `ShellSandbox.execute` | policies, processes that outlive their parent |
| Coder sessions (`workflows/coder/runtime.py`) | session file, transcript, pending approval | `post_message`, `approve_request` | tools, API server, page |
| Tool approval (`core/tool_invocation.py`, `core/approval_workflow.py`, `core/policy_engine.py`, `interfaces/tool_approval.py`) | pending approvals | invoke, grant, deny | API server |
| Run executor and streams (`core/run_executor.py`) | run records, subscribers | `submit`, `subscribe`, `_notify`, websocket, event stream | API server, web page |
| Presets and interfaces (`presets/`, `interfaces/`) | answers to the questions of a task | collect, validate, run | every workflow |
| Web page (`interfaces/web_ui/app.py`) | list of runs shown | click, poll, draw | endpoints |
| Rate limiter (`interfaces/api_server/rate_limit.py`) | times of requests, per client | `is_allowed` | endpoints |
| Provider profiles and readiness (`config/config.py`, `interfaces/cli/provider_commands.py`, `interfaces/readiness.py`) | `providers.json`, secrets | add, setup, assign, update, rotate, remove, delete, use; readiness | everybody who calls a model |
| Encrypted vault (`config/config.py`) | `vault.enc`, `vault.salt` | set, get, delete | provider profiles |
| Generated context (`agentheim/`, vendored aictx) | context files, lock, staging directories | init, run, verify, clean, preflight | research, docs and coding workflows |
| Model routing and calls (`core/cascading_router.py`, `providers/`, `core/retry_engine.py`, `core/errors.py`) | health cache, attempts | resolve, fall back, repeat, classify, advise | steps |
| MCP pool and client (`tools/mcp/`) | processes, reference counts, pipes | invoke, connect, reconnect | tools |
| Browser tools (`tools/browser/`) | browsers, sessions | page operations, create, close, reset | tools |
| Memory (`memory/`) | JSONL, SQLite and vector files; episodes, concepts | read, write; perceive, learn, relate | agents, endpoints |
| Documents, research, file organization, docs maintenance (`workflows/*/`) | results handed from step to step; `file_changes.jsonl` | `run_task` and their steps | files of the repository |
| Run reports and views (`core/run_summary.py`, `core/run_view.py`) | none | summary, view, status payload | files a run left |
| Marketplace (`marketplace/`) | manifest with signature | sign, verify, load | plugin files |
| Snapshots (vendored aictx) | one archive, its manifest | list, scan, archive, verify | files of the repository, run directories |
| TaskScheduler, coordinator, RemoteWorker (`workflows/distributed/`) | worker table, waiting and completed lists; no lock | register, heartbeat, submit, poll, complete, prune | HTTP |

What is hard in it, and what makes it correct:

- **The ledger** must stay a chain whatever threads write it, and lose little
  when a process dies between the accesses of `emit_event`.
- **The step graph** must reject exactly the graphs that cannot be executed,
  drop no step and order the rest. It drops some (section 7).
- **The runner** mixes a pool of threads, retries, a shared budget, errors at any
  point and resumption from a ledger cut anywhere: what settled stays
  settled, every attempt leaves its verdict.
- **The coding runtime** writes files between nested attempts: nothing may be
  left in the repository that the report does not name, and no failure may
  stand behind a report of success; its checks run commands that hang, fork
  and outlive it.
- **The coordinator** serves requests in threads without a lock, and its
  clients give up on requests that are still served: a task must be in one
  place at a time, and settle.
- **Approvals** wait for people, in two interfaces: what runs must be what was
  granted, once.
- **Followers** of a run subscribe, poll and lose answers while it goes on: they
  must learn how it ended, and not something else.
- **Shared files** (profiles, vault, session, context, memory, plugin manifests,
  archives) are read, changed and rewritten whole by several processes, most
  of them without a lock; a crash may cut any write short.
- **Everything said about a run** (error advice, summaries, reports, checks) is
  derived from what errors, crashes and resumes have left.

`PROJECT.json` lists the hazards one by one, each at its line and with the
properties that watch it.

## 2 The modules

```
RunLedger ==> AuditLog          WorkflowRunner ==> RunContract
ToolApproval ==> ApprovalContract   WorkerFleet (extends TaskScheduler) ==> TaskContract
CoderSession, ToolApproval, CheckCommands extend or use PolicyEngine; ModelCalls extends ErrorAdvice
X ==> Y: X implements the abstract specification Y (a PROPERTY of a run)
XProofs extends X and TLAPS: WorkflowRunner, WorkerFleet, CodingRuntime;
  CodingRuntimeProofs extends FileChanges as well; RunLedgerProofs extends MCRepository
ApiServerProofs extends MCApiServer; WorkspaceProofs, MemoryProofs extend MCWorkspace
TrustProofs extends McpConnections, PluginPackages, CoderSession, RunReports, SnapshotArchive, TLAPS
```

Components that share no state are checked together: an MC module extends
several of them, chooses in its initial state which `part` a behaviour
exercises, and leaves the variables of the others alone. A run thus is one
question about one place where state is kept (a run directory, a repository,
a workspace, a server), not one per file. The MC modules are
`MCRunArtifacts`, `MCRepository`, `MCWorkflows`, `MCWorkspace`, `MCApiServer`
and `MCWorkerFleet`.

### Runs and workflows

**RunLedger, AuditLog** (`core/ledger.py`, `core/resume.py`). `ledger`, `torn`,
`hashFile`, `hashTail`, `indexFile`, `checkpoints` are the files of one run directory;
`sequence`, `index`, `lock` the fields of the objects (`Handles`) open on it;
`pc`, `on`, `event` where every thread is. `emit_event` is one action per
access: `Acquire`, `CreateEvent` (reads the last line of the hash file),
`AppendToLedger`, `UpdateIndex`, `AppendHash`, `Advance`; `save_checkpoint` is
`WriteCheckpoint`, `PersistIndex` and an emission. `Create` opens a handle as
`RunLedger.create` does, with the sequence number restored; `Attach` as
`ResumeOrchestrator.resume` does, from 0. `Crash` kills the process at any
access, `AppendRaises` lets an append fail; either may leave half a line behind,
in the ledger (`torn`) or in the hash file (`hashTail`), where the next hash is
joined to it (`Garbled`). A hash is the id of its event.

**ExecutionDag** (`workflows/base.py`). `dependsOn` is any assignment of
dependency lists from `DepLists`, undefined names and repeated entries
included. One action per turn of a loop: `validate`, the depth-first search
with its stack, the roots, Kahn's loops, and `parallel_groups`.

**WorkflowRunner, RunContract** (`core/workflow_runner.py`,
`core/retry_engine.py`, `core/step_budget.py`, `core/replay_engine.py`). `log`
is the ledger reduced to the events replay and readers use; appending to it is
one step, which is what RunLedger implements. `main` is where `run` is,
`pc[s]` where `_run_step` is for every step. Every attempt replays `prior` from
`log`; what steps hand on to each other is left to AnswerPipelines and
FileChanges. `RunContract` is what a reader of the ledger relies on: steps settle once, only
while the run is open, and `Complete` needs all of them.

**CodingRuntime** (`workflows/coding/runtime.py`, `core/state_machine.py`,
`core/patching.py`). `phase` is where `run_task` is, `state` the state of its
`RuntimeStateMachine` (`Onward` and `Allowed` are its table). `repo` and
`origin` are the texts of the files now and at first, `undo` the
`applied_changes` of the open patch. Planner, coder and verifier answer
anything, and `Raise` is an exception anywhere.

**CheckCommands** (`workflows/coding/runtime.py` `_basic_verify`,
`workflows/coding/adapters.py`, `tools/shell`). A command is what the four
places that may refuse it look at: `Blocked`, `EngineDenies`, `ToolRefuses`,
`SandboxRefuses`. `child` is its process, `helpers` those it started, which may
hold its output. `records`, `outputs` and `toolCalls` are what the run keeps of
its commands, `others` what its other records say (the diff, `--no-tests`,
inspections, verdicts), which the summary counts as well.

**AnswerPipelines** (`workflows/documents`, `workflows/research`): what steps
hand on, from files that change to the report. A text has
words of the question, other text or none, and a question may have no words at
all. A document whose first 400 characters are blank counts as one without the
words. **FileChanges**
(`workflows/file_organization`, `workflows/docs_maintenance`): journal line,
then change, one file access at a time, by several runs. **RunReports**: what
every runtime leaves in its directory (`plan_task` of the coding workflow
too), and what `build_run_summary`, `build_run_view` and `run_status_payload`
make of it.

**TaskScheduler, WorkerFleet, TaskContract** (`workflows/distributed/`). A
request is a record in `calls` that a thread takes through the statements of
its endpoint, one access to the shared tables per step; `list.sort` empties
the list while it compares (`BeginSort`, `EndSort`). `WorkerFleet` adds
`RemoteWorker.run`, the clients, and the disturbances: `Timeout`, `Crash`,
`Elapse`. `TaskContract` is the life of a task, which `WorkerFleet!Place` reads
off the lists and requests.

### Sessions, tools and the server

**PolicyEngine** (`core/policy_engine.py`): what `Evaluate` decides for a call, as
a pure operator. **CoderSession** (`workflows/coder/runtime.py`): requests that
load `session.json`, work on a copy and save it. **ToolApproval,
ApprovalContract**: the invoke, grant and deny endpoints over the approval
store, the approval workflow and `ToolInvoker`; the contract is what the ledger
of a call may say. **RateLimiter**: `is_allowed` one list access at a time.
**McpConnections**: threads on one client of one server, whose pipes carry
lines that whoever reads takes. **BrowserSessions**: both browser tools over
`BrowserSessionManager`, launches and closes in steps. **RunExecutor**: the
background thread, `_notify` and its subscribers, the websocket and the
polling stream.

**ProviderProfiles**: a change is read, applied to a copy, made in the secret
store and written back; `Changed` is what each command does to the document,
`Readiness` and `NextActions` what the check says. **SecretVault**
(`EncryptedFileSecretStore`): vault and salt, each emptied and filled; a key is
a salt and a passphrase. **TaskInputs**: how each interface collects answers,
`Preset.validate_inputs`, and what the run does with them. **Dashboard**: the
page's clicks, polls and drawing as the asynchronous calls they are.

### What the workspace keeps

**ContextOps** (`agentheim/context_ops_impl.py`, vendored aictx): init, run,
preflight and clean on sources, generated files, lock and staging
directories, with somebody editing. **MemoryBus** (`memory/bus.py`,
`memory/backends`): writes under a thread lock and a lock file, over three
backends. **Brain** (`memory/brain.py`, `episodic.py`, `semantic.py`,
`embeddings.py`): episodes, concepts and links, with restarts. **ErrorAdvice**
(`core/errors.py`, `core/retry_engine.py`, the error catalog): what an error is
classified as, retried, logged and told as. **ModelCalls** (`providers/`): the
adapters' repeats below it, and calls of `core/cascading_router.py` over one
health cache. **PluginPackages** (`marketplace/`): signing, verifying
and loading one package, file by file. **SnapshotArchive** (vendored aictx): an
archive made while files change.

`PROJECT.json` maps every definition to its lines.

## 3 What the runs check

| run | question | properties |
|---|---|---|
| `run_artifacts` | two threads on one handle of a ledger; snapshots that overlap | `ChainVerifies`, `ImplementsAuditLog`, `SnapshotsTellTruth` |
| `repository` | a ledger with two handles or with faults; runs that move, write and read files; plugin packages | `RunDirectoryHolds`, `FilesKept`, `ChangesAccounted`, `AnswersGrounded`, `LoadsWhatWasSigned` |
| `workflows` | runs of the runner and of the coding runtime with every failure, crash and resume | `EndsWithVerdict`, `DependenciesSettleFirst`, `OvershootBounded`, `NothingUnreported`, `DoneMeansVerified`, `KeepsContract`, `RunEnds`, `RunTaskEnds` |
| `fleet_serial` | one serving thread, two workers, slow handlers, pruning | `TasksAccounted`, `TasksSettle` |
| `fleet_threads` | two serving threads, late and lost requests, worker crashes | `AtMostOneCopy`, `KeepsTaskContract` |
| `workspace` | sessions, tools, memory, reports, graphs, context, errors, checks, routing, the vault | `SessionsKeepFaith`, `ToolsAccounted`, `StoresServe`, `MemoriesMakeSense`, `ViewsTellTruth`, `GraphJudgedRightly`, `OrderIsTopological`, `ContextCanBeTrusted`, `ErrorsCount` |
| `api_server` | limits, approvals, MCP calls, streams, profiles, inputs, the page | `LimitHolds`, `AskedStaysDecidable`, `AnswersItsOwn`, `FollowersToldTruth`, `RunsAsAnswered`, `DocumentCoherent`, `ProvidersServe`, `KeepsApprovalContract`, `CallsEnd`, `StreamsEnd` |
| `resume_checkpoint` | *violation*: the newest checkpoint after a resume | `LastCheckpointIsNewest` |
| `runner_pool_dependencies` | *violation*: dependent steps in the pool | `DependenciesSettleFirst` |
| `fleet_capability` | *violation*: a failed task and the capability it needs | `CapableWorkersOnly` |
| `runs_resume` | *violation*: `agentheim runs resume` | `ResumeFindsTheWorkflow` |
| `plugin_verification` | *violation*: verifying a package twice | `VerificationIsDeterministic` |

What the passing runs show:

- **Ledger.** One handle at a time, opened by `create`, implements the append-only
  chained log for any interleaving of its threads. With two handles the chain
  breaks and numbers repeat, but no line is lost, rewritten or written twice;
  a fault costs two hashes at most (its own, and the one that is joined to half
  a line), and with one handle the whole hashes stay in the order of the ledger.
- **Step graph.** The search rejects exactly the bad graphs; a step is missing from
  the order only if it, or a step it needs, lists a dependency twice.
- **Runner.** Every run keeps `RunContract` over crashes and resumes. Steps settle
  after those they depend on when the latter are not parallel-safe; the pool
  exceeds the agent budget by fewer than `MaxWorkers`. Every attempt that is not killed ends, and with a
  verdict unless the preflight raises.
- **Coding runtime.** What differs in the repository afterwards is in
  `total_changes` or in the patch that was open when an error struck; a run
  reported done has no task whose last verdict was `failed`; all loops end.
- **Checks.** A check that is recorded as passed ran to its end in time with exit
  code 0, whatever it started, and no command runs that one of the four places
  refuses; the files a record names are its own unless a later round
  overwrote them. The summary says failed exactly if a command of some round
  failed, mended since or not, or a verdict was neither passed nor skipped
  (`ChecksToldTruly`, in `ToolsAccounted`). An open browser is a session of the
  current manager, in the hands of a call, or left by one of the ways
  `BrowsersAccounted` names, a closing that failed among them.
- **Workflows on files.** A file somebody wrote is at its path, where a journalled
  move took it, or was replaced by a named writer; the exception is a target
  that appears between the check and the move. Reports that say done are the
  end of a chain of data of the run; a document chat cites nothing only for a
  question without words or where no document has them and no README any text.
- **Fleet.** With one serving thread no accepted task is lost. With two, tasks can
  be lost, but none is ever in two places and none comes back. Accepted tasks
  settle as long as running workers stay in the table.
- **Sessions and approvals.** The ledger of every mediated call keeps
  `ApprovalContract` through overlapping grants, denials and a restart. A coder
  session that is not worked on twice at once runs what was granted, once.
- **Followers.** A stream never closes before the run is over, and closes after it;
  rows of the page show only ends the run came to, unless an answer was lost.
- **Profiles and vault.** A document that is written whole is coherent, and it loads
  unless a `provider update` spoilt an account of it. Changes that do not overlap
  lose nothing until a provider is added to a spoilt document; and while the
  document loads, the advised commands are accepted and lead to a usable profile. The vault and its salt are never separated once the first
  save has ended.
- **Context.** A check that passes proves that what full runs wrote states the facts
  of the locked sources. `doubt` names what is excluded, and after runs of scope
  "changed" the promise is about listed sources only: with a source removed and created
  again, the architecture may still say what was true of the first.
- **Memory.** No order of the two locks makes calls wait for each other, only an
  error of the lock file does, and only in its process; an answered write stays. **Errors** are retried, refused and told for what they
  are within the exceptions of section 8. **Routing** forgets a failure early
  only if a check that read an older mark popped it.
- **Inputs.** Through whichever interface, the run does what the answers mean and
  never starts without a required one, for answers the interfaces offer.

Several properties are conjunctions of parts with names of their own
(`StoresServe == MemoryServes /\ SecretsKept`); each part has its comment in
its module. Each property of a passing run has one or more mutants in
`PROJECT.json`: a change of a definition, as a mistake in the code would make
it, under which TLC finds the property violated. The mutated forms stand in
the modules under `\* Mutant:` comments and are used by nothing else.

All runs have `CHECK_DEADLOCK FALSE`: a run, a session of events or a
construction may simply be over, and nobody has to start another.

## 4 Bounds

| bound | value | why it is enough |
|---|---|---|
| `MaxEvents` (ledger) | 4, 3 with two handles or faults | a checkpoint is two events, so a checkpoint before and one after a reopening fit; two emissions interleave at every access, and a third sees what they left |
| `Threads`, `Handles` | 2; 1 or 2 | one lock, two writers. The proofs have any number of threads |
| `MaxFaults` (ledger) | 2 | a fault, a reopening and a second fault; half a hash, and the hash joined to it |
| graphs | 3 steps, lists of at most 2 names, one undefined name | cycles of length 1 to 3, a repeated dependency with a step behind it. The proofs have any graph |
| runner | 4 steps that fan out, `MaxRuns` 2, `MaxWorkers` 2, `AgentLimit` 3, one retry | a step of the pool waits for a worker; the limit is reached before the last step and passed by two workers; an attempt and its resume; every kind of failure |
| coding | 2 files, `MaxTasks` 2, `MaxChanges` 2, `MaxFixAttempts` 1, `MaxTotalTasks` 3 (20 in the code) | two changes of one file or of two in any order, a task after a fixed one, both limits reached |
| checks | `MaxRounds` 2, `MaxChecks` 2, `MaxHelpers` 1, commands classified safe or not | a second round that overwrites the files of the first, a second command while the helper of the first lives; all kinds of commands |
| fleet | 2 tasks, 2 or 1 workers, 2 calls, `PoolSize` 1 or 2, `MaxRetries` 2 (3 in the code) | a task overtakes another; two requests overlap, one of them late; one failure retried, one given up |
| coder sessions | 3 requests, plans of up to 2 actions | a grant that overlaps a message, and a reader after both |
| browsers, memory | 3 calls; 2 processes, `MaxRestarts` 1 | a close or reset between two steps of a call; two threads of one process and one of another |
| brain | `MaxEpisodes`, `MaxConcepts` 2, `MaxPerceived` 3 | one more than fits, after each of them was linked |
| reports | `MaxResumes` 2, all runtimes | a resume after a resume that failed |
| context | 2 calls, 2 sources, `MaxEdits` 1, 2 run directories | an operation cut by another and by an edit; init, run, preflight and clean in the pairs that share files |
| errors, calls | 19 classes, every keyword list and pairs of them, `StepRetries` 0 and 1, 9 adapters, 10 answers of a service | each rule of the classification alone, and those that compete |
| routing | 2 models, 3 calls, `HealthTtl` 1 | a fresh mark between two looks at an old one needs a third call |
| vault | 3 calls, 2 references, 2 passphrases | two first saves and a reader; another secret to lose |
| server | 3 checks at limit 1, 4 invocations and 2 decisions, 2 MCP calls, 2 websockets, 1 event stream (`MaxPolls` 2) | a window that ends between two checks; two grants of one approval; a reader that takes the answer of another |
| profiles | 2 profiles, 2 providers, 2 writers, `MaxChanges` 3 | two profiles that share a secret; an overlap, and a change that meets what it left. The proof has any number |
| inputs, page | 9 tasks, every kind of answer; 2 clicks, `MaxPagePolls` 2 | two runs in one list, one of them lost |
| files | 2 runs, 3 paths, `MaxUserEdits` 1; 3 documents (both READMEs among them), `MaxLibrary` 1 | a move onto a path that another left, and an edit between check and move |
| plugins, snapshots | 3 calls, 2 keys, `MaxRevisions` 2; 2 calls, 3 paths, `MaxTextEdits` 1 | signing while verifying and an edit in between; an edit before and after the scan of a file |

Messages, texts and hashes are members of small sets because the properties
only tell them apart. Calls that are alike are symmetric (`SYMMETRY`) in runs
without temporal properties over them.

## 5 Fairness

- `WorkflowRunner`: weak fairness of the driving thread and of every step: the
  threads of a live process are scheduled and `execute_step` returns or
  raises. `Start`, `Resume`, `Crash` and `Expire` are not fair.
- `CodingRuntime`: weak fairness of its next step. `run_task` is one thread and
  every call it makes returns or raises; which of the two is never fair.
- `WorkerFleet`: strong fairness of a running worker's loop and of every request,
  because slots in `Calls` and serving threads are shared and may be taken
  again and again by others. Starting a worker, submitting and all
  disturbances are not fair. `TasksSettle` assumes in addition that from some
  time on all workers run and stay registered.
- `McpFairness`: threads are scheduled, a reader that keeps coming back to its
  deadline meets it, and a server that lives answers what it reads. That it
  dies or answers wrongly is not fair. `CallsEnd` names the reader that waits
  for ever because another took its answer.
- `RunFairness`: the thread of the run and the event loop go on. That a run ends is
  not assumed: `StreamsEnd` says what follows once it has, and that a polling
  stream ends anyway.

Everything else states safety only.

## 6 What is proved

The proofs hold for all values of the constants that meet the `ASSUME` of the
component's module; a theorem that needs more says so (`SingleHandle`, `SerialAccounted`).

**RunLedgerProofs**, for one open handle opened by `create` and any number of
threads, tags and events (`SingleHandle`): `TypeCorrect`, `ChainTheorem`
(`ChainVerifies`), `SequenceTheorem` (numbers increase along the ledger) and
`Refinement` (`ImplementsAuditLog`). `ChainVerifies` is not inductive: while
one thread has appended its line and not its hash, the chain holds only
because no other thread can be between the two. The invariant adds who holds
the lock (`LockInv`), how far the holder is and what that means for the lengths
of the two files and the counter (`Progress`), that lines and hashes are
linked up to there (`Linked`), and that event ids are fresh (`FreshIds`). For
the refinement every action maps to `AppendEntry`, to `Seal` or to a stutter.

`DamageStaysBounded` (`RunDirectoryHolds`) drops all of this: any number of handles on one
directory, opened by `create` or by a resume, deaths between any two statements, failed and
torn writes of either file. Numbers and links then repeat and break, and what is left rests on the ids. The
bound on missing hashes says nothing of a thread that has written its line and is about to
write the hash, so the invariant (`DamageInv`) counts an event as lost only when no thread
owes its hash (`LostExplained`): a step that takes the debt from a thread without paying it
is one that counts a fault. A fault may also leave half a hash, which costs nothing yet and
the next hash later, so `LostExplained` counts it ahead (`Doomed`) and allows two for each. That an append never adds a line or a hash a second time needs
the ids in the hands of the threads to be free and distinct (`IdsAreFresh`); that a whole hash is
that of an event needs the debts to be so too (`HashedIsWritten`). With one handle open at a
time (`WriterInv`), whatever the deaths and failed writes, the hashes stand in the order of
the ledger because who owes one wrote last (`OwedIsLast`); a number repeats only after a
failed write, and the invariant has to say one step earlier when the next number is already
in use (`RepeatsExplained`), which follows from the counter never falling behind the ledger
(`NumberedByHandle`). That is so of a handle opened by `create`; a resume starts the counter
again, so the numbers of resumed runs are bounded by nothing. A cut-short line ends what the
property says: `read_ledger` raises on it, and what is appended to it is lost with it.

The same module proves `AnswersRest` (`AnswersGrounded`), for any documents, answers,
changes, failures, deaths and resumes. The report speaks of what several steps ago was
read, found and answered, so `HandedTrue` says how the data of the steps belong together:
in the attempt that runs them, exactly the steps in the ledger have handed something on;
the chunks were `Searched` in the texts of the index, for a question with words or
without, the citations are `Cited` from these chunks, and each step of the research rests on the one before. A resumed run has
none of that data, and no report is written by it (`InTurn`, `ReportTrue`).

**WorkspaceProofs**, of ExecutionDag, for any graph: `TypeCorrect` (no in-degree becomes
negative), `TopologicalOrder` (`OrderIsTopological`) and `AlwaysOneGroup`
(`OneGroup`: `parallel_groups` returns one group). That a queued step has its
dependencies in the order follows from its in-degree being zero, so the
invariant says what an in-degree counts, in the middle of the inner loop as
well (`Degrees`), that it stays zero once the step is queued
(`ZeroOnceQueued`), and that order and queue are free of repetitions
(`NoRepeats`). `Grouping` says of the loop of `parallel_groups` that the open
group is the order up to here. `GraphsAreJudged` (`GraphJudgedRightly`) needs no induction over
the recursion of the cycle search, which the model keeps as a stack: the frames are a path
along dependencies (`Path`), so a dependency on a step of the path closes a cycle; a
finished step depends on finished steps only, and no set of finished steps is cyclic
(`SearchSound`, `Finished`), so a search that ends well has seen an acyclic graph. No step whose
in-degree is zero is forgotten (`Queued`); of the steps that need no doubled list, an
unordered one would then have a dependency that is unordered too, and a set of steps that all
have one in the set is cyclic.

Of the tools, for any calls, commands, rounds and processes left behind:
`ToolsAreAccounted` (`ToolsAccounted`, stated of `MCWorkspace`). The table of a manager
says only which sessions there are, so `ClosingOnly` says that what a call is about to
close is in no table any more, and `BrowserKept` in whose hands an open browser is, or that its closing failed; a
reset makes a new manager, and the invariant speaks of all there have been
(`ManagersAre`). For commands, `HelperTrue` says that a process which holds the output
of a command belongs to one that was given up, or to the one at hand, and then the run
waits for it; `OutputsTold` that within a round the files have larger and larger
numbers, because the number counts the records of commands that ran (`RanAfter`), so
a file a tool call names is overwritten by later rounds only. That no command runs
unless all four places allow it is a fact about commands (`Allowed`).

Of the generated context, for any sources, run directories and calls in any overlap, and
any number of edits: `ContextIsTrusted` (`ContextCanBeTrusted`). A check compares hashes,
so the invariant says what hashes prove when they are found again, which rests on
an edit writing what was never there before (`Past`, `FactsAge`): `LockTrue` says it of
every lock in place or loaded, as strongly as the doubts raised so far allow;
`Knows` of what a run has seen and extracted; `StagedTrue` of what it has staged,
while no other run stages in its directory (`StagersApart`), with the hashes of the scan
and the facts of a later reading. `AloneTrue` is the other half: in a run nobody
disturbs, the applied files are those of its own lock. The proof found the statement too
strong before: an earlier `ShardsAreTrue` spoke of all sources that exist, which takes
three edits to break, one more than the run allows.

`ErrorsAreTold` (`ErrorsCount`), for any errors, messages, retries, adapters, faults and
router calls, has three parts. `CallsCounted` and `LastWords` say what a step has counted and
what the ledger has kept of the error that ended it: from a name the summary knows the
class comes back, and from the text of an outage the kind of error the step was retried for.
That the lists of the code agree with each other is a fact about errors (`OthersAgree`,
`ProviderAgrees`), by class and, for a provider, by the first rule that its message meets.
`Judged` ties the last request to the step: the fault is `Understood` from what the adapter
raised, for each adapter (`FaultsTell`), the step is over exactly when the error is not worth
a retry, and an adapter that knows a refusal has met one at most, with which the step
ended. For the router, `MarksTrue` says what the cache still knows of a failure,
`WalksOn` that a call has each model before it, behind it, or found it resting, and
`Explained` that whoever finds a mark gone that it has just seen has two others to blame: the
call that failed with the model (`Blamed`) and the one that popped its mark.
`RoutingAssumption` asks that no model is listed twice, which a registry keyed by id
gives.

**MemoryProofs**, of the brain, for any texts, importances, lessons and caps: `MemoriesAreTrue`
(`MemoriesMakeSense`). That what was evicted would not be kept now needs a store that lacks
an episode to be full (`EpisodesTrue`): then whatever is less important than an evicted
episode has a full store above it. The store is full again after each eviction because
one row has all others above it, by the pigeonhole principle. For the links, no two words
of one process share a place (`Placed`), and as long as no process followed another the
vector of a concept has the places of words of its text only (`Spoken`).

`StoresAreKept` (`StoresServe`), for any calls, processes, requests, references and
passphrases, and any number of deaths, has two halves. `MemoryInv` is about the bus: who is
between the two locks holds both (`InsideLocks`, `BusesOwn`, `FileHeld`), so at most one call
of all processes writes (`WritersHold`); finished writes are numbered in their order
(`SerialsCount`), which is what "newer" means; and the lines of the file, the row, the index,
and the vectors a process has loaded are as new as every finished write of their backend
(`LinesKept`, `RowKept`, `IndexKept`, `VectorsKept`), so a read is not older than what was
finished before it began (`ReadsKept`). A thread whose lock file could not
be had keeps the lock of its bus (`Forsaken`) and is no longer inside. That a call can go
on is stated by `CanStep`, the
guards of `MemoryStep` spelled out, because ENABLED is out of the prover's reach; TLC found
the two equivalent in every state of the instance. `VaultInv` is about the vault. As long as no two
programs make a salt there is one, and all keys in use and the file are made from it
(`SaltHasMaker`, `SaltComesFirst`, `OneSalt`); a torn vault has a writer, alive or dead
(`TornByWriter`); and while changes neither overlap nor die, the file holds what the
settled changes left, and the one that is saving holds that with its own change applied
(`ChangesInTurn`). `VaultAssumption` asks for finitely many calls, and that no secret is not a
call, a key or a file.

**CodingRuntimeProofs**, for any files, failures and limits: `TypeCorrect`,
`AllReported` (`NothingUnreported`), `TableIsWalked` (`WalksTheTable`) and
`DoneIsVerified` (`DoneMeansVerified`). `Control` lists the states of the
machine in which each part of `run_task` is reached, `Counters` where a counter
may be spent, `Verdicts` what is known of the verdicts before the report is
written. `Remembered` is the heart of `AllReported`: for a file that is not in
the report, either its text is the first one, or the first change of the open
patch that hit it holds that text. Rolling back in reverse order preserves
it; rolling back in the order of the patch would not, which is also the mutant.

The same module is about the two workflows that change files outside a patch
(FileChanges), for any runs, paths, answers, deaths, resumes and edits of others:
`FilesAreKept` (`FilesKept`) and `ChangesAreAccounted` (`ChangesAccounted`). Between the
look at a target and the rename anybody may write there, and the rename destroys
it; so `MoveTrue` says of a run in between that whatever is at its target is excused by now,
that its source is not its target, and that its line is in the journal. With it a content
is where it was put last, or accounted for (`KeptAt`), and every file stays at the end
of a chain of lines (`FilesTraced`, which is inductive next to it). `ReportIsTrue` says which
lines a run has told at each of its statements: all of them, but for the one whose move or
writing is under way; a resumed run, which has forgotten what it told, writes no report.
`ChangesAssumption` asks that the contents of files differ from no file and from a file that
was cut short.

**ApiServerProofs** holds six theorems. For any profiles, providers, changes and
writers: `DocumentAlwaysCoherent` (`DocumentCoherent`). A document that is written comes
from one a writer loaded some time ago, so the invariant says that every copy
in the hands of a writer is coherent too, and one lemma per kind of change says
that it keeps the bindings of a profile inside its providers and the default
inside the profiles. A change starts from a document that loads or from a new one,
so no account is spoilt in its copy but the one it spoils itself (`OnlySpoiltBy`).

`ProvidersAlwaysServe` (`ProvidersServe`) has two halves. That nothing is lost while
changes neither overlap nor are cut off needs to know what a change will leave before it
has left it: `ServeInv` says that either nobody is changing anything, and the document
has every provider that settled and finds its secrets (`AtRest`), or one writer holds a
copy of which that is true once its secrets are stored and deleted (`Carries`). What a
document shares is exempt already, which is why no provider misses the secrets that
another profile gives up. That the advice of the readiness check works is a fact about
documents: in every coherent one, each advised command is accepted and leaves
fewer missing roles and secrets (`AdviceWorks`), and without advice none is missing
(`AdviceEnds`).

For any number of requests and clients, in any overlap: `LimiterHolds`
(`LimitHolds`). Neither half of the property is inductive. A refusal looks at a list
that rivals may have replaced since the check pruned it, so `Tested` says that the list
lies in the window of some check whose list it may be, and that an extension
keeps it so, with the check that extends it as the next witness if it is
older. For a client none of whose checks overlapped, `Remembered` says that every accepted
request that still counts is in the list, now and for the check that is underway, and
that the check is not older than any of them; so the window of an accepted request
is within the list it was tested with. `Own` keeps the lists of clients apart: the calm
client is protected whatever others do.

For any calls and any requests to invoke,
grant and deny: `LedgerKeepsContract` (`KeepsApprovalContract`: every ledger of
a mediated call is one of ApprovalContract, so the tool runs once at most, only
after it was allowed or granted, and never after a denial). Steps look at the
store, the workflow and their own place, never at the ledger; the invariant
ties them together. `Invoking` says what the last event of a call is while its
request is on its way, `Pending` that an approval in the workflow was asked for
and not decided, `Deciding` what the last event is while a decision carries the
call out, and `Alone` that no two decisions carry out the same call, which
follows from the approval being popped and not read.

Next to it stands `ApprovalsStayDecidable` (`AskedStaysDecidable`): as long as
the server lives, a call that was asked for and not decided is in the store and
in the workflow, where a decision finds it. For this one has to look at the whole
ledger of a call and not at its last event: `Orderly` says that the ruling, the
request and the decision stand first, second and third in it, so that a call is
undecided exactly while its request is the last event, and `Kept` that the request
is in the workflow as long as it is, and in the store or with a decision on its way
once the caller has been answered.

The last, `FollowersAreTold` (`FollowersToldTruth`), is stated of
`MCApiServer`, where the two ways to follow a run are put together, and holds for
any streams, clicks, polls and lost calls. The run and its record are read without
a lock, so what has been told may be old the moment it is told; `WatcherTrue` says
that a WebSocket is in the list from before it looks at the status until it leaves,
and that what it told last is still so or its wake-up is on the way (`StillTo`);
`RunPlaced` gives what the status is at each place of the thread, so that a change
is always followed by a notification. `ClickTrue` is about one click of the page at
a time: where its call is, the answer under way, the row it has drawn and what the
server has of its run. That an end once reported never comes undone, except for
"gone" after a restart, is what keeps an answer true while it travels.

**WorkflowRunnerProofs**, for any steps, dependencies, limits, pool and number of
attempts. One invariant, `IInv`, carries four theorems: `Refinement`
(`KeepsContract`), `VerdictTold` (`EndsWithVerdict`), `Overshoot` (`OvershootBounded`)
and `DependenciesInOrder` (`DependenciesSettleFirst`). The contract is about the ledger and the code decides
by `prior`, `result` and `pc`, so the core of the invariant says that these agree:
`PriorIsSettled` and `SettledIsPrior` between the replayed results and the log,
`SettledOnce` that nothing is logged of a step after it has settled, `Fresh` and
`Quiet` that no step is under way outside the group, and `Group` what the place
of a step says of its outcome so far, from which `AllSettled` follows when the run
is about to log its completion. `Counted` compares the budget with the
invocations on their way, which bounds the overshoot by the steps that are
between their check and their record; `InOneThread` makes that one step outside
the pool. The lemmas before it (`LastOf`, `VerdictAfter`,
`CountAfter`, `SettledOpened`, ...) say what appending one entry, or the entries a new
attempt opens with, does to each of the operators that read the log.
`DependenciesInOrder` has a hypothesis, `Apart`: the order is one in which steps
come after those they depend on, which `TopologicalOrder` proves of what the graph
returns, and no step that is safe to run in parallel depends on another. The
instance of `workflows` satisfies it and that of
`runner_pool_dependencies` does not, and there the property is violated: the
theorem says that the case of finding 2 of section 7 is the only one that breaks the
order.

**WorkerFleetProofs**, for any number of workers, tasks and serving threads:
`TypeCorrect`, `OneCopy` (`AtMostOneCopy`) and `Refinement` (`KeepsTaskContract`).
Tasks have no owner in the code: they move between lists, requests under way and
workers, and any of those may be late or die. `Has(t, k, x)` says that `t` is at a
place of kind `k` held by `x` (not submitted, in a request, in the hands of a worker,
in the list, done, abandoned), and `InPlace` that it has one such place at most. `Exchange` and
`NothingGained` reduce every step to one of two shapes, a task that changes its
place and tasks that keep or lose theirs. Around it, `CallOK` says which fields a
request has at which statement of its endpoint, `WaitsOnce` that a worker waits
for one request only, and `OnceInList` that no list names a task twice, also while
`list.sort` has emptied it. The contract then is read off `CallPlace`.

`SerialAccounted` (`TasksAccounted`) is about the setting of `fleet_serial`, one serving
thread and workers that are slow but neither time out nor crash, for any number of
workers, tasks, requests and retries; with two threads the property is false
(section 8). `SerialInv` adds to the invariant what one thread makes true: no two requests
are between two statements (`OneServed`); each request still finds what it has
tested, such as its worker in the table, its record bound and the list not being
sorted, and an answer that brings a task is not an error and has a worker waiting for it
(`Sound`); every submitted task is in a place or settled (`NothingLost`); and a
worker's entry in the table names a task that the worker handles, is being given or
is reporting (`TableTrue`). The proof has a lemma per statement of an endpoint, which shows
that the statement passes on every task and every assignment its request held
(`Serial(c)`).

**TrustProofs** holds five theorems about what may be believed of others.

- `AnswersNotMixed` (`AnswersItsOwn` of McpConnections), for any number of calls over
  one client. `NumbersDiffer` says that two calls of one client never carry the same
  request id, `LinesOwned` that a line in a pipe with the id of a call was written
  for that call; a reader that discards the lines of others therefore returns its
  own answer or none.
- `SignedIsLoaded` (`LoadsWhatWasSigned` of PluginPackages), for any files and any
  overlap. `SignaturesMade` says that a signature over a message exists only if somebody
  signed it, `AloneIsAlone` that a call nothing overlaps has the package to
  itself, and `LoadOnItsWay` what a load has established at each of its steps: while
  it holds the signature in its hands and the manifest on disk has none, what it
  has read is what was signed (`HoldsWhatWasSigned`).
- `SessionKeepsFaith` (`SessionsKeepFaith` of CoderSession), for any requests and plans:
  `Fits` ties a session to what was asked and done, in the file and in the copy of
  every request. `GrantsSuffice` counts, for each approval, the calls made and those a
  request is about to make against the grants, so a call runs no more often than
  it was granted even when grants overlap. What holds only while nothing overlaps,
  dies or fails in the middle of a write (one decision per approval, nothing written and untold) is
  `Undisturbed`, `TellsUser` and `SavedTells`. `SessionAssumption` asks for finite plans, and that
  only calls of the filesystem tool write, which is what `workflows/coder/runtime.py` does.
- `ReportsTellTruth` (`ViewsTellTruth` of RunReports), for any set of runtimes and any
  number of errors, deaths and resumes. `ReportTrue` says at which statement of a
  runtime its report is unwritten, torn or there, and that a report which is there
  states what its kind of runtime may state then (`MayState`); `EventsTrue` that the ledger
  of a workflow says completed only if in some attempt every step succeeded, and
  that a returned one says how it ended; `PlanTrue` and `RecordTrue` do the same for
  plans and for the executor's record. The order of the tests in
  `build_run_summary` is read off them.
- `SnapshotsAreTrue` (`SnapshotsTellTruth` of SnapshotArchive), for any files, texts, calls
  and edits. `CallTrue` says of one call at each of its statements: a path nobody
  has edited since it began is as it was; it is listed exactly if it is wanted;
  what has been scanned and not edited since is no secret; what has been
  archived is what was seen. `ZipTrue` says it of a finished archive and of its copies, where the
  history is the archive's own, so that it needs nothing of the repository
  any more. `AloneTrue` is the other half: a call with the repository to itself
  ends with an archive that verifies. `SnapshotAssumption` asks that `NoText` is no
  listing of files, as the absence of a `manifest.json` is not a manifest.

`TypeOK` of these modules, `OneGroup` and `WalksTheTable` have no run of their
own: the proofs cover them for every instance.

Model-checked only:

- all liveness (`RunEnds`, `RunTaskEnds`, `TasksSettle`, `CallsEnd`, `StreamsEnd`): the
  prover does not handle fairness and ENABLED;
- what a recursive definition computes on every input;
- of the server `RunsAsAnswered`, whose cases are the presets of the code itself: the
  run enumerates nearly all there is.

## 7 Where the code and its documents disagree

Five disagreements are shown by runs that end in a violation:

1. **A resume loads an old checkpoint** (`resume_checkpoint`,
   `core/ledger.py:375`). Checkpoints are named by the sequence number, which
   restarts at 0 on a resume; `load_last_checkpoint` takes the greatest name.
   `docs/CHANGELOG.md:918`: "`load_last_checkpoint()` returns most recent
   state".
2. **Dependent steps run at the same time** (`runner_pool_dependencies`,
   `workflows/base.py:124`). `parallel_groups` compares a step with every step
   placed so far, the open group included, so there is only one group; when
   all steps are parallel-safe, the pool runs a step beside its dependency.
   `docs/CHANGELOG.md:952`: "Executes `ExecutionDAG.parallel_groups()` in
   topological order", and `tests/test_workflow_runner_parallel.py:91`: "s3
   depends on s1 and s2, so it must run after them".
3. **A failed task loses the capability it needs** (`fleet_capability`,
   `workflows/distributed/scheduler.py:76`). It is put back as
   `TaskAssignment(task_id, task_type="", priority=0)`, without payload, under
   the comment "Re-queue with same priority" (`:75`).
4. **`agentheim runs resume` finds no workflow** (`runs_resume`,
   `interfaces/cli/product_commands.py`): it registers none before it asks the
   registry, whereas `docs/CLI-COMMANDS.md:33` offers it for resuming.
5. **Verifying a plugin changes it** (`plugin_verification`, `marketplace/`):
   verification writes the manifest without its signature, so what verified
   once does not verify again; `docs/SAFETY.md:217` says that what is signed
   ensures deterministic verification.

Disagreements met while modelling that have no run of their own; the models
have them as the code does:

- `core/events.py` calls sequence numbers monotonic within a run; a resumed run
  starts from 0 (`SequenceTheorem` shows that `create` keeps it);
  `docs/CHANGELOG.md:917` says the index "reloads on resume", but a reopened
  ledger answers from an empty index until it emits;
- the last invocation the agent budget allows fails the run after its step has
  succeeded (`core/step_budget.py:192`); `docs/CHANGELOG.md:956` says the error
  "returns failed `StepResult` instead of crashing the run";
- `_eval_condition` says "`not step_id` → True if that step failed or is
  absent" (`core/workflow_runner.py:469`); an absent result counts as a
  success (`:479`);
- rolling back leaves an empty file where a "modify" created one, and removes a
  file that was empty before a "create" (`docs/CHANGELOG.md:270`: "rollback
  restores original content");
- `clean` keeps the last N run directories by name, not the newest
  (`ctx_commands.py`: "Retain newest N runs."), and can remove that of a run
  that goes on, whose apply then copies nothing and reports success;
- the preflight of research says "Ensure context is fresh"
  (`workflows/research/runtime.py:54`), but after a deletion a "changed" run
  keeps an architecture that states the deleted file, and the check passes;
  the coding runtime emits a verified context without verifying;
- `docs/TROUBLESHOOTING.md:322` advises `agentheim ctx run --scope changed` for a
  stale context, which by default only writes a patch;
- `docs/TROUBLESHOOTING.md:355-362` describes resuming: a file organization run
  resumed after its analysis always fails, documents and research go on with
  empty inputs (`documents.py:208`, `research.py:96`) and may complete all the
  same, and step metadata are lost;
- a stream may close without having told the final status, when it changes
  between the message and the test (`docs/TROUBLESHOOTING.md:409`,
  `tests/test_api_server.py:555`);
- HTTP 500 is repeated by the adapters but classified as configuration or fatal,
  though `docs/CHANGELOG.md:415` names InternalServerError retryable; a 404 is
  answered with a configuration error though the catalog pairs it with
  not_found (`tests/test_error_catalog.py:226`);
- the comment at `tools/shell/sandbox.py:119` promises to kill the process tree;
  only the direct child is killed;
- the updater of docs_maintenance may rewrite an impacted public document, when
  it names it for another stale item (`docs/CHANGELOG.md:562`);
- secrets are stored by provider id only and shared by profiles
  (`docs/CLI-COMMANDS.md:182`, `docs/USER_GUIDE.md:445`): removing one
  profile's provider takes the secret of the other's.

## 8 What else came up

Behaviours of the code that the models have and that a reader of the
properties should know, because the properties exclude them by name or do not
speak of them.

*Ledger and runs.* Two runs of one purpose started in the same second share a
directory. A torn last line of the ledger disables verification and
resumption. A torn last hash becomes the `previous_hash` of the next event, whose own
hash is joined to it. When the diagnostics bundle cannot be written, the handler names an
undefined `logger`, so RUN_FAILED is recorded twice and the run raises.
Nothing prevents resuming a run that still goes on. A resumed run writes no
final report; its summary stays "failed" though it completes, and a run that
crashed or failed in its preflight stays "running". So does a `plan` whose
model answer could not be parsed. `approvals.pending` counts superseded
approvals for ever. Research can raise after RUN_COMPLETED, so the list says
completed and the endpoint failed; endpoints that execute a workflow report
"completed" for one whose step failed; `agentheim run` and `resume` exit 0 for
blocked and failed results. A resume of the command assistant or of a context
run executes everything again.

*Coding and checks.* An error in the middle of a patch, or in a later task,
ends the run as FAILED_AND_ROLLED_BACK with nothing rolled back;
`repeated_failures` counts over all tasks. A check that timed out, was not
found, was refused or whose output is not text is recorded as skipped and the
run may end done. The summary counts all records alike (`core/run_summary.py:204`):
a run whose commands were all skipped has passed if its diff is not empty or it
inspected something; one that failed in an earlier round stays failed though it
was mended, and so does one whose verifier says neither passed nor skipped.
Moreover, the verifier gets only the details of the records, so a
failing check without output looks like a passing one. `command_NN` files are
numbered anew in each round, so earlier tool calls name files that are
overwritten. The diff the verifier sees leaves out untracked files.
`classify_command` looks for substrings: `pytest tests/test_models.py` or
`test_normal.py` is destructive and never runs. Commands have a session of
their own and outlive a program that dies, and what they write to the
repository is in no report. `workflows/coding/runtime.py:42` defines its own
PlanningError, which the catalog does not know: a failed planning exits as an
unexpected error.

*Workflows on files.* The organizer moves what the applier answers, not what
was proposed or previewed, and its analysis lists `.git` and `.ai-team`; a
dry run repeats the successes the model claims. The command assistant and the
docs maintenance say done though generation, updates or alignment failed.

*Fleet.* With two serving threads a submitted task can be dropped by a
concurrent `list.sort`; a worker pruned while its handler runs never registers
again and polls for ever.

*Sessions and approvals.* Overlapping grants on one coder session can run an
approved call twice; a crash or an error between the call and the save leaves
the approval grantable; a write that fails half way is told as an error though the
file may have been emptied; a torn `session.json` cannot be loaded. The page
cannot message a session of another workspace. The rate limiter lets more
through when checks of one client overlap.

*MCP and browsers.* The 30 s timeout is tested between lines only: a silent
server blocks a call for ever, a silent handshake the lock of the pool. A
failed handshake leaks the process, a release after a reconnection
decrements the count of the new client, and the counts are never used. The
command `mcp-call` tries the next server after an error, so a call may be
executed twice. A synchronous page operation without a session leaks its
browser. Closing a session forgets it first and swallows the errors of closing, so a
browser may stay open that nobody knows, and the call reports it closed. In the model a
call that closes its own browser ends well even if the page failed; only
`create_session` looks at how a call ended.

*Streams and page.* A run that ends with a BaseException stays RUNNING: the
websocket waits for ever and the event stream ends at its limit. On the page,
one failed poll ends the following for ever, polling ends after 120 s, a
reload forgets the rows, "Failed to start" is wiped by the next poll of
another run, and failed runs read "error: [object Object]".

*Inputs.* A word other than "false" (`--input apply=no`, or the string "false"
in JSON) reaches the run as yes. Choices outside the options are refused by
the guided interface and the page only. `use --repo R organize-files` works in
the current directory; command and github tasks ignore `--repo`; `use`, `start`
and the endpoints accept a blank required text; `explain_only` and
`summary_only` reach nothing.

*Profiles and vault.* Overlapping changes of `providers.json` lose one of them,
and a document that does not load is replaced by the next addition. One change
makes such a document by itself: `provider update` validates nothing
(`provider_commands.py:199`), so an auth mode that does not exist, or an empty endpoint,
leaves a `providers.json` that no command can read. The readiness check then says
what it says of no document and advises `provider add` (`readiness.py:316`), which
starts anew and loses every profile. The vault
is lost ("Invalid passphrase") when two first saves overlap and each makes a
salt, or when a program dies while it writes; every later `set` then fails
until the file is removed by hand. Its passphrase is asked for twice in one
`set` and never confirmed: another phrase at the second prompt re-encrypts
the vault under it. Advice of the readiness check names no `--profile` and so
holds for the default profile only; a reference to a secret that is gone is
told as a model failure, or as ready where connectivity is not checked.

*Context.* `init` hides staleness and can leave no context at all; a lock torn
by a crash makes every operation raise until it is removed; fixed run ids share
staging directories, so overlapping runs may stage each other's files and
pass with old context; a "changed" run keeps and blesses a file edited by
hand, and does not notice new sources.

*Errors.* Bedrock makes every error a RuntimeError and OCI a ConfigError, both
fatal even for throttling; Anthropic, Cohere and Ollama adapters repeat
refusals. OSError is retried, yet told as unexpected. Several phrases in one
message let the category, the section and the catalog disagree. A message that
is empty is told as no error. A coder turn swallows provider errors.

*Memory.* When the lock file cannot be opened or locked, the error leaves the lock of
the bus taken (`memory/bus.py:68-71`), and the other threads of the process wait
for ever; the thread itself could take it again, as a re-entrant lock lets it, but in
the model each call has a thread of its own. An error of releasing the lock file
(`bus.py:77`) is left out. The brain stores an episode and enforces the cap in two
transactions (`episodic.py:91-92`), one step in the model: a death between them leaves one
row too many until the next call. Endpoints pass the scope as the name of a backend ("global" raises
KeyError). The vector index is a copy of the process, rewritten whole; torn by a
crash it cannot be loaded. `_enforce_cap` of the brain counts commas, so one
relation and none are equal; vectors depend on the order in which a process
met the words, so links mean nothing after a restart.

*Plugins and snapshots.* A crash between the canonical manifest and its
signature loses the signature, overlapping loads refuse each other, and
bytecode is left in the package. Every `snapshot create` overwrites one file:
overlapping calls leave a mixed archive, a file edited after its scan goes in
unscanned, and an exception leaves an archive without manifest. A bundle made
by `bundle create` is always rejected by `bundle verify`.

Hazards of the same kind that `PROJECT.json` does not list on their own: a torn
ledger line (`core/ledger.py:177`), a step executed again on resume
(`core/workflow_runner.py:421`), a resume beside a live run
(`core/resume.py:80`), an error in mid-patch (`core/patching.py:74`), the index
of a reopened ledger (`core/ledger.py:335`), and a session saved over a newer
one (`workflows/coder/runtime.py:429`, under `SessionsKeepFaith`).

## 9 What is not modelled

- *Within modelled components.* Of the runner, working memory, workspace
  directories and the content of the diagnostics bundle. Of the budget,
  `record_tokens`, `record_tool_call`, `record_time` and `execute_with_budget`,
  which nothing outside the tests calls. Of the coordinator, `GET /api/status`
  and heartbeats no client sends. Of the coding runtime, what commands do to
  the repository, and which paths are refused (any change may be). Of the
  profiles, `import-env` and project pointers. Of MCP, `disconnect`,
  `list_tools` and the asynchronous client. Of the context, the `generate`
  path with a model, which no interface reaches; `status` is one step; edits
  that restore an earlier content are left out, and so are the public documents a change
  has an impact on (`verifier.py:136`), which can only make a check fail more. Of the router, `mark_healthy`
  and the choice by role and capability. Of the brain, similarity between
  words. Of snapshots, result bundles. Of reports, the fields besides the
  status and the checks.
- *Assumed.* Event and task ids are unique, priorities not negative, hashes and
  signatures without collisions; a ledger is read when no line is torn.
- *Other components.* Memory tiers (`GlobalMemory` would lose counts in
  `record_model_result`, which nothing calls), `WorkerPool`, `PrivacyEnforcer`
  and the deprecated `ContextPacker` are exported and unused. The filesystem,
  database and similar tools are single operations; their policy is
  `PolicyEngine`. Redaction and path rules are functions on strings. Federation
  endpoints accept and forget; self-improving agents, monitoring and
  multimodal support are surfaces that `docs/ROADMAP.md` quarantines. The OCI
  services of vendored aictx are calls of an SDK.

## 10 Plan

Done, in the order of what a defect would cost: what every run relies on
(ledger, graph, runner, coding runtime, fleet, each with its contract and
proofs), what people approve and follow (sessions and approvals with proofs,
streams, page), what processes share (profiles and packages with proofs, vault,
context, memory, snapshots), and what is said of it all (reports, errors,
checks, inputs).

Next:

1. Two runners on one ledger after a resume of a live run: `repository` shows
   what it does to the ledger, the runners are not composed.
2. `import-env`, the asynchronous MCP client, result bundles.

## 11 Running the tools

```
tlc -workers 2 -config Workspace.cfg MCWorkspace.tla
tlapm CodingRuntimeProofs.tla
```

The module of each configuration is in `PROJECT.json` under `runs`. The larger
runs take two to three minutes each on two cores: `workspace` has 0.75 million
distinct states, `repository` 2.1 million, `workflows` half a million,
`api_server` 213,000. The proofs take some minutes.
