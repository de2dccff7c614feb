# Harnessix in TLA+

Harnessix is a coding agent: a model proposes tool calls, and a host process decides, executes,
records and recovers them. This project models the part that has to be right when processes die,
calls time out and people change their minds: the way from a proposed call to an effect on the
world and back to a truthful record of it.

Paths below are relative to `src/src/harnessix/`.

## 1. Inventory

| component | state it keeps | operations | hard behaviour | what makes it correct |
|---|---|---|---|---|
| **Trusted-action router** `trusted_actions/`, `execution/` | audit store (routes, event chain, operations, owner generation), execution-plan store (plans, approvals) | plan, decide, claim, execute, complete, interrupt, reconcile | two stores without a common transaction; crash between claim and completion; two hosts | one effect per plan, approved first, ledger and chain consistent, settled truthfully |
| **Risk policy** `trusted_actions/policy.py` | none | evaluate | the combinations nobody enumerates | only bounded reads run unasked |
| **Product action runtime** `product_config/action_runtime.py`, `action_recovery.py` | lock file, owner fence, recovery report | own, scan, repair, interrupt, reconcile, open, refuse | startup dies half way; refuses to open | nothing of a dead host is left when calls are accepted; it opens eventually |
| **Git push** `delivery/git_push.py` | none of its own: the remote is the truth | execute, reconcile | a thread that survives its call; lost answers; other users | pushed once, success is real, nobody is overwritten |
| **Action gateway and session projection** `trusted_actions/agent_gateway_support.py`, `agent/trusted_action_session.py` | the session's copy of plan, approval and result | prepare, sync decision, execute, recover | router first, session second: a crash in between | the two ledgers converge |
| **Agent turn runtime** `agent/` | turn state machine over an event log, steering queue, cancel tokens | run, resume, steer, cancel, approve, answer, retry, recover, close | concurrent callers on one thread; a cancel racing completion; a restart in any state | no input lost; every call gets one true result; a turn ends once, and does end |
| **Session store** `session/` | events, projections, idempotency keys | compare-and-set append, replay, archive, backup | concurrent append, retried requests | append-only, gap-free, idempotent |
| **Workspace transactions, leases** `delivery/`, `workspace/` | transaction ledger, member journal, files, leases with expiry | prepare, publish next member, interrupt, reconcile, roll back | crash between rename and ledger; lease expiry; other programs | the outcome says what was replaced; only approved content is lost; one writer |
| **Managed patches** `patches/` | patch and batch ledgers | prepare, apply, recover | one of several patches fails | batch state follows from its patches |
| **Process supervisor** `processes/`, `sandbox/` | process leases, receipts, owner processes | start, stop, wait, close, reconcile | two operating-system processes, either of which may die; a cancelled start | the lease says what became of the process; no group outlives its deadline; the lease settles |
| **App server, SDK** `app_server/`, `sdk/`, `protocol/` | pending requests, subscriptions, queues | request, notify, close | back-pressure, shutdown with requests in flight | every request is answered once |
| **Hooks** `hooks/`, **model providers** `models/`, **compaction** `context/`, **artifacts** `artifacts/`, **MCP** `mcp/` | run ledgers, stream assembly, attempt ledgers, bodies and references, server processes | run, stream, fall back, compact, publish | deadlines, partial streams, crash between body and reference | bounded, no lost reference |
| **Configuration, UI, tools, skills, secrets, evaluations** | little | parse, render, read, measure | – | data validation |

How they meet. The agent turn asks the *gateway* for a plan, records the request in the *session*,
waits for a person, and lets the gateway execute. The gateway calls the *router*, which writes the
*audit store* and the *execution-plan store* in separate SQLite transactions and calls an
*executor* (a workspace transaction, a Git push, a supervised process) in between two audit
transactions. The *product runtime* owns all of this through a lock file and a generation number
in the audit database; it settles the routes of its predecessor before it publishes the catalogue.

`PROJECT.json` lists every component with its status and every hazard at the line where it bites.

## 2. Modules

| module | models |
|---|---|
| `ActionPolicy` | `DefaultCodingRiskPolicy.evaluate` and the approval flag the gateway publishes, as operators on a record of the facts they read |
| `TrustedActions` | router, both stores, runtime ownership, startup recovery, operations, executor calls |
| `ActionContract` | what the router promises of one action, without stores, hosts or recovery |
| `GitPush` | the push executor: coroutine, worker thread, request on the wire, remote, reconciliation |
| `WorkspaceTransaction` | the executor of patches and rollbacks: record ledger, lease, publication member by member, reconciliation |
| `AgentTurn` | a thread of the agent runtime: model loop, tool calls, the session's ledger beside the router's, steering, approvals, cancellation, retry, crash and recovery |
| `ProcessSupervisor` | one supervised process: run, owner worker, control pipe, receipt, lease, reconciliation, close |
| `StdioConnection` | the SDK's subprocess transport and the app server's stdio loop, with the two pipes between them |
| `MCTrustedActions`, `MCWorkspaceTransaction`, `MCAgentTurn`, `MCStdioConnection` | instances for TLC |
| `TrustedActionsProofs` | theorems about `TrustedActions` and `ActionPolicy` |
| `TrustedActionsRefinement` | what an open runtime owes, and that `TrustedActions` implements `ActionContract` |
| `GitPushProofs`, `WorkspaceTransactionProofs`, `AgentTurnProofs`, `ProcessSupervisorProofs`, `StdioConnectionProofs` | theorems about the module of that name |
| `WorkspaceOutcomeProofs` | what the router may believe of a workspace transaction: theorems that need the origin of a file's content |

### TrustedActions: state and steps

| variable | in the code |
|---|---|
| `routeState`, `routeSequence` | state and last event sequence of a route in the audit store |
| `ops` | rows of `action_route_operations`, by plan, phase and attempt |
| `ownerGeneration` | `owner_generation` of `action_audit_metadata` |
| `execPlans`, `approval` | the execution-plan store: plans and approval checkpoints |
| `lock` | who holds the `.runtime.lock` file |
| `phase`, `fence`, `todo` | where a host is in `open_default_product_action_runtime`, the generation it obtained, the `unknown` list of `_recover_product_actions` |
| `task` | the `ClaimedActionOperation` a coroutine holds while the executor runs |
| `published` | the world: members of the effect, counted each time one is published |

One step is one SQLite transaction, one event of an executor call, or one event in a host's life.
A transaction that raises is rolled back; such error paths change nothing and are stuttering.
The exceptions are modelled: `CompletionLost` (the completion is refused and the route stays in
flight), `RecoveryFails` (startup gives up and tears the runtime down), `ReconcileManually` (the
attempts are used up or the tool has no recovery boundary).

The handlers that write twice are two actions, because a crash can fall in between: `plan_action`
is `PlanRoute` then `PlanExecution`, `decide` is `RecordApproval` then `ApplyApproval`, and
`execute_action` and `reconcile_action` are claim, executor call, completion. The execution-plan
store has no fence: `PlanExecution` and `RecordApproval` do not ask for one, as in the code.

Abstractions. Identifiers, digests, deadlines and reason codes are left out. The operation's random
token is known to its claimant alone and never reused, so the row's position stands for it. A call
never runs twice in one host for one plan, because the kernel's thread lock serialises the gateway's
calls of a thread and a plan belongs to one call; this is the guard `task[h][p] = Idle`. The audit
event and the route row are written in one transaction, so the chain is represented by its length.

**Assumption about executors.** They are external to the router: `TruthfulOutcome` says that one
that returns `succeeded` has published everything, one that returns `failed` nothing, and that
reconciliation reports what is there. It also takes an executor's effects to stop when its call
ends, which holds for the workspace-transaction executor: it publishes its members inline on the
event loop, between two awaits. It does not hold for an executor that works in a thread.
`GitPush` models that one by itself, and is where the assumption fails; `WorkspaceTransaction` is the
executor for which it is checked (`OutcomeIsTruthful`).

### GitPush: state and steps

`route`, `attempts` and `call` are the router's side; `worker` and `reader` the two threads
`asyncio.to_thread` starts; `branch` and `remote` the two refs; `request`, `cargo` and `lease` the push on the
wire, the commit it carries and the OID it is bound to. `CallDetaches` ends the await and leaves the thread alone,
`HostRestarts` kills the threads and leaves the request alone. `RemoteAnswers`, `OthersPush` and
`LocalRefMoves` are external. The approved commit is taken to differ from the expected
remote OID: a push has something to push.

### WorkspaceTransaction: state and steps

| variable | in the code |
|---|---|
| `files` | the workspace: the files every transaction of the model writes |
| `plan` | the `before` of each mutation; its `after` is the patch's own content, or for a rollback the original's `before` |
| `record` | state, cursor and sequence of the row in `workspace_transactions` |
| `lease` | the row of the workspace in `workspace_leases` |
| `worker` | a call of `execute` or `reconcile`: the record it loaded, the transition it is about to commit, the files it has read, its fencing token |
| `route`, `attempts` | what the router knows of the action |
| `wrote`, `reached` | history: members a transaction replaced; members that had their `after` at some time |
| `raced`, `lapsed` | history: files edited in the window before the rename; a lease ran out in use |

One step is one look at one file, one replacement, or one transaction of a store; the second look of
`_apply` and `os.replace` are two steps, because the code leaves that window open. `reconcile` is the
same steps wherever it is called from: the router (`recover`), a `publish_next` that finds a record
already begun (`resume`), and the handler of an error in `_apply` (`repair`). `execute` can be
cancelled only at its `await` (`pc = "next"`). `StorageErrors` lets every read, write and commit fail.
A transaction is executed when its record exists: the case of a route without one, which
reconciliation hands over as `delivery_plan_missing`, is left out. Every transaction writes every file.

### AgentTurn: state and steps

| variable | in the code |
|---|---|
| `turns` | the thread's projection of the session log: per turn its status, the user messages it accepted and those in the history of its last model step, the model attempt, and per call the approval or question (`gate`) and the result |
| `routes` | the router's ledger of the same calls, reduced to what the gateway tells apart: route state, approval checkpoint, effects on the world |
| `driver` | the task that runs `_drive`, `_finish` or `_recover` on the last turn: where it is, its `CancelToken`, what it holds that is not yet stored |
| `reply` | a `reply_approval` in progress; it holds the thread's lock over three writes |
| `host`, `archived`, `faults` | the runtime (`down`, `recovering`, `open`, `closing`); the thread is read-only; faults so far |

One step is one append to the session, one write of the router or one event of a tool. A kind of call
stands for the way it is handled: `read` and `write` are ordinary tools, `guarded` needs an approval of the
session alone, `query` and `action` belong to the gateway (the second is approved in both ledgers), `ask` is
`ask_user`, `rejected` a call whose arguments are refused. Users' commands are `Accept` (new, deferred or
retry), `Resume`, `Steer`, `Cancel`, `ReplyQuestion`, `ReplyGuarded`, `ReplyCheckpoint` and `Archive`.
`ReplyCheckpoint`, `ReplyRoute` and `ReplyAppend` are the three writes of one answer to an action; a crash
falls between any two and `Sync` is what brings the ledgers together. `Loop` to `Schedule` are `_drive` and
`_sample_events`, `ExecuteCalls` to `RecordToolResult` are `_execute_calls`: at `calls` it begins and looks for a
group of reads to run in parallel, at most `MaxParallelTools` of them (`Parallel`, `Grouped`); without one, its loop takes the calls one
by one at `serial`, whatever they are. `driver.group` counts the results of a group still to be recorded; after
the last of them it begins anew. `Finish` and `Settle` are `_finish`, whose append is refused when the reducers' rules (`Acceptable`, `Consistent`) do not hold.
Compaction windows, plans, forks, the patch and process bridges, usage and delta streaming are left out. So is
`supports_parallel_calls`: of the product's read-only tools only `ask_user`, a kind of its own, and the plan do not set it (`read_catalog.py`, `action_catalog.py`).

The executor of an action is external: `Truth` lets it conclude what its effects allow or nothing.
`StageOf` and `Contract` map the agent's view of its routes to `ActionContract`, the same promise
`TrustedActions` refines: that is how the two modules are composed.

### ProcessSupervisor: state and steps

| variable | in the code |
|---|---|
| `lease`, `receipt` | the row of `process_leases`; `receipt.json`, signed by the owner |
| `owner`, `target`, `ended` | the owner worker of `posix_owner.py`; the process group it launched; how its root ended |
| `pipe`, `thread` | the control pipe (start and stop frames, open or closed); the `asyncio.to_thread` that starts the owner or writes to it |
| `hands` | the two `SupervisedProcess` objects with the snapshot of the lease each holds: the run's and a reconciliation's |
| `pc`, `cancelled`, `host` | where run, reconciliation and close are; the task was cancelled; the host process |
| `reported` | outcomes handed to the router by the executor of `product_config/eval_action.py` |

Host and owner are two processes. The host reads a receipt (`ReadReceipt`) and advances the lease
(`ApplyReceipt`) in two steps; a handle's transition is a compare-and-set on its snapshot (`Fresh`,
`Allowed`). `CancelRun` is the cancellation of the task at any await, a start in progress included, where the
thread it awaited goes on alone. `HostDies` closes the pipe, which the owner takes as `host_lost`. An owner that
is killed takes the target's root with it on Linux and leaves it elsewhere: `OwnerDies` allows both.
Times are nondeterministic: deadline, grace and the window of a reconciliation may be over at any moment.
Standard input, output bodies, background runs, containers and the Windows owner are left out.

### StdioConnection: state and steps

| variable | in the code |
|---|---|
| `pc`, `future`, `answer` | where each `exchange()` is; its `Future`; the request whose response settled it |
| `pending`, `abandoned`, `failure`, `free` | `_ResponseRouter` and the semaphore of `_RequestCapacity` |
| `process`, `writeLock`, `reading`, `closing` | `_ChildProcess`, the reader task and the progress of `close()` |
| `toServer`, `toClient` | the child's stdin and stdout |
| `server`, `stopping`, `line`, `task`, `outbox`, `writing` | `run_stdio`: main loop, dispatch tasks of `process_frame`, `_StdioWriter` and its thread |
| `leaked`, `robbed` | history: calls cancelled with a slot in hand (`granted`, or `refused` and about to give it back); calls whose entry another call's cancellation took |

Both sides are asyncio programs: a step is the code between two awaits, and `Cancel` may end a call at any of
them. The connection starts after the handshake. A frame is the call it belongs to and carries the id `IdOf`
of that call, which two calls may share, because the transport takes ids from its callers; the null id of a
refusal is `NoCall`. A `drain` fails only when the pipe breaks with a part of the frame unsent. What the
stdin reader of the server has read ahead counts as still in the pipe. Timeouts (a full outbox, a child that
does not exit) may fire whenever their condition holds. `Crash`, `WriterFails` and the refusal of an id are faults.
The handshake, `notify`, the command ledger and the polling of events are left out.

## 3. Runs

| run | checks | instance, and why it is enough |
|---|---|---|
| `actions` | types; the stores agree on approvals; no effect before approval; the chain accounts for the ledger; an unsettled route can be written to; the runtime always opens again; `TrustedActions` implements `ActionContract`; the policy allows only bounded reads and agrees with the catalogue | every combination of the policy's facts, in every state with an open runtime; a write, a read and a denied call (the three ways into the router), two members (none, some, all), two reconciliations, two exits of the host at any point, so attempts run out in every order; `MaxSequence = 9` is exactly what two reconciliations need, so one event too many is seen |
| `fencing` | ledger and route agree; the effect happens once; an open runtime owes nothing; only the owner completes | two hosts, a lock file that can be replaced under the live one, three faults: lose the lock, fail over, fail again |
| `push` | pushed at most once; success is real; a failure the push itself reports is definite unless the connection broke; nobody else's commit is overwritten | three reconciliations (the default), two exits, everything may go wrong |
| `txn_truth` | `failed` replaced nothing, `succeeded` replaced everything; one writer at a time unless a lease ran out in use | two patches of the same two files (none, some, all of the members), storage errors, a lease that expires, a crash at any point, one reconciliation |
| `txn_rollback` | outcomes again; only approved content is replaced | a patch and the rollback planned on its result, two edits by another program (change, and change back) at any moment, a crash |
| `txn_overlap` | the cursor never runs ahead of the disk; succeeded is published; what was started is settled | one patch, executed by one host while the next reconciles, an edit at any moment, an expiring lease, a crash, storage errors for ever, two reconciliations |
| `turn` | types; a completed turn showed the model every message it accepted; the two ledgers agree on every decision and an effect needs both; what is reported of an action is true; a finished turn owes nothing; nothing happens to it afterwards | one turn of two model steps with two attempts, eight responses that cover every kind of call alone and beside one that changes its treatment (two reads and a read with a query form a parallel group at `MaxParallelTools = 2`; behind a write the same two are taken in order), one steering message, cancellation, expiry, raising tools and providers, one crash, closing or storage error at any point |
| `turn_live` | a turn ends or needs a person; a retry repeats no effect; the agent's use of the router implements `ActionContract` | a turn and its retry, two steps, actions and queries, a crash at any point, no cancellation or raising tool (findings 1 and 6 would stop it) |
| `turn_cancel` | *violated*: a cancelled turn ends | one action, no fault at all |
| `turn_unknown` | *violated*: no model step follows an unknown result | one action, one crash |
| `process` | what a terminal lease says is true and final; what the router is told is true; the group is brought down; the lease settles | two running receipts (the first and one that changes nothing but its number), two faults (host and owner die, or either after an I/O error), cancellation and close at any await |
| `wire` | no call gets another's response; every slot of the capacity is accounted for; a registered call ends; `close` and the calls under way come to an end | three calls, two of which share an id (reuse after a cancellation), two slots so that the third call waits, one server slot, an outbox and pipes of one frame so that every queue fills, one cancellation, one fault, `close` at any time |

Deadlock is not checked: an open runtime with every plan settled, a push or a turn that is over, wait for
users who may never come.

`actions` uses a lock that is not lost. With a lost lock the generation
fence protects the ledger and not the world: the old host's executor may publish another member
after its successor has looked. That is why the contract is not claimed in `fencing`. For the same reason `OutcomeIsTruthful` is checked without `Overlap`, and only
as long as nobody else edits: a file somebody else put back cannot be told from one that was never written.

**Fairness** (`FairSpec`): a host that is down is started again; startup does not stop between two of
its steps; every executor call ends, because `asyncio.timeout` bounds it; and the coroutine that
awaited it goes on to its completion. Nothing is assumed of users: planning, deciding, executing and
reconciling on request may never happen. In `WorkspaceTransaction`, a call goes on to its end and an unknown route is reconciled, by
startup or by the gateway; nobody has to execute anything. In `AgentTurn` the event
loop runs every task that can run, a host that is down is started again, and an open turn is resumed: by `thread/resume`
or `turn/resume`, or by the app server after a command. This is the one thing asked of users. In `ProcessSupervisor` threads and tasks run, the owner's loop turns over, its deadline comes and SIGKILL
kills; the target itself need never end. The window of a reconciliation (`WindowEnds`) is strongly fair: its polls
are finitely many in the code. In `StdioConnection` the two event loops and the threads do not all stop while one of
them has a step to take: dispatched requests end and timeouts fire. One weak-fairness condition on all of these steps is
enough, since every call is made once. Users need neither call, cancel nor close. Exits are bounded by `MaxFaults` and `MaxCrashes`, the only thing that makes
"eventually" mean something on a machine that may crash.

### What the violations show

1. `turn_cancel`. A user cancels while an action's route is already settled and the session has no result
   yet. `_finish` recovers the call through the gateway, which projects a route that was terminal before
   with origin `execution`; the reducer takes that in `EXECUTING_TOOLS` only, and the turn is `CANCELLING`. The
   append is refused, `_finish` raises, every further cancel does the same, and after a restart the
   runtime cannot open on this thread.
2. `turn_unknown`. The unknown result is committed, the host dies before the turn is interrupted, and
   `result_resume_safe` looks at the presence of a trusted-action result and not at its outcome: the model loop
   goes on, which `_execute_calls` forbids.

### Found while modelling, without a run of their own

Each can be reproduced with the definitions that are in the modules.

3. *Attempts outlast the audit chain.* The router accepts up to 128 reconciliation attempts (`router.py:200`) and the
   audit sequence ends at 256 (`contracts.py:248`). An attempt takes two events, so from 126 attempts on the chain
   is full first: the route stays `unknown`, cannot be handed over, and startup refuses to open.
   `docs/adr/0091-…:167` gives 1–128 as legal. The default of 3 is far from it. (`MCTrustedActions`, `Plans = {write}`,
   `MaxReconcile = 128`, `MaxSequence = 256`, `MaxFaults = 0`, constraint `NoInterruptions`, invariant
   `UnsettledRouteCanAppend`. The theorem `UnsettledRoutesStayWritable` gives the exact condition.)
4. *A failed push may land.* A cancelled push goes on in its thread; reconciliation reads the old OID and settles
   the route as failed (`git_push_not_applied`, called definite in `docs/modules/delivery.md:1347`); the push lands
   afterwards. There is a second way to the same end, which `ReportedFailureIsDefinite` excepts with `cut`: git
   exits with 128 when the connection breaks, also while the remote is still at work. (`GitPush`,
   `CallsDetach = TRUE`, `MaxExits = 0`, `LinesDrop = FALSE`, invariant `FailureIsDefinite`.)
5. *Another commit may be pushed.* The local ref is compared with the approved OID and resolved again by `git push`,
   with a network round trip in between (`git_push.py:327`; `docs/modules/delivery.md:176`). The route does not claim
   success; it ends in manual intervention, with the other commit on the remote. (`GitPush`, no failures, invariant
   `OnlyApprovedCommitLands`.)
6. *Recovery can leave a turn nobody resumes.* `_execute_calls` run by recovery may end with plain results only; the turn
   is in `EXECUTING_TOOLS` and not resumable until the next restart interrupts it. That is why `turn_live` has `Failures = FALSE`.
7. *An answered question stays a reason to resume* (`runtime_recovery.py:46`): once a question of the turn was answered,
   a crash in a later call of the same turn is treated as a safe boundary (`docs/modules/agent.md:482` speaks of one that
   has not gone on yet). (`MCAgentTurn`, `FairSpec`, `Responses <- AskThenAct`, `MaxFaults = 1`, the rest as in
   `turn_live`, property `TurnProgresses`.)
8. *Files put back.* A transaction record in `publishing` with cursor 1 whose first file was put back by somebody would
   have to go to cursor 0, and the ledger refuses a smaller cursor (`delivery/store.py:161`;
   `docs/modules/delivery.md:649`). Every reconciliation raises until the attempts are used up; the action is then handed over,
   so nothing is claimed that is not true. (`MCWorkspaceTransaction`, one patch, no errors, one edit, property
   `AllBeforeInterrupts`.)
9. *A killed owner is not noticed.* After a running receipt, `refresh` returns when there is no newer receipt and does
   not ask whether the owner lives (`supervisor.py:130`): `wait`, `_wait_terminal` and `aclose` poll for ever. `LeaseSettles`
   excepts exactly that case. `docs/modules/processes.md:1525` lists it as untested.
10. *A cancelled start leaves the process running.* `run` cancelled inside `start` (`supervisor.py:501-545`) does not
    stop the owner, although `docs/modules/processes.md:1359` says a cancellation converges first. The target runs
    until its deadline or the host's end, which is what `GroupIsReaped` shows.

11. *A cancelled reservation can lose a slot.* `_RequestCapacity.reserve` sets `transferred` and then awaits the gather
    of its `finally` (`sdk/subprocess.py:66-80`); a cancellation there returns no slot to the caller and gives none back. The same `await` stands before the
    release of a reservation that failed, where the loss no longer matters: the connection has failed.
    The capacity is one smaller for the life of the transport, although `docs/modules/sdk.md` (13.1) says every path
    releases once. `SlotsAreAccountedFor` counts these calls in `leaked`.
12. *A cancellation can take another call's entry.* `abandon` and `discard` look an entry up by id and not by future
    (`sdk/subprocess.py:119`). A call cancelled just after its response was delivered removes the entry of a new call
    with the same id, which then waits for ever, also after `close`. `docs/modules/sdk.md:78` says a cancellation does not
    affect other requests. The ids of one `AgentClient` are unique; those of two clients, or of a direct user of
    the transport, need not be. `RegisteredCallEnds` and `CloseSettles` except these calls as `robbed`.

These are findings of reading and of the model. Only 11 and 12 were also reproduced, with the router and capacity
classes of `sdk/subprocess.py` alone.

## 4. Theorems

They hold for every value of the constants that the assumptions of the module allow: any number of hosts, plans,
transactions, calls, retries and faults, with every switch on or off. Where a theorem needs more, its statement says
so and the reason is below. Each module has one inductive invariant (`IInv`), a lemma `InvInit` for the initial
states and a lemma `InvStep` with a case per action; a theorem is one implication from `IInv`. TLC checked each `IInv` on
the instance of the module's run before it was proved.

### The router: TrustedActionsProofs

Assumptions (`TrustedActions`): `NoHost` is no host, the limits are numbers and `MaxReconcile` is in `1..128`, the facts
are facts of the policy.

| theorem | says |
|---|---|
| `TypeCorrect` | `TypeOK` |
| `LedgerAlwaysMatchesRoute` | rows and route state agree |
| `EffectHappensAtMostOnce` | no member is published twice |
| `EffectsAreApproved` | a write that touched the world was approved |
| `StoresAlwaysAgree` | the two stores never contradict each other |
| `AuditChainIsComplete` | the chain has the events the ledger implies |
| `UnsettledRoutesStayWritable` | if `2 * MaxReconcile + 4 < MaxSequence`, an unsettled route can be written to |
| `LedgerIsFenced` | `FencedLedger`: only the owner completes, a closed row never changes |
| `PolicyIsSafe` | `OpenCatalogueIsExact`: an open runtime allows exactly the bounded reads and agrees with the catalogue |

The argument. None of these is inductive alone. `IInv` adds what they lean on:

- `OwnerInv`: fences are generations that were issued, and two hosts never share one. Without it a
  stale host could pass the fence check.
- `TaskInv`: a task in flight belongs to a row with its generation and attempt; an execute task that is
  still publishing has published no more than it counted. Without it `complete_operation` could close
  somebody else's row.
- `RowsMatch`, `RowCounts`: rows and route state agree; there is one execute row at most and no
  reconcile row before it. This is what makes the effect single: the second claim needs a state that
  the first one left for good.
- `ChainLength`: the length of the chain as a function of the rows.
- `Authorised`: what each route state says about the two stores.
- `Effect`: what was published is bounded by what the only execute task did.

`StepCases` sorts the steps by what they write, so that each conjunct is proved against the few that
can disturb it.

### The router as its users see it: TrustedActionsRefinement

| theorem | says |
|---|---|
| `OpenRuntimeNeverOwes` | a runtime that is open and owns the fence has no unresolved route of an earlier generation; lost locks included |
| `RouterImplementsContract` | with a lock that is not lost, every step is a step of `ActionContract` or a stutter |
| `ConclusionsAreTrue` | with a lock that is not lost, succeeded means published completely; failed, denied or not started means not at all |

`RInv` adds to `IInv`: the host that holds the lock is the only live one (`LockHeld`); a call in flight is the one its
route waits for, and there is none before recovery has come to reconciliation (`TaskLive`); what a call that returned
reports is what is published (`ReportsTrue`). The second and third fail with a lost lock: a stale host goes on publishing
for a route that its successor reconciles. The `fencing` run covers that case, where the ledger stays correct and the
conclusions need not. `LockMayBeLost` is therefore the one condition.

### Git push: GitPushProofs

`PushHappensAtMostOnce`, `SuccessIsAlwaysReal`, `ReportedFailuresAreDefinite`, `OthersAreNeverOverwritten`, `TypeCorrect`.
`Sending` follows the one thread that pushes; `Landing` says that what the remote has of ours came with that request and that the
old OID never returns, which is why the lease of a request that arrives late cannot match somebody else's commit;
`Seen` ties every claim of success to a sight of the approved commit; `Decided` ties a claim of failure to the remote's decision,
except where git lost the connection (`cut`).

### Workspace transactions: WorkspaceTransactionProofs, WorkspaceOutcomeProofs

| theorem | says |
|---|---|
| `LedgerAlwaysFollowsDisk` | the cursor never runs ahead of the files; a success is a published record |
| `AlwaysOneWriter`, `WritesAlwaysOverBefore` | unless a lease ran out in use, one transaction at a time is inside a member, and it replaces the approved content, or what another program put there after the last check |
| `PatchSuccessIsAlwaysReal` | a patch that is reported as a success replaced every member itself, as long as no other program writes |
| `OutcomesAreTruthful` | with one host at a time and patches only: succeeded means everything was replaced, failed nothing |
| `TypeCorrect` | `TypeOK` |

`LedgerInv` says what the record knows of the files (`reached` has every member below the cursor, and every file that
shows its image after); `CallInv` what a call at each of its awaits knows of its record (`PlaceOk`), of the files it read
(`FactsOk`) and of its lease (`LeaseOk`). A snapshot in a terminal state is the record, because terminal records do not
change: that is what lets a call report from a snapshot. `OriginInv` traces a content to the patch that wrote it, and `TruthInv` says
that a patch writes each member once and has its record to itself.

The two conditions of `OutcomesAreTruthful` are needed. With a second host that reconciles while the first still executes
(`Overlap`, the `txn_overlap` run) a verdict can be overtaken by a late write. Two rollbacks of one patch write the same content, and TLC shows
what follows when a lease runs out: the first lapses before its rename, the second verifies, the first writes, and the second finds
its image after in place and reports a success without having written. The files are as reported; who wrote them is not
observable, so nothing is wrong with the code. Rollbacks with leases that do not run out stay with TLC (`txn_rollback`).

### The agent turn: AgentTurnProofs

| theorem | says |
|---|---|
| `EffectsNeedBothLedgers` | the session's decision is the router's; an action changes the world at most once, and after both have the approval |
| `ReportsAreAlwaysTrue` | a result claims a success or a failure only where it is one; what is unknown interrupts the turn |
| `TerminalTurnsAreClosed`, `EndsAreFinal` | a turn that ended owes nothing, and no step of anybody changes it or its routes |
| `SteeringAlwaysReachesModel` | a completed turn has shown the model every message it accepted |
| `RetriesAreSafe` | a retry starts from a turn whose actions are all accounted for |
| `GatewayImplementsContract` | every step is a step of `ActionContract` or a stutter |
| `TypeCorrect` | `TypeOK` |

All of them hold without a condition on the switches. `IInv` is `TypeOK` and four parts:

- `LedgerInv`: the entries of the two ledgers for one call (`CallOk`). The router is a step ahead: a decision is its
  checkpoint first and the session's gate second, and nothing runs before the gate says `approved`. A result is `Backed` by the
  route's state. Calls are worked on in order (`InOrder`): those behind the first pending one have no route yet, so
  the end of a turn has one route to settle. `StatusOk`, `Over` and `RetryOk` say what a status
  promises: a turn that may complete has shown its messages, one that ended has no open entry.
- `DriverInv`: what the task found out before an `await` is still so after it. A command may come in between at each place
  `pc` names; without this the record of a result could meet a turn that has ended.
- `ReplyInv`: an answer in progress has told the router and not yet the session, and the turn still waits for it.
- `HostInv`: an executor runs where the task is, or where it was when its host died.

The last two theorems speak of steps. All steps but three (`TakeEffect`, `CommitCalls`, `Accept`) are `Orderly`: they write to the
open turn only (`Frame`) and move at most one route, as the contract allows (`RouteMove`, `Legal`); the three are treated by
themselves. The bound `CallBound` enters the refinement only as the set of the contract's plan ids.

### Processes: ProcessSupervisorProofs

`LeaseIsAlwaysTrue`, `ReportIsAlwaysTrue`, `TerminalLeaseIsFinal`, `TypeCorrect`. The chain of custody: only the owner launches and judges the target, and
what a terminal receipt says is true when it is signed and stays so (`OwnerInv`); a handle's snapshot is never ahead of the
lease, and equal sequences are equal states, so the compare-and-set of a stale handle fails (`HandInv`); until its handle is
registered the run is alone with its lease, and the starting thread it may have left behind can still launch an owner (`StartInv`,
`ThreadInv`), so a lease fails only when no target was launched and none will be (`LeaseInv`); a conclusion comes from a lease that no longer changes (`ReportInv`).

### The stdio connection: StdioConnectionProofs

`AnswersAreAlwaysOwn`, `SlotsAreAlwaysAccountedFor`, `TypeCorrect`. Calls may share an id, so an answer is matched by a name that is not unique. `PlaceInv` says that a
request is in one place of its way to the server and back; `WayInv` that, until the connection fails, an id names one request under way and the
router knows it by an entry or a tombstone. A tombstone is therefore what keeps the late answer of a cancelled call from the next
call with its id. After a failure there is no reader or no entry left (`LifeInv`). The slots are a sum of cardinalities that every step leaves
alone or moves by one (`RouterInv` makes entries and calls correspond).

### Only model-checked

Liveness under fairness is out of the prover's reach: `ReopensEventually`, `StartedIsSettled`, `TurnProgresses`,
`GroupIsReaped`, `LeaseSettles`, `RegisteredCallEnds`, `CloseSettles`. `OutcomeIsTruthful` for rollbacks. The type invariants of the executors are proved and no run lists them.
No module uses recursion.

## 5. Not modelled

Extension ports, result artifacts and their redaction, schema migration and corruption checks of the
stores (they refuse, they do not repair); the counts of the recovery scan for sessions, artifacts and
process leases, which make startup refuse; URL canonicalisation and receipts of a push. Of
workspace transactions: renewal of a lease (nothing calls it), blobs and file modes, the Windows port, the
second plan version, and a power failure that loses a rename the ledger already knows of. Of the agent runtime:
forks, plans, compaction, the managed patch and process bridges, tool output and its protection, several threads
at once (they share nothing but the store). Of processes: the Windows owner, containers, standard input,
descendants that leave their process group. Of the app server and the SDK: the handshake, notifications, the command
ledger (`protocol/requests.py`, `execute_command`), the polling of events, the methods themselves, and a child that stays
alive and never reads its input again (a write has no timeout of its own). The session store's request ids, maintenance and backup.
The other components of section 1 are planned or left out for the reason that `PROJECT.json` gives.

The repository is large (about 155 000 lines, most of them contracts, validation, evaluations, adapters and
terminal rendering); the map covers the protocols between actors, not the share of lines.

## 6. Plan

Done: the policy, the router with its runtime, Git push, workspace transactions, the agent turn with the second
ledger, the process supervisor, the stdio connection. Next:

1. `OutcomeIsTruthful` for rollbacks whose leases do not run out: who wrote a file is then a matter of order, and the
   invariant has to follow the chain of a patch and its rollbacks.
2. The app server's command ledger: a command repeated after a lost answer or a restart runs once.
3. The managed patch ledgers, hooks, provider fallback, the compaction ledger, artifact publication.
