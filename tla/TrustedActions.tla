--------------------------- MODULE TrustedActions ---------------------------
(***************************************************************************)
(* The trusted-action router: the only way an agent's tool call becomes an  *)
(* effect on the world.                                                     *)
(*                                                                          *)
(* A plan is written to two stores (the action audit and the execution-plan *)
(* store), approved in two stores, then executed through an operation that  *)
(* is claimed before the executor is called and completed after it returns. *)
(* Every write of the audit store is fenced by the generation of the runtime*)
(* owner.  A host that dies leaves operations behind; the next host marks   *)
(* them interrupted, and an effect it cannot account for is only ever       *)
(* reconciled, never executed again.                                        *)
(*                                                                          *)
(* One step is one SQLite transaction, one call into an executor, or one    *)
(* event of the host's life.  A rejected transaction is rolled back, so the *)
(* error paths that change nothing are stuttering steps.                    *)
(***************************************************************************)
EXTENDS Naturals, Sequences, ActionPolicy

CONSTANTS
    Plans,          \* plan identities (= invocation identities)
    Hosts,          \* processes that open the product runtime
    NoHost,         \* the runtime lock is free
    FactsOf,        \* [Plans -> Facts]: what the policy sees of each plan
    Members,        \* atomic members a write plan publishes
    MaxReconcile,   \* max_reconciliation_attempts of the router
    MaxSequence,    \* upper bound of ActionAuditEvent.sequence
    MaxFaults,      \* bound of the model: host exits and lost lock files in one behaviour
    LockMayBeLost   \* TRUE: the lock file can be replaced under a live host

ASSUME HostsAssumption  == NoHost \notin Hosts
ASSUME LimitsAssumption == /\ Members \in Nat \ {0}
                           /\ MaxReconcile \in 1..128
                           /\ MaxSequence \in Nat \ {0}
                           /\ MaxFaults \in Nat
                           /\ LockMayBeLost \in BOOLEAN
ASSUME FactsAssumption  == \A p \in Plans : FactsOf[p] \in Facts

VARIABLES
    \* durable: the action audit store
    routeState,       \* [Plans -> RouteStates]
    routeSequence,    \* [Plans -> Nat]: last event of the plan's audit chain
    ops,              \* [Plans -> [Phases -> Seq(Operation)]]: rows by attempt
    ownerGeneration,  \* Nat: generation of the newest runtime owner
    \* durable: the execution-plan store
    execPlans,        \* SUBSET Plans
    approval,         \* [Plans -> {"none", "approved", "rejected"}]
    \* volatile: hosts
    lock,             \* the host that holds the runtime lock file
    phase,            \* [Hosts -> HostPhases]
    fence,            \* [Hosts -> Nat]: generation the host obtained, 0 = none
    todo,             \* [Hosts -> SUBSET Plans]: unknown routes startup must reconcile
    task,             \* [Hosts -> [Plans -> Task]]: operation in flight
    faults,           \* Nat: exits and lost lock files so far
    \* the world
    published         \* [Plans -> Nat]: members published, counted each time

vars == <<routeState, routeSequence, ops, ownerGeneration, execPlans, approval,
          lock, phase, fence, todo, task, faults, published>>

audit  == <<routeState, routeSequence, ops>>
plan   == <<execPlans, approval>>
owner  == <<ownerGeneration, lock, phase, fence, faults>>

-----------------------------------------------------------------------------
(* States and types *)

Phases        == {"execute", "reconcile"}
HostPhases    == {"down", "scan", "interrupt", "reconcile", "open"}
RouteStates   == {"absent", "denied", "pending_approval", "ready", "running", "succeeded",
                  "failed", "unknown", "reconciling", "manual_intervention"}
TerminalStates   == {"denied", "succeeded", "failed", "manual_intervention"}
UnresolvedStates == {"running", "unknown", "reconciling"}
Outcomes      == {"succeeded", "failed", "unknown", "manual_intervention"}
OperationStates == {"active", "completed", "interrupted"}

\* ALLOWED_ROUTE_TRANSITIONS
AllowedTransitions ==
    [absent              |-> {},
     pending_approval    |-> {"ready", "denied"},
     ready               |-> {"running"},
     running             |-> {"succeeded", "failed", "unknown"},
     unknown             |-> {"reconciling", "manual_intervention"},
     reconciling         |-> {"succeeded", "failed", "unknown", "manual_intervention"},
     denied              |-> {},
     succeeded           |-> {},
     failed              |-> {},
     manual_intervention |-> {}]

\* A row of action_route_operations.  Its token is known to its claimant only and never
\* reused, so the position of the row (plan, phase, attempt) stands for operation and token.
Operation == [generation : Nat, state : OperationStates]

\* The route state an active operation of a phase stands for.
ActiveState(ph) == IF ph = "execute" THEN "running" ELSE "reconciling"

\* ClaimedActionOperation with the progress of the executor call made for it:
\* "done" members published, and the outcome once the call has returned.
Task == [phase      : Phases \cup {"idle"},
         attempt    : Nat,
         generation : Nat,
         done       : Nat,
         outcome    : Outcomes \cup {"pending"}]

Idle == [phase |-> "idle", attempt |-> 0, generation |-> 0, done |-> 0,
         outcome |-> "pending"]

TypeOK ==
    /\ routeState \in [Plans -> RouteStates]
    /\ routeSequence \in [Plans -> Nat]
    /\ ops \in [Plans -> [Phases -> Seq(Operation)]]
    /\ ownerGeneration \in Nat
    /\ execPlans \in SUBSET Plans
    /\ approval \in [Plans -> {"none", "approved", "rejected"}]
    /\ lock \in Hosts \cup {NoHost}
    /\ phase \in [Hosts -> HostPhases]
    /\ fence \in [Hosts -> Nat]
    /\ todo \in [Hosts -> SUBSET Plans]
    /\ task \in [Hosts -> [Plans -> Task]]
    /\ faults \in Nat
    /\ published \in [Plans -> Nat]

-----------------------------------------------------------------------------
(* Helpers *)

Decision(p) == Evaluate(FactsOf[p])
ReadOnly(p) == FactsOf[p].effect = "read_only"
Recovery(p) == FactsOf[p].recovery

\* _assert_runtime_owner: the host's generation is the one in the database.
OwnsFence(h) == fence[h] # 0 /\ fence[h] = ownerGeneration

\* The next audit event still satisfies the bound of its sequence field.
CanAppend(p) == routeSequence[p] < MaxSequence

\* The audit store refuses every further write of the host to this route.
Refused(h, p) == ~OwnsFence(h) \/ ~CanAppend(p)

\* Mutant: an interrupted or inconclusive route is updated without an audit event.
TransitionUnaudited(p, expected, target) ==
    /\ routeState[p] \in expected
    /\ target \in AllowedTransitions[routeState[p]]
    /\ CanAppend(p)
    /\ routeState' = [routeState EXCEPT ![p] = target]
    /\ routeSequence' = [routeSequence EXCEPT ![p] = IF target = "unknown" THEN @ ELSE @ + 1]

\* _transition_in_transaction
Transition(p, expected, target) ==
    /\ routeState[p] \in expected
    /\ target \in AllowedTransitions[routeState[p]]
    /\ CanAppend(p)
    /\ routeState' = [routeState EXCEPT ![p] = target]
    /\ routeSequence' = [routeSequence EXCEPT ![p] = @ + 1]

\* SELECT COALESCE(MAX(attempt), 0): rows are numbered from 1 without gaps.
Attempts(p, ph) == Len(ops[p][ph])

SetRows(p, ph, rows) == [ops EXCEPT ![p] = [ops[p] EXCEPT ![ph] = rows]]
SetTask(h, p, t)     == [task EXCEPT ![h] = [task[h] EXCEPT ![p] = t]]

\* execution_is_approved
ExecutionApproved(p) ==
    \/ Decision(p) = "allow" /\ approval[p] = "none"
    \/ Decision(p) = "require_approval" /\ approval[p] = "approved"

\* The UPDATE of interrupt_operation: the active row with the highest attempt.
MarkInterrupted(rows) ==
    LET active == {i \in DOMAIN rows : rows[i].state = "active"} IN
    [i \in DOMAIN rows |->
        IF i \in active /\ \A j \in active : j <= i
        THEN [generation |-> rows[i].generation, state |-> "interrupted"]
        ELSE rows[i]]

MarkCompleted(rows, attempt) ==
    [i \in DOMAIN rows |->
        IF i = attempt
        THEN [generation |-> rows[i].generation, state |-> "completed"]
        ELSE rows[i]]

\* Mutant: the route is set to its active state without comparing the expected one.
ClaimUnchecked(h, p, ph, limit) ==
    LET attempt == Attempts(p, ph) + 1 IN
    /\ OwnsFence(h)
    /\ attempt <= limit
    /\ routeState[p] \notin TerminalStates
    /\ routeState' = [routeState EXCEPT ![p] = ActiveState(ph)]
    /\ routeSequence' = [routeSequence EXCEPT ![p] = @ + 1]
    /\ ops' = SetRows(p, ph, Append(ops[p][ph], [generation |-> fence[h], state |-> "active"]))
    /\ task' = SetTask(h, p, [phase |-> ph, attempt |-> attempt, generation |-> fence[h],
                               done |-> 0, outcome |-> "pending"])

\* Mutant: one attempt more than the limit.
ClaimOneMore(h, p, ph, limit) ==
    LET attempt == Attempts(p, ph) + 1 IN
    /\ OwnsFence(h)
    /\ attempt <= limit + 1
    /\ Transition(p, IF ph = "execute" THEN {"ready"} ELSE {"unknown"}, ActiveState(ph))
    /\ ops' = SetRows(p, ph, Append(ops[p][ph], [generation |-> fence[h], state |-> "active"]))
    /\ task' = SetTask(h, p, [phase |-> ph, attempt |-> attempt, generation |-> fence[h],
                               done |-> 0, outcome |-> "pending"])

\* claim_operation: MAX(attempt) + 1, one new active row, one task.
Claim(h, p, ph, limit) ==
    LET attempt == Attempts(p, ph) + 1 IN
    /\ OwnsFence(h)
    /\ attempt <= limit
    /\ Transition(p, IF ph = "execute" THEN {"ready"} ELSE {"unknown"}, ActiveState(ph))
    /\ ops' = SetRows(p, ph, Append(ops[p][ph], [generation |-> fence[h], state |-> "active"]))
    /\ task' = SetTask(h, p, [phase |-> ph, attempt |-> attempt, generation |-> fence[h],
                               done |-> 0, outcome |-> "pending"])

\* What a host loses when its process ends.
Forget(h) ==
    /\ phase' = [phase EXCEPT ![h] = "down"]
    /\ fence' = [fence EXCEPT ![h] = 0]
    /\ todo' = [todo EXCEPT ![h] = {}]
    /\ task' = [task EXCEPT ![h] = [p \in Plans |-> Idle]]
    /\ lock' = IF lock = h THEN NoHost ELSE lock

-----------------------------------------------------------------------------
(* Life of a host *)

\* runtime_owner(): take the lock file, bump the persistent generation.
StartRuntime(h) ==
    /\ phase[h] = "down"
    /\ lock = NoHost
    /\ lock' = h
    /\ ownerGeneration' = ownerGeneration + 1
    /\ fence' = [fence EXCEPT ![h] = ownerGeneration + 1]
    /\ phase' = [phase EXCEPT ![h] = "scan"]
    /\ UNCHANGED <<audit, plan, todo, task, faults, published>>

\* A process dies, is killed or closes at any point of its life.
HostExits(h) ==
    /\ phase[h] # "down"
    /\ faults < MaxFaults
    /\ faults' = faults + 1
    /\ Forget(h)
    /\ UNCHANGED <<audit, plan, ownerGeneration, published>>

\* External: the lock file is unlinked or replaced, so another process can lock it.
LockFileReplaced ==
    /\ LockMayBeLost
    /\ lock # NoHost
    /\ faults < MaxFaults
    /\ lock' = NoHost
    /\ faults' = faults + 1
    /\ UNCHANGED <<audit, plan, ownerGeneration, phase, fence, todo, task, published>>

-----------------------------------------------------------------------------
(* Startup recovery, before the runtime is opened to callers *)

\* scan_product_action_recovery: rebuild an execution plan from its audited route.
RepairExecutionPlan(h, p) ==
    /\ phase[h] = "scan"
    /\ routeState[p] # "absent"
    /\ p \notin execPlans
    /\ execPlans' = execPlans \cup {p}
    /\ UNCHANGED <<audit, approval, owner, todo, task, published>>

FinishScan(h) ==
    /\ phase[h] = "scan"
    /\ \A p \in Plans : routeState[p] # "absent" => p \in execPlans
    /\ phase' = [phase EXCEPT ![h] = "interrupt"]
    /\ UNCHANGED <<audit, plan, ownerGeneration, lock, fence, faults, todo, task, published>>

\* Mutant: the row is looked for among the executions whatever was interrupted.
InterruptExecuteRow(h, p) ==
    /\ OwnsFence(h)
    /\ \E ph \in Phases :
        /\ routeState[p] = ActiveState(ph)
        /\ Transition(p, {ActiveState(ph)}, "unknown")
        /\ ops' = SetRows(p, "execute", MarkInterrupted(ops[p]["execute"]))
    /\ UNCHANGED <<plan, owner, todo, task, published>>

\* interrupt_operation: the operation row and the route in one transaction.
InterruptOperation(h, p) ==
    /\ OwnsFence(h)
    /\ \E ph \in Phases :
        /\ routeState[p] = ActiveState(ph)
        /\ Transition(p, {ActiveState(ph)}, "unknown")
        /\ ops' = SetRows(p, ph, MarkInterrupted(ops[p][ph]))
    /\ UNCHANGED <<plan, owner, todo, task, published>>

\* recover_interrupted_plan for every route a dead host left in flight.
RecoverInterrupted(h, p) ==
    /\ phase[h] = "interrupt"
    /\ InterruptOperation(h, p)

FinishInterrupts(h) ==
    /\ phase[h] = "interrupt"
    /\ \A p \in Plans : routeState[p] \notin {"running", "reconciling"}
    /\ phase' = [phase EXCEPT ![h] = "reconcile"]
    /\ todo' = [todo EXCEPT ![h] = {p \in Plans : routeState[p] = "unknown"}]
    /\ UNCHANGED <<audit, plan, ownerGeneration, lock, fence, faults, task, published>>

\* _recover_product_actions raises: a store refused a step, or an effect is still
\* unresolved after its one reconciliation.  The runtime is torn down again.
RecoveryFails(h) ==
    /\ phase[h] \in {"interrupt", "reconcile"}
    /\ \A p \in Plans : task[h][p].outcome = "pending" => task[h][p] = Idle
    /\ \/ /\ phase[h] = "interrupt"
          /\ \E p \in Plans : routeState[p] \in {"running", "reconciling"} /\ Refused(h, p)
       \/ /\ phase[h] = "reconcile"
          /\ \E p \in todo[h] : Refused(h, p)
       \/ /\ phase[h] = "reconcile"
          /\ todo[h] = {}
          /\ \E p \in Plans : routeState[p] \in UnresolvedStates
    /\ Forget(h)
    /\ UNCHANGED <<audit, plan, ownerGeneration, faults, published>>

\* Mutant: the runtime opens with effects its reconciliation left unknown.
OpenRuntimeAnyway(h) ==
    /\ phase[h] = "reconcile"
    /\ todo[h] = {}
    /\ phase' = [phase EXCEPT ![h] = "open"]
    /\ UNCHANGED <<audit, plan, ownerGeneration, lock, fence, faults, todo, task, published>>

\* The startup report is clean: publish the catalogue and accept calls.
OpenRuntime(h) ==
    /\ phase[h] = "reconcile"
    /\ todo[h] = {}
    /\ \A p \in Plans : routeState[p] \notin UnresolvedStates
    /\ phase' = [phase EXCEPT ![h] = "open"]
    /\ UNCHANGED <<audit, plan, ownerGeneration, lock, fence, faults, todo, task, published>>

-----------------------------------------------------------------------------
(* Planning and approval *)

\* Mutant: the policy decision is stored as the route state.
InitialStateUnmapped(p) == Decision(p)

InitialState(p) ==
    CASE Decision(p) = "deny"             -> "denied"
      [] Decision(p) = "require_approval" -> "pending_approval"
      [] Decision(p) = "allow"            -> "ready"

\* plan_action, first transaction: SQLiteActionAuditStore.save_plan.
PlanRoute(h, p) ==
    /\ phase[h] = "open"
    /\ OwnsFence(h)
    /\ routeState[p] = "absent"
    /\ routeState' = [routeState EXCEPT ![p] = InitialState(p)]
    /\ routeSequence' = [routeSequence EXCEPT ![p] = 1]
    /\ UNCHANGED <<ops, plan, owner, todo, task, published>>

\* plan_action, second transaction: SQLiteExecutionPlanStore.save_plan, also the
\* whole effect of planning an existing route again.  This store has no fence.
PlanExecution(h, p) ==
    /\ phase[h] = "open"
    /\ routeState[p] # "absent"
    /\ p \notin execPlans
    /\ execPlans' = execPlans \cup {p}
    /\ UNCHANGED <<audit, approval, owner, todo, task, published>>

\* decide, first transaction: record_approval, once and for all, unfenced.
RecordApproval(h, p, outcome) ==
    /\ phase[h] = "open"
    /\ routeState[p] # "absent"
    /\ Decision(p) = "require_approval"
    /\ p \in execPlans
    /\ approval[p] = "none"
    /\ approval' = [approval EXCEPT ![p] = outcome]
    /\ UNCHANGED <<audit, execPlans, owner, todo, task, published>>

\* Mutant: the route is advanced before the decision is recorded.
ApplyApprovalFirst(h, p) ==
    /\ phase[h] = "open"
    /\ OwnsFence(h)
    /\ Transition(p, {"pending_approval"},
                  IF approval[p] = "rejected" THEN "denied" ELSE "ready")
    /\ UNCHANGED <<ops, plan, owner, todo, task, published>>

\* decide, second transaction; a replay of the same decision after a crash
\* between the two only does this one.
ApplyApproval(h, p) ==
    /\ phase[h] = "open"
    /\ OwnsFence(h)
    /\ approval[p] # "none"
    /\ Transition(p, {"pending_approval"},
                  IF approval[p] = "approved" THEN "ready" ELSE "denied")
    /\ UNCHANGED <<ops, plan, owner, todo, task, published>>

-----------------------------------------------------------------------------
(* Operations *)

\* claim_operation's default limit, also the CHECK of the operations table.
MaxAttempts == 128

\* execute_action up to the call of the executor.
ClaimExecute(h, p) ==
    /\ phase[h] = "open"
    /\ task[h][p] = Idle
    /\ p \in execPlans
    /\ ExecutionApproved(p)
    /\ Claim(h, p, "execute", MaxAttempts)
    /\ UNCHANGED <<plan, owner, todo, published>>

\* External: the executor publishes its next atomic member.
PublishMember(h, p) ==
    /\ task[h][p].phase = "execute"
    /\ task[h][p].outcome = "pending"
    /\ ~ReadOnly(p)
    /\ task[h][p].done < Members
    /\ task' = SetTask(h, p, [task[h][p] EXCEPT !.done = @ + 1])
    /\ published' = [published EXCEPT ![p] = @ + 1]
    /\ UNCHANGED <<audit, plan, owner, todo>>

\* External: an executor that returns tells the truth about what it did; a partly
\* published write is never called succeeded or failed.
TruthfulOutcome(p, count, outcome) ==
    ReadOnly(p) \/ /\ outcome = "succeeded" => count = Members
                   /\ outcome = "failed" => count = 0

\* The executor call of execute_action returns a valid outcome, or raises: timeout,
\* cancellation and errors are "failed" for a read and "unknown" for a write, an
\* UncertainEffectError and an outcome the executor itself calls unknown are "unknown".
ExecuteSettles(h, p, outcome) ==
    /\ task[h][p].phase = "execute"
    /\ task[h][p].outcome = "pending"
    /\ outcome # "manual_intervention"
    /\ TruthfulOutcome(p, task[h][p].done, outcome)
    /\ task' = SetTask(h, p, [task[h][p] EXCEPT !.outcome = outcome])
    /\ UNCHANGED <<audit, plan, owner, todo, published>>

\* A route may be reconciled one at a time by startup, or by the gateway of an open
\* runtime; the kernel's thread lock keeps a second call for the same plan away.
MayReconcile(h, p) ==
    /\ task[h][p] = Idle
    /\ \/ /\ phase[h] = "reconcile"
          /\ p \in todo[h]
          /\ \A q \in Plans : task[h][q] = Idle
       \/ phase[h] = "open"

\* Mutant: used-up attempts are not turned into a hand-over.
ReconcileManuallyNoBudget(h, p) ==
    /\ MayReconcile(h, p)
    /\ OwnsFence(h)
    /\ Recovery(p) = "none"
    /\ Transition(p, {"unknown"}, "manual_intervention")
    /\ todo' = [todo EXCEPT ![h] = @ \ {p}]
    /\ UNCHANGED <<ops, plan, owner, task, published>>

\* reconcile_action without an executor call: the tool has no recovery boundary, or
\* the attempts are used up.
ReconcileManually(h, p) ==
    /\ MayReconcile(h, p)
    /\ OwnsFence(h)
    /\ Recovery(p) = "none" \/ Attempts(p, "reconcile") + 1 > MaxReconcile
    /\ Transition(p, {"unknown"}, "manual_intervention")
    /\ todo' = [todo EXCEPT ![h] = @ \ {p}]
    /\ UNCHANGED <<ops, plan, owner, task, published>>

\* reconcile_action up to the call of the executor.
ClaimReconcile(h, p) ==
    /\ MayReconcile(h, p)
    /\ Recovery(p) # "none"
    /\ Claim(h, p, "reconcile", MaxReconcile)
    /\ UNCHANGED <<plan, owner, todo, published>>

\* Mutant: whatever is not completely there counts as not applied.
ReconcilePartialFails(h, p, outcome) ==
    /\ task[h][p].phase = "reconcile"
    /\ task[h][p].outcome = "pending"
    /\ outcome = "failed" => published[p] < Members
    /\ outcome = "succeeded" => published[p] = Members
    /\ task' = SetTask(h, p, [task[h][p] EXCEPT !.outcome = outcome])
    /\ UNCHANGED <<audit, plan, owner, todo, published>>

\* The executor's reconcile returns what it observes of the world; every exception is
\* "unknown".
ReconcileSettles(h, p, outcome) ==
    /\ task[h][p].phase = "reconcile"
    /\ task[h][p].outcome = "pending"
    /\ TruthfulOutcome(p, published[p], outcome)
    /\ task' = SetTask(h, p, [task[h][p] EXCEPT !.outcome = outcome])
    /\ UNCHANGED <<audit, plan, owner, todo, published>>

\* Mutant: only the operation row is checked, not the owner in the database.
MayCompleteUnfenced(h, p) ==
    LET t == task[h][p] IN
    /\ t.attempt \in DOMAIN ops[p][t.phase]
    /\ ops[p][t.phase][t.attempt] = [generation |-> t.generation, state |-> "active"]

\* The checks of complete_operation before its transition.
MayComplete(h, p) ==
    LET t == task[h][p] IN
    /\ OwnsFence(h)
    /\ t.generation = fence[h]
    /\ t.attempt \in DOMAIN ops[p][t.phase]
    /\ ops[p][t.phase][t.attempt] = [generation |-> t.generation, state |-> "active"]

\* complete_operation: the route and the operation row in one transaction.
CompleteOperation(h, p) ==
    LET t == task[h][p] IN
    /\ t.phase # "idle"
    /\ t.outcome # "pending"
    /\ MayComplete(h, p)
    /\ Transition(p, {ActiveState(t.phase)}, t.outcome)
    /\ ops' = SetRows(p, t.phase, MarkCompleted(ops[p][t.phase], t.attempt))
    /\ task' = SetTask(h, p, Idle)
    /\ todo' = [todo EXCEPT ![h] = @ \ {p}]
    /\ UNCHANGED <<plan, owner, published>>

\* complete_operation raises (lost fence, stale operation, storage error) and its
\* transaction is rolled back: the caller is told, the route stays in flight.
CompletionLost(h, p) ==
    /\ phase[h] = "open"
    /\ task[h][p].phase # "idle"
    /\ task[h][p].outcome # "pending"
    /\ task' = SetTask(h, p, Idle)
    /\ UNCHANGED <<audit, plan, owner, todo, published>>

\* The gateway finds a route in flight that none of its calls is working on
\* (execute_action and recover_action of the gateway).
GatewayInterrupts(h, p) ==
    /\ phase[h] = "open"
    /\ task[h][p] = Idle
    /\ InterruptOperation(h, p)

-----------------------------------------------------------------------------
Init ==
    /\ routeState = [p \in Plans |-> "absent"]
    /\ routeSequence = [p \in Plans |-> 0]
    /\ ops = [p \in Plans |-> [ph \in Phases |-> <<>>]]
    /\ ownerGeneration = 0
    /\ execPlans = {}
    /\ approval = [p \in Plans |-> "none"]
    /\ lock = NoHost
    /\ phase = [h \in Hosts |-> "down"]
    /\ fence = [h \in Hosts |-> 0]
    /\ todo = [h \in Hosts |-> {}]
    /\ task = [h \in Hosts |-> [p \in Plans |-> Idle]]
    /\ faults = 0
    /\ published = [p \in Plans |-> 0]

Startup(h) ==
    \/ StartRuntime(h)
    \/ FinishScan(h)
    \/ FinishInterrupts(h)
    \/ RecoveryFails(h)
    \/ OpenRuntime(h)
    \/ \E p \in Plans : RepairExecutionPlan(h, p) \/ RecoverInterrupted(h, p)

Request(h, p) ==
    \/ PlanRoute(h, p)
    \/ PlanExecution(h, p)
    \/ \E outcome \in {"approved", "rejected"} : RecordApproval(h, p, outcome)
    \/ ApplyApproval(h, p)
    \/ ClaimExecute(h, p)
    \/ GatewayInterrupts(h, p)

Reconcile(h, p) == ReconcileManually(h, p) \/ ClaimReconcile(h, p)

ExecutorCall(h, p) ==
    \/ PublishMember(h, p)
    \/ \E outcome \in Outcomes : ExecuteSettles(h, p, outcome) \/ ReconcileSettles(h, p, outcome)

Completion(h, p) == CompleteOperation(h, p) \/ CompletionLost(h, p)

Next ==
    \/ LockFileReplaced
    \/ \E h \in Hosts :
        \/ Startup(h)
        \/ HostExits(h)
        \/ \E p \in Plans : \/ Request(h, p)
                            \/ Reconcile(h, p)
                            \/ ExecutorCall(h, p)
                            \/ Completion(h, p)

Spec == Init /\ [][Next]_vars

(* Fairness.  A host that is down is started again, startup does not stop between *)
(* two of its steps, asyncio.timeout ends every executor call, and the coroutine  *)
(* that awaited the call goes on to its completion.  Nothing is assumed of users: *)
(* planning, deciding, executing and reconciling on request may never happen.     *)

StartupReconcile(h) == phase[h] = "reconcile" /\ \E p \in Plans : Reconcile(h, p)

Settles(h, p) == \E outcome \in Outcomes :
                    ExecuteSettles(h, p, outcome) \/ ReconcileSettles(h, p, outcome)

Fairness ==
    \A h \in Hosts :
        /\ WF_vars(Startup(h))
        /\ WF_vars(StartupReconcile(h))
        /\ \A p \in Plans : WF_vars(Settles(h, p)) /\ WF_vars(Completion(h, p))

FairSpec == Spec /\ Fairness

-----------------------------------------------------------------------------
(* Properties *)

ActiveRow(p, ph, i) == ops[p][ph][i].state = "active"

\* The route and its operation ledger tell the same story after every transaction of
\* claim_operation, complete_operation and interrupt_operation, whichever host wrote
\* it: a row is active exactly while it is the last one of its phase and the route is
\* in the state of that phase, and a route in flight has such a row.
LedgerMatchesRoute ==
    \A p \in Plans : \A ph \in Phases :
        /\ \A i \in DOMAIN ops[p][ph] :
              ActiveRow(p, ph, i) <=> i = Len(ops[p][ph]) /\ routeState[p] = ActiveState(ph)
        /\ routeState[p] = ActiveState(ph) => ops[p][ph] # <<>>

\* A plan's effect happens at most once, whatever crashes, restarts, lost locks and
\* reconciliations happen: no member of a write is published a second time, and a
\* read publishes nothing (execute_action: "发送后失败保留未知效果而不重试").
EffectAtMostOnce ==
    \A p \in Plans : published[p] <= (IF ReadOnly(p) THEN 0 ELSE Members)

\* No write reaches the world before a person approved it in the execution-plan
\* store: DefaultCodingRiskPolicy, execution_is_approved and the route agree on it.
NoEffectBeforeApproval ==
    \A p \in Plans : published[p] > 0 => approval[p] = "approved"

\* The two stores of decide() never contradict each other across a crash between
\* their transactions: a route beyond pending_approval was approved, a route that
\* needed an approval and is denied was rejected.
StoresAgreeOnApproval ==
    \A p \in Plans :
        Decision(p) = "require_approval" /\ routeState[p] \notin {"absent", "pending_approval"}
            => /\ p \in execPlans
               /\ approval[p] = IF routeState[p] = "denied" THEN "rejected" ELSE "approved"

\* What a settled route says is what happened: succeeded writes are complete, failed
\* and denied ones never touched the world, and nothing happens before the route runs.
ConclusionMatchesWorld ==
    \A p \in Plans : ~ReadOnly(p) =>
        /\ routeState[p] = "succeeded" => published[p] = Members
        /\ routeState[p] \in {"absent", "denied", "pending_approval", "ready", "failed"}
              => published[p] = 0

\* A runtime that is open and still the owner has settled every effect of its
\* predecessors: what is unresolved was executed by itself.
OpenRuntimeOwesNothing ==
    \A h \in Hosts : phase[h] = "open" /\ OwnsFence(h) =>
        \A p \in Plans : routeState[p] \in UnresolvedStates =>
            \A i \in DOMAIN ops[p]["execute"] : ops[p]["execute"][i].generation = fence[h]

\* While a runtime is open, and so publishes its catalogue and plans calls, every call it
\* could be asked for is let through unasked exactly when it is a bounded read, and what is
\* let through or held for a person is what the catalogue told the agent: evaluate() and
\* the gateway's approval flag are two pieces of code that must agree on every combination.
OpenCatalogueIsExact == \A h \in Hosts : phase[h] = "open" => PolicyIsExact

ApprovalEvents(p) ==
    IF Decision(p) = "require_approval" /\ routeState[p] # "pending_approval" THEN 1 ELSE 0

\* The events an audit chain of this ledger has: the plan, the decision, and two
\* for each operation, of which the second is still owed while it is active.
LedgerEvents(p) ==
    1 + ApprovalEvents(p) + 2 * (Attempts(p, "execute") + Attempts(p, "reconcile"))
      - (IF routeState[p] \in {"running", "reconciling"} THEN 1 ELSE 0)

\* No audit event is lost, doubled or written outside an operation: the sequence of
\* the route is the length its ledger implies, plus the one event by which
\* reconcile_action hands a route over without an operation.
AuditChainAccountsForLedger ==
    \A p \in Plans :
        IF routeState[p] = "absent" THEN routeSequence[p] = 0
        ELSE \/ routeSequence[p] = LedgerEvents(p)
             \/ routeState[p] = "manual_intervention" /\ routeSequence[p] = LedgerEvents(p) + 1

\* A route whose effect is not settled can still be written to, so that it can reach
\* "manual_intervention" once its reconciliation attempts are used up.
UnsettledRouteCanAppend ==
    \A p \in Plans : routeState[p] \in UnresolvedStates => CanAppend(p)

LedgerStep ==
    \A p \in Plans : \A ph \in Phases : \A i \in DOMAIN ops[p][ph] :
        /\ i \in DOMAIN ops'[p][ph]
        /\ ops'[p][ph][i] # ops[p][ph][i] =>
              /\ ActiveRow(p, ph, i)
              /\ ops'[p][ph][i].state = "completed" => ops[p][ph][i].generation = ownerGeneration

\* Only the current owner completes an operation: a row goes from active to completed
\* in its own generation, and a row that is not active never changes again.
FencedLedger == [][LedgerStep]_vars

\* The product always comes up again: however often a host dies during startup and
\* however often reconciliation answers "unknown", the attempts run out, the route is
\* handed over and some host opens the runtime.
ReopensEventually == []<>(\E h \in Hosts : phase[h] = "open")

-----------------------------------------------------------------------------
(* What the router promises: ActionContract *)

StageOfState ==
    [absent              |-> "absent",
     pending_approval    |-> "waiting",
     ready               |-> "authorised",
     denied              |-> "refused",
     running             |-> "started",
     unknown             |-> "started",
     reconciling         |-> "started",
     succeeded           |-> "applied",
     failed              |-> "not_applied",
     manual_intervention |-> "handed_over"]

StageOf(p) == StageOfState[routeState[p]]

Contract == INSTANCE ActionContract
    WITH Writes  <- {p \in Plans : ~ReadOnly(p)},
         stage   <- [p \in Plans |-> StageOf(p)],
         applied <- published

\* The router implements the contract of an action: authorised before it starts,
\* started once, published only while started, settled once and truthfully.
ImplementsContract == Contract!Spec
=============================================================================
