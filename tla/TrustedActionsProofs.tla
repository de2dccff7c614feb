------------------------ MODULE TrustedActionsProofs ------------------------
(* Theorems about TrustedActions, for every number of plans, hosts and members. *)
EXTENDS TrustedActions, SequenceTheorems, TLAPS

-----------------------------------------------------------------------------
(* The operators the specification is built from *)

\* evaluate() has one of three results.
LEMMA DecisionType == \A p \in Plans : Decision(p) \in Decisions
  BY DEF Decision, Evaluate, Decisions

\* One ledger of one plan is written.
LEMMA SetRowsType ==
  ASSUME TypeOK, NEW p \in Plans, NEW ph \in Phases, NEW rows \in Seq(Operation)
  PROVE  /\ SetRows(p, ph, rows) \in [Plans -> [Phases -> Seq(Operation)]]
         /\ \A q \in Plans : \A qh \in Phases :
               SetRows(p, ph, rows)[q][qh] = IF q = p /\ qh = ph THEN rows ELSE ops[q][qh]
  BY DEF SetRows, TypeOK

\* One task of one host is written.
LEMMA SetTaskType ==
  ASSUME TypeOK, NEW h \in Hosts, NEW p \in Plans, NEW t \in Task
  PROVE  /\ SetTask(h, p, t) \in [Hosts -> [Plans -> Task]]
         /\ \A g \in Hosts : \A q \in Plans :
               SetTask(h, p, t)[g][q] = IF g = h /\ q = p THEN t ELSE task[g][q]
  BY DEF SetTask, TypeOK

\* A function over the positions of a ledger is a ledger of the same length.
LEMMA SameLength ==
  ASSUME NEW rows \in Seq(Operation), NEW f \in [DOMAIN rows -> Operation]
  PROVE  f \in Seq(Operation) /\ Len(f) = Len(rows)
  <1>1. Len(rows) \in Nat /\ DOMAIN rows = 1..Len(rows)
    BY LenProperties
  <1>2. f \in [1..Len(rows) -> Operation]
    BY <1>1
  <1>3. f \in Seq(Operation)
    BY <1>1, <1>2, SeqDef
  <1> QED BY <1>1, <1>2, <1>3, LenProperties

\* interrupt_operation changes states of rows only.
LEMMA MarkInterruptedType ==
  ASSUME NEW rows \in Seq(Operation)
  PROVE  /\ MarkInterrupted(rows) \in Seq(Operation)
         /\ Len(MarkInterrupted(rows)) = Len(rows)
         /\ DOMAIN MarkInterrupted(rows) = DOMAIN rows
  <1>1. \A i \in DOMAIN rows : rows[i] \in Operation
    BY LenProperties
  <1>2. MarkInterrupted(rows) \in [DOMAIN rows -> Operation]
    BY <1>1 DEF MarkInterrupted, Operation, OperationStates
  <1> QED BY <1>2, SameLength

\* complete_operation changes the state of one row only.
LEMMA MarkCompletedType ==
  ASSUME NEW rows \in Seq(Operation), NEW attempt
  PROVE  /\ MarkCompleted(rows, attempt) \in Seq(Operation)
         /\ Len(MarkCompleted(rows, attempt)) = Len(rows)
         /\ DOMAIN MarkCompleted(rows, attempt) = DOMAIN rows
  <1>1. \A i \in DOMAIN rows : rows[i] \in Operation
    BY LenProperties
  <1>2. MarkCompleted(rows, attempt) \in [DOMAIN rows -> Operation]
    BY <1>1 DEF MarkCompleted, Operation, OperationStates
  <1> QED BY <1>2, SameLength

\* No operation in flight is a value of the task type.
LEMMA IdleType == Idle \in Task
  BY DEF Idle, Task, Outcomes

\* A transition of the audit store keeps the types of state and sequence.
LEMMA TransitionType ==
  ASSUME TypeOK, NEW p \in Plans, NEW expected, NEW target \in RouteStates,
         Transition(p, expected, target)
  PROVE  /\ routeState' \in [Plans -> RouteStates]
         /\ routeSequence' \in [Plans -> Nat]
  BY DEF Transition, TypeOK

\* A claim keeps the types of the rows and of the claimant's task.
LEMMA ClaimType ==
  ASSUME TypeOK, NEW h \in Hosts, NEW p \in Plans, NEW ph \in Phases, NEW limit,
         Claim(h, p, ph, limit)
  PROVE  /\ routeState' \in [Plans -> RouteStates]
         /\ routeSequence' \in [Plans -> Nat]
         /\ ops' \in [Plans -> [Phases -> Seq(Operation)]]
         /\ task' \in [Hosts -> [Plans -> Task]]
  <1>1. ActiveState(ph) \in RouteStates
    BY DEF ActiveState, RouteStates
  <1>2. routeState' \in [Plans -> RouteStates] /\ routeSequence' \in [Plans -> Nat]
    BY <1>1, TransitionType DEF Claim
  <1>3. ops[p] \in [Phases -> Seq(Operation)] /\ fence[h] \in Nat
    BY DEF TypeOK
  <1>4. [generation |-> fence[h], state |-> "active"] \in Operation
    BY <1>3 DEF Operation, OperationStates
  <1>5. Append(ops[p][ph], [generation |-> fence[h], state |-> "active"]) \in Seq(Operation)
    BY <1>3, <1>4
  <1>6. ops' \in [Plans -> [Phases -> Seq(Operation)]]
    BY <1>5, SetRowsType DEF Claim
  <1>7. Attempts(p, ph) + 1 \in Nat
    BY <1>3 DEF Attempts
  <1>8. [phase |-> ph, attempt |-> Attempts(p, ph) + 1, generation |-> fence[h],
         done |-> 0, outcome |-> "pending"] \in Task
    BY <1>3, <1>7 DEF Task, Outcomes
  <1>9. task' \in [Hosts -> [Plans -> Task]]
    BY <1>8, SetTaskType DEF Claim
  <1> QED BY <1>2, <1>6, <1>9

\* A host that exits leaves its memory with the right types.
LEMMA ForgetType ==
  ASSUME TypeOK, NEW h \in Hosts, Forget(h)
  PROVE  /\ phase' \in [Hosts -> HostPhases]
         /\ fence' \in [Hosts -> Nat]
         /\ todo' \in [Hosts -> SUBSET Plans]
         /\ task' \in [Hosts -> [Plans -> Task]]
         /\ lock' \in Hosts \cup {NoHost}
  BY IdleType DEF Forget, TypeOK, HostPhases

\* Interrupting an operation keeps the types of route and rows.
LEMMA InterruptType ==
  ASSUME TypeOK, NEW h \in Hosts, NEW p \in Plans, InterruptOperation(h, p)
  PROVE  TypeOK'
  <1>1. PICK ph \in Phases :
           /\ Transition(p, {ActiveState(ph)}, "unknown")
           /\ ops' = SetRows(p, ph, MarkInterrupted(ops[p][ph]))
    BY DEF InterruptOperation
  <1>2. "unknown" \in RouteStates
    BY DEF RouteStates
  <1>3. routeState' \in [Plans -> RouteStates] /\ routeSequence' \in [Plans -> Nat]
    BY <1>1, <1>2, TransitionType
  <1>4. ops[p][ph] \in Seq(Operation)
    BY DEF TypeOK
  <1>5. ops' \in [Plans -> [Phases -> Seq(Operation)]]
    <2>1. MarkInterrupted(ops[p][ph]) \in Seq(Operation)
      BY <1>4, MarkInterruptedType
    <2> QED BY <1>1, <2>1, SetRowsType
  <1> QED BY <1>3, <1>5 DEF TypeOK, InterruptOperation, plan, owner

\* Completing an operation keeps the types of route, rows and tasks.
LEMMA CompleteType ==
  ASSUME TypeOK, NEW h \in Hosts, NEW p \in Plans, CompleteOperation(h, p)
  PROVE  TypeOK'
  <1> DEFINE t == task[h][p]
  <1>1. t \in Task /\ t.phase \in Phases /\ t.outcome \in Outcomes
    BY DEF CompleteOperation, TypeOK, Task
  <1>2. t.outcome \in RouteStates
    BY <1>1 DEF Outcomes, RouteStates
  <1>3. routeState' \in [Plans -> RouteStates] /\ routeSequence' \in [Plans -> Nat]
    BY <1>2, TransitionType DEF CompleteOperation
  <1>4. ops[p][t.phase] \in Seq(Operation)
    BY <1>1 DEF TypeOK
  <1>5. ops' \in [Plans -> [Phases -> Seq(Operation)]]
    <2>1. MarkCompleted(ops[p][t.phase], t.attempt) \in Seq(Operation)
      BY <1>4, MarkCompletedType
    <2> QED BY <1>1, <2>1, SetRowsType DEF CompleteOperation
  <1>6. task' \in [Hosts -> [Plans -> Task]] /\ todo' \in [Hosts -> SUBSET Plans]
    BY IdleType, SetTaskType DEF TypeOK, CompleteOperation
  <1> QED BY <1>3, <1>5, <1>6 DEF TypeOK, CompleteOperation, plan, owner

\* Writing one field of a task keeps it a task.
LEMMA TaskUpdateType ==
  ASSUME TypeOK, NEW h \in Hosts, NEW p \in Plans
  PROVE  /\ \A n \in Nat : [task[h][p] EXCEPT !.done = n] \in Task
         /\ \A o \in Outcomes : [task[h][p] EXCEPT !.outcome = o] \in Task
         /\ task[h][p].done + 1 \in Nat
  <1>1. task[h][p] \in Task
    BY DEF TypeOK
  <1> QED BY <1>1 DEF Task

-----------------------------------------------------------------------------
(* Type correctness *)

\* The stores and hosts start with the right types.
LEMMA TypeInit == Init => TypeOK
  BY IdleType, EmptySeq DEF Init, TypeOK, RouteStates, HostPhases, Phases

\* The steps of startup keep the types.
LEMMA StartupType ==
  ASSUME TypeOK, NEW h \in Hosts, Startup(h)
  PROVE  TypeOK'
  <1> USE DEF audit, plan, owner, HostPhases
  <1>1. CASE StartRuntime(h)
    BY <1>1 DEF StartRuntime, TypeOK
  <1>2. CASE FinishScan(h)
    BY <1>2 DEF FinishScan, TypeOK
  <1>3. CASE FinishInterrupts(h)
    BY <1>3 DEF FinishInterrupts, TypeOK
  <1>4. CASE RecoveryFails(h)
    BY <1>4, ForgetType DEF RecoveryFails, TypeOK
  <1>5. CASE OpenRuntime(h)
    BY <1>5 DEF OpenRuntime, TypeOK
  <1>6. ASSUME NEW p \in Plans, RepairExecutionPlan(h, p)
        PROVE  TypeOK'
    BY <1>6 DEF RepairExecutionPlan, TypeOK
  <1>7. ASSUME NEW p \in Plans, RecoverInterrupted(h, p)
        PROVE  TypeOK'
    BY <1>7, InterruptType DEF RecoverInterrupted
  <1> QED BY <1>1, <1>2, <1>3, <1>4, <1>5, <1>6, <1>7 DEF Startup

\* Planning and approval keep the types.
LEMMA RequestType ==
  ASSUME TypeOK, NEW h \in Hosts, NEW p \in Plans, Request(h, p)
  PROVE  TypeOK'
  <1> USE DEF audit, plan, owner
  <1>1. CASE PlanRoute(h, p)
    <2>1. InitialState(p) \in RouteStates
      BY DecisionType DEF InitialState, RouteStates, Decisions
    <2> QED BY <1>1, <2>1 DEF PlanRoute, TypeOK
  <1>2. CASE PlanExecution(h, p)
    BY <1>2 DEF PlanExecution, TypeOK
  <1>3. ASSUME NEW outcome \in {"approved", "rejected"}, RecordApproval(h, p, outcome)
        PROVE  TypeOK'
    BY <1>3 DEF RecordApproval, TypeOK
  <1>4. CASE ApplyApproval(h, p)
    <2>1. (IF approval[p] = "approved" THEN "ready" ELSE "denied") \in RouteStates
      BY DEF RouteStates
    <2>2. routeState' \in [Plans -> RouteStates] /\ routeSequence' \in [Plans -> Nat]
      BY <1>4, <2>1, TransitionType DEF ApplyApproval
    <2> QED BY <1>4, <2>2 DEF ApplyApproval, TypeOK
  <1>5. CASE ClaimExecute(h, p)
    <2>1. "execute" \in Phases
      BY DEF Phases
    <2> QED BY <1>5, <2>1, ClaimType DEF ClaimExecute, TypeOK
  <1>6. CASE GatewayInterrupts(h, p)
    BY <1>6, InterruptType DEF GatewayInterrupts
  <1> QED BY <1>1, <1>2, <1>3, <1>4, <1>5, <1>6 DEF Request

\* Execution and reconciliation keep the types.
LEMMA OperationType ==
  ASSUME TypeOK, NEW h \in Hosts, NEW p \in Plans,
         Reconcile(h, p) \/ ExecutorCall(h, p) \/ Completion(h, p)
  PROVE  TypeOK'
  <1> USE DEF audit, plan, owner
  <1>1. CASE ReconcileManually(h, p)
    <2>1. "manual_intervention" \in RouteStates
      BY DEF RouteStates
    <2>2. routeState' \in [Plans -> RouteStates] /\ routeSequence' \in [Plans -> Nat]
      BY <1>1, <2>1, TransitionType DEF ReconcileManually
    <2> QED BY <1>1, <2>2 DEF ReconcileManually, TypeOK
  <1>2. CASE ClaimReconcile(h, p)
    <2>1. "reconcile" \in Phases
      BY DEF Phases
    <2> QED BY <1>2, <2>1, ClaimType DEF ClaimReconcile, TypeOK
  <1>3. CASE PublishMember(h, p)
    <2>1. [task[h][p] EXCEPT !.done = task[h][p].done + 1] \in Task
      BY TaskUpdateType
    <2>2. task' \in [Hosts -> [Plans -> Task]]
      BY <1>3, <2>1, SetTaskType DEF PublishMember
    <2>3. published' \in [Plans -> Nat]
      BY <1>3 DEF PublishMember, TypeOK
    <2> QED BY <1>3, <2>2, <2>3 DEF PublishMember, TypeOK
  <1>4. ASSUME NEW outcome \in Outcomes,
               ExecuteSettles(h, p, outcome) \/ ReconcileSettles(h, p, outcome)
        PROVE  TypeOK'
    <2>1. [task[h][p] EXCEPT !.outcome = outcome] \in Task
      BY TaskUpdateType
    <2>2. task' \in [Hosts -> [Plans -> Task]]
      BY <1>4, <2>1, SetTaskType DEF ExecuteSettles, ReconcileSettles
    <2> QED BY <1>4, <2>2 DEF ExecuteSettles, ReconcileSettles, TypeOK
  <1>5. CASE CompleteOperation(h, p)
    BY <1>5, CompleteType
  <1>6. CASE CompletionLost(h, p)
    BY <1>6, IdleType, SetTaskType DEF CompletionLost, TypeOK
  <1> QED BY <1>1, <1>2, <1>3, <1>4, <1>5, <1>6 DEF Reconcile, ExecutorCall, Completion

\* Every step keeps the types.
LEMMA TypeStep == TypeOK /\ [Next]_vars => TypeOK'
  <1> SUFFICES ASSUME TypeOK, [Next]_vars
               PROVE  TypeOK'
    OBVIOUS
  <1>1. CASE LockFileReplaced
    BY <1>1 DEF LockFileReplaced, TypeOK, audit, plan
  <1>2. ASSUME NEW h \in Hosts, HostExits(h)
        PROVE  TypeOK'
    BY <1>2, ForgetType DEF HostExits, TypeOK, audit, plan
  <1>3. CASE UNCHANGED vars
    BY <1>3 DEF vars, TypeOK
  <1> QED BY <1>1, <1>2, <1>3, StartupType, RequestType, OperationType DEF Next

\* Every field of the two stores, of the hosts and of the world keeps its type in
\* every reachable state: no transition of the router leaves the declared states.
THEOREM TypeCorrect == Spec => []TypeOK
  BY TypeInit, TypeStep, PTL DEF Spec

-----------------------------------------------------------------------------
(* The inductive invariant *)

\* States of a route whose operation was never claimed.
NotStarted == {"absent", "denied", "pending_approval", "ready"}

\* Generations identify hosts: no two hosts hold the same one, and none is ahead of
\* the database.
OwnerInv ==
    /\ \A h \in Hosts : fence[h] <= ownerGeneration /\ (phase[h] = "down" <=> fence[h] = 0)
    /\ \A g, h \in Hosts : fence[g] = fence[h] /\ fence[g] # 0 => g = h

\* A host works on rows of its own generation.
TaskOwned(h, p) ==
    task[h][p].phase # "idle" =>
        /\ fence[h] # 0
        /\ task[h][p].generation = fence[h]
        /\ task[h][p].attempt \in DOMAIN ops[p][task[h][p].phase]
        /\ ops[p][task[h][p].phase][task[h][p].attempt].generation = fence[h]

TaskInv == \A h \in Hosts : \A p \in Plans : TaskOwned(h, p)

\* One plan's rows, route state and audit chain.
RowsMatch(p) ==
    \A ph \in Phases : \A i \in DOMAIN ops[p][ph] :
        ActiveRow(p, ph, i) <=> i = Len(ops[p][ph]) /\ routeState[p] = ActiveState(ph)

RowCounts(p) ==
    /\ Attempts(p, "execute") = IF routeState[p] \in NotStarted THEN 0 ELSE 1
    /\ routeState[p] \in NotStarted => Attempts(p, "reconcile") = 0
    /\ routeState[p] = "reconciling" => Attempts(p, "reconcile") > 0
    /\ Attempts(p, "reconcile") <= MaxReconcile

ChainLength(p) ==
    IF routeState[p] = "absent" THEN routeSequence[p] = 0
    ELSE \/ routeSequence[p] = LedgerEvents(p)
         \/ routeState[p] = "manual_intervention" /\ routeSequence[p] = LedgerEvents(p) + 1

Authorised(p) ==
    /\ Decision(p) = "deny" => routeState[p] \in {"absent", "denied"}
    /\ routeState[p] = "pending_approval" => Decision(p) = "require_approval"
    /\ approval[p] # "none" => p \in execPlans /\ Decision(p) = "require_approval"
    /\ Decision(p) = "require_approval" /\ routeState[p] \notin {"absent", "pending_approval"}
          => approval[p] = IF routeState[p] = "denied" THEN "rejected" ELSE "approved"

\* The effect of a plan is the progress of the one task that ever executes it.
Effect(p) ==
    /\ routeState[p] \in NotStarted => published[p] = 0
    /\ ReadOnly(p) => published[p] = 0
    /\ published[p] <= Members
    /\ \A h \in Hosts : task[h][p].phase = "execute" => task[h][p].done = published[p]

PlanInv(p) == RowsMatch(p) /\ RowCounts(p) /\ ChainLength(p) /\ Authorised(p)

IInv == /\ TypeOK /\ OwnerInv /\ TaskInv
        /\ \A p \in Plans : PlanInv(p)
        /\ \A p \in Plans : Effect(p)

-----------------------------------------------------------------------------
(* Plans: rows, counts, audit chain and authorisation *)

\* A step that leaves a plan's rows, route and approval alone keeps its invariant.
LEMMA PlanFrame ==
  ASSUME NEW q \in Plans, PlanInv(q),
         routeState'[q] = routeState[q], routeSequence'[q] = routeSequence[q],
         ops'[q] = ops[q], approval'[q] = approval[q],
         q \in execPlans => q \in execPlans'
  PROVE  PlanInv(q)'
  BY DEF PlanInv, RowsMatch, RowCounts, ChainLength, Authorised, ActiveRow, LedgerEvents,
         Attempts, ApprovalEvents, Decision, ActiveState

\* What a transition does to the route of its plan and to every other plan.
LEMMA TransitionEffect ==
  ASSUME TypeOK, NEW p \in Plans, NEW expected, NEW target, Transition(p, expected, target)
  PROVE  /\ routeState[p] \in expected
         /\ target \in AllowedTransitions[routeState[p]]
         /\ routeState'[p] = target
         /\ routeSequence'[p] = routeSequence[p] + 1
         /\ \A q \in Plans \ {p} : /\ routeState'[q] = routeState[q]
                                   /\ routeSequence'[q] = routeSequence[q]
  BY DEF Transition, TypeOK

\* A claim keeps rows, chain and approvals of every plan consistent.
LEMMA ClaimPlan ==
  ASSUME TypeOK, \A q \in Plans : PlanInv(q), NEW h \in Hosts, NEW p \in Plans,
         NEW ph \in Phases, NEW limit, Claim(h, p, ph, limit), UNCHANGED plan,
         ph = "reconcile" => limit = MaxReconcile
  PROVE  \A q \in Plans : PlanInv(q)'
  <1> DEFINE row == [generation |-> fence[h], state |-> "active"]
             expected == IF ph = "execute" THEN {"ready"} ELSE {"unknown"}
  <1>1. /\ routeState[p] \in expected
        /\ routeState'[p] = ActiveState(ph)
        /\ routeSequence'[p] = routeSequence[p] + 1
        /\ \A q \in Plans \ {p} : /\ routeState'[q] = routeState[q]
                                  /\ routeSequence'[q] = routeSequence[q]
    BY TransitionEffect DEF Claim
  <1>2. row \in Operation /\ ops[p] \in [Phases -> Seq(Operation)]
    BY DEF Operation, OperationStates, TypeOK
  <1>3. Append(ops[p][ph], row) \in Seq(Operation)
    BY <1>2
  <1>4. /\ \A q \in Plans \ {p} : ops'[q] = ops[q]
        /\ \A qh \in Phases : ops'[p][qh] = IF qh = ph THEN Append(ops[p][ph], row)
                                            ELSE ops[p][qh]
    BY DEF Claim, SetRows, TypeOK
  <1>5. \A q \in Plans \ {p} : PlanInv(q)'
    BY <1>1, <1>4, PlanFrame DEF plan
  <1>6. /\ Len(ops[p][ph]) \in Nat /\ DOMAIN ops[p][ph] = 1..Len(ops[p][ph])
        /\ Len(ops'[p][ph]) = Len(ops[p][ph]) + 1
        /\ DOMAIN ops'[p][ph] = 1..(Len(ops[p][ph]) + 1)
        /\ \A i \in 1..Len(ops[p][ph]) : ops'[p][ph][i] = ops[p][ph][i]
        /\ ops'[p][ph][Len(ops[p][ph]) + 1].state = "active"
    <2>1. ops'[p][ph] = Append(ops[p][ph], row)
      BY <1>4
    <2> QED BY <1>2, <2>1
  <1>7. RowsMatch(p)'
    <2> SUFFICES ASSUME NEW qh \in Phases, NEW i \in DOMAIN ops'[p][qh]
                 PROVE  ops'[p][qh][i].state = "active" <=>
                           i = Len(ops'[p][qh]) /\ routeState'[p] = ActiveState(qh)
      BY DEF RowsMatch, ActiveRow, ActiveState
    <2>1. RowsMatch(p) /\ routeState[p] \notin {"running", "reconciling"}
      BY <1>1 DEF PlanInv
    <2>2. \A kh \in Phases : \A k \in DOMAIN ops[p][kh] : ops[p][kh][k].state # "active"
      BY <2>1 DEF RowsMatch, ActiveRow, ActiveState
    <2>3. CASE qh = ph
      <3>1. i \in 1..Len(ops[p][ph]) \/ i = Len(ops[p][ph]) + 1
        BY <1>6, <2>3
      <3>2. i \in 1..Len(ops[p][ph]) => ops'[p][ph][i].state # "active" /\ i # Len(ops'[p][ph])
        BY <1>6, <2>2
      <3>3. routeState'[p] = ActiveState(qh)
        BY <1>1, <2>3
      <3> QED BY <1>6, <2>3, <3>1, <3>2, <3>3
    <2>4. CASE qh # ph
      <3>1. ActiveState(qh) # ActiveState(ph)
        BY <2>4 DEF ActiveState, Phases
      <3>2. ops'[p][qh] = ops[p][qh]
        BY <1>4, <2>4
      <3> QED BY <1>1, <2>2, <3>1, <3>2
    <2> QED BY <2>3, <2>4
  <1>8. /\ Attempts(p, "execute") \in Nat /\ Attempts(p, "reconcile") \in Nat
        /\ \/ /\ ph = "execute"
              /\ Attempts(p, "execute")' = Attempts(p, "execute") + 1
              /\ Attempts(p, "reconcile")' = Attempts(p, "reconcile")
           \/ /\ ph = "reconcile"
              /\ Attempts(p, "execute")' = Attempts(p, "execute")
              /\ Attempts(p, "reconcile")' = Attempts(p, "reconcile") + 1
    <2>1. Attempts(p, "execute") \in Nat /\ Attempts(p, "reconcile") \in Nat
      BY <1>2 DEF Phases, Attempts
    <2>2. CASE ph = "execute"
      <3>1. ops'[p]["reconcile"] = ops[p]["reconcile"]
        BY <1>4, <2>2 DEF Phases
      <3> QED BY <1>6, <2>1, <2>2, <3>1 DEF Attempts
    <2>3. CASE ph = "reconcile"
      <3>1. ops'[p]["execute"] = ops[p]["execute"]
        BY <1>4, <2>3 DEF Phases
      <3> QED BY <1>6, <2>1, <2>3, <3>1 DEF Attempts
    <2> QED BY <2>1, <2>2, <2>3 DEF Phases
  <1>9. RowCounts(p)'
    <2>1. RowCounts(p) /\ (ph = "reconcile" => Attempts(p, "reconcile") + 1 <= MaxReconcile)
      BY DEF PlanInv, Claim
    <2>2. CASE ph = "execute"
      BY <1>1, <1>8, <2>1, <2>2 DEF RowCounts, NotStarted, ActiveState
    <2>3. CASE ph = "reconcile"
      BY <1>1, <1>8, <2>1, <2>3, LimitsAssumption DEF RowCounts, NotStarted, ActiveState
    <2> QED BY <2>2, <2>3 DEF Phases
  <1>10. ChainLength(p)'
    <2>1. ChainLength(p) /\ RowCounts(p) /\ routeSequence[p] \in Nat
      BY DEF PlanInv, TypeOK
    <2>2. ApprovalEvents(p)' = ApprovalEvents(p) /\ ApprovalEvents(p) \in {0, 1}
      BY <1>1 DEF ApprovalEvents, ActiveState, Decision
    <2>3. routeState'[p] \in {"running", "reconciling"} /\ routeState[p] \in {"ready", "unknown"}
      BY <1>1 DEF ActiveState
    <2>4. LedgerEvents(p) \in Int /\ LedgerEvents(p)' = LedgerEvents(p) + 1
      BY <1>8, <2>2, <2>3 DEF LedgerEvents
    <2> QED BY <1>1, <2>1, <2>3, <2>4 DEF ChainLength
  <1>11. Authorised(p)'
    <2>1. Authorised(p)
      BY DEF PlanInv
    <2> QED BY <1>1, <2>1 DEF Authorised, plan, ActiveState, Decision
  <1> QED BY <1>5, <1>7, <1>9, <1>10, <1>11 DEF PlanInv

\* A step on the route of one plan that keeps its rows: the parts of PlanInv about rows.
LEMMA SameRows ==
  ASSUME NEW p \in Plans, PlanInv(p), ops'[p] = ops[p],
         routeState[p] \notin {"running", "reconciling"},
         routeState'[p] \notin {"running", "reconciling"},
         routeState[p] \in NotStarted <=> routeState'[p] \in NotStarted
  PROVE  /\ RowsMatch(p)' /\ RowCounts(p)'
         /\ Attempts(p, "execute")' = Attempts(p, "execute")
         /\ Attempts(p, "reconcile")' = Attempts(p, "reconcile")
  <1>1. RowsMatch(p)'
    BY DEF PlanInv, RowsMatch, ActiveRow, ActiveState
  <1>2. /\ Attempts(p, "execute")' = Attempts(p, "execute")
        /\ Attempts(p, "reconcile")' = Attempts(p, "reconcile")
    BY DEF Attempts
  <1> QED BY <1>1, <1>2 DEF PlanInv, RowCounts

\* The terms of the chain's length are numbers.
LEMMA AttemptsType ==
  ASSUME TypeOK, NEW p \in Plans
  PROVE  /\ Attempts(p, "execute") \in Nat /\ Attempts(p, "reconcile") \in Nat
         /\ ApprovalEvents(p) \in {0, 1}
         /\ routeSequence[p] \in Nat
  BY DEF TypeOK, Attempts, Phases, ApprovalEvents

\* A new route starts with the chain and the rows its state calls for.
LEMMA PlanRoutePlan ==
  ASSUME TypeOK, \A q \in Plans : PlanInv(q), NEW h \in Hosts, NEW p \in Plans, PlanRoute(h, p)
  PROVE  \A q \in Plans : PlanInv(q)'
  <1>1. /\ routeState[p] = "absent" /\ routeState'[p] = InitialState(p)
        /\ routeSequence'[p] = 1 /\ ops' = ops /\ UNCHANGED plan
        /\ \A q \in Plans \ {p} : routeState'[q] = routeState[q] /\ routeSequence'[q] = routeSequence[q]
    BY DEF PlanRoute, TypeOK
  <1>2. \A q \in Plans \ {p} : PlanInv(q)'
    BY <1>1, PlanFrame DEF plan
  <1>3. Decision(p) \in {"deny", "require_approval", "allow"}
    BY DecisionType DEF Decisions
  <1>4. InitialState(p) \in {"denied", "pending_approval", "ready"}
    BY <1>3 DEF InitialState
  <1>5. /\ RowsMatch(p)' /\ RowCounts(p)'
        /\ Attempts(p, "execute")' = Attempts(p, "execute")
        /\ Attempts(p, "reconcile")' = Attempts(p, "reconcile")
    BY <1>1, <1>4, SameRows DEF NotStarted
  <1>6. Attempts(p, "execute") = 0 /\ Attempts(p, "reconcile") = 0
    BY <1>1 DEF PlanInv, RowCounts, NotStarted
  <1>7. ApprovalEvents(p)' = 0
    <2>1. Decision(p) = "require_approval" => routeState'[p] = "pending_approval"
      BY <1>1 DEF InitialState
    <2> QED BY <2>1 DEF ApprovalEvents, Decision
  <1>8. LedgerEvents(p)' = 1
    BY <1>1, <1>4, <1>5, <1>6, <1>7 DEF LedgerEvents
  <1>9. ChainLength(p)'
    BY <1>1, <1>4, <1>8 DEF ChainLength
  <1>10. Authorised(p)'
    <2>1. Authorised(p)
      BY DEF PlanInv
    <2>2. /\ Decision(p) = "deny" => routeState'[p] = "denied"
          /\ Decision(p) = "require_approval" <=> routeState'[p] = "pending_approval"
      BY <1>1, <1>3 DEF InitialState
    <2> QED BY <1>1, <2>1, <2>2 DEF Authorised, plan, Decision
  <1> QED BY <1>2, <1>5, <1>9, <1>10 DEF PlanInv

\* A decision in the plan store alone contradicts no route.
LEMMA RecordApprovalPlan ==
  ASSUME TypeOK, \A q \in Plans : PlanInv(q), NEW h \in Hosts, NEW p \in Plans,
         NEW outcome \in {"approved", "rejected"}, RecordApproval(h, p, outcome)
  PROVE  \A q \in Plans : PlanInv(q)'
  <1>1. /\ UNCHANGED audit /\ execPlans' = execPlans /\ p \in execPlans
        /\ approval[p] = "none" /\ Decision(p) = "require_approval"
        /\ routeState[p] # "absent"
        /\ \A q \in Plans \ {p} : approval'[q] = approval[q]
    BY DEF RecordApproval, TypeOK
  <1>2. \A q \in Plans \ {p} : PlanInv(q)'
    BY <1>1, PlanFrame DEF audit
  <1>3. RowsMatch(p)' /\ RowCounts(p)' /\ ChainLength(p)'
    BY <1>1 DEF audit, PlanInv, RowsMatch, RowCounts, ChainLength, ActiveRow, LedgerEvents,
                Attempts, ApprovalEvents, Decision, ActiveState
  <1>4. Authorised(p)'
    <2>1. Authorised(p)
      BY DEF PlanInv
    <2>2. routeState[p] = "pending_approval"
      BY <1>1, <2>1 DEF Authorised
    <2> QED BY <1>1, <2>1, <2>2 DEF Authorised, audit, Decision
  <1> QED BY <1>2, <1>3, <1>4 DEF PlanInv

\* The route follows the decision the plan store has, with one more event.
LEMMA ApplyApprovalPlan ==
  ASSUME TypeOK, \A q \in Plans : PlanInv(q), NEW h \in Hosts, NEW p \in Plans,
         ApplyApproval(h, p)
  PROVE  \A q \in Plans : PlanInv(q)'
  <1> DEFINE target == IF approval[p] = "approved" THEN "ready" ELSE "denied"
  <1>1. /\ routeState[p] = "pending_approval" /\ routeState'[p] = target
        /\ routeSequence'[p] = routeSequence[p] + 1 /\ ops' = ops /\ UNCHANGED plan
        /\ approval[p] # "none"
        /\ \A q \in Plans \ {p} : routeState'[q] = routeState[q] /\ routeSequence'[q] = routeSequence[q]
    BY TransitionEffect DEF ApplyApproval
  <1>2. \A q \in Plans \ {p} : PlanInv(q)'
    BY <1>1, PlanFrame DEF plan
  <1>3. /\ RowsMatch(p)' /\ RowCounts(p)'
        /\ Attempts(p, "execute")' = Attempts(p, "execute")
        /\ Attempts(p, "reconcile")' = Attempts(p, "reconcile")
    BY <1>1, SameRows DEF NotStarted
  <1>4. Authorised(p) /\ ChainLength(p)
    BY DEF PlanInv
  <1>5. Decision(p) = "require_approval"
    BY <1>1, <1>4 DEF Authorised
  <1>6. ApprovalEvents(p) = 0 /\ ApprovalEvents(p)' = 1
    BY <1>1, <1>5 DEF ApprovalEvents, Decision
  <1>7. LedgerEvents(p) \in Int /\ LedgerEvents(p)' = LedgerEvents(p) + 1
    BY <1>1, <1>3, <1>6, AttemptsType DEF LedgerEvents
  <1>8. ChainLength(p)'
    BY <1>1, <1>4, <1>7 DEF ChainLength
  <1>9. Authorised(p)'
    <2>1. approval[p] \in {"none", "approved", "rejected"}
      BY DEF TypeOK
    <2> QED BY <1>1, <1>4, <1>5, <2>1 DEF Authorised, plan, Decision
  <1> QED BY <1>2, <1>3, <1>8, <1>9 DEF PlanInv

\* Handing a route over closes it with one more event and no row.
LEMMA ReconcileManuallyPlan ==
  ASSUME TypeOK, \A q \in Plans : PlanInv(q), NEW h \in Hosts, NEW p \in Plans,
         ReconcileManually(h, p)
  PROVE  \A q \in Plans : PlanInv(q)'
  <1>1. /\ routeState[p] = "unknown" /\ routeState'[p] = "manual_intervention"
        /\ routeSequence'[p] = routeSequence[p] + 1 /\ ops' = ops /\ UNCHANGED plan
        /\ \A q \in Plans \ {p} : routeState'[q] = routeState[q] /\ routeSequence'[q] = routeSequence[q]
    BY TransitionEffect DEF ReconcileManually
  <1>2. \A q \in Plans \ {p} : PlanInv(q)'
    BY <1>1, PlanFrame DEF plan
  <1>3. /\ RowsMatch(p)' /\ RowCounts(p)'
        /\ Attempts(p, "execute")' = Attempts(p, "execute")
        /\ Attempts(p, "reconcile")' = Attempts(p, "reconcile")
    BY <1>1, SameRows DEF NotStarted
  <1>4. Authorised(p) /\ ChainLength(p)
    BY DEF PlanInv
  <1>5. ApprovalEvents(p)' = ApprovalEvents(p)
    BY <1>1 DEF ApprovalEvents, Decision
  <1>6. LedgerEvents(p)' = LedgerEvents(p)
    BY <1>1, <1>3, <1>5 DEF LedgerEvents
  <1>7. ChainLength(p)'
    BY <1>1, <1>4, <1>6 DEF ChainLength
  <1>8. Authorised(p)'
    BY <1>1, <1>4 DEF Authorised, plan, Decision
  <1> QED BY <1>2, <1>3, <1>7, <1>8 DEF PlanInv

\* Closing an operation: its rows keep their number, none stays active, and the route
\* leaves the state of the phase with one event.
LEMMA CloseOperationPlan ==
  ASSUME TypeOK, \A q \in Plans : PlanInv(q), NEW p \in Plans, NEW ph \in Phases,
         NEW rows \in Seq(Operation), NEW target \in Outcomes,
         Len(rows) = Len(ops[p][ph]), \A i \in DOMAIN rows : rows[i].state # "active",
         ops' = SetRows(p, ph, rows), Transition(p, {ActiveState(ph)}, target), UNCHANGED plan
  PROVE  \A q \in Plans : PlanInv(q)'
  <1>1. /\ routeState[p] = ActiveState(ph) /\ routeState'[p] = target
        /\ routeSequence'[p] = routeSequence[p] + 1
        /\ \A q \in Plans \ {p} : routeState'[q] = routeState[q] /\ routeSequence'[q] = routeSequence[q]
    BY TransitionEffect
  <1>2. /\ \A q \in Plans \ {p} : ops'[q] = ops[q]
        /\ \A qh \in Phases : ops'[p][qh] = IF qh = ph THEN rows ELSE ops[p][qh]
    BY DEF SetRows, TypeOK
  <1>3. \A q \in Plans \ {p} : PlanInv(q)'
    BY <1>1, <1>2, PlanFrame DEF plan
  <1>4. routeState[p] \in {"running", "reconciling"} /\ routeState'[p] \notin {"running", "reconciling"}
    BY <1>1 DEF ActiveState, Outcomes
  <1>5. RowsMatch(p)'
    <2>1. \A qh \in Phases \ {ph} : ActiveState(qh) # ActiveState(ph)
      BY DEF ActiveState, Phases
    <2>2. \A qh \in Phases \ {ph} : \A i \in DOMAIN ops[p][qh] : ops[p][qh][i].state # "active"
      BY <1>1, <2>1 DEF PlanInv, RowsMatch, ActiveRow
    <2>3. \A qh \in Phases : \A i \in DOMAIN ops'[p][qh] : ops'[p][qh][i].state # "active"
      BY <1>2, <2>2
    <2>4. \A qh \in Phases : routeState'[p] # ActiveState(qh)
      BY <1>4 DEF ActiveState
    <2> QED BY <2>3, <2>4 DEF RowsMatch, ActiveRow, ActiveState
  <1>6. /\ Attempts(p, "execute")' = Attempts(p, "execute")
        /\ Attempts(p, "reconcile")' = Attempts(p, "reconcile")
    <2>1. \A qh \in Phases : Len(ops'[p][qh]) = Len(ops[p][qh])
      BY <1>2
    <2> QED BY <2>1 DEF Attempts, Phases
  <1>7. RowCounts(p)'
    <2>1. RowCounts(p)
      BY DEF PlanInv
    <2>2. routeState[p] \notin NotStarted /\ routeState'[p] \notin NotStarted
      BY <1>1, <1>4 DEF NotStarted, Outcomes
    <2> QED BY <1>4, <1>6, <2>1, <2>2 DEF RowCounts
  <1>8. ChainLength(p)'
    <2>1. ApprovalEvents(p)' = ApprovalEvents(p)
      BY <1>1, <1>4 DEF ApprovalEvents, Outcomes, Decision
    <2>2. LedgerEvents(p) \in Int /\ LedgerEvents(p)' = LedgerEvents(p) + 1
      BY <1>4, <1>6, <2>1, AttemptsType DEF LedgerEvents
    <2>3. routeSequence[p] = LedgerEvents(p)
      BY <1>4 DEF PlanInv, ChainLength
    <2>4. routeState'[p] # "absent"
      BY <1>1 DEF Outcomes
    <2> QED BY <1>1, <2>2, <2>3, <2>4 DEF ChainLength
  <1>9. Authorised(p)'
    <2>1. Authorised(p)
      BY DEF PlanInv
    <2>2. routeState'[p] \notin {"absent", "denied", "pending_approval"}
      BY <1>1 DEF Outcomes
    <2> QED BY <1>4, <2>1, <2>2 DEF Authorised, plan, Decision
  <1> QED BY <1>3, <1>5, <1>7, <1>8, <1>9 DEF PlanInv

\* Interrupting moves row and route together.
LEMMA InterruptPlan ==
  ASSUME TypeOK, \A q \in Plans : PlanInv(q), NEW h \in Hosts, NEW p \in Plans,
         InterruptOperation(h, p)
  PROVE  \A q \in Plans : PlanInv(q)'
  <1>1. PICK ph \in Phases :
           /\ Transition(p, {ActiveState(ph)}, "unknown")
           /\ ops' = SetRows(p, ph, MarkInterrupted(ops[p][ph]))
    BY DEF InterruptOperation
  <1> DEFINE old == ops[p][ph]
             rows == MarkInterrupted(old)
  <1>2. old \in Seq(Operation) /\ RowsMatch(p)
    BY DEF TypeOK, PlanInv
  <1>3. rows \in Seq(Operation) /\ Len(rows) = Len(old) /\ DOMAIN rows = DOMAIN old
    BY <1>2, MarkInterruptedType
  <1>4. \A i \in DOMAIN rows : rows[i].state # "active"
    <2> SUFFICES ASSUME NEW i \in DOMAIN rows
                 PROVE  rows[i].state # "active"
      OBVIOUS
    <2>1. \A j \in DOMAIN old : old[j].state = "active" => j = Len(old)
      BY <1>2 DEF RowsMatch, ActiveRow
    <2>2. CASE old[i].state = "active"
      <3>1. \A j \in {k \in DOMAIN old : old[k].state = "active"} : j <= i
        <4>1. i \in Nat /\ i = Len(old)
          BY <1>2, <1>3, <2>1, <2>2, LenProperties
        <4> QED BY <4>1, <2>1
      <3> QED BY <1>3, <2>2, <3>1 DEF MarkInterrupted
    <2>3. CASE old[i].state # "active"
      BY <1>3, <2>3 DEF MarkInterrupted
    <2> QED BY <2>2, <2>3
  <1>5. "unknown" \in Outcomes /\ UNCHANGED plan
    BY DEF Outcomes, InterruptOperation
  <1> QED BY <1>1, <1>3, <1>4, <1>5, CloseOperationPlan

\* Completing closes the claimant's row and moves the route with it.
LEMMA CompletePlan ==
  ASSUME TypeOK, \A q \in Plans : PlanInv(q), NEW h \in Hosts, NEW p \in Plans,
         CompleteOperation(h, p)
  PROVE  \A q \in Plans : PlanInv(q)'
  <1> DEFINE t == task[h][p]
             old == ops[p][t.phase]
             rows == MarkCompleted(old, t.attempt)
  <1>1. t \in Task /\ t.phase \in Phases /\ t.outcome \in Outcomes
    BY DEF CompleteOperation, TypeOK, Task
  <1>2. /\ Transition(p, {ActiveState(t.phase)}, t.outcome)
        /\ ops' = SetRows(p, t.phase, rows) /\ UNCHANGED plan
        /\ t.attempt \in DOMAIN old /\ old[t.attempt].state = "active"
    BY DEF CompleteOperation, MayComplete
  <1>3. old \in Seq(Operation) /\ RowsMatch(p)
    BY <1>1 DEF TypeOK, PlanInv
  <1>4. rows \in Seq(Operation) /\ Len(rows) = Len(old) /\ DOMAIN rows = DOMAIN old
    BY <1>3, MarkCompletedType
  <1>5. \A i \in DOMAIN rows : rows[i].state # "active"
    <2> SUFFICES ASSUME NEW i \in DOMAIN rows
                 PROVE  rows[i].state # "active"
      OBVIOUS
    <2>1. \A j \in DOMAIN old : old[j].state = "active" => j = Len(old)
      BY <1>1, <1>3 DEF RowsMatch, ActiveRow
    <2>2. CASE i = t.attempt
      BY <1>4, <2>2 DEF MarkCompleted
    <2>3. CASE i # t.attempt
      <3>1. old[i].state # "active"
        BY <1>2, <1>4, <2>1, <2>3
      <3> QED BY <1>4, <2>3, <3>1 DEF MarkCompleted
    <2> QED BY <2>2, <2>3
  <1> HIDE DEF rows, t
  <1> QED BY <1>1, <1>2, <1>4, <1>5, CloseOperationPlan DEF t

\* A step that writes neither the audit store nor an approval keeps every plan consistent.
LEMMA PlanUnchanged ==
  ASSUME \A q \in Plans : PlanInv(q), UNCHANGED audit, approval' = approval,
         execPlans \subseteq execPlans'
  PROVE  \A q \in Plans : PlanInv(q)'
  BY PlanFrame DEF audit

\* Every step keeps every plan consistent.
LEMMA PlanStep ==
  ASSUME TypeOK, \A q \in Plans : PlanInv(q), [Next]_vars
  PROVE  \A q \in Plans : PlanInv(q)'
  <1> DEFINE G == \A q \in Plans : PlanInv(q)'
  <1> SUFFICES G
    OBVIOUS
  <1>1. CASE LockFileReplaced
    BY <1>1, PlanUnchanged DEF LockFileReplaced, plan
  <1>2. ASSUME NEW h \in Hosts, HostExits(h)
        PROVE  G
    BY <1>2, PlanUnchanged DEF HostExits, plan
  <1>3. ASSUME NEW h \in Hosts, Startup(h)
        PROVE  G
    <2>1. CASE StartRuntime(h) \/ FinishScan(h) \/ FinishInterrupts(h) \/ RecoveryFails(h)
               \/ OpenRuntime(h)
      BY <2>1, PlanUnchanged
         DEF StartRuntime, FinishScan, FinishInterrupts, RecoveryFails, OpenRuntime, plan
    <2>2. ASSUME NEW p \in Plans, RepairExecutionPlan(h, p)
          PROVE  G
      BY <2>2, PlanUnchanged DEF RepairExecutionPlan
    <2>3. ASSUME NEW p \in Plans, RecoverInterrupted(h, p)
          PROVE  G
      BY <2>3, InterruptPlan DEF RecoverInterrupted
    <2> QED BY <1>3, <2>1, <2>2, <2>3 DEF Startup
  <1>4. ASSUME NEW h \in Hosts, NEW p \in Plans, Request(h, p)
        PROVE  G
    <2>1. CASE PlanRoute(h, p)
      BY <2>1, PlanRoutePlan
    <2>2. CASE PlanExecution(h, p)
      BY <2>2, PlanUnchanged DEF PlanExecution
    <2>3. ASSUME NEW outcome \in {"approved", "rejected"}, RecordApproval(h, p, outcome)
          PROVE  G
      BY <2>3, RecordApprovalPlan
    <2>4. CASE ApplyApproval(h, p)
      BY <2>4, ApplyApprovalPlan
    <2>5. CASE ClaimExecute(h, p)
      <3>1. "execute" \in Phases /\ "execute" # "reconcile"
        BY DEF Phases
      <3> QED BY <2>5, <3>1, ClaimPlan DEF ClaimExecute
    <2>6. CASE GatewayInterrupts(h, p)
      BY <2>6, InterruptPlan DEF GatewayInterrupts
    <2> QED BY <1>4, <2>1, <2>2, <2>3, <2>4, <2>5, <2>6 DEF Request
  <1>5. ASSUME NEW h \in Hosts, NEW p \in Plans, Reconcile(h, p)
        PROVE  G
    <2>1. CASE ReconcileManually(h, p)
      BY <2>1, ReconcileManuallyPlan
    <2>2. CASE ClaimReconcile(h, p)
      <3>1. "reconcile" \in Phases
        BY DEF Phases
      <3> QED BY <2>2, <3>1, ClaimPlan DEF ClaimReconcile
    <2> QED BY <1>5, <2>1, <2>2 DEF Reconcile
  <1>6. ASSUME NEW h \in Hosts, NEW p \in Plans, ExecutorCall(h, p)
        PROVE  G
    <2>1. UNCHANGED audit /\ UNCHANGED plan
      BY <1>6 DEF ExecutorCall, PublishMember, ExecuteSettles, ReconcileSettles
    <2> QED BY <2>1, PlanUnchanged DEF plan
  <1>7. ASSUME NEW h \in Hosts, NEW p \in Plans, Completion(h, p)
        PROVE  G
    <2>1. CASE CompleteOperation(h, p)
      BY <2>1, CompletePlan
    <2>2. CASE CompletionLost(h, p)
      BY <2>2, PlanUnchanged DEF CompletionLost, plan
    <2> QED BY <1>7, <2>1, <2>2 DEF Completion
  <1>8. CASE UNCHANGED vars
    BY <1>8, PlanUnchanged DEF vars, audit
  <1> HIDE DEF G
  <1>9. ASSUME NEW h \in Hosts, NEW p \in Plans,
               Request(h, p) \/ Reconcile(h, p) \/ ExecutorCall(h, p) \/ Completion(h, p)
        PROVE  G
    BY <1>4, <1>5, <1>6, <1>7, <1>9
  <1>10. CASE Next
    BY <1>1, <1>2, <1>3, <1>9, <1>10 DEF Next
  <1> QED BY <1>8, <1>10

-----------------------------------------------------------------------------
(* Hosts, tasks and effects *)

\* A step that touches no operation, no task, no fence and nothing in the world.
QuietStep ==
    /\ UNCHANGED <<ops, task, published, ownerGeneration, fence>>
    /\ \A h \in Hosts : phase'[h] = "down" <=> phase[h] = "down"
    /\ \A p \in Plans : routeState'[p] \in NotStarted => routeState[p] \in NotStarted

\* The process of a host ends.
ExitStep(h) == Forget(h) /\ UNCHANGED <<audit, plan, ownerGeneration, published>>

\* Route states that need no claim are reached only from one another.
LEMMA QuietTransition ==
  ASSUME TypeOK, NEW p \in Plans, NEW expected, NEW target, Transition(p, expected, target),
         routeState[p] \in NotStarted \/ target \notin NotStarted
  PROVE  \A q \in Plans : routeState'[q] \in NotStarted => routeState[q] \in NotStarted
  BY TransitionEffect

\* The steps, sorted by what they write.
LEMMA StepCases ==
  ASSUME TypeOK, [Next]_vars
  PROVE  \/ QuietStep
         \/ \E h \in Hosts : StartRuntime(h) \/ ExitStep(h)
         \/ \E h \in Hosts : \E p \in Plans :
               \/ InterruptOperation(h, p) \/ ClaimExecute(h, p) \/ ClaimReconcile(h, p)
               \/ PublishMember(h, p) \/ CompleteOperation(h, p) \/ CompletionLost(h, p)
               \/ \E o \in Outcomes : ExecuteSettles(h, p, o) \/ ReconcileSettles(h, p, o)
  <1> USE DEF audit, plan, owner
  <1>1. CASE LockFileReplaced
    BY <1>1 DEF LockFileReplaced, QuietStep
  <1>2. CASE UNCHANGED vars
    BY <1>2 DEF vars, QuietStep
  <1>3. ASSUME NEW h \in Hosts, HostExits(h)
        PROVE  ExitStep(h)
    BY <1>3 DEF HostExits, ExitStep
  <1>4. ASSUME NEW h \in Hosts, Startup(h)
        PROVE  \/ QuietStep \/ StartRuntime(h) \/ ExitStep(h)
               \/ \E p \in Plans : InterruptOperation(h, p)
    <2>1. CASE FinishScan(h)
      BY <2>1 DEF FinishScan, QuietStep, TypeOK
    <2>2. CASE FinishInterrupts(h)
      BY <2>2 DEF FinishInterrupts, QuietStep, TypeOK
    <2>3. CASE OpenRuntime(h)
      BY <2>3 DEF OpenRuntime, QuietStep, TypeOK
    <2>4. CASE RecoveryFails(h)
      BY <2>4 DEF RecoveryFails, ExitStep
    <2>5. ASSUME NEW p \in Plans, RepairExecutionPlan(h, p)
          PROVE  QuietStep
      BY <2>5 DEF RepairExecutionPlan, QuietStep
    <2>6. ASSUME NEW p \in Plans, RecoverInterrupted(h, p)
          PROVE  InterruptOperation(h, p)
      BY <2>6 DEF RecoverInterrupted
    <2> QED BY <1>4, <2>1, <2>2, <2>3, <2>4, <2>5, <2>6 DEF Startup
  <1>5. ASSUME NEW h \in Hosts, NEW p \in Plans, Request(h, p)
        PROVE  QuietStep \/ ClaimExecute(h, p) \/ InterruptOperation(h, p)
    <2>1. CASE PlanRoute(h, p)
      <3>1. \A q \in Plans : routeState'[q] \in NotStarted => routeState[q] \in NotStarted
        BY <2>1 DEF PlanRoute, TypeOK, NotStarted
      <3> QED BY <2>1, <3>1 DEF PlanRoute, QuietStep
    <2>2. CASE PlanExecution(h, p)
      BY <2>2 DEF PlanExecution, QuietStep
    <2>3. ASSUME NEW outcome \in {"approved", "rejected"}, RecordApproval(h, p, outcome)
          PROVE  QuietStep
      BY <2>3 DEF RecordApproval, QuietStep
    <2>4. CASE ApplyApproval(h, p)
      <3>1. routeState[p] \in NotStarted
        BY <2>4 DEF ApplyApproval, Transition, NotStarted
      <3>2. \A q \in Plans : routeState'[q] \in NotStarted => routeState[q] \in NotStarted
        BY <2>4, <3>1, QuietTransition DEF ApplyApproval
      <3> QED BY <2>4, <3>2 DEF ApplyApproval, QuietStep
    <2>5. CASE GatewayInterrupts(h, p)
      BY <2>5 DEF GatewayInterrupts
    <2> QED BY <1>5, <2>1, <2>2, <2>3, <2>4, <2>5 DEF Request
  <1>6. ASSUME NEW h \in Hosts, NEW p \in Plans, ReconcileManually(h, p)
        PROVE  QuietStep
    <2>1. "manual_intervention" \notin NotStarted
      BY DEF NotStarted
    <2>2. \A q \in Plans : routeState'[q] \in NotStarted => routeState[q] \in NotStarted
      BY <1>6, <2>1, QuietTransition DEF ReconcileManually
    <2> QED BY <1>6, <2>2 DEF ReconcileManually, QuietStep
  <1>7. ASSUME NEW h \in Hosts, NEW p \in Plans,
               Request(h, p) \/ Reconcile(h, p) \/ ExecutorCall(h, p) \/ Completion(h, p)
        PROVE  \/ QuietStep
               \/ InterruptOperation(h, p) \/ ClaimExecute(h, p) \/ ClaimReconcile(h, p)
               \/ PublishMember(h, p) \/ CompleteOperation(h, p) \/ CompletionLost(h, p)
               \/ \E o \in Outcomes : ExecuteSettles(h, p, o) \/ ReconcileSettles(h, p, o)
    BY <1>5, <1>6, <1>7 DEF Reconcile, ExecutorCall, Completion
  <1> QED BY <1>1, <1>2, <1>3, <1>4, <1>7 DEF Next

\* What a step may do to a row that exists: it stays, in its generation, and only an
\* active row changes, to completed only by the owner of its generation.
RowStep(p, ph, i) ==
    /\ i \in DOMAIN ops'[p][ph]
    /\ ops'[p][ph][i].generation = ops[p][ph][i].generation
    /\ ops'[p][ph][i] # ops[p][ph][i] =>
          /\ ActiveRow(p, ph, i)
          /\ ops'[p][ph][i].state = "completed" => ops[p][ph][i].generation = ownerGeneration

\* Rewriting one list of rows the allowed way is a legal step of every row.
LEMMA SetRowsStep ==
  ASSUME TypeOK, NEW p \in Plans, NEW ph \in Phases, NEW rows \in Seq(Operation),
         ops' = SetRows(p, ph, rows),
         \A i \in DOMAIN ops[p][ph] :
            /\ i \in DOMAIN rows
            /\ rows[i].generation = ops[p][ph][i].generation
            /\ rows[i] # ops[p][ph][i] =>
                  /\ ActiveRow(p, ph, i)
                  /\ rows[i].state = "completed" => ops[p][ph][i].generation = ownerGeneration
  PROVE  \A q \in Plans : \A qh \in Phases : \A i \in DOMAIN ops[q][qh] : RowStep(q, qh, i)
  <1>1. \A q \in Plans : \A qh \in Phases :
           ops'[q][qh] = IF q = p /\ qh = ph THEN rows ELSE ops[q][qh]
    BY SetRowsType
  <1> QED BY <1>1 DEF RowStep

\* A claim appends one row with the claimant's generation and leaves the others alone.
LEMMA ClaimRows ==
  ASSUME TypeOK, NEW h \in Hosts, NEW p \in Plans, NEW ph \in Phases, NEW limit,
         Claim(h, p, ph, limit)
  PROVE  /\ \A q \in Plans : \A qh \in Phases : \A i \in DOMAIN ops[q][qh] : RowStep(q, qh, i)
         /\ Attempts(p, ph) + 1 \in DOMAIN ops'[p][ph]
         /\ ops'[p][ph][Attempts(p, ph) + 1].generation = fence[h]
  <1> DEFINE old == ops[p][ph]
             row == [generation |-> fence[h], state |-> "active"]
             rows == Append(old, row)
  <1>1. old \in Seq(Operation) /\ row \in Operation
    BY DEF TypeOK, Operation, OperationStates
  <1>2. /\ rows \in Seq(Operation)
        /\ Len(old) + 1 \in DOMAIN rows /\ rows[Len(old) + 1] = row
        /\ \A i \in DOMAIN old : i \in DOMAIN rows /\ rows[i] = old[i]
    BY <1>1
  <1>3. ops' = SetRows(p, ph, rows)
    BY DEF Claim
  <1>4. ops'[p][ph] = rows
    <2> HIDE DEF rows
    <2> QED BY <1>2, <1>3, SetRowsType
  <1>5. Attempts(p, ph) = Len(old)
    BY DEF Attempts
  <1>6. \A q \in Plans : \A qh \in Phases : \A i \in DOMAIN ops[q][qh] : RowStep(q, qh, i)
    <2> HIDE DEF rows
    <2> QED BY <1>2, <1>3, SetRowsStep
  <1> QED BY <1>2, <1>4, <1>5, <1>6

\* No step reopens a closed row or changes the generation of one.
LEMMA RowsStep ==
  ASSUME TypeOK, [Next]_vars
  PROVE  \A q \in Plans : \A qh \in Phases : \A i \in DOMAIN ops[q][qh] : RowStep(q, qh, i)
  <1> DEFINE G == \A q \in Plans : \A qh \in Phases : \A i \in DOMAIN ops[q][qh] : RowStep(q, qh, i)
  <1> SUFFICES G
    OBVIOUS
  <1>1. CASE ops' = ops
    BY <1>1 DEF RowStep
  <1>2. ASSUME NEW h \in Hosts, NEW p \in Plans, InterruptOperation(h, p)
        PROVE  G
    <2>1. PICK ph \in Phases : ops' = SetRows(p, ph, MarkInterrupted(ops[p][ph]))
      BY <1>2 DEF InterruptOperation
    <2> DEFINE rows == MarkInterrupted(ops[p][ph])
    <2>2. ops[p][ph] \in Seq(Operation)
      BY DEF TypeOK
    <2>3. rows \in Seq(Operation) /\ DOMAIN rows = DOMAIN ops[p][ph]
      BY <2>2, MarkInterruptedType
    <2>4. \A i \in DOMAIN ops[p][ph] :
             /\ rows[i].generation = ops[p][ph][i].generation
             /\ rows[i] # ops[p][ph][i] => ActiveRow(p, ph, i) /\ rows[i].state = "interrupted"
      BY DEF MarkInterrupted, ActiveRow
    <2>5. \A i \in DOMAIN ops[p][ph] :
             /\ i \in DOMAIN rows
             /\ rows[i].generation = ops[p][ph][i].generation
             /\ rows[i] # ops[p][ph][i] =>
                   /\ ActiveRow(p, ph, i)
                   /\ rows[i].state = "completed" => ops[p][ph][i].generation = ownerGeneration
      BY <2>3, <2>4
    <2> HIDE DEF rows
    <2> QED BY <2>1, <2>3, <2>5, SetRowsStep DEF rows
  <1>3. ASSUME NEW h \in Hosts, NEW p \in Plans, ClaimExecute(h, p) \/ ClaimReconcile(h, p)
        PROVE  G
    BY <1>3, ClaimRows DEF ClaimExecute, ClaimReconcile, Phases
  <1>4. ASSUME NEW h \in Hosts, NEW p \in Plans, CompleteOperation(h, p)
        PROVE  G
    <2> DEFINE ph == task[h][p].phase
               attempt == task[h][p].attempt
               rows == MarkCompleted(ops[p][ph], attempt)
    <2>1. task[h][p] \in Task /\ ph \in Phases
      BY <1>4 DEF CompleteOperation, TypeOK, Task
    <2>2. /\ ops' = SetRows(p, ph, rows)
          /\ ops[p][ph][attempt].state = "active"
          /\ ops[p][ph][attempt].generation = ownerGeneration
      BY <1>4 DEF CompleteOperation, MayComplete, OwnsFence
    <2>3. ops[p][ph] \in Seq(Operation)
      BY <2>1 DEF TypeOK
    <2>4. rows \in Seq(Operation) /\ DOMAIN rows = DOMAIN ops[p][ph]
      BY <2>3, MarkCompletedType
    <2>5. \A i \in DOMAIN ops[p][ph] :
             /\ i \in DOMAIN rows
             /\ rows[i].generation = ops[p][ph][i].generation
             /\ rows[i] # ops[p][ph][i] =>
                   /\ ActiveRow(p, ph, i)
                   /\ rows[i].state = "completed" => ops[p][ph][i].generation = ownerGeneration
      BY <2>2, <2>4 DEF MarkCompleted, ActiveRow
    <2> HIDE DEF rows, ph
    <2> QED BY <2>1, <2>2, <2>4, <2>5, SetRowsStep DEF rows
  <1>5. ASSUME NEW h \in Hosts, StartRuntime(h) \/ ExitStep(h)
        PROVE  ops' = ops
    BY <1>5 DEF StartRuntime, ExitStep, audit
  <1>6. ASSUME NEW h \in Hosts, NEW p \in Plans,
               \/ PublishMember(h, p) \/ CompletionLost(h, p)
               \/ \E o \in Outcomes : ExecuteSettles(h, p, o) \/ ReconcileSettles(h, p, o)
        PROVE  ops' = ops
    BY <1>6 DEF PublishMember, CompletionLost, ExecuteSettles, ReconcileSettles, audit
  <1>7. CASE QuietStep
    BY <1>1, <1>7 DEF QuietStep
  <1> HIDE DEF G
  <1>8. \/ G
        \/ \E h \in Hosts : StartRuntime(h) \/ ExitStep(h)
        \/ \E h \in Hosts : \E p \in Plans :
             \/ PublishMember(h, p) \/ CompletionLost(h, p)
             \/ \E o \in Outcomes : ExecuteSettles(h, p, o) \/ ReconcileSettles(h, p, o)
    BY <1>2, <1>3, <1>4, <1>7, StepCases
  <1> QED BY <1>1, <1>5, <1>6, <1>8

\* Fences stay unique generations that were issued.
LEMMA OwnerStep ==
  ASSUME TypeOK, OwnerInv, [Next]_vars
  PROVE  OwnerInv'
  <1>1. ASSUME UNCHANGED <<ownerGeneration, fence>>,
               \A h \in Hosts : phase'[h] = "down" <=> phase[h] = "down"
        PROVE  OwnerInv'
    BY <1>1 DEF OwnerInv
  <1>2. ASSUME NEW h \in Hosts, StartRuntime(h)
        PROVE  OwnerInv'
    <2>1. /\ ownerGeneration' = ownerGeneration + 1 /\ ownerGeneration \in Nat
          /\ fence'[h] = ownerGeneration + 1 /\ phase'[h] # "down"
          /\ \A g \in Hosts : fence[g] \in Nat
          /\ \A g \in Hosts \ {h} : fence'[g] = fence[g] /\ phase'[g] = phase[g]
      BY <1>2 DEF StartRuntime, TypeOK
    <2> QED BY <2>1 DEF OwnerInv
  <1>3. ASSUME NEW h \in Hosts, ExitStep(h)
        PROVE  OwnerInv'
    <2>1. /\ ownerGeneration' = ownerGeneration /\ ownerGeneration \in Nat
          /\ fence'[h] = 0 /\ phase'[h] = "down"
          /\ \A g \in Hosts \ {h} : fence'[g] = fence[g] /\ phase'[g] = phase[g]
      BY <1>3 DEF ExitStep, Forget, TypeOK
    <2> QED BY <2>1 DEF OwnerInv
  <1>4. ASSUME NEW h \in Hosts, NEW p \in Plans,
               \/ InterruptOperation(h, p) \/ ClaimExecute(h, p) \/ ClaimReconcile(h, p)
               \/ PublishMember(h, p) \/ CompleteOperation(h, p) \/ CompletionLost(h, p)
               \/ \E o \in Outcomes : ExecuteSettles(h, p, o) \/ ReconcileSettles(h, p, o)
        PROVE  UNCHANGED owner
    BY <1>4 DEF InterruptOperation, ClaimExecute, ClaimReconcile, PublishMember,
                CompleteOperation, CompletionLost, ExecuteSettles, ReconcileSettles
  <1>5. CASE QuietStep
    BY <1>1, <1>5 DEF QuietStep
  <1>6. CASE UNCHANGED owner
    BY <1>1, <1>6 DEF owner
  <1> QED BY <1>2, <1>3, <1>4, <1>5, <1>6, StepCases

\* A task that keeps its claim still belongs to its row.
LEMMA TaskKept ==
  ASSUME TypeOK, NEW g \in Hosts, NEW q \in Plans, TaskOwned(g, q), fence'[g] = fence[g],
         task'[g][q].phase = task[g][q].phase, task'[g][q].attempt = task[g][q].attempt,
         task'[g][q].generation = task[g][q].generation,
         \A qh \in Phases : \A i \in DOMAIN ops[q][qh] : RowStep(q, qh, i)
  PROVE  TaskOwned(g, q)'
  <1>1. task[g][q].phase \in Phases \cup {"idle"}
    BY DEF TypeOK, Task
  <1> QED BY <1>1 DEF TaskOwned, RowStep

\* A claim sets the claimant's task and no other.
LEMMA ClaimTask ==
  ASSUME TypeOK, NEW h \in Hosts, NEW p \in Plans, NEW ph \in Phases, NEW limit,
         Claim(h, p, ph, limit)
  PROVE  \A g \in Hosts : \A q \in Plans : task'[g][q] =
            IF g = h /\ q = p
            THEN [phase |-> ph, attempt |-> Attempts(p, ph) + 1, generation |-> fence[h],
                  done |-> 0, outcome |-> "pending"]
            ELSE task[g][q]
  <1>1. Attempts(p, ph) \in Nat /\ fence[h] \in Nat
    BY DEF TypeOK, Attempts
  <1>2. [phase |-> ph, attempt |-> Attempts(p, ph) + 1, generation |-> fence[h],
         done |-> 0, outcome |-> "pending"] \in Task
    BY <1>1 DEF Task, Outcomes
  <1> QED BY <1>2, SetTaskType DEF Claim

\* Every step leaves each task in flight with the row it claimed.
LEMMA TaskStep ==
  ASSUME TypeOK, OwnerInv, TaskInv, [Next]_vars
  PROVE  TaskInv'
  <1>0. \A q \in Plans : \A qh \in Phases : \A i \in DOMAIN ops[q][qh] : RowStep(q, qh, i)
    BY RowsStep
  <1> SUFFICES ASSUME NEW g \in Hosts, NEW q \in Plans
               PROVE  TaskOwned(g, q)'
    BY DEF TaskInv
  <1> TaskOwned(g, q)
    BY DEF TaskInv
  <1>1. CASE task' = task /\ fence'[g] = fence[g]
    BY <1>0, <1>1, TaskKept
  <1>2. ASSUME NEW h \in Hosts, StartRuntime(h)
        PROVE  TaskOwned(g, q)'
    <2>1. CASE g # h
      BY <1>1, <1>2, <2>1 DEF StartRuntime, TypeOK
    <2>2. CASE g = h
      <3>1. fence[h] = 0 /\ task' = task
        BY <1>2 DEF StartRuntime, OwnerInv
      <3> QED BY <2>2, <3>1 DEF TaskOwned
    <2> QED BY <2>1, <2>2
  <1>3. ASSUME NEW h \in Hosts, ExitStep(h)
        PROVE  TaskOwned(g, q)'
    <2>1. CASE g # h
      <3>1. task'[g][q] = task[g][q] /\ fence'[g] = fence[g]
        BY <1>3, <2>1 DEF ExitStep, Forget, TypeOK
      <3> QED BY <1>0, <3>1, TaskKept
    <2>2. CASE g = h
      <3>1. task'[g][q].phase = "idle"
        BY <1>3, <2>2 DEF ExitStep, Forget, TypeOK, Idle
      <3> QED BY <3>1 DEF TaskOwned
    <2> QED BY <2>1, <2>2
  <1>4. ASSUME NEW h \in Hosts, NEW p \in Plans, InterruptOperation(h, p)
        PROVE  TaskOwned(g, q)'
    BY <1>1, <1>4 DEF InterruptOperation, owner
  <1>5. ASSUME NEW h \in Hosts, NEW p \in Plans, NEW ph \in Phases, NEW limit,
               Claim(h, p, ph, limit), UNCHANGED owner
        PROVE  TaskOwned(g, q)'
    <2> DEFINE t == [phase |-> ph, attempt |-> Attempts(p, ph) + 1, generation |-> fence[h],
                     done |-> 0, outcome |-> "pending"]
    <2>0. task'[g][q] = IF g = h /\ q = p THEN t ELSE task[g][q]
      BY <1>5, ClaimTask
    <2>1. CASE ~(g = h /\ q = p)
      <3> HIDE DEF t
      <3>1. task'[g][q] = task[g][q] /\ fence'[g] = fence[g]
        BY <1>5, <2>0, <2>1 DEF owner
      <3> QED BY <1>0, <3>1, TaskKept
    <2>2. CASE g = h /\ q = p
      <3>1. /\ task'[g][q].phase = ph /\ task'[g][q].attempt = Attempts(p, ph) + 1
            /\ task'[g][q].generation = fence[h] /\ fence'[g] = fence[h] /\ fence[h] # 0
        <4>1. task'[g][q] = t
          BY <2>0, <2>2
        <4>2. fence'[g] = fence[h] /\ fence[h] # 0
          BY <1>5, <2>2 DEF owner, Claim, OwnsFence
        <4> QED BY <4>1, <4>2
      <3>2. /\ Attempts(p, ph) + 1 \in DOMAIN ops'[p][ph]
            /\ ops'[p][ph][Attempts(p, ph) + 1].generation = fence[h]
        BY <1>5, ClaimRows
      <3> QED BY <2>2, <3>1, <3>2 DEF TaskOwned
    <2> QED BY <2>1, <2>2
  <1>6. ASSUME NEW h \in Hosts, NEW p \in Plans, ClaimExecute(h, p) \/ ClaimReconcile(h, p)
        PROVE  TaskOwned(g, q)'
    BY <1>5, <1>6 DEF ClaimExecute, ClaimReconcile, Phases
  <1>7. ASSUME NEW h \in Hosts, NEW p \in Plans, NEW t \in Task, task' = SetTask(h, p, t),
               fence' = fence,
               \/ t = Idle
               \/ /\ t.phase = task[h][p].phase /\ t.attempt = task[h][p].attempt
                  /\ t.generation = task[h][p].generation
        PROVE  TaskOwned(g, q)'
    <2>1. task'[g][q] = IF g = h /\ q = p THEN t ELSE task[g][q]
      BY <1>7, SetTaskType
    <2>2. CASE g = h /\ q = p /\ t = Idle
      BY <2>1, <2>2 DEF TaskOwned, Idle
    <2>3. CASE ~(g = h /\ q = p /\ t = Idle)
      BY <1>0, <1>7, <2>1, <2>3, TaskKept
    <2> QED BY <2>2, <2>3
  <1>8. ASSUME NEW h \in Hosts, NEW p \in Plans, PublishMember(h, p)
        PROVE  TaskOwned(g, q)'
    <2> DEFINE t == [task[h][p] EXCEPT !.done = task[h][p].done + 1]
    <2>1. task[h][p] \in Task /\ t \in Task
      BY TaskUpdateType DEF TypeOK
    <2>2. task' = SetTask(h, p, t) /\ fence' = fence
      BY <1>8 DEF PublishMember, owner
    <2>3. /\ t.phase = task[h][p].phase /\ t.attempt = task[h][p].attempt
          /\ t.generation = task[h][p].generation
      BY <2>1 DEF Task
    <2> HIDE DEF t
    <2> QED BY <1>7, <2>1, <2>2, <2>3
  <1>9. ASSUME NEW h \in Hosts, NEW p \in Plans, NEW o \in Outcomes,
               ExecuteSettles(h, p, o) \/ ReconcileSettles(h, p, o)
        PROVE  TaskOwned(g, q)'
    <2> DEFINE t == [task[h][p] EXCEPT !.outcome = o]
    <2>1. task[h][p] \in Task /\ t \in Task
      BY TaskUpdateType DEF TypeOK
    <2>2. task' = SetTask(h, p, t) /\ fence' = fence
      BY <1>9 DEF ExecuteSettles, ReconcileSettles, owner
    <2>3. /\ t.phase = task[h][p].phase /\ t.attempt = task[h][p].attempt
          /\ t.generation = task[h][p].generation
      BY <2>1 DEF Task
    <2> HIDE DEF t
    <2> QED BY <1>7, <2>1, <2>2, <2>3
  <1>10. ASSUME NEW h \in Hosts, NEW p \in Plans, CompleteOperation(h, p) \/ CompletionLost(h, p)
         PROVE  TaskOwned(g, q)'
    BY <1>7, <1>10, IdleType DEF CompleteOperation, CompletionLost, owner
  <1>11. CASE QuietStep
    BY <1>1, <1>11 DEF QuietStep
  <1> QED BY <1>2, <1>3, <1>4, <1>6, <1>8, <1>9, <1>10, <1>11, StepCases

\* A step that publishes nothing, and in which a task that executes either was already
\* executing as far, or is claimed on a route that has published nothing.
LEMMA EffectKept ==
  ASSUME NEW p \in Plans, Effect(p), published'[p] = published[p],
         routeState'[p] \in NotStarted => routeState[p] \in NotStarted,
         \A h \in Hosts : task'[h][p].phase = "execute" =>
            \/ task[h][p].phase = "execute" /\ task'[h][p].done = task[h][p].done
            \/ task'[h][p].done = 0 /\ routeState[p] \in NotStarted
  PROVE  Effect(p)'
  BY DEF Effect, ReadOnly

\* Publishing a member keeps the effect bounded by what the execute task counted.
LEMMA PublishEffect ==
  ASSUME IInv, NEW h \in Hosts, NEW p \in Plans, PublishMember(h, p)
  PROVE  \A q \in Plans : Effect(q)'
  <1> DEFINE t == [task[h][p] EXCEPT !.done = task[h][p].done + 1]
  <1>0. TypeOK /\ OwnerInv /\ TaskInv /\ PlanInv(p) /\ \A q \in Plans : Effect(q)
    BY DEF IInv
  <1>1. task[h][p] \in Task /\ t \in Task
    BY <1>0, TaskUpdateType DEF TypeOK
  <1>2. /\ task' = SetTask(h, p, t) /\ UNCHANGED audit
        /\ task[h][p].phase = "execute" /\ task[h][p].done < Members /\ ~ReadOnly(p)
        /\ published' = [published EXCEPT ![p] = published[p] + 1]
    BY DEF PublishMember
  <1>3. /\ t.phase = "execute" /\ t.done = task[h][p].done + 1
        /\ \A g \in Hosts : \A q \in Plans : task'[g][q] = IF g = h /\ q = p THEN t ELSE task[g][q]
    <2>1. t.phase = "execute" /\ t.done = task[h][p].done + 1
      BY <1>1, <1>2 DEF Task
    <2> HIDE DEF t
    <2> QED BY <1>0, <1>1, <1>2, <2>1, SetTaskType
  <1>4. /\ published[p] \in Nat /\ published'[p] = published[p] + 1
        /\ \A q \in Plans \ {p} : published'[q] = published[q]
    BY <1>0, <1>2 DEF TypeOK
  <1> HIDE DEF t
  <1>5. \A q \in Plans \ {p} : Effect(q)'
    <2> SUFFICES ASSUME NEW q \in Plans \ {p}
                 PROVE  Effect(q)'
      OBVIOUS
    <2>1. \A g \in Hosts : task'[g][q] = task[g][q]
      BY <1>3
    <2>2. routeState'[q] = routeState[q]
      BY <1>2 DEF audit
    <2> QED BY <1>0, <1>4, <2>1, <2>2, EffectKept
  <1>6. Effect(p)'
    <2>1. task[h][p].attempt \in DOMAIN ops[p]["execute"] /\ ops[p]["execute"] \in Seq(Operation)
      BY <1>0, <1>2 DEF TaskInv, TaskOwned, TypeOK, Phases
    <2>2. Attempts(p, "execute") # 0
      BY <2>1 DEF Attempts
    <2>3. routeState[p] \notin NotStarted /\ Attempts(p, "execute") = 1
      BY <1>0, <2>2 DEF PlanInv, RowCounts
    <2>4. DOMAIN ops[p]["execute"] = {1}
      <3>1. Len(ops[p]["execute"]) = 1
        BY <2>3 DEF Attempts
      <3> QED BY <2>1, <3>1, LenProperties
    <2>5. \A g \in Hosts : task[g][p].phase = "execute" => g = h
      <3> SUFFICES ASSUME NEW g \in Hosts, task[g][p].phase = "execute"
                   PROVE  g = h
        OBVIOUS
      <3>1. /\ fence[g] # 0 /\ task[g][p].attempt \in {1}
            /\ ops[p]["execute"][task[g][p].attempt].generation = fence[g]
        BY <1>0, <2>4 DEF TaskInv, TaskOwned
      <3>2. /\ fence[h] # 0 /\ task[h][p].attempt \in {1}
            /\ ops[p]["execute"][task[h][p].attempt].generation = fence[h]
        BY <1>0, <1>2, <2>4 DEF TaskInv, TaskOwned
      <3>3. fence[g] = fence[h]
        BY <3>1, <3>2
      <3> QED BY <1>0, <3>1, <3>3 DEF OwnerInv
    <2>6. task[h][p].done = published[p]
      BY <1>0, <1>2 DEF Effect
    <2>7. \A g \in Hosts : task'[g][p].phase = "execute" => task'[g][p].done = published'[p]
      BY <1>3, <1>4, <2>5, <2>6
    <2>8. routeState'[p] \notin NotStarted
      BY <1>2, <2>3 DEF audit
    <2>9. published'[p] <= Members
      BY <1>2, <1>4, <2>6, LimitsAssumption
    <2> QED BY <1>2, <2>7, <2>8, <2>9 DEF Effect, ReadOnly
  <1> QED BY <1>5, <1>6

\* Every step keeps the effect bounded by the only execute task.
LEMMA EffectStep ==
  ASSUME IInv, [Next]_vars
  PROVE  \A q \in Plans : Effect(q)'
  <1> SUFFICES ASSUME NEW q \in Plans
               PROVE  Effect(q)'
    OBVIOUS
  <1>0. TypeOK /\ Effect(q) /\ \A p \in Plans : PlanInv(p)
    BY DEF IInv
  <1>1. CASE /\ task' = task /\ published' = published
             /\ routeState'[q] \in NotStarted => routeState[q] \in NotStarted
    BY <1>0, <1>1, EffectKept
  <1>2. ASSUME NEW h \in Hosts, StartRuntime(h)
        PROVE  Effect(q)'
    BY <1>1, <1>2 DEF StartRuntime, audit
  <1>3. ASSUME NEW h \in Hosts, ExitStep(h)
        PROVE  Effect(q)'
    <2>1. published' = published /\ routeState' = routeState
      BY <1>3 DEF ExitStep, audit
    <2>2. \A g \in Hosts : task'[g][q] = IF g = h THEN Idle ELSE task[g][q]
      BY <1>0, <1>3 DEF ExitStep, Forget, TypeOK
    <2>3. Idle.phase # "execute"
      BY DEF Idle
    <2> QED BY <1>0, <2>1, <2>2, <2>3, EffectKept
  <1>4. ASSUME NEW h \in Hosts, NEW p \in Plans, InterruptOperation(h, p)
        PROVE  Effect(q)'
    <2>1. task' = task /\ published' = published
      BY <1>4 DEF InterruptOperation
    <2>2. PICK ph \in Phases : Transition(p, {ActiveState(ph)}, "unknown")
      BY <1>4 DEF InterruptOperation
    <2>3. "unknown" \notin NotStarted
      BY DEF NotStarted
    <2>4. routeState'[q] \in NotStarted => routeState[q] \in NotStarted
      BY <1>0, <2>2, <2>3, QuietTransition
    <2> QED BY <1>1, <2>1, <2>4
  <1>5. ASSUME NEW h \in Hosts, NEW p \in Plans, NEW ph \in Phases, NEW limit,
               Claim(h, p, ph, limit), published' = published
        PROVE  Effect(q)'
    <2> DEFINE t == [phase |-> ph, attempt |-> Attempts(p, ph) + 1, generation |-> fence[h],
                     done |-> 0, outcome |-> "pending"]
    <2>1. \A g \in Hosts : task'[g][q] = IF g = h /\ q = p THEN t ELSE task[g][q]
      BY <1>0, <1>5, ClaimTask
    <2>2. t.phase = ph /\ t.done = 0
      OBVIOUS
    <2>3. Transition(p, IF ph = "execute" THEN {"ready"} ELSE {"unknown"}, ActiveState(ph))
      BY <1>5 DEF Claim
    <2>4. ph = "execute" => routeState[p] \in NotStarted
      BY <1>0, <2>3 DEF Transition, NotStarted
    <2>5. ActiveState(ph) \notin NotStarted
      BY DEF ActiveState, NotStarted
    <2>6. routeState'[q] \in NotStarted => routeState[q] \in NotStarted
      BY <1>0, <2>3, <2>5, QuietTransition
    <2> HIDE DEF t
    <2> QED BY <1>0, <1>5, <2>1, <2>2, <2>4, <2>6, EffectKept
  <1>6. ASSUME NEW h \in Hosts, NEW p \in Plans, ClaimExecute(h, p) \/ ClaimReconcile(h, p)
        PROVE  Effect(q)'
    BY <1>5, <1>6 DEF ClaimExecute, ClaimReconcile, Phases
  <1>7. ASSUME NEW h \in Hosts, NEW p \in Plans, NEW o \in Outcomes,
               ExecuteSettles(h, p, o) \/ ReconcileSettles(h, p, o)
        PROVE  Effect(q)'
    <2> DEFINE t == [task[h][p] EXCEPT !.outcome = o]
    <2>1. task[h][p] \in Task /\ t \in Task
      BY <1>0, TaskUpdateType DEF TypeOK
    <2>2. task' = SetTask(h, p, t) /\ published' = published /\ routeState' = routeState
      BY <1>7 DEF ExecuteSettles, ReconcileSettles, audit
    <2>3. t.phase = task[h][p].phase /\ t.done = task[h][p].done
      BY <2>1 DEF Task
    <2> HIDE DEF t
    <2>4. \A g \in Hosts : task'[g][q] = IF g = h /\ q = p THEN t ELSE task[g][q]
      BY <1>0, <2>1, <2>2, SetTaskType
    <2> QED BY <1>0, <2>2, <2>3, <2>4, EffectKept
  <1>8. ASSUME NEW h \in Hosts, NEW p \in Plans, CompleteOperation(h, p) \/ CompletionLost(h, p)
        PROVE  Effect(q)'
    <2>1. task' = SetTask(h, p, Idle) /\ published' = published
      BY <1>8 DEF CompleteOperation, CompletionLost
    <2>2. routeState'[q] \in NotStarted => routeState[q] \in NotStarted
      <3>1. CASE CompletionLost(h, p)
        BY <3>1 DEF CompletionLost, audit
      <3>2. CASE CompleteOperation(h, p)
        <4>1. task[h][p].outcome \in Outcomes
          BY <1>0, <3>2 DEF CompleteOperation, TypeOK, Task
        <4>2. task[h][p].outcome \notin NotStarted
          BY <4>1 DEF Outcomes, NotStarted
        <4> QED BY <1>0, <3>2, <4>2, QuietTransition DEF CompleteOperation
      <3> QED BY <1>8, <3>1, <3>2
    <2>3. \A g \in Hosts : task'[g][q] = IF g = h /\ q = p THEN Idle ELSE task[g][q]
      BY <1>0, <2>1, IdleType, SetTaskType
    <2>4. Idle.phase # "execute"
      BY DEF Idle
    <2> QED BY <1>0, <2>1, <2>2, <2>3, <2>4, EffectKept
  <1>9. CASE QuietStep
    BY <1>1, <1>9 DEF QuietStep
  <1> QED BY <1>0, <1>2, <1>3, <1>4, <1>6, <1>7, <1>8, <1>9, StepCases, PublishEffect

-----------------------------------------------------------------------------
(* The theorems *)

\* The inductive invariant holds at the start.
LEMMA InvInit == Init => IInv
  <1> SUFFICES ASSUME Init
               PROVE  IInv
    OBVIOUS
  <1>1. TypeOK
    BY TypeInit
  <1>2. OwnerInv
    BY DEF Init, OwnerInv
  <1>3. TaskInv
    BY DEF Init, TaskInv, TaskOwned, Idle
  <1>4. ASSUME NEW p \in Plans
        PROVE  PlanInv(p)
    <2>1. routeState[p] = "absent" /\ routeSequence[p] = 0 /\ approval[p] = "none"
      BY DEF Init
    <2>2. \A ph \in Phases : ops[p][ph] = <<>>
      BY DEF Init
    <2>3. Attempts(p, "execute") = 0 /\ Attempts(p, "reconcile") = 0
      BY <2>2 DEF Attempts, Phases
    <2>4. RowsMatch(p)
      BY <2>2 DEF RowsMatch
    <2>5. RowCounts(p)
      BY <2>1, <2>3, LimitsAssumption DEF RowCounts, NotStarted
    <2>6. ChainLength(p) /\ Authorised(p)
      BY <2>1 DEF ChainLength, Authorised
    <2> QED BY <2>4, <2>5, <2>6 DEF PlanInv
  <1>5. ASSUME NEW p \in Plans
        PROVE  Effect(p)
    BY <1>5, LimitsAssumption DEF Init, Effect, Idle
  <1> QED BY <1>1, <1>2, <1>3, <1>4, <1>5 DEF IInv

\* The inductive invariant is kept by every step.
LEMMA InvStep == IInv /\ [Next]_vars => IInv'
  <1> SUFFICES ASSUME IInv, [Next]_vars
               PROVE  IInv'
    OBVIOUS
  <1>0. TypeOK /\ OwnerInv /\ TaskInv /\ \A p \in Plans : PlanInv(p)
    BY DEF IInv
  <1>1. TypeOK'
    BY <1>0, TypeStep
  <1>2. OwnerInv'
    BY <1>0, OwnerStep
  <1>3. TaskInv'
    BY <1>0, TaskStep
  <1>4. \A p \in Plans : PlanInv(p)'
    BY <1>0, PlanStep
  <1>5. \A p \in Plans : Effect(p)'
    BY EffectStep
  <1> QED BY <1>1, <1>2, <1>3, <1>4, <1>5 DEF IInv

\* The inductive invariant of the router, from which the theorems below follow.
THEOREM Invariance == Spec => []IInv
  BY InvInit, InvStep, PTL DEF Spec

\* In every reachable state a plan's rows and its route agree, for any number of hosts,
\* lost locks and exits.
THEOREM LedgerAlwaysMatchesRoute == Spec => []LedgerMatchesRoute
  <1>1. IInv => LedgerMatchesRoute
    <2> SUFFICES ASSUME IInv, NEW p \in Plans, NEW ph \in Phases
                 PROVE  /\ \A i \in DOMAIN ops[p][ph] :
                              ActiveRow(p, ph, i) <=>
                                 i = Len(ops[p][ph]) /\ routeState[p] = ActiveState(ph)
                        /\ routeState[p] = ActiveState(ph) => ops[p][ph] # <<>>
      BY DEF LedgerMatchesRoute
    <2>1. RowsMatch(p) /\ RowCounts(p)
      BY DEF IInv, PlanInv
    <2>2. ASSUME routeState[p] = ActiveState(ph)
          PROVE  Attempts(p, ph) # 0
      <3>1. CASE ph = "execute"
        BY <2>1, <2>2, <3>1 DEF RowCounts, ActiveState, NotStarted
      <3>2. CASE ph = "reconcile"
        BY <2>1, <2>2, <3>2 DEF RowCounts, ActiveState
      <3> QED BY <3>1, <3>2 DEF Phases
    <2> QED BY <2>1, <2>2 DEF RowsMatch, Attempts
  <1> QED BY <1>1, Invariance, PTL

\* No member of a write is ever published twice, even by a host that lost its lock and
\* goes on beside its successor: the one row of the execution belongs to one generation.
THEOREM EffectHappensAtMostOnce == Spec => []EffectAtMostOnce
  <1>1. IInv => EffectAtMostOnce
    BY LimitsAssumption DEF IInv, Effect, EffectAtMostOnce
  <1> QED BY <1>1, Invariance, PTL

\* What the policy allows unasked is read-only.
LEMMA AllowedIsReadOnly == \A p \in Plans : Decision(p) = "allow" => ReadOnly(p)
  BY DEF Decision, Evaluate, NeedsApproval, ReadOnly

\* A write that has touched the world was approved by a person in the plan store.
THEOREM EffectsAreApproved == Spec => []NoEffectBeforeApproval
  <1>1. IInv => NoEffectBeforeApproval
    <2> SUFFICES ASSUME IInv, NEW p \in Plans, published[p] > 0
                 PROVE  approval[p] = "approved"
      BY DEF NoEffectBeforeApproval
    <2>1. Effect(p) /\ Authorised(p)
      BY DEF IInv, PlanInv
    <2>2. routeState[p] \notin NotStarted /\ ~ReadOnly(p)
      BY <2>1 DEF Effect
    <2>3. Decision(p) = "require_approval"
      <3>1. Decision(p) # "allow"
        BY <2>2, AllowedIsReadOnly
      <3>2. Decision(p) # "deny"
        BY <2>1, <2>2 DEF Authorised, NotStarted
      <3> QED BY <3>1, <3>2, DecisionType DEF Decisions
    <2> QED BY <2>1, <2>2, <2>3 DEF Authorised, NotStarted
  <1> QED BY <1>1, Invariance, PTL

\* The audit store and the plan store agree on every decision, wherever a crash falls
\* between their two transactions.
THEOREM StoresAlwaysAgree == Spec => []StoresAgreeOnApproval
  <1>1. IInv => StoresAgreeOnApproval
    BY DEF IInv, PlanInv, Authorised, StoresAgreeOnApproval
  <1> QED BY <1>1, Invariance, PTL

\* The audit chain has exactly the events its ledger accounts for.
THEOREM AuditChainIsComplete == Spec => []AuditChainAccountsForLedger
  <1>1. IInv => AuditChainAccountsForLedger
    BY DEF IInv, PlanInv, ChainLength, AuditChainAccountsForLedger
  <1> QED BY <1>1, Invariance, PTL

\* The attempts allowed and the bound of the audit chain fit together below this line:
\* then no unsettled route is ever stuck for want of an event.
THEOREM UnsettledRoutesStayWritable ==
  ASSUME 2 * MaxReconcile + 4 < MaxSequence
  PROVE  Spec => []UnsettledRouteCanAppend
  <1>1. IInv => UnsettledRouteCanAppend
    <2> SUFFICES ASSUME IInv, NEW p \in Plans, routeState[p] \in UnresolvedStates
                 PROVE  routeSequence[p] < MaxSequence
      BY DEF UnsettledRouteCanAppend, CanAppend
    <2>1. TypeOK /\ ChainLength(p) /\ RowCounts(p)
      BY DEF IInv, PlanInv
    <2>2. routeSequence[p] = LedgerEvents(p)
      BY <2>1 DEF ChainLength, UnresolvedStates
    <2>3. Attempts(p, "execute") = 1 /\ Attempts(p, "reconcile") <= MaxReconcile
      BY <2>1 DEF RowCounts, UnresolvedStates, NotStarted
    <2>4. LedgerEvents(p) <= 4 + 2 * MaxReconcile
      BY <2>1, <2>3, AttemptsType, LimitsAssumption DEF LedgerEvents
    <2>5. LedgerEvents(p) \in Int
      BY <2>1, AttemptsType DEF LedgerEvents
    <2> QED BY <2>2, <2>4, <2>5, LimitsAssumption
  <1> QED BY <1>1, Invariance, PTL

\* Only the owner of a row's generation completes it, and a row that is not active is
\* never written again.
THEOREM LedgerIsFenced == Spec => FencedLedger
  <1>1. TypeOK /\ [Next]_vars => [LedgerStep]_vars
    BY RowsStep DEF RowStep, LedgerStep
  <1> QED BY <1>1, TypeCorrect, PTL DEF Spec, FencedLedger

-----------------------------------------------------------------------------
(* The policy *)

\* Which accesses the canonical resources of each kind can have.
LEMMA ResourceAccess ==
  ASSUME NEW r \in Resources
  PROVE  /\ r.kind \in {"process", "network", "secret"} => r.access # "read"
         /\ r.access \in {"read", "write", "execute", "connect", "use", "update"}
  <1>1. PICK k \in ResourceKinds : r \in {[kind |-> k, access |-> a] : a \in AccessOf[k]}
    BY DEF Resources
  <1>2. r.kind = k /\ r.access \in AccessOf[k]
    BY <1>1
  <1>3. k \in {"workspace", "process", "network", "secret", "git_ref", "external"}
    BY DEF ResourceKinds, AccessOf
  <1> QED BY <1>2, <1>3 DEF AccessOf

\* For every binding, set of resources, sandbox and secrets: a call runs unasked exactly
\* when it is a bounded read, and the catalogue's approval flag says so beforehand.
LEMMA PolicyExactness == PolicyIsExact
  <1> SUFFICES ASSUME NEW f \in Facts
               PROVE  AllowsExactlyBoundedReads(f, Evaluate(f)) /\ CatalogueAgrees(f, Evaluate(f))
    BY DEF PolicyIsExact
  <1>1. /\ f.effect \in EffectClasses /\ f.risk \in RiskLevels /\ f.network \in BOOLEAN
        /\ f.secrets \in BOOLEAN /\ f.resources \subseteq Resources
        /\ (f.effect = "read_only" <=> f.recovery = "none")
    BY DEF Facts, ValidBinding
  <1>2. HasEffectResource(f) <=> ~(\A r \in f.resources : r.access = "read")
    BY <1>1, ResourceAccess DEF HasEffectResource
  <1>3. ~HasEffectResource(f) => ~HasKind(f, "network") /\ ~HasKind(f, "secret")
    BY <1>1 DEF HasEffectResource, HasKind
  <1>4. Evaluate(f) = "allow" <=> ~Denied(f) /\ ~NeedsApproval(f)
    BY DEF Evaluate
  <1>5. BoundedRead(f) => ~Denied(f) /\ ~NeedsApproval(f)
    <2> SUFFICES ASSUME BoundedRead(f)
                 PROVE  ~Denied(f) /\ ~NeedsApproval(f)
      OBVIOUS
    <2>1. /\ f.effect = "read_only" /\ f.risk = "low" /\ f.recovery = "none"
          /\ f.network = FALSE /\ f.secrets = FALSE /\ ~HasEffectResource(f)
      BY <1>1, <1>2 DEF BoundedRead
    <2>2. HasKind(f, "network") = FALSE /\ HasKind(f, "secret") = FALSE
      BY <1>3, <2>1 DEF HasKind
    <2>3. ~NeedsApproval(f)
      BY <2>1 DEF NeedsApproval
    <2>4. HasKind(f, "network") = f.network /\ HasKind(f, "secret") = f.secrets
      BY <2>1, <2>2
    <2>5. ~Denied(f)
      BY <2>1, <2>4 DEF Denied
    <2> QED BY <2>3, <2>5
  <1>6. ~Denied(f) /\ ~NeedsApproval(f) => BoundedRead(f)
    BY <1>1, <1>2 DEF BoundedRead, Denied, NeedsApproval, RiskLevels
  <1>7. Evaluate(f) = "require_approval" => ExpectedApproval(f)
    <2> SUFFICES ASSUME Evaluate(f) = "require_approval", f.effect = "read_only", f.risk = "low"
                 PROVE  FALSE
      BY DEF ExpectedApproval
    <2>1. ~Denied(f) /\ NeedsApproval(f)
      BY DEF Evaluate
    <2>2. f.network \/ f.secrets
      BY <1>1, <2>1 DEF NeedsApproval
    <2>3. ~HasEffectResource(f)
      BY <2>1 DEF Denied
    <2>4. HasKind(f, "network") = f.network /\ HasKind(f, "secret") = f.secrets
      BY <2>1 DEF Denied
    <2> QED BY <1>3, <2>2, <2>3, <2>4
  <1>8. Evaluate(f) = "allow" => ~ExpectedApproval(f)
    BY <1>4, <1>6 DEF BoundedRead, ExpectedApproval
  <1> QED BY <1>4, <1>5, <1>6, <1>7, <1>8 DEF AllowsExactlyBoundedReads, CatalogueAgrees

\* An open runtime lets exactly the bounded reads through and keeps what its catalogue
\* says, whatever facts its calls have.
THEOREM PolicyIsSafe == Spec => []OpenCatalogueIsExact
  <1>1. OpenCatalogueIsExact
    BY PolicyExactness DEF OpenCatalogueIsExact
  <1> QED BY <1>1, PTL
=============================================================================
