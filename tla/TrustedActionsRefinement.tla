---------------------- MODULE TrustedActionsRefinement ----------------------
(***************************************************************************)
(* What startup recovery and the lock file add to the invariant of          *)
(* TrustedActionsProofs: an open runtime owes nothing to its predecessors,  *)
(* and a router whose lock is not lost implements ActionContract.           *)
(***************************************************************************)
EXTENDS TrustedActionsProofs

-----------------------------------------------------------------------------
(* An open runtime owes nothing *)

\* A host that is open and owns the fence after a step was so before it, or has just
\* been opened by that step.
LEMMA OpenBefore ==
  ASSUME TypeOK, OwnerInv, [Next]_vars, NEW h \in Hosts, phase'[h] = "open", OwnsFence(h)'
  PROVE  \/ OpenRuntime(h)
         \/ phase[h] = "open" /\ OwnsFence(h) /\ UNCHANGED <<ownerGeneration, fence>>
         \/ phase[h] = "open" /\ OwnsFence(h) /\ \E g \in Hosts : ExitStep(g) /\ g # h
  <1> USE DEF owner, OwnsFence
  <1>1. CASE LockFileReplaced \/ UNCHANGED vars
    BY <1>1 DEF LockFileReplaced, vars
  <1>2. ASSUME NEW g \in Hosts, ExitStep(g)
        PROVE  phase[h] = "open" /\ OwnsFence(h) /\ g # h
    BY <1>2 DEF ExitStep, Forget, TypeOK
  <1>3. ASSUME NEW g \in Hosts, StartRuntime(g)
        PROVE  FALSE
    <2>1. g # h
      BY <1>3 DEF StartRuntime, TypeOK
    <2>2. fence'[h] = fence[h] /\ ownerGeneration' = ownerGeneration + 1
      BY <1>3, <2>1 DEF StartRuntime, TypeOK
    <2>3. fence[h] <= ownerGeneration /\ fence[h] \in Nat /\ ownerGeneration \in Nat
      BY DEF OwnerInv, TypeOK
    <2>4. fence'[h] = ownerGeneration'
      BY DEF OwnsFence
    <2> QED BY <2>2, <2>3, <2>4
  <1>4. ASSUME NEW g \in Hosts, FinishScan(g) \/ FinishInterrupts(g) \/ OpenRuntime(g)
        PROVE  OpenRuntime(h) \/ (phase[h] = "open" /\ UNCHANGED <<ownerGeneration, fence>>)
    BY <1>4 DEF FinishScan, FinishInterrupts, OpenRuntime, TypeOK
  <1>5. ASSUME NEW g \in Hosts, HostExits(g) \/ RecoveryFails(g)
        PROVE  ExitStep(g)
    BY <1>5 DEF HostExits, RecoveryFails, ExitStep
  <1>6. ASSUME NEW g \in Hosts, NEW p \in Plans,
               \/ RepairExecutionPlan(g, p) \/ RecoverInterrupted(g, p)
               \/ Request(g, p) \/ Reconcile(g, p) \/ ExecutorCall(g, p) \/ Completion(g, p)
        PROVE  UNCHANGED <<ownerGeneration, fence, phase>>
    BY <1>6 DEF RepairExecutionPlan, RecoverInterrupted, InterruptOperation, Request, PlanRoute,
       PlanExecution, RecordApproval, ApplyApproval, ClaimExecute, GatewayInterrupts, Reconcile,
       ReconcileManually, ClaimReconcile, ExecutorCall, PublishMember, ExecuteSettles,
       ReconcileSettles, Completion, CompleteOperation, CompletionLost
  <1>7. ASSUME NEW g \in Hosts, Startup(g)
        PROVE  \/ StartRuntime(g) \/ FinishScan(g) \/ FinishInterrupts(g) \/ OpenRuntime(g)
               \/ RecoveryFails(g)
               \/ \E p \in Plans : RepairExecutionPlan(g, p) \/ RecoverInterrupted(g, p)
    BY <1>7 DEF Startup
  <1> QED BY <1>1, <1>2, <1>3, <1>4, <1>5, <1>6, <1>7 DEF Next

\* A route becomes unresolved by the claim of its execution only.
LEMMA UnresolvedBefore ==
  ASSUME TypeOK, [Next]_vars, NEW p \in Plans, routeState'[p] \in UnresolvedStates
  PROVE  routeState[p] \in UnresolvedStates \/ \E g \in Hosts : ClaimExecute(g, p)
  <1> USE DEF UnresolvedStates, audit
  <1>1. CASE routeState' = routeState
    BY <1>1
  <1>2. ASSUME NEW g \in Hosts, NEW q \in Plans, NEW expected, NEW target,
               Transition(q, expected, target),
               target \in UnresolvedStates => expected \subseteq UnresolvedStates
        PROVE  routeState[p] \in UnresolvedStates
    BY <1>2, TransitionEffect
  <1>3. ASSUME NEW g \in Hosts, NEW q \in Plans, InterruptOperation(g, q)
        PROVE  routeState[p] \in UnresolvedStates
    <2>1. PICK ph \in Phases : Transition(q, {ActiveState(ph)}, "unknown")
      BY <1>3 DEF InterruptOperation
    <2>2. {ActiveState(ph)} \subseteq UnresolvedStates
      BY DEF ActiveState
    <2> QED BY <1>2, <2>1, <2>2
  <1>4. ASSUME NEW g \in Hosts, NEW q \in Plans, ClaimReconcile(g, q)
        PROVE  routeState[p] \in UnresolvedStates
    BY <1>2, <1>4 DEF ClaimReconcile, Claim
  <1>5. ASSUME NEW g \in Hosts, NEW q \in Plans, ClaimExecute(g, q), q # p
        PROVE  routeState[p] \in UnresolvedStates
    BY <1>5, TransitionEffect DEF ClaimExecute, Claim
  <1>6. ASSUME NEW g \in Hosts, NEW q \in Plans, CompleteOperation(g, q)
        PROVE  routeState[p] \in UnresolvedStates
    <2>1. Transition(q, {ActiveState(task[g][q].phase)}, task[g][q].outcome)
      BY <1>6 DEF CompleteOperation
    <2>2. {ActiveState(task[g][q].phase)} \subseteq UnresolvedStates
      BY DEF ActiveState
    <2> QED BY <1>2, <2>1, <2>2
  <1>7. ASSUME NEW g \in Hosts, NEW q \in Plans, ReconcileManually(g, q)
        PROVE  routeState[p] \in UnresolvedStates
    BY <1>2, <1>7 DEF ReconcileManually
  <1>8. ASSUME NEW g \in Hosts, NEW q \in Plans, ApplyApproval(g, q)
        PROVE  routeState[p] \in UnresolvedStates
    BY <1>2, <1>8 DEF ApplyApproval
  <1>9. ASSUME NEW g \in Hosts, NEW q \in Plans, PlanRoute(g, q)
        PROVE  routeState[p] \in UnresolvedStates
    <2>1. Decision(q) \in {"deny", "require_approval", "allow"}
      BY DecisionType DEF Decisions
    <2>2. InitialState(q) \in {"denied", "pending_approval", "ready"}
      BY <2>1 DEF InitialState
    <2> QED BY <1>9, <2>2 DEF PlanRoute, TypeOK
  <1>10. ASSUME NEW g \in Hosts, Startup(g)
         PROVE  routeState' = routeState \/ \E q \in Plans : InterruptOperation(g, q)
    BY <1>10 DEF Startup, StartRuntime, FinishScan, FinishInterrupts, RecoveryFails, OpenRuntime,
       RepairExecutionPlan, RecoverInterrupted
  <1>11. ASSUME NEW g \in Hosts, NEW q \in Plans, Request(g, q)
         PROVE  \/ routeState' = routeState \/ PlanRoute(g, q) \/ ApplyApproval(g, q)
                \/ ClaimExecute(g, q) \/ InterruptOperation(g, q)
    BY <1>11 DEF Request, PlanExecution, RecordApproval, GatewayInterrupts
  <1>12. ASSUME NEW g \in Hosts, NEW q \in Plans,
                Reconcile(g, q) \/ ExecutorCall(g, q) \/ Completion(g, q)
         PROVE  \/ routeState' = routeState \/ ReconcileManually(g, q) \/ ClaimReconcile(g, q)
                \/ CompleteOperation(g, q)
    BY <1>12 DEF Reconcile, ExecutorCall, PublishMember, ExecuteSettles, ReconcileSettles,
       Completion, CompletionLost
  <1>13. CASE LockFileReplaced \/ UNCHANGED vars
    BY <1>1, <1>13 DEF LockFileReplaced, vars
  <1>14. ASSUME NEW g \in Hosts, HostExits(g)
         PROVE  routeState' = routeState
    BY <1>14 DEF HostExits
  <1>15. ASSUME NEW g \in Hosts, NEW q \in Plans,
                Request(g, q) \/ Reconcile(g, q) \/ ExecutorCall(g, q) \/ Completion(g, q)
         PROVE  routeState[p] \in UnresolvedStates \/ ClaimExecute(g, p)
    BY <1>1, <1>3, <1>4, <1>5, <1>6, <1>7, <1>8, <1>9, <1>11, <1>12, <1>15
  <1>16. ASSUME NEW g \in Hosts, Startup(g) \/ HostExits(g)
         PROVE  routeState[p] \in UnresolvedStates
    BY <1>1, <1>3, <1>10, <1>14, <1>16
  <1> QED BY <1>13, <1>15, <1>16 DEF Next

\* Recovery leaves nothing behind and the owner's own claims carry its generation.
LEMMA OwesStep ==
  ASSUME IInv, OpenRuntimeOwesNothing, [Next]_vars
  PROVE  OpenRuntimeOwesNothing'
  <1>0. TypeOK /\ OwnerInv /\ \A p \in Plans : PlanInv(p)
    BY DEF IInv
  <1> SUFFICES ASSUME NEW h \in Hosts, phase'[h] = "open", OwnsFence(h)',
                      NEW p \in Plans, routeState'[p] \in UnresolvedStates,
                      NEW i \in DOMAIN ops'[p]["execute"]
               PROVE  ops'[p]["execute"][i].generation = fence'[h]
    BY DEF OpenRuntimeOwesNothing
  <1>1. ~OpenRuntime(h)
    BY DEF OpenRuntime, audit
  <1>2. phase[h] = "open" /\ OwnsFence(h)
    BY <1>0, <1>1, OpenBefore
  <1>3. fence'[h] = fence[h]
    <2>1. ASSUME NEW g \in Hosts, ExitStep(g), g # h
          PROVE  fence'[h] = fence[h]
      BY <1>0, <2>1 DEF ExitStep, Forget, TypeOK
    <2> QED BY <1>0, <1>1, <2>1, OpenBefore
  <1>4. CASE routeState[p] \in UnresolvedStates
    <2>1. \A k \in DOMAIN ops[p]["execute"] : ops[p]["execute"][k].generation = fence[h]
      BY <1>2, <1>4 DEF OpenRuntimeOwesNothing
    <2>2. \A k \in DOMAIN ops[p]["execute"] : RowStep(p, "execute", k)
      BY <1>0, RowsStep DEF Phases
    <2>3. DOMAIN ops'[p]["execute"] = DOMAIN ops[p]["execute"]
      <3>1. TypeOK' /\ PlanInv(p)' /\ PlanInv(p)
        BY InvStep DEF IInv
      <3>2. ops[p]["execute"] \in Seq(Operation) /\ ops'[p]["execute"] \in Seq(Operation)
        BY <1>0, <3>1 DEF TypeOK, Phases
      <3>3. routeState[p] \notin NotStarted /\ routeState'[p] \notin NotStarted
        BY <1>4 DEF NotStarted, UnresolvedStates
      <3>4. Len(ops[p]["execute"]) = 1 /\ Len(ops'[p]["execute"]) = 1
        BY <3>1, <3>3 DEF PlanInv, RowCounts, Attempts
      <3> QED BY <3>2, <3>4
    <2> QED BY <1>3, <2>1, <2>2, <2>3 DEF RowStep
  <1>5. ASSUME NEW g \in Hosts, ClaimExecute(g, p)
        PROVE  ops'[p]["execute"][i].generation = fence'[h]
    <2>1. g = h
      BY <1>0, <1>2, <1>5 DEF ClaimExecute, Claim, OwnsFence, OwnerInv
    <2>2. routeState[p] = "ready" /\ "execute" \in Phases
      BY <1>5 DEF ClaimExecute, Claim, Transition, Phases
    <2>3. Attempts(p, "execute") = 0
      BY <1>0, <2>2 DEF PlanInv, RowCounts, NotStarted
    <2>4. ops'[p]["execute"][1].generation = fence[h]
      <3>1. ops'[p]["execute"][Attempts(p, "execute") + 1].generation = fence[h]
        BY <1>0, <1>5, <2>1, <2>2, ClaimRows DEF ClaimExecute
      <3> QED BY <2>3, <3>1
    <2>5. DOMAIN ops'[p]["execute"] = {1}
      <3>1. TypeOK' /\ PlanInv(p)'
        BY InvStep DEF IInv
      <3>2. ops'[p]["execute"] \in Seq(Operation)
        BY <2>2, <3>1 DEF TypeOK
      <3>3. Len(ops'[p]["execute"]) = 1
        BY <3>1 DEF PlanInv, RowCounts, Attempts, NotStarted, UnresolvedStates
      <3> QED BY <3>2, <3>3
    <2> QED BY <1>3, <2>4, <2>5
  <1> QED BY <1>0, <1>4, <1>5, UnresolvedBefore

\* Whatever its predecessors left, a runtime that is open and owns the fence has settled
\* it: what is unresolved it has executed itself, also when a lock was lost on the way.
THEOREM OpenRuntimeNeverOwes == Spec => []OpenRuntimeOwesNothing
  <1>1. Init => OpenRuntimeOwesNothing
    BY DEF Init, OpenRuntimeOwesNothing
  <1>2. IInv /\ OpenRuntimeOwesNothing /\ [Next]_vars => OpenRuntimeOwesNothing'
    BY OwesStep
  <1> QED BY <1>1, <1>2, Invariance, PTL DEF Spec

-----------------------------------------------------------------------------
(* A lock that is not lost *)

\* The host that holds the lock is the only live one.
LockHeld == \A h \in Hosts : phase[h] # "down" => lock = h

\* A call in flight is the one its route is waiting for; there is none before
\* reconciliation begins and none in a host that is down.
LiveTask(h, p) ==
    task[h][p].phase # "idle" =>
        /\ phase[h] \in {"reconcile", "open"}
        /\ routeState[p] = ActiveState(task[h][p].phase)

TaskLive == \A h \in Hosts : \A p \in Plans : LiveTask(h, p)

\* What a call that has returned reports is what is published.
ReportTrue(h, p) ==
    task[h][p].phase # "idle" /\ task[h][p].outcome # "pending"
        => TruthfulOutcome(p, published[p], task[h][p].outcome)

ReportsTrue == \A h \in Hosts : \A p \in Plans : ReportTrue(h, p)

RInv == IInv /\ LockHeld /\ TaskLive /\ ReportsTrue

\* Nobody runs at the start.
LEMMA RInit == Init => RInv
  BY InvInit DEF Init, RInv, LockHeld, TaskLive, LiveTask, ReportsTrue, ReportTrue, Idle

\* Only the holder of the lock has calls in flight.
LEMMA OneCaller ==
  ASSUME LockHeld, TaskLive, NEW g \in Hosts, NEW h \in Hosts, NEW p \in Plans, NEW q \in Plans,
         task[g][p].phase # "idle", phase[h] # "down" \/ task[h][q].phase # "idle"
  PROVE  g = h
  BY DEF LockHeld, TaskLive, LiveTask

\* The lock stays with the only live host.
LEMMA LockStep ==
  ASSUME TypeOK, LockHeld, ~LockMayBeLost, [Next]_vars
  PROVE  LockHeld'
  <1> USE DEF owner
  <1>1. CASE LockFileReplaced \/ UNCHANGED vars
    BY <1>1 DEF LockFileReplaced, vars, LockHeld
  <1>2. ASSUME NEW g \in Hosts, HostExits(g) \/ RecoveryFails(g)
        PROVE  LockHeld'
    <2>1. /\ phase' = [phase EXCEPT ![g] = "down"]
          /\ lock' = IF lock = g THEN NoHost ELSE lock
      BY <1>2 DEF HostExits, RecoveryFails, Forget
    <2>2. ASSUME NEW h \in Hosts, phase'[h] # "down"
          PROVE  lock' = h
      <3>1. h # g /\ phase[h] # "down"
        BY <2>1, <2>2 DEF TypeOK
      <3> QED BY <2>1, <3>1 DEF LockHeld
    <2> QED BY <2>2 DEF LockHeld
  <1>3. ASSUME NEW g \in Hosts, StartRuntime(g)
        PROVE  LockHeld'
    BY <1>3, HostsAssumption DEF StartRuntime, LockHeld, TypeOK
  <1>4. ASSUME NEW g \in Hosts, FinishScan(g) \/ FinishInterrupts(g) \/ OpenRuntime(g)
        PROVE  LockHeld'
    BY <1>4 DEF FinishScan, FinishInterrupts, OpenRuntime, LockHeld, TypeOK
  <1>5. ASSUME NEW g \in Hosts, NEW p \in Plans,
               \/ RepairExecutionPlan(g, p) \/ RecoverInterrupted(g, p)
               \/ Request(g, p) \/ Reconcile(g, p) \/ ExecutorCall(g, p) \/ Completion(g, p)
        PROVE  UNCHANGED <<lock, phase>>
    BY <1>5 DEF RepairExecutionPlan, RecoverInterrupted, InterruptOperation, Request, PlanRoute,
       PlanExecution, RecordApproval, ApplyApproval, ClaimExecute, GatewayInterrupts, Reconcile,
       ReconcileManually, ClaimReconcile, ExecutorCall, PublishMember, ExecuteSettles,
       ReconcileSettles, Completion, CompleteOperation, CompletionLost
  <1>6. ASSUME NEW g \in Hosts, Startup(g)
        PROVE  \/ StartRuntime(g) \/ FinishScan(g) \/ FinishInterrupts(g) \/ OpenRuntime(g)
               \/ RecoveryFails(g)
               \/ \E p \in Plans : RepairExecutionPlan(g, p) \/ RecoverInterrupted(g, p)
    BY <1>6 DEF Startup
  <1>7. CASE UNCHANGED <<lock, phase>>
    BY <1>7 DEF LockHeld
  <1> QED BY <1>1, <1>2, <1>3, <1>4, <1>5, <1>6, <1>7 DEF Next

\* A step that writes the task of one plan in one host.
LEMMA OneTask ==
  ASSUME TypeOK, NEW h \in Hosts, NEW p \in Plans, NEW t \in Task, task' = SetTask(h, p, t)
  PROVE  \A g \in Hosts : \A q \in Plans :
            task'[g][q] = IF g = h /\ q = p THEN t ELSE task[g][q]
  BY SetTaskType

\* A transition of a route nobody works on disturbs no call.
LEMMA QuietRoute ==
  ASSUME TypeOK, LockHeld, TaskLive, NEW h \in Hosts, NEW p \in Plans, NEW expected, NEW target,
         Transition(p, expected, target), phase[h] # "down", task[h][p] = Idle,
         task' = task, phase' = phase
  PROVE  TaskLive'
  <1> SUFFICES ASSUME NEW g \in Hosts, NEW q \in Plans, task'[g][q].phase # "idle"
               PROVE  LiveTask(g, q)'
    BY DEF TaskLive, LiveTask
  <1>1. g = h
    BY OneCaller
  <1>2. q # p
    BY <1>1 DEF Idle
  <1>3. routeState'[q] = routeState[q]
    BY <1>2, TransitionEffect
  <1> QED BY <1>3 DEF TaskLive, LiveTask, ActiveState

\* A claim makes its call the one its route waits for.
LEMMA ClaimLive ==
  ASSUME TypeOK, LockHeld, TaskLive, NEW h \in Hosts, NEW p \in Plans, NEW ph \in Phases, NEW limit,
         Claim(h, p, ph, limit), phase[h] \in {"reconcile", "open"}, UNCHANGED owner
  PROVE  TaskLive'
  <1> SUFFICES ASSUME NEW g \in Hosts, NEW q \in Plans, task'[g][q].phase # "idle"
               PROVE  LiveTask(g, q)'
    BY DEF TaskLive, LiveTask
  <1> DEFINE t == [phase |-> ph, attempt |-> Attempts(p, ph) + 1, generation |-> fence[h],
                   done |-> 0, outcome |-> "pending"]
  <1>1. task'[g][q] = IF g = h /\ q = p THEN t ELSE task[g][q]
    BY ClaimTask
  <1>2. t.phase = ph
    OBVIOUS
  <1>3. /\ routeState'[p] = ActiveState(ph) /\ phase' = phase
        /\ \A r \in Plans \ {p} : routeState'[r] = routeState[r]
    BY TransitionEffect DEF Claim, owner
  <1> HIDE DEF t
  <1>4. CASE g = h /\ q = p
    BY <1>1, <1>2, <1>3, <1>4 DEF LiveTask, ActiveState
  <1>5. CASE ~(g = h /\ q = p)
    <2>1. task'[g][q] = task[g][q] /\ LiveTask(g, q)
      BY <1>1, <1>5 DEF TaskLive
    <2>2. g = h
      BY <2>1, OneCaller
    <2> QED BY <1>3, <1>5, <2>1, <2>2 DEF LiveTask, ActiveState
  <1> QED BY <1>4, <1>5

\* Every step leaves the calls in flight with the routes that wait for them.
LEMMA TaskLiveStep ==
  ASSUME RInv, [Next]_vars
  PROVE  TaskLive'
  <1> USE DEF owner, audit
  <1>0. TypeOK /\ OwnerInv /\ LockHeld /\ TaskLive
    BY DEF RInv, IInv
  <1>1. ASSUME UNCHANGED <<routeState, task>>,
               \A h \in Hosts : phase[h] \in {"reconcile", "open"} => phase'[h] \in {"reconcile", "open"}
        PROVE  TaskLive'
    BY <1>0, <1>1 DEF TaskLive, LiveTask, ActiveState
  <1>2. CASE LockFileReplaced \/ UNCHANGED vars
    BY <1>1, <1>2 DEF LockFileReplaced, vars
  <1>3. ASSUME NEW h \in Hosts, HostExits(h) \/ RecoveryFails(h)
        PROVE  TaskLive'
    <2>1. /\ routeState' = routeState
          /\ phase' = [phase EXCEPT ![h] = "down"]
          /\ task' = [task EXCEPT ![h] = [p \in Plans |-> Idle]]
      BY <1>3 DEF HostExits, RecoveryFails, Forget
    <2> SUFFICES ASSUME NEW g \in Hosts, NEW q \in Plans, task'[g][q].phase # "idle"
                 PROVE  LiveTask(g, q)'
      BY DEF TaskLive, LiveTask
    <2>2. g # h
      BY <1>0, <2>1 DEF TypeOK, Idle
    <2>3. task'[g][q] = task[g][q] /\ phase'[g] = phase[g]
      BY <1>0, <2>1, <2>2 DEF TypeOK
    <2> QED BY <1>0, <2>1, <2>3 DEF TaskLive, LiveTask, ActiveState
  <1>4. ASSUME NEW h \in Hosts, StartRuntime(h) \/ FinishScan(h) \/ FinishInterrupts(h) \/ OpenRuntime(h)
        PROVE  TaskLive'
    BY <1>0, <1>1, <1>4 DEF StartRuntime, FinishScan, FinishInterrupts, OpenRuntime, TypeOK
  <1>5. ASSUME NEW h \in Hosts, NEW p \in Plans,
               \/ RepairExecutionPlan(h, p) \/ PlanExecution(h, p)
               \/ \E o \in {"approved", "rejected"} : RecordApproval(h, p, o)
        PROVE  TaskLive'
    BY <1>1, <1>5 DEF RepairExecutionPlan, PlanExecution, RecordApproval
  <1>6. ASSUME NEW h \in Hosts, NEW p \in Plans, RecoverInterrupted(h, p) \/ GatewayInterrupts(h, p)
        PROVE  TaskLive'
    <2>1. PICK ph \in Phases : Transition(p, {ActiveState(ph)}, "unknown")
      BY <1>6 DEF RecoverInterrupted, GatewayInterrupts, InterruptOperation
    <2>2. task' = task /\ phase' = phase /\ phase[h] # "down"
      BY <1>6 DEF RecoverInterrupted, GatewayInterrupts, InterruptOperation
    <2>3. task[h][p].phase = "idle"
      BY <1>0, <1>6 DEF RecoverInterrupted, GatewayInterrupts, TaskLive, LiveTask, Idle
    <2> SUFFICES ASSUME NEW g \in Hosts, NEW q \in Plans, task'[g][q].phase # "idle"
                 PROVE  LiveTask(g, q)'
      BY DEF TaskLive, LiveTask
    <2>4. g = h /\ q # p
      BY <1>0, <2>2, <2>3, OneCaller
    <2>5. routeState'[q] = routeState[q]
      BY <1>0, <2>1, <2>4, TransitionEffect
    <2> QED BY <1>0, <2>2, <2>5 DEF TaskLive, LiveTask, ActiveState
  <1>7. ASSUME NEW h \in Hosts, NEW p \in Plans, ClaimExecute(h, p) \/ ClaimReconcile(h, p)
        PROVE  TaskLive'
    <2>1. phase[h] \in {"reconcile", "open"} /\ UNCHANGED owner
      BY <1>7 DEF ClaimExecute, ClaimReconcile, MayReconcile
    <2> QED BY <1>0, <1>7, <2>1, ClaimLive DEF ClaimExecute, ClaimReconcile, Phases
  <1>8. ASSUME NEW h \in Hosts, NEW p \in Plans, ReconcileManually(h, p)
        PROVE  TaskLive'
    <2>1. /\ phase[h] # "down" /\ task[h][p] = Idle /\ task' = task /\ phase' = phase
          /\ Transition(p, {"unknown"}, "manual_intervention")
      BY <1>8 DEF ReconcileManually, MayReconcile
    <2> QED BY <1>0, <2>1, QuietRoute
  <1>9. ASSUME NEW h \in Hosts, NEW p \in Plans, PlanRoute(h, p) \/ ApplyApproval(h, p)
        PROVE  TaskLive'
    <2>1. /\ task' = task /\ phase' = phase /\ routeState[p] \in {"absent", "pending_approval"}
          /\ \A q \in Plans \ {p} : routeState'[q] = routeState[q]
      BY <1>0, <1>9 DEF PlanRoute, ApplyApproval, Transition, TypeOK
    <2> SUFFICES ASSUME NEW g \in Hosts, NEW q \in Plans, task'[g][q].phase # "idle"
                 PROVE  LiveTask(g, q)'
      BY DEF TaskLive, LiveTask
    <2>2. q # p
      BY <1>0, <2>1 DEF TaskLive, LiveTask, ActiveState
    <2> QED BY <1>0, <2>1, <2>2 DEF TaskLive, LiveTask, ActiveState
  <1>10. ASSUME NEW h \in Hosts, NEW p \in Plans, NEW t \in Task, task' = SetTask(h, p, t),
                t.phase \in {"idle", task[h][p].phase}, UNCHANGED <<routeState, phase>>
         PROVE  TaskLive'
    BY <1>0, <1>10, OneTask DEF TaskLive, LiveTask, ActiveState
  <1>11. ASSUME NEW h \in Hosts, NEW p \in Plans, PublishMember(h, p)
         PROVE  TaskLive'
    <2> DEFINE t == [task[h][p] EXCEPT !.done = task[h][p].done + 1]
    <2>1. task[h][p] \in Task /\ t \in Task
      BY <1>0, TaskUpdateType DEF TypeOK
    <2>2. t.phase = task[h][p].phase
      BY <2>1 DEF Task
    <2>3. task' = SetTask(h, p, t) /\ UNCHANGED <<routeState, phase>>
      BY <1>11 DEF PublishMember
    <2> HIDE DEF t
    <2> QED BY <1>10, <2>1, <2>2, <2>3
  <1>12. ASSUME NEW h \in Hosts, NEW p \in Plans, NEW o \in Outcomes,
                ExecuteSettles(h, p, o) \/ ReconcileSettles(h, p, o)
         PROVE  TaskLive'
    <2> DEFINE t == [task[h][p] EXCEPT !.outcome = o]
    <2>1. task[h][p] \in Task /\ t \in Task
      BY <1>0, TaskUpdateType DEF TypeOK
    <2>2. t.phase = task[h][p].phase
      BY <2>1 DEF Task
    <2>3. task' = SetTask(h, p, t) /\ UNCHANGED <<routeState, phase>>
      BY <1>12 DEF ExecuteSettles, ReconcileSettles
    <2> HIDE DEF t
    <2> QED BY <1>10, <2>1, <2>2, <2>3
  <1>13. ASSUME NEW h \in Hosts, NEW p \in Plans, CompletionLost(h, p)
         PROVE  TaskLive'
    BY <1>10, <1>13, IdleType DEF CompletionLost, Idle
  <1>14. ASSUME NEW h \in Hosts, NEW p \in Plans, CompleteOperation(h, p)
         PROVE  TaskLive'
    <2>1. /\ task' = SetTask(h, p, Idle) /\ phase' = phase /\ task[h][p].phase # "idle"
          /\ Transition(p, {ActiveState(task[h][p].phase)}, task[h][p].outcome)
      BY <1>14 DEF CompleteOperation
    <2> SUFFICES ASSUME NEW g \in Hosts, NEW q \in Plans, task'[g][q].phase # "idle"
                 PROVE  LiveTask(g, q)'
      BY DEF TaskLive, LiveTask
    <2>2. ~(g = h /\ q = p) /\ task'[g][q] = task[g][q]
      BY <1>0, <2>1, OneTask, IdleType DEF Idle
    <2>3. g = h
      BY <1>0, <2>1, <2>2, OneCaller
    <2>4. routeState'[q] = routeState[q]
      BY <1>0, <2>1, <2>2, <2>3, TransitionEffect
    <2> QED BY <1>0, <2>1, <2>2, <2>4 DEF TaskLive, LiveTask, ActiveState
  <1>15. ASSUME NEW h \in Hosts, Startup(h)
         PROVE  TaskLive'
    BY <1>3, <1>4, <1>5, <1>6, <1>15 DEF Startup
  <1>16. ASSUME NEW h \in Hosts, NEW p \in Plans, Request(h, p)
         PROVE  TaskLive'
    BY <1>5, <1>6, <1>7, <1>9, <1>16 DEF Request
  <1>17. ASSUME NEW h \in Hosts, NEW p \in Plans,
                Reconcile(h, p) \/ ExecutorCall(h, p) \/ Completion(h, p)
         PROVE  TaskLive'
    BY <1>7, <1>8, <1>11, <1>12, <1>13, <1>14, <1>17 DEF Reconcile, ExecutorCall, Completion
  <1> QED BY <1>2, <1>3, <1>15, <1>16, <1>17 DEF Next

\* What a call reports stays true: while it has not been recorded nobody publishes.
LEMMA ReportsStep ==
  ASSUME RInv, [Next]_vars
  PROVE  ReportsTrue'
  <1> SUFFICES ASSUME NEW g \in Hosts, NEW q \in Plans
               PROVE  ReportTrue(g, q)'
    BY DEF ReportsTrue
  <1> USE DEF ReportTrue, TruthfulOutcome, ReadOnly
  <1>0. TypeOK /\ LockHeld /\ TaskLive /\ ReportTrue(g, q) /\ Effect(q)
    BY DEF RInv, IInv, ReportsTrue
  <1>1. CASE task'[g][q] = task[g][q] /\ published'[q] = published[q]
    BY <1>0, <1>1
  <1>2. CASE QuietStep
    BY <1>1, <1>2 DEF QuietStep
  <1>3. ASSUME NEW h \in Hosts, StartRuntime(h)
        PROVE  ReportTrue(g, q)'
    BY <1>1, <1>3 DEF StartRuntime
  <1>4. ASSUME NEW h \in Hosts, ExitStep(h)
        PROVE  ReportTrue(g, q)'
    <2>1. published' = published /\ (task'[g][q] = task[g][q] \/ task'[g][q] = Idle)
      BY <1>0, <1>4 DEF ExitStep, Forget, TypeOK
    <2> QED BY <1>1, <2>1 DEF Idle
  <1>5. ASSUME NEW h \in Hosts, NEW p \in Plans, InterruptOperation(h, p)
        PROVE  ReportTrue(g, q)'
    BY <1>1, <1>5 DEF InterruptOperation
  <1>6. ASSUME NEW h \in Hosts, NEW p \in Plans, NEW ph \in Phases, NEW limit,
               Claim(h, p, ph, limit), published' = published
        PROVE  ReportTrue(g, q)'
    <2> DEFINE t == [phase |-> ph, attempt |-> Attempts(p, ph) + 1, generation |-> fence[h],
                     done |-> 0, outcome |-> "pending"]
    <2>1. task'[g][q] = IF g = h /\ q = p THEN t ELSE task[g][q]
      BY <1>0, <1>6, ClaimTask
    <2>2. t.outcome = "pending"
      OBVIOUS
    <2> HIDE DEF t
    <2> QED BY <1>1, <1>6, <2>1, <2>2
  <1>7. ASSUME NEW h \in Hosts, NEW p \in Plans, ClaimExecute(h, p) \/ ClaimReconcile(h, p)
        PROVE  ReportTrue(g, q)'
    BY <1>6, <1>7 DEF ClaimExecute, ClaimReconcile, Phases
  <1>8. ASSUME NEW h \in Hosts, NEW p \in Plans, PublishMember(h, p)
        PROVE  ReportTrue(g, q)'
    <2> DEFINE t == [task[h][p] EXCEPT !.done = task[h][p].done + 1]
    <2>1. task[h][p] \in Task /\ t \in Task
      BY <1>0, TaskUpdateType DEF TypeOK
    <2>2. /\ task' = SetTask(h, p, t) /\ task[h][p].phase = "execute"
          /\ task[h][p].outcome = "pending"
          /\ published' = [published EXCEPT ![p] = published[p] + 1]
      BY <1>8 DEF PublishMember
    <2>3. t.outcome = "pending"
      BY <2>1, <2>2 DEF Task
    <2> HIDE DEF t
    <2>4. task'[g][q] = IF g = h /\ q = p THEN t ELSE task[g][q]
      BY <1>0, <2>1, <2>2, OneTask
    <2>5. CASE q # p
      BY <1>0, <1>1, <2>2, <2>4, <2>5 DEF TypeOK
    <2>6. CASE q = p /\ g = h
      BY <2>4, <2>6, <2>3
    <2>7. CASE q = p /\ g # h
      <3>1. task'[g][q].phase = "idle"
        BY <1>0, <2>2, <2>4, <2>7, OneCaller
      <3> QED BY <3>1
    <2> QED BY <2>5, <2>6, <2>7
  <1>9. ASSUME NEW h \in Hosts, NEW p \in Plans, NEW o \in Outcomes,
               ExecuteSettles(h, p, o) \/ ReconcileSettles(h, p, o)
        PROVE  ReportTrue(g, q)'
    <2> DEFINE t == [task[h][p] EXCEPT !.outcome = o]
    <2>1. task[h][p] \in Task /\ t \in Task
      BY <1>0, TaskUpdateType DEF TypeOK
    <2>2. task' = SetTask(h, p, t) /\ published' = published
      BY <1>9 DEF ExecuteSettles, ReconcileSettles
    <2>3. t.outcome = o
      BY <2>1 DEF Task
    <2> HIDE DEF t
    <2>4. task'[g][q] = IF g = h /\ q = p THEN t ELSE task[g][q]
      BY <1>0, <2>1, <2>2, OneTask
    <2>5. CASE g = h /\ q = p
      <3>1. TruthfulOutcome(q, published[q], o)
        BY <1>0, <1>9, <2>5 DEF ExecuteSettles, ReconcileSettles, Effect
      <3> QED BY <2>2, <2>4, <2>5, <2>3, <3>1
    <2>6. CASE ~(g = h /\ q = p)
      BY <1>1, <2>2, <2>4, <2>6
    <2> QED BY <2>5, <2>6
  <1>10. ASSUME NEW h \in Hosts, NEW p \in Plans, CompleteOperation(h, p) \/ CompletionLost(h, p)
         PROVE  ReportTrue(g, q)'
    <2>1. task' = SetTask(h, p, Idle) /\ published' = published
      BY <1>10 DEF CompleteOperation, CompletionLost
    <2>2. task'[g][q] = Idle \/ task'[g][q] = task[g][q]
      BY <1>0, <2>1, OneTask, IdleType
    <2> QED BY <1>1, <2>1, <2>2 DEF Idle
  <1> QED BY <1>0, <1>2, <1>3, <1>4, <1>5, <1>7, <1>8, <1>9, <1>10, StepCases

\* The reliable invariant is kept by every step.
LEMMA RStep == ~LockMayBeLost /\ RInv /\ [Next]_vars => RInv'
  BY InvStep, LockStep, TaskLiveStep, ReportsStep DEF RInv, IInv

\* Without a lost lock, RInv holds in every reachable state.
LEMMA ReliableInvariance ==
  ASSUME ~LockMayBeLost
  PROVE  Spec => []RInv
  <1>1. RInv /\ [Next]_vars => RInv'
    BY RStep
  <1> QED BY <1>1, RInit, PTL DEF Spec

-----------------------------------------------------------------------------
(* The contract *)

\* One route moves and nothing is published: the stage of that plan moves and no other.
LEMMA StageMove ==
  ASSUME TypeOK, NEW p \in Plans, NEW from, NEW to, StageOf(p) = from, StageOf(p)' = to,
         \A q \in Plans \ {p} : routeState'[q] = routeState[q], published' = published
  PROVE  Contract!Move(p, from, to)
  <1>1. \A q \in Plans \ {p} : StageOf(q)' = StageOf(q)
    BY DEF StageOf
  <1> QED BY <1>1 DEF Contract!Move

\* A step that moves no stage and publishes nothing is a stutter of the contract.
LEMMA StageStutter ==
  ASSUME \A q \in Plans : StageOf(q)' = StageOf(q), published' = published
  PROVE  UNCHANGED Contract!contractVars
  BY DEF Contract!contractVars

\* Planning and deciding.
LEMMA ProposeStep ==
  ASSUME RInv, NEW h \in Hosts, NEW p \in Plans, PlanRoute(h, p) \/ ApplyApproval(h, p)
  PROVE  Contract!Propose(p) \/ Contract!Decide(p)
  <1>0. TypeOK
    BY DEF RInv, IInv
  <1>1. CASE PlanRoute(h, p)
    <2>1. /\ routeState[p] = "absent" /\ routeState'[p] = InitialState(p) /\ published' = published
          /\ \A q \in Plans \ {p} : routeState'[q] = routeState[q]
      BY <1>0, <1>1 DEF PlanRoute, TypeOK
    <2>2. Decision(p) \in {"deny", "require_approval", "allow"}
      BY DecisionType DEF Decisions
    <2>3. StageOf(p) = "absent"
      BY <2>1 DEF StageOf, StageOfState
    <2>4. CASE Decision(p) = "deny"
      <3>1. StageOf(p)' = "refused"
        BY <2>1, <2>4 DEF InitialState, StageOf, StageOfState
      <3> QED BY <1>0, <2>1, <2>3, <3>1, StageMove DEF Contract!Propose
    <2>5. CASE Decision(p) = "require_approval"
      <3>1. StageOf(p)' = "waiting"
        BY <2>1, <2>5 DEF InitialState, StageOf, StageOfState
      <3> QED BY <1>0, <2>1, <2>3, <3>1, StageMove DEF Contract!Propose
    <2>6. CASE Decision(p) = "allow"
      <3>1. StageOf(p)' = "authorised"
        BY <2>1, <2>6 DEF InitialState, StageOf, StageOfState
      <3>2. p \notin {q \in Plans : ~ReadOnly(q)}
        BY <2>6, AllowedIsReadOnly
      <3> QED BY <1>0, <2>1, <2>3, <3>1, <3>2, StageMove DEF Contract!Propose
    <2> QED BY <2>2, <2>4, <2>5, <2>6
  <1>2. CASE ApplyApproval(h, p)
    <2> DEFINE target == IF approval[p] = "approved" THEN "ready" ELSE "denied"
    <2>1. Transition(p, {"pending_approval"}, target) /\ published' = published
      BY <1>2 DEF ApplyApproval
    <2>2. /\ routeState[p] = "pending_approval" /\ routeState'[p] \in {"ready", "denied"}
          /\ \A q \in Plans \ {p} : routeState'[q] = routeState[q]
      BY <1>0, <2>1, TransitionEffect
    <2>3. StageOf(p) = "waiting" /\ StageOf(p)' \in {"authorised", "refused"}
      BY <2>2 DEF StageOf, StageOfState
    <2> QED BY <1>0, <2>1, <2>2, <2>3, StageMove DEF Contract!Decide
  <1> QED BY <1>1, <1>2

\* Starting an effect: the claim of the execution, and nothing else.
LEMMA StartStep ==
  ASSUME RInv, NEW h \in Hosts, NEW p \in Plans, ClaimExecute(h, p)
  PROVE  Contract!Start(p)
  <1>0. TypeOK
    BY DEF RInv, IInv
  <1>1. Transition(p, {"ready"}, "running") /\ published' = published
    BY DEF ClaimExecute, Claim, ActiveState
  <1>2. /\ routeState[p] = "ready" /\ routeState'[p] = "running"
        /\ \A q \in Plans \ {p} : routeState'[q] = routeState[q]
    BY <1>0, <1>1, TransitionEffect
  <1>3. StageOf(p) = "authorised" /\ StageOf(p)' = "started"
    BY <1>2 DEF StageOf, StageOfState
  <1> QED BY <1>0, <1>1, <1>2, <1>3, StageMove DEF Contract!Start

\* A member is published while the action is started.
LEMMA PublishStep ==
  ASSUME RInv, NEW h \in Hosts, NEW p \in Plans, PublishMember(h, p)
  PROVE  Contract!Publish(p)
  <1>0. TypeOK /\ TaskLive /\ Effect(p)
    BY DEF RInv, IInv
  <1>1. /\ task[h][p].phase = "execute" /\ task[h][p].done < Members /\ ~ReadOnly(p)
        /\ published' = [published EXCEPT ![p] = published[p] + 1] /\ routeState' = routeState
    BY DEF PublishMember, audit
  <1>2. routeState[p] = "running" /\ published[p] < Members
    BY <1>0, <1>1 DEF TaskLive, LiveTask, ActiveState, Effect
  <1>3. StageOf(p) = "started" /\ \A q \in Plans : StageOf(q)' = StageOf(q)
    BY <1>1, <1>2 DEF StageOf, StageOfState
  <1> QED BY <1>1, <1>2, <1>3 DEF Contract!Publish

\* Settling an effect: completed by its call, or handed over.
LEMMA SettleStep ==
  ASSUME RInv, NEW h \in Hosts, NEW p \in Plans, ReconcileManually(h, p) \/ CompleteOperation(h, p)
  PROVE  Contract!Settle(p) \/ UNCHANGED Contract!contractVars
  <1>0. TypeOK /\ ReportTrue(h, p)
    BY DEF RInv, IInv, ReportsTrue
  <1>1. CASE ReconcileManually(h, p)
    <2>1. Transition(p, {"unknown"}, "manual_intervention") /\ published' = published
      BY <1>1 DEF ReconcileManually
    <2>2. /\ routeState[p] = "unknown" /\ routeState'[p] = "manual_intervention"
          /\ \A q \in Plans \ {p} : routeState'[q] = routeState[q]
      BY <1>0, <2>1, TransitionEffect
    <2>3. StageOf(p) = "started" /\ StageOf(p)' = "handed_over"
      BY <2>2 DEF StageOf, StageOfState
    <2> QED BY <1>0, <2>1, <2>2, <2>3, StageMove DEF Contract!Settle
  <1>2. CASE CompleteOperation(h, p)
    <2> DEFINE o == task[h][p].outcome
    <2>1. /\ Transition(p, {ActiveState(task[h][p].phase)}, o) /\ published' = published
          /\ task[h][p].phase # "idle" /\ o # "pending"
      BY <1>2 DEF CompleteOperation
    <2>2. /\ routeState[p] \in {"running", "reconciling"} /\ routeState'[p] = o
          /\ o \in AllowedTransitions[routeState[p]]
          /\ \A q \in Plans \ {p} : routeState'[q] = routeState[q]
      BY <1>0, <2>1, TransitionEffect DEF ActiveState
    <2>3. o \in {"succeeded", "failed", "unknown", "manual_intervention"}
      BY <2>2 DEF AllowedTransitions
    <2>4. StageOf(p) = "started"
      BY <2>2 DEF StageOf, StageOfState
    <2>5. TruthfulOutcome(p, published[p], o)
      BY <1>0, <2>1 DEF ReportTrue
    <2> HIDE DEF o
    <2>6. CASE o = "succeeded"
      <3>1. StageOf(p)' = "applied"
        BY <2>2, <2>6 DEF StageOf, StageOfState
      <3>2. p \in {q \in Plans : ~ReadOnly(q)} => published[p] = Members
        BY <2>5, <2>6 DEF TruthfulOutcome
      <3> QED BY <1>0, <2>1, <2>2, <2>4, <3>1, <3>2, StageMove DEF Contract!Settle
    <2>7. CASE o = "failed"
      <3>1. StageOf(p)' = "not_applied"
        BY <2>2, <2>7 DEF StageOf, StageOfState
      <3>2. p \in {q \in Plans : ~ReadOnly(q)} => published[p] = 0
        BY <2>5, <2>7 DEF TruthfulOutcome
      <3> QED BY <1>0, <2>1, <2>2, <2>4, <3>1, <3>2, StageMove DEF Contract!Settle
    <2>8. CASE o = "manual_intervention"
      <3>1. StageOf(p)' = "handed_over"
        BY <2>2, <2>8 DEF StageOf, StageOfState
      <3> QED BY <1>0, <2>1, <2>2, <2>4, <3>1, StageMove DEF Contract!Settle
    <2>9. CASE o = "unknown"
      <3>1. \A q \in Plans : StageOf(q)' = StageOf(q)
        BY <2>2, <2>4, <2>9 DEF StageOf, StageOfState
      <3> QED BY <2>1, <3>1, StageStutter
    <2> QED BY <2>3, <2>6, <2>7, <2>8, <2>9
  <1> QED BY <1>1, <1>2

\* Interrupting and claiming a reconciliation leave the action started.
LEMMA StartedStutter ==
  ASSUME RInv, NEW h \in Hosts, NEW p \in Plans, InterruptOperation(h, p) \/ ClaimReconcile(h, p)
  PROVE  UNCHANGED Contract!contractVars
  <1>0. TypeOK
    BY DEF RInv, IInv
  <1>1. published' = published
    BY DEF InterruptOperation, ClaimReconcile
  <1>2. PICK expected, target :
           /\ Transition(p, expected, target)
           /\ expected \subseteq {"running", "unknown", "reconciling"}
           /\ target \in {"unknown", "reconciling"}
    <2>1. CASE InterruptOperation(h, p)
      BY <2>1 DEF InterruptOperation, ActiveState
    <2>2. CASE ClaimReconcile(h, p)
      BY <2>2 DEF ClaimReconcile, Claim, ActiveState
    <2> QED BY <2>1, <2>2
  <1>3. /\ routeState[p] \in {"running", "unknown", "reconciling"}
        /\ routeState'[p] \in {"unknown", "reconciling"}
        /\ \A q \in Plans \ {p} : routeState'[q] = routeState[q]
    BY <1>0, <1>2, TransitionEffect
  <1>4. \A q \in Plans : StageOf(q)' = StageOf(q)
    BY <1>3 DEF StageOf, StageOfState
  <1> QED BY <1>1, <1>4, StageStutter

\* Every step of the router is a step of the contract or a stutter.
LEMMA ContractStep ==
  ASSUME RInv, [Next]_vars
  PROVE  [Contract!ContractNext]_Contract!contractVars
  <1> USE DEF audit
  <1>1. CASE UNCHANGED <<routeState, published>>
    <2>1. \A q \in Plans : StageOf(q)' = StageOf(q)
      BY <1>1 DEF StageOf
    <2> QED BY <1>1, <2>1, StageStutter
  <1>2. ASSUME NEW h \in Hosts, Startup(h)
        PROVE  UNCHANGED <<routeState, published>> \/ \E p \in Plans : InterruptOperation(h, p)
    BY <1>2 DEF Startup, StartRuntime, FinishScan, FinishInterrupts, RecoveryFails, OpenRuntime,
       RepairExecutionPlan, RecoverInterrupted
  <1>3. ASSUME NEW h \in Hosts, NEW p \in Plans, Request(h, p)
        PROVE  \/ UNCHANGED <<routeState, published>> \/ PlanRoute(h, p) \/ ApplyApproval(h, p)
               \/ ClaimExecute(h, p) \/ InterruptOperation(h, p)
    BY <1>3 DEF Request, PlanExecution, RecordApproval, GatewayInterrupts
  <1>4. ASSUME NEW h \in Hosts, NEW p \in Plans,
               Reconcile(h, p) \/ ExecutorCall(h, p) \/ Completion(h, p)
        PROVE  \/ UNCHANGED <<routeState, published>> \/ ReconcileManually(h, p)
               \/ ClaimReconcile(h, p) \/ CompleteOperation(h, p) \/ PublishMember(h, p)
    BY <1>4 DEF Reconcile, ExecutorCall, ExecuteSettles, ReconcileSettles, Completion,
       CompletionLost
  <1>5. CASE LockFileReplaced \/ UNCHANGED vars
    BY <1>1, <1>5 DEF LockFileReplaced, vars
  <1>6. ASSUME NEW h \in Hosts, HostExits(h)
        PROVE  UNCHANGED <<routeState, published>>
    BY <1>6 DEF HostExits
  <1>7. ASSUME NEW h \in Hosts, NEW p \in Plans,
               Request(h, p) \/ Reconcile(h, p) \/ ExecutorCall(h, p) \/ Completion(h, p)
        PROVE  \/ UNCHANGED <<routeState, published>>
               \/ UNCHANGED Contract!contractVars
               \/ Contract!Propose(p) \/ Contract!Decide(p) \/ Contract!Start(p)
               \/ Contract!Publish(p) \/ Contract!Settle(p)
    BY <1>3, <1>4, <1>7, ProposeStep, StartStep, PublishStep, SettleStep, StartedStutter
  <1>8. ASSUME NEW h \in Hosts, Startup(h) \/ HostExits(h)
        PROVE  UNCHANGED <<routeState, published>> \/ UNCHANGED Contract!contractVars
    BY <1>2, <1>6, <1>8, StartedStutter
  <1> QED BY <1>1, <1>5, <1>7, <1>8 DEF Next, Contract!ContractNext

\* A router whose lock file is not replaced under it implements the contract of an
\* action, for any number of plans, hosts, members and exits: the two stores, the fence
\* and startup recovery together are worth one action that is authorised, started once
\* and settled once, truthfully.
THEOREM RouterImplementsContract ==
  ASSUME ~LockMayBeLost
  PROVE  Spec => ImplementsContract
  <1>1. Init => Contract!ContractInit
    BY DEF Init, Contract!ContractInit, StageOf, StageOfState
  <1>2. RInv /\ [Next]_vars => [Contract!ContractNext]_Contract!contractVars
    BY ContractStep
  <1> QED BY <1>1, <1>2, ReliableInvariance, PTL DEF Spec, ImplementsContract, Contract!Spec

\* A settled route stays as it is, and so does what it published.
LEMMA ConclusionStep ==
  ASSUME RInv, ConclusionMatchesWorld, [Next]_vars
  PROVE  ConclusionMatchesWorld'
  <1> SUFFICES ASSUME NEW p \in Plans, ~ReadOnly(p)
               PROVE  /\ routeState'[p] = "succeeded" => published'[p] = Members
                      /\ routeState'[p] = "failed" => published'[p] = 0
                      /\ routeState'[p] \in NotStarted => published'[p] = 0
    BY DEF ConclusionMatchesWorld, ReadOnly, NotStarted
  <1>1. routeState'[p] \in NotStarted => published'[p] = 0
    BY InvStep DEF RInv, IInv, Effect
  <1>2. StageOf(p) \in {"applied", "not_applied"} => published[p] =
                              IF StageOf(p) = "applied" THEN Members ELSE 0
    BY DEF ConclusionMatchesWorld, StageOf, StageOfState, RInv, IInv, TypeOK, RouteStates
  <1>3. /\ routeState'[p] = "succeeded" => StageOf(p)' = "applied"
        /\ routeState'[p] = "failed" => StageOf(p)' = "not_applied"
    BY DEF StageOf, StageOfState
  <1>4. StageOf(p)' \in {"applied", "not_applied"} => published'[p] =
                              IF StageOf(p)' = "applied" THEN Members ELSE 0
    <2>1. CASE UNCHANGED Contract!contractVars
      <3>1. /\ [q \in Plans |-> StageOf(q)]'[p] = [q \in Plans |-> StageOf(q)][p]
            /\ published' = published
        BY <2>1 DEF Contract!contractVars
      <3>2. StageOf(p)' = StageOf(p)
        BY <3>1
      <3> QED BY <1>2, <3>1, <3>2
    <2>2. ASSUME NEW q \in Plans,
                 \/ Contract!Propose(q) \/ Contract!Decide(q) \/ Contract!Start(q)
                 \/ Contract!Publish(q) \/ Contract!Settle(q)
          PROVE  StageOf(p)' \in {"applied", "not_applied"} => published'[p] =
                              IF StageOf(p)' = "applied" THEN Members ELSE 0
      <3>1. ASSUME NEW from, NEW to, Contract!Move(q, from, to)
            PROVE  StageOf(p)' = (IF p = q THEN to ELSE StageOf(p)) /\ published' = published
        BY <3>1 DEF Contract!Move
      <3>2. CASE Contract!Propose(q) \/ Contract!Decide(q) \/ Contract!Start(q)
        <4>1. PICK from, to : /\ Contract!Move(q, from, to)
                              /\ to \in {"waiting", "refused", "authorised", "started"}
          BY <3>2 DEF Contract!Propose, Contract!Decide, Contract!Start
        <4> QED BY <1>2, <3>1, <4>1
      <3>3. CASE Contract!Publish(q)
        <4>1. /\ StageOf(p)' = StageOf(p)
              /\ StageOf(q) = "started"
              /\ published' = [published EXCEPT ![q] = @ + 1]
          BY <3>3 DEF Contract!Publish
        <4> QED BY <1>2, <4>1 DEF RInv, IInv, TypeOK
      <3>4. CASE Contract!Settle(q)
        <4>1. p = q => p \in {r \in Plans : ~ReadOnly(r)}
          OBVIOUS
        <4>2. PICK from, to :
                 /\ Contract!Move(q, from, to)
                 /\ \/ to = "applied" /\ (p = q => published[q] = Members)
                    \/ to = "not_applied" /\ (p = q => published[q] = 0)
                    \/ to = "handed_over"
          BY <3>4, <4>1 DEF Contract!Settle
        <4> QED BY <1>2, <3>1, <4>2
      <3> QED BY <2>2, <3>2, <3>3, <3>4
    <2> QED BY <2>1, <2>2, ContractStep DEF Contract!ContractNext
  <1> QED BY <1>1, <1>3, <1>4

\* Without a lost lock a settled route tells what happened: a write that succeeded is
\* published completely, one that failed, was denied or did not start not at all.
THEOREM ConclusionsAreTrue ==
  ASSUME ~LockMayBeLost
  PROVE  Spec => []ConclusionMatchesWorld
  <1>1. Init => ConclusionMatchesWorld
    BY DEF Init, ConclusionMatchesWorld
  <1>2. RInv /\ ConclusionMatchesWorld /\ [Next]_vars => ConclusionMatchesWorld'
    BY ConclusionStep
  <1> QED BY <1>1, <1>2, ReliableInvariance, PTL DEF Spec
=============================================================================
