----------------------------- MODULE AgentTurn -----------------------------
(***************************************************************************)
(* The agent runtime on one thread (agent/runtime.py): a turn alternates    *)
(* model steps and tool calls until the model has nothing left to call.     *)
(*                                                                          *)
(* Three things work on a turn.  The session ledger is written under the     *)
(* lock of the thread, one checked batch of events at a time.  The router's  *)
(* ledger, which alone decides whether an action may run, is written before  *)
(* the session and never in one transaction with it.  The task that drives   *)
(* the turn is volatile: it may be cancelled, time out, fail or die with its *)
(* host between any two writes.                                              *)
(*                                                                          *)
(* One step is one append to the session, one write of the router or one     *)
(* call of a tool.  The router is the one of module TrustedActions, reduced  *)
(* to the states the agent gateway tells apart.                              *)
(***************************************************************************)
EXTENDS Naturals, Sequences, FiniteSets

CONSTANTS
    MaxTurns,       \* bound of the model: turns of the thread
    MaxFresh,       \* bound of the model: those that are not a retry
    MaxSteps,       \* budget.max_steps
    MaxAttempts,    \* requests the provider makes for one model step
    MaxParallelTools, \* max_parallel_tools
    Prompt,         \* the user message that starts a turn
    Steers,         \* user messages sent to a running turn (by request id)
    Responses,      \* sequences of calls the model may answer with
    MaxFaults,      \* bound of the model: crashes, closings and storage errors
    Cancels,        \* TRUE: users cancel turns and close the runtime
    Expires,        \* TRUE: the time budget of a turn may run out
    Failures,       \* TRUE: providers and tools may raise
    Retries         \* TRUE: users retry turns and archive the thread

Kinds == {"read", "guarded", "ask", "query", "action", "write", "rejected"}

ASSUME BoundsAssumption == /\ MaxTurns \in Nat \ {0} /\ MaxFresh \in Nat /\ MaxSteps \in Nat \ {0}
                           /\ MaxAttempts \in Nat \ {0} /\ MaxFaults \in Nat
                           /\ MaxParallelTools \in Nat \ {0}
ASSUME InputsAssumption == Prompt \notin Steers /\ Responses \subseteq Seq(Kinds)
ASSUME SwitchAssumption == {Cancels, Expires, Failures, Retries} \subseteq BOOLEAN

VARIABLES
    turns,      \* Seq(Turn): the session ledger; only the last turn can be open
    routes,     \* Seq(Seq(Route)): the router's ledger, by turn and call
    driver,     \* the task at work on the last turn
    reply,      \* an approval being answered; it holds the lock of the thread
    host,       \* the runtime: "down", "recovering", "open" or "closing"
    archived,   \* the thread is read-only
    faults      \* Nat

vars == <<turns, routes, driver, reply, host, archived, faults>>

-----------------------------------------------------------------------------
(* States and types *)

Terminal  == {"completed", "failed", "cancelled", "interrupted"}
Statuses  == {"accepted", "preparing_context", "calling_model", "executing_tools",
              "waiting_approval", "waiting_input", "finalizing", "cancelling"} \cup Terminal
Steerable == {"accepted", "preparing_context", "calling_model", "executing_tools",
              "waiting_approval", "waiting_input"}
Decisions == {"approved", "rejected"}
Outcomes  == {"succeeded", "failed", "cancelled", "unknown"}
Inputs    == {Prompt} \cup Steers

\* ToolResultContent; "origin" is the one of its trusted_action effect, if it has one.
NoResult == [outcome |-> "none", origin |-> "none"]
Result   == {NoResult} \cup [outcome : Outcomes, origin : {"none", "execution", "recovery"}]

\* A tool call with its approval or question ("gate") and its result.
Call == [kind : Kinds, step : 1..MaxSteps, result : Result,
         gate : {"none", "started", "closed", "asked", "answered"} \cup Decisions]

Turn == [status : Statuses, mode : {"immediate", "deferred"}, retryOf : 0..MaxTurns,
         steps : 0..MaxSteps,
         inputs : SUBSET Inputs,    \* user messages accepted so far
         history : SUBSET Inputs,   \* those in the history of the last model step
         attempt : {"none", "running", "failed", "overflow", "completed", "closed"},
         attempts : 0..MaxAttempts,
         calls : Seq(Call),
         expired : BOOLEAN]

\* The route of an action; "effects" counts what its executor did to the world.
RouteStates == {"none", "pending_approval", "ready", "running", "unknown", "succeeded",
                "failed", "denied", "manual_intervention"}
Route   == [state : RouteStates, checkpoint : {"none", "system_cancel"} \cup Decisions,
            effects : Nat]
NoRoute == [state |-> "none", checkpoint |-> "none", effects |-> 0]

\* What the task does next; "view" is the history it prepared, "response" what the
\* provider proposed, "group" how many results of a parallel group it has yet to record,
\* "result" the result it holds, "goal" the status it settles for.
Places == {"idle", "sync", "start", "loop", "view", "commit", "context", "sample", "group",
           "close", "schedule", "calls", "serial", "prepare", "request", "execute", "running",
           "record", "unwind", "finish", "settle", "recover"}
Driver == [pc : Places, task : {"turn", "recovery"}, token : BOOLEAN, view : SUBSET Inputs,
           response : Seq(Kinds), group : Nat, result : Result, goal : Terminal]
NoDriver == [pc |-> "idle", task |-> "turn", token |-> FALSE, view |-> {},
             response |-> <<>>, group |-> 0, result |-> NoResult, goal |-> "failed"]

Reply   == [pc : {"idle", "route", "append"}, decision : Decisions]
NoReply == [pc |-> "idle", decision |-> "approved"]

TypeOK ==
    /\ turns \in Seq(Turn) /\ Len(turns) <= MaxTurns
    /\ routes \in Seq(Seq(Route)) /\ Len(routes) = Len(turns)
    /\ \A k \in DOMAIN turns : Len(routes[k]) = Len(turns[k].calls)
    /\ driver \in Driver /\ reply \in Reply
    /\ host \in {"down", "recovering", "open", "closing"}
    /\ archived \in BOOLEAN /\ faults \in 0..MaxFaults

-----------------------------------------------------------------------------
(* Helpers *)

last    == Len(turns)
turn    == turns[last]
Active  == turns # <<>> /\ turn.status \notin Terminal

\* pending_calls, in the order of the model
Pending(tn) == {i \in DOMAIN tn.calls : tn.calls[i].result = NoResult}
First(tn)   == CHOOSE i \in Pending(tn) : \A j \in Pending(tn) : i <= j
first       == First(turn)

ReadOnly(kind)      == kind \in {"read", "guarded", "ask", "query"}
Owned(kind)         == kind \in {"query", "action"}
NeedsApproval(kind) == kind \in {"guarded", "action"}

\* The lock of the thread; a task inside _finish and an answer in progress hold it.
LockFree == driver.pc # "settle" /\ reply.pc = "idle"
Idle     == driver.pc = "idle"

At(pc) == driver.pc = pc /\ reply.pc = "idle"

SetStatus(s) == turns' = [turns EXCEPT ![last].status = s]
SetResult(i, r) == [turn EXCEPT !.calls[i].result = r]

\* token.checkpoint: a cancelled task goes on only as far as the next one.
Proceed(d, pc) == driver' = [d EXCEPT !.pc = IF d.token THEN "unwind" ELSE pc]
Goto(pc)       == Proceed(driver, pc) /\ UNCHANGED host

\* The task returns to its caller; a recovery thereby opens the runtime.
Return ==
    /\ driver' = IF driver.token THEN [driver EXCEPT !.pc = "unwind"] ELSE NoDriver
    /\ host' = IF driver.task = "recovery" THEN "open" ELSE host

\* An exception: _continue settles the turn, __aenter__ lets it pass and releases the store.
Throw ==
    \/ /\ driver.task = "turn"
       /\ Proceed([driver EXCEPT !.goal = "failed", !.result = NoResult], "finish")
       /\ UNCHANGED host
    \/ /\ driver.task = "recovery"
       /\ driver' = NoDriver
       /\ host' = "down"

\* The status an exception leaves to _finish when the time budget is spent.
Settling(goal) == [driver EXCEPT !.pc = "finish", !.goal = goal, !.result = NoResult]

\* result_resume_safe
ResumeSafe(tn) ==
    \/ \E i \in DOMAIN tn.calls : tn.calls[i].gate = "answered"
    \/ /\ Pending(tn) = {}
       /\ \E i \in DOMAIN tn.calls : tn.calls[i].result.origin # "none"

\* What the reducer accepts as the result of the first pending call (_start_item,
\* validate_trusted_action_effect).
Acceptable(tn, c, r) ==
    /\ r.origin # "none" => /\ c.gate \in {"none"} \cup Decisions
                            /\ r.origin = "recovery" \/ tn.status = "executing_tools"
    /\ r.outcome = "succeeded" => /\ tn.status = "executing_tools" \/ r.origin = "recovery"
                                  /\ NeedsApproval(c.kind) => c.gate = "approved"

\* The state a decision gives a pending route.
Decided(checkpoint) == IF checkpoint = "approved" THEN "ready" ELSE "denied"

\* Mutant: a reconciliation that takes what has no recorded result for a failure.
ReconciledFails(kind, r) == {"manual_intervention", "failed"}

\* What an executor, and what a reconciliation, may conclude without being wrong.  A
\* query has no effect to be wrong about, and no reconciliation.
Truth(r)            == {"unknown", IF r.effects = 0 THEN "failed" ELSE "succeeded"}
Concluded(kind, r)  == IF kind = "query" THEN {"succeeded", "failed"} ELSE Truth(r)
Reconciled(kind, r) == {"manual_intervention"} \cup (IF kind = "query" THEN {} ELSE Truth(r))

\* build_result: a route as a tool result.
Projection(state, origin) ==
    [outcome |-> CASE state \in {"succeeded", "unknown"} -> state
                   [] state = "manual_intervention" -> "unknown"
                   [] OTHER -> "failed",
     origin  |-> origin]

-----------------------------------------------------------------------------
(* Commands of the user *)

NewTurn(mode, source) ==
    [status |-> "accepted", mode |-> mode, retryOf |-> source, steps |-> 0,
     inputs |-> {Prompt}, history |-> {}, attempt |-> "none", attempts |-> 0,
     calls |-> <<>>, expired |-> FALSE]

\* Mutant: a retry that only asks whether the turn failed.
RetryableAnyway(tn) == tn.status \in Terminal \ {"completed"}

\* What _accept demands of the turn a retry starts from.
Retryable(tn) ==
    /\ tn.status \in Terminal \ {"completed"}
    /\ \A i \in DOMAIN tn.calls : tn.calls[i].result.outcome # "unknown"

\* _accept: run_turn and retry_turn go on with it, accept_turn and accept_retry_turn only
\* store it.  A request that was accepted before changes nothing.
Accept(mode, source) ==
    /\ host = "open" /\ LockFree /\ Idle /\ ~archived /\ ~Active
    /\ last < MaxTurns
    /\ IF source = 0 THEN Cardinality({k \in DOMAIN turns : turns[k].retryOf = 0}) < MaxFresh
       ELSE Retries /\ source = last /\ Retryable(turn)
    /\ turns' = Append(turns, NewTurn(mode, source))
    /\ routes' = Append(routes, <<>>)
    /\ driver' = [NoDriver EXCEPT !.pc = IF mode = "immediate" THEN "start" ELSE "idle"]
    /\ UNCHANGED <<reply, host, archived, faults>>

\* resume_turn: the app server calls it after every command and on thread/resume.
Resume ==
    /\ host = "open" /\ LockFree /\ Idle /\ Active
    /\ \/ /\ \/ turn.status \in {"accepted", "waiting_approval"}
             \/ turn.status = "executing_tools" /\ ResumeSafe(turn)
          /\ driver' = [NoDriver EXCEPT !.pc = "sync"]
       \/ /\ turn.status = "waiting_input" /\ turn.expired
          /\ driver' = [NoDriver EXCEPT !.pc = "finish"]
    /\ UNCHANGED <<turns, routes, reply, host, archived, faults>>

\* Mutant: steering that looks at the thread and not at the state of its turn.
SteerLate(m) ==
    /\ host = "open" /\ LockFree /\ turns # <<>> /\ m \notin turn.inputs
    /\ turns' = [turns EXCEPT ![last].inputs = @ \cup {m}]
    /\ UNCHANGED <<routes, driver, reply, host, archived, faults>>

\* steer_turn: the message is stored whatever the task is doing.
Steer(m) ==
    /\ host = "open" /\ LockFree /\ Active
    /\ turn.status \in Steerable /\ m \notin turn.inputs
    /\ turns' = [turns EXCEPT ![last].inputs = @ \cup {m}]
    /\ UNCHANGED <<routes, driver, reply, host, archived, faults>>

\* cancel: the intention is stored first; a task at work is told to stop and settles the
\* turn itself, otherwise the caller does.
Cancel ==
    /\ Cancels /\ host = "open" /\ LockFree /\ Active
    /\ SetStatus("cancelling")
    /\ driver' = IF Idle THEN [NoDriver EXCEPT !.pc = "finish", !.goal = "cancelled"]
                 ELSE [driver EXCEPT !.token = TRUE]
    /\ UNCHANGED <<routes, reply, host, archived, faults>>

\* reply_question: question, answer and result are one append.
ReplyQuestion ==
    /\ host = "open" /\ LockFree /\ Active
    /\ turn.status = "waiting_input" /\ ~turn.expired
    /\ turns' = [turns EXCEPT ![last].status = "executing_tools",
                              ![last].calls[first] =
                                  [@ EXCEPT !.gate = "answered",
                                            !.result = [outcome |-> "succeeded", origin |-> "none"]]]
    /\ UNCHANGED <<routes, driver, reply, host, archived, faults>>

\* An approval that waits for a person and still may be answered.
Answerable ==
    /\ host = "open" /\ LockFree /\ Active
    /\ turn.status = "waiting_approval" /\ ~turn.expired
    /\ turn.calls[first].gate = "started"

\* reply_approval of a read that needs one: one append.
ReplyGuarded(d) ==
    /\ Answerable /\ turn.calls[first].kind = "guarded"
    /\ turns' = [turns EXCEPT ![last].calls[first].gate = d]
    /\ UNCHANGED <<routes, driver, reply, host, archived, faults>>

\* Mutant: an answer that overwrites the one the router already has.
ReplyCheckpointAnyway(d) ==
    /\ Answerable /\ turn.calls[first].kind = "action"
    /\ routes' = [routes EXCEPT ![last][first].checkpoint = d]
    /\ reply' = [pc |-> "route", decision |-> d]
    /\ UNCHANGED <<turns, driver, host, archived, faults>>

\* reply_approval of an action (record_action_decision): the router's checkpoint, the
\* router's route and the session, in this order and with the lock held.
ReplyCheckpoint(d) ==
    /\ Answerable /\ turn.calls[first].kind = "action"
    /\ routes[last][first].checkpoint \in {"none", d}
    /\ routes' = [routes EXCEPT ![last][first].checkpoint = d]
    /\ reply' = [pc |-> "route", decision |-> d]
    /\ UNCHANGED <<turns, driver, host, archived, faults>>

ReplyRoute ==
    /\ reply.pc = "route"
    /\ routes' = [routes EXCEPT ![last][first].state =
                      IF @ = "pending_approval" THEN Decided(reply.decision) ELSE @]
    /\ reply' = [reply EXCEPT !.pc = "append"]
    /\ UNCHANGED <<turns, driver, host, archived, faults>>

ReplyAppend ==
    /\ reply.pc = "append"
    /\ turns' = [turns EXCEPT ![last].calls[first].gate = reply.decision]
    /\ reply' = NoReply
    /\ UNCHANGED <<routes, driver, host, archived, faults>>

\* archive_thread
Archive ==
    /\ Retries /\ host = "open" /\ LockFree /\ ~Active /\ ~archived
    /\ archived' = TRUE
    /\ UNCHANGED <<turns, routes, driver, reply, host, faults>>

-----------------------------------------------------------------------------
(* The model loop *)

\* Mutant: a resumed turn that only looks at its own ledger.
SyncOneLedger ==
    LET undecided == turn.status = "waiting_approval" /\ turn.calls[first].gate = "started"
    IN
    /\ At("sync")
    /\ \/ driver.task = "recovery" /\ Return
       \/ driver.task = "turn" /\ undecided /\ driver' = NoDriver /\ UNCHANGED host
       \/ /\ driver.task = "turn" /\ ~undecided
          /\ driver' = [driver EXCEPT !.pc = "start"] /\ UNCHANGED host
    /\ UNCHANGED <<turns, routes, reply, archived, faults>>

\* resume_after_approval and synchronize_waiting_action: a decision the router has and
\* the session lacks is completed in both; the task goes no further then, nor while
\* there is no decision.
Sync ==
    LET undecided == /\ turn.status = "waiting_approval"
                     /\ turn.calls[first].kind = "action" /\ turn.calls[first].gate = "started"
        checkpoint == routes[last][first].checkpoint
        leave == \/ driver.task = "turn" /\ driver' = NoDriver /\ UNCHANGED host
                 \/ /\ driver.task = "recovery"
                    /\ IF turn.expired THEN driver' = Settling("failed") /\ UNCHANGED host ELSE Return
    IN
    /\ At("sync")
    /\ \/ /\ undecided /\ checkpoint # "none"
          /\ routes' = [routes EXCEPT ![last][first].state =
                            IF @ = "pending_approval" THEN Decided(checkpoint) ELSE @]
          /\ turns' = [turns EXCEPT ![last].calls[first].gate = checkpoint]
          /\ leave
       \/ undecided /\ checkpoint = "none" /\ leave /\ UNCHANGED <<turns, routes>>
       \/ ~undecided /\ driver.task = "recovery" /\ leave /\ UNCHANGED <<turns, routes>>
       \/ /\ ~undecided /\ driver.task = "turn"
          /\ driver' = [driver EXCEPT !.pc = "start"]
          /\ UNCHANGED <<turns, routes, host>>
    /\ UNCHANGED <<reply, archived, faults>>

\* _continue
Start ==
    /\ At("start")
    /\ driver' = IF turn.expired THEN Settling("failed") ELSE [driver EXCEPT !.pc = "loop"]
    /\ UNCHANGED <<turns, routes, reply, host, archived, faults>>

\* Mutant: the budget of steps is one too large.
LoopOneMore ==
    /\ At("loop")
    /\ \/ turn.status = "waiting_approval" /\ Goto("calls") /\ UNCHANGED turns
       \/ /\ turn.status \in {"accepted", "executing_tools", "preparing_context"}
          /\ SetStatus("preparing_context")
          /\ IF turn.steps <= MaxSteps THEN Goto("view") ELSE Throw
       \/ turn.status = "cancelling" /\ Throw /\ UNCHANGED turns
    /\ UNCHANGED <<routes, reply, archived, faults>>

\* _drive, top of the loop
Loop ==
    /\ At("loop")
    /\ \/ turn.status = "waiting_approval" /\ Goto("calls") /\ UNCHANGED turns
       \/ /\ turn.status \in {"accepted", "executing_tools", "preparing_context"}
          /\ SetStatus("preparing_context")
          /\ IF turn.steps < MaxSteps THEN Goto("view") ELSE Throw
       \/ turn.status = "cancelling" /\ Throw /\ UNCHANGED turns
    /\ UNCHANGED <<routes, reply, archived, faults>>

\* prepare_and_commit_model_history: the view is prepared without the lock and committed
\* only if it is still the current one.
PrepareView ==
    /\ At("view")
    /\ Proceed([driver EXCEPT !.view = turn.inputs], "commit")
    /\ UNCHANGED <<turns, routes, reply, host, archived, faults>>

CommitHistory ==
    /\ At("commit")
    /\ \/ turn.status = "cancelling" /\ Throw /\ UNCHANGED turns
       \/ /\ turn.status # "cancelling" /\ turn.inputs # driver.view
          /\ Goto("view") /\ UNCHANGED turns
       \/ /\ turn.status # "cancelling" /\ turn.inputs = driver.view
          /\ turns' = [turns EXCEPT ![last].history = driver.view]
          /\ Proceed([driver EXCEPT !.view = {}], "context") /\ UNCHANGED host
    /\ UNCHANGED <<routes, reply, archived, faults>>

\* The step begins once its context is built; the reducer wants every call settled.
CallModel ==
    /\ At("context")
    /\ IF turn.status = "preparing_context" /\ Pending(turn) = {}
       THEN /\ turns' = [turns EXCEPT ![last].status = "calling_model", ![last].steps = @ + 1,
                                      ![last].attempt = "none", ![last].attempts = 0]
            /\ Goto("sample")
       ELSE Throw /\ UNCHANGED turns
    /\ UNCHANGED <<routes, reply, archived, faults>>

\* _sample_events: an attempt is stored before the provider may send its request.
AttemptStarted ==
    /\ At("sample") /\ turn.status = "calling_model"
    /\ turn.attempt \in {"none", "failed"} /\ turn.attempts < MaxAttempts
    /\ turns' = [turns EXCEPT ![last].attempt = "running", ![last].attempts = @ + 1]
    /\ Goto("sample")
    /\ UNCHANGED <<routes, reply, archived, faults>>

AttemptFailed ==
    /\ At("sample") /\ turn.attempt = "running" /\ Failures
    /\ \E outcome \in {"failed", "overflow"} :
           turns' = [turns EXCEPT ![last].attempt = outcome]
    /\ Goto("sample")
    /\ UNCHANGED <<routes, reply, archived, faults>>

\* The context was too large: the model has said nothing, so a compacted history may be
\* tried, if nothing else was added to the history either.
Overflow ==
    /\ At("sample") /\ turn.attempt = "overflow"
    /\ IF turn.status = "calling_model" /\ turn.steps < MaxSteps /\ turn.inputs = turn.history
       THEN SetStatus("preparing_context") /\ Goto("loop")
       ELSE Throw /\ UNCHANGED turns
    /\ UNCHANGED <<routes, reply, archived, faults>>

\* The response is complete: its attempt is closed and its usage recorded.
Respond(r) ==
    /\ At("sample") /\ turn.attempt = "running"
    /\ IF turn.status = "calling_model"
       THEN /\ turns' = [turns EXCEPT ![last].attempt = "completed"]
            /\ Proceed([driver EXCEPT !.response = r], "group") /\ UNCHANGED host
       ELSE Throw /\ UNCHANGED turns
    /\ UNCHANGED <<routes, reply, archived, faults>>

NewCall(kind) ==
    [kind |-> kind, step |-> turn.steps, gate |-> "none",
     result |-> IF kind = "rejected" THEN [outcome |-> "failed", origin |-> "none"]
                ELSE NoResult]

\* The calls of a response become durable together; rejected proposals have a result.
CommitCalls ==
    LET new == [i \in DOMAIN driver.response |-> NewCall(driver.response[i])]
        runnable == \E i \in DOMAIN new : new[i].kind # "rejected"
        next == [driver EXCEPT !.response = <<>>]
    IN
    /\ At("group")
    /\ IF turn.status = "calling_model" \/ new = <<>>
       THEN /\ turns' = [turns EXCEPT ![last].calls = @ \o new]
            /\ routes' = [routes EXCEPT ![last] = @ \o [i \in DOMAIN new |-> NoRoute]]
            /\ Proceed(next, IF runnable THEN "schedule" ELSE "close") /\ UNCHANGED host
       ELSE Throw /\ UNCHANGED <<turns, routes>>
    /\ UNCHANGED <<reply, archived, faults>>

\* Mutant: the step is closed without another look at the messages.
CloseModelStepBlind ==
    /\ At("close")
    /\ IF turn.status = "cancelling" THEN Throw /\ UNCHANGED turns
       ELSE SetStatus("finalizing") /\ driver' = Settling("completed") /\ UNCHANGED host
    /\ UNCHANGED <<routes, reply, archived, faults>>

\* _close_model_step: under the lock, what arrived during the step starts another one.
CloseModelStep ==
    LET steered == turn.inputs # turn.history
        rejected == \E i \in DOMAIN turn.calls :
                        turn.calls[i].kind = "rejected" /\ turn.calls[i].step = turn.steps
    IN
    /\ At("close")
    /\ \/ turn.status = "cancelling" /\ Throw /\ UNCHANGED turns
       \/ /\ turn.status # "cancelling" /\ (steered \/ rejected)
          /\ SetStatus("preparing_context") /\ Goto("loop")
       \/ /\ turn.status # "cancelling" /\ ~(steered \/ rejected)
          /\ SetStatus("finalizing")
          /\ driver' = Settling("completed") /\ UNCHANGED host
    /\ UNCHANGED <<routes, reply, archived, faults>>

Schedule ==
    /\ At("schedule")
    /\ IF turn.status = "calling_model" THEN SetStatus("executing_tools") /\ Goto("calls")
       ELSE Throw /\ UNCHANGED turns
    /\ UNCHANGED <<routes, reply, archived, faults>>

-----------------------------------------------------------------------------
(* Tool calls, one at a time and in the order of the model *)

\* _execute_calls up to the point where a call is planned, executed or has a result; a
\* call that waits for a person ends the task.
Ask ==
    \/ /\ turn.status = "executing_tools"
       /\ turns' = [turns EXCEPT ![last].status = "waiting_input",
                                 ![last].calls[first].gate = "asked"]
       /\ Return
    \/ turn.status # "executing_tools" /\ Throw /\ UNCHANGED turns

\* The approval is requested and the turn waits for it, in one append.
RequestApproval ==
    \/ /\ turn.status = "executing_tools"
       /\ turns' = [turns EXCEPT ![last].status = "waiting_approval",
                                 ![last].calls[first].gate = "started"]
       /\ Return
    \/ turn.status # "executing_tools" /\ Throw /\ UNCHANGED turns

Holding(outcome, origin) ==
    [driver EXCEPT !.result = [outcome |-> outcome, origin |-> origin]]

\* consume_decided_approval
Consume ==
    IF turn.status = "executing_tools" \/ (turn.status = "waiting_approval" /\ ~turn.expired)
    THEN /\ SetStatus("executing_tools")
         /\ IF turn.calls[first].kind = "guarded" /\ turn.calls[first].gate = "rejected"
            THEN Proceed(Holding("failed", "none"), "record") /\ UNCHANGED host
            ELSE Goto("execute")
    ELSE Throw /\ UNCHANGED turns

\* _parallel_read_prefix: reads that may run together, the queries of the gateway among them.
Parallel ==
    {i \in Pending(turn) :
        /\ \A j \in Pending(turn) : j <= i => turn.calls[j].kind \in {"read", "query"}
        /\ Cardinality({j \in Pending(turn) : j < i}) < MaxParallelTools}

\* The group is chosen where _execute_calls begins: without one, the loop of "serial" takes
\* every pending call; after one, _execute_calls begins again.  _execute_tool has no approval
\* to show for a query of the group and raises.
Grouped    == driver.pc = "calls" /\ Cardinality(Parallel) > 1
Mismatched == Grouped /\ \E i \in Parallel : turn.calls[i].kind = "query"

ExecuteCalls ==
    LET c == turn.calls[first]
        grouped == [driver EXCEPT !.group = IF Grouped THEN Cardinality(Parallel) ELSE @]
    IN
    /\ At("calls") \/ At("serial")
    /\ IF Pending(turn) = {}
       THEN /\ IF driver.task = "turn" THEN Goto("loop") ELSE Return
            /\ UNCHANGED turns
       ELSE \/ c.kind = "ask" /\ c.gate = "none" /\ Ask
            \/ c.kind = "guarded" /\ c.gate = "none" /\ RequestApproval
            \/ c.kind = "action" /\ c.gate = "none" /\ Goto("prepare") /\ UNCHANGED turns
            \/ c.gate \in {"asked", "started"} /\ Return /\ UNCHANGED turns
            \/ NeedsApproval(c.kind) /\ c.gate \in Decisions /\ Consume
            \/ c.kind = "query" /\ ~Mismatched /\ Goto("prepare") /\ UNCHANGED turns
            \/ c.kind = "read" /\ ~Mismatched /\ Proceed(grouped, "execute") /\ UNCHANGED <<turns, host>>
            \/ Mismatched /\ Throw /\ UNCHANGED turns
            \/ /\ \/ c.kind = "write"                             \* tool_not_enabled
                  \/ c.kind = "ask" /\ c.gate = "none" /\ Failures  \* tool_invalid_arguments
               /\ Proceed(Holding("failed", "none"), "record") /\ UNCHANGED <<turns, host>>
    /\ UNCHANGED <<routes, reply, archived, faults>>

\* prepare_action of the gateway: the route is created once and found again after a
\* restart; policy sends actions to a person and lets queries run.
Prepare ==
    LET kind == turn.calls[first].kind
        state == routes[last][first].state
        plan(s, next) == /\ state = "none"
                         /\ routes' = [routes EXCEPT ![last][first].state = s]
                         /\ next /\ UNCHANGED host
        found(next) == state # "none" /\ next /\ UNCHANGED <<routes, host>>
    IN
    /\ At("prepare")
    /\ \/ kind = "action" /\ plan("pending_approval", Proceed(driver, "request"))
       \/ Failures /\ plan("denied", Proceed(Holding("failed", "execution"), "record"))
       \/ Failures /\ plan("none", Proceed(Holding("failed", "none"), "record"))
       \/ kind = "query" /\ plan("ready", Proceed(driver, "execute"))
       \/ state = "pending_approval" /\ found(Proceed(driver, "request"))
       \/ state = "ready" /\ found(Proceed(driver, "execute"))
       \/ /\ state \in {"denied", "succeeded", "failed", "unknown", "manual_intervention"}
          /\ found(Proceed([driver EXCEPT !.result = Projection(state, "execution")], "record"))
    /\ UNCHANGED <<turns, reply, archived, faults>>

Request ==
    /\ At("request")
    /\ RequestApproval
    /\ UNCHANGED <<routes, reply, archived, faults>>

\* _execute_tool, and execute_action of the gateway for its own calls: a ready route is
\* claimed before its executor is called, a route in doubt is reconciled, any other is
\* only reported.
Execute ==
    LET c == turn.calls[first]
        r == routes[last][first]
        known == r.state \in {"denied", "succeeded", "failed"}
    IN
    /\ At("execute")
    /\ \/ /\ ~Owned(c.kind)
          /\ \E outcome \in {"succeeded"} \cup (IF Failures THEN {"failed"} ELSE {}) :
                 Proceed(Holding(outcome, "none"), "record")
          /\ UNCHANGED routes
       \/ /\ Owned(c.kind) /\ r.state = "ready"
          /\ routes' = [routes EXCEPT ![last][first].state = "running"]
          /\ driver' = [driver EXCEPT !.pc = "running"]
       \/ /\ Owned(c.kind) /\ r.state # "ready"
          /\ \E s \in IF r.state = "unknown" THEN Reconciled(c.kind, r) ELSE {r.state} :
                 /\ routes' = [routes EXCEPT ![last][first].state = s]
                 /\ Proceed([driver EXCEPT !.result =
                        Projection(s, IF known THEN "execution" ELSE "recovery")], "record")
    /\ UNCHANGED <<turns, reply, host, archived, faults>>

\* The executor of an action changes the world.
TakeEffect ==
    /\ driver.pc = "running" /\ turn.calls[first].kind = "action"
    /\ routes[last][first].effects = 0
    /\ routes' = [routes EXCEPT ![last][first].effects = 1]
    /\ UNCHANGED <<turns, driver, reply, host, archived, faults>>

\* execute_action of the router returns.
Complete ==
    /\ At("running")
    /\ \E s \in Concluded(turn.calls[first].kind, routes[last][first]) :
           /\ routes' = [routes EXCEPT ![last][first].state = s]
           /\ Proceed([driver EXCEPT !.result = Projection(s, "execution")], "record")
    /\ UNCHANGED <<turns, reply, host, archived, faults>>

\* Mutant: a call that was cancelled is reported as failed.
InterruptFails ==
    /\ At("running")
    /\ routes' = [routes EXCEPT ![last][first].state = "failed"]
    /\ \/ driver.token /\ driver' = [driver EXCEPT !.pc = "unwind"]
       \/ ~driver.token /\ turn.expired /\ driver.task = "turn" /\ driver' = Settling("failed")
    /\ UNCHANGED <<turns, reply, host, archived, faults>>

\* token.run or the time budget cancels it: a query failed, of an action nothing is known.
Interrupt ==
    /\ At("running")
    /\ routes' = [routes EXCEPT ![last][first].state =
                      IF ReadOnly(turn.calls[first].kind) THEN "failed" ELSE "unknown"]
    /\ \/ driver.token /\ driver' = [driver EXCEPT !.pc = "unwind"]
       \/ ~driver.token /\ turn.expired /\ driver.task = "turn" /\ driver' = Settling("failed")
    /\ UNCHANGED <<turns, reply, host, archived, faults>>

\* _record_tool_result: an unknown result ends the model loop.
RecordToolResult ==
    LET r == driver.result
        left == IF driver.group = 0 THEN 0 ELSE driver.group - 1
        next == [driver EXCEPT !.result = NoResult, !.group = left]
    IN
    /\ At("record")
    /\ \/ /\ Acceptable(turn, turn.calls[first], r)
          /\ turns' = [turns EXCEPT ![last] = SetResult(first, r)]
          /\ IF r.outcome = "unknown" THEN Throw
             ELSE /\ Proceed(next, IF driver.group = 1 THEN "calls" ELSE "serial")
                  /\ UNCHANGED host
       \/ ~Acceptable(turn, turn.calls[first], r) /\ Throw /\ UNCHANGED turns
    /\ UNCHANGED <<routes, reply, archived, faults>>

-----------------------------------------------------------------------------
(* Cancellation, timeouts and errors *)

Checkpoints == {"loop", "view", "commit", "context", "sample", "group", "close", "schedule",
                "calls", "serial", "prepare", "request", "execute", "record"}

\* token.checkpoint and token.run raise in a task that was told to stop.
Checkpoint ==
    /\ driver.token /\ driver.pc \in Checkpoints
    /\ driver' = [driver EXCEPT !.pc = "unwind", !.result = NoResult]
    /\ UNCHANGED <<turns, routes, reply, host, archived, faults>>

\* _continue catches TurnCancelled: the intention is stored, if it is not yet.
Unwind ==
    /\ At("unwind")
    /\ IF turn.status \in Terminal \cup {"cancelling"} THEN UNCHANGED turns
       ELSE SetStatus("cancelling")
    /\ driver' = Settling("cancelled")
    /\ UNCHANGED <<routes, reply, host, archived, faults>>

\* asyncio.timeout around _drive, its final _finish included.
Timeout ==
    /\ Active /\ turn.expired /\ driver.task = "turn"
    /\ driver.pc \in Checkpoints \/ (driver.pc = "finish" /\ driver.goal = "completed")
    /\ driver' = Settling("failed")
    /\ UNCHANGED <<turns, routes, reply, host, archived, faults>>

\* An exception of a provider, a context source, a store or a tool outside the router.
DriverFails ==
    /\ Failures /\ driver.pc \in Checkpoints
    /\ driver.task = "recovery" => faults < MaxFaults
    /\ Throw
    /\ faults' = IF driver.task = "recovery" THEN faults + 1 ELSE faults
    /\ UNCHANGED <<turns, routes, reply, archived>>

\* The time budget of the open turn is spent.
Expire ==
    /\ Expires /\ Active /\ ~turn.expired
    /\ turns' = [turns EXCEPT ![last].expired = TRUE]
    /\ UNCHANGED <<routes, driver, reply, host, archived, faults>>

-----------------------------------------------------------------------------
(* The end of a turn *)

\* _finish takes the lock and asks the gateway about calls without a result
\* (recover_pending_effects): what never started stays so, what is in doubt is
\* reconciled, an action nobody has decided about is refused when the turn is cancelled.
Finish ==
    LET i == first
        kind == turn.calls[i].kind
        r == routes[last][i]
        hold(result) == driver' = [driver EXCEPT !.pc = "settle", !.result = result]
        route(s, cp) == routes' = [routes EXCEPT ![last][i].state = s, ![last][i].checkpoint = cp]
        routed == Pending(turn) # {} /\ Owned(kind) /\ r.state # "none"
        refusing == turn.status = "cancelling" /\ r.state = "pending_approval"
    IN
    /\ At("finish") /\ Active
    /\ IF ~routed THEN hold(NoResult) /\ UNCHANGED routes
       ELSE \/ /\ r.state \in {"pending_approval", "ready"} /\ ~refusing
               /\ hold(NoResult) /\ UNCHANGED routes
            \/ /\ refusing /\ r.checkpoint \in {"none", "system_cancel"}
               /\ route("denied", "system_cancel")
               /\ hold([outcome |-> "cancelled", origin |-> "none"])
            \/ /\ refusing /\ r.checkpoint \in Decisions     \* approval_conflict
               /\ hold([outcome |-> "unknown", origin |-> "recovery"]) /\ UNCHANGED routes
            \/ /\ r.state \in {"running", "unknown"}
               /\ \E s \in Reconciled(kind, r) :
                      route(s, r.checkpoint) /\ hold(Projection(s, "recovery"))
            \/ /\ r.state \in {"denied", "succeeded", "failed"}
               /\ hold(Projection(r.state, "execution")) /\ UNCHANGED routes
            \/ /\ r.state = "manual_intervention"
               /\ hold(Projection(r.state, "recovery")) /\ UNCHANGED routes
    /\ UNCHANGED <<turns, reply, host, archived, faults>>

\* The turn as _finish wants to leave it: every call has a result, nothing is open, and
\* the status admits what is not known.
Recovered(i) == IF i = first THEN driver.result ELSE NoResult

InDoubt ==
    \/ \E i \in DOMAIN turn.calls : turn.calls[i].result.outcome = "unknown"
    \/ \E i \in Pending(turn) : /\ ~ReadOnly(turn.calls[i].kind)
                                /\ Recovered(i).outcome \in {"none", "unknown"}

FinalStatus ==
    IF InDoubt THEN "interrupted"
    ELSE IF turn.status = "cancelling" /\ driver.goal # "interrupted" THEN "cancelled"
    ELSE driver.goal

Missing(kind) ==
    [outcome |-> IF ~ReadOnly(kind) THEN "unknown"
                 ELSE IF FinalStatus = "cancelled" THEN "cancelled" ELSE "failed",
     origin  |-> "none"]

\* Mutant: the attempt and the approvals of the turn stay open.
SettledOpen ==
    [turn EXCEPT
        !.status = FinalStatus,
        !.calls = [i \in DOMAIN turn.calls |->
            [turn.calls[i] EXCEPT
                !.result = IF i \notin Pending(turn) THEN @
                           ELSE IF Recovered(i) = NoResult THEN Missing(turn.calls[i].kind)
                           ELSE Recovered(i)]]]

Settled ==
    [turn EXCEPT
        !.status = FinalStatus,
        !.attempt = IF @ = "running" THEN "closed" ELSE @,
        !.calls = [i \in DOMAIN turn.calls |->
            [turn.calls[i] EXCEPT
                !.gate = IF @ = "started" THEN "closed" ELSE @,
                !.result = IF i \notin Pending(turn) THEN @
                           ELSE IF Recovered(i) = NoResult THEN Missing(turn.calls[i].kind)
                           ELSE Recovered(i)]]]

\* What the reducer demands of it.
Consistent ==
    /\ driver.result # NoResult => Acceptable(turn, Settled.calls[first], driver.result)
    /\ Settled.status \in {"completed", "cancelled"} =>
           \A i \in DOMAIN Settled.calls : Settled.calls[i].result.outcome # "unknown"
    /\ Settled.status = "completed" =>
           /\ turn.status = "finalizing"
           /\ \A i \in DOMAIN Settled.calls : Settled.calls[i].result.origin # "recovery"

Settle ==
    /\ driver.pc = "settle"
    /\ IF Consistent
       THEN /\ turns' = [turns EXCEPT ![last] = Settled]
            /\ driver' = NoDriver
            /\ host' = IF driver.task = "recovery" THEN "open" ELSE host
       ELSE /\ UNCHANGED turns
            /\ IF driver.goal = "completed" THEN Throw
               ELSE /\ driver' = NoDriver
                    /\ host' = IF driver.task = "recovery" THEN "down" ELSE host
    /\ UNCHANGED <<routes, reply, archived, faults>>

-----------------------------------------------------------------------------
(* The host *)

\* The product settles the router's doubts before it opens the runtime, one route at a
\* time (run_startup_recovery).
SettleRoute(k, i) ==
    LET r == routes[k][i] IN
    /\ host = "down" /\ r.state \in {"running", "unknown"}
    /\ \E s \in Reconciled(turns[k].calls[i].kind, r) \ {"unknown"} :
           routes' = [routes EXCEPT ![k][i].state = s]
    /\ UNCHANGED <<turns, driver, reply, host, archived, faults>>

\* __aenter__: the open turn is recovered before anything is accepted.
Reopen ==
    /\ host = "down"
    /\ \A k \in DOMAIN routes : \A i \in DOMAIN routes[k] :
           routes[k][i].state \notin {"running", "unknown"}
    /\ host' = IF Active THEN "recovering" ELSE "open"
    /\ driver' = IF Active THEN [NoDriver EXCEPT !.pc = "recover", !.task = "recovery"]
                 ELSE NoDriver
    /\ UNCHANGED <<turns, routes, reply, archived, faults>>

\* _recover: nothing is started again that may have had an effect.
Recover ==
    LET kept == \/ turn.status = "accepted" /\ turn.mode = "deferred"
                \/ turn.status = "waiting_input" /\ ~turn.expired
                \/ turn.status = "executing_tools" /\ ResumeSafe(turn)
        resumable == /\ turn.status = "executing_tools" /\ ~ResumeSafe(turn)
                     /\ Pending(turn) # {} /\ Owned(turn.calls[first].kind)
    IN
    /\ At("recover")
    /\ \/ kept /\ Return
       \/ /\ turn.status = "waiting_input" /\ turn.expired
          /\ driver' = Settling("failed") /\ UNCHANGED host
       \/ resumable /\ driver' = [driver EXCEPT !.pc = "calls"] /\ UNCHANGED host
       \/ /\ turn.status = "waiting_approval"
          /\ driver' = [driver EXCEPT !.pc = "sync"] /\ UNCHANGED host
       \/ /\ ~kept /\ ~resumable /\ turn.status \notin {"waiting_input", "waiting_approval"}
          /\ driver' = Settling("interrupted") /\ UNCHANGED host
    /\ UNCHANGED <<turns, routes, reply, archived, faults>>

\* A storage error leaves an answer half written: the lock is released.
ReplyFails ==
    /\ reply.pc # "idle" /\ faults < MaxFaults
    /\ reply' = NoReply
    /\ faults' = faults + 1
    /\ UNCHANGED <<turns, routes, driver, host, archived>>

Crash ==
    /\ host # "down" /\ faults < MaxFaults
    /\ host' = "down" /\ driver' = NoDriver /\ reply' = NoReply
    /\ faults' = faults + 1
    /\ UNCHANGED <<turns, routes, archived>>

\* __aexit__: tasks are told to stop and awaited.
Close ==
    /\ Cancels /\ host = "open" /\ faults < MaxFaults
    /\ host' = "closing"
    /\ driver' = IF Idle THEN driver ELSE [driver EXCEPT !.token = TRUE]
    /\ faults' = faults + 1
    /\ UNCHANGED <<turns, routes, reply, archived>>

Closed ==
    /\ host = "closing" /\ Idle /\ LockFree
    /\ host' = "down"
    /\ UNCHANGED <<turns, routes, driver, reply, archived, faults>>

-----------------------------------------------------------------------------
Init ==
    /\ turns = <<>> /\ routes = <<>>
    /\ driver = NoDriver /\ reply = NoReply
    /\ host = "down" /\ archived = FALSE /\ faults = 0

Command ==
    \/ \E mode \in {"immediate", "deferred"}, source \in 0..MaxTurns : Accept(mode, source)
    \/ Resume
    \/ \E m \in Steers : Steer(m)
    \/ Cancel
    \/ ReplyQuestion
    \/ \E d \in Decisions : ReplyGuarded(d) \/ ReplyCheckpoint(d)
    \/ Archive

ModelStep ==
    \/ Sync \/ Start \/ Loop \/ PrepareView \/ CommitHistory \/ CallModel
    \/ AttemptStarted \/ AttemptFailed \/ Overflow
    \/ \E r \in Responses : Respond(r)
    \/ CommitCalls \/ CloseModelStep \/ Schedule

ToolStep == ExecuteCalls \/ Prepare \/ Request \/ Execute \/ TakeEffect \/ Complete
            \/ Interrupt \/ RecordToolResult

EndStep == Checkpoint \/ Unwind \/ Timeout \/ DriverFails \/ Finish \/ Settle \/ Recover

ReplyStep == ReplyRoute \/ ReplyAppend \/ ReplyFails

HostStep ==
    \/ \E k \in DOMAIN routes : \E i \in DOMAIN routes[k] : SettleRoute(k, i)
    \/ Reopen \/ Closed

Fault == Crash \/ Close \/ Expire

Next == Command \/ ModelStep \/ ToolStep \/ EndStep \/ ReplyStep \/ HostStep \/ Fault

Spec == Init /\ [][Next]_vars

\* The event loop runs every task that can run; a host that is down is started again and
\* the app server resumes an open turn.  Users need not do anything.
Fairness == /\ WF_vars(ModelStep \/ ToolStep \/ EndStep) /\ WF_vars(ReplyStep)
            /\ WF_vars(HostStep) /\ WF_vars(Resume)

FairSpec == Spec /\ Fairness

-----------------------------------------------------------------------------
(* Properties *)

\* A turn that completes has shown the model every message it accepted: one that arrives
\* while the last model step is being closed starts another step (_close_model_step).
SteeringReachesModel ==
    \A k \in DOMAIN turns : turns[k].status = "completed" => turns[k].inputs = turns[k].history

IsAction(k, i) == turns[k].calls[i].kind = "action"

\* The two ledgers agree across crashes and half-written answers: what the session calls
\* approved or rejected is what the router was told, and an action has had its effect at
\* most once and only after both say a person approved it.
EffectNeedsBothLedgers ==
    \A k \in DOMAIN turns : \A i \in DOMAIN turns[k].calls : IsAction(k, i) =>
        LET c == turns[k].calls[i]
            r == routes[k][i]
        IN /\ c.gate \in Decisions => r.checkpoint = c.gate
           /\ r.effects > 0 => r.effects = 1 /\ c.gate = "approved"

\* What a turn tells the model and the user about an action is true, however the task
\* that ran it ended; where the truth is not known the turn says so and is interrupted.
ReportsAreTrue ==
    \A k \in DOMAIN turns : \A i \in DOMAIN turns[k].calls : IsAction(k, i) =>
        LET outcome == turns[k].calls[i].result.outcome
            effects == routes[k][i].effects
        IN /\ outcome = "succeeded" => effects = 1
           /\ outcome \in {"failed", "cancelled"} => effects = 0
           /\ turns[k].status \in Terminal \ {"interrupted"} => outcome # "unknown"

\* A turn in its final state owes nothing: no call without a result, no approval that can
\* still be answered, no model attempt still counted as running, no executor at work.
TerminalTurnIsClosed ==
    \A k \in DOMAIN turns : turns[k].status \in Terminal =>
        /\ Pending(turns[k]) = {}
        /\ turns[k].attempt # "running"
        /\ \A i \in DOMAIN turns[k].calls : turns[k].calls[i].gate # "started"
        /\ \A i \in DOMAIN routes[k] : routes[k][i].state # "running"

\* A retry repeats nothing that may have happened: of every action of the turn it starts
\* from both ledgers know what became of it, and the session says so.
RetryIsSafe ==
    \A k \in DOMAIN turns : turns[k].retryOf # 0 =>
        LET j == turns[k].retryOf IN
        \A i \in DOMAIN turns[j].calls : IsAction(j, i) =>
            /\ routes[j][i].state \notin {"running", "unknown", "manual_intervention"}
            /\ routes[j][i].effects > 0 => turns[j].calls[i].result.outcome = "succeeded"

\* Nothing is added to a turn after its final state, and none of its actions touches the
\* world any more, whatever late message, answer or task is still on its way.
NothingAfterTheEnd ==
    [][\A k \in DOMAIN turns : turns[k].status \in Terminal =>
           /\ turns'[k] = turns[k]
           /\ \A i \in DOMAIN routes[k] : routes'[k][i].effects = routes[k][i].effects]_vars

\* The turn needs a person: a question, or an approval neither ledger has a decision on.
AwaitsUser ==
    \/ turn.status = "waiting_input"
    \/ /\ turn.status = "waiting_approval" /\ turn.calls[first].gate = "started"
       /\ turn.calls[first].kind = "action" => routes[last][first].checkpoint = "none"

\* An open turn does not stay open by itself: through crashes, half-written answers and
\* failures it ends or comes to need a person, and a decision once given is acted upon.
TurnProgresses == Active ~> (Active => AwaitsUser)

\* docs/modules/agent.md: to cancel a turn brings it to a durable final state.
CancelEndsTurn == (Active /\ turn.status = "cancelling") ~> ~Active

\* agent/runtime.py: "the result of a tool is unknown, the model loop must not go on".
NoModelStepInDoubt ==
    [][(turns # <<>> /\ turn.status # "calling_model" /\ turns'[last].status = "calling_model") =>
           \A i \in DOMAIN turn.calls : turn.calls[i].result.outcome # "unknown"]_vars

\* The router as the agent sees it keeps the promise the detailed router of module
\* TrustedActions keeps: the plans are the calls the gateway owns.
CallBound == MaxSteps * (CHOOSE n \in {Len(r) : r \in Responses} : \A r \in Responses : Len(r) <= n)
Planned(p) == p.turn \in DOMAIN turns /\ p.call \in DOMAIN turns[p.turn].calls
              /\ turns[p.turn].calls[p.call].kind = p.kind
PlanIds == [turn : 1..MaxTurns, call : 1..CallBound, kind : {"action", "query"}]

StageOfState ==
    [none |-> "absent", pending_approval |-> "waiting", ready |-> "authorised", denied |-> "refused",
     running |-> "started", unknown |-> "started", succeeded |-> "applied",
     failed |-> "not_applied", manual_intervention |-> "handed_over"]

StageOf(p)   == IF Planned(p) THEN StageOfState[routes[p.turn][p.call].state] ELSE "absent"
EffectsOf(p) == IF Planned(p) THEN routes[p.turn][p.call].effects ELSE 0

Contract == INSTANCE ActionContract WITH
    Plans <- PlanIds, Writes <- {p \in PlanIds : p.kind = "action"}, Members <- 1,
    stage <- [p \in PlanIds |-> StageOf(p)],
    applied <- [p \in PlanIds |-> EffectsOf(p)]

\* Every write of the agent to the router's ledger is a step the contract allows: proposed,
\* decided, started once, settled truthfully or handed over.
ImplementsContract == Contract!Spec
=============================================================================
