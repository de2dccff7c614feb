--------------------------- MODULE AgentTurnProofs ---------------------------
(***************************************************************************)
(* Theorems about AgentTurn, for threads of any length, any responses,      *)
(* steering messages and budgets, any number of faults, with and without    *)
(* cancellation, expiry, raising tools and retries.                         *)
(***************************************************************************)
EXTENDS AgentTurn, SequenceTheorems, FiniteSetTheorems, WellFoundedInduction, TLAPS

-----------------------------------------------------------------------------
(* The inductive invariant *)

Undecided == {"none", "pending_approval"}
Ran       == {"running", "unknown", "succeeded", "failed", "manual_intervention"}

\* A result of an action says what the state of its route says.
Backed(result, r) ==
    /\ result.outcome = "succeeded" => r.state = "succeeded"
    /\ result.outcome \in {"failed", "cancelled"} => r.state \in {"none", "denied", "failed"}

\* The entries of the two ledgers for one call.  The router is a step ahead: it may have
\* a decision the session lacks, and an effect needs that of the session too.
CallOk(c, r) ==
    /\ c.kind # "action" => r.effects = 0 /\ r.state # "pending_approval"
    /\ c.kind = "action" =>
        /\ c.gate = "none" => r.state \in Undecided \cup {"denied"}
        /\ c.gate = "started" => r.state # "none"
        /\ c.gate \in Decisions => r.checkpoint = c.gate /\ r.state \notin Undecided
        /\ r.state = "ready" => r.checkpoint = "approved"
        /\ r.state \in Ran => c.gate = "approved"
        /\ r.effects \in {0, 1}
        /\ r.effects = 1 => r.state \in Ran \ {"failed"}
        /\ r.state = "succeeded" => r.effects = 1
        /\ Backed(c.result, r)
    /\ r.state = "running" => c.result = NoResult

\* A call is worked on when those before it have their results.
InOrder(tn, rs) ==
    \A i, j \in Pending(tn) : j < i => tn.calls[i].gate = "none" /\ rs[i] = NoRoute

\* What a status says of the calls.
StatusOk(tn, rs) ==
    /\ tn.status = "waiting_input" =>
          Pending(tn) # {} /\ tn.calls[First(tn)].kind = "ask"
    /\ tn.status = "waiting_approval" =>
          /\ Pending(tn) # {} /\ NeedsApproval(tn.calls[First(tn)].kind)
          /\ tn.calls[First(tn)].gate \in {"started"} \cup Decisions
    /\ tn.status \in {"finalizing", "completed"} => tn.inputs = tn.history
    /\ \A i \in DOMAIN tn.calls :
          rs[i].checkpoint = "system_cancel" => tn.status \in {"cancelling"} \cup Terminal

\* A turn that is over.
Over(tn) ==
    tn.status \in Terminal =>
        /\ Pending(tn) = {} /\ tn.attempt # "running"
        /\ \A i \in DOMAIN tn.calls :
              /\ tn.calls[i].gate # "started"
              /\ tn.calls[i].kind = "action" /\ tn.status # "interrupted" =>
                    tn.calls[i].result.outcome # "unknown"

TurnOk(tn, rs) ==
    /\ \A i \in DOMAIN tn.calls : CallOk(tn.calls[i], rs[i])
    /\ InOrder(tn, rs) /\ StatusOk(tn, rs) /\ Over(tn)

\* A retry starts from an earlier turn that left nothing unknown.
RetryOk(k) ==
    turns[k].retryOf # 0 =>
        /\ turns[k].retryOf < k
        /\ \A i \in DOMAIN turns[turns[k].retryOf].calls :
              turns[turns[k].retryOf].calls[i].result.outcome # "unknown"

LedgerInv ==
    \A k \in DOMAIN turns :
        /\ TurnOk(turns[k], routes[k])
        /\ k < last => turns[k].status \in Terminal
        /\ RetryOk(k)

Quiet   == {"unwind", "finish", "settle", "recover"}
Working == {"prepare", "request", "execute", "running", "record"}

\* The task, by its place: what it found out about the turn is still so.
DriverOk(d, tn, rs) ==
    LET c == tn.calls[First(tn)]
        r == rs[First(tn)]
    IN
    /\ tn.status \notin Terminal
    /\ tn.status \in {"waiting_input", "finalizing"} => d.pc \in Quiet
    /\ d.pc \in {"view", "commit", "context"} => tn.steps < MaxSteps
    /\ d.pc \in {"sample", "group"} => tn.steps > 0
    /\ d.pc \in Working => Pending(tn) # {} /\ tn.status # "waiting_approval"
    /\ d.pc = "prepare" => Owned(c.kind) /\ (c.kind = "action" => c.gate = "none")
    /\ d.pc = "request" => c.kind = "action" /\ c.gate = "none" /\ r.state = "pending_approval"
    /\ d.pc = "execute" /\ c.kind = "action" => c.gate \in Decisions
    /\ d.pc = "running" => Owned(c.kind) /\ r.state = "running"
    /\ d.pc \in {"record", "settle"} /\ Pending(tn) # {} /\ c.kind = "action" => Backed(d.result, r)

DriverInv == driver.pc # "idle" => turns # <<>> /\ DriverOk(driver, turn, routes[last])

\* An answer in progress has told the router and not yet the session.
ReplyOk(rp, tn, rs) ==
    LET c == tn.calls[First(tn)]
        r == rs[First(tn)]
    IN
    /\ tn.status = "waiting_approval" /\ c.kind = "action" /\ c.gate = "started"
    /\ r.checkpoint = rp.decision
    /\ rp.pc = "append" => r.state \notin Undecided

ReplyInv == reply.pc # "idle" => /\ turns # <<>> /\ ReplyOk(reply, turn, routes[last])
                                 /\ driver.pc # "settle"

\* An executor is at work where the task is, or was when its host died.
HostInv ==
    /\ host = "down" => driver.pc = "idle"
    /\ \A k \in DOMAIN turns : \A i \in DOMAIN turns[k].calls :
          routes[k][i].state = "running" =>
              k = last /\ (host = "down" \/ driver.pc = "running")

IInv == TypeOK /\ LedgerInv /\ DriverInv /\ ReplyInv /\ HostInv

-----------------------------------------------------------------------------
(* Pending calls *)

\* A set of positions that is not empty has a smallest one.
LEMMA Smallest ==
  ASSUME NEW S, S \subseteq Nat, S # {}
  PROVE  \E i \in S : \A j \in S : i <= j
  <1> DEFINE Less == OpToRel(<, Nat)
  <1>1. IsWellFoundedOn(Less, Nat)
    BY NatLessThanWellFounded
  <1>2. \A a, b \in Nat : a < b => <<a, b>> \in Less
    BY DEF OpToRel
  <1> HIDE DEF Less
  <1>3. PICK i \in S : \A j \in S : ~(<<j, i>> \in Less)
    BY <1>1, WFMin
  <1>4. ASSUME NEW j \in S
        PROVE  i <= j
    <2>1. ~(j < i)
      BY <1>2, <1>3, Zenon
    <2> QED BY <2>1
  <1> QED BY <1>4

LEMMA FirstFacts ==
  ASSUME NEW tn, tn.calls \in Seq(Call), Pending(tn) # {}
  PROVE  /\ First(tn) \in Pending(tn) /\ First(tn) \in DOMAIN tn.calls /\ First(tn) \in Nat
         /\ \A j \in Pending(tn) : First(tn) <= j
         /\ tn.calls[First(tn)].result = NoResult
  <1>1. Pending(tn) \subseteq DOMAIN tn.calls /\ DOMAIN tn.calls \subseteq Nat
    BY DEF Pending
  <1>2. \E i \in Pending(tn) : \A j \in Pending(tn) : i <= j
    BY <1>1, Smallest
  <1>3. First(tn) \in Pending(tn) /\ \A j \in Pending(tn) : First(tn) <= j
    BY <1>2 DEF First
  <1> QED BY <1>1, <1>3 DEF Pending

LEMMA SameFirst ==
  ASSUME NEW tn, NEW un, Pending(un) = Pending(tn)
  PROVE  First(un) = First(tn)
  BY DEF First

LEMMA SameCalls ==
  ASSUME NEW tn, NEW un, un.calls = tn.calls
  PROVE  Pending(un) = Pending(tn) /\ First(un) = First(tn)
  BY SameFirst DEF Pending

\* A turn whose calls stay as they are.
LEMMA SameTurn ==
  ASSUME NEW tn, NEW un, NEW rs, TurnOk(tn, rs), un.calls = tn.calls,
         StatusOk(un, rs), un.status \notin Terminal
  PROVE  TurnOk(un, rs)
  BY SameCalls DEF TurnOk, InOrder, Over

-----------------------------------------------------------------------------
(* Steps *)

LEMMA TypeFacts ==
  ASSUME TypeOK, turns # <<>>
  PROVE  /\ last \in DOMAIN turns /\ last \in Nat /\ turn \in Turn /\ DOMAIN routes = DOMAIN turns
         /\ routes[last] \in Seq(Route) /\ Len(routes[last]) = Len(turn.calls)
         /\ DOMAIN routes[last] = DOMAIN turn.calls
         /\ turn.calls \in Seq(Call)
  <1>1. /\ last \in DOMAIN turns /\ last \in Nat /\ turn \in Turn /\ DOMAIN routes = DOMAIN turns
        /\ routes[last] \in Seq(Route) /\ Len(routes[last]) = Len(turn.calls)
    BY DEF TypeOK, last, turn
  <1>2. turn.calls \in Seq(Call)
    BY <1>1 DEF Turn
  <1> QED BY <1>1, <1>2

\* A step of the open turn: what it owes to the invariant is about that turn alone.
LEMMA TurnStep ==
  ASSUME IInv, turns # <<>>, NEW T \in Turn, NEW R \in Seq(Route), Len(R) = Len(T.calls),
         turns' = [turns EXCEPT ![last] = T], routes' = [routes EXCEPT ![last] = R],
         TurnOk(T, R), T.retryOf = turn.retryOf,
         driver' \in Driver, reply' \in Reply, host' \in {"down", "recovering", "open", "closing"},
         archived' \in BOOLEAN, faults' \in 0..MaxFaults,
         driver'.pc # "idle" => DriverOk(driver', T, R),
         reply'.pc # "idle" => ReplyOk(reply', T, R) /\ driver'.pc # "settle",
         host' = "down" => driver'.pc = "idle",
         \A i \in DOMAIN T.calls : R[i].state = "running" => host' = "down" \/ driver'.pc = "running"
  PROVE  IInv'
  <1>1. /\ last \in DOMAIN turns /\ last \in Nat /\ DOMAIN routes = DOMAIN turns
        /\ turns \in Seq(Turn) /\ routes \in Seq(Seq(Route)) /\ Len(turns) <= MaxTurns
    BY TypeFacts DEF IInv, TypeOK
  <1>2. /\ turns' \in Seq(Turn) /\ Len(turns') = Len(turns) /\ DOMAIN turns' = DOMAIN turns
        /\ \A k \in DOMAIN turns : turns'[k] = IF k = last THEN T ELSE turns[k]
    BY <1>1
  <1>3. /\ routes' \in Seq(Seq(Route)) /\ Len(routes') = Len(routes)
        /\ \A k \in DOMAIN turns : routes'[k] = IF k = last THEN R ELSE routes[k]
    BY <1>1
  <1>4. last' = last /\ turn' = T /\ routes'[last'] = R /\ turns' # <<>>
    BY <1>1, <1>2, <1>3 DEF last, turn
  <1>5. TypeOK'
    BY <1>1, <1>2, <1>3 DEF TypeOK, IInv
  <1>6. LedgerInv'
    <2> SUFFICES ASSUME NEW k \in DOMAIN turns
                 PROVE  /\ TurnOk(turns'[k], routes'[k])
                        /\ k < last => turns'[k].status \in Terminal
                        /\ RetryOk(k)'
      BY <1>2, <1>4 DEF LedgerInv
    <2>1. TurnOk(turns[k], routes[k]) /\ (k < last => turns[k].status \in Terminal) /\ RetryOk(k)
      BY DEF IInv, LedgerInv
    <2>2. turns'[k].retryOf = turns[k].retryOf /\ k \in Nat /\ k <= last
      BY <1>1, <1>2 DEF turn, last
    <2>3. RetryOk(k)'
      <3> SUFFICES ASSUME turns[k].retryOf # 0
                   PROVE  /\ turns[k].retryOf < k
                          /\ \A i \in DOMAIN turns'[turns[k].retryOf].calls :
                                turns'[turns[k].retryOf].calls[i].result.outcome # "unknown"
        BY <2>2 DEF RetryOk
      <3>1. turns[k].retryOf \in Nat
        <4>1. turns[k] \in Turn
          BY <1>1
        <4> QED BY <4>1, BoundsAssumption DEF Turn
      <3>2. turns[k].retryOf \in DOMAIN turns /\ turns[k].retryOf # last
        BY <1>1, <2>1, <2>2, <3>1 DEF RetryOk, last
      <3> QED BY <1>2, <2>1, <3>2 DEF RetryOk
    <2> QED BY <1>1, <1>2, <1>3, <2>1, <2>3
  <1>7. DriverInv' /\ ReplyInv'
    BY <1>4 DEF DriverInv, ReplyInv
  <1>8. HostInv'
    BY <1>1, <1>2, <1>3, <1>4 DEF HostInv, IInv
  <1> QED BY <1>5, <1>6, <1>7, <1>8 DEF IInv

\* A step that leaves both ledgers alone.
LEMMA QuietStep ==
  ASSUME IInv, UNCHANGED <<turns, routes>>,
         driver' \in Driver, reply' \in Reply, host' \in {"down", "recovering", "open", "closing"},
         archived' \in BOOLEAN, faults' \in 0..MaxFaults,
         driver'.pc # "idle" => turns # <<>> /\ DriverOk(driver', turn, routes[last]),
         reply' = reply \/ reply'.pc = "idle",
         reply'.pc # "idle" => driver'.pc # "settle",
         host' = "down" => driver'.pc = "idle",
         host = "down" /\ host' # "down" =>
            \A k \in DOMAIN turns : \A i \in DOMAIN turns[k].calls : routes[k][i].state # "running",
         driver.pc = "running" => driver'.pc = "running" \/ host' = "down"
  PROVE  IInv'
  <1>1. last' = last /\ turn' = turn /\ routes'[last'] = routes[last]
    BY DEF last, turn
  <1>2. TypeOK' /\ LedgerInv'
    BY <1>1 DEF IInv, TypeOK, LedgerInv, RetryOk
  <1>3. DriverInv' /\ ReplyInv'
    BY <1>1 DEF DriverInv, ReplyInv, IInv
  <1>4. HostInv'
    BY <1>1 DEF HostInv, IInv
  <1> QED BY <1>2, <1>3, <1>4 DEF IInv

-----------------------------------------------------------------------------
(* The task *)

HostStates == {"down", "recovering", "open", "closing"}

\* The task is at one of these places, or about to unwind.
Moved(places) ==
    /\ driver' \in Driver /\ driver'.pc \in places \cup {"unwind"}
    /\ host' \in HostStates /\ (host' = "down" => driver'.pc = "idle")

LEMMA DriverFacts ==
  ASSUME TypeOK
  PROVE  /\ driver \in Driver /\ driver.pc \in Places /\ driver.task \in {"turn", "recovery"}
         /\ driver.result \in Result /\ driver.goal \in Terminal /\ driver.response \in Seq(Kinds)
         /\ driver.view \subseteq Inputs /\ driver.token \in BOOLEAN /\ driver.group \in Nat
         /\ NoDriver \in Driver /\ NoDriver.pc = "idle" /\ NoResult \in Result
         /\ NoReply \in Reply /\ NoReply.pc = "idle"
  BY DEF TypeOK, Driver, NoDriver, Places, Terminal, NoResult, Result, Reply, NoReply, Decisions

\* A task that is not idle runs in a host that is up, on an open turn.
LEMMA Alive ==
  ASSUME IInv, driver.pc # "idle"
  PROVE  /\ host \in HostStates \ {"down"} /\ turns # <<>> /\ turn.status \notin Terminal
         /\ DriverOk(driver, turn, routes[last])
         /\ TurnOk(turn, routes[last])
  <1>1. host \in HostStates \ {"down"} /\ turns # <<>> /\ DriverOk(driver, turn, routes[last])
    BY DEF IInv, TypeOK, HostInv, DriverInv, HostStates
  <1>2. last \in DOMAIN turns
    BY <1>1, TypeFacts DEF IInv
  <1> QED BY <1>1, <1>2 DEF DriverOk, IInv, LedgerInv, turn

LEMMA ProceedFacts ==
  ASSUME NEW d \in Driver, NEW pc \in Places, Proceed(d, pc)
  PROVE  /\ driver' \in Driver /\ driver'.pc \in {pc, "unwind"} /\ driver'.result = d.result
         /\ driver'.response = d.response
  BY DEF Proceed, Driver, Places

LEMMA GotoMoves ==
  ASSUME IInv, driver.pc # "idle", NEW pc \in Places, Goto(pc)
  PROVE  Moved({pc})
  BY Alive, ProceedFacts, DriverFacts DEF Goto, Moved, IInv

LEMMA ReturnMoves ==
  ASSUME IInv, driver.pc # "idle", Return
  PROVE  Moved({"idle"})
  <1>1. [driver EXCEPT !.pc = "unwind"] \in Driver /\ [driver EXCEPT !.pc = "unwind"].pc = "unwind"
    BY DriverFacts DEF IInv, Driver, Places
  <1>2. driver' \in Driver /\ driver'.pc \in {"idle", "unwind"}
    BY <1>1, DriverFacts, Zenon DEF Return, IInv
  <1>3. host' \in HostStates \ {"down"}
    BY Alive DEF Return, HostStates
  <1> QED BY <1>2, <1>3 DEF Moved

LEMMA SettlingFacts ==
  ASSUME TypeOK, NEW goal \in Terminal
  PROVE  Settling(goal) \in Driver /\ Settling(goal).pc = "finish"
  BY DriverFacts DEF Settling, Driver, Places

LEMMA ThrowMoves ==
  ASSUME IInv, driver.pc # "idle", Throw
  PROVE  Moved({"finish", "idle"})
  <1>1. CASE driver.task = "turn" /\ host' = host
             /\ Proceed([driver EXCEPT !.goal = "failed", !.result = NoResult], "finish")
    <2>1. [driver EXCEPT !.goal = "failed", !.result = NoResult] \in Driver
      BY DriverFacts DEF IInv, Driver, Terminal
    <2> QED BY <1>1, <2>1, ProceedFacts, Alive DEF Moved, Places
  <1>2. CASE driver' = NoDriver /\ host' = "down"
    BY <1>2, DriverFacts DEF Moved, HostStates, IInv
  <1> QED BY <1>1, <1>2 DEF Throw

\* Places where the task relies on nothing but an open turn.
LEMMA LightPlace ==
  ASSUME NEW d, NEW tn, NEW rs, tn.status \notin Terminal,
         \/ d.pc \in {"unwind", "finish", "recover"}
         \/ /\ d.pc \in {"sync", "start", "loop", "close", "schedule", "calls", "serial"}
            /\ tn.status \notin {"waiting_input", "finalizing"}
  PROVE  DriverOk(d, tn, rs)
  BY DEF DriverOk, Quiet, Working

\* A status that promises nothing about the calls.
LEMMA PlainStatus ==
  ASSUME NEW tn, NEW un, NEW rs, StatusOk(tn, rs), un.calls = tn.calls,
         un.status \in {"accepted", "preparing_context", "calling_model", "executing_tools", "cancelling"},
         tn.status \in {"cancelling"} \cup Terminal => un.status = "cancelling"
  PROVE  StatusOk(un, rs) /\ un.status \notin Terminal
  BY DEF StatusOk, Terminal

\* The task takes a step that leaves calls and routes alone.
LEMMA PlainStep ==
  ASSUME IInv, driver.pc \notin {"idle", "running"}, reply.pc = "idle",
         NEW T \in Turn, T.calls = turn.calls, T.retryOf = turn.retryOf,
         turns' = [turns EXCEPT ![last] = T], UNCHANGED <<routes, reply, archived, faults>>,
         StatusOk(T, routes[last]), T.status \notin Terminal,
         NEW places, Moved(places),
         driver'.pc \in places \ {"idle"} => DriverOk(driver', T, routes[last])
  PROVE  IInv'
  <1>1. /\ turns # <<>> /\ host # "down" /\ TurnOk(turn, routes[last])
        /\ routes[last] \in Seq(Route) /\ Len(routes[last]) = Len(T.calls) /\ last \in DOMAIN turns
    BY Alive, TypeFacts DEF IInv
  <1>2. TurnOk(T, routes[last])
    BY <1>1, SameTurn
  <1>3. driver'.pc # "idle" => DriverOk(driver', T, routes[last])
    BY LightPlace DEF Moved
  <1>4. \A i \in DOMAIN T.calls : routes[last][i].state # "running"
    BY <1>1 DEF IInv, HostInv, turn
  <1>5. routes' = [routes EXCEPT ![last] = routes[last]]
    BY <1>1, TypeFacts DEF IInv, TypeOK
  <1>6. reply' \in Reply /\ archived' \in BOOLEAN /\ faults' \in 0..MaxFaults
    BY DEF IInv, TypeOK
  <1> QED BY <1>1, <1>2, <1>3, <1>4, <1>5, <1>6, TurnStep DEF Moved, HostStates

\* The same with the turn as it is.
LEMMA IdleStep ==
  ASSUME IInv, driver.pc \notin {"idle", "running"}, reply.pc = "idle",
         UNCHANGED <<turns, routes, reply, archived, faults>>,
         NEW places, Moved(places),
         driver'.pc \in places \ {"idle"} => DriverOk(driver', turn, routes[last])
  PROVE  IInv'
  <1>1. /\ turns # <<>> /\ TurnOk(turn, routes[last]) /\ turn.status \notin Terminal
        /\ turn \in Turn /\ last \in DOMAIN turns
    BY Alive, TypeFacts DEF IInv
  <1>2. turns' = [turns EXCEPT ![last] = turn]
    BY <1>1 DEF IInv, TypeOK, turn
  <1> QED BY <1>1, <1>2, PlainStep DEF TurnOk

\* An exception while the ledgers stay as they are.
LEMMA ThrowStep ==
  ASSUME IInv, driver.pc \notin {"idle", "running"}, reply.pc = "idle",
         UNCHANGED <<turns, routes, reply, archived, faults>>, Throw
  PROVE  IInv'
  BY Alive, ThrowMoves, IdleStep, LightPlace DEF Moved

-----------------------------------------------------------------------------
(* The model loop *)

\* What a step of the task at a place that is neither idle nor running may use.
LEMMA Here ==
  ASSUME IInv, NEW pc, At(pc), pc # "idle"
  PROVE  /\ reply.pc = "idle" /\ driver.pc = pc /\ turns # <<>> /\ host # "down"
         /\ last \in DOMAIN turns /\ turn \in Turn /\ turn.status \notin Terminal
         /\ turns \in Seq(Turn) /\ turn = turns[last]
         /\ DriverOk(driver, turn, routes[last])
         /\ TurnOk(turn, routes[last]) /\ StatusOk(turn, routes[last])
  BY Alive, TypeFacts DEF IInv, At, TurnOk, turn, TypeOK

\* Records of the turn with one part replaced.
LEMMA TurnFields ==
  ASSUME NEW tn \in Turn
  PROVE  /\ \A s \in Statuses : /\ [tn EXCEPT !.status = s] \in Turn
                                /\ [tn EXCEPT !.status = s].status = s
                                /\ [tn EXCEPT !.status = s].calls = tn.calls
                                /\ [tn EXCEPT !.status = s].retryOf = tn.retryOf
                                /\ [tn EXCEPT !.status = s].steps = tn.steps
                                /\ [tn EXCEPT !.status = s].inputs = tn.inputs
                                /\ [tn EXCEPT !.status = s].history = tn.history
         /\ \A v \in SUBSET Inputs : /\ [tn EXCEPT !.history = v] \in Turn
                                     /\ [tn EXCEPT !.history = v].status = tn.status
                                     /\ [tn EXCEPT !.history = v].calls = tn.calls
                                     /\ [tn EXCEPT !.history = v].retryOf = tn.retryOf
                                     /\ [tn EXCEPT !.history = v].steps = tn.steps
         /\ \A v \in SUBSET Inputs : /\ [tn EXCEPT !.inputs = v] \in Turn
                                     /\ [tn EXCEPT !.inputs = v].status = tn.status
                                     /\ [tn EXCEPT !.inputs = v].calls = tn.calls
                                     /\ [tn EXCEPT !.inputs = v].retryOf = tn.retryOf
                                     /\ [tn EXCEPT !.inputs = v].steps = tn.steps
         /\ tn.steps \in 0..MaxSteps /\ tn.inputs \subseteq Inputs /\ tn.history \subseteq Inputs
         /\ tn.attempts \in 0..MaxAttempts /\ tn.calls \in Seq(Call) /\ tn.status \in Statuses
         /\ tn.expired \in BOOLEAN
  BY DEF Turn

\* The task writes a new status and goes on.
LEMMA StatusStep ==
  ASSUME IInv, driver.pc \notin {"idle", "running"}, reply.pc = "idle",
         UNCHANGED <<routes, reply, archived, faults>>,
         NEW s \in {"accepted", "preparing_context", "calling_model", "executing_tools", "cancelling"},
         SetStatus(s), turn.status = "cancelling" => s = "cancelling",
         NEW places, Moved(places),
         driver'.pc \in places \ {"idle"} =>
             \A tn \in Turn : tn.status = s /\ tn.calls = turn.calls /\ tn.steps = turn.steps
                 => DriverOk(driver', tn, routes[last])
  PROVE  IInv'
  <1>1. /\ turn \in Turn /\ turn.status \notin Terminal /\ StatusOk(turn, routes[last])
        /\ turn = turns[last] /\ s \in Statuses
    BY Alive, TypeFacts DEF IInv, TurnOk, Statuses, turn
  <1> DEFINE T == [turn EXCEPT !.status = s]
  <1>2. /\ T \in Turn /\ T.status = s /\ T.calls = turn.calls /\ T.retryOf = turn.retryOf
        /\ T.steps = turn.steps
    BY <1>1, TurnFields
  <1>3. turns' = [turns EXCEPT ![last] = T]
    BY <1>1 DEF SetStatus
  <1> HIDE DEF T
  <1>4. StatusOk(T, routes[last]) /\ T.status \notin Terminal
    BY <1>1, <1>2, PlainStatus
  <1> QED BY <1>2, <1>3, <1>4, PlainStep

LEMMA StartKeeps == IInv /\ Start => IInv'
  <1> SUFFICES ASSUME IInv, Start PROVE IInv'
    OBVIOUS
  <1>1. At("start") /\ UNCHANGED <<turns, routes, reply, host, archived, faults>>
    BY DEF Start
  <1>2. [driver EXCEPT !.pc = "loop"] \in Driver /\ [driver EXCEPT !.pc = "loop"].pc = "loop"
    BY DriverFacts DEF IInv, Driver, Places
  <1>3. Settling("failed") \in Driver /\ Settling("failed").pc = "finish"
    BY SettlingFacts DEF IInv, Terminal
  <1>4. driver' \in Driver /\ driver'.pc \in {"loop", "finish"} /\ host' = host
    BY <1>2, <1>3, Zenon DEF Start
  <1>5. Moved({"loop", "finish"})
    BY <1>4, Alive, <1>1, Here DEF Moved
  <1>6. turn.status \notin {"waiting_input", "finalizing"}
    BY <1>1, Here DEF DriverOk, Quiet
  <1>7. DriverOk(driver', turn, routes[last])
    BY <1>1, <1>4, <1>6, Here, LightPlace
  <1> QED BY <1>1, <1>5, <1>7, Here, IdleStep

LEMMA LoopKeeps == IInv /\ Loop => IInv'
  <1> SUFFICES ASSUME IInv, Loop PROVE IInv'
    OBVIOUS
  <1>1. At("loop") /\ UNCHANGED <<routes, reply, archived, faults>>
    BY DEF Loop
  <1>2. turn.status \notin {"waiting_input", "finalizing"}
    BY <1>1, Here DEF DriverOk, Quiet
  <1>3. CASE Goto("calls") /\ UNCHANGED turns
    <2>1. Moved({"calls"})
      BY <1>1, <1>3, Here, GotoMoves DEF Places
    <2> QED BY <1>1, <1>2, <1>3, <2>1, Here, LightPlace, IdleStep
  <1>4. CASE /\ turn.status \in {"accepted", "executing_tools", "preparing_context"}
             /\ SetStatus("preparing_context")
             /\ IF turn.steps < MaxSteps THEN Goto("view") ELSE Throw
    <2>1. turn.status # "cancelling"
      BY <1>4
    <2>2. CASE turn.steps < MaxSteps /\ Goto("view")
      <3>1. Moved({"view"})
        BY <1>1, <2>2, Here, GotoMoves DEF Places
      <3>2. driver'.pc \in {"view"} \ {"idle"} =>
             \A tn \in Turn : tn.status = "preparing_context" /\ tn.calls = turn.calls /\ tn.steps = turn.steps
                 => DriverOk(driver', tn, routes[last])
        BY <2>2 DEF DriverOk, Working, Terminal
      <3> QED BY <1>1, <1>4, <2>1, <3>1, <3>2, Here, StatusStep
    <2>3. CASE Throw
      <3>1. Moved({"finish", "idle"})
        BY <1>1, <2>3, Here, ThrowMoves
      <3>2. driver'.pc \in {"finish", "idle"} \ {"idle"} =>
             \A tn \in Turn : tn.status = "preparing_context" /\ tn.calls = turn.calls /\ tn.steps = turn.steps
                 => DriverOk(driver', tn, routes[last])
        BY LightPlace DEF Terminal
      <3> QED BY <1>1, <1>4, <2>1, <3>1, <3>2, Here, StatusStep
    <2> QED BY <1>4, <2>2, <2>3
  <1>5. CASE Throw /\ UNCHANGED turns
    BY <1>1, <1>5, Here, ThrowStep
  <1> QED BY <1>3, <1>4, <1>5 DEF Loop

LEMMA PrepareViewKeeps == IInv /\ PrepareView => IInv'
  <1> SUFFICES ASSUME IInv, PrepareView PROVE IInv'
    OBVIOUS
  <1>1. At("view") /\ UNCHANGED <<turns, routes, reply, host, archived, faults>>
    BY DEF PrepareView
  <1>2. [driver EXCEPT !.view = turn.inputs] \in Driver
    BY <1>1, Here, TurnFields, DriverFacts DEF IInv, Driver
  <1>3. Moved({"commit"})
    BY <1>1, <1>2, Here, Alive, ProceedFacts DEF PrepareView, Moved, Places
  <1>4. driver'.pc = "commit" => DriverOk(driver', turn, routes[last])
    BY <1>1, Here DEF DriverOk, Working, Quiet
  <1> QED BY <1>1, <1>3, <1>4, Here, IdleStep

LEMMA CommitHistoryKeeps == IInv /\ CommitHistory => IInv'
  <1> SUFFICES ASSUME IInv, CommitHistory PROVE IInv'
    OBVIOUS
  <1>1. At("commit") /\ UNCHANGED <<routes, reply, archived, faults>>
    BY DEF CommitHistory
  <1>2. CASE Throw /\ UNCHANGED turns
    BY <1>1, <1>2, Here, ThrowStep
  <1>3. CASE Goto("view") /\ UNCHANGED turns
    <2>1. Moved({"view"})
      BY <1>1, <1>3, Here, GotoMoves DEF Places
    <2>2. driver'.pc = "view" => DriverOk(driver', turn, routes[last])
      BY <1>1, Here DEF DriverOk, Working, Quiet
    <2> QED BY <1>1, <1>3, <2>1, <2>2, Here, IdleStep
  <1>4. CASE /\ turns' = [turns EXCEPT ![last].history = driver.view]
             /\ Proceed([driver EXCEPT !.view = {}], "context") /\ UNCHANGED host
    <2> DEFINE T == [turn EXCEPT !.history = driver.view]
    <2>1. driver.view \in SUBSET Inputs /\ [driver EXCEPT !.view = {}] \in Driver
      BY DriverFacts DEF IInv, Driver
    <2>2. /\ T \in Turn /\ T.status = turn.status /\ T.calls = turn.calls
          /\ T.retryOf = turn.retryOf /\ T.steps = turn.steps
      BY <1>1, <2>1, Here, TurnFields
    <2>3. turns' = [turns EXCEPT ![last] = T]
      BY <1>1, <1>4, Here
    <2> HIDE DEF T
    <2>4. Moved({"context"})
      BY <1>1, <1>4, <2>1, Here, Alive, ProceedFacts DEF Moved, Places
    <2>5. turn.status \notin {"finalizing", "completed"}
      BY <1>1, Here DEF DriverOk, Quiet, Terminal
    <2>6. StatusOk(T, routes[last])
      BY <1>1, <2>2, <2>5, Here, SameCalls DEF StatusOk
    <2>7. driver'.pc = "context" => DriverOk(driver', T, routes[last])
      BY <1>1, <2>2, Here DEF DriverOk, Working, Quiet
    <2>8. driver.pc \notin {"idle", "running"} /\ reply.pc = "idle" /\ T.status \notin Terminal
      BY <1>1, <2>2, Here
    <2> QED BY <1>1, <2>2, <2>3, <2>4, <2>6, <2>7, <2>8, PlainStep
  <1> QED BY <1>2, <1>3, <1>4 DEF CommitHistory

LEMMA CallModelKeeps == IInv /\ CallModel => IInv'
  <1> SUFFICES ASSUME IInv, CallModel PROVE IInv'
    OBVIOUS
  <1>1. At("context") /\ UNCHANGED <<routes, reply, archived, faults>>
    BY DEF CallModel
  <1>2. CASE Throw /\ UNCHANGED turns
    BY <1>1, <1>2, Here, ThrowStep
  <1>3. CASE /\ turn.status = "preparing_context"
             /\ turns' = [turns EXCEPT ![last].status = "calling_model", ![last].steps = @ + 1,
                                       ![last].attempt = "none", ![last].attempts = 0]
             /\ Goto("sample")
    <2> DEFINE T == [turn EXCEPT !.status = "calling_model", !.steps = @ + 1,
                                 !.attempt = "none", !.attempts = 0]
    <2>1. turn.steps < MaxSteps /\ turn.steps \in Nat /\ turn.steps + 1 \in 0..MaxSteps
      BY <1>1, Here, TurnFields, BoundsAssumption DEF DriverOk
    <2>2. /\ T \in Turn /\ T.status = "calling_model" /\ T.calls = turn.calls
          /\ T.retryOf = turn.retryOf /\ T.steps = turn.steps + 1
      <3>1. turn \in Turn
        BY <1>1, Here
      <3>2. 0 \in 0..MaxAttempts
        BY BoundsAssumption
      <3> QED BY <2>1, <3>1, <3>2 DEF Turn, Statuses
    <2>3. turns' = [turns EXCEPT ![last] = T]
      BY <1>1, <1>3, Here
    <2> HIDE DEF T
    <2>4. Moved({"sample"})
      BY <1>1, <1>3, Here, GotoMoves DEF Places
    <2>5. StatusOk(T, routes[last]) /\ T.status \notin Terminal
      BY <1>1, <1>3, <2>2, Here, PlainStatus DEF Terminal
    <2>6. driver'.pc = "sample" => DriverOk(driver', T, routes[last])
      BY <1>1, <2>2, Here, TurnFields DEF DriverOk, Working, Quiet, Terminal
    <2>7. driver.pc \notin {"idle", "running"} /\ reply.pc = "idle"
      BY <1>1, Here
    <2> QED BY <1>1, <2>2, <2>3, <2>4, <2>5, <2>6, <2>7, PlainStep
  <1> QED BY <1>2, <1>3 DEF CallModel

\* Two turns that differ in nothing the invariant of the task looks at.
LEMMA SameDriver ==
  ASSUME NEW d, NEW tn, NEW un, NEW rs, DriverOk(d, tn, rs),
         un.calls = tn.calls, un.status = tn.status, un.steps = tn.steps
  PROVE  DriverOk(d, un, rs)
  BY SameCalls DEF DriverOk

\* The task writes a detail: attempts and budgets.
LEMMA DetailStep ==
  ASSUME IInv, driver.pc \notin {"idle", "running"}, reply.pc = "idle",
         NEW T \in Turn, T.calls = turn.calls, T.retryOf = turn.retryOf, T.status = turn.status,
         T.steps = turn.steps, T.inputs = turn.inputs, T.history = turn.history,
         turns' = [turns EXCEPT ![last] = T], UNCHANGED <<routes, reply, archived, faults>>,
         NEW places, Moved(places),
         driver'.pc \in places \ {"idle"} => DriverOk(driver', turn, routes[last])
  PROVE  IInv'
  <1>1. StatusOk(turn, routes[last]) /\ T.status \notin Terminal
    BY Alive DEF TurnOk
  <1>2. StatusOk(T, routes[last])
    BY <1>1, SameCalls DEF StatusOk
  <1>3. driver'.pc \in places \ {"idle"} => DriverOk(driver', T, routes[last])
    BY SameDriver
  <1> QED BY <1>1, <1>2, <1>3, PlainStep

LEMMA AttemptFields ==
  ASSUME NEW tn \in Turn, NEW n \in 0..MaxAttempts,
         NEW a \in {"none", "running", "failed", "overflow", "completed", "closed"}
  PROVE  LET T == [tn EXCEPT !.attempt = a, !.attempts = n] IN
         /\ T \in Turn /\ T.calls = tn.calls /\ T.retryOf = tn.retryOf /\ T.status = tn.status
         /\ T.steps = tn.steps /\ T.inputs = tn.inputs /\ T.history = tn.history
  BY DEF Turn

\* The task stays in the provider's stream and writes what became of an attempt.
LEMMA AttemptStep ==
  ASSUME IInv, At("sample"), NEW n \in 0..MaxAttempts,
         NEW a \in {"none", "running", "failed", "overflow", "completed", "closed"},
         turns' = [turns EXCEPT ![last] = [turn EXCEPT !.attempt = a, !.attempts = n]],
         UNCHANGED <<routes, reply, archived, faults>>,
         NEW place \in {"sample", "group"}, Moved({place})
  PROVE  IInv'
  <1>1. /\ driver.pc \notin {"idle", "running"} /\ reply.pc = "idle" /\ turn \in Turn
        /\ DriverOk(driver, turn, routes[last]) /\ driver.pc = "sample"
    BY Here
  <1>2. driver'.pc = place => DriverOk(driver', turn, routes[last])
    BY <1>1 DEF DriverOk, Working, Quiet
  <1> DEFINE T == [turn EXCEPT !.attempt = a, !.attempts = n]
  <1>3. /\ T \in Turn /\ T.calls = turn.calls /\ T.retryOf = turn.retryOf /\ T.status = turn.status
        /\ T.steps = turn.steps /\ T.inputs = turn.inputs /\ T.history = turn.history
    BY <1>1, AttemptFields
  <1> HIDE DEF T
  <1>4. turns' = [turns EXCEPT ![last] = T]
    BY DEF T
  <1> QED BY <1>1, <1>2, <1>3, <1>4, DetailStep

LEMMA AttemptStartedKeeps == IInv /\ AttemptStarted => IInv'
  <1> SUFFICES ASSUME IInv, AttemptStarted PROVE IInv'
    OBVIOUS
  <1>1. At("sample") /\ UNCHANGED <<routes, reply, archived, faults>> /\ Goto("sample")
    BY DEF AttemptStarted
  <1>2. turn.attempts + 1 \in 0..MaxAttempts /\ turn \in Turn /\ turn = turns[last] /\ turns \in Seq(Turn)
    BY <1>1, Here, TurnFields, BoundsAssumption DEF AttemptStarted
  <1>3. turns' = [turns EXCEPT ![last] = [turn EXCEPT !.attempt = "running", !.attempts = turn.attempts + 1]]
    BY <1>2 DEF AttemptStarted, Turn
  <1>4. Moved({"sample"})
    BY <1>1, Here, GotoMoves DEF Places
  <1> QED BY <1>1, <1>2, <1>3, <1>4, AttemptStep

LEMMA AttemptFailedKeeps == IInv /\ AttemptFailed => IInv'
  <1> SUFFICES ASSUME IInv, AttemptFailed PROVE IInv'
    OBVIOUS
  <1>1. At("sample") /\ UNCHANGED <<routes, reply, archived, faults>> /\ Goto("sample")
    BY DEF AttemptFailed
  <1>2. turn.attempts \in 0..MaxAttempts /\ turn \in Turn /\ turn = turns[last] /\ turns \in Seq(Turn)
    BY <1>1, Here, TurnFields
  <1>3. PICK outcome \in {"failed", "overflow"} :
            turns' = [turns EXCEPT ![last] = [turn EXCEPT !.attempt = outcome, !.attempts = turn.attempts]]
    <2>1. PICK outcome \in {"failed", "overflow"} : turns' = [turns EXCEPT ![last].attempt = outcome]
      BY DEF AttemptFailed
    <2>2. [turn EXCEPT !.attempt = outcome] = [turn EXCEPT !.attempt = outcome, !.attempts = turn.attempts]
      BY <1>2 DEF Turn
    <2> QED BY <1>2, <2>1, <2>2
  <1>4. Moved({"sample"})
    BY <1>1, Here, GotoMoves DEF Places
  <1> QED BY <1>1, <1>2, <1>3, <1>4, AttemptStep

LEMMA RespondKeeps ==
  ASSUME IInv, NEW r \in Responses, Respond(r)
  PROVE  IInv'
  <1>1. At("sample") /\ UNCHANGED <<routes, reply, archived, faults>>
    BY DEF Respond
  <1>2. turn.attempts \in 0..MaxAttempts /\ turn \in Turn /\ turn = turns[last] /\ turns \in Seq(Turn)
    BY <1>1, Here, TurnFields
  <1>3. CASE Throw /\ UNCHANGED turns
    BY <1>1, <1>3, Here, ThrowStep
  <1>4. CASE /\ turns' = [turns EXCEPT ![last].attempt = "completed"]
             /\ Proceed([driver EXCEPT !.response = r], "group") /\ UNCHANGED host
    <2>1. [turn EXCEPT !.attempt = "completed"]
              = [turn EXCEPT !.attempt = "completed", !.attempts = turn.attempts]
      BY <1>2 DEF Turn
    <2>2. turns' = [turns EXCEPT ![last] = [turn EXCEPT !.attempt = "completed", !.attempts = turn.attempts]]
      BY <1>2, <1>4, <2>1
    <2>3. [driver EXCEPT !.response = r] \in Driver
      BY InputsAssumption, DriverFacts DEF IInv, Driver
    <2>4. Moved({"group"})
      BY <1>1, <1>4, <2>3, Here, Alive, ProceedFacts DEF Moved, Places
    <2> QED BY <1>1, <1>2, <2>2, <2>4, AttemptStep
  <1> QED BY <1>3, <1>4 DEF Respond

LEMMA OverflowKeeps == IInv /\ Overflow => IInv'
  <1> SUFFICES ASSUME IInv, Overflow PROVE IInv'
    OBVIOUS
  <1>1. At("sample") /\ UNCHANGED <<routes, reply, archived, faults>>
    BY DEF Overflow
  <1>2. CASE Throw /\ UNCHANGED turns
    BY <1>1, <1>2, Here, ThrowStep
  <1>3. CASE turn.status = "calling_model" /\ SetStatus("preparing_context") /\ Goto("loop")
    <2>1. Moved({"loop"})
      BY <1>1, <1>3, Here, GotoMoves DEF Places
    <2>2. driver'.pc = "loop" =>
             \A tn \in Turn : tn.status = "preparing_context" => DriverOk(driver', tn, routes[last])
      BY LightPlace DEF Terminal
    <2> QED BY <1>1, <1>3, <2>1, <2>2, Here, StatusStep
  <1> QED BY <1>2, <1>3 DEF Overflow

LEMMA ScheduleKeeps == IInv /\ Schedule => IInv'
  <1> SUFFICES ASSUME IInv, Schedule PROVE IInv'
    OBVIOUS
  <1>1. At("schedule") /\ UNCHANGED <<routes, reply, archived, faults>>
    BY DEF Schedule
  <1>2. CASE Throw /\ UNCHANGED turns
    BY <1>1, <1>2, Here, ThrowStep
  <1>3. CASE turn.status = "calling_model" /\ SetStatus("executing_tools") /\ Goto("calls")
    <2>1. Moved({"calls"})
      BY <1>1, <1>3, Here, GotoMoves DEF Places
    <2>2. driver'.pc = "calls" =>
             \A tn \in Turn : tn.status = "executing_tools" => DriverOk(driver', tn, routes[last])
      BY LightPlace DEF Terminal
    <2> QED BY <1>1, <1>3, <2>1, <2>2, Here, StatusStep
  <1> QED BY <1>2, <1>3 DEF Schedule

\* The last look at the messages is made when the step is closed.
LEMMA CloseModelStepKeeps == IInv /\ CloseModelStep => IInv'
  <1> SUFFICES ASSUME IInv, CloseModelStep PROVE IInv'
    OBVIOUS
  <1>1. At("close") /\ UNCHANGED <<routes, reply, archived, faults>>
    BY DEF CloseModelStep
  <1>2. CASE Throw /\ UNCHANGED turns
    BY <1>1, <1>2, Here, ThrowStep
  <1>3. CASE turn.status # "cancelling" /\ SetStatus("preparing_context") /\ Goto("loop")
    <2>1. Moved({"loop"})
      BY <1>1, <1>3, Here, GotoMoves DEF Places
    <2>2. driver'.pc = "loop" =>
             \A tn \in Turn : tn.status = "preparing_context" => DriverOk(driver', tn, routes[last])
      BY LightPlace DEF Terminal
    <2> QED BY <1>1, <1>3, <2>1, <2>2, Here, StatusStep
  <1>4. CASE /\ turn.status # "cancelling" /\ turn.inputs = turn.history
             /\ SetStatus("finalizing") /\ driver' = Settling("completed") /\ UNCHANGED host
    <2> DEFINE T == [turn EXCEPT !.status = "finalizing"]
    <2>1. /\ T \in Turn /\ T.calls = turn.calls /\ T.retryOf = turn.retryOf /\ T.status = "finalizing"
          /\ T.inputs = turn.inputs /\ T.history = turn.history
      BY <1>1, Here, TurnFields DEF Statuses
    <2>2. turns' = [turns EXCEPT ![last] = T]
      BY <1>1, <1>4, Here DEF SetStatus
    <2> HIDE DEF T
    <2>3. Moved({"finish"}) /\ driver'.pc = "finish"
      BY <1>1, <1>4, Here, Alive, SettlingFacts DEF Moved, Terminal, IInv
    <2>4. StatusOk(T, routes[last])
      BY <1>1, <1>4, <2>1, Here DEF StatusOk, Terminal
    <2>5. T.status \notin Terminal
      BY <2>1 DEF Terminal
    <2>6. DriverOk(driver', T, routes[last])
      BY <2>3, <2>5, LightPlace
    <2>7. driver.pc \notin {"idle", "running"} /\ reply.pc = "idle"
      BY <1>1, Here
    <2> QED BY <1>1, <2>1, <2>2, <2>3, <2>4, <2>5, <2>6, <2>7, PlainStep
  <1> QED BY <1>2, <1>3, <1>4 DEF CloseModelStep

-----------------------------------------------------------------------------
(* Steps on the first pending call *)

\* The first pending call or its route changes, and it keeps waiting for its result.
LEMMA FirstStays ==
  ASSUME IInv, turns # <<>>, Pending(turn) # {}, NEW T \in Turn, NEW c \in Call, NEW r \in Route,
         NEW R, R = [routes[last] EXCEPT ![first] = r],
         T.calls = [turn.calls EXCEPT ![first] = c], c.result = NoResult
  PROVE  /\ Pending(T) = Pending(turn) /\ First(T) = first
         /\ T.calls[First(T)] = c /\ R[First(T)] = r
  <1>1. /\ turn.calls \in Seq(Call) /\ routes[last] \in Seq(Route)
        /\ DOMAIN routes[last] = DOMAIN turn.calls
    BY TypeFacts DEF IInv
  <1>2. first \in Pending(turn) /\ first \in DOMAIN turn.calls
    BY <1>1, FirstFacts DEF first
  <1>3. /\ DOMAIN T.calls = DOMAIN turn.calls /\ T.calls[first] = c /\ R[first] = r
        /\ \A i \in DOMAIN turn.calls : T.calls[i] = IF i = first THEN c ELSE turn.calls[i]
    BY <1>1, <1>2
  <1>4. Pending(T) = Pending(turn)
    BY <1>2, <1>3 DEF Pending
  <1>5. First(T) = first
    BY <1>4, SameFirst DEF first
  <1> QED BY <1>3, <1>4, <1>5

\* Only the first pending call can be running.
LEMMA OnlyFirstRuns ==
  ASSUME IInv, turns # <<>>, NEW i \in DOMAIN turn.calls, routes[last][i].state = "running"
  PROVE  Pending(turn) # {} /\ i = first /\ (host = "down" \/ driver.pc = "running")
  <1>1. /\ last \in DOMAIN turns /\ turn = turns[last] /\ turn.calls \in Seq(Call)
        /\ TurnOk(turn, routes[last])
    BY TypeFacts DEF IInv, LedgerInv, turn
  <1>2. i \in Pending(turn)
    BY <1>1 DEF TurnOk, CallOk, Pending
  <1>3. First(turn) \in Pending(turn) /\ First(turn) <= i /\ First(turn) \in Nat /\ i \in Nat
    BY <1>1, <1>2, FirstFacts
  <1>4. ~(First(turn) < i)
    BY <1>1, <1>2, <1>3 DEF TurnOk, InOrder, NoRoute
  <1> QED BY <1>1, <1>2, <1>3, <1>4 DEF IInv, HostInv, first

\* A step that changes the first pending call, its route or both.
LEMMA FirstTurn ==
  ASSUME IInv, turns # <<>>, Pending(turn) # {}, NEW T \in Turn, NEW c \in Call, NEW r \in Route,
         NEW R, R = [routes[last] EXCEPT ![first] = r],
         T.calls = [turn.calls EXCEPT ![first] = c], CallOk(c, r), T.status \notin Terminal,
         StatusOk(T, R)
  PROVE  TurnOk(T, R) /\ R \in Seq(Route) /\ Len(R) = Len(T.calls)
  <1>1. /\ last \in DOMAIN turns /\ turn = turns[last] /\ turn.calls \in Seq(Call)
        /\ routes[last] \in Seq(Route) /\ Len(routes[last]) = Len(turn.calls)
        /\ TurnOk(turn, routes[last])
    BY TypeFacts DEF IInv, LedgerInv, turn
  <1>2. /\ first \in Pending(turn) /\ first \in DOMAIN turn.calls /\ first \in Nat
        /\ \A j \in Pending(turn) : first <= j
    BY <1>1, FirstFacts DEF first
  <1>3. /\ DOMAIN T.calls = DOMAIN turn.calls /\ Len(T.calls) = Len(turn.calls)
        /\ \A i \in DOMAIN turn.calls : T.calls[i] = IF i = first THEN c ELSE turn.calls[i]
    BY <1>1, <1>2
  <1>4. /\ R \in Seq(Route) /\ Len(R) = Len(T.calls)
        /\ \A i \in DOMAIN turn.calls : R[i] = IF i = first THEN r ELSE routes[last][i]
    BY <1>1, <1>2, <1>3
  <1>5. \A i \in Pending(T) : i \in Pending(turn) \/ i = first
    BY <1>3 DEF Pending
  <1>6. InOrder(T, R)
    <2> SUFFICES ASSUME NEW i \in Pending(T), NEW j \in Pending(T), j < i
                 PROVE  T.calls[i].gate = "none" /\ R[i] = NoRoute
      BY DEF InOrder
    <2>1. i \in Pending(turn) /\ j \in Pending(turn)
      BY <1>2, <1>5
    <2>3. i \in DOMAIN turn.calls /\ j \in DOMAIN turn.calls
      BY <2>1 DEF Pending
    <2>2. i # first
      BY <1>1, <1>2, <2>1, <2>3
    <2> QED BY <1>1, <1>3, <1>4, <2>1, <2>3, <2>2 DEF TurnOk, InOrder
  <1>7. \A i \in DOMAIN T.calls : CallOk(T.calls[i], R[i])
    BY <1>1, <1>3, <1>4 DEF TurnOk
  <1> QED BY <1>4, <1>6, <1>7 DEF TurnOk, Over

LEMMA FirstStep ==
  ASSUME IInv, turns # <<>>, Pending(turn) # {}, NEW T \in Turn, NEW c \in Call, NEW r \in Route,
         NEW R, R = [routes[last] EXCEPT ![first] = r],
         T.calls = [turn.calls EXCEPT ![first] = c], CallOk(c, r), T.status \notin Terminal,
         StatusOk(T, R), T.retryOf = turn.retryOf,
         turns' = [turns EXCEPT ![last] = T], routes' = [routes EXCEPT ![last] = R],
         driver' \in Driver, reply' \in Reply, host' \in HostStates,
         archived' \in BOOLEAN, faults' \in 0..MaxFaults,
         driver'.pc # "idle" => DriverOk(driver', T, R),
         reply'.pc # "idle" => ReplyOk(reply', T, R) /\ driver'.pc # "settle",
         host' = "down" => driver'.pc = "idle",
         r.state = "running" => host' = "down" \/ driver'.pc = "running"
  PROVE  IInv'
  <1>1. TurnOk(T, R) /\ R \in Seq(Route) /\ Len(R) = Len(T.calls)
    BY FirstTurn
  <1>2. /\ turn.calls \in Seq(Call) /\ routes[last] \in Seq(Route)
        /\ DOMAIN routes[last] = DOMAIN turn.calls
    BY TypeFacts DEF IInv
  <1>3. first \in DOMAIN turn.calls
    BY <1>2, FirstFacts DEF first
  <1>4. ASSUME NEW i \in DOMAIN T.calls, R[i].state = "running"
        PROVE  host' = "down" \/ driver'.pc = "running"
    <2>1. i \in DOMAIN turn.calls /\ R[i] = IF i = first THEN r ELSE routes[last][i]
      BY <1>2, <1>3
    <2>2. i = first
      BY <1>4, <2>1, OnlyFirstRuns
    <2> QED BY <1>4, <2>1, <2>2
  <1> QED BY <1>1, <1>4, TurnStep DEF HostStates

\* The status of a turn whose first pending call or its route changes.
LEMMA FirstStatus ==
  ASSUME IInv, turns # <<>>, Pending(turn) # {}, NEW T \in Turn, NEW c \in Call, NEW r \in Route,
         NEW R, R = [routes[last] EXCEPT ![first] = r],
         T.calls = [turn.calls EXCEPT ![first] = c],
         turn.status = "cancelling" => T.status = "cancelling",
         T.status \in {"waiting_input", "waiting_approval"} => c.result = NoResult,
         T.status = "waiting_input" => c.kind = "ask",
         T.status = "waiting_approval" =>
             NeedsApproval(c.kind) /\ c.gate \in {"started"} \cup Decisions,
         T.status \notin Terminal, turn.status \notin Terminal,
         T.status = "finalizing" => T.inputs = T.history,
         r.checkpoint = "system_cancel" => T.status = "cancelling"
  PROVE  StatusOk(T, R)
  <1>1. /\ last \in DOMAIN turns /\ turn = turns[last] /\ turn.calls \in Seq(Call)
        /\ routes[last] \in Seq(Route) /\ DOMAIN routes[last] = DOMAIN turn.calls
        /\ StatusOk(turn, routes[last])
    BY TypeFacts DEF IInv, LedgerInv, TurnOk, turn
  <1>2. first \in DOMAIN turn.calls
    BY <1>1, FirstFacts DEF first
  <1>3. /\ DOMAIN T.calls = DOMAIN turn.calls
        /\ \A i \in DOMAIN turn.calls : R[i] = IF i = first THEN r ELSE routes[last][i]
    BY <1>1, <1>2
  <1>4. \A i \in DOMAIN T.calls :
            R[i].checkpoint = "system_cancel" => T.status \in {"cancelling"} \cup Terminal
    BY <1>1, <1>3 DEF StatusOk
  <1>5. T.status # "completed"
    BY DEF Terminal
  <1>6. T.status \in {"waiting_input", "waiting_approval"} =>
            Pending(T) # {} /\ T.calls[First(T)] = c
    <2> SUFFICES ASSUME T.status \in {"waiting_input", "waiting_approval"}
                 PROVE  Pending(T) # {} /\ T.calls[First(T)] = c
      OBVIOUS
    <2> QED BY FirstStays
  <1> QED BY <1>4, <1>5, <1>6 DEF StatusOk

\* What the two ledgers say of the first pending call.
LEMMA FirstOk ==
  ASSUME IInv, turns # <<>>, Pending(turn) # {}
  PROVE  /\ turn.calls[first] \in Call /\ turn.calls[first].result = NoResult
         /\ routes[last][first] \in Route /\ CallOk(turn.calls[first], routes[last][first])
         /\ turn.calls[first].kind \in Kinds /\ routes[last][first].state \in RouteStates
         /\ first \in DOMAIN turn.calls /\ first = First(turn)
  <1>1. /\ last \in DOMAIN turns /\ turn = turns[last] /\ turn.calls \in Seq(Call)
        /\ routes[last] \in Seq(Route) /\ DOMAIN routes[last] = DOMAIN turn.calls
        /\ TurnOk(turn, routes[last])
    BY TypeFacts DEF IInv, LedgerInv, turn
  <1>2. first \in DOMAIN turn.calls /\ turn.calls[first].result = NoResult
    BY <1>1, FirstFacts DEF first
  <1>3. turn.calls[first] \in Call /\ routes[last][first] \in Route
    BY <1>1, <1>2
  <1> QED BY <1>1, <1>2, <1>3 DEF TurnOk, Call, Route, first

LEMMA RouteFields ==
  ASSUME NEW r \in Route
  PROVE  /\ \A s \in RouteStates : /\ [r EXCEPT !.state = s] \in Route
                                   /\ [r EXCEPT !.state = s].state = s
                                   /\ [r EXCEPT !.state = s].checkpoint = r.checkpoint
                                   /\ [r EXCEPT !.state = s].effects = r.effects
         /\ \A cp \in {"none", "system_cancel"} \cup Decisions :
               /\ [r EXCEPT !.checkpoint = cp] \in Route
               /\ [r EXCEPT !.checkpoint = cp].state = r.state
               /\ [r EXCEPT !.checkpoint = cp].checkpoint = cp
               /\ [r EXCEPT !.checkpoint = cp].effects = r.effects
         /\ [r EXCEPT !.effects = 1] \in Route /\ [r EXCEPT !.effects = 1].effects = 1
         /\ [r EXCEPT !.effects = 1].state = r.state
         /\ [r EXCEPT !.effects = 1].checkpoint = r.checkpoint
         /\ r.state \in RouteStates /\ r.checkpoint \in {"none", "system_cancel"} \cup Decisions
         /\ r.effects \in Nat
  BY DEF Route

\* The task changes the route of the first pending call and nothing in the session.
LEMMA RouteStep ==
  ASSUME IInv, driver.pc # "idle", reply.pc = "idle", Pending(turn) # {}, NEW r \in Route,
         routes' = [routes EXCEPT ![last][first] = r],
         UNCHANGED <<turns, reply, archived, faults>>, CallOk(turn.calls[first], r),
         r.checkpoint = "system_cancel" =>
             routes[last][first].checkpoint = "system_cancel" \/ turn.status = "cancelling",
         NEW places, Moved(places),
         driver'.pc \in places \ {"idle"} =>
             \A rs : rs[first] = r => DriverOk(driver', turn, rs),
         r.state = "running" => driver'.pc = "running"
  PROVE  IInv'
  <1>1. /\ turns # <<>> /\ last \in DOMAIN turns /\ turn \in Turn /\ turn.calls \in Seq(Call)
        /\ routes[last] \in Seq(Route) /\ DOMAIN routes[last] = DOMAIN turn.calls
        /\ turn.status \notin Terminal /\ turn = turns[last] /\ turns \in Seq(Turn)
        /\ StatusOk(turn, routes[last]) /\ DOMAIN routes = DOMAIN turns /\ routes \in Seq(Seq(Route))
    BY Alive, TypeFacts DEF IInv, TypeOK, TurnOk, turn
  <1>2. first \in DOMAIN turn.calls /\ turn.calls[first] \in Call
    BY <1>1, FirstOk
  <1> DEFINE R == [routes[last] EXCEPT ![first] = r]
  <1>3. /\ turn.calls = [turn.calls EXCEPT ![first] = turn.calls[first]]
        /\ turns' = [turns EXCEPT ![last] = turn] /\ routes' = [routes EXCEPT ![last] = R]
    BY <1>1, <1>2
  <1>4. \A i \in DOMAIN turn.calls : R[i] = IF i = first THEN r ELSE routes[last][i]
    BY <1>1, <1>2
  <1>5. R = [routes[last] EXCEPT ![first] = r]
    OBVIOUS
  <1> HIDE DEF R
  <1>6. StatusOk(turn, R)
    BY <1>1, <1>2, <1>4 DEF StatusOk
  <1>7. driver'.pc # "idle" => DriverOk(driver', turn, R)
    BY <1>1, <1>2, <1>4, LightPlace DEF Moved
  <1>8. /\ reply' \in Reply /\ reply'.pc = "idle" /\ archived' \in BOOLEAN /\ faults' \in 0..MaxFaults
        /\ driver' \in Driver /\ host' \in HostStates /\ (host' = "down" => driver'.pc = "idle")
    BY DEF IInv, TypeOK, Moved
  <1> QED BY <1>1, <1>2, <1>3, <1>5, <1>6, <1>7, <1>8, FirstStep

\* What a route of an action may become without its result.
LEMMA HoldingFacts ==
  ASSUME TypeOK, NEW outcome \in Outcomes, NEW origin \in {"none", "execution", "recovery"}
  PROVE  /\ Holding(outcome, origin) \in Driver
         /\ Holding(outcome, origin).result = [outcome |-> outcome, origin |-> origin]
  BY DriverFacts DEF Holding, Driver, Result

LEMMA ProjectionFacts ==
  ASSUME TypeOK, NEW s \in RouteStates, NEW origin \in {"execution", "recovery"}
  PROVE  /\ Projection(s, origin) \in Result /\ Projection(s, origin) # NoResult
         /\ [driver EXCEPT !.result = Projection(s, origin)] \in Driver
         /\ [driver EXCEPT !.result = Projection(s, origin)].result = Projection(s, origin)
         /\ s \notin {"pending_approval", "ready", "running"} =>
               \A r \in Route : r.state = s => Backed(Projection(s, origin), r)
  <1>1. /\ Projection(s, origin) \in Result /\ Projection(s, origin).origin = origin
        /\ s \in {"succeeded", "unknown"} => Projection(s, origin).outcome = s
        /\ s = "manual_intervention" => Projection(s, origin).outcome = "unknown"
        /\ s \notin {"succeeded", "unknown", "manual_intervention"} =>
              Projection(s, origin).outcome = "failed"
    BY DEF Projection, Result, Outcomes
  <1>2. Projection(s, origin) # NoResult
    BY <1>1 DEF NoResult
  <1>3. s \notin {"pending_approval", "ready", "running"} =>
               \A r \in Route : r.state = s => Backed(Projection(s, origin), r)
    BY <1>1 DEF Backed, RouteStates
  <1> QED BY <1>1, <1>2, <1>3, DriverFacts DEF Driver

-----------------------------------------------------------------------------
(* Tool calls *)

\* The gateway plans an action once.
LEMMA PrepareKeeps == IInv /\ Prepare => IInv'
  <1> SUFFICES ASSUME IInv, Prepare PROVE IInv'
    OBVIOUS
  <1> DEFINE c == turn.calls[first]
             q == routes[last][first]
  <1>1. At("prepare") /\ UNCHANGED <<turns, reply, archived, faults>>
    BY DEF Prepare
  <1>2. /\ driver.pc = "prepare" /\ reply.pc = "idle" /\ turns # <<>> /\ host \in HostStates \ {"down"}
        /\ DriverOk(driver, turn, routes[last]) /\ driver \in Driver /\ host' = host
    BY <1>1, Here, Alive, DriverFacts DEF IInv, Prepare
  <1>3. /\ Pending(turn) # {} /\ Owned(c.kind) /\ (c.kind = "action" => c.gate = "none")
        /\ turn.status \notin Terminal \cup {"waiting_input", "waiting_approval", "finalizing"}
    BY <1>2 DEF DriverOk, Working, Quiet, first
  <1>4. /\ c \in Call /\ c.result = NoResult /\ q \in Route /\ CallOk(c, q) /\ first = First(turn)
        /\ q.state \in RouteStates /\ c.kind \in Kinds
    BY <1>2, <1>3, FirstOk
  <1>5. ASSUME NEW d \in Driver, NEW pc \in Places, Proceed(d, pc)
        PROVE  Moved({pc}) /\ driver'.result = d.result
    BY <1>2, <1>5, ProceedFacts DEF Moved
  <1>6. ASSUME NEW s \in {"none", "pending_approval", "denied", "ready"}, q.state = "none",
               s = "pending_approval" => c.kind = "action", s = "ready" => c.kind = "query",
               routes' = [routes EXCEPT ![last][first].state = s],
               NEW places, Moved(places),
               driver'.pc \in places \ {"idle"} =>
                   \A rs : rs[first] = [q EXCEPT !.state = s] => DriverOk(driver', turn, rs)
        PROVE  IInv'
    <2> DEFINE r == [q EXCEPT !.state = s]
    <2>1. /\ r \in Route /\ r.state = s /\ r.checkpoint = q.checkpoint /\ r.effects = q.effects
      <3>1. s \in RouteStates /\ q \in Route
        BY <1>4 DEF RouteStates
      <3> HIDE DEF q
      <3> QED BY <3>1, RouteFields
    <2>2. routes' = [routes EXCEPT ![last][first] = r]
      BY <1>6
    <2> HIDE DEF r
    <2>3. CallOk(c, r)
      <3>1. c.kind # "action" => q.effects = 0
        BY <1>4 DEF CallOk
      <3>2. c.kind = "action" => q.effects = 0 /\ c.gate = "none" /\ s # "ready"
        BY <1>3, <1>4, <1>6 DEF CallOk, Ran
      <3>3. Backed(c.result, r)
        BY <1>4 DEF Backed, NoResult
      <3> HIDE DEF c, q
      <3> QED BY <1>4, <1>6, <2>1, <3>1, <3>2, <3>3 DEF CallOk, Undecided, Ran, Decisions
    <2>4. driver'.pc \in places \ {"idle"} => \A rs : rs[first] = r => DriverOk(driver', turn, rs)
      BY <1>6 DEF r
    <2> QED BY <1>1, <1>2, <1>3, <1>6, <2>1, <2>2, <2>3, <2>4, RouteStep
  <1>7. CASE /\ c.kind = "action" /\ q.state = "none" /\ Proceed(driver, "request")
             /\ routes' = [routes EXCEPT ![last][first].state = "pending_approval"]
    <2>1. Moved({"request"})
      BY <1>2, <1>5, <1>7 DEF Places
    <2>2. driver'.pc = "request" =>
              \A rs : rs[first] = [q EXCEPT !.state = "pending_approval"] => DriverOk(driver', turn, rs)
      BY <1>3, <1>4, <1>7, RouteFields DEF DriverOk, Working, RouteStates
    <2> QED BY <1>6, <1>7, <2>1, <2>2
  <1>8. CASE /\ q.state = "none" /\ Proceed(Holding("failed", "execution"), "record")
             /\ routes' = [routes EXCEPT ![last][first].state = "denied"]
    <2>1. Moved({"record"}) /\ driver'.result.outcome = "failed"
      BY <1>5, <1>8, HoldingFacts DEF Places, Outcomes, IInv
    <2>2. driver'.pc = "record" =>
              \A rs : rs[first] = [q EXCEPT !.state = "denied"] => DriverOk(driver', turn, rs)
      BY <1>3, <1>4, <2>1, RouteFields DEF DriverOk, Working, RouteStates, Backed
    <2> QED BY <1>6, <1>8, <2>1, <2>2
  <1>9. CASE /\ q.state = "none" /\ Proceed(Holding("failed", "none"), "record")
             /\ routes' = [routes EXCEPT ![last][first].state = "none"]
    <2>1. Moved({"record"}) /\ driver'.result.outcome = "failed"
      BY <1>5, <1>9, HoldingFacts DEF Places, Outcomes, IInv
    <2>2. driver'.pc = "record" =>
              \A rs : rs[first] = [q EXCEPT !.state = "none"] => DriverOk(driver', turn, rs)
      BY <1>3, <1>4, <2>1, RouteFields DEF DriverOk, Working, RouteStates, Backed
    <2> QED BY <1>6, <1>9, <2>1, <2>2
  <1>10. CASE /\ c.kind = "query" /\ q.state = "none" /\ Proceed(driver, "execute")
              /\ routes' = [routes EXCEPT ![last][first].state = "ready"]
    <2>1. Moved({"execute"})
      BY <1>2, <1>5, <1>10 DEF Places
    <2>2. driver'.pc = "execute" =>
              \A rs : rs[first] = [q EXCEPT !.state = "ready"] => DriverOk(driver', turn, rs)
      BY <1>3, <1>4, <1>10 DEF DriverOk, Working
    <2> QED BY <1>6, <1>10, <2>1, <2>2
  <1>11. CASE q.state = "pending_approval" /\ Proceed(driver, "request") /\ UNCHANGED routes
    <2>1. Moved({"request"})
      BY <1>2, <1>5, <1>11 DEF Places
    <2>2. c.kind = "action"
      BY <1>4, <1>11 DEF CallOk
    <2>3. driver'.pc = "request" => DriverOk(driver', turn, routes[last])
      BY <1>3, <1>4, <1>11, <2>2 DEF DriverOk, Working
    <2> QED BY <1>1, <1>2, <1>11, <2>1, <2>3, IdleStep
  <1>12. CASE q.state = "ready" /\ Proceed(driver, "execute") /\ UNCHANGED routes
    <2>1. Moved({"execute"})
      BY <1>2, <1>5, <1>12 DEF Places
    <2>2. c.kind # "action"
      BY <1>3, <1>4, <1>12 DEF CallOk, Undecided
    <2>3. driver'.pc = "execute" => DriverOk(driver', turn, routes[last])
      BY <1>3, <1>4, <1>12, <2>2 DEF DriverOk, Working
    <2> QED BY <1>1, <1>2, <1>12, <2>1, <2>3, IdleStep
  <1>13. CASE /\ q.state \in {"denied", "succeeded", "failed", "unknown", "manual_intervention"}
              /\ Proceed([driver EXCEPT !.result = Projection(q.state, "execution")], "record")
              /\ UNCHANGED routes
    <2>1. /\ [driver EXCEPT !.result = Projection(q.state, "execution")] \in Driver
          /\ [driver EXCEPT !.result = Projection(q.state, "execution")].result = Projection(q.state, "execution")
          /\ Backed(Projection(q.state, "execution"), q)
      BY <1>4, <1>13, ProjectionFacts DEF IInv
    <2>2. Moved({"record"}) /\ Backed(driver'.result, q)
      BY <1>5, <1>13, <2>1 DEF Places
    <2>3. driver'.pc = "record" => DriverOk(driver', turn, routes[last])
      BY <1>3, <1>4, <2>2 DEF DriverOk, Working
    <2> QED BY <1>1, <1>2, <1>13, <2>2, <2>3, IdleStep
  <1> HIDE DEF c, q
  <1> QED BY <1>7, <1>8, <1>9, <1>10, <1>11, <1>12, <1>13 DEF Prepare, c, q

\* A route in flight is settled truthfully or stays in doubt.
LEMMA ConclusionOk ==
  ASSUME NEW c \in Call, NEW q \in Route, CallOk(c, q), c.result = NoResult,
         q.state \in {"running", "unknown"}, NEW s \in {"succeeded", "failed", "unknown", "manual_intervention"},
         c.kind = "action" => s \in {"unknown", "manual_intervention"} \cup Truth(q),
         NEW r, r.state = s, r.checkpoint = q.checkpoint, r.effects = q.effects
  PROVE  CallOk(c, r)
  <1>2. c.kind = "action" => /\ q.effects \in {0, 1} /\ c.gate = "approved" /\ q.checkpoint = "approved"
                             /\ s = "succeeded" => q.effects = 1
                             /\ s = "failed" => q.effects = 0
    BY DEF CallOk, Truth, Ran, Decisions
  <1>3. Backed(c.result, r)
    BY DEF Backed, NoResult
  <1> QED BY <1>2, <1>3 DEF CallOk, Ran, Undecided, Decisions

\* An action runs only after both ledgers have its approval.
LEMMA ExecuteKeeps == IInv /\ Execute => IInv'
  <1> SUFFICES ASSUME IInv, Execute PROVE IInv'
    OBVIOUS
  <1> DEFINE c == turn.calls[first]
             q == routes[last][first]
             known == q.state \in {"denied", "succeeded", "failed"}
             origin == IF known THEN "execution" ELSE "recovery"
  <1>1. At("execute") /\ UNCHANGED <<turns, reply, host, archived, faults>>
    BY DEF Execute
  <1>2. /\ driver.pc = "execute" /\ reply.pc = "idle" /\ turns # <<>> /\ host \in HostStates \ {"down"}
        /\ DriverOk(driver, turn, routes[last]) /\ driver \in Driver
    BY <1>1, Here, Alive, DriverFacts DEF IInv
  <1>3. /\ Pending(turn) # {} /\ (c.kind = "action" => c.gate \in Decisions)
        /\ turn.status \notin Terminal \cup {"waiting_input", "waiting_approval", "finalizing"}
    BY <1>2 DEF DriverOk, Working, Quiet, first
  <1>4. /\ c \in Call /\ c.result = NoResult /\ q \in Route /\ CallOk(c, q) /\ first = First(turn)
        /\ q.state \in RouteStates /\ c.kind \in Kinds /\ first \in DOMAIN turn.calls
    BY <1>2, <1>3, FirstOk
  <1>5. q.state # "running"
    BY <1>2, <1>4, OnlyFirstRuns
  <1>6. ASSUME NEW d \in Driver, Proceed(d, "record")
        PROVE  Moved({"record"}) /\ driver'.result = d.result
    BY <1>1, <1>2, <1>6, ProceedFacts DEF Moved, Places
  <1>7. CASE /\ ~Owned(c.kind) /\ UNCHANGED routes
             /\ \E outcome \in {"succeeded"} \cup (IF Failures THEN {"failed"} ELSE {}) :
                    Proceed(Holding(outcome, "none"), "record")
    <2>1. PICK outcome \in {"succeeded", "failed"} : Proceed(Holding(outcome, "none"), "record")
      BY <1>7
    <2>2. Moved({"record"})
      BY <1>6, <2>1, HoldingFacts DEF Outcomes, IInv
    <2>3. c.kind # "action"
      BY <1>7 DEF Owned
    <2>4. driver'.pc = "record" => DriverOk(driver', turn, routes[last])
      BY <1>3, <1>4, <2>3 DEF DriverOk, Working
    <2> QED BY <1>1, <1>2, <1>7, <2>2, <2>4, IdleStep
  <1>8. CASE /\ Owned(c.kind) /\ q.state = "ready" /\ driver' = [driver EXCEPT !.pc = "running"]
             /\ routes' = [routes EXCEPT ![last][first].state = "running"]
    <2> DEFINE r == [q EXCEPT !.state = "running"]
    <2>1. /\ r \in Route /\ r.state = "running" /\ r.checkpoint = q.checkpoint /\ r.effects = q.effects
      <3> HIDE DEF q
      <3> QED BY <1>4, RouteFields DEF RouteStates
    <2>2. routes' = [routes EXCEPT ![last][first] = r]
      BY <1>8
    <2> HIDE DEF r
    <2>3. CallOk(c, r)
      <3>1. c.kind # "action" => q.effects = 0
        BY <1>4 DEF CallOk
      <3>2. c.kind = "action" => q.effects = 0 /\ c.gate = "approved" /\ q.checkpoint = "approved"
        BY <1>3, <1>4, <1>8 DEF CallOk, Ran, Decisions
      <3>3. Backed(c.result, r)
        BY <1>4 DEF Backed, NoResult
      <3> HIDE DEF c, q
      <3> QED BY <1>4, <2>1, <3>1, <3>2, <3>3 DEF CallOk, Undecided, Ran, Decisions
    <2>4. Moved({"running"}) /\ driver'.pc = "running"
      BY <1>1, <1>2, <1>8 DEF Moved, Driver, Places
    <2>5. \A rs : rs[first] = r => DriverOk(driver', turn, rs)
      BY <1>3, <1>4, <1>8, <2>1, <2>4 DEF DriverOk, Working, Quiet
    <2> QED BY <1>1, <1>2, <1>3, <2>1, <2>2, <2>3, <2>4, <2>5, RouteStep
  <1>9. CASE /\ Owned(c.kind) /\ q.state # "ready"
             /\ \E s \in IF q.state = "unknown" THEN Reconciled(c.kind, q) ELSE {q.state} :
                    /\ routes' = [routes EXCEPT ![last][first].state = s]
                    /\ Proceed([driver EXCEPT !.result = Projection(s, origin)], "record")
    <2>1. PICK s \in IF q.state = "unknown" THEN Reconciled(c.kind, q) ELSE {q.state} :
                    /\ routes' = [routes EXCEPT ![last][first].state = s]
                    /\ Proceed([driver EXCEPT !.result = Projection(s, origin)], "record")
      BY <1>9
    <2>2. s \in RouteStates \ {"ready", "running"} /\ (c.kind = "action" => s # "pending_approval" /\ s # "none")
      BY <1>3, <1>4, <1>5, <1>9 DEF Reconciled, Truth, RouteStates, CallOk, Undecided
    <2> DEFINE r == [q EXCEPT !.state = s]
    <2>3. /\ r \in Route /\ r.state = s /\ r.checkpoint = q.checkpoint /\ CallOk(c, r)
      <3>1. CASE q.state = "unknown"
        <4>1. /\ s \in {"succeeded", "failed", "unknown", "manual_intervention"}
              /\ c.kind = "action" => s \in {"unknown", "manual_intervention"} \cup Truth(q)
          BY <3>1 DEF Reconciled, Truth
        <4>2. r \in Route /\ r.state = s /\ r.checkpoint = q.checkpoint /\ r.effects = q.effects
          <5> HIDE DEF q
          <5> QED BY <1>4, <2>2 DEF Route
        <4> HIDE DEF c, q, r
        <4> QED BY <1>4, <3>1, <4>1, <4>2, ConclusionOk
      <3>2. CASE q.state # "unknown"
        <4>1. r = q
          BY <1>4, <3>2 DEF Route
        <4> QED BY <1>4, <3>2, <4>1
      <3> QED BY <3>1, <3>2
    <2>4. routes' = [routes EXCEPT ![last][first] = r]
      BY <2>1
    <2>5. Moved({"record"}) /\ driver'.result = Projection(s, origin)
      <3>1. origin \in {"execution", "recovery"}
        OBVIOUS
      <3>2. s \in RouteStates
        BY <2>2
      <3> HIDE DEF origin
      <3> QED BY <1>6, <2>1, <3>1, <3>2, ProjectionFacts DEF IInv
    <2>6. c.kind = "action" => Backed(driver'.result, r)
      <3>1. origin \in {"execution", "recovery"}
        OBVIOUS
      <3> HIDE DEF origin, r
      <3> QED BY <2>2, <2>3, <2>5, <3>1, ProjectionFacts DEF IInv
    <2> HIDE DEF r
    <2>7. driver'.pc = "record" => \A rs : rs[first] = r => DriverOk(driver', turn, rs)
      BY <1>3, <1>4, <2>6 DEF DriverOk, Working
    <2> QED BY <1>1, <1>2, <1>3, <2>2, <2>3, <2>4, <2>5, <2>7, RouteStep
  <1> HIDE DEF c, q
  <1> QED BY <1>7, <1>8, <1>9 DEF Execute, c, q

\* The facts of a step at "running".
LEMMA RunningFacts ==
  ASSUME IInv, driver.pc = "running"
  PROVE  /\ turns # <<>> /\ Pending(turn) # {} /\ reply.pc = "idle" /\ host \in HostStates \ {"down"}
         /\ turn.status \notin Terminal \cup {"waiting_input", "waiting_approval", "finalizing"}
         /\ turn.calls[first] \in Call /\ turn.calls[first].result = NoResult
         /\ routes[last][first] \in Route /\ CallOk(turn.calls[first], routes[last][first])
         /\ routes[last][first].state = "running" /\ first = First(turn)
         /\ Owned(turn.calls[first].kind)
  <1>1. DriverOk(driver, turn, routes[last]) /\ turns # <<>> /\ host \in HostStates \ {"down"}
    BY Alive
  <1>2. /\ Pending(turn) # {}
        /\ turn.status \notin Terminal \cup {"waiting_input", "waiting_approval", "finalizing"}
        /\ routes[last][First(turn)].state = "running" /\ Owned(turn.calls[First(turn)].kind)
    BY <1>1 DEF DriverOk, Working, Quiet
  <1>3. reply.pc = "idle"
    BY <1>2 DEF IInv, ReplyInv, ReplyOk
  <1> QED BY <1>1, <1>2, <1>3, FirstOk

LEMMA TakeEffectKeeps == IInv /\ TakeEffect => IInv'
  <1> SUFFICES ASSUME IInv, TakeEffect PROVE IInv'
    OBVIOUS
  <1> DEFINE c == turn.calls[first]
             q == routes[last][first]
             r == [q EXCEPT !.effects = 1]
  <1>1. driver.pc = "running" /\ UNCHANGED <<turns, driver, reply, host, archived, faults>> /\ c.kind = "action"
    BY DEF TakeEffect
  <1>2. /\ Pending(turn) # {} /\ reply.pc = "idle" /\ host \in HostStates \ {"down"} /\ first = First(turn)
        /\ q \in Route /\ CallOk(c, q) /\ q.state = "running" /\ c.result = NoResult
    BY <1>1, RunningFacts
  <1>3. /\ r \in Route /\ r.state = "running" /\ r.checkpoint = q.checkpoint /\ r.effects = 1
    <2> HIDE DEF q
    <2> QED BY <1>2, RouteFields
  <1>4. routes' = [routes EXCEPT ![last][first] = r]
    BY DEF TakeEffect
  <1> HIDE DEF r
  <1>5. CallOk(c, r)
    BY <1>1, <1>2, <1>3 DEF CallOk, Ran, Undecided, Decisions, Backed, NoResult
  <1>6. Moved({"running"})
    BY <1>1, <1>2, DriverFacts DEF Moved, IInv
  <1>7. \A rs : rs[first] = r => DriverOk(driver', turn, rs)
    BY <1>1, <1>2, <1>3, Alive DEF DriverOk
  <1> QED BY <1>1, <1>2, <1>3, <1>4, <1>5, <1>6, <1>7, RouteStep

LEMMA CompleteKeeps == IInv /\ Complete => IInv'
  <1> SUFFICES ASSUME IInv, Complete PROVE IInv'
    OBVIOUS
  <1> DEFINE c == turn.calls[first]
             q == routes[last][first]
  <1>1. At("running") /\ UNCHANGED <<turns, reply, host, archived, faults>>
    BY DEF Complete
  <1>2. /\ driver.pc = "running" /\ Pending(turn) # {} /\ reply.pc = "idle" /\ host \in HostStates \ {"down"}
        /\ turn.status \notin Terminal \cup {"waiting_input", "waiting_approval", "finalizing"}
        /\ first = First(turn) /\ c \in Call /\ c.result = NoResult
        /\ q \in Route /\ CallOk(c, q) /\ q.state = "running" /\ Owned(c.kind)
    BY <1>1, RunningFacts DEF At
  <1>3. PICK s \in Concluded(c.kind, q) :
            /\ routes' = [routes EXCEPT ![last][first].state = s]
            /\ Proceed([driver EXCEPT !.result = Projection(s, "execution")], "record")
    BY DEF Complete
  <1>4. /\ s \in {"succeeded", "failed", "unknown", "manual_intervention"} /\ s \in RouteStates
        /\ c.kind = "action" => s \in {"unknown", "manual_intervention"} \cup Truth(q)
    BY DEF Concluded, Truth, RouteStates
  <1> DEFINE r == [q EXCEPT !.state = s]
  <1>5. r \in Route /\ r.state = s /\ r.checkpoint = q.checkpoint /\ CallOk(c, r)
    <2>1. r \in Route /\ r.state = s /\ r.checkpoint = q.checkpoint /\ r.effects = q.effects
      <3> HIDE DEF q
      <3> QED BY <1>2, <1>4 DEF Route, RouteStates
    <2> HIDE DEF c, q, r
    <2> QED BY <1>2, <1>4, <2>1, ConclusionOk
  <1>6. routes' = [routes EXCEPT ![last][first] = r]
    BY <1>3
  <1> HIDE DEF r
  <1>7. Moved({"record"}) /\ driver'.result = Projection(s, "execution")
    BY <1>1, <1>2, <1>3, <1>4, ProjectionFacts, ProceedFacts DEF Moved, Places, IInv
  <1>8. Backed(driver'.result, r)
    BY <1>4, <1>5, <1>7, ProjectionFacts DEF IInv
  <1>9. driver'.pc = "record" => \A rs : rs[first] = r => DriverOk(driver', turn, rs)
    BY <1>2, <1>8 DEF DriverOk, Working
  <1> QED BY <1>1, <1>2, <1>4, <1>5, <1>6, <1>7, <1>9, RouteStep

\* What is cut off is unknown; a query has nothing to be unknown about.
LEMMA InterruptKeeps == IInv /\ Interrupt => IInv'
  <1> SUFFICES ASSUME IInv, Interrupt PROVE IInv'
    OBVIOUS
  <1> DEFINE c == turn.calls[first]
             q == routes[last][first]
             s == IF ReadOnly(c.kind) THEN "failed" ELSE "unknown"
             r == [q EXCEPT !.state = s]
  <1>1. At("running") /\ UNCHANGED <<turns, reply, host, archived, faults>>
    BY DEF Interrupt
  <1>2. /\ driver.pc = "running" /\ Pending(turn) # {} /\ reply.pc = "idle" /\ host \in HostStates \ {"down"}
        /\ turn.status \notin Terminal \cup {"waiting_input", "waiting_approval", "finalizing"}
        /\ first = First(turn) /\ c \in Call /\ c.result = NoResult
        /\ q \in Route /\ CallOk(c, q) /\ q.state = "running"
    BY <1>1, RunningFacts DEF At
  <1>3. /\ s \in {"succeeded", "failed", "unknown", "manual_intervention"}
        /\ c.kind = "action" => s \in {"unknown", "manual_intervention"} \cup Truth(q)
    BY DEF ReadOnly
  <1>4. routes' = [routes EXCEPT ![last][first] = r]
    BY DEF Interrupt
  <1>5. r \in Route /\ r.state = s /\ r.checkpoint = q.checkpoint /\ CallOk(c, r)
    <2>1. r \in Route /\ r.state = s /\ r.checkpoint = q.checkpoint /\ r.effects = q.effects
      <3> HIDE DEF q, s
      <3> QED BY <1>2, <1>3 DEF Route, RouteStates
    <2> HIDE DEF c, q, s, r
    <2> QED BY <1>2, <1>3, <2>1, ConclusionOk
  <1>6. s # "running"
    OBVIOUS
  <1> HIDE DEF r, s
  <1>7. driver' = [driver EXCEPT !.pc = "unwind"] \/ driver' = Settling("failed")
    BY DEF Interrupt
  <1>8. Moved({"finish"})
    <2>1. [driver EXCEPT !.pc = "unwind"] \in Driver /\ [driver EXCEPT !.pc = "unwind"].pc = "unwind"
      BY DriverFacts DEF IInv, Driver, Places
    <2> QED BY <1>1, <1>2, <1>7, <2>1, SettlingFacts DEF Moved, IInv, Terminal
  <1>9. driver'.pc = "finish" => \A rs : rs[first] = r => DriverOk(driver', turn, rs)
    BY <1>2, LightPlace
  <1> QED BY <1>1, <1>2, <1>4, <1>5, <1>6, <1>8, <1>9, RouteStep

-----------------------------------------------------------------------------
(* The end of a turn *)

LEMMA HoldFacts ==
  ASSUME TypeOK, NEW result \in Result
  PROVE  /\ [driver EXCEPT !.pc = "settle", !.result = result] \in Driver
         /\ [driver EXCEPT !.pc = "settle", !.result = result].pc = "settle"
         /\ [driver EXCEPT !.pc = "settle", !.result = result].result = result
  BY DriverFacts DEF Driver, Places

\* _finish asks the gateway what became of the first pending call.
LEMMA FinishKeeps == IInv /\ Finish => IInv'
  <1> SUFFICES ASSUME IInv, Finish PROVE IInv'
    OBVIOUS
  <1> DEFINE c == turn.calls[first]
             q == routes[last][first]
             hold(result) == driver' = [driver EXCEPT !.pc = "settle", !.result = result]
             routed == Pending(turn) # {} /\ Owned(c.kind) /\ q.state # "none"
             refusing == turn.status = "cancelling" /\ q.state = "pending_approval"
  <1>1. At("finish") /\ UNCHANGED <<turns, reply, host, archived, faults>>
    BY DEF Finish
  <1>2. /\ driver.pc = "finish" /\ reply.pc = "idle" /\ turns # <<>> /\ host \in HostStates \ {"down"}
        /\ turn.status \notin Terminal /\ DriverOk(driver, turn, routes[last])
    BY <1>1, Here, Alive
  <1>3. ASSUME NEW result \in Result, hold(result)
        PROVE  Moved({"settle"}) /\ driver'.pc = "settle" /\ driver'.result = result
    BY <1>1, <1>2, <1>3, HoldFacts DEF Moved, IInv
  <1>4. NoResult \in Result /\ NoResult.outcome = "none"
    BY DriverFacts DEF IInv, NoResult
  <1>5. ASSUME hold(NoResult), UNCHANGED routes
        PROVE  IInv'
    <2>1. driver'.pc = "settle" => DriverOk(driver', turn, routes[last])
      BY <1>2, <1>3, <1>4, <1>5 DEF DriverOk, Working, Quiet, Backed
    <2> HIDE DEF hold
    <2> QED BY <1>1, <1>2, <1>3, <1>4, <1>5, <2>1, IdleStep
  <1>6. ASSUME routed
        PROVE  /\ c \in Call /\ c.result = NoResult /\ q \in Route /\ CallOk(c, q) /\ first = First(turn)
               /\ q.state \in RouteStates /\ Pending(turn) # {} /\ q.state # "running"
    <2>1. /\ c \in Call /\ c.result = NoResult /\ q \in Route /\ CallOk(c, q) /\ first = First(turn)
          /\ q.state \in RouteStates /\ Pending(turn) # {} /\ first \in DOMAIN turn.calls
      BY <1>2, <1>6, FirstOk
    <2> QED BY <1>2, <2>1, OnlyFirstRuns
  <1>7. ASSUME routed, NEW result \in Result, hold(result), UNCHANGED routes, Backed(result, q)
        PROVE  IInv'
    <2>1. driver'.pc = "settle" => DriverOk(driver', turn, routes[last])
      BY <1>2, <1>3, <1>6, <1>7 DEF DriverOk, Working, Quiet
    <2> HIDE DEF hold, routed
    <2> QED BY <1>1, <1>2, <1>3, <1>7, <2>1, IdleStep
  <1>8. ASSUME routed, NEW result \in Result, hold(result), NEW r \in Route,
               routes' = [routes EXCEPT ![last][first] = r], CallOk(c, r), Backed(result, r),
               r.checkpoint = "system_cancel" => q.checkpoint = "system_cancel" \/ turn.status = "cancelling",
               r.state # "running"
        PROVE  IInv'
    <2>1. driver'.pc = "settle" => \A rs : rs[first] = r => DriverOk(driver', turn, rs)
      BY <1>2, <1>3, <1>6, <1>8 DEF DriverOk, Working, Quiet
    <2>2. Moved({"settle"}) /\ Pending(turn) # {}
      BY <1>3, <1>6, <1>8
    <2> HIDE DEF hold, routed
    <2> QED BY <1>1, <1>2, <1>8, <2>1, <2>2, RouteStep
  <1>9. ASSUME routed, refusing, hold([outcome |-> "cancelled", origin |-> "none"]),
               routes' = [routes EXCEPT ![last][first].state = "denied",
                                        ![last][first].checkpoint = "system_cancel"]
        PROVE  IInv'
    <2> DEFINE r == [q EXCEPT !.state = "denied", !.checkpoint = "system_cancel"]
               result == [outcome |-> "cancelled", origin |-> "none"]
    <2>1. r \in Route /\ r.state = "denied" /\ r.checkpoint = "system_cancel" /\ r.effects = q.effects
      <3> HIDE DEF q
      <3> QED BY <1>6, <1>9 DEF Route, RouteStates
    <2>2. routes' = [routes EXCEPT ![last][first] = r]
      <3>1. /\ routes \in Seq(Seq(Route)) /\ last \in DOMAIN routes /\ routes[last] \in Seq(Route)
            /\ first \in DOMAIN routes[last]
        BY <1>2, <1>6, <1>9, TypeFacts, FirstOk DEF IInv, TypeOK
      <3> QED BY <1>9, <3>1
    <2>3. result \in Result /\ Backed(result, r)
      <3> HIDE DEF r
      <3> QED BY <2>1 DEF Result, Outcomes, Backed
    <2> HIDE DEF r
    <2>4. CallOk(c, r)
      <3>1. c.kind = "action" /\ c.gate \notin Decisions /\ q.effects = 0 /\ Backed(c.result, r)
        BY <1>6, <1>9 DEF CallOk, Undecided, Ran, Backed, NoResult
      <3> HIDE DEF c, q
      <3> QED BY <2>1, <3>1 DEF CallOk, Undecided, Ran
    <2> HIDE DEF result
    <2>5. hold(result)
      BY <1>9 DEF result
    <2>6. turn.status = "cancelling"
      BY <1>9
    <2> HIDE DEF hold, routed, refusing
    <2> QED BY <1>8, <1>9, <2>1, <2>2, <2>3, <2>4, <2>5, <2>6
  <1>10. ASSUME routed, refusing, hold([outcome |-> "unknown", origin |-> "recovery"]), UNCHANGED routes
         PROVE  IInv'
    <2> DEFINE result == [outcome |-> "unknown", origin |-> "recovery"]
    <2>1. result \in Result /\ Backed(result, q)
      BY DEF Result, Outcomes, Backed
    <2> QED BY <1>7, <1>10, <2>1
  <1>11. ASSUME routed, q.state \in {"unknown"}, NEW s \in Reconciled(c.kind, q),
                routes' = [routes EXCEPT ![last][first].state = s,
                                         ![last][first].checkpoint = q.checkpoint],
                hold(Projection(s, "recovery"))
         PROVE  IInv'
    <2> DEFINE r == [q EXCEPT !.state = s, !.checkpoint = q.checkpoint]
               result == Projection(s, "recovery")
    <2>1. /\ s \in {"succeeded", "failed", "unknown", "manual_intervention"} /\ s \in RouteStates
          /\ c.kind = "action" => s \in {"unknown", "manual_intervention"} \cup Truth(q)
      BY DEF Reconciled, Truth, RouteStates
    <2>2. r \in Route /\ r.state = s /\ r.checkpoint = q.checkpoint /\ r.effects = q.effects
      <3> HIDE DEF q
      <3> QED BY <1>6, <1>11, <2>1 DEF Route
    <2>3. routes' = [routes EXCEPT ![last][first] = r]
      <3>1. /\ routes \in Seq(Seq(Route)) /\ last \in DOMAIN routes /\ routes[last] \in Seq(Route)
            /\ first \in DOMAIN routes[last]
        BY <1>2, <1>6, <1>11, TypeFacts, FirstOk DEF IInv, TypeOK
      <3> QED BY <1>11, <3>1
    <2> HIDE DEF r
    <2>4. result \in Result /\ Backed(result, r)
      BY <2>1, <2>2, ProjectionFacts DEF IInv
    <2>5. CallOk(c, r)
      <3>1. c \in Call /\ c.result = NoResult /\ q \in Route /\ CallOk(c, q) /\ q.state = "unknown"
        BY <1>6, <1>11
      <3> HIDE DEF c, q
      <3> QED BY <2>1, <2>2, <3>1, ConclusionOk
    <2> HIDE DEF result
    <2>6. hold(result)
      BY <1>11 DEF result
    <2>7. r.state # "running"
      BY <2>1, <2>2
    <2> HIDE DEF hold, routed, refusing
    <2> QED BY <1>8, <1>11, <2>2, <2>3, <2>4, <2>5, <2>6, <2>7
  <1>12. ASSUME routed, q.state \in {"denied", "succeeded", "failed", "manual_intervention"},
                NEW origin \in {"execution", "recovery"}, hold(Projection(q.state, origin)), UNCHANGED routes
         PROVE  IInv'
    <2>1. Projection(q.state, origin) \in Result /\ Backed(Projection(q.state, origin), q)
      BY <1>6, <1>12, ProjectionFacts DEF IInv
    <2> HIDE DEF hold, routed, q
    <2> QED BY <1>7, <1>12, <2>1
  <1>13. routed => q.state # "running"
    BY <1>6
  <1> HIDE DEF c, q
  <1> QED BY <1>5, <1>9, <1>10, <1>11, <1>12, <1>13 DEF Finish, c, q

-----------------------------------------------------------------------------
(* Gates *)

Gates == {"none", "started", "closed", "asked", "answered"} \cup Decisions

LEMMA GateFields ==
  ASSUME NEW c \in Call, NEW g \in Gates
  PROVE  /\ [c EXCEPT !.gate = g] \in Call /\ [c EXCEPT !.gate = g].gate = g
         /\ [c EXCEPT !.gate = g].kind = c.kind /\ [c EXCEPT !.gate = g].result = c.result
  BY DEF Call, Gates

\* The first pending call is asked about or answered.
LEMMA GateStep ==
  ASSUME IInv, turns # <<>>, Pending(turn) # {}, turn.status \notin Terminal,
         NEW s \in Statuses \ (Terminal \cup {"finalizing"}), NEW g \in Gates, NEW r \in Route,
         turns' = [turns EXCEPT ![last].status = s, ![last].calls[first].gate = g],
         routes' = [routes EXCEPT ![last][first] = r], UNCHANGED <<archived, faults>>,
         turn.status = "cancelling" => s = "cancelling",
         s = "waiting_input" => turn.calls[first].kind = "ask",
         s = "waiting_approval" =>
             NeedsApproval(turn.calls[first].kind) /\ g \in {"started"} \cup Decisions,
         r.checkpoint = "system_cancel" => s = "cancelling",
         r.state # "running", CallOk([turn.calls[first] EXCEPT !.gate = g], r),
         driver' \in Driver, reply' \in Reply, reply'.pc = "idle", host' \in HostStates,
         host' = "down" => driver'.pc = "idle",
         \A tn, rs : tn.status = s /\ tn.steps = turn.steps
             => (driver'.pc # "idle" => DriverOk(driver', tn, rs))
  PROVE  IInv'
  <1>1. /\ last \in DOMAIN turns /\ turn \in Turn /\ turn.calls \in Seq(Call) /\ turn = turns[last]
        /\ routes[last] \in Seq(Route) /\ DOMAIN routes[last] = DOMAIN turn.calls
        /\ turns \in Seq(Turn) /\ routes \in Seq(Seq(Route)) /\ DOMAIN routes = DOMAIN turns
    BY TypeFacts DEF IInv, TypeOK, turn
  <1>2. /\ turn.calls[first] \in Call /\ turn.calls[first].result = NoResult
        /\ first \in DOMAIN turn.calls
    BY FirstOk
  <1> DEFINE c == [turn.calls[first] EXCEPT !.gate = g]
             calls == [turn.calls EXCEPT ![first] = c]
             T == [turn EXCEPT !.status = s, !.calls = calls]
             R == [routes[last] EXCEPT ![first] = r]
  <1>3. c \in Call /\ c.result = NoResult /\ c.kind = turn.calls[first].kind /\ c.gate = g
    BY <1>2, GateFields
  <1>4. CallOk(c, r)
    OBVIOUS
  <1>5. turns' = [turns EXCEPT ![last] = T] /\ routes' = [routes EXCEPT ![last] = R]
    BY <1>1, <1>2 DEF Turn
  <1> HIDE DEF c
  <1>6. calls \in Seq(Call)
    BY <1>1, <1>2, <1>3
  <1> HIDE DEF calls
  <1>7. T \in Turn /\ T.status = s /\ T.calls = calls /\ T.retryOf = turn.retryOf /\ T.steps = turn.steps
    BY <1>1, <1>6 DEF Turn
  <1>8. T.calls = [turn.calls EXCEPT ![first] = c] /\ R = [routes[last] EXCEPT ![first] = r]
    BY <1>7 DEF calls
  <1> HIDE DEF T, R
  <1>9. StatusOk(T, R) /\ T.status \notin Terminal
    BY <1>3, <1>7, <1>8, FirstStatus
  <1>10. driver'.pc # "idle" => DriverOk(driver', T, R)
    BY <1>7
  <1>11. archived' \in BOOLEAN /\ faults' \in 0..MaxFaults
    BY DEF IInv, TypeOK
  <1> QED BY <1>3, <1>4, <1>5, <1>7, <1>8, <1>9, <1>10, <1>11, FirstStep

\* A step that leaves routes alone leaves that route alone.
LEMMA SameRoutes ==
  ASSUME IInv, turns # <<>>, Pending(turn) # {}, routes' = routes
  PROVE  routes' = [routes EXCEPT ![last][first] = routes[last][first]]
  <1>1. /\ last \in DOMAIN turns /\ routes \in Seq(Seq(Route)) /\ DOMAIN routes = DOMAIN turns
        /\ routes[last] \in Seq(Route) /\ DOMAIN routes[last] = DOMAIN turn.calls
    BY TypeFacts DEF IInv, TypeOK
  <1>2. first \in DOMAIN turn.calls
    BY FirstOk
  <1>3. routes[last] = [routes[last] EXCEPT ![first] = routes[last][first]]
    BY <1>1, <1>2
  <1> QED BY <1>1, <1>3

\* Nobody is cancelled by the system while the turn goes on.
LEMMA NoSystemCancel ==
  ASSUME IInv, turns # <<>>, Pending(turn) # {}, turn.status \notin {"cancelling"} \cup Terminal
  PROVE  routes[last][first].checkpoint # "system_cancel"
  <1>1. StatusOk(turn, routes[last])
    BY TypeFacts DEF IInv, LedgerInv, TurnOk, turn
  <1> QED BY <1>1, FirstOk DEF StatusOk

\* The task asks a person and returns to its caller.
LEMMA AskStep ==
  ASSUME IInv, driver.pc \in {"calls", "serial", "request"}, reply.pc = "idle", Pending(turn) # {},
         turn.status = "executing_tools", Return, UNCHANGED <<routes, reply, archived, faults>>,
         NEW s \in {"waiting_input", "waiting_approval"}, NEW g \in {"asked", "started"},
         turns' = [turns EXCEPT ![last].status = s, ![last].calls[first].gate = g],
         turn.calls[first].gate = "none",
         s = "waiting_input" => turn.calls[first].kind = "ask",
         s = "waiting_approval" => NeedsApproval(turn.calls[first].kind) /\ g = "started",
         turn.calls[first].kind = "action" => routes[last][first].state = "pending_approval"
  PROVE  IInv'
  <1> DEFINE c == turn.calls[first]
             q == routes[last][first]
  <1>1. /\ turns # <<>> /\ turn.status \notin Terminal /\ host \in HostStates \ {"down"}
    BY Alive
  <1>2. /\ c \in Call /\ c.result = NoResult /\ q \in Route /\ CallOk(c, q) /\ first \in DOMAIN turn.calls
    BY <1>1, FirstOk
  <1>3. q.state # "running"
    BY <1>1, <1>2, OnlyFirstRuns
  <1>4. q.checkpoint # "system_cancel"
    BY <1>1, NoSystemCancel DEF Terminal
  <1>5. CallOk([c EXCEPT !.gate = g], q)
    <2> DEFINE e == [c EXCEPT !.gate = g]
    <2>1. e.gate = g /\ e.kind = c.kind /\ e.result = c.result
      BY <1>2, GateFields DEF Gates
    <2>2. CallOk(c, q) /\ c.gate = "none" /\ (c.kind = "action" => q.state = "pending_approval")
      BY <1>2
    <2> HIDE DEF c, q, e
    <2>3. CallOk(e, q)
      BY <2>1, <2>2 DEF CallOk, Decisions, Ran, Undecided
    <2> QED BY <2>3 DEF e, c, q
  <1>6. Moved({"idle"})
    BY ReturnMoves
  <1>7. \A tn, rs : tn.status = s /\ tn.steps = turn.steps
             => (driver'.pc # "idle" => DriverOk(driver', tn, rs))
    BY <1>6, LightPlace DEF Moved, Terminal
  <1>8. s \in Statuses \ (Terminal \cup {"finalizing"}) /\ g \in Gates
    BY DEF Statuses, Terminal, Gates
  <1>9. routes' = [routes EXCEPT ![last][first] = q]
    BY <1>1, SameRoutes
  <1>10. /\ reply' \in Reply /\ reply'.pc = "idle" /\ UNCHANGED <<archived, faults>>
         /\ driver' \in Driver /\ host' \in HostStates /\ (host' = "down" => driver'.pc = "idle")
    BY <1>6 DEF IInv, TypeOK, Moved
  <1>11. /\ turn.status = "cancelling" => s = "cancelling"
         /\ q.checkpoint = "system_cancel" => s = "cancelling"
         /\ s = "waiting_approval" => NeedsApproval(c.kind) /\ g \in {"started"} \cup Decisions
    BY <1>4
  <1>12. q \in Route
    BY <1>2
  <1> HIDE DEF q
  <1> QED BY <1>1, <1>3, <1>5, <1>7, <1>8, <1>9, <1>10, <1>11, <1>12, GateStep

LEMMA RequestKeeps == IInv /\ Request => IInv'
  <1> SUFFICES ASSUME IInv, Request PROVE IInv'
    OBVIOUS
  <1>1. At("request") /\ UNCHANGED <<routes, reply, archived, faults>> /\ RequestApproval
    BY DEF Request
  <1>2. /\ driver.pc = "request" /\ reply.pc = "idle" /\ Pending(turn) # {} /\ turns # <<>>
        /\ turn.calls[first].kind = "action" /\ turn.calls[first].gate = "none"
        /\ routes[last][first].state = "pending_approval"
    BY <1>1, Here DEF DriverOk, Working, first
  <1>3. CASE Throw /\ UNCHANGED turns
    BY <1>1, <1>2, <1>3, ThrowStep
  <1>4. CASE /\ turn.status = "executing_tools" /\ Return
             /\ turns' = [turns EXCEPT ![last].status = "waiting_approval",
                                       ![last].calls[first].gate = "started"]
    BY <1>1, <1>2, <1>4, AskStep DEF NeedsApproval
  <1> QED BY <1>1, <1>3, <1>4 DEF RequestApproval

\* The group of parallel reads has a size.
LEMMA GroupSize ==
  ASSUME turn.calls \in Seq(Call)
  PROVE  Cardinality(Parallel) \in Nat
  <1>1. Parallel \subseteq 1..Len(turn.calls) /\ Len(turn.calls) \in Nat
    BY DEF Parallel, Pending
  <1>2. IsFiniteSet(1..Len(turn.calls))
    BY <1>1, FS_Interval
  <1> QED BY <1>1, <1>2, FS_Subset, FS_CardinalityType

\* The next call is asked about, planned, executed or refused.
LEMMA ExecuteCallsKeeps == IInv /\ ExecuteCalls => IInv'
  <1> SUFFICES ASSUME IInv, ExecuteCalls PROVE IInv'
    OBVIOUS
  <1> DEFINE c == turn.calls[first]
             grouped == [driver EXCEPT !.group = IF Grouped THEN Cardinality(Parallel) ELSE @]
  <1>1. /\ At(driver.pc) /\ driver.pc \in {"calls", "serial"}
        /\ UNCHANGED <<routes, reply, archived, faults>>
    BY DEF ExecuteCalls, At
  <1>2. /\ driver.pc \in {"calls", "serial"} /\ reply.pc = "idle" /\ turns # <<>> /\ host \in HostStates \ {"down"}
        /\ driver.pc \notin {"idle", "running"} /\ driver \in Driver
        /\ turn.status \notin Terminal \cup {"waiting_input", "finalizing"}
        /\ StatusOk(turn, routes[last])
    BY <1>1, Here, Alive, DriverFacts DEF DriverOk, Quiet, IInv
  <1>3. CASE Throw /\ UNCHANGED turns
    BY <1>1, <1>2, <1>3, ThrowStep
  <1>4. CASE Return /\ UNCHANGED turns
    <2>1. Moved({"idle"})
      BY <1>2, <1>4, ReturnMoves
    <2> QED BY <1>1, <1>2, <1>4, <2>1, IdleStep
  <1>5. CASE Goto("loop") /\ UNCHANGED turns
    <2>1. Moved({"loop"})
      BY <1>2, <1>5, GotoMoves DEF Places
    <2>2. driver'.pc \in {"loop"} \ {"idle"} => DriverOk(driver', turn, routes[last])
      BY <1>2, LightPlace
    <2> QED BY <1>1, <1>2, <1>5, <2>1, <2>2, IdleStep
  <1>6. ASSUME Pending(turn) # {}, Ask, c.kind = "ask", c.gate = "none"
        PROVE  IInv'
    <2>1. CASE /\ turn.status = "executing_tools" /\ Return
               /\ turns' = [turns EXCEPT ![last].status = "waiting_input",
                                         ![last].calls[first].gate = "asked"]
      BY <1>1, <1>2, <1>6, <2>1, AskStep
    <2> QED BY <1>3, <1>6, <2>1 DEF Ask
  <1>7. ASSUME Pending(turn) # {}, RequestApproval, c.kind = "guarded", c.gate = "none"
        PROVE  IInv'
    <2>1. CASE /\ turn.status = "executing_tools" /\ Return
               /\ turns' = [turns EXCEPT ![last].status = "waiting_approval",
                                         ![last].calls[first].gate = "started"]
      BY <1>1, <1>2, <1>7, <2>1, AskStep DEF NeedsApproval
    <2> QED BY <1>3, <1>7, <2>1 DEF RequestApproval
  <1>8. ASSUME Pending(turn) # {}, c.gate = "none" \/ ~NeedsApproval(c.kind)
        PROVE  turn.status # "waiting_approval"
    BY <1>2, <1>8 DEF StatusOk, Decisions, first
  <1>9. ASSUME Pending(turn) # {}, UNCHANGED turns, NEW pc \in {"prepare", "execute", "record"}, Moved({pc}),
               c.gate = "none" \/ ~NeedsApproval(c.kind),
               pc = "prepare" => c.kind = "query" \/ (c.kind = "action" /\ c.gate = "none"),
               pc # "prepare" => c.kind # "action"
        PROVE  IInv'
    <2>1. driver'.pc = pc => DriverOk(driver', turn, routes[last])
      BY <1>2, <1>8, <1>9 DEF DriverOk, Quiet, Working, Owned, first
    <2> QED BY <1>1, <1>2, <1>9, <2>1, IdleStep
  <1>10. ASSUME NEW pc \in {"prepare", "execute", "record"}, Goto(pc)
         PROVE  Moved({pc})
    BY <1>2, <1>10, GotoMoves DEF Places
  <1>11. ASSUME Proceed(Holding("failed", "none"), "record") /\ UNCHANGED host
         PROVE  Moved({"record"})
    <2>1. Holding("failed", "none") \in Driver
      BY HoldingFacts DEF IInv, Outcomes
    <2> QED BY <1>2, <1>11, <2>1, ProceedFacts DEF Moved, Places
  <1>12. ASSUME Proceed(grouped, "execute") /\ UNCHANGED host
         PROVE  Moved({"execute"})
    <2>1. Cardinality(Parallel) \in Nat
      BY <1>2, TypeFacts, GroupSize DEF IInv
    <2>2. grouped \in Driver
      BY <1>2, <2>1 DEF Driver
    <2> HIDE DEF grouped
    <2> QED BY <1>2, <1>12, <2>2, ProceedFacts DEF Moved, Places
  <1>13. ASSUME Pending(turn) # {}, NeedsApproval(c.kind), c.gate \in Decisions, Consume
         PROVE  IInv'
    <2>1. CASE /\ turn.status \in {"executing_tools", "waiting_approval"}
               /\ SetStatus("executing_tools")
               /\ IF c.kind = "guarded" /\ c.gate = "rejected"
                  THEN Proceed(Holding("failed", "none"), "record") /\ UNCHANGED host
                  ELSE Goto("execute")
      <3>1. \/ c.kind = "guarded" /\ Moved({"record"})
            \/ Moved({"execute"})
        BY <1>10, <1>11, <2>1
      <3>2. PICK pc \in {"record", "execute"} : Moved({pc}) /\ (pc = "record" => c.kind = "guarded")
        BY <3>1
      <3>3. ASSUME NEW tn \in Turn, tn.status = "executing_tools", tn.calls = turn.calls, driver'.pc = pc
            PROVE  DriverOk(driver', tn, routes[last])
        <4>1. Pending(tn) # {} /\ First(tn) = first /\ tn.calls[First(tn)] = c
          BY <1>13, <3>3, SameCalls DEF first
        <4> HIDE DEF c
        <4> QED BY <1>13, <3>2, <3>3, <4>1 DEF DriverOk, Quiet, Working, Terminal
      <3>4. turn.status = "cancelling" => "executing_tools" = "cancelling"
        BY <2>1
      <3> QED BY <1>1, <1>2, <2>1, <3>2, <3>3, <3>4, StatusStep
    <2> QED BY <1>3, <1>13, <2>1 DEF Consume
  <1>14. CASE Pending(turn) = {}
    BY <1>4, <1>5, <1>14 DEF ExecuteCalls
  <1>15. CASE Pending(turn) # {}
    <2>1. \/ c.kind = "ask" /\ c.gate = "none" /\ Ask
          \/ c.kind = "guarded" /\ c.gate = "none" /\ RequestApproval
          \/ c.kind = "action" /\ c.gate = "none" /\ Goto("prepare") /\ UNCHANGED turns
          \/ c.gate \in {"asked", "started"} /\ Return /\ UNCHANGED turns
          \/ NeedsApproval(c.kind) /\ c.gate \in Decisions /\ Consume
          \/ c.kind = "query" /\ ~Mismatched /\ Goto("prepare") /\ UNCHANGED turns
          \/ c.kind = "read" /\ ~Mismatched /\ Proceed(grouped, "execute") /\ UNCHANGED <<turns, host>>
          \/ Mismatched /\ Throw /\ UNCHANGED turns
          \/ /\ c.kind \in {"write", "ask"}
             /\ Proceed(Holding("failed", "none"), "record") /\ UNCHANGED <<turns, host>>
      BY <1>15 DEF ExecuteCalls
    <2>2. ~NeedsApproval("query") /\ ~NeedsApproval("read") /\ ~NeedsApproval("write") /\ ~NeedsApproval("ask")
      BY DEF NeedsApproval
    <2> HIDE DEF c, grouped
    <2> QED BY <1>3, <1>4, <1>6, <1>7, <1>9, <1>10, <1>11, <1>13, <1>15, <1>12, <2>1, <2>2
  <1> QED BY <1>14, <1>15

\* _record_tool_result
LEMMA RecordToolResultKeeps == IInv /\ RecordToolResult => IInv'
  <1> SUFFICES ASSUME IInv, RecordToolResult PROVE IInv'
    OBVIOUS
  <1> DEFINE c == turn.calls[first]
             q == routes[last][first]
             r == driver.result
             left == IF driver.group = 0 THEN 0 ELSE driver.group - 1
             next == [driver EXCEPT !.result = NoResult, !.group = left]
             place == IF driver.group = 1 THEN "calls" ELSE "serial"
  <1>1. At("record") /\ UNCHANGED <<routes, reply, archived, faults>>
    BY DEF RecordToolResult
  <1>2. /\ driver.pc = "record" /\ reply.pc = "idle" /\ turns # <<>> /\ host \in HostStates \ {"down"}
        /\ turn \in Turn /\ turn = turns[last] /\ turns \in Seq(Turn) /\ last \in DOMAIN turns
        /\ turn.status \notin Terminal \cup {"waiting_input", "finalizing", "waiting_approval"}
        /\ r \in Result /\ driver \in Driver /\ Pending(turn) # {}
        /\ c.kind = "action" => Backed(r, q)
    <2>1. DriverOk(driver, turn, routes[last]) /\ driver.pc = "record"
      BY <1>1, Here
    <2> QED BY <1>1, <2>1, Here, Alive, DriverFacts DEF DriverOk, Quiet, Working, IInv, first
  <1>3. CASE Throw /\ UNCHANGED turns
    BY <1>1, <1>2, <1>3, ThrowStep
  <1>4. ASSUME turns' = [turns EXCEPT ![last] = SetResult(first, r)],
               NEW places, Moved(places), places \subseteq {"finish", "idle", "calls", "serial"}
        PROVE  IInv'
    <2> DEFINE e == [c EXCEPT !.result = r]
               calls == [turn.calls EXCEPT ![first] = e]
               T == [turn EXCEPT !.calls = calls]
    <2>1. /\ c \in Call /\ q \in Route /\ CallOk(c, q) /\ first \in DOMAIN turn.calls
          /\ turn.calls \in Seq(Call) /\ routes[last] \in Seq(Route) /\ DOMAIN routes[last] = DOMAIN turn.calls
      BY <1>2, FirstOk, TypeFacts DEF IInv
    <2>2. e \in Call /\ e.result = r /\ e.kind = c.kind /\ e.gate = c.gate
      <3>1. c \in Call /\ r \in Result
        BY <1>2, <2>1
      <3> HIDE DEF c, r
      <3> QED BY <3>1 DEF Call
    <2>3. q.state # "running"
      BY <1>2, <2>1, OnlyFirstRuns
    <2>4. CallOk(e, q)
      <3>1. CallOk(c, q) /\ (c.kind = "action" => Backed(r, q))
        BY <1>2, <2>1
      <3> HIDE DEF e, c, q, r
      <3> QED BY <2>2, <2>3, <3>1 DEF CallOk
    <2>5. turns' = [turns EXCEPT ![last] = T] /\ routes' = [routes EXCEPT ![last] = routes[last]]
      <3>1. routes \in Seq(Seq(Route)) /\ last \in DOMAIN routes
        BY <1>2, TypeFacts DEF IInv, TypeOK
      <3>2. SetResult(first, r) = T
        BY <1>2 DEF SetResult, Turn
      <3> QED BY <1>1, <1>4, <3>1, <3>2
    <2> HIDE DEF e
    <2>6. calls \in Seq(Call)
      BY <2>1, <2>2
    <2> HIDE DEF calls
    <2>7. /\ T \in Turn /\ T.status = turn.status /\ T.calls = calls
          /\ T.retryOf = turn.retryOf /\ T.steps = turn.steps
      BY <1>2, <2>6 DEF Turn
    <2> HIDE DEF T
    <2>8. T.calls = [turn.calls EXCEPT ![first] = e] /\ routes[last] = [routes[last] EXCEPT ![first] = q]
      BY <2>1, <2>7 DEF calls
    <2> DEFINE R == routes[last]
    <2>9. StatusOk(T, R) /\ T.status \notin Terminal
      <3>1. turn.status \notin Terminal
        BY <1>2
      <3>2. q.checkpoint = "system_cancel" => T.status = "cancelling"
        BY <1>2, <2>7, NoSystemCancel
      <3> HIDE DEF q, R
      <3>3. R = [routes[last] EXCEPT ![first] = q]
        BY <2>8 DEF R
      <3> QED BY <1>2, <2>1, <2>2, <2>7, <2>8, <3>1, <3>2, <3>3, FirstStatus
    <2>10. driver'.pc # "idle" => DriverOk(driver', T, R)
      BY <1>2, <1>4, <2>7, LightPlace DEF Moved
    <2>11. /\ reply' \in Reply /\ reply'.pc = "idle" /\ archived' \in BOOLEAN /\ faults' \in 0..MaxFaults
           /\ driver' \in Driver /\ host' \in HostStates /\ (host' = "down" => driver'.pc = "idle")
      BY <1>1, <1>2, <1>4 DEF IInv, TypeOK, Moved
    <2>12. R = [routes[last] EXCEPT ![first] = q] /\ routes' = [routes EXCEPT ![last] = R]
      BY <2>5, <2>8
    <2> HIDE DEF R, q
    <2> QED BY <1>2, <2>1, <2>2, <2>3, <2>4, <2>5, <2>7, <2>8, <2>9, <2>10, <2>11, <2>12, FirstStep
  <1>5. Throw => Moved({"finish", "idle"})
    BY <1>2, ThrowMoves
  <1>6. Proceed(next, place) /\ UNCHANGED host => Moved({"calls", "serial"})
    <2>1. left \in Nat
      BY <1>2, DriverFacts DEF IInv
    <2> HIDE DEF left
    <2>2. next \in Driver
      BY <1>2, <2>1, DriverFacts DEF IInv, Driver
    <2> HIDE DEF next
    <2> QED BY <1>2, <2>2, ProceedFacts DEF Moved, Places
  <1>7. \/ Throw /\ UNCHANGED turns
        \/ /\ turns' = [turns EXCEPT ![last] = SetResult(first, r)]
           /\ Throw \/ (Proceed(next, place) /\ UNCHANGED host)
    BY DEF RecordToolResult
  <1> HIDE DEF next, place
  <1> QED BY <1>3, <1>4, <1>5, <1>6, <1>7

LEMMA GateOnly ==
  ASSUME TypeOK, turns # <<>>, NEW g, turns' = [turns EXCEPT ![last].calls[first].gate = g]
  PROVE  turns' = [turns EXCEPT ![last].status = turn.status, ![last].calls[first].gate = g]
  <1>1. last \in DOMAIN turns /\ turn \in Turn /\ turns[last] = turn /\ turns \in Seq(Turn)
    BY TypeFacts DEF turn, TypeOK
  <1> DEFINE calls == [turn.calls EXCEPT ![first].gate = g]
  <1>2. turns' = [turns EXCEPT ![last] = [turn EXCEPT !.calls = calls]]
    BY <1>1
  <1> HIDE DEF calls
  <1>3. [turn EXCEPT !.calls = calls] = [turn EXCEPT !.status = turn.status, !.calls = calls]
    BY <1>1 DEF Turn
  <1>4. turns' = [turns EXCEPT ![last] = [turn EXCEPT !.status = turn.status, !.calls = calls]]
    BY <1>2, <1>3
  <1>5. [turns EXCEPT ![last].status = turn.status, ![last].calls[first].gate = g]
            = [turns EXCEPT ![last] = [turn EXCEPT !.status = turn.status, !.calls = calls]]
    BY <1>1 DEF Turn, calls
  <1> QED BY <1>4, <1>5

\* A task that finds a turn waiting for an approval relies on nothing else.
LEMMA WaitingDriver ==
  ASSUME NEW d, NEW tn, NEW rs, NEW un, NEW us, DriverOk(d, tn, rs),
         tn.status = "waiting_approval", d.pc # "settle",
         un.status = tn.status, un.steps = tn.steps
  PROVE  DriverOk(d, un, us)
  BY DEF DriverOk, Working, Quiet

\* The router acts upon a decision: the session may have it then, and not before.
LEMMA DecideOk ==
  ASSUME NEW c \in Call, NEW q \in Route, CallOk(c, q), c.kind = "action", c.gate = "started",
         c.result = NoResult, NEW d \in Decisions, q.checkpoint = d,
         NEW r, r.state = IF q.state = "pending_approval" THEN Decided(d) ELSE q.state,
         r.checkpoint = d, r.effects = q.effects
  PROVE  /\ CallOk(c, r) /\ CallOk([c EXCEPT !.gate = d], r)
         /\ r.state \in {"ready", "denied"}
  <1>1. q.state \notin Ran /\ q.effects = 0 /\ q.state # "none" /\ (q.state = "ready" => d = "approved")
    BY DEF CallOk, Decisions, Ran
  <1>2. q.state \in RouteStates
    BY RouteFields
  <1>3. r.state \in {"ready", "denied"} /\ (r.state = "ready" => d = "approved") /\ r.effects = 0
    BY <1>1, <1>2 DEF Decided, Ran, RouteStates, Decisions
  <1> DEFINE e == [c EXCEPT !.gate = d]
  <1>4. e.kind = c.kind /\ e.result = c.result /\ e.gate = d
    BY GateFields DEF Gates
  <1> HIDE DEF e
  <1>5. Backed(c.result, r)
    BY DEF Backed, NoResult
  <1>6. CallOk(c, r)
    BY <1>3, <1>5 DEF CallOk, Ran, Undecided, Decisions
  <1>7. CallOk(e, r)
    BY <1>3, <1>4, <1>5 DEF CallOk, Ran, Undecided, Decisions
  <1> QED BY <1>3, <1>6, <1>7 DEF e

\* The first call of a turn that waits for an approval.
LEMMA WaitingFacts ==
  ASSUME IInv, turns # <<>>, turn.status = "waiting_approval"
  PROVE  /\ Pending(turn) # {} /\ NeedsApproval(turn.calls[first].kind)
         /\ turn.calls[first].gate \in {"started"} \cup Decisions
         /\ turn.calls[first] \in Call /\ turn.calls[first].result = NoResult
         /\ routes[last][first] \in Route /\ CallOk(turn.calls[first], routes[last][first])
         /\ first \in DOMAIN turn.calls /\ first = First(turn)
         /\ routes[last][first].checkpoint \in {"none"} \cup Decisions
         /\ driver.pc \notin Working
  <1>1. StatusOk(turn, routes[last])
    BY TypeFacts DEF IInv, LedgerInv, TurnOk, turn
  <1>2. Pending(turn) # {}
    BY <1>1 DEF StatusOk
  <1>3. routes[last][first] \in Route /\ routes[last][first].checkpoint # "system_cancel"
    BY <1>2, FirstOk, NoSystemCancel DEF Terminal
  <1>4. routes[last][first].checkpoint \in {"none"} \cup Decisions
    BY <1>3, RouteFields
  <1>5. driver.pc \notin Working
    BY DEF IInv, DriverInv, DriverOk, Working
  <1> QED BY <1>1, <1>2, <1>4, <1>5, FirstOk DEF StatusOk

LEMMA SyncKeeps == IInv /\ Sync => IInv'
  <1> SUFFICES ASSUME IInv, Sync PROVE IInv'
    OBVIOUS
  <1> DEFINE c == turn.calls[first]
             q == routes[last][first]
             cp == q.checkpoint
             undecided == turn.status = "waiting_approval" /\ c.kind = "action" /\ c.gate = "started"
             leave == \/ driver.task = "turn" /\ driver' = NoDriver /\ UNCHANGED host
                      \/ /\ driver.task = "recovery"
                         /\ IF turn.expired THEN driver' = Settling("failed") /\ UNCHANGED host ELSE Return
  <1>1. At("sync") /\ UNCHANGED <<reply, archived, faults>>
    BY DEF Sync
  <1>2. /\ driver.pc = "sync" /\ driver.pc \notin {"idle", "running"} /\ reply.pc = "idle"
        /\ turns # <<>> /\ host \in HostStates \ {"down"} /\ driver \in Driver
        /\ turn.status \notin Terminal \cup {"waiting_input", "finalizing"}
    BY <1>1, Here, Alive, DriverFacts DEF DriverOk, Quiet, IInv
  <1>3. leave => Moved({"idle", "finish"})
    <2>1. ASSUME driver' = NoDriver, UNCHANGED host
          PROVE  Moved({"idle", "finish"})
      BY <1>2, <2>1, DriverFacts DEF Moved, IInv
    <2>2. ASSUME driver' = Settling("failed"), UNCHANGED host
          PROVE  Moved({"idle", "finish"})
      BY <1>2, <2>2, SettlingFacts DEF Moved, IInv, Terminal
    <2>3. Return => Moved({"idle", "finish"})
      BY <1>2, ReturnMoves DEF Moved
    <2>4. leave => \/ driver' = NoDriver /\ UNCHANGED host
                   \/ driver' = Settling("failed") /\ UNCHANGED host
                   \/ Return
      BY Zenon
    <2> QED BY <2>1, <2>2, <2>3, <2>4
  <1> HIDE DEF leave
  <1>4. ASSUME leave, UNCHANGED <<turns, routes>>
        PROVE  IInv'
    <2>1. driver'.pc \in {"idle", "finish"} \ {"idle"} => DriverOk(driver', turn, routes[last])
      BY <1>2, LightPlace
    <2> QED BY <1>1, <1>2, <1>3, <1>4, <2>1, IdleStep
  <1>5. ASSUME driver' = [driver EXCEPT !.pc = "start"], UNCHANGED <<turns, routes, host>>
        PROVE  IInv'
    <2>1. Moved({"start"}) /\ driver'.pc = "start"
      BY <1>2, <1>5 DEF Moved, Driver, Places
    <2> QED BY <1>1, <1>2, <1>5, <2>1, LightPlace, IdleStep
  <1>6. ASSUME undecided, cp # "none", leave,
               routes' = [routes EXCEPT ![last][first].state =
                            IF @ = "pending_approval" THEN Decided(cp) ELSE @],
               turns' = [turns EXCEPT ![last].calls[first].gate = cp]
        PROVE  IInv'
    <2> DEFINE r == [q EXCEPT !.state = IF @ = "pending_approval" THEN Decided(cp) ELSE @]
    <2>1. /\ c \in Call /\ c.result = NoResult /\ q \in Route /\ CallOk(c, q) /\ Pending(turn) # {}
          /\ cp \in Decisions
      BY <1>2, <1>6, WaitingFacts
    <2>2. /\ r.state = IF q.state = "pending_approval" THEN Decided(cp) ELSE q.state
          /\ r.checkpoint = cp /\ r.effects = q.effects /\ r \in Route
      <3>1. q \in Route
        BY <2>1
      <3> HIDE DEF q
      <3> QED BY <3>1 DEF Route, RouteStates, Decided
    <2>3. routes' = [routes EXCEPT ![last][first] = r]
      BY <1>6
    <2> HIDE DEF r
    <2>4. CallOk([c EXCEPT !.gate = cp], r) /\ r.state # "running"
      <3> HIDE DEF c, q
      <3> QED BY <1>6, <2>1, <2>2, DecideOk
    <2>5. turns' = [turns EXCEPT ![last].status = turn.status, ![last].calls[first].gate = cp]
      BY <1>2, <1>6, GateOnly DEF IInv
    <2>6. \A tn, rs : tn.status = turn.status /\ tn.steps = turn.steps
             => (driver'.pc # "idle" => DriverOk(driver', tn, rs))
      BY <1>2, <1>3, <1>6, LightPlace DEF Moved
    <2>7. /\ driver' \in Driver /\ host' \in HostStates /\ (host' = "down" => driver'.pc = "idle")
          /\ reply' \in Reply /\ reply'.pc = "idle"
      BY <1>1, <1>2, <1>3, <1>6 DEF Moved, IInv, TypeOK
    <2>8. /\ turn.status \in Statuses \ (Terminal \cup {"finalizing"}) /\ cp \in Gates
          /\ NeedsApproval(c.kind) /\ cp \in {"started"} \cup Decisions
          /\ turn.status = "waiting_approval" /\ r.checkpoint # "system_cancel"
      BY <1>2, <1>6, <2>1, <2>2 DEF Statuses, Terminal, Gates, NeedsApproval, Decisions
    <2>9. /\ turns' = [turns EXCEPT ![last].status = "waiting_approval", ![last].calls[first].gate = cp]
          /\ \A tn, rs : tn.status = "waiting_approval" /\ tn.steps = turn.steps
                => (driver'.pc # "idle" => DriverOk(driver', tn, rs))
          /\ "waiting_approval" \in Statuses \ (Terminal \cup {"finalizing"})
      BY <2>5, <2>6, <2>8
    <2>10. /\ Pending(turn) # {} /\ turn.status \notin Terminal /\ turns # <<>>
           /\ turn.status # "cancelling" /\ UNCHANGED <<archived, faults>>
      BY <1>1, <1>2, <2>1, <2>8
    <2>11. ASSUME NEW g \in Gates, g = cp, NEW s \in Statuses \ (Terminal \cup {"finalizing"}),
                  s = "waiting_approval"
           PROVE  IInv'
      <3>1. /\ turns' = [turns EXCEPT ![last].status = s, ![last].calls[first].gate = g]
            /\ \A tn, rs : tn.status = s /\ tn.steps = turn.steps
                  => (driver'.pc # "idle" => DriverOk(driver', tn, rs))
            /\ CallOk([turn.calls[first] EXCEPT !.gate = g], r) /\ r.state # "running" /\ r \in Route
        BY <2>2, <2>4, <2>9, <2>11
      <3>2. /\ turn.status = "cancelling" => s = "cancelling"
            /\ s = "waiting_input" => turn.calls[first].kind = "ask"
            /\ s = "waiting_approval" =>
                  NeedsApproval(turn.calls[first].kind) /\ g \in {"started"} \cup Decisions
            /\ r.checkpoint = "system_cancel" => s = "cancelling"
        BY <2>8, <2>11
      <3> QED BY <2>3, <2>7, <2>10, <3>1, <3>2, GateStep, ZenonT(30)
    <2> QED BY <2>8, <2>9, <2>11
  <1>7. \/ /\ undecided /\ cp # "none"
           /\ routes' = [routes EXCEPT ![last][first].state =
                            IF @ = "pending_approval" THEN Decided(cp) ELSE @]
           /\ turns' = [turns EXCEPT ![last].calls[first].gate = cp]
           /\ leave
        \/ leave /\ UNCHANGED <<turns, routes>>
        \/ driver' = [driver EXCEPT !.pc = "start"] /\ UNCHANGED <<turns, routes, host>>
    BY DEF Sync, leave
  <1> QED BY <1>4, <1>5, <1>6, <1>7

-----------------------------------------------------------------------------
(* Commands of the user *)

\* An answer to the approval a turn waits for reaches the session.
LEMMA AnsweredStep ==
  ASSUME IInv, turns # <<>>, turn.status = "waiting_approval", NEW g \in Decisions, NEW r \in Route,
         turns' = [turns EXCEPT ![last].calls[first].gate = g],
         routes' = [routes EXCEPT ![last][first] = r], UNCHANGED <<driver, host, archived, faults>>,
         driver.pc # "settle", reply' \in Reply, reply'.pc = "idle",
         r.checkpoint # "system_cancel", r.state # "running",
         CallOk([turn.calls[first] EXCEPT !.gate = g], r)
  PROVE  IInv'
  <1>1. /\ Pending(turn) # {} /\ NeedsApproval(turn.calls[first].kind)
        /\ turn.status \notin Terminal
    BY WaitingFacts DEF Terminal
  <1>2. /\ driver' \in Driver /\ host' \in HostStates /\ (host' = "down" => driver'.pc = "idle")
    BY DEF IInv, TypeOK, HostInv, HostStates
  <1>3. turns' = [turns EXCEPT ![last].status = turn.status, ![last].calls[first].gate = g]
    BY GateOnly DEF IInv
  <1>4. ASSUME NEW s \in Statuses \ (Terminal \cup {"finalizing"}), s = turn.status
        PROVE  IInv'
    <2>1. turns' = [turns EXCEPT ![last].status = s, ![last].calls[first].gate = g]
      BY <1>3, <1>4
    <2>2. ASSUME NEW tn, NEW rs, tn.status = s, tn.steps = turn.steps, driver'.pc # "idle"
          PROVE  DriverOk(driver', tn, rs)
      BY <1>4, <2>2, Alive, WaitingDriver
    <2>3. /\ turn.status = "cancelling" => s = "cancelling"
          /\ s = "waiting_input" => turn.calls[first].kind = "ask"
          /\ s = "waiting_approval" =>
                NeedsApproval(turn.calls[first].kind) /\ g \in {"started"} \cup Decisions
          /\ r.checkpoint = "system_cancel" => s = "cancelling"
          /\ g \in Gates
      BY <1>1, <1>4 DEF Gates
    <2>4. \A tn, rs : tn.status = s /\ tn.steps = turn.steps
             => (driver'.pc # "idle" => DriverOk(driver', tn, rs))
      BY <2>2
    <2>5. UNCHANGED <<archived, faults>>
      OBVIOUS
    <2> QED BY <1>1, <1>2, <2>1, <2>3, <2>4, <2>5, GateStep, ZenonT(30)
  <1> QED BY <1>1, <1>4 DEF Statuses, Terminal

\* An answer to the approval a turn waits for reaches the router.
LEMMA AnswerStep ==
  ASSUME IInv, turns # <<>>, turn.status = "waiting_approval", NEW r \in Route,
         routes' = [routes EXCEPT ![last][first] = r],
         UNCHANGED <<turns, driver, host, archived, faults>>,
         driver.pc # "settle", reply' \in Reply, \A rs : rs[first] = r => ReplyOk(reply', turn, rs),
         r.checkpoint # "system_cancel", r.state # "running", CallOk(turn.calls[first], r)
  PROVE  IInv'
  <1>1. /\ last \in DOMAIN turns /\ turn \in Turn /\ turn.calls \in Seq(Call) /\ turn = turns[last]
        /\ routes[last] \in Seq(Route) /\ DOMAIN routes[last] = DOMAIN turn.calls
        /\ turns \in Seq(Turn) /\ routes \in Seq(Seq(Route)) /\ DOMAIN routes = DOMAIN turns
    BY TypeFacts DEF IInv, TypeOK, turn
  <1>2. /\ Pending(turn) # {} /\ NeedsApproval(turn.calls[first].kind) /\ first \in DOMAIN turn.calls
        /\ turn.calls[first].gate \in {"started"} \cup Decisions /\ turn.calls[first] \in Call
        /\ turn.status \notin Terminal /\ turn.calls[first].result = NoResult
    BY WaitingFacts DEF Terminal
  <1> DEFINE R == [routes[last] EXCEPT ![first] = r]
  <1>3. R = [routes[last] EXCEPT ![first] = r] /\ R[first] = r /\ routes' = [routes EXCEPT ![last] = R]
    BY <1>1, <1>2
  <1> HIDE DEF R
  <1>4. turn.calls = [turn.calls EXCEPT ![first] = turn.calls[first]]
    <2>1. turn.calls \in Seq(Call) /\ first \in DOMAIN turn.calls
      BY <1>1, <1>2
    <2> QED BY <2>1
  <1>5. turns' = [turns EXCEPT ![last] = turn]
    BY <1>1
  <1>6. StatusOk(turn, R)
    <2>1. StatusOk(turn, routes[last])
      BY <1>1 DEF IInv, LedgerInv, TurnOk
    <2>2. \A i \in DOMAIN turn.calls : R[i] = IF i = first THEN r ELSE routes[last][i]
      BY <1>1, <1>2, <1>3
    <2> QED BY <2>1, <2>2 DEF StatusOk
  <1>7. driver'.pc # "idle" => DriverOk(driver', turn, R)
    <2>1. driver.pc # "idle" => DriverOk(driver, turn, routes[last])
      BY Alive
    <2> QED BY <2>1, WaitingDriver
  <1>8. /\ driver' \in Driver /\ host' \in HostStates /\ (host' = "down" => driver'.pc = "idle")
        /\ archived' \in BOOLEAN /\ faults' \in 0..MaxFaults
    BY DEF IInv, TypeOK, HostInv, HostStates
  <1>9. reply'.pc # "idle" => ReplyOk(reply', turn, R) /\ driver'.pc # "settle"
    BY <1>3
  <1> QED BY <1>1, <1>2, <1>3, <1>4, <1>5, <1>6, <1>7, <1>8, <1>9, FirstStep

LEMMA AnswerableFacts ==
  ASSUME Answerable
  PROVE  /\ turns # <<>> /\ turn.status = "waiting_approval" /\ reply.pc = "idle"
         /\ driver.pc # "settle" /\ host = "open" /\ turn.calls[first].gate = "started"
  BY DEF Answerable, Active, LockFree

LEMMA ReplyGuardedKeeps ==
  ASSUME IInv, NEW d \in Decisions, ReplyGuarded(d)
  PROVE  IInv'
  <1> DEFINE c == turn.calls[first]
             q == routes[last][first]
  <1>1. /\ turns # <<>> /\ turn.status = "waiting_approval" /\ reply.pc = "idle" /\ host = "open"
        /\ driver.pc # "settle" /\ c.kind = "guarded" /\ UNCHANGED <<routes, driver, reply, host, archived, faults>>
        /\ turns' = [turns EXCEPT ![last].calls[first].gate = d]
    BY AnswerableFacts DEF ReplyGuarded
  <1>2. /\ Pending(turn) # {} /\ c \in Call /\ q \in Route /\ CallOk(c, q) /\ first \in DOMAIN turn.calls
        /\ q.checkpoint # "system_cancel" /\ driver.pc # "running"
    BY <1>1, WaitingFacts DEF Decisions, Working
  <1>3. q.state # "running"
    BY <1>1, <1>2, OnlyFirstRuns
  <1>4. CallOk([c EXCEPT !.gate = d], q)
    <2> DEFINE e == [c EXCEPT !.gate = d]
    <2>1. e.gate = d /\ e.kind = "guarded" /\ e.result = c.result /\ CallOk(c, q)
      BY <1>1, <1>2, GateFields DEF Gates
    <2> HIDE DEF e, q
    <2> QED BY <1>1, <1>3, <2>1 DEF CallOk, e
  <1>5. routes' = [routes EXCEPT ![last][first] = q]
    BY <1>1, <1>2, SameRoutes
  <1>6. reply' \in Reply /\ reply'.pc = "idle"
    BY <1>1 DEF IInv, TypeOK
  <1> HIDE DEF q
  <1> QED BY <1>1, <1>2, <1>3, <1>4, <1>5, <1>6, AnsweredStep

\* The checkpoint of the router, which is never overwritten.
LEMMA ReplyCheckpointKeeps ==
  ASSUME IInv, NEW d \in Decisions, ReplyCheckpoint(d)
  PROVE  IInv'
  <1> DEFINE c == turn.calls[first]
             q == routes[last][first]
             r == [q EXCEPT !.checkpoint = d]
  <1>1. /\ turns # <<>> /\ turn.status = "waiting_approval" /\ reply.pc = "idle" /\ host = "open"
        /\ driver.pc # "settle" /\ c.kind = "action" /\ UNCHANGED <<turns, driver, host, archived, faults>>
        /\ c.gate = "started" /\ q.checkpoint \in {"none", d}
        /\ reply' = [pc |-> "route", decision |-> d]
    BY AnswerableFacts DEF ReplyCheckpoint
  <1>2. /\ Pending(turn) # {} /\ c \in Call /\ q \in Route /\ CallOk(c, q) /\ first = First(turn)
        /\ c.result = NoResult
    BY <1>1, WaitingFacts
  <1>3. r \in Route /\ r.state = q.state /\ r.checkpoint = d /\ r.effects = q.effects
    <2> HIDE DEF q
    <2> QED BY <1>2, RouteFields
  <1>4. routes' = [routes EXCEPT ![last][first] = r]
    BY DEF ReplyCheckpoint
  <1> HIDE DEF r
  <1>5. CallOk(c, r) /\ r.state # "running"
    <2>1. q.state \notin Ran /\ q.state # "none" /\ q.effects = 0 /\ (q.state = "ready" => d = "approved")
      BY <1>1, <1>2 DEF CallOk, Decisions, Ran
    <2>2. Backed(c.result, r)
      BY <1>2 DEF Backed, NoResult
    <2> QED BY <1>1, <1>3, <2>1, <2>2 DEF CallOk, Ran, Undecided, Decisions
  <1>6. reply' \in Reply /\ reply'.pc = "route" /\ reply'.decision = d
    BY <1>1 DEF Reply
  <1>7. \A rs : rs[first] = r => ReplyOk(reply', turn, rs)
    BY <1>1, <1>2, <1>3, <1>6 DEF ReplyOk
  <1>8. r.checkpoint # "system_cancel"
    BY <1>3 DEF Decisions
  <1> QED BY <1>1, <1>3, <1>4, <1>5, <1>6, <1>7, <1>8, AnswerStep

\* What an answer in progress knows.
LEMMA ReplyFacts ==
  ASSUME IInv, reply.pc # "idle"
  PROVE  /\ turns # <<>> /\ turn.status = "waiting_approval" /\ driver.pc # "settle"
         /\ turn.calls[first].kind = "action" /\ turn.calls[first].gate = "started"
         /\ routes[last][first].checkpoint = reply.decision /\ reply.decision \in Decisions
         /\ reply.pc = "append" => routes[last][first].state \notin Undecided
         /\ reply \in Reply
  <1>1. turns # <<>> /\ ReplyOk(reply, turn, routes[last]) /\ driver.pc # "settle" /\ reply \in Reply
    BY DEF IInv, ReplyInv, TypeOK
  <1> QED BY <1>1 DEF ReplyOk, first, Reply

LEMMA ReplyRouteKeeps == IInv /\ ReplyRoute => IInv'
  <1> SUFFICES ASSUME IInv, ReplyRoute PROVE IInv'
    OBVIOUS
  <1> DEFINE c == turn.calls[first]
             q == routes[last][first]
             d == reply.decision
             r == [q EXCEPT !.state = IF @ = "pending_approval" THEN Decided(d) ELSE @]
  <1>1. /\ turns # <<>> /\ turn.status = "waiting_approval" /\ driver.pc # "settle"
        /\ c.kind = "action" /\ c.gate = "started" /\ q.checkpoint = d /\ d \in Decisions
        /\ UNCHANGED <<turns, driver, host, archived, faults>> /\ reply \in Reply
        /\ reply' = [reply EXCEPT !.pc = "append"]
    BY ReplyFacts DEF ReplyRoute
  <1>2. /\ c \in Call /\ c.result = NoResult /\ q \in Route /\ CallOk(c, q) /\ first = First(turn)
    BY <1>1, WaitingFacts
  <1>3. /\ r.state = IF q.state = "pending_approval" THEN Decided(d) ELSE q.state
        /\ r.checkpoint = d /\ r.effects = q.effects /\ r \in Route
    <2>1. q \in Route /\ q.checkpoint = d
      BY <1>1, <1>2
    <2> HIDE DEF q
    <2> QED BY <2>1 DEF Route, RouteStates, Decided
  <1>4. routes' = [routes EXCEPT ![last][first] = r]
    BY DEF ReplyRoute
  <1> HIDE DEF r
  <1>5. CallOk(c, r) /\ r.state \in {"ready", "denied"}
    <2> HIDE DEF c, q
    <2> QED BY <1>1, <1>2, <1>3, DecideOk
  <1>6. reply' \in Reply /\ reply'.pc = "append" /\ reply'.decision = d
    BY <1>1 DEF Reply
  <1>7. \A rs : rs[first] = r => ReplyOk(reply', turn, rs)
    BY <1>1, <1>2, <1>3, <1>5, <1>6 DEF ReplyOk, Undecided
  <1>8. r.checkpoint # "system_cancel" /\ r.state # "running"
    BY <1>1, <1>3, <1>5 DEF Decisions
  <1> QED BY <1>1, <1>3, <1>4, <1>5, <1>6, <1>7, <1>8, AnswerStep

LEMMA ReplyAppendKeeps == IInv /\ ReplyAppend => IInv'
  <1> SUFFICES ASSUME IInv, ReplyAppend PROVE IInv'
    OBVIOUS
  <1> DEFINE c == turn.calls[first]
             q == routes[last][first]
             d == reply.decision
  <1>1. /\ turns # <<>> /\ turn.status = "waiting_approval" /\ driver.pc # "settle"
        /\ c.kind = "action" /\ c.gate = "started" /\ q.checkpoint = d /\ d \in Decisions
        /\ q.state \notin Undecided /\ UNCHANGED <<routes, driver, host, archived, faults>>
        /\ reply' = NoReply /\ turns' = [turns EXCEPT ![last].calls[first].gate = d]
    BY ReplyFacts DEF ReplyAppend
  <1>2. /\ c \in Call /\ c.result = NoResult /\ q \in Route /\ CallOk(c, q) /\ Pending(turn) # {}
    BY <1>1, WaitingFacts
  <1>3. CallOk([c EXCEPT !.gate = d], q) /\ q.state \in {"ready", "denied"}
    <2>1. q.state = IF q.state = "pending_approval" THEN Decided(d) ELSE q.state
      BY <1>1 DEF Undecided
    <2> HIDE DEF c, q
    <2> QED BY <1>1, <1>2, <2>1, DecideOk
  <1>4. routes' = [routes EXCEPT ![last][first] = q]
    BY <1>1, <1>2, SameRoutes
  <1>5. /\ reply' \in Reply /\ reply'.pc = "idle" /\ q.checkpoint # "system_cancel" /\ q.state # "running"
    BY <1>1, <1>3, DriverFacts DEF IInv, Decisions
  <1>6. ASSUME NEW g \in Decisions, g = d
        PROVE  IInv'
    <2>1. CallOk([c EXCEPT !.gate = g], q) /\ turns' = [turns EXCEPT ![last].calls[first].gate = g]
      BY <1>1, <1>3, <1>6
    <2> HIDE DEF q
    <2> QED BY <1>1, <1>2, <1>4, <1>5, <2>1, AnsweredStep
  <1> QED BY <1>1, <1>6

\* A user writes a detail of the open turn.
LEMMA SessionStep ==
  ASSUME IInv, Active, NEW T \in Turn, T.calls = turn.calls, T.retryOf = turn.retryOf,
         T.status = turn.status, T.steps = turn.steps, StatusOk(T, routes[last]),
         turns' = [turns EXCEPT ![last] = T], UNCHANGED <<routes, driver, reply, host, archived, faults>>
  PROVE  IInv'
  <1>1. /\ turns # <<>> /\ turn.status \notin Terminal /\ last \in DOMAIN turns /\ turn = turns[last]
        /\ routes[last] \in Seq(Route) /\ Len(routes[last]) = Len(T.calls)
        /\ TurnOk(turn, routes[last])
    BY TypeFacts DEF IInv, LedgerInv, Active, turn
  <1>2. TurnOk(T, routes[last])
    BY <1>1, SameTurn
  <1>3. driver'.pc # "idle" => DriverOk(driver', T, routes[last])
    <2>1. driver.pc # "idle" => DriverOk(driver, turn, routes[last])
      BY DEF IInv, DriverInv
    <2> QED BY <2>1, SameDriver
  <1>4. reply'.pc # "idle" => ReplyOk(reply', T, routes[last]) /\ driver'.pc # "settle"
    BY SameCalls DEF IInv, ReplyInv, ReplyOk
  <1>5. \A i \in DOMAIN T.calls : routes[last][i].state = "running" => host' = "down" \/ driver'.pc = "running"
    BY <1>1 DEF IInv, HostInv
  <1>6. routes' = [routes EXCEPT ![last] = routes[last]]
    BY <1>1, TypeFacts DEF IInv, TypeOK
  <1>7. /\ driver' \in Driver /\ reply' \in Reply /\ host' \in {"down", "recovering", "open", "closing"}
        /\ archived' \in BOOLEAN /\ faults' \in 0..MaxFaults /\ (host' = "down" => driver'.pc = "idle")
    BY DEF IInv, TypeOK, HostInv
  <1> QED BY <1>1, <1>2, <1>3, <1>4, <1>5, <1>6, <1>7, TurnStep

\* A message may come at any time before the turn is finalised.
LEMMA SteerKeeps ==
  ASSUME IInv, NEW m \in Steers, Steer(m)
  PROVE  IInv'
  <1>1. /\ Active /\ turns # <<>> /\ turn.status \in Steerable
        /\ turns' = [turns EXCEPT ![last].inputs = @ \cup {m}]
        /\ UNCHANGED <<routes, driver, reply, host, archived, faults>>
    BY DEF Steer, Active
  <1>2. turn \in Turn /\ turn = turns[last] /\ StatusOk(turn, routes[last])
    BY <1>1, TypeFacts DEF IInv, LedgerInv, TurnOk, turn
  <1>3. turn.inputs \cup {m} \in SUBSET Inputs
    BY <1>2, TurnFields DEF Inputs
  <1> DEFINE T == [turn EXCEPT !.inputs = turn.inputs \cup {m}]
  <1>4. /\ T \in Turn /\ T.status = turn.status /\ T.calls = turn.calls
        /\ T.retryOf = turn.retryOf /\ T.steps = turn.steps
    BY <1>2, <1>3 DEF Turn
  <1>5. turns' = [turns EXCEPT ![last] = T]
    BY <1>1, <1>2
  <1> HIDE DEF T
  <1>6. turn.status \notin {"finalizing", "completed"}
    BY <1>1 DEF Steerable
  <1>7. StatusOk(T, routes[last])
    BY <1>2, <1>4, <1>6, SameCalls DEF StatusOk
  <1> QED BY <1>1, <1>4, <1>5, <1>7, SessionStep

LEMMA ExpireKeeps == IInv /\ Expire => IInv'
  <1> SUFFICES ASSUME IInv, Expire PROVE IInv'
    OBVIOUS
  <1>1. /\ Active /\ turns # <<>> /\ turns' = [turns EXCEPT ![last].expired = TRUE]
        /\ UNCHANGED <<routes, driver, reply, host, archived, faults>>
    BY DEF Expire, Active
  <1>2. turn \in Turn /\ turn = turns[last] /\ StatusOk(turn, routes[last])
    BY <1>1, TypeFacts DEF IInv, LedgerInv, TurnOk, turn
  <1> DEFINE T == [turn EXCEPT !.expired = TRUE]
  <1>3. /\ T \in Turn /\ T.status = turn.status /\ T.calls = turn.calls /\ T.inputs = turn.inputs
        /\ T.retryOf = turn.retryOf /\ T.steps = turn.steps /\ T.history = turn.history
    BY <1>2 DEF Turn
  <1>4. turns' = [turns EXCEPT ![last] = T]
    BY <1>1, <1>2
  <1> HIDE DEF T
  <1>5. StatusOk(T, routes[last])
    BY <1>2, <1>3, SameCalls DEF StatusOk
  <1> QED BY <1>1, <1>3, <1>4, <1>5, SessionStep

\* The intention to cancel; the task goes on to where it may stop.
LEMMA CancelKeeps == IInv /\ Cancel => IInv'
  <1> SUFFICES ASSUME IInv, Cancel PROVE IInv'
    OBVIOUS
  <1>1. /\ host = "open" /\ reply.pc = "idle" /\ driver.pc # "settle" /\ turns # <<>>
        /\ turn.status \notin Terminal /\ SetStatus("cancelling")
        /\ UNCHANGED <<routes, reply, host, archived, faults>>
    BY DEF Cancel, LockFree, Active
  <1>2. /\ turn \in Turn /\ turn = turns[last] /\ last \in DOMAIN turns
        /\ routes[last] \in Seq(Route) /\ Len(routes[last]) = Len(turn.calls)
        /\ TurnOk(turn, routes[last]) /\ routes \in Seq(Seq(Route)) /\ DOMAIN routes = DOMAIN turns
    BY <1>1, TypeFacts DEF IInv, LedgerInv, turn, TypeOK
  <1> DEFINE T == [turn EXCEPT !.status = "cancelling"]
  <1>3. /\ T \in Turn /\ T.status = "cancelling" /\ T.calls = turn.calls /\ T.retryOf = turn.retryOf
        /\ T.steps = turn.steps
    BY <1>2 DEF Turn, Statuses
  <1>4. turns' = [turns EXCEPT ![last] = T] /\ routes' = [routes EXCEPT ![last] = routes[last]]
    BY <1>1, <1>2 DEF SetStatus
  <1> HIDE DEF T
  <1>5. StatusOk(T, routes[last]) /\ T.status \notin Terminal
    BY <1>2, <1>3, PlainStatus DEF TurnOk
  <1>6. TurnOk(T, routes[last])
    BY <1>2, <1>3, <1>5, SameTurn
  <1>7. CASE driver.pc = "idle"
    <2>1. driver' = [NoDriver EXCEPT !.pc = "finish", !.goal = "cancelled"]
      BY <1>7 DEF Cancel, Idle
    <2>2. driver' \in Driver /\ driver'.pc = "finish"
      BY <2>1, DriverFacts DEF Driver, IInv, Places, Terminal
    <2>3. DriverOk(driver', T, routes[last])
      BY <1>5, <2>2, LightPlace
    <2>4. \A i \in DOMAIN T.calls : routes[last][i].state # "running"
      BY <1>1, <1>2, <1>3, <1>7 DEF IInv, HostInv
    <2> QED BY <1>1, <1>2, <1>3, <1>4, <1>6, <2>2, <2>3, <2>4, TurnStep DEF IInv, TypeOK
  <1>8. CASE driver.pc # "idle"
    <2>1. driver' = [driver EXCEPT !.token = TRUE]
      BY <1>8 DEF Cancel, Idle
    <2>2. driver' \in Driver /\ driver'.pc = driver.pc
      BY <2>1, DriverFacts DEF Driver, IInv
    <2>3. DriverOk(driver', T, routes[last])
      <3>1. DriverOk(driver, turn, routes[last])
        BY <1>8, Alive
      <3>2. Pending(T) = Pending(turn) /\ First(T) = First(turn)
        BY <1>3, SameCalls
      <3>3. driver'.pc = driver.pc /\ T.status = "cancelling" /\ driver.pc # "settle"
            /\ driver'.result = driver.result
        BY <1>1, <1>3, <2>1, <2>2, DriverFacts DEF Driver, IInv
      <3> QED BY <1>3, <3>1, <3>2, <3>3 DEF DriverOk, Terminal
    <2>4. \A i \in DOMAIN T.calls : routes[last][i].state = "running" => driver'.pc = "running"
      BY <1>1, <1>2, <1>3, <2>2 DEF IInv, HostInv
    <2> QED BY <1>1, <1>2, <1>3, <1>4, <1>6, <2>2, <2>3, <2>4, TurnStep DEF IInv, TypeOK
  <1> QED BY <1>7, <1>8

\* Question, answer and result of an ask are one append.
LEMMA ReplyQuestionKeeps == IInv /\ ReplyQuestion => IInv'
  <1> SUFFICES ASSUME IInv, ReplyQuestion PROVE IInv'
    OBVIOUS
  <1> DEFINE c == turn.calls[first]
             q == routes[last][first]
             e == [c EXCEPT !.gate = "answered",
                            !.result = [outcome |-> "succeeded", origin |-> "none"]]
             calls == [turn.calls EXCEPT ![first] = e]
             T == [turn EXCEPT !.status = "executing_tools", !.calls = calls]
  <1>1. /\ host = "open" /\ reply.pc = "idle" /\ driver.pc # "settle" /\ turns # <<>>
        /\ turn.status = "waiting_input" /\ UNCHANGED <<routes, driver, reply, host, archived, faults>>
    BY DEF ReplyQuestion, LockFree, Active
  <1>2. /\ turn \in Turn /\ turn = turns[last] /\ last \in DOMAIN turns /\ turns \in Seq(Turn)
        /\ turn.calls \in Seq(Call) /\ DOMAIN routes[last] = DOMAIN turn.calls
        /\ TurnOk(turn, routes[last]) /\ routes \in Seq(Seq(Route)) /\ DOMAIN routes = DOMAIN turns
        /\ routes[last] \in Seq(Route)
    BY <1>1, TypeFacts DEF IInv, LedgerInv, turn, TypeOK
  <1>3. Pending(turn) # {} /\ c.kind = "ask"
    BY <1>1, <1>2 DEF TurnOk, StatusOk, first
  <1>4. /\ c \in Call /\ q \in Route /\ CallOk(c, q) /\ first \in DOMAIN turn.calls
        /\ q.checkpoint # "system_cancel"
    BY <1>1, <1>3, FirstOk, NoSystemCancel DEF Terminal
  <1>5. e \in Call /\ e.kind = "ask" /\ e.result.outcome = "succeeded"
    <2>1. c \in Call /\ c.kind = "ask"
      BY <1>3, <1>4
    <2> HIDE DEF c
    <2> QED BY <2>1 DEF Call, Result, Outcomes
  <1>6. q.state # "running"
    <2>1. driver.pc # "running"
      BY <1>1 DEF IInv, DriverInv, DriverOk, Quiet
    <2> QED BY <1>1, <1>4, <2>1, OnlyFirstRuns
  <1>7. CallOk(e, q)
    <2>1. CallOk(c, q) /\ c.kind = "ask"
      BY <1>3, <1>4
    <2> HIDE DEF c, e, q
    <2> QED BY <1>5, <1>6, <2>1 DEF CallOk
  <1>8. turns' = [turns EXCEPT ![last] = T]
    <2>1. turns' = [turns EXCEPT ![last].status = "executing_tools", ![last].calls[first] = e]
      BY <1>2, <1>4 DEF ReplyQuestion, Turn
    <2> HIDE DEF e
    <2> QED BY <1>2, <1>4, <2>1 DEF Turn
  <1> HIDE DEF e
  <1>9. calls \in Seq(Call)
    BY <1>2, <1>4, <1>5
  <1> HIDE DEF calls
  <1>10. /\ T \in Turn /\ T.status = "executing_tools" /\ T.calls = calls
         /\ T.retryOf = turn.retryOf
    BY <1>2, <1>9 DEF Turn, Statuses
  <1> HIDE DEF T
  <1>11. T.calls = [turn.calls EXCEPT ![first] = e]
    BY <1>10 DEF calls
  <1> DEFINE R == routes[last]
  <1>12. R = [routes[last] EXCEPT ![first] = q] /\ routes' = [routes EXCEPT ![last] = R]
    BY <1>1, <1>2, <1>4
  <1> HIDE DEF q, R
  <1>13. StatusOk(T, R) /\ T.status \notin Terminal
    <2>1. turn.status \notin Terminal /\ T.status \notin Terminal
      BY <1>1, <1>10 DEF Terminal
    <2> QED BY <1>1, <1>3, <1>4, <1>5, <1>10, <1>11, <1>12, <2>1, FirstStatus
  <1>14. driver'.pc # "idle" => DriverOk(driver', T, R)
    <2>1. driver.pc # "idle" => driver.pc \in {"unwind", "finish", "recover"}
      BY <1>1 DEF IInv, DriverInv, DriverOk, Quiet
    <2> QED BY <1>1, <1>13, <2>1, LightPlace
  <1>15. /\ driver' \in Driver /\ reply' \in Reply /\ host' \in HostStates /\ host' # "down"
         /\ archived' \in BOOLEAN /\ faults' \in 0..MaxFaults /\ reply'.pc = "idle"
    BY <1>1 DEF IInv, TypeOK, HostStates
  <1> QED BY <1>1, <1>3, <1>4, <1>5, <1>6, <1>7, <1>8, <1>10, <1>11, <1>12, <1>13, <1>14, <1>15, FirstStep

-----------------------------------------------------------------------------
(* Where nothing is written to the ledgers *)

LEMMA ResumeKeeps == IInv /\ Resume => IInv'
  <1> SUFFICES ASSUME IInv, Resume PROVE IInv'
    OBVIOUS
  <1>1. /\ host = "open" /\ turns # <<>> /\ turn.status \notin Terminal /\ driver.pc = "idle"
        /\ UNCHANGED <<turns, routes, reply, host, archived, faults>>
    BY DEF Resume, Active, Idle
  <1>2. /\ [NoDriver EXCEPT !.pc = "sync"] \in Driver /\ [NoDriver EXCEPT !.pc = "sync"].pc = "sync"
        /\ [NoDriver EXCEPT !.pc = "finish"] \in Driver /\ [NoDriver EXCEPT !.pc = "finish"].pc = "finish"
    BY DriverFacts DEF Driver, Places, IInv
  <1>3. \/ /\ turn.status \in {"accepted", "waiting_approval", "executing_tools"}
           /\ driver' = [NoDriver EXCEPT !.pc = "sync"]
        \/ driver' = [NoDriver EXCEPT !.pc = "finish"]
    BY DEF Resume
  <1>4. driver' \in Driver /\ DriverOk(driver', turn, routes[last])
    BY <1>1, <1>2, <1>3, LightPlace
  <1>5. driver'.pc # "settle"
    BY <1>2, <1>3
  <1> QED BY <1>1, <1>4, <1>5, QuietStep DEF IInv, TypeOK

LEMMA ArchiveKeeps == IInv /\ Archive => IInv'
  <1> SUFFICES ASSUME IInv, Archive PROVE IInv'
    OBVIOUS
  <1>1. host = "open" /\ archived' = TRUE /\ UNCHANGED <<turns, routes, driver, reply, host, faults>>
    BY DEF Archive
  <1>2. /\ driver'.pc # "idle" => turns # <<>> /\ DriverOk(driver', turn, routes[last])
        /\ reply'.pc # "idle" => driver'.pc # "settle"
    BY <1>1 DEF IInv, DriverInv, ReplyInv
  <1> QED BY <1>1, <1>2, QuietStep DEF IInv, TypeOK

\* A task that was told to stop, that ran out of time or that failed.
LEMMA StopStep ==
  ASSUME IInv, driver.pc \notin {"idle", "running"}, UNCHANGED <<turns, routes, reply, archived>>,
         faults' \in 0..MaxFaults, Moved({"finish", "idle"})
  PROVE  IInv'
  <1>1. /\ turns # <<>> /\ turn.status \notin Terminal /\ host # "down"
    BY Alive
  <1>2. driver'.pc # "idle" => DriverOk(driver', turn, routes[last])
    BY <1>1, LightPlace DEF Moved
  <1>3. driver'.pc # "settle" /\ (host' = "down" => driver'.pc = "idle") /\ driver' \in Driver
        /\ host' \in {"down", "recovering", "open", "closing"}
    BY DEF Moved, HostStates
  <1> QED BY <1>1, <1>2, <1>3, QuietStep DEF IInv, TypeOK

LEMMA CheckpointKeeps == IInv /\ Checkpoint => IInv'
  <1> SUFFICES ASSUME IInv, Checkpoint PROVE IInv'
    OBVIOUS
  <1>1. /\ driver.pc \notin {"idle", "running"} /\ UNCHANGED <<turns, routes, reply, host, archived, faults>>
        /\ driver' = [driver EXCEPT !.pc = "unwind", !.result = NoResult]
    BY DEF Checkpoint, Checkpoints
  <1>2. driver' \in Driver /\ driver'.pc = "unwind"
    BY <1>1, DriverFacts DEF Driver, IInv, Places
  <1>3. Moved({"finish", "idle"}) /\ faults' \in 0..MaxFaults
    BY <1>1, <1>2, Alive DEF Moved, IInv, TypeOK
  <1> QED BY <1>1, <1>3, StopStep

LEMMA TimeoutKeeps == IInv /\ Timeout => IInv'
  <1> SUFFICES ASSUME IInv, Timeout PROVE IInv'
    OBVIOUS
  <1>1. /\ driver.pc \notin {"idle", "running"} /\ UNCHANGED <<turns, routes, reply, host, archived, faults>>
        /\ driver' = Settling("failed")
    BY DEF Timeout, Checkpoints
  <1>2. driver' \in Driver /\ driver'.pc = "finish"
    BY <1>1, SettlingFacts DEF IInv, Terminal
  <1>3. Moved({"finish", "idle"}) /\ faults' \in 0..MaxFaults
    BY <1>1, <1>2, Alive DEF Moved, IInv, TypeOK
  <1> QED BY <1>1, <1>3, StopStep

LEMMA DriverFailsKeeps == IInv /\ DriverFails => IInv'
  <1> SUFFICES ASSUME IInv, DriverFails PROVE IInv'
    OBVIOUS
  <1>1. driver.pc \notin {"idle", "running"} /\ Throw /\ UNCHANGED <<turns, routes, reply, archived>>
    BY DEF DriverFails, Checkpoints
  <1>2. faults' \in 0..MaxFaults
    BY BoundsAssumption DEF DriverFails, IInv, TypeOK
  <1> QED BY <1>1, <1>2, ThrowMoves, StopStep

\* The intention to cancel is stored, if it is not yet.
LEMMA UnwindKeeps == IInv /\ Unwind => IInv'
  <1> SUFFICES ASSUME IInv, Unwind PROVE IInv'
    OBVIOUS
  <1>1. At("unwind") /\ UNCHANGED <<routes, reply, host, archived, faults>> /\ driver' = Settling("cancelled")
    BY DEF Unwind
  <1>2. /\ driver.pc \notin {"idle", "running"} /\ reply.pc = "idle" /\ host \in HostStates \ {"down"}
        /\ driver.pc # "idle" /\ turn.status \notin Terminal
    BY <1>1, Here, Alive
  <1>3. driver' \in Driver /\ driver'.pc = "finish"
    BY <1>1, SettlingFacts DEF IInv, Terminal
  <1>4. Moved({"finish"})
    BY <1>1, <1>2, <1>3 DEF Moved
  <1>5. CASE UNCHANGED turns
    BY <1>1, <1>2, <1>4, <1>5, LightPlace, IdleStep
  <1>6. CASE SetStatus("cancelling")
    <2>1. \A tn \in Turn : tn.status = "cancelling" => DriverOk(driver', tn, routes[last])
      BY <1>3, LightPlace DEF Terminal
    <2> QED BY <1>1, <1>2, <1>4, <1>6, <2>1, StatusStep
  <1> QED BY <1>5, <1>6 DEF Unwind

\* Nothing that may have had an effect is started again.
LEMMA RecoverKeeps == IInv /\ Recover => IInv'
  <1> SUFFICES ASSUME IInv, Recover PROVE IInv'
    OBVIOUS
  <1>1. At("recover") /\ UNCHANGED <<turns, routes, reply, archived, faults>>
    BY DEF Recover
  <1>2. /\ driver.pc \notin {"idle", "running"} /\ reply.pc = "idle" /\ host \in HostStates \ {"down"}
        /\ driver.pc # "idle" /\ turn.status \notin Terminal /\ driver \in Driver
    BY <1>1, Here, Alive, DriverFacts DEF IInv
  <1>3. CASE Return
    BY <1>1, <1>2, <1>3, ReturnMoves, IdleStep
  <1>4. ASSUME NEW goal \in {"failed", "interrupted"}, driver' = Settling(goal), UNCHANGED host
        PROVE  IInv'
    <2>1. driver' \in Driver /\ driver'.pc = "finish"
      BY <1>4, SettlingFacts DEF IInv, Terminal
    <2>2. Moved({"finish"})
      BY <1>2, <1>4, <2>1 DEF Moved
    <2> QED BY <1>1, <1>2, <2>2, LightPlace, IdleStep
  <1>5. ASSUME NEW pc \in {"calls", "sync"}, driver' = [driver EXCEPT !.pc = pc], UNCHANGED host,
               turn.status \in {"executing_tools", "waiting_approval"}
        PROVE  IInv'
    <2>1. driver' \in Driver /\ driver'.pc = pc
      BY <1>2, <1>5 DEF Driver, Places
    <2>2. Moved({pc})
      BY <1>2, <1>5, <2>1 DEF Moved
    <2>3. DriverOk(driver', turn, routes[last])
      BY <1>2, <1>5, <2>1, LightPlace
    <2> QED BY <1>1, <1>2, <2>2, <2>3, IdleStep
  <1>6. \/ Return
        \/ driver' = Settling("failed") /\ UNCHANGED host
        \/ driver' = Settling("interrupted") /\ UNCHANGED host
        \/ /\ turn.status = "executing_tools"
           /\ driver' = [driver EXCEPT !.pc = "calls"] /\ UNCHANGED host
        \/ /\ turn.status = "waiting_approval"
           /\ driver' = [driver EXCEPT !.pc = "sync"] /\ UNCHANGED host
    BY DEF Recover
  <1> QED BY <1>3, <1>4, <1>5, <1>6

-----------------------------------------------------------------------------
(* The host *)

LEMMA ReopenKeeps == IInv /\ Reopen => IInv'
  <1> SUFFICES ASSUME IInv, Reopen PROVE IInv'
    OBVIOUS
  <1>1. /\ host = "down" /\ UNCHANGED <<turns, routes, reply, archived, faults>>
        /\ \A k \in DOMAIN routes : \A i \in DOMAIN routes[k] : routes[k][i].state # "running"
    BY DEF Reopen
  <1>2. /\ DOMAIN routes = DOMAIN turns
        /\ \A k \in DOMAIN turns : DOMAIN routes[k] = DOMAIN turns[k].calls
    <2>1. DOMAIN routes = DOMAIN turns
      BY DEF IInv, TypeOK
    <2>2. ASSUME NEW k \in DOMAIN turns
          PROVE  DOMAIN routes[k] = DOMAIN turns[k].calls
      <3>1. turns[k] \in Turn /\ routes[k] \in Seq(Route) /\ Len(routes[k]) = Len(turns[k].calls)
        BY <2>1 DEF IInv, TypeOK
      <3>2. turns[k].calls \in Seq(Call)
        BY <3>1 DEF Turn
      <3> QED BY <3>1, <3>2
    <2> QED BY <2>1, <2>2
  <1>3. CASE Active
    <2>1. turns # <<>> /\ turn.status \notin Terminal
      BY <1>3 DEF Active
    <2>2. driver' = [NoDriver EXCEPT !.pc = "recover", !.task = "recovery"] /\ host' = "recovering"
      BY <1>3 DEF Reopen
    <2>3. driver' \in Driver /\ driver'.pc = "recover"
      BY <2>2, DriverFacts DEF Driver, Places, IInv
    <2>4. DriverOk(driver', turn, routes[last])
      BY <2>1, <2>3, LightPlace
    <2>5. driver.pc = "idle"
      BY <1>1 DEF IInv, HostInv
    <2> QED BY <1>1, <1>2, <2>1, <2>2, <2>3, <2>4, <2>5, QuietStep DEF IInv, TypeOK
  <1>4. CASE ~Active
    <2>1. driver' = NoDriver /\ host' = "open"
      BY <1>4 DEF Reopen
    <2>2. driver' \in Driver /\ driver'.pc = "idle" /\ driver.pc = "idle"
      BY <1>1, <2>1, DriverFacts DEF IInv, HostInv
    <2> QED BY <1>1, <1>2, <2>1, <2>2, QuietStep DEF IInv, TypeOK
  <1> QED BY <1>3, <1>4

LEMMA ReplyFailsKeeps == IInv /\ ReplyFails => IInv'
  <1> SUFFICES ASSUME IInv, ReplyFails PROVE IInv'
    OBVIOUS
  <1>1. /\ reply' = NoReply /\ faults < MaxFaults /\ faults' = faults + 1
        /\ UNCHANGED <<turns, routes, driver, host, archived>>
    BY DEF ReplyFails
  <1>2. faults' \in 0..MaxFaults /\ reply' \in Reply /\ reply'.pc = "idle"
    BY <1>1, BoundsAssumption, DriverFacts DEF IInv, TypeOK
  <1>3. /\ driver'.pc # "idle" => turns # <<>> /\ DriverOk(driver', turn, routes[last])
        /\ host' = "down" => driver'.pc = "idle"
    BY <1>1 DEF IInv, DriverInv, HostInv
  <1> QED BY <1>1, <1>2, <1>3, QuietStep DEF IInv, TypeOK

LEMMA CrashKeeps == IInv /\ Crash => IInv'
  <1> SUFFICES ASSUME IInv, Crash PROVE IInv'
    OBVIOUS
  <1>1. /\ host' = "down" /\ driver' = NoDriver /\ reply' = NoReply /\ faults < MaxFaults
        /\ faults' = faults + 1 /\ UNCHANGED <<turns, routes, archived>>
    BY DEF Crash
  <1>2. /\ faults' \in 0..MaxFaults /\ reply' \in Reply /\ reply'.pc = "idle"
        /\ driver' \in Driver /\ driver'.pc = "idle"
    BY <1>1, BoundsAssumption, DriverFacts DEF IInv, TypeOK
  <1> QED BY <1>1, <1>2, QuietStep DEF IInv, TypeOK

LEMMA CloseKeeps == IInv /\ Close => IInv'
  <1> SUFFICES ASSUME IInv, Close PROVE IInv'
    OBVIOUS
  <1>1. /\ host = "open" /\ host' = "closing" /\ faults < MaxFaults
        /\ faults' = faults + 1 /\ UNCHANGED <<turns, routes, reply, archived>>
        /\ driver' = driver \/ driver' = [driver EXCEPT !.token = TRUE]
    BY DEF Close
  <1>2. /\ faults' \in 0..MaxFaults /\ driver' \in Driver /\ driver'.pc = driver.pc
        /\ driver'.result = driver.result
    <2>1. driver' \in Driver /\ driver'.pc = driver.pc /\ driver'.result = driver.result
      BY <1>1, DriverFacts DEF IInv, Driver
    <2>2. faults' \in 0..MaxFaults
      BY <1>1, BoundsAssumption DEF IInv, TypeOK
    <2> QED BY <2>1, <2>2
  <1>3. driver'.pc # "idle" => turns # <<>> /\ DriverOk(driver', turn, routes[last])
    <2>1. driver.pc # "idle" => turns # <<>> /\ DriverOk(driver, turn, routes[last])
      BY DEF IInv, DriverInv
    <2> QED BY <1>2, <2>1 DEF DriverOk
  <1>4. reply'.pc # "idle" => driver'.pc # "settle"
    BY <1>1, <1>2 DEF IInv, ReplyInv
  <1> QED BY <1>1, <1>2, <1>3, <1>4, QuietStep DEF IInv, TypeOK

LEMMA ClosedKeeps == IInv /\ Closed => IInv'
  <1> SUFFICES ASSUME IInv, Closed PROVE IInv'
    OBVIOUS
  <1>1. /\ host' = "down" /\ driver.pc = "idle" /\ reply.pc = "idle"
        /\ UNCHANGED <<turns, routes, driver, reply, archived, faults>>
    BY DEF Closed, Idle, LockFree
  <1> QED BY <1>1, QuietStep DEF IInv, TypeOK

\* The product settles the router's doubts while the runtime is down.
LEMMA SettleRouteKeeps ==
  ASSUME IInv, NEW k \in DOMAIN routes, NEW i \in DOMAIN routes[k], SettleRoute(k, i)
  PROVE  IInv'
  <1> DEFINE q == routes[k][i]
             c == turns[k].calls[i]
  <1>1. /\ host = "down" /\ q.state \in {"running", "unknown"}
        /\ UNCHANGED <<turns, driver, reply, host, archived, faults>>
    BY DEF SettleRoute
  <1>2. PICK s \in Reconciled(c.kind, q) \ {"unknown"} : routes' = [routes EXCEPT ![k][i].state = s]
    BY DEF SettleRoute
  <1> DEFINE r == [q EXCEPT !.state = s]
  <1>3. /\ k \in DOMAIN turns /\ DOMAIN routes = DOMAIN turns /\ routes \in Seq(Seq(Route))
        /\ routes[k] \in Seq(Route) /\ q \in Route /\ turns[k] \in Turn
        /\ Len(routes[k]) = Len(turns[k].calls)
    BY DEF IInv, TypeOK
  <1>4. turns[k].calls \in Seq(Call) /\ DOMAIN routes[k] = DOMAIN turns[k].calls
    <2>1. turns[k].calls \in Seq(Call)
      BY <1>3 DEF Turn
    <2> QED BY <1>3, <2>1
  <1>5. CallOk(c, q) /\ TurnOk(turns[k], routes[k])
    BY <1>3, <1>4 DEF IInv, LedgerInv, TurnOk
  <1>6. /\ s \in {"succeeded", "failed", "manual_intervention"} /\ s \in RouteStates
        /\ c.kind = "action" => s = "manual_intervention" \/ s \in Truth(q)
    BY <1>2 DEF Reconciled, Truth, RouteStates
  <1>7. r \in Route /\ r.state = s /\ r.checkpoint = q.checkpoint /\ r.effects = q.effects
    <2> HIDE DEF q
    <2> QED BY <1>3, <1>6, RouteFields
  <1>8. CallOk(c, r)
    <2> HIDE DEF c, q, r
    <2>1. c.kind = "action" => /\ q.effects \in {0, 1} /\ c.gate = "approved" /\ q.checkpoint = "approved"
                               /\ s = "succeeded" => q.effects = 1
                               /\ s = "failed" => q.effects = 0
      BY <1>1, <1>5, <1>6 DEF CallOk, Truth, Ran, Decisions
    <2>2. c.kind = "action" => Backed(c.result, r)
      BY <1>1, <1>5 DEF CallOk, Backed
    <2> QED BY <1>5, <1>6, <1>7, <2>1, <2>2 DEF CallOk, Ran, Undecided, Decisions
  <1> DEFINE R == [routes[k] EXCEPT ![i] = r]
  <1>9. routes' = [routes EXCEPT ![k] = R]
    BY <1>2, <1>3
  <1>10. \A j \in DOMAIN routes[k] : R[j] = IF j = i THEN r ELSE routes[k][j]
    BY <1>3
  <1> HIDE DEF r, q
  <1>11. R \in Seq(Route) /\ Len(R) = Len(routes[k])
    BY <1>3, <1>7
  <1> HIDE DEF R
  <1>12. /\ routes' \in Seq(Seq(Route)) /\ Len(routes') = Len(routes)
         /\ \A m \in DOMAIN turns : routes'[m] = IF m = k THEN R ELSE routes[m]
    BY <1>3, <1>9, <1>11
  <1>13. last' = last /\ turn' = turn
    BY <1>1 DEF last, turn
  <1>14. TypeOK'
    BY <1>1, <1>3, <1>11, <1>12 DEF IInv, TypeOK
  <1>15. TurnOk(turns[k], R)
    <2>1. InOrder(turns[k], R)
      <3> SUFFICES ASSUME NEW a \in Pending(turns[k]), NEW b \in Pending(turns[k]), b < a
                   PROVE  turns[k].calls[a].gate = "none" /\ R[a] = NoRoute
        BY DEF InOrder
      <3>1. turns[k].calls[a].gate = "none" /\ routes[k][a] = NoRoute /\ a \in DOMAIN routes[k]
        BY <1>4, <1>5 DEF TurnOk, InOrder, Pending
      <3>2. a # i
        BY <1>1, <3>1 DEF NoRoute, q
      <3> QED BY <1>10, <3>1, <3>2
    <2>2. StatusOk(turns[k], R)
      BY <1>4, <1>5, <1>7, <1>10 DEF TurnOk, StatusOk, q
    <2>3. \A j \in DOMAIN turns[k].calls : CallOk(turns[k].calls[j], R[j])
      BY <1>4, <1>5, <1>8, <1>10 DEF TurnOk
    <2> QED BY <1>5, <2>1, <2>2, <2>3 DEF TurnOk
  <1>16. LedgerInv'
    BY <1>1, <1>3, <1>12, <1>13, <1>15 DEF IInv, LedgerInv, RetryOk
  <1>17. DriverInv'
    BY <1>1 DEF IInv, HostInv, DriverInv
  <1>18. ReplyInv'
    <2> SUFFICES ASSUME reply.pc # "idle" PROVE ReplyOk(reply, turn, routes'[last]) /\ driver.pc # "settle"
      BY <1>1, <1>13, ReplyFacts DEF ReplyInv
    <2>1. /\ turns # <<>> /\ turn.status = "waiting_approval" /\ ReplyOk(reply, turn, routes[last])
          /\ driver.pc # "settle"
      BY ReplyFacts DEF IInv, ReplyInv
    <2>2. first \in DOMAIN turn.calls /\ First(turn) = first /\ last \in DOMAIN turns
          /\ DOMAIN routes[last] = DOMAIN turn.calls
      BY <2>1, WaitingFacts, TypeFacts DEF IInv
    <2>3. /\ routes'[last][first].checkpoint = routes[last][first].checkpoint
          /\ routes'[last][first].state \in {s, routes[last][first].state}
      BY <1>7, <1>10, <1>12, <2>2 DEF q
    <2> QED BY <1>6, <2>1, <2>2, <2>3 DEF ReplyOk, Undecided
  <1>19. HostInv'
    <2> SUFFICES ASSUME NEW m \in DOMAIN turns, NEW j \in DOMAIN turns[m].calls,
                        routes'[m][j].state = "running"
                 PROVE  m = last
      BY <1>1, <1>13 DEF IInv, HostInv
    <2>1. routes[m][j].state = "running"
      BY <1>4, <1>6, <1>7, <1>10, <1>12
    <2> QED BY <2>1 DEF IInv, HostInv
  <1> QED BY <1>14, <1>16, <1>17, <1>18, <1>19 DEF IInv

-----------------------------------------------------------------------------
(* Turns that begin, grow and end *)

\* A new turn has no calls, and the one before it is over.
LEMMA AcceptKeeps ==
  ASSUME IInv, NEW mode \in {"immediate", "deferred"}, NEW source \in 0..MaxTurns, Accept(mode, source)
  PROVE  IInv'
  <1> DEFINE N == NewTurn(mode, source)
  <1>1. /\ host = "open" /\ reply.pc = "idle" /\ driver.pc = "idle" /\ ~Active /\ last < MaxTurns
        /\ source # 0 => source = last /\ Retryable(turn)
        /\ turns' = Append(turns, N) /\ routes' = Append(routes, <<>>)
        /\ UNCHANGED <<reply, host, archived, faults>>
    BY DEF Accept, LockFree, Idle
  <1>2. /\ turns \in Seq(Turn) /\ routes \in Seq(Seq(Route)) /\ Len(routes) = Len(turns)
        /\ last \in Nat /\ last = Len(turns)
    BY DEF IInv, TypeOK, last
  <1>3. /\ N \in Turn /\ N.calls = <<>> /\ N.status = "accepted" /\ N.retryOf = source /\ N.steps = 0
    <2>1. <<>> \in Seq(Call) /\ 0 \in 0..MaxSteps /\ 0 \in 0..MaxAttempts
      BY BoundsAssumption
    <2> QED BY <2>1 DEF NewTurn, Turn, Statuses, Inputs
  <1> HIDE DEF N
  <1>4. <<>> \in Seq(Route)
    OBVIOUS
  <1>5. /\ turns' \in Seq(Turn) /\ Len(turns') = last + 1 /\ DOMAIN turns' = 1..(last + 1)
        /\ DOMAIN turns = 1..last
        /\ \A k \in DOMAIN turns : turns'[k] = turns[k]
        /\ turns'[last + 1] = N
    BY <1>1, <1>2, <1>3
  <1>6. /\ routes' \in Seq(Seq(Route)) /\ Len(routes') = last + 1
        /\ \A k \in DOMAIN turns : routes'[k] = routes[k]
        /\ routes'[last + 1] = <<>>
    BY <1>1, <1>2, <1>4
  <1>7. last' = last + 1 /\ turn' = N /\ routes'[last'] = <<>> /\ turns' # <<>>
    BY <1>2, <1>5, <1>6 DEF last, turn
  <1>8. driver' \in Driver /\ driver'.pc \in {"start", "idle"}
    <2>1. driver' = [NoDriver EXCEPT !.pc = "start"] \/ driver' = [NoDriver EXCEPT !.pc = "idle"]
      BY DEF Accept
    <2> QED BY <2>1, DriverFacts DEF Driver, Places, IInv
  <1>9. TypeOK'
    <2>1. \A k \in DOMAIN turns' : Len(routes'[k]) = Len(turns'[k].calls)
      <3>1. \A k \in DOMAIN turns : Len(routes'[k]) = Len(turns'[k].calls)
        BY <1>5, <1>6 DEF IInv, TypeOK
      <3>2. Len(routes'[last + 1]) = Len(turns'[last + 1].calls)
        BY <1>3, <1>5, <1>6
      <3>3. \A k \in DOMAIN turns' : k \in DOMAIN turns \/ k = last + 1
        BY <1>2, <1>5
      <3> QED BY <3>1, <3>2, <3>3
    <2> QED BY <1>1, <1>2, <1>5, <1>6, <1>8, <2>1, BoundsAssumption DEF IInv, TypeOK
  <1>10. LedgerInv'
    <2>1. TurnOk(N, <<>>)
      <3>1. Pending(N) = {} /\ DOMAIN N.calls = {}
        BY <1>3 DEF Pending
      <3> QED BY <1>3, <3>1 DEF TurnOk, InOrder, StatusOk, Over, Terminal
    <2>2. ASSUME NEW k \in DOMAIN turns
          PROVE  TurnOk(turns[k], routes[k]) /\ turns[k].status \in Terminal /\ RetryOk(k) /\ k \in 1..last
      <3>1. k = last => turns[k].status \in Terminal
        BY <1>1, <1>2, <1>5 DEF Active, turn
      <3>2. k < last => turns[k].status \in Terminal
        BY DEF IInv, LedgerInv
      <3>3. k \in 1..last /\ (k < last \/ k = last)
        BY <1>2, <1>5
      <3> QED BY <3>1, <3>2, <3>3 DEF IInv, LedgerInv
    <2>3. ASSUME NEW k \in DOMAIN turns
          PROVE  RetryOk(k)'
      <3>1. turns[k].retryOf \in Nat /\ turns'[k] = turns[k]
        <4>1. turns[k] \in Turn
          BY <1>2
        <4> QED BY <1>5, <4>1, BoundsAssumption DEF Turn
      <3>2. turns[k].retryOf # 0 => turns[k].retryOf \in DOMAIN turns
        BY <1>2, <1>5, <2>2, <3>1 DEF RetryOk
      <3> QED BY <1>5, <2>2, <3>1, <3>2 DEF RetryOk
    <2>4. ASSUME NEW k, k = last + 1
          PROVE  RetryOk(k)'
      <3> SUFFICES ASSUME source # 0
                   PROVE  /\ source < k
                          /\ \A i \in DOMAIN turns'[source].calls :
                                turns'[source].calls[i].result.outcome # "unknown"
        <4>1. turns'[k].retryOf = source
          BY <1>3, <1>5, <2>4
        <4> QED BY <4>1 DEF RetryOk
      <3>1. source = last /\ last \in DOMAIN turns /\ turns'[source] = turn
        BY <1>1, <1>2, <1>5 DEF turn
      <3> QED BY <1>1, <1>2, <2>4, <3>1 DEF Retryable
    <2> SUFFICES ASSUME NEW k \in DOMAIN turns'
                 PROVE  /\ TurnOk(turns'[k], routes'[k])
                        /\ k < last' => turns'[k].status \in Terminal
                        /\ RetryOk(k)'
      BY DEF LedgerInv
    <2>5. CASE k \in DOMAIN turns
      BY <1>5, <1>6, <2>2, <2>3, <2>5
    <2>6. CASE k = last + 1
      BY <1>2, <1>5, <1>6, <1>7, <2>1, <2>4, <2>6
    <2> QED BY <1>2, <1>5, <2>5, <2>6
  <1>11. DriverInv'
    <2>1. driver'.pc # "idle" => DriverOk(driver', N, <<>>)
      BY <1>3, <1>8, LightPlace DEF Terminal
    <2> QED BY <1>7, <2>1 DEF DriverInv
  <1>12. ReplyInv'
    BY <1>1 DEF ReplyInv
  <1>13. HostInv'
    <2>1. host' = "open"
      BY <1>1
    <2>2. ASSUME NEW k \in DOMAIN turns', NEW i \in DOMAIN turns'[k].calls, routes'[k][i].state = "running"
          PROVE  FALSE
      <3>1. k \in DOMAIN turns
        BY <1>2, <1>3, <1>5
      <3> QED BY <1>1, <1>5, <1>6, <2>2, <3>1 DEF IInv, HostInv
    <2> QED BY <2>1, <2>2 DEF HostInv
  <1> QED BY <1>9, <1>10, <1>11, <1>12, <1>13 DEF IInv

\* Positions of two sequences put together.
LEMMA ConcatFacts ==
  ASSUME NEW S, NEW s \in Seq(S), NEW t \in Seq(S)
  PROVE  /\ s \o t \in Seq(S) /\ Len(s \o t) = Len(s) + Len(t)
         /\ Len(s) \in Nat /\ Len(t) \in Nat
         /\ \A i \in DOMAIN (s \o t) :
               \/ i \in DOMAIN s /\ i <= Len(s) /\ (s \o t)[i] = s[i]
               \/ /\ i > Len(s) /\ i \in Nat /\ i - Len(s) \in DOMAIN t
                  /\ (s \o t)[i] = t[i - Len(s)]
  <1>1. s \o t \in Seq(S) /\ Len(s \o t) = Len(s) + Len(t) /\ Len(s) \in Nat /\ Len(t) \in Nat
    OBVIOUS
  <1>2. ASSUME NEW i \in DOMAIN (s \o t)
        PROVE  \/ i \in DOMAIN s /\ i <= Len(s) /\ (s \o t)[i] = s[i]
               \/ /\ i > Len(s) /\ i \in Nat /\ i - Len(s) \in DOMAIN t
                  /\ (s \o t)[i] = t[i - Len(s)]
    <2>1. i \in 1..(Len(s) + Len(t))
      BY <1>1
    <2>2. (s \o t)[i] = IF i <= Len(s) THEN s[i] ELSE t[i - Len(s)]
      BY <2>1, ConcatProperties
    <2>3. CASE i <= Len(s)
      BY <1>1, <2>1, <2>2, <2>3
    <2>4. CASE i > Len(s)
      <3>1. i - Len(s) \in 1..Len(t)
        BY <1>1, <2>1, <2>4
      <3> QED BY <1>1, <2>1, <2>2, <2>4, <3>1
    <2> QED BY <1>1, <2>1, <2>3, <2>4
  <1> QED BY <1>1, <1>2

\* The turn with new calls, and its routes with entries that have no state yet.
Extended(new) == [turn EXCEPT !.calls = turn.calls \o new]
Planless(new) == routes[last] \o [i \in DOMAIN new |-> NoRoute]

Response == [i \in DOMAIN driver.response |-> NewCall(driver.response[i])]

LEMMA ResponseCalls ==
  ASSUME IInv, driver.pc = "group"
  PROVE  /\ Response \in Seq(Call)
         /\ \A i \in DOMAIN Response : /\ Response[i].gate = "none"
                                       /\ Response[i].result.outcome \in {"none", "failed"}
  <1>1. turn.steps \in 1..MaxSteps
    <2>1. turns # <<>> /\ turn.steps > 0 /\ turn \in Turn
      BY Alive, TypeFacts DEF IInv, DriverOk
    <2>2. turn.steps \in 0..MaxSteps
      BY <2>1, TurnFields
    <2> QED BY <2>1, <2>2, BoundsAssumption
  <1>2. driver.response \in Seq(Kinds)
    BY DriverFacts DEF IInv
  <1>3. ASSUME NEW kind \in Kinds
        PROVE  /\ NewCall(kind) \in Call /\ NewCall(kind).gate = "none"
               /\ NewCall(kind).result.outcome \in {"none", "failed"}
    BY <1>1 DEF NewCall, Call, Result, NoResult, Outcomes
  <1>4. \A i \in DOMAIN driver.response : Response[i] = NewCall(driver.response[i])
    BY DEF Response
  <1>5. Response \in Seq(Call)
    <2>1. DOMAIN driver.response = 1..Len(driver.response) /\ Len(driver.response) \in Nat
      BY <1>2
    <2>2. \A i \in DOMAIN driver.response : NewCall(driver.response[i]) \in Call
      BY <1>2, <1>3
    <2>3. Response \in [1..Len(driver.response) -> Call]
      BY <2>1, <2>2 DEF Response
    <2> QED BY <2>1, <2>3
  <1>6. DOMAIN Response = DOMAIN driver.response
    BY DEF Response
  <1>7. \A i \in DOMAIN driver.response : driver.response[i] \in Kinds
    BY <1>2
  <1>8. ASSUME NEW i \in DOMAIN Response
        PROVE  Response[i].gate = "none" /\ Response[i].result.outcome \in {"none", "failed"}
    <2>1. Response[i] = NewCall(driver.response[i]) /\ driver.response[i] \in Kinds
      BY <1>4, <1>6, <1>7
    <2> QED BY <1>3, <2>1, Zenon
  <1> QED BY <1>5, <1>8

LEMMA PlanlessFacts ==
  ASSUME IInv, turns # <<>>, NEW new \in Seq(Call)
  PROVE  /\ Planless(new) \in Seq(Route) /\ Len(Planless(new)) = Len(turn.calls) + Len(new)
         /\ \A i \in DOMAIN Planless(new) :
               \/ i <= Len(turn.calls) /\ Planless(new)[i] = routes[last][i]
               \/ i > Len(turn.calls) /\ Planless(new)[i] = NoRoute
  <1> DEFINE plans == [i \in DOMAIN new |-> NoRoute]
             R == routes[last] \o plans
  <1>1. /\ plans \in Seq(Route) /\ Len(plans) = Len(new) /\ \A i \in DOMAIN plans : plans[i] = NoRoute
    <2>1. NoRoute \in Route
      BY DEF NoRoute, Route, RouteStates
    <2> QED BY <2>1
  <1>2. routes[last] \in Seq(Route) /\ Len(routes[last]) = Len(turn.calls)
    BY TypeFacts DEF IInv
  <1> HIDE DEF plans
  <1>3. /\ R \in Seq(Route) /\ Len(R) = Len(routes[last]) + Len(plans)
        /\ \A i \in DOMAIN R :
              \/ i \in DOMAIN routes[last] /\ i <= Len(routes[last]) /\ R[i] = routes[last][i]
              \/ /\ i > Len(routes[last]) /\ i \in Nat /\ i - Len(routes[last]) \in DOMAIN plans
                 /\ R[i] = plans[i - Len(routes[last])]
    <2>1. routes[last] \in Seq(Route)
      BY <1>2
    <2>2. plans \in Seq(Route)
      BY <1>1
    <2> QED BY <2>1, <2>2, ConcatFacts, Zenon
  <1>4. Planless(new) = R
    BY DEF Planless, plans
  <1> HIDE DEF R
  <1> QED BY <1>1, <1>2, <1>3, <1>4

\* What was there stays where it was.
LEMMA ExtendedFacts ==
  ASSUME IInv, turns # <<>>, NEW new \in Seq(Call)
  PROVE  /\ Extended(new) \in Turn /\ Extended(new).status = turn.status
         /\ Extended(new).retryOf = turn.retryOf /\ Extended(new).steps = turn.steps
         /\ Extended(new).inputs = turn.inputs /\ Extended(new).history = turn.history
         /\ Extended(new).calls = turn.calls \o new /\ Extended(new).calls \in Seq(Call)
         /\ Len(Extended(new).calls) = Len(turn.calls) + Len(new)
         /\ \A i \in DOMAIN Extended(new).calls :
               \/ /\ i \in DOMAIN turn.calls /\ i <= Len(turn.calls)
                  /\ Extended(new).calls[i] = turn.calls[i]
               \/ /\ i > Len(turn.calls) /\ i - Len(turn.calls) \in DOMAIN new
                  /\ Extended(new).calls[i] = new[i - Len(turn.calls)]
  <1>1. turn \in Turn /\ turn.calls \in Seq(Call)
    BY TypeFacts DEF IInv
  <1> DEFINE calls == turn.calls \o new
  <1>2. /\ calls \in Seq(Call) /\ Len(calls) = Len(turn.calls) + Len(new)
        /\ Len(turn.calls) \in Nat /\ Len(new) \in Nat
        /\ \A i \in DOMAIN calls :
              \/ i \in DOMAIN turn.calls /\ i <= Len(turn.calls) /\ calls[i] = turn.calls[i]
              \/ /\ i > Len(turn.calls) /\ i \in Nat /\ i - Len(turn.calls) \in DOMAIN new
                 /\ calls[i] = new[i - Len(turn.calls)]
    BY <1>1, ConcatFacts, Zenon
  <1>3. Extended(new) = [turn EXCEPT !.calls = calls]
    BY DEF Extended
  <1> HIDE DEF calls
  <1>4. /\ Extended(new) \in Turn /\ Extended(new).status = turn.status /\ Extended(new).calls = calls
        /\ Extended(new).retryOf = turn.retryOf /\ Extended(new).steps = turn.steps
        /\ Extended(new).inputs = turn.inputs /\ Extended(new).history = turn.history
    BY <1>1, <1>2, <1>3 DEF Turn
  <1> QED BY <1>2, <1>4 DEF calls

\* The calls of a response become durable together, and none has a route yet.
LEMMA CommitCallsKeeps == IInv /\ CommitCalls => IInv'
  <1> SUFFICES ASSUME IInv, CommitCalls PROVE IInv'
    OBVIOUS
  <1> DEFINE new == Response
             plans == [i \in DOMAIN new |-> NoRoute]
             next == [driver EXCEPT !.response = <<>>]
  <1>1. At("group") /\ UNCHANGED <<reply, archived, faults>>
    BY DEF CommitCalls
  <1>2. /\ driver.pc = "group" /\ reply.pc = "idle" /\ turns # <<>> /\ host \in HostStates \ {"down"}
        /\ driver.pc \notin {"idle", "running"} /\ driver.pc # "idle"
        /\ turn \in Turn /\ turn = turns[last] /\ turns \in Seq(Turn) /\ last \in DOMAIN turns
        /\ turn.status \notin Terminal \cup {"waiting_input", "finalizing"}
        /\ TurnOk(turn, routes[last]) /\ turn.steps > 0
    BY <1>1, Here, Alive DEF DriverOk, Quiet
  <1>3. /\ turn.calls \in Seq(Call) /\ routes[last] \in Seq(Route) /\ Len(routes[last]) = Len(turn.calls)
        /\ routes \in Seq(Seq(Route)) /\ DOMAIN routes = DOMAIN turns /\ turn.steps \in 1..MaxSteps
    <2>1. turn.steps \in 0..MaxSteps
      BY <1>2, TurnFields
    <2> QED BY <1>2, <2>1, TypeFacts, BoundsAssumption DEF IInv, TypeOK
  <1>4. CASE Throw /\ UNCHANGED <<turns, routes>>
    BY <1>1, <1>2, <1>4, ThrowStep
  <1>5. ASSUME NEW pc \in {"schedule", "close"}, Proceed(next, pc), UNCHANGED host
        PROVE  Moved({pc})
    <2>1. next \in Driver
      <3>1. driver \in Driver /\ <<>> \in Seq(Kinds)
        BY DriverFacts DEF IInv
      <3> QED BY <3>1 DEF Driver
    <2> QED BY <1>2, <1>5, <2>1, ProceedFacts DEF Moved, Places
  <1>6. CASE /\ turn.status = "calling_model" \/ new = <<>>
             /\ turns' = [turns EXCEPT ![last].calls = @ \o new]
             /\ routes' = [routes EXCEPT ![last] = @ \o plans]
             /\ UNCHANGED host
             /\ \E pc \in {"schedule", "close"} : Proceed(next, pc)
    <2>1. PICK pc \in {"schedule", "close"} : Moved({pc})
      BY <1>5, <1>6
    <2>2. /\ new \in Seq(Call)
          /\ \A i \in DOMAIN new : new[i].gate = "none" /\ new[i].result.outcome \in {"none", "failed"}
      BY <1>2, ResponseCalls
    <2> DEFINE T == Extended(new)
               R == Planless(new)
    <2>6. turns' = [turns EXCEPT ![last] = T] /\ routes' = [routes EXCEPT ![last] = R]
      BY <1>2, <1>3, <1>6 DEF Extended, Planless
    <2> HIDE DEF new, next
    <2>7. /\ T \in Turn /\ T.status = turn.status /\ T.calls \in Seq(Call)
          /\ T.retryOf = turn.retryOf /\ T.steps = turn.steps /\ T.inputs = turn.inputs
          /\ T.history = turn.history /\ T.calls = turn.calls \o new
          /\ Len(T.calls) = Len(turn.calls) + Len(new)
      BY <1>2, <2>2, ExtendedFacts
    <2>5. R \in Seq(Route) /\ Len(R) = Len(T.calls)
      BY <1>2, <2>2, <2>7, PlanlessFacts
    <2>4. /\ \A i \in DOMAIN T.calls :
                \/ i \in DOMAIN turn.calls /\ i <= Len(turn.calls) /\ T.calls[i] = turn.calls[i]
                \/ /\ i > Len(turn.calls) /\ i - Len(turn.calls) \in DOMAIN new
                   /\ T.calls[i] = new[i - Len(turn.calls)]
          /\ \A i \in DOMAIN R :
                \/ i <= Len(turn.calls) /\ R[i] = routes[last][i]
                \/ i > Len(turn.calls) /\ R[i] = NoRoute
      BY <1>2, <2>2, ExtendedFacts, PlanlessFacts
    <2> HIDE DEF T, R
    <2>8. ASSUME NEW i \in DOMAIN T.calls
          PROVE  \/ /\ i \in DOMAIN turn.calls /\ T.calls[i] = turn.calls[i] /\ R[i] = routes[last][i]
                    /\ i <= Len(turn.calls)
                 \/ /\ T.calls[i].gate = "none" /\ T.calls[i].result.outcome \in {"none", "failed"}
                    /\ R[i] = NoRoute /\ i > Len(turn.calls)
      <3>1. i \in DOMAIN R /\ i \in Nat /\ Len(turn.calls) \in Nat
        BY <1>3, <2>5, <2>7
      <3> QED BY <2>2, <2>4, <3>1
    <2>9. \A i \in DOMAIN T.calls : CallOk(T.calls[i], R[i]) /\ R[i].state # "running"
      <3>1. \A i \in DOMAIN turn.calls : CallOk(turn.calls[i], routes[last][i]) /\ routes[last][i].state # "running"
        BY <1>2, OnlyFirstRuns DEF TurnOk
      <3>2. ASSUME NEW c, c.gate = "none", c.result.outcome \in {"none", "failed"}
            PROVE  CallOk(c, NoRoute) /\ NoRoute.state # "running"
        BY <3>2 DEF CallOk, NoRoute, Backed, Undecided, Ran, Decisions
      <3> QED BY <2>8, <3>1, <3>2
    <2>10. InOrder(T, R)
      <3> SUFFICES ASSUME NEW i \in Pending(T), NEW j \in Pending(T), j < i
                   PROVE  T.calls[i].gate = "none" /\ R[i] = NoRoute
        BY DEF InOrder
      <3>1. i \in DOMAIN T.calls /\ j \in DOMAIN T.calls /\ i \in Nat /\ j \in Nat
        BY <2>7 DEF Pending
      <3>2. CASE i <= Len(turn.calls)
        <4>1. /\ i \in DOMAIN turn.calls /\ T.calls[i] = turn.calls[i] /\ R[i] = routes[last][i]
          BY <1>3, <2>7, <2>8, <3>1, <3>2
        <4>3. j <= Len(turn.calls)
          BY <1>3, <3>1, <3>2
        <4>4. j \in DOMAIN turn.calls /\ T.calls[j] = turn.calls[j]
          BY <1>3, <2>7, <2>8, <3>1, <4>3
        <4>2. i \in Pending(turn) /\ j \in Pending(turn)
          BY <4>1, <4>4 DEF Pending
        <4> QED BY <1>2, <4>1, <4>2 DEF TurnOk, InOrder
      <3>3. CASE i > Len(turn.calls)
        BY <1>3, <2>8, <3>1, <3>3
      <3> QED BY <1>3, <3>1, <3>2, <3>3
    <2>11. CASE turn.status = "calling_model"
      <3>1. StatusOk(T, R)
        <4>1. \A i \in DOMAIN T.calls : R[i].checkpoint # "system_cancel"
          BY <1>2, <2>8, <2>11 DEF TurnOk, StatusOk, NoRoute, Terminal
        <4> QED BY <2>7, <2>11, <4>1 DEF StatusOk
      <3>2. TurnOk(T, R) /\ Len(R) = Len(T.calls)
        BY <2>5, <2>7, <2>9, <2>10, <2>11, <3>1 DEF TurnOk, Over, Terminal
      <3>3. driver'.pc # "idle" => DriverOk(driver', T, R)
        BY <1>2, <2>1, <2>7, LightPlace DEF Moved
      <3> QED BY <1>1, <1>2, <2>1, <2>5, <2>6, <2>7, <2>9, <3>2, <3>3, TurnStep DEF Moved, IInv, TypeOK, HostStates
    <2>12. CASE new = <<>>
      <3>1. plans = <<>>
        BY <2>12
      <3>2. turn.calls \o new = turn.calls /\ R = routes[last]
        BY <1>3, <2>12, <3>1, ConcatEmptySeq DEF R, Planless
      <3>3. T = turn
        BY <1>2, <3>2 DEF T, Extended, Turn
      <3>4. UNCHANGED <<turns, routes>>
        BY <1>2, <1>3, <2>6, <3>2, <3>3
      <3>5. driver'.pc \in {pc} \ {"idle"} => DriverOk(driver', turn, routes[last])
        BY <1>2, LightPlace
      <3> QED BY <1>1, <1>2, <2>1, <3>4, <3>5, IdleStep
    <2> QED BY <1>6, <2>11, <2>12
  <1>7. CASE /\ turn.status = "calling_model" \/ new = <<>>
             /\ turns' = [turns EXCEPT ![last].calls = @ \o new]
             /\ routes' = [routes EXCEPT ![last] = @ \o plans]
             /\ Proceed(next, IF \E i \in DOMAIN new : new[i].kind # "rejected" THEN "schedule" ELSE "close")
             /\ UNCHANGED host
    BY <1>6, <1>7
  <1> QED BY <1>4, <1>7 DEF CommitCalls, Response

\* What a settled turn says of each of its calls.
LEMMA SettledCall ==
  ASSUME IInv, driver.pc = "settle", NEW i \in DOMAIN turn.calls
  PROVE  LET c == turn.calls[i]
             e == Settled.calls[i]
         IN /\ e \in Call /\ e.kind = c.kind /\ e.result # NoResult
            /\ e.gate = IF c.gate = "started" THEN "closed" ELSE c.gate
            /\ i \notin Pending(turn) => e.result = c.result
            /\ i \in Pending(turn) =>
                  \/ i = first /\ e.result = driver.result /\ Recovered(i) = driver.result
                  \/ /\ ~ReadOnly(c.kind) => e.result.outcome = "unknown"
                     /\ Recovered(i) = NoResult
  <1> DEFINE c == turn.calls[i]
             e == [c EXCEPT !.gate = IF @ = "started" THEN "closed" ELSE @,
                            !.result = IF i \notin Pending(turn) THEN @
                                       ELSE IF Recovered(i) = NoResult THEN Missing(c.kind)
                                       ELSE Recovered(i)]
  <1>1. /\ turns # <<>> /\ turn \in Turn /\ turn.calls \in Seq(Call) /\ driver.result \in Result
    BY Alive, TypeFacts, DriverFacts DEF IInv
  <1>2. c \in Call /\ c.result \in Result
    <2>1. c \in Call
      BY <1>1
    <2> HIDE DEF c
    <2> QED BY <2>1 DEF Call
  <1>3. Settled.calls[i] = e
    BY <1>1 DEF Settled, Turn
  <1>4. /\ Missing(c.kind) \in Result /\ Missing(c.kind) # NoResult
        /\ ~ReadOnly(c.kind) => Missing(c.kind).outcome = "unknown"
    BY DEF Missing, Result, NoResult, Outcomes
  <1>5. Recovered(i) \in Result /\ (Recovered(i) = NoResult \/ (i = first /\ Recovered(i) = driver.result))
    BY <1>1 DEF Recovered, Result, NoResult
  <1>6. i \notin Pending(turn) => c.result # NoResult
    BY DEF Pending
  <1> DEFINE g == IF c.gate = "started" THEN "closed" ELSE c.gate
             res == IF i \notin Pending(turn) THEN c.result
                    ELSE IF Recovered(i) = NoResult THEN Missing(c.kind) ELSE Recovered(i)
  <1>7. g \in Gates /\ res \in Result
    BY <1>2, <1>4, <1>5 DEF Gates, Call
  <1>8. e = [c EXCEPT !.gate = g, !.result = res]
    BY <1>2 DEF Call
  <1>9. /\ res # NoResult
        /\ i \notin Pending(turn) => res = c.result
        /\ i \in Pending(turn) =>
              \/ i = first /\ res = driver.result /\ Recovered(i) = driver.result
              \/ /\ ~ReadOnly(c.kind) => res.outcome = "unknown"
                 /\ Recovered(i) = NoResult
    BY <1>4, <1>5, <1>6
  <1> HIDE DEF e, g, res, c
  <1>10. e \in Call /\ e.kind = c.kind /\ e.gate = g /\ e.result = res
    BY <1>2, <1>7, <1>8 DEF Call, Gates
  <1>11. g = IF c.gate = "started" THEN "closed" ELSE c.gate
    BY DEF g
  <1> QED BY <1>3, <1>9, <1>10, <1>11 DEF c

LEMMA SettledFields ==
  ASSUME IInv, driver.pc = "settle"
  PROVE  /\ Settled \in Turn /\ Settled.status = FinalStatus /\ FinalStatus \in Terminal
         /\ Settled.retryOf = turn.retryOf /\ Settled.inputs = turn.inputs
         /\ Settled.history = turn.history /\ Settled.attempt # "running"
         /\ Settled.calls \in Seq(Call) /\ Len(Settled.calls) = Len(turn.calls)
         /\ DOMAIN Settled.calls = DOMAIN turn.calls
  <1> DEFINE attempt == IF turn.attempt = "running" THEN "closed" ELSE turn.attempt
             calls == Settled.calls
  <1>1. turn \in Turn /\ turn.calls \in Seq(Call)
    BY Alive, TypeFacts DEF IInv
  <1>2. FinalStatus \in Terminal
    BY DriverFacts DEF FinalStatus, Terminal, IInv
  <1>3. DOMAIN calls = DOMAIN turn.calls
    BY <1>1 DEF Settled, Turn
  <1>4. \A i \in DOMAIN turn.calls : calls[i] \in Call
    BY SettledCall
  <1>5. calls = [i \in 1..Len(turn.calls) |-> calls[i]]
    BY <1>1 DEF Settled, Turn
  <1>6. calls \in Seq(Call) /\ Len(calls) = Len(turn.calls)
    <2> HIDE DEF calls
    <2>1. Len(turn.calls) \in Nat /\ \A i \in 1..Len(turn.calls) : calls[i] \in Call
      BY <1>1, <1>4 DEF calls
    <2> QED BY <1>5, <2>1
  <1>7. Settled = [turn EXCEPT !.status = FinalStatus, !.attempt = attempt, !.calls = calls]
    BY <1>1 DEF Settled, Turn
  <1>8. attempt \in {"none", "failed", "overflow", "completed", "closed"}
    BY <1>1 DEF Turn
  <1> HIDE DEF attempt, calls
  <1>9. FinalStatus \in Statuses
    BY <1>2 DEF Statuses
  <1>10. /\ Settled \in Turn /\ Settled.status = FinalStatus
         /\ Settled.retryOf = turn.retryOf /\ Settled.inputs = turn.inputs
         /\ Settled.history = turn.history /\ Settled.attempt = attempt
    BY <1>1, <1>6, <1>7, <1>8, <1>9 DEF Turn
  <1> QED BY <1>2, <1>3, <1>6, <1>8, <1>10 DEF calls

\* A turn is settled with every call accounted for.
LEMMA SettledOk ==
  ASSUME IInv, driver.pc = "settle", Consistent
  PROVE  TurnOk(Settled, routes[last])
  <1>1. /\ turns # <<>> /\ TurnOk(turn, routes[last]) /\ DriverOk(driver, turn, routes[last])
        /\ turn.calls \in Seq(Call) /\ host # "down"
    BY Alive, TypeFacts DEF IInv
  <1>2. Pending(Settled) = {}
    BY SettledCall, SettledFields DEF Pending
  <1>3. ASSUME NEW i \in DOMAIN turn.calls
        PROVE  CallOk(Settled.calls[i], routes[last][i])
    <2> DEFINE c == turn.calls[i]
               e == Settled.calls[i]
               q == routes[last][i]
    <2>1. CallOk(c, q) /\ q.state # "running"
      BY <1>1, OnlyFirstRuns DEF TurnOk
    <2>2. /\ e.kind = c.kind /\ e.gate = IF c.gate = "started" THEN "closed" ELSE c.gate
      BY SettledCall
    <2>3. c.kind = "action" => Backed(e.result, q)
      <3> SUFFICES ASSUME c.kind = "action" PROVE Backed(e.result, q)
        OBVIOUS
      <3>1. CASE i \notin Pending(turn)
        <4>1. e.result = c.result
          BY <3>1, SettledCall
        <4> QED BY <2>1, <4>1 DEF CallOk
      <3>2. CASE i \in Pending(turn) /\ i = first /\ e.result = driver.result
        BY <1>1, <3>2 DEF DriverOk, first
      <3>3. CASE e.result.outcome = "unknown"
        BY <3>3 DEF Backed
      <3> QED BY <3>1, <3>2, <3>3, SettledCall DEF ReadOnly
    <2> HIDE DEF c, e, q
    <2>4. CallOk(e, q)
      BY <2>1, <2>2, <2>3 DEF CallOk, Decisions
    <2> QED BY <2>4 DEF e, q
  <1>4. InOrder(Settled, routes[last])
    BY <1>2 DEF InOrder
  <1>5. StatusOk(Settled, routes[last])
    <2>1. Settled.status \in Terminal /\ DOMAIN Settled.calls = DOMAIN turn.calls
      BY SettledFields
    <2>2. Settled.status = "completed" => Settled.inputs = Settled.history
      <3>1. Settled.status = "completed" => turn.status = "finalizing"
        BY DEF Consistent
      <3> QED BY <1>1, <3>1, SettledFields DEF TurnOk, StatusOk
    <2> QED BY <2>1, <2>2 DEF StatusOk, Terminal
  <1>6. Over(Settled)
    <2>1. ASSUME NEW i \in DOMAIN turn.calls
          PROVE  /\ Settled.calls[i].gate # "started"
                 /\ Settled.calls[i].kind = "action" /\ Settled.status # "interrupted" =>
                       Settled.calls[i].result.outcome # "unknown"
      <3>1. Settled.calls[i].gate # "started"
        BY SettledCall
      <3>2. ASSUME Settled.calls[i].kind = "action", Settled.status # "interrupted"
            PROVE  Settled.calls[i].result.outcome # "unknown"
        <4>1. ~InDoubt
          BY <3>2, SettledFields DEF FinalStatus
        <4>2. ~ReadOnly(turn.calls[i].kind)
          BY <3>2, SettledCall DEF ReadOnly
        <4>3. CASE i \notin Pending(turn)
          <5>1. Settled.calls[i].result = turn.calls[i].result
            BY <4>3, SettledCall
          <5> QED BY <4>1, <5>1 DEF InDoubt
        <4>4. CASE i \in Pending(turn)
          <5>1. Recovered(i).outcome \notin {"none", "unknown"}
            BY <4>1, <4>2, <4>4 DEF InDoubt
          <5>2. Recovered(i) # NoResult
            BY <5>1 DEF NoResult
          <5>3. Settled.calls[i].result = driver.result /\ Recovered(i) = driver.result
            BY <4>4, <5>2, SettledCall
          <5> QED BY <5>1, <5>3
        <4> QED BY <4>3, <4>4
      <3> QED BY <3>1, <3>2
    <2> QED BY <1>2, <2>1, SettledFields DEF Over
  <1> QED BY <1>3, <1>4, <1>5, <1>6, SettledFields DEF TurnOk

LEMMA SettleKeeps == IInv /\ Settle => IInv'
  <1> SUFFICES ASSUME IInv, Settle PROVE IInv'
    OBVIOUS
  <1>1. driver.pc = "settle" /\ UNCHANGED <<routes, reply, archived, faults>>
    BY DEF Settle
  <1>2. /\ driver.pc \notin {"idle", "running"} /\ reply.pc = "idle" /\ host \in HostStates \ {"down"}
        /\ turns # <<>>
    BY <1>1, Alive DEF IInv, ReplyInv
  <1>3. driver' = NoDriver => driver' \in Driver /\ driver'.pc = "idle"
    BY DriverFacts DEF IInv
  <1>4. CASE Throw /\ UNCHANGED turns
    BY <1>1, <1>2, <1>4, ThrowStep
  <1>5. CASE driver' = NoDriver /\ host' \in {"down", host} /\ UNCHANGED turns
    <2>1. Moved({"idle"})
      BY <1>2, <1>3, <1>5 DEF Moved, HostStates
    <2> QED BY <1>1, <1>2, <1>5, <2>1, IdleStep
  <1>6. CASE /\ Consistent /\ turns' = [turns EXCEPT ![last] = Settled]
             /\ driver' = NoDriver /\ host' \in {"open", host}
    <2>1. /\ TurnOk(Settled, routes[last]) /\ Settled \in Turn /\ Settled.retryOf = turn.retryOf
          /\ Len(Settled.calls) = Len(turn.calls) /\ DOMAIN Settled.calls = DOMAIN turn.calls
      BY <1>1, <1>6, SettledOk, SettledFields
    <2>2. /\ routes[last] \in Seq(Route) /\ Len(routes[last]) = Len(Settled.calls)
          /\ routes' = [routes EXCEPT ![last] = routes[last]]
      BY <1>1, <1>2, <2>1, TypeFacts DEF IInv, TypeOK
    <2>3. \A i \in DOMAIN Settled.calls : routes[last][i].state # "running"
      BY <1>2, <2>1, OnlyFirstRuns
    <2>4. /\ driver' \in Driver /\ driver'.pc = "idle" /\ reply' \in Reply /\ reply'.pc = "idle"
          /\ host' \in {"down", "recovering", "open", "closing"}
          /\ archived' \in BOOLEAN /\ faults' \in 0..MaxFaults
      BY <1>1, <1>2, <1>3, <1>6 DEF IInv, TypeOK, HostStates
    <2>5. turns' = [turns EXCEPT ![last] = Settled]
      BY <1>6
    <2> QED BY <1>2, <2>1, <2>2, <2>3, <2>4, <2>5, TurnStep
  <1> QED BY <1>4, <1>5, <1>6 DEF Settle

-----------------------------------------------------------------------------
(* The invariant *)

LEMMA InvInit == Init => IInv
  <1> SUFFICES ASSUME Init PROVE IInv
    OBVIOUS
  <1>1. turns = <<>> /\ routes = <<>> /\ DOMAIN turns = {} /\ Len(turns) = 0
        /\ driver.pc = "idle" /\ reply.pc = "idle"
    BY DEF Init, NoDriver, NoReply
  <1>2. TypeOK
    <2>1. driver \in Driver /\ reply \in Reply
      BY DEF Init, Driver, NoDriver, Places, Terminal, NoResult, Result, Reply, NoReply, Decisions
    <2>2. turns \in Seq(Turn) /\ routes \in Seq(Seq(Route)) /\ Len(routes) = Len(turns)
      BY <1>1
    <2>3. Len(turns) <= MaxTurns /\ 0 \in 0..MaxFaults
      BY <1>1, BoundsAssumption
    <2> QED BY <1>1, <2>1, <2>2, <2>3 DEF Init, TypeOK
  <1>3. LedgerInv /\ DriverInv /\ ReplyInv /\ HostInv
    BY <1>1 DEF LedgerInv, DriverInv, ReplyInv, HostInv
  <1> QED BY <1>2, <1>3 DEF IInv

LEMMA CommandKeeps == IInv /\ Command => IInv'
  <1> SUFFICES ASSUME IInv, Command PROVE IInv'
    OBVIOUS
  <1>1. ASSUME NEW mode \in {"immediate", "deferred"}, NEW source \in 0..MaxTurns,
               Accept(mode, source)
        PROVE  IInv'
    BY <1>1, AcceptKeeps, Zenon
  <1>2. ASSUME NEW m \in Steers, Steer(m) PROVE IInv'
    BY <1>2, SteerKeeps, Zenon
  <1>3. ASSUME NEW d \in Decisions, ReplyGuarded(d) \/ ReplyCheckpoint(d) PROVE IInv'
    BY <1>3, ReplyGuardedKeeps, ReplyCheckpointKeeps, Zenon
  <1> QED
    BY <1>1, <1>2, <1>3, ResumeKeeps, CancelKeeps, ReplyQuestionKeeps, ArchiveKeeps, Zenon DEF Command

LEMMA ModelStepKeeps == IInv /\ ModelStep => IInv'
  <1>1. ASSUME IInv, NEW r \in Responses, Respond(r) PROVE IInv'
    BY <1>1, RespondKeeps, Zenon
  <1> QED
    BY <1>1, SyncKeeps, StartKeeps, LoopKeeps, PrepareViewKeeps, CommitHistoryKeeps, CallModelKeeps,
       AttemptStartedKeeps, AttemptFailedKeeps, OverflowKeeps, CommitCallsKeeps,
       CloseModelStepKeeps, ScheduleKeeps, Zenon DEF ModelStep

LEMMA ToolStepKeeps == IInv /\ ToolStep => IInv'
  BY ExecuteCallsKeeps, PrepareKeeps, RequestKeeps, ExecuteKeeps, TakeEffectKeeps, CompleteKeeps,
     InterruptKeeps, RecordToolResultKeeps, Zenon DEF ToolStep

LEMMA EndStepKeeps == IInv /\ EndStep => IInv'
  BY CheckpointKeeps, UnwindKeeps, TimeoutKeeps, DriverFailsKeeps, FinishKeeps, SettleKeeps,
     RecoverKeeps, Zenon DEF EndStep

LEMMA HostStepKeeps == IInv /\ HostStep => IInv'
  <1>1. ASSUME IInv, NEW k \in DOMAIN routes, NEW i \in DOMAIN routes[k], SettleRoute(k, i)
        PROVE  IInv'
    BY <1>1, SettleRouteKeeps, Zenon
  <1> QED BY <1>1, ReopenKeeps, ClosedKeeps, Zenon DEF HostStep

LEMMA InvStep == IInv /\ [Next]_vars => IInv'
  <1> SUFFICES ASSUME IInv, [Next]_vars PROVE IInv'
    OBVIOUS
  <1>1. ASSUME Next PROVE IInv'
    <2>1. ASSUME ReplyStep PROVE IInv'
      BY <2>1, ReplyRouteKeeps, ReplyAppendKeeps, ReplyFailsKeeps, Zenon DEF ReplyStep
    <2>2. ASSUME Fault PROVE IInv'
      BY <2>2, CrashKeeps, CloseKeeps, ExpireKeeps, Zenon DEF Fault
    <2> QED
      BY <1>1, <2>1, <2>2, CommandKeeps, ModelStepKeeps, ToolStepKeeps, EndStepKeeps, HostStepKeeps,
         Zenon DEF Next
  <1>2. ASSUME UNCHANGED vars PROVE IInv'
    BY <1>2 DEF vars, IInv, TypeOK, LedgerInv, RetryOk, DriverInv, ReplyInv, HostInv, turn, last
  <1> QED BY <1>1, <1>2

\* Every reachable state keeps the two ledgers, the task, the answer and the host in step.
THEOREM Invariance == Spec => []IInv
  BY InvInit, InvStep, PTL DEF Spec

-----------------------------------------------------------------------------
(* What the invariant says of the system *)

\* Every action leaves the session ledger and the router's ledger well formed: one route for
\* each call, and the values the records of the code admit.
THEOREM TypeCorrect == Spec => []TypeOK
  <1>1. IInv => TypeOK
    BY DEF IInv
  <1> QED BY <1>1, Invariance, PTL

LEMMA LedgersAgree == IInv => EffectNeedsBothLedgers
  <1> SUFFICES ASSUME IInv, NEW k \in DOMAIN turns, NEW i \in DOMAIN turns[k].calls, IsAction(k, i)
               PROVE  /\ turns[k].calls[i].gate \in Decisions =>
                             routes[k][i].checkpoint = turns[k].calls[i].gate
                      /\ routes[k][i].effects > 0 => /\ routes[k][i].effects = 1
                                                    /\ turns[k].calls[i].gate = "approved"
    BY DEF EffectNeedsBothLedgers
  <1>1. CallOk(turns[k].calls[i], routes[k][i]) /\ turns[k].calls[i].kind = "action"
    BY DEF IInv, LedgerInv, TurnOk, IsAction
  <1> QED BY <1>1 DEF CallOk

\* The decision of a person is told to the router first and written to the session second
\* (reply_approval, resume_after_approval): the session never shows another one, and an action
\* changes the world at most once and only after both have the approval.
THEOREM EffectsNeedBothLedgers == Spec => []EffectNeedsBothLedgers
  BY Invariance, LedgersAgree, PTL

LEMMA ReportsFollowRoutes == IInv => ReportsAreTrue
  <1> SUFFICES ASSUME IInv, NEW k \in DOMAIN turns, NEW i \in DOMAIN turns[k].calls, IsAction(k, i)
               PROVE  LET outcome == turns[k].calls[i].result.outcome
                          effects == routes[k][i].effects
                      IN /\ outcome = "succeeded" => effects = 1
                         /\ outcome \in {"failed", "cancelled"} => effects = 0
                         /\ turns[k].status \in Terminal \ {"interrupted"} => outcome # "unknown"
    BY DEF ReportsAreTrue
  <1>1. CallOk(turns[k].calls[i], routes[k][i]) /\ turns[k].calls[i].kind = "action" /\ Over(turns[k])
    BY DEF IInv, LedgerInv, TurnOk, IsAction
  <1>2. Backed(turns[k].calls[i].result, routes[k][i])
    BY <1>1 DEF CallOk
  <1> QED BY <1>1, <1>2 DEF CallOk, Backed, Over, Ran

\* A tool result says that an action succeeded only if it changed the world, and that it failed
\* or was cancelled only if it did not, whether the call returned, was cancelled, timed out or
\* was found by a recovery; an outcome that is not known is never hidden in another status.
THEOREM ReportsAreAlwaysTrue == Spec => []ReportsAreTrue
  BY Invariance, ReportsFollowRoutes, PTL

LEMMA ClosedAtTheEnd == IInv => TerminalTurnIsClosed
  <1> SUFFICES ASSUME IInv, NEW k \in DOMAIN turns, turns[k].status \in Terminal
               PROVE  /\ Pending(turns[k]) = {} /\ turns[k].attempt # "running"
                      /\ \A i \in DOMAIN turns[k].calls : turns[k].calls[i].gate # "started"
                      /\ \A i \in DOMAIN routes[k] : routes[k][i].state # "running"
    BY DEF TerminalTurnIsClosed
  <1>1. Over(turns[k]) /\ \A i \in DOMAIN turns[k].calls : CallOk(turns[k].calls[i], routes[k][i])
    BY DEF IInv, LedgerInv, TurnOk
  <1>2. DOMAIN routes[k] = DOMAIN turns[k].calls
    <2>1. turns[k] \in Turn /\ routes[k] \in Seq(Route) /\ Len(routes[k]) = Len(turns[k].calls)
      BY DEF IInv, TypeOK
    <2>2. turns[k].calls \in Seq(Call)
      BY <2>1 DEF Turn
    <2> QED BY <2>1, <2>2
  <1>3. ASSUME NEW i \in DOMAIN routes[k] PROVE routes[k][i].state # "running"
    BY <1>1, <1>2 DEF CallOk, Over, Pending
  <1> QED BY <1>1, <1>3 DEF Over

\* _finish closes everything in the append that ends the turn: no call without a result, no
\* approval that could still be answered, no attempt counted as running, no executor at work.
THEOREM TerminalTurnsAreClosed == Spec => []TerminalTurnIsClosed
  BY Invariance, ClosedAtTheEnd, PTL

LEMMA CompletedTurnsHaveShownAll == IInv => SteeringReachesModel
  BY DEF IInv, LedgerInv, TurnOk, StatusOk, SteeringReachesModel

\* _close_model_step looks at the messages under the lock before it lets a turn complete, and
\* steer_turn refuses a message from then on: none is accepted and never shown to the model.
THEOREM SteeringAlwaysReachesModel == Spec => []SteeringReachesModel
  BY Invariance, CompletedTurnsHaveShownAll, PTL

LEMMA NothingRetriedInDoubt == IInv => RetryIsSafe
  <1> SUFFICES ASSUME IInv, NEW k \in DOMAIN turns, turns[k].retryOf # 0,
                      NEW i \in DOMAIN turns[turns[k].retryOf].calls, IsAction(turns[k].retryOf, i)
               PROVE  /\ routes[turns[k].retryOf][i].state
                              \notin {"running", "unknown", "manual_intervention"}
                      /\ routes[turns[k].retryOf][i].effects > 0 =>
                             turns[turns[k].retryOf].calls[i].result.outcome = "succeeded"
    BY DEF RetryIsSafe
  <1> DEFINE j == turns[k].retryOf
             c == turns[j].calls[i]
             r == routes[j][i]
  <1>1. j < k /\ c.result.outcome # "unknown"
    BY DEF IInv, LedgerInv, RetryOk
  <1>2. j \in DOMAIN turns /\ j < last /\ turns[j] \in Turn
    <2>1. turns \in Seq(Turn) /\ turns[k] \in Turn /\ k \in 1..Len(turns)
      BY DEF IInv, TypeOK
    <2>2. j \in Nat /\ j # 0
      BY <2>1, BoundsAssumption DEF Turn
    <2> QED BY <1>1, <2>1, <2>2 DEF last
  <1>3. turns[j].status \in Terminal /\ CallOk(c, r) /\ Over(turns[j]) /\ c.kind = "action"
    BY <1>2 DEF IInv, LedgerInv, TurnOk, IsAction
  <1>4. c \in Call /\ c.result # NoResult
    <2>1. turns[j].calls \in Seq(Call)
      BY <1>2 DEF Turn
    <2> QED BY <1>3, <2>1 DEF Over, Pending
  <1> HIDE DEF c, r
  <1>5. c.result.outcome \in {"succeeded", "failed", "cancelled"}
    BY <1>1, <1>4 DEF Call, Result, Outcomes
  <1>6. Backed(c.result, r) /\ (r.effects > 0 => r.state \in Ran \ {"failed"}) /\ r.effects \in {0, 1}
    BY <1>3 DEF CallOk
  <1>7. /\ r.state \notin {"running", "unknown", "manual_intervention"}
        /\ r.effects > 0 => c.result.outcome = "succeeded"
    BY <1>5, <1>6 DEF Backed, Ran
  <1> QED BY <1>7 DEF c, r

\* retry_turn starts only from a turn whose actions are all accounted for: neither ledger is in
\* doubt about one, and what changed the world is reported as having succeeded.
THEOREM RetriesAreSafe == Spec => []RetryIsSafe
  BY Invariance, NothingRetriedInDoubt, PTL

-----------------------------------------------------------------------------
(* What a step may change *)

\* No call changes its kind, and only the open turn is written to.
SameKinds ==
    /\ DOMAIN turns' = DOMAIN turns
    /\ \A k \in DOMAIN turns :
          /\ DOMAIN turns'[k].calls = DOMAIN turns[k].calls
          /\ \A i \in DOMAIN turns[k].calls : turns'[k].calls[i].kind = turns[k].calls[i].kind

OpenOnly ==
    /\ turns # <<>> /\ turn.status \notin Terminal
    /\ \A k \in DOMAIN turns : k # last => turns'[k] = turns[k]

Frame == SameKinds /\ (turns' = turns \/ OpenOnly)

LEMMA QuietFrame ==
  ASSUME turns' = turns
  PROVE  Frame
  BY DEF Frame, SameKinds

LEMMA OpenFrame ==
  ASSUME IInv, turns # <<>>, turn.status \notin Terminal, NEW T, turns' = [turns EXCEPT ![last] = T],
         DOMAIN T.calls = DOMAIN turn.calls,
         \A i \in DOMAIN turn.calls : T.calls[i].kind = turn.calls[i].kind
  PROVE  Frame
  <1>1. last \in DOMAIN turns /\ turns \in Seq(Turn) /\ turn = turns[last]
    BY TypeFacts DEF IInv, TypeOK, turn
  <1>2. DOMAIN turns' = DOMAIN turns /\ \A k \in DOMAIN turns : turns'[k] = IF k = last THEN T ELSE turns[k]
    BY <1>1
  <1> QED BY <1>1, <1>2 DEF Frame, SameKinds, OpenOnly

\* A turn whose calls stay as they are.
LEMMA FieldFrame ==
  ASSUME IInv, turns # <<>>, turn.status \notin Terminal, NEW T, turns' = [turns EXCEPT ![last] = T],
         T.calls = turn.calls
  PROVE  Frame
  BY OpenFrame

LEMMA StatusFrame ==
  ASSUME IInv, turns # <<>>, turn.status \notin Terminal, NEW s, SetStatus(s)
  PROVE  Frame
  <1> DEFINE T == [turn EXCEPT !.status = s]
  <1>1. last \in DOMAIN turns /\ turns \in Seq(Turn) /\ turn = turns[last] /\ turn \in Turn
    BY TypeFacts DEF IInv, TypeOK, turn
  <1>2. turns' = [turns EXCEPT ![last] = T]
    BY <1>1 DEF SetStatus
  <1>3. T.calls = turn.calls
    BY <1>1 DEF Turn
  <1> HIDE DEF T
  <1> QED BY <1>2, <1>3, FieldFrame

\* One call of the open turn is written, and its kind is not.
LEMMA CallFrame ==
  ASSUME IInv, turns # <<>>, turn.status \notin Terminal, Pending(turn) # {}, NEW c,
         c.kind = turn.calls[first].kind, NEW T, turns' = [turns EXCEPT ![last] = T],
         T.calls = [turn.calls EXCEPT ![first] = c]
  PROVE  Frame
  <1>1. first \in DOMAIN turn.calls
    BY FirstOk
  <1>2. /\ DOMAIN T.calls = DOMAIN turn.calls
        /\ \A i \in DOMAIN turn.calls : T.calls[i].kind = turn.calls[i].kind
    BY <1>1
  <1> QED BY <1>2, OpenFrame

LEMMA GateFrame ==
  ASSUME IInv, turns # <<>>, turn.status \notin Terminal, Pending(turn) # {}, NEW g,
         turns' = [turns EXCEPT ![last].calls[first].gate = g]
  PROVE  Frame
  <1> DEFINE c == [turn.calls[first] EXCEPT !.gate = g]
             T == [turn EXCEPT !.calls = [turn.calls EXCEPT ![first] = c]]
  <1>1. /\ last \in DOMAIN turns /\ turns \in Seq(Turn) /\ turn = turns[last] /\ turn \in Turn
        /\ turn.calls[first] \in Call
    BY TypeFacts, FirstOk DEF IInv, TypeOK, turn
  <1>2. turns' = [turns EXCEPT ![last] = T]
    BY <1>1
  <1>3. T.calls = [turn.calls EXCEPT ![first] = c]
    BY <1>1 DEF Turn
  <1>4. c.kind = turn.calls[first].kind
    BY <1>1 DEF Call
  <1> HIDE DEF c, T
  <1> QED BY <1>2, <1>3, <1>4, CallFrame

\* The same with the status of the turn.
LEMMA AskFrame ==
  ASSUME IInv, turns # <<>>, turn.status \notin Terminal, Pending(turn) # {}, NEW g, NEW s,
         turns' = [turns EXCEPT ![last].status = s, ![last].calls[first].gate = g]
  PROVE  Frame
  <1> DEFINE c == [turn.calls[first] EXCEPT !.gate = g]
             T == [turn EXCEPT !.status = s, !.calls = [turn.calls EXCEPT ![first] = c]]
  <1>1. /\ last \in DOMAIN turns /\ turns \in Seq(Turn) /\ turn = turns[last] /\ turn \in Turn
        /\ turn.calls[first] \in Call
    BY TypeFacts, FirstOk DEF IInv, TypeOK, turn
  <1>2. turns' = [turns EXCEPT ![last] = T]
    BY <1>1 DEF Turn
  <1>3. T.calls = [turn.calls EXCEPT ![first] = c]
    BY <1>1 DEF Turn
  <1>4. c.kind = turn.calls[first].kind
    BY <1>1 DEF Call
  <1> HIDE DEF c, T
  <1> QED BY <1>2, <1>3, <1>4, CallFrame

LEMMA ModelFrame ==
  ASSUME IInv, ModelStep, ~Sync, ~CommitCalls
  PROVE  Frame /\ routes' = routes
  <1>1. CASE Start \/ PrepareView
    BY <1>1, QuietFrame DEF Start, PrepareView
  <1>2. CASE Loop \/ Overflow \/ CloseModelStep \/ Schedule
    <2>1. driver.pc # "idle" /\ routes' = routes
      BY <1>2 DEF Loop, Overflow, CloseModelStep, Schedule, At
    <2>2. turns' = turns \/ \E s \in Statuses : SetStatus(s)
      BY <1>2 DEF Loop, Overflow, CloseModelStep, Schedule, Statuses
    <2> QED BY <2>1, <2>2, Alive, QuietFrame, StatusFrame
  <1>3. CASE CommitHistory \/ CallModel \/ AttemptStarted \/ AttemptFailed \/ \E r \in Responses : Respond(r)
    <2>1. driver.pc # "idle" /\ routes' = routes
      BY <1>3 DEF CommitHistory, CallModel, AttemptStarted, AttemptFailed, Respond, At
    <2>2. turns # <<>> /\ turn.status \notin Terminal
      BY <2>1, Alive
    <2>3. last \in DOMAIN turns /\ turns \in Seq(Turn) /\ turn = turns[last] /\ turn \in Turn
      BY <2>2, TypeFacts DEF IInv, TypeOK, turn
    <2>4. CASE turns' = turns
      BY <2>1, <2>4, QuietFrame
    <2>5. CASE turns' # turns
      <3>1. \E T : turns' = [turns EXCEPT ![last] = T] /\ T.calls = turn.calls
        <4>1. CASE CallModel
          <5> DEFINE T == [turn EXCEPT !.status = "calling_model", !.steps = @ + 1,
                                       !.attempt = "none", !.attempts = 0]
          <5>1. turns' = [turns EXCEPT ![last] = T]
            BY <2>3, <2>5, <4>1 DEF CallModel
          <5>2. T.calls = turn.calls
            BY <2>3 DEF Turn
          <5> QED BY <5>1, <5>2
        <4>2. CASE CommitHistory \/ AttemptStarted \/ AttemptFailed \/ \E r \in Responses : Respond(r)
          <5>1. turns' = [turns EXCEPT ![last] = turns'[last]]
            BY <2>3, <2>5, <4>2 DEF CommitHistory, AttemptStarted, AttemptFailed, Respond
          <5>2. turns'[last].calls = turn.calls
            BY <2>3, <2>5, <4>2 DEF CommitHistory, AttemptStarted, AttemptFailed, Respond, Turn
          <5> QED BY <5>1, <5>2
        <4> QED BY <1>3, <4>1, <4>2
      <3>2. PICK T : turns' = [turns EXCEPT ![last] = T] /\ T.calls = turn.calls
        BY <3>1
      <3> QED BY <2>1, <2>2, <3>2, FieldFrame
    <2> QED BY <2>4, <2>5
  <1> QED BY <1>1, <1>2, <1>3 DEF ModelStep

LEMMA ToolFrame ==
  ASSUME IInv, ExecuteCalls \/ Request \/ RecordToolResult
  PROVE  Frame /\ routes' = routes
  <1>1. driver.pc # "idle" /\ routes' = routes
    BY DEF ExecuteCalls, Request, RecordToolResult, At
  <1>2. turns # <<>> /\ turn.status \notin Terminal /\ DriverOk(driver, turn, routes[last])
    BY <1>1, Alive
  <1>3. last \in DOMAIN turns /\ turns \in Seq(Turn) /\ turn = turns[last] /\ turn \in Turn
    BY <1>2, TypeFacts DEF IInv, TypeOK, turn
  <1>4. CASE turns' = turns
    BY <1>1, <1>4, QuietFrame
  <1>5. CASE turns' # turns
    <2>1. Pending(turn) # {}
      <3>1. CASE ExecuteCalls
        BY <1>5, <3>1 DEF ExecuteCalls
      <3>2. CASE Request \/ RecordToolResult
        <4>1. driver.pc \in Working
          BY <3>2 DEF Request, RecordToolResult, At, Working
        <4> QED BY <1>2, <4>1 DEF DriverOk
      <3> QED BY <3>1, <3>2
    <2>2. CASE ExecuteCalls \/ Request
      <3>1. \/ \E s, g : turns' = [turns EXCEPT ![last].status = s, ![last].calls[first].gate = g]
            \/ SetStatus("executing_tools")
        BY <1>5, <2>2 DEF ExecuteCalls, Request, Ask, RequestApproval, Consume
      <3> QED BY <1>1, <1>2, <2>1, <3>1, AskFrame, StatusFrame
    <2>3. CASE RecordToolResult
      <3> DEFINE c == [turn.calls[first] EXCEPT !.result = driver.result]
                 T == [turn EXCEPT !.calls = [turn.calls EXCEPT ![first] = c]]
      <3>1. turns' = [turns EXCEPT ![last] = T]
        BY <1>3, <1>5, <2>3 DEF RecordToolResult, SetResult, Turn
      <3>2. T.calls = [turn.calls EXCEPT ![first] = c]
        BY <1>3 DEF Turn
      <3>3. c.kind = turn.calls[first].kind
        BY <1>2, <2>1, FirstOk DEF Call
      <3> HIDE DEF c, T
      <3> QED BY <1>1, <1>2, <2>1, <3>1, <3>2, <3>3, CallFrame
    <2> QED BY <2>2, <2>3
  <1> QED BY <1>4, <1>5

LEMMA EndFrame ==
  ASSUME IInv, EndStep, ~Finish
  PROVE  Frame /\ routes' = routes
  <1>1. CASE Checkpoint \/ Timeout \/ DriverFails \/ Recover
    BY <1>1, QuietFrame DEF Checkpoint, Timeout, DriverFails, Recover
  <1>2. CASE Unwind
    <2>1. driver.pc # "idle" /\ routes' = routes /\ (turns' = turns \/ SetStatus("cancelling"))
      BY <1>2 DEF Unwind, At
    <2> QED BY <2>1, Alive, QuietFrame, StatusFrame
  <1>3. CASE Settle
    <2>1. driver.pc = "settle" /\ routes' = routes
      BY <1>3 DEF Settle
    <2>2. turns' = turns \/ turns' = [turns EXCEPT ![last] = Settled]
      BY <1>3 DEF Settle
    <2>3. /\ DOMAIN Settled.calls = DOMAIN turn.calls
          /\ \A i \in DOMAIN turn.calls : Settled.calls[i].kind = turn.calls[i].kind
      BY <2>1, SettledFields, SettledCall
    <2>4. turns # <<>> /\ turn.status \notin Terminal
      BY <2>1, Alive
    <2> HIDE DEF Settled
    <2> QED BY <2>1, <2>2, <2>3, <2>4, QuietFrame, OpenFrame
  <1> QED BY <1>1, <1>2, <1>3 DEF EndStep

\* What a user, the end of an answer or the clock writes to the session.
LEMMA CommandFrame ==
  ASSUME IInv,
         \/ Resume \/ Cancel \/ ReplyQuestion \/ Archive \/ ReplyAppend \/ Expire
         \/ (\E m \in Steers : Steer(m)) \/ (\E d \in Decisions : ReplyGuarded(d))
  PROVE  Frame /\ routes' = routes
  <1>1. CASE Resume \/ Archive
    BY <1>1, QuietFrame DEF Resume, Archive
  <1>2. CASE Cancel
    BY <1>2, StatusFrame DEF Cancel, Active
  <1>3. CASE Expire \/ \E m \in Steers : Steer(m)
    <2>1. turns # <<>> /\ turn.status \notin Terminal /\ routes' = routes
      BY <1>3 DEF Expire, Steer, Active
    <2>2. last \in DOMAIN turns /\ turns \in Seq(Turn) /\ turn = turns[last] /\ turn \in Turn
      BY <2>1, TypeFacts DEF IInv, TypeOK, turn
    <2>3. turns' = [turns EXCEPT ![last] = turns'[last]] /\ turns'[last].calls = turn.calls
      BY <1>3, <2>2 DEF Expire, Steer, Turn
    <2>4. PICK T : turns' = [turns EXCEPT ![last] = T] /\ T.calls = turn.calls
      BY <2>3
    <2> QED BY <2>1, <2>4, FieldFrame
  <1>4. CASE ReplyAppend \/ \E d \in Decisions : ReplyGuarded(d)
    <2>1. turns # <<>> /\ turn.status = "waiting_approval" /\ routes' = routes
      <3>1. CASE ReplyAppend
        BY <3>1, ReplyFacts DEF ReplyAppend
      <3>2. CASE \E d \in Decisions : ReplyGuarded(d)
        BY <3>2, AnswerableFacts DEF ReplyGuarded
      <3> QED BY <1>4, <3>1, <3>2
    <2>2. Pending(turn) # {} /\ turn.status \notin Terminal
      BY <2>1, WaitingFacts DEF Terminal
    <2>3. \E g : turns' = [turns EXCEPT ![last].calls[first].gate = g]
      BY <1>4 DEF ReplyAppend, ReplyGuarded
    <2> QED BY <2>1, <2>2, <2>3, GateFrame
  <1>5. CASE ReplyQuestion
    <2> DEFINE c == [turn.calls[first] EXCEPT !.gate = "answered",
                                              !.result = [outcome |-> "succeeded", origin |-> "none"]]
               T == [turn EXCEPT !.status = "executing_tools",
                                 !.calls = [turn.calls EXCEPT ![first] = c]]
    <2>1. turns # <<>> /\ turn.status = "waiting_input" /\ routes' = routes
      BY <1>5 DEF ReplyQuestion, Active
    <2>2. /\ last \in DOMAIN turns /\ turns \in Seq(Turn) /\ turn = turns[last] /\ turn \in Turn
          /\ StatusOk(turn, routes[last])
      BY <2>1, TypeFacts DEF IInv, TypeOK, LedgerInv, TurnOk, turn
    <2>3. Pending(turn) # {} /\ turn.status \notin Terminal
      BY <2>1, <2>2 DEF StatusOk, Terminal
    <2>4. turn.calls[first] \in Call
      BY <2>1, <2>3, FirstOk
    <2>5. c.kind = turn.calls[first].kind
      BY <2>4 DEF Call
    <2>6. turns' = [turns EXCEPT ![last] = T]
      <3>1. turns' = [turns EXCEPT ![last].status = "executing_tools", ![last].calls[first] = c]
        BY <1>5, <2>2, <2>4 DEF ReplyQuestion, Turn
      <3> HIDE DEF c
      <3> QED BY <2>2, <3>1 DEF Turn
    <2> HIDE DEF c
    <2>7. T.calls = [turn.calls EXCEPT ![first] = c]
      BY <2>2 DEF Turn
    <2> HIDE DEF T
    <2> QED BY <2>1, <2>3, <2>5, <2>6, <2>7, CallFrame
  <1> QED BY <1>1, <1>2, <1>3, <1>4, <1>5

-----------------------------------------------------------------------------
(* What a step does to a route *)

\* The contract, for the states of one route.
Legal(kind, r, s) ==
    \/ s = r.state
    \/ r.state = "none" /\ s \in {"pending_approval", "denied"}
    \/ r.state = "none" /\ s = "ready" /\ kind # "action"
    \/ r.state = "pending_approval" /\ s \in {"ready", "denied"}
    \/ r.state = "ready" /\ s = "running"
    \/ /\ r.state \in {"running", "unknown"}
       /\ \/ s \in {"unknown", "manual_intervention"}
          \/ s = "succeeded" /\ (kind = "action" => r.effects = 1)
          \/ s = "failed" /\ (kind = "action" => r.effects = 0)

\* One route moves, and nothing touches the world.
RouteMove(k, i, s) ==
    /\ k \in DOMAIN turns /\ i \in DOMAIN turns[k].calls /\ s \in RouteStates
    /\ Legal(turns[k].calls[i].kind, routes[k][i], s)
    /\ \A l \in DOMAIN turns : \A j \in DOMAIN turns[l].calls :
          /\ routes'[l][j].effects = routes[l][j].effects
          /\ routes'[l][j].state = IF l = k /\ j = i THEN s ELSE routes[l][j].state

\* A step of the session, of one route or of both.
Orderly == Frame /\ (routes' = routes \/ \E k, i, s : RouteMove(k, i, s))

LEMMA EntryMove ==
  ASSUME IInv, NEW k \in DOMAIN turns, NEW i \in DOMAIN turns[k].calls, NEW r \in Route,
         routes' = [routes EXCEPT ![k] = [routes[k] EXCEPT ![i] = r]],
         r.effects = routes[k][i].effects, Legal(turns[k].calls[i].kind, routes[k][i], r.state)
  PROVE  RouteMove(k, i, r.state)
  <1>1. /\ DOMAIN routes = DOMAIN turns
        /\ \A l \in DOMAIN turns : DOMAIN routes[l] = DOMAIN turns[l].calls
    <2>1. /\ turns \in Seq(Turn) /\ routes \in Seq(Seq(Route)) /\ Len(routes) = Len(turns)
          /\ \A l \in DOMAIN turns : Len(routes[l]) = Len(turns[l].calls)
      BY DEF IInv, TypeOK
    <2>2. ASSUME NEW l \in DOMAIN turns PROVE DOMAIN routes[l] = DOMAIN turns[l].calls
      <3>1. routes[l] \in Seq(Route) /\ turns[l] \in Turn
        BY <2>1
      <3>2. turns[l].calls \in Seq(Call)
        BY <3>1 DEF Turn
      <3> QED BY <2>1, <3>1, <3>2
    <2> QED BY <2>1, <2>2
  <1>2. \A l \in DOMAIN turns : \A j \in DOMAIN turns[l].calls :
           routes'[l][j] = IF l = k /\ j = i THEN r ELSE routes[l][j]
    BY <1>1
  <1>3. r.state \in RouteStates
    BY DEF Route
  <1> QED BY <1>2, <1>3 DEF RouteMove

\* The same for one field of the route.
LEMMA StateMove ==
  ASSUME IInv, NEW k \in DOMAIN turns, NEW i \in DOMAIN turns[k].calls, NEW s \in RouteStates,
         routes' = [routes EXCEPT ![k][i].state = s],
         Legal(turns[k].calls[i].kind, routes[k][i], s)
  PROVE  \E l, j, t : RouteMove(l, j, t)
  <1> DEFINE r == [routes[k][i] EXCEPT !.state = s]
  <1>1. routes[k][i] \in Route
    <2>1. /\ turns[k] \in Turn /\ routes[k] \in Seq(Route) /\ Len(routes[k]) = Len(turns[k].calls)
      BY DEF IInv, TypeOK
    <2>2. turns[k].calls \in Seq(Call)
      BY <2>1 DEF Turn
    <2> QED BY <2>1, <2>2
  <1>2. r \in Route /\ r.state = s /\ r.effects = routes[k][i].effects
    BY <1>1, RouteFields DEF Route
  <1>3. routes' = [routes EXCEPT ![k] = [routes[k] EXCEPT ![i] = r]]
    OBVIOUS
  <1> HIDE DEF r
  <1>4. Legal(turns[k].calls[i].kind, routes[k][i], r.state)
    BY <1>2
  <1>5. RouteMove(k, i, r.state)
    BY <1>2, <1>3, <1>4, EntryMove, ZenonT(30)
  <1> QED BY <1>5

LEMMA FirstMove ==
  ASSUME IInv, turns # <<>>, Pending(turn) # {}, NEW s \in RouteStates,
         routes' = [routes EXCEPT ![last][first].state = s],
         Legal(turn.calls[first].kind, routes[last][first], s)
  PROVE  \E l, j, t : RouteMove(l, j, t)
  <1>1. last \in DOMAIN turns /\ turn = turns[last] /\ first \in DOMAIN turn.calls
    BY TypeFacts, FirstOk DEF IInv, turn
  <1> QED BY <1>1, StateMove

\* An executor that returns, and a reconciliation, conclude what the contract allows.
LEMMA ConclusionLegal ==
  ASSUME NEW kind, NEW r, r.state \in {"running", "unknown"}, kind = "action" => r.effects \in {0, 1},
         NEW s, s \in Concluded(kind, r) \/ s \in Reconciled(kind, r)
  PROVE  s \in RouteStates /\ Legal(kind, r, s)
  BY DEF Concluded, Reconciled, Truth, RouteStates, Legal

LEMMA WorkingFacts ==
  ASSUME IInv, driver.pc \in Working
  PROVE  /\ turns # <<>> /\ Pending(turn) # {} /\ routes[last][first].state \in RouteStates
         /\ turn.calls[first].kind = "action" => routes[last][first].effects \in {0, 1}
         /\ driver.pc \in {"prepare", "running"} => Owned(turn.calls[first].kind)
         /\ driver.pc = "running" => routes[last][first].state = "running"
  <1>1. turns # <<>> /\ DriverOk(driver, turn, routes[last])
    BY Alive DEF Working
  <1>2. Pending(turn) # {}
    BY <1>1 DEF DriverOk
  <1>3. CallOk(turn.calls[first], routes[last][first]) /\ routes[last][first].state \in RouteStates
    BY <1>1, <1>2, FirstOk
  <1> QED BY <1>1, <1>2, <1>3 DEF CallOk, DriverOk, first

LEMMA PrepareOrderly ==
  ASSUME IInv, Prepare
  PROVE  Orderly
  <1>1. driver.pc = "prepare" /\ turns' = turns
    BY DEF Prepare, At
  <1>2. /\ turns # <<>> /\ Pending(turn) # {} /\ Owned(turn.calls[first].kind)
    BY <1>1, WorkingFacts DEF Working
  <1>3. \/ routes' = routes
        \/ \E s \in RouteStates : /\ routes' = [routes EXCEPT ![last][first].state = s]
                                  /\ Legal(turn.calls[first].kind, routes[last][first], s)
    BY <1>2 DEF Prepare, Legal, RouteStates, Owned
  <1> QED BY <1>1, <1>2, <1>3, FirstMove, QuietFrame DEF Orderly

LEMMA ExecuteOrderly ==
  ASSUME IInv, Execute
  PROVE  Orderly
  <1>1. driver.pc = "execute" /\ turns' = turns
    BY DEF Execute, At
  <1>2. /\ turns # <<>> /\ Pending(turn) # {} /\ routes[last][first].state \in RouteStates
        /\ turn.calls[first].kind = "action" => routes[last][first].effects \in {0, 1}
    BY <1>1, WorkingFacts DEF Working
  <1>3. \/ routes' = routes
        \/ \E s \in RouteStates : /\ routes' = [routes EXCEPT ![last][first].state = s]
                                  /\ Legal(turn.calls[first].kind, routes[last][first], s)
    <2>1. \/ routes' = routes
          \/ /\ routes[last][first].state = "ready"
             /\ routes' = [routes EXCEPT ![last][first].state = "running"]
          \/ \E s \in IF routes[last][first].state = "unknown"
                      THEN Reconciled(turn.calls[first].kind, routes[last][first])
                      ELSE {routes[last][first].state} :
                routes' = [routes EXCEPT ![last][first].state = s]
      BY DEF Execute
    <2>2. CASE /\ routes[last][first].state = "ready"
               /\ routes' = [routes EXCEPT ![last][first].state = "running"]
      BY <2>2 DEF Legal, RouteStates
    <2>3. ASSUME NEW s, s = routes[last][first].state,
                 routes' = [routes EXCEPT ![last][first].state = s]
          PROVE  s \in RouteStates /\ Legal(turn.calls[first].kind, routes[last][first], s)
      BY <1>2, <2>3 DEF Legal
    <2>4. ASSUME NEW s \in Reconciled(turn.calls[first].kind, routes[last][first]),
                 routes[last][first].state = "unknown"
          PROVE  s \in RouteStates /\ Legal(turn.calls[first].kind, routes[last][first], s)
      BY <1>2, <2>4, ConclusionLegal
    <2> QED BY <2>1, <2>2, <2>3, <2>4
  <1> QED BY <1>1, <1>2, <1>3, FirstMove, QuietFrame DEF Orderly

LEMMA RunningOrderly ==
  ASSUME IInv, Complete \/ Interrupt
  PROVE  Orderly
  <1>1. driver.pc = "running" /\ turns' = turns
    BY DEF Complete, Interrupt, At
  <1>2. /\ turns # <<>> /\ Pending(turn) # {} /\ routes[last][first].state = "running"
        /\ turn.calls[first].kind = "action" => routes[last][first].effects \in {0, 1}
        /\ Owned(turn.calls[first].kind)
    BY <1>1, WorkingFacts DEF Working
  <1>3. \E s : /\ routes' = [routes EXCEPT ![last][first].state = s]
               /\ s \in RouteStates /\ Legal(turn.calls[first].kind, routes[last][first], s)
    <2>1. CASE Complete
      <3>1. PICK s \in Concluded(turn.calls[first].kind, routes[last][first]) :
               routes' = [routes EXCEPT ![last][first].state = s]
        BY <2>1 DEF Complete
      <3>2. s \in RouteStates /\ Legal(turn.calls[first].kind, routes[last][first], s)
        BY <1>2, ConclusionLegal
      <3> QED BY <3>1, <3>2
    <2>2. CASE Interrupt
      BY <1>2, <2>2 DEF Interrupt, Legal, RouteStates, ReadOnly, Owned
    <2> QED BY <2>1, <2>2
  <1> QED BY <1>1, <1>2, <1>3, FirstMove, QuietFrame DEF Orderly

LEMMA FinishOrderly ==
  ASSUME IInv, Finish
  PROVE  Orderly
  <1> DEFINE q == routes[last][first]
             kind == turn.calls[first].kind
  <1>1. turns # <<>> /\ turn.status \notin Terminal /\ turns' = turns
    BY DEF Finish, Active
  <1>2. CASE routes' = routes
    BY <1>1, <1>2, QuietFrame DEF Orderly
  <1>3. CASE routes' # routes
    <2>1. /\ Pending(turn) # {}
          /\ \E s, cp : /\ routes' = [routes EXCEPT ![last][first].state = s,
                                                    ![last][first].checkpoint = cp]
                        /\ \/ s = "denied" /\ cp = "system_cancel" /\ q.state = "pending_approval"
                           \/ /\ q.state \in {"running", "unknown"} /\ s \in Reconciled(kind, q)
                              /\ cp = q.checkpoint
      BY <1>3 DEF Finish
    <2>2. /\ last \in DOMAIN turns /\ turn = turns[last] /\ first \in DOMAIN turn.calls /\ q \in Route
          /\ kind = "action" => q.effects \in {0, 1}
      BY <1>1, <2>1, TypeFacts, FirstOk DEF IInv, turn, CallOk
    <2>3. PICK s, cp : /\ routes' = [routes EXCEPT ![last][first].state = s,
                                                   ![last][first].checkpoint = cp]
                       /\ \/ s = "denied" /\ cp = "system_cancel" /\ q.state = "pending_approval"
                          \/ /\ q.state \in {"running", "unknown"} /\ s \in Reconciled(kind, q)
                             /\ cp = q.checkpoint
      BY <2>1
    <2>4. s \in RouteStates /\ Legal(kind, q, s)
      <3>1. CASE s = "denied" /\ q.state = "pending_approval"
        BY <3>1 DEF Legal, RouteStates
      <3>2. CASE q.state \in {"running", "unknown"} /\ s \in Reconciled(kind, q)
        BY <2>2, <3>2, ConclusionLegal
      <3> QED BY <2>3, <3>1, <3>2
    <2>5. cp \in {"none", "system_cancel"} \cup Decisions
      BY <2>2, <2>3, RouteFields DEF Route
    <2> DEFINE r == [q EXCEPT !.state = s, !.checkpoint = cp]
    <2>6. r \in Route /\ r.state = s /\ r.effects = q.effects
      <3> HIDE DEF q
      <3> QED BY <2>2, <2>4, <2>5 DEF Route
    <2>7. routes' = [routes EXCEPT ![last] = [routes[last] EXCEPT ![first] = r]]
      <3>1. last \in DOMAIN routes /\ first \in DOMAIN routes[last]
        BY <1>1, <2>2, TypeFacts DEF IInv
      <3> QED BY <2>2, <2>3, <3>1 DEF Route
    <2> HIDE DEF r
    <2>8. Legal(turns[last].calls[first].kind, routes[last][first], r.state)
      BY <2>2, <2>4, <2>6
    <2>9. r.effects = routes[last][first].effects /\ first \in DOMAIN turns[last].calls
      BY <2>2, <2>6
    <2>10. RouteMove(last, first, r.state)
      BY <2>2, <2>6, <2>7, <2>8, <2>9, EntryMove, ZenonT(30)
    <2> QED BY <1>1, <2>10, QuietFrame DEF Orderly
  <1> QED BY <1>2, <1>3

\* A decision of a person reaches the router: its checkpoint, then its route.
LEMMA CheckpointOrderly ==
  ASSUME IInv, NEW d \in Decisions, ReplyCheckpoint(d)
  PROVE  Orderly
  <1> DEFINE q == routes[last][first]
             r == [q EXCEPT !.checkpoint = d]
  <1>1. /\ turns # <<>> /\ turn.status = "waiting_approval" /\ turns' = turns
        /\ routes' = [routes EXCEPT ![last][first].checkpoint = d]
    BY AnswerableFacts DEF ReplyCheckpoint
  <1>2. /\ last \in DOMAIN turns /\ turn = turns[last] /\ first \in DOMAIN turn.calls /\ q \in Route
    BY <1>1, TypeFacts, WaitingFacts DEF IInv, turn
  <1>3. r \in Route /\ r.state = q.state /\ r.effects = q.effects
    <2>1. q \in Route
      BY <1>2
    <2> HIDE DEF q
    <2> QED BY <2>1 DEF Route, Decisions
  <1>4. routes' = [routes EXCEPT ![last] = [routes[last] EXCEPT ![first] = r]]
    BY <1>1
  <1> HIDE DEF r
  <1>5. Legal(turns[last].calls[first].kind, routes[last][first], r.state)
    BY <1>3 DEF Legal
  <1>6. r.effects = routes[last][first].effects /\ first \in DOMAIN turns[last].calls
    BY <1>2, <1>3
  <1>7. RouteMove(last, first, r.state)
    BY <1>2, <1>3, <1>4, <1>5, <1>6, EntryMove, ZenonT(30)
  <1> QED BY <1>1, <1>7, QuietFrame DEF Orderly

LEMMA DecidedMove ==
  ASSUME IInv, turns # <<>>, turn.status = "waiting_approval", NEW cp,
         routes' = [routes EXCEPT ![last][first].state =
                       IF @ = "pending_approval" THEN Decided(cp) ELSE @]
  PROVE  \E k, i, s : RouteMove(k, i, s)
  <1> DEFINE q == routes[last][first]
             s == IF q.state = "pending_approval" THEN Decided(cp) ELSE q.state
  <1>1. Pending(turn) # {} /\ q.state \in RouteStates
    BY WaitingFacts, FirstOk
  <1>2. s \in RouteStates /\ Legal(turn.calls[first].kind, q, s)
    BY <1>1 DEF Decided, Legal, RouteStates
  <1>3. routes' = [routes EXCEPT ![last][first].state = s]
    OBVIOUS
  <1> HIDE DEF s
  <1> QED BY <1>1, <1>2, <1>3, FirstMove

LEMMA ReplyRouteOrderly ==
  ASSUME IInv, ReplyRoute
  PROVE  Orderly
  <1>1. turns # <<>> /\ turn.status = "waiting_approval" /\ turns' = turns
    BY ReplyFacts DEF ReplyRoute
  <1>2. routes' = [routes EXCEPT ![last][first].state =
                      IF @ = "pending_approval" THEN Decided(reply.decision) ELSE @]
    BY DEF ReplyRoute
  <1> QED BY <1>1, <1>2, DecidedMove, QuietFrame DEF Orderly

LEMMA SyncOrderly ==
  ASSUME IInv, Sync
  PROVE  Orderly
  <1>1. turns # <<>> /\ turn.status \notin Terminal
    BY Alive DEF Sync, At
  <1>2. CASE UNCHANGED <<turns, routes>>
    BY <1>2, QuietFrame DEF Orderly
  <1>3. CASE ~UNCHANGED <<turns, routes>>
    <2>1. /\ turn.status = "waiting_approval"
          /\ routes' = [routes EXCEPT ![last][first].state =
                 IF @ = "pending_approval" THEN Decided(routes[last][first].checkpoint) ELSE @]
          /\ turns' = [turns EXCEPT ![last].calls[first].gate = routes[last][first].checkpoint]
      BY <1>3 DEF Sync
    <2>2. Pending(turn) # {}
      BY <1>1, <2>1, WaitingFacts
    <2>3. Frame
      BY <1>1, <2>1, <2>2, GateFrame
    <2> QED BY <1>1, <2>1, <2>3, DecidedMove DEF Orderly
  <1> QED BY <1>2, <1>3

LEMMA SettleRouteOrderly ==
  ASSUME IInv, NEW k \in DOMAIN routes, NEW i \in DOMAIN routes[k], SettleRoute(k, i)
  PROVE  Orderly
  <1>1. k \in DOMAIN turns /\ i \in DOMAIN turns[k].calls
    <2>1. /\ turns \in Seq(Turn) /\ routes \in Seq(Seq(Route)) /\ Len(routes) = Len(turns)
          /\ \A l \in DOMAIN turns : Len(routes[l]) = Len(turns[l].calls)
      BY DEF IInv, TypeOK
    <2>2. turns[k] \in Turn /\ routes[k] \in Seq(Route) /\ Len(routes[k]) = Len(turns[k].calls)
      BY <2>1
    <2>3. turns[k].calls \in Seq(Call)
      BY <2>2 DEF Turn
    <2> QED BY <2>1, <2>2, <2>3
  <1>2. CallOk(turns[k].calls[i], routes[k][i])
    BY <1>1 DEF IInv, LedgerInv, TurnOk
  <1>3. PICK s \in Reconciled(turns[k].calls[i].kind, routes[k][i]) :
           routes' = [routes EXCEPT ![k][i].state = s]
    BY DEF SettleRoute
  <1>4. routes[k][i].state \in {"running", "unknown"} /\ turns' = turns
    BY DEF SettleRoute
  <1>5. s \in RouteStates /\ Legal(turns[k].calls[i].kind, routes[k][i], s)
    BY <1>2, <1>4, ConclusionLegal DEF CallOk
  <1> QED BY <1>1, <1>3, <1>4, <1>5, StateMove, QuietFrame DEF Orderly

\* Every step but these three is orderly.
LEMMA OrderlyStep ==
  ASSUME IInv, [Next]_vars
  PROVE  \/ Orderly \/ TakeEffect \/ CommitCalls
         \/ \E mode \in {"immediate", "deferred"}, source \in 0..MaxTurns : Accept(mode, source)
  <1> DEFINE Special == \/ TakeEffect \/ CommitCalls
                        \/ \E mode \in {"immediate", "deferred"}, source \in 0..MaxTurns :
                              Accept(mode, source)
  <1>1. ASSUME UNCHANGED <<turns, routes>> PROVE Orderly
    BY <1>1, QuietFrame DEF Orderly
  <1>2. ASSUME Frame /\ routes' = routes PROVE Orderly
    BY <1>2 DEF Orderly
  <1>3. ASSUME Command PROVE Orderly \/ Special
    <2>1. ASSUME NEW d \in Decisions, ReplyCheckpoint(d) PROVE Orderly
      BY <2>1, CheckpointOrderly, Zenon
    <2>2. ASSUME \/ Resume \/ Cancel \/ ReplyQuestion \/ Archive
                 \/ (\E m \in Steers : Steer(m)) \/ (\E d \in Decisions : ReplyGuarded(d))
          PROVE  Orderly
      BY <1>2, <2>2, CommandFrame, Zenon
    <2> QED BY <1>3, <2>1, <2>2, Zenon DEF Command
  <1>4. ASSUME ModelStep PROVE Orderly \/ Special
    BY <1>2, <1>4, SyncOrderly, ModelFrame, Zenon
  <1>5. ASSUME ToolStep PROVE Orderly \/ Special
    BY <1>2, <1>5, PrepareOrderly, ExecuteOrderly, RunningOrderly, ToolFrame, Zenon DEF ToolStep
  <1>6. ASSUME EndStep PROVE Orderly
    BY <1>2, <1>6, FinishOrderly, EndFrame, Zenon
  <1>7. ASSUME ReplyStep PROVE Orderly
    <2>1. ASSUME ReplyFails PROVE UNCHANGED <<turns, routes>>
      BY <2>1 DEF ReplyFails
    <2> QED BY <1>1, <1>2, <1>7, <2>1, ReplyRouteOrderly, CommandFrame, Zenon DEF ReplyStep
  <1>8. ASSUME HostStep PROVE Orderly
    <2>1. ASSUME NEW k \in DOMAIN routes, NEW i \in DOMAIN routes[k], SettleRoute(k, i) PROVE Orderly
      BY <2>1, SettleRouteOrderly, Zenon
    <2>2. ASSUME Reopen \/ Closed PROVE UNCHANGED <<turns, routes>>
      BY <2>2 DEF Reopen, Closed
    <2> QED BY <1>1, <1>8, <2>1, <2>2, Zenon DEF HostStep
  <1>9. ASSUME Fault PROVE Orderly
    <2>1. ASSUME Crash \/ Close PROVE UNCHANGED <<turns, routes>>
      BY <2>1 DEF Crash, Close
    <2> QED BY <1>1, <1>2, <1>9, <2>1, CommandFrame, Zenon DEF Fault
  <1>10. ASSUME UNCHANGED vars PROVE Orderly
    BY <1>1, <1>10 DEF vars
  <1> QED BY <1>3, <1>4, <1>5, <1>6, <1>7, <1>8, <1>9, <1>10, Zenon DEF Next

\* Positions of the routes are positions of the calls.
LEMMA RouteDomains ==
  ASSUME IInv
  PROVE  /\ DOMAIN routes = DOMAIN turns /\ turns \in Seq(Turn) /\ routes \in Seq(Seq(Route))
         /\ \A k \in DOMAIN turns : /\ DOMAIN routes[k] = DOMAIN turns[k].calls
                                    /\ turns[k] \in Turn /\ turns[k].calls \in Seq(Call)
  <1>1. /\ turns \in Seq(Turn) /\ routes \in Seq(Seq(Route)) /\ Len(routes) = Len(turns)
        /\ \A k \in DOMAIN turns : Len(routes[k]) = Len(turns[k].calls)
    BY DEF IInv, TypeOK
  <1>2. ASSUME NEW k \in DOMAIN turns
        PROVE  /\ DOMAIN routes[k] = DOMAIN turns[k].calls
               /\ turns[k] \in Turn /\ turns[k].calls \in Seq(Call)
    <2>1. turns[k] \in Turn /\ routes[k] \in Seq(Route)
      BY <1>1
    <2>2. turns[k].calls \in Seq(Call)
      BY <2>1 DEF Turn
    <2> QED BY <1>1, <2>1, <2>2
  <1> QED BY <1>1, <1>2

\* The calls of a response are appended to the open turn, and their routes with them.
LEMMA CommitFacts ==
  ASSUME IInv, CommitCalls
  PROVE  /\ turns # <<>> /\ turn.status \notin Terminal
         /\ \/ UNCHANGED <<turns, routes>>
            \/ /\ turns' = [turns EXCEPT ![last] = Extended(Response)]
               /\ routes' = [routes EXCEPT ![last] = Planless(Response)]
  <1>1. driver.pc = "group"
    BY DEF CommitCalls, At
  <1>2. turns # <<>> /\ turn.status \notin Terminal
    BY <1>1, Alive
  <1>3. last \in DOMAIN turns /\ turns \in Seq(Turn) /\ turn = turns[last] /\ last \in DOMAIN routes
    BY <1>2, TypeFacts, RouteDomains DEF IInv, turn
  <1>4. \/ UNCHANGED <<turns, routes>>
        \/ /\ turns' = [turns EXCEPT ![last].calls = @ \o Response]
           /\ routes' = [routes EXCEPT ![last] = @ \o [i \in DOMAIN Response |-> NoRoute]]
    BY DEF CommitCalls, Response
  <1> QED BY <1>2, <1>3, <1>4 DEF Extended, Planless

LEMMA EndIsFinal ==
  ASSUME IInv, [Next]_vars, NEW k \in DOMAIN turns, turns[k].status \in Terminal
  PROVE  /\ turns'[k] = turns[k]
         /\ \A i \in DOMAIN routes[k] : routes'[k][i].effects = routes[k][i].effects
  <1>1. DOMAIN routes = DOMAIN turns /\ DOMAIN routes[k] = DOMAIN turns[k].calls
        /\ turns \in Seq(Turn) /\ routes \in Seq(Seq(Route))
    BY RouteDomains
  <1>2. turns # <<>> /\ turn.status \notin Terminal => k # last
    BY DEF turn
  <1>3. CASE Orderly
    BY <1>1, <1>2, <1>3 DEF Orderly, Frame, OpenOnly, RouteMove
  <1>4. CASE TakeEffect
    <2>1. k # last
      BY <1>2, <1>4, RunningFacts DEF TakeEffect
    <2> QED BY <1>1, <1>4, <2>1 DEF TakeEffect
  <1>5. CASE CommitCalls
    <2>1. k # last
      BY <1>2, <1>5, CommitFacts
    <2> QED BY <1>1, <1>5, <2>1, CommitFacts
  <1>6. ASSUME NEW mode, NEW source, Accept(mode, source)
        PROVE  turns'[k] = turns[k] /\ routes'[k] = routes[k]
    <2>1. /\ turns' = Append(turns, NewTurn(mode, source)) /\ routes' = Append(routes, <<>>)
      BY <1>6 DEF Accept
    <2>2. k \in 1..Len(turns) /\ k \in 1..Len(routes)
      BY <1>1
    <2> QED BY <1>1, <2>1, <2>2, AppendProperties
  <1> QED BY <1>3, <1>4, <1>5, <1>6, OrderlyStep

\* Whatever is still on its way when _finish has closed a turn - a message, an answer, a task
\* told to stop, a recovery of the router - adds nothing to it and changes nothing in the world.
THEOREM EndsAreFinal == Spec => NothingAfterTheEnd
  <1>1. IInv /\ [Next]_vars =>
            [\A k \in DOMAIN turns : turns[k].status \in Terminal =>
                /\ turns'[k] = turns[k]
                /\ \A i \in DOMAIN routes[k] : routes'[k][i].effects = routes[k][i].effects]_vars
    BY EndIsFinal
  <1> QED BY <1>1, Invariance, PTL DEF Spec, NothingAfterTheEnd

-----------------------------------------------------------------------------
(* The contract of the router *)

\* What the contract sees of the calls a step leaves alone.
LEMMA ContractStutter ==
  ASSUME \A p \in PlanIds : StageOf(p)' = StageOf(p) /\ EffectsOf(p)' = EffectsOf(p)
  PROVE  UNCHANGED Contract!contractVars
  BY DEF Contract!contractVars

LEMMA ContractMove ==
  ASSUME NEW p \in PlanIds, NEW from, NEW to, StageOf(p) = from, StageOf(p)' = to,
         \A q \in PlanIds \ {p} : StageOf(q)' = StageOf(q),
         \A q \in PlanIds : EffectsOf(q)' = EffectsOf(q)
  PROVE  Contract!Move(p, from, to)
  BY DEF Contract!Move

PlanAt(k, i) == [turn |-> k, call |-> i, kind |-> turns[k].calls[i].kind]

\* A plan is planned before a step that keeps the kinds if and only if it is after it.
LEMMA SamePlans ==
  ASSUME SameKinds, NEW p
  PROVE  Planned(p)' = Planned(p)
  BY DEF SameKinds, Planned

\* A route moves as the contract allows its plan to.
LEMMA RouteMoveStep ==
  ASSUME IInv, SameKinds, NEW k, NEW i, NEW s, RouteMove(k, i, s), NEW p, p = PlanAt(k, i)
  PROVE  [Contract!ContractNext]_Contract!contractVars
  <1> DEFINE r == routes[k][i]
             kind == turns[k].calls[i].kind
  <1>1. /\ k \in DOMAIN turns /\ i \in DOMAIN turns[k].calls /\ s \in RouteStates /\ Legal(kind, r, s)
        /\ r.state \in RouteStates
    <2>1. r \in Route
      BY RouteDomains DEF RouteMove
    <2> QED BY <2>1 DEF RouteMove, Route
  <1>2. ASSUME NEW q \in PlanIds
        PROVE  /\ EffectsOf(q)' = EffectsOf(q)
               /\ q # p => StageOf(q)' = StageOf(q)
    <2>1. Planned(q)' = Planned(q)
      BY SamePlans
    <2>2. CASE ~Planned(q)
      BY <2>1, <2>2 DEF EffectsOf, StageOf
    <2>3. CASE Planned(q)
      <3>1. q.turn \in DOMAIN turns /\ q.call \in DOMAIN turns[q.turn].calls
        BY <2>3 DEF Planned
      <3>2. /\ routes'[q.turn][q.call].effects = routes[q.turn][q.call].effects
            /\ ~(q.turn = k /\ q.call = i) =>
                  routes'[q.turn][q.call].state = routes[q.turn][q.call].state
        BY <3>1 DEF RouteMove
      <3>3. q # p => ~(q.turn = k /\ q.call = i)
        <4> SUFFICES ASSUME q.turn = k, q.call = i PROVE q = p
          OBVIOUS
        <4>1. q.kind = kind
          BY <2>3 DEF Planned
        <4> QED BY <4>1 DEF PlanAt, PlanIds
      <3> QED BY <2>1, <2>3, <3>2, <3>3 DEF EffectsOf, StageOf
    <2> QED BY <2>2, <2>3
  <1>3. CASE p \notin PlanIds
    BY <1>2, <1>3, ContractStutter
  <1>4. CASE p \in PlanIds
    <2>1. /\ StageOf(p) = StageOfState[r.state] /\ StageOf(p)' = StageOfState[s]
          /\ EffectsOf(p) = r.effects /\ kind = p.kind
      <3>1. Planned(p) /\ p.turn = k /\ p.call = i /\ kind = p.kind
        BY <1>1 DEF Planned, PlanAt
      <3>2. Planned(p)'
        BY <3>1, SamePlans
      <3>3. routes'[k][i].state = s
        BY <1>1 DEF RouteMove
      <3> QED BY <3>1, <3>2, <3>3 DEF StageOf, EffectsOf
    <2> HIDE DEF r
    <2>2. ASSUME NEW from, NEW to, StageOfState[r.state] = from, StageOfState[s] = to
          PROVE  Contract!Move(p, from, to)
      BY <1>2, <1>4, <2>1, <2>2, ContractMove
    <2>3. CASE StageOfState[s] = StageOfState[r.state]
      <3>1. StageOf(p)' = StageOf(p)
        BY <2>1, <2>3
      <3> QED BY <1>2, <3>1, ContractStutter
    <2>4. CASE r.state = "none"
      <3>1. StageOfState[r.state] = "absent"
        BY <2>4 DEF StageOfState
      <3>2. CASE s = "pending_approval" \/ s = "denied"
        <4>1. StageOfState[s] \in {"waiting", "refused"}
          BY <3>2 DEF StageOfState
        <4> QED BY <1>4, <2>2, <3>1, <4>1 DEF Contract!ContractNext, Contract!Propose
      <3>3. CASE s = "ready" /\ kind # "action"
        <4>1. StageOfState[s] = "authorised"
          BY <3>3 DEF StageOfState
        <4>2. p \notin {q \in PlanIds : q.kind = "action"}
          BY <2>1, <3>3
        <4> QED BY <1>4, <2>2, <3>1, <4>1, <4>2 DEF Contract!ContractNext, Contract!Propose
      <3> QED BY <1>1, <2>3, <2>4, <3>2, <3>3 DEF Legal
    <2>5. CASE r.state = "pending_approval" /\ s \in {"ready", "denied"}
      <3>1. StageOfState[r.state] = "waiting" /\ StageOfState[s] \in {"authorised", "refused"}
        BY <2>5 DEF StageOfState
      <3> QED BY <1>4, <2>2, <3>1 DEF Contract!ContractNext, Contract!Decide
    <2>6. CASE r.state = "ready" /\ s = "running"
      <3>1. StageOfState[r.state] = "authorised" /\ StageOfState[s] = "started"
        BY <2>6 DEF StageOfState
      <3> QED BY <1>4, <2>2, <3>1 DEF Contract!ContractNext, Contract!Start
    <2>7. CASE r.state \in {"running", "unknown"}
      <3>1. StageOfState[r.state] = "started"
        BY <2>7 DEF StageOfState
      <3>2. p \in {q \in PlanIds : q.kind = "action"} => kind = "action"
        BY <2>1
      <3>3. CASE s = "unknown"
        BY <2>3, <3>1, <3>3 DEF StageOfState
      <3>4. CASE s = "manual_intervention"
        <4>1. StageOfState[s] = "handed_over"
          BY <3>4 DEF StageOfState
        <4> QED BY <1>4, <2>2, <3>1, <4>1 DEF Contract!ContractNext, Contract!Settle
      <3>5. CASE s = "succeeded" /\ (kind = "action" => r.effects = 1)
        <4>1. StageOfState[s] = "applied"
          BY <3>5 DEF StageOfState
        <4>2. p \in {q \in PlanIds : q.kind = "action"} => [q \in PlanIds |-> EffectsOf(q)][p] = 1
          BY <1>4, <2>1, <3>2, <3>5
        <4> QED BY <1>4, <2>2, <3>1, <4>1, <4>2 DEF Contract!ContractNext, Contract!Settle
      <3>6. CASE s = "failed" /\ (kind = "action" => r.effects = 0)
        <4>1. StageOfState[s] = "not_applied"
          BY <3>6 DEF StageOfState
        <4>2. p \in {q \in PlanIds : q.kind = "action"} => [q \in PlanIds |-> EffectsOf(q)][p] = 0
          BY <1>4, <2>1, <3>2, <3>6
        <4> QED BY <1>4, <2>2, <3>1, <4>1, <4>2 DEF Contract!ContractNext, Contract!Settle
      <3>7. CASE s = r.state
        BY <2>3, <3>7
      <3> QED BY <1>1, <2>7, <3>3, <3>4, <3>5, <3>6, <3>7 DEF Legal
    <2> QED BY <1>1, <2>3, <2>4, <2>5, <2>6, <2>7 DEF Legal
  <1> QED BY <1>3, <1>4

LEMMA OrderlyContract ==
  ASSUME IInv, Orderly
  PROVE  [Contract!ContractNext]_Contract!contractVars
  <1>1. SameKinds
    BY DEF Orderly, Frame
  <1>2. CASE routes' = routes
    <2>1. ASSUME NEW p \in PlanIds PROVE StageOf(p)' = StageOf(p) /\ EffectsOf(p)' = EffectsOf(p)
      BY <1>1, <1>2, SamePlans DEF StageOf, EffectsOf
    <2> QED BY <2>1, ContractStutter
  <1>3. ASSUME NEW k, NEW i, NEW s, RouteMove(k, i, s)
        PROVE  [Contract!ContractNext]_Contract!contractVars
    <2>1. PICK p : p = PlanAt(k, i)
      OBVIOUS
    <2> QED BY <1>1, <1>3, <2>1, RouteMoveStep
  <1> QED BY <1>2, <1>3 DEF Orderly

\* An executor changes the world while its plan is started.
LEMMA TakeEffectContract ==
  ASSUME IInv, TakeEffect
  PROVE  [Contract!ContractNext]_Contract!contractVars
  <1>1. /\ turns' = turns /\ routes' = [routes EXCEPT ![last][first].effects = 1]
        /\ turn.calls[first].kind = "action" /\ routes[last][first].effects = 0
        /\ driver.pc = "running"
    BY DEF TakeEffect
  <1>2. turns # <<>> /\ Pending(turn) # {} /\ routes[last][first].state = "running"
    BY <1>1, WorkingFacts DEF Working
  <1>3. /\ last \in DOMAIN turns /\ turn = turns[last] /\ first \in DOMAIN turn.calls
        /\ last \in DOMAIN routes /\ first \in DOMAIN routes[last] /\ routes[last][first] \in Route
    BY <1>2, TypeFacts, FirstOk DEF IInv, turn
  <1>4. \A l \in DOMAIN turns : \A j \in DOMAIN turns[l].calls :
           /\ routes'[l][j].state = routes[l][j].state
           /\ routes'[l][j].effects = IF l = last /\ j = first THEN 1 ELSE routes[l][j].effects
    <2>1. \A l \in DOMAIN turns : DOMAIN routes[l] = DOMAIN turns[l].calls
      BY RouteDomains
    <2> QED BY <1>1, <1>3, <2>1, RouteDomains DEF Route
  <1>5. PICK p : p = PlanAt(last, first)
    OBVIOUS
  <1>6. p.turn = last /\ p.call = first /\ p.kind = "action" /\ Planned(p)
    BY <1>1, <1>3, <1>5 DEF PlanAt, Planned
  <1>7. ASSUME NEW q \in PlanIds
        PROVE  /\ StageOf(q)' = StageOf(q)
               /\ EffectsOf(q)' = IF q = p THEN 1 ELSE EffectsOf(q)
    <2>1. Planned(q)' = Planned(q)
      BY <1>1 DEF Planned
    <2>2. CASE ~Planned(q)
      BY <1>6, <2>1, <2>2 DEF EffectsOf, StageOf
    <2>3. CASE Planned(q)
      <3>1. q.turn \in DOMAIN turns /\ q.call \in DOMAIN turns[q.turn].calls
        BY <2>3 DEF Planned
      <3>2. q # p => ~(q.turn = last /\ q.call = first)
        <4> SUFFICES ASSUME q.turn = last, q.call = first PROVE q = p
          OBVIOUS
        <4>1. q.kind = "action"
          BY <1>1, <1>3, <2>3 DEF Planned
        <4> QED BY <1>1, <1>3, <1>5, <4>1 DEF PlanAt, PlanIds
      <3> QED BY <1>4, <1>6, <2>1, <2>3, <3>1, <3>2 DEF EffectsOf, StageOf
    <2> QED BY <2>2, <2>3
  <1>8. CASE p \notin PlanIds
    BY <1>7, <1>8, ContractStutter
  <1>9. CASE p \in PlanIds
    <2>1. StageOf(p) = "started" /\ EffectsOf(p) = 0
      BY <1>1, <1>2, <1>6 DEF StageOf, StageOfState, EffectsOf
    <2>2. Contract!Publish(p)
      <3>1. [q \in PlanIds |-> StageOf(q)]' = [q \in PlanIds |-> StageOf(q)]
        BY <1>7
      <3>2. [q \in PlanIds |-> EffectsOf(q)]'
               = [[q \in PlanIds |-> EffectsOf(q)] EXCEPT ![p] = [q \in PlanIds |-> EffectsOf(q)][p] + 1]
        <4>1. [q \in PlanIds |-> EffectsOf(q)]' = [q \in PlanIds |-> IF q = p THEN 1 ELSE EffectsOf(q)]
          BY <1>7
        <4>2. [q \in PlanIds |-> EffectsOf(q)][p] + 1 = 1
          BY <1>9, <2>1
        <4>3. [q \in PlanIds |-> IF q = p THEN 1 ELSE EffectsOf(q)]
                 = [[q \in PlanIds |-> EffectsOf(q)] EXCEPT ![p] = 1]
          BY <1>9
        <4> QED BY <4>1, <4>2, <4>3
      <3>3. /\ [q \in PlanIds |-> StageOf(q)][p] = "started"
            /\ [q \in PlanIds |-> EffectsOf(q)][p] < 1
        BY <1>9, <2>1
      <3>4. p \in {q \in PlanIds : q.kind = "action"}
        BY <1>6, <1>9
      <3> QED BY <3>1, <3>2, <3>3, <3>4 DEF Contract!Publish
    <2> QED BY <1>9, <2>2 DEF Contract!ContractNext
  <1> QED BY <1>8, <1>9

\* New calls have no plan yet.
LEMMA CommitContract ==
  ASSUME IInv, CommitCalls
  PROVE  UNCHANGED Contract!contractVars
  <1>1. turns # <<>>
    BY CommitFacts
  <1>2. CASE UNCHANGED <<turns, routes>>
    <2>1. ASSUME NEW p \in PlanIds PROVE StageOf(p)' = StageOf(p) /\ EffectsOf(p)' = EffectsOf(p)
      BY <1>2 DEF StageOf, EffectsOf, Planned
    <2> QED BY <2>1, ContractStutter
  <1>3. CASE /\ turns' = [turns EXCEPT ![last] = Extended(Response)]
             /\ routes' = [routes EXCEPT ![last] = Planless(Response)]
    <2> DEFINE T == Extended(Response)
               R == Planless(Response)
    <2>1. Response \in Seq(Call)
      BY ResponseCalls DEF CommitCalls, At
    <2>2. /\ last \in DOMAIN turns /\ turn = turns[last] /\ last \in DOMAIN routes
          /\ turn.calls \in Seq(Call) /\ turns \in Seq(Turn) /\ routes \in Seq(Seq(Route))
      BY <1>1, TypeFacts DEF IInv, TypeOK, turn
    <2>3. /\ T.calls \in Seq(Call) /\ Len(T.calls) = Len(turn.calls) + Len(Response)
          /\ R \in Seq(Route) /\ Len(R) = Len(T.calls)
      BY <1>1, <2>1, ExtendedFacts, PlanlessFacts
    <2>4. \A i \in DOMAIN T.calls :
             i <= Len(turn.calls) => i \in DOMAIN turn.calls /\ T.calls[i] = turn.calls[i]
      BY <1>1, <2>1, ExtendedFacts
    <2>5. \A i \in DOMAIN R : \/ i <= Len(turn.calls) /\ R[i] = routes[last][i]
                              \/ i > Len(turn.calls) /\ R[i] = NoRoute
      BY <1>1, <2>1, PlanlessFacts
    <2>6. turns' = [turns EXCEPT ![last] = T] /\ routes' = [routes EXCEPT ![last] = R]
      BY <1>3
    <2> HIDE DEF T, R
    <2>7. ASSUME NEW p \in PlanIds
          PROVE  StageOf(p)' = StageOf(p) /\ EffectsOf(p)' = EffectsOf(p)
      <3>1. CASE p.turn # last
        <4>1. Planned(p)' = Planned(p)
          BY <2>2, <2>6, <3>1 DEF Planned
        <4>2. Planned(p) => routes'[p.turn] = routes[p.turn]
          BY <2>2, <2>6, <3>1, RouteDomains DEF Planned
        <4> QED BY <4>1, <4>2 DEF StageOf, EffectsOf
      <3>2. CASE p.turn = last
        <4>1. turns'[last] = T /\ routes'[last] = R /\ last \in DOMAIN turns'
          BY <2>2, <2>6
        <4>2. Planned(p)' <=> p.call \in DOMAIN T.calls /\ T.calls[p.call].kind = p.kind
          BY <3>2, <4>1 DEF Planned
        <4>3. Planned(p) <=> p.call \in DOMAIN turn.calls /\ turn.calls[p.call].kind = p.kind
          BY <2>2, <3>2 DEF Planned
        <4>4. CASE p.call \in DOMAIN turn.calls
          <5>1. /\ p.call \in DOMAIN T.calls /\ p.call \in DOMAIN R /\ p.call \in Nat
                /\ p.call <= Len(turn.calls)
            <6>1. /\ DOMAIN turn.calls = 1..Len(turn.calls) /\ Len(turn.calls) \in Nat
                  /\ Len(Response) \in Nat /\ DOMAIN T.calls = 1..Len(T.calls) /\ DOMAIN R = 1..Len(R)
              BY <2>1, <2>2, <2>3
            <6> QED BY <2>3, <4>4, <6>1
          <5>2. T.calls[p.call] = turn.calls[p.call] /\ R[p.call] = routes[last][p.call]
            BY <2>2, <2>4, <2>5, <5>1
          <5>3. Planned(p)' <=> Planned(p)
            BY <4>2, <4>3, <4>4, <5>1, <5>2, Zenon
          <5> QED BY <3>2, <4>1, <5>2, <5>3 DEF StageOf, EffectsOf
        <4>5. CASE p.call \notin DOMAIN turn.calls
          <5>1. ~Planned(p)
            BY <4>3, <4>5
          <5>2. CASE ~Planned(p)'
            BY <5>1, <5>2 DEF StageOf, EffectsOf
          <5>3. CASE Planned(p)'
            <6>1. p.call \in DOMAIN T.calls
              BY <4>2, <5>3
            <6>2. p.call \in DOMAIN R /\ p.call \in Nat /\ ~(p.call <= Len(turn.calls))
              BY <2>3, <2>4, <4>5, <6>1
            <6>3. R[p.call] = NoRoute
              BY <2>5, <6>2
            <6> QED BY <3>2, <4>1, <5>1, <5>3, <6>3 DEF StageOf, EffectsOf, StageOfState, NoRoute
          <5> QED BY <5>2, <5>3
        <4> QED BY <4>4, <4>5
      <3> QED BY <3>1, <3>2
    <2> QED BY <2>7, ContractStutter
  <1> QED BY <1>2, <1>3, CommitFacts

LEMMA AcceptContract ==
  ASSUME IInv, NEW mode, NEW source, Accept(mode, source)
  PROVE  UNCHANGED Contract!contractVars
  <1> DEFINE N == NewTurn(mode, source)
  <1>1. turns' = Append(turns, N) /\ routes' = Append(routes, <<>>)
    BY DEF Accept
  <1>2. N.calls = <<>>
    BY DEF NewTurn
  <1> HIDE DEF N
  <1>3. /\ turns \in Seq(Turn) /\ routes \in Seq(Seq(Route)) /\ Len(routes) = Len(turns)
        /\ DOMAIN routes = DOMAIN turns
    BY RouteDomains DEF IInv, TypeOK
  <1>4. /\ DOMAIN turns' = DOMAIN turns \cup {Len(turns) + 1} /\ turns'[Len(turns) + 1] = N
        /\ \A k \in DOMAIN turns : turns'[k] = turns[k] /\ routes'[k] = routes[k]
    <2>1. /\ Len(turns') = Len(turns) + 1 /\ DOMAIN turns' = 1..Len(turns') /\ Len(turns) \in Nat
          /\ DOMAIN turns = 1..Len(turns)
      BY <1>1, <1>3
    <2>2. \A k \in DOMAIN turns : turns'[k] = turns[k] /\ routes'[k] = routes[k]
      BY <1>1, <1>3
    <2>3. turns'[Len(turns) + 1] = N
      BY <1>1, <1>3
    <2> QED BY <2>1, <2>2, <2>3
  <1>5. ASSUME NEW p \in PlanIds
        PROVE  StageOf(p)' = StageOf(p) /\ EffectsOf(p)' = EffectsOf(p)
    <2>1. CASE p.turn \in DOMAIN turns
      <3>1. Planned(p)' = Planned(p)
        BY <1>4, <2>1 DEF Planned
      <3> QED BY <1>4, <2>1, <3>1 DEF StageOf, EffectsOf
    <2>2. CASE p.turn \notin DOMAIN turns
      <3>1. ~Planned(p)
        BY <2>2 DEF Planned
      <3>2. ~Planned(p)'
        BY <1>2, <1>4, <2>2 DEF Planned
      <3> QED BY <3>1, <3>2 DEF StageOf, EffectsOf
    <2> QED BY <2>1, <2>2
  <1> QED BY <1>5, ContractStutter

LEMMA ContractStep == IInv /\ [Next]_vars => [Contract!ContractNext]_Contract!contractVars
  <1> SUFFICES ASSUME IInv, [Next]_vars PROVE [Contract!ContractNext]_Contract!contractVars
    OBVIOUS
  <1>1. CASE Orderly
    BY <1>1, OrderlyContract
  <1>2. CASE TakeEffect
    BY <1>2, TakeEffectContract
  <1>3. CASE CommitCalls
    BY <1>3, CommitContract
  <1>4. ASSUME NEW mode, NEW source, Accept(mode, source)
        PROVE  [Contract!ContractNext]_Contract!contractVars
    BY <1>4, AcceptContract
  <1> QED BY <1>1, <1>2, <1>3, <1>4, OrderlyStep

\* The agent writes to the router's ledger only what the router promises of an action: it is
\* proposed, decided, started once and settled truthfully or handed over, whether the gateway,
\* an answer of a person, the end of a turn or startup recovery writes, and never in another order.
THEOREM GatewayImplementsContract == Spec => ImplementsContract
  <1>1. Init => Contract!ContractInit
    BY DEF Init, Contract!ContractInit, StageOf, EffectsOf, Planned
  <1> QED BY <1>1, ContractStep, Invariance, PTL DEF Spec, ImplementsContract, Contract!Spec
=============================================================================
