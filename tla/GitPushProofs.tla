---------------------------- MODULE GitPushProofs ----------------------------
(* Theorems about GitPush, for every number of reconciliations and exits, with and *)
(* without calls that detach and connections that break.                          *)
EXTENDS GitPush, TLAPS

-----------------------------------------------------------------------------
(* The inductive invariant *)

\* The thread of execute is started once; until it pushes nothing was sent.
Sending ==
    /\ sent = IF request = "none" THEN 0 ELSE 1
    /\ route = "ready" => worker = "none" /\ sent = 0
    /\ worker \in {"check", "push"} => sent = 0
    /\ worker \in {"wait", "exit_ok", "exit_error"} => sent = 1
    /\ route = "ready" => call = "none"

\* What the remote has of ours came with the one request, and the old OID never returns.
Landing ==
    /\ request \in {"none", "flying", "rejected"} => landed = "none"
    /\ request # "none" => lease = "old" /\ cargo # "none"
    /\ remote = "old" => landed = "none"
    /\ remote \in {"local", "moved"} => landed = remote

\* Every claim of success was made on sight of the approved commit.
Seen ==
    /\ worker = "succeeded" => landed = "local"
    /\ reader = "succeeded" => landed = "local"
    /\ route = "succeeded" => landed = "local"

\* A claim of failure by the push itself was made after the remote's decision.
Decided ==
    /\ worker = "exit_error" /\ ~cut => request # "flying"
    /\ worker = "failed" /\ ~cut => landed = "none" /\ request # "flying"
    /\ route = "failed" /\ attempts = 0 => worker \in Results \cup {"none"}
    /\ reader # "none" \/ route \in {"reconciling", "manual_intervention"} => attempts > 0
    /\ ReportedFailureIsDefinite

IInv == TypeOK /\ Sending /\ Landing /\ Seen /\ Decided

\* Nothing was sent, landed or claimed yet.
LEMMA InvInit == Init => IInv
  <1> SUFFICES ASSUME Init
               PROVE  IInv
    OBVIOUS
  <1>1. cut \in BOOLEAN /\ ~cut
    BY Zenon DEF Init
  <1> QED
    BY <1>1, PushAssumption DEF Init, IInv, TypeOK, Sending, Landing, Seen, Decided, Results,
       ReportedFailureIsDefinite

\* One case per action of Next.
LEMMA InvStep == IInv /\ [Next]_vars => IInv'
  <1> SUFFICES ASSUME IInv, [Next]_vars
               PROVE  IInv'
    OBVIOUS
  <1> USE PushAssumption
      DEF IInv, TypeOK, Sending, Landing, Seen, Decided, ReportedFailureIsDefinite, Results, wire
  <1>1. CASE Execute
    BY <1>1 DEF Execute
  <1>2. CASE WorkerChecks
    BY <1>2 DEF WorkerChecks
  <1>3. CASE WorkerPushes
    BY <1>3 DEF WorkerPushes
  <1>4. CASE WorkerReturns
    <2>1. cut' \in BOOLEAN
      BY <1>4, Zenon DEF WorkerReturns
    <2>2. worker' = "exit_error" => (cut' <=> request = "flying")
      BY <1>4 DEF WorkerReturns
    <2>3. worker' # "exit_error" => UNCHANGED cut
      BY <1>4, Zenon DEF WorkerReturns
    <2> QED
      BY <1>4, <2>1, <2>2, <2>3 DEF WorkerReturns
  <1>5. CASE WorkerObserves
    BY <1>5 DEF WorkerObserves
  <1>6. CASE ExecuteReturns
    BY <1>6 DEF ExecuteReturns
  <1>7. CASE RemoteAnswers
    BY <1>7 DEF RemoteAnswers
  <1>8. CASE OthersPush
    BY <1>8 DEF OthersPush
  <1>9. CASE LocalRefMoves
    BY <1>9 DEF LocalRefMoves
  <1>10. CASE CallDetaches
    BY <1>10 DEF CallDetaches
  <1>11. CASE HostRestarts
    BY <1>11 DEF HostRestarts
  <1>12. CASE Reconcile
    BY <1>12 DEF Reconcile
  <1>13. CASE ReconcileReads
    BY <1>13 DEF ReconcileReads
  <1>14. CASE ReconcileReturns
    BY <1>14 DEF ReconcileReturns
  <1>15. CASE UNCHANGED vars
    BY <1>15 DEF vars
  <1> QED
    BY <1>1, <1>2, <1>3, <1>4, <1>5, <1>6, <1>7, <1>8, <1>9, <1>10, <1>11, <1>12, <1>13, <1>14, <1>15 DEF Next

\* The invariant holds in every state.
LEMMA Invariance == Spec => []IInv
  BY InvInit, InvStep, PTL DEF Spec
-----------------------------------------------------------------------------
(* Theorems *)

\* Every variable stays in its type; in particular no more reconciliations are claimed
\* than the router allows.
THEOREM TypeCorrect == Spec => []TypeOK
  <1>1. IInv => TypeOK
    BY DEF IInv
  <1> QED BY <1>1, Invariance, PTL

\* The push command is started at most once in the life of the action: the claim of its
\* route is the only way to the thread that starts it, and reconcile() only reads.
THEOREM PushHappensAtMostOnce == Spec => []PushedAtMostOnce
  <1>1. IInv => PushedAtMostOnce
    BY DEF IInv, Sending, PushedAtMostOnce
  <1> QED BY <1>1, Invariance, PTL

\* Whatever is cancelled, lost or killed, a route says succeeded only if the remote
\* accepted the approved commit.
THEOREM SuccessIsAlwaysReal == Spec => []SuccessIsReal
  <1>1. IInv => SuccessIsReal
    BY DEF IInv, Seen, SuccessIsReal
  <1> QED BY <1>1, Invariance, PTL

\* A failure the push itself reports is definite as long as git did not lose the
\* connection before the remote decided.
THEOREM ReportedFailuresAreDefinite == Spec => []ReportedFailureIsDefinite
  <1>1. IInv => ReportedFailureIsDefinite
    BY DEF IInv, Decided
  <1> QED BY <1>1, Invariance, PTL

\* --force-with-lease with the approved OID: nobody else's commit is ever overwritten.
THEOREM OthersAreNeverOverwritten == Spec => NeverOverwritesOthers
  <1>1. IInv /\ [Next]_vars => [remote = "other" => remote' = "other"]_vars
    <2> SUFFICES ASSUME IInv, Next, remote = "other"
                 PROVE  remote' = "other"
      BY DEF vars
    <2>1. CASE RemoteAnswers
      BY <2>1 DEF RemoteAnswers, IInv, Landing
    <2>2. CASE ~RemoteAnswers
      BY <2>2 DEF Next, Execute, WorkerChecks, WorkerPushes, WorkerReturns, WorkerObserves,
         ExecuteReturns, OthersPush, LocalRefMoves, CallDetaches, HostRestarts, Reconcile,
         ReconcileReads, ReconcileReturns
    <2> QED BY <2>1, <2>2
  <1> QED BY <1>1, Invariance, PTL DEF Spec, NeverOverwritesOthers
=============================================================================
