------------------------------ MODULE GitPush ------------------------------
(***************************************************************************)
(* One approved Git push (delivery/git_push.py) under the trusted-action    *)
(* router: the coroutine the router awaits, the worker thread that          *)
(* asyncio.to_thread started for it, the request on its way to the remote,  *)
(* and reconciliation, which reads the remote ref and never pushes.         *)
(*                                                                          *)
(* Cancelling the coroutine, or its deadline, detaches it from the thread:  *)
(* the thread and its git process go on.  A host that dies takes its        *)
(* threads along, but not a request that already left.                      *)
(***************************************************************************)
EXTENDS Naturals

CONSTANTS
    MaxReconcile,   \* reconciliation attempts of the router
    MaxExits,       \* bound of the model: exits of the host
    CallsDetach,    \* TRUE: the awaited call may be cancelled, time out, or die with its host
    LinesDrop       \* TRUE: git may exit with an error while the remote still works on the push

ASSUME PushAssumption == /\ MaxReconcile \in Nat \ {0}
                         /\ MaxExits \in Nat
                         /\ CallsDetach \in BOOLEAN
                         /\ LinesDrop \in BOOLEAN

VARIABLES
    route,      \* state of the action's route, as in TrustedActions
    attempts,   \* reconciliations claimed
    call,       \* the coroutine the router awaits: "none", "execute" or "reconcile"
    worker,     \* where the execute thread is
    reader,     \* what the reconcile thread has to say
    branch,     \* the local ref: the OID of the intent, or moved on
    request,    \* the push on the wire
    cargo,      \* the commit it carries
    lease,      \* the OID it requires the remote ref to have
    remote,     \* the remote ref: the expected old OID, a commit of ours, or another
    sent,       \* push commands started
    cut,        \* history: git ended before the remote had decided, by a broken connection
    landed,     \* the commit of ours the remote accepted, "none" before
    exits

vars == <<route, attempts, call, worker, reader, branch, request, cargo, lease, remote, sent, cut,
          landed, exits>>

wire == <<request, cargo, lease, sent, cut>>

Results == {"succeeded", "failed", "unknown"}

TypeOK ==
    /\ route \in {"ready", "running", "unknown", "reconciling", "succeeded", "failed",
                  "manual_intervention"}
    /\ attempts \in 0..MaxReconcile
    /\ call \in {"none", "execute", "reconcile"}
    /\ worker \in {"none", "check", "push", "wait", "exit_ok", "exit_error"} \cup Results
    /\ reader \in {"none", "read", "manual_intervention"} \cup Results
    /\ request \in {"none", "flying", "accepted", "rejected"}
    /\ branch \in {"local", "moved"}
    /\ cargo \in {"none", "local", "moved"}
    /\ lease \in {"none", "old"}
    /\ remote \in {"old", "local", "moved", "other"}
    /\ sent \in Nat /\ cut \in BOOLEAN
    /\ landed \in {"none", "local", "moved"}
    /\ exits \in 0..MaxExits

Init ==
    /\ route = "ready" /\ attempts = 0 /\ call = "none"
    /\ worker = "none" /\ reader = "none" /\ branch = "local"
    /\ request = "none" /\ cargo = "none" /\ lease = "none" /\ sent = 0 /\ cut = FALSE
    /\ remote \in {"old", "other"} /\ landed = "none" /\ exits = 0

-----------------------------------------------------------------------------
(* The execute thread: _execute *)

\* execute: the route is claimed and the thread started.
Execute ==
    /\ route = "ready"
    /\ route' = "running" /\ call' = "execute" /\ worker' = "check"
    /\ UNCHANGED <<attempts, reader, branch, wire, remote, landed, exits>>

\* _verify_local, the first ls-remote and the ancestor check: any error, a moved local
\* ref, a changed remote and a push that is no fast-forward fail before anything was sent.
WorkerChecks ==
    /\ worker = "check"
    /\ \/ worker' = "failed"
       \/ branch = "local" /\ remote = "old" /\ worker' = "push"
    /\ UNCHANGED <<route, attempts, call, reader, branch, wire, remote, landed, exits>>

\* Mutant: --force-with-lease without the expected OID, which takes the one last seen.
WorkerPushesUnpinned ==
    /\ worker = "push"
    /\ worker' = "wait" /\ request' = "flying" /\ cargo' = branch /\ sent' = sent + 1
    /\ lease' = remote
    /\ UNCHANGED <<route, attempts, call, reader, branch, remote, cut, landed, exits>>

\* git push --force-with-lease=<ref>:<expected> <remote> <local ref>:<remote ref> starts:
\* it reads the local ref again and sends what it finds there.
WorkerPushes ==
    /\ worker = "push"
    /\ worker' = "wait" /\ request' = "flying" /\ cargo' = branch /\ sent' = sent + 1
    /\ lease' = "old"
    /\ UNCHANGED <<route, attempts, call, reader, branch, remote, cut, landed, exits>>

\* The command ends: with an exit code once the remote has answered, though an answer
\* that was lost on the way is an error too (128), and so is a connection that breaks
\* before there is one; or without an accepted code (timeout, signal), which is an
\* UncertainEffectError.
WorkerReturns ==
    /\ worker = "wait"
    /\ \/ worker' = "unknown" /\ UNCHANGED cut
       \/ request = "accepted" /\ worker' = "exit_ok" /\ UNCHANGED cut
       \/ /\ request # "flying" \/ LinesDrop
          /\ worker' = "exit_error" /\ cut' = (request = "flying")
    /\ UNCHANGED <<route, attempts, call, reader, branch, request, cargo, lease, sent, remote,
                   landed, exits>>

\* Mutant: a command that failed is a failed push, without looking at the remote.
TrustExitCode ==
    /\ worker \in {"exit_ok", "exit_error"}
    /\ worker' = IF worker = "exit_ok" THEN "succeeded" ELSE "failed"
    /\ UNCHANGED <<route, attempts, call, reader, branch, wire, remote, landed, exits>>

\* The second ls-remote decides; if it cannot be read the effect is uncertain.
WorkerObserves ==
    /\ worker \in {"exit_ok", "exit_error"}
    /\ \/ worker' = "unknown"
       \/ worker' = IF remote = "local" THEN "succeeded"
                    ELSE IF worker = "exit_error" /\ remote = "old" THEN "failed"
                    ELSE "unknown"
    /\ UNCHANGED <<route, attempts, call, reader, branch, wire, remote, landed, exits>>

\* The awaited call hands the thread's result to the router.
ExecuteReturns ==
    /\ call = "execute"
    /\ worker \in Results
    /\ route' = worker /\ call' = "none"
    /\ UNCHANGED <<attempts, worker, reader, branch, wire, remote, landed, exits>>

-----------------------------------------------------------------------------
(* The remote and the other users of both repositories: external *)

\* The remote applies the push if its ref still is the OID of the lease, or refuses it.
RemoteAnswers ==
    /\ request = "flying"
    /\ \/ /\ remote = lease
          /\ remote' = cargo /\ request' = "accepted" /\ landed' = cargo
       \/ request' = "rejected" /\ UNCHANGED <<remote, landed>>
    /\ UNCHANGED <<route, attempts, call, worker, reader, branch, cargo, lease, sent, cut, exits>>

\* Somebody else moves the branch.
OthersPush ==
    /\ remote # "other"
    /\ remote' = "other"
    /\ UNCHANGED <<route, attempts, call, worker, reader, branch, wire, landed, exits>>

\* Somebody commits on the local branch, or puts it back.
LocalRefMoves ==
    /\ branch' = IF branch = "local" THEN "moved" ELSE "local"
    /\ UNCHANGED <<route, attempts, call, worker, reader, wire, remote, landed, exits>>

-----------------------------------------------------------------------------
(* Detached calls, dying hosts, reconciliation *)

\* asyncio.timeout or a cancellation ends the await; the route becomes unknown and
\* the thread is left to itself.
CallDetaches ==
    /\ CallsDetach
    /\ call # "none"
    /\ route' = "unknown" /\ call' = "none"
    /\ reader' = "none"
    /\ UNCHANGED <<attempts, worker, branch, wire, remote, landed, exits>>

\* The host dies with its threads, and its successor marks the route unknown.
HostRestarts ==
    /\ CallsDetach
    /\ exits < MaxExits
    /\ exits' = exits + 1
    /\ route' = IF route \in {"running", "reconciling"} THEN "unknown" ELSE route
    /\ call' = "none" /\ worker' = "none" /\ reader' = "none"
    /\ UNCHANGED <<attempts, branch, wire, remote, landed>>

\* reconcile_action claims an attempt and starts the thread of _reconcile, or hands
\* the route over when there is none left.
Reconcile ==
    /\ route = "unknown"
    /\ IF attempts < MaxReconcile
       THEN /\ route' = "reconciling" /\ attempts' = attempts + 1
            /\ call' = "reconcile" /\ reader' = "read"
       ELSE /\ route' = "manual_intervention"
            /\ UNCHANGED <<attempts, call, reader>>
    /\ UNCHANGED <<worker, branch, wire, remote, landed, exits>>

\* Mutant: reconciliation of a push that is not there sends it again.
ReconcilePushesAgain ==
    /\ reader = "read"
    /\ IF remote = "old"
       THEN /\ reader' = "unknown" /\ request' = "flying" /\ cargo' = branch
            /\ lease' = "old" /\ sent' = sent + 1 /\ UNCHANGED cut
       ELSE /\ reader' = IF remote = "local" THEN "succeeded" ELSE "manual_intervention"
            /\ UNCHANGED wire
    /\ UNCHANGED <<route, attempts, call, worker, branch, remote, landed, exits>>

\* Mutant: a ref that moved is taken for the push.
ReconcileAnyMove ==
    /\ reader = "read"
    /\ reader' = IF remote = "old" THEN "failed" ELSE "succeeded"
    /\ UNCHANGED <<route, attempts, call, worker, branch, wire, remote, landed, exits>>

\* _reconcile: one ls-remote; an error keeps the route unknown.
ReconcileReads ==
    /\ reader = "read"
    /\ \/ reader' = "unknown"
       \/ remote = "local" /\ reader' = "succeeded"
       \/ remote = "old" /\ reader' = "failed"
       \/ remote \notin {"local", "old"} /\ reader' = "manual_intervention"
    /\ UNCHANGED <<route, attempts, call, worker, branch, wire, remote, landed, exits>>

ReconcileReturns ==
    /\ call = "reconcile"
    /\ reader \notin {"none", "read"}
    /\ route' = reader /\ call' = "none" /\ reader' = "none"
    /\ UNCHANGED <<attempts, worker, branch, wire, remote, landed, exits>>

Next ==
    \/ Execute \/ WorkerChecks \/ WorkerPushes \/ WorkerReturns \/ WorkerObserves
    \/ ExecuteReturns \/ RemoteAnswers \/ OthersPush \/ LocalRefMoves
    \/ CallDetaches \/ HostRestarts
    \/ Reconcile \/ ReconcileReads \/ ReconcileReturns

Spec == Init /\ [][Next]_vars

-----------------------------------------------------------------------------

\* The push command is started at most once, whatever is cancelled, killed or
\* reconciled ("Push调用开始后的不确定结果只允许远端事实对账，不允许自动第二次Push").
PushedAtMostOnce == sent <= 1

\* A route that succeeded did so because the remote accepted the approved commit.
SuccessIsReal == route = "succeeded" => landed = "local"

\* A push that its own call reports as failed did not happen and is not on its way: the
\* checks failed before it was sent, or the remote decided before git ended and still has
\* the old OID, even when the exit code says less than what happened.  A connection that
\* broke before the remote decided is the exception: git exits with 128, the OID read
\* afterwards is the old one, and the remote may still go on with the push.
ReportedFailureIsDefinite ==
    route = "failed" /\ attempts = 0 /\ ~cut => landed = "none" /\ request # "flying"

\* A commit somebody else put on the branch is never overwritten: the lease binds the
\* push to the OID that was approved, however late it arrives.
NeverOverwritesOthers == [][remote = "other" => remote' = "other"]_vars

\* A push reported as failed did not happen and never will (docs/modules/delivery.md,
\* 26.2 and the error table call git_push_rejected and git_push_not_applied "确定失败").
FailureIsDefinite == route = "failed" => landed = "none"

\* Only the commit that was approved reaches the remote (docs/modules/delivery.md, rule
\* 15: "Push只更新一个Branch Ref，并绑定Remote URL摘要、Local OID和Expected Remote OID").
OnlyApprovedCommitLands == landed # "moved"
=============================================================================
