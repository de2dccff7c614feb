------------------------- MODULE ProcessSupervisor -------------------------
(***************************************************************************)
(* One supervised process (harnessix/processes): the run that starts it,   *)
(* the owner worker that launches and reaps the target's process group,    *)
(* the signed receipt through which the owner reports, the lease that the  *)
(* host advances by compare-and-set, the reconciliation of a lease whose   *)
(* run is over, and the supervisor's close.  Host and owner are two        *)
(* operating-system processes that share a control pipe and a file; either *)
(* may die between any two steps.                                          *)
(***************************************************************************)
EXTENDS Naturals, Sequences

CONSTANTS
    MaxReceipts,    \* bound: running receipts an owner publishes
    MaxFaults,      \* bound: crashes, kills and I/O failures
    OwnerMayDie     \* whether the owner can be killed, or end without its last receipt

ASSUME ProcessAssumption ==
    /\ MaxReceipts \in Nat \ {0}
    /\ MaxFaults \in Nat
    /\ OwnerMayDie \in BOOLEAN

VARIABLES
    lease,      \* the stored ProcessLease: state, sequence and stop reason
    receipt,    \* receipt.json in the run directory
    owner,      \* the owner worker: where it is, its stop reason, io_failed, receipt_sequence
    target,     \* the target's process group
    ended,      \* how the target's root process ended
    pipe,       \* the control pipe: frames not yet read, and whether the host holds it open
    thread,     \* the worker thread of asyncio.to_thread that starts the owner
    hands,      \* the SupervisedProcess of the run and the one of a reconciliation
    pc,         \* where the run, the reconciliation and the close are
    cancelled,  \* whether the run's task was cancelled
    host,       \* whether the host process runs, and whether it is still recovering
    reported,   \* the outcome kinds the executor handed to the router
    faults

ownerVars == <<receipt, owner, target, ended>>
hostVars  == <<thread, hands, pc, cancelled, host, reported>>
vars == <<lease, ownerVars, pipe, hostVars, faults>>

Terminal == {"exited", "failed", "unknown"}
Active   == {"prepared", "starting", "running", "stopping"}
Limits   == {"timeout", "output_limit"}
Stops    == Limits \cup {"exited", "cancelled", "closed", "host_lost", "io_error",
                         "cleanup_failed"}
Reasons  == Stops \cup {"none", "launch_failed"}

Nothing == [state |-> "none", seq |-> 0, reason |-> "none"]
Unread  == [state |-> "unread", seq |-> 0, reason |-> "none"]
NoHandle == [state |-> "none", seq |-> 0, seen |-> 0, look |-> Unread]

Transitions ==
    [prepared |-> {"starting", "failed", "unknown"},
     starting |-> {"running", "exited", "failed", "unknown"},
     running  |-> {"running", "stopping", "exited", "unknown"},
     stopping |-> {"stopping", "exited", "unknown"}]

OwnerEnded == owner.pc \in {"gone", "killed"}
OwnerRuns  == owner.pc \notin {"absent", "gone", "killed"}

Init ==
    /\ lease = Nothing
    /\ receipt = Nothing
    /\ owner = [pc |-> "absent", stop |-> "none", failed |-> FALSE, seq |-> 0]
    /\ target = "none"
    /\ ended = "none"
    /\ pipe = [frames |-> <<>>, open |-> FALSE]
    /\ thread = "none"
    /\ hands = [own |-> NoHandle, recovery |-> NoHandle]
    /\ pc = [run |-> "create", recon |-> "idle", closer |-> "idle"]
    /\ cancelled = FALSE
    /\ host = "up"
    /\ reported = {}
    /\ faults = 0

Fault == faults < MaxFaults /\ faults' = faults + 1

At(task, place) == host # "down" /\ pc[task] = place
Goto(task, place) == pc' = [pc EXCEPT ![task] = place]

-----------------------------------------------------------------------------
(* SQLiteProcessLeaseStore.transition, from the snapshot a handle holds. *)

\* Mutant: no compare-and-set.
FreshAlways(h) == TRUE

Fresh(h) == hands[h].seq = lease.seq

\* The transition of handle h to state s, when the table allows it and the snapshot is current.
Allowed(h, s) == Fresh(h) /\ s \in Transitions[hands[h].state]

StoredLease(s, reason) == [state |-> s, seq |-> lease.seq + 1, reason |-> reason]
Held(h, s) == [hands[h] EXCEPT !.state = s, !.seq = @ + 1, !.look = Unread]

\* The control pipe once the run's handle closed its end; a recovery handle has none.
ClosedBy(h) == IF h = "own" THEN [pipe EXCEPT !.open = FALSE] ELSE pipe

\* A result in doubt: the router reconciles it, or hands it to a person.
Doubt(origin) == IF origin = "execution" THEN "unknown" ELSE "manual_intervention"

\* Mutant: any exit is a success.
OutcomesAnyExit(l, origin) ==
    {IF l.state = "exited" THEN "succeeded" ELSE IF l.state = "failed" THEN "failed"
     ELSE Doubt(origin)}

\* What the executor makes of a lease: a conclusion, or doubt when the lease is not terminal,
\* unknown, or its output cannot be read.
Outcomes(l, origin) ==
    {Doubt(origin)} \cup
    IF l.state = "failed" THEN {"failed"}
    ELSE IF l.state = "exited"
         THEN {IF l.reason = "exited" THEN "succeeded" ELSE "failed"}
         ELSE {}
Report(l, origin) == \E o \in Outcomes(l, origin) : reported' = reported \cup {o}

-----------------------------------------------------------------------------
(* The run: PosixProcessSupervisor.run under EvalRunTestsActionExecutor.execute. *)

\* _start_bound up to the prepared lease; a refusal before it leaves no lease.
CreateLease ==
    /\ At("run", "create")
    /\ \/ /\ lease' = [Nothing EXCEPT !.state = "prepared"]
          /\ Goto("run", "mkdir")
          /\ UNCHANGED reported
       \/ /\ \E o \in {"failed", "unknown"} : reported' = reported \cup {o}
          /\ Goto("run", "end")
          /\ UNCHANGED lease
    /\ UNCHANGED <<ownerVars, pipe, thread, hands, cancelled, host, faults>>

\* The run directory is made and the lease is starting; the thread is asked for the owner.
MakeDirectory ==
    /\ At("run", "mkdir")
    /\ lease' = StoredLease("starting", "none")
    /\ pipe' = [pipe EXCEPT !.open = TRUE]
    /\ thread' = "spawning"
    /\ Goto("run", "spawn")
    /\ UNCHANGED <<ownerVars, hands, cancelled, host, reported, faults>>

DirectoryFails ==
    /\ At("run", "mkdir")
    /\ Fault
    /\ lease' = StoredLease("failed", "launch_failed")
    /\ Report(lease', "execution")
    /\ Goto("run", "end")
    /\ UNCHANGED <<ownerVars, pipe, thread, hands, cancelled, host>>

\* _spawn_owner in its thread, which goes on when the run is cancelled.
ThreadSpawns ==
    /\ host = "up" /\ thread = "spawning"
    /\ thread' = "spawned"
    /\ owner' = [owner EXCEPT !.pc = "reading"]
    /\ UNCHANGED <<lease, receipt, target, ended, pipe, hands, pc, cancelled, host, reported, faults>>

ThreadRefused ==
    /\ host = "up" /\ thread = "spawning"
    /\ Fault
    /\ thread' = "broken"
    /\ UNCHANGED <<lease, ownerVars, pipe, hands, pc, cancelled, host, reported>>

SendStart ==
    /\ At("run", "spawn") /\ thread = "spawned"
    /\ thread' = "sending"
    /\ Goto("run", "send")
    /\ UNCHANGED <<lease, ownerVars, pipe, hands, cancelled, host, reported, faults>>

\* _write_all in its thread: the start frame reaches the pipe whole, or the reader is gone.
ThreadSends ==
    /\ host = "up" /\ thread = "sending"
    /\ IF OwnerEnded
       THEN thread' = "broken" /\ UNCHANGED pipe
       ELSE thread' = "sent" /\ pipe' = [pipe EXCEPT !.frames = Append(@, "start")]
    /\ UNCHANGED <<lease, ownerVars, hands, pc, cancelled, host, reported, faults>>

\* The except branch of the start: the owner it would kill never came up or has ended.
StartFails ==
    /\ pc["run"] \in {"spawn", "send"} /\ host = "up" /\ thread = "broken"
    /\ thread' = "none"
    /\ pipe' = [pipe EXCEPT !.open = FALSE]
    /\ lease' = StoredLease("failed", "launch_failed")
    /\ Report(lease', "execution")
    /\ Goto("run", "end")
    /\ UNCHANGED <<ownerVars, hands, cancelled, host, faults>>

RegisterHandle ==
    /\ At("run", "send") /\ thread = "sent"
    /\ thread' = "none"
    /\ hands' = [hands EXCEPT !["own"] = [NoHandle EXCEPT !.state = "starting", !.seq = lease.seq]]
    /\ Goto("run", "poll")
    /\ UNCHANGED <<lease, ownerVars, pipe, cancelled, host, reported, faults>>

\* The 500 polls of the start end: with a state other than starting, or with a stop.
StartReturns ==
    /\ At("run", "poll") /\ hands["own"].state # "starting"
    /\ Goto("run", "wait")
    /\ UNCHANGED <<lease, ownerVars, pipe, thread, hands, cancelled, host, reported, faults>>

StartGivesUp ==
    /\ At("run", "poll") /\ hands["own"].state = "starting" /\ hands["own"].look = Unread
    /\ Goto("run", "stop")
    /\ UNCHANGED <<lease, ownerVars, pipe, thread, hands, cancelled, host, reported, faults>>

-----------------------------------------------------------------------------
(* SupervisedProcess.refresh: the receipt is read in a thread, then applied under the lock. *)

Refreshers(h) ==
    IF h = "own" THEN {<<"run", "poll">>, <<"run", "wait">>, <<"run", "drain">>, <<"closer", "wait">>}
                 ELSE {<<"recon", "window">>}
Refreshing(h) == host # "down" /\ \E r \in Refreshers(h) : pc[r[1]] = r[2]

ReadReceipt(h) ==
    /\ Refreshing(h)
    /\ hands[h].state \in Active /\ hands[h].look = Unread
    /\ hands' = [hands EXCEPT ![h].look = receipt]
    /\ UNCHANGED <<lease, ownerVars, pipe, thread, pc, cancelled, host, reported, faults>>

\* The lease state a receipt projects to.
Projected(h) ==
    IF hands[h].look.state = "running" /\ hands[h].state = "stopping"
    THEN "stopping" ELSE hands[h].look.state

\* Only the run's handle holds the owner's Popen.
OwnerExited(h) == h = "own" /\ OwnerEnded

\* Mutant: a missing receipt is waited for even when the owner has exited.
WantedPatient(h) ==
    IF hands[h].look.seq > hands[h].seen THEN {<<Projected(h), hands[h].look.reason>>} ELSE {}

\* What this refresh wants of the lease: nothing, or a state and a reason.
Wanted(h) ==
    LET look == hands[h].look IN
    IF look.state = "none"
    THEN IF OwnerExited(h) THEN {<<"unknown", "cleanup_failed">>} ELSE {}
    ELSE IF look.seq > hands[h].seen THEN {<<Projected(h), look.reason>>} ELSE {}

ApplyReceipt(h) ==
    /\ Refreshing(h) /\ hands[h].look # Unread
    /\ \/ /\ Wanted(h) = {}
          /\ hands' = [hands EXCEPT ![h].look = Unread]
          /\ UNCHANGED <<lease, pipe>>
       \/ \E w \in Wanted(h) :
            /\ Allowed(h, w[1])
            /\ lease' = StoredLease(w[1], w[2])
            /\ hands' = [hands EXCEPT ![h] = [Held(h, w[1]) EXCEPT !.seen = hands[h].look.seq]]
            /\ pipe' = IF w[1] \in Terminal THEN ClosedBy(h) ELSE pipe
    /\ UNCHANGED <<ownerVars, thread, pc, cancelled, host, reported, faults>>

\* The store refuses the transition: the refresh raises and its caller gives up.
ApplyRefused(h) ==
    /\ Refreshing(h) /\ hands[h].look # Unread
    /\ \E w \in Wanted(h) : ~Allowed(h, w[1])
    /\ hands' = [hands EXCEPT ![h].look = Unread, ![h].seen = hands[h].look.seq]
    /\ \/ /\ h = "own" /\ pc["closer"] = "wait"
          /\ Goto("closer", "failed") /\ UNCHANGED reported
       \/ /\ h = "own" /\ pc["closer"] # "wait"
          /\ Goto("run", "end") /\ Report(lease, "execution")
       \/ /\ h = "recovery"
          /\ Goto("recon", "done") /\ reported' = reported \cup {"manual_intervention"}
    /\ UNCHANGED <<lease, ownerVars, pipe, thread, cancelled, host, faults>>

-----------------------------------------------------------------------------
(* SupervisedProcess.stop, for the run and for the close: persist, then write the frame. *)

StopReason(task) == IF task = "run" /\ cancelled THEN "cancelled" ELSE "closed"
AfterStop(task) == IF task = "run" /\ cancelled THEN "drain" ELSE "wait"

StopPersists(task) ==
    /\ At(task, "stop")
    /\ \/ /\ hands["own"].state \in Terminal
          /\ Goto(task, AfterStop(task))
          /\ UNCHANGED <<lease, hands, reported>>
       \/ /\ hands["own"].state = "starting"
          /\ Goto(task, "tell")
          /\ UNCHANGED <<lease, hands, reported>>
       \/ /\ hands["own"].state \in {"running", "stopping"} /\ Fresh("own")
          /\ IF hands["own"].state = "running"
             THEN /\ lease' = StoredLease("stopping", "none")
                  /\ hands' = [hands EXCEPT !["own"] = Held("own", "stopping")]
             ELSE UNCHANGED <<lease, hands>>
          /\ Goto(task, "tell")
          /\ UNCHANGED reported
       \/ /\ hands["own"].state = "running" /\ ~Fresh("own")
          /\ IF task = "run" THEN Goto(task, "end") /\ Report(lease, "execution")
                             ELSE Goto(task, "failed") /\ UNCHANGED reported
          /\ UNCHANGED <<lease, hands>>
    /\ UNCHANGED <<ownerVars, pipe, thread, cancelled, host, faults>>

\* A dead reader loses the control channel quietly; a channel lost before is process_not_owned.
StopSends(task) ==
    /\ At(task, "tell")
    /\ \/ /\ pipe.open
          /\ pipe' = IF OwnerEnded THEN [pipe EXCEPT !.open = FALSE]
                     ELSE [pipe EXCEPT !.frames = Append(@, StopReason(task))]
          /\ Goto(task, AfterStop(task))
          /\ UNCHANGED reported
       \/ /\ ~pipe.open
          /\ IF task = "run" THEN Goto(task, "end") /\ Report(lease, "execution")
                             ELSE Goto(task, "failed") /\ UNCHANGED reported
          /\ UNCHANGED pipe
    /\ UNCHANGED <<lease, ownerVars, thread, hands, cancelled, host, faults>>

-----------------------------------------------------------------------------
(* The end of the run, its cancellation, the reconciliation and the close. *)

\* wait returns: the lease is terminal and the owner is reaped.
WaitReturns ==
    /\ At("run", "wait") /\ hands["own"].state \in Terminal /\ OwnerEnded
    /\ Report(lease, "execution")
    /\ Goto("run", "end")
    /\ UNCHANGED <<lease, ownerVars, pipe, thread, hands, cancelled, host, faults>>

DrainReturns ==
    /\ At("run", "drain") /\ hands["own"].state \in Terminal
    /\ Goto("run", "end")
    /\ UNCHANGED <<lease, ownerVars, pipe, thread, hands, cancelled, host, reported, faults>>

\* Mutant: a start that is cancelled records that it failed.
CancelRunFails ==
    /\ host = "up" /\ ~cancelled /\ pc["run"] \in {"spawn", "send", "poll"}
    /\ cancelled' = TRUE
    /\ lease' = IF lease.state = "starting" THEN StoredLease("failed", "launch_failed") ELSE lease
    /\ Goto("run", "end")
    /\ UNCHANGED <<ownerVars, pipe, thread, hands, host, reported, faults>>

\* The task is cancelled: while it waits it stops the owner first, while it starts it just
\* leaves, and the thread, the pipe and the handle stay as they are.
CancelRun ==
    /\ host = "up" /\ ~cancelled
    /\ cancelled' = TRUE
    /\ \/ pc["run"] \in {"spawn", "send", "poll"} /\ Goto("run", "end")
       \/ pc["run"] = "wait" /\ Goto("run", "stop")
    /\ hands' = [hands EXCEPT !["own"].look = Unread]
    /\ UNCHANGED <<lease, ownerVars, pipe, thread, host, reported, faults>>

Concluded == reported \cap {"succeeded", "failed", "manual_intervention"} # {}

\* EvalRunTestsActionExecutor.reconcile, once the run is over and the router is in doubt.
StartReconcile ==
    /\ At("recon", "idle") /\ pc["run"] = "end" /\ pc["closer"] = "idle" /\ ~Concluded
    /\ \/ /\ lease.state = "none"
          /\ reported' = reported \cup {"failed"}
          /\ Goto("recon", "done") /\ UNCHANGED <<lease, hands>>
       \/ /\ lease.state \in Terminal
          /\ Report(lease, "recovery")
          /\ Goto("recon", "done") /\ UNCHANGED <<lease, hands>>
       \/ /\ lease.state = "prepared"
          /\ lease' = StoredLease("failed", "launch_failed")
          /\ Report(lease', "recovery")
          /\ Goto("recon", "done") /\ UNCHANGED hands
       \/ /\ lease.state \in Active \ {"prepared"}
          /\ hands' = [hands EXCEPT !["recovery"] =
                          [NoHandle EXCEPT !.state = lease.state, !.seq = lease.seq]]
          /\ Goto("recon", "window") /\ UNCHANGED <<lease, reported>>
    /\ UNCHANGED <<ownerVars, pipe, thread, cancelled, host, faults>>

ReconcileReturns ==
    /\ At("recon", "window") /\ hands["recovery"].state \in Terminal
    /\ Report(lease, "recovery")
    /\ Goto("recon", "done")
    /\ UNCHANGED <<lease, ownerVars, pipe, thread, hands, cancelled, host, faults>>

\* The polls are used up: the lease becomes unknown without any power over the owner.
WindowEnds ==
    /\ At("recon", "window")
    /\ hands["recovery"].state \in Active /\ hands["recovery"].look = Unread
    /\ Allowed("recovery", "unknown")
    /\ lease' = StoredLease("unknown", "host_lost")
    /\ hands' = [hands EXCEPT !["recovery"] = Held("recovery", "unknown")]
    /\ UNCHANGED <<ownerVars, pipe, thread, pc, cancelled, host, reported, faults>>

\* PosixProcessSupervisor.aclose, once runs and reconciliations are over.
StartClose ==
    /\ host = "up" /\ pc["closer"] = "idle" /\ pc["run"] = "end" /\ pc["recon"] # "window"
    /\ Goto("closer", IF hands["own"].state \in Active THEN "stop" ELSE "done")
    /\ UNCHANGED <<lease, ownerVars, pipe, thread, hands, cancelled, host, reported, faults>>

CloseReturns ==
    /\ At("closer", "wait") /\ hands["own"].state \in Terminal /\ OwnerEnded
    /\ pipe' = [pipe EXCEPT !.open = FALSE]
    /\ Goto("closer", "done")
    /\ UNCHANGED <<lease, ownerVars, thread, hands, cancelled, host, reported, faults>>

\* The host process ends: descriptors close, threads, tasks and handles are lost.
HostEnds ==
    /\ host' = "down"
    /\ pipe' = [pipe EXCEPT !.open = FALSE]
    /\ thread' = "none"
    /\ hands' = [own |-> NoHandle, recovery |-> NoHandle]
    /\ pc' = [run |-> "end", recon |-> "idle", closer |-> "idle"]
    /\ UNCHANGED <<lease, ownerVars, cancelled, reported>>
HostDies  == host # "down" /\ Fault /\ HostEnds
HostExits == host = "up" /\ pc["closer"] \in {"done", "failed"} /\ HostEnds /\ UNCHANGED faults

\* The agent runtime's recovery reconciles what is in doubt before it opens.
HostRestarts ==
    /\ \/ host = "down" /\ host' = "recovering"
       \/ host = "recovering" /\ (Concluded \/ pc["recon"] = "done") /\ host' = "up"
    /\ UNCHANGED <<lease, ownerVars, pipe, thread, hands, pc, cancelled, reported, faults>>

-----------------------------------------------------------------------------
(* The owner worker (posix_owner.py) and the process group it launches. *)

OwnerStep(place) == owner.pc = place /\ UNCHANGED <<lease, hostVars>>

ReadStart ==
    /\ OwnerStep("reading")
    /\ IF pipe.frames # <<>>
       THEN /\ owner' = [owner EXCEPT !.pc = "launch"]
            /\ pipe' = [pipe EXCEPT !.frames = Tail(@)]
       ELSE /\ ~pipe.open
            /\ owner' = [owner EXCEPT !.pc = "gone"]
            /\ UNCHANGED pipe
    /\ UNCHANGED <<receipt, target, ended, faults>>

Launch ==
    /\ OwnerStep("launch")
    /\ \/ /\ target' = "alive"
          /\ owner' = [owner EXCEPT !.pc = "started"]
          /\ UNCHANGED receipt
       \/ /\ receipt' = [state |-> "failed", seq |-> 1, reason |-> "launch_failed"]
          /\ owner' = [owner EXCEPT !.pc = "gone"]
          /\ UNCHANGED target
    /\ UNCHANGED <<ended, pipe, faults>>

\* The running receipt, at the launch and again as output arrives.
PublishRunning ==
    /\ owner.pc \in {"started", "loop"} /\ owner.seq < MaxReceipts
    /\ receipt' = [state |-> "running", seq |-> owner.seq + 1, reason |-> "none"]
    /\ owner' = [owner EXCEPT !.pc = "loop", !.seq = @ + 1]
    /\ UNCHANGED <<lease, hostVars, target, ended, pipe, faults>>

\* _request_stop: the first reason wins.
Stopped(o, reason) == IF o.stop = "none" THEN [o EXCEPT !.stop = reason] ELSE o

ReadControls ==
    /\ OwnerStep("loop")
    /\ IF pipe.frames # <<>>
       THEN /\ owner' = Stopped(owner, Head(pipe.frames))
            /\ pipe' = [pipe EXCEPT !.frames = Tail(@)]
       ELSE /\ ~pipe.open /\ owner.stop = "none"
            /\ owner' = Stopped(owner, "host_lost")
            /\ UNCHANGED pipe
    /\ UNCHANGED <<receipt, target, ended, faults>>

\* The deadline passes or a budget is used up.
LimitStops ==
    /\ OwnerStep("loop") /\ owner.stop = "none"
    /\ \E r \in Limits : owner' = Stopped(owner, r)
    /\ UNCHANGED <<receipt, target, ended, pipe, faults>>

\* A stream, stdin or a signal fails.
IoFails ==
    /\ OwnerStep("loop") /\ Fault
    /\ owner' = [Stopped(owner, "io_error") EXCEPT !.failed = TRUE]
    /\ UNCHANGED <<receipt, target, ended, pipe>>

\* The root is found to have exited before any stop was asked for.
NoticeExit ==
    /\ OwnerStep("loop") /\ owner.stop = "none" /\ target \in {"orphans", "gone"}
    /\ owner' = Stopped(owner, "exited")
    /\ UNCHANGED <<receipt, target, ended, pipe, faults>>

\* Mutant: only a live root is killed.
EscalateRootOnly ==
    /\ OwnerStep("loop") /\ owner.stop # "none" /\ target = "alive"
    /\ target' = "gone" /\ ended' = "stopped"
    /\ UNCHANGED <<receipt, owner, pipe, faults>>

\* The grace is over and the group still exists: SIGKILL.
Escalate ==
    /\ OwnerStep("loop") /\ owner.stop # "none" /\ target \in {"alive", "orphans"}
    /\ target' = "gone"
    /\ ended' = IF target = "alive" THEN "stopped" ELSE ended
    /\ UNCHANGED <<receipt, owner, pipe, faults>>

\* The loop breaks once root and group are gone; the last receipt is signed.
Finish ==
    /\ OwnerStep("loop") /\ owner.stop # "none" /\ target = "gone"
    /\ receipt' = IF owner.failed \/ owner.stop = "cleanup_failed"
                  THEN [state |-> "unknown", seq |-> owner.seq + 1, reason |-> "cleanup_failed"]
                  ELSE [state |-> "exited", seq |-> owner.seq + 1, reason |-> owner.stop]
    /\ owner' = [owner EXCEPT !.pc = "gone", !.seq = @ + 1]
    /\ UNCHANGED <<target, ended, pipe, faults>>

\* The launch after Popen, or the loop, raises: emergency cleanup, then an unknown receipt.
LoopFails ==
    /\ owner.pc \in {"started", "loop"} /\ Fault
    /\ owner' = [Stopped(owner, "cleanup_failed") EXCEPT !.pc = "failing", !.failed = TRUE]
    /\ UNCHANGED <<lease, hostVars, receipt, target, ended, pipe>>

EmergencyCleanup ==
    /\ OwnerStep("failing")
    /\ target' = "gone"
    /\ ended' = IF target = "alive" THEN "stopped" ELSE ended
    /\ receipt' = [state |-> "unknown", seq |-> owner.seq + 1, reason |-> "cleanup_failed"]
    /\ owner' = [owner EXCEPT !.pc = "gone", !.seq = @ + 1]
    /\ UNCHANGED <<pipe, faults>>

\* The owner is killed, or cannot write its last receipt.  Linux kills the root with it.
OwnerDies ==
    /\ OwnerMayDie /\ OwnerRuns /\ Fault
    /\ owner' = [owner EXCEPT !.pc = "killed"]
    /\ IF target = "alive"
       THEN \/ UNCHANGED <<target, ended>>
            \/ target' \in {"orphans", "gone"} /\ ended' = "stopped"
       ELSE UNCHANGED <<target, ended>>
    /\ UNCHANGED <<lease, hostVars, receipt, pipe>>

\* The target's own steps: the root exits, with or without descendants; these exit.
TargetEnds ==
    /\ \/ /\ target = "alive"
          /\ target' \in {"orphans", "gone"}
          /\ ended' = IF owner.stop = "none" THEN "itself" ELSE "stopped"
       \/ /\ target = "orphans"
          /\ target' = "gone"
          /\ UNCHANGED ended
    /\ UNCHANGED <<lease, hostVars, receipt, owner, pipe, faults>>

-----------------------------------------------------------------------------

StartSteps == \/ CreateLease \/ MakeDirectory \/ DirectoryFails \/ ThreadSpawns \/ ThreadRefused
              \/ SendStart \/ ThreadSends \/ StartFails \/ RegisterHandle
              \/ StartReturns \/ StartGivesUp
HandleSteps == \/ \E h \in {"own", "recovery"} : ReadReceipt(h) \/ ApplyReceipt(h) \/ ApplyRefused(h)
               \/ \E t \in {"run", "closer"} : StopPersists(t) \/ StopSends(t)
EndSteps == \/ WaitReturns \/ DrainReturns \/ CancelRun
            \/ StartReconcile \/ ReconcileReturns \/ WindowEnds
            \/ StartClose \/ CloseReturns \/ HostDies \/ HostExits \/ HostRestarts
OwnerSteps == \/ ReadStart \/ Launch \/ PublishRunning \/ ReadControls \/ LimitStops \/ IoFails
              \/ NoticeExit \/ Escalate \/ Finish \/ LoopFails \/ EmergencyCleanup \/ OwnerDies

Next == StartSteps \/ HandleSteps \/ EndSteps \/ OwnerSteps \/ TargetEnds

Spec == Init /\ [][Next]_vars

\* Threads and tasks run; the owner's loop turns over, its deadline comes and SIGKILL kills; a
\* route in doubt is reconciled and a host that went down is started again.
Fairness ==
    /\ WF_vars(CreateLease) /\ WF_vars(MakeDirectory \/ DirectoryFails)
    /\ WF_vars(ThreadSpawns \/ ThreadRefused) /\ WF_vars(SendStart) /\ WF_vars(ThreadSends)
    /\ WF_vars(StartFails) /\ WF_vars(RegisterHandle) /\ WF_vars(StartReturns)
    /\ \A h \in {"own", "recovery"} : WF_vars(ReadReceipt(h)) /\ WF_vars(ApplyReceipt(h) \/ ApplyRefused(h))
    /\ \A t \in {"run", "closer"} : WF_vars(StopPersists(t)) /\ WF_vars(StopSends(t))
    /\ WF_vars(WaitReturns) /\ WF_vars(DrainReturns) /\ WF_vars(CloseReturns)
    /\ WF_vars(StartReconcile) /\ WF_vars(ReconcileReturns) /\ SF_vars(WindowEnds)
    /\ WF_vars(HostExits) /\ WF_vars(HostRestarts)
    /\ WF_vars(ReadStart) /\ WF_vars(Launch) /\ WF_vars(owner.pc = "started" /\ PublishRunning)
    /\ WF_vars(ReadControls) /\ WF_vars(LimitStops) /\ WF_vars(NoticeExit)
    /\ WF_vars(Escalate) /\ WF_vars(Finish) /\ WF_vars(EmergencyCleanup)
FairSpec == Spec /\ Fairness

-----------------------------------------------------------------------------
(* Properties. *)

HandleType == [state : Active \cup Terminal \cup {"none"}, seq : Nat, seen : Nat,
               look : [state : {"unread", "none", "running"} \cup Terminal, seq : Nat,
                       reason : Reasons]]

\* Every variable has its type; a running receipt is never older than its bound.
TypeOK ==
    /\ lease \in [state : Active \cup Terminal \cup {"none"}, seq : Nat, reason : Reasons]
    /\ receipt \in [state : {"none", "running"} \cup Terminal, seq : Nat, reason : Reasons]
    /\ owner \in [pc : {"absent", "reading", "launch", "started", "loop", "failing", "gone",
                        "killed"},
                  stop : Stops \cup {"none"}, failed : BOOLEAN, seq : Nat]
    /\ target \in {"none", "alive", "orphans", "gone"}
    /\ ended \in {"none", "itself", "stopped"}
    /\ pipe \in [frames : Seq({"start", "cancelled", "closed"}), open : BOOLEAN]
    /\ thread \in {"none", "spawning", "spawned", "sending", "sent", "broken"}
    /\ hands \in [{"own", "recovery"} -> HandleType]
    /\ pc \in [run : {"create", "mkdir", "spawn", "send", "poll", "stop", "tell", "wait", "drain",
                      "end"},
               recon : {"idle", "window", "done"},
               closer : {"idle", "stop", "tell", "wait", "done", "failed"}]
    /\ cancelled \in BOOLEAN
    /\ host \in {"up", "down", "recovering"}
    /\ reported \subseteq {"succeeded", "failed", "unknown", "manual_intervention"}
    /\ faults \in 0 .. MaxFaults

\* What a terminal lease says of the target is true and stays true: failed means it never ran and
\* never will, exited that its whole group is gone, and the reason exited that the root ended
\* before anyone stopped it.
LeaseIsTrue ==
    /\ lease.state = "failed" => target = "none" /\ owner.pc \notin {"launch", "started", "loop"}
    /\ lease.state = "exited" =>
          /\ target = "gone"
          /\ lease.reason = "exited" => ended = "itself"

\* An outcome the router records as final never leaves a process running or about to run, and a
\* success is a run that ended by itself; no run is reported both ways.
ReportIsTrue ==
    /\ "failed" \in reported => target \in {"none", "gone"} /\ owner.pc # "launch"
    /\ "succeeded" \in reported => target = "gone" /\ ended = "itself"
    /\ ~({"succeeded", "failed"} \subseteq reported)

\* No handle with a stale snapshot, of the run or of a reconciliation, changes a terminal lease.
TerminalIsFinal == [][lease.state \in Terminal => UNCHANGED lease]_lease

\* Whatever becomes of the host and of the run, the deadline and the closing pipe bring the whole
\* group down, unless the owner itself was killed.
GroupIsReaped == target \in {"alive", "orphans"} ~> (target = "gone" \/ owner.pc = "killed")

\* An active lease becomes terminal, unless its owner was killed after it had reported running.
LeaseSettles ==
    lease.state \in Active ~>
        \/ lease.state \in Terminal
        \/ owner.pc = "killed" /\ receipt.state = "running"
=============================================================================
