------------------------ MODULE WorkspaceTransaction ------------------------
(***************************************************************************)
(* The executor behind a workspace patch: a transaction over several files  *)
(* that is published member by member under a workspace lease, with a       *)
(* cursor in an append-only ledger (delivery/filesystem.py, delivery/store, *)
(* delivery/transaction_action_executor.py, workspace/leases.py).           *)
(*                                                                          *)
(* Several files cannot be replaced at once, so a crash, a cancellation or   *)
(* an error leaves some of them written.  Reconciliation compares every file *)
(* with its image before and after and says what it can prove; it writes     *)
(* the ledger and never a file.                                             *)
(*                                                                          *)
(* One step is one transaction of a store, one look at one file, or one      *)
(* replacement of a file; a call that raises before its next write does so   *)
(* in the same step.  Other programs may edit files at any time.             *)
(***************************************************************************)
EXTENDS Naturals, Sequences, FiniteSets

CONSTANTS
    Txns,           \* transactions (= action plans)
    NoTxn,
    RollbackOf,     \* [Txns -> Txns \cup {NoTxn}]: the transaction a rollback inverts
    Members,        \* number of files, each of them a member of every transaction
    Base, Edit,     \* file contents besides the ones patches write
    MaxReconcile,   \* reconciliation attempts of the router
    MaxEdits,       \* bound of the model: edits by other programs
    MaxCrashes,     \* bound of the model: exits of the host
    StorageErrors,  \* TRUE: any operation on a file or a store may fail
    LeaseMayExpire, \* TRUE: the 300 seconds of a lease may pass while it is in use
    Overlap         \* TRUE: a new host may reconcile while the old one still executes

ASSUME MembersAssumption == /\ Members \in Nat \ {0}
                            /\ MaxReconcile \in Nat
                            /\ MaxEdits \in Nat
                            /\ MaxCrashes \in Nat
ASSUME TxnsAssumption == /\ NoTxn \notin Txns
                         /\ \A t \in Txns : RollbackOf[t] \in (Txns \cup {NoTxn}) \ {t}
                         /\ Base # Edit /\ {Base, Edit} \cap Txns = {}

VARIABLES
    files,      \* [Files -> Contents]
    plan,       \* [Txns -> [Files -> Contents]]: the images before, frozen by save
    record,     \* [Txns -> Record]: the ledger
    lease,      \* the row of the workspace in the lease store
    worker,     \* [Txns -> [Roles -> Worker]]: calls of the executor
    route,      \* [Txns -> RouteStates]: what the router knows of the action
    attempts,   \* [Txns -> Nat]: reconciliations claimed
    wrote,      \* history: members a transaction replaced
    reached,    \* history: members that had their image after at some time
    raced,      \* history: files edited between the last check and the replacement
    lapsed,     \* history: a lease ran out while its holder was at work
    edits, crashes

vars == <<files, plan, record, lease, worker, route, attempts, wrote, reached, raced, lapsed, edits,
          crashes>>

router  == <<route, attempts>>
history == <<wrote, reached, raced, lapsed>>
faults  == <<edits, crashes>>

-----------------------------------------------------------------------------
(* States and types *)

Files    == 1..Members
Contents == {Base, Edit} \cup Txns
Roles    == {"execute", "reconcile"}

TransactionStates == {"absent", "prepared", "publishing", "interrupted", "published",
                      "diverged", "unknown"}
TerminalStates    == {"published", "diverged", "unknown"}
RouteStates       == {"ready", "running", "unknown", "reconciling", "succeeded", "failed",
                      "manual_intervention"}
Settled           == {"succeeded", "failed", "manual_intervention"}

\* _TRANSITIONS
Transitions ==
    [absent      |-> {},
     prepared    |-> {"publishing", "diverged", "unknown"},
     publishing  |-> {"publishing", "interrupted", "published", "diverged", "unknown"},
     interrupted |-> {"publishing", "published", "diverged", "unknown"},
     published   |-> {}, diverged |-> {}, unknown |-> {}]

\* WorkspaceTransactionRecord; the plan it binds is in "plan".
Record == [state : TransactionStates, cursor : 0..Members, sequence : Nat]
NoRecord == [state |-> "absent", cursor |-> 0, sequence |-> 0]

\* A call of the executor: where it is, the record it works on, the transition it is
\* about to commit and where that leads, what it saw of the files and why it looked,
\* and the fencing token of its lease.
Places == {"idle", "acquire", "next", "verify", "observe", "resume", "member", "apply", "replace",
           "proved", "recorded", "advance", "finish", "raise"}
Worker == [pc : Places, snap : Record, want : Record, then : Places,
           facts : Seq(Contents), why : {"resume", "repair", "recover"}, token : Nat]

NoWorker == [pc |-> "idle", snap |-> NoRecord, want |-> NoRecord, then |-> "raise",
             facts |-> <<>>, why |-> "resume", token |-> 0]

TypeOK ==
    /\ files \in [Files -> Contents]
    /\ plan \in [Txns -> [Files -> Contents]]
    /\ record \in [Txns -> Record]
    /\ lease \in [owner : Txns \cup {NoTxn}, token : Nat, live : BOOLEAN]
    /\ worker \in [Txns -> [Roles -> Worker]]
    /\ route \in [Txns -> RouteStates]
    /\ attempts \in [Txns -> 0..MaxReconcile]
    /\ wrote \in [Txns -> SUBSET Files]
    /\ reached \in [Txns -> SUBSET Files]
    /\ raced \subseteq Files /\ lapsed \in BOOLEAN
    /\ edits \in Nat /\ crashes \in Nat

-----------------------------------------------------------------------------
(* Helpers *)

\* The image after of a member: a patch writes its own content, a rollback the image
\* the original found.
After(t, i) == IF RollbackOf[t] = NoTxn THEN t ELSE plan[RollbackOf[t]][i]

SetWorker(t, r, w) == worker' = [worker EXCEPT ![t] = [worker[t] EXCEPT ![r] = w]]
Goto(t, r, pc)     == SetWorker(t, r, [worker[t][r] EXCEPT !.pc = pc])

\* _advance: the transition a call asks the ledger for.
Ask(w, state, cursor, then) ==
    [w EXCEPT !.pc = "advance", !.then = then,
              !.want = [state |-> state, cursor |-> cursor, sequence |-> w.snap.sequence + 1]]

\* assert_current
HoldsLease(t, w) == lease = [owner |-> t, token |-> w.token, live |-> TRUE]

\* Where a call goes when its reconciliation has come to a record state.
Continue(why, state) ==
    IF why = "recover" \/ state = "published" THEN "finish"
    ELSE IF why = "resume" /\ state = "interrupted" THEN "resume" ELSE "raise"

\* reconcile, up to its look at the files: load, and be done with a terminal record.
StartObserving(w, t, why) ==
    IF record[t].state \in TerminalStates
    THEN [w EXCEPT !.snap = record[t], !.why = why, !.pc = Continue(why, record[t].state)]
    ELSE [w EXCEPT !.snap = record[t], !.why = why, !.pc = "observe", !.facts = <<>>]

\* Some files change: remember the members that now have their image after.
Touch(new) ==
    /\ files' = new
    /\ reached' = [t \in Txns |-> reached[t] \cup
                      {i \in Files : record[t].state # "absent" /\ new[i] = After(t, i)}]

\* complete_operation of the router: refused when the route went on without this call.
Complete(t, r, result) ==
    route' = [route EXCEPT ![t] =
                 IF @ = (IF r = "execute" THEN "running" ELSE "reconciling") THEN result ELSE @]

-----------------------------------------------------------------------------
(* Planning *)

\* prepare_workspace_transaction and save: the images before are the files as they are,
\* and every member changes.
SavePatch(t) ==
    /\ RollbackOf[t] = NoTxn
    /\ record[t] = NoRecord
    /\ \A i \in Files : files[i] # t
    /\ plan' = [plan EXCEPT ![t] = files]
    /\ record' = [record EXCEPT ![t].state = "prepared"]
    /\ UNCHANGED <<files, lease, worker, router, history, faults>>

\* WorkspaceRollbackTransactionPlanner.prepare: only of a published transaction whose
\* images after are still there, untouched.
SaveRollback(t) ==
    LET original == RollbackOf[t] IN
    /\ original # NoTxn
    /\ record[t] = NoRecord
    /\ record[original].state = "published"
    /\ \A i \in Files : files[i] = After(original, i)
    /\ plan' = [plan EXCEPT ![t] = files]
    /\ record' = [record EXCEPT ![t].state = "prepared"]
    /\ UNCHANGED <<files, lease, worker, router, history, faults>>

-----------------------------------------------------------------------------
(* The ledger *)

\* Mutant: the transition overwrites whatever the ledger has.
AdvanceBlindly(t, r) ==
    LET w == worker[t][r] IN
    /\ w.pc = "advance"
    /\ record' = [record EXCEPT ![t] = w.want]
    /\ SetWorker(t, r, [w EXCEPT !.snap = w.want, !.pc = w.then])
    /\ UNCHANGED <<files, plan, lease, router, history, faults>>

\* transition: allowed, not backwards, and the ledger still has the record it starts from.
Advance(t, r) ==
    LET w  == worker[t][r]
        ok == /\ record[t] = w.snap
              /\ w.want.state \in Transitions[w.snap.state]
              /\ w.want.cursor >= w.snap.cursor
    IN
    /\ w.pc = "advance"
    /\ \/ /\ ok
          /\ record' = [record EXCEPT ![t] = w.want]
          /\ SetWorker(t, r, [w EXCEPT !.snap = w.want, !.pc = w.then])
       \/ /\ ~ok \/ StorageErrors
          /\ Goto(t, r, "raise")
          /\ UNCHANGED record
    /\ UNCHANGED <<files, plan, lease, router, history, faults>>

-----------------------------------------------------------------------------
(* execute *)

\* The router claims the action and calls the executor.
Execute(t) ==
    /\ route[t] = "ready"
    /\ record[t].state = "prepared"
    /\ route' = [route EXCEPT ![t] = "running"]
    /\ Goto(t, "execute", "acquire")
    /\ UNCHANGED <<files, plan, record, lease, attempts, history, faults>>

\* Mutant: a lease is taken from whoever has it.
AcquireAlways(t) ==
    /\ worker[t]["execute"].pc = "acquire"
    /\ lease' = [owner |-> t, token |-> lease.token + 1, live |-> TRUE]
    /\ SetWorker(t, "execute", [NoWorker EXCEPT !.pc = "next", !.token = lease.token + 1])
    /\ UNCHANGED <<files, plan, record, router, history, faults>>

\* acquire: refused while another transaction has a live lease, fenced by a new token
\* otherwise.
Acquire(t) ==
    LET busy == lease.owner # NoTxn /\ lease.live IN
    /\ worker[t]["execute"].pc = "acquire"
    /\ \/ /\ ~busy
          /\ lease' = [owner |-> t, token |-> lease.token + 1, live |-> TRUE]
          /\ SetWorker(t, "execute", [NoWorker EXCEPT !.pc = "next", !.token = lease.token + 1])
       \/ /\ busy \/ StorageErrors
          /\ Goto(t, "execute", "raise")
          /\ UNCHANGED lease
    /\ UNCHANGED <<files, plan, record, router, history, faults>>

\* _prepare_publication: load, check the lease, and verify the sources of a prepared
\* record or reconcile one that was begun.
PublishNext(t) ==
    LET w == worker[t]["execute"]
        loaded == [w EXCEPT !.snap = record[t]]
    IN
    /\ w.pc = "next"
    /\ SetWorker(t, "execute",
           IF record[t].state = "published" THEN [loaded EXCEPT !.pc = "finish"]
           ELSE IF record[t].state \in TerminalStates \/ ~HoldsLease(t, w)
                THEN [loaded EXCEPT !.pc = "raise"]
           ELSE IF record[t].state = "prepared" THEN [loaded EXCEPT !.pc = "verify", !.facts = <<>>]
           ELSE StartObserving(w, t, "resume"))
    /\ UNCHANGED <<files, plan, record, lease, router, history, faults>>

\* verify_workspace_snapshot, once every file was read.
VerifySources(t) ==
    LET w == worker[t]["execute"] IN
    /\ w.pc = "verify"
    /\ Len(w.facts) = Members
    /\ SetWorker(t, "execute", IF w.facts = plan[t] THEN Ask(w, "publishing", 0, "member")
                               ELSE [w EXCEPT !.pc = "raise"])
    /\ UNCHANGED <<files, plan, record, lease, router, history, faults>>

\* An interrupted record is taken up at its cursor.
Resume(t) ==
    LET w == worker[t]["execute"] IN
    /\ w.pc = "resume"
    /\ SetWorker(t, "execute", Ask(w, "publishing", w.snap.cursor, "member"))
    /\ UNCHANGED <<files, plan, record, lease, router, history, faults>>

\* The lease again, then the member: already there, drifted, or to be written.
LookAtMember(t) ==
    LET w == worker[t]["execute"]
        i == w.snap.cursor + 1
    IN
    /\ w.pc = "member"
    /\ \/ /\ ~HoldsLease(t, w) \/ StorageErrors
          /\ Goto(t, "execute", "raise")
       \/ /\ HoldsLease(t, w)
          /\ SetWorker(t, "execute",
                 IF files[i] = After(t, i) THEN Ask(w, "publishing", i, "recorded")
                 ELSE IF files[i] # plan[t][i] THEN Ask(w, "diverged", w.snap.cursor, "raise")
                 ELSE [w EXCEPT !.pc = "apply"])
    /\ UNCHANGED <<files, plan, record, lease, router, history, faults>>

\* Mutant: the temporary file is renamed without a second look at the target.
ApplyUnchecked(t) ==
    /\ worker[t]["execute"].pc = "apply"
    /\ Goto(t, "execute", "replace")
    /\ UNCHANGED <<files, plan, record, lease, router, history, faults>>

\* _apply up to the rename: the temporary file is written, and the target still is the
\* image before.  Whatever _apply raises makes the call reconcile, and then raise.
ApplyChecks(t) ==
    LET w  == worker[t]["execute"]
        ok == files[w.snap.cursor + 1] = plan[t][w.snap.cursor + 1]
    IN
    /\ w.pc = "apply"
    /\ \/ /\ ok
          /\ Goto(t, "execute", "replace")
       \/ /\ ~ok \/ StorageErrors
          /\ SetWorker(t, "execute", StartObserving(w, t, "repair"))
    /\ UNCHANGED <<files, plan, record, lease, router, history, faults>>

\* os.replace or os.unlink; the error of an unlink is not caught.
Replace(t) ==
    LET w == worker[t]["execute"]
        i == w.snap.cursor + 1
    IN
    /\ w.pc = "replace"
    /\ \/ /\ Touch([files EXCEPT ![i] = After(t, i)])
          /\ wrote' = [wrote EXCEPT ![t] = @ \cup {i}]
          /\ Goto(t, "execute", "proved")
          /\ UNCHANGED <<raced, lapsed>>
       \/ /\ StorageErrors
          /\ \/ SetWorker(t, "execute", StartObserving(w, t, "repair"))
             \/ Goto(t, "execute", "raise")
          /\ UNCHANGED <<files, history>>
    /\ UNCHANGED <<plan, record, lease, router, faults>>

\* The member is observed again.  The fsync of the directory may fail before, the
\* observation itself may fail too.
ProveMember(t) ==
    LET w == worker[t]["execute"]
        i == w.snap.cursor + 1
    IN
    /\ w.pc = "proved"
    /\ \/ SetWorker(t, "execute", IF files[i] = After(t, i)
                                  THEN Ask(w, "publishing", i, "recorded")
                                  ELSE Ask(w, "unknown", w.snap.cursor, "raise"))
       \/ StorageErrors /\ SetWorker(t, "execute", StartObserving(w, t, "repair"))
       \/ StorageErrors /\ Goto(t, "execute", "raise")
    /\ UNCHANGED <<files, plan, record, lease, router, history, faults>>

\* The last member publishes the transaction; otherwise the call yields to the event loop.
MemberRecorded(t) ==
    LET w == worker[t]["execute"] IN
    /\ w.pc = "recorded"
    /\ SetWorker(t, "execute", IF w.snap.cursor = Members
                               THEN Ask(w, "published", Members, "finish")
                               ELSE [w EXCEPT !.pc = "next"])
    /\ UNCHANGED <<files, plan, record, lease, router, history, faults>>

\* release, in the finally clause: the lease is given back whatever its age, unless
\* somebody else has it.
Release(t, w) ==
    lease' = IF lease.owner = t /\ lease.token = w.token
             THEN [lease EXCEPT !.owner = NoTxn, !.live = FALSE] ELSE lease

\* execute returns, raises, or is cancelled at its await.  A lost lease makes release
\* raise, the report of a success may still fail, and the router may be cancelled before
\* it completes the operation: a write that did not report success is unknown.
ExecuteEnds(t) ==
    LET w == worker[t]["execute"]
        done == w.pc = "finish" /\ lease.owner = t /\ lease.token = w.token
    IN
    /\ w.pc \in {"finish", "raise", "next"}
    /\ Release(t, w)
    /\ \E result \in {"unknown"} \cup (IF done THEN {"succeeded"} ELSE {}) :
          Complete(t, "execute", result)
    /\ SetWorker(t, "execute", NoWorker)
    /\ UNCHANGED <<files, plan, record, attempts, history, faults>>

-----------------------------------------------------------------------------
(* reconcile *)

\* Mutant: nobody counts the attempts.
ReconcileUncounted(t) ==
    /\ route[t] = "unknown"
    /\ worker[t]["reconcile"] = NoWorker
    /\ route' = [route EXCEPT ![t] = "reconciling"]
    /\ SetWorker(t, "reconcile", StartObserving(NoWorker, t, "recover"))
    /\ UNCHANGED <<files, plan, record, lease, attempts, history, faults>>

\* The router claims a reconciliation, or hands over when none is left.
Reconcile(t) ==
    /\ route[t] = "unknown"
    /\ worker[t]["reconcile"] = NoWorker
    /\ IF attempts[t] < MaxReconcile
       THEN /\ route' = [route EXCEPT ![t] = "reconciling"]
            /\ attempts' = [attempts EXCEPT ![t] = @ + 1]
            /\ SetWorker(t, "reconcile", StartObserving(NoWorker, t, "recover"))
       ELSE /\ route' = [route EXCEPT ![t] = "manual_intervention"]
            /\ UNCHANGED <<attempts, worker>>
    /\ UNCHANGED <<files, plan, record, lease, history, faults>>

\* _observe_members, one file after the other, and the reads of verify_workspace_snapshot.
ObserveMember(t, r) ==
    LET w == worker[t][r] IN
    /\ w.pc \in {"observe", "verify"}
    /\ Len(w.facts) < Members
    /\ \/ SetWorker(t, r, [w EXCEPT !.facts = Append(@, files[Len(@) + 1])])
       \/ StorageErrors /\ Goto(t, r, "raise")
    /\ UNCHANGED <<files, plan, record, lease, router, history, faults>>

\* The verdict of reconcile on a complete observation.
Conclusion(w, t) ==
    LET after  == {i \in Files : w.facts[i] = After(t, i)}
        before == {i \in Files : w.facts[i] = plan[t][i]}
        count  == Cardinality(after)
        Keep   == [w EXCEPT !.pc = Continue(w.why, w.snap.state)]
        Mark(state, cursor) == Ask(w, state, cursor, Continue(w.why, state))
    IN
    IF after = Files THEN IF w.snap.state = "prepared" THEN Mark("diverged", 0)
                          ELSE Mark("published", Members)
    ELSE IF after \cup before # Files \/ after # 1..count THEN Mark("diverged", w.snap.cursor)
    ELSE IF w.snap.state = "prepared" \/ (w.snap.state = "interrupted" /\ w.snap.cursor = count)
         THEN Keep
    ELSE Mark("interrupted", count)

Conclude(t, r) ==
    LET w == worker[t][r] IN
    /\ w.pc = "observe"
    /\ Len(w.facts) = Members
    /\ SetWorker(t, r, Conclusion(w, t))
    /\ UNCHANGED <<files, plan, record, lease, router, history, faults>>

\* Mutant: an interruption counts as no effect, wherever it happened.
OutcomeAnyCursor(rec) ==
    CASE rec.state = "published" -> "succeeded"
      [] rec.state \in {"prepared", "interrupted"} -> "failed"
      [] OTHER -> "manual_intervention"

\* _outcome of a reconciliation.
Outcome(rec) ==
    IF rec.state = "published" THEN "succeeded"
    ELSE IF rec.state = "prepared" \/ (rec.state = "interrupted" /\ rec.cursor = 0) THEN "failed"
    ELSE "manual_intervention"

\* reconcile returns its verdict, or raises, which leaves the route unknown.
ReconcileEnds(t) ==
    LET w == worker[t]["reconcile"] IN
    /\ w.pc \in {"finish", "raise"}
    /\ \/ w.pc = "finish" /\ Complete(t, "reconcile", Outcome(w.snap))
       \/ (w.pc = "raise" \/ StorageErrors) /\ Complete(t, "reconcile", "unknown")
    /\ SetWorker(t, "reconcile", NoWorker)
    /\ UNCHANGED <<files, plan, record, lease, attempts, history, faults>>

-----------------------------------------------------------------------------
(* Surroundings *)

\* External: another program writes a file, whatever it had.
EditFile(i, content) ==
    /\ edits < MaxEdits
    /\ content # files[i]
    /\ edits' = edits + 1
    /\ Touch([files EXCEPT ![i] = content])
    /\ raced' = IF \E t \in Txns : /\ worker[t]["execute"].pc = "replace"
                                   /\ worker[t]["execute"].snap.cursor + 1 = i
                THEN raced \cup {i} ELSE raced
    /\ UNCHANGED <<plan, record, lease, worker, router, wrote, lapsed, crashes>>

\* The clock passes expires_at.
LeaseExpires ==
    /\ LeaseMayExpire
    /\ lease.live
    /\ lease' = [lease EXCEPT !.live = FALSE]
    /\ lapsed' = (lapsed \/ worker[lease.owner]["execute"] # NoWorker)
    /\ UNCHANGED <<files, plan, record, worker, router, wrote, reached, raced, faults>>

InFlight(s) == IF s \in {"running", "reconciling"} THEN "unknown" ELSE s

\* The host dies at any point of any call; its successor marks the routes unknown.
HostRestarts ==
    /\ crashes < MaxCrashes
    /\ crashes' = crashes + 1
    /\ worker' = [t \in Txns |-> [r \in Roles |-> NoWorker]]
    /\ route' = [t \in Txns |-> InFlight(route[t])]
    /\ UNCHANGED <<files, plan, record, lease, attempts, history, edits>>

\* A second host takes the runtime over from one that is still alive.
HostTakesOver ==
    /\ Overlap
    /\ \E t \in Txns : route[t] = "running"
    /\ route' = [t \in Txns |-> InFlight(route[t])]
    /\ UNCHANGED <<files, plan, record, lease, worker, attempts, history, faults>>

-----------------------------------------------------------------------------
Init ==
    /\ files = [i \in Files |-> Base]
    /\ plan = [t \in Txns |-> [i \in Files |-> Base]]
    /\ record = [t \in Txns |-> NoRecord]
    /\ lease = [owner |-> NoTxn, token |-> 0, live |-> FALSE]
    /\ worker = [t \in Txns |-> [r \in Roles |-> NoWorker]]
    /\ route = [t \in Txns |-> "ready"]
    /\ attempts = [t \in Txns |-> 0]
    /\ wrote = [t \in Txns |-> {}] /\ reached = [t \in Txns |-> {}]
    /\ raced = {} /\ lapsed = FALSE
    /\ edits = 0 /\ crashes = 0

ExecuteSteps(t) ==
    \/ Acquire(t) \/ PublishNext(t) \/ VerifySources(t) \/ Resume(t) \/ LookAtMember(t)
    \/ ApplyChecks(t) \/ Replace(t) \/ ProveMember(t) \/ MemberRecorded(t)
    \/ ExecuteEnds(t)

CallSteps(t) ==
    \/ ExecuteSteps(t) \/ ReconcileEnds(t)
    \/ \E r \in Roles : Advance(t, r) \/ ObserveMember(t, r) \/ Conclude(t, r)

Next ==
    \/ \E t \in Txns : \/ SavePatch(t) \/ SaveRollback(t) \/ Execute(t) \/ Reconcile(t)
                       \/ CallSteps(t)
    \/ \E i \in Files : \E content \in Contents : EditFile(i, content)
    \/ LeaseExpires \/ HostRestarts \/ HostTakesOver

Spec == Init /\ [][Next]_vars

\* The event loop runs a call to its end, and startup or the gateway reconciles a route
\* that is unknown.  Nobody has to plan or execute anything.
FairSpec == Spec /\ \A t \in Txns : WF_vars(CallSteps(t)) /\ WF_vars(Reconcile(t))

-----------------------------------------------------------------------------
(* Properties *)

\* The ledger never claims more than happened: every member below the cursor had its
\* image after at some time, whoever edits files and however many hosts advance it, and
\* an action that succeeded is a published transaction.
LedgerFollowsDisk ==
    \A t \in Txns :
        /\ 1..record[t].cursor \subseteq reached[t]
        /\ record[t].state = "published" => record[t].cursor = Members
        /\ route[t] = "succeeded" => record[t].state = "published"

\* What the router assumes of an executor (TruthfulOutcome in TrustedActions) holds of this
\* one as long as no other program writes its files: failed means that not one member was
\* replaced, succeeded that all were.
OutcomeIsTruthful ==
    edits = 0 => \A t \in Txns :
        /\ route[t] = "failed" => wrote[t] = {}
        /\ route[t] = "succeeded" => wrote[t] = Files

\* The lease keeps transactions apart: two of them are never in the middle of a member at
\* the same time, unless a lease ran out while it was used.
OneWriter ==
    ~lapsed => \A t, u \in Txns :
        {worker[t]["execute"].pc, worker[u]["execute"].pc} \subseteq {"apply", "replace", "proved"}
            => t = u

\* A replacement only ever destroys the content the plan was approved for, whenever other
\* programs edit the file, unless they do so between the second look and the rename, which
\* docs/modules/delivery.md (14.3) leaves open, or a lease ran out while it was used.
WritesOverBefore ==
    [][~lapsed => \A t \in Txns : \A i \in wrote'[t] \ wrote[t] :
           files[i] = plan[t][i] \/ i \in raced]_vars

\* An action that was started is settled, whatever stops it on the way.
StartedIsSettled ==
    \A t \in Txns : route[t] = "running" ~> route[t] \in Settled

\* docs/modules/delivery.md, table of section 15: "全部before | publishing | interrupted，
\* cursor=0" - a record that is being published and finds every file as it was becomes
\* interrupted at the start.
AllBeforeInterrupts ==
    [][\A t \in Txns :
         LET w == worker[t]["reconcile"] IN
         (/\ w.pc = "advance" /\ w.facts = plan[t]
          /\ w.snap = record[t] /\ w.snap.state = "publishing"
          /\ worker'[t]["reconcile"].pc \in {"finish", "raise"})
         => record'[t].state = "interrupted" /\ record'[t].cursor = 0]_vars
=============================================================================
