----------------------- MODULE WorkspaceOutcomeProofs -----------------------
(* What the router may believe of the outcome of a workspace transaction: theorems about   *)
(* WorkspaceTransaction that need to know where the contents of the files come from.       *)
EXTENDS WorkspaceTransactionProofs

-----------------------------------------------------------------------------
(* The invariant behind truthful outcomes *)

OnlyPatches == \A t \in Txns : RollbackOf[t] = NoTxn

\* A patch writes each member once, and has its record to itself while it does.
OnceOk(t, w) ==
    /\ w.pc \in Midway \cup {"recorded"} => w.snap = record[t]
    /\ w.pc = "acquire" => wrote[t] = {}
    /\ w.pc = "next" => wrote[t] \subseteq 1..record[t].cursor
    /\ w.pc \in {"verify", "resume", "member", "apply", "replace", "recorded"} =>
          wrote[t] \subseteq 1..w.snap.cursor
    /\ w.pc = "observe" /\ w.why = "resume" => wrote[t] \subseteq 1..w.snap.cursor
    /\ w.pc = "proved" => wrote[t] \subseteq 1..(w.snap.cursor + 1)
    /\ w.pc = "advance" /\ w.then \in {"member", "recorded", "resume"} /\ w.want.cursor >= w.snap.cursor =>
          wrote[t] \subseteq 1..w.want.cursor

\* Without other programs a content comes from the patch that writes it.
OriginInv ==
    edits = 0 => \A t \in Txns : RollbackOf[t] = NoTxn =>
        /\ reached[t] \subseteq wrote[t]
        /\ \A i \in Files : /\ files[i] = t => i \in wrote[t]
                            /\ \A u \in Txns : Recorded(u) /\ plan[u][i] = t => i \in wrote[t]

\* A call to reconcile has the record to itself, and what it says of it is true.
ReconcileOk(t, w) ==
    /\ w.pc # "idle" => route[t] = "reconciling"
    /\ w.pc \in {"observe", "advance", "finish"} => w.snap = record[t]
    /\ edits = 0 =>
        /\ w.pc = "observe" =>
              \A i \in 1..Len(w.facts) : i \in wrote[t] => w.facts[i] # plan[t][i]
        /\ w.pc = "advance" /\ w.want.state = "interrupted" /\ w.want.cursor = 0 => wrote[t] = {}
        /\ w.pc = "finish" /\ Outcome(w.snap) = "failed" => wrote[t] = {}

TruthInv ==
    \A t \in Txns :
        /\ wrote[t] # {} => record[t].state \notin {"absent", "prepared"}
        /\ OnceOk(t, worker[t]["execute"])
        /\ worker[t]["execute"].pc # "idle" => route[t] = "running"
        /\ ReconcileOk(t, worker[t]["reconcile"])
        /\ edits = 0 => \A i \in wrote[t] : files[i] # plan[t][i]
        /\ edits = 0 /\ route[t] = "failed" => wrote[t] = {}

-----------------------------------------------------------------------------
(* Where contents come from *)

\* A step that changes no file and plans nothing.
LEMMA OriginQuiet ==
  ASSUME OriginInv, UNCHANGED <<files, plan, wrote, reached, edits>>,
         \A u \in Txns : Recorded(u)' => Recorded(u)
  PROVE  OriginInv'
  BY DEF OriginInv

\* The transition of a record does not make one.
LEMMA AdvanceKeepsRecorded ==
  ASSUME IInv, NEW t \in Txns, NEW r \in Roles, Advance(t, r)
  PROVE  \A u \in Txns : Recorded(u)' => Recorded(u)
  <1>1. Recorded(t)
    BY MyCall DEF Advance, CallOk, PlaceOk
  <1>2. \A u \in Txns : u # t => record'[u] = record[u]
    BY DEF Advance, IInv, TypeOK
  <1> QED BY <1>1, <1>2 DEF Recorded

LEMMA OriginSave ==
  ASSUME IInv, OriginInv, NEW t \in Txns, SavePatch(t) \/ SaveRollback(t)
  PROVE  OriginInv'
  <1>1. /\ UNCHANGED <<files, wrote, reached, edits>>
        /\ plan' = [plan EXCEPT ![t] = files] /\ record' = [record EXCEPT ![t].state = "prepared"]
    BY DEF SavePatch, SaveRollback, history, faults
  <1>2. \A u \in Txns : /\ plan'[u] = IF u = t THEN files ELSE plan[u]
                        /\ u # t /\ Recorded(u)' => Recorded(u)
    BY <1>1 DEF IInv, TypeOK, Recorded
  <1> QED BY <1>1, <1>2 DEF OriginInv

\* A member gets its image after: the content of the patch itself, or one that was there
\* when the original was planned.
LEMMA OriginReplace ==
  ASSUME IInv, OriginInv, NEW t \in Txns, Replace(t)
  PROVE  OriginInv'
  <1> USE DEF IInv
  <1>1. CASE UNCHANGED <<files, history>>
    <2>1. UNCHANGED <<files, plan, record, wrote, reached, edits>>
      BY <1>1 DEF Replace, history, faults
    <2> QED BY <2>1, OriginQuiet DEF Recorded
  <1>2. PICK i : i = worker[t]["execute"].snap.cursor + 1
    OBVIOUS
  <1>3. i \in Files /\ Recorded(t)
    <2>1. worker[t]["execute"] \in Worker /\ PlaceOk(t, "execute", worker[t]["execute"])
      BY MyCall DEF CallOk, Roles
    <2>2. worker[t]["execute"].snap.cursor < Members /\ Recorded(t)
      BY <2>1 DEF PlaceOk, Midway, Replace
    <2> QED BY <1>2, <2>1, <2>2, WorkerFacts, RecordFacts, MembersAssumption DEF Files
  <1>4. CASE /\ Touch([files EXCEPT ![i] = After(t, i)])
             /\ wrote' = [wrote EXCEPT ![t] = @ \cup {i}]
    <2>1. UNCHANGED <<plan, record, edits>>
      BY DEF Replace, faults
    <2>2. \A j \in Files : files'[j] = IF j = i THEN After(t, i) ELSE files[j]
      BY <1>4 DEF Touch, TypeOK
    <2>3. \A u \in Txns : wrote'[u] = IF u = t THEN wrote[u] \cup {i} ELSE wrote[u]
      BY <1>4 DEF TypeOK
    <2> SUFFICES ASSUME edits = 0, NEW p \in Txns, RollbackOf[p] = NoTxn PROVE OriginInv!2!(p)'
      BY <2>1 DEF OriginInv
    <2>4. OriginInv!2!(p)
      BY DEF OriginInv
    <2>5. After(t, i) = p => i \in wrote'[p]
      <3>1. CASE RollbackOf[t] = NoTxn
        BY <2>3, <3>1 DEF After
      <3>2. CASE RollbackOf[t] # NoTxn
        <4>1. RollbackOf[t] \in Txns /\ Recorded(RollbackOf[t])
          BY <1>3, <3>2, TxnsAssumption DEF LedgerInv
        <4> QED BY <1>3, <2>3, <2>4, <3>2, <4>1 DEF After
      <3> QED BY <3>1, <3>2
    <2>6. \A j \in Files : files'[j] = p => j \in wrote'[p]
      BY <2>2, <2>3, <2>4, <2>5
    <2>7. reached'[p] \subseteq wrote'[p]
      <3>1. \A j \in reached'[p] : j \in reached[p] \/ (j \in Files /\ files'[j] = After(p, j))
        BY <1>4 DEF Touch
      <3>2. \A j : After(p, j) = p
        BY DEF After
      <3> QED BY <2>3, <2>4, <2>6, <3>1, <3>2
    <2> QED BY <2>1, <2>3, <2>4, <2>6, <2>7 DEF Recorded
  <1> QED BY <1>1, <1>2, <1>4 DEF Replace, history

LEMMA OriginStep ==
  ASSUME IInv, OriginInv, [Next]_vars
  PROVE  OriginInv'
  <1>1. CASE UNCHANGED vars
    BY <1>1 DEF vars, OriginInv, Recorded
  <1>2. ASSUME NEW t \in Txns, CallSteps(t) PROVE OriginInv'
    <2>1. CASE Acquire(t) \/ PublishNext(t) \/ VerifySources(t) \/ Resume(t) \/ LookAtMember(t)
      <3>1. UNCHANGED <<files, plan, record, wrote, reached, edits>>
        BY <2>1 DEF Acquire, PublishNext, VerifySources, Resume, LookAtMember, history, faults
      <3> QED BY <3>1, OriginQuiet DEF Recorded
    <2>2. CASE ApplyChecks(t) \/ ProveMember(t) \/ MemberRecorded(t) \/ ExecuteEnds(t) \/ ReconcileEnds(t)
      <3>1. UNCHANGED <<files, plan, record, wrote, reached, edits>>
        BY <2>2 DEF ApplyChecks, ProveMember, MemberRecorded, ExecuteEnds, ReconcileEnds, history, faults
      <3> QED BY <3>1, OriginQuiet DEF Recorded
    <2>3. CASE \E r \in Roles : ObserveMember(t, r) \/ Conclude(t, r)
      <3>1. UNCHANGED <<files, plan, record, wrote, reached, edits>>
        BY <2>3 DEF ObserveMember, Conclude, history, faults
      <3> QED BY <3>1, OriginQuiet DEF Recorded
    <2>4. CASE \E r \in Roles : Advance(t, r)
      <3>1. UNCHANGED <<files, plan, wrote, reached, edits>>
        BY <2>4 DEF Advance, history, faults
      <3> QED BY <2>4, <3>1, OriginQuiet, AdvanceKeepsRecorded
    <2> QED BY <1>2, <2>1, <2>2, <2>3, <2>4, OriginReplace DEF CallSteps, ExecuteSteps
  <1>3. ASSUME NEW t \in Txns, Execute(t) \/ Reconcile(t) PROVE OriginInv'
    <2>1. UNCHANGED <<files, plan, record, wrote, reached, edits>>
      BY <1>3 DEF Execute, Reconcile, history, faults
    <2> QED BY <2>1, OriginQuiet DEF Recorded
  <1>4. CASE LeaseExpires \/ HostRestarts \/ HostTakesOver
    <2>1. UNCHANGED <<files, plan, record, wrote, reached, edits>>
      BY <1>4 DEF LeaseExpires, HostRestarts, HostTakesOver, history, faults
    <2> QED BY <2>1, OriginQuiet DEF Recorded
  <1>5. ASSUME NEW i \in Files, NEW content \in Contents, EditFile(i, content) PROVE OriginInv'
    <2>1. edits' # 0
      BY <1>5 DEF EditFile, IInv, TypeOK
    <2> QED BY <2>1 DEF OriginInv
  <1> QED BY <1>1, <1>2, <1>3, <1>4, <1>5, OriginSave DEF Next

LEMMA OriginInitial == ASSUME Init PROVE OriginInv
  <1>1. \A t \in Txns : t # Base /\ ~Recorded(t)
    BY TxnsAssumption DEF Init, Recorded, NoRecord
  <1> QED BY <1>1 DEF Init, OriginInv

\* Without other programs, the contents of a file come from the patches that wrote them.
THEOREM ContentsHaveOrigin == Spec => []OriginInv
  BY Inductive, OriginInitial, OriginStep, PTL DEF Spec

\* A patch that the router reports as a success replaced every member, whatever crashes,
\* whatever fails, with rollbacks in between and with two hosts at work, as long as no other
\* program writes the files.
PatchSuccessIsReal ==
    edits = 0 => \A t \in Txns :
        RollbackOf[t] = NoTxn /\ route[t] = "succeeded" => wrote[t] = Files

\* execute and reconcile report success of a patch only when all its members were written.
THEOREM PatchSuccessIsAlwaysReal == Spec => []PatchSuccessIsReal
  <1>1. IInv /\ OriginInv => PatchSuccessIsReal
    BY DEF IInv, TypeOK, OriginInv, LedgerInv, Proper, Files, PatchSuccessIsReal
  <1> QED BY <1>1, Inductive, ContentsHaveOrigin, PTL
-----------------------------------------------------------------------------
(* Steps of a call that leave the stores and the files alone *)

\* What TruthInv says of one transaction.
LEMMA MyTruth ==
  ASSUME IInv, TruthInv, NEW t \in Txns
  PROVE  /\ wrote[t] # {} => record[t].state \notin {"absent", "prepared"}
         /\ OnceOk(t, worker[t]["execute"]) /\ ReconcileOk(t, worker[t]["reconcile"])
         /\ worker[t]["execute"].pc # "idle" => route[t] = "running"
         /\ worker[t]["reconcile"].pc # "idle" => route[t] = "reconciling"
         /\ worker[t]["execute"] \in Worker /\ worker[t]["reconcile"] \in Worker
         /\ wrote[t] \subseteq Files
  BY DEF TruthInv, ReconcileOk, IInv, TypeOK, Roles

LEMMA TruthCall ==
  ASSUME IInv, TruthInv, NEW t \in Txns, NEW r \in Roles, NEW w \in Worker, SetWorker(t, r, w),
         worker[t][r].pc # "idle", r = "execute" => OnceOk(t, w), r = "reconcile" => ReconcileOk(t, w),
         UNCHANGED <<files, plan, record, route, wrote, edits>>
  PROVE  TruthInv'
  <1>1. \A u \in Txns : \A q \in Roles :
           worker'[u][q] = IF u = t /\ q = r THEN w ELSE worker[u][q]
    BY SetWorkerFacts DEF IInv
  <1>2. ASSUME NEW u \in Txns PROVE TruthInv!(u)'
    <2>1. PICK x, y : x = worker'[u]["execute"] /\ y = worker'[u]["reconcile"]
      OBVIOUS
    <2>2. OnceOk(u, x) /\ ReconcileOk(u, y)
      BY <1>1, <2>1, MyTruth DEF Roles
    <2>3. OnceOk(u, x)' /\ ReconcileOk(u, y)'
      BY <2>2 DEF OnceOk, ReconcileOk
    <2>4. x.pc # "idle" => route[u] = "running"
      BY <1>1, <2>1, MyTruth DEF Roles
    <2> QED BY <2>1, <2>3, <2>4 DEF TruthInv
  <1> QED BY <1>2 DEF TruthInv

LEMMA TruthRaise ==
  ASSUME IInv, TruthInv, NEW t \in Txns, NEW r \in Roles, worker[t][r].pc # "idle", Goto(t, r, "raise"),
         UNCHANGED <<files, plan, record, route, wrote, edits>>
  PROVE  TruthInv'
  <1>1. PICK v : v = [worker[t][r] EXCEPT !.pc = "raise"]
    OBVIOUS
  <1>2. v \in Worker /\ v.pc = "raise"
    BY <1>1, MyCall, PcFacts DEF Places
  <1>3. OnceOk(t, v) /\ (r = "reconcile" => ReconcileOk(t, v))
    BY <1>2, MyTruth DEF OnceOk, ReconcileOk, Midway
  <1> QED BY <1>1, <1>2, <1>3, TruthCall DEF Goto

\* A call of execute begins to reconcile.
LEMMA OnceObserve ==
  ASSUME IInv, NEW t \in Txns, NEW w \in Worker, NEW why \in {"resume", "repair"},
         why = "resume" => wrote[t] \subseteq 1..record[t].cursor
  PROVE  StartObserving(w, t, why) \in Worker /\ OnceOk(t, StartObserving(w, t, why))
  <1>1. PICK v : v = StartObserving(w, t, why)
    OBVIOUS
  <1>2. /\ v \in Worker /\ v.snap = record[t] /\ v.why = why
        /\ v.pc = IF record[t].state \in TerminalStates THEN Continue(why, record[t].state) ELSE "observe"
    BY <1>1, ObserveFacts DEF IInv
  <1>3. v.pc \in {"observe", "finish", "raise"}
    BY <1>2 DEF Continue, TerminalStates
  <1> QED BY <1>1, <1>2, <1>3 DEF OnceOk, Midway

LEMMA TruthRepair ==
  ASSUME IInv, TruthInv, NEW t \in Txns, worker[t]["execute"].pc # "idle",
         SetWorker(t, "execute", StartObserving(worker[t]["execute"], t, "repair")),
         UNCHANGED <<files, plan, record, route, wrote, edits>>
  PROVE  TruthInv'
  <1>1. PICK v : v = StartObserving(worker[t]["execute"], t, "repair")
    OBVIOUS
  <1>2. v \in Worker /\ OnceOk(t, v)
    BY <1>1, MyTruth, OnceObserve
  <1> QED BY <1>1, <1>2, TruthCall DEF Roles

LEMMA TruthMove ==
  ASSUME IInv, TruthInv, NEW t \in Txns, NEW p \in Places, worker[t]["execute"].pc # "idle",
         SetWorker(t, "execute", [worker[t]["execute"] EXCEPT !.pc = p]),
         \A v \in Worker : v.pc = p /\ v.snap = worker[t]["execute"].snap => OnceOk(t, v),
         UNCHANGED <<files, plan, record, route, wrote, edits>>
  PROVE  TruthInv'
  <1>1. PICK v : v = [worker[t]["execute"] EXCEPT !.pc = p]
    OBVIOUS
  <1>2. v \in Worker /\ v.pc = p /\ v.snap = worker[t]["execute"].snap
    BY <1>1, MyTruth, PcFacts
  <1> QED BY <1>1, <1>2, TruthCall DEF Roles

\* A call of execute asks for a transition.
LEMMA TruthAsk ==
  ASSUME IInv, TruthInv, NEW t \in Txns, NEW s \in TransactionStates, NEW c \in 0..Members,
         NEW p \in {"member", "recorded", "resume", "finish", "raise"},
         worker[t]["execute"].pc # "idle",
         SetWorker(t, "execute", Ask(worker[t]["execute"], s, c, p)),
         p \in {"member", "recorded", "resume"} /\ c >= worker[t]["execute"].snap.cursor =>
            wrote[t] \subseteq 1..c,
         UNCHANGED <<files, plan, record, route, wrote, edits>>
  PROVE  TruthInv'
  <1>1. PICK v : v = Ask(worker[t]["execute"], s, c, p)
    OBVIOUS
  <1>2. /\ v \in Worker /\ v.pc = "advance" /\ v.then = p /\ v.want.cursor = c
        /\ v.snap = worker[t]["execute"].snap
    <2>1. p \in Places
      BY DEF Places
    <2> QED BY <1>1, <2>1, MyTruth, AskFacts
  <1>3. OnceOk(t, v)
    BY <1>2 DEF OnceOk, Midway
  <1> QED BY <1>1, <1>2, <1>3, TruthCall DEF Roles

LEMMA TruthPublishNext ==
  ASSUME IInv, TruthInv, NEW t \in Txns, PublishNext(t)
  PROVE  TruthInv'
  <1>1. PICK w \in Worker : w = worker[t]["execute"]
    BY MyTruth
  <1>2. w.pc = "next" /\ wrote[t] \subseteq 1..record[t].cursor
    BY <1>1, MyTruth DEF PublishNext, OnceOk
  <1>3. UNCHANGED <<files, plan, record, route, wrote, edits>>
    BY DEF PublishNext, router, history, faults
  <1>4. record[t] \in Record
    BY DEF IInv, TypeOK
  <1>5. PICK l \in Worker : l = [w EXCEPT !.snap = record[t]] /\ l.snap = record[t]
    <2>1. [w EXCEPT !.snap = record[t]] \in Worker
      BY <1>1, <1>4 DEF Worker
    <2>2. [w EXCEPT !.snap = record[t]].snap = record[t]
      BY <1>1, <1>4 DEF Worker
    <2> QED BY <2>1, <2>2
  <1>6. ASSUME NEW v \in Worker, SetWorker(t, "execute", v),
               v.pc \in {"finish", "raise"} \/ (v.pc = "verify" /\ v.snap = record[t])
        PROVE  TruthInv'
    <2>1. OnceOk(t, v)
      BY <1>2, <1>6 DEF OnceOk, Midway
    <2> QED BY <1>1, <1>2, <1>3, <1>6, <2>1, TruthCall DEF Roles
  <1>7. ASSUME NEW p \in {"finish", "raise"}, SetWorker(t, "execute", [l EXCEPT !.pc = p])
        PROVE  TruthInv'
    <2>1. PICK v : v = [l EXCEPT !.pc = p]
      OBVIOUS
    <2>2. v \in Worker /\ v.pc = p
      <3>1. p \in Places
        BY DEF Places
      <3> QED BY <2>1, <3>1, PcFacts
    <2> QED BY <1>6, <1>7, <2>1, <2>2
  <1>8. CASE SetWorker(t, "execute", [l EXCEPT !.pc = "verify", !.facts = <<>>])
    <2>1. "verify" \in Places /\ <<>> \in Seq(Contents)
      BY DEF Places
    <2>2. PICK v : v = [l EXCEPT !.pc = "verify", !.facts = <<>>]
      OBVIOUS
    <2>3. v \in Worker /\ v.pc = "verify" /\ v.snap = record[t]
      BY <1>5, <2>1, <2>2 DEF Worker
    <2> QED BY <1>6, <1>8, <2>2, <2>3
  <1>9. CASE SetWorker(t, "execute", StartObserving(w, t, "resume"))
    <2>1. PICK v : v = StartObserving(w, t, "resume")
      OBVIOUS
    <2>2. v \in Worker /\ OnceOk(t, v)
      BY <1>2, <2>1, OnceObserve
    <2> QED BY <1>1, <1>2, <1>3, <1>9, <2>1, <2>2, TruthCall DEF Roles
  <1> QED BY <1>1, <1>5, <1>7, <1>8, <1>9 DEF PublishNext
LEMMA TruthVerifyResume ==
  ASSUME IInv, TruthInv, NEW t \in Txns, VerifySources(t) \/ Resume(t)
  PROVE  TruthInv'
  <1>1. PICK w \in Worker : w = worker[t]["execute"]
    BY MyTruth
  <1>2. w.pc \in {"verify", "resume"} /\ wrote[t] \subseteq 1..w.snap.cursor
    BY <1>1, MyTruth DEF VerifySources, Resume, OnceOk
  <1>3. UNCHANGED <<files, plan, record, route, wrote, edits>>
    BY DEF VerifySources, Resume, router, history, faults
  <1>4. /\ w.snap.cursor \in 0..Members /\ 0 \in 0..Members
        /\ "publishing" \in TransactionStates
    BY WorkerFacts, RecordFacts, MembersAssumption DEF TransactionStates
  <1>5. CASE SetWorker(t, "execute", Ask(w, "publishing", 0, "member"))
    <2>1. 0 >= w.snap.cursor => wrote[t] \subseteq 1..0
      BY <1>2, <1>4
    <2> QED BY <1>1, <1>2, <1>3, <1>4, <1>5, <2>1, TruthAsk
  <1>6. CASE SetWorker(t, "execute", Ask(w, "publishing", w.snap.cursor, "member"))
    BY <1>1, <1>2, <1>3, <1>4, <1>6, TruthAsk
  <1>7. CASE SetWorker(t, "execute", [w EXCEPT !.pc = "raise"])
    BY <1>1, <1>2, <1>3, <1>7, TruthRaise DEF Goto, Roles
  <1> QED BY <1>1, <1>5, <1>6, <1>7 DEF VerifySources, Resume

\* The looks at a member, before and after it is written.
LEMMA TruthMember ==
  ASSUME IInv, TruthInv, NEW t \in Txns, LookAtMember(t) \/ ApplyChecks(t) \/ ProveMember(t)
  PROVE  TruthInv'
  <1>1. PICK w \in Worker : w = worker[t]["execute"]
    BY MyTruth
  <1>2. /\ w.pc \in {"member", "apply", "proved"} /\ w.snap = record[t]
        /\ w.pc \in {"member", "apply"} => wrote[t] \subseteq 1..w.snap.cursor
        /\ w.pc = "proved" => wrote[t] \subseteq 1..(w.snap.cursor + 1)
    BY <1>1, MyTruth DEF LookAtMember, ApplyChecks, ProveMember, OnceOk, Midway
  <1>3. UNCHANGED <<files, plan, record, route, wrote, edits>>
    BY DEF LookAtMember, ApplyChecks, ProveMember, router, history, faults
  <1>4. PICK i : i = w.snap.cursor + 1
    OBVIOUS
  <1>5. /\ w.snap.cursor \in 0..Members /\ i \in 0..Members
        /\ {"publishing", "diverged", "unknown"} \subseteq TransactionStates
    <2>1. w.snap.cursor < Members
      BY <1>1, <1>2, MyCall DEF CallOk, PlaceOk, Midway, Roles
    <2> QED BY <1>4, <2>1, WorkerFacts, RecordFacts, MembersAssumption DEF TransactionStates
  <1>6. wrote[t] \subseteq 1..i
    BY <1>2, <1>4, <1>5
  <1>7. CASE SetWorker(t, "execute", Ask(w, "publishing", i, "recorded"))
    BY <1>1, <1>2, <1>3, <1>5, <1>6, <1>7, TruthAsk
  <1>8. CASE \/ SetWorker(t, "execute", Ask(w, "diverged", w.snap.cursor, "raise"))
             \/ SetWorker(t, "execute", Ask(w, "unknown", w.snap.cursor, "raise"))
    BY <1>1, <1>2, <1>3, <1>5, <1>8, TruthAsk
  <1>9. CASE Goto(t, "execute", "raise")
    BY <1>1, <1>2, <1>3, <1>9, TruthRaise DEF Roles
  <1>10. CASE SetWorker(t, "execute", StartObserving(w, t, "repair"))
    BY <1>1, <1>2, <1>3, <1>10, TruthRepair
  <1>11. ASSUME NEW p \in {"apply", "replace"}, w.pc # "proved", SetWorker(t, "execute", [w EXCEPT !.pc = p])
         PROVE  TruthInv'
    <2>1. p \in Places
      BY DEF Places
    <2>2. \A v \in Worker : v.pc = p /\ v.snap = w.snap => OnceOk(t, v)
      BY <1>2, <1>11 DEF OnceOk, Midway
    <2> QED BY <1>1, <1>2, <1>3, <1>11, <2>1, <2>2, TruthMove
  <1>12. CASE LookAtMember(t)
    BY <1>1, <1>4, <1>7, <1>8, <1>9, <1>11, <1>12 DEF LookAtMember
  <1>13. CASE ApplyChecks(t)
    BY <1>1, <1>10, <1>11, <1>13 DEF ApplyChecks, Goto
  <1>14. CASE ProveMember(t)
    BY <1>1, <1>4, <1>7, <1>8, <1>9, <1>10, <1>14 DEF ProveMember
  <1> QED BY <1>12, <1>13, <1>14

LEMMA TruthRecorded ==
  ASSUME IInv, TruthInv, NEW t \in Txns, MemberRecorded(t)
  PROVE  TruthInv'
  <1>1. PICK w \in Worker : w = worker[t]["execute"]
    BY MyTruth
  <1>2. w.pc = "recorded" /\ w.snap = record[t] /\ wrote[t] \subseteq 1..w.snap.cursor
    BY <1>1, MyTruth DEF MemberRecorded, OnceOk
  <1>3. UNCHANGED <<files, plan, record, route, wrote, edits>>
    BY DEF MemberRecorded, router, history, faults
  <1>4. CASE SetWorker(t, "execute", Ask(w, "published", Members, "finish"))
    <2>1. "published" \in TransactionStates /\ Members \in 0..Members
      BY MembersAssumption DEF TransactionStates
    <2> QED BY <1>1, <1>2, <1>3, <1>4, <2>1, TruthAsk
  <1>5. CASE SetWorker(t, "execute", [w EXCEPT !.pc = "next"])
    <2>1. "next" \in Places
      BY DEF Places
    <2>2. \A v \in Worker : v.pc = "next" /\ v.snap = w.snap => OnceOk(t, v)
      BY <1>2 DEF OnceOk, Midway
    <2> QED BY <1>1, <1>2, <1>3, <1>5, <2>1, <2>2, TruthMove
  <1> QED BY <1>1, <1>4, <1>5 DEF MemberRecorded

\* A file is read: one that the transaction wrote is not what it was.
LEMMA TruthObserve ==
  ASSUME IInv, TruthInv, NEW t \in Txns, NEW r \in Roles, ObserveMember(t, r)
  PROVE  TruthInv'
  <1>1. PICK w \in Worker : w = worker[t][r]
    BY MyCall
  <1>2. /\ w.pc \in {"observe", "verify"} /\ w.facts \in Seq(Contents) /\ Len(w.facts) < Members
    BY <1>1, WorkerFacts DEF ObserveMember
  <1>3. UNCHANGED <<files, plan, record, route, wrote, edits>>
    BY DEF ObserveMember, router, history, faults
  <1>4. CASE Goto(t, r, "raise")
    BY <1>1, <1>2, <1>3, <1>4, TruthRaise
  <1>5. CASE SetWorker(t, r, [w EXCEPT !.facts = Append(@, files[Len(@) + 1])])
    <2>1. PICK n \in Files : n = Len(w.facts) + 1
      BY <1>2, MembersAssumption DEF Files
    <2>2. PICK f \in Seq(Contents) : f = Append(w.facts, files[n])
      <3>1. files[n] \in Contents
        BY DEF IInv, TypeOK
      <3> QED BY <1>2, <3>1, AppendProperties
    <2>3. PICK v : v = [w EXCEPT !.facts = f]
      OBVIOUS
    <2>4. /\ v \in Worker /\ v.pc = w.pc /\ v.snap = w.snap /\ v.facts = f
          /\ v.why = w.why /\ v.want = w.want /\ v.then = w.then
      BY <2>3 DEF Worker
    <2>5. Len(f) = n /\ f[n] = files[n] /\ \A i \in 1..Len(w.facts) : f[i] = w.facts[i]
      BY <1>2, <2>1, <2>2 DEF IInv, TypeOK
    <2>6. r = "execute" => OnceOk(t, v)
      BY <1>1, <2>4, MyTruth DEF OnceOk
    <2>7. ASSUME r = "reconcile" PROVE ReconcileOk(t, v)
      <3>1. ReconcileOk(t, w) /\ w.pc = "observe"
        BY <1>1, <1>2, <2>7, MyTruth, MyCall DEF CallOk, PlaceOk
      <3>2. ASSUME edits = 0, NEW i \in 1..Len(f), i \in wrote[t] PROVE f[i] # plan[t][i]
        <4>1. CASE i = n
          BY <2>5, <3>2, <4>1 DEF TruthInv
        <4>2. CASE i \in 1..Len(w.facts)
          BY <2>5, <3>1, <3>2, <4>2 DEF ReconcileOk
        <4>3. i = n \/ i \in 1..Len(w.facts)
          BY <1>2, <2>1, <2>5, LenProperties
        <4> QED BY <4>1, <4>2, <4>3
      <3> QED BY <2>4, <3>1, <3>2 DEF ReconcileOk
    <2>8. v = [w EXCEPT !.facts = Append(@, files[Len(@) + 1])]
      BY <2>1, <2>2, <2>3
    <2> QED BY <1>1, <1>2, <1>3, <1>5, <2>4, <2>6, <2>7, <2>8, TruthCall
  <1> QED BY <1>1, <1>4, <1>5 DEF ObserveMember
\* The verdict: a transaction of which every member is as before has written nothing.
LEMMA TruthConclude ==
  ASSUME IInv, TruthInv, NEW t \in Txns, NEW r \in Roles, Conclude(t, r)
  PROVE  TruthInv'
  <1>0. {"published", "diverged", "interrupted"} \subseteq TransactionStates
    BY DEF TransactionStates
  <1>1. PICK w \in Worker : w = worker[t][r]
    BY MyCall
  <1>2. /\ w.pc = "observe" /\ Len(w.facts) = Members /\ w.snap.cursor \in 0..Members
        /\ r = "execute" <=> w.why # "recover"
        /\ w.why \in {"resume", "repair", "recover"}
        /\ r = "execute" => OnceOk(t, w)
        /\ r = "reconcile" => ReconcileOk(t, w)
    BY <1>1, MyCall, MyTruth, WorkerFacts, RecordFacts DEF Conclude, CallOk, PlaceOk, Roles
  <1>3. UNCHANGED <<files, plan, record, route, wrote, edits>>
    BY DEF Conclude, router, history, faults
  <1>4. PICK after : after = {i \in Files : w.facts[i] = After(t, i)}
    OBVIOUS
  <1>5. PICK before : before = {i \in Files : w.facts[i] = plan[t][i]}
    OBVIOUS
  <1>6. PICK count \in Nat : count = Cardinality(after)
    <2>1. IsFiniteSet(Files)
      BY FS_Interval, MembersAssumption DEF Files
    <2>2. IsFiniteSet(after)
      BY <1>4, <2>1, FS_Subset
    <2> QED BY <2>2, FS_CardinalityType
  <1>7. ASSUME r = "reconcile", edits = 0, after = 1..count, count = 0, after \cup before = Files
        PROVE  wrote[t] = {}
    <2>1. before = Files
      BY <1>7
    <2>2. \A i \in Files : w.facts[i] = plan[t][i]
      BY <1>5, <2>1
    <2>3. \A i \in Files : i \notin wrote[t]
      BY <1>2, <1>7, <2>2 DEF ReconcileOk, Files
    <2> QED BY <2>3, MyTruth
  <1>8. ASSUME NEW s \in {"published", "diverged", "interrupted"}, NEW c \in 0..Members,
               s = "interrupted" => c = count /\ after = 1..count /\ after \cup before = Files,
               SetWorker(t, r, Ask(w, s, c, Continue(w.why, s)))
        PROVE  TruthInv'
    <2>1. PICK p \in {"finish", "resume", "raise"} : p = Continue(w.why, s)
      BY ContinueFacts
    <2>2. CASE r = "execute"
      <3>1. p = "resume" /\ c >= w.snap.cursor => wrote[t] \subseteq 1..c
        <4>1. p = "resume" => w.why = "resume"
          BY <2>1 DEF Continue
        <4> QED BY <1>2, <2>2, <4>1 DEF OnceOk
      <3> QED BY <1>0, <1>1, <1>2, <1>3, <1>8, <2>1, <2>2, <3>1, TruthAsk
    <2>3. CASE r = "reconcile"
      <3>1. PICK v : v = Ask(w, s, c, p)
        OBVIOUS
      <3>2. /\ v \in Worker /\ v.pc = "advance" /\ v.want.cursor = c /\ v.want.state = s
            /\ v.snap = w.snap
        <4>1. p \in Places
          BY DEF Places
        <4> QED BY <1>0, <3>1, <4>1, AskFacts
      <3>3. ReconcileOk(t, v)
        BY <1>2, <1>7, <1>8, <2>3, <3>2 DEF ReconcileOk
      <3> QED BY <1>1, <1>2, <1>3, <1>8, <2>1, <2>3, <3>1, <3>2, <3>3, TruthCall
    <2> QED BY <2>2, <2>3 DEF Roles
  <1>9. CASE /\ \/ w.snap.state = "prepared"
                \/ w.snap.state = "interrupted" /\ w.snap.cursor = count
             /\ after = 1..count /\ after \cup before = Files
             /\ SetWorker(t, r, [w EXCEPT !.pc = Continue(w.why, w.snap.state)])
    <2>1. PICK p \in {"finish", "resume", "raise"} : p = Continue(w.why, w.snap.state)
      BY ContinueFacts
    <2>2. PICK v : v = [w EXCEPT !.pc = p]
      OBVIOUS
    <2>3. v \in Worker /\ v.pc = p /\ v.snap = w.snap
      <3>1. p \in Places
        BY DEF Places
      <3> QED BY <2>2, <3>1, PcFacts
    <2>4. r = "execute" => OnceOk(t, v)
      <3>1. p = "resume" => w.why = "resume"
        BY <2>1 DEF Continue
      <3> QED BY <1>2, <2>3, <3>1 DEF OnceOk, Midway
    <2>5. ASSUME r = "reconcile" PROVE ReconcileOk(t, v)
      <3>1. p = "finish"
        BY <1>2, <2>1, <2>5 DEF Continue, Roles
      <3>2. ASSUME edits = 0, Outcome(w.snap) = "failed" PROVE wrote[t] = {}
        <4>1. CASE w.snap.state = "prepared"
          BY <1>2, <2>5, <4>1, MyTruth DEF ReconcileOk
        <4>2. CASE w.snap.state # "prepared"
          <5>1. w.snap.cursor = 0
            BY <3>2, <4>2 DEF Outcome
          <5> QED BY <1>7, <1>9, <2>5, <3>2, <4>2, <5>1
        <4> QED BY <4>1, <4>2
      <3> QED BY <1>2, <2>3, <2>5, <3>1, <3>2 DEF ReconcileOk
    <2> QED BY <1>1, <1>2, <1>3, <1>9, <2>1, <2>2, <2>3, <2>4, <2>5, TruthCall
  <1>10. CASE after = Files
    <2>1. 0 \in 0..Members /\ Members \in 0..Members
      BY MembersAssumption
    <2>2. SetWorker(t, r, IF w.snap.state = "prepared" THEN Ask(w, "diverged", 0, Continue(w.why, "diverged"))
                          ELSE Ask(w, "published", Members, Continue(w.why, "published")))
      BY <1>1, <1>4, <1>10 DEF Conclude, Conclusion
    <2> QED BY <1>8, <2>1, <2>2
  <1>11. CASE after # Files /\ (after \cup before # Files \/ after # 1..count)
    <2>1. SetWorker(t, r, Ask(w, "diverged", w.snap.cursor, Continue(w.why, "diverged")))
      BY <1>1, <1>4, <1>5, <1>6, <1>11 DEF Conclude, Conclusion
    <2> QED BY <1>2, <1>8, <2>1
  <1>12. CASE after # Files /\ after \cup before = Files /\ after = 1..count
    <2>1. count \in 0..Members
      <3> SUFFICES ASSUME count > Members PROVE FALSE
        BY MembersAssumption
      <3>1. Files \subseteq after
        BY <1>12, MembersAssumption DEF Files
      <3> QED BY <1>4, <1>12, <3>1
    <2>2. \/ /\ \/ w.snap.state = "prepared"
                \/ w.snap.state = "interrupted" /\ w.snap.cursor = count
             /\ SetWorker(t, r, [w EXCEPT !.pc = Continue(w.why, w.snap.state)])
          \/ SetWorker(t, r, Ask(w, "interrupted", count, Continue(w.why, "interrupted")))
      BY <1>1, <1>4, <1>5, <1>6, <1>12 DEF Conclude, Conclusion
    <2> QED BY <1>8, <1>9, <1>12, <2>1, <2>2
  <1> QED BY <1>10, <1>11, <1>12

-----------------------------------------------------------------------------
(* Steps that change a store, a route or a file *)

\* A record moves on under the one call that works on it.
LEMMA TruthAdvance ==
  ASSUME IInv, TruthInv, NEW t \in Txns, NEW r \in Roles, Advance(t, r)
  PROVE  TruthInv'
  <1>1. PICK w \in Worker : w = worker[t][r]
    BY MyCall
  <1>2. /\ w.pc = "advance" /\ WantOk(t, r, w) /\ w.want \in Record /\ w.snap \in Record /\ w.then \in Places
        /\ r = "execute" => OnceOk(t, w)
        /\ r = "reconcile" => ReconcileOk(t, w)
    BY <1>1, MyCall, MyTruth, WorkerFacts DEF Advance, CallOk, PlaceOk
  <1>3. UNCHANGED <<files, plan, route, wrote, edits>>
    BY DEF Advance, router, history, faults
  <1>4. CASE Goto(t, r, "raise") /\ UNCHANGED record
    BY <1>1, <1>2, <1>3, <1>4, TruthRaise
  <1>5. CASE /\ record[t] = w.snap /\ w.want.state \in Transitions[w.snap.state]
             /\ w.want.cursor >= w.snap.cursor
             /\ record' = [record EXCEPT ![t] = w.want]
             /\ SetWorker(t, r, [w EXCEPT !.snap = w.want, !.pc = w.then])
    <2>1. PICK v : v = [w EXCEPT !.snap = w.want, !.pc = w.then]
      OBVIOUS
    <2>2. v \in Worker /\ v.pc = w.then /\ v.snap = w.want /\ v.why = w.why
      BY <1>2, <2>1 DEF Worker
    <2>3. \A u \in Txns : \A q \in Roles :
             worker'[u][q] = IF u = t /\ q = r THEN v ELSE worker[u][q]
      BY <1>5, <2>1, <2>2, SetWorkerFacts DEF IInv
    <2>4. \A u \in Txns : record'[u] = IF u = t THEN w.want ELSE record[u]
      BY <1>2, <1>5 DEF IInv, TypeOK
    <2>5. w.want.state \notin {"absent", "prepared"}
      <3>1. w.snap.state \in TransactionStates
        BY <1>2, RecordFacts
      <3> QED BY <1>5, <3>1 DEF Transitions, TransactionStates
    <2>6. v.pc \in {"member", "recorded", "resume", "finish", "raise"}
      BY <1>2, <2>2 DEF WantOk
    <2>7. r = "execute" => OnceOk(t, v)'
      BY <1>2, <1>3, <1>5, <2>2, <2>4, <2>6 DEF OnceOk, Midway
    <2>8. ASSUME r = "reconcile" PROVE ReconcileOk(t, v)'
      <3>1. v.pc \in {"finish", "raise"}
        BY <1>2, <2>2, <2>8 DEF WantOk
      <3>2. Outcome(w.want) = "failed" => w.want.state = "interrupted" /\ w.want.cursor = 0
        BY <2>5 DEF Outcome
      <3> QED BY <1>2, <1>3, <2>2, <2>4, <2>8, <3>1, <3>2 DEF ReconcileOk
    <2>9. ASSUME NEW q \in Roles, q # r PROVE worker[t][q].pc = "idle"
      BY <1>1, <1>2, <2>9, MyTruth DEF Roles
    <2>10. ASSUME NEW u \in Txns PROVE TruthInv!(u)'
      <3>1. PICK x, y : x = worker'[u]["execute"] /\ y = worker'[u]["reconcile"]
        OBVIOUS
      <3>2. CASE u = t
        <4>1. (r = "execute" /\ x = v /\ y.pc = "idle") \/ (r = "reconcile" /\ y = v /\ x.pc = "idle")
          BY <2>3, <2>9, <3>1, <3>2 DEF Roles
        <4>2. OnceOk(t, x)' /\ ReconcileOk(t, y)'
          BY <2>7, <2>8, <4>1 DEF OnceOk, ReconcileOk, Midway
        <4>3. x.pc # "idle" => route[t] = "running"
          BY <1>1, <1>2, <4>1, MyTruth
        <4> QED BY <1>3, <2>4, <2>5, <3>1, <3>2, <4>2, <4>3 DEF TruthInv
      <3>3. CASE u # t
        <4>1. x = worker[u]["execute"] /\ y = worker[u]["reconcile"] /\ record'[u] = record[u]
          BY <2>3, <2>4, <3>1, <3>3 DEF Roles
        <4>2. OnceOk(u, x)' /\ ReconcileOk(u, y)'
          BY <1>3, <4>1, MyTruth DEF OnceOk, ReconcileOk
        <4> QED BY <1>3, <3>1, <4>1, <4>2 DEF TruthInv
      <3> QED BY <3>2, <3>3
    <2> QED BY <2>10 DEF TruthInv
  <1> QED BY <1>1, <1>4, <1>5 DEF Advance
\* A step of one transaction that changes its route and its calls.
LEMMA TruthRoute ==
  ASSUME IInv, TruthInv, NEW t \in Txns, UNCHANGED <<files, plan, record, wrote, edits>>,
         \A u \in Txns : u # t => /\ route'[u] = route[u]
                                  /\ \A q \in Roles : worker'[u][q] = worker[u][q],
         NEW x, NEW y, x = worker'[t]["execute"], y = worker'[t]["reconcile"],
         OnceOk(t, x)', ReconcileOk(t, y)', x.pc # "idle" => route'[t] = "running",
         edits = 0 /\ route'[t] = "failed" => wrote[t] = {}
  PROVE  TruthInv'
  <1>1. ASSUME NEW u \in Txns PROVE TruthInv!(u)'
    <2>1. CASE u = t
      BY <2>1 DEF TruthInv
    <2>2. CASE u # t
      <3>1. PICK a, b : a = worker[u]["execute"] /\ b = worker[u]["reconcile"]
        OBVIOUS
      <3>2. a = worker'[u]["execute"] /\ b = worker'[u]["reconcile"] /\ route'[u] = route[u]
        BY <2>2, <3>1 DEF Roles
      <3>3. TruthInv!(u) /\ OnceOk(u, a) /\ ReconcileOk(u, b)
        BY <3>1, MyTruth DEF TruthInv
      <3>4. OnceOk(u, a)'
        BY <3>3 DEF OnceOk
      <3>5. ReconcileOk(u, b)'
        BY <3>2, <3>3 DEF ReconcileOk
      <3>6. a.pc # "idle" => route'[u] = "running"
        BY <3>1, <3>2, <3>3
      <3> QED BY <3>2, <3>3, <3>4, <3>5, <3>6
    <2> QED BY <2>1, <2>2
  <1> QED BY <1>1 DEF TruthInv

\* A call that is not there says nothing.
LEMMA IdleTruth ==
  ASSUME NEW t, NEW w, w.pc = "idle"
  PROVE  OnceOk(t, w)' /\ ReconcileOk(t, w)'
  BY DEF OnceOk, ReconcileOk, Midway

LEMMA TruthExecute ==
  ASSUME IInv, TruthInv, NEW t \in Txns, Execute(t)
  PROVE  TruthInv'
  <1>1. UNCHANGED <<files, plan, record, wrote, edits>> /\ route[t] = "ready" /\ record[t].state = "prepared"
    BY DEF Execute, history, faults
  <1>2. \A u \in Txns : route'[u] = IF u = t THEN "running" ELSE route[u]
    BY DEF Execute, IInv, TypeOK
  <1>3. PICK v : v = [worker[t]["execute"] EXCEPT !.pc = "acquire"]
    OBVIOUS
  <1>4. v \in Worker /\ v.pc = "acquire"
    <2>1. worker[t]["execute"] \in Worker /\ "acquire" \in Places
      BY MyTruth DEF Places
    <2> QED BY <1>3, <2>1, PcFacts
  <1>5. \A u \in Txns : \A q \in Roles :
           worker'[u][q] = IF u = t /\ q = "execute" THEN v ELSE worker[u][q]
    <2>1. SetWorker(t, "execute", v)
      BY <1>3 DEF Execute, Goto
    <2> QED BY <1>4, <2>1, SetWorkerFacts DEF IInv, Roles
  <1>6. OnceOk(t, v)'
    BY <1>1, <1>4, MyTruth DEF OnceOk, Midway
  <1>7. PICK y : y = worker[t]["reconcile"]
    OBVIOUS
  <1>8. y.pc = "idle" /\ y = worker'[t]["reconcile"] /\ v = worker'[t]["execute"]
    BY <1>1, <1>5, <1>7, MyTruth DEF Roles
  <1>9. ReconcileOk(t, y)'
    BY <1>8, IdleTruth
  <1> QED BY <1>1, <1>2, <1>5, <1>6, <1>8, <1>9, TruthRoute

LEMMA TruthAcquire ==
  ASSUME IInv, TruthInv, NEW t \in Txns, Acquire(t)
  PROVE  TruthInv'
  <1>1. UNCHANGED <<files, plan, record, route, wrote, edits>>
    BY DEF Acquire, router, history, faults
  <1>2. worker[t]["execute"].pc = "acquire" /\ wrote[t] = {}
    BY MyTruth DEF Acquire, OnceOk
  <1>3. CASE Goto(t, "execute", "raise")
    BY <1>1, <1>2, <1>3, TruthRaise DEF Roles
  <1>4. CASE SetWorker(t, "execute", [NoWorker EXCEPT !.pc = "next", !.token = lease.token + 1])
    <2>1. PICK n \in Nat : n = lease.token + 1
      BY DEF IInv, TypeOK
    <2>2. PICK v : v = [NoWorker EXCEPT !.pc = "next", !.token = n]
      OBVIOUS
    <2>3. v \in Worker /\ v.pc = "next"
      <3>1. "next" \in Places
        BY DEF Places
      <3> QED BY <2>2, <3>1, NoWorkerFacts DEF Worker
    <2>4. OnceOk(t, v)
      BY <1>2, <2>3 DEF OnceOk, Midway
    <2> QED BY <1>1, <1>2, <1>4, <2>1, <2>2, <2>3, <2>4, TruthCall DEF Roles
  <1> QED BY <1>3, <1>4 DEF Acquire

\* execute ends: it is unknown, or a success.
LEMMA TruthExecuteEnds ==
  ASSUME IInv, TruthInv, NEW t \in Txns, ExecuteEnds(t)
  PROVE  TruthInv'
  <1>1. UNCHANGED <<files, plan, record, wrote, edits>>
    BY DEF ExecuteEnds, history, faults
  <1>2. route[t] = "running"
    BY MyTruth DEF ExecuteEnds
  <1>3. \A u \in Txns : \A q \in Roles :
           worker'[u][q] = IF u = t /\ q = "execute" THEN NoWorker ELSE worker[u][q]
    BY NoWorkerFacts, SetWorkerFacts DEF ExecuteEnds, IInv, Roles
  <1>4. /\ \A u \in Txns : u # t => route'[u] = route[u]
        /\ route'[t] \in {"unknown", "succeeded"}
    BY <1>2 DEF ExecuteEnds, Complete, IInv, TypeOK
  <1>5. PICK x, y : x = worker'[t]["execute"] /\ y = worker'[t]["reconcile"]
    OBVIOUS
  <1>6. x.pc = "idle" /\ y.pc = "idle"
    BY <1>2, <1>3, <1>5, MyTruth, NoWorkerFacts DEF Roles
  <1>7. OnceOk(t, x)' /\ ReconcileOk(t, y)'
    BY <1>6, IdleTruth
  <1> QED BY <1>1, <1>3, <1>4, <1>5, <1>6, <1>7, TruthRoute

LEMMA TruthReconcile ==
  ASSUME IInv, TruthInv, NEW t \in Txns, Reconcile(t)
  PROVE  TruthInv'
  <1>1. /\ UNCHANGED <<files, plan, record, wrote, edits>> /\ route[t] = "unknown"
        /\ worker[t]["reconcile"] = NoWorker
    BY DEF Reconcile, history, faults
  <1>2. PICK x : x = worker[t]["execute"]
    OBVIOUS
  <1>3. x.pc = "idle"
    BY <1>1, <1>2, MyTruth
  <1>4. CASE /\ route' = [route EXCEPT ![t] = "reconciling"]
             /\ SetWorker(t, "reconcile", StartObserving(NoWorker, t, "recover"))
    <2>1. PICK v : v = StartObserving(NoWorker, t, "recover")
      OBVIOUS
    <2>2. /\ v \in Worker /\ v.snap = record[t]
          /\ v.pc = IF record[t].state \in TerminalStates THEN "finish" ELSE "observe"
          /\ v.pc = "observe" => v.facts = <<>>
      BY <2>1, NoWorkerFacts, ObserveFacts DEF Continue, IInv
    <2>3. \A u \in Txns : \A q \in Roles :
             worker'[u][q] = IF u = t /\ q = "reconcile" THEN v ELSE worker[u][q]
      BY <1>4, <2>1, <2>2, SetWorkerFacts DEF IInv, Roles
    <2>4. \A u \in Txns : route'[u] = IF u = t THEN "reconciling" ELSE route[u]
      BY <1>4 DEF IInv, TypeOK
    <2>5. ReconcileOk(t, v)'
      <3>1. record[t].state \in TerminalStates => Outcome(record[t]) # "failed"
        BY DEF TerminalStates, Outcome
      <3>2. v.pc = "observe" => 1..Len(v.facts) = {}
        BY <2>2
      <3> QED BY <1>1, <2>2, <2>4, <3>1, <3>2 DEF ReconcileOk
    <2>6. OnceOk(t, x)'
      BY <1>3, IdleTruth
    <2>7. x = worker'[t]["execute"] /\ v = worker'[t]["reconcile"]
      BY <1>2, <2>3 DEF Roles
    <2> QED BY <1>1, <1>3, <2>3, <2>4, <2>5, <2>6, <2>7, TruthRoute
  <1>5. CASE route' = [route EXCEPT ![t] = "manual_intervention"] /\ UNCHANGED worker
    <2>1. \A u \in Txns : route'[u] = IF u = t THEN "manual_intervention" ELSE route[u]
      BY <1>5 DEF IInv, TypeOK
    <2>2. OnceOk(t, x)' /\ ReconcileOk(t, NoWorker)'
      BY <1>3, IdleTruth, NoWorkerFacts
    <2>3. x = worker'[t]["execute"] /\ NoWorker = worker'[t]["reconcile"]
      BY <1>1, <1>2, <1>5
    <2> QED BY <1>1, <1>3, <1>5, <2>1, <2>2, <2>3, TruthRoute
  <1> QED BY <1>4, <1>5 DEF Reconcile

\* reconcile ends: a failure it reports wrote nothing.
LEMMA TruthReconcileEnds ==
  ASSUME IInv, TruthInv, NEW t \in Txns, ReconcileEnds(t)
  PROVE  TruthInv'
  <1>1. UNCHANGED <<files, plan, record, wrote, edits>>
    BY DEF ReconcileEnds, history, faults
  <1>2. PICK w : w = worker[t]["reconcile"]
    OBVIOUS
  <1>3. w.pc \in {"finish", "raise"} /\ route[t] = "reconciling" /\ ReconcileOk(t, w)
    BY <1>2, MyTruth DEF ReconcileEnds
  <1>4. \A u \in Txns : \A q \in Roles :
           worker'[u][q] = IF u = t /\ q = "reconcile" THEN NoWorker ELSE worker[u][q]
    BY NoWorkerFacts, SetWorkerFacts DEF ReconcileEnds, IInv, Roles
  <1>5. /\ \A u \in Txns : u # t => route'[u] = route[u]
        /\ route'[t] = "unknown" \/ (w.pc = "finish" /\ route'[t] = Outcome(w.snap))
    BY <1>2, <1>3 DEF ReconcileEnds, Complete, IInv, TypeOK
  <1>6. edits = 0 /\ route'[t] = "failed" => wrote[t] = {}
    BY <1>3, <1>5 DEF ReconcileOk
  <1>7. PICK x, y : x = worker'[t]["execute"] /\ y = worker'[t]["reconcile"]
    OBVIOUS
  <1>8. x.pc = "idle" /\ y.pc = "idle"
    BY <1>3, <1>4, <1>7, MyTruth, NoWorkerFacts DEF Roles
  <1>9. OnceOk(t, x)' /\ ReconcileOk(t, y)'
    BY <1>8, IdleTruth
  <1> QED BY <1>1, <1>4, <1>5, <1>6, <1>7, <1>8, <1>9, TruthRoute
\* The steps of the surroundings; a second host is not among them.
LEMMA TruthSurroundings ==
  ASSUME IInv, TruthInv, ~Overlap,
         \/ LeaseExpires \/ HostRestarts \/ HostTakesOver
         \/ \E i \in Files : \E content \in Contents : EditFile(i, content)
  PROVE  TruthInv'
  <1>1. CASE LeaseExpires
    <2>1. UNCHANGED <<files, plan, record, worker, route, wrote, edits>>
      BY <1>1 DEF LeaseExpires, router, faults
    <2> QED BY <2>1 DEF TruthInv, OnceOk, ReconcileOk
  <1>2. CASE HostRestarts
    <2>1. UNCHANGED <<files, plan, record, wrote, edits>>
          /\ \A u \in Txns : route'[u] = InFlight(route[u])
      BY <1>2 DEF HostRestarts, history
    <2>2. \A u \in Txns : \A q \in Roles : worker'[u][q] = NoWorker
      BY <1>2 DEF HostRestarts
    <2>3. ASSUME NEW u \in Txns PROVE TruthInv!(u)'
      <3>1. OnceOk(u, NoWorker)' /\ ReconcileOk(u, NoWorker)'
        BY IdleTruth, NoWorkerFacts
      <3>2. worker'[u]["execute"] = NoWorker /\ worker'[u]["reconcile"] = NoWorker
        BY <2>2 DEF Roles
      <3>3. route'[u] = "failed" => route[u] = "failed"
        BY <2>1 DEF InFlight
      <3>4. TruthInv!(u)
        BY DEF TruthInv
      <3> QED BY <2>1, <3>1, <3>2, <3>3, <3>4, NoWorkerFacts
    <2> QED BY <2>3 DEF TruthInv
  <1>3. CASE HostTakesOver
    BY <1>3 DEF HostTakesOver
  <1>4. CASE \E i \in Files : \E content \in Contents : EditFile(i, content)
    <2>1. UNCHANGED <<plan, record, worker, route, wrote>> /\ edits' # 0
      BY <1>4 DEF EditFile, router, IInv, TypeOK
    <2> QED BY <2>1 DEF TruthInv, OnceOk, ReconcileOk
  <1> QED BY <1>1, <1>2, <1>3, <1>4

\* A patch is saved: it has not written anything, and nobody works on it.
LEMMA TruthSave ==
  ASSUME IInv, TruthInv, NEW t \in Txns, SavePatch(t) \/ SaveRollback(t)
  PROVE  TruthInv'
  <1>1. /\ UNCHANGED <<files, worker, route, wrote, edits>> /\ record[t] = NoRecord
        /\ plan' = [plan EXCEPT ![t] = files] /\ record' = [record EXCEPT ![t].state = "prepared"]
    BY DEF SavePatch, SaveRollback, router, history, faults
  <1>2. \A u \in Txns : u # t => plan'[u] = plan[u] /\ record'[u] = record[u]
    BY <1>1 DEF IInv, TypeOK
  <1>3. record[t].state = "absent" /\ wrote[t] = {}
    BY <1>1, MyTruth DEF NoRecord
  <1>4. \A q \in Roles : worker[t][q].pc = "idle"
    BY <1>3, MyCall DEF CallOk, PlaceOk, Recorded
  <1>5. ASSUME NEW u \in Txns PROVE TruthInv!(u)'
    <2>1. PICK x, y : x = worker[u]["execute"] /\ y = worker[u]["reconcile"]
      OBVIOUS
    <2>2. TruthInv!(u) /\ OnceOk(u, x) /\ ReconcileOk(u, y)
      BY <2>1, MyTruth DEF TruthInv
    <2>3. OnceOk(u, x)' /\ ReconcileOk(u, y)'
      <3>1. CASE u = t
        BY <1>4, <2>1, <3>1, IdleTruth DEF Roles
      <3>2. CASE u # t
        BY <1>1, <1>2, <2>2, <3>2 DEF OnceOk, ReconcileOk
      <3> QED BY <3>1, <3>2
    <2>4. wrote[u] # {} => u # t
      BY <1>3
    <2> QED BY <1>1, <1>2, <2>1, <2>2, <2>3, <2>4
  <1> QED BY <1>5 DEF TruthInv

\* A member is written: for the first time, so nobody planned to find the content there.
LEMMA TruthReplace ==
  ASSUME IInv, OriginInv, TruthInv, OnlyPatches, NEW t \in Txns, Replace(t)
  PROVE  TruthInv'
  <1>1. PICK w \in Worker : w = worker[t]["execute"]
    BY MyTruth
  <1>2. /\ w.pc = "replace" /\ w.snap = record[t] /\ wrote[t] \subseteq 1..w.snap.cursor
        /\ route[t] = "running" /\ worker[t]["reconcile"].pc = "idle"
    BY <1>1, MyTruth DEF Replace, OnceOk, Midway
  <1>3. w.snap.state = "publishing" /\ w.snap.cursor < Members /\ w.snap.cursor \in Nat
    BY <1>1, <1>2, MyCall, WorkerFacts, RecordFacts DEF CallOk, PlaceOk, Midway, Roles
  <1>4. UNCHANGED <<plan, record, route, edits>>
    BY DEF Replace, router, faults
  <1>5. CASE /\ UNCHANGED <<files, wrote>>
             /\ \/ SetWorker(t, "execute", StartObserving(w, t, "repair"))
                \/ Goto(t, "execute", "raise")
    BY <1>1, <1>2, <1>4, <1>5, TruthRepair, TruthRaise DEF Roles
  <1>6. PICK i : i = w.snap.cursor + 1
    OBVIOUS
  <1>7. CASE /\ Touch([files EXCEPT ![i] = After(t, i)])
             /\ wrote' = [wrote EXCEPT ![t] = @ \cup {i}]
             /\ Goto(t, "execute", "proved")
    <2>1. i \in Files /\ i \notin wrote[t]
      BY <1>2, <1>3, <1>6, MembersAssumption DEF Files
    <2>2. \A j \in Files : files'[j] = IF j = i THEN t ELSE files[j]
      BY <1>7 DEF Touch, IInv, TypeOK, OnlyPatches, After
    <2>3. \A u \in Txns : wrote'[u] = IF u = t THEN wrote[u] \cup {i} ELSE wrote[u]
      BY <1>7 DEF IInv, TypeOK
    <2>4. PICK v : v = [w EXCEPT !.pc = "proved"]
      OBVIOUS
    <2>5. v \in Worker /\ v.pc = "proved" /\ v.snap = w.snap
      <3>1. "proved" \in Places
        BY DEF Places
      <3> QED BY <2>4, <3>1, PcFacts
    <2>6. \A u \in Txns : \A q \in Roles :
             worker'[u][q] = IF u = t /\ q = "execute" THEN v ELSE worker[u][q]
      BY <1>1, <1>7, <2>4, <2>5, SetWorkerFacts DEF Goto, IInv, Roles
    <2>7. OnceOk(t, v)'
      <3>1. wrote'[t] \subseteq 1..(w.snap.cursor + 1)
        <4>1. wrote'[t] = wrote[t] \cup {i}
          BY <2>3
        <4>2. 1..w.snap.cursor \subseteq 1..i /\ i \in 1..i
          BY <1>3, <1>6
        <4> QED BY <1>2, <1>6, <4>1, <4>2
      <3> QED BY <1>2, <1>4, <2>5, <3>1 DEF OnceOk, Midway
    <2>8. ASSUME NEW u \in Txns, edits = 0, Recorded(u) PROVE plan[u][i] # t
      BY <2>1, <2>8 DEF OriginInv, OnlyPatches
    <2>9. ASSUME NEW u \in Txns PROVE TruthInv!(u)'
      <3>1. PICK x, y : x = worker'[u]["execute"] /\ y = worker'[u]["reconcile"]
        OBVIOUS
      <3>2. TruthInv!(u) /\ wrote[u] \subseteq Files
        BY MyTruth DEF TruthInv
      <3>3. wrote'[u] # {} => record[u].state \notin {"absent", "prepared"}
        BY <1>2, <1>3, <2>3, <3>2
      <3>4. OnceOk(u, x)' /\ ReconcileOk(u, y)' /\ (x.pc # "idle" => route[u] = "running")
        <4>1. CASE u = t
          <5>1. x = v /\ y = worker[t]["reconcile"]
            BY <2>6, <3>1, <4>1 DEF Roles
          <5>2. ReconcileOk(t, y)'
            BY <1>2, <5>1, IdleTruth
          <5> QED BY <1>2, <2>7, <4>1, <5>1, <5>2
        <4>2. CASE u # t
          <5>1. x = worker[u]["execute"] /\ y = worker[u]["reconcile"] /\ wrote'[u] = wrote[u]
            BY <2>3, <2>6, <3>1, <4>2 DEF Roles
          <5>2. OnceOk(u, x) /\ ReconcileOk(u, y)
            BY <3>2, <5>1
          <5>3. OnceOk(u, x)' /\ ReconcileOk(u, y)'
            BY <1>4, <5>1, <5>2 DEF OnceOk, ReconcileOk
          <5> QED BY <3>2, <5>1, <5>3
        <4> QED BY <4>1, <4>2
      <3>5. ASSUME edits = 0, NEW j \in wrote'[u] PROVE files'[j] # plan[u][j]
        <4>1. j \in Files /\ (j # i => j \in wrote[u])
          BY <2>1, <2>3, <3>2
        <4>2. CASE j = i
          BY <2>2, <2>8, <3>3, <3>5, <4>1, <4>2 DEF Recorded
        <4>3. CASE j # i
          BY <2>2, <3>2, <3>5, <4>1, <4>3
        <4> QED BY <4>2, <4>3
      <3>6. edits = 0 /\ route[u] = "failed" => wrote'[u] = {}
        BY <1>2, <2>3, <3>2
      <3> QED BY <1>4, <3>1, <3>3, <3>4, <3>5, <3>6
    <2> QED BY <2>9 DEF TruthInv
  <1> QED BY <1>1, <1>5, <1>6, <1>7 DEF Replace, history

-----------------------------------------------------------------------------
(* The theorem *)

LEMMA TruthStep ==
  ASSUME IInv, OriginInv, TruthInv, ~Overlap, OnlyPatches, [Next]_vars
  PROVE  TruthInv'
  <1>1. CASE UNCHANGED vars
    BY <1>1 DEF vars, TruthInv, OnceOk, ReconcileOk
  <1>2. ASSUME NEW t \in Txns, CallSteps(t) PROVE TruthInv'
    BY <1>2, TruthAcquire, TruthPublishNext, TruthVerifyResume, TruthMember, TruthReplace, TruthRecorded,
       TruthExecuteEnds, TruthReconcileEnds, TruthAdvance, TruthObserve, TruthConclude
       DEF CallSteps, ExecuteSteps
  <1>3. CASE Next
    BY <1>2, <1>3, TruthSave, TruthExecute, TruthReconcile, TruthSurroundings DEF Next
  <1> QED BY <1>1, <1>3

LEMMA TruthInitial == ASSUME Init PROVE TruthInv
  <1>1. \A t \in Txns : \A r \in Roles : worker[t][r] = NoWorker
    BY DEF Init
  <1>2. \A t \in Txns : worker[t]["execute"].pc = "idle" /\ worker[t]["reconcile"].pc = "idle"
    BY <1>1, NoWorkerFacts DEF Roles
  <1>3. ASSUME NEW t \in Txns PROVE TruthInv!(t)
    <2>1. wrote[t] = {}
      BY DEF Init
    <2>2. OnceOk(t, worker[t]["execute"])
      BY <1>2 DEF OnceOk, Midway
    <2>3. ReconcileOk(t, worker[t]["reconcile"])
      BY <1>2 DEF ReconcileOk
    <2> QED BY <1>2, <2>1, <2>2, <2>3
  <1> QED BY <1>3 DEF TruthInv

\* What the router assumes of an executor holds of workspace patches, for any number of
\* patches of the same files, whatever crashes or fails and even when leases run out in use:
\* reconcile calls a patch failed only if execute replaced none of its members, and a success
\* replaced them all.  One host at a time, and no rollback of a rollback that could bring an
\* old content back.
THEOREM OutcomesAreTruthful ==
  ASSUME ~Overlap, OnlyPatches
  PROVE  Spec => []OutcomeIsTruthful
  <1>1. Init => TruthInv
    BY TruthInitial
  <1>2. IInv /\ OriginInv /\ TruthInv /\ [Next]_vars => TruthInv'
    BY TruthStep
  <1>3. Spec => []TruthInv
    BY <1>1, <1>2, Inductive, ContentsHaveOrigin, PTL DEF Spec
  <1>4. TruthInv /\ PatchSuccessIsReal => OutcomeIsTruthful
    BY DEF TruthInv, PatchSuccessIsReal, OnlyPatches, OutcomeIsTruthful
  <1> QED BY <1>3, <1>4, PatchSuccessIsAlwaysReal, PTL
=============================================================================
