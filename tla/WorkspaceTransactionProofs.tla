--------------------- MODULE WorkspaceTransactionProofs ---------------------
(* Theorems about WorkspaceTransaction, for any number of transactions, files, edits and   *)
(* crashes, whether or not leases expire, operations fail and hosts overlap.               *)
EXTENDS WorkspaceTransaction, SequenceTheorems, FiniteSetTheorems, TLAPS

-----------------------------------------------------------------------------
(* The inductive invariant *)

\* A record whose cursor agrees with its state.
Proper(rec) ==
    /\ rec.state = "interrupted" => rec.cursor < Members
    /\ rec.state = "published" => rec.cursor = Members

Recorded(t) == record[t].state # "absent"

\* The ledger: a rollback is planned after its original, every member changes, and a
\* file that has its image after is known to have reached it.
LedgerInv ==
    \A t \in Txns :
        /\ Proper(record[t])
        /\ 1..record[t].cursor \subseteq reached[t]
        /\ Recorded(t) /\ RollbackOf[t] # NoTxn => Recorded(RollbackOf[t])
        /\ Recorded(t) => \A i \in Files : /\ plan[t][i] # After(t, i)
                                           /\ files[i] = After(t, i) => i \in reached[t]
        /\ route[t] # "ready" => Recorded(t)
        /\ route[t] = "succeeded" => record[t].state = "published"

Midway  == {"member", "apply", "replace", "proved"}
Holding == Midway \cup {"next", "verify", "observe", "resume", "recorded", "advance", "finish"}

\* What a call is about to commit.
WantOk(t, r, w) ==
    /\ Proper(w.want)
    /\ 1..w.want.cursor \subseteq reached[t]
    /\ w.then \in {"member", "recorded", "resume", "finish", "raise"}
    /\ w.then = "member" => w.want.state = "publishing" /\ w.want.cursor < Members
    /\ w.then = "recorded" => w.want.state = "publishing"
    /\ w.then = "resume" => w.want.state = "interrupted"
    /\ w.then = "finish" /\ r = "execute" => w.want.state = "published"
    /\ r = "reconcile" => w.then \in {"finish", "raise"}

\* Where a call is, by the record it works on.
PlaceOk(t, r, w) ==
    /\ w.pc # "idle" => Recorded(t)
    /\ Proper(w.snap)
    /\ 1..w.snap.cursor \subseteq reached[t]
    /\ w.snap.state \in TerminalStates => w.snap = record[t]
    /\ w.pc \in Midway => w.snap.state = "publishing" /\ w.snap.cursor < Members
    /\ w.pc = "recorded" => w.snap.state = "publishing"
    /\ w.pc = "resume" => w.snap.state = "interrupted"
    /\ w.pc = "finish" /\ r = "execute" => w.snap.state = "published"
    /\ w.pc = "advance" => WantOk(t, r, w)
    /\ r = "reconcile" => w.pc \in {"idle", "observe", "advance", "finish", "raise"}
    /\ r = "execute" => w.why # "recover"
    /\ r = "reconcile" /\ w.pc = "observe" => w.why = "recover"

\* Files are read in their order.
FactsOk(t, w) ==
    /\ Len(w.facts) <= Members
    /\ w.pc = "observe" =>
          \A i \in 1..Len(w.facts) : w.facts[i] = After(t, i) => i \in reached[t]

\* As long as no lease ran out in use, a call that works on files has the lease, and the
\* file it is about to replace is the one that was approved, or was edited since the check.
LeaseOk(t, w) ==
    ~lapsed =>
        /\ w.pc \in Holding => HoldsLease(t, w)
        /\ w.pc = "replace" =>
              \/ files[w.snap.cursor + 1] = plan[t][w.snap.cursor + 1]
              \/ w.snap.cursor + 1 \in raced

CallOk(t, r, w) ==
    /\ PlaceOk(t, r, w)
    /\ FactsOk(t, w)
    /\ r = "execute" => LeaseOk(t, w)

CallInv == \A t \in Txns : \A r \in Roles : CallOk(t, r, worker[t][r])

IInv == TypeOK /\ LedgerInv /\ CallInv

-----------------------------------------------------------------------------
(* Calls *)

LEMMA RecordFacts ==
  /\ NoRecord \in Record
  /\ \A rec \in Record : /\ rec.state \in TransactionStates /\ rec.cursor \in 0..Members
                         /\ rec.cursor \in Nat /\ rec.sequence \in Nat
  BY MembersAssumption DEF NoRecord, Record, TransactionStates

LEMMA WorkerFacts ==
  ASSUME NEW w \in Worker
  PROVE  /\ w.pc \in Places /\ w.snap \in Record /\ w.want \in Record /\ w.then \in Places
         /\ w.facts \in Seq(Contents) /\ w.why \in {"resume", "repair", "recover"} /\ w.token \in Nat
  BY DEF Worker

LEMMA NoWorkerFacts ==
  /\ NoWorker \in Worker /\ NoWorker.pc = "idle" /\ NoWorker.snap = NoRecord
  /\ NoWorker.facts = <<>> /\ NoWorker.why = "resume"
  BY RecordFacts DEF NoWorker, Worker, Places

\* A call moves to another place.
LEMMA PcFacts ==
  ASSUME NEW w \in Worker, NEW p \in Places
  PROVE  /\ [w EXCEPT !.pc = p] \in Worker /\ [w EXCEPT !.pc = p].pc = p
         /\ [w EXCEPT !.pc = p].snap = w.snap /\ [w EXCEPT !.pc = p].want = w.want
         /\ [w EXCEPT !.pc = p].then = w.then /\ [w EXCEPT !.pc = p].facts = w.facts
         /\ [w EXCEPT !.pc = p].why = w.why /\ [w EXCEPT !.pc = p].token = w.token
  BY DEF Worker

\* A call asks for a transition.
LEMMA AskFacts ==
  ASSUME NEW w \in Worker, NEW s \in TransactionStates, NEW c \in 0..Members, NEW p \in Places
  PROVE  /\ Ask(w, s, c, p) \in Worker /\ Ask(w, s, c, p).pc = "advance" /\ Ask(w, s, c, p).then = p
         /\ Ask(w, s, c, p).want.state = s /\ Ask(w, s, c, p).want.cursor = c
         /\ Ask(w, s, c, p).snap = w.snap /\ Ask(w, s, c, p).facts = w.facts
         /\ Ask(w, s, c, p).why = w.why /\ Ask(w, s, c, p).token = w.token
  <1>1. PICK n \in Nat : n = w.snap.sequence + 1
    BY WorkerFacts, RecordFacts
  <1>2. PICK rec : rec = [state |-> s, cursor |-> c, sequence |-> n]
    OBVIOUS
  <1>5. rec \in Record /\ rec.state = s /\ rec.cursor = c
    BY <1>2 DEF Record
  <1>3. Ask(w, s, c, p) = [w EXCEPT !.pc = "advance", !.then = p, !.want = rec]
    BY <1>1, <1>2 DEF Ask
  <1>4. "advance" \in Places
    BY DEF Places
  <1> QED BY <1>3, <1>4, <1>5 DEF Worker

\* A call that reconciles looks at the record first.
LEMMA ObserveFacts ==
  ASSUME TypeOK, NEW t \in Txns, NEW w \in Worker, NEW why \in {"resume", "repair", "recover"}
  PROVE  /\ StartObserving(w, t, why) \in Worker
         /\ StartObserving(w, t, why).snap = record[t] /\ StartObserving(w, t, why).why = why
         /\ StartObserving(w, t, why).token = w.token
         /\ StartObserving(w, t, why).facts \in {w.facts, <<>>}
         /\ StartObserving(w, t, why).pc = IF record[t].state \in TerminalStates
                                           THEN Continue(why, record[t].state) ELSE "observe"
         /\ StartObserving(w, t, why).pc = "observe" => StartObserving(w, t, why).facts = <<>>
  <1>1. record[t] \in Record
    BY DEF TypeOK
  <1>2. /\ Continue(why, record[t].state) \in {"finish", "resume", "raise"}
    BY DEF Continue
  <1>3. <<>> \in Seq(Contents) /\ {"finish", "resume", "raise", "observe"} \subseteq Places
    BY DEF Places
  <1>4. CASE record[t].state \in TerminalStates
    <2>1. StartObserving(w, t, why) =
            [w EXCEPT !.snap = record[t], !.why = why, !.pc = Continue(why, record[t].state)]
      BY <1>4 DEF StartObserving
    <2>2. PICK p \in Places : p = Continue(why, record[t].state)
      BY <1>2, <1>3
    <2> QED BY <1>1, <1>2, <1>4, <2>1, <2>2 DEF Worker
  <1>5. CASE record[t].state \notin TerminalStates
    <2>1. StartObserving(w, t, why) =
            [w EXCEPT !.snap = record[t], !.why = why, !.pc = "observe", !.facts = <<>>]
      BY <1>5 DEF StartObserving
    <2> QED BY <1>1, <1>3, <1>5, <2>1 DEF Worker
  <1> QED BY <1>4, <1>5

\* One call changes, the others do not.
LEMMA SetWorkerFacts ==
  ASSUME TypeOK, NEW t \in Txns, NEW r \in Roles, NEW w \in Worker, SetWorker(t, r, w)
  PROVE  /\ worker' \in [Txns -> [Roles -> Worker]]
         /\ \A u \in Txns : \A q \in Roles :
               worker'[u][q] = IF u = t /\ q = r THEN w ELSE worker[u][q]
  BY DEF TypeOK, SetWorker

\* A call that only moves.
LEMMA CallStep ==
  ASSUME IInv, NEW t \in Txns, NEW r \in Roles, NEW w \in Worker, SetWorker(t, r, w),
         CallOk(t, r, w), UNCHANGED <<files, plan, record, lease, router, history, faults>>
  PROVE  IInv'
  <1> USE DEF IInv
  <1>0. UNCHANGED <<files, plan, record, lease, route, attempts, wrote, reached, raced, lapsed, edits,
                    crashes>>
    BY DEF router, history, faults
  <1>1. /\ worker' \in [Txns -> [Roles -> Worker]]
        /\ \A u \in Txns : \A q \in Roles :
              worker'[u][q] = IF u = t /\ q = r THEN w ELSE worker[u][q]
    BY SetWorkerFacts
  <1>2. TypeOK'
    BY <1>0, <1>1 DEF TypeOK
  <1>3. LedgerInv'
    BY <1>0 DEF LedgerInv, Proper, Recorded, After
  <1>4. ASSUME NEW u \in Txns, NEW q \in Roles, NEW v, CallOk(u, q, v)
        PROVE  CallOk(u, q, v)'
    BY <1>0, <1>4 DEF CallOk, PlaceOk, FactsOk, LeaseOk, WantOk, Proper, Recorded, After, HoldsLease
  <1>5. CallInv'
    <2> SUFFICES ASSUME NEW u \in Txns, NEW q \in Roles
                 PROVE  CallOk(u, q, worker[u][q])'
      BY DEF CallInv
    <2>1. PICK v : v = worker'[u][q]
      OBVIOUS
    <2>2. CallOk(u, q, v)
      BY <1>1, <2>1 DEF CallInv
    <2>3. CallOk(u, q, v)'
      BY <1>4, <2>2
    <2> QED BY <2>1, <2>3
  <1> QED BY <1>2, <1>3, <1>5

LEMMA MyCall ==
  ASSUME IInv, NEW t \in Txns, NEW r \in Roles
  PROVE  worker[t][r] \in Worker /\ CallOk(t, r, worker[t][r])
  BY DEF IInv, TypeOK, CallInv

\* A call may always raise.
LEMMA RaiseOk ==
  ASSUME NEW t \in Txns, NEW r \in Roles, NEW w \in Worker, CallOk(t, r, w), w.pc # "idle"
  PROVE  [w EXCEPT !.pc = "raise"] \in Worker /\ CallOk(t, r, [w EXCEPT !.pc = "raise"])
  <1>1. PICK v : v = [w EXCEPT !.pc = "raise"]
    OBVIOUS
  <1>2. /\ v \in Worker /\ v.pc = "raise" /\ v.snap = w.snap /\ v.facts = w.facts /\ v.why = w.why
    BY <1>1, PcFacts DEF Places
  <1>3. PlaceOk(t, r, v)
    BY <1>2 DEF CallOk, PlaceOk, Midway
  <1>4. FactsOk(t, v) /\ LeaseOk(t, v)
    BY <1>2 DEF CallOk, FactsOk, LeaseOk, Holding, Midway
  <1> QED BY <1>1, <1>2, <1>3, <1>4 DEF CallOk

\* A call that has the lease may go to another place, if its record allows it.
LEMMA MoveOk ==
  ASSUME NEW t \in Txns, NEW w \in Worker, CallOk(t, "execute", w), w.pc \in Holding,
         NEW p \in {"next", "apply", "replace", "proved"},
         p # "next" => w.snap.state = "publishing" /\ w.snap.cursor < Members,
         p = "replace" => files[w.snap.cursor + 1] = plan[t][w.snap.cursor + 1]
  PROVE  [w EXCEPT !.pc = p] \in Worker /\ CallOk(t, "execute", [w EXCEPT !.pc = p])
  <1>1. PICK v : v = [w EXCEPT !.pc = p]
    OBVIOUS
  <1>2. /\ v \in Worker /\ v.pc = p /\ v.snap = w.snap /\ v.facts = w.facts /\ v.why = w.why
        /\ v.token = w.token
    <2>1. p \in Places
      BY DEF Places
    <2> QED BY <1>1, <2>1, PcFacts
  <1>3. PlaceOk(t, "execute", v)
    BY <1>2 DEF CallOk, PlaceOk, Midway, Holding
  <1>4. FactsOk(t, v) /\ LeaseOk(t, v)
    BY <1>2 DEF CallOk, FactsOk, LeaseOk, HoldsLease
  <1> QED BY <1>1, <1>2, <1>3, <1>4 DEF CallOk

\* A call may ask for a transition to what it knows.
LEMMA AskOk ==
  ASSUME NEW t \in Txns, NEW r \in Roles, NEW w \in Worker, CallOk(t, r, w),
         w.pc \in Holding, NEW s \in TransactionStates, NEW c \in 0..Members,
         NEW p \in {"member", "recorded", "resume", "finish", "raise"},
         1..c \subseteq reached[t],
         s = "interrupted" => c < Members, s = "published" => c = Members,
         p = "member" => s = "publishing" /\ c < Members,
         p = "recorded" => s = "publishing",
         p = "resume" => s = "interrupted",
         p = "finish" /\ r = "execute" => s = "published",
         r = "reconcile" => p \in {"finish", "raise"}
  PROVE  Ask(w, s, c, p) \in Worker /\ CallOk(t, r, Ask(w, s, c, p))
  <1>1. PICK v : v = Ask(w, s, c, p)
    OBVIOUS
  <1>2. /\ v \in Worker /\ v.pc = "advance" /\ v.then = p
        /\ v.want.state = s /\ v.want.cursor = c
        /\ v.snap = w.snap /\ v.facts = w.facts /\ v.why = w.why /\ v.token = w.token
    <2>1. p \in Places
      BY DEF Places
    <2> QED BY <1>1, <2>1, AskFacts
  <1>3. WantOk(t, r, v)
    BY <1>2 DEF WantOk, Proper
  <1>4. PlaceOk(t, r, v)
    BY <1>2, <1>3 DEF CallOk, PlaceOk, Midway, Holding
  <1>5. FactsOk(t, v) /\ (r = "execute" => LeaseOk(t, v))
    BY <1>2 DEF CallOk, FactsOk, LeaseOk, HoldsLease
  <1> QED BY <1>1, <1>2, <1>4, <1>5 DEF CallOk

\* A call may begin to reconcile.
LEMMA ObserveOk ==
  ASSUME IInv, NEW t \in Txns, NEW r \in Roles, NEW w \in Worker, Recorded(t), FactsOk(t, w),
         r = "execute" => LeaseOk(t, w) /\ w.pc \in Holding,
         NEW why \in {"resume", "repair", "recover"}, why = "recover" <=> r = "reconcile"
  PROVE  StartObserving(w, t, why) \in Worker /\ CallOk(t, r, StartObserving(w, t, why))
  <1> USE DEF IInv
  <1>1. PICK v : v = StartObserving(w, t, why)
    OBVIOUS
  <1>2. /\ v \in Worker /\ v.snap = record[t] /\ v.why = why /\ v.token = w.token
        /\ v.facts \in {w.facts, <<>>}
        /\ v.pc = IF record[t].state \in TerminalStates THEN Continue(why, record[t].state) ELSE "observe"
        /\ v.pc = "observe" => v.facts = <<>>
    BY <1>1, ObserveFacts
  <1>3. /\ v.pc \in {"observe", "finish", "raise"} 
        /\ v.pc = "finish" /\ r = "execute" => v.snap.state = "published"
        /\ r = "reconcile" => v.pc \in {"observe", "finish"}
    BY <1>2 DEF Continue, TerminalStates, Roles
  <1>4. PlaceOk(t, r, v)
    BY <1>2, <1>3 DEF PlaceOk, Midway, LedgerInv, Roles
  <1>5. FactsOk(t, v)
    <2>1. Len(<<>>) = 0 /\ 0 <= Members
      BY MembersAssumption
    <2> QED BY <1>2, <2>1 DEF FactsOk
  <1>6. r = "execute" => LeaseOk(t, v)
    BY <1>2, <1>3 DEF LeaseOk, HoldsLease, Holding
  <1> QED BY <1>1, <1>2, <1>4, <1>5, <1>6 DEF CallOk

-----------------------------------------------------------------------------
(* Steps of a call that leave the stores and the files alone *)

LEMMA RaiseStep ==
  ASSUME IInv, NEW t \in Txns, NEW r \in Roles, worker[t][r].pc # "idle", Goto(t, r, "raise"),
         UNCHANGED <<files, plan, record, lease, router, history, faults>>
  PROVE  IInv'
  <1>1. PICK v : v = [worker[t][r] EXCEPT !.pc = "raise"]
    OBVIOUS
  <1>2. v \in Worker /\ CallOk(t, r, v)
    BY <1>1, MyCall, RaiseOk
  <1> QED BY <1>1, <1>2, CallStep DEF Goto

LEMMA PublishNextStep ==
  ASSUME IInv, NEW t \in Txns, PublishNext(t)
  PROVE  IInv'
  <1>0. "execute" \in Roles
    BY DEF Roles
  <1>1. PICK w : w = worker[t]["execute"]
    OBVIOUS
  <1>2. w \in Worker /\ CallOk(t, "execute", w) /\ w.pc = "next" /\ Recorded(t)
    BY <1>0, <1>1, MyCall DEF PublishNext, CallOk, PlaceOk
  <1>3. UNCHANGED <<files, plan, record, lease, router, history, faults>>
    BY DEF PublishNext
  <1>4. record[t] \in Record
    BY DEF IInv, TypeOK
  <1>5. PICK l : l = [w EXCEPT !.snap = record[t]]
    OBVIOUS
  <1>6. /\ l \in Worker /\ l.snap = record[t] /\ l.facts = w.facts /\ l.why = w.why
        /\ l.token = w.token /\ l.pc = "next"
    BY <1>2, <1>4, <1>5 DEF Worker
  <1>7. CallOk(t, "execute", l)
    <2>1. PlaceOk(t, "execute", l)
      BY <1>2, <1>6 DEF CallOk, PlaceOk, IInv, LedgerInv, Midway
    <2>2. FactsOk(t, l) /\ LeaseOk(t, l)
      BY <1>2, <1>6 DEF CallOk, FactsOk, LeaseOk, HoldsLease, Holding
    <2> QED BY <2>1, <2>2 DEF CallOk
  <1>8. CASE record[t].state = "published" /\ SetWorker(t, "execute", [l EXCEPT !.pc = "finish"])
    <2>1. PICK v : v = [l EXCEPT !.pc = "finish"]
      OBVIOUS
    <2>2. /\ v \in Worker /\ v.pc = "finish" /\ v.snap = l.snap /\ v.facts = l.facts
          /\ v.why = l.why /\ v.token = l.token
      BY <1>6, <2>1, PcFacts DEF Places
    <2>3. CallOk(t, "execute", v)
      BY <1>2, <1>6, <1>7, <1>8, <2>2 DEF CallOk, PlaceOk, FactsOk, LeaseOk, HoldsLease, Holding, Midway
    <2> QED BY <1>0, <1>3, <1>8, <2>1, <2>2, <2>3, CallStep
  <1>9. CASE SetWorker(t, "execute", [l EXCEPT !.pc = "raise"])
    <2>1. PICK v : v = [l EXCEPT !.pc = "raise"]
      OBVIOUS
    <2>2. v \in Worker /\ CallOk(t, "execute", v)
      BY <1>0, <1>6, <1>7, <2>1, RaiseOk
    <2> QED BY <1>0, <1>3, <1>9, <2>1, <2>2, CallStep
  <1>10. CASE SetWorker(t, "execute", [l EXCEPT !.pc = "verify", !.facts = <<>>])
    <2>1. PICK v : v = [l EXCEPT !.pc = "verify", !.facts = <<>>]
      OBVIOUS
    <2>2. /\ v \in Worker /\ v.pc = "verify" /\ v.snap = l.snap /\ v.facts = <<>>
          /\ v.why = l.why /\ v.token = l.token
      <3>1. "verify" \in Places /\ <<>> \in Seq(Contents)
        BY DEF Places
      <3> QED BY <1>6, <2>1, <3>1 DEF Worker
    <2>3. Len(v.facts) <= Members
      BY <2>2, MembersAssumption
    <2>4. CallOk(t, "execute", v)
      BY <1>2, <1>6, <1>7, <2>2, <2>3 DEF CallOk, PlaceOk, FactsOk, LeaseOk, HoldsLease, Holding, Midway
    <2> QED BY <1>0, <1>3, <1>10, <2>1, <2>2, <2>4, CallStep
  <1>11. CASE SetWorker(t, "execute", StartObserving(w, t, "resume"))
    <2>1. PICK v : v = StartObserving(w, t, "resume")
      OBVIOUS
    <2>2. v \in Worker /\ CallOk(t, "execute", v)
      BY <1>0, <1>2, <2>1, ObserveOk DEF CallOk, Holding
    <2> QED BY <1>0, <1>3, <1>11, <2>1, <2>2, CallStep
  <1> QED BY <1>1, <1>5, <1>8, <1>9, <1>10, <1>11 DEF PublishNext

LEMMA AskStep ==
  ASSUME IInv, NEW t \in Txns, NEW r \in Roles, NEW s, NEW c, NEW p,
         SetWorker(t, r, Ask(worker[t][r], s, c, p)),
         Ask(worker[t][r], s, c, p) \in Worker, CallOk(t, r, Ask(worker[t][r], s, c, p)),
         UNCHANGED <<files, plan, record, lease, router, history, faults>>
  PROVE  IInv'
  <1>1. PICK v : v = Ask(worker[t][r], s, c, p)
    OBVIOUS
  <1> QED BY <1>1, CallStep

LEMMA VerifyResumeStep ==
  ASSUME IInv, NEW t \in Txns, VerifySources(t) \/ Resume(t)
  PROVE  IInv'
  <1>0. "execute" \in Roles /\ "publishing" \in TransactionStates
    BY DEF Roles, TransactionStates
  <1>1. PICK w : w = worker[t]["execute"]
    OBVIOUS
  <1>2. w \in Worker /\ CallOk(t, "execute", w) /\ w.pc \in {"verify", "resume"}
    BY <1>0, <1>1, MyCall DEF VerifySources, Resume
  <1>3. UNCHANGED <<files, plan, record, lease, router, history, faults>>
    BY DEF VerifySources, Resume
  <1>4. ASSUME NEW c \in 0..Members, c < Members, 1..c \subseteq reached[t],
               SetWorker(t, "execute", Ask(w, "publishing", c, "member"))
        PROVE  IInv'
    <2>1. Ask(w, "publishing", c, "member") \in Worker
          /\ CallOk(t, "execute", Ask(w, "publishing", c, "member"))
      BY <1>0, <1>2, <1>4, AskOk DEF Holding
    <2> QED BY <1>0, <1>1, <1>3, <1>4, <2>1, AskStep
  <1>5. CASE Resume(t)
    <2>1. w.snap.cursor \in 0..Members /\ w.snap.cursor < Members /\ 1..w.snap.cursor \subseteq reached[t]
      BY <1>1, <1>2, <1>5, WorkerFacts, RecordFacts DEF Resume, CallOk, PlaceOk, Proper
    <2> QED BY <1>1, <1>4, <1>5, <2>1 DEF Resume
  <1>6. CASE VerifySources(t)
    <2>1. 0 \in 0..Members /\ 0 < Members /\ 1..0 \subseteq reached[t]
      BY MembersAssumption
    <2>2. CASE SetWorker(t, "execute", [w EXCEPT !.pc = "raise"])
      BY <1>0, <1>1, <1>2, <1>3, <2>2, RaiseStep DEF Goto
    <2> QED BY <1>1, <1>4, <1>6, <2>1, <2>2 DEF VerifySources
  <1> QED BY <1>5, <1>6

LEMMA LookStep ==
  ASSUME IInv, NEW t \in Txns, LookAtMember(t)
  PROVE  IInv'
  <1>0. "execute" \in Roles /\ {"publishing", "diverged"} \subseteq TransactionStates
    BY DEF Roles, TransactionStates
  <1>1. PICK w : w = worker[t]["execute"]
    OBVIOUS
  <1>2. /\ w \in Worker /\ CallOk(t, "execute", w) /\ w.pc = "member" /\ Recorded(t)
        /\ w.snap.state = "publishing" /\ w.snap.cursor < Members
        /\ 1..w.snap.cursor \subseteq reached[t]
    BY <1>0, <1>1, MyCall DEF LookAtMember, CallOk, PlaceOk, Midway
  <1>3. UNCHANGED <<files, plan, record, lease, router, history, faults>>
    BY DEF LookAtMember
  <1>4. PICK i : i = w.snap.cursor + 1
    OBVIOUS
  <1>5. /\ w.snap.cursor \in 0..Members /\ i \in 0..Members /\ i \in Files
        /\ 1..i \subseteq 1..w.snap.cursor \cup {i}
    BY <1>2, <1>4, WorkerFacts, RecordFacts, MembersAssumption DEF Files
  <1>6. CASE Goto(t, "execute", "raise")
    BY <1>0, <1>1, <1>2, <1>3, <1>6, RaiseStep
  <1>7. CASE files[i] = After(t, i) /\ SetWorker(t, "execute", Ask(w, "publishing", i, "recorded"))
    <2>1. 1..i \subseteq reached[t]
      BY <1>2, <1>5, <1>7 DEF IInv, LedgerInv
    <2>2. Ask(w, "publishing", i, "recorded") \in Worker
          /\ CallOk(t, "execute", Ask(w, "publishing", i, "recorded"))
      BY <1>0, <1>2, <1>5, <2>1, AskOk DEF Holding, Midway
    <2> QED BY <1>0, <1>1, <1>3, <1>7, <2>2, AskStep
  <1>8. CASE SetWorker(t, "execute", Ask(w, "diverged", w.snap.cursor, "raise"))
    <2>1. Ask(w, "diverged", w.snap.cursor, "raise") \in Worker
          /\ CallOk(t, "execute", Ask(w, "diverged", w.snap.cursor, "raise"))
      BY <1>0, <1>2, <1>5, AskOk DEF Holding, Midway
    <2> QED BY <1>0, <1>1, <1>3, <1>8, <2>1, AskStep
  <1>9. CASE SetWorker(t, "execute", [w EXCEPT !.pc = "apply"])
    <2>1. PICK v : v = [w EXCEPT !.pc = "apply"]
      OBVIOUS
    <2>2. v \in Worker /\ CallOk(t, "execute", v)
      BY <1>2, <2>1, MoveOk DEF Holding, Midway
    <2> QED BY <1>0, <1>3, <1>9, <2>1, <2>2, CallStep
  <1> QED BY <1>1, <1>4, <1>6, <1>7, <1>8, <1>9 DEF LookAtMember

\* Whatever fails makes the call reconcile, and then raise.
LEMMA RepairStep ==
  ASSUME IInv, NEW t \in Txns, worker[t]["execute"].pc \in Midway,
         SetWorker(t, "execute", StartObserving(worker[t]["execute"], t, "repair")),
         UNCHANGED <<files, plan, record, lease, router, history, faults>>
  PROVE  IInv'
  <1>0. "execute" \in Roles
    BY DEF Roles
  <1>1. PICK w : w = worker[t]["execute"]
    OBVIOUS
  <1>2. w \in Worker /\ CallOk(t, "execute", w)
    BY <1>0, <1>1, MyCall
  <1>3. PICK v : v = StartObserving(w, t, "repair")
    OBVIOUS
  <1>4. Recorded(t) /\ FactsOk(t, w) /\ LeaseOk(t, w) /\ w.pc \in Holding
    BY <1>1, <1>2 DEF CallOk, PlaceOk, Holding, Midway
  <1>5. v \in Worker /\ CallOk(t, "execute", v)
    BY <1>0, <1>2, <1>3, <1>4, ObserveOk
  <1> QED BY <1>0, <1>1, <1>3, <1>5, CallStep

LEMMA ApplyStep ==
  ASSUME IInv, NEW t \in Txns, ApplyChecks(t)
  PROVE  IInv'
  <1>0. "execute" \in Roles
    BY DEF Roles
  <1>1. PICK w : w = worker[t]["execute"]
    OBVIOUS
  <1>2. /\ w \in Worker /\ CallOk(t, "execute", w) /\ w.pc = "apply"
        /\ w.snap.state = "publishing" /\ w.snap.cursor < Members
    BY <1>0, <1>1, MyCall DEF ApplyChecks, CallOk, PlaceOk, Midway
  <1>3. UNCHANGED <<files, plan, record, lease, router, history, faults>>
    BY DEF ApplyChecks
  <1>4. CASE files[w.snap.cursor + 1] = plan[t][w.snap.cursor + 1] /\ Goto(t, "execute", "replace")
    <2>1. PICK v : v = [w EXCEPT !.pc = "replace"]
      OBVIOUS
    <2>2. v \in Worker /\ CallOk(t, "execute", v)
      BY <1>2, <1>4, <2>1, MoveOk DEF Holding, Midway
    <2> QED BY <1>0, <1>1, <1>3, <1>4, <2>1, <2>2, CallStep DEF Goto
  <1>5. CASE SetWorker(t, "execute", StartObserving(w, t, "repair"))
    BY <1>1, <1>2, <1>3, <1>5, RepairStep DEF Midway
  <1> QED BY <1>1, <1>4, <1>5 DEF ApplyChecks

LEMMA ProveStep ==
  ASSUME IInv, NEW t \in Txns, ProveMember(t)
  PROVE  IInv'
  <1>0. "execute" \in Roles /\ {"publishing", "unknown"} \subseteq TransactionStates
    BY DEF Roles, TransactionStates
  <1>1. PICK w : w = worker[t]["execute"]
    OBVIOUS
  <1>2. /\ w \in Worker /\ CallOk(t, "execute", w) /\ w.pc = "proved" /\ Recorded(t)
        /\ w.snap.state = "publishing" /\ w.snap.cursor < Members
        /\ 1..w.snap.cursor \subseteq reached[t]
    BY <1>0, <1>1, MyCall DEF ProveMember, CallOk, PlaceOk, Midway
  <1>3. UNCHANGED <<files, plan, record, lease, router, history, faults>>
    BY DEF ProveMember
  <1>4. PICK i : i = w.snap.cursor + 1
    OBVIOUS
  <1>5. /\ w.snap.cursor \in 0..Members /\ i \in 0..Members /\ i \in Files
        /\ 1..i \subseteq 1..w.snap.cursor \cup {i}
    BY <1>2, <1>4, WorkerFacts, RecordFacts, MembersAssumption DEF Files
  <1>6. CASE Goto(t, "execute", "raise")
    BY <1>0, <1>1, <1>2, <1>3, <1>6, RaiseStep
  <1>7. CASE files[i] = After(t, i) /\ SetWorker(t, "execute", Ask(w, "publishing", i, "recorded"))
    <2>1. 1..i \subseteq reached[t]
      BY <1>2, <1>5, <1>7 DEF IInv, LedgerInv
    <2>2. Ask(w, "publishing", i, "recorded") \in Worker
          /\ CallOk(t, "execute", Ask(w, "publishing", i, "recorded"))
      BY <1>0, <1>2, <1>5, <2>1, AskOk DEF Holding, Midway
    <2> QED BY <1>0, <1>1, <1>3, <1>7, <2>2, AskStep
  <1>8. CASE SetWorker(t, "execute", Ask(w, "unknown", w.snap.cursor, "raise"))
    <2>1. Ask(w, "unknown", w.snap.cursor, "raise") \in Worker
          /\ CallOk(t, "execute", Ask(w, "unknown", w.snap.cursor, "raise"))
      BY <1>0, <1>2, <1>5, AskOk DEF Holding, Midway
    <2> QED BY <1>0, <1>1, <1>3, <1>8, <2>1, AskStep
  <1>9. CASE SetWorker(t, "execute", StartObserving(w, t, "repair"))
    BY <1>1, <1>2, <1>3, <1>9, RepairStep DEF Midway
  <1> QED BY <1>1, <1>4, <1>6, <1>7, <1>8, <1>9 DEF ProveMember

LEMMA RecordedStep ==
  ASSUME IInv, NEW t \in Txns, MemberRecorded(t)
  PROVE  IInv'
  <1>0. "execute" \in Roles /\ "published" \in TransactionStates /\ Members \in 0..Members
    BY MembersAssumption DEF Roles, TransactionStates
  <1>1. PICK w : w = worker[t]["execute"]
    OBVIOUS
  <1>2. /\ w \in Worker /\ CallOk(t, "execute", w) /\ w.pc = "recorded"
        /\ 1..w.snap.cursor \subseteq reached[t]
    BY <1>0, <1>1, MyCall DEF MemberRecorded, CallOk, PlaceOk
  <1>3. UNCHANGED <<files, plan, record, lease, router, history, faults>>
    BY DEF MemberRecorded
  <1>4. CASE w.snap.cursor = Members /\ SetWorker(t, "execute", Ask(w, "published", Members, "finish"))
    <2>1. Ask(w, "published", Members, "finish") \in Worker
          /\ CallOk(t, "execute", Ask(w, "published", Members, "finish"))
      BY <1>0, <1>2, <1>4, AskOk DEF Holding
    <2> QED BY <1>0, <1>1, <1>3, <1>4, <2>1, AskStep
  <1>5. CASE SetWorker(t, "execute", [w EXCEPT !.pc = "next"])
    <2>1. PICK v : v = [w EXCEPT !.pc = "next"]
      OBVIOUS
    <2>2. v \in Worker /\ CallOk(t, "execute", v)
      BY <1>2, <2>1, MoveOk DEF Holding
    <2> QED BY <1>0, <1>3, <1>5, <2>1, <2>2, CallStep
  <1> QED BY <1>1, <1>4, <1>5 DEF MemberRecorded

LEMMA ObserveStep ==
  ASSUME IInv, NEW t \in Txns, NEW r \in Roles, ObserveMember(t, r)
  PROVE  IInv'
  <1>1. PICK w : w = worker[t][r]
    OBVIOUS
  <1>2. /\ w \in Worker /\ CallOk(t, r, w) /\ w.pc \in {"observe", "verify"} /\ Recorded(t)
        /\ w.facts \in Seq(Contents) /\ Len(w.facts) < Members
    BY <1>1, MyCall, WorkerFacts DEF ObserveMember, CallOk, PlaceOk
  <1>3. UNCHANGED <<files, plan, record, lease, router, history, faults>>
    BY DEF ObserveMember
  <1>4. CASE Goto(t, r, "raise")
    BY <1>1, <1>2, <1>3, <1>4, RaiseStep
  <1>5. CASE SetWorker(t, r, [w EXCEPT !.facts = Append(@, files[Len(@) + 1])])
    <2>1. PICK n \in Files : n = Len(w.facts) + 1
      BY <1>2, MembersAssumption DEF Files
    <2>2. PICK f \in Seq(Contents) : f = Append(w.facts, files[n])
      <3>1. files[n] \in Contents
        BY DEF IInv, TypeOK
      <3> QED BY <1>2, <3>1, AppendProperties
    <2>3. PICK v : v = [w EXCEPT !.facts = f]
      OBVIOUS
    <2>4. /\ v \in Worker /\ v.pc = w.pc /\ v.snap = w.snap /\ v.facts = f
          /\ v.why = w.why /\ v.token = w.token
      BY <1>2, <2>3 DEF Worker
    <2>5. Len(f) = n /\ f[n] = files[n] /\ \A i \in 1..Len(w.facts) : f[i] = w.facts[i]
      BY <1>2, <2>1, <2>2 DEF IInv, TypeOK
    <2>6. FactsOk(t, v)
      <3>1. Len(f) <= Members
        BY <2>1, <2>5, MembersAssumption DEF Files
      <3>2. ASSUME w.pc = "observe", NEW i \in 1..Len(f), f[i] = After(t, i) PROVE i \in reached[t]
        <4>1. CASE i = n
          BY <1>2, <2>1, <2>5, <3>2, <4>1 DEF IInv, LedgerInv
        <4>2. CASE i \in 1..Len(w.facts)
          BY <1>2, <2>5, <3>2, <4>2 DEF CallOk, FactsOk
        <4>3. i = n \/ i \in 1..Len(w.facts)
          BY <1>2, <2>1, <2>5, LenProperties
        <4> QED BY <4>1, <4>2, <4>3
      <3> QED BY <2>4, <3>1, <3>2 DEF FactsOk
    <2>7. CallOk(t, r, v)
      BY <1>2, <2>4, <2>6 DEF CallOk, PlaceOk, LeaseOk, HoldsLease, Midway
    <2>8. v = [w EXCEPT !.facts = Append(@, files[Len(@) + 1])]
      BY <2>1, <2>2, <2>3
    <2> QED BY <1>3, <1>5, <2>4, <2>7, <2>8, CallStep
  <1> QED BY <1>1, <1>4, <1>5 DEF ObserveMember

\* Where a call goes after its reconciliation.
LEMMA ContinueFacts ==
  ASSUME NEW why, NEW s
  PROVE  /\ Continue(why, s) \in {"finish", "resume", "raise"}
         /\ why # "recover" /\ Continue(why, s) = "finish" => s = "published"
         /\ why # "recover" /\ Continue(why, s) = "resume" => s = "interrupted"
         /\ why = "recover" => Continue(why, s) = "finish"
  BY DEF Continue

LEMMA ConcludeStep ==
  ASSUME IInv, NEW t \in Txns, NEW r \in Roles, Conclude(t, r)
  PROVE  IInv'
  <1>0. {"published", "diverged", "interrupted"} \subseteq TransactionStates
    BY DEF TransactionStates
  <1>1. PICK w : w = worker[t][r]
    OBVIOUS
  <1>2. /\ w \in Worker /\ CallOk(t, r, w) /\ w.pc = "observe" /\ Len(w.facts) = Members
        /\ 1..w.snap.cursor \subseteq reached[t] /\ w.snap.cursor \in 0..Members
        /\ r = "execute" <=> w.why # "recover"
    BY <1>1, MyCall, WorkerFacts, RecordFacts DEF Conclude, CallOk, PlaceOk, Roles
  <1>3. UNCHANGED <<files, plan, record, lease, router, history, faults>>
    BY DEF Conclude
  <1>4. PICK after : after = {i \in Files : w.facts[i] = After(t, i)}
    OBVIOUS
  <1>5. after \subseteq Files /\ after \subseteq reached[t]
    BY <1>2, <1>4 DEF CallOk, FactsOk, Files
  <1>6. PICK count \in Nat : count = Cardinality(after)
    <2>1. IsFiniteSet(Files)
      BY FS_Interval, MembersAssumption DEF Files
    <2>2. IsFiniteSet(after)
      BY <1>5, <2>1, FS_Subset
    <2> QED BY <2>2, FS_CardinalityType
  <1>7. ASSUME NEW s \in {"published", "diverged", "interrupted"}, NEW c \in 0..Members,
               1..c \subseteq reached[t], s = "interrupted" => c < Members, s = "published" => c = Members,
               SetWorker(t, r, Ask(w, s, c, Continue(w.why, s)))
        PROVE  IInv'
    <2>1. PICK p \in {"finish", "resume", "raise"} : p = Continue(w.why, s)
      BY ContinueFacts
    <2>2. /\ p = "finish" /\ r = "execute" => s = "published"
          /\ p = "resume" => s = "interrupted"
          /\ r = "reconcile" => p = "finish"
      BY <1>2, <2>1, ContinueFacts DEF Roles
    <2>3. Ask(w, s, c, p) \in Worker /\ CallOk(t, r, Ask(w, s, c, p))
      BY <1>0, <1>2, <1>7, <2>2, AskOk DEF Holding
    <2> QED BY <1>1, <1>3, <1>7, <2>1, <2>3, AskStep
  <1>8. CASE SetWorker(t, r, [w EXCEPT !.pc = Continue(w.why, w.snap.state)])
    <2>1. PICK p \in {"finish", "resume", "raise"} : p = Continue(w.why, w.snap.state)
      BY ContinueFacts
    <2>2. PICK v : v = [w EXCEPT !.pc = p]
      OBVIOUS
    <2>3. /\ v \in Worker /\ v.pc = p /\ v.snap = w.snap /\ v.facts = w.facts /\ v.why = w.why
          /\ v.token = w.token
      <3>1. p \in Places
        BY DEF Places
      <3> QED BY <1>2, <2>2, <3>1, PcFacts
    <2>4. /\ p = "finish" /\ r = "execute" => w.snap.state = "published"
          /\ p = "resume" => w.snap.state = "interrupted"
          /\ r = "reconcile" => p = "finish"
      BY <1>2, <2>1, ContinueFacts DEF Roles
    <2>5. PlaceOk(t, r, v)
      BY <1>2, <2>3, <2>4 DEF CallOk, PlaceOk, Midway
    <2>6. FactsOk(t, v) /\ (r = "execute" => LeaseOk(t, v))
      BY <1>2, <2>3 DEF CallOk, FactsOk, LeaseOk, HoldsLease, Holding, Midway
    <2>7. CallOk(t, r, v)
      BY <2>5, <2>6 DEF CallOk
    <2> QED BY <1>3, <1>8, <2>1, <2>2, <2>3, <2>7, CallStep
  <1>9. CASE after = Files
    <2>1. 0 \in 0..Members /\ Members \in 0..Members /\ 1..0 \subseteq reached[t]
          /\ 1..Members \subseteq reached[t]
      BY <1>5, <1>9, MembersAssumption DEF Files
    <2>2. SetWorker(t, r, IF w.snap.state = "prepared" THEN Ask(w, "diverged", 0, Continue(w.why, "diverged"))
                          ELSE Ask(w, "published", Members, Continue(w.why, "published")))
      BY <1>1, <1>4, <1>9 DEF Conclude, Conclusion
    <2> QED BY <1>7, <2>1, <2>2
  <1>10. CASE after # Files /\ after # 1..count
    <2>1. SetWorker(t, r, Ask(w, "diverged", w.snap.cursor, Continue(w.why, "diverged")))
      BY <1>1, <1>4, <1>6, <1>10 DEF Conclude, Conclusion
    <2> QED BY <1>2, <1>7, <2>1
  <1>11. CASE after # Files /\ after = 1..count
    <2>1. count \in 0..Members /\ count < Members /\ 1..count \subseteq reached[t]
      <3>1. count < Members
        <4> SUFFICES ASSUME count >= Members PROVE FALSE
          BY MembersAssumption
        <4>1. Files \subseteq after
          BY <1>11, MembersAssumption DEF Files
        <4> QED BY <1>5, <1>11, <4>1
      <3> QED BY <1>5, <1>11, <3>1, MembersAssumption
    <2>2. \/ SetWorker(t, r, Ask(w, "diverged", w.snap.cursor, Continue(w.why, "diverged")))
          \/ SetWorker(t, r, [w EXCEPT !.pc = Continue(w.why, w.snap.state)])
          \/ SetWorker(t, r, Ask(w, "interrupted", count, Continue(w.why, "interrupted")))
      BY <1>1, <1>4, <1>6, <1>11 DEF Conclude, Conclusion
    <2> QED BY <1>2, <1>7, <1>8, <2>1, <2>2
  <1> QED BY <1>9, <1>10, <1>11

-----------------------------------------------------------------------------
(* Steps that change a store, a route or a file *)

LEMMA AdvanceStep ==
  ASSUME IInv, NEW t \in Txns, NEW r \in Roles, Advance(t, r)
  PROVE  IInv'
  <1> USE DEF IInv
  <1>1. PICK w : w = worker[t][r]
    OBVIOUS
  <1>2. /\ w \in Worker /\ CallOk(t, r, w) /\ w.pc = "advance" /\ WantOk(t, r, w)
        /\ w.want \in Record /\ w.snap \in Record /\ w.then \in Places /\ Recorded(t)
    BY <1>1, MyCall, WorkerFacts DEF Advance, CallOk, PlaceOk
  <1>3. UNCHANGED <<files, plan, lease, router, history, faults>>
    BY DEF Advance
  <1>4. CASE Goto(t, r, "raise") /\ UNCHANGED record
    BY <1>1, <1>2, <1>3, <1>4, RaiseStep
  <1>5. CASE /\ record[t] = w.snap /\ w.want.state \in Transitions[w.snap.state]
             /\ record' = [record EXCEPT ![t] = w.want]
             /\ SetWorker(t, r, [w EXCEPT !.snap = w.want, !.pc = w.then])
    <2>0. UNCHANGED <<files, plan, lease, route, attempts, wrote, reached, raced, lapsed, edits, crashes>>
      BY <1>3 DEF router, history, faults
    <2>1. PICK v : v = [w EXCEPT !.snap = w.want, !.pc = w.then]
      OBVIOUS
    <2>2. /\ v \in Worker /\ v.pc = w.then /\ v.snap = w.want /\ v.facts = w.facts /\ v.why = w.why
          /\ v.token = w.token
      BY <1>2, <2>1 DEF Worker
    <2>3. /\ worker' \in [Txns -> [Roles -> Worker]]
          /\ \A u \in Txns : \A q \in Roles :
                worker'[u][q] = IF u = t /\ q = r THEN v ELSE worker[u][q]
      BY <1>5, <2>1, <2>2, SetWorkerFacts
    <2>4. /\ record' \in [Txns -> Record]
          /\ \A u \in Txns : record'[u] = IF u = t THEN w.want ELSE record[u]
      BY <1>2, <1>5 DEF TypeOK
    <2>5. w.want.state # "absent" /\ record[t].state \notin TerminalStates
      <3>1. w.snap.state \in TransactionStates
        BY <1>2, RecordFacts
      <3> QED BY <1>5, <3>1 DEF Transitions, TerminalStates, TransactionStates
    <2>6. TypeOK'
      BY <2>0, <2>3, <2>4 DEF TypeOK
    <2>7. \A u \in Txns : Recorded(u)' <=> Recorded(u)
      BY <1>2, <2>4, <2>5 DEF Recorded
    <2>8. LedgerInv'
      <3> SUFFICES ASSUME NEW u \in Txns PROVE LedgerInv!(u)'
        BY DEF LedgerInv
      <3>1. Proper(record[u])' /\ (1..record[u].cursor \subseteq reached[u])'
        BY <1>2, <2>0, <2>4 DEF LedgerInv, WantOk, Proper
      <3>2. RollbackOf[u] # NoTxn => RollbackOf[u] \in Txns
        BY TxnsAssumption
      <3>3. \A i \in Files : (After(u, i))' = After(u, i)
        BY <2>0 DEF After
      <3>4. (route[u] = "succeeded" => record[u].state = "published")'
        BY <2>0, <2>4, <2>5 DEF LedgerInv, TerminalStates
      <3> QED BY <2>0, <2>7, <3>1, <3>2, <3>3, <3>4 DEF LedgerInv
    <2>9. CallInv'
      <3> SUFFICES ASSUME NEW u \in Txns, NEW q \in Roles
                   PROVE  CallOk(u, q, worker[u][q])'
        BY DEF CallInv
      <3>1. CASE u = t /\ q = r
        <4>1. worker'[u][q] = v
          BY <2>3, <3>1
        <4>2. PlaceOk(t, r, v)'
          BY <1>2, <2>0, <2>2, <2>4, <2>7 DEF PlaceOk, CallOk, WantOk, Proper, Midway
        <4>3. FactsOk(t, v)' /\ (r = "execute" => LeaseOk(t, v)')
          BY <1>2, <2>0, <2>2 DEF FactsOk, LeaseOk, CallOk, WantOk, HoldsLease, Holding, Midway
        <4>4. CallOk(t, r, v)'
          BY <4>2, <4>3 DEF CallOk
        <4> QED BY <3>1, <4>1, <4>4
      <3>2. CASE ~(u = t /\ q = r)
        <4>1. PICK x : x = worker[u][q]
          OBVIOUS
        <4>2. worker'[u][q] = x /\ CallOk(u, q, x)
          BY <2>3, <3>2, <4>1, MyCall
        <4>3. x.snap.state \in TerminalStates => x.snap = record'[u]
          BY <2>4, <2>5, <4>2 DEF CallOk, PlaceOk
        <4>4. PlaceOk(u, q, x)'
          BY <2>0, <2>7, <4>2, <4>3 DEF CallOk, PlaceOk, WantOk, Proper
        <4>5. FactsOk(u, x)' /\ (q = "execute" => LeaseOk(u, x)')
          BY <2>0, <4>2 DEF CallOk, FactsOk, LeaseOk, HoldsLease, After
        <4>6. CallOk(u, q, x)'
          BY <4>4, <4>5 DEF CallOk
        <4> QED BY <4>2, <4>6
      <3> QED BY <3>1, <3>2
    <2> QED BY <2>6, <2>8, <2>9
  <1> QED BY <1>1, <1>4, <1>5 DEF Advance

\* What the call of another step needs of a step, to stay as it is.
LEMMA OtherCall ==
  ASSUME NEW u \in Txns, NEW q \in Roles, NEW x \in Worker, CallOk(u, q, x),
         UNCHANGED <<plan, record>>, reached[u] \subseteq reached'[u],
         q = "execute" => LeaseOk(u, x)'
  PROVE  CallOk(u, q, x)'
  <1>1. PlaceOk(u, q, x)'
    BY DEF CallOk, PlaceOk, WantOk, Proper, Recorded
  <1>2. FactsOk(u, x)'
    BY DEF CallOk, FactsOk, After
  <1> QED BY <1>1, <1>2 DEF CallOk

\* A step of a call that changes its route and the lease.
LEMMA RouteLeaseStep ==
  ASSUME IInv, UNCHANGED <<files, plan, record, history, faults>>,
         lease' \in [owner : Txns \cup {NoTxn}, token : Nat, live : BOOLEAN],
         worker' \in [Txns -> [Roles -> Worker]],
         route' \in [Txns -> RouteStates], attempts' \in [Txns -> 0..MaxReconcile],
         \A u \in Txns : /\ route'[u] # "ready" => Recorded(u)
                         /\ route'[u] = "succeeded" => record[u].state = "published",
         \A u \in Txns : \A q \in Roles : CallOk(u, q, worker'[u][q]),
         \A u \in Txns : LeaseOk(u, worker[u]["execute"])'
  PROVE  IInv'
  <1> USE DEF IInv
  <1>0. UNCHANGED <<files, plan, record, wrote, reached, raced, lapsed, edits, crashes>>
    BY DEF history, faults
  <1>1. TypeOK'
    BY <1>0 DEF TypeOK
  <1>2. LedgerInv'
    BY <1>0 DEF LedgerInv, Proper, Recorded, After
  <1>3. CallInv'
    <2> SUFFICES ASSUME NEW u \in Txns, NEW q \in Roles
                 PROVE  CallOk(u, q, worker[u][q])'
      BY DEF CallInv
    <2>1. PICK x \in Worker : x = worker'[u][q] /\ CallOk(u, q, x)
      OBVIOUS
    <2>2. q = "execute" => LeaseOk(u, x)'
      BY <2>1
    <2>3. CallOk(u, q, x)'
      BY <1>0, <2>1, <2>2, OtherCall
    <2> QED BY <2>1, <2>3
  <1> QED BY <1>1, <1>2, <1>3

\* A step of a call that changes its route.
LEMMA RouteStep ==
  ASSUME IInv, UNCHANGED <<files, plan, record, lease, history, faults>>,
         worker' \in [Txns -> [Roles -> Worker]],
         route' \in [Txns -> RouteStates], attempts' \in [Txns -> 0..MaxReconcile],
         \A u \in Txns : /\ route'[u] # "ready" => Recorded(u)
                         /\ route'[u] = "succeeded" => record[u].state = "published",
         \A u \in Txns : \A q \in Roles : CallOk(u, q, worker'[u][q])
  PROVE  IInv'
  <1>1. lease' \in [owner : Txns \cup {NoTxn}, token : Nat, live : BOOLEAN]
    BY DEF IInv, TypeOK
  <1>2. ASSUME NEW u \in Txns PROVE LeaseOk(u, worker[u]["execute"])'
    <2>1. PICK x : x = worker'[u]["execute"]
      OBVIOUS
    <2>2. LeaseOk(u, x)
      BY <2>1 DEF CallOk, Roles
    <2>3. LeaseOk(u, x)'
      BY <2>2 DEF LeaseOk, HoldsLease, history
    <2> QED BY <2>1, <2>3
  <1> QED BY <1>1, <1>2, RouteLeaseStep

LEMMA IdleOk ==
  ASSUME NEW t \in Txns, NEW r \in Roles
  PROVE  CallOk(t, r, NoWorker)
  <1>1. NoRecord.cursor = 0 /\ NoRecord.state = "absent" /\ Len(<<>>) = 0 /\ 0 <= Members
        /\ 1..0 = {}
    BY MembersAssumption DEF NoRecord
  <1>2. PlaceOk(t, r, NoWorker)
    BY <1>1, NoWorkerFacts DEF PlaceOk, Proper, TerminalStates, Midway
  <1>3. FactsOk(t, NoWorker) /\ LeaseOk(t, NoWorker)
    BY <1>1, NoWorkerFacts DEF FactsOk, LeaseOk, Holding, Midway
  <1> QED BY <1>2, <1>3 DEF CallOk

LEMMA ExecuteStep ==
  ASSUME IInv, NEW t \in Txns, Execute(t)
  PROVE  IInv'
  <1> USE DEF IInv
  <1>0. "execute" \in Roles /\ "acquire" \in Places /\ Recorded(t)
    BY DEF Roles, Places, Execute, Recorded
  <1>1. PICK w : w = worker[t]["execute"]
    OBVIOUS
  <1>2. w \in Worker /\ CallOk(t, "execute", w)
    BY <1>0, <1>1, MyCall
  <1>3. PICK v : v = [w EXCEPT !.pc = "acquire"]
    OBVIOUS
  <1>4. /\ v \in Worker /\ v.pc = "acquire" /\ v.snap = w.snap /\ v.facts = w.facts /\ v.why = w.why
    BY <1>0, <1>2, <1>3, PcFacts
  <1>5. CallOk(t, "execute", v)
    BY <1>0, <1>2, <1>4 DEF CallOk, PlaceOk, FactsOk, LeaseOk, Holding, Midway
  <1>6. /\ worker' \in [Txns -> [Roles -> Worker]]
        /\ \A u \in Txns : \A q \in Roles :
              worker'[u][q] = IF u = t /\ q = "execute" THEN v ELSE worker[u][q]
    <2>1. SetWorker(t, "execute", v)
      BY <1>1, <1>3 DEF Execute, Goto
    <2> QED BY <1>0, <1>4, <2>1, SetWorkerFacts
  <1>7. /\ route' \in [Txns -> RouteStates]
        /\ \A u \in Txns : route'[u] = IF u = t THEN "running" ELSE route[u]
    BY DEF Execute, TypeOK, RouteStates
  <1>8. \A u \in Txns : \A q \in Roles : CallOk(u, q, worker'[u][q])
    BY <1>5, <1>6, MyCall
  <1>9. \A u \in Txns : /\ route'[u] # "ready" => Recorded(u)
                        /\ route'[u] = "succeeded" => record[u].state = "published"
    BY <1>0, <1>7 DEF LedgerInv
  <1>10. UNCHANGED <<files, plan, record, lease, history, faults>> /\ attempts' \in [Txns -> 0..MaxReconcile]
    BY DEF Execute, TypeOK
  <1> QED BY <1>6, <1>7, <1>8, <1>9, <1>10, RouteStep

LEMMA AcquireStep ==
  ASSUME IInv, NEW t \in Txns, Acquire(t)
  PROVE  IInv'
  <1> USE DEF IInv
  <1>0. "execute" \in Roles /\ "next" \in Places
    BY DEF Roles, Places
  <1>1. worker[t]["execute"].pc = "acquire" /\ Recorded(t)
    BY <1>0, MyCall DEF Acquire, CallOk, PlaceOk
  <1>2. UNCHANGED <<files, plan, record, router, history, faults>>
    BY DEF Acquire
  <1>3. CASE Goto(t, "execute", "raise") /\ UNCHANGED lease
    BY <1>0, <1>1, <1>2, <1>3, RaiseStep
  <1>4. CASE /\ ~(lease.owner # NoTxn /\ lease.live)
             /\ lease' = [owner |-> t, token |-> lease.token + 1, live |-> TRUE]
             /\ SetWorker(t, "execute", [NoWorker EXCEPT !.pc = "next", !.token = lease.token + 1])
    <2>1. PICK n \in Nat : n = lease.token + 1
      BY DEF TypeOK
    <2>2. PICK v : v = [NoWorker EXCEPT !.pc = "next", !.token = n]
      OBVIOUS
    <2>3. /\ v \in Worker /\ v.pc = "next" /\ v.snap = NoRecord /\ v.facts = <<>> /\ v.why = "resume"
          /\ v.token = n
      BY <1>0, <2>2, NoWorkerFacts DEF Worker
    <2>4. lease' = [owner |-> t, token |-> n, live |-> TRUE]
      BY <1>4, <2>1
    <2>5. lease' \in [owner : Txns \cup {NoTxn}, token : Nat, live : BOOLEAN]
      BY <2>4
    <2>6. /\ worker' \in [Txns -> [Roles -> Worker]]
          /\ \A u \in Txns : \A q \in Roles :
                worker'[u][q] = IF u = t /\ q = "execute" THEN v ELSE worker[u][q]
      BY <1>0, <1>4, <2>1, <2>2, <2>3, SetWorkerFacts
    <2>7. UNCHANGED <<files, plan, record, route, attempts, wrote, reached, raced, lapsed, edits, crashes>>
      BY <1>2 DEF router, history, faults
    <2>8. TypeOK'
      BY <2>5, <2>6, <2>7 DEF TypeOK
    <2>9. LedgerInv'
      BY <2>7 DEF LedgerInv, Proper, Recorded, After
    <2>10. CallInv'
      <3> SUFFICES ASSUME NEW u \in Txns, NEW q \in Roles
                   PROVE  CallOk(u, q, worker[u][q])'
        BY DEF CallInv
      <3>1. CASE u = t /\ q = "execute"
        <4>1. NoRecord.cursor = 0 /\ NoRecord.state = "absent" /\ Len(<<>>) = 0 /\ 0 <= Members
              /\ 1..0 = {}
          BY MembersAssumption DEF NoRecord
        <4>2. PlaceOk(t, "execute", v)'
          BY <1>1, <2>3, <2>7, <4>1 DEF PlaceOk, Proper, TerminalStates, Midway, Recorded
        <4>3. FactsOk(t, v)' /\ LeaseOk(t, v)'
          BY <2>3, <2>4, <4>1 DEF FactsOk, LeaseOk, HoldsLease
        <4>4. CallOk(t, "execute", v)'
          BY <4>2, <4>3 DEF CallOk
        <4> QED BY <2>6, <3>1, <4>4
      <3>2. CASE ~(u = t /\ q = "execute")
        <4>1. PICK x \in Worker : x = worker[u][q] /\ CallOk(u, q, x)
          BY MyCall
        <4>2. q = "execute" => LeaseOk(u, x)'
          <5> SUFFICES ASSUME q = "execute", ~lapsed, x.pc \in Holding PROVE FALSE
            BY <2>7 DEF LeaseOk, Holding, Midway
          <5>1. lease = [owner |-> u, token |-> x.token, live |-> TRUE]
            BY <4>1 DEF CallOk, LeaseOk, HoldsLease
          <5> QED BY <1>4, <5>1, TxnsAssumption
        <4>3. CallOk(u, q, x)'
          BY <2>7, <4>1, <4>2, OtherCall
        <4> QED BY <2>6, <3>2, <4>1, <4>3
      <3> QED BY <3>1, <3>2
    <2> QED BY <2>8, <2>9, <2>10
  <1> QED BY <1>3, <1>4 DEF Acquire

\* What complete_operation makes of the routes.
LEMMA CompleteFacts ==
  ASSUME IInv, NEW t \in Txns, NEW r \in Roles, NEW result \in RouteStates, result # "ready",
         Complete(t, r, result)
  PROVE  /\ route' \in [Txns -> RouteStates]
         /\ \A u \in Txns : route'[u] = route[u] \/ (u = t /\ route'[u] = result /\ route[u] # "ready")
  BY DEF IInv, TypeOK, Complete

LEMMA ExecuteEndsStep ==
  ASSUME IInv, NEW t \in Txns, ExecuteEnds(t)
  PROVE  IInv'
  <1> USE DEF IInv
  <1>0. "execute" \in Roles
    BY DEF Roles
  <1>1. PICK w : w = worker[t]["execute"]
    OBVIOUS
  <1>2. w \in Worker /\ CallOk(t, "execute", w) /\ w.pc \in {"finish", "raise", "next"}
    BY <1>0, <1>1, MyCall DEF ExecuteEnds
  <1>3. UNCHANGED <<files, plan, record, history, faults>> /\ attempts' \in [Txns -> 0..MaxReconcile]
    BY DEF ExecuteEnds, TypeOK
  <1>4. /\ worker' \in [Txns -> [Roles -> Worker]]
        /\ \A u \in Txns : \A q \in Roles :
              worker'[u][q] = IF u = t /\ q = "execute" THEN NoWorker ELSE worker[u][q]
    BY <1>0, NoWorkerFacts, SetWorkerFacts DEF ExecuteEnds
  <1>5. PICK result \in {"unknown", "succeeded"} :
           /\ Complete(t, "execute", result)
           /\ result = "succeeded" => w.pc = "finish"
    BY <1>1 DEF ExecuteEnds
  <1>6. /\ route' \in [Txns -> RouteStates]
        /\ \A u \in Txns : route'[u] = route[u] \/ (u = t /\ route'[u] = result /\ route[u] # "ready")
    BY <1>0, <1>5, CompleteFacts DEF RouteStates
  <1>7. \A u \in Txns : /\ route'[u] # "ready" => Recorded(u)
                        /\ route'[u] = "succeeded" => record[u].state = "published"
    <2>1. w.pc = "finish" => record[t].state = "published"
      BY <1>2 DEF CallOk, PlaceOk, TerminalStates
    <2> QED BY <1>5, <1>6, <2>1 DEF LedgerInv
  <1>8. \A u \in Txns : \A q \in Roles : CallOk(u, q, worker'[u][q])
    BY <1>4, IdleOk, MyCall
  <1>9. lease' \in [owner : Txns \cup {NoTxn}, token : Nat, live : BOOLEAN]
    <2>1. lease \in [owner : Txns \cup {NoTxn}, token : Nat, live : BOOLEAN]
      BY DEF TypeOK
    <2>2. [lease EXCEPT !.owner = NoTxn, !.live = FALSE] \in [owner : Txns \cup {NoTxn}, token : Nat, live : BOOLEAN]
      BY <2>1
    <2> QED BY <2>1, <2>2 DEF ExecuteEnds, Release
  <1>10. ASSUME NEW u \in Txns PROVE LeaseOk(u, worker[u]["execute"])'
    <2>0. UNCHANGED <<files, plan, raced, lapsed>>
      BY <1>3 DEF history
    <2>1. CASE u = t
      <3>1. worker'[u]["execute"] = NoWorker
        BY <1>0, <1>4, <2>1
      <3> QED BY <3>1, NoWorkerFacts DEF LeaseOk, Holding, Midway
    <2>2. CASE u # t
      <3>1. PICK x : x = worker[u]["execute"]
        OBVIOUS
      <3>2. worker'[u]["execute"] = x /\ LeaseOk(u, x)
        BY <1>0, <1>4, <2>2, <3>1, MyCall DEF CallOk
      <3>3. ASSUME HoldsLease(u, x) PROVE HoldsLease(u, x)'
        <4>1. lease.owner = u
          BY <3>3 DEF HoldsLease
        <4>2. lease' = lease
          BY <2>2, <4>1 DEF ExecuteEnds, Release
        <4> QED BY <3>3, <4>2 DEF HoldsLease
      <3>4. LeaseOk(u, x)'
        BY <2>0, <3>2, <3>3 DEF LeaseOk
      <3> QED BY <3>2, <3>4
    <2> QED BY <2>1, <2>2
  <1> QED BY <1>3, <1>4, <1>6, <1>7, <1>8, <1>9, <1>10, RouteLeaseStep

LEMMA ReconcileStep ==
  ASSUME IInv, NEW t \in Txns, Reconcile(t)
  PROVE  IInv'
  <1> USE DEF IInv
  <1>0. "reconcile" \in Roles /\ "execute" # "reconcile"
    BY DEF Roles
  <1>1. UNCHANGED <<files, plan, record, lease, history, faults>> /\ route[t] = "unknown"
    BY DEF Reconcile
  <1>2. Recorded(t)
    BY <1>1 DEF LedgerInv
  <1>3. CASE /\ attempts[t] < MaxReconcile /\ route' = [route EXCEPT ![t] = "reconciling"]
             /\ attempts' = [attempts EXCEPT ![t] = @ + 1]
             /\ SetWorker(t, "reconcile", StartObserving(NoWorker, t, "recover"))
    <2>1. PICK v : v = StartObserving(NoWorker, t, "recover")
      OBVIOUS
    <2>2. v \in Worker /\ CallOk(t, "reconcile", v)
      BY <1>0, <1>2, <2>1, NoWorkerFacts, IdleOk, ObserveOk DEF CallOk
    <2>3. /\ worker' \in [Txns -> [Roles -> Worker]]
          /\ \A u \in Txns : \A q \in Roles :
                worker'[u][q] = IF u = t /\ q = "reconcile" THEN v ELSE worker[u][q]
      BY <1>0, <1>3, <2>1, <2>2, SetWorkerFacts
    <2>4. /\ route' \in [Txns -> RouteStates] /\ attempts' \in [Txns -> 0..MaxReconcile]
          /\ \A u \in Txns : route'[u] = IF u = t THEN "reconciling" ELSE route[u]
      BY <1>3, MembersAssumption DEF TypeOK, RouteStates
    <2>5. \A u \in Txns : \A q \in Roles : CallOk(u, q, worker'[u][q])
      BY <2>2, <2>3, MyCall
    <2>6. \A u \in Txns : /\ route'[u] # "ready" => Recorded(u)
                          /\ route'[u] = "succeeded" => record[u].state = "published"
      BY <1>2, <2>4 DEF LedgerInv
    <2> QED BY <1>1, <2>3, <2>4, <2>5, <2>6, RouteStep
  <1>4. CASE /\ route' = [route EXCEPT ![t] = "manual_intervention"] /\ UNCHANGED <<attempts, worker>>
    <2>1. /\ route' \in [Txns -> RouteStates] /\ attempts' \in [Txns -> 0..MaxReconcile]
          /\ \A u \in Txns : route'[u] = IF u = t THEN "manual_intervention" ELSE route[u]
          /\ worker' \in [Txns -> [Roles -> Worker]]
      BY <1>4 DEF TypeOK, RouteStates
    <2>2. \A u \in Txns : \A q \in Roles : CallOk(u, q, worker'[u][q])
      BY <1>4, MyCall
    <2>3. \A u \in Txns : /\ route'[u] # "ready" => Recorded(u)
                          /\ route'[u] = "succeeded" => record[u].state = "published"
      BY <1>2, <2>1 DEF LedgerInv
    <2> QED BY <1>1, <2>1, <2>2, <2>3, RouteStep
  <1> QED BY <1>3, <1>4 DEF Reconcile

LEMMA ReconcileEndsStep ==
  ASSUME IInv, NEW t \in Txns, ReconcileEnds(t)
  PROVE  IInv'
  <1> USE DEF IInv
  <1>0. "reconcile" \in Roles
    BY DEF Roles
  <1>1. PICK w : w = worker[t]["reconcile"]
    OBVIOUS
  <1>2. w \in Worker /\ CallOk(t, "reconcile", w)
    BY <1>0, <1>1, MyCall
  <1>3. UNCHANGED <<files, plan, record, lease, history, faults>> /\ attempts' \in [Txns -> 0..MaxReconcile]
    BY DEF ReconcileEnds, TypeOK
  <1>4. /\ worker' \in [Txns -> [Roles -> Worker]]
        /\ \A u \in Txns : \A q \in Roles :
              worker'[u][q] = IF u = t /\ q = "reconcile" THEN NoWorker ELSE worker[u][q]
    BY <1>0, NoWorkerFacts, SetWorkerFacts DEF ReconcileEnds
  <1>5. PICK result \in {"unknown", "succeeded", "failed", "manual_intervention"} :
           /\ Complete(t, "reconcile", result)
           /\ result = "succeeded" => w.snap.state = "published"
    BY <1>1 DEF ReconcileEnds, Outcome
  <1>6. /\ route' \in [Txns -> RouteStates]
        /\ \A u \in Txns : route'[u] = route[u] \/ (u = t /\ route'[u] = result /\ route[u] # "ready")
    BY <1>0, <1>5, CompleteFacts DEF RouteStates
  <1>7. \A u \in Txns : /\ route'[u] # "ready" => Recorded(u)
                        /\ route'[u] = "succeeded" => record[u].state = "published"
    <2>1. w.snap.state = "published" => record[t].state = "published"
      BY <1>2 DEF CallOk, PlaceOk, TerminalStates
    <2> QED BY <1>5, <1>6, <2>1 DEF LedgerInv
  <1>8. \A u \in Txns : \A q \in Roles : CallOk(u, q, worker'[u][q])
    BY <1>4, IdleOk, MyCall
  <1> QED BY <1>3, <1>4, <1>6, <1>7, <1>8, RouteStep

\* A host that dies, or that another one takes over from.
LEMMA HostStep ==
  ASSUME IInv, HostRestarts \/ HostTakesOver
  PROVE  IInv'
  <1> USE DEF IInv
  <1>1. /\ route' \in [Txns -> RouteStates]
        /\ \A u \in Txns : route'[u] = InFlight(route[u])
    BY DEF HostRestarts, HostTakesOver, TypeOK, InFlight, RouteStates
  <1>2. \A u \in Txns : /\ route'[u] # "ready" => Recorded(u)
                        /\ route'[u] = "succeeded" => record[u].state = "published"
    BY <1>1 DEF LedgerInv, InFlight
  <1>3. CASE HostTakesOver
    <2>1. UNCHANGED <<files, plan, record, lease, history, faults, worker>>
          /\ attempts' \in [Txns -> 0..MaxReconcile] /\ worker' \in [Txns -> [Roles -> Worker]]
      BY <1>3 DEF HostTakesOver, TypeOK
    <2>2. \A u \in Txns : \A q \in Roles : CallOk(u, q, worker'[u][q])
      BY <2>1, MyCall
    <2> QED BY <1>1, <1>2, <2>1, <2>2, RouteStep
  <1>4. CASE HostRestarts
    <2>0. UNCHANGED <<files, plan, record, lease, attempts, wrote, reached, raced, lapsed, edits>>
          /\ crashes' \in Nat
      BY <1>4 DEF HostRestarts, history, TypeOK
    <2>1. /\ worker' \in [Txns -> [Roles -> Worker]]
          /\ \A u \in Txns : \A q \in Roles : worker'[u][q] = NoWorker
      BY <1>4, NoWorkerFacts DEF HostRestarts
    <2>2. TypeOK'
      BY <1>1, <2>0, <2>1 DEF TypeOK
    <2>3. LedgerInv'
      BY <1>2, <2>0 DEF LedgerInv, Proper, Recorded, After
    <2>4. CallInv'
      <3> SUFFICES ASSUME NEW u \in Txns, NEW q \in Roles
                   PROVE  CallOk(u, q, worker[u][q])'
        BY DEF CallInv
      <3>1. CallOk(u, q, NoWorker)
        BY IdleOk
      <3>2. LeaseOk(u, NoWorker)'
        BY NoWorkerFacts DEF LeaseOk, Holding, Midway
      <3>3. CallOk(u, q, NoWorker)'
        BY <2>0, <3>1, <3>2, NoWorkerFacts, OtherCall
      <3> QED BY <2>1, <3>3
    <2> QED BY <2>2, <2>3, <2>4
  <1> QED BY <1>3, <1>4

LEMMA ExpireStep ==
  ASSUME IInv, LeaseExpires
  PROVE  IInv'
  <1> USE DEF IInv
  <1>0. UNCHANGED <<files, plan, record, worker, route, attempts, wrote, reached, raced, edits, crashes>>
    BY DEF LeaseExpires, router, faults
  <1>1. lapsed' \in BOOLEAN
    BY Zenon DEF LeaseExpires
  <1>2. lease' \in [owner : Txns \cup {NoTxn}, token : Nat, live : BOOLEAN]
    BY DEF LeaseExpires, TypeOK
  <1>3. TypeOK'
    BY <1>0, <1>1, <1>2 DEF TypeOK
  <1>4. LedgerInv'
    BY <1>0 DEF LedgerInv, Proper, Recorded, After
  <1>5. CallInv'
    <2> SUFFICES ASSUME NEW u \in Txns, NEW q \in Roles
                 PROVE  CallOk(u, q, worker[u][q])'
      BY DEF CallInv
    <2>1. PICK x \in Worker : x = worker[u][q] /\ CallOk(u, q, x)
      BY MyCall
    <2>2. q = "execute" => LeaseOk(u, x)'
      <3> SUFFICES ASSUME q = "execute", ~lapsed', x.pc \in Holding PROVE FALSE
        BY DEF LeaseOk, Holding, Midway
      <3>1. ~lapsed /\ worker[lease.owner]["execute"] = NoWorker
        BY DEF LeaseExpires
      <3>2. lease.owner = u
        BY <2>1, <3>1 DEF CallOk, LeaseOk, HoldsLease
      <3> QED BY <2>1, <3>1, <3>2, NoWorkerFacts DEF Holding, Midway
    <2>3. CallOk(u, q, x)'
      BY <1>0, <2>1, <2>2, OtherCall
    <2> QED BY <1>0, <2>1, <2>3
  <1> QED BY <1>3, <1>4, <1>5

\* A member is in the files, and its image after is a content.
LEMMA AfterType ==
  ASSUME TypeOK, NEW t \in Txns, NEW i \in Files
  PROVE  After(t, i) \in Contents
  BY TxnsAssumption DEF After, Contents, TypeOK

\* Files change: what was reached stays reached, and what is there now is reached.
LEMMA TouchFacts ==
  ASSUME TypeOK, NEW new \in [Files -> Contents], Touch(new)
  PROVE  /\ files' = new /\ files' \in [Files -> Contents] /\ reached' \in [Txns -> SUBSET Files]
         /\ \A u \in Txns : reached[u] \subseteq reached'[u]
         /\ \A u \in Txns : \A i \in Files : Recorded(u) /\ new[i] = After(u, i) => i \in reached'[u]
  BY DEF TypeOK, Touch, Recorded

LEMMA TouchLedger ==
  ASSUME IInv, NEW new \in [Files -> Contents], Touch(new), UNCHANGED <<plan, record, route>>
  PROVE  LedgerInv'
  <1>1. /\ files' = new /\ \A u \in Txns : reached[u] \subseteq reached'[u]
        /\ \A u \in Txns : \A i \in Files : Recorded(u) /\ new[i] = After(u, i) => i \in reached'[u]
    BY TouchFacts DEF IInv
  <1> SUFFICES ASSUME NEW u \in Txns PROVE LedgerInv!(u)'
    BY DEF LedgerInv
  <1>2. LedgerInv!(u)
    BY DEF IInv, LedgerInv
  <1>3. \A x : Recorded(x)' <=> Recorded(x)
    BY DEF Recorded
  <1>4. \A i : (After(u, i))' = After(u, i)
    BY DEF After
  <1>5. Proper(record[u])' /\ (1..record[u].cursor \subseteq reached[u])'
    BY <1>1, <1>2 DEF Proper
  <1> QED BY <1>1, <1>2, <1>3, <1>4, <1>5

LEMMA ReplaceStep ==
  ASSUME IInv, NEW t \in Txns, Replace(t)
  PROVE  IInv'
  <1> USE DEF IInv
  <1>0. "execute" \in Roles
    BY DEF Roles
  <1>1. PICK w : w = worker[t]["execute"]
    OBVIOUS
  <1>2. /\ w \in Worker /\ CallOk(t, "execute", w) /\ w.pc = "replace" /\ Recorded(t)
        /\ w.snap.state = "publishing" /\ w.snap.cursor < Members
    BY <1>0, <1>1, MyCall DEF Replace, CallOk, PlaceOk, Midway
  <1>3. CASE Goto(t, "execute", "raise") /\ UNCHANGED <<files, plan, record, lease, router, history, faults>>
    BY <1>0, <1>1, <1>2, <1>3, RaiseStep
  <1>4. CASE /\ SetWorker(t, "execute", StartObserving(w, t, "repair"))
             /\ UNCHANGED <<files, plan, record, lease, router, history, faults>>
    BY <1>1, <1>2, <1>4, RepairStep DEF Midway
  <1>5. PICK i : i = w.snap.cursor + 1
    OBVIOUS
  <1>6. i \in Files
    BY <1>2, <1>5, WorkerFacts, RecordFacts, MembersAssumption DEF Files
  <1>7. CASE /\ Touch([files EXCEPT ![i] = After(t, i)])
             /\ wrote' = [wrote EXCEPT ![t] = @ \cup {i}]
             /\ Goto(t, "execute", "proved")
             /\ UNCHANGED <<raced, lapsed, plan, record, lease, router, faults>>
    <2>0. UNCHANGED <<raced, lapsed, plan, record, lease, route, attempts, edits, crashes>>
      BY <1>7 DEF router, faults
    <2>1. PICK new \in [Files -> Contents] : new = [files EXCEPT ![i] = After(t, i)]
      BY <1>6, AfterType DEF TypeOK
    <2>2. /\ files' = new /\ files' \in [Files -> Contents] /\ reached' \in [Txns -> SUBSET Files]
          /\ \A u \in Txns : reached[u] \subseteq reached'[u]
      BY <1>7, <2>1, TouchFacts
    <2>3. LedgerInv'
      BY <1>7, <2>0, <2>1, TouchLedger
    <2>4. PICK v : v = [w EXCEPT !.pc = "proved"]
      OBVIOUS
    <2>5. v \in Worker /\ CallOk(t, "execute", v) /\ v.pc = "proved"
      BY <1>2, <2>4, MoveOk, PcFacts DEF Holding, Midway, Places
    <2>6. /\ worker' \in [Txns -> [Roles -> Worker]]
          /\ \A u \in Txns : \A q \in Roles :
                worker'[u][q] = IF u = t /\ q = "execute" THEN v ELSE worker[u][q]
      BY <1>0, <1>1, <1>7, <2>4, <2>5, SetWorkerFacts DEF Goto
    <2>7. wrote' \in [Txns -> SUBSET Files]
      BY <1>6, <1>7 DEF TypeOK
    <2>8. TypeOK'
      BY <2>0, <2>2, <2>6, <2>7 DEF TypeOK
    <2>9. CallInv'
      <3> SUFFICES ASSUME NEW u \in Txns, NEW q \in Roles
                   PROVE  CallOk(u, q, worker[u][q])'
        BY DEF CallInv
      <3>1. PICK x \in Worker : x = worker'[u][q] /\ CallOk(u, q, x)
        BY <2>5, <2>6, MyCall
      <3>2. q = "execute" => LeaseOk(u, x)'
        <4>1. x.pc # "replace" \/ lapsed \/ q # "execute"
          <5> SUFFICES ASSUME x.pc = "replace", ~lapsed, q = "execute" PROVE FALSE
            OBVIOUS
          <5>1. u # t /\ x = worker[u]["execute"]
            BY <2>5, <2>6, <3>1
          <5>2. lease = [owner |-> u, token |-> x.token, live |-> TRUE]
            BY <3>1 DEF CallOk, LeaseOk, HoldsLease, Holding, Midway
          <5>3. lease = [owner |-> t, token |-> w.token, live |-> TRUE]
            BY <1>2 DEF CallOk, LeaseOk, HoldsLease, Holding, Midway
          <5>4. lease.owner = u /\ lease.owner = t
            BY <5>2, <5>3
          <5> QED BY <5>1, <5>4
        <4> QED BY <2>0, <3>1, <4>1 DEF CallOk, LeaseOk, HoldsLease
      <3>3. CallOk(u, q, x)'
        BY <2>0, <2>2, <3>1, <3>2, OtherCall
      <3> QED BY <3>1, <3>3
    <2> QED BY <2>3, <2>8, <2>9
  <1> QED BY <1>1, <1>3, <1>4, <1>5, <1>7 DEF Replace, history

LEMMA EditStep ==
  ASSUME IInv, NEW i \in Files, NEW content \in Contents, EditFile(i, content)
  PROVE  IInv'
  <1> USE DEF IInv
  <1>0. UNCHANGED <<plan, record, lease, worker, route, attempts, wrote, lapsed, crashes>>
    BY DEF EditFile, router
  <1>1. PICK new \in [Files -> Contents] : new = [files EXCEPT ![i] = content]
    BY DEF TypeOK
  <1>2. /\ files' = new /\ files' \in [Files -> Contents] /\ reached' \in [Txns -> SUBSET Files]
        /\ \A u \in Txns : reached[u] \subseteq reached'[u]
    BY <1>1, TouchFacts DEF EditFile
  <1>3. LedgerInv'
    BY <1>0, <1>1, TouchLedger DEF EditFile
  <1>4. raced' \subseteq Files /\ raced \subseteq raced' /\ edits' \in Nat
    BY DEF EditFile, TypeOK
  <1>5. TypeOK'
    BY <1>0, <1>2, <1>4 DEF TypeOK
  <1>6. CallInv'
    <2> SUFFICES ASSUME NEW u \in Txns, NEW q \in Roles
                 PROVE  CallOk(u, q, worker[u][q])'
      BY DEF CallInv
    <2>1. PICK x \in Worker : x = worker[u][q] /\ CallOk(u, q, x)
      BY MyCall
    <2>2. q = "execute" => LeaseOk(u, x)'
      <3> SUFFICES ASSUME q = "execute", ~lapsed PROVE LeaseOk(u, x)'
        BY <1>0 DEF LeaseOk
      <3>1. x.pc \in Holding => HoldsLease(u, x)'
        BY <1>0, <2>1 DEF CallOk, LeaseOk, HoldsLease
      <3>2. ASSUME x.pc = "replace"
            PROVE  \/ files'[x.snap.cursor + 1] = plan[u][x.snap.cursor + 1]
                   \/ x.snap.cursor + 1 \in raced'
        <4>1. CASE x.snap.cursor + 1 = i
          BY <2>1, <3>2, <4>1 DEF EditFile
        <4>2. CASE x.snap.cursor + 1 # i
          <5>1. files'[x.snap.cursor + 1] = files[x.snap.cursor + 1]
            BY <1>1, <1>2, <4>2 DEF TypeOK
          <5> QED BY <1>4, <2>1, <3>2, <5>1 DEF CallOk, LeaseOk
        <4> QED BY <4>1, <4>2
      <3> QED BY <1>0, <3>1, <3>2 DEF LeaseOk
    <2>3. CallOk(u, q, x)'
      BY <1>0, <1>2, <2>1, <2>2, OtherCall
    <2> QED BY <1>0, <2>1, <2>3
  <1> QED BY <1>3, <1>5, <1>6

\* A plan is saved: nobody works on it yet, and nobody plans with it.
LEMMA SaveStep ==
  ASSUME IInv, NEW t \in Txns, SavePatch(t) \/ SaveRollback(t)
  PROVE  IInv'
  <1> USE DEF IInv
  <1>0. UNCHANGED <<files, lease, worker, route, attempts, wrote, reached, raced, lapsed, edits, crashes>>
    BY DEF SavePatch, SaveRollback, router, history, faults
  <1>1. /\ record[t] = NoRecord /\ plan' = [plan EXCEPT ![t] = files]
        /\ record' = [record EXCEPT ![t].state = "prepared"]
    BY DEF SavePatch, SaveRollback
  <1>2. /\ plan' \in [Txns -> [Files -> Contents]]
        /\ \A u \in Txns : plan'[u] = IF u = t THEN files ELSE plan[u]
    BY <1>1 DEF TypeOK
  <1>3. PICK fresh \in Record : /\ fresh = [NoRecord EXCEPT !.state = "prepared"]
                                /\ fresh.state = "prepared" /\ fresh.cursor = 0
    <2>1. [NoRecord EXCEPT !.state = "prepared"] = [state |-> "prepared", cursor |-> 0, sequence |-> 0]
      BY DEF NoRecord
    <2>2. [state |-> "prepared", cursor |-> 0, sequence |-> 0] \in Record
      BY MembersAssumption DEF Record, TransactionStates
    <2> QED BY <2>1, <2>2
  <1>4. /\ record' \in [Txns -> Record]
        /\ \A u \in Txns : record'[u] = IF u = t THEN fresh ELSE record[u]
    <2>1. record \in [Txns -> Record]
      BY DEF TypeOK
    <2>2. record' = [record EXCEPT ![t] = fresh]
      BY <1>1, <1>3, <2>1
    <2> QED BY <2>1, <2>2
  <1>5. TypeOK'
    BY <1>0, <1>2, <1>4 DEF TypeOK
  <1>6. ~Recorded(t) /\ \A u \in Txns : Recorded(u)' <=> Recorded(u) \/ u = t
    BY <1>1, <1>3, <1>4 DEF Recorded, NoRecord
  <1>7. \A u \in Txns : RollbackOf[u] = NoTxn \/ (RollbackOf[u] \in Txns /\ RollbackOf[u] # u)
    BY TxnsAssumption
  <1>8. ASSUME NEW u \in Txns, Recorded(u), NEW i PROVE After(u, i)' = After(u, i) /\ u # t
    <2>1. RollbackOf[u] # t
      <3> SUFFICES ASSUME RollbackOf[u] = t PROVE FALSE
        OBVIOUS
      <3>1. RollbackOf[u] # NoTxn
        BY TxnsAssumption
      <3> QED BY <1>6, <1>8, <3>1 DEF LedgerInv
    <2> QED BY <1>2, <1>6, <1>7, <1>8, <2>1 DEF After
  <1>9. LedgerInv'
    <2> SUFFICES ASSUME NEW u \in Txns PROVE LedgerInv!(u)'
      BY DEF LedgerInv
    <2>1. CASE u = t
      <3>1. /\ Proper(record[u])' /\ (1..record[u].cursor \subseteq reached[u])' /\ Recorded(u)'
            /\ route'[u] = "ready"
        <4>1. 1..0 = {}
          OBVIOUS
        <4> QED BY <1>0, <1>3, <1>4, <1>6, <2>1, <4>1 DEF LedgerInv, Proper
      <3>2. /\ RollbackOf[u] # NoTxn => Recorded(RollbackOf[u])'
            /\ \A i \in Files : plan'[u][i] # (After(u, i))' /\ files'[i] # (After(u, i))'
        <4>1. CASE SavePatch(t)
          BY <1>0, <1>2, <2>1, <4>1 DEF SavePatch, After
        <4>2. CASE SaveRollback(t)
          <5>1. PICK o \in Txns : o = RollbackOf[t] /\ o # t
            BY <1>7, <4>2 DEF SaveRollback
          <5>2. Recorded(o) /\ \A i \in Files : files[i] = After(o, i)
            BY <4>2, <5>1 DEF SaveRollback, Recorded
          <5>3. \A i \in Files : (After(t, i))' = plan[o][i]
            BY <1>2, <1>7, <4>2, <5>1 DEF After, SaveRollback
          <5>4. \A i \in Files : plan[o][i] # After(o, i)
            BY <5>2 DEF LedgerInv
          <5> QED BY <1>0, <1>2, <1>6, <2>1, <5>1, <5>2, <5>3, <5>4
        <4> QED BY <4>1, <4>2
      <3> QED BY <3>1, <3>2
    <2>2. CASE u # t
      <3>1. LedgerInv!(u)
        BY DEF LedgerInv
      <3>2. plan'[u] = plan[u] /\ record'[u] = record[u] /\ (Recorded(u)' <=> Recorded(u))
        BY <1>2, <1>4, <1>6, <2>2
      <3>3. Recorded(u) => \A i \in Files : (After(u, i))' = After(u, i)
        BY <1>8
      <3>4. Recorded(u) /\ RollbackOf[u] # NoTxn => Recorded(RollbackOf[u])'
        BY <1>6, <1>7, <3>1
      <3>5. Proper(record[u])' /\ (1..record[u].cursor \subseteq reached[u])'
        BY <1>0, <3>1, <3>2 DEF Proper
      <3> QED BY <1>0, <3>1, <3>2, <3>3, <3>4, <3>5
    <2> QED BY <2>1, <2>2
  <1>10. CallInv'
    <2> SUFFICES ASSUME NEW u \in Txns, NEW q \in Roles
                 PROVE  CallOk(u, q, worker[u][q])'
      BY DEF CallInv
    <2>1. PICK x \in Worker : x = worker[u][q] /\ CallOk(u, q, x)
      BY MyCall
    <2>2. x.pc # "idle" => Recorded(u) /\ u # t
      BY <1>6, <2>1 DEF CallOk, PlaceOk
    <2>3. x.snap.state \in TerminalStates => u # t
      BY <1>1, <2>1 DEF CallOk, PlaceOk, NoRecord, TerminalStates
    <2>4. PlaceOk(u, q, x)'
      BY <1>0, <1>4, <1>6, <2>1, <2>2, <2>3 DEF CallOk, PlaceOk, WantOk, Proper
    <2>5. FactsOk(u, x)'
      <3>1. x.pc = "observe" => \A i : (After(u, i))' = After(u, i)
        BY <1>8, <2>2
      <3> QED BY <1>0, <2>1, <3>1 DEF CallOk, FactsOk
    <2>6. q = "execute" => LeaseOk(u, x)'
      <3>1. x.pc = "replace" => plan'[u] = plan[u]
        BY <1>2, <2>2
      <3> QED BY <1>0, <2>1, <3>1 DEF CallOk, LeaseOk, HoldsLease
    <2>7. CallOk(u, q, x)'
      BY <2>4, <2>5, <2>6 DEF CallOk
    <2> QED BY <1>0, <2>1, <2>7
  <1> QED BY <1>5, <1>9, <1>10

-----------------------------------------------------------------------------
(* The theorems that hold in every configuration *)

LEMMA Initial == ASSUME Init PROVE IInv
  <1> USE DEF Init
  <1>0. lapsed \in BOOLEAN
    BY Zenon
  <1>1. TypeOK
    BY <1>0, RecordFacts, NoWorkerFacts, MembersAssumption DEF TypeOK, Contents, RouteStates
  <1>2. LedgerInv
    <2>1. NoRecord.state = "absent" /\ NoRecord.cursor = 0 /\ 1..0 = {}
      BY DEF NoRecord
    <2>2. \A t \in Txns : record[t] = NoRecord /\ route[t] = "ready"
      OBVIOUS
    <2> QED BY <2>1, <2>2 DEF LedgerInv, Proper, Recorded
  <1>3. CallInv
    <2>1. \A t \in Txns : \A r \in Roles : worker[t][r] = NoWorker
      OBVIOUS
    <2> QED BY <2>1, IdleOk DEF CallInv
  <1> QED BY <1>1, <1>2, <1>3 DEF IInv

LEMMA CallSteps1 ==
  ASSUME IInv, NEW t \in Txns, CallSteps(t)
  PROVE  IInv'
  <1>1. CASE ExecuteSteps(t)
    BY <1>1, AcquireStep, PublishNextStep, VerifyResumeStep, LookStep, ApplyStep, ReplaceStep, ProveStep,
       RecordedStep, ExecuteEndsStep DEF ExecuteSteps
  <1>2. CASE ReconcileEnds(t)
    BY <1>2, ReconcileEndsStep
  <1>3. ASSUME NEW r \in Roles, Advance(t, r) \/ ObserveMember(t, r) \/ Conclude(t, r) PROVE IInv'
    BY <1>3, AdvanceStep, ObserveStep, ConcludeStep
  <1> QED BY <1>1, <1>2, <1>3 DEF CallSteps

LEMMA Step == ASSUME IInv, [Next]_vars PROVE IInv'
  <1>1. ASSUME NEW t \in Txns, SavePatch(t) \/ SaveRollback(t) \/ Execute(t) \/ Reconcile(t) \/ CallSteps(t)
        PROVE  IInv'
    BY <1>1, SaveStep, ExecuteStep, ReconcileStep, CallSteps1
  <1>2. ASSUME NEW i \in Files, NEW content \in Contents, EditFile(i, content) PROVE IInv'
    BY <1>2, EditStep
  <1>3. CASE LeaseExpires \/ HostRestarts \/ HostTakesOver
    BY <1>3, ExpireStep, HostStep
  <1>4. CASE UNCHANGED vars
    BY <1>4 DEF vars, IInv, TypeOK, LedgerInv, CallInv, CallOk, PlaceOk, FactsOk, LeaseOk, WantOk, Proper,
                Recorded, After, HoldsLease
  <1> QED BY <1>1, <1>2, <1>3, <1>4 DEF Next

\* The inductive invariant holds throughout.
THEOREM Inductive == Spec => []IInv
  <1>1. Init => IInv
    BY Initial
  <1>2. IInv /\ [Next]_vars => IInv'
    BY Step
  <1> QED BY <1>1, <1>2, PTL DEF Spec

\* Every variable of the transactions keeps its type.
THEOREM TypeCorrect == Spec => []TypeOK
  BY Inductive, PTL DEF IInv

\* The cursor of the ledger never runs ahead of the files and a success is a published
\* record, whoever edits files, whatever fails, and even when the reconcile of a second host
\* advances the same record as the execute of the first.
THEOREM LedgerAlwaysFollowsDisk == Spec => []LedgerFollowsDisk
  <1>1. IInv => LedgerFollowsDisk
    BY DEF IInv, LedgerInv, Proper, LedgerFollowsDisk
  <1> QED BY <1>1, Inductive, PTL

\* acquire, assert_current and release keep the members of two transactions apart, as long
\* as no lease runs out in use.
THEOREM AlwaysOneWriter == Spec => []OneWriter
  <1>1. IInv => OneWriter
    <2> SUFFICES ASSUME IInv, ~lapsed, NEW t \in Txns, NEW u \in Txns,
                        {worker[t]["execute"].pc, worker[u]["execute"].pc} \subseteq {"apply", "replace", "proved"}
                 PROVE  t = u
      BY DEF OneWriter
    <2>1. ASSUME NEW x \in Txns, worker[x]["execute"].pc \in {"apply", "replace", "proved"}
          PROVE  lease.owner = x
      <3>1. LeaseOk(x, worker[x]["execute"])
        BY MyCall DEF CallOk, Roles
      <3>2. lease = [owner |-> x, token |-> worker[x]["execute"].token, live |-> TRUE]
        BY <2>1, <3>1 DEF LeaseOk, HoldsLease, Holding, Midway
      <3> QED BY <3>2
    <2> QED BY <2>1
  <1> QED BY <1>1, Inductive, PTL

\* The rename of a publication destroys the content the plan was approved for, or one that
\* another program put there after the second look, as long as no lease runs out in use.
THEOREM WritesAlwaysOverBefore == Spec => WritesOverBefore
  <1>1. IInv /\ [Next]_vars =>
           [~lapsed => \A t \in Txns : \A i \in wrote'[t] \ wrote[t] :
               files[i] = plan[t][i] \/ i \in raced]_vars
    <2> SUFFICES ASSUME IInv, Next, ~lapsed, NEW t \in Txns, NEW i \in wrote'[t] \ wrote[t]
                 PROVE  files[i] = plan[t][i] \/ i \in raced
      OBVIOUS
    <2>1. ASSUME NEW u \in Txns, CallSteps(u), ~Replace(u) PROVE wrote' = wrote
      <3>1. CASE Acquire(u) \/ PublishNext(u) \/ VerifySources(u) \/ Resume(u) \/ LookAtMember(u)
        BY <3>1 DEF Acquire, PublishNext, VerifySources, Resume, LookAtMember, history
      <3>2. CASE ApplyChecks(u) \/ ProveMember(u) \/ MemberRecorded(u) \/ ExecuteEnds(u) \/ ReconcileEnds(u)
        BY <3>2 DEF ApplyChecks, ProveMember, MemberRecorded, ExecuteEnds, ReconcileEnds, history
      <3>3. CASE \E r \in Roles : Advance(u, r) \/ ObserveMember(u, r) \/ Conclude(u, r)
        BY <3>3 DEF Advance, ObserveMember, Conclude, history
      <3> QED BY <2>1, <3>1, <3>2, <3>3 DEF CallSteps, ExecuteSteps
    <2>2. PICK u \in Txns : Replace(u)
      BY <2>1 DEF Next, SavePatch, SaveRollback, Execute, Reconcile, EditFile, LeaseExpires, HostRestarts,
             HostTakesOver, history
    <2>3. t = u /\ i = worker[t]["execute"].snap.cursor + 1 /\ worker[t]["execute"].pc = "replace"
      BY <2>2 DEF Replace, history, IInv, TypeOK
    <2>4. LeaseOk(t, worker[t]["execute"])
      BY MyCall DEF CallOk, Roles
    <2> QED BY <2>3, <2>4 DEF LeaseOk
  <1> QED BY <1>1, Inductive, PTL DEF WritesOverBefore, Spec
=============================================================================
