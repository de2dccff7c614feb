----------------------- MODULE ProcessSupervisorProofs -----------------------
(* Theorems about ProcessSupervisor, for any number of receipts and faults and whether or *)
(* not the owner can be killed.                                                           *)
EXTENDS ProcessSupervisor, SequenceTheorems, TLAPS

-----------------------------------------------------------------------------
(* The inductive invariant *)

Handles == {"own", "recovery"}
Open    == {"starting", "running", "stopping"}

\* What a terminal receipt says is true, and the owner that signed it is gone.
Tells(r) ==
    /\ r.state = "failed" => target = "none" /\ owner.pc = "gone"
    /\ r.state = "exited" => /\ target = "gone" /\ owner.pc = "gone"
                             /\ r.reason = "exited" => ended = "itself"

\* The owner is the only one to launch and to judge the target, and reads one start frame.
OwnerInv ==
    /\ Tells(receipt)
    /\ owner.pc \in {"absent", "reading", "launch"} => target = "none"
    /\ target \in {"alive", "orphans"} => owner.pc \in {"started", "loop", "failing", "killed"}
    /\ owner.stop = "exited" => ended = "itself" /\ target \in {"orphans", "gone"}
    /\ owner.stop = "none" /\ owner.pc \in {"started", "loop"} /\ target \in {"orphans", "gone"}
          => ended = "itself"
    /\ \A n \in DOMAIN pipe.frames :
          pipe.frames[n] = "start" => n = 1 /\ owner.pc \in {"reading", "gone", "killed"}

\* A snapshot is never ahead of the stored lease, and the same sequence is the same state;
\* only a handle with an open lease looks at a receipt.
HandInv ==
    \A h \in Handles :
        /\ hands[h].state \in Open \cup Terminal \cup {"none"}
        /\ hands[h].state # "none" =>
              /\ hands[h].seq <= lease.seq
              /\ hands[h].seq = lease.seq => hands[h].state = lease.state
        /\ hands[h].look # Unread => hands[h].state \in Open /\ hands[h].look.state # "unread"
        /\ Tells(hands[h].look)

NoHands == \A h \in Handles : hands[h].state = "none"

\* Up to the registration of its handle the run is alone with its lease; afterwards the
\* starting thread is done.
StartInv ==
    /\ lease.state \in {"none", "prepared"} => owner.pc = "absent" /\ thread = "none" /\ NoHands
    /\ pc.run = "create" => lease = Nothing
    /\ pc.run = "mkdir" => lease.state = "prepared"
    /\ pc.run \in {"spawn", "send"} => lease.state = "starting" /\ NoHands
    /\ pc.run \in {"poll", "stop", "tell", "wait", "drain"} \/ pc.closer \in {"stop", "tell", "wait"}
          => hands["own"].state # "none"
    /\ hands["own"].state # "none" => thread = "none" /\ owner.pc # "absent"

\* The thread that starts the owner, by what it has done so far.
ThreadInv ==
    /\ thread = "spawning" => owner.pc = "absent"
    /\ thread \in {"spawned", "sending"} =>
          owner.pc \in {"reading", "gone", "killed"} /\ target = "none"
    /\ thread = "broken" => owner.pc \in {"absent", "gone", "killed"} /\ target = "none"
    /\ thread = "sent" => owner.pc # "absent"
    /\ thread \in {"spawning", "spawned", "sending", "broken"} \/ owner.pc = "absent"
          => pipe.frames = <<>>

\* No target was launched and none will be.
Never == /\ target = "none"
         /\ OwnerEnded \/ (owner.pc = "absent" /\ thread # "spawning")

LeaseInv ==
    /\ lease.state = "failed" => Never
    /\ lease.state = "exited" =>
          /\ target = "gone" /\ owner.pc = "gone"
          /\ lease.reason = "exited" => ended = "itself"

\* A conclusion was drawn from a lease that cannot change any more.
ReportInv ==
    /\ "failed" \in reported =>
          \/ lease.state = "none" /\ pc.run = "end"
          \/ lease.state = "failed"
          \/ lease.state = "exited" /\ lease.reason # "exited"
    /\ "succeeded" \in reported => lease.state = "exited" /\ lease.reason = "exited"

IInv == TypeOK /\ OwnerInv /\ HandInv /\ StartInv /\ ThreadInv /\ LeaseInv /\ ReportInv

-----------------------------------------------------------------------------
(* Records *)

Runs    == {"create", "mkdir", "spawn", "send", "poll", "stop", "tell", "wait", "drain", "end"}
Recons  == {"idle", "window", "done"}
Closers == {"idle", "stop", "tell", "wait", "done", "failed"}

\* Where a task is after its step.
LEMMA GotoRun ==
  ASSUME TypeOK, NEW place \in Runs, Goto("run", place)
  PROVE  /\ pc' \in [run : Runs, recon : Recons, closer : Closers]
         /\ pc'.run = place /\ pc'.recon = pc.recon /\ pc'.closer = pc.closer
  BY DEF Goto, TypeOK, Runs, Recons, Closers

LEMMA GotoRecon ==
  ASSUME TypeOK, NEW place \in Recons, Goto("recon", place)
  PROVE  /\ pc' \in [run : Runs, recon : Recons, closer : Closers]
         /\ pc'.recon = place /\ pc'.run = pc.run /\ pc'.closer = pc.closer
  BY DEF Goto, TypeOK, Runs, Recons, Closers

LEMMA GotoCloser ==
  ASSUME TypeOK, NEW place \in Closers, Goto("closer", place)
  PROVE  /\ pc' \in [run : Runs, recon : Recons, closer : Closers]
         /\ pc'.closer = place /\ pc'.run = pc.run /\ pc'.recon = pc.recon
  BY DEF Goto, TypeOK, Runs, Recons, Closers

LEMMA HostEndsFacts ==
  ASSUME TypeOK, HostEnds
  PROVE  /\ pc' \in [run : Runs, recon : Recons, closer : Closers]
         /\ pc'.run = "end" /\ pc'.recon = "idle" /\ pc'.closer = "idle"
         /\ hands' \in [Handles -> HandleType]
         /\ \A h \in Handles : hands'[h] = NoHandle
  <1>1. NoHandle \in HandleType
    BY DEF NoHandle, HandleType, Unread, Reasons, Stops
  <1>2. /\ hands' = [h \in Handles |-> NoHandle]
    BY DEF HostEnds, Handles
  <1>3. hands' \in [Handles -> HandleType] /\ \A h \in Handles : hands'[h] = NoHandle
    BY <1>1, <1>2
  <1>4. pc' = [run |-> "end", recon |-> "idle", closer |-> "idle"]
    BY DEF HostEnds
  <1>5. pc'.run = "end" /\ pc'.recon = "idle" /\ pc'.closer = "idle"
    BY <1>4
  <1>6. pc' \in [run : Runs, recon : Recons, closer : Closers]
    BY <1>4 DEF Runs, Recons, Closers
  <1> QED BY <1>3, <1>5, <1>6

LookType == [state : {"unread", "none", "running"} \cup Terminal, seq : Nat, reason : Reasons]
LeaseStates == Active \cup Terminal \cup {"none"}
HandleShapes == [state : LeaseStates, seq : Nat, seen : Nat, look : LookType]

\* A handle, with what it looks at left closed.
LEMMA HandleShape == HandleType = HandleShapes
  BY DEF HandleType, HandleShapes, LookType, LeaseStates

LEMMA HeldFacts ==
  ASSUME TypeOK, NEW h \in Handles, NEW s \in Active \cup Terminal
  PROVE  /\ Held(h, s) \in HandleType
         /\ Held(h, s).state = s /\ Held(h, s).seq = hands[h].seq + 1
         /\ Held(h, s).look = Unread /\ Held(h, s).seen = hands[h].seen
  <1>1. hands[h] \in HandleType
    BY DEF TypeOK, Handles
  <1>2. Unread \in LookType /\ s \in LeaseStates
    BY DEF Unread, Reasons, LookType, LeaseStates
  <1> DEFINE k == hands[h]
  <1>3. k.seq \in Nat
    BY <1>1 DEF HandleType
  <1>4. PICK n \in Nat : n = k.seq + 1
    BY <1>3
  <1>5. Held(h, s) = [k EXCEPT !.state = s, !.seq = n, !.look = Unread]
    BY <1>4 DEF Held
  <1> HIDE DEF k
  <1>6. k \in HandleShapes
    BY <1>1, HandleShape DEF k
  <1>7. /\ Held(h, s) \in HandleShapes
        /\ Held(h, s).state = s /\ Held(h, s).seq = n
        /\ Held(h, s).look = Unread /\ Held(h, s).seen = k.seen
    BY <1>2, <1>5, <1>6 DEF HandleShapes
  <1> QED BY <1>4, <1>7, HandleShape DEF k

LEMMA StoredFacts ==
  ASSUME TypeOK, NEW s \in Active \cup Terminal, NEW r \in Reasons
  PROVE  /\ StoredLease(s, r) \in [state : Active \cup Terminal \cup {"none"}, seq : Nat, reason : Reasons]
         /\ StoredLease(s, r).state = s /\ StoredLease(s, r).seq = lease.seq + 1
         /\ StoredLease(s, r).reason = r
  BY DEF StoredLease, TypeOK

-----------------------------------------------------------------------------
(* Types *)

LeaseType == [state : Active \cup Terminal \cup {"none"}, seq : Nat, reason : Reasons]
PcType    == [run : Runs, recon : Recons, closer : Closers]
Outcome   == {"succeeded", "failed", "unknown", "manual_intervention"}
PipeType  == [frames : Seq({"start", "cancelled", "closed"}), open : BOOLEAN]

HostTypes ==
    /\ lease \in LeaseType /\ pipe \in PipeType
    /\ thread \in {"none", "spawning", "spawned", "sending", "sent", "broken"}
    /\ hands \in [Handles -> HandleType] /\ pc \in PcType
    /\ cancelled \in BOOLEAN /\ host \in {"up", "down", "recovering"}
    /\ reported \subseteq Outcome /\ faults \in 0 .. MaxFaults

ReceiptType == [state : {"none", "running"} \cup Terminal, seq : Nat, reason : Reasons]
OwnerPlaces == {"absent", "reading", "launch", "started", "loop", "failing", "gone", "killed"}
OwnerType   == [pc : OwnerPlaces, stop : Stops \cup {"none"}, failed : BOOLEAN, seq : Nat]

OwnerTypes ==
    /\ receipt \in ReceiptType /\ owner \in OwnerType
    /\ target \in {"none", "alive", "orphans", "gone"}
    /\ ended \in {"none", "itself", "stopped"}

LEMMA Types == TypeOK <=> HostTypes /\ OwnerTypes
  BY DEF TypeOK, HostTypes, OwnerTypes, LeaseType, PcType, Outcome, PipeType, Runs, Recons, Closers,
         Handles, ReceiptType, OwnerPlaces, OwnerType

\* The bound on faults, and what a report may add.
LEMMA FaultType == ASSUME HostTypes, Fault PROVE faults' \in 0 .. MaxFaults
  BY ProcessAssumption DEF HostTypes, Fault

LEMMA ReportType ==
  ASSUME HostTypes, NEW l, NEW origin, Report(l, origin)
  PROVE  reported' \subseteq Outcome
  BY DEF HostTypes, Report, Outcomes, Doubt, Outcome

\* The pipe loses its host's end, or takes a frame.
LEMMA PipeFacts ==
  ASSUME HostTypes
  PROVE  /\ \A b \in BOOLEAN : /\ [pipe EXCEPT !.open = b] \in PipeType
                               /\ [pipe EXCEPT !.open = b].frames = pipe.frames
         /\ \A f \in {"start", "cancelled", "closed"} :
               /\ [pipe EXCEPT !.frames = Append(@, f)] \in PipeType
               /\ [pipe EXCEPT !.frames = Append(@, f)].frames = Append(pipe.frames, f)
         /\ pipe.frames # <<>> =>
               /\ [pipe EXCEPT !.frames = Tail(@)] \in PipeType
               /\ [pipe EXCEPT !.frames = Tail(@)].frames = Tail(pipe.frames)
  <1>1. \A f \in {"start", "cancelled", "closed"} :
           Append(pipe.frames, f) \in Seq({"start", "cancelled", "closed"})
    BY AppendProperties DEF HostTypes, PipeType
  <1>2. pipe.frames # <<>> => Tail(pipe.frames) \in Seq({"start", "cancelled", "closed"})
    BY HeadTailProperties DEF HostTypes, PipeType
  <1> QED BY <1>1, <1>2 DEF HostTypes, PipeType

-----------------------------------------------------------------------------
(* The owner's side *)

\* _request_stop keeps the first reason.
LEMMA StoppedFacts ==
  ASSUME OwnerTypes, NEW r \in Stops
  PROVE  /\ Stopped(owner, r) \in OwnerType
         /\ Stopped(owner, r).pc = owner.pc /\ Stopped(owner, r).seq = owner.seq
         /\ Stopped(owner, r).stop = IF owner.stop = "none" THEN r ELSE owner.stop
  BY DEF OwnerTypes, OwnerType, Stopped

\* The places the owner goes to, with the number of its last receipt.
LEMMA OwnerGoes ==
  ASSUME OwnerTypes, NEW p \in OwnerPlaces
  PROVE  /\ [owner EXCEPT !.pc = p] \in OwnerType
         /\ [owner EXCEPT !.pc = p].pc = p /\ [owner EXCEPT !.pc = p].stop = owner.stop
         /\ [owner EXCEPT !.pc = p, !.seq = @ + 1] \in OwnerType
         /\ [owner EXCEPT !.pc = p, !.seq = @ + 1].pc = p
         /\ [owner EXCEPT !.pc = p, !.seq = @ + 1].stop = owner.stop
  <1>1. PICK n \in Nat : n = owner.seq + 1
    BY DEF OwnerTypes, OwnerType
  <1>2. [owner EXCEPT !.pc = p, !.seq = @ + 1] = [owner EXCEPT !.pc = p, !.seq = n]
    BY <1>1
  <1>3. /\ [owner EXCEPT !.pc = p, !.seq = n] \in OwnerType
        /\ [owner EXCEPT !.pc = p, !.seq = n].pc = p
        /\ [owner EXCEPT !.pc = p, !.seq = n].stop = owner.stop
    BY DEF OwnerTypes, OwnerType
  <1> QED BY <1>2, <1>3 DEF OwnerTypes, OwnerType

\* What a step of the owner or of its target keeps.
OwnerGood ==
    /\ OwnerTypes' /\ OwnerInv' /\ ThreadInv'
    /\ \A r : Tells(r) => Tells(r)'
    /\ Never => Never'
    /\ owner.pc = "absent" <=> owner'.pc = "absent"

LEMMA ReadStartGood ==
  ASSUME IInv, ReadStart
  PROVE  OwnerGood /\ pipe' \in PipeType
  <1>0. HostTypes /\ OwnerTypes
    BY Types DEF IInv
  <1>1. UNCHANGED <<receipt, target, ended, thread>> /\ owner.pc = "reading" /\ target = "none"
    BY DEF ReadStart, OwnerStep, hostVars, IInv, OwnerInv
  <1>2. CASE pipe.frames # <<>> /\ owner' = [owner EXCEPT !.pc = "launch"]
             /\ pipe' = [pipe EXCEPT !.frames = Tail(@)]
    <2>1. owner' \in OwnerType /\ owner'.pc = "launch" /\ owner'.stop = owner.stop
      BY <1>0, <1>2, OwnerGoes DEF OwnerPlaces
    <2>2. pipe' \in PipeType /\ pipe'.frames = Tail(pipe.frames)
      BY <1>0, <1>2, PipeFacts
    <2>3. \A n \in DOMAIN pipe'.frames : pipe'.frames[n] # "start"
      <3>1. pipe.frames \in Seq({"start", "cancelled", "closed"})
        BY <1>0 DEF HostTypes, PipeType
      <3>2. \A n \in DOMAIN Tail(pipe.frames) :
               /\ n + 1 \in DOMAIN pipe.frames /\ n + 1 # 1
               /\ Tail(pipe.frames)[n] = pipe.frames[n + 1]
        BY <1>2, <3>1
      <3> QED BY <2>2, <3>2 DEF IInv, OwnerInv
    <2>4. thread \notin {"spawning", "spawned", "sending", "broken"}
      BY <1>2 DEF IInv, ThreadInv
    <2>5. OwnerTypes'
      BY <1>0, <1>1, <2>1 DEF OwnerTypes
    <2>6. OwnerInv'
      BY <1>1, <2>1, <2>3 DEF IInv, OwnerInv, Tells
    <2>7. ThreadInv'
      BY <1>1, <2>1, <2>4 DEF IInv, ThreadInv
    <2>8. (\A r : Tells(r) => Tells(r)') /\ ~Never
      BY <1>1, <2>1 DEF Tells, Never, OwnerEnded
    <2> QED BY <1>1, <2>1, <2>2, <2>5, <2>6, <2>7, <2>8 DEF OwnerGood
  <1>3. CASE owner' = [owner EXCEPT !.pc = "gone"] /\ UNCHANGED pipe
    <2>1. owner' \in OwnerType /\ owner'.pc = "gone" /\ owner'.stop = owner.stop
      BY <1>0, <1>3, OwnerGoes DEF OwnerPlaces
    <2>2. OwnerTypes' /\ pipe' \in PipeType
      BY <1>0, <1>1, <1>3, <2>1 DEF OwnerTypes, HostTypes
    <2>3. OwnerInv'
      BY <1>1, <1>3, <2>1 DEF IInv, OwnerInv, Tells
    <2>4. ThreadInv'
      BY <1>1, <1>3, <2>1 DEF IInv, ThreadInv
    <2>5. (\A r : Tells(r) => Tells(r)') /\ ~Never
      BY <1>1, <2>1 DEF Tells, Never, OwnerEnded
    <2> QED BY <1>1, <2>1, <2>2, <2>3, <2>4, <2>5 DEF OwnerGood
  <1> QED BY <1>2, <1>3 DEF ReadStart

LEMMA LaunchGood ==
  ASSUME IInv, Launch
  PROVE  OwnerGood
  <1>0. HostTypes /\ OwnerTypes
    BY Types DEF IInv
  <1>1. /\ UNCHANGED <<ended, thread, pipe>> /\ owner.pc = "launch" /\ target = "none"
        /\ thread \notin {"spawning", "spawned", "sending", "broken"}
    BY DEF Launch, OwnerStep, hostVars, IInv, OwnerInv, ThreadInv
  <1>2. \A n \in DOMAIN pipe.frames : pipe.frames[n] # "start"
    BY <1>1 DEF IInv, OwnerInv
  <1>3. CASE target' = "alive" /\ owner' = [owner EXCEPT !.pc = "started"] /\ UNCHANGED receipt
    <2>1. owner' \in OwnerType /\ owner'.pc = "started" /\ owner'.stop = owner.stop
      BY <1>0, <1>3, OwnerGoes DEF OwnerPlaces
    <2>2. OwnerTypes'
      BY <1>0, <1>1, <1>3, <2>1 DEF OwnerTypes
    <2>3. OwnerInv'
      BY <1>1, <1>2, <1>3, <2>1 DEF IInv, OwnerInv, Tells
    <2>4. ThreadInv'
      BY <1>1, <2>1 DEF IInv, ThreadInv
    <2>5. (\A r : Tells(r) => Tells(r)') /\ ~Never
      BY <1>1 DEF Tells, Never, OwnerEnded
    <2> QED BY <1>1, <2>1, <2>2, <2>3, <2>4, <2>5 DEF OwnerGood
  <1>4. CASE /\ receipt' = [state |-> "failed", seq |-> 1, reason |-> "launch_failed"]
             /\ owner' = [owner EXCEPT !.pc = "gone"] /\ UNCHANGED target
    <2>1. owner' \in OwnerType /\ owner'.pc = "gone" /\ owner'.stop = owner.stop
      BY <1>0, <1>4, OwnerGoes DEF OwnerPlaces
    <2>2. receipt' \in ReceiptType /\ receipt'.state = "failed"
      BY <1>4 DEF ReceiptType, Terminal, Reasons
    <2>3. OwnerTypes'
      BY <1>0, <1>1, <1>4, <2>1, <2>2 DEF OwnerTypes
    <2>4. OwnerInv'
      BY <1>1, <1>2, <1>4, <2>1, <2>2 DEF IInv, OwnerInv, Tells
    <2>5. ThreadInv'
      BY <1>1, <1>4, <2>1 DEF IInv, ThreadInv
    <2>6. (\A r : Tells(r) => Tells(r)') /\ ~Never
      BY <1>1 DEF Tells, Never, OwnerEnded
    <2> QED BY <1>1, <2>1, <2>3, <2>4, <2>5, <2>6 DEF OwnerGood
  <1> QED BY <1>3, <1>4 DEF Launch

\* The running owner: from what a step does to the target and to the reason it stops for.
LEMMA RunningGood ==
  ASSUME IInv, owner.pc \in {"started", "loop", "failing"}, UNCHANGED thread,
         OwnerTypes', owner'.pc \in {"loop", "failing", "gone", "killed"},
         \A n \in DOMAIN pipe'.frames : pipe'.frames[n] # "start",
         Tells(receipt)',
         owner'.stop = "exited" => ended' = "itself" /\ target' \in {"orphans", "gone"},
         owner'.stop = "none" /\ owner'.pc = "loop" /\ target' \in {"orphans", "gone"}
            => ended' = "itself",
         target' \in {"alive", "orphans"} => owner'.pc # "gone"
  PROVE  OwnerGood
  <1>1. thread \notin {"spawning", "spawned", "sending"} /\ (thread = "broken" => FALSE)
    BY DEF IInv, ThreadInv
  <1>2. OwnerInv'
    BY DEF OwnerInv
  <1>3. ThreadInv'
    BY <1>1 DEF ThreadInv
  <1>4. (\A r : Tells(r) => Tells(r)') /\ ~Never
    BY DEF Tells, Never, OwnerEnded
  <1> QED BY <1>2, <1>3, <1>4 DEF OwnerGood

LEMMA LoopGood ==
  ASSUME IInv, PublishRunning \/ ReadControls \/ LimitStops \/ IoFails \/ NoticeExit
               \/ Escalate \/ Finish \/ LoopFails \/ EmergencyCleanup
  PROVE  OwnerGood /\ pipe' \in PipeType
  <1> USE DEF IInv
  <1>0. HostTypes /\ OwnerTypes
    BY Types
  <1>1. /\ UNCHANGED thread /\ owner.pc \in {"started", "loop", "failing"}
        /\ \A n \in DOMAIN pipe.frames : pipe.frames[n] # "start"
    BY DEF PublishRunning, ReadControls, LimitStops, IoFails, NoticeExit, Escalate, Finish, LoopFails,
           EmergencyCleanup, OwnerStep, hostVars, OwnerInv
  <1>2. receipt.state \notin {"failed", "exited"} /\ Tells(receipt)
    BY <1>1 DEF OwnerInv, Tells
  <1>3. pipe' = pipe => pipe' \in PipeType
    BY <1>0 DEF HostTypes
  <1>4. Limits \subseteq Stops /\ {"exited", "io_error", "cleanup_failed", "host_lost"} \subseteq Stops
    BY DEF Stops
  <1>5. CASE PublishRunning
    <2>1. UNCHANGED <<target, ended, pipe>> /\ owner.pc \in {"started", "loop"}
      BY <1>5 DEF PublishRunning
    <2>2. owner' \in OwnerType /\ owner'.pc = "loop" /\ owner'.stop = owner.stop
      BY <1>0, <1>5, OwnerGoes DEF PublishRunning, OwnerPlaces
    <2>3. owner.seq + 1 \in Nat
      BY <1>0 DEF OwnerTypes, OwnerType
    <2>4. receipt' \in ReceiptType /\ receipt'.state = "running"
      BY <1>5, <2>3 DEF PublishRunning, ReceiptType, Reasons
    <2>5. OwnerTypes' /\ Tells(receipt)'
      BY <1>0, <2>1, <2>2, <2>4 DEF OwnerTypes, Tells
    <2>6. OwnerGood
      BY <1>1, <2>1, <2>2, <2>5, RunningGood DEF OwnerInv
    <2> QED BY <1>3, <2>1, <2>6
  <1>6. CASE ReadControls
    <2>1. UNCHANGED <<receipt, target, ended>> /\ owner.pc = "loop"
      BY <1>6 DEF ReadControls, OwnerStep
    <2>2. CASE pipe.frames # <<>> /\ owner' = Stopped(owner, Head(pipe.frames))
               /\ pipe' = [pipe EXCEPT !.frames = Tail(@)]
      <3>1. pipe.frames \in Seq({"start", "cancelled", "closed"})
        BY <1>0 DEF HostTypes, PipeType
      <3>2. /\ pipe.frames[1] = Head(pipe.frames) /\ 1 \in DOMAIN pipe.frames
            /\ \A n \in DOMAIN Tail(pipe.frames) :
                  n + 1 \in DOMAIN pipe.frames /\ Tail(pipe.frames)[n] = pipe.frames[n + 1]
            /\ Head(pipe.frames) \in {"start", "cancelled", "closed"}
        BY <2>2, <3>1
      <3>3. Head(pipe.frames) \in Stops /\ Head(pipe.frames) # "exited" /\ Head(pipe.frames) # "none"
        BY <1>1, <3>2 DEF Stops
      <3>4. pipe' \in PipeType /\ pipe'.frames = Tail(pipe.frames)
        BY <1>0, <2>2, PipeFacts
      <3>5. /\ owner' \in OwnerType /\ owner'.pc = "loop"
            /\ owner'.stop = IF owner.stop = "none" THEN Head(pipe.frames) ELSE owner.stop
        BY <1>0, <2>1, <2>2, <3>3, StoppedFacts
      <3>6. \A n \in DOMAIN pipe'.frames : pipe'.frames[n] # "start"
        BY <1>1, <3>2, <3>4
      <3>7. OwnerTypes' /\ Tells(receipt)'
        BY <1>0, <1>2, <2>1, <3>5 DEF OwnerTypes, Tells
      <3>8. OwnerGood
        BY <1>1, <2>1, <3>3, <3>5, <3>6, <3>7, RunningGood DEF OwnerInv
      <3> QED BY <3>4, <3>8
    <2>3. CASE owner' = Stopped(owner, "host_lost") /\ UNCHANGED pipe
      <3>1. /\ owner' \in OwnerType /\ owner'.pc = "loop"
            /\ owner'.stop = IF owner.stop = "none" THEN "host_lost" ELSE owner.stop
        BY <1>0, <1>4, <2>1, <2>3, StoppedFacts
      <3>2. OwnerTypes' /\ Tells(receipt)'
        BY <1>0, <1>2, <2>1, <3>1 DEF OwnerTypes, Tells
      <3>3. OwnerGood
        BY <1>1, <2>1, <2>3, <3>1, <3>2, RunningGood DEF OwnerInv
      <3> QED BY <1>3, <2>3, <3>3
    <2> QED BY <1>6, <2>2, <2>3 DEF ReadControls
  <1>7. CASE LimitStops \/ NoticeExit
    <2>1. /\ UNCHANGED <<receipt, target, ended, pipe>> /\ owner.pc = "loop" /\ owner.stop = "none"
      BY <1>7 DEF LimitStops, NoticeExit, OwnerStep
    <2>2. PICK r \in Stops : /\ owner' = Stopped(owner, r) /\ r # "none"
                             /\ r = "exited" => target \in {"orphans", "gone"}
      <3>1. \A x \in Limits : x # "exited" /\ x # "none"
        BY DEF Limits
      <3> QED BY <1>4, <1>7, <3>1 DEF LimitStops, NoticeExit
    <2>3. owner' \in OwnerType /\ owner'.pc = "loop" /\ owner'.stop = r
      BY <1>0, <2>1, <2>2, StoppedFacts
    <2>4. OwnerTypes' /\ Tells(receipt)'
      BY <1>0, <1>2, <2>1, <2>3 DEF OwnerTypes, Tells
    <2>5. OwnerGood
      BY <1>1, <2>1, <2>2, <2>3, <2>4, RunningGood DEF OwnerInv
    <2> QED BY <1>3, <2>1, <2>5
  <1>8. CASE IoFails \/ LoopFails
    <2>1. UNCHANGED <<receipt, target, ended, pipe>>
      BY <1>8 DEF IoFails, LoopFails, OwnerStep
    <2>2. PICK r \in {"io_error", "cleanup_failed"}, p \in {"loop", "failing"} :
             owner' = [Stopped(owner, r) EXCEPT !.pc = p, !.failed = TRUE]
      <3>1. CASE IoFails
        <4>1. Stopped(owner, "io_error") \in OwnerType /\ Stopped(owner, "io_error").pc = "loop"
          BY <1>0, <1>4, <3>1, StoppedFacts DEF IoFails, OwnerStep
        <4> DEFINE o == Stopped(owner, "io_error")
        <4>2. owner' = [o EXCEPT !.failed = TRUE]
          BY <3>1 DEF IoFails
        <4> HIDE DEF o
        <4>3. o \in OwnerType /\ o.pc = "loop"
          BY <4>1 DEF o
        <4>4. [o EXCEPT !.failed = TRUE] = [o EXCEPT !.pc = "loop", !.failed = TRUE]
          BY <4>3 DEF OwnerType
        <4> QED BY <4>2, <4>4 DEF o
      <3> QED BY <1>8, <3>1 DEF LoopFails
    <2> DEFINE o == Stopped(owner, r)
    <2>3. /\ o \in OwnerType
          /\ o.stop = IF owner.stop = "none" THEN r ELSE owner.stop
      BY <1>0, <1>4, <2>2, StoppedFacts
    <2> HIDE DEF o
    <2>4. owner' = [o EXCEPT !.pc = p, !.failed = TRUE]
      BY <2>2 DEF o
    <2>5. owner' \in OwnerType /\ owner'.pc = p /\ owner'.stop = o.stop
      BY <2>3, <2>4 DEF OwnerType, OwnerPlaces
    <2>6. OwnerTypes' /\ Tells(receipt)'
      BY <1>0, <1>2, <2>1, <2>5 DEF OwnerTypes, Tells
    <2>7. OwnerGood
      BY <1>1, <2>1, <2>3, <2>5, <2>6, RunningGood DEF OwnerInv
    <2> QED BY <1>3, <2>1, <2>7
  <1>9. CASE Escalate
    <2>1. /\ UNCHANGED <<receipt, owner, pipe>> /\ owner.pc = "loop" /\ owner.stop # "none"
          /\ target \in {"alive", "orphans"} /\ target' = "gone"
          /\ ended' = IF target = "alive" THEN "stopped" ELSE ended
      BY <1>9 DEF Escalate, OwnerStep
    <2>2. OwnerTypes' /\ Tells(receipt)'
      BY <1>0, <1>2, <2>1 DEF OwnerTypes, Tells
    <2>3. OwnerGood
      BY <1>1, <2>1, <2>2, RunningGood DEF OwnerInv
    <2> QED BY <1>3, <2>1, <2>3
  <1>10. CASE Finish
    <2>1. /\ UNCHANGED <<target, ended, pipe>> /\ owner.stop # "none" /\ target = "gone"
      BY <1>10 DEF Finish, OwnerStep
    <2>2. owner' \in OwnerType /\ owner'.pc = "gone" /\ owner'.stop = owner.stop
      BY <1>0, <1>10, OwnerGoes DEF Finish, OwnerPlaces
    <2>3. owner.seq + 1 \in Nat /\ owner.stop \in Stops
      BY <1>0, <2>1 DEF OwnerTypes, OwnerType
    <2>4. /\ receipt' \in ReceiptType /\ receipt'.state \in {"unknown", "exited"}
          /\ receipt'.state = "exited" => receipt'.reason = owner.stop
      <3>1. CASE receipt' = [state |-> "unknown", seq |-> owner.seq + 1, reason |-> "cleanup_failed"]
        BY <2>3, <3>1 DEF ReceiptType, Terminal, Reasons, Stops
      <3>2. CASE receipt' = [state |-> "exited", seq |-> owner.seq + 1, reason |-> owner.stop]
        BY <2>3, <3>2 DEF ReceiptType, Terminal, Reasons
      <3> QED BY <1>10, <3>1, <3>2 DEF Finish
    <2>5. OwnerTypes'
      BY <1>0, <2>1, <2>2, <2>4 DEF OwnerTypes
    <2>6. Tells(receipt)'
      BY <2>1, <2>2, <2>4 DEF Tells, OwnerInv
    <2>7. OwnerGood
      BY <1>1, <2>1, <2>2, <2>5, <2>6, RunningGood DEF OwnerInv
    <2> QED BY <1>3, <2>1, <2>7
  <1>11. CASE EmergencyCleanup
    <2>1. /\ UNCHANGED pipe /\ target' = "gone"
          /\ ended' = IF target = "alive" THEN "stopped" ELSE ended
      BY <1>11 DEF EmergencyCleanup, OwnerStep
    <2>2. owner' \in OwnerType /\ owner'.pc = "gone" /\ owner'.stop = owner.stop
      BY <1>0, <1>11, OwnerGoes DEF EmergencyCleanup, OwnerPlaces
    <2>3. owner.seq + 1 \in Nat
      BY <1>0 DEF OwnerTypes, OwnerType
    <2>4. receipt' \in ReceiptType /\ receipt'.state = "unknown"
      BY <1>11, <2>3 DEF EmergencyCleanup, ReceiptType, Terminal, Reasons, Stops
    <2>5. OwnerTypes' /\ Tells(receipt)'
      BY <1>0, <2>1, <2>2, <2>4 DEF OwnerTypes, Tells
    <2>6. OwnerGood
      BY <1>1, <2>1, <2>2, <2>5, RunningGood DEF OwnerInv
    <2> QED BY <1>3, <2>1, <2>6
  <1> QED BY <1>5, <1>6, <1>7, <1>8, <1>9, <1>10, <1>11

LEMMA OwnerDiesGood ==
  ASSUME IInv, OwnerDies
  PROVE  OwnerGood
  <1> USE DEF IInv
  <1>0. HostTypes /\ OwnerTypes
    BY Types
  <1>1. UNCHANGED <<receipt, pipe, thread>> /\ owner.pc \notin {"absent", "gone", "killed"}
    BY DEF OwnerDies, OwnerRuns, hostVars
  <1>2. owner' \in OwnerType /\ owner'.pc = "killed" /\ owner'.stop = owner.stop
    BY <1>0, OwnerGoes DEF OwnerDies, OwnerPlaces
  <1>3. \/ UNCHANGED <<target, ended>>
        \/ target = "alive" /\ target' \in {"orphans", "gone"} /\ ended' = "stopped"
    BY DEF OwnerDies
  <1>4. OwnerTypes'
    BY <1>0, <1>1, <1>2, <1>3 DEF OwnerTypes
  <1>5. (\A r : Tells(r) => Tells(r)') /\ ~Never
    BY <1>1 DEF Tells, Never, OwnerEnded
  <1>6. Tells(receipt)'
    BY <1>1 DEF Tells, OwnerInv
  <1>7. OwnerInv'
    BY <1>1, <1>2, <1>3, <1>6 DEF OwnerInv
  <1>8. ThreadInv'
    BY <1>1, <1>2, <1>3 DEF ThreadInv
  <1> QED BY <1>1, <1>2, <1>4, <1>5, <1>7, <1>8 DEF OwnerGood

LEMMA TargetEndsGood ==
  ASSUME IInv, TargetEnds
  PROVE  OwnerGood
  <1> USE DEF IInv
  <1>0. HostTypes /\ OwnerTypes
    BY Types
  <1>1. /\ UNCHANGED <<receipt, pipe, thread, owner>>
        /\ target \in {"alive", "orphans"} /\ owner.pc \in {"started", "loop", "failing", "killed"}
        /\ target' \in {"orphans", "gone"}
        /\ ended' = IF target = "orphans" THEN ended
                    ELSE IF owner.stop = "none" THEN "itself" ELSE "stopped"
    BY DEF TargetEnds, hostVars, OwnerInv
  <1>2. OwnerTypes'
    BY <1>0, <1>1 DEF OwnerTypes
  <1>3. (\A r : Tells(r) => Tells(r)') /\ ~Never
    BY <1>1 DEF Tells, Never
  <1>4. Tells(receipt)'
    BY <1>1 DEF Tells, OwnerInv
  <1>5. OwnerInv'
    BY <1>1, <1>4 DEF OwnerInv
  <1>6. ThreadInv'
    BY <1>1 DEF ThreadInv
  <1> QED BY <1>1, <1>2, <1>3, <1>5, <1>6 DEF OwnerGood

\* Every step of the owner and of its target keeps the invariant.
LEMMA OwnerSideStep ==
  ASSUME IInv, OwnerSteps \/ TargetEnds
  PROVE  IInv'
  <1>0. HostTypes /\ OwnerTypes
    BY Types DEF IInv
  <1>1. OwnerGood
    BY ReadStartGood, LaunchGood, LoopGood, OwnerDiesGood, TargetEndsGood DEF OwnerSteps
  <1>2. pipe' \in PipeType
    <2>1. UNCHANGED pipe => pipe' \in PipeType
      BY <1>0 DEF HostTypes
    <2> QED BY <2>1, ReadStartGood, LoopGood DEF OwnerSteps, Launch, OwnerDies, TargetEnds
  <1>3. UNCHANGED <<lease, thread, hands, pc, cancelled, host, reported>>
    BY DEF OwnerSteps, ReadStart, Launch, PublishRunning, ReadControls, LimitStops, IoFails, NoticeExit,
           Escalate, Finish, LoopFails, EmergencyCleanup, OwnerDies, TargetEnds, OwnerStep, hostVars
  <1>4. faults' \in 0 .. MaxFaults
    <2>1. UNCHANGED faults \/ Fault
      BY DEF OwnerSteps, ReadStart, Launch, PublishRunning, ReadControls, LimitStops, IoFails,
             NoticeExit, Escalate, Finish, LoopFails, EmergencyCleanup, OwnerDies, TargetEnds
    <2> QED BY <1>0, <2>1, FaultType DEF HostTypes
  <1>5. HostTypes'
    BY <1>0, <1>2, <1>3, <1>4 DEF HostTypes
  <1>6. TypeOK'
    BY <1>1, <1>5, Types, PTL DEF OwnerGood
  <1>7. HandInv'
    <2> SUFFICES ASSUME NEW h \in Handles, HandInv!(h)
                 PROVE  HandInv!(h)'
      BY DEF HandInv, IInv
    <2> QED BY <1>1, <1>3 DEF OwnerGood, Tells
  <1>8. StartInv'
    <2>1. owner.pc = "absent" <=> owner'.pc = "absent"
      BY <1>1 DEF OwnerGood
    <2> QED BY <1>3, <2>1 DEF IInv, StartInv, NoHands
  <1>9. LeaseInv'
    <2>1. lease.state = "exited" =>
             /\ target' = "gone" /\ owner'.pc = "gone"
             /\ lease.reason = "exited" => ended' = "itself"
      BY <1>1 DEF IInv, LeaseInv, OwnerGood, Tells
    <2> QED BY <1>1, <1>3, <2>1 DEF IInv, LeaseInv, OwnerGood
  <1>10. ReportInv'
    BY <1>3 DEF IInv, ReportInv
  <1> QED BY <1>1, <1>6, <1>7, <1>8, <1>9, <1>10 DEF IInv, OwnerGood

-----------------------------------------------------------------------------
(* The host's side *)

\* The new lease tells the truth of the target.
LeaseOk ==
    /\ lease'.state = "failed" => Never
    /\ lease'.state = "exited" =>
          /\ target = "gone" /\ owner.pc = "gone"
          /\ lease'.reason = "exited" => ended = "itself"

\* A step of the host that leaves the owner alone and sends it nothing.
LEMMA HostKeeps ==
  ASSUME IInv, UNCHANGED ownerVars, pipe'.frames = pipe.frames, thread' \in {thread, "none"},
         HostTypes', LeaseOk, HandInv', StartInv', ReportInv'
  PROVE  IInv'
  <1>1. UNCHANGED <<receipt, owner, target, ended>>
    BY DEF ownerVars
  <1>2. OwnerTypes
    BY Types DEF IInv
  <1>3. OwnerTypes'
    BY <1>1, <1>2 DEF OwnerTypes
  <1>4. TypeOK'
    BY <1>3, Types, PTL
  <1>5. OwnerInv'
    BY <1>1 DEF IInv, OwnerInv, Tells
  <1>6. ThreadInv'
    BY <1>1 DEF IInv, ThreadInv
  <1>7. LeaseInv'
    BY <1>1 DEF LeaseInv, LeaseOk, Never, OwnerEnded
  <1> QED BY <1>4, <1>5, <1>6, <1>7 DEF IInv

LEMMA LeaseOkKeeps == ASSUME IInv, UNCHANGED lease PROVE LeaseOk
  BY DEF IInv, LeaseInv, LeaseOk

\* Conclusions are drawn from a lease that stays.
LEMMA ReportKeeps ==
  ASSUME IInv, pc.run = "end" => pc'.run = "end",
         lease' = lease \/ lease.state \in Active \/ pc.run = "create",
         \A o \in reported' \ reported :
            \/ o \notin {"succeeded", "failed"}
            \/ \E origin : o \in Outcomes(lease', origin)
            \/ o = "failed" /\ lease'.state = "none" /\ pc'.run = "end"
  PROVE  ReportInv'
  <1> USE DEF IInv
  <1>1. \A l, origin : /\ "failed" \in Outcomes(l, origin) =>
                             l.state = "failed" \/ (l.state = "exited" /\ l.reason # "exited")
                       /\ "succeeded" \in Outcomes(l, origin) =>
                             l.state = "exited" /\ l.reason = "exited"
    BY DEF Outcomes, Doubt
  <1>2. "failed" \in reported =>
           \/ lease'.state = "none" /\ pc'.run = "end"
           \/ lease'.state = "failed"
           \/ lease'.state = "exited" /\ lease'.reason # "exited"
    BY DEF ReportInv, StartInv, Nothing, Active
  <1>3. "succeeded" \in reported => lease'.state = "exited" /\ lease'.reason = "exited"
    BY DEF ReportInv, StartInv, Nothing, Active
  <1> QED BY <1>1, <1>2, <1>3 DEF ReportInv

LEMMA ReportAdds ==
  ASSUME NEW l, NEW origin, Report(l, origin)
  PROVE  \A o \in reported' \ reported : o \in Outcomes(l, origin)
  BY DEF Report

LEMMA UnreadTells == Tells(Unread) /\ Unread \in LookType /\ NoHandle \in HandleType
                     /\ NoHandle.look = Unread /\ NoHandle.state = "none"
  <1>1. Unread \in LookType
    BY DEF Unread, LookType, Reasons
  <1>2. NoHandle \in HandleShapes
    BY <1>1 DEF NoHandle, HandleShapes, LeaseStates
  <1> QED BY <1>1, <1>2, HandleShape DEF Tells, Unread, NoHandle

LEMMA HandKeeps ==
  ASSUME IInv, UNCHANGED <<ownerVars, hands>>, lease' = lease \/ lease'.seq = lease.seq + 1 \/ NoHands
  PROVE  HandInv'
  <1>1. lease.seq \in Nat /\ \A h \in Handles : hands[h].seq \in Nat
    BY DEF IInv, TypeOK, Handles, HandleType
  <1> QED BY <1>1 DEF IInv, HandInv, ownerVars, Tells, NoHands

\* One handle takes a new value.
LEMMA HandPut ==
  ASSUME IInv, UNCHANGED ownerVars, NEW h \in Handles, NEW k \in HandleType,
         hands' = [hands EXCEPT ![h] = k], lease' = lease \/ lease'.seq = lease.seq + 1,
         k.state \in Open \cup Terminal \cup {"none"},
         k.state # "none" => k.seq <= lease'.seq /\ (k.seq = lease'.seq => k.state = lease'.state),
         k.look # Unread => k.state \in Open /\ k.look.state # "unread",
         Tells(k.look)
  PROVE  /\ HandInv' /\ hands' \in [Handles -> HandleType]
         /\ \A g \in Handles : hands'[g] = IF g = h THEN k ELSE hands[g]
  <1>1. hands \in [Handles -> HandleType]
    BY Types DEF IInv, HostTypes
  <1>2. /\ hands' \in [Handles -> HandleType]
        /\ \A g \in Handles : hands'[g] = IF g = h THEN k ELSE hands[g]
    BY <1>1
  <1>3. lease.seq \in Nat /\ \A g \in Handles : hands[g].seq \in Nat
    BY <1>1 DEF IInv, TypeOK, HandleType
  <1>4. ASSUME NEW g \in Handles PROVE HandInv!(g)'
    BY <1>2, <1>3 DEF IInv, HandInv, ownerVars, Tells
  <1> QED BY <1>2, <1>4 DEF HandInv

\* Steps of the run, the reconciliation or the close that move no more than their place.
LEMMA PlaceOnly ==
  ASSUME IInv, UNCHANGED <<lease, ownerVars, thread, hands>>, pipe'.frames = pipe.frames, HostTypes',
         pc'.run \in {pc.run, "end"} \/ (pc.run \in {"poll", "stop", "tell", "wait", "drain"} /\
                                       pc'.run \in {"poll", "stop", "tell", "wait", "drain"}),
         pc.run = "end" => pc'.run = "end",
         pc'.closer \in {"stop", "tell", "wait"} =>
            pc.closer \in {"stop", "tell", "wait"} \/ hands["own"].state # "none",
         \A o \in reported' \ reported :
            \/ o \notin {"succeeded", "failed"}
            \/ \E origin : o \in Outcomes(lease', origin)
            \/ o = "failed" /\ lease'.state = "none" /\ pc'.run = "end"
  PROVE  IInv'
  <1>1. LeaseOk /\ HandInv' /\ ReportInv'
    BY LeaseOkKeeps, HandKeeps, ReportKeeps
  <1>2. StartInv'
    BY DEF IInv, StartInv, NoHands, ownerVars
  <1> QED BY <1>1, <1>2, HostKeeps

LEMMA CreateLeaseStep ==
  ASSUME IInv, CreateLease
  PROVE  IInv'
  <1>0. HostTypes /\ TypeOK
    BY Types DEF IInv
  <1>1. UNCHANGED <<ownerVars, pipe, thread, hands, cancelled, host, faults>> /\ pc.run = "create"
    BY DEF CreateLease, At
  <1>2. lease = Nothing /\ owner.pc = "absent" /\ thread = "none" /\ NoHands
    BY <1>1 DEF IInv, StartInv, Nothing
  <1>3. CASE lease' = [Nothing EXCEPT !.state = "prepared"] /\ Goto("run", "mkdir") /\ UNCHANGED reported
    <2>1. pc' \in PcType /\ pc'.run = "mkdir" /\ pc'.closer = pc.closer
      BY <1>0, <1>3, GotoRun DEF PcType, Runs
    <2>2. lease' \in LeaseType /\ lease'.state = "prepared"
      BY <1>3 DEF Nothing, LeaseType, Active, Reasons
    <2>3. HostTypes'
      BY <1>0, <1>1, <1>3, <2>1, <2>2 DEF HostTypes
    <2>4. HandInv'
      BY <1>1, <1>2, HandKeeps
    <2>5. StartInv'
      BY <1>1, <1>2, <2>1, <2>2 DEF IInv, StartInv, NoHands, ownerVars
    <2>6. ReportInv'
      BY <1>1, <1>3, ReportKeeps
    <2>7. LeaseOk
      BY <2>2 DEF LeaseOk
    <2> QED BY <1>1, <2>3, <2>4, <2>5, <2>6, <2>7, HostKeeps
  <1>4. CASE /\ \E o \in {"failed", "unknown"} : reported' = reported \cup {o}
             /\ Goto("run", "end") /\ UNCHANGED lease
    <2>1. pc' \in PcType /\ pc'.run = "end" /\ pc'.closer = pc.closer
      BY <1>0, <1>4, GotoRun DEF PcType, Runs
    <2>2. HostTypes'
      BY <1>0, <1>1, <1>4, <2>1 DEF HostTypes, Outcome
    <2>3. lease'.state = "none"
      BY <1>2, <1>4 DEF Nothing
    <2> QED BY <1>1, <1>4, <2>1, <2>2, <2>3, PlaceOnly
  <1> QED BY <1>3, <1>4 DEF CreateLease

\* The lease moves on while there is no handle.
LEMMA AloneStep ==
  ASSUME IInv, NEW s \in {"starting", "failed"}, NEW reason \in Reasons,
         lease' = StoredLease(s, reason), lease.state \in Active, NoHands,
         UNCHANGED <<ownerVars, hands>>, pipe'.frames = pipe.frames, HostTypes',
         pc'.run = IF s = "starting" THEN "spawn" ELSE "end", pc'.closer = pc.closer,
         s = "failed" => Never /\ thread' = "none",
         s = "starting" => pc.run # "end" /\ owner.pc = "absent" /\ thread' = "spawning",
         UNCHANGED reported \/ \E origin : Report(lease', origin)
  PROVE  IInv'
  <1> USE DEF IInv
  <1>1. lease'.state = s /\ lease'.seq = lease.seq + 1
    BY StoredFacts DEF Active, Terminal
  <1>2. HandInv'
    BY HandKeeps
  <1>3. StartInv'
    BY <1>1 DEF StartInv, NoHands, Handles
  <1>4. ReportInv'
    <2>1. pc.run = "end" => pc'.run = "end"
      OBVIOUS
    <2> QED BY <2>1, ReportKeeps, ReportAdds
  <1>5. UNCHANGED <<receipt, owner, target, ended>>
    BY DEF ownerVars
  <1>6. ThreadInv'
    BY <1>5 DEF ThreadInv, Never, OwnerEnded, OwnerInv
  <1>7. OwnerInv'
    BY <1>5 DEF OwnerInv, Tells
  <1>8. LeaseInv'
    BY <1>1, <1>5 DEF LeaseInv, Never, OwnerEnded
  <1>9. OwnerTypes
    BY Types
  <1>10. OwnerTypes'
    BY <1>5, <1>9 DEF OwnerTypes
  <1>11. TypeOK'
    BY <1>10, Types, PTL
  <1> QED BY <1>2, <1>3, <1>4, <1>6, <1>7, <1>8, <1>11

LEMMA DirectoryStep ==
  ASSUME IInv, MakeDirectory \/ DirectoryFails \/ StartFails
  PROVE  IInv'
  <1> USE DEF IInv
  <1>0. HostTypes /\ OwnerTypes
    BY Types
  <1>1. "none" \in Reasons /\ "launch_failed" \in Reasons
    BY DEF Reasons
  <1>2. /\ pc.run \in {"mkdir", "spawn", "send"} /\ lease.state \in Active /\ NoHands
        /\ UNCHANGED <<ownerVars, hands, cancelled, host>>
    BY DEF MakeDirectory, DirectoryFails, StartFails, At, StartInv, Active
  <1>3. CASE MakeDirectory
    <2>1. pc.run = "mkdir" /\ owner.pc = "absent" /\ lease' = StoredLease("starting", "none")
          /\ thread' = "spawning"
      BY <1>3 DEF MakeDirectory, At, StartInv
    <2>2. pc' \in PcType /\ pc'.run = "spawn" /\ pc'.closer = pc.closer
      BY <1>3, GotoRun DEF MakeDirectory, PcType, Runs
    <2>3. pipe' \in PipeType /\ pipe'.frames = pipe.frames
      BY <1>0, <1>3, PipeFacts DEF MakeDirectory
    <2>4. lease' \in LeaseType
      BY <1>1, <2>1, StoredFacts DEF LeaseType, Active
    <2>5. HostTypes'
      BY <1>0, <1>2, <1>3, <2>1, <2>2, <2>3, <2>4 DEF HostTypes, MakeDirectory
    <2> QED BY <1>1, <1>2, <1>3, <2>1, <2>2, <2>3, <2>5, AloneStep DEF MakeDirectory
  <1>4. CASE DirectoryFails \/ StartFails
    <2>1. lease' = StoredLease("failed", "launch_failed") /\ Report(lease', "execution")
      BY <1>4 DEF DirectoryFails, StartFails
    <2>2. pc' \in PcType /\ pc'.run = "end" /\ pc'.closer = pc.closer
      BY <1>4, GotoRun DEF DirectoryFails, StartFails, PcType, Runs
    <2>3. pipe' \in PipeType /\ pipe'.frames = pipe.frames
      BY <1>0, <1>4, PipeFacts DEF DirectoryFails, StartFails, HostTypes
    <2>4. Never /\ thread' = "none"
      <3>1. CASE DirectoryFails
        BY <3>1 DEF DirectoryFails, At, StartInv, OwnerInv, Never
      <3>2. CASE StartFails
        BY <3>2 DEF StartFails, ThreadInv, Never, OwnerEnded
      <3> QED BY <1>4, <3>1, <3>2
    <2>5. lease' \in LeaseType
      BY <1>1, <2>1, StoredFacts DEF LeaseType, Terminal
    <2>6. reported' \subseteq Outcome
      BY <1>0, <2>1, ReportType
    <2>7. faults' \in 0 .. MaxFaults
      BY <1>0, <1>4, FaultType DEF DirectoryFails, StartFails, HostTypes
    <2>8. HostTypes'
      BY <1>0, <1>2, <2>2, <2>3, <2>4, <2>5, <2>6, <2>7 DEF HostTypes
    <2> QED BY <1>1, <1>2, <2>1, <2>2, <2>3, <2>4, <2>8, AloneStep
  <1> QED BY <1>3, <1>4

\* The thread that starts the owner.
LEMMA ThreadStep ==
  ASSUME IInv, ThreadSpawns \/ ThreadRefused \/ SendStart \/ ThreadSends
  PROVE  IInv'
  <1> USE DEF IInv
  <1>0. HostTypes /\ OwnerTypes
    BY Types
  <1>1. /\ UNCHANGED <<lease, receipt, target, ended, hands, cancelled, host, reported>>
        /\ thread \in {"spawning", "spawned", "sending"} /\ thread' # "none"
        /\ thread' \in {"spawned", "sending", "sent", "broken"}
    BY DEF ThreadSpawns, ThreadRefused, SendStart, ThreadSends, ownerVars
  <1>2. /\ pc' \in PcType /\ pc'.closer = pc.closer
        /\ pc'.run = pc.run \/ (pc.run = "spawn" /\ pc'.run = "send")
    <2>1. CASE SendStart
      BY <2>1, GotoRun DEF SendStart, At, PcType, Runs
    <2>2. CASE UNCHANGED pc
      BY <1>0, <2>2 DEF HostTypes
    <2> QED BY <2>1, <2>2 DEF ThreadSpawns, ThreadRefused, ThreadSends
  <1>3. /\ owner' \in OwnerType /\ owner'.stop = owner.stop
        /\ \/ thread = "spawning" /\ owner'.pc = "reading" /\ thread' = "spawned"
           \/ owner' = owner /\ thread # "spawning" /\ thread' # "broken"
           \/ owner' = owner /\ thread' = "broken" /\ owner.pc \in {"absent", "gone", "killed"}
    <2>1. CASE ThreadSpawns
      BY <1>0, <2>1, OwnerGoes DEF ThreadSpawns, OwnerPlaces
    <2>2. CASE ThreadRefused
      BY <1>0, <2>2 DEF ThreadRefused, ownerVars, ThreadInv, OwnerTypes
    <2>3. CASE SendStart
      BY <1>0, <2>3 DEF SendStart, ownerVars, OwnerTypes
    <2>4. CASE ThreadSends
      BY <1>0, <2>4 DEF ThreadSends, ownerVars, OwnerTypes, OwnerEnded
    <2> QED BY <2>1, <2>2, <2>3, <2>4
  <1>4. /\ pipe' \in PipeType
        /\ \/ pipe'.frames = pipe.frames /\ thread' # "sent"
           \/ /\ thread = "sending" /\ thread' = "sent" /\ owner' = owner /\ owner.pc = "reading"
              /\ pipe.frames = <<>> /\ pipe'.frames = Append(pipe.frames, "start")
    <2>1. CASE UNCHANGED pipe /\ thread' # "sent"
      BY <1>0, <2>1 DEF HostTypes
    <2>2. CASE /\ ThreadSends /\ ~OwnerEnded /\ thread' = "sent"
               /\ pipe' = [pipe EXCEPT !.frames = Append(@, "start")]
      <3>1. thread = "sending" /\ owner' = owner /\ owner.pc = "reading" /\ pipe.frames = <<>>
        BY <2>2 DEF ThreadSends, ownerVars, ThreadInv, OwnerEnded
      <3> QED BY <1>0, <2>2, <3>1, PipeFacts
    <2> QED BY <2>1, <2>2 DEF ThreadSpawns, ThreadRefused, SendStart, ThreadSends
  <1>5. faults' \in 0 .. MaxFaults
    BY <1>0, FaultType DEF ThreadSpawns, ThreadRefused, SendStart, ThreadSends, HostTypes
  <1>6. HostTypes' /\ OwnerTypes'
    BY <1>0, <1>1, <1>2, <1>3, <1>4, <1>5 DEF HostTypes, OwnerTypes
  <1>7. TypeOK'
    BY <1>6, Types, PTL
  <1>8. /\ owner.pc \in {"absent", "reading", "gone", "killed"} /\ target = "none"
        /\ pipe.frames = <<>>
    BY <1>1 DEF ThreadInv, OwnerInv
  <1>9. \A r : Tells(r) => Tells(r)'
    BY <1>1, <1>3 DEF Tells, ThreadInv
  <1>10. \A n \in DOMAIN pipe'.frames :
            pipe'.frames[n] = "start" => n = 1 /\ owner'.pc \in {"reading", "gone", "killed"}
    <2>1. CASE pipe'.frames = <<>>
      BY <2>1
    <2>2. CASE pipe'.frames = Append(<<>>, "start") /\ owner'.pc = "reading"
      <3>1. DOMAIN Append(<<>>, "start") = {1}
        BY AppendProperties
      <3> QED BY <2>2, <3>1
    <2> QED BY <1>4, <1>8, <2>1, <2>2
  <1>11. OwnerInv'
    BY <1>1, <1>3, <1>8, <1>9, <1>10 DEF OwnerInv, Tells, ThreadInv
  <1>12. ThreadInv'
    BY <1>1, <1>3, <1>4, <1>8 DEF ThreadInv
  <1>13. HandInv'
    <2> SUFFICES ASSUME NEW h \in Handles, HandInv!(h)
                 PROVE  HandInv!(h)'
      BY DEF HandInv
    <2> QED BY <1>1, <1>9 DEF Tells
  <1>14. StartInv'
    BY <1>1, <1>2, <1>3 DEF StartInv, NoHands
  <1>15. LeaseInv'
    BY <1>1, <1>3, <1>8 DEF LeaseInv, Never, OwnerEnded, ThreadInv
  <1>16. ReportInv'
    BY <1>1, <1>2 DEF ReportInv
  <1> QED BY <1>7, <1>11, <1>12, <1>13, <1>14, <1>15, <1>16

\* The run leaves its first places without touching more than its own place.
LEMMA PlaceStep ==
  ASSUME IInv, StartReturns \/ StartGivesUp \/ WaitReturns \/ DrainReturns \/ ReconcileReturns
               \/ StartClose \/ CloseReturns \/ HostRestarts
  PROVE  IInv'
  <1> USE DEF IInv
  <1>0. HostTypes
    BY Types
  <1>1. UNCHANGED <<lease, ownerVars, thread, hands, cancelled, faults>>
    BY DEF StartReturns, StartGivesUp, WaitReturns, DrainReturns, ReconcileReturns, StartClose,
           CloseReturns, HostRestarts
  <1>2. pipe' \in PipeType /\ pipe'.frames = pipe.frames
    BY <1>0, PipeFacts DEF StartReturns, StartGivesUp, WaitReturns, DrainReturns, ReconcileReturns,
                           StartClose, CloseReturns, HostRestarts, HostTypes
  <1>3. host' \in {"up", "down", "recovering"}
    BY <1>0 DEF StartReturns, StartGivesUp, WaitReturns, DrainReturns, ReconcileReturns,
                StartClose, CloseReturns, HostRestarts, HostTypes
  <1>4. /\ reported' \subseteq Outcome
        /\ \A o \in reported' \ reported : \E origin : o \in Outcomes(lease', origin)
    <2>1. CASE UNCHANGED reported
      BY <1>0, <2>1 DEF HostTypes
    <2>2. CASE \E origin : Report(lease, origin)
      BY <1>0, <1>1, <2>2, ReportType, ReportAdds
    <2> QED BY <2>1, <2>2 DEF StartReturns, StartGivesUp, WaitReturns, DrainReturns, ReconcileReturns,
                              StartClose, CloseReturns, HostRestarts
  <1>5. CASE StartReturns \/ StartGivesUp \/ WaitReturns \/ DrainReturns
    <2>1. /\ pc' \in PcType /\ pc'.closer = pc.closer
          /\ pc.run \in {"poll", "wait", "drain"} /\ pc'.run \in {"wait", "stop", "end"}
      BY <1>5, GotoRun DEF StartReturns, StartGivesUp, WaitReturns, DrainReturns, At, PcType, Runs
    <2>2. HostTypes'
      BY <1>0, <1>1, <1>2, <1>3, <1>4, <2>1 DEF HostTypes
    <2> QED BY <1>1, <1>2, <1>4, <2>1, <2>2, PlaceOnly
  <1>6. CASE ReconcileReturns
    <2>1. pc' \in PcType /\ pc'.closer = pc.closer /\ pc'.run = pc.run
      BY <1>6, GotoRecon DEF ReconcileReturns, PcType, Recons
    <2>2. HostTypes'
      BY <1>0, <1>1, <1>2, <1>3, <1>4, <2>1 DEF HostTypes
    <2> QED BY <1>1, <1>2, <1>4, <2>1, <2>2, PlaceOnly
  <1>7. CASE StartClose \/ CloseReturns
    <2>1. /\ pc' \in PcType /\ pc'.run = pc.run
          /\ pc'.closer \in {"stop", "done"}
          /\ pc'.closer = "stop" => hands["own"].state \in Active
      BY <1>7, GotoCloser DEF StartClose, CloseReturns, PcType, Closers
    <2>2. HostTypes'
      BY <1>0, <1>1, <1>2, <1>3, <1>4, <2>1 DEF HostTypes
    <2>3. pc'.closer \in {"stop", "tell", "wait"} => hands["own"].state # "none"
      BY <2>1 DEF Active
    <2> QED BY <1>1, <1>2, <1>4, <2>1, <2>2, <2>3, PlaceOnly
  <1>8. CASE HostRestarts
    <2>1. UNCHANGED pc
      BY <1>8 DEF HostRestarts
    <2>2. HostTypes'
      BY <1>0, <1>1, <1>2, <1>3, <1>4, <2>1 DEF HostTypes
    <2> QED BY <1>1, <1>2, <1>4, <2>1, <2>2, PlaceOnly
  <1> QED BY <1>5, <1>6, <1>7, <1>8

LEMMA RegisterStep ==
  ASSUME IInv, RegisterHandle
  PROVE  IInv'
  <1> USE DEF IInv
  <1>0. HostTypes
    BY Types
  <1>1. /\ UNCHANGED <<lease, ownerVars, pipe, cancelled, host, reported, faults>>
        /\ pc.run = "send" /\ thread = "sent" /\ thread' = "none"
    BY DEF RegisterHandle, At
  <1>2. lease.state = "starting" /\ NoHands /\ owner.pc # "absent"
    BY <1>1 DEF StartInv, ThreadInv
  <1> DEFINE k == [NoHandle EXCEPT !.state = "starting", !.seq = lease.seq]
  <1>3. k \in HandleType /\ k.state = "starting" /\ k.seq = lease.seq /\ k.look = Unread
    <2>1. lease.seq \in Nat /\ "starting" \in LeaseStates
      BY <1>0 DEF HostTypes, LeaseType, LeaseStates, Active
    <2>2. NoHandle \in HandleShapes /\ NoHandle.look = Unread
      BY UnreadTells, HandleShape
    <2>3. k \in HandleShapes /\ k.state = "starting" /\ k.seq = lease.seq /\ k.look = NoHandle.look
      BY <2>1, <2>2 DEF HandleShapes
    <2> QED BY <2>2, <2>3, HandleShape
  <1>4. hands' = [hands EXCEPT !["own"] = k]
    BY DEF RegisterHandle
  <1> HIDE DEF k
  <1>5. /\ HandInv' /\ hands' \in [Handles -> HandleType]
        /\ hands'["own"] = k
    <2>1. lease.seq <= lease'.seq /\ lease' = lease
      BY <1>0, <1>1 DEF HostTypes, LeaseType
    <2> QED BY <1>1, <1>2, <1>3, <1>4, <2>1, UnreadTells, HandPut DEF Handles, Open
  <1>6. pc' \in PcType /\ pc'.closer = pc.closer /\ pc'.run = "poll"
    BY GotoRun DEF RegisterHandle, PcType, Runs
  <1>7. HostTypes'
    BY <1>0, <1>1, <1>5, <1>6 DEF HostTypes
  <1>8. StartInv'
    BY <1>1, <1>2, <1>3, <1>5, <1>6 DEF StartInv, ownerVars
  <1>9. ReportInv' /\ LeaseOk
    BY <1>1, <1>6, ReportKeeps, LeaseOkKeeps
  <1> QED BY <1>1, <1>5, <1>7, <1>8, <1>9, HostKeeps

\* A transition the store accepts starts from the stored state.
LEMMA AllowedFacts ==
  ASSUME IInv, NEW h \in Handles, NEW s, hands[h].state \in Open, Allowed(h, s)
  PROVE  /\ lease.state = hands[h].state /\ lease.seq = hands[h].seq
         /\ s \in Open \cup Terminal /\ lease.state \in Active
  <1>1. \A x \in Open : Transitions[x] \subseteq Open \cup Terminal
    BY DEF Transitions, Open, Terminal
  <1> QED BY <1>1 DEF IInv, HandInv, Allowed, Fresh, Open, Active

\* A handle that moves on together with its lease.
LEMMA HandMoves ==
  ASSUME IInv, NEW h \in Handles, NEW s \in Open \cup Terminal, NEW reason \in Reasons,
         NEW k \in HandleType,
         lease.state = hands[h].state, lease.seq = hands[h].seq, lease.state \in Open,
         lease' = StoredLease(s, reason), hands' = [hands EXCEPT ![h] = k],
         k.state = s, k.seq = hands[h].seq + 1, k.look = Unread,
         UNCHANGED <<ownerVars, thread, cancelled, host, reported, faults>>,
         pipe' \in PipeType, pipe'.frames = pipe.frames,
         pc' \in PcType, pc'.run = pc.run \/ (pc.run = "stop" /\ pc'.run = "tell"),
         pc'.closer = pc.closer \/ (pc.closer = "stop" /\ pc'.closer = "tell"),
         LeaseOk
  PROVE  IInv'
  <1> USE DEF IInv
  <1>0. HostTypes
    BY Types
  <1>1. lease' \in LeaseType /\ lease'.state = s /\ lease'.seq = lease.seq + 1
    BY StoredFacts DEF LeaseType, Open, Active
  <1>2. /\ HandInv' /\ hands' \in [Handles -> HandleType]
        /\ \A g \in Handles : hands'[g] = IF g = h THEN k ELSE hands[g]
    <2>1. k.seq <= lease'.seq
      BY <1>0, <1>1 DEF HostTypes, LeaseType
    <2> QED BY <1>1, <2>1, UnreadTells, HandPut DEF Open, Terminal
  <1>3. HostTypes'
    BY <1>0, <1>1, <1>2 DEF HostTypes
  <1>4. s # "none" /\ s # "prepared" /\ hands[h].state # "none" /\ lease.state \in Active
    BY DEF Open, Terminal, Active
  <1>5. StartInv'
    <2>1. \A g \in Handles : hands'[g].state # "none" <=> hands[g].state # "none"
      BY <1>2, <1>4
    <2>2. ~NoHands
      BY <1>4 DEF NoHands
    <2> QED BY <1>1, <1>4, <2>1, <2>2 DEF StartInv, NoHands, ownerVars, Handles, Nothing
  <1>6. ReportInv'
    BY <1>4, ReportKeeps
  <1> QED BY <1>2, <1>3, <1>5, <1>6, HostKeeps

\* A handle that looks at a receipt, or away from it; its caller may move or give up.
LEMMA HandLooks ==
  ASSUME IInv, NEW h \in Handles, NEW k \in HandleType, hands' = [hands EXCEPT ![h] = k],
         k.state = hands[h].state, k.seq = hands[h].seq,
         k.look # Unread => k.state \in Open /\ k.look.state # "unread", Tells(k.look),
         UNCHANGED <<lease, ownerVars, pipe, thread, host, faults>>, cancelled' \in BOOLEAN,
         pc' \in PcType,
         \/ pc'.run \in {pc.run, "end"} 
         \/ pc.run = "wait" /\ pc'.run = "stop",
         pc.run = "end" => pc'.run = "end",
         pc'.closer \in {pc.closer, "failed"},
         reported' \subseteq Outcome,
         \A o \in reported' \ reported :
            o \notin {"succeeded", "failed"} \/ \E origin : o \in Outcomes(lease', origin)
  PROVE  IInv'
  <1> USE DEF IInv
  <1>0. HostTypes
    BY Types
  <1>1. /\ HandInv' /\ hands' \in [Handles -> HandleType]
        /\ \A g \in Handles : hands'[g] = IF g = h THEN k ELSE hands[g]
    BY HandPut DEF HandInv
  <1>2. HostTypes'
    BY <1>0, <1>1 DEF HostTypes
  <1>3. StartInv'
    <2>1. \A g \in Handles : hands'[g].state = hands[g].state
      BY <1>1
    <2> QED BY <2>1 DEF StartInv, NoHands, ownerVars, Handles
  <1>4. ReportInv' /\ LeaseOk
    BY ReportKeeps, LeaseOkKeeps
  <1> QED BY <1>1, <1>2, <1>3, <1>4, HostKeeps

\* A handle with another look, as the code writes it.
LEMMA LookFacts ==
  ASSUME IInv, NEW h \in Handles, NEW l \in LookType
  PROVE  /\ [hands EXCEPT ![h].look = l] = [hands EXCEPT ![h] = [hands[h] EXCEPT !.look = l]]
         /\ [hands[h] EXCEPT !.look = l] \in HandleType
         /\ [hands[h] EXCEPT !.look = l].state = hands[h].state
         /\ [hands[h] EXCEPT !.look = l].seq = hands[h].seq
         /\ [hands[h] EXCEPT !.look = l].look = l
  <1>1. hands \in [Handles -> HandleShapes]
    BY Types, HandleShape DEF IInv, HostTypes
  <1>2. [hands EXCEPT ![h].look = l] = [hands EXCEPT ![h] = [hands[h] EXCEPT !.look = l]]
    BY <1>1
  <1> DEFINE k == hands[h]
  <1> HIDE DEF k
  <1>3. k \in HandleShapes
    BY <1>1 DEF k
  <1>4. /\ [k EXCEPT !.look = l] \in HandleShapes
        /\ [k EXCEPT !.look = l].state = k.state /\ [k EXCEPT !.look = l].seq = k.seq
        /\ [k EXCEPT !.look = l].look = l
    BY <1>3 DEF HandleShapes
  <1> QED BY <1>2, <1>4, HandleShape DEF k

\* A handle that looks away and remembers the receipt it saw.
LEMMA SeenFacts ==
  ASSUME IInv, NEW h \in Handles, NEW n \in Nat,
         hands' = [hands EXCEPT ![h].look = Unread, ![h].seen = n]
  PROVE  \E k \in HandleType :
            /\ hands' = [hands EXCEPT ![h] = k]
            /\ k.state = hands[h].state /\ k.seq = hands[h].seq /\ k.look = Unread
  <1>1. hands \in [Handles -> HandleShapes]
    BY Types, HandleShape DEF IInv, HostTypes
  <1>2. PICK l \in LookType : l = Unread
    BY UnreadTells
  <1>3. hands' = [hands EXCEPT ![h] = [hands[h] EXCEPT !.look = l, !.seen = n]]
    BY <1>1, <1>2
  <1>4. PICK k : k = [hands[h] EXCEPT !.look = l, !.seen = n]
    OBVIOUS
  <1>5. PICK b : b = hands[h]
    OBVIOUS
  <1>6. b \in HandleShapes /\ k = [b EXCEPT !.look = l, !.seen = n]
    BY <1>1, <1>4, <1>5
  <1>7. k \in HandleShapes /\ k.state = b.state /\ k.seq = b.seq /\ k.look = l
    BY <1>6 DEF HandleShapes
  <1>8. hands' = [hands EXCEPT ![h] = k]
    BY <1>3, <1>4
  <1>9. k \in HandleType
    BY <1>7, HandleShape
  <1> QED BY <1>2, <1>5, <1>7, <1>8, <1>9

LEMMA ReadReceiptStep ==
  ASSUME IInv, NEW h \in Handles, ReadReceipt(h)
  PROVE  IInv'
  <1> USE DEF IInv
  <1>0. HostTypes /\ OwnerTypes
    BY Types
  <1>1. receipt \in LookType /\ receipt.state # "unread"
    BY <1>0 DEF OwnerTypes, ReceiptType, LookType, Terminal
  <1>2. hands[h].state \in Open
    BY DEF ReadReceipt, HandInv, Active, Open, Terminal
  <1> DEFINE k == [hands[h] EXCEPT !.look = receipt]
  <1>3. /\ hands' = [hands EXCEPT ![h] = k] /\ k \in HandleType
        /\ k.state = hands[h].state /\ k.seq = hands[h].seq /\ k.look = receipt
    BY <1>1, LookFacts DEF ReadReceipt
  <1> HIDE DEF k
  <1>4. Tells(k.look)
    BY <1>3 DEF OwnerInv
  <1>5. /\ UNCHANGED <<lease, ownerVars, pipe, thread, host, faults, reported, pc, cancelled>>
        /\ pc \in PcType /\ cancelled \in BOOLEAN /\ reported \subseteq Outcome
    BY <1>0 DEF ReadReceipt, HostTypes
  <1> QED BY <1>1, <1>2, <1>3, <1>4, <1>5, HandLooks

LEMMA ApplyReceiptStep ==
  ASSUME IInv, NEW h \in Handles, ApplyReceipt(h)
  PROVE  IInv'
  <1> USE DEF IInv
  <1>0. HostTypes /\ OwnerTypes
    BY Types
  <1>1. /\ UNCHANGED <<ownerVars, thread, pc, cancelled, host, reported, faults>>
        /\ hands[h].look # Unread
        /\ pc \in PcType /\ cancelled \in BOOLEAN /\ reported \subseteq Outcome
    BY <1>0 DEF ApplyReceipt, HostTypes
  <1>2. hands[h].state \in Open /\ Tells(hands[h].look)
    BY <1>1 DEF HandInv
  <1>3. hands[h].look.seq \in Nat /\ hands[h].look.reason \in Reasons
    BY <1>0 DEF HostTypes, HandleType
  <1>4. CASE hands' = [hands EXCEPT ![h].look = Unread] /\ UNCHANGED <<lease, pipe>>
    <2> DEFINE k == [hands[h] EXCEPT !.look = Unread]
    <2>1. /\ hands' = [hands EXCEPT ![h] = k] /\ k \in HandleType
          /\ k.state = hands[h].state /\ k.seq = hands[h].seq /\ k.look = Unread
      BY <1>4, LookFacts, UnreadTells
    <2> HIDE DEF k
    <2> QED BY <1>1, <1>4, <2>1, UnreadTells, HandLooks
  <1>5. ASSUME NEW w \in Wanted(h), Allowed(h, w[1]), lease' = StoredLease(w[1], w[2]),
               hands' = [hands EXCEPT ![h] = [Held(h, w[1]) EXCEPT !.seen = hands[h].look.seq]],
               pipe' = IF w[1] \in Terminal THEN ClosedBy(h) ELSE pipe
        PROVE  IInv'
    <2> DEFINE s == w[1]
    <2>1. /\ w[2] \in Reasons
          /\ s \in {"failed", "exited"} => hands[h].look.state = s /\ w[2] = hands[h].look.reason
      BY <1>3, <1>5 DEF Wanted, Projected, Reasons, Stops
    <2>2. /\ lease.state = hands[h].state /\ lease.seq = hands[h].seq
          /\ s \in Open \cup Terminal /\ lease.state \in Open
      BY <1>2, <1>5, AllowedFacts
    <2>3. s \in Active \cup Terminal
      BY <2>2 DEF Open, Active
    <2>4. /\ Held(h, s) \in HandleType /\ Held(h, s).state = s
          /\ Held(h, s).seq = hands[h].seq + 1 /\ Held(h, s).look = Unread
      BY <2>3, HeldFacts
    <2>5. PICK n \in Nat : n = hands[h].look.seq
      BY <1>3
    <2>6. PICK g : g = Held(h, s)
      OBVIOUS
    <2> DEFINE k == [g EXCEPT !.seen = n]
    <2>7. g \in HandleShapes
      BY <2>4, <2>6, HandleShape
    <2>8. k \in HandleShapes /\ k.state = g.state /\ k.seq = g.seq /\ k.look = g.look
      BY <2>5, <2>7 DEF HandleShapes
    <2>9. hands' = [hands EXCEPT ![h] = k]
      BY <1>5, <2>5, <2>6
    <2> HIDE DEF k
    <2>10. /\ k \in HandleType /\ k.state = s /\ k.seq = hands[h].seq + 1 /\ k.look = Unread
      BY <2>4, <2>6, <2>8, HandleShape
    <2>11. lease'.state = s /\ lease'.reason = w[2]
      BY <1>5, <2>1, <2>3, StoredFacts
    <2>12. LeaseOk
      BY <1>2, <2>1, <2>11 DEF LeaseOk, Tells, Never, OwnerEnded
    <2>13. pipe' \in PipeType /\ pipe'.frames = pipe.frames
      BY <1>0, <1>5, PipeFacts DEF ClosedBy, HostTypes
    <2> HIDE DEF s
    <2>14. lease' = StoredLease(s, w[2])
      BY <1>5 DEF s
    <2> QED BY <1>1, <2>1, <2>2, <2>9, <2>10, <2>12, <2>13, <2>14, HandMoves
  <1> QED BY <1>4, <1>5 DEF ApplyReceipt

LEMMA ApplyRefusedStep ==
  ASSUME IInv, NEW h \in Handles, ApplyRefused(h)
  PROVE  IInv'
  <1> USE DEF IInv
  <1>0. HostTypes
    BY Types
  <1>1. /\ UNCHANGED <<lease, ownerVars, pipe, thread, cancelled, host, faults>>
        /\ cancelled \in BOOLEAN /\ reported \subseteq Outcome
    BY <1>0 DEF ApplyRefused, HostTypes
  <1>2. PICK n \in Nat : n = hands[h].look.seq
    BY <1>0 DEF HostTypes, HandleType
  <1>3. PICK k \in HandleType :
           /\ hands' = [hands EXCEPT ![h] = k]
           /\ k.state = hands[h].state /\ k.seq = hands[h].seq /\ k.look = Unread
    <2>1. hands' = [hands EXCEPT ![h].look = Unread, ![h].seen = n]
      BY <1>2 DEF ApplyRefused
    <2> QED BY <2>1, SeenFacts
  <1>4. /\ pc' \in PcType /\ pc'.run \in {pc.run, "end"} /\ pc'.closer \in {pc.closer, "failed"}
        /\ pc.run = "end" => pc'.run = "end"
    <2>1. CASE Goto("closer", "failed")
      BY <2>1, GotoCloser DEF PcType, Closers
    <2>2. CASE Goto("run", "end")
      BY <2>2, GotoRun DEF PcType, Runs
    <2>3. CASE Goto("recon", "done")
      BY <2>3, GotoRecon DEF PcType, Recons
    <2> QED BY <2>1, <2>2, <2>3 DEF ApplyRefused
  <1>5. /\ reported' \subseteq Outcome
        /\ \A o \in reported' \ reported :
              o \notin {"succeeded", "failed"} \/ \E origin : o \in Outcomes(lease', origin)
    <2>1. CASE UNCHANGED reported
      BY <1>1, <2>1
    <2>2. CASE Report(lease, "execution")
      BY <1>0, <1>1, <2>2, ReportType, ReportAdds
    <2>3. CASE reported' = reported \cup {"manual_intervention"}
      BY <1>1, <2>3 DEF Outcome
    <2> QED BY <2>1, <2>2, <2>3 DEF ApplyRefused
  <1> QED BY <1>1, <1>3, <1>4, <1>5, UnreadTells, HandLooks

LEMMA CancelStep ==
  ASSUME IInv, CancelRun
  PROVE  IInv'
  <1> USE DEF IInv
  <1>0. HostTypes
    BY Types
  <1>1. cancelled' \in BOOLEAN
    BY Zenon DEF CancelRun
  <1>2. /\ UNCHANGED <<lease, ownerVars, pipe, thread, host, reported, faults>>
        /\ reported \subseteq Outcome
    BY <1>0 DEF CancelRun, HostTypes
  <1> DEFINE k == [hands["own"] EXCEPT !.look = Unread]
  <1>3. /\ hands' = [hands EXCEPT !["own"] = k] /\ k \in HandleType
        /\ k.state = hands["own"].state /\ k.seq = hands["own"].seq /\ k.look = Unread
    BY LookFacts, UnreadTells DEF CancelRun, Handles
  <1> HIDE DEF k
  <1>4. /\ pc' \in PcType /\ pc'.closer = pc.closer /\ pc.run # "end"
        /\ pc'.run = "end" \/ (pc.run = "wait" /\ pc'.run = "stop")
    BY GotoRun DEF CancelRun, PcType, Runs
  <1> QED BY <1>1, <1>2, <1>3, <1>4, UnreadTells, HandLooks DEF Handles

\* A stopping task goes on, or gives up with what the lease says.
LEMMA StopGoes ==
  ASSUME IInv, NEW task \in {"run", "closer"}, pc[task] \in {"stop", "tell"},
         NEW place \in {"tell", "wait", "drain"},
         task = "closer" => place # "drain",
         Goto(task, place)
  PROVE  /\ pc' \in PcType
         /\ task = "run" => pc'.run = place /\ pc'.closer = pc.closer
                             /\ pc.run \in {"stop", "tell"}
         /\ task = "closer" => pc'.closer = place /\ pc'.run = pc.run
                             /\ pc.closer \in {"stop", "tell"}
  <1>1. CASE task = "run"
    <2>1. Goto("run", place) /\ pc.run \in {"stop", "tell"}
      BY <1>1 DEF IInv, TypeOK
    <2> QED BY <1>1, <2>1, GotoRun DEF IInv, PcType, Runs
  <1>2. CASE task = "closer"
    <2>1. Goto("closer", place) /\ pc.closer \in {"stop", "tell"}
      BY <1>2 DEF IInv, TypeOK
    <2> QED BY <1>2, <2>1, GotoCloser DEF IInv, PcType, Closers
  <1> QED BY <1>1, <1>2

LEMMA StopGivesUp ==
  ASSUME IInv, NEW task \in {"run", "closer"},
         IF task = "run" THEN Goto(task, "end") /\ Report(lease, "execution")
                         ELSE Goto(task, "failed") /\ UNCHANGED reported,
         UNCHANGED <<lease, hands, ownerVars, pipe, thread, cancelled, host, faults>>
  PROVE  IInv'
  <1> USE DEF IInv
  <1>0. HostTypes
    BY Types
  <1>1. CASE task = "run"
    <2>1. pc' \in PcType /\ pc'.run = "end" /\ pc'.closer = pc.closer
      BY <1>1, GotoRun DEF PcType, Runs
    <2>2. /\ reported' \subseteq Outcome
          /\ \A o \in reported' \ reported : \E origin : o \in Outcomes(lease', origin)
      BY <1>0, <1>1, ReportType, ReportAdds
    <2>3. HostTypes'
      BY <1>0, <2>1, <2>2 DEF HostTypes
    <2> QED BY <2>1, <2>2, <2>3, PlaceOnly
  <1>2. CASE task = "closer"
    <2>1. pc' \in PcType /\ pc'.closer = "failed" /\ pc'.run = pc.run
      BY <1>2, GotoCloser DEF PcType, Closers
    <2>2. HostTypes'
      BY <1>0, <1>2, <2>1 DEF HostTypes
    <2> QED BY <1>2, <2>1, <2>2, PlaceOnly
  <1> QED BY <1>1, <1>2

LEMMA StopPersistsStep ==
  ASSUME IInv, NEW task \in {"run", "closer"}, StopPersists(task)
  PROVE  IInv'
  <1> USE DEF IInv
  <1>0. HostTypes
    BY Types
  <1>1. /\ UNCHANGED <<ownerVars, pipe, thread, cancelled, host, faults>>
        /\ pc[task] = "stop"
    BY DEF StopPersists, At
  <1>2. AfterStop(task) \in {"drain", "wait"} /\ (task = "closer" => AfterStop(task) = "wait")
    BY DEF AfterStop
  <1>3. ASSUME NEW place \in {"tell", "wait", "drain"}, task = "closer" => place # "drain",
               Goto(task, place), UNCHANGED <<lease, hands, reported>>
        PROVE  IInv'
    <2>1. /\ pc' \in PcType
          /\ task = "run" => pc'.run = place /\ pc'.closer = pc.closer /\ pc.run \in {"stop", "tell"}
          /\ task = "closer" => pc'.closer = place /\ pc'.run = pc.run /\ pc.closer \in {"stop", "tell"}
      BY <1>1, <1>3, StopGoes
    <2>2. HostTypes'
      BY <1>0, <1>1, <1>3, <2>1 DEF HostTypes
    <2>3. CASE task = "run"
      BY <1>1, <1>3, <2>1, <2>2, <2>3, PlaceOnly
    <2>4. CASE task = "closer"
      BY <1>1, <1>3, <2>1, <2>2, <2>4, PlaceOnly
    <2> QED BY <2>3, <2>4
  <1>4. CASE hands["own"].state = "running" /\ ~Fresh("own")
             /\ (IF task = "run" THEN Goto(task, "end") /\ Report(lease, "execution")
                                  ELSE Goto(task, "failed") /\ UNCHANGED reported)
             /\ UNCHANGED <<lease, hands>>
    BY <1>1, <1>4, StopGivesUp
  <1>5. CASE /\ hands["own"].state = "running" /\ Fresh("own")
             /\ lease' = StoredLease("stopping", "none")
             /\ hands' = [hands EXCEPT !["own"] = Held("own", "stopping")]
             /\ Goto(task, "tell") /\ UNCHANGED reported
    <2>1. /\ pc' \in PcType
          /\ task = "run" => pc'.run = "tell" /\ pc'.closer = pc.closer
          /\ task = "closer" => pc'.closer = "tell" /\ pc'.run = pc.run
          /\ task = "run" => pc.run = "stop"
          /\ task = "closer" => pc.closer = "stop"
      BY <1>1, <1>5, StopGoes
    <2>2. lease.state = hands["own"].state /\ lease.seq = hands["own"].seq /\ lease.state \in Open
      BY <1>5 DEF HandInv, Fresh, Handles, Open
    <2>3. "stopping" \in Open \cup Terminal /\ "none" \in Reasons /\ "own" \in Handles
      BY DEF Open, Reasons, Handles
    <2>4. /\ Held("own", "stopping") \in HandleType /\ Held("own", "stopping").state = "stopping"
          /\ Held("own", "stopping").seq = hands["own"].seq + 1
          /\ Held("own", "stopping").look = Unread
      BY <2>3, HeldFacts DEF Active
    <2>5. LeaseOk
      <3>1. lease'.state = "stopping"
        BY <1>5, <2>3, StoredFacts DEF Active
      <3> QED BY <3>1 DEF LeaseOk
    <2>6. pipe' \in PipeType /\ pipe'.frames = pipe.frames
      BY <1>0, <1>1 DEF HostTypes
    <2>7. /\ pc'.run = pc.run \/ (pc.run = "stop" /\ pc'.run = "tell")
          /\ pc'.closer = pc.closer \/ (pc.closer = "stop" /\ pc'.closer = "tell")
      BY <2>1
    <2>8. PICK k \in HandleType : k = Held("own", "stopping")
      BY <2>4
    <2> QED BY <1>1, <1>5, <2>1, <2>2, <2>3, <2>4, <2>5, <2>6, <2>7, <2>8, HandMoves
  <1> QED BY <1>2, <1>3, <1>4, <1>5 DEF StopPersists

\* stop's frame reaches the owner's pipe: the start frame has been there before it.
LEMMA StopSendsStep ==
  ASSUME IInv, NEW task \in {"run", "closer"}, StopSends(task)
  PROVE  IInv'
  <1> USE DEF IInv
  <1>0. HostTypes /\ OwnerTypes
    BY Types
  <1>1. /\ UNCHANGED <<lease, ownerVars, thread, hands, cancelled, host, faults>>
        /\ pc[task] = "tell"
    BY DEF StopSends, At
  <1>2. AfterStop(task) \in {"drain", "wait"} /\ (task = "closer" => AfterStop(task) = "wait")
    BY DEF AfterStop
  <1>3. CASE ~pipe.open
    BY <1>1, <1>3, StopGivesUp DEF StopSends
  <1>4. CASE pipe.open
    <2>1. Goto(task, AfterStop(task)) /\ UNCHANGED reported
      BY <1>4 DEF StopSends
    <2>2. /\ pc' \in PcType
          /\ task = "run" => pc'.run = AfterStop(task) /\ pc'.closer = pc.closer
                              /\ pc.run \in {"stop", "tell"}
          /\ task = "closer" => pc'.closer = AfterStop(task) /\ pc'.run = pc.run
                              /\ pc.closer \in {"stop", "tell"}
      BY <1>1, <1>2, <2>1, StopGoes
    <2>3. CASE pipe' = [pipe EXCEPT !.open = FALSE]
      <3>1. pipe' \in PipeType /\ pipe'.frames = pipe.frames
        BY <1>0, <2>3, PipeFacts
      <3>2. HostTypes'
        BY <1>0, <1>1, <2>1, <2>2, <3>1 DEF HostTypes
      <3>3. CASE task = "run"
        BY <1>1, <1>2, <2>1, <2>2, <3>1, <3>2, <3>3, PlaceOnly
      <3>4. CASE task = "closer"
        BY <1>1, <1>2, <2>1, <2>2, <3>1, <3>2, <3>4, PlaceOnly
      <3> QED BY <3>3, <3>4
    <2>4. CASE pipe' = [pipe EXCEPT !.frames = Append(@, StopReason(task))]
      <3>0. StopReason(task) \in {"cancelled", "closed"}
        BY DEF StopReason
      <3>1. pipe' \in PipeType /\ pipe'.frames = Append(pipe.frames, StopReason(task))
        BY <1>0, <2>4, <3>0, PipeFacts
      <3>2. HostTypes' /\ OwnerTypes'
        BY <1>0, <1>1, <2>1, <2>2, <3>1 DEF HostTypes, OwnerTypes, ownerVars
      <3>3. TypeOK'
        BY <3>2, Types, PTL
      <3>4. thread = "none" /\ owner.pc # "absent" /\ hands["own"].state # "none"
        BY <2>2 DEF StartInv
      <3>5. ThreadInv'
        BY <1>1, <3>4 DEF ThreadInv, ownerVars
      <3>6. \A n \in DOMAIN pipe'.frames :
               pipe'.frames[n] = "start" => n \in DOMAIN pipe.frames /\ pipe.frames[n] = "start"
        <4>1. pipe.frames \in Seq({"start", "cancelled", "closed"})
          BY <1>0 DEF HostTypes, PipeType
        <4> QED BY <3>0, <3>1, <4>1
      <3>7. OwnerInv'
        BY <1>1, <3>6 DEF OwnerInv, ownerVars, Tells
      <3>8. HandInv' /\ LeaseOk
        BY <1>1, HandKeeps, LeaseOkKeeps
      <3>9. LeaseInv'
        BY <1>1 DEF LeaseInv, Never, OwnerEnded, ownerVars
      <3>10. ReportInv'
        BY <1>1, <1>2, <2>1, <2>2 DEF ReportInv
      <3>11. StartInv'
        BY <1>1, <1>2, <2>2, <3>4 DEF StartInv, NoHands, ownerVars
      <3> QED BY <3>3, <3>5, <3>7, <3>8, <3>9, <3>10, <3>11
    <2> QED BY <1>4, <2>3, <2>4 DEF StopSends
  <1> QED BY <1>3, <1>4

-----------------------------------------------------------------------------
(* Reconciliation and the end of the host *)

LEMMA ReconcileStep ==
  ASSUME IInv, StartReconcile
  PROVE  IInv'
  <1> USE DEF IInv
  <1>0. HostTypes
    BY Types
  <1>1. /\ UNCHANGED <<ownerVars, pipe, thread, cancelled, host, faults>> /\ pc.run = "end"
    BY DEF StartReconcile
  <1>2. pc' \in PcType /\ pc'.run = "end" /\ pc'.closer = pc.closer
    BY <1>1, GotoRecon DEF StartReconcile, PcType, Recons
  <1>3. CASE lease.state = "none" /\ reported' = reported \cup {"failed"} /\ UNCHANGED <<lease, hands>>
    <2>1. HostTypes'
      BY <1>0, <1>1, <1>2, <1>3 DEF HostTypes, Outcome
    <2> QED BY <1>1, <1>2, <1>3, <2>1, PlaceOnly
  <1>4. CASE Report(lease, "recovery") /\ UNCHANGED <<lease, hands>>
    <2>1. /\ reported' \subseteq Outcome
          /\ \A o \in reported' \ reported : \E origin : o \in Outcomes(lease', origin)
      BY <1>0, <1>4, ReportType, ReportAdds
    <2>2. HostTypes'
      BY <1>0, <1>1, <1>2, <1>4, <2>1 DEF HostTypes
    <2> QED BY <1>1, <1>2, <1>4, <2>1, <2>2, PlaceOnly
  <1>5. CASE /\ lease.state = "prepared" /\ lease' = StoredLease("failed", "launch_failed")
             /\ Report(lease', "recovery") /\ UNCHANGED hands
    <2>1. Never /\ thread' = "none" /\ NoHands /\ lease.state \in Active
      BY <1>1, <1>5 DEF StartInv, OwnerInv, Never, Active
    <2>2. "launch_failed" \in Reasons
      BY DEF Reasons
    <2>3. lease' \in LeaseType
      BY <1>5, <2>2, StoredFacts DEF LeaseType, Terminal
    <2>4. reported' \subseteq Outcome
      BY <1>0, <1>5, ReportType
    <2>5. HostTypes'
      BY <1>0, <1>1, <1>2, <1>5, <2>3, <2>4 DEF HostTypes
    <2> QED BY <1>1, <1>2, <1>5, <2>1, <2>2, <2>5, AloneStep
  <1>6. CASE /\ lease.state \in Active \ {"prepared"}
             /\ hands' = [hands EXCEPT !["recovery"] =
                             [NoHandle EXCEPT !.state = lease.state, !.seq = lease.seq]]
             /\ UNCHANGED <<lease, reported>>
    <2>1. PICK k : k = [NoHandle EXCEPT !.state = lease.state, !.seq = lease.seq]
      OBVIOUS
    <2>2. lease.state \in Open
      BY <1>6 DEF Active, Open
    <2>3. k \in HandleType /\ k.state = lease.state /\ k.seq = lease.seq /\ k.look = Unread
      <3>1. lease.seq \in Nat /\ lease.state \in LeaseStates
        BY <1>0 DEF HostTypes, LeaseType, LeaseStates
      <3>2. NoHandle \in HandleShapes /\ NoHandle.look = Unread
        BY UnreadTells, HandleShape
      <3>3. k \in HandleShapes /\ k.state = lease.state /\ k.seq = lease.seq /\ k.look = NoHandle.look
        BY <2>1, <3>1, <3>2 DEF HandleShapes
      <3> QED BY <3>2, <3>3, HandleShape
    <2>4. hands' = [hands EXCEPT !["recovery"] = k] /\ lease.seq <= lease'.seq
      BY <1>0, <1>6, <2>1 DEF HostTypes, LeaseType
    <2>5. /\ HandInv' /\ hands' \in [Handles -> HandleType]
          /\ \A g \in Handles : hands'[g] = IF g = "recovery" THEN k ELSE hands[g]
      BY <1>1, <1>6, <2>2, <2>3, <2>4, UnreadTells, HandPut DEF Handles, Open
    <2>6. HostTypes'
      BY <1>0, <1>1, <1>2, <1>6, <2>5 DEF HostTypes
    <2>7. StartInv'
      BY <1>1, <1>2, <1>6, <2>2, <2>5 DEF StartInv, ownerVars, Handles, Open
    <2>8. ReportInv' /\ LeaseOk
      BY <1>1, <1>2, <1>6, ReportKeeps, LeaseOkKeeps
    <2> QED BY <1>1, <2>5, <2>6, <2>7, <2>8, HostKeeps
  <1> QED BY <1>3, <1>4, <1>5, <1>6 DEF StartReconcile

LEMMA WindowStep ==
  ASSUME IInv, WindowEnds
  PROVE  IInv'
  <1> USE DEF IInv
  <1>0. HostTypes
    BY Types
  <1>1. /\ UNCHANGED <<ownerVars, pipe, thread, pc, cancelled, host, reported, faults>>
        /\ Allowed("recovery", "unknown")
        /\ lease' = StoredLease("unknown", "host_lost")
        /\ hands' = [hands EXCEPT !["recovery"] = Held("recovery", "unknown")]
    BY DEF WindowEnds
  <1>2. "recovery" \in Handles /\ "unknown" \in Terminal /\ "host_lost" \in Reasons
    BY DEF Handles, Terminal, Reasons, Stops
  <1>3. hands["recovery"].state \in Open
    BY <1>2 DEF WindowEnds, HandInv, Active, Open, Terminal
  <1>4. /\ lease.state = hands["recovery"].state /\ lease.seq = hands["recovery"].seq
    BY <1>1, <1>2, <1>3, AllowedFacts
  <1>5. PICK k \in HandleType :
           /\ k = Held("recovery", "unknown") /\ k.state = "unknown"
           /\ k.seq = hands["recovery"].seq + 1 /\ k.look = Unread
    BY <1>2, HeldFacts
  <1>6. LeaseOk
    <2>1. lease'.state = "unknown"
      BY <1>1, <1>2, StoredFacts
    <2> QED BY <2>1 DEF LeaseOk
  <1>7. pipe' \in PipeType /\ pipe'.frames = pipe.frames /\ pc' \in PcType /\ pc'.run = pc.run
        /\ pc'.closer = pc.closer
    BY <1>0, <1>1 DEF HostTypes
  <1> QED BY <1>1, <1>2, <1>3, <1>4, <1>5, <1>6, <1>7, HandMoves

LEMMA HostEndsStep ==
  ASSUME IInv, HostDies \/ HostExits
  PROVE  IInv'
  <1> USE DEF IInv
  <1>0. HostTypes
    BY Types
  <1>1. HostEnds
    BY DEF HostDies, HostExits
  <1>2. /\ UNCHANGED <<lease, ownerVars, cancelled, reported>> /\ host' = "down" /\ thread' = "none"
        /\ pipe' = [pipe EXCEPT !.open = FALSE]
    BY <1>1 DEF HostEnds
  <1>3. /\ pc' \in PcType /\ pc'.run = "end" /\ pc'.recon = "idle" /\ pc'.closer = "idle"
        /\ hands' \in [Handles -> HandleType] /\ \A h \in Handles : hands'[h] = NoHandle
    BY <1>1, HostEndsFacts DEF PcType
  <1>4. pipe' \in PipeType /\ pipe'.frames = pipe.frames
    BY <1>0, <1>2, PipeFacts
  <1>5. faults' \in 0 .. MaxFaults
    BY <1>0, FaultType DEF HostDies, HostExits, HostTypes
  <1>6. HostTypes'
    BY <1>0, <1>2, <1>3, <1>4, <1>5 DEF HostTypes
  <1>7. HandInv'
    BY <1>2, <1>3, UnreadTells DEF HandInv, ownerVars, Tells
  <1>8. StartInv'
    BY <1>2, <1>3, UnreadTells DEF StartInv, NoHands, ownerVars, Handles
  <1>9. ReportInv' /\ LeaseOk
    BY <1>2, <1>3, ReportKeeps, LeaseOkKeeps
  <1> QED BY <1>2, <1>4, <1>6, <1>7, <1>8, <1>9, HostKeeps

-----------------------------------------------------------------------------
(* The theorems *)

LEMMA Initial == ASSUME Init PROVE IInv
  <1> USE DEF Init
  <1>1. /\ owner = [pc |-> "absent", stop |-> "none", failed |-> FALSE, seq |-> 0]
        /\ owner \in OwnerType /\ owner.pc = "absent" /\ owner.stop = "none"
    BY DEF OwnerType, OwnerPlaces
  <1>2. pipe \in PipeType /\ pipe.frames = <<>>
    BY DEF PipeType
  <1>3. /\ hands \in [Handles -> HandleType] /\ \A h \in Handles : hands[h] = NoHandle
    <2>1. hands = [h \in Handles |-> NoHandle]
      BY DEF Handles
    <2> QED BY <2>1, UnreadTells
  <1>4. pc \in PcType /\ pc.run = "create" /\ pc.closer = "idle"
    BY DEF PcType, Runs, Recons, Closers
  <1>5. lease \in LeaseType /\ receipt \in ReceiptType /\ lease.state = "none"
        /\ receipt.state = "none"
    BY DEF LeaseType, ReceiptType, Nothing, Reasons
  <1>6. cancelled \in BOOLEAN
    BY Zenon
  <1>7. HostTypes /\ OwnerTypes
    BY <1>1, <1>2, <1>3, <1>4, <1>5, <1>6, ProcessAssumption DEF HostTypes, OwnerTypes, Outcome
  <1>8. TypeOK
    BY <1>7, Types
  <1>9. OwnerInv
    BY <1>1, <1>2, <1>5 DEF OwnerInv, Tells
  <1>10. HandInv
    BY <1>3, UnreadTells DEF HandInv
  <1>11. StartInv
    BY <1>1, <1>3, <1>4, <1>5, UnreadTells DEF StartInv, NoHands, Handles
  <1>12. ThreadInv /\ LeaseInv /\ ReportInv
    BY <1>1, <1>2, <1>5 DEF ThreadInv, LeaseInv, ReportInv
  <1> QED BY <1>8, <1>9, <1>10, <1>11, <1>12 DEF IInv

LEMMA Step == ASSUME IInv, [Next]_vars PROVE IInv'
  <1>1. CASE StartSteps
    BY <1>1, CreateLeaseStep, DirectoryStep, ThreadStep, RegisterStep, PlaceStep DEF StartSteps
  <1>2. CASE HandleSteps
    BY <1>2, ReadReceiptStep, ApplyReceiptStep, ApplyRefusedStep, StopPersistsStep, StopSendsStep
       DEF HandleSteps, Handles
  <1>3. CASE EndSteps
    BY <1>3, PlaceStep, CancelStep, ReconcileStep, WindowStep, HostEndsStep DEF EndSteps
  <1>4. CASE OwnerSteps \/ TargetEnds
    BY <1>4, OwnerSideStep
  <1>5. CASE UNCHANGED vars
    <2>1. UNCHANGED <<lease, ownerVars, pipe, thread, hands, pc, cancelled, host, reported, faults>>
      BY <1>5 DEF vars, hostVars
    <2>2. HostTypes
      BY Types DEF IInv
    <2>3. HostTypes'
      BY <2>1, <2>2 DEF HostTypes
    <2> QED BY <2>1, <2>3, PlaceOnly
  <1> QED BY <1>1, <1>2, <1>3, <1>4, <1>5 DEF Next

\* The inductive invariant holds throughout.
THEOREM Inductive == Spec => []IInv
  <1>1. Init => IInv
    BY Initial
  <1>2. IInv /\ [Next]_vars => IInv'
    BY Step
  <1> QED BY <1>1, <1>2, PTL DEF Spec

\* Every variable of the supervised process keeps its type, for any bounds.
THEOREM TypeCorrect == Spec => []TypeOK
  BY Inductive, PTL DEF IInv

\* What the stored lease says of the process group is true, whichever of the host and the owner
\* dies and whenever: transition never stores failed while a target runs or may still be
\* launched, nor exited while the group is alive.
THEOREM LeaseIsAlwaysTrue == Spec => []LeaseIsTrue
  <1>1. IInv => LeaseIsTrue
    BY DEF IInv, LeaseInv, LeaseIsTrue, Never, OwnerEnded
  <1> QED BY <1>1, Inductive, PTL

\* What execute or reconcile hands to the router as final is true of the process group and is
\* never contradicted by a later report.
THEOREM ReportIsAlwaysTrue == Spec => []ReportIsTrue
  <1>1. IInv => ReportIsTrue
    <2> SUFFICES ASSUME IInv PROVE ReportIsTrue
      OBVIOUS
    <2>1. "failed" \in reported => target \in {"none", "gone"} /\ owner.pc # "launch"
      BY DEF IInv, ReportInv, LeaseInv, StartInv, OwnerInv, Never, OwnerEnded
    <2>2. "succeeded" \in reported => target = "gone" /\ ended = "itself"
      BY DEF IInv, ReportInv, LeaseInv
    <2>3. ~({"succeeded", "failed"} \subseteq reported)
      BY DEF IInv, ReportInv
    <2> QED BY <2>1, <2>2, <2>3 DEF ReportIsTrue
  <1> QED BY <1>1, Inductive, PTL

\* No step, of a run or of a reconciliation with a snapshot however old, rewrites a terminal lease.
THEOREM TerminalLeaseIsFinal == Spec => TerminalIsFinal
  <1>1. IInv /\ [Next]_vars => [lease.state \in Terminal => UNCHANGED lease]_lease
    <2> SUFFICES ASSUME IInv, Next, lease.state \in Terminal PROVE UNCHANGED lease
      BY DEF vars
    <2> USE DEF IInv
    <2>0. lease.state \notin Active \cup {"none"}
      BY DEF Terminal, Active
    <2>1. ASSUME NEW h \in Handles, NEW s, hands[h].state \in Open, Allowed(h, s) PROVE FALSE
      BY <2>0, <2>1, AllowedFacts
    <2>2. CASE StartSteps
      BY <2>0, <2>2 DEF StartSteps, CreateLease, MakeDirectory, DirectoryFails, ThreadSpawns, ThreadRefused,
           SendStart, ThreadSends, StartFails, RegisterHandle, StartReturns, StartGivesUp, At,
           StartInv, Nothing, Active
    <2>3. ASSUME NEW h \in Handles, ReadReceipt(h) \/ ApplyReceipt(h) \/ ApplyRefused(h)
          PROVE  UNCHANGED lease
      <3>1. CASE ApplyReceipt(h)
        <4>1. hands[h].state \in Open
          BY <3>1 DEF ApplyReceipt, HandInv
        <4> QED BY <2>1, <3>1, <4>1 DEF ApplyReceipt
      <3> QED BY <2>3, <3>1 DEF ReadReceipt, ApplyRefused
    <2>4. ASSUME NEW t \in {"run", "closer"}, StopPersists(t) \/ StopSends(t)
          PROVE  UNCHANGED lease
      <3>1. hands["own"].state = "running" /\ Fresh("own") => lease.state = "running"
        BY DEF HandInv, Fresh, Handles
      <3> QED BY <2>0, <2>4, <3>1 DEF StopPersists, StopSends, Active
    <2>5. CASE WindowEnds
      <3>1. hands["recovery"].state \in Open
        BY <2>5 DEF WindowEnds, HandInv, Active, Open, Terminal, Handles
      <3> QED BY <2>1, <2>5, <3>1 DEF WindowEnds, Handles
    <2>6. CASE EndSteps /\ ~WindowEnds
      BY <2>0, <2>6 DEF EndSteps, WaitReturns, DrainReturns, CancelRun, StartReconcile,
           ReconcileReturns, StartClose, CloseReturns, HostDies, HostExits, HostRestarts, HostEnds, Active
    <2>7. CASE OwnerSteps \/ TargetEnds
      BY <2>7 DEF OwnerSteps, ReadStart, Launch, PublishRunning, ReadControls, LimitStops, IoFails,
           NoticeExit, Escalate, Finish, LoopFails, EmergencyCleanup, OwnerDies, TargetEnds, OwnerStep
    <2> QED BY <2>2, <2>3, <2>4, <2>5, <2>6, <2>7 DEF Next, HandleSteps, EndSteps, Handles
  <1> QED BY <1>1, Inductive, PTL DEF TerminalIsFinal, Spec
=============================================================================
