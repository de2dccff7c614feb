--------------------------- MODULE StdioConnection ---------------------------
(***************************************************************************)
(* One connection between the SDK and the app server it runs as a child:    *)
(* SubprocessAgentTransport (sdk/subprocess.py) on one side, run_stdio      *)
(* (app_server/stdio.py) and AgentProtocolServer.process_frame on the       *)
(* other, with the two pipes between them.                                  *)
(*                                                                          *)
(* Both sides are asyncio programs: a step is the code between two awaits.  *)
(* The connection starts after the handshake, in ConnectionState.READY. A   *)
(* frame is the call it belongs to; its JSON-RPC id is IdOf of that call,   *)
(* which two calls may share (the transport takes ids from its callers).    *)
(***************************************************************************)
EXTENDS Naturals, FiniteSets, Sequences

CONSTANTS Calls,              \* exchanges the SDK's users make, each once
          IdOf,               \* the JSON-RPC id each one carries
          NoCall,             \* absent entry; also a response whose id is null
          MaxPendingRequests, \* slots of the SDK's _RequestCapacity
          ServerPending,      \* slots of run_stdio's semaphore
          MaxOutbound,        \* length of the server's outbox
          PipeSize,           \* frames a pipe takes before its writer blocks
          MaxCancels,         \* bound: calls that are cancelled
          MaxFaults           \* bound: crashes, broken pipes, refused ids

ASSUME ConnectionAssumption ==
    /\ IsFiniteSet(Calls) /\ NoCall \notin Calls
    /\ {MaxPendingRequests, ServerPending, MaxOutbound, PipeSize} \subseteq Nat \ {0}
    /\ {MaxCancels, MaxFaults} \subseteq Nat

Ids == {IdOf[c] : c \in Calls}

VARIABLES
    pc,         \* where each exchange() is
    future,     \* its Future: "none", "open", "value" or "error"
    answer,     \* the call whose response settled it
    pending,    \* _ResponseRouter.pending: id -> call
    abandoned,  \* _ResponseRouter.abandoned
    free,       \* value of the capacity semaphore
    failure,    \* _ResponseRouter.failure is set
    process,    \* the child: "none", "starting" (start_lock is held) or "up"
    writeLock,  \* holder of _ChildProcess.write_lock
    reading,    \* the reader task is running
    closing,    \* progress of close(): "open" ... "closed"
    toServer,   \* the child's stdin
    toClient,   \* the child's stdout
    server,     \* "ready", "closing" (run_stdio's finally) or "exited"
    stopping,   \* run_stdio's stopping event
    line,       \* the line the main loop has read and not yet dispatched
    task,       \* dispatch tasks: call -> "none", "admit", "reply" or "refuse"
    outbox,     \* _StdioWriter._outbox
    writing,    \* the writer thread is alive
    cancels, faults,
    leaked,     \* history: calls cancelled with a slot in hand
    robbed      \* history: calls whose entry another call's cancellation took

sdk      == <<pc, future, answer, pending, abandoned, free, failure>>
child    == <<process, writeLock, reading, closing>>
wire     == <<toServer, toClient>>
host     == <<server, stopping, line, task, outbox, writing>>
history  == <<leaked, robbed>>
vars     == <<sdk, child, wire, host, cancels, faults, history>>

InHand     == {"granted", "refused"}
Registered == {"lock", "drain", "wait"}
Ended      == {"answered", "failed", "cancelled"}

Init ==
    /\ pc = [c \in Calls |-> "idle"]
    /\ future = [c \in Calls |-> "none"]
    /\ answer = [c \in Calls |-> NoCall]
    /\ pending = [i \in Ids |-> NoCall]
    /\ abandoned = {}
    /\ free = MaxPendingRequests
    /\ failure = FALSE
    /\ process = "none" /\ writeLock = NoCall /\ reading = FALSE /\ closing = "open"
    /\ toServer = <<>> /\ toClient = <<>>
    /\ server = "ready" /\ stopping = FALSE /\ line = NoCall
    /\ task = [c \in Calls |-> "none"]
    /\ outbox = <<>> /\ writing = TRUE
    /\ cancels = 0 /\ faults = 0
    /\ leaked = {} /\ robbed = {}

Goto(c, place) == pc' = [pc EXCEPT ![c] = place]

PendingCalls == {c \in Calls : \E i \in Ids : pending[i] = c}

-----------------------------------------------------------------------------
(* _ResponseRouter *)

\* Mutant: the slots of the abandoned requests are forgotten.
FailForgetsAbandoned ==
    /\ failure' = TRUE
    /\ future' = [c \in Calls |-> IF c \in PendingCalls THEN "error" ELSE future[c]]
    /\ free' = free + Cardinality(PendingCalls)
    /\ pending' = [i \in Ids |-> NoCall]
    /\ abandoned' = {}

\* Mutant: the pending calls are dropped without being told.
FailTellsNobody ==
    /\ failure' = TRUE
    /\ free' = free + Cardinality(PendingCalls) + Cardinality(abandoned)
    /\ pending' = [i \in Ids |-> NoCall]
    /\ abandoned' = {}
    /\ UNCHANGED future

\* fail: every pending call gets the error and all slots come back.
Fail ==
    /\ failure' = TRUE
    /\ future' = [c \in Calls |-> IF c \in PendingCalls THEN "error" ELSE future[c]]
    /\ free' = free + Cardinality(PendingCalls) + Cardinality(abandoned)
    /\ pending' = [i \in Ids |-> NoCall]
    /\ abandoned' = {}

\* discard, after any exception but a cancellation: by id, whoever is behind it.
Discard(c) ==
    /\ pending' = [pending EXCEPT ![IdOf[c]] = NoCall]
    /\ free' = IF pending[IdOf[c]] = NoCall THEN free ELSE free + 1
    /\ UNCHANGED <<future, answer, abandoned, failure>>

\* Mutant: a cancelled call gives its id and its slot back at once.
AbandonFrees(c) ==
    /\ pending' = [pending EXCEPT ![IdOf[c]] = NoCall]
    /\ free' = IF pending[IdOf[c]] = NoCall THEN free ELSE free + 1
    /\ UNCHANGED <<abandoned, robbed>>

\* abandon: the id moves to the tombstones and keeps its slot. The entry is found
\* by id, so it may belong to a later call.
Abandon(c) ==
    LET entry == pending[IdOf[c]] IN
    /\ pending' = [pending EXCEPT ![IdOf[c]] = NoCall]
    /\ abandoned' = IF entry = NoCall THEN abandoned ELSE abandoned \cup {IdOf[c]}
    /\ robbed' = robbed \cup ({entry} \ {c, NoCall})
    /\ UNCHANGED free

-----------------------------------------------------------------------------
(* exchange() *)

\* The call enters start(); the first one holds start_lock and creates the child.
Call(c) ==
    /\ pc[c] = "idle" /\ process # "starting"
    /\ \/ /\ closing # "open" \/ failure
          /\ Goto(c, "failed") /\ UNCHANGED process
       \/ /\ closing = "open" /\ ~failure /\ process = "none"
          /\ Goto(c, "start") /\ process' = "starting"
       \/ /\ closing = "open" /\ ~failure /\ process = "up"
          /\ Goto(c, "reserve") /\ UNCHANGED process
    /\ UNCHANGED <<future, answer, pending, abandoned, free, failure, writeLock,
                   reading, closing, wire, host, cancels, faults, history>>

\* create_subprocess_exec returns, or fails and leaves the next call to try again.
Started(c) ==
    /\ pc[c] = "start"
    /\ \/ process' = "up" /\ reading' = TRUE /\ Goto(c, "reserve")
       \/ process' = "none" /\ UNCHANGED reading /\ Goto(c, "failed")
    /\ UNCHANGED <<future, answer, pending, abandoned, free, failure, writeLock,
                   closing, wire, host, cancels, faults, history>>

\* reserve: a slot, or the router's failure, wakes the call. With a slot it still
\* awaits the gather of reserve's finally: as "granted" if the connection works, or as
\* "refused" if it failed and the slot is to be given back after the gather.
Reserve(c) ==
    /\ pc[c] = "reserve"
    /\ \/ failure /\ Goto(c, "failed") /\ UNCHANGED free
       \/ free > 0 /\ free' = free - 1 /\ Goto(c, IF failure THEN "refused" ELSE "granted")
    /\ UNCHANGED <<future, answer, pending, abandoned, failure, child, wire, host,
                   cancels, faults, history>>

\* The last statement of reserve's finally.
GiveBack(c) ==
    /\ pc[c] = "refused" /\ free' = free + 1 /\ Goto(c, "failed")
    /\ UNCHANGED <<future, answer, pending, abandoned, failure, child, wire, host,
                   cancels, faults, history>>

\* register, and the test of _closed right after it.
Register(c) ==
    /\ pc[c] = "granted"
    /\ \/ /\ pending[IdOf[c]] # NoCall \/ IdOf[c] \in abandoned
          /\ free' = free + 1 /\ Goto(c, "failed") /\ UNCHANGED <<pending, future>>
       \/ /\ pending[IdOf[c]] = NoCall /\ IdOf[c] \notin abandoned /\ closing # "open"
          /\ free' = free + 1 /\ Goto(c, "failed") /\ UNCHANGED <<pending, future>>
       \/ /\ pending[IdOf[c]] = NoCall /\ IdOf[c] \notin abandoned /\ closing = "open"
          /\ pending' = [pending EXCEPT ![IdOf[c]] = c]
          /\ future' = [future EXCEPT ![c] = "open"]
          /\ Goto(c, "lock") /\ UNCHANGED free
    /\ UNCHANGED <<answer, abandoned, failure, child, wire, host, cancels, faults, history>>

\* write under write_lock. A child that is gone is noticed here or, when its exit
\* status has not been collected yet, at the drain or by the reader.
Write(c) ==
    /\ pc[c] = "lock" /\ writeLock = NoCall
    /\ \/ /\ failure \/ server = "exited"
          /\ Discard(c) /\ Goto(c, "failed")
          /\ UNCHANGED <<writeLock, toServer>>
       \/ /\ ~failure
          /\ writeLock' = c /\ Goto(c, "drain")
          /\ toServer' = Append(toServer, c)
          /\ UNCHANGED <<future, answer, pending, abandoned, free, failure>>
    /\ UNCHANGED <<process, reading, closing, toClient, host, cancels, faults, history>>

\* drain returns once the pipe has taken the frame. It fails only when the pipe
\* breaks with a part of the frame still to be sent.
Drain(c) ==
    /\ pc[c] = "drain"
    /\ \/ /\ Len(toServer) <= PipeSize \/ server = "exited"
          /\ Goto(c, "wait")
          /\ UNCHANGED <<future, answer, pending, abandoned, free, failure>>
       \/ /\ server = "exited" /\ \E n \in DOMAIN toServer : toServer[n] = c
          /\ Discard(c) /\ Goto(c, "failed")
    /\ writeLock' = NoCall
    /\ UNCHANGED <<process, reading, closing, wire, host, cancels, faults, history>>

\* The shielded future is settled and the call resumes.
Return(c) ==
    /\ pc[c] = "wait"
    /\ \/ /\ future[c] = "value" /\ Goto(c, "answered")
          /\ UNCHANGED <<future, answer, pending, abandoned, free, failure>>
       \/ future[c] = "error" /\ Discard(c) /\ Goto(c, "failed")
    /\ UNCHANGED <<child, wire, host, cancels, faults, history>>

\* The task of the call is cancelled at one of its awaits. Inside the gather of
\* reserve's finally the slot counts as transferred, or the statement that gives it
\* back is never reached.
Cancel(c) ==
    /\ cancels < MaxCancels /\ cancels' = cancels + 1
    /\ Goto(c, "cancelled")
    /\ \/ /\ pc[c] = "start" /\ process' = "none"
          /\ UNCHANGED <<pending, abandoned, free, writeLock, history>>
       \/ /\ pc[c] = "reserve"
          /\ UNCHANGED <<pending, abandoned, free, process, writeLock, history>>
       \/ /\ pc[c] \in InHand /\ leaked' = leaked \cup {c}
          /\ UNCHANGED <<pending, abandoned, free, process, writeLock, robbed>>
       \/ /\ pc[c] \in Registered /\ Abandon(c)
          /\ writeLock' = IF writeLock = c THEN NoCall ELSE writeLock
          /\ UNCHANGED <<process, leaked>>
    /\ UNCHANGED <<future, answer, failure, reading, closing, wire, host, faults>>

-----------------------------------------------------------------------------
(* The reader task: _ResponseRouter.read *)

\* A null id, or an id nobody waits for, fails the whole connection.
ReadUnknown ==
    LET c == Head(toClient) IN
    /\ reading /\ toClient # <<>>
    /\ toClient' = Tail(toClient)
    /\ c # NoCall => IdOf[c] \notin abandoned /\ pending[IdOf[c]] = NoCall
    /\ Fail /\ reading' = FALSE /\ UNCHANGED answer

\* The late response of a cancelled call ends its tombstone.
ReadLate ==
    LET c == Head(toClient) IN
    /\ reading /\ toClient # <<>> /\ c # NoCall
    /\ toClient' = Tail(toClient)
    /\ IdOf[c] \in abandoned
    /\ abandoned' = abandoned \ {IdOf[c]}
    /\ free' = free + 1
    /\ UNCHANGED <<future, answer, pending, failure, reading>>

ReadResponse ==
    LET c == Head(toClient)
        waiter == pending[IdOf[c]]
    IN
    /\ reading /\ toClient # <<>> /\ c # NoCall
    /\ toClient' = Tail(toClient)
    /\ IdOf[c] \notin abandoned /\ waiter # NoCall
    /\ pending' = [pending EXCEPT ![IdOf[c]] = NoCall]
    /\ free' = free + 1
    /\ future' = [future EXCEPT ![waiter] = "value"]
    /\ answer' = [answer EXCEPT ![waiter] = c]
    /\ UNCHANGED <<abandoned, failure, reading>>

ReadEof ==
    /\ reading /\ toClient = <<>> /\ server = "exited"
    /\ Fail /\ reading' = FALSE /\ UNCHANGED <<answer, toClient>>

Read ==
    /\ ReadUnknown \/ ReadLate \/ ReadResponse \/ ReadEof
    /\ UNCHANGED <<pc, process, writeLock, closing, toServer, host, cancels, faults, history>>

-----------------------------------------------------------------------------
\* The server's process is gone, with all it had in memory.
Gone ==
    /\ server' = "exited" /\ stopping' = TRUE /\ line' = NoCall
    /\ task' = [c \in Calls |-> "none"]
    /\ outbox' = <<>> /\ writing' = FALSE

(* close() and _ChildProcess.shutdown *)

Close ==
    /\ closing = "open" /\ closing' = "locking"
    /\ Fail
    /\ UNCHANGED <<pc, answer, process, writeLock, reading, wire, host, cancels, faults, history>>

\* shutdown takes start_lock, then write_lock, and closes stdin.
CloseStdin ==
    /\ closing = "locking" /\ process # "starting" /\ writeLock = NoCall
    /\ closing' = IF process = "none" THEN "closed" ELSE "flushing"
    /\ UNCHANGED <<sdk, process, writeLock, reading, wire, host, cancels, faults, history>>

\* wait_closed: what was written has left for the child, or the child is gone.
StdinClosed ==
    /\ closing = "flushing" /\ (Len(toServer) <= PipeSize \/ server = "exited")
    /\ closing' = "waiting"
    /\ UNCHANGED <<sdk, process, writeLock, reading, wire, host, cancels, faults, history>>

\* _wait_for_exit: terminate after the first timeout, kill after the second. The
\* terminated child may or may not go.
Escalate ==
    /\ server # "exited"
    /\ \/ closing = "waiting" /\ closing' = "terminated" /\ (Gone \/ UNCHANGED host)
       \/ closing = "terminated" /\ closing' = "killed" /\ Gone
    /\ UNCHANGED <<sdk, process, writeLock, reading, wire, cancels, faults, history>>

\* The child is collected and the reader has met the end of its output.
CloseDone ==
    /\ closing \in {"waiting", "terminated", "killed"} /\ server = "exited" /\ ~reading
    /\ closing' = "closed"
    /\ UNCHANGED <<sdk, process, writeLock, reading, wire, host, cancels, faults, history>>

-----------------------------------------------------------------------------
(* run_stdio: the main loop, its dispatch tasks and the writer thread *)

Active == {c \in Calls : task[c] # "none"}

StdinAtEof == toServer = <<>> /\ closing \in {"flushing", "waiting", "terminated", "killed"}

\* _read_until_stopping returns a line unless the loop has to stop.
ReadLine ==
    /\ process = "up" /\ server = "ready" /\ line = NoCall
    /\ ~stopping /\ writing /\ toServer # <<>>
    /\ line' = Head(toServer) /\ toServer' = Tail(toServer)
    /\ UNCHANGED <<sdk, child, toClient, server, stopping, task, outbox, writing,
                   cancels, faults, history>>

\* The line waits for a slot, also when the loop should stop by now.
Dispatch ==
    /\ server = "ready" /\ line # NoCall /\ Cardinality(Active) < ServerPending
    /\ task' = [task EXCEPT ![line] = "admit"] /\ line' = NoCall
    /\ UNCHANGED <<sdk, child, wire, server, stopping, outbox, writing, cancels, faults, history>>

\* process_frame up to its second test of the state. The frame is served, or refused
\* by the input protection, under its id; a refusal of the id itself and a closing
\* server answer with a null id. What is admitted is answered also when the server
\* begins to close before the service is done.
Admit(c) ==
    /\ server # "exited" /\ task[c] = "admit"
    /\ \/ server = "ready" /\ task' = [task EXCEPT ![c] = "reply"] /\ UNCHANGED faults
       \/ server = "closing" /\ task' = [task EXCEPT ![c] = "refuse"] /\ UNCHANGED faults
       \/ /\ faults < MaxFaults /\ faults' = faults + 1
          /\ task' = [task EXCEPT ![c] = "refuse"]
    /\ UNCHANGED <<sdk, child, wire, server, stopping, line, outbox, writing, cancels, history>>

\* Mutant: an answer that finds the outbox full is dropped and the loop goes on.
EnqueueDrops(c) ==
    /\ server # "exited" /\ task[c] \in {"reply", "refuse"}
    /\ outbox' = IF writing /\ Len(outbox) < MaxOutbound
                 THEN Append(outbox, IF task[c] = "reply" THEN c ELSE NoCall) ELSE outbox
    /\ task' = [task EXCEPT ![c] = "none"]
    /\ UNCHANGED <<sdk, child, wire, server, stopping, line, writing, cancels, faults, history>>

\* enqueue: room for the answer; a full outbox until the timeout; a writer that is
\* gone. The last two lose the answer and stop the loop.
Enqueue(c) ==
    /\ server # "exited" /\ task[c] \in {"reply", "refuse"}
    /\ task' = [task EXCEPT ![c] = "none"]
    /\ \/ /\ writing /\ Len(outbox) < MaxOutbound
          /\ outbox' = Append(outbox, IF task[c] = "reply" THEN c ELSE NoCall)
          /\ UNCHANGED stopping
       \/ writing /\ Len(outbox) >= MaxOutbound /\ stopping' = TRUE /\ UNCHANGED outbox
       \/ ~writing /\ stopping' = TRUE /\ UNCHANGED outbox
    /\ UNCHANGED <<sdk, child, wire, server, line, writing, cancels, faults, history>>

\* The writer thread moves one frame; it blocks while the pipe is full.
WriteFrame ==
    /\ server # "exited" /\ writing /\ outbox # <<>> /\ Len(toClient) < PipeSize
    /\ toClient' = Append(toClient, Head(outbox)) /\ outbox' = Tail(outbox)
    /\ UNCHANGED <<sdk, child, toServer, server, stopping, line, task, writing, cancels,
                   faults, history>>

WriterFails ==
    /\ process = "up" /\ server # "exited" /\ writing /\ faults < MaxFaults
    /\ writing' = FALSE /\ faults' = faults + 1
    /\ UNCHANGED <<sdk, child, wire, server, stopping, line, task, outbox, cancels, history>>

\* The loop ends at EOF, when it should stop or when the writer is gone; its
\* finally closes the server first.
StopLoop ==
    /\ process = "up" /\ server = "ready" /\ line = NoCall
    /\ stopping \/ ~writing \/ StdinAtEof
    /\ server' = "closing" /\ stopping' = TRUE
    /\ UNCHANGED <<sdk, child, wire, line, task, outbox, writing, cancels, faults, history>>

\* Once its tasks are gathered the writer is drained, or given up on, and the
\* process ends.
Exit ==
    /\ server = "closing" /\ Active = {}
    /\ outbox = <<>> \/ ~writing \/ Len(toClient) >= PipeSize
    /\ Gone
    /\ UNCHANGED <<sdk, child, wire, cancels, faults, history>>

Crash ==
    /\ process = "up" /\ server # "exited" /\ faults < MaxFaults
    /\ Gone /\ faults' = faults + 1
    /\ UNCHANGED <<sdk, child, wire, cancels, history>>

-----------------------------------------------------------------------------

Client(c) == Started(c) \/ Reserve(c) \/ GiveBack(c) \/ Register(c) \/ Write(c) \/ Drain(c) \/ Return(c)
Serve(c)  == Admit(c) \/ Enqueue(c)
Shutdown  == CloseStdin \/ StdinClosed \/ Escalate \/ CloseDone
Loop      == ReadLine \/ Dispatch \/ StopLoop \/ Exit

Next ==
    \/ \E c \in Calls : Call(c) \/ Client(c) \/ Cancel(c) \/ Serve(c)
    \/ Read \/ Close \/ Shutdown \/ Loop \/ WriteFrame \/ WriterFails \/ Crash

Spec == Init /\ [][Next]_vars

Progress == (\E c \in Calls : Client(c) \/ Serve(c)) \/ Read \/ Shutdown \/ Loop \/ WriteFrame

\* The two event loops and the threads do not all stop while one of them has a step
\* to take, the service answers what it was asked, timeouts fire. Users need
\* neither call, nor cancel, nor close.
FairSpec == Spec /\ WF_vars(Progress)

-----------------------------------------------------------------------------

TypeOK ==
    /\ pc \in [Calls -> {"idle", "start", "reserve"} \cup InHand \cup Registered \cup Ended]
    /\ future \in [Calls -> {"none", "open", "value", "error"}]
    /\ answer \in [Calls -> Calls \cup {NoCall}]
    /\ pending \in [Ids -> Calls \cup {NoCall}]
    /\ abandoned \subseteq Ids
    /\ free \in 0 .. MaxPendingRequests
    /\ failure \in BOOLEAN /\ reading \in BOOLEAN /\ stopping \in BOOLEAN /\ writing \in BOOLEAN
    /\ process \in {"none", "starting", "up"}
    /\ {writeLock, line} \subseteq Calls \cup {NoCall}
    /\ closing \in {"open", "locking", "flushing", "waiting", "terminated", "killed", "closed"}
    /\ server \in {"ready", "closing", "exited"}
    /\ toServer \in Seq(Calls)
    /\ toClient \in Seq(Calls \cup {NoCall}) /\ outbox \in Seq(Calls \cup {NoCall})
    /\ task \in [Calls -> {"none", "admit", "reply", "refuse"}]
    /\ cancels \in 0 .. MaxCancels /\ faults \in 0 .. MaxFaults
    /\ leaked \subseteq Calls /\ robbed \subseteq Calls

\* No exchange ever returns another request's response, also when an id is used
\* again after a cancelled call whose response is still to come (register, abandon
\* and the tombstones of read).
AnswersAreOwn == \A c \in Calls : answer[c] \in {c, NoCall}

\* Every slot of the capacity is free, behind an entry, behind a tombstone or in
\* the hand of a call that is about to register or to give it back; only a cancellation
\* inside reserve's finally loses one, for good.
SlotsAreAccountedFor ==
    /\ free >= 0
    /\ free + Cardinality(PendingCalls) + Cardinality(abandoned)
            + Cardinality({c \in Calls : pc[c] \in InHand}) + Cardinality(leaked)
       = MaxPendingRequests

\* A request that was registered is answered or fails, whatever the server's
\* writer, its outbox, its input protection or the child do: in the end no call is
\* between register and its result. Only a call whose entry another call's
\* cancellation took is left waiting.
RegisteredCallEnds == <>[](\A c \in Calls \ robbed : pc[c] \notin Registered)

\* close() gets to its end and so does every call under way, those that wait for
\* a slot or for the child to start included.
CloseSettles ==
    closing # "open" ~> (/\ closing = "closed"
                         /\ \A c \in Calls \ robbed : pc[c] \in Ended \cup {"idle"})
=============================================================================
